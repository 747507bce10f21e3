----------------------------- MODULE Pagination -----------------------------
(***************************************************************************)
(* The arithmetic of paginated lists, and which rows a page can hold.      *)
(*                                                                         *)
(*   src/src/shared/dtos/pagination.dto.ts                                 *)
(***************************************************************************)
EXTENDS Naturals, FiniteSets

(* Mutant: pages counted from zero.                                        *)
SkipFromZero(page, limit) == page * limit

(* PaginationQueryDto.skip.                                                *)
Skip(page, limit) == (page - 1) * limit

(* Mutant: Math.floor for Math.ceil.                                       *)
TotalPagesFloor(total, limit) == total \div limit

(* PaginationMetaDto.totalPages: Math.ceil(total / limit).                 *)
TotalPages(total, limit) == (total + limit - 1) \div limit

(***************************************************************************)
(* The orders in which ORDER BY created_at DESC may list the rows of S,    *)
(* as positions from 1: among rows with the same stamp the database may    *)
(* choose, and choose again for the next query.                            *)
(***************************************************************************)
Orders(S, stamp) ==
  {pos \in [S -> 1..Cardinality(S)] :
     \A i, j \in S : /\ pos[i] = pos[j] => i = j
                     /\ stamp[i] > stamp[j] => pos[i] < pos[j]}

(* OFFSET skip LIMIT limit.                                                *)
OnPage(pos, page, limit) ==
  {i \in DOMAIN pos : /\ pos[i] > Skip(page, limit)
                      /\ pos[i] <= Skip(page, limit) + limit}
=============================================================================
