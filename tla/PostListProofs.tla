---------------------------- MODULE PostListProofs ----------------------------
(***************************************************************************)
(* The lists of posts, for every number of accounts, posts and requests    *)
(* and all page sizes: which rows a page holds, and that a client that     *)
(* walks through the pages misses none.                                    *)
(***************************************************************************)
EXTENDS PostsProofs, FiniteSetTheorems

-----------------------------------------------------------------------------
(* Pagination. *)

(* A page is one of those that the total makes when the rows before it do  *)
(* not exhaust the total (pagination.dto.ts:52-57).                        *)
LEMMA PageCount ==
  ASSUME NEW total \in Nat, NEW limit \in Nat \ {0}, NEW page \in Nat \ {0}
  PROVE  page <= TotalPages(total, limit) <=> Skip(page, limit) < total
<1> DEFINE q == (total + limit - 1) \div limit
           m == (total + limit - 1) % limit
<1>1. /\ q \in Nat /\ m \in 0..(limit - 1)
      /\ total + limit - 1 = q * limit + m
  OBVIOUS
<1> HIDE DEF q, m
<1>2. Skip(page, limit) = page * limit - limit /\ page * limit \in Nat
  BY DEF Skip
<1>3. CASE page <= q
  <2>1. page * limit <= q * limit
    BY <1>1, <1>3
  <2> QED BY <1>1, <1>2, <1>3, <2>1 DEF TotalPages, q
<1>4. CASE page > q
  <2>1. q * limit + limit <= page * limit
    BY <1>1, <1>4
  <2> QED BY <1>1, <1>2, <1>4, <2>1 DEF TotalPages, q
<1> QED BY <1>1, <1>3, <1>4

LEMMA SkipIsNat ==
  ASSUME NEW limit \in Nat \ {0}, NEW page \in Nat \ {0}
  PROVE  /\ Skip(page, limit) \in Nat
         /\ Skip(page + 1, limit) = Skip(page, limit) + limit
BY DEF Skip

(* The rows at the places from lo to hi of an order are no more than there *)
(* are places.                                                             *)
LEMMA AtMost ==
  ASSUME NEW S, NEW stamp, NEW pos \in Orders(S, stamp), NEW A \in SUBSET S,
         NEW lo \in Int, NEW hi \in Int, \A i \in A : pos[i] \in lo..hi
  PROVE  /\ IsFiniteSet(A) /\ Cardinality(A) \in Nat
         /\ Cardinality(A) <= IF lo > hi THEN 0 ELSE hi - lo + 1
<1> DEFINE f == [i \in A |-> pos[i]]
<1>1. f \in Injection(A, lo..hi)
  BY DEF Injection, IsInjective, Orders
<1>2. IsFiniteSet(lo..hi) /\ Cardinality(lo..hi) = IF lo > hi THEN 0 ELSE hi - lo + 1
  BY FS_Interval
<1> HIDE DEF f
<1> QED BY <1>1, <1>2, FS_Injection, FS_CardinalityType

(* How many of total rows are on a page: those that are left, but no more  *)
(* than the limit.                                                         *)
Fits(on, total, page, limit) ==
  /\ Skip(page, limit) >= total => on = 0
  /\ Skip(page, limit) < total /\ total <= Skip(page, limit) + limit
       => on = total - Skip(page, limit)
  /\ Skip(page, limit) + limit < total => on = limit

(* Whatever the order, a page holds as many rows as that.                  *)
LEMMA PageSize ==
  ASSUME NEW S, IsFiniteSet(S), NEW stamp, NEW pos \in Orders(S, stamp),
         NEW limit \in Nat \ {0}, NEW page \in Nat \ {0}
  PROVE  Fits(Cardinality(OnPage(pos, page, limit)), Cardinality(S), page, limit)
<1> DEFINE total == Cardinality(S)
           skip  == Skip(page, limit)
           on    == OnPage(pos, page, limit)
           last  == IF total <= skip + limit THEN total ELSE skip + limit
           f     == [i \in on |-> pos[i]]
<1>1. total \in Nat /\ skip \in Nat
  BY FS_CardinalityType, SkipIsNat
<1>2. pos \in [S -> 1..total] /\ \A i, j \in S : pos[i] = pos[j] => i = j
  BY DEF Orders
<1>3. pos \in Surjection(S, 1..total)
  <2>1. pos \in Injection(S, 1..total)
    BY <1>2 DEF Injection, IsInjective
  <2>2. IsFiniteSet(1..total) /\ Cardinality(1..total) = total
    BY <1>1, FS_Interval
  <2> QED BY <2>1, <2>2, FS_Injection
<1>4. on = {i \in S : pos[i] > skip /\ pos[i] <= skip + limit}
  BY <1>2 DEF OnPage
<1> HIDE DEF total, skip, on
<1>5. last \in Nat
  BY <1>1
<1>6. \A k \in 1..total : k \in (skip + 1)..last <=> k > skip /\ k <= skip + limit
  BY <1>1
<1>7. (skip + 1)..last \subseteq 1..total
  BY <1>1
<1> HIDE DEF last
<1>8. f \in Injection(on, (skip + 1)..last)
  <2>1. \A i \in on : i \in S /\ pos[i] \in (skip + 1)..last
    BY <1>2, <1>4, <1>6
  <2>2. f \in [on -> (skip + 1)..last]
    BY <2>1
  <2>3. \A i, j \in on : f[i] = f[j] => i = j
    BY <1>2, <2>1
  <2> HIDE DEF f
  <2> QED BY <2>2, <2>3 DEF Injection, IsInjective
<1>9. f \in Surjection(on, (skip + 1)..last)
  <2>1. f \in [on -> (skip + 1)..last]
    BY <1>8 DEF Injection
  <2>2. \A k \in (skip + 1)..last : \E i \in on : f[i] = k
    <3> SUFFICES ASSUME NEW k \in (skip + 1)..last PROVE \E i \in on : f[i] = k
      OBVIOUS
    <3>1. k \in 1..total /\ k > skip /\ k <= skip + limit
      BY <1>6, <1>7
    <3>2. PICK i \in S : pos[i] = k
      BY <1>3, <3>1 DEF Surjection
    <3>3. i \in on
      BY <1>4, <3>1, <3>2
    <3> QED BY <3>2, <3>3
  <2> HIDE DEF f
  <2> QED BY <2>1, <2>2 DEF Surjection
<1> HIDE DEF f
<1>10. /\ IsFiniteSet((skip + 1)..last)
       /\ Cardinality((skip + 1)..last) = IF skip + 1 > last THEN 0 ELSE last - (skip + 1) + 1
  BY <1>1, <1>5, FS_Interval
<1>11. Cardinality(on) = Cardinality((skip + 1)..last)
  BY <1>8, <1>9, <1>10, FS_Injection
<1>12. Cardinality(on) = IF skip + 1 > last THEN 0 ELSE last - skip
  BY <1>1, <1>5, <1>10, <1>11
<1> QED BY <1>1, <1>12 DEF Fits, total, skip, on, last

(* When the stamps follow the ids, the place of a row is the number of     *)
(* rows that are as new or newer.                                          *)
LEMMA PlaceIs ==
  ASSUME NEW S \in SUBSET Nat, IsFiniteSet(S), NEW stamp, NEW pos \in Orders(S, stamp),
         \A i, j \in S : i > j => stamp[i] > stamp[j], NEW i \in S
  PROVE  pos[i] = Cardinality({j \in S : j >= i})
<1> DEFINE total == Cardinality(S)
           A == {j \in S : j >= i}
           B == {j \in S : j < i}
<1>1. total \in Nat /\ pos[i] \in 1..total
  BY FS_CardinalityType DEF Orders
<1>2. \A j \in S : pos[j] \in 1..total
  BY DEF Orders
<1>3. \A j \in A : pos[j] \in 1..pos[i]
  <2> SUFFICES ASSUME NEW j \in A PROVE pos[j] \in 1..pos[i]
    OBVIOUS
  <2>1. CASE j = i
    BY <1>1, <2>1
  <2>2. CASE j > i
    BY <1>1, <1>2, <2>2 DEF Orders
  <2> QED BY <2>1, <2>2
<1>4. \A j \in B : pos[j] \in (pos[i] + 1)..total
  BY <1>1, <1>2 DEF Orders
<1>5. A \in SUBSET S /\ B \in SUBSET S
  OBVIOUS
<1>6. A \cup B = S /\ A \cap B = {}
  <2>1. \A j \in S : j >= i <=> ~(j < i)
    OBVIOUS
  <2>2. \A j : /\ j \in A <=> j \in S /\ j >= i
               /\ j \in B <=> j \in S /\ j < i
    OBVIOUS
  <2> HIDE DEF A, B
  <2> QED BY <2>1, <2>2
<1> HIDE DEF A, B, total
<1>7. IsFiniteSet(A) /\ Cardinality(A) \in Nat /\ Cardinality(A) <= pos[i]
  <2> DEFINE lo == 1
             hi == pos[i]
  <2>1. lo \in Int /\ hi \in Int /\ \A j \in A : pos[j] \in lo..hi
    BY <1>1, <1>3
  <2> HIDE DEF lo, hi
  <2>2. /\ IsFiniteSet(A) /\ Cardinality(A) \in Nat
        /\ Cardinality(A) <= IF lo > hi THEN 0 ELSE hi - lo + 1
    BY <2>1, <1>5, AtMost
  <2> QED BY <1>1, <2>2 DEF lo, hi
<1>8. IsFiniteSet(B) /\ Cardinality(B) \in Nat /\ Cardinality(B) <= total - pos[i]
  <2> DEFINE lo == pos[i] + 1
  <2>1. total \in Int /\ lo \in Int /\ (\A j \in B : pos[j] \in lo..total)
    BY <1>1, <1>4
  <2> HIDE DEF lo
  <2>2. /\ IsFiniteSet(B) /\ Cardinality(B) \in Nat
        /\ Cardinality(B) <= IF lo > total THEN 0 ELSE total - lo + 1
    BY <2>1, <1>5, AtMost
  <2> QED BY <1>1, <2>2 DEF lo
<1>9. total = Cardinality(A) + Cardinality(B)
  <2>1. Cardinality(A \cap B) = 0
    BY <1>6, FS_EmptySet
  <2>2. Cardinality(A \cup B) = Cardinality(A) + Cardinality(B) - Cardinality(A \cap B)
    BY <1>7, <1>8, FS_Union
  <2>3. total = Cardinality(A \cup B)
    BY <1>6 DEF total
  <2> QED BY <1>7, <1>8, <2>1, <2>2, <2>3
<1>10. pos[i] = Cardinality(A)
  BY <1>1, <1>7, <1>8, <1>9
<1> QED BY <1>10 DEF A

-----------------------------------------------------------------------------
(* The walk. *)

(* The posts of the accounts that are asked for, in the table ps.          *)
ListedIn(ps, owners) == {i \in PostIds : ps[i] # Gone /\ ps[i].owner \in owners}

(* The place of post i in a list of the posts of S, newest first, when no  *)
(* two were created in one instant.                                        *)
Place(i, S) == Cardinality({j \in S : j >= i})

(* A page whose rows have been read, and that was not raced since, holds   *)
(* as many of the posts of S as it has to.                                 *)
FitsPage(x, S) ==
  x.pc \in {"rows", "count"} /\ ~x.raced =>
    x.items \subseteq S /\ Fits(Cardinality(x.items), Cardinality(S), x.page, x.limit)

(* What a walk has still to show is there, and no place of it lies before  *)
(* the current page; nor on it, unless the page is yet to be read or shows *)
(* the post.                                                               *)
Owes(x, S) ==
  /\ x.due \subseteq S
  /\ \A i \in x.due :
       Place(i, S) > IF x.pc = "ids" \/ i \in x.items
                     THEN Skip(x.page, x.limit)
                     ELSE Skip(x.page, x.limit) + x.limit

OnTheWay(x, S, t) == FitsPage(x, S) /\ (t = {} => Owes(x, S))

ListInv ==
  \A r \in Slots : Listing(r) => OnTheWay(op[r], ListedIn(posts, op[r].owners), tied)

(* A request that reads a list.                                            *)
LEMMA ListingIsWalk ==
  ASSUME IndInv, NEW r \in Slots, Listing(r)
  PROVE  /\ op[r] \in Walks /\ op[r].limit \in Nat \ {0} /\ op[r].page \in Nat \ {0}
         /\ Skip(op[r].page, op[r].limit) \in Nat
         /\ Skip(op[r].page + 1, op[r].limit) = Skip(op[r].page, op[r].limit) + op[r].limit
<1>1. op[r] \in Serving /\ op[r].pc \in {"ids", "rows", "count"}
  BY DEF Listing, IndInv, TypeOK, Serving
<1>2. op[r] \in Walks
  BY <1>1, Kinds
<1>3. op[r].limit \in Nat \ {0} /\ op[r].page \in Nat \ {0}
  <2>1. op[r].limit \in Limits /\ op[r].page \in Nat \ {0}
    BY <1>2 DEF Walks
  <2>2. \A limit \in Limits : limit \in Nat \ {0}
    BY PostAssumption
  <2> QED BY <2>1, <2>2
<1> QED BY <1>2, <1>3, SkipIsNat

LEMMA ListedIsFinite ==
  ASSUME NEW ps, NEW owners
  PROVE  /\ ListedIn(ps, owners) \in SUBSET Nat /\ IsFiniteSet(ListedIn(ps, owners))
         /\ Cardinality(ListedIn(ps, owners)) \in Nat
<1>1. MaxPosts \in Int /\ 1 \in Int
  BY PostAssumption
<1>2. IsFiniteSet(PostIds)
  BY <1>1, FS_Interval DEF PostIds
<1>3. ListedIn(ps, owners) \in SUBSET PostIds /\ PostIds \subseteq Nat
  BY DEF ListedIn, PostIds
<1> QED BY <1>2, <1>3, FS_Subset, FS_CardinalityType

(* A post is not before the end of a list, and more posts do not move it   *)
(* up in the list.                                                         *)
LEMMA PlaceGrows ==
  ASSUME NEW T, IsFiniteSet(T), NEW S \in SUBSET T, NEW i
  PROVE  /\ Place(i, S) \in Nat /\ Place(i, T) \in Nat
         /\ Place(i, S) <= Place(i, T) /\ Place(i, S) <= Cardinality(S)
<1> DEFINE A == {j \in S : j >= i}
           B == {j \in T : j >= i}
<1>1. A \in SUBSET B /\ B \in SUBSET T /\ A \in SUBSET S
  OBVIOUS
<1>2. Place(i, S) = Cardinality(A) /\ Place(i, T) = Cardinality(B)
  BY DEF Place
<1> HIDE DEF A, B
<1>3. IsFiniteSet(B) /\ IsFiniteSet(S)
  BY <1>1, FS_Subset
<1>4. IsFiniteSet(A) /\ Cardinality(A) <= Cardinality(B) /\ Cardinality(A) <= Cardinality(S)
  BY <1>1, <1>3, FS_Subset
<1> QED BY <1>2, <1>3, <1>4, FS_CardinalityType

(* With no ties posts are listed by their ids.                             *)
LEMMA StampsFollowIds ==
  ASSUME tied = {}, NEW i \in PostIds, NEW j \in PostIds, i > j
  PROVE  CreatedAt[i] > CreatedAt[j]
<1>1. CreatedAt[i] = Cardinality(1..i) /\ CreatedAt[j] = Cardinality(1..j)
  BY DEF CreatedAt
<1>2. i \in Nat \ {0} /\ j \in Nat \ {0}
  BY DEF PostIds
<1>3. Cardinality(1..i) = i /\ Cardinality(1..j) = j
  BY <1>2, FS_Interval
<1> QED BY <1>1, <1>2, <1>3

(* A step of one request, while the table is as it is.                     *)
LEMMA ListSlotStep ==
  ASSUME IndInv, ListInv, NEW r \in Slots, NEW x,
         op' = [op EXCEPT ![r] = x], UNCHANGED <<posts, tied>>,
         x.pc \in {"ids", "rows", "count"} => OnTheWay(x, ListedIn(posts, x.owners), tied)
  PROVE  ListInv'
<1>1. op'[r] = x /\ \A q \in Slots \ {r} : op'[q] = op[q]
  BY DEF IndInv, TypeOK
<1>2. \A q \in Slots : op'[q].pc \in {"ids", "rows", "count"}
                        => OnTheWay(op'[q], ListedIn(posts, op'[q].owners), tied)
  BY <1>1 DEF ListInv, Listing
<1> QED BY <1>2 DEF ListInv, Listing

(* What a request that reads a list learns of a write.                     *)
LEMMA NoticedListing ==
  ASSUME IndInv, NEW q \in Slots, NEW i \in PostIds, NEW row \in Rows \cup {Gone}
  PROVE  /\ Noticed(q, i, row).pc = op[q].pc
         /\ Listing(q) =>
              /\ (row = Gone <=> posts[i] = Gone) => Noticed(q, i, row) = op[q]
              /\ row # Gone /\ posts[i] = Gone =>
                   Noticed(q, i, row) = [op[q] EXCEPT !.raced = TRUE]
              /\ row = Gone /\ posts[i] # Gone =>
                   Noticed(q, i, row).raced = TRUE /\ Noticed(q, i, row).due = {}
<1>1. op[q] \in Serving
  BY DEF IndInv, TypeOK, Serving
<1>2. CASE Listing(q)
  <2>1. op[q] \in Walks
    BY <1>1, <1>2, Kinds DEF Listing
  <2>2. (row = Gone <=> posts[i] = Gone) => Noticed(q, i, row) = op[q]
    BY <1>2 DEF Noticed
  <2>3. row # Gone /\ posts[i] = Gone =>
          Noticed(q, i, row) = [op[q] EXCEPT !.raced = TRUE, !.due = @]
    BY <1>2 DEF Noticed
  <2>4. [op[q] EXCEPT !.raced = TRUE, !.due = @] = [op[q] EXCEPT !.raced = TRUE]
    BY <2>1 DEF Walks
  <2>5. row = Gone /\ posts[i] # Gone =>
          Noticed(q, i, row) = [op[q] EXCEPT !.raced = TRUE, !.due = {}]
    BY <1>2 DEF Noticed
  <2>6. Noticed(q, i, row).pc = op[q].pc
    BY <2>1, <2>2, <2>3, <2>5 DEF Walks
  <2>7. row = Gone /\ posts[i] # Gone =>
          Noticed(q, i, row).raced = TRUE /\ Noticed(q, i, row).due = {}
    BY <2>1, <2>5 DEF Walks
  <2> QED BY <2>2, <2>3, <2>4, <2>6, <2>7
<1>3. CASE ~Listing(q) /\ op[q].pc # "idle"
  <2>1. op[q] \in Ops
    BY <1>1, <1>3, Kinds DEF Listing, Serving, Idle, Walks
  <2>2. Noticed(q, i, row) = op[q] \/ Noticed(q, i, row) = [op[q] EXCEPT !.raced = TRUE]
    BY <1>3 DEF Noticed
  <2> QED BY <1>3, <2>1, <2>2 DEF Ops
<1>4. CASE op[q].pc = "idle"
  BY <1>4 DEF Noticed, Listing
<1> QED BY <1>2, <1>3, <1>4

(* A write: a post that comes moves others down the list, one that goes    *)
(* ends the promise, and one that stays stays where it is.                 *)
LEMMA TableStep ==
  ASSUME IndInv, ListInv, NEW i \in PostIds, NEW row \in Rows \cup {Gone},
         posts' = [posts EXCEPT ![i] = row], tied \subseteq tied',
         row # Gone /\ posts[i] # Gone => row.owner = posts[i].owner,
         \A q \in Slots : op'[q] = Noticed(q, i, row) \/ op'[q] = Idle
  PROVE  ListInv'
<1> SUFFICES ASSUME NEW q \in Slots, op'[q].pc \in {"ids", "rows", "count"}
             PROVE  OnTheWay(op'[q], ListedIn(posts', op'[q].owners), tied')
  BY DEF ListInv, Listing
<1>1. posts \in [PostIds -> Rows \cup {Gone}]
  BY DEF IndInv, TypeOK
<1>2. op'[q] = Noticed(q, i, row)
  BY DEF Idle
<1>3. Listing(q)
  <2>1. Noticed(q, i, row).pc = op[q].pc
    BY NoticedListing
  <2> QED BY <1>2, <2>1 DEF Listing
<1>4. op[q] \in Walks
  BY <1>3, ListingIsWalk
<1> DEFINE S == ListedIn(posts, op[q].owners)
           T == ListedIn(posts', op[q].owners)
<1>5. FitsPage(op[q], S) /\ (tied' = {} => Owes(op[q], S))
  BY <1>3 DEF ListInv, OnTheWay
<1>6. CASE row = Gone <=> posts[i] = Gone
  <2>1. op'[q] = op[q]
    BY <1>2, <1>3, <1>6, NoticedListing
  <2>2. T = S
    BY <1>1, <1>6 DEF ListedIn
  <2> QED BY <1>5, <2>1, <2>2 DEF OnTheWay
<1>7. CASE row # Gone /\ posts[i] = Gone
  <2>1. op'[q] = [op[q] EXCEPT !.raced = TRUE]
    <3>1. Listing(q) => (row # Gone /\ posts[i] = Gone =>
                           Noticed(q, i, row) = [op[q] EXCEPT !.raced = TRUE])
      BY NoticedListing, Zenon
    <3> QED BY <1>2, <1>3, <1>7, <3>1, Zenon
  <2>2. /\ op'[q].raced = TRUE /\ op'[q].due = op[q].due /\ op'[q].items = op[q].items
        /\ op'[q].page = op[q].page /\ op'[q].limit = op[q].limit
        /\ op'[q].owners = op[q].owners /\ op'[q].pc = op[q].pc
    BY <1>4, <1>7, <2>1 DEF Walks
  <2>3. S \in SUBSET T
    BY <1>1, <1>7 DEF ListedIn
  <2>4. IsFiniteSet(T)
    BY ListedIsFinite
  <2>5. Skip(op[q].page, op[q].limit) \in Nat /\ op[q].limit \in Nat
    BY <1>3, ListingIsWalk
  <2> HIDE DEF S, T
  <2>6. FitsPage(op'[q], T)
    BY <2>2 DEF FitsPage
  <2>7. ASSUME tied' = {} PROVE Owes(op'[q], T)
    <3>1. op'[q].due \subseteq T
      BY <1>5, <2>2, <2>3, <2>7 DEF Owes
    <3>2. ASSUME NEW j \in op'[q].due
          PROVE  Place(j, T) > IF op'[q].pc = "ids" \/ j \in op'[q].items
                               THEN Skip(op'[q].page, op'[q].limit)
                               ELSE Skip(op'[q].page, op'[q].limit) + op'[q].limit
      <4>1. Place(j, S) > IF op[q].pc = "ids" \/ j \in op[q].items
                          THEN Skip(op[q].page, op[q].limit)
                          ELSE Skip(op[q].page, op[q].limit) + op[q].limit
        BY <1>5, <2>2, <2>7 DEF Owes
      <4>2. Place(j, S) \in Nat /\ Place(j, T) \in Nat /\ Place(j, S) <= Place(j, T)
        BY <2>3, <2>4, PlaceGrows
      <4> QED BY <2>2, <2>5, <4>1, <4>2
    <3> QED BY <3>1, <3>2 DEF Owes
  <2> QED BY <2>2, <2>6, <2>7 DEF OnTheWay, T
<1>8. CASE row = Gone /\ posts[i] # Gone
  <2>1. op'[q].raced = TRUE /\ op'[q].due = {}
    <3>1. Noticed(q, i, row).raced = TRUE /\ Noticed(q, i, row).due = {}
      BY <1>3, <1>8, NoticedListing
    <3> QED BY <1>2, <3>1
  <2> QED BY <2>1 DEF OnTheWay, FitsPage, Owes
<1> QED BY <1>6, <1>7, <1>8

-----------------------------------------------------------------------------
(* The steps of a list. *)

LEMMA ListedNow ==
  ASSUME NEW owners
  PROVE  Listed(owners) = ListedIn(posts, owners)
BY DEF Listed, ListedIn

(* At first everything is due, and every post has a place.                 *)
LEMMA BeginWalkStep ==
  ASSUME IndInv, ListInv, NEW r \in Slots, NEW owners, NEW limit \in Limits,
         BeginWalk(r, owners, limit)
  PROVE  ListInv'
<1> DEFINE S == ListedIn(posts, owners)
           x == [pc |-> "ids", owners |-> owners, limit |-> limit, page |-> 1,
                 items |-> {}, due |-> S, raced |-> FALSE]
<1>1. op' = [op EXCEPT ![r] = x] /\ UNCHANGED <<posts, tied>>
  BY ListedNow DEF BeginWalk
<1>2. Skip(1, limit) = 0
  BY PostAssumption DEF Skip
<1>3. ASSUME NEW i \in S PROVE Place(i, S) > 0
  <2> DEFINE A == {j \in S : j >= i}
  <2>1. IsFiniteSet(S) /\ S \in SUBSET Nat
    BY ListedIsFinite
  <2>2. A \in SUBSET S /\ i \in A
    BY <1>3, <2>1
  <2> HIDE DEF A, S
  <2>3. IsFiniteSet(A) /\ A # {}
    BY <2>1, <2>2, FS_Subset
  <2>4. Cardinality(A) \in Nat /\ Cardinality(A) # 0
    BY <2>3, FS_EmptySet, FS_CardinalityType
  <2> QED BY <2>4 DEF Place, A
<1>4. /\ x.pc = "ids" /\ x.due = S /\ x.page = 1 /\ x.limit = limit /\ x.owners = owners
  OBVIOUS
<1> HIDE DEF x, S
<1>5. OnTheWay(x, S, tied)
  BY <1>2, <1>3, <1>4 DEF OnTheWay, FitsPage, Owes
<1> QED BY <1>1, <1>4, <1>5, ListSlotStep DEF S

(* The first query of a page: it holds as many posts as it has to, and of  *)
(* those that are due all whose place is on it.                            *)
LEMMA ReadIdsStep ==
  ASSUME IndInv, ListInv, NEW r \in Slots, ReadIds(r)
  PROVE  ListInv'
<1> DEFINE S     == ListedIn(posts, op[r].owners)
           page  == op[r].page
           limit == op[r].limit
           skip  == Skip(page, limit)
<1>1. /\ op[r] \in Walks /\ limit \in Nat \ {0} /\ page \in Nat \ {0} /\ skip \in Nat
      /\ op[r].pc = "ids"
  BY ListingIsWalk DEF ReadIds, Listing
<1>2. PICK pos \in Orders(Listed(op[r].owners), CreatedAt) :
        op' = [op EXCEPT ![r].items = OnPage(pos, page, limit),
                ![r].raced = FALSE,
                ![r].pc = IF op[r].owners = Users /\ OnPage(pos, page, limit) # {}
                          THEN "rows" ELSE "count"]
  BY DEF ReadIds
<1> DEFINE ids == OnPage(pos, page, limit)
           x   == [op[r] EXCEPT !.items = ids, !.raced = FALSE,
                     !.pc = IF op[r].owners = Users /\ ids # {} THEN "rows" ELSE "count"]
<1>3. op' = [op EXCEPT ![r] = x] /\ UNCHANGED <<posts, tied>>
  BY <1>2, Zenon DEF ReadIds
<1>4. pos \in Orders(S, CreatedAt)
  BY ListedNow
<1>5. S \in SUBSET Nat /\ IsFiniteSet(S) /\ Cardinality(S) \in Nat
  BY ListedIsFinite
<1>6. /\ x.pc \in {"rows", "count"} /\ x.items = ids /\ x.page = page /\ x.limit = limit
      /\ x.due = op[r].due /\ x.owners = op[r].owners
  BY <1>1 DEF Walks
<1>7. Listing(r)
  BY <1>1 DEF Listing
<1>8. tied = {} => Owes(op[r], S)
  BY <1>7 DEF ListInv, OnTheWay
<1>9. S \subseteq PostIds
  BY DEF ListedIn
<1>10. S = ListedIn(posts, x.owners)
  BY <1>6
<1> HIDE DEF S, x
<1>11. ids = {i \in S : pos[i] > skip /\ pos[i] <= skip + limit}
  BY <1>4 DEF OnPage, Orders
<1>12. FitsPage(x, S)
  <2>1. Fits(Cardinality(ids), Cardinality(S), page, limit)
    BY <1>1, <1>4, <1>5, PageSize
  <2>2. ids \subseteq S
    BY <1>11
  <2> HIDE DEF ids, page, limit
  <2> QED BY <1>6, <2>1, <2>2 DEF FitsPage
<1>13. ASSUME tied = {} PROVE Owes(x, S)
  <2>1. op[r].due \subseteq S /\ \A i \in op[r].due : Place(i, S) > skip
    BY <1>1, <1>8, <1>13 DEF Owes
  <2>2. ASSUME NEW i \in S PROVE pos[i] = Place(i, S) /\ pos[i] \in Nat
    <3>1. \A j, k \in S : j > k => CreatedAt[j] > CreatedAt[k]
      BY <1>9, <1>13, StampsFollowIds
    <3>2. pos[i] = Place(i, S)
      BY <1>4, <1>5, <3>1, PlaceIs DEF Place
    <3>3. pos[i] \in Nat
      BY <1>4, <1>5 DEF Orders
    <3> QED BY <3>2, <3>3
  <2>3. \A i \in op[r].due : i \in ids \/ Place(i, S) > skip + limit
    BY <1>1, <1>11, <2>1, <2>2
  <2> HIDE DEF ids, page, limit, skip
  <2>4. ASSUME NEW i \in x.due
        PROVE  Place(i, S) > IF x.pc = "ids" \/ i \in x.items THEN skip ELSE skip + limit
    BY <1>6, <2>1, <2>3
  <2> QED BY <1>6, <2>1, <2>4 DEF Owes, skip
<1> QED BY <1>3, <1>10, <1>12, <1>13, ListSlotStep DEF OnTheWay

(* The second query leaves out of a page what is gone by then.             *)
LEMMA ReadRowsStep ==
  ASSUME IndInv, ListInv, NEW r \in Slots, ReadRows(r)
  PROVE  ListInv'
<1> DEFINE S == ListedIn(posts, op[r].owners)
           x == [op[r] EXCEPT !.items = @ \cap S, !.pc = "count"]
<1>1. /\ op[r] \in Walks /\ op[r].pc = "rows" /\ Listing(r)
  BY ListingIsWalk DEF ReadRows, Listing
<1>2. op' = [op EXCEPT ![r] = x] /\ UNCHANGED <<posts, tied>>
  BY ListedNow DEF ReadRows
<1>3. /\ x.pc = "count" /\ x.items = op[r].items \cap S /\ x.page = op[r].page
      /\ x.limit = op[r].limit /\ x.due = op[r].due /\ x.owners = op[r].owners
      /\ x.raced = op[r].raced
  BY <1>1 DEF Walks
<1>4. FitsPage(op[r], S) /\ (tied = {} => Owes(op[r], S))
  BY <1>1 DEF ListInv, OnTheWay
<1> HIDE DEF x
<1>5. S = ListedIn(posts, x.owners)
  BY <1>3
<1> HIDE DEF S
<1>6. FitsPage(x, S)
  <2>1. CASE x.raced
    BY <2>1 DEF FitsPage
  <2>2. CASE ~x.raced
    <3>1. op[r].items \subseteq S
      BY <1>1, <1>3, <1>4, <2>2 DEF FitsPage
    <3>2. x.items = op[r].items
      BY <1>3, <3>1
    <3> QED BY <1>1, <1>3, <1>4, <2>2, <3>2 DEF FitsPage
  <2> QED BY <2>1, <2>2
<1>7. Owes(op[r], S) => Owes(x, S)
  <2> SUFFICES ASSUME Owes(op[r], S) PROVE Owes(x, S)
    OBVIOUS
  <2>1. \A i \in x.due : i \in x.items <=> i \in op[r].items
    BY <1>3 DEF Owes
  <2> QED BY <1>1, <1>3, <2>1 DEF Owes
<1> QED BY <1>2, <1>4, <1>5, <1>6, <1>7, ListSlotStep DEF OnTheWay

(* What the page did not show is due on a later one.                       *)
LEMMA NextPageStep ==
  ASSUME IndInv, ListInv, NEW r \in Slots, NextPage(r)
  PROVE  ListInv'
<1> DEFINE S == ListedIn(posts, op[r].owners)
           x == [op[r] EXCEPT !.pc = "ids", !.page = @ + 1, !.items = {},
                   !.due = @ \ op[r].items, !.raced = FALSE]
<1>1. /\ op[r] \in Walks /\ op[r].pc = "count" /\ Listing(r)
      /\ Skip(op[r].page + 1, op[r].limit) = Skip(op[r].page, op[r].limit) + op[r].limit
  BY ListingIsWalk DEF NextPage, Listing
<1>2. op' = [op EXCEPT ![r] = x] /\ UNCHANGED <<posts, tied>>
  BY DEF NextPage
<1>3. /\ x.pc = "ids" /\ x.page = op[r].page + 1 /\ x.limit = op[r].limit
      /\ x.due = op[r].due \ op[r].items /\ x.owners = op[r].owners
  BY <1>1 DEF Walks
<1>4. tied = {} => Owes(op[r], S)
  BY <1>1 DEF ListInv, OnTheWay
<1> HIDE DEF x
<1>5. S = ListedIn(posts, x.owners)
  BY <1>3
<1> HIDE DEF S
<1>6. Owes(op[r], S) => Owes(x, S)
  BY <1>1, <1>3 DEF Owes
<1>7. FitsPage(x, S)
  BY <1>3 DEF FitsPage
<1> QED BY <1>2, <1>4, <1>5, <1>6, <1>7, ListSlotStep DEF OnTheWay

(* A request that changes a post starts, goes on or is answered without a  *)
(* write.                                                                  *)
LEMMA NoListStep ==
  ASSUME IndInv, ListInv, NEW r \in Slots, NEW x,
         op' = [op EXCEPT ![r] = x], x.pc \in {"select", "write", "delete", "idle"},
         UNCHANGED <<posts, tied>>
  PROVE  ListInv'
BY ListSlotStep

(* A request writes its post.                                              *)
LEMMA WriteListStep ==
  ASSUME IndInv, ListInv, NEW r \in Slots,
         SaveUpdate(r) \/ SaveInsert(r) \/ Delete(r)
  PROVE  ListInv'
<1> DEFINE i == op[r].id
<1>1. /\ op[r] \in Ops /\ i \in PostIds /\ posts \in [PostIds -> Rows \cup {Gone}]
      /\ Owns(op[r], posts)
  BY Writing
<1>2. ASSUME NEW row \in Rows \cup {Gone}, WriteRow(r, i, row), tied' = tied,
             row # Gone /\ posts[i] # Gone => row.owner = posts[i].owner
      PROVE  ListInv'
  <2>1. posts' = [posts EXCEPT ![i] = row]
    BY <1>2 DEF WriteRow
  <2>2. \A q \in Slots : op'[q] = Noticed(q, i, row) \/ op'[q] = Idle
    BY <1>2 DEF WriteRow
  <2> HIDE DEF i
  <2> QED BY <1>1, <1>2, <2>1, <2>2, TableStep
<1>3. CASE SaveUpdate(r)
  <2> DEFINE row == [posts[i] EXCEPT !.body =
                      [f \in Fields |-> IF f \in Changed(r) THEN op[r].entity.body[f] ELSE @[f]]]
  <2>1. posts[i] \in Rows /\ op[r].entity \in Rows
    BY <1>1, <1>3 DEF SaveUpdate, Ops
  <2>2. row \in Rows /\ row.owner = posts[i].owner
    BY <2>1 DEF Rows, Bodies
  <2>3. WriteRow(r, i, row) /\ tied' = tied
    BY <1>3 DEF SaveUpdate
  <2> HIDE DEF row
  <2> QED BY <1>2, <2>2, <2>3
<1>4. CASE SaveInsert(r)
  <2>1. op[r].entity \in Rows /\ posts[i] = Gone
    BY <1>1, <1>4 DEF SaveInsert, Ops
  <2> QED BY <1>2, <1>4, <2>1 DEF SaveInsert
<1>5. CASE Delete(r)
  BY <1>2, <1>5 DEF Delete
<1> QED BY <1>3, <1>4, <1>5

(* A new post is the first of its lists.                                   *)
LEMMA CreateListStep ==
  ASSUME IndInv, ListInv, NEW u \in Users, NEW body \in Bodies, Create(u, body)
  PROVE  ListInv'
<1> DEFINE n   == lastId + 1
           row == [owner |-> u, body |-> body]
<1>1. lastId \in Nat /\ MaxPosts \in Nat /\ posts \in [PostIds -> Rows \cup {Gone}]
  BY PostAssumption DEF IndInv, TypeOK
<1>2. n \in PostIds /\ row \in Rows /\ tied \subseteq tied'
  BY <1>1 DEF Create, PostIds, Rows
<1>3. posts' = [posts EXCEPT ![n] = row] /\ posts'[n] = row
  BY <1>1, <1>2 DEF Create
<1>4. \A q \in Slots : op'[q] = Noticed(q, n, row)
  BY <1>3 DEF Create
<1>5. posts[n] = Gone
  BY <1>1, <1>2 DEF IndInv, IdsInUse
<1> HIDE DEF n, row
<1> QED BY <1>2, <1>3, <1>4, <1>5, TableStep

(* Every step keeps what is known of the lists.                            *)
LEMMA NextListInv == IndInv /\ ListInv /\ [Next]_vars => ListInv'
<1> SUFFICES ASSUME IndInv, ListInv, [Next]_vars PROVE ListInv'
  OBVIOUS
<1>1. ASSUME UNCHANGED <<posts, tied, op>> PROVE ListInv'
  BY <1>1 DEF ListInv, Listing
<1>2. ASSUME NEW r \in Slots, NEW i, NEW u, NEW pc \in {"select", "delete"}, NEW patch,
             FindOwned(r, i, u, pc, patch)
      PROVE  ListInv'
  BY <1>2, NoListStep DEF FindOwned
<1>3. ASSUME NEW r \in Slots, SaveSelect(r) PROVE ListInv'
  <2> DEFINE x == [op[r] EXCEPT !.pc = "write", !.found = posts[op[r].id]]
  <2>1. op[r] \in Ops
    <3>1. op[r] \in Serving /\ Changing(op[r])
      BY <1>3 DEF SaveSelect, IndInv, TypeOK, Serving, Changing
    <3> QED BY <3>1, Kinds
  <2>2. op' = [op EXCEPT ![r] = x] /\ UNCHANGED <<posts, tied>>
    BY <1>3 DEF SaveSelect
  <2>3. x.pc = "write"
    BY <2>1 DEF Ops
  <2> HIDE DEF x
  <2> QED BY <2>2, <2>3, NoListStep
<1>4. ASSUME NEW r \in Slots, SaveNothing(r) \/ SaveInsertFails(r) \/ EndWalk(r)
      PROVE ListInv'
  <2>1. op' = [op EXCEPT ![r] = Idle] /\ UNCHANGED <<posts, tied>>
    BY <1>4 DEF SaveNothing, SaveInsertFails, EndWalk, Answer
  <2> QED BY <2>1, NoListStep DEF Idle
<1>5. ASSUME NEW r \in Slots, Serve(r) PROVE ListInv'
  BY <1>3, <1>4, <1>5, WriteListStep, ReadIdsStep, ReadRowsStep, NextPageStep DEF Serve
<1>6. ASSUME NEW u \in Users, NEW body \in Bodies, Create(u, body) PROVE ListInv'
  BY <1>6, CreateListStep
<1>7. ASSUME NEW u \in Users, NEW i, RemoveUser(u) \/ Refused(i, u) PROVE ListInv'
  BY <1>1, <1>7 DEF RemoveUser, Refused, vars
<1>8. ASSUME NEW r \in Slots, NEW i \in PostIds, NEW u \in Users,
             Remove(r, i, u) \/ \E patch \in Patches : Update(r, i, u, patch)
      PROVE  ListInv'
  BY <1>2, <1>8 DEF Remove, Update
<1>9. ASSUME NEW r \in Slots, NEW limit \in Limits, NEW owners, BeginWalk(r, owners, limit)
      PROVE  ListInv'
  BY <1>9, BeginWalkStep
<1> QED BY <1>1, <1>5, <1>6, <1>7, <1>8, <1>9 DEF Next, vars

LEMMA ListInvHolds == Spec => [](IndInv /\ ListInv)
<1>1. Init => ListInv
  BY DEF Init, ListInv, Listing, Idle
<1> QED BY <1>1, InitIndInv, NextIndInv, NextListInv, PTL DEF Spec

-----------------------------------------------------------------------------
(* The meta of a page, of all the posts of the list.                       *)
LEMMA PagesAre ==
  ASSUME IndInv, NEW r \in Slots, Listing(r), NEW page \in Nat \ {0}
  PROVE  /\ Pages(r) \in Int
         /\ page <= Pages(r) <=> Skip(page, op[r].limit) < Cardinality(Listed(op[r].owners))
<1>1. op[r].limit \in Nat \ {0} /\ Cardinality(Listed(op[r].owners)) \in Nat
  BY ListingIsWalk, ListedNow, ListedIsFinite
<1>2. \A total \in Nat, limit \in Nat \ {0} : TotalPages(total, limit) \in Int
  BY DEF TotalPages
<1> QED BY <1>1, <1>2, PageCount DEF Pages

(* A client that reads a list from the first page to the last is shown     *)
(* every post that was there all the while, unless one was deleted or two  *)
(* were created in one instant (posts.service.ts:37-42).                   *)
THEOREM WalksMissNothing == Spec => WalkMissesNothing
<1>1. ASSUME IndInv, ListInv, NEW r \in Slots, EndWalk(r), tied = {}
      PROVE  op[r].due \subseteq op[r].items
  <2> DEFINE S     == ListedIn(posts, op[r].owners)
             page  == op[r].page
             limit == op[r].limit
             skip  == Skip(page, limit)
  <2>1. Listing(r) /\ op[r].pc = "count"
    BY <1>1 DEF EndWalk, Listing
  <2>2. /\ limit \in Nat \ {0} /\ page \in Nat \ {0} /\ skip \in Nat
        /\ Skip(page + 1, limit) = skip + limit
    BY <1>1, <2>1, ListingIsWalk
  <2>3. IsFiniteSet(S) /\ Cardinality(S) \in Nat /\ Listed(op[r].owners) = S
    BY ListedIsFinite, ListedNow
  <2>4. page >= Pages(r)
    BY <1>1 DEF EndWalk
  <2>5. page + 1 \in Nat \ {0}
    BY <2>2
  <2>6. /\ Pages(r) \in Int
        /\ page + 1 <= Pages(r) <=> Skip(page + 1, limit) < Cardinality(S)
    BY <1>1, <2>1, <2>3, <2>5, PagesAre
  <2>7. skip + limit >= Cardinality(S)
    BY <2>2, <2>3, <2>4, <2>6
  <2>8. Owes(op[r], S)
    BY <1>1, <2>1 DEF ListInv, OnTheWay
  <2> SUFFICES ASSUME NEW i \in op[r].due, i \notin op[r].items PROVE FALSE
    OBVIOUS
  <2>9. Place(i, S) > skip + limit
    BY <2>1, <2>8 DEF Owes
  <2>10. Place(i, S) \in Nat /\ Place(i, S) <= Cardinality(S)
    BY <2>3, PlaceGrows
  <2> QED BY <2>2, <2>3, <2>7, <2>9, <2>10
<1>2. IndInv /\ ListInv =>
        [\A r \in Slots : EndWalk(r) /\ tied = {} => op[r].due \subseteq op[r].items]_vars
  BY <1>1
<1> QED BY <1>2, ListInvHolds, PTL DEF WalkMissesNothing

(* A page that was not raced and the total it gives agree                  *)
(* (pagination.dto.ts:30-32, :52-57).                                      *)
THEOREM PagesFit == Spec => UnracedPageFits
<1>1. ASSUME IndInv, ListInv, NEW r \in Slots, NextPage(r) \/ EndWalk(r), ~op[r].raced
      PROVE  LET total == Cardinality(Listed(op[r].owners))
                 on    == Cardinality(op[r].items)
             IN  /\ on <= op[r].limit
                 /\ on < op[r].limit => op[r].page >= Pages(r)
                 /\ on > 0 <=> op[r].page <= Pages(r)
                 /\ on > 0 /\ op[r].page = Pages(r) => Skip(op[r].page, op[r].limit) + on = total
  <2> DEFINE S     == ListedIn(posts, op[r].owners)
             page  == op[r].page
             limit == op[r].limit
             skip  == Skip(page, limit)
             total == Cardinality(S)
             on    == Cardinality(op[r].items)
             pages == Pages(r)
  <2>1. Listing(r) /\ op[r].pc = "count"
    BY <1>1 DEF NextPage, EndWalk, Listing
  <2>2. /\ limit \in Nat \ {0} /\ page \in Nat \ {0} /\ skip \in Nat
        /\ Skip(page + 1, limit) = skip + limit
    BY <1>1, <2>1, ListingIsWalk
  <2>3. total \in Nat /\ Listed(op[r].owners) = S
    BY ListedIsFinite, ListedNow
  <2>4. Fits(on, total, page, limit)
    BY <1>1, <2>1 DEF ListInv, OnTheWay, FitsPage
  <2>5. page + 1 \in Nat \ {0}
    BY <2>2
  <2>6. pages \in Int /\ (page <= pages <=> skip < total)
    BY <1>1, <2>1, <2>2, <2>3, PagesAre
  <2>7. page + 1 <= pages <=> skip + limit < total
    BY <1>1, <2>1, <2>2, <2>3, <2>5, PagesAre
  <2>8. /\ skip >= total => on = 0
        /\ skip < total /\ total <= skip + limit => on = total - skip
        /\ skip + limit < total => on = limit
    BY <2>4 DEF Fits
  <2> HIDE DEF S, page, limit, skip, total, on, pages
  <2>9. /\ on <= limit /\ (on < limit => page >= pages) /\ (on > 0 <=> page <= pages)
        /\ on > 0 /\ page = pages => skip + on = total
    BY <2>2, <2>3, <2>6, <2>7, <2>8
  <2> QED BY <2>3, <2>9 DEF page, limit, skip, total, on, pages
<1>2. IndInv /\ ListInv =>
        [\A r \in Slots :
           (NextPage(r) \/ EndWalk(r)) /\ ~op[r].raced =>
             LET total == Cardinality(Listed(op[r].owners))
                 on    == Cardinality(op[r].items)
             IN  /\ on <= op[r].limit
                 /\ on < op[r].limit => op[r].page >= Pages(r)
                 /\ on > 0 <=> op[r].page <= Pages(r)
                 /\ on > 0 /\ op[r].page = Pages(r)
                      => Skip(op[r].page, op[r].limit) + on = total]_vars
  BY <1>1
<1> QED BY <1>2, ListInvHolds, PTL DEF UnracedPageFits
=============================================================================
