-------------------------------- MODULE Posts --------------------------------
(***************************************************************************)
(* The posts resource: create, update, remove and the paginated lists over *)
(* the posts table, with its foreign key to users.                         *)
(*                                                                         *)
(*   src/src/modules/posts/posts.service.ts, posts.controller.ts           *)
(*   src/src/modules/users/users.service.ts   findAllPosts, remove         *)
(*   src/src/database/entities/post.entity.ts                              *)
(*                                                                         *)
(* update and remove read the row, check its owner and write back later,   *)
(* without a transaction around the two; the save of TypeORM itself reads  *)
(* the row once more before it writes.  A list is read page by page, each  *)
(* page in two or three queries, while the table changes.                  *)
(***************************************************************************)
EXTENDS Naturals, FiniteSets, Pagination

CONSTANTS
  Users,     \* accounts; the subject of an access token is one of them
  Slots,     \* requests in flight at once
  Values,    \* values of a title or of a content
  Keep,      \* a field that a PATCH body leaves out
  Gone,      \* no row
  Limits,    \* page sizes that clients ask for
  MaxPosts   \* bound: ids that the sequence hands out

ASSUME PostAssumption ==
  /\ MaxPosts \in Nat
  /\ Keep \notin Values
  /\ Users # {}
  /\ Values # {}
  /\ Limits \subseteq 1..100

PostIds == 1..MaxPosts
Fields  == {"title", "content"}
Bodies  == [Fields -> Values]
Patches == [Fields -> Values \cup {Keep}]
Rows    == [owner : Users, body : Bodies]

ASSUME GoneAssumption == Gone \notin Rows

VARIABLES
  users,   \* rows of the users table
  posts,   \* post id -> its row, or Gone
  lastId,  \* the id sequence
  tied,    \* ids created in the same instant as the id before
  op       \* the request that each slot is serving

vars == <<users, posts, lastId, tied, op>>

(***************************************************************************)
(* A request that changes a post.                                          *)
(*   user     id from the access token                                     *)
(*   patch    the PATCH body                                               *)
(*   entity   the row that findOne loaded, with the patch assigned to it   *)
(*   found    the row that save compares the entity with                   *)
(*   raced    history: another request wrote the post since findOne        *)
(***************************************************************************)
Ops ==
  [pc : {"select", "write", "delete"}, id : PostIds, user : Users,
   patch : Patches, entity : Rows, found : Rows \cup {Gone}, raced : BOOLEAN]

(***************************************************************************)
(* A client that reads a list from its first page to its last.             *)
(*   pc       next query of the current page: its ids, its rows, the total *)
(*   owners   whose posts: everybody's (findAll) or one account's          *)
(*   items    the posts of the current page                                *)
(*   due      history: the posts that were there at the first page and     *)
(*            have not been shown; none any more once a post was deleted    *)
(*   raced    history: a post came or went during the current page         *)
(***************************************************************************)
Walks ==
  [pc : {"ids", "rows", "count"}, owners : SUBSET Users, limit : Limits,
   page : Nat \ {0}, items : SUBSET PostIds, due : SUBSET PostIds, raced : BOOLEAN]

Idle == [pc |-> "idle"]

Init ==
  /\ users = Users
  /\ posts = [i \in PostIds |-> Gone]
  /\ lastId = 0
  /\ tied = {}
  /\ op = [r \in Slots |-> Idle]

(* Mutant: the fields that the body leaves out are assigned too.           *)
AssignKeeps(row, patch) == [row EXCEPT !.body = patch]

(* Object.assign(post, dto).                                               *)
Assign(row, patch) ==
  [row EXCEPT !.body = [f \in Fields |-> IF patch[f] = Keep THEN @[f] ELSE patch[f]]]

Listing(q) == op[q].pc \in {"ids", "rows", "count"}

(* What the request of slot q is to know of row being written for post i.  *)
Noticed(q, i, row) ==
  CASE Listing(q) /\ (row = Gone) # (posts[i] = Gone) ->
         [op[q] EXCEPT !.raced = TRUE, !.due = IF row = Gone THEN {} ELSE @]
    [] ~Listing(q) /\ op[q].pc # "idle" /\ op[q].id = i ->
         [op[q] EXCEPT !.raced = TRUE]
    [] OTHER -> op[q]

(* The request of slot r is answered, having written row for post i.       *)
WriteRow(r, i, row) ==
  /\ posts' = [posts EXCEPT ![i] = row]
  /\ op' = [q \in Slots |-> IF q = r THEN Idle ELSE Noticed(q, i, row)]

Answer(r) == op' = [op EXCEPT ![r] = Idle] /\ UNCHANGED posts

-----------------------------------------------------------------------------
(* Insert of a new post; the foreign key refuses it (500) when the account *)
(* of a token that is still valid has been removed.                        *)
Create(u, body) ==
  /\ lastId < MaxPosts
  /\ u \in users
  /\ lastId' = lastId + 1
  /\ tied' \in {tied, tied \cup ({lastId'} \ {1})}
  /\ posts' = [posts EXCEPT ![lastId'] = [owner |-> u, body |-> body]]
  /\ op' = [q \in Slots |-> Noticed(q, lastId', posts'[lastId'])]
  /\ UNCHANGED users

(* Mutant: the owner is not compared with the user.                        *)
FindOwnedUnchecked(r, i, u, pc, patch) ==
  /\ op[r].pc = "idle"
  /\ posts[i] # Gone
  /\ op' = [op EXCEPT ![r] =
      [pc |-> pc, id |-> i, user |-> u, patch |-> patch,
       entity |-> Assign(posts[i], patch), found |-> Gone, raced |-> FALSE]]
  /\ UNCHANGED <<users, posts, lastId, tied>>

(* Mutant: no findOne, the entity is made of the body: an upsert.          *)
FindOwnedUpsert(r, i, u, pc, patch) ==
  /\ op[r].pc = "idle"
  /\ IF posts[i] = Gone THEN patch \in Bodies ELSE posts[i].owner = u
  /\ op' = [op EXCEPT ![r] =
      [pc |-> pc, id |-> i, user |-> u, patch |-> patch,
       entity |-> IF posts[i] = Gone THEN [owner |-> u, body |-> patch]
                                     ELSE Assign(posts[i], patch),
       found |-> Gone, raced |-> FALSE]]
  /\ UNCHANGED <<users, posts, lastId, tied>>

(* findOne (404 when there is no row), then the owner check (403), then    *)
(* the assignment to the loaded entity.                                    *)
FindOwned(r, i, u, pc, patch) ==
  /\ op[r].pc = "idle"
  /\ posts[i] # Gone
  /\ posts[i].owner = u
  /\ op' = [op EXCEPT ![r] =
      [pc |-> pc, id |-> i, user |-> u, patch |-> patch,
       entity |-> Assign(posts[i], patch), found |-> Gone, raced |-> FALSE]]
  /\ UNCHANGED <<users, posts, lastId, tied>>

(* 404, 403, or the 500 of a create for an account that is gone: nothing   *)
(* changes.                                                                *)
Refused(i, u) ==
  /\ (posts[i] # Gone => posts[i].owner # u) \/ u \notin users
  /\ UNCHANGED vars

NoPatch == [f \in Fields |-> Keep]

Update(r, i, u, patch) == FindOwned(r, i, u, "select", patch)
Remove(r, i, u)        == FindOwned(r, i, u, "delete", NoPatch)

(* save(entity), first half: the current row is read by its id.            *)
SaveSelect(r) ==
  /\ op[r].pc = "select"
  /\ op' = [op EXCEPT ![r].pc = "write", ![r].found = posts[op[r].id]]
  /\ UNCHANGED <<users, posts, lastId, tied>>

Changed(r) == {f \in Fields : op[r].entity.body[f] # op[r].found.body[f]}

(* save(entity), second half, when a row was found: an UPDATE of the       *)
(* columns in which the entity differs from it.                            *)
SaveUpdate(r) ==
  /\ op[r].pc = "write"
  /\ op[r].found # Gone
  /\ Changed(r) # {}
  /\ posts[op[r].id] # Gone
  /\ WriteRow(r, op[r].id,
       [posts[op[r].id] EXCEPT !.body =
          [f \in Fields |-> IF f \in Changed(r) THEN op[r].entity.body[f] ELSE @[f]]])
  /\ UNCHANGED <<users, lastId, tied>>

(* No column differs, or the UPDATE matches no row any more: the answer is *)
(* 200 all the same.                                                       *)
SaveNothing(r) ==
  /\ op[r].pc = "write"
  /\ op[r].found # Gone
  /\ Changed(r) = {} \/ posts[op[r].id] = Gone
  /\ Answer(r)
  /\ UNCHANGED <<users, lastId, tied>>

(* Mutant: posts.user_id without its foreign key.                          *)
SaveInsertNoForeignKey(r) ==
  /\ op[r].pc = "write"
  /\ op[r].found = Gone
  /\ posts[op[r].id] = Gone
  /\ WriteRow(r, op[r].id, op[r].entity)
  /\ UNCHANGED <<users, lastId, tied>>

(* When none was found the entity is inserted, under the id it carries.    *)
SaveInsert(r) ==
  /\ op[r].pc = "write"
  /\ op[r].found = Gone
  /\ posts[op[r].id] = Gone
  /\ op[r].entity.owner \in users
  /\ WriteRow(r, op[r].id, op[r].entity)
  /\ UNCHANGED <<users, lastId, tied>>

(* The primary key or the foreign key refuses the insert: 500.             *)
SaveInsertFails(r) ==
  /\ op[r].pc = "write"
  /\ op[r].found = Gone
  /\ posts[op[r].id] # Gone \/ op[r].entity.owner \notin users
  /\ Answer(r)
  /\ UNCHANGED <<users, lastId, tied>>

(* remove(entity): a DELETE by id, that may match no row any more.         *)
Delete(r) ==
  /\ op[r].pc = "delete"
  /\ WriteRow(r, op[r].id, Gone)
  /\ UNCHANGED <<users, lastId, tied>>

(* DELETE /users/:id: the foreign key keeps an account that has posts.     *)
RemoveUser(u) ==
  /\ u \in users
  /\ \A i \in PostIds : posts[i] # Gone => posts[i].owner # u
  /\ users' = users \ {u}
  /\ UNCHANGED <<posts, lastId, tied, op>>

-----------------------------------------------------------------------------
(* The lists: findAll of posts, findAllPosts of one account. *)

Listed(owners) == {i \in PostIds : posts[i] # Gone /\ posts[i].owner \in owners}

(* createdAt, as far as it orders the posts; an insert keeps that of the   *)
(* entity, an update does not touch it.                                    *)
CreatedAt == [i \in PostIds |-> Cardinality((1..i) \ tied)]

BeginWalk(r, owners, limit) ==
  /\ op[r].pc = "idle"
  /\ op' = [op EXCEPT ![r] =
      [pc |-> "ids", owners |-> owners, limit |-> limit, page |-> 1, items |-> {},
       due |-> Listed(owners), raced |-> FALSE]]
  /\ UNCHANGED <<users, posts, lastId, tied>>

(* findAndCount with a relation to join first reads the ids of the page,   *)
(* then their rows; getManyAndCount without a join reads rows at once.     *)
ReadIds(r) ==
  /\ op[r].pc = "ids"
  /\ \E pos \in Orders(Listed(op[r].owners), CreatedAt) :
       LET ids == OnPage(pos, op[r].page, op[r].limit)
       IN  op' = [op EXCEPT ![r].items = ids, ![r].raced = FALSE,
                    ![r].pc = IF op[r].owners = Users /\ ids # {} THEN "rows" ELSE "count"]
  /\ UNCHANGED <<users, posts, lastId, tied>>

ReadRows(r) ==
  /\ op[r].pc = "rows"
  /\ op' = [op EXCEPT ![r].items = @ \cap Listed(op[r].owners), ![r].pc = "count"]
  /\ UNCHANGED <<users, posts, lastId, tied>>

(* What the answer's meta gives as totalPages, from the COUNT query.       *)
Pages(r) == TotalPages(Cardinality(Listed(op[r].owners)), op[r].limit)

(* The page is answered, and the client asks for the next one.             *)
NextPage(r) ==
  /\ op[r].pc = "count"
  /\ op[r].page < Pages(r)
  /\ op' = [op EXCEPT ![r].pc = "ids", ![r].page = @ + 1, ![r].items = {},
                      ![r].due = @ \ op[r].items, ![r].raced = FALSE]
  /\ UNCHANGED <<users, posts, lastId, tied>>

(* The last page is answered.                                              *)
EndWalk(r) ==
  /\ op[r].pc = "count"
  /\ op[r].page >= Pages(r)
  /\ Answer(r)
  /\ UNCHANGED <<users, lastId, tied>>

Serve(r) ==
  \/ SaveSelect(r)
  \/ SaveUpdate(r)
  \/ SaveNothing(r)
  \/ SaveInsert(r)
  \/ SaveInsertFails(r)
  \/ Delete(r)
  \/ ReadIds(r)
  \/ ReadRows(r)
  \/ NextPage(r)
  \/ EndWalk(r)

Next ==
  \/ \E u \in Users :
       \/ \E body \in Bodies : Create(u, body)
       \/ RemoveUser(u)
       \/ \E i \in PostIds : Refused(i, u)
       \/ \E r \in Slots, i \in PostIds :
            Remove(r, i, u) \/ \E patch \in Patches : Update(r, i, u, patch)
  \/ \E r \in Slots, limit \in Limits :
       BeginWalk(r, Users, limit) \/ \E u \in Users : BeginWalk(r, {u}, limit)
  \/ \E r \in Slots : Serve(r)

Spec == Init /\ [][Next]_vars

-----------------------------------------------------------------------------
TypeOK ==
  /\ users \subseteq Users
  /\ posts \in [PostIds -> Rows \cup {Gone}]
  /\ lastId \in 0..MaxPosts
  /\ tied \subseteq PostIds
  /\ op \in [Slots -> Ops \cup Walks \cup {Idle}]

(* The body of a post is changed, and the post deleted or brought back, by *)
(* requests of its owner only, although the owner is checked some awaits   *)
(* before the write (posts.service.ts:64-71, :77-83).                      *)
OnlyOwnerWrites ==
  [][\A r \in Slots :
       (SaveUpdate(r) \/ SaveInsert(r) \/ Delete(r)) =>
         LET i == op[r].id
         IN  /\ posts[i] # Gone => posts[i].owner = op[r].user
             /\ posts'[i] # Gone => posts'[i].owner = op[r].user]_vars

(* A PATCH that no other request raced changes the fields it carries and   *)
(* no other; one that was raced may undo the other's change                *)
(* (posts.service.ts:62-71).                                               *)
UnracedPatchIsExact ==
  [][\A r \in Slots :
       SaveUpdate(r) /\ ~op[r].raced =>
         LET old == posts[op[r].id].body
             new == posts'[op[r].id].body
         IN  \A f \in Fields :
               new[f] = IF op[r].patch[f] = Keep THEN old[f] ELSE op[r].patch[f]]_vars

(* A PATCH brings a deleted post back only when the delete came between    *)
(* its findOne and its save (posts.service.ts:62, :71).                    *)
InsertOnlyAfterRace ==
  [][\A r \in Slots : SaveInsert(r) => op[r].raced]_vars

(* No post outlives its account, even one that a late PATCH inserts again  *)
(* (post.entity.ts:15-18).                                                 *)
PostsHaveAccounts ==
  \A i \in PostIds : posts[i] # Gone => posts[i].owner \in users

(* A client that reads a list page by page, in newest-first order, is      *)
(* shown every post that was there all the while, whatever is created      *)
(* meanwhile; unless one was deleted, which moves the later ones a place   *)
(* up, or two were created in one instant (posts.service.ts:37-42).        *)
WalkMissesNothing ==
  [][\A r \in Slots :
       EndWalk(r) /\ tied = {} => op[r].due \subseteq op[r].items]_vars

(* A page whose queries were not raced has as many posts as the total it   *)
(* gives leaves for it, and none exactly when it lies beyond the last page *)
(* (pagination.dto.ts:30-32, :52-57).                                      *)
UnracedPageFits ==
  [][\A r \in Slots :
       (NextPage(r) \/ EndWalk(r)) /\ ~op[r].raced =>
         LET total == Cardinality(Listed(op[r].owners))
             on    == Cardinality(op[r].items)
         IN  /\ on <= op[r].limit
             /\ on < op[r].limit => op[r].page >= Pages(r)
             /\ on > 0 <=> op[r].page <= Pages(r)
             /\ on > 0 /\ op[r].page = Pages(r) => Skip(op[r].page, op[r].limit) + on = total]_vars
=============================================================================
