----------------------------- MODULE PostsProofs -----------------------------
(***************************************************************************)
(* Posts for every number of accounts, posts, requests and values.         *)
(***************************************************************************)
EXTENDS Posts, TLAPS

(* The request of this record changes a post.                              *)
Changing(x) == x.pc \in {"select", "write", "delete"}

Serving == Ops \cup Walks \cup {Idle}

(***************************************************************************)
(* What a request knows of its post, while the table is ps and the last id *)
(* n: its user owns the post, and what it has loaded is the row as it is   *)
(* unless another request has written it.                                  *)
(***************************************************************************)
Owns(x, ps) ==
  /\ x.entity.owner = x.user
  /\ ps[x.id] # Gone => ps[x.id].owner = x.user

Fresh(x, ps) ==
  ~x.raced =>
    /\ ps[x.id] # Gone
    /\ x.pc = "select" => x.entity = Assign(ps[x.id], x.patch)
    /\ x.pc = "write" => x.found = ps[x.id] /\ x.entity = Assign(x.found, x.patch)

Sound(x, ps, n) == Changing(x) => x.id <= n /\ Owns(x, ps) /\ Fresh(x, ps)

OpsSound == \A r \in Slots : Sound(op[r], posts, lastId)

(* Requests that change the same post are of the same user.                *)
Agree(x, y) == Changing(x) /\ Changing(y) /\ x.id = y.id => x.user = y.user

SameUser == \A q, r \in Slots : Agree(op[q], op[r])

IdsInUse == \A i \in PostIds : posts[i] # Gone => i <= lastId

IndInv == TypeOK /\ PostsHaveAccounts /\ IdsInUse /\ OpsSound /\ SameUser

-----------------------------------------------------------------------------
(* The kinds of request are told apart by what they wait for.              *)
LEMMA Kinds ==
  ASSUME NEW x \in Serving
  PROVE  /\ Changing(x) => x \in Ops
         /\ x.pc \in {"ids", "rows", "count"} => x \in Walks
         /\ x.pc = "idle" => x = Idle
         /\ x \in Walks => ~Changing(x)
         /\ x \in Ops => Changing(x)
BY DEF Serving, Ops, Walks, Idle, Changing

(* Nothing is known of a request that changes no post.                     *)
LEMMA IdleSound == ~Changing(Idle) /\ Idle \in Serving
BY DEF Changing, Idle, Serving

(* To assign a patch changes neither the kind of a row nor its owner.      *)
LEMMA AssignType ==
  ASSUME NEW row \in Rows, NEW patch \in Patches
  PROVE  Assign(row, patch) \in Rows /\ Assign(row, patch).owner = row.owner
BY DEF Assign, Rows, Bodies, Patches

(* A step of one request that writes nothing.                              *)
LEMMA SlotStep ==
  ASSUME IndInv, NEW r \in Slots, NEW x \in Serving,
         op' = [op EXCEPT ![r] = x],
         UNCHANGED <<users, posts, lastId, tied>>,
         Sound(x, posts, lastId),
         Changing(x) => \/ posts[x.id] # Gone
                        \/ Changing(op[r]) /\ x.id = op[r].id /\ x.user = op[r].user
  PROVE  IndInv'
<1>1. /\ op \in [Slots -> Serving] /\ op' \in [Slots -> Serving]
      /\ op'[r] = x /\ \A q \in Slots \ {r} : op'[q] = op[q]
  BY DEF IndInv, TypeOK, Serving
<1>2. TypeOK' /\ PostsHaveAccounts' /\ IdsInUse'
  BY <1>1 DEF IndInv, TypeOK, PostsHaveAccounts, IdsInUse, Serving
<1>3. \A q \in Slots : Sound(op'[q], posts, lastId)
  BY <1>1 DEF IndInv, OpsSound
<1>4. OpsSound'
  BY <1>3 DEF OpsSound, Sound, Owns, Fresh
<1>5. ASSUME NEW q \in Slots \ {r}
      PROVE  Agree(op[q], x) /\ Agree(x, op[q])
  <2>1. Sound(op[q], posts, lastId) /\ Agree(op[q], op[r])
    BY DEF IndInv, OpsSound, SameUser
  <2> QED BY <2>1 DEF Sound, Owns, Agree
<1>6. Agree(x, x)
  BY DEF Agree
<1>7. \A p, q \in Slots : Agree(op'[p], op'[q])
  BY <1>1, <1>5, <1>6 DEF IndInv, SameUser
<1>8. SameUser'
  BY <1>7 DEF SameUser, Agree
<1> QED BY <1>2, <1>4, <1>8 DEF IndInv

(* What another request learns of a write: it is the same request still,   *)
(* and was raced if the write was to its post.                             *)
LEMMA NoticedType ==
  ASSUME op \in [Slots -> Serving], NEW q \in Slots, NEW i \in PostIds,
         NEW row \in Rows \cup {Gone}
  PROVE  /\ Noticed(q, i, row) \in Serving
         /\ ~Changing(op[q]) => ~Changing(Noticed(q, i, row))
         /\ Changing(op[q]) =>
              /\ op[q].id # i => Noticed(q, i, row) = op[q]
              /\ op[q].id = i => Noticed(q, i, row) = [op[q] EXCEPT !.raced = TRUE]
<1>1. op[q] \in Serving
  OBVIOUS
<1>2. CASE Listing(q)
  <2>1. op[q] \in Walks /\ ~Changing(op[q])
    BY <1>1, <1>2, Kinds DEF Listing
  <2>2. Noticed(q, i, row) = op[q] \/
        Noticed(q, i, row) = [op[q] EXCEPT !.raced = TRUE, !.due = IF row = Gone THEN {} ELSE @]
    BY <1>2 DEF Noticed
  <2>3. Noticed(q, i, row) \in Walks
    BY <2>1, <2>2 DEF Walks
  <2> QED BY <2>1, <2>3, Kinds DEF Serving
<1>3. CASE ~Listing(q) /\ op[q].pc # "idle"
  <2>1. op[q] \in Ops /\ Changing(op[q])
    BY <1>1, <1>3, Kinds DEF Listing, Serving, Idle, Walks
  <2>2. /\ op[q].id # i => Noticed(q, i, row) = op[q]
        /\ op[q].id = i => Noticed(q, i, row) = [op[q] EXCEPT !.raced = TRUE]
    BY <1>3 DEF Noticed
  <2>3. Noticed(q, i, row) \in Ops
    BY <2>1, <2>2 DEF Ops
  <2> QED BY <2>1, <2>2, <2>3 DEF Serving
<1>4. CASE op[q].pc = "idle"
  <2>1. ~Listing(q) /\ Noticed(q, i, row) = op[q]
    BY <1>4 DEF Noticed, Listing
  <2> QED BY <1>1, <1>4, <2>1 DEF Changing
<1> QED BY <1>2, <1>3, <1>4

(* A request writes its post, or deletes it.                               *)
LEMMA WriteStep ==
  ASSUME IndInv, NEW r \in Slots, Changing(op[r]), NEW row \in Rows \cup {Gone},
         row # Gone => row.owner = op[r].user /\ row.owner \in users,
         WriteRow(r, op[r].id, row),
         UNCHANGED <<users, lastId, tied>>
  PROVE  IndInv'
<1> DEFINE i == op[r].id
<1>1. /\ op \in [Slots -> Serving] /\ op[r] \in Ops /\ i \in PostIds
      /\ i <= lastId /\ posts \in [PostIds -> Rows \cup {Gone}]
  <2>1. op \in [Slots -> Serving]
    BY DEF IndInv, TypeOK, Serving
  <2>2. op[r] \in Ops
    BY <2>1, Kinds
  <2> QED BY <2>1, <2>2 DEF IndInv, TypeOK, OpsSound, Sound, Ops
<1>2. /\ posts' = [posts EXCEPT ![i] = row]
      /\ op' = [q \in Slots |-> IF q = r THEN Idle ELSE Noticed(q, i, row)]
  BY DEF WriteRow
<1>3. /\ posts' \in [PostIds -> Rows \cup {Gone}] /\ posts'[i] = row
      /\ \A j \in PostIds \ {i} : posts'[j] = posts[j]
  BY <1>1, <1>2
<1>4. \A q \in Slots : op'[q] \in Serving
  BY <1>1, <1>2, NoticedType, IdleSound
<1>5. TypeOK'
  BY <1>2, <1>3, <1>4 DEF IndInv, TypeOK, Serving
<1>6. PostsHaveAccounts' /\ IdsInUse'
  BY <1>1, <1>3 DEF IndInv, PostsHaveAccounts, IdsInUse
<1>7. ASSUME NEW q \in Slots, Changing(op'[q])
      PROVE  /\ q # r /\ Changing(op[q]) /\ op[q] \in Ops
             /\ op'[q] = IF op[q].id = i THEN [op[q] EXCEPT !.raced = TRUE] ELSE op[q]
  <2>1. q # r
    BY <1>2, <1>7, IdleSound
  <2>2. op'[q] = Noticed(q, i, row)
    BY <1>2, <2>1
  <2>3. Changing(op[q])
    BY <1>1, <1>7, <2>2, NoticedType
  <2>4. op[q] \in Ops
    BY <1>1, <2>3, Kinds
  <2> QED BY <1>1, <2>1, <2>2, <2>3, <2>4, NoticedType
<1>8. ASSUME NEW q \in Slots, Changing(op'[q])
      PROVE  op'[q].id <= lastId' /\ Owns(op'[q], posts') /\ Fresh(op'[q], posts')
  <2>1. /\ Changing(op[q]) /\ op[q] \in Ops
        /\ op'[q] = IF op[q].id = i THEN [op[q] EXCEPT !.raced = TRUE] ELSE op[q]
    BY <1>7, <1>8
  <2>2. op[q].id <= lastId /\ Owns(op[q], posts) /\ Fresh(op[q], posts)
    BY <2>1 DEF IndInv, OpsSound, Sound
  <2>3. op[q].id = i => op[q].user = op[r].user
    BY <2>1 DEF IndInv, SameUser, Agree
  <2>4. CASE op[q].id = i
    <3>1. /\ op'[q].id = i /\ op'[q].user = op[q].user
          /\ op'[q].entity = op[q].entity /\ op'[q].raced = TRUE
      BY <2>1, <2>4 DEF Ops
    <3>2. posts'[op'[q].id] = row
      BY <1>3, <3>1
    <3>3. op'[q].id <= lastId'
      BY <1>1, <3>1
    <3>4. op[q].entity.owner = op[q].user /\ (row # Gone => row.owner = op[q].user)
      BY <2>2, <2>3, <2>4 DEF Owns
    <3> QED BY <3>1, <3>2, <3>3, <3>4 DEF Owns, Fresh
  <2>5. CASE op[q].id # i
    <3>1. op'[q] = op[q] /\ posts'[op[q].id] = posts[op[q].id]
      BY <1>3, <2>1, <2>5 DEF Ops
    <3> QED BY <2>2, <3>1 DEF Owns, Fresh
  <2> QED BY <2>4, <2>5
<1>9. OpsSound'
  BY <1>8 DEF OpsSound, Sound, Changing, Owns, Fresh
<1>10. ASSUME NEW p \in Slots, NEW q \in Slots, Changing(op'[p]), Changing(op'[q]),
              op'[p].id = op'[q].id
       PROVE  op'[p].user = op'[q].user
  <2>1. /\ Changing(op[p]) /\ op'[p].id = op[p].id /\ op'[p].user = op[p].user
    BY <1>7, <1>10 DEF Ops
  <2>2. /\ Changing(op[q]) /\ op'[q].id = op[q].id /\ op'[q].user = op[q].user
    BY <1>7, <1>10 DEF Ops
  <2> QED BY <1>10, <2>1, <2>2 DEF IndInv, SameUser, Agree
<1>11. SameUser'
  BY <1>10 DEF SameUser, Agree, Changing
<1> QED BY <1>5, <1>6, <1>9, <1>11 DEF IndInv

(* A new post has an id that no request knows.                             *)
LEMMA CreateStep ==
  ASSUME IndInv, NEW u \in Users, NEW body \in Bodies, Create(u, body)
  PROVE  IndInv'
<1> DEFINE n   == lastId + 1
           row == [owner |-> u, body |-> body]
<1>1. /\ op \in [Slots -> Serving] /\ lastId \in Nat /\ MaxPosts \in Nat
      /\ posts \in [PostIds -> Rows \cup {Gone}]
  BY PostAssumption DEF IndInv, TypeOK, Serving
<1>2. /\ n \in PostIds /\ n <= MaxPosts /\ lastId' = n /\ row \in Rows /\ u \in users
      /\ users' = users /\ row # Gone
  BY <1>1, GoneAssumption DEF Create, PostIds, Rows
<1>3. /\ posts' = [posts EXCEPT ![n] = row]
      /\ op' = [q \in Slots |-> Noticed(q, n, posts'[n])]
  BY <1>2 DEF Create
<1>4. /\ posts' \in [PostIds -> Rows \cup {Gone}] /\ posts'[n] = row
      /\ \A j \in PostIds \ {n} : posts'[j] = posts[j]
  BY <1>1, <1>2, <1>3
<1>5. /\ \A q \in Slots : op'[q] \in Serving
      /\ op' = [q \in Slots |-> Noticed(q, n, row)]
  BY <1>1, <1>2, <1>3, <1>4, NoticedType
<1>6. tied' \subseteq PostIds
  BY <1>2 DEF Create, IndInv, TypeOK
<1>7. TypeOK'
  BY <1>1, <1>2, <1>4, <1>5, <1>6 DEF IndInv, TypeOK, Serving, PostIds
<1>8. PostsHaveAccounts' /\ IdsInUse'
  BY <1>1, <1>2, <1>4 DEF IndInv, PostsHaveAccounts, IdsInUse, PostIds
<1>9. ASSUME NEW q \in Slots, Changing(op'[q])
      PROVE  /\ Changing(op[q]) /\ op'[q] = op[q] /\ op[q].id \in PostIds \ {n}
             /\ op[q].id <= lastId
  <2>1. Changing(op[q]) /\ op[q] \in Ops
    BY <1>1, <1>2, <1>5, <1>9, NoticedType, Kinds
  <2>2. op[q].id <= lastId /\ op[q].id \in PostIds
    BY <2>1 DEF IndInv, OpsSound, Sound, Ops
  <2>3. op[q].id # n
    BY <1>1, <2>2 DEF PostIds
  <2> QED BY <1>1, <1>2, <1>5, <2>1, <2>2, <2>3, NoticedType
<1>10. ASSUME NEW q \in Slots, Changing(op'[q])
       PROVE  op'[q].id <= lastId' /\ Owns(op'[q], posts') /\ Fresh(op'[q], posts')
  <2>1. /\ Changing(op[q]) /\ op'[q] = op[q] /\ posts'[op[q].id] = posts[op[q].id]
        /\ op[q].id \in PostIds /\ op[q].id <= lastId
    BY <1>4, <1>9, <1>10
  <2>2. Owns(op[q], posts) /\ Fresh(op[q], posts)
    BY <2>1 DEF IndInv, OpsSound, Sound
  <2>3. op[q].id <= n
    BY <1>1, <2>1 DEF PostIds
  <2> QED BY <1>2, <2>1, <2>2, <2>3 DEF Owns, Fresh
<1>11. OpsSound'
  BY <1>10 DEF OpsSound, Sound, Changing, Owns, Fresh
<1>12. \A p, q \in Slots : Agree(op'[p], op'[q])
  BY <1>9 DEF IndInv, SameUser, Agree
<1>13. SameUser'
  BY <1>12 DEF SameUser, Agree, Changing
<1> QED BY <1>7, <1>8, <1>11, <1>13 DEF IndInv

-----------------------------------------------------------------------------
(* The table is empty at first, and nobody writes.                         *)
LEMMA InitIndInv == Init => IndInv
<1> SUFFICES ASSUME Init PROVE IndInv
  OBVIOUS
<1>1. /\ users = Users /\ posts = [i \in PostIds |-> Gone] /\ lastId = 0 /\ tied = {}
      /\ op = [r \in Slots |-> Idle] /\ MaxPosts \in Nat
  BY PostAssumption DEF Init
<1>2. TypeOK
  BY <1>1 DEF TypeOK
<1>3. PostsHaveAccounts /\ IdsInUse
  BY <1>1 DEF PostsHaveAccounts, IdsInUse
<1>4. \A r \in Slots : ~Changing(op[r])
  BY <1>1, IdleSound
<1> QED BY <1>2, <1>3, <1>4 DEF IndInv, OpsSound, SameUser, Sound, Agree

(* findOne, the check of the owner, and the assignment.                    *)
LEMMA FindOwnedStep ==
  ASSUME IndInv, NEW r \in Slots, NEW i \in PostIds, NEW u \in Users,
         NEW pc \in {"select", "delete"}, NEW patch \in Patches,
         FindOwned(r, i, u, pc, patch)
  PROVE  IndInv'
<1> DEFINE x == [pc |-> pc, id |-> i, user |-> u, patch |-> patch,
                 entity |-> Assign(posts[i], patch), found |-> Gone, raced |-> FALSE]
<1>1. /\ posts[i] # Gone /\ posts[i].owner = u /\ posts[i] \in Rows /\ i <= lastId
      /\ op' = [op EXCEPT ![r] = x] /\ UNCHANGED <<users, posts, lastId, tied>>
  BY DEF FindOwned, IndInv, TypeOK, IdsInUse
<1>2. Assign(posts[i], patch) \in Rows /\ Assign(posts[i], patch).owner = u
  BY <1>1, AssignType
<1>3. x \in Serving
  BY <1>2 DEF Serving, Ops
<1>4. Sound(x, posts, lastId)
  BY <1>1, <1>2 DEF Sound, Owns, Fresh
<1> HIDE DEF x
<1>5. x.id = i
  BY DEF x
<1> QED BY <1>1, <1>3, <1>4, <1>5, SlotStep

(* The first half of save.                                                 *)
LEMMA SaveSelectStep ==
  ASSUME IndInv, NEW r \in Slots, SaveSelect(r)
  PROVE  IndInv'
<1> DEFINE x == [op[r] EXCEPT !.pc = "write", !.found = posts[op[r].id]]
<1>1. op[r] \in Serving /\ op[r].pc = "select" /\ Changing(op[r])
  BY DEF SaveSelect, IndInv, TypeOK, Serving, Changing
<1>2. op[r] \in Ops /\ posts[op[r].id] \in Rows \cup {Gone}
  BY <1>1, Kinds DEF IndInv, TypeOK, Ops
<1>3. /\ x \in Ops
      /\ x.pc = "write" /\ x.found = posts[op[r].id]
      /\ x.id = op[r].id /\ x.user = op[r].user /\ x.entity = op[r].entity
      /\ x.patch = op[r].patch /\ x.raced = op[r].raced
  BY <1>2 DEF Ops
<1>4. op' = [op EXCEPT ![r] = x] /\ UNCHANGED <<users, posts, lastId, tied>>
  BY <1>1 DEF SaveSelect
<1>5. Sound(op[r], posts, lastId)
  BY DEF IndInv, OpsSound
<1> HIDE DEF x
<1>6. Sound(x, posts, lastId)
  BY <1>1, <1>3, <1>5 DEF Sound, Owns, Fresh
<1>7. x \in Serving
  BY <1>3 DEF Serving
<1> QED BY <1>1, <1>3, <1>4, <1>6, <1>7, SlotStep

(* A step of a list, or an answer, takes no post.                          *)
LEMMA OtherStep ==
  ASSUME IndInv, NEW r \in Slots, NEW x \in Walks \cup {Idle},
         op' = [op EXCEPT ![r] = x], UNCHANGED <<users, posts, lastId, tied>>
  PROVE  IndInv'
<1>1. x \in Serving /\ ~Changing(x)
  BY Kinds, IdleSound DEF Serving
<1> QED BY <1>1, SlotStep DEF Sound

(* The next page, or none, after the queries of this one.                  *)
LEMMA WalkStep ==
  ASSUME IndInv, NEW r \in Slots,
         ReadIds(r) \/ ReadRows(r) \/ NextPage(r)
  PROVE  IndInv'
<1>1. op[r] \in Walks
  BY Kinds DEF ReadIds, ReadRows, NextPage, IndInv, TypeOK, Serving
<1>2. CASE ReadIds(r)
  <2>1. PICK pos \in Orders(Listed(op[r].owners), CreatedAt) :
          op' = [op EXCEPT ![r].items = OnPage(pos, op[r].page, op[r].limit),
                  ![r].raced = FALSE,
                  ![r].pc = IF op[r].owners = Users /\ OnPage(pos, op[r].page, op[r].limit) # {}
                            THEN "rows" ELSE "count"]
    BY <1>2 DEF ReadIds
  <2> DEFINE ids == OnPage(pos, op[r].page, op[r].limit)
             x == [op[r] EXCEPT !.items = ids, !.raced = FALSE,
                     !.pc = IF op[r].owners = Users /\ ids # {} THEN "rows" ELSE "count"]
  <2>2. ids \subseteq PostIds
    BY DEF OnPage, Orders, Listed
  <2>3. x \in Walks
    BY <1>1, <2>2 DEF Walks
  <2>4. op' = [op EXCEPT ![r] = x]
    BY <2>1
  <2> QED BY <1>2, <2>3, <2>4, OtherStep DEF ReadIds
<1>3. CASE ReadRows(r)
  <2> DEFINE x == [op[r] EXCEPT !.items = @ \cap Listed(op[r].owners), !.pc = "count"]
  <2>1. x \in Walks
    BY <1>1 DEF Walks
  <2>2. op' = [op EXCEPT ![r] = x]
    BY <1>3 DEF ReadRows
  <2> QED BY <1>3, <2>1, <2>2, OtherStep DEF ReadRows
<1>4. CASE NextPage(r)
  <2> DEFINE x == [op[r] EXCEPT !.pc = "ids", !.page = @ + 1, !.items = {},
                     !.due = @ \ op[r].items, !.raced = FALSE]
  <2>1. x \in Walks
    <3>1. op[r].page + 1 \in Nat \ {0} /\ op[r].due \ op[r].items \in SUBSET PostIds
      BY <1>1 DEF Walks
    <3> QED BY <1>1, <3>1 DEF Walks
  <2>2. op' = [op EXCEPT ![r] = x]
    BY <1>4 DEF NextPage
  <2> QED BY <1>4, <2>1, <2>2, OtherStep DEF NextPage
<1> QED BY <1>2, <1>3, <1>4

(* save writes the row that it found changed, or inserts what it did not   *)
(* find.                                                                   *)
LEMMA SaveStep ==
  ASSUME IndInv, NEW r \in Slots, SaveUpdate(r) \/ SaveInsert(r)
  PROVE  IndInv'
<1> DEFINE i == op[r].id
<1>1. /\ op[r] \in Ops /\ Changing(op[r]) /\ i \in PostIds
      /\ posts[i] \in Rows \cup {Gone} /\ Owns(op[r], posts)
  <2>1. op[r] \in Serving /\ Changing(op[r])
    BY DEF SaveUpdate, SaveInsert, IndInv, TypeOK, Serving, Changing
  <2>2. op[r] \in Ops
    BY <2>1, Kinds
  <2> QED BY <2>1, <2>2 DEF IndInv, TypeOK, OpsSound, Sound, Ops
<1>2. CASE SaveUpdate(r)
  <2> DEFINE row == [posts[i] EXCEPT !.body =
                      [f \in Fields |-> IF f \in Changed(r) THEN op[r].entity.body[f] ELSE @[f]]]
  <2>1. posts[i] \in Rows /\ posts[i].owner = op[r].user /\ op[r].entity \in Rows
    BY <1>1, <1>2 DEF SaveUpdate, Owns, Ops
  <2>2. row \in Rows /\ row.owner = op[r].user
    BY <2>1 DEF Rows, Bodies
  <2>3. op[r].user \in users
    BY <1>1, <1>2, <2>1 DEF IndInv, PostsHaveAccounts, SaveUpdate
  <2>4. WriteRow(r, i, row) /\ UNCHANGED <<users, lastId, tied>>
    BY <1>2 DEF SaveUpdate
  <2> HIDE DEF row
  <2> QED BY <1>1, <2>2, <2>3, <2>4, WriteStep
<1>3. CASE SaveInsert(r)
  <2>1. op[r].entity \in Rows /\ op[r].entity.owner = op[r].user
    BY <1>1 DEF Owns, Ops
  <2> QED BY <1>1, <1>3, <2>1, WriteStep DEF SaveInsert
<1> QED BY <1>2, <1>3

(* A delete of the row.                                                    *)
LEMMA DeleteStep ==
  ASSUME IndInv, NEW r \in Slots, Delete(r)
  PROVE  IndInv'
<1>1. Changing(op[r])
  BY DEF Delete, Changing
<1> QED BY <1>1, WriteStep DEF Delete

(* Every step keeps the invariant.                                         *)
LEMMA NextIndInv == IndInv /\ [Next]_vars => IndInv'
<1> SUFFICES ASSUME IndInv, [Next]_vars PROVE IndInv'
  OBVIOUS
<1>1. ASSUME UNCHANGED vars PROVE IndInv'
  BY <1>1 DEF vars, IndInv, TypeOK, PostsHaveAccounts, IdsInUse, OpsSound, SameUser,
     Sound, Owns, Fresh, Agree, Changing
<1>2. ASSUME NEW u \in Users, RemoveUser(u) PROVE IndInv'
  BY <1>2 DEF RemoveUser, IndInv, TypeOK, PostsHaveAccounts, IdsInUse, OpsSound, SameUser,
     Sound, Owns, Fresh, Agree, Changing
<1>3. ASSUME NEW r \in Slots, NEW i \in PostIds, NEW u \in Users, Remove(r, i, u)
      PROVE IndInv'
  <2>1. NoPatch \in Patches
    BY DEF NoPatch, Patches
  <2> QED BY <1>3, <2>1, FindOwnedStep DEF Remove
<1>4. ASSUME NEW r \in Slots, NEW i \in PostIds, NEW u \in Users, NEW patch \in Patches,
             Update(r, i, u, patch)
      PROVE IndInv'
  BY <1>4, FindOwnedStep DEF Update
<1>5. ASSUME NEW r \in Slots, NEW limit \in Limits, NEW owners \in SUBSET Users,
             BeginWalk(r, owners, limit)
      PROVE IndInv'
  <2> DEFINE x == [pc |-> "ids", owners |-> owners, limit |-> limit, page |-> 1,
                   items |-> {}, due |-> Listed(owners), raced |-> FALSE]
  <2>1. x \in Walks
    BY DEF Walks, Listed
  <2> QED BY <1>5, <2>1, OtherStep DEF BeginWalk
<1>6. ASSUME NEW r \in Slots, SaveNothing(r) \/ SaveInsertFails(r) \/ EndWalk(r)
      PROVE IndInv'
  BY <1>6, OtherStep DEF SaveNothing, SaveInsertFails, EndWalk, Answer
<1>7. ASSUME NEW r \in Slots, Serve(r) PROVE IndInv'
  BY <1>6, <1>7, SaveSelectStep, SaveStep, DeleteStep, WalkStep DEF Serve
<1>8. ASSUME NEW i \in PostIds, NEW u \in Users, Refused(i, u) PROVE IndInv'
  BY <1>1, <1>8 DEF Refused
<1> QED BY <1>1, <1>2, <1>3, <1>4, <1>5, <1>7, <1>8, CreateStep DEF Next

-----------------------------------------------------------------------------
(* The invariant that the theorems rest on.                                *)
LEMMA IndInvHolds == Spec => []IndInv
BY InitIndInv, NextIndInv, PTL DEF Spec

(* The variables keep their types, for every number of accounts, posts and *)
(* requests.                                                               *)
THEOREM PostsTypeCorrect == Spec => []TypeOK
<1>1. IndInv => TypeOK
  BY DEF IndInv
<1> QED BY <1>1, IndInvHolds, PTL

(* No post outlives its account (post.entity.ts:15-18).                    *)
THEOREM NoPostOutlivesAccount == Spec => []PostsHaveAccounts
<1>1. IndInv => PostsHaveAccounts
  BY DEF IndInv
<1> QED BY <1>1, IndInvHolds, PTL

(* A step that writes a post is of a request that changes posts, and what  *)
(* the invariant knows of it is known of the row that is written.          *)
LEMMA Writing ==
  ASSUME IndInv, NEW r \in Slots, SaveUpdate(r) \/ SaveInsert(r) \/ Delete(r)
  PROVE  /\ op[r] \in Ops /\ op[r].id \in PostIds
         /\ posts \in [PostIds -> Rows \cup {Gone}]
         /\ Owns(op[r], posts) /\ Fresh(op[r], posts)
<1>1. op[r] \in Serving /\ Changing(op[r])
  BY DEF SaveUpdate, SaveInsert, Delete, IndInv, TypeOK, Serving, Changing
<1>2. op[r] \in Ops
  BY <1>1, Kinds
<1> QED BY <1>1, <1>2 DEF IndInv, TypeOK, OpsSound, Sound, Ops

(* Only the owner's requests write a post (posts.service.ts:64-71, :77-83).*)
THEOREM OwnersWrite == Spec => OnlyOwnerWrites
<1>1. ASSUME IndInv, NEW r \in Slots, SaveUpdate(r) \/ SaveInsert(r) \/ Delete(r)
      PROVE  LET i == op[r].id
             IN  /\ posts[i] # Gone => posts[i].owner = op[r].user
                 /\ posts'[i] # Gone => posts'[i].owner = op[r].user
  <2> DEFINE i == op[r].id
  <2>1. /\ op[r] \in Ops /\ i \in PostIds /\ posts \in [PostIds -> Rows \cup {Gone}]
        /\ Owns(op[r], posts)
    BY <1>1, Writing
  <2>2. CASE SaveUpdate(r)
    <3>1. posts[i] \in Rows /\ posts[i].owner = op[r].user
      BY <2>1, <2>2 DEF SaveUpdate, Owns
    <3>2. posts'[i] = [posts[i] EXCEPT !.body =
            [f \in Fields |-> IF f \in Changed(r) THEN op[r].entity.body[f] ELSE @[f]]]
      BY <2>1, <2>2 DEF SaveUpdate, WriteRow
    <3>3. posts'[i].owner = posts[i].owner
      BY <3>1, <3>2 DEF Rows
    <3> QED BY <3>1, <3>3
  <2>3. CASE SaveInsert(r)
    BY <2>1, <2>3 DEF SaveInsert, WriteRow, Owns
  <2>4. CASE Delete(r)
    BY <2>1, <2>4 DEF Delete, WriteRow, Owns
  <2> QED BY <1>1, <2>2, <2>3, <2>4
<1>2. IndInv => [\A r \in Slots :
                   (SaveUpdate(r) \/ SaveInsert(r) \/ Delete(r)) =>
                     LET i == op[r].id
                     IN  /\ posts[i] # Gone => posts[i].owner = op[r].user
                         /\ posts'[i] # Gone => posts'[i].owner = op[r].user]_vars
  BY <1>1
<1> QED BY <1>2, IndInvHolds, PTL DEF OnlyOwnerWrites

(* A PATCH brings a post back only when it was raced                       *)
(* (posts.service.ts:62, :71).                                             *)
THEOREM InsertIsRaced == Spec => InsertOnlyAfterRace
<1>1. ASSUME IndInv, NEW r \in Slots, SaveInsert(r)
      PROVE  op[r].raced
  <2>1. op[r] \in Ops /\ Fresh(op[r], posts)
    BY <1>1, Writing
  <2> QED BY <1>1, <2>1 DEF SaveInsert, Fresh, Ops
<1>2. IndInv => [\A r \in Slots : SaveInsert(r) => op[r].raced]_vars
  BY <1>1
<1> QED BY <1>2, IndInvHolds, PTL DEF InsertOnlyAfterRace

(* A PATCH that was not raced changes the fields that it carries, to what  *)
(* it says, and no other (posts.service.ts:62-71).                         *)
THEOREM PatchesAreExact == Spec => UnracedPatchIsExact
<1>1. ASSUME IndInv, NEW r \in Slots, SaveUpdate(r), ~op[r].raced, NEW f \in Fields
      PROVE  posts'[op[r].id].body[f] =
               IF op[r].patch[f] = Keep THEN posts[op[r].id].body[f] ELSE op[r].patch[f]
  <2> DEFINE i == op[r].id
  <2>1. /\ op[r] \in Ops /\ i \in PostIds /\ posts \in [PostIds -> Rows \cup {Gone}]
        /\ Fresh(op[r], posts)
    BY <1>1, Writing
  <2>2. posts[i] \in Rows /\ op[r].found = posts[i] /\ op[r].entity = Assign(posts[i], op[r].patch)
    BY <1>1, <2>1 DEF SaveUpdate, Fresh
  <2>3. op[r].entity.body[f] =
          IF op[r].patch[f] = Keep THEN posts[i].body[f] ELSE op[r].patch[f]
    BY <2>1, <2>2 DEF Assign, Rows
  <2>4. posts'[i] = [posts[i] EXCEPT !.body =
          [g \in Fields |-> IF g \in Changed(r) THEN op[r].entity.body[g] ELSE @[g]]]
    BY <1>1, <2>1 DEF SaveUpdate, WriteRow
  <2>5. posts'[i].body[f] = IF f \in Changed(r) THEN op[r].entity.body[f] ELSE posts[i].body[f]
    BY <2>2, <2>4 DEF Rows
  <2>6. f \in Changed(r) <=> op[r].entity.body[f] # posts[i].body[f]
    BY <2>2 DEF Changed
  <2> QED BY <2>3, <2>5, <2>6
<1>2. IndInv => [\A r \in Slots :
                   SaveUpdate(r) /\ ~op[r].raced =>
                     LET old == posts[op[r].id].body
                         new == posts'[op[r].id].body
                     IN  \A f \in Fields :
                           new[f] = IF op[r].patch[f] = Keep THEN old[f] ELSE op[r].patch[f]]_vars
  BY <1>1
<1> QED BY <1>2, IndInvHolds, PTL DEF UnracedPatchIsExact
=============================================================================
