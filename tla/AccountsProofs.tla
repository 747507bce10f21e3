---------------------------- MODULE AccountsProofs ----------------------------
(***************************************************************************)
(* Accounts for every number of accounts, e-mails and requests.            *)
(***************************************************************************)
EXTENDS Accounts, TLAPS

(***************************************************************************)
(* What a request says, while the users are us, the last id is n and the   *)
(* accounts mv have moved.                                                 *)
(***************************************************************************)
HasEmail(x) ==
  x.pc \in {"insert", "sign", "select", "write"} \/ (x.pc = "find" /\ x.given = TRUE) =>
    x.email \in Emails

Signs(x, us, mv) == x.pc = "sign" => us[x.id] = x.email \/ x.id \in mv

(* Nobody else has the e-mail that the request is about to write, unless   *)
(* it was taken after the check.                                           *)
Free(x, us) ==
  /\ x.pc = "insert" /\ x.route # "register" /\ x.taken = FALSE =>
       \A j \in UserIds : us[j] # x.email
  /\ x.taken = FALSE /\ (x.pc \in {"select", "write"} \/ (x.pc = "find" /\ x.given = TRUE)) =>
       \A j \in UserIds \ {x.id} : us[j] # x.email

(* An e-mail that the body leaves out is the one of the row.               *)
Kept(x, us) ==
  x.given = FALSE /\ x.raced = FALSE =>
    /\ x.pc = "select" => us[x.id] = x.email
    /\ x.pc = "write" => x.found = x.email

Sound(x, us, n, mv) ==
  /\ HasEmail(x)
  /\ x.pc \in {"select", "write"} => x.id <= n
  /\ Signs(x, us, mv)
  /\ Free(x, us)
  /\ Kept(x, us)

OpsSound == \A r \in Slots : Sound(op[r], users, lastId, moved)

Unique(us) == \A i, j \in UserIds : us[i] = us[j] /\ us[i] # Gone => i = j

IdsInUse == \A i \in UserIds : users[i] # Gone => i <= lastId

(* A token speaks for the row of its id, until this row has moved.         *)
TokenFollows(t, us, mv) == us[t.id] = t.email \/ t.id \in mv

TokensFollow == \A t \in tokens : TokenFollows(t, users, moved)

IndInv ==
  /\ TypeOK
  /\ OpsSound
  /\ Unique(users)
  /\ IdsInUse
  /\ TokensFollow
  /\ RefreshFollowsEmail

-----------------------------------------------------------------------------
(* A slot that is idle promises nothing, and is told from one that is not. *)
LEMMA IdleSound ==
  ASSUME NEW us, NEW n, NEW mv
  PROVE  Sound(Idle, us, n, mv) /\ Idle.pc = "idle"
BY DEF Sound, HasEmail, Signs, Free, Kept, Idle

LEMMA Kinds ==
  ASSUME NEW x \in Ops \cup {Idle}, x.pc # "idle"
  PROVE  x \in Ops
BY DEF Idle

(* No account, no token at first.                                          *)
LEMMA InitIndInv == Init => IndInv
<1> SUFFICES ASSUME Init PROVE IndInv
  OBVIOUS
<1>1. /\ users = [i \in UserIds |-> Gone] /\ lastId = 0 /\ op = [r \in Slots |-> Idle]
      /\ tokens = {} /\ refreshed = {} /\ moved = {} /\ MaxUsers \in Nat
  BY AccountAssumption DEF Init
<1>2. TypeOK
  BY <1>1 DEF TypeOK
<1>3. OpsSound
  BY <1>1, IdleSound DEF OpsSound
<1>4. Unique(users) /\ IdsInUse /\ TokensFollow /\ RefreshFollowsEmail
  BY <1>1 DEF Unique, IdsInUse, TokensFollow, RefreshFollowsEmail
<1> QED BY <1>2, <1>3, <1>4 DEF IndInv

(* A step of one request that writes no row; it may hand out a token.      *)
LEMMA SlotStep ==
  ASSUME IndInv, NEW r \in Slots, NEW x \in Ops \cup {Idle},
         op' = [op EXCEPT ![r] = x],
         UNCHANGED <<users, lastId, refreshed, moved>>,
         Sound(x, users, lastId, moved),
         \A t \in tokens' : \/ t \in tokens
                            \/ t \in Payloads /\ TokenFollows(t, users, moved)
  PROVE  IndInv'
<1>1. op \in [Slots -> Ops \cup {Idle}] /\ tokens \subseteq Payloads
  BY DEF IndInv, TypeOK
<1>2. /\ op' \in [Slots -> Ops \cup {Idle}] /\ op'[r] = x
      /\ \A q \in Slots \ {r} : op'[q] = op[q]
  BY <1>1
<1>3. tokens' \subseteq Payloads
  BY <1>1
<1>4. TypeOK'
  BY <1>2, <1>3 DEF IndInv, TypeOK
<1>5. \A q \in Slots : Sound(op'[q], users, lastId, moved)
  BY <1>2 DEF IndInv, OpsSound
<1>6. OpsSound'
  BY <1>5 DEF OpsSound
<1>7. \A t \in tokens' : TokenFollows(t, users, moved)
  BY DEF IndInv, TokensFollow
<1>8. TokensFollow'
  BY <1>7 DEF TokensFollow
<1>9. Unique(users') /\ IdsInUse' /\ RefreshFollowsEmail'
  BY DEF IndInv, Unique, IdsInUse, RefreshFollowsEmail
<1> QED BY <1>4, <1>6, <1>8, <1>9 DEF IndInv

(* A request writes the row of id i.  A row that is overwritten has moved, *)
(* and a token that is handed out speaks for the row that is written.      *)
LEMMA WriteStep ==
  ASSUME IndInv, NEW r \in Slots, NEW i \in UserIds, NEW row \in Emails \cup {Gone},
         WriteRow(r, i, row),
         lastId' \in 0..MaxUsers, lastId <= lastId', row # Gone => i <= lastId',
         moved \subseteq moved', moved' \subseteq UserIds,
         users[i] # Gone => i \in moved',
         row # Gone => ~Conflict(i, row),
         refreshed' = refreshed,
         \A t \in tokens' : \/ t \in tokens
                            \/ t \in Payloads /\ t.id = i /\ t.email = row
  PROVE  IndInv'
<1>1. /\ users \in [UserIds -> Emails \cup {Gone}] /\ lastId \in 0..MaxUsers
      /\ op \in [Slots -> Ops \cup {Idle}] /\ tokens \subseteq Payloads
      /\ MaxUsers \in Nat /\ Gone \notin Emails /\ Keep \notin Emails
  BY AccountAssumption DEF IndInv, TypeOK
<1>2. /\ users' = [users EXCEPT ![i] = row]
      /\ op' = [q \in Slots |->
           IF q = r THEN Idle
           ELSE IF op[q].pc = "idle" THEN op[q]
           ELSE [op[q] EXCEPT !.taken = @ \/ row = op[q].email, !.raced = @ \/ op[q].id = i]]
  BY DEF WriteRow
<1>3. /\ users' \in [UserIds -> Emails \cup {Gone}] /\ users'[i] = row
      /\ \A j \in UserIds \ {i} : users'[j] = users[j]
  BY <1>1, <1>2
<1>4. ASSUME NEW q \in Slots
      PROVE  op'[q] \in Ops \cup {Idle} /\ Sound(op'[q], users', lastId', moved')
  <2>1. CASE q = r \/ op[q].pc = "idle"
    <3>1. op[q].pc = "idle" => op[q] = Idle
      BY <1>1 DEF Ops
    <3>2. op'[q] = Idle
      BY <1>2, <2>1, <3>1
    <3> QED BY <3>2, IdleSound
  <2>2. CASE q # r /\ op[q].pc # "idle"
    <3> DEFINE w == op[q]
               x == [w EXCEPT !.taken = @ \/ row = w.email, !.raced = @ \/ w.id = i]
    <3>1. op'[q] = x
      BY <1>2, <2>2
    <3>2. w \in Ops
      BY <1>1, <2>2, Kinds
    <3>3. Sound(w, users, lastId, moved)
      BY DEF IndInv, OpsSound
    <3>5. /\ x \in Ops
          /\ x.pc = w.pc /\ x.route = w.route /\ x.id = w.id /\ x.email = w.email
          /\ x.given = w.given /\ x.found = w.found
      <4> DEFINE y(a, b) == [w EXCEPT !.taken = a, !.raced = b]
      <4>1. \A a, b \in BOOLEAN :
              /\ y(a, b) \in Ops
              /\ y(a, b).pc = w.pc /\ y(a, b).route = w.route /\ y(a, b).id = w.id
              /\ y(a, b).email = w.email /\ y(a, b).given = w.given /\ y(a, b).found = w.found
        BY <3>2 DEF Ops
      <4>2. x = y(w.taken \/ row = w.email, w.raced \/ w.id = i)
        OBVIOUS
      <4> HIDE DEF x, y
      <4> QED BY <4>1, <4>2
    <3>6. /\ x.taken = FALSE => w.taken = FALSE /\ row # w.email
          /\ x.raced = FALSE => w.raced = FALSE /\ w.id # i
      BY <3>2 DEF Ops
    <3>7. w.id \in UserIds /\ w.id \in Nat /\ lastId \in Nat /\ lastId' \in Nat
      BY <1>1, <3>2 DEF Ops, UserIds
    <3> HIDE DEF x
    <3>8. HasEmail(x) /\ (x.pc \in {"select", "write"} => x.id <= lastId')
      BY <3>3, <3>5, <3>7 DEF Sound, HasEmail
    <3>9. Signs(x, users', moved')
      <4>1. ASSUME x.pc = "sign", x.id \notin moved'
            PROVE  users'[x.id] = x.email
        <5>1. users[w.id] = w.email /\ w.email \in Emails
          <6>1. w.pc = "sign" /\ w.id \notin moved
            BY <3>5, <4>1
          <6>2. Signs(w, users, moved) /\ HasEmail(w)
            BY <3>3 DEF Sound
          <6> QED BY <6>1, <6>2 DEF Signs, HasEmail
        <5>2. w.id # i
          BY <1>1, <3>5, <4>1, <5>1
        <5> QED BY <1>3, <3>5, <3>7, <5>1, <5>2
      <4> QED BY <4>1 DEF Signs
    <3>10. Free(x, users')
      <4>1. x.taken = FALSE => users'[i] # x.email
        BY <1>3, <3>5, <3>6
      <4>2. Free(w, users)
        BY <3>3 DEF Sound
      <4> QED BY <1>3, <3>5, <3>6, <4>1, <4>2 DEF Free
    <3>11. Kept(x, users')
      BY <1>3, <3>3, <3>5, <3>6, <3>7 DEF Sound, Kept
    <3> QED BY <3>1, <3>5, <3>8, <3>9, <3>10, <3>11 DEF Sound
  <2> QED BY <2>1, <2>2
<1>5. op' \in [Slots -> Ops \cup {Idle}]
  BY <1>2, <1>4
<1>6. TypeOK'
  BY <1>1, <1>3, <1>5 DEF IndInv, TypeOK
<1>7. OpsSound'
  BY <1>4 DEF OpsSound
<1>8. Unique(users')
  <2>1. ASSUME NEW j \in UserIds \ {i}, row # Gone
        PROVE  users'[j] # row
    BY <1>3, <2>1 DEF Conflict
  <2> QED BY <1>3, <2>1 DEF IndInv, Unique
<1>9. IdsInUse'
  BY <1>1, <1>3 DEF IndInv, IdsInUse, UserIds
<1>10. ASSUME NEW t \in tokens'
       PROVE  TokenFollows(t, users', moved')
  <2>1. CASE t \in tokens
    <3>1. t.id \in UserIds /\ t.email \in Emails /\ TokenFollows(t, users, moved)
      BY <1>1, <2>1 DEF IndInv, TokensFollow, Payloads
    <3>2. CASE t.id = i
      BY <1>1, <3>1, <3>2 DEF TokenFollows
    <3>3. CASE t.id # i
      BY <1>3, <3>1, <3>3 DEF TokenFollows
    <3> QED BY <3>2, <3>3
  <2>2. CASE t \notin tokens
    BY <1>3, <2>2 DEF TokenFollows
  <2> QED BY <2>1, <2>2
<1>11. TokensFollow'
  BY <1>10 DEF TokensFollow
<1>12. RefreshFollowsEmail'
  BY DEF IndInv, RefreshFollowsEmail
<1> QED BY <1>6, <1>7, <1>8, <1>9, <1>11, <1>12 DEF IndInv

-----------------------------------------------------------------------------
(* A request begins.                                                       *)
LEMMA StartStep ==
  ASSUME IndInv, NEW r \in Slots, NEW pc \in {"insert", "sign", "find", "delete"},
         NEW route \in {"register", "create", "login", "update", "remove"},
         NEW i \in UserIds, NEW e \in Emails \cup {Keep},
         NEW given \in BOOLEAN, NEW secret \in BOOLEAN,
         Start(r, pc, route, i, e, given, secret),
         pc \in {"insert", "sign"} \/ given = TRUE => e \in Emails,
         pc = "sign" => users[i] = e,
         (pc = "insert" /\ route # "register") \/ (given = TRUE /\ pc = "find") => ~Taken(e)
  PROVE  IndInv'
<1> DEFINE x == [pc |-> pc, route |-> route, id |-> i, email |-> e, given |-> given,
                 secret |-> secret, found |-> Gone, taken |-> FALSE, raced |-> FALSE]
<1>1. /\ op' = [op EXCEPT ![r] = x]
      /\ UNCHANGED <<users, lastId, tokens, refreshed, moved>>
  BY DEF Start
<1>2. x \in Ops
  BY DEF Ops
<1>3. /\ x.pc = pc /\ x.route = route /\ x.id = i /\ x.email = e /\ x.given = given
  OBVIOUS
<1> HIDE DEF x
<1>4. HasEmail(x) /\ Signs(x, users, moved) /\ Kept(x, users)
  BY <1>3 DEF HasEmail, Signs, Kept
<1>5. Free(x, users)
  BY <1>3 DEF Free, Taken
<1>6. Sound(x, users, lastId, moved)
  BY <1>3, <1>4, <1>5 DEF Sound
<1> QED BY <1>1, <1>2, <1>6, SlotStep

(* A request is answered that writes no row.                               *)
LEMMA AnswerStep ==
  ASSUME IndInv, NEW r \in Slots, Answer(r),
         UNCHANGED <<users, lastId, refreshed, moved>>,
         \A t \in tokens' : \/ t \in tokens
                            \/ t \in Payloads /\ TokenFollows(t, users, moved)
  PROVE  IndInv'
BY IdleSound, SlotStep DEF Answer

(* The record of a request that is under way.                              *)
LEMMA Underway ==
  ASSUME IndInv, NEW r \in Slots, op[r].pc # "idle"
  PROVE  /\ op[r] \in Ops /\ op[r].id \in UserIds
         /\ Sound(op[r], users, lastId, moved)
         /\ users \in [UserIds -> Emails \cup {Gone}]
         /\ lastId \in 0..MaxUsers /\ tokens \subseteq Payloads /\ moved \subseteq UserIds
         /\ MaxUsers \in Nat /\ Gone \notin Emails /\ Keep \notin Emails
<1>1. op[r] \in Ops
  BY Kinds DEF IndInv, TypeOK
<1> QED BY <1>1, AccountAssumption DEF IndInv, TypeOK, OpsSound, Ops

(* A new account.                                                          *)
LEMMA InsertStep ==
  ASSUME IndInv, NEW r \in Slots, Insert(r)
  PROVE  IndInv'
<1> DEFINE e == op[r].email
           i == lastId + 1
<1>1. /\ op[r].pc = "insert" /\ lastId < MaxUsers /\ ~Taken(e) /\ lastId' = i
      /\ WriteRow(r, lastId', e) /\ UNCHANGED <<refreshed, moved>>
      /\ tokens' = IF op[r].route = "register"
                   THEN tokens \cup {[id |-> lastId', email |-> e]} ELSE tokens
  BY DEF Insert
<1>2. /\ e \in Emails /\ lastId \in 0..MaxUsers /\ MaxUsers \in Nat
      /\ moved \subseteq UserIds /\ users \in [UserIds -> Emails \cup {Gone}]
  BY <1>1, Underway DEF Sound, HasEmail
<1>3. i \in UserIds /\ i \in 0..MaxUsers /\ lastId <= i /\ i <= i
  BY <1>1, <1>2 DEF UserIds
<1>4. users[i] = Gone
  BY <1>2, <1>3 DEF IndInv, IdsInUse
<1>5. ~Conflict(i, e)
  BY <1>1 DEF Conflict, Taken
<1>6. \A t \in tokens' : t \in tokens \/ (t \in Payloads /\ t.id = i /\ t.email = e)
  BY <1>1, <1>2, <1>3 DEF Payloads
<1> HIDE DEF i
<1> QED BY <1>1, <1>2, <1>3, <1>4, <1>5, <1>6, WriteStep

(* A login answers with a token for the row that it has read.              *)
LEMMA SignStep ==
  ASSUME IndInv, NEW r \in Slots, Sign(r)
  PROVE  IndInv'
<1> DEFINE t == [id |-> op[r].id, email |-> op[r].email]
<1>1. /\ op[r].pc = "sign" /\ tokens' = tokens \cup {t} /\ Answer(r)
      /\ UNCHANGED <<users, lastId, refreshed, moved>>
  BY DEF Sign
<1>2. op[r].id \in UserIds /\ Sound(op[r], users, lastId, moved)
  BY <1>1, Underway
<1>3. t \in Payloads /\ TokenFollows(t, users, moved)
  BY <1>1, <1>2 DEF Sound, HasEmail, Signs, Payloads, TokenFollows
<1> QED BY <1>1, <1>3, AnswerStep

(* A refresh follows the e-mail: where it leads to another account, the    *)
(* one that the token names has moved.                                     *)
LEMMA RefreshStep ==
  ASSUME IndInv, NEW t \in tokens, NEW i \in UserIds, Refresh(t, i)
  PROVE  IndInv'
<1>1. /\ users[i] = t.email /\ refreshed' = refreshed \cup {[from |-> t.id, to |-> i]}
      /\ UNCHANGED <<users, lastId, op, tokens, moved>>
  BY DEF Refresh
<1>2. t \in Payloads /\ TokenFollows(t, users, moved) /\ Unique(users) /\ Gone \notin Emails
  BY AccountAssumption DEF IndInv, TypeOK, TokensFollow
<1>3. t.id \in UserIds /\ t.email # Gone
  BY <1>2 DEF Payloads
<1>4. t.id # i => t.id \in moved
  BY <1>1, <1>2, <1>3 DEF TokenFollows, Unique
<1>5. TypeOK' /\ RefreshFollowsEmail'
  BY <1>1, <1>3, <1>4 DEF IndInv, TypeOK, RefreshFollowsEmail
<1>6. OpsSound' /\ Unique(users') /\ IdsInUse' /\ TokensFollow'
  BY <1>1 DEF IndInv, OpsSound, Unique, IdsInUse, TokensFollow
<1> QED BY <1>5, <1>6 DEF IndInv

(* findOne of a PATCH, and the assignment.                                 *)
LEMMA FindStep ==
  ASSUME IndInv, NEW r \in Slots, Find(r)
  PROVE  IndInv'
<1> DEFINE w == op[r]
           x == [w EXCEPT !.pc = "select", !.raced = FALSE,
                          !.email = IF w.given THEN @ ELSE users[w.id]]
<1>1. /\ w.pc = "find" /\ users[w.id] # Gone /\ op' = [op EXCEPT ![r] = x]
      /\ UNCHANGED <<users, lastId, tokens, refreshed, moved>>
  BY DEF Find
<1>2. /\ w \in Ops /\ w.id \in UserIds /\ Sound(w, users, lastId, moved)
      /\ users \in [UserIds -> Emails \cup {Gone}] /\ Unique(users)
      /\ w.id <= lastId
  BY <1>1, Underway DEF IndInv, IdsInUse
<1>3. w.given \in BOOLEAN /\ users[w.id] \in Emails
  BY <1>1, <1>2 DEF Ops
<1>4. /\ x \in Ops /\ x.pc = "select" /\ x.id = w.id /\ x.given = w.given
      /\ x.taken = w.taken
      /\ x.email = IF w.given THEN w.email ELSE users[w.id]
  BY <1>2, <1>3 DEF Ops
<1> HIDE DEF x
<1>5. Sound(x, users, lastId, moved)
  <2>1. HasEmail(x)
    BY <1>1, <1>2, <1>3, <1>4 DEF Sound, HasEmail
  <2>2. Free(x, users) /\ Kept(x, users)
    <3>1. CASE w.given = TRUE
      BY <1>1, <1>2, <1>4, <3>1 DEF Sound, Free, Kept
    <3>2. CASE w.given = FALSE
      <4>1. x.email = users[w.id]
        BY <1>4, <3>2
      <4>2. \A j \in UserIds \ {w.id} : users[j] # x.email
        BY <1>1, <1>2, <4>1 DEF Unique
      <4> QED BY <1>4, <4>1, <4>2 DEF Free, Kept
    <3> QED BY <1>3, <3>1, <3>2
  <2> QED BY <1>2, <1>4, <2>1, <2>2 DEF Sound, Signs
<1> QED BY <1>1, <1>4, <1>5, SlotStep

(* The first half of save.                                                 *)
LEMMA SaveSelectStep ==
  ASSUME IndInv, NEW r \in Slots, SaveSelect(r)
  PROVE  IndInv'
<1> DEFINE w == op[r]
           x == [w EXCEPT !.pc = "write", !.found = users[w.id]]
<1>1. /\ w.pc = "select" /\ op' = [op EXCEPT ![r] = x]
      /\ UNCHANGED <<users, lastId, tokens, refreshed, moved>>
  BY DEF SaveSelect
<1>2. /\ w \in Ops /\ Sound(w, users, lastId, moved) /\ w.id \in UserIds
      /\ users[w.id] \in Emails \cup {Gone}
  BY <1>1, Underway
<1>3. /\ x \in Ops /\ x.pc = "write" /\ x.id = w.id /\ x.given = w.given /\ x.email = w.email
      /\ x.taken = w.taken /\ x.raced = w.raced /\ x.found = users[w.id]
  BY <1>2 DEF Ops
<1> HIDE DEF x
<1>4. HasEmail(x) /\ x.id <= lastId /\ Signs(x, users, moved)
  BY <1>1, <1>2, <1>3 DEF Sound, HasEmail, Signs
<1>5. Free(x, users) /\ Kept(x, users)
  BY <1>1, <1>2, <1>3 DEF Sound, Free, Kept
<1>6. Sound(x, users, lastId, moved)
  BY <1>3, <1>4, <1>5 DEF Sound
<1> QED BY <1>1, <1>3, <1>6, SlotStep

(* The second half of save, where it writes.                               *)
LEMMA SaveStep ==
  ASSUME IndInv, NEW r \in Slots, SaveUpdate(r) \/ SaveInsert(r)
  PROVE  IndInv'
<1> DEFINE i == op[r].id
           e == op[r].email
<1>1. /\ op[r].pc = "write" /\ WriteRow(r, i, e) /\ UNCHANGED <<lastId, tokens, refreshed>>
      /\ ~Conflict(i, e)
      /\ moved \subseteq moved' /\ moved' \subseteq moved \cup {i}
      /\ users[i] # Gone => i \in moved'
  BY DEF SaveUpdate, SaveInsert, Taken, Conflict
<1>2. /\ i \in UserIds /\ e \in Emails /\ i <= lastId
      /\ lastId \in 0..MaxUsers /\ moved \subseteq UserIds /\ MaxUsers \in Nat
  BY <1>1, Underway DEF Sound, HasEmail
<1>3. lastId <= lastId /\ moved' \subseteq UserIds
  BY <1>1, <1>2
<1> QED BY <1>1, <1>2, <1>3, WriteStep

(* A delete.                                                               *)
LEMMA DeleteStep ==
  ASSUME IndInv, NEW r \in Slots, Delete(r)
  PROVE  IndInv'
<1>1. /\ op[r].pc = "delete" /\ WriteRow(r, op[r].id, Gone)
      /\ UNCHANGED <<lastId, tokens, refreshed>> /\ moved' = moved \cup {op[r].id}
  BY DEF Delete
<1>2. /\ op[r].id \in UserIds /\ lastId \in 0..MaxUsers /\ moved \subseteq UserIds
      /\ MaxUsers \in Nat
  BY <1>1, Underway
<1>3. lastId <= lastId /\ moved' \subseteq UserIds /\ moved \subseteq moved'
  BY <1>1, <1>2
<1> QED BY <1>1, <1>2, <1>3, WriteStep

(* Every step keeps the invariant.                                         *)
LEMMA NextIndInv == IndInv /\ [Next]_vars => IndInv'
<1> SUFFICES ASSUME IndInv, [Next]_vars PROVE IndInv'
  OBVIOUS
<1>1. ASSUME UNCHANGED vars PROVE IndInv'
  BY <1>1 DEF vars, IndInv, TypeOK, OpsSound, Sound, HasEmail, Signs, Free, Kept,
     Unique, IdsInUse, TokensFollow, TokenFollows, RefreshFollowsEmail
<1>2. ASSUME NEW r \in Slots, NEW e \in Emails, Register(r, e) \/ CreateUser(r, e)
      PROVE IndInv'
  <2>1. 1 \in UserIds
    BY AccountAssumption DEF UserIds
  <2>2. CASE Register(r, e)
    BY <2>1, <2>2, StartStep DEF Register
  <2>3. CASE CreateUser(r, e)
    BY <2>1, <2>3, StartStep DEF CreateUser
  <2> QED BY <1>2, <2>2, <2>3
<1>3. ASSUME NEW r \in Slots, NEW i \in UserIds, Login(r, i) PROVE IndInv'
  <2>1. users[i] \in Emails
    BY <1>3 DEF Login, IndInv, TypeOK
  <2> QED BY <1>3, <2>1, StartStep DEF Login
<1>4. ASSUME NEW r \in Slots, NEW i \in UserIds, Remove(r, i) PROVE IndInv'
  BY <1>4, StartStep DEF Remove
<1>5. ASSUME NEW r \in Slots, NEW i \in UserIds, NEW e \in Emails \cup {Keep},
             NEW secret \in BOOLEAN, Update(r, i, e, secret)
      PROVE IndInv'
  <2>1. CASE e = Keep
    <3>1. Start(r, "find", "update", i, e, FALSE, secret)
      BY <1>5, <2>1 DEF Update
    <3> QED BY <3>1, StartStep
  <2>2. CASE e # Keep
    <3>1. Start(r, "find", "update", i, e, TRUE, secret) /\ ~Taken(e) /\ e \in Emails
      BY <1>5, <2>2 DEF Update
    <3> QED BY <3>1, StartStep
  <2> QED BY <2>1, <2>2
<1>6. ASSUME NEW r \in Slots,
             \/ InsertFails(r) \/ WrongPassword(r) \/ FindFails(r)
             \/ SaveNothing(r) \/ SaveConflict(r) \/ SaveInsertFails(r)
      PROVE IndInv'
  BY <1>6, AnswerStep
     DEF InsertFails, WrongPassword, FindFails, SaveNothing, SaveConflict, SaveInsertFails
<1>7. ASSUME NEW r \in Slots, Serve(r) PROVE IndInv'
  BY <1>6, <1>7, InsertStep, SignStep, FindStep, SaveSelectStep, SaveStep, DeleteStep DEF Serve
<1>8. ASSUME Refused PROVE IndInv'
  BY <1>1, <1>8 DEF Refused
<1> QED BY <1>1, <1>2, <1>3, <1>4, <1>5, <1>7, <1>8, RefreshStep DEF Next

-----------------------------------------------------------------------------
(* The invariant that the theorems rest on.                                *)
LEMMA IndInvHolds == Spec => []IndInv
BY InitIndInv, NextIndInv, PTL DEF Spec

(* The variables keep their types, for every number of accounts, e-mails   *)
(* and requests.                                                           *)
THEOREM AccountsTypeCorrect == Spec => []TypeOK
<1>1. IndInv => TypeOK
  BY DEF IndInv
<1> QED BY <1>1, IndInvHolds, PTL

(* A refresh answers for another account than the token's only once that   *)
(* of the token has moved (auth.service.ts:116-120).                       *)
THEOREM RefreshFollows == Spec => []RefreshFollowsEmail
<1>1. IndInv => RefreshFollowsEmail
  BY DEF IndInv
<1> QED BY <1>1, IndInvHolds, PTL

(* The unique index has to step in only where another request took the     *)
(* e-mail after the check (is-exist-email.validator.ts:22-35).             *)
THEOREM ConflictsAreRaces == Spec => ConflictOnlyAfterRace
<1>1. ASSUME IndInv, NEW r \in Slots, InsertFails(r), op[r].route # "register"
      PROVE  op[r].taken
  <2>1. op[r].pc = "insert" /\ Taken(op[r].email)
    BY <1>1 DEF InsertFails
  <2>2. op[r] \in Ops /\ Free(op[r], users)
    BY <1>1, <2>1, Underway DEF Sound
  <2>3. op[r].taken # FALSE
    BY <1>1, <2>1, <2>2 DEF Free, Taken
  <2> QED BY <2>2, <2>3 DEF Ops
<1>2. ASSUME IndInv, NEW r \in Slots, SaveConflict(r)
      PROVE  op[r].taken
  <2>1. op[r].pc = "write" /\ Conflict(op[r].id, op[r].email)
    BY <1>2 DEF SaveConflict
  <2>2. op[r] \in Ops /\ Free(op[r], users)
    BY <1>2, <2>1, Underway DEF Sound
  <2>3. op[r].taken # FALSE
    BY <2>1, <2>2 DEF Free, Conflict
  <2> QED BY <2>2, <2>3 DEF Ops
<1>3. IndInv => [\A r \in Slots :
                   /\ InsertFails(r) => op[r].route = "register" \/ op[r].taken
                   /\ SaveConflict(r) => op[r].taken]_vars
  BY <1>1, <1>2
<1> QED BY <1>3, IndInvHolds, PTL DEF ConflictOnlyAfterRace

(* A PATCH without an e-mail writes an old one back only when it was raced *)
(* (users.service.ts:59-66).                                               *)
THEOREM PatchesKeepEmails == Spec => PatchKeepsEmail
<1>1. ASSUME IndInv, NEW r \in Slots, SaveUpdate(r), ~op[r].given
      PROVE  op[r].raced
  <2>1. op[r].pc = "write" /\ op[r].email # op[r].found
    BY <1>1 DEF SaveUpdate, EmailChanges
  <2>2. op[r] \in Ops /\ Kept(op[r], users)
    BY <1>1, <2>1, Underway DEF Sound
  <2>3. op[r].given = FALSE /\ op[r].raced \in BOOLEAN
    BY <1>1, <2>2 DEF Ops
  <2> QED BY <2>1, <2>2, <2>3 DEF Kept
<1>2. IndInv => [\A r \in Slots : SaveUpdate(r) /\ ~op[r].given => op[r].raced]_vars
  BY <1>1
<1> QED BY <1>2, IndInvHolds, PTL DEF PatchKeepsEmail
=============================================================================
