------------------------------ MODULE Accounts ------------------------------
(***************************************************************************)
(* The users table and who the tokens speak for: register, login and       *)
(* refresh of AuthService, create, update and remove of UsersService, and  *)
(* the e-mail validator that runs before create and update.                *)
(*                                                                         *)
(*   src/src/modules/auth/auth.service.ts                                  *)
(*   src/src/modules/users/users.service.ts                                *)
(*   src/src/shared/validators/is-exist-email.validator.ts                 *)
(*   src/src/database/entities/user.entity.ts                              *)
(*                                                                         *)
(* The validator asks whether an e-mail is taken; hashing a password and   *)
(* the queries of save come before the row is written, and only the unique *)
(* index of the table has the last word.  A refresh token holds the id and *)
(* the e-mail of the day it was signed, and refresh looks its user up by   *)
(* the e-mail.                                                             *)
(***************************************************************************)
EXTENDS Naturals

CONSTANTS
  Slots,    \* requests in flight at once
  Emails,
  Keep,     \* a PATCH body without an e-mail
  Gone,     \* no row
  MaxUsers  \* bound: ids that the sequence hands out

ASSUME AccountAssumption ==
  /\ MaxUsers \in Nat \ {0}
  /\ Emails # {}
  /\ Keep \notin Emails
  /\ Gone \notin Emails

UserIds == 1..MaxUsers

VARIABLES
  users,      \* id -> e-mail of the row, or Gone
  lastId,     \* the id sequence
  op,         \* the request that each slot is serving
  tokens,     \* payloads of the refresh tokens that were handed out
  refreshed,  \* history: whom a refresh token named, whom its access token names
  moved       \* history: ids whose row was removed or changed its e-mail

vars == <<users, lastId, op, tokens, refreshed, moved>>

Payloads == [id : UserIds, email : Emails]

(***************************************************************************)
(*   email   the e-mail to be written: of the body, or of the loaded row   *)
(*   given   the body has an e-mail                                        *)
(*   secret  the body has a password                                       *)
(*   found   the row that save compares the entity with                    *)
(*   taken   history: another request wrote a row with this e-mail         *)
(*   raced   history: another request wrote the row of this id             *)
(***************************************************************************)
Ops ==
  [pc : {"insert", "sign", "find", "select", "write", "delete"},
   route : {"register", "create", "login", "update", "remove"},
   id : UserIds, email : Emails \cup {Keep}, given : BOOLEAN, secret : BOOLEAN,
   found : Emails \cup {Gone}, taken : BOOLEAN, raced : BOOLEAN]

Idle == [pc |-> "idle"]

Init ==
  /\ users = [i \in UserIds |-> Gone]
  /\ lastId = 0
  /\ op = [r \in Slots |-> Idle]
  /\ tokens = {}
  /\ refreshed = {}
  /\ moved = {}

Start(r, pc, route, i, e, given, secret) ==
  /\ op[r].pc = "idle"
  /\ op' = [op EXCEPT ![r] =
       [pc |-> pc, route |-> route, id |-> i, email |-> e, given |-> given,
        secret |-> secret, found |-> Gone, taken |-> FALSE, raced |-> FALSE]]
  /\ UNCHANGED <<users, lastId, tokens, refreshed, moved>>

(* findOneBy / findOne({ where: { email } }).                              *)
Taken(e) == \E i \in UserIds : users[i] = e

(* The unique index, for a row written for id i.                           *)
Conflict(i, e) == \E j \in UserIds \ {i} : users[j] = e

(* The request of slot r is answered, having written row for id i.         *)
WriteRow(r, i, row) ==
  /\ users' = [users EXCEPT ![i] = row]
  /\ op' = [q \in Slots |->
       IF q = r THEN Idle
       ELSE IF op[q].pc = "idle" THEN op[q]
       ELSE [op[q] EXCEPT !.taken = @ \/ row = op[q].email, !.raced = @ \/ op[q].id = i]]

Answer(r) == op' = [op EXCEPT ![r] = Idle]

-----------------------------------------------------------------------------
(* New accounts. *)

(* register has no validator: only the hash comes before the insert.       *)
Register(r, e) == Start(r, "insert", "register", 1, e, TRUE, TRUE)

(* Mutant: without @IsExistEmail.                                          *)
CreateUserUnchecked(r, e) == Start(r, "insert", "create", 1, e, TRUE, TRUE)

(* IsExistEmailValidator (a taken e-mail is answered 400), then the hash.  *)
CreateUser(r, e) == ~Taken(e) /\ Start(r, "insert", "create", 1, e, TRUE, TRUE)

(* Mutant: the column without its unique index.                            *)
InsertNotUnique(r) ==
  /\ op[r].pc = "insert"
  /\ lastId < MaxUsers
  /\ lastId' = lastId + 1
  /\ WriteRow(r, lastId', op[r].email)
  /\ tokens' = IF op[r].route = "register"
               THEN tokens \cup {[id |-> lastId', email |-> op[r].email]} ELSE tokens
  /\ UNCHANGED <<refreshed, moved>>

(* save of a body without id: an INSERT.  register answers with tokens.    *)
Insert(r) ==
  /\ op[r].pc = "insert"
  /\ lastId < MaxUsers
  /\ ~Taken(op[r].email)
  /\ lastId' = lastId + 1
  /\ WriteRow(r, lastId', op[r].email)
  /\ tokens' = IF op[r].route = "register"
               THEN tokens \cup {[id |-> lastId', email |-> op[r].email]} ELSE tokens
  /\ UNCHANGED <<refreshed, moved>>

(* The unique index refuses the row: 500.                                  *)
InsertFails(r) ==
  /\ op[r].pc = "insert"
  /\ Taken(op[r].email)
  /\ Answer(r)
  /\ UNCHANGED <<users, lastId, tokens, refreshed, moved>>

-----------------------------------------------------------------------------
(* Login and refresh. *)

(* The row is read with its password, which bcrypt then compares.          *)
Login(r, i) ==
  /\ users[i] # Gone
  /\ Start(r, "sign", "login", i, users[i], FALSE, FALSE)

Sign(r) ==
  /\ op[r].pc = "sign"
  /\ tokens' = tokens \cup {[id |-> op[r].id, email |-> op[r].email]}
  /\ Answer(r)
  /\ UNCHANGED <<users, lastId, refreshed, moved>>

WrongPassword(r) ==
  /\ op[r].pc = "sign"
  /\ Answer(r)
  /\ UNCHANGED <<users, lastId, tokens, refreshed, moved>>

(* The access token is signed for the user that has the e-mail now.        *)
Refresh(t, i) ==
  /\ users[i] = t.email
  /\ refreshed' = refreshed \cup {[from |-> t.id, to |-> i]}
  /\ UNCHANGED <<users, lastId, op, tokens, moved>>

-----------------------------------------------------------------------------
(* Update and remove. *)

(* PartialType copies the validators of a field and only makes it optional *)
(* (a comment in update-user.dto.ts has it otherwise): an e-mail that is   *)
(* taken, be it by the same user, is answered 400.                         *)
Update(r, i, e, secret) ==
  /\ e # Keep => ~Taken(e)
  /\ Start(r, "find", "update", i, e, e # Keep, secret)

(* Mutant: an e-mail that the body leaves out is assigned too.             *)
FindAssignsAll(r) ==
  /\ op[r].pc = "find"
  /\ users[op[r].id] # Gone
  /\ op' = [op EXCEPT ![r].pc = "select", ![r].raced = FALSE]
  /\ UNCHANGED <<users, lastId, tokens, refreshed, moved>>

(* findOne, and the assignment of the body to the loaded entity; a new     *)
(* password is hashed in between.                                          *)
Find(r) ==
  /\ op[r].pc = "find"
  /\ users[op[r].id] # Gone
  /\ op' = [op EXCEPT ![r].pc = "select", ![r].raced = FALSE,
                      ![r].email = IF op[r].given THEN @ ELSE users[op[r].id]]
  /\ UNCHANGED <<users, lastId, tokens, refreshed, moved>>

FindFails(r) ==
  /\ op[r].pc = "find"
  /\ users[op[r].id] = Gone
  /\ Answer(r)
  /\ UNCHANGED <<users, lastId, tokens, refreshed, moved>>

(* save(entity), first half: the current row is read by its id.            *)
SaveSelect(r) ==
  /\ op[r].pc = "select"
  /\ op' = [op EXCEPT ![r].pc = "write", ![r].found = users[op[r].id]]
  /\ UNCHANGED <<users, lastId, tokens, refreshed, moved>>

EmailChanges(r) == op[r].email # op[r].found

(* Second half: an UPDATE of the columns that differ.                      *)
SaveUpdate(r) ==
  /\ op[r].pc = "write"
  /\ op[r].found # Gone
  /\ EmailChanges(r)
  /\ users[op[r].id] # Gone
  /\ ~Conflict(op[r].id, op[r].email)
  /\ WriteRow(r, op[r].id, op[r].email)
  /\ moved' = moved \cup {op[r].id}
  /\ UNCHANGED <<lastId, tokens, refreshed>>

(* The e-mail is the same, or the UPDATE matches no row any more.          *)
SaveNothing(r) ==
  /\ op[r].pc = "write"
  /\ op[r].found # Gone
  /\ ~EmailChanges(r) \/ users[op[r].id] = Gone
  /\ Answer(r)
  /\ UNCHANGED <<users, lastId, tokens, refreshed, moved>>

(* No row was found: an INSERT under the old id, complete only when the    *)
(* body has a password, which the loaded entity lacks.                     *)
SaveInsert(r) ==
  /\ op[r].pc = "write"
  /\ op[r].found = Gone
  /\ op[r].secret
  /\ users[op[r].id] = Gone
  /\ ~Taken(op[r].email)
  /\ WriteRow(r, op[r].id, op[r].email)
  /\ UNCHANGED <<lastId, tokens, refreshed, moved>>

(* The unique index refuses the e-mail: 500.                               *)
SaveConflict(r) ==
  /\ op[r].pc = "write"
  /\ op[r].found # Gone => EmailChanges(r) /\ users[op[r].id] # Gone
  /\ Conflict(op[r].id, op[r].email)
  /\ Answer(r)
  /\ UNCHANGED <<users, lastId, tokens, refreshed, moved>>

(* The insert is refused for its id or for want of a password: 500.        *)
SaveInsertFails(r) ==
  /\ op[r].pc = "write"
  /\ op[r].found = Gone
  /\ ~op[r].secret \/ users[op[r].id] # Gone
  /\ Answer(r)
  /\ UNCHANGED <<users, lastId, tokens, refreshed, moved>>

Remove(r, i) ==
  /\ users[i] # Gone
  /\ Start(r, "delete", "remove", i, Keep, FALSE, FALSE)

(* The account may have posts, which Posts models: here it has none.       *)
Delete(r) ==
  /\ op[r].pc = "delete"
  /\ WriteRow(r, op[r].id, Gone)
  /\ moved' = moved \cup {op[r].id}
  /\ UNCHANGED <<lastId, tokens, refreshed>>

-----------------------------------------------------------------------------
(* A request that is refused at once, and changes nothing: 400 of the      *)
(* validator or of a login, 404, 500 of a refresh that finds no user.      *)
Refused ==
  /\ \/ \E e \in Emails : Taken(e)
     \/ \E i \in UserIds : users[i] = Gone
     \/ \E t \in tokens : ~Taken(t.email)
  /\ UNCHANGED vars

Serve(r) ==
  \/ Insert(r)
  \/ InsertFails(r)
  \/ Sign(r)
  \/ WrongPassword(r)
  \/ Find(r)
  \/ FindFails(r)
  \/ SaveSelect(r)
  \/ SaveUpdate(r)
  \/ SaveNothing(r)
  \/ SaveInsert(r)
  \/ SaveConflict(r)
  \/ SaveInsertFails(r)
  \/ Delete(r)

Next ==
  \/ \E r \in Slots : Serve(r)
  \/ \E r \in Slots, e \in Emails : Register(r, e) \/ CreateUser(r, e)
  \/ \E r \in Slots, i \in UserIds : Login(r, i) \/ Remove(r, i)
  \/ \E r \in Slots, i \in UserIds, e \in Emails \cup {Keep}, secret \in BOOLEAN :
       Update(r, i, e, secret)
  \/ \E t \in tokens, i \in UserIds : Refresh(t, i)
  \/ Refused

Spec == Init /\ [][Next]_vars

-----------------------------------------------------------------------------
TypeOK ==
  /\ users \in [UserIds -> Emails \cup {Gone}]
  /\ lastId \in 0..MaxUsers
  /\ op \in [Slots -> Ops \cup {Idle}]
  /\ tokens \subseteq Payloads
  /\ refreshed \subseteq [from : UserIds, to : UserIds]
  /\ moved \subseteq UserIds

(* An access token from a refresh names the user that the refresh token    *)
(* names, for as long as this user keeps the e-mail, whatever is inserted, *)
(* updated or inserted again meanwhile (auth.service.ts:116-120).          *)
RefreshFollowsEmail ==
  \A p \in refreshed : p.from # p.to => p.from \in moved

(* A create or an update that passed the validator fails on the unique     *)
(* index only when another request took the e-mail after the check         *)
(* (is-exist-email.validator.ts:22-35).  An update passes it too, whatever *)
(* the comment at update-user.dto.ts:5 says (see Update).                  *)
ConflictOnlyAfterRace ==
  [][\A r \in Slots :
       /\ InsertFails(r) => op[r].route = "register" \/ op[r].taken
       /\ SaveConflict(r) => op[r].taken]_vars

(* A PATCH without an e-mail changes the e-mail of a row only back, when   *)
(* another request changed it since findOne (users.service.ts:59-66).      *)
PatchKeepsEmail ==
  [][\A r \in Slots : SaveUpdate(r) /\ ~op[r].given => op[r].raced]_vars

(* A refresh token is good for its own user only (auth.service.ts:112).    *)
(* It fails: after a change of e-mail the old one may be taken by another  *)
(* account, and refresh looks the user up by the e-mail of the token.      *)
RefreshKeepsIdentity ==
  \A p \in refreshed : p.from = p.to
=============================================================================
