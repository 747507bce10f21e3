--------------------------- MODULE MemoryBlacklist ---------------------------
(***************************************************************************)
(* The blacklist of one process with CACHE_DRIVER=memory, the default: a   *)
(* store of bounded size inside the process, which the readiness probe     *)
(* writes too.                                                             *)
(*                                                                         *)
(*   src/src/modules/redis/redis.module.ts, redis.service.ts               *)
(*   src/src/modules/auth/services/token-blacklist.service.ts              *)
(*   src/src/modules/health/indicators/redis.health-indicator.ts           *)
(*                                                                         *)
(* RedisService hands the time to live over as an object, { ttl }, and the *)
(* memory store, which expects a number, never finds an entry run out.     *)
(* What it cannot keep it drops by last use, and a restart loses all.      *)
(* Other processes have stores of their own and share nothing with this.   *)
(***************************************************************************)
EXTENDS Naturals, FiniteSets

CONSTANTS
  Access,      \* access tokens that clients may hold
  Refresh,     \* refresh tokens that clients may hold
  TestKey,     \* __health_check__
  NoToken,     \* no token, or a header that holds none
  Schemes,     \* spellings of the Authorization scheme that requests use
  Slots,       \* requests in flight at once
  MaxEntries   \* entries that the memory store keeps

Tokens == Access \cup Refresh
Keys   == Tokens \cup {TestKey}

ASSUME StoreAssumption ==
  /\ IsFiniteSet(Keys)
  /\ MaxEntries \in Nat \ {0}
  /\ TestKey \notin Tokens
  /\ NoToken \notin Keys
  /\ Schemes \subseteq {"Bearer", "bearer"}

VARIABLES
  store,  \* held: keys with an entry; since: key -> keys used after it
  down,   \* history: tokens that logouts have taken down since the start
  dead,   \* tokens that have run out
  req     \* the request of each slot

vars == <<store, down, dead, req>>

Stores == [held : SUBSET Keys, since : [Keys -> SUBSET Keys]]

(* The process has just started.                                           *)
Empty == [held |-> {}, since |-> [k \in Keys |-> {}]]

Requests ==
  [pc : {"idle", "lookup", "handler", "get", "del"},
   route : {"none", "get-user", "logout", "readiness"},
   tok : Access \cup {NoToken}, rtok : Tokens \cup {NoToken}]

Idle == [pc |-> "idle", route |-> "none", tok |-> NoToken, rtok |-> NoToken]

Init ==
  /\ store = Empty
  /\ down = {}
  /\ dead = {}
  /\ req = [r \in Slots |-> Idle]

-----------------------------------------------------------------------------
(* The memory store. *)

Use(since, k) == [j \in Keys |-> IF j = k THEN {} ELSE since[j] \cup {k}]

(* What a write drops: of a full store, the entry not used for longest.    *)
Victims(s, k) ==
  IF k \in s.held \/ Cardinality(s.held) < MaxEntries THEN {}
  ELSE {v \in s.held : s.held \ {v} \subseteq s.since[v]}

Set(s, k) ==
  [held |-> (s.held \ Victims(s, k)) \cup {k}, since |-> Use(s.since, k)]

(* A read that finds the entry is a use of it.                             *)
Get(s, k) == IF k \in s.held THEN [s EXCEPT !.since = Use(@, k)] ELSE s

Del(s, k) == [s EXCEPT !.held = @ \ {k}]

-----------------------------------------------------------------------------
(* The guard and logout. *)

Answer(r) == req' = [req EXCEPT ![r] = Idle]

ExtractTokenFromHeader(scheme, t) == IF scheme = "Bearer" THEN t ELSE NoToken

(* Passport has verified the access token, whatever the spelling of its    *)
(* scheme; the lookup comes next, if extractTokenFromHeader finds one to   *)
(* look up.  Any token may be sent along in x-refresh-token.               *)
CanActivate(r, route, t, scheme, rt) ==
  LET token == ExtractTokenFromHeader(scheme, t)
  IN  /\ req[r].pc = "idle"
      /\ t \notin dead
      /\ rt # NoToken => route = "logout"
      /\ req' = [req EXCEPT ![r] =
           [pc |-> IF token = NoToken THEN "handler" ELSE "lookup",
            route |-> route, tok |-> token, rtok |-> rt]]
      /\ UNCHANGED <<store, down, dead>>

LetIn(r) ==
  /\ req[r].pc = "lookup"
  /\ req[r].tok \notin store.held
  /\ req' = [req EXCEPT ![r].pc = "handler"]
  /\ UNCHANGED <<store, down, dead>>

(* 403.                                                                    *)
Refuse(r) ==
  /\ req[r].pc = "lookup"
  /\ req[r].tok \in store.held
  /\ store' = Get(store, req[r].tok)
  /\ Answer(r)
  /\ UNCHANGED <<down, dead>>

GetUser(r) ==
  /\ req[r].pc = "handler"
  /\ req[r].route = "get-user"
  /\ Answer(r)
  /\ UNCHANGED <<store, down, dead>>

(* Mutant: called for a token that is not there.                           *)
BlacklistTokenUnchecked(s, t) == IF t \in dead THEN s ELSE Set(s, t)

(* An absent token, or one that has run out, is not written.               *)
BlacklistToken(s, t) == IF t \in Tokens \ dead THEN Set(s, t) ELSE s

(* Mutant: the second call takes the place of the first.                   *)
BlacklistLast(s, t, rt) == BlacklistToken(s, IF rt \in Tokens THEN rt ELSE t)

(* The token of the header, then the one of x-refresh-token.               *)
Blacklist(s, t, rt) == BlacklistToken(BlacklistToken(s, t), rt)

(* The memory store works before it returns: both writes are one step.     *)
Logout(r) ==
  /\ req[r].pc = "handler"
  /\ req[r].route = "logout"
  /\ store' = Blacklist(store, req[r].tok, req[r].rtok)
  /\ down' = down \cup ({req[r].tok, req[r].rtok} \ (dead \cup {NoToken}))
  /\ Answer(r)
  /\ UNCHANGED dead

-----------------------------------------------------------------------------
(* The readiness probe: set, get and del of its key, an await after each. *)

ProbeSet(r) ==
  /\ req[r].pc = "idle"
  /\ store' = Set(store, TestKey)
  /\ req' = [req EXCEPT ![r] = [Idle EXCEPT !.pc = "get", !.route = "readiness"]]
  /\ UNCHANGED <<down, dead>>

ProbeGet(r) ==
  /\ req[r].pc = "get"
  /\ store' = Get(store, TestKey)
  /\ req' = [req EXCEPT ![r].pc = "del"]
  /\ UNCHANGED <<down, dead>>

ProbeDel(r) ==
  /\ req[r].pc = "del"
  /\ store' = Del(store, TestKey)
  /\ Answer(r)
  /\ UNCHANGED <<down, dead>>

-----------------------------------------------------------------------------
RunOut(t) ==
  /\ dead' = dead \cup {t}
  /\ UNCHANGED <<store, down, req>>

(* The process dies and is started again.                                  *)
Restart ==
  /\ store' = Empty
  /\ down' = {}
  /\ req' = [r \in Slots |-> Idle]
  /\ UNCHANGED dead

Serve(r) ==
  \/ LetIn(r)
  \/ Refuse(r)
  \/ GetUser(r)
  \/ Logout(r)
  \/ ProbeGet(r)
  \/ ProbeDel(r)

Next ==
  \/ \E t \in Tokens : RunOut(t)
  \/ Restart
  \/ \E r \in Slots :
       \/ \E route \in {"get-user", "logout"}, t \in Access, scheme \in Schemes,
             rt \in Tokens \cup {NoToken} : CanActivate(r, route, t, scheme, rt)
       \/ ProbeSet(r)
       \/ Serve(r)

Spec == Init /\ [][Next]_vars

-----------------------------------------------------------------------------
TypeOK ==
  /\ store \in Stores
  /\ down \subseteq Tokens
  /\ dead \subseteq Tokens
  /\ req \in [Slots -> Requests]

(* The store s still holds each key of D that is not crowded out.          *)
Keeps(s, D) == \A k \in D : Cardinality(s.since[k]) < MaxEntries => k \in s.held

(* A token that this process has taken down since it started is still on   *)
(* its blacklist, run out or not, unless as many other keys as the store   *)
(* has room for have been used since the token was                         *)
(* (redis.module.ts:27-29, redis.service.ts:26-27).                        *)
RevokedUntilCrowdedOut == Keeps(store, down)
=============================================================================
