--------------------------- MODULE TokenBlacklist ---------------------------
(***************************************************************************)
(* Sessions of the application: login, refresh, the access-token guard     *)
(* and logout, over the Redis blacklist (CACHE_DRIVER=redis).              *)
(*                                                                         *)
(*   src/src/modules/auth/auth.service.ts            AuthService           *)
(*   src/src/modules/auth/services/token-blacklist.service.ts              *)
(*   src/src/guards/access-token.guard.ts            AccessTokenGuard      *)
(*   src/src/modules/auth/strategies                 passport strategies   *)
(*                                                                         *)
(* The handlers are async: whatever stands between two awaits is one       *)
(* action, and the requests in flight interleave at every await.  Time is  *)
(* kept in milliseconds of a coarse clock (Second of them make a second)   *)
(* because the code mixes both: Date.now() is in milliseconds, the exp     *)
(* claim and the TTL of an entry are in whole seconds.                     *)
(***************************************************************************)
EXTENDS Integers, FiniteSets

CONSTANTS
  Users,         \* accounts that can log in
  Slots,         \* requests in flight at once
  Second,        \* clock ticks in a second
  AccessTTL,     \* app.jwt.accessExpiresIn, in seconds
  RefreshTTL,    \* app.jwt.refreshExpiresIn, in seconds
  Schemes,       \* spellings of the Authorization scheme that requests use
  StoreMayFail,  \* TRUE: a call to Redis may raise an error
  MaxNow,        \* bound of the clock
  LastSign,      \* bound: no token is signed after this second
  NoToken        \* no token, or a header that holds none

ASSUME ClockAssumption ==
  /\ Second \in Nat \ {0}
  /\ AccessTTL \in Nat \ {0}
  /\ RefreshTTL \in Nat \ {0}
  /\ MaxNow \in Nat
  /\ LastSign \in Nat

ASSUME ValueAssumption ==
  /\ Users # {}
  /\ StoreMayFail \in BOOLEAN
  /\ "Bearer" \in Schemes
  /\ Schemes \subseteq {"Bearer", "bearer"}

(* A signed JWT is a function of its secret (the kind), its payload and    *)
(* the second it is signed in: two logins of one user within one second    *)
(* hand out the same string.                                               *)
Seconds == 0..MaxNow
Tokens  == [kind : {"access", "refresh"}, user : Users, iat : Seconds]

ASSUME TokenAssumption == NoToken \notin Tokens

MaybeToken == Tokens \cup {NoToken}

Lifetime(t) == IF t.kind = "access" THEN AccessTTL ELSE RefreshTTL
Exp(t)      == t.iat + Lifetime(t)

VARIABLES
  now,      \* Date.now()
  redis,    \* blacklist:<token> -> tick its entry expires at, 0 without entry
  issued,   \* tokens that clients hold
  req,      \* the request that each slot is serving
  revoked   \* history: tokens that an answered logout has taken down

vars == <<now, redis, issued, req, revoked>>

NowSeconds == now \div Second
Expired(t) == NowSeconds >= Exp(t)

Blacklisted(t) == redis[t] # 0

(***************************************************************************)
(* A request in flight.                                                    *)
(*   jwt      the token that passport verified                             *)
(*   tok      what extractTokenFromHeader made of the same header          *)
(*   rtok     the token in x-refresh-token, on a logout                    *)
(*   pending  the blacklist writes of a logout that Redis has not answered *)
(*   lost     tokens whose write Redis refused                             *)
(*   late     jwt was taken down before this request arrived (history)     *)
(*   blind    the lookup of the guard failed (history)                     *)
(* A request that is answered leaves its slot Idle; the status it gets is  *)
(* named where it is answered.                                             *)
(***************************************************************************)
Writes == [header : {"authorization", "x-refresh-token"}, tok : Tokens, ttl : Nat \ {0}]

Phases   == {"idle", "lookup", "handler", "writing", "sign"}
Routes   == {"none", "get-user", "logout", "login", "refresh"}

Requests ==
  [pc : Phases, route : Routes, user : Users, jwt : MaybeToken,
   tok : MaybeToken, rtok : MaybeToken, pending : SUBSET Writes,
   lost : SUBSET Tokens, late : BOOLEAN, blind : BOOLEAN]

Idle ==
  [pc |-> "idle", route |-> "none", user |-> CHOOSE u \in Users : TRUE,
   jwt |-> NoToken, tok |-> NoToken, rtok |-> NoToken,
   pending |-> {}, lost |-> {}, late |-> FALSE, blind |-> FALSE]

Answer(r) == req' = [req EXCEPT ![r] = Idle]

Init ==
  /\ now = 0
  /\ redis = [t \in Tokens |-> 0]
  /\ issued = {}
  /\ req = [r \in Slots |-> Idle]
  /\ revoked = {}

-----------------------------------------------------------------------------
(* The access-token guard. *)

ExtractTokenFromHeader(scheme, t) == IF scheme = "Bearer" THEN t ELSE NoToken

(* Arrival at a protected route: passport verifies signature and exp (a    *)
(* token that fails is answered 401 here and then, and nothing changes).   *)
(* The comparison of the scheme is case-insensitive there, exact in        *)
(* extractTokenFromHeader, whose undefined result skips the lookup.  The   *)
(* x-refresh-token of a logout is never verified: it may be any token,     *)
(* also an access token, and one that cannot be decoded is like none.      *)
CanActivate(r, route, t, scheme, rtok) ==
  LET token == ExtractTokenFromHeader(scheme, t)
  IN  /\ req[r].pc = "idle"
      /\ route \in {"get-user", "logout"}
      /\ rtok # NoToken => route = "logout"
      /\ t.kind = "access"
      /\ ~Expired(t)
      /\ req' = [req EXCEPT ![r] =
                   [Idle EXCEPT !.pc = IF token = NoToken THEN "handler" ELSE "lookup",
                                 !.route = route, !.jwt = t, !.tok = token,
                                 !.rtok = rtok, !.late = t \in revoked]]
      /\ UNCHANGED <<now, redis, issued, revoked>>

(* Redis answers the lookup of the guard: a found entry refuses the        *)
(* request, and false from a guard is answered 403.                        *)
IsTokenBlacklisted(r) ==
  /\ req[r].pc = "lookup"
  /\ IF Blacklisted(req[r].tok)
     THEN Answer(r)
     ELSE req' = [req EXCEPT ![r].pc = "handler"]
  /\ UNCHANGED <<now, redis, issued, revoked>>

(* Redis raises instead: the catch block answers "not blacklisted".        *)
LookupFails(r) ==
  /\ StoreMayFail
  /\ req[r].pc = "lookup"
  /\ req' = [req EXCEPT ![r].pc = "handler", ![r].blind = TRUE]
  /\ UNCHANGED <<now, redis, issued, revoked>>

(* A protected handler that does not touch the blacklist.                  *)
GetUser(r) ==
  /\ req[r].pc = "handler"
  /\ req[r].route = "get-user"
  /\ Answer(r)
  /\ UNCHANGED <<now, redis, issued, revoked>>

-----------------------------------------------------------------------------
(* Logout. *)

(* Mutant: Math.ceil for Math.floor.                                       *)
TtlRoundedUp(t) == Exp(t) - ((now + Second - 1) \div Second)

(* The time to live of an entry, cut to whole seconds.                     *)
Ttl(t) == Exp(t) - NowSeconds

(* Mutant: ttl >= 0 for ttl > 0, and the cache falls back to its default.  *)
BlacklistTokenTtlZero(header, t) ==
  IF t # NoToken /\ Ttl(t) >= 0
  THEN {[header |-> header, tok |-> t, ttl |-> Ttl(t)]}
  ELSE {}

(* blacklistToken up to its await: an absent or undecodable token returns  *)
(* early, an expired one is not written.                                   *)
BlacklistToken(header, t) ==
  IF t # NoToken /\ Ttl(t) > 0
  THEN {[header |-> header, tok |-> t, ttl |-> Ttl(t)]}
  ELSE {}

(* The two calls of a logout, which may be about the same token.           *)
BlacklistWrites(tok, rtok) ==
  BlacklistToken("authorization", tok) \cup BlacklistToken("x-refresh-token", rtok)

Logout(r) ==
  /\ req[r].pc = "handler"
  /\ req[r].route = "logout"
  /\ req' = [req EXCEPT ![r].pc = "writing",
                        ![r].pending = BlacklistWrites(req[r].tok, req[r].rtok)]
  /\ UNCHANGED <<now, redis, issued, revoked>>

(* Mutant: the time to live taken for milliseconds.                        *)
SetEntryMs(r, w) ==
  /\ req[r].pc = "writing"
  /\ w \in req[r].pending
  /\ redis' = [redis EXCEPT ![w.tok] = now + w.ttl]
  /\ req' = [req EXCEPT ![r].pending = @ \ {w}]
  /\ UNCHANGED <<now, issued, revoked>>

(* SETEX: Redis counts the time to live from the moment it runs it.        *)
SetEntry(r, w) ==
  /\ req[r].pc = "writing"
  /\ w \in req[r].pending
  /\ redis' = [redis EXCEPT ![w.tok] = now + w.ttl * Second]
  /\ req' = [req EXCEPT ![r].pending = @ \ {w}]
  /\ UNCHANGED <<now, issued, revoked>>

(* The write raises: blacklistToken swallows the error.                    *)
SetFails(r, w) ==
  /\ StoreMayFail
  /\ req[r].pc = "writing"
  /\ w \in req[r].pending
  /\ req' = [req EXCEPT ![r].pending = @ \ {w}, ![r].lost = @ \cup {w.tok}]
  /\ UNCHANGED <<now, redis, issued, revoked>>

(* Mutant: the answer does not wait for the writes.                        *)
LogoutNotAwaited(r) ==
  /\ req[r].pc = "writing"
  /\ revoked' = revoked \cup ({req[r].tok, req[r].rtok} \ ({NoToken} \cup req[r].lost))
  /\ Answer(r)
  /\ UNCHANGED <<now, redis, issued>>

(* Mutant: waits for the second write even when none was started.          *)
LogoutWaitsForBoth(r) ==
  /\ req[r].pc = "writing"
  /\ req[r].pending = {}
  /\ req[r].rtok # NoToken
  /\ revoked' = revoked \cup ({req[r].tok, req[r].rtok} \ ({NoToken} \cup req[r].lost))
  /\ Answer(r)
  /\ UNCHANGED <<now, redis, issued>>

(* Promise.all of the two calls has resolved: logout returns true.         *)
LogoutDone(r) ==
  /\ req[r].pc = "writing"
  /\ req[r].pending = {}
  /\ revoked' = revoked \cup ({req[r].tok, req[r].rtok} \ ({NoToken} \cup req[r].lost))
  /\ Answer(r)
  /\ UNCHANGED <<now, redis, issued>>

-----------------------------------------------------------------------------
(* Login and refresh. *)

BeginLogin(r, u) ==
  /\ req[r].pc = "idle"
  /\ req' = [req EXCEPT ![r] = [Idle EXCEPT !.pc = "sign", !.route = "login", !.user = u]]
  /\ UNCHANGED <<now, redis, issued, revoked>>

(* RefreshTokenGuard (401 for a token of the wrong kind, an expired one or *)
(* a scheme not spelled "Bearer"), then AuthService.refresh up to the user *)
(* lookup.  The blacklist is not consulted.                                *)
BeginRefresh(r, t) ==
  /\ req[r].pc = "idle"
  /\ t.kind = "refresh"
  /\ ~Expired(t)
  /\ req' = [req EXCEPT ![r] =
               [Idle EXCEPT !.pc = "sign", !.route = "refresh", !.user = t.user,
                             !.jwt = t, !.late = t \in revoked]]
  /\ UNCHANGED <<now, redis, issued, revoked>>

Signed(kind, u) == [kind |-> kind, user |-> u, iat |-> NowSeconds]

(* getTokens: both tokens are signed, a login answers both of them, a      *)
(* refresh only the access token.                                          *)
GetTokens(r) ==
  LET u      == req[r].user
      access == Signed("access", u)
      both   == {access, Signed("refresh", u)}
  IN  /\ req[r].pc = "sign"
      /\ NowSeconds <= LastSign
      /\ issued' = issued \cup (IF req[r].route = "login" THEN both ELSE {access})
      /\ Answer(r)
      /\ UNCHANGED <<now, redis, revoked>>

(* Login: no such email or a wrong password, 400.  Refresh: the row is     *)
(* gone and getTokens(null) raises a TypeError, 500.                       *)
NoSuchUser(r) ==
  /\ req[r].pc = "sign"
  /\ Answer(r)
  /\ UNCHANGED <<now, redis, issued, revoked>>

-----------------------------------------------------------------------------
(* Time passes; Redis drops the entries whose time to live has run out.    *)
Tick ==
  /\ now < MaxNow
  /\ now' = now + 1
  /\ redis' = [t \in Tokens |-> IF redis[t] <= now' THEN 0 ELSE redis[t]]
  /\ UNCHANGED <<issued, req, revoked>>

(* The process dies and is restarted: the requests in flight are lost,     *)
(* what Redis holds is kept.                                               *)
Crash ==
  /\ req' = [r \in Slots |-> Idle]
  /\ UNCHANGED <<now, redis, issued, revoked>>

Arrive(r) ==
  \/ \E u \in Users : BeginLogin(r, u)
  \/ \E t \in issued : BeginRefresh(r, t)
  \/ \E route \in {"get-user", "logout"}, t \in issued, scheme \in Schemes,
        rtok \in issued \cup {NoToken} : CanActivate(r, route, t, scheme, rtok)

Serve(r) ==
  \/ IsTokenBlacklisted(r)
  \/ LookupFails(r)
  \/ GetUser(r)
  \/ Logout(r)
  \/ \E w \in req[r].pending : SetEntry(r, w) \/ SetFails(r, w)
  \/ LogoutDone(r)
  \/ GetTokens(r)
  \/ NoSuchUser(r)

Next ==
  \/ Tick
  \/ Crash
  \/ \E r \in Slots : Arrive(r) \/ Serve(r)

Spec == Init /\ [][Next]_vars

(* The event loop runs every continuation, and the store answers or the    *)
(* client library raises.                                                  *)
FairSpec == Spec /\ \A r \in Slots : WF_vars(Serve(r))

-----------------------------------------------------------------------------
TypeOK ==
  /\ now \in 0..MaxNow
  /\ redis \in [Tokens -> Nat]
  /\ issued \subseteq Tokens
  /\ req \in [Slots -> Requests]
  /\ revoked \subseteq Tokens

(* A token that an answered logout took down has its blacklist entry for   *)
(* as long as it could still be verified: the entry, whose time to live is *)
(* cut to whole seconds, never runs out before the token does              *)
(* (token-blacklist.service.ts:37-44).                                     *)
EntryOutlivesToken ==
  \A t \in revoked : Blacklisted(t) \/ Expired(t)

(* A request that arrived with a token already taken down by a logout gets *)
(* past the guard only when the lookup raised (fail open), when the guard  *)
(* found no token to look up, or when the token ran out between the        *)
(* verification and the lookup (access-token.guard.ts:33-49).              *)
LateRequestStopped ==
  \A r \in Slots :
    /\ req[r].pc \in {"handler", "writing"}
    /\ req[r].late
    => req[r].blind \/ req[r].tok = NoToken \/ Expired(req[r].jwt)

(* A login or a refresh never answers an access token that the guard will  *)
(* refuse (auth.controller.ts:47, :135).  It fails: signed again within    *)
(* the second of a logout, the token is the one that was taken down.       *)
GivenTokenUsable ==
  [][\A r \in Slots :
       GetTokens(r) => ~Blacklisted(Signed("access", req[r].user))]_vars

(* A refresh token that a logout took down opens no session any more       *)
(* (auth.controller.ts:89, auth.service.ts:91).  It fails: the refresh     *)
(* route never asks the blacklist.                                         *)
RevokedRefreshRefused ==
  \A r \in Slots : req[r].pc = "sign" => ~req[r].late

(* Every request is answered or lost in a crash, whether the store answers *)
(* or raises and whatever the other requests do: a lookup that raises lets *)
(* the request on, a write that raises does not hold the logout up         *)
(* (token-blacklist.service.ts:47-50, :64-68).                             *)
EveryRequestAnswered ==
  \A r \in Slots : req[r].pc # "idle" ~> req[r].pc = "idle"

(* What a client can tell of a token.                                      *)
Phase(t) ==
  CASE t \notin issued -> "unissued"
    [] t \in issued /\ Expired(t) -> "dead"
    [] t \in issued /\ ~Expired(t) /\ Blacklisted(t) -> "revoked"
    [] OTHER -> "live"

(* Whatever fails, a token has one life: no entry that Redis drops, no     *)
(* write that comes late and no second logout brings one that was taken    *)
(* down back to life, and none is down before it is handed out             *)
(* (token-blacklist.service.ts:37-44, :58-66).                             *)
OneLife ==
  [][\A t \in Tokens : Phase(t)' # Phase(t) =>
       <<Phase(t), Phase(t)'>> \in
         {<<"unissued", "live">>, <<"live", "revoked">>, <<"live", "dead">>, <<"revoked", "dead">>}]_vars

(* The token that a request on a protected route was let in with, after a  *)
(* lookup that Redis answered: the guard lets a request in unseen when the *)
(* lookup raises, and when it finds no token to look up.                   *)
LetIn(r) ==
  IF req[r].pc = "handler" /\ ~req[r].blind THEN req[r].tok ELSE NoToken

Promise == INSTANCE SessionPromise WITH
  Nobody   <- NoToken,
  phase    <- [t \in Tokens |-> Phase(t)],
  admitted <- [r \in Slots |-> LetIn(r)]

(* Whatever fails and however requests interleave, the guard, the logout   *)
(* and the entries that Redis drops by itself keep the promise of          *)
(* SessionPromise: issued, down and dead are for good, and no request is   *)
(* let in after a lookup with a token that is down                         *)
(* (access-token.guard.ts:33-49, auth.service.ts:96-104).                  *)
KeepsPromise == Promise!PSpec
=============================================================================
