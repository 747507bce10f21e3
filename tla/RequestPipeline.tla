--------------------------- MODULE RequestPipeline ---------------------------
(***************************************************************************)
(* What a request passes on its way to a handler and back: the limiter,    *)
(* the guards, the validation pipe, the handler, and the exception filter  *)
(* that answers when one of them throws.                                   *)
(*                                                                         *)
(*   src/src/main.ts                          pipe, filters, interceptor   *)
(*   src/src/app.module.ts                    the two global guards        *)
(*   src/src/filters                          one filter per exception     *)
(*   src/src/decorators/throttle.decorator.ts limits of the auth routes    *)
(*                                                                         *)
(* Five routes stand for the ways through: login and register (public,     *)
(* with a body and limits of their own), refresh (public, with a guard and *)
(* a limit of its own), update-post (protected, with a body) and readiness *)
(* (public).  Their limits are for a minute, that of register for an hour. *)
(***************************************************************************)
EXTENDS Naturals, Sequences, FiniteSets

CONSTANTS
  Clients,       \* addresses that the limiter tells apart
  Slots,         \* requests in flight at once
  LoginLimit,    \* THROTTLE_CONFIG.LOGIN.limit
  RegisterLimit, \* THROTTLE_CONFIG.REGISTER.limit
  RefreshLimit,  \* THROTTLE_CONFIG.REFRESH.limit
  DefaultLimit,  \* app.throttle.limit
  Minute, Hour   \* ttl of the limits, in ticks

ASSUME LimitAssumption ==
  /\ {LoginLimit, RegisterLimit, RefreshLimit, DefaultLimit, Minute, Hour} \subseteq Nat \ {0}
  /\ Clients # {}

Routes == {"login", "register", "refresh", "update-post", "readiness"}
Public == {"login", "register", "refresh", "readiness"}

VARIABLES
  hits,   \* <<client, route>> -> ticks that each counted request still counts
  block,  \* <<client, route>> -> ticks that the client stays blocked
  asked,  \* history: <<client, route>> -> ages of the requests of a window
  req     \* the request of each slot, or how its last one was answered

vars == <<hits, block, asked, req>>

Keys == Clients \X Routes

Exceptions ==
  {"Throttler", "Unauthorized", "Forbidden", "BadRequest", "NotFound",
   "EntityNotFound", "ServiceUnavailable", "Error"}

Statuses == {200, 201, 400, 401, 403, 404, 500}

(***************************************************************************)
(*   cause    the exception that was thrown, "none" while there is none    *)
(*   status   of the answer, 0 before it                                   *)
(***************************************************************************)
Requests ==
  [pc : {"idle", "limiter", "guards", "pipe", "handler"}, client : Clients,
   route : Routes, cause : Exceptions \cup {"none"}, status : Statuses \cup {0}]

Idle == [pc |-> "idle", client |-> CHOOSE c \in Clients : TRUE,
         route |-> "login", cause |-> "none", status |-> 0]

Key(r) == <<req[r].client, req[r].route>>

Init ==
  /\ hits = [k \in Keys |-> <<>>]
  /\ block = [k \in Keys |-> 0]
  /\ asked = [k \in Keys |-> <<>>]
  /\ req = [r \in Slots |-> Idle]

-----------------------------------------------------------------------------
(* The exception filters. *)

(* In the order of useGlobalFilters: what each catches, what it answers.   *)
GlobalFilters ==
  << [catches |-> Exceptions,                     status |-> 500],
     [catches |-> {"BadRequest"},                 status |-> 400],
     [catches |-> {"NotFound", "EntityNotFound"}, status |-> 404],
     [catches |-> {"Unauthorized"},               status |-> 401],
     [catches |-> {"Forbidden"},                  status |-> 403] >>

Catching(e) == {i \in 1..Len(GlobalFilters) : e \in GlobalFilters[i].catches}

(* Mutant: the filters are asked in the order in which they are given.     *)
StatusOfFirst(e) ==
  GlobalFilters[CHOOSE i \in Catching(e) : \A j \in Catching(e) : i <= j].status

(* Nest asks the filter that was registered last first.                    *)
StatusOf(e) ==
  GlobalFilters[CHOOSE i \in Catching(e) : \A j \in Catching(e) : i >= j].status

Throw(r, e) ==
  req' = [req EXCEPT ![r].pc = "idle", ![r].cause = e, ![r].status = StatusOf(e)]

Pass(r, pc) == req' = [req EXCEPT ![r].pc = pc]

-----------------------------------------------------------------------------
(* The limiter. *)

Arrive(r, c, route) ==
  /\ req[r].pc = "idle"
  /\ req' = [req EXCEPT ![r] =
       [Idle EXCEPT !.pc = "limiter", !.client = c, !.route = route]]
  /\ UNCHANGED <<hits, block, asked>>

LimitOf(route) ==
  CASE route = "login"    -> LoginLimit
    [] route = "register" -> RegisterLimit
    [] route = "refresh"  -> RefreshLimit
    [] OTHER              -> DefaultLimit

WindowOf(route) == IF route = "register" THEN Hour ELSE Minute

(* Within the last window the client has asked once too often.             *)
Pressed(k) == Len(asked[k]) > LimitOf(k[2])

(* One more request; from the one too many on a new window is counted, and *)
(* what the client asks for in it is not noted.                            *)
Ask(k) ==
  asked' = [asked EXCEPT ![k] =
    CASE Pressed(k)             -> @
      [] Len(@) = LimitOf(k[2]) -> [i \in 1..LimitOf(k[2]) + 1 |-> 0]
      [] OTHER                  -> Append(@, 0)]

ThrottlerPasses(r) ==
  LET k == Key(r)
  IN  /\ req[r].pc = "limiter"
      /\ block[k] = 0
      /\ Len(hits[k]) < LimitOf(req[r].route)
      /\ hits' = [hits EXCEPT ![k] = Append(@, WindowOf(req[r].route))]
      /\ Ask(k)
      /\ Pass(r, "guards")
      /\ UNCHANGED block

(* Mutant: every request of a blocked client starts the block anew.        *)
ThrottlerRefusesAnew(r) ==
  LET k == Key(r)
  IN  /\ req[r].pc = "limiter"
      /\ block[k] > 0 \/ Len(hits[k]) >= LimitOf(req[r].route)
      /\ block' = [block EXCEPT ![k] = WindowOf(req[r].route)]
      /\ Ask(k)
      /\ Throw(r, "Throttler")
      /\ UNCHANGED hits

(* Mutant: a block lasts for the window of the default throttler.          *)
ThrottlerRefusesMinute(r) ==
  LET k == Key(r)
  IN  /\ req[r].pc = "limiter"
      /\ block[k] > 0 \/ Len(hits[k]) >= LimitOf(req[r].route)
      /\ block' = [block EXCEPT ![k] = IF @ > 0 THEN @ ELSE Minute]
      /\ Ask(k)
      /\ Throw(r, "Throttler")
      /\ UNCHANGED hits

(* One request too many blocks the client for a window; while it is        *)
(* blocked its requests are not counted.                                   *)
ThrottlerRefuses(r) ==
  LET k == Key(r)
  IN  /\ req[r].pc = "limiter"
      /\ block[k] > 0 \/ Len(hits[k]) >= LimitOf(req[r].route)
      /\ block' = [block EXCEPT ![k] = IF @ > 0 THEN @ ELSE WindowOf(req[r].route)]
      /\ Ask(k)
      /\ Throw(r, "Throttler")
      /\ UNCHANGED hits

-----------------------------------------------------------------------------
(* The guards, the pipe and the handler. *)

(* AccessTokenGuard: passport throws, or a blacklisted token makes it      *)
(* answer false; then the guard of the route.                              *)
GuardErrors(route) ==
  CASE route = "refresh"   -> {"Unauthorized"}
    [] route \notin Public -> {"Unauthorized", "Forbidden"}
    [] OTHER               -> {}

(* The exception factory of the ValidationPipe, for a route with a body.   *)
PipeErrors(route) ==
  IF route \in {"login", "register", "update-post"} THEN {"BadRequest"} ELSE {}

(* What the handlers throw, a database that fails ("Error") included.      *)
HandlerErrors(route) ==
  CASE route = "login"       -> {"BadRequest", "Error"}
    [] route \in {"register", "refresh"} -> {"Error"}
    [] route = "update-post" -> {"NotFound", "Forbidden", "Error"}
    [] route = "readiness"   -> {"ServiceUnavailable"}

Guards(r) ==
  /\ req[r].pc = "guards"
  /\ \/ Pass(r, "pipe")
     \/ \E e \in GuardErrors(req[r].route) : Throw(r, e)
  /\ UNCHANGED <<hits, block, asked>>

Pipe(r) ==
  /\ req[r].pc = "pipe"
  /\ \/ Pass(r, "handler")
     \/ \E e \in PipeErrors(req[r].route) : Throw(r, e)
  /\ UNCHANGED <<hits, block, asked>>

(* Nest answers a POST with 201.                                           *)
Handler(r) ==
  /\ req[r].pc = "handler"
  /\ \/ req' = [req EXCEPT ![r].pc = "idle",
                          ![r].status = IF req[r].route \in {"login", "register"} THEN 201 ELSE 200]
     \/ \E e \in HandlerErrors(req[r].route) : Throw(r, e)
  /\ UNCHANGED <<hits, block, asked>>

-----------------------------------------------------------------------------
(* Requests of one client and route have windows of one length, so that    *)
(* those whose window ends, at these places of s, are the oldest of them.  *)
Without(s, ended) ==
  LET n == Cardinality(ended)
  IN  [i \in 1..(Len(s) - n) |-> s[i + n]]

(* Mutant: a request still counts in the tick after its window.            *)
AgedLate(s) ==
  Without([i \in 1..Len(s) |-> s[i] - 1], {i \in 1..Len(s) : s[i] < 1})

Aged(s) ==
  Without([i \in 1..Len(s) |-> s[i] - 1], {i \in 1..Len(s) : s[i] <= 1})

(* The requests of the last w ticks.                                       *)
Recent(s, w) ==
  Without([i \in 1..Len(s) |-> s[i] + 1], {i \in 1..Len(s) : s[i] + 1 >= w})

Tick ==
  /\ hits' = [k \in Keys |-> Aged(hits[k])]
  /\ block' = [k \in Keys |-> IF block[k] > 0 THEN block[k] - 1 ELSE 0]
  /\ asked' = [k \in Keys |-> Recent(asked[k], WindowOf(k[2]))]
  /\ UNCHANGED req

Serve(r) ==
  \/ ThrottlerPasses(r)
  \/ ThrottlerRefuses(r)
  \/ Guards(r)
  \/ Pipe(r)
  \/ Handler(r)

Next ==
  \/ Tick
  \/ \E r \in Slots, c \in Clients, route \in Routes : Arrive(r, c, route)
  \/ \E r \in Slots : Serve(r)

Spec == Init /\ [][Next]_vars

(* Time passes.                                                            *)
FairSpec == Spec /\ WF_vars(Tick)
-----------------------------------------------------------------------------
TypeOK ==
  /\ DOMAIN hits = Keys
  /\ DOMAIN block = Keys
  /\ DOMAIN asked = Keys
  /\ \A k \in Keys : /\ hits[k] \in Seq(1..WindowOf(k[2]))
                     /\ block[k] \in 0..WindowOf(k[2])
                     /\ asked[k] \in Seq(0..(WindowOf(k[2]) - 1))
  /\ req \in [Slots -> Requests]

(* The limiter refuses those, and only those, who within one window asked  *)
(* for more than the limit, or are in the window after that: judged by the *)
(* history of what was asked, which knows nothing of counts and blocks     *)
(* (app.module.ts:31-43, throttle.decorator.ts:7-28).                      *)
RefusesIffPressed ==
  [][\A r \in Slots : /\ ThrottlerRefuses(r) => Pressed(Key(r))'
                      /\ ThrottlerPasses(r) => ~Pressed(Key(r))']_vars

(* Whichever of guard, pipe and handler throws it, an exception that has a *)
(* filter of its own is answered with the status of its own, although the  *)
(* catch-all filter takes it too (main.ts:82-88).                          *)
OwnStatus ==
  \A r \in Slots :
    /\ req[r].cause = "BadRequest" => req[r].status = 400
    /\ req[r].cause = "Unauthorized" => req[r].status = 401
    /\ req[r].cause = "Forbidden" => req[r].status = 403
    /\ req[r].cause = "NotFound" => req[r].status = 404

(* A client that is blocked is let in again in the end, even if it keeps   *)
(* trying all the while (app.module.ts:31-43).                             *)
BlockEnds ==
  \A k \in Keys : block[k] > 0 ~> block[k] = 0

(* A request over the limit is answered 429 (auth.controller.ts:50-53,     *)
(* RATE_LIMITING.md:176).  It fails: no filter is for this exception, and  *)
(* the catch-all filter answers 500.                                       *)
TooManyRequestsIs429 ==
  \A r \in Slots : req[r].cause = "Throttler" => req[r].status = 429
=============================================================================
