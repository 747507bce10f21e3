------------------------- MODULE SessionPromiseProofs -------------------------
(***************************************************************************)
(* TokenBlacklist implements SessionPromise, for every number of users,    *)
(* requests, ticks and lifetimes, whatever fails: a request counts as let  *)
(* in when Redis has answered the lookup of its token.                     *)
(***************************************************************************)
EXTENDS TokenBlacklistProofs

(***************************************************************************)
(* What the refinement needs besides IndInv: whatever a request carries, a *)
(* write on its way or an entry in Redis is about, has been handed out,    *)
(* and the guard looks up the very token that passport verified.           *)
(***************************************************************************)
CarriesIssued(x) ==
  /\ {x.jwt, x.tok, x.rtok} \subseteq issued \cup {NoToken}
  /\ \A w \in x.pending : w.tok \in issued
  /\ x.pc = "lookup" => x.jwt \in issued /\ x.tok = x.jwt

OnlyIssued ==
  /\ \A r \in Slots : CarriesIssued(req[r])
  /\ \A t \in Tokens : Blacklisted(t) => t \in issued

(* What has been handed out stays handed out.                              *)
LEMMA IssuedGrows ==
  ASSUME [Next]_vars
  PROVE  issued \subseteq issued'
<1>1. ASSUME NEW r \in Slots, Arrive(r)
      PROVE  issued' = issued
  BY <1>1 DEF Arrive, CanActivate, BeginLogin, BeginRefresh
<1>2. ASSUME NEW r \in Slots, Serve(r)
      PROVE  issued \subseteq issued'
  BY <1>2 DEF Serve, IsTokenBlacklisted, LookupFails, GetUser, Logout, SetEntry, SetFails,
              LogoutDone, GetTokens, NoSuchUser
<1> QED BY <1>1, <1>2 DEF Next, Crash, Tick, vars

(* A slot without a request carries nothing.                               *)
LEMMA IdleCarriesNothing == CarriesIssued(Idle)
BY DEF CarriesIssued, Idle

(* A request arrives with tokens that were handed out.                     *)
LEMMA ArrivalCarriesIssued ==
  ASSUME TypeOK, NEW r \in Slots, Arrive(r)
  PROVE  CarriesIssued(req'[r])
<1> USE DEF TypeOK
<1>1. ASSUME NEW u \in Users, BeginLogin(r, u)
      PROVE  CarriesIssued(req'[r])
  BY <1>1 DEF BeginLogin, Idle, CarriesIssued
<1>2. ASSUME NEW t \in issued, BeginRefresh(r, t)
      PROVE  CarriesIssued(req'[r])
  BY <1>2 DEF BeginRefresh, Idle, CarriesIssued
<1>3. ASSUME NEW route, NEW t \in issued, NEW scheme, NEW rtok \in issued \cup {NoToken},
             CanActivate(r, route, t, scheme, rtok)
      PROVE  CarriesIssued(req'[r])
  <2>1. /\ req'[r].jwt = t
        /\ req'[r].tok = ExtractTokenFromHeader(scheme, t)
        /\ req'[r].rtok = rtok
        /\ req'[r].pending = {}
        /\ req'[r].pc = "lookup" => ExtractTokenFromHeader(scheme, t) # NoToken
    BY <1>3 DEF CanActivate, Idle
  <2>2. ExtractTokenFromHeader(scheme, t) \in {t, NoToken}
    BY DEF ExtractTokenFromHeader
  <2> QED BY <2>1, <2>2 DEF CarriesIssued
<1> QED BY <1>1, <1>2, <1>3 DEF Arrive

(* A request that is carried on carries what it carried; a logout writes   *)
(* its own two tokens.                                                     *)
LEMMA SlotCarriesIssued ==
  ASSUME TypeOK, OnlyIssued, [Next]_vars, NEW r \in Slots
  PROVE  CarriesIssued(req'[r])
<1> USE DEF TypeOK
<1>1. CASE req'[r] = req[r]
  BY <1>1 DEF OnlyIssued
<1>2. CASE Logout(r)
  <2>1. /\ req'[r].jwt = req[r].jwt /\ req'[r].tok = req[r].tok
        /\ req'[r].rtok = req[r].rtok /\ req'[r].pc = "writing"
        /\ req'[r].pending = BlacklistWrites(req[r].tok, req[r].rtok)
    BY <1>2 DEF Logout, Requests
  <2>2. \A w \in req'[r].pending : w.tok \in {req[r].tok, req[r].rtok} \ {NoToken}
    BY <2>1 DEF BlacklistWrites, BlacklistToken
  <2>3. {req[r].jwt, req[r].tok, req[r].rtok} \subseteq issued \cup {NoToken}
    BY DEF OnlyIssued, CarriesIssued
  <2>4. \A w \in req'[r].pending : w.tok \in issued
    BY <2>2, <2>3
  <2> QED BY <2>1, <2>3, <2>4 DEF CarriesIssued
<1>3. CASE (IsTokenBlacklisted(r) /\ ~Blacklisted(req[r].tok)) \/ LookupFails(r)
  <2>1. /\ req'[r].jwt = req[r].jwt /\ req'[r].tok = req[r].tok
        /\ req'[r].rtok = req[r].rtok /\ req'[r].pc = "handler"
        /\ req'[r].pending = req[r].pending
    BY <1>3 DEF IsTokenBlacklisted, LookupFails, Requests
  <2> QED BY <2>1 DEF OnlyIssued, CarriesIssued
<1>4. ASSUME NEW w \in req[r].pending, SetEntry(r, w) \/ SetFails(r, w)
      PROVE  CarriesIssued(req'[r])
  <2>1. /\ req'[r].jwt = req[r].jwt /\ req'[r].tok = req[r].tok
        /\ req'[r].rtok = req[r].rtok /\ req'[r].pc = "writing"
        /\ req'[r].pending \subseteq req[r].pending
    BY <1>4 DEF SetEntry, SetFails, Requests
  <2> QED BY <2>1 DEF OnlyIssued, CarriesIssued
<1> QED BY <1>1, <1>2, <1>3, <1>4, IdleCarriesNothing, ArrivalCarriesIssued, SlotFrame
        DEF CarriedOn

(* No step makes an entry for a token that was not handed out.             *)
LEMMA OnlyIssuedStays ==
  ASSUME TypeOK, OnlyIssued, [Next]_vars
  PROVE  OnlyIssued'
<1>1. \A r \in Slots : CarriesIssued(req[r])'
  BY SlotCarriesIssued, IssuedGrows DEF CarriesIssued
<1>2. ASSUME NEW t \in Tokens, redis'[t] # 0
      PROVE  t \in issued'
  <2>1. CASE Tick
    BY <1>2, <2>1, IssuedGrows DEF Tick, OnlyIssued, Blacklisted
  <2>2. ASSUME NEW r \in Slots, NEW w \in req[r].pending, SetEntry(r, w)
        PROVE  t \in issued'
    <3>1. w.tok \in issued
      BY DEF OnlyIssued, CarriesIssued
    <3>2. redis'[t] = redis[t] \/ t = w.tok
      BY <2>2 DEF SetEntry, TypeOK
    <3> QED BY <1>2, <3>1, <3>2, IssuedGrows DEF OnlyIssued, Blacklisted
  <2>3. CASE UNCHANGED <<now, redis>>
    BY <1>2, <2>3, IssuedGrows DEF OnlyIssued, Blacklisted
  <2> QED BY <2>1, <2>2, <2>3, ClockAndStoreFrame
<1> QED BY <1>1, <1>2 DEF OnlyIssued, Blacklisted

(* Nothing is carried or blacklisted that was not handed out.              *)
LEMMA OnlyIssuedHolds == Spec => []OnlyIssued
<1>1. Init => OnlyIssued
  BY IdleCarriesNothing DEF Init, OnlyIssued, Blacklisted
<1>2. TypeOK /\ OnlyIssued /\ [Next]_vars => OnlyIssued'
  BY OnlyIssuedStays
<1> QED BY <1>1, <1>2, TypeCorrect, PTL DEF Spec

-----------------------------------------------------------------------------
(* The four phases of a token.                                             *)
LEMMA PhaseCases ==
  ASSUME NEW t
  PROVE  /\ Phase(t) \in {"unissued", "live", "revoked", "dead"}
         /\ Phase(t) = "unissued" <=> t \notin issued
         /\ Phase(t) = "dead" <=> t \in issued /\ Expired(t)
         /\ Phase(t) = "revoked" <=> t \in issued /\ ~Expired(t) /\ Blacklisted(t)
         /\ Phase(t) = "live" <=> t \in issued /\ ~Expired(t) /\ ~Blacklisted(t)
BY DEF Phase

(* The same of the next state.                                             *)
LEMMA NextPhaseCases ==
  ASSUME NEW t
  PROVE  /\ Phase(t)' \in {"unissued", "live", "revoked", "dead"}
         /\ Phase(t)' = "unissued" <=> t \notin issued'
         /\ Phase(t)' = "dead" <=> t \in issued' /\ Expired(t)'
         /\ Phase(t)' = "revoked" <=> t \in issued' /\ ~Expired(t)' /\ Blacklisted(t)'
         /\ Phase(t)' = "live" <=> t \in issued' /\ ~Expired(t)' /\ ~Blacklisted(t)'
BY DEF Phase

(* What a step may do to the phase of a token: by what the client can see, *)
(* every token has the same life.                                          *)
Moves(from, to) ==
  \A t \in Tokens : Phase(t)' # Phase(t) => Phase(t) \in from /\ Phase(t)' = to

(* Time only makes tokens run out: when Redis drops an entry, the token is *)
(* no longer alive.                                                        *)
LEMMA TickMoves ==
  ASSUME IndInv, Tick
  PROVE  Moves({"live", "revoked"}, "dead")
<1> SUFFICES ASSUME NEW t \in Tokens, Phase(t)' # Phase(t)
             PROVE  Phase(t) \in {"live", "revoked"} /\ Phase(t)' = "dead"
  BY DEF Moves
<1>1. TypeOK /\ StoredLongEnough /\ PendingLongEnough /\ [Next]_vars
  BY DEF IndInv, Next
<1>2. issued' = issued
  BY DEF Tick
<1>3. Expired(t) => Expired(t)'
  BY <1>1, NowSecondsGrows, ExpIsNat DEF Expired, Exp, Lifetime
<1>4. Blacklisted(t) => Blacklisted(t)' \/ Expired(t)'
  BY <1>1, DownStays DEF Down
<1>5. ~Blacklisted(t) => ~Blacklisted(t)'
  BY DEF Tick, Blacklisted
<1> QED BY <1>2, <1>3, <1>4, <1>5, PhaseCases, NextPhaseCases

(* A write that Redis has answered takes a token down that was handed out, *)
(* unless it is down or dead already.                                      *)
LEMMA SetEntryMoves ==
  ASSUME IndInv, OnlyIssued, NEW r \in Slots, NEW w \in req[r].pending, SetEntry(r, w)
  PROVE  Moves({"live"}, "revoked")
<1> SUFFICES ASSUME NEW t \in Tokens, Phase(t)' # Phase(t)
             PROVE  Phase(t) = "live" /\ Phase(t)' = "revoked"
  BY DEF Moves
<1>1. issued' = issued /\ (Expired(t)' <=> Expired(t))
  BY DEF SetEntry, Expired, NowSeconds, Exp, Lifetime
<1>2. w.tok \in issued
  BY DEF OnlyIssued, CarriesIssued
<1>3. t # w.tok => (Blacklisted(t)' <=> Blacklisted(t))
  BY DEF SetEntry, Blacklisted, IndInv, TypeOK
<1>4. t = w.tok => Blacklisted(t)'
  BY WrittenLongEnough DEF SetEntry, Blacklisted, IndInv, TypeOK
<1> QED BY <1>1, <1>2, <1>3, <1>4, PhaseCases, NextPhaseCases

(* A token that is signed is alive: it lives for a second at least, and    *)
(* nobody could have taken it down before it was handed out.               *)
LEMMA GetTokensMoves ==
  ASSUME IndInv, OnlyIssued, NEW r \in Slots, GetTokens(r)
  PROVE  Moves({"unissued"}, "live")
<1> SUFFICES ASSUME NEW t \in Tokens, Phase(t)' # Phase(t)
             PROVE  Phase(t) = "unissued" /\ Phase(t)' = "live"
  BY DEF Moves
<1>1. /\ issued \subseteq issued'
      /\ (Expired(t)' <=> Expired(t)) /\ (Blacklisted(t)' <=> Blacklisted(t))
  BY DEF GetTokens, Expired, NowSeconds, Exp, Lifetime, Blacklisted
<1>2. t \notin issued => ~Blacklisted(t)
  BY DEF OnlyIssued
<1>3. t \in issued' \ issued => t.iat = NowSeconds
  BY DEF GetTokens, Signed
<1>4. NowSeconds \in Nat
  BY NowSecondsInRange DEF IndInv, TypeOK, Seconds
<1>5. t \in issued' \ issued => ~Expired(t)
  BY <1>3, <1>4, ClockAssumption DEF Expired, Exp, Lifetime
<1> QED BY <1>1, <1>2, <1>5, PhaseCases, NextPhaseCases

(* Nothing else changes what a client can tell of a token.                 *)
LEMMA OthersMoveNothing ==
  ASSUME UNCHANGED <<now, redis, issued>>, NEW t
  PROVE  Phase(t)' = Phase(t)
<1>1. /\ issued' = issued /\ (Expired(t)' <=> Expired(t))
      /\ (Blacklisted(t)' <=> Blacklisted(t))
  BY DEF Expired, NowSeconds, Exp, Lifetime, Blacklisted
<1> QED BY <1>1, PhaseCases, NextPhaseCases

(* No step but these makes an entry, drops one or hands out a token.       *)
LEMMA EveryMove ==
  ASSUME IndInv, OnlyIssued, [Next]_vars
  PROVE  \/ Moves({"unissued"}, "live")
         \/ Moves({"live"}, "revoked")
         \/ Moves({"live", "revoked"}, "dead")
         \/ \A t \in Tokens : Phase(t)' = Phase(t)
<1>1. CASE Tick
  BY <1>1, TickMoves
<1>2. ASSUME NEW r \in Slots, NEW w \in req[r].pending, SetEntry(r, w)
      PROVE  Moves({"live"}, "revoked")
  BY <1>2, SetEntryMoves
<1>3. ASSUME NEW r \in Slots, GetTokens(r)
      PROVE  Moves({"unissued"}, "live")
  BY <1>3, GetTokensMoves
<1>4. \/ Tick
      \/ \E r \in Slots : \E w \in req[r].pending : SetEntry(r, w)
      \/ \E r \in Slots : GetTokens(r)
      \/ UNCHANGED <<now, redis, issued>>
  <2>1. ASSUME NEW r \in Slots, Arrive(r)
        PROVE  UNCHANGED <<now, redis, issued>>
    BY <2>1 DEF Arrive, CanActivate, BeginLogin, BeginRefresh
  <2>2. ASSUME NEW r \in Slots, Serve(r)
        PROVE  \/ \E w \in req[r].pending : SetEntry(r, w)
               \/ GetTokens(r)
               \/ UNCHANGED <<now, redis, issued>>
    BY <2>2 DEF Serve, IsTokenBlacklisted, LookupFails, GetUser, Logout, SetFails,
                LogoutDone, NoSuchUser
  <2> QED BY <2>1, <2>2 DEF Next, Crash, vars
<1> QED BY <1>1, <1>2, <1>3, <1>4, OthersMoveNothing

(* Whether the store answers or fails and however the scheme is spelled, a *)
(* token that was taken down is down until it runs out, and none is taken  *)
(* down before it is handed out (token-blacklist.service.ts:37-44).        *)
THEOREM TokensLiveOnce == Spec => OneLife
<1>1. IndInv /\ OnlyIssued /\ [Next]_vars
        => [\A t \in Tokens : Phase(t)' # Phase(t) =>
              <<Phase(t), Phase(t)'>> \in
                {<<"unissued", "live">>, <<"live", "revoked">>, <<"live", "dead">>,
                 <<"revoked", "dead">>}]_vars
  BY EveryMove DEF Moves
<1> QED BY <1>1, IndInvHolds, OnlyIssuedHolds, PTL DEF Spec, OneLife

-----------------------------------------------------------------------------
(* The variables of SessionPromise in terms of those of TokenBlacklist.    *)
PhaseMap == [t \in Tokens |-> Phase(t)]
LetInMap == [r \in Slots |-> LetIn(r)]

(* A step in which every token moves as it may, and every slot holds the   *)
(* token that it held, is a step of the promise.                           *)
LEMMA MovesArePromised ==
  ASSUME LetInMap' = LetInMap,
         \/ Moves({"unissued"}, "live")
         \/ Moves({"live"}, "revoked")
         \/ Moves({"live", "revoked"}, "dead")
  PROVE  Promise!PNext
<1>1. PhaseMap' \in [Tokens -> {"unissued", "live", "revoked", "dead"}]
  BY NextPhaseCases DEF PhaseMap
<1>2. ASSUME NEW from, NEW to, Moves(from, to)
      PROVE  Promise!PhaseStep(from, to)
  <2>1. \A t \in Tokens : PhaseMap'[t] # PhaseMap[t] =>
          PhaseMap[t] \in from /\ PhaseMap'[t] = to
    BY <1>2 DEF Moves, PhaseMap
  <2> QED BY <1>1, <2>1 DEF Promise!PhaseStep, PhaseMap, LetInMap
<1> QED BY <1>2 DEF Promise!PNext, Promise!Issue, Promise!Revoke, Promise!RunOut

(* A step that ends requests, or none, and moves no token.                 *)
LEMMA EndsArePromised ==
  ASSUME UNCHANGED <<now, redis, issued>>,
         \A r \in Slots : LetIn(r) \in Tokens \cup {NoToken},
         \A r \in Slots : LetIn(r)' \in {LetIn(r), NoToken}
  PROVE  Promise!PNext
<1>1. PhaseMap' = PhaseMap
  BY OthersMoveNothing DEF PhaseMap
<1>2. LetInMap' \in [Slots -> Tokens \cup {NoToken}]
  BY DEF LetInMap
<1>3. \A r \in Slots : LetInMap'[r] \in {LetInMap[r], NoToken}
  BY DEF LetInMap
<1> QED BY <1>1, <1>2, <1>3 DEF Promise!PNext, Promise!Release, PhaseMap, LetInMap

(* A request that the guard lets in has a token that is not down.          *)
LEMMA AdmissionIsPromised ==
  ASSUME TypeOK, OnlyIssued, NEW r \in Slots, IsTokenBlacklisted(r),
         ~Blacklisted(req[r].tok), ~req[r].blind
  PROVE  Promise!PNext
<1> DEFINE t == req[r].jwt
<1>1. t \in issued /\ t = req[r].tok /\ t \in Tokens
  BY DEF IsTokenBlacklisted, OnlyIssued, CarriesIssued, TypeOK
<1>2. PhaseMap[t] \in {"live", "dead"}
  BY <1>1, PhaseCases DEF PhaseMap
<1>3. PhaseMap' = PhaseMap
  BY OthersMoveNothing DEF PhaseMap, IsTokenBlacklisted
<1>4. req[r].pc = "lookup" /\ req' = [req EXCEPT ![r].pc = "handler"]
  BY DEF IsTokenBlacklisted
<1>5. LetIn(r)' = t /\ \A q \in Slots \ {r} : LetIn(q)' = LetIn(q)
  <2>1. req'[r].pc = "handler" /\ req'[r].blind = req[r].blind /\ req'[r].tok = req[r].tok
    BY <1>4 DEF TypeOK, Requests
  <2>2. \A q \in Slots \ {r} : req'[q] = req[q]
    BY <1>4 DEF TypeOK
  <2> QED BY <1>1, <2>1, <2>2 DEF LetIn
<1>6. LetInMap' = [LetInMap EXCEPT ![r] = t]
  BY <1>5 DEF LetInMap
<1>7. LetInMap[r] = NoToken
  BY <1>4 DEF LetInMap, LetIn
<1> HIDE DEF t
<1> QED BY <1>1, <1>2, <1>3, <1>6, <1>7
        DEF Promise!PNext, Promise!Admit, PhaseMap, LetInMap

(* Time, signing and the end of a logout let nobody in.                    *)
LEMMA NobodyLetIn ==
  ASSUME TypeOK, NEW r \in Slots,
         \/ Tick
         \/ GetTokens(r)
         \/ \E w \in req[r].pending : SetEntry(r, w)
  PROVE  LetInMap' = LetInMap
<1>1. ASSUME NEW q \in Slots
      PROVE  LetIn(q)' = LetIn(q)
  <2> USE DEF TypeOK, LetIn
  <2>1. CASE Tick
    BY <2>1 DEF Tick
  <2>2. CASE GetTokens(r)
    BY <2>2 DEF GetTokens, Answer, Idle
  <2>3. ASSUME NEW w \in req[r].pending, SetEntry(r, w)
        PROVE  LetIn(q)' = LetIn(q)
    <3>1. /\ req[r].pc = "writing" /\ req'[r].pc = "writing"
          /\ q # r => req'[q] = req[q]
      BY <2>3 DEF SetEntry, Requests
    <3> QED BY <3>1
  <2> QED BY <2>1, <2>2, <2>3
<1> QED BY <1>1 DEF LetInMap

(* A request arrives at the guard's lookup, or at its handler without a    *)
(* token that was looked up.                                               *)
LEMMA ArrivalLetsNobodyIn ==
  ASSUME TypeOK, NEW r \in Slots, Arrive(r)
  PROVE  /\ LetIn(r)' = NoToken
         /\ \A q \in Slots \ {r} : LetIn(q)' = LetIn(q)
         /\ UNCHANGED <<now, redis, issued>>
<1> USE DEF TypeOK, LetIn
<1>1. ASSUME NEW u \in Users, BeginLogin(r, u)
      PROVE  /\ req'[r].pc # "handler"
             /\ \A q \in Slots \ {r} : req'[q] = req[q]
             /\ UNCHANGED <<now, redis, issued>>
  BY <1>1 DEF BeginLogin, Idle
<1>2. ASSUME NEW t \in issued, BeginRefresh(r, t)
      PROVE  /\ req'[r].pc # "handler"
             /\ \A q \in Slots \ {r} : req'[q] = req[q]
             /\ UNCHANGED <<now, redis, issued>>
  BY <1>2 DEF BeginRefresh, Idle
<1>3. ASSUME NEW route, NEW t \in issued, NEW scheme, NEW rtok,
             CanActivate(r, route, t, scheme, rtok)
      PROVE  /\ req'[r].pc = "handler" => req'[r].tok = NoToken
             /\ \A q \in Slots \ {r} : req'[q] = req[q]
             /\ UNCHANGED <<now, redis, issued>>
  <2>1. /\ req'[r].pc = "handler" => ExtractTokenFromHeader(scheme, t) = NoToken
        /\ req'[r].tok = ExtractTokenFromHeader(scheme, t)
    BY <1>3 DEF CanActivate, Idle
  <2> QED BY <1>3, <2>1 DEF CanActivate
<1> QED BY <1>1, <1>2, <1>3 DEF Arrive

(* Every step of the detailed specification is one of the promise, or      *)
(* changes nothing that it speaks of.                                      *)
LEMMA StepIsPromised ==
  ASSUME IndInv, OnlyIssued, [Next]_vars
  PROVE  [Promise!PNext]_(Promise!pvars)
<1>1. TypeOK
  BY DEF IndInv
<1>2. \A r \in Slots : LetIn(r) \in Tokens \cup {NoToken}
  BY <1>1 DEF TypeOK, LetIn, Requests, MaybeToken
<1>3. CASE Tick
  <2>1. ASSUME NEW r \in Slots
        PROVE  Promise!PNext
    BY <1>1, <1>3, TickMoves, NobodyLetIn, MovesArePromised
  <2>2. CASE Slots = {}
    <3>1. LetInMap' = LetInMap
      BY <2>2 DEF LetInMap
    <3> QED BY <1>3, <3>1, TickMoves, MovesArePromised
  <2> QED BY <2>1, <2>2
<1>4. CASE Crash
  <2>1. \A r \in Slots : LetIn(r)' = NoToken
    BY <1>4 DEF Crash, LetIn, Idle
  <2> QED BY <1>2, <1>4, <2>1, EndsArePromised DEF Crash
<1>5. ASSUME NEW r \in Slots, Arrive(r)
      PROVE  Promise!PNext
  BY <1>1, <1>2, <1>5, ArrivalLetsNobodyIn, EndsArePromised
<1>6. ASSUME NEW r \in Slots,
             \/ IsTokenBlacklisted(r) /\ Blacklisted(req[r].tok)
             \/ GetUser(r) \/ LogoutDone(r) \/ NoSuchUser(r)
      PROVE  Promise!PNext
  <2>1. req' = [req EXCEPT ![r] = Idle] /\ UNCHANGED <<now, redis, issued>>
    BY <1>6 DEF IsTokenBlacklisted, GetUser, LogoutDone, NoSuchUser, Answer
  <2>2. \A q \in Slots : LetIn(q)' \in {LetIn(q), NoToken}
    BY <1>1, <2>1 DEF TypeOK, LetIn, Idle
  <2> QED BY <1>2, <2>1, <2>2, EndsArePromised
<1>7. ASSUME NEW r \in Slots,
             \/ Logout(r) \/ LookupFails(r)
             \/ \E w \in req[r].pending : SetFails(r, w)
             \/ IsTokenBlacklisted(r) /\ req[r].blind
      PROVE  Promise!PNext
  <2>1. UNCHANGED <<now, redis, issued>> /\ \A q \in Slots \ {r} : req'[q] = req[q]
    BY <1>1, <1>7 DEF Logout, LookupFails, SetFails, IsTokenBlacklisted, Answer, TypeOK
  <2>2. req'[r].pc # "handler" \/ req'[r].blind
    <3> USE <1>1 DEF TypeOK, Requests
    <3>1. CASE Logout(r)
      BY <3>1 DEF Logout
    <3>2. CASE LookupFails(r)
      BY <3>2 DEF LookupFails
    <3>3. CASE \E w \in req[r].pending : SetFails(r, w)
      BY <3>3 DEF SetFails
    <3>4. CASE IsTokenBlacklisted(r) /\ req[r].blind
      <4>1. req' = [req EXCEPT ![r] = Idle] \/ req'[r].blind = req[r].blind
        BY <3>4 DEF IsTokenBlacklisted, Answer
      <4>2. req' = [req EXCEPT ![r] = Idle] => req'[r].pc = "idle"
        BY DEF Idle
      <4> QED BY <3>4, <4>1, <4>2
    <3> QED BY <1>7, <3>1, <3>2, <3>3, <3>4
  <2>3. \A q \in Slots : LetIn(q)' \in {LetIn(q), NoToken}
    BY <2>1, <2>2 DEF LetIn
  <2> QED BY <1>2, <2>1, <2>3, EndsArePromised
<1>8. ASSUME NEW r \in Slots, GetTokens(r)
      PROVE  Promise!PNext
  BY <1>1, <1>8, GetTokensMoves, NobodyLetIn, MovesArePromised
<1>9. ASSUME NEW r \in Slots, NEW w \in req[r].pending, SetEntry(r, w)
      PROVE  Promise!PNext
  BY <1>1, <1>9, SetEntryMoves, NobodyLetIn, MovesArePromised
<1>10. ASSUME NEW r \in Slots, Serve(r)
       PROVE  Promise!PNext
  BY <1>1, <1>6, <1>7, <1>8, <1>9, <1>10, AdmissionIsPromised DEF Serve
<1>11. CASE UNCHANGED vars
  <2>1. /\ \A t \in Tokens : Phase(t)' = Phase(t)
        /\ \A r \in Slots : LetIn(r)' = LetIn(r)
    BY <1>11, OthersMoveNothing DEF vars, LetIn
  <2>2. PhaseMap' = PhaseMap /\ LetInMap' = LetInMap
    BY <2>1 DEF PhaseMap, LetInMap
  <2> QED BY <2>2 DEF Promise!pvars, PhaseMap, LetInMap
<1> QED BY <1>3, <1>4, <1>5, <1>10, <1>11 DEF Next

(* Nothing is issued at first, and nobody is let in.                       *)
LEMMA InitIsPromised == Init => Promise!PInit
<1> SUFFICES ASSUME Init PROVE Promise!PInit
  OBVIOUS
<1>1. \A t \in Tokens : Phase(t) = "unissued"
  BY PhaseCases DEF Init
<1>2. \A r \in Slots : LetIn(r) = NoToken
  BY DEF Init, LetIn, Idle
<1> QED BY <1>1, <1>2 DEF Promise!PInit

(* Whatever fails and however requests interleave, login, guard and logout *)
(* keep what SessionPromise promises: issued, down and dead are for good,  *)
(* and no request is let in after a lookup with a token that is down       *)
(* (access-token.guard.ts:33-49, token-blacklist.service.ts:30-44).        *)
THEOREM PromiseIsKept == Spec => KeepsPromise
<1>1. IndInv /\ OnlyIssued /\ [Next]_vars => [Promise!PNext]_(Promise!pvars)
  BY StepIsPromised
<1> QED BY <1>1, InitIsPromised, IndInvHolds, OnlyIssuedHolds, PTL
        DEF Spec, KeepsPromise, Promise!PSpec
=============================================================================
