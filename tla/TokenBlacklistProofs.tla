------------------------ MODULE TokenBlacklistProofs ------------------------
(***************************************************************************)
(* The blacklist of TokenBlacklist for every number of users, requests,    *)
(* ticks and lifetimes.                                                    *)
(***************************************************************************)
EXTENDS TokenBlacklist, TLAPS

(* Cutting milliseconds to seconds and back loses less than a second.      *)
LEMMA FloorBounds ==
  ASSUME NEW n \in Nat, NEW s \in Nat \ {0}
  PROVE  /\ n \div s \in Nat
         /\ (n \div s) * s <= n
         /\ n < (n \div s) * s + s
  OBVIOUS

(* Multiplication by a natural number keeps the order.                     *)
LEMMA TimesMonotone ==
  ASSUME NEW a \in Nat, NEW b \in Nat, NEW s \in Nat, a <= b
  PROVE  a * s <= b * s
<1>1. PICK d \in Nat : b = a + d
  <2>1. b - a \in Nat /\ b = a + (b - a)
    OBVIOUS
  <2> QED BY <2>1
<1>2. b * s = a * s + d * s
  BY <1>1
<1>3. a * s \in Nat /\ d * s \in Nat
  OBVIOUS
<1> QED BY <1>2, <1>3

(* A quotient is at least m when m whole divisors fit.                     *)
LEMMA FloorAtLeast ==
  ASSUME NEW n \in Nat, NEW m \in Nat, NEW s \in Nat \ {0}, m * s <= n
  PROVE  m <= n \div s
<1> DEFINE q == n \div s
<1>1. q \in Nat /\ n < q * s + s
  BY FloorBounds
<1>2. CASE q + 1 <= m
  <2>1. (q + 1) * s <= m * s
    BY <1>1, <1>2, TimesMonotone
  <2>2. (q + 1) * s = q * s + s
    BY <1>1
  <2> QED BY <1>1, <2>1, <2>2
<1> QED BY <1>1, <1>2

(* The clock in seconds is a second that an iat claim can hold.            *)
LEMMA NowSecondsInRange ==
  ASSUME now \in 0..MaxNow
  PROVE  NowSeconds \in Seconds
<1> USE ClockAssumption
<1> DEFINE q == now \div Second
<1>1. q \in Nat /\ q * Second <= now
  BY FloorBounds
<1>2. 1 * q <= Second * q
  BY <1>1, TimesMonotone
<1>3. q <= now
  BY <1>1, <1>2
<1> QED BY <1>1, <1>3 DEF NowSeconds, Seconds

(* The exp claim is a natural number (access-token.strategy.ts:13-24).     *)
LEMMA ExpIsNat == \A t \in Tokens : Exp(t) \in Nat
BY ClockAssumption DEF Exp, Lifetime, Tokens, Seconds

(* A slot without a request is well typed.                                 *)
LEMMA IdleIsRequest == Idle \in Requests
BY ValueAssumption DEF Idle, Requests, Phases, Routes, MaybeToken

-----------------------------------------------------------------------------
(* The variables keep their types: in particular no time to live of zero   *)
(* or less is ever sent to Redis (token-blacklist.service.ts:42).          *)
THEOREM TypeCorrect == Spec => []TypeOK
<1>1. Init => TypeOK
  BY IdleIsRequest, ClockAssumption DEF Init, TypeOK
<1>2. TypeOK /\ [Next]_vars => TypeOK'
  <2> SUFFICES ASSUME TypeOK, [Next]_vars
               PROVE  TypeOK'
    OBVIOUS
  <2> USE IdleIsRequest DEF TypeOK
  <2>1. CASE Tick
    BY <2>1, ClockAssumption DEF Tick
  <2>2. CASE Crash
    BY <2>2 DEF Crash
  <2>3. ASSUME NEW r \in Slots, NEW route, NEW t \in issued, NEW scheme,
               NEW rtok \in issued \cup {NoToken},
               CanActivate(r, route, t, scheme, rtok)
        PROVE  TypeOK'
    <3>1. ASSUME NEW b \in BOOLEAN, NEW tok \in MaybeToken, NEW pc \in Phases
          PROVE  [Idle EXCEPT !.pc = pc, !.route = route, !.jwt = t, !.tok = tok,
                              !.rtok = rtok, !.late = b] \in Requests
      <4>1. route \in Routes /\ t \in MaybeToken /\ rtok \in MaybeToken
        BY <2>3 DEF CanActivate, Routes, MaybeToken
      <4> QED BY <3>1, <4>1 DEF Requests
    <3>2. ExtractTokenFromHeader(scheme, t) \in MaybeToken
      BY DEF ExtractTokenFromHeader, MaybeToken
    <3>3. (t \in revoked) \in BOOLEAN
      OBVIOUS
    <3> QED BY <2>3, <3>1, <3>2, <3>3 DEF CanActivate, Phases
  <2>4. ASSUME NEW r \in Slots, NEW u \in Users, BeginLogin(r, u)
        PROVE  TypeOK'
    BY <2>4 DEF BeginLogin, Idle, Requests, Phases, Routes
  <2>5. ASSUME NEW r \in Slots, NEW t \in issued, BeginRefresh(r, t)
        PROVE  TypeOK'
    <3>1. ASSUME NEW b \in BOOLEAN
          PROVE  [Idle EXCEPT !.pc = "sign", !.route = "refresh", !.user = t.user,
                              !.jwt = t, !.late = b] \in Requests
      <4>1. t.user \in Users /\ t \in MaybeToken
        BY DEF Tokens, MaybeToken
      <4> QED BY <4>1 DEF Requests, Phases, Routes
    <3>2. (t \in revoked) \in BOOLEAN
      OBVIOUS
    <3> QED BY <2>5, <3>1, <3>2 DEF BeginRefresh
  <2>6. ASSUME NEW r \in Slots, IsTokenBlacklisted(r) \/ LookupFails(r) \/ GetUser(r)
        PROVE  TypeOK'
    BY <2>6 DEF IsTokenBlacklisted, LookupFails, GetUser, Answer, Requests, Phases
  <2>7. ASSUME NEW r \in Slots, Logout(r)
        PROVE  TypeOK'
    <3>1. req[r] \in Requests /\ {req[r].tok, req[r].rtok} \subseteq MaybeToken
      BY DEF Requests
    <3>2. NowSeconds \in Nat
      BY NowSecondsInRange DEF Seconds
    <3>3. \A t \in Tokens : Ttl(t) > 0 => Ttl(t) \in Nat \ {0}
      BY <3>2, ExpIsNat DEF Ttl
    <3>4. BlacklistWrites(req[r].tok, req[r].rtok) \subseteq Writes
      BY <3>1, <3>3 DEF BlacklistWrites, BlacklistToken, Writes, MaybeToken
    <3> QED BY <2>7, <3>1, <3>4 DEF Logout, Requests, Phases
  <2>8. ASSUME NEW r \in Slots, NEW w \in req[r].pending, SetEntry(r, w)
        PROVE  TypeOK'
    <3>1. req[r] \in Requests /\ w \in Writes
      BY DEF Requests
    <3>2. now + w.ttl * Second \in Nat
      BY <3>1, ClockAssumption DEF Writes
    <3>3. redis' \in [Tokens -> Nat]
      BY <2>8, <3>1, <3>2 DEF SetEntry, Writes
    <3> QED BY <2>8, <3>1, <3>3 DEF SetEntry, Requests
  <2>9. ASSUME NEW r \in Slots, NEW w \in req[r].pending, SetFails(r, w)
        PROVE  TypeOK'
    <3>1. req[r] \in Requests /\ w.tok \in Tokens
      BY DEF Requests, Writes
    <3> QED BY <2>9, <3>1 DEF SetFails, Requests
  <2>10. ASSUME NEW r \in Slots, LogoutDone(r)
         PROVE  TypeOK'
    <3>1. req[r].tok \in MaybeToken /\ req[r].rtok \in MaybeToken
      BY DEF Requests
    <3> QED BY <2>10, <3>1 DEF LogoutDone, Answer, MaybeToken
  <2>11. ASSUME NEW r \in Slots, GetTokens(r) \/ NoSuchUser(r)
         PROVE  TypeOK'
    <3>1. NowSeconds \in Seconds /\ req[r].user \in Users
      BY NowSecondsInRange DEF Requests
    <3> QED BY <2>11, <3>1 DEF GetTokens, NoSuchUser, Signed, Answer, Tokens
  <2>12. CASE UNCHANGED vars
    BY <2>12 DEF vars
  <2> QED BY <2>1, <2>2, <2>3, <2>4, <2>5, <2>6, <2>7, <2>8, <2>9, <2>10, <2>11, <2>12
          DEF Next, Arrive, Serve
<1> QED BY <1>1, <1>2, PTL DEF Spec

-----------------------------------------------------------------------------
(***************************************************************************)
(* The inductive invariant.  EntryOutlivesToken alone is not inductive: it *)
(* needs that the entries in Redis and the writes on their way to it are   *)
(* long enough, and that a logout which is about to answer has nothing     *)
(* left undone.                                                            *)
(***************************************************************************)
(* The guard refuses t, by its entry or by its exp claim.                  *)
Down(t) == Blacklisted(t) \/ Expired(t)

(* Every entry in Redis expires no earlier than its token.                 *)
StoredLongEnough ==
  \A t \in Tokens : redis[t] # 0 => Exp(t) * Second <= redis[t]

(* Every write on its way has a time to live that reaches the exp of its   *)
(* token, also when Redis runs it later.                                   *)
PendingLongEnough ==
  \A r \in Slots : \A w \in req[r].pending :
    w.ttl > 0 /\ Exp(w.tok) <= w.ttl + NowSeconds

(* Each token of a logout is down, refused by Redis, or on its way.        *)
WritesAccounted ==
  \A r \in Slots : req[r].pc = "writing" =>
    \A t \in {req[r].tok, req[r].rtok} \ {NoToken} :
      \/ Down(t)
      \/ t \in req[r].lost
      \/ \E w \in req[r].pending : w.tok = t

(* A late request came with a token that was taken down, and the guard     *)
(* looks up this very token.                                               *)
LateIsRevoked ==
  \A r \in Slots :
    req[r].pc \in {"lookup", "handler", "writing"} /\ req[r].late =>
      /\ req[r].jwt \in revoked
      /\ req[r].pc = "lookup" => req[r].tok = req[r].jwt

IndInv ==
  /\ TypeOK
  /\ StoredLongEnough
  /\ PendingLongEnough
  /\ WritesAccounted
  /\ EntryOutlivesToken
  /\ LateIsRevoked
  /\ LateRequestStopped

(* Only time and the writes of a logout touch the clock or the store.      *)
LEMMA ClockAndStoreFrame ==
  ASSUME [Next]_vars
  PROVE  \/ Tick
         \/ \E r \in Slots : \E w \in req[r].pending : SetEntry(r, w)
         \/ UNCHANGED <<now, redis>>
<1>1. ASSUME NEW r \in Slots, Arrive(r)
      PROVE  UNCHANGED <<now, redis>>
  BY <1>1 DEF Arrive, CanActivate, BeginLogin, BeginRefresh
<1>2. ASSUME NEW r \in Slots, Serve(r)
      PROVE  \/ \E w \in req[r].pending : SetEntry(r, w)
             \/ UNCHANGED <<now, redis>>
  <2>1. \/ IsTokenBlacklisted(r)
        \/ LookupFails(r)
        \/ GetUser(r)
        \/ Logout(r)
        \/ \E w \in req[r].pending : SetEntry(r, w)
        \/ \E w \in req[r].pending : SetFails(r, w)
        \/ LogoutDone(r)
        \/ GetTokens(r)
        \/ NoSuchUser(r)
    BY <1>2 DEF Serve
  <2> QED BY <2>1 DEF IsTokenBlacklisted, LookupFails, GetUser, Logout, SetFails,
                      LogoutDone, GetTokens, NoSuchUser
<1> QED BY <1>1, <1>2 DEF Next, Crash, vars

(* The clock in seconds never goes back.                                   *)
LEMMA NowSecondsGrows ==
  ASSUME TypeOK, [Next]_vars
  PROVE  /\ NowSeconds \in Nat /\ NowSeconds' \in Nat
         /\ NowSeconds <= NowSeconds'
<1> USE ClockAssumption
<1>1. now \in Nat /\ now' \in Nat /\ now <= now'
  BY ClockAndStoreFrame DEF TypeOK, Tick, SetEntry
<1>2. NowSeconds \in Nat /\ NowSeconds * Second <= now /\ NowSeconds' \in Nat
  BY <1>1, FloorBounds DEF NowSeconds
<1>3. NowSeconds * Second <= now'
  <2>1. NowSeconds * Second \in Nat
    BY <1>2
  <2> QED BY <1>1, <1>2, <2>1
<1>4. NowSeconds <= now' \div Second
  BY <1>1, <1>2, <1>3, FloorAtLeast
<1> QED BY <1>2, <1>4 DEF NowSeconds

(* An entry that a logout writes is long enough, although its time to live *)
(* was cut to seconds at an earlier moment.                                *)
LEMMA WrittenLongEnough ==
  ASSUME TypeOK, PendingLongEnough, NEW r \in Slots, NEW w \in req[r].pending
  PROVE  /\ w.tok \in Tokens
         /\ now + w.ttl * Second \in Nat
         /\ now + w.ttl * Second > 0
         /\ Exp(w.tok) * Second <= now + w.ttl * Second
<1> USE ClockAssumption
<1>1. w.tok \in Tokens /\ w.ttl \in Nat /\ now \in Nat
  BY DEF TypeOK, Requests, Writes
<1>2. w.ttl >= 1 /\ Exp(w.tok) <= w.ttl + NowSeconds
  BY <1>1 DEF PendingLongEnough
<1>3. Exp(w.tok) \in Nat /\ NowSeconds \in Nat /\ NowSeconds * Second <= now
  BY <1>1, ExpIsNat, FloorBounds DEF NowSeconds
<1>4. Exp(w.tok) * Second <= (w.ttl + NowSeconds) * Second
  BY <1>1, <1>2, <1>3, TimesMonotone
<1>5. (w.ttl + NowSeconds) * Second = w.ttl * Second + NowSeconds * Second
  BY <1>1, <1>3
<1>6. 1 * Second <= w.ttl * Second
  BY <1>1, <1>2, TimesMonotone
<1>7. w.ttl * Second \in Nat /\ NowSeconds * Second \in Nat /\ Exp(w.tok) * Second \in Nat
  BY <1>1, <1>3
<1> QED BY <1>1, <1>3, <1>4, <1>5, <1>6, <1>7

(* Time and the writes of a logout keep the entries long enough.           *)
LEMMA StoredStaysLongEnough ==
  ASSUME TypeOK, StoredLongEnough, PendingLongEnough, [Next]_vars
  PROVE  StoredLongEnough'
<1>1. ASSUME NEW t \in Tokens, redis'[t] # 0
      PROVE  Exp(t) * Second <= redis'[t]
  <2>1. CASE Tick
    BY <1>1, <2>1 DEF Tick, StoredLongEnough
  <2>2. ASSUME NEW r \in Slots, NEW w \in req[r].pending, SetEntry(r, w)
        PROVE  Exp(t) * Second <= redis'[t]
    BY <1>1, <2>2, WrittenLongEnough DEF SetEntry, StoredLongEnough, TypeOK
  <2>3. CASE UNCHANGED <<now, redis>>
    BY <1>1, <2>3 DEF StoredLongEnough
  <2> QED BY <2>1, <2>2, <2>3, ClockAndStoreFrame
<1> QED BY <1>1 DEF StoredLongEnough, Exp, Lifetime

(* A token that is down stays down: when Redis drops its entry, the token  *)
(* has run out.                                                            *)
LEMMA DownStays ==
  ASSUME TypeOK, StoredLongEnough, PendingLongEnough, [Next]_vars,
         NEW t \in Tokens, Down(t)
  PROVE  Down(t)'
<1> USE ClockAssumption
<1>1. Exp(t) \in Nat /\ Exp(t)' = Exp(t)
  BY ExpIsNat DEF Exp, Lifetime
<1>2. CASE Expired(t)
  BY <1>1, <1>2, NowSecondsGrows DEF Expired, Down
<1>3. CASE Blacklisted(t) /\ Tick
  <2>1. CASE redis[t] <= now'
    <3>1. redis[t] \in Nat /\ now' \in Nat /\ Exp(t) * Second \in Nat
      BY <1>1, <1>3 DEF TypeOK, Tick
    <3>2. Exp(t) * Second <= now'
      BY <1>3, <2>1, <3>1 DEF StoredLongEnough, Blacklisted
    <3>3. Exp(t) <= now' \div Second
      BY <1>1, <3>1, <3>2, FloorAtLeast
    <3> QED BY <1>1, <3>1, <3>3, FloorBounds DEF Down, Expired, NowSeconds
  <2>2. CASE ~(redis[t] <= now')
    BY <1>3, <2>2 DEF Tick, Blacklisted, Down
  <2> QED BY <2>1, <2>2
<1>4. ASSUME Blacklisted(t), NEW r \in Slots, NEW w \in req[r].pending, SetEntry(r, w)
      PROVE  Down(t)'
  BY <1>4, WrittenLongEnough DEF SetEntry, TypeOK, Blacklisted, Down
<1>5. CASE Blacklisted(t) /\ UNCHANGED <<now, redis>>
  BY <1>5 DEF Blacklisted, Down
<1> QED BY <1>2, <1>3, <1>4, <1>5, ClockAndStoreFrame DEF Down

(* What a step does to the request of a slot: nothing, its end, or one of  *)
(* the steps that carry it on.                                             *)
CarriedOn(r) ==
  \/ Arrive(r)
  \/ IsTokenBlacklisted(r) /\ ~Blacklisted(req[r].tok)
  \/ LookupFails(r)
  \/ Logout(r)
  \/ \E w \in req[r].pending : SetEntry(r, w)
  \/ \E w \in req[r].pending : SetFails(r, w)

(* No step does anything else to the request of a slot.                    *)
LEMMA SlotFrame ==
  ASSUME TypeOK, [Next]_vars, NEW r \in Slots
  PROVE  req'[r] = req[r] \/ req'[r] = Idle \/ CarriedOn(r)
<1> USE DEF TypeOK
<1>1. ASSUME NEW q \in Slots, Arrive(q)
      PROVE  req'[r] = req[r] \/ CarriedOn(r)
  <2>1. CASE q = r
    BY <1>1, <2>1 DEF Arrive, CarriedOn
  <2>2. CASE q # r
    BY <1>1, <2>2 DEF Arrive, CanActivate, BeginLogin, BeginRefresh
  <2> QED BY <2>1, <2>2
<1>2. ASSUME NEW q \in Slots, Serve(q)
      PROVE  req'[r] = req[r] \/ req'[r] = Idle \/ CarriedOn(r)
  <2>1. CASE q # r
    BY <1>2, <2>1 DEF Serve, IsTokenBlacklisted, LookupFails, GetUser, Logout, SetEntry,
                      SetFails, LogoutDone, GetTokens, NoSuchUser, Answer
  <2>2. CASE q = r /\ (\/ IsTokenBlacklisted(r) /\ Blacklisted(req[r].tok)
                      \/ GetUser(r) \/ LogoutDone(r) \/ GetTokens(r) \/ NoSuchUser(r))
    BY <2>2 DEF IsTokenBlacklisted, GetUser, LogoutDone, GetTokens, NoSuchUser, Answer
  <2>3. CASE q = r /\ ~(\/ IsTokenBlacklisted(r) /\ Blacklisted(req[r].tok)
                       \/ GetUser(r) \/ LogoutDone(r) \/ GetTokens(r) \/ NoSuchUser(r))
    BY <1>2, <2>3 DEF Serve, CarriedOn
  <2> QED BY <2>1, <2>2, <2>3
<1>3. CASE Crash
  BY <1>3 DEF Crash
<1>4. CASE Tick \/ UNCHANGED vars
  BY <1>4 DEF Tick, vars
<1> QED BY <1>1, <1>2, <1>3, <1>4 DEF Next

(* A request arrives with nothing to write.                                *)
LEMMA ArrivalFrame ==
  ASSUME TypeOK, NEW r \in Slots, Arrive(r)
  PROVE  /\ req'[r].pc \in {"lookup", "handler", "sign"}
         /\ req'[r].pending = {}
<1> USE DEF TypeOK
<1>1. ASSUME NEW u \in Users, BeginLogin(r, u)
      PROVE  req'[r].pc = "sign" /\ req'[r].pending = {}
  BY <1>1 DEF BeginLogin, Idle
<1>2. ASSUME NEW t \in issued, BeginRefresh(r, t)
      PROVE  req'[r].pc = "sign" /\ req'[r].pending = {}
  BY <1>2 DEF BeginRefresh, Idle
<1>3. ASSUME NEW route, NEW t \in issued, NEW scheme, NEW rtok,
             CanActivate(r, route, t, scheme, rtok)
      PROVE  req'[r].pc \in {"lookup", "handler"} /\ req'[r].pending = {}
  BY <1>3 DEF CanActivate, Idle
<1> QED BY <1>1, <1>2, <1>3 DEF Arrive

(* Time only shortens what a write on its way has to cover.                *)
LEMMA PendingStaysLongEnough ==
  ASSUME TypeOK, PendingLongEnough, [Next]_vars
  PROVE  PendingLongEnough'
<1> SUFFICES ASSUME NEW r \in Slots, NEW w \in req'[r].pending
             PROVE  w.ttl > 0 /\ Exp(w.tok)' <= w.ttl + NowSeconds'
  BY DEF PendingLongEnough
<1> USE DEF TypeOK
<1>0. Exp(w.tok)' = Exp(w.tok)
  BY DEF Exp, Lifetime
<1>1. CASE w \in req[r].pending
  <2>1. w.tok \in Tokens /\ w.ttl \in Nat
    BY <1>1 DEF Requests, Writes
  <2>2. w.ttl > 0 /\ Exp(w.tok) <= w.ttl + NowSeconds
    BY <1>1 DEF PendingLongEnough
  <2> QED BY <1>0, <2>1, <2>2, NowSecondsGrows, ExpIsNat
<1>2. CASE Logout(r)
  <2>1. req[r].tok \in MaybeToken /\ req[r].rtok \in MaybeToken
    BY DEF Requests
  <2>2. w \in BlacklistWrites(req[r].tok, req[r].rtok)
    BY <1>2 DEF Logout
  <2>3. w.tok \in Tokens /\ w.ttl = Ttl(w.tok) /\ Ttl(w.tok) > 0
    BY <2>1, <2>2 DEF BlacklistWrites, BlacklistToken, MaybeToken
  <2>4. NowSeconds' = NowSeconds
    BY <1>2 DEF Logout, NowSeconds
  <2> QED BY <1>0, <2>3, <2>4, NowSecondsGrows, ExpIsNat DEF Ttl
<1>3. w \in req[r].pending \/ Logout(r)
  <2>1. CASE req'[r] = req[r]
    BY <2>1
  <2>2. CASE req'[r] = Idle
    BY <2>2 DEF Idle
  <2>3. CASE Arrive(r)
    BY <2>3, ArrivalFrame
  <2>4. CASE (IsTokenBlacklisted(r) /\ ~Blacklisted(req[r].tok)) \/ LookupFails(r)
    BY <2>4 DEF IsTokenBlacklisted, LookupFails, Requests
  <2>5. ASSUME NEW v \in req[r].pending, SetEntry(r, v) \/ SetFails(r, v)
        PROVE  w \in req[r].pending
    BY <2>5 DEF SetEntry, SetFails, Requests
  <2> QED BY <2>1, <2>2, <2>3, <2>4, <2>5, SlotFrame DEF CarriedOn
<1> QED BY <1>1, <1>2, <1>3

(* Redis answering, or refusing, a write leaves its token accounted for.   *)
LEMMA WritesStayAccounted ==
  ASSUME TypeOK, StoredLongEnough, PendingLongEnough, WritesAccounted, [Next]_vars
  PROVE  WritesAccounted'
<1> SUFFICES ASSUME NEW r \in Slots, req'[r].pc = "writing",
                    NEW t \in {req'[r].tok, req'[r].rtok} \ {NoToken}
             PROVE  \/ Down(t)'
                    \/ t \in req'[r].lost
                    \/ \E w \in req'[r].pending : w.tok = t
  BY DEF WritesAccounted
<1> USE DEF TypeOK
<1>1. CASE req'[r] = req[r]
  <2>1. t \in Tokens
    BY <1>1 DEF Requests, MaybeToken
  <2> QED BY <1>1, <2>1, DownStays DEF WritesAccounted
<1>2. CASE Logout(r)
  <2>1. t \in Tokens /\ t \in {req[r].tok, req[r].rtok} \ {NoToken}
    BY <1>2 DEF Logout, Requests, MaybeToken
  <2>2. CASE Ttl(t) > 0
    <3>1. PICK header : [header |-> header, tok |-> t, ttl |-> Ttl(t)]
                          \in BlacklistWrites(req[r].tok, req[r].rtok)
      BY <2>1, <2>2 DEF BlacklistWrites, BlacklistToken
    <3> QED BY <1>2, <3>1 DEF Logout, Requests
  <2>3. CASE ~(Ttl(t) > 0)
    <3>1. Expired(t)
      BY <2>1, <2>3, NowSecondsGrows, ExpIsNat DEF Ttl, Expired
    <3> QED BY <2>1, <3>1, DownStays DEF Down
  <2> QED BY <2>2, <2>3
<1>3. ASSUME NEW w \in req[r].pending, SetEntry(r, w)
      PROVE  Down(t)' \/ t \in req'[r].lost \/ \E v \in req'[r].pending : v.tok = t
  <2>1. t \in Tokens /\ t \in {req[r].tok, req[r].rtok} \ {NoToken}
    BY <1>3 DEF SetEntry, Requests, MaybeToken
  <2>2. CASE t = w.tok
    BY <1>3, <2>1, <2>2, WrittenLongEnough DEF SetEntry, Down, Blacklisted
  <2>3. CASE t # w.tok
    BY <1>3, <2>1, <2>3, DownStays DEF SetEntry, WritesAccounted
  <2> QED BY <2>2, <2>3
<1>4. ASSUME NEW w \in req[r].pending, SetFails(r, w)
      PROVE  Down(t)' \/ t \in req'[r].lost \/ \E v \in req'[r].pending : v.tok = t
  <2>1. t \in Tokens /\ t \in {req[r].tok, req[r].rtok} \ {NoToken}
    BY <1>4 DEF SetFails, Requests, MaybeToken
  <2> QED BY <1>4, <2>1, DownStays DEF SetFails, WritesAccounted
<1>5. \/ req'[r] = req[r]
      \/ Logout(r)
      \/ \E w \in req[r].pending : SetEntry(r, w)
      \/ \E w \in req[r].pending : SetFails(r, w)
  <2>1. req'[r] # Idle
    BY DEF Idle
  <2>2. ~Arrive(r)
    BY ArrivalFrame
  <2>3. ~(IsTokenBlacklisted(r) /\ ~Blacklisted(req[r].tok)) /\ ~LookupFails(r)
    BY DEF IsTokenBlacklisted, LookupFails, Requests
  <2> QED BY <2>1, <2>2, <2>3, SlotFrame DEF CarriedOn
<1> QED BY <1>1, <1>2, <1>3, <1>4, <1>5

(* Only an answered logout takes a token down (auth.service.ts:102-104).   *)
LEMMA RevokedFrame ==
  ASSUME [Next]_vars
  PROVE  revoked' = revoked \/ \E r \in Slots : LogoutDone(r)
<1>1. ASSUME NEW r \in Slots, Arrive(r)
      PROVE  revoked' = revoked
  BY <1>1 DEF Arrive, CanActivate, BeginLogin, BeginRefresh
<1>2. ASSUME NEW r \in Slots, Serve(r)
      PROVE  revoked' = revoked \/ LogoutDone(r)
  BY <1>2 DEF Serve, IsTokenBlacklisted, LookupFails, GetUser, Logout, SetEntry, SetFails,
              GetTokens, NoSuchUser
<1> QED BY <1>1, <1>2 DEF Next, Crash, Tick, vars

(* No token that was taken down is forgotten.                              *)
LEMMA RevokedGrows ==
  ASSUME [Next]_vars
  PROVE  revoked \subseteq revoked'
BY RevokedFrame DEF LogoutDone

(* A logout is answered with nothing on its way, so that what it takes     *)
(* down is down; and down stays down.                                      *)
LEMMA EntryStaysOutliving ==
  ASSUME TypeOK, StoredLongEnough, PendingLongEnough, WritesAccounted,
         EntryOutlivesToken, [Next]_vars
  PROVE  EntryOutlivesToken'
<1> SUFFICES ASSUME NEW t \in revoked'
             PROVE  Down(t)'
  BY DEF EntryOutlivesToken, Down
<1>1. CASE t \in revoked
  BY <1>1, DownStays DEF EntryOutlivesToken, Down, TypeOK
<1>2. ASSUME NEW r \in Slots, LogoutDone(r), t \notin revoked
      PROVE  Down(t)'
  <2>1. /\ t \in {req[r].tok, req[r].rtok} \ {NoToken}
        /\ t \notin req[r].lost
        /\ req[r].pc = "writing"
        /\ req[r].pending = {}
    BY <1>2 DEF LogoutDone
  <2>2. t \in Tokens
    BY <2>1 DEF TypeOK, Requests, MaybeToken
  <2> QED BY <2>1, <2>2, DownStays DEF WritesAccounted
<1> QED BY <1>1, <1>2, RevokedFrame

(* The guard keeps the token that it verified, and looks that one up.      *)
LEMMA LateStaysRevoked ==
  ASSUME TypeOK, LateIsRevoked, [Next]_vars
  PROVE  LateIsRevoked'
<1> SUFFICES ASSUME NEW r \in Slots, req'[r].late,
                    req'[r].pc \in {"lookup", "handler", "writing"}
             PROVE  /\ req'[r].jwt \in revoked'
                    /\ req'[r].pc = "lookup" => req'[r].tok = req'[r].jwt
  BY DEF LateIsRevoked
<1> USE DEF TypeOK
<1>1. CASE req'[r] = req[r]
  BY <1>1, RevokedGrows DEF LateIsRevoked
<1>2. CASE Arrive(r)
  <2>1. ASSUME NEW u \in Users, BeginLogin(r, u)
        PROVE  req'[r].pc = "sign"
    BY <2>1 DEF BeginLogin, Idle
  <2>2. ASSUME NEW t \in issued, BeginRefresh(r, t)
        PROVE  req'[r].pc = "sign"
    BY <2>2 DEF BeginRefresh, Idle
  <2>3. ASSUME NEW route, NEW t \in issued, NEW scheme, NEW rtok,
               CanActivate(r, route, t, scheme, rtok)
        PROVE  /\ req'[r].jwt \in revoked'
               /\ req'[r].pc = "lookup" => req'[r].tok = req'[r].jwt
    <3>1. req'[r].late = (t \in revoked)
      BY <2>3 DEF CanActivate, Idle
    <3>2. req'[r].jwt = t /\ revoked' = revoked
      BY <2>3 DEF CanActivate, Idle
    <3>3. req'[r].pc = "lookup" => req'[r].tok = t
      BY <2>3 DEF CanActivate, ExtractTokenFromHeader, Idle
    <3> QED BY <3>1, <3>2, <3>3
  <2> QED BY <1>2, <2>1, <2>2, <2>3 DEF Arrive
<1>3. CASE \/ IsTokenBlacklisted(r) /\ ~Blacklisted(req[r].tok)
           \/ LookupFails(r)
           \/ Logout(r)
  <2>1. /\ req[r].late
        /\ req[r].pc \in {"lookup", "handler"}
        /\ req'[r].jwt = req[r].jwt
        /\ req'[r].pc \in {"handler", "writing"}
        /\ revoked' = revoked
    BY <1>3 DEF IsTokenBlacklisted, LookupFails, Logout, Requests
  <2> QED BY <2>1 DEF LateIsRevoked
<1>4. ASSUME NEW w \in req[r].pending, SetEntry(r, w) \/ SetFails(r, w)
      PROVE  /\ req'[r].jwt \in revoked'
             /\ req'[r].pc = "lookup" => req'[r].tok = req'[r].jwt
  <2>1. /\ req[r].late
        /\ req[r].pc = "writing"
        /\ req'[r].jwt = req[r].jwt
        /\ req'[r].pc = "writing"
        /\ revoked' = revoked
    BY <1>4 DEF SetEntry, SetFails, Requests
  <2> QED BY <2>1 DEF LateIsRevoked
<1>5. req'[r] # Idle
  BY DEF Idle
<1> QED BY <1>1, <1>2, <1>3, <1>4, <1>5, SlotFrame DEF CarriedOn

(* The lookup of a late request finds the entry, unless it raises or the   *)
(* token runs out.                                                         *)
LEMMA LateStaysStopped ==
  ASSUME TypeOK, EntryOutlivesToken, LateIsRevoked, LateRequestStopped, [Next]_vars
  PROVE  LateRequestStopped'
<1> SUFFICES ASSUME NEW r \in Slots, req'[r].late, req'[r].pc \in {"handler", "writing"}
             PROVE  req'[r].blind \/ req'[r].tok = NoToken \/ Expired(req[r].jwt)'
  BY DEF LateRequestStopped
<1> USE DEF TypeOK
<1>1. ASSUME Expired(req[r].jwt), req[r].jwt \in Tokens, req'[r].jwt = req[r].jwt
      PROVE  Expired(req[r].jwt)'
  BY <1>1, NowSecondsGrows, ExpIsNat DEF Expired, Exp, Lifetime
<1>2. CASE /\ req[r].late
           /\ req[r].pc \in {"handler", "writing"}
           /\ req'[r].jwt = req[r].jwt
           /\ req'[r].tok = req[r].tok
           /\ req'[r].blind = req[r].blind
  <2>1. req[r].jwt \in Tokens
    BY <1>2 DEF LateIsRevoked
  <2> QED BY <1>1, <1>2, <2>1 DEF LateRequestStopped
<1>3. CASE Arrive(r)
  <2>1. ASSUME NEW u \in Users, BeginLogin(r, u)
        PROVE  req'[r].pc = "sign"
    BY <2>1 DEF BeginLogin, Idle
  <2>2. ASSUME NEW t \in issued, BeginRefresh(r, t)
        PROVE  req'[r].pc = "sign"
    BY <2>2 DEF BeginRefresh, Idle
  <2>3. ASSUME NEW route, NEW t \in issued, NEW scheme, NEW rtok,
               CanActivate(r, route, t, scheme, rtok)
        PROVE  req'[r].tok = NoToken
    BY <2>3 DEF CanActivate, ExtractTokenFromHeader, Idle
  <2> QED BY <1>3, <2>1, <2>2, <2>3 DEF Arrive
<1>4. CASE IsTokenBlacklisted(r) /\ ~Blacklisted(req[r].tok)
  <2>1. /\ req[r].late
        /\ req[r].pc = "lookup"
        /\ req'[r].jwt = req[r].jwt
    BY <1>4 DEF IsTokenBlacklisted, Requests
  <2>2. req[r].jwt \in revoked /\ req[r].tok = req[r].jwt
    BY <2>1 DEF LateIsRevoked
  <2>3. Expired(req[r].jwt)
    BY <1>4, <2>2 DEF EntryOutlivesToken
  <2> QED BY <1>1, <2>1, <2>2, <2>3
<1>5. CASE LookupFails(r)
  BY <1>5 DEF LookupFails, Requests
<1>6. CASE Logout(r)
  <2>1. /\ req[r].pc = "handler"
        /\ req[r].late = req'[r].late
        /\ req'[r].jwt = req[r].jwt
        /\ req'[r].tok = req[r].tok
        /\ req'[r].blind = req[r].blind
    BY <1>6 DEF Logout, Requests
  <2> QED BY <1>2, <2>1
<1>7. ASSUME NEW w \in req[r].pending, SetEntry(r, w) \/ SetFails(r, w)
      PROVE  req'[r].blind \/ req'[r].tok = NoToken \/ Expired(req[r].jwt)'
  <2>1. /\ req[r].pc = "writing"
        /\ req[r].late = req'[r].late
        /\ req'[r].jwt = req[r].jwt
        /\ req'[r].tok = req[r].tok
        /\ req'[r].blind = req[r].blind
    <3>1. req \in [Slots -> Requests]
      BY DEF TypeOK
    <3>2. CASE SetEntry(r, w)
      BY <3>1, <3>2 DEF SetEntry, Requests
    <3>3. CASE SetFails(r, w)
      BY <3>1, <3>3 DEF SetFails, Requests
    <3> QED BY <1>7, <3>2, <3>3
  <2> QED BY <1>2, <2>1
<1>8. CASE req'[r] = req[r]
  BY <1>2, <1>8
<1>9. req'[r] # Idle
  BY DEF Idle
<1> QED BY <1>3, <1>4, <1>5, <1>6, <1>7, <1>8, <1>9, SlotFrame DEF CarriedOn

-----------------------------------------------------------------------------
(* The inductive invariant holds in every state.                           *)
THEOREM IndInvHolds == Spec => []IndInv
<1>1. Init => IndInv
  <2> SUFFICES ASSUME Init
               PROVE  IndInv
    OBVIOUS
  <2>1. TypeOK
    BY IdleIsRequest, ClockAssumption DEF Init, TypeOK
  <2>2. \A r \in Slots : req[r].pc = "idle" /\ req[r].pending = {}
    BY DEF Init, Idle
  <2> QED BY <2>1, <2>2 DEF Init, IndInv, StoredLongEnough, PendingLongEnough,
             WritesAccounted, EntryOutlivesToken, LateIsRevoked, LateRequestStopped
<1>2. TypeOK /\ TypeOK' /\ IndInv /\ [Next]_vars => IndInv'
  BY StoredStaysLongEnough, PendingStaysLongEnough, WritesStayAccounted,
     EntryStaysOutliving, LateStaysRevoked, LateStaysStopped DEF IndInv
<1> QED BY <1>1, <1>2, TypeCorrect, PTL DEF Spec

(* A token that an answered logout took down is on the blacklist until it  *)
(* has run out (token-blacklist.service.ts:37-44).                         *)
THEOREM RevocationLasts == Spec => []EntryOutlivesToken
<1>1. IndInv => EntryOutlivesToken
  BY DEF IndInv
<1> QED BY <1>1, IndInvHolds, PTL

(* The guard stops every request that arrives after the logout, save for   *)
(* its three exceptions (access-token.guard.ts:33-49).                     *)
THEOREM GuardStopsLateRequests == Spec => []LateRequestStopped
<1>1. IndInv => LateRequestStopped
  BY DEF IndInv
<1> QED BY <1>1, IndInvHolds, PTL
=============================================================================
