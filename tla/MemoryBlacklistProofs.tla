------------------------ MODULE MemoryBlacklistProofs ------------------------
(***************************************************************************)
(* The blacklist in memory for every number of tokens and requests and     *)
(* every size of the store.                                                *)
(***************************************************************************)
EXTENDS MemoryBlacklist, FiniteSetTheorems, TLAPS

(* The keys used since one are finitely many, and more of them is a        *)
(* greater number.                                                         *)
LEMMA KeySets ==
  ASSUME NEW A \in SUBSET Keys, NEW B \in SUBSET Keys, A \subseteq B
  PROVE  /\ IsFiniteSet(A)
         /\ IsFiniteSet(B)
         /\ Cardinality(A) \in Nat
         /\ Cardinality(B) \in Nat
         /\ Cardinality(A) <= Cardinality(B)
<1>1. IsFiniteSet(A) /\ IsFiniteSet(B)
  BY FS_Subset, StoreAssumption
<1>2. Cardinality(A) \in Nat /\ Cardinality(B) \in Nat
  BY <1>1, FS_CardinalityType
<1>3. Cardinality(A) <= Cardinality(B)
  BY <1>1, FS_Subset
<1> QED BY <1>1, <1>2, <1>3

(* A key that a write drops has been crowded out: every other entry and    *)
(* the new key were used after it.                                         *)
LEMMA VictimIsCrowdedOut ==
  ASSUME NEW s \in Stores, NEW k \in Keys, NEW v \in Victims(s, k)
  PROVE  Cardinality(Set(s, k).since[v]) >= MaxEntries
<1> DEFINE others == s.held \ {v}
<1>1. /\ k \notin s.held
      /\ ~(Cardinality(s.held) < MaxEntries)
      /\ v \in s.held
      /\ others \subseteq s.since[v]
      /\ v \in Keys /\ v # k
  BY DEF Victims, Stores
<1>2. others \in SUBSET Keys /\ s.held \in SUBSET Keys
  BY DEF Stores
<1>3. Set(s, k).since[v] = s.since[v] \cup {k}
  BY <1>1 DEF Set, Use
<1>4. others \cup {k} \in SUBSET Keys /\ s.since[v] \cup {k} \in SUBSET Keys
  BY <1>1, <1>2 DEF Stores
<1>5. Cardinality(others) = Cardinality(s.held) - 1
  BY <1>1, <1>2, KeySets, FS_RemoveElement
<1>6. Cardinality(others \cup {k}) = Cardinality(others) + 1
  BY <1>1, <1>2, KeySets, FS_AddElement
<1>7. Cardinality(others \cup {k}) <= Cardinality(s.since[v] \cup {k})
  BY <1>1, <1>4, KeySets
<1>8. Cardinality(s.held) \in Nat /\ Cardinality(s.since[v] \cup {k}) \in Nat
  BY <1>2, <1>4, KeySets
<1> QED BY <1>1, <1>3, <1>5, <1>6, <1>7, <1>8, StoreAssumption

(* To use a key only brings the others nearer to being crowded out.        *)
LEMMA UseCrowds ==
  ASSUME NEW s \in Stores, NEW k \in Keys, NEW j \in Keys, j # k
  PROVE  /\ Cardinality(s.since[j]) \in Nat
         /\ Cardinality(Use(s.since, k)[j]) \in Nat
         /\ Cardinality(s.since[j]) <= Cardinality(Use(s.since, k)[j])
<1>1. Use(s.since, k)[j] = s.since[j] \cup {k}
  BY DEF Use
<1>2. s.since[j] \in SUBSET Keys /\ s.since[j] \cup {k} \in SUBSET Keys
  BY DEF Stores
<1> QED BY <1>1, <1>2, KeySets

(* A write keeps what was kept, and keeps its own key                      *)
(* (redis.service.ts:25-28).                                               *)
LEMMA SetKeeps ==
  ASSUME NEW s \in Stores, NEW k \in Keys, NEW D \in SUBSET Keys, Keeps(s, D)
  PROVE  Set(s, k) \in Stores /\ Keeps(Set(s, k), D \cup {k})
<1>1. Set(s, k) \in Stores
  BY DEF Set, Use, Victims, Stores
<1>2. ASSUME NEW j \in D, j # k, Cardinality(Set(s, k).since[j]) < MaxEntries
      PROVE  j \in Set(s, k).held
  <2>1. Cardinality(s.since[j]) < MaxEntries
    BY <1>2, UseCrowds, StoreAssumption DEF Set
  <2>2. j \in s.held
    BY <2>1 DEF Keeps
  <2>3. j \notin Victims(s, k)
    <3>1. Cardinality(Set(s, k).since[j]) \in Nat
      BY <1>2, UseCrowds DEF Set
    <3> QED BY <1>2, <3>1, VictimIsCrowdedOut, StoreAssumption
  <2> QED BY <2>2, <2>3 DEF Set
<1>3. k \in Set(s, k).held
  BY DEF Set
<1> QED BY <1>1, <1>2, <1>3 DEF Keeps

(* A read keeps what was kept.                                             *)
LEMMA GetKeeps ==
  ASSUME NEW s \in Stores, NEW k \in Keys, NEW D \in SUBSET Keys, Keeps(s, D)
  PROVE  Get(s, k) \in Stores /\ Keeps(Get(s, k), D)
<1>1. CASE k \notin s.held
  BY <1>1 DEF Get
<1>2. CASE k \in s.held
  <2>1. /\ Get(s, k).held = s.held
        /\ Get(s, k).since = Use(s.since, k)
    BY <1>2 DEF Get, Stores
  <2>2. Get(s, k) \in Stores
    BY <1>2 DEF Get, Use, Stores
  <2>3. ASSUME NEW j \in D, j # k, Cardinality(Use(s.since, k)[j]) < MaxEntries
        PROVE  j \in s.held
    <3>1. Cardinality(s.since[j]) < MaxEntries
      BY <2>3, UseCrowds, StoreAssumption
    <3> QED BY <3>1 DEF Keeps
  <2> QED BY <1>2, <2>1, <2>2, <2>3 DEF Keeps
<1> QED BY <1>1, <1>2

(* The delete of the probe takes no token with it.                         *)
LEMMA DelKeeps ==
  ASSUME NEW s \in Stores, NEW D \in SUBSET Tokens, Keeps(s, D)
  PROVE  Del(s, TestKey) \in Stores /\ Keeps(Del(s, TestKey), D)
<1>1. /\ Del(s, TestKey) \in Stores
      /\ Del(s, TestKey).held = s.held \ {TestKey}
      /\ Del(s, TestKey).since = s.since
  BY DEF Del, Stores
<1> QED BY <1>1, StoreAssumption DEF Keeps

(* A call of blacklistToken keeps what was kept and what it writes.        *)
LEMMA BlacklistTokenKeeps ==
  ASSUME NEW s \in Stores, NEW D \in SUBSET Keys, Keeps(s, D),
         NEW t \in Tokens \cup {NoToken}
  PROVE  /\ BlacklistToken(s, t) \in Stores
         /\ Keeps(BlacklistToken(s, t), D \cup ({t} \ (dead \cup {NoToken})))
<1>1. NoToken \notin Tokens /\ Tokens \subseteq Keys
  BY StoreAssumption DEF Keys
<1>2. CASE t \in Tokens \ dead
  <2>1. Set(s, t) \in Stores /\ Keeps(Set(s, t), D \cup {t})
    BY <1>1, <1>2, SetKeeps
  <2>2. D \cup ({t} \ (dead \cup {NoToken})) = D \cup {t}
    BY <1>1, <1>2
  <2> QED BY <1>2, <2>1, <2>2 DEF BlacklistToken
<1>3. CASE t \notin Tokens \ dead
  <2>1. D \cup ({t} \ (dead \cup {NoToken})) = D
    BY <1>3
  <2> QED BY <1>3, <2>1 DEF BlacklistToken
<1> QED BY <1>2, <1>3

(* So do the two calls of a logout (auth.service.ts:98-102).               *)
LEMMA BlacklistKeeps ==
  ASSUME NEW s \in Stores, NEW D \in SUBSET Keys, Keeps(s, D),
         NEW t \in Tokens \cup {NoToken}, NEW rt \in Tokens \cup {NoToken}
  PROVE  /\ Blacklist(s, t, rt) \in Stores
         /\ Keeps(Blacklist(s, t, rt), D \cup ({t, rt} \ (dead \cup {NoToken})))
<1> DEFINE first == BlacklistToken(s, t)
           mid   == D \cup ({t} \ (dead \cup {NoToken}))
<1>1. first \in Stores /\ Keeps(first, mid)
  BY BlacklistTokenKeeps
<1>2. mid \in SUBSET Keys
  BY DEF Keys
<1> HIDE DEF first
<1>3. /\ BlacklistToken(first, rt) \in Stores
      /\ Keeps(BlacklistToken(first, rt), mid \cup ({rt} \ (dead \cup {NoToken})))
  BY <1>1, <1>2, BlacklistTokenKeeps
<1>4. D \cup ({t, rt} \ (dead \cup {NoToken})) = mid \cup ({rt} \ (dead \cup {NoToken}))
  OBVIOUS
<1>5. Blacklist(s, t, rt) = BlacklistToken(first, rt)
  BY DEF Blacklist, first
<1> QED BY <1>3, <1>4, <1>5

-----------------------------------------------------------------------------
(* A request that waits for its lookup carries the token to look up.       *)
Presents(q) == q.pc = "lookup" => q.tok \in Access

TokenPresented == \A r \in Slots : Presents(req[r])

(* The type invariant, the tokens and the promise are inductive together.  *)
IndInv == TypeOK /\ TokenPresented /\ RevokedUntilCrowdedOut

(* They hold of a process that has just started.                           *)
LEMMA InitIndInv == Init => IndInv
<1> SUFFICES ASSUME Init PROVE IndInv
  OBVIOUS
<1>1. Empty \in Stores
  BY DEF Empty, Stores
<1>2. Idle \in Requests /\ Presents(Idle)
  BY DEF Idle, Requests, Presents
<1> QED
  BY <1>1, <1>2 DEF Init, IndInv, TypeOK, TokenPresented, RevokedUntilCrowdedOut, Keeps

(* A step of one request leaves the others as they are.                    *)
LEMMA SlotStep ==
  ASSUME req \in [Slots -> Requests], TokenPresented, NEW r \in Slots,
         NEW q \in Requests, Presents(q), req' = [req EXCEPT ![r] = q]
  PROVE  req' \in [Slots -> Requests] /\ TokenPresented'
<1>1. \A x \in Slots : req'[x] = IF x = r THEN q ELSE req[x]
  OBVIOUS
<1>2. req' \in [Slots -> Requests]
  OBVIOUS
<1>3. \A x \in Slots : Presents(req'[x])
  BY <1>1 DEF TokenPresented
<1> QED BY <1>2, <1>3 DEF TokenPresented, Presents

(* A request is answered.                                                  *)
LEMMA AnswerType ==
  ASSUME req \in [Slots -> Requests], TokenPresented, NEW r \in Slots, Answer(r)
  PROVE  req' \in [Slots -> Requests] /\ TokenPresented'
<1>1. Idle \in Requests /\ Presents(Idle)
  BY DEF Idle, Requests, Presents
<1> QED BY <1>1, SlotStep DEF Answer

(* Every step keeps them.                                                  *)
LEMMA NextIndInv == IndInv /\ [Next]_vars => IndInv'
<1> SUFFICES ASSUME IndInv, [Next]_vars PROVE IndInv'
  OBVIOUS
<1> USE DEF IndInv
<1>0. /\ store \in Stores /\ down \subseteq Tokens /\ down \in SUBSET Keys
      /\ dead \subseteq Tokens /\ req \in [Slots -> Requests]
      /\ TokenPresented /\ Keeps(store, down)
  BY DEF TypeOK, RevokedUntilCrowdedOut, Keys
<1> SUFFICES /\ store' \in Stores /\ down' \subseteq Tokens
             /\ dead' \subseteq Tokens /\ req' \in [Slots -> Requests]
             /\ TokenPresented' /\ Keeps(store', down')
  BY DEF TypeOK, RevokedUntilCrowdedOut, Keeps
<1>1. ASSUME NEW t \in Tokens, RunOut(t)
      PROVE  /\ store' = store /\ down' = down /\ req' = req
             /\ dead' \subseteq Tokens
  BY <1>0, <1>1 DEF RunOut
<1>2. CASE Restart
  <2>1. Empty \in Stores /\ Idle \in Requests /\ Presents(Idle)
    BY DEF Empty, Stores, Idle, Requests, Presents
  <2>2. TokenPresented'
    BY <1>2, <2>1 DEF Restart, TokenPresented, Presents
  <2> QED BY <1>0, <1>2, <2>1, <2>2 DEF Restart, Keeps
<1>3. ASSUME NEW r \in Slots, NEW route \in {"get-user", "logout"}, NEW t \in Access,
             NEW scheme, NEW rt \in Tokens \cup {NoToken}, CanActivate(r, route, t, scheme, rt)
      PROVE  /\ store' = store /\ down' = down /\ dead' = dead
             /\ req' \in [Slots -> Requests] /\ TokenPresented'
  <2> DEFINE token == ExtractTokenFromHeader(scheme, t)
             q     == [pc |-> IF token = NoToken THEN "handler" ELSE "lookup",
                       route |-> route, tok |-> token, rtok |-> rt]
  <2>1. q \in Requests /\ Presents(q)
    BY DEF Requests, Presents, ExtractTokenFromHeader
  <2> QED BY <1>0, <1>3, <2>1, SlotStep DEF CanActivate
<1>4. ASSUME NEW r \in Slots, LetIn(r)
      PROVE  /\ store' = store /\ down' = down /\ dead' = dead
             /\ req' \in [Slots -> Requests] /\ TokenPresented'
  <2> DEFINE q == [req[r] EXCEPT !.pc = "handler"]
  <2>1. q \in Requests /\ Presents(q)
    BY <1>0, <1>4 DEF LetIn, Requests, TokenPresented, Presents
  <2>2. req' = [req EXCEPT ![r] = q]
    BY <1>4 DEF LetIn
  <2>3. req' \in [Slots -> Requests] /\ TokenPresented'
    BY <1>0, <2>1, <2>2, SlotStep
  <2> QED BY <1>4, <2>3 DEF LetIn
<1>5. ASSUME NEW r \in Slots, GetUser(r)
      PROVE  /\ store' = store /\ down' = down /\ dead' = dead
             /\ req' \in [Slots -> Requests] /\ TokenPresented'
  BY <1>0, <1>5, AnswerType DEF GetUser
<1>6. ASSUME NEW r \in Slots, Refuse(r)
      PROVE  /\ store' \in Stores /\ Keeps(store', down') /\ down' = down
             /\ dead' = dead /\ req' \in [Slots -> Requests] /\ TokenPresented'
  <2>1. req[r].tok \in Keys
    BY <1>0, <1>6 DEF Refuse, TokenPresented, Presents, Keys, Tokens
  <2> QED BY <1>0, <1>6, <2>1, GetKeeps, AnswerType DEF Refuse
<1>7. ASSUME NEW r \in Slots, Logout(r)
      PROVE  /\ store' \in Stores /\ Keeps(store', down')
             /\ down' \subseteq Tokens
             /\ dead' = dead /\ req' \in [Slots -> Requests] /\ TokenPresented'
  <2>1. req[r].tok \in Tokens \cup {NoToken} /\ req[r].rtok \in Tokens \cup {NoToken}
    BY <1>0 DEF Requests, Tokens
  <2>2. store' \in Stores /\ Keeps(store', down')
    BY <1>0, <1>7, <2>1, BlacklistKeeps DEF Logout
  <2>3. down' \subseteq Tokens
    BY <1>0, <1>7, <2>1 DEF Logout
  <2> QED BY <1>0, <1>7, <2>2, <2>3, AnswerType DEF Logout
<1>8. ASSUME NEW r \in Slots, ProbeSet(r)
      PROVE  /\ store' \in Stores /\ Keeps(store', down') /\ down' = down
             /\ dead' = dead /\ req' \in [Slots -> Requests] /\ TokenPresented'
  <2> DEFINE q == [Idle EXCEPT !.pc = "get", !.route = "readiness"]
  <2>1. TestKey \in Keys
    BY DEF Keys
  <2>2. store' \in Stores /\ Keeps(store', down \cup {TestKey})
    BY <1>0, <1>8, <2>1, SetKeeps DEF ProbeSet
  <2>3. q \in Requests /\ Presents(q)
    BY DEF Idle, Requests, Presents
  <2>4. req' \in [Slots -> Requests] /\ TokenPresented'
    BY <1>0, <1>8, <2>3, SlotStep DEF ProbeSet
  <2> QED BY <1>0, <1>8, <2>2, <2>4 DEF ProbeSet, Keeps
<1>9. ASSUME NEW r \in Slots, ProbeGet(r)
      PROVE  /\ store' \in Stores /\ Keeps(store', down') /\ down' = down
             /\ dead' = dead /\ req' \in [Slots -> Requests] /\ TokenPresented'
  <2> DEFINE q == [req[r] EXCEPT !.pc = "del"]
  <2>1. TestKey \in Keys
    BY DEF Keys
  <2>2. q \in Requests /\ Presents(q)
    BY <1>0, <1>9 DEF Requests, Presents
  <2>3. req' = [req EXCEPT ![r] = q]
    BY <1>9 DEF ProbeGet
  <2>4. req' \in [Slots -> Requests] /\ TokenPresented'
    BY <1>0, <2>2, <2>3, SlotStep
  <2>5. store' \in Stores /\ Keeps(store', down)
    BY <1>0, <1>9, <2>1, GetKeeps DEF ProbeGet
  <2> QED BY <1>9, <2>4, <2>5 DEF ProbeGet
<1>10. ASSUME NEW r \in Slots, ProbeDel(r)
      PROVE  /\ store' \in Stores /\ Keeps(store', down') /\ down' = down
             /\ dead' = dead /\ req' \in [Slots -> Requests] /\ TokenPresented'
  BY <1>0, <1>10, DelKeeps, AnswerType DEF ProbeDel
<1>11. CASE UNCHANGED vars
  BY <1>0, <1>11 DEF vars, Keeps, TokenPresented, Presents
<1>12. ASSUME NEW t \in Tokens, RunOut(t)
      PROVE  TokenPresented' /\ Keeps(store', down')
  BY <1>0, <1>1, <1>12 DEF TokenPresented, Presents, Keeps
<1>13. store' = store /\ down' = down => Keeps(store', down')
  BY <1>0 DEF Keeps
<1> QED
  BY <1>0, <1>1, <1>2, <1>3, <1>4, <1>5, <1>6, <1>7, <1>8, <1>9, <1>10, <1>11,
     <1>12, <1>13 DEF Next, Serve

-----------------------------------------------------------------------------
(* The variables keep their types, for every store and every number of     *)
(* tokens and requests.                                                    *)
THEOREM MemoryTypeCorrect == Spec => []TypeOK
<1>1. IndInv => TypeOK
  BY DEF IndInv
<1> QED BY <1>1, InitIndInv, NextIndInv, PTL DEF Spec

(* A token taken down by this process stays on its blacklist until as many *)
(* other keys as the store has room for have been used since.              *)
THEOREM OnlyCrowdingForgets == Spec => []RevokedUntilCrowdedOut
<1>1. IndInv => RevokedUntilCrowdedOut
  BY DEF IndInv
<1> QED BY <1>1, InitIndInv, NextIndInv, PTL DEF Spec
=============================================================================
