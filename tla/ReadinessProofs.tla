--------------------------- MODULE ReadinessProofs ---------------------------
(***************************************************************************)
(* The readiness probe for every number of probes and every time to live   *)
(* of the key.                                                             *)
(***************************************************************************)
EXTENDS Readiness, TLAPS

(***************************************************************************)
(* What the record x of a probe says, while the key has k ticks left and   *)
(* Redis (u) and the database (d) are up or down.                          *)
(***************************************************************************)
Underway(x, k, u, d) ==
  /\ x.answer = "none"
  /\ x.pc = "done" <=> x.redis # "?"
  /\ x.redis = "up" \/ u = TRUE => x.sawRedis = TRUE
  /\ x.db = "up" \/ d = TRUE => x.sawDb = TRUE
  /\ x.calm = TRUE => u = TRUE /\ d = TRUE /\ x.db # "down"
  /\ x.calm = TRUE /\ x.alone = TRUE =>
       /\ x.pc = "get" => k > 0
       /\ x.pc = "del" => x.value = TRUE
       /\ x.redis # "down"

Answered(x) ==
  /\ x.calm = TRUE /\ x.alone = TRUE => x.answer # "notReady"
  /\ x.answer = "ready" => x.sawRedis = TRUE /\ x.sawDb = TRUE

Sound(x, k, u, d) ==
  /\ x \in ProbeRecords
  /\ x.pc # "idle" => Underway(x, k, u, d)
  /\ Answered(x)

(* A probe that is alone is the only one.                                  *)
Alone(x, y) == x.pc # "idle" /\ y.pc # "idle" => x.alone = FALSE

IndInv ==
  /\ TypeOK
  /\ \A p \in Probes : Sound(probe[p], key, up, dbUp)
  /\ \A p, q \in Probes : p # q => Alone(probe[p], probe[q])

-----------------------------------------------------------------------------
(* Nobody probes at first.                                                 *)
LEMMA InitIndInv == Init => IndInv
<1> SUFFICES ASSUME Init PROVE IndInv
  OBVIOUS
<1>1. TypeOK
  BY ProbeAssumption DEF Init, TypeOK, ProbeRecords, Verdicts
<1>2. ASSUME NEW p \in Probes
      PROVE  Sound(probe[p], key, up, dbUp) /\ probe[p].pc = "idle"
  BY DEF Init, Sound, Answered, ProbeRecords, Verdicts
<1> QED BY <1>1, <1>2 DEF IndInv, Alone

(* A step of one probe.  Another that is under way is not alone, so that   *)
(* it may do to the key what it likes.                                     *)
LEMMA ProbeStep ==
  ASSUME IndInv, NEW p \in Probes, NEW x, probe' = [probe EXCEPT ![p] = x],
         probe[p].pc # "idle", x.alone = probe[p].alone,
         UNCHANGED <<up, dbUp>>, key' \in 0..KeyTTL,
         Sound(x, key', up, dbUp)
  PROVE  IndInv'
<1>1. /\ probe' \in [Probes -> ProbeRecords]
      /\ probe'[p] = x /\ \A q \in Probes \ {p} : probe'[q] = probe[q]
  BY DEF IndInv, TypeOK, Sound
<1>5. TypeOK'
  BY <1>1 DEF IndInv, TypeOK
<1>2. ASSUME NEW q \in Probes \ {p}
      PROVE  /\ Sound(probe[q], key', up, dbUp)
             /\ Alone(x, probe[q]) /\ Alone(probe[q], x)
  <2>1. Alone(probe[p], probe[q]) /\ Alone(probe[q], probe[p]) /\ Sound(probe[q], key, up, dbUp)
    BY DEF IndInv
  <2> QED BY <2>1 DEF Alone, Sound, Underway
<1>3. \A q \in Probes : Sound(probe'[q], key', up', dbUp')
  BY <1>1, <1>2
<1>4. \A q, s \in Probes : q # s => Alone(probe'[q], probe'[s])
  BY <1>1, <1>2 DEF IndInv
<1> QED BY <1>5, <1>3, <1>4 DEF IndInv

(* The steps of a probe that is under way.                                 *)
LEMMA StepIndInv ==
  ASSUME IndInv, NEW p \in Probes, Step(p)
  PROVE  IndInv'
<1> DEFINE w == probe[p]
<1>1. /\ w \in ProbeRecords /\ Answered(w)
      /\ w.pc # "idle" => Underway(w, key, up, dbUp)
      /\ key \in 0..KeyTTL /\ KeyTTL \in 0..KeyTTL /\ 0 \in 0..KeyTTL
      /\ KeyTTL > 0 /\ up \in BOOLEAN /\ dbUp \in BOOLEAN
  BY ProbeAssumption DEF IndInv, TypeOK, Sound
<1>2. w.pc # "idle"
  BY DEF Step, PingCheck, SetKey, GetKey, DelKey, CallFails, Answer, Running
<1>3. CASE PingCheck(p)
  <2> DEFINE x == [w EXCEPT !.db = IF dbUp THEN "up" ELSE "down"]
  <2>1. probe' = [probe EXCEPT ![p] = x] /\ UNCHANGED <<key, up, dbUp>>
    BY <1>3 DEF PingCheck
  <2>2. x \in ProbeRecords /\ x.alone = w.alone
    BY <1>1 DEF ProbeRecords, Verdicts
  <2>3. Underway(x, key, up, dbUp) /\ Answered(x)
    BY <1>1, <1>2 DEF ProbeRecords, Underway, Answered
  <2> HIDE DEF x
  <2>4. Sound(x, key', up, dbUp)
    BY <2>1, <2>2, <2>3 DEF Sound
  <2> QED BY <1>1, <1>2, <2>1, <2>2, <2>4, ProbeStep
<1>4. CASE SetKey(p)
  <2> DEFINE x == [w EXCEPT !.pc = "get"]
  <2>1. probe' = [probe EXCEPT ![p] = x] /\ key' = KeyTTL /\ UNCHANGED <<up, dbUp>>
        /\ w.pc = "set"
    BY <1>4 DEF SetKey
  <2>2. x \in ProbeRecords /\ x.alone = w.alone
    BY <1>1 DEF ProbeRecords
  <2>3. Underway(x, KeyTTL, up, dbUp) /\ Answered(x)
    BY <1>1, <1>2, <2>1 DEF ProbeRecords, Underway, Answered
  <2> HIDE DEF x
  <2>4. Sound(x, key', up, dbUp)
    BY <2>1, <2>2, <2>3 DEF Sound
  <2> QED BY <1>1, <1>2, <2>1, <2>2, <2>4, ProbeStep
<1>5. CASE GetKey(p)
  <2> DEFINE x == [w EXCEPT !.pc = "del", !.value = key > 0]
  <2>1. probe' = [probe EXCEPT ![p] = x] /\ UNCHANGED <<key, up, dbUp>> /\ w.pc = "get"
    BY <1>5 DEF GetKey
  <2>2. x \in ProbeRecords /\ x.alone = w.alone
    <3>1. (key > 0) \in BOOLEAN
      OBVIOUS
    <3> QED BY <1>1, <3>1 DEF ProbeRecords
  <2>3. Underway(x, key, up, dbUp) /\ Answered(x)
    BY <1>1, <1>2, <2>1 DEF ProbeRecords, Underway, Answered
  <2> HIDE DEF x
  <2>4. Sound(x, key', up, dbUp)
    BY <2>1, <2>2, <2>3 DEF Sound
  <2> QED BY <1>1, <1>2, <2>1, <2>2, <2>4, ProbeStep
<1>6. CASE DelKey(p)
  <2> DEFINE x == [w EXCEPT !.pc = "done", !.redis = IF w.value THEN "up" ELSE "down"]
  <2>1. probe' = [probe EXCEPT ![p] = x] /\ key' = 0 /\ UNCHANGED <<up, dbUp>>
        /\ w.pc = "del" /\ up = TRUE
    BY <1>1, <1>6 DEF DelKey
  <2>2. x \in ProbeRecords /\ x.alone = w.alone
    BY <1>1 DEF ProbeRecords, Verdicts
  <2>3. Underway(x, 0, up, dbUp) /\ Answered(x)
    BY <1>1, <1>2, <2>1 DEF ProbeRecords, Underway, Answered
  <2> HIDE DEF x
  <2>4. Sound(x, key', up, dbUp)
    BY <2>1, <2>2, <2>3 DEF Sound
  <2> QED BY <1>1, <1>2, <2>1, <2>2, <2>4, ProbeStep
<1>7. CASE CallFails(p)
  <2> DEFINE x == [w EXCEPT !.pc = "done", !.redis = "down"]
  <2>1. probe' = [probe EXCEPT ![p] = x] /\ UNCHANGED <<key, up, dbUp>> /\ up = FALSE
    BY <1>1, <1>7 DEF CallFails
  <2>2. x \in ProbeRecords /\ x.alone = w.alone
    BY <1>1 DEF ProbeRecords, Verdicts
  <2>3. Underway(x, key, up, dbUp) /\ Answered(x)
    BY <1>1, <1>2, <2>1 DEF ProbeRecords, Underway, Answered
  <2> HIDE DEF x
  <2>4. Sound(x, key', up, dbUp)
    BY <2>1, <2>2, <2>3 DEF Sound
  <2> QED BY <1>1, <1>2, <2>1, <2>2, <2>4, ProbeStep
<1>8. CASE Answer(p)
  <2> DEFINE x == [w EXCEPT !.pc = "idle",
                     !.answer = IF w.db = "up" /\ w.redis = "up" THEN "ready" ELSE "notReady"]
  <2>1. probe' = [probe EXCEPT ![p] = x] /\ UNCHANGED <<key, up, dbUp>>
        /\ w.pc = "done" /\ w.db # "?"
    BY <1>8 DEF Answer
  <2>2. x \in ProbeRecords /\ x.alone = w.alone /\ x.pc = "idle"
    BY <1>1 DEF ProbeRecords
  <2>3. Answered(x)
    BY <1>1, <1>2, <2>1 DEF ProbeRecords, Verdicts, Underway, Answered
  <2> HIDE DEF x
  <2>4. Sound(x, key', up, dbUp)
    BY <2>1, <2>2, <2>3 DEF Sound
  <2> QED BY <1>1, <1>2, <2>1, <2>2, <2>4, ProbeStep
<1> QED BY <1>3, <1>4, <1>5, <1>6, <1>7, <1>8 DEF Step

(* A new probe takes from the others that they are alone.                  *)
LEMMA CheckIndInv ==
  ASSUME IndInv, NEW p \in Probes, CheckReadiness(p)
  PROVE  IndInv'
<1> DEFINE alone == \A q \in Probes : ~Running(q)
           x == [pc |-> "set", value |-> FALSE, redis |-> "?", db |-> "?",
                 answer |-> "none", calm |-> up /\ dbUp, alone |-> alone,
                 sawRedis |-> up, sawDb |-> dbUp]
           y(q) == [probe[q] EXCEPT !.alone = @ /\ ~Running(q)]
<1>1. /\ probe' = [q \in Probes |-> IF q = p THEN x ELSE y(q)]
      /\ UNCHANGED <<key, up, dbUp>>
  BY DEF CheckReadiness
<1>2. up \in BOOLEAN /\ dbUp \in BOOLEAN /\ alone \in BOOLEAN
  BY DEF IndInv, TypeOK
<1>3. Sound(x, key, up, dbUp) /\ x.alone = alone /\ x.pc = "set"
  BY <1>2 DEF Sound, Underway, Answered, ProbeRecords, Verdicts
<1>4. ASSUME NEW q \in Probes \ {p}
      PROVE  /\ Sound(y(q), key, up, dbUp)
             /\ y(q).pc = probe[q].pc
             /\ y(q).pc # "idle" => y(q).alone = FALSE /\ x.alone = FALSE
  <2>1. probe[q] \in ProbeRecords /\ Sound(probe[q], key, up, dbUp)
    BY DEF IndInv, Sound
  <2>0. (~Running(q)) \in BOOLEAN
    BY DEF Running
  <2>2. /\ y(q) \in ProbeRecords
        /\ y(q).pc = probe[q].pc
        /\ y(q).alone = TRUE => probe[q].alone = TRUE
        /\ y(q).pc # "idle" => y(q).alone = FALSE
    BY <2>0, <2>1 DEF ProbeRecords, Running
  <2>3. /\ y(q).value = probe[q].value /\ y(q).redis = probe[q].redis
        /\ y(q).db = probe[q].db /\ y(q).answer = probe[q].answer
        /\ y(q).calm = probe[q].calm
        /\ y(q).sawRedis = probe[q].sawRedis /\ y(q).sawDb = probe[q].sawDb
    BY <2>1 DEF ProbeRecords
  <2>4. y(q).pc # "idle" => x.alone = FALSE
    BY <1>3, <2>2 DEF Running
  <2> HIDE DEF x, y
  <2> QED BY <2>1, <2>2, <2>3, <2>4 DEF Sound, Underway, Answered
<1> HIDE DEF x, y
<1>6. probe'[p] = x /\ \A q \in Probes \ {p} : probe'[q] = y(q)
  BY <1>1
<1>5. probe' \in [Probes -> ProbeRecords]
  BY <1>1, <1>3, <1>4 DEF Sound
<1>7. \A q \in Probes : Sound(probe'[q], key', up', dbUp')
  BY <1>1, <1>3, <1>4, <1>6
<1>8. ASSUME NEW q \in Probes, NEW s \in Probes, q # s
      PROVE  Alone(probe'[q], probe'[s])
  <2>1. CASE q = p
    <3>1. probe'[q] = x /\ probe'[s] = y(s) /\ s \in Probes \ {p}
      BY <1>6, <1>8, <2>1
    <3> QED BY <1>4, <3>1 DEF Alone
  <2>2. CASE q # p
    <3>1. probe'[q] = y(q) /\ q \in Probes \ {p}
      BY <1>6, <2>2
    <3> QED BY <1>4, <3>1 DEF Alone
  <2> QED BY <2>1, <2>2
<1> QED BY <1>1, <1>5, <1>7, <1>8 DEF IndInv, TypeOK

(* Redis or the database goes down or comes back.                          *)
LEMMA ChangeIndInv ==
  ASSUME IndInv, NEW u \in BOOLEAN, NEW d \in BOOLEAN,
         up' = u, dbUp' = d, key' = key, probe' = Seen(u, d)
  PROVE  IndInv'
<1> DEFINE y(q) == [probe[q] EXCEPT !.calm = @ /\ u /\ d,
                                    !.sawRedis = @ \/ u, !.sawDb = @ \/ d]
<1>1. probe' = [q \in Probes |-> IF probe[q].pc # "idle" THEN y(q) ELSE probe[q]]
  BY DEF Seen, Running
<1>2. ASSUME NEW q \in Probes
      PROVE  /\ Sound(probe'[q], key, u, d)
             /\ probe'[q].pc = probe[q].pc /\ probe'[q].alone = probe[q].alone
  <2>1. probe[q] \in ProbeRecords /\ Sound(probe[q], key, up, dbUp)
    BY DEF IndInv, Sound
  <2>2. CASE probe[q].pc = "idle"
    <3>1. probe'[q] = probe[q]
      BY <1>1, <2>2
    <3> QED BY <2>1, <2>2, <3>1 DEF Sound
  <2>3. CASE probe[q].pc # "idle"
    <3>1. probe'[q] = y(q)
      BY <1>1, <2>3
    <3>2. /\ y(q) \in ProbeRecords
          /\ y(q).pc = probe[q].pc /\ y(q).alone = probe[q].alone
          /\ y(q).value = probe[q].value /\ y(q).redis = probe[q].redis
          /\ y(q).db = probe[q].db /\ y(q).answer = probe[q].answer
      BY <2>1 DEF ProbeRecords
    <3>3. /\ y(q).calm = TRUE => probe[q].calm = TRUE /\ u = TRUE /\ d = TRUE
          /\ probe[q].sawRedis = TRUE \/ u = TRUE => y(q).sawRedis = TRUE
          /\ probe[q].sawDb = TRUE \/ d = TRUE => y(q).sawDb = TRUE
      BY <2>1 DEF ProbeRecords
    <3> HIDE DEF y
    <3> QED BY <2>1, <2>3, <3>1, <3>2, <3>3 DEF Sound, Underway, Answered
  <2> QED BY <2>2, <2>3
<1>3. probe' \in [Probes -> ProbeRecords]
  BY <1>1, <1>2 DEF Sound
<1>4. \A q, s \in Probes : q # s => Alone(probe'[q], probe'[s])
  BY <1>2 DEF IndInv, Alone
<1> QED BY <1>2, <1>3, <1>4 DEF IndInv, TypeOK

(* A tick of the key.                                                      *)
LEMMA TickIndInv ==
  ASSUME IndInv, Tick
  PROVE  IndInv'
<1> DEFINE y(q) == [probe[q] EXCEPT !.calm = @ /\ ~(key' = 0 /\ probe[q].pc = "get")]
<1>1. /\ probe' = [q \in Probes |-> y(q)] /\ UNCHANGED <<up, dbUp>>
      /\ key \in 0..KeyTTL /\ KeyTTL \in Nat /\ key > 0 /\ key' = key - 1
  BY ProbeAssumption DEF Tick, IndInv, TypeOK
<1>2. ASSUME NEW q \in Probes
      PROVE  /\ Sound(probe'[q], key', up, dbUp)
             /\ probe'[q].pc = probe[q].pc /\ probe'[q].alone = probe[q].alone
  <2>1. probe[q] \in ProbeRecords /\ Sound(probe[q], key, up, dbUp)
    BY DEF IndInv, Sound
  <2>2. probe'[q] = y(q)
    BY <1>1
  <2>3. /\ y(q) \in ProbeRecords
        /\ y(q).pc = probe[q].pc /\ y(q).alone = probe[q].alone
        /\ y(q).value = probe[q].value /\ y(q).redis = probe[q].redis
        /\ y(q).db = probe[q].db /\ y(q).answer = probe[q].answer
        /\ y(q).sawRedis = probe[q].sawRedis /\ y(q).sawDb = probe[q].sawDb
    BY <2>1 DEF ProbeRecords
  <2>4. /\ y(q).calm = TRUE => probe[q].calm = TRUE
        /\ y(q).calm = TRUE /\ y(q).pc = "get" => key' # 0
    BY <2>1 DEF ProbeRecords
  <2>5. key' # 0 => key' > 0
    BY <1>1
  <2> HIDE DEF y
  <2> QED BY <2>1, <2>2, <2>3, <2>4, <2>5 DEF Sound, Underway, Answered
<1>3. probe' \in [Probes -> ProbeRecords]
  BY <1>1, <1>2 DEF Sound
<1>4. \A q, s \in Probes : q # s => Alone(probe'[q], probe'[s])
  BY <1>2 DEF IndInv, Alone
<1>5. key' \in 0..KeyTTL
  BY <1>1
<1> QED BY <1>1, <1>2, <1>3, <1>4, <1>5 DEF IndInv, TypeOK

(* Every step keeps the invariant.                                         *)
LEMMA NextIndInv == IndInv /\ [Next]_vars => IndInv'
<1> SUFFICES ASSUME IndInv, [Next]_vars PROVE IndInv'
  OBVIOUS
<1>1. CASE UNCHANGED vars
  BY <1>1 DEF vars, IndInv, TypeOK
<1>2. CASE RedisChanges
  BY <1>2, ChangeIndInv DEF RedisChanges, IndInv, TypeOK
<1>3. CASE DatabaseChanges
  BY <1>3, ChangeIndInv DEF DatabaseChanges, IndInv, TypeOK
<1> QED BY <1>1, <1>2, <1>3, TickIndInv, CheckIndInv, StepIndInv DEF Next

-----------------------------------------------------------------------------
(* The invariant that the theorems rest on.                                *)
LEMMA IndInvHolds == Spec => []IndInv
BY InitIndInv, NextIndInv, PTL DEF Spec

(* The variables keep their types, for every number of probes.             *)
THEOREM ReadinessTypeCorrect == Spec => []TypeOK
<1>1. IndInv => TypeOK
  BY DEF IndInv
<1> QED BY <1>1, IndInvHolds, PTL

(* A probe that met nothing wrong and no other probe answers ready         *)
(* (health.controller.ts:53-54).                                           *)
THEOREM LoneProbesAreReady == Spec => []LoneProbeIsReady
<1>1. IndInv => LoneProbeIsReady
  BY DEF IndInv, LoneProbeIsReady, Sound, Answered, ProbeRecords
<1> QED BY <1>1, IndInvHolds, PTL

(* Ready is never answered for a dependency that was down all the while    *)
(* (health.controller.ts:57-60).                                           *)
THEOREM ReadyIsTrue == Spec => []ReadyWasReachable
<1>1. IndInv => ReadyWasReachable
  BY DEF IndInv, ReadyWasReachable, Sound, Answered, ProbeRecords
<1> QED BY <1>1, IndInvHolds, PTL
=============================================================================
