------------------------------ MODULE Readiness ------------------------------
(***************************************************************************)
(* The readiness probe: GET /health/readiness pings the database and, at   *)
(* the same time, writes, reads and deletes one key in Redis.              *)
(*                                                                         *)
(*   src/src/modules/health/health.controller.ts                           *)
(*   src/src/modules/health/indicators/redis.health-indicator.ts           *)
(*                                                                         *)
(* The key has a fixed name, so the probes of one process that overlap,    *)
(* and those of every process on the same Redis, share it.                 *)
(***************************************************************************)
EXTENDS Naturals

CONSTANTS
  Probes,  \* probes that may be under way, over all processes
  KeyTTL   \* time to live of the test key, in ticks

ASSUME ProbeAssumption == Probes # {} /\ KeyTTL \in Nat \ {0}

VARIABLES
  key,    \* __health_check__: ticks that it has left, 0 when it is not there
  up,     \* Redis answers
  dbUp,   \* the database answers
  probe   \* what each probe is doing and what it answered last

vars == <<key, up, dbUp, probe>>

(***************************************************************************)
(*   pc      next call of isHealthy; "done" when it has settled            *)
(*   value   the get found the key                                         *)
(*   redis, db   what the two indicators reported, "?" until they do       *)
(*   answer  of the last finished probe: "ready" is 200                    *)
(*   calm    history: both dependencies up, the key not run out, so far    *)
(*   alone   history: no other probe overlapped this one, so far           *)
(*   sawRedis, sawDb  history: the dependency was up at some moment        *)
(***************************************************************************)
Verdicts == {"?", "up", "down"}

ProbeRecords ==
  [pc : {"idle", "set", "get", "del", "done"}, value : BOOLEAN,
   redis : Verdicts, db : Verdicts, answer : {"none", "ready", "notReady"},
   calm : BOOLEAN, alone : BOOLEAN, sawRedis : BOOLEAN, sawDb : BOOLEAN]

Running(p) == probe[p].pc # "idle"

Init ==
  /\ key = 0
  /\ up = TRUE
  /\ dbUp = TRUE
  /\ probe = [p \in Probes |->
                [pc |-> "idle", value |-> FALSE, redis |-> "?", db |-> "?",
                 answer |-> "none", calm |-> FALSE, alone |-> FALSE,
                 sawRedis |-> FALSE, sawDb |-> FALSE]]

(* The request arrives: both indicators are started.                       *)
CheckReadiness(p) ==
  LET alone == \A q \in Probes : ~Running(q)
  IN  /\ ~Running(p)
      /\ probe' = [q \in Probes |->
           IF q = p
           THEN [pc |-> "set", value |-> FALSE, redis |-> "?", db |-> "?",
                 answer |-> "none", calm |-> up /\ dbUp, alone |-> alone,
                 sawRedis |-> up, sawDb |-> dbUp]
           ELSE [probe[q] EXCEPT !.alone = @ /\ ~Running(q)]]
      /\ UNCHANGED <<key, up, dbUp>>

PingCheck(p) ==
  /\ Running(p)
  /\ probe[p].db = "?"
  /\ probe' = [probe EXCEPT ![p].db = IF dbUp THEN "up" ELSE "down"]
  /\ UNCHANGED <<key, up, dbUp>>

(* Mutant: a time to live of zero, and Redis keeps nothing.                *)
SetKeyTtlZero(p) ==
  /\ up
  /\ probe[p].pc = "set"
  /\ key' = 0
  /\ probe' = [probe EXCEPT ![p].pc = "get"]
  /\ UNCHANGED <<up, dbUp>>

(* Mutant: the five seconds passed as milliseconds.                        *)
SetKeyMs(p) ==
  /\ up
  /\ probe[p].pc = "set"
  /\ key' = 1000 * KeyTTL
  /\ probe' = [probe EXCEPT ![p].pc = "get"]
  /\ UNCHANGED <<up, dbUp>>

SetKey(p) ==
  /\ up
  /\ probe[p].pc = "set"
  /\ key' = KeyTTL
  /\ probe' = [probe EXCEPT ![p].pc = "get"]
  /\ UNCHANGED <<up, dbUp>>

GetKey(p) ==
  /\ up
  /\ probe[p].pc = "get"
  /\ probe' = [probe EXCEPT ![p].pc = "del", ![p].value = key > 0]
  /\ UNCHANGED <<key, up, dbUp>>

(* The value is compared after the delete has come back.                   *)
DelKey(p) ==
  /\ up
  /\ probe[p].pc = "del"
  /\ key' = 0
  /\ probe' = [probe EXCEPT ![p].pc = "done",
                            ![p].redis = IF probe[p].value THEN "up" ELSE "down"]
  /\ UNCHANGED <<up, dbUp>>

(* Mutant: the catch block reports the error and calls Redis healthy.      *)
CallFailsSwallowed(p) ==
  /\ ~up
  /\ probe[p].pc \in {"set", "get", "del"}
  /\ probe' = [probe EXCEPT ![p].pc = "done", ![p].redis = "up"]
  /\ UNCHANGED <<key, up, dbUp>>

(* A call raises: the rest is skipped, the key may be left behind.         *)
CallFails(p) ==
  /\ ~up
  /\ probe[p].pc \in {"set", "get", "del"}
  /\ probe' = [probe EXCEPT ![p].pc = "done", ![p].redis = "down"]
  /\ UNCHANGED <<key, up, dbUp>>

(* Mutant: waits for the two indicators to be healthy.                     *)
AnswerWhenBothUp(p) ==
  /\ probe[p].pc = "done"
  /\ probe[p].db = "up"
  /\ probe[p].redis = "up"
  /\ probe' = [probe EXCEPT ![p].pc = "idle", ![p].answer = "ready"]
  /\ UNCHANGED <<key, up, dbUp>>

(* Both indicators have settled: an error of either makes it not ready.    *)
Answer(p) ==
  /\ probe[p].pc = "done"
  /\ probe[p].db # "?"
  /\ probe' = [probe EXCEPT ![p].pc = "idle",
                 ![p].answer = IF probe[p].db = "up" /\ probe[p].redis = "up"
                               THEN "ready" ELSE "notReady"]
  /\ UNCHANGED <<key, up, dbUp>>

-----------------------------------------------------------------------------
(* The dependencies. *)

Seen(isUp, isDbUp) ==
  [p \in Probes |->
     IF Running(p)
     THEN [probe[p] EXCEPT !.calm = @ /\ isUp /\ isDbUp,
                           !.sawRedis = @ \/ isUp, !.sawDb = @ \/ isDbUp]
     ELSE probe[p]]

RedisChanges ==
  /\ up' = ~up
  /\ probe' = Seen(up', dbUp)
  /\ UNCHANGED <<key, dbUp>>

DatabaseChanges ==
  /\ dbUp' = ~dbUp
  /\ probe' = Seen(up, dbUp')
  /\ UNCHANGED <<key, up>>

(* A tick of the key's time to live.  A probe whose key runs out before it *)
(* is read back was too slow.                                              *)
Tick ==
  /\ key > 0
  /\ key' = key - 1
  /\ probe' = [p \in Probes |->
       [probe[p] EXCEPT !.calm = @ /\ ~(key' = 0 /\ probe[p].pc = "get")]]
  /\ UNCHANGED <<up, dbUp>>

Step(p) ==
  \/ PingCheck(p)
  \/ SetKey(p)
  \/ GetKey(p)
  \/ DelKey(p)
  \/ CallFails(p)
  \/ Answer(p)

Next ==
  \/ \E p \in Probes : CheckReadiness(p) \/ Step(p)
  \/ RedisChanges
  \/ DatabaseChanges
  \/ Tick

Spec == Init /\ [][Next]_vars

(* The event loop runs every continuation of a probe: a call to Redis      *)
(* either comes back or raises.                                            *)
FairSpec == Spec /\ \A p \in Probes : WF_vars(Step(p))

-----------------------------------------------------------------------------
TypeOK ==
  /\ key \in 0..KeyTTL
  /\ up \in BOOLEAN
  /\ dbUp \in BOOLEAN
  /\ probe \in [Probes -> ProbeRecords]

(* A probe that met nothing wrong and no other probe answers ready         *)
(* (health.controller.ts:53-54).                                           *)
LoneProbeIsReady ==
  \A p \in Probes :
    probe[p].calm /\ probe[p].alone => probe[p].answer # "notReady"

(* Ready is never answered for a dependency that was down from the arrival *)
(* of the probe to its answer (health.controller.ts:57-60).                *)
ReadyWasReachable ==
  \A p \in Probes :
    probe[p].answer = "ready" => probe[p].sawRedis /\ probe[p].sawDb

(* Not ready means that a dependency was down or too slow                  *)
(* (health.controller.ts:53-60).  It fails: of two probes that overlap one *)
(* deletes the key between the write and the read of the other.            *)
NotReadyHasCause ==
  \A p \in Probes : probe[p].answer = "notReady" => ~probe[p].calm

(* Every probe is answered, whatever the dependencies do.                  *)
EveryProbeAnswered ==
  \A p \in Probes : Running(p) ~> ~Running(p)
=============================================================================
