--------------------------- MODULE SessionPromise ---------------------------
(***************************************************************************)
(* What login and logout promise to a client, without Redis, clocks or     *)
(* requests in steps: a token is issued, taken down or left to run out,    *)
(* for good each time, and a request on a protected route whose token is   *)
(* looked up is never let in with one that is down at that moment.         *)
(***************************************************************************)
CONSTANTS
  Tokens,
  Slots,
  Nobody  \* not a token

VARIABLES
  phase,    \* token -> unissued, live, revoked or dead
  admitted  \* slot -> the token that its request was let in with

pvars == <<phase, admitted>>

PhaseStep(from, to) ==
  /\ phase' \in [Tokens -> {"unissued", "live", "revoked", "dead"}]
  /\ \A t \in Tokens :
       phase'[t] # phase[t] => phase[t] \in from /\ phase'[t] = to
  /\ UNCHANGED admitted

Issue  == PhaseStep({"unissued"}, "live")
Revoke == PhaseStep({"live"}, "revoked")
RunOut == PhaseStep({"live", "revoked"}, "dead")

(* The guard looks at a token twice, so one that ran out in between is     *)
(* still let in.                                                           *)
Admit(r, t) ==
  /\ admitted[r] = Nobody
  /\ phase[t] \in {"live", "dead"}
  /\ admitted' = [admitted EXCEPT ![r] = t]
  /\ UNCHANGED phase

(* A request is answered, or a crash ends several of them.                 *)
Release ==
  /\ admitted' \in [Slots -> Tokens \cup {Nobody}]
  /\ \A r \in Slots : admitted'[r] \in {admitted[r], Nobody}
  /\ UNCHANGED phase

PInit ==
  /\ phase = [t \in Tokens |-> "unissued"]
  /\ admitted = [r \in Slots |-> Nobody]

PNext ==
  \/ Issue
  \/ Revoke
  \/ RunOut
  \/ \E r \in Slots, t \in Tokens : Admit(r, t)
  \/ Release

PSpec == PInit /\ [][PNext]_pvars
=============================================================================
