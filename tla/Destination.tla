------------------------------ MODULE Destination ------------------------------
(***************************************************************************)
(* What a set of destination bindings promises, whatever becomes of the    *)
(* worker that serves them: the release in place changes only under the    *)
(* lock, once for a job, for jobs in the order they were handed out; and a *)
(* job that was neither finished nor undone leaves the destination locked, *)
(* as it is.                                                               *)
(***************************************************************************)
EXTENDS Naturals

CONSTANTS Targets, Releases, Jobs, None

ASSUME JobsAssumption == Jobs \subseteq Nat \ {0} /\ None \notin Jobs /\ None \notin Releases

VARIABLES
  live,    (* the release in place on each target                           *)
  holder,  (* the job that holds its lock                                   *)
  latest,  (* the last job taken up, 0 before the first                     *)
  phase    (* what is being done for it                                     *)

vars == <<live, holder, latest, phase>>

Init ==
  /\ live = [t \in Targets |-> None]
  /\ holder = [t \in Targets |-> None]
  /\ latest = [t \in Targets |-> 0]
  /\ phase = [t \in Targets |-> "rest"]

Moves(t, from, to) == phase[t] = from /\ phase' = [phase EXCEPT ![t] = to]

TakeUp(t) ==
  /\ Moves(t, "rest", "begun")
  /\ \E j \in Jobs : j > latest[t] /\ latest' = [latest EXCEPT ![t] = j]
  /\ UNCHANGED <<live, holder>>

(* Faulty forms of Hold: a foreign lock is taken over, or the lock is not  *)
(* marked with the job's token.                                            *)
HoldAnyway(t) ==
  /\ Moves(t, "begun", "held")
  /\ holder' = [holder EXCEPT ![t] = latest[t]]
  /\ UNCHANGED <<live, latest>>
HoldUnmarked(t) ==
  /\ Moves(t, "begun", "held")
  /\ UNCHANGED <<live, holder, latest>>
Hold(t) ==
  /\ Moves(t, "begun", "held")
  /\ holder[t] = None
  /\ holder' = [holder EXCEPT ![t] = latest[t]]
  /\ UNCHANGED <<live, latest>>

(* Faulty form of Switch: the release is replaced before the lock is held. *)
SwitchUnheld(t) ==
  /\ Moves(t, "begun", "switched") \/ Moves(t, "held", "switched")
  /\ \E a \in Releases : live' = [live EXCEPT ![t] = a]
  /\ UNCHANGED <<holder, latest>>
Switch(t) ==
  /\ Moves(t, "held", "switched")
  /\ \E a \in Releases : live' = [live EXCEPT ![t] = a]
  /\ UNCHANGED <<holder, latest>>

Finish(t) ==
  /\ Moves(t, "held", "rest") \/ Moves(t, "switched", "rest")
  /\ holder' = [holder EXCEPT ![t] = None]
  /\ UNCHANGED <<live, latest>>

(* The job is refused, or its worker stops.                                *)
Drop(t) ==
  /\ \E from \in {"begun", "held", "switched"} : Moves(t, from, "rest")
  /\ UNCHANGED <<live, holder, latest>>

Next == \E t \in Targets : TakeUp(t) \/ Hold(t) \/ Switch(t) \/ Finish(t) \/ Drop(t)

Spec == Init /\ [][Next]_vars

--------------------------------------------------------------------------------
TypeOK ==
  /\ live \in [Targets -> Releases \cup {None}]
  /\ holder \in [Targets -> Jobs \cup {None}]
  /\ latest \in [Targets -> Jobs \cup {0}]
  /\ phase \in [Targets -> {"rest", "begun", "held", "switched"}]

(* The lock belongs to the job being done, or to one left behind.          *)
LockOwned == \A t \in Targets : phase[t] \in {"held", "switched"} => holder[t] = latest[t]

Stranded(t) == holder[t] # None /\ phase[t] \in {"rest", "begun"}

(* A destination whose lock was left behind keeps its release, and its     *)
(* lock, for ever: only an operator's hand can free it                     *)
(* (ComponentExecutor.cjs:461-475).                                        *)
StrandedStays ==
  [][\A t \in Targets : Stranded(t) =>
       Stranded(t)' /\ live'[t] = live[t] /\ holder'[t] = holder[t]]_vars

(* The release in place changes only for the job that holds the lock, and  *)
(* that job is the last one taken up.                                      *)
OnlyHolderSwitches ==
  [][\A t \in Targets : live'[t] # live[t] =>
       phase[t] = "held" /\ holder[t] = latest[t] /\ holder'[t] = holder[t]]_vars
================================================================================
