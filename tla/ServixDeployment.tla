---------------------------- MODULE ServixDeployment ----------------------------
(***************************************************************************)
(* Deployments of the servix project: the store of the control plane       *)
(* (servix-deployment.ts), which publishes, builds and approves one at a   *)
(* time; the activation runner, a service of its own that consumes an      *)
(* approval file (deployment/servix/Run-Activation.ps1); and the operator  *)
(* that it runs on the target host (Invoke-DevTarget.ps1,                  *)
(* Invoke-DevRelease.ps1, DeploymentFiles.psm1).                           *)
(*                                                                         *)
(* A deployment is a number, in the order of the requests.  A release is   *)
(* named by the deployment that built it, its origin.  The three processes *)
(* share files only, and each may stop between any two of its writes.      *)
(***************************************************************************)
EXTENDS Naturals, Sequences, SequencesExt

CONSTANTS
  MaxRuns,      (* bound: deployments requested                             *)
  MaxCrashes    (* bound: stops of the controller, the runner or the target *)

VARIABLES
  deployment,  (* jobs/sd_*.json                                            *)
  succeeded,   (* the deployments recorded as succeeded, in that order      *)
  overdue,     (* the deployments whose forty minutes have passed           *)
  background,  (* what build() does for each deployment                     *)
  approvals,   (* requests/sd_*.json: none, partial or whole                *)
  claims,      (* private/claims/sd_*: none, empty, or with the approval    *)
  outcomes,    (* results/sd_*.json                                         *)
  receipted,   (* the deployments with a target-receipt.json that passed    *)
  pointer,     (* private/active-release.json                               *)
  runner,      (* what the runner does                                      *)
  reports,     (* result.json of each job on the target                     *)
  target,      (* what the operator does                                    *)
  release,     (* the release installed on the target, 0 for that of before *)
  task,        (* the scheduled task that serves it                         *)
  crashes      (* stops so far                                              *)

store       == <<deployment, succeeded>>
controller  == <<store, background, overdue>>
private     == <<claims, outcomes, receipted, pointer>>
destination == <<reports, target, release, task>>
vars        == <<controller, approvals, private, runner, destination, crashes>>

--------------------------------------------------------------------------------
Runs  == 1 .. MaxRuns
Mixed == MaxRuns + 1       (* neither release, while files are being copied *)

NoRun    == [status |-> "none", origin |-> 0, prev |-> 0]
NoWork   == [step |-> "none", of |-> 0]
AtRest   == [step |-> "idle", of |-> 0, before |-> 0]

Init ==
  /\ deployment = [r \in Runs |-> NoRun] /\ succeeded = <<>> /\ overdue = {}
  /\ background = [r \in Runs |-> "none"]
  /\ approvals = [r \in Runs |-> "none"] /\ claims = [r \in Runs |-> "none"]
  /\ outcomes = [r \in Runs |-> "none"] /\ receipted = {} /\ pointer = 0
  /\ runner = NoWork
  /\ reports = [r \in Runs |-> "none"] /\ target = AtRest
  /\ release = 0 /\ task = "up" /\ crashes = 0

Blocking(r) == deployment[r].status \in {"publishing", "building", "activating", "recovery-required"}
Busy        == \E r \in Runs : Blocking(r)

UnderWay(r) == deployment[r].status \in {"publishing", "building", "activating"}
IsNext(r)   == deployment[r].status = "none" /\ \A q \in 1 .. r - 1 : deployment[q].status # "none"
Current     == IF succeeded = <<>> THEN 0 ELSE Last(succeeded)
Mark(r, status)   == deployment' = [deployment EXCEPT ![r].status = status]

--------------------------------------------------------------------------------
(* The control plane.                                                      *)

(* Whatever writes an approval keeps the promise chain until it is done.   *)
ChainFree == \A r \in Runs : background[r] \notin {"approve", "write"}

Request(r) ==
  /\ ChainFree /\ IsNext(r) /\ ~Busy
  /\ deployment' = [deployment EXCEPT ![r] = [status |-> "publishing", origin |-> r, prev |-> Current]]
  /\ background' = [background EXCEPT ![r] = "publish"]
  /\ UNCHANGED <<succeeded, overdue, approvals, private, runner, destination, crashes>>

(* The release that a roll back goes to: the last that is not installed.   *)
Distinct(q) == deployment[q].origin # deployment[Current].origin
Previous    == SelectLastInSeq(succeeded, Distinct)

(* restore goes on to enqueueActivation under the same promise.            *)
Restore(r, chosen, rollback) ==
  /\ ChainFree /\ IsNext(r) /\ ~Busy
  /\ \E i \in DOMAIN succeeded : succeeded[i] = chosen
  /\ Distinct(chosen) /\ (rollback => chosen = succeeded[Previous])
  /\ deployment' = [deployment EXCEPT ![r] = [status |-> "activating", origin |-> deployment[chosen].origin,
                                             prev |-> Current]]
  /\ background' = [background EXCEPT ![r] = "approve"]
  /\ UNCHANGED <<succeeded, overdue, approvals, private, runner, destination, crashes>>

(* The connector's publication, and the build, come to an end.             *)
Publish(r) ==
  /\ ChainFree /\ background[r] = "publish"
  /\ Mark(r, "building")
  /\ background' = [background EXCEPT ![r] = "build"]
  /\ UNCHANGED <<succeeded, overdue, approvals, private, runner, destination, crashes>>

(* Faulty form of Enqueue: the expiry is not looked at again.              *)
EnqueueLate(r) ==
  /\ ChainFree /\ background[r] = "build"
  /\ Mark(r, "activating")
  /\ background' = [background EXCEPT ![r] = "approve"]
  /\ UNCHANGED <<succeeded, overdue, approvals, private, runner, destination, crashes>>
Enqueue(r) ==
  /\ ChainFree /\ background[r] = "build" /\ r \notin overdue
  /\ Mark(r, "activating")
  /\ background' = [background EXCEPT ![r] = "approve"]
  /\ UNCHANGED <<succeeded, overdue, approvals, private, runner, destination, crashes>>

(* Publication, build or authorization failed, or the deployment expired.  *)
GiveUp(r) ==
  /\ ChainFree /\ background[r] \in {"publish", "build"}
  /\ Mark(r, "failed")
  /\ background' = [background EXCEPT ![r] = "none"]
  /\ UNCHANGED <<succeeded, overdue, approvals, private, runner, destination, crashes>>

(* The approval is written in place, where the runner may see it half done.*)
WriteApproval(r) ==
  /\ background[r] \in {"approve", "write"}
  /\ \/ /\ background[r] = "approve"
        /\ approvals' = [approvals EXCEPT ![r] = "partial"]
        /\ background' = [background EXCEPT ![r] = "write"]
        /\ UNCHANGED deployment
     \/ /\ background[r] = "write"
        /\ approvals' = IF approvals[r] = "partial" THEN [approvals EXCEPT ![r] = "whole"] ELSE approvals
        /\ background' = [background EXCEPT ![r] = "none"]
        /\ UNCHANGED deployment
     \/ (* the write failed *)
        /\ background' = [background EXCEPT ![r] = "none"]
        /\ Mark(r, "recovery-required")
        /\ UNCHANGED approvals
  /\ UNCHANGED <<succeeded, overdue, private, runner, destination, crashes>>

(* Faulty form of Interrupted: an activation that was not answered failed. *)
InterruptedFails(r) == "failed"
Interrupted(r) == IF deployment[r].status = "activating" THEN "recovery-required" ELSE "failed"

(* Faulty form of Reconcile: without a result only a restart is looked at. *)
ReconcileRestarted(r) ==
  /\ ChainFree /\ UnderWay(r)
  /\ \/ /\ outcomes[r] # "none"
        /\ Mark(r, outcomes[r])
        /\ succeeded' = IF outcomes[r] = "succeeded" THEN Append(succeeded, r) ELSE succeeded
     \/ /\ outcomes[r] = "none"
        /\ deployment[r].status # "activating" /\ background[r] = "none"
        /\ Mark(r, Interrupted(r))
        /\ UNCHANGED succeeded
  /\ UNCHANGED <<background, overdue, approvals, private, runner, destination, crashes>>

(* records(), which every call runs first, under the same promise chain: a *)
(* result of the runner is taken over; without one, what expired, or was   *)
(* being published or built when the process stopped, is interrupted.      *)
Reconcile(r) ==
  /\ ChainFree /\ UnderWay(r)
  /\ \/ /\ outcomes[r] # "none"
        /\ Mark(r, outcomes[r])
        /\ succeeded' = IF outcomes[r] = "succeeded" THEN Append(succeeded, r) ELSE succeeded
     \/ /\ outcomes[r] = "none"
        /\ r \in overdue \/ (deployment[r].status # "activating" /\ background[r] = "none")
        /\ Mark(r, Interrupted(r))
        /\ UNCHANGED succeeded
  /\ UNCHANGED <<background, overdue, approvals, private, runner, destination, crashes>>

Expire(r) ==
  /\ UnderWay(r) /\ r \notin overdue
  /\ overdue' = overdue \cup {r}
  /\ UNCHANGED <<store, background, approvals, private, runner, destination, crashes>>

ControllerStops ==
  /\ crashes < MaxCrashes /\ crashes' = crashes + 1
  /\ background' = [r \in Runs |-> "none"]
  /\ UNCHANGED <<store, overdue, approvals, private, runner, destination>>

--------------------------------------------------------------------------------
(* The activation runner.                                                  *)

Does(step)      == runner.step = step
Go(step)        == runner' = [runner EXCEPT !.step = step]
Claimed(r, how) == claims' = [claims EXCEPT ![r] = how]

(* The claim directory is made first, so that nothing is taken up twice.   *)
Claim(r) ==
  /\ Does("none") /\ approvals[r] # "none" /\ claims[r] = "none"
  /\ Claimed(r, "empty")
  /\ runner' = [step |-> "copy", of |-> r]
  /\ UNCHANGED <<controller, approvals, outcomes, receipted, pointer, destination, crashes>>

(* A file that is half written, or still being written, ends the process.  *)
CopyApproval ==
  /\ Does("copy")
  /\ IF approvals[runner.of] = "whole"
     THEN /\ Claimed(runner.of, "approval")
          /\ approvals' = [approvals EXCEPT ![runner.of] = "none"]
          /\ Go("check")
     ELSE runner' = [NoWork EXCEPT !.step = "stopped"] /\ UNCHANGED <<approvals, claims>>
  /\ UNCHANGED <<controller, outcomes, receipted, pointer, destination, crashes>>

(* The release that the approval expects to replace has the private        *)
(* receipt, and is the active one; without one there is none.              *)
Expected(r) ==
  LET prev == deployment[r].prev
  IN IF prev = 0 THEN pointer = 0 ELSE prev \in receipted /\ pointer \in {0, prev}

Uncertain(r) == outcomes' = [outcomes EXCEPT ![r] = "recovery-required"] /\ runner' = NoWork

CheckApproval ==
  /\ Does("check")
  /\ IF runner.of \notin overdue /\ Expected(runner.of)
     THEN Go("send") /\ UNCHANGED outcomes
     ELSE Uncertain(runner.of)
  /\ UNCHANGED <<controller, approvals, claims, receipted, pointer, destination, crashes>>

(* The job is staged on the target, whose lock another one may hold, and   *)
(* started.                                                                *)
Send ==
  /\ Does("send")
  /\ \/ /\ target.step = "idle"
        /\ target' = [step |-> "verify", of |-> runner.of, before |-> release]
        /\ Go("await") /\ UNCHANGED outcomes
     \/ Uncertain(runner.of) /\ UNCHANGED target
  /\ UNCHANGED <<controller, approvals, claims, receipted, pointer, reports, release, task, crashes>>

(* The report is kept as a receipt.  A session that breaks leaves the      *)
(* operator to itself.                                                     *)
Await ==
  /\ Does("await")
  /\ \/ /\ reports[runner.of] = "pass"
        /\ receipted' = receipted \cup {runner.of}
        /\ Go("publish") /\ UNCHANGED outcomes
     \/ Uncertain(runner.of) /\ UNCHANGED receipted
  /\ UNCHANGED <<controller, approvals, claims, pointer, destination, crashes>>

(* Hosted health, and then the active release.                             *)
PublishRelease ==
  /\ Does("publish")
  /\ \/ pointer' = runner.of /\ Go("result") /\ UNCHANGED outcomes
     \/ Uncertain(runner.of) /\ UNCHANGED pointer
  /\ UNCHANGED <<controller, approvals, claims, receipted, destination, crashes>>

WriteResult ==
  /\ Does("result")
  /\ outcomes' = [outcomes EXCEPT ![runner.of] = "succeeded"]
  /\ runner' = NoWork
  /\ UNCHANGED <<controller, approvals, claims, receipted, pointer, destination, crashes>>

RunnerStops ==
  /\ crashes < MaxCrashes /\ crashes' = crashes + 1
  /\ runner' = [NoWork EXCEPT !.step = "stopped"]
  /\ UNCHANGED <<controller, approvals, private, destination>>

(* A consumed operation is never replayed.  A claim whose approval cannot  *)
(* be read ends the process again, whenever it is started.                 *)
RunnerStarts ==
  /\ Does("stopped")
  /\ \A r \in Runs : claims[r] = "empty" => outcomes[r] # "none"
  /\ outcomes' = [r \in Runs |-> IF claims[r] = "approval" /\ outcomes[r] = "none"
                                 THEN "recovery-required" ELSE outcomes[r]]
  /\ runner' = NoWork
  /\ UNCHANGED <<controller, approvals, claims, receipted, pointer, destination, crashes>>

--------------------------------------------------------------------------------
(* The operator on the target, under its deployment lock.                  *)

OnTarget(step) == target.step = step
Turn(step)     == target' = [target EXCEPT !.step = step]
Answer(report) == reports' = [reports EXCEPT ![target.of] = report] /\ target' = AtRest
Origin(r)      == IF r = 0 THEN 0 ELSE deployment[r].origin

(* Every file of the release to be replaced is as its manifest says.       *)
Verify ==
  /\ OnTarget("verify")
  /\ LET prev == deployment[target.of].prev IN
     \/ (prev = 0 \/ release = Origin(prev)) /\ Turn("stop") /\ UNCHANGED reports
     \/ Answer("fail")
  /\ UNCHANGED <<controller, approvals, private, runner, release, task, crashes>>

StopTask ==
  /\ OnTarget("stop")
  /\ task' = "down" /\ Turn("copy")
  /\ UNCHANGED <<controller, approvals, private, runner, reports, release, crashes>>

(* The journal is on disk before the first file is written.                *)
CopyFiles ==
  /\ OnTarget("copy")
  /\ \/ release # Mixed /\ release' = Mixed /\ Turn("copy")
     \/ release = Mixed /\ release' = Origin(target.of) /\ Turn("start")
     \/ UNCHANGED release /\ Turn("recover")
  /\ UNCHANGED <<controller, approvals, private, runner, reports, task, crashes>>

StartTask ==
  /\ OnTarget("start")
  /\ \/ task' = "up" /\ Answer("pass")
     \/ Turn("recover") /\ UNCHANGED <<task, reports>>
  /\ UNCHANGED <<controller, approvals, private, runner, release, crashes>>

(* The files of before are put back from the journal, or that fails too.   *)
Recover ==
  /\ OnTarget("recover")
  /\ \/ release' = target.before /\ task' = "up"
     \/ UNCHANGED release /\ task' = "down"
  /\ Answer("fail")
  /\ UNCHANGED <<controller, approvals, private, runner, crashes>>

TargetStops ==
  /\ crashes < MaxCrashes /\ crashes' = crashes + 1
  /\ target.step # "idle" /\ target' = AtRest
  /\ UNCHANGED <<controller, approvals, private, runner, reports, release, task>>

--------------------------------------------------------------------------------
Controls(r) == Publish(r) \/ Enqueue(r) \/ GiveUp(r) \/ WriteApproval(r)
Runner      == CopyApproval \/ CheckApproval \/ Send \/ Await \/ PublishRelease \/ WriteResult
Operator    == Verify \/ StopTask \/ CopyFiles \/ StartTask \/ Recover

Next ==
  \/ \E r \in Runs :
       \/ Request(r)
       \/ \E q \in Runs, rollback \in BOOLEAN : Restore(r, q, rollback)
       \/ Controls(r) \/ Reconcile(r) \/ Expire(r) \/ Claim(r)
  \/ Runner \/ Operator \/ RunnerStarts
  \/ ControllerStops \/ RunnerStops \/ TargetStops

Fairness ==
  /\ \A r \in Runs : WF_vars(Controls(r)) /\ WF_vars(Reconcile(r)) /\ WF_vars(Expire(r))

Spec     == Init /\ [][Next]_vars
FairSpec == Spec /\ Fairness

--------------------------------------------------------------------------------
Statuses == {"none", "publishing", "building", "activating", "succeeded", "failed", "recovery-required"}

TypeOK ==
  /\ deployment \in [Runs -> [status : Statuses, origin : 0 .. MaxRuns, prev : 0 .. MaxRuns]]
  /\ succeeded \in Seq(Runs) /\ overdue \subseteq Runs /\ receipted \subseteq Runs
  /\ background \in [Runs -> {"none", "publish", "build", "approve", "write"}]
  /\ approvals \in [Runs -> {"none", "partial", "whole"}]
  /\ claims \in [Runs -> {"none", "empty", "approval"}]
  /\ outcomes \in [Runs -> {"none", "succeeded", "recovery-required"}]
  /\ pointer \in 0 .. MaxRuns /\ runner.of \in 0 .. MaxRuns
  /\ reports \in [Runs -> {"none", "pass", "fail"}] /\ target.of \in 0 .. MaxRuns
  /\ release \in 0 .. Mixed /\ task \in {"up", "down"}

(* An activation is on its way from its approval to its result.            *)
OnItsWay(r) == \/ approvals[r] # "none" \/ runner.of = r \/ target.of = r
               \/ background[r] \in {"approve", "write"}

(* At no time are two activations on their way to the target, not even     *)
(* when one of them expired or was interrupted: active, 22-23 and 433.     *)
OneActivation == \A r, q \in Runs : OnItsWay(r) /\ OnItsWay(q) => r = q

(* While nothing blocks, what the control plane takes for the current      *)
(* release is what the target serves and what the runner knows as active:  *)
(* an uncertain activation blocks (ADR 0039), a failed one touched nothing.*)
CurrentIsInstalled ==
  ~Busy => release = Origin(Current) /\ task = "up" /\ pointer = Current
================================================================================
