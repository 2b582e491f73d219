------------------------------- MODULE SelfUpdates --------------------------------
(***************************************************************************)
(* How the platform replaces itself: an operator seals a candidate, the    *)
(* owner asks for it, an updater outside the web process claims the request*)
(* and runs the activation script, which stops the web process, switches   *)
(* to the new release and starts it, or restores the previous one          *)
(* (apps/control-plane/src/self-updates.ts;                                *)
(* deployment/server20/Run-SelfUpdate.ps1, Apply-ServixDashboard.ps1,      *)
(* Repair-SelfUpdateWorker.ps1, New-ServixDashboardRelease.ps1).           *)
(*                                                                         *)
(* A release is a number; 0 is the one installed first.  A request is told *)
(* from another one by what its note says, which is who submitted it.      *)
(***************************************************************************)
EXTENDS Naturals, FiniteSets

CONSTANTS
  Submitters,    (* those who may ask at once, each with details of his own *)
  Nobody,
  MaxReleases,   (* bound: candidates sealed                                *)
  MaxReboots     (* bound: stops of the updater, or of the whole host       *)

VARIABLES
  sealed,        (* catalog.json: the last candidate                        *)
  replaces,      (* previousManifestSha256 of each candidate                *)
  outdated,      (* the candidates whose approval expired                   *)
  details,       (* requests/<candidate>.note                               *)
  requested,     (* requests/<candidate>.json                               *)
  submissions,   (* request() under way                                     *)
  results,       (* results/<request>.json                                  *)
  claimed,       (* private/claim-<candidate>                               *)
  receipts,      (* result-apply.json of each candidate                     *)
  updater,       (* Run-SelfUpdate.ps1                                      *)
  applying,      (* Apply-ServixDashboard.ps1                               *)
  active,        (* state/active.json                                       *)
  serving,       (* the release the web process runs, none while stopped    *)
  reboots

catalogue == <<sealed, replaces, outdated>>
asking    == <<details, requested, submissions>>
installed == <<active, serving>>
vars == <<catalogue, asking, results, claimed, receipts, updater, applying, installed, reboots>>

--------------------------------------------------------------------------------
Candidates == 1 .. MaxReleases
Stopped    == MaxReleases + 1
NoRequest  == [step |-> "none", of |-> 0]
Waiting    == [step |-> "looking", of |-> 0]
NoApply    == [step |-> "none", of |-> 0]

Init ==
  /\ sealed = 0 /\ replaces = [r \in Candidates |-> 0] /\ outdated = {}
  /\ details = [r \in Candidates |-> Nobody] /\ requested = [r \in Candidates |-> Nobody]
  /\ submissions = [s \in Submitters |-> NoRequest]
  /\ results = [r \in Candidates |-> "none"] /\ claimed = {}
  /\ receipts = [r \in Candidates |-> "none"]
  /\ updater = Waiting /\ applying = NoApply
  /\ active = 0 /\ serving = 0 /\ reboots = 0

--------------------------------------------------------------------------------
(* The operator seals a candidate built on the release that is active.     *)
Seal ==
  /\ sealed < MaxReleases
  /\ sealed' = sealed + 1
  /\ replaces' = [replaces EXCEPT ![sealed + 1] = active]
  /\ UNCHANGED <<outdated, asking, results, claimed, receipts, updater, applying, installed, reboots>>

Outdate(r) ==
  /\ r <= sealed /\ r \notin outdated
  /\ outdated' = outdated \cup {r}
  /\ UNCHANGED <<sealed, replaces, asking, results, claimed, receipts, updater, applying,
                 installed, reboots>>

--------------------------------------------------------------------------------
(* request(): the note is published first, under a name only one writer    *)
(* gets; then the request of the note that is there, in the same way.      *)
Up       == serving # Stopped
Moves(s, step) == submissions' = [submissions EXCEPT ![s].step = step]
Quits(s)       == submissions' = [submissions EXCEPT ![s] = NoRequest]

Submit(s) ==
  /\ Up /\ submissions[s] = NoRequest
  /\ sealed > 0 /\ sealed \notin outdated /\ requested[sealed] = Nobody
  /\ submissions' = [submissions EXCEPT ![s] = [step |-> "checked", of |-> sealed]]
  /\ UNCHANGED <<catalogue, details, requested, results, claimed, receipts, updater, applying,
                 installed, reboots>>

PublishNote(s) ==
  /\ submissions[s].step = "checked"
  /\ details' = IF details[submissions[s].of] = Nobody
                THEN [details EXCEPT ![submissions[s].of] = s] ELSE details
  /\ Moves(s, "noted")
  /\ UNCHANGED <<catalogue, requested, results, claimed, receipts, updater, applying, installed,
                 reboots>>

(* Faulty form of Chosen: everyone relies on his own note.                 *)
ChosenOwn(s) == TRUE
Chosen(s) == details[submissions[s].of] = s
PublishRequest(s) ==
  /\ submissions[s].step = "noted"
  /\ requested' = IF Chosen(s) /\ requested[submissions[s].of] = Nobody
                  THEN [requested EXCEPT ![submissions[s].of] = s] ELSE requested
  /\ Quits(s)
  /\ UNCHANGED <<catalogue, details, results, claimed, receipts, updater, applying, installed,
                 reboots>>

--------------------------------------------------------------------------------
(* The updater looks at every request that has no final result.            *)
Open(r) == requested[r] # Nobody /\ results[r] \notin {"succeeded", "failed"}

Publish(r, status) == results' = [results EXCEPT ![r] = status]

(* One that was claimed before is not begun again: it succeeded if the     *)
(* receipt and the active release say so.                                  *)
Proven(r) == receipts[r] = "PASS" /\ active = r
Settles(r) == Publish(r, IF Proven(r) THEN "succeeded" ELSE "failed")
Reconcile(r) ==
  /\ updater = Waiting /\ Open(r) /\ r \in claimed
  /\ Settles(r)
  /\ UNCHANGED <<catalogue, asking, claimed, receipts, updater, applying, installed, reboots>>

Current(r) == active = replaces[r]
Decline(r) ==
  /\ updater = Waiting /\ Open(r) /\ r \notin claimed
  /\ r \in outdated \/ ~Current(r)
  /\ Publish(r, "failed")
  /\ UNCHANGED <<catalogue, asking, claimed, receipts, updater, applying, installed, reboots>>

ClaimUpdate(r) ==
  /\ updater = Waiting /\ Open(r) /\ r \notin claimed
  /\ r \notin outdated /\ Current(r)
  /\ claimed' = claimed \cup {r}
  /\ updater' = [step |-> "claimed", of |-> r]
  /\ UNCHANGED <<catalogue, asking, results, receipts, applying, installed, reboots>>

Announce ==
  /\ updater.step = "claimed"
  /\ Publish(updater.of, "activating")
  /\ updater' = [updater EXCEPT !.step = "activating"]
  /\ UNCHANGED <<catalogue, asking, claimed, receipts, applying, installed, reboots>>

(* One script runs at a time only because one updater does.                *)
StartApply ==
  /\ updater.step = "activating"
  /\ updater' = [updater EXCEPT !.step = "waiting"]
  /\ applying' = [step |-> "preflight", of |-> updater.of]
  /\ UNCHANGED <<catalogue, asking, results, claimed, receipts, installed, reboots>>

Conclude ==
  /\ updater.step = "waiting" /\ applying.of # updater.of
  /\ Publish(updater.of, IF Proven(updater.of) THEN "succeeded" ELSE "failed")
  /\ updater' = Waiting
  /\ UNCHANGED <<catalogue, asking, claimed, receipts, applying, installed, reboots>>

--------------------------------------------------------------------------------
(* The activation script.                                                  *)
Reaches(step) == applying' = [applying EXCEPT !.step = step]
Kept == <<catalogue, asking, results, claimed, updater, reboots>>

(* It looks at the active release itself, and stops the web process.       *)
Preflight ==
  /\ applying.step = "preflight"
  /\ \/ /\ Current(applying.of) /\ serving = active
        /\ Reaches("stopped") /\ serving' = Stopped
        /\ submissions' = [s \in Submitters |-> NoRequest]
        /\ UNCHANGED receipts
     \/ /\ receipts' = [receipts EXCEPT ![applying.of] = "FAIL"]
        /\ applying' = NoApply /\ UNCHANGED <<serving, submissions>>
  /\ UNCHANGED <<catalogue, details, requested, results, claimed, updater, reboots, active>>

Switch ==
  /\ applying.step = "stopped"
  /\ Reaches("switched") /\ active' = applying.of
  /\ UNCHANGED <<Kept, receipts, serving>>

StartNew ==
  /\ applying.step = "switched"
  /\ Reaches("started") /\ serving' = active
  /\ UNCHANGED <<Kept, receipts, active>>

Pass ==
  /\ applying.step = "started"
  /\ receipts' = [receipts EXCEPT ![applying.of] = "PASS"] /\ applying' = NoApply
  /\ UNCHANGED <<Kept, installed>>

(* Whatever fails after the approval was consumed is undone, if it can be. *)
Undoes == active' = replaces[applying.of]
Restore ==
  /\ applying.step \in {"stopped", "switched", "started"}
  /\ \/ Undoes /\ serving' = active'
     \/ UNCHANGED installed
     \/ serving' = Stopped /\ UNCHANGED active
  /\ receipts' = [receipts EXCEPT ![applying.of] = "FAIL"] /\ applying' = NoApply
  /\ UNCHANGED Kept

(* The script ends without a receipt.                                      *)
Lose ==
  /\ applying # NoApply
  /\ applying' = NoApply
  /\ UNCHANGED <<Kept, receipts, installed>>

--------------------------------------------------------------------------------
(* The updater is stopped, as its repair does once no activation is under  *)
(* way; or the host is, and the web process starts the active release.     *)
StopUpdater ==
  /\ reboots < MaxReboots /\ reboots' = reboots + 1
  /\ applying = NoApply
  /\ updater' = Waiting
  /\ UNCHANGED <<catalogue, asking, results, claimed, receipts, applying, installed>>

Reboot ==
  /\ reboots < MaxReboots /\ reboots' = reboots + 1
  /\ updater' = Waiting /\ applying' = NoApply /\ serving' = active
  /\ submissions' = [s \in Submitters |-> NoRequest]
  /\ UNCHANGED <<catalogue, details, requested, results, claimed, receipts, active>>

Applies  == Preflight \/ Switch \/ StartNew \/ Pass \/ Restore \/ Lose
UpdaterWorks == Announce \/ StartApply \/ Conclude
Looks(r) == Reconcile(r) \/ Decline(r) \/ ClaimUpdate(r)

Next ==
  \/ Seal \/ UpdaterWorks \/ Applies \/ StopUpdater \/ Reboot
  \/ \E r \in Candidates : Outdate(r) \/ Looks(r)
  \/ \E s \in Submitters : Submit(s) \/ PublishNote(s) \/ PublishRequest(s)

Spec     == Init /\ [][Next]_vars
(* The task scheduler starts the updater again; it looks at every request  *)
(* each second, and a script it waits for has deadlines.                   *)
FairSpec ==
  /\ Spec /\ WF_vars(UpdaterWorks) /\ WF_vars(Applies)
  /\ \A r \in Candidates : WF_vars(Looks(r))

--------------------------------------------------------------------------------
TypeOK ==
  /\ sealed \in 0 .. MaxReleases /\ replaces \in [Candidates -> 0 .. MaxReleases]
  /\ outdated \cup claimed \subseteq Candidates
  /\ details \in [Candidates -> Submitters \cup {Nobody}]
  /\ requested \in [Candidates -> Submitters \cup {Nobody}]
  /\ \A s \in Submitters : submissions[s].step \in {"none", "checked", "noted"}
  /\ results \in [Candidates -> {"none", "activating", "succeeded", "failed"}]
  /\ receipts \in [Candidates -> {"none", "PASS", "FAIL"}]
  /\ updater.step \in {"looking", "claimed", "activating", "waiting"}
  /\ applying.step \in {"none", "preflight", "stopped", "switched", "started"}
  /\ active \in 0 .. MaxReleases /\ serving \in 0 .. Stopped /\ reboots \in 0 .. MaxReboots

(* The active release, the one it was built on, the one that was built on, *)
(* and so on: the releases in every set that holds each one's predecessor. *)
Founded(S) == active \in S /\ \A r \in S \cap Candidates : replaces[r] \in S
Lineage == {r \in 0 .. MaxReleases : \A S \in SUBSET (0 .. MaxReleases) : Founded(S) => r \in S}

(* A release reported as a success is the active one or one the active one *)
(* was built on: nothing reported is lost to a restoration or to a later   *)
(* candidate sealed on another release (Run-SelfUpdate.ps1:26-36,          *)
(* docs/adr/0045:40-43).                                                   *)
SuccessStaysInEffect == \A r \in Candidates : results[r] = "succeeded" => r \in Lineage

(* What is asked for is what its note explains, whoever submitted at once  *)
(* and wherever the web process stopped (self-updates.ts:134-150).         *)
RequestKeepsItsNote ==
  \A r \in Candidates : requested[r] # Nobody => requested[r] = details[r]

(* A request without a result; it gets one in the end, although the updater*)
(* or the host may stop between any two steps (Run-SelfUpdate.ps1:18-41).  *)
Undecided(r) == requested[r] # Nobody /\ results[r] \notin {"succeeded", "failed"}
================================================================================
