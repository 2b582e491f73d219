---------------------------- MODULE ComponentRollout ----------------------------
(***************************************************************************)
(* The pipeline of ComponentPipeline together with the workers that do its *)
(* work (deployment/servix/ComponentExecutor.cjs): one build system and    *)
(* one destination system.  A worker handles one job at a time; what       *)
(* survives it is its claim directories and, on the destination, the lock, *)
(* the installed files and current.json.                                   *)
(*                                                                         *)
(* Every request to the control plane may be lost, and so may its answer.  *)
(* A worker may be stopped anywhere; Windows starts it again each minute   *)
(* (Setup-Executor.ps1).                                                   *)
(***************************************************************************)
EXTENDS Naturals, FiniteSets

CONSTANTS Components, Configs, Users, Owner, Artifacts, None, MaxRuns, MaxRevision,
  MaxStops,  (* bound: times a worker is stopped                            *)
  StickyLock (* whether the lock file may resist its removal                *)

VARIABLES
  profile, permitted, runs, jobs, source, clock,  (* ComponentPipeline      *)
  worker,   (* what each worker process is doing, and on which job          *)
  dirs,     (* the claim directories under each worker's stateRoot          *)
  lock,     (* the run whose activation holds devsetu-component.lock        *)
  files,    (* the release whose files stand under the binding's root       *)
  current,  (* the release current.json names                               *)
  stops     (* times a worker was stopped                                   *)

P == INSTANCE ComponentPipeline

(* The assumptions of ComponentPipeline, and a bound of this module's own. *)
ASSUME BoundsAssumption == MaxRuns \in Nat /\ MaxRevision \in Nat /\ MaxStops \in Nat
ASSUME OwnerAssumption  == Owner \in Users
ASSUME NoneAssumption   == None \notin Artifacts /\ None \notin Nat
ASSUME ConfigsAssumption ==
  /\ Configs \subseteq P!Config
  /\ \A cfg \in Configs : \A c \in Components :
        cfg.deps[c] \subseteq cfg.parts /\ c \notin P!Upstream(cfg, c)

server == <<profile, permitted, runs, jobs, source, clock>>
target == <<lock, files, current>>
vars   == <<server, worker, dirs, target, stops>>

--------------------------------------------------------------------------------
Workers == P!Kinds   (* the builder takes the build jobs, the destination the others *)
Steps   == {"off", "idle", "taken", "made", "claimed", "fetched", "locked", "replacing",
            "serving", "restoring", "restored", "activated", "ended"}

NoJob   == [run |-> 0]
Receipt == [status : P!Outcomes, digest : Artifacts \cup P!RunIds, code : P!ErrorCodes]
Worker  == [step : Steps, job : P!Job \cup {NoJob}, receipts : SUBSET Receipt]

(* A claim directory.  torn: claim.json or receipt.json is missing in part, *)
(* so that reading it throws something else than "no such file".  asked: a *)
(* restarted worker has reported the claim as interrupted.                 *)
Directory == [job : P!Job, torn : BOOLEAN, asked : BOOLEAN, receipts : SUBSET Receipt]

Mixed == "mixed"     (* neither the old release nor the new one             *)

TypeOK ==
  /\ P!TypeOK
  /\ worker \in [Workers -> Worker]
  /\ dirs \in [Workers -> SUBSET Directory]
  /\ lock \in [Components -> P!RunIds \cup {None}]
  /\ files \in [Components -> Artifacts \cup {None, Mixed}]
  /\ current \in [Components -> Artifacts \cup {None}]
  /\ stops \in 0..MaxStops

Init ==
  /\ P!Init
  /\ worker = [k \in Workers |-> [step |-> "idle", job |-> NoJob, receipts |-> {}]]
  /\ dirs = [k \in Workers |-> {}]
  /\ lock = [c \in Components |-> None]
  /\ files = lock /\ current = lock
  /\ stops = 0

(* The server's record of job j, whatever became of it since j was handed  *)
(* out.                                                                    *)
Held(j) ==
  CHOOSE h \in jobs : h.run = j.run /\ h.comp = j.comp /\ h.kind = j.kind /\ h.nth = j.nth

At(k, step)      == worker[k].step = step
Goes(k, step)    == worker' = [worker EXCEPT ![k].step = step]
Ends(k, outcome) == worker' = [worker EXCEPT ![k].step = "ended", ![k].receipts = {outcome}]
Rests(k)         == worker' = [worker EXCEPT ![k] = [step |-> "idle", job |-> NoJob, receipts |-> {}]]

Succeeded(d)  == [status |-> "succeeded", digest |-> d, code |-> "none"]
(* Faulty form of Failed: the receipt names the release to be replaced.    *)
FailedNamesPrevious(j) == [status |-> "failed", digest |-> j.prev, code |-> "none"]
Failed(j)     == [status |-> "failed", digest |-> j.input, code |-> "none"]
Uncertain(j)  == [status |-> "recovery-required", digest |-> j.input, code |-> "none"]
(* Faulty form of Interrupted: a claim without a receipt counts as failed. *)
InterruptedFails(j) == Failed(j)
Interrupted(j) == [Uncertain(j) EXCEPT !.code = "component-worker-interrupted"]

--------------------------------------------------------------------------------
(* The worker's loop.                                                      *)

(* claim: the server hands a job out; its answer may never arrive.         *)
Take(k) ==
  /\ At(k, "idle")
  /\ \E accepted \in BOOLEAN :
       \E j \in P!AdvancedJobs(P!RunIds, jobs, runs, accepted) :
         /\ j.kind = k /\ P!ClaimJob(j, accepted)
         /\ \/ worker' = [worker EXCEPT ![k].step = "taken", ![k].job = j]
            \/ UNCHANGED worker
  /\ UNCHANGED <<dirs, target, stops>>

(* validateJob refuses it: the local enrolment is not the job's snapshot.  *)
Refuse(k) ==
  /\ At(k, "taken")
  /\ Rests(k)
  /\ UNCHANGED <<server, dirs, target, stops>>

MakeDirectory(k) ==
  /\ At(k, "taken")
  /\ Goes(k, "made")
  /\ dirs' = [dirs EXCEPT ![k] = @ \cup {[job |-> worker[k].job, torn |-> TRUE,
                                          asked |-> FALSE, receipts |-> {}]}]
  /\ UNCHANGED <<server, target, stops>>

(* The directory of the job at hand gets its claim, or its receipt.        *)
Rewrite(k, torn, receipts) ==
  dirs' = [dirs EXCEPT ![k] =
             {IF d.job = worker[k].job THEN [d EXCEPT !.torn = torn, !.receipts = receipts] ELSE d
                : d \in @}]

WriteClaim(k) ==
  /\ At(k, "made")
  /\ Goes(k, "claimed")
  /\ Rewrite(k, FALSE, {})
  /\ UNCHANGED <<server, target, stops>>

(* The input, and the previous release, are downloaded while the server    *)
(* holds the job as working and its hour is not over.                      *)
Fetch(k) ==
  /\ At(k, "claimed")
  /\ Held(worker[k].job).status = "working" /\ ~P!Expired(worker[k].job.run)
  /\ Goes(k, "fetched")
  /\ UNCHANGED <<server, dirs, target, stops>>

(* A download, the build, the upload or the lookup of the target fails.    *)
GiveUp(k) ==
  /\ At(k, "claimed") \/ At(k, "fetched")
  /\ Ends(k, Failed(worker[k].job))
  /\ UNCHANGED <<server, dirs, target, stops>>

(* The build is uploaded.  If the answer is lost the receipt says failed.  *)
Upload(a) ==
  LET j == worker["build"].job
  IN /\ At("build", "fetched")
     /\ P!Upload(Held(j), a)
     /\ Ends("build", Succeeded(a)) \/ Ends("build", Failed(j))
     /\ UNCHANGED <<dirs, target, stops>>

--------------------------------------------------------------------------------
(* Activation, on the destination.                                         *)

Job    == worker["deploy"].job
Doing(step) == At("deploy", step)

(* Faulty form of Free: a lock somebody else left is taken over.           *)
FreeOrLeft(c) == TRUE
Free(c) == lock[c] = None

TakeLock ==
  /\ Doing("fetched") /\ Free(Job.comp)
  /\ lock' = [lock EXCEPT ![Job.comp] = Job.run]
  /\ Goes("deploy", "locked")
  /\ UNCHANGED <<server, dirs, files, current, stops>>

(* A lock left by an activation that could not be restored, or by a worker *)
(* that was stopped.                                                       *)
LockedOut ==
  /\ Doing("fetched") /\ ~Free(Job.comp)
  /\ Ends("deploy", Uncertain(Job))
  /\ UNCHANGED <<server, dirs, target, stops>>

(* The archive is bad, the release to replace is not the current one, its  *)
(* files have drifted or the runtime does not stop: nothing was touched.   *)
Reject ==
  /\ Doing("locked")
  /\ Goes("deploy", "restored")
  /\ UNCHANGED <<server, dirs, target, stops>>

Replace ==
  /\ Doing("locked") /\ current[Job.comp] = Job.prev
  /\ files' = [files EXCEPT ![Job.comp] = Mixed]
  /\ Goes("deploy", "replacing")
  /\ UNCHANGED <<server, dirs, lock, current, stops>>

Serve ==
  /\ Doing("replacing")
  /\ files' = [files EXCEPT ![Job.comp] = Job.input]
  /\ Goes("deploy", "serving")
  /\ UNCHANGED <<server, dirs, lock, current, stops>>

(* The new release is healthy: current.json is replaced.                   *)
Commit ==
  /\ Doing("serving")
  /\ current' = [current EXCEPT ![Job.comp] = Job.input]
  /\ Goes("deploy", "activated")
  /\ UNCHANGED <<server, dirs, lock, files, stops>>

(* A file, the runtime or its health fails: the old files are put back ... *)
Falter ==
  /\ Doing("replacing") \/ Doing("serving")
  /\ files' = [files EXCEPT ![Job.comp] = Mixed]
  /\ Goes("deploy", "restoring")
  /\ UNCHANGED <<server, dirs, lock, current, stops>>

Restore ==
  /\ Doing("restoring")
  /\ files' = [files EXCEPT ![Job.comp] = current[Job.comp]]
  /\ Goes("deploy", "restored")
  /\ UNCHANGED <<server, dirs, lock, current, stops>>

(* Faulty form of LeaveLocked: the lock is released in every case.         *)
LeaveUnlocked ==
  /\ Doing("restoring")
  /\ lock' = [lock EXCEPT ![Job.comp] = None]
  /\ Ends("deploy", Uncertain(Job))
  /\ UNCHANGED <<server, dirs, files, current, stops>>

(* ... or they are not, and the lock stays where it is.                    *)
LeaveLocked ==
  /\ Doing("restoring")
  /\ Ends("deploy", Uncertain(Job))
  /\ UNCHANGED <<server, dirs, target, stops>>

Unlock ==
  /\ Doing("activated") \/ Doing("restored")
  /\ lock' = [lock EXCEPT ![Job.comp] = None]
  /\ Ends("deploy", IF Doing("activated") THEN Succeeded(Job.input) ELSE Failed(Job))
  /\ UNCHANGED <<server, dirs, files, current, stops>>

(* The lock file cannot be removed: the error takes the place of the       *)
(* outcome, and the receipt says failed even of a release that is current. *)
KeepLock ==
  /\ StickyLock
  /\ Doing("activated") \/ Doing("restored")
  /\ Ends("deploy", Failed(Job))
  /\ UNCHANGED <<server, dirs, target, stops>>

--------------------------------------------------------------------------------
(* Receipts, and the worker's stops and starts.                            *)

WriteReceipt(k) ==
  /\ At(k, "ended")
  /\ Rewrite(k, FALSE, worker[k].receipts)
  /\ Rests(k)
  /\ UNCHANGED <<server, target, stops>>

(* A stop while the receipt is written leaves it torn.                     *)
Stop(k) ==
  /\ ~At(k, "off") /\ stops < MaxStops
  /\ stops' = stops + 1
  /\ worker' = [worker EXCEPT ![k] = [step |-> "off", job |-> NoJob, receipts |-> {}]]
  /\ UNCHANGED dirs \/ (At(k, "ended") /\ Rewrite(k, TRUE, {}))
  /\ UNCHANGED <<server, target>>

(* Each claim without a receipt is reported, once, as interrupted; a torn  *)
(* directory makes the start fail.                                         *)
Start(k) ==
  /\ At(k, "off")
  /\ IF \E d \in dirs[k] : d.torn THEN UNCHANGED worker ELSE Rests(k)
  /\ dirs' = [dirs EXCEPT ![k] =
                {[d EXCEPT !.asked = @ \/ (~d.torn /\ d.receipts = {})] : d \in @}]
  /\ UNCHANGED <<server, target, stops>>

(* A report reaches the server.  The worker repeats its receipts every two *)
(* seconds; a claim is reported as interrupted when the worker starts.     *)
Deliver(k, d) ==
  /\ \E m \in IF d.receipts = {} /\ d.asked THEN {Interrupted(d.job)} ELSE d.receipts :
       \/ P!Complete(Held(d.job), m.status, m.digest, m.code)
       \/ P!CompleteCrash(Held(d.job), m.status, m.digest, m.code)
  /\ UNCHANGED <<worker, dirs, target, stops>>

--------------------------------------------------------------------------------
ServerStep ==
  /\ \/ P!MemberStep
     \/ P!Poll
     \/ \E r \in P!RunIds : P!AdvanceCrash(r)
     \/ P!ConnectorStep
     \/ P!PassDeadline
  /\ UNCHANGED <<worker, dirs, target, stops>>

Activation == \/ TakeLock \/ LockedOut \/ Reject \/ Replace \/ Serve \/ Commit
              \/ Falter \/ Restore \/ LeaveLocked \/ Unlock \/ KeepLock

WorkerStep(k) ==
  \/ Take(k) \/ Refuse(k) \/ MakeDirectory(k) \/ WriteClaim(k) \/ Fetch(k) \/ GiveUp(k)
  \/ WriteReceipt(k) \/ Stop(k) \/ Start(k)
  \/ \E d \in dirs[k] : Deliver(k, d)

Next == \/ ServerStep
        \/ \E k \in Workers : WorkerStep(k)
        \/ \E a \in Artifacts : Upload(a)
        \/ Activation

Spec == Init /\ [][Next]_vars

(* The control plane is polled and time passes, Windows restarts workers,  *)
(* and a receipt that is sent every two seconds gets through in the end.   *)
Fairness ==
  /\ WF_vars(P!Poll /\ UNCHANGED <<worker, dirs, target, stops>>)
  /\ WF_vars(P!PassDeadline /\ UNCHANGED <<worker, dirs, target, stops>>)
  /\ \A k \in Workers :
       /\ WF_vars(Start(k))
       /\ WF_vars(\E d \in dirs[k] : d.receipts # {} /\ Deliver(k, d))

FairSpec == Spec /\ Fairness

--------------------------------------------------------------------------------
(* Properties.                                                             *)

(* When no run is pending, the control plane's idea of each destination is *)
(* true: current.json and the installed files are those of the release     *)
(* current() finds (component-deployments.ts:368), and no lock is left.    *)
(* Anything else is a run that still needs recovery. It is what activation *)
(* asserts before it replaces a release (ComponentExecutor.cjs:385-386).   *)
BeliefMatchesTarget ==
  ~P!Busy => \A c \in Components :
    LET r == P!Current(c)
        release == IF r = None THEN None ELSE runs[r].res[c].digest
    IN current[c] = release /\ files[c] = release /\ lock[c] = None

(* An unlocked destination holds exactly the release current.json names:   *)
(* a half-replaced or unrestored one keeps its lock through any stop of    *)
(* the worker (ComponentExecutor.cjs:464-476).                             *)
UnlockedIsWhole == \A c \in Components : lock[c] = None => files[c] = current[c]

(* No destination is touched under a run that has ended, even when its     *)
(* hour passes, or its requester loses access, while the worker is at it.  *)
NoChangeUnderEndedRun ==
  Doing("replacing") \/ Doing("serving") \/ Doing("restoring")
    => P!Pending(runs[Job.run])

(* What the workers' state means in terms of Destination.                  *)
LatestJob(c) ==
  LET handled == {d.job.run : d \in {e \in dirs["deploy"] : e.job.comp = c}}
  IN IF handled = {} THEN 0 ELSE CHOOSE r \in handled : \A q \in handled : q <= r
Phase(c) ==
  IF Job = NoJob \/ Job.comp # c THEN "rest"
  ELSE IF worker["deploy"].step \in {"made", "claimed", "fetched"} THEN "begun"
  ELSE IF worker["deploy"].step \in {"taken", "ended"} THEN "rest"
  ELSE IF worker["deploy"].step = "activated" THEN "switched"
  ELSE "held"
D == INSTANCE Destination WITH Targets <- Components, Releases <- Artifacts, Jobs <- P!RunIds,
       live <- current, holder <- lock,
       latest <- [c \in Components |-> LatestJob(c)],
       phase <- [c \in Components |-> Phase(c)]

(* Each destination keeps the promise of Destination: under any stops,     *)
(* losses and late answers its release changes only under the lock, once   *)
(* for a job, in the order of the runs, and not at all once it is stranded.*)
TargetsAreDestinations == D!Spec

(* ADR 0049: "A claimed target job interrupted without a receipt requires  *)
(* recovery": the run of an activation whose worker was stopped comes to   *)
(* require recovery, whether or not the restarted worker gets through.     *)
InterruptedRequiresRecovery ==
  \A r \in P!RunIds :
    (\E d \in dirs["deploy"] : d.job.run = r /\ d.receipts = {} /\ Job # d.job)
      ~> runs[r].status = "recovery-required"

(* Every run comes to a verdict: while time passes and the control plane is*)
(* polled, no worker that stops, no lost answer, no lock left behind and no*)
(* permission that is withdrawn keeps it in publishing or running          *)
(* (component-deployments.ts:586-610).                                     *)
RunsEnd == P!UnderWay ~> ~P!UnderWay

(* "Finish acknowledgements from retained receipts"                        *)
(* (ComponentExecutor.cjs:530): every receipt is acknowledged in the end.  *)
ReceiptsAcknowledged ==
  \A k \in Workers, r \in P!RunIds :
    (\E d \in dirs[k] : d.job.run = r /\ d.receipts # {})
      ~> \A d \in dirs[k] : d.job.run = r => Held(d.job).status # "working"

(* A stopped worker is at work again once it is left alone                 *)
(* (Setup-Executor.ps1:83-84).                                             *)
WorkerComesBack == \A k \in Workers : At(k, "off") ~> ~At(k, "off")
================================================================================
