------------------------- MODULE ComponentRolloutProofs -------------------------
(***************************************************************************)
(* The safety properties of ComponentRollout, and that its destinations    *)
(* are those of Destination, for every value of the constants.  The server *)
(* takes the steps of ComponentPipeline, so that what was proved of them   *)
(* holds here; RolloutInv below says how the workers, their directories    *)
(* and the destination relate to the jobs the server handed out.           *)
(***************************************************************************)
EXTENDS ComponentRollout, TLAPS

Pipe == INSTANCE ComponentPipelineProofs

(***************************************************************************)
(* P and Pipe are the same pipeline; Pipe comes with the proofs.           *)
(***************************************************************************)

(* The assumptions of the pipeline are met.                                *)
LEMMA PipeAssumptions ==
  Pipe!BoundsAssumption /\ Pipe!OwnerAssumption /\ Pipe!NoneAssumption /\ Pipe!ConfigsAssumption
BY BoundsAssumption, OwnerAssumption, NoneAssumption, ConfigsAssumption
   DEF Pipe!BoundsAssumption, Pipe!OwnerAssumption, Pipe!NoneAssumption, Pipe!ConfigsAssumption,
       Pipe!Config, P!Config, Pipe!Upstream, P!Upstream

(* The sets of values, and what is read of the store.                      *)
LEMMA SameValues ==
  /\ P!RunIds = Pipe!RunIds /\ P!Kinds = Pipe!Kinds /\ P!Job = Pipe!Job
  /\ P!Outcomes = Pipe!Outcomes /\ P!ErrorCodes = Pipe!ErrorCodes
  /\ P!Operations = Pipe!Operations
  /\ \A status : P!Codes(status) = Pipe!Codes(status)
  /\ \A run : P!Pending(run) <=> Pipe!Pending(run)
  /\ \A j : P!Unsettled(j) <=> Pipe!Unsettled(j)
  /\ \A c : P!Landed(c) = Pipe!Landed(c)
  /\ \A c : P!Current(c) = Pipe!Current(c)
  /\ P!Busy <=> Pipe!Busy
  /\ P!Init <=> Pipe!Init
  /\ P!TypeOK <=> Pipe!TypeOK
BY DEF P!RunIds, Pipe!RunIds, P!Kinds, Pipe!Kinds, P!Job, Pipe!Job, P!Outcomes, Pipe!Outcomes,
       P!ErrorCodes, Pipe!ErrorCodes, P!Operations, Pipe!Operations, P!Codes, Pipe!Codes,
       P!JobStatus, Pipe!JobStatus, P!Pending, Pipe!Pending, P!Unsettled, Pipe!Unsettled,
       P!Landed, Pipe!Landed, P!Current, Pipe!Current, P!Latest, Pipe!Latest,
       P!Deployed, Pipe!Deployed, P!Exists, Pipe!Exists, P!Busy, Pipe!Busy,
       P!Init, Pipe!Init, P!NoRun, Pipe!NoRun, P!TypeOK, Pipe!TypeOK, P!Config, Pipe!Config,
       P!Run, Pipe!Run, P!RunStatus, Pipe!RunStatus, P!Result, Pipe!Result,
       P!CompStatus, Pipe!CompStatus, P!SourceStatus, Pipe!SourceStatus

(* The parts of advance().                                                 *)
LEMMA SamePasses ==
  /\ \A run : P!Live(run) <=> Pipe!Live(run)
  /\ \A r, run : P!Entitled(r, run) <=> Pipe!Entitled(r, run)
  /\ \A x : P!Phase(x) = Pipe!Phase(x)
  /\ \A J, r, c, kind : P!JobsOf(J, r, c, kind) = Pipe!JobsOf(J, r, c, kind)
  /\ \A r, run, accepted : P!Publish(r, run, accepted) = Pipe!Publish(r, run, accepted)
  /\ \A J, r, run : P!Pass(J, r, run) = Pipe!Pass(J, r, run)
  /\ \A J, r, run : P!Expire(J, r, run) = Pipe!Expire(J, r, run)
  /\ \A J, r, run, accepted : P!Starting(J, r, run, accepted) = Pipe!Starting(J, r, run, accepted)
  /\ \A S, R : P!QueuedSource(S, R) = Pipe!QueuedSource(S, R)
BY DEF P!RunIds, Pipe!RunIds, P!Upstream, Pipe!Upstream, P!Shut, Pipe!Shut, P!Bad, Pipe!Bad,
       P!Live, Pipe!Live, P!Expired, Pipe!Expired, P!Entitled, Pipe!Entitled,
       P!Phase, Pipe!Phase, P!JobsOf, Pipe!JobsOf, P!Settled, Pipe!Settled,
       P!Blocked, Pipe!Blocked, P!Ready, Pipe!Ready, P!Starts, Pipe!Starts,
       P!PassResult, Pipe!PassResult, P!Verdict, Pipe!Verdict, P!Pass, Pipe!Pass,
       P!ExpiredResult, Pipe!ExpiredResult, P!Expire, Pipe!Expire, P!FailAll, Pipe!FailAll,
       P!Publish, Pipe!Publish, P!Starting, Pipe!Starting, P!QueuedSource, Pipe!QueuedSource

(* advance() as a whole.                                                   *)
LEMMA SameAdvance ==
  /\ \A S, J, R, accepted : P!AdvancedRuns(S, J, R, accepted) = Pipe!AdvancedRuns(S, J, R, accepted)
  /\ \A J, R, r, accepted : P!NewJobs(J, R, r, accepted) = Pipe!NewJobs(J, R, r, accepted)
  /\ \A S, J, R, accepted : P!AdvancedJobs(S, J, R, accepted) = Pipe!AdvancedJobs(S, J, R, accepted)
  /\ \A S, J, R, accepted : P!AdvanceRuns(S, J, R, accepted) <=> Pipe!AdvanceRuns(S, J, R, accepted)
<1>1. \A J, r, run, accepted : P!Advanced(J, r, run, accepted) = Pipe!Advanced(J, r, run, accepted)
  BY SamePasses DEF P!Advanced, Pipe!Advanced
<1>2. \A T : P!Cardinality(T) = Pipe!Cardinality(T)
  BY DEF P!Cardinality, Pipe!Cardinality
<1>3. \A J, R, r, run, c : P!NewJob(J, R, r, run, c) = Pipe!NewJob(J, R, r, run, c)
  BY <1>2, SamePasses DEF P!NewJob, Pipe!NewJob
<1>4. \A J, R, r, accepted : P!NewJobs(J, R, r, accepted) = Pipe!NewJobs(J, R, r, accepted)
  BY <1>3, SamePasses DEF P!NewJobs, Pipe!NewJobs
<1>5. \A S, J, R, accepted : P!AdvancedRuns(S, J, R, accepted) = Pipe!AdvancedRuns(S, J, R, accepted)
  BY <1>1, SameValues DEF P!AdvancedRuns, Pipe!AdvancedRuns
<1>6. \A S, J, R, accepted : P!AdvancedJobs(S, J, R, accepted) = Pipe!AdvancedJobs(S, J, R, accepted)
  BY <1>4 DEF P!AdvancedJobs, Pipe!AdvancedJobs
<1>7. \A S, J, R, accepted : P!AdvanceRuns(S, J, R, accepted) <=> Pipe!AdvanceRuns(S, J, R, accepted)
  BY <1>5, <1>6, SamePasses DEF P!AdvanceRuns, Pipe!AdvanceRuns
<1> QED
  BY <1>4, <1>5, <1>6, <1>7

(* The operations of members.                                              *)
LEMMA SameMemberStep == P!MemberStep <=> Pipe!MemberStep
<1>1. /\ \A u, cfg : P!SaveProfile(u, cfg) <=> Pipe!SaveProfile(u, cfg)
      /\ \A u, op, parts : P!FreshRun(u, op, parts) = Pipe!FreshRun(u, op, parts)
      /\ \A r : P!NextRun(r) <=> Pipe!NextRun(r)
      /\ \A u, op, scope, parts :
           P!CanRequest(u, op, scope, parts) <=> Pipe!CanRequest(u, op, scope, parts)
      /\ \A u, op, scope, r : P!RequestCrash(u, op, scope, r) <=> Pipe!RequestCrash(u, op, scope, r)
      /\ \A u, r : P!CloseInterruptedBuild(u, r) <=> Pipe!CloseInterruptedBuild(u, r)
      /\ \A u, r : P!CloseCrash(u, r) <=> Pipe!CloseCrash(u, r)
      /\ \A u : P!ChangeAccess(u) <=> Pipe!ChangeAccess(u)
  BY DEF P!RunIds, Pipe!RunIds, P!Pending, Pipe!Pending, P!Exists, Pipe!Exists,
         P!Deployed, Pipe!Deployed, P!Latest, Pipe!Latest, P!Current, Pipe!Current,
         P!FailAll, Pipe!FailAll, P!Busy, Pipe!Busy, P!SaveProfile, Pipe!SaveProfile,
         P!Previous, Pipe!Previous, P!Restorable, Pipe!Restorable,
         P!FreshResult, Pipe!FreshResult, P!IdleResult, Pipe!IdleResult,
         P!FreshRun, Pipe!FreshRun, P!NextRun, Pipe!NextRun, P!CanRequest, Pipe!CanRequest,
         P!RequestCrash, Pipe!RequestCrash, P!Closable, Pipe!Closable, P!MayClose, Pipe!MayClose,
         P!Resolve, Pipe!Resolve, P!Claims, Pipe!Claims, P!JobsClosed, Pipe!JobsClosed,
         P!CloseInterruptedBuild, Pipe!CloseInterruptedBuild, P!CloseCrash, Pipe!CloseCrash,
         P!ChangeAccess, Pipe!ChangeAccess
<1>2. \A u, op, scope, r : P!Request(u, op, scope, r) <=> Pipe!Request(u, op, scope, r)
  BY <1>1, SameAdvance DEF P!Request, Pipe!Request
<1> QED
  BY <1>1, <1>2, SameValues DEF P!MemberStep, Pipe!MemberStep

(* Those of executors and connectors.                                      *)
LEMMA SameSteps ==
  /\ P!Poll <=> Pipe!Poll
  /\ \A r : P!AdvanceCrash(r) <=> Pipe!AdvanceCrash(r)
  /\ \A j, accepted : P!ClaimJob(j, accepted) <=> Pipe!ClaimJob(j, accepted)
  /\ \A j, a : P!Upload(j, a) <=> Pipe!Upload(j, a)
  /\ \A j, status, d, code : P!Complete(j, status, d, code) <=> Pipe!Complete(j, status, d, code)
  /\ \A j, status, d, code :
       P!CompleteCrash(j, status, d, code) <=> Pipe!CompleteCrash(j, status, d, code)
  /\ P!ConnectorStep <=> Pipe!ConnectorStep
  /\ P!PassDeadline <=> Pipe!PassDeadline
<1>1. /\ \A j, R : P!MayClaim(j, R) <=> Pipe!MayClaim(j, R)
      /\ \A j, a : P!Upload(j, a) <=> Pipe!Upload(j, a)
      /\ \A j, status, d : P!MayComplete(j, status, d) <=> Pipe!MayComplete(j, status, d)
      /\ \A j, status, code : P!Completed(j, status, code) = Pipe!Completed(j, status, code)
      /\ \A j, status, d, code :
           P!CompleteCrash(j, status, d, code) <=> Pipe!CompleteCrash(j, status, d, code)
      /\ P!ConnectorStep <=> Pipe!ConnectorStep
      /\ P!PassDeadline <=> Pipe!PassDeadline
  BY DEF P!RunIds, Pipe!RunIds, P!Exists, Pipe!Exists, P!Expired, Pipe!Expired,
         P!MayClaim, Pipe!MayClaim, P!Upload, Pipe!Upload, P!ReceiptDigest, Pipe!ReceiptDigest,
         P!MayComplete, Pipe!MayComplete, P!Completed, Pipe!Completed,
         P!CompleteCrash, Pipe!CompleteCrash, P!PublishSource, Pipe!PublishSource,
         P!FailSource, Pipe!FailSource, P!ConnectorStep, Pipe!ConnectorStep,
         P!PassDeadline, Pipe!PassDeadline
<1>2. P!Poll <=> Pipe!Poll
  BY SameValues, SameAdvance DEF P!Poll, Pipe!Poll
<1>3. \A r : P!AdvanceCrash(r) <=> Pipe!AdvanceCrash(r)
  BY SamePasses, SameAdvance DEF P!AdvanceCrash, Pipe!AdvanceCrash
<1>4. \A j, accepted : P!ClaimJob(j, accepted) <=> Pipe!ClaimJob(j, accepted)
  BY <1>1, SameValues, SamePasses, SameAdvance DEF P!ClaimJob, Pipe!ClaimJob
<1>5. \A j, status, d, code : P!Complete(j, status, d, code) <=> Pipe!Complete(j, status, d, code)
  BY <1>1, SameAdvance DEF P!Complete, Pipe!Complete
<1> QED
  BY <1>1, <1>2, <1>3, <1>4, <1>5

--------------------------------------------------------------------------------
(***************************************************************************)
(* The inductive invariant.                                                *)
(***************************************************************************)

(* h is the server's record of the job that was handed out as j; the jobs  *)
(* K hold one that is no longer queued.                                    *)
RecordOf(h, j) ==
  h.run = j.run /\ h.comp = j.comp /\ h.kind = j.kind /\ h.nth = j.nth /\ h.input = j.input
KnownIn(K, j) == \E h \in K : RecordOf(h, j) /\ h.status # "queued"

(* Receipts the server's schema accepts.                                   *)
WellCoded(receipts) == \A m \in receipts : m \in Receipt /\ m.code \in P!Codes(m.status)

LocalTypes ==
  /\ worker \in [Workers -> Worker]
  /\ dirs \in [Workers -> SUBSET Directory]
  /\ lock \in [Components -> P!RunIds \cup {None}]
  /\ files \in [Components -> Artifacts \cup {None, Mixed}]
  /\ current \in [Components -> Artifacts \cup {None}]
  /\ stops \in 0..MaxStops

(* A worker at work holds a job of its kind that the server handed out; it *)
(* has a receipt once it ended.  So has every claim directory.             *)
Idle(k) == worker[k].step \in {"off", "idle"}
WorkersOK ==
  \A k \in Workers :
    /\ IF Idle(k) THEN worker[k].job = NoJob
       ELSE worker[k].job \in P!Job /\ worker[k].job.kind = k /\ KnownIn(jobs, worker[k].job)
    /\ ~At(k, "ended") => worker[k].receipts = {}
    /\ WellCoded(worker[k].receipts)
DirsOK ==
  \A k \in Workers : \A d \in dirs[k] :
    d.job.kind = k /\ KnownIn(jobs, d.job) /\ WellCoded(d.receipts)

(* The activation in hand is one the server waits for, and the last one    *)
(* taken up for its component; its directory has no receipt yet.           *)
InHand(K, j) == \E h \in K : RecordOf(h, j) /\ h.status = "working"
HandOK ==
  ~Idle("deploy") =>
    /\ InHand(jobs, Job)
    /\ Job.input \in Artifacts
    /\ \A d \in dirs["deploy"] : d.job.comp = Job.comp =>
         \/ d.job.run < Job.run
         \/ ~Doing("taken") /\ d.job = Job /\ d.receipts = {} /\ ~d.asked
    /\ ~Doing("taken") => \E d \in dirs["deploy"] : d.job = Job

(* The destination as the steps of an activation leave it.                 *)
Locking == {"locked", "replacing", "serving", "restoring", "restored", "activated"}
LockOK ==
  /\ UnlockedIsWhole
  /\ worker["deploy"].step \in Locking => lock[Job.comp] = Job.run
  /\ worker["deploy"].step \in {"locked", "restored", "activated"} =>
       files[Job.comp] = current[Job.comp]
  /\ worker["deploy"].step \in {"serving", "activated"} => files[Job.comp] = Job.input

RolloutInv == Pipe!FullInv /\ LocalTypes /\ WorkersOK /\ DirsOK /\ HandOK /\ LockOK

--------------------------------------------------------------------------------
(***************************************************************************)
(* The server's side of a step.                                            *)
(***************************************************************************)

(* Held finds the record of a job that was handed out.                     *)
LEMMA HeldRecord ==
  ASSUME Pipe!FullInv, NEW j, NEW h \in jobs, RecordOf(h, j)
  PROVE  Held(j) = h
<1>1. \A x \in jobs : x.run = j.run /\ x.comp = j.comp /\ x.kind = j.kind => x = h
  BY DEF RecordOf, Pipe!FullInv, Pipe!SafetyInv, Pipe!IInv, Pipe!JobsOK, Pipe!SameKey
<1> QED
  BY <1>1 DEF Held, RecordOf

(* So it does for a job in a worker's hand, and in a claim directory.      *)
LEMMA HeldKnown ==
  ASSUME Pipe!FullInv, NEW j, KnownIn(jobs, j)
  PROVE  Held(j) \in jobs /\ RecordOf(Held(j), j)
BY HeldRecord DEF KnownIn

(* What a worker reports is a receipt the server understands.              *)
LEMMA DeliveredReport ==
  ASSUME RolloutInv, NEW k \in Workers, NEW d \in dirs[k], Deliver(k, d)
  PROVE  \E status \in Pipe!Outcomes : \E code \in Pipe!Codes(status) :
           \E digest \in Artifacts \cup Pipe!RunIds :
             \/ Pipe!Complete(Held(d.job), status, digest, code)
             \/ Pipe!CompleteCrash(Held(d.job), status, digest, code)
<1>1. PICK m \in IF d.receipts = {} /\ d.asked THEN {Interrupted(d.job)} ELSE d.receipts :
        \/ P!Complete(Held(d.job), m.status, m.digest, m.code)
        \/ P!CompleteCrash(Held(d.job), m.status, m.digest, m.code)
  BY DEF Deliver
<1>2. d \in Directory /\ WellCoded(d.receipts)
  BY DEF RolloutInv, LocalTypes, DirsOK
<1>3. m.status \in P!Outcomes /\ m.code \in P!Codes(m.status) /\ m.digest \in Artifacts \cup P!RunIds
  <2>1. CASE m \in d.receipts
    BY <1>2, <2>1 DEF WellCoded, Receipt
  <2>2. CASE m = Interrupted(d.job)
    BY <1>2, <2>2 DEF Interrupted, Uncertain, Directory, P!Job, P!Outcomes, P!Codes, P!ErrorCodes
  <2> QED
    BY <1>1, <2>1, <2>2
<1> QED
  BY <1>1, <1>3, SameValues, SameSteps

(* Each step is one of the pipeline, or leaves the server alone.           *)
LEMMA PipelineStep ==
  ASSUME RolloutInv, [Next]_vars
  PROVE  [Pipe!Next]_Pipe!vars
<1>1. CASE ServerStep
  BY <1>1, SameSteps, SameMemberStep, SameValues
     DEF ServerStep, Pipe!Next, Pipe!ExecutorStep
<1>2. ASSUME NEW k \in Workers, Take(k)
      PROVE  Pipe!Next
  <2>1. PICK accepted \in BOOLEAN : \E j : Pipe!ClaimJob(j, accepted)
    BY <1>2, SameSteps DEF Take
  <2>2. PICK j : Pipe!ClaimJob(j, accepted)
    BY <2>1
  <2> QED
    BY <2>1, <2>2 DEF Pipe!ClaimJob, Pipe!Claim, Pipe!Next, Pipe!ExecutorStep
<1>3. ASSUME NEW k \in Workers, NEW d \in dirs[k], Deliver(k, d)
      PROVE  Pipe!Next
  <2>1. Held(d.job) \in jobs
    BY HeldKnown DEF RolloutInv, DirsOK
  <2> QED
    BY <1>3, <2>1, DeliveredReport DEF Pipe!Next, Pipe!ExecutorStep
<1>4. ASSUME NEW a \in Artifacts, Upload(a)
      PROVE  Pipe!Next
  <2>1. "build" \in Workers /\ ~Idle("build")
    BY <1>4 DEF Upload, At, Idle, Workers, P!Kinds
  <2>2. Held(worker["build"].job) \in jobs
    BY <2>1, HeldKnown DEF RolloutInv, WorkersOK
  <2> QED
    BY <1>4, <2>2, SameSteps DEF Upload, Pipe!Next, Pipe!ExecutorStep
<1>5. ASSUME UNCHANGED server
      PROVE  UNCHANGED Pipe!vars
  BY <1>5 DEF server, Pipe!vars
<1>6. ASSUME NEW k \in Workers,
             \/ Refuse(k) \/ MakeDirectory(k) \/ WriteClaim(k) \/ Fetch(k) \/ GiveUp(k)
             \/ WriteReceipt(k) \/ Stop(k) \/ Start(k)
      PROVE  UNCHANGED server
  BY <1>6 DEF Refuse, MakeDirectory, WriteClaim, Fetch, GiveUp, WriteReceipt, Stop, Start
<1>7. CASE Activation
  <2>1. UNCHANGED server
    BY <1>7 DEF Activation, TakeLock, LockedOut, Reject, Replace, Serve, Commit, Falter,
                Restore, LeaveLocked, Unlock, KeepLock
  <2> QED
    BY <1>5, <2>1
<1>8. CASE UNCHANGED vars
  BY <1>5, <1>8 DEF vars
<1> QED
  BY <1>1, <1>2, <1>3, <1>4, <1>5, <1>6, <1>7, <1>8 DEF Next, WorkerStep

(* What was proved of the pipeline's steps holds of this one.              *)
LEMMA StepFullInv ==
  ASSUME RolloutInv, [Next]_vars
  PROVE  Pipe!FullInv'
BY PipelineStep, Pipe!NextFullInv, PipeAssumptions DEF RolloutInv

(* Steps in which only workers take part leave the server as it is.        *)
LEMMA QuietSteps ==
  ASSUME \/ \E k \in Workers : \/ Refuse(k) \/ MakeDirectory(k) \/ WriteClaim(k) \/ Fetch(k)
                               \/ GiveUp(k) \/ WriteReceipt(k) \/ Stop(k) \/ Start(k)
         \/ Activation
         \/ UNCHANGED vars
  PROVE  UNCHANGED server
BY DEF Refuse, MakeDirectory, WriteClaim, Fetch, GiveUp, WriteReceipt, Stop, Start, vars,
       Activation, TakeLock, LockedOut, Reject, Replace, Serve, Commit, Falter, Restore,
       LeaveLocked, Unlock, KeepLock

(* The activation in hand is not the one a directory with a receipt, or a  *)
(* reported interruption, is about.                                        *)
LEMMA OtherReports ==
  ASSUME RolloutInv, ~Idle("deploy"), NEW d \in dirs["deploy"], Deliver("deploy", d),
         NEW h \in jobs, RecordOf(h, Job)
  PROVE  h # Held(d.job)
<1>1. "deploy" \in Workers
  BY DEF Workers, P!Kinds
<1>2. d.receipts # {} \/ d.asked
  BY DEF Deliver
<1>3. d.job.comp # Job.comp \/ d.job.run < Job.run
  BY <1>2 DEF RolloutInv, HandOK
<1>4. RecordOf(Held(d.job), d.job)
  BY <1>1, HeldKnown DEF RolloutInv, DirsOK
<1>5. Job.run \in Nat
  BY <1>1 DEF RolloutInv, WorkersOK, P!Job, P!RunIds, Job
<1> QED
  BY <1>3, <1>4, <1>5 DEF RecordOf

(* The jobs that were handed out stay handed out, and the activation in    *)
(* hand stays as it is: nobody else reports it.                            *)
LEMMA StepJobs ==
  ASSUME RolloutInv, [Next]_vars
  PROVE  /\ \A j : KnownIn(jobs, j) => KnownIn(jobs', j)
         /\ ~Idle("deploy") => InHand(jobs', Job)
<1>0. Pipe!FullInv
  BY DEF RolloutInv
<1>1. "deploy" \in Workers /\ (~Idle("deploy") => Job.kind = "deploy" /\ InHand(jobs, Job))
  BY DEF RolloutInv, WorkersOK, HandOK, Workers, P!Kinds, Job
<1>2. ASSUME Pipe!Carried(jobs, jobs')
      PROVE  \A j : KnownIn(jobs, j) => KnownIn(jobs', j)
  BY <1>2 DEF KnownIn, RecordOf, Pipe!Carried, Pipe!SameWork, Pipe!SameKey
<1>3. ASSUME NEW K \in SUBSET jobs', Pipe!Untouched(jobs, K), ~Idle("deploy")
      PROVE  InHand(jobs', Job)
  BY <1>1, <1>3 DEF InHand, RecordOf, Pipe!Untouched
<1>4. CASE ServerStep
  <2>1. Pipe!Carried(jobs, jobs') /\ Pipe!Untouched(jobs, jobs')
    BY <1>0, <1>4, SameSteps, SameMemberStep, SameValues, Pipe!OtherStepsJobs, PipeAssumptions
       DEF ServerStep
  <2> QED
    BY <1>2, <1>3, <2>1
<1>5. ASSUME NEW k \in Workers, Take(k)
      PROVE  /\ \A j : KnownIn(jobs, j) => KnownIn(jobs', j)
             /\ ~Idle("deploy") => InHand(jobs', Job)
  <2>1. \E accepted \in BOOLEAN : \E j : Pipe!ClaimJob(j, accepted)
    BY <1>5, SameSteps DEF Take
  <2>2. /\ Pipe!Carried(jobs, jobs')
        /\ \E x \in jobs' : Pipe!Untouched(jobs, jobs' \ {x})
    BY <1>0, <2>1, Pipe!ClaimedJob, PipeAssumptions
  <2> QED
    BY <1>2, <1>3, <2>2
<1>6. ASSUME NEW k \in Workers, NEW d \in dirs[k], Deliver(k, d)
      PROVE  /\ \A j : KnownIn(jobs, j) => KnownIn(jobs', j)
             /\ ~Idle("deploy") => InHand(jobs', Job)
  <2>1. Held(d.job) \in jobs /\ RecordOf(Held(d.job), d.job) /\ d.job.kind = k
    BY HeldKnown DEF RolloutInv, DirsOK
  <2>2. Pipe!Carried(jobs, jobs') /\ \A h \in jobs \ {Held(d.job)} : h \in jobs'
    BY <1>0, <1>6, <2>1, DeliveredReport, Pipe!ReportedJobs, PipeAssumptions
  <2>3. ASSUME ~Idle("deploy")
        PROVE  InHand(jobs', Job)
    <3>1. PICK h \in jobs : RecordOf(h, Job) /\ h.status = "working"
      BY <1>1, <2>3 DEF InHand
    <3>2. h # Held(d.job)
      <4>1. CASE k = "deploy"
        BY <1>6, <2>3, <3>1, <4>1, OtherReports
      <4>2. CASE k # "deploy"
        BY <1>1, <2>1, <2>3, <3>1, <4>2 DEF RecordOf
      <4> QED
        BY <4>1, <4>2
    <3> QED
      BY <2>2, <3>1, <3>2 DEF InHand
  <2> QED
    BY <1>2, <2>2, <2>3
<1>7. ASSUME NEW a \in Artifacts, Upload(a)
      PROVE  /\ \A j : KnownIn(jobs, j) => KnownIn(jobs', j)
             /\ ~Idle("deploy") => InHand(jobs', Job)
  <2> DEFINE j == Held(worker["build"].job)
             k == [j EXCEPT !.output = a]
  <2>1. "build" \in Workers /\ ~Idle("build")
    BY <1>7 DEF Upload, At, Idle, Workers, P!Kinds
  <2>2. j \in jobs
    BY <2>1, HeldKnown DEF RolloutInv, WorkersOK
  <2>3. /\ j.kind = "build" /\ j.status = "working"
        /\ jobs' = (jobs \ {j}) \cup {k}
    BY <1>7 DEF Upload, P!Upload
  <2>4. j \in Pipe!Job
    BY <1>0, <2>2 DEF Pipe!FullInv, Pipe!SafetyInv, Pipe!IInv, Pipe!JobsOK
  <2>5. Pipe!SameWork(j, k) /\ k.status = "working"
    BY <2>3, <2>4 DEF Pipe!SameWork, Pipe!SameKey, Pipe!Job
  <2> HIDE DEF j, k
  <2>6. Pipe!Carried(jobs, jobs')
    BY <2>2, <2>3, <2>5, Pipe!ReplacedCarried, PipeAssumptions
  <2>7. ~Idle("deploy") => InHand(jobs', Job)
    BY <1>1, <2>3 DEF InHand, RecordOf
  <2> QED
    BY <1>2, <2>6, <2>7
<1>8. ASSUME UNCHANGED server
      PROVE  /\ \A j : KnownIn(jobs, j) => KnownIn(jobs', j)
             /\ ~Idle("deploy") => InHand(jobs', Job)
  BY <1>1, <1>8 DEF server
<1> QED
  BY <1>4, <1>5, <1>6, <1>7, <1>8, QuietSteps DEF Next, WorkerStep

--------------------------------------------------------------------------------
(***************************************************************************)
(* The workers' side of a step.                                            *)
(***************************************************************************)

(* The forms a step takes of a worker's state keep its type.               *)
LEMMA WorkerForms ==
  ASSUME LocalTypes, NEW k \in Workers
  PROVE  /\ \A step \in Steps : Goes(k, step) => worker' \in [Workers -> Worker]
         /\ \A m \in Receipt : Ends(k, m) => worker' \in [Workers -> Worker]
         /\ Rests(k) => worker' \in [Workers -> Worker]
         /\ worker[k].job \in P!Job => Failed(worker[k].job) \in Receipt
         /\ worker[k].job \in P!Job => Uncertain(worker[k].job) \in Receipt
         /\ \A a \in Artifacts : Succeeded(a) \in Receipt
<1>1. worker \in [Workers -> Worker] /\ worker[k] \in Worker
  BY DEF LocalTypes
<1>2. \A step \in Steps : Goes(k, step) => worker' \in [Workers -> Worker]
  BY <1>1 DEF Goes, Worker
<1>3. ASSUME NEW m \in Receipt, Ends(k, m)
      PROVE  worker' \in [Workers -> Worker]
  <2>1. [worker[k] EXCEPT !.step = "ended", !.receipts = {m}] \in Worker
    BY <1>1 DEF Worker, Steps
  <2> QED
    BY <1>1, <1>3, <2>1 DEF Ends
<1>4. Rests(k) => worker' \in [Workers -> Worker]
  BY <1>1 DEF Rests, Worker, Steps
<1>5. /\ \A j \in P!Job : Failed(j) \in Receipt /\ Uncertain(j) \in Receipt
      /\ \A a \in Artifacts : Succeeded(a) \in Receipt
  BY DEF Failed, Uncertain, Succeeded, Receipt, P!Outcomes, P!ErrorCodes, P!Job
<1> QED
  BY <1>2, <1>3, <1>4, <1>5

(* Types are kept.                                                         *)
LEMMA StepTypes ==
  ASSUME RolloutInv, [Next]_vars
  PROVE  LocalTypes'
<1> USE DEF LocalTypes
<1>0. LocalTypes /\ "deploy" \in Workers /\ "build" \in Workers
  BY DEF RolloutInv, Workers, P!Kinds
<1>1. \A k \in Workers : worker[k].step \notin {"off", "idle"} => worker[k].job \in P!Job
  BY DEF RolloutInv, WorkersOK, Idle
<1>2. CASE UNCHANGED <<worker, dirs, target, stops>>
  BY <1>0, <1>2 DEF target
<1>3. ASSUME NEW k \in Workers, Take(k)
      PROVE  LocalTypes'
  <2>1. PICK accepted, j :
          /\ accepted \in BOOLEAN
          /\ Pipe!ClaimJob(j, accepted)
          /\ \/ worker' = [worker EXCEPT ![k].step = "taken", ![k].job = j]
             \/ UNCHANGED worker
    BY <1>3, SameSteps DEF Take
  <2>2. j \in P!Job
    BY <2>1, Pipe!ClaimedJob, PipeAssumptions, SameValues DEF RolloutInv
  <2>3. worker' \in [Workers -> Worker]
    BY <1>0, <2>1, <2>2 DEF Worker, Steps
  <2> QED
    BY <1>0, <1>3, <2>3 DEF Take, target
<1>4. ASSUME NEW k \in Workers, Refuse(k) \/ Fetch(k) \/ GiveUp(k)
      PROVE  LocalTypes'
  <2>1. worker' \in [Workers -> Worker]
    BY <1>0, <1>1, <1>4, WorkerForms DEF Refuse, Fetch, GiveUp, At, Steps
  <2> QED
    BY <1>0, <1>4, <2>1 DEF Refuse, Fetch, GiveUp, target
<1>5. ASSUME NEW k \in Workers, MakeDirectory(k)
      PROVE  LocalTypes'
  <2>1. worker' \in [Workers -> Worker] /\ worker[k].job \in P!Job
    BY <1>0, <1>1, <1>5, WorkerForms DEF MakeDirectory, At, Steps
  <2> DEFINE own == [job |-> worker[k].job, torn |-> TRUE, asked |-> FALSE, receipts |-> {}]
  <2>2. own \in Directory
    BY <2>1 DEF Directory
  <2>3. dirs' = [dirs EXCEPT ![k] = @ \cup {own}]
    BY <1>5 DEF MakeDirectory
  <2> HIDE DEF own
  <2>4. dirs' \in [Workers -> SUBSET Directory]
    BY <1>0, <2>2, <2>3
  <2> QED
    BY <1>0, <1>5, <2>1, <2>4 DEF MakeDirectory, target
<1>6. ASSUME NEW k \in Workers, NEW torn \in BOOLEAN, NEW receipts \in SUBSET Receipt,
             Rewrite(k, torn, receipts)
      PROVE  dirs' \in [Workers -> SUBSET Directory]
  <2> DEFINE new(d) == IF d.job = worker[k].job
                       THEN [d EXCEPT !.torn = torn, !.receipts = receipts] ELSE d
  <2>1. \A d \in Directory : new(d) \in Directory
    BY DEF Directory
  <2>2. dirs' = [dirs EXCEPT ![k] = {new(d) : d \in @}]
    BY <1>6 DEF Rewrite
  <2> HIDE DEF new
  <2>3. {new(d) : d \in dirs[k]} \subseteq Directory
    BY <1>0, <2>1
  <2> QED
    BY <1>0, <2>2, <2>3
<1>7. ASSUME NEW k \in Workers, WriteClaim(k)
      PROVE  LocalTypes'
  BY <1>0, <1>6, <1>7, WorkerForms DEF WriteClaim, Steps, target
<1>8. ASSUME NEW k \in Workers, WriteReceipt(k)
      PROVE  LocalTypes'
  <2>1. worker[k].receipts \in SUBSET Receipt
    BY <1>0 DEF Worker
  <2> QED
    BY <1>0, <1>6, <1>8, <2>1, WorkerForms DEF WriteReceipt, target
<1>9. ASSUME NEW k \in Workers, Stop(k)
      PROVE  LocalTypes'
  <2>1. worker' \in [Workers -> Worker] /\ stops' \in 0..MaxStops
    BY <1>0, <1>9, BoundsAssumption DEF Stop, Worker, Steps
  <2>2. dirs' \in [Workers -> SUBSET Directory]
    BY <1>0, <1>6, <1>9 DEF Stop
  <2> QED
    BY <1>0, <1>9, <2>1, <2>2 DEF Stop, target
<1>10. ASSUME NEW k \in Workers, Start(k)
       PROVE  LocalTypes'
  <2>1. worker' \in [Workers -> Worker]
    BY <1>0, <1>10, WorkerForms DEF Start
  <2> DEFINE new(d) == [d EXCEPT !.asked = @ \/ (~d.torn /\ d.receipts = {})]
  <2>2. dirs' \in [Workers -> SUBSET Directory]
    <3>1. \A d \in Directory : new(d) \in Directory
      BY DEF Directory
    <3>2. dirs' = [dirs EXCEPT ![k] = {new(d) : d \in @}]
      BY <1>10 DEF Start
    <3> HIDE DEF new
    <3>3. {new(d) : d \in dirs[k]} \subseteq Directory
      BY <1>0, <3>1
    <3> QED
      BY <1>0, <3>2, <3>3
  <2> QED
    BY <1>0, <1>10, <2>1, <2>2 DEF Start, target
<1>11. ASSUME NEW a \in Artifacts, Upload(a)
       PROVE  LocalTypes'
  <2>1. worker' \in [Workers -> Worker]
    BY <1>0, <1>1, <1>11, WorkerForms DEF Upload, At
  <2> QED
    BY <1>0, <1>11, <2>1 DEF Upload, target
<1>12. CASE Activation
  <2>1. Job \in P!Job /\ Job.input \in Artifacts
    <3>1. ~Idle("deploy")
      BY <1>12 DEF Activation, TakeLock, LockedOut, Reject, Replace, Serve, Commit, Falter,
                   Restore, LeaveLocked, Unlock, KeepLock, At, Doing, Idle
    <3> QED
      BY <1>0, <1>1, <3>1 DEF RolloutInv, HandOK, Job, Idle
  <2>2. Job.run \in P!RunIds /\ Job.comp \in Components
    BY <2>1 DEF P!Job
  <2>3. worker' \in [Workers -> Worker]
    <3>1. Failed(Job) \in Receipt /\ Uncertain(Job) \in Receipt /\ Succeeded(Job.input) \in Receipt
      BY <1>0, <2>1, WorkerForms DEF Job
    <3>2. \/ \E step \in Steps : Goes("deploy", step)
          \/ \E m \in Receipt : Ends("deploy", m)
      BY <1>12, <3>1
         DEF Activation, TakeLock, LockedOut, Reject, Replace, Serve, Commit, Falter,
             Restore, LeaveLocked, Unlock, KeepLock, Steps
    <3> QED
      BY <1>0, <3>2, WorkerForms
  <2>4. /\ lock' \in [Components -> P!RunIds \cup {None}]
        /\ files' \in [Components -> Artifacts \cup {None, Mixed}]
        /\ current' \in [Components -> Artifacts \cup {None}]
        /\ UNCHANGED <<dirs, stops>>
    BY <1>0, <1>12, <2>1, <2>2
       DEF Activation, TakeLock, LockedOut, Reject, Replace, Serve, Commit, Falter,
           Restore, LeaveLocked, Unlock, KeepLock, target
  <2> QED
    BY <1>0, <2>3, <2>4
<1>13. UNCHANGED vars => UNCHANGED <<worker, dirs, target, stops>>
  BY DEF vars
<1> QED
  BY <1>2, <1>3, <1>4, <1>5, <1>7, <1>8, <1>9, <1>10, <1>11, <1>12, <1>13
     DEF Next, WorkerStep, ServerStep, Deliver

(* Workers hold jobs they were handed, and receipts the server accepts.    *)
LEMMA StepWorkers ==
  ASSUME RolloutInv, [Next]_vars
  PROVE  WorkersOK'
<1> DEFINE Fine(k) == /\ IF Idle(k) THEN worker[k].job = NoJob
                         ELSE /\ worker[k].job \in P!Job /\ worker[k].job.kind = k
                              /\ KnownIn(jobs, worker[k].job)
                      /\ ~At(k, "ended") => worker[k].receipts = {}
                      /\ WellCoded(worker[k].receipts)
<1>0. /\ "deploy" \in Workers /\ "build" \in Workers
      /\ worker \in [Workers -> Worker]
      /\ \A k \in Workers : Fine(k)
      /\ \A j : KnownIn(jobs, j) => KnownIn(jobs', j)
      /\ \A k \in Workers : Idle(k) <=> worker[k].step \in {"off", "idle"}
  BY StepJobs DEF RolloutInv, LocalTypes, WorkersOK, Workers, P!Kinds, Idle
<1>1. ASSUME NEW k \in Workers, worker'[k] = worker[k]
      PROVE  Fine(k)'
  BY <1>0, <1>1 DEF Idle, At, WellCoded
<1>2. ASSUME NEW k \in Workers, ~Idle(k), ~At(k, "ended"),
             NEW step \in Steps \ {"off", "idle", "ended"}, Goes(k, step)
      PROVE  WorkersOK'
  <2>1. /\ worker'[k].job = worker[k].job /\ worker'[k].step = step
        /\ worker'[k].receipts = worker[k].receipts
        /\ \A q \in Workers \ {k} : worker'[q] = worker[q]
    BY <1>0, <1>2 DEF Goes, Worker
  <2>2. Fine(k)'
    BY <1>0, <1>2, <2>1 DEF Idle, At, WellCoded
  <2> QED
    BY <1>1, <2>1, <2>2 DEF WorkersOK
<1>3. ASSUME NEW k \in Workers, ~Idle(k), NEW m \in Receipt, m.code \in P!Codes(m.status),
             Ends(k, m)
      PROVE  WorkersOK'
  <2>1. /\ worker'[k].job = worker[k].job /\ worker'[k].step = "ended"
        /\ worker'[k].receipts = {m}
        /\ \A q \in Workers \ {k} : worker'[q] = worker[q]
    BY <1>0, <1>3 DEF Ends, Worker
  <2>2. Fine(k)'
    BY <1>0, <1>3, <2>1 DEF Idle, At, WellCoded
  <2> QED
    BY <1>1, <2>1, <2>2 DEF WorkersOK
<1>4. ASSUME NEW k \in Workers, NEW step \in {"off", "idle"},
             worker' = [worker EXCEPT ![k] = [step |-> step, job |-> NoJob, receipts |-> {}]]
      PROVE  WorkersOK'
  <2>1. /\ worker'[k] = [step |-> step, job |-> NoJob, receipts |-> {}]
        /\ \A q \in Workers \ {k} : worker'[q] = worker[q]
    BY <1>0, <1>4
  <2>2. Fine(k)'
    BY <2>1 DEF Idle, At, WellCoded
  <2> QED
    BY <1>1, <2>1, <2>2 DEF WorkersOK
<1>5. ASSUME NEW k \in Workers, Take(k)
      PROVE  WorkersOK'
  <2>1. PICK accepted, j :
          /\ accepted \in BOOLEAN
          /\ j.kind = k /\ Pipe!ClaimJob(j, accepted)
          /\ \/ worker' = [worker EXCEPT ![k].step = "taken", ![k].job = j]
             \/ UNCHANGED worker
    BY <1>5, SameSteps DEF Take
  <2>2. CASE UNCHANGED worker
    BY <1>1, <2>2 DEF WorkersOK
  <2>3. CASE worker' = [worker EXCEPT ![k].step = "taken", ![k].job = j]
    <3>1. /\ j \in Pipe!Job
          /\ \E h \in jobs' : Pipe!SameWork(j, h) /\ h.status = "working"
      BY <2>1, Pipe!ClaimedJob, PipeAssumptions DEF RolloutInv
    <3>2. j \in P!Job /\ KnownIn(jobs', j)
      BY <3>1, SameValues DEF KnownIn, RecordOf, Pipe!SameWork, Pipe!SameKey
    <3>3. /\ worker'[k].job = j /\ worker'[k].step = "taken"
          /\ worker'[k].receipts = worker[k].receipts
          /\ \A q \in Workers \ {k} : worker'[q] = worker[q]
      BY <1>0, <2>3 DEF Worker
    <3>4. worker[k].receipts = {}
      BY <1>0, <1>5 DEF Take, At
    <3>5. Fine(k)'
      BY <2>1, <3>2, <3>3, <3>4 DEF Idle, At, WellCoded
    <3> QED
      BY <1>1, <3>3, <3>5 DEF WorkersOK
  <2> QED
    BY <2>1, <2>2, <2>3
<1>6. \A k \in Workers : ~Idle(k) =>
        /\ Failed(worker[k].job) \in Receipt /\ Uncertain(worker[k].job) \in Receipt
        /\ Failed(worker[k].job).code \in P!Codes(Failed(worker[k].job).status)
        /\ Uncertain(worker[k].job).code \in P!Codes(Uncertain(worker[k].job).status)
  BY <1>0, WorkerForms DEF RolloutInv, Failed, Uncertain, P!Codes, P!ErrorCodes
<1>7. \A a \in Artifacts : Succeeded(a) \in Receipt /\ Succeeded(a).code \in P!Codes(Succeeded(a).status)
  BY <1>0, WorkerForms DEF RolloutInv, Succeeded, P!Codes
<1>8. CASE ServerStep \/ (\E k \in Workers : \E d \in dirs[k] : Deliver(k, d)) \/ UNCHANGED vars
  <2>1. UNCHANGED worker
    BY <1>8 DEF ServerStep, Deliver, vars
  <2> QED
    BY <1>1, <2>1 DEF WorkersOK
<1>9. ASSUME NEW k \in Workers,
             \/ Refuse(k) \/ MakeDirectory(k) \/ WriteClaim(k) \/ Fetch(k) \/ GiveUp(k)
             \/ WriteReceipt(k) \/ Stop(k) \/ Start(k)
      PROVE  WorkersOK'
  <2>1. CASE Refuse(k) \/ WriteReceipt(k)
    BY <1>4, <2>1 DEF Refuse, WriteReceipt, Rests
  <2>2. CASE MakeDirectory(k) \/ WriteClaim(k) \/ Fetch(k)
    BY <1>2, <2>2 DEF MakeDirectory, WriteClaim, Fetch, At, Idle, Steps
  <2>3. CASE GiveUp(k)
    BY <1>3, <1>6, <2>3 DEF GiveUp, At, Idle
  <2>4. CASE Stop(k)
    BY <1>4, <2>4 DEF Stop
  <2>5. CASE Start(k)
    <3>1. UNCHANGED worker \/ Rests(k)
      BY <2>5 DEF Start
    <3>2. CASE UNCHANGED worker
      BY <1>1, <3>2 DEF WorkersOK
    <3> QED
      BY <1>4, <3>1, <3>2 DEF Rests
  <2> QED
    BY <1>9, <2>1, <2>2, <2>3, <2>4, <2>5
<1>10. ASSUME NEW a \in Artifacts, Upload(a)
       PROVE  WorkersOK'
  BY <1>0, <1>3, <1>6, <1>7, <1>10 DEF Upload, At, Idle
<1>11. CASE Activation
  <2>1. ~Idle("deploy") /\ ~At("deploy", "ended")
    BY <1>11 DEF Activation, TakeLock, LockedOut, Reject, Replace, Serve, Commit, Falter,
                 Restore, LeaveLocked, Unlock, KeepLock, At, Doing, Idle
  <2>2. Job.input \in Artifacts
    BY <2>1 DEF RolloutInv, HandOK
  <2>3. \/ \E step \in Steps \ {"off", "idle", "ended"} : Goes("deploy", step)
        \/ \E m \in {Failed(Job), Uncertain(Job), Succeeded(Job.input)} : Ends("deploy", m)
    BY <1>11
       DEF Activation, TakeLock, LockedOut, Reject, Replace, Serve, Commit, Falter,
           Restore, LeaveLocked, Unlock, KeepLock, Steps
  <2> QED
    BY <1>0, <1>2, <1>3, <1>6, <1>7, <2>1, <2>2, <2>3 DEF Job
<1> QED
  BY <1>5, <1>8, <1>9, <1>10, <1>11 DEF Next, WorkerStep

(* Rewriting the directory of the job at hand leaves the others alone.     *)
LEMMA RewrittenDirs ==
  ASSUME LocalTypes, NEW k \in Workers, NEW torn, NEW receipts, Rewrite(k, torn, receipts)
  PROVE  /\ \A q \in Workers \ {k} : dirs'[q] = dirs[q]
         /\ \A e \in dirs'[k] : \E d \in dirs[k] :
              /\ e.job = d.job /\ e.asked = d.asked
              /\ IF d.job = worker[k].job THEN e.receipts = receipts ELSE e = d
         /\ \A d \in dirs[k] : \E e \in dirs'[k] : e.job = d.job
<1> DEFINE new(d) == [d EXCEPT !.torn = torn, !.receipts = receipts]
<1>1. \A d \in dirs[k] :
        new(d).job = d.job /\ new(d).asked = d.asked /\ new(d).receipts = receipts
  BY DEF LocalTypes, Directory
<1>2. /\ \A q \in Workers \ {k} : dirs'[q] = dirs[q]
      /\ dirs'[k] = {IF d.job = worker[k].job THEN new(d) ELSE d : d \in dirs[k]}
  BY DEF Rewrite, LocalTypes
<1> HIDE DEF new
<1>3. ASSUME NEW e \in dirs'[k]
      PROVE  \E d \in dirs[k] : /\ e.job = d.job /\ e.asked = d.asked
                                /\ IF d.job = worker[k].job THEN e.receipts = receipts ELSE e = d
  <2>1. PICK d \in dirs[k] : e = IF d.job = worker[k].job THEN new(d) ELSE d
    BY <1>2
  <2> QED
    BY <1>1, <2>1
<1>4. ASSUME NEW d \in dirs[k]
      PROVE  \E e \in dirs'[k] : e.job = d.job
  <2>1. (IF d.job = worker[k].job THEN new(d) ELSE d) \in dirs'[k]
    BY <1>2
  <2> QED
    BY <1>1, <2>1
<1> QED
  BY <1>2, <1>3, <1>4

(* So do a start and a new directory.                                      *)
LEMMA StartedDirs ==
  ASSUME LocalTypes, NEW k \in Workers, Start(k)
  PROVE  /\ \A q \in Workers \ {k} : dirs'[q] = dirs[q]
         /\ \A e \in dirs'[k] : \E d \in dirs[k] : e.job = d.job /\ e.receipts = d.receipts
         /\ \A d \in dirs[k] : \E e \in dirs'[k] : e.job = d.job
<1> DEFINE marked(d) == [d EXCEPT !.asked = @ \/ (~d.torn /\ d.receipts = {})]
<1>1. \A d \in dirs[k] : marked(d).job = d.job /\ marked(d).receipts = d.receipts
  BY DEF LocalTypes, Directory
<1>2. /\ \A q \in Workers \ {k} : dirs'[q] = dirs[q]
      /\ dirs'[k] = {marked(d) : d \in dirs[k]}
  BY DEF Start, LocalTypes
<1> HIDE DEF marked
<1> QED
  BY <1>1, <1>2

(* A new directory is added to those there are.                            *)
LEMMA MadeDirs ==
  ASSUME LocalTypes, NEW k \in Workers, MakeDirectory(k)
  PROVE  /\ \A q \in Workers \ {k} : dirs'[q] = dirs[q]
         /\ \E own : /\ dirs'[k] = dirs[k] \cup {own}
                     /\ own.job = worker[k].job /\ own.receipts = {} /\ ~own.asked
<1> DEFINE own == [job |-> worker[k].job, torn |-> TRUE, asked |-> FALSE, receipts |-> {}]
<1>1. own.job = worker[k].job /\ own.receipts = {} /\ ~own.asked
  OBVIOUS
<1>2. dirs' = [dirs EXCEPT ![k] = @ \cup {own}]
  BY DEF MakeDirectory
<1> HIDE DEF own
<1> QED
  BY <1>1, <1>2 DEF LocalTypes

(* Claim directories are of jobs that were handed out.                     *)
LEMMA StepDirs ==
  ASSUME RolloutInv, [Next]_vars
  PROVE  DirsOK'
<1> DEFINE Fine(k, e) == e.job.kind = k /\ KnownIn(jobs', e.job) /\ WellCoded(e.receipts)
<1>0. /\ LocalTypes /\ WellCoded({})
      /\ \A k \in Workers : \A d \in dirs[k] : Fine(k, d)
      /\ \A k \in Workers : ~Idle(k) => worker[k].job.kind = k /\ KnownIn(jobs', worker[k].job)
      /\ \A k \in Workers : WellCoded(worker[k].receipts)
  BY StepJobs DEF RolloutInv, DirsOK, WorkersOK, WellCoded
<1>1. SUFFICES \A k \in Workers : \A e \in dirs'[k] : Fine(k, e)
  BY DEF DirsOK, WellCoded
<1>2. CASE UNCHANGED dirs
  BY <1>0, <1>2
<1>3. ASSUME NEW k \in Workers, MakeDirectory(k)
      PROVE  \A q \in Workers : \A e \in dirs'[q] : Fine(q, e)
  <2>1. ~Idle(k)
    BY <1>3 DEF MakeDirectory, At, Idle
  <2>2. PICK own : /\ dirs'[k] = dirs[k] \cup {own}
                   /\ own.job = worker[k].job /\ own.receipts = {}
    BY <1>0, <1>3, MadeDirs
  <2>3. Fine(k, own)
    BY <1>0, <2>1, <2>2
  <2>4. \A q \in Workers \ {k} : dirs'[q] = dirs[q]
    BY <1>0, <1>3, MadeDirs
  <2> HIDE DEF Fine
  <2> QED
    BY <1>0, <2>2, <2>3, <2>4
<1>4. ASSUME NEW k \in Workers, NEW torn, NEW receipts, WellCoded(receipts),
             Rewrite(k, torn, receipts)
      PROVE  \A q \in Workers : \A e \in dirs'[q] : Fine(q, e)
  BY <1>0, <1>4, RewrittenDirs
<1>5. ASSUME NEW k \in Workers, Start(k)
      PROVE  \A q \in Workers : \A e \in dirs'[q] : Fine(q, e)
  BY <1>0, <1>5, StartedDirs
<1>6. ASSUME NEW k \in Workers, WriteClaim(k) \/ WriteReceipt(k) \/ Stop(k)
      PROVE  \A q \in Workers : \A e \in dirs'[q] : Fine(q, e)
  BY <1>0, <1>2, <1>4, <1>6 DEF WriteClaim, WriteReceipt, Stop
<1>7. \/ UNCHANGED dirs
      \/ \E k \in Workers : \/ MakeDirectory(k) \/ Start(k)
                            \/ WriteClaim(k) \/ WriteReceipt(k) \/ Stop(k)
  BY DEF Next, ServerStep, WorkerStep, Upload, Activation, Take, Refuse, Fetch, GiveUp, Deliver,
         TakeLock, LockedOut, Reject, Replace, Serve, Commit, Falter, Restore, LeaveLocked,
         Unlock, KeepLock, vars
<1> QED
  BY <1>2, <1>3, <1>5, <1>6, <1>7

(* The activation in hand is the last one taken up for its component.      *)
LEMMA StepHand ==
  ASSUME RolloutInv, [Next]_vars
  PROVE  HandOK'
<1> DEFINE w == worker["deploy"]
           Ours(d) == d.job = Job /\ d.receipts = {} /\ ~d.asked
<1>0. /\ "deploy" \in Workers /\ LocalTypes /\ w \in Worker /\ HandOK
      /\ ~Idle("deploy") => InHand(jobs', Job)
  BY StepJobs DEF RolloutInv, LocalTypes, Workers, P!Kinds
<1>1. ASSUME worker'["deploy"] = w, dirs'["deploy"] = dirs["deploy"]
      PROVE  HandOK'
  BY <1>0, <1>1 DEF HandOK, Idle, Doing, At, Job
<1>2. CASE Idle("deploy")'
  BY <1>2 DEF HandOK
<1>3. ASSUME ~Idle("deploy"), ~Doing("taken"), ~Doing("taken")', Job' = Job,
             dirs'["deploy"] = dirs["deploy"]
      PROVE  HandOK'
  BY <1>0, <1>3 DEF HandOK
<1>4. ASSUME Take("deploy")
      PROVE  HandOK'
  <2>1. PICK accepted, j :
          /\ accepted \in BOOLEAN
          /\ j.kind = "deploy" /\ Pipe!ClaimJob(j, accepted)
          /\ \/ worker' = [worker EXCEPT !["deploy"].step = "taken", !["deploy"].job = j]
             \/ UNCHANGED worker
    BY <1>4, SameSteps DEF Take
  <2>2. UNCHANGED dirs
    BY <1>4 DEF Take
  <2>3. CASE UNCHANGED worker
    BY <1>1, <2>2, <2>3
  <2>4. CASE worker' = [worker EXCEPT !["deploy"].step = "taken", !["deploy"].job = j]
    <3>1. /\ \E h \in jobs' : Pipe!SameWork(j, h) /\ h.status = "working"
          /\ j.input \in Artifacts
          /\ \A h \in jobs : h.kind = "deploy" /\ h.status # "queued" /\ h.comp = j.comp =>
               h.run < j.run
      BY <2>1, Pipe!ClaimedJob, PipeAssumptions DEF RolloutInv
    <3>2. InHand(jobs', j)
      BY <3>1 DEF InHand, RecordOf, Pipe!SameWork, Pipe!SameKey
    <3>3. Job' = j /\ worker'["deploy"].step = "taken"
      BY <1>0, <2>4 DEF Job, LocalTypes, Worker
    <3>4. \A d \in dirs["deploy"] : d.job.comp = j.comp => d.job.run < j.run
      BY <1>0, <3>1 DEF RolloutInv, DirsOK, KnownIn, RecordOf
    <3> QED
      BY <2>2, <3>1, <3>2, <3>3, <3>4 DEF HandOK, Doing, At
  <2> QED
    BY <2>1, <2>3, <2>4
<1>5. ASSUME NEW step \in Steps \ {"taken"}, ~Idle("deploy"), Goes("deploy", step)
      PROVE  Job' = Job /\ ~Doing("taken")'
  BY <1>0, <1>5 DEF Goes, Job, Doing, At, LocalTypes, Worker
<1>6. ASSUME NEW m, Ends("deploy", m)
      PROVE  Job' = Job /\ ~Doing("taken")'
  BY <1>0, <1>6 DEF Ends, Job, Doing, At, LocalTypes, Worker
<1>7. ASSUME MakeDirectory("deploy")
      PROVE  HandOK'
  <2>1. ~Idle("deploy") /\ Doing("taken") /\ Job' = Job /\ ~Doing("taken")'
    BY <1>5, <1>7 DEF MakeDirectory, At, Idle, Doing, Steps
  <2>2. PICK own : /\ dirs'["deploy"] = dirs["deploy"] \cup {own}
                   /\ own.job = Job /\ own.receipts = {} /\ ~own.asked
    BY <1>0, <1>7, MadeDirs DEF Job
  <2> QED
    BY <1>0, <2>1, <2>2 DEF HandOK
<1>8. ASSUME WriteClaim("deploy")
      PROVE  HandOK'
  <2>1. ~Idle("deploy") /\ ~Doing("taken") /\ Job' = Job /\ ~Doing("taken")'
    BY <1>5, <1>8 DEF WriteClaim, At, Idle, Doing, Steps
  <2>2. /\ \A e \in dirs'["deploy"] : \E d \in dirs["deploy"] :
             /\ e.job = d.job /\ e.asked = d.asked
             /\ IF d.job = Job THEN e.receipts = {} ELSE e = d
        /\ \A d \in dirs["deploy"] : \E e \in dirs'["deploy"] : e.job = d.job
    <3>1. \E torn : Rewrite("deploy", torn, {})
      BY <1>8 DEF WriteClaim
    <3> QED
      BY <1>0, <3>1, RewrittenDirs DEF Job
  <2> QED
    BY <1>0, <2>1, <2>2 DEF HandOK
<1>9. ASSUME Fetch("deploy") \/ GiveUp("deploy") \/ Activation
      PROVE  HandOK'
  <2>1. ~Idle("deploy") /\ ~Doing("taken") /\ UNCHANGED dirs
    BY <1>9 DEF Fetch, GiveUp, Activation, TakeLock, LockedOut, Reject, Replace, Serve, Commit,
                Falter, Restore, LeaveLocked, Unlock, KeepLock, At, Doing, Idle
  <2>2. \/ \E step \in Steps \ {"taken"} : Goes("deploy", step)
        \/ \E m : Ends("deploy", m)
    BY <1>9 DEF Fetch, GiveUp, Activation, TakeLock, LockedOut, Reject, Replace, Serve, Commit,
                Falter, Restore, LeaveLocked, Unlock, KeepLock, Steps
  <2> QED
    BY <1>3, <1>5, <1>6, <2>1, <2>2
<1>10. ASSUME Refuse("deploy") \/ WriteReceipt("deploy") \/ Stop("deploy") \/ Start("deploy")
       PROVE  HandOK'
  <2>1. CASE Refuse("deploy") \/ WriteReceipt("deploy")
    <3>1. Rests("deploy")
      BY <2>1 DEF Refuse, WriteReceipt
    <3>2. worker'["deploy"].step = "idle"
      BY <1>0, <3>1 DEF Rests, LocalTypes
    <3> QED
      BY <1>2, <3>2 DEF Idle
  <2>2. CASE Stop("deploy")
    BY <1>0, <1>2, <2>2 DEF Stop, Idle, LocalTypes
  <2>3. CASE Start("deploy")
    <3>1. worker'["deploy"].step \in {"off", "idle"}
      BY <1>0, <2>3 DEF Start, At, Rests, LocalTypes
    <3> QED
      BY <1>2, <3>1 DEF Idle
  <2> QED
    BY <1>10, <2>1, <2>2, <2>3
<1>11. ASSUME NEW k \in Workers, k # "deploy", WorkerStep(k)
       PROVE  worker'["deploy"] = w /\ dirs'["deploy"] = dirs["deploy"]
  BY <1>0, <1>11
     DEF WorkerStep, Take, Refuse, MakeDirectory, WriteClaim, Fetch, GiveUp, WriteReceipt, Stop,
         Start, Deliver, Goes, Ends, Rests, Rewrite, LocalTypes
<1>12. ASSUME \/ ServerStep \/ (\E a \in Artifacts : Upload(a)) \/ UNCHANGED vars
              \/ \E d \in dirs["deploy"] : Deliver("deploy", d)
       PROVE  worker'["deploy"] = w /\ dirs'["deploy"] = dirs["deploy"]
  BY <1>0, <1>12 DEF ServerStep, Upload, Ends, Deliver, vars, LocalTypes
<1> QED
  BY <1>1, <1>4, <1>7, <1>8, <1>9, <1>10, <1>11, <1>12 DEF Next, WorkerStep

(* The lock is the activation's own while it works on the destination, and *)
(* it lets go of it only with one release whole in place.                  *)
LEMMA StepLock ==
  ASSUME RolloutInv, [Next]_vars
  PROVE  LockOK'
<1> DEFINE w == worker["deploy"]
<1>0. /\ "deploy" \in Workers /\ LocalTypes /\ w \in Worker /\ LockOK
      /\ ~Idle("deploy") => Job.run \in P!RunIds /\ Job.comp \in Components
  BY DEF RolloutInv, LocalTypes, WorkersOK, Workers, P!Kinds, P!Job, Job
<1>1. ASSUME UNCHANGED target, worker'["deploy"] = w \/ worker'["deploy"].step \notin Locking
      PROVE  LockOK'
  BY <1>0, <1>1 DEF LockOK, UnlockedIsWhole, target, Job, Locking
<1>2. ASSUME NEW step \in Steps, Goes("deploy", step)
      PROVE  Job' = Job /\ worker'["deploy"].step = step
  BY <1>0, <1>2 DEF Goes, Job, LocalTypes, Worker
<1>3. ASSUME NEW m, Ends("deploy", m)
      PROVE  worker'["deploy"].step \notin Locking
  BY <1>0, <1>3 DEF Ends, LocalTypes, Worker, Locking
<1>4. None \notin P!RunIds
  BY NoneAssumption DEF P!RunIds
<1>5. CASE Activation
  <2>1. ~Idle("deploy")
    BY <1>5 DEF Activation, TakeLock, LockedOut, Reject, Replace, Serve, Commit, Falter,
                Restore, LeaveLocked, Unlock, KeepLock, At, Doing, Idle
  <2>2. CASE LockedOut \/ LeaveLocked \/ KeepLock
    BY <1>1, <1>3, <2>2 DEF LockedOut, LeaveLocked, KeepLock
  <2>3. CASE Unlock
    BY <1>0, <1>3, <2>1, <2>3
       DEF Unlock, LockOK, UnlockedIsWhole, LocalTypes, Doing, At, Locking
  <2>4. CASE TakeLock \/ Reject
    <3>1. Job' = Job /\ worker'["deploy"].step \in {"locked", "restored"} /\ UNCHANGED <<files, current>>
      BY <1>2, <2>4 DEF TakeLock, Reject, target, Steps
    <3>2. lock'[Job.comp] = Job.run /\ \A c \in Components : c # Job.comp => lock'[c] = lock[c]
      BY <1>0, <2>1, <2>4 DEF TakeLock, Reject, target, LocalTypes, LockOK, Doing, At, Locking
    <3>3. files[Job.comp] = current[Job.comp]
      BY <1>0, <2>1, <2>4 DEF TakeLock, Reject, LockOK, UnlockedIsWhole, Free, Doing, At
    <3> QED
      BY <1>0, <1>4, <2>1, <3>1, <3>2, <3>3 DEF LockOK, UnlockedIsWhole, Locking
  <2>5. CASE Replace \/ Serve \/ Falter \/ Restore
    <3>1. Job' = Job /\ UNCHANGED <<lock, current>> /\ lock[Job.comp] = Job.run
      BY <1>0, <1>2, <2>5 DEF Replace, Serve, Falter, Restore, Steps, LockOK, Locking, Doing, At
    <3>2. /\ \A c \in Components : c # Job.comp => files'[c] = files[c]
          /\ \/ worker'["deploy"].step \in {"replacing", "restoring"}
             \/ worker'["deploy"].step = "serving" /\ files'[Job.comp] = Job.input
             \/ worker'["deploy"].step = "restored" /\ files'[Job.comp] = current[Job.comp]
      BY <1>0, <1>2, <2>1, <2>5 DEF Replace, Serve, Falter, Restore, Steps, LocalTypes
    <3> QED
      BY <1>0, <1>4, <2>1, <3>1, <3>2 DEF LockOK, UnlockedIsWhole, Locking
  <2>6. CASE Commit
    <3>1. /\ Job' = Job /\ worker'["deploy"].step = "activated" /\ UNCHANGED <<lock, files>>
          /\ lock[Job.comp] = Job.run /\ files[Job.comp] = Job.input
      BY <1>0, <1>2, <2>6 DEF Commit, Steps, LockOK, Locking, Doing, At
    <3>2. /\ \A c \in Components : c # Job.comp => current'[c] = current[c]
          /\ current'[Job.comp] = Job.input
      BY <1>0, <2>1, <2>6 DEF Commit, LocalTypes
    <3> QED
      BY <1>0, <1>4, <2>1, <3>1, <3>2 DEF LockOK, UnlockedIsWhole, Locking
  <2> QED
    BY <1>5, <2>2, <2>3, <2>4, <2>5, <2>6 DEF Activation
<1>6. CASE ServerStep \/ (\E a \in Artifacts : Upload(a)) \/ UNCHANGED vars
  <2>1. UNCHANGED target /\ worker'["deploy"] = w
    BY <1>0, <1>6 DEF ServerStep, Upload, Ends, vars, LocalTypes
  <2> QED
    BY <1>1, <2>1
<1>7. ASSUME NEW k \in Workers, WorkerStep(k)
      PROVE  LockOK'
  <2>1. UNCHANGED target
    BY <1>7 DEF WorkerStep, Take, Refuse, MakeDirectory, WriteClaim, Fetch, GiveUp,
                WriteReceipt, Stop, Start, Deliver
  <2>2. worker'["deploy"] = w \/ worker'["deploy"].step \notin Locking
    <3>1. CASE UNCHANGED worker
      BY <3>1
    <3>2. ASSUME NEW step \in {"made", "claimed", "fetched"}, Goes(k, step)
          PROVE  worker'["deploy"] = w \/ worker'["deploy"].step \notin Locking
      BY <1>0, <3>2 DEF Goes, LocalTypes, Worker, Locking
    <3>3. ASSUME NEW m, Ends(k, m)
          PROVE  worker'["deploy"] = w \/ worker'["deploy"].step \notin Locking
      BY <1>0, <3>3 DEF Ends, LocalTypes, Worker, Locking
    <3>4. ASSUME NEW step \in {"off", "idle"},
                 worker' = [worker EXCEPT ![k] = [step |-> step, job |-> NoJob, receipts |-> {}]]
          PROVE  worker'["deploy"] = w \/ worker'["deploy"].step \notin Locking
      BY <1>0, <3>4 DEF LocalTypes, Locking
    <3>5. CASE Take(k)
      BY <1>0, <3>5 DEF Take, LocalTypes, Worker, Locking
    <3> QED
      BY <1>7, <3>1, <3>2, <3>3, <3>4, <3>5
         DEF WorkerStep, Refuse, MakeDirectory, WriteClaim, Fetch, GiveUp, WriteReceipt,
             Stop, Start, Deliver, Rests
  <2> QED
    BY <1>1, <2>1, <2>2
<1> QED
  BY <1>5, <1>6, <1>7 DEF Next

--------------------------------------------------------------------------------
(***************************************************************************)
(* The theorems.                                                           *)
(***************************************************************************)

(* Nothing is handed out, and no destination touched, at first.            *)
LEMMA InitRolloutInv == Init => RolloutInv
<1> SUFFICES ASSUME Init PROVE RolloutInv
  OBVIOUS
<1>1. Pipe!FullInv
  BY Pipe!InitFullInv, PipeAssumptions, SameValues DEF Init
<1>2. LocalTypes
  BY BoundsAssumption DEF Init, LocalTypes, Worker, Steps
<1>3. \A k \in Workers : worker[k] = [step |-> "idle", job |-> NoJob, receipts |-> {}] /\ dirs[k] = {}
  BY DEF Init
<1>4. "deploy" \in Workers
  BY DEF Workers, P!Kinds
<1>5. WorkersOK /\ DirsOK /\ HandOK
  BY <1>3, <1>4 DEF WorkersOK, DirsOK, HandOK, Idle, At, WellCoded
<1>6. LockOK
  BY <1>3, <1>4 DEF Init, LockOK, UnlockedIsWhole, Locking
<1> QED
  BY <1>1, <1>2, <1>5, <1>6 DEF RolloutInv

(* The invariant is inductive.                                             *)
LEMMA NextRolloutInv == RolloutInv /\ [Next]_vars => RolloutInv'
BY StepFullInv, StepTypes, StepWorkers, StepDirs, StepHand, StepLock DEF RolloutInv

(* Every reachable state satisfies it.                                     *)
LEMMA RolloutInvariant == Spec => []RolloutInv
BY InitRolloutInv, NextRolloutInv, PTL DEF Spec

(* The types hold of the server's records, the workers and the destination *)
(* together (ComponentExecutor.cjs:497-560).                               *)
THEOREM TypesHold == Spec => []TypeOK
<1>1. RolloutInv => TypeOK
  BY Pipe!IInvImplies, PipeAssumptions, SameValues
     DEF RolloutInv, Pipe!FullInv, Pipe!SafetyInv, LocalTypes, TypeOK
<1> QED
  BY <1>1, RolloutInvariant, PTL

(* An unlocked destination is never a mixture of two releases, whenever    *)
(* the worker is stopped (activate, ComponentExecutor.cjs:464-476).        *)
THEOREM UnlockedHoldsOneRelease == Spec => []UnlockedIsWhole
<1>1. RolloutInv => UnlockedIsWhole
  BY DEF RolloutInv, LockOK
<1> QED
  BY <1>1, RolloutInvariant, PTL

(* No destination is touched for a run that has ended: a run does not end  *)
(* while the server waits for an activation (component-deployments.ts:586- *)
(* 610), and the worker at work is waited for.                             *)
THEOREM NoLateChange == Spec => []NoChangeUnderEndedRun
<1>1. RolloutInv => NoChangeUnderEndedRun
  <2> SUFFICES ASSUME RolloutInv, Doing("replacing") \/ Doing("serving") \/ Doing("restoring")
               PROVE  P!Pending(runs[Job.run])
    BY DEF NoChangeUnderEndedRun
  <2>1. "deploy" \in Workers /\ ~Idle("deploy")
    BY DEF Doing, At, Idle, Workers, P!Kinds
  <2>2. PICK h \in jobs : RecordOf(h, Job) /\ h.status = "working"
    BY <2>1 DEF RolloutInv, HandOK, InHand
  <2>3. h.run = Job.run /\ h.kind = "deploy" /\ Pipe!Unsettled(h)
    BY <2>1, <2>2 DEF RolloutInv, WorkersOK, RecordOf, Job, Pipe!Unsettled
  <2>4. Pipe!Pending(runs[h.run])
    BY <2>3, Pipe!UnsettledIsPending, PipeAssumptions DEF RolloutInv
  <2> QED
    BY <2>3, <2>4, SameValues
<1> QED
  BY <1>1, RolloutInvariant, PTL

--------------------------------------------------------------------------------
(***************************************************************************)
(* The destinations are those of Destination.                              *)
(***************************************************************************)

(* The last of a set of runs.                                              *)
LatestOf(H) == IF H = {} THEN 0 ELSE CHOOSE r \in H : \A q \in H : q <= r
Handled(c)  == {d.job.run : d \in {e \in dirs["deploy"] : e.job.comp = c}}

(* There is one, and it is the one no other exceeds.                       *)
LEMMA LatestOfRuns ==
  ASSUME NEW H \in SUBSET P!RunIds
  PROVE  /\ \A r \in H : (\A q \in H : q <= r) => LatestOf(H) = r
         /\ H # {} => LatestOf(H) \in H
         /\ H = {} => LatestOf(H) = 0
<1>1. ASSUME NEW r \in H, \A q \in H : q <= r
      PROVE  LatestOf(H) = r
  <2>1. \A x \in H : (\A q \in H : q <= x) => x = r
    BY <1>1 DEF P!RunIds
  <2> QED
    BY <1>1, <2>1 DEF LatestOf
<1>2. H # {} => \E r \in H : \A q \in H : q <= r
  BY Pipe!LastOfRuns, PipeAssumptions, SameValues
<1> QED
  BY <1>1, <1>2 DEF LatestOf

(* The run taken up last for each destination, and what is done for it.    *)
Taken  == [c \in Components |-> LatestJob(c)]
Phases == [c \in Components |-> Phase(c)]
PhaseOf(step) ==
  IF step \in {"made", "claimed", "fetched"} THEN "begun"
  ELSE IF step \in {"taken", "ended"} THEN "rest"
  ELSE IF step = "activated" THEN "switched"
  ELSE "held"

(* The directories name the runs that were handled.                        *)
LEMMA HandledRuns ==
  ASSUME LocalTypes, NEW c
  PROVE  Handled(c) \in SUBSET P!RunIds /\ LatestJob(c) = LatestOf(Handled(c))
<1>1. "deploy" \in Workers
  BY DEF Workers, P!Kinds
<1> QED
  BY <1>1 DEF LocalTypes, Directory, P!Job, Handled, LatestJob, LatestOf

(* A step that keeps the jobs of the directories keeps what was taken up.  *)
LEMMA SameTaken ==
  ASSUME LocalTypes, LocalTypes',
         \A e \in dirs'["deploy"] : \E d \in dirs["deploy"] : e.job = d.job,
         \A d \in dirs["deploy"] : \E e \in dirs'["deploy"] : e.job = d.job
  PROVE  Taken' = Taken
<1>1. ASSUME NEW c \in Components
      PROVE  LatestJob(c)' = LatestJob(c)
  <2>1. Handled(c)' = Handled(c)
    BY DEF Handled
  <2>2. LatestJob(c)' = LatestOf(Handled(c)')
    BY DEF Handled, LatestJob, LatestOf
  <2> QED
    BY <2>1, <2>2, HandledRuns
<1> QED
  BY <1>1 DEF Taken

(* The phases of the destinations follow the step of the worker.           *)
LEMMA PhaseSteps ==
  ASSUME RolloutInv, WorkersOK'
  PROVE  /\ Idle("deploy") /\ Idle("deploy")' => Phases' = Phases
         /\ Idle("deploy") /\ Doing("taken")' => Phases' = Phases
         /\ ~Idle("deploy") =>
              /\ Job.comp \in Components /\ Phases[Job.comp] = PhaseOf(worker["deploy"].step)
              /\ Idle("deploy")' => Phases' = [Phases EXCEPT ![Job.comp] = "rest"]
              /\ ~Idle("deploy")' /\ Job' = Job =>
                   Phases' = [Phases EXCEPT ![Job.comp] = PhaseOf(worker'["deploy"].step)]
<1>1. "deploy" \in Workers
  BY DEF Workers, P!Kinds
<1>2. NoJob \notin P!Job
  BY DEF NoJob, P!Job, P!RunIds
<1>3. /\ Idle("deploy") => Job = NoJob
      /\ ~Idle("deploy") => Job \in P!Job /\ Job # NoJob
      /\ Idle("deploy")' => Job' = NoJob
      /\ ~Idle("deploy")' => Job' \in P!Job /\ Job' # NoJob
  BY <1>1, <1>2 DEF RolloutInv, WorkersOK, Job
<1>4. Idle("deploy") => \A c \in Components : Phase(c) = "rest"
  BY <1>3 DEF Phase
<1>5. Idle("deploy")' => \A c \in Components : Phase(c)' = "rest"
  BY <1>3 DEF Phase
<1>6. ~Idle("deploy") => \A c \in Components :
        Phase(c) = IF c = Job.comp THEN PhaseOf(worker["deploy"].step) ELSE "rest"
  BY <1>3 DEF Phase, PhaseOf
<1>7. ~Idle("deploy")' => \A c \in Components :
        Phase(c)' = IF c = Job'.comp THEN PhaseOf(worker'["deploy"].step) ELSE "rest"
  BY <1>3 DEF Phase, PhaseOf
<1>8. ~Idle("deploy") => Job.comp \in Components
  BY <1>3 DEF P!Job
<1>9. Doing("taken")' => ~Idle("deploy")' /\ PhaseOf(worker'["deploy"].step) = "rest"
  BY DEF Doing, At, Idle, PhaseOf
<1> QED
  BY <1>3, <1>4, <1>5, <1>6, <1>7, <1>8, <1>9 DEF Phases

(* The steps of Destination, in the names used here.                       *)
LEMMA DestinationSteps ==
  ASSUME NEW t \in Components
  PROVE  /\ /\ Phases[t] = "rest" /\ Phases' = [Phases EXCEPT ![t] = "begun"]
            /\ \E j \in P!RunIds : j > Taken[t] /\ Taken' = [Taken EXCEPT ![t] = j]
            /\ UNCHANGED <<current, lock>>
            => D!Next
         /\ /\ Phases[t] = "begun" /\ Phases' = [Phases EXCEPT ![t] = "held"]
            /\ lock[t] = None /\ lock' = [lock EXCEPT ![t] = Taken[t]]
            /\ UNCHANGED <<current, Taken>>
            => D!Next
         /\ /\ Phases[t] = "held" /\ Phases' = [Phases EXCEPT ![t] = "switched"]
            /\ \E a \in Artifacts : current' = [current EXCEPT ![t] = a]
            /\ UNCHANGED <<lock, Taken>>
            => D!Next
         /\ /\ Phases[t] \in {"held", "switched"} /\ Phases' = [Phases EXCEPT ![t] = "rest"]
            /\ lock' = [lock EXCEPT ![t] = None]
            /\ UNCHANGED <<current, Taken>>
            => D!Next
         /\ /\ Phases[t] \in {"begun", "held", "switched"} /\ Phases' = [Phases EXCEPT ![t] = "rest"]
            /\ UNCHANGED <<current, lock, Taken>>
            => D!Next
         /\ UNCHANGED <<current, lock, Taken, Phases>> => UNCHANGED D!vars
BY DEF D!Next, D!TakeUp, D!Hold, D!Switch, D!Finish, D!Drop, D!Moves, D!vars, Taken, Phases

(* Each step of the rollout is a step of the destinations, or none.        *)
LEMMA DestinationStep ==
  ASSUME RolloutInv, RolloutInv', [Next]_vars
  PROVE  [D!Next]_D!vars
<1> DEFINE w == worker["deploy"]
           t == Job.comp
           Same == UNCHANGED <<current, lock, Taken, Phases>>
           Drops == /\ ~Idle("deploy") /\ PhaseOf(w.step) # "rest"
                    /\ Phases' = [Phases EXCEPT ![t] = "rest"]
                    /\ UNCHANGED <<current, lock, Taken>>
<1>0. /\ "deploy" \in Workers /\ LocalTypes /\ LocalTypes' /\ w \in Worker /\ WorkersOK'
      /\ HandOK /\ LockOK
      /\ ~Idle("deploy") => t \in Components /\ Job.run \in P!RunIds
  BY DEF RolloutInv, LocalTypes, WorkersOK, Workers, P!Kinds, P!Job, Job
<1>1. Same => [D!Next]_D!vars
  <2>1. CASE \E c : c \in Components
    BY <2>1, DestinationSteps
  <2>2. CASE ~\E c : c \in Components
    BY <2>2 DEF D!vars, Taken, Phases
  <2> QED
    BY <2>1, <2>2
<1>2. Drops => D!Next
  <2>1. Drops => Phases[t] \in {"begun", "held", "switched"}
    BY <1>0, PhaseSteps DEF PhaseOf
  <2> QED
    BY <1>0, <2>1, DestinationSteps
<1>3. ASSUME UNCHANGED dirs
      PROVE  Taken' = Taken
  BY <1>0, <1>3, SameTaken
<1>4. ASSUME NEW k \in Workers, NEW torn, NEW receipts, Rewrite(k, torn, receipts)
      PROVE  Taken' = Taken
  <2>1. /\ \A e \in dirs'["deploy"] : \E d \in dirs["deploy"] : e.job = d.job
        /\ \A d \in dirs["deploy"] : \E e \in dirs'["deploy"] : e.job = d.job
    BY <1>0, <1>4, RewrittenDirs
  <2> QED
    BY <1>0, <2>1, SameTaken
<1>5. ASSUME NEW step \in Steps \ {"off", "idle"}, ~Idle("deploy"), Goes("deploy", step)
      PROVE  Phases' = [Phases EXCEPT ![t] = PhaseOf(step)]
  <2>1. Job' = Job /\ ~Idle("deploy")' /\ worker'["deploy"].step = step
    BY <1>0, <1>5 DEF Goes, Job, Idle, LocalTypes, Worker
  <2> QED
    BY <1>0, <1>5, <2>1, PhaseSteps
<1>6. ASSUME NEW m, ~Idle("deploy"), Ends("deploy", m)
      PROVE  Phases' = [Phases EXCEPT ![t] = "rest"]
  <2>1. Job' = Job /\ ~Idle("deploy")' /\ worker'["deploy"].step = "ended"
    BY <1>0, <1>6 DEF Ends, Job, Idle, LocalTypes, Worker
  <2> QED
    BY <1>0, <1>6, <2>1, PhaseSteps DEF PhaseOf
<1>7. ASSUME ~Idle("deploy"), Phases' = [Phases EXCEPT ![t] = PhaseOf(w.step)]
      PROVE  Phases' = Phases
  <2>1. Phases[t] = PhaseOf(w.step)
    BY <1>0, <1>7, PhaseSteps
  <2> QED
    BY <1>7, <2>1 DEF Phases
<1>8. worker'["deploy"] = w => Phases' = Phases
  <2>1. worker'["deploy"] = w => Job' = Job /\ (Idle("deploy")' <=> Idle("deploy"))
    BY DEF Job, Idle
  <2> QED
    BY <1>0, <1>7, <2>1, PhaseSteps
<1>9. CASE Activation
  <2>1. ~Idle("deploy") /\ UNCHANGED dirs
    BY <1>9 DEF Activation, TakeLock, LockedOut, Reject, Replace, Serve, Commit, Falter,
                Restore, LeaveLocked, Unlock, KeepLock, At, Doing, Idle
  <2>2. Phases[t] = PhaseOf(w.step) /\ Taken' = Taken
    BY <1>0, <1>3, <2>1, PhaseSteps
  <2>3. CASE TakeLock
    <3>1. Phases[t] = "begun" /\ Phases' = [Phases EXCEPT ![t] = "held"]
      BY <1>5, <2>1, <2>2, <2>3 DEF TakeLock, Doing, At, PhaseOf, Steps
    <3>2. Taken[t] = Job.run
      <4>0. ~Doing("taken")
        BY <2>3 DEF TakeLock, Doing, At
      <4>1. Job.run \in Handled(t)
        BY <1>0, <2>1, <4>0 DEF HandOK, Handled
      <4>2. ASSUME NEW q \in Handled(t)
            PROVE  q <= Job.run
        <5>1. q \in P!RunIds
          BY <1>0, HandledRuns
        <5>2. q < Job.run \/ q = Job.run
          BY <1>0, <2>1, <4>0 DEF HandOK, Handled
        <5> QED
          BY <1>0, <2>1, <5>1, <5>2 DEF P!RunIds
      <4> QED
        BY <1>0, <2>1, <4>1, <4>2, HandledRuns, LatestOfRuns DEF Taken
    <3> QED
      BY <1>0, <2>1, <2>2, <2>3, <3>1, <3>2, DestinationSteps DEF TakeLock, Free
  <2>4. CASE Commit
    <3>1. Phases[t] = "held" /\ Phases' = [Phases EXCEPT ![t] = "switched"]
      BY <1>5, <2>1, <2>2, <2>4 DEF Commit, Doing, At, PhaseOf, Steps
    <3>2. Job.input \in Artifacts
      BY <1>0, <2>1 DEF HandOK
    <3> QED
      BY <1>0, <2>1, <2>2, <2>4, <3>1, <3>2, DestinationSteps DEF Commit
  <2>5. CASE Unlock
    <3>1. Phases[t] \in {"held", "switched"} /\ Phases' = [Phases EXCEPT ![t] = "rest"]
      BY <1>6, <2>1, <2>2, <2>5 DEF Unlock, Doing, At, PhaseOf
    <3> QED
      BY <1>0, <2>1, <2>2, <2>5, <3>1, DestinationSteps DEF Unlock
  <2>6. CASE LockedOut \/ LeaveLocked \/ KeepLock
    <3>1. Drops
      BY <1>6, <2>1, <2>2, <2>6 DEF LockedOut, LeaveLocked, KeepLock, Doing, At, PhaseOf, target
    <3> QED
      BY <1>2, <3>1
  <2>7. CASE Reject \/ Replace \/ Serve \/ Falter \/ Restore
    <3>1. Phases' = Phases
      BY <1>5, <1>7, <2>1, <2>7 DEF Reject, Replace, Serve, Falter, Restore, Doing, At, PhaseOf, Steps
    <3> QED
      BY <1>1, <2>2, <2>7, <3>1 DEF Reject, Replace, Serve, Falter, Restore, target
  <2> QED
    BY <1>9, <2>3, <2>4, <2>5, <2>6, <2>7 DEF Activation
<1>10. ASSUME MakeDirectory("deploy")
       PROVE  D!Next
  <2>1. ~Idle("deploy") /\ w.step = "taken" /\ UNCHANGED <<current, lock>>
    BY <1>10 DEF MakeDirectory, At, Idle, target
  <2>2. Phases[t] = "rest" /\ Phases' = [Phases EXCEPT ![t] = "begun"]
    BY <1>0, <1>5, <1>10, <2>1, PhaseSteps DEF MakeDirectory, PhaseOf, Steps
  <2>3. PICK own : dirs'["deploy"] = dirs["deploy"] \cup {own} /\ own.job = Job
    BY <1>0, <1>10, MadeDirs DEF Job
  <2>4. \A q \in Handled(t) : q < Job.run
    BY <1>0, <2>1 DEF HandOK, Handled, Doing, At
  <2>5. Handled(t) \cup {Job.run} \in SUBSET P!RunIds
    BY <1>0, <2>1, HandledRuns
  <2>6. Taken[t] < Job.run
    BY <1>0, <2>1, <2>4, HandledRuns, LatestOfRuns DEF Taken, P!RunIds
  <2>7. \A q \in Handled(t) \cup {Job.run} : q <= Job.run
    BY <2>4, <2>5 DEF P!RunIds
  <2>8. LatestOf(Handled(t) \cup {Job.run}) = Job.run
    BY <2>5, <2>7, LatestOfRuns
  <2>9. ASSUME NEW c \in Components
        PROVE  LatestJob(c)' = IF c = t THEN Job.run ELSE LatestJob(c)
    <3>1. LatestJob(c)' = LatestOf(Handled(c)')
      BY DEF LatestJob, LatestOf, Handled
    <3>2. Handled(c)' = IF c = t THEN Handled(c) \cup {Job.run} ELSE Handled(c)
      BY <2>3 DEF Handled
    <3> QED
      BY <1>0, <2>8, <3>1, <3>2, HandledRuns
  <2>10. Taken' = [Taken EXCEPT ![t] = Job.run]
    BY <2>9 DEF Taken
  <2>11. Job.run > Taken[t]
    BY <1>0, <2>1, <2>6, HandledRuns, LatestOfRuns DEF Taken, P!RunIds
  <2> QED
    BY <1>0, <2>1, <2>2, <2>10, <2>11, DestinationSteps
<1>11. ASSUME Stop("deploy")
       PROVE  [D!Next]_D!vars
  <2>1. UNCHANGED <<current, lock, Taken>>
    BY <1>3, <1>4, <1>0, <1>11 DEF Stop, target
  <2>2. Idle("deploy")'
    BY <1>0, <1>11 DEF Stop, Idle, LocalTypes
  <2>3. CASE Idle("deploy")
    BY <1>0, <1>1, <2>1, <2>2, <2>3, PhaseSteps
  <2>4. CASE ~Idle("deploy")
    <3>1. Phases' = [Phases EXCEPT ![t] = "rest"]
      BY <1>0, <2>2, <2>4, PhaseSteps
    <3>2. CASE PhaseOf(w.step) = "rest"
      BY <1>1, <1>7, <2>1, <2>4, <3>1, <3>2
    <3>3. CASE PhaseOf(w.step) # "rest"
      BY <1>2, <2>1, <2>4, <3>1, <3>3
    <3> QED
      BY <3>2, <3>3
  <2> QED
    BY <2>3, <2>4
<1>12. ASSUME GiveUp("deploy")
       PROVE  D!Next
  <2>1. ~Idle("deploy") /\ PhaseOf(w.step) # "rest" /\ UNCHANGED <<current, lock, dirs>>
    BY <1>12 DEF GiveUp, At, Idle, PhaseOf, target
  <2>2. Phases' = [Phases EXCEPT ![t] = "rest"]
    BY <1>6, <1>12, <2>1 DEF GiveUp
  <2> QED
    BY <1>2, <1>3, <2>1, <2>2
<1>13. ASSUME \/ Take("deploy") \/ Refuse("deploy") \/ WriteClaim("deploy") \/ Fetch("deploy")
              \/ WriteReceipt("deploy") \/ Start("deploy")
       PROVE  Same
  <2>1. UNCHANGED <<current, lock>>
    BY <1>13 DEF Take, Refuse, WriteClaim, Fetch, WriteReceipt, Start, target
  <2>2. Taken' = Taken
    <3>1. CASE Start("deploy")
      <4>1. /\ \A e \in dirs'["deploy"] : \E d \in dirs["deploy"] : e.job = d.job
            /\ \A d \in dirs["deploy"] : \E e \in dirs'["deploy"] : e.job = d.job
        BY <1>0, <3>1, StartedDirs
      <4> QED
        BY <1>0, <4>1, SameTaken
    <3>2. CASE WriteClaim("deploy") \/ WriteReceipt("deploy")
      BY <1>0, <1>4, <3>2 DEF WriteClaim, WriteReceipt
    <3> QED
      BY <1>3, <1>13, <3>1, <3>2 DEF Take, Refuse, Fetch
  <2>3. Phases' = Phases
    <3>1. CASE Take("deploy")
      <4>1. Idle("deploy") /\ (worker' = worker \/ worker'["deploy"].step = "taken")
        BY <1>0, <3>1 DEF Take, Idle, At, LocalTypes, Worker
      <4> QED
        BY <1>0, <1>8, <4>1, PhaseSteps DEF Doing, At
    <3>2. CASE WriteClaim("deploy") \/ Fetch("deploy")
      <4>1. ~Idle("deploy") /\ PhaseOf(w.step) = "begun"
        BY <3>2 DEF WriteClaim, Fetch, At, Idle, PhaseOf
      <4>2. Phases' = [Phases EXCEPT ![t] = "begun"]
        BY <1>5, <3>2, <4>1 DEF WriteClaim, Fetch, PhaseOf, Steps
      <4> QED
        BY <1>7, <4>1, <4>2
    <3>3. CASE Refuse("deploy") \/ WriteReceipt("deploy")
      <4>1. ~Idle("deploy") /\ PhaseOf(w.step) = "rest"
        BY <3>3 DEF Refuse, WriteReceipt, At, Idle, PhaseOf
      <4>2. Rests("deploy")
        BY <3>3 DEF Refuse, WriteReceipt
      <4>3. worker'["deploy"].step = "idle"
        BY <1>0, <4>2 DEF Rests, LocalTypes
      <4> QED
        BY <1>0, <1>7, <4>1, <4>3, PhaseSteps DEF Idle
    <3>4. CASE Start("deploy")
      <4>1. Idle("deploy") /\ Idle("deploy")'
        BY <1>0, <3>4 DEF Start, Rests, At, Idle, LocalTypes
      <4> QED
        BY <1>0, <4>1, PhaseSteps
    <3> QED
      BY <1>13, <3>1, <3>2, <3>3, <3>4
  <2> QED
    BY <2>1, <2>2, <2>3
<1>14. ASSUME NEW k \in Workers, k # "deploy", WorkerStep(k)
       PROVE  Same
  <2>1. UNCHANGED <<current, lock>> /\ worker'["deploy"] = w /\ dirs'["deploy"] = dirs["deploy"]
    BY <1>0, <1>14
       DEF WorkerStep, Take, Refuse, MakeDirectory, WriteClaim, Fetch, GiveUp, WriteReceipt,
           Stop, Start, Deliver, Goes, Ends, Rests, Rewrite, LocalTypes, target
  <2> QED
    BY <1>0, <1>8, <2>1, SameTaken
<1>15. ASSUME \/ ServerStep \/ (\E a \in Artifacts : Upload(a)) \/ UNCHANGED vars
              \/ \E d \in dirs["deploy"] : Deliver("deploy", d)
       PROVE  Same
  <2>1. UNCHANGED <<current, lock>> /\ worker'["deploy"] = w /\ UNCHANGED dirs
    BY <1>0, <1>15 DEF ServerStep, Upload, Ends, Deliver, vars, target, LocalTypes
  <2> QED
    BY <1>3, <1>8, <2>1
<1> HIDE DEF Same
<1> QED
  BY <1>1, <1>9, <1>10, <1>11, <1>12, <1>13, <1>14, <1>15 DEF Next, WorkerStep

(* What Destination promises of a destination (the lock, the order of the  *)
(* jobs, what is left of an unfinished one) holds of each one the workers  *)
(* serve: every step of an activation and of its recovery is a step of     *)
(* Destination or none (activate, ComponentExecutor.cjs:361-478).          *)
THEOREM RolloutImplementsDestination == Spec => TargetsAreDestinations
<1>1. Init => D!Init
  BY DEF Init, D!Init, LatestJob, Phase, Job, Workers, P!Kinds
<1>2. RolloutInv /\ [Next]_vars => [D!Next]_D!vars
  BY NextRolloutInv, DestinationStep
<1> QED
  BY <1>1, <1>2, RolloutInvariant, PTL DEF Spec, D!Spec, TargetsAreDestinations

--------------------------------------------------------------------------------
(***************************************************************************)
(* What the control plane believes of a destination is true: the property  *)
(* BeliefMatchesTarget, where a lock file can be removed.  The belief rests*)
(* on a chain: what the worker finds or does on the destination, the       *)
(* receipt in its hand, the receipt in the claim directory, the server's   *)
(* job record and the run's result.  BeliefInv says what each is worth.    *)
(***************************************************************************)

(* Release a is whole and current on c's destination, and nobody is at it. *)
InPlace(c, a) == current[c] = a /\ files[c] = a /\ lock[c] = None

(* a is what the last of the activations of c that succeeded put there.    *)
LastIs(J, c, a) ==
  LET L == Pipe!LandedOf(J, c)
  IN IF L = {} THEN a = None ELSE \E k \in L : a = k.input /\ \A m \in L : m.run <= k.run

AtRest(c) == InPlace(c, current[c]) /\ LastIs(jobs, c, current[c])

(* What a receipt for job j says of the destination.                       *)
Told(j, m) ==
  /\ m.status = "succeeded" => InPlace(j.comp, j.input)
  /\ m.status = "failed" => AtRest(j.comp)

(* A component no activation of which is out, or uncertain, is at rest.    *)
RestOK == \A c \in Components : Pipe!OpenOf(jobs, c) = {} => AtRest(c)

(* So is that of the activation in hand until it holds the lock; until the *)
(* commit the last release is still the one to return to.                  *)
BeforeOK == worker["deploy"].step \in {"taken", "made", "claimed", "fetched"} => AtRest(Job.comp)
DuringOK == worker["deploy"].step \in Locking \ {"activated"} =>
              LastIs(jobs, Job.comp, current[Job.comp])

(* A receipt is true from when it is made until the server has taken it.   *)
AfterOK == \A m \in worker["deploy"].receipts : Told(Job, m)
ToldOK ==
  \A d \in dirs["deploy"], h \in jobs :
    RecordOf(h, d.job) /\ h.status = "working" => \A m \in d.receipts : Told(d.job, m)

BeliefInv == RestOK /\ BeforeOK /\ DuringOK /\ AfterOK /\ ToldOK

--------------------------------------------------------------------------------
(***************************************************************************)
(* What a step leaves alone.                                               *)
(***************************************************************************)

(* The activations of c that are settled, and those that are not, are the  *)
(* same in J and K.                                                        *)
SameOf(J, K, c) ==
  Pipe!OpenOf(K, c) = Pipe!OpenOf(J, c) /\ Pipe!LandedOf(K, c) = Pipe!LandedOf(J, c)

(* A destination that a step leaves alone stays as it is.                  *)
LEMMA SameRest ==
  ASSUME NEW c, SameOf(jobs, jobs', c),
         lock'[c] = lock[c], files'[c] = files[c], current'[c] = current[c]
  PROVE  /\ AtRest(c) => AtRest(c)'
         /\ \A a : InPlace(c, a) => InPlace(c, a)'
         /\ \A a : LastIs(jobs, c, a) => LastIs(jobs', c, a)
         /\ \A j, m : j.comp = c /\ Told(j, m) => Told(j, m)'
BY DEF AtRest, InPlace, LastIs, SameOf, Told

(* The activation in hand is the only one of its component.                *)
LEMMA HandIsOpen ==
  ASSUME RolloutInv, ~Idle("deploy")
  PROVE  \E h \in Pipe!OpenOf(jobs, Job.comp) : RecordOf(h, Job) /\ h.status = "working"
<1>1. "deploy" \in Workers
  BY DEF Workers, P!Kinds
<1>2. PICK h \in jobs : RecordOf(h, Job) /\ h.status = "working"
  BY DEF RolloutInv, HandOK, InHand
<1>3. h.comp = Job.comp /\ h.kind = "deploy"
  BY <1>1, <1>2 DEF RolloutInv, WorkersOK, RecordOf, Job
<1> QED
  BY <1>2, <1>3 DEF Pipe!OpenOf, Pipe!Unsettled

(* One activation of a component is open.                                  *)
LEMMA OneOpen ==
  ASSUME RolloutInv, NEW c, NEW h \in Pipe!OpenOf(jobs, c), NEW k \in Pipe!OpenOf(jobs, c)
  PROVE  h = k
BY Pipe!OneUnsettled, PipeAssumptions DEF RolloutInv, Pipe!FullInv, Pipe!OpenOf

(* The record of a reported activation is an open one while it is out.     *)
LEMMA DirIsOpen ==
  ASSUME RolloutInv, NEW d \in dirs["deploy"], NEW h, RecordOf(h, d.job), h.status = "working"
  PROVE  \A J : h \in J => h \in Pipe!OpenOf(J, d.job.comp)
<1>1. "deploy" \in Workers
  BY DEF Workers, P!Kinds
<1>2. d.job.kind = "deploy"
  BY <1>1 DEF RolloutInv, DirsOK
<1> QED
  BY <1>2 DEF RecordOf, Pipe!OpenOf, Pipe!Unsettled

(* A step that leaves the destination, its worker and the settled jobs.    *)
LEMMA QuietBelief ==
  ASSUME RolloutInv, BeliefInv, \A c : SameOf(jobs, jobs', c), UNCHANGED target,
         worker'["deploy"] = worker["deploy"], dirs'["deploy"] = dirs["deploy"]
  PROVE  BeliefInv'
<1>0. UNCHANGED <<lock, files, current>> /\ Job' = Job
  BY DEF target, Job
<1>1. \A c : /\ AtRest(c) => AtRest(c)'
             /\ \A a : LastIs(jobs, c, a) => LastIs(jobs', c, a)
  BY <1>0, SameRest
<1>2. \A j, m : Told(j, m) => Told(j, m)'
  BY <1>0, SameRest
<1>3. RestOK'
  BY <1>1 DEF BeliefInv, RestOK, SameOf
<1>4. BeforeOK' /\ DuringOK' /\ AfterOK'
  BY <1>0, <1>1, <1>2 DEF BeliefInv, BeforeOK, DuringOK, AfterOK
<1>5. ToldOK'
  <2> SUFFICES ASSUME NEW d \in dirs["deploy"], NEW h \in jobs', RecordOf(h, d.job),
                      h.status = "working", NEW m \in d.receipts
               PROVE  Told(d.job, m)'
    BY DEF ToldOK
  <2>1. h \in Pipe!OpenOf(jobs, d.job.comp)
    BY DirIsOpen DEF SameOf
  <2> QED
    BY <1>2, <2>1 DEF BeliefInv, ToldOK, Pipe!OpenOf
<1> QED
  BY <1>3, <1>4, <1>5 DEF BeliefInv

--------------------------------------------------------------------------------
(***************************************************************************)
(* The steps.                                                              *)
(***************************************************************************)

(* Members, connectors, the clock, the control plane and the builder leave *)
(* the destination and the settled activations alone.                      *)
LEMMA OthersBelief ==
  ASSUME RolloutInv, BeliefInv,
         \/ ServerStep \/ UNCHANGED vars \/ \E a \in Artifacts : Upload(a)
         \/ \E k \in Workers : k # "deploy" /\ WorkerStep(k)
  PROVE  BeliefInv'
<1>0. /\ Pipe!FullInv /\ LocalTypes /\ "deploy" \in Workers /\ "build" \in Workers
      /\ \A k \in Workers : k # "deploy" => k = "build"
  BY DEF RolloutInv, Workers, P!Kinds
<1>1. UNCHANGED target /\ worker'["deploy"] = worker["deploy"] /\ dirs'["deploy"] = dirs["deploy"]
  BY <1>0 DEF ServerStep, Upload, WorkerStep, Take, Refuse, MakeDirectory, WriteClaim, Fetch,
              GiveUp, WriteReceipt, Stop, Start, Deliver, Goes, Ends, Rests, Rewrite,
              LocalTypes, target, vars
<1>2. ASSUME Pipe!Untouched(jobs, jobs')
      PROVE  \A c : SameOf(jobs, jobs', c)
  BY <1>2, Pipe!UntouchedRecords, PipeAssumptions DEF SameOf
<1>3. CASE ServerStep
  <2>1. Pipe!Untouched(jobs, jobs')
    BY <1>0, <1>3, SameSteps, SameMemberStep, SameValues, Pipe!OtherStepsJobs, PipeAssumptions
       DEF ServerStep
  <2> QED
    BY <1>1, <1>2, <2>1, QuietBelief
<1>4. ASSUME NEW a \in Artifacts, Upload(a)
      PROVE  BeliefInv'
  <2> DEFINE j == Held(worker["build"].job)
  <2>1. j.kind = "build" /\ jobs' = (jobs \ {j}) \cup {[j EXCEPT !.output = a]}
    BY <1>4 DEF Upload, P!Upload
  <2>2. j \in Pipe!Job
    <3>1. ~Idle("build")
      BY <1>0, <1>4 DEF Upload, At, Idle
    <3>2. j \in jobs
      BY <1>0, <3>1, HeldKnown DEF RolloutInv, WorkersOK
    <3> QED
      BY <1>0, <3>2 DEF Pipe!FullInv, Pipe!SafetyInv, Pipe!IInv, Pipe!JobsOK
  <2>3. [j EXCEPT !.output = a].kind = "build"
    BY <2>1, <2>2 DEF Pipe!Job
  <2> HIDE DEF j
  <2>4. \A c : SameOf(jobs, jobs', c)
    BY <2>1, <2>3 DEF SameOf, Pipe!OpenOf, Pipe!LandedOf
  <2> QED
    BY <1>1, <2>4, QuietBelief
<1>5. CASE Take("build")
  <2>1. PICK accepted, j : accepted \in BOOLEAN /\ j.kind = "build" /\ Pipe!ClaimJob(j, accepted)
    BY <1>5, SameSteps DEF Take
  <2>2. PICK x \in jobs' : Pipe!SameWork(j, x) /\ Pipe!Untouched(jobs, jobs' \ {x})
    BY <1>0, <2>1, Pipe!ClaimedJob, PipeAssumptions
  <2>3. x.kind = "build"
    BY <2>1, <2>2 DEF Pipe!SameWork, Pipe!SameKey
  <2>4. \A c : SameOf(jobs, jobs' \ {x}, c)
    BY <2>2, Pipe!UntouchedRecords, PipeAssumptions DEF SameOf
  <2>5. \A c : SameOf(jobs, jobs', c)
    BY <2>3, <2>4 DEF SameOf, Pipe!OpenOf, Pipe!LandedOf
  <2> QED
    BY <1>1, <2>5, QuietBelief
<1>6. ASSUME NEW d \in dirs["build"], Deliver("build", d)
      PROVE  BeliefInv'
  <2> DEFINE h == Held(d.job)
  <2>1. h \in jobs /\ h.kind = "build"
    BY <1>0, HeldKnown DEF RolloutInv, DirsOK, RecordOf
  <2>2. PICK x \in jobs' : /\ Pipe!SameWork(h, x)
                           /\ Pipe!Untouched((jobs \ {h}) \cup {x}, jobs')
    BY <1>0, <1>6, <2>1, DeliveredReport, Pipe!ReportedJobs, PipeAssumptions
  <2> HIDE DEF h
  <2>3. x.kind = "build"
    BY <2>1, <2>2 DEF Pipe!SameWork, Pipe!SameKey
  <2>4. \A c : SameOf((jobs \ {h}) \cup {x}, jobs', c)
    BY <2>2, Pipe!UntouchedRecords, PipeAssumptions DEF SameOf
  <2>5. \A c : SameOf(jobs, (jobs \ {h}) \cup {x}, c)
    BY <2>1, <2>3 DEF SameOf, Pipe!OpenOf, Pipe!LandedOf
  <2>6. \A c : SameOf(jobs, jobs', c)
    BY <2>4, <2>5 DEF SameOf
  <2> QED
    BY <1>1, <2>6, QuietBelief
<1>7. ASSUME UNCHANGED jobs
      PROVE  BeliefInv'
  BY <1>1, <1>7, QuietBelief DEF SameOf
<1>8. \/ ServerStep \/ (\E a \in Artifacts : Upload(a)) \/ Take("build") \/ UNCHANGED jobs
      \/ \E d \in dirs["build"] : Deliver("build", d)
  BY <1>0 DEF WorkerStep, Refuse, MakeDirectory, WriteClaim, Fetch, GiveUp, WriteReceipt, Stop,
              Start, vars, server
<1> QED
  BY <1>3, <1>4, <1>5, <1>6, <1>7, <1>8

(* The destination takes up an activation: nothing is under way there.     *)
LEMMA TakeBelief ==
  ASSUME RolloutInv, BeliefInv, Take("deploy")
  PROVE  BeliefInv'
<1>0. /\ Pipe!FullInv /\ LocalTypes /\ "deploy" \in Workers /\ Idle("deploy")
      /\ UNCHANGED <<lock, files, current, dirs>> /\ worker["deploy"].receipts = {}
  BY DEF RolloutInv, WorkersOK, Workers, P!Kinds, Take, At, Idle, target
<1>1. PICK accepted, j :
        /\ accepted \in BOOLEAN
        /\ j.kind = "deploy" /\ Pipe!ClaimJob(j, accepted)
        /\ \/ worker' = [worker EXCEPT !["deploy"].step = "taken", !["deploy"].job = j]
           \/ UNCHANGED worker
  BY SameSteps DEF Take
<1>2. /\ j \in Pipe!Job
      /\ \A h \in jobs : h.kind = "deploy" /\ h.status # "queued" /\ h.comp = j.comp =>
           h.run < j.run /\ ~Pipe!Unsettled(h)
  BY <1>0, <1>1, Pipe!ClaimedJob, PipeAssumptions
<1>3. PICK x \in jobs' : /\ Pipe!SameWork(j, x) /\ x.status = "working"
                         /\ Pipe!Untouched(jobs, jobs' \ {x})
  BY <1>0, <1>1, Pipe!ClaimedJob, PipeAssumptions
<1>4. j.comp \in Components /\ x.comp = j.comp /\ x.kind = "deploy" /\ x.run = j.run
  BY <1>1, <1>2, <1>3 DEF Pipe!Job, Pipe!SameWork, Pipe!SameKey
<1>5. \A c : SameOf(jobs, jobs' \ {x}, c)
  BY <1>3, Pipe!UntouchedRecords, PipeAssumptions DEF SameOf
<1>6. \A c : /\ c # j.comp => SameOf(jobs, jobs', c)
             /\ Pipe!LandedOf(jobs', c) = Pipe!LandedOf(jobs, c)
  BY <1>3, <1>4, <1>5 DEF SameOf, Pipe!OpenOf, Pipe!LandedOf
<1>7. \A c : AtRest(c) => AtRest(c)'
  BY <1>0, <1>6 DEF AtRest, InPlace, LastIs
<1>8. \A i, m : Told(i, m) => Told(i, m)'
  BY <1>0, <1>7 DEF Told, InPlace
<1>9. Pipe!OpenOf(jobs, j.comp) = {}
  BY <1>2 DEF Pipe!OpenOf, Pipe!Unsettled
<1>10. RestOK'
  <2>1. x \in Pipe!OpenOf(jobs', j.comp)
    BY <1>3, <1>4 DEF Pipe!OpenOf, Pipe!Unsettled
  <2> QED
    BY <1>6, <1>7, <2>1 DEF BeliefInv, RestOK, SameOf
<1>11. ToldOK'
  <2> SUFFICES ASSUME NEW d \in dirs["deploy"], NEW h \in jobs', RecordOf(h, d.job),
                      h.status = "working", NEW m \in d.receipts
               PROVE  Told(d.job, m)'
    BY <1>0 DEF ToldOK
  <2>1. h # x
    <3>1. PICK g \in jobs : RecordOf(g, d.job) /\ g.status # "queued" /\ d.job.kind = "deploy"
      BY <1>0 DEF RolloutInv, DirsOK, KnownIn
    <3>2. h = x => ~(g.run < j.run) /\ g.comp = j.comp /\ g.kind = "deploy"
      BY <1>2, <1>4, <3>1 DEF RecordOf, Pipe!Job, Pipe!RunIds
    <3> QED
      BY <1>2, <3>1, <3>2
  <2>2. h \in jobs
    <3>1. h \in Pipe!OpenOf(jobs' \ {x}, d.job.comp)
      BY <2>1, DirIsOpen
    <3> QED
      BY <1>5, <3>1 DEF SameOf, Pipe!OpenOf
  <2> QED
    BY <1>8, <2>2 DEF BeliefInv, ToldOK
<1>12. CASE UNCHANGED worker
  <2>1. worker'["deploy"].step \in {"off", "idle"} /\ worker'["deploy"].receipts = {}
    BY <1>0, <1>12 DEF Idle
  <2> QED
    BY <1>10, <1>11, <2>1 DEF BeliefInv, BeforeOK, DuringOK, AfterOK, Locking
<1>13. CASE worker' = [worker EXCEPT !["deploy"].step = "taken", !["deploy"].job = j]
  <2>1. Job' = j /\ worker'["deploy"].step = "taken" /\ worker'["deploy"].receipts = {}
    BY <1>0, <1>13 DEF Job, LocalTypes, Worker
  <2>2. AtRest(j.comp)'
    BY <1>4, <1>7, <1>9 DEF BeliefInv, RestOK
  <2> QED
    BY <1>10, <1>11, <2>1, <2>2 DEF BeliefInv, BeforeOK, DuringOK, AfterOK, Locking
<1> QED
  BY <1>1, <1>12, <1>13

(* A receipt of an activation reaches the server: what it says is true.    *)
LEMMA DeliverBelief ==
  ASSUME RolloutInv, BeliefInv, NEW d \in dirs["deploy"], Deliver("deploy", d)
  PROVE  BeliefInv'
<1> DEFINE h == Held(d.job)
           c == d.job.comp
<1>0. /\ Pipe!FullInv /\ LocalTypes /\ "deploy" \in Workers
      /\ UNCHANGED <<lock, files, current, dirs, worker>>
  BY DEF RolloutInv, Workers, P!Kinds, Deliver, target
<1>1. h \in jobs /\ RecordOf(h, d.job) /\ h.kind = "deploy"
  BY <1>0, HeldKnown DEF RolloutInv, DirsOK, RecordOf
<1>2. PICK m \in IF d.receipts = {} /\ d.asked THEN {Interrupted(d.job)} ELSE d.receipts :
        \/ Pipe!Complete(h, m.status, m.digest, m.code)
        \/ Pipe!CompleteCrash(h, m.status, m.digest, m.code)
  BY SameSteps DEF Deliver
<1>3. m.status \in Pipe!Outcomes /\ m.code \in Pipe!Codes(m.status)
  <2>1. d \in Directory /\ WellCoded(d.receipts)
    BY <1>0 DEF RolloutInv, LocalTypes, DirsOK
  <2>2. CASE m \in d.receipts
    BY <2>1, <2>2, SameValues DEF WellCoded, Receipt
  <2>3. CASE m = Interrupted(d.job)
    BY <2>1, <2>3, SameValues DEF Interrupted, Uncertain, Directory, P!Outcomes, P!Codes, P!ErrorCodes
  <2> QED
    BY <1>2, <2>2, <2>3
<1>4. /\ h.status = "working"
      /\ \E k \in jobs' : /\ Pipe!SameWork(h, k) /\ k.status = m.status
                          /\ Pipe!Untouched((jobs \ {h}) \cup {k}, jobs')
  BY <1>0, <1>1, <1>2, <1>3, Pipe!ReportedJobs, PipeAssumptions
<1>5. PICK k \in jobs' : /\ Pipe!SameWork(h, k) /\ k.status = m.status
                         /\ Pipe!Untouched((jobs \ {h}) \cup {k}, jobs')
  BY <1>4
<1>6. Told(d.job, m)
  <2>1. CASE m \in d.receipts
    BY <1>1, <1>4, <2>1 DEF BeliefInv, ToldOK
  <2>2. CASE m = Interrupted(d.job)
    <3>1. m.status = "recovery-required"
      BY <2>2 DEF Interrupted, Uncertain
    <3> QED
      BY <3>1 DEF Told
  <2> QED
    BY <1>2, <2>1, <2>2
<1>7. h.comp = c /\ h.input = d.job.input /\ h \in Pipe!OpenOf(jobs, c)
  BY <1>1, <1>4 DEF RecordOf, Pipe!OpenOf, Pipe!Unsettled
<1>8. k.comp = c /\ k.kind = "deploy" /\ k.run = h.run /\ k.input = h.input
  BY <1>1, <1>5, <1>7 DEF Pipe!SameWork, Pipe!SameKey
<1> HIDE DEF h
<1>9. \A b : SameOf((jobs \ {h}) \cup {k}, jobs', b)
  BY <1>5, Pipe!UntouchedRecords, PipeAssumptions DEF SameOf
<1>10. \A b : b # c => SameOf(jobs, jobs', b)
  <2>1. \A b : b # c => SameOf(jobs, (jobs \ {h}) \cup {k}, b)
    BY <1>7, <1>8 DEF SameOf, Pipe!OpenOf, Pipe!LandedOf
  <2> QED
    BY <1>9, <2>1 DEF SameOf
<1>11. Pipe!OpenOf(jobs', c) = {x \in {k} : Pipe!Unsettled(x)}
  <2>1. Pipe!OpenOf(jobs, c) = {h}
    BY <1>7, OneOpen
  <2>2. Pipe!OpenOf((jobs \ {h}) \cup {k}, c) = {x \in {k} : Pipe!Unsettled(x)}
    BY <1>8, <2>1 DEF Pipe!OpenOf
  <2> QED
    BY <1>9, <2>2 DEF SameOf
<1>12. Pipe!LandedOf(jobs', c) =
         IF m.status = "succeeded" THEN Pipe!LandedOf(jobs, c) \cup {k} ELSE Pipe!LandedOf(jobs, c)
  <2>1. h \notin Pipe!LandedOf(jobs, c)
    BY <1>4 DEF Pipe!LandedOf
  <2>2. Pipe!LandedOf((jobs \ {h}) \cup {k}, c) =
          IF m.status = "succeeded" THEN Pipe!LandedOf(jobs, c) \cup {k} ELSE Pipe!LandedOf(jobs, c)
    BY <1>5, <1>8, <2>1 DEF Pipe!LandedOf
  <2> QED
    BY <1>9, <2>2 DEF SameOf
<1>13. \A b : b # c => /\ AtRest(b) => AtRest(b)'
                       /\ \A a : LastIs(jobs, b, a) => LastIs(jobs', b, a)
                       /\ \A j, r : j.comp = b /\ Told(j, r) => Told(j, r)'
  BY <1>0, <1>10, SameRest
<1>14. ASSUME Pipe!OpenOf(jobs', c) = {}
       PROVE  AtRest(c)'
  <2>1. m.status \in {"succeeded", "failed"}
    BY <1>3, <1>5, <1>11, <1>14 DEF Pipe!Outcomes, Pipe!Unsettled
  <2>2. CASE m.status = "failed"
    BY <1>0, <1>6, <1>12, <2>2 DEF Told, AtRest, InPlace, LastIs
  <2>3. CASE m.status = "succeeded"
    <3>1. InPlace(c, k.input)
      BY <1>6, <1>7, <1>8, <2>3 DEF Told
    <3>2. \A x \in Pipe!LandedOf(jobs', c) : x.run <= k.run
      <4>1. \A x \in jobs : x.run <= h.run
        BY <1>0, <1>1, <1>4, Pipe!UnsettledIsLast, PipeAssumptions DEF Pipe!Unsettled
      <4>2. h.run \in Nat
        BY <1>0, <1>1 DEF Pipe!FullInv, Pipe!SafetyInv, Pipe!IInv, Pipe!JobsOK, Pipe!Job, Pipe!RunIds
      <4> QED
        BY <1>8, <1>12, <2>3, <4>1, <4>2 DEF Pipe!LandedOf
    <3>3. k \in Pipe!LandedOf(jobs', c)
      BY <1>12, <2>3
    <3>4. LastIs(jobs', c, k.input)
      BY <3>2, <3>3 DEF LastIs
    <3> QED
      BY <1>0, <3>1, <3>4 DEF AtRest, InPlace
  <2> QED
    BY <2>1, <2>2, <2>3
<1>15. RestOK'
  BY <1>10, <1>13, <1>14 DEF BeliefInv, RestOK, SameOf
<1>16. BeforeOK' /\ DuringOK' /\ AfterOK'
  <2>1. CASE Idle("deploy")
    <3>1. worker["deploy"].receipts = {} /\ worker["deploy"].step \in {"off", "idle"}
      BY <1>0, <2>1 DEF RolloutInv, WorkersOK, Idle, At
    <3> QED
      BY <1>0, <3>1 DEF BeforeOK, DuringOK, AfterOK, Locking
  <2>2. CASE ~Idle("deploy")
    <3>1. PICK g \in Pipe!OpenOf(jobs, Job.comp) : RecordOf(g, Job) /\ g.status = "working"
      BY <2>2, HandIsOpen
    <3>2. g # h
      BY <2>2, <3>1, OtherReports DEF h, Pipe!OpenOf
    <3>3. Job.comp # c
      BY <1>7, <3>1, <3>2, OneOpen
    <3>4. Job' = Job /\ worker' = worker /\ current' = current
      BY <1>0 DEF Job
    <3> QED
      BY <1>13, <3>3, <3>4 DEF BeliefInv, BeforeOK, DuringOK, AfterOK
  <2> QED
    BY <2>1, <2>2
<1>17. ToldOK'
  <2> SUFFICES ASSUME NEW e \in dirs["deploy"], NEW g \in jobs', RecordOf(g, e.job),
                      g.status = "working", NEW r \in e.receipts
               PROVE  Told(e.job, r)'
    BY <1>0 DEF ToldOK
  <2>1. g \in Pipe!OpenOf(jobs', e.job.comp)
    BY DirIsOpen
  <2>2. e.job.comp # c
    BY <1>3, <1>5, <1>11, <2>1 DEF Pipe!Outcomes
  <2>3. g \in jobs
    BY <1>10, <2>1, <2>2 DEF SameOf, Pipe!OpenOf
  <2> QED
    BY <1>13, <2>2, <2>3 DEF BeliefInv, ToldOK
<1> QED
  BY <1>15, <1>16, <1>17 DEF BeliefInv

(* The worker's own steps with its directories: a receipt is kept as it    *)
(* was made, and a job given up left the destination at rest.              *)
LEMMA LocalBelief ==
  ASSUME RolloutInv, BeliefInv,
         \/ Refuse("deploy") \/ MakeDirectory("deploy") \/ WriteClaim("deploy") \/ Fetch("deploy")
         \/ GiveUp("deploy") \/ WriteReceipt("deploy") \/ Stop("deploy") \/ Start("deploy")
  PROVE  BeliefInv'
<1>0. /\ LocalTypes /\ "deploy" \in Workers /\ worker["deploy"] \in Worker
      /\ UNCHANGED <<jobs, lock, files, current>>
  BY DEF RolloutInv, LocalTypes, Workers, P!Kinds, Refuse, MakeDirectory, WriteClaim, Fetch,
         GiveUp, WriteReceipt, Stop, Start, target, server
<1>1. \A c : AtRest(c)' <=> AtRest(c)
  BY <1>0 DEF AtRest, InPlace, LastIs
<1>2. \A j, m : Told(j, m)' <=> Told(j, m)
  BY <1>0, <1>1 DEF Told, InPlace
<1>3. RestOK'
  BY <1>0, <1>1 DEF BeliefInv, RestOK
<1>4. BeforeOK' /\ DuringOK' /\ AfterOK'
  <2>1. CASE MakeDirectory("deploy") \/ WriteClaim("deploy") \/ Fetch("deploy")
    <3>1. PICK step \in {"made", "claimed", "fetched"} : Goes("deploy", step)
      BY <2>1 DEF MakeDirectory, WriteClaim, Fetch
    <3>2. /\ Job' = Job /\ worker'["deploy"].receipts = worker["deploy"].receipts
          /\ worker'["deploy"].step = step
      BY <1>0, <3>1 DEF Goes, Job, LocalTypes, Worker
    <3>3. worker["deploy"].step \in {"taken", "made", "claimed"}
      BY <2>1 DEF MakeDirectory, WriteClaim, Fetch, At
    <3> QED
      BY <1>1, <1>2, <3>2, <3>3 DEF BeliefInv, BeforeOK, DuringOK, AfterOK, Locking
  <2>2. CASE GiveUp("deploy")
    <3>1. /\ Job' = Job /\ worker'["deploy"].receipts = {Failed(Job)}
          /\ worker'["deploy"].step = "ended"
      BY <1>0, <2>2 DEF GiveUp, Ends, Job, LocalTypes, Worker
    <3>2. AtRest(Job.comp)
      BY <2>2 DEF GiveUp, At, BeliefInv, BeforeOK
    <3>3. Told(Job, Failed(Job))
      BY <3>2 DEF Told, Failed
    <3> QED
      BY <1>2, <3>1, <3>3 DEF BeforeOK, DuringOK, AfterOK, Locking
  <2>3. CASE Refuse("deploy") \/ WriteReceipt("deploy") \/ Stop("deploy") \/ Start("deploy")
    <3>1. worker'["deploy"].receipts = {} /\ worker'["deploy"].step \in {"off", "idle"}
      <4>1. ASSUME NEW step \in {"off", "idle"},
                   worker' = [worker EXCEPT !["deploy"] = [step |-> step, job |-> NoJob, receipts |-> {}]]
            PROVE  worker'["deploy"].receipts = {} /\ worker'["deploy"].step \in {"off", "idle"}
        BY <1>0, <4>1 DEF LocalTypes
      <4>2. CASE UNCHANGED worker /\ At("deploy", "off")
        BY <1>0, <4>2 DEF At, RolloutInv, WorkersOK
      <4> QED
        BY <2>3, <4>1, <4>2 DEF Refuse, WriteReceipt, Stop, Start, Rests
    <3> QED
      BY <3>1 DEF BeforeOK, DuringOK, AfterOK, Locking
  <2> QED
    BY <2>1, <2>2, <2>3
<1>5. ASSUME \A e \in dirs'["deploy"] : \A m \in e.receipts :
               \/ \E d \in dirs["deploy"] : e.job = d.job /\ m \in d.receipts
               \/ Told(e.job, m)
      PROVE  ToldOK'
  BY <1>0, <1>2, <1>5 DEF BeliefInv, ToldOK
<1>6. ToldOK'
  <2>1. CASE UNCHANGED dirs
    BY <1>5, <2>1
  <2>2. CASE MakeDirectory("deploy")
    BY <1>0, <1>5, <2>2, MadeDirs
  <2>3. ASSUME NEW torn, NEW receipts, Rewrite("deploy", torn, receipts),
               \A m \in receipts : Told(Job, m)
        PROVE  ToldOK'
    BY <1>0, <1>5, <2>3, RewrittenDirs DEF Job
  <2>4. CASE WriteClaim("deploy") \/ WriteReceipt("deploy") \/ Stop("deploy")
    <3>1. \/ UNCHANGED dirs
          \/ \E torn : Rewrite("deploy", torn, {})
          \/ \E torn : Rewrite("deploy", torn, worker["deploy"].receipts)
      BY <2>4 DEF WriteClaim, WriteReceipt, Stop
    <3> QED
      BY <2>1, <2>3, <3>1 DEF BeliefInv, AfterOK
  <2>5. CASE Start("deploy")
    BY <1>0, <1>5, <2>5, StartedDirs
  <2> QED
    BY <2>1, <2>2, <2>4, <2>5 DEF Refuse, Fetch, GiveUp
<1> QED
  BY <1>3, <1>4, <1>6 DEF BeliefInv

(* An activation's steps on the destination: its component has an open     *)
(* activation, so only what the worker notes of it must be true.  It lets  *)
(* go of the lock with the new release current, or with the old one whole. *)
LEMMA ActivationBelief ==
  ASSUME ~StickyLock, RolloutInv, BeliefInv, Activation
  PROVE  BeliefInv'
<1> DEFINE c == Job.comp
           w == worker["deploy"]
<1>0. /\ LocalTypes /\ "deploy" \in Workers /\ w \in Worker /\ LockOK /\ HandOK
      /\ UNCHANGED <<jobs, dirs>> /\ ~Idle("deploy") /\ ~Doing("taken") /\ ~At("deploy", "ended")
  BY DEF RolloutInv, LocalTypes, Workers, P!Kinds, Activation, TakeLock, LockedOut, Reject,
         Replace, Serve, Commit, Falter, Restore, LeaveLocked, Unlock, KeepLock, server,
         Doing, At, Idle
<1>1. c \in Components /\ w.receipts = {}
  BY <1>0 DEF RolloutInv, WorkersOK, P!Job, Job
<1>2. \A b \in Components : b # c =>
        lock'[b] = lock[b] /\ files'[b] = files[b] /\ current'[b] = current[b]
  BY <1>0, <1>1 DEF Activation, TakeLock, LockedOut, Reject, Replace, Serve, Commit, Falter,
              Restore, LeaveLocked, Unlock, KeepLock, target, LocalTypes
<1>3. \A b \in Components : b # c =>
        (AtRest(b) => AtRest(b)') /\ \A j, m : j.comp = b /\ Told(j, m) => Told(j, m)'
  BY <1>0, <1>2, SameRest DEF SameOf
<1>4. PICK h \in Pipe!OpenOf(jobs, c) : RecordOf(h, Job)
  BY <1>0, HandIsOpen
<1>5. RestOK'
  BY <1>0, <1>3, <1>4 DEF BeliefInv, RestOK
<1>6. ToldOK'
  <2> SUFFICES ASSUME NEW d \in dirs["deploy"], NEW g \in jobs, RecordOf(g, d.job),
                      g.status = "working", NEW m \in d.receipts
               PROVE  Told(d.job, m)'
    BY <1>0 DEF ToldOK
  <2>1. d.job.comp # c
    <3>1. SUFFICES ASSUME d.job.comp = c PROVE FALSE
      OBVIOUS
    <3>2. g \in Pipe!OpenOf(jobs, c)
      BY <3>1, DirIsOpen
    <3>3. d.job.run = Job.run
      BY <1>4, <3>2, OneOpen DEF RecordOf
    <3>4. d.job.run < Job.run \/ d.receipts = {}
      BY <1>0, <3>1 DEF HandOK
    <3>5. Job.run \in Nat
      BY <1>0 DEF RolloutInv, WorkersOK, P!Job, P!RunIds, Job
    <3> QED
      BY <3>3, <3>4, <3>5
  <2>2. d.job.comp \in Components
    BY <1>0 DEF LocalTypes, Directory, P!Job
  <2> QED
    BY <1>3, <2>1, <2>2 DEF BeliefInv, ToldOK
<1>7. BeforeOK' /\ DuringOK' /\ AfterOK'
  <2>1. ASSUME NEW step \in Locking, Goes("deploy", step)
        PROVE  Job' = Job /\ worker'["deploy"].step = step /\ worker'["deploy"].receipts = {}
    BY <1>0, <1>1, <2>1 DEF Goes, Job, LocalTypes, Worker
  <2>2. ASSUME NEW step \in Locking, Goes("deploy", step),
               step = "activated" \/ LastIs(jobs, c, current'[c])
        PROVE  BeforeOK' /\ DuringOK' /\ AfterOK'
    <3>1. /\ Job' = Job /\ worker'["deploy"].step = step /\ worker'["deploy"].receipts = {}
          /\ jobs' = jobs
      BY <1>0, <2>1, <2>2
    <3>2. BeforeOK' /\ AfterOK'
      BY <3>1 DEF BeforeOK, AfterOK, Locking
    <3>3. DuringOK'
      BY <2>2, <3>1 DEF DuringOK
    <3> QED
      BY <3>2, <3>3
  <2>3. ASSUME NEW m, Ends("deploy", m), Told(Job, m)'
        PROVE  BeforeOK' /\ DuringOK' /\ AfterOK'
    <3>1. /\ Job' = Job /\ worker'["deploy"].step = "ended" /\ worker'["deploy"].receipts = {m}
      BY <1>0, <2>3 DEF Ends, Job, LocalTypes, Worker
    <3> QED
      BY <2>3, <3>1 DEF BeforeOK, DuringOK, AfterOK, Locking
  <2>4. CASE LockedOut \/ LeaveLocked
    <3>1. Job' = Job /\ Ends("deploy", Uncertain(Job))
      BY <1>0, <2>4 DEF LockedOut, LeaveLocked, Ends, Job, LocalTypes, Worker
    <3>2. Told(Job, Uncertain(Job))'
      BY <3>1 DEF Told, Uncertain
    <3> QED
      BY <2>3, <3>1, <3>2
  <2>5. CASE TakeLock
    <3>1. LastIs(jobs, c, current'[c]) /\ Goes("deploy", "locked")
      BY <2>5 DEF TakeLock, Doing, At, BeliefInv, BeforeOK, AtRest
    <3> QED
      BY <2>2, <3>1 DEF Locking
  <2>6. CASE Reject \/ Replace \/ Serve \/ Falter \/ Restore
    <3>1. LastIs(jobs, c, current'[c])
      BY <2>6 DEF Reject, Replace, Serve, Falter, Restore, Doing, At, target, BeliefInv, DuringOK,
                  Locking
    <3> QED
      BY <2>2, <2>6, <3>1 DEF Reject, Replace, Serve, Falter, Restore, Locking
  <2>7. CASE Commit
    BY <2>2, <2>7 DEF Commit, Locking
  <2>8. CASE Unlock
    <3>1. /\ lock'[c] = None /\ files'[c] = files[c] /\ current'[c] = current[c]
          /\ files[c] = current[c] /\ (Doing("activated") => files[c] = Job.input)
      BY <1>0, <1>1, <2>8 DEF Unlock, LocalTypes, LockOK, Doing, At
    <3>2. CASE Doing("activated")
      <4>1. Job' = Job /\ Ends("deploy", Succeeded(Job.input))
        BY <1>0, <2>8, <3>2 DEF Unlock, Ends, Job, LocalTypes, Worker
      <4>2. Told(Job, Succeeded(Job.input))'
        BY <3>1, <3>2, <4>1 DEF Told, Succeeded, InPlace
      <4> QED
        BY <2>3, <4>1, <4>2
    <3>3. CASE ~Doing("activated")
      <4>1. Job' = Job /\ Ends("deploy", Failed(Job))
        BY <1>0, <2>8, <3>3 DEF Unlock, Ends, Job, LocalTypes, Worker
      <4>2. LastIs(jobs, c, current[c])
        BY <2>8, <3>3 DEF Unlock, Doing, At, BeliefInv, DuringOK, Locking
      <4>3. AtRest(c)'
        BY <1>0, <3>1, <4>1, <4>2 DEF AtRest, InPlace
      <4>4. Told(Job, Failed(Job))'
        BY <4>1, <4>3 DEF Told, Failed
      <4> QED
        BY <2>3, <4>1, <4>4
    <3> QED
      BY <3>2, <3>3
  <2> QED
    BY <2>4, <2>5, <2>6, <2>7, <2>8 DEF Activation, KeepLock
<1> QED
  BY <1>5, <1>6, <1>7 DEF BeliefInv

--------------------------------------------------------------------------------
(***************************************************************************)
(* The theorem.                                                            *)
(***************************************************************************)

(* At first nothing is installed, and nothing believed.                    *)
LEMMA InitBelief == Init => BeliefInv
<1> SUFFICES ASSUME Init PROVE BeliefInv
  OBVIOUS
<1>1. jobs = {} /\ "deploy" \in Workers
  BY DEF Init, P!Init, Workers, P!Kinds
<1>2. /\ worker["deploy"] = [step |-> "idle", job |-> NoJob, receipts |-> {}]
      /\ dirs["deploy"] = {}
  BY <1>1 DEF Init
<1>3. RestOK
  BY <1>1 DEF Init, RestOK, AtRest, InPlace, LastIs, Pipe!LandedOf
<1>4. BeforeOK /\ DuringOK /\ AfterOK /\ ToldOK
  BY <1>2 DEF BeforeOK, DuringOK, AfterOK, ToldOK, Locking
<1> QED
  BY <1>3, <1>4 DEF BeliefInv

(* The chain of belief holds together in every step.                       *)
LEMMA NextBelief ==
  ASSUME ~StickyLock, RolloutInv, BeliefInv, [Next]_vars
  PROVE  BeliefInv'
BY OthersBelief, TakeBelief, DeliverBelief, LocalBelief, ActivationBelief DEF Next, WorkerStep

(* When no run is pending, the release the control plane takes for current *)
(* is the one installed on the destination, whole and unlocked, whatever   *)
(* stops, losses and late receipts came before (component-deployments.ts:  *)
(* 368, ComponentExecutor.cjs:385-386).  It needs that a lock file can be  *)
(* removed: with StickyLock the code's answer to an error in the removal   *)
(* breaks it (run rollout_unlock).                                         *)
THEOREM BeliefIsTrue ==
  ASSUME ~StickyLock
  PROVE  Spec => []BeliefMatchesTarget
<1>1. RolloutInv /\ BeliefInv => BeliefMatchesTarget
  <2> SUFFICES ASSUME RolloutInv, BeliefInv, ~P!Busy, NEW c \in Components
               PROVE  LET r == P!Current(c)
                          release == IF r = None THEN None ELSE runs[r].res[c].digest
                      IN current[c] = release /\ files[c] = release /\ lock[c] = None
    BY DEF BeliefMatchesTarget
  <2>1. Pipe!FullInv /\ ~Pipe!Busy /\ P!Current(c) = Pipe!Current(c)
    BY SameValues DEF RolloutInv
  <2>2. Pipe!OpenOf(jobs, c) = {}
    <3>1. ASSUME NEW h \in Pipe!OpenOf(jobs, c) PROVE FALSE
      <4>1. h \in jobs /\ h.kind = "deploy" /\ Pipe!Unsettled(h)
        BY DEF Pipe!OpenOf
      <4>2. Pipe!Exists(h.run) /\ Pipe!Pending(runs[h.run])
        BY <2>1, <4>1, Pipe!UnsettledIsPending, PipeAssumptions
      <4>3. h.run \in Pipe!RunIds
        BY <2>1, <4>1 DEF Pipe!FullInv, Pipe!SafetyInv, Pipe!IInv, Pipe!JobsOK, Pipe!Job
      <4> QED
        BY <2>1, <4>2, <4>3 DEF Pipe!Busy
    <3> QED
      BY <3>1
  <2>3. InPlace(c, current[c]) /\ LastIs(jobs, c, current[c])
    BY <2>2 DEF BeliefInv, RestOK, AtRest
  <2>4. Pipe!LandedOf(jobs, c) = Pipe!Landed(c)
    BY DEF Pipe!LandedOf, Pipe!Landed
  <2>5. IF Pipe!Current(c) = None THEN Pipe!Landed(c) = {}
        ELSE /\ Pipe!Landed(c) # {}
             /\ \A k \in Pipe!Landed(c) : (\A m \in Pipe!Landed(c) : m.run <= k.run) =>
                  k.input = runs[Pipe!Current(c)].res[c].digest
    BY <2>1, Pipe!CurrentIsLanded, PipeAssumptions
  <2>6. current[c] = IF Pipe!Current(c) = None THEN None ELSE runs[Pipe!Current(c)].res[c].digest
    BY <2>3, <2>4, <2>5 DEF LastIs
  <2> QED
    BY <2>1, <2>3, <2>6 DEF InPlace
<1>2. ASSUME RolloutInv, BeliefInv, [Next]_vars
      PROVE  BeliefInv'
  BY <1>2, NextBelief
<1> QED
  BY <1>1, <1>2, InitBelief, RolloutInvariant, PTL DEF Spec
================================================================================
