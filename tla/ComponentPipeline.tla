--------------------------- MODULE ComponentPipeline ---------------------------
(***************************************************************************)
(* The control plane's component deployments: one project profile, the     *)
(* runs requested on it, and the build and deploy jobs its executors claim *)
(* (apps/control-plane/src/component-deployments.ts).                      *)
(*                                                                         *)
(* Every operation of the class runs to its end on one promise chain       *)
(* (serial), so an operation is one atomic step here.  What is not atomic  *)
(* is the disk: an operation writes several record files, and the process  *)
(* may stop between two writes.  The *Crash actions are the prefixes of an *)
(* operation that such a stop leaves behind; the next operation finds the  *)
(* records as they are, since the class keeps no run or job in memory.     *)
(***************************************************************************)
EXTENDS Naturals, FiniteSets

CONSTANTS
  Components,   (* component ids a profile may contain                      *)
  Configs,      (* the profile contents an owner may save                   *)
  Users,        (* workspace members                                        *)
  Owner,        (* the member that holds the owner role                     *)
  Artifacts,    (* digests of build outputs                                 *)
  None,         (* an absent optional field                                 *)
  MaxRuns,      (* bound: deployment runs requested                         *)
  MaxRevision   (* bound: profile revisions saved                           *)

(***************************************************************************)
(* Run r is the r-th run created.  The same number names the commit its    *)
(* source publication made and the source bundle exported for it.          *)
(***************************************************************************)
RunIds == 1..MaxRuns

Config == [parts    : SUBSET Components,
           deps     : [Components -> SUBSET Components],
           native   : SUBSET Components,
           archived : BOOLEAN]

(* The components c depends on, directly or through others: the least set  *)
(* that holds deps[c] and is closed under deps.                            *)
Upstream(cfg, c) ==
  {d \in Components :
     \A S \in SUBSET Components :
        (cfg.deps[c] \subseteq S /\ \A e \in S : cfg.deps[e] \subseteq S) => d \in S}

ASSUME BoundsAssumption == MaxRuns \in Nat /\ MaxRevision \in Nat
ASSUME OwnerAssumption  == Owner \in Users
ASSUME NoneAssumption   == None \notin Artifacts /\ None \notin Nat
ASSUME ConfigsAssumption ==
  /\ Configs \subseteq Config
  /\ \A cfg \in Configs : \A c \in Components :
        cfg.deps[c] \subseteq cfg.parts /\ c \notin Upstream(cfg, c)

VARIABLES
  profile,    (* the profile record: its revision and its contents          *)
  permitted,  (* members the allowed() callback accepts now                 *)
  runs,       (* the run records                                            *)
  jobs,       (* the job records                                            *)
  source,     (* the publication request of each run, in the connector store *)
  clock       (* the wall clock: the expiresAt of runs 1..clock has passed  *)

vars == <<profile, permitted, runs, jobs, source, clock>>

--------------------------------------------------------------------------------
(* Records.                                                                *)

RunStatus  == {"publishing", "running", "succeeded", "failed", "partial",
               "recovery-required"}
CompStatus == {"pending", "building", "deploying", "succeeded", "failed",
               "blocked", "recovery-required"}
JobStatus  == {"queued", "working", "succeeded", "failed", "recovery-required"}
Kinds      == {"build", "deploy"}
Operations == {"deploy", "rollback"}
ErrorCodes == {"none", "component-worker-interrupted"}

Result == [status : CompStatus,
           digest : Artifacts \cup {None},
           prev   : RunIds \cup {None},
           rel    : RunIds \cup {None}]

Run == [status : RunStatus, op : Operations, user : Users, rev : 1..MaxRevision,
        config : Configs, parts : SUBSET Components, head : RunIds \cup {None},
        resolved : BOOLEAN, res : [Components -> Result]]

NoRun == [status |-> "absent"]

(* nth counts the jobs of the same run, component and kind that existed    *)
(* when the job was written: 0 unless the pipeline repeats itself.         *)
Job == [run : RunIds, comp : Components, kind : Kinds, nth : Nat,
        status : JobStatus, input : Artifacts \cup RunIds,
        prev : Artifacts \cup {None}, head : RunIds \cup {None},
        output : Artifacts \cup {None}, code : ErrorCodes]

SourceStatus == {"none", "queued", "published", "failed"}

TypeOK ==
  /\ profile \in [revision : 0..MaxRevision, config : Configs \cup {None}]
  /\ permitted \in SUBSET Users
  /\ runs \in [RunIds -> Run \cup {NoRun}]
  /\ jobs \in SUBSET Job
  /\ source \in [RunIds -> SourceStatus]
  /\ clock \in 0..MaxRuns

Init ==
  /\ profile = [revision |-> 0, config |-> None]
  /\ permitted = Users
  /\ runs = [r \in RunIds |-> NoRun]
  /\ jobs = {}
  /\ source = [r \in RunIds |-> "none"]
  /\ clock = 0

--------------------------------------------------------------------------------
(* What advance() reads.                                                   *)

Shut    == {"succeeded", "failed", "blocked", "recovery-required"}
Bad     == {"failed", "blocked", "recovery-required"}
Pending(run) == run.status \in {"publishing", "running", "recovery-required"}
(* Faulty form of Live: advance does not return early on recovery.         *)
LiveInRecovery(run) == run.status \in {"publishing", "running", "recovery-required"}
Live(run)    == run.status \in {"publishing", "running"}

Exists(r)  == runs[r].status # "absent"
Expired(r) == r <= clock
(* Faulty form of Entitled: the request never expires.                     *)
EntitledForever(r, run) == run.user \in permitted
Entitled(r, run) == run.user \in permitted /\ ~Expired(r)

Phase(x) == IF x.digest = None THEN "build" ELSE "deploy"
JobsOf(J, r, c, kind) == {j \in J : j.run = r /\ j.comp = c /\ j.kind = kind}

(* The latest run in which c was deployed.  The code orders by updatedAt;  *)
(* a profile has one pending run at a time and a closed run is rewritten   *)
(* only by closeInterruptedBuild, in which nothing was deployed, so that   *)
(* is the order of creation.                                               *)
Deployed(r, c) == Exists(r) /\ c \in runs[r].parts /\ runs[r].res[c].status = "succeeded"
(* Faulty form of Latest: the runs are sorted the other way round.         *)
Oldest(r, c) == Deployed(r, c) /\ \A q \in RunIds : Deployed(q, c) => q >= r
Latest(r, c) == Deployed(r, c) /\ \A q \in RunIds : Deployed(q, c) => q <= r
Current(c) ==
  IF \E r \in RunIds : Latest(r, c) THEN CHOOSE r \in RunIds : Latest(r, c) ELSE None

--------------------------------------------------------------------------------
(* One pass of advance() over a live run, given the jobs J on disk.        *)

(* What the job of its present phase makes of component c.                 *)
Settled(J, r, run, c) ==
  LET x    == run.res[c]
      mine == JobsOf(J, r, c, Phase(x))
      j    == CHOOSE j \in mine : TRUE
  IN IF x.status \in Shut \/ mine = {} THEN x
     ELSE IF j.status = "succeeded" /\ j.kind = "build"
          THEN [x EXCEPT !.digest = j.output, !.rel = r, !.status = "pending"]
     ELSE IF j.status \in {"succeeded", "failed", "recovery-required"}
          THEN [x EXCEPT !.status = j.status]
     ELSE x

(* The loop visits components in dependency order, so a failure reaches    *)
(* every component downstream of it within the pass.                       *)
Blocked(J, r, run, c) ==
  \E d \in Upstream(run.config, c) \cap run.parts : Settled(J, r, run, d).status \in Bad
(* Faulty form of Ready: a dependency need only be built.                  *)
ReadyWhenBuilt(J, r, run, c) ==
  \A d \in run.config.deps[c] \cap run.parts : Settled(J, r, run, d).digest # None
Ready(J, r, run, c) ==
  \A d \in run.config.deps[c] \cap run.parts : Settled(J, r, run, d).status = "succeeded"

(* Faulty form of Starts: the saved status decides, not the jobs on disk.  *)
StartsByStatus(J, r, run, c) ==
  /\ c \in run.parts
  /\ run.res[c].status = "pending"
  /\ ~Blocked(J, r, run, c)
  /\ Ready(J, r, run, c)
Starts(J, r, run, c) ==
  /\ c \in run.parts
  /\ run.res[c].status \notin Shut
  /\ ~Blocked(J, r, run, c)
  /\ Ready(J, r, run, c)
  /\ JobsOf(J, r, c, Phase(run.res[c])) = {}

PassResult(J, r, run, c) ==
  LET x == run.res[c]
  IN IF c \notin run.parts \/ x.status \in Shut THEN x
     ELSE IF Blocked(J, r, run, c) THEN [x EXCEPT !.status = "blocked"]
     ELSE IF ~Ready(J, r, run, c) THEN x
     ELSE IF Starts(J, r, run, c)
          THEN [x EXCEPT !.status = IF x.digest = None THEN "building" ELSE "deploying"]
     ELSE Settled(J, r, run, c)

(* The run's status once its components stand at res.                      *)
Verdict(parts, res) ==
  IF \E c \in parts : res[c].status = "recovery-required" THEN "recovery-required"
  ELSE IF \A c \in parts : res[c].status = "succeeded" THEN "succeeded"
  ELSE IF \E c \in parts : res[c].status = "succeeded" THEN "partial"
  ELSE "failed"

Pass(J, r, run) ==
  LET res == [c \in Components |-> PassResult(J, r, run, c)]
      over == \/ \E c \in run.parts : res[c].status = "recovery-required"
              \/ \A c \in run.parts : res[c].status \in Shut
  IN [run EXCEPT !.res = res,
                 !.status = IF over THEN Verdict(run.parts, res) ELSE "running"]

(* Faulty forms of ExpiredResult: one takes every activation that has not  *)
(* reported for one that never began, the other one forgets to read the    *)
(* reports.                                                                *)
ExpiredWorkingFails(J, r, run, c) ==
  LET x == run.res[c]
  IN IF c \notin run.parts \/ x.status \in {"succeeded", "failed", "blocked"} THEN x
     ELSE IF \E j \in JobsOf(J, r, c, "deploy") : j.status = "succeeded"
          THEN [x EXCEPT !.status = "succeeded"]
     ELSE [x EXCEPT !.status = "failed"]
ExpiredIgnoresReports(J, r, run, c) ==
  LET x == run.res[c]
  IN IF c \notin run.parts \/ x.status \in {"succeeded", "failed", "blocked"} THEN x
     ELSE IF \E j \in JobsOf(J, r, c, "deploy") : j.status \in {"working", "recovery-required"}
          THEN [x EXCEPT !.status = "recovery-required"]
     ELSE [x EXCEPT !.status = "failed"]

(* The requester lost access or the hour is over: only a deploy job that   *)
(* an executor may have acted on counts.                                   *)
ExpiredResult(J, r, run, c) ==
  LET x    == run.res[c]
      mine == JobsOf(J, r, c, "deploy")
  IN IF c \notin run.parts \/ x.status \in {"succeeded", "failed", "blocked"} THEN x
     ELSE IF \E j \in mine : j.status = "succeeded" THEN [x EXCEPT !.status = "succeeded"]
     ELSE IF \E j \in mine : j.status \in {"working", "recovery-required"}
          THEN [x EXCEPT !.status = "recovery-required"]
     ELSE [x EXCEPT !.status = "failed"]

Expire(J, r, run) ==
  LET res == [c \in Components |-> ExpiredResult(J, r, run, c)]
  IN [run EXCEPT !.res = res, !.status = Verdict(run.parts, res)]

FailAll(run) ==
  [run EXCEPT !.status = "failed",
     !.res = [c \in Components |->
                IF c \in run.parts THEN [run.res[c] EXCEPT !.status = "failed"] ELSE run.res[c]]]

(* The publication of a publishing run: queueSource is refused (offline or *)
(* retargeted connector) only while there is no request for the run.       *)
Publish(r, run, accepted) ==
  IF run.status # "publishing" THEN run
  ELSE IF source[r] = "failed" \/ (source[r] = "none" /\ ~accepted) THEN FailAll(run)
  ELSE IF source[r] = "published" THEN [run EXCEPT !.head = r, !.status = "running"]
  ELSE run

Advanced(J, r, run, accepted) ==
  LET run1 == Publish(r, run, accepted)
  IN IF ~Live(run) THEN run
     ELSE IF ~Entitled(r, run) THEN Expire(J, r, run)
     ELSE IF run1.status = "running" THEN Pass(J, r, run1)
     ELSE run1

(* The components advance() writes a new job for.                          *)
Starting(J, r, run, accepted) ==
  LET run1 == Publish(r, run, accepted)
  IN IF Live(run) /\ Entitled(r, run) /\ run1.status = "running"
     THEN {c \in Components : Starts(J, r, run1, c)}
     ELSE {}

(* Faulty form of NewJob: the replaced release is named by its run.        *)
NewJobNamesRun(J, R, r, run, c) ==
  LET x == run.res[c]
  IN [run |-> r, comp |-> c, kind |-> Phase(x), nth |-> 0, status |-> "queued",
      input |-> IF x.digest = None THEN r ELSE x.digest, prev |-> x.prev,
      head |-> IF run.head # None THEN run.head ELSE R[x.rel].head,
      output |-> None, code |-> "none"]

(* The job written for component c of run r, where R holds the run records *)
(* read from disk.                                                         *)
NewJob(J, R, r, run, c) ==
  LET x == run.res[c]
  IN [run    |-> r,
      comp   |-> c,
      kind   |-> Phase(x),
      nth    |-> Cardinality(JobsOf(J, r, c, Phase(x))),
      status |-> "queued",
      input  |-> IF x.digest = None THEN r ELSE x.digest,
      prev   |-> IF x.prev = None THEN None ELSE R[x.prev].res[c].digest,
      head   |-> IF run.head # None THEN run.head ELSE R[x.rel].head,
      output |-> None,
      code   |-> "none"]

NewJobs(J, R, r, accepted) ==
  {NewJob(J, R, r, Publish(r, R[r], accepted), c) : c \in Starting(J, r, R[r], accepted)}

(* advance() for every run of the set S.                                   *)
AdvancedRuns(S, J, R, accepted) ==
  [r \in RunIds |-> IF r \in S THEN Advanced(J, r, R[r], accepted) ELSE R[r]]
AdvancedJobs(S, J, R, accepted) ==
  J \cup UNION {NewJobs(J, R, r, accepted) : r \in S}
QueuedSource(S, R) ==
  [r \in RunIds |->
     IF r \in S /\ R[r].status = "publishing" /\ Entitled(r, R[r]) /\ source[r] = "none"
     THEN "queued" ELSE source[r]]

AdvanceRuns(S, J, R, accepted) ==
  /\ runs' = AdvancedRuns(S, J, R, accepted)
  /\ jobs' = AdvancedJobs(S, J, R, accepted)
  /\ source' = IF accepted THEN QueuedSource(S, R) ELSE source

--------------------------------------------------------------------------------
(* Operations of members.                                                  *)

Busy == \E r \in RunIds : Exists(r) /\ Pending(runs[r])

(* The owner saves the next revision of the profile.                       *)
SaveProfile(u, cfg) ==
  /\ u \in permitted /\ u = Owner
  /\ ~Busy
  /\ profile.revision < MaxRevision
  /\ profile' = [revision |-> profile.revision + 1, config |-> cfg]
  /\ UNCHANGED <<permitted, runs, jobs, source, clock>>

(* The release before the current one, which a rollback returns to.        *)
Previous(c) == IF Current(c) = None THEN None ELSE runs[Current(c)].res[c].prev
Restorable(c) ==
  /\ Previous(c) # None
  /\ Deployed(Previous(c), c)
  /\ runs[Previous(c)].res[c].digest # None

(* Faulty form of FreshResult: a rollback keeps the current release's run. *)
FreshResultKeepsRelease(op, c) ==
  [status |-> "pending",
   digest |-> IF op = "rollback" THEN runs[Previous(c)].res[c].digest ELSE None,
   prev   |-> Current(c),
   rel    |-> IF op = "rollback" THEN runs[Current(c)].res[c].rel ELSE None]

FreshResult(op, c) ==
  LET back == Previous(c)
  IN [status |-> "pending",
      digest |-> IF op = "rollback" THEN runs[back].res[c].digest ELSE None,
      prev   |-> Current(c),
      rel    |-> IF op = "rollback" THEN runs[back].res[c].rel ELSE None]

IdleResult == [status |-> "pending", digest |-> None, prev |-> None, rel |-> None]

FreshRun(u, op, parts) ==
  [status   |-> IF op = "deploy" THEN "publishing" ELSE "running",
   op       |-> op,
   user     |-> u,
   rev      |-> profile.revision,
   config   |-> profile.config,
   parts    |-> parts,
   head     |-> None,
   resolved |-> FALSE,
   res      |-> [c \in Components |-> IF c \in parts THEN FreshResult(op, c) ELSE IdleResult]]

NextRun(r) == ~Exists(r) /\ \A q \in RunIds : q < r => Exists(q)

(* A member asks for run r: of the whole profile (scope = None) or of one  *)
(* component.  expectedRevision and expectedCurrent equal the stored ones, *)
(* or the request is refused; a repeated requestId changes nothing.        *)
CanRequest(u, op, scope, parts) ==
  /\ u \in permitted
  /\ profile.config # None /\ ~profile.config.archived
  /\ parts = IF scope = None THEN profile.config.parts ELSE profile.config.parts \cap {scope}
  /\ parts # {}
  /\ parts \cap profile.config.native # {} => u = Owner
  /\ ~Busy
  /\ scope # None => \A d \in profile.config.deps[scope] : Current(d) # None
  /\ op = "rollback" => \A c \in parts : Restorable(c)

Request(u, op, scope, r) ==
  \E parts \in SUBSET Components, accepted \in BOOLEAN :
    LET new == [runs EXCEPT ![r] = FreshRun(u, op, parts)]
    IN /\ NextRun(r)
       /\ CanRequest(u, op, scope, parts)
       /\ AdvanceRuns({r}, jobs, new, accepted)
       /\ UNCHANGED <<profile, permitted, clock>>

(* The process stops after the run record is written.                      *)
RequestCrash(u, op, scope, r) ==
  \E parts \in SUBSET Components :
    /\ NextRun(r)
    /\ CanRequest(u, op, scope, parts)
    /\ runs' = [runs EXCEPT ![r] = FreshRun(u, op, parts)]
    /\ UNCHANGED <<profile, permitted, jobs, source, clock>>

(* The owner closes, as failed, a run whose build was interrupted before   *)
(* anything was produced or activated.                                     *)
Closable(r) ==
  LET mine == {j \in jobs : j.run = r}
  IN /\ runs[r].status = "recovery-required"
     /\ mine # {}
     /\ \A j \in mine : /\ j.kind = "build" /\ j.output = None
                         /\ j.status \in {"recovery-required", "failed"}
     /\ \E j \in mine : /\ j.status = "recovery-required"
                         /\ j.code = "component-worker-interrupted"
     /\ \A c \in runs[r].parts : /\ runs[r].res[c].status # "succeeded"
                                 /\ runs[r].res[c].digest = None

MayClose(u, r) ==
  /\ u \in permitted /\ u = Owner
  /\ Exists(r)
  /\ runs[r].user = u /\ runs[r].head # None
  /\ runs[r].resolved \/ Closable(r)

Resolve(r) ==
  runs' = IF runs[r].resolved THEN runs
          ELSE [runs EXCEPT ![r] = [FailAll(runs[r]) EXCEPT !.resolved = TRUE]]

(* The claims of run r still to be closed, and the jobs once those of the  *)
(* set D are.                                                              *)
Claims(r) == {j \in jobs : j.run = r /\ j.status = "recovery-required"}
JobsClosed(D) == (jobs \ D) \cup {[j EXCEPT !.status = "failed", !.code = "none"] : j \in D}

CloseInterruptedBuild(u, r) ==
  /\ MayClose(u, r)
  /\ Resolve(r)
  /\ jobs' = JobsClosed(Claims(r))
  /\ UNCHANGED <<profile, permitted, source, clock>>

(* The process stops after the resolution, with part of the claims closed. *)
CloseCrash(u, r) ==
  \E D \in SUBSET Claims(r) :
    /\ MayClose(u, r)
    /\ Resolve(r)
    /\ jobs' = JobsClosed(D)
    /\ UNCHANGED <<profile, permitted, source, clock>>

(* Access is granted or withdrawn in the workspace.                        *)
ChangeAccess(u) ==
  /\ permitted' = IF u \in permitted THEN permitted \ {u} ELSE permitted \cup {u}
  /\ UNCHANGED <<profile, runs, jobs, source, clock>>

--------------------------------------------------------------------------------
(* Operations of executors, and of anyone who reads the state.             *)

(* state(), or a claim() that hands out nothing: every run is advanced.    *)
Poll ==
  \E accepted \in BOOLEAN :
    /\ AdvanceRuns(RunIds, jobs, runs, accepted)
    /\ UNCHANGED <<profile, permitted, clock>>

(* The process stops within advance(): the publication request and some of *)
(* the new jobs are written, the run record is not.                        *)
AdvanceCrash(r) ==
  \E D \in SUBSET NewJobs(jobs, runs, r, TRUE) :
    /\ jobs' = jobs \cup D
    /\ source' = QueuedSource({r}, runs)
    /\ UNCHANGED <<profile, permitted, runs, clock>>

(* claim(): every run is advanced, then a queued job is handed out.        *)
(* Faulty form of MayClaim: the run's status is not looked at.             *)
MayClaimAnyRun(j, R) ==
  /\ j.status = "queued" /\ ~Expired(j.run)
  /\ R[j.run].user \in permitted
MayClaim(j, R) ==
  /\ j.status = "queued" /\ ~Expired(j.run)
  /\ R[j.run].status = "running" /\ R[j.run].user \in permitted

ClaimJob(j, accepted) ==
  LET R == AdvancedRuns(RunIds, jobs, runs, accepted)
      J == AdvancedJobs(RunIds, jobs, runs, accepted)
  IN /\ j \in J /\ MayClaim(j, R)
     /\ runs' = R
     /\ jobs' = (J \ {j}) \cup {[j EXCEPT !.status = "working"]}
     /\ source' = IF accepted THEN QueuedSource(RunIds, runs) ELSE source
     /\ UNCHANGED <<profile, permitted, clock>>

Claim ==
  \E accepted \in BOOLEAN :
    \E j \in AdvancedJobs(RunIds, jobs, runs, accepted) : ClaimJob(j, accepted)

(* The builder stores its archive; a second upload must repeat the first.  *)
Upload(j, a) ==
  /\ j.kind = "build" /\ j.status = "working" /\ ~Expired(j.run)
  /\ j.output \in {None, a}
  /\ jobs' = (jobs \ {j}) \cup {[j EXCEPT !.output = a]}
  /\ UNCHANGED <<profile, permitted, runs, source, clock>>

(* The digest a receipt for job j must carry.                              *)
ReceiptDigest(j) == IF j.kind = "build" /\ j.output # None THEN j.output ELSE j.input

MayComplete(j, status, d) ==
  /\ d = ReceiptDigest(j)
  /\ j.status = "working"
  /\ ~(j.kind = "build" /\ status = "succeeded" /\ j.output = None)

Completed(j, status, code) ==
  (jobs \ {j}) \cup {[j EXCEPT !.status = status, !.code = code]}

(* A receipt arrives.  One that repeats the recorded status is accepted    *)
(* and changes nothing.                                                    *)
Complete(j, status, d, code) ==
  \E accepted \in BOOLEAN :
    /\ MayComplete(j, status, d)
    /\ AdvanceRuns({j.run}, Completed(j, status, code), runs, accepted)
    /\ UNCHANGED <<profile, permitted, clock>>

(* The process stops after the job record is written.                      *)
CompleteCrash(j, status, d, code) ==
  /\ MayComplete(j, status, d)
  /\ jobs' = Completed(j, status, code)
  /\ UNCHANGED <<profile, permitted, runs, source, clock>>

--------------------------------------------------------------------------------
(* The requester's connector publishes, or fails to publish, the source of *)
(* a run; it is let through only while the run still waits for it.         *)
PublishSource(r) ==
  /\ source[r] = "queued"
  /\ Exists(r) /\ runs[r].status = "publishing" /\ ~Expired(r)
  /\ source' = [source EXCEPT ![r] = "published"]
  /\ UNCHANGED <<profile, permitted, runs, jobs, clock>>

FailSource(r) ==
  /\ source[r] = "queued"
  /\ source' = [source EXCEPT ![r] = "failed"]
  /\ UNCHANGED <<profile, permitted, runs, jobs, clock>>

(* Sixty minutes have passed since the next run was requested.             *)
PassDeadline ==
  /\ clock < MaxRuns /\ Exists(clock + 1)
  /\ clock' = clock + 1
  /\ UNCHANGED <<profile, permitted, runs, jobs, source>>

--------------------------------------------------------------------------------
Outcomes == {"succeeded", "failed", "recovery-required"}
Codes(status) ==
  IF status = "recovery-required" THEN ErrorCodes ELSE {"none"}

MemberStep ==
  \E u \in Users :
    \/ \E cfg \in Configs : SaveProfile(u, cfg)
    \/ \E op \in Operations, scope \in Components \cup {None}, r \in RunIds :
         Request(u, op, scope, r) \/ RequestCrash(u, op, scope, r)
    \/ \E r \in RunIds : CloseInterruptedBuild(u, r) \/ CloseCrash(u, r)
    \/ ChangeAccess(u)

ExecutorStep ==
  \/ Poll
  \/ \E r \in RunIds : AdvanceCrash(r)
  \/ Claim
  \/ \E j \in jobs :
       \/ \E a \in Artifacts : Upload(j, a)
       \/ \E status \in Outcomes : \E code \in Codes(status) :
            \E d \in Artifacts \cup RunIds :
              Complete(j, status, d, code) \/ CompleteCrash(j, status, d, code)

ConnectorStep == \E r \in RunIds : PublishSource(r) \/ FailSource(r)

Next == MemberStep \/ ExecutorStep \/ ConnectorStep \/ PassDeadline

(* Executors poll claim() every two seconds whatever happens, and the      *)
(* clock moves; nobody is obliged to request, build, publish or answer.    *)
Fairness == WF_vars(Poll) /\ WF_vars(PassDeadline)

Spec == Init /\ [][Next]_vars
FairSpec == Spec /\ Fairness

--------------------------------------------------------------------------------
(* Properties.                                                             *)

Ended(r) == Exists(r) /\ runs[r].status \in {"succeeded", "failed", "partial"}
Unsettled(j) == j.status \in {"working", "recovery-required"}

(* The deploy jobs of component c that reported success: each one put its  *)
(* input on the component's destination, so the last of them before run r  *)
(* is what r finds there.                                                  *)
Landed(c) == {j \in jobs : j.comp = c /\ j.kind = "deploy" /\ j.status = "succeeded"}
LastLanded(c, r) ==
  {j \in Landed(c) : j.run < r /\ \A k \in Landed(c) : k.run < r => k.run <= j.run}

(* A run asks an executor for each build and each activation at most once, *)
(* whatever writes a crash leaves half done: advance() finds the job it    *)
(* wrote before its run record was lost (component-deployments.ts:664).    *)
NoDuplicateJob ==
  \A j, k \in jobs : j.run = k.run /\ j.comp = k.comp /\ j.kind = k.kind => j = k

(* Two claimed or uncertain activations never concern one component: a run *)
(* that leaves an activation uncertain keeps the profile to itself         *)
(* (component-deployments.ts:403, and advance's expiry branch).            *)
OneWriterPerTarget ==
  \A j, k \in jobs :
     /\ j.kind = "deploy" /\ k.kind = "deploy" /\ j.comp = k.comp
     /\ Unsettled(j) /\ Unsettled(k)
     => j = k

(* No job of a component exists before each of its dependencies was        *)
(* activated: by the same run if it deploys them, by an earlier one if it  *)
(* is a component-only run, in which order the records are written or lost.*)
DependenciesFirst ==
  \A j \in jobs : \A d \in runs[j.run].config.deps[j.comp] :
     \E k \in Landed(d) : IF d \in runs[j.run].parts THEN k.run = j.run ELSE k.run < j.run

(* What a destination is told to activate came out of a finished build of  *)
(* that same component, from the very commit the job names; a rollback too *)
(* (releaseRunId, component-deployments.ts:471-481 and 709).               *)
ArtifactProvenance ==
  \A j \in jobs : j.kind = "deploy" =>
     \E b \in jobs : /\ b.kind = "build" /\ b.comp = j.comp /\ b.status = "succeeded"
                     /\ b.output = j.input /\ b.head = j.head /\ b.run <= j.run

(* The release a job says it replaces is the last one activated before its *)
(* run, so the worker's comparison with the destination's current release  *)
(* (ComponentExecutor.cjs:385) can succeed; a rollback activates the       *)
(* release activated just before that one.                                 *)
ReplacesLastRelease ==
  \A j \in jobs :
    /\ j.prev = None <=> LastLanded(j.comp, j.run) = {}
    /\ \A k \in LastLanded(j.comp, j.run) :
         /\ j.prev = k.input
         /\ runs[j.run].op = "rollback" =>
              \E m \in LastLanded(j.comp, k.run) : j.input = m.input

(* An ended run tells the truth about its destinations: a component counts *)
(* as succeeded exactly when its activation reported success, and no       *)
(* activation is left uncertain, even when the report, the expiry and a    *)
(* stop of the process fall together (component-deployments.ts:586-610).   *)
TruthfulOutcome ==
  \A r \in RunIds : Ended(r) =>
    \A c \in runs[r].parts :
      /\ runs[r].res[c].status = "succeeded" <=> \E j \in Landed(c) : j.run = r
      /\ \A j \in JobsOf(jobs, r, c, "deploy") : ~Unsettled(j)

(* Once a run has ended its record is final, and the only jobs of it that  *)
(* still change are builds an executor had claimed: nothing more is        *)
(* created, handed out or activated for it.                                *)
EndedIsFinal ==
  [][\A r \in RunIds : Ended(r) =>
       /\ runs'[r] = runs[r]
       /\ \A j \in jobs' \ jobs : j.run = r =>
            \E k \in JobsOf(jobs, r, j.comp, "build") : j.kind = "build" /\ Unsettled(k)]_vars

(* A run that needs recovery is never resumed or quietly closed: it leaves *)
(* that status only by the owner's resolution, and only with no activation *)
(* ever queued (ADR 0049, ADR 0051).                                       *)
RecoveryNeedsOwner ==
  [][\A r \in RunIds : Exists(r) /\ runs[r].status = "recovery-required" =>
       \/ runs'[r] = runs[r]
       \/ /\ runs'[r].resolved /\ runs'[r].status = "failed"
          /\ \A j \in jobs' : j.run = r => j.kind = "build"]_vars

(* A run that is publishing or running; there is one at a time (Busy), and *)
(* it comes to a verdict: while executors keep polling and time passes, no *)
(* lost connector, executor, receipt or permission holds it.               *)
UnderWay == \E r \in RunIds : Exists(r) /\ Live(runs[r])

(* ADR 0049: a failure "preserves independently successful components;     *)
(* report partial outcomes".  A component whose activation reported        *)
(* success, and which was not itself declared uncertain before, is in the  *)
(* end recorded as succeeded in its run, whatever befell its siblings.     *)
SuccessIsRecorded ==
  \A r \in RunIds, c \in Components :
    (\E j \in Landed(c) : j.run = r /\ runs[r].res[c].status # "recovery-required")
      ~> Deployed(r, c)

(* ADR 0051: the owner can close an interrupted build; only "any output,   *)
(* destination job, in-flight build or successful component" rejects it.   *)
InterruptedBuildClosable ==
  \A r \in RunIds :
    LET mine == {j \in jobs : j.run = r}
    IN /\ Exists(r) /\ runs[r].status = "recovery-required"
       /\ \E j \in mine : /\ j.status = "recovery-required"
                          /\ j.code = "component-worker-interrupted"
       /\ \A j \in mine : j.kind = "build" /\ j.output = None /\ j.status # "working"
       /\ \A c \in runs[r].parts : runs[r].res[c].status # "succeeded"
       => Closable(r)
================================================================================
