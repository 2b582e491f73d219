------------------------ MODULE ComponentPipelineProofs ------------------------
(***************************************************************************)
(* Proofs about ComponentPipeline, for every value of its constants: its   *)
(* types and the uniqueness of its jobs (IInv), its safety properties      *)
(* (SafetyInv), and what its releases are made of (FullInv).               *)
(***************************************************************************)
EXTENDS ComponentPipeline, FiniteSetTheorems, WellFoundedInduction, TLAPS

(***************************************************************************)
(* Types of the helpers of one advance() pass.                             *)
(***************************************************************************)
LEMMA RunHasStatus ==
  ASSUME NEW x \in Run \cup {NoRun}
  PROVE  /\ x.status # "absent" => x \in Run
         /\ x \in Run => x.status \in RunStatus /\ x.status # "absent"
BY DEF Run, NoRun, RunStatus

(* What a job makes of a component is a well-typed result.                 *)
LEMMA SettledType ==
  ASSUME NEW J \in SUBSET Job, NEW r \in RunIds, NEW run \in Run, NEW c \in Components
  PROVE  Settled(J, r, run, c) \in Result
<1> DEFINE x == run.res[c]
           mine == JobsOf(J, r, c, Phase(x))
           j == CHOOSE j \in mine : TRUE
<1>1. x \in Result
  BY DEF Run
<1>2. CASE x.status \in Shut \/ mine = {}
  BY <1>1, <1>2 DEF Settled
<1>3. CASE ~(x.status \in Shut \/ mine = {})
  <2>1. j \in Job
    BY <1>3 DEF JobsOf
  <2>2. j.output \in Artifacts \cup {None}
    BY <2>1 DEF Job
  <2>3. [x EXCEPT !.digest = j.output, !.rel = r, !.status = "pending"] \in Result
    BY <1>1, <2>2 DEF Result, CompStatus
  <2>4. j.status \in {"succeeded", "failed", "recovery-required"}
           => [x EXCEPT !.status = j.status] \in Result
    BY <1>1 DEF Result, CompStatus
  <2> QED
    BY <1>1, <1>3, <2>3, <2>4 DEF Settled
<1> QED
  BY <1>2, <1>3

(* One visit of the loop of advance() leaves a well-typed result.          *)
LEMMA PassResultType ==
  ASSUME NEW J \in SUBSET Job, NEW r \in RunIds, NEW run \in Run, NEW c \in Components
  PROVE  PassResult(J, r, run, c) \in Result
<1>1. run.res[c] \in Result
  BY DEF Run
<1>2. \A s \in CompStatus : [run.res[c] EXCEPT !.status = s] \in Result
  BY <1>1 DEF Result
<1> QED
  BY <1>1, <1>2, SettledType DEF PassResult, CompStatus

(* The expiry branch of advance() leaves a well-typed result.              *)
LEMMA ExpiredResultType ==
  ASSUME NEW J \in SUBSET Job, NEW r \in RunIds, NEW run \in Run, NEW c \in Components
  PROVE  ExpiredResult(J, r, run, c) \in Result
<1>1. run.res[c] \in Result
  BY DEF Run
<1>2. \A s \in CompStatus : [run.res[c] EXCEPT !.status = s] \in Result
  BY <1>1 DEF Result
<1> QED
  BY <1>1, <1>2 DEF ExpiredResult, CompStatus

(* The verdict over the results is the status of a run.                    *)
LEMMA VerdictType ==
  ASSUME NEW parts, NEW res
  PROVE  Verdict(parts, res) \in {"recovery-required", "succeeded", "partial", "failed"}
BY DEF Verdict

(* A run record with another status and other results is a run record.     *)
LEMMA RunUpdateType ==
  ASSUME NEW run \in Run, NEW s \in RunStatus, NEW res \in [Components -> Result]
  PROVE  /\ [run EXCEPT !.res = res, !.status = s] \in Run
         /\ [run EXCEPT !.status = s, !.res = res] \in Run
BY DEF Run

(***************************************************************************)
(* What a pass keeps of a component's result: the run it replaces, and an  *)
(* artifact once it is there.  A new artifact is released by run r itself. *)
(***************************************************************************)
Kept(x, y, r) ==
  /\ y.prev = x.prev
  /\ x.digest # None => y.digest = x.digest /\ y.rel = x.rel
  /\ y.digest # None => x.digest # None \/ y.rel = r

(* Rewriting the status of a result keeps the release it refers to.        *)
LEMMA StatusKept ==
  ASSUME NEW x \in Result, NEW s, NEW r
  PROVE  Kept(x, [x EXCEPT !.status = s], r) /\ Kept(x, x, r)
BY DEF Kept, Result

(* Reading a job keeps the references, or sets them to this very run.      *)
LEMMA SettledKept ==
  ASSUME NEW J \in SUBSET Job, NEW r \in RunIds, NEW run \in Run, NEW c \in Components
  PROVE  Kept(run.res[c], Settled(J, r, run, c), r)
<1> DEFINE x == run.res[c]
           mine == JobsOf(J, r, c, Phase(x))
           j == CHOOSE j \in mine : TRUE
<1>1. x \in Result
  BY DEF Run
<1>2. CASE x.status \in Shut \/ mine = {}
  BY <1>1, <1>2, StatusKept DEF Settled
<1>3. CASE ~(x.status \in Shut \/ mine = {})
  <2>1. j.kind = Phase(x)
    BY <1>3 DEF JobsOf
  <2>2. CASE j.status = "succeeded" /\ j.kind = "build"
    <3>1. Settled(J, r, run, c) = [x EXCEPT !.digest = j.output, !.rel = r, !.status = "pending"]
      BY <1>3, <2>2 DEF Settled
    <3>2. x.digest = None
      BY <2>1, <2>2 DEF Phase
    <3> QED
      BY <1>1, <3>1, <3>2 DEF Kept, Result
  <2>3. CASE ~(j.status = "succeeded" /\ j.kind = "build")
    BY <1>1, <1>3, <2>3, StatusKept DEF Settled
  <2> QED
    BY <2>2, <2>3
<1> QED
  BY <1>2, <1>3

(* So does a visit of the loop.                                            *)
LEMMA PassResultKept ==
  ASSUME NEW J \in SUBSET Job, NEW r \in RunIds, NEW run \in Run, NEW c \in Components
  PROVE  Kept(run.res[c], PassResult(J, r, run, c), r)
<1>1. run.res[c] \in Result
  BY DEF Run
<1> QED
  BY <1>1, StatusKept, SettledKept DEF PassResult

(* So does the expiry branch.                                              *)
LEMMA ExpiredResultKept ==
  ASSUME NEW J \in SUBSET Job, NEW r \in RunIds, NEW run \in Run, NEW c \in Components
  PROVE  Kept(run.res[c], ExpiredResult(J, r, run, c), r)
<1>1. run.res[c] \in Result
  BY DEF Run
<1> QED
  BY <1>1, StatusKept DEF ExpiredResult

(***************************************************************************)
(* A run refers only to runs that exist: the one whose release it replaces *)
(* and the one that built its artifact.  A rollback has its artifacts from *)
(* the start.  TypeOK is inductive only together with this.                *)
(***************************************************************************)
RefOK(R, run) ==
  /\ \A c \in Components :
       LET x == run.res[c]
       IN /\ x.prev # None => R[x.prev].status # "absent"
          /\ x.digest # None => x.rel # None /\ R[x.rel].status # "absent"
  /\ run.status = "running" /\ run.head = None =>
       \A c \in run.parts : run.res[c].digest # None

(* A run whose results keep their references still refers to real runs.    *)
LEMMA KeptRefOK ==
  ASSUME NEW R \in [RunIds -> Run \cup {NoRun}], NEW r \in RunIds, R[r].status # "absent",
         NEW run \in Run, RefOK(R, run), NEW next \in Run,
         \A c \in Components : Kept(run.res[c], next.res[c], r),
         next.parts = run.parts,
         next.status = "running" /\ next.head = None =>
           run.status = "running" /\ run.head = None
  PROVE  RefOK(R, next)
<1>1. ASSUME NEW c \in Components
      PROVE  LET x == next.res[c]
             IN /\ x.prev # None => R[x.prev].status # "absent"
                /\ x.digest # None => x.rel # None /\ R[x.rel].status # "absent"
  <2>1. Kept(run.res[c], next.res[c], r)
    BY <1>1
  <2>2. r # None
    BY NoneAssumption DEF RunIds
  <2> QED
    BY <1>1, <2>1, <2>2 DEF Kept, RefOK
<1>2. ASSUME next.status = "running", next.head = None, NEW c \in next.parts
      PROVE  next.res[c].digest # None
  <2>1. c \in Components
    BY <1>2 DEF Run
  <2> QED
    BY <1>2, <2>1 DEF Kept, RefOK
<1> QED
  BY <1>1, <1>2 DEF RefOK

(* A pass over a running run leaves a well-typed run with good references. *)
LEMMA PassOK ==
  ASSUME NEW R \in [RunIds -> Run \cup {NoRun}], NEW r \in RunIds, R[r].status # "absent",
         NEW run \in Run, RefOK(R, run), run.status = "running", NEW J \in SUBSET Job
  PROVE  Pass(J, r, run) \in Run /\ RefOK(R, Pass(J, r, run))
<1> DEFINE res == [c \in Components |-> PassResult(J, r, run, c)]
           over == \/ \E c \in run.parts : res[c].status = "recovery-required"
                   \/ \A c \in run.parts : res[c].status \in Shut
           s == IF over THEN Verdict(run.parts, res) ELSE "running"
           next == [run EXCEPT !.res = res, !.status = s]
<1>1. res \in [Components -> Result]
  BY PassResultType
<1>2. s \in RunStatus
  BY VerdictType DEF RunStatus
<1>3. next \in Run
  BY <1>1, <1>2, RunUpdateType
<1>4. Pass(J, r, run) = next
  BY DEF Pass
<1>5. next.res = res /\ next.parts = run.parts /\ next.head = run.head
  BY DEF Run
<1>6. \A c \in Components : Kept(run.res[c], next.res[c], r)
  BY <1>5, PassResultKept
<1> HIDE DEF next
<1> QED
  BY <1>3, <1>4, <1>5, <1>6, KeptRefOK

(* So does expiry.                                                         *)
LEMMA ExpireOK ==
  ASSUME NEW R \in [RunIds -> Run \cup {NoRun}], NEW r \in RunIds, R[r].status # "absent",
         NEW run \in Run, RefOK(R, run), NEW J \in SUBSET Job
  PROVE  Expire(J, r, run) \in Run /\ RefOK(R, Expire(J, r, run))
<1> DEFINE res == [c \in Components |-> ExpiredResult(J, r, run, c)]
           next == [run EXCEPT !.res = res, !.status = Verdict(run.parts, res)]
<1>1. res \in [Components -> Result]
  BY ExpiredResultType
<1>2. Verdict(run.parts, res) \in RunStatus \ {"running"}
  BY VerdictType DEF RunStatus
<1>3. next \in Run
  BY <1>1, <1>2, RunUpdateType
<1>4. Expire(J, r, run) = next
  BY DEF Expire
<1>5. next.res = res /\ next.parts = run.parts /\ next.status # "running"
  BY <1>2 DEF Run
<1>6. \A c \in Components : Kept(run.res[c], next.res[c], r)
  BY <1>5, ExpiredResultKept
<1> HIDE DEF next
<1> QED
  BY <1>3, <1>4, <1>5, <1>6, KeptRefOK

(* So does a failed publication.                                           *)
LEMMA FailAllOK ==
  ASSUME NEW R \in [RunIds -> Run \cup {NoRun}], NEW r \in RunIds, R[r].status # "absent",
         NEW run \in Run, RefOK(R, run)
  PROVE  FailAll(run) \in Run /\ RefOK(R, FailAll(run)) /\ FailAll(run).status = "failed"
<1> DEFINE res == [c \in Components |->
                     IF c \in run.parts THEN [run.res[c] EXCEPT !.status = "failed"] ELSE run.res[c]]
           next == [run EXCEPT !.status = "failed", !.res = res]
<1>1. \A c \in Components : run.res[c] \in Result
  BY DEF Run
<1>2. res \in [Components -> Result]
  BY <1>1 DEF Result, CompStatus
<1>3. next \in Run
  BY <1>2, RunUpdateType DEF RunStatus
<1>4. FailAll(run) = next
  BY DEF FailAll
<1>5. next.res = res /\ next.parts = run.parts /\ next.status = "failed"
  BY DEF Run
<1>6. \A c \in Components : Kept(run.res[c], next.res[c], r)
  BY <1>1, <1>5, StatusKept
<1> HIDE DEF next
<1> QED
  BY <1>3, <1>4, <1>5, <1>6, KeptRefOK

(* So does the publication step, whatever the connector answered.          *)
LEMMA PublishOK ==
  ASSUME NEW R \in [RunIds -> Run \cup {NoRun}], NEW r \in RunIds, R[r].status # "absent",
         NEW run \in Run, RefOK(R, run), NEW accepted \in BOOLEAN
  PROVE  LET run1 == Publish(r, run, accepted)
         IN /\ run1 \in Run /\ RefOK(R, run1)
            /\ run1.res = run.res \/ run1.status = "failed"
            /\ run1.status = "running" /\ run.status = "publishing" => run1.head # None
<1> DEFINE next == [run EXCEPT !.head = r, !.status = "running"]
<1>1. next \in Run
  BY DEF Run, RunStatus
<1>2. next.res = run.res /\ next.head = r /\ r # None
  BY NoneAssumption DEF Run, RunIds
<1>3. RefOK(R, next)
  BY <1>2 DEF RefOK
<1> HIDE DEF next
<1>4. Publish(r, run, accepted) \in {run, FailAll(run), next}
  BY DEF Publish, next
<1>5. Publish(r, run, accepted) = run /\ run.status = "publishing" => Publish(r, run, accepted).status # "running"
  OBVIOUS
<1> QED
  BY <1>1, <1>2, <1>3, <1>4, <1>5, FailAllOK

(* So does advance() as a whole.                                           *)
LEMMA AdvancedOK ==
  ASSUME NEW R \in [RunIds -> Run \cup {NoRun}], NEW r \in RunIds, R[r].status # "absent",
         NEW run \in Run, RefOK(R, run), NEW accepted \in BOOLEAN, NEW J \in SUBSET Job
  PROVE  Advanced(J, r, run, accepted) \in Run /\ RefOK(R, Advanced(J, r, run, accepted))
<1> DEFINE run1 == Publish(r, run, accepted)
<1>1. run1 \in Run /\ RefOK(R, run1)
  BY PublishOK
<1>2. CASE ~Live(run)
  BY <1>2 DEF Advanced
<1>3. CASE Live(run) /\ ~Entitled(r, run)
  BY <1>3, ExpireOK DEF Advanced
<1>4. CASE Live(run) /\ Entitled(r, run) /\ run1.status = "running"
  BY <1>1, <1>4, PassOK DEF Advanced
<1>5. CASE Live(run) /\ Entitled(r, run) /\ run1.status # "running"
  BY <1>1, <1>5 DEF Advanced
<1> QED
  BY <1>2, <1>3, <1>4, <1>5

(* Nothing is advanced that does not exist. *)
LEMMA AbsentStays ==
  ASSUME NEW J, NEW r, NEW run, NEW accepted, run.status = "absent"
  PROVE  /\ Advanced(J, r, run, accepted) = run
         /\ Starting(J, r, run, accepted) = {}
BY DEF Advanced, Starting, Live

Stored(R) ==
  /\ R \in [RunIds -> Run \cup {NoRun}]
  /\ \A r \in RunIds : R[r].status # "absent" => RefOK(R, R[r])

(* References stay good when runs change but none disappears. *)
LEMMA StoredUpdate ==
  ASSUME NEW R, Stored(R), NEW N \in [RunIds -> Run \cup {NoRun}],
         \A r \in RunIds : R[r].status # "absent" => N[r].status # "absent",
         \A r \in RunIds : N[r].status # "absent" => RefOK(R, N[r])
  PROVE  Stored(N)
<1> SUFFICES ASSUME NEW r \in RunIds, N[r].status # "absent"
             PROVE  RefOK(N, N[r])
  BY DEF Stored
<1>1. N[r] \in Run /\ RefOK(R, N[r])
  BY RunHasStatus
<1>2. \A c \in Components : /\ N[r].res[c].prev \in RunIds \cup {None}
                           /\ N[r].res[c].rel \in RunIds \cup {None}
  BY <1>1 DEF Run, Result
<1> QED
  BY <1>1, <1>2 DEF RefOK

(* Advancing any set of runs keeps the stored records good.                *)
LEMMA AdvancedRunsOK ==
  ASSUME NEW R, Stored(R), NEW J \in SUBSET Job, NEW S \in SUBSET RunIds,
         NEW accepted \in BOOLEAN
  PROVE  Stored(AdvancedRuns(S, J, R, accepted))
<1> DEFINE N == AdvancedRuns(S, J, R, accepted)
<1>1. N = [r \in RunIds |-> IF r \in S THEN Advanced(J, r, R[r], accepted) ELSE R[r]]
  BY DEF AdvancedRuns
<1> HIDE DEF N
<1>2. \A r \in RunIds : R[r] \in Run \cup {NoRun}
  BY DEF Stored
<1>3. ASSUME NEW r \in RunIds, R[r].status # "absent"
      PROVE  N[r] \in Run /\ RefOK(R, N[r])
  <2>1. R[r] \in Run /\ RefOK(R, R[r])
    BY <1>2, <1>3, RunHasStatus DEF Stored
  <2>2. Advanced(J, r, R[r], accepted) \in Run /\ RefOK(R, Advanced(J, r, R[r], accepted))
    BY <1>3, <2>1, AdvancedOK DEF Stored
  <2> QED
    BY <1>1, <2>1, <2>2
<1>4. ASSUME NEW r \in RunIds, R[r].status = "absent"
      PROVE  N[r] = R[r]
  BY <1>1, <1>4, AbsentStays
<1>5. N \in [RunIds -> Run \cup {NoRun}]
  BY <1>1, <1>2, <1>3, <1>4
<1>6. \A r \in RunIds : R[r].status # "absent" => N[r].status # "absent"
  BY <1>3, <1>5, RunHasStatus
<1>7. \A r \in RunIds : N[r].status # "absent" => RefOK(R, N[r])
  BY <1>3, <1>4
<1> QED
  BY <1>5, <1>6, <1>7, StoredUpdate DEF N

(* Every job record advance() writes is well typed, carries the key it was *)
(* written for and belongs to a run and component that had no job of that  *)
(* kind.                                                                   *)
LEMMA NewJobsOK ==
  ASSUME NEW R, Stored(R), NEW J \in SUBSET Job, NEW r \in RunIds, NEW accepted \in BOOLEAN
  PROVE  /\ NewJobs(J, R, r, accepted) \subseteq Job
         /\ \A j \in NewJobs(J, R, r, accepted) :
              /\ j.run = r /\ j.nth = 0 /\ JobsOf(J, r, j.comp, j.kind) = {}
         /\ \A j, k \in NewJobs(J, R, r, accepted) : j.comp = k.comp => j = k
<1>1. CASE R[r].status = "absent"
  <2>1. NewJobs(J, R, r, accepted) = {}
    BY <1>1, AbsentStays DEF NewJobs
  <2> QED
    BY <2>1
<1>2. CASE R[r].status # "absent"
  <2> DEFINE run1 == Publish(r, R[r], accepted)
             C == Starting(J, r, R[r], accepted)
             new(c) == NewJob(J, R, r, run1, c)
  <2>1. R[r] \in Run /\ RefOK(R, R[r])
    BY <1>2, RunHasStatus DEF Stored
  <2>2. run1 \in Run /\ RefOK(R, run1)
    BY <1>2, <2>1, PublishOK DEF Stored
  <2>3. ASSUME NEW c \in C
        PROVE  /\ new(c) \in Job /\ new(c).run = r /\ new(c).comp = c /\ new(c).nth = 0
               /\ JobsOf(J, r, c, new(c).kind) = {}
    <3> DEFINE x == run1.res[c]
    <3>1. /\ c \in Components /\ c \in run1.parts /\ run1.status = "running"
          /\ JobsOf(J, r, c, Phase(x)) = {}
      BY DEF Starting, Starts
    <3>2. x \in Result
      BY <2>2, <3>1 DEF Run
    <3>3. Cardinality(JobsOf(J, r, c, Phase(x))) = 0
      BY <3>1, FS_EmptySet
    <3>4. (IF x.prev = None THEN None ELSE R[x.prev].res[c].digest) \in Artifacts \cup {None}
      <4>1. CASE x.prev # None
        <5>1. x.prev \in RunIds /\ R[x.prev].status # "absent"
          BY <2>2, <3>1, <3>2, <4>1 DEF RefOK, Result
        <5>2. R[x.prev] \in Run
          BY <5>1, RunHasStatus DEF Stored
        <5> QED
          BY <3>1, <5>2 DEF Run, Result
      <4> QED
        BY <4>1
    <3>5. (IF run1.head # None THEN run1.head ELSE R[x.rel].head) \in RunIds \cup {None}
      <4>1. CASE run1.head = None
        <5>1. x.rel \in RunIds /\ R[x.rel].status # "absent"
          BY <2>2, <3>1, <3>2, <4>1 DEF RefOK, Result
        <5>2. R[x.rel] \in Run
          BY <5>1, RunHasStatus DEF Stored
        <5> QED
          BY <4>1, <5>2 DEF Run
      <4> QED
        BY <2>2, <4>1 DEF Run
    <3>6. (IF x.digest = None THEN r ELSE x.digest) \in Artifacts \cup RunIds
      BY <3>2 DEF Result
    <3>7. Phase(x) \in Kinds
      BY DEF Phase, Kinds
    <3> HIDE DEF run1
    <3> QED
      BY <3>1, <3>3, <3>4, <3>5, <3>6, <3>7 DEF NewJob, Job, JobStatus, ErrorCodes
  <2>4. NewJobs(J, R, r, accepted) = {new(c) : c \in C}
    BY DEF NewJobs
  <2> HIDE DEF new, C
  <2> QED
    BY <2>3, <2>4
<1> QED
  BY <1>1, <1>2

(***************************************************************************)
(* The ways an operation changes the set of jobs, and what each preserves. *)
(***************************************************************************)
SameKey(j, k) == j.run = k.run /\ j.comp = k.comp /\ j.kind = k.kind
JobsOK(J) == J \subseteq Job /\ \A j, k \in J : SameKey(j, k) => j = k

(* The jobs written by any number of passes keep the keys unique.          *)
LEMMA AdvancedJobsOK ==
  ASSUME NEW R, Stored(R), NEW J, JobsOK(J), NEW S \in SUBSET RunIds, NEW accepted \in BOOLEAN,
         NEW K \in SUBSET AdvancedJobs(S, J, R, accepted), J \subseteq K
  PROVE  JobsOK(K)
<1>1. \A j \in K : j \in J \/ \E r \in S : j \in NewJobs(J, R, r, accepted)
  BY DEF AdvancedJobs
<1>2. K \subseteq Job
  BY <1>1, NewJobsOK DEF JobsOK
<1>3. ASSUME NEW j \in K, NEW k \in K, SameKey(j, k), j \notin J
      PROVE  j = k
  <2>1. PICK r \in S : j \in NewJobs(J, R, r, accepted)
    BY <1>1, <1>3
  <2>2. j.run = r /\ JobsOf(J, r, j.comp, j.kind) = {}
    BY <2>1, NewJobsOK DEF JobsOK
  <2>3. k \notin J
    BY <1>3, <2>2 DEF JobsOf, SameKey
  <2>4. PICK q \in S : k \in NewJobs(J, R, q, accepted)
    BY <1>1, <2>3
  <2>5. k.run = q
    BY <2>4, NewJobsOK DEF JobsOK
  <2>6. k \in NewJobs(J, R, r, accepted) /\ j.comp = k.comp
    BY <1>3, <2>2, <2>4, <2>5 DEF SameKey
  <2>7. \A a, b \in NewJobs(J, R, r, accepted) : a.comp = b.comp => a = b
    BY NewJobsOK DEF JobsOK
  <2> QED
    BY <2>1, <2>6, <2>7
<1>4. \A j, k \in K : SameKey(j, k) => j = k
  <2> SUFFICES ASSUME NEW j \in K, NEW k \in K, SameKey(j, k)
               PROVE  j = k
    OBVIOUS
  <2>1. SameKey(k, j)
    BY DEF SameKey
  <2>2. CASE j \in J /\ k \in J
    BY <2>2 DEF JobsOK
  <2> QED
    BY <1>3, <2>1, <2>2
<1> QED
  BY <1>2, <1>4 DEF JobsOK

(* Interrupted claims are closed.                                          *)
ClosedJob(j) == [j EXCEPT !.status = "failed", !.code = "none"]

(* Closing part of the claims of a run keeps the keys unique.              *)
LEMMA ClosedJobsOK ==
  ASSUME NEW J, JobsOK(J), NEW D \in SUBSET J
  PROVE  JobsOK((J \ D) \cup {ClosedJob(j) : j \in D})
<1> DEFINE K == (J \ D) \cup {ClosedJob(j) : j \in D}
<1>1. ASSUME NEW j \in D
      PROVE  ClosedJob(j) \in Job /\ SameKey(ClosedJob(j), j)
  <2>1. j \in Job
    BY DEF JobsOK
  <2> QED
    BY <2>1 DEF Job, ClosedJob, SameKey, JobStatus, ErrorCodes
<1>2. K \subseteq Job
  BY <1>1 DEF JobsOK
<1>3. \A a \in K : \E x \in J : SameKey(a, x) /\ a = (IF x \in D THEN ClosedJob(x) ELSE x)
  BY <1>1 DEF SameKey
<1>4. ASSUME NEW a \in K, NEW b \in K, SameKey(a, b)
      PROVE  a = b
  <2>1. PICK x \in J : SameKey(a, x) /\ a = (IF x \in D THEN ClosedJob(x) ELSE x)
    BY <1>3
  <2>2. PICK y \in J : SameKey(b, y) /\ b = (IF y \in D THEN ClosedJob(y) ELSE y)
    BY <1>3
  <2>3. SameKey(x, y)
    BY <1>4, <2>1, <2>2 DEF SameKey
  <2>4. x = y
    BY <2>3 DEF JobsOK
  <2> QED
    BY <2>1, <2>2, <2>4
<1> QED
  BY <1>2, <1>4 DEF JobsOK

(* One job is replaced by a record with the same key.                      *)
LEMMA ReplacedJobOK ==
  ASSUME NEW J, JobsOK(J), NEW j \in J, NEW k \in Job, SameKey(k, j)
  PROVE  JobsOK((J \ {j}) \cup {k})
BY DEF JobsOK, SameKey

--------------------------------------------------------------------------------
(***************************************************************************)
(* The inductive invariant: the types, the references between runs, the    *)
(* uniqueness of jobs, and that a profile that exists was saved.           *)
(***************************************************************************)
ProfileOK ==
  /\ profile \in [revision : 0..MaxRevision, config : Configs \cup {None}]
  /\ profile.config # None => profile.revision \in 1..MaxRevision

SourceOK(src) == src \in [RunIds -> SourceStatus]

IInv ==
  /\ ProfileOK
  /\ permitted \in SUBSET Users
  /\ Stored(runs)
  /\ JobsOK(jobs)
  /\ SourceOK(source)
  /\ clock \in 0..MaxRuns

(* The empty store satisfies the invariant.                                *)
LEMMA InitIInv == Init => IInv
<1> SUFFICES ASSUME Init PROVE IInv
  OBVIOUS
<1>1. ProfileOK /\ permitted \in SUBSET Users /\ clock \in 0..MaxRuns
  BY BoundsAssumption DEF Init, ProfileOK
<1>2. Stored(runs)
  BY DEF Init, Stored, NoRun
<1>3. JobsOK(jobs) /\ SourceOK(source)
  BY DEF Init, JobsOK, SourceOK, SourceStatus
<1> QED
  BY <1>1, <1>2, <1>3 DEF IInv

(* The invariant contains the two properties proved here.                  *)
LEMMA IInvImplies == IInv => TypeOK /\ NoDuplicateJob
BY DEF IInv, TypeOK, NoDuplicateJob, ProfileOK, Stored, JobsOK, SourceOK, SameKey

(* Queueing publications keeps the connector store typed.                  *)
LEMMA QueuedSourceOK ==
  ASSUME SourceOK(source), NEW S, NEW R
  PROVE  SourceOK(QueuedSource(S, R))
BY DEF SourceOK, QueuedSource, SourceStatus

(* Advancing some runs, after the runs and the jobs on disk have become R  *)
(* and J.                                                                  *)
LEMMA AdvanceRunsOK ==
  ASSUME NEW R, Stored(R), NEW J, JobsOK(J), NEW S \in SUBSET RunIds, NEW accepted \in BOOLEAN,
         SourceOK(source), AdvanceRuns(S, J, R, accepted)
  PROVE  Stored(runs') /\ JobsOK(jobs') /\ SourceOK(source')
<1>1. J \in SUBSET Job
  BY DEF JobsOK
<1>2. Stored(runs')
  BY <1>1, AdvancedRunsOK DEF AdvanceRuns
<1>3. JobsOK(jobs')
  BY AdvancedJobsOK DEF AdvanceRuns, AdvancedJobs
<1>4. SourceOK(source')
  BY QueuedSourceOK DEF AdvanceRuns
<1> QED
  BY <1>2, <1>3, <1>4

--------------------------------------------------------------------------------
(***************************************************************************)
(* Requests.                                                               *)
(***************************************************************************)
LEMMA CurrentExists ==
  ASSUME Stored(runs), NEW c \in Components
  PROVE  /\ Current(c) \in RunIds \cup {None}
         /\ Current(c) # None => Deployed(Current(c), c) /\ runs[Current(c)] \in Run
<1>1. CASE \E r \in RunIds : Latest(r, c)
  <2>1. Current(c) \in RunIds /\ Latest(Current(c), c)
    BY <1>1 DEF Current
  <2>2. Deployed(Current(c), c)
    BY <2>1 DEF Latest
  <2>3. runs[Current(c)] \in Run
    BY <2>1, <2>2, RunHasStatus DEF Deployed, Exists, Stored
  <2> QED
    BY <2>1, <2>2, <2>3
<1>2. CASE ~\E r \in RunIds : Latest(r, c)
  BY <1>2 DEF Current
<1> QED
  BY <1>1, <1>2

(* The release a rollback returns to is a run on record.                   *)
LEMMA PreviousExists ==
  ASSUME Stored(runs), NEW c \in Components
  PROVE  /\ Previous(c) \in RunIds \cup {None}
         /\ Restorable(c) =>
              LET back == runs[Previous(c)].res[c]
              IN /\ back \in Result /\ back.digest # None
                 /\ back.rel # None /\ runs[back.rel].status # "absent"
<1>1. Previous(c) \in RunIds \cup {None}
  <2>1. CASE Current(c) # None
    BY <2>1, CurrentExists DEF Previous, Run, Result
  <2> QED
    BY <2>1 DEF Previous
<1>2. ASSUME Restorable(c)
      PROVE  LET back == runs[Previous(c)].res[c]
             IN /\ back \in Result /\ back.digest # None
                /\ back.rel # None /\ runs[back.rel].status # "absent"
  <2>1. Previous(c) \in RunIds /\ runs[Previous(c)].status # "absent"
    BY <1>1, <1>2 DEF Restorable, Deployed, Exists
  <2>2. runs[Previous(c)] \in Run /\ RefOK(runs, runs[Previous(c)])
    BY <2>1, RunHasStatus DEF Stored
  <2> QED
    BY <1>2, <2>2 DEF Restorable, RefOK, Run
<1> QED
  BY <1>1, <1>2

(* A fresh run is well typed and refers to runs on record.                 *)
LEMMA FreshRunOK ==
  ASSUME IInv, NEW u \in Users, NEW op \in Operations, NEW scope, NEW parts \in SUBSET Components,
         CanRequest(u, op, scope, parts)
  PROVE  FreshRun(u, op, parts) \in Run /\ RefOK(runs, FreshRun(u, op, parts))
<1> DEFINE run == FreshRun(u, op, parts)
<1>1. Stored(runs)
  BY DEF IInv
<1>2. ASSUME NEW c \in parts
      PROVE  LET x == FreshResult(op, c)
             IN /\ x \in Result
                /\ x.prev # None => runs[x.prev].status # "absent"
                /\ x.digest # None => x.rel # None /\ runs[x.rel].status # "absent"
                /\ op # "deploy" => x.digest # None
  <2>1. Current(c) \in RunIds \cup {None}
    BY <1>1, CurrentExists
  <2>2. Current(c) # None => runs[Current(c)].status # "absent"
    BY <1>1, CurrentExists DEF Deployed, Exists
  <2>3. CASE op = "rollback"
    <3>1. Restorable(c)
      BY <2>3 DEF CanRequest
    <3> QED
      BY <1>1, <2>1, <2>2, <2>3, <3>1, PreviousExists DEF FreshResult, Result, CompStatus
  <2>4. CASE op = "deploy"
    BY <2>1, <2>2, <2>4 DEF FreshResult, Result, CompStatus
  <2> QED
    BY <2>3, <2>4 DEF Operations
<1>3. run.res \in [Components -> Result]
  BY <1>2 DEF FreshRun, IdleResult, Result, CompStatus
<1>4. profile.revision \in 1..MaxRevision /\ profile.config \in Configs
  BY DEF IInv, ProfileOK, CanRequest
<1>5. run \in Run
  BY <1>3, <1>4 DEF FreshRun, Run, RunStatus, Operations
<1>6. \A c \in Components \ parts : run.res[c] = IdleResult
  BY DEF FreshRun
<1>7. \A c \in parts : run.res[c] = FreshResult(op, c)
  BY DEF FreshRun
<1>8. run.parts = parts /\ run.status = (IF op = "deploy" THEN "publishing" ELSE "running")
  BY DEF FreshRun
<1> HIDE DEF run
<1>9. RefOK(runs, run)
  BY <1>2, <1>6, <1>7, <1>8 DEF RefOK, IdleResult, Operations
<1> QED
  BY <1>5, <1>9 DEF run

(* Adding it to the store keeps the records good.                          *)
LEMMA RequestedOK ==
  ASSUME IInv, NEW u \in Users, NEW op \in Operations, NEW scope, NEW parts \in SUBSET Components,
         CanRequest(u, op, scope, parts), NEW r \in RunIds
  PROVE  Stored([runs EXCEPT ![r] = FreshRun(u, op, parts)])
<1> DEFINE N == [runs EXCEPT ![r] = FreshRun(u, op, parts)]
<1>1. FreshRun(u, op, parts) \in Run /\ RefOK(runs, FreshRun(u, op, parts))
  BY FreshRunOK
<1>2. Stored(runs)
  BY DEF IInv
<1>3. /\ N \in [RunIds -> Run \cup {NoRun}]
      /\ N[r] = FreshRun(u, op, parts) /\ \A q \in RunIds \ {r} : N[q] = runs[q]
  BY <1>1, <1>2 DEF Stored
<1> HIDE DEF N
<1>4. \A q \in RunIds : runs[q].status # "absent" => N[q].status # "absent"
  BY <1>1, <1>3, RunHasStatus
<1>5. \A q \in RunIds : N[q].status # "absent" => RefOK(runs, N[q])
  BY <1>1, <1>2, <1>3 DEF Stored
<1> QED
  BY <1>2, <1>3, <1>4, <1>5, StoredUpdate DEF N

(* closeInterruptedBuild's resolution.                                     *)
LEMMA ResolveOK ==
  ASSUME IInv, NEW r \in RunIds, Exists(r), Resolve(r)
  PROVE  Stored(runs')
<1>1. Stored(runs) /\ runs[r] \in Run /\ RefOK(runs, runs[r]) /\ runs[r].status # "absent"
  BY RunHasStatus DEF IInv, Stored, Exists
<1>2. CASE runs[r].resolved
  BY <1>1, <1>2 DEF Resolve
<1>3. CASE ~runs[r].resolved
  <2> DEFINE next == [FailAll(runs[r]) EXCEPT !.resolved = TRUE]
  <2>1. FailAll(runs[r]) \in Run /\ RefOK(runs, FailAll(runs[r])) /\ FailAll(runs[r]).status = "failed"
    BY <1>1, FailAllOK DEF Stored
  <2>2. next \in Run /\ next.res = FailAll(runs[r]).res /\ next.status = "failed"
    BY <2>1 DEF Run
  <2>3. RefOK(runs, next)
    BY <2>1, <2>2 DEF RefOK
  <2>4. runs' = [runs EXCEPT ![r] = next]
    BY <1>3 DEF Resolve
  <2> HIDE DEF next
  <2>5. /\ runs' \in [RunIds -> Run \cup {NoRun}]
        /\ runs'[r] = next /\ \A q \in RunIds \ {r} : runs'[q] = runs[q]
    BY <1>1, <2>2, <2>4 DEF Stored
  <2>6. \A q \in RunIds : runs[q].status # "absent" => runs'[q].status # "absent"
    BY <2>2, <2>5, RunHasStatus
  <2>7. \A q \in RunIds : runs'[q].status # "absent" => RefOK(runs, runs'[q])
    BY <1>1, <2>3, <2>5 DEF Stored
  <2> QED
    BY <1>1, <2>5, <2>6, <2>7, StoredUpdate
<1> QED
  BY <1>2, <1>3

--------------------------------------------------------------------------------
(***************************************************************************)
(* Every step keeps IInv.                                                  *)
(***************************************************************************)
LEMMA MemberStepIInv ==
  ASSUME IInv, MemberStep
  PROVE  IInv'
<1>1. PICK u \in Users :
        \/ \E cfg \in Configs : SaveProfile(u, cfg)
        \/ \E op \in Operations, scope \in Components \cup {None}, r \in RunIds :
             Request(u, op, scope, r) \/ RequestCrash(u, op, scope, r)
        \/ \E r \in RunIds : CloseInterruptedBuild(u, r) \/ CloseCrash(u, r)
        \/ ChangeAccess(u)
  BY DEF MemberStep
<1> USE DEF IInv
<1>2. ASSUME NEW cfg \in Configs, SaveProfile(u, cfg)
      PROVE  IInv'
  <2>1. ProfileOK'
    BY <1>2, BoundsAssumption DEF SaveProfile, ProfileOK
  <2> QED
    BY <1>2, <2>1 DEF SaveProfile, SourceOK
<1>3. ASSUME NEW op \in Operations, NEW scope \in Components \cup {None}, NEW r \in RunIds,
             Request(u, op, scope, r)
      PROVE  IInv'
  <2>1. PICK parts \in SUBSET Components, accepted \in BOOLEAN :
          /\ CanRequest(u, op, scope, parts)
          /\ AdvanceRuns({r}, jobs, [runs EXCEPT ![r] = FreshRun(u, op, parts)], accepted)
          /\ UNCHANGED <<profile, permitted, clock>>
    BY <1>3 DEF Request
  <2>2. Stored([runs EXCEPT ![r] = FreshRun(u, op, parts)])
    BY <2>1, RequestedOK
  <2>3. Stored(runs') /\ JobsOK(jobs') /\ SourceOK(source')
    BY <2>1, <2>2, AdvanceRunsOK
  <2> QED
    BY <2>1, <2>3 DEF ProfileOK
<1>4. ASSUME NEW op \in Operations, NEW scope \in Components \cup {None}, NEW r \in RunIds,
             RequestCrash(u, op, scope, r)
      PROVE  IInv'
  <2>1. PICK parts \in SUBSET Components :
          /\ CanRequest(u, op, scope, parts)
          /\ runs' = [runs EXCEPT ![r] = FreshRun(u, op, parts)]
          /\ UNCHANGED <<profile, permitted, jobs, source, clock>>
    BY <1>4 DEF RequestCrash
  <2>2. Stored(runs')
    BY <2>1, RequestedOK
  <2> QED
    BY <2>1, <2>2 DEF ProfileOK
<1>5. ASSUME NEW r \in RunIds, CloseInterruptedBuild(u, r) \/ CloseCrash(u, r)
      PROVE  IInv'
  <2>1. Exists(r) /\ Resolve(r)
    BY <1>5 DEF CloseInterruptedBuild, CloseCrash, MayClose
  <2>2. PICK D \in SUBSET jobs : jobs' = JobsClosed(D)
    BY <1>5 DEF CloseInterruptedBuild, CloseCrash, Claims
  <2>3. JobsOK(jobs')
    BY <2>2, ClosedJobsOK DEF JobsClosed, ClosedJob
  <2>4. Stored(runs')
    BY <2>1, ResolveOK
  <2>5. UNCHANGED <<profile, permitted, source, clock>>
    BY <1>5 DEF CloseInterruptedBuild, CloseCrash
  <2> QED
    BY <2>3, <2>4, <2>5 DEF ProfileOK
<1>6. ASSUME ChangeAccess(u)
      PROVE  IInv'
  <2>1. permitted' \in SUBSET Users /\ UNCHANGED <<profile, runs, jobs, source, clock>>
    BY <1>6 DEF ChangeAccess
  <2> QED
    BY <2>1 DEF ProfileOK
<1> QED
  BY <1>1, <1>2, <1>3, <1>4, <1>5, <1>6

(* So does every step of an executor, a stop within one included.          *)
LEMMA ExecutorStepIInv ==
  ASSUME IInv, ExecutorStep
  PROVE  IInv'
<1> USE DEF IInv
<1>1. ASSUME Poll
      PROVE  IInv'
  <2>1. PICK accepted \in BOOLEAN : AdvanceRuns(RunIds, jobs, runs, accepted)
    BY <1>1 DEF Poll
  <2>2. Stored(runs') /\ JobsOK(jobs') /\ SourceOK(source')
    BY <2>1, AdvanceRunsOK
  <2> QED
    BY <1>1, <2>2 DEF Poll, ProfileOK
<1>2. ASSUME NEW r \in RunIds, AdvanceCrash(r)
      PROVE  IInv'
  <2>1. PICK D \in SUBSET NewJobs(jobs, runs, r, TRUE) : jobs' = jobs \cup D
    BY <1>2 DEF AdvanceCrash
  <2>2. jobs' \subseteq AdvancedJobs({r}, jobs, runs, TRUE)
    BY <2>1 DEF AdvancedJobs
  <2>3. JobsOK(jobs')
    BY <2>1, <2>2, AdvancedJobsOK
  <2>4. SourceOK(source')
    BY <1>2, QueuedSourceOK DEF AdvanceCrash
  <2> QED
    BY <1>2, <2>3, <2>4 DEF AdvanceCrash, ProfileOK
<1>3. ASSUME Claim
      PROVE  IInv'
  <2>0. PICK accepted \in BOOLEAN :
          \E j \in AdvancedJobs(RunIds, jobs, runs, accepted) : ClaimJob(j, accepted)
    BY <1>3 DEF Claim
  <2>1. PICK j \in AdvancedJobs(RunIds, jobs, runs, accepted) : ClaimJob(j, accepted)
    BY <2>0
  <2> DEFINE J == AdvancedJobs(RunIds, jobs, runs, accepted)
  <2>2. JobsOK(J)
    BY AdvancedJobsOK DEF AdvancedJobs
  <2>3. [j EXCEPT !.status = "working"] \in Job /\ SameKey([j EXCEPT !.status = "working"], j)
    BY <2>2 DEF JobsOK, Job, JobStatus, SameKey
  <2>7. j \in J /\ jobs' = (J \ {j}) \cup {[j EXCEPT !.status = "working"]}
    BY <2>1 DEF ClaimJob
  <2> HIDE DEF J
  <2>4. JobsOK(jobs')
    BY <2>7, <2>2, <2>3, ReplacedJobOK
  <2>5. Stored(runs')
    BY <2>1, AdvancedRunsOK DEF JobsOK, ClaimJob
  <2>6. SourceOK(source')
    BY <2>1, QueuedSourceOK DEF ClaimJob
  <2> QED
    BY <2>1, <2>4, <2>5, <2>6 DEF ProfileOK, ClaimJob
<1>4. ASSUME NEW j \in jobs, NEW a \in Artifacts, Upload(j, a)
      PROVE  IInv'
  <2>1. [j EXCEPT !.output = a] \in Job /\ SameKey([j EXCEPT !.output = a], j)
    BY DEF JobsOK, Job, SameKey
  <2>2. JobsOK(jobs')
    BY <1>4, <2>1, ReplacedJobOK DEF Upload
  <2> QED
    BY <1>4, <2>2 DEF Upload, ProfileOK
<1>5. ASSUME NEW j \in jobs, NEW status \in Outcomes, NEW code \in Codes(status), NEW d,
             Complete(j, status, d, code) \/ CompleteCrash(j, status, d, code)
      PROVE  IInv'
  <2>1. j \in Job /\ status \in JobStatus /\ code \in ErrorCodes
    BY DEF JobsOK, Outcomes, Codes, JobStatus, ErrorCodes
  <2>2. /\ [j EXCEPT !.status = status, !.code = code] \in Job
        /\ SameKey([j EXCEPT !.status = status, !.code = code], j)
    BY <2>1 DEF Job, SameKey
  <2>3. JobsOK(Completed(j, status, code))
    BY <2>2, ReplacedJobOK DEF Completed
  <2>4. CASE CompleteCrash(j, status, d, code)
    BY <2>3, <2>4 DEF CompleteCrash, ProfileOK
  <2>5. CASE Complete(j, status, d, code)
    <3>1. PICK accepted \in BOOLEAN :
            /\ AdvanceRuns({j.run}, Completed(j, status, code), runs, accepted)
            /\ UNCHANGED <<profile, permitted, clock>>
      BY <2>5 DEF Complete
    <3>2. {j.run} \in SUBSET RunIds
      BY <2>1 DEF Job
    <3>3. Stored(runs') /\ JobsOK(jobs') /\ SourceOK(source')
      BY <2>3, <3>1, <3>2, AdvanceRunsOK
    <3> QED
      BY <3>1, <3>3 DEF ProfileOK
  <2> QED
    BY <1>5, <2>4, <2>5
<1> QED
  BY <1>1, <1>2, <1>3, <1>4, <1>5 DEF ExecutorStep

(* The invariant is inductive.                                             *)
LEMMA NextIInv == IInv /\ [Next]_vars => IInv'
<1> SUFFICES ASSUME IInv, [Next]_vars PROVE IInv'
  OBVIOUS
<1>1. CASE MemberStep
  BY <1>1, MemberStepIInv
<1>2. CASE ExecutorStep
  BY <1>2, ExecutorStepIInv
<1>3. CASE ConnectorStep
  BY <1>3 DEF ConnectorStep, PublishSource, FailSource, IInv, ProfileOK, SourceOK, SourceStatus
<1>4. CASE PassDeadline
  BY <1>4, BoundsAssumption DEF PassDeadline, IInv, ProfileOK
<1>5. CASE UNCHANGED vars
  BY <1>5 DEF vars, IInv, ProfileOK
<1> QED
  BY <1>1, <1>2, <1>3, <1>4, <1>5 DEF Next

(* The stored records stay within their schemas (PipelineRunSchema,        *)
(* JobSchema) in every reachable state: in particular advance() never      *)
(* needs a commit or a previous release that is not on record.             *)
THEOREM TypeCorrect == Spec => []TypeOK
<1>1. Spec => []IInv
  BY InitIInv, NextIInv, PTL DEF Spec
<1> QED
  BY <1>1, IInvImplies, PTL

(* Whatever is requested, reported, lost or left half written by a crash,  *)
(* no build and no activation is ever queued twice for a run.              *)
THEOREM JobsAreUnique == Spec => []NoDuplicateJob
<1>1. Spec => []IInv
  BY InitIInv, NextIInv, PTL DEF Spec
<1> QED
  BY <1>1, IInvImplies, PTL

--------------------------------------------------------------------------------
(***************************************************************************)
(* The safety properties.  IInv gives the types, the references between    *)
(* records and the uniqueness of jobs; StoreInv below says how the status of*)
(* a run and of its components relates to the jobs on disk.  It is stated of*)
(* any run records R and job records J, since an operation advances what it*)
(* has just written: Advance turns good records into good records, and so  *)
(* does each thing an operation writes first.                              *)
(***************************************************************************)

EndedStatus == {"succeeded", "failed", "partial"}

(* The activation of c asked for by run r reported success.                *)
LandedIn(J, r, c) == \E j \in JobsOf(J, r, c, "deploy") : j.status = "succeeded"

(* The runs before an existing run have ended: one at a time (Busy).       *)
SerialRuns(R) ==
  \A r, q \in RunIds : q < r /\ R[r].status # "absent" => R[q].status \in EndedStatus

(* The result of component c of a run against its activation jobs.         *)
ResultInv(J, r, run, c) ==
  LET x == run.res[c]
      D == JobsOf(J, r, c, "deploy")
  IN /\ x.digest = None => D = {}
     /\ x.status = "succeeded" => LandedIn(J, r, c)
     /\ x.status \in {"failed", "blocked"} /\ run.status # "recovery-required" =>
          \A j \in D : j.status = "failed" \/ (j.status = "queued" /\ ~Live(run))
     /\ x.status = "recovery-required" => run.status = "recovery-required"
     /\ run.status \in EndedStatus => x.status \in {"succeeded", "failed", "blocked"}

(* Every job of a run is of one of its components, and was written after   *)
(* the run had activated that component's dependencies.                    *)
OrderInv(J, r, run) ==
  /\ run.parts = run.config.parts \/ \E c \in Components : run.parts = {c}
  /\ \A j \in J : j.run = r =>
       /\ j.comp \in run.parts
       /\ \A d \in run.config.deps[j.comp] \cap run.parts : LandedIn(J, r, d)

RunInv(J, r, run) ==
  /\ OrderInv(J, r, run)
  /\ \A c \in run.parts : ResultInv(J, r, run, c)

(* A dependency that a run does not deploy was activated before it.        *)
OutsideInv(J, r, run) ==
  \A c \in run.parts : \A d \in run.config.deps[c] \ run.parts :
     \E q \in RunIds : q < r /\ LandedIn(J, q, d)

StoreInv(R, J) ==
  /\ SerialRuns(R)
  /\ \A j \in J : R[j.run].status # "absent"
  /\ \A r \in RunIds : R[r].status # "absent" => RunInv(J, r, R[r]) /\ OutsideInv(J, r, R[r])

(* A stop within advance() may leave jobs of a run whose record still says *)
(* "publishing", but only once its source is published.                    *)
PublishedFirst(R, J, src) ==
  \A j \in J : R[j.run].status = "publishing" => src[j.run] = "published"

--------------------------------------------------------------------------------
(***************************************************************************)
(* One pass over a running run.                                            *)
(***************************************************************************)

(* A component whose activation succeeded is read as succeeded.            *)
LEMMA LandedSettles ==
  ASSUME NEW J, JobsOK(J), NEW r \in RunIds, NEW run \in Run, run.status = "running",
         NEW c \in run.parts, ResultInv(J, r, run, c), LandedIn(J, r, c)
  PROVE  Settled(J, r, run, c).status = "succeeded"
<1> DEFINE x == run.res[c]
           D == JobsOf(J, r, c, "deploy")
<1>1. x \in Result
  BY DEF Run
<1>2. PICK k \in D : k.status = "succeeded"
  BY DEF LandedIn
<1>3. \A j \in D : j = k
  BY DEF JobsOf, JobsOK, SameKey
<1>4. x.status \notin {"failed", "blocked", "recovery-required"} /\ x.digest # None
  BY <1>2 DEF ResultInv, Live
<1>5. CASE x.status \in Shut
  BY <1>4, <1>5 DEF Settled, Shut
<1>6. CASE x.status \notin Shut
  <2>1. JobsOf(J, r, c, Phase(x)) = D
    BY <1>4 DEF Phase
  <2>2. (CHOOSE j \in D : TRUE) = k
    BY <1>2, <1>3
  <2>3. k.kind = "deploy"
    BY DEF JobsOf
  <2>4. Settled(J, r, run, c) = [x EXCEPT !.status = k.status]
    BY <1>2, <1>6, <2>1, <2>2, <2>3 DEF Settled
  <2> QED
    BY <1>1, <1>2, <2>4 DEF Result
<1> QED
  BY <1>5, <1>6

(* A component is read as succeeded only if its activation succeeded.      *)
LEMMA SettledLanded ==
  ASSUME NEW J, JobsOK(J), NEW r \in RunIds, NEW run \in Run,
         NEW c \in run.parts, ResultInv(J, r, run, c),
         Settled(J, r, run, c).status = "succeeded"
  PROVE  LandedIn(J, r, c)
<1> DEFINE x == run.res[c]
           mine == JobsOf(J, r, c, Phase(x))
           j == CHOOSE j \in mine : TRUE
<1>1. x \in Result
  BY DEF Run
<1>2. CASE x.status \in Shut \/ mine = {}
  BY <1>2 DEF Settled, ResultInv
<1>3. CASE ~(x.status \in Shut \/ mine = {})
  <2>1. j \in J /\ j.run = r /\ j.comp = c /\ j.kind = Phase(x)
    BY <1>3 DEF JobsOf
  <2>2. j.status = "succeeded" /\ j.kind # "build"
    BY <1>1, <1>3 DEF Settled, Result, Shut
  <2>3. j \in JobsOf(J, r, c, "deploy")
    BY <2>1, <2>2 DEF JobsOf, Phase
  <2> QED
    BY <2>2, <2>3 DEF LandedIn
<1> QED
  BY <1>2, <1>3

(* What has a job is neither blocked nor waiting: everything upstream of   *)
(* it in the run has been activated.                                       *)
LEMMA JobMeansReady ==
  ASSUME NEW J, JobsOK(J), NEW r \in RunIds, NEW run \in Run, run.status = "running",
         RunInv(J, r, run), NEW j \in J, j.run = r
  PROVE  ~Blocked(J, r, run, j.comp) /\ Ready(J, r, run, j.comp)
<1> DEFINE c == j.comp
           deps == run.config.deps
<1>1. /\ run.config \in Config /\ run.parts \subseteq Components
      /\ \A d \in Components : deps[d] \subseteq run.config.parts
      /\ \A d \in Components : d \notin Upstream(run.config, d)
  BY ConfigsAssumption DEF Run
<1>2. c \in run.parts /\ \A d \in deps[c] \cap run.parts : LandedIn(J, r, d)
  BY DEF RunInv, OrderInv
<1>3. \A d \in run.parts : LandedIn(J, r, d) => Settled(J, r, run, d).status = "succeeded"
  BY LandedSettles DEF RunInv
<1>4. Ready(J, r, run, c)
  BY <1>2, <1>3 DEF Ready
<1>5. CASE run.parts = run.config.parts
  <2> DEFINE S == {d \in run.parts : LandedIn(J, r, d)}
  <2>1. deps[c] \subseteq S
    BY <1>1, <1>2, <1>5
  <2>2. ASSUME NEW e \in S
        PROVE  deps[e] \subseteq S
    <3>1. PICK k \in JobsOf(J, r, e, "deploy") : k.status = "succeeded"
      BY DEF LandedIn
    <3>2. k \in J /\ k.run = r /\ k.comp = e
      BY DEF JobsOf
    <3>3. \A d \in deps[e] \cap run.parts : LandedIn(J, r, d)
      BY <3>2 DEF RunInv, OrderInv
    <3> QED
      BY <1>1, <1>5, <3>3
  <2>3. S \in SUBSET Components
    BY <1>1
  <2> HIDE DEF S
  <2>4. Upstream(run.config, c) \subseteq S
    BY <2>1, <2>2, <2>3 DEF Upstream
  <2> QED
    BY <1>3, <1>4, <2>4 DEF Blocked, Bad, S
<1>6. CASE \E d \in Components : run.parts = {d}
  BY <1>1, <1>2, <1>4, <1>6 DEF Blocked
<1> QED
  BY <1>5, <1>6 DEF RunInv, OrderInv

(* The jobs a pass may write for a run.                                    *)
NewFor(J, r, run, D) ==
  \A j \in D : /\ j.run = r /\ j.status = "queued"
               /\ Starts(J, r, run, j.comp)
               /\ j.kind = Phase(run.res[j.comp])

(* More jobs never take a success away.                                    *)
LEMMA LandedMore ==
  ASSUME NEW J, NEW K, J \subseteq K, NEW r, NEW c, LandedIn(J, r, c)
  PROVE  LandedIn(K, r, c)
BY DEF LandedIn, JobsOf

(* A new job is of a component whose dependencies in the run are active.   *)
LEMMA StartedOrder ==
  ASSUME NEW J, JobsOK(J), NEW r \in RunIds, NEW run \in Run,
         RunInv(J, r, run), NEW D, NewFor(J, r, run, D)
  PROVE  OrderInv(J \cup D, r, run)
<1>1. ASSUME NEW j \in D
      PROVE  /\ j.comp \in run.parts
             /\ \A d \in run.config.deps[j.comp] \cap run.parts : LandedIn(J, r, d)
  BY SettledLanded DEF NewFor, Starts, Ready, RunInv
<1>2. \A d : LandedIn(J, r, d) => LandedIn(J \cup D, r, d)
  BY LandedMore
<1> QED
  BY <1>1, <1>2 DEF RunInv, OrderInv

(* The activation jobs of a component after a pass.                        *)
LEMMA StartedJobs ==
  ASSUME NEW J, NEW r \in RunIds, NEW run \in Run, NEW D, NewFor(J, r, run, D), NEW c
  PROVE  \/ JobsOf(J \cup D, r, c, "deploy") = JobsOf(J, r, c, "deploy")
         \/ /\ Starts(J, r, run, c) /\ run.res[c].digest # None
            /\ JobsOf(J, r, c, "deploy") = {}
            /\ \A j \in JobsOf(J \cup D, r, c, "deploy") : j.status = "queued"
<1>1. \A j \in D : j.comp = c /\ j.kind = "deploy" =>
        /\ Starts(J, r, run, c) /\ run.res[c].digest # None
        /\ JobsOf(J, r, c, "deploy") = {} /\ j.status = "queued"
  BY DEF NewFor, Starts, Phase
<1> QED
  BY <1>1 DEF JobsOf

(* The jobs are on disk, the run record is not written yet.                *)
LEMMA StartedInv ==
  ASSUME NEW J, JobsOK(J), NEW r \in RunIds, NEW run \in Run, run.status = "running",
         RunInv(J, r, run), NEW D, NewFor(J, r, run, D)
  PROVE  RunInv(J \cup D, r, run)
<1>1. OrderInv(J \cup D, r, run)
  BY StartedOrder
<1>2. ASSUME NEW c \in run.parts
      PROVE  ResultInv(J \cup D, r, run, c)
  <2>1. ResultInv(J, r, run, c)
    BY DEF RunInv
  <2>2. LandedIn(J, r, c) => LandedIn(J \cup D, r, c)
    BY LandedMore
  <2>3. \/ JobsOf(J \cup D, r, c, "deploy") = JobsOf(J, r, c, "deploy")
        \/ Starts(J, r, run, c) /\ run.res[c].digest # None
    BY StartedJobs
  <2>4. Starts(J, r, run, c) => run.res[c].status \notin Shut
    BY DEF Starts
  <2> QED
    BY <2>1, <2>2, <2>3, <2>4 DEF ResultInv, Shut
<1> QED
  BY <1>1, <1>2 DEF RunInv

(* The jobs and the run record of a whole pass are on disk.                *)
LEMMA PassInv ==
  ASSUME NEW J, JobsOK(J), NEW r \in RunIds, NEW run \in Run, run.status = "running",
         RunInv(J, r, run), NEW D, NewFor(J, r, run, D)
  PROVE  RunInv(J \cup D, r, Pass(J, r, run))
<1> DEFINE next == Pass(J, r, run)
           K == J \cup D
<1>1. OrderInv(K, r, run)
  BY StartedOrder
<1>2. next.parts = run.parts /\ next.config = run.config /\ run.parts \subseteq Components
  BY DEF Pass, Run
<1>3. \A c \in Components : next.res[c] = PassResult(J, r, run, c)
  BY DEF Pass, Run
<1>4. /\ next.status \in {"running", "recovery-required"} \cup EndedStatus
      /\ next.status = "recovery-required" <=>
           \E c \in run.parts : PassResult(J, r, run, c).status = "recovery-required"
      /\ next.status \in EndedStatus =>
           \A c \in run.parts : PassResult(J, r, run, c).status \in Shut
  BY <1>2 DEF Pass, Verdict, Run, EndedStatus
<1> HIDE DEF next
<1>5. ASSUME NEW c \in run.parts
      PROVE  ResultInv(K, r, next, c)
  <2> DEFINE x == run.res[c]
             y == PassResult(J, r, run, c)
             mine == JobsOf(J, r, c, Phase(x))
             DJ == JobsOf(J, r, c, "deploy")
             DK == JobsOf(K, r, c, "deploy")
  <2>1. x \in Result /\ ResultInv(J, r, run, c) /\ c \in Components /\ Live(run)
    BY DEF Run, RunInv, Live
  <2>2. DK = DJ \/ (Starts(J, r, run, c) /\ x.digest # None)
    BY StartedJobs
  <2>3. Kept(x, y, r) /\ y \in Result
    BY <2>1, PassResultKept, PassResultType DEF JobsOK
  <2>4. y.digest = None => DK = {}
    <3>1. CASE x.digest # None
      BY <2>3, <3>1 DEF Kept
    <3>2. CASE x.digest = None
      BY <2>1, <2>2, <3>2 DEF ResultInv
    <3> QED
      BY <3>1, <3>2
  <2>5. y.status = "succeeded" => LandedIn(K, r, c)
    <3>1. y.status = "succeeded" => x.status = "succeeded" \/ Settled(J, r, run, c).status = "succeeded"
      BY <2>1 DEF PassResult, Result, Shut, CompStatus
    <3>2. y.status = "succeeded" => LandedIn(J, r, c)
      BY <2>1, <3>1, SettledLanded DEF ResultInv
    <3> QED
      BY <3>2, LandedMore
  <2>6. y.status \in {"failed", "blocked"} => \A j \in DK : j.status = "failed"
    <3> SUFFICES ASSUME y.status \in {"failed", "blocked"}
                 PROVE  \A j \in DK : j.status = "failed"
      OBVIOUS
    <3>1. CASE x.status \in Shut
      <4>1. y = x /\ ~Starts(J, r, run, c)
        BY <3>1 DEF PassResult, Starts
      <4> QED
        BY <2>1, <2>2, <4>1 DEF ResultInv
    <3>2. CASE x.status \notin Shut /\ Blocked(J, r, run, c)
      <4>1. DJ = {}
        BY <3>2, JobMeansReady DEF JobsOf
      <4>2. ~Starts(J, r, run, c)
        BY <3>2 DEF Starts
      <4> QED
        BY <2>2, <4>1, <4>2
    <3>3. CASE x.status \notin Shut /\ ~Blocked(J, r, run, c)
      <4>1. Ready(J, r, run, c) /\ ~Starts(J, r, run, c) /\ y = Settled(J, r, run, c)
        BY <2>1, <3>3 DEF PassResult, Result, Shut
      <4>2. mine # {}
        BY <3>3, <4>1 DEF Starts
      <4>3. PICK j \in mine : j = CHOOSE k \in mine : TRUE
        BY <4>2
      <4>4. j.status = "failed"
        BY <2>1, <3>3, <4>1, <4>2, <4>3 DEF Settled, Result, Shut
      <4>5. \A k \in mine : k = j
        BY DEF JobsOf, JobsOK, SameKey
      <4>6. DK = DJ
        BY <2>2, <4>1
      <4>7. CASE x.digest = None
        BY <2>1, <4>6, <4>7 DEF ResultInv
      <4>8. CASE x.digest # None
        BY <4>4, <4>5, <4>6, <4>8 DEF Phase
      <4> QED
        BY <4>7, <4>8
    <3> QED
      BY <3>1, <3>2, <3>3
  <2>7. next.res[c] = y
    BY <1>3, <2>1
  <2>8. next.status \in EndedStatus => y.status \in {"succeeded", "failed", "blocked"}
    BY <1>4 DEF Shut, EndedStatus
  <2>9. y.status = "recovery-required" => next.status = "recovery-required"
    BY <1>4
  <2> HIDE DEF y, DK
  <2> QED
    BY <2>4, <2>5, <2>6, <2>7, <2>8, <2>9 DEF ResultInv, DK
<1> QED
  BY <1>1, <1>2, <1>5 DEF RunInv, OrderInv, next

--------------------------------------------------------------------------------
(***************************************************************************)
(* advance() as a whole, for one run.                                      *)
(***************************************************************************)

(* The expiry branch: what an executor may have acted on stays uncertain.  *)
LEMMA ExpireInv ==
  ASSUME NEW J, JobsOK(J), NEW r \in RunIds, NEW run \in Run, Live(run), RunInv(J, r, run)
  PROVE  RunInv(J, r, Expire(J, r, run))
<1> DEFINE next == Expire(J, r, run)
<1>1. next.parts = run.parts /\ next.config = run.config /\ run.parts \subseteq Components
  BY DEF Expire, Run
<1>2. \A c \in Components : next.res[c] = ExpiredResult(J, r, run, c)
  BY DEF Expire, Run
<1>3. /\ next.status \in {"recovery-required"} \cup EndedStatus
      /\ next.status = "recovery-required" <=>
           \E c \in run.parts : ExpiredResult(J, r, run, c).status = "recovery-required"
  BY <1>1 DEF Expire, Verdict, Run, EndedStatus
<1> HIDE DEF next
<1>4. ASSUME NEW c \in run.parts
      PROVE  ResultInv(J, r, next, c)
  <2> DEFINE x == run.res[c]
             y == ExpiredResult(J, r, run, c)
             D == JobsOf(J, r, c, "deploy")
  <2>1. x \in Result /\ ResultInv(J, r, run, c) /\ next.res[c] = y
    BY <1>1, <1>2 DEF Run, RunInv
  <2>2. y.digest = x.digest
    BY <2>1 DEF ExpiredResult, Result
  <2>3. CASE x.status \in {"succeeded", "failed", "blocked"}
    <3>1. y = x
      BY <2>3 DEF ExpiredResult
    <3>2. \A j \in D : x.status \in {"failed", "blocked"} => j.status = "failed"
      BY <2>1 DEF ResultInv, Live
    <3> QED
      BY <2>1, <2>3, <3>1, <3>2 DEF ResultInv
  <2>4. CASE x.status \notin {"succeeded", "failed", "blocked"} /\ LandedIn(J, r, c)
    <3>1. y.status = "succeeded"
      BY <2>1, <2>4 DEF ExpiredResult, LandedIn, Result
    <3> QED
      BY <2>1, <2>2, <2>4, <3>1 DEF ResultInv
  <2>5. CASE /\ x.status \notin {"succeeded", "failed", "blocked"} /\ ~LandedIn(J, r, c)
             /\ \E j \in D : j.status \in {"working", "recovery-required"}
    <3>1. y.status = "recovery-required"
      BY <2>1, <2>5 DEF ExpiredResult, LandedIn, Result
    <3>2. next.status = "recovery-required"
      BY <1>3, <3>1
    <3> QED
      BY <2>1, <2>2, <3>1, <3>2 DEF ResultInv, EndedStatus
  <2>6. CASE /\ x.status \notin {"succeeded", "failed", "blocked"} /\ ~LandedIn(J, r, c)
             /\ ~\E j \in D : j.status \in {"working", "recovery-required"}
    <3>1. y.status = "failed"
      BY <2>1, <2>6 DEF ExpiredResult, LandedIn, Result
    <3>2. \A j \in D : j.status \in JobStatus
      BY DEF JobsOK, JobsOf, Job
    <3>3. \A j \in D : j.status \in {"queued", "failed"}
      BY <2>6, <3>2 DEF LandedIn, JobStatus
    <3>4. ~Live(next)
      BY <1>3 DEF Live, EndedStatus
    <3> QED
      BY <2>1, <2>2, <3>1, <3>3, <3>4 DEF ResultInv
  <2> QED
    BY <2>3, <2>4, <2>5, <2>6
<1> QED
  BY <1>1, <1>4 DEF RunInv, OrderInv, next

(* A run for which no job was written may be closed as failed.             *)
LEMMA FailAllInv ==
  ASSUME NEW J, NEW r \in RunIds, NEW run \in Run, RunInv(J, r, run),
         \A j \in J : j.run = r => j.kind = "build"
  PROVE  RunInv(J, r, FailAll(run))
<1> DEFINE next == FailAll(run)
<1>1. /\ next.parts = run.parts /\ next.config = run.config /\ next.status = "failed"
      /\ run.parts \subseteq Components
  BY DEF FailAll, Run
<1>2. \A c \in run.parts : next.res[c].status = "failed"
  BY DEF FailAll, Run, Result
<1>3. \A c \in run.parts : JobsOf(J, r, c, "deploy") = {}
  BY DEF JobsOf
<1> HIDE DEF next
<1>4. ASSUME NEW c \in run.parts
      PROVE  ResultInv(J, r, next, c)
  BY <1>1, <1>2, <1>3 DEF ResultInv
<1> QED
  BY <1>1, <1>4 DEF RunInv, OrderInv, next

(* The condition depends on a live run's parts and results only.           *)
LEMMA SameLiveInv ==
  ASSUME NEW J, NEW r, NEW run, NEW next, Live(run), Live(next),
         next.parts = run.parts, next.config = run.config, next.res = run.res,
         RunInv(J, r, run)
  PROVE  RunInv(J, r, next)
BY DEF RunInv, OrderInv, ResultInv, Live, EndedStatus

(* The publication step.                                                   *)
LEMMA PublishInv ==
  ASSUME NEW J, NEW r \in RunIds, NEW run \in Run, Live(run), RunInv(J, r, run),
         NEW accepted \in BOOLEAN,
         run.status = "publishing" /\ source[r] # "published" => \A j \in J : j.run # r
  PROVE  LET run1 == Publish(r, run, accepted)
         IN /\ RunInv(J, r, run1)
            /\ Live(run1) => /\ run1.parts = run.parts /\ run1.config = run.config
                             /\ run1.res = run.res
<1> DEFINE next == [run EXCEPT !.head = r, !.status = "running"]
<1>1. /\ next.parts = run.parts /\ next.config = run.config /\ next.res = run.res
      /\ Live(next)
  BY DEF Run, Live
<1> HIDE DEF next
<1>2. RunInv(J, r, next)
  BY <1>1, SameLiveInv
<1>3. CASE Publish(r, run, accepted) = run
  BY <1>3
<1>4. CASE Publish(r, run, accepted) = next
  BY <1>1, <1>2, <1>4
<1>5. CASE Publish(r, run, accepted) = FailAll(run) /\ Publish(r, run, accepted) # run
  <2>1. FailAll(run).status = "failed" /\ next # FailAll(run)
    BY <1>1 DEF FailAll, Run, Live
  <2>2. run.status = "publishing" /\ source[r] # "published"
    BY <1>5, <2>1 DEF Publish, next
  <2> QED
    BY <1>5, <2>1, <2>2, FailAllInv DEF Live
<1> QED
  BY <1>3, <1>4, <1>5 DEF Publish, next

(* When jobs are written, a pass goes over the published run.              *)
LEMMA NewJobsFor ==
  ASSUME NEW J, NEW R, NEW r, NEW accepted, NewJobs(J, R, r, accepted) # {}
  PROVE  LET run1 == Publish(r, R[r], accepted)
         IN /\ Live(R[r]) /\ Entitled(r, R[r]) /\ run1.status = "running"
            /\ NewFor(J, r, run1, NewJobs(J, R, r, accepted))
BY DEF NewJobs, NewJob, NewFor, Starting

(* advance() keeps the condition; so does a stop within it, which leaves   *)
(* some of the jobs and the old record.                                    *)
LEMMA AdvancedInv ==
  ASSUME NEW R, Stored(R), NEW J, JobsOK(J), NEW r \in RunIds, R[r].status # "absent",
         RunInv(J, r, R[r]), NEW accepted \in BOOLEAN,
         R[r].status = "publishing" /\ source[r] # "published" => \A j \in J : j.run # r
  PROVE  /\ RunInv(J \cup NewJobs(J, R, r, accepted), r, Advanced(J, r, R[r], accepted))
         /\ \A D \in SUBSET NewJobs(J, R, r, accepted) : RunInv(J \cup D, r, R[r])
<1> DEFINE run == R[r]
           run1 == Publish(r, run, accepted)
           new == NewJobs(J, R, r, accepted)
<1>1. run \in Run /\ RefOK(R, run) /\ run1 \in Run
  BY PublishOK, RunHasStatus DEF Stored
<1>2. CASE Live(run) /\ Entitled(r, run) /\ run1.status = "running"
  <2>1. RunInv(J, r, run1) /\ Live(run1)
    BY <1>1, <1>2, PublishInv DEF Live
  <2>2. /\ run1.parts = run.parts /\ run1.config = run.config /\ run1.res = run.res
    BY <1>1, <1>2, <2>1, PublishInv
  <2>3. NewFor(J, r, run1, new)
    BY NewJobsFor DEF NewFor
  <2>4. Advanced(J, r, run, accepted) = Pass(J, r, run1)
    BY <1>2 DEF Advanced
  <2>5. RunInv(J \cup new, r, Pass(J, r, run1))
    BY <1>1, <1>2, <2>1, <2>3, PassInv
  <2>6. ASSUME NEW D \in SUBSET new
        PROVE  RunInv(J \cup D, r, run)
    <3>1. NewFor(J, r, run1, D)
      BY <2>3 DEF NewFor
    <3>2. RunInv(J \cup D, r, run1)
      BY <1>1, <1>2, <2>1, <3>1, StartedInv
    <3> QED
      BY <1>2, <2>1, <2>2, <3>2, SameLiveInv
  <2> QED
    BY <2>4, <2>5, <2>6
<1>3. CASE ~(Live(run) /\ Entitled(r, run) /\ run1.status = "running")
  <2>1. new = {}
    BY <1>3, NewJobsFor
  <2>2. RunInv(J, r, Advanced(J, r, run, accepted))
    <3>1. CASE ~Live(run)
      BY <3>1 DEF Advanced
    <3>2. CASE Live(run) /\ ~Entitled(r, run)
      BY <1>1, <3>2, ExpireInv DEF Advanced
    <3>3. CASE Live(run) /\ Entitled(r, run) /\ run1.status # "running"
      BY <1>1, <3>3, PublishInv DEF Advanced
    <3> QED
      BY <1>3, <3>1, <3>2, <3>3
  <2>3. J \cup new = J /\ \A D \in SUBSET new : J \cup D = J
    BY <2>1
  <2> QED
    BY <2>2, <2>3
<1> QED
  BY <1>2, <1>3

(* What advance() never changes of a run, and what it leaves alone.        *)
LEMMA AdvancedKeeps ==
  ASSUME NEW J, NEW r \in RunIds, NEW run \in Run, NEW accepted \in BOOLEAN
  PROVE  LET next == Advanced(J, r, run, accepted)
         IN /\ next.parts = run.parts /\ next.config = run.config /\ next.op = run.op
            /\ ~Live(run) => next = run
            /\ next.status = "publishing" => next = run
<1> DEFINE run1 == Publish(r, run, accepted)
           Same(x) == x.parts = run.parts /\ x.config = run.config /\ x.op = run.op
<1>1. Same(FailAll(run)) /\ FailAll(run).status = "failed"
  BY DEF FailAll, Run
<1>2. Same([run EXCEPT !.head = r, !.status = "running"])
      /\ [run EXCEPT !.head = r, !.status = "running"].status = "running"
  BY DEF Run
<1>3. Same(run1) /\ (run1.status = "publishing" => run1 = run)
  BY <1>1, <1>2 DEF Publish
<1>4. Same(Expire(J, r, run)) /\ Expire(J, r, run).status # "publishing"
  BY DEF Expire, Verdict, Run
<1>5. run1 \in {run, FailAll(run), [run EXCEPT !.head = r, !.status = "running"]}
  BY DEF Publish
<1>6. ASSUME run1.status = "running"
      PROVE  Same(Pass(J, r, run1)) /\ Pass(J, r, run1).status # "publishing"
  <2>1. run1 \in Run
    BY <1>1, <1>5, <1>6 DEF Run, RunStatus
  <2>2. /\ Pass(J, r, run1).parts = run1.parts /\ Pass(J, r, run1).config = run1.config
        /\ Pass(J, r, run1).op = run1.op /\ Pass(J, r, run1).status # "publishing"
    <3> HIDE DEF run1
    <3> QED
      BY <2>1 DEF Pass, Verdict, Run
  <2> QED
    BY <1>3, <2>2
<1> HIDE DEF run1, Same
<1>7. Advanced(J, r, run, accepted) =
        IF ~Live(run) THEN run
        ELSE IF ~Entitled(r, run) THEN Expire(J, r, run)
        ELSE IF run1.status = "running" THEN Pass(J, r, run1) ELSE run1
  BY DEF Advanced, run1
<1>8. Same(run)
  BY DEF Same
<1> QED
  BY <1>3, <1>4, <1>6, <1>7, <1>8 DEF Same

(* The condition reads the jobs of the run itself.                         *)
LEMMA SameJobsInv ==
  ASSUME NEW J, NEW K, NEW r, NEW run, RunInv(J, r, run),
         \A j : j.run = r => (j \in J <=> j \in K)
  PROVE  RunInv(K, r, run)
<1>1. \A c, kind : JobsOf(K, r, c, kind) = JobsOf(J, r, c, kind)
  BY DEF JobsOf
<1>2. \A c : LandedIn(K, r, c) <=> LandedIn(J, r, c)
  BY <1>1 DEF LandedIn
<1> QED
  BY <1>1, <1>2 DEF RunInv, OrderInv, ResultInv

(* More jobs keep what a run needs of earlier runs.                        *)
LEMMA OutsideMore ==
  ASSUME NEW J, NEW K, J \subseteq K, NEW r, NEW run, NEW next, OutsideInv(J, r, run),
         next.parts = run.parts, next.config = run.config
  PROVE  OutsideInv(K, r, next)
BY LandedMore DEF OutsideInv

(* Advancing any set of runs keeps the store good.                         *)
LEMMA AdvanceStoreInv ==
  ASSUME NEW R, Stored(R), NEW J, JobsOK(J), StoreInv(R, J), PublishedFirst(R, J, source),
         NEW S \in SUBSET RunIds, NEW accepted \in BOOLEAN
  PROVE  StoreInv(AdvancedRuns(S, J, R, accepted), AdvancedJobs(S, J, R, accepted))
<1> DEFINE N == AdvancedRuns(S, J, R, accepted)
           K == AdvancedJobs(S, J, R, accepted)
<1>1. \A r \in RunIds : N[r] = IF r \in S THEN Advanced(J, r, R[r], accepted) ELSE R[r]
  BY DEF AdvancedRuns
<1>2. \A r \in RunIds : R[r].status # "absent" => R[r] \in Run
  BY RunHasStatus DEF Stored
<1>3. \A r \in RunIds : R[r].status = "absent" => N[r] = R[r]
  BY <1>1, AbsentStays
<1>4. ASSUME NEW r \in RunIds, R[r].status # "absent"
      PROVE  /\ N[r].parts = R[r].parts /\ N[r].config = R[r].config
             /\ ~Live(R[r]) => N[r] = R[r]
             /\ N[r].status # "absent"
  <2>1. Stored(N)
    BY AdvancedRunsOK DEF JobsOK
  <2>2. Advanced(J, r, R[r], accepted) \in Run /\ R[r] \in Run
    BY <1>2, <1>4, AdvancedOK DEF Stored, JobsOK
  <2>3. N[r].status # "absent"
    BY <1>1, <1>4, <2>2, RunHasStatus
  <2> QED
    BY <1>1, <2>2, <2>3, AdvancedKeeps
<1>5. \A j \in K : j \in J \/ \E r \in S : j \in NewJobs(J, R, r, accepted)
  BY DEF AdvancedJobs
<1>6. \A r \in RunIds : \A j \in NewJobs(J, R, r, accepted) : j.run = r /\ R[r].status # "absent"
  BY NewJobsOK, NewJobsFor DEF JobsOK, Live
<1>7. J \subseteq K /\ \A r \in S : NewJobs(J, R, r, accepted) \subseteq K
  BY DEF AdvancedJobs
<1> HIDE DEF N, K
<1>8. SerialRuns(N)
  BY <1>3, <1>4 DEF StoreInv, SerialRuns, EndedStatus, Live
<1>9. ASSUME NEW j \in K
      PROVE  N[j.run].status # "absent"
  <2>1. j.run \in RunIds /\ R[j.run].status # "absent"
    BY <1>5, <1>6 DEF StoreInv, JobsOK, Job
  <2> QED
    BY <1>4, <2>1
<1>10. ASSUME NEW r \in RunIds, N[r].status # "absent"
       PROVE  RunInv(K, r, N[r]) /\ OutsideInv(K, r, N[r])
  <2>1. R[r].status # "absent"
    BY <1>3, <1>10
  <2>2. RunInv(J, r, R[r]) /\ OutsideInv(J, r, R[r])
    BY <2>1 DEF StoreInv
  <2>3. OutsideInv(K, r, N[r])
    BY <1>4, <1>7, <2>1, <2>2, OutsideMore
  <2>4. CASE r \in S
    <3>1. R[r].status = "publishing" /\ source[r] # "published" => \A j \in J : j.run # r
      BY DEF PublishedFirst
    <3>2. RunInv(J \cup NewJobs(J, R, r, accepted), r, N[r])
      BY <1>1, <2>1, <2>2, <2>4, <3>1, AdvancedInv
    <3>3. \A j : j.run = r => (j \in J \cup NewJobs(J, R, r, accepted) <=> j \in K)
      BY <1>5, <1>6, <1>7, <2>4
    <3> QED
      BY <2>3, <3>2, <3>3, SameJobsInv
  <2>5. CASE r \notin S
    <3>1. \A j : j.run = r => (j \in J <=> j \in K)
      BY <1>5, <1>6, <1>7, <2>5
    <3> QED
      BY <1>1, <2>2, <2>3, <2>5, <3>1, SameJobsInv
  <2> QED
    BY <2>4, <2>5
<1> QED
  BY <1>8, <1>9, <1>10 DEF StoreInv, N, K

(* Its publications keep their order too.                                  *)
LEMMA AdvancePublishedFirst ==
  ASSUME NEW R, Stored(R), NEW J, JobsOK(J), PublishedFirst(R, J, source), SourceOK(source),
         NEW S \in SUBSET RunIds, NEW accepted \in BOOLEAN, StoreInv(R, J),
         NEW src, src \in {source, QueuedSource(S, R)}
  PROVE  PublishedFirst(AdvancedRuns(S, J, R, accepted), AdvancedJobs(S, J, R, accepted), src)
<1> DEFINE N == AdvancedRuns(S, J, R, accepted)
           K == AdvancedJobs(S, J, R, accepted)
<1> SUFFICES ASSUME NEW j \in K, N[j.run].status = "publishing"
             PROVE  src[j.run] = "published"
  BY DEF PublishedFirst
<1> DEFINE r == j.run
<1>1. \A q \in RunIds : source[q] = "published" => src[q] = "published"
  BY DEF QueuedSource, SourceOK
<1>2. j \in J \/ \E q \in S : j \in NewJobs(J, R, q, accepted)
  BY DEF AdvancedJobs
<1>3. r \in RunIds /\ R[r].status # "absent"
  <2>1. CASE j \in J
    BY <2>1 DEF StoreInv, JobsOK, Job
  <2>2. ASSUME NEW q \in S, j \in NewJobs(J, R, q, accepted)
        PROVE  r = q /\ R[q].status # "absent"
    BY <2>2, NewJobsOK, NewJobsFor DEF JobsOK, Live
  <2> QED
    BY <1>2, <2>1, <2>2
<1>4. R[r] \in Run
  BY <1>3, RunHasStatus DEF Stored
<1>5. N[r] = IF r \in S THEN Advanced(J, r, R[r], accepted) ELSE R[r]
  BY <1>3 DEF AdvancedRuns
<1>6. N[r] = R[r]
  BY <1>3, <1>4, <1>5, AdvancedKeeps
<1>7. CASE j \in J
  BY <1>1, <1>3, <1>6, <1>7 DEF PublishedFirst
<1>8. CASE j \notin J
  <2>1. PICK q \in S : j \in NewJobs(J, R, q, accepted)
    BY <1>2, <1>8
  <2>2. q = r
    BY <2>1, NewJobsOK DEF JobsOK
  <2>3. Publish(r, R[r], accepted).status = "running"
    BY <2>1, <2>2, NewJobsFor
  <2>4. source[r] = "published"
    <3>1. FailAll(R[r]).status = "failed"
      BY <1>4 DEF FailAll, Run
    <3> QED
      BY <1>6, <2>3, <3>1 DEF Publish
  <2> QED
    BY <1>1, <1>3, <2>4
<1> QED
  BY <1>7, <1>8

(* A stop within the advance of run r: some of its jobs are on disk.       *)
LEMMA CrashStoreInv ==
  ASSUME NEW R, Stored(R), NEW J, JobsOK(J), StoreInv(R, J), PublishedFirst(R, J, source),
         NEW r \in RunIds, NEW D \in SUBSET NewJobs(J, R, r, TRUE)
  PROVE  StoreInv(R, J \cup D) /\ PublishedFirst(R, J \cup D, source)
<1> DEFINE K == J \cup D
<1>1. \A j \in D : j.run = r /\ R[r].status # "absent"
  BY NewJobsOK, NewJobsFor DEF JobsOK, Live
<1>2. \A j \in K : R[j.run].status # "absent"
  BY <1>1 DEF StoreInv
<1>3. ASSUME NEW q \in RunIds, R[q].status # "absent"
      PROVE  RunInv(K, q, R[q]) /\ OutsideInv(K, q, R[q])
  <2>1. RunInv(J, q, R[q]) /\ OutsideInv(J, q, R[q])
    BY <1>3 DEF StoreInv
  <2>2. OutsideInv(K, q, R[q])
    BY <2>1, OutsideMore
  <2>3. CASE q = r
    <3>1. R[r].status = "publishing" /\ source[r] # "published" => \A j \in J : j.run # r
      BY DEF PublishedFirst
    <3> QED
      BY <1>3, <2>1, <2>2, <2>3, <3>1, AdvancedInv
  <2>4. CASE q # r
    <3>1. \A j : j.run = q => (j \in J <=> j \in K)
      BY <1>1, <2>4
    <3> QED
      BY <2>1, <2>2, <3>1, SameJobsInv
  <2> QED
    BY <2>3, <2>4
<1>4. StoreInv(R, K)
  BY <1>2, <1>3 DEF StoreInv
<1>5. ASSUME NEW j \in D, R[r].status = "publishing"
      PROVE  source[r] = "published"
  <2>1. Publish(r, R[r], TRUE).status = "running"
    BY <1>5, NewJobsFor
  <2>2. FailAll(R[r]).status = "failed"
    BY <1>1, <1>5, RunHasStatus DEF FailAll, Run, Stored
  <2> QED
    BY <1>5, <2>1, <2>2 DEF Publish
<1>6. PublishedFirst(R, K, source)
  BY <1>1, <1>5 DEF PublishedFirst
<1> QED
  BY <1>4, <1>6

--------------------------------------------------------------------------------
(***************************************************************************)
(* What an operation writes before it advances the runs.                   *)
(***************************************************************************)

(* A job that is handed out, uploaded to or reported on: not one that is   *)
(* over, and a queued one only while its run is live.                      *)
LEMMA ReplaceStoreInv ==
  ASSUME NEW R, NEW J, JobsOK(J), StoreInv(R, J), NEW src, PublishedFirst(R, J, src),
         NEW j \in J, NEW k \in Job, SameKey(k, j),
         j.status \notin {"failed", "succeeded"},
         j.status = "queued" => Live(R[j.run])
  PROVE  LET K == (J \ {j}) \cup {k}
         IN StoreInv(R, K) /\ PublishedFirst(R, K, src)
<1> DEFINE K == (J \ {j}) \cup {k}
<1>1. \A b \in K : \E a \in J : SameKey(a, b) /\ (b # k => a = b)
  BY DEF SameKey
<1>2. \A a \in J : \E b \in K : SameKey(a, b) /\ (a # j => a = b)
  BY DEF SameKey
<1>3. ASSUME NEW r, NEW c, LandedIn(J, r, c)
      PROVE  LandedIn(K, r, c)
  BY <1>3 DEF LandedIn, JobsOf
<1>4. ASSUME NEW r, NEW c, JobsOf(J, r, c, "deploy") = {}
      PROVE  JobsOf(K, r, c, "deploy") = {}
  BY <1>4 DEF JobsOf, SameKey
<1>5. ASSUME NEW r, NEW c, j \notin JobsOf(J, r, c, "deploy")
      PROVE  JobsOf(K, r, c, "deploy") = JobsOf(J, r, c, "deploy")
  BY <1>5 DEF JobsOf, SameKey
<1> HIDE DEF K
<1>6. ASSUME NEW r \in RunIds, NEW run, run = R[r], RunInv(J, r, run)
      PROVE  RunInv(K, r, run)
  <2>1. OrderInv(K, r, run)
    BY <1>1, <1>3, <1>6 DEF RunInv, OrderInv, SameKey
  <2>2. ASSUME NEW c \in run.parts
        PROVE  ResultInv(K, r, run, c)
    <3>1. ResultInv(J, r, run, c)
      BY <1>6 DEF RunInv
    <3>2. CASE j \notin JobsOf(J, r, c, "deploy")
      BY <1>3, <1>5, <3>1, <3>2 DEF ResultInv
    <3>3. CASE j \in JobsOf(J, r, c, "deploy")
      <4>1. j.run = r
        BY <3>3 DEF JobsOf
      <4>2. run.res[c].status \in {"failed", "blocked"} => run.status = "recovery-required"
        BY <1>6, <3>1, <3>3, <4>1 DEF ResultInv
      <4> QED
        BY <1>3, <3>1, <3>3, <4>2 DEF ResultInv
    <3> QED
      BY <3>2, <3>3
  <2> QED
    BY <2>1, <2>2 DEF RunInv
<1>7. \A r \in RunIds : OutsideInv(J, r, R[r]) => OutsideInv(K, r, R[r])
  BY <1>3 DEF OutsideInv
<1>8. StoreInv(R, K)
  BY <1>1, <1>6, <1>7 DEF StoreInv, SameKey
<1>9. PublishedFirst(R, K, src)
  BY <1>1 DEF PublishedFirst, SameKey
<1> QED
  BY <1>8, <1>9 DEF K

(* Uncertain jobs that the owner closes.                                   *)
LEMMA ClosedStoreInv ==
  ASSUME NEW R, NEW J, JobsOK(J), StoreInv(R, J), NEW src, PublishedFirst(R, J, src),
         NEW D \in SUBSET J, \A j \in D : j.status = "recovery-required"
  PROVE  LET K == (J \ D) \cup {ClosedJob(j) : j \in D}
         IN StoreInv(R, K) /\ PublishedFirst(R, K, src)
<1> DEFINE K == (J \ D) \cup {ClosedJob(j) : j \in D}
<1>1. \A j \in D : /\ SameKey(ClosedJob(j), j) /\ ClosedJob(j).status = "failed"
  BY DEF JobsOK, Job, ClosedJob, SameKey
<1>2. \A b \in K : \E a \in J : SameKey(a, b) /\ (a = b \/ b.status = "failed")
  BY <1>1 DEF SameKey
<1>3. \A a \in J : a.status = "succeeded" => a \in K
  OBVIOUS
<1> HIDE DEF K
<1>4. \A r, c : LandedIn(J, r, c) => LandedIn(K, r, c)
  BY <1>3 DEF LandedIn, JobsOf
<1>5. ASSUME NEW r \in RunIds, NEW run, run = R[r], RunInv(J, r, run)
      PROVE  RunInv(K, r, run)
  <2>1. OrderInv(K, r, run)
    BY <1>2, <1>4, <1>5 DEF RunInv, OrderInv, SameKey
  <2>2. ASSUME NEW c \in run.parts
        PROVE  ResultInv(K, r, run, c)
    <3>1. ResultInv(J, r, run, c)
      BY <1>5 DEF RunInv
    <3>2. \A b \in JobsOf(K, r, c, "deploy") :
            b.status = "failed" \/ b \in JobsOf(J, r, c, "deploy")
      BY <1>2 DEF JobsOf, SameKey
    <3>3. JobsOf(J, r, c, "deploy") = {} => JobsOf(K, r, c, "deploy") = {}
      BY <1>2 DEF JobsOf, SameKey
    <3> QED
      BY <1>4, <3>1, <3>2, <3>3 DEF ResultInv
  <2> QED
    BY <2>1, <2>2 DEF RunInv
<1>6. \A r \in RunIds : OutsideInv(J, r, R[r]) => OutsideInv(K, r, R[r])
  BY <1>4 DEF OutsideInv
<1>7. StoreInv(R, K)
  BY <1>2, <1>5, <1>6 DEF StoreInv, SameKey
<1>8. PublishedFirst(R, K, src)
  BY <1>2 DEF PublishedFirst, SameKey
<1> QED
  BY <1>7, <1>8 DEF K

(* The owner's resolution of a run that has only builds.                   *)
LEMMA ResolvedStoreInv ==
  ASSUME NEW R, Stored(R), NEW J, JobsOK(J), StoreInv(R, J), NEW src, PublishedFirst(R, J, src),
         NEW r \in RunIds, R[r].status # "absent",
         \A j \in J : j.run = r => j.kind = "build"
  PROVE  LET N == [R EXCEPT ![r] = [FailAll(R[r]) EXCEPT !.resolved = TRUE]]
         IN StoreInv(N, J) /\ PublishedFirst(N, J, src)
<1> DEFINE run == R[r]
           next == [FailAll(run) EXCEPT !.resolved = TRUE]
           N == [R EXCEPT ![r] = next]
<1>1. run \in Run /\ RunInv(J, r, run) /\ OutsideInv(J, r, run)
  BY RunHasStatus DEF Stored, StoreInv
<1>2. RunInv(J, r, FailAll(run))
  BY <1>1, FailAllInv
<1>3. /\ next.parts = FailAll(run).parts /\ next.config = FailAll(run).config
      /\ next.res = FailAll(run).res /\ next.status = FailAll(run).status
      /\ FailAll(run).parts = run.parts /\ FailAll(run).config = run.config
      /\ next.status = "failed"
  BY <1>1 DEF FailAll, Run
<1>4. /\ N[r] = next /\ \A q \in RunIds \ {r} : N[q] = R[q]
      /\ \A j \in J : j.run \in RunIds
  BY DEF Stored, JobsOK, Job
<1> HIDE DEF next, N
<1>5. RunInv(J, r, next) /\ OutsideInv(J, r, next)
  BY <1>1, <1>2, <1>3 DEF RunInv, OrderInv, ResultInv, OutsideInv, Live
<1>6. SerialRuns(N)
  BY <1>3, <1>4 DEF StoreInv, SerialRuns, EndedStatus
<1>7. \A j \in J : N[j.run].status # "absent"
  BY <1>3, <1>4 DEF StoreInv
<1>8. StoreInv(N, J)
  BY <1>4, <1>5, <1>6, <1>7 DEF StoreInv
<1>9. PublishedFirst(N, J, src)
  <2> SUFFICES ASSUME NEW j \in J, N[j.run].status = "publishing"
               PROVE  src[j.run] = "published"
    BY DEF PublishedFirst
  <2>1. N[j.run] = R[j.run]
    BY <1>3, <1>4
  <2> QED
    BY <2>1 DEF PublishedFirst
<1> QED
  BY <1>8, <1>9 DEF N, next

(* A requested run has no job yet, and what it needs of other runs is      *)
(* there.                                                                  *)
LEMMA RequestStoreInv ==
  ASSUME IInv, StoreInv(runs, jobs), PublishedFirst(runs, jobs, source),
         NEW u \in Users, NEW op \in Operations, NEW scope \in Components \cup {None},
         NEW parts \in SUBSET Components, CanRequest(u, op, scope, parts),
         NEW r \in RunIds, NextRun(r)
  PROVE  LET N == [runs EXCEPT ![r] = FreshRun(u, op, parts)]
         IN StoreInv(N, jobs) /\ PublishedFirst(N, jobs, source)
<1> DEFINE run == FreshRun(u, op, parts)
           N == [runs EXCEPT ![r] = run]
<1>1. /\ run.parts = parts /\ run.config = profile.config
      /\ run.status \in {"publishing", "running"}
      /\ \A c \in parts : run.res[c].status = "pending"
  BY DEF FreshRun, FreshResult
<1>2. \A j \in jobs : j.run # r /\ j.run \in RunIds
  BY DEF NextRun, Exists, StoreInv, IInv, JobsOK, Job
<1>3. N[r] = run /\ \A q \in RunIds \ {r} : N[q] = runs[q]
  BY DEF IInv, Stored
<1>4. \A q \in RunIds : runs[q].status # "absent" => runs[q].status \in EndedStatus
  BY RunHasStatus DEF CanRequest, Busy, Pending, Exists, IInv, Stored, RunStatus, EndedStatus
<1>5. \A q \in RunIds : runs[q].status # "absent" => q < r
  <2> SUFFICES ASSUME NEW q \in RunIds, runs[q].status # "absent", ~(q < r)
               PROVE  FALSE
    OBVIOUS
  <2>1. r < q
    BY DEF NextRun, Exists, RunIds
  <2> QED
    BY <2>1 DEF StoreInv, SerialRuns, NextRun, Exists, EndedStatus
<1>6. profile.config \in Config /\ \A c \in Components : profile.config.deps[c] \subseteq profile.config.parts
  BY ConfigsAssumption DEF IInv, ProfileOK, CanRequest
<1> HIDE DEF run, N
<1>7. SerialRuns(N)
  <2> SUFFICES ASSUME NEW p \in RunIds, NEW q \in RunIds, q < p, N[p].status # "absent"
               PROVE  N[q].status \in EndedStatus
    BY DEF SerialRuns
  <2>1. q # r
    <3>1. CASE p = r
      BY <3>1 DEF RunIds
    <3>2. CASE p # r
      BY <1>3, <1>5, <3>2 DEF RunIds
    <3> QED
      BY <3>1, <3>2
  <2>2. runs[q].status # "absent"
    <3>1. CASE p = r
      BY <3>1 DEF NextRun, Exists
    <3>2. CASE p # r
      BY <1>3, <3>2 DEF StoreInv, SerialRuns, EndedStatus
    <3> QED
      BY <3>1, <3>2
  <2> QED
    BY <1>3, <1>4, <2>1, <2>2
<1>8. \A j \in jobs : N[j.run].status # "absent"
  BY <1>2, <1>3 DEF StoreInv
<1>9. RunInv(jobs, r, run)
  <2>1. run.parts = run.config.parts \/ \E c \in Components : run.parts = {c}
    BY <1>1 DEF CanRequest
  <2>2. \A c : JobsOf(jobs, r, c, "deploy") = {}
    BY <1>2 DEF JobsOf
  <2>3. OrderInv(jobs, r, run)
    BY <1>2, <2>1 DEF OrderInv
  <2>4. \A c \in run.parts : ResultInv(jobs, r, run, c)
    BY <1>1, <2>2 DEF ResultInv, EndedStatus
  <2> QED
    BY <2>3, <2>4 DEF RunInv
<1>10. OutsideInv(jobs, r, run)
  <2> SUFFICES ASSUME NEW c \in parts, NEW d \in profile.config.deps[c] \ parts
               PROVE  \E q \in RunIds : q < r /\ LandedIn(jobs, q, d)
    BY <1>1 DEF OutsideInv
  <2>1. scope # None
    BY <1>6 DEF CanRequest
  <2>2. c = scope /\ d \in Components /\ Current(d) # None
    BY <1>6, <2>1 DEF CanRequest, Config
  <2>3. Current(d) \in RunIds /\ Deployed(Current(d), d)
    BY <2>2, CurrentExists DEF IInv
  <2>4. LandedIn(jobs, Current(d), d) /\ Current(d) < r
    BY <1>5, <2>3 DEF Deployed, Exists, StoreInv, RunInv, ResultInv
  <2> QED
    BY <2>3, <2>4
<1>11. StoreInv(N, jobs)
  BY <1>3, <1>7, <1>8, <1>9, <1>10 DEF StoreInv
<1>12. PublishedFirst(N, jobs, source)
  BY <1>2, <1>3 DEF PublishedFirst
<1> QED
  BY <1>11, <1>12 DEF N, run

--------------------------------------------------------------------------------
(***************************************************************************)
(* Every step keeps the store good.                                        *)
(***************************************************************************)
SafetyInv == IInv /\ StoreInv(runs, jobs) /\ PublishedFirst(runs, jobs, source)

(* The empty store is.                                                     *)
LEMMA InitSafetyInv == Init => SafetyInv
<1> SUFFICES ASSUME Init PROVE SafetyInv
  OBVIOUS
<1>1. IInv
  BY InitIInv
<1>2. StoreInv(runs, jobs) /\ PublishedFirst(runs, jobs, source)
  BY DEF Init, StoreInv, SerialRuns, PublishedFirst, NoRun
<1> QED
  BY <1>1, <1>2 DEF SafetyInv

(* Advancing the runs S after R and J were written.                        *)
LEMMA AdvanceSafety ==
  ASSUME NEW R, Stored(R), NEW J, JobsOK(J), StoreInv(R, J), PublishedFirst(R, J, source),
         SourceOK(source), NEW S \in SUBSET RunIds, NEW accepted \in BOOLEAN,
         AdvanceRuns(S, J, R, accepted)
  PROVE  StoreInv(runs', jobs') /\ PublishedFirst(runs', jobs', source')
<1>1. /\ runs' = AdvancedRuns(S, J, R, accepted) /\ jobs' = AdvancedJobs(S, J, R, accepted)
      /\ source' \in {source, QueuedSource(S, R)}
  BY DEF AdvanceRuns
<1>2. StoreInv(runs', jobs')
  BY <1>1, AdvanceStoreInv
<1>3. PublishedFirst(runs', jobs', source')
  BY <1>1, AdvancePublishedFirst
<1> QED
  BY <1>2, <1>3

(* The steps of members: a request, the closing of an interrupted build.   *)
LEMMA MemberStepSafety ==
  ASSUME SafetyInv, MemberStep
  PROVE  StoreInv(runs', jobs') /\ PublishedFirst(runs', jobs', source')
<1>1. PICK u \in Users :
        \/ \E cfg \in Configs : SaveProfile(u, cfg)
        \/ \E op \in Operations, scope \in Components \cup {None}, r \in RunIds :
             Request(u, op, scope, r) \/ RequestCrash(u, op, scope, r)
        \/ \E r \in RunIds : CloseInterruptedBuild(u, r) \/ CloseCrash(u, r)
        \/ ChangeAccess(u)
  BY DEF MemberStep
<1> USE DEF SafetyInv
<1>2. ASSUME \/ \E cfg \in Configs : SaveProfile(u, cfg)
             \/ ChangeAccess(u)
      PROVE  StoreInv(runs', jobs') /\ PublishedFirst(runs', jobs', source')
  BY <1>2 DEF SaveProfile, ChangeAccess
<1>3. ASSUME NEW op \in Operations, NEW scope \in Components \cup {None}, NEW r \in RunIds,
             Request(u, op, scope, r)
      PROVE  StoreInv(runs', jobs') /\ PublishedFirst(runs', jobs', source')
  <2>1. PICK parts \in SUBSET Components, accepted \in BOOLEAN :
          /\ NextRun(r) /\ CanRequest(u, op, scope, parts)
          /\ AdvanceRuns({r}, jobs, [runs EXCEPT ![r] = FreshRun(u, op, parts)], accepted)
    BY <1>3 DEF Request
  <2> DEFINE N == [runs EXCEPT ![r] = FreshRun(u, op, parts)]
  <2>2. Stored(N) /\ StoreInv(N, jobs) /\ PublishedFirst(N, jobs, source)
    BY <2>1, RequestedOK, RequestStoreInv
  <2> HIDE DEF N
  <2> QED
    BY <2>1, <2>2, AdvanceSafety DEF IInv, N
<1>4. ASSUME NEW op \in Operations, NEW scope \in Components \cup {None}, NEW r \in RunIds,
             RequestCrash(u, op, scope, r)
      PROVE  StoreInv(runs', jobs') /\ PublishedFirst(runs', jobs', source')
  <2>1. PICK parts \in SUBSET Components :
          /\ NextRun(r) /\ CanRequest(u, op, scope, parts)
          /\ runs' = [runs EXCEPT ![r] = FreshRun(u, op, parts)]
          /\ UNCHANGED <<jobs, source>>
    BY <1>4 DEF RequestCrash
  <2> QED
    BY <2>1, RequestStoreInv
<1>5. ASSUME NEW r \in RunIds, CloseInterruptedBuild(u, r) \/ CloseCrash(u, r)
      PROVE  StoreInv(runs', jobs') /\ PublishedFirst(runs', jobs', source')
  <2>1. Exists(r) /\ (runs[r].resolved \/ Closable(r)) /\ Resolve(r) /\ source' = source
    BY <1>5 DEF CloseInterruptedBuild, CloseCrash, MayClose
  <2>2. PICK D \in SUBSET Claims(r) : jobs' = JobsClosed(D)
    BY <1>5 DEF CloseInterruptedBuild, CloseCrash
  <2>3. /\ D \in SUBSET jobs /\ \A j \in D : j.status = "recovery-required"
        /\ jobs' = (jobs \ D) \cup {ClosedJob(j) : j \in D}
    BY <2>2 DEF Claims, JobsClosed, ClosedJob
  <2>4. StoreInv(runs, jobs') /\ PublishedFirst(runs, jobs', source)
    BY <2>3, ClosedStoreInv DEF IInv
  <2>5. CASE runs[r].resolved
    BY <2>1, <2>4, <2>5 DEF Resolve
  <2>6. CASE ~runs[r].resolved
    <3>1. \A j \in jobs : j.run = r => j.kind = "build"
      BY <2>1, <2>6 DEF Closable
    <3>2. JobsOK(jobs')
      BY <2>3, ClosedJobsOK DEF IInv
    <3>3. \A j \in jobs' : \E k \in jobs : SameKey(j, k)
      <4>1. \A j \in D : SameKey(ClosedJob(j), j)
        BY <2>3 DEF ClosedJob, SameKey, IInv, JobsOK, Job
      <4> QED
        BY <2>3, <4>1 DEF SameKey
    <3>4. \A j \in jobs' : j.run = r => j.kind = "build"
      BY <3>1, <3>3 DEF SameKey
    <3> QED
      BY <2>1, <2>4, <2>6, <3>2, <3>4, ResolvedStoreInv DEF Resolve, Exists, IInv
  <2> QED
    BY <2>5, <2>6
<1> QED
  BY <1>1, <1>2, <1>3, <1>4, <1>5

(* The steps of executors: a poll, a claim, an upload, a receipt.          *)
LEMMA ExecutorStepSafety ==
  ASSUME SafetyInv, ExecutorStep
  PROVE  StoreInv(runs', jobs') /\ PublishedFirst(runs', jobs', source')
<1> USE DEF SafetyInv
<1>1. ASSUME Poll
      PROVE  StoreInv(runs', jobs') /\ PublishedFirst(runs', jobs', source')
  <2>1. PICK accepted \in BOOLEAN : AdvanceRuns(RunIds, jobs, runs, accepted)
    BY <1>1 DEF Poll
  <2> QED
    BY <2>1, AdvanceSafety DEF IInv
<1>2. ASSUME NEW r \in RunIds, AdvanceCrash(r)
      PROVE  StoreInv(runs', jobs') /\ PublishedFirst(runs', jobs', source')
  <2>1. PICK D \in SUBSET NewJobs(jobs, runs, r, TRUE) :
          jobs' = jobs \cup D /\ source' = QueuedSource({r}, runs) /\ runs' = runs
    BY <1>2 DEF AdvanceCrash
  <2>2. StoreInv(runs, jobs') /\ PublishedFirst(runs, jobs', source)
    BY <2>1, CrashStoreInv DEF IInv
  <2>3. \A q \in RunIds : source[q] = "published" => source'[q] = "published"
    BY <2>1 DEF QueuedSource, IInv, SourceOK
  <2>4. \A j \in jobs' : j.run \in RunIds
    BY <2>1, NewJobsOK DEF IInv, JobsOK, Job
  <2> QED
    BY <2>1, <2>2, <2>3, <2>4 DEF PublishedFirst
<1>3. ASSUME Claim
      PROVE  StoreInv(runs', jobs') /\ PublishedFirst(runs', jobs', source')
  <2>0. PICK accepted \in BOOLEAN :
          \E j \in AdvancedJobs(RunIds, jobs, runs, accepted) : ClaimJob(j, accepted)
    BY <1>3 DEF Claim
  <2>1. PICK j \in AdvancedJobs(RunIds, jobs, runs, accepted) : ClaimJob(j, accepted)
    BY <2>0
  <2> DEFINE J == AdvancedJobs(RunIds, jobs, runs, accepted)
             R == AdvancedRuns(RunIds, jobs, runs, accepted)
             k == [j EXCEPT !.status = "working"]
  <2>2. /\ j \in J /\ MayClaim(j, R) /\ runs' = R /\ jobs' = (J \ {j}) \cup {k}
        /\ source' \in {source, QueuedSource(RunIds, runs)}
    BY <2>1 DEF ClaimJob
  <2>3. JobsOK(J)
    BY AdvancedJobsOK DEF AdvancedJobs, IInv
  <2>4. StoreInv(R, J)
    BY AdvanceStoreInv DEF IInv
  <2>5. PublishedFirst(R, J, source')
    BY <2>2, AdvancePublishedFirst DEF IInv
  <2>6. k \in Job /\ SameKey(k, j) /\ j.status = "queued" /\ Live(R[j.run])
    BY <2>2, <2>3 DEF JobsOK, Job, JobStatus, SameKey, MayClaim, Live
  <2> HIDE DEF J, R, k
  <2> QED
    BY <2>2, <2>3, <2>4, <2>5, <2>6, ReplaceStoreInv
<1>4. ASSUME NEW j \in jobs, NEW a \in Artifacts, Upload(j, a)
      PROVE  StoreInv(runs', jobs') /\ PublishedFirst(runs', jobs', source')
  <2> DEFINE k == [j EXCEPT !.output = a]
  <2>1. /\ jobs' = (jobs \ {j}) \cup {k} /\ runs' = runs /\ source' = source
        /\ j.status = "working"
    BY <1>4 DEF Upload
  <2>2. k \in Job /\ SameKey(k, j)
    BY DEF IInv, JobsOK, Job, SameKey
  <2> HIDE DEF k
  <2> QED
    BY <2>1, <2>2, ReplaceStoreInv DEF IInv
<1>5. ASSUME NEW j \in jobs, NEW status \in Outcomes, NEW code \in Codes(status), NEW d,
             Complete(j, status, d, code) \/ CompleteCrash(j, status, d, code)
      PROVE  StoreInv(runs', jobs') /\ PublishedFirst(runs', jobs', source')
  <2> DEFINE k == [j EXCEPT !.status = status, !.code = code]
             J == Completed(j, status, code)
  <2>1. j.status = "working" /\ J = (jobs \ {j}) \cup {k}
    BY <1>5 DEF Complete, CompleteCrash, MayComplete, Completed
  <2>2. j \in Job /\ status \in JobStatus /\ code \in ErrorCodes
    BY DEF IInv, JobsOK, Outcomes, Codes, JobStatus, ErrorCodes
  <2>3. k \in Job /\ SameKey(k, j)
    BY <2>2 DEF Job, SameKey
  <2> HIDE DEF k, J
  <2>4. JobsOK(J) /\ StoreInv(runs, J) /\ PublishedFirst(runs, J, source)
    BY <2>1, <2>3, ReplaceStoreInv, ReplacedJobOK DEF IInv
  <2>5. CASE CompleteCrash(j, status, d, code)
    BY <2>4, <2>5 DEF CompleteCrash, J
  <2>6. CASE Complete(j, status, d, code)
    <3>1. PICK accepted \in BOOLEAN : AdvanceRuns({j.run}, J, runs, accepted)
      BY <2>6 DEF Complete, J
    <3>2. {j.run} \in SUBSET RunIds
      BY <2>2 DEF Job
    <3> QED
      BY <2>4, <3>1, <3>2, AdvanceSafety DEF IInv
  <2> QED
    BY <1>5, <2>5, <2>6
<1> QED
  BY <1>1, <1>2, <1>3, <1>4, <1>5 DEF ExecutorStep

(* The invariant is inductive.                                             *)
LEMMA NextSafetyInv == SafetyInv /\ [Next]_vars => SafetyInv'
<1> SUFFICES ASSUME SafetyInv, [Next]_vars
             PROVE  StoreInv(runs', jobs') /\ PublishedFirst(runs', jobs', source')
  BY NextIInv DEF SafetyInv
<1>1. CASE MemberStep
  BY <1>1, MemberStepSafety
<1>2. CASE ExecutorStep
  BY <1>2, ExecutorStepSafety
<1>3. CASE ConnectorStep
  <2>1. PICK r \in RunIds : PublishSource(r) \/ FailSource(r)
    BY <1>3 DEF ConnectorStep
  <2>2. runs' = runs /\ jobs' = jobs
    BY <2>1 DEF PublishSource, FailSource
  <2>3. \A q \in RunIds : source[q] = "published" => source'[q] = "published"
    BY <2>1 DEF PublishSource, FailSource, SafetyInv, IInv, SourceOK
  <2>4. \A j \in jobs : j.run \in RunIds
    BY DEF SafetyInv, IInv, JobsOK, Job
  <2> QED
    BY <2>2, <2>3, <2>4 DEF SafetyInv, PublishedFirst
<1>4. CASE PassDeadline \/ UNCHANGED vars
  BY <1>4 DEF PassDeadline, vars, SafetyInv
<1> QED
  BY <1>1, <1>2, <1>3, <1>4 DEF Next

--------------------------------------------------------------------------------
(***************************************************************************)
(* The theorems.                                                           *)
(***************************************************************************)

(* Every reachable store is good.                                          *)
LEMMA SafetyInvariant == Spec => []SafetyInv
BY InitSafetyInv, NextSafetyInv, PTL DEF Spec

(* An activation that is out with a worker, or uncertain, belongs to a run *)
(* that has not ended.                                                     *)
LEMMA EndedIsSettled ==
  ASSUME SafetyInv, NEW r \in RunIds, Ended(r), NEW c \in runs[r].parts
  PROVE  /\ runs[r].res[c].status = "succeeded" <=> LandedIn(jobs, r, c)
         /\ \A j \in JobsOf(jobs, r, c, "deploy") : ~Unsettled(j)
<1>1. ResultInv(jobs, r, runs[r], c)
  BY DEF SafetyInv, StoreInv, RunInv, Ended, Exists
<1>2. runs[r].status \in EndedStatus /\ ~Live(runs[r])
  BY DEF Ended, EndedStatus, Live
<1>3. LandedIn(jobs, r, c) => \A j \in JobsOf(jobs, r, c, "deploy") : j.status = "succeeded"
  BY DEF LandedIn, JobsOf, SafetyInv, IInv, JobsOK, SameKey
<1>4. CASE runs[r].res[c].status = "succeeded"
  BY <1>1, <1>3, <1>4 DEF ResultInv, Unsettled
<1>5. CASE runs[r].res[c].status \in {"failed", "blocked"}
  BY <1>1, <1>2, <1>5 DEF ResultInv, Unsettled, LandedIn, EndedStatus
<1> QED
  BY <1>1, <1>2, <1>4, <1>5 DEF ResultInv

(* The status an ended run gives its components is what their activations  *)
(* reported, and none of them is left uncertain, whatever falls together:  *)
(* report, expiry, stop (advance, component-deployments.ts:586-610).       *)
THEOREM OutcomeIsTruthful == Spec => []TruthfulOutcome
<1>1. SafetyInv => TruthfulOutcome
  <2> SUFFICES ASSUME SafetyInv, NEW r \in RunIds, Ended(r), NEW c \in runs[r].parts
               PROVE  /\ runs[r].res[c].status = "succeeded" <=> \E j \in Landed(c) : j.run = r
                      /\ \A j \in JobsOf(jobs, r, c, "deploy") : ~Unsettled(j)
    BY DEF TruthfulOutcome
  <2>1. LandedIn(jobs, r, c) <=> \E j \in Landed(c) : j.run = r
    BY DEF LandedIn, Landed, JobsOf
  <2> QED
    BY <2>1, EndedIsSettled
<1> QED
  BY <1>1, SafetyInvariant, PTL

(* Two activations of a component that are claimed or uncertain are one.   *)
LEMMA OneUnsettled ==
  ASSUME SafetyInv, NEW j \in jobs, NEW k \in jobs, j.kind = "deploy", k.kind = "deploy",
         j.comp = k.comp, Unsettled(j), Unsettled(k)
  PROVE  j = k
<1>1. ASSUME NEW i \in jobs, i.kind = "deploy", Unsettled(i)
      PROVE  i.run \in RunIds /\ runs[i.run].status \notin EndedStatus \cup {"absent"}
  <2>1. i.run \in RunIds /\ runs[i.run].status # "absent"
    BY DEF SafetyInv, StoreInv, IInv, JobsOK, Job
  <2>2. i.comp \in runs[i.run].parts
    BY <2>1 DEF SafetyInv, StoreInv, RunInv, OrderInv
  <2>3. i \in JobsOf(jobs, i.run, i.comp, "deploy")
    BY <1>1 DEF JobsOf
  <2> QED
    BY <1>1, <2>1, <2>2, <2>3, EndedIsSettled DEF Ended, Exists, EndedStatus
<1>2. ~(j.run < k.run) /\ ~(k.run < j.run)
  BY <1>1 DEF SafetyInv, StoreInv, SerialRuns
<1>3. j.run = k.run
  BY <1>1, <1>2 DEF RunIds
<1> QED
  BY <1>3 DEF SafetyInv, IInv, JobsOK, SameKey

(* No two claimed or uncertain activations concern one component: their    *)
(* runs have not ended, only the last run has not, and it asks once        *)
(* (component-deployments.ts:403 and 664).                                 *)
THEOREM OneWriter == Spec => []OneWriterPerTarget
<1>1. SafetyInv => OneWriterPerTarget
  BY OneUnsettled DEF OneWriterPerTarget
<1> QED
  BY <1>1, SafetyInvariant, PTL

(* No build and no activation of a component is asked for before each      *)
(* dependency was activated, in whatever order the records are written or  *)
(* lost (advance, component-deployments.ts:617-660).                       *)
THEOREM DependenciesAreFirst == Spec => []DependenciesFirst
<1>1. SafetyInv => DependenciesFirst
  <2> SUFFICES ASSUME SafetyInv, NEW j \in jobs, NEW d \in runs[j.run].config.deps[j.comp]
               PROVE  \E k \in Landed(d) :
                        IF d \in runs[j.run].parts THEN k.run = j.run ELSE k.run < j.run
    BY DEF DependenciesFirst
  <2>1. j.run \in RunIds /\ runs[j.run].status # "absent"
    BY DEF SafetyInv, StoreInv, IInv, JobsOK, Job
  <2>2. OrderInv(jobs, j.run, runs[j.run]) /\ OutsideInv(jobs, j.run, runs[j.run])
    BY <2>1 DEF SafetyInv, StoreInv, RunInv
  <2>3. \A q : LandedIn(jobs, q, d) => \E k \in Landed(d) : k.run = q
    BY DEF LandedIn, Landed, JobsOf
  <2>4. CASE d \in runs[j.run].parts
    BY <2>2, <2>3, <2>4 DEF OrderInv
  <2>5. CASE d \notin runs[j.run].parts
    BY <2>2, <2>3, <2>5 DEF OrderInv, OutsideInv
  <2> QED
    BY <2>4, <2>5
<1> QED
  BY <1>1, SafetyInvariant, PTL

--------------------------------------------------------------------------------
(***************************************************************************)
(* What a step does to a run that is not live, and to its jobs.            *)
(***************************************************************************)

(* advance() touches neither its record nor its jobs.                      *)
LEMMA AdvanceIsQuiet ==
  ASSUME NEW R, Stored(R), NEW J, JobsOK(J), NEW S \in SUBSET RunIds, NEW accepted \in BOOLEAN,
         NEW r \in RunIds, ~Live(R[r])
  PROVE  /\ AdvancedRuns(S, J, R, accepted)[r] = R[r]
         /\ \A j \in AdvancedJobs(S, J, R, accepted) : j.run = r => j \in J
<1>1. Advanced(J, r, R[r], accepted) = R[r]
  BY DEF Advanced
<1>2. AdvancedRuns(S, J, R, accepted)[r] = R[r]
  BY <1>1 DEF AdvancedRuns
<1>3. ASSUME NEW j \in AdvancedJobs(S, J, R, accepted), j.run = r
      PROVE  j \in J
  <2>1. SUFFICES ASSUME NEW q \in S, j \in NewJobs(J, R, q, accepted)
                 PROVE  FALSE
    BY <1>3 DEF AdvancedJobs
  <2>2. q = r
    BY <1>3, <2>1, NewJobsOK DEF JobsOK
  <2> QED
    BY <2>1, <2>2, NewJobsFor
<1> QED
  BY <1>2, <1>3

(* The only job records of such a run that a step writes are those of jobs *)
(* a worker had claimed; its own record changes only by the resolution.    *)
QuietStep(r) ==
  /\ runs'[r] = runs[r]
  /\ \A j \in jobs' \ jobs : j.run = r => \E k \in jobs : SameKey(k, j) /\ Unsettled(k)
Resolution(r) ==
  /\ ~runs[r].resolved /\ Closable(r)
  /\ runs'[r].resolved /\ runs'[r].status = "failed"
  /\ \A j \in jobs' : j.run = r => j.kind = "build"

(* The steps of members are such steps.                                    *)
LEMMA MemberStepQuiet ==
  ASSUME SafetyInv, NEW r \in RunIds, Exists(r), ~Live(runs[r]), MemberStep
  PROVE  QuietStep(r) \/ Resolution(r)
<1>1. PICK u \in Users :
        \/ \E cfg \in Configs : SaveProfile(u, cfg)
        \/ \E op \in Operations, scope \in Components \cup {None}, q \in RunIds :
             Request(u, op, scope, q) \/ RequestCrash(u, op, scope, q)
        \/ \E q \in RunIds : CloseInterruptedBuild(u, q) \/ CloseCrash(u, q)
        \/ ChangeAccess(u)
  BY DEF MemberStep
<1> USE DEF SafetyInv
<1>2. CASE \/ \E cfg \in Configs : SaveProfile(u, cfg)
           \/ ChangeAccess(u)
  BY <1>2 DEF SaveProfile, ChangeAccess, QuietStep
<1>3. ASSUME NEW op \in Operations, NEW scope \in Components \cup {None}, NEW q \in RunIds,
             Request(u, op, scope, q)
      PROVE  QuietStep(r)
  <2>1. PICK parts \in SUBSET Components, accepted \in BOOLEAN :
          /\ NextRun(q) /\ CanRequest(u, op, scope, parts)
          /\ AdvanceRuns({q}, jobs, [runs EXCEPT ![q] = FreshRun(u, op, parts)], accepted)
    BY <1>3 DEF Request
  <2> DEFINE N == [runs EXCEPT ![q] = FreshRun(u, op, parts)]
  <2>2. Stored(N)
    BY <2>1, RequestedOK
  <2>3. N[r] = runs[r]
    BY <2>1 DEF NextRun, IInv, Stored
  <2> HIDE DEF N
  <2>4. runs' = AdvancedRuns({q}, jobs, N, accepted) /\ jobs' = AdvancedJobs({q}, jobs, N, accepted)
    BY <2>1 DEF AdvanceRuns, N
  <2>5. ~Live(N[r])
    BY <2>3
  <2>6. runs'[r] = N[r] /\ \A j \in jobs' : j.run = r => j \in jobs
    BY <2>2, <2>4, <2>5, AdvanceIsQuiet DEF IInv
  <2> QED
    BY <2>3, <2>6 DEF QuietStep
<1>4. ASSUME NEW op \in Operations, NEW scope \in Components \cup {None}, NEW q \in RunIds,
             RequestCrash(u, op, scope, q)
      PROVE  QuietStep(r)
  BY <1>4 DEF RequestCrash, NextRun, QuietStep, IInv, Stored
<1>5. ASSUME NEW q \in RunIds, CloseInterruptedBuild(u, q) \/ CloseCrash(u, q)
      PROVE  QuietStep(r) \/ Resolution(r)
  <2>1. Exists(q) /\ (runs[q].resolved \/ Closable(q)) /\ Resolve(q)
    BY <1>5 DEF CloseInterruptedBuild, CloseCrash, MayClose
  <2>2. PICK D \in SUBSET Claims(q) : jobs' = JobsClosed(D)
    BY <1>5 DEF CloseInterruptedBuild, CloseCrash
  <2>3. /\ \A j \in D : j \in jobs /\ Unsettled(j) /\ SameKey(ClosedJob(j), j)
        /\ jobs' = (jobs \ D) \cup {ClosedJob(j) : j \in D}
    BY <2>2 DEF Claims, JobsClosed, ClosedJob, Unsettled, SameKey, IInv, JobsOK, Job
  <2>4. \A j \in jobs' \ jobs : \E k \in jobs : SameKey(k, j) /\ Unsettled(k)
    BY <2>3 DEF SameKey
  <2>5. CASE runs[q].resolved \/ q # r
    <3>1. runs'[r] = runs[r]
      BY <2>1, <2>5 DEF Resolve, IInv, Stored
    <3> QED
      BY <2>4, <3>1 DEF QuietStep
  <2>6. CASE ~runs[q].resolved /\ q = r
    <3>1. runs'[r] = [FailAll(runs[r]) EXCEPT !.resolved = TRUE]
      BY <2>1, <2>6 DEF Resolve, IInv, Stored
    <3>2. runs[r] \in Run
      BY RunHasStatus DEF IInv, Stored, Exists
    <3>3. runs'[r].resolved /\ runs'[r].status = "failed"
      BY <3>1, <3>2 DEF FailAll, Run
    <3>4. \A j \in jobs : j.run = r => j.kind = "build"
      BY <2>1, <2>6 DEF Closable
    <3>5. \A j \in jobs' : j.run = r => j.kind = "build"
      BY <2>3, <3>4 DEF SameKey
    <3> QED
      BY <2>1, <2>6, <3>3, <3>5 DEF Resolution
  <2> QED
    BY <2>5, <2>6
<1> QED
  BY <1>1, <1>2, <1>3, <1>4, <1>5

(* So are those of executors.                                              *)
LEMMA ExecutorStepQuiet ==
  ASSUME SafetyInv, NEW r \in RunIds, Exists(r), ~Live(runs[r]), ExecutorStep
  PROVE  QuietStep(r)
<1> USE DEF SafetyInv
<1>1. CASE Poll
  BY <1>1, AdvanceIsQuiet DEF Poll, AdvanceRuns, IInv, QuietStep
<1>2. ASSUME NEW q \in RunIds, AdvanceCrash(q)
      PROVE  QuietStep(r)
  <2>1. PICK D \in SUBSET NewJobs(jobs, runs, q, TRUE) : jobs' = jobs \cup D /\ runs' = runs
    BY <1>2 DEF AdvanceCrash
  <2>2. jobs' \subseteq AdvancedJobs({q}, jobs, runs, TRUE)
    BY <2>1 DEF AdvancedJobs
  <2> QED
    BY <2>1, <2>2, AdvanceIsQuiet DEF IInv, QuietStep
<1>3. CASE Claim
  <2>0. PICK accepted \in BOOLEAN :
          \E j \in AdvancedJobs(RunIds, jobs, runs, accepted) : ClaimJob(j, accepted)
    BY <1>3 DEF Claim
  <2>1. PICK j \in AdvancedJobs(RunIds, jobs, runs, accepted) : ClaimJob(j, accepted)
    BY <2>0
  <2> DEFINE J == AdvancedJobs(RunIds, jobs, runs, accepted)
             R == AdvancedRuns(RunIds, jobs, runs, accepted)
             k == [j EXCEPT !.status = "working"]
  <2>2. j \in J /\ MayClaim(j, R) /\ runs' = R /\ jobs' = (J \ {j}) \cup {k}
    BY <2>1 DEF ClaimJob
  <2>3. JobsOK(J)
    BY AdvancedJobsOK DEF AdvancedJobs, IInv
  <2>4. k.run = j.run
    BY <2>2, <2>3 DEF JobsOK, Job
  <2>5. R[r] = runs[r] /\ \A i \in J : i.run = r => i \in jobs
    BY AdvanceIsQuiet DEF IInv
  <2>6. j.run # r
    BY <2>2, <2>5 DEF MayClaim, Live
  <2> HIDE DEF J, R, k
  <2> QED
    BY <2>2, <2>4, <2>5, <2>6 DEF QuietStep
<1>4. ASSUME NEW j \in jobs, NEW a \in Artifacts, Upload(j, a)
      PROVE  QuietStep(r)
  <2>1. SameKey(j, [j EXCEPT !.output = a]) /\ Unsettled(j)
    BY <1>4 DEF Upload, SameKey, Unsettled, IInv, JobsOK, Job
  <2> QED
    BY <1>4, <2>1 DEF Upload, QuietStep
<1>5. ASSUME NEW j \in jobs, NEW status \in Outcomes, NEW code \in Codes(status), NEW d,
             Complete(j, status, d, code) \/ CompleteCrash(j, status, d, code)
      PROVE  QuietStep(r)
  <2> DEFINE k == [j EXCEPT !.status = status, !.code = code]
             J == Completed(j, status, code)
  <2>1. Unsettled(j) /\ J = (jobs \ {j}) \cup {k}
    BY <1>5 DEF Complete, CompleteCrash, MayComplete, Completed, Unsettled
  <2>2. j \in Job /\ status \in JobStatus /\ code \in ErrorCodes
    BY DEF IInv, JobsOK, Outcomes, Codes, JobStatus, ErrorCodes
  <2>3. k \in Job /\ SameKey(k, j) /\ SameKey(j, k)
    BY <2>2 DEF Job, SameKey
  <2> HIDE DEF k, J
  <2>4. JobsOK(J)
    BY <2>1, <2>3, ReplacedJobOK DEF IInv
  <2>5. CASE CompleteCrash(j, status, d, code)
    BY <2>1, <2>3, <2>5 DEF CompleteCrash, J, QuietStep
  <2>6. CASE Complete(j, status, d, code)
    <3>1. PICK accepted \in BOOLEAN : AdvanceRuns({j.run}, J, runs, accepted)
      BY <2>6 DEF Complete, J
    <3>2. {j.run} \in SUBSET RunIds
      BY <2>2 DEF Job
    <3>3. /\ runs' = AdvancedRuns({j.run}, J, runs, accepted)
          /\ jobs' = AdvancedJobs({j.run}, J, runs, accepted)
      BY <3>1 DEF AdvanceRuns
    <3>4. /\ AdvancedRuns({j.run}, J, runs, accepted)[r] = runs[r]
          /\ \A i \in AdvancedJobs({j.run}, J, runs, accepted) : i.run = r => i \in J
      <4>1. Stored(runs)
        BY DEF IInv
      <4> QED
        BY <2>4, <3>2, <4>1, AdvanceIsQuiet
    <3> QED
      BY <2>1, <2>3, <3>3, <3>4 DEF QuietStep
  <2> QED
    BY <1>5, <2>5, <2>6
<1> QED
  BY <1>1, <1>2, <1>3, <1>4, <1>5 DEF ExecutorStep

(* Whatever the step.                                                      *)
LEMMA NotLiveStep ==
  ASSUME SafetyInv, NEW r \in RunIds, Exists(r), ~Live(runs[r]), [Next]_vars
  PROVE  QuietStep(r) \/ Resolution(r)
<1>1. CASE ConnectorStep \/ PassDeadline \/ UNCHANGED vars
  BY <1>1 DEF ConnectorStep, PublishSource, FailSource, PassDeadline, vars, QuietStep
<1> QED
  BY <1>1, MemberStepQuiet, ExecutorStepQuiet DEF Next

(* An ended run's record is final, and nothing more is created, handed out *)
(* or activated for it (advance returns early, claim asks for "running").  *)
THEOREM EndedRunsAreFinal == Spec => EndedIsFinal
<1>1. ASSUME SafetyInv, [Next]_vars, NEW r \in RunIds, Ended(r)
      PROVE  /\ runs'[r] = runs[r]
             /\ \A j \in jobs' \ jobs : j.run = r =>
                  \E k \in JobsOf(jobs, r, j.comp, "build") : j.kind = "build" /\ Unsettled(k)
  <2>1. Exists(r) /\ ~Live(runs[r]) /\ ~Resolution(r)
    BY <1>1 DEF Ended, Live, Resolution, Closable
  <2>2. QuietStep(r)
    BY <1>1, <2>1, NotLiveStep
  <2>3. ASSUME NEW j \in jobs' \ jobs, j.run = r
        PROVE  \E k \in JobsOf(jobs, r, j.comp, "build") : j.kind = "build" /\ Unsettled(k)
    <3>1. PICK k \in jobs : SameKey(k, j) /\ Unsettled(k)
      BY <2>2, <2>3 DEF QuietStep
    <3>2. k.run = r /\ k.comp = j.comp /\ k.kind = j.kind /\ k.kind \in Kinds
      BY <1>1, <2>3, <3>1 DEF SameKey, SafetyInv, IInv, JobsOK, Job
    <3>3. k.comp \in runs[r].parts
      BY <1>1, <2>1, <3>2 DEF SafetyInv, StoreInv, RunInv, OrderInv, Exists
    <3>4. k.kind # "deploy"
      BY <1>1, <3>1, <3>2, <3>3, EndedIsSettled DEF JobsOf
    <3> QED
      BY <3>1, <3>2, <3>4 DEF JobsOf, Kinds
  <2> QED
    BY <2>2, <2>3 DEF QuietStep
<1>2. ASSUME SafetyInv, [Next]_vars
      PROVE  [\A r \in RunIds : Ended(r) =>
                /\ runs'[r] = runs[r]
                /\ \A j \in jobs' \ jobs : j.run = r =>
                     \E k \in JobsOf(jobs, r, j.comp, "build") : j.kind = "build" /\ Unsettled(k)]_vars
  BY <1>1, <1>2
<1> QED
  BY <1>2, SafetyInvariant, PTL DEF EndedIsFinal, Spec

(* A run that needs recovery leaves that status only by the owner's        *)
(* resolution, and only if no activation was ever queued for it            *)
(* (closeInterruptedBuild, ADR 0049, ADR 0051).                            *)
THEOREM RecoveryIsOwners == Spec => RecoveryNeedsOwner
<1>1. ASSUME SafetyInv, [Next]_vars, NEW r \in RunIds, Exists(r),
             runs[r].status = "recovery-required"
      PROVE  \/ runs'[r] = runs[r]
             \/ /\ runs'[r].resolved /\ runs'[r].status = "failed"
                /\ \A j \in jobs' : j.run = r => j.kind = "build"
  BY <1>1, NotLiveStep DEF QuietStep, Resolution, Live
<1>2. ASSUME SafetyInv, [Next]_vars
      PROVE  [\A r \in RunIds : Exists(r) /\ runs[r].status = "recovery-required" =>
                \/ runs'[r] = runs[r]
                \/ /\ runs'[r].resolved /\ runs'[r].status = "failed"
                   /\ \A j \in jobs' : j.run = r => j.kind = "build"]_vars
  BY <1>1, <1>2
<1> QED
  BY <1>2, SafetyInvariant, PTL DEF RecoveryNeedsOwner, Spec

--------------------------------------------------------------------------------
(***************************************************************************)
(* What is activated, and what it replaces: ArtifactProvenance and         *)
(* ReplacesLastRelease.  A run's results refer to earlier runs (the release*)
(* that is replaced, the run that built the artifact); those have ended, so*)
(* their records no longer change, and a commit once recorded is never     *)
(* replaced.                                                               *)
(***************************************************************************)

DeployedIn(R, q, c) ==
  R[q].status # "absent" /\ c \in R[q].parts /\ R[q].res[c].status = "succeeded"

(* p is the last run before r that deployed c, or None if none did.        *)
LastBefore(R, r, c, p) ==
  IF p = None THEN \A q \in RunIds : q < r => ~DeployedIn(R, q, c)
  ELSE /\ p \in RunIds /\ p < r /\ DeployedIn(R, p, c)
       /\ \A q \in RunIds : q < r /\ DeployedIn(R, q, c) => q <= p

(* A deployment builds from its own commit; a rollback has no commit.  A   *)
(* run the owner resolved stays failed.                                    *)
HeadInv(r, run) ==
  /\ run.resolved => run.status = "failed"
  /\ run.op = "deploy" =>
       /\ run.head \in {None, r}
       /\ run.status = "running" => run.head = r
       /\ run.status = "publishing" => run.head = None
       /\ \A c \in run.parts : run.res[c].digest # None => run.head = r /\ run.res[c].rel = r
  /\ run.op = "rollback" =>
       /\ run.head = None /\ run.status # "publishing"
       /\ \A c \in run.parts : run.res[c].digest # None

(* The artifact of result x came from a finished build of the commit that  *)
(* the run it was released by names.                                       *)
Built(R, J, r, c, x) ==
  /\ R[x.rel].head # None
  /\ \E b \in J : /\ b.kind = "build" /\ b.comp = c /\ b.status = "succeeded"
                  /\ b.output = x.digest /\ b.head = R[x.rel].head /\ b.run <= r

(* A rollback's artifact is that of the release before the one replaced.   *)
Restores(R, c, x) ==
  /\ x.prev # None
  /\ LET p == R[x.prev].res[c].prev
     IN p # None /\ DeployedIn(R, p, c) /\ x.digest = R[p].res[c].digest

ResultRel(R, J, r, run, c) ==
  LET x == run.res[c]
  IN /\ x.digest # None => Built(R, J, r, c, x)
     /\ LastBefore(R, r, c, x.prev)
     /\ run.op = "rollback" => Restores(R, c, x)

JobInv(R, j) ==
  LET x == R[j.run].res[j.comp]
  IN /\ j.comp \in R[j.run].parts
     /\ j.kind = "build" => /\ R[j.run].op = "deploy" /\ j.head = j.run
                            /\ j.status = "succeeded" => j.output # None
     /\ j.kind = "deploy" => /\ x.digest # None /\ j.input = x.digest
                             /\ j.head = R[x.rel].head
     /\ j.prev = IF x.prev = None THEN None ELSE R[x.prev].res[j.comp].digest

ReleaseInv(R, J) ==
  /\ \A r \in RunIds : R[r].status # "absent" =>
       HeadInv(r, R[r]) /\ \A c \in R[r].parts : ResultRel(R, J, r, R[r], c)
  /\ \A j \in J : JobInv(R, j)

--------------------------------------------------------------------------------
(***************************************************************************)
(* What never changes when the records change from R to N.                 *)
(***************************************************************************)
RunsGrow(R, N) ==
  \A q \in RunIds : R[q].status # "absent" =>
    /\ N[q].status # "absent" /\ N[q].parts = R[q].parts /\ N[q].op = R[q].op
    /\ R[q].head # None => N[q].head = R[q].head
    /\ R[q].status \in EndedStatus => N[q] = R[q]
    /\ \A c \in R[q].parts :
         /\ N[q].res[c].prev = R[q].res[c].prev
         /\ R[q].res[c].digest # None => /\ N[q].res[c].digest = R[q].res[c].digest
                                         /\ N[q].res[c].rel = R[q].res[c].rel

(* The earlier runs a result refers to.                                    *)
LEMMA LastBeforeGrows ==
  ASSUME NEW R, NEW N, SerialRuns(R), RunsGrow(R, N),
         NEW r \in RunIds, R[r].status # "absent", NEW c, NEW p, LastBefore(R, r, c, p)
  PROVE  /\ LastBefore(N, r, c, p)
         /\ p # None => N[p] = R[p]
<1>1. \A q \in RunIds : q < r => N[q] = R[q]
  BY DEF SerialRuns, RunsGrow, EndedStatus
<1> QED
  BY <1>1 DEF LastBefore, DeployedIn

(* What is known of a job stays true.                                      *)
LEMMA JobInvGrows ==
  ASSUME NEW R, Stored(R), NEW N, SerialRuns(R), RunsGrow(R, N), NEW j \in Job,
         NEW J, ReleaseInv(R, J), R[j.run].status # "absent", JobInv(R, j)
  PROVE  JobInv(N, j)
<1> DEFINE r == j.run
           c == j.comp
           x == R[r].res[c]
           y == N[r].res[c]
<1>1. r \in RunIds /\ c \in R[r].parts /\ c \in Components
  BY DEF Job, JobInv
<1>2. N[r].parts = R[r].parts /\ N[r].op = R[r].op /\ y.prev = x.prev
  BY <1>1 DEF RunsGrow
<1>3. ResultRel(R, J, r, R[r], c)
  BY <1>1 DEF ReleaseInv
<1>4. x.prev # None => N[x.prev] = R[x.prev]
  BY <1>1, <1>3, LastBeforeGrows DEF ResultRel
<1>5. ASSUME j.kind = "deploy"
      PROVE  y.digest = x.digest /\ x.digest # None /\ N[y.rel].head = R[x.rel].head
  <2>1. x.digest # None /\ R[x.rel].head # None
    BY <1>3, <1>5 DEF JobInv, ResultRel, Built
  <2>2. y.digest = x.digest /\ y.rel = x.rel
    BY <1>1, <2>1 DEF RunsGrow
  <2>3. R[r] \in Run /\ RefOK(R, R[r])
    BY <1>1, RunHasStatus DEF Stored
  <2>4. x.rel \in RunIds /\ R[x.rel].status # "absent"
    BY <1>1, <2>1, <2>3 DEF RefOK, Run, Result
  <2> QED
    BY <2>1, <2>2, <2>4 DEF RunsGrow
<1> QED
  BY <1>1, <1>2, <1>4, <1>5 DEF JobInv

(* So does what is known of a result, but for a new artifact.              *)
LEMMA ResultRelGrows ==
  ASSUME NEW R, Stored(R), NEW N, SerialRuns(R), RunsGrow(R, N), NEW J, NEW K,
         ReleaseInv(R, J), \A j \in J : j.status = "succeeded" => j \in K,
         NEW r \in RunIds, R[r].status # "absent", NEW c \in R[r].parts,
         R[r].res[c].digest = None /\ N[r].res[c].digest # None => Built(N, K, r, c, N[r].res[c])
  PROVE  ResultRel(N, K, r, N[r], c)
<1> DEFINE x == R[r].res[c]
           y == N[r].res[c]
<1>1. ResultRel(R, J, r, R[r], c) /\ c \in N[r].parts /\ y.prev = x.prev /\ N[r].op = R[r].op
  BY DEF ReleaseInv, RunsGrow
<1>2. R[r] \in Run /\ RefOK(R, R[r])
  BY RunHasStatus DEF Stored
<1>3. LastBefore(N, r, c, y.prev) /\ (x.prev # None => N[x.prev] = R[x.prev])
  BY <1>1, LastBeforeGrows DEF ResultRel
<1>4. ASSUME x.digest # None
      PROVE  Built(N, K, r, c, y)
  <2>1. y.digest = x.digest /\ y.rel = x.rel
    BY <1>4 DEF RunsGrow
  <2>2. x.rel \in RunIds /\ R[x.rel].status # "absent"
    BY <1>2, <1>4 DEF RefOK, Run, Result
  <2>3. Built(R, J, r, c, x)
    BY <1>1, <1>4 DEF ResultRel
  <2>4. N[x.rel].head = R[x.rel].head
    BY <2>2, <2>3 DEF RunsGrow, Built
  <2> QED
    BY <2>1, <2>3, <2>4 DEF Built
<1>5. ASSUME N[r].op = "rollback"
      PROVE  Restores(N, c, y)
  <2> DEFINE p == R[x.prev].res[c].prev
  <2>1. Restores(R, c, x)
    BY <1>1, <1>5 DEF ResultRel
  <2>2. x.prev \in RunIds /\ x.prev < r /\ DeployedIn(R, x.prev, c)
    BY <1>1, <2>1 DEF ResultRel, LastBefore, Restores
  <2>3. LastBefore(R, x.prev, c, p)
    BY <2>2 DEF DeployedIn, ReleaseInv, ResultRel
  <2>4. N[p] = R[p]
    <3>1. R[x.prev].status # "absent" /\ p # None
      BY <2>1, <2>2 DEF DeployedIn, Restores
    <3> HIDE DEF p, x
    <3> QED
      BY <2>2, <2>3, <3>1, LastBeforeGrows
  <2>5. x.digest # None
    BY <1>1, <1>5 DEF ReleaseInv, HeadInv
  <2>6. y.digest = x.digest
    BY <2>5 DEF RunsGrow
  <2> QED
    BY <1>1, <1>3, <2>1, <2>4, <2>6 DEF Restores, DeployedIn
<1> QED
  BY <1>1, <1>3, <1>4, <1>5 DEF ResultRel

(* A set of runs of which some have a property has a last one.             *)
LEMMA LastOfRuns ==
  ASSUME NEW T \in SUBSET RunIds, T # {}
  PROVE  \E r \in T : \A q \in T : q <= r
<1> DEFINE S == {MaxRuns - r : r \in T}
<1>1. S \subseteq Nat /\ S # {}
  BY BoundsAssumption DEF RunIds
<1>2. PICK x \in S : \A y \in S : ~(<<y, x>> \in OpToRel(<, Nat))
  BY <1>1, WFMin, NatLessThanWellFounded
<1>3. \A y \in S : ~(y < x)
  BY <1>1, <1>2 DEF OpToRel
<1>4. PICK r \in T : x = MaxRuns - r
  OBVIOUS
<1>5. ASSUME NEW q \in T
      PROVE  q <= r
  <2>1. ~(MaxRuns - q < MaxRuns - r)
    BY <1>3, <1>4
  <2> QED
    BY <1>4, <2>1, BoundsAssumption DEF RunIds
<1> QED
  BY <1>5

--------------------------------------------------------------------------------
(***************************************************************************)
(* advance(), for one run.                                                 *)
(***************************************************************************)

(* A new artifact of a pass is the output of the run's finished build.     *)
LEMMA NewDigest ==
  ASSUME NEW J, NEW r \in RunIds, NEW run \in Run, NEW c \in Components,
         run.res[c].digest = None, PassResult(J, r, run, c).digest # None
  PROVE  \E b \in J : /\ b.kind = "build" /\ b.comp = c /\ b.status = "succeeded"
                      /\ b.output = PassResult(J, r, run, c).digest /\ b.run = r
<1> DEFINE x == run.res[c]
           mine == JobsOf(J, r, c, "build")
           b == CHOOSE j \in mine : TRUE
<1>1. x \in Result /\ Phase(x) = "build"
  BY DEF Run, Phase
<1>2. \A s : [x EXCEPT !.status = s].digest = None
  BY <1>1 DEF Result
<1>3. PassResult(J, r, run, c) = Settled(J, r, run, c)
  BY <1>2 DEF PassResult
<1>4. mine # {} /\ b.status = "succeeded" /\ Settled(J, r, run, c).digest = b.output
  BY <1>1, <1>2, <1>3 DEF Settled, Result
<1>5. b \in mine
  BY <1>4
<1> QED
  BY <1>3, <1>4, <1>5 DEF JobsOf

(* How one run changes when it is advanced.                                *)
RunGrows(J, r, run, next) ==
  /\ next.parts = run.parts /\ next.op = run.op
  /\ run.head # None => next.head = run.head
  /\ \A c \in run.parts :
       /\ next.res[c].prev = run.res[c].prev
       /\ run.res[c].digest # None => /\ next.res[c].digest = run.res[c].digest
                                      /\ next.res[c].rel = run.res[c].rel
       /\ run.res[c].digest = None /\ next.res[c].digest # None =>
            /\ next.op = "deploy" /\ next.head = r /\ next.res[c].rel = r
            /\ \E b \in J : /\ b.kind = "build" /\ b.comp = c /\ b.status = "succeeded"
                            /\ b.output = next.res[c].digest /\ b.run = r

(* A failed publication changes statuses only.                             *)
LEMMA FailAllGrows ==
  ASSUME NEW J, NEW r, NEW run \in Run, HeadInv(r, run)
  PROVE  RunGrows(J, r, run, FailAll(run)) /\ HeadInv(r, FailAll(run))
<1> DEFINE next == FailAll(run)
<1>1. /\ next.parts = run.parts /\ next.op = run.op /\ next.head = run.head
      /\ next.status = "failed" /\ run.parts \subseteq Components
  BY DEF FailAll, Run
<1>2. ASSUME NEW c \in run.parts
      PROVE  /\ next.res[c].prev = run.res[c].prev /\ next.res[c].digest = run.res[c].digest
             /\ next.res[c].rel = run.res[c].rel
  <2>1. run.res[c] \in Result /\ next.res[c] = [run.res[c] EXCEPT !.status = "failed"]
    BY DEF FailAll, Run
  <2> QED
    BY <2>1 DEF Result
<1> HIDE DEF next
<1> QED
  BY <1>1, <1>2 DEF RunGrows, HeadInv, next

(* The publication step records the run's commit, or fails the run.        *)
LEMMA PublishGrows ==
  ASSUME NEW J, NEW r \in RunIds, NEW run \in Run, NEW accepted \in BOOLEAN, HeadInv(r, run)
  PROVE  LET run1 == Publish(r, run, accepted)
         IN RunGrows(J, r, run, run1) /\ HeadInv(r, run1)
<1> DEFINE next == [run EXCEPT !.head = r, !.status = "running"]
<1>1. /\ next.parts = run.parts /\ next.op = run.op /\ next.res = run.res
      /\ next.head = r /\ next.status = "running" /\ run.op \in Operations
      /\ next.resolved = run.resolved /\ run.resolved \in BOOLEAN
  BY DEF Run
<1>2. CASE Publish(r, run, accepted) = run
  BY <1>2 DEF RunGrows
<1>3. CASE Publish(r, run, accepted) = FailAll(run)
  BY <1>3, FailAllGrows
<1>4. CASE run.status = "publishing" /\ Publish(r, run, accepted) = next
  <2> HIDE DEF next
  <2>1. run.op = "deploy" /\ run.head = None /\ r # None
    BY <1>1, <1>4, NoneAssumption DEF HeadInv, Operations, RunIds
  <2>2. \A c \in run.parts : run.res[c].digest = None
    BY <2>1 DEF HeadInv, RunIds
  <2> QED
    BY <1>1, <1>4, <2>1, <2>2 DEF RunGrows, HeadInv
<1> QED
  BY <1>2, <1>3, <1>4 DEF Publish

(* A pass keeps the commit and adds artifacts of its own builds only.      *)
LEMMA PassGrows ==
  ASSUME NEW J, JobsOK(J), NEW r \in RunIds, NEW run \in Run, run.status = "running",
         HeadInv(r, run)
  PROVE  RunGrows(J, r, run, Pass(J, r, run)) /\ HeadInv(r, Pass(J, r, run))
<1> DEFINE next == Pass(J, r, run)
<1>1. /\ next.parts = run.parts /\ next.op = run.op /\ next.head = run.head
      /\ next.status # "publishing" /\ run.parts \subseteq Components /\ run.op \in Operations
      /\ next.resolved = run.resolved
  BY DEF Pass, Verdict, Run
<1>2. \A c \in run.parts : next.res[c] = PassResult(J, r, run, c)
  BY DEF Pass, Run
<1> HIDE DEF next
<1>3. ASSUME NEW c \in run.parts
      PROVE  Kept(run.res[c], next.res[c], r)
  BY <1>1, <1>2, PassResultKept DEF JobsOK
<1>4. ASSUME NEW c \in run.parts, run.res[c].digest = None, next.res[c].digest # None
      PROVE  /\ run.op = "deploy" /\ next.head = r /\ next.res[c].rel = r
             /\ \E b \in J : /\ b.kind = "build" /\ b.comp = c /\ b.status = "succeeded"
                             /\ b.output = next.res[c].digest /\ b.run = r
  <2>1. run.op = "deploy" /\ run.head = r
    BY <1>1, <1>4 DEF HeadInv, Operations
  <2>2. next.res[c].rel = r
    BY <1>3, <1>4 DEF Kept
  <2> QED
    BY <1>1, <1>2, <1>4, <2>1, <2>2, NewDigest
<1>5. RunGrows(J, r, run, next)
  BY <1>1, <1>3, <1>4 DEF RunGrows, Kept
<1>6. HeadInv(r, next)
  BY <1>1, <1>3, <1>4 DEF HeadInv, Kept
<1> QED
  BY <1>5, <1>6 DEF next

(* Expiry changes statuses only.                                           *)
LEMMA ExpireGrows ==
  ASSUME NEW J, NEW r, NEW run \in Run, Live(run), HeadInv(r, run)
  PROVE  RunGrows(J, r, run, Expire(J, r, run)) /\ HeadInv(r, Expire(J, r, run))
<1> DEFINE next == Expire(J, r, run)
<1>1. /\ next.parts = run.parts /\ next.op = run.op /\ next.head = run.head
      /\ next.status \notin {"running", "publishing"} /\ run.parts \subseteq Components
      /\ next.resolved = run.resolved
  BY DEF Expire, Verdict, Run
<1>2. ASSUME NEW c \in run.parts
      PROVE  /\ next.res[c].prev = run.res[c].prev /\ next.res[c].digest = run.res[c].digest
             /\ next.res[c].rel = run.res[c].rel
  <2>1. run.res[c] \in Result /\ next.res[c] = ExpiredResult(J, r, run, c)
    BY DEF Expire, Run
  <2> QED
    BY <2>1 DEF ExpiredResult, Result
<1>3. ~run.resolved
  BY DEF HeadInv, Live
<1> HIDE DEF next
<1> QED
  BY <1>1, <1>2, <1>3 DEF RunGrows, HeadInv, next

(* A run that grows twice, the first time without a new artifact.          *)
LEMMA GrowsTwice ==
  ASSUME NEW J, NEW r, NEW run, NEW run1, NEW next,
         RunGrows(J, r, run, run1), RunGrows(J, r, run1, next),
         \A c \in run.parts : run1.res[c].digest = run.res[c].digest
  PROVE  RunGrows(J, r, run, next)
BY DEF RunGrows

(* advance() as a whole.                                                   *)
LEMMA AdvancedGrows ==
  ASSUME NEW J, JobsOK(J), NEW R, Stored(R), NEW r \in RunIds, R[r].status # "absent",
         NEW accepted \in BOOLEAN, HeadInv(r, R[r])
  PROVE  LET next == Advanced(J, r, R[r], accepted)
         IN RunGrows(J, r, R[r], next) /\ HeadInv(r, next)
<1> DEFINE run == R[r]
           run1 == Publish(r, run, accepted)
<1>1. run \in Run /\ RefOK(R, run) /\ run1 \in Run
  BY PublishOK, RunHasStatus DEF Stored
<1>2. RunGrows(J, r, run, run1) /\ HeadInv(r, run1)
  BY <1>1, PublishGrows
<1>3. \A c \in run.parts : run1.res[c].digest = run.res[c].digest
  <2>1. \A c \in run.parts : FailAll(run).res[c].digest = run.res[c].digest
    BY <1>1 DEF FailAll, Run, Result
  <2>2. [run EXCEPT !.head = r, !.status = "running"].res = run.res
    BY <1>1 DEF Run
  <2> QED
    BY <2>1, <2>2 DEF Publish
<1>4. CASE ~Live(run)
  BY <1>4 DEF Advanced, RunGrows
<1>5. CASE Live(run) /\ ~Entitled(r, run)
  BY <1>1, <1>5, ExpireGrows DEF Advanced
<1>6. CASE Live(run) /\ Entitled(r, run) /\ run1.status = "running"
  <2>1. Advanced(J, r, run, accepted) = Pass(J, r, run1)
    BY <1>6 DEF Advanced
  <2>2. RunGrows(J, r, run1, Pass(J, r, run1)) /\ HeadInv(r, Pass(J, r, run1))
    BY <1>1, <1>2, <1>6, PassGrows
  <2> HIDE DEF run1
  <2> QED
    BY <1>2, <1>3, <2>1, <2>2, GrowsTwice
<1>7. CASE Live(run) /\ Entitled(r, run) /\ run1.status # "running"
  BY <1>2, <1>7 DEF Advanced
<1> QED
  BY <1>4, <1>5, <1>6, <1>7

(* A job that is written carries its run's artifact, commit and            *)
(* predecessor.                                                            *)
LEMMA NewJobInv ==
  ASSUME NEW R, Stored(R), NEW J, JobsOK(J), ReleaseInv(R, J), NEW r \in RunIds,
         NEW accepted \in BOOLEAN, NEW j \in NewJobs(J, R, r, accepted)
  PROVE  JobInv(R, j) /\ j \in Job /\ j.run = r /\ R[r].status # "absent"
<1> DEFINE run == R[r]
           run1 == Publish(r, run, accepted)
           c == j.comp
           x == run.res[c]
<1>1. j \in Job /\ j.run = r
  BY NewJobsOK DEF JobsOK
<1>2. run.status # "absent" /\ run1.status = "running" /\ Starts(J, r, run1, c)
  BY NewJobsFor DEF Live, NewFor
<1>3. run \in Run /\ RefOK(R, run) /\ HeadInv(r, run)
  BY <1>2, RunHasStatus DEF Stored, ReleaseInv
<1>4. run1.res = run.res /\ HeadInv(r, run1) /\ RunGrows(J, r, run, run1) /\ run1 \in Run
  BY <1>2, <1>3, PublishOK, PublishGrows DEF Stored
<1>5. PICK d \in Components : j = NewJob(J, R, r, run1, d)
  BY DEF NewJobs, Starting
<1>6. d = c
  BY <1>5 DEF NewJob
<1> HIDE DEF run1
<1>7. c \in run.parts /\ run1.parts = run.parts /\ run1.op = run.op
  BY <1>2, <1>4 DEF Starts, RunGrows
<1>8. /\ j.kind = Phase(x) /\ j.status = "queued"
      /\ j.input = IF x.digest = None THEN r ELSE x.digest
      /\ j.prev = IF x.prev = None THEN None ELSE R[x.prev].res[c].digest
      /\ j.head = IF run1.head # None THEN run1.head ELSE R[x.rel].head
  BY <1>4, <1>5, <1>6 DEF NewJob
<1>9. run.op \in Operations /\ r # None
  BY <1>3, NoneAssumption DEF Run, RunIds
<1>10. CASE x.digest = None
  <2>1. run.op = "deploy"
    BY <1>3, <1>7, <1>9, <1>10 DEF HeadInv, Operations
  <2>2. run1.head = r
    BY <1>2, <1>4, <1>7, <2>1 DEF HeadInv
  <2> QED
    BY <1>1, <1>2, <1>7, <1>8, <1>9, <1>10, <2>1, <2>2 DEF JobInv, Phase
<1>11. CASE x.digest # None
  <2>1. j.head = R[x.rel].head
    <3>1. CASE run.op = "deploy"
      BY <1>2, <1>3, <1>4, <1>7, <1>8, <1>9, <1>11, <3>1 DEF HeadInv
    <3>2. CASE run.op = "rollback"
      BY <1>4, <1>7, <1>8, <3>2 DEF HeadInv
    <3> QED
      BY <1>9, <3>1, <3>2 DEF Operations
  <2> QED
    BY <1>1, <1>2, <1>7, <1>8, <1>11, <2>1 DEF JobInv, Phase
<1> QED
  BY <1>10, <1>11

(* Advancing any set of runs keeps the releases right.                     *)
LEMMA AdvanceReleaseInv ==
  ASSUME NEW R, Stored(R), NEW J, JobsOK(J), StoreInv(R, J), ReleaseInv(R, J),
         NEW S \in SUBSET RunIds, NEW accepted \in BOOLEAN
  PROVE  ReleaseInv(AdvancedRuns(S, J, R, accepted), AdvancedJobs(S, J, R, accepted))
<1> DEFINE N == AdvancedRuns(S, J, R, accepted)
           K == AdvancedJobs(S, J, R, accepted)
<1>1. \A r \in RunIds : N[r] = IF r \in S THEN Advanced(J, r, R[r], accepted) ELSE R[r]
  BY DEF AdvancedRuns
<1>2. \A r \in RunIds : R[r].status = "absent" => N[r] = R[r]
  BY <1>1, AbsentStays
<1>3. ASSUME NEW r \in RunIds, R[r].status # "absent"
      PROVE  /\ RunGrows(J, r, R[r], N[r]) /\ HeadInv(r, N[r])
             /\ N[r].status # "absent"
             /\ R[r].status \in EndedStatus => N[r] = R[r]
  <2>1. R[r] \in Run /\ RefOK(R, R[r]) /\ HeadInv(r, R[r])
    BY <1>3, RunHasStatus DEF Stored, ReleaseInv
  <2>2. Advanced(J, r, R[r], accepted).status # "absent"
    BY <1>3, <2>1, AdvancedOK, RunHasStatus DEF Stored, JobsOK
  <2>3. R[r].status \in EndedStatus => ~Live(R[r])
    BY DEF EndedStatus, Live
  <2>4. RunGrows(J, r, R[r], R[r])
    BY DEF RunGrows
  <2> QED
    BY <1>1, <1>3, <2>1, <2>2, <2>3, <2>4, AdvancedGrows, AdvancedKeeps
<1>4. \A j \in K : j \in J \/ \E r \in S : j \in NewJobs(J, R, r, accepted)
  BY DEF AdvancedJobs
<1>5. J \subseteq K
  BY DEF AdvancedJobs
<1> HIDE DEF N, K
<1>6. RunsGrow(R, N) /\ SerialRuns(R)
  BY <1>3 DEF RunsGrow, RunGrows, StoreInv
<1>7. ASSUME NEW j \in K
      PROVE  JobInv(N, j)
  <2>1. JobInv(R, j) /\ j \in Job /\ R[j.run].status # "absent"
    <3>1. CASE j \in J
      BY <3>1 DEF ReleaseInv, StoreInv, JobsOK
    <3>2. ASSUME NEW r \in S, j \in NewJobs(J, R, r, accepted)
          PROVE  JobInv(R, j) /\ j \in Job /\ R[j.run].status # "absent"
      BY <3>2, NewJobInv
    <3> QED
      BY <1>4, <3>1, <3>2
  <2> QED
    BY <1>6, <2>1, JobInvGrows
<1>8. ASSUME NEW r \in RunIds, N[r].status # "absent", NEW c \in N[r].parts
      PROVE  ResultRel(N, K, r, N[r], c)
  <2> DEFINE y == N[r].res[c]
  <2>1. R[r].status # "absent" /\ c \in R[r].parts
    BY <1>2, <1>3, <1>8 DEF RunGrows
  <2>2. ASSUME R[r].res[c].digest = None, y.digest # None
        PROVE  Built(N, K, r, c, y)
    <3>1. /\ N[r].head = r /\ y.rel = r
          /\ \E b \in J : /\ b.kind = "build" /\ b.comp = c /\ b.status = "succeeded"
                          /\ b.output = y.digest /\ b.run = r
      BY <1>3, <2>1, <2>2 DEF RunGrows
    <3>2. PICK b \in J : /\ b.kind = "build" /\ b.comp = c /\ b.status = "succeeded"
                         /\ b.output = y.digest /\ b.run = r
      BY <3>1
    <3>3. b.head = r
      BY <3>2 DEF ReleaseInv, JobInv
    <3>4. r # None /\ r <= r
      BY NoneAssumption DEF RunIds
    <3> QED
      BY <1>5, <3>1, <3>2, <3>3, <3>4 DEF Built
  <2> HIDE DEF y
  <2> QED
    BY <1>5, <1>6, <2>1, <2>2, ResultRelGrows DEF y
<1> QED
  BY <1>2, <1>3, <1>7, <1>8 DEF ReleaseInv, N, K

--------------------------------------------------------------------------------
(***************************************************************************)
(* What an operation writes before it advances the runs.                   *)
(***************************************************************************)

(* Job records that keep their key, input, commit and predecessor.         *)
SameOrder(j, k) ==
  SameKey(j, k) /\ k.input = j.input /\ k.head = j.head /\ k.prev = j.prev

(* So rewritten, the jobs keep what is known of releases.                  *)
LEMMA RewriteReleaseInv ==
  ASSUME NEW R, Stored(R), NEW J, JobsOK(J), StoreInv(R, J), ReleaseInv(R, J), NEW K,
         \A j \in J : j.status = "succeeded" => j \in K,
         \A k \in K : \E j \in J : /\ SameOrder(j, k)
                                   /\ k # j => (k.kind = "build" /\ k.status = "succeeded" => k.output # None)
  PROVE  ReleaseInv(R, K)
<1>1. ASSUME NEW k \in K
      PROVE  JobInv(R, k)
  <2>1. PICK j \in J : /\ SameOrder(j, k)
                       /\ k # j => (k.kind = "build" /\ k.status = "succeeded" => k.output # None)
    BY <1>1
  <2>2. JobInv(R, j)
    BY DEF ReleaseInv
  <2>3. CASE k = j
    BY <2>2, <2>3
  <2>4. CASE k # j
    BY <2>1, <2>2, <2>4 DEF JobInv, SameOrder, SameKey
  <2> QED
    BY <2>3, <2>4
<1>2. RunsGrow(R, R) /\ SerialRuns(R)
  BY DEF RunsGrow, StoreInv
<1>3. ASSUME NEW r \in RunIds, R[r].status # "absent", NEW c \in R[r].parts
      PROVE  ResultRel(R, K, r, R[r], c)
  BY <1>2, <1>3, ResultRelGrows
<1> QED
  BY <1>1, <1>3 DEF ReleaseInv

(* The owner's resolution.                                                 *)
LEMMA ResolvedReleaseInv ==
  ASSUME NEW R, Stored(R), NEW J, JobsOK(J), StoreInv(R, J), ReleaseInv(R, J),
         NEW r \in RunIds, R[r].status = "recovery-required"
  PROVE  ReleaseInv([R EXCEPT ![r] = [FailAll(R[r]) EXCEPT !.resolved = TRUE]], J)
<1> DEFINE run == R[r]
           next == [FailAll(run) EXCEPT !.resolved = TRUE]
           N == [R EXCEPT ![r] = next]
<1>1. run \in Run /\ HeadInv(r, run)
  BY RunHasStatus DEF Stored, ReleaseInv
<1>2. /\ next.parts = FailAll(run).parts /\ next.op = FailAll(run).op
      /\ next.head = FailAll(run).head /\ next.res = FailAll(run).res
      /\ next.status = "failed" /\ FailAll(run).status = "failed"
      /\ \A c \in run.parts : FailAll(run).res[c].digest = run.res[c].digest
  BY <1>1 DEF FailAll, Run, Result
<1>3. N[r] = next /\ \A q \in RunIds \ {r} : N[q] = R[q]
  BY DEF Stored
<1> HIDE DEF next, N
<1>4. RunGrows(J, r, run, next) /\ HeadInv(r, next)
  BY <1>1, <1>2, FailAllGrows DEF RunGrows, HeadInv
<1>5. RunsGrow(R, N) /\ SerialRuns(R)
  BY <1>2, <1>3, <1>4 DEF RunsGrow, RunGrows, StoreInv, EndedStatus
<1>6. ASSUME NEW j \in J
      PROVE  JobInv(N, j)
  BY <1>5, <1>6, JobInvGrows DEF ReleaseInv, StoreInv, JobsOK
<1>7. ASSUME NEW q \in RunIds, N[q].status # "absent", NEW c \in N[q].parts
      PROVE  ResultRel(N, J, q, N[q], c)
  <2>1. R[q].status # "absent" /\ c \in R[q].parts
    BY <1>3, <1>4, <1>7 DEF RunGrows
  <2>2. ~(R[q].res[c].digest = None /\ N[q].res[c].digest # None)
    BY <1>2, <1>3, <2>1
  <2> QED
    BY <1>5, <2>1, <2>2, ResultRelGrows
<1> QED
  BY <1>3, <1>4, <1>6, <1>7 DEF ReleaseInv, N, next

(* Current is the last run that deployed c.                                *)
LEMMA CurrentIsLast ==
  ASSUME Stored(runs), NEW c \in Components
  PROVE  /\ Current(c) = None => \A q \in RunIds : ~Deployed(q, c)
         /\ Current(c) # None => Current(c) \in RunIds /\ Latest(Current(c), c)
<1> DEFINE T == {q \in RunIds : Deployed(q, c)}
<1>1. ASSUME T # {}
      PROVE  \E r \in RunIds : Latest(r, c)
  BY <1>1, LastOfRuns DEF Latest
<1>2. None \notin RunIds
  BY NoneAssumption DEF RunIds
<1>3. (\E r \in RunIds : Latest(r, c)) => Current(c) \in RunIds /\ Latest(Current(c), c)
  BY DEF Current
<1>4. ~(\E r \in RunIds : Latest(r, c)) => Current(c) = None
  BY DEF Current
<1> QED
  BY <1>1, <1>2, <1>3, <1>4

(* What a fresh result holds.                                              *)
LEMMA FreshResultFields ==
  ASSUME NEW op, NEW c
  PROVE  LET x    == FreshResult(op, c)
             back == Previous(c)
         IN /\ x.prev = Current(c)
            /\ op # "rollback" => x.digest = None
            /\ op = "rollback" => /\ x.digest = runs[back].res[c].digest
                                  /\ x.rel = runs[back].res[c].rel
  BY DEF FreshResult

(* A requested run replaces the last release, and restores the one before. *)
LEMMA RequestReleaseInv ==
  ASSUME SafetyInv, ReleaseInv(runs, jobs),
         NEW u \in Users, NEW op \in Operations, NEW scope \in Components \cup {None},
         NEW parts \in SUBSET Components, CanRequest(u, op, scope, parts),
         NEW r \in RunIds, NextRun(r)
  PROVE  ReleaseInv([runs EXCEPT ![r] = FreshRun(u, op, parts)], jobs)
<1> DEFINE run == FreshRun(u, op, parts)
           N == [runs EXCEPT ![r] = run]
<1>1. Stored(runs) /\ JobsOK(jobs) /\ SerialRuns(runs) /\ runs[r].status = "absent"
  BY DEF SafetyInv, IInv, StoreInv, NextRun, Exists
<1>2. N[r] = run /\ \A q \in RunIds \ {r} : N[q] = runs[q]
  BY <1>1 DEF Stored
<1>3. RunsGrow(runs, N)
  BY <1>1, <1>2 DEF RunsGrow
<1>4. \A q \in RunIds : runs[q].status # "absent" => q < r
  <2> SUFFICES ASSUME NEW q \in RunIds, runs[q].status # "absent", ~(q < r)
               PROVE  FALSE
    OBVIOUS
  <2>1. r < q
    BY <1>1 DEF RunIds
  <2> QED
    BY <1>1, <2>1 DEF SerialRuns, EndedStatus
<1>5. /\ run.parts = parts /\ run.op = op /\ run.head = None /\ ~run.resolved
      /\ run.status = IF op = "deploy" THEN "publishing" ELSE "running"
      /\ \A c \in parts : run.res[c] = FreshResult(op, c)
  BY DEF FreshRun
<1>6. \A j \in jobs : j \in Job /\ j.run \in RunIds /\ runs[j.run].status # "absent"
  BY DEF SafetyInv, IInv, JobsOK, Job, StoreInv
<1> HIDE DEF run, N
<1>7. ASSUME NEW j \in jobs
      PROVE  JobInv(N, j)
  BY <1>1, <1>3, <1>6, JobInvGrows DEF ReleaseInv
<1>8. ASSUME NEW q \in RunIds, q # r, N[q].status # "absent"
      PROVE  HeadInv(q, N[q]) /\ \A c \in N[q].parts : ResultRel(N, jobs, q, N[q], c)
  <2>1. N[q] = runs[q] /\ runs[q].status # "absent" /\ HeadInv(q, runs[q])
    BY <1>2, <1>8 DEF ReleaseInv
  <2> QED
    BY <1>1, <1>3, <2>1, ResultRelGrows
<1>9. ASSUME NEW c \in parts, op = "rollback"
      PROVE  LET x == run.res[c]
             IN /\ x.digest # None /\ Built(N, jobs, r, c, x) /\ Restores(N, c, x)
  <2> DEFINE x == run.res[c]
             back == Previous(c)
             old == runs[back].res[c]
  <2>1. back # None /\ Deployed(back, c) /\ old.digest # None
    BY <1>9 DEF CanRequest, Restorable
  <2>2. Current(c) # None /\ Current(c) \in RunIds /\ Deployed(Current(c), c)
    BY <1>1, <2>1, CurrentIsLast DEF Previous, Latest
  <2>3. x.digest = old.digest /\ x.rel = old.rel /\ x.prev = Current(c)
    BY <1>5, <1>9, FreshResultFields
  <2>4. back = runs[Current(c)].res[c].prev
    BY <2>2 DEF Previous
  <2>5. back \in RunIds /\ runs[back].status # "absent" /\ c \in runs[back].parts
    BY <1>1, <2>1, PreviousExists DEF Deployed, Exists
  <2>6. Built(runs, jobs, back, c, old)
    BY <2>1, <2>5 DEF ReleaseInv, ResultRel
  <2>7. old.rel \in RunIds /\ runs[old.rel].status # "absent"
    <3>1. runs[back] \in Run /\ RefOK(runs, runs[back])
      BY <1>1, <2>5, RunHasStatus DEF Stored
    <3> QED
      BY <2>1, <3>1 DEF RefOK, Run, Result
  <2>8. N[old.rel] = runs[old.rel] /\ N[back] = runs[back] /\ N[Current(c)] = runs[Current(c)]
    BY <1>1, <1>2, <2>2, <2>5, <2>7 DEF Deployed, Exists
  <2>9. back < r
    BY <1>4, <2>5
  <2>10. \A b \in jobs : b.run <= back => b.run <= r
    BY <1>6, <2>5, <2>9 DEF RunIds
  <2>11. Built(N, jobs, r, c, x)
    BY <2>3, <2>6, <2>8, <2>10 DEF Built
  <2>12. Restores(N, c, x)
    BY <2>1, <2>2, <2>3, <2>4, <2>8 DEF Restores, Deployed, DeployedIn, Exists
  <2> QED
    BY <2>1, <2>3, <2>11, <2>12
<1>10. ASSUME NEW c \in parts
       PROVE  ResultRel(N, jobs, r, run, c)
  <2> DEFINE x == run.res[c]
  <2>1. x.prev = Current(c)
    BY <1>5, FreshResultFields
  <2>2. \A q \in RunIds : q < r => (DeployedIn(N, q, c) <=> Deployed(q, c))
    BY <1>2 DEF DeployedIn, Deployed, Exists, RunIds
  <2>3. LastBefore(N, r, c, x.prev)
    <3>1. CASE Current(c) = None
      BY <1>1, <2>1, <2>2, <3>1, CurrentIsLast DEF LastBefore
    <3>2. CASE Current(c) # None
      <4>1. Current(c) \in RunIds /\ Latest(Current(c), c)
        BY <1>1, <3>2, CurrentIsLast
      <4>2. Current(c) < r
        BY <1>4, <4>1 DEF Latest, Deployed, Exists
      <4> QED
        BY <2>1, <2>2, <3>2, <4>1, <4>2 DEF LastBefore, Latest
    <3> QED
      BY <3>1, <3>2
  <2>4. op = "deploy" => x.digest = None
    BY <1>5, FreshResultFields
  <2> QED
    BY <1>5, <1>9, <2>3, <2>4 DEF ResultRel, Operations
<1>11. HeadInv(r, run)
  <2>1. CASE op = "deploy"
    <3>1. \A c \in parts : run.res[c].digest = None
      BY <1>5, <2>1, FreshResultFields
    <3> QED
      BY <1>5, <2>1, <3>1 DEF HeadInv
  <2>2. CASE op = "rollback"
    BY <1>5, <1>9, <2>2 DEF HeadInv
  <2> QED
    BY <2>1, <2>2 DEF Operations
<1> QED
  BY <1>2, <1>5, <1>7, <1>8, <1>10, <1>11 DEF ReleaseInv, N, run

--------------------------------------------------------------------------------
(***************************************************************************)
(* The steps.                                                              *)
(***************************************************************************)

(* One job record is rewritten: claimed, uploaded to or completed.         *)
LEMMA ReplaceReleaseInv ==
  ASSUME NEW R, Stored(R), NEW J, JobsOK(J), StoreInv(R, J), ReleaseInv(R, J),
         NEW old \in J, old.status # "succeeded", NEW new, SameOrder(old, new),
         new.kind = "build" /\ new.status = "succeeded" => new.output # None
  PROVE  ReleaseInv(R, (J \ {old}) \cup {new})
<1>1. PICK K : K = (J \ {old}) \cup {new}
  OBVIOUS
<1>2. \A j \in J : j.status = "succeeded" => j \in K
  BY <1>1
<1>3. \A k \in K : \E j \in J : /\ SameOrder(j, k)
                                /\ k # j => (k.kind = "build" /\ k.status = "succeeded" => k.output # None)
  BY <1>1 DEF SameOrder, SameKey
<1>4. ReleaseInv(R, K)
  BY <1>2, <1>3, RewriteReleaseInv
<1> QED
  BY <1>1, <1>4

(* A stop within advance() leaves some of the new jobs.                    *)
LEMMA CrashReleaseInv ==
  ASSUME NEW R, Stored(R), NEW J, JobsOK(J), StoreInv(R, J), ReleaseInv(R, J),
         NEW r \in RunIds, NEW D \in SUBSET NewJobs(J, R, r, TRUE)
  PROVE  ReleaseInv(R, J \cup D)
<1> DEFINE K == J \cup D
<1>1. \A j \in K : JobInv(R, j)
  BY NewJobInv DEF ReleaseInv
<1>2. RunsGrow(R, R) /\ SerialRuns(R)
  BY DEF RunsGrow, StoreInv
<1>3. \A j \in J : j.status = "succeeded" => j \in K
  OBVIOUS
<1> HIDE DEF K
<1>4. ASSUME NEW q \in RunIds, R[q].status # "absent", NEW c \in R[q].parts
      PROVE  ResultRel(R, K, q, R[q], c)
  BY <1>2, <1>3, <1>4, ResultRelGrows
<1> QED
  BY <1>1, <1>4 DEF ReleaseInv, K

(* The inductive invariant of this module.                                 *)
FullInv == SafetyInv /\ ReleaseInv(runs, jobs)

(* Nothing is stored at first.                                             *)
LEMMA InitFullInv == Init => FullInv
<1> SUFFICES ASSUME Init PROVE ReleaseInv(runs, jobs)
  BY InitSafetyInv DEF FullInv
<1> QED
  BY DEF Init, ReleaseInv, NoRun

(* The steps of members: a profile, a request, a closure, an access.       *)
LEMMA MemberStepReleases ==
  ASSUME FullInv, MemberStep
  PROVE  ReleaseInv(runs', jobs')
<1>1. PICK u \in Users :
        \/ \E cfg \in Configs : SaveProfile(u, cfg)
        \/ \E op \in Operations, scope \in Components \cup {None}, r \in RunIds :
             Request(u, op, scope, r) \/ RequestCrash(u, op, scope, r)
        \/ \E r \in RunIds : CloseInterruptedBuild(u, r) \/ CloseCrash(u, r)
        \/ ChangeAccess(u)
  BY DEF MemberStep
<1> USE DEF FullInv
<1>2. ASSUME \/ \E cfg \in Configs : SaveProfile(u, cfg)
             \/ ChangeAccess(u)
      PROVE  ReleaseInv(runs', jobs')
  BY <1>2 DEF SaveProfile, ChangeAccess
<1>3. ASSUME NEW op \in Operations, NEW scope \in Components \cup {None}, NEW r \in RunIds,
             Request(u, op, scope, r)
      PROVE  ReleaseInv(runs', jobs')
  <2>1. PICK parts \in SUBSET Components, accepted \in BOOLEAN :
          /\ NextRun(r) /\ CanRequest(u, op, scope, parts)
          /\ AdvanceRuns({r}, jobs, [runs EXCEPT ![r] = FreshRun(u, op, parts)], accepted)
    BY <1>3 DEF Request
  <2> DEFINE N == [runs EXCEPT ![r] = FreshRun(u, op, parts)]
  <2>2. Stored(N) /\ StoreInv(N, jobs) /\ ReleaseInv(N, jobs) /\ JobsOK(jobs)
    BY <2>1, RequestedOK, RequestStoreInv, RequestReleaseInv DEF SafetyInv, IInv
  <2>3. runs' = AdvancedRuns({r}, jobs, N, accepted) /\ jobs' = AdvancedJobs({r}, jobs, N, accepted)
    BY <2>1 DEF AdvanceRuns
  <2> HIDE DEF N
  <2> QED
    BY <2>2, <2>3, AdvanceReleaseInv
<1>4. ASSUME NEW op \in Operations, NEW scope \in Components \cup {None}, NEW r \in RunIds,
             RequestCrash(u, op, scope, r)
      PROVE  ReleaseInv(runs', jobs')
  <2>1. PICK parts \in SUBSET Components :
          /\ NextRun(r) /\ CanRequest(u, op, scope, parts)
          /\ runs' = [runs EXCEPT ![r] = FreshRun(u, op, parts)]
          /\ jobs' = jobs
    BY <1>4 DEF RequestCrash
  <2> QED
    BY <2>1, RequestReleaseInv
<1>5. ASSUME NEW r \in RunIds, CloseInterruptedBuild(u, r) \/ CloseCrash(u, r)
      PROVE  ReleaseInv(runs', jobs')
  <2>1. (runs[r].resolved \/ Closable(r)) /\ Resolve(r)
    BY <1>5 DEF CloseInterruptedBuild, CloseCrash, MayClose
  <2>2. PICK D \in SUBSET Claims(r) : jobs' = JobsClosed(D)
    BY <1>5 DEF CloseInterruptedBuild, CloseCrash
  <2>3. /\ D \in SUBSET jobs /\ \A j \in D : j.status = "recovery-required"
        /\ jobs' = (jobs \ D) \cup {ClosedJob(j) : j \in D}
    BY <2>2 DEF Claims, JobsClosed, ClosedJob
  <2>4. Stored(runs) /\ JobsOK(jobs) /\ StoreInv(runs, jobs) /\ ReleaseInv(runs, jobs)
    BY DEF SafetyInv, IInv
  <2>5. \A j \in D : SameOrder(j, ClosedJob(j)) /\ ClosedJob(j).status = "failed"
    BY <2>3, <2>4 DEF JobsOK, Job, ClosedJob, SameOrder, SameKey
  <2>6. \A k \in jobs' : \E j \in jobs :
          /\ SameOrder(j, k)
          /\ k # j => (k.kind = "build" /\ k.status = "succeeded" => k.output # None)
    BY <2>3, <2>5 DEF SameOrder, SameKey
  <2>7. \A j \in jobs : j.status = "succeeded" => j \in jobs'
    BY <2>3
  <2>8. ReleaseInv(runs, jobs')
    BY <2>4, <2>6, <2>7, RewriteReleaseInv
  <2>9. CASE runs[r].resolved
    BY <2>1, <2>8, <2>9 DEF Resolve
  <2>10. CASE ~runs[r].resolved
    <3>1. runs[r].status = "recovery-required"
      BY <2>1, <2>10 DEF Closable
    <3>2. JobsOK(jobs')
      BY <2>3, <2>4, ClosedJobsOK
    <3>3. StoreInv(runs, jobs')
      BY <2>3, <2>4, ClosedStoreInv DEF SafetyInv
    <3> QED
      BY <2>1, <2>4, <2>8, <2>10, <3>1, <3>2, <3>3, ResolvedReleaseInv DEF Resolve
  <2> QED
    BY <2>9, <2>10
<1> QED
  BY <1>1, <1>2, <1>3, <1>4, <1>5

(* The steps of executors: a poll, a claim, an upload, a receipt.          *)
LEMMA ExecutorStepReleases ==
  ASSUME FullInv, ExecutorStep
  PROVE  ReleaseInv(runs', jobs')
<1>0. Stored(runs) /\ JobsOK(jobs) /\ StoreInv(runs, jobs) /\ ReleaseInv(runs, jobs)
  BY DEF FullInv, SafetyInv, IInv
<1>1. ASSUME Poll
      PROVE  ReleaseInv(runs', jobs')
  <2>1. PICK accepted \in BOOLEAN :
          /\ runs' = AdvancedRuns(RunIds, jobs, runs, accepted)
          /\ jobs' = AdvancedJobs(RunIds, jobs, runs, accepted)
    BY <1>1 DEF Poll, AdvanceRuns
  <2> QED
    BY <1>0, <2>1, AdvanceReleaseInv
<1>2. ASSUME NEW r \in RunIds, AdvanceCrash(r)
      PROVE  ReleaseInv(runs', jobs')
  <2>1. PICK D \in SUBSET NewJobs(jobs, runs, r, TRUE) : jobs' = jobs \cup D /\ runs' = runs
    BY <1>2 DEF AdvanceCrash
  <2> QED
    BY <1>0, <2>1, CrashReleaseInv
<1>3. ASSUME Claim
      PROVE  ReleaseInv(runs', jobs')
  <2>0. PICK accepted \in BOOLEAN :
          \E j \in AdvancedJobs(RunIds, jobs, runs, accepted) : ClaimJob(j, accepted)
    BY <1>3 DEF Claim
  <2>1. PICK j \in AdvancedJobs(RunIds, jobs, runs, accepted) : ClaimJob(j, accepted)
    BY <2>0
  <2> DEFINE J == AdvancedJobs(RunIds, jobs, runs, accepted)
             R == AdvancedRuns(RunIds, jobs, runs, accepted)
             k == [j EXCEPT !.status = "working"]
  <2>2. /\ j \in J /\ j.status = "queued" /\ runs' = R /\ jobs' = (J \ {j}) \cup {k}
    BY <2>1 DEF ClaimJob, MayClaim
  <2>3. JobsOK(J)
    BY <1>0, AdvancedJobsOK DEF AdvancedJobs
  <2>4. StoreInv(R, J)
    BY <1>0, AdvanceStoreInv DEF FullInv, SafetyInv
  <2>5. ReleaseInv(R, J)
    BY <1>0, AdvanceReleaseInv
  <2>6. Stored(R)
    BY <1>0, AdvancedRunsOK DEF JobsOK
  <2>7. SameOrder(j, k) /\ k.status = "working"
    BY <2>2, <2>3 DEF JobsOK, Job, SameOrder, SameKey
  <2> HIDE DEF J, R, k
  <2>8. ReleaseInv(R, (J \ {j}) \cup {k})
    BY <2>2, <2>3, <2>4, <2>5, <2>6, <2>7, ReplaceReleaseInv
  <2> QED
    BY <2>2, <2>8
<1>4. ASSUME NEW j \in jobs, NEW a \in Artifacts, Upload(j, a)
      PROVE  ReleaseInv(runs', jobs')
  <2> DEFINE k == [j EXCEPT !.output = a]
  <2>1. jobs' = (jobs \ {j}) \cup {k} /\ runs' = runs /\ j.status = "working"
    BY <1>4 DEF Upload
  <2>2. SameOrder(j, k) /\ k.status = "working"
    BY <1>0, <2>1 DEF JobsOK, Job, SameOrder, SameKey
  <2> HIDE DEF k
  <2>3. ReleaseInv(runs, (jobs \ {j}) \cup {k})
    BY <1>0, <2>1, <2>2, ReplaceReleaseInv
  <2> QED
    BY <2>1, <2>3
<1>5. ASSUME NEW j \in jobs, NEW status \in Outcomes, NEW code \in Codes(status), NEW d,
             Complete(j, status, d, code) \/ CompleteCrash(j, status, d, code)
      PROVE  ReleaseInv(runs', jobs')
  <2> DEFINE k == [j EXCEPT !.status = status, !.code = code]
             J == Completed(j, status, code)
  <2>1. /\ j.status = "working" /\ J = (jobs \ {j}) \cup {k}
        /\ ~(j.kind = "build" /\ status = "succeeded" /\ j.output = None)
    BY <1>5 DEF Complete, CompleteCrash, MayComplete, Completed
  <2>2. j \in Job /\ status \in JobStatus /\ code \in ErrorCodes
    BY <1>0 DEF JobsOK, Outcomes, Codes, JobStatus, ErrorCodes
  <2>3. k \in Job /\ SameOrder(j, k) /\ SameKey(k, j) /\ k.status = status /\ k.output = j.output
    BY <2>2 DEF Job, SameOrder, SameKey
  <2> HIDE DEF k, J
  <2>4. k.kind = "build" /\ k.status = "succeeded" => k.output # None
    BY <2>1, <2>3 DEF SameOrder, SameKey
  <2>5. JobsOK(J) /\ StoreInv(runs, J)
    BY <1>0, <2>1, <2>3, ReplaceStoreInv, ReplacedJobOK DEF FullInv, SafetyInv
  <2>6. ReleaseInv(runs, J)
    BY <1>0, <2>1, <2>3, <2>4, ReplaceReleaseInv
  <2>7. CASE CompleteCrash(j, status, d, code)
    BY <2>6, <2>7 DEF CompleteCrash, J
  <2>8. CASE Complete(j, status, d, code)
    <3>1. PICK accepted \in BOOLEAN :
            /\ runs' = AdvancedRuns({j.run}, J, runs, accepted)
            /\ jobs' = AdvancedJobs({j.run}, J, runs, accepted)
      BY <2>8 DEF Complete, AdvanceRuns, J
    <3>2. {j.run} \in SUBSET RunIds
      BY <2>2 DEF Job
    <3> QED
      BY <1>0, <2>5, <2>6, <3>1, <3>2, AdvanceReleaseInv
  <2> QED
    BY <1>5, <2>7, <2>8
<1> QED
  BY <1>1, <1>2, <1>3, <1>4, <1>5 DEF ExecutorStep

(* The invariant is inductive.                                             *)
LEMMA NextFullInv == FullInv /\ [Next]_vars => FullInv'
<1> SUFFICES ASSUME FullInv, [Next]_vars
             PROVE  ReleaseInv(runs', jobs')
  BY NextSafetyInv DEF FullInv
<1>1. CASE ConnectorStep \/ PassDeadline \/ UNCHANGED vars
  BY <1>1 DEF ConnectorStep, PublishSource, FailSource, PassDeadline, vars, FullInv
<1> QED
  BY <1>1, MemberStepReleases, ExecutorStepReleases DEF Next

--------------------------------------------------------------------------------
(***************************************************************************)
(* The theorems.                                                           *)
(***************************************************************************)

(* Every reachable store is good.                                          *)
LEMMA FullInvariant == Spec => []FullInv
BY InitFullInv, NextFullInv, PTL DEF Spec

(* What is activated was built, from the commit the job names, by a        *)
(* finished build of the same component; so is what a rollback activates,  *)
(* however often its release was rolled back to before                     *)
(* (component-deployments.ts:471-481 and 709).                             *)
THEOREM ProvenanceHolds == Spec => []ArtifactProvenance
<1>1. FullInv => ArtifactProvenance
  <2> SUFFICES ASSUME FullInv, NEW j \in jobs, j.kind = "deploy"
               PROVE  \E b \in jobs : /\ b.kind = "build" /\ b.comp = j.comp /\ b.status = "succeeded"
                                      /\ b.output = j.input /\ b.head = j.head /\ b.run <= j.run
    BY DEF ArtifactProvenance
  <2> DEFINE x == runs[j.run].res[j.comp]
  <2>1. j.run \in RunIds /\ runs[j.run].status # "absent" /\ JobInv(runs, j)
    BY DEF FullInv, SafetyInv, StoreInv, IInv, JobsOK, Job, ReleaseInv
  <2>2. j.comp \in runs[j.run].parts /\ x.digest # None /\ j.input = x.digest
        /\ j.head = runs[x.rel].head
    BY <2>1 DEF JobInv
  <2>3. Built(runs, jobs, j.run, j.comp, x)
    BY <2>1, <2>2 DEF FullInv, ReleaseInv, ResultRel
  <2> QED
    BY <2>2, <2>3 DEF Built
<1> QED
  BY <1>1, FullInvariant, PTL

(* Among the runs before r, those that deployed c are those whose          *)
(* activation of c reported success.                                       *)
LEMMA LandedIsDeployed ==
  ASSUME FullInv, NEW r \in RunIds, runs[r].status # "absent", NEW c
  PROVE  /\ \A k \in Landed(c) : k.run < r =>
              /\ k.run \in RunIds /\ DeployedIn(runs, k.run, c)
              /\ k.input = runs[k.run].res[c].digest /\ k.input # None
         /\ \A q \in RunIds : q < r /\ DeployedIn(runs, q, c) => \E k \in Landed(c) : k.run = q
<1>1. ASSUME NEW q \in RunIds, q < r
      PROVE  runs[q].status \in EndedStatus /\ Ended(q)
  BY <1>1 DEF FullInv, SafetyInv, StoreInv, SerialRuns, Ended, Exists, EndedStatus
<1>2. ASSUME NEW k \in Landed(c), k.run < r
      PROVE  /\ k.run \in RunIds /\ DeployedIn(runs, k.run, c)
             /\ k.input = runs[k.run].res[c].digest /\ k.input # None
  <2>1. k \in jobs /\ k.comp = c /\ k.kind = "deploy" /\ k.status = "succeeded"
    BY DEF Landed
  <2>2. k.run \in RunIds /\ runs[k.run].status # "absent" /\ JobInv(runs, k)
    BY <2>1 DEF FullInv, SafetyInv, StoreInv, IInv, JobsOK, Job, ReleaseInv
  <2>3. LandedIn(jobs, k.run, c)
    BY <2>1 DEF LandedIn, JobsOf
  <2> QED
    BY <1>1, <1>2, <2>1, <2>2, <2>3, EndedIsSettled DEF FullInv, JobInv, DeployedIn
<1>3. ASSUME NEW q \in RunIds, q < r, DeployedIn(runs, q, c)
      PROVE  \E k \in Landed(c) : k.run = q
  <2>1. LandedIn(jobs, q, c)
    BY <1>1, <1>3, EndedIsSettled DEF FullInv, DeployedIn
  <2> QED
    BY <2>1 DEF LandedIn, JobsOf, Landed
<1> QED
  BY <1>2, <1>3

(* So the last of those activations is that of the run a result names as   *)
(* the one it replaces.                                                    *)
LEMMA LastLandedIsPrev ==
  ASSUME FullInv, NEW r \in RunIds, runs[r].status # "absent", NEW c \in runs[r].parts
  PROVE  LET p == runs[r].res[c].prev
         IN /\ p = None <=> LastLanded(c, r) = {}
            /\ \A k \in LastLanded(c, r) : /\ k.run = p /\ p # None /\ k.input # None
                                           /\ k.input = runs[p].res[c].digest
<1> DEFINE p == runs[r].res[c].prev
<1>1. LastBefore(runs, r, c, p)
  BY DEF FullInv, ReleaseInv, ResultRel
<1> HIDE DEF p
<1>2. CASE p = None
  BY <1>1, <1>2, LandedIsDeployed DEF LastBefore, LastLanded, p
<1>3. CASE p # None
  <2>1. /\ p \in RunIds /\ p < r /\ DeployedIn(runs, p, c)
        /\ \A q \in RunIds : q < r /\ DeployedIn(runs, q, c) => q <= p
    BY <1>1, <1>3 DEF LastBefore
  <2>2. PICK k \in Landed(c) : k.run = p
    BY <2>1, LandedIsDeployed
  <2>3. \A m \in Landed(c) : m.run < r => m.run <= p
    BY <2>1, LandedIsDeployed
  <2>4. k \in LastLanded(c, r)
    BY <2>1, <2>2, <2>3 DEF LastLanded
  <2>5. ASSUME NEW m \in LastLanded(c, r)
        PROVE  /\ m.run = p /\ m.input # None /\ m.input = runs[p].res[c].digest
    <3>1. m \in Landed(c) /\ m.run < r /\ k.run <= m.run
      BY <2>1, <2>2, <2>5 DEF LastLanded
    <3>2. m.run \in RunIds /\ m.input = runs[m.run].res[c].digest /\ m.input # None
      BY <3>1, LandedIsDeployed
    <3>3. m.run = p
      BY <2>1, <2>2, <2>3, <3>1, <3>2 DEF RunIds
    <3> QED
      BY <3>2, <3>3
  <2> QED
    BY <1>3, <2>4, <2>5 DEF p
<1> QED
  BY <1>2, <1>3

(* The release a job says it replaces is the one the destination was last  *)
(* told to activate, and a rollback activates the one before that          *)
(* (component-deployments.ts:471-481; the worker compares, at              *)
(* ComponentExecutor.cjs:385).                                             *)
THEOREM ReplacedReleaseIsLast == Spec => []ReplacesLastRelease
<1>1. FullInv => ReplacesLastRelease
  <2> SUFFICES ASSUME FullInv, NEW j \in jobs
               PROVE  /\ j.prev = None <=> LastLanded(j.comp, j.run) = {}
                      /\ \A k \in LastLanded(j.comp, j.run) :
                           /\ j.prev = k.input
                           /\ runs[j.run].op = "rollback" =>
                                \E m \in LastLanded(j.comp, k.run) : j.input = m.input
    BY DEF ReplacesLastRelease
  <2> DEFINE r == j.run
             c == j.comp
             x == runs[r].res[c]
             p == x.prev
  <2>1. r \in RunIds /\ runs[r].status # "absent" /\ JobInv(runs, j) /\ j.kind \in Kinds
    BY DEF FullInv, SafetyInv, StoreInv, IInv, JobsOK, Job, ReleaseInv
  <2>2. c \in runs[r].parts /\ j.prev = IF p = None THEN None ELSE runs[p].res[c].digest
    BY <2>1 DEF JobInv
  <2>3. /\ p = None <=> LastLanded(c, r) = {}
        /\ \A k \in LastLanded(c, r) : /\ k.run = p /\ p # None /\ k.input # None
                                       /\ k.input = runs[p].res[c].digest
    BY <2>1, <2>2, LastLandedIsPrev
  <2>4. ASSUME NEW k \in LastLanded(c, r), runs[r].op = "rollback"
        PROVE  \E m \in LastLanded(c, k.run) : j.input = m.input
    <3>1. Restores(runs, c, x) /\ LastBefore(runs, r, c, p)
      BY <2>1, <2>2, <2>4 DEF FullInv, ReleaseInv, ResultRel
    <3>2. k.run = p /\ p \in RunIds /\ DeployedIn(runs, p, c)
      BY <2>3, <2>4, <3>1 DEF LastBefore
    <3> DEFINE b == runs[p].res[c].prev
    <3>3. b # None /\ x.digest = runs[b].res[c].digest
      BY <3>1 DEF Restores
    <3>4. runs[p].status # "absent" /\ c \in runs[p].parts
      BY <3>2 DEF DeployedIn
    <3>5. /\ LastLanded(c, p) # {}
          /\ \A m \in LastLanded(c, p) : m.input = runs[b].res[c].digest
      BY <3>2, <3>3, <3>4, LastLandedIsPrev
    <3>6. j.input = x.digest
      BY <2>1, <2>4 DEF JobInv, Kinds
    <3> QED
      BY <3>2, <3>3, <3>5, <3>6
  <2> HIDE DEF p
  <2> QED
    BY <2>2, <2>3, <2>4
<1> QED
  BY <1>1, FullInvariant, PTL

--------------------------------------------------------------------------------
(***************************************************************************)
(* What the workers may rely on: what a step of the control plane does to  *)
(* the jobs it has handed out.                                             *)
(***************************************************************************)

(* A job keeps its work, and once it was handed out it stays so.           *)
SameWork(j, k) == SameKey(j, k) /\ k.nth = j.nth /\ k.input = j.input
Carried(J, K) ==
  \A j \in J : \E k \in K : SameWork(j, k) /\ (j.status # "queued" => k.status # "queued")

(* The activations handed out stay as they are; a new one is queued.       *)
Untouched(J, K) ==
  /\ \A j \in J : j.kind = "deploy" /\ j.status # "queued" => j \in K
  /\ \A k \in K \ J : k.kind = "deploy" => k.status = "queued"

(* Jobs that are only added to, with queued ones, are all that.            *)
LEMMA AddedJobs ==
  ASSUME NEW J, NEW K, J \subseteq K, \A k \in K \ J : k.status = "queued"
  PROVE  Carried(J, K) /\ Untouched(J, K)
BY DEF Carried, Untouched, SameWork, SameKey

(* A new job is queued.                                                    *)
LEMMA NewJobsQueued ==
  ASSUME NEW J, NEW R, NEW r, NEW accepted, NEW k \in NewJobs(J, R, r, accepted)
  PROVE  k.status = "queued"
BY DEF NewJobs, NewJob

(* advance() adds only queued jobs.                                        *)
LEMMA AdvanceAdds ==
  ASSUME NEW S, NEW J, NEW R, NEW accepted
  PROVE  /\ J \subseteq AdvancedJobs(S, J, R, accepted)
         /\ \A k \in AdvancedJobs(S, J, R, accepted) \ J : k.status = "queued"
BY NewJobsQueued DEF AdvancedJobs

(* A record that is replaced by one of the same work.                      *)
LEMMA ReplacedCarried ==
  ASSUME NEW J, NEW j \in J, NEW k, SameWork(j, k), k.status # "queued"
  PROVE  Carried(J, (J \ {j}) \cup {k})
BY DEF Carried, SameWork, SameKey

(* Whatever is carried twice is carried.                                   *)
LEMMA CarriedTwice ==
  ASSUME NEW J, NEW K, NEW L, Carried(J, K), Carried(K, L)
  PROVE  Carried(J, L)
BY DEF Carried, SameWork, SameKey

(* A closed claim is that of a build.                                      *)
LEMMA ClosedClaims ==
  ASSUME FullInv, NEW u, NEW r \in RunIds, MayClose(u, r), NEW j \in Claims(r)
  PROVE  j.kind = "build"
<1>1. CASE Closable(r)
  BY <1>1 DEF Closable, Claims
<1>2. CASE runs[r].resolved
  <2>1. runs[r].status # "absent" /\ runs[r].status = "failed"
    BY <1>2 DEF MayClose, Exists, FullInv, ReleaseInv, HeadInv
  <2>2. j \in jobs /\ j.run = r /\ j \in Job /\ Unsettled(j)
    BY DEF Claims, Unsettled, FullInv, SafetyInv, IInv, JobsOK
  <2>3. j.comp \in runs[r].parts
    BY <2>1, <2>2 DEF FullInv, SafetyInv, StoreInv, RunInv, OrderInv
  <2>4. j \notin JobsOf(jobs, r, j.comp, "deploy")
    BY <2>1, <2>2, <2>3, EndedIsSettled DEF FullInv, Ended, Exists
  <2> QED
    BY <2>2, <2>4 DEF JobsOf, Job, Kinds
<1> QED
  BY <1>1, <1>2 DEF MayClose

(* The steps that no worker takes part in leave its job as it is.          *)
LEMMA OtherStepsJobs ==
  ASSUME FullInv,
         \/ MemberStep \/ Poll \/ ConnectorStep \/ PassDeadline
         \/ \E r \in RunIds : AdvanceCrash(r)
  PROVE  Carried(jobs, jobs') /\ Untouched(jobs, jobs')
<1>1. CASE jobs' = jobs
  BY <1>1, AddedJobs
<1>2. CASE \/ Poll
           \/ \E u \in Users, op \in Operations, scope \in Components \cup {None}, r \in RunIds :
                Request(u, op, scope, r)
  <2>1. \E S, R, accepted : jobs' = AdvancedJobs(S, jobs, R, accepted)
    BY <1>2 DEF Poll, Request, AdvanceRuns
  <2> QED
    BY <2>1, AdvanceAdds, AddedJobs
<1>3. ASSUME NEW r \in RunIds, AdvanceCrash(r)
      PROVE  Carried(jobs, jobs') /\ Untouched(jobs, jobs')
  <2>1. PICK D \in SUBSET NewJobs(jobs, runs, r, TRUE) : jobs' = jobs \cup D
    BY <1>3 DEF AdvanceCrash
  <2> QED
    BY <2>1, NewJobsQueued, AddedJobs
<1>4. ASSUME NEW u \in Users, NEW r \in RunIds, CloseInterruptedBuild(u, r) \/ CloseCrash(u, r)
      PROVE  Carried(jobs, jobs') /\ Untouched(jobs, jobs')
  <2>1. PICK D \in SUBSET Claims(r) : jobs' = (jobs \ D) \cup {ClosedJob(j) : j \in D}
    BY <1>4 DEF CloseInterruptedBuild, CloseCrash, JobsClosed, ClosedJob
  <2>2. \A j \in D : j.kind = "build"
    BY <1>4, <2>1, ClosedClaims DEF CloseInterruptedBuild, CloseCrash
  <2>3. \A j \in D : j \in jobs /\ j \in Job
    BY <2>1 DEF Claims, FullInv, SafetyInv, IInv, JobsOK
  <2>4. \A j \in D : SameWork(j, ClosedJob(j)) /\ ClosedJob(j).status # "queued"
    BY <2>3 DEF SameWork, SameKey, ClosedJob, Job
  <2>5. Carried(jobs, jobs')
    BY <2>1, <2>4 DEF Carried, SameWork, SameKey
  <2>6. \A j \in D : ClosedJob(j).kind = "build"
    BY <2>2, <2>4 DEF SameWork, SameKey
  <2> QED
    BY <2>1, <2>2, <2>5, <2>6 DEF Untouched
<1>5. \/ jobs' = jobs
      \/ Poll
      \/ \E u \in Users, op \in Operations, scope \in Components \cup {None}, r \in RunIds :
           Request(u, op, scope, r)
      \/ \E r \in RunIds : AdvanceCrash(r)
      \/ \E u \in Users, r \in RunIds : CloseInterruptedBuild(u, r) \/ CloseCrash(u, r)
  BY DEF MemberStep, ConnectorStep, PublishSource, FailSource, PassDeadline, SaveProfile,
         RequestCrash, ChangeAccess
<1> QED
  BY <1>1, <1>2, <1>3, <1>4, <1>5

(* A receipt changes the status and the code of its job.                   *)
LEMMA ReportedJobs ==
  ASSUME FullInv, NEW j \in jobs, NEW status \in Outcomes, NEW code \in Codes(status), NEW d,
         Complete(j, status, d, code) \/ CompleteCrash(j, status, d, code)
  PROVE  /\ j.status = "working" /\ d = ReceiptDigest(j)
         /\ Carried(jobs, jobs')
         /\ \E k \in jobs' : /\ SameWork(j, k) /\ k.status = status
                             /\ k \in Job /\ Untouched((jobs \ {j}) \cup {k}, jobs')
                             /\ \A h \in jobs \ {j} : h \in jobs'
<1> DEFINE k == [j EXCEPT !.status = status, !.code = code]
           J == (jobs \ {j}) \cup {k}
<1>1. j.status = "working" /\ d = ReceiptDigest(j) /\ Completed(j, status, code) = J
  BY DEF Complete, CompleteCrash, MayComplete, Completed
<1>2. j \in Job /\ status \in JobStatus /\ code \in ErrorCodes /\ status # "queued"
  BY DEF FullInv, SafetyInv, IInv, JobsOK, Outcomes, Codes, JobStatus, ErrorCodes
<1>3. k \in Job /\ SameWork(j, k) /\ k.status = status
  BY <1>2 DEF Job, SameWork, SameKey
<1> HIDE DEF k
<1>4. Carried(jobs, J)
  BY <1>2, <1>3, ReplacedCarried
<1>5. J \subseteq jobs' /\ \A h \in jobs' \ J : h.status = "queued"
  <2>1. CASE CompleteCrash(j, status, d, code)
    BY <1>1, <2>1 DEF CompleteCrash
  <2>2. CASE Complete(j, status, d, code)
    <3>1. \E accepted : jobs' = AdvancedJobs({j.run}, J, runs, accepted)
      BY <1>1, <2>2 DEF Complete, AdvanceRuns
    <3> QED
      BY <3>1, AdvanceAdds
  <2> QED
    BY <2>1, <2>2
<1>6. Carried(J, jobs') /\ Untouched(J, jobs')
  BY <1>5, AddedJobs
<1>7. Carried(jobs, jobs')
  BY <1>4, <1>6, CarriedTwice
<1> QED
  BY <1>1, <1>3, <1>5, <1>6, <1>7

(* The run of an activation that is out, or uncertain, has not ended.      *)
LEMMA UnsettledIsPending ==
  ASSUME FullInv, NEW j \in jobs, j.kind = "deploy", Unsettled(j)
  PROVE  Exists(j.run) /\ Pending(runs[j.run])
<1>1. j.run \in RunIds /\ Exists(j.run) /\ runs[j.run] \in Run
  BY RunHasStatus DEF FullInv, SafetyInv, StoreInv, IInv, JobsOK, Job, Stored, Exists
<1>2. j.comp \in runs[j.run].parts
  BY <1>1 DEF FullInv, SafetyInv, StoreInv, RunInv, OrderInv, Exists
<1>3. j \in JobsOf(jobs, j.run, j.comp, "deploy")
  BY DEF JobsOf
<1>4. ~Ended(j.run)
  BY <1>1, <1>2, <1>3, EndedIsSettled DEF FullInv
<1> QED
  BY <1>1, <1>4 DEF Ended, Pending, Run, RunStatus

(* A claim hands out one queued job, as working.  If it is an activation,  *)
(* it names an artifact, and those handed out before for the component are *)
(* of earlier runs and settled.                                            *)
LEMMA ClaimedJob ==
  ASSUME FullInv, NEW j, NEW accepted \in BOOLEAN, ClaimJob(j, accepted)
  PROVE  /\ j \in Job /\ j.status = "queued" /\ j \notin jobs'
         /\ Carried(jobs, jobs')
         /\ \E k \in jobs' : /\ SameWork(j, k) /\ k.status = "working"
                             /\ Untouched(jobs, jobs' \ {k})
         /\ j.kind = "deploy" =>
              /\ j.input \in Artifacts
              /\ \A h \in jobs : h.kind = "deploy" /\ h.status # "queued" /\ h.comp = j.comp =>
                   h.run < j.run /\ ~Unsettled(h)
<1> DEFINE J == AdvancedJobs(RunIds, jobs, runs, accepted)
           R == AdvancedRuns(RunIds, jobs, runs, accepted)
           k == [j EXCEPT !.status = "working"]
<1>0. Stored(runs) /\ JobsOK(jobs) /\ StoreInv(runs, jobs) /\ ReleaseInv(runs, jobs)
  BY DEF FullInv, SafetyInv, IInv
<1>1. /\ j \in J /\ j.status = "queued" /\ R[j.run].status = "running"
      /\ jobs' = (J \ {j}) \cup {k}
  BY DEF ClaimJob, MayClaim
<1>2. JobsOK(J)
  BY <1>0, AdvancedJobsOK DEF AdvancedJobs
<1>3. StoreInv(R, J)
  BY <1>0, AdvanceStoreInv DEF FullInv, SafetyInv
<1>4. ReleaseInv(R, J)
  BY <1>0, AdvanceReleaseInv
<1>5. Stored(R)
  BY <1>0, AdvancedRunsOK DEF JobsOK
<1>6. jobs \subseteq J /\ \A h \in J \ jobs : h.status = "queued"
  BY AdvanceAdds
<1>7. j \in Job /\ SameWork(j, k) /\ k.status = "working"
  BY <1>1, <1>2 DEF JobsOK, Job, SameWork, SameKey
<1> HIDE DEF J, R, k
<1>8. Carried(jobs, jobs')
  <2>1. Carried(jobs, J)
    BY <1>6, AddedJobs
  <2>2. Carried(J, jobs')
    BY <1>1, <1>7, ReplacedCarried
  <2> QED
    BY <2>1, <2>2, CarriedTwice
<1>9. k \in jobs' /\ Untouched(jobs, jobs' \ {k}) /\ j \notin jobs'
  <2>1. k \notin J
    BY <1>1, <1>2, <1>7 DEF JobsOK, SameWork
  <2> QED
    BY <1>1, <1>6, <1>7, <2>1 DEF Untouched
<1>10. ASSUME j.kind = "deploy"
       PROVE  j.input \in Artifacts
  <2>1. j.run \in RunIds /\ R[j.run] \in Run /\ JobInv(R, j)
    BY <1>1, <1>4, <1>5, <1>7, RunHasStatus DEF Stored, Job, ReleaseInv
  <2>2. j.comp \in Components /\ R[j.run].res[j.comp] \in Result
    BY <1>7, <2>1 DEF Job, Run
  <2> QED
    BY <1>10, <2>1, <2>2 DEF JobInv, Result
<1>11. ASSUME j.kind = "deploy", NEW h \in jobs, h.kind = "deploy", h.status # "queued",
              h.comp = j.comp
       PROVE  h.run < j.run /\ ~Unsettled(h)
  <2>1. h \in J /\ h.run \in RunIds /\ j.run \in RunIds
    BY <1>0, <1>6, <1>7 DEF JobsOK, Job
  <2>2. ~(j.run < h.run)
    BY <1>1, <1>3, <2>1 DEF StoreInv, SerialRuns, EndedStatus
  <2>3. j.run # h.run
    BY <1>1, <1>2, <1>11, <2>1 DEF JobsOK, SameKey
  <2>4. h.run < j.run
    BY <2>1, <2>2, <2>3 DEF RunIds
  <2>5. runs[j.run].status # "absent"
    BY <1>1, <2>1, AbsentStays DEF AdvancedRuns, R
  <2>6. runs[h.run].status \in EndedStatus
    BY <1>0, <2>1, <2>4, <2>5 DEF StoreInv, SerialRuns
  <2>7. ~Unsettled(h)
    BY <1>11, <2>6, UnsettledIsPending DEF EndedStatus, Pending
  <2> QED
    BY <2>4, <2>7
<1> QED
  BY <1>1, <1>7, <1>8, <1>9, <1>10, <1>11

(* A component's activations that are not settled, and those that succeeded.*)
OpenOf(J, c)   == {j \in J : j.comp = c /\ j.kind = "deploy" /\ Unsettled(j)}
LandedOf(J, c) == {j \in J : j.comp = c /\ j.kind = "deploy" /\ j.status = "succeeded"}

(* Records that are left untouched have the same of both.                  *)
LEMMA UntouchedRecords ==
  ASSUME NEW J, NEW K, Untouched(J, K), NEW c
  PROVE  OpenOf(K, c) = OpenOf(J, c) /\ LandedOf(K, c) = LandedOf(J, c)
BY DEF Untouched, OpenOf, LandedOf, Unsettled

(* No activation succeeded in a later run than that of one not settled.    *)
LEMMA UnsettledIsLast ==
  ASSUME FullInv, NEW h \in jobs, h.kind = "deploy", Unsettled(h), NEW m \in jobs
  PROVE  m.run <= h.run
<1>1. h.run \in RunIds /\ m.run \in RunIds /\ runs[m.run].status # "absent"
  BY DEF FullInv, SafetyInv, StoreInv, IInv, JobsOK, Job
<1>2. runs[h.run].status \notin EndedStatus
  BY UnsettledIsPending DEF Pending, EndedStatus
<1>3. ~(h.run < m.run)
  BY <1>1, <1>2 DEF FullInv, SafetyInv, StoreInv, SerialRuns
<1> QED
  BY <1>1, <1>3 DEF RunIds

(* When no run is pending, the current release of a component is that of   *)
(* the last activation that succeeded.                                     *)
LEMMA CurrentIsLanded ==
  ASSUME FullInv, ~Busy, NEW c \in Components
  PROVE  IF Current(c) = None THEN Landed(c) = {}
         ELSE /\ Landed(c) # {}
              /\ \A k \in Landed(c) : (\A m \in Landed(c) : m.run <= k.run) =>
                   k.input = runs[Current(c)].res[c].digest
<1>1. ASSUME NEW r \in RunIds, runs[r].status # "absent"
      PROVE  Ended(r)
  <2>1. runs[r] \in Run
    BY <1>1, RunHasStatus DEF FullInv, SafetyInv, IInv, Stored
  <2> QED
    BY <1>1, <2>1 DEF Busy, Exists, Pending, Ended, Run, RunStatus
<1>2. ASSUME NEW k \in Landed(c)
      PROVE  /\ k.run \in RunIds /\ Deployed(k.run, c)
             /\ k.input = runs[k.run].res[c].digest
  <2>1. /\ k \in jobs /\ k.comp = c /\ k.kind = "deploy" /\ k.run \in RunIds
        /\ runs[k.run].status # "absent" /\ JobInv(runs, k)
    BY DEF Landed, FullInv, SafetyInv, StoreInv, IInv, JobsOK, Job, ReleaseInv
  <2>2. LandedIn(jobs, k.run, c)
    BY <2>1 DEF LandedIn, JobsOf, Landed
  <2> QED
    BY <1>1, <2>1, <2>2, EndedIsSettled DEF FullInv, JobInv, Deployed, Exists
<1>3. Stored(runs)
  BY DEF FullInv, SafetyInv, IInv
<1>4. CASE Current(c) = None
  BY <1>2, <1>3, <1>4, CurrentIsLast
<1>5. CASE Current(c) # None
  <2> DEFINE r == Current(c)
  <2>1. r \in RunIds /\ Latest(r, c)
    BY <1>3, <1>5, CurrentIsLast
  <2> HIDE DEF r
  <2>2. /\ Deployed(r, c) /\ \A q \in RunIds : Deployed(q, c) => q <= r
    BY <2>1 DEF Latest
  <2>3. LandedIn(jobs, r, c)
    BY <1>1, <2>1, <2>2, EndedIsSettled DEF FullInv, Deployed, Exists
  <2>4. PICK j \in Landed(c) : j.run = r
    BY <2>3 DEF LandedIn, JobsOf, Landed
  <2>5. ASSUME NEW k \in Landed(c), \A m \in Landed(c) : m.run <= k.run
        PROVE  k.input = runs[r].res[c].digest
    <3>1. r <= k.run /\ k.run <= r /\ k.run \in RunIds
      BY <1>2, <2>2, <2>4, <2>5
    <3>2. k.run = r
      BY <2>1, <3>1 DEF RunIds
    <3> QED
      BY <1>2, <3>2
  <2> QED
    BY <1>5, <2>4, <2>5 DEF r
<1> QED
  BY <1>4, <1>5
================================================================================
