------------------------- MODULE LocalDevelopmentProofs -------------------------
(***************************************************************************)
(* What local development keeps to, for any services, processes and bounds.*)
(***************************************************************************)
EXTENDS LocalDevelopment, FiniteSetTheorems, TLAPS

Statuses == {"none", "queued", "working"} \cup Ended
Ops      == {"start", "stop", "restart", "kill", "configure", "save"}
Command  == [status : Statuses, op : Ops, of : SUBSET Services, rev : Nat, files : Nat, key : Nat,
             who : Strangers \cup {None}]
View     == [rev : Nat, files : Nat, key : Nat, idle : BOOLEAN, seen : [Services -> Strangers \cup {None}]]
Steps    == {"idle", "given", "begun", "acting", "result", "report"}
Thens    == {"start", "stop", "kill", "configure", "save", "saved"}
Agent    == [step : Steps, job : 0 .. MaxJobs, todo : SUBSET Services, then : Thens, result : {"none"} \cup Ended]
Process  == [rev : Nat, alive : BOOLEAN, asked : BOOLEAN]
Listener == {"free", "own"} \cup Strangers
Slip     == {"none", "torn", "succeeded", "failed"}

(* None is no process and no observation, and the names of processes are   *)
(* not those of the states of a port.                                      *)
Names ==
  /\ MaxJobs \in Nat /\ FirstPlan \in Nat
  /\ None \notin Process /\ None \notin View
  /\ "free" \notin Strangers /\ "own" \notin Strangers

Types ==
  /\ commands \in [JobIds -> Command] /\ (view = None \/ view \in View)
  /\ agent \in Agent /\ plan \in [rev : Nat, files : Nat] /\ files \in Nat /\ kills \in Nat
  /\ marks \subseteq JobIds /\ slips \in [JobIds -> Slip]
  /\ owned \in [Services -> Process \cup {None}] /\ port \in [Services -> Listener]
  /\ launched \in [JobIds -> [Services -> Nat]]

(* One job at a time; and a process is killed at one service.              *)
Requested ==
  /\ \A i, j \in JobIds : Busy(i) /\ Busy(j) => i = j
  /\ \A j \in JobIds : commands[j].op = "kill" => \E s \in Services : commands[j].of = {s}

(* What the runtime has in hand: a job that is still working, claimed but  *)
(* not yet answered until its receipt is whole.                            *)
AtWork ==
  agent.step # "idle" =>
    /\ agent.job \in JobIds /\ Job.status = "working"
    /\ agent.step \in {"begun", "acting", "result"} => agent.job \in marks /\ slips[agent.job] \in {"none", "torn"}
    /\ agent.step = "acting" /\ agent.then = "kill" => Job.op = "kill"
    /\ agent.step = "result" => agent.result \in {"succeeded", "failed"}
    /\ agent.step = "report" =>
         /\ agent.result \in Ended
         /\ agent.result = "succeeded" => slips[agent.job] = "succeeded"
         /\ agent.result = "recovery-required" => slips[agent.job] = "none" /\ agent.job \in marks

(* A job that has not been claimed has started nothing, nor has one whose  *)
(* turn to start a service is still to come.                               *)
Unstarted(j, s) == agent.job = j /\ \/ At("begun")
                                    \/ At("acting") /\ (agent.then # "start" \/ s \in agent.todo)
Launches ==
  \A j \in JobIds, s \in Services :
    launched[j][s] <= 1 /\ (j \notin marks \/ Unstarted(j, s) => launched[j][s] = 0)

Receipts ==
  \A j \in JobIds : /\ commands[j].status = "succeeded" => slips[j] = "succeeded"
                    /\ commands[j].status = "recovery-required" => slips[j] = "none" /\ j \in marks

(* While the plan, or a file it was made of, is replaced, nothing runs.    *)
NothingRuns ==
  At("acting") /\ agent.then \in {"configure", "save", "saved"} => \A s \in Services : owned[s] = None

JobFacts == Requested /\ AtWork /\ Launches /\ Receipts
Inv  == Types /\ JobFacts /\ RunsUnderPlan /\ NothingRuns

--------------------------------------------------------------------------------
(***************************************************************************)
(* The initial states, and each action.                                    *)
(***************************************************************************)

(* The invariant holds initially.                                          *)
LEMMA InitInv == Names /\ Init => Inv
<1> SUFFICES ASSUME Names, Init
             PROVE  Inv
  OBVIOUS
<1>1. Unasked \in Command /\ Unasked.status = "none" /\ Unasked.op = "stop"
  BY DEF Unasked, Command, Statuses, Ops
<1>2. Resting \in Agent /\ Resting.step = "idle"
  BY DEF Names, Resting, Agent, Steps, Thens
<1>3. Types
  BY <1>1, <1>2 DEF Names, Init, Types, Slip, Listener, JobIds
<1>4. \A j \in JobIds : commands[j].status = "none" /\ commands[j].op = "stop"
  BY <1>1 DEF Init
<1>5. JobFacts
  BY <1>2, <1>4 DEF Init, JobFacts, Requested, AtWork, Launches, Receipts, Unstarted, At, Busy
<1>6. RunsUnderPlan /\ NothingRuns
  BY <1>2 DEF Init, RunsUnderPlan, NothingRuns, At
<1> QED BY <1>3, <1>5, <1>6 DEF Inv

(* What the jobs are known by does not change.                             *)
LEMMA JobsKept ==
  ASSUME JobFacts, UNCHANGED <<commands, agent, marks, slips, launched>>
  PROVE  JobFacts'
BY DEF JobFacts, Requested, AtWork, Launches, Receipts, Unstarted, At, Busy, Job

(* A process that is held stays under its plan, or is let go with its port.*)
LEMMA HeldKept ==
  ASSUME Inv, UNCHANGED plan,
         \A s \in Services : /\ owned'[s] # None => owned[s] # None /\ owned'[s].rev = owned[s].rev
                             /\ port'[s] = "own" => owned'[s] # None /\ owned'[s].alive
  PROVE  RunsUnderPlan' /\ (UNCHANGED agent => NothingRuns')
<1>1. RunsUnderPlan'
  BY DEF Inv, RunsUnderPlan, Alive
<1>2. UNCHANGED agent => NothingRuns'
  BY DEF Inv, NothingRuns, At
<1> QED BY <1>1, <1>2

(* Processes begin to listen, exit, are found overdue; strangers come and  *)
(* go; the files are edited; the control plane observes, forgets, bars.    *)
LEMMA MachineStep ==
  ASSUME Names, Inv,
         \/ Forget \/ Bar \/ Edit \/ Observe
         \/ \E j \in JobIds : Age(j)
         \/ \E s \in Services : Listen(s) \/ Exit(s) \/ Timeout(s) \/ Close(s) \/ \E x \in Strangers : Stranger(s, x)
  PROVE  Inv'
<1>0. Types /\ RunsUnderPlan /\ JobFacts
  BY DEF Inv
<1>1. UNCHANGED <<commands, agent, marks, slips, launched, plan, kills>>
  BY DEF Forget, Bar, Edit, Observe, Age, Listen, Exit, Timeout, Close, Stranger, disk, machine, store
<1>2. JobFacts'
  BY <1>0, <1>1, JobsKept
<1> DEFINE Held == \A s \in Services : /\ owned'[s] # None => owned[s] # None /\ owned'[s].rev = owned[s].rev
                                       /\ port'[s] = "own" => owned'[s] # None /\ owned'[s].alive
           Typed == /\ owned' \in [Services -> Process \cup {None}] /\ port' \in [Services -> Listener]
                    /\ files' \in Nat /\ (view' = None \/ view' \in View)
<1>3. ASSUME Held, Typed
      PROVE  Inv'
  <2>1. Types'
    BY <1>0, <1>1, <1>3 DEF Types
  <2>2. RunsUnderPlan' /\ NothingRuns'
    BY <1>1, <1>3, HeldKept
  <2> QED BY <1>2, <2>1, <2>2 DEF Inv
<1>4. ASSUME UNCHANGED <<owned, port>>, files' \in Nat, view' = None \/ view' \in View
      PROVE  Inv'
  <2>1. Held
    BY <1>0, <1>4 DEF RunsUnderPlan, Alive
  <2> QED BY <1>0, <1>3, <1>4, <2>1 DEF Types
<1>5. CASE Forget \/ Bar \/ \E j \in JobIds : Age(j)
  <2>1. UNCHANGED <<owned, port, files>> /\ (view' = view \/ view' = None)
    BY <1>5 DEF Forget, Bar, Age, machine
  <2> QED BY <1>0, <1>4, <2>1 DEF Types
<1>6. CASE Edit
  <2>1. UNCHANGED <<owned, port, view>> /\ files' = files + 1
    BY <1>6 DEF Edit, machine, store
  <2> QED BY <1>0, <1>4, <2>1 DEF Types
<1>7. CASE Observe
  <2> DEFINE idle == \A s \in Services : shown'[s] \notin {"starting", "running"}
             seen == [s \in Services |-> Identity(s)]
  <2>1. /\ UNCHANGED <<owned, port, files>>
        /\ view' = [rev |-> plan.rev, files |-> files, key |-> kills, idle |-> idle, seen |-> seen]
    BY <1>7 DEF Observe, Fingerprint
  <2>2. idle \in BOOLEAN /\ seen \in [Services -> Strangers \cup {None}]
    BY DEF Identity
  <2> HIDE DEF idle, seen
  <2>3. view' \in View
    BY <1>0, <2>1, <2>2 DEF Types, View
  <2> QED BY <1>0, <1>4, <2>1, <2>3 DEF Types
<1>8. ASSUME NEW s \in Services, Listen(s) \/ Exit(s) \/ Timeout(s) \/ Close(s) \/ \E x \in Strangers : Stranger(s, x)
      PROVE  Inv'
  <2>0. UNCHANGED <<files, view>>
    BY <1>8 DEF Listen, Exit, Timeout, Close, Stranger, store
  <2>1. CASE Listen(s)
    BY <1>0, <1>3, <2>0, <2>1 DEF Listen, Alive, RunsUnderPlan, Types, Listener
  <2>2. CASE \E x \in Strangers : Stranger(s, x)
    <3>1. PICK x \in Strangers : Stranger(s, x)
      BY <2>2
    <3>2. owned' = owned /\ (port' = [port EXCEPT ![s] = x] \/ port' = [port EXCEPT ![s] = "free"]) /\ x # "own"
      BY <3>1 DEF Stranger, Names
    <3> QED BY <1>0, <1>3, <2>0, <3>2 DEF Alive, RunsUnderPlan, Types, Listener
  <2>3. CASE \/ owned' = [owned EXCEPT ![s] = None] /\ port' = Freed(s)
             \/ owned[s] # None /\ port' = Freed(s) /\ owned' = [owned EXCEPT ![s].alive = FALSE]
    <3>1. /\ port' \in [Services -> Listener] /\ port'[s] # "own" /\ \A t \in Services \ {s} : port'[t] = port[t]
      BY <1>0, <2>3 DEF Freed, Types, Listener
    <3>2. /\ owned' \in [Services -> Process \cup {None}] /\ \A t \in Services \ {s} : owned'[t] = owned[t]
          /\ owned'[s] # None => owned[s] # None /\ owned'[s].rev = owned[s].rev
      <4>1. CASE owned' = [owned EXCEPT ![s] = None]
        BY <1>0, <4>1 DEF Types
      <4>2. CASE owned[s] # None /\ owned' = [owned EXCEPT ![s].alive = FALSE]
        <5>1. owned[s] \in Process /\ [owned[s] EXCEPT !.alive = FALSE] \in Process
              /\ [owned[s] EXCEPT !.alive = FALSE].rev = owned[s].rev
          BY <1>0, <4>2 DEF Types, Process
        <5> QED BY <1>0, <4>2, <5>1 DEF Types
      <4> QED BY <2>3, <4>1, <4>2
    <3> QED BY <1>0, <1>3, <2>0, <3>1, <3>2 DEF RunsUnderPlan, Alive, Types
  <2>4. CASE owned' = [owned EXCEPT ![s] = None] /\ port[s] # "own" /\ port' = port
    BY <1>0, <1>3, <2>0, <2>4 DEF RunsUnderPlan, Alive, Types
  <2>5. CASE owned[s] # None /\ owned' = [owned EXCEPT ![s].asked = TRUE] /\ port' = port
    <3>1. owned[s] \in Process /\ [owned[s] EXCEPT !.asked = TRUE] \in Process
          /\ [owned[s] EXCEPT !.asked = TRUE].rev = owned[s].rev /\ [owned[s] EXCEPT !.asked = TRUE].alive = owned[s].alive
      BY <1>0, <2>5 DEF Types, Process
    <3>2. /\ owned' \in [Services -> Process \cup {None}] /\ \A t \in Services \ {s} : owned'[t] = owned[t]
          /\ owned'[s] \in Process /\ owned'[s].rev = owned[s].rev /\ owned'[s].alive = owned[s].alive
      BY <1>0, <2>5, <3>1 DEF Types
    <3>3. Held
      BY <1>0, <2>5, <3>2 DEF RunsUnderPlan, Alive, Names
    <3> QED BY <1>0, <1>3, <2>0, <2>5, <3>2, <3>3 DEF Types
  <2>6. CASE Exit(s)
    BY <2>3, <2>6 DEF Exit, Alive
  <2>7. CASE Timeout(s)
    BY <2>4, <2>5, <2>7 DEF Timeout, Overdue
  <2>8. CASE Close(s)
    BY <2>3, <2>5, <2>8 DEF Close
  <2> QED BY <1>8, <2>1, <2>2, <2>6, <2>7, <2>8
<1> QED BY <1>5, <1>6, <1>7, <1>8

(* What does not look at the processes keeps the plan they run under.      *)
LEMMA MachineKept ==
  ASSUME Inv, UNCHANGED <<owned, port, plan>>
  PROVE  RunsUnderPlan' /\ (agent'.step # "acting" => NothingRuns')
BY DEF Inv, RunsUnderPlan, Alive, NothingRuns, At

(* A job is asked for while none is busy; one process is killed at one     *)
(* service.                                                                *)
LEMMA RequestStep ==
  ASSUME Names, Inv, NEW j \in JobIds, NEW op \in Ops, NEW of \in (SUBSET Services) \ {{}}, Request(j, op, of)
  PROVE  Inv'
<1>0. Types /\ JobFacts
  BY DEF Inv
<1>1. UNCHANGED <<view, agent, files, plan, marks, slips, owned, port, launched, kills>>
  BY DEF Request, disk, machine
<1> DEFINE who == IF op = "kill" THEN view.seen[CHOOSE s \in of : TRUE] ELSE None
           new == [status |-> "queued", op |-> op, of |-> of, rev |-> view.rev, files |-> view.files,
                   key |-> view.key, who |-> who]
<1>2. /\ commands' = [commands EXCEPT ![j] = new] /\ view \in View /\ commands[j].status = "none"
      /\ \A i \in JobIds : ~Busy(i)
      /\ op = "kill" => \E s \in Services : of = {s}
  <2>1. view \in View
    BY <1>0 DEF Request, Types
  <2>2. op = "kill" => \E s \in of : of = {s}
    BY DEF Request, Permitted
  <2> QED BY <2>1, <2>2 DEF Request, IsNext
<1>3. who \in Strangers \cup {None}
  <2>1. (CHOOSE s \in of : TRUE) \in of /\ of \subseteq Services
    OBVIOUS
  <2> QED BY <1>2, <2>1 DEF View
<1> HIDE DEF who
<1>4. new \in Command /\ new.status = "queued" /\ new.op = op /\ new.of = of
  BY <1>2, <1>3 DEF Command, Statuses, View
<1> HIDE DEF new
<1>5. /\ commands' \in [JobIds -> Command] /\ commands'[j] = new /\ \A i \in JobIds \ {j} : commands'[i] = commands[i]
  BY <1>0, <1>2, <1>4 DEF Types
<1>6. Types'
  BY <1>0, <1>1, <1>5 DEF Types
<1>7. Requested'
  BY <1>0, <1>2, <1>4, <1>5 DEF JobFacts, Requested, Busy
<1>8. agent.step = "idle"
  BY <1>0, <1>2 DEF JobFacts, AtWork, Busy, Job
<1>9. AtWork' /\ Launches' /\ Receipts'
  BY <1>0, <1>1, <1>4, <1>5, <1>8 DEF JobFacts, AtWork, Launches, Unstarted, At, Receipts
<1>10. RunsUnderPlan' /\ NothingRuns'
  BY <1>1, <1>8, MachineKept
<1> QED BY <1>6, <1>7, <1>9, <1>10 DEF Inv, JobFacts

(* The record of a job takes a new status.                                 *)
LEMMA MarkIs ==
  ASSUME Types, NEW j \in JobIds, NEW status \in Statuses, Mark(j, status)
  PROVE  /\ commands' \in [JobIds -> Command] /\ commands'[j].status = status
         /\ commands'[j].op = commands[j].op /\ commands'[j].of = commands[j].of /\ commands'[j].who = commands[j].who
         /\ \A i \in JobIds \ {j} : commands'[i] = commands[i]
<1>1. commands[j] \in Command /\ commands' = [commands EXCEPT ![j] = [commands[j] EXCEPT !.status = status]]
  BY DEF Types, Mark
<1>2. [commands[j] EXCEPT !.status = status] \in Command
  BY <1>1 DEF Command
<1> QED BY <1>1, <1>2 DEF Types, Command

(* A job is handed out, once it is queued or again while it is working.    *)
LEMMA ClaimStep == ASSUME Names, Inv, NEW j \in JobIds, Claim(j) PROVE Inv'
<1>0. Types /\ JobFacts /\ agent.step = "idle" /\ Busy(j) /\ agent \in Agent
  BY DEF Inv, Types, Claim, Claimable, At
<1>1. UNCHANGED <<view, files, plan, marks, slips, owned, port, launched, kills>>
  BY DEF Claim, disk, machine
<1>2. PICK status \in {"failed", "working"} :
        /\ Mark(j, status)
        /\ agent' = agent \/ (status = "working" /\ agent' = [agent EXCEPT !.step = "given", !.job = j])
  BY DEF Claim
<1>3. /\ commands' \in [JobIds -> Command] /\ commands'[j].status = status
      /\ commands'[j].op = commands[j].op /\ commands'[j].of = commands[j].of
      /\ \A i \in JobIds \ {j} : commands'[i] = commands[i]
  <2>1. status \in Statuses
    BY DEF Statuses, Ended
  <2> QED BY <1>0, <1>2, <2>1, MarkIs
<1>4. /\ agent' \in Agent
      /\ agent'.step = "idle" \/ (agent'.step = "given" /\ agent'.job = j /\ status = "working")
  <2>1. j \in 0 .. MaxJobs
    BY DEF JobIds, Names
  <2>2. CASE agent' = agent
    BY <1>0, <2>2
  <2>3. CASE status = "working" /\ agent' = [agent EXCEPT !.step = "given", !.job = j]
    BY <1>0, <2>1, <2>3 DEF Agent, Steps
  <2> QED BY <1>2, <2>2, <2>3
<1>5. Types'
  BY <1>0, <1>1, <1>3, <1>4 DEF Types
<1>6. Requested'
  BY <1>0, <1>3 DEF JobFacts, Requested, Busy
<1>7. AtWork' /\ Launches' /\ Receipts'
  BY <1>0, <1>1, <1>3, <1>4 DEF JobFacts, AtWork, Launches, Unstarted, At, Receipts, Busy, Job
<1>8. RunsUnderPlan' /\ NothingRuns'
  BY <1>1, <1>4, MachineKept
<1> QED BY <1>5, <1>6, <1>7, <1>8 DEF Inv, JobFacts

(* Only a job without claim and receipt is begun, and claimed by that.     *)
LEMMA BeginStep == ASSUME Names, Inv, Begin PROVE Inv'
<1> DEFINE j == agent.job
<1>0. Types /\ JobFacts /\ agent.step = "given" /\ agent \in Agent /\ j \in JobIds /\ commands[j].status = "working"
  BY DEF Inv, Types, Begin, At, JobFacts, AtWork, Job
<1>1. UNCHANGED <<commands, view, files, plan, slips, owned, port, launched, kills>>
  BY DEF Begin, store, machine
<1>2. /\ agent' \in Agent /\ (agent'.step # "idle" => agent'.job = j)
      /\ \/ agent'.step = "idle" /\ marks' = marks
         \/ /\ agent'.step = "report" /\ marks' = marks
            /\ \/ agent'.result = slips[j] /\ slips[j] \in {"succeeded", "failed"}
               \/ agent'.result = "recovery-required" /\ slips[j] = "none" /\ j \in marks
         \/ agent'.step = "begun" /\ j \notin marks /\ marks' = marks \cup {j} /\ slips[j] = "none"
  <2>1. slips[j] \in Slip
    BY <1>0 DEF Types
  <2>2. CASE slips[j] = "torn" /\ agent' = Resting /\ UNCHANGED marks
    BY <2>2 DEF Resting, Agent, Steps, Thens, Names
  <2>3. CASE /\ slips[j] \notin {"none", "torn"}
             /\ agent' = [agent EXCEPT !.step = "report", !.result = slips[j]] /\ UNCHANGED marks
    BY <1>0, <2>1, <2>3 DEF Agent, Steps, Slip, Ended
  <2>4. CASE /\ slips[j] = "none" /\ ~Fresh(j)
             /\ agent' = [agent EXCEPT !.step = "report", !.result = "recovery-required"] /\ UNCHANGED marks
    BY <1>0, <2>4 DEF Agent, Steps, Ended, Fresh
  <2>5. CASE slips[j] = "none" /\ Fresh(j) /\ marks' = marks \cup {j} /\ agent' = [agent EXCEPT !.step = "begun"]
    BY <1>0, <2>5 DEF Agent, Steps, Fresh
  <2> QED BY <2>2, <2>3, <2>4, <2>5 DEF Begin
<1> HIDE DEF j
<1>3. Types'
  BY <1>0, <1>1, <1>2 DEF Types
<1>4. Requested' /\ Receipts'
  BY <1>0, <1>1, <1>2 DEF JobFacts, Requested, Busy, Receipts
<1>5. AtWork'
  BY <1>0, <1>1, <1>2 DEF AtWork, Job, Ended
<1>6. Launches'
  BY <1>0, <1>1, <1>2 DEF JobFacts, Launches, Unstarted, At, j
<1>7. RunsUnderPlan' /\ NothingRuns'
  BY <1>1, <1>2, MachineKept
<1> QED BY <1>3, <1>4, <1>5, <1>6, <1>7 DEF Inv, JobFacts

(* The runtime looks again inside its chain, and begins only what is still *)
(* as it was asked for.                                                    *)
LEMMA ExamineStep == ASSUME Names, Inv, Examine PROVE Inv'
<1> DEFINE j == agent.job
<1>0. /\ Types /\ JobFacts /\ agent.step = "begun" /\ agent \in Agent /\ j \in JobIds
      /\ commands[j].status = "working" /\ j \in marks /\ slips[j] \in {"none", "torn"} /\ commands[j] \in Command
  BY DEF Inv, Types, Examine, At, JobFacts, AtWork, Job
<1>1. UNCHANGED <<commands, view, files, plan, marks, slips, owned, port, launched, kills>>
  BY DEF Examine, store, disk
<1>2. /\ agent' \in Agent /\ agent'.job = j
      /\ \/ agent'.step = "result" /\ agent'.result = "failed"
         \/ /\ agent'.step = "acting" /\ agent'.then \in {"configure", "save", "saved"} => ~HasRunning
            /\ agent'.step = "acting" /\ agent'.then = "kill" => commands[j].op = "kill"
            /\ agent'.step = "acting"
  <2>1. CASE Result("failed")
    BY <1>0, <2>1 DEF Result, Agent, Steps, Ended
  <2>2. CASE /\ Current /\ Admissible
             /\ agent' = [agent EXCEPT !.step = "acting", !.todo = Job.of,
                                       !.then = IF Job.op = "restart" THEN "stop" ELSE Job.op]
    <3> DEFINE then == IF Job.op = "restart" THEN "stop" ELSE Job.op
    <3>1. then \in Thens /\ Job.of \in SUBSET Services /\ Job = commands[j]
          /\ (then = "kill" => commands[j].op = "kill")
          /\ (then \in {"configure", "save", "saved"} => ~HasRunning)
      BY <1>0, <2>2 DEF Command, Thens, Ops, Job, Admissible
    <3> HIDE DEF then
    <3>2. agent' \in Agent /\ agent'.job = j /\ agent'.step = "acting" /\ agent'.then = then
      <4>1. agent' = [agent EXCEPT !.step = "acting", !.todo = Job.of, !.then = then]
        BY <2>2 DEF then
      <4> QED BY <1>0, <3>1, <4>1 DEF Agent, Steps
    <3> QED BY <3>1, <3>2
  <2> QED BY <2>1, <2>2 DEF Examine
<1> HIDE DEF j
<1>3. Types'
  BY <1>0, <1>1, <1>2 DEF Types
<1>4. Requested' /\ Receipts'
  BY <1>0, <1>1 DEF JobFacts, Requested, Busy, Receipts
<1>5. AtWork'
  BY <1>0, <1>1, <1>2 DEF AtWork, Job
<1>6. Launches'
  BY <1>0, <1>1, <1>2 DEF JobFacts, Launches, Unstarted, At, j
<1>7. RunsUnderPlan' /\ NothingRuns'
  BY <1>1, <1>2, MachineKept DEF NothingRuns, At, HasRunning
<1> QED BY <1>3, <1>4, <1>5, <1>6, <1>7 DEF Inv, JobFacts

(* The receipt is written, perhaps in two attempts; the answer is given.   *)
LEMMA AnswerStep == ASSUME Names, Inv, Receipt \/ Complete PROVE Inv'
<1> DEFINE j == agent.job
<1>0. Types /\ JobFacts /\ agent.step \in {"result", "report"} /\ agent \in Agent /\ j \in JobIds /\ commands[j].status = "working"
  BY DEF Inv, Types, Receipt, Complete, At, JobFacts, AtWork, Job
<1>1. UNCHANGED <<view, files, plan, marks, owned, port, launched, kills>>
  BY DEF Receipt, Complete, store, machine, disk
<1>2. CASE Receipt
  <2>1. /\ commands' = commands /\ agent.step = "result" /\ agent.result \in {"succeeded", "failed"} /\ j \in marks
        /\ \/ slips' = [slips EXCEPT ![j] = "torn"] /\ agent' = agent /\ slips[j] = "none"
           \/ slips' = [slips EXCEPT ![j] = agent.result] /\ agent' = [agent EXCEPT !.step = "report"]
    BY <1>0, <1>2 DEF Receipt, store, At, JobFacts, AtWork
  <2>2. /\ agent' \in Agent /\ agent'.job = j /\ agent'.result = agent.result
        /\ slips' \in [JobIds -> Slip] /\ \A i \in JobIds \ {j} : slips'[i] = slips[i]
        /\ \/ agent'.step = "result" /\ slips'[j] = "torn"
           \/ agent'.step = "report" /\ slips'[j] = agent.result
    <3>1. CASE slips' = [slips EXCEPT ![j] = "torn"] /\ agent' = agent
      BY <1>0, <2>1, <3>1 DEF Types, Slip
    <3>2. CASE slips' = [slips EXCEPT ![j] = agent.result] /\ agent' = [agent EXCEPT !.step = "report"]
      <4>1. agent' \in Agent /\ agent'.job = j /\ agent'.result = agent.result /\ agent'.step = "report"
        BY <1>0, <3>2 DEF Agent, Steps
      <4>2. agent.result \in Slip
        BY <2>1 DEF Slip
      <4> QED BY <1>0, <3>2, <4>1, <4>2 DEF Types
    <3> QED BY <2>1, <3>1, <3>2
  <2> HIDE DEF j
  <2>3. Types'
    BY <1>0, <1>1, <2>1, <2>2 DEF Types
  <2>4. Requested' /\ Receipts'
    BY <1>0, <1>1, <2>1, <2>2 DEF JobFacts, Requested, Busy, Receipts
  <2>5. AtWork'
    BY <1>0, <1>1, <2>1, <2>2 DEF AtWork, Job, Ended
  <2>6. Launches'
    BY <1>0, <1>1, <2>1, <2>2 DEF JobFacts, Launches, Unstarted, At
  <2>7. RunsUnderPlan' /\ NothingRuns'
    BY <1>1, <2>2, MachineKept
  <2> QED BY <2>3, <2>4, <2>5, <2>6, <2>7 DEF Inv, JobFacts
<1>3. CASE Complete
  <2>1. /\ slips' = slips /\ agent' = Resting /\ agent.step = "report" /\ agent.result \in Ended
        /\ commands' = commands \/ Mark(j, agent.result)
        /\ agent.result = "succeeded" => slips[j] = "succeeded"
        /\ agent.result = "recovery-required" => slips[j] = "none" /\ j \in marks
    BY <1>0, <1>3 DEF Complete, disk, At, JobFacts, AtWork
  <2>2. agent' \in Agent /\ agent'.step = "idle"
    BY <2>1 DEF Names, Resting, Agent, Steps, Thens
  <2>3. /\ commands' \in [JobIds -> Command] /\ (commands'[j].status = "working" \/ commands'[j].status = agent.result)
        /\ commands'[j].op = commands[j].op /\ commands'[j].of = commands[j].of
        /\ \A i \in JobIds \ {j} : commands'[i] = commands[i]
    <3>1. agent.result \in Statuses
      BY <2>1 DEF Statuses
    <3> QED BY <1>0, <2>1, <3>1, MarkIs DEF Types
  <2> HIDE DEF j
  <2>4. Types'
    BY <1>0, <1>1, <2>1, <2>2, <2>3 DEF Types
  <2>5. Requested'
    <3>1. \A i \in JobIds : Busy(i)' => Busy(i)
      BY <1>0, <2>1, <2>3 DEF Busy, Ended
    <3>2. \A i \in JobIds : commands'[i].op = commands[i].op /\ commands'[i].of = commands[i].of
      BY <2>3
    <3> QED BY <1>0, <3>1, <3>2 DEF JobFacts, Requested
  <2>6. Receipts'
    BY <1>0, <1>1, <2>1, <2>3 DEF JobFacts, Receipts
  <2>7. AtWork' /\ Launches'
    BY <1>0, <1>1, <2>2 DEF JobFacts, AtWork, Launches, Unstarted, At
  <2>8. RunsUnderPlan' /\ NothingRuns'
    BY <1>1, <2>2, MachineKept
  <2> QED BY <2>4, <2>5, <2>6, <2>7, <2>8 DEF Inv, JobFacts
<1> QED BY <1>2, <1>3

(* A step of the job in hand keeps what is known of the jobs, if it starts *)
(* no service a second time.                                               *)
LEMMA ActJobs ==
  ASSUME Names, Inv, agent.step = "acting", UNCHANGED <<commands, marks, slips>>,
         agent'.job = agent.job, agent'.step \in {"acting", "result"},
         agent'.step = "result" => agent'.result \in {"succeeded", "failed"},
         agent'.step = "acting" /\ agent'.then = "kill" => agent.then = "kill",
         \A j \in JobIds \ {agent.job} : launched'[j] = launched[j],
         \A s \in Services : /\ launched'[agent.job][s] <= 1
                             /\ agent'.step = "acting" /\ (agent'.then # "start" \/ s \in agent'.todo) =>
                                  launched'[agent.job][s] = 0
  PROVE  JobFacts'
<1>0. /\ JobFacts /\ agent.job \in JobIds /\ agent.job \in marks /\ slips[agent.job] \in {"none", "torn"}
      /\ commands[agent.job].status = "working" /\ (agent.then = "kill" => commands[agent.job].op = "kill")
  BY DEF Inv, JobFacts, AtWork, Job
<1>1. Requested' /\ Receipts'
  BY <1>0 DEF JobFacts, Requested, Busy, Receipts
<1>2. AtWork'
  BY <1>0 DEF AtWork, Job
<1>3. Launches'
  BY <1>0 DEF JobFacts, Launches, Unstarted, At
<1> QED BY <1>1, <1>2, <1>3 DEF JobFacts

(* A result is put together.                                               *)
LEMMA ResultIs ==
  ASSUME Types, NEW r \in {"succeeded", "failed"}, Result(r)
  PROVE  /\ agent' \in Agent /\ agent'.job = agent.job /\ agent'.step = "result" /\ agent'.result = r
BY DEF Types, Result, Agent, Steps, Ended

(* The plan, a file, a stranger: configure, environment-save, kill-existing*)
(* and the ends of stopping and starting.                                  *)
LEMMA PlanStep ==
  ASSUME Names, Inv, Configure \/ Save \/ Advance \/ Kill \/ Stopped \/ Started
  PROVE  Inv'
<1>0. Types /\ JobFacts /\ RunsUnderPlan /\ NothingRuns /\ agent.step = "acting" /\ agent \in Agent
  BY DEF Inv, Types, Configure, Save, Advance, Kill, Stopped, Started, Does, At
<1>1. UNCHANGED <<commands, view, marks, slips, owned, launched, kills>>
  BY DEF Configure, Save, Advance, Kill, Stopped, Started, store, machine, disk
<1>2. /\ agent.job \in JobIds /\ commands[agent.job] \in Command
      /\ \A s \in Services : /\ launched[agent.job][s] <= 1
                             /\ agent.then # "start" => launched[agent.job][s] = 0
  BY <1>0 DEF JobFacts, AtWork, Launches, Unstarted, At, Types
<1>3. ASSUME \/ \E r \in {"succeeded", "failed"} : Result(r)
             \/ agent' = [agent EXCEPT !.then = "saved"] /\ agent.then = "save"
             \/ agent' = [agent EXCEPT !.then = "start", !.todo = Job.of] /\ agent.then = "stop"
      PROVE  /\ agent' \in Agent /\ JobFacts'
             /\ agent'.step = "result" \/ (agent'.step = "acting" /\ agent'.then = "saved" /\ agent.then = "save")
                                       \/ (agent'.step = "acting" /\ agent'.then = "start")
  <2>1. CASE \E r \in {"succeeded", "failed"} : Result(r)
    <3>1. PICK r \in {"succeeded", "failed"} : Result(r)
      BY <2>1
    <3>2. agent' \in Agent /\ agent'.job = agent.job /\ agent'.step = "result" /\ agent'.result = r
      BY <1>0, <3>1, ResultIs
    <3>3. JobFacts'
      BY <1>0, <1>1, <1>2, <3>2, ActJobs
    <3> QED BY <3>2, <3>3
  <2>2. CASE agent' = [agent EXCEPT !.then = "saved"] /\ agent.then = "save"
    <3>1. agent' \in Agent /\ agent'.job = agent.job /\ agent'.step = "acting" /\ agent'.then = "saved"
      BY <1>0, <2>2 DEF Agent, Thens
    <3>2. JobFacts'
      BY <1>0, <1>1, <1>2, <2>2, <3>1, ActJobs
    <3> QED BY <2>2, <3>1, <3>2
  <2>3. CASE agent' = [agent EXCEPT !.then = "start", !.todo = Job.of] /\ agent.then = "stop"
    <3>1. Job.of \subseteq Services
      BY <1>2 DEF Job, Command
    <3>2. agent' \in Agent /\ agent'.job = agent.job /\ agent'.step = "acting" /\ agent'.then = "start"
      BY <1>0, <2>3, <3>1 DEF Agent, Thens
    <3>3. JobFacts'
      BY <1>0, <1>1, <1>2, <2>3, <3>2, ActJobs
    <3> QED BY <3>2, <3>3
  <2> QED BY <1>3, <2>1, <2>2, <2>3
<1>4. CASE Configure
  <2>1. /\ \E r \in {"succeeded", "failed"} : Result(r)
        /\ plan' = [rev |-> plan.rev + 1, files |-> Job.files] /\ UNCHANGED <<files, port>>
        /\ \A s \in Services : owned[s] = None
    BY <1>0, <1>4 DEF Configure, Does, NothingRuns, At
  <2>2. plan' \in [rev : Nat, files : Nat]
    BY <1>0, <1>2, <2>1 DEF Types, Job, Command
  <2>3. Types'
    BY <1>0, <1>1, <1>3, <2>1, <2>2 DEF Types
  <2>4. RunsUnderPlan' /\ NothingRuns'
    BY <1>0, <1>1, <2>1 DEF RunsUnderPlan, NothingRuns, Alive
  <2> QED BY <1>3, <2>1, <2>3, <2>4 DEF Inv
<1>5. CASE Save
  <2>1. /\ agent.then = "save" /\ \A s \in Services : owned[s] = None
        /\ UNCHANGED <<plan, port>> /\ (files' = files \/ files' = files + 1)
        /\ (\E r \in {"succeeded", "failed"} : Result(r)) \/ agent' = [agent EXCEPT !.then = "saved"]
    BY <1>0, <1>5 DEF Save, Does, NothingRuns, At, disk, machine
  <2>2. Types'
    BY <1>0, <1>1, <1>3, <2>1 DEF Types
  <2>3. RunsUnderPlan' /\ NothingRuns'
    BY <1>0, <1>1, <2>1 DEF RunsUnderPlan, NothingRuns, Alive
  <2> QED BY <1>3, <2>1, <2>2, <2>3 DEF Inv
<1>6. CASE Advance
  <2>1. /\ \E r \in {"succeeded", "failed"} : Result(r)
        /\ plan' = IF plan.rev = 0 THEN plan ELSE [rev |-> plan.rev + 1, files |-> files]
        /\ UNCHANGED <<files, port>> /\ \A s \in Services : owned[s] = None
    BY <1>0, <1>6 DEF Advance, Does, NothingRuns, At, machine
  <2>2. plan' \in [rev : Nat, files : Nat]
    BY <1>0, <2>1 DEF Types
  <2>3. Types'
    BY <1>0, <1>1, <1>3, <2>1, <2>2 DEF Types
  <2>4. RunsUnderPlan' /\ NothingRuns'
    BY <1>0, <1>1, <2>1 DEF RunsUnderPlan, NothingRuns, Alive
  <2> QED BY <1>3, <2>1, <2>3, <2>4 DEF Inv
<1>7. CASE Kill
  <2>1. PICK s \in Services : port' = port \/ port' = [port EXCEPT ![s] = "free"]
    <3>1. Job.of \subseteq Services
      BY <1>2 DEF Job, Command
    <3> QED BY <1>7, <3>1 DEF Kill
  <2>2. /\ \E r \in {"succeeded", "failed"} : Result(r)
        /\ UNCHANGED <<files, plan>>
    BY <1>7 DEF Kill, disk
  <2>3. port' \in [Services -> Listener] /\ \A t \in Services : port'[t] = "own" => port[t] = "own"
    BY <1>0, <2>1 DEF Types, Listener
  <2>4. Types'
    BY <1>0, <1>1, <1>3, <2>2, <2>3 DEF Types
  <2>5. RunsUnderPlan' /\ NothingRuns'
    BY <1>0, <1>1, <1>3, <2>2, <2>3 DEF RunsUnderPlan, NothingRuns, Alive, At
  <2> QED BY <1>3, <2>2, <2>4, <2>5 DEF Inv
<1>8. CASE Stopped \/ Started
  <2>1. /\ \/ \E r \in {"succeeded", "failed"} : Result(r)
           \/ agent' = [agent EXCEPT !.then = "start", !.todo = Job.of] /\ agent.then = "stop"
        /\ UNCHANGED <<files, plan, port>>
    BY <1>8 DEF Stopped, Started, Does, machine, disk
  <2>2. Types'
    BY <1>0, <1>1, <1>3, <2>1 DEF Types
  <2>3. RunsUnderPlan' /\ NothingRuns'
    BY <1>0, <1>1, <1>3, <2>1 DEF RunsUnderPlan, NothingRuns, Alive, At
  <2> QED BY <1>3, <2>1, <2>2, <2>3 DEF Inv
<1> QED BY <1>4, <1>5, <1>6, <1>7, <1>8

(* One service after another is stopped, or started.                       *)
LEMMA ServiceStep ==
  ASSUME Names, Inv, NEW s \in Services, StopOne(s) \/ StartOne(s)
  PROVE  Inv'
<1>0. Types /\ JobFacts /\ RunsUnderPlan /\ agent.step = "acting" /\ agent.then \in {"stop", "start"} /\ agent \in Agent
      /\ s \in agent.todo
  BY DEF Inv, Types, StopOne, StartOne, Does, At
<1>1. UNCHANGED <<commands, view, files, plan, marks, slips, kills>>
  BY DEF StopOne, StartOne, store, disk
<1>2. /\ agent.job \in JobIds
      /\ \A t \in Services : /\ launched[agent.job][t] <= 1
                             /\ agent.then # "start" \/ t \in agent.todo => launched[agent.job][t] = 0
  BY <1>0 DEF JobFacts, AtWork, Launches, Unstarted, At
<1>3. \/ agent' = [agent EXCEPT !.todo = @ \ {s}]
      \/ Result("failed") /\ launched' = launched
  BY DEF StopOne, StartOne, Denied
<1>4. /\ agent' \in Agent /\ agent'.job = agent.job
      /\ \/ agent'.step = "acting" /\ agent'.then = agent.then /\ agent'.todo = agent.todo \ {s}
         \/ agent'.step = "result" /\ agent'.result = "failed" /\ launched' = launched
  <2>1. CASE agent' = [agent EXCEPT !.todo = @ \ {s}]
    BY <1>0, <2>1 DEF Agent
  <2>2. CASE Result("failed") /\ launched' = launched
    BY <1>0, <2>2, ResultIs
  <2> QED BY <1>3, <2>1, <2>2
<1>5. CASE UNCHANGED launched
  <2>1. JobFacts'
    BY <1>0, <1>1, <1>2, <1>4, <1>5, ActJobs
  <2>2. /\ owned' \in [Services -> Process \cup {None}] /\ port' \in [Services -> Listener]
        /\ \A t \in Services : /\ owned'[t] # None => owned[t] # None /\ owned'[t].rev = owned[t].rev
                               /\ port'[t] = "own" => owned'[t] # None /\ owned'[t].alive
    <3>1. CASE UNCHANGED <<owned, port>>
      BY <1>0, <3>1 DEF Types, RunsUnderPlan, Alive
    <3>2. CASE owned' = [owned EXCEPT ![s] = None] /\ port' = Freed(s)
      <4>1. /\ port' \in [Services -> Listener] /\ port'[s] # "own"
            /\ \A t \in Services \ {s} : port'[t] = port[t]
        BY <1>0, <3>2 DEF Freed, Types, Listener
      <4> QED BY <1>0, <3>2, <4>1 DEF Types, RunsUnderPlan, Alive
    <3>3. CASE owned[s] # None /\ owned' = [owned EXCEPT ![s].asked = TRUE] /\ port' = port
      <4>1. owned[s] \in Process /\ [owned[s] EXCEPT !.asked = TRUE] \in Process
            /\ [owned[s] EXCEPT !.asked = TRUE].rev = owned[s].rev
            /\ [owned[s] EXCEPT !.asked = TRUE].alive = owned[s].alive
        BY <1>0, <3>3 DEF Types, Process
      <4>2. /\ owned' \in [Services -> Process \cup {None}] /\ \A t \in Services \ {s} : owned'[t] = owned[t]
            /\ owned'[s] \in Process /\ owned'[s].rev = owned[s].rev /\ owned'[s].alive = owned[s].alive
        BY <1>0, <3>3, <4>1 DEF Types
      <4> QED BY <1>0, <3>3, <4>2 DEF Types, RunsUnderPlan, Alive, Names
    <3>4. CASE StopOne(s)
      BY <3>1, <3>2, <3>3, <3>4 DEF StopOne, Alive, Unconfirmed
    <3>5. CASE StartOne(s)
      <4>1. CASE UNCHANGED owned
        BY <3>1, <3>5, <4>1 DEF StartOne
      <4>2. CASE launched' = [launched EXCEPT ![agent.job][s] = @ + 1]
        <5>1. launched'[agent.job][s] = launched[agent.job][s] + 1 /\ launched[agent.job][s] \in Nat
          BY <1>0, <1>2, <4>2 DEF Types
        <5> QED BY <1>5, <5>1
      <4> QED BY <3>5, <4>1, <4>2 DEF StartOne, Denied
    <3> QED BY <3>4, <3>5
  <2>3. Types'
    BY <1>0, <1>1, <1>4, <1>5, <2>2 DEF Types
  <2>4. RunsUnderPlan'
    BY <1>1, <2>2, HeldKept
  <2>5. NothingRuns'
    BY <1>0, <1>4 DEF NothingRuns, At
  <2> QED BY <2>1, <2>3, <2>4, <2>5 DEF Inv
<1>6. CASE ~UNCHANGED launched
  <2> DEFINE new == [rev |-> plan.rev, alive |-> TRUE, asked |-> FALSE]
  <2>1. /\ agent.then = "start" /\ owned[s] = None /\ port[s] = "free" /\ UNCHANGED port
        /\ owned' = [owned EXCEPT ![s] = new]
        /\ launched' = [launched EXCEPT ![agent.job][s] = @ + 1]
    BY <1>6 DEF StopOne, StartOne, Does, Denied
  <2>2. new \in Process /\ new.rev = plan.rev
    BY <1>0 DEF Process, Types
  <2> HIDE DEF new
  <2>3. /\ owned' \in [Services -> Process \cup {None}] /\ owned'[s] = new
        /\ \A t \in Services \ {s} : owned'[t] = owned[t]
    BY <1>0, <2>1, <2>2 DEF Types
  <2>4. /\ launched' \in [JobIds -> [Services -> Nat]] /\ launched'[agent.job][s] = 1
        /\ \A j \in JobIds \ {agent.job} : launched'[j] = launched[j]
        /\ \A t \in Services \ {s} : launched'[agent.job][t] = launched[agent.job][t]
    <3>1. launched[agent.job][s] = 0
      BY <1>0, <1>2
    <3> QED BY <1>0, <1>2, <2>1, <3>1 DEF Types
  <2>5. agent'.step = "acting" /\ agent'.then = "start" /\ agent'.todo = agent.todo \ {s}
    BY <1>4, <1>6, <2>1
  <2>6. JobFacts'
    BY <1>0, <1>1, <1>2, <1>4, <2>4, <2>5, ActJobs
  <2>7. Types'
    BY <1>0, <1>1, <1>4, <2>1, <2>3, <2>4 DEF Types
  <2>8. RunsUnderPlan'
    BY <1>0, <1>1, <2>1, <2>2, <2>3 DEF RunsUnderPlan, Alive
  <2>9. NothingRuns'
    BY <2>5 DEF NothingRuns, At
  <2> QED BY <2>6, <2>7, <2>8, <2>9 DEF Inv
<1> QED BY <1>5, <1>6

(* The connector stops, and takes its services with it; its job stays      *)
(* claimed.                                                                *)
LEMMA HaltStep == ASSUME Names, Inv, Halt PROVE Inv'
<1>0. Types /\ JobFacts
  BY DEF Inv
<1>1. /\ UNCHANGED <<commands, view, files, plan, marks, slips, launched>> /\ kills' = kills + 1
      /\ agent' = Resting /\ owned' = [s \in Services |-> None]
      /\ port' = [s \in Services |-> IF port[s] = "own" THEN "free" ELSE port[s]]
  BY DEF Halt, store, disk
<1>2. agent' \in Agent /\ agent'.step = "idle"
  BY <1>1 DEF Names, Resting, Agent, Steps, Thens
<1>3. Types'
  <2>1. port' \in [Services -> Listener] /\ owned' \in [Services -> Process \cup {None}] /\ kills' \in Nat
    BY <1>0, <1>1 DEF Types, Listener
  <2> QED BY <1>0, <1>1, <1>2, <2>1 DEF Types
<1>4. JobFacts'
  BY <1>0, <1>1, <1>2 DEF JobFacts, Requested, Busy, AtWork, Launches, Unstarted, At, Receipts
<1>5. RunsUnderPlan' /\ NothingRuns'
  BY <1>1, <1>2 DEF RunsUnderPlan, NothingRuns, Alive, At
<1> QED BY <1>3, <1>4, <1>5 DEF Inv

(* Every step keeps the invariant.                                         *)
LEMMA NextInv == Names /\ Inv /\ [Next]_vars => Inv'
<1> SUFFICES ASSUME Names, Inv, [Next]_vars
             PROVE  Inv'
  OBVIOUS
<1>1. ASSUME NEW j \in JobIds, NEW op \in Ops, NEW of \in (SUBSET Services) \ {{}}, Request(j, op, of)
      PROVE  Inv'
  BY <1>1, RequestStep
<1>2. CASE \/ Forget \/ Bar \/ Edit \/ Observe
           \/ \E j \in JobIds : Age(j)
           \/ \E s \in Services : Listen(s) \/ Exit(s) \/ Timeout(s) \/ Close(s) \/ \E x \in Strangers : Stranger(s, x)
  BY <1>2, MachineStep
<1>3. CASE Halt
  BY <1>3, HaltStep
<1>4. ASSUME NEW j \in JobIds, Claim(j)
      PROVE  Inv'
  BY <1>4, ClaimStep
<1>5. CASE Begin \/ Examine \/ Receipt \/ Complete
  BY <1>5, BeginStep, ExamineStep, AnswerStep
<1>6. CASE Configure \/ Save \/ Advance \/ Kill \/ Stopped \/ Started
  BY <1>6, PlanStep
<1>7. ASSUME NEW s \in Services, StopOne(s) \/ StartOne(s)
      PROVE  Inv'
  BY <1>7, ServiceStep
<1>8. CASE UNCHANGED vars
  <2>1. UNCHANGED <<commands, view, agent, plan, files, kills, marks, slips, owned, port, launched>>
    BY <1>8 DEF vars, store, disk, machine
  <2>2. JobFacts'
    BY <2>1, JobsKept DEF Inv
  <2> QED BY <2>1, <2>2 DEF Inv, Types, RunsUnderPlan, NothingRuns, Alive, At
<1> QED BY <1>1, <1>2, <1>3, <1>4, <1>5, <1>6, <1>7, <1>8 DEF Next, Loop, Ops

(* What the invariant says to a reader.                                    *)
LEMMA InvImplies == Names /\ Inv => TypeOK /\ NeverReplayed /\ RunsUnderPlan
<1> SUFFICES ASSUME Names, Inv
             PROVE  TypeOK /\ NeverReplayed /\ RunsUnderPlan
  OBVIOUS
<1>1. NeverReplayed /\ RunsUnderPlan
  BY DEF Inv, JobFacts, Launches, Receipts, NeverReplayed
<1>2. Cardinality({j \in JobIds : Busy(j)}) <= 1
  <2>1. CASE {j \in JobIds : Busy(j)} = {}
    BY <2>1, FS_EmptySet
  <2>2. CASE {j \in JobIds : Busy(j)} # {}
    <3>1. PICK i \in JobIds : Busy(i)
      BY <2>2
    <3>2. {j \in JobIds : Busy(j)} = {i}
      BY <3>1 DEF Inv, JobFacts, Requested
    <3> QED BY <3>2, FS_Singleton
  <2> QED BY <2>1, <2>2
<1>3. \A j \in JobIds : commands[j].status \in Statuses
  BY DEF Inv, Types, Command
<1>4. TypeOK
  BY <1>2, <1>3 DEF TypeOK, Inv, Types, Slip, Listener, Statuses
<1> QED BY <1>1, <1>4

(* The invariant holds for ever.                                           *)
LEMMA InvHolds == ASSUME Names PROVE Spec => []Inv
<1> QED BY InitInv, NextInv, PTL DEF Spec

(* A stranger leaves a port in the middle of a job only where it is the    *)
(* process the job was asked to kill.                                      *)
LEMMA StepShown == ASSUME Names, Inv, [Next]_vars PROVE StopsWhatWasShown
<1> SUFFICES ASSUME NEW s \in Services, At("acting"), agent'.step # "acting",
                    port[s] \in Strangers, port'[s] = "free"
             PROVE  Job.op = "kill" /\ Job.of = {s} /\ port[s] = Job.who
  BY DEF StopsWhatWasShown
<1>0. Types /\ JobFacts /\ agent.step = "acting" /\ agent \in Agent /\ port[s] # "free" /\ port[s] # "own"
  BY DEF Inv, Types, At, Names
<1>1. CASE Kill
  <2>1. PICK t \in Job.of : Verified(t) /\ port' = [port EXCEPT ![t] = "free"]
    BY <1>0, <1>1 DEF Kill, Types
  <2>2. Job.op = "kill" /\ agent.job \in JobIds
    BY <1>0, <1>1 DEF Kill, Does, JobFacts, AtWork, At
  <2>3. PICK x \in Services : Job.of = {x}
    BY <1>0, <2>2 DEF JobFacts, Requested, Job
  <2>4. t = x /\ t = s
    BY <1>0, <2>1, <2>3 DEF Types
  <2> QED BY <2>1, <2>2, <2>3, <2>4 DEF Verified
<1>2. CASE Configure \/ Save \/ Advance \/ Stopped \/ Started
  BY <1>0, <1>2 DEF Configure, Save, Advance, Stopped, Started, machine
<1>3. ASSUME NEW t \in Services, StopOne(t) \/ StartOne(t)
      PROVE  UNCHANGED port \/ agent'.step = "acting"
  <2>1. CASE agent' = [agent EXCEPT !.todo = @ \ {t}]
    BY <1>0, <2>1 DEF Agent
  <2>2. CASE ~(agent' = [agent EXCEPT !.todo = @ \ {t}])
    BY <1>3, <2>2 DEF StopOne, StartOne
  <2> QED BY <2>1, <2>2
<1>4. CASE Halt
  BY <1>0, <1>4 DEF Halt
<1>5. CASE Begin \/ Examine \/ Receipt \/ Complete
  BY <1>0, <1>5 DEF Begin, Examine, Receipt, Complete, At
<1>6. CASE \E j \in JobIds : Claim(j)
  BY <1>0, <1>6 DEF Claim, At
<1>7. CASE \/ Forget \/ Bar \/ Edit \/ Observe
           \/ \E j \in JobIds : Age(j)
           \/ \E t \in Services : Listen(t) \/ Exit(t) \/ Timeout(t) \/ Close(t) \/ \E x \in Strangers : Stranger(t, x)
  <2>1. agent' = agent
    BY <1>7 DEF Forget, Bar, Edit, Observe, Age, Listen, Exit, Timeout, Close, Stranger
  <2> QED BY <1>0, <2>1
<1>8. CASE \E j \in JobIds, op \in Ops, of \in (SUBSET Services) \ {{}} : Request(j, op, of)
  <2>1. agent' = agent
    BY <1>8 DEF Request
  <2> QED BY <1>0, <2>1
<1>9. CASE UNCHANGED vars
  <2>1. agent' = agent
    BY <1>9 DEF vars
  <2> QED BY <1>0, <2>1
<1>10. CASE \E t \in Services : StopOne(t) \/ StartOne(t)
  BY <1>0, <1>3, <1>10
<1> QED BY <1>1, <1>2, <1>4, <1>5, <1>6, <1>7, <1>8, <1>9, <1>10 DEF Next, Loop, Ops

--------------------------------------------------------------------------------
(***************************************************************************)
(* What local development keeps to.                                        *)
(***************************************************************************)

(* However often a job is handed out and wherever the connector stops, the *)
(* job starts a service once at most, and is said to have succeeded only   *)
(* where its receipt says so (LocalDevelopment.cjs:909).                   *)
THEOREM JobsAreNotReplayed == ASSUME Names PROVE Spec => []NeverReplayed
<1> QED BY InvHolds, InvImplies, PTL

(* A service that listens is held, and runs under the plan as it is,       *)
(* whatever is edited, saved or reconfigured meanwhile                     *)
(* (LocalDevelopment.cjs:698-708, 990-1001).                               *)
THEOREM ServicesFollowThePlan == ASSUME Names PROVE Spec => []RunsUnderPlan
<1> QED BY InvHolds, InvImplies, PTL

(* No process is stopped but the one the developer was shown and chose     *)
(* (LocalDevelopment.cjs:1007-1019).                                       *)
THEOREM StrangersAreShown == ASSUME Names PROVE Spec => [][StopsWhatWasShown]_vars
<1>1. Names /\ Inv /\ [Next]_vars => [StopsWhatWasShown]_vars
  BY StepShown
<1> QED BY <1>1, InvHolds, PTL DEF Spec
================================================================================
