---------------------------- MODULE LocalDevelopment ----------------------------
(***************************************************************************)
(* Development services on a developer's own machine: the job store of the *)
(* control plane (apps/control-plane/src/local-development.ts) and the     *)
(* runtime inside the connector that obeys it                              *)
(* (deployment/servix/LocalDevelopment.cjs), with the controllers that hold*)
(* the application processes and the editor of environment files.          *)
(*                                                                         *)
(* One device.  A job is a number, in the order of the requests; a state of*)
(* the developer's files is a number too, and stands for the fingerprint   *)
(* the runtime computes of it.  The runtime does one thing at a time (its  *)
(* promise chain), while processes exit, strangers take ports, files are   *)
(* edited, and the connector stops, which takes its services with it.      *)
(***************************************************************************)
EXTENDS Naturals, FiniteSets

CONSTANTS
  Services,    (* the services of the plan                                  *)
  Strangers,   (* processes of the project that the connector did not start *)
  None,
  MayTear,     (* whether a stop may leave half a receipt                   *)
  FirstPlan,   (* revision of the plan there is at first, 0 when there is none *)
  MaxJobs,     (* bound: jobs requested                                     *)
  MaxEdits,    (* bound: changes of the files                               *)
  MaxKills     (* bound: stops of the connector                             *)

VARIABLES
  commands,    (* local-development/ld_*.json of the control plane          *)
  stale,       (* the jobs whose two minutes have passed                    *)
  view,        (* the last observation, None when there is none             *)
  barred,      (* whether the device is revoked                             *)
  agent,       (* what the connector's loop does                            *)
  plan,        (* configuration.json                                        *)
  files,       (* the state of the developer's files                        *)
  marks,       (* ld_*.claim                                                *)
  slips,       (* ld_*.receipt.json                                         *)
  owned,       (* controllers: of each service, None or its process         *)
  shown,       (* states: what the runtime says of each service             *)
  port,        (* who listens on the port of each service                   *)
  launched,    (* how often each job has started each service               *)
  kills        (* stops of the connector so far                             *)

store   == <<commands, stale, view, barred>>
disk    == <<plan, marks, slips>>
machine == <<owned, shown, port>>
vars    == <<store, agent, files, disk, machine, launched, kills>>

--------------------------------------------------------------------------------
JobIds   == 1 .. MaxJobs
Unasked  == [status |-> "none", op |-> "stop", of |-> {}, rev |-> 0, files |-> 0, key |-> 0, who |-> None]
Resting  == [step |-> "idle", job |-> 0, todo |-> {}, then |-> "stop", result |-> "none"]

Init ==
  /\ commands = [j \in JobIds |-> Unasked] /\ stale = {} /\ view = None /\ barred = FALSE
  /\ agent = Resting /\ files = 0 /\ plan = [rev |-> FirstPlan, files |-> 0]
  /\ marks = {} /\ slips = [j \in JobIds |-> "none"]
  /\ owned = [s \in Services |-> None] /\ shown = [s \in Services |-> "stopped"]
  /\ port = [s \in Services |-> "free"]
  /\ launched = [j \in JobIds |-> [s \in Services |-> 0]] /\ kills = 0

Busy(j)  == commands[j].status \in {"queued", "working"}
IsNext(j) == commands[j].status = "none" /\ \A i \in 1 .. j - 1 : commands[i].status # "none"
Mark(j, status) == commands' = [commands EXCEPT ![j].status = status]

--------------------------------------------------------------------------------
(* The control plane.                                                      *)

(* What the last observation permits (kill-existing names the process that *)
(* was seen).  A plan exists once its revision is not zero.                *)
Permitted(op, of) ==
  CASE op = "configure" -> view.idle /\ of = Services
    [] op = "save" -> view.idle /\ of = Services /\ \A s \in Services : view.seen[s] = None
    [] op = "kill" -> \E s \in of : of = {s} /\ view.seen[s] # None /\ view.rev > 0
    [] op = "stop" -> TRUE
    [] OTHER       -> view.rev > 0

Request(j, op, of) ==
  /\ IsNext(j) /\ ~barred /\ view # None
  /\ \A i \in JobIds : ~Busy(i)
  /\ Permitted(op, of)
  /\ commands' = [commands EXCEPT ![j] =
       [status |-> "queued", op |-> op, of |-> of, rev |-> view.rev, files |-> view.files, key |-> view.key,
        who |-> IF op = "kill" THEN view.seen[CHOOSE s \in of : TRUE] ELSE None]]
  /\ UNCHANGED <<stale, view, barred, agent, files, disk, machine, launched, kills>>

Age(j) ==
  /\ commands[j].status = "queued" /\ j \notin stale
  /\ stale' = stale \cup {j}
  /\ UNCHANGED <<commands, view, barred, agent, files, disk, machine, launched, kills>>

(* An observation counts for twenty seconds, and is lost in a restart.     *)
Forget ==
  /\ view # None
  /\ view' = None
  /\ UNCHANGED <<commands, stale, barred, agent, files, disk, machine, launched, kills>>

Bar ==
  /\ ~barred
  /\ barred' = TRUE
  /\ UNCHANGED <<commands, stale, view, agent, files, disk, machine, launched, kills>>

--------------------------------------------------------------------------------
(* The machine.                                                            *)

Alive(s)   == owned[s] # None /\ owned[s].alive
Freed(s)   == [port EXCEPT ![s] = IF @ = "own" THEN "free" ELSE @]
AsFor(s, what) == shown' = [shown EXCEPT ![s] = what]

(* A process of the connector begins to listen.                            *)
Listen(s) ==
  /\ Alive(s) /\ port[s] = "free"
  /\ port' = [port EXCEPT ![s] = "own"]
  /\ UNCHANGED <<store, agent, files, disk, owned, shown, launched, kills>>

(* It exits.  The handler forgets a process nobody asked to stop; one that *)
(* was asked and did not confirm in time stays until it is stopped again.  *)
Exit(s) ==
  /\ Alive(s)
  /\ port' = Freed(s)
  /\ IF owned[s].asked
     THEN owned' = [owned EXCEPT ![s].alive = FALSE] /\ UNCHANGED shown
     ELSE owned' = [owned EXCEPT ![s] = None] /\ AsFor(s, "failed")
  /\ UNCHANGED <<store, agent, files, disk, launched, kills>>

(* A process that was told to stop does.                                   *)
Obey(s) == Alive(s) /\ owned[s].asked /\ Exit(s)

(* A stranger takes a port, or gives it up.                                *)
Stranger(s, x) ==
  /\ \/ port[s] = "free" /\ (\A t \in Services : port[t] # x) /\ port' = [port EXCEPT ![s] = x]
     \/ port[s] = x /\ port' = [port EXCEPT ![s] = "free"]
  /\ UNCHANGED <<store, agent, files, disk, owned, shown, launched, kills>>

Edit ==
  /\ files < MaxEdits
  /\ files' = files + 1
  /\ UNCHANGED <<store, agent, disk, machine, launched, kills>>

--------------------------------------------------------------------------------
(* The runtime: what its chain serializes.                                 *)

At(step)    == agent.step = step
Job         == commands[agent.job]
Result(r)   == agent' = [agent EXCEPT !.step = "result", !.result = r, !.todo = {}]
ChainFree   == agent.step \in {"idle", "given", "report"}

(* What the runtime finds in the checkout: its services, their scripts and *)
(* environment files.                                                      *)
Fingerprint == files

(* What a snapshot makes of a service that is not overdue: a stranger of   *)
(* the project that listens for it counts as the service itself.           *)
Seen(s) ==
  IF owned[s] # None
  THEN IF port[s] = "free" THEN shown[s] ELSE "running"
  ELSE IF port[s] \in Strangers THEN "conflict"
       ELSE IF shown[s] = "conflict" THEN "stopped" ELSE shown[s]

Identity(s) == IF owned[s] = None /\ port[s] \in Strangers THEN port[s] ELSE None

(* A service that was started three minutes ago and does not listen.       *)
Overdue(s)  == owned[s] # None /\ port[s] = "free"

(* snapshot: which of the services are overdue is up to the clock; those   *)
(* that do not stop in fifteen seconds make the snapshot fail.             *)
Timeout(s) ==
  /\ At("idle") /\ Overdue(s)
  /\ \/ owned' = [owned EXCEPT ![s] = None] /\ AsFor(s, "failed")
     \/ owned' = [owned EXCEPT ![s].asked = TRUE] /\ owned[s].alive /\ UNCHANGED shown
  /\ UNCHANGED <<store, agent, files, disk, port, launched, kills>>

Observe ==
  /\ ChainFree /\ ~barred
  /\ shown' = [s \in Services |-> Seen(s)]
  /\ view' = [rev |-> plan.rev, files |-> Fingerprint, key |-> kills,
              idle |-> \A s \in Services : shown'[s] \notin {"starting", "running"},
              seen |-> [s \in Services |-> Identity(s)]]
  /\ UNCHANGED <<commands, stale, barred, agent, files, disk, owned, port, launched, kills>>

(* claim: a job that was queued too long is failed, and one that is working*)
(* already is given again.                                                 *)
Claimable(j) == Busy(j)
Claim(j) ==
  /\ At("idle") /\ ~barred /\ Claimable(j)
  /\ IF commands[j].status = "queued" /\ j \in stale
     THEN Mark(j, "failed") /\ UNCHANGED agent
     ELSE /\ Mark(j, "working")
          /\ \/ agent' = [agent EXCEPT !.step = "given", !.job = j]
             \/ UNCHANGED agent            (* the answer is lost            *)
  /\ UNCHANGED <<stale, view, barred, files, disk, machine, launched, kills>>

(* executeInternal: a receipt answers, a claim without one is never        *)
(* replayed, and half a receipt is an error that answers nothing.          *)
(* Faulty form of Fresh: whoever finds the claim takes it over.            *)
FreshAlways(j) == TRUE
Fresh(j) == j \notin marks
Begin ==
  /\ At("given")
  /\ LET j == agent.job
     IN \/ /\ slips[j] = "torn" /\ agent' = Resting /\ UNCHANGED marks
        \/ /\ slips[j] \notin {"none", "torn"}
           /\ agent' = [agent EXCEPT !.step = "report", !.result = slips[j]] /\ UNCHANGED marks
        \/ /\ slips[j] = "none" /\ ~Fresh(j)
           /\ agent' = [agent EXCEPT !.step = "report", !.result = "recovery-required"] /\ UNCHANGED marks
        \/ /\ slips[j] = "none" /\ Fresh(j)
           /\ marks' = marks \cup {j}
           /\ agent' = [agent EXCEPT !.step = "begun"]
  /\ UNCHANGED <<store, files, plan, slips, machine, launched, kills>>

(* Faulty form of HasRunning: the look of the last observation will do.    *)
HasRunningObserved == view # None /\ ~view.idle
HasRunning == \E s \in Services : owned[s] # None

(* The snapshot taken inside the chain, and what each operation asks of it.*)
(* A clock that ran out, a source that cannot be read, a prerequisite that *)
(* is missing: each fails the job.                                         *)
Current     == Job.rev = plan.rev /\ Job.files = Fingerprint
Restartable == plan.rev > 0 /\ plan.files = Fingerprint
Admissible ==
  CASE Job.op = "configure" -> ~HasRunning
    [] Job.op = "save"      -> ~HasRunning /\ (\A s \in Services : port[s] = "free") /\ Job.key = kills
    [] Job.op = "start"     -> Restartable
    [] Job.op = "kill"      -> \E s \in Job.of : Identity(s) = Job.who
    [] OTHER                -> TRUE

Examine ==
  /\ At("begun")
  /\ \/ /\ Current /\ Admissible
        /\ agent' = [agent EXCEPT !.step = "acting", !.todo = Job.of,
                                  !.then = IF Job.op = "restart" THEN "stop" ELSE Job.op]
        /\ shown' = [s \in Services |-> Seen(s)]
     \/ Result("failed") /\ UNCHANGED shown
  /\ UNCHANGED <<store, files, disk, owned, port, launched, kills>>

Does(op) == At("acting") /\ agent.then = op

(* configure: the plan is replaced as a whole.                             *)
Configure ==
  /\ Does("configure")
  /\ plan' = [rev |-> plan.rev + 1, files |-> Job.files]
  /\ shown' = [s \in Services |-> "stopped"]
  /\ Result("succeeded")
  /\ UNCHANGED <<store, files, marks, slips, owned, port, launched, kills>>

(* environment-save: the editor writes the file it has read, and nothing   *)
(* but that; then the plan takes the fingerprint of the files as they are. *)
Save ==
  /\ Does("save")
  /\ \/ /\ files = Job.files /\ files < MaxEdits
        /\ files' = files + 1
        /\ agent' = [agent EXCEPT !.then = "saved"]
     \/ Result("failed") /\ UNCHANGED files
  /\ UNCHANGED <<store, disk, machine, launched, kills>>

Advance ==
  /\ Does("saved")
  /\ plan' = IF plan.rev = 0 THEN plan ELSE [rev |-> plan.rev + 1, files |-> files]
  /\ Result("succeeded")
  /\ UNCHANGED <<store, files, marks, slips, machine, launched, kills>>

Verified(s) == port[s] = Job.who

(* kill-existing: the identity is compared again next to the kill.         *)
Kill ==
  /\ Does("kill")
  /\ \E s \in Job.of :
       \/ /\ Verified(s)
          /\ port' = [port EXCEPT ![s] = "free"] /\ AsFor(s, "stopped")
          /\ Result("succeeded")
       \/ Result("failed") /\ UNCHANGED <<port, shown>>
  /\ UNCHANGED <<store, files, disk, owned, launched, kills>>

(* stop: a process that does not end in fifteen seconds stays held.        *)
Unconfirmed(s) == owned' = [owned EXCEPT ![s].asked = TRUE]
StopOne(s) ==
  /\ Does("stop") /\ s \in agent.todo
  /\ \/ /\ owned[s] = None /\ UNCHANGED <<owned, shown, port>>
        /\ agent' = [agent EXCEPT !.todo = @ \ {s}]
     \/ /\ owned[s] # None
        /\ owned' = [owned EXCEPT ![s] = None] /\ AsFor(s, "stopped") /\ port' = Freed(s)
        /\ agent' = [agent EXCEPT !.todo = @ \ {s}]
     \/ /\ Alive(s)
        /\ Unconfirmed(s)
        /\ Result("failed") /\ UNCHANGED <<shown, port>>
  /\ UNCHANGED <<store, files, disk, launched, kills>>

Stopped ==
  /\ Does("stop") /\ agent.todo = {}
  /\ IF Job.op = "restart" /\ Restartable
     THEN agent' = [agent EXCEPT !.then = "start", !.todo = Job.of]
     ELSE Result(IF Job.op = "restart" THEN "failed" ELSE "succeeded")
  /\ UNCHANGED <<store, files, disk, machine, launched, kills>>

(* A port in use, a prerequisite, an environment or a database that is not *)
(* as it must be, a command that is not there: the service does not start. *)
Denied(s) ==
  /\ Result("failed")
  /\ IF owned[s] = None THEN AsFor(s, "failed") ELSE UNCHANGED shown
  /\ UNCHANGED <<owned, launched>>

(* launch: one service after another.  A service that runs is left alone;  *)
(* the first that cannot be started fails the job, and those before it run.*)
StartOne(s) ==
  /\ Does("start") /\ s \in agent.todo
  /\ \/ /\ owned[s] # None
        /\ agent' = [agent EXCEPT !.todo = @ \ {s}] /\ UNCHANGED <<owned, shown, launched>>
     \/ /\ owned[s] = None /\ port[s] = "free"
        /\ owned' = [owned EXCEPT ![s] = [rev |-> plan.rev, alive |-> TRUE, asked |-> FALSE]]
        /\ AsFor(s, "starting")
        /\ launched' = [launched EXCEPT ![agent.job][s] = @ + 1]
        /\ agent' = [agent EXCEPT !.todo = @ \ {s}]
     \/ Denied(s)
  /\ UNCHANGED <<store, files, disk, port, kills>>

Started ==
  /\ Does("start") /\ agent.todo = {}
  /\ Result("succeeded")
  /\ UNCHANGED <<store, files, disk, machine, launched, kills>>

(* The receipt is written in place.                                        *)
Receipt ==
  /\ At("result")
  /\ \/ MayTear /\ slips[agent.job] = "none" /\ slips' = [slips EXCEPT ![agent.job] = "torn"] /\ UNCHANGED agent
     \/ /\ slips' = [slips EXCEPT ![agent.job] = agent.result]
        /\ agent' = [agent EXCEPT !.step = "report"]
  /\ UNCHANGED <<store, files, plan, marks, machine, launched, kills>>

(* complete: accepted from a job that is working; lost, it is sent again   *)
(* when the job is claimed again.                                          *)
Complete ==
  /\ At("report")
  /\ \/ ~barred /\ Job.status = "working" /\ Mark(agent.job, agent.result)
     \/ UNCHANGED commands
  /\ agent' = Resting
  /\ UNCHANGED <<stale, view, barred, files, disk, machine, launched, kills>>

(* A device that is turned away stops its services.                        *)
Close(s) ==
  /\ At("idle") /\ barred /\ owned[s] # None
  /\ \/ owned' = [owned EXCEPT ![s] = None] /\ AsFor(s, "stopped") /\ port' = Freed(s)
     \/ Alive(s) /\ ~owned[s].asked /\ owned' = [owned EXCEPT ![s].asked = TRUE] /\ UNCHANGED <<shown, port>>
  /\ UNCHANGED <<store, agent, files, disk, launched, kills>>

(* The connector stops at any moment.  Its services go with it: they share *)
(* a job object, or a unit bound to its own.                               *)
Halt ==
  /\ kills < MaxKills
  /\ kills' = kills + 1
  /\ agent' = Resting
  /\ owned' = [s \in Services |-> None] /\ shown' = [s \in Services |-> "stopped"]
  /\ port' = [s \in Services |-> IF port[s] = "own" THEN "free" ELSE port[s]]
  /\ UNCHANGED <<store, files, disk, launched>>

--------------------------------------------------------------------------------
Loop ==
  \/ \E j \in JobIds : Claim(j)
  \/ Begin \/ Examine \/ Configure \/ Save \/ Advance \/ Kill \/ Stopped \/ Started \/ Receipt \/ Complete
  \/ \E s \in Services : StopOne(s) \/ StartOne(s) \/ Close(s)

Next ==
  \/ \E j \in JobIds :
       \/ \E op \in {"start", "stop", "restart", "kill", "configure", "save"}, of \in (SUBSET Services) \ {{}} :
            Request(j, op, of)
       \/ Age(j)
  \/ Forget \/ Bar \/ Edit \/ Observe \/ Halt
  \/ \E s \in Services : Listen(s) \/ Exit(s) \/ Timeout(s) \/ \E x \in Strangers : Stranger(s, x)
  \/ Loop

Spec == Init /\ [][Next]_vars

(* A completion, and the answer to a claim, that are not lost.             *)
Answered == Complete /\ commands' # commands
Given(j) == Claim(j) /\ agent' # agent

(* The loop turns every two seconds, completions are repeated as long as   *)
(* they are lost, and a process that was told to stop ends.                *)
FairSpec ==
  /\ Spec
  /\ WF_vars(Loop)
  /\ SF_vars(Answered)
  /\ \A j \in JobIds : SF_vars(Given(j))
  /\ \A s \in Services : WF_vars(Obey(s))

--------------------------------------------------------------------------------
(* Properties.                                                             *)

Ended == {"succeeded", "failed", "recovery-required"}
TypeOK ==
  /\ \A j \in JobIds : commands[j].status \in {"none", "queued", "working"} \cup Ended
  /\ slips \in [JobIds -> {"none", "torn", "succeeded", "failed"}] /\ marks \subseteq JobIds
  /\ \A s \in Services : port[s] \in {"free", "own"} \cup Strangers
  /\ Cardinality({j \in JobIds : Busy(j)}) <= 1

(* "An interrupted unreceipted claim is never blindly replayed"            *)
(* (LOCAL_DEVELOPMENT_HANDOFF.md:60): however often a job is handed out, and*)
(* wherever the connector stops, it starts a service once at most; and a   *)
(* job that is said to have succeeded has a receipt that says so.          *)
NeverReplayed ==
  /\ \A j \in JobIds, s \in Services : launched[j][s] <= 1
  /\ \A j \in JobIds : /\ commands[j].status = "succeeded" => slips[j] = "succeeded"
                     /\ commands[j].status = "recovery-required" => slips[j] = "none" /\ j \in marks

(* A service that listens is held by the connector, and was started under  *)
(* the plan as it is: neither a stop that is not confirmed in time, nor an *)
(* observation that came too early, lets the plan change under a service   *)
(* (LocalDevelopment.cjs:698-708, 964-1001).                               *)
RunsUnderPlan ==
  \A s \in Services : /\ port[s] = "own" => Alive(s)
                      /\ owned[s] # None => owned[s].rev = plan.rev

(* A stranger is stopped only if it is the process the developer was shown *)
(* and chose, whatever came to the port in between                         *)
(* (LocalDevelopment.cjs:1007-1019, LocalDevProcesses.ps1:47-53).          *)
StopsWhatWasShown ==
  \A s \in Services :
    At("acting") /\ agent'.step # "acting" /\ port[s] \in Strangers /\ port'[s] = "free" =>
      /\ Job.op = "kill" /\ Job.of = {s}
      /\ port[s] = Job.who

(* A job that is handed out is answered in the end, so that the device is  *)
(* free for the next, unless the device is revoked; and a device that is   *)
(* revoked stops its services.                                             *)
Unanswered(j) == commands[j].status = "working" /\ ~barred
Abandoned     == barred /\ HasRunning
JobsEnd ==
  /\ \A j \in JobIds : Unanswered(j) ~> ~Unanswered(j)
  /\ Abandoned ~> ~Abandoned
================================================================================
