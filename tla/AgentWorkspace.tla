----------------------------- MODULE AgentWorkspace ------------------------------
(***************************************************************************)
(* Specialist agents of a member: a connection to a language model, an     *)
(* agent with guardrails, and the runs that ask the model a question       *)
(* (apps/control-plane/src/agent-workspace.ts).                            *)
(*                                                                         *)
(* One connection and one agent, both known by their revision: 0 is absent,*)
(* and another revision is another configuration.  What changes them goes  *)
(* through one chain; the runs and the test of a connection do not, they   *)
(* read and write between its steps.                                       *)
(***************************************************************************)
EXTENDS Naturals, FiniteSets

CONSTANTS
  Runs,         (* the runs there may be                                    *)
  MaxModels,    (* bound: revisions of the connection                       *)
  MaxAgents,    (* bound: revisions of the agent                            *)
  MaxProposals, (* bound: proposals for the connection                      *)
  MaxHaltings   (* bound: stops of the control plane                        *)

VARIABLES
  model,        (* revision of the connection (mc_*.json)                   *)
  agentAt,      (* revision of the agent (ag_*.json)                        *)
  enabledAt,    (* the revisions of the agent that are enabled              *)
  memories,     (* the revisions whose skills and memory are on disk        *)
  tested,       (* the last test (mc_*.test.json)                           *)
  runs,         (* ar_*.json                                                *)
  inChain,      (* what the chain is in the middle of                       *)
  drafts,       (* the proposals, in memory; the consumed ones, on disk     *)
  testing,      (* the test under way                                       *)
  work,         (* the step of execute of each run                          *)
  aged,         (* the runs that are older than ninety seconds              *)
  proven,       (* revisions of the connection an answer came from          *)
  askedUnder,   (* the revisions in force when a run asked the model        *)
  haltings

config  == <<model, agentAt, enabledAt, memories>>
memory  == <<inChain, drafts, testing, work>>
history == <<aged, proven, askedUnder, haltings>>
vars    == <<config, tested, runs, memory, history>>

--------------------------------------------------------------------------------
Proposals == 1 .. MaxProposals
NoRun     == [status |-> "none", agent |-> 0, model |-> 0]
NoTest    == [step |-> "none", model |-> 0, ready |-> FALSE]
Idle      == [does |-> "nothing", of |-> 0]

Init ==
  /\ model = 0 /\ agentAt = 0 /\ enabledAt = {} /\ memories = {}
  /\ tested = [model |-> 0, ready |-> FALSE]
  /\ runs = [r \in Runs |-> NoRun] /\ work = [r \in Runs |-> "none"]
  /\ inChain = Idle /\ testing = NoTest
  /\ drafts = [p \in Proposals |-> [status |-> "none", expects |-> 0]]
  /\ aged = {} /\ proven = {} /\ askedUnder = [r \in Runs |-> <<0, 0>>] /\ haltings = 0

Active == {r \in Runs : work[r] # "none"}

--------------------------------------------------------------------------------
(* The connection.                                                         *)

Prepare(p) ==
  /\ inChain = Idle
  /\ drafts[p].status = "none" /\ \A q \in 1 .. p - 1 : drafts[q].status # "none"
  /\ model < MaxModels
  /\ drafts' = [drafts EXCEPT ![p] = [status |-> "open", expects |-> model]]
  /\ UNCHANGED <<config, tested, runs, inChain, testing, work, history>>

(* Five minutes pass.                                                      *)
Lapse(p) ==
  /\ drafts[p].status = "open"
  /\ drafts' = [drafts EXCEPT ![p].status = "lapsed"]
  /\ UNCHANGED <<config, tested, runs, inChain, testing, work, history>>

(* commitModel: a proposal is spent on disk before the connection changes. *)
Consume(p) ==
  /\ inChain = Idle
  /\ drafts[p].status = "open" /\ drafts[p].expects = model
  /\ drafts' = [drafts EXCEPT ![p].status = "consumed"]
  /\ inChain' = [does |-> "model", of |-> drafts[p].expects + 1]
  /\ UNCHANGED <<config, tested, runs, testing, work, history>>

CommitModel ==
  /\ inChain.does = "model"
  /\ model' = inChain.of /\ inChain' = Idle
  /\ UNCHANGED <<agentAt, enabledAt, memories, tested, runs, drafts, testing, work, history>>

(* testModel: outside the chain, on the connection as it was read.         *)
BeginTest ==
  /\ model > 0 /\ testing = NoTest
  /\ testing' = [step |-> "asking", model |-> model, ready |-> FALSE]
  /\ UNCHANGED <<config, tested, runs, inChain, drafts, work, history>>

EndTest ==
  /\ testing.step = "asking"
  /\ \/ /\ testing' = [testing EXCEPT !.step = "asked", !.ready = TRUE]
        /\ proven' = proven \cup {testing.model}
     \/ testing' = [testing EXCEPT !.step = "asked"] /\ UNCHANGED proven
     \/ testing' = NoTest /\ UNCHANGED proven          (* access withdrawn  *)
  /\ UNCHANGED <<config, tested, runs, inChain, drafts, work, aged, askedUnder, haltings>>

(* Faulty form of TestedAt: the result is filed under today's revision.    *)
TestedAtPresent(at) == model
TestedAt(at) == at

SaveTest ==
  /\ testing.step = "asked"
  /\ tested' = [model |-> TestedAt(testing.model), ready |-> testing.ready]
  /\ testing' = NoTest
  /\ UNCHANGED <<config, runs, inChain, drafts, work, history>>

--------------------------------------------------------------------------------
(* The agent: skills and memory are written first, each under a name that  *)
(* carries the revision and must be free; the record follows.              *)
(* Faulty form of WriteMemory: the record is written first.                *)
WriteMemoryLast ==
  /\ inChain = Idle
  /\ model > 0 /\ agentAt < MaxAgents /\ agentAt + 1 \notin memories
  /\ inChain' = [does |-> "agent", of |-> agentAt + 1]
  /\ agentAt' = agentAt + 1
  /\ UNCHANGED <<model, enabledAt, memories, tested, runs, drafts, testing, work, history>>
WriteMemory ==
  /\ inChain = Idle
  /\ model > 0 /\ agentAt < MaxAgents /\ agentAt + 1 \notin memories
  /\ memories' = memories \cup {agentAt + 1}
  /\ inChain' = [does |-> "agent", of |-> agentAt + 1]
  /\ UNCHANGED <<model, agentAt, enabledAt, tested, runs, drafts, testing, work, history>>

SaveAgent(enabled) ==
  /\ inChain.does = "agent"
  /\ agentAt' = inChain.of /\ inChain' = Idle
  /\ enabledAt' = IF enabled THEN enabledAt \cup {inChain.of} ELSE enabledAt
  /\ UNCHANGED <<model, memories, tested, runs, drafts, testing, work, history>>

--------------------------------------------------------------------------------
(* Runs.                                                                   *)

Steps(r, step) ==
  /\ work' = [work EXCEPT ![r] = step]
  /\ UNCHANGED <<config, inChain, drafts, testing, runs, aged, haltings>>

InForce(r) == agentAt = runs[r].agent /\ agentAt \in enabledAt

(* requestRun, within the chain up to the record; no other request of the  *)
(* chain begins before the run counts as active.                           *)
RequestRun(r) ==
  /\ inChain = Idle
  /\ runs[r].status = "none" /\ Cardinality(Active) < 2
  /\ agentAt \in enabledAt
  /\ tested.ready /\ tested.model = model
  /\ runs' = [runs EXCEPT ![r] = [status |-> "running", agent |-> agentAt, model |-> model]]
  /\ work' = [work EXCEPT ![r] = "gathering"]
  /\ UNCHANGED <<config, tested, inChain, drafts, testing, history>>

(* execute: evidence is gathered, the agent and then the connection are    *)
(* read again, and the model is asked.                                     *)
ReadAgent(r) ==
  /\ work[r] = "gathering" /\ InForce(r)
  /\ Steps(r, "agent read") /\ UNCHANGED <<tested, proven, askedUnder>>

ReadModel(r) ==
  /\ work[r] = "agent read" /\ model = runs[r].model
  /\ Steps(r, "ready") /\ UNCHANGED <<tested, proven, askedUnder>>

Ask(r) ==
  /\ work[r] = "ready"
  /\ Steps(r, "asking")
  /\ askedUnder' = [askedUnder EXCEPT ![r] = <<agentAt, model>>]
  /\ UNCHANGED <<tested, proven>>

Answer(r) ==
  /\ work[r] = "asking"
  /\ Steps(r, "answered")
  /\ proven' = proven \cup {runs[r].model}
  /\ UNCHANGED <<tested, askedUnder>>

(* The answer counts if agent and connection are still those it was asked  *)
(* under; it is evidence that the connection works.                        *)
StillAgent(r) == InForce(r)
StillModel(r) == model = runs[r].model
RecheckAgent(r) ==
  /\ work[r] = "answered" /\ StillAgent(r)
  /\ Steps(r, "agent rechecked") /\ UNCHANGED <<tested, proven, askedUnder>>

Keep(r) ==
  /\ work[r] = "agent rechecked" /\ StillModel(r)
  /\ Steps(r, "kept") /\ UNCHANGED <<tested, proven, askedUnder>>

NoteReady(r) ==
  /\ work[r] = "kept"
  /\ Steps(r, "succeeded")
  /\ tested' = [model |-> runs[r].model, ready |-> TRUE]
  /\ UNCHANGED <<proven, askedUnder>>

(* A check that fails, no evidence, no answer in time, a disk that refuses.*)
Refuse(r) ==
  /\ work[r] \notin {"none", "succeeded", "refused"}
  /\ Steps(r, "refused") /\ UNCHANGED <<tested, proven, askedUnder>>

(* The outcome is saved, or cannot be.                                     *)
EndRun(r) ==
  /\ work[r] \in {"succeeded", "refused"}
  /\ \/ runs' = [runs EXCEPT ![r].status = IF work[r] = "refused" THEN "failed" ELSE "succeeded"]
     \/ UNCHANGED runs
  /\ work' = [work EXCEPT ![r] = "none"]
  /\ UNCHANGED <<config, tested, inChain, drafts, testing, history>>

Age(r) ==
  /\ runs[r].status = "running" /\ r \notin aged
  /\ aged' = aged \cup {r}
  /\ UNCHANGED <<config, tested, runs, memory, proven, askedUnder, haltings>>

(* state: what the member is shown of a run.                               *)
Overdue(r) == r \in aged /\ r \notin Active
Shown(r) ==
  IF runs[r].status = "running" /\ Overdue(r) THEN "failed" ELSE runs[r].status

--------------------------------------------------------------------------------
(* The control plane stops; what it holds in memory is gone.               *)
Halting ==
  /\ haltings < MaxHaltings
  /\ haltings' = haltings + 1
  /\ inChain' = Idle /\ testing' = NoTest /\ work' = [r \in Runs |-> "none"]
  /\ drafts' = [p \in Proposals |->
       IF drafts[p].status = "open" THEN [drafts[p] EXCEPT !.status = "lapsed"] ELSE drafts[p]]
  /\ UNCHANGED <<config, tested, runs, aged, proven, askedUnder>>

Advances(r) ==
  \/ ReadAgent(r) \/ ReadModel(r) \/ Ask(r) \/ Answer(r) \/ RecheckAgent(r)
  \/ Keep(r) \/ NoteReady(r) \/ Refuse(r) \/ EndRun(r)

Next ==
  \/ \E p \in Proposals : Prepare(p) \/ Lapse(p) \/ Consume(p)
  \/ CommitModel \/ BeginTest \/ EndTest \/ SaveTest \/ WriteMemory
  \/ \E enabled \in BOOLEAN : SaveAgent(enabled)
  \/ \E r \in Runs : RequestRun(r) \/ Advances(r) \/ Age(r)
  \/ Halting

Spec     == Init /\ [][Next]_vars
(* Every step of execute has a time limit; time passes.                    *)
FairSpec == Spec /\ \A r \in Runs : WF_vars(Advances(r)) /\ WF_vars(Age(r))

--------------------------------------------------------------------------------
TypeOK ==
  /\ model \in 0 .. MaxModels /\ agentAt \in 0 .. MaxAgents
  /\ enabledAt \subseteq 1 .. MaxAgents /\ memories \subseteq 1 .. MaxAgents
  /\ tested \in [model : 0 .. MaxModels, ready : BOOLEAN]
  /\ runs \in [Runs -> [status : {"none", "running", "succeeded", "failed"},
                        agent : 0 .. MaxAgents, model : 0 .. MaxModels]]
  /\ work \in [Runs -> {"none", "gathering", "agent read", "ready", "asking", "answered",
                        "agent rechecked", "kept", "succeeded", "refused"}]
  /\ inChain \in [does : {"nothing", "model", "agent"}, of : 0 .. MaxModels + MaxAgents]
  /\ drafts \in [Proposals -> [status : {"none", "open", "lapsed", "consumed"},
                               expects : 0 .. MaxModels]]
  /\ testing.step \in {"none", "asking", "asked"} /\ testing.model \in 0 .. MaxModels
  /\ aged \subseteq Runs /\ proven \subseteq 1 .. MaxModels /\ haltings \in 0 .. MaxHaltings

(* An answer that is kept was asked under the agent and the connection the *)
(* run was granted for, although both may be changed between any two reads *)
(* of execute (agent-workspace.ts:750-797): what is checked before the     *)
(* question may be stale when it is asked, the check after the answer is   *)
(* what settles it.                                                        *)
AnswersUnderGuardrails ==
  \A r \in Runs : runs[r].status = "succeeded" => askedUnder[r] = <<runs[r].agent, runs[r].model>>

(* A connection is called ready only for a revision an answer came from,   *)
(* although tests and runs finish after it was changed and file their      *)
(* results over each other (agent-workspace.ts:439-454, 797-806).          *)
ReadyIsProven == tested.ready => tested.model \in proven

(* The skills and the memory of every revision of the agent are on disk,   *)
(* wherever a save was interrupted (agent-workspace.ts:500-523).           *)
RevisionsAreKept == \A v \in 1 .. agentAt : v \in memories

(* A member who has been shown the end of a run is never shown another one,*)
(* although the end may be inferred from age alone (agent-workspace.ts:228)*)
ShownEndStays ==
  \A r \in Runs : Shown(r) \in {"succeeded", "failed"} => Shown(r)' = Shown(r)

(* A run that is shown as running; even one whose process stopped, or whose*)
(* outcome could not be saved, is shown to have ended in the end           *)
(* (agent-workspace.ts:228-233, 814-820).                                  *)
ShownRunning(r) == runs[r].status = "running" /\ Shown(r) \notin {"succeeded", "failed"}
================================================================================
