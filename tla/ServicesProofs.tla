---------------------------- MODULE ServicesProofs ----------------------------
(***************************************************************************)
(* What the parts of MCServices keep to, each followed alone among the     *)
(* others, for every value of its constants: the invariant of a part (see  *)
(* ServicesSteps, or the proofs about its module) holds of every state in  *)
(* which "at" names the part, for a step of the whole is then a step of the*)
(* part or changes nothing of it (Turn).                                   *)
(***************************************************************************)
EXTENDS MCServices, ServicesSteps

--------------------------------------------------------------------------------
(* Whose turn it is.                                                       *)

(* The part that is followed takes one of its own steps or none, and is    *)
(* followed for good.                                                      *)
LEMMA Turn ==
  ASSUME [ServicesNext]_all
  PROVE  /\ at' = at
         /\ at = "toasts" => Toasts!Next \/ UNCHANGED noticing
         /\ at = "looks" => Looks!Next \/ UNCHANGED looking
         /\ at = "agents" => Agents!Next \/ UNCHANGED agents
         /\ at = "automation" => Automation!Next \/ UNCHANGED automation
         /\ at = "onboarding" => Onboarding!Next \/ UNCHANGED onboarding
         /\ at = "updates" => Updates!Next \/ UNCHANGED updating
         /\ at = "servix" => Servix!Next \/ UNCHANGED servix
<1>1. CASE ServicesNext
  BY <1>1 DEF ServicesNext, Deploys, Observes, Operates, People, Publishes, Pairs, Develops,
              Collects, AgentWorks, SelfUpdates, ChangesPasswords, Equips, Enrolls, Asks,
              EditsVariables,
              deploying, observing, platform, people
<1>2. CASE UNCHANGED all
  BY <1>2 DEF all, observing, platform, deploying
<1> QED BY <1>1, <1>2

(* Each of these parts begins as its module says.                          *)
LEMMA Start ==
  ASSUME ServicesInit
  PROVE  /\ Toasts!Init /\ Looks!Init /\ Automation!Init /\ Onboarding!Init /\ Servix!Init
         /\ at = "agents" => Agents!Init
         /\ at = "updates" => Updates!Init
BY DEF ServicesInit

(* So it holds of every state of the part.                                 *)
LEMMA ToastsSafe == ServicesSpec => [](at = "toasts" => ToastsInv)
<1> DEFINE Inv == at = "toasts" => ToastsInv
<1>1. ServicesInit => Inv
  <2> SUFFICES ASSUME ServicesInit PROVE ToastsInv
    OBVIOUS
  <2> QED BY Start DEF Toasts!Init, Toasts!Rest, ToastsInv, Statuses, Toast
<1>2. Inv /\ [ServicesNext]_all => Inv'
  <2> SUFFICES ASSUME Inv, [ServicesNext]_all, at = "toasts" PROVE ToastsInv'
    BY Turn
  <2>1. CASE UNCHANGED noticing
    BY <2>1 DEF noticing, ToastsInv, Statuses, Toast
  <2> QED BY <2>1, Turn, ToastsStep
<1> QED BY <1>1, <1>2, PTL DEF ServicesSpec

(* What the control plane says of a notice is what happened on the device, *)
(* although answers are lost, the device stops between the receipt and the *)
(* toast, and a notice outlives its time                                   *)
(* (agent-notifications.ts:305-341, SystemDiscovery.cjs:1040-1068).        *)
THEOREM NoticesAreReported == ServicesSpec => []ReportIsTrue
<1>1. (at = "toasts" => ToastsInv) => ReportIsTrue
  BY DEF ToastsInv, ReportIsTrue, Toasts!ReportIsTrue
<1> QED BY <1>1, ToastsSafe, PTL

(* So the invariant holds of every state of the part.                      *)
LEMMA AutomationSafe == ServicesSpec => [](at = "automation" => AutomationInv)
<1> DEFINE Inv == at = "automation" => AutomationInv
<1>1. ServicesInit => Inv
  <2> SUFFICES ASSUME ServicesInit PROVE AutomationInv
    OBVIOUS
  <2> QED BY Start, Grows, OpsBounds DEF Automation!Init, Automation!Ops, Automation!NoOp,
             Automation!Away, AutomationInv, AutomationTypes, AutomationFacts, Operation,
             Companion, Checkout
<1>2. Inv /\ [ServicesNext]_all => Inv'
  <2> SUFFICES ASSUME Inv, [ServicesNext]_all, at = "automation" PROVE AutomationInv'
    BY Turn
  <2>1. CASE UNCHANGED automation
    BY <2>1 DEF automation, AutomationInv, AutomationTypes, AutomationFacts
  <2> QED BY <2>1, Turn, AutomationTyped, AutomationStep DEF AutomationInv
<1> QED BY <1>1, <1>2, PTL DEF ServicesSpec

(* Nothing reaches main but revisions whose squash merge a member confirmed*)
(* and whose check succeeded, although the branch may move between the look*)
(* at the pull request and its merge (Invoke-TrackGrnAgent.ps1:463-500).   *)
THEOREM MainStaysApproved == ServicesSpec => []MainIsApproved
<1>1. (at = "automation" => AutomationInv) => MainIsApproved
  BY DEF AutomationInv, AutomationFacts, MainIsApproved, Automation!MainIsApproved
<1> QED BY <1>1, AutomationSafe, PTL

(* So the invariant holds of every state of the part.                      *)
LEMMA LooksSafe == ServicesSpec => [](at = "looks" => LooksInv)
<1> DEFINE Inv == at = "looks" => LooksInv
<1>1. ServicesInit => Inv
  <2> SUFFICES ASSUME ServicesInit PROVE LooksInv
    OBVIOUS
  <2>1. LooksTypes
    BY Start, AsksBounds DEF Looks!Init, Looks!Asks, Looks!Blank, Looks!Free, LooksTypes,
       Request, Tick, ThreeKinds
  <2>2. /\ \A a \in 1 .. MaxAsks : asks[a].status = "none"
        /\ \A k \in ThreeKinds : hand[k].step = "idle"
        /\ opened = {} /\ content = 0 /\ expired = {}
    BY Start DEF Looks!Init, Looks!Asks, Looks!Blank, Looks!Free, ThreeKinds
  <2>3. Looks!Earlier = {} /\ \A a \in 1 .. MaxAsks : ~Looks!Open(a)
    BY <2>2 DEF Looks!Earlier, Looks!OfKind, Looks!Asks, Looks!Open
  <2>4. LooksFacts
    BY <2>2, <2>3 DEF LooksFacts, ThreeKinds
  <2> QED BY <2>1, <2>2, <2>4 DEF LooksInv, ExpiredFacts
<1>2. Inv /\ [ServicesNext]_all => Inv'
  <2> SUFFICES ASSUME Inv, [ServicesNext]_all, at = "looks" PROVE LooksInv'
    BY Turn
  <2>1. CASE UNCHANGED looking
    BY <2>1 DEF looking, LooksInv, LooksTypes, LooksFacts, ExpiredFacts, Looks!Earlier,
       Looks!OfKind, Looks!Open
  <2> QED BY <2>1, Turn, LooksTyped, LooksStep, LooksOver DEF LooksInv
<1> QED BY <1>1, <1>2, PTL DEF ServicesSpec

(* A file is read for a preview only if that very preview was allowed at   *)
(* the machine, however late the consent and the answer come, and the text *)
(* shown as that of before is not younger                                  *)
(* (FolderBrowse.cjs:300-346, system-discovery.ts:312-336).                *)
THEOREM PreviewsHaveConsent == ServicesSpec => []ReadWithConsent
<1>1. (at = "looks" => LooksInv) => ReadWithConsent
  <2> SUFFICES ASSUME LooksInv PROVE Looks!ReadWithConsent
    BY DEF ReadWithConsent
  <2>1. \A a \in Looks!OfKind("preview") : asks[a].status = "succeeded" => a \in Looks!Earlier
    BY DEF Looks!Earlier
  <2> QED BY <2>1 DEF LooksInv, LooksFacts, Looks!ReadWithConsent
<1> QED BY <1>1, LooksSafe, PTL

(* So the invariant holds of every state of the part.                      *)
LEMMA OnboardingSafe == ServicesSpec => [](at = "onboarding" => OnboardingInv)
<1> DEFINE Inv == at = "onboarding" => OnboardingInv
<1>1. ServicesInit => Inv
  <2> SUFFICES ASSUME ServicesInit PROVE OnboardingInv
    OBVIOUS
  <2> QED BY Start DEF Onboarding!Init, Onboarding!Ended, OnboardingInv, Names,
             Onboarding!OneProjectPerRepository
<1>2. Inv /\ [ServicesNext]_all => Inv'
  <2> SUFFICES ASSUME Inv, [ServicesNext]_all, at = "onboarding" PROVE OnboardingInv'
    BY Turn
  <2>1. CASE UNCHANGED onboarding
    BY <2>1 DEF onboarding, OnboardingInv, Onboarding!OneProjectPerRepository
  <2> QED BY <2>1, Turn, OnboardingStep
<1> QED BY <1>1, <1>2, PTL DEF ServicesSpec

(* So the invariant holds of every state of the part.                      *)
LEMMA AgentsSafe == ServicesSpec => [](at = "agents" => AgentsInv /\ ReadyFacts)
<1> DEFINE Inv == at = "agents" => AgentsInv /\ ReadyFacts
<1>1. ServicesInit => Inv
  <2> SUFFICES ASSUME ServicesInit, at = "agents" PROVE AgentsInv /\ ReadyFacts
    OBVIOUS
  <2>1. Agents!Init
    BY Start
  <2>2. AgentsTypes /\ DOMAIN askedUnder = AgentRuns
    BY <2>1, AgentsBounds DEF Agents!Init, Agents!NoRun, Agents!Idle, Agents!Proposals,
       AgentsTypes,
       RunRecord, WorkSteps, ChainRecord, DraftRecord
  <2>3. ChainFacts /\ \A r \in AgentRuns : RunFacts(r)
    BY <2>1 DEF Agents!Init, Agents!NoRun, Agents!Idle, ChainFacts, RunFacts, Asked
  <2>4. ReadyFacts
    BY <2>1 DEF Agents!Init, Agents!NoTest, Agents!ReadyIsProven, ReadyFacts
  <2> QED BY <2>2, <2>3, <2>4 DEF AgentsInv
<1>2. Inv /\ [ServicesNext]_all => Inv'
  <2> SUFFICES ASSUME Inv, [ServicesNext]_all, at = "agents" PROVE AgentsInv' /\ ReadyFacts'
    BY Turn
  <2>1. CASE UNCHANGED agents
    <3>1. AgentsInv'
      BY <2>1 DEF agents, AgentsInv, AgentsTypes, ChainFacts, RunFacts, Asked, Rechecked, Checked,
         Granted, AskedBetween
    <3>2. ReadyFacts'
      BY <2>1 DEF agents, ReadyFacts, Agents!ReadyIsProven
    <3> QED BY <3>1, <3>2
  <2>2. CASE Agents!Next
    BY <2>2, AgentsStep, ReadyStep DEF AgentsInv
  <2> QED BY <2>1, <2>2, Turn
<1> QED BY <1>1, <1>2, PTL DEF ServicesSpec

(* An answer that is kept was asked under the agent and the connection the *)
(* run was granted for, although both may be changed between any two reads *)
(* of execute, and every revision of the agent has its skills and memory on*)
(* disk (agent-workspace.ts:500-523, 750-797).                             *)
THEOREM AnswersAreGuarded == ServicesSpec => []AnswersUnderGuardrails
<1>1. (at = "agents" => AgentsInv /\ ReadyFacts) => AnswersUnderGuardrails
  BY DEF AgentsInv, ChainFacts, RunFacts, AnswersUnderGuardrails, Agents!AnswersUnderGuardrails,
     Agents!RevisionsAreKept
<1> QED BY <1>1, AgentsSafe, PTL

(* What an update says of itself is true, whoever submits at once and      *)
(* wherever the updater, its script or the host stops: the request is the  *)
(* one its note explains, and a release reported as a success is active or *)
(* is one that the active release was built on                             *)
(* (self-updates.ts:134-150, Run-SelfUpdate.ps1:26-36).                    *)
THEOREM UpdatesAreTrue == ServicesSpec => []UpdateIsTrue
<1> DEFINE Inv == at = "updates" => UpdatesInv
<1>1. ServicesInit => Inv
  <2> SUFFICES ASSUME ServicesInit, at = "updates" PROVE UpdatesInv
    OBVIOUS
  <2> USE DEF Updates!Init, Updates!NoRequest, Updates!NoApply, Updates!Waiting
  <2>0. Updates!Init
    BY Start
  <2>1. UpdatesTypes
    BY <2>0, UpdatesBounds DEF UpdatesTypes, RequestRecord, UpdateStatus, UpdaterRecord,
       ScriptRecord
  <2>2. SealedFacts
    BY <2>0, UpdatesBounds DEF SealedFacts, Sealed, InHand, Applied
  <2>3. Noted /\ ScriptFacts /\ SuccessFacts
    BY <2>0 DEF Noted, ScriptFacts, SuccessFacts, Unasked, Halfway
  <2> QED BY <2>1, <2>2, <2>3 DEF UpdatesInv
<1>2. Inv /\ [ServicesNext]_all => Inv'
  <2> SUFFICES ASSUME Inv, [ServicesNext]_all, at = "updates" PROVE UpdatesInv'
    BY Turn
  <2>1. CASE Updates!Next
    BY <2>1, UpdatesTyped, UpdatesFacts DEF UpdatesInv
  <2>2. CASE UNCHANGED updating
    <3>1. /\ UpdatesTypes' /\ Noted' /\ SealedFacts' /\ ScriptFacts'
      BY <2>2 DEF updating, UpdatesInv, UpdatesTypes, Noted, SealedFacts, Sealed, InHand,
         Applied,
         ScriptFacts, Unasked, Halfway, Before
    <3>2. SuccessFacts'
      BY <2>2, LineageStays DEF updating, UpdatesInv, SuccessFacts
    <3> QED BY <3>1, <3>2 DEF UpdatesInv
  <2> QED BY <2>1, <2>2, Turn
<1>3. Inv => UpdateIsTrue
  BY DEF UpdateIsTrue, UpdatesInv, Noted, SuccessFacts, Updates!RequestKeepsItsNote,
     Updates!SuccessStaysInEffect
<1> QED BY <1>1, <1>2, <1>3, PTL DEF ServicesSpec

(* So the invariant holds of every state of the part.                      *)
LEMMA ServixSafe == ServicesSpec => [](at = "servix" => ServixInv)
<1> DEFINE Inv == at = "servix" => ServixInv
<1>1. ServicesInit => Inv
  <2> SUFFICES ASSUME ServicesInit, at = "servix" PROVE ServixInv
    OBVIOUS
  <2>1. Servix!Init
    BY Start
  <2>2. /\ runner = Servix!NoWork /\ target = Servix!AtRest
        /\ succeeded = <<>> /\ release = 0 /\ task = "up" /\ pointer = 0
        /\ \A r \in Servix!Runs :
             /\ deployment[r].status = "none" /\ background[r] = "none" /\ approvals[r] = "none"
             /\ claims[r] = "none" /\ outcomes[r] = "none" /\ reports[r] = "none"
    BY <2>1 DEF Servix!Init, Servix!NoRun
  <2>3. ServixTypes
    <3>1. Servix!NoRun \in DeploymentRecord
      BY DEF DeploymentRecord, Servix!NoRun, Servix!Statuses
    <3>2. runner \in RunnerRecord /\ target \in TargetRecord
      BY <2>2 DEF RunnerRecord, RunnerSteps, TargetRecord, OperatorSteps, Servix!NoWork,
         Servix!AtRest
    <3>3. succeeded \in Seq(Servix!Runs)
      BY <2>2
    <3> QED BY <2>1, <2>2, <3>1, <3>2, <3>3 DEF Servix!Init, ServixTypes
  <2>4. runner.step = "none" /\ runner.of = 0 /\ target.step = "idle" /\ target.of = 0
    BY <2>2 DEF Servix!NoWork, Servix!AtRest
  <2>5. \A r \in Servix!Runs : ~Flying(r) /\ ~Holds(r) /\ r # 0
    BY <2>2, ServixRuns DEF Flying, Holds
  <2>6. \A r \in Servix!Runs : DeploymentFacts(r)
    BY <2>2, <2>4, <2>5 DEF DeploymentFacts, Blank
  <2>7. Servix!Current = 0 /\ Servix!Origin(0) = 0
    BY <2>2 DEF Servix!Current, Servix!Origin
  <2>8. RunnerFacts /\ TargetFacts /\ InstalledFacts /\ OneHolds
    BY <2>2, <2>4, <2>5, <2>7 DEF RunnerFacts, TargetFacts, InstalledFacts, OneHolds
  <2> QED BY <2>3, <2>6, <2>8 DEF ServixInv
<1>2. Inv /\ [ServicesNext]_all => Inv'
  <2> SUFFICES ASSUME Inv, [ServicesNext]_all, at = "servix" PROVE ServixInv'
    BY Turn
  <2>1. CASE UNCHANGED servix
    <3>1. /\ UNCHANGED <<deployment, succeeded, overdue, background, approvals, claims, outcomes>>
          /\ UNCHANGED <<pointer, runner, reports, target, release, task>>
      BY <2>1 DEF servix
    <3>2. ServixTypes' /\ \A q : Flying(q)' = Flying(q) /\ Servix!Origin(q)' = Servix!Origin(q)
      BY <3>1 DEF ServixInv, ServixTypes, Flying, Servix!Origin
    <3>3. RunnerFacts' /\ TargetFacts' /\ Servix!Current' = Servix!Current
      BY <3>1, <3>2 DEF ServixInv, RunnerFacts, TargetFacts, Servix!Current
    <3>4. InstalledFacts' /\ OneHolds'
      BY <3>1, <3>2, <3>3 DEF ServixInv, InstalledFacts, OneHolds, Holds
    <3>5. \A q \in Servix!Runs : DeploymentFacts(q)'
      BY <3>1, <3>2 DEF ServixInv, DeploymentFacts, Blank, Early
    <3> QED BY <3>2, <3>3, <3>4, <3>5 DEF ServixInv
  <2>2. CASE Servix!Next
    <3>1. ServixTypes'
      BY <2>2, ServixTyped DEF ServixInv
    <3> QED BY <2>2, <3>1, ControlPlaneSteps, ReconcileSteps, ControllerRests, RunnerTakesUp,
               RunnerSteadies, OperatorSteady DEF Servix!Next, Servix!Runner
  <2> QED BY <2>1, <2>2, Turn
<1> QED BY <1>1, <1>2, PTL DEF ServicesSpec

(* While nothing blocks, what the control plane takes for the current      *)
(* release is what the target serves and what the runner knows as active,  *)
(* whatever expired, stopped or was lost before: a deployment of which this*)
(* is uncertain blocks for ever (servix-deployment.ts:24-30,               *)
(* Run-Activation.ps1, ADR 0039).                                          *)
THEOREM CurrentReleaseIsInstalled == ServicesSpec => []CurrentIsInstalled
<1>1. (at = "servix" => ServixInv) => CurrentIsInstalled
  <2> SUFFICES ASSUME ServixInv, ~Servix!Busy
               PROVE  release = Servix!Origin(Servix!Current) /\ task = "up" /\ pointer = Servix!Current
    BY DEF CurrentIsInstalled, Servix!CurrentIsInstalled
  <2>1. \A r \in Servix!Runs : ~Flying(r)
    BY DEF Servix!Busy, Servix!Blocking, Flying
  <2> QED BY <2>1 DEF ServixInv, InstalledFacts
<1> QED BY <1>1, ServixSafe, PTL

--------------------------------------------------------------------------------
(* The parts whose modules have proofs of their own.                       *)

(* They begin as their modules say, too.                                   *)
LEMMA PartsStart ==
  ASSUME ServicesInit
  PROVE  /\ at = "imports" => Imports!Init
         /\ at = "choices" => Choices!Init
         /\ at = "ports" => Ports!Init
         /\ at = "plans" => Plans!Init
         /\ at = "edits" => Edits!Init
         /\ at = "changes" => Changes!Init
         /\ at = "policies" => Policies!Init
         /\ at = "mounts" => Mounts!Init
<1>1. Plans!Init => Edits!Init
  BY DEF Plans!Init, Plans!Unasked, Plans!Resting, Plans!JobIds, Edits!Init, Edits!Unasked,
     Edits!Resting, Edits!JobIds
<1>2. Policies!Init => Mounts!Init
  BY DEF Policies!Init, Policies!Resting, Policies!Boots, Policies!Changes, Mounts!Init,
     Mounts!Resting, Mounts!Boots, Mounts!Changes
<1> QED BY <1>1, <1>2 DEF ServicesInit

(* And take steps of their own, or none.                                   *)
LEMMA PartsTurn ==
  ASSUME [ServicesNext]_all
  PROVE  /\ at' = at
         /\ at = "imports" => [Imports!Next]_(Imports!vars)
         /\ at = "choices" => [Choices!Next]_(Choices!vars)
         /\ at = "ports" => [Ports!Next]_(Ports!vars)
         /\ at = "plans" => [Plans!Next]_(Plans!vars)
         /\ at = "edits" => [Edits!Next]_(Edits!vars)
         /\ at = "changes" => [Changes!Next]_(Changes!vars)
         /\ at = "policies" => [Policies!Next]_(Policies!vars)
         /\ at = "mounts" => [Mounts!Next]_(Mounts!vars)
<1> DEFINE Steps ==
     /\ at' = at
     /\ at = "imports" => Imports!Next \/ UNCHANGED publication
     /\ at = "choices" => Choices!Next \/ UNCHANGED publication
     /\ at = "ports" => Ports!Next \/ UNCHANGED developing
     /\ at = "plans" => Plans!Next \/ UNCHANGED developing
     /\ at = "edits" => Edits!Next \/ UNCHANGED developing
     /\ at = "changes" => Changes!Next \/ UNCHANGED collection
     /\ at = "policies" => Policies!Next \/ UNCHANGED collection
     /\ at = "mounts" => Mounts!Next \/ UNCHANGED collection
<1>1. ServicesNext => Steps
  BY DEF ServicesNext, Deploys, Observes, Operates, People, Publishes, Pairs, Develops,
     Collects,
              AgentWorks, SelfUpdates, ChangesPasswords, Equips, Enrolls, Asks, EditsVariables,
              deploying, observing, platform, people
<1>2. UNCHANGED all => Steps
  BY DEF all, observing, platform, deploying
<1>3. Steps
  BY <1>1, <1>2
<1>4. UNCHANGED publication => UNCHANGED Imports!vars /\ UNCHANGED Choices!vars
  BY DEF publication, Imports!vars, Imports!server, Imports!connector, Imports!records,
     Imports!devices, Imports!choice,
         Choices!vars, Choices!server, Choices!connector, Choices!records, Choices!devices,
         Choices!choice
<1>5. UNCHANGED developing => UNCHANGED Ports!vars /\ UNCHANGED Plans!vars /\ UNCHANGED Edits!vars
  BY DEF developing, Ports!vars, Ports!store, Ports!machine, Ports!disk,
         Plans!vars, Plans!store, Plans!machine, Plans!disk,
         Edits!vars, Edits!store, Edits!machine, Edits!disk
<1>6. UNCHANGED collection => /\ UNCHANGED Changes!vars /\ UNCHANGED Policies!vars
                              /\ UNCHANGED Mounts!vars
  BY DEF collection, Changes!vars, Changes!server, Changes!watchers,
         Policies!vars, Policies!server, Policies!watchers,
         Mounts!vars, Mounts!server, Mounts!watchers
<1> QED BY <1>3, <1>4, <1>5, <1>6

(* What each of them keeps to while it is followed.                        *)
PartsInv ==
  /\ at = "imports" => Imports!Inv
  /\ at = "choices" => Choices!Inv
  /\ at = "ports" => Ports!Inv
  /\ at = "plans" => Plans!Inv
  /\ at = "edits" => Edits!Inv
  /\ at = "changes" => Changes!Inv
  /\ at = "policies" => Policies!Inv
  /\ at = "mounts" => Mounts!Inv

(* It holds of every state.                                                *)
LEMMA PartsHold == ServicesSpec => []PartsInv
<1>1. ServicesInit => PartsInv
  BY NamesAssumption, PartsStart, Imports!InitInv, Choices!InitInv, Ports!InitInv,
     Plans!InitInv, Edits!InitInv, Changes!InitInv, Policies!InitInv, Mounts!InitInv
     DEF PartsInv
<1>2. PartsInv /\ [ServicesNext]_all => PartsInv'
  BY NamesAssumption, PartsTurn, Imports!NextInv, Choices!NextInv, Ports!NextInv,
     Plans!NextInv, Edits!NextInv, Changes!NextInv, Policies!NextInv, Mounts!NextInv
     DEF PartsInv
<1> QED BY <1>1, <1>2, PTL DEF ServicesSpec

--------------------------------------------------------------------------------
(* What people do (PeopleProofs).                                          *)

(* These parts begin as their modules say.                                 *)
LEMMA PeopleStart ==
  ASSUME ServicesInit
  PROVE  /\ at = "pairing" => Once!Pairing!Init
         /\ at = "attempts" => Again!Pairing!Init
         /\ at = "resets" => Once!Accounts!Init
         /\ at = "logins" => Again!Accounts!Init
         /\ at = "tools" => Once!Equipment!Init
         /\ at = "altered" => Again!Equipment!Init
         /\ at = "enrolling" => Once!Enrolling!Init
         /\ at = "revoked" => Again!Enrolling!Init
         /\ at = "confirms" => Once!Confirms!Init
         /\ at = "releasing" => Again!Confirms!Init
         /\ at = "variables" => Once!Variables!Init
         /\ at = "rereads" => Again!Variables!Init
         /\ at = "settings" => Once!Settings!Init
<1>1. Once!Enrolling!Init => Again!Enrolling!Init
  BY DEF Once!Enrolling!Init, Once!Enrolling!Devices, Once!Enrolling!NoDevice,
     Once!Enrolling!NoForm, Once!Enrolling!NotYet, Once!Enrolling!Nobody,
     Again!Enrolling!Init, Again!Enrolling!Devices, Again!Enrolling!NoDevice,
     Again!Enrolling!NoForm, Again!Enrolling!NotYet, Again!Enrolling!Nobody
<1>2. Once!Confirms!Init => Again!Confirms!Init
  BY DEF Once!Confirms!Init, Once!Confirms!Empty, Once!Confirms!Ids, Once!Confirms!NoPoll,
     Once!Confirms!Absent, Again!Confirms!Init, Again!Confirms!Empty, Again!Confirms!Ids,
     Again!Confirms!NoPoll, Again!Confirms!Absent
<1> QED BY <1>1, <1>2 DEF ServicesInit

(* And take steps of their own, or none.                                   *)
LEMMA PeopleTurn ==
  ASSUME [ServicesNext]_all
  PROVE  /\ at' = at
         /\ at = "pairing" => [Once!Pairing!Next]_(Once!Pairing!vars)
         /\ at = "attempts" => [Again!Pairing!Next]_(Again!Pairing!vars)
         /\ at = "resets" => [Once!Accounts!Next]_(Once!Accounts!vars)
         /\ at = "logins" => [Again!Accounts!Next]_(Again!Accounts!vars)
         /\ at = "tools" => [Once!Equipment!Next]_(Once!Equipment!vars)
         /\ at = "altered" => [Again!Equipment!Next]_(Again!Equipment!vars)
         /\ at = "enrolling" => [Once!Enrolling!Next]_(Once!Enrolling!vars)
         /\ at = "revoked" => [Again!Enrolling!Next]_(Again!Enrolling!vars)
         /\ at = "confirms" => [Once!Confirms!Next]_(Once!Confirms!vars)
         /\ at = "releasing" => [Again!Confirms!Next]_(Again!Confirms!vars)
         /\ at = "variables" => [Once!Variables!Next]_(Once!Variables!vars)
         /\ at = "rereads" => [Again!Variables!Next]_(Again!Variables!vars)
         /\ at = "settings" => [Once!Settings!Next]_(Once!Settings!vars)
<1> DEFINE Steps ==
     /\ at' = at
     /\ at = "pairing" => Once!Pairing!Next \/ UNCHANGED pairing
     /\ at = "attempts" => Again!Pairing!Next \/ UNCHANGED pairing
     /\ at = "resets" => Once!Accounts!Next \/ UNCHANGED accounts
     /\ at = "logins" => Again!Accounts!Next \/ UNCHANGED accounts
     /\ at = "tools" => Once!Equipment!Next \/ UNCHANGED equipping
     /\ at = "altered" => Again!Equipment!Next \/ UNCHANGED equipping
     /\ at = "enrolling" => Once!Enrolling!Next \/ UNCHANGED enrolls
     /\ at = "revoked" => Again!Enrolling!Next \/ UNCHANGED enrolls
     /\ at = "confirms" => Once!Confirms!Next \/ UNCHANGED confirming
     /\ at = "releasing" => Again!Confirms!Next \/ UNCHANGED confirming
     /\ at = "variables" => Once!Variables!Next \/ UNCHANGED variables
     /\ at = "rereads" => Again!Variables!Next \/ UNCHANGED variables
     /\ at = "settings" => Once!Settings!Next \/ UNCHANGED configuring
<1>1. ServicesNext => Steps
  BY DEF ServicesNext, Deploys, Observes, Operates, People, Publishes, Pairs, Develops, Collects,
     AgentWorks, SelfUpdates, ChangesPasswords, Equips, Enrolls, Asks, EditsVariables, deploying,
     observing, platform, people
<1>2. UNCHANGED all => Steps
  BY DEF all, deploying, people
<1>3. Steps
  BY <1>1, <1>2
<1>4. UNCHANGED pairing => UNCHANGED Once!Pairing!vars /\ UNCHANGED Again!Pairing!vars
  BY DEF pairing, Once!Pairing!vars, Once!Pairing!pairing, Once!Pairing!computer,
     Once!Pairing!evidence, Once!Pairing!devices, Once!Pairing!disk, Again!Pairing!vars,
     Again!Pairing!pairing, Again!Pairing!computer, Again!Pairing!evidence,
     Again!Pairing!devices, Again!Pairing!disk
<1>5. UNCHANGED accounts => UNCHANGED Once!Accounts!vars /\ UNCHANGED Again!Accounts!vars
  BY DEF accounts, Once!Accounts!vars, Again!Accounts!vars
<1>6. UNCHANGED equipping => UNCHANGED Once!Equipment!vars /\ UNCHANGED Again!Equipment!vars
  BY DEF equipping, Once!Equipment!vars, Once!Equipment!requested, Once!Equipment!receipts,
     Once!Equipment!machine, Again!Equipment!vars, Again!Equipment!requested,
     Again!Equipment!receipts, Again!Equipment!machine
<1>7. UNCHANGED enrolls => UNCHANGED Once!Enrolling!vars /\ UNCHANGED Again!Enrolling!vars
  BY DEF enrolls, Once!Enrolling!vars, Once!Enrolling!computer, Once!Enrolling!shown,
     Once!Enrolling!bounds, Again!Enrolling!vars, Again!Enrolling!computer,
     Again!Enrolling!shown, Again!Enrolling!bounds
<1>8. UNCHANGED confirming => UNCHANGED Once!Confirms!vars /\ UNCHANGED Again!Confirms!vars
  BY DEF confirming, Once!Confirms!vars, Again!Confirms!vars
<1>9. UNCHANGED variables => UNCHANGED Once!Variables!vars /\ UNCHANGED Again!Variables!vars
  BY DEF variables, Once!Variables!vars, Once!Variables!disk, Once!Variables!agent,
     Once!Variables!server, Once!Variables!dialog, Once!Variables!network,
     Again!Variables!vars, Again!Variables!disk, Again!Variables!agent,
     Again!Variables!server, Again!Variables!dialog, Again!Variables!network
<1>10. UNCHANGED configuring => UNCHANGED Once!Settings!vars
  BY DEF configuring, Once!Settings!vars, Once!Settings!server, Once!Settings!page,
     Once!Settings!window
<1> QED BY <1>3, <1>4, <1>5, <1>6, <1>7, <1>8, <1>9, <1>10

(* What each of them keeps to while it is followed.                        *)
PeopleInv ==
  /\ at = "pairing" => Once!PairingInv
  /\ at = "attempts" => Again!PairingInv
  /\ at = "resets" => Once!AccountsInv
  /\ at = "logins" => Again!AccountsInv
  /\ at = "tools" => Once!EquipmentInv
  /\ at = "altered" => Again!EquipmentInv
  /\ at = "enrolling" => Once!EnrollingInv
  /\ at = "revoked" => Again!EnrollingInv
  /\ at = "confirms" => Once!ConfirmsInv
  /\ at = "releasing" => Again!ConfirmsInv
  /\ at = "variables" => Once!VariablesInv
  /\ at = "rereads" => Again!VariablesInv
  /\ at = "settings" => Once!SettingsInv

(* It holds of every state.                                                *)
LEMMA PeopleHold == ServicesSpec => []PeopleInv
<1>1. ServicesInit => PeopleInv
  BY NamesAssumption, PeopleStart, Once!PairingStart, Again!PairingStart,
     Once!AccountsStart, Again!AccountsStart,
     Once!EquipmentStart, Again!EquipmentStart, Once!EnrollingStart, Again!EnrollingStart,
     Once!ConfirmsStart, Again!ConfirmsStart, Once!VariablesStart, Again!VariablesStart,
     Once!SettingsStart
     DEF PeopleInv
<1>2. PeopleInv /\ [ServicesNext]_all => PeopleInv'
  BY NamesAssumption, PeopleTurn, Once!PairingStep, Again!PairingStep,
     Once!AccountsMove, Again!AccountsMove,
     Once!EquipmentMove, Again!EquipmentMove, Once!EnrollingMove, Again!EnrollingMove,
     Once!ConfirmsMove, Again!ConfirmsMove, Once!VariablesMove, Again!VariablesMove,
     Once!SettingsMove
     DEF PeopleInv
<1> QED BY <1>1, <1>2, PTL DEF ServicesSpec

--------------------------------------------------------------------------------
(* What the parts promise together.                                        *)

(* What a run is given to build, a published request, is in the central    *)
(* repository on top of what it was based on, and stays there, although    *)
(* answers are lost, another device publishes in between, a device is      *)
(* revoked or a connector stops (developer-connectors.ts:865-870,          *)
(* component-git.ts:100).                                                  *)
THEOREM PublishedStaysCentral == ServicesSpec => []PublishedIsCentral
<1>1. PartsInv => PublishedIsCentral
  BY NamesAssumption, Imports!InvImplies, Choices!InvImplies DEF PartsInv, PublishedIsCentral
<1> QED BY <1>1, PartsHold, PTL

(* Choosing a folder and publishing from it exclude each other, and the    *)
(* folder shown is the one that is published from, although answers to     *)
(* selections are lost, late, or cross a restart                           *)
(* (developer-connectors.ts:211-216, Connector.cjs:483-530).               *)
THEOREM FolderStaysSettled == ServicesSpec => []FolderIsSettled
<1>1. PartsInv => FolderIsSettled
  BY NamesAssumption, Imports!InvImplies, Choices!InvImplies DEF PartsInv, FolderIsSettled
<1> QED BY <1>1, PartsHold, PTL

(* An approved computer has the receipt, the device and the policy of      *)
(* who approved it, and no device is without its receipt, wherever the     *)
(* approval is cut off (developer-connectors.ts:1135-1263).                *)
THEOREM ApprovedStaysWhole == ServicesSpec => []ApprovedIsWhole
<1>1. PeopleInv => ApprovedIsWhole
  BY Once!PairingSafe, Again!PairingSafe DEF PeopleInv, ApprovedIsWhole
<1> QED BY <1>1, PeopleHold, PTL

(* A service that listens is held by the connector and was started under   *)
(* the plan as it is, although stops are not confirmed in time,            *)
(* observations come early, and the connector is killed                    *)
(* (LocalDevelopment.cjs:698-708, 990-1001).                               *)
THEOREM PlanIsFollowed == ServicesSpec => []RunsUnderPlan
<1>1. PartsInv => RunsUnderPlan
  BY NamesAssumption, Ports!InvImplies, Plans!InvImplies, Edits!InvImplies DEF PartsInv, RunsUnderPlan
<1> QED BY <1>1, PartsHold, PTL

(* No change of a file is told under the number of another, or kept        *)
(* twice, although batches are sent again, answers are lost, the           *)
(* connector starts again and the history is pruned                        *)
(* (SystemDiscovery.cjs:333-354, system-discovery.ts:598-646).             *)
THEOREM ChangesAreToldOnce == ServicesSpec => []EachChangeOnce
<1>1. PartsInv => EachChangeOnce
  BY NamesAssumption, Changes!InvImplies, Policies!InvImplies,
     Mounts!InvImplies DEF PartsInv, EachChangeOnce
<1> QED BY <1>1, PartsHold, PTL

(* What is sent is what the policy it is sent under selects, and on        *)
(* Windows no watcher of the roots of an earlier policy outlives it,       *)
(* although policies are replaced while a scan or a batch is under way     *)
(* (SystemDiscovery.cjs:510-550, 588-669).                                 *)
THEOREM PolicyIsFollowed == ServicesSpec => []FollowsThePolicy
<1>1. PartsInv => FollowsThePolicy
  BY NamesAssumption, Changes!InvImplies, Policies!InvImplies,
     Mounts!InvImplies DEF PartsInv, FollowsThePolicy
<1> QED BY <1>1, PartsHold, PTL

(* What there may be one of, there is one of, whatever was lost, stopped or*)
(* asked twice at once: an activation on its way to the target, an open    *)
(* request of a kind, a notice to be shown within the hour, the begin of an*)
(* operation, the project of a repository; and a member has as many devices*)
(* as he may (servix-deployment.ts:22-23, system-discovery.ts:192-225,     *)
(* agent-notifications.ts:259-268, developer-connectors.ts:592,            *)
(* project-automation.ts:222, migrations/0006:45-62).                      *)
THEOREM OneOfEach == ServicesSpec => []OneAtATime
<1>1. ASSUME at = "servix", ServixInv PROVE Servix!OneActivation
  <2>1. \A r \in Servix!Runs : Servix!OnItsWay(r) => Flying(r)
    <3> SUFFICES ASSUME NEW r \in Servix!Runs, Servix!OnItsWay(r) PROVE Flying(r)
      OBVIOUS
    <3>1. r # 0 /\ DeploymentFacts(r)
      BY <1>1, ServixRuns DEF ServixInv
    <3>2. CASE background[r] \in {"approve", "write"}
      BY <3>1, <3>2 DEF DeploymentFacts, Flying
    <3>3. CASE approvals[r] # "none" \/ runner.of = r \/ target.of = r
      BY <1>1, <3>1, <3>3 DEF ServixInv, RunnerFacts, TargetFacts, DeploymentFacts
    <3> QED BY <3>2, <3>3 DEF Servix!OnItsWay
  <2> QED BY <1>1, <2>1 DEF ServixInv, OneHolds, Holds, Servix!OneActivation
<1>2. ASSUME at = "looks", LooksInv PROVE Looks!OneOpenAtATime
  <2> SUFFICES ASSUME NEW k \in ThreeKinds
               PROVE  Looks!Cardinality({a \in Looks!OfKind(k) : Looks!Open(a)}) <= 1
    BY DEF Looks!OneOpenAtATime, ThreeKinds
  <2> DEFINE S == {a \in Looks!OfKind(k) : Looks!Open(a)}
  <2>1. Looks!Cardinality(S) = Cardinality(S)
    BY DEF Looks!Cardinality, Cardinality
  <2>2. \A a, b \in S : a = b
    BY <1>2 DEF LooksInv, LooksFacts, Looks!OfKind, Looks!Asks
  <2> QED BY <2>1, <2>2, OneAtMost
<1>3. ASSUME at = "toasts", ToastsInv PROVE Toasts!OneNoticeAnHour
  <2> DEFINE S == {n \in Notices : notices[n] \in {"queued", "delivering"} /\ n \notin noticesOverdue}
  <2>1. Toasts!Cardinality(S) = Cardinality(S)
    BY DEF Toasts!Cardinality, Cardinality
  <2>2. \A m, n \in S : m = n
    BY <1>3 DEF ToastsInv
  <2>3. displayed \subseteq noticeApprovals
    BY <1>3 DEF ToastsInv
  <2> QED BY <2>1, <2>2, <2>3, OneAtMost DEF Toasts!OneNoticeAnHour
<1>4. ASSUME at = "pairing", Once!PairingInv PROVE Once!Pairing!WithinDeviceLimit
  BY <1>4, Once!PairingSafe
<1>5. ASSUME at = "automation", AutomationInv PROVE Automation!BegunOnce
  BY <1>5 DEF AutomationInv, AutomationFacts, Automation!BegunOnce, Automation!Ops
<1>6. ASSUME at = "onboarding", OnboardingInv PROVE Onboarding!OneProjectPerRepository
  BY <1>6 DEF OnboardingInv
<1>7. /\ at = "servix" => ServixInv
      /\ at = "looks" => LooksInv
      /\ at = "toasts" => ToastsInv
      /\ PeopleInv
      /\ at = "automation" => AutomationInv
      /\ at = "onboarding" => OnboardingInv
      => OneAtATime
  BY <1>1, <1>2, <1>3, <1>4, <1>5, <1>6 DEF PeopleInv, OneAtATime
<1> QED
  BY <1>7, ServixSafe, LooksSafe, ToastsSafe, PeopleHold, AutomationSafe, OnboardingSafe, PTL

(* Nothing is done before it is on record who approved it, wherever what   *)
(* is asked for is sent twice or cut off: a computer is set up only once   *)
(* its approval is written, a tool is installed at most once for a request *)
(* and only for one whose intent is kept, a result tells of every tool that*)
(* was selected, and the audit of a password says what became of it        *)
(* (DeviceEnrollment.cjs:290, SystemSetup.cjs:154-190,                     *)
(* local-accounts.ts:64-75, 108-117).                                      *)
THEOREM NothingIsUnapproved == ServicesSpec => []ApprovedFirst
<1>1. PeopleInv => ApprovedFirst
  BY Once!PairingSafe, Again!PairingSafe, Once!EquipmentSafe, Again!EquipmentSafe,
     Once!AccountsSafe, Again!AccountsSafe DEF PeopleInv, ApprovedFirst
<1> QED BY <1>1, PeopleHold, PTL

(* What was asked for once is done once, however often it is tried: a job  *)
(* starts a service once at most, a window registers one computer, and a   *)
(* confirmation is stored once, although answers are lost, posts arrive    *)
(* late and pages are loaded again (LocalDevelopment.cjs:909,              *)
(* SystemEnrollment.cjs:239-273, ComponentDeployments.tsx:167,             *)
(* DeploymentsPage.tsx:170).                                               *)
THEOREM DoneOnce == ServicesSpec => []NeverReplayed
<1>1. PartsInv /\ PeopleInv => NeverReplayed
  BY NamesAssumption, Ports!InvImplies, Plans!InvImplies, Edits!InvImplies, Once!EnrollingSafe,
     Again!EnrollingSafe, Once!ConfirmsSafe, Again!ConfirmsSafe DEF PartsInv, PeopleInv, NeverReplayed
<1> QED BY <1>1, PartsHold, PeopleHold, PTL

(* Neither the central ref nor a checkout ever loses a commit, and the     *)
(* settings of a project no record that was in force, although another     *)
(* window saves at the same time and a save fails half-way                 *)
(* (component-git.ts:100, Connector.cjs:303-324,                           *)
(* deployment-settings.ts:181-194).                                        *)
THEOREM NoHistoryIsLost == ServicesSpec => HistoriesOnlyGrow
<1> DEFINE Grow == CASE at = "imports"  -> Imports!HistoriesGrow
                     [] at = "choices"  -> Choices!HistoriesGrow
                     [] at = "settings" -> Once!Settings!PastIsKept
                     [] OTHER           -> TRUE
<1>1. PartsInv /\ PeopleInv /\ [ServicesNext]_all => [Grow]_<<publication, configuring>>
  <2> SUFFICES ASSUME PartsInv, PeopleInv, [ServicesNext]_all PROVE Grow
    OBVIOUS
  <2>1. at = "imports" => Imports!HistoriesGrow
    BY PartsTurn, Imports!StepGrows DEF PartsInv
  <2>2. at = "choices" => Choices!HistoriesGrow
    BY PartsTurn, Choices!StepGrows DEF PartsInv
  <2>3. at = "settings" => Once!Settings!PastIsKept
    BY NamesAssumption, PeopleTurn, Once!SettingsMove DEF PeopleInv
  <2> QED BY <2>1, <2>2, <2>3
<1> QED BY <1>1, PartsHold, PeopleHold, PTL DEF ServicesSpec, HistoriesOnlyGrow

(* Only what was shown is acted on: the process that is stopped is the one *)
(* the user saw, a password is replaced where it is still the one that was *)
(* verified, the file and the settings that are replaced are those the user*)
(* edited, and no draft is lost, although other programs, members and      *)
(* windows act in between (LocalDevelopment.cjs:1012,                      *)
(* local-accounts.ts:118-145, EnvironmentEditor.cjs:219-256,               *)
(* EnvironmentVariables.tsx:138, deployment-settings.ts:126).              *)
THEOREM ActsAreOfWhatWasShown == ServicesSpec => ActsOnWhatWasShown
<1> DEFINE Acts == CASE at = "ports"     -> Ports!StopsWhatWasShown
                     [] at = "plans"     -> Plans!StopsWhatWasShown
                     [] at = "edits"     -> Edits!StopsWhatWasShown
                     [] at = "resets"    -> Once!Accounts!ChangeIsCurrent
                     [] at = "logins"    -> Again!Accounts!ChangeIsCurrent
                     [] at = "variables" -> Once!Variables!ReplacesWhatWasShown /\ Once!Variables!DraftIsKept
                     [] at = "rereads"   -> Again!Variables!ReplacesWhatWasShown /\ Again!Variables!DraftIsKept
                     [] at = "settings"  -> Once!Settings!ReplacesWhatWasShown
                     [] OTHER            -> TRUE
<1>1. PartsInv /\ PeopleInv /\ [ServicesNext]_all => [Acts]_<<developing, accounts, variables, configuring>>
  <2> SUFFICES ASSUME PartsInv, PeopleInv, [ServicesNext]_all PROVE Acts
    OBVIOUS
  <2>1. /\ at = "ports" => Ports!StopsWhatWasShown
        /\ at = "plans" => Plans!StopsWhatWasShown
        /\ at = "edits" => Edits!StopsWhatWasShown
    BY NamesAssumption, PartsTurn, Ports!StepShown, Plans!StepShown, Edits!StepShown
       DEF PartsInv
  <2>2. /\ at = "resets" => Once!Accounts!ChangeIsCurrent
        /\ at = "logins" => Again!Accounts!ChangeIsCurrent
    BY NamesAssumption, PeopleTurn, Once!AccountsMove, Again!AccountsMove
       DEF PeopleInv
  <2>3. /\ at = "variables" => Once!Variables!ReplacesWhatWasShown /\ Once!Variables!DraftIsKept
        /\ at = "rereads" => Again!Variables!ReplacesWhatWasShown /\ Again!Variables!DraftIsKept
    BY NamesAssumption, PeopleTurn, Once!VariablesMove, Again!VariablesMove
       DEF PeopleInv
  <2>4. at = "settings" => Once!Settings!ReplacesWhatWasShown
    BY NamesAssumption, PeopleTurn, Once!SettingsMove DEF PeopleInv
  <2> QED BY <2>1, <2>2, <2>3, <2>4
<1> QED BY <1>1, PartsHold, PeopleHold, PTL DEF ServicesSpec, ActsOnWhatWasShown

(* What a member is told is ready, is: a connection to a model answered at *)
(* that revision, a connected computer has what was asked for set up on it,*)
(* a saved environment file was replaced, and a project was tested as it is*)
(* shown, although tests and runs file their results over each other,      *)
(* answers come late and windows are closed (agent-workspace.ts:439-454,   *)
(* 797-806, SystemEnrollment.cjs:334-381,                                  *)
(* EnvironmentVariables.tsx:145-195, DeploymentSettingsPage.tsx:167-205).  *)
THEOREM ReadyStaysProven == ServicesSpec => []ReadyIsProven
<1>1. (at = "agents" => AgentsInv /\ ReadyFacts) /\ PeopleInv => ReadyIsProven
  BY NamesAssumption, Once!EnrollingSafe, Again!EnrollingSafe, Once!VariablesSafe,
     Again!VariablesSafe, Once!SettingsSafe DEF PeopleInv, ReadyFacts, ReadyIsProven
<1> QED BY <1>1, AgentsSafe, PeopleHold, PTL

(* What is over stays as it was told: publications, requests for folders,  *)
(* agent runs as shown, notices whose time has passed, and releases on the *)
(* page that deploys them, although answers come late, twice or in another *)
(* order, and an end may be inferred from age alone                        *)
(* (developer-connectors.ts:893-898, system-discovery.ts:284-293,          *)
(* agent-workspace.ts:228, agent-notifications.ts:312,                     *)
(* servix-deployment-state.ts:3-30).                                       *)
THEOREM EndsAreFinal == ServicesSpec => EndsStay
<1> DEFINE Stays == CASE at = "imports"   -> Imports!OutcomeStays
                      [] at = "choices"   -> Choices!OutcomeStays
                      [] at = "looks"     -> Looks!OverIsOver
                      [] at = "agents"    -> Agents!ShownEndStays
                      [] at = "toasts"    -> Toasts!OverdueIsOver
                      [] at = "releasing" -> Again!Confirms!NothingDisappears
                      [] OTHER            -> TRUE
           Kept == /\ at = "looks" => LooksInv
                   /\ at = "agents" => AgentsInv /\ ReadyFacts
                   /\ at = "toasts" => ToastsInv
<1>1. PartsInv /\ PeopleInv /\ Kept /\ [ServicesNext]_all
      => [Stays]_<<publication, looking, agents, noticing, confirming>>
  <2> SUFFICES ASSUME PartsInv, PeopleInv, Kept, [ServicesNext]_all,
                      <<publication, looking, agents, noticing, confirming>>'
                        # <<publication, looking, agents, noticing, confirming>>
               PROVE  Stays
    OBVIOUS
  <2>1. at = "imports" => Imports!OutcomeStays
    BY PartsTurn, Imports!StepGrows DEF PartsInv
  <2>2. at = "choices" => Choices!OutcomeStays
    BY PartsTurn, Choices!StepGrows DEF PartsInv
  <2>3. at = "looks" => Looks!OverIsOver
    <3>1. CASE UNCHANGED looking
      BY <3>1 DEF looking, Looks!OverIsOver
    <3> QED BY <3>1, Turn, LooksOver
  <2>4. at = "agents" => Agents!ShownEndStays
    <3>1. CASE UNCHANGED agents
      BY <3>1 DEF agents, Agents!ShownEndStays, Agents!Shown, Agents!Overdue, Agents!Active
    <3> QED BY <3>1, Turn, AgentsOver
  <2>5. at = "toasts" => Toasts!OverdueIsOver
    <3>1. CASE UNCHANGED noticing
      BY <3>1 DEF noticing, Toasts!OverdueIsOver
    <3> QED BY <3>1, Turn, ToastsOver
  <2>6. at = "releasing" => Again!Confirms!NothingDisappears
    BY NamesAssumption, PeopleTurn, Again!ConfirmsMove DEF PeopleInv
  <2> QED BY <2>1, <2>2, <2>3, <2>4, <2>5, <2>6
<1> QED BY <1>1, PartsHold, PeopleHold, LooksSafe, AgentsSafe, ToastsSafe, PTL
        DEF ServicesSpec, EndsStay
================================================================================
