------------------------------ MODULE MCServices ------------------------------
(***************************************************************************)
(* The parts of the platform around the deployment pipeline, for TLC.  They*)
(* share no state with each other, only the devices they run on, so that   *)
(* one behaviour follows one part: "at" says which, and the others stay as *)
(* they begin.  A module is instantiated more than once where two questions*)
(* call for different bounds.  A part whose proofs are in a module of their*)
(* own is an instance of that module, so that what is proved there is known*)
(* of the part that runs.                                                  *)
(***************************************************************************)
EXTENDS ServicesParts, FiniteSets, TLC

CONSTANTS
  Actors, DeviceLimit, MaxPaired, MaxHalts, MaxReopens,
  Parts, api, web,                                  (* the parts to follow             *)
  r1, r2, r3, d1, d2, f1, f2,             (* publications, devices, folders  *)
  a1,                                     (* who approves a computer         *)
  s1, x1, x2,                             (* services and strange processes  *)
  repo, drive,                            (* roots                           *)
  u1, u2,                                 (* submitters                      *)
  t1, t2                                  (* tools                           *)

VARIABLES
  at,
  enrollment, lapsed, intents, receipts, owners, paired, policies, deciding, halts,
  setup, proposals, pendingIndex, connection, installed, reopens,   (* SystemPairing *)
  source, bundles, central, awaited, revoked, presence, selection, asked, restarts,
  worker, claimed, folder, local, stops,                        (* SourcePublication *)
  commands, stale, view, barred, agent, plan, files, marks, slips, owned, shown, port,
  launched, kills,                                               (* LocalDevelopment *)
  activityPolicies, history, cursors, stored, enrolled, adopted, watching, toScan,
  scanning, noticed, buffer, tick, counter, spool, changes, boots,   (* ActivityCollection *)
  credentials, sessions, browser, resets, audit, events,            (* LocalAccounts *)
  manifests, status, window, seen, sent, handler, finisher, setupIntents, setupResults,
  executed, deliveries, alters, setupStops,                           (* SystemSetup *)
  devices, config, consent, cut, running, remembered, form, step, enrollPhase, connecting,
  made,
  lost, windows, tries, revokes, lapses,                         (* SystemEnrollment *)
  offered, frozen, sending, listed, polled, sends, posts, answer, jobs, meant, confirmed,
  loads,                                                         (* ConfirmedActions *)
  envText, envPlanned, envClaimed, envReceipts, envRuntime, envBoot, envObserved, envJobs,
  envDocuments, envConnection, envDocument, envDraft, envPending, envFrozen, envSending,
  envUncertain, envSaved, envMessage, envRequests, envPosts, envAnswer, envReplaced,
  envEvents,                                                 (* EnvironmentVariables *)
  settings, settingsKept, settingsStore, settingsList, settingsForm, settingsBase,
  settingsMode, settingsBusy, settingsWaits, settingsTest, settingsArchiving, settingsPosts,
  settingsAnswers, settingsAsked                               (* DeploymentSettings *)

TwoJobs == 1..2

--------------------------------------------------------------------------------
(* The parts and their bounds.                                             *)

(* Two publications from two checkouts, one of which has a commit of its   *)
(* own.                                                                    *)
Imports == INSTANCE SourcePublicationProofs WITH
  Requests <- {r1, r2}, Devices <- {d1, d2}, Folders <- {f1}, Noted <- {}, Ahead <- {d1},
  MaxSelections <- 0, MaxStops <- 0, MaxRestarts <- 0

(* One publication that carries a change record, and two folders to choose *)
(* from, with every stop there is.                                         *)
Choices == INSTANCE SourcePublicationProofs WITH
  Requests <- {r3}, Devices <- {d1}, Folders <- {f1, f2}, Noted <- {r3}, Ahead <- {},
  MaxSelections <- 2, MaxStops <- 1, MaxRestarts <- 1

(* Two publications of one connector, the second of which carries a record,*)
(* and a selection between them.                                           *)
Answers == INSTANCE SourcePublication WITH
  Requests <- {r1, r2}, Devices <- {d1}, Folders <- {f1}, Noted <- {r2}, Ahead <- {},
  MaxSelections <- 1, MaxStops <- 0, MaxRestarts <- 0

(* A service, and two processes that may take its port.                    *)
Ports == INSTANCE LocalDevelopmentProofs WITH
  Services <- {s1}, Strangers <- {x1, x2}, MayTear <- TRUE, FirstPlan <- 0,
  MaxJobs <- 2, MaxEdits <- 0, MaxKills <- 0

(* A service under a plan, and a connector that stops, or files that change*)
Plans == INSTANCE LocalDevelopmentProofs WITH
  Services <- {s1}, Strangers <- {}, MayTear <- TRUE, FirstPlan <- 1,
  MaxJobs <- 2, MaxEdits <- 0, MaxKills <- 1

Edits == INSTANCE LocalDevelopmentProofs WITH
  Services <- {s1}, Strangers <- {}, MayTear <- FALSE, FirstPlan <- 1,
  MaxJobs <- 2, MaxEdits <- 1, MaxKills <- 0

Commands == INSTANCE LocalDevelopment WITH
  Services <- {s1}, Strangers <- {}, MayTear <- FALSE, FirstPlan <- 0,
  MaxJobs <- 2, MaxEdits <- 0, MaxKills <- 1

(* Two changes, more than a batch holds, under one policy and two starts.  *)
Changes == INSTANCE ActivityCollectionProofs WITH
  policies <- activityPolicies, Drives <- {drive}, Repository <- repo, CrossDevice <- FALSE,
  Batch <- 1, MaxEvents <- 2, MaxChanges <- 2, MaxPolicies <- 1, MaxBoots <- 1

(* One change, under two policies.                                         *)
Policies == INSTANCE ActivityCollectionProofs WITH
  policies <- activityPolicies, Drives <- {drive}, Repository <- repo, CrossDevice <- FALSE,
  Batch <- 1, MaxEvents <- 2, MaxChanges <- 1, MaxPolicies <- 2, MaxBoots <- 0

(* The same on Linux.                                                      *)
Mounts == INSTANCE ActivityCollectionProofs WITH
  policies <- activityPolicies, Drives <- {}, Repository <- repo, CrossDevice <- TRUE,
  Batch <- 1, MaxEvents <- 2, MaxChanges <- 1, MaxPolicies <- 2, MaxBoots <- 0

Buffers == INSTANCE ActivityCollection WITH
  policies <- activityPolicies, Drives <- {drive}, Repository <- repo, CrossDevice <- FALSE,
  Batch <- 1, MaxEvents <- 2, MaxChanges <- 2, MaxPolicies <- 1, MaxBoots <- 0

(* A run, and an agent that is changed under it.                           *)
Endings == INSTANCE AgentWorkspace WITH
  Runs <- {"run"}, MaxModels <- 1, MaxAgents <- 2, MaxProposals <- 1, MaxHaltings <- 1

Applying == INSTANCE SelfUpdates WITH
  claimed <- updateClaims, receipts <- updateReceipts,
  Submitters <- {u1}, Nobody <- nobody, MaxReleases <- 2, MaxReboots <- 1

(* What people do.  Two members who have their computers paired, one device*)
(* each at most; a member and the administrator who change passwords at    *)
(* once; a request to install that is delivered twice, and a stop; two     *)
(* accounts that connect in two windows; two confirmations, sent three     *)
(* times, on the page of components; a read and a save of an environment   *)
(* file, with another program that writes, a stop or a dialog that is      *)
(* opened again; two windows that save, or archive, what they show.        *)
Once == INSTANCE PeopleProofs WITH
  Torn <- torn,
  Members <- {u1, u2}, Admin <- u2, Signed <- <<u1, u2>>,
  LockAfter <- 2, MaxSessions <- 2, MaxChanges <- 2, MaxVersions <- 3, MaxLogins <- 1,
  Tools <- {t1, t2}, Always <- {t1}, Installable <- {t1, t2}, Named <- {t1, t2}, Folders <- {1},
  MaxRequests <- 1, MaxDeliveries <- 2, MaxAlters <- 0, MaxStops <- 1,
  EnrollUsers <- {u1, u2}, EnrollLimit <- 2,
  MaxDevices <- 2, MaxWindows <- 2, MaxTries <- 2, MaxRevokes <- 0, MaxLapses <- 0,
  Page <- "components", MaxConfirmed <- 2, MaxSends <- 3, MaxLoads <- 1,
  Keys <- {"PORT"}, Values <- {"set"}, Missing <- "missing", Same <- "same",
  FirstText <- [k \in {"PORT"} |-> "set"], FirstPlan <- 1,
  FirstShown <- [k \in {"PORT"} |-> "same"],
  MaxEnvRequests <- 2, MaxCopies <- 1, MaxEnvEvents <- 1,
  Windows <- {1, 2}, Contents <- {"default", "changed"}, FirstContent <- "default",
  Nothing <- nobody, MaxRevisions <- 3, MaxSaves <- 2

(* Once more.  A computer that asks twice to be paired; a member signed in *)
(* twice, and three sessions under one change; one tool, on a machine that *)
(* changes by other hands; one account whose device is revoked; the page of*)
(* releases; and what follows a save.                                      *)
Again == INSTANCE PeopleProofs WITH
  Actors <- {a1}, Torn <- torn, DeviceLimit <- 1,
  MaxProposals <- 2, MaxPaired <- 0, MaxHalts <- 1, MaxReopens <- 1,
  Members <- {u1, u2}, Admin <- u2, Signed <- <<u1, u1>>,
  LockAfter <- 2, MaxSessions <- 3, MaxChanges <- 1, MaxVersions <- 2, MaxLogins <- 3,
  Tools <- {t1}, Always <- {}, Installable <- {t1}, Named <- {t1}, Folders <- {1},
  MaxRequests <- 1, MaxDeliveries <- 2, MaxAlters <- 2, MaxStops <- 1,
  EnrollUsers <- {u1}, EnrollLimit <- 1,
  MaxDevices <- 2, MaxWindows <- 2, MaxTries <- 2, MaxRevokes <- 1, MaxLapses <- 1,
  Page <- "servix", MaxConfirmed <- 2, MaxSends <- 3, MaxLoads <- 1,
  Keys <- {"PORT"}, Values <- {"set"}, Missing <- "missing", Same <- "same",
  FirstText <- [k \in {"PORT"} |-> "set"], FirstPlan <- 1,
  FirstShown <- [k \in {"PORT"} |-> "set"],
  MaxEnvRequests <- 2, MaxCopies <- 1, MaxEnvEvents <- 0,
  Windows <- {1, 2}, Contents <- {"default", "changed"}, FirstContent <- "default",
  Nothing <- nobody, MaxRevisions <- 3, MaxSaves <- 2

(* What stands for nothing, or for a file that was cut off, is no value;   *)
(* and what the proofs about what people do ask of its bounds.             *)
ASSUME NamesAssumption ==
  /\ Ports!Names /\ Plans!Names /\ Edits!Names
  /\ Changes!Names /\ Policies!Names /\ Mounts!Names
  /\ Once!PairingBounds /\ Again!PairingBounds
  /\ Once!AccountsBounds /\ Again!AccountsBounds
  /\ Once!EquipmentBounds /\ Again!EquipmentBounds
  /\ Once!EnrollingBounds /\ Again!EnrollingBounds
  /\ Once!ConfirmsBounds /\ Again!ConfirmsBounds
  /\ Once!VariablesBounds /\ Again!VariablesBounds
  /\ Once!SettingsBounds

--------------------------------------------------------------------------------
(* The parts side by side.                                                 *)

pairing     == <<enrollment, lapsed, intents, receipts, owners, paired, policies, deciding,
                 halts, setup, proposals, pendingIndex, connection, installed, reopens>>
publication == <<source, bundles, central, awaited, revoked, presence, selection, asked,
                 restarts, worker, claimed, folder, local, stops>>
developing  == <<commands, stale, view, barred, agent, plan, files, marks, slips, owned, shown,
                 port, launched, kills>>
collection  == <<activityPolicies, history, cursors, stored, enrolled, adopted, watching, toScan,
                 scanning, noticed, buffer, tick, counter, spool, changes, boots>>
accounts    == <<credentials, sessions, browser, resets, audit, events>>
equipping   == <<manifests, status, window, seen, sent, handler, finisher, setupIntents,
                 setupResults, executed, deliveries, alters, setupStops>>
enrolls     == <<devices, config, consent, cut, running, remembered, form, step, enrollPhase,
                 connecting, made, lost, windows, tries, revokes, lapses>>
confirming  == <<offered, frozen, sending, listed, polled, sends, posts, answer, jobs, meant,
                 confirmed, loads>>
variables == <<envText, envPlanned, envClaimed, envReceipts, envRuntime, envBoot, envObserved,
               envJobs, envDocuments, envConnection, envDocument, envDraft, envPending,
               envFrozen, envSending, envUncertain, envSaved, envMessage, envRequests,
               envPosts, envAnswer, envReplaced, envEvents>>
configuring == <<settings, settingsKept, settingsStore, settingsList, settingsForm,
                 settingsBase, settingsMode, settingsBusy, settingsWaits, settingsTest,
                 settingsArchiving, settingsPosts, settingsAnswers, settingsAsked>>

deploying == <<publication, pairing, servix, developing>>
observing == <<collection, looking, agents, noticing>>
platform  == <<automation, onboarding, updating, vars>>
people    == <<accounts, equipping, enrolls, confirming, variables, configuring>>
all       == <<at, deploying, observing, platform, people>>

ServicesInit ==
  /\ at \in Parts
  /\ IF at = "choices" THEN Choices!Init ELSE IF at = "answers" THEN Answers!Init ELSE Imports!Init
  /\ IF at = "attempts" THEN Again!Pairing!Init ELSE Once!Pairing!Init
  /\ Servix!Init
  /\ IF at \in {"plans", "edits"} THEN Plans!Init ELSE IF at = "commands" THEN Commands!Init ELSE Ports!Init
  /\ IF at \in {"policies", "mounts"} THEN Policies!Init ELSE IF at = "buffers" THEN Buffers!Init ELSE Changes!Init
  /\ Looks!Init /\ Toasts!Init
  /\ IF at = "endings" THEN Endings!Init ELSE Agents!Init
  /\ Automation!Init /\ Onboarding!Init
  /\ IF at = "applying" THEN Applying!Init ELSE Updates!Init
  /\ Init
  /\ IF at = "logins" THEN Again!Accounts!Init ELSE Once!Accounts!Init
  /\ IF at = "altered" THEN Again!Equipment!Init ELSE Once!Equipment!Init
  /\ at \notin {"tools", "altered"} => status = [t \in {t1, t2} |-> "ready"] /\ manifests[1].asks = {}
  /\ Once!Enrolling!Init /\ Once!Confirms!Init
  /\ IF at = "rereads" THEN Again!Variables!Init ELSE Once!Variables!Init
  /\ Once!Settings!Init
  /\ at # "settings" => settings = Once!Settings!First

Publishes ==
  \/ at = "imports" /\ Imports!Next
  \/ at = "choices" /\ Choices!Next
  \/ at = "answers" /\ Answers!Next
Pairs ==
  \/ at = "pairing" /\ Once!Pairing!Next
  \/ at = "attempts" /\ Again!Pairing!Next
Develops ==
  \/ at = "ports" /\ Ports!Next
  \/ at = "plans" /\ Plans!Next
  \/ at = "edits" /\ Edits!Next
  \/ at = "commands" /\ Commands!Next
AgentWorks ==
  \/ at = "agents" /\ Agents!Next
  \/ at = "endings" /\ Endings!Next
Collects ==
  \/ at = "changes" /\ Changes!Next
  \/ at = "policies" /\ Policies!Next
  \/ at = "mounts" /\ Mounts!Next
  \/ at = "buffers" /\ Buffers!Next
SelfUpdates ==
  \/ at = "updates" /\ Updates!Next
  \/ at = "applying" /\ Applying!Next
ChangesPasswords ==
  \/ at = "resets" /\ Once!Accounts!Next
  \/ at = "logins" /\ Again!Accounts!Next
Equips ==
  \/ at = "tools" /\ Once!Equipment!Next
  \/ at = "altered" /\ Again!Equipment!Next
Enrolls ==
  \/ at = "enrolling" /\ Once!Enrolling!Next
  \/ at = "revoked" /\ Again!Enrolling!Next
Asks ==
  \/ at = "confirms" /\ Once!Confirms!Next
  \/ at = "releasing" /\ Again!Confirms!Next
EditsVariables ==
  \/ at = "variables" /\ Once!Variables!Next
  \/ at = "rereads" /\ Again!Variables!Next

Deploys ==
  \/ Publishes /\ UNCHANGED <<pairing, servix, developing>>
  \/ Pairs /\ UNCHANGED <<publication, servix, developing>>
  \/ at = "servix" /\ Servix!Next /\ UNCHANGED <<publication, pairing, developing>>
  \/ Develops /\ UNCHANGED <<publication, pairing, servix>>
Observes ==
  \/ Collects /\ UNCHANGED <<looking, agents, noticing>>
  \/ at = "looks" /\ Looks!Next /\ UNCHANGED <<collection, agents, noticing>>
  \/ AgentWorks /\ UNCHANGED <<collection, looking, noticing>>
  \/ at = "toasts" /\ Toasts!Next /\ UNCHANGED <<collection, looking, agents>>
Operates ==
  \/ at = "automation" /\ Automation!Next /\ UNCHANGED <<onboarding, updating, vars>>
  \/ at = "onboarding" /\ Onboarding!Next /\ UNCHANGED <<automation, updating, vars>>
  \/ SelfUpdates /\ UNCHANGED <<automation, onboarding, vars>>
  \/ at = "bindings" /\ Next /\ UNCHANGED <<automation, onboarding, updating>>
People ==
  \/ ChangesPasswords /\ UNCHANGED <<equipping, enrolls, confirming, variables, configuring>>
  \/ Equips /\ UNCHANGED <<accounts, enrolls, confirming, variables, configuring>>
  \/ Enrolls /\ UNCHANGED <<accounts, equipping, confirming, variables, configuring>>
  \/ Asks /\ UNCHANGED <<accounts, equipping, enrolls, variables, configuring>>
  \/ EditsVariables /\ UNCHANGED <<accounts, equipping, enrolls, confirming, configuring>>
  \/ /\ at = "settings" /\ Once!Settings!Next
     /\ UNCHANGED <<accounts, equipping, enrolls, confirming, variables>>

ServicesNext ==
  /\ UNCHANGED at
  /\ \/ Deploys /\ UNCHANGED <<observing, platform, people>>
     \/ Observes /\ UNCHANGED <<deploying, platform, people>>
     \/ Operates /\ UNCHANGED <<deploying, observing, people>>
     \/ People /\ UNCHANGED <<deploying, observing, platform>>

ServicesSpec == ServicesInit /\ [][ServicesNext]_all

(* The fairness of the parts that are followed to their end.                *)
Fairness ==
  /\ WF_publication(at = "answers" /\ Answers!Heartbeat(d1))
  /\ WF_publication(at = "answers" /\ Answers!Works(d1))
  /\ WF_pairing(at = "attempts" /\ Again!Pairing!Deciding)
  /\ WF_pairing(at = "attempts" /\ Again!Pairing!Setup)
  /\ \A p \in Again!Pairing!Proposals : WF_pairing(at = "attempts" /\ Again!Pairing!Lapse(p))
  /\ \A r \in Servix!Runs :
       /\ WF_servix(at = "servix" /\ Servix!Controls(r))
       /\ WF_servix(at = "servix" /\ Servix!Reconcile(r))
       /\ WF_servix(at = "servix" /\ Servix!Expire(r))
  /\ WF_developing(at = "commands" /\ Commands!Loop)
  /\ WF_developing(at = "commands" /\ Commands!Obey(s1))
  /\ SF_developing(at = "commands" /\ Commands!Answered)
  /\ \A j \in Commands!JobIds : SF_developing(at = "commands" /\ Commands!Given(j))
  /\ WF_collection(at = "buffers" /\ Buffers!Ticks)
  /\ SF_collection(at = "buffers" /\ Buffers!Accepted)
  /\ WF_agents(at = "endings" /\ Endings!Advances("run"))
  /\ WF_agents(at = "endings" /\ Endings!Age("run"))
  /\ WF_updating(at = "applying" /\ Applying!UpdaterWorks)
  /\ WF_updating(at = "applying" /\ Applying!Applies)
  /\ \A r \in Applying!Candidates : WF_updating(at = "applying" /\ Applying!Looks(r))

FairSpec == ServicesSpec /\ Fairness

--------------------------------------------------------------------------------
(* Properties.  Each is a property of the modules, put together where the   *)
(* parts promise the same thing.                                            *)

(* Each part keeps its types.                                               *)
WellTyped ==
  CASE at = "imports"    -> Imports!TypeOK
    [] at = "choices"    -> Choices!TypeOK
    [] at = "answers"    -> Answers!TypeOK
    [] at = "pairing"    -> Once!Pairing!TypeOK
    [] at = "attempts"   -> Again!Pairing!TypeOK
    [] at = "servix"     -> Servix!TypeOK
    [] at = "ports"      -> Ports!TypeOK
    [] at = "plans"      -> Plans!TypeOK
    [] at = "edits"      -> Edits!TypeOK
    [] at = "commands"   -> Commands!TypeOK
    [] at = "changes"    -> Changes!TypeOK
    [] at = "policies"   -> Policies!TypeOK
    [] at = "mounts"     -> Mounts!TypeOK
    [] at = "buffers"    -> Buffers!TypeOK
    [] at = "looks"      -> Looks!TypeOK
    [] at = "agents"     -> Agents!TypeOK
    [] at = "endings"    -> Endings!TypeOK
    [] at = "toasts"     -> Toasts!TypeOK
    [] at = "automation" -> Automation!TypeOK
    [] at = "onboarding" -> Onboarding!TypeOK
    [] at = "updates"    -> Updates!TypeOK
    [] at = "applying"   -> Applying!TypeOK
    [] at = "bindings"   -> TypeOK
    [] at = "resets"     -> Once!Accounts!TypeOK
    [] at = "logins"     -> Again!Accounts!TypeOK
    [] at = "tools"      -> Once!Equipment!TypeOK
    [] at = "altered"    -> Again!Equipment!TypeOK
    [] at = "enrolling"  -> Once!Enrolling!TypeOK
    [] at = "revoked"    -> Again!Enrolling!TypeOK
    [] at = "confirms"   -> Once!Confirms!TypeOK
    [] at = "releasing"  -> Again!Confirms!TypeOK
    [] at = "variables"  -> Once!Variables!TypeOK
    [] at = "rereads"    -> Again!Variables!TypeOK
    [] at = "settings"   -> Once!Settings!TypeOK

(* What a run is given to build is in the central repository for good      *)
(* (developer-connectors.ts:865-870).                                      *)
PublishedIsCentral ==
  CASE at = "imports" -> Imports!PublishedIsCentral
    [] at = "choices" -> Choices!PublishedIsCentral
    [] OTHER          -> TRUE

(* Neither the central ref nor a checkout ever loses a commit, nor do the  *)
(* settings of a project a record that was in force                        *)
(* (component-git.ts:100, Connector.cjs:303-324,                           *)
(* deployment-settings.ts:181-194).                                        *)
HistoriesOnlyGrow ==
  [][CASE at = "imports"  -> Imports!HistoriesGrow
       [] at = "choices"  -> Choices!HistoriesGrow
       [] at = "settings" -> Once!Settings!PastIsKept
       [] OTHER           -> TRUE]_<<publication, configuring>>

(* Choosing a folder and publishing from it exclude each other, and the    *)
(* folder shown is the one published from (developer-connectors.ts:211-216,*)
(* Connector.cjs:483-530).                                                 *)
FolderIsSettled ==
  CASE at = "imports" -> Imports!FolderIsSettled
    [] at = "choices" -> Choices!FolderIsSettled
    [] OTHER          -> TRUE

(* What there may be one of, there is one of: activations on their way,    *)
(* open requests of a kind, notices to be shown; devices up to the limit,  *)
(* one begin of each operation, one project of each repository             *)
(* (servix-deployment.ts:22-23, system-discovery.ts:192-225,               *)
(* agent-notifications.ts:259-268, developer-connectors.ts:592,            *)
(* project-automation.ts:222, migrations/0006:45-62).                      *)
OneAtATime ==
  CASE at = "servix"     -> Servix!OneActivation
    [] at = "looks"      -> Looks!OneOpenAtATime
    [] at = "toasts"     -> Toasts!OneNoticeAnHour
    [] at = "pairing"    -> Once!Pairing!WithinDeviceLimit
    [] at = "automation" -> Automation!BegunOnce
    [] at = "onboarding" -> Onboarding!OneProjectPerRepository
    [] OTHER             -> TRUE

(* What is over stays as it was told: publications, requests for folders,  *)
(* agent runs as shown, notices whose time has passed, releases on the page*)
(* that deploys them, although answers come late, twice or in another order*)
(* (developer-connectors.ts:893-898, system-discovery.ts:284-293,          *)
(* agent-workspace.ts:228, agent-notifications.ts:312,                     *)
(* servix-deployment-state.ts:3-30).                                       *)
EndsStay ==
  [][CASE at = "imports"   -> Imports!OutcomeStays
       [] at = "choices"   -> Choices!OutcomeStays
       [] at = "looks"     -> Looks!OverIsOver
       [] at = "agents"    -> Agents!ShownEndStays
       [] at = "toasts"    -> Toasts!OverdueIsOver
       [] at = "releasing" -> Again!Confirms!NothingDisappears
       [] OTHER            -> TRUE]_<<publication, looking, agents, noticing, confirming>>

(* An approved computer has the receipt, the device and the policy of who  *)
(* approved it, and no device is without its receipt, whatever was         *)
(* interrupted (developer-connectors.ts:1135-1263).                        *)
ApprovedIsWhole ==
  CASE at = "pairing"  -> Once!Pairing!ApprovedIsWhole /\ Once!Pairing!DeviceHasReceipt
    [] at = "attempts" -> Again!Pairing!ApprovedIsWhole /\ Again!Pairing!DeviceHasReceipt
    [] OTHER           -> TRUE

(* Nothing is done before it is on record who approved it: a computer is   *)
(* set up, a tool is installed and told of as it was, a password is        *)
(* replaced (DeviceEnrollment.cjs:290, SystemSetup.cjs:154-190,            *)
(* local-accounts.ts:64-75, 108-117).                                      *)
ApprovedFirst ==
  CASE at = "pairing"  -> Once!Pairing!InstalledIsApproved
    [] at = "attempts" -> Again!Pairing!InstalledIsApproved
    [] at = "tools"    -> Once!Equipment!InstalledByIntent /\ Once!Equipment!ResultIsWhole
    [] at = "altered"  -> Again!Equipment!InstalledByIntent /\ Again!Equipment!ResultIsWhole
    [] at = "resets"   -> Once!Accounts!AuditIsTrue
    [] at = "logins"   -> Again!Accounts!AuditIsTrue
    [] OTHER           -> TRUE

(* While nothing blocks, the current release is the one that is served     *)
(* (servix-deployment.ts:24-30).                                           *)
CurrentIsInstalled == at = "servix" => Servix!CurrentIsInstalled

(* What was asked for once is done once, however often it is tried: a local*)
(* job starts a service once at most, a window registers one computer, what*)
(* a page confirmed is stored once (LocalDevelopment.cjs:909,              *)
(* SystemEnrollment.cjs:239-273, ComponentDeployments.tsx:167,             *)
(* DeploymentsPage.tsx:170).                                               *)
NeverReplayed ==
  CASE at = "ports"     -> Ports!NeverReplayed
    [] at = "plans"     -> Plans!NeverReplayed
    [] at = "edits"     -> Edits!NeverReplayed
    [] at = "enrolling" -> Once!Enrolling!RetriesReuse
    [] at = "revoked"   -> Again!Enrolling!RetriesReuse
    [] at = "confirms"  -> Once!Confirms!OnceConfirmed
    [] at = "releasing" -> Again!Confirms!OnceConfirmed
    [] OTHER            -> TRUE

(* No service runs under a plan that was replaced                          *)
(* (LocalDevelopment.cjs:698-708, 990-1001).                               *)
RunsUnderPlan ==
  CASE at = "ports" -> Ports!RunsUnderPlan
    [] at = "plans" -> Plans!RunsUnderPlan
    [] at = "edits" -> Edits!RunsUnderPlan
    [] OTHER        -> TRUE

(* Only what was shown is acted on: the process that is stopped is the one *)
(* the user saw, the password that is replaced is the version that was     *)
(* verified, in a session that is still there, the environment file and the*)
(* settings that are replaced are those the user edited, who loses no draft*)
(* (LocalDevelopment.cjs:1012, local-accounts.ts:118-145,                  *)
(* EnvironmentEditor.cjs:219-256, EnvironmentVariables.tsx:138,            *)
(* deployment-settings.ts:126).                                            *)
ActsOnWhatWasShown ==
  [][CASE at = "ports"     -> Ports!StopsWhatWasShown
       [] at = "plans"     -> Plans!StopsWhatWasShown
       [] at = "edits"     -> Edits!StopsWhatWasShown
       [] at = "resets"    -> Once!Accounts!ChangeIsCurrent
       [] at = "logins"    -> Again!Accounts!ChangeIsCurrent
       [] at = "variables" -> Once!Variables!ReplacesWhatWasShown /\ Once!Variables!DraftIsKept
       [] at = "rereads"   -> Again!Variables!ReplacesWhatWasShown /\ Again!Variables!DraftIsKept
       [] at = "settings"  -> Once!Settings!ReplacesWhatWasShown
       [] OTHER            -> TRUE]_<<developing, accounts, variables, configuring>>

(* No change is told under another's number, or kept twice                 *)
(* (SystemDiscovery.cjs:333-354, system-discovery.ts:598-646).             *)
EachChangeOnce ==
  CASE at = "changes"  -> Changes!EachChangeOnce
    [] at = "policies" -> Policies!EachChangeOnce
    [] at = "mounts"   -> Mounts!EachChangeOnce
    [] OTHER           -> TRUE

(* What is sent is what the policy at hand selects                         *)
(* (SystemDiscovery.cjs:601-669).                                          *)
FollowsThePolicy ==
  CASE at = "changes"  -> Changes!FollowsThePolicy
    [] at = "policies" -> Policies!FollowsThePolicy
    [] at = "mounts"   -> Mounts!FollowsThePolicy
    [] OTHER           -> TRUE

(* A file is read only for a preview that was allowed at the machine       *)
(* (FolderBrowse.cjs:133-364).                                             *)
ReadWithConsent == at = "looks" => Looks!ReadWithConsent

(* An answer that is kept was asked under the agent and the connection the *)
(* run was granted for, and every revision of the agent has its skills and *)
(* memory on disk (agent-workspace.ts:500-523, 750-797).                   *)
AnswersUnderGuardrails ==
  at = "agents" => Agents!AnswersUnderGuardrails /\ Agents!RevisionsAreKept

(* A connection to a model is called ready only for a revision that        *)
(* answered, a computer connected only when what was asked for is set up on*)
(* it, an environment file saved only when it was replaced, and a project  *)
(* tested only as it is shown (agent-workspace.ts:439-454,                 *)
(* SystemEnrollment.cjs:334-381, EnvironmentVariables.tsx:145-195,         *)
(* DeploymentSettingsPage.tsx:167-205).                                    *)
ReadyIsProven ==
  CASE at = "agents"    -> Agents!ReadyIsProven
    [] at = "enrolling" -> Once!Enrolling!ConnectedAsAsked
    [] at = "revoked"   -> Again!Enrolling!ConnectedAsAsked
    [] at = "variables" -> Once!Variables!SavedIsTrue
    [] at = "rereads"   -> Again!Variables!SavedIsTrue
    [] at = "settings"  -> Once!Settings!TestIsNoOlder
    [] OTHER            -> TRUE

(* What is said of a notice is what happened on the device                 *)
(* (agent-notifications.ts:305-341).                                       *)
ReportIsTrue == at = "toasts" => Toasts!ReportIsTrue

(* Nothing reaches main but what was confirmed and validated               *)
(* (Invoke-TrackGrnAgent.ps1:463-500).                                     *)
MainIsApproved == at = "automation" => Automation!MainIsApproved

(* What an update says of itself is true: the note explains the release    *)
(* asked for, and a release reported as a success is in effect             *)
(* (self-updates.ts:134-150, Run-SelfUpdate.ps1:26-36).                    *)
UpdateIsTrue == at = "updates" => Updates!RequestKeepsItsNote /\ Updates!SuccessStaysInEffect

(* What waits in a part: the k-th of its requests, runs or changes.         *)
Waiting(k) ==
  \/ at = "answers" /\ k <= 2 /\ Answers!Queued(<<r1, r2>>[k])
  \/ at = "attempts" /\ k = 1 /\ Again!Pairing!Busy
  \/ at = "servix" /\ Servix!UnderWay(k)
  \/ at = "commands" /\ IF k <= 2 THEN Commands!Unanswered(k) ELSE Commands!Abandoned
  \/ at = "buffers" /\ k <= 2 /\ Buffers!Buffered(k)
  \/ at = "endings" /\ k = 1 /\ Endings!ShownRunning("run")
  \/ at = "applying" /\ k <= 2 /\ Applying!Undecided(k)

(* Nothing waits for ever.                                                  *)
EverythingEnds == \A k \in 1 .. 3 : Waiting(k) ~> ~Waiting(k)
===============================================================================
