----------------------------- MODULE ServicesParts -----------------------------
(***************************************************************************)
(* The parts of MCServices that have bounds of their own, with what they   *)
(* are made of: a module of their own so that what each of them keeps to   *)
(* can be proved without the others.  Destination, which the pipeline's    *)
(* workers implement, is the part that is extended.                        *)
(***************************************************************************)
EXTENDS Destination

CONSTANTS torn, nobody

(* The bounds of the parts, under the names they have there.               *)
CONSTANTS
  MaxRuns, MaxCrashes,                                            (* Servix     *)
  MaxAsks, MaxWrites, MaxMoves,                                   (* Looks      *)
  AgentRuns, MaxModels, MaxAgents, MaxHaltings,                   (* Agents     *)
  MaxProposals,                                       (* Agents, and Pairing    *)
  Notices, MaxCuts,                                               (* Toasts     *)
  MaxOps, MaxEditions, MaxOutages,                                (* Automation *)
  Repositories, Clients, MaxDiscoveries, MaxProjects,             (* Onboarding *)
  Submitters, MaxReleases, MaxReboots                             (* Updates    *)

ASSUME BoundsAssumption ==
  /\ MaxRuns \in Nat /\ MaxCrashes \in Nat
  /\ MaxAsks \in Nat /\ MaxWrites \in Nat /\ MaxMoves \in Nat
  /\ MaxModels \in Nat /\ MaxAgents \in Nat /\ MaxProposals \in Nat /\ MaxHaltings \in Nat
  /\ MaxCuts \in Nat
  /\ MaxOps \in Nat /\ MaxEditions \in Nat /\ MaxOutages \in Nat
  /\ MaxDiscoveries \in Nat /\ MaxProjects \in Nat
  /\ MaxReleases \in Nat /\ MaxReboots \in Nat

VARIABLES
  deployment, succeeded, overdue, background, approvals, claims, outcomes, receipted,
  pointer, runner, reports, target, release, task, crashes,      (* ServixDeployment *)
  asks, expired, sighted, granted, roots, hand, content, consented, opened, (* FolderRequests *)
  model, agentAt, enabledAt, memories, tested, runs, inChain, drafts, testing, work,
  aged, proven, askedUnder, haltings,                              (* AgentWorkspace *)
  notices, noticeApprovals, noticesOverdue, lately, sourced, consents, reported, pending,
  toast, receiptOf, displayed, cuts,                           (* AgentNotifications *)
  ops, checkout, mainHead, branches, pulls, validated, releases, companion, edition,
  begun, approvedHeads, outages,                                (* ProjectAutomation *)
  discoveries, catalogue, archived, projects, txns, scout,       (* GithubOnboarding *)
  sealed, replaces, outdated, details, requested, submissions, results, updateClaims,
  updateReceipts, updater, applying, active, serving, reboots         (* SelfUpdates *)

--------------------------------------------------------------------------------
(* The parts.                                                              *)

(* Three deployments, so that one is restored over another, and a stop.    *)
Servix == INSTANCE ServixDeployment

Looks == INSTANCE FolderRequests WITH
  Kinds <- {"browse", "search", "preview"}

Agents == INSTANCE AgentWorkspace WITH
  Runs <- AgentRuns

Toasts == INSTANCE AgentNotifications WITH
  approvals <- noticeApprovals, overdue <- noticesOverdue

(* Three operations on a checkout that is changed by hand twice.           *)
Automation == INSTANCE ProjectAutomation

Onboarding == INSTANCE GithubOnboarding

(* Two candidates, two members who submit at once, two reboots.            *)
Updates == INSTANCE SelfUpdates WITH
  claimed <- updateClaims, receipts <- updateReceipts, Nobody <- nobody

--------------------------------------------------------------------------------
(* What each of them is made of.                                           *)

servix      == <<deployment, succeeded, overdue, background, approvals, claims, outcomes,
                 receipted, pointer, runner, reports, target, release, task, crashes>>
looking     == <<asks, expired, sighted, granted, roots, hand, content, consented, opened>>
agents      == <<model, agentAt, enabledAt, memories, tested, runs, inChain, drafts, testing,
                 work, aged, proven, askedUnder, haltings>>
noticing    == <<notices, noticeApprovals, noticesOverdue, lately, sourced, consents, reported,
                 pending, toast, receiptOf, displayed, cuts>>
automation  == <<ops, checkout, mainHead, branches, pulls, validated, releases, companion,
                 edition, begun, approvedHeads, outages>>
onboarding  == <<discoveries, catalogue, archived, projects, txns, scout>>
updating    == <<sealed, replaces, outdated, details, requested, submissions, results,
                 updateClaims, updateReceipts, updater, applying, active, serving, reboots>>
================================================================================
