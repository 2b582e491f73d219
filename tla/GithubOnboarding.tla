----------------------------- MODULE GithubOnboarding -----------------------------
(***************************************************************************)
(* How repositories of a GitHub account become projects of a workspace     *)
(* (apps/control-plane/src/github-onboarding.ts, with the tables of        *)
(* migrations/0006_github_repository_onboarding.sql and the companion of   *)
(* deployment/windows-agent/Invoke-TrackGrnAgent.ps1): the companion       *)
(* reports the catalogue of the account, and a member connects a repository*)
(* of it.                                                                  *)
(*                                                                         *)
(* Every request is a transaction of its own under READ COMMITTED: what one*)
(* has looked at may be stale when it writes, unless a row lock or a       *)
(* constraint of the table says otherwise.                                 *)
(***************************************************************************)
EXTENDS Naturals, Sequences

CONSTANTS
  Repositories,
  Clients,        (* the requests that may run at once                      *)
  MaxDiscoveries, (* bound: rows of github_discovery_operations             *)
  MaxProjects     (* bound: projects                                        *)

VARIABLES
  discoveries,    (* status of each row                                     *)
  catalogue,      (* the repositories last reported and not archived then   *)
  archived,       (* the repositories archived on GitHub                    *)
  projects,       (* projects and their links: the repository of each       *)
  txns,           (* the transactions under way                             *)
  scout           (* the discovery the companion works on                   *)

vars == <<discoveries, catalogue, archived, projects, txns, scout>>

--------------------------------------------------------------------------------
Discoveries == 1 .. MaxDiscoveries
Ended       == [does |-> "nothing", repo |-> "none"]

Init ==
  /\ discoveries = [d \in Discoveries |-> "none"]
  /\ catalogue = {} /\ archived = {} /\ projects = << >>
  /\ txns = [c \in Clients |-> Ended] /\ scout = 0

Pending == {d \in Discoveries : discoveries[d] \in {"queued", "claimed"}}
Linked  == {projects[p] : p \in DOMAIN projects}

--------------------------------------------------------------------------------
(* createDiscoveryOperation: one that is pending is returned instead.      *)
LookForDiscovery(c) ==
  /\ txns[c] = Ended /\ Pending = {}
  /\ txns' = [txns EXCEPT ![c].does = "discover"]
  /\ UNCHANGED <<discoveries, catalogue, archived, projects, scout>>

CreateDiscovery(c, d) ==
  /\ txns[c].does = "discover"
  /\ discoveries[d] = "none" /\ \A e \in 1 .. d - 1 : discoveries[e] # "none"
  /\ discoveries' = [discoveries EXCEPT ![d] = "queued"]
  /\ txns' = [txns EXCEPT ![c] = Ended]
  /\ UNCHANGED <<catalogue, archived, projects, scout>>

(* claimNextDiscovery: the oldest; the answer may be lost.                 *)
ClaimDiscovery(d) ==
  /\ scout = 0
  /\ discoveries[d] = "queued" /\ \A e \in 1 .. d - 1 : discoveries[e] # "queued"
  /\ discoveries' = [discoveries EXCEPT ![d] = "claimed"]
  /\ scout' \in {0, d}
  /\ UNCHANGED <<catalogue, archived, projects, txns>>

(* completeDiscovery: the row and the connection change together.          *)
CompleteDiscovery(outcome) ==
  /\ scout # 0
  /\ \/ /\ discoveries[scout] = "claimed"
        /\ discoveries' = [discoveries EXCEPT ![scout] = outcome]
        /\ catalogue' = IF outcome = "succeeded" THEN Repositories \ archived ELSE catalogue
     \/ UNCHANGED <<discoveries, catalogue>>           (* lost              *)
  /\ scout' = 0
  /\ UNCHANGED <<archived, projects, txns>>

Archive(r) ==
  /\ r \notin archived
  /\ archived' = archived \cup {r}
  /\ UNCHANGED <<discoveries, catalogue, projects, txns, scout>>

--------------------------------------------------------------------------------
(* connectRepository looks for the repository in the catalogue and for a   *)
(* link that exists; then it inserts the project and its link.             *)
LookForLink(c, r) ==
  /\ txns[c] = Ended
  /\ r \in catalogue /\ r \notin Linked
  /\ txns' = [txns EXCEPT ![c] = [does |-> "connect", repo |-> r]]
  /\ UNCHANGED <<discoveries, catalogue, archived, projects, scout>>

(* The tables link a repository to one project of a workspace; a           *)
(* transaction that would insert a second link is rolled back, the project *)
(* with it.                                                                *)
Unique(r) == r \notin Linked
Connect(c) ==
  /\ txns[c].does = "connect" /\ Unique(txns[c].repo)
  /\ Len(projects) < MaxProjects
  /\ projects' = Append(projects, txns[c].repo)
  /\ txns' = [txns EXCEPT ![c] = Ended]
  /\ UNCHANGED <<discoveries, catalogue, archived, scout>>

RollBack(c) ==
  /\ txns[c] # Ended
  /\ txns' = [txns EXCEPT ![c] = Ended]
  /\ UNCHANGED <<discoveries, catalogue, archived, projects, scout>>

Next ==
  \/ \E c \in Clients :
       \/ LookForDiscovery(c) \/ Connect(c) \/ RollBack(c)
       \/ \E d \in Discoveries : CreateDiscovery(c, d)
       \/ \E r \in Repositories : LookForLink(c, r)
  \/ \E d \in Discoveries : ClaimDiscovery(d)
  \/ \E outcome \in {"succeeded", "failed"} : CompleteDiscovery(outcome)
  \/ \E r \in Repositories : Archive(r)

Spec == Init /\ [][Next]_vars

--------------------------------------------------------------------------------
TypeOK ==
  /\ discoveries \in [Discoveries -> {"none", "queued", "claimed", "succeeded", "failed"}]
  /\ {catalogue, archived} \subseteq SUBSET Repositories
  /\ projects \in Seq(Repositories) /\ Len(projects) <= MaxProjects
  /\ txns \in [Clients -> [does : {"nothing", "discover", "connect"},
                            repo : Repositories \cup {"none"}]]
  /\ scout \in 0 .. MaxDiscoveries

(* Two members who connect one repository at once do not end with two      *)
(* projects for it, although each looks before either inserts              *)
(* (github-onboarding.ts:263-299).                                         *)
OneProjectPerRepository ==
  \A p, q \in DOMAIN projects : projects[p] = projects[q] => p = q
================================================================================
