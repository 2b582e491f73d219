---------------------------- MODULE ProjectAutomation -----------------------------
(***************************************************************************)
(* The TrackGRN pilot: a member asks for an operation on one repository,   *)
(* the companion on a laptop claims it, works on its checkout, on GitHub or*)
(* on the UAT server, and reports                                          *)
(* (apps/control-plane/src/project-automation.ts,                          *)
(* deployment/windows-agent/Invoke-TrackGrnAgent.ps1).                     *)
(*                                                                         *)
(* A revision of the source is the set of changes it holds, which is also  *)
(* its SHA; the digest of a checkout is its set of uncommitted changes.    *)
(* The branch an operation pushes bears its number.  One laptop, one       *)
(* operation at a time; the database hands out the oldest queued row.      *)
(***************************************************************************)
EXTENDS Naturals, FiniteSets

CONSTANTS
  MaxOps,       (* bound: operations                                        *)
  MaxEditions,  (* bound: changes made by hand                              *)
  MaxOutages    (* bound: stops of the companion                            *)

VARIABLES
  ops,          (* frevos.project_automation_operations                     *)
  checkout,     (* D:\TrackGRN                                              *)
  mainHead,     (* main on GitHub                                           *)
  branches,     (* the branches on GitHub                                   *)
  pulls,        (* the pull request of each branch                          *)
  validated,    (* the revisions whose "validate" check succeeded           *)
  releases,     (* the release directories on the UAT server                *)
  companion,    (* what the companion does                                  *)
  edition,      (* the last change made by hand                             *)
  begun,        (* how often each operation was begun                       *)
  approvedHeads,(* the revisions a squash merge was confirmed and made for  *)
  outages

github == <<mainHead, branches, pulls, validated>>
world  == <<github, checkout, releases>>
ghosts == <<begun, approvedHeads>>
vars   == <<ops, world, companion, edition, ghosts, outages>>

--------------------------------------------------------------------------------
Ops     == 1 .. MaxOps
Actions == {"commit-push", "open-pull-request", "squash-merge", "deploy"}
NoOp    == [action |-> "none", status |-> "none", head |-> {}, change |-> {}, branch |-> 0]
Away    == [step |-> "idle", op |-> 0, outcome |-> "failed"]

Init ==
  /\ ops = [o \in Ops |-> NoOp]
  /\ checkout = [branch |-> 0, head |-> {}, change |-> {}]
  /\ mainHead = {} /\ branches = [o \in Ops |-> {}] /\ pulls = [o \in Ops |-> "none"]
  /\ validated = {} /\ releases = {}
  /\ companion = Away /\ edition = 0 /\ begun = [o \in Ops |-> 0] /\ approvedHeads = {}
  /\ outages = 0

Clean == checkout.change = {}

--------------------------------------------------------------------------------
(* The control plane: createOperation, claimNext, complete.                *)

(* What is asked names what the member has seen.                           *)
Asked(action, b) ==
  CASE action = "open-pull-request" -> [head |-> branches[b], change |-> {}]
    [] action = "squash-merge"      -> [head |-> branches[b], change |-> {}]
    [] OTHER                        -> [head |-> checkout.head, change |-> checkout.change]
Create(o, action, b) ==
  /\ ops[o].status = "none" /\ \A p \in 1 .. o - 1 : ops[p].status # "none"
  /\ IF action \in {"open-pull-request", "squash-merge"} THEN branches[b] # {} ELSE b = o
  /\ ops' = [ops EXCEPT ![o] = [action |-> action, status |-> "queued", branch |-> b,
                                head |-> Asked(action, b).head, change |-> Asked(action, b).change]]
  /\ UNCHANGED <<world, companion, edition, ghosts, outages>>

Claimable(o) == ops[o].status = "queued"
Claim(o) ==
  /\ companion.step = "idle"
  /\ Claimable(o) /\ \A p \in 1 .. o - 1 : ~Claimable(p)
  /\ ops' = [ops EXCEPT ![o].status = "claimed"]
  /\ \/ companion' = [Away EXCEPT !.step = "claimed", !.op = o]
     \/ UNCHANGED companion                        (* the answer is lost    *)
  /\ UNCHANGED <<world, edition, ghosts, outages>>

Complete ==
  /\ companion.step = "done"
  /\ \/ /\ ops[companion.op].status = "claimed"
        /\ ops' = [ops EXCEPT ![companion.op].status = companion.outcome]
     \/ UNCHANGED ops                               (* refused, or lost     *)
  /\ companion' = Away
  /\ UNCHANGED <<world, edition, ghosts, outages>>

--------------------------------------------------------------------------------
(* The companion.                                                          *)

Doing(o, action) == companion.op = o /\ ops[o].action = action
Goes(step)       == companion' = [companion EXCEPT !.step = step]
Ends(outcome)    == companion' = [companion EXCEPT !.step = "done", !.outcome = outcome]

(* What is checked before anything is changed.                             *)
Ready(o) ==
  LET op == ops[o]
  IN CASE op.action = "commit-push" ->
            /\ ~Clean /\ checkout.branch = 0 /\ checkout.head = mainHead
            /\ op.head = checkout.head /\ op.change = checkout.change
       [] op.action = "open-pull-request" ->
            /\ Clean /\ checkout.head = op.head /\ checkout.branch = op.branch
            /\ branches[op.branch] = op.head
       [] op.action = "squash-merge" ->
            /\ Clean /\ pulls[op.branch] = "open"
            /\ branches[op.branch] = op.head /\ op.head \in validated
       [] OTHER ->
            Clean /\ checkout.head = op.head /\ op.head \notin releases

Begin(o) ==
  /\ companion.step = "claimed" /\ companion.op = o
  /\ begun' = [begun EXCEPT ![o] = @ + 1]
  /\ IF Ready(o) THEN Goes("checked") ELSE Ends("failed")
  /\ UNCHANGED <<ops, world, edition, approvedHeads, outages>>

(* Commit-AndPush: everything in the checkout goes to a branch of its own, *)
(* which is then pushed.                                                   *)
CommitAll(o) ==
  /\ companion.step = "checked" /\ Doing(o, "commit-push")
  /\ checkout' = [branch |-> o, head |-> checkout.head \cup checkout.change, change |-> {}]
  /\ Goes("committed")
  /\ UNCHANGED <<ops, github, releases, edition, ghosts, outages>>

Push(o) ==
  /\ companion.step = "committed" /\ Doing(o, "commit-push")
  /\ \/ branches' = [branches EXCEPT ![o] = checkout.head] /\ Ends("succeeded")
     \/ UNCHANGED branches /\ Ends("failed")
  /\ UNCHANGED <<ops, checkout, mainHead, pulls, validated, releases, edition, ghosts, outages>>

OpenPullRequest(o) ==
  /\ companion.step = "checked" /\ Doing(o, "open-pull-request")
  /\ LET b == ops[o].branch
     IN \/ /\ pulls[b] \in {"none", "open"}
           /\ pulls' = [pulls EXCEPT ![b] = "open"]
           /\ Ends(IF branches[b] = ops[o].head THEN "succeeded" ELSE "failed")
        \/ UNCHANGED pulls /\ Ends("failed")
  /\ UNCHANGED <<ops, checkout, mainHead, branches, validated, releases, edition, ghosts, outages>>

(* Squash-MergePullRequest: GitHub merges only the head it is told.        *)
(* Faulty form of Matches: whatever the head is by then.                   *)
MatchesAnyHead(o) == TRUE
Matches(o) == branches[ops[o].branch] = ops[o].head
Merge(o) ==
  /\ companion.step = "checked" /\ Doing(o, "squash-merge")
  /\ \/ /\ pulls[ops[o].branch] = "open" /\ Matches(o)
        /\ mainHead' = mainHead \cup branches[ops[o].branch]
        /\ pulls' = [pulls EXCEPT ![ops[o].branch] = "merged"]
        /\ approvedHeads' = approvedHeads \cup {ops[o].head}
        /\ Goes("merged")
     \/ UNCHANGED <<mainHead, pulls, approvedHeads>> /\ Ends("failed")
  /\ UNCHANGED <<ops, checkout, branches, validated, releases, edition, begun, outages>>

(* The checkout follows, and keeps what was changed in it meanwhile.       *)
Follow(o) ==
  /\ companion.step = "merged" /\ companion.op = o
  /\ \/ checkout' = [checkout EXCEPT !.branch = 0, !.head = mainHead] /\ Ends("succeeded")
     \/ UNCHANGED checkout /\ Ends("failed")
  /\ UNCHANGED <<ops, github, releases, edition, ghosts, outages>>

(* Deploy-TrackGrn: a release directory is made once.                      *)
Deploy(o) ==
  /\ companion.step = "checked" /\ Doing(o, "deploy")
  /\ \/ /\ ops[o].head \notin releases
        /\ releases' = releases \cup {ops[o].head}
        /\ \E outcome \in {"succeeded", "failed"} : Ends(outcome)
     \/ UNCHANGED releases /\ Ends("failed")
  /\ UNCHANGED <<ops, github, checkout, edition, ghosts, outages>>

Outage ==
  /\ outages < MaxOutages /\ companion.step # "idle"
  /\ outages' = outages + 1 /\ companion' = Away
  /\ UNCHANGED <<ops, world, edition, ghosts>>

--------------------------------------------------------------------------------
(* People, and GitHub.                                                     *)

EditCheckout ==
  /\ edition < MaxEditions
  /\ edition' = edition + 1
  /\ checkout' = [checkout EXCEPT !.change = @ \cup {edition + 1}]
  /\ UNCHANGED <<ops, github, releases, companion, ghosts, outages>>

(* Somebody else pushes to the branch.                                     *)
PushByHand(b) ==
  /\ edition < MaxEditions /\ branches[b] # {} /\ pulls[b] # "merged"
  /\ edition' = edition + 1
  /\ branches' = [branches EXCEPT ![b] = @ \cup {edition + 1}]
  /\ UNCHANGED <<ops, mainHead, pulls, validated, checkout, releases, companion, ghosts, outages>>

Validate(b) ==
  /\ pulls[b] = "open" /\ branches[b] \notin validated
  /\ validated' = validated \cup {branches[b]}
  /\ UNCHANGED <<ops, mainHead, branches, pulls, checkout, releases, companion, edition, ghosts, outages>>

Next ==
  \/ \E o, b \in Ops, action \in Actions : Create(o, action, b)
  \/ \E o \in Ops :
       \/ Claim(o) \/ Begin(o) \/ CommitAll(o) \/ Push(o) \/ OpenPullRequest(o)
       \/ Merge(o) \/ Follow(o) \/ Deploy(o) \/ PushByHand(o) \/ Validate(o)
  \/ Complete \/ Outage \/ EditCheckout

Spec == Init /\ [][Next]_vars

--------------------------------------------------------------------------------
Revisions == SUBSET (1 .. MaxEditions)

TypeOK ==
  /\ \A o \in Ops :
       /\ ops[o].action \in Actions \cup {"none"}
       /\ ops[o].status \in {"none", "queued", "claimed", "succeeded", "failed"}
       /\ {ops[o].head, ops[o].change, branches[o]} \subseteq Revisions
       /\ pulls[o] \in {"none", "open", "merged"}
  /\ {mainHead, checkout.head, checkout.change} \subseteq Revisions
  /\ validated \cup releases \cup approvedHeads \subseteq Revisions
  /\ companion.step \in {"idle", "claimed", "checked", "committed", "merged", "done"}
  /\ edition \in 0 .. MaxEditions /\ outages \in 0 .. MaxOutages

(* An operation is begun at most once, whatever answers are lost and       *)
(* wherever the companion stops: a side effect is never replayed           *)
(* (project-automation.ts:222-248; docs/TRACKGRN_UAT_PILOT.md:97).         *)
BegunOnce == \A o \in Ops : begun[o] <= 1

(* Nothing reaches main but revisions whose squash merge a member confirmed*)
(* and whose check succeeded, although the branch may move between the look*)
(* at the pull request and its merge (Invoke-TrackGrnAgent.ps1:463-500).   *)
MainIsApproved == mainHead = UNION approvedHeads /\ approvedHeads \subseteq validated
================================================================================
