----------------------------- MODULE ServicesSteps -----------------------------
(***************************************************************************)
(* Proofs about the parts of ServicesParts, each by itself: its invariant, *)
(* stated of the instance, which every action of its module keeps; and what*)
(* Destination promises.                                                   *)
(***************************************************************************)
EXTENDS ServicesParts, FiniteSets, Sequences, FiniteSetTheorems, WellFoundedInduction, TLAPS

--------------------------------------------------------------------------------
(***************************************************************************)
(* Destination, the part that is extended: what every destination keeps to,*)
(* for any targets, releases and jobs.                                     *)
(***************************************************************************)

(* LockOwned alone is not inductive: that Hold names a job, and not the 0  *)
(* latest starts from, needs to be known of every destination at work.     *)
TargetsAtWork == \A t \in Targets : phase[t] # "rest" => latest[t] \in Jobs
DestinationInv == TypeOK /\ LockOwned /\ TargetsAtWork

(* Nothing is held before the first job.                                   *)
LEMMA InitDestination == Init => DestinationInv
BY DEF Init, DestinationInv, TypeOK, LockOwned, TargetsAtWork

(* Taking the lock names the job at hand, and the job at hand does not     *)
(* change while the lock is held.                                          *)
LEMMA NextDestination == DestinationInv /\ [Next]_vars => DestinationInv'
<1> SUFFICES ASSUME DestinationInv, [Next]_vars
             PROVE  DestinationInv'
  OBVIOUS
<1> USE DEF DestinationInv, TypeOK, LockOwned, TargetsAtWork, Moves
<1>1. ASSUME NEW t \in Targets, TakeUp(t)
      PROVE  DestinationInv'
  BY <1>1 DEF TakeUp
<1>2. ASSUME NEW t \in Targets, Hold(t)
      PROVE  DestinationInv'
  BY <1>2 DEF Hold
<1>3. ASSUME NEW t \in Targets, Switch(t)
      PROVE  DestinationInv'
  BY <1>3 DEF Switch
<1>4. ASSUME NEW t \in Targets, Finish(t)
      PROVE  DestinationInv'
  BY <1>4 DEF Finish
<1>5. ASSUME NEW t \in Targets, Drop(t)
      PROVE  DestinationInv'
  BY <1>5 DEF Drop
<1>6. CASE UNCHANGED vars
  BY <1>6 DEF vars
<1> QED
  BY <1>1, <1>2, <1>3, <1>4, <1>5, <1>6 DEF Next

(* The lock a destination carries is that of the job being done, at every  *)
(* moment (activate, ComponentExecutor.cjs:451-478).                       *)
THEOREM LockIsOwned == Spec => []LockOwned
<1>1. DestinationInv => LockOwned
  BY DEF DestinationInv
<1> QED
  BY <1>1, InitDestination, NextDestination, PTL DEF Spec

(* A stranded destination is never touched again: the jobs that come after *)
(* find the lock and give up.                                              *)
THEOREM StrandedForEver == Spec => StrandedStays
<1>1. ASSUME DestinationInv, [Next]_vars
      PROVE  [\A t \in Targets : Stranded(t) =>
                Stranded(t)' /\ live'[t] = live[t] /\ holder'[t] = holder[t]]_vars
  <2> SUFFICES ASSUME Next, NEW t \in Targets, Stranded(t)
               PROVE  Stranded(t)' /\ live'[t] = live[t] /\ holder'[t] = holder[t]
    BY <1>1
  <2>1. PICK u \in Targets : TakeUp(u) \/ Hold(u) \/ Switch(u) \/ Finish(u) \/ Drop(u)
    BY DEF Next
  <2> USE <1>1 DEF DestinationInv, TypeOK, Stranded, Moves
  <2>2. CASE TakeUp(u)
    BY <2>2 DEF TakeUp
  <2>3. CASE Hold(u)
    BY <2>3 DEF Hold
  <2>4. CASE Switch(u)
    BY <2>4 DEF Switch
  <2>5. CASE Finish(u)
    BY <2>5 DEF Finish
  <2>6. CASE Drop(u)
    BY <2>6 DEF Drop
  <2> QED
    BY <2>1, <2>2, <2>3, <2>4, <2>5, <2>6
<1> QED
  BY <1>1, InitDestination, NextDestination, PTL DEF Spec, StrandedStays

(* Only the job that holds the lock replaces the release, and it is the    *)
(* last one the destination took up: no late worker installs an older one. *)
THEOREM HolderSwitches == Spec => OnlyHolderSwitches
<1>1. ASSUME DestinationInv, [Next]_vars
      PROVE  [\A t \in Targets : live'[t] # live[t] =>
                phase[t] = "held" /\ holder[t] = latest[t] /\ holder'[t] = holder[t]]_vars
  <2> SUFFICES ASSUME Next, NEW t \in Targets, live'[t] # live[t]
               PROVE  phase[t] = "held" /\ holder[t] = latest[t] /\ holder'[t] = holder[t]
    BY <1>1
  <2>1. PICK u \in Targets : TakeUp(u) \/ Hold(u) \/ Switch(u) \/ Finish(u) \/ Drop(u)
    BY DEF Next
  <2>2. Switch(u)
    BY <2>1 DEF TakeUp, Hold, Finish, Drop
  <2>3. u = t
    BY <1>1, <2>2 DEF Switch, DestinationInv, TypeOK
  <2> QED
    BY <1>1, <2>2, <2>3 DEF Switch, Moves, DestinationInv, LockOwned
<1> QED
  BY <1>1, InitDestination, NextDestination, PTL DEF Spec, OnlyHolderSwitches

--------------------------------------------------------------------------------
(* Notices shown on a member's machine.                                    *)

Statuses == {"none", "draft", "queued", "delivering", "display-requested", "declined",
             "unsupported"}
Toast == [step : {"idle", "given", "noted", "done"}, of : Notices \cup {"none"},
          says : {"display-requested", "declined", "unsupported"}]

(* A notice being written is still a draft; one that was handed out is the *)
(* device's until it answers, and what the device is about to say of it is *)
(* what it did.  An approval under way and one of the last hour exclude    *)
(* each other, and what was handed out was approved.                       *)
ToastsInv ==
  /\ notices \in [Notices -> Statuses] /\ toast \in Toast
  /\ lately \subseteq Notices /\ pending \subseteq Notices
  /\ \A n \in pending : notices[n] = "draft" /\ n \in noticeApprovals
  /\ pending # {} => lately = {}
  /\ \A m, n \in pending \cup lately : m = n
  /\ \A n \in Notices : notices[n] \in {"queued", "delivering"} /\ n \notin noticesOverdue => n \in lately
  /\ \A n \in Notices : notices[n] \notin {"none", "draft"} => n \in noticeApprovals
  /\ displayed \subseteq {n \in Notices : notices[n] \notin {"none", "draft", "queued", "declined"}}
  /\ \A n \in Notices : notices[n] = "display-requested" => n \in displayed
  /\ toast.step # "idle" => toast.of \in Notices /\ notices[toast.of] = "delivering"
  /\ toast.step \in {"given", "noted"} => toast.of \notin displayed /\ toast.says = "declined"
  /\ toast.step = "done" =>
       /\ toast.says = "declined" => toast.of \notin displayed
       /\ toast.says = "display-requested" => toast.of \in displayed

(* No step of the control plane, the device or the world breaks it.        *)
LEMMA ToastsStep ==
  ASSUME ToastsInv, Toasts!Next
  PROVE  ToastsInv'
<1> USE DEF Toasts!server, Toasts!device, Toasts!Rest, Statuses, Toast
<1>1. ASSUME NEW n \in Notices, Toasts!Draft(n) PROVE ToastsInv'
  BY <1>1 DEF ToastsInv, Toasts!Draft
<1>2. ASSUME NEW n \in Notices, Toasts!WriteApproval(n) PROVE ToastsInv'
  BY <1>2 DEF ToastsInv, Toasts!WriteApproval, Toasts!Limited
<1>3. ASSUME NEW n \in Notices, Toasts!Approve(n) PROVE ToastsInv'
  BY <1>3 DEF ToastsInv, Toasts!Approve
<1>4. ASSUME NEW n \in Notices, Toasts!PassNotice(n) PROVE ToastsInv'
  BY <1>4 DEF ToastsInv, Toasts!PassNotice
<1>5. ASSUME Toasts!Claim PROVE ToastsInv'
  <2>1. ASSUME NEW n \in Notices, Toasts!Waiting(n), Toasts!Hands(n) PROVE ToastsInv'
    <3>1. /\ UNCHANGED <<noticeApprovals, noticesOverdue, lately, pending, displayed>>
          /\ pending = {} /\ toast.step = "idle"
      BY <1>5 DEF Toasts!Claim
    <3>2. notices[n] = "queued" /\ notices' = [notices EXCEPT ![n] = "delivering"]
      BY <2>1 DEF Toasts!Waiting, Toasts!Hands
    <3>3. CASE toast' = [Toasts!Rest EXCEPT !.step = "given", !.of = n]
      <4>1. toast' = [step |-> "given", of |-> n, says |-> "declined"]
        BY <3>3
      <4> QED BY <3>1, <3>2, <4>1 DEF ToastsInv
    <3>4. CASE UNCHANGED toast
      BY <3>1, <3>2, <3>4 DEF ToastsInv
    <3> QED BY <2>1, <3>3, <3>4 DEF Toasts!Hands
  <2>2. CASE UNCHANGED <<notices, toast>>
    BY <1>5, <2>2 DEF ToastsInv, Toasts!Claim
  <2> QED BY <1>5, <2>1, <2>2 DEF Toasts!Claim
<1>6. ASSUME Toasts!Complete PROVE ToastsInv'
  BY <1>6 DEF ToastsInv, Toasts!Complete, Toasts!Taken
<1>7. ASSUME Toasts!Receive PROVE ToastsInv'
  BY <1>7 DEF ToastsInv, Toasts!Receive, Toasts!Fresh
<1>8. ASSUME Toasts!Show PROVE ToastsInv'
  BY <1>8 DEF ToastsInv, Toasts!Show
<1>9. ASSUME Toasts!PassHour PROVE ToastsInv'
  BY <1>9 DEF ToastsInv, Toasts!PassHour
<1>10. ASSUME Toasts!Unsource \/ Toasts!Consent \/ Toasts!Unseen \/ Toasts!Cut PROVE ToastsInv'
  BY <1>10 DEF ToastsInv, Toasts!Unsource, Toasts!Consent, Toasts!Unseen, Toasts!Cut
<1> QED BY <1>1, <1>2, <1>3, <1>4, <1>5, <1>6, <1>7, <1>8, <1>9, <1>10 DEF Toasts!Next

(* A notice whose time is over is left as it is by every step: it is handed*)
(* out and answered only before, and approved only as a draft.             *)
LEMMA ToastsOver ==
  ASSUME ToastsInv, Toasts!Next
  PROVE  Toasts!OverdueIsOver
<1> USE DEF Toasts!server, Toasts!device, Toasts!OverdueIsOver
<1>1. ASSUME NEW n \in Notices, notices[n] \in {"none", "draft"} \/ n \notin noticesOverdue,
             NEW reached, notices' = [notices EXCEPT ![n] = reached]
      PROVE  Toasts!OverdueIsOver
  BY <1>1 DEF ToastsInv
<1>2. CASE UNCHANGED notices
  BY <1>2
<1>3. ASSUME NEW n \in Notices, Toasts!Draft(n) \/ Toasts!Approve(n) PROVE Toasts!OverdueIsOver
  BY <1>1, <1>3 DEF ToastsInv, Toasts!Draft, Toasts!Approve
<1>4. ASSUME Toasts!Claim PROVE Toasts!OverdueIsOver
  BY <1>1, <1>2, <1>4 DEF Toasts!Claim, Toasts!Waiting, Toasts!Hands
<1>5. ASSUME Toasts!Complete PROVE Toasts!OverdueIsOver
  <2>1. toast.of \in Notices
    BY <1>5 DEF ToastsInv, Toasts!Complete
  <2> QED BY <1>1, <1>2, <1>5, <2>1 DEF Toasts!Complete, Toasts!Taken
<1>6. ASSUME \/ \E n \in Notices : Toasts!WriteApproval(n) \/ Toasts!PassNotice(n)
             \/ Toasts!Receive \/ Toasts!Show \/ Toasts!PassHour \/ Toasts!Unsource
             \/ Toasts!Consent \/ Toasts!Unseen \/ Toasts!Cut
      PROVE  Toasts!OverdueIsOver
  BY <1>2, <1>6 DEF Toasts!WriteApproval, Toasts!PassNotice, Toasts!Receive, Toasts!Show,
     Toasts!PassHour, Toasts!Unsource, Toasts!Consent, Toasts!Unseen, Toasts!Cut
<1> QED BY <1>3, <1>4, <1>5, <1>6 DEF Toasts!Next

--------------------------------------------------------------------------------
(* The TrackGRN pilot.                                                     *)

Revisions == SUBSET (1 .. MaxEditions)
Operation == [action : Automation!Actions \cup {"none"},
              status : {"none", "queued", "claimed", "succeeded", "failed"},
              head : Revisions, change : Revisions, branch : 0 .. MaxOps]

Companion == [step : {"idle", "claimed", "checked", "committed", "merged", "done"},
              op : 0 .. MaxOps, outcome : {"succeeded", "failed"}]
Checkout == [branch : 0 .. MaxOps, head : Revisions, change : Revisions]
AutomationTypes ==
  /\ ops \in [1 .. MaxOps -> Operation]
  /\ branches \in [1 .. MaxOps -> Revisions]
  /\ checkout \in Checkout
  /\ companion \in Companion
  /\ mainHead \in Revisions /\ edition \in 0 .. MaxEditions
  /\ begun \in [1 .. MaxOps -> Nat]

(* The operation the companion works on is one that was claimed, so that   *)
(* its record stands; one that only waits was never begun.  A squash merge *)
(* that passed its checks is of a validated revision, and stays so.        *)
AutomationFacts ==
  /\ mainHead = UNION approvedHeads /\ approvedHeads \subseteq validated
  /\ \A o \in 1 .. MaxOps : begun[o] <= 1
  /\ \A o \in 1 .. MaxOps : ops[o].status \in {"none", "queued"} => begun[o] = 0
  /\ companion.step # "idle" =>
       companion.op \in 1 .. MaxOps /\ ops[companion.op].status \notin {"none", "queued"}
  /\ companion.step = "claimed" => begun[companion.op] = 0
  /\ companion.step = "checked" /\ ops[companion.op].action = "squash-merge"
       => ops[companion.op].head \in validated
AutomationInv == AutomationTypes /\ AutomationFacts

(* The bounds of this part.                                                *)
LEMMA OpsBounds == MaxOps \in Nat /\ MaxEditions \in Nat
BY BoundsAssumption

(* A revision with another one, or with a change made by hand, is one too. *)
LEMMA Grows ==
  /\ {} \in Revisions
  /\ \A R, S \in Revisions : R \cup S \in Revisions
  /\ \A R \in Revisions, e \in 0 .. MaxEditions :
       e < MaxEditions => R \cup {e + 1} \in Revisions /\ e + 1 \in 0 .. MaxEditions
BY OpsBounds DEF Revisions

(* A record with other fields is such a record.                            *)
LEMMA Taken ==
  ASSUME NEW c \in Companion, NEW o \in 0 .. MaxOps,
         companion' = [c EXCEPT !.step = "claimed", !.op = o]
  PROVE  companion' \in Companion /\ companion'.step = "claimed" /\ companion'.op = o
BY DEF Companion

(* A turn that goes on keeps the operation it was begun for.                *)
LEMMA Gone ==
  ASSUME companion \in Companion, NEW s \in {"checked", "committed", "merged"}, Automation!Goes(s)
  PROVE  companion' \in Companion /\ companion'.step = s /\ companion'.op = companion.op
BY DEF Companion, Automation!Goes

(* A turn that ends keeps it too.                                           *)
LEMMA Done ==
  ASSUME companion \in Companion, NEW r \in {"succeeded", "failed"}, Automation!Ends(r)
  PROVE  companion' \in Companion /\ companion'.step = "done" /\ companion'.op = companion.op
BY DEF Companion, Automation!Ends

(* A companion that is away has no operation in hand.                       *)
LEMMA Rests == Automation!Away \in Companion /\ Automation!Away.step = "idle"
BY OpsBounds DEF Companion, Automation!Away

(* A checkout on another branch and head is one still.                      *)
LEMMA Moved ==
  ASSUME NEW c \in Checkout, NEW b \in 0 .. MaxOps, NEW R \in Revisions
  PROVE  [c EXCEPT !.branch = b, !.head = R] \in Checkout
BY DEF Checkout

(* Every step keeps the types.                                             *)
LEMMA AutomationTyped ==
  ASSUME AutomationTypes, Automation!Next
  PROVE  AutomationTypes'
<1> USE OpsBounds DEF Automation!github, Automation!world, Automation!ghosts, Automation!Ops,
        Automation!Actions, Automation!Doing
<1>1. ASSUME NEW o \in 1 .. MaxOps, NEW b \in 1 .. MaxOps, NEW action \in Automation!Actions,
             Automation!Create(o, action, b)
      PROVE  AutomationTypes'
  BY <1>1, Grows DEF AutomationTypes, Operation, Companion, Checkout, Automation!Create,
     Automation!Asked
<1>2. ASSUME NEW o \in 1 .. MaxOps, Automation!Claim(o) PROVE AutomationTypes'
  <2>1. ops' \in [1 .. MaxOps -> Operation]
    <3>1. ops' = [ops EXCEPT ![o].status = "claimed"]
      BY <1>2 DEF Automation!Claim
    <3> QED BY <3>1 DEF AutomationTypes, Operation
  <2>2. companion' \in Companion
    <3>1. o \in 0 .. MaxOps
      OBVIOUS
    <3>2. \/ companion' = [Automation!Away EXCEPT !.step = "claimed", !.op = o]
          \/ UNCHANGED companion
      BY <1>2 DEF Automation!Claim
    <3> QED BY <3>1, <3>2, Taken, Rests DEF AutomationTypes
  <2> QED BY <1>2, <2>1, <2>2 DEF AutomationTypes, Automation!Claim
<1>3. ASSUME NEW o \in 1 .. MaxOps, Automation!Begin(o) PROVE AutomationTypes'
  <2>1. companion' \in Companion
    BY <1>3, Gone, Done DEF AutomationTypes, Automation!Begin
  <2>2. begun' \in [1 .. MaxOps -> Nat]
    BY <1>3 DEF AutomationTypes, Automation!Begin
  <2> QED BY <1>3, <2>1, <2>2 DEF AutomationTypes, Automation!Begin
<1>4. ASSUME NEW o \in 1 .. MaxOps, Automation!CommitAll(o) PROVE AutomationTypes'
  BY <1>4, Grows, Gone, Done DEF AutomationTypes, Operation, Companion, Checkout,
     Automation!CommitAll
<1>5. ASSUME NEW o \in 1 .. MaxOps, Automation!Push(o) PROVE AutomationTypes'
  BY <1>5, Gone, Done DEF AutomationTypes, Operation, Companion, Checkout, Automation!Push
<1>6. ASSUME NEW o \in 1 .. MaxOps, Automation!OpenPullRequest(o) PROVE AutomationTypes'
  BY <1>6, Gone, Done DEF AutomationTypes, Operation, Companion, Checkout,
     Automation!OpenPullRequest
<1>7. ASSUME NEW o \in 1 .. MaxOps, Automation!Merge(o) PROVE AutomationTypes'
  <2>1. companion' \in Companion
    BY <1>7, Gone, Done DEF AutomationTypes, Automation!Merge
  <2>2. mainHead' \in Revisions
    <3>1. ASSUME Automation!Matches(o), mainHead' = mainHead \cup branches[ops[o].branch]
          PROVE  mainHead' \in Revisions
      <4>1. branches[ops[o].branch] \in Revisions
        BY <3>1 DEF AutomationTypes, Operation, Automation!Matches
      <4> QED BY <3>1, <4>1, Grows DEF AutomationTypes
    <3> QED BY <1>7, <3>1 DEF AutomationTypes, Automation!Merge
  <2> QED BY <1>7, <2>1, <2>2 DEF AutomationTypes, Automation!Merge
<1>8. ASSUME NEW o \in 1 .. MaxOps, Automation!Follow(o) PROVE AutomationTypes'
  <2>1. companion' \in Companion
    BY <1>8, Gone, Done DEF AutomationTypes, Automation!Follow
  <2>2. checkout' \in Checkout
    <3>1. \E b \in 0 .. MaxOps : b = 0
      OBVIOUS
    <3>2. ASSUME NEW b \in 0 .. MaxOps, checkout' = [checkout EXCEPT !.branch = b, !.head = mainHead]
          PROVE  checkout' \in Checkout
      BY <3>2, Moved DEF AutomationTypes
    <3> QED BY <1>8, <3>1, <3>2 DEF AutomationTypes, Automation!Follow
  <2> QED BY <1>8, <2>1, <2>2 DEF AutomationTypes, Automation!Follow
<1>9. ASSUME NEW o \in 1 .. MaxOps, Automation!Deploy(o) PROVE AutomationTypes'
  BY <1>9, Gone, Done DEF AutomationTypes, Operation, Companion, Checkout, Automation!Deploy
<1>10. ASSUME NEW o \in 1 .. MaxOps, Automation!PushByHand(o) PROVE AutomationTypes'
  BY <1>10, Grows DEF AutomationTypes, Operation, Companion, Checkout, Automation!PushByHand
<1>11. ASSUME NEW o \in 1 .. MaxOps, Automation!Validate(o) PROVE AutomationTypes'
  BY <1>11 DEF AutomationTypes, Operation, Companion, Checkout, Automation!Validate
<1>12. ASSUME Automation!Complete PROVE AutomationTypes'
  <2>1. companion.outcome \in {"succeeded", "failed"}
    BY DEF AutomationTypes, Companion
  <2>2. ops' \in [1 .. MaxOps -> Operation]
    <3>1. ASSUME ops' = [ops EXCEPT ![companion.op].status = companion.outcome]
          PROVE  ops' \in [1 .. MaxOps -> Operation]
      BY <2>1, <3>1 DEF AutomationTypes, Operation
    <3> QED BY <1>12, <3>1 DEF AutomationTypes, Automation!Complete
  <2>3. companion' \in Companion
    BY <1>12, Rests DEF AutomationTypes, Automation!Complete
  <2> QED BY <1>12, <2>2, <2>3 DEF AutomationTypes, Automation!Complete
<1>13. ASSUME Automation!Outage PROVE AutomationTypes'
  BY <1>13 DEF AutomationTypes, Operation, Companion, Checkout, Automation!Away,
     Automation!Outage
<1>14. ASSUME Automation!EditCheckout PROVE AutomationTypes'
  BY <1>14, Grows DEF AutomationTypes, Operation, Companion, Checkout, Automation!EditCheckout
<1> QED BY <1>1, <1>2, <1>3, <1>4, <1>5, <1>6, <1>7, <1>8, <1>9, <1>10, <1>11,
           <1>12, <1>13, <1>14 DEF Automation!Next

(* No step of the control plane, the companion, GitHub or the people there *)
(* breaks the rest.                                                        *)
LEMMA AutomationStep ==
  ASSUME AutomationTypes, AutomationFacts, Automation!Next
  PROVE  AutomationFacts'
<1> USE OpsBounds DEF Automation!github, Automation!world, Automation!ghosts, Automation!Ops,
        Automation!Actions, Automation!Doing
<1>1. ASSUME NEW o \in 1 .. MaxOps, NEW b \in 1 .. MaxOps, NEW action \in Automation!Actions,
             Automation!Create(o, action, b)
      PROVE  AutomationFacts'
  BY <1>1 DEF AutomationFacts, AutomationTypes, Operation, Companion, Checkout,
     Automation!Create, Automation!Asked
<1>2. ASSUME NEW o \in 1 .. MaxOps, Automation!Claim(o) PROVE AutomationFacts'
  BY <1>2 DEF AutomationFacts, AutomationTypes, Operation, Companion, Checkout,
     Automation!Away, Automation!Claim, Automation!Claimable
<1>3. ASSUME NEW o \in 1 .. MaxOps, Automation!Begin(o) PROVE AutomationFacts'
  <2>1. /\ begun[o] = 0 /\ ops[o].status \notin {"none", "queued"}
        /\ begun' = [begun EXCEPT ![o] = @ + 1]
        /\ UNCHANGED <<ops, mainHead, validated, approvedHeads>>
    BY <1>3 DEF AutomationFacts, Automation!Begin
  <2>2. /\ begun'[o] = 1
        /\ \A p \in 1 .. MaxOps : p # o => begun'[p] = begun[p]
    BY <2>1 DEF AutomationTypes
  <2>3. /\ companion'.op = o /\ companion'.step \in {"checked", "done"}
        /\ companion'.step = "checked" => Automation!Ready(o)
    BY <1>3, Gone, Done DEF AutomationTypes, Automation!Begin
  <2>4. companion'.step = "checked" /\ ops[o].action = "squash-merge" => ops[o].head \in validated
    BY <2>3 DEF Automation!Ready
  <2> QED BY <2>1, <2>2, <2>3, <2>4 DEF AutomationFacts
<1>4. ASSUME NEW o \in 1 .. MaxOps, Automation!CommitAll(o) PROVE AutomationFacts'
  BY <1>4, Gone, Done DEF AutomationFacts, AutomationTypes, Operation, Companion, Checkout,
     Automation!CommitAll
<1>5. ASSUME NEW o \in 1 .. MaxOps, Automation!Push(o) PROVE AutomationFacts'
  BY <1>5, Gone, Done DEF AutomationFacts, AutomationTypes, Operation, Companion, Checkout,
     Automation!Push
<1>6. ASSUME NEW o \in 1 .. MaxOps, Automation!OpenPullRequest(o) PROVE AutomationFacts'
  BY <1>6, Gone, Done DEF AutomationFacts, AutomationTypes, Operation, Companion, Checkout,
     Automation!OpenPullRequest
<1>7. ASSUME NEW o \in 1 .. MaxOps, Automation!Merge(o) PROVE AutomationFacts'
  <2>1. /\ companion.op = o /\ ops[o].action = "squash-merge" /\ ops[o].head \in validated
        /\ UNCHANGED <<ops, validated, begun>>
    BY <1>7 DEF AutomationFacts, Automation!Merge
  <2>2. companion'.op = o /\ companion'.step \in {"merged", "done"}
    BY <1>7, <2>1, Gone, Done DEF AutomationTypes, Automation!Merge
  <2>3. CASE UNCHANGED <<mainHead, approvedHeads>>
    BY <2>1, <2>2, <2>3, <1>7 DEF AutomationFacts, Automation!Merge
  <2>4. CASE /\ branches[ops[o].branch] = ops[o].head
             /\ mainHead' = mainHead \cup branches[ops[o].branch]
             /\ approvedHeads' = approvedHeads \cup {ops[o].head}
    <3>1. mainHead' = UNION approvedHeads' /\ approvedHeads' \subseteq validated
      BY <2>1, <2>4 DEF AutomationFacts
    <3> QED BY <2>1, <2>2, <3>1, <1>7 DEF AutomationFacts, Automation!Merge
  <2> QED BY <1>7, <2>3, <2>4 DEF Automation!Merge, Automation!Matches
<1>8. ASSUME NEW o \in 1 .. MaxOps, Automation!Follow(o) PROVE AutomationFacts'
  BY <1>8, Gone, Done DEF AutomationFacts, AutomationTypes, Operation, Companion, Checkout,
     Automation!Follow
<1>9. ASSUME NEW o \in 1 .. MaxOps, Automation!Deploy(o) PROVE AutomationFacts'
  BY <1>9, Gone, Done DEF AutomationFacts, AutomationTypes, Operation, Companion, Checkout,
     Automation!Deploy
<1>10. ASSUME NEW o \in 1 .. MaxOps, Automation!PushByHand(o) PROVE AutomationFacts'
  BY <1>10 DEF AutomationFacts, AutomationTypes, Operation, Companion, Checkout,
     Automation!PushByHand
<1>11. ASSUME NEW o \in 1 .. MaxOps, Automation!Validate(o) PROVE AutomationFacts'
  BY <1>11 DEF AutomationFacts, AutomationTypes, Operation, Companion, Checkout,
     Automation!Validate
<1>12. ASSUME Automation!Complete PROVE AutomationFacts'
  BY <1>12 DEF AutomationFacts, AutomationTypes, Operation, Companion, Checkout,
     Automation!Away, Automation!Complete
<1>13. ASSUME Automation!Outage PROVE AutomationFacts'
  BY <1>13 DEF AutomationFacts, AutomationTypes, Operation, Companion, Checkout,
     Automation!Away, Automation!Outage
<1>14. ASSUME Automation!EditCheckout PROVE AutomationFacts'
  BY <1>14 DEF AutomationFacts, AutomationTypes, Operation, Companion, Checkout,
     Automation!EditCheckout
<1> QED BY <1>1, <1>2, <1>3, <1>4, <1>5, <1>6, <1>7, <1>8, <1>9, <1>10, <1>11,
           <1>12, <1>13, <1>14 DEF Automation!Next

--------------------------------------------------------------------------------
(* Folders and previews on a machine at a distance.                        *)

ThreeKinds == {"browse", "search", "preview"}
Request == [status : {"none", "queued", "working", "succeeded", "declined", "failed"},
            kind : ThreeKinds, roots : Nat, after : Nat, before : Nat]
Tick == [step : {"idle", "asking", "reading", "done"}, ask : 0 .. MaxAsks,
         status : {"succeeded", "declined", "failed"}, after : Nat]
LooksTypes ==
  /\ asks \in [1 .. MaxAsks -> Request]
  /\ hand \in [ThreeKinds -> Tick]
  /\ roots \in Nat /\ content \in Nat

(* A tick works on a request of its kind; a file is read for a preview     *)
(* that was allowed, and what was read last is not older than what any     *)
(* preview before it showed.                                               *)
LooksFacts ==
  /\ \A k \in ThreeKinds : hand[k].step # "idle" =>
       /\ hand[k].ask \in 1 .. MaxAsks
       /\ asks[hand[k].ask].kind = k /\ asks[hand[k].ask].status # "none"
  /\ \A a, b \in 1 .. MaxAsks :
       Looks!Open(a) /\ Looks!Open(b) /\ asks[a].kind = asks[b].kind => a = b
  /\ opened \subseteq consented
  /\ hand["preview"].step = "reading" => hand["preview"].ask \in consented
  /\ hand["preview"].step = "done" /\ hand["preview"].status = "succeeded" =>
       /\ hand["preview"].ask \in opened /\ hand["preview"].after <= content
       /\ \A a \in Looks!Earlier : asks[a].after <= hand["preview"].after
  /\ \A a \in Looks!Earlier :
       a \in opened /\ asks[a].before <= asks[a].after /\ asks[a].after <= content
(* What is over was asked for.                                             *)
ExpiredFacts == \A a \in 1 .. MaxAsks : a \in expired => asks[a].status # "none"
LooksInv == LooksTypes /\ LooksFacts /\ ExpiredFacts

(* The bounds of this part.                                                *)
LEMMA AsksBounds == MaxAsks \in Nat /\ MaxMoves \in Nat /\ MaxWrites \in Nat
BY BoundsAssumption

(* The last of the previews that were shown is one of them.                *)
LEMMA LastIsSeen ==
  ASSUME LooksTypes, Looks!Earlier # {}
  PROVE  Looks!Max(Looks!Earlier) \in Looks!Earlier
<1> DEFINE previewed == Looks!Earlier
           below == {MaxAsks - a : a \in previewed}
<1>1. previewed \subseteq 1 .. MaxAsks
  BY DEF Looks!Earlier, Looks!OfKind, Looks!Asks
<1> HIDE DEF previewed
<1>2. \A a \in previewed : a \in Nat /\ MaxAsks - a \in Nat
  BY <1>1, AsksBounds
<1>3. below \in SUBSET Nat /\ below # {}
  BY <1>2 DEF previewed
<1>4. PICK m \in below : \A n \in below : m <= n
  <2>1. PICK m \in below : \A n \in below : ~(<<n, m>> \in OpToRel(<, Nat))
    BY <1>3, WFMin, NatLessThanWellFounded
  <2>2. \A n \in below : ~(n < m)
    BY <1>3, <2>1 DEF OpToRel
  <2> HIDE DEF below
  <2> QED BY <1>3, <2>2
<1>5. PICK a \in previewed : m = MaxAsks - a
  BY <1>4
<1>6. \A b \in previewed : a >= b
  <2>1. ASSUME NEW b \in previewed PROVE a >= b
    <3>1. MaxAsks - b \in below
      OBVIOUS
    <3>2. MaxAsks - a <= MaxAsks - b
      BY <1>4, <1>5, <3>1
    <3> QED BY <1>2, <3>2, AsksBounds
  <2> QED BY <2>1
<1> QED BY <1>5, <1>6 DEF Looks!Max, previewed

(* An answer ends the request of the tick and touches no other one; only   *)
(* the text of a preview that was read is shown, with the last one before. *)
LEMMA ToldAsks ==
  ASSUME LooksTypes, NEW k \in ThreeKinds, Looks!Told(k)
  PROVE  \/ UNCHANGED asks
         \/ LET a == hand[k].ask
            IN /\ a \in 1 .. MaxAsks => asks[a].status = "working" /\ a \notin expired
               /\ asks' \in [1 .. MaxAsks -> Request]
               /\ \A b \in 1 .. MaxAsks : b # a => asks'[b] = asks[b]
               /\ a \in 1 .. MaxAsks =>
                    /\ asks'[a].status = hand[k].status /\ asks'[a].kind = asks[a].kind
                    /\ asks'[a].status = "succeeded" => asks'[a].after = hand[k].after
                    /\ k = "preview" /\ asks'[a].status = "succeeded" => asks'[a].before = Looks!LastSeen
<1> DEFINE a == hand[k].ask
           f == IF hand[k].status = "succeeded" THEN hand[k].after ELSE 0
           g == IF k = "preview" /\ hand[k].status = "succeeded" THEN Looks!LastSeen ELSE 0
<1>1. SUFFICES ASSUME asks' # asks
               PROVE  /\ asks[a].status = "working" /\ a \notin expired
                      /\ asks' = [asks EXCEPT ![a].status = hand[k].status,
                                              ![a].after = f, ![a].before = g]
                      /\ f \in Nat /\ g \in Nat
  <2>1. hand[k].status \in {"succeeded", "declined", "failed"}
    BY DEF LooksTypes, Tick
  <2> HIDE DEF f, g
  <2>2. ASSUME asks[a].status = "working", a \notin expired, f \in Nat, g \in Nat,
               asks' = [asks EXCEPT ![a].status = hand[k].status, ![a].after = f, ![a].before = g]
        PROVE  /\ a \in 1 .. MaxAsks => asks[a].status = "working" /\ a \notin expired
               /\ asks' \in [1 .. MaxAsks -> Request]
               /\ \A b \in 1 .. MaxAsks : b # a => asks'[b] = asks[b]
               /\ a \in 1 .. MaxAsks =>
                    /\ asks'[a].status = hand[k].status /\ asks'[a].kind = asks[a].kind
                    /\ asks'[a].after = f /\ asks'[a].before = g
    BY <2>1, <2>2 DEF LooksTypes, Request
  <2> QED BY <2>2 DEF f, g
<1>2. Looks!LastSeen \in Nat
  <2>1. CASE Looks!Earlier = {}
    BY <2>1 DEF Looks!LastSeen
  <2>2. CASE Looks!Earlier # {}
    BY <2>2, LastIsSeen DEF Looks!LastSeen, Looks!Earlier, Looks!OfKind, Looks!Asks,
       LooksTypes, Request
  <2> QED BY <2>1, <2>2
<1>3. f \in Nat /\ g \in Nat
  BY <1>2 DEF LooksTypes, Tick
<1> QED BY <1>1, <1>3 DEF Looks!Told, Looks!Accepts

(* Every step keeps the types.                                             *)
LEMMA LooksTyped ==
  ASSUME LooksTypes, Looks!Next
  PROVE  LooksTypes'
<1> USE AsksBounds DEF ThreeKinds, Looks!access, Looks!local, Looks!Asks
<1>1. ASSUME NEW a \in 1 .. MaxAsks, NEW k \in ThreeKinds, Looks!Queued(a, k) PROVE LooksTypes'
  BY <1>1 DEF LooksTypes, Request, Looks!Queued, Looks!Blank
<1>2. ASSUME NEW a \in 1 .. MaxAsks, NEW k \in ThreeKinds, Looks!HandOut(k, a) PROVE LooksTypes'
  <2>1. asks' \in [1 .. MaxAsks -> Request]
    <3>1. asks' = [asks EXCEPT ![a].status = "working"]
      BY <1>2 DEF Looks!HandOut
    <3> QED BY <3>1 DEF LooksTypes, Request
  <2>2. hand' \in [ThreeKinds -> Tick]
    <3>1. ASSUME NEW s \in {"asking", "reading"},
                 hand' = [hand EXCEPT ![k] = [Looks!Free EXCEPT !.step = s, !.ask = a]]
          PROVE  hand' \in [ThreeKinds -> Tick]
      <4>1. [Looks!Free EXCEPT !.step = s, !.ask = a] \in Tick
        <5>1. a \in 0 .. MaxAsks /\ Looks!Free \in Tick
          BY DEF Looks!Free, Tick
        <5> QED BY <5>1 DEF Tick
      <4> QED BY <3>1, <4>1 DEF LooksTypes
    <3> QED BY <1>2, <3>1 DEF LooksTypes, Looks!HandOut, Looks!FirstStep
  <2> QED BY <1>2, <2>1, <2>2 DEF LooksTypes, Looks!HandOut
<1>3. ASSUME NEW k \in ThreeKinds, NEW s \in {"succeeded", "declined", "failed"}, Looks!Answers(k, s)
      PROVE  hand' \in [ThreeKinds -> Tick]
  BY <1>3 DEF LooksTypes, Tick, Looks!Answers
<1>4. ASSUME NEW k \in ThreeKinds, Looks!Look(k) PROVE LooksTypes'
  BY <1>3, <1>4 DEF LooksTypes, Looks!Look
<1>5. ASSUME Looks!Decide PROVE LooksTypes'
  <2>1. ASSUME hand' = [hand EXCEPT !["preview"].step = "reading"] PROVE hand' \in [ThreeKinds -> Tick]
    BY <2>1 DEF LooksTypes, Tick
  <2> QED BY <1>3, <1>5, <2>1 DEF LooksTypes, Looks!Decide
<1>6. ASSUME Looks!Preview PROVE LooksTypes'
  <2>1. ASSUME NEW s \in {"succeeded", "failed"},
               hand' = [hand EXCEPT !["preview"].step = "done", !["preview"].after = content,
                                    !["preview"].status = s]
        PROVE  hand' \in [ThreeKinds -> Tick]
    BY <2>1 DEF LooksTypes, Tick
  <2> QED BY <1>3, <1>6, <2>1 DEF LooksTypes, Looks!Preview
<1>7. ASSUME NEW k \in ThreeKinds, hand' = [hand EXCEPT ![k] = Looks!Free] PROVE hand' \in [ThreeKinds -> Tick]
  BY <1>7 DEF LooksTypes, Tick, Looks!Free
<1>8. ASSUME NEW k \in ThreeKinds, Looks!Told(k) PROVE LooksTypes'
  <2>1. hand' \in [ThreeKinds -> Tick]
    BY <1>7, <1>8 DEF Looks!Told
  <2>2. asks' \in [1 .. MaxAsks -> Request]
    BY <1>8, ToldAsks DEF LooksTypes, Looks!Told
  <2> QED BY <1>8, <2>1, <2>2 DEF LooksTypes, Looks!Told
<1>9. ASSUME NEW k \in ThreeKinds, Looks!Drop(k) PROVE LooksTypes'
  BY <1>7, <1>9 DEF LooksTypes, Looks!Drop
<1>10. ASSUME NEW a \in 1 .. MaxAsks, Looks!Expire(a) PROVE LooksTypes'
  BY <1>10 DEF LooksTypes, Looks!Expire
<1>11. ASSUME Looks!Sight \/ Looks!Withdraw \/ Looks!Write PROVE LooksTypes'
  BY <1>11 DEF LooksTypes, Looks!Sight, Looks!Withdraw, Looks!Write
<1> QED BY <1>1, <1>2, <1>4, <1>5, <1>6, <1>8, <1>9, <1>10, <1>11
        DEF Looks!Next, Looks!RequestFolders, Looks!RequestContent, Looks!RequestSearch,
            Looks!ClaimFolders, Looks!ClaimContent, Looks!ClaimSearch, Looks!Browse,
            Looks!Search,
            Looks!FinishFolders, Looks!FinishContent, Looks!CompleteSearch

(* No step of the control plane, the machine or whoever sits there breaks  *)
(* the rest.                                                               *)
LEMMA LooksStep ==
  ASSUME LooksTypes, LooksFacts, Looks!Next
  PROVE  LooksFacts'
<1> USE AsksBounds DEF ThreeKinds, Looks!access, Looks!local, Looks!Asks
<1>1. ASSUME NEW a \in 1 .. MaxAsks, NEW k \in ThreeKinds, Looks!Queued(a, k) PROVE LooksFacts'
  <2>1. /\ asks[a].status = "none"
        /\ \A b \in 1 .. MaxAsks : b # a => asks'[b] = asks[b]
        /\ asks'[a].status = "queued" /\ asks'[a].kind = k
        /\ UNCHANGED <<hand, content, expired, opened, consented>>
    BY <1>1 DEF LooksTypes, Request, Looks!Queued, Looks!IsNext, Looks!Blank
  <2>2. \A b \in 1 .. MaxAsks : asks[b].kind = k => ~Looks!Open(b)
    BY <1>1 DEF Looks!Queued, Looks!Vacant, Looks!OfKind
  <2>3. Looks!Earlier' = Looks!Earlier
    BY <2>1 DEF Looks!Earlier, Looks!OfKind
  <2>4. \A b \in Looks!Earlier : b # a /\ b \in 1 .. MaxAsks
    BY <2>1 DEF Looks!Earlier, Looks!OfKind
  <2>5. \A b, c \in 1 .. MaxAsks :
          Looks!Open(b)' /\ Looks!Open(c)' /\ asks'[b].kind = asks'[c].kind => b = c
    BY <2>1, <2>2 DEF LooksFacts, Looks!Open
  <2>6. \A j \in ThreeKinds : hand[j].step # "idle" => hand[j].ask # a
    BY <2>1 DEF LooksFacts
  <2> QED BY <2>1, <2>3, <2>4, <2>5, <2>6 DEF LooksFacts
<1>2. ASSUME NEW a \in 1 .. MaxAsks, NEW k \in ThreeKinds, Looks!HandOut(k, a) PROVE LooksFacts'
  <2>1. /\ asks[a].status = "queued" /\ asks[a].kind = k /\ hand[k].step = "idle"
        /\ \A b \in 1 .. MaxAsks : b # a => asks'[b] = asks[b]
        /\ asks'[a].status = "working" /\ asks'[a].kind = k
        /\ UNCHANGED <<content, expired, opened, consented>>
    BY <1>2 DEF LooksTypes, Request, Looks!HandOut, Looks!OfKind
  <2>2. /\ \A j \in ThreeKinds : j # k => hand'[j] = hand[j]
        /\ \/ hand'[k].step \in {"asking", "reading"} /\ hand'[k].ask = a
           \/ hand'[k] = hand[k]
        /\ hand'["preview"].step = "reading" => hand["preview"].step = "reading" /\ hand'["preview"] = hand["preview"]
    BY <1>2, <2>1 DEF LooksTypes, Tick, Looks!HandOut, Looks!FirstStep, Looks!Free
  <2>3. Looks!Earlier' = Looks!Earlier
    BY <2>1 DEF Looks!Earlier, Looks!OfKind
  <2>4. \A b \in Looks!Earlier : b # a /\ b \in 1 .. MaxAsks
    BY <2>1 DEF Looks!Earlier, Looks!OfKind
  <2>5. \A b \in 1 .. MaxAsks : /\ Looks!Open(b)' <=> Looks!Open(b)
                              /\ asks'[b].kind = asks[b].kind
    BY <2>1 DEF Looks!Open
  <2> QED BY <2>1, <2>2, <2>3, <2>4, <2>5 DEF LooksFacts
<1>3. ASSUME UNCHANGED <<asks, expired>>
      PROVE  /\ Looks!Earlier' = Looks!Earlier
             /\ \A b \in 1 .. MaxAsks : Looks!Open(b)' <=> Looks!Open(b)
  BY <1>3 DEF Looks!Earlier, Looks!OfKind, Looks!Open
<1>4. ASSUME NEW k \in ThreeKinds, k # "preview", Looks!Look(k) PROVE LooksFacts'
  <2>1. /\ hand[k].step = "reading" /\ UNCHANGED <<asks, expired, content, opened, consented>>
        /\ k # "preview"
        /\ \A j \in ThreeKinds : j # k => hand'[j] = hand[j]
        /\ hand'[k].ask = hand[k].ask
    BY <1>4 DEF LooksTypes, Tick, Looks!Look, Looks!Answers
  <2> QED BY <1>3, <2>1 DEF LooksFacts
<1>5. ASSUME Looks!Decide PROVE LooksFacts'
  <2>1. /\ hand["preview"].step = "asking" /\ UNCHANGED <<asks, expired, content, opened>>
        /\ \A j \in ThreeKinds : j # "preview" => hand'[j] = hand[j]
        /\ hand'["preview"].ask = hand["preview"].ask
        /\ \/ consented' = consented \cup {hand["preview"].ask} /\ hand'["preview"].step = "reading"
           \/ consented' = consented /\ hand'["preview"].step = "done"
              /\ hand'["preview"].status # "succeeded"
    BY <1>5 DEF LooksTypes, Tick, Looks!Decide, Looks!Answers
  <2> QED BY <1>3, <2>1 DEF LooksFacts
<1>6. ASSUME Looks!Preview PROVE LooksFacts'
  <2>1. /\ hand["preview"].step = "reading" /\ UNCHANGED <<asks, expired, content, consented>>
        /\ \A j \in ThreeKinds : j # "preview" => hand'[j] = hand[j]
        /\ hand'["preview"].ask = hand["preview"].ask /\ hand'["preview"].step = "done"
        /\ \/ opened' = opened \cup {hand["preview"].ask} /\ hand'["preview"].after = content
           \/ opened' = opened /\ hand'["preview"].status # "succeeded"
    BY <1>6 DEF LooksTypes, Tick, Looks!Preview, Looks!Answers
  <2> QED BY <1>3, <2>1 DEF LooksFacts, LooksTypes
<1>7. ASSUME NEW k \in ThreeKinds, Looks!Drop(k) PROVE LooksFacts'
  <2>1. /\ UNCHANGED <<asks, expired, content, opened, consented>>
        /\ \A j \in ThreeKinds : j # k => hand'[j] = hand[j]
        /\ hand'[k].step = "idle"
    BY <1>7 DEF LooksTypes, Tick, Looks!Drop, Looks!Free
  <2> QED BY <1>3, <2>1 DEF LooksFacts
<1>8. ASSUME NEW k \in ThreeKinds, Looks!Told(k) PROVE LooksFacts'
  <2> DEFINE a == hand[k].ask
  <2>1. /\ hand[k].step = "done" /\ UNCHANGED <<expired, content, opened, consented>>
        /\ \A j \in ThreeKinds : j # k => hand'[j] = hand[j]
        /\ hand'[k].step = "idle"
    BY <1>8 DEF LooksTypes, Tick, Looks!Told, Looks!Free
  <2>2. a \in 1 .. MaxAsks /\ asks[a].kind = k
    BY <2>1 DEF LooksFacts
  <2>3. CASE UNCHANGED asks
    BY <1>3, <2>1, <2>3 DEF LooksFacts
  <2>4. CASE asks' # asks
    <3>1. /\ asks[a].status = "working"
          /\ \A b \in 1 .. MaxAsks : b # a => asks'[b] = asks[b]
          /\ asks'[a].status = hand[k].status /\ asks'[a].kind = asks[a].kind
          /\ asks'[a].status = "succeeded" => asks'[a].after = hand[k].after
          /\ k = "preview" /\ asks'[a].status = "succeeded" => asks'[a].before = Looks!LastSeen
      BY <1>8, <2>2, <2>4, ToldAsks
    <3>2. hand[k].status \in {"succeeded", "declined", "failed"} /\ hand[k].after \in Nat
      BY DEF LooksTypes, Tick
    <3>3. \A b, c \in 1 .. MaxAsks :
            Looks!Open(b)' /\ Looks!Open(c)' /\ asks'[b].kind = asks'[c].kind => b = c
      BY <2>1, <3>1, <3>2 DEF LooksFacts, Looks!Open
    <3>4. \A j \in ThreeKinds : hand'[j].step # "idle" =>
            /\ hand'[j].ask \in 1 .. MaxAsks
            /\ asks'[hand'[j].ask].kind = j /\ asks'[hand'[j].ask].status # "none"
      BY <2>1, <3>1, <3>2 DEF LooksFacts
    <3>5. CASE k # "preview"
      <4>1. Looks!Earlier' = Looks!Earlier /\ a \notin Looks!Earlier
        BY <2>2, <3>1, <3>5 DEF Looks!Earlier, Looks!OfKind
      <4>2. \A b \in Looks!Earlier : asks'[b] = asks[b]
        BY <3>1, <4>1 DEF Looks!Earlier, Looks!OfKind
      <4> QED BY <2>1, <3>3, <3>4, <3>5, <4>1, <4>2 DEF LooksFacts
    <3>6. CASE k = "preview" /\ hand[k].status # "succeeded"
      <4>1. Looks!Earlier' = Looks!Earlier /\ a \notin Looks!Earlier
        BY <2>2, <3>1, <3>6 DEF Looks!Earlier, Looks!OfKind
      <4>2. \A b \in Looks!Earlier : asks'[b] = asks[b]
        BY <3>1, <4>1 DEF Looks!Earlier, Looks!OfKind
      <4> QED BY <2>1, <3>3, <3>4, <3>6, <4>1, <4>2 DEF LooksFacts
    <3>7. CASE k = "preview" /\ hand[k].status = "succeeded"
      <4>1. Looks!Earlier' = Looks!Earlier \cup {a} /\ a \notin Looks!Earlier
        BY <2>2, <3>1, <3>7 DEF Looks!Earlier, Looks!OfKind
      <4>2. \A b \in Looks!Earlier : asks'[b] = asks[b]
        BY <3>1, <4>1 DEF Looks!Earlier, Looks!OfKind
      <4>3. Looks!LastSeen <= hand[k].after
        <5>1. CASE Looks!Earlier = {}
          BY <3>2, <5>1 DEF Looks!LastSeen
        <5>2. CASE Looks!Earlier # {}
          BY <2>1, <3>7, <5>2, LastIsSeen DEF Looks!LastSeen, LooksFacts
        <5> QED BY <5>1, <5>2
      <4>4. /\ a \in opened /\ asks'[a].before <= asks'[a].after /\ asks'[a].after <= content
        BY <2>1, <3>1, <3>7, <4>3 DEF LooksFacts
      <4> QED BY <2>1, <3>3, <3>4, <3>7, <4>1, <4>2, <4>4 DEF LooksFacts
    <3> QED BY <3>5, <3>6, <3>7
  <2> QED BY <2>3, <2>4
<1>10. ASSUME NEW a \in 1 .. MaxAsks, Looks!Expire(a) PROVE LooksFacts'
  <2>1. \A b \in 1 .. MaxAsks : Looks!Open(b)' => Looks!Open(b)
    BY <1>10 DEF Looks!Expire, Looks!Open
  <2>2. Looks!Earlier' = Looks!Earlier
    BY <1>10 DEF Looks!Expire, Looks!Earlier, Looks!OfKind
  <2> QED BY <1>10, <2>1, <2>2 DEF LooksFacts, Looks!Expire
<1>11. ASSUME Looks!Sight \/ Looks!Withdraw PROVE LooksFacts'
  BY <1>3, <1>11 DEF LooksFacts, Looks!Sight, Looks!Withdraw
<1>12. ASSUME Looks!Write PROVE LooksFacts'
  <2>1. content' = content + 1 /\ UNCHANGED <<asks, expired, hand, consented, opened>>
    BY <1>12 DEF Looks!Write
  <2>2. content \in Nat /\ hand["preview"].after \in Nat
    BY DEF LooksTypes, Tick
  <2>3. \A a \in Looks!Earlier : asks[a].after \in Nat
    BY DEF Looks!Earlier, Looks!OfKind, LooksTypes, Request
  <2>4. /\ \A a \in Looks!Earlier : asks[a].after <= content => asks[a].after <= content'
        /\ hand["preview"].after <= content => hand["preview"].after <= content'
    BY <2>1, <2>2, <2>3
  <2> QED BY <1>3, <2>1, <2>4 DEF LooksFacts
<1> QED BY <1>1, <1>2, <1>4, <1>5, <1>6, <1>7, <1>8, <1>10, <1>11, <1>12
        DEF Looks!Next, Looks!RequestFolders, Looks!RequestContent, Looks!RequestSearch,
            Looks!ClaimFolders, Looks!ClaimContent, Looks!ClaimSearch, Looks!Browse,
            Looks!Search,
            Looks!FinishFolders, Looks!FinishContent, Looks!CompleteSearch

(* What is over stays as it is: a request that expired or was answered is  *)
(* neither handed out nor answered again, and none that expired is allowed.*)
LEMMA LooksOver ==
  ASSUME LooksInv, Looks!Next
  PROVE  ExpiredFacts' /\ Looks!OverIsOver
<1> USE DEF ThreeKinds, Looks!access, Looks!local, Looks!Asks
<1> DEFINE Over(a) == a \in expired \/ asks[a].status \in Looks!Ended
<1>1. LooksTypes /\ LooksFacts /\ ExpiredFacts
  BY DEF LooksInv
<1>2. ASSUME NEW a \in 1 .. MaxAsks, ~Over(a), asks'[a].status # "none",
             \A b \in 1 .. MaxAsks : b # a => asks'[b] = asks[b],
             UNCHANGED <<expired, consented>>
      PROVE  ExpiredFacts' /\ Looks!OverIsOver
  BY <1>1, <1>2 DEF ExpiredFacts, Looks!OverIsOver
<1>3. ASSUME UNCHANGED asks, \A a \in expired' \ expired : asks[a].status # "none",
             \A a \in expired : a \in consented' => a \in consented
      PROVE  ExpiredFacts' /\ Looks!OverIsOver
  BY <1>1, <1>3 DEF ExpiredFacts, Looks!OverIsOver
<1>4. ASSUME NEW a \in 1 .. MaxAsks, NEW k \in ThreeKinds, Looks!Queued(a, k)
      PROVE  ExpiredFacts' /\ Looks!OverIsOver
  <2>1. asks[a].status = "none" /\ asks'[a].status = "queued"
        /\ \A b \in 1 .. MaxAsks : b # a => asks'[b] = asks[b]
    BY <1>1, <1>4 DEF LooksTypes, Request, Looks!Queued, Looks!IsNext, Looks!Blank
  <2>2. ~Over(a)
    BY <1>1, <2>1 DEF ExpiredFacts, Looks!Ended
  <2> QED BY <1>2, <1>4, <2>1, <2>2 DEF Looks!Queued
<1>5. ASSUME NEW a \in 1 .. MaxAsks, NEW k \in ThreeKinds, Looks!HandOut(k, a)
      PROVE  ExpiredFacts' /\ Looks!OverIsOver
  <2>1. asks'[a].status = "working" /\ \A b \in 1 .. MaxAsks : b # a => asks'[b] = asks[b]
    BY <1>1, <1>5 DEF LooksTypes, Request, Looks!HandOut
  <2>2. ~Over(a)
    BY <1>5 DEF Looks!HandOut, Looks!Open, Looks!Ended
  <2> QED BY <1>2, <1>5, <2>1, <2>2 DEF Looks!HandOut
<1>6. ASSUME NEW k \in ThreeKinds, Looks!Told(k) PROVE ExpiredFacts' /\ Looks!OverIsOver
  <2>1. hand[k].ask \in 1 .. MaxAsks /\ UNCHANGED <<expired, consented>>
    BY <1>1, <1>6 DEF LooksFacts, Looks!Told
  <2>2. CASE UNCHANGED asks
    BY <1>3, <2>1, <2>2
  <2>3. CASE asks' # asks
    <3>1. /\ asks[hand[k].ask].status = "working" /\ hand[k].ask \notin expired
          /\ asks'[hand[k].ask].status = hand[k].status
          /\ \A b \in 1 .. MaxAsks : b # hand[k].ask => asks'[b] = asks[b]
      BY <1>1, <1>6, <2>1, <2>3, ToldAsks
    <3>2. hand[k].status # "none"
      BY <1>1 DEF LooksTypes, Tick
    <3>3. ~Over(hand[k].ask)
      BY <3>1 DEF Looks!Ended
    <3> QED BY <1>2, <2>1, <3>1, <3>2, <3>3
  <2> QED BY <2>2, <2>3
<1>7. ASSUME Looks!Decide PROVE ExpiredFacts' /\ Looks!OverIsOver
  BY <1>3, <1>7 DEF Looks!Decide, Looks!InTime
<1>8. ASSUME NEW a \in 1 .. MaxAsks, Looks!Expire(a) PROVE ExpiredFacts' /\ Looks!OverIsOver
  BY <1>3, <1>8 DEF Looks!Expire, Looks!Open
<1>9. ASSUME \/ \E k \in ThreeKinds : Looks!Look(k) \/ Looks!Drop(k)
             \/ Looks!Preview \/ Looks!Sight \/ Looks!Withdraw \/ Looks!Write
      PROVE  ExpiredFacts' /\ Looks!OverIsOver
  BY <1>3, <1>9 DEF Looks!Look, Looks!Drop, Looks!Preview, Looks!Sight, Looks!Withdraw, Looks!Write
<1> QED BY <1>4, <1>5, <1>6, <1>7, <1>8, <1>9
        DEF Looks!Next, Looks!RequestFolders, Looks!RequestContent, Looks!RequestSearch,
            Looks!ClaimFolders, Looks!ClaimContent, Looks!ClaimSearch, Looks!Browse,
            Looks!Search,
            Looks!FinishFolders, Looks!FinishContent, Looks!CompleteSearch

--------------------------------------------------------------------------------
(* Repositories that become projects.                                      *)

Names == Repositories \cup {"none"}
OnboardingInv ==
  /\ projects \in Seq(Names)
  /\ txns \in [Clients -> [does : {"nothing", "discover", "connect"}, repo : Names]]
  /\ Onboarding!OneProjectPerRepository

(* A project is inserted for a repository that none is linked to.          *)
LEMMA OnboardingStep ==
  ASSUME OnboardingInv, Onboarding!Next
  PROVE  OnboardingInv'
<1> DEFINE Txn == [does : {"nothing", "discover", "connect"}, repo : Names]
<1>1. CASE UNCHANGED projects
  <2>1. \A c \in Clients : txns[c] \in Txn
    BY DEF OnboardingInv
  <2>2. Onboarding!Ended \in Txn /\ \A r \in Repositories : [does |-> "connect", repo |-> r] \in Txn
    BY DEF Onboarding!Ended, Names
  <2>3. \A c \in Clients : [txns[c] EXCEPT !.does = "discover"] \in Txn
    BY <2>1
  <2>4. txns' \in [Clients -> Txn]
    <3>1. UNCHANGED txns \/ \E c \in Clients, t \in Txn : txns' = [txns EXCEPT ![c] = t]
      <4>1. ASSUME NEW c \in Clients, Onboarding!LookForDiscovery(c)
            PROVE  \E t \in Txn : txns' = [txns EXCEPT ![c] = t]
        BY <2>3, <4>1 DEF Onboarding!LookForDiscovery
      <4>2. ASSUME NEW c \in Clients, NEW r \in Repositories, Onboarding!LookForLink(c, r)
            PROVE  \E t \in Txn : txns' = [txns EXCEPT ![c] = t]
        BY <2>2, <4>2 DEF Onboarding!LookForLink
      <4>3. ASSUME NEW c \in Clients,
                   \/ Onboarding!Connect(c) \/ Onboarding!RollBack(c)
                   \/ \E d \in Onboarding!Discoveries : Onboarding!CreateDiscovery(c, d)
            PROVE  \E t \in Txn : txns' = [txns EXCEPT ![c] = t]
        BY <2>2, <4>3 DEF Onboarding!Connect, Onboarding!RollBack, Onboarding!CreateDiscovery
      <4>4. CASE \/ \E d \in Onboarding!Discoveries : Onboarding!ClaimDiscovery(d)
                \/ \E outcome \in {"succeeded", "failed"} : Onboarding!CompleteDiscovery(outcome)
                \/ \E r \in Repositories : Onboarding!Archive(r)
        BY <4>4 DEF Onboarding!ClaimDiscovery, Onboarding!CompleteDiscovery, Onboarding!Archive
      <4> QED BY <4>1, <4>2, <4>3, <4>4 DEF Onboarding!Next
    <3> QED BY <3>1 DEF OnboardingInv
  <2> QED BY <1>1, <2>4 DEF OnboardingInv, Onboarding!OneProjectPerRepository
<1>2. ASSUME NEW c \in Clients, Onboarding!Connect(c) PROVE OnboardingInv'
  <2> DEFINE r == txns[c].repo
  <2>1. /\ r \in Names /\ \A p \in DOMAIN projects : projects[p] # r
        /\ projects \in Seq(Names) /\ projects' = Append(projects, r)
    BY <1>2 DEF OnboardingInv, Onboarding!Connect, Onboarding!Unique, Onboarding!Linked
  <2> HIDE DEF r
  <2>2. /\ projects' \in Seq(Names) /\ Len(projects') = Len(projects) + 1
        /\ \A p \in 1 .. Len(projects) : projects'[p] = projects[p]
        /\ projects'[Len(projects) + 1] = r
    BY <2>1
  <2>3. Onboarding!OneProjectPerRepository'
    BY <2>1, <2>2 DEF OnboardingInv, Onboarding!OneProjectPerRepository
  <2>4. Onboarding!Ended \in Txn
    BY DEF Onboarding!Ended, Names
  <2>5. txns' \in [Clients -> Txn]
    BY <1>2, <2>4 DEF OnboardingInv, Onboarding!Connect
  <2> QED BY <2>2, <2>3, <2>5 DEF OnboardingInv
<1> QED
  BY <1>1, <1>2 DEF Onboarding!Next, Onboarding!LookForDiscovery, Onboarding!CreateDiscovery,
     Onboarding!ClaimDiscovery, Onboarding!CompleteDiscovery, Onboarding!Archive,
     Onboarding!LookForLink, Onboarding!RollBack

--------------------------------------------------------------------------------
(* Agents, and the questions they ask a model.                             *)

RunRecord == [status : {"none", "running", "succeeded", "failed"}, agent : Nat, model : Nat]
WorkSteps == {"none", "gathering", "agent read", "ready", "asking", "answered",
              "agent rechecked", "kept", "succeeded", "refused"}
ChainRecord == [does : {"nothing", "model", "agent"}, of : Nat]
DraftRecord == [status : {"none", "open", "lapsed", "consumed"}, expects : Nat]
AgentsTypes ==
  /\ model \in Nat /\ agentAt \in Nat
  /\ runs \in [AgentRuns -> RunRecord] /\ work \in [AgentRuns -> WorkSteps]
  /\ inChain \in ChainRecord /\ drafts \in [1 .. MaxProposals -> DraftRecord]

Asked(r) == work[r] \in {"asking", "answered", "agent rechecked", "kept", "succeeded"}
Rechecked(r) == work[r] \in {"agent rechecked", "kept", "succeeded"}
Checked(r) == work[r] \in {"kept", "succeeded"}

(* Revisions only grow, so that what was in force before a question and is *)
(* in force after its answer was in force when it was asked.               *)
Granted(r) == runs[r].agent <= agentAt /\ runs[r].model <= model
AskedBetween(r) ==
  \E g, m \in Nat :
    /\ askedUnder[r] = <<g, m>>
    /\ runs[r].agent <= g /\ g <= agentAt /\ runs[r].model <= m /\ m <= model
    /\ Rechecked(r) => g = runs[r].agent
    /\ Checked(r) => m = runs[r].model
RunFacts(r) ==
  /\ work[r] # "none" => runs[r].status = "running" /\ Granted(r)
  /\ Asked(r) => AskedBetween(r)
  /\ runs[r].status = "succeeded" => askedUnder[r] = <<runs[r].agent, runs[r].model>>
ChainFacts ==
  /\ inChain.does = "agent" => inChain.of = agentAt + 1 /\ inChain.of \in memories
  /\ inChain.does = "model" => inChain.of = model + 1
  /\ \A v \in 1 .. agentAt : v \in memories
AgentsInv ==
  AgentsTypes /\ ChainFacts /\ (\A r \in AgentRuns : RunFacts(r)) /\ DOMAIN askedUnder = AgentRuns

(* The revisions in force are numbers, and so are those of a grant.        *)
LEMMA RevisionNumbers ==
  ASSUME AgentsTypes
  PROVE  model \in Nat /\ agentAt \in Nat
         /\ \A r \in AgentRuns : runs[r].agent \in Nat /\ runs[r].model \in Nat
BY DEF AgentsTypes, RunRecord

(* The revisions in force only grow, and a run that does not move keeps    *)
(* what is known of it.                                                    *)
LEMMA RevisionsGrow ==
  ASSUME AgentsTypes, agentAt <= agentAt', model <= model', agentAt' \in Nat, model' \in Nat,
         NEW r \in AgentRuns, RunFacts(r),
         runs'[r] = runs[r], work'[r] = work[r], askedUnder'[r] = askedUnder[r]
  PROVE  RunFacts(r)'
<1>1. runs[r].agent \in Nat /\ runs[r].model \in Nat /\ agentAt \in Nat /\ model \in Nat
  BY RevisionNumbers
<1>2. ASSUME Granted(r) PROVE Granted(r)'
  BY <1>1, <1>2 DEF Granted
<1>3. Asked(r)' = Asked(r) /\ Rechecked(r)' = Rechecked(r) /\ Checked(r)' = Checked(r)
  BY DEF Asked, Rechecked, Checked
<1>4. ASSUME AskedBetween(r) PROVE AskedBetween(r)'
  <2>1. PICK g \in Nat, m \in Nat :
          /\ askedUnder[r] = <<g, m>>
          /\ runs[r].agent <= g /\ g <= agentAt /\ runs[r].model <= m /\ m <= model
          /\ Rechecked(r) => g = runs[r].agent
          /\ Checked(r) => m = runs[r].model
    BY <1>4 DEF AskedBetween
  <2>2. g <= agentAt' /\ m <= model'
    BY <1>1, <2>1
  <2> QED BY <1>3, <2>1, <2>2 DEF AskedBetween
<1> QED BY <1>2, <1>3, <1>4 DEF RunFacts

(* A step that leaves the runs alone and only adds revisions.              *)
LEMMA QuietAgents ==
  ASSUME AgentsInv, AgentsTypes', ChainFacts', agentAt <= agentAt', model <= model',
         UNCHANGED <<runs, work, askedUnder>>
  PROVE  AgentsInv'
<1>1. AgentsTypes /\ (\A r \in AgentRuns : RunFacts(r)) /\ DOMAIN askedUnder = AgentRuns
  BY DEF AgentsInv
<1>2. agentAt' \in Nat /\ model' \in Nat
  BY DEF AgentsTypes
<1>3. ASSUME NEW r \in AgentRuns PROVE RunFacts(r)'
  BY <1>1, <1>2, RevisionsGrow
<1> QED BY <1>1, <1>3 DEF AgentsInv

(* A step of one run that changes no revision.                             *)
LEMMA OneRunSteps ==
  ASSUME AgentsInv, AgentsTypes', UNCHANGED <<agentAt, model, memories, inChain>>,
         NEW r \in AgentRuns, DOMAIN askedUnder' = AgentRuns,
         \A s \in AgentRuns : s # r => /\ runs'[s] = runs[s] /\ work'[s] = work[s]
                                  /\ askedUnder'[s] = askedUnder[s],
         RunFacts(r)'
  PROVE  AgentsInv'
<1>1. AgentsTypes /\ ChainFacts /\ \A s \in AgentRuns : RunFacts(s)
  BY DEF AgentsInv
<1>2. agentAt' \in Nat /\ model' \in Nat /\ agentAt <= agentAt' /\ model <= model'
  <2>1. agentAt \in Nat /\ model \in Nat
    BY <1>1, RevisionNumbers
  <2> QED BY <2>1
<1>3. ASSUME NEW s \in AgentRuns PROVE RunFacts(s)'
  <2>1. CASE s = r
    BY <2>1
  <2>2. CASE s # r
    BY <1>1, <1>2, <2>2, RevisionsGrow
  <2> QED BY <2>1, <2>2
<1>4. ChainFacts'
  BY <1>1 DEF ChainFacts
<1> QED BY <1>3, <1>4 DEF AgentsInv

(* The bounds of this part.                                                *)
LEMMA AgentsBounds == MaxModels \in Nat /\ MaxAgents \in Nat /\ MaxProposals \in Nat
BY BoundsAssumption

(* Every step keeps the types.                                             *)
LEMMA AgentsTyped ==
  ASSUME AgentsTypes, Agents!Next
  PROVE  AgentsTypes'
<1> USE AgentsBounds DEF Agents!config, Agents!memory, Agents!history, Agents!Proposals
<1>0. ASSUME NEW p \in 1 .. MaxProposals, NEW st \in {"lapsed", "consumed"}
      PROVE  [drafts EXCEPT ![p].status = st] \in [1 .. MaxProposals -> DraftRecord]
  BY DEF AgentsTypes, DraftRecord
<1>1. ASSUME NEW p \in 1 .. MaxProposals, Agents!Prepare(p) PROVE AgentsTypes'
  <2>1. [status |-> "open", expects |-> model] \in DraftRecord
    BY DEF AgentsTypes, DraftRecord
  <2> QED BY <1>1, <2>1 DEF AgentsTypes, Agents!Prepare
<1>15. ASSUME NEW p \in 1 .. MaxProposals, Agents!Lapse(p) PROVE AgentsTypes'
  BY <1>0, <1>15 DEF AgentsTypes, Agents!Lapse
<1>2. ASSUME NEW p \in 1 .. MaxProposals, Agents!Consume(p) PROVE AgentsTypes'
  <2>1. drafts[p].expects \in Nat
    BY DEF AgentsTypes, DraftRecord
  <2>2. [does |-> "model", of |-> drafts[p].expects + 1] \in ChainRecord
    BY <2>1 DEF ChainRecord
  <2> QED BY <1>0, <1>2, <2>2 DEF AgentsTypes, Agents!Consume
<1>3. ASSUME Agents!CommitModel PROVE AgentsTypes'
  BY <1>3 DEF AgentsTypes, ChainRecord, Agents!CommitModel, Agents!Idle
<1>4. ASSUME Agents!BeginTest \/ Agents!EndTest \/ Agents!SaveTest PROVE AgentsTypes'
  BY <1>4 DEF AgentsTypes, Agents!BeginTest, Agents!EndTest, Agents!SaveTest
<1>5. ASSUME Agents!WriteMemory PROVE AgentsTypes'
  BY <1>5 DEF AgentsTypes, ChainRecord, Agents!WriteMemory
<1>6. ASSUME NEW enabled \in BOOLEAN, Agents!SaveAgent(enabled) PROVE AgentsTypes'
  BY <1>6 DEF AgentsTypes, ChainRecord, Agents!SaveAgent, Agents!Idle
<1>7. ASSUME NEW r \in AgentRuns, Agents!RequestRun(r) PROVE AgentsTypes'
  BY <1>7 DEF AgentsTypes, RunRecord, WorkSteps, Agents!RequestRun
<1>8. ASSUME NEW r \in AgentRuns, NEW reached \in WorkSteps, Agents!Steps(r, reached) PROVE AgentsTypes'
  BY <1>8 DEF AgentsTypes, Agents!Steps
<1>9. ASSUME NEW r \in AgentRuns, Agents!EndRun(r) PROVE AgentsTypes'
  <2>1. work' \in [AgentRuns -> WorkSteps]
    BY <1>9 DEF AgentsTypes, WorkSteps, Agents!EndRun
  <2>2. ASSUME NEW st \in {"failed", "succeeded"}, runs' = [runs EXCEPT ![r].status = st]
        PROVE  runs' \in [AgentRuns -> RunRecord]
    BY <2>2 DEF AgentsTypes, RunRecord
  <2>3. runs' \in [AgentRuns -> RunRecord]
    BY <1>9, <2>2 DEF AgentsTypes, Agents!EndRun
  <2> QED BY <1>9, <2>1, <2>3 DEF AgentsTypes, Agents!EndRun
<1>10. ASSUME NEW r \in AgentRuns, Agents!Advances(r) PROVE AgentsTypes'
  BY <1>8, <1>9, <1>10 DEF Agents!Advances, Agents!ReadAgent, Agents!ReadModel, Agents!Ask,
     Agents!Answer, Agents!RecheckAgent, Agents!Keep, Agents!NoteReady, Agents!Refuse, WorkSteps
<1>11. ASSUME NEW r \in AgentRuns, Agents!Age(r) PROVE AgentsTypes'
  BY <1>11 DEF AgentsTypes, Agents!Age
<1>12. ASSUME Agents!Halting PROVE AgentsTypes'
  <2>1. ASSUME NEW p \in 1 .. MaxProposals
        PROVE  (IF drafts[p].status = "open" THEN [drafts[p] EXCEPT !.status = "lapsed"] ELSE drafts[p])
                 \in DraftRecord
    BY DEF AgentsTypes, DraftRecord
  <2>2. drafts' \in [1 .. MaxProposals -> DraftRecord]
    BY <1>12, <2>1 DEF Agents!Halting
  <2>3. inChain' \in ChainRecord /\ work' \in [AgentRuns -> WorkSteps]
    BY <1>12 DEF Agents!Halting, Agents!Idle, ChainRecord, WorkSteps
  <2> QED BY <1>12, <2>2, <2>3 DEF AgentsTypes, Agents!Halting
<1> QED BY <1>1, <1>2, <1>3, <1>4, <1>5, <1>6, <1>7, <1>10, <1>11, <1>12, <1>15 DEF Agents!Next

(* No step of a member, the chain, a run or a stop breaks the rest.        *)
LEMMA AgentsStep ==
  ASSUME AgentsInv, Agents!Next
  PROVE  AgentsInv'
<1> USE AgentsBounds DEF Agents!config, Agents!memory, Agents!history, Agents!Proposals
<1>0. /\ AgentsTypes /\ ChainFacts /\ AgentsTypes' /\ DOMAIN askedUnder = AgentRuns
      /\ \A r \in AgentRuns : RunFacts(r)
  BY AgentsTyped DEF AgentsInv
<1>n. /\ agentAt \in Nat /\ model \in Nat
      /\ agentAt <= agentAt /\ model <= model /\ agentAt <= agentAt + 1 /\ model <= model + 1
  <2>1. agentAt \in Nat /\ model \in Nat
    BY <1>0, RevisionNumbers
  <2> QED BY <2>1
<1>1. ASSUME UNCHANGED <<agentAt, model, memories, inChain, runs, work, askedUnder>> PROVE AgentsInv'
  <2>1. ChainFacts'
    BY <1>0, <1>1 DEF ChainFacts
  <2>2. agentAt' = agentAt /\ model' = model
    BY <1>1
  <2> QED BY <1>0, <1>1, <1>n, <2>1, <2>2, QuietAgents
<1>2. ASSUME NEW p \in 1 .. MaxProposals, Agents!Consume(p) PROVE AgentsInv'
  <2>1. /\ inChain' = [does |-> "model", of |-> model + 1]
        /\ UNCHANGED <<agentAt, model, memories, runs, work, askedUnder>>
    BY <1>2 DEF Agents!Consume
  <2>2. ChainFacts'
    BY <1>0, <2>1 DEF ChainFacts
  <2>3. agentAt' = agentAt /\ model' = model
    BY <2>1
  <2> QED BY <1>0, <1>n, <2>1, <2>2, <2>3, QuietAgents
<1>3. ASSUME Agents!CommitModel PROVE AgentsInv'
  <2>1. /\ inChain'.does = "nothing" /\ model' = model + 1
        /\ UNCHANGED <<agentAt, memories, runs, work, askedUnder>>
    BY <1>0, <1>3 DEF Agents!CommitModel, Agents!Idle, ChainFacts
  <2>2. ChainFacts'
    BY <1>0, <2>1 DEF ChainFacts
  <2>3. agentAt' = agentAt
    BY <2>1
  <2> QED BY <1>0, <1>n, <2>1, <2>2, <2>3, QuietAgents
<1>4. ASSUME Agents!WriteMemory PROVE AgentsInv'
  <2>1. /\ inChain' = [does |-> "agent", of |-> agentAt + 1]
        /\ memories' = memories \cup {agentAt + 1}
        /\ UNCHANGED <<agentAt, model, runs, work, askedUnder>>
    BY <1>4 DEF Agents!WriteMemory
  <2>2. ChainFacts'
    BY <1>0, <2>1 DEF ChainFacts
  <2>3. agentAt' = agentAt /\ model' = model
    BY <2>1
  <2> QED BY <1>0, <1>n, <2>1, <2>2, <2>3, QuietAgents
<1>5. ASSUME NEW enabled \in BOOLEAN, Agents!SaveAgent(enabled) PROVE AgentsInv'
  <2>1. /\ inChain'.does = "nothing" /\ agentAt' = agentAt + 1 /\ agentAt + 1 \in memories
        /\ UNCHANGED <<model, memories, runs, work, askedUnder>>
    BY <1>0, <1>5 DEF Agents!SaveAgent, Agents!Idle, ChainFacts
  <2>2. \A v \in 1 .. agentAt + 1 : v = agentAt + 1 \/ v \in 1 .. agentAt
    BY <1>n
  <2>3. ChainFacts'
    BY <1>0, <2>1, <2>2 DEF ChainFacts
  <2>4. model' = model
    BY <2>1
  <2> QED BY <1>0, <1>n, <2>1, <2>3, <2>4, QuietAgents
<1>6. ASSUME NEW r \in AgentRuns, Agents!RequestRun(r) PROVE AgentsInv'
  <2>1. /\ UNCHANGED <<agentAt, model, memories, inChain, askedUnder>>
        /\ \A s \in AgentRuns : s # r => runs'[s] = runs[s] /\ work'[s] = work[s]
        /\ runs'[r].status = "running" /\ runs'[r].agent = agentAt /\ runs'[r].model = model
        /\ work'[r] = "gathering"
    BY <1>0, <1>6 DEF AgentsTypes, Agents!RequestRun
  <2>2. Granted(r)'
    BY <1>n, <2>1 DEF Granted
  <2>3. RunFacts(r)'
    BY <2>1, <2>2 DEF RunFacts, Asked
  <2> QED BY <1>0, <2>1, <2>3, OneRunSteps
<1>7. ASSUME NEW r \in AgentRuns, NEW reached, reached # "none", work[r] # "none", Agents!Steps(r, reached),
             DOMAIN askedUnder' = AgentRuns, \A s \in AgentRuns : s # r => askedUnder'[s] = askedUnder[s],
             Asked(r)' => AskedBetween(r)'
      PROVE  AgentsInv'
  <2>1. /\ UNCHANGED <<agentAt, model, memories, inChain, runs>>
        /\ \A s \in AgentRuns : s # r => work'[s] = work[s]
        /\ work'[r] = reached
    BY <1>0, <1>7 DEF AgentsTypes, Agents!Steps
  <2>2. runs[r].status = "running" /\ Granted(r)
    BY <1>0, <1>7 DEF RunFacts
  <2>3. Granted(r)'
    BY <2>1, <2>2 DEF Granted
  <2>4. RunFacts(r)'
    BY <1>7, <2>1, <2>2, <2>3 DEF RunFacts
  <2> QED BY <1>0, <1>7, <2>1, <2>4, OneRunSteps
<1>10. ASSUME NEW r \in AgentRuns, UNCHANGED <<agentAt, model, runs, askedUnder>>, Asked(r),
              Rechecked(r)' => agentAt = runs[r].agent \/ Rechecked(r),
              Checked(r)' => Rechecked(r)' /\ (model = runs[r].model \/ Checked(r))
       PROVE  AskedBetween(r)'
  <2>1. PICK g \in Nat, m \in Nat :
          /\ askedUnder[r] = <<g, m>>
          /\ runs[r].agent <= g /\ g <= agentAt /\ runs[r].model <= m /\ m <= model
          /\ Rechecked(r) => g = runs[r].agent
          /\ Checked(r) => m = runs[r].model
    BY <1>0, <1>10 DEF RunFacts, AskedBetween
  <2>2. runs[r].agent \in Nat /\ runs[r].model \in Nat
    BY <1>0, RevisionNumbers
  <2>3. /\ agentAt = runs[r].agent => g = runs[r].agent
        /\ model = runs[r].model => m = runs[r].model
    BY <1>n, <2>1, <2>2
  <2> QED BY <1>10, <2>1, <2>3 DEF AskedBetween
<1>11. ASSUME NEW r \in AgentRuns, Agents!Ask(r) PROVE AgentsInv'
  <2>1. /\ work[r] = "ready" /\ Agents!Steps(r, "asking")
        /\ askedUnder' = [askedUnder EXCEPT ![r] = <<agentAt, model>>]
    BY <1>11 DEF Agents!Ask
  <2>2. /\ askedUnder'[r] = <<agentAt, model>> /\ DOMAIN askedUnder' = AgentRuns
        /\ \A s \in AgentRuns : s # r => askedUnder'[s] = askedUnder[s]
    BY <1>0, <2>1
  <2>3. UNCHANGED <<agentAt, model, runs>> /\ work'[r] = "asking"
    BY <1>0, <2>1 DEF AgentsTypes, Agents!Steps
  <2>4. ~Rechecked(r)' /\ ~Checked(r)'
    BY <2>3 DEF Rechecked, Checked
  <2>5. runs[r].agent <= agentAt /\ runs[r].model <= model
    BY <1>0, <2>1 DEF RunFacts, Granted
  <2>6. AskedBetween(r)'
    BY <1>n, <2>2, <2>3, <2>4, <2>5 DEF AskedBetween
  <2> QED BY <1>7, <2>1, <2>2, <2>6
<1>12. ASSUME NEW r \in AgentRuns, Agents!ReadAgent(r) \/ Agents!ReadModel(r) \/ Agents!Refuse(r)
       PROVE  AgentsInv'
  <2>1. PICK reached \in {"agent read", "ready", "refused"} :
          work[r] # "none" /\ Agents!Steps(r, reached) /\ UNCHANGED askedUnder
    BY <1>12 DEF Agents!ReadAgent, Agents!ReadModel, Agents!Refuse
  <2>2. work'[r] = reached
    BY <1>0, <2>1 DEF AgentsTypes, Agents!Steps
  <2>3. ~Asked(r)'
    BY <2>1, <2>2 DEF Asked
  <2>4. reached # "none"
    BY <2>1
  <2> QED BY <1>0, <1>7, <2>1, <2>3, <2>4
<1>13. ASSUME NEW r \in AgentRuns,
              Agents!Answer(r) \/ Agents!RecheckAgent(r) \/ Agents!Keep(r) \/ Agents!NoteReady(r)
       PROVE  AgentsInv'
  <2>1. PICK reached \in {"answered", "agent rechecked", "kept", "succeeded"} :
          /\ work[r] \in {"asking", "answered", "agent rechecked", "kept"}
          /\ Agents!Steps(r, reached) /\ UNCHANGED askedUnder
          /\ reached = "agent rechecked" => agentAt = runs[r].agent
          /\ reached = "kept" => model = runs[r].model /\ work[r] = "agent rechecked"
          /\ reached = "succeeded" => work[r] = "kept"
    BY <1>13 DEF Agents!Answer, Agents!RecheckAgent, Agents!Keep, Agents!NoteReady,
       Agents!StillAgent, Agents!StillModel, Agents!InForce
  <2>2. UNCHANGED <<agentAt, model, runs>> /\ work'[r] = reached
    BY <1>0, <2>1 DEF AgentsTypes, Agents!Steps
  <2>3. /\ Asked(r)
        /\ Rechecked(r)' => agentAt = runs[r].agent \/ Rechecked(r)
        /\ Checked(r)' => Rechecked(r)' /\ (model = runs[r].model \/ Checked(r))
    BY <2>1, <2>2 DEF Asked, Rechecked, Checked
  <2>4. AskedBetween(r)'
    BY <1>10, <2>1, <2>2, <2>3
  <2>5. reached # "none" /\ work[r] # "none"
    BY <2>1
  <2> QED BY <1>0, <1>7, <2>1, <2>4, <2>5
<1>14. ASSUME NEW r \in AgentRuns, Agents!EndRun(r) PROVE AgentsInv'
  <2>1. /\ UNCHANGED <<agentAt, model, memories, inChain, askedUnder>>
        /\ work' = [work EXCEPT ![r] = "none"]
        /\ \/ UNCHANGED runs
           \/ \E st \in {"failed", "succeeded"} :
                /\ runs' = [runs EXCEPT ![r].status = st]
                /\ st = "succeeded" => work[r] = "succeeded"
    BY <1>14 DEF Agents!EndRun
  <2>2. /\ \A s \in AgentRuns : s # r => runs'[s] = runs[s]
        /\ runs'[r].agent = runs[r].agent /\ runs'[r].model = runs[r].model
        /\ runs'[r].status = "succeeded" => runs[r].status = "succeeded" \/ work[r] = "succeeded"
    <3>1. CASE UNCHANGED runs
      BY <3>1
    <3>2. ASSUME NEW st \in {"failed", "succeeded"}, runs' = [runs EXCEPT ![r].status = st],
                 st = "succeeded" => work[r] = "succeeded"
          PROVE  /\ \A s \in AgentRuns : s # r => runs'[s] = runs[s]
                 /\ runs'[r].agent = runs[r].agent /\ runs'[r].model = runs[r].model
                 /\ runs'[r].status = "succeeded" => work[r] = "succeeded"
      BY <1>0, <3>2 DEF AgentsTypes, RunRecord
    <3> QED BY <2>1, <3>1, <3>2
  <2>3. work'[r] = "none" /\ \A s \in AgentRuns : s # r => work'[s] = work[s]
    BY <1>0, <2>1 DEF AgentsTypes
  <2>4. ASSUME work[r] = "succeeded" PROVE askedUnder[r] = <<runs[r].agent, runs[r].model>>
    <3>1. Asked(r) /\ Rechecked(r) /\ Checked(r)
      BY <2>4 DEF Asked, Rechecked, Checked
    <3> QED BY <1>0, <3>1 DEF RunFacts, AskedBetween
  <2>5. RunFacts(r)'
    BY <1>0, <2>1, <2>2, <2>3, <2>4 DEF RunFacts, Asked
  <2> QED BY <1>0, <2>1, <2>2, <2>3, <2>5, OneRunSteps
<1>8. ASSUME Agents!Halting PROVE AgentsInv'
  <2>1. /\ UNCHANGED <<agentAt, model, memories, runs, askedUnder>>
        /\ inChain'.does = "nothing" /\ \A r \in AgentRuns : work'[r] = "none"
    BY <1>8 DEF Agents!Halting, Agents!Idle
  <2>2. ChainFacts'
    BY <1>0, <2>1 DEF ChainFacts
  <2>3. ASSUME NEW r \in AgentRuns PROVE RunFacts(r)'
    BY <1>0, <2>1 DEF RunFacts, Asked
  <2> QED BY <1>0, <2>1, <2>2, <2>3 DEF AgentsInv
<1>9. ASSUME \/ \E p \in 1 .. MaxProposals : Agents!Prepare(p) \/ Agents!Lapse(p)
             \/ Agents!BeginTest \/ Agents!EndTest \/ Agents!SaveTest
             \/ \E r \in AgentRuns : Agents!Age(r)
      PROVE  AgentsInv'
  BY <1>1, <1>9 DEF Agents!Prepare, Agents!Lapse, Agents!BeginTest, Agents!EndTest,
     Agents!SaveTest, Agents!Age
<1> QED BY <1>2, <1>3, <1>4, <1>5, <1>6, <1>8, <1>9, <1>11, <1>12, <1>13, <1>14
        DEF Agents!Next, Agents!Advances

(* A connection is ready, or about to be called so by a test or a run, only*)
(* if an answer came from it.                                              *)
ReadyFacts ==
  /\ testing \in [step : {"none", "asking", "asked"}, model : Nat, ready : BOOLEAN]
  /\ Agents!ReadyIsProven
  /\ testing.ready => testing.model \in proven
  /\ \A r \in AgentRuns :
       work[r] \in {"answered", "agent rechecked", "kept", "succeeded"} => runs[r].model \in proven

(* No step breaks it.                                                      *)
LEMMA ReadyStep ==
  ASSUME AgentsTypes, ReadyFacts, Agents!Next
  PROVE  ReadyFacts'
<1> USE DEF Agents!config, Agents!memory, Agents!history, Agents!ReadyIsProven
<1>1. ASSUME proven \subseteq proven', UNCHANGED <<tested, testing>>,
             \A r \in AgentRuns : \/ work'[r] = work[r] /\ runs'[r].model = runs[r].model
                               \/ work'[r] \in {"none", "gathering", "agent read", "ready", "asking", "refused"}
                               \/ runs'[r].model \in proven'
      PROVE  ReadyFacts'
  BY <1>1 DEF ReadyFacts
<1>2. ASSUME UNCHANGED <<runs, work>> PROVE \A r \in AgentRuns : work'[r] = work[r] /\ runs'[r].model = runs[r].model
  BY <1>2
<1>3. ASSUME \/ \E p \in Agents!Proposals : Agents!Prepare(p) \/ Agents!Lapse(p) \/ Agents!Consume(p)
             \/ Agents!CommitModel \/ Agents!WriteMemory
             \/ \E enabled \in BOOLEAN : Agents!SaveAgent(enabled)
             \/ \E r \in AgentRuns : Agents!Age(r)
      PROVE  ReadyFacts'
  <2>1. UNCHANGED <<tested, testing, proven, runs, work>>
    BY <1>3 DEF Agents!Prepare, Agents!Lapse, Agents!Consume, Agents!CommitModel,
       Agents!WriteMemory, Agents!SaveAgent, Agents!Age
  <2> QED BY <1>1, <1>2, <2>1
<1>4. ASSUME Agents!BeginTest PROVE ReadyFacts'
  BY <1>4 DEF ReadyFacts, Agents!BeginTest, AgentsTypes
<1>5. ASSUME Agents!EndTest PROVE ReadyFacts'
  <2>1. proven \subseteq proven' /\ UNCHANGED <<tested, runs, work>>
    BY <1>5 DEF Agents!EndTest
  <2>2. /\ testing' \in [step : {"none", "asking", "asked"}, model : Nat, ready : BOOLEAN]
        /\ testing'.ready => testing'.model \in proven'
    <3>0. testing \in [step : {"none", "asking", "asked"}, model : Nat, ready : BOOLEAN]
      BY DEF ReadyFacts
    <3>1. ASSUME testing' = [testing EXCEPT !.step = "asked", !.ready = TRUE], testing.model \in proven'
          PROVE  /\ testing' \in [step : {"none", "asking", "asked"}, model : Nat, ready : BOOLEAN]
                 /\ testing'.model \in proven'
      BY <3>0, <3>1
    <3>2. ASSUME testing' = [testing EXCEPT !.step = "asked"]
          PROVE  /\ testing' \in [step : {"none", "asking", "asked"}, model : Nat, ready : BOOLEAN]
                 /\ testing'.model = testing.model /\ testing'.ready = testing.ready
      BY <3>0, <3>2
    <3>3. ASSUME testing' = Agents!NoTest
          PROVE  /\ testing' \in [step : {"none", "asking", "asked"}, model : Nat, ready : BOOLEAN]
                 /\ testing'.ready = FALSE
      BY <3>3 DEF Agents!NoTest
    <3>4. testing.ready => testing.model \in proven
      BY DEF ReadyFacts
    <3>5. \/ /\ testing' = [testing EXCEPT !.step = "asked", !.ready = TRUE]
             /\ testing.model \in proven'
          \/ testing' = [testing EXCEPT !.step = "asked"]
          \/ testing' = Agents!NoTest
      BY <1>5 DEF Agents!EndTest
    <3> QED BY <2>1, <3>1, <3>2, <3>3, <3>4, <3>5
  <2> QED BY <2>1, <2>2 DEF ReadyFacts
<1>6. ASSUME Agents!SaveTest PROVE ReadyFacts'
  BY <1>6 DEF ReadyFacts, Agents!SaveTest, Agents!TestedAt, Agents!NoTest
<1>7. ASSUME NEW r \in AgentRuns, Agents!RequestRun(r) PROVE ReadyFacts'
  <2>1. /\ UNCHANGED <<tested, testing, proven>>
        /\ \A s \in AgentRuns : s # r => runs'[s] = runs[s] /\ work'[s] = work[s]
        /\ work'[r] = "gathering"
    BY <1>7 DEF AgentsTypes, Agents!RequestRun
  <2> QED BY <1>1, <2>1
<1>8. ASSUME NEW r \in AgentRuns,
             Agents!ReadAgent(r) \/ Agents!ReadModel(r) \/ Agents!Ask(r) \/ Agents!Refuse(r)
      PROVE  ReadyFacts'
  <2>1. PICK reached \in {"agent read", "ready", "asking", "refused"} :
          Agents!Steps(r, reached) /\ UNCHANGED <<tested, proven>>
    BY <1>8 DEF Agents!ReadAgent, Agents!ReadModel, Agents!Ask, Agents!Refuse
  <2>2. /\ UNCHANGED <<testing, runs>> /\ work'[r] = reached
        /\ \A s \in AgentRuns : s # r => work'[s] = work[s]
    BY <2>1 DEF AgentsTypes, Agents!Steps
  <2> QED BY <1>1, <2>1, <2>2
<1>9. ASSUME NEW r \in AgentRuns, Agents!Answer(r) \/ Agents!RecheckAgent(r) \/ Agents!Keep(r)
      PROVE  ReadyFacts'
  <2>1. PICK reached \in {"answered", "agent rechecked", "kept"} : Agents!Steps(r, reached)
    BY <1>9 DEF Agents!Answer, Agents!RecheckAgent, Agents!Keep
  <2>2. UNCHANGED tested /\ proven \subseteq proven' /\ runs[r].model \in proven'
    BY <1>9 DEF ReadyFacts, Agents!Answer, Agents!RecheckAgent, Agents!Keep
  <2>3. /\ UNCHANGED <<testing, runs>>
        /\ \A s \in AgentRuns : s # r => work'[s] = work[s]
    BY <2>1 DEF AgentsTypes, Agents!Steps
  <2> QED BY <1>1, <2>2, <2>3
<1>10. ASSUME NEW r \in AgentRuns, Agents!NoteReady(r) PROVE ReadyFacts'
  <2>1. /\ runs[r].model \in proven /\ tested' = [model |-> runs[r].model, ready |-> TRUE]
        /\ Agents!Steps(r, "succeeded") /\ UNCHANGED proven
    BY <1>10 DEF ReadyFacts, Agents!NoteReady
  <2>2. UNCHANGED <<testing, runs>> /\ \A s \in AgentRuns : s # r => work'[s] = work[s]
    BY <2>1 DEF AgentsTypes, Agents!Steps
  <2> QED BY <2>1, <2>2 DEF ReadyFacts
<1>11. ASSUME NEW r \in AgentRuns, Agents!EndRun(r) PROVE ReadyFacts'
  <2>1. UNCHANGED <<tested, testing, proven>>
    BY <1>11 DEF Agents!EndRun
  <2>2. work'[r] = "none" /\ \A s \in AgentRuns : s # r => work'[s] = work[s] /\ runs'[s] = runs[s]
    BY <1>11 DEF AgentsTypes, Agents!EndRun
  <2> QED BY <1>1, <2>1, <2>2
<1>12. ASSUME Agents!Halting PROVE ReadyFacts'
  BY <1>12 DEF ReadyFacts, Agents!Halting, Agents!NoTest
<1> QED BY <1>3, <1>4, <1>5, <1>6, <1>7, <1>8, <1>9, <1>10, <1>11, <1>12
        DEF Agents!Next, Agents!Advances

(* A run that is shown to have ended is left as it is: its end is on record*)
(* or nobody works on it any more, and it is too old.                      *)
LEMMA AgentsOver ==
  ASSUME AgentsInv, Agents!Next
  PROVE  Agents!ShownEndStays
<1> USE DEF Agents!config, Agents!memory, Agents!history
<1>0. AgentsTypes /\ \A r \in AgentRuns : RunFacts(r)
  BY DEF AgentsInv
<1>1. ASSUME NEW r \in AgentRuns, aged \subseteq aged',
             \/ runs'[r] = runs[r] /\ (work[r] = "none" => work'[r] = "none")
             \/ runs[r].status = "none"
             \/ runs[r].status = "running" /\ work[r] # "none"
      PROVE  Agents!Shown(r) \in {"succeeded", "failed"} => Agents!Shown(r)' = Agents!Shown(r)
  <2>1. /\ Agents!Overdue(r) <=> r \in aged /\ work[r] = "none"
        /\ Agents!Overdue(r)' <=> r \in aged' /\ work'[r] = "none"
    BY DEF Agents!Overdue, Agents!Active
  <2> QED BY <1>1, <2>1 DEF Agents!Shown
<1>2. ASSUME aged \subseteq aged', UNCHANGED <<runs, work>> PROVE Agents!ShownEndStays
  <2>1. \A r \in AgentRuns : runs'[r] = runs[r] /\ (work[r] = "none" => work'[r] = "none")
    BY <1>2
  <2> QED BY <1>1, <1>2, <2>1 DEF Agents!ShownEndStays
<1>3. ASSUME \/ \E p \in Agents!Proposals : Agents!Prepare(p) \/ Agents!Lapse(p) \/ Agents!Consume(p)
             \/ Agents!CommitModel \/ Agents!BeginTest \/ Agents!EndTest \/ Agents!SaveTest
             \/ Agents!WriteMemory \/ \E enabled \in BOOLEAN : Agents!SaveAgent(enabled)
             \/ \E r \in AgentRuns : Agents!Age(r)
      PROVE  Agents!ShownEndStays
  <2>1. aged \subseteq aged' /\ UNCHANGED <<runs, work>>
    BY <1>3 DEF Agents!Prepare, Agents!Lapse, Agents!Consume, Agents!CommitModel,
       Agents!BeginTest, Agents!EndTest, Agents!SaveTest, Agents!WriteMemory, Agents!SaveAgent,
       Agents!Age
  <2> QED BY <1>2, <2>1
<1>4. ASSUME NEW r \in AgentRuns, UNCHANGED aged,
             \A s \in AgentRuns : s # r => runs'[s] = runs[s] /\ work'[s] = work[s],
             \/ runs[r].status = "none"
             \/ runs[r].status = "running" /\ work[r] # "none"
      PROVE  Agents!ShownEndStays
  <2>1. ASSUME NEW s \in AgentRuns
        PROVE  Agents!Shown(s) \in {"succeeded", "failed"} => Agents!Shown(s)' = Agents!Shown(s)
    <3>1. \/ runs'[s] = runs[s] /\ (work[s] = "none" => work'[s] = "none")
          \/ runs[s].status = "none"
          \/ runs[s].status = "running" /\ work[s] # "none"
      BY <1>4
    <3>2. aged \subseteq aged'
      BY <1>4
    <3> QED BY <1>1, <3>1, <3>2
  <2> QED BY <2>1 DEF Agents!ShownEndStays
<1>5. ASSUME NEW r \in AgentRuns, Agents!RequestRun(r) PROVE Agents!ShownEndStays
  <2>1. /\ UNCHANGED aged /\ runs[r].status = "none"
        /\ \A s \in AgentRuns : s # r => runs'[s] = runs[s] /\ work'[s] = work[s]
    BY <1>0, <1>5 DEF AgentsTypes, Agents!RequestRun
  <2> QED BY <1>4, <2>1
<1>6. ASSUME NEW r \in AgentRuns, NEW reached, work[r] # "none", Agents!Steps(r, reached)
      PROVE  Agents!ShownEndStays
  <2>1. UNCHANGED <<aged, runs>> /\ \A s \in AgentRuns : s # r => work'[s] = work[s]
    BY <1>0, <1>6 DEF AgentsTypes, Agents!Steps
  <2>2. runs[r].status = "running"
    BY <1>0, <1>6 DEF RunFacts
  <2> QED BY <1>4, <1>6, <2>1, <2>2
<1>7. ASSUME NEW r \in AgentRuns, Agents!EndRun(r) PROVE Agents!ShownEndStays
  <2>1. /\ UNCHANGED aged /\ work[r] # "none"
        /\ \A s \in AgentRuns : s # r => runs'[s] = runs[s] /\ work'[s] = work[s]
    BY <1>0, <1>7 DEF AgentsTypes, Agents!EndRun
  <2>2. runs[r].status = "running"
    BY <1>0, <2>1 DEF RunFacts
  <2> QED BY <1>4, <2>1, <2>2
<1>8. ASSUME NEW r \in AgentRuns, Agents!Advances(r) PROVE Agents!ShownEndStays
  BY <1>6, <1>7, <1>8 DEF Agents!Advances, Agents!ReadAgent, Agents!ReadModel, Agents!Ask,
     Agents!Answer, Agents!RecheckAgent, Agents!Keep, Agents!NoteReady, Agents!Refuse
<1>9. ASSUME Agents!Halting PROVE Agents!ShownEndStays
  <2>1. UNCHANGED <<aged, runs>> /\ \A r \in AgentRuns : work'[r] = "none"
    BY <1>9 DEF Agents!Halting
  <2>2. \A r \in AgentRuns : runs'[r] = runs[r] /\ (work[r] = "none" => work'[r] = "none")
    BY <2>1
  <2>3. aged \subseteq aged'
    BY <2>1
  <2> QED BY <1>1, <2>2, <2>3 DEF Agents!ShownEndStays
<1> QED BY <1>3, <1>5, <1>8, <1>9 DEF Agents!Next

--------------------------------------------------------------------------------
(* Updates of the platform.                                                *)

UpdaterRecord == [step : {"looking", "claimed", "activating", "waiting"}, of : 0 .. MaxReleases]
ScriptRecord  == [step : {"none", "preflight", "stopped", "switched", "started"},
                  of : 0 .. MaxReleases]
RequestRecord == [step : {"none", "checked", "noted"}, of : 0 .. MaxReleases]
UpdateStatus  == {"none", "activating", "succeeded", "failed"}
UpdatesTypes ==
  /\ sealed \in 0 .. MaxReleases /\ replaces \in [Updates!Candidates -> 0 .. MaxReleases]
  /\ details \in [Updates!Candidates -> Submitters \cup {nobody}]
  /\ requested \in [Updates!Candidates -> Submitters \cup {nobody}]
  /\ submissions \in [Submitters -> RequestRecord]
  /\ results \in [Updates!Candidates -> UpdateStatus]
  /\ updateReceipts \in [Updates!Candidates -> {"none", "PASS", "FAIL"}]
  /\ updateClaims \subseteq Updates!Candidates
  /\ updater \in UpdaterRecord /\ applying \in ScriptRecord
  /\ active \in 0 .. MaxReleases

(* The candidate the updater, or the script, has in hand.                  *)
InHand(r)  == updater.step # "looking" /\ updater.of = r
Applied(r) == applying.step # "none" /\ applying.of = r
Halfway    == applying.step \in {"stopped", "switched", "started"}
Before     == applying.step = "stopped"
Unasked    == updater.step \in {"claimed", "activating"}

(* What is asked for has its note.                                         *)
Noted == \A r \in Updates!Candidates : requested[r] # nobody => requested[r] = details[r]

(* Releases are built on those that were sealed before, and what is active,*)
(* claimed or asked for was sealed.                                        *)
Sealed(r) == r <= sealed
SealedFacts ==
  /\ Sealed(active) /\ \A r \in Updates!Candidates : Sealed(replaces[r])
  /\ \A s \in Submitters : Sealed(submissions[s].of)
  /\ \A r \in Updates!Candidates :
       /\ requested[r] # nobody => Sealed(r)
       /\ InHand(r) \/ Applied(r) => Sealed(r)

(* A candidate is applied once, by a script the updater waits for, and has *)
(* no receipt until that script has ended; what the script would restore is*)
(* what was active when it stopped the web process.                        *)
ScriptFacts ==
  /\ applying.step # "none" => /\ applying.of \in Updates!Candidates
                               /\ updater.step = "waiting" /\ updater.of = applying.of
  /\ applying.step = "none" => applying = Updates!NoApply
  /\ updater.step # "looking" => updater.of \in updateClaims
  /\ Unasked => updateReceipts[updater.of] = "none"
  /\ applying.step # "none" => updateReceipts[applying.of] = "none"
  /\ \A r \in Updates!Candidates : r \notin updateClaims => updateReceipts[r] = "none"
  /\ Halfway => active = IF Before THEN replaces[applying.of] ELSE applying.of

(* What succeeded has the receipt of a script that passed.                 *)
SuccessFacts ==
  \A r \in Updates!Candidates : results[r] = "succeeded" =>
    updateReceipts[r] = "PASS" /\ r \in Updates!Lineage

UpdatesInv == UpdatesTypes /\ Noted /\ SealedFacts /\ ScriptFacts /\ SuccessFacts

(* The bound is a number.                                                  *)
LEMMA UpdatesBounds == MaxReleases \in Nat /\ Updates!Candidates = 1 .. MaxReleases
BY BoundsAssumption DEF Updates!Candidates

(* The active release is in its own lineage.                               *)
LEMMA ActiveIsFounded ==
  ASSUME UpdatesTypes
  PROVE  active \in Updates!Lineage
BY DEF UpdatesTypes, Updates!Lineage, Updates!Founded

(* A release that is switched to keeps the lineage of the one it was built *)
(* on.                                                                     *)
LEMMA LineageSwitches ==
  ASSUME NEW r \in Updates!Candidates, active' = r, replaces' = replaces, replaces[r] = active
  PROVE  Updates!Lineage \subseteq Updates!Lineage'
<1> SUFFICES ASSUME NEW q \in Updates!Lineage, NEW S \in SUBSET (0 .. MaxReleases),
                    Updates!Founded(S)'
             PROVE  q \in S
  BY DEF Updates!Lineage
<1>1. Updates!Founded(S)
  BY DEF Updates!Founded
<1> QED
  BY <1>1 DEF Updates!Lineage

(* One that is restored has all of it but the release that was undone.     *)
LEMMA LineageRestored ==
  ASSUME NEW r \in Updates!Candidates, active = r, active' = replaces[r], replaces' = replaces,
         NEW q \in Updates!Lineage, q # r
  PROVE  q \in Updates!Lineage'
<1> SUFFICES ASSUME NEW S \in SUBSET (0 .. MaxReleases), Updates!Founded(S)'
             PROVE  q \in S
  BY DEF Updates!Lineage
<1>1. r \in 0 .. MaxReleases
  BY UpdatesBounds
<1>2. Updates!Founded(S \cup {r})
  BY DEF Updates!Founded
<1>3. S \cup {r} \in SUBSET (0 .. MaxReleases)
  BY <1>1
<1> QED
  BY <1>2, <1>3 DEF Updates!Lineage

(* A candidate that is sealed is in nobody's lineage yet.                  *)
LEMMA LineageSealed ==
  ASSUME UpdatesTypes, NEW n \in Updates!Candidates, active # n, active' = active,
         \A r \in Updates!Candidates : replaces[r] # n,
         replaces' = [replaces EXCEPT ![n] = active]
  PROVE  Updates!Lineage \subseteq Updates!Lineage'
<1> SUFFICES ASSUME NEW q \in Updates!Lineage, NEW S \in SUBSET (0 .. MaxReleases),
                    Updates!Founded(S)'
             PROVE  q \in S
  BY DEF Updates!Lineage
<1>1. active \in S /\ \A r \in S \cap Updates!Candidates : replaces'[r] \in S
  BY DEF Updates!Founded
<1>2. \A r \in Updates!Candidates : r # n => replaces'[r] = replaces[r]
  BY DEF UpdatesTypes
<1>3. Updates!Founded(S \ {n})
  BY <1>1, <1>2 DEF Updates!Founded
<1>4. S \ {n} \in SUBSET (0 .. MaxReleases)
  OBVIOUS
<1> QED
  BY <1>3, <1>4 DEF Updates!Lineage

(* A lineage depends on the active release and what each was built on only.*)
LEMMA LineageStays ==
  ASSUME UNCHANGED <<active, replaces>>
  PROVE  Updates!Lineage' = Updates!Lineage
BY DEF Updates!Lineage, Updates!Founded

(* Every step keeps the types.                                             *)
LEMMA UpdatesTyped ==
  ASSUME UpdatesTypes, ScriptFacts, Updates!Next
  PROVE  UpdatesTypes'
<1> USE UpdatesBounds
<1>0. /\ Updates!NoRequest \in RequestRecord /\ Updates!Waiting \in UpdaterRecord
      /\ Updates!NoApply \in ScriptRecord
  BY DEF Updates!NoRequest, Updates!Waiting, Updates!NoApply, RequestRecord, UpdaterRecord,
         ScriptRecord
<1>a. ASSUME NEW r \in Updates!Candidates, NEW st \in UpdateStatus, Updates!Publish(r, st)
      PROVE  results' \in [Updates!Candidates -> UpdateStatus]
  BY <1>a DEF UpdatesTypes, Updates!Publish
<1>b. ASSUME NEW r \in Updates!Candidates, NEW st \in {"none", "PASS", "FAIL"},
             updateReceipts' = [updateReceipts EXCEPT ![r] = st]
      PROVE  updateReceipts' \in [Updates!Candidates -> {"none", "PASS", "FAIL"}]
  BY <1>b DEF UpdatesTypes
<1>c. ASSUME NEW st \in {"claimed", "activating", "waiting"}, updater' = [updater EXCEPT !.step = st]
      PROVE  updater' \in UpdaterRecord
  BY <1>c DEF UpdatesTypes, UpdaterRecord
<1>d. ASSUME NEW st \in {"stopped", "switched", "started"}, Updates!Reaches(st)
      PROVE  applying' \in ScriptRecord
  BY <1>d DEF UpdatesTypes, ScriptRecord, Updates!Reaches
<1> USE DEF UpdatesTypes, Updates!catalogue, Updates!asking, Updates!installed, Updates!Kept
<1>e. applying.step # "none" => applying.of \in Updates!Candidates
  BY DEF ScriptRecord, ScriptFacts
<1>f. updater.step # "looking" => updater.of \in Updates!Candidates
  BY DEF ScriptRecord, ScriptFacts
<1>1. ASSUME Updates!Seal PROVE UpdatesTypes'
  BY <1>1 DEF Updates!Seal
<1>2. ASSUME NEW r \in Updates!Candidates, Updates!Outdate(r) PROVE UpdatesTypes'
  BY <1>2 DEF Updates!Outdate
<1>3. ASSUME NEW s \in Submitters, Updates!Submit(s) PROVE UpdatesTypes'
  BY <1>3 DEF RequestRecord, Updates!Submit
<1>4. ASSUME NEW s \in Submitters, Updates!PublishNote(s) PROVE UpdatesTypes'
  BY <1>4 DEF Updates!PublishNote, Updates!Moves, RequestRecord
<1>5. ASSUME NEW s \in Submitters, Updates!PublishRequest(s) PROVE UpdatesTypes'
  BY <1>0, <1>5 DEF Updates!PublishRequest, Updates!Quits
<1>6. ASSUME NEW r \in Updates!Candidates, Updates!Looks(r) PROVE UpdatesTypes'
  <2>1. CASE Updates!Reconcile(r) \/ Updates!Decline(r)
    <3>1. PICK st \in {"succeeded", "failed"} : Updates!Publish(r, st)
      BY <2>1 DEF Updates!Reconcile, Updates!Decline, Updates!Settles
    <3>2. results' \in [Updates!Candidates -> UpdateStatus]
      BY <1>a, <3>1 DEF UpdateStatus
    <3> QED BY <2>1, <3>2 DEF Updates!Reconcile, Updates!Decline
  <2>2. CASE Updates!ClaimUpdate(r)
    <3>1. updater' \in UpdaterRecord
      BY <2>2 DEF Updates!ClaimUpdate, UpdaterRecord
    <3> QED BY <2>2, <3>1 DEF Updates!ClaimUpdate
  <2> QED BY <1>6, <2>1, <2>2 DEF Updates!Looks
<1>7. ASSUME Updates!UpdaterWorks PROVE UpdatesTypes'
  <2>0. updater.step # "looking"
    BY <1>7 DEF Updates!UpdaterWorks, Updates!Announce, Updates!StartApply, Updates!Conclude
  <2>1. CASE Updates!Announce
    <3>1. results' \in [Updates!Candidates -> UpdateStatus]
      BY <1>a, <1>f, <2>0, <2>1 DEF Updates!Announce, UpdateStatus
    <3>2. updater' \in UpdaterRecord
      BY <1>c, <2>1 DEF Updates!Announce
    <3> QED BY <2>1, <3>1, <3>2 DEF Updates!Announce
  <2>2. CASE Updates!StartApply
    <3>1. updater' \in UpdaterRecord
      BY <1>c, <2>2 DEF Updates!StartApply
    <3>2. applying' \in ScriptRecord
      BY <2>2 DEF Updates!StartApply, ScriptRecord, UpdaterRecord
    <3> QED BY <2>2, <3>1, <3>2 DEF Updates!StartApply
  <2>3. CASE Updates!Conclude
    <3>1. results' \in [Updates!Candidates -> UpdateStatus]
      BY <1>a, <1>f, <2>0, <2>3 DEF Updates!Conclude, UpdateStatus
    <3> QED BY <1>0, <2>3, <3>1 DEF Updates!Conclude
  <2> QED BY <1>7, <2>1, <2>2, <2>3 DEF Updates!UpdaterWorks
<1>8. ASSUME Updates!Applies PROVE UpdatesTypes'
  <2>0. applying.step # "none" /\ applying.of \in Updates!Candidates
    BY <1>8, <1>e DEF Updates!Applies, Updates!Preflight, Updates!Switch, Updates!StartNew,
       Updates!Pass, Updates!Restore, Updates!Lose, ScriptFacts
  <2>1. CASE Updates!Preflight
    <3>1. submissions' \in [Submitters -> RequestRecord]
      BY <1>0, <2>1 DEF Updates!Preflight
    <3>2. applying' \in ScriptRecord
      BY <1>0, <1>d, <2>1 DEF Updates!Preflight
    <3>3. updateReceipts' \in [Updates!Candidates -> {"none", "PASS", "FAIL"}]
      BY <1>b, <2>0, <2>1 DEF Updates!Preflight
    <3> QED BY <2>1, <3>1, <3>2, <3>3 DEF Updates!Preflight
  <2>2. CASE Updates!Switch
    <3>1. applying' \in ScriptRecord
      BY <1>d, <2>2 DEF Updates!Switch
    <3>2. active' \in 0 .. MaxReleases
      BY <2>0, <2>2 DEF Updates!Switch
    <3> QED BY <2>2, <3>1, <3>2 DEF Updates!Switch
  <2>6. CASE Updates!StartNew
    <3>1. applying' \in ScriptRecord
      BY <1>d, <2>6 DEF Updates!StartNew
    <3> QED BY <2>6, <3>1 DEF Updates!StartNew
  <2>3. CASE Updates!Restore
    <3>1. updateReceipts' \in [Updates!Candidates -> {"none", "PASS", "FAIL"}]
      BY <1>b, <2>0, <2>3 DEF Updates!Restore
    <3>2. active' \in 0 .. MaxReleases
      BY <2>0, <2>3 DEF Updates!Restore, Updates!Undoes
    <3> QED BY <1>0, <2>3, <3>1, <3>2 DEF Updates!Restore
  <2>4. CASE Updates!Pass
    <3>1. updateReceipts' \in [Updates!Candidates -> {"none", "PASS", "FAIL"}]
      BY <1>b, <2>0, <2>4 DEF Updates!Pass
    <3> QED BY <1>0, <2>4, <3>1 DEF Updates!Pass
  <2>5. CASE Updates!Lose
    BY <1>0, <2>5 DEF Updates!Lose
  <2> QED BY <1>8, <2>1, <2>2, <2>3, <2>4, <2>5, <2>6 DEF Updates!Applies
<1>9. ASSUME Updates!StopUpdater \/ Updates!Reboot PROVE UpdatesTypes'
  <2>1. updater' \in UpdaterRecord /\ applying' \in ScriptRecord
        /\ submissions' \in [Submitters -> RequestRecord]
    BY <1>0, <1>9 DEF Updates!StopUpdater, Updates!Reboot
  <2> QED BY <1>9, <2>1 DEF Updates!StopUpdater, Updates!Reboot
<1> QED
  BY <1>1, <1>2, <1>3, <1>4, <1>5, <1>6, <1>7, <1>8, <1>9 DEF Updates!Next

(* A report of a success needs its receipt and its release; while nothing  *)
(* is sealed, switched or undone, nothing can happen to either.            *)
LEMMA SuccessStays ==
  ASSUME UpdatesTypes, SuccessFacts, UNCHANGED <<active, replaces>>,
         \A r \in Updates!Candidates :
           /\ results'[r] = "succeeded" => results[r] = "succeeded" \/ Updates!Proven(r)
           /\ updateReceipts[r] = "PASS" => updateReceipts'[r] = "PASS"
  PROVE  SuccessFacts'
BY ActiveIsFounded, LineageStays DEF SuccessFacts, Updates!Proven

(* No step of the operator, a member, the updater, the script or a stop    *)
(* breaks the rest.                                                        *)
LEMMA UpdatesFacts ==
  ASSUME UpdatesInv, Updates!Next
  PROVE  Noted' /\ SealedFacts' /\ ScriptFacts' /\ SuccessFacts'
<1> USE DEF Updates!catalogue, Updates!asking, Updates!installed, Updates!Kept
<1>0. UpdatesTypes /\ Noted /\ SealedFacts /\ ScriptFacts /\ SuccessFacts /\ UpdatesTypes'
  BY UpdatesTyped DEF UpdatesInv
<1>1. ASSUME Updates!Seal PROVE Noted' /\ SealedFacts' /\ ScriptFacts' /\ SuccessFacts'
  <2> DEFINE n == sealed + 1
  <2>1. /\ n \in Updates!Candidates /\ n \in Nat /\ ~Sealed(n)
        /\ sealed' = n /\ replaces' = [replaces EXCEPT ![n] = active]
        /\ \A r \in 0 .. MaxReleases : Sealed(r) => Sealed(r)'
    BY <1>0, <1>1, UpdatesBounds DEF Updates!Seal, UpdatesTypes, Sealed
  <2>2. UNCHANGED <<details, requested, submissions, results, updateReceipts, updateClaims,
                    updater, applying, active>>
    BY <1>1 DEF Updates!Seal
  <2> HIDE DEF n
  <2>3. /\ active # n /\ \A r \in Updates!Candidates : replaces[r] # n
        /\ \A r \in Updates!Candidates : r # n => replaces'[r] = replaces[r]
        /\ replaces'[n] = active
        /\ applying.step # "none" => applying.of # n
    BY <1>0, <2>1 DEF UpdatesTypes, SealedFacts, ScriptFacts, Applied
  <2>4. Noted'
    BY <1>0, <2>2 DEF Noted
  <2>5. SealedFacts'
    <3>1. /\ active \in 0 .. MaxReleases /\ \A r \in Updates!Candidates : replaces[r] \in 0 .. MaxReleases
          /\ \A s \in Submitters : submissions[s].of \in 0 .. MaxReleases
          /\ \A r \in Updates!Candidates : r \in 0 .. MaxReleases
      BY <1>0, UpdatesBounds DEF UpdatesTypes, RequestRecord
    <3> QED BY <1>0, <2>1, <2>2, <2>3, <3>1 DEF SealedFacts, InHand, Applied
  <2>6. ScriptFacts'
    BY <1>0, <2>2, <2>3 DEF ScriptFacts, Unasked, Halfway, Before
  <2>7. SuccessFacts'
    BY <1>0, <2>1, <2>2, <2>3, LineageSealed DEF SuccessFacts
  <2> QED BY <2>4, <2>5, <2>6, <2>7
<1>2. ASSUME UNCHANGED <<sealed, replaces, updateReceipts, updateClaims, updater, applying, active,
                         results>>,
             \A s \in Submitters : submissions'[s].of \in {0, sealed, submissions[s].of},
             \A r \in Updates!Candidates :
               /\ requested'[r] # nobody =>
                    requested[r] # nobody \/ \E s \in Submitters : submissions[s].of = r
               /\ requested'[r] # nobody => requested'[r] = details'[r]
      PROVE  Noted' /\ SealedFacts' /\ ScriptFacts' /\ SuccessFacts'
  <2>1. Noted'
    BY <1>2 DEF Noted
  <2>2. Sealed(0) /\ Sealed(sealed)
    BY <1>0 DEF UpdatesTypes, Sealed
  <2>3. SealedFacts'
    BY <1>0, <1>2, <2>2 DEF SealedFacts, InHand, Applied, Sealed
  <2>4. ScriptFacts'
    BY <1>0, <1>2 DEF ScriptFacts, Unasked, Halfway, Before
  <2>5. SuccessFacts'
    BY <1>0, <1>2, SuccessStays
  <2> QED BY <2>1, <2>3, <2>4, <2>5
<1>3. ASSUME NEW r \in Updates!Candidates, Updates!Outdate(r)
      PROVE  Noted' /\ SealedFacts' /\ ScriptFacts' /\ SuccessFacts'
  BY <1>0, <1>2, <1>3 DEF Updates!Outdate, Noted
<1>4. ASSUME NEW s \in Submitters, Updates!Submit(s)
      PROVE  Noted' /\ SealedFacts' /\ ScriptFacts' /\ SuccessFacts'
  BY <1>0, <1>2, <1>4 DEF Updates!Submit, Noted, UpdatesTypes
<1>5. ASSUME NEW s \in Submitters, Updates!PublishNote(s)
      PROVE  Noted' /\ SealedFacts' /\ ScriptFacts' /\ SuccessFacts'
  <2>1. \A q \in Submitters : submissions'[q].of = submissions[q].of
    BY <1>0, <1>5 DEF Updates!PublishNote, Updates!Moves, UpdatesTypes, RequestRecord
  <2>2. \A r \in Updates!Candidates : details[r] # nobody => details'[r] = details[r]
    BY <1>0, <1>5 DEF Updates!PublishNote, UpdatesTypes
  <2> QED BY <1>0, <1>2, <1>5, <2>1, <2>2 DEF Updates!PublishNote, Noted
<1>6. ASSUME NEW s \in Submitters, Updates!PublishRequest(s)
      PROVE  Noted' /\ SealedFacts' /\ ScriptFacts' /\ SuccessFacts'
  <2>1. \A q \in Submitters : submissions'[q].of \in {0, submissions[q].of}
    BY <1>0, <1>6 DEF Updates!PublishRequest, Updates!Quits, Updates!NoRequest, UpdatesTypes
  <2>2. \A r \in Updates!Candidates :
          \/ requested'[r] = requested[r]
          \/ submissions[s].of = r /\ requested'[r] = s /\ details[r] = s
    BY <1>0, <1>6 DEF Updates!PublishRequest, Updates!Chosen, UpdatesTypes
  <2> QED BY <1>0, <1>2, <1>6, <2>1, <2>2 DEF Updates!PublishRequest, Noted
<1>7. ASSUME UNCHANGED <<sealed, replaces, details, requested, active>>,
             \A s \in Submitters : submissions'[s].of \in {0, submissions[s].of},
             \A r \in Updates!Candidates : InHand(r)' => InHand(r) \/ requested[r] # nobody,
             \A r \in Updates!Candidates : Applied(r)' => Applied(r) \/ InHand(r),
             \A r \in Updates!Candidates :
               results'[r] = "succeeded" => results[r] = "succeeded" \/ Updates!Proven(r),
             \A r \in Updates!Candidates : updateReceipts[r] = "PASS" => updateReceipts'[r] = "PASS",
             ScriptFacts'
      PROVE  Noted' /\ SealedFacts' /\ ScriptFacts' /\ SuccessFacts'
  <2>1. Noted'
    BY <1>0, <1>7 DEF Noted
  <2>2. Sealed(0)
    BY <1>0 DEF UpdatesTypes, Sealed
  <2>3. SealedFacts'
    BY <1>0, <1>7, <2>2 DEF SealedFacts, Sealed
  <2>4. SuccessFacts'
    BY <1>0, <1>7, SuccessStays
  <2> QED BY <1>7, <2>1, <2>3, <2>4
<1>8. ASSUME NEW r \in Updates!Candidates, Updates!Looks(r)
      PROVE  Noted' /\ SealedFacts' /\ ScriptFacts' /\ SuccessFacts'
  <2>0. updater = Updates!Waiting /\ applying.step = "none" /\ requested[r] # nobody
    BY <1>0, <1>8 DEF Updates!Looks, Updates!Reconcile, Updates!Decline, Updates!ClaimUpdate,
       Updates!Open, ScriptFacts, Updates!Waiting
  <2>1. UNCHANGED <<sealed, replaces, details, requested, active, submissions, applying,
                    updateReceipts>>
    BY <1>8 DEF Updates!Looks, Updates!Reconcile, Updates!Decline, Updates!ClaimUpdate
  <2>2. \A q \in Updates!Candidates :
          results'[q] = "succeeded" => results[q] = "succeeded" \/ Updates!Proven(q)
    BY <1>0, <1>8 DEF Updates!Looks, Updates!Reconcile, Updates!Decline, Updates!ClaimUpdate,
       Updates!Settles, Updates!Publish, UpdatesTypes
  <2>3. \/ UNCHANGED <<updater, updateClaims>>
        \/ /\ r \notin updateClaims /\ updateClaims' = updateClaims \cup {r}
           /\ updater' = [step |-> "claimed", of |-> r]
    BY <1>8 DEF Updates!Looks, Updates!Reconcile, Updates!Decline, Updates!ClaimUpdate
  <2>4. ScriptFacts'
    BY <1>0, <2>0, <2>1, <2>3 DEF ScriptFacts, Unasked, Halfway, Before
  <2>5. \A q \in Updates!Candidates : InHand(q)' => InHand(q) \/ requested[q] # nobody
    BY <2>0, <2>3 DEF InHand
  <2>6. \A q \in Updates!Candidates : Applied(q)' => Applied(q)
    BY <2>1 DEF Applied
  <2> QED BY <1>7, <2>1, <2>2, <2>4, <2>5, <2>6
<1>9. ASSUME Updates!UpdaterWorks PROVE Noted' /\ SealedFacts' /\ ScriptFacts' /\ SuccessFacts'
  <2>0. updater.step # "looking" /\ updater.of \in Updates!Candidates
    BY <1>0, <1>9 DEF Updates!UpdaterWorks, Updates!Announce, Updates!StartApply,
       Updates!Conclude, ScriptFacts, UpdatesTypes
  <2>1. UNCHANGED <<sealed, replaces, details, requested, active, submissions, updateReceipts,
                    updateClaims>>
    BY <1>9 DEF Updates!UpdaterWorks, Updates!Announce, Updates!StartApply, Updates!Conclude
  <2>2. \A q \in Updates!Candidates :
          results'[q] = "succeeded" => results[q] = "succeeded" \/ Updates!Proven(q)
    BY <1>0, <1>9 DEF Updates!UpdaterWorks, Updates!Announce, Updates!StartApply,
       Updates!Conclude, Updates!Publish, UpdatesTypes
  <2>3. /\ updater'.step # "looking" => updater'.of = updater.of
        /\ \/ /\ UNCHANGED applying /\ applying.step = "none"
              /\ updater'.step \in {"activating", "looking"}
           \/ /\ applying' = [step |-> "preflight", of |-> updater.of]
              /\ Unasked /\ updater'.step = "waiting"
        /\ Unasked' => Unasked
        /\ applying'.step # "none" => applying'.step = "preflight"
    <3>1. CASE Updates!Announce
      BY <1>0, <3>1 DEF Updates!Announce, Unasked, ScriptFacts, UpdatesTypes, UpdaterRecord
    <3>2. CASE Updates!StartApply
      BY <1>0, <3>2 DEF Updates!StartApply, Unasked, UpdatesTypes, UpdaterRecord
    <3>3. CASE Updates!Conclude
      BY <1>0, <3>3 DEF Updates!Conclude, Updates!Waiting, Unasked, ScriptFacts
    <3> QED BY <1>9, <3>1, <3>2, <3>3 DEF Updates!UpdaterWorks
  <2>4. ScriptFacts'
    BY <1>0, <2>0, <2>1, <2>3 DEF ScriptFacts, Unasked, Halfway, Before
  <2>5. \A q \in Updates!Candidates : InHand(q)' => InHand(q)
    BY <2>0, <2>3 DEF InHand
  <2>6. \A q \in Updates!Candidates : Applied(q)' => Applied(q) \/ InHand(q)
    BY <2>0, <2>3 DEF Applied, InHand
  <2> QED BY <1>7, <2>1, <2>2, <2>4, <2>5, <2>6
<1>10. ASSUME Updates!StopUpdater \/ Updates!Reboot
       PROVE  Noted' /\ SealedFacts' /\ ScriptFacts' /\ SuccessFacts'
  <2>1. /\ UNCHANGED <<sealed, replaces, details, requested, active, results, updateReceipts,
                       updateClaims>>
        /\ updater' = Updates!Waiting /\ applying' = Updates!NoApply
        /\ \A s \in Submitters : submissions'[s].of \in {0, submissions[s].of}
    BY <1>10 DEF Updates!StopUpdater, Updates!Reboot, Updates!NoRequest
  <2>2. ScriptFacts'
    BY <1>0, <2>1 DEF ScriptFacts, Unasked, Halfway, Before, Updates!Waiting, Updates!NoApply
  <2>3. \A q \in Updates!Candidates : ~InHand(q)' /\ ~Applied(q)'
    BY <2>1 DEF InHand, Applied, Updates!Waiting, Updates!NoApply
  <2> QED BY <1>7, <2>1, <2>2, <2>3
<1>11. ASSUME Updates!Applies PROVE Noted' /\ SealedFacts' /\ ScriptFacts' /\ SuccessFacts'
  <2> DEFINE r == applying.of
  <2>0. applying.step # "none"
    BY <1>0, <1>11 DEF Updates!Applies, Updates!Preflight, Updates!Switch, Updates!StartNew,
       Updates!Pass, Updates!Restore, Updates!Lose, ScriptFacts
  <2>1. /\ r \in Updates!Candidates /\ Applied(r) /\ updateReceipts[r] = "none"
        /\ updater.step = "waiting" /\ updater.of = r /\ r \in updateClaims
        /\ results[r] # "succeeded"
    BY <1>0, <2>0 DEF ScriptFacts, Applied, SuccessFacts
  <2>2. UNCHANGED <<sealed, replaces, details, requested, results, updateClaims, updater>>
    BY <1>11 DEF Updates!Applies, Updates!Preflight, Updates!Switch, Updates!StartNew,
       Updates!Pass, Updates!Restore, Updates!Lose
  <2>3. /\ \A s \in Submitters : submissions'[s].of \in {0, submissions[s].of}
        /\ \A q \in Updates!Candidates : q # r => updateReceipts'[q] = updateReceipts[q]
        /\ applying'.step # "none" => applying'.of = r /\ updateReceipts' = updateReceipts
        /\ applying'.step = "none" => applying' = Updates!NoApply
    <3>1. CASE Updates!Preflight
      <4>1. \A s \in Submitters : submissions'[s].of \in {0, submissions[s].of}
        BY <3>1 DEF Updates!Preflight, Updates!NoRequest
      <4>2. CASE Updates!Reaches("stopped") /\ UNCHANGED updateReceipts
        BY <1>0, <4>1, <4>2 DEF Updates!Reaches, UpdatesTypes, ScriptRecord
      <4>3. CASE updateReceipts' = [updateReceipts EXCEPT ![r] = "FAIL"] /\ applying' = Updates!NoApply
        BY <1>0, <4>1, <4>3 DEF Updates!NoApply, UpdatesTypes
      <4> QED BY <3>1, <4>2, <4>3 DEF Updates!Preflight
    <3>2. CASE Updates!Switch \/ Updates!StartNew
      BY <1>0, <3>2 DEF Updates!Switch, Updates!StartNew, Updates!Reaches, UpdatesTypes,
         ScriptRecord
    <3>3. CASE Updates!Pass \/ Updates!Restore \/ Updates!Lose
      BY <1>0, <3>3 DEF Updates!Pass, Updates!Restore, Updates!Lose, Updates!NoApply,
         UpdatesTypes
    <3> QED BY <1>11, <3>1, <3>2, <3>3 DEF Updates!Applies
  <2> HIDE DEF r
  <2>4. Halfway' => active' = IF Before' THEN replaces[r] ELSE r
    <3>1. CASE Updates!Preflight \/ Updates!Pass \/ Updates!Restore \/ Updates!Lose
      BY <1>0, <3>1 DEF Updates!Preflight, Updates!Pass, Updates!Restore, Updates!Lose,
         Updates!Reaches, Updates!Current, Updates!NoApply, Halfway, Before, UpdatesTypes,
         ScriptRecord, r
    <3>2. CASE Updates!Switch \/ Updates!StartNew
      BY <1>0, <3>2 DEF Updates!Switch, Updates!StartNew, Updates!Reaches, Halfway, Before,
         UpdatesTypes, ScriptRecord, ScriptFacts, r
    <3> QED BY <1>11, <3>1, <3>2 DEF Updates!Applies
  <2>5. ScriptFacts'
    BY <1>0, <2>1, <2>2, <2>3, <2>4 DEF ScriptFacts, Unasked, Halfway
  <2>6. /\ \A q \in Updates!Candidates : InHand(q)' => InHand(q)
        /\ \A q \in Updates!Candidates : Applied(q)' => Applied(q)
        /\ \A q \in Updates!Candidates : updateReceipts[q] = "PASS" => updateReceipts'[q] = "PASS"
    BY <2>1, <2>2, <2>3 DEF InHand, Applied
  <2>7. CASE UNCHANGED active
    <3>1. \A q \in Updates!Candidates :
            results'[q] = "succeeded" => results[q] = "succeeded" \/ Updates!Proven(q)
      BY <2>2
    <3>2. \A s \in Submitters : submissions'[s].of \in {0, submissions[s].of}
      BY <2>3
    <3> QED BY <1>7, <2>2, <2>5, <2>6, <2>7, <3>1, <3>2
  <2>8. ASSUME active' # active,
               \A q \in Updates!Candidates : results[q] = "succeeded" => q \in Updates!Lineage',
               active' \in {r, replaces[r]}
        PROVE  Noted' /\ SealedFacts' /\ ScriptFacts' /\ SuccessFacts'
    <3>1. Noted'
      BY <1>0, <2>2 DEF Noted
    <3>2. Sealed(0)
      BY <1>0 DEF UpdatesTypes, Sealed
    <3>3. SealedFacts'
      <4>1. Sealed(active')
        BY <1>0, <2>1, <2>8 DEF SealedFacts
      <4>2. \A s \in Submitters : Sealed(submissions'[s].of)
        BY <1>0, <2>3, <3>2 DEF SealedFacts
      <4> QED BY <1>0, <2>2, <2>6, <4>1, <4>2 DEF SealedFacts, Sealed
    <3>4. SuccessFacts'
      BY <1>0, <2>2, <2>6, <2>8 DEF SuccessFacts
    <3> QED BY <2>5, <3>1, <3>3, <3>4
  <2>9. CASE Updates!Switch
    <3>1. active' = r /\ replaces[r] = active
      BY <1>0, <2>9 DEF Updates!Switch, ScriptFacts, Halfway, Before, r
    <3>2. \A q \in Updates!Candidates : results[q] = "succeeded" => q \in Updates!Lineage'
      BY <1>0, <2>1, <2>2, <3>1, LineageSwitches DEF SuccessFacts
    <3> QED BY <2>7, <2>8, <3>1, <3>2
  <2>10. CASE Updates!Restore
    <3>1. active' = active \/ active' = replaces[r]
      BY <2>10 DEF Updates!Restore, Updates!Undoes, r
    <3>2. active = replaces[r] \/ active = r
      BY <1>0, <2>10 DEF Updates!Restore, ScriptFacts, Halfway, Before, r
    <3>3. CASE active' # active
      <4>1. active = r /\ active' = replaces[r]
        BY <3>1, <3>2, <3>3
      <4>2. \A q \in Updates!Candidates : results[q] = "succeeded" => q \in Updates!Lineage'
        BY <1>0, <2>1, <2>2, <4>1, LineageRestored DEF SuccessFacts
      <4> QED BY <2>8, <3>3, <4>1, <4>2
    <3> QED BY <2>7, <3>3
  <2>11. CASE Updates!Preflight \/ Updates!StartNew \/ Updates!Pass \/ Updates!Lose
    BY <2>7, <2>11 DEF Updates!Preflight, Updates!StartNew, Updates!Pass, Updates!Lose
  <2> QED BY <1>11, <2>9, <2>10, <2>11 DEF Updates!Applies
<1> QED
  BY <1>1, <1>3, <1>4, <1>5, <1>6, <1>8, <1>9, <1>10, <1>11 DEF Updates!Next

--------------------------------------------------------------------------------
(* Deployments of the servix project.                                      *)

DeploymentRecord == [status : Servix!Statuses, origin : Nat, prev : Nat]
RunnerSteps   == {"none", "stopped", "copy", "check", "send", "await", "publish", "result"}
OperatorSteps == {"idle", "verify", "stop", "copy", "start", "recover"}
RunnerRecord  == [step : RunnerSteps, of : {0} \cup Servix!Runs]
TargetRecord  == [step : OperatorSteps, of : {0} \cup Servix!Runs, before : Nat]
ServixTypes ==
  /\ deployment \in [Servix!Runs -> DeploymentRecord] /\ succeeded \in Seq(Servix!Runs)
  /\ background \in [Servix!Runs -> {"none", "publish", "build", "approve", "write"}]
  /\ approvals \in [Servix!Runs -> {"none", "partial", "whole"}]
  /\ claims \in [Servix!Runs -> {"none", "empty", "approval"}]
  /\ outcomes \in [Servix!Runs -> {"none", "succeeded", "recovery-required"}]
  /\ reports \in [Servix!Runs -> {"none", "pass", "fail"}]
  /\ runner \in RunnerRecord /\ target \in TargetRecord /\ release \in Nat

(* A deployment that has not reached its activation, or never will, has    *)
(* left no trace; one that has reached it blocks until it succeeded.       *)
Early(r)  == deployment[r].status \in {"none", "publishing", "building", "failed"}
Flying(r) == deployment[r].status \in {"activating", "recovery-required"}
Blank(r)  == /\ approvals[r] = "none" /\ claims[r] = "none" /\ outcomes[r] = "none"
             /\ reports[r] = "none" /\ runner.of # r /\ target.of # r

(* What may still come to an activation, of which there is one: a          *)
(* deployment that expired while it was built may count as being built     *)
(* again, but is not enqueued.                                             *)
Holds(r) == \/ Flying(r)
            \/ deployment[r].status \in {"publishing", "building"} /\ r \notin overdue
OneHolds == \A r, q \in Servix!Runs : Holds(r) /\ Holds(q) => r = q

DeploymentFacts(r) ==
  /\ Early(r) => Blank(r)
  /\ background[r] \in {"publish", "build"} =>
       deployment[r].status \in {"publishing", "building", "failed"}
  /\ background[r] \in {"publish", "build"} /\ r \notin overdue =>
       deployment[r].status \in {"publishing", "building"}
  /\ background[r] = "approve" => deployment[r].status = "activating" /\ Blank(r)
  /\ background[r] = "write" => deployment[r].status = "activating" /\ approvals[r] = "partial"
  /\ approvals[r] = "whole" => background[r] = "none"
  /\ approvals[r] # "none" => Flying(r)
  /\ claims[r] = "none" => outcomes[r] = "none" /\ reports[r] = "none" /\ runner.of # r /\ target.of # r
  /\ claims[r] = "approval" => approvals[r] = "none" /\ background[r] = "none"
  /\ outcomes[r] # "none" => claims[r] = "approval" /\ runner.of # r

RunnerFacts ==
  /\ runner.of = 0 <=> runner.step \in {"none", "stopped"}
  /\ runner.of # 0 => Flying(runner.of)
  /\ runner.step \in {"check", "send", "await", "publish", "result"} => claims[runner.of] = "approval"
  /\ runner.step = "copy" => claims[runner.of] = "empty"
  /\ runner.step \in {"copy", "check", "send"} => reports[runner.of] = "none" /\ target.of # runner.of
  /\ runner.step \in {"publish", "result"} => reports[runner.of] = "pass"
  /\ runner.step = "result" => pointer = runner.of
TargetFacts ==
  /\ target.of = 0 <=> target.step = "idle"
  /\ target.of # 0 => Flying(target.of) /\ reports[target.of] = "none"
  /\ target.step = "start" => release = Servix!Origin(target.of)

(* While none is on its way, the current release is installed; one that    *)
(* succeeded on the target is installed, and one that succeeded for the    *)
(* runner is the active one.                                               *)
InstalledFacts ==
  /\ (\A r \in Servix!Runs : ~Flying(r)) =>
       release = Servix!Origin(Servix!Current) /\ task = "up" /\ pointer = Servix!Current
  /\ Servix!Current # 0 => Servix!Current \in Servix!Runs /\ deployment[Servix!Current].status = "succeeded"
  /\ \A r \in Servix!Runs : Flying(r) /\ reports[r] = "pass" =>
       release = Servix!Origin(r) /\ task = "up"
  /\ \A r \in Servix!Runs : Flying(r) /\ outcomes[r] = "succeeded" =>
       reports[r] = "pass" /\ pointer = r
ServixInv ==
  /\ ServixTypes /\ OneHolds /\ RunnerFacts /\ TargetFacts /\ InstalledFacts
  /\ \A r \in Servix!Runs : DeploymentFacts(r)

(* Deployments are numbered from one.                                      *)
LEMMA ServixRuns == MaxRuns \in Nat /\ \A r \in Servix!Runs : r \in Nat /\ r # 0
BY BoundsAssumption DEF Servix!Runs

(* The current release is a deployment, or none.                           *)
LEMMA CurrentIsRun ==
  ASSUME ServixTypes
  PROVE  Servix!Current \in {0} \cup Servix!Runs /\ Servix!Current \in Nat
<1>1. succeeded \in Seq(Servix!Runs)
  BY DEF ServixTypes
<1>2. CASE succeeded = <<>>
  BY <1>2 DEF Servix!Current
<1>3. CASE succeeded # <<>>
  <2>1. succeeded[Len(succeeded)] \in Servix!Runs
    BY <1>1, <1>3
  <2> QED BY <1>3, <2>1, ServixRuns DEF Servix!Current, Servix!Last
<1> QED BY <1>2, <1>3

(* A release is known by the deployment that built it.                     *)
LEMMA OriginIsNat ==
  ASSUME ServixTypes, NEW r \in {0} \cup Servix!Runs
  PROVE  Servix!Origin(r) \in Nat
<1>1. CASE r = 0
  BY <1>1 DEF Servix!Origin
<1>2. CASE r \in Servix!Runs
  <2>1. deployment[r].origin \in Nat
    BY <1>2 DEF ServixTypes, DeploymentRecord
  <2> QED BY <2>1 DEF Servix!Origin
<1> QED BY <1>1, <1>2

(* Marking one deployment changes its status and nothing else.             *)
LEMMA Marked ==
  ASSUME ServixTypes, NEW r \in Servix!Runs, NEW st \in Servix!Statuses, Servix!Mark(r, st)
  PROVE  /\ deployment' \in [Servix!Runs -> DeploymentRecord]
         /\ deployment'[r].status = st
         /\ \A q \in Servix!Runs : q # r => deployment'[q] = deployment[q]
         /\ \A q \in Servix!Runs : deployment'[q].origin = deployment[q].origin
BY DEF ServixTypes, DeploymentRecord, Servix!Mark

(* The runner goes on with what it works on.                               *)
LEMMA RunnerGoes ==
  ASSUME ServixTypes, NEW st \in RunnerSteps, Servix!Go(st)
  PROVE  runner' \in RunnerRecord /\ runner'.step = st /\ runner'.of = runner.of
BY DEF ServixTypes, RunnerRecord, Servix!Go

(* The runner is at rest, or its process is stopped.                       *)
LEMMA RunnerRests ==
  ASSUME runner' = Servix!NoWork \/ runner' = [Servix!NoWork EXCEPT !.step = "stopped"]
  PROVE  runner' \in RunnerRecord /\ runner'.step \in {"none", "stopped"} /\ runner'.of = 0
BY DEF RunnerRecord, RunnerSteps, Servix!NoWork

(* The operator goes on with its job, or is done with it.                  *)
LEMMA OperatorTurns ==
  ASSUME ServixTypes, NEW st \in OperatorSteps, Servix!Turn(st)
  PROVE  /\ target' \in TargetRecord
         /\ target'.step = st /\ target'.of = target.of /\ target'.before = target.before
BY DEF ServixTypes, TargetRecord, Servix!Turn

(* The operator at rest.                                                   *)
LEMMA OperatorRests ==
  ASSUME target' = Servix!AtRest
  PROVE  target' \in TargetRecord /\ target'.step = "idle" /\ target'.of = 0
BY DEF TargetRecord, OperatorSteps, Servix!AtRest

(* A step that leaves the deployments alone leaves alone what follows from *)
(* them.                                                                   *)
LEMMA StoreStays ==
  ASSUME OneHolds, UNCHANGED <<deployment, succeeded, overdue>>
  PROVE  /\ OneHolds'
         /\ \A q : Flying(q)' = Flying(q) /\ Early(q)' = Early(q) /\ Holds(q)' = Holds(q)
         /\ \A q : Servix!Origin(q)' = Servix!Origin(q)
         /\ Servix!Current' = Servix!Current
<1>1. \A q : Flying(q)' = Flying(q) /\ Early(q)' = Early(q)
  BY DEF Flying, Early
<1>2. \A q : Holds(q)' = Holds(q)
  BY <1>1 DEF Holds
<1>3. OneHolds'
  BY <1>2 DEF OneHolds
<1>4. \A q : Servix!Origin(q)' = Servix!Origin(q)
  BY DEF Servix!Origin
<1>5. Servix!Current' = Servix!Current
  BY DEF Servix!Current
<1> QED BY <1>1, <1>2, <1>3, <1>4, <1>5

(* At most one activation is on its way.                                   *)
LEMMA OneFlies ==
  ASSUME OneHolds, NEW r \in Servix!Runs, NEW q \in Servix!Runs, Flying(r), Flying(q)
  PROVE  r = q
BY DEF OneHolds, Holds

(* Every step keeps the types.                                             *)
LEMMA ServixTyped ==
  ASSUME ServixTypes, Servix!Next
  PROVE  ServixTypes'
<1> USE DEF Servix!store, Servix!controller, Servix!private, Servix!destination
<1>0. ASSUME NEW r \in Servix!Runs, NEW st \in Servix!Statuses, Servix!Mark(r, st)
      PROVE  deployment' \in [Servix!Runs -> DeploymentRecord]
  BY <1>0, Marked
<1>1. ASSUME NEW r \in Servix!Runs, Servix!Request(r) PROVE ServixTypes'
  <2>1. [status |-> "publishing", origin |-> r, prev |-> Servix!Current] \in DeploymentRecord
    BY CurrentIsRun, ServixRuns DEF DeploymentRecord, Servix!Statuses
  <2> QED BY <1>1, <2>1 DEF ServixTypes, Servix!Request
<1>2. ASSUME NEW r \in Servix!Runs, NEW q \in Servix!Runs, NEW b \in BOOLEAN, Servix!Restore(r, q, b)
      PROVE  ServixTypes'
  <2>1. deployment[q].origin \in Nat
    BY DEF ServixTypes, DeploymentRecord
  <2>2. [status |-> "activating", origin |-> deployment[q].origin, prev |-> Servix!Current]
           \in DeploymentRecord
    BY <2>1, CurrentIsRun DEF DeploymentRecord, Servix!Statuses
  <2> QED BY <1>2, <2>2 DEF ServixTypes, Servix!Restore
<1>3. "building" \in Servix!Statuses /\ "activating" \in Servix!Statuses /\ "failed" \in Servix!Statuses
      /\ "recovery-required" \in Servix!Statuses /\ "succeeded" \in Servix!Statuses
  BY DEF Servix!Statuses
<1>4. ASSUME NEW r \in Servix!Runs, Servix!Publish(r) \/ Servix!Enqueue(r) \/ Servix!GiveUp(r)
      PROVE  ServixTypes'
  <2>1. deployment' \in [Servix!Runs -> DeploymentRecord]
    BY <1>0, <1>3, <1>4 DEF Servix!Publish, Servix!Enqueue, Servix!GiveUp
  <2> QED BY <1>4, <2>1 DEF ServixTypes, Servix!Publish, Servix!Enqueue, Servix!GiveUp
<1>5. ASSUME NEW r \in Servix!Runs, Servix!WriteApproval(r) PROVE ServixTypes'
  <2>1. deployment' \in [Servix!Runs -> DeploymentRecord]
    BY <1>0, <1>3, <1>5 DEF ServixTypes, Servix!WriteApproval
  <2>2. /\ approvals' \in [Servix!Runs -> {"none", "partial", "whole"}]
        /\ background' \in [Servix!Runs -> {"none", "publish", "build", "approve", "write"}]
    BY <1>5 DEF ServixTypes, Servix!WriteApproval
  <2> QED BY <1>5, <2>1, <2>2 DEF ServixTypes, Servix!WriteApproval
<1>6. ASSUME NEW r \in Servix!Runs, Servix!Reconcile(r) PROVE ServixTypes'
  <2>1. outcomes[r] \in {"none", "succeeded", "recovery-required"}
    BY DEF ServixTypes
  <2>2. \E st \in Servix!Statuses : Servix!Mark(r, st)
    BY <1>3, <1>6, <2>1 DEF Servix!Reconcile, Servix!Interrupted
  <2>3. deployment' \in [Servix!Runs -> DeploymentRecord]
    BY <1>0, <2>2
  <2>4. Append(succeeded, r) \in Seq(Servix!Runs)
    BY DEF ServixTypes
  <2>5. succeeded' \in Seq(Servix!Runs)
    BY <1>6, <2>4 DEF ServixTypes, Servix!Reconcile
  <2> QED BY <1>6, <2>3, <2>5 DEF ServixTypes, Servix!Reconcile
<1>7. ASSUME NEW r \in Servix!Runs, Servix!Expire(r) PROVE ServixTypes'
  BY <1>7 DEF ServixTypes, Servix!Expire
<1>8. ASSUME Servix!ControllerStops PROVE ServixTypes'
  BY <1>8 DEF ServixTypes, Servix!ControllerStops
<1>9. ASSUME NEW r \in Servix!Runs, Servix!Claim(r) PROVE ServixTypes'
  <2>1. runner' \in RunnerRecord
    BY <1>9 DEF RunnerRecord, RunnerSteps, Servix!Claim
  <2> QED BY <1>9, <2>1 DEF ServixTypes, Servix!Claim, Servix!Claimed
<1>10. ASSUME NEW st \in {"check", "send", "await", "publish", "result"}, Servix!Go(st)
       PROVE  runner' \in RunnerRecord
  BY <1>10, RunnerGoes DEF RunnerSteps
<1>11. ASSUME NEW r, Servix!Uncertain(r)
       PROVE  /\ outcomes' \in [Servix!Runs -> {"none", "succeeded", "recovery-required"}]
              /\ runner' \in RunnerRecord
  BY <1>11, RunnerRests DEF ServixTypes, Servix!Uncertain
<1>12. ASSUME Servix!CopyApproval PROVE ServixTypes'
  <2>1. runner' \in RunnerRecord
    BY <1>10, <1>12, RunnerRests DEF Servix!CopyApproval
  <2> QED BY <1>12, <2>1 DEF ServixTypes, Servix!CopyApproval, Servix!Claimed
<1>13. ASSUME Servix!CheckApproval PROVE ServixTypes'
  <2>1. /\ runner' \in RunnerRecord
        /\ outcomes' \in [Servix!Runs -> {"none", "succeeded", "recovery-required"}]
    BY <1>10, <1>11, <1>13 DEF ServixTypes, Servix!CheckApproval
  <2> QED BY <1>13, <2>1 DEF ServixTypes, Servix!CheckApproval
<1>14. ASSUME Servix!Send PROVE ServixTypes'
  <2>1. /\ runner' \in RunnerRecord
        /\ outcomes' \in [Servix!Runs -> {"none", "succeeded", "recovery-required"}]
    BY <1>10, <1>11, <1>14 DEF ServixTypes, Servix!Send
  <2>2. target' \in TargetRecord
    BY <1>14 DEF ServixTypes, TargetRecord, OperatorSteps, RunnerRecord, Servix!Send
  <2> QED BY <1>14, <2>1, <2>2 DEF ServixTypes, Servix!Send
<1>15. ASSUME Servix!Await PROVE ServixTypes'
  <2>1. /\ runner' \in RunnerRecord
        /\ outcomes' \in [Servix!Runs -> {"none", "succeeded", "recovery-required"}]
    BY <1>10, <1>11, <1>15 DEF ServixTypes, Servix!Await
  <2> QED BY <1>15, <2>1 DEF ServixTypes, Servix!Await
<1>16. ASSUME Servix!PublishRelease PROVE ServixTypes'
  <2>1. /\ runner' \in RunnerRecord
        /\ outcomes' \in [Servix!Runs -> {"none", "succeeded", "recovery-required"}]
    BY <1>10, <1>11, <1>16 DEF ServixTypes, Servix!PublishRelease
  <2> QED BY <1>16, <2>1 DEF ServixTypes, Servix!PublishRelease
<1>17. ASSUME Servix!WriteResult PROVE ServixTypes'
  <2>1. runner' \in RunnerRecord
    BY <1>17, RunnerRests DEF Servix!WriteResult
  <2> QED BY <1>17, <2>1 DEF ServixTypes, Servix!WriteResult
<1>18. ASSUME Servix!RunnerStarts PROVE ServixTypes'
  <2>1. runner' \in RunnerRecord
    BY <1>18, RunnerRests DEF Servix!RunnerStarts
  <2> QED BY <1>18, <2>1 DEF ServixTypes, Servix!RunnerStarts
<1>19. ASSUME Servix!RunnerStops PROVE ServixTypes'
  <2>1. runner' \in RunnerRecord
    BY <1>19, RunnerRests DEF Servix!RunnerStops
  <2> QED BY <1>19, <2>1 DEF ServixTypes, Servix!RunnerStops
<1>20. ASSUME NEW st \in {"verify", "stop", "copy", "start", "recover"}, Servix!Turn(st)
       PROVE  target' \in TargetRecord
  BY <1>20, OperatorTurns DEF OperatorSteps
<1>21. ASSUME NEW report \in {"pass", "fail"}, Servix!Answer(report)
       PROVE  target' \in TargetRecord /\ reports' \in [Servix!Runs -> {"none", "pass", "fail"}]
  BY <1>21, OperatorRests DEF ServixTypes, Servix!Answer
<1>22. target.before \in Nat /\ target.of \in {0} \cup Servix!Runs /\ Servix!Mixed \in Nat
  BY ServixRuns DEF ServixTypes, TargetRecord, Servix!Mixed
<1>23. ASSUME Servix!Verify PROVE ServixTypes'
  <2>1. target' \in TargetRecord /\ reports' \in [Servix!Runs -> {"none", "pass", "fail"}]
    BY <1>20, <1>21, <1>23 DEF ServixTypes, Servix!Verify
  <2> QED BY <1>23, <2>1 DEF ServixTypes, Servix!Verify
<1>24. ASSUME Servix!StopTask PROVE ServixTypes'
  <2>1. target' \in TargetRecord
    BY <1>20, <1>24 DEF Servix!StopTask
  <2> QED BY <1>24, <2>1 DEF ServixTypes, Servix!StopTask
<1>25. ASSUME Servix!CopyFiles PROVE ServixTypes'
  <2>1. target' \in TargetRecord
    BY <1>20, <1>25 DEF Servix!CopyFiles
  <2>2. release' \in Nat
    BY <1>22, <1>25, OriginIsNat DEF ServixTypes, Servix!CopyFiles
  <2> QED BY <1>25, <2>1, <2>2 DEF ServixTypes, Servix!CopyFiles
<1>26. ASSUME Servix!StartTask PROVE ServixTypes'
  <2>1. target' \in TargetRecord /\ reports' \in [Servix!Runs -> {"none", "pass", "fail"}]
    BY <1>20, <1>21, <1>26 DEF ServixTypes, Servix!StartTask
  <2> QED BY <1>26, <2>1 DEF ServixTypes, Servix!StartTask
<1>27. ASSUME Servix!Recover PROVE ServixTypes'
  <2>1. target' \in TargetRecord /\ reports' \in [Servix!Runs -> {"none", "pass", "fail"}]
    BY <1>21, <1>27 DEF Servix!Recover
  <2>2. release' \in Nat
    BY <1>22, <1>27 DEF ServixTypes, Servix!Recover
  <2> QED BY <1>27, <2>1, <2>2 DEF ServixTypes, Servix!Recover
<1>28. ASSUME Servix!TargetStops PROVE ServixTypes'
  <2>1. target' \in TargetRecord
    BY <1>28, OperatorRests DEF Servix!TargetStops
  <2> QED BY <1>28, <2>1 DEF ServixTypes, Servix!TargetStops
<1> QED BY <1>1, <1>2, <1>4, <1>5, <1>6, <1>7, <1>8, <1>9, <1>12, <1>13, <1>14, <1>15, <1>16,
           <1>17, <1>18, <1>19, <1>23, <1>24, <1>25, <1>26, <1>27, <1>28
        DEF Servix!Next, Servix!Controls, Servix!Runner, Servix!Operator

(* A step of the control plane for one deployment that has not succeeded:  *)
(* it may take up an activation only while there is none.                  *)
LEMMA StoreMoves ==
  ASSUME ServixInv, ServixTypes', NEW r \in Servix!Runs,
         UNCHANGED <<succeeded, overdue, claims, outcomes, reports, runner, target, release, task,
                     pointer>>,
         \A q \in Servix!Runs : q # r => /\ deployment'[q] = deployment[q]
                                         /\ background'[q] = background[q]
                                         /\ approvals'[q] = approvals[q],
         deployment[r].status # "succeeded",
         Holds(r)' => Holds(r) \/ \A q \in Servix!Runs : ~Holds(q),
         Early(r) \/ (Flying(r)' /\ deployment'[r].origin = deployment[r].origin),
         DeploymentFacts(r)'
  PROVE  ServixInv'
<1>0. /\ ServixTypes /\ OneHolds /\ RunnerFacts /\ TargetFacts /\ InstalledFacts
      /\ \A q \in Servix!Runs : DeploymentFacts(q)
  BY DEF ServixInv
<1>1. ASSUME NEW q \in Servix!Runs, q # r
      PROVE  Flying(q)' = Flying(q) /\ Early(q)' = Early(q) /\ Holds(q)' = Holds(q)
  <2>1. deployment'[q] = deployment[q]
    BY <1>1
  <2> QED BY <2>1 DEF Flying, Early, Holds
<1>2. ASSUME NEW q \in Servix!Runs PROVE DeploymentFacts(q)'
  <2>1. CASE q = r
    BY <2>1
  <2>2. CASE q # r
    <3>1. /\ deployment'[q] = deployment[q] /\ background'[q] = background[q]
          /\ approvals'[q] = approvals[q]
      BY <2>2
    <3> QED BY <1>0, <1>1, <2>2, <3>1 DEF DeploymentFacts, Blank
  <2> QED BY <2>1, <2>2
<1>3. OneHolds'
  BY <1>0, <1>1 DEF OneHolds
<1>4. Early(r) => Blank(r)
  BY <1>0 DEF DeploymentFacts
<1>5. Flying(r) => Flying(r)' /\ ~Early(r)
  BY DEF Flying, Early
<1>6. Early(r) \/ Flying(r)
  <2>1. deployment[r].status \in Servix!Statuses
    BY <1>0 DEF ServixTypes, DeploymentRecord
  <2> QED BY <2>1 DEF Early, Flying, Servix!Statuses
<1>7. RunnerFacts'
  <2>1. runner.of # 0 => Flying(runner.of)'
    <3>1. runner.of # 0 => runner.of \in Servix!Runs
      BY <1>0 DEF ServixTypes, RunnerRecord
    <3> QED BY <1>0, <1>1, <1>5, <3>1 DEF RunnerFacts
  <2> QED BY <1>0, <2>1 DEF RunnerFacts
<1>8. ASSUME NEW q \in {0} \cup Servix!Runs, q # r \/ ~Early(r)
      PROVE  Servix!Origin(q)' = Servix!Origin(q)
  BY <1>8 DEF Servix!Origin
<1>9. TargetFacts'
  <2>1. target.of \in {0} \cup Servix!Runs
    BY <1>0 DEF ServixTypes, TargetRecord
  <2>2. target.of # 0 => Flying(target.of)'
    BY <1>0, <1>1, <1>5, <2>1 DEF TargetFacts
  <2>3. target.of # r \/ ~Early(r)
    BY <1>4 DEF Blank
  <2>4. Servix!Origin(target.of)' = Servix!Origin(target.of)
    BY <1>8, <2>1, <2>3
  <2> QED BY <1>0, <2>2, <2>4 DEF TargetFacts
<1>10. InstalledFacts'
  <2>1. Servix!Current' = Servix!Current
    BY DEF Servix!Current
  <2>2. Servix!Current \in {0} \cup Servix!Runs /\ Servix!Current # r
    BY <1>0, CurrentIsRun, ServixRuns DEF InstalledFacts
  <2>3. Servix!Origin(Servix!Current)' = Servix!Origin(Servix!Current)
    BY <1>8, <2>1, <2>2
  <2>4. (\A q \in Servix!Runs : ~Flying(q)') => \A q \in Servix!Runs : ~Flying(q)
    BY <1>1, <1>5
  <2>5. Servix!Current # 0 => deployment'[Servix!Current].status = "succeeded"
    BY <1>0, <2>2 DEF InstalledFacts
  <2>6. ASSUME NEW q \in Servix!Runs, Flying(q)', reports[q] = "pass"
        PROVE  release = Servix!Origin(q)' /\ task = "up"
    <3>1. Flying(q) /\ (q # r \/ ~Early(r))
      BY <1>1, <1>4, <1>6, <2>6 DEF Blank
    <3> QED BY <1>0, <1>8, <2>6, <3>1 DEF InstalledFacts
  <2>7. ASSUME NEW q \in Servix!Runs, Flying(q)', outcomes[q] = "succeeded"
        PROVE  reports[q] = "pass" /\ pointer = q
    <3>1. Flying(q)
      BY <1>1, <1>4, <1>6, <2>7 DEF Blank
    <3> QED BY <1>0, <2>7, <3>1 DEF InstalledFacts
  <2> QED BY <1>0, <2>1, <2>2, <2>3, <2>4, <2>5, <2>6, <2>7 DEF InstalledFacts
<1> QED BY <1>2, <1>3, <1>7, <1>9, <1>10 DEF ServixInv

(* The control plane: requests, publication, the build, approvals.         *)
LEMMA ControlPlaneSteps ==
  ASSUME ServixInv, ServixTypes', NEW r \in Servix!Runs,
         \/ Servix!Request(r) \/ (\E q \in Servix!Runs, b \in BOOLEAN : Servix!Restore(r, q, b))
         \/ Servix!Controls(r)
  PROVE  ServixInv'
<1> USE DEF Servix!store, Servix!controller, Servix!private, Servix!destination
<1>0. ServixTypes /\ DeploymentFacts(r) /\ r # 0
  BY ServixRuns DEF ServixInv
<1>f. /\ \A st : background' = [background EXCEPT ![r] = st] =>
            background'[r] = st /\ \A q \in Servix!Runs : q # r => background'[q] = background[q]
      /\ \A st : approvals' = [approvals EXCEPT ![r] = st] =>
            approvals'[r] = st /\ \A q \in Servix!Runs : q # r => approvals'[q] = approvals[q]
  BY <1>0 DEF ServixTypes
<1>b. ~Servix!Busy => \A q \in Servix!Runs : ~Holds(q)
  BY DEF Servix!Busy, Servix!Blocking, Holds, Flying
<1>1. CASE Servix!Request(r)
  <2>1. /\ deployment[r].status = "none" /\ ~Servix!Busy
        /\ deployment'[r].status = "publishing"
        /\ \A q \in Servix!Runs : q # r => deployment'[q] = deployment[q]
    BY <1>0, <1>1 DEF ServixTypes, Servix!Request, Servix!IsNext
  <2>2. /\ background' = [background EXCEPT ![r] = "publish"]
        /\ UNCHANGED <<succeeded, overdue, approvals, claims, outcomes, reports, runner, target,
                       release, task, pointer>>
    BY <1>1 DEF Servix!Request
  <2>3. Early(r) /\ Blank(r)
    BY <1>0, <2>1 DEF Early, DeploymentFacts
  <2>4. DeploymentFacts(r)'
    BY <1>f, <2>1, <2>2, <2>3 DEF DeploymentFacts, Blank
  <2> QED BY <1>b, <1>f, <2>1, <2>2, <2>3, <2>4, StoreMoves
<1>2. ASSUME NEW p \in Servix!Runs, NEW b \in BOOLEAN, Servix!Restore(r, p, b) PROVE ServixInv'
  <2>1. /\ deployment[r].status = "none" /\ ~Servix!Busy
        /\ deployment'[r].status = "activating"
        /\ \A q \in Servix!Runs : q # r => deployment'[q] = deployment[q]
    BY <1>0, <1>2 DEF ServixTypes, Servix!Restore, Servix!IsNext
  <2>2. /\ background' = [background EXCEPT ![r] = "approve"]
        /\ UNCHANGED <<succeeded, overdue, approvals, claims, outcomes, reports, runner, target,
                       release, task, pointer>>
    BY <1>2 DEF Servix!Restore
  <2>3. Early(r) /\ Blank(r)
    BY <1>0, <2>1 DEF Early, DeploymentFacts
  <2>4. ~Early(r)'
    BY <2>1 DEF Early
  <2>5. DeploymentFacts(r)'
    BY <1>f, <2>1, <2>2, <2>3, <2>4 DEF DeploymentFacts, Blank
  <2> QED BY <1>b, <1>f, <2>1, <2>2, <2>3, <2>5, StoreMoves
<1>3. CASE Servix!Publish(r) \/ Servix!GiveUp(r)
  <2>1. PICK st \in {"building", "failed"}, does \in {"build", "none"} :
          /\ Servix!Mark(r, st) /\ background' = [background EXCEPT ![r] = does]
          /\ st = "building" \/ does = "none"
    BY <1>3 DEF Servix!Publish, Servix!GiveUp
  <2>2. /\ background[r] \in {"publish", "build"}
        /\ UNCHANGED <<succeeded, overdue, approvals, claims, outcomes, reports, runner, target,
                       release, task, pointer>>
    BY <1>3 DEF Servix!Publish, Servix!GiveUp
  <2>3. Early(r) /\ deployment[r].status # "succeeded" /\ (r \in overdue \/ Holds(r))
    BY <1>0, <2>2 DEF Early, Holds, DeploymentFacts
  <2>4. Blank(r)
    BY <1>0, <2>3 DEF DeploymentFacts
  <2>5. st \in Servix!Statuses
    BY <2>1 DEF Servix!Statuses
  <2>6. /\ deployment'[r].status = st
        /\ \A q \in Servix!Runs : q # r => deployment'[q] = deployment[q]
    BY <1>0, <2>1, <2>5, Marked
  <2>7. DeploymentFacts(r)'
    BY <1>f, <2>1, <2>2, <2>4, <2>6 DEF DeploymentFacts, Blank
  <2>8. Holds(r)' => Holds(r)
    BY <2>2, <2>3, <2>6 DEF Holds, Flying
  <2> QED BY <1>f, <2>1, <2>2, <2>3, <2>6, <2>7, <2>8, StoreMoves
<1>4. CASE Servix!Enqueue(r)
  <2>1. /\ Servix!Mark(r, "activating") /\ background' = [background EXCEPT ![r] = "approve"]
        /\ background[r] = "build" /\ r \notin overdue
        /\ UNCHANGED <<succeeded, overdue, approvals, claims, outcomes, reports, runner, target,
                       release, task, pointer>>
    BY <1>4 DEF Servix!Enqueue
  <2>2. Early(r) /\ deployment[r].status # "succeeded" /\ Holds(r)
    BY <1>0, <2>1 DEF Early, Holds, DeploymentFacts
  <2>3. Blank(r)
    BY <1>0, <2>2 DEF DeploymentFacts
  <2>4. "activating" \in Servix!Statuses
    BY DEF Servix!Statuses
  <2>5. /\ deployment'[r].status = "activating"
        /\ \A q \in Servix!Runs : q # r => deployment'[q] = deployment[q]
    BY <1>0, <2>1, <2>4, Marked
  <2>6. ~Early(r)'
    BY <2>5 DEF Early
  <2>7. DeploymentFacts(r)'
    BY <1>f, <2>1, <2>3, <2>5, <2>6 DEF DeploymentFacts, Blank
  <2> QED BY <1>f, <2>1, <2>2, <2>5, <2>7, StoreMoves
<1>5. CASE Servix!WriteApproval(r)
  <2>1. /\ background[r] \in {"approve", "write"}
        /\ UNCHANGED <<succeeded, overdue, claims, outcomes, reports, runner, target, release, task,
                       pointer>>
    BY <1>5 DEF Servix!WriteApproval
  <2>2. deployment[r].status = "activating" /\ Flying(r) /\ ~Early(r) /\ Holds(r)
    BY <1>0, <2>1 DEF Early, Flying, Holds, DeploymentFacts
  <2>3. "recovery-required" \in Servix!Statuses
    BY DEF Servix!Statuses
  <2>4. /\ deployment' = deployment
           \/ (deployment'[r].status = "recovery-required" /\ background'[r] = "none" /\ UNCHANGED approvals)
        /\ \A q \in Servix!Runs : q # r => deployment'[q] = deployment[q]
        /\ deployment'[r].origin = deployment[r].origin
    BY <1>0, <1>5, <1>f, <2>3, Marked DEF Servix!WriteApproval
  <2>5. Flying(r)' /\ ~Early(r)'
    BY <2>2, <2>4 DEF Flying, Early
  <2>6. \/ background[r] = "approve" /\ approvals'[r] = "partial" /\ background'[r] = "write"
             /\ deployment'[r].status = "activating"
        \/ background[r] = "write" /\ approvals'[r] = "whole" /\ background'[r] = "none"
        \/ background'[r] = "none" /\ approvals'[r] = approvals[r]
    BY <1>0, <1>5, <1>f, <2>2 DEF DeploymentFacts, Servix!WriteApproval
  <2>7. \A q \in Servix!Runs : q # r => background'[q] = background[q] /\ approvals'[q] = approvals[q]
    BY <1>5, <1>f DEF Servix!WriteApproval
  <2>8. DeploymentFacts(r)'
    BY <1>0, <2>1, <2>5, <2>6 DEF DeploymentFacts, Blank
  <2> QED BY <2>1, <2>2, <2>4, <2>5, <2>7, <2>8, StoreMoves
<1> QED BY <1>1, <1>2, <1>3, <1>4, <1>5 DEF Servix!Controls

(* What the runner reported is taken over, or a deployment is interrupted. *)
LEMMA ReconcileSteps ==
  ASSUME ServixInv, ServixTypes', NEW r \in Servix!Runs, Servix!Reconcile(r)
  PROVE  ServixInv'
<1> USE DEF Servix!store, Servix!controller, Servix!private, Servix!destination
<1>0. /\ ServixTypes /\ OneHolds /\ RunnerFacts /\ TargetFacts /\ InstalledFacts
      /\ \A q \in Servix!Runs : DeploymentFacts(q)
      /\ DeploymentFacts(r) /\ r # 0
  BY ServixRuns DEF ServixInv
<1>1. /\ UNCHANGED <<background, overdue, approvals, claims, outcomes, reports, runner, target,
                     release, task, pointer>>
      /\ background[r] \notin {"approve", "write"}
      /\ deployment[r].status \in {"publishing", "building", "activating"}
  BY DEF Servix!Reconcile, Servix!ChainFree, Servix!UnderWay
<1>2. outcomes[r] \in {"none", "succeeded", "recovery-required"}
  BY <1>0 DEF ServixTypes
<1>3. /\ "recovery-required" \in Servix!Statuses /\ "failed" \in Servix!Statuses
      /\ "succeeded" \in Servix!Statuses
  BY DEF Servix!Statuses
<1>4. outcomes[r] # "none" => /\ deployment[r].status = "activating" /\ Flying(r)
                              /\ background[r] = "none" /\ approvals[r] = "none"
  BY <1>0, <1>1 DEF DeploymentFacts, Early, Blank, Flying
<1>5. ASSUME NEW st \in {"recovery-required", "failed"}, Servix!Mark(r, st), UNCHANGED succeeded,
             st = "failed" => Early(r) /\ (r \in overdue \/ background[r] = "none"),
             st = "recovery-required" =>
               deployment[r].status = "activating" /\ background[r] \notin {"publish", "build"}
      PROVE  ServixInv'
  <2>1. /\ deployment'[r].status = st /\ deployment'[r].origin = deployment[r].origin
        /\ \A q \in Servix!Runs : q # r => deployment'[q] = deployment[q]
    BY <1>0, <1>3, <1>5, Marked
  <2>2. CASE st = "failed"
    <3>1. Early(r) /\ Blank(r) /\ ~Holds(r)'
      BY <1>0, <1>5, <2>1, <2>2 DEF DeploymentFacts, Holds, Flying
    <3>2. DeploymentFacts(r)'
      BY <1>1, <1>5, <2>1, <2>2, <3>1 DEF DeploymentFacts, Blank
    <3> QED BY <1>1, <1>5, <2>1, <3>1, <3>2, StoreMoves
  <2>3. CASE st = "recovery-required"
    <3>1. Flying(r) /\ Holds(r) /\ Flying(r)' /\ ~Early(r)'
      BY <1>5, <2>1, <2>3 DEF Flying, Holds, Early
    <3>2. DeploymentFacts(r)'
      BY <1>0, <1>1, <1>5, <2>1, <2>3, <3>1 DEF DeploymentFacts, Blank
    <3> QED BY <1>1, <1>5, <2>1, <3>1, <3>2, StoreMoves
  <2> QED BY <2>2, <2>3
<1>6. CASE outcomes[r] = "none"
  <2>1. /\ Servix!Mark(r, Servix!Interrupted(r)) /\ UNCHANGED succeeded
        /\ r \in overdue \/ (deployment[r].status # "activating" /\ background[r] = "none")
    BY <1>6 DEF Servix!Reconcile
  <2>2. CASE deployment[r].status = "activating"
    <3>1. background[r] \notin {"publish", "build"}
      BY <1>0, <2>2 DEF DeploymentFacts
    <3>2. Servix!Mark(r, "recovery-required")
      BY <2>1, <2>2 DEF Servix!Interrupted
    <3> QED BY <1>5, <2>1, <2>2, <3>1, <3>2
  <2>3. CASE deployment[r].status # "activating"
    <3>1. Early(r)
      BY <1>1, <2>3 DEF Early
    <3>2. Servix!Mark(r, "failed")
      BY <2>1, <2>3 DEF Servix!Interrupted
    <3> QED BY <1>5, <2>1, <3>1, <3>2
  <2> QED BY <2>2, <2>3
<1>7. CASE outcomes[r] = "recovery-required"
  <2>1. Servix!Mark(r, "recovery-required") /\ UNCHANGED succeeded
    BY <1>7 DEF Servix!Reconcile
  <2>2. deployment[r].status = "activating" /\ background[r] \notin {"publish", "build"}
    BY <1>4, <1>7
  <2> QED BY <1>5, <2>1, <2>2
<1>8. CASE outcomes[r] = "succeeded"
  <2>1. Servix!Mark(r, "succeeded") /\ succeeded' = Append(succeeded, r)
    BY <1>8 DEF Servix!Reconcile
  <2>2. /\ deployment'[r].status = "succeeded" /\ deployment'[r].origin = deployment[r].origin
        /\ \A q \in Servix!Runs : q # r => deployment'[q] = deployment[q]
        /\ \A q \in Servix!Runs : deployment'[q].origin = deployment[q].origin
    BY <1>0, <1>3, <2>1, Marked
  <2>3. /\ Flying(r) /\ background[r] = "none" /\ approvals[r] = "none" /\ runner.of # r
        /\ claims[r] = "approval"
    BY <1>0, <1>4, <1>8 DEF DeploymentFacts
  <2>4. reports[r] = "pass" /\ pointer = r /\ release = Servix!Origin(r) /\ task = "up"
    BY <1>0, <1>8, <2>3 DEF InstalledFacts
  <2>5. ~Flying(r)' /\ ~Holds(r)' /\ ~Early(r)'
    BY <2>2 DEF Flying, Holds, Early
  <2>6. ASSUME NEW q \in Servix!Runs, q # r
        PROVE  Flying(q)' = Flying(q) /\ Early(q)' = Early(q) /\ Holds(q)' = Holds(q) /\ ~Flying(q)
    <3>1. deployment'[q] = deployment[q]
      BY <2>2, <2>6
    <3>2. ~Flying(q)
      BY <1>0, <2>3, <2>6, OneFlies
    <3> QED BY <1>1, <3>1, <3>2 DEF Flying, Early, Holds
  <2>7. ASSUME NEW q \in {0} \cup Servix!Runs PROVE Servix!Origin(q)' = Servix!Origin(q)
    BY <2>2, <2>7 DEF Servix!Origin
  <2>8. Servix!Current' = r
    <3>1. /\ succeeded' # <<>> /\ Len(succeeded') = Len(succeeded) + 1
          /\ succeeded'[Len(succeeded) + 1] = r
      BY <1>0, <2>1 DEF ServixTypes
    <3> QED BY <3>1 DEF Servix!Current, Servix!Last
  <2>9. ASSUME NEW q \in Servix!Runs PROVE DeploymentFacts(q)'
    <3>1. CASE q = r
      BY <1>0, <1>1, <2>3, <2>5, <3>1 DEF DeploymentFacts
    <3>2. CASE q # r
      <4>1. deployment'[q] = deployment[q]
        BY <2>2, <3>2
      <4> QED BY <1>0, <1>1, <2>6, <3>2, <4>1 DEF DeploymentFacts, Blank
    <3> QED BY <3>1, <3>2
  <2>10. OneHolds'
    BY <1>0, <2>5, <2>6 DEF OneHolds
  <2>11. runner.of = 0 /\ target.of = 0
    <3>1. runner.of \in {0} \cup Servix!Runs /\ target.of \in {0} \cup Servix!Runs
      BY <1>0 DEF ServixTypes, RunnerRecord, TargetRecord
    <3>2. target.of # r
      BY <1>0, <2>4 DEF TargetFacts
    <3> QED BY <1>0, <2>3, <2>6, <3>1, <3>2 DEF RunnerFacts, TargetFacts
  <2>12. RunnerFacts' /\ TargetFacts'
    BY <1>0, <1>1, <2>11 DEF RunnerFacts, TargetFacts
  <2>13. InstalledFacts'
    BY <1>1, <2>2, <2>4, <2>5, <2>6, <2>7, <2>8 DEF InstalledFacts
  <2> QED BY <2>9, <2>10, <2>12, <2>13 DEF ServixInv
<1> QED BY <1>2, <1>6, <1>7, <1>8

(* Time passes, or the control plane stops.                                *)
LEMMA ControllerRests ==
  ASSUME ServixInv, ServixTypes',
         (\E r \in Servix!Runs : Servix!Expire(r)) \/ Servix!ControllerStops
  PROVE  ServixInv'
<1> USE DEF Servix!store, Servix!controller, Servix!private, Servix!destination
<1>0. /\ ServixTypes /\ OneHolds /\ RunnerFacts /\ TargetFacts /\ InstalledFacts
      /\ \A q \in Servix!Runs : DeploymentFacts(q)
  BY DEF ServixInv
<1>1. /\ UNCHANGED <<deployment, succeeded, approvals, claims, outcomes, reports, runner, target,
                     release, task, pointer>>
      /\ overdue \subseteq overdue'
      /\ \A q \in Servix!Runs : background'[q] = background[q] \/ background'[q] = "none"
  BY DEF Servix!Expire, Servix!ControllerStops
<1>2. \A q : Flying(q)' = Flying(q) /\ Early(q)' = Early(q) /\ (Holds(q)' => Holds(q))
  BY <1>1 DEF Flying, Early, Holds
<1>3. OneHolds'
  BY <1>0, <1>2 DEF OneHolds
<1>4. Servix!Current' = Servix!Current /\ \A q : Servix!Origin(q)' = Servix!Origin(q)
  BY <1>1 DEF Servix!Current, Servix!Origin
<1>5. ASSUME NEW q \in Servix!Runs PROVE DeploymentFacts(q)'
  BY <1>0, <1>1, <1>2 DEF DeploymentFacts, Blank
<1>6. RunnerFacts' /\ TargetFacts'
  BY <1>0, <1>1, <1>2, <1>4 DEF RunnerFacts, TargetFacts
<1>7. InstalledFacts'
  BY <1>0, <1>1, <1>2, <1>4 DEF InstalledFacts
<1> QED BY <1>3, <1>5, <1>6, <1>7 DEF ServixInv

(* A step of the runner, or of the operator on the target, that keeps what *)
(* is known of each deployment.                                            *)
LEMMA ActivationMoves ==
  ASSUME ServixInv, ServixTypes', UNCHANGED <<deployment, succeeded, overdue>>,
         \A q \in Servix!Runs : DeploymentFacts(q)', RunnerFacts', TargetFacts', InstalledFacts'
  PROVE  ServixInv'
BY StoreStays DEF ServixInv

(* The runner claims an approval, and its process stops or starts again.   *)
LEMMA RunnerTakesUp ==
  ASSUME ServixInv, ServixTypes',
         \/ (\E r \in Servix!Runs : Servix!Claim(r)) \/ Servix!CopyApproval
         \/ Servix!RunnerStops \/ Servix!RunnerStarts
  PROVE  ServixInv'
<1> USE DEF Servix!store, Servix!controller, Servix!private, Servix!destination
<1>0. /\ ServixTypes /\ OneHolds /\ RunnerFacts /\ TargetFacts /\ InstalledFacts
      /\ \A q \in Servix!Runs : DeploymentFacts(q) /\ q # 0
  BY ServixRuns DEF ServixInv
<1>1. /\ UNCHANGED <<deployment, succeeded, overdue, background, reports, target, release, task,
                     pointer>>
  BY DEF Servix!Claim, Servix!CopyApproval, Servix!RunnerStops, Servix!RunnerStarts
<1>2. /\ \A q : Flying(q)' = Flying(q) /\ Early(q)' = Early(q)
      /\ \A q : Servix!Origin(q)' = Servix!Origin(q)
      /\ Servix!Current' = Servix!Current
  BY <1>0, <1>1, StoreStays
<1>3. TargetFacts'
  BY <1>0, <1>1, <1>2 DEF TargetFacts
<1>4. ASSUME \A q \in Servix!Runs : Flying(q) /\ outcomes'[q] = "succeeded" => outcomes[q] = "succeeded"
      PROVE  InstalledFacts'
  BY <1>0, <1>1, <1>2, <1>4 DEF InstalledFacts
<1>5. ASSUME NEW r \in Servix!Runs, Servix!Claim(r) PROVE ServixInv'
  <2>1. /\ approvals[r] # "none" /\ claims[r] = "none" /\ claims'[r] = "empty"
        /\ \A q \in Servix!Runs : q # r => claims'[q] = claims[q]
        /\ runner'.step = "copy" /\ runner'.of = r /\ UNCHANGED <<approvals, outcomes>>
    BY <1>0, <1>5 DEF ServixTypes, Servix!Claim, Servix!Claimed
  <2>2. Flying(r) /\ ~Early(r) /\ reports[r] = "none" /\ target.of # r /\ outcomes[r] = "none"
    BY <1>0, <2>1 DEF DeploymentFacts, Blank
  <2>3. ASSUME NEW q \in Servix!Runs PROVE DeploymentFacts(q)'
    BY <1>0, <1>1, <1>2, <2>1, <2>2 DEF DeploymentFacts, Blank
  <2>4. RunnerFacts'
    BY <1>0, <1>1, <1>2, <2>1, <2>2 DEF RunnerFacts
  <2> QED BY <1>1, <1>3, <1>4, <2>1, <2>3, <2>4, ActivationMoves
<1>6. CASE Servix!CopyApproval /\ approvals[runner.of] = "whole"
  <2>0. PICK r \in Servix!Runs : runner.of = r
    BY <1>0, <1>6 DEF ServixTypes, RunnerRecord, RunnerFacts, Servix!CopyApproval, Servix!Does
  <2>1. Servix!Go("check") /\ runner.step = "copy" /\ UNCHANGED outcomes
    BY <1>6 DEF Servix!CopyApproval, Servix!Does
  <2>2. runner'.step = "check" /\ runner'.of = r
    BY <1>0, <2>0, <2>1, RunnerGoes DEF RunnerSteps
  <2>3. /\ claims'[r] = "approval" /\ approvals'[r] = "none"
        /\ \A q \in Servix!Runs : q # r => claims'[q] = claims[q] /\ approvals'[q] = approvals[q]
    BY <1>0, <1>6, <2>0 DEF ServixTypes, Servix!CopyApproval, Servix!Claimed
  <2>4. /\ Flying(r) /\ ~Early(r) /\ background[r] = "none" /\ claims[r] = "empty" /\ outcomes[r] = "none"
        /\ reports[r] = "none" /\ target.of # r
    BY <1>0, <1>6, <2>0, <2>1 DEF DeploymentFacts, Blank, RunnerFacts
  <2>5. ASSUME NEW q \in Servix!Runs PROVE DeploymentFacts(q)'
    <3>1. CASE q = r
      BY <1>1, <1>2, <2>1, <2>2, <2>3, <2>4, <3>1 DEF DeploymentFacts, Blank
    <3>2. CASE q # r
      BY <1>0, <1>1, <1>2, <2>1, <2>2, <2>3, <3>2 DEF DeploymentFacts, Blank
    <3> QED BY <3>1, <3>2
  <2>6. RunnerFacts'
    BY <1>0, <1>1, <1>2, <2>2, <2>3, <2>4 DEF RunnerFacts
  <2> QED BY <1>1, <1>3, <1>4, <2>1, <2>5, <2>6, ActivationMoves
<1>7. ASSUME runner'.step \in {"none", "stopped"}, runner'.of = 0, UNCHANGED <<approvals, claims>>,
             \A q \in Servix!Runs :
               outcomes'[q] = outcomes[q] \/ (outcomes'[q] = "recovery-required" /\ claims[q] = "approval")
      PROVE  ServixInv'
  <2>1. ASSUME NEW q \in Servix!Runs PROVE DeploymentFacts(q)'
    <3>1. \/ outcomes'[q] = outcomes[q]
          \/ outcomes'[q] = "recovery-required" /\ claims[q] = "approval" /\ ~Early(q)
      BY <1>0, <1>7 DEF DeploymentFacts, Blank
    <3> QED BY <1>0, <1>1, <1>2, <1>7, <3>1 DEF DeploymentFacts, Blank
  <2>2. RunnerFacts'
    BY <1>7 DEF RunnerFacts
  <2>3. \A q \in Servix!Runs : Flying(q) /\ outcomes'[q] = "succeeded" => outcomes[q] = "succeeded"
    BY <1>7
  <2> QED BY <1>1, <1>3, <1>4, <2>1, <2>2, <2>3, ActivationMoves
<1>8. CASE \/ (Servix!CopyApproval /\ approvals[runner.of] # "whole")
           \/ Servix!RunnerStops
  <2>1. /\ runner' = [Servix!NoWork EXCEPT !.step = "stopped"] /\ UNCHANGED <<approvals, claims, outcomes>>
    BY <1>8 DEF Servix!CopyApproval, Servix!RunnerStops
  <2>2. runner'.step \in {"none", "stopped"} /\ runner'.of = 0
    BY <2>1, RunnerRests
  <2> QED BY <1>7, <2>1, <2>2
<1>9. CASE Servix!RunnerStarts
  <2>1. /\ runner' = Servix!NoWork /\ UNCHANGED <<approvals, claims>>
        /\ outcomes' = [r \in Servix!Runs |-> IF claims[r] = "approval" /\ outcomes[r] = "none"
                                              THEN "recovery-required" ELSE outcomes[r]]
    BY <1>9 DEF Servix!RunnerStarts
  <2>2. runner'.step \in {"none", "stopped"} /\ runner'.of = 0
    BY <2>1, RunnerRests
  <2>3. \A q \in Servix!Runs :
           outcomes'[q] = outcomes[q] \/ (outcomes'[q] = "recovery-required" /\ claims[q] = "approval")
    BY <2>1
  <2> QED BY <1>7, <2>1, <2>2, <2>3
<1> QED BY <1>5, <1>6, <1>8, <1>9

(* The runner carries an activation out.                                   *)
LEMMA RunnerSteadies ==
  ASSUME ServixInv, ServixTypes',
         \/ Servix!CheckApproval \/ Servix!Send \/ Servix!Await \/ Servix!PublishRelease
         \/ Servix!WriteResult
  PROVE  ServixInv'
<1> USE DEF Servix!store, Servix!controller, Servix!private, Servix!destination
<1>0. /\ ServixTypes /\ OneHolds /\ RunnerFacts /\ TargetFacts /\ InstalledFacts
      /\ \A q \in Servix!Runs : DeploymentFacts(q) /\ q # 0
  BY ServixRuns DEF ServixInv
<1>1. /\ UNCHANGED <<deployment, succeeded, overdue, background, approvals, claims, reports, release,
                     task>>
      /\ runner.step \in {"check", "send", "await", "publish", "result"}
  BY DEF Servix!CheckApproval, Servix!Send, Servix!Await, Servix!PublishRelease,
     Servix!WriteResult,
     Servix!Does
<1>2. /\ \A q : Flying(q)' = Flying(q) /\ Early(q)' = Early(q)
      /\ \A q : Servix!Origin(q)' = Servix!Origin(q)
      /\ Servix!Current' = Servix!Current
  BY <1>0, <1>1, StoreStays
<1>3. PICK r \in Servix!Runs : runner.of = r
  BY <1>0, <1>1 DEF ServixTypes, RunnerRecord, RunnerFacts
<1>4. /\ Flying(r) /\ ~Early(r) /\ claims[r] = "approval" /\ approvals[r] = "none"
      /\ background[r] = "none" /\ outcomes[r] = "none"
  BY <1>0, <1>1, <1>3 DEF RunnerFacts, DeploymentFacts, Blank
<1>5. \A q \in Servix!Runs : q # r => ~Flying(q)
  BY <1>0, <1>4, OneFlies
<1>6. ASSUME Servix!Uncertain(r), UNCHANGED <<target, pointer>> PROVE ServixInv'
  <2>1. /\ runner'.step \in {"none", "stopped"} /\ runner'.of = 0
        /\ outcomes'[r] = "recovery-required"
        /\ \A q \in Servix!Runs : q # r => outcomes'[q] = outcomes[q]
    BY <1>0, <1>6, RunnerRests DEF ServixTypes, Servix!Uncertain
  <2>2. ASSUME NEW q \in Servix!Runs PROVE DeploymentFacts(q)'
    BY <1>0, <1>1, <1>2, <1>4, <1>6, <2>1 DEF DeploymentFacts, Blank
  <2>3. RunnerFacts'
    BY <2>1 DEF RunnerFacts
  <2>4. TargetFacts'
    BY <1>0, <1>1, <1>2, <1>6 DEF TargetFacts
  <2>5. InstalledFacts'
    BY <1>0, <1>1, <1>2, <1>6, <2>1 DEF InstalledFacts
  <2> QED BY <1>1, <2>2, <2>3, <2>4, <2>5, ActivationMoves
<1>7. CASE Servix!CheckApproval /\ Servix!Go("send") /\ UNCHANGED outcomes
  <2>1. runner'.step = "send" /\ runner'.of = r /\ runner.step = "check" /\ UNCHANGED <<target, pointer>>
    BY <1>0, <1>3, <1>7, RunnerGoes DEF RunnerSteps, Servix!CheckApproval, Servix!Does
  <2>2. ASSUME NEW q \in Servix!Runs PROVE DeploymentFacts(q)'
    BY <1>0, <1>1, <1>2, <1>3, <1>7, <2>1 DEF DeploymentFacts, Blank
  <2>3. RunnerFacts'
    BY <1>0, <1>1, <1>2, <1>3, <2>1 DEF RunnerFacts
  <2>4. TargetFacts' /\ InstalledFacts'
    BY <1>0, <1>1, <1>2, <1>7, <2>1 DEF TargetFacts, InstalledFacts
  <2> QED BY <1>1, <2>2, <2>3, <2>4, ActivationMoves
<1>8. CASE Servix!Send /\ Servix!Go("await") /\ UNCHANGED outcomes
  <2>1. /\ runner'.step = "await" /\ runner'.of = r /\ runner.step = "send" /\ UNCHANGED pointer
    BY <1>0, <1>3, <1>8, RunnerGoes DEF RunnerSteps, Servix!Send, Servix!Does
  <2>2. target.step = "idle" /\ target'.step = "verify" /\ target'.of = r
    BY <1>3, <1>8, <2>1 DEF Servix!Send, Servix!Uncertain, Servix!NoWork
  <2>3. reports[r] = "none"
    BY <1>0, <1>3, <2>1 DEF RunnerFacts
  <2>4. ASSUME NEW q \in Servix!Runs PROVE DeploymentFacts(q)'
    BY <1>0, <1>1, <1>2, <1>3, <1>4, <1>8, <2>1, <2>2 DEF DeploymentFacts, Blank
  <2>5. RunnerFacts'
    BY <1>0, <1>1, <1>2, <1>4, <2>1 DEF RunnerFacts
  <2>6. TargetFacts'
    BY <1>0, <1>1, <1>2, <1>4, <2>2, <2>3 DEF TargetFacts
  <2>7. InstalledFacts'
    BY <1>0, <1>1, <1>2, <1>8, <2>1 DEF InstalledFacts
  <2> QED BY <1>1, <2>4, <2>5, <2>6, <2>7, ActivationMoves
<1>9. CASE Servix!Await /\ Servix!Go("publish") /\ UNCHANGED outcomes
  <2>1. /\ runner'.step = "publish" /\ runner'.of = r /\ runner.step = "await"
        /\ UNCHANGED <<target, pointer>>
    BY <1>0, <1>3, <1>9, RunnerGoes DEF RunnerSteps, Servix!Await, Servix!Does
  <2>2. reports[r] = "pass"
    BY <1>3, <1>9, <2>1 DEF Servix!Await, Servix!Uncertain, Servix!NoWork
  <2>3. ASSUME NEW q \in Servix!Runs PROVE DeploymentFacts(q)'
    BY <1>0, <1>1, <1>2, <1>3, <1>9, <2>1 DEF DeploymentFacts, Blank
  <2>4. RunnerFacts'
    BY <1>0, <1>1, <1>2, <1>4, <2>1, <2>2 DEF RunnerFacts
  <2>5. TargetFacts' /\ InstalledFacts'
    BY <1>0, <1>1, <1>2, <1>9, <2>1 DEF TargetFacts, InstalledFacts
  <2> QED BY <1>1, <2>3, <2>4, <2>5, ActivationMoves
<1>10. CASE Servix!PublishRelease /\ Servix!Go("result") /\ UNCHANGED outcomes
  <2>1. /\ runner'.step = "result" /\ runner'.of = r /\ runner.step = "publish" /\ UNCHANGED target
    BY <1>0, <1>3, <1>10, RunnerGoes DEF RunnerSteps, Servix!PublishRelease, Servix!Does
  <2>2. pointer' = r
    BY <1>3, <1>10, <2>1 DEF Servix!PublishRelease, Servix!Uncertain, Servix!NoWork
  <2>3. reports[r] = "pass"
    BY <1>0, <1>3, <2>1 DEF RunnerFacts
  <2>4. ASSUME NEW q \in Servix!Runs PROVE DeploymentFacts(q)'
    BY <1>0, <1>1, <1>2, <1>3, <1>10, <2>1 DEF DeploymentFacts, Blank
  <2>5. RunnerFacts'
    BY <1>0, <1>1, <1>2, <1>4, <2>1, <2>2, <2>3 DEF RunnerFacts
  <2>6. TargetFacts'
    BY <1>0, <1>1, <1>2, <2>1 DEF TargetFacts
  <2>7. InstalledFacts'
    BY <1>0, <1>1, <1>2, <1>4, <1>5, <1>10, <2>2 DEF InstalledFacts
  <2> QED BY <1>1, <2>4, <2>5, <2>6, <2>7, ActivationMoves
<1>11. CASE Servix!WriteResult
  <2>1. /\ runner' = Servix!NoWork /\ outcomes' = [outcomes EXCEPT ![runner.of] = "succeeded"]
        /\ runner.step = "result" /\ UNCHANGED <<target, pointer>>
    BY <1>11 DEF Servix!WriteResult, Servix!Does
  <2>2. /\ runner'.step \in {"none", "stopped"} /\ runner'.of = 0
        /\ outcomes'[r] = "succeeded"
        /\ \A q \in Servix!Runs : q # r => outcomes'[q] = outcomes[q]
    BY <1>0, <1>3, <2>1, RunnerRests DEF ServixTypes
  <2>3. reports[r] = "pass" /\ pointer = r
    BY <1>0, <1>3, <2>1 DEF RunnerFacts
  <2>4. ASSUME NEW q \in Servix!Runs PROVE DeploymentFacts(q)'
    BY <1>0, <1>1, <1>2, <1>4, <2>1, <2>2 DEF DeploymentFacts, Blank
  <2>5. RunnerFacts'
    BY <2>2 DEF RunnerFacts
  <2>6. TargetFacts'
    BY <1>0, <1>1, <1>2, <2>1 DEF TargetFacts
  <2>7. InstalledFacts'
    BY <1>0, <1>1, <1>2, <1>4, <1>5, <2>1, <2>2, <2>3 DEF InstalledFacts
  <2> QED BY <1>1, <2>4, <2>5, <2>6, <2>7, ActivationMoves
<1> QED
  <2>1. \/ Servix!Uncertain(r) /\ UNCHANGED <<target, pointer>>
        \/ Servix!CheckApproval /\ Servix!Go("send") /\ UNCHANGED outcomes
        \/ Servix!Send /\ Servix!Go("await") /\ UNCHANGED outcomes
        \/ Servix!Await /\ Servix!Go("publish") /\ UNCHANGED outcomes
        \/ Servix!PublishRelease /\ Servix!Go("result") /\ UNCHANGED outcomes
        \/ Servix!WriteResult
    BY <1>3 DEF Servix!CheckApproval, Servix!Send, Servix!Await, Servix!PublishRelease
  <2> QED BY <1>6, <1>7, <1>8, <1>9, <1>10, <1>11, <2>1

(* The operator on the target replaces the release, or puts back the one   *)
(* of before, or is stopped.                                               *)
LEMMA OperatorSteady ==
  ASSUME ServixInv, ServixTypes', Servix!Operator \/ Servix!TargetStops
  PROVE  ServixInv'
<1> USE DEF Servix!store, Servix!controller, Servix!private, Servix!destination
<1>0. /\ ServixTypes /\ OneHolds /\ RunnerFacts /\ TargetFacts /\ InstalledFacts
      /\ \A q \in Servix!Runs : DeploymentFacts(q) /\ q # 0
  BY ServixRuns DEF ServixInv
<1>1. /\ UNCHANGED <<deployment, succeeded, overdue, background, approvals, claims, outcomes, runner,
                     pointer>>
      /\ target.step # "idle"
  BY DEF Servix!Operator, Servix!Verify, Servix!StopTask, Servix!CopyFiles, Servix!StartTask,
     Servix!Recover, Servix!TargetStops, Servix!OnTarget
<1>2. /\ \A q : Flying(q)' = Flying(q) /\ Early(q)' = Early(q)
      /\ \A q : Servix!Origin(q)' = Servix!Origin(q)
      /\ Servix!Current' = Servix!Current
  BY <1>0, <1>1, StoreStays
<1>3. PICK r \in Servix!Runs : target.of = r
  BY <1>0, <1>1 DEF ServixTypes, TargetRecord, TargetFacts
<1>4. Flying(r) /\ ~Early(r) /\ reports[r] = "none" /\ claims[r] # "none"
  BY <1>0, <1>3 DEF TargetFacts, DeploymentFacts, Blank
<1>5. /\ \A q \in Servix!Runs : q # r => ~Flying(q)
      /\ outcomes[r] # "succeeded"
      /\ runner.step \notin {"copy", "check", "send", "publish", "result"}
  <2>1. \A q \in Servix!Runs : q # r => ~Flying(q)
    BY <1>0, <1>4, OneFlies
  <2>2. outcomes[r] # "succeeded"
    BY <1>0, <1>4 DEF InstalledFacts
  <2>3. runner.of = 0 \/ runner.of = r
    BY <1>0, <2>1 DEF ServixTypes, RunnerRecord, RunnerFacts
  <2>4. runner.step \notin {"copy", "check", "send", "publish", "result"}
    BY <1>0, <1>3, <1>4, <2>3 DEF RunnerFacts
  <2> QED BY <2>1, <2>2, <2>4
<1>6. ASSUME NEW st \in {"verify", "stop", "copy", "start", "recover"}, Servix!Turn(st),
             UNCHANGED reports, st = "start" => release' = Servix!Origin(r)
      PROVE  ServixInv'
  <2>1. target'.step = st /\ target'.of = r
    BY <1>0, <1>3, <1>6, OperatorTurns DEF OperatorSteps
  <2>2. ASSUME NEW q \in Servix!Runs PROVE DeploymentFacts(q)'
    BY <1>0, <1>1, <1>2, <1>3, <1>6, <2>1 DEF DeploymentFacts, Blank
  <2>3. RunnerFacts'
    BY <1>0, <1>1, <1>2, <1>3, <1>6, <2>1 DEF RunnerFacts
  <2>4. TargetFacts'
    BY <1>0, <1>2, <1>4, <1>6, <2>1 DEF TargetFacts
  <2>5. InstalledFacts'
    BY <1>0, <1>1, <1>2, <1>4, <1>5, <1>6 DEF InstalledFacts
  <2> QED BY <1>1, <2>2, <2>3, <2>4, <2>5, ActivationMoves
<1>7. ASSUME target' = Servix!AtRest,
             UNCHANGED reports \/ (\E rep \in {"pass", "fail"} : reports' = [reports EXCEPT ![r] = rep]),
             reports'[r] = "pass" => release' = Servix!Origin(r) /\ task' = "up"
      PROVE  ServixInv'
  <2>1. target'.step = "idle" /\ target'.of = 0
    BY <1>7, OperatorRests
  <2>2. \A q \in Servix!Runs : q # r => reports'[q] = reports[q]
    BY <1>0, <1>7 DEF ServixTypes
  <2>3. ASSUME NEW q \in Servix!Runs PROVE DeploymentFacts(q)'
    <3>1. CASE q = r
      BY <1>0, <1>1, <1>2, <1>4, <3>1 DEF DeploymentFacts, Blank
    <3>2. CASE q # r
      BY <1>0, <1>1, <1>2, <2>1, <2>2, <3>2 DEF DeploymentFacts, Blank
    <3> QED BY <3>1, <3>2
  <2>4. RunnerFacts'
    BY <1>0, <1>1, <1>2, <1>5 DEF RunnerFacts
  <2>5. TargetFacts'
    BY <2>1 DEF TargetFacts
  <2>6. InstalledFacts'
    BY <1>0, <1>1, <1>2, <1>4, <1>5, <1>7, <2>2 DEF InstalledFacts
  <2> QED BY <1>1, <2>3, <2>4, <2>5, <2>6, ActivationMoves
<1>8. ASSUME NEW rep \in {"pass", "fail"}, Servix!Answer(rep),
             rep = "pass" => release' = Servix!Origin(r) /\ task' = "up"
      PROVE  ServixInv'
  <2>1. target' = Servix!AtRest /\ reports' = [reports EXCEPT ![r] = rep]
    BY <1>3, <1>8 DEF Servix!Answer
  <2>2. reports'[r] = rep
    BY <1>0, <2>1 DEF ServixTypes
  <2> QED BY <1>7, <1>8, <2>1, <2>2
<1>9. CASE Servix!Verify
  <2>1. (Servix!Turn("stop") /\ UNCHANGED reports) \/ Servix!Answer("fail")
    BY <1>9 DEF Servix!Verify
  <2> QED BY <1>6, <1>8, <2>1
<1>10. CASE Servix!StopTask
  BY <1>6, <1>10 DEF Servix!StopTask
<1>11. CASE Servix!CopyFiles
  <2>1. /\ UNCHANGED reports
        /\ \/ Servix!Turn("copy") \/ Servix!Turn("recover")
           \/ Servix!Turn("start") /\ release' = Servix!Origin(r)
    BY <1>3, <1>11 DEF Servix!CopyFiles
  <2> QED BY <1>6, <2>1
<1>12. CASE Servix!StartTask
  <2>1. \/ Servix!Turn("recover") /\ UNCHANGED reports
        \/ Servix!Answer("pass") /\ task' = "up" /\ release' = release
    BY <1>12 DEF Servix!StartTask
  <2>2. release = Servix!Origin(r)
    BY <1>0, <1>3, <1>12 DEF TargetFacts, Servix!StartTask, Servix!OnTarget
  <2> QED BY <1>6, <1>8, <2>1, <2>2
<1>13. CASE Servix!Recover
  BY <1>8, <1>13 DEF Servix!Recover
<1>14. CASE Servix!TargetStops
  <2>1. target' = Servix!AtRest /\ UNCHANGED reports
    BY <1>14 DEF Servix!TargetStops
  <2> QED BY <1>4, <1>7, <2>1
<1> QED BY <1>9, <1>10, <1>11, <1>12, <1>13, <1>14 DEF Servix!Operator

--------------------------------------------------------------------------------
(* What there may be one of.                                               *)

(* A set whose members are all the same has one at most.                   *)
LEMMA OneAtMost ==
  ASSUME NEW S, \A x, y \in S : x = y
  PROVE  Cardinality(S) <= 1
<1>1. CASE S = {}
  BY <1>1, FS_EmptySet
<1>2. CASE S # {}
  <2>1. PICK x \in S : S = {x}
    BY <1>2
  <2>2. Cardinality({x}) = 1
    BY FS_Singleton
  <2> QED BY <2>1, <2>2
<1> QED BY <1>1, <1>2
================================================================================
