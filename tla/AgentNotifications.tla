--------------------------- MODULE AgentNotifications ----------------------------
(***************************************************************************)
(* Notices an agent's run may have shown on a member's machine: drafted    *)
(* from a run, approved by the member, handed to the device once and shown *)
(* there with local consent                                                *)
(* (apps/control-plane/src/agent-notifications.ts; notificationTick of     *)
(* deployment/servix/SystemDiscovery.cjs).                                 *)
(*                                                                         *)
(* One member, one device.  A notice ends at most ten minutes after its    *)
(* approval, and a device is approved one notice in an hour.               *)
(***************************************************************************)
EXTENDS Naturals, FiniteSets

CONSTANTS
  Notices,
  MaxCuts      (* bound: stops of the control plane or of the device        *)

VARIABLES
  notices,     (* status of nt_*.json                                       *)
  approvals,   (* the notices whose *.approval.json is on disk              *)
  overdue,     (* the notices whose expiresAt is past                       *)
  lately,      (* the approvals of the last hour                            *)
  sourced,     (* whether the agent still allows notices from the run       *)
  consents,    (* whether whoever sits at the device lets notices be shown  *)
  reported,    (* what the device last reported of it, while that is fresh  *)
  pending,     (* the approval being written                                *)
  toast,       (* what the device does with a notice                        *)
  receiptOf,   (* notification-receipts.json                                *)
  displayed,   (* what was really shown                                     *)
  cuts

server == <<notices, approvals, overdue, lately, pending>>
device == <<toast, receiptOf, displayed>>
vars   == <<server, device, sourced, consents, reported, cuts>>

--------------------------------------------------------------------------------
Rest == [step |-> "idle", of |-> "none", says |-> "declined"]

Init ==
  /\ notices = [n \in Notices |-> "none"] /\ approvals = {} /\ overdue = {} /\ lately = {}
  /\ sourced = TRUE /\ consents = TRUE /\ reported = FALSE /\ pending = {}
  /\ toast = Rest /\ receiptOf = {} /\ displayed = {} /\ cuts = 0

--------------------------------------------------------------------------------
(* The control plane: one request at a time.                               *)

Draft(n) ==
  /\ pending = {} /\ sourced
  /\ notices[n] = "none"
  /\ notices' = [notices EXCEPT ![n] = "draft"]
  /\ UNCHANGED <<approvals, overdue, lately, pending, device, sourced, consents, reported, cuts>>

(* approve: the approval is written under a name of its own, then the      *)
(* notice that carries it.                                                 *)
Limited == lately # {}
WriteApproval(n) ==
  /\ pending = {}
  /\ notices[n] = "draft" /\ n \notin overdue
  /\ reported /\ sourced /\ ~Limited
  /\ n \notin approvals
  /\ approvals' = approvals \cup {n} /\ pending' = {n}
  /\ UNCHANGED <<notices, overdue, lately, device, sourced, consents, reported, cuts>>

Approve(n) ==
  /\ n \in pending
  /\ notices' = [notices EXCEPT ![n] = "queued"]
  /\ lately' = lately \cup {n} /\ overdue' = overdue \ {n} /\ pending' = {}
  /\ UNCHANGED <<approvals, device, sourced, consents, reported, cuts>>

(* claim: the device says whether it may show notices and is handed one    *)
(* that waits, if the agent still allows it; the answer may be lost.       *)
(* Faulty form of Waiting: what was handed out may be handed out again.    *)
WaitingUntilDone(n) == notices[n] \in {"queued", "delivering"} /\ n \notin overdue
Waiting(n) == notices[n] = "queued" /\ n \notin overdue
Hands(n) ==
  /\ notices' = [notices EXCEPT ![n] = "delivering"]
  /\ \/ toast' = [Rest EXCEPT !.step = "given", !.of = n]
     \/ UNCHANGED toast
Claim ==
  /\ pending = {} /\ toast.step = "idle"
  /\ reported' = consents
  /\ \/ /\ consents /\ sourced
        /\ \E n \in Notices : Waiting(n) /\ Hands(n)
     \/ /\ ~consents \/ ~sourced \/ \A n \in Notices : ~Waiting(n)
        /\ UNCHANGED <<notices, toast>>
  /\ UNCHANGED <<approvals, overdue, lately, pending, receiptOf, displayed, sourced, consents, cuts>>

(* complete.                                                               *)
Taken(n) == notices[n] = "delivering" /\ n \notin overdue
Complete ==
  /\ toast.step = "done" /\ pending = {}
  /\ \/ Taken(toast.of) /\ notices' = [notices EXCEPT ![toast.of] = toast.says]
     \/ UNCHANGED notices                      (* refused, or lost           *)
  /\ toast' = Rest
  /\ UNCHANGED <<approvals, overdue, lately, pending, receiptOf, displayed, sourced, consents,
                 reported, cuts>>

--------------------------------------------------------------------------------
(* The device: the receipt is on disk before anything is shown.            *)

Fresh(n) == n \notin receiptOf
Receive ==
  /\ toast.step = "given"
  /\ \/ toast' = Rest /\ UNCHANGED receiptOf           (* over, or unreadable *)
     \/ /\ toast.of \notin overdue
        /\ IF Fresh(toast.of) /\ consents
           THEN /\ receiptOf' = receiptOf \cup {toast.of}
                /\ toast' = [toast EXCEPT !.step = "noted"]
           ELSE toast' = [toast EXCEPT !.step = "done"] /\ UNCHANGED receiptOf
  /\ UNCHANGED <<server, displayed, sourced, consents, reported, cuts>>

Show ==
  /\ toast.step = "noted"
  /\ \/ /\ toast' = [toast EXCEPT !.step = "done", !.says = "display-requested"]
        /\ displayed' = displayed \cup {toast.of}
     \/ /\ toast' = [toast EXCEPT !.step = "done", !.says = "unsupported"]
        /\ displayed' \in {displayed, displayed \cup {toast.of}}    (* shown, then cut short *)
  /\ UNCHANGED <<server, receiptOf, sourced, consents, reported, cuts>>

--------------------------------------------------------------------------------
(* The world.                                                              *)

(* A draft lives for a day, an approved notice for ten minutes: every      *)
(* notice approved in the last hour is over before the hour is.            *)
PassNotice(n) ==
  /\ notices[n] # "none" /\ n \notin overdue
  /\ overdue' = overdue \cup {n}
  /\ UNCHANGED <<notices, approvals, lately, pending, device, sourced, consents, reported, cuts>>

PassHour ==
  /\ lately # {} /\ lately \subseteq overdue
  /\ lately' = {}
  /\ UNCHANGED <<notices, approvals, overdue, pending, device, sourced, consents, reported, cuts>>

(* The agent is saved anew; a run of an earlier revision is no source.     *)
Unsource ==
  /\ sourced
  /\ sourced' = FALSE
  /\ UNCHANGED <<server, device, consents, reported, cuts>>

Consent ==
  /\ consents' = ~consents
  /\ UNCHANGED <<server, device, sourced, reported, cuts>>

Unseen ==
  /\ reported
  /\ reported' = FALSE
  /\ UNCHANGED <<server, device, sourced, consents, cuts>>

Cut ==
  /\ cuts < MaxCuts
  /\ cuts' = cuts + 1
  /\ \/ pending # {} /\ pending' = {} /\ UNCHANGED toast
     \/ toast.step # "idle" /\ toast' = Rest /\ UNCHANGED pending
  /\ UNCHANGED <<notices, approvals, overdue, lately, receiptOf, displayed, sourced, consents, reported>>

Next ==
  \/ \E n \in Notices : Draft(n) \/ WriteApproval(n) \/ Approve(n) \/ PassNotice(n)
  \/ Claim \/ Complete \/ Receive \/ Show
  \/ PassHour \/ Unsource \/ Consent \/ Unseen \/ Cut

Spec == Init /\ [][Next]_vars

--------------------------------------------------------------------------------
TypeOK ==
  /\ notices \in [Notices -> {"none", "draft", "queued", "delivering",
                              "display-requested", "declined", "unsupported"}]
  /\ {approvals, overdue, lately, pending, receiptOf, displayed} \subseteq SUBSET Notices
  /\ toast.step \in {"idle", "given", "noted", "done"} /\ toast.of \in Notices \cup {"none"}
  /\ {sourced, consents, reported} \subseteq BOOLEAN /\ cuts \in 0 .. MaxCuts

(* What the control plane says of a notice is what happened: one whose     *)
(* display was requested was shown, one that was declined or still waits   *)
(* was not - although answers are lost, the device stops and a notice      *)
(* outlives its time                                                       *)
(* (agent-notifications.ts:305-341, SystemDiscovery.cjs:1040-1068).        *)
ReportIsTrue ==
  \A n \in Notices :
    /\ notices[n] = "display-requested" => n \in displayed
    /\ notices[n] \in {"none", "draft", "queued", "declined"} => n \notin displayed

(* A device never has two approved notices that may still be shown, and    *)
(* none is shown that was not approved (agent-notifications.ts:259-268).   *)
OneNoticeAnHour ==
  /\ Cardinality({n \in Notices : notices[n] \in {"queued", "delivering"} /\ n \notin overdue}) <= 1
  /\ displayed \subseteq approvals

(* A notice whose time is over is not touched again                        *)
(* (agent-notifications.ts:312, 338).                                      *)
OverdueIsOver ==
  \A n \in overdue : notices[n] \in {"queued", "delivering"} => notices'[n] = notices[n]
================================================================================
