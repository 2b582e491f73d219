---------------------------- MODULE FolderRequests ------------------------------
(***************************************************************************)
(* What a member of a workspace may ask of a machine at a distance: to     *)
(* browse a folder, to search the folders of a project, and to preview one *)
(* file with the consent of whoever sits there (the jobs fb_, fd_ and cp_  *)
(* of apps/control-plane/src/system-discovery.ts and                       *)
(* project-folder-search.ts; the ticks of                                  *)
(* deployment/servix/SystemDiscovery.cjs; FolderBrowse.cjs).               *)
(*                                                                         *)
(* One device and one member.  A request is a number, in the order they are*)
(* made; a state of the file a preview asks for is a number, and so is the *)
(* set of roots the device reported last.  Each kind of request has a tick *)
(* of its own; nothing is ever handed out twice.                           *)
(***************************************************************************)
EXTENDS Naturals, FiniteSets, FiniteSetsExt

CONSTANTS
  Kinds,       (* of "browse", "search" and "preview"                       *)
  MaxAsks,     (* bound: requests                                           *)
  MaxWrites,   (* bound: changes of the file                                *)
  MaxMoves     (* bound: changes of the roots                               *)

VARIABLES
  asks,        (* fb_*.json, fd_*.json, cp_*.json                           *)
  expired,     (* the requests whose time is over                           *)
  sighted,     (* whether the device was seen in the last thirty seconds    *)
  granted,     (* whether device and member may still use the workspace     *)
  roots,       (* the roots the device reports                              *)
  hand,        (* what the tick of each kind does                           *)
  content,     (* the state of the file                                     *)
  consented,   (* the previews that were allowed at the machine             *)
  opened       (* the previews for which the file was read                  *)

access == <<sighted, granted, roots>>
local  == <<content, consented, opened>>
vars   == <<asks, expired, access, hand, local>>

--------------------------------------------------------------------------------
Asks  == 1 .. MaxAsks
Blank == [status |-> "none", kind |-> "browse", roots |-> 0, after |-> 0, before |-> 0]
Free  == [step |-> "idle", ask |-> 0, status |-> "failed", after |-> 0]

Init ==
  /\ asks = [a \in Asks |-> Blank] /\ expired = {}
  /\ sighted = FALSE /\ granted = TRUE /\ roots = 0
  /\ hand = [k \in Kinds |-> Free] /\ content = 0 /\ consented = {} /\ opened = {}

IsNext(a) == asks[a].status = "none" /\ \A b \in 1 .. a - 1 : asks[b].status # "none"
Open(a)   == asks[a].status \in {"queued", "working"} /\ a \notin expired
OfKind(k) == {a \in Asks : asks[a].kind = k}
Usable    == granted /\ sighted          (* browseDevice                     *)

--------------------------------------------------------------------------------
(* The control plane.                                                      *)

Vacant(k) == \A b \in OfKind(k) : ~Open(b)

(* A request of a kind, with the roots of now.                             *)
Queued(a, k) ==
  /\ k \in Kinds /\ IsNext(a) /\ Usable /\ Vacant(k)
  /\ asks' = [asks EXCEPT ![a] = [Blank EXCEPT !.status = "queued", !.kind = k, !.roots = roots]]
  /\ UNCHANGED <<expired, access, hand, local>>

RequestFolders(a) == Queued(a, "browse")
RequestContent(a) == Queued(a, "preview")
RequestSearch(a)  == Queued(a, "search")

Expire(a) ==
  /\ Open(a)
  /\ expired' = expired \cup {a}
  /\ UNCHANGED <<asks, access, hand, local>>

(* An observation, or its absence; it may report other roots.              *)
Sight ==
  /\ \/ sighted' = ~sighted /\ UNCHANGED roots
     \/ roots < MaxMoves /\ roots' = roots + 1 /\ sighted' = TRUE
  /\ UNCHANGED <<asks, expired, granted, hand, local>>

Withdraw ==
  /\ granted
  /\ granted' = FALSE
  /\ UNCHANGED <<asks, expired, sighted, roots, hand, local>>

(* What is handed out; a search for other roots than those of now is not.  *)
SameScope(a) == asks[a].kind = "search" => asks[a].roots = roots

(* Faulty form of FirstStep: a preview begins with the reading.            *)
FirstStepReads(k) == "reading"
FirstStep(k) == IF k = "preview" THEN "asking" ELSE "reading"
HandOut(k, a) ==
  /\ k \in Kinds /\ hand[k].step = "idle" /\ Usable
  /\ a \in OfKind(k) /\ Open(a) /\ asks[a].status = "queued" /\ SameScope(a)
  /\ asks' = [asks EXCEPT ![a].status = "working"]
  /\ \/ hand' = [hand EXCEPT ![k] = [Free EXCEPT !.step = FirstStep(k), !.ask = a]]
     \/ UNCHANGED hand                     (* the answer is lost            *)
  /\ UNCHANGED <<expired, access, local>>

ClaimFolders(a) == HandOut("browse", a)
ClaimContent(a) == HandOut("preview", a)
ClaimSearch(a)  == HandOut("search", a)

--------------------------------------------------------------------------------
(* The machine.                                                            *)

Answers(k, status) == hand' = [hand EXCEPT ![k].step = "done", ![k].status = status]

(* browse and search look, within the scope as the machine itself sees it. *)
Look(k) ==
  /\ k \in Kinds /\ hand[k].step = "reading"
  /\ \/ hand[k].ask \notin expired /\ Answers(k, "succeeded")
     \/ Answers(k, "failed")
  /\ UNCHANGED <<asks, expired, access, local>>

Browse == Look("browse")
Search == Look("search")

(* preview: a page asks whoever sits there, once, until the request expires*)
(* or the collector stops.                                                 *)
InTime(a) == a \notin expired
Decide ==
  /\ "preview" \in Kinds /\ hand["preview"].step = "asking"
  /\ \/ /\ InTime(hand["preview"].ask)
        /\ consented' = consented \cup {hand["preview"].ask}
        /\ hand' = [hand EXCEPT !["preview"].step = "reading"]
     \/ /\ Answers("preview", "declined") \/ Answers("preview", "failed")
        /\ UNCHANGED consented
  /\ UNCHANGED <<asks, expired, access, content, opened>>

(* It is read after the consent, and its time is checked again afterwards. *)
Preview ==
  /\ "preview" \in Kinds /\ hand["preview"].step = "reading"
  /\ LET a == hand["preview"].ask
     IN \/ /\ opened' = opened \cup {a}
           /\ hand' = [hand EXCEPT !["preview"].step = "done", !["preview"].after = content,
                                   !["preview"].status = IF a \in expired THEN "failed" ELSE "succeeded"]
        \/ Answers("preview", "failed") /\ UNCHANGED opened
  /\ UNCHANGED <<asks, expired, access, content, consented>>

Write ==
  /\ content < MaxWrites
  /\ content' = content + 1
  /\ UNCHANGED <<asks, expired, access, hand, consented, opened>>

(* A tick that ends without an answer: the connector stopped.              *)
Drop(k) ==
  /\ hand[k].step # "idle"
  /\ hand' = [hand EXCEPT ![k] = Free]
  /\ UNCHANGED <<asks, expired, access, local>>

--------------------------------------------------------------------------------
(* What is answered.  A preview is shown with the last that was allowed    *)
(* before it.                                                              *)
Earlier == {a \in OfKind("preview") : asks[a].status = "succeeded"}
LastSeen == IF Earlier = {} THEN 0 ELSE asks[Max(Earlier)].after

Accepts(a) == asks[a].status = "working" /\ a \notin expired /\ Usable /\ SameScope(a)
Told(k) ==
  /\ k \in Kinds /\ hand[k].step = "done"
  /\ LET a == hand[k].ask
     IN \/ /\ Accepts(a)
           /\ asks' = [asks EXCEPT ![a].status = hand[k].status,
                                   ![a].after = IF hand[k].status = "succeeded" THEN hand[k].after ELSE 0,
                                   ![a].before = IF k = "preview" /\ hand[k].status = "succeeded" THEN LastSeen ELSE 0]
        \/ UNCHANGED asks                  (* refused, or never received    *)
  /\ hand' = [hand EXCEPT ![k] = Free]
  /\ UNCHANGED <<expired, access, local>>

FinishFolders  == Told("browse")
FinishContent  == Told("preview")
CompleteSearch == Told("search")

--------------------------------------------------------------------------------
Next ==
  \/ \E a \in Asks :
       \/ RequestFolders(a) \/ RequestContent(a) \/ RequestSearch(a) \/ Expire(a)
       \/ ClaimFolders(a) \/ ClaimContent(a) \/ ClaimSearch(a)
  \/ Sight \/ Withdraw \/ Write
  \/ Browse \/ Search \/ Decide \/ Preview
  \/ FinishFolders \/ FinishContent \/ CompleteSearch
  \/ \E k \in Kinds : Drop(k)

Spec == Init /\ [][Next]_vars

--------------------------------------------------------------------------------
(* Properties.                                                             *)

Ended == {"succeeded", "declined", "failed"}
TypeOK ==
  /\ \A a \in Asks : asks[a].status \in {"none", "queued", "working"} \cup Ended /\ asks[a].kind \in Kinds \cup {"browse"}
  /\ \A k \in Kinds : hand[k].step # "idle" => hand[k].ask \in OfKind(k)

(* "One active request per device" (ADR 0061): of each kind one request at *)
(* a time is open; and none that is over, because it expired or was        *)
(* answered, is changed by an answer that comes late, or a second time, or *)
(* allowed at the machine: "declining, expiry, disconnect ... never        *)
(* authorizes reading" (system-discovery.ts:250-259, 336-343, 505-520,     *)
(* FolderBrowse.cjs:260-265).                                              *)
OneOpenAtATime == \A k \in Kinds : Cardinality({a \in OfKind(k) : Open(a)}) <= 1
OverIsOver ==
  /\ \A a \in Asks : a \in expired \/ asks[a].status \in Ended => asks'[a] = asks[a]
  /\ \A a \in expired : a \in consented' => a \in consented

(* "Approval applies once to that request" (ADR 0061): a file is read for a*)
(* preview only if that very preview was allowed at the machine, and what  *)
(* is shown was read after it; the text shown as that of before is not     *)
(* younger (FolderBrowse.cjs:300-346, system-discovery.ts:312-336).        *)
ReadWithConsent ==
  /\ opened \subseteq consented
  /\ \A a \in OfKind("preview") : asks[a].status = "succeeded" => a \in opened /\ asks[a].before <= asks[a].after
================================================================================
