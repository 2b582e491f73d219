--------------------------- MODULE SourcePublication ---------------------------
(***************************************************************************)
(* Source publication: the requests, bundles and folder selections that    *)
(* the control plane keeps (developer-connectors.ts), the central          *)
(* repository (component-git.ts), and the connectors on the developer      *)
(* systems (deployment/servix/Connector.cjs) that commit a checkout and    *)
(* upload it.                                                              *)
(*                                                                         *)
(* A commit is the sequence of publications in its history, so that one    *)
(* commit is an ancestor of another when it is a prefix of it.  A checkout *)
(* may start with a commit of its developer's, named by the device.        *)
(***************************************************************************)
EXTENDS Naturals, Sequences, SequencesExt

CONSTANTS
  Requests, Devices, Folders, None,
  Noted,         (* the requests that carry a change record                 *)
  Ahead,         (* the devices whose checkout starts with its own commit   *)
  MaxSelections, (* bound: folder selections asked for                      *)
  MaxStops,      (* bound: times a connector is stopped                     *)
  MaxRestarts    (* bound: times the control plane is restarted             *)

VARIABLES
  source,    (* the request records sd_*.source.json                        *)
  bundles,   (* the requests whose bundle file is taken                     *)
  central,   (* the central ref                                             *)
  awaited,   (* the requests whose run waits for them, and whose ten minutes*)
             (* have not passed                                             *)
  revoked,   (* the devices that were revoked                               *)
  presence,  (* what each device's last heartbeat told, and how long ago    *)
  selection, (* the folder selection of each device                         *)
  asked,     (* folder selections so far                                    *)
  restarts,  (* restarts of the control plane so far                        *)
  worker,    (* what each connector is doing                                *)
  claimed,   (* the claim files of each connector                           *)
  folder,    (* the checkout each connector is configured with              *)
  local,     (* the local head of each checkout                             *)
  stops      (* stops of connectors so far                                  *)

records   == <<source, bundles, central>>
devices   == <<revoked, presence>>
choice    == <<selection, asked>>
server    == <<records, awaited, devices, choice, restarts>>
connector == <<worker, claimed, folder, local, stops>>
vars      == <<server, connector>>

--------------------------------------------------------------------------------
Pending  == {"queued", "choosing"}

(* A heartbeat shows a checkout that passed inspection, or none; it is good*)
(* for twenty seconds; what the device can do is known until a restart.    *)
Presence == {"shown", "blank", "stale", "lost"}
Online   == {d \in Devices : presence[d] \in {"shown", "blank"}} \ revoked
Capable  == {d \in Devices : presence[d] # "lost"} \ revoked

NoSource    == [status |-> "none", device |-> None, base |-> <<>>, head |-> <<>>]
NoSelection == [status |-> "none", nth |-> 0, folder |-> None]
Idle        == [step |-> "idle", req |-> None, head |-> <<>>, pick |-> NoSelection]

Init ==
  /\ source = [r \in Requests |-> NoSource]
  /\ bundles = {} /\ central = <<>>
  /\ awaited = {} /\ revoked = {}
  /\ presence = [d \in Devices |-> "lost"]
  /\ selection = [d \in Devices |-> NoSelection]
  /\ worker = [d \in Devices |-> Idle]
  /\ claimed = [d \in Devices |-> {}]
  /\ LET first == CHOOSE f \in Folders : TRUE IN folder = [d \in Devices |-> first]
  /\ local = [d \in Devices |-> [f \in Folders |-> IF d \in Ahead THEN <<d>> ELSE <<>>]]
  /\ asked = 0 /\ stops = 0 /\ restarts = 0

Has(r, status)       == source[r].status = status
SetSource(r, status) == source' = [source EXCEPT ![r].status = status]
SetAll(S, status)    == [r \in Requests |-> IF r \in S THEN [source[r] EXCEPT !.status = status]
                                                      ELSE source[r]]

--------------------------------------------------------------------------------
(* The control plane, on behalf of a member.                               *)

(* queueSource reads the device, its diagnostics and the central head, and *)
(* waits for its turn on the promise chain with the record it has made.    *)
CheckSource(r, d) ==
  /\ Has(r, "none")
  /\ d \in Online /\ presence[d] = "shown"
  /\ source' = [source EXCEPT ![r] = [status |-> "checked", device |-> d, base |-> central,
                                      head |-> <<>>]]
  /\ awaited' = awaited \cup {r}
  /\ UNCHANGED <<bundles, central, devices, choice, restarts, connector>>

(* Faulty form of QueueSource: the folder selection is not looked at again.*)
QueueSourceUnchecked(r) ==
  /\ Has(r, "checked")
  /\ SetSource(r, "queued")
  /\ UNCHANGED <<bundles, central, awaited, devices, choice, restarts, connector>>
QueueSource(r) ==
  /\ Has(r, "checked")
  /\ selection[source[r].device].status \notin Pending
  /\ SetSource(r, "queued")
  /\ UNCHANGED <<bundles, central, awaited, devices, choice, restarts, connector>>

ChooseFolder(d) ==
  /\ asked < MaxSelections
  /\ d \in Online
  /\ selection[d].status \notin Pending
  /\ \A r \in Requests : source[r].device = d /\ source[r].status \in {"queued", "working"} => r \notin awaited
  /\ asked' = asked + 1
  /\ selection' = [selection EXCEPT ![d] = [status |-> "queued", nth |-> asked', folder |-> None]]
  /\ UNCHANGED <<records, awaited, devices, restarts, connector>>

Revoke(d) ==
  /\ revoked' = revoked \cup {d}
  /\ selection' = [selection EXCEPT ![d] = NoSelection]
  /\ UNCHANGED <<records, awaited, presence, asked, restarts, connector>>

(* The run that waits for r has read its outcome, given up, or ended; or   *)
(* ten minutes have passed since r was made.                               *)
EndRequest(r) ==
  /\ r \in awaited
  /\ awaited' = awaited \ {r}
  /\ UNCHANGED <<records, devices, choice, restarts, connector>>

(* Ninety seconds after a selection, twenty after a heartbeat.             *)
PassTime ==
  /\ \/ \E d \in Devices : /\ selection[d].status \in Pending
                           /\ selection' = [selection EXCEPT ![d].status = "expired"]
                           /\ UNCHANGED presence
     \/ \E d \in Online : /\ presence' = [presence EXCEPT ![d] = "stale"]
                          /\ UNCHANGED selection
  /\ UNCHANGED <<records, awaited, revoked, asked, restarts, connector>>

(* A stop of the process: what it only held in memory is gone.             *)
Forget ==
  /\ restarts < MaxRestarts
  /\ restarts' = restarts + 1
  /\ presence' = [d \in Devices |-> "lost"]
  /\ selection' = [d \in Devices |-> NoSelection]

Restart ==
  /\ Forget
  /\ source' = [r \in Requests |-> IF Has(r, "checked") THEN NoSource ELSE source[r]]
  /\ UNCHANGED <<bundles, central, awaited, revoked, asked, connector>>

--------------------------------------------------------------------------------
(* The connector's loop, and the operations of the server it calls.        *)

At(d, step)   == worker[d].step = step
Goes(d, step) == worker' = [worker EXCEPT ![d].step = step]
Rests(d)      == worker' = [worker EXCEPT ![d] = Idle]

(* The heartbeat runs beside the loop.                                     *)
Heartbeat(d) ==
  /\ d \notin revoked
  /\ \E told \in {"shown", "blank"} : presence' = [presence EXCEPT ![d] = told]
  /\ UNCHANGED <<records, awaited, revoked, choice, restarts, connector>>

ClaimFolder(d) ==
  /\ At(d, "idle") /\ d \notin revoked
  /\ selection[d].status = "queued"
  /\ selection' = [selection EXCEPT ![d].status = "choosing"]
  /\ \/ worker' = [worker EXCEPT ![d] = [Idle EXCEPT !.step = "choosing", !.pick = selection'[d]]]
     \/ UNCHANGED worker                   (* the answer is lost            *)
  /\ UNCHANGED <<records, awaited, devices, asked, restarts, claimed, folder, local, stops>>

Configured(d, f) == folder' = [folder EXCEPT ![d] = f]

(* chooseRepository: the chosen checkout is written to the connector's     *)
(* configuration before the control plane hears of it; or the choice is    *)
(* cancelled, or fails.                                                    *)
Choose(d) ==
  /\ At(d, "choosing")
  /\ \/ \E f \in Folders :
          /\ Configured(d, f)
          /\ worker' = [worker EXCEPT ![d].step = "chosen", ![d].pick.folder = f,
                                      ![d].pick.status = "selected"]
     \/ /\ worker' = [worker EXCEPT ![d].step = "chosen", ![d].pick.status = "failed"]
        /\ UNCHANGED folder
  /\ UNCHANGED <<server, claimed, local, stops>>

(* finishFolder: the answer arrives, or it is late or lost.                *)
FinishFolder(d) ==
  /\ At(d, "chosen")
  /\ \/ /\ d \notin revoked
        /\ selection[d].status = "choosing" /\ selection[d].nth = worker[d].pick.nth
        /\ selection' = [selection EXCEPT ![d] = worker[d].pick]
        /\ presence' = [presence EXCEPT ![d] = IF @ = "shown" THEN "blank" ELSE @]
     \/ UNCHANGED <<selection, presence>>
  /\ Rests(d)
  /\ UNCHANGED <<records, awaited, revoked, asked, restarts, claimed, folder, local, stops>>

(* claim: the records are visited in the order of a directory listing;     *)
(* those nobody waits for are failed, the first good one is handed out, and*)
(* a change record the device has not said it can read ends the visit.     *)
QueuedFor(d)  == {r \in Requests : source[r].device = d /\ Has(r, "queued")}
Unreadable(d) == IF d \in Capable THEN {} ELSE Noted
Claim(d) ==
  /\ At(d, "idle") /\ d \notin revoked
  /\ \E dropped \in SUBSET {r \in QueuedFor(d) \ Unreadable(d) : r \notin awaited} :
       \/ /\ dropped = QueuedFor(d) \/ QueuedFor(d) \cap Unreadable(d) # {}
          /\ dropped # {}
          /\ source' = SetAll(dropped, "failed")
          /\ UNCHANGED worker
       \/ \E job \in QueuedFor(d) \ Unreadable(d) :
            /\ job \in awaited
            /\ source' = [SetAll(dropped, "failed") EXCEPT ![job].status = "working"]
            /\ \/ worker' = [worker EXCEPT ![d] = [Idle EXCEPT !.step = "taken", !.req = job]]
               \/ UNCHANGED worker         (* the answer is lost            *)
  /\ presence' = [presence EXCEPT ![d] = IF @ = "stale" THEN "blank" ELSE @]
  /\ UNCHANGED <<bundles, central, awaited, revoked, choice, restarts, claimed, folder, local, stops>>

(* validateJob finds the request expired by the device's clock and throws  *)
(* outside the inner try: nothing is reported.                             *)
Discard(d) ==
  /\ At(d, "taken")
  /\ Rests(d)
  /\ UNCHANGED <<server, claimed, folder, local, stops>>

Own(d) ==
  /\ At(d, "taken")
  /\ claimed' = [claimed EXCEPT ![d] = @ \cup {worker[d].req}]
  /\ Goes(d, IF worker[d].req \in claimed[d] THEN "failing" ELSE "owned")
  /\ UNCHANGED <<server, folder, local, stops>>

(* The head of the checkout once it holds the base commit: as it is, or    *)
(* fast-forwarded, never merged.  Faulty form: a checkout that went its own*)
(* way is reset.                                                           *)
SynchronizedByReset(head, base) == IF IsPrefix(base, head) THEN {head} ELSE {base}
Synchronized(head, base) ==
  IF IsPrefix(base, head) THEN {head} ELSE IF IsPrefix(head, base) THEN {base} ELSE {}

(* publishWorkingTree: whatever fails may fail before or after the         *)
(* fast-forward, or after the commit.                                      *)
Commit(d) ==
  /\ At(d, "owned")
  /\ LET r == worker[d].req
         f == folder[d]
         Settle(head) == local' = [local EXCEPT ![d][f] = head]
     IN \/ \E head \in Synchronized(local[d][f], source[r].base) :
             \/ /\ Settle(Append(head, r))
                /\ \/ worker' = [worker EXCEPT ![d].step = "committed", ![d].head = Append(head, r)]
                   \/ Goes(d, "failing")
             \/ Settle(head) /\ Goes(d, "failing")
        \/ UNCHANGED local /\ Goes(d, "failing")
  /\ UNCHANGED <<server, claimed, folder, stops>>

(* complete: the upload is due, and its bundle file can be made.           *)
Due(r) == Has(r, "working") /\ r \in awaited /\ r \notin bundles /\ source[r].device \notin revoked

(* importBundle: the expected base, and an ancestor of the new head.       *)
(* Faulty form: the ref may have moved since the request was made.         *)
ImportableAnywhere(base, head) == IsPrefix(base, head)
Importable(base, head) == central = base /\ IsPrefix(base, head)

(* Faulty form of Published: the record does not say what was published.   *)
PublishedUnnamed(r, head) == [source[r] EXCEPT !.status = "published"]
Published(r, head) == [source[r] EXCEPT !.status = "published", !.head = head]

Uploading(d) == At(d, "committed") /\ Due(worker[d].req) /\ bundles' = bundles \cup {worker[d].req}

(* The answer to an upload may be lost; the connector then reports a       *)
(* failure.                                                                *)
Upload(d) ==
  /\ Uploading(d)
  /\ LET r == worker[d].req head == worker[d].head
     IN \/ /\ Importable(source[r].base, head)
           /\ central' = head
           /\ source' = [source EXCEPT ![r] = Published(r, head)]
           /\ Rests(d) \/ Goes(d, "failing")
        \/ /\ ~Importable(source[r].base, head)
           /\ Goes(d, "failing")
           /\ UNCHANGED <<central, source>>
  /\ UNCHANGED <<awaited, devices, choice, restarts, claimed, folder, local, stops>>

(* The process stops after the bundle file was written, or after the ref   *)
(* was moved, and before the record says so.                               *)
UploadCrash(d) ==
  /\ Uploading(d) /\ Forget
  /\ \/ Importable(source[worker[d].req].base, worker[d].head) /\ central' = worker[d].head
     \/ UNCHANGED central
  /\ Goes(d, "failing")
  /\ UNCHANGED <<source, awaited, revoked, asked, claimed, folder, local, stops>>

UploadRefused(d) ==
  /\ At(d, "committed")
  /\ Goes(d, "failing")
  /\ UNCHANGED <<server, claimed, folder, local, stops>>

Failable(r) == Has(r, "working")

(* fail: reported once, and perhaps in vain.                               *)
Report(d) ==
  /\ At(d, "failing")
  /\ \/ Failable(worker[d].req) /\ d \notin revoked /\ SetSource(worker[d].req, "failed")
     \/ UNCHANGED source
  /\ Rests(d)
  /\ UNCHANGED <<bundles, central, awaited, devices, choice, restarts, claimed, folder, local, stops>>

Stop(d) ==
  /\ stops < MaxStops /\ ~At(d, "idle")
  /\ stops' = stops + 1
  /\ Rests(d)
  /\ UNCHANGED <<server, claimed, folder, local>>

--------------------------------------------------------------------------------
Works(d) ==
  \/ ClaimFolder(d) \/ Choose(d) \/ FinishFolder(d) \/ Claim(d) \/ Discard(d) \/ Own(d)
  \/ Commit(d) \/ Upload(d) \/ UploadRefused(d) \/ Report(d)

Next ==
  \/ \E r \in Requests : QueueSource(r) \/ EndRequest(r) \/ \E d \in Devices : CheckSource(r, d)
  \/ PassTime \/ Restart
  \/ \E d \in Devices : ChooseFolder(d) \/ Revoke(d) \/ Heartbeat(d) \/ Works(d) \/ UploadCrash(d) \/ Stop(d)

Spec == Init /\ [][Next]_vars

(* A connector beats every five seconds and asks for work five seconds     *)
(* after it has finished with the last.                                    *)
FairSpec == Spec /\ \A d \in Devices : WF_vars(Heartbeat(d)) /\ WF_vars(Works(d))

--------------------------------------------------------------------------------
(* Properties.                                                             *)

Status == {"none", "checked", "queued", "working", "published", "failed"}
TypeOK ==
  /\ \A r \in Requests : /\ source[r].status \in Status
                         /\ source[r].device \in Devices \cup {None}
                         /\ Has(r, "published") => source[r].head # <<>>
  /\ bundles \subseteq Requests /\ awaited \subseteq Requests
  /\ revoked \subseteq Devices /\ presence \in [Devices -> Presence]
  /\ folder \in [Devices -> Folders]
  /\ \A d \in Devices : At(d, "taken") \/ At(d, "committed") => worker[d].req \in Requests

(* The commit a run is given to build is its own, descends from the        *)
(* central head the request was made against, and is in the central        *)
(* repository for good: neither another developer's publication, nor a     *)
(* stale base, nor a stop between import and record loses it               *)
(* (developer-connectors.ts:865-870, component-git.ts:94-100).             *)
PublishedIsCentral ==
  \A r \in Requests : Has(r, "published") =>
    /\ Last(source[r].head) = r
    /\ IsPrefix(source[r].base, source[r].head)
    /\ IsPrefix(source[r].head, central)

(* "Never force-push, reset a developer checkout" (ADR 0040): whatever is  *)
(* synchronized, fails or is interrupted, neither the central ref nor a    *)
(* checkout loses a commit (component-git.ts:100, Connector.cjs:303-324).  *)
HistoriesGrow ==
  /\ IsPrefix(central, central')
  /\ \A d \in Devices, f \in Folders : IsPrefix(local[d][f], local'[d][f])

(* An outcome, once recorded, stays: a failure reported because the answer *)
(* to an upload was lost does not undo the publication a run may already   *)
(* be building (developer-connectors.ts:893-898).                          *)
OutcomeStays ==
  \A r \in Requests : source[r].status \in {"published", "failed"} => source'[r] = source[r]

(* Choosing a folder and publishing from it exclude each other (ADR 0043): *)
(* while a selection is pending no request that is still wanted waits for  *)
(* the device or is in its hands; and a folder shown as selected is the one*)
(* the connector publishes from, although answers to selections are lost,  *)
(* late, or cross a restart.                                               *)
FolderIsSettled ==
  \A d \in Devices :
    /\ selection[d].status \in Pending =>
         \A r \in Requests : source[r].device = d /\ r \in awaited => source[r].status \notin {"queued", "working"}
    /\ selection[d].status = "selected" /\ worker[d].step \notin {"choosing", "chosen"} =>
         folder[d] = selection[d].folder

(* A request queued for a device that is not revoked; it is taken up or    *)
(* refused in the end, and never waits for ever behind a selection, a stale*)
(* request, or a change record it could not read before the next heartbeat.*)
Queued(r) == Has(r, "queued") /\ source[r].device \notin revoked
================================================================================
