------------------------ MODULE SourcePublicationProofs ------------------------
(***************************************************************************)
(* What the publication of source keeps to, for any developers' systems,   *)
(* requests, folders and bounds.                                           *)
(***************************************************************************)
EXTENDS SourcePublication, SequenceTheorems, TLAPS

Commits   == Seq(Requests \cup Devices)
Request   == [status : Status, device : Devices \cup {None}, base : Commits, head : Commits]
Answers   == {"none", "queued", "choosing", "selected", "failed", "expired"}
Selection == [status : Answers, nth : Nat, folder : Folders \cup {None}]
Steps     == {"idle", "choosing", "chosen", "taken", "owned", "committed", "failing"}
Worker    == [step : Steps, req : Requests \cup {None}, head : Commits, pick : Selection]

Types ==
  /\ source \in [Requests -> Request] /\ central \in Commits
  /\ bundles \subseteq Requests /\ awaited \subseteq Requests
  /\ revoked \subseteq Devices /\ presence \in [Devices -> Presence]
  /\ selection \in [Devices -> Selection] /\ asked \in Nat
  /\ worker \in [Devices -> Worker] /\ folder \in [Devices -> Folders]
  /\ local \in [Devices -> [Folders -> Commits]]

(* What a connector holds: a request from its claim on, a commit that ends *)
(* with it once it has one; and while a folder is being chosen no other is *)
(* shown as selected.                                                      *)
LoopOf(d) ==
  /\ worker[d].step \in {"taken", "owned", "committed", "failing"} => worker[d].req \in Requests
  /\ At(d, "committed") => worker[d].head # <<>> /\ Last(worker[d].head) = worker[d].req
  /\ worker[d].step \in {"choosing", "chosen"} => selection[d].status # "selected"
  /\ At(d, "chosen") =>
       /\ worker[d].pick.status \in {"selected", "failed"}
       /\ worker[d].pick.status = "selected" => worker[d].pick.folder = folder[d]
LoopOK == \A d \in Devices : LoopOf(d)

PublishedOf(r) ==
  Has(r, "published") =>
    /\ source[r].head # <<>> /\ Last(source[r].head) = r
    /\ IsPrefix(source[r].base, source[r].head) /\ IsPrefix(source[r].head, central)
PublishedOK == \A r \in Requests : PublishedOf(r)

(* The two parts of FolderIsSettled.                                       *)
Excluded(d) ==
  selection[d].status \in Pending =>
    \A r \in Requests : source[r].device = d /\ r \in awaited => source[r].status \notin {"queued", "working"}
Shown(d) ==
  selection[d].status = "selected" /\ worker[d].step \notin {"choosing", "chosen"} =>
    folder[d] = selection[d].folder

Inv == Types /\ FolderIsSettled /\ LoopOK /\ PublishedOK

--------------------------------------------------------------------------------
(***************************************************************************)
(* Prefixes of histories.                                                  *)
(***************************************************************************)

(* A prefix, by its elements.                                              *)
LEMMA PrefixIs ==
  ASSUME NEW s \in Commits, NEW t \in Commits
  PROVE  IsPrefix(s, t) <=> Len(s) <= Len(t) /\ \A i \in 1 .. Len(s) : s[i] = t[i]
<1>0. Len(s) \in Nat /\ Len(t) \in Nat /\ DOMAIN s = 1 .. Len(s)
  BY DEF Commits
<1>1. CASE ~(Len(s) <= Len(t))
  BY <1>1 DEF IsPrefix
<1>2. CASE Len(s) <= Len(t)
  <2>1. SubSeq(t, 1, Len(s)) = [i \in 1 .. Len(s) |-> t[i]]
    BY <1>0
  <2>2. s = [i \in 1 .. Len(s) |-> s[i]]
    BY <1>0 DEF Commits
  <2> QED BY <1>0, <1>2, <2>1, <2>2 DEF IsPrefix
<1> QED BY <1>1, <1>2

(* Prefixes are ordered.                                                   *)
LEMMA PrefixOrder ==
  ASSUME NEW s \in Commits, NEW t \in Commits, NEW u \in Commits
  PROVE  /\ IsPrefix(s, s)
         /\ IsPrefix(s, t) /\ IsPrefix(t, u) => IsPrefix(s, u)
<1>0. Len(s) \in Nat /\ Len(t) \in Nat /\ Len(u) \in Nat
  BY DEF Commits
<1> QED BY <1>0, PrefixIs

(* A commit more.                                                          *)
LEMMA OneMore ==
  ASSUME NEW s \in Commits, NEW x \in Requests \cup Devices
  PROVE  /\ Append(s, x) \in Commits /\ Append(s, x) # <<>> /\ Last(Append(s, x)) = x
         /\ IsPrefix(s, Append(s, x))
<1>1. /\ Append(s, x) \in Commits /\ Len(Append(s, x)) = Len(s) + 1 /\ Append(s, x)[Len(s) + 1] = x
      /\ \A i \in 1 .. Len(s) : Append(s, x)[i] = s[i]
      /\ Len(s) \in Nat
  BY AppendProperties DEF Commits
<1>2. Append(s, x) # <<>>
  <2>1. Len(<<>>) = 0
    BY EmptySeq
  <2> QED BY <1>1, <2>1
<1>3. Last(Append(s, x)) = x
  BY <1>1 DEF Last
<1>4. IsPrefix(s, Append(s, x))
  <2> DEFINE t == Append(s, x)
  <2>1. t \in Commits /\ Len(s) <= Len(t) /\ \A i \in 1 .. Len(s) : s[i] = t[i]
    BY <1>1
  <2> HIDE DEF t
  <2>2. IsPrefix(s, t)
    BY <2>1, PrefixIs
  <2> QED BY <2>2 DEF t
<1> QED BY <1>1, <1>2, <1>3, <1>4

(* The empty history.                                                      *)
LEMMA NoCommit == <<>> \in Commits
BY DEF Commits

(* What a checkout is synchronized to has what it had.                     *)
LEMMA SynchronizedIs ==
  ASSUME NEW head \in Commits, NEW base \in Commits, NEW h \in Synchronized(head, base)
  PROVE  h \in Commits /\ IsPrefix(head, h)
BY PrefixOrder DEF Synchronized

--------------------------------------------------------------------------------
(***************************************************************************)
(* Parts of the invariant across a step.                                   *)
(***************************************************************************)

(* The invariant, part by part.                                            *)
LEMMA InvParts ==
  /\ FolderIsSettled <=> \A d \in Devices : Excluded(d) /\ Shown(d)
  /\ Inv <=> Types /\ (\A d \in Devices : Excluded(d) /\ Shown(d) /\ LoopOf(d)) /\ \A r \in Requests : PublishedOf(r)
BY DEF FolderIsSettled, Excluded, Shown, LoopOK, PublishedOK, Inv

(* The invariant after a step, part by part.                               *)
LEMMA InvNext ==
  ASSUME Types', \A d \in Devices : Excluded(d)' /\ Shown(d)' /\ LoopOf(d)', \A r \in Requests : PublishedOf(r)'
  PROVE  Inv'
BY DEF Inv, FolderIsSettled, Excluded, Shown, LoopOK, PublishedOK

(* A record of a request, after one field of it is set.                    *)
LEMMA SetStatus ==
  ASSUME Types, NEW r \in Requests, NEW status \in Status, SetSource(r, status)
  PROVE  /\ source' \in [Requests -> Request]
         /\ source'[r].status = status /\ source'[r].device = source[r].device
         /\ source'[r].base = source[r].base /\ source'[r].head = source[r].head
         /\ \A q \in Requests \ {r} : source'[q] = source[q]
<1>1. source[r] \in Request /\ source' = [source EXCEPT ![r] = [source[r] EXCEPT !.status = status]]
  BY DEF Types, SetSource
<1>2. [source[r] EXCEPT !.status = status] \in Request
  BY <1>1 DEF Request
<1> QED BY <1>1, <1>2 DEF Types, Request

(* The worker of one connector moves to a step.                            *)
LEMMA WorkerGoes ==
  ASSUME Types, NEW d \in Devices, NEW step \in Steps, Goes(d, step)
  PROVE  /\ worker' \in [Devices -> Worker] /\ worker'[d].step = step
         /\ worker'[d].req = worker[d].req /\ worker'[d].head = worker[d].head /\ worker'[d].pick = worker[d].pick
         /\ \A e \in Devices \ {d} : worker'[e] = worker[e]
<1>1. worker[d] \in Worker /\ worker' = [worker EXCEPT ![d] = [worker[d] EXCEPT !.step = step]]
  BY DEF Types, Goes
<1>2. [worker[d] EXCEPT !.step = step] \in Worker
  BY <1>1 DEF Worker
<1> QED BY <1>1, <1>2 DEF Types, Worker

(* The worker of one connector has finished.                               *)
LEMMA WorkerRests ==
  ASSUME Types, NEW d \in Devices, Rests(d)
  PROVE  /\ worker' \in [Devices -> Worker] /\ worker'[d].step = "idle"
         /\ \A e \in Devices \ {d} : worker'[e] = worker[e]
<1>1. Idle \in Worker /\ Idle.step = "idle"
  BY NoCommit DEF Idle, Worker, Steps, NoSelection, Selection, Answers
<1> QED BY <1>1 DEF Types, Rests

(* A step of one connector that ends or fails what it holds: its selection *)
(* and folder stay.                                                        *)
LEMMA ConnectorStep ==
  ASSUME Inv, NEW d \in Devices,
         worker' \in [Devices -> Worker], \A e \in Devices \ {d} : worker'[e] = worker[e],
         \/ worker'[d].step = "idle"
         \/ worker'[d].step = "failing" /\ worker'[d].req \in Requests
         \/ /\ worker'[d].step \in {"taken", "owned", "committed", "failing"} /\ worker'[d].req \in Requests
            /\ worker'[d].step = "committed" => worker'[d].head # <<>> /\ Last(worker'[d].head) = worker'[d].req,
         UNCHANGED <<selection, folder>>
  PROVE  \A e \in Devices : Shown(e)' /\ LoopOf(e)'
<1>1. \A e \in Devices : Shown(e) /\ LoopOf(e)
  BY InvParts
<1>2. \A e \in Devices \ {d} : Shown(e)' /\ LoopOf(e)'
  BY <1>1 DEF Shown, LoopOf, At
<1>3. Shown(d)' /\ LoopOf(d)'
  BY <1>1 DEF Shown, LoopOf, At
<1> QED BY <1>2, <1>3

(* Requests that stay with their devices, and are awaited and in hand at   *)
(* most as before.                                                         *)
LEMMA ExcludedKept ==
  ASSUME Inv, NEW d \in Devices,
         selection'[d].status \in Pending => selection[d].status \in Pending,
         \A r \in Requests : source'[r].device = d /\ r \in awaited' /\ source'[r].status \in {"queued", "working"} =>
           source[r].device = d /\ r \in awaited /\ source[r].status \in {"queued", "working"}
  PROVE  Excluded(d)'
BY InvParts DEF Excluded

(* Records that are not published, or were before, and a central ref that  *)
(* only grows.                                                             *)
LEMMA PublishedKept ==
  ASSUME Inv, central' \in Commits, IsPrefix(central, central'),
         NEW r \in Requests, source'[r].status = "published" => source'[r] = source[r]
  PROVE  PublishedOf(r)'
<1>1. PublishedOf(r) /\ central \in Commits /\ source[r].head \in Commits
  BY InvParts DEF Types, Request
<1> QED BY <1>1, PrefixOrder DEF PublishedOf, Has

--------------------------------------------------------------------------------
(***************************************************************************)
(* The initial states, and each action.                                    *)
(***************************************************************************)

(* The invariant holds initially.                                          *)
LEMMA InitInv == ASSUME Folders # {} PROVE Init => Inv
<1> SUFFICES ASSUME Init
             PROVE  Inv
  OBVIOUS
<1>1. NoSource \in Request /\ NoSelection \in Selection /\ Idle \in Worker /\ "lost" \in Presence
  BY NoCommit DEF NoSource, NoSelection, Idle, Request, Selection, Worker, Status, Answers, Steps, Presence
<1>2. (CHOOSE f \in Folders : TRUE) \in Folders
  OBVIOUS
<1>3. \A d \in Devices : <<d>> \in Commits /\ <<>> \in Commits
  BY NoCommit DEF Commits
<1>4. local \in [Devices -> [Folders -> Commits]]
  <2>1. local = [d \in Devices |-> [f \in Folders |-> IF d \in Ahead THEN <<d>> ELSE <<>>]]
    BY DEF Init
  <2>2. \A d \in Devices : [f \in Folders |-> IF d \in Ahead THEN <<d>> ELSE <<>>] \in [Folders -> Commits]
    BY <1>3
  <2> QED BY <2>1, <2>2
<1>5. folder \in [Devices -> Folders]
  BY <1>2 DEF Init
<1>6. /\ source \in [Requests -> Request] /\ worker \in [Devices -> Worker] /\ selection \in [Devices -> Selection]
      /\ presence \in [Devices -> Presence] /\ central \in Commits
  BY <1>1, NoCommit DEF Init
<1>7. Types
  BY <1>4, <1>5, <1>6 DEF Types, Init
<1>8. \A d \in Devices : worker[d].step = "idle" /\ selection[d].status = "none"
  BY DEF Init, Idle, NoSelection
<1>9. \A d \in Devices : Excluded(d) /\ Shown(d) /\ LoopOf(d)
  BY <1>8 DEF Excluded, Shown, LoopOf, At, Pending
<1>10. \A r \in Requests : PublishedOf(r)
  BY DEF PublishedOf, Has, Init, NoSource
<1> QED BY <1>7, <1>9, <1>10, InvParts

(* A request is made against the central ref of the moment; it is queued   *)
(* only where no selection is pending.                                     *)
LEMMA RequestStep ==
  ASSUME Inv, NEW r \in Requests, NEW d \in Devices, CheckSource(r, d) \/ QueueSource(r) \/ EndRequest(r)
  PROVE  Inv'
<1>0. Types /\ \A e \in Devices : Excluded(e) /\ Shown(e) /\ LoopOf(e)
  BY InvParts
<1>1. UNCHANGED <<bundles, central, revoked, presence, selection, asked, worker, folder, local>>
  BY DEF CheckSource, QueueSource, EndRequest, records, devices, choice, connector
<1>2. \A e \in Devices : Shown(e)' /\ LoopOf(e)'
  BY <1>0, <1>1 DEF Shown, LoopOf, At
<1>3. central' \in Commits /\ IsPrefix(central, central')
  BY <1>0, <1>1, PrefixOrder DEF Types
<1>4. CASE CheckSource(r, d)
  <2> DEFINE new == [status |-> "checked", device |-> d, base |-> central, head |-> <<>>]
  <2>1. source' = [source EXCEPT ![r] = new] /\ awaited' = awaited \cup {r} /\ source[r].status = "none"
    BY <1>4 DEF CheckSource, Has
  <2>2. new \in Request /\ new.status = "checked"
    BY <1>0, NoCommit DEF Request, Status, Types
  <2> HIDE DEF new
  <2>3. /\ source' \in [Requests -> Request] /\ source'[r].status = "checked"
        /\ \A q \in Requests \ {r} : source'[q] = source[q]
    BY <1>0, <2>1, <2>2 DEF Types
  <2>4. Types'
    BY <1>0, <1>1, <2>1, <2>3 DEF Types
  <2>5. \A e \in Devices : Excluded(e)'
    BY <1>1, <2>1, <2>3, ExcludedKept
  <2>6. \A q \in Requests : PublishedOf(q)'
    BY <1>3, <2>3, PublishedKept
  <2> QED BY <1>2, <2>4, <2>5, <2>6, InvNext
<1>5. CASE QueueSource(r)
  <2>1. /\ SetSource(r, "queued") /\ awaited' = awaited /\ selection[source[r].device].status \notin Pending
        /\ "queued" \in Status
    BY <1>5 DEF QueueSource, Status
  <2>2. /\ source' \in [Requests -> Request] /\ source'[r].status = "queued" /\ source'[r].device = source[r].device
        /\ \A q \in Requests \ {r} : source'[q] = source[q]
    BY <1>0, <2>1, SetStatus
  <2>3. Types'
    BY <1>0, <1>1, <2>1, <2>2 DEF Types
  <2>4. \A e \in Devices : Excluded(e)'
    <3> SUFFICES ASSUME NEW e \in Devices, selection'[e].status \in Pending,
                        NEW q \in Requests, source'[q].device = e, q \in awaited'
                 PROVE  source'[q].status \notin {"queued", "working"}
      BY DEF Excluded
    <3>1. q # r
      BY <1>1, <2>1, <2>2
    <3> QED BY <1>0, <1>1, <2>1, <2>2, <3>1 DEF Excluded
  <2>5. \A q \in Requests : PublishedOf(q)'
    BY <1>3, <2>2, PublishedKept
  <2> QED BY <1>2, <2>3, <2>4, <2>5, InvNext
<1>6. CASE EndRequest(r)
  <2>1. source' = source /\ awaited' \subseteq awaited
    BY <1>6 DEF EndRequest, records
  <2>2. Types'
    BY <1>0, <1>1, <2>1 DEF Types
  <2>3. (\A e \in Devices : Excluded(e)') /\ \A q \in Requests : PublishedOf(q)'
    BY <1>1, <1>3, <2>1, ExcludedKept, PublishedKept
  <2> QED BY <1>2, <2>2, <2>3, InvNext
<1> QED BY <1>4, <1>5, <1>6

(* Selections, revocations, heartbeats and the passing of time.            *)
LEMMA SelectionStep ==
  ASSUME Inv, NEW d \in Devices, ChooseFolder(d) \/ Revoke(d) \/ PassTime \/ Heartbeat(d)
  PROVE  Inv'
<1>0. Types /\ \A e \in Devices : Excluded(e) /\ Shown(e) /\ LoopOf(e)
  BY InvParts
<1>1. UNCHANGED <<source, bundles, central, awaited, worker, folder, local>>
  BY DEF ChooseFolder, Revoke, PassTime, Heartbeat, records, connector
<1>2. \A q \in Requests : PublishedOf(q)'
  <2>1. central' \in Commits /\ IsPrefix(central, central')
    BY <1>0, <1>1, PrefixOrder DEF Types
  <2> QED BY <1>1, <2>1, PublishedKept
<1>3. CASE ChooseFolder(d)
  <2> DEFINE new == [status |-> "queued", nth |-> asked + 1, folder |-> None]
  <2>1. /\ selection' = [selection EXCEPT ![d] = new] /\ asked' = asked + 1 /\ selection[d].status \notin Pending
        /\ UNCHANGED <<revoked, presence>>
        /\ \A r \in Requests : source[r].device = d /\ source[r].status \in {"queued", "working"} => r \notin awaited
    BY <1>3 DEF ChooseFolder, devices
  <2>2. new \in Selection /\ new.status = "queued"
    BY <1>0 DEF Selection, Answers, Types
  <2> HIDE DEF new
  <2>3. /\ selection' \in [Devices -> Selection] /\ selection'[d].status = "queued"
        /\ \A e \in Devices \ {d} : selection'[e] = selection[e]
    BY <1>0, <2>1, <2>2 DEF Types
  <2>4. Types'
    <3>1. asked' \in Nat
      BY <1>0, <2>1 DEF Types
    <3> QED BY <1>0, <1>1, <2>1, <2>3, <3>1 DEF Types
  <2>5. ASSUME NEW e \in Devices
        PROVE  Excluded(e)' /\ Shown(e)' /\ LoopOf(e)'
    <3>1. CASE e = d
      BY <1>0, <1>1, <2>1, <2>3, <3>1 DEF Excluded, Shown, LoopOf, At
    <3>2. CASE e # d
      BY <1>0, <1>1, <2>3, <3>2 DEF Excluded, Shown, LoopOf, At
    <3> QED BY <3>1, <3>2
  <2> QED BY <1>2, <2>4, <2>5, InvNext
<1>4. CASE Revoke(d)
  <2>1. /\ selection' = [selection EXCEPT ![d] = NoSelection] /\ revoked' \subseteq Devices
        /\ UNCHANGED <<asked, presence>>
    BY <1>0, <1>4 DEF Revoke, Types
  <2>2. NoSelection \in Selection /\ NoSelection.status = "none"
    BY DEF Selection, Answers, NoSelection
  <2>3. /\ selection' \in [Devices -> Selection] /\ selection'[d].status = "none"
        /\ \A e \in Devices \ {d} : selection'[e] = selection[e]
    BY <1>0, <2>1, <2>2 DEF Types
  <2>4. Types'
    BY <1>0, <1>1, <2>1, <2>3 DEF Types
  <2>5. ASSUME NEW e \in Devices
        PROVE  Excluded(e)' /\ Shown(e)' /\ LoopOf(e)'
    <3>1. CASE e = d
      BY <1>0, <1>1, <2>3, <3>1 DEF Excluded, Shown, LoopOf, At, Pending
    <3>2. CASE e # d
      BY <1>0, <1>1, <2>3, <3>2 DEF Excluded, Shown, LoopOf, At
    <3> QED BY <3>1, <3>2
  <2> QED BY <1>2, <2>4, <2>5, InvNext
<1>5. CASE PassTime
  <2>1. UNCHANGED <<revoked, asked>>
    BY <1>5 DEF PassTime
  <2>2. CASE \E e \in Devices : selection[e].status \in Pending
               /\ selection' = [selection EXCEPT ![e].status = "expired"] /\ UNCHANGED presence
    <3>1. PICK e \in Devices : /\ selection[e].status \in Pending /\ UNCHANGED presence
                               /\ selection' = [selection EXCEPT ![e].status = "expired"]
      BY <2>2
    <3>2. selection[e] \in Selection /\ [selection[e] EXCEPT !.status = "expired"] \in Selection
      BY <1>0 DEF Types, Selection, Answers
    <3>3. /\ selection' \in [Devices -> Selection] /\ selection'[e].status = "expired"
          /\ \A x \in Devices \ {e} : selection'[x] = selection[x]
      BY <1>0, <3>1, <3>2 DEF Types, Selection
    <3>4. Types'
      BY <1>0, <1>1, <2>1, <3>1, <3>3 DEF Types
    <3>5. ASSUME NEW x \in Devices
          PROVE  Excluded(x)' /\ Shown(x)' /\ LoopOf(x)'
      <4>1. CASE x = e
        BY <1>0, <1>1, <3>3, <4>1 DEF Excluded, Shown, LoopOf, At, Pending
      <4>2. CASE x # e
        BY <1>0, <1>1, <3>3, <4>2 DEF Excluded, Shown, LoopOf, At
      <4> QED BY <4>1, <4>2
    <3> QED BY <1>2, <3>4, <3>5, InvNext
  <2>3. CASE \E e \in Online : presence' = [presence EXCEPT ![e] = "stale"] /\ UNCHANGED selection
    <3>1. presence' \in [Devices -> Presence] /\ selection' = selection
      BY <1>0, <2>3 DEF Types, Presence
    <3>2. Types'
      BY <1>0, <1>1, <2>1, <3>1 DEF Types
    <3>3. \A x \in Devices : Excluded(x)' /\ Shown(x)' /\ LoopOf(x)'
      BY <1>0, <1>1, <3>1 DEF Excluded, Shown, LoopOf, At
    <3> QED BY <1>2, <3>2, <3>3, InvNext
  <2> QED BY <1>5, <2>2, <2>3 DEF PassTime
<1>6. CASE Heartbeat(d)
  <2>1. presence' \in [Devices -> Presence] /\ UNCHANGED <<selection, asked, revoked>>
    BY <1>0, <1>6 DEF Heartbeat, Types, Presence, choice
  <2>2. Types'
    BY <1>0, <1>1, <2>1 DEF Types
  <2>3. \A x \in Devices : Excluded(x)' /\ Shown(x)' /\ LoopOf(x)'
    BY <1>0, <1>1, <2>1 DEF Excluded, Shown, LoopOf, At
  <2> QED BY <1>2, <2>2, <2>3, InvNext
<1> QED BY <1>3, <1>4, <1>5, <1>6

(* A stop of the control plane forgets selections and unqueued requests.   *)
LEMMA RestartStep == ASSUME Inv, Restart PROVE Inv'
<1>0. Types /\ \A e \in Devices : Excluded(e) /\ Shown(e) /\ LoopOf(e)
  BY InvParts
<1>1. /\ UNCHANGED <<bundles, central, awaited, revoked, asked, worker, folder, local>>
      /\ selection' = [d \in Devices |-> NoSelection] /\ presence' = [d \in Devices |-> "lost"]
      /\ source' = [r \in Requests |-> IF source[r].status = "checked" THEN NoSource ELSE source[r]]
  BY DEF Restart, Forget, connector, Has
<1>2. NoSource \in Request /\ NoSource.status = "none" /\ NoSelection \in Selection /\ NoSelection.status = "none"
  BY NoCommit DEF NoSource, NoSelection, Request, Selection, Status, Answers
<1>3. \A r \in Requests : source'[r] = source[r] \/ source'[r] = NoSource
  BY <1>1
<1>4. \A d \in Devices : selection'[d].status = "none"
  BY <1>1, <1>2
<1>5. Types'
  <2>1. source' \in [Requests -> Request] /\ selection' \in [Devices -> Selection]
    BY <1>0, <1>1, <1>2 DEF Types
  <2>2. presence' \in [Devices -> Presence]
    BY <1>1 DEF Presence
  <2> QED BY <1>0, <1>1, <2>1, <2>2 DEF Types
<1>6. \A d \in Devices : Excluded(d)' /\ Shown(d)' /\ LoopOf(d)'
  BY <1>0, <1>1, <1>4 DEF Excluded, Shown, LoopOf, At, Pending
<1>7. \A r \in Requests : PublishedOf(r)'
  <2>1. central' \in Commits /\ IsPrefix(central, central')
    BY <1>0, <1>1, PrefixOrder DEF Types
  <2> QED BY <1>2, <1>3, <2>1, PublishedKept
<1> QED BY <1>5, <1>6, <1>7, InvNext

(* A selection is claimed, made and answered: the answer names the folder  *)
(* that the connector has been configured with meanwhile.                  *)
LEMMA FolderStep ==
  ASSUME Inv, NEW d \in Devices, ClaimFolder(d) \/ Choose(d) \/ FinishFolder(d)
  PROVE  Inv'
<1>0. Types /\ \A e \in Devices : Excluded(e) /\ Shown(e) /\ LoopOf(e)
  BY InvParts
<1>1. UNCHANGED <<source, bundles, central, awaited, revoked, asked, local>>
  BY DEF ClaimFolder, Choose, FinishFolder, records, devices, server, choice
<1>2. \A q \in Requests : PublishedOf(q)'
  <2>1. central' \in Commits /\ IsPrefix(central, central')
    BY <1>0, <1>1, PrefixOrder DEF Types
  <2> QED BY <1>1, <2>1, PublishedKept
<1>3. CASE ClaimFolder(d)
  <2>1. /\ selection[d].status = "queued" /\ worker[d].step = "idle" /\ UNCHANGED <<presence, folder>>
        /\ selection' = [selection EXCEPT ![d] = [selection[d] EXCEPT !.status = "choosing"]]
    BY <1>0, <1>3 DEF ClaimFolder, devices, At, Types
  <2>2. selection[d] \in Selection /\ [selection[d] EXCEPT !.status = "choosing"] \in Selection
    BY <1>0 DEF Types, Selection, Answers
  <2>3. /\ selection' \in [Devices -> Selection] /\ selection'[d].status = "choosing" /\ selection'[d] \in Selection
        /\ \A e \in Devices \ {d} : selection'[e] = selection[e]
    BY <1>0, <2>1, <2>2 DEF Types, Selection
  <2>4. /\ worker' \in [Devices -> Worker] /\ \A e \in Devices \ {d} : worker'[e] = worker[e]
        /\ worker'[d].step \in {"idle", "choosing"}
    <3> DEFINE new == [Idle EXCEPT !.step = "choosing", !.pick = selection'[d]]
    <3>1. new \in Worker /\ new.step = "choosing"
      BY <2>3, NoCommit DEF Idle, Worker, Steps
    <3>2. worker' = [worker EXCEPT ![d] = new] \/ worker' = worker
      BY <1>3 DEF ClaimFolder
    <3> HIDE DEF new
    <3> QED BY <1>0, <2>1, <3>1, <3>2 DEF Types
  <2>5. Types'
    BY <1>0, <1>1, <2>1, <2>3, <2>4 DEF Types
  <2>6. ASSUME NEW e \in Devices
        PROVE  Excluded(e)' /\ Shown(e)' /\ LoopOf(e)'
    <3>1. CASE e = d
      BY <1>0, <1>1, <2>1, <2>3, <2>4, <3>1 DEF Excluded, Shown, LoopOf, At, Pending
    <3>2. CASE e # d
      BY <1>0, <1>1, <2>1, <2>3, <2>4, <3>2 DEF Excluded, Shown, LoopOf, At
    <3> QED BY <3>1, <3>2
  <2> QED BY <1>2, <2>5, <2>6, InvNext
<1>4. CASE Choose(d)
  <2>1. /\ worker[d].step = "choosing" /\ UNCHANGED <<presence, selection>>
        /\ worker[d] \in Worker /\ worker[d].pick \in Selection /\ selection[d].status # "selected"
    BY <1>0, <1>4 DEF Choose, At, server, devices, choice, Types, Worker, LoopOf
  <2>2. /\ worker' \in [Devices -> Worker] /\ \A e \in Devices \ {d} : worker'[e] = worker[e]
        /\ worker'[d].step = "chosen" /\ worker'[d].pick.status \in {"selected", "failed"}
        /\ worker'[d].pick.status = "selected" => worker'[d].pick.folder = folder'[d]
        /\ folder' \in [Devices -> Folders] /\ \A e \in Devices \ {d} : folder'[e] = folder[e]
    <3>1. ASSUME NEW f \in Folders, Configured(d, f),
                 worker' = [worker EXCEPT ![d].step = "chosen", ![d].pick.folder = f, ![d].pick.status = "selected"]
          PROVE  <2>2!:
      <4> DEFINE pick == [[worker[d].pick EXCEPT !.folder = f] EXCEPT !.status = "selected"]
      <4>1. pick \in Selection /\ pick.status = "selected" /\ pick.folder = f
        BY <2>1 DEF Selection, Answers
      <4>2. worker' = [worker EXCEPT ![d] = [[worker[d] EXCEPT !.step = "chosen"] EXCEPT !.pick = pick]]
        BY <1>0, <2>1, <3>1 DEF Types, Worker
      <4> HIDE DEF pick
      <4>3. [[worker[d] EXCEPT !.step = "chosen"] EXCEPT !.pick = pick] \in Worker
        BY <2>1, <4>1 DEF Worker, Steps
      <4>4. folder' = [folder EXCEPT ![d] = f]
        BY <3>1 DEF Configured
      <4> QED BY <1>0, <2>1, <4>1, <4>2, <4>3, <4>4 DEF Types, Worker
    <3>2. ASSUME worker' = [worker EXCEPT ![d].step = "chosen", ![d].pick.status = "failed"], folder' = folder
          PROVE  <2>2!:
      <4> DEFINE pick == [worker[d].pick EXCEPT !.status = "failed"]
      <4>1. pick \in Selection /\ pick.status = "failed"
        BY <2>1 DEF Selection, Answers
      <4>2. worker' = [worker EXCEPT ![d] = [[worker[d] EXCEPT !.step = "chosen"] EXCEPT !.pick = pick]]
        BY <1>0, <2>1, <3>2 DEF Types, Worker
      <4> HIDE DEF pick
      <4>3. [[worker[d] EXCEPT !.step = "chosen"] EXCEPT !.pick = pick] \in Worker
        BY <2>1, <4>1 DEF Worker, Steps
      <4>4. /\ worker' \in [Devices -> Worker] /\ worker'[d].step = "chosen" /\ worker'[d].pick = pick
            /\ \A e \in Devices \ {d} : worker'[e] = worker[e]
        BY <1>0, <2>1, <4>2, <4>3 DEF Types, Worker
      <4> QED BY <1>0, <3>2, <4>1, <4>4 DEF Types
    <3> QED BY <1>4, <3>1, <3>2 DEF Choose
  <2>3. Types'
    BY <1>0, <1>1, <2>1, <2>2 DEF Types
  <2>4. ASSUME NEW e \in Devices
        PROVE  Excluded(e)' /\ Shown(e)' /\ LoopOf(e)'
    <3>1. CASE e = d
      BY <1>0, <1>1, <2>1, <2>2, <3>1 DEF Excluded, Shown, LoopOf, At
    <3>2. CASE e # d
      BY <1>0, <1>1, <2>1, <2>2, <3>2 DEF Excluded, Shown, LoopOf, At
    <3> QED BY <3>1, <3>2
  <2> QED BY <1>2, <2>3, <2>4, InvNext
<1>5. CASE FinishFolder(d)
  <2>1. /\ worker[d].step = "chosen" /\ folder' = folder /\ Rests(d)
        /\ worker[d] \in Worker /\ worker[d].pick \in Selection /\ worker[d].pick.status \in {"selected", "failed"}
        /\ worker[d].pick.status = "selected" => worker[d].pick.folder = folder[d]
        /\ selection[d].status # "selected"
    BY <1>0, <1>5 DEF FinishFolder, At, Types, Worker, LoopOf
  <2>2. /\ worker' \in [Devices -> Worker] /\ worker'[d].step = "idle"
        /\ \A e \in Devices \ {d} : worker'[e] = worker[e]
    BY <1>0, <2>1, WorkerRests
  <2>3. /\ selection' \in [Devices -> Selection] /\ presence' \in [Devices -> Presence]
        /\ \A e \in Devices \ {d} : selection'[e] = selection[e]
        /\ selection'[d] = selection[d] \/ selection'[d] = worker[d].pick
    <3>1. CASE UNCHANGED <<selection, presence>>
      BY <1>0, <3>1 DEF Types
    <3>2. CASE /\ selection' = [selection EXCEPT ![d] = worker[d].pick]
               /\ presence' = [presence EXCEPT ![d] = IF @ = "shown" THEN "blank" ELSE @]
      BY <1>0, <2>1, <3>2 DEF Types, Presence
    <3> QED BY <1>5, <3>1, <3>2 DEF FinishFolder
  <2>4. Types'
    BY <1>0, <1>1, <2>1, <2>2, <2>3 DEF Types
  <2>5. ASSUME NEW e \in Devices
        PROVE  Excluded(e)' /\ Shown(e)' /\ LoopOf(e)'
    <3>1. CASE e = d
      BY <1>0, <1>1, <2>1, <2>2, <2>3, <3>1 DEF Excluded, Shown, LoopOf, At, Pending
    <3>2. CASE e # d
      BY <1>0, <1>1, <2>1, <2>2, <2>3, <3>2 DEF Excluded, Shown, LoopOf, At
    <3> QED BY <3>1, <3>2
  <2> QED BY <1>2, <2>4, <2>5, InvNext
<1> QED BY <1>3, <1>4, <1>5

(* Work is claimed: only what was queued changes, and what is handed out is*)
(* still awaited.                                                          *)
LEMMA ClaimStep == ASSUME Inv, NEW d \in Devices, Claim(d) PROVE Inv'
<1>0. Types /\ \A e \in Devices : Excluded(e) /\ Shown(e) /\ LoopOf(e)
  BY InvParts
<1>1. /\ UNCHANGED <<bundles, central, awaited, revoked, selection, asked, folder, local>>
      /\ worker[d].step = "idle"
  BY DEF Claim, choice, At
<1>2. presence' \in [Devices -> Presence]
  BY <1>0 DEF Claim, Types, Presence
<1>3. PICK dropped \in SUBSET {r \in QueuedFor(d) \ Unreadable(d) : r \notin awaited} :
        \/ source' = SetAll(dropped, "failed") /\ UNCHANGED worker
        \/ \E job \in QueuedFor(d) \ Unreadable(d) :
             /\ job \in awaited
             /\ source' = [SetAll(dropped, "failed") EXCEPT ![job].status = "working"]
             /\ \/ worker' = [worker EXCEPT ![d] = [Idle EXCEPT !.step = "taken", !.req = job]]
                \/ UNCHANGED worker
  BY DEF Claim
<1>4. \A r \in QueuedFor(d) : r \in Requests /\ source[r].status = "queued" /\ source[r].device = d
  BY DEF QueuedFor, Has
<1> DEFINE all == SetAll(dropped, "failed")
<1>5. /\ all \in [Requests -> Request]
      /\ \A r \in Requests : /\ all[r].device = source[r].device
                             /\ r \in dropped => all[r].status = "failed"
                             /\ r \notin dropped => all[r] = source[r]
  <2>1. \A r \in Requests : source[r] \in Request /\ [source[r] EXCEPT !.status = "failed"] \in Request
    BY <1>0 DEF Types, Request, Status
  <2> QED BY <2>1 DEF SetAll, Request
<1>6. \A r \in dropped : source[r].status = "queued"
  BY <1>4
<1> HIDE DEF all
<1>7. /\ source' \in [Requests -> Request] /\ worker' \in [Devices -> Worker]
      /\ \A e \in Devices \ {d} : worker'[e] = worker[e]
      /\ worker'[d].step = "idle" \/ (worker'[d].step = "taken" /\ worker'[d].req \in Requests)
      /\ \A r \in Requests : /\ source'[r] = source[r] \/ source[r].status = "queued"
                             /\ source'[r].device = source[r].device
                             /\ source'[r] = source[r] \/ source'[r].status = "failed" \/ source'[r].status = "working"
  <2>1. CASE source' = all /\ UNCHANGED worker
    BY <1>0, <1>1, <1>5, <1>6, <2>1 DEF Types
  <2>2. ASSUME NEW job \in QueuedFor(d) \ Unreadable(d), source' = [all EXCEPT ![job].status = "working"],
               worker' = [worker EXCEPT ![d] = [Idle EXCEPT !.step = "taken", !.req = job]] \/ UNCHANGED worker
        PROVE  <1>7!:
    <3>1. job \in Requests /\ source[job].status = "queued"
      BY <1>4
    <3>2. all[job] \in Request /\ [all[job] EXCEPT !.status = "working"] \in Request
      BY <1>5, <3>1 DEF Request, Status
    <3>3. source' = [all EXCEPT ![job] = [all[job] EXCEPT !.status = "working"]]
      BY <2>2
    <3>4. /\ source' \in [Requests -> Request] /\ source'[job].status = "working"
          /\ source'[job].device = source[job].device
          /\ \A r \in Requests \ {job} : source'[r] = all[r]
      BY <1>5, <3>1, <3>2, <3>3 DEF Request
    <3> DEFINE new == [Idle EXCEPT !.step = "taken", !.req = job]
    <3>5. new \in Worker /\ new.step = "taken" /\ new.req = job
      BY <3>1, NoCommit DEF Idle, Worker, Steps, NoSelection, Selection, Answers
    <3>6. worker' = [worker EXCEPT ![d] = new] \/ worker' = worker
      BY <2>2
    <3> HIDE DEF new
    <3>7. /\ worker' \in [Devices -> Worker] /\ \A e \in Devices \ {d} : worker'[e] = worker[e]
          /\ worker'[d].step = "idle" \/ (worker'[d].step = "taken" /\ worker'[d].req \in Requests)
      BY <1>0, <1>1, <3>1, <3>5, <3>6 DEF Types
    <3>8. \A r \in Requests : /\ source'[r] = source[r] \/ source[r].status = "queued"
                              /\ source'[r].device = source[r].device
                              /\ source'[r] = source[r] \/ source'[r].status = "failed" \/ source'[r].status = "working"
      BY <1>5, <1>6, <3>1, <3>4
    <3> QED BY <3>4, <3>7, <3>8
  <2> QED BY <1>3, <2>1, <2>2 DEF all
<1>8. Types'
  BY <1>0, <1>1, <1>2, <1>7 DEF Types
<1>9. \A e \in Devices : Excluded(e)'
  BY <1>1, <1>7, ExcludedKept
<1>10. \A e \in Devices : Shown(e)' /\ LoopOf(e)'
  BY <1>1, <1>7, ConnectorStep
<1>11. \A r \in Requests : PublishedOf(r)'
  <2>1. central' \in Commits /\ IsPrefix(central, central')
    BY <1>0, <1>1, PrefixOrder DEF Types
  <2> QED BY <1>7, <2>1, PublishedKept
<1> QED BY <1>8, <1>9, <1>10, <1>11, InvNext

(* What a connector does with what it has taken, and its stops.            *)
LEMMA WorkStep ==
  ASSUME Inv, NEW d \in Devices,
         Discard(d) \/ Own(d) \/ Commit(d) \/ UploadRefused(d) \/ Report(d) \/ Stop(d)
  PROVE  Inv'
<1>0. Types /\ (\A e \in Devices : Excluded(e) /\ Shown(e) /\ LoopOf(e)) /\ worker[d] \in Worker
  BY InvParts DEF Types
<1>1. UNCHANGED <<bundles, central, awaited, revoked, presence, selection, asked, folder>>
  BY DEF Discard, Own, Commit, UploadRefused, Report, Stop, server, records, devices, choice
<1>2. central' \in Commits /\ IsPrefix(central, central')
  BY <1>0, <1>1, PrefixOrder DEF Types
<1>3. "failing" \in Steps /\ "owned" \in Steps /\ "committed" \in Steps /\ "failed" \in Status
  BY DEF Steps, Status
<1>4. /\ source' \in [Requests -> Request]
      /\ \A r \in Requests : source'[r] = source[r]
                             \/ (source[r].status = "working" /\ source'[r].status = "failed"
                                 /\ source'[r].device = source[r].device)
  <2>1. CASE source' = source
    BY <1>0, <2>1 DEF Types
  <2>2. CASE source' # source
    <3>1. Report(d)
      BY <2>2 DEF Discard, Own, Commit, UploadRefused, Stop, server, records
    <3>2. /\ worker[d].step = "failing" /\ source[worker[d].req].status = "working"
          /\ SetSource(worker[d].req, "failed")
      BY <2>2, <3>1 DEF Report, At, Failable, Has
    <3>3. worker[d].req \in Requests
      BY <1>0, <3>2 DEF LoopOf
    <3> QED BY <1>0, <1>3, <3>2, <3>3, SetStatus
  <2> QED BY <2>1, <2>2
<1>5. /\ local' \in [Devices -> [Folders -> Commits]]
      /\ worker' \in [Devices -> Worker] /\ \A e \in Devices \ {d} : worker'[e] = worker[e]
      /\ \/ worker'[d].step = "idle"
         \/ /\ worker'[d].step \in {"taken", "owned", "committed", "failing"} /\ worker'[d].req \in Requests
            /\ worker'[d].step = "committed" => worker'[d].head # <<>> /\ Last(worker'[d].head) = worker'[d].req
  <2>1. CASE Rests(d) /\ local' = local
    BY <1>0, <2>1, WorkerRests DEF Types
  <2>2. CASE worker[d].req \in Requests /\ local' = local /\ (Goes(d, "failing") \/ Goes(d, "owned"))
    <3>1. PICK step \in {"failing", "owned"} : Goes(d, step)
      BY <2>2
    <3>2. /\ worker' \in [Devices -> Worker] /\ worker'[d].step = step /\ worker'[d].req = worker[d].req
          /\ \A e \in Devices \ {d} : worker'[e] = worker[e]
      BY <1>0, <1>3, <3>1, WorkerGoes
    <3> QED BY <1>0, <2>2, <3>1, <3>2 DEF Types
  <2>3. CASE Commit(d)
    <3> DEFINE r == worker[d].req
               f == folder[d]
    <3>1. worker[d].step = "owned" /\ r \in Requests /\ f \in Folders
      BY <1>0, <2>3 DEF Commit, At, LoopOf, Types
    <3>2. local[d][f] \in Commits /\ source[r].base \in Commits
      BY <1>0, <3>1 DEF Types, Request
    <3>3. ASSUME NEW head \in Commits
          PROVE  LET grown == [local EXCEPT ![d][f] = head] IN grown \in [Devices -> [Folders -> Commits]]
      BY <1>0, <3>1 DEF Types
    <3>4. CASE local' = local /\ Goes(d, "failing")
      BY <2>2, <3>1, <3>4
    <3>5. ASSUME NEW head \in Synchronized(local[d][f], source[r].base), 
                 local' = [local EXCEPT ![d][f] = head] \/ local' = [local EXCEPT ![d][f] = Append(head, r)]
          PROVE  local' \in [Devices -> [Folders -> Commits]]
      <4>1. head \in Commits
        BY <3>2, SynchronizedIs
      <4>2. Append(head, r) \in Commits
        BY <3>1, <4>1, OneMore
      <4> QED BY <3>3, <3>5, <4>1, <4>2
    <3>6. CASE Goes(d, "failing") /\ local' \in [Devices -> [Folders -> Commits]]
      <4>1. /\ worker' \in [Devices -> Worker] /\ worker'[d].step = "failing" /\ worker'[d].req = worker[d].req
            /\ \A e \in Devices \ {d} : worker'[e] = worker[e]
        BY <1>0, <1>3, <3>6, WorkerGoes
      <4> QED BY <3>1, <3>6, <4>1
    <3>7. ASSUME NEW head \in Synchronized(local[d][f], source[r].base), local' \in [Devices -> [Folders -> Commits]],
                 worker' = [worker EXCEPT ![d].step = "committed", ![d].head = Append(head, r)]
          PROVE  <1>5!:
      <4>1. Append(head, r) \in Commits /\ Append(head, r) # <<>> /\ Last(Append(head, r)) = r
        BY <3>1, <3>2, SynchronizedIs, OneMore
      <4> DEFINE h == Append(head, r)
      <4>2. worker' = [worker EXCEPT ![d] = [[worker[d] EXCEPT !.step = "committed"] EXCEPT !.head = h]]
        BY <1>0, <3>7 DEF Types, Worker
      <4> HIDE DEF h
      <4>3. [[worker[d] EXCEPT !.step = "committed"] EXCEPT !.head = h] \in Worker
        BY <1>0, <1>3, <4>1 DEF Worker, h
      <4>4. /\ worker' \in [Devices -> Worker] /\ worker'[d].step = "committed" /\ worker'[d].head = h
            /\ worker'[d].req = r /\ \A e \in Devices \ {d} : worker'[e] = worker[e]
        BY <1>0, <4>2, <4>3 DEF Types, Worker
      <4> QED BY <3>1, <3>7, <4>1, <4>4 DEF h
    <3> QED BY <2>3, <3>4, <3>5, <3>6, <3>7 DEF Commit
  <2>4. CASE Discard(d) \/ Report(d) \/ Stop(d)
    BY <2>1, <2>4 DEF Discard, Report, Stop
  <2>5. CASE Own(d) \/ UploadRefused(d)
    <3>1. worker[d].step \in {"taken", "committed"} /\ local' = local /\ (Goes(d, "failing") \/ Goes(d, "owned"))
      BY <2>5 DEF Own, UploadRefused, At
    <3>2. worker[d].req \in Requests
      BY <1>0, <3>1 DEF LoopOf
    <3> QED BY <2>2, <3>1, <3>2
  <2> QED BY <2>3, <2>4, <2>5
<1>6. Types'
  BY <1>0, <1>1, <1>4, <1>5 DEF Types
<1>7. \A e \in Devices : Excluded(e)'
  BY <1>1, <1>4, ExcludedKept
<1>8. \A e \in Devices : Shown(e)' /\ LoopOf(e)'
  BY <1>1, <1>5, ConnectorStep
<1>9. \A r \in Requests : PublishedOf(r)'
  BY <1>2, <1>4, PublishedKept
<1> QED BY <1>6, <1>7, <1>8, <1>9, InvNext

(* The central ref moves to a commit that ends with the request, from the  *)
(* very commit the request was made against; whether or not its record     *)
(* comes to say so.                                                        *)
LEMMA UploadStep == ASSUME Inv, NEW d \in Devices, Upload(d) \/ UploadCrash(d) PROVE Inv'
<1>0. Types /\ (\A e \in Devices : Excluded(e) /\ Shown(e) /\ LoopOf(e)) /\ worker[d] \in Worker
  BY InvParts DEF Types
<1> DEFINE r == worker[d].req
           h == worker[d].head
<1>1. /\ worker[d].step = "committed" /\ r \in Requests /\ bundles' = bundles \cup {r}
      /\ source[r].status = "working" /\ h # <<>> /\ Last(h) = r
      /\ source[r] \in Request /\ source[r].base \in Commits /\ h \in Commits
  BY <1>0 DEF Upload, UploadCrash, Uploading, At, Due, Has, LoopOf, Types, Request, Worker
<1>2. UNCHANGED <<awaited, revoked, folder, local, asked>>
  BY DEF Upload, UploadCrash, devices, choice
<1>3. central' \in Commits /\ IsPrefix(central, central') /\ (central' = central \/ central' = h)
  <2>1. CASE central' = central
    BY <1>0, <2>1, PrefixOrder DEF Types
  <2>2. CASE Importable(source[r].base, h) /\ central' = h
    BY <1>1, <2>2 DEF Importable
  <2> QED BY <2>1, <2>2 DEF Upload, UploadCrash
<1>4. /\ worker' \in [Devices -> Worker] /\ \A e \in Devices \ {d} : worker'[e] = worker[e]
      /\ worker'[d].step = "idle" \/ (worker'[d].step = "failing" /\ worker'[d].req \in Requests)
  <2>1. Rests(d) \/ Goes(d, "failing")
    BY DEF Upload, UploadCrash
  <2>2. "failing" \in Steps
    BY DEF Steps
  <2> QED BY <1>0, <1>1, <2>1, <2>2, WorkerRests, WorkerGoes
<1>5. /\ selection' \in [Devices -> Selection] /\ presence' \in [Devices -> Presence]
      /\ selection' = selection \/ \A e \in Devices : selection'[e].status = "none"
  <2>1. CASE UNCHANGED <<selection, presence>>
    BY <1>0, <2>1 DEF Types
  <2>2. CASE Forget
    <3>1. NoSelection \in Selection /\ NoSelection.status = "none" /\ "lost" \in Presence
      BY DEF NoSelection, Selection, Answers, Presence
    <3>2. selection' = [e \in Devices |-> NoSelection] /\ presence' = [e \in Devices |-> "lost"]
      BY <2>2 DEF Forget
    <3> QED BY <3>1, <3>2
  <2> QED BY <2>1, <2>2 DEF Upload, UploadCrash, devices, choice
<1>6. /\ source' \in [Requests -> Request]
      /\ source' = source \/ (/\ source'[r].status = "published" /\ source'[r].head = h /\ central' = h
                              /\ source'[r].base = source[r].base /\ IsPrefix(source[r].base, h)
                              /\ source'[r].device = source[r].device
                              /\ \A q \in Requests \ {r} : source'[q] = source[q])
  <2>1. CASE source' = source
    BY <1>0, <2>1 DEF Types
  <2>2. CASE /\ Importable(source[r].base, h) /\ central' = h
             /\ source' = [source EXCEPT ![r] = Published(r, h)]
    <3>1. Published(r, h) \in Request /\ Published(r, h).status = "published" /\ Published(r, h).head = h
          /\ Published(r, h).base = source[r].base /\ Published(r, h).device = source[r].device
      BY <1>1 DEF Published, Request, Status
    <3> QED BY <1>0, <1>1, <2>2, <3>1 DEF Types, Importable
  <2> QED BY <2>1, <2>2 DEF Upload, UploadCrash
<1> HIDE DEF r, h
<1>7. Types'
  BY <1>0, <1>1, <1>2, <1>3, <1>4, <1>5, <1>6 DEF Types
<1>8. ASSUME NEW e \in Devices
      PROVE  Excluded(e)' /\ Shown(e)' /\ LoopOf(e)'
  <2>1. CASE selection' = selection
    <3>1. Excluded(e)'
      BY <1>1, <1>2, <1>6, <2>1, ExcludedKept
    <3> QED BY <1>2, <1>4, <2>1, <3>1, ConnectorStep
  <2>2. CASE \A x \in Devices : selection'[x].status = "none"
    <3>1. CASE e = d
      BY <1>4, <2>2, <3>1 DEF Excluded, Shown, LoopOf, At, Pending
    <3>2. CASE e # d
      BY <1>0, <1>2, <1>4, <2>2, <3>2 DEF Excluded, Shown, LoopOf, At, Pending
    <3> QED BY <3>1, <3>2
  <2> QED BY <1>5, <2>1, <2>2
<1>9. ASSUME NEW q \in Requests
      PROVE  PublishedOf(q)'
  <2>1. CASE source'[q] = source[q]
    BY <1>3, <2>1, PublishedKept
  <2>2. CASE q = r /\ source' # source
    <3>1. IsPrefix(h, h)
      BY <1>1, PrefixOrder
    <3> QED BY <1>1, <1>6, <2>2, <3>1 DEF PublishedOf, Has
  <2> QED BY <1>6, <2>1, <2>2
<1> QED BY <1>7, <1>8, <1>9, InvNext

(* Every step keeps the invariant.                                         *)
LEMMA NextInv == Inv /\ [Next]_vars => Inv'
<1> SUFFICES ASSUME Inv, [Next]_vars
             PROVE  Inv'
  OBVIOUS
<1>1. ASSUME NEW r \in Requests, QueueSource(r) \/ EndRequest(r) \/ \E d \in Devices : CheckSource(r, d)
      PROVE  Inv'
  <2>1. ASSUME NEW d \in Devices, CheckSource(r, d) \/ QueueSource(r) \/ EndRequest(r)
        PROVE  Inv'
    BY <2>1, RequestStep
  <2>2. CASE Devices = {}
    <3>1. QueueSource(r) \/ EndRequest(r)
      BY <1>1, <2>2
    <3>2. UNCHANGED <<bundles, central, revoked, presence, selection, asked, worker, folder, local>>
      BY <3>1 DEF QueueSource, EndRequest, records, devices, choice, connector
    <3>3. Types /\ central' \in Commits /\ IsPrefix(central, central') /\ "queued" \in Status
      BY <3>2, PrefixOrder DEF Inv, Types, Status
    <3>4. /\ source' \in [Requests -> Request] /\ awaited' \subseteq Requests
          /\ \A q \in Requests : source'[q] = source[q] \/ source'[q].status = "queued"
      BY <3>1, <3>3, SetStatus DEF QueueSource, EndRequest, records, Types
    <3>5. \A q \in Requests : PublishedOf(q)'
      BY <3>3, <3>4, PublishedKept
    <3>6. Types'
      BY <3>2, <3>3, <3>4 DEF Types
    <3> QED BY <2>2, <3>5, <3>6, InvNext
  <2> QED BY <1>1, <2>1, <2>2
<1>2. CASE PassTime
  <2>1. ASSUME NEW d \in Devices PROVE Inv'
    BY <1>2, SelectionStep
  <2>2. CASE Devices = {}
    BY <1>2, <2>2 DEF PassTime, Online
  <2> QED BY <2>1, <2>2
<1>3. CASE Restart
  BY <1>3, RestartStep
<1>4. ASSUME NEW d \in Devices, ChooseFolder(d) \/ Revoke(d) \/ Heartbeat(d) \/ Works(d) \/ UploadCrash(d) \/ Stop(d)
      PROVE  Inv'
  <2>1. CASE ChooseFolder(d) \/ Revoke(d) \/ Heartbeat(d)
    BY <2>1, SelectionStep
  <2>2. CASE ClaimFolder(d) \/ Choose(d) \/ FinishFolder(d)
    BY <2>2, FolderStep
  <2>3. CASE Claim(d)
    BY <2>3, ClaimStep
  <2>4. CASE Discard(d) \/ Own(d) \/ Commit(d) \/ UploadRefused(d) \/ Report(d) \/ Stop(d)
    BY <2>4, WorkStep
  <2>5. CASE Upload(d) \/ UploadCrash(d)
    BY <2>5, UploadStep
  <2> QED BY <1>4, <2>1, <2>2, <2>3, <2>4, <2>5 DEF Works
<1>5. CASE UNCHANGED vars
  BY <1>5 DEF vars, server, records, devices, choice, connector, Inv, Types, FolderIsSettled, LoopOK, LoopOf,
              PublishedOK, PublishedOf, At, Has
<1> QED BY <1>1, <1>2, <1>3, <1>4, <1>5 DEF Next

(* What the invariant says to a reader.                                    *)
LEMMA InvImplies == Inv => TypeOK /\ PublishedIsCentral /\ FolderIsSettled
<1> SUFFICES ASSUME Inv
             PROVE  TypeOK /\ PublishedIsCentral /\ FolderIsSettled
  OBVIOUS
<1>1. /\ Types /\ \A d \in Devices : LoopOf(d)
      /\ \A r \in Requests : PublishedOf(r)
  BY InvParts
<1>2. \A r \in Requests : source[r] \in Request
  BY <1>1 DEF Types
<1>3. TypeOK
  BY <1>1, <1>2 DEF TypeOK, Types, Request, LoopOf, At, PublishedOf
<1>4. PublishedIsCentral
  BY <1>1 DEF PublishedIsCentral, PublishedOf
<1> QED BY <1>3, <1>4 DEF Inv

(* Only an upload moves the central ref, only a commit a checkout, each    *)
(* ahead of where it was; and only what is not yet decided is decided.     *)
LEMMA StepGrows == ASSUME Inv, [Next]_vars PROVE HistoriesGrow /\ OutcomeStays
<1>0. Types /\ \A d \in Devices : LoopOf(d)
  BY InvParts
<1>1. /\ IsPrefix(central, central)
      /\ \A d \in Devices, f \in Folders : local[d][f] \in Commits /\ IsPrefix(local[d][f], local[d][f])
  BY <1>0, PrefixOrder DEF Types
<1> DEFINE Same == central' = central /\ local' = local
           Kept == \A r \in Requests : source'[r] = source[r] \/ source[r].status \notin {"published", "failed"}
<1>2. /\ Same => HistoriesGrow
      /\ Kept => OutcomeStays
  BY <1>1 DEF HistoriesGrow, OutcomeStays
<1>3. ASSUME NEW r \in Requests, QueueSource(r) \/ EndRequest(r) \/ \E d \in Devices : CheckSource(r, d)
      PROVE  Same /\ Kept
  <2>1. Same
    BY <1>3 DEF QueueSource, EndRequest, CheckSource, records, connector
  <2>2. Kept
    BY <1>0, <1>3 DEF QueueSource, EndRequest, CheckSource, records, Has, SetSource, Types
  <2> QED BY <2>1, <2>2
<1>4. CASE PassTime
  <2>1. Same /\ source' = source
    BY <1>4 DEF PassTime, records, connector
  <2> QED BY <1>2, <2>1
<1>5. CASE Restart
  <2>1. Same
    BY <1>5 DEF Restart, connector
  <2>2. Kept
    BY <1>0, <1>5 DEF Restart, Has, Types
  <2> QED BY <1>2, <2>1, <2>2
<1>6. ASSUME NEW d \in Devices, ChooseFolder(d) \/ Revoke(d) \/ Heartbeat(d) \/ Stop(d)
      PROVE  Same /\ Kept
  BY <1>6 DEF ChooseFolder, Revoke, Heartbeat, Stop, records, connector, server
<1>7. ASSUME NEW d \in Devices, ClaimFolder(d) \/ Choose(d) \/ FinishFolder(d) \/ Discard(d) \/ Own(d) \/ UploadRefused(d)
      PROVE  Same /\ Kept
  BY <1>7 DEF ClaimFolder, Choose, FinishFolder, Discard, Own, UploadRefused, records, server
<1>8. ASSUME NEW d \in Devices, Claim(d)
      PROVE  Same /\ Kept
  <2>1. Same
    BY <1>8 DEF Claim
  <2>2. PICK dropped \in SUBSET {r \in QueuedFor(d) \ Unreadable(d) : r \notin awaited} :
          \/ source' = SetAll(dropped, "failed")
          \/ \E job \in QueuedFor(d) \ Unreadable(d) :
               source' = [SetAll(dropped, "failed") EXCEPT ![job].status = "working"]
    BY <1>8 DEF Claim
  <2>3. \A r \in QueuedFor(d) : source[r].status = "queued"
    BY DEF QueuedFor, Has
  <2>4. \A r \in Requests \ QueuedFor(d) : SetAll(dropped, "failed")[r] = source[r]
    BY DEF SetAll
  <2>5. SetAll(dropped, "failed") = [r \in Requests |-> SetAll(dropped, "failed")[r]]
    BY DEF SetAll
  <2>6. \A r \in Requests \ QueuedFor(d) : source'[r] = source[r]
    BY <2>2, <2>4, <2>5
  <2> QED BY <2>1, <2>3, <2>6
<1>9. ASSUME NEW d \in Devices, Commit(d)
      PROVE  HistoriesGrow /\ Kept
  <2> DEFINE r == worker[d].req
             f == folder[d]
  <2>1. UNCHANGED <<source, central>> /\ worker[d].step = "owned" /\ f \in Folders /\ r \in Requests
    BY <1>0, <1>9 DEF Commit, server, records, At, LoopOf, Types
  <2>2. local[d][f] \in Commits /\ source[r].base \in Commits
    BY <1>0, <2>1 DEF Types, Request
  <2>3. ASSUME NEW head \in Commits, IsPrefix(local[d][f], head), local' = [local EXCEPT ![d][f] = head]
        PROVE  \A e \in Devices, g \in Folders : IsPrefix(local[e][g], local'[e][g])
    <3>1. \A e \in Devices, g \in Folders :
            local'[e][g] = IF e = d /\ g = f THEN head ELSE local[e][g]
      BY <1>0, <2>1, <2>3 DEF Types
    <3> QED BY <1>1, <2>3, <3>1
  <2>4. ASSUME NEW head \in Synchronized(local[d][f], source[r].base)
        PROVE  /\ head \in Commits /\ IsPrefix(local[d][f], head)
               /\ Append(head, r) \in Commits /\ IsPrefix(local[d][f], Append(head, r))
    <3>1. head \in Commits /\ IsPrefix(local[d][f], head)
      BY <2>2, SynchronizedIs
    <3>2. Append(head, r) \in Commits /\ IsPrefix(head, Append(head, r))
      BY <2>1, <3>1, OneMore
    <3> QED BY <2>2, <3>1, <3>2, PrefixOrder
  <2>5. CASE local' = local
    BY <1>2, <2>1, <2>5
  <2>6. CASE \E head \in Synchronized(local[d][f], source[r].base) :
               local' = [local EXCEPT ![d][f] = head] \/ local' = [local EXCEPT ![d][f] = Append(head, r)]
    <3>1. PICK head \in Synchronized(local[d][f], source[r].base) :
            local' = [local EXCEPT ![d][f] = head] \/ local' = [local EXCEPT ![d][f] = Append(head, r)]
      BY <2>6
    <3>2. \A e \in Devices, g \in Folders : IsPrefix(local[e][g], local'[e][g])
      BY <2>3, <2>4, <3>1
    <3> QED BY <1>1, <2>1, <3>2 DEF HistoriesGrow
  <2> QED BY <1>9, <2>5, <2>6 DEF Commit
<1>10. ASSUME NEW d \in Devices, Upload(d) \/ UploadCrash(d)
       PROVE  HistoriesGrow /\ Kept
  <2> DEFINE r == worker[d].req
             h == worker[d].head
  <2>1. /\ local' = local /\ source[r].status = "working"
        /\ central' = central \/ (central' = h /\ Importable(source[r].base, h))
    BY <1>10 DEF Upload, UploadCrash, Uploading, Due, Has
  <2>2. IsPrefix(central, central')
    BY <1>1, <2>1 DEF Importable
  <2>3. source' = source \/ source' = [source EXCEPT ![r] = Published(r, h)]
    BY <1>10 DEF Upload, UploadCrash
  <2>4. Kept
    BY <1>0, <2>1, <2>3 DEF Types
  <2> QED BY <1>1, <2>1, <2>2, <2>4 DEF HistoriesGrow
<1>11. ASSUME NEW d \in Devices, Report(d)
       PROVE  Same /\ Kept
  BY <1>0, <1>11 DEF Report, Failable, Has, SetSource, Types
<1>12. CASE UNCHANGED vars
  <2>1. Same /\ source' = source
    BY <1>12 DEF vars, server, records, connector
  <2> QED BY <1>2, <2>1
<1> QED BY <1>2, <1>3, <1>4, <1>5, <1>6, <1>7, <1>8, <1>9, <1>10, <1>11, <1>12 DEF Next, Works

(* The invariant holds for ever.                                           *)
LEMMA InvHolds == ASSUME Folders # {} PROVE Spec => []Inv
<1> QED BY InitInv, NextInv, PTL DEF Spec

--------------------------------------------------------------------------------
(***************************************************************************)
(* What the publication of source keeps to.                                *)
(***************************************************************************)

(* What a run is given to build is its own request's commit, descends from *)
(* the central head of that request, and stays in the central repository,  *)
(* however many developers publish and wherever a process stops            *)
(* (developer-connectors.ts:865-870, component-git.ts:94-100).             *)
THEOREM PublicationsAreCentral == ASSUME Folders # {} PROVE Spec => []PublishedIsCentral
<1> QED BY InvHolds, InvImplies, PTL

(* Choosing a folder and publishing from it exclude each other, and a      *)
(* folder shown as selected is the one published from, over late and lost  *)
(* answers and restarts (developer-connectors.ts, Connector.cjs).          *)
THEOREM FoldersAreSettled == ASSUME Folders # {} PROVE Spec => []FolderIsSettled
<1> QED BY InvHolds, InvImplies, PTL

(* No commit is ever lost, neither centrally nor in a developer's checkout *)
(* (component-git.ts:100, Connector.cjs:303-324).                          *)
THEOREM NoCommitIsLost == ASSUME Folders # {} PROVE Spec => [][HistoriesGrow]_vars
<1>1. Inv /\ [Next]_vars => [HistoriesGrow]_vars
  BY StepGrows
<1> QED BY <1>1, InvHolds, PTL DEF Spec

(* A publication once recorded is not undone by the failure that a lost    *)
(* answer has its connector report (developer-connectors.ts:893-898).      *)
THEOREM OutcomesStay == ASSUME Folders # {} PROVE Spec => [][OutcomeStays]_vars
<1>1. Inv /\ [Next]_vars => [OutcomeStays]_vars
  BY StepGrows
<1> QED BY <1>1, InvHolds, PTL DEF Spec
================================================================================
