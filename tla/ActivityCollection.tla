---------------------------- MODULE ActivityCollection --------------------------
(***************************************************************************)
(* The file activity a connector collects of its machine                   *)
(* (deployment/servix/SystemDiscovery.cjs) and the history that the control*)
(* plane keeps of it (apps/control-plane/src/system-discovery.ts): one     *)
(* device, its revisioned policy, the watchers that follow the policy, the *)
(* buffer with its spool on disk, and the observations by which the buffer *)
(* is handed over.                                                         *)
(*                                                                         *)
(* A change of a file is a number, in the order the watchers notice them.  *)
(* An event names it by a boot id and a sequence number; both come from the*)
(* spool when the connector starts again.                                  *)
(***************************************************************************)
EXTENDS Naturals, Sequences, SequencesExt, FiniteSets, FiniteSetsExt

CONSTANTS
  Drives,       (* the roots besides the repository                         *)
  Repository,   (* the root of the project                                  *)
  None,
  CrossDevice,  (* whether a scan asks for the device of a root (Linux)     *)
  Batch,        (* events in an observation                                 *)
  MaxEvents,    (* events in the buffer                                     *)
  MaxChanges,   (* bound: changes noticed                                   *)
  MaxPolicies,  (* bound: revisions of the policy                           *)
  MaxBoots      (* bound: starts of the connector after the first           *)

VARIABLES
  policies,   (* fc_*.policy.r*.json, in the order of their revisions       *)
  history,    (* the events the control plane keeps                         *)
  cursors,    (* of each boot id, the last sequence number acknowledged     *)
  stored,     (* how often each change was added to the history             *)
  enrolled,   (* whether the credential is good                             *)
  adopted,    (* the revision the collector follows, None before the first  *)
  watching,   (* the roots it watches                                       *)
  toScan,     (* the roots it is to watch                                   *)
  scanning,   (* the root the scan is at, None when it rests                *)
  noticed,    (* the changes on their way to the buffer                     *)
  buffer,     (* queue                                                      *)
  tick,       (* what the collector's tick does                             *)
  counter,    (* boot id and last sequence number                           *)
  spool,      (* spool.json, None before the first                          *)
  changes,    (* changes so far                                             *)
  boots       (* starts so far                                              *)

server    == <<policies, history, cursors, stored, enrolled>>
watchers  == <<adopted, watching, toScan, scanning, noticed>>
vars      == <<server, watchers, buffer, tick, counter, spool, changes, boots>>

--------------------------------------------------------------------------------
Roots   == Drives \cup {Repository}
Changes == 1 .. MaxChanges
Boots   == 0 .. MaxBoots
Resting == [step |-> "idle", rev |-> 0, batch |-> <<>>]
Default == [enabled |-> FALSE, drives |-> TRUE, content |-> FALSE]

Init ==
  /\ policies = <<>> /\ history = {} /\ cursors = [b \in Boots |-> 0]
  /\ stored = [c \in Changes |-> 0] /\ enrolled = TRUE
  /\ adopted = None /\ watching = {} /\ toScan = {} /\ scanning = None /\ noticed = {}
  /\ buffer = <<>> /\ tick = Resting
  /\ counter = [boot |-> 0, seq |-> 0] /\ spool = None /\ changes = 0 /\ boots = 0

PolicyAt(rev) == IF rev = 0 THEN Default ELSE policies[rev]
Adopted       == IF adopted = None THEN Default ELSE PolicyAt(adopted)
Scope(policy) ==
  IF ~policy.enabled THEN {} ELSE {Repository} \cup IF policy.drives THEN Drives ELSE {}

--------------------------------------------------------------------------------
(* The control plane.                                                      *)

(* configure: each revision is a file of its own.                          *)
ConfigurePolicy(policy) ==
  /\ Len(policies) < MaxPolicies
  /\ policies' = Append(policies, policy)
  /\ UNCHANGED <<history, cursors, stored, enrolled, watchers, buffer, tick, counter, spool, changes, boots>>

(* prune: what is too old goes, however it was counted; and quotas.        *)
Prune ==
  /\ \E e \in history : history' = history \ {e}
  /\ UNCHANGED <<policies, cursors, stored, enrolled, watchers, buffer, tick, counter, spool, changes, boots>>

Withdraw ==
  /\ enrolled
  /\ enrolled' = FALSE
  /\ UNCHANGED <<policies, history, cursors, stored, watchers, buffer, tick, counter, spool, changes, boots>>

(* Faulty form of High: only the history is asked, and that is pruned.     *)
HighOfHistory(b) == Max({0} \cup {e.seq : e \in {f \in history : f.boot = b}})
High(b) == Max({cursors[b]} \cup {e.seq : e \in {f \in history : f.boot = b}})

(* What an observation adds.  A policy that is not enabled keeps nothing,  *)
(* and text is kept only where the policy selects it.                      *)
Kept(e, policy) == [e EXCEPT !.content = @ /\ policy.content /\ e.root = Repository]
Added(b, batch, policy) ==
  IF policy.enabled THEN {Kept(e, policy) : e \in {f \in Range(batch) : f.seq > High(b)}} ELSE {}

Acknowledged(b, batch, policy) == Max({High(b)} \cup {e.seq : e \in Range(batch)})

--------------------------------------------------------------------------------
(* The watchers.                                                           *)

(* scan: a root is taken from the queue; a scan that began before the      *)
(* policy changed breaks off where it looks at the generation.  On Linux it*)
(* waits once more between that look and the watch.                        *)
Scan(r) ==
  /\ scanning = None /\ r \in toScan
  /\ toScan' = toScan \ {r}
  /\ scanning' = [root |-> r, old |-> FALSE, looked |-> FALSE]
  /\ UNCHANGED <<server, adopted, watching, noticed, buffer, tick, counter, spool, changes, boots>>

Watch ==
  /\ scanning # None
  /\ \/ /\ scanning.old /\ ~scanning.looked                (* another generation *)
        /\ scanning' = None /\ UNCHANGED watching
     \/ /\ CrossDevice /\ ~scanning.old /\ ~scanning.looked
        /\ scanning' = [scanning EXCEPT !.looked = TRUE] /\ UNCHANGED watching
     \/ /\ scanning.looked \/ (~CrossDevice /\ ~scanning.old)
        /\ watching' = watching \cup {scanning.root}
        /\ scanning' = None
     \/ /\ scanning' = None /\ UNCHANGED watching           (* it failed          *)
  /\ UNCHANGED <<server, adopted, toScan, noticed, buffer, tick, counter, spool, changes, boots>>

(* changed, scheduleRecord: the change waits for its quarter of a second.  *)
Notice(r) ==
  /\ r \in watching /\ changes < MaxChanges
  /\ changes' = changes + 1
  /\ noticed' = noticed \cup {[id |-> changes + 1, root |-> r]}
  /\ UNCHANGED <<server, adopted, watching, toScan, scanning, buffer, tick, counter, spool, boots>>

(* enqueue, retainActivity: the newest are retained.                       *)
Retained(queue) == IF Len(queue) > MaxEvents THEN SubSeq(queue, Len(queue) - MaxEvents + 1, Len(queue)) ELSE queue

Enqueue(change, root, text) ==
  /\ counter' = [counter EXCEPT !.seq = @ + 1]
  /\ buffer' = Retained(Append(buffer, [id |-> change, boot |-> counter.boot, seq |-> counter.seq + 1,
                                        root |-> root, content |-> text]))

Record(n) ==
  /\ n \in noticed
  /\ noticed' = noticed \ {n}
  /\ IF Adopted.enabled
     THEN Enqueue(n.id, n.root, Adopted.content /\ n.root = Repository)
     ELSE UNCHANGED <<counter, buffer>>
  /\ UNCHANGED <<server, adopted, watching, toScan, scanning, tick, spool, changes, boots>>

(* What the audit log of the system tells in a tick, of any root in scope, *)
(* watched or not.                                                         *)
Audit(r) ==
  /\ tick.step = "sampling" /\ changes < MaxChanges
  /\ r \in Scope(Adopted)
  /\ changes' = changes + 1
  /\ Enqueue(changes + 1, r, FALSE)
  /\ UNCHANGED <<server, watchers, tick, spool, boots>>

--------------------------------------------------------------------------------
(* The tick.                                                               *)

At(step) == tick.step = step

CloseWatchers ==
  /\ watching' = {} /\ noticed' = {}
  /\ scanning' = IF scanning = None THEN None ELSE [scanning EXCEPT !.old = TRUE]

Fetch ==
  /\ At("idle") /\ enrolled
  /\ tick' = [Resting EXCEPT !.step = "fetched", !.rev = Len(policies)]
  /\ UNCHANGED <<server, watchers, buffer, counter, spool, changes, boots>>

(* Faulty form of Restricted: what was buffered stays as it was.           *)
RestrictedNot(queue, policy) == queue
Restricted(queue, policy) ==
  [i \in DOMAIN queue |-> [queue[i] EXCEPT !.content = @ /\ policy.content]]

(* configure: what is buffered may be text the new policy does not select. *)
Configure ==
  /\ At("fetched")
  /\ LET policy == PolicyAt(tick.rev)
     IN IF adopted = tick.rev
        THEN UNCHANGED <<watchers, buffer>>
        ELSE /\ CloseWatchers
             /\ adopted' = tick.rev
             /\ buffer' = IF policy.enabled THEN Restricted(buffer, policy) ELSE <<>>
             /\ toScan' = Scope(policy)
  /\ tick' = [tick EXCEPT !.step = "sampling"]
  /\ UNCHANGED <<server, counter, spool, changes, boots>>

Saving == "saving"
Sample ==
  /\ At("sampling")
  /\ tick' = [tick EXCEPT !.step = Saving, !.batch = SubSeq(buffer, 1, Min({Batch, Len(buffer)}))]
  /\ UNCHANGED <<server, watchers, buffer, counter, spool, changes, boots>>

(* persist: a new file in the place of the old.                            *)
Persist ==
  /\ tick.step \in {"saving", "ending"}
  /\ spool' = [boot |-> counter.boot, seq |-> counter.seq, queue |-> buffer]
  /\ tick' = IF At("saving") THEN [tick EXCEPT !.step = "sending"] ELSE Resting
  /\ UNCHANGED <<server, watchers, buffer, counter, changes, boots>>

(* observe: accepted only under the revision that is in force; the answer  *)
(* names the boot id and the number up to which nothing is to be sent again.*)
(* Numbers increase along the buffer: what is acknowledged is its beginning.*)
Acknowledge(upto) ==
  \E n \in 0 .. Len(buffer) :
    /\ \A i \in 1 .. n : buffer[i].seq <= upto
    /\ \A i \in n + 1 .. Len(buffer) : buffer[i].seq > upto
    /\ buffer' = SubSeq(buffer, n + 1, Len(buffer))
Taken ==
  LET b == counter.boot
      policy == PolicyAt(Len(policies))
  IN /\ At("sending") /\ enrolled /\ tick.rev = Len(policies)
     /\ history' = history \cup Added(b, tick.batch, policy)
     /\ stored' = [c \in Changes |-> stored[c] + Cardinality({e \in Added(b, tick.batch, policy) : e.id = c})]
     /\ cursors' = [cursors EXCEPT ![b] = Acknowledged(b, tick.batch, policy)]
     /\ tick' = [tick EXCEPT !.step = "ending"]
     /\ UNCHANGED <<policies, enrolled, watchers, counter, spool, changes, boots>>
Accepted   == Taken /\ Acknowledge(cursors'[counter.boot])
Unanswered == Taken /\ UNCHANGED buffer
NotTaken ==
  /\ At("sending") /\ enrolled
  /\ tick' = [tick EXCEPT !.step = "ending"]
  /\ UNCHANGED <<server, watchers, buffer, counter, spool, changes, boots>>

(* A credential that is refused ends the consent with all it collected.    *)
Refused ==
  /\ ~enrolled /\ tick.step \in {"idle", "sending"}
  /\ CloseWatchers
  /\ buffer' = <<>> /\ toScan' = {}
  /\ tick' = [Resting EXCEPT !.step = "ending"]
  /\ UNCHANGED <<server, adopted, counter, spool, changes, boots>>

(* The connector stops and starts: what it had in memory is lost.          *)
Boot ==
  /\ boots < MaxBoots
  /\ boots' = boots + 1
  /\ adopted' = None /\ watching' = {} /\ toScan' = {} /\ scanning' = None /\ noticed' = {}
  /\ tick' = Resting
  /\ IF spool = None
     THEN counter' = [boot |-> boots + 1, seq |-> 0] /\ buffer' = <<>>
     ELSE counter' = [boot |-> spool.boot, seq |-> spool.seq] /\ buffer' = spool.queue
  /\ UNCHANGED <<server, spool, changes>>

--------------------------------------------------------------------------------
Ticks == Fetch \/ Configure \/ Sample \/ Persist \/ Accepted \/ Unanswered \/ NotTaken \/ Refused

Next ==
  \/ \E policy \in [enabled : BOOLEAN, drives : BOOLEAN, content : BOOLEAN] : ConfigurePolicy(policy)
  \/ Prune \/ Withdraw \/ Watch \/ Ticks \/ Boot
  \/ \E r \in Roots : Scan(r) \/ Notice(r) \/ Audit(r)
  \/ \E n \in noticed : Record(n)

Spec == Init /\ [][Next]_vars

(* The tick comes every five seconds, and not every observation is lost.   *)
FairSpec ==
  /\ Spec
  /\ WF_vars(Ticks)
  /\ SF_vars(Accepted)

--------------------------------------------------------------------------------
(* Properties.                                                             *)

Known == history \cup Range(buffer) \cup Range(tick.batch) \cup IF spool = None THEN {} ELSE Range(spool.queue)
TypeOK ==
  /\ adopted \in {None} \cup 0 .. Len(policies) /\ tick.rev \in 0 .. Len(policies)
  /\ Len(buffer) <= MaxEvents
  /\ \A e \in Known : e.id \in Changes /\ e.boot \in Boots /\ e.root \in Roots
  /\ watching \subseteq Roots /\ toScan \subseteq Roots

(* An event is one change for good: no restart makes a number name another *)
(* change, which the control plane would take for one it has; and no change*)
(* enters the history twice, although answers are lost, the connector stops*)
(* and the history is pruned (SystemDiscovery.cjs:333-354, 818-824,        *)
(* system-discovery.ts:590-641).                                           *)
EachChangeOnce ==
  /\ \A e, f \in Known : e.boot = f.boot /\ e.seq = f.seq => e.id = f.id
  /\ \A c \in Changes : stored[c] <= 1

(* What is sent is what the policy at hand selects: neither a text that was*)
(* buffered under an earlier policy, nor, where a scan does not wait after *)
(* its look at the generation, a watcher of an earlier policy's roots      *)
(* outlives it (SystemDiscovery.cjs:588-630, 510-550).                     *)
FollowsThePolicy ==
  /\ tick.step \in {"saving", "sending"} => \A e \in Range(tick.batch) : e.content => PolicyAt(tick.rev).content
  /\ CrossDevice \/ watching \subseteq Scope(Adopted)

(* A change that is buffered; it is handed over or given up in the end, so *)
(* that the buffer does not fill with what the control plane will not take.*)
Buffered(c) == \E i \in DOMAIN buffer : buffer[i].id = c
================================================================================
