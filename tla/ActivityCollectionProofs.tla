------------------------ MODULE ActivityCollectionProofs -----------------------
(***************************************************************************)
(* What the collection of activity keeps to, for any roots, batches,       *)
(* buffers and bounds.                                                     *)
(***************************************************************************)
EXTENDS ActivityCollection, SequenceTheorems, FiniteSetTheorems, TLAPS

Event  == [id : Nat, boot : Nat, seq : Nat, root : Roots, content : BOOLEAN]
Policy == [enabled : BOOLEAN, drives : BOOLEAN, content : BOOLEAN]
Sweep  == [root : Roots, old : BOOLEAN, looked : BOOLEAN]
Spool  == [boot : Nat, seq : Nat, queue : Seq(Event)]
Steps  == {"idle", "fetched", "sampling", "saving", "sending", "ending"}

(* The names of the model are told apart.                                  *)
Names ==
  /\ Batch \in Nat /\ MaxEvents \in Nat /\ MaxChanges \in Nat /\ MaxPolicies \in Nat /\ MaxBoots \in Nat
  /\ None \notin Nat /\ None \notin Sweep /\ None \notin Spool
  /\ CrossDevice \in BOOLEAN

Types ==
  /\ policies \in Seq(Policy) /\ history \subseteq Event
  /\ cursors \in [Boots -> Nat] /\ stored \in [Changes -> Nat]
  /\ adopted \in Nat \cup {None} /\ (adopted # None => adopted <= Len(policies))
  /\ watching \subseteq Roots /\ toScan \subseteq Roots /\ scanning \in Sweep \cup {None}
  /\ noticed \subseteq [id : Nat, root : Roots]
  /\ buffer \in Seq(Event) /\ Len(buffer) <= MaxEvents
  /\ tick \in [step : Steps, rev : Nat, batch : Seq(Event)] /\ tick.rev <= Len(policies)
  /\ counter \in [boot : Nat, seq : Nat] /\ counter.boot <= boots
  /\ spool \in Spool \cup {None} /\ (spool # None => Len(spool.queue) <= MaxEvents)
  /\ changes \in 0 .. MaxChanges /\ boots \in 0 .. MaxBoots

(* The numbers increase along a queue.                                     *)
Increasing(q) == \A i, j \in 1 .. Len(q) : i < j => q[i].seq < q[j].seq
Ordered ==
  /\ Increasing(buffer) /\ Increasing(tick.batch)
  /\ spool # None => Increasing(spool.queue)

(* A number names one change, and a change that waits has none yet.        *)
Numbered ==
  /\ \A e \in Known : e.boot = counter.boot /\ e.seq <= counter.seq /\ e.id \in 1 .. changes
  /\ \A e, f \in Known : e.seq = f.seq <=> e.id = f.id
  /\ \A n \in noticed :
       /\ n.id \in 1 .. changes /\ stored[n.id] = 0
       /\ \A e \in Known : e.id # n.id
       /\ \A m \in noticed : n.id = m.id => n = m

(* What was handed over is on disk: a restart does not give its number to  *)
(* another change.                                                         *)
Handed  == history \cup IF At("saving") THEN {} ELSE Range(tick.batch)
Spooled ==
  /\ \A e \in Handed : spool # None /\ e.seq <= spool.seq
  /\ spool # None =>
       /\ spool.boot = counter.boot /\ spool.seq <= counter.seq
       /\ \A e \in Range(spool.queue) : e.seq <= spool.seq

(* A change that was counted is not taken again.                           *)
Counted ==
  /\ \A e \in history : e.seq <= cursors[e.boot]
  /\ \A c \in Changes :
       /\ stored[c] <= 1
       /\ stored[c] > 0 => c <= changes /\ \A e \in Known : e.id = c => e.seq <= cursors[e.boot]

(* What is buffered is what the adopted policy selects, and so is what is  *)
(* watched, where a scan does not wait between its look and its watch.     *)
Selected ==
  /\ adopted # None => \A e \in Range(buffer) : e.content => Adopted.content
  /\ tick.step \in {"sampling", "saving", "sending"} => adopted = tick.rev
  /\ tick.step \in {"saving", "sending"} => \A e \in Range(tick.batch) : e.content => PolicyAt(tick.rev).content
  /\ toScan \subseteq Scope(Adopted)
  /\ ~CrossDevice =>
       /\ watching \subseteq Scope(Adopted)
       /\ scanning # None => ~scanning.looked /\ (~scanning.old => scanning.root \in Scope(Adopted))

Inv == Types /\ Ordered /\ Numbered /\ Spooled /\ Counted /\ Selected

--------------------------------------------------------------------------------
(***************************************************************************)
(* Queues.                                                                 *)
(***************************************************************************)

(* The range of a queue, by its positions.                                 *)
LEMMA RangeSeq ==
  ASSUME NEW q \in Seq(Event)
  PROVE  /\ Len(q) \in Nat
         /\ \A i \in 1 .. Len(q) : q[i] \in Range(q) /\ q[i] \in Event
         /\ \A e \in Range(q) : e \in Event /\ \E i \in 1 .. Len(q) : e = q[i]
BY DEF Range

(* A part of a queue has the events of the queue, in their order.          *)
LEMMA PartOfQueue ==
  ASSUME NEW q \in Seq(Event), NEW m \in Nat \ {0}, NEW n \in Nat, n <= Len(q)
  PROVE  /\ SubSeq(q, m, n) \in Seq(Event) /\ Len(SubSeq(q, m, n)) <= Len(q)
         /\ Len(SubSeq(q, m, n)) = IF m <= n THEN n - m + 1 ELSE 0
         /\ Range(SubSeq(q, m, n)) \subseteq Range(q)
         /\ Increasing(q) => Increasing(SubSeq(q, m, n))
<1>1. \A i \in m .. n : q[i] \in Event
  OBVIOUS
<1>2. /\ SubSeq(q, m, n) \in Seq(Event)
      /\ Len(SubSeq(q, m, n)) = IF m <= n THEN n - m + 1 ELSE 0
      /\ \A i \in 1 .. n - m + 1 : SubSeq(q, m, n)[i] = q[m + i - 1]
  BY <1>1, SubSeqProperties
<1>3. \A i \in 1 .. Len(SubSeq(q, m, n)) : SubSeq(q, m, n)[i] = q[m + i - 1] /\ m + i - 1 \in 1 .. Len(q)
  BY <1>2
<1>4. Range(SubSeq(q, m, n)) \subseteq Range(q)
  <2> SUFFICES ASSUME NEW e \in Range(SubSeq(q, m, n))
               PROVE  e \in Range(q)
    OBVIOUS
  <2>1. PICK i \in 1 .. Len(SubSeq(q, m, n)) : e = SubSeq(q, m, n)[i]
    BY <1>2, RangeSeq
  <2>2. e = q[m + i - 1] /\ m + i - 1 \in 1 .. Len(q)
    BY <1>3, <2>1
  <2> QED BY <2>2, RangeSeq
<1>5. ASSUME Increasing(q)
      PROVE  Increasing(SubSeq(q, m, n))
  BY <1>2, <1>3, <1>5 DEF Increasing
<1> QED BY <1>2, <1>4, <1>5

(* The empty queue.                                                        *)
LEMMA NoQueue == <<>> \in Seq(Event) /\ Range(<<>>) = {} /\ Increasing(<<>>) /\ Len(<<>>) = 0
BY EmptySeq DEF Range, Increasing

(* The greatest number of a set.                                           *)
LEMMA MaxIs ==
  ASSUME NEW S \in SUBSET Nat, NEW m \in S, \A x \in S : x <= m
  PROVE  Max(S) = m
<1>1. m \in S /\ \A y \in S : m >= y
  OBVIOUS
<1>2. Max(S) \in S /\ \A y \in S : Max(S) >= y
  BY <1>1 DEF Max
<1>3. Max(S) >= m /\ Max(S) <= m /\ Max(S) \in Nat /\ m \in Nat
  BY <1>2
<1> QED BY <1>3

(* The length of what is sampled.                                          *)
LEMMA MinOfTwo ==
  ASSUME NEW a \in Nat, NEW b \in Nat
  PROVE  Min({a, b}) \in Nat /\ Min({a, b}) <= b /\ Min({a, b}) <= a
<1>1. \E x \in {a, b} : \A y \in {a, b} : x =< y
  OBVIOUS
<1>2. Min({a, b}) \in {a, b} /\ \A y \in {a, b} : Min({a, b}) =< y
  BY <1>1 DEF Min
<1> QED BY <1>2

(* What is counted up to is the cursor: the history has nothing beyond it. *)
LEMMA HighIsCursor ==
  ASSUME Names, Types, Counted, NEW b \in Boots, \A e \in history : e.boot = b
  PROVE  High(b) = cursors[b]
<1>1. cursors[b] \in Nat /\ \A e \in history : e.seq \in Nat /\ e.seq <= cursors[b]
  BY DEF Types, Event, Counted
<1>2. {cursors[b]} \cup {e.seq : e \in {f \in history : f.boot = b}} \in SUBSET Nat
  BY <1>1
<1> QED BY <1>1, <1>2, MaxIs DEF High

(* Recording a change: the newest are retained, with one more number.      *)
LEMMA Recorded ==
  ASSUME Names, Types, Ordered, Numbered, NEW c \in Nat, NEW r \in Roots, NEW t \in BOOLEAN, Enqueue(c, r, t)
  PROVE  /\ buffer' \in Seq(Event) /\ Len(buffer') <= MaxEvents /\ Increasing(buffer')
         /\ counter' = [boot |-> counter.boot, seq |-> counter.seq + 1]
         /\ Range(buffer') \subseteq Range(buffer) \cup
              {[id |-> c, boot |-> counter.boot, seq |-> counter.seq + 1, root |-> r, content |-> t]}
<1> DEFINE e == [id |-> c, boot |-> counter.boot, seq |-> counter.seq + 1, root |-> r, content |-> t]
           q == Append(buffer, e)
<1>1. counter.boot \in Nat /\ counter.seq \in Nat /\ counter = [boot |-> counter.boot, seq |-> counter.seq]
  BY DEF Types
<1>2. e \in Event /\ e.seq = counter.seq + 1
  BY <1>1 DEF Event
<1>3. buffer' = Retained(q) /\ counter' = [counter EXCEPT !.seq = @ + 1]
  BY DEF Enqueue
<1>4. \A i \in 1 .. Len(buffer) : buffer[i] \in Event /\ buffer[i].seq <= counter.seq
  BY RangeSeq DEF Types, Numbered, Known
<1> HIDE DEF e
<1>5. /\ q \in Seq(Event) /\ Len(q) = Len(buffer) + 1 /\ q[Len(buffer) + 1] = e
      /\ \A i \in 1 .. Len(buffer) : q[i] = buffer[i]
  BY <1>2, AppendProperties DEF Types
<1>6. Increasing(q)
  <2> SUFFICES ASSUME NEW i \in 1 .. Len(q), NEW j \in 1 .. Len(q), i < j
               PROVE  q[i].seq < q[j].seq
    BY DEF Increasing
  <2>1. i \in 1 .. Len(buffer) /\ Len(buffer) \in Nat
    BY <1>5 DEF Types
  <2>2. CASE j \in 1 .. Len(buffer)
    BY <1>5, <2>1, <2>2 DEF Ordered, Increasing
  <2>3. CASE j = Len(buffer) + 1
    <3>1. q[i] = buffer[i] /\ buffer[i].seq <= counter.seq /\ buffer[i].seq \in Nat
      BY <1>4, <1>5, <2>1 DEF Event
    <3> QED BY <1>1, <1>2, <1>5, <2>3, <3>1
  <2> QED BY <1>5, <2>1, <2>2, <2>3
<1>7. Range(q) \subseteq Range(buffer) \cup {e}
  <2> SUFFICES ASSUME NEW x \in Range(q) PROVE x \in Range(buffer) \cup {e}
    OBVIOUS
  <2>1. PICK i \in 1 .. Len(q) : x = q[i]
    BY <1>5, RangeSeq
  <2>2. i \in 1 .. Len(buffer) \/ i = Len(buffer) + 1
    BY <1>5 DEF Types
  <2> QED BY <1>5, <2>1, <2>2, RangeSeq DEF Types
<1> HIDE DEF q
<1>8. CASE Len(q) > MaxEvents
  <2>1. /\ buffer' = SubSeq(q, Len(q) - MaxEvents + 1, Len(q)) /\ Len(q) \in Nat
        /\ Len(q) - MaxEvents + 1 \in Nat \ {0} /\ MaxEvents \in Nat
    <3>1. Len(q) \in Nat /\ MaxEvents \in Nat
      BY <1>5, RangeSeq DEF Names
    <3>2. buffer' = SubSeq(q, Len(q) - MaxEvents + 1, Len(q))
      BY <1>3, <1>8 DEF Retained
    <3> QED BY <1>8, <3>1, <3>2
  <2>2. Len(buffer') = IF Len(q) - MaxEvents + 1 <= Len(q) THEN Len(q) - (Len(q) - MaxEvents + 1) + 1 ELSE 0
    BY <1>5, <2>1, PartOfQueue
  <2>3. Len(buffer') <= MaxEvents
    BY <2>1, <2>2
  <2>4. buffer' \in Seq(Event) /\ Range(buffer') \subseteq Range(q) /\ Increasing(buffer')
    BY <1>5, <1>6, <2>1, PartOfQueue
  <2> QED BY <1>1, <1>3, <1>7, <2>3, <2>4 DEF e
<1>9. CASE ~(Len(q) > MaxEvents)
  <2>1. buffer' = q /\ Len(q) \in Nat
    BY <1>3, <1>5, <1>9 DEF Retained
  <2> QED BY <1>1, <1>3, <1>5, <1>6, <1>7, <1>9, <2>1 DEF e, Names
<1> QED BY <1>8, <1>9

(* What an adopted policy leaves of the buffer.                            *)
LEMMA RestrictedIs ==
  ASSUME NEW q \in Seq(Event), NEW policy \in Policy
  PROVE  /\ Restricted(q, policy) \in Seq(Event) /\ Len(Restricted(q, policy)) = Len(q)
         /\ Increasing(q) => Increasing(Restricted(q, policy))
         /\ \A e \in Range(Restricted(q, policy)) :
              /\ \E f \in Range(q) : e.id = f.id /\ e.boot = f.boot /\ e.seq = f.seq
              /\ e.content => policy.content
<1> DEFINE R == Restricted(q, policy)
<1>1. \A i \in 1 .. Len(q) :
        /\ R[i] = [q[i] EXCEPT !.content = @ /\ policy.content] /\ q[i] \in Event
  BY DEF Restricted
<1>2. \A i \in 1 .. Len(q) :
        /\ R[i] \in Event /\ R[i].id = q[i].id /\ R[i].boot = q[i].boot /\ R[i].seq = q[i].seq
        /\ R[i].content => policy.content
  BY <1>1 DEF Event, Policy
<1>3. R \in Seq(Event) /\ Len(R) = Len(q)
  <2>1. DOMAIN R = 1 .. Len(q)
    BY DEF Restricted
  <2>2. R \in [1 .. Len(q) -> Event]
    BY <1>2, <2>1 DEF Restricted
  <2>3. Len(q) \in Nat
    OBVIOUS
  <2> HIDE DEF R
  <2> QED BY <2>1, <2>2, <2>3, SeqDef, LenProperties
<1> HIDE DEF R
<1>4. ASSUME NEW e \in Range(R)
      PROVE  /\ \E f \in Range(q) : e.id = f.id /\ e.boot = f.boot /\ e.seq = f.seq
             /\ e.content => policy.content
  <2>1. PICK i \in 1 .. Len(q) : e = R[i]
    BY <1>3, RangeSeq
  <2>2. q[i] \in Range(q)
    BY RangeSeq
  <2> QED BY <1>2, <2>1, <2>2
<1>5. Increasing(q) => Increasing(R)
  BY <1>2, <1>3 DEF Increasing
<1> QED BY <1>3, <1>4, <1>5 DEF R

--------------------------------------------------------------------------------
(***************************************************************************)
(* Parts of the invariant across a step.                                   *)
(***************************************************************************)

(* What is known is made of events.                                        *)
LEMMA KnownTyped ==
  ASSUME Types
  PROVE  /\ Known \subseteq Event /\ Range(buffer) \subseteq Known /\ Range(tick.batch) \subseteq Known
         /\ history \subseteq Known /\ Handed \subseteq Known
         /\ spool # None => spool \in Spool /\ Range(spool.queue) \subseteq Known /\ spool.queue \in Seq(Event)
         /\ buffer \in Seq(Event) /\ tick.batch \in Seq(Event)
         /\ counter.boot \in Nat /\ counter.seq \in Nat
         /\ counter = [boot |-> counter.boot, seq |-> counter.seq]
<1>1. spool # None => spool \in Spool /\ spool.queue \in Seq(Event)
  BY DEF Types, Spool
<1>2. buffer \in Seq(Event) /\ tick.batch \in Seq(Event) /\ history \subseteq Event
  BY DEF Types
<1>3. /\ counter.boot \in Nat /\ counter.seq \in Nat
      /\ counter = [boot |-> counter.boot, seq |-> counter.seq]
  BY DEF Types
<1>4. Range(buffer) \subseteq Event /\ Range(tick.batch) \subseteq Event
  BY <1>2, RangeSeq
<1>5. spool # None => Range(spool.queue) \subseteq Event
  BY <1>1, RangeSeq
<1> QED BY <1>1, <1>2, <1>3, <1>4, <1>5 DEF Known, Handed

(* The policies that are looked at.                                        *)
LEMMA PolicyTyped ==
  ASSUME Names, Types
  PROVE  /\ Adopted \in Policy /\ (adopted = None => Adopted = Default)
         /\ \A rev \in 0 .. Len(policies) : PolicyAt(rev) \in Policy
         /\ adopted # None => adopted \in 0 .. Len(policies) /\ Adopted = PolicyAt(adopted)
<1>1. Default \in Policy
  BY DEF Default, Policy
<1>2. \A i \in 1 .. Len(policies) : policies[i] \in Policy
  BY DEF Types
<1>3. \A rev \in 0 .. Len(policies) : PolicyAt(rev) \in Policy
  BY <1>1, <1>2 DEF PolicyAt, Types
<1>4. adopted # None => adopted \in 0 .. Len(policies)
  BY DEF Types
<1> QED BY <1>1, <1>3, <1>4 DEF Adopted

(* The scope of a policy is made of roots.                                 *)
LEMMA ScopeIs ==
  ASSUME NEW p \in Policy
  PROVE  Scope(p) \subseteq Roots /\ Scope(Default) = {}
BY DEF Scope, Roots, Default

(* No new event: numbers and counts are as they were.                      *)
LEMMA NumbersKept ==
  ASSUME Numbered, Counted,
         \A e \in Known' : \E f \in Known : e.id = f.id /\ e.boot = f.boot /\ e.seq = f.seq,
         history' \subseteq history, noticed' \subseteq noticed,
         UNCHANGED <<cursors, stored, changes>>,
         \A e \in Known' : e.boot = counter'.boot /\ e.seq <= counter'.seq
  PROVE  Numbered' /\ Counted'
<1>1. \A e, f \in Known' : e.seq = f.seq <=> e.id = f.id
  BY DEF Numbered
<1>2. \A n \in noticed' :
       /\ n.id \in 1 .. changes' /\ stored'[n.id] = 0
       /\ \A e \in Known' : e.id # n.id
       /\ \A m \in noticed' : n.id = m.id => n = m
  BY DEF Numbered
<1>3. \A e \in Known' : e.boot = counter'.boot /\ e.seq <= counter'.seq /\ e.id \in 1 .. changes'
  BY DEF Numbered
<1>4. Numbered'
  BY <1>1, <1>2, <1>3 DEF Numbered
<1>5. \A e \in history' : e.seq <= cursors'[e.boot]
  BY DEF Counted
<1>6. \A c \in Changes :
       /\ stored'[c] <= 1
       /\ stored'[c] > 0 => c <= changes' /\ \A e \in Known' : e.id = c => e.seq <= cursors'[e.boot]
  BY DEF Counted
<1> QED BY <1>4, <1>5, <1>6 DEF Counted

(* The same, where the counter stays.                                      *)
LEMMA NumbersStay ==
  ASSUME Numbered, Counted,
         \A e \in Known' : \E f \in Known : e.id = f.id /\ e.boot = f.boot /\ e.seq = f.seq,
         history' \subseteq history, noticed' \subseteq noticed,
         UNCHANGED <<cursors, stored, changes, counter>>
  PROVE  Numbered' /\ Counted'
<1>1. \A e \in Known' : e.boot = counter'.boot /\ e.seq <= counter'.seq
  BY DEF Numbered
<1> QED BY <1>1, NumbersKept

(* One new event, of a change that has none.                               *)
LEMMA NumbersGrow ==
  ASSUME Types, Numbered, Counted,
         NEW c \in 1 .. changes', NEW x \in Event, x.id = c, x.boot = counter.boot, x.seq = counter.seq + 1,
         \A e \in Known : e.id # c, Known' \subseteq Known \cup {x},
         counter' = [boot |-> counter.boot, seq |-> counter.seq + 1],
         history' = history, noticed' \subseteq noticed, \A n \in noticed' : n.id # c,
         changes' \in Nat, changes \in Nat, changes <= changes',
         UNCHANGED <<cursors, stored>>, c \in Changes => stored[c] = 0
  PROVE  Numbered' /\ Counted'
<1>0. /\ Known \subseteq Event /\ counter.boot \in Nat /\ counter.seq \in Nat
      /\ counter'.boot = counter.boot /\ counter'.seq = counter.seq + 1
  BY KnownTyped
<1>1. \A e \in Known : e.seq \in Nat /\ e.seq <= counter.seq /\ e.boot = counter.boot /\ e.id \in 1 .. changes
  BY <1>0 DEF Numbered, Event
<1>2. \A e \in Known : e.seq # x.seq /\ e.id # x.id
  BY <1>0, <1>1
<1>3. \A e, f \in Known' : e.seq = f.seq <=> e.id = f.id
  BY <1>2 DEF Numbered
<1>4. \A e \in Known' : e.boot = counter'.boot /\ e.seq <= counter'.seq /\ e.id \in 1 .. changes'
  <2> SUFFICES ASSUME NEW e \in Known'
               PROVE  e.boot = counter'.boot /\ e.seq <= counter'.seq /\ e.id \in 1 .. changes'
    OBVIOUS
  <2>1. CASE e = x
    BY <1>0, <2>1
  <2>2. CASE e \in Known
    BY <1>0, <1>1, <2>2
  <2> QED BY <2>1, <2>2
<1>5. \A n \in noticed' :
       /\ n.id \in 1 .. changes' /\ stored'[n.id] = 0
       /\ \A e \in Known' : e.id # n.id
       /\ \A m \in noticed' : n.id = m.id => n = m
  <2>1. \A n \in noticed' : n.id \in 1 .. changes
    BY DEF Numbered
  <2> QED BY <2>1 DEF Numbered
<1>6. Numbered'
  BY <1>3, <1>4, <1>5 DEF Numbered
<1>7. \A e \in history' : e.seq <= cursors'[e.boot]
  BY DEF Counted
<1>8. ASSUME NEW d \in Changes
      PROVE  /\ stored'[d] <= 1
             /\ stored'[d] > 0 => d <= changes' /\ \A e \in Known' : e.id = d => e.seq <= cursors'[e.boot]
  <2>1. stored'[d] = stored[d] /\ stored[d] <= 1 /\ (stored[d] > 0 => d <= changes) /\ d \in Nat
    BY DEF Counted, Changes
  <2>2. stored[d] > 0 => d # c
    OBVIOUS
  <2>3. stored[d] > 0 => \A e \in Known' : e.id = d => e \in Known
    BY <2>2
  <2>4. stored[d] > 0 => \A e \in Known' : e.id = d => e.seq <= cursors'[e.boot]
    BY <2>3 DEF Counted
  <2> QED BY <2>1, <2>4
<1> QED BY <1>6, <1>7, <1>8 DEF Counted

(* Nothing more was handed over, and the spool is as it was.               *)
LEMMA SpoolKept ==
  ASSUME Spooled, spool' = spool, Handed' \subseteq Handed,
         counter'.boot = counter.boot, spool # None => spool.seq <= counter'.seq
  PROVE  Spooled'
BY DEF Spooled

(* The policy that is followed, when no revision is adopted or made.       *)
LEMMA AdoptedKept ==
  ASSUME adopted' = adopted, policies' = policies
  PROVE  Adopted' = Adopted /\ \A rev : PolicyAt(rev)' = PolicyAt(rev)
BY DEF Adopted, PolicyAt

--------------------------------------------------------------------------------
(***************************************************************************)
(* The initial states, and each action.                                    *)
(***************************************************************************)

(* The invariant holds initially.                                          *)
LEMMA InitInv == Names /\ Init => Inv
<1> SUFFICES ASSUME Names, Init
             PROVE  Inv
  OBVIOUS
<1>1. Known = {} /\ Range(buffer) = {} /\ Range(tick.batch) = {}
  BY NoQueue DEF Init, Known, Resting
<1>2. Types
  <2>1. policies \in Seq(Policy) /\ buffer \in Seq(Event) /\ Len(buffer) = 0 /\ Len(policies) = 0
    BY NoQueue DEF Init
  <2>2. tick \in [step : Steps, rev : Nat, batch : Seq(Event)] /\ tick.rev = 0
    BY NoQueue DEF Init, Resting, Steps
  <2>3. counter \in [boot : Nat, seq : Nat] /\ counter.boot = 0
    BY DEF Init
  <2>4. changes \in 0 .. MaxChanges /\ boots \in 0 .. MaxBoots /\ boots = 0
    BY DEF Init, Names
  <2>5. cursors \in [Boots -> Nat] /\ stored \in [Changes -> Nat]
    BY DEF Init
  <2> QED BY <2>1, <2>2, <2>3, <2>4, <2>5 DEF Types, Init, Names
<1>3. Ordered
  BY NoQueue DEF Ordered, Init, Resting
<1>4. Numbered
  BY <1>1 DEF Numbered, Init
<1>5. Spooled
  BY <1>1 DEF Spooled, Handed, Init
<1>6. Counted
  BY <1>1 DEF Counted, Init
<1>7. Selected
  BY <1>1 DEF Selected, Init, Resting
<1> QED BY <1>2, <1>3, <1>4, <1>5, <1>6, <1>7 DEF Inv

(* A revision more: the earlier ones are what they were.                   *)
LEMMA ConfigurePolicyStep ==
  ASSUME Names, Inv, NEW p \in Policy, ConfigurePolicy(p)
  PROVE  Inv'
<1> USE DEF Inv
<1>1. /\ policies' \in Seq(Policy) /\ Len(policies') = Len(policies) + 1 /\ Len(policies) \in Nat
      /\ \A i \in 1 .. Len(policies) : policies'[i] = policies[i]
  BY AppendProperties DEF ConfigurePolicy, Types
<1>2. /\ UNCHANGED <<history, cursors, stored, buffer, tick, counter, spool, changes, boots>>
      /\ UNCHANGED <<adopted, watching, toScan, scanning, noticed>>
  BY DEF ConfigurePolicy, watchers
<1>3. \A rev \in 0 .. Len(policies) : PolicyAt(rev)' = PolicyAt(rev)
  BY <1>1 DEF PolicyAt
<1>4. (adopted # None => adopted \in 0 .. Len(policies)) /\ tick.rev \in 0 .. Len(policies)
  BY DEF Types
<1>5. Adopted' = Adopted
  BY <1>2, <1>3, <1>4 DEF Adopted
<1>6. Types'
  BY <1>1, <1>2, <1>4 DEF Types
<1>7. Known' = Known /\ Handed' = Handed
  BY <1>2 DEF Known, Handed, At
<1>8. Ordered' /\ Numbered' /\ Spooled' /\ Counted'
  BY <1>2, <1>7 DEF Ordered, Numbered, Spooled, Counted
<1>9. Selected'
  <2>1. PolicyAt(tick.rev)' = PolicyAt(tick.rev)
    BY <1>1, <1>2, <1>4 DEF PolicyAt
  <2> QED BY <1>2, <1>5, <2>1 DEF Selected, Scope
<1> QED BY <1>6, <1>8, <1>9

(* An event that is pruned was counted: the cursor stays.                  *)
LEMMA PruneStep ==
  ASSUME Names, Inv, Prune
  PROVE  Inv'
<1> USE DEF Inv
<1>1. /\ UNCHANGED <<policies, cursors, stored, buffer, tick, counter, spool, changes, boots>>
      /\ UNCHANGED <<adopted, watching, toScan, scanning, noticed>> /\ history' \subseteq history
  BY DEF Prune, watchers
<1>2. Types'
  BY <1>1 DEF Types
<1>3. Known' \subseteq Known /\ Handed' \subseteq Handed
  BY <1>1 DEF Known, Handed, At
<1>4. Numbered' /\ Counted'
  BY <1>1, <1>3, NumbersStay
<1>5. Spooled'
  BY <1>1, <1>3, SpoolKept DEF Spooled
<1>6. Ordered'
  BY <1>1 DEF Ordered
<1>7. Selected'
  BY <1>1, AdoptedKept DEF Selected
<1> QED BY <1>2, <1>4, <1>5, <1>6, <1>7

(* A step of the watchers touches nothing that is known.                   *)
LEMMA WatcherStep ==
  ASSUME Names, Inv, adopted' = adopted,
         UNCHANGED <<policies, history, cursors, stored, buffer, tick, counter, spool, boots, changes, noticed>>,
         watching' \subseteq Roots, toScan' \subseteq toScan, scanning' \in Sweep \cup {None},
         ~CrossDevice =>
           /\ watching' \subseteq Scope(Adopted)
           /\ scanning' # None => ~scanning'.looked /\ (~scanning'.old => scanning'.root \in Scope(Adopted))
  PROVE  Inv'
<1> USE DEF Inv
<1>1. Types'
  BY DEF Types
<1>2. Known' = Known /\ Handed' = Handed
  BY DEF Known, Handed, At
<1>3. Numbered' /\ Counted'
  BY <1>2, NumbersStay
<1>4. Spooled'
  BY <1>2, SpoolKept DEF Spooled
<1>5. Ordered'
  BY DEF Ordered
<1>6. Selected'
  BY AdoptedKept DEF Selected, Scope
<1> QED BY <1>1, <1>3, <1>4, <1>5, <1>6

(* A scan takes a root of the scope, and watches it only under the policy  *)
(* it took it under; the control plane may withdraw its consent meanwhile. *)
LEMMA ScanStep ==
  ASSUME Names, Inv, NEW r \in Roots, Scan(r) \/ Watch \/ Withdraw
  PROVE  Inv'
<1>1. Types /\ Selected /\ watching \subseteq Roots /\ scanning \in Sweep \cup {None}
  BY DEF Inv, Types
<1>2. CASE Scan(r)
  <2>1. scanning' = [root |-> r, old |-> FALSE, looked |-> FALSE] /\ scanning' \in Sweep
    BY <1>2 DEF Scan, Sweep
  <2>2. r \in Scope(Adopted)
    BY <1>1, <1>2 DEF Scan, Selected
  <2> QED BY <1>1, <1>2, <2>1, <2>2, WatcherStep DEF Scan, server, Selected
<1>3. CASE Watch
  <2>1. scanning # None /\ scanning \in Sweep
    BY <1>1, <1>3 DEF Watch
  <2>2. UNCHANGED <<policies, history, cursors, stored, buffer, tick, counter, spool, boots, changes, noticed, toScan>>
        /\ adopted' = adopted
    BY <1>3 DEF Watch, server
  <2>3. CASE scanning' = None /\ UNCHANGED watching
    BY <1>1, <2>2, <2>3, WatcherStep DEF Selected
  <2>4. CASE /\ CrossDevice /\ ~scanning.old /\ ~scanning.looked
             /\ scanning' = [scanning EXCEPT !.looked = TRUE] /\ UNCHANGED watching
    <3>1. scanning' \in Sweep
      BY <2>1, <2>4 DEF Sweep
    <3> QED BY <1>1, <2>2, <2>4, <3>1, WatcherStep DEF Selected
  <2>5. CASE /\ scanning.looked \/ (~CrossDevice /\ ~scanning.old)
             /\ watching' = watching \cup {scanning.root} /\ scanning' = None
    <3>1. scanning.root \in Roots
      BY <2>1 DEF Sweep
    <3>2. ~CrossDevice => watching' \subseteq Scope(Adopted)
      BY <1>1, <2>1, <2>5 DEF Selected
    <3> QED BY <1>1, <2>2, <2>5, <3>1, <3>2, WatcherStep
  <2> QED BY <1>3, <2>3, <2>4, <2>5 DEF Watch
<1>4. CASE Withdraw
  BY <1>1, <1>4, WatcherStep DEF Withdraw, watchers, Selected
<1> QED BY <1>2, <1>3, <1>4

(* A change that is noticed has no number yet.                             *)
LEMMA NoticeStep ==
  ASSUME Names, Inv, NEW r \in Roots, Notice(r)
  PROVE  Inv'
<1> USE DEF Inv
<1>1. /\ UNCHANGED <<policies, history, cursors, stored, buffer, tick, counter, spool, boots>>
      /\ UNCHANGED <<adopted, watching, toScan, scanning>> /\ changes < MaxChanges /\ changes' = changes + 1
      /\ noticed' = noticed \cup {[id |-> changes + 1, root |-> r]}
  BY DEF Notice, server
<1>2. changes \in Nat /\ MaxChanges \in Nat /\ changes + 1 \in Changes /\ changes + 1 \notin 1 .. changes
  BY <1>1 DEF Types, Names, Changes
<1>3. Types'
  <2>1. noticed' \subseteq [id : Nat, root : Roots]
    BY <1>1, <1>2 DEF Types
  <2>2. changes' \in 0 .. MaxChanges
    BY <1>1, <1>2
  <2> QED BY <1>1, <2>1, <2>2 DEF Types
<1>4. Known' = Known /\ Handed' = Handed
  BY <1>1 DEF Known, Handed, At
<1>5. Ordered' /\ Spooled'
  BY <1>1, <1>4 DEF Ordered, Spooled
<1>6. stored[changes + 1] = 0
  <2>1. stored[changes + 1] \in Nat /\ ~(stored[changes + 1] > 0)
    BY <1>2 DEF Types, Counted
  <2> QED BY <2>1
<1>7. Numbered'
  <2>1. \A e \in Known : e.boot = counter.boot /\ e.seq <= counter.seq /\ e.id \in 1 .. changes'
    BY <1>1, <1>2 DEF Numbered
  <2>2. ASSUME NEW n \in noticed'
        PROVE  /\ n.id \in 1 .. changes' /\ stored'[n.id] = 0
               /\ \A e \in Known' : e.id # n.id
               /\ \A m \in noticed' : n.id = m.id => n = m
    <3>1. CASE n \in noticed
      BY <1>1, <1>2, <1>4, <3>1 DEF Numbered
    <3>2. CASE n = [id |-> changes + 1, root |-> r]
      BY <1>1, <1>2, <1>4, <1>6, <3>2 DEF Numbered
    <3> QED BY <1>1, <3>1, <3>2
  <2>3. counter' = counter
    BY <1>1
  <2> QED BY <1>4, <2>1, <2>2, <2>3 DEF Numbered
<1>8. Counted'
  <2>1. \A c \in Changes : stored[c] > 0 => c <= changes'
    BY <1>1, <1>2 DEF Counted, Changes
  <2> QED BY <1>1, <1>4, <2>1 DEF Counted
<1>9. Selected'
  BY <1>1, AdoptedKept DEF Selected
<1> QED BY <1>3, <1>5, <1>7, <1>8, <1>9

(* A change that enters the buffer has the next number.                    *)
LEMMA EnqueueStep ==
  ASSUME Names, Inv, NEW c \in Changes, NEW r \in Roots, NEW t \in BOOLEAN, Enqueue(c, r, t),
         t => Adopted.content, \A e \in Known : e.id # c, stored[c] = 0,
         UNCHANGED <<policies, history, cursors, stored, adopted, watching, toScan, scanning, tick, spool, boots>>,
         noticed' \subseteq noticed, \A n \in noticed' : n.id # c,
         changes' \in 0 .. MaxChanges, changes <= changes', c \in 1 .. changes'
  PROVE  Inv'
<1> DEFINE x == [id |-> c, boot |-> counter.boot, seq |-> counter.seq + 1, root |-> r, content |-> t]
<1> USE DEF Inv
<1>1. /\ buffer' \in Seq(Event) /\ Len(buffer') <= MaxEvents /\ Increasing(buffer')
      /\ counter' = [boot |-> counter.boot, seq |-> counter.seq + 1]
      /\ Range(buffer') \subseteq Range(buffer) \cup {x}
  BY Recorded DEF Changes
<1>2. /\ x \in Event /\ x.id = c /\ x.boot = counter.boot /\ x.seq = counter.seq + 1 /\ x.content = t
      /\ counter.boot \in Nat /\ counter.seq \in Nat
  BY KnownTyped DEF Event, Changes
<1> HIDE DEF x
<1>3. Types'
  <2>1. counter' \in [boot : Nat, seq : Nat] /\ counter'.boot = counter.boot
    BY <1>1, <1>2
  <2>2. noticed' \subseteq [id : Nat, root : Roots]
    BY DEF Types
  <2> QED BY <1>1, <2>1, <2>2 DEF Types
<1>4. Known' \subseteq Known \cup {x} /\ Handed' = Handed
  BY <1>1 DEF Known, Handed, At
<1>5. Numbered' /\ Counted'
  <2>1. changes \in Nat /\ changes' \in Nat
    BY DEF Types
  <2> QED BY <1>1, <1>2, <1>4, <2>1, NumbersGrow
<1>6. Spooled'
  <2>1. /\ counter'.boot = counter.boot
        /\ spool # None => spool.seq \in Nat /\ spool.seq <= counter.seq /\ spool.seq <= counter'.seq
    BY <1>1, <1>2, KnownTyped DEF Spooled, Spool
  <2> QED BY <1>4, <2>1, SpoolKept
<1>7. Ordered'
  BY <1>1 DEF Ordered
<1>8. Selected'
  <2>1. Adopted' = Adopted /\ PolicyAt(tick.rev)' = PolicyAt(tick.rev)
    BY DEF Adopted, PolicyAt
  <2>2. adopted' # None => \A e \in Range(buffer') : e.content => Adopted'.content
    BY <1>1, <1>2, <2>1 DEF Selected
  <2> QED BY <2>1, <2>2 DEF Selected, Scope
<1> QED BY <1>3, <1>5, <1>6, <1>7, <1>8

(* A noticed change is recorded, or dropped where nothing is collected.    *)
LEMMA RecordStep ==
  ASSUME Names, Inv, NEW n \in noticed, Record(n)
  PROVE  Inv'
<1>1. /\ n.id \in Changes /\ n.root \in Roots /\ stored[n.id] = 0 /\ n.id \in 1 .. changes
      /\ \A e \in Known : e.id # n.id
      /\ \A m \in noticed : n.id = m.id => n = m
  <2>1. n.root \in Roots /\ n.id \in 1 .. changes /\ changes \in 0 .. MaxChanges /\ MaxChanges \in Nat
    BY DEF Inv, Types, Numbered, Names
  <2>2. n.id \in Changes
    BY <2>1 DEF Changes
  <2> QED BY <2>1, <2>2 DEF Inv, Numbered
<1>2. /\ UNCHANGED <<policies, history, cursors, stored, adopted, watching, toScan, scanning, tick, spool, boots, changes>>
      /\ noticed' = noticed \ {n}
  BY DEF Record, server
<1>3. changes' \in 0 .. MaxChanges /\ changes <= changes' /\ n.id \in 1 .. changes'
  BY <1>1, <1>2 DEF Inv, Types
<1>4. Adopted \in Policy
  BY PolicyTyped DEF Inv
<1>5. CASE Adopted.enabled
  <2> DEFINE t == Adopted.content /\ n.root = Repository
  <2>1. t \in BOOLEAN /\ (t => Adopted.content) /\ Enqueue(n.id, n.root, t)
    BY <1>4, <1>5 DEF Policy, Record
  <2> HIDE DEF t
  <2> QED BY <1>1, <1>2, <1>3, <2>1, EnqueueStep
<1>6. CASE ~Adopted.enabled
  <2>1. UNCHANGED <<counter, buffer>>
    BY <1>6 DEF Record
  <2>2. Known' = Known /\ Handed' = Handed
    BY <1>2, <2>1 DEF Known, Handed, At
  <2>3. Types' /\ Ordered'
    BY <1>2, <2>1 DEF Inv, Types, Ordered
  <2>4. Numbered' /\ Counted'
    BY <1>2, <2>1, <2>2, NumbersStay DEF Inv
  <2>5. Spooled' /\ Selected'
    BY <1>2, <2>1, <2>2, AdoptedKept DEF Inv, Spooled, Selected
  <2> QED BY <2>3, <2>4, <2>5 DEF Inv
<1> QED BY <1>5, <1>6

(* The audit log tells of a change that nobody noticed.                    *)
LEMMA AuditStep ==
  ASSUME Names, Inv, NEW r \in Roots, Audit(r)
  PROVE  Inv'
<1>1. /\ UNCHANGED <<policies, history, cursors, stored, adopted, watching, toScan, scanning, noticed, tick, spool, boots>>
      /\ changes < MaxChanges /\ changes' = changes + 1 /\ Enqueue(changes + 1, r, FALSE)
  BY DEF Audit, server, watchers
<1>2. /\ changes \in Nat /\ changes + 1 \in Changes /\ changes + 1 \notin 1 .. changes
      /\ changes' \in 0 .. MaxChanges /\ changes <= changes' /\ changes + 1 \in 1 .. changes'
  BY <1>1 DEF Inv, Types, Names, Changes
<1>3. stored[changes + 1] = 0
  <2>1. stored[changes + 1] \in Nat /\ ~(stored[changes + 1] > 0)
    BY <1>2 DEF Inv, Types, Counted
  <2> QED BY <2>1
<1>4. (\A e \in Known : e.id # changes + 1) /\ \A n \in noticed : n.id # changes + 1
  BY <1>2 DEF Inv, Numbered
<1> QED BY <1>1, <1>2, <1>3, <1>4, EnqueueStep

(* The tick asks for the policy in force.                                  *)
LEMMA FetchStep ==
  ASSUME Names, Inv, Fetch
  PROVE  Inv'
<1> USE DEF Inv
<1>1. /\ UNCHANGED <<policies, history, cursors, stored, buffer, counter, spool, changes, boots>>
      /\ UNCHANGED <<adopted, watching, toScan, scanning, noticed>>
      /\ tick' = [step |-> "fetched", rev |-> Len(policies), batch |-> <<>>]
  BY DEF Fetch, watchers, server, Resting
<1>2. tick'.step = "fetched" /\ tick'.rev = Len(policies) /\ tick'.batch = <<>> /\ Len(policies) \in Nat
  BY <1>1 DEF Types
<1>3. Types'
  <2>1. tick' \in [step : Steps, rev : Nat, batch : Seq(Event)]
    BY <1>1, <1>2, NoQueue DEF Steps
  <2> QED BY <1>1, <1>2, <2>1 DEF Types
<1>4. Known' \subseteq Known /\ Handed' \subseteq Handed
  BY <1>1, <1>2, NoQueue DEF Known, Handed, At
<1>5. Numbered' /\ Counted'
  BY <1>1, <1>4, NumbersStay
<1>6. Spooled'
  BY <1>1, <1>4, SpoolKept DEF Spooled
<1>7. Ordered'
  BY <1>1, <1>2, NoQueue DEF Ordered
<1>8. Selected'
  BY <1>1, <1>2, AdoptedKept DEF Selected
<1> QED BY <1>3, <1>5, <1>6, <1>7, <1>8

(* The watchers of an earlier policy are closed, and what it selected and  *)
(* the new one does not is taken out of the buffer.                        *)
LEMMA ConfigureStep ==
  ASSUME Names, Inv, Configure
  PROVE  Inv'
<1> DEFINE policy == PolicyAt(tick.rev)
<1> USE DEF Inv
<1>1. /\ UNCHANGED <<policies, history, cursors, stored, counter, spool, changes, boots>>
      /\ tick.step = "fetched" /\ tick' = [tick EXCEPT !.step = "sampling"]
  BY DEF Configure, server, At
<1>2. /\ tick'.step = "sampling" /\ tick'.rev = tick.rev /\ tick'.batch = tick.batch
      /\ tick' \in [step : Steps, rev : Nat, batch : Seq(Event)] /\ tick.rev \in 0 .. Len(policies)
  BY <1>1 DEF Types, Steps
<1>3. policy \in Policy /\ Scope(policy) \subseteq Roots
  BY <1>2, PolicyTyped, ScopeIs
<1>4. \A rev : PolicyAt(rev)' = PolicyAt(rev)
  BY <1>1 DEF PolicyAt
<1>5. CASE adopted = tick.rev
  <2>1. UNCHANGED <<adopted, watching, toScan, scanning, noticed, buffer>>
    BY <1>5 DEF Configure, watchers
  <2>2. Types'
    BY <1>1, <1>2, <2>1 DEF Types
  <2>3. Known' = Known /\ Handed' \subseteq Handed
    BY <1>1, <1>2, <2>1 DEF Known, Handed, At
  <2>4. Numbered' /\ Counted'
    BY <1>1, <2>1, <2>3, NumbersStay
  <2>5. Spooled'
    BY <1>1, <2>3, SpoolKept DEF Spooled
  <2>6. Ordered'
    BY <1>1, <1>2, <2>1 DEF Ordered
  <2>7. Selected'
    BY <1>1, <1>2, <1>5, <2>1, AdoptedKept DEF Selected
  <2> QED BY <2>2, <2>4, <2>5, <2>6, <2>7
<1>6. CASE adopted # tick.rev
  <2>1. /\ watching' = {} /\ noticed' = {} /\ adopted' = tick.rev
        /\ scanning' = IF scanning = None THEN None ELSE [scanning EXCEPT !.old = TRUE]
        /\ buffer' = IF policy.enabled THEN Restricted(buffer, policy) ELSE <<>>
        /\ toScan' = Scope(policy)
    BY <1>6 DEF Configure, CloseWatchers
  <2>2. /\ scanning' \in Sweep \cup {None}
        /\ scanning' # None => scanning # None /\ scanning'.old /\ scanning'.looked = scanning.looked
    <3>1. CASE scanning = None
      BY <2>1, <3>1
    <3>2. CASE scanning # None
      <4>1. scanning \in Sweep /\ scanning' = [scanning EXCEPT !.old = TRUE]
        BY <2>1, <3>2 DEF Types
      <4> QED BY <3>2, <4>1 DEF Sweep
    <3> QED BY <3>1, <3>2
  <2>3. Adopted' = policy
    <3>1. adopted' # None
      BY <1>2, <2>1 DEF Names
    <3>2. Adopted' = PolicyAt(tick.rev)
      BY <1>1, <2>1, <3>1 DEF Adopted, PolicyAt
    <3> QED BY <3>2
  <2> HIDE DEF policy
  <2>4. /\ buffer' \in Seq(Event) /\ Len(buffer') <= MaxEvents /\ Increasing(buffer')
        /\ \A e \in Range(buffer') :
             /\ \E f \in Range(buffer) : e.id = f.id /\ e.boot = f.boot /\ e.seq = f.seq
             /\ e.content => policy.content
    <3>1. CASE policy.enabled
      BY <1>3, <2>1, <3>1, RestrictedIs DEF Types, Ordered
    <3>2. CASE ~policy.enabled
      BY <2>1, <3>2, NoQueue DEF Names
    <3> QED BY <3>1, <3>2
  <2>5. Types'
    <3>1. adopted' \in Nat \cup {None} /\ (adopted' # None => adopted' <= Len(policies')) /\ tick'.rev <= Len(policies')
      BY <1>1, <1>2, <2>1
    <3>2. watching' \subseteq Roots /\ toScan' \subseteq Roots /\ noticed' \subseteq [id : Nat, root : Roots]
      BY <1>3, <2>1
    <3> QED BY <1>1, <1>2, <2>2, <2>4, <3>1, <3>2 DEF Types
  <2>6. Handed' \subseteq Handed
    BY <1>1, <1>2 DEF Handed, At
  <2>7. \A e \in Known' : \E f \in Known : e.id = f.id /\ e.boot = f.boot /\ e.seq = f.seq
    <3> SUFFICES ASSUME NEW e \in Known'
                 PROVE  \E f \in Known : e.id = f.id /\ e.boot = f.boot /\ e.seq = f.seq
      OBVIOUS
    <3>1. CASE e \in Range(buffer')
      BY <2>4, <3>1 DEF Known
    <3>2. CASE e \notin Range(buffer')
      <4>1. e \in Known
        BY <1>1, <1>2, <3>2 DEF Known
      <4> QED BY <4>1
    <3> QED BY <3>1, <3>2
  <2>8. Numbered' /\ Counted'
    BY <1>1, <2>1, <2>7, NumbersStay
  <2>9. Spooled'
    BY <1>1, <2>6, SpoolKept DEF Spooled
  <2>10. Ordered'
    BY <1>1, <1>2, <2>4 DEF Ordered
  <2>11. Selected'
    <3>1. \A e \in Range(buffer') : e.content => Adopted'.content
      BY <2>3, <2>4
    <3>2. toScan' \subseteq Scope(Adopted)'
      BY <2>1, <2>3 DEF Scope
    <3>3. ~CrossDevice =>
             /\ watching' \subseteq Scope(Adopted)'
             /\ scanning' # None => ~scanning'.looked /\ scanning'.old
      BY <2>1, <2>2 DEF Selected
    <3> QED BY <1>2, <2>1, <3>1, <3>2, <3>3 DEF Selected
  <2> QED BY <2>5, <2>8, <2>9, <2>10, <2>11
<1> QED BY <1>5, <1>6

(* What is sampled is the beginning of the buffer.                         *)
LEMMA SampleStep ==
  ASSUME Names, Inv, Sample
  PROVE  Inv'
<1> DEFINE m == Min({Batch, Len(buffer)})
<1> USE DEF Inv
<1>1. /\ UNCHANGED <<policies, history, cursors, stored, buffer, counter, spool, changes, boots>>
      /\ UNCHANGED <<adopted, watching, toScan, scanning, noticed>> /\ tick.step = "sampling"
      /\ tick' = [tick EXCEPT !.step = "saving", !.batch = SubSeq(buffer, 1, m)]
  BY DEF Sample, watchers, server, Saving, At
<1>2. m \in Nat /\ m <= Len(buffer)
  BY MinOfTwo, RangeSeq DEF Names, Types
<1> HIDE DEF m
<1>3. /\ SubSeq(buffer, 1, m) \in Seq(Event) /\ Range(SubSeq(buffer, 1, m)) \subseteq Range(buffer)
      /\ Increasing(SubSeq(buffer, 1, m))
  BY <1>2, PartOfQueue DEF Types, Ordered
<1>4. tick'.step = "saving" /\ tick'.rev = tick.rev /\ tick'.batch = SubSeq(buffer, 1, m)
  BY <1>1 DEF Types
<1>5. Types'
  <2>1. tick' \in [step : Steps, rev : Nat, batch : Seq(Event)]
    BY <1>1, <1>3 DEF Types, Steps
  <2> QED BY <1>1, <1>4, <2>1 DEF Types
<1>6. Known' \subseteq Known /\ Handed' \subseteq Handed
  BY <1>1, <1>3, <1>4 DEF Known, Handed, At
<1>7. Numbered' /\ Counted'
  BY <1>1, <1>6, NumbersStay
<1>8. Spooled'
  BY <1>1, <1>6, SpoolKept DEF Spooled
<1>9. Ordered'
  BY <1>1, <1>3, <1>4 DEF Ordered
<1>10. Selected'
  <2>1. adopted = tick.rev /\ adopted # None
    BY <1>1 DEF Selected, Types, Names
  <2>2. Adopted = PolicyAt(tick.rev) /\ Adopted' = Adopted /\ PolicyAt(tick.rev)' = PolicyAt(tick.rev)
    BY <1>1, <1>4, <2>1 DEF Adopted, PolicyAt
  <2>3. \A e \in Range(tick'.batch) : e.content => PolicyAt(tick.rev).content
    BY <1>3, <1>4, <2>1, <2>2 DEF Selected
  <2> QED BY <1>1, <1>4, <2>1, <2>2, <2>3 DEF Selected
<1> QED BY <1>5, <1>7, <1>8, <1>9, <1>10

(* The buffer is on disk before it is sent.                                *)
LEMMA PersistStep ==
  ASSUME Names, Inv, Persist
  PROVE  Inv'
<1> USE DEF Inv
<1>1. /\ UNCHANGED <<policies, history, cursors, stored, buffer, counter, changes, boots>>
      /\ UNCHANGED <<adopted, watching, toScan, scanning, noticed>>
      /\ spool' = [boot |-> counter.boot, seq |-> counter.seq, queue |-> buffer]
      /\ tick.step \in {"saving", "ending"}
      /\ tick' = IF tick.step = "saving" THEN [tick EXCEPT !.step = "sending"] ELSE Resting
  BY DEF Persist, watchers, server, At
<1>2. /\ counter.boot \in Nat /\ counter.seq \in Nat /\ buffer \in Seq(Event)
      /\ Known \subseteq Event /\ Range(buffer) \subseteq Known
  BY KnownTyped
<1>3. /\ spool' \in Spool /\ spool'.queue = buffer /\ spool'.boot = counter.boot /\ spool'.seq = counter.seq
      /\ spool' # None
  BY <1>1, <1>2 DEF Spool, Names
<1>4. /\ tick' \in [step : Steps, rev : Nat, batch : Seq(Event)] /\ tick'.rev <= Len(policies)
      /\ tick'.batch = tick.batch \/ tick'.batch = <<>>
      /\ tick'.step = "sending" => tick.step = "saving" /\ tick'.rev = tick.rev /\ tick'.batch = tick.batch
      /\ tick'.step \in {"sending", "idle"}
  <2>1. CASE tick.step = "saving"
    BY <1>1, <2>1 DEF Types, Steps
  <2>2. CASE tick.step # "saving"
    <3>1. Len(policies) \in Nat
      BY DEF Types
    <3> QED BY <1>1, <2>2, <3>1, NoQueue DEF Resting, Steps
  <2> QED BY <2>1, <2>2
<1>5. Types'
  BY <1>1, <1>3, <1>4 DEF Types
<1>6. Known' \subseteq Known
  BY <1>1, <1>3, <1>4, NoQueue DEF Known
<1>7. Numbered' /\ Counted'
  BY <1>1, <1>6, NumbersStay
<1>8. Spooled'
  <2>1. Handed' \subseteq Known'
    BY DEF Handed, Known
  <2>2. \A e \in Known : e.seq <= counter.seq
    BY DEF Numbered
  <2>3. \A e \in Handed' : e.seq <= spool'.seq
    BY <1>3, <1>6, <2>1, <2>2
  <2>4. \A e \in Range(spool'.queue) : e.seq <= spool'.seq
    BY <1>2, <1>3, <2>2
  <2> QED BY <1>1, <1>2, <1>3, <2>3, <2>4 DEF Spooled
<1>9. Ordered'
  BY <1>1, <1>3, <1>4, NoQueue DEF Ordered
<1>10. Selected'
  <2>1. Adopted' = Adopted
    BY <1>1, AdoptedKept
  <2>2. CASE tick'.step = "sending"
    <3>1. PolicyAt(tick.rev)' = PolicyAt(tick.rev)
      BY <1>1, <1>4, <2>2 DEF PolicyAt
    <3> QED BY <1>1, <1>4, <2>1, <2>2, <3>1 DEF Selected
  <2>3. CASE tick'.step = "idle"
    BY <1>1, <2>1, <2>3 DEF Selected
  <2> QED BY <1>4, <2>2, <2>3
<1> QED BY <1>5, <1>7, <1>8, <1>9, <1>10

(* An observation that is not taken leaves everything to the next.         *)
LEMMA NotTakenStep ==
  ASSUME Names, Inv, NotTaken
  PROVE  Inv'
<1> USE DEF Inv
<1>1. /\ UNCHANGED <<policies, history, cursors, stored, buffer, counter, spool, changes, boots>>
      /\ UNCHANGED <<adopted, watching, toScan, scanning, noticed>> /\ tick.step = "sending"
      /\ tick' = [tick EXCEPT !.step = "ending"]
  BY DEF NotTaken, watchers, server, At
<1>2. /\ tick'.step = "ending" /\ tick'.rev = tick.rev /\ tick'.batch = tick.batch
      /\ tick' \in [step : Steps, rev : Nat, batch : Seq(Event)]
  BY <1>1 DEF Types, Steps
<1>3. Types'
  BY <1>1, <1>2 DEF Types
<1>4. Known' = Known /\ Handed' = Handed
  BY <1>1, <1>2 DEF Known, Handed, At
<1>5. Numbered' /\ Counted'
  BY <1>1, <1>4, NumbersStay
<1>6. Spooled' /\ Ordered'
  BY <1>1, <1>2, <1>4 DEF Spooled, Ordered
<1>7. Selected'
  BY <1>1, <1>2, AdoptedKept DEF Selected
<1> QED BY <1>3, <1>5, <1>6, <1>7

(* A refusal ends the consent with all that was collected.                 *)
LEMMA RefusedStep ==
  ASSUME Names, Inv, Refused
  PROVE  Inv'
<1> USE DEF Inv
<1>1. /\ UNCHANGED <<policies, history, cursors, stored, counter, spool, changes, boots, adopted>>
      /\ watching' = {} /\ noticed' = {} /\ buffer' = <<>> /\ toScan' = {} /\ tick.step \in {"idle", "sending"}
      /\ scanning' = IF scanning = None THEN None ELSE [scanning EXCEPT !.old = TRUE]
      /\ tick' = [step |-> "ending", rev |-> 0, batch |-> <<>>]
  BY DEF Refused, CloseWatchers, server, Resting
<1>2. /\ scanning' \in Sweep \cup {None}
      /\ scanning' # None => scanning # None /\ scanning'.old /\ scanning'.looked = scanning.looked
  <2>1. CASE scanning = None
    BY <1>1, <2>1
  <2>2. CASE scanning # None
    <3>1. scanning \in Sweep /\ scanning' = [scanning EXCEPT !.old = TRUE]
      BY <1>1, <2>2 DEF Types
    <3> QED BY <2>2, <3>1 DEF Sweep
  <2> QED BY <2>1, <2>2
<1>3. /\ tick'.step = "ending" /\ tick'.rev = 0 /\ tick'.batch = <<>>
      /\ tick' \in [step : Steps, rev : Nat, batch : Seq(Event)] /\ Len(policies) \in Nat
  BY <1>1, NoQueue DEF Types, Steps
<1>4. Types'
  <2>1. buffer' \in Seq(Event) /\ Len(buffer') <= MaxEvents
    BY <1>1, NoQueue DEF Names
  <2>2. watching' \subseteq Roots /\ toScan' \subseteq Roots /\ noticed' \subseteq [id : Nat, root : Roots]
    BY <1>1
  <2> QED BY <1>1, <1>2, <1>3, <2>1, <2>2 DEF Types
<1>5. Known' \subseteq Known /\ Handed' \subseteq Handed
  <2>1. Range(buffer') = {} /\ Range(tick'.batch) = {}
    BY <1>1, <1>3, NoQueue
  <2> QED BY <1>1, <2>1 DEF Known, Handed
<1>6. Numbered' /\ Counted'
  BY <1>1, <1>5, NumbersStay
<1>7. Spooled'
  BY <1>1, <1>5, SpoolKept DEF Spooled
<1>8. Ordered'
  BY <1>1, <1>3, NoQueue DEF Ordered
<1>9. Selected'
  <2>1. Adopted' = Adopted /\ Range(buffer') = {}
    BY <1>1, AdoptedKept, NoQueue
  <2> QED BY <1>1, <1>2, <1>3, <2>1 DEF Selected
<1> QED BY <1>4, <1>6, <1>7, <1>8, <1>9

(* The connector starts with what its spool has.                           *)
LEMMA BootStep ==
  ASSUME Names, Inv, Boot
  PROVE  Inv'
<1> USE DEF Inv
<1>1. /\ UNCHANGED <<policies, history, cursors, stored, spool, changes>>
      /\ boots < MaxBoots /\ boots' = boots + 1
      /\ adopted' = None /\ watching' = {} /\ toScan' = {} /\ scanning' = None /\ noticed' = {}
      /\ tick' = [step |-> "idle", rev |-> 0, batch |-> <<>>]
      /\ spool = None => counter' = [boot |-> boots + 1, seq |-> 0] /\ buffer' = <<>>
      /\ spool # None => counter' = [boot |-> spool.boot, seq |-> spool.seq] /\ buffer' = spool.queue
  BY DEF Boot, server, Resting
<1>2. /\ tick'.step = "idle" /\ tick'.rev = 0 /\ tick'.batch = <<>> /\ Range(tick'.batch) = {}
      /\ tick' \in [step : Steps, rev : Nat, batch : Seq(Event)] /\ Len(policies) \in Nat
  BY <1>1, NoQueue DEF Types, Steps
<1>3. boots \in Nat /\ boots' \in 0 .. MaxBoots
  BY <1>1 DEF Types, Names
<1>4. spool = None => history = {}
  BY DEF Spooled, Handed
<1>5. /\ Known \subseteq Event
      /\ spool # None => spool \in Spool /\ spool.queue \in Seq(Event) /\ Len(spool.queue) <= MaxEvents
  BY KnownTyped DEF Types
<1>6. spool # None => /\ spool.boot = counter.boot /\ spool.seq <= counter.seq /\ spool.boot \in Nat /\ spool.seq \in Nat
                      /\ counter.boot <= boots
  BY <1>5 DEF Spooled, Types, Spool
<1>7. /\ buffer' \in Seq(Event) /\ Len(buffer') <= MaxEvents /\ Increasing(buffer')
      /\ counter' \in [boot : Nat, seq : Nat] /\ counter'.boot <= boots'
  <2>1. CASE spool = None
    BY <1>1, <1>3, <2>1, NoQueue DEF Names
  <2>2. CASE spool # None
    <3>1. counter' \in [boot : Nat, seq : Nat] /\ counter'.boot = spool.boot
      BY <1>1, <1>6, <2>2
    <3>2. counter'.boot <= boots'
      BY <1>1, <1>3, <1>6, <2>2, <3>1 DEF Types
    <3> QED BY <1>1, <1>5, <2>2, <3>1, <3>2 DEF Ordered
  <2> QED BY <2>1, <2>2
<1>8. Types'
  <2>1. watching' \subseteq Roots /\ toScan' \subseteq Roots /\ noticed' \subseteq [id : Nat, root : Roots]
    BY <1>1
  <2> QED BY <1>1, <1>2, <1>3, <1>7, <2>1 DEF Types
<1>9. /\ Known' = history \cup IF spool = None THEN {} ELSE Range(spool.queue)
      /\ Known' \subseteq Known /\ Handed' = history
  <2>1. spool = None => Range(buffer') = {}
    BY <1>1, NoQueue
  <2>2. spool # None => Range(buffer') = Range(spool.queue)
    BY <1>1
  <2> QED BY <1>1, <1>2, <2>1, <2>2 DEF Known, Handed, At
<1>10. \A e \in Known' : e.boot = counter'.boot /\ e.seq <= counter'.seq
  <2>1. CASE spool = None
    BY <1>4, <1>9, <2>1
  <2>2. CASE spool # None
    <3>1. counter'.boot = counter.boot /\ counter'.seq = spool.seq
      BY <1>1, <1>6, <2>2
    <3>2. \A e \in Known' : e.seq <= spool.seq
      BY <1>9, <2>2 DEF Spooled, Handed
    <3>3. \A e \in Known' : e.boot = counter.boot
      BY <1>9 DEF Numbered
    <3> QED BY <3>1, <3>2, <3>3
  <2> QED BY <2>1, <2>2
<1>11. Numbered' /\ Counted'
  <2>1. noticed' \subseteq noticed /\ history' \subseteq history
    BY <1>1
  <2> QED BY <1>1, <1>9, <1>10, <2>1, NumbersKept
<1>12. Spooled'
  <2>1. Handed' \subseteq Handed
    BY <1>9 DEF Handed
  <2>2. CASE spool = None
    BY <1>1, <1>4, <1>9, <2>2 DEF Spooled
  <2>3. CASE spool # None
    <3>1. counter'.boot = counter.boot /\ spool.seq <= counter'.seq
      BY <1>1, <1>6, <2>3
    <3> QED BY <1>1, <2>1, <3>1, SpoolKept
  <2> QED BY <2>2, <2>3
<1>13. Ordered'
  BY <1>1, <1>2, <1>7, NoQueue DEF Ordered
<1>14. Selected'
  BY <1>1, <1>2 DEF Selected
<1> QED BY <1>8, <1>11, <1>12, <1>13, <1>14

(* What is acknowledged: at least what was sent.                           *)
LEMMA AcknowledgedIs ==
  ASSUME NEW h \in Nat, NEW q \in Seq(Event), Increasing(q)
  PROVE  /\ Max({h} \cup {x.seq : x \in Range(q)}) \in Nat
         /\ h <= Max({h} \cup {x.seq : x \in Range(q)})
         /\ \A e \in Range(q) : e.seq <= Max({h} \cup {x.seq : x \in Range(q)})
<1> DEFINE S == {h} \cup {x.seq : x \in Range(q)}
<1>1. /\ Len(q) \in Nat /\ \A i \in 1 .. Len(q) : q[i] \in Range(q) /\ q[i].seq \in Nat
      /\ \A e \in Range(q) : e.seq \in Nat /\ \E i \in 1 .. Len(q) : e = q[i]
  BY RangeSeq DEF Event
<1>2. S \in SUBSET Nat
  BY <1>1
<1>3. \E m \in S : \A x \in S : x <= m
  <2>1. CASE Len(q) = 0
    <3>1. S = {h} /\ h <= h
      BY <1>1, <2>1
    <3>2. h \in S /\ \A x \in S : x <= h
      BY <3>1
    <3> QED BY <3>2
  <2>2. CASE Len(q) # 0
    <3>1. Len(q) \in 1 .. Len(q)
      BY <1>1, <2>2
    <3>2. \A e \in Range(q) : e.seq <= q[Len(q)].seq
      <4> SUFFICES ASSUME NEW e \in Range(q)
                   PROVE  e.seq <= q[Len(q)].seq
        OBVIOUS
      <4>1. PICK i \in 1 .. Len(q) : e = q[i]
        BY <1>1
      <4>2. CASE i = Len(q)
        BY <1>1, <4>1, <4>2
      <4>3. CASE i < Len(q)
        <5>1. q[i].seq < q[Len(q)].seq
          BY <3>1, <4>3 DEF Increasing
        <5> QED BY <1>1, <3>1, <4>1, <5>1
      <4> QED BY <1>1, <4>2, <4>3
    <3>3. q[Len(q)].seq \in S /\ q[Len(q)].seq \in Nat
      BY <1>1, <3>1
    <3>4. CASE h <= q[Len(q)].seq
      BY <3>2, <3>3, <3>4
    <3>5. CASE ~(h <= q[Len(q)].seq)
      <4>1. \A e \in Range(q) : e.seq <= h
        BY <1>1, <3>2, <3>3, <3>5
      <4> QED BY <4>1
    <3> QED BY <3>4, <3>5
  <2> QED BY <2>1, <2>2
<1>4. Max(S) \in S /\ \A x \in S : x <= Max(S)
  <2>1. PICK m \in S : \A x \in S : x <= m
    BY <1>3
  <2>2. Max(S) = m
    BY <1>2, <2>1, MaxIs
  <2> QED BY <2>1, <2>2
<1> QED BY <1>2, <1>4

(* What an observation adds: events of the batch, of changes that were not *)
(* counted, and of each change at most one.                                *)
LEMMA AddedIs ==
  ASSUME Names, Inv, NEW policy \in Policy
  PROVE  LET b == counter.boot
             added == Added(b, tick.batch, policy)
         IN  /\ High(b) = cursors[b] /\ b \in Boots
             /\ added \subseteq Event
             /\ \A e \in added :
                  /\ e.seq > cursors[b]
                  /\ \E f \in Range(tick.batch) : e.id = f.id /\ e.boot = f.boot /\ e.seq = f.seq
             /\ \A c \in Changes :
                  /\ Cardinality({e \in added : e.id = c}) \in {0, 1}
                  /\ (\A e \in added : e.id # c) => Cardinality({e \in added : e.id = c}) = 0
                  /\ stored[c] > 0 => Cardinality({e \in added : e.id = c}) = 0
                  /\ Cardinality({e \in added : e.id = c}) > 0 => \E e \in added : e.id = c
<1> DEFINE b == counter.boot
           added == Added(b, tick.batch, policy)
<1> USE DEF Inv
<1>1. /\ Known \subseteq Event /\ Range(tick.batch) \subseteq Known /\ history \subseteq Known
      /\ tick.batch \in Seq(Event) /\ Increasing(tick.batch) /\ b \in Nat
  BY KnownTyped DEF Ordered
<1>2. b \in Boots
  <2>1. b \in Nat /\ boots \in 0 .. MaxBoots /\ b <= boots /\ MaxBoots \in Nat
    BY <1>1 DEF Types, Names
  <2> QED BY <2>1 DEF Boots
<1>3. High(b) = cursors[b] /\ cursors[b] \in Nat
  <2>1. \A e \in history : e.boot = b
    BY <1>1 DEF Numbered
  <2> QED BY <1>2, <2>1, HighIsCursor DEF Types
<1>4. \A e \in Event :
        /\ Kept(e, policy) \in Event
        /\ Kept(e, policy).id = e.id /\ Kept(e, policy).boot = e.boot /\ Kept(e, policy).seq = e.seq
  BY DEF Kept, Event, Policy
<1>5. \A x \in added : \E f \in Range(tick.batch) : x = Kept(f, policy) /\ f.seq > cursors[b]
  BY <1>3 DEF Added
<1> HIDE DEF added, b
<1>6. ASSUME NEW x \in added
      PROVE  /\ x \in Event /\ x.seq > cursors[b]
             /\ \E f \in Range(tick.batch) : x = Kept(f, policy) /\ x.id = f.id /\ x.boot = f.boot /\ x.seq = f.seq
  <2>1. PICK f \in Range(tick.batch) : x = Kept(f, policy) /\ f.seq > cursors[b]
    BY <1>5
  <2> QED BY <1>1, <1>4, <2>1
<1>7. ASSUME NEW x \in added, NEW y \in added, x.id = y.id
      PROVE  x = y
  <2>1. PICK f \in Range(tick.batch) : x = Kept(f, policy) /\ x.id = f.id
    BY <1>6
  <2>2. PICK g \in Range(tick.batch) : y = Kept(g, policy) /\ y.id = g.id
    BY <1>6
  <2>3. f.seq = g.seq
    BY <1>1, <1>7, <2>1, <2>2 DEF Numbered
  <2>4. PICK i \in 1 .. Len(tick.batch) : f = tick.batch[i]
    BY <1>1, RangeSeq
  <2>5. PICK j \in 1 .. Len(tick.batch) : g = tick.batch[j]
    BY <1>1, RangeSeq
  <2>6. i = j
    <3>1. f.seq \in Nat /\ g.seq \in Nat /\ Len(tick.batch) \in Nat
      <4>1. f \in Event /\ g \in Event /\ Len(tick.batch) \in Nat
        BY <1>1, RangeSeq
      <4> QED BY <4>1 DEF Event
    <3>2. ~(i < j) /\ ~(j < i)
      BY <1>1, <2>3, <2>4, <2>5, <3>1 DEF Increasing
    <3> QED BY <3>1, <3>2
  <2> QED BY <2>1, <2>2, <2>4, <2>5, <2>6
<1>8. ASSUME NEW c \in Changes
      PROVE  /\ Cardinality({e \in added : e.id = c}) \in {0, 1}
             /\ (\A e \in added : e.id # c) => Cardinality({e \in added : e.id = c}) = 0
             /\ stored[c] > 0 => Cardinality({e \in added : e.id = c}) = 0
             /\ Cardinality({e \in added : e.id = c}) > 0 => \E e \in added : e.id = c
  <2> DEFINE D == {e \in added : e.id = c}
  <2>1. CASE \A e \in added : e.id # c
    <3>1. D = {}
      BY <2>1
    <3>2. Cardinality(D) = 0
      BY <3>1, FS_EmptySet
    <3> QED BY <3>2
  <2>2. CASE \E e \in added : e.id = c
    <3>1. PICK x \in added : x.id = c
      BY <2>2
    <3>2. D = {x}
      BY <1>7, <3>1
    <3>3. Cardinality(D) = 1
      BY <3>2, FS_Singleton
    <3>4. ~(stored[c] > 0)
      <4>1. PICK f \in Range(tick.batch) : x.id = f.id /\ x.boot = f.boot /\ x.seq = f.seq
        BY <1>6
      <4>2. f \in Known /\ f.id = c /\ f.boot = b /\ f.seq > cursors[b] /\ f.seq \in Nat
        BY <1>1, <1>6, <3>1, <4>1 DEF Numbered, b, Event
      <4>3. stored[c] > 0 => f.seq <= cursors[f.boot]
        BY <4>2 DEF Counted
      <4> QED BY <1>3, <4>2, <4>3
    <3> QED BY <2>2, <3>3, <3>4
  <2> QED BY <2>1, <2>2
<1>9. \A x \in added :
        /\ x.seq > cursors[b]
        /\ \E f \in Range(tick.batch) : x.id = f.id /\ x.boot = f.boot /\ x.seq = f.seq
  BY <1>6
<1> QED BY <1>2, <1>3, <1>6, <1>8, <1>9 DEF added, b

(* What is taken is counted, whether or not the answer arrives.            *)
LEMMA TakenStep ==
  ASSUME Names, Inv, Accepted \/ Unanswered
  PROVE  Inv'
<1> DEFINE b == counter.boot
           policy == PolicyAt(Len(policies))
           added == Added(b, tick.batch, policy)
           upto == Acknowledged(b, tick.batch, policy)
<1> USE DEF Inv
<1>1. /\ UNCHANGED <<policies, counter, spool, changes, boots, adopted, watching, toScan, scanning, noticed>>
      /\ tick.step = "sending" /\ tick.rev = Len(policies) /\ tick' = [tick EXCEPT !.step = "ending"]
      /\ history' = history \cup added
      /\ stored' = [c \in Changes |-> stored[c] + Cardinality({e \in added : e.id = c})]
      /\ cursors' = [cursors EXCEPT ![b] = upto]
  BY DEF Accepted, Unanswered, Taken, watchers, At
<1>2. policy \in Policy
  <2>1. Len(policies) \in 0 .. Len(policies)
    BY DEF Types
  <2> QED BY <2>1, PolicyTyped
<1>3. /\ Known \subseteq Event /\ Range(tick.batch) \subseteq Known /\ history \subseteq Known
      /\ Handed = history \cup Range(tick.batch) /\ Range(buffer) \subseteq Known
      /\ tick.batch \in Seq(Event) /\ buffer \in Seq(Event) /\ b \in Nat
  BY <1>1, KnownTyped DEF Handed, At
<1>4. /\ High(b) = cursors[b] /\ b \in Boots /\ added \subseteq Event
      /\ \A e \in added :
           /\ e.seq > cursors[b]
           /\ \E f \in Range(tick.batch) : e.id = f.id /\ e.boot = f.boot /\ e.seq = f.seq
      /\ \A c \in Changes :
           /\ Cardinality({e \in added : e.id = c}) \in {0, 1}
           /\ (\A e \in added : e.id # c) => Cardinality({e \in added : e.id = c}) = 0
           /\ stored[c] > 0 => Cardinality({e \in added : e.id = c}) = 0
           /\ Cardinality({e \in added : e.id = c}) > 0 => \E e \in added : e.id = c
  BY <1>2, AddedIs
<1>5. upto \in Nat /\ cursors[b] <= upto /\ \A e \in Range(tick.batch) : e.seq <= upto
  <2>1. cursors[b] \in Nat /\ Increasing(tick.batch)
    BY <1>4 DEF Types, Ordered
  <2> QED BY <1>3, <1>4, <2>1, AcknowledgedIs DEF Acknowledged
<1> HIDE DEF added, upto, policy, b
<1>6. /\ buffer' \in Seq(Event) /\ Len(buffer') <= Len(buffer) /\ Len(buffer') \in Nat
      /\ Range(buffer') \subseteq Range(buffer) /\ Increasing(buffer')
  <2>1. CASE buffer' = buffer
    BY <1>3, <2>1, RangeSeq DEF Ordered
  <2>2. CASE \E n \in 0 .. Len(buffer) : buffer' = SubSeq(buffer, n + 1, Len(buffer))
    <3>1. PICK n \in 0 .. Len(buffer) : buffer' = SubSeq(buffer, n + 1, Len(buffer))
      BY <2>2
    <3>2. n + 1 \in Nat \ {0} /\ Len(buffer) \in Nat /\ Len(buffer) <= Len(buffer)
      BY <1>3, RangeSeq
    <3>3. buffer' \in Seq(Event) /\ Len(buffer') <= Len(buffer) /\ Range(buffer') \subseteq Range(buffer)
      BY <1>3, <3>1, <3>2, PartOfQueue
    <3>4. Increasing(buffer')
      BY <1>3, <3>1, <3>2, PartOfQueue DEF Ordered
    <3> QED BY <3>3, <3>4, RangeSeq
  <2> QED BY <2>1, <2>2 DEF Accepted, Unanswered, Acknowledge
<1>7. /\ tick'.step = "ending" /\ tick'.rev = tick.rev /\ tick'.batch = tick.batch
      /\ tick' \in [step : Steps, rev : Nat, batch : Seq(Event)]
  BY <1>1 DEF Types, Steps
<1>8. /\ cursors' \in [Boots -> Nat] /\ cursors'[b] = upto
      /\ \A a \in Boots : a # b => cursors'[a] = cursors[a]
  BY <1>1, <1>4, <1>5 DEF Types
<1>9. /\ stored' \in [Changes -> Nat]
      /\ \A c \in Changes : stored'[c] = stored[c] + Cardinality({e \in added : e.id = c}) /\ stored[c] \in Nat
  <2>1. stored \in [Changes -> Nat]
    BY DEF Types
  <2> QED BY <1>1, <1>4, <2>1
<1>10. Types'
  <2>1. history' \subseteq Event
    BY <1>1, <1>4 DEF Types
  <2>2. Len(buffer') <= MaxEvents
    BY <1>3, <1>6, RangeSeq DEF Types, Names
  <2> QED BY <1>1, <1>6, <1>7, <1>8, <1>9, <2>1, <2>2 DEF Types
<1>11. Known' \subseteq Known \cup added
  BY <1>1, <1>6, <1>7 DEF Known
<1>12. \A e \in Known' : \E f \in Known : e.id = f.id /\ e.boot = f.boot /\ e.seq = f.seq
  <2> SUFFICES ASSUME NEW e \in Known'
               PROVE  \E f \in Known : e.id = f.id /\ e.boot = f.boot /\ e.seq = f.seq
    OBVIOUS
  <2>1. CASE e \in Known
    BY <2>1
  <2>2. CASE e \in added
    BY <1>3, <1>4, <2>2
  <2> QED BY <1>11, <2>1, <2>2
<1>13. Numbered'
  <2>1. \A e \in Known' : e.boot = counter'.boot /\ e.seq <= counter'.seq /\ e.id \in 1 .. changes'
    BY <1>1, <1>12 DEF Numbered
  <2>2. \A e, f \in Known' : e.seq = f.seq <=> e.id = f.id
    BY <1>12 DEF Numbered
  <2>3. ASSUME NEW n \in noticed'
        PROVE  /\ n.id \in 1 .. changes' /\ stored'[n.id] = 0
               /\ \A e \in Known' : e.id # n.id
               /\ \A m \in noticed' : n.id = m.id => n = m
    <3>1. /\ n \in noticed /\ n.id \in 1 .. changes /\ stored[n.id] = 0 /\ \A e \in Known : e.id # n.id
          /\ \A m \in noticed : n.id = m.id => n = m
      BY <1>1 DEF Numbered
    <3>2. n.id \in Changes
      <4>1. changes \in 0 .. MaxChanges /\ MaxChanges \in Nat
        BY DEF Types, Names
      <4> QED BY <3>1, <4>1 DEF Changes
    <3>3. \A e \in Known' : e.id # n.id
      BY <1>12, <3>1
    <3>4. \A e \in added : e.id # n.id
      BY <1>3, <1>4, <3>1
    <3>5. Cardinality({e \in added : e.id = n.id}) = 0
      BY <1>4, <3>2, <3>4
    <3>6. stored'[n.id] = 0
      BY <1>9, <3>1, <3>2, <3>5
    <3> QED BY <1>1, <3>1, <3>3, <3>6
  <2> QED BY <2>1, <2>2, <2>3 DEF Numbered
<1>14. Counted'
  <2>1. \A e \in Known' : e.boot = b /\ e.seq \in Nat
    BY <1>3, <1>12 DEF Numbered, b, Event
  <2>2. \A e \in history' : e.seq <= cursors'[e.boot]
    <3> SUFFICES ASSUME NEW e \in history'
                 PROVE  e.seq <= cursors'[e.boot]
      OBVIOUS
    <3>1. e \in Known' /\ e.boot = b /\ e.seq \in Nat
      BY <2>1 DEF Known
    <3>2. CASE e \in history
      BY <1>4, <1>5, <1>8, <3>1, <3>2 DEF Counted, Types
    <3>3. CASE e \in added
      BY <1>4, <1>5, <1>8, <3>1, <3>3
    <3> QED BY <1>1, <3>2, <3>3
  <2>3. ASSUME NEW c \in Changes
        PROVE  /\ stored'[c] <= 1
               /\ stored'[c] > 0 => c <= changes' /\ \A e \in Known' : e.id = c => e.seq <= cursors'[e.boot]
    <3> DEFINE k == Cardinality({e \in added : e.id = c})
    <3>0. /\ k \in {0, 1} /\ (stored[c] > 0 => k = 0) /\ (k > 0 => \E e \in added : e.id = c)
          /\ stored'[c] = stored[c] + k
      BY <1>4, <1>9
    <3> HIDE DEF k
    <3>1. /\ stored[c] \in Nat /\ stored[c] <= 1 /\ (stored[c] > 0 => c <= changes)
          /\ stored[c] > 0 => \A e \in Known : e.id = c => e.seq <= cursors[e.boot]
      BY <1>9 DEF Counted
    <3>2. CASE stored[c] > 0
      <4>1. stored'[c] = stored[c]
        BY <3>0, <3>1, <3>2
      <4>2. ASSUME NEW e \in Known', e.id = c
            PROVE  e.seq <= cursors'[e.boot]
        <5>1. PICK f \in Known : e.id = f.id /\ e.boot = f.boot /\ e.seq = f.seq
          BY <1>12
        <5>2. f.seq <= cursors[b] /\ e.boot = b /\ e.seq \in Nat /\ cursors[b] \in Nat
          BY <1>4, <2>1, <3>1, <3>2, <4>2, <5>1 DEF Types
        <5> QED BY <1>5, <1>8, <5>1, <5>2
      <4> QED BY <1>1, <3>1, <4>1, <4>2
    <3>3. CASE ~(stored[c] > 0)
      <4>1. stored[c] = 0 /\ stored'[c] = k /\ stored'[c] \in {0, 1}
        BY <3>0, <3>1, <3>3
      <4>2. ASSUME stored'[c] > 0
            PROVE  c <= changes' /\ \A e \in Known' : e.id = c => e.seq <= cursors'[e.boot]
        <5>1. PICK x \in added : x.id = c
          BY <3>0, <4>1, <4>2
        <5>2. PICK g \in Range(tick.batch) : x.id = g.id /\ x.boot = g.boot /\ x.seq = g.seq
          BY <1>4
        <5>3. g \in Known /\ g.seq <= upto /\ c \in 1 .. changes
          BY <1>3, <1>5, <5>1, <5>2 DEF Numbered
        <5>4. ASSUME NEW e \in Known', e.id = c
              PROVE  e.seq <= cursors'[e.boot]
          <6>1. PICK f \in Known : e.id = f.id /\ e.boot = f.boot /\ e.seq = f.seq
            BY <1>12
          <6>2. f.seq = g.seq /\ e.boot = b
            BY <2>1, <5>1, <5>2, <5>3, <5>4, <6>1 DEF Numbered
          <6> QED BY <1>8, <5>3, <6>1, <6>2
        <5>5. c <= changes'
          BY <1>1, <5>3 DEF Types
        <5> QED BY <5>4, <5>5
      <4> QED BY <4>1, <4>2
    <3> QED BY <3>2, <3>3
  <2> QED BY <2>2, <2>3 DEF Counted
<1>15. Spooled'
  <2>1. \A e \in Handed' : \E f \in Handed : e.seq = f.seq
    <3>1. Handed' \subseteq history \cup added \cup Range(tick.batch)
      BY <1>1, <1>7 DEF Handed
    <3> QED BY <1>3, <1>4, <3>1
  <2>2. \A e \in Handed' : spool # None /\ e.seq <= spool.seq
    BY <2>1 DEF Spooled
  <2> QED BY <1>1, <2>2 DEF Spooled
<1>16. Ordered'
  BY <1>1, <1>6, <1>7 DEF Ordered
<1>17. Selected'
  <2>1. Adopted' = Adopted
    BY <1>1, AdoptedKept
  <2> QED BY <1>1, <1>6, <1>7, <2>1 DEF Selected
<1> QED BY <1>10, <1>13, <1>14, <1>15, <1>16, <1>17

--------------------------------------------------------------------------------
(***************************************************************************)
(* Every step, and what the invariant gives.                               *)
(***************************************************************************)

(* Each step keeps the invariant.                                          *)
LEMMA NextInv == Names /\ Inv /\ [Next]_vars => Inv'
<1> SUFFICES ASSUME Names, Inv, [Next]_vars
             PROVE  Inv'
  OBVIOUS
<1>1. CASE \E p \in [enabled : BOOLEAN, drives : BOOLEAN, content : BOOLEAN] : ConfigurePolicy(p)
  BY <1>1, ConfigurePolicyStep DEF Policy
<1>2. CASE Prune \/ Fetch \/ Configure \/ Sample
  BY <1>2, PruneStep, FetchStep, ConfigureStep, SampleStep
<1>3. CASE Persist \/ Accepted \/ Unanswered \/ NotTaken \/ Refused \/ Boot
  BY <1>3, PersistStep, TakenStep, NotTakenStep, RefusedStep, BootStep
<1>4. CASE Withdraw \/ Watch
  <2>1. Repository \in Roots
    BY DEF Roots
  <2> QED BY <1>4, <2>1, ScanStep
<1>5. CASE \E r \in Roots : Scan(r) \/ Notice(r) \/ Audit(r)
  BY <1>5, ScanStep, NoticeStep, AuditStep
<1>6. CASE \E n \in noticed : Record(n)
  BY <1>6, RecordStep
<1>7. CASE UNCHANGED vars
  BY <1>7 DEF vars, server, watchers, Inv, Types, Ordered, Numbered, Spooled, Counted, Selected,
     Known, Handed, At, Scope, Adopted, PolicyAt
<1> QED BY <1>1, <1>2, <1>3, <1>4, <1>5, <1>6, <1>7 DEF Next, Ticks

(* What the invariant says of events and policies.                         *)
LEMMA InvImplies == Names /\ Inv => TypeOK /\ EachChangeOnce /\ FollowsThePolicy
<1> SUFFICES ASSUME Names, Inv
             PROVE  TypeOK /\ EachChangeOnce /\ FollowsThePolicy
  OBVIOUS
<1> USE DEF Inv
<1>1. TypeOK
  <2>1. Known \subseteq Event
    BY KnownTyped
  <2>2. \A e \in Known : e.id \in Changes /\ e.boot \in Boots /\ e.root \in Roots
    <3> SUFFICES ASSUME NEW e \in Known
                 PROVE  e.id \in Changes /\ e.boot \in Boots /\ e.root \in Roots
      OBVIOUS
    <3>1. e \in Event /\ e.boot = counter.boot /\ e.id \in 1 .. changes
      BY <2>1 DEF Numbered
    <3>2. counter.boot <= boots /\ boots \in 0 .. MaxBoots /\ changes \in 0 .. MaxChanges
      BY DEF Types
    <3>3. MaxBoots \in Nat /\ MaxChanges \in Nat /\ e.boot \in Nat /\ e.root \in Roots
      BY <3>1 DEF Names, Event
    <3> QED BY <3>1, <3>2, <3>3 DEF Changes, Boots
  <2>3. adopted \in {None} \cup 0 .. Len(policies) /\ tick.rev \in 0 .. Len(policies)
    BY DEF Types
  <2> QED BY <2>2, <2>3 DEF TypeOK, Types
<1>2. EachChangeOnce
  BY DEF EachChangeOnce, Numbered, Counted
<1>3. FollowsThePolicy
  BY DEF FollowsThePolicy, Selected, Names
<1> QED BY <1>1, <1>2, <1>3

(* The invariant holds always.                                             *)
LEMMA InvHolds == ASSUME Names PROVE Spec => []Inv
<1>1. Init => Inv
  BY InitInv
<1>2. Inv /\ [Next]_vars => Inv'
  BY NextInv
<1> QED BY <1>1, <1>2, PTL DEF Spec

(* An event is one change for good, and no change enters the history twice,*)
(* whatever answers are lost and whenever the connector stops              *)
(* (SystemDiscovery.cjs:333-354, 818-824, system-discovery.ts:590-641).    *)
THEOREM EventsAreChanges == ASSUME Names PROVE Spec => []EachChangeOnce
<1>1. Inv => EachChangeOnce
  BY InvImplies
<1> QED BY <1>1, InvHolds, PTL

(* What is sent is what the policy at hand selects, and on systems without *)
(* the second wait no watcher outlives its policy                          *)
(* (SystemDiscovery.cjs:588-630, 510-550).                                 *)
THEOREM PoliciesAreFollowed == ASSUME Names PROVE Spec => []FollowsThePolicy
<1>1. Inv => FollowsThePolicy
  BY InvImplies
<1> QED BY <1>1, InvHolds, PTL
================================================================================
