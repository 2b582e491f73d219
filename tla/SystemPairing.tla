----------------------------- MODULE SystemPairing -----------------------------
(***************************************************************************)
(* Connecting a computer: the enrolments that the control plane keeps and  *)
(* members decide (SystemPairings of developer-connectors.ts), the device  *)
(* records they lead to (DeveloperConnectorStore), and the setup program   *)
(* on the computer (deployment/servix/DeviceEnrollment.cjs), which makes   *)
(* one proposal after another until one is approved.                       *)
(*                                                                         *)
(* decide is taken step by step, for each of its files is written alone    *)
(* and the process may stop between two of them.                           *)
(***************************************************************************)
EXTENDS Naturals, FiniteSets

CONSTANTS
  Actors, None, Torn,
  DeviceLimit,   (* active devices of an actor, 10 in the code              *)
  MaxProposals,  (* bound: proposals the computer makes                     *)
  MaxPaired,     (* bound: devices paired by account, as seen by the limit  *)
  MaxHalts,      (* bound: stops of the control plane                       *)
  MaxReopens     (* bound: times the setup program is opened again          *)

VARIABLES
  enrollment,   (* record-fc_*.json of each proposal                        *)
  lapsed,       (* the proposals whose ten minutes have passed              *)
  intents,      (* intent-ep_*.json: who meant to approve                   *)
  receipts,     (* consumed-ep_*.json: who approved                         *)
  owners,       (* system-fc_*.json: the device record of each proposal     *)
  paired,       (* devices of each actor paired by account                  *)
  policies,     (* the devices with a discovery policy                      *)
  deciding,     (* the call of decide that has the promise chain            *)
  halts,        (* stops of the control plane so far                        *)
  setup,        (* the memory of the setup program                          *)
  proposals,    (* proposals made so far                                    *)
  pendingIndex, (* pending.json                                             *)
  connection,   (* connection.json                                          *)
  installed,    (* the proposals whose runtime is installed                 *)
  reopens       (* times the setup program was opened again                 *)

evidence == <<intents, receipts>>
devices  == <<owners, paired, policies>>
pairing  == <<enrollment, lapsed, evidence, devices, deciding, halts>>
disk     == <<proposals, pendingIndex, connection, installed>>
computer == <<setup, disk, reopens>>
vars     == <<pairing, computer>>

--------------------------------------------------------------------------------
Proposals == 1 .. MaxProposals
Fresh(p)  == p \notin lapsed

NoEnrollment == [status |-> "none", actor |-> None]
NoDevice     == [owner |-> None, status |-> "none"]
NoDecision   == [step |-> "none", of |-> 0, actor |-> None]
Opened       == [phase |-> "ready", pending |-> 0, active |-> FALSE, forceNew |-> FALSE]

Init ==
  /\ enrollment = [p \in Proposals |-> NoEnrollment] /\ lapsed = {}
  /\ intents = [p \in Proposals |-> None] /\ receipts = [p \in Proposals |-> None]
  /\ owners = [p \in Proposals |-> NoDevice] /\ paired = [a \in Actors |-> 0]
  /\ policies = {} /\ deciding = NoDecision /\ halts = 0
  /\ setup = Opened /\ proposals = 0 /\ pendingIndex = 0 /\ connection = 0
  /\ installed = {} /\ reopens = 0

(* records() reads every record, and fails for all if one cannot be parsed.*)
Readable == \A p \in Proposals : enrollment[p].status # Torn

Active(a) == paired[a] + Cardinality({p \in Proposals : owners[p] = [owner |-> a, status |-> "active"]})

--------------------------------------------------------------------------------
(* The control plane: decide, in the order of its writes.                  *)

Decide(a, p) ==
  /\ deciding.step = "none" /\ Readable /\ Fresh(p)
  /\ enrollment[p].actor \in {None, a}
  /\ \/ enrollment[p].status = "pending" /\ Active(a) < DeviceLimit
     \/ enrollment[p].status = "approving"
  /\ deciding' = [step |-> IF enrollment[p].status = "pending" THEN "intent" ELSE "receipt",
                  of |-> p, actor |-> a]
  /\ UNCHANGED <<enrollment, lapsed, evidence, devices, halts, computer>>

Reject(a, p) ==
  /\ deciding.step = "none" /\ Readable /\ Fresh(p)
  /\ enrollment[p].status = "pending"
  /\ enrollment' = [enrollment EXCEPT ![p] = [status |-> "rejected", actor |-> a]]
  /\ UNCHANGED <<lapsed, evidence, devices, deciding, halts, computer>>

At(step)      == deciding.step = step
Proceed(step) == deciding' = [deciding EXCEPT !.step = step]
Give(status)  == enrollment' = [enrollment EXCEPT ![deciding.of] = [status |-> status, actor |-> deciding.actor]]

(* Evidence that is there already must be this actor's, and a call that    *)
(* finds another's, or a torn file, leaves the chain.                      *)
Intend ==
  /\ At("intent")
  /\ IF intents[deciding.of] \in {None, deciding.actor}
     THEN intents' = [intents EXCEPT ![deciding.of] = deciding.actor] /\ Proceed("mark")
     ELSE deciding' = NoDecision /\ UNCHANGED intents
  /\ UNCHANGED <<enrollment, lapsed, receipts, devices, halts, computer>>

Mark ==
  /\ At("mark")
  /\ Give("approving") /\ Proceed("receipt")
  /\ UNCHANGED <<lapsed, evidence, devices, halts, computer>>

Receipt ==
  /\ At("receipt")
  /\ IF intents[deciding.of] = deciding.actor /\ receipts[deciding.of] \in {None, deciding.actor}
     THEN /\ receipts' = [receipts EXCEPT ![deciding.of] = deciding.actor]
          /\ Proceed("accept")
     ELSE deciding' = NoDecision /\ UNCHANGED receipts
  /\ UNCHANGED <<enrollment, lapsed, intents, devices, halts, computer>>

(* acceptSystemEnrollment: the device of an earlier attempt is taken as it *)
(* is, if it is this actor's and active.                                   *)
Accept ==
  /\ At("accept")
  /\ LET prior == owners[deciding.of]
         mine  == [owner |-> deciding.actor, status |-> "active"]
     IN IF prior = mine \/ (prior = NoDevice /\ Active(deciding.actor) < DeviceLimit)
        THEN owners' = [owners EXCEPT ![deciding.of] = mine] /\ Proceed("policy")
        ELSE deciding' = NoDecision /\ UNCHANGED owners
  /\ UNCHANGED <<enrollment, lapsed, evidence, paired, policies, halts, computer>>

(* A revoked device is no longer among the systems that can be configured. *)
(* Faulty form of Configure: the approval is recorded with the policy.     *)
ConfigureLast ==
  /\ At("policy")
  /\ Give("approved") /\ Proceed("policies")
  /\ UNCHANGED <<lapsed, evidence, devices, halts, computer>>
Configure ==
  /\ At("policy")
  /\ IF deciding.of \in policies \/ owners[deciding.of].status = "active"
     THEN policies' = policies \cup {deciding.of} /\ Proceed("approve")
     ELSE deciding' = NoDecision /\ UNCHANGED policies
  /\ UNCHANGED <<enrollment, lapsed, evidence, owners, paired, halts, computer>>

Approve ==
  /\ At("approve")
  /\ Give("approved") /\ deciding' = NoDecision
  /\ UNCHANGED <<lapsed, evidence, devices, halts, computer>>

(* A stop of the process.  A file that was being made, in place, is torn.  *)
Halt ==
  /\ halts < MaxHalts /\ halts' = halts + 1
  /\ deciding' = NoDecision
  /\ \/ UNCHANGED <<enrollment, evidence>>
     \/ /\ At("intent") /\ intents[deciding.of] = None
        /\ intents' = [intents EXCEPT ![deciding.of] = Torn] /\ UNCHANGED <<enrollment, receipts>>
     \/ /\ At("receipt") /\ receipts[deciding.of] = None
        /\ receipts' = [receipts EXCEPT ![deciding.of] = Torn] /\ UNCHANGED <<enrollment, intents>>
     \/ /\ setup.phase = "starting" /\ enrollment[setup.pending].status = "none" /\ At("none")
        /\ enrollment' = [enrollment EXCEPT ![setup.pending].status = Torn] /\ UNCHANGED evidence
  /\ UNCHANGED <<lapsed, devices, computer>>

--------------------------------------------------------------------------------
(* The control plane: the rest.                                            *)

(* The owner, or an administrator, revokes the device; one is paired with  *)
(* an account and a password instead.                                      *)
Disconnect(p) ==
  /\ owners[p].status = "active"
  /\ owners' = [owners EXCEPT ![p].status = "revoked"]
  /\ UNCHANGED <<enrollment, lapsed, evidence, paired, policies, deciding, halts, computer>>

Pair(a) ==
  /\ paired[a] < MaxPaired /\ Active(a) < DeviceLimit
  /\ paired' = [paired EXCEPT ![a] = @ + 1]
  /\ UNCHANGED <<enrollment, lapsed, evidence, owners, policies, deciding, halts, computer>>

(* Ten minutes, and thirty more, after which records() removes what was    *)
(* not approved.  The next enrolment of the device has a new identifier.   *)
Lapse(p) ==
  /\ enrollment[p].status # "none" /\ Fresh(p)
  /\ lapsed' = lapsed \cup {p}
  /\ UNCHANGED <<enrollment, evidence, devices, deciding, halts, computer>>

Sweep(p) ==
  /\ deciding.step = "none" /\ Readable /\ p \in lapsed
  /\ enrollment[p].status \in {"pending", "rejected"}
  /\ enrollment' = [enrollment EXCEPT ![p] = NoEnrollment]
  /\ intents' = [intents EXCEPT ![p] = None]
  /\ UNCHANGED <<lapsed, receipts, devices, deciding, halts, computer>>

(* What the device is told of itself.                                      *)
Known(p) == Readable /\ owners[p].status = "active"

Ready(p) ==
  /\ Known(p)
  /\ \/ enrollment[p].status = "none"
     \/ enrollment[p].status = "approved" /\ receipts[p] = owners[p].owner
Preview(p) == IF Fresh(p) THEN enrollment[p].status ELSE "expired"

--------------------------------------------------------------------------------
(* The setup program.                                                      *)

Busy == setup.phase \in {"starting", "approval", "resuming", "installing", "saving", "waiting"}

Enter(phase)   == setup' = [setup EXCEPT !.phase = phase]
Fail           == Enter("failed")
FailForNew     == setup' = [Opened EXCEPT !.phase = "failed", !.forceNew = TRUE]
Use(p, active) == setup' = [phase |-> IF active THEN "resuming" ELSE "starting", pending |-> p,
                            active |-> active, forceNew |-> FALSE]

(* connect, up to what prepare returns: what the window still holds, the   *)
(* protected connection, the proposal of an earlier window if it is young  *)
(* or known, and else a new proposal, as when a helper fails.              *)
Connect ==
  /\ ~Busy /\ setup.phase # "connected"
  /\ \/ setup.pending # 0 /\ Use(setup.pending, setup.active) /\ UNCHANGED disk
     \/ /\ setup.pending = 0 /\ ~setup.forceNew /\ connection # 0
        /\ Use(connection, TRUE) /\ UNCHANGED disk
     \/ /\ setup.pending = 0 /\ ~setup.forceNew /\ pendingIndex # 0
        /\ (Fresh(pendingIndex) \/ Known(pendingIndex))
        /\ Use(pendingIndex, FALSE) /\ UNCHANGED disk
     \/ /\ setup.pending = 0
        /\ proposals < MaxProposals
        /\ proposals' = proposals + 1 /\ pendingIndex' = proposals'
        /\ Use(proposals', FALSE) /\ UNCHANGED <<connection, installed>>
  /\ UNCHANGED <<pairing, reopens>>

(* The device may be approved already; or it is proposed, again or anew;   *)
(* or the call fails, as all do while a record cannot be read.             *)
Start ==
  /\ setup.phase = "starting"
  /\ \/ ~Readable /\ Fail /\ UNCHANGED <<enrollment, lapsed>>
     \/ Ready(setup.pending) /\ Enter("installing") /\ UNCHANGED <<enrollment, lapsed>>
     \/ /\ Readable /\ ~Ready(setup.pending) /\ deciding.step = "none"
        /\ Enter("approval")
        /\ IF enrollment[setup.pending].status # "none"
           THEN UNCHANGED <<enrollment, lapsed>>
           ELSE /\ enrollment' = [enrollment EXCEPT ![setup.pending].status = "pending"]
                /\ lapsed' = lapsed \ {setup.pending}
  /\ UNCHANGED <<evidence, devices, deciding, halts, disk, reopens>>

(* The poll loop.  A proposal that was removed is answered with 401.       *)
Poll ==
  /\ setup.phase = "approval"
  /\ \/ Preview(setup.pending) \in {"expired", "rejected"} /\ FailForNew
     \/ Preview(setup.pending) = "approved" /\ Ready(setup.pending) /\ Enter("installing")
     \/ Preview(setup.pending) \in {"none", Torn} /\ Fail
  /\ UNCHANGED <<pairing, disk, reopens>>

Resume ==
  /\ setup.phase = "resuming"
  /\ IF ~Readable THEN Fail ELSE IF Ready(setup.pending) THEN Enter("saving") ELSE FailForNew
  /\ UNCHANGED <<pairing, disk, reopens>>

Install ==
  /\ setup.phase = "installing"
  /\ installed' = installed \cup {setup.pending}
  /\ Enter("saving")
  /\ UNCHANGED <<pairing, proposals, pendingIndex, connection, reopens>>

SaveConnection ==
  /\ setup.phase = "saving"
  /\ connection' = setup.pending
  /\ Enter("waiting")
  /\ UNCHANGED <<pairing, proposals, pendingIndex, installed, reopens>>

(* Online once the runtime's heartbeat was taken; or 45 seconds are over.  *)
Wait ==
  /\ setup.phase = "waiting"
  /\ \/ /\ Ready(setup.pending) /\ setup.pending \in installed
        /\ setup' = [Opened EXCEPT !.phase = "connected"]
     \/ Enter("late")
  /\ UNCHANGED <<pairing, disk, reopens>>

(* A request or a helper fails, or times out; the window is closed and opened again.     *)
Break ==
  /\ Busy /\ Fail
  /\ UNCHANGED <<pairing, disk, reopens>>

Reopen ==
  /\ reopens < MaxReopens /\ reopens' = reopens + 1
  /\ setup' = Opened
  /\ UNCHANGED <<pairing, disk>>

--------------------------------------------------------------------------------
Deciding == Intend \/ Mark \/ Receipt \/ Accept \/ Configure \/ Approve
Setup    == Start \/ Poll \/ Resume \/ Install \/ SaveConnection \/ Wait

Next ==
  \/ \E a \in Actors, p \in Proposals : Decide(a, p) \/ Reject(a, p)
  \/ Deciding
  \/ Halt
  \/ \E a \in Actors : Pair(a)
  \/ \E p \in Proposals : Disconnect(p) \/ Lapse(p) \/ Sweep(p)
  \/ Connect \/ Setup
  \/ Break \/ Reopen

Fairness ==
  /\ WF_vars(Deciding)
  /\ WF_vars(Setup)
  /\ \A p \in Proposals : WF_vars(Lapse(p))

Spec     == Init /\ [][Next]_vars
FairSpec == Spec /\ Fairness

--------------------------------------------------------------------------------
TypeOK ==
  /\ enrollment \in [Proposals -> [status : {"none", "pending", "approving", "approved", "rejected", Torn},
                                   actor : Actors \cup {None}]]
  /\ lapsed \subseteq Proposals /\ policies \subseteq Proposals /\ installed \subseteq Proposals
  /\ intents \in [Proposals -> Actors \cup {None, Torn}]
  /\ receipts \in [Proposals -> Actors \cup {None, Torn}]
  /\ owners \in [Proposals -> [owner : Actors \cup {None}, status : {"none", "active", "revoked"}]]
  /\ deciding.of \in 0 .. MaxProposals /\ deciding.actor \in Actors \cup {None}
  /\ setup.pending \in 0 .. proposals /\ pendingIndex = proposals /\ connection \in 0 .. proposals

(* Whatever was interrupted, an approved enrolment has the receipt, the    *)
(* device and the policy of the one actor who approved it: 1135-1263.      *)
ApprovedIsWhole ==
  \A p \in Proposals : enrollment[p].status = "approved" =>
    /\ intents[p] = enrollment[p].actor /\ receipts[p] = enrollment[p].actor
    /\ owners[p].owner = enrollment[p].actor /\ p \in policies

(* No device is without the receipt of the actor who owns it, so that none *)
(* is taken for one paired by account: ADR 0059, and ready of status, 1292.*)
DeviceHasReceipt ==
  \A p \in Proposals : owners[p].owner # None =>
    /\ receipts[p] = owners[p].owner
    /\ enrollment[p].status \in {"approving", "approved"}

(* The limit of active devices holds across the two promise chains that    *)
(* pairing and approving run in: 491, 592, 1184.                           *)
WithinDeviceLimit == \A a \in Actors : Active(a) <= DeviceLimit

(* The computer installs the runtime of a proposal only once its approval  *)
(* is recorded, never for one that is under way: DeviceEnrollment.cjs 290. *)
InstalledIsApproved == \A p \in installed : enrollment[p].status = "approved"
================================================================================
