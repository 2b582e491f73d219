----------------------------- MODULE PeopleProofs -----------------------------
(***************************************************************************)
(* What people do with the platform, and what each part of it keeps to, for*)
(* every value of its constants: pairing a computer, signing in and        *)
(* changing a password, equipping a computer, connecting it by account,    *)
(* confirming what a page shows, editing an environment file, editing the  *)
(* settings of a project.  For each part: its bounds (...Bounds), the      *)
(* invariant (...Inv), that it holds to begin with (...Start), that every  *)
(* step keeps it (...Step), as does a step of another part (...Still), and *)
(* what follows for a state (...Safe) and for a step (...Move).  MCServices*)
(* has two instances of this module, with different constants.             *)
(***************************************************************************)
EXTENDS Naturals, Sequences, FiniteSets, FiniteSetTheorems, TLAPS

--------------------------------------------------------------------------------
(* A computer that asks to be paired, and is approved (SystemPairing).     *)

CONSTANTS Actors, None, Torn, DeviceLimit, MaxProposals, MaxPaired, MaxHalts, MaxReopens
VARIABLES enrollment, lapsed, intents, receipts, owners, paired, policies, deciding, halts, setup,
  proposals, pendingIndex, connection, installed, reopens

Pairing == INSTANCE SystemPairing

(* None is no member, and a torn file no value of another.                 *)
EnrollmentStates == {"none", "pending", "approving", "approved", "rejected"}
PairingBounds ==
  /\ MaxProposals \in Nat /\ DeviceLimit \in Nat
  /\ None \notin Actors /\ Torn \notin Actors /\ Torn # None /\ Torn \notin EnrollmentStates

Enrolled     == [status : EnrollmentStates \cup {Torn}, actor : Actors \cup {None}]
PairedDevice == [owner : Actors \cup {None}, status : {"none", "active", "revoked"}]
PairingFiles == Actors \cup {None, Torn}
CallSteps    == {"none", "intent", "mark", "receipt", "accept", "policy", "approve"}
Call         == [step : CallSteps, of : 0 .. MaxProposals, actor : Actors \cup {None}]
SetupPhases  == {"ready", "starting", "approval", "resuming", "installing", "saving", "waiting",
                 "failed", "late", "connected"}
SetupWindow  == [phase : SetupPhases, pending : 0 .. MaxProposals,
                 active : BOOLEAN, forceNew : BOOLEAN]

FilesTypes ==
  /\ enrollment \in [Pairing!Proposals -> Enrolled]
  /\ lapsed \subseteq Pairing!Proposals /\ policies \subseteq Pairing!Proposals /\ installed \subseteq Pairing!Proposals
  /\ intents \in [Pairing!Proposals -> PairingFiles] /\ receipts \in [Pairing!Proposals -> PairingFiles]
  /\ owners \in [Pairing!Proposals -> PairedDevice]
  /\ deciding \in Call /\ setup \in SetupWindow

(* What is at hand has been proposed.                                      *)
Proposed ==
  /\ proposals \in 0 .. MaxProposals /\ pendingIndex = proposals
  /\ connection \in 0 .. proposals /\ setup.pending \in 0 .. proposals

(* The files of a proposal agree once it is approved, and a device has the *)
(* receipt of its owner from the moment there is one.                      *)
FilesOf(p) ==
  /\ enrollment[p].status = "approved" =>
       /\ intents[p] = enrollment[p].actor /\ receipts[p] = enrollment[p].actor
       /\ owners[p].owner = enrollment[p].actor /\ p \in policies
  /\ enrollment[p].status = "approving" => enrollment[p].actor # None
  /\ owners[p].owner # None => receipts[p] = owners[p].owner /\ enrollment[p].status \in {"approving", "approved"}
  /\ owners[p].status # "none" => owners[p].owner # None
FilesOK == \A p \in Pairing!Proposals : FilesOf(p)

(* How far the call of decide has come: nobody else decides meanwhile.     *)
CallOK ==
  Pairing!At("none") \/
    LET p == deciding.of
        a == deciding.actor
    IN /\ p \in Pairing!Proposals /\ a \in Actors
       /\ deciding.step \in {"intent", "mark"} => enrollment[p].status = "pending"
       /\ deciding.step \in {"receipt", "accept", "policy", "approve"} => enrollment[p] = [status |-> "approving", actor |-> a]
       /\ deciding.step \in {"mark", "accept", "policy", "approve"} => intents[p] = a
       /\ deciding.step \in {"accept", "policy", "approve"} => receipts[p] = a
       /\ deciding.step \in {"policy", "approve"} => owners[p].owner = a
       /\ Pairing!At("approve") => p \in policies

(* The setup program installs what is approved, and works on a proposal.   *)
SetupOK ==
  /\ Pairing!Busy => setup.pending # 0
  /\ setup.phase = "installing" => enrollment[setup.pending].status = "approved"
  /\ \A p \in installed : enrollment[p].status = "approved"

FilesInv == FilesTypes /\ Proposed /\ FilesOK /\ CallOK /\ SetupOK

--------------------------------------------------------------------------------
(***************************************************************************)
(* The initial states, and each action.                                    *)
(***************************************************************************)

(* The invariant holds initially.                                          *)
LEMMA FilesStart == PairingBounds /\ Pairing!Init => FilesInv
<1> SUFFICES ASSUME PairingBounds, Pairing!Init
             PROVE  FilesInv
  OBVIOUS
<1>1. /\ Pairing!NoEnrollment \in Enrolled /\ Pairing!NoEnrollment.status = "none"
      /\ Pairing!NoDevice \in PairedDevice /\ Pairing!NoDevice.owner = None /\ Pairing!NoDevice.status = "none"
      /\ Pairing!NoDecision \in Call /\ Pairing!NoDecision.step = "none"
      /\ Pairing!Opened \in SetupWindow /\ Pairing!Opened.phase = "ready" /\ Pairing!Opened.pending = 0
  BY DEF PairingBounds, Pairing!NoEnrollment, Enrolled, EnrollmentStates, Pairing!NoDevice,
     PairedDevice, Pairing!NoDecision, Call, CallSteps, Pairing!Opened, SetupWindow, SetupPhases
<1>2. FilesTypes
  BY <1>1 DEF Pairing!Init, FilesTypes, PairingFiles
<1>3. Proposed
  BY <1>1 DEF Pairing!Init, Proposed, PairingBounds
<1>4. FilesOK /\ CallOK /\ SetupOK
  BY <1>1 DEF Pairing!Init, FilesOK, FilesOf, CallOK, Pairing!At, SetupOK, Pairing!Busy
<1> QED BY <1>2, <1>3, <1>4 DEF FilesInv

(* What the files of the other proposals say stays, and what a call that   *)
(* is not under way has written.                                           *)
LEMMA FilesKept ==
  ASSUME FilesInv, NEW p \in Pairing!Proposals, policies \subseteq policies',
         enrollment'[p] = enrollment[p], intents'[p] = intents[p], receipts'[p] = receipts[p],
         owners'[p] = owners[p]
  PROVE  FilesOf(p)'
BY DEF FilesInv, FilesOK, FilesOf

(* The setup program, while the server works on the files of proposals that*)
(* are not approved.                                                       *)
LEMMA SetupKept ==
  ASSUME PairingBounds, FilesInv, UNCHANGED Pairing!computer,
         \A p \in Pairing!Proposals : enrollment[p].status = "approved" => enrollment'[p].status = "approved"
  PROVE  Proposed' /\ SetupOK'
<1>1. UNCHANGED <<setup, proposals, pendingIndex, connection, installed>>
  BY DEF Pairing!computer, Pairing!disk
<1>2. Proposed'
  BY <1>1 DEF FilesInv, Proposed
<1>3. setup.phase = "installing" => setup.pending \in Pairing!Proposals
  BY DEF FilesInv, SetupOK, Pairing!Busy, Proposed, Pairing!Proposals, PairingBounds
<1>4. SetupOK'
  BY <1>1, <1>3 DEF FilesInv, SetupOK, Pairing!Busy, FilesTypes
<1> QED BY <1>2, <1>4

(* A member decides, or rejects: only where nobody else is deciding.       *)
LEMMA DecideStep ==
  ASSUME PairingBounds, FilesInv, NEW a \in Actors, NEW p \in Pairing!Proposals, Pairing!Decide(a, p) \/ Pairing!Reject(a, p)
  PROVE  FilesInv'
<1>0. FilesTypes /\ FilesOK /\ Pairing!At("none") /\ enrollment[p] \in Enrolled
  BY DEF FilesInv, FilesTypes, Pairing!Decide, Pairing!Reject, Pairing!At
<1>1. UNCHANGED <<lapsed, policies, installed, intents, receipts, owners, setup>> /\ UNCHANGED Pairing!computer
  BY DEF Pairing!Decide, Pairing!Reject, Pairing!evidence, Pairing!devices, Pairing!computer,
     Pairing!disk
<1>2. CASE Pairing!Decide(a, p)
  <2>1. /\ enrollment' = enrollment /\ enrollment[p].actor \in {None, a}
        /\ \/ enrollment[p].status = "pending" /\ deciding' = [step |-> "intent", of |-> p, actor |-> a]
           \/ enrollment[p].status = "approving" /\ deciding' = [step |-> "receipt", of |-> p, actor |-> a]
    BY <1>2 DEF Pairing!Decide
  <2>2. deciding' \in Call
    BY <2>1 DEF Call, CallSteps, Pairing!Proposals, PairingBounds
  <2>3. FilesTypes'
    BY <1>0, <1>1, <2>1, <2>2 DEF FilesTypes
  <2>4. FilesOK'
    BY <1>1, <2>1, FilesKept DEF FilesOK
  <2>5. enrollment[p].status = "approving" => enrollment[p] = [status |-> "approving", actor |-> a]
    BY <1>0, <2>1 DEF FilesOK, FilesOf, Enrolled
  <2>6. CallOK'
    BY <2>1, <2>5 DEF CallOK, Pairing!At
  <2>7. Proposed' /\ SetupOK'
    BY <1>1, <2>1, SetupKept
  <2> QED BY <2>3, <2>4, <2>6, <2>7 DEF FilesInv
<1>3. CASE Pairing!Reject(a, p)
  <2> DEFINE new == [status |-> "rejected", actor |-> a]
  <2>1. enrollment[p].status = "pending" /\ enrollment' = [enrollment EXCEPT ![p] = new] /\ deciding' = deciding
    BY <1>3 DEF Pairing!Reject
  <2>2. new \in Enrolled /\ new.status = "rejected"
    BY DEF Enrolled, EnrollmentStates
  <2> HIDE DEF new
  <2>3. /\ enrollment' \in [Pairing!Proposals -> Enrolled] /\ enrollment'[p].status = "rejected"
        /\ \A q \in Pairing!Proposals \ {p} : enrollment'[q] = enrollment[q]
    BY <1>0, <2>1, <2>2 DEF FilesTypes
  <2>4. FilesTypes'
    BY <1>0, <1>1, <2>1, <2>3 DEF FilesTypes
  <2>5. FilesOf(p)'
    BY <1>0, <1>1, <2>1, <2>3 DEF FilesOK, FilesOf
  <2>6. FilesOK'
    BY <1>1, <2>3, <2>5, FilesKept DEF FilesOK
  <2>7. CallOK'
    BY <1>0, <2>1 DEF CallOK, Pairing!At
  <2>8. Proposed' /\ SetupOK'
    BY <1>1, <2>1, <2>3, SetupKept
  <2> QED BY <2>4, <2>6, <2>7, <2>8 DEF FilesInv
<1> QED BY <1>2, <1>3

(* The call of decide writes its next file, or leaves.                     *)
LEMMA DecidingStep == ASSUME PairingBounds, FilesInv, Pairing!Deciding PROVE FilesInv'
<1>a. ~Pairing!At("none")
  BY DEF Pairing!Deciding, Pairing!Intend, Pairing!Mark, Pairing!Receipt, Pairing!Accept,
     Pairing!Configure, Pairing!Approve, Pairing!At
<1>b. PICK p \in Pairing!Proposals, a \in Actors : p = deciding.of /\ a = deciding.actor
  BY <1>a DEF FilesInv, CallOK
<1>0. /\ FilesTypes /\ FilesOK /\ CallOK /\ ~Pairing!At("none") /\ a # None /\ a # Torn
      /\ deciding \in Call /\ enrollment[p] \in Enrolled
  BY <1>a DEF FilesInv, FilesTypes, PairingBounds
<1>1. UNCHANGED <<lapsed, installed, setup>> /\ UNCHANGED Pairing!computer
  BY DEF Pairing!Deciding, Pairing!Intend, Pairing!Mark, Pairing!Receipt, Pairing!Accept,
     Pairing!Configure, Pairing!Approve, Pairing!computer, Pairing!disk
<1>2. Pairing!NoDecision \in Call /\ Pairing!NoDecision.step = "none"
  BY DEF Pairing!NoDecision, Call, CallSteps, PairingBounds
<1>3. ASSUME NEW step \in CallSteps, Pairing!Proceed(step)
      PROVE  deciding' \in Call /\ deciding'.step = step /\ deciding'.of = p /\ deciding'.actor = a
  BY <1>0, <1>3, <1>b DEF Pairing!Proceed, Call
<1>4. ASSUME NEW status \in EnrollmentStates, Pairing!Give(status)
      PROVE  /\ enrollment' \in [Pairing!Proposals -> Enrolled] /\ enrollment'[p] = [status |-> status, actor |-> a]
             /\ \A q \in Pairing!Proposals \ {p} : enrollment'[q] = enrollment[q]
  BY <1>0, <1>4, <1>b DEF Pairing!Give, FilesTypes, Enrolled
<1>5. {"mark", "receipt", "accept", "policy", "approve"} \subseteq CallSteps /\ {"approving", "approved"} \subseteq EnrollmentStates
  BY DEF CallSteps, EnrollmentStates
<1>6. CASE Pairing!Intend
  <2>1. /\ deciding.step = "intent" /\ UNCHANGED <<enrollment, policies, receipts, owners>>
        /\ \/ intents' = [intents EXCEPT ![p] = a] /\ Pairing!Proceed("mark")
           \/ deciding' = Pairing!NoDecision /\ intents' = intents
    BY <1>6, <1>b DEF Pairing!Intend, Pairing!At, Pairing!devices
  <2>2. /\ deciding' \in Call /\ intents' \in [Pairing!Proposals -> PairingFiles] /\ \A q \in Pairing!Proposals \ {p} : intents'[q] = intents[q]
        /\ deciding'.step = "none"
             \/ (deciding'.step = "mark" /\ deciding'.of = p /\ deciding'.actor = a /\ intents'[p] = a)
    BY <1>0, <1>2, <1>3, <1>5, <2>1 DEF FilesTypes, PairingFiles
  <2>3. FilesTypes'
    BY <1>0, <1>1, <2>1, <2>2 DEF FilesTypes
  <2>4. enrollment[p].status = "pending"
    BY <1>0, <1>b, <2>1 DEF CallOK, Pairing!At
  <2>5. FilesOf(p)'
    BY <1>0, <2>1, <2>4 DEF FilesOK, FilesOf
  <2>6. FilesOK'
    BY <2>1, <2>2, <2>5, FilesKept DEF FilesOK
  <2>7. CallOK'
    BY <1>0, <2>1, <2>2, <2>4 DEF CallOK, Pairing!At
  <2>8. Proposed' /\ SetupOK'
    BY <1>1, <2>1, SetupKept
  <2> QED BY <2>3, <2>6, <2>7, <2>8 DEF FilesInv
<1>7. CASE Pairing!Mark
  <2>1. /\ deciding.step = "mark" /\ Pairing!Give("approving") /\ Pairing!Proceed("receipt")
        /\ UNCHANGED <<policies, intents, receipts, owners>>
    BY <1>7 DEF Pairing!Mark, Pairing!At, Pairing!devices, Pairing!evidence
  <2>2. /\ enrollment' \in [Pairing!Proposals -> Enrolled] /\ enrollment'[p] = [status |-> "approving", actor |-> a]
        /\ \A q \in Pairing!Proposals \ {p} : enrollment'[q] = enrollment[q]
        /\ deciding' \in Call /\ deciding'.step = "receipt" /\ deciding'.of = p /\ deciding'.actor = a
    BY <1>3, <1>4, <1>5, <2>1
  <2>3. FilesTypes'
    BY <1>0, <1>1, <2>1, <2>2 DEF FilesTypes
  <2>4. enrollment[p].status = "pending"
    BY <1>0, <1>b, <2>1 DEF CallOK, Pairing!At
  <2>5. FilesOf(p)'
    BY <1>0, <2>1, <2>2, <2>4 DEF FilesOK, FilesOf
  <2>6. FilesOK'
    BY <2>1, <2>2, <2>5, FilesKept DEF FilesOK
  <2>7. CallOK'
    BY <1>0, <2>2 DEF CallOK, Pairing!At
  <2>8. Proposed' /\ SetupOK'
    BY <1>1, <2>2, <2>4, SetupKept
  <2> QED BY <2>3, <2>6, <2>7, <2>8 DEF FilesInv
<1>8. CASE Pairing!Receipt
  <2>1. /\ deciding.step = "receipt" /\ UNCHANGED <<enrollment, policies, intents, owners>>
        /\ \/ /\ receipts' = [receipts EXCEPT ![p] = a] /\ Pairing!Proceed("accept")
              /\ intents[p] = a /\ receipts[p] \in {None, a}
           \/ deciding' = Pairing!NoDecision /\ receipts' = receipts
    BY <1>8, <1>b DEF Pairing!Receipt, Pairing!At, Pairing!devices
  <2>2. /\ deciding' \in Call /\ receipts' \in [Pairing!Proposals -> PairingFiles] /\ \A q \in Pairing!Proposals \ {p} : receipts'[q] = receipts[q]
        /\ \/ deciding'.step = "none" /\ receipts' = receipts
           \/ /\ deciding'.step = "accept" /\ deciding'.of = p /\ deciding'.actor = a /\ receipts'[p] = a
              /\ intents[p] = a /\ receipts[p] \in {None, a}
    BY <1>0, <1>2, <1>3, <1>5, <2>1 DEF FilesTypes, PairingFiles
  <2>3. FilesTypes'
    BY <1>0, <1>1, <2>1, <2>2 DEF FilesTypes
  <2>4. enrollment[p] = [status |-> "approving", actor |-> a]
    BY <1>0, <1>b, <2>1 DEF CallOK, Pairing!At
  <2>5. FilesOf(p)'
    BY <1>0, <2>1, <2>2, <2>4 DEF FilesOK, FilesOf
  <2>6. FilesOK'
    BY <2>1, <2>2, <2>5, FilesKept DEF FilesOK
  <2>7. CallOK'
    BY <1>0, <2>1, <2>2, <2>4 DEF CallOK, Pairing!At
  <2>8. Proposed' /\ SetupOK'
    BY <1>1, <2>1, SetupKept
  <2> QED BY <2>3, <2>6, <2>7, <2>8 DEF FilesInv
<1>9. CASE Pairing!Accept
  <2> DEFINE mine == [owner |-> a, status |-> "active"]
  <2>1. /\ deciding.step = "accept" /\ UNCHANGED <<enrollment, policies, intents, receipts>>
        /\ \/ owners' = [owners EXCEPT ![p] = mine] /\ Pairing!Proceed("policy")
           \/ deciding' = Pairing!NoDecision /\ owners' = owners
    BY <1>9, <1>b DEF Pairing!Accept, Pairing!At, Pairing!evidence
  <2>2. mine \in PairedDevice /\ mine.owner = a /\ mine.status = "active"
    BY <1>0 DEF PairedDevice
  <2> HIDE DEF mine
  <2>3. /\ deciding' \in Call /\ owners' \in [Pairing!Proposals -> PairedDevice] /\ \A q \in Pairing!Proposals \ {p} : owners'[q] = owners[q]
        /\ \/ deciding'.step = "none" /\ owners' = owners
           \/ /\ deciding'.step = "policy" /\ deciding'.of = p /\ deciding'.actor = a
              /\ owners'[p].owner = a /\ owners'[p].status = "active"
    BY <1>0, <1>2, <1>3, <1>5, <2>1, <2>2 DEF FilesTypes
  <2>4. FilesTypes'
    BY <1>0, <1>1, <2>1, <2>3 DEF FilesTypes
  <2>5. enrollment[p] = [status |-> "approving", actor |-> a] /\ intents[p] = a /\ receipts[p] = a
    BY <1>0, <1>b, <2>1 DEF CallOK, Pairing!At
  <2>6. FilesOf(p)'
    BY <1>0, <2>1, <2>3, <2>5 DEF FilesOK, FilesOf
  <2>7. FilesOK'
    BY <2>1, <2>3, <2>6, FilesKept DEF FilesOK
  <2>8. CallOK'
    BY <1>0, <2>1, <2>3, <2>5 DEF CallOK, Pairing!At
  <2>9. Proposed' /\ SetupOK'
    BY <1>1, <2>1, SetupKept
  <2> QED BY <2>4, <2>7, <2>8, <2>9 DEF FilesInv
<1>10. CASE Pairing!Configure
  <2>1. /\ deciding.step = "policy" /\ UNCHANGED <<enrollment, owners, intents, receipts>>
        /\ \/ policies' = policies \cup {p} /\ Pairing!Proceed("approve")
           \/ deciding' = Pairing!NoDecision /\ policies' = policies
    BY <1>10, <1>b DEF Pairing!Configure, Pairing!At, Pairing!evidence
  <2>2. /\ deciding' \in Call /\ policies' \subseteq Pairing!Proposals /\ policies \subseteq policies'
        /\ \/ deciding'.step = "none"
           \/ deciding'.step = "approve" /\ deciding'.of = p /\ deciding'.actor = a /\ p \in policies'
    BY <1>0, <1>2, <1>3, <1>5, <2>1 DEF FilesTypes
  <2>3. FilesTypes'
    BY <1>0, <1>1, <2>1, <2>2 DEF FilesTypes
  <2>4. FilesOK'
    BY <2>1, <2>2, FilesKept DEF FilesOK
  <2>5. CallOK'
    <3>1. /\ enrollment[p] = [status |-> "approving", actor |-> a] /\ intents[p] = a /\ receipts[p] = a
          /\ owners[p].owner = a
      BY <1>0, <1>b, <2>1 DEF CallOK, Pairing!At
    <3> QED BY <1>0, <2>1, <2>2, <3>1 DEF CallOK, Pairing!At
  <2>6. Proposed' /\ SetupOK'
    BY <1>1, <2>1, SetupKept
  <2> QED BY <2>3, <2>4, <2>5, <2>6 DEF FilesInv
<1>11. CASE Pairing!Approve
  <2>1. /\ deciding.step = "approve" /\ Pairing!Give("approved") /\ deciding' = Pairing!NoDecision
        /\ UNCHANGED <<policies, intents, receipts, owners>>
    BY <1>11 DEF Pairing!Approve, Pairing!At, Pairing!devices, Pairing!evidence
  <2>2. /\ enrollment' \in [Pairing!Proposals -> Enrolled] /\ enrollment'[p] = [status |-> "approved", actor |-> a]
        /\ \A q \in Pairing!Proposals \ {p} : enrollment'[q] = enrollment[q]
    BY <1>4, <1>5, <2>1
  <2>3. FilesTypes'
    BY <1>0, <1>1, <1>2, <2>1, <2>2 DEF FilesTypes
  <2>4. /\ enrollment[p] = [status |-> "approving", actor |-> a] /\ intents[p] = a /\ receipts[p] = a
        /\ owners[p].owner = a /\ p \in policies
    BY <1>0, <1>b, <2>1 DEF CallOK, Pairing!At
  <2>5. FilesOf(p)'
    BY <1>0, <2>1, <2>2, <2>4 DEF FilesOK, FilesOf
  <2>6. FilesOK'
    BY <2>1, <2>2, <2>5, FilesKept DEF FilesOK
  <2>7. CallOK'
    BY <1>2, <2>1 DEF CallOK, Pairing!At
  <2>8. Proposed' /\ SetupOK'
    BY <1>1, <2>2, <2>4, SetupKept
  <2> QED BY <2>3, <2>6, <2>7, <2>8 DEF FilesInv
<1> QED BY <1>6, <1>7, <1>8, <1>9, <1>10, <1>11 DEF Pairing!Deciding

(* A stop of the process tears at most the file that was being made.       *)
LEMMA HaltStep == ASSUME PairingBounds, FilesInv, Pairing!Halt PROVE FilesInv'
<1>0. FilesTypes /\ FilesOK /\ CallOK
  BY DEF FilesInv
<1>1. UNCHANGED <<lapsed, policies, owners, installed, setup>> /\ UNCHANGED Pairing!computer /\ deciding' = Pairing!NoDecision
  BY DEF Pairing!Halt, Pairing!devices, Pairing!computer, Pairing!disk
<1>2. Pairing!NoDecision \in Call /\ Pairing!NoDecision.step = "none"
  BY DEF Pairing!NoDecision, Call, CallSteps, PairingBounds
<1>3. /\ enrollment' \in [Pairing!Proposals -> Enrolled] /\ intents' \in [Pairing!Proposals -> PairingFiles] /\ receipts' \in [Pairing!Proposals -> PairingFiles]
      /\ \A p \in Pairing!Proposals :
           \/ enrollment'[p] = enrollment[p] /\ intents'[p] = intents[p] /\ receipts'[p] = receipts[p]
           \/ enrollment'[p] = enrollment[p] /\ enrollment[p].status = "pending" /\ receipts'[p] = receipts[p]
           \/ enrollment'[p] = enrollment[p] /\ enrollment[p].status = "approving" /\ receipts[p] = None
           \/ enrollment[p].status = "none" /\ enrollment'[p].status = Torn /\ receipts'[p] = receipts[p]
  <2>1. CASE UNCHANGED <<enrollment, Pairing!evidence>>
    BY <1>0, <2>1 DEF FilesTypes, Pairing!evidence
  <2>2. CASE /\ Pairing!At("intent") /\ intents[deciding.of] = None
             /\ intents' = [intents EXCEPT ![deciding.of] = Torn] /\ UNCHANGED <<enrollment, receipts>>
    <3>1. deciding.of \in Pairing!Proposals /\ enrollment[deciding.of].status = "pending"
      BY <1>0, <2>2 DEF CallOK, Pairing!At
    <3> QED BY <1>0, <2>2, <3>1 DEF FilesTypes, PairingFiles
  <2>3. CASE /\ Pairing!At("receipt") /\ receipts[deciding.of] = None
             /\ receipts' = [receipts EXCEPT ![deciding.of] = Torn] /\ UNCHANGED <<enrollment, intents>>
    <3>1. deciding.of \in Pairing!Proposals /\ enrollment[deciding.of].status = "approving"
      BY <1>0, <2>3 DEF CallOK, Pairing!At
    <3> QED BY <1>0, <2>3, <3>1 DEF FilesTypes, PairingFiles
  <2>4. CASE /\ setup.phase = "starting" /\ enrollment[setup.pending].status = "none"
             /\ enrollment' = [enrollment EXCEPT ![setup.pending].status = Torn] /\ UNCHANGED Pairing!evidence
    <3>1. setup.pending \in Pairing!Proposals
      BY <2>4 DEF FilesInv, SetupOK, Pairing!Busy, Proposed, Pairing!Proposals, PairingBounds
    <3>2. enrollment[setup.pending] \in Enrolled
          /\ enrollment' = [enrollment EXCEPT ![setup.pending] = [enrollment[setup.pending] EXCEPT !.status = Torn]]
      BY <1>0, <2>4, <3>1 DEF FilesTypes
    <3>3. [enrollment[setup.pending] EXCEPT !.status = Torn] \in Enrolled
      BY <3>2 DEF Enrolled
    <3> QED BY <1>0, <2>4, <3>1, <3>2, <3>3 DEF FilesTypes, Pairing!evidence, Enrolled
  <2> QED BY <2>1, <2>2, <2>3, <2>4 DEF Pairing!Halt
<1>4. FilesTypes'
  BY <1>0, <1>1, <1>2, <1>3 DEF FilesTypes
<1>5. ASSUME NEW p \in Pairing!Proposals PROVE FilesOf(p)'
  BY <1>0, <1>1, <1>3 DEF FilesOK, FilesOf, PairingBounds, EnrollmentStates
<1>6. CallOK'
  BY <1>1, <1>2 DEF CallOK, Pairing!At
<1>7. Proposed' /\ SetupOK'
  BY <1>1, <1>3, SetupKept
<1> QED BY <1>4, <1>5, <1>6, <1>7 DEF FilesInv, FilesOK

(* A device is revoked, another paired by account; a proposal grows old,   *)
(* and is removed unless it was approved.                                  *)
LEMMA ServerStep ==
  ASSUME PairingBounds, FilesInv,
         \/ \E a \in Actors : Pairing!Pair(a)
         \/ \E p \in Pairing!Proposals : Pairing!Disconnect(p) \/ Pairing!Lapse(p) \/ Pairing!Sweep(p)
  PROVE  FilesInv'
<1>0. FilesTypes /\ FilesOK /\ CallOK
  BY DEF FilesInv
<1>1. UNCHANGED <<policies, installed, receipts, deciding, setup>> /\ UNCHANGED Pairing!computer
  BY DEF Pairing!Pair, Pairing!Disconnect, Pairing!Lapse, Pairing!Sweep, Pairing!evidence,
     Pairing!devices, Pairing!computer, Pairing!disk
<1>2. CASE UNCHANGED <<enrollment, intents, owners>> /\ lapsed' \subseteq Pairing!Proposals
  <2>1. FilesTypes'
    BY <1>0, <1>1, <1>2 DEF FilesTypes
  <2>2. FilesOK'
    BY <1>1, <1>2, FilesKept DEF FilesOK
  <2>3. CallOK'
    BY <1>0, <1>1, <1>2 DEF CallOK, Pairing!At
  <2>4. Proposed' /\ SetupOK'
    BY <1>1, <1>2, SetupKept
  <2> QED BY <2>1, <2>2, <2>3, <2>4 DEF FilesInv
<1>3. ASSUME NEW p \in Pairing!Proposals, Pairing!Disconnect(p)
      PROVE  FilesInv'
  <2>1. /\ UNCHANGED <<enrollment, intents, lapsed>> /\ owners[p].status = "active"
        /\ owners[p] \in PairedDevice /\ owners' = [owners EXCEPT ![p] = [owners[p] EXCEPT !.status = "revoked"]]
    BY <1>0, <1>3 DEF Pairing!Disconnect, Pairing!evidence, FilesTypes
  <2>2. [owners[p] EXCEPT !.status = "revoked"] \in PairedDevice
    BY <2>1 DEF PairedDevice
  <2>3. /\ owners' \in [Pairing!Proposals -> PairedDevice] /\ owners'[p].status = "revoked" /\ owners'[p].owner = owners[p].owner
        /\ \A q \in Pairing!Proposals \ {p} : owners'[q] = owners[q]
    BY <1>0, <2>1, <2>2 DEF FilesTypes, PairedDevice
  <2>4. FilesTypes'
    BY <1>0, <1>1, <2>1, <2>3 DEF FilesTypes
  <2>5. FilesOf(p)'
    BY <1>0, <1>1, <2>1, <2>3 DEF FilesOK, FilesOf
  <2>6. FilesOK'
    BY <1>1, <2>1, <2>3, <2>5, FilesKept DEF FilesOK
  <2>7. CallOK'
    BY <1>0, <1>1, <2>1, <2>3 DEF CallOK, Pairing!At
  <2>8. Proposed' /\ SetupOK'
    BY <1>1, <2>1, SetupKept
  <2> QED BY <2>4, <2>6, <2>7, <2>8 DEF FilesInv
<1>4. ASSUME NEW p \in Pairing!Proposals, Pairing!Sweep(p)
      PROVE  FilesInv'
  <2>1. /\ Pairing!At("none") /\ UNCHANGED <<owners, lapsed>> /\ enrollment[p].status \in {"pending", "rejected"}
        /\ enrollment' = [enrollment EXCEPT ![p] = Pairing!NoEnrollment] /\ intents' = [intents EXCEPT ![p] = None]
    BY <1>4 DEF Pairing!Sweep, Pairing!devices, Pairing!At
  <2>2. Pairing!NoEnrollment \in Enrolled /\ Pairing!NoEnrollment.status = "none"
    BY DEF Pairing!NoEnrollment, Enrolled, EnrollmentStates
  <2>3. /\ enrollment' \in [Pairing!Proposals -> Enrolled] /\ intents' \in [Pairing!Proposals -> PairingFiles] /\ enrollment'[p].status = "none"
        /\ \A q \in Pairing!Proposals \ {p} : enrollment'[q] = enrollment[q] /\ intents'[q] = intents[q]
    BY <1>0, <2>1, <2>2 DEF FilesTypes, PairingFiles
  <2>4. FilesTypes'
    BY <1>0, <1>1, <2>1, <2>3 DEF FilesTypes
  <2>5. FilesOf(p)'
    BY <1>0, <1>1, <2>1, <2>3 DEF FilesOK, FilesOf
  <2>6. FilesOK'
    BY <1>1, <2>1, <2>3, <2>5, FilesKept DEF FilesOK
  <2>7. CallOK'
    BY <1>1, <2>1 DEF CallOK, Pairing!At
  <2>8. Proposed' /\ SetupOK'
    BY <1>1, <2>1, <2>3, SetupKept
  <2> QED BY <2>4, <2>6, <2>7, <2>8 DEF FilesInv
<1>5. CASE \/ \E a \in Actors : Pairing!Pair(a)
           \/ \E p \in Pairing!Proposals : Pairing!Lapse(p)
  <2>1. UNCHANGED <<enrollment, intents, owners>> /\ lapsed' \subseteq Pairing!Proposals
    BY <1>0, <1>5 DEF Pairing!Pair, Pairing!Lapse, Pairing!evidence, Pairing!devices, FilesTypes
  <2> QED BY <1>2, <2>1
<1> QED BY <1>3, <1>4, <1>5

(* The setup program, where the server's files stay as they are.           *)
LEMMA ComputerKept ==
  ASSUME FilesInv, UNCHANGED <<enrollment, lapsed, intents, receipts, owners, policies, deciding>>,
         setup' \in SetupWindow, installed' \subseteq Pairing!Proposals, Proposed',
         setup'.phase \in {"starting", "approval", "resuming", "installing", "saving", "waiting"} => setup'.pending # 0,
         setup'.phase = "installing" => enrollment[setup'.pending].status = "approved",
         \A p \in installed' \ installed : enrollment[p].status = "approved"
  PROVE  FilesInv'
<1>1. FilesTypes'
  BY DEF FilesInv, FilesTypes
<1>2. FilesOK' /\ CallOK'
  BY DEF FilesInv, FilesOK, FilesOf, CallOK, Pairing!At
<1>3. SetupOK'
  BY DEF FilesInv, SetupOK, Pairing!Busy
<1> QED BY <1>1, <1>2, <1>3 DEF FilesInv

(* The setup program connects, or is opened again.                         *)
LEMMA ConnectStep ==
  ASSUME PairingBounds, FilesInv, Pairing!Connect \/ Pairing!Break \/ Pairing!Reopen
  PROVE  FilesInv'
<1>0. FilesTypes /\ Proposed /\ setup \in SetupWindow
  BY DEF FilesInv, FilesTypes
<1>1. /\ UNCHANGED <<enrollment, lapsed, intents, receipts, owners, policies, deciding>> /\ installed' = installed
  BY DEF Pairing!Connect, Pairing!Break, Pairing!Reopen, Pairing!pairing, Pairing!evidence,
     Pairing!devices, Pairing!disk
<1>2. /\ setup' \in SetupWindow /\ Proposed'
      /\ \/ setup'.phase \in {"starting", "resuming"} /\ setup'.pending # 0
         \/ setup'.phase \in {"failed", "ready"}
  <2>1. CASE Pairing!Break
    <3>1. setup' = [setup EXCEPT !.phase = "failed"] /\ UNCHANGED <<proposals, pendingIndex, connection>>
      BY <2>1 DEF Pairing!Break, Pairing!Fail, Pairing!Enter, Pairing!disk
    <3> QED BY <1>0, <3>1 DEF SetupWindow, SetupPhases, Proposed
  <2>2. CASE Pairing!Reopen
    <3>1. setup' = Pairing!Opened /\ UNCHANGED <<proposals, pendingIndex, connection>>
      BY <2>2 DEF Pairing!Reopen, Pairing!disk
    <3> QED BY <1>0, <3>1 DEF Pairing!Opened, SetupWindow, SetupPhases, Proposed, PairingBounds
  <2>3. CASE Pairing!Connect
    <3>1. PICK q, active : /\ active \in BOOLEAN /\ Pairing!Use(q, active)
                           /\ \/ q \in {setup.pending, connection, pendingIndex} /\ q # 0 /\ UNCHANGED Pairing!disk
                              \/ /\ proposals < MaxProposals /\ q = proposals + 1
                                 /\ proposals' = q /\ pendingIndex' = q /\ connection' = connection
      BY <1>0, <2>3 DEF Pairing!Connect, SetupWindow
    <3>2. /\ q \in 0 .. MaxProposals /\ q # 0 /\ proposals' \in 0 .. MaxProposals /\ pendingIndex' = proposals'
          /\ connection' \in 0 .. proposals' /\ q \in 0 .. proposals'
      BY <1>0, <3>1 DEF Proposed, Pairing!disk, PairingBounds
    <3>3. setup' = [phase |-> IF active THEN "resuming" ELSE "starting", pending |-> q,
                    active |-> active, forceNew |-> FALSE]
      BY <3>1 DEF Pairing!Use
    <3>4. setup' \in SetupWindow /\ setup'.pending = q /\ setup'.phase \in {"starting", "resuming"}
      BY <3>1, <3>2, <3>3 DEF SetupWindow, SetupPhases
    <3> QED BY <3>2, <3>4 DEF Proposed
  <2> QED BY <2>1, <2>2, <2>3
<1> QED BY <1>0, <1>1, <1>2, ComputerKept DEF FilesTypes

(* The setup program proposes, waits for the approval, installs, and saves *)
(* the connection.                                                         *)
LEMMA SetupStep == ASSUME PairingBounds, FilesInv, Pairing!Setup PROVE FilesInv'
<1>0. FilesTypes /\ Proposed /\ FilesOK /\ setup \in SetupWindow /\ SetupOK
  BY DEF FilesInv, FilesTypes
<1>1. setup.phase \in {"starting", "approval", "resuming", "installing", "saving", "waiting"} /\ setup.pending \in Pairing!Proposals
  <2>1. setup.phase \in {"starting", "approval", "resuming", "installing", "saving", "waiting"}
    BY DEF Pairing!Setup, Pairing!Start, Pairing!Poll, Pairing!Resume, Pairing!Install,
       Pairing!SaveConnection, Pairing!Wait
  <2> QED BY <1>0, <2>1 DEF SetupOK, Pairing!Busy, Proposed, Pairing!Proposals, PairingBounds
<1>2. ASSUME NEW phase \in SetupPhases, Pairing!Enter(phase)
      PROVE  setup' \in SetupWindow /\ setup'.phase = phase /\ setup'.pending = setup.pending
  BY <1>0, <1>2 DEF Pairing!Enter, SetupWindow
<1>3. ASSUME setup' = [Pairing!Opened EXCEPT !.phase = "failed", !.forceNew = TRUE] \/ setup' = [Pairing!Opened EXCEPT !.phase = "connected"]
      PROVE  setup' \in SetupWindow /\ setup'.phase \in {"failed", "connected"} /\ setup'.pending = 0
  <2>1. 0 \in 0 .. MaxProposals
    BY DEF PairingBounds
  <2> QED BY <1>3, <2>1 DEF Pairing!Opened, SetupWindow, SetupPhases
<1>4. {"approval", "installing", "saving", "waiting", "failed", "late", "connected"} \subseteq SetupPhases
  BY DEF SetupPhases
<1>5. \A p \in Pairing!Proposals : Pairing!Ready(p) => enrollment[p].status = "approved"
  BY <1>0 DEF Pairing!Ready, Pairing!Known, FilesOK, FilesOf, FilesTypes
<1>6. UNCHANGED <<intents, receipts, owners, policies, deciding, proposals, pendingIndex>>
  BY DEF Pairing!Setup, Pairing!Start, Pairing!Poll, Pairing!Resume, Pairing!Install,
     Pairing!SaveConnection, Pairing!Wait, Pairing!evidence, Pairing!devices, Pairing!pairing,
     Pairing!disk
<1>7. CASE Pairing!Poll \/ Pairing!Resume \/ Pairing!Wait
  <2>1. UNCHANGED <<enrollment, lapsed, connection, installed>>
    BY <1>7 DEF Pairing!Poll, Pairing!Resume, Pairing!Wait, Pairing!pairing, Pairing!disk
  <2>2. /\ setup' \in SetupWindow
        /\ (setup'.phase \in {"failed", "connected", "late"} /\ setup'.pending \in {0, setup.pending})
           \/ (setup'.phase = "installing" /\ setup'.pending = setup.pending /\ enrollment[setup.pending].status = "approved")
           \/ (setup'.phase = "saving" /\ setup'.pending = setup.pending)
    <3>1. CASE Pairing!Enter("failed") \/ Pairing!Enter("late") \/ Pairing!Enter("saving")
      BY <1>2, <1>4, <3>1
    <3>2. CASE setup' = [Pairing!Opened EXCEPT !.phase = "failed", !.forceNew = TRUE] \/ setup' = [Pairing!Opened EXCEPT !.phase = "connected"]
      BY <1>3, <3>2
    <3>3. CASE Pairing!Enter("installing") /\ Pairing!Ready(setup.pending)
      BY <1>1, <1>2, <1>4, <1>5, <3>3
    <3> QED BY <1>7, <3>1, <3>2, <3>3 DEF Pairing!Poll, Pairing!Resume, Pairing!Wait,
       Pairing!Fail, Pairing!FailForNew
  <2>3. Proposed'
    BY <1>0, <1>6, <2>1, <2>2 DEF Proposed
  <2> QED BY <1>0, <1>1, <1>6, <2>1, <2>2, <2>3, ComputerKept DEF FilesTypes, Pairing!Proposals
<1>8. CASE Pairing!Install
  <2>1. /\ setup.phase = "installing" /\ installed' = installed \cup {setup.pending} /\ Pairing!Enter("saving")
        /\ UNCHANGED <<enrollment, lapsed, connection>>
    BY <1>8 DEF Pairing!Install, Pairing!pairing
  <2>2. setup' \in SetupWindow /\ setup'.phase = "saving" /\ setup'.pending = setup.pending
    BY <1>2, <1>4, <2>1
  <2>3. enrollment[setup.pending].status = "approved"
    BY <1>0, <2>1 DEF SetupOK
  <2>4. Proposed'
    BY <1>0, <1>6, <2>1, <2>2 DEF Proposed
  <2>5. /\ installed' \subseteq Pairing!Proposals
        /\ \A p \in installed' \ installed : enrollment[p].status = "approved"
    BY <1>0, <1>1, <2>1, <2>3 DEF FilesTypes
  <2>6. setup'.pending # 0 /\ setup'.phase # "installing"
    BY <1>1, <2>2 DEF Pairing!Proposals
  <2> QED BY <1>6, <2>1, <2>2, <2>4, <2>5, <2>6, ComputerKept
<1>9. CASE Pairing!SaveConnection
  <2>1. connection' = setup.pending /\ Pairing!Enter("waiting") /\ UNCHANGED <<enrollment, lapsed, installed>>
    BY <1>9 DEF Pairing!SaveConnection, Pairing!pairing
  <2>2. setup' \in SetupWindow /\ setup'.phase = "waiting" /\ setup'.pending = setup.pending
    BY <1>2, <1>4, <2>1
  <2>3. Proposed'
    BY <1>0, <1>6, <2>1, <2>2 DEF Proposed
  <2> QED BY <1>0, <1>1, <1>6, <2>1, <2>2, <2>3, ComputerKept DEF FilesTypes, Pairing!Proposals
<1>10. CASE Pairing!Start
  <2>1. UNCHANGED <<connection, installed>>
    BY <1>10 DEF Pairing!Start, Pairing!disk
  <2>2. CASE UNCHANGED <<enrollment, lapsed>>
    <3>1. /\ setup' \in SetupWindow /\ setup'.pending = setup.pending
          /\ setup'.phase \in {"failed", "approval"}
             \/ (setup'.phase = "installing" /\ enrollment[setup.pending].status = "approved")
      BY <1>1, <1>2, <1>4, <1>5, <1>10 DEF Pairing!Start, Pairing!Fail
    <3>2. Proposed'
      BY <1>0, <1>6, <2>1, <3>1 DEF Proposed
    <3> QED BY <1>0, <1>1, <1>6, <2>1, <2>2, <3>1, <3>2, ComputerKept DEF FilesTypes,
       Pairing!Proposals
  <2>3. CASE /\ deciding.step = "none" /\ Pairing!Enter("approval") /\ enrollment[setup.pending].status = "none"
             /\ enrollment' = [enrollment EXCEPT ![setup.pending].status = "pending"]
             /\ lapsed' = lapsed \ {setup.pending}
    <3>1. PICK p \in Pairing!Proposals : p = setup.pending
      BY <1>1
    <3>2. setup' \in SetupWindow /\ setup'.phase = "approval" /\ setup'.pending = p
      BY <1>2, <1>4, <2>3, <3>1
    <3>3. /\ enrollment[p] \in Enrolled /\ enrollment' = [enrollment EXCEPT ![p] = [enrollment[p] EXCEPT !.status = "pending"]]
      BY <1>0, <2>3, <3>1 DEF FilesTypes
    <3>4. [enrollment[p] EXCEPT !.status = "pending"] \in Enrolled
      BY <3>3 DEF Enrolled, EnrollmentStates
    <3>5. /\ enrollment' \in [Pairing!Proposals -> Enrolled] /\ enrollment'[p].status = "pending" /\ enrollment[p].status = "none"
          /\ \A q \in Pairing!Proposals \ {p} : enrollment'[q] = enrollment[q]
      BY <1>0, <2>3, <3>1, <3>3, <3>4 DEF FilesTypes, Enrolled
    <3>6. FilesTypes'
      BY <1>0, <1>6, <2>1, <2>3, <3>2, <3>5 DEF FilesTypes
    <3>7. FilesOf(p)'
      BY <1>0, <1>6, <3>5 DEF FilesOK, FilesOf
    <3>8. FilesOK'
      BY <1>6, <3>5, <3>7, FilesKept DEF FilesOK
    <3>9. CallOK'
      BY <1>6, <2>3 DEF CallOK, Pairing!At
    <3>10. Proposed'
      BY <1>0, <1>6, <2>1, <3>1, <3>2 DEF Proposed
    <3>11. SetupOK'
      BY <1>0, <2>1, <3>2, <3>5 DEF SetupOK, Pairing!Busy, Pairing!Proposals, FilesTypes
    <3> QED BY <3>6, <3>8, <3>9, <3>10, <3>11 DEF FilesInv
  <2> QED BY <1>10, <2>2, <2>3 DEF Pairing!Start
<1> QED BY <1>7, <1>8, <1>9, <1>10 DEF Pairing!Setup

(* Every step keeps the invariant.                                         *)
LEMMA FilesStep == PairingBounds /\ FilesInv /\ [Pairing!Next]_(Pairing!vars) => FilesInv'
<1> SUFFICES ASSUME PairingBounds, FilesInv, [Pairing!Next]_(Pairing!vars)
             PROVE  FilesInv'
  OBVIOUS
<1>1. CASE UNCHANGED Pairing!vars
  BY <1>1 DEF Pairing!vars, Pairing!pairing, Pairing!evidence, Pairing!devices, Pairing!computer,
     Pairing!disk, FilesInv, FilesTypes, Proposed, FilesOK, FilesOf, CallOK, Pairing!At, SetupOK,
     Pairing!Busy
<1>2. CASE Pairing!Next
  BY <1>2, DecideStep, DecidingStep, HaltStep, ServerStep, ConnectStep, SetupStep DEF Pairing!Next
<1> QED BY <1>1, <1>2

(* What the invariant says to a reader.                                    *)
LEMMA FilesSafe == FilesInv => Pairing!TypeOK /\ Pairing!ApprovedIsWhole /\ Pairing!DeviceHasReceipt /\ Pairing!InstalledIsApproved
<1> SUFFICES ASSUME FilesInv
             PROVE  Pairing!TypeOK /\ Pairing!ApprovedIsWhole /\ Pairing!DeviceHasReceipt /\ Pairing!InstalledIsApproved
  OBVIOUS
<1>1. Pairing!ApprovedIsWhole /\ Pairing!DeviceHasReceipt /\ Pairing!InstalledIsApproved
  BY DEF FilesInv, FilesOK, FilesOf, Pairing!ApprovedIsWhole, Pairing!DeviceHasReceipt, SetupOK,
     Pairing!InstalledIsApproved
<1>2. Pairing!TypeOK
  BY DEF FilesInv, FilesTypes, Proposed, Pairing!TypeOK, Enrolled, EnrollmentStates, PairedDevice,
     PairingFiles, Call
<1> QED BY <1>1, <1>2

--------------------------------------------------------------------------------
(* How many devices a member has, by approval or by account.               *)

LimitTypes ==
  /\ owners \in [Pairing!Proposals -> PairedDevice] /\ paired \in [Actors -> Nat]
  /\ deciding \in Call
  /\ deciding.step # "none" => deciding.of \in Pairing!Proposals /\ deciding.actor \in Actors

(* The active devices a member has by approval.                            *)
Approved(a) == {p \in Pairing!Proposals : owners[p] = [owner |-> a, status |-> "active"]}
LimitInv == LimitTypes /\ Pairing!WithinDeviceLimit

(* Those the limit counts are these and the ones paired by account.        *)
LEMMA ActiveDevices ==
  ASSUME NEW a
  PROVE  /\ Pairing!Active(a) = paired[a] + Cardinality(Approved(a))
         /\ Pairing!Active(a)' = paired'[a] + Cardinality(Approved(a)')
<1>1. \A S : Pairing!Cardinality(S) = Cardinality(S)
  BY DEF Pairing!Cardinality, Cardinality
<1> QED BY <1>1 DEF Pairing!Active, Approved

(* They are finitely many.                                                 *)
LEMMA ApprovedAreFew ==
  ASSUME PairingBounds, NEW S \in SUBSET Pairing!Proposals
  PROVE  IsFiniteSet(S) /\ Cardinality(S) \in Nat
<1>1. MaxProposals \in Int /\ 1 \in Int
  BY DEF PairingBounds
<1>2. IsFiniteSet(Pairing!Proposals)
  BY <1>1, FS_Interval DEF Pairing!Proposals
<1> QED BY <1>2, FS_Subset, FS_CardinalityType

(* Whatever is revoked, or left alone, adds no device.                     *)
LEMMA NoMoreDevices ==
  ASSUME PairingBounds, LimitInv, paired' = paired,
         \A a \in Actors : Approved(a)' \subseteq Approved(a)
  PROVE  Pairing!WithinDeviceLimit'
<1> SUFFICES ASSUME NEW a \in Actors PROVE Pairing!Active(a)' <= DeviceLimit
  BY DEF Pairing!WithinDeviceLimit
<1>1. Approved(a) \in SUBSET Pairing!Proposals /\ Approved(a)' \in SUBSET Pairing!Proposals
  BY DEF Approved
<1>2. /\ IsFiniteSet(Approved(a)) /\ Cardinality(Approved(a)) \in Nat
      /\ Cardinality(Approved(a)') \in Nat
  BY <1>1, ApprovedAreFew
<1>3. Cardinality(Approved(a)') <= Cardinality(Approved(a))
  BY <1>2, FS_Subset
<1>4. /\ Pairing!Active(a) = paired[a] + Cardinality(Approved(a))
      /\ Pairing!Active(a)' = paired[a] + Cardinality(Approved(a)')
  BY ActiveDevices
<1>5. paired[a] \in Nat /\ DeviceLimit \in Nat /\ Pairing!Active(a) <= DeviceLimit
  BY DEF PairingBounds, LimitInv, LimitTypes, Pairing!WithinDeviceLimit
<1> QED BY <1>2, <1>3, <1>4, <1>5

(* One more device, by approval or by account, is one that the limit       *)
(* permits.                                                                *)
LEMMA OneMoreDevice ==
  ASSUME PairingBounds, LimitInv, LimitTypes', NEW b \in Actors, Pairing!Active(b) < DeviceLimit,
         \A a \in Actors : a # b => paired'[a] = paired[a] /\ Approved(a)' = Approved(a),
         \/ paired'[b] = paired[b] + 1 /\ Approved(b)' = Approved(b)
         \/ /\ paired'[b] = paired[b]
            /\ \E p \in Pairing!Proposals : Approved(b)' = Approved(b) \cup {p}
  PROVE  Pairing!WithinDeviceLimit'
<1> SUFFICES ASSUME NEW a \in Actors PROVE Pairing!Active(a)' <= DeviceLimit
  BY DEF Pairing!WithinDeviceLimit
<1>1. /\ Pairing!Active(a) = paired[a] + Cardinality(Approved(a))
      /\ Pairing!Active(a)' = paired'[a] + Cardinality(Approved(a)')
  BY ActiveDevices
<1>2. paired[a] \in Nat /\ DeviceLimit \in Nat /\ Pairing!Active(a) <= DeviceLimit
  BY DEF PairingBounds, LimitInv, LimitTypes, Pairing!WithinDeviceLimit
<1>3. CASE a # b
  BY <1>1, <1>2, <1>3
<1>4. CASE a = b
  <2>1. IsFiniteSet(Approved(b)) /\ Cardinality(Approved(b)) \in Nat
    BY ApprovedAreFew DEF Approved
  <2>2. \A p : Cardinality(Approved(b) \cup {p}) \in {Cardinality(Approved(b)), Cardinality(Approved(b)) + 1}
    BY <2>1, FS_AddElement
  <2>3. CASE paired'[b] = paired[b] + 1 /\ Approved(b)' = Approved(b)
    BY <1>1, <1>2, <1>4, <2>1, <2>3
  <2>4. CASE /\ paired'[b] = paired[b]
             /\ \E p \in Pairing!Proposals : Approved(b)' = Approved(b) \cup {p}
    <3>1. PICK p : Approved(b)' = Approved(b) \cup {p}
      BY <2>4
    <3>2. Cardinality(Approved(b)') \in {Cardinality(Approved(b)), Cardinality(Approved(b)) + 1}
      BY <2>2, <3>1
    <3>3. Cardinality(Approved(b)') <= Cardinality(Approved(b)) + 1
      BY <2>1, <3>2
    <3>4. Cardinality(Approved(b)') \in Nat
      BY <2>1, <3>2
    <3> QED BY <1>1, <1>2, <1>4, <2>1, <2>4, <3>3, <3>4
  <2> QED BY <2>3, <2>4
<1> QED BY <1>3, <1>4

(* Every step keeps the types.                                             *)
LEMMA LimitTyped ==
  ASSUME PairingBounds, LimitTypes, Pairing!Next
  PROVE  LimitTypes'
<1> USE DEF Pairing!pairing, Pairing!computer, Pairing!evidence, Pairing!devices
<1>0. Pairing!NoDecision \in Call /\ Pairing!NoDecision.step = "none"
  BY DEF PairingBounds, Pairing!NoDecision, Call, CallSteps
<1>1. ASSUME UNCHANGED <<owners, paired>>,
             \/ UNCHANGED deciding \/ deciding' = Pairing!NoDecision
             \/ \E st \in {"intent", "mark", "receipt", "accept", "policy", "approve"} :
                  deciding.step # "none" /\ Pairing!Proceed(st)
      PROVE  LimitTypes'
  BY <1>0, <1>1 DEF LimitTypes, Call, CallSteps, Pairing!Proceed
<1>2. ASSUME NEW a \in Actors, NEW p \in Pairing!Proposals, Pairing!Decide(a, p)
      PROVE  LimitTypes'
  <2>1. deciding' \in Call /\ deciding'.of = p /\ deciding'.actor = a
    <3>1. p \in 0 .. MaxProposals
      BY DEF PairingBounds, Pairing!Proposals
    <3> QED BY <1>2, <3>1 DEF Pairing!Decide, Call, CallSteps
  <2> QED BY <1>2, <2>1 DEF Pairing!Decide, LimitTypes
<1>3. ASSUME NEW a \in Actors, NEW p \in Pairing!Proposals, Pairing!Reject(a, p)
      PROVE  LimitTypes'
  BY <1>1, <1>3 DEF Pairing!Reject
<1>4. CASE Pairing!Intend \/ Pairing!Mark \/ Pairing!Receipt \/ Pairing!Configure \/ Pairing!Approve
  BY <1>1, <1>4 DEF Pairing!Intend, Pairing!Mark, Pairing!Receipt, Pairing!Configure,
     Pairing!Approve, Pairing!At
<1>5. CASE Pairing!Accept
  <2>1. owners' \in [Pairing!Proposals -> PairedDevice]
    <3>1. deciding.actor \in Actors
      BY <1>5 DEF Pairing!Accept, Pairing!At, LimitTypes
    <3>2. [owner |-> deciding.actor, status |-> "active"] \in PairedDevice
      BY <3>1 DEF PairedDevice
    <3> QED BY <1>5, <3>2 DEF Pairing!Accept, LimitTypes
  <2>2. /\ deciding' \in Call
        /\ deciding'.step # "none" => deciding'.of = deciding.of /\ deciding'.actor = deciding.actor
                                      /\ deciding.step # "none"
    BY <1>0, <1>5 DEF Pairing!Accept, Pairing!At, Pairing!Proceed, LimitTypes, Call, CallSteps
  <2> QED BY <1>5, <2>1, <2>2 DEF Pairing!Accept, LimitTypes
<1>6. CASE Pairing!Halt
  BY <1>1, <1>6 DEF Pairing!Halt
<1>7. ASSUME NEW a \in Actors, Pairing!Pair(a) PROVE LimitTypes'
  BY <1>7 DEF Pairing!Pair, LimitTypes
<1>8. ASSUME NEW p \in Pairing!Proposals, Pairing!Disconnect(p) PROVE LimitTypes'
  BY <1>8 DEF Pairing!Disconnect, LimitTypes, PairedDevice
<1>9. ASSUME NEW p \in Pairing!Proposals, Pairing!Lapse(p) \/ Pairing!Sweep(p) PROVE LimitTypes'
  BY <1>1, <1>9 DEF Pairing!Lapse, Pairing!Sweep
<1>10. CASE Pairing!Connect \/ Pairing!Setup \/ Pairing!Break \/ Pairing!Reopen
  BY <1>1, <1>10 DEF Pairing!Connect, Pairing!Setup, Pairing!Start, Pairing!Poll,
     Pairing!Resume,
     Pairing!Install, Pairing!SaveConnection, Pairing!Wait, Pairing!Break, Pairing!Reopen
<1> QED
  BY <1>2, <1>3, <1>4, <1>5, <1>6, <1>7, <1>8, <1>9, <1>10 DEF Pairing!Next, Pairing!Deciding

(* Every step keeps the limit.                                             *)
LEMMA LimitStep ==
  ASSUME PairingBounds, LimitInv, Pairing!Next
  PROVE  LimitInv'
<1> USE DEF Pairing!pairing, Pairing!computer, Pairing!evidence, Pairing!devices
<1>0. LimitTypes /\ LimitTypes'
  BY LimitTyped DEF LimitInv
<1>1. ASSUME UNCHANGED <<owners, paired>> PROVE LimitInv'
  BY <1>0, <1>1, NoMoreDevices DEF LimitInv, Approved
<1>2. CASE Pairing!Accept
  <2>1. PICK b \in Actors, p \in Pairing!Proposals : b = deciding.actor /\ p = deciding.of
    BY <1>0, <1>2 DEF Pairing!Accept, Pairing!At, LimitTypes
  <2> DEFINE mine == [owner |-> b, status |-> "active"]
  <2>2. CASE UNCHANGED <<owners, paired>>
    BY <1>1, <2>2
  <2>3. CASE owners[p] = mine /\ owners' = [owners EXCEPT ![p] = mine]
    <3>1. owners' = owners
      BY <1>0, <2>1, <2>3 DEF LimitTypes
    <3> QED BY <1>1, <1>2, <3>1 DEF Pairing!Accept
  <2>4. CASE /\ owners[p] = Pairing!NoDevice /\ Pairing!Active(b) < DeviceLimit
             /\ owners' = [owners EXCEPT ![p] = mine]
    <3>1. owners[p].status = "none"
      BY <2>4 DEF Pairing!NoDevice
    <3>2. /\ owners'[p] = mine /\ \A q \in Pairing!Proposals : q # p => owners'[q] = owners[q]
      BY <1>0, <2>1, <2>4 DEF LimitTypes
    <3>3. \A a \in Actors : a # b => Approved(a)' = Approved(a)
      BY <3>1, <3>2 DEF Approved
    <3>4. Approved(b)' = Approved(b) \cup {p}
      BY <2>1, <3>1, <3>2 DEF Approved
    <3>5. paired' = paired
      BY <1>2 DEF Pairing!Accept
    <3> QED BY <1>0, <2>1, <2>4, <3>3, <3>4, <3>5, OneMoreDevice DEF LimitInv
  <2> QED BY <1>2, <2>1, <2>2, <2>3, <2>4 DEF Pairing!Accept
<1>3. ASSUME NEW a \in Actors, Pairing!Pair(a) PROVE LimitInv'
  <2>1. /\ Pairing!Active(a) < DeviceLimit /\ owners' = owners /\ paired'[a] = paired[a] + 1
        /\ \A b \in Actors : b # a => paired'[b] = paired[b]
    BY <1>0, <1>3 DEF Pairing!Pair, LimitTypes
  <2>2. \A b \in Actors : Approved(b)' = Approved(b)
    BY <2>1 DEF Approved
  <2> QED BY <1>0, <2>1, <2>2, OneMoreDevice DEF LimitInv
<1>4. ASSUME NEW p \in Pairing!Proposals, Pairing!Disconnect(p) PROVE LimitInv'
  <2>1. /\ paired' = paired /\ owners'[p].status = "revoked"
        /\ \A q \in Pairing!Proposals : q # p => owners'[q] = owners[q]
    BY <1>0, <1>4 DEF Pairing!Disconnect, LimitTypes, PairedDevice
  <2>2. \A a \in Actors : Approved(a)' \subseteq Approved(a)
    BY <2>1 DEF Approved
  <2> QED BY <1>0, <2>1, <2>2, NoMoreDevices DEF LimitInv
<1> QED
  BY <1>1, <1>2, <1>3, <1>4 DEF Pairing!Next, Pairing!Deciding, Pairing!Decide, Pairing!Reject,
     Pairing!Intend, Pairing!Mark, Pairing!Receipt, Pairing!Configure, Pairing!Approve,
     Pairing!Halt, Pairing!Lapse, Pairing!Sweep, Pairing!Connect, Pairing!Setup, Pairing!Start,
     Pairing!Poll, Pairing!Resume, Pairing!Install, Pairing!SaveConnection, Pairing!Wait,
     Pairing!Break, Pairing!Reopen

(* Nobody has a device to begin with.                                      *)
LEMMA LimitStart ==
  ASSUME PairingBounds, Pairing!Init
  PROVE  LimitInv
<1>1. LimitTypes
  BY DEF PairingBounds, Pairing!Init, LimitTypes, Pairing!NoDevice, Pairing!NoDecision,
     PairedDevice, Call, CallSteps
<1>2. \A a \in Actors : Approved(a) = {}
  BY DEF Pairing!Init, Approved, Pairing!NoDevice
<1>3. \A a \in Actors : Pairing!Active(a) = 0
  <2> SUFFICES ASSUME NEW a \in Actors PROVE Pairing!Active(a) = 0
    OBVIOUS
  <2>1. Cardinality(Approved(a)) = 0
    BY <1>2, FS_EmptySet
  <2>2. paired[a] = 0 /\ Pairing!Active(a) = paired[a] + Cardinality(Approved(a))
    BY ActiveDevices DEF Pairing!Init
  <2> QED BY <2>1, <2>2
<1> QED BY <1>1, <1>3 DEF LimitInv, PairingBounds, Pairing!WithinDeviceLimit

(* No step adds none.                                                      *)
LEMMA LimitStill ==
  ASSUME PairingBounds, LimitInv, UNCHANGED Pairing!vars
  PROVE  LimitInv'
<1>1. UNCHANGED <<owners, paired, deciding>>
  BY DEF Pairing!vars, Pairing!pairing, Pairing!devices
<1>2. LimitTypes' /\ \A a \in Actors : Approved(a)' \subseteq Approved(a)
  BY <1>1 DEF LimitInv, LimitTypes, Approved
<1> QED BY <1>1, <1>2, NoMoreDevices DEF LimitInv

--------------------------------------------------------------------------------
(* What the connection of a computer keeps to.                             *)

PairingInv == FilesInv /\ LimitInv

(* Files and limit are kept to begin with.                                 *)
LEMMA PairingStart ==
  ASSUME PairingBounds, Pairing!Init
  PROVE  PairingInv
BY FilesStart, LimitStart DEF PairingInv

(* So they are by every step, and by none.                                 *)
LEMMA PairingStep ==
  ASSUME PairingBounds, PairingInv, [Pairing!Next]_(Pairing!vars)
  PROVE  PairingInv'
BY FilesStep, LimitStep, LimitStill DEF PairingInv

(* Which is: approvals are whole, and nobody has more devices than he may. *)
LEMMA PairingSafe ==
  ASSUME PairingInv
  PROVE  /\ Pairing!TypeOK /\ Pairing!ApprovedIsWhole /\ Pairing!DeviceHasReceipt
         /\ Pairing!InstalledIsApproved /\ Pairing!WithinDeviceLimit
BY FilesSafe DEF PairingInv, LimitInv

(* The invariant holds for ever.                                           *)
LEMMA PairingForEver == ASSUME PairingBounds PROVE Pairing!Spec => []PairingInv
BY PairingStart, PairingStep, PTL DEF Pairing!Spec

(* Wherever an approval is interrupted, an approved proposal has the       *)
(* receipt, the device and the policy of the one member who approved it,   *)
(* and no device is without its receipt (developer-connectors.ts:1135-1263,*)
(* 1292).                                                                  *)
THEOREM ApprovalsAreWhole ==
  ASSUME PairingBounds
  PROVE  Pairing!Spec => [](Pairing!ApprovedIsWhole /\ Pairing!DeviceHasReceipt)
<1>1. PairingInv => Pairing!ApprovedIsWhole /\ Pairing!DeviceHasReceipt
  BY PairingSafe
<1> QED BY <1>1, PairingForEver, PTL

(* The runtime of a proposal is installed only once the approval is on     *)
(* record (DeviceEnrollment.cjs:290).                                      *)
THEOREM InstallsAreApproved == ASSUME PairingBounds PROVE Pairing!Spec => []Pairing!InstalledIsApproved
<1>1. PairingInv => Pairing!InstalledIsApproved
  BY PairingSafe
<1> QED BY <1>1, PairingForEver, PTL

--------------------------------------------------------------------------------
(* Accounts: passwords, sessions and who resets whose (LocalAccounts).     *)

CONSTANTS Members, Admin, Signed, LockAfter, MaxSessions, MaxChanges, MaxVersions, MaxLogins
VARIABLES credentials, sessions, browser, resets, audit, events

Accounts == INSTANCE LocalAccounts WITH changes <- resets, Users <- Members, MaxEvents <- MaxLogins

AccountsBounds ==
  /\ LockAfter \in Nat /\ MaxSessions \in Nat /\ MaxChanges \in Nat
  /\ MaxVersions \in Nat \ {0} /\ MaxLogins \in Nat
  /\ Signed \in Seq(Members) /\ Len(Signed) <= MaxSessions
  /\ Accounts!Nobody \notin Members

(* A session that was made is somebody's, and browsers have such.          *)
SessionFacts ==
  /\ \E n \in 0 .. MaxSessions : \A s \in Accounts!Sessions : sessions[s].status # "none" <=> s <= n
  /\ \A s \in Accounts!Sessions : sessions[s].status # "none" => sessions[s].user \in Members
  /\ \A b \in Accounts!Browsers : browser[b].session # 0 => sessions[browser[b].session].status # "none"

(* The password that was typed is the version that was read, from when the *)
(* row is locked: it was the version in between, and versions only grow.   *)
ResetFacts(c) ==
  /\ resets[c].step \notin {"closing", "ended"} => resets[c].outcome = "none"
  /\ resets[c].step # "none" =>
       /\ resets[c].session \in Accounts!Sessions /\ resets[c].target \in Members
       /\ sessions[resets[c].session].status # "none"
  /\ resets[c].step \in {"approved", "live", "actor", "target"} \/ resets[c].outcome = "changed" =>
       <<c, "approved">> \in audit
  /\ \A o \in Accounts!Outcomes : <<c, o>> \in audit => resets[c].step = "ended" /\ resets[c].outcome = o
  /\ resets[c].step = "read" => resets[c].version <= credentials[Accounts!Actor(c)].version
  /\ resets[c].step \in {"verified", "approved", "live"} =>
       resets[c].version <= resets[c].typed /\ resets[c].typed <= credentials[Accounts!Actor(c)].version
  /\ resets[c].step \in {"actor", "target"} => resets[c].typed = credentials[Accounts!Actor(c)].version
  /\ resets[c].step \in {"live", "actor", "target"} => sessions[resets[c].session].status = "active"

Exclusive ==
  \A c, d \in Accounts!Changes : c # d =>
    \A u \in Members : ~(Accounts!HoldsAccount(c, u) /\ Accounts!HoldsAccount(d, u))

AccountsInv ==
  /\ Accounts!TypeOK /\ SessionFacts /\ Exclusive
  /\ \A c \in Accounts!Changes : ResetFacts(c)

(* What an account, a session, a cookie and a change are.                  *)
Credential == [version : 0 .. MaxVersions, failures : 0 .. LockAfter, locked : BOOLEAN]
SessionRow == [user : Members \cup {Accounts!Nobody}, aged : BOOLEAN, status : {"none", "active", "revoked"}]
Cookie     == [session : 0 .. MaxSessions, principal : Members \cup {Accounts!Nobody}]
ResetRow   == [step : Accounts!Steps, session : 0 .. MaxSessions, late : BOOLEAN,
               target : Members \cup {Accounts!Nobody}, typed : 0 .. MaxVersions,
               version : 0 .. MaxVersions, outcome : Accounts!Outcomes]

(* The types of the parts, by name.                                        *)
LEMMA AccountsTypes ==
  Accounts!TypeOK <=>
    /\ credentials \in [Members -> Credential] /\ sessions \in [Accounts!Sessions -> SessionRow]
    /\ browser \in [Accounts!Browsers -> Cookie] /\ resets \in [Accounts!Changes -> ResetRow]
    /\ audit \subseteq Accounts!Changes \X (Accounts!Outcomes \cup {"approved"})
    /\ events \in 0 .. MaxLogins
BY DEF Accounts!TypeOK, Credential, SessionRow, Cookie, ResetRow

(* The invariant holds to begin with.                                      *)
LEMMA AccountsStart ==
  ASSUME AccountsBounds, Accounts!Init PROVE AccountsInv
<1>a. MaxVersions \in Nat \ {0} /\ MaxSessions \in Nat /\ LockAfter \in Nat /\ MaxLogins \in Nat
  BY DEF AccountsBounds
<1>0. Accounts!NoSession \in SessionRow /\ Accounts!NoSession.status = "none"
  BY DEF Accounts!NoSession, SessionRow
<1>1. Accounts!NoChange \in ResetRow /\ Accounts!NoChange.step = "none" /\ Accounts!NoChange.outcome = "none"
  BY <1>a DEF Accounts!NoChange, Accounts!Steps, Accounts!Outcomes, ResetRow
<1>2. /\ Len(Signed) \in Nat /\ Len(Signed) <= MaxSessions /\ \A s \in 1 .. Len(Signed) : Signed[s] \in Members
  BY DEF AccountsBounds
<1>3. \A s \in Accounts!Sessions :
        /\ sessions[s] \in SessionRow
        /\ sessions[s].status # "none" <=> s <= Len(Signed)
        /\ sessions[s].status # "none" => sessions[s].user \in Members
  <2> SUFFICES ASSUME NEW s \in Accounts!Sessions
               PROVE  /\ sessions[s] \in SessionRow
                      /\ sessions[s].status # "none" <=> s <= Len(Signed)
                      /\ sessions[s].status # "none" => sessions[s].user \in Members
    OBVIOUS
  <2>1. CASE s \in Accounts!Browsers
    <3>1. sessions[s] = [Accounts!NoSession EXCEPT !.status = "active", !.user = Signed[s]]
      BY <2>1 DEF Accounts!Init
    <3>2. s \in 1 .. Len(Signed) /\ s <= Len(Signed) /\ Signed[s] \in Members
      BY <2>1, <1>2 DEF Accounts!Browsers
    <3>3. sessions[s].status = "active" /\ sessions[s].user = Signed[s] /\ sessions[s] \in SessionRow
      BY <3>1, <3>2, <1>0 DEF SessionRow
    <3> QED BY <3>2, <3>3
  <2>2. CASE s \notin Accounts!Browsers
    <3>1. sessions[s] = Accounts!NoSession
      BY <2>2 DEF Accounts!Init
    <3> QED BY <2>2, <3>1, <1>0, <1>2, <1>a DEF Accounts!Browsers, Accounts!Sessions
  <2> QED BY <2>1, <2>2
<1>4. Accounts!TypeOK
  <2>1. credentials \in [Members -> Credential]
    <3>1. \A v \in {0, 1} : [version |-> v, failures |-> 0, locked |-> FALSE] \in Credential
      BY <1>a DEF Credential
    <3> QED BY <3>1 DEF Accounts!Init
  <2>2. sessions \in [Accounts!Sessions -> SessionRow]
    BY <1>3 DEF Accounts!Init
  <2>3. browser \in [Accounts!Browsers -> Cookie]
    <3>1. \A b \in Accounts!Browsers : b \in 0 .. MaxSessions
      BY <1>2, <1>a DEF Accounts!Browsers
    <3>2. \A b \in Accounts!Browsers : [session |-> b, principal |-> Accounts!Nobody] \in Cookie
      BY <3>1 DEF Cookie
    <3> QED BY <3>2 DEF Accounts!Init
  <2>4. resets \in [Accounts!Changes -> ResetRow]
    BY <1>1 DEF Accounts!Init
  <2>5. audit = {} /\ events \in 0 .. MaxLogins
    <3>1. audit = {} /\ events = 0
      BY DEF Accounts!Init
    <3> QED BY <3>1, <1>a
  <2> QED BY <2>1, <2>2, <2>3, <2>4, <2>5, AccountsTypes
<1>5. SessionFacts
  <2>1. Len(Signed) \in 0 .. MaxSessions
    BY <1>2, <1>a
  <2>2. \A b \in Accounts!Browsers : b \in Accounts!Sessions /\ browser[b].session = b /\ b <= Len(Signed)
    <3>1. \A b \in Accounts!Browsers : b \in Accounts!Sessions /\ b <= Len(Signed)
      BY <1>2, <1>a DEF Accounts!Browsers, Accounts!Sessions
    <3>2. \A b \in Accounts!Browsers : browser[b].session = b
      BY DEF Accounts!Init
    <3> QED BY <3>1, <3>2
  <2> QED BY <2>1, <2>2, <1>3 DEF SessionFacts
<1>6. Exclusive /\ \A c \in Accounts!Changes : ResetFacts(c)
  BY <1>1 DEF Accounts!Init, Exclusive, Accounts!HoldsAccount, ResetFacts
<1> QED BY <1>4, <1>5, <1>6 DEF AccountsInv

(* What a password that is typed does to a row.                            *)
LEMMA AccountsTried ==
  ASSUME AccountsBounds, Accounts!TypeOK, NEW u \in Members, NEW t
  PROVE  /\ Accounts!Tried(u, t) \in Credential
         /\ Accounts!Tried(u, t).version = credentials[u].version
<1>1. credentials[u] \in Credential /\ LockAfter \in Nat
  BY AccountsTypes DEF AccountsBounds
<1> DEFINE n == IF credentials[u].failures + 1 > LockAfter THEN LockAfter ELSE credentials[u].failures + 1
<1>2. n \in 0 .. LockAfter
  BY <1>1 DEF Credential
<1>3. Accounts!Tried(u, t) = IF credentials[u].locked THEN credentials[u]
        ELSE IF credentials[u].version = t THEN [credentials[u] EXCEPT !.failures = 0]
        ELSE [credentials[u] EXCEPT !.failures = n, !.locked = n = LockAfter]
  BY DEF Accounts!Tried
<1> HIDE DEF n
<1>4. 0 \in 0 .. LockAfter /\ (n = LockAfter) \in BOOLEAN
  BY <1>1
<1> QED BY <1>1, <1>2, <1>3, <1>4 DEF Credential

(* The next session is one that was not made.                              *)
LEMMA AccountsFresh ==
  ASSUME AccountsBounds, SessionFacts
  PROVE  \E n \in 0 .. MaxSessions : /\ \A s \in Accounts!Sessions : sessions[s].status # "none" <=> s <= n
                                     /\ Accounts!Cardinality(Accounts!Used) = n
<1> PICK n \in 0 .. MaxSessions : \A s \in Accounts!Sessions : sessions[s].status # "none" <=> s <= n
  BY DEF SessionFacts
<1>1. Accounts!Used = 1 .. n
  BY DEF AccountsBounds, Accounts!Used, Accounts!Sessions
<1>2. Cardinality(1 .. n) = n
  BY FS_Interval DEF AccountsBounds
<1>3. Accounts!Cardinality(Accounts!Used) = Cardinality(Accounts!Used)
  BY DEF Accounts!Cardinality, Cardinality
<1> QED BY <1>1, <1>2, <1>3

(* A change that takes no step itself keeps what is known of it, if its    *)
(* session and its rows stay while it holds them.                          *)
LEMMA AccountsOther ==
  ASSUME AccountsBounds, SessionFacts, Accounts!TypeOK, NEW c \in Accounts!Changes, ResetFacts(c),
         resets'[c] = resets[c],
         \A s \in Accounts!Sessions : sessions[s].status # "none" =>
           /\ sessions'[s].user = sessions[s].user /\ sessions'[s].status # "none"
           /\ Accounts!HoldsSession(c, s) => sessions'[s].status = sessions[s].status,
         \A u \in Members : /\ credentials'[u].version \in Nat
                            /\ credentials'[u].version >= credentials[u].version
                            /\ Accounts!HoldsAccount(c, u) => credentials'[u].version = credentials[u].version,
         \A o \in Accounts!Outcomes \cup {"approved"} : <<c, o>> \in audit' <=> <<c, o>> \in audit
  PROVE  ResetFacts(c)'
<1> DEFINE a == Accounts!Actor(c)
           r == resets[c]
<1>1. r.step # "none" =>
        /\ r.session \in Accounts!Sessions /\ sessions[r.session].status # "none"
        /\ a \in Members /\ Accounts!Actor(c)' = a
        /\ sessions'[r.session].status # "none"
        /\ Accounts!HoldsSession(c, r.session) => sessions'[r.session].status = sessions[r.session].status
  BY DEF ResetFacts, SessionFacts, Accounts!Actor
<1>2. r.version \in Nat /\ r.typed \in Nat
  BY AccountsTypes DEF ResetRow, AccountsBounds
<1>3. \A u \in Members : credentials[u].version \in Nat
  BY AccountsTypes DEF Credential, AccountsBounds
<1>4. r.step \in {"actor", "target"} => Accounts!HoldsAccount(c, a)
  BY DEF Accounts!HoldsAccount
<1>5. r.step \in {"live", "actor", "target"} => Accounts!HoldsSession(c, r.session)
  BY DEF Accounts!HoldsSession
<1>6. /\ r.step = "read" => r.version <= credentials'[a].version
      /\ r.step \in {"verified", "approved", "live"} => r.version <= r.typed /\ r.typed <= credentials'[a].version
      /\ r.step \in {"actor", "target"} => r.typed = credentials'[a].version
  <2>1. r.step # "none" => a \in Members
    BY <1>1
  <2>2. r.step \in {"read", "verified", "approved", "live", "actor", "target"} => r.step # "none"
    OBVIOUS
  <2> QED BY <2>1, <2>2, <1>2, <1>3, <1>4 DEF ResetFacts
<1>7. "approved" \in Accounts!Outcomes \cup {"approved"} /\ \A o \in Accounts!Outcomes : o \in Accounts!Outcomes \cup {"approved"}
  OBVIOUS
<1> HIDE DEF a
<1>8. r.step \in {"read", "verified", "approved", "live", "actor", "target"} => Accounts!Actor(c)' = a
  BY <1>1
<1> QED BY <1>1, <1>5, <1>6, <1>7, <1>8 DEF ResetFacts

(* A step or an end of a change is one.                                    *)
LEMMA ResetMoves ==
  ASSUME NEW c \in Accounts!Changes, resets \in [Accounts!Changes -> ResetRow],
         NEW k \in Accounts!Steps, NEW o \in Accounts!Outcomes
  PROVE  /\ Accounts!Becomes(c, k) => /\ resets' \in [Accounts!Changes -> ResetRow]
                                      /\ resets'[c] = [resets[c] EXCEPT !.step = k]
                                      /\ \A d \in Accounts!Changes \ {c} : resets'[d] = resets[d]
         /\ Accounts!Ends(c, o) => /\ resets' \in [Accounts!Changes -> ResetRow]
                                      /\ resets'[c] = [resets[c] EXCEPT !.step = "ended", !.outcome = o]
                                      /\ \A d \in Accounts!Changes \ {c} : resets'[d] = resets[d]
         /\ Accounts!Closes(c, o) => /\ resets' \in [Accounts!Changes -> ResetRow]
                                      /\ resets'[c] = [resets[c] EXCEPT !.step = "closing", !.outcome = o]
                                      /\ \A d \in Accounts!Changes \ {c} : resets'[d] = resets[d]
<1>1. "ended" \in Accounts!Steps /\ "closing" \in Accounts!Steps
  BY DEF Accounts!Steps
<1>2. \A x \in Accounts!Steps : [resets[c] EXCEPT !.step = x] \in ResetRow
  BY DEF ResetRow
<1>3. \A x \in Accounts!Steps : [resets[c] EXCEPT !.step = x, !.outcome = o] \in ResetRow
  BY DEF ResetRow
<1>4. CASE Accounts!Becomes(c, k)
  <2>1. resets' = [resets EXCEPT ![c] = [resets[c] EXCEPT !.step = k]]
    BY <1>4 DEF Accounts!Becomes
  <2> QED BY <2>1, <1>2, <1>4 DEF Accounts!Becomes, Accounts!Ends, Accounts!Closes
<1> QED
  <2>1. Accounts!Becomes(c, k) => resets' = [resets EXCEPT ![c] = [resets[c] EXCEPT !.step = k]]
    BY DEF Accounts!Becomes
  <2>2. Accounts!Ends(c, o) => resets' = [resets EXCEPT ![c] = [resets[c] EXCEPT !.step = "ended", !.outcome = o]]
    BY DEF Accounts!Ends
  <2>3. Accounts!Closes(c, o) => resets' = [resets EXCEPT ![c] = [resets[c] EXCEPT !.step = "closing", !.outcome = o]]
    BY DEF Accounts!Closes
  <2> QED BY <1>1, <1>2, <1>3, <2>1, <2>2, <2>3

(* The steps of the accounts and the sessions, around the changes.         *)
LEMMA AccountsAround ==
  ASSUME AccountsBounds, AccountsInv,
         \/ \E u \in Members : Accounts!provisionLocalCredential(u) \/ Accounts!LockLapses(u)
         \/ \E b \in Accounts!Browsers : \/ Accounts!createSession(b) \/ Accounts!revoke(b)
                                       \/ \E u \in Members : Accounts!Login(b, u)
         \/ \E s \in Accounts!Sessions : Accounts!SessionAges(s)
  PROVE  /\ Accounts!TypeOK' /\ SessionFacts' /\ UNCHANGED <<resets, audit>>
         /\ \A s \in Accounts!Sessions : sessions[s].status # "none" =>
              /\ sessions'[s].user = sessions[s].user /\ sessions'[s].status # "none"
              /\ sessions'[s].status # sessions[s].status => Accounts!FreeSession(s)
         /\ \A u \in Members : /\ credentials'[u].version >= credentials[u].version
                               /\ credentials'[u].version # credentials[u].version => Accounts!FreeAccount(u)
<1> DEFINE Kept(s) == sessions[s].status # "none" =>
              /\ sessions'[s].user = sessions[s].user /\ sessions'[s].status # "none"
              /\ sessions'[s].status # sessions[s].status => Accounts!FreeSession(s)
<1> DEFINE Grown(u) == /\ credentials'[u].version >= credentials[u].version
                       /\ credentials'[u].version # credentials[u].version => Accounts!FreeAccount(u)
<1>0. /\ credentials \in [Members -> Credential] /\ sessions \in [Accounts!Sessions -> SessionRow]
      /\ browser \in [Accounts!Browsers -> Cookie] /\ resets \in [Accounts!Changes -> ResetRow]
      /\ audit \subseteq Accounts!Changes \X (Accounts!Outcomes \cup {"approved"})
      /\ events \in 0 .. MaxLogins /\ SessionFacts
  BY AccountsTypes DEF AccountsInv
<1>a. MaxVersions \in Nat /\ MaxSessions \in Nat /\ LockAfter \in Nat
  BY DEF AccountsBounds
<1>h. Accounts!Happens => events' \in 0 .. MaxLogins
  BY <1>0 DEF Accounts!Happens, AccountsBounds
<1>1. ASSUME NEW u \in Members, Accounts!provisionLocalCredential(u) \/ Accounts!LockLapses(u)
      PROVE  credentials' \in [Members -> Credential] /\ (\A v \in Members : Grown(v)) /\ events' \in 0 .. MaxLogins
             /\ UNCHANGED <<sessions, browser, resets, audit>>
  <2>1. CASE Accounts!provisionLocalCredential(u)
    <3>1. Accounts!Renewed(u) \in Credential /\ Accounts!Renewed(u).version = credentials[u].version + 1
      BY <2>1, <1>0, <1>a DEF Accounts!provisionLocalCredential, Accounts!Renewed, Credential
    <3> QED BY <2>1, <3>1, <1>0, <1>h DEF Accounts!provisionLocalCredential, Credential
  <2>2. CASE Accounts!LockLapses(u)
    <3>1. credentials' = [credentials EXCEPT ![u].locked = FALSE]
      BY <2>2 DEF Accounts!LockLapses
    <3>2. [credentials[u] EXCEPT !.locked = FALSE] \in Credential
      BY <1>0 DEF Credential
    <3> QED BY <2>2, <3>1, <3>2, <1>0, <1>h DEF Accounts!LockLapses, Credential
  <2> QED BY <1>1, <2>1, <2>2
<1>2. ASSUME NEW b \in Accounts!Browsers, NEW u \in Members, Accounts!Login(b, u)
      PROVE  /\ credentials' \in [Members -> Credential] /\ (\A v \in Members : Grown(v)) /\ events' \in 0 .. MaxLogins
             /\ browser' \in [Accounts!Browsers -> Cookie] /\ UNCHANGED <<sessions, resets, audit>>
             /\ \A x \in Accounts!Browsers : browser'[x].session = browser[x].session
  <2>1. \A t : Accounts!Tried(u, t) \in Credential /\ Accounts!Tried(u, t).version = credentials[u].version
    BY AccountsTried DEF AccountsInv, Credential
  <2>2. [browser EXCEPT ![b].principal = u] \in [Accounts!Browsers -> Cookie]
    BY <1>0 DEF Cookie
  <2> QED BY <1>2, <2>1, <2>2, <1>0, <1>h DEF Accounts!Login, Credential
<1>3. ASSUME NEW b \in Accounts!Browsers, Accounts!createSession(b)
      PROVE  /\ sessions' \in [Accounts!Sessions -> SessionRow] /\ browser' \in [Accounts!Browsers -> Cookie]
             /\ SessionFacts' /\ (\A s \in Accounts!Sessions : Kept(s)) /\ UNCHANGED <<credentials, resets, audit, events>>
  <2>1. PICK n \in 0 .. MaxSessions : /\ \A s \in Accounts!Sessions : sessions[s].status # "none" <=> s <= n
                                      /\ Accounts!Cardinality(Accounts!Used) = n
    BY <1>0, AccountsFresh
  <2>2. n + 1 \in Accounts!Sessions /\ browser[b].principal \in Members
    BY <1>3, <2>1, <1>0 DEF Accounts!createSession, Cookie
  <2> DEFINE fresh == [Accounts!NoSession EXCEPT !.status = "active", !.user = browser[b].principal]
  <2>f. fresh \in SessionRow /\ fresh.user = browser[b].principal /\ fresh.status = "active"
    <3>1. Accounts!NoSession \in SessionRow
      BY DEF Accounts!NoSession, SessionRow
    <3> QED BY <3>1, <2>2 DEF SessionRow
  <2>3. \A s \in Accounts!Sessions : sessions'[s] =
          IF s = n + 1 THEN fresh
          ELSE IF s = browser[b].session THEN [sessions[s] EXCEPT !.status = "revoked"] ELSE sessions[s]
    <3>1. sessions' = [s \in Accounts!Sessions |->
           IF s = n + 1 THEN [Accounts!NoSession EXCEPT !.status = "active", !.user = browser[b].principal]
           ELSE IF s = browser[b].session THEN [sessions[s] EXCEPT !.status = "revoked"] ELSE sessions[s]]
      BY <1>3, <2>1 DEF Accounts!createSession
    <3> QED BY <3>1
  <2> HIDE DEF fresh
  <2>r. \A s \in Accounts!Sessions :
          /\ [sessions[s] EXCEPT !.status = "revoked"] \in SessionRow
          /\ [sessions[s] EXCEPT !.status = "revoked"].user = sessions[s].user
          /\ [sessions[s] EXCEPT !.status = "revoked"].status = "revoked"
    BY <1>0 DEF SessionRow
  <2>4. sessions' \in [Accounts!Sessions -> SessionRow]
    <3>1. \A s \in Accounts!Sessions : sessions'[s] \in SessionRow
      BY <2>3, <2>f, <2>r, <1>0
    <3>2. sessions' = [s \in Accounts!Sessions |-> sessions'[s]]
      BY <1>3 DEF Accounts!createSession
    <3> QED BY <3>1, <3>2
  <2>5. /\ browser' \in [Accounts!Browsers -> Cookie]
        /\ \A x \in Accounts!Browsers : browser'[x].session = IF x = b THEN n + 1 ELSE browser[x].session
    <3>1. browser' = [browser EXCEPT ![b] = [session |-> n + 1, principal |-> Accounts!Nobody]]
      BY <1>3, <2>1 DEF Accounts!createSession
    <3>2. n + 1 \in 0 .. MaxSessions
      BY <2>2, <2>1, <1>a DEF Accounts!Sessions
    <3>3. [session |-> n + 1, principal |-> Accounts!Nobody] \in Cookie
      BY <3>2 DEF Cookie
    <3> QED BY <3>1, <3>3, <1>0
  <2>6. n + 1 \in 0 .. MaxSessions /\ \A s \in Accounts!Sessions : sessions'[s].status # "none" <=> s <= n + 1
    <3>1. \A s \in Accounts!Sessions : s = browser[b].session => s <= n
      BY <2>1, <1>0 DEF SessionFacts, Accounts!Sessions
    <3>2. n + 1 \in 0 .. MaxSessions
      BY <2>2, <2>1, <1>a DEF Accounts!Sessions
    <3> SUFFICES ASSUME NEW s \in Accounts!Sessions PROVE sessions'[s].status # "none" <=> s <= n + 1
      BY <3>2
    <3>3. s \in Nat /\ (s = n + 1 \/ (s <= n + 1 <=> s <= n))
      BY <1>a DEF Accounts!Sessions
    <3>4. CASE s = n + 1
      <4>1. sessions'[s].status = "active" /\ n + 1 <= n + 1
        <5>1. sessions'[s] = fresh
          BY <3>4, <2>3
        <5>2. n \in Int
          BY <1>a
        <5> QED BY <5>1, <5>2, <2>f
      <4> QED BY <3>4, <4>1
    <3>5. CASE s # n + 1
      BY <3>5, <3>3, <3>1, <2>1, <2>3, <2>r
    <3> QED BY <3>4, <3>5
  <2>7. SessionFacts'
    <3>1. \A s \in Accounts!Sessions : sessions'[s].status # "none" => sessions'[s].user \in Members
      <4> SUFFICES ASSUME NEW s \in Accounts!Sessions, sessions'[s].status # "none" PROVE sessions'[s].user \in Members
        OBVIOUS
      <4>1. CASE s = n + 1
        BY <4>1, <2>2, <2>3, <2>f
      <4>2. CASE s # n + 1
        <5>1. sessions[s].status # "none"
          <6>1. CASE s = browser[b].session
            BY <6>1, <1>0 DEF SessionFacts, Accounts!Sessions
          <6> QED BY <6>1, <4>2, <2>3
        <5> QED BY <5>1, <4>2, <2>3, <2>r, <1>0 DEF SessionFacts
      <4> QED BY <4>1, <4>2
    <3>2. \A x \in Accounts!Browsers : browser'[x].session # 0 => sessions'[browser'[x].session].status # "none"
      <4> SUFFICES ASSUME NEW x \in Accounts!Browsers, x # b, browser[x].session # 0
                   PROVE  sessions'[browser[x].session].status # "none"
        BY <2>5, <2>3, <2>2, <2>f
      <4>1. browser[x].session \in Accounts!Sessions /\ sessions[browser[x].session].status # "none"
        BY <1>0, <1>a DEF SessionFacts, Cookie, Accounts!Sessions
      <4> QED BY <4>1, <2>3, <2>r, <2>f
    <3> QED BY <3>1, <3>2, <2>6 DEF SessionFacts
  <2>8. \A s \in Accounts!Sessions : Kept(s)
    <3> SUFFICES ASSUME NEW s \in Accounts!Sessions, sessions[s].status # "none"
                 PROVE  Kept(s)
      OBVIOUS
    <3>1. s # n + 1
      BY <2>1 DEF Accounts!Sessions
    <3>2. s = browser[b].session => Accounts!FreeSession(s)
      <4>1. s # 0
        BY <1>a DEF Accounts!Sessions
      <4> QED BY <4>1, <1>3 DEF Accounts!createSession
    <3> QED BY <3>1, <3>2, <2>3, <2>r
  <2> QED BY <1>3, <2>4, <2>5, <2>7, <2>8 DEF Accounts!createSession
<1>4. ASSUME NEW b \in Accounts!Browsers, Accounts!revoke(b)
      PROVE  /\ sessions' \in [Accounts!Sessions -> SessionRow] /\ browser' \in [Accounts!Browsers -> Cookie]
             /\ SessionFacts' /\ (\A s \in Accounts!Sessions : Kept(s)) /\ UNCHANGED <<credentials, resets, audit>>
             /\ events' \in 0 .. MaxLogins
  <2>1. browser[b].session \in Accounts!Sessions /\ Accounts!FreeSession(browser[b].session)
        /\ sessions[browser[b].session].status = "active"
    BY <1>4, <1>0, <1>a DEF Accounts!revoke, Accounts!Authentic, Cookie, Accounts!Sessions
  <2>2. sessions' = [sessions EXCEPT ![browser[b].session].status = "revoked"] /\ browser' = [browser EXCEPT ![b].session = 0]
    BY <1>4 DEF Accounts!revoke
  <2>3. /\ sessions' \in [Accounts!Sessions -> SessionRow] /\ browser' \in [Accounts!Browsers -> Cookie]
        /\ \A s \in Accounts!Sessions : /\ sessions'[s].user = sessions[s].user /\ (sessions'[s].status = "none" <=> sessions[s].status = "none")
                                        /\ sessions'[s].status # sessions[s].status => s = browser[b].session
        /\ \A x \in Accounts!Browsers : browser'[x].session \in {0, browser[x].session}
    BY <2>1, <2>2, <1>0, <1>a DEF SessionRow, Cookie
  <2>4. SessionFacts'
    <3>1. \A x \in Accounts!Browsers : browser[x].session # 0 => browser[x].session \in Accounts!Sessions
      BY <1>0, <1>a DEF Cookie, Accounts!Sessions
    <3>2. \A x \in Accounts!Browsers : browser'[x].session # 0 => sessions'[browser'[x].session].status # "none"
      <4> SUFFICES ASSUME NEW x \in Accounts!Browsers, browser'[x].session # 0
                   PROVE  sessions'[browser'[x].session].status # "none"
        OBVIOUS
      <4>1. browser'[x].session = browser[x].session
        BY <2>3
      <4>2. browser[x].session \in Accounts!Sessions /\ sessions[browser[x].session].status # "none"
        BY <3>1, <4>1, <1>0 DEF SessionFacts
      <4> QED BY <4>1, <4>2, <2>3
    <3>3. \E n \in 0 .. MaxSessions : \A s \in Accounts!Sessions : sessions'[s].status # "none" <=> s <= n
      <4>1. PICK n \in 0 .. MaxSessions : \A s \in Accounts!Sessions : sessions[s].status # "none" <=> s <= n
        BY <1>0 DEF SessionFacts
      <4>2. \A s \in Accounts!Sessions : sessions'[s].status # "none" <=> sessions[s].status # "none"
        BY <2>3
      <4>3. \A s \in Accounts!Sessions : sessions'[s].status # "none" <=> s <= n
        BY <4>1, <4>2
      <4> QED BY <4>3
    <3>4. \A s \in Accounts!Sessions : sessions'[s].status # "none" => sessions'[s].user \in Members
      <4>1. \A s \in Accounts!Sessions : sessions[s].status # "none" => sessions[s].user \in Members
        BY <1>0 DEF SessionFacts
      <4> QED BY <4>1, <2>3
    <3> QED BY <3>2, <3>3, <3>4 DEF SessionFacts
  <2> QED BY <1>4, <1>h, <2>1, <2>3, <2>4 DEF Accounts!revoke
<1>5. ASSUME NEW s \in Accounts!Sessions, Accounts!SessionAges(s)
      PROVE  /\ sessions' \in [Accounts!Sessions -> SessionRow]
             /\ SessionFacts' /\ (\A x \in Accounts!Sessions : Kept(x)) /\ UNCHANGED <<credentials, browser, resets, audit>>
             /\ events' \in 0 .. MaxLogins
  <2>1. sessions' = [sessions EXCEPT ![s].aged = TRUE] /\ UNCHANGED browser
    BY <1>5 DEF Accounts!SessionAges
  <2>2. /\ sessions' \in [Accounts!Sessions -> SessionRow]
        /\ \A x \in Accounts!Sessions : sessions'[x].user = sessions[x].user /\ sessions'[x].status = sessions[x].status
    BY <2>1, <1>0 DEF SessionRow
  <2>3. SessionFacts'
    BY <2>1, <2>2, <1>0, <1>a DEF SessionFacts, Cookie, Accounts!Sessions
  <2> QED BY <1>5, <1>h, <2>2, <2>3 DEF Accounts!SessionAges
<1>6. UNCHANGED <<sessions, resets, audit>> /\ (\A x \in Accounts!Browsers : browser'[x].session = browser[x].session) => SessionFacts'
  BY <1>0 DEF SessionFacts
<1>7. UNCHANGED sessions => \A s \in Accounts!Sessions : Kept(s)
  OBVIOUS
<1>8. UNCHANGED credentials => \A v \in Members : Grown(v)
  BY <1>0 DEF Credential
<1> HIDE DEF Kept, Grown
<1>9. /\ credentials' \in [Members -> Credential] /\ sessions' \in [Accounts!Sessions -> SessionRow]
      /\ browser' \in [Accounts!Browsers -> Cookie] /\ events' \in 0 .. MaxLogins /\ SessionFacts' /\ UNCHANGED <<resets, audit>>
      /\ (\A s \in Accounts!Sessions : Kept(s)) /\ (\A v \in Members : Grown(v))
  BY <1>0, <1>1, <1>2, <1>3, <1>4, <1>5, <1>6, <1>7, <1>8
<1>10. Accounts!TypeOK'
  BY <1>9, <1>0 DEF Accounts!TypeOK, Credential, SessionRow, Cookie, ResetRow
<1> QED BY <1>9, <1>10 DEF Kept, Grown


(* What a change does to itself, and what it leaves.                       *)
LEMMA AccountsChange ==
  ASSUME AccountsBounds, AccountsInv, NEW c \in Accounts!Changes,
         \/ Accounts!Advances(c) \/ Accounts!ApprovalAges(c)
         \/ \E b \in Accounts!Browsers, u \in Members : Accounts!Ask(c, b, u)
  PROVE  /\ Accounts!TypeOK' /\ SessionFacts' /\ ResetFacts(c)'
         /\ \A d \in Accounts!Changes \ {c} : resets'[d] = resets[d]
         /\ \A d \in Accounts!Changes \ {c} : \A o : <<d, o>> \in audit' <=> <<d, o>> \in audit
         /\ \A s \in Accounts!Sessions : sessions[s].status # "none" =>
              /\ sessions'[s].user = sessions[s].user /\ sessions'[s].status # "none"
              /\ \A d \in Accounts!Changes \ {c} :
                   Accounts!HoldsSession(d, s) => sessions'[s].status = sessions[s].status
         /\ \A u \in Members :
              /\ credentials'[u].version >= credentials[u].version
              /\ \A d \in Accounts!Changes \ {c} :
                   Accounts!HoldsAccount(d, u) => credentials'[u].version = credentials[u].version
         /\ \A u \in Members : Accounts!HoldsAccount(c, u)' =>
              Accounts!HoldsAccount(c, u) \/ \A d \in Accounts!Changes \ {c} : ~Accounts!HoldsAccount(d, u)
         /\ (Accounts!Changed(c)' /\ ~Accounts!Changed(c)) =>
              /\ credentials[Accounts!Actor(c)].version = resets[c].typed
              /\ sessions[resets[c].session].status = "active"
              /\ <<c, "approved">> \in audit
<1> DEFINE r == resets[c]
           a == Accounts!Actor(c)
<1>0. /\ credentials \in [Members -> Credential] /\ sessions \in [Accounts!Sessions -> SessionRow]
      /\ browser \in [Accounts!Browsers -> Cookie] /\ resets \in [Accounts!Changes -> ResetRow]
      /\ audit \subseteq Accounts!Changes \X (Accounts!Outcomes \cup {"approved"})
      /\ events \in 0 .. MaxLogins /\ SessionFacts /\ ResetFacts(c)
      /\ \A d \in Accounts!Changes : ResetFacts(d)
  BY AccountsTypes DEF AccountsInv
<1>a. MaxVersions \in Nat /\ MaxSessions \in Nat /\ LockAfter \in Nat /\ MaxLogins \in Nat
  BY DEF AccountsBounds
<1>t. r \in ResetRow /\ r.version \in Nat /\ r.typed \in Nat /\ \A u \in Members : credentials[u].version \in Nat
  BY <1>0, <1>a DEF ResetRow, Credential
<1>s. r.step # "none" => /\ r.session \in Accounts!Sessions /\ r.target \in Members
                         /\ a \in Members /\ sessions[r.session].status # "none"
  BY <1>0 DEF ResetFacts, SessionFacts, Accounts!Actor
<1> DEFINE Quiet == UNCHANGED <<credentials, sessions>>
           Same  == /\ \A d \in Accounts!Changes \ {c} : resets'[d] = resets[d]
                    /\ resets' \in [Accounts!Changes -> ResetRow]
<1>k. \A k \in {"asked", "read", "verified", "approved", "live", "actor", "target", "closing", "ended"} : k \in Accounts!Steps
  BY DEF Accounts!Steps
<1>o. \A o \in {"denied", "session-expired", "credential-changed", "account-not-found",
                 "approval-expired", "changed", "failed"} : o \in Accounts!Outcomes
  BY DEF Accounts!Outcomes
<1>n. "approved" \notin Accounts!Outcomes
  BY DEF Accounts!Outcomes
<1> DEFINE Moves(k) == resets'[c] = [r EXCEPT !.step = k]
           Closes(o) == resets'[c] = [r EXCEPT !.step = "closing", !.outcome = o]
           Ends(o)   == resets'[c] = [r EXCEPT !.step = "ended", !.outcome = o]
<1>m. /\ \A k \in Accounts!Steps : Accounts!Becomes(c, k) => Same /\ Moves(k)
      /\ \A o \in Accounts!Outcomes : Accounts!Closes(c, o) => Same /\ Closes(o)
      /\ \A o \in Accounts!Outcomes : Accounts!Ends(c, o) => Same /\ Ends(o)
  <2>1. resets \in [Accounts!Changes -> ResetRow] /\ c \in Accounts!Changes
    BY <1>0
  <2>2. ASSUME NEW k \in Accounts!Steps, Accounts!Becomes(c, k) PROVE Same /\ Moves(k)
    BY <2>1, <2>2, <1>o, ResetMoves
  <2>3. ASSUME NEW o \in Accounts!Outcomes PROVE (Accounts!Closes(c, o) => Same /\ Closes(o)) /\ (Accounts!Ends(c, o) => Same /\ Ends(o))
    BY <2>1, <1>k, ResetMoves
  <2> QED BY <2>2, <2>3
<1>1. ASSUME Accounts!ReadVersion(c)
      PROVE  Same /\ Quiet /\ UNCHANGED <<browser, audit, events>> /\ ResetFacts(c)' /\ resets'[c].step = "read"
             /\ resets'[c].outcome = r.outcome
  <2>1. resets' = [resets EXCEPT ![c] = [r EXCEPT !.step = "read", !.version = credentials[a].version]]
        /\ r.step = "asked"
    BY <1>1 DEF Accounts!ReadVersion
  <2>2. [r EXCEPT !.step = "read", !.version = credentials[a].version] \in ResetRow
    BY <2>1, <1>0, <1>s, <1>k DEF ResetRow, Credential
  <2>3. Same /\ resets'[c] = [r EXCEPT !.step = "read", !.version = credentials[a].version] /\ Accounts!Actor(c)' = a
    BY <2>1, <2>2, <1>0, <1>1 DEF Accounts!ReadVersion, Accounts!Actor, ResetRow
  <2> QED BY <1>1, <2>1, <2>3, <1>0, <1>s, <1>t DEF Accounts!ReadVersion, ResetFacts, ResetRow
<1>2. ASSUME Accounts!Approve(c)
      PROVE  Same /\ Quiet /\ UNCHANGED <<browser, events>> /\ ResetFacts(c)' /\ resets'[c].step = "approved"
             /\ resets'[c].outcome = r.outcome /\ audit' = audit \cup {<<c, "approved">>}
  <2>1. Same /\ Moves("approved") /\ r.step = "verified"
    BY <1>2, <1>m, <1>k DEF Accounts!Approve
  <2>2. resets'[c].step = "approved" /\ resets'[c].outcome = r.outcome /\ resets'[c].session = r.session
        /\ resets'[c].typed = r.typed /\ resets'[c].version = r.version /\ resets'[c].target = r.target
    BY <2>1, <1>t DEF ResetRow
  <2>3. Accounts!Actor(c)' = a /\ Quiet /\ audit' = audit \cup {<<c, "approved">>} /\ UNCHANGED <<browser, events>>
    BY <1>2, <2>2 DEF Accounts!Approve, Accounts!Actor
  <2> QED BY <2>1, <2>2, <2>3, <1>0, <1>s, <1>t, <1>n DEF ResetFacts
<1>3. ASSUME Accounts!ApprovalAges(c)
      PROVE  Same /\ Quiet /\ UNCHANGED <<browser, audit>> /\ ResetFacts(c)' /\ events' \in 0 .. MaxLogins
             /\ resets'[c].outcome = r.outcome
             /\ resets'[c].step = r.step /\ resets'[c].session = r.session /\ resets'[c].target = r.target
  <2>1. resets' = [resets EXCEPT ![c] = [r EXCEPT !.late = TRUE]]
    BY <1>3 DEF Accounts!ApprovalAges
  <2>2. [r EXCEPT !.late = TRUE] \in ResetRow
    BY <1>t DEF ResetRow
  <2>3. Same /\ resets'[c] = [r EXCEPT !.late = TRUE] /\ Accounts!Actor(c)' = a
    BY <2>1, <2>2, <1>0, <1>3 DEF Accounts!ApprovalAges, Accounts!Actor, ResetRow
  <2>4. events' \in 0 .. MaxLogins
    BY <1>3, <1>0, <1>a DEF Accounts!ApprovalAges, Accounts!Happens
  <2>5. resets'[c].step = r.step /\ resets'[c].outcome = r.outcome /\ resets'[c].session = r.session
        /\ resets'[c].typed = r.typed /\ resets'[c].version = r.version /\ resets'[c].target = r.target
    BY <2>3, <1>t DEF ResetRow
  <2>6. UNCHANGED <<credentials, sessions, browser, audit>>
    BY <1>3 DEF Accounts!ApprovalAges
  <2> QED BY <2>3, <2>4, <2>5, <2>6, <1>0 DEF ResetFacts
<1>4. ASSUME Accounts!LockSession(c)
      PROVE  Same /\ Quiet /\ UNCHANGED <<browser, audit, events>> /\ ResetFacts(c)'
             /\ resets'[c].step \in {"live", "closing"} /\ resets'[c].outcome # "changed"
  <2>0. r.step = "approved" /\ r.outcome = "none" /\ UNCHANGED <<credentials, sessions, browser, audit, events>>
    BY <1>4, <1>0 DEF Accounts!LockSession, ResetFacts
  <2>1. CASE sessions[r.session].status = "active"
    <3>1. Same /\ Moves("live")
      BY <1>4, <2>1, <1>m, <1>k DEF Accounts!LockSession
    <3>2. resets'[c].step = "live" /\ resets'[c].outcome = r.outcome /\ resets'[c].session = r.session
          /\ resets'[c].typed = r.typed /\ resets'[c].version = r.version /\ resets'[c].target = r.target
      BY <3>1, <1>t DEF ResetRow
    <3> QED BY <3>1, <3>2, <2>0, <2>1, <1>0 DEF ResetFacts, Accounts!Actor
  <2>2. CASE sessions[r.session].status # "active"
    <3>1. Same /\ Closes("session-expired")
      BY <1>4, <2>2, <1>m, <1>o DEF Accounts!LockSession
    <3>2. resets'[c].step = "closing" /\ resets'[c].outcome = "session-expired" /\ resets'[c].session = r.session
          /\ resets'[c].typed = r.typed /\ resets'[c].version = r.version /\ resets'[c].target = r.target
      BY <3>1, <1>t DEF ResetRow
    <3> QED BY <3>1, <3>2, <2>0, <1>0 DEF ResetFacts
  <2> QED BY <2>1, <2>2
<1>5. ASSUME Accounts!LockActor(c)
      PROVE  Same /\ Quiet /\ UNCHANGED <<browser, audit, events>> /\ ResetFacts(c)'
             /\ resets'[c].step \in {"actor", "closing"} /\ resets'[c].outcome # "changed"
             /\ Accounts!Actor(c)' = a /\ Accounts!FreeAccount(a)
  <2>0. /\ r.step = "live" /\ r.outcome = "none" /\ Accounts!FreeAccount(a)
        /\ UNCHANGED <<credentials, sessions, browser, audit, events>>
    BY <1>5, <1>0 DEF Accounts!LockActor, ResetFacts
  <2>1. CASE credentials[a].version = r.version
    <3>1. Same /\ Moves("actor")
      BY <1>5, <2>1, <1>m, <1>k DEF Accounts!LockActor
    <3>2. resets'[c].step = "actor" /\ resets'[c].outcome = r.outcome /\ resets'[c].session = r.session
          /\ resets'[c].typed = r.typed /\ resets'[c].version = r.version /\ resets'[c].target = r.target
      BY <3>1, <1>t DEF ResetRow
    <3>3. Accounts!Actor(c)' = a
      BY <3>2, <2>0 DEF Accounts!Actor
    <3>4. r.typed = credentials[a].version
      BY <2>0, <2>1, <1>0, <1>s, <1>t DEF ResetFacts
    <3> QED BY <3>1, <3>2, <3>3, <3>4, <2>0, <2>1, <1>0 DEF ResetFacts
  <2>2. CASE credentials[a].version # r.version
    <3>1. Same /\ Closes("credential-changed")
      BY <1>5, <2>2, <1>m, <1>o DEF Accounts!LockActor
    <3>2. resets'[c].step = "closing" /\ resets'[c].outcome = "credential-changed" /\ resets'[c].session = r.session
          /\ resets'[c].typed = r.typed /\ resets'[c].version = r.version /\ resets'[c].target = r.target
      BY <3>1, <1>t DEF ResetRow
    <3>3. Accounts!Actor(c)' = a
      BY <3>2, <2>0 DEF Accounts!Actor
    <3> QED BY <3>1, <3>2, <3>3, <2>0, <1>0 DEF ResetFacts
  <2> QED BY <2>1, <2>2
<1>6. ASSUME Accounts!LockTarget(c)
      PROVE  Same /\ Quiet /\ UNCHANGED <<browser, audit, events>> /\ ResetFacts(c)'
             /\ resets'[c].step \in {"target", "closing"} /\ resets'[c].outcome # "changed" /\ r.step = "actor"
             /\ Accounts!Actor(c)' = a /\ resets'[c].target = r.target
             /\ \A d \in Accounts!Changes \ {c} : ~Accounts!HoldsAccount(d, r.target)
  <2>0. /\ r.step = "actor" /\ r.outcome = "none"
        /\ UNCHANGED <<credentials, sessions, browser, audit, events>>
        /\ \A d \in Accounts!Changes \ {c} : ~Accounts!HoldsAccount(d, r.target)
    BY <1>6, <1>0 DEF Accounts!LockTarget, ResetFacts
  <2>1. CASE Accounts!Becomes(c, "target")
    <3>1. Same /\ Moves("target")
      BY <2>1, <1>m, <1>k
    <3>2. resets'[c].step = "target" /\ resets'[c].outcome = r.outcome /\ resets'[c].session = r.session
          /\ resets'[c].typed = r.typed /\ resets'[c].version = r.version /\ resets'[c].target = r.target
      BY <3>1, <1>t DEF ResetRow
    <3>3. Accounts!Actor(c)' = a
      BY <3>2, <2>0 DEF Accounts!Actor
    <3> QED BY <3>1, <3>2, <3>3, <2>0, <1>0 DEF ResetFacts
  <2>2. ASSUME NEW o \in {"account-not-found", "approval-expired"}, Accounts!Closes(c, o)
        PROVE  Same /\ ResetFacts(c)' /\ resets'[c].step = "closing" /\ resets'[c].outcome # "changed"
               /\ Accounts!Actor(c)' = a /\ resets'[c].target = r.target
    <3>1. Same /\ Closes(o)
      BY <2>2, <1>m, <1>o
    <3>2. resets'[c].step = "closing" /\ resets'[c].outcome = o /\ resets'[c].session = r.session
          /\ resets'[c].typed = r.typed /\ resets'[c].version = r.version /\ resets'[c].target = r.target
      BY <3>1, <1>t DEF ResetRow
    <3>3. Accounts!Actor(c)' = a
      BY <3>2, <2>0 DEF Accounts!Actor
    <3> QED BY <3>1, <3>2, <3>3, <2>0, <1>0 DEF ResetFacts
  <2>3. Accounts!Becomes(c, "target") \/ \E o \in {"account-not-found", "approval-expired"} : Accounts!Closes(c, o)
    BY <1>6 DEF Accounts!LockTarget
  <2> QED BY <2>0, <2>1, <2>2, <2>3
<1>7. ASSUME Accounts!Deadlocked(c)
      PROVE  Same /\ Quiet /\ UNCHANGED <<browser, audit, events>> /\ ResetFacts(c)'
             /\ resets'[c].step = "ended" /\ resets'[c].outcome = "failed"
  <2>1. Same /\ Ends("failed") /\ UNCHANGED <<credentials, sessions, browser, audit, events>>
    BY <1>7, <1>m, <1>o DEF Accounts!Deadlocked
  <2>2. r.step \in {"approved", "live", "actor", "target"}
    BY <1>7 DEF Accounts!Deadlocked, Accounts!WaitsFor
  <2>3. resets'[c].step = "ended" /\ resets'[c].outcome = "failed" /\ resets'[c].session = r.session
        /\ resets'[c].typed = r.typed /\ resets'[c].version = r.version /\ resets'[c].target = r.target
    BY <2>1, <1>t DEF ResetRow
  <2> QED BY <2>1, <2>2, <2>3, <1>0 DEF ResetFacts
<1>8. ASSUME Accounts!Report(c)
      PROVE  Same /\ Quiet /\ UNCHANGED <<events>> /\ ResetFacts(c)' /\ resets'[c].step = "ended"
             /\ audit' = audit \cup {<<c, r.outcome>>} /\ resets'[c].outcome = r.outcome
             /\ browser' \in [Accounts!Browsers -> Cookie]
             /\ \A b \in Accounts!Browsers : browser'[b].session \in {0, browser[b].session}
  <2>1. Same /\ Moves("ended") /\ r.step = "closing" /\ audit' = audit \cup {<<c, r.outcome>>}
        /\ UNCHANGED <<credentials, sessions, events>>
    BY <1>8, <1>m, <1>k DEF Accounts!Report
  <2>2. resets'[c].step = "ended" /\ resets'[c].outcome = r.outcome /\ resets'[c].session = r.session
        /\ resets'[c].typed = r.typed /\ resets'[c].version = r.version /\ resets'[c].target = r.target
    BY <2>1, <1>t DEF ResetRow
  <2>3. /\ browser' \in [Accounts!Browsers -> Cookie]
        /\ \A b \in Accounts!Browsers : browser'[b].session \in {0, browser[b].session}
    <3>1. \A b \in Accounts!Browsers : [browser[b] EXCEPT !.session = 0] \in Cookie /\ [browser[b] EXCEPT !.session = 0].session = 0
      BY <1>0, <1>a DEF Cookie
    <3> QED BY <1>8, <3>1, <1>0 DEF Accounts!Report
  <2>4. \A o \in Accounts!Outcomes : <<c, o>> \in audit' => o = r.outcome
    BY <2>1, <1>0 DEF ResetFacts
  <2>5. <<c, "approved">> \in audit => <<c, "approved">> \in audit'
    BY <2>1
  <2> QED BY <2>1, <2>2, <2>3, <2>4, <2>5, <1>0 DEF ResetFacts
<1>9. ASSUME NEW b \in Accounts!Browsers, NEW u \in Members, Accounts!Ask(c, b, u)
      PROVE  Same /\ Quiet /\ UNCHANGED <<browser, audit, events>> /\ ResetFacts(c)' /\ resets'[c].step = "asked"
             /\ resets'[c].outcome = "none"
  <2>1. r.step = "none" /\ UNCHANGED <<credentials, sessions, browser, audit, events>>
        /\ browser[b].session # 0 /\ sessions[browser[b].session].status = "active"
    BY <1>9 DEF Accounts!Ask, Accounts!Authentic
  <2>2. browser[b].session \in Accounts!Sessions /\ browser[b].session \in 0 .. MaxSessions
    BY <2>1, <1>0, <1>a DEF Cookie, Accounts!Sessions
  <2>3. sessions[browser[b].session].user \in Members
    BY <2>1, <2>2, <1>0 DEF SessionFacts
  <2> DEFINE actor == sessions[browser[b].session].user
             form(t) == [Accounts!NoChange EXCEPT !.step = "asked", !.session = browser[b].session, !.target = u, !.typed = t]
  <2>4. PICK t \in {0, credentials[actor].version} : resets' = [resets EXCEPT ![c] = form(t)]
    BY <1>9 DEF Accounts!Ask
  <2>5. t \in 0 .. MaxVersions
    BY <2>3, <2>4, <1>0, <1>a DEF Credential
  <2>6. form(t) \in ResetRow /\ form(t).step = "asked" /\ form(t).outcome = "none" /\ form(t).session = browser[b].session
        /\ form(t).target = u
    <3>1. Accounts!NoChange \in ResetRow /\ Accounts!NoChange.outcome = "none"
      BY <1>a DEF Accounts!NoChange, ResetRow, Accounts!Outcomes, Accounts!Steps
    <3>2. "asked" \in Accounts!Steps /\ u \in Members \cup {Accounts!Nobody}
      BY <1>k
    <3> QED BY <3>1, <3>2, <2>2, <2>5 DEF ResetRow
  <2> HIDE DEF form, actor
  <2>7. Same /\ resets'[c] = form(t)
    BY <2>4, <2>6, <1>0
  <2>8. \A o \in Accounts!Outcomes : <<c, o>> \notin audit
    BY <2>1, <1>0 DEF ResetFacts
  <2> QED BY <2>1, <2>2, <2>6, <2>7, <2>8 DEF ResetFacts
<1>10. ASSUME Accounts!Verify(c)
       PROVE  Same /\ UNCHANGED <<sessions, browser, audit, events>> /\ ResetFacts(c)'
              /\ resets'[c].step \in {"verified", "ended"} /\ resets'[c].outcome # "changed"
              /\ credentials' \in [Members -> Credential]
              /\ \A u \in Members : credentials'[u].version = credentials[u].version
  <2>0. /\ r.step = "read" /\ r.outcome = "none" /\ UNCHANGED <<sessions, browser, audit, events>>
        /\ credentials' = [credentials EXCEPT ![a] = Accounts!Tried(a, r.typed)] /\ a \in Members
    BY <1>10, <1>0, <1>s DEF Accounts!Verify, ResetFacts
  <2>1. Accounts!Tried(a, r.typed) \in Credential /\ Accounts!Tried(a, r.typed).version = credentials[a].version
    BY <2>0, AccountsTried DEF AccountsInv
  <2>2. /\ credentials' \in [Members -> Credential]
        /\ \A u \in Members : credentials'[u].version = credentials[u].version
    BY <2>0, <2>1, <1>0
  <2>3. CASE Accounts!Accepts(a, r.typed)
    <3>1. Same /\ Moves("verified")
      BY <1>10, <2>3, <1>m, <1>k DEF Accounts!Verify
    <3>2. resets'[c].step = "verified" /\ resets'[c].outcome = r.outcome /\ resets'[c].session = r.session
          /\ resets'[c].typed = r.typed /\ resets'[c].version = r.version /\ resets'[c].target = r.target
      BY <3>1, <1>t DEF ResetRow
    <3>3. Accounts!Actor(c)' = a
      BY <3>2, <2>0 DEF Accounts!Actor
    <3>4. r.version <= r.typed /\ r.typed <= credentials[a].version
      BY <2>0, <2>3, <1>0, <1>t, <1>s DEF ResetFacts, Accounts!Accepts
    <3> QED BY <3>1, <3>2, <3>3, <3>4, <2>0, <2>2, <1>0 DEF ResetFacts
  <2>4. CASE ~Accounts!Accepts(a, r.typed)
    <3>1. Same /\ Ends("denied")
      BY <1>10, <2>4, <1>m, <1>o DEF Accounts!Verify
    <3>2. resets'[c].step = "ended" /\ resets'[c].outcome = "denied" /\ resets'[c].session = r.session
          /\ resets'[c].typed = r.typed /\ resets'[c].version = r.version /\ resets'[c].target = r.target
      BY <3>1, <1>t DEF ResetRow
    <3> QED BY <3>1, <3>2, <2>0, <2>2, <1>0 DEF ResetFacts
  <2> QED BY <2>3, <2>4
<1>11. ASSUME Accounts!Replace(c)
       PROVE  /\ Same /\ UNCHANGED <<browser, audit, events>> /\ ResetFacts(c)'
              /\ resets'[c].step = "closing" /\ r.step = "target"
              /\ credentials' \in [Members -> Credential]
              /\ \A u \in Members : /\ credentials'[u].version >= credentials[u].version
                                    /\ u # r.target => credentials'[u].version = credentials[u].version
              /\ sessions' \in [Accounts!Sessions -> SessionRow]
              /\ \A s \in Accounts!Sessions :
                   /\ sessions'[s].user = sessions[s].user /\ (sessions'[s].status = "none" <=> sessions[s].status = "none")
                   /\ sessions'[s].status # sessions[s].status => \A d \in Accounts!Changes \ {c} : ~Accounts!HoldsSession(d, s)
  <2>0. /\ r.step = "target" /\ r.target \in Members /\ UNCHANGED <<browser, audit, events>>
        /\ \A d \in Accounts!Changes \ {c}, s \in Accounts!Revoked(c) : ~Accounts!HoldsSession(d, s)
        /\ credentials[r.target].version < MaxVersions
        /\ credentials' = [credentials EXCEPT ![r.target] = Accounts!Renewed(r.target)]
        /\ sessions' = [s \in Accounts!Sessions |-> IF s \in Accounts!Revoked(c)
                        THEN [sessions[s] EXCEPT !.status = "revoked"] ELSE sessions[s]]
        /\ Accounts!Closes(c, "changed")
    BY <1>11, <1>s DEF Accounts!Replace
  <2>1. Accounts!Renewed(r.target) \in Credential /\ Accounts!Renewed(r.target).version = credentials[r.target].version + 1
    BY <2>0, <1>0, <1>a DEF Accounts!Renewed, Credential
  <2>2. /\ credentials' \in [Members -> Credential]
        /\ \A u \in Members : /\ credentials'[u].version >= credentials[u].version
                              /\ u # r.target => credentials'[u].version = credentials[u].version
    BY <2>0, <2>1, <1>0, <1>t
  <2>3. \A s \in Accounts!Sessions :
          /\ [sessions[s] EXCEPT !.status = "revoked"] \in SessionRow
          /\ [sessions[s] EXCEPT !.status = "revoked"].user = sessions[s].user
          /\ [sessions[s] EXCEPT !.status = "revoked"].status = "revoked"
    BY <1>0 DEF SessionRow
  <2>4. /\ sessions' \in [Accounts!Sessions -> SessionRow]
        /\ \A s \in Accounts!Sessions :
             /\ sessions'[s].user = sessions[s].user /\ (sessions'[s].status = "none" <=> sessions[s].status = "none")
             /\ sessions'[s].status # sessions[s].status => s \in Accounts!Revoked(c)
    <3>1. \A s \in Accounts!Revoked(c) : s \in Accounts!Sessions /\ sessions[s].status = "active"
      BY DEF Accounts!Revoked
    <3> QED BY <2>0, <2>3, <3>1, <1>0
  <2>5. Same /\ Closes("changed")
    BY <2>0, <1>m, <1>o
  <2>6. resets'[c].step = "closing" /\ resets'[c].outcome = "changed" /\ resets'[c].session = r.session
        /\ resets'[c].typed = r.typed /\ resets'[c].version = r.version /\ resets'[c].target = r.target
    BY <2>5, <1>t DEF ResetRow
  <2>7. ResetFacts(c)'
    BY <2>0, <2>4, <2>6, <1>0, <1>s DEF ResetFacts
  <2> QED BY <2>0, <2>2, <2>4, <2>5, <2>6, <2>7
<1>12. \/ Accounts!ReadVersion(c) \/ Accounts!Approve(c) \/ Accounts!ApprovalAges(c) \/ Accounts!LockSession(c)
       \/ Accounts!LockActor(c) \/ Accounts!LockTarget(c) \/ Accounts!Deadlocked(c) \/ Accounts!Report(c)
       \/ (\E b \in Accounts!Browsers, u \in Members : Accounts!Ask(c, b, u)) \/ Accounts!Verify(c) \/ Accounts!Replace(c)
  BY DEF Accounts!Advances
<1> HIDE DEF Same, Moves, Closes, Ends
<1>13. Same /\ ResetFacts(c)'
  BY <1>1, <1>2, <1>3, <1>4, <1>5, <1>6, <1>7, <1>8, <1>9, <1>10, <1>11, <1>12
<1>14. /\ credentials' \in [Members -> Credential] /\ sessions' \in [Accounts!Sessions -> SessionRow]
       /\ browser' \in [Accounts!Browsers -> Cookie] /\ events' \in 0 .. MaxLogins
       /\ \A b \in Accounts!Browsers : browser'[b].session \in {0, browser[b].session}
       /\ \A s \in Accounts!Sessions :
             /\ sessions'[s].user = sessions[s].user /\ (sessions'[s].status = "none" <=> sessions[s].status = "none")
             /\ sessions'[s].status # sessions[s].status => \A d \in Accounts!Changes \ {c} : ~Accounts!HoldsSession(d, s)
  <2>1. UNCHANGED browser => browser' \in [Accounts!Browsers -> Cookie] /\ \A b \in Accounts!Browsers : browser'[b].session \in {0, browser[b].session}
    BY <1>0
  <2>2. UNCHANGED sessions =>
       /\ sessions' \in [Accounts!Sessions -> SessionRow]
       /\ \A s \in Accounts!Sessions :
             /\ sessions'[s].user = sessions[s].user /\ (sessions'[s].status = "none" <=> sessions[s].status = "none")
             /\ sessions'[s].status # sessions[s].status => \A d \in Accounts!Changes \ {c} : ~Accounts!HoldsSession(d, s)
    BY <1>0
  <2>3. /\ UNCHANGED credentials => credentials' \in [Members -> Credential]
        /\ UNCHANGED events => events' \in 0 .. MaxLogins
    BY <1>0
  <2>4. (browser' \in [Accounts!Browsers -> Cookie] /\ \A b \in Accounts!Browsers : browser'[b].session \in {0, browser[b].session})
    BY <2>1, <1>1, <1>2, <1>3, <1>4, <1>5, <1>6, <1>7, <1>8, <1>9, <1>10, <1>11, <1>12
  <2>5. credentials' \in [Members -> Credential] /\ events' \in 0 .. MaxLogins
    BY <2>3, <1>1, <1>2, <1>3, <1>4, <1>5, <1>6, <1>7, <1>8, <1>9, <1>10, <1>11, <1>12
  <2>6. UNCHANGED sessions \/ Accounts!Replace(c)
    BY <1>1, <1>2, <1>3, <1>4, <1>5, <1>6, <1>7, <1>8, <1>9, <1>10, <1>12
  <2> QED BY <2>2, <2>4, <2>5, <2>6, <1>11
<1>15. /\ audit' \subseteq Accounts!Changes \X (Accounts!Outcomes \cup {"approved"})
       /\ \A d \in Accounts!Changes \ {c} : \A o : <<d, o>> \in audit' <=> <<d, o>> \in audit
  <2>1. UNCHANGED audit \/ audit' = audit \cup {<<c, "approved">>} \/ audit' = audit \cup {<<c, r.outcome>>}
    BY <1>1, <1>2, <1>3, <1>4, <1>5, <1>6, <1>7, <1>8, <1>9, <1>10, <1>11, <1>12
  <2>2. r.outcome \in Accounts!Outcomes
    BY <1>t DEF ResetRow
  <2> QED BY <2>1, <2>2, <1>0
<1>16. \A u \in Members :
         /\ credentials'[u].version >= credentials[u].version
         /\ \A d \in Accounts!Changes \ {c} :
              Accounts!HoldsAccount(d, u) => credentials'[u].version = credentials[u].version
  <2>1. CASE Accounts!Replace(c)
    <3>1. \A d \in Accounts!Changes \ {c} : ~Accounts!HoldsAccount(d, r.target)
      BY <2>1, <1>11, <1>s DEF AccountsInv, Exclusive, Accounts!HoldsAccount
    <3> QED BY <2>1, <3>1, <1>11
  <2>2. CASE ~Accounts!Replace(c)
    <3>1. UNCHANGED credentials \/ \A u \in Members : credentials'[u].version = credentials[u].version
      BY <2>2, <1>1, <1>2, <1>3, <1>4, <1>5, <1>6, <1>7, <1>8, <1>9, <1>10, <1>12
    <3> QED BY <3>1, <1>t
  <2> QED BY <2>1, <2>2
<1>17. \A u \in Members : Accounts!HoldsAccount(c, u)' =>
              Accounts!HoldsAccount(c, u) \/ \A d \in Accounts!Changes \ {c} : ~Accounts!HoldsAccount(d, u)
  <2> SUFFICES ASSUME NEW u \in Members, Accounts!HoldsAccount(c, u)'
               PROVE  Accounts!HoldsAccount(c, u) \/ \A d \in Accounts!Changes \ {c} : ~Accounts!HoldsAccount(d, u)
    OBVIOUS
  <2>0. resets'[c].step \in {"actor", "target"}
    BY DEF Accounts!HoldsAccount
  <2>1. CASE Accounts!ApprovalAges(c)
    <3>1. UNCHANGED sessions /\ resets'[c].step = r.step /\ resets'[c].session = r.session /\ resets'[c].target = r.target
      BY <2>1, <1>3
    <3> QED BY <3>1 DEF Accounts!HoldsAccount, Accounts!Actor
  <2>2. CASE Accounts!LockActor(c)
    <3>1. u = a /\ Accounts!FreeAccount(a)
      BY <2>2, <1>5 DEF Accounts!HoldsAccount
    <3> QED BY <3>1 DEF Accounts!FreeAccount
  <2>3. CASE Accounts!LockTarget(c)
    BY <2>3, <1>6 DEF Accounts!HoldsAccount
  <2> QED BY <2>0, <2>1, <2>2, <2>3, <1>1, <1>2, <1>4, <1>7, <1>8, <1>9, <1>10, <1>11, <1>12
<1>18. (Accounts!Changed(c)' /\ ~Accounts!Changed(c)) =>
              /\ credentials[Accounts!Actor(c)].version = resets[c].typed
              /\ sessions[resets[c].session].status = "active"
              /\ <<c, "approved">> \in audit
  <2>1. CASE Accounts!Replace(c)
    BY <2>1, <1>11, <1>0 DEF ResetFacts
  <2>2. CASE ~Accounts!Replace(c)
    <3>1. resets'[c].outcome # "changed" \/ resets'[c].outcome = r.outcome
      BY <2>2, <1>1, <1>2, <1>3, <1>4, <1>5, <1>6, <1>7, <1>8, <1>9, <1>10, <1>12
    <3> QED BY <3>1 DEF Accounts!Changed
  <2> QED BY <2>1, <2>2
<1>19. SessionFacts'
  <2>1. PICK n \in 0 .. MaxSessions : \A s \in Accounts!Sessions : sessions[s].status # "none" <=> s <= n
    BY <1>0 DEF SessionFacts
  <2>2. \A s \in Accounts!Sessions : sessions'[s].status # "none" <=> s <= n
    BY <1>14, <2>1
  <2>3. \A s \in Accounts!Sessions : sessions'[s].status # "none" => sessions'[s].user \in Members
    <3>1. \A s \in Accounts!Sessions : sessions[s].status # "none" => sessions[s].user \in Members
      BY <1>0 DEF SessionFacts
    <3> QED BY <3>1, <1>14
  <2>4. \A b \in Accounts!Browsers : browser'[b].session # 0 => sessions'[browser'[b].session].status # "none"
    <3>1. \A b \in Accounts!Browsers : browser[b].session # 0 =>
            browser[b].session \in Accounts!Sessions /\ sessions[browser[b].session].status # "none"
      BY <1>0, <1>a DEF SessionFacts, Cookie, Accounts!Sessions
    <3> QED BY <3>1, <1>14
  <2> QED BY <2>2, <2>3, <2>4 DEF SessionFacts
<1>20. Accounts!TypeOK'
  BY <1>13, <1>14, <1>15 DEF Same, Accounts!TypeOK, Credential, SessionRow, Cookie, ResetRow
<1>21. \A s \in Accounts!Sessions : sessions[s].status # "none" =>
              /\ sessions'[s].user = sessions[s].user /\ sessions'[s].status # "none"
              /\ \A d \in Accounts!Changes \ {c} :
                   Accounts!HoldsSession(d, s) => sessions'[s].status = sessions[s].status
  BY <1>14
<1> QED BY <1>13, <1>15, <1>16, <1>17, <1>18, <1>19, <1>20, <1>21 DEF Same

(* A stop of the server lets go of every row.                              *)
LEMMA AccountsRestart ==
  ASSUME AccountsBounds, AccountsInv, Accounts!Restart
  PROVE  AccountsInv' /\ \A c \in Accounts!Changes : Accounts!Changed(c)' => Accounts!Changed(c)
<1>0. /\ browser \in [Accounts!Browsers -> Cookie] /\ resets \in [Accounts!Changes -> ResetRow]
      /\ events \in 0 .. MaxLogins /\ MaxLogins \in Nat
      /\ SessionFacts /\ Accounts!TypeOK /\ \A d \in Accounts!Changes : ResetFacts(d)
  BY AccountsTypes DEF AccountsInv, AccountsBounds
<1>1. /\ UNCHANGED <<credentials, sessions, audit>> /\ events' = events + 1 /\ events < MaxLogins
      /\ browser' = [b \in Accounts!Browsers |-> [browser[b] EXCEPT !.principal = Accounts!Nobody]]
  BY DEF Accounts!Restart, Accounts!Happens
<1>2. /\ browser' \in [Accounts!Browsers -> Cookie]
      /\ \A b \in Accounts!Browsers : browser'[b].session = browser[b].session
  <2>1. \A b \in Accounts!Browsers : [browser[b] EXCEPT !.principal = Accounts!Nobody] \in Cookie
    BY <1>0 DEF Cookie
  <2> QED BY <1>1, <2>1, <1>0 DEF Cookie
<1>3. \A c \in Accounts!Changes :
        /\ resets'[c] \in ResetRow /\ resets'[c].session = resets[c].session /\ resets'[c].target = resets[c].target
        /\ IF resets[c].step \in {"none", "ended"} THEN resets'[c] = resets[c]
           ELSE /\ resets'[c].step = "ended"
                /\ resets'[c].outcome = IF resets[c].outcome = "changed" THEN "changed" ELSE "failed"
  <2>1. \A c \in Accounts!Changes : resets'[c] =
          IF resets[c].step \in {"none", "ended"} THEN resets[c]
          ELSE [resets[c] EXCEPT !.step = "ended",
                  !.outcome = IF resets[c].outcome = "changed" THEN "changed" ELSE "failed"]
    BY DEF Accounts!Restart
  <2> SUFFICES ASSUME NEW c \in Accounts!Changes
               PROVE  /\ resets'[c] \in ResetRow /\ resets'[c].session = resets[c].session /\ resets'[c].target = resets[c].target
                      /\ IF resets[c].step \in {"none", "ended"} THEN resets'[c] = resets[c]
                         ELSE /\ resets'[c].step = "ended"
                              /\ resets'[c].outcome = IF resets[c].outcome = "changed" THEN "changed" ELSE "failed"
    OBVIOUS
  <2>3. CASE resets[c].step \in {"none", "ended"}
    BY <2>3, <2>1, <1>0
  <2>4. CASE resets[c].step \notin {"none", "ended"}
    <3> DEFINE o == IF resets[c].outcome = "changed" THEN "changed" ELSE "failed"
    <3>1. o \in {"changed", "failed"} /\ resets[c] \in ResetRow
      BY <1>0
    <3>2. resets'[c] = [resets[c] EXCEPT !.step = "ended", !.outcome = o]
      BY <2>1, <2>4
    <3> HIDE DEF o
    <3>3. /\ resets'[c] \in ResetRow /\ resets'[c].session = resets[c].session /\ resets'[c].target = resets[c].target
          /\ resets'[c].step = "ended" /\ resets'[c].outcome = o
      <4>1. o \in Accounts!Outcomes /\ "ended" \in Accounts!Steps
        BY <3>1 DEF Accounts!Outcomes, Accounts!Steps
      <4> QED BY <4>1, <3>1, <3>2 DEF ResetRow
    <3> QED BY <2>4, <3>3 DEF o
  <2> QED BY <2>3, <2>4
<1>4. resets' \in [Accounts!Changes -> ResetRow]
  <2>1. resets' = [c \in Accounts!Changes |-> resets'[c]]
    BY DEF Accounts!Restart
  <2> QED BY <2>1, <1>3
<1>5. Accounts!TypeOK'
  BY <1>0, <1>1, <1>2, <1>4 DEF Accounts!TypeOK, Credential, SessionRow, Cookie, ResetRow
<1>6. SessionFacts'
  BY <1>0, <1>1, <1>2 DEF SessionFacts
<1>7. ASSUME NEW c \in Accounts!Changes PROVE ResetFacts(c)' /\ (Accounts!Changed(c)' => Accounts!Changed(c))
  <2>0. ResetFacts(c) /\ UNCHANGED <<credentials, sessions, audit>>
    BY <1>0, <1>1
  <2>1. CASE resets[c].step \in {"none", "ended"}
    BY <2>0, <2>1, <1>3 DEF ResetFacts, Accounts!Changed, Accounts!Actor
  <2>2. CASE resets[c].step \notin {"none", "ended"}
    <3>1. resets'[c].step = "ended" /\ (resets'[c].outcome = "changed" <=> resets[c].outcome = "changed")
      BY <2>2, <1>3
    <3>2. \A o \in Accounts!Outcomes : <<c, o>> \notin audit
      BY <2>0, <2>2 DEF ResetFacts
    <3> QED BY <2>0, <2>2, <3>1, <3>2, <1>3 DEF ResetFacts, Accounts!Changed
  <2> QED BY <2>1, <2>2
<1>8. Exclusive'
  <2>1. \A c \in Accounts!Changes : resets'[c].step \in {"none", "ended"}
    BY <1>3
  <2> QED BY <2>1 DEF Exclusive, Accounts!HoldsAccount
<1> QED BY <1>5, <1>6, <1>7, <1>8 DEF AccountsInv

(* The invariant is kept, and a password is changed as it was verified.    *)
LEMMA AccountsStep ==
  ASSUME AccountsBounds, AccountsInv, Accounts!Next PROVE AccountsInv' /\ Accounts!ChangeIsCurrent
<1>0. /\ SessionFacts /\ Accounts!TypeOK /\ Exclusive /\ \A d \in Accounts!Changes : ResetFacts(d)
      /\ credentials \in [Members -> Credential] /\ MaxVersions \in Nat
  BY AccountsTypes DEF AccountsInv, AccountsBounds
<1>1. CASE Accounts!Restart
  BY <1>1, AccountsRestart DEF Accounts!ChangeIsCurrent
<1>2. CASE \/ \E u \in Members : Accounts!provisionLocalCredential(u) \/ Accounts!LockLapses(u)
           \/ \E b \in Accounts!Browsers : \/ Accounts!createSession(b) \/ Accounts!revoke(b)
                                         \/ \E u \in Members : Accounts!Login(b, u)
           \/ \E s \in Accounts!Sessions : Accounts!SessionAges(s)
  <2>1. /\ Accounts!TypeOK' /\ SessionFacts' /\ UNCHANGED <<resets, audit>>
        /\ \A s \in Accounts!Sessions : sessions[s].status # "none" =>
              /\ sessions'[s].user = sessions[s].user /\ sessions'[s].status # "none"
              /\ sessions'[s].status # sessions[s].status => Accounts!FreeSession(s)
        /\ \A u \in Members :
              /\ credentials'[u].version >= credentials[u].version
              /\ credentials'[u].version # credentials[u].version => Accounts!FreeAccount(u)
    BY <1>2, AccountsAround
  <2>2. \A u \in Members : credentials'[u].version \in Nat
    BY <2>1, <1>0 DEF Accounts!TypeOK
  <2>3. ASSUME NEW c \in Accounts!Changes PROVE ResetFacts(c)'
    BY <2>1, <2>2, <1>0, AccountsOther DEF Accounts!FreeSession, Accounts!FreeAccount
  <2>4. \A c \in Accounts!Changes, u \in Members : Accounts!HoldsAccount(c, u)' => Accounts!HoldsAccount(c, u)
    <3> SUFFICES ASSUME NEW c \in Accounts!Changes, NEW u \in Members, resets[c].step # "none"
                 PROVE  Accounts!HoldsAccount(c, u)' => Accounts!HoldsAccount(c, u)
      BY <2>1 DEF Accounts!HoldsAccount
    <3>1. sessions'[resets[c].session].user = sessions[resets[c].session].user
      BY <2>1, <1>0 DEF ResetFacts
    <3> QED BY <2>1, <3>1 DEF Accounts!HoldsAccount, Accounts!Actor
  <2>5. Exclusive'
    BY <2>4, <1>0 DEF Exclusive
  <2> QED BY <2>1, <2>3, <2>5 DEF AccountsInv, Accounts!ChangeIsCurrent, Accounts!Changed
<1>3. ASSUME NEW c \in Accounts!Changes,
             \/ Accounts!Advances(c) \/ Accounts!ApprovalAges(c)
             \/ \E b \in Accounts!Browsers, u \in Members : Accounts!Ask(c, b, u)
      PROVE  AccountsInv' /\ Accounts!ChangeIsCurrent
  <2>1. /\ Accounts!TypeOK' /\ SessionFacts' /\ ResetFacts(c)'
        /\ \A d \in Accounts!Changes \ {c} : resets'[d] = resets[d]
        /\ \A d \in Accounts!Changes \ {c} : \A o : <<d, o>> \in audit' <=> <<d, o>> \in audit
        /\ \A s \in Accounts!Sessions : sessions[s].status # "none" =>
              /\ sessions'[s].user = sessions[s].user /\ sessions'[s].status # "none"
              /\ \A d \in Accounts!Changes \ {c} :
                   Accounts!HoldsSession(d, s) => sessions'[s].status = sessions[s].status
        /\ \A u \in Members :
              /\ credentials'[u].version >= credentials[u].version
              /\ \A d \in Accounts!Changes \ {c} :
                   Accounts!HoldsAccount(d, u) => credentials'[u].version = credentials[u].version
        /\ \A u \in Members : Accounts!HoldsAccount(c, u)' =>
              Accounts!HoldsAccount(c, u) \/ \A d \in Accounts!Changes \ {c} : ~Accounts!HoldsAccount(d, u)
        /\ (Accounts!Changed(c)' /\ ~Accounts!Changed(c)) =>
              /\ credentials[Accounts!Actor(c)].version = resets[c].typed
              /\ sessions[resets[c].session].status = "active"
              /\ <<c, "approved">> \in audit
    BY <1>3, AccountsChange
  <2>2. \A u \in Members : credentials'[u].version \in Nat
    BY <2>1, <1>0 DEF Accounts!TypeOK
  <2>3. ASSUME NEW d \in Accounts!Changes \ {c} PROVE ResetFacts(d)'
    BY <2>1, <2>2, <1>0, AccountsOther
  <2>4. \A d \in Accounts!Changes \ {c}, u \in Members : Accounts!HoldsAccount(d, u)' <=> Accounts!HoldsAccount(d, u)
    <3> SUFFICES ASSUME NEW d \in Accounts!Changes \ {c}, NEW u \in Members, resets[d].step # "none"
                 PROVE  Accounts!HoldsAccount(d, u)' <=> Accounts!HoldsAccount(d, u)
      BY <2>1 DEF Accounts!HoldsAccount
    <3>1. sessions'[resets[d].session].user = sessions[resets[d].session].user
      BY <2>1, <1>0 DEF ResetFacts
    <3> QED BY <2>1, <3>1 DEF Accounts!HoldsAccount, Accounts!Actor
  <2>5. Exclusive'
    <3> SUFFICES ASSUME NEW d \in Accounts!Changes, NEW e \in Accounts!Changes, d # e, NEW u \in Members,
                        Accounts!HoldsAccount(d, u)', Accounts!HoldsAccount(e, u)'
                 PROVE  FALSE
      BY DEF Exclusive
    <3>1. \A x \in Accounts!Changes, y \in Accounts!Changes : x # y => ~(Accounts!HoldsAccount(x, u) /\ Accounts!HoldsAccount(y, u))
      BY <1>0 DEF Exclusive
    <3> QED BY <2>1, <2>4, <3>1
  <2>6. Accounts!ChangeIsCurrent
    BY <2>1 DEF Accounts!ChangeIsCurrent, Accounts!Changed
  <2> QED BY <2>1, <2>3, <2>5, <2>6 DEF AccountsInv
<1> QED BY <1>1, <1>2, <1>3 DEF Accounts!Next

(* Nothing that changes nothing breaks it.                                 *)
LEMMA AccountsStill ==
  ASSUME AccountsInv, UNCHANGED <<credentials, sessions, browser, resets, audit, events>> PROVE AccountsInv'
<1>1. Accounts!TypeOK' /\ SessionFacts'
  BY DEF AccountsInv, Accounts!TypeOK, SessionFacts
<1>2. Exclusive' /\ \A c \in Accounts!Changes : ResetFacts(c)'
  BY DEF AccountsInv, Exclusive, ResetFacts, Accounts!HoldsAccount, Accounts!Actor
<1> QED BY <1>1, <1>2 DEF AccountsInv

(* What the audit file says is what became of a change.                    *)
LEMMA AccountsSafe == ASSUME AccountsInv PROVE Accounts!AuditIsTrue
BY DEF AccountsInv, ResetFacts, Accounts!AuditIsTrue, Accounts!Changed

(* Every step, and none, keeps the invariant, and a password that changes  *)
(* was the one that was verified.                                          *)
LEMMA AccountsMove ==
  ASSUME AccountsBounds, AccountsInv, [Accounts!Next]_(Accounts!vars)
  PROVE  AccountsInv' /\ Accounts!ChangeIsCurrent
<1>1. CASE Accounts!Next
  BY <1>1, AccountsStep
<1>2. CASE UNCHANGED Accounts!vars
  <2>1. UNCHANGED <<credentials, sessions, browser, resets, audit, events>>
    BY <1>2 DEF Accounts!vars
  <2>2. AccountsInv'
    BY <2>1, AccountsStill
  <2>3. Accounts!ChangeIsCurrent
    BY <2>1 DEF Accounts!ChangeIsCurrent, Accounts!Changed
  <2> QED BY <2>2, <2>3
<1> QED BY <1>1, <1>2

--------------------------------------------------------------------------------
(* The settings of a project, in two windows (DeploymentSettings).         *)

CONSTANTS Windows, Contents, FirstContent, Nothing, MaxRevisions, MaxSaves
VARIABLES
  settings, settingsKept, settingsStore, settingsList, settingsForm, settingsBase,
  settingsMode, settingsBusy, settingsWaits, settingsTest, settingsArchiving, settingsPosts,
  settingsAnswers, settingsAsked               (* DeploymentSettings *)

Settings == INSTANCE DeploymentSettings WITH
  record <- settings, history <- settingsKept, store <- settingsStore, list <- settingsList,
  form <- settingsForm, baseline <- settingsBase, mode <- settingsMode, busy <- settingsBusy,
  waits <- settingsWaits, test <- settingsTest, archiving <- settingsArchiving,
  posts <- settingsPosts, answers <- settingsAnswers, asked <- settingsAsked,
  MaxRequests <- MaxSaves

SettingsBounds ==
  /\ MaxRevisions \in Nat \ {0} /\ MaxSaves \in Nat /\ FirstContent \in Contents
  /\ Nothing \notin Settings!Stored

(* What is known of the settings is in force, or older.                    *)
Known(r) == r = settings \/ r.rev < settings.rev

(* A window shows and asks for what it was told.                           *)
WindowFacts(w) ==
  /\ settingsList[w] # Nothing => Known(settingsList[w])
  /\ Known(settingsBase[w])
  /\ settingsArchiving[w] # Nothing =>
       /\ settingsArchiving[w] \in Settings!Records /\ Known(settingsArchiving[w])
  /\ settingsMode[w] # "closed" =>
       /\ settingsList[w] # Nothing /\ settingsBase[w] = settingsList[w]
       /\ settingsArchiving[w] = Nothing
       /\ settingsTest[w] # 0 => settingsTest[w] >= settingsBase[w].rev
  /\ settingsBusy[w] = "archive" => settingsArchiving[w] # Nothing
  /\ settingsWaits[w] <= settingsAsked

(* An answer is to what the window asked last.                             *)
AnswerFacts(w) ==
  /\ Known(settingsAnswers[w].record)
  /\ settingsAnswers[w].kind = "saved" =>
       /\ settingsBusy[w] \in {"save", "archive"}
       /\ settingsAnswers[w].record \in Settings!Records
  /\ settingsAnswers[w].kind = "tested" =>
       /\ settingsBusy[w] = "test"
       /\ settingsList[w] # Nothing => settingsList[w].rev <= settingsAnswers[w].record.rev

SaveFacts(s) ==
  /\ Known(s.over) /\ s.id <= settingsAsked
  /\ settingsWaits[s.by] = s.id => settingsBusy[s.by] \in {"save", "archive"}

(* The record at hand is the one that was shown, and is kept before it is  *)
(* replaced.                                                               *)
StoreFacts ==
  /\ settingsStore = Settings!Resting \/ settingsStore.step \in {"checked", "kept", "added"}
  /\ settingsStore.step \in {"checked", "kept", "added"} =>
       /\ SaveFacts(settingsStore.save) /\ settingsStore.save.over = settings
       /\ settings.rev < MaxRevisions
  /\ settingsStore.step \in {"kept", "added"} => settings = Settings!Absent \/ settings \in settingsKept
  /\ settingsStore.step = "added" => Settings!New(settingsStore.save) \in settingsKept

SettingsInv ==
  /\ Settings!TypeOK
  /\ \A w \in Windows : WindowFacts(w) /\ AnswerFacts(w)
  /\ \A s \in settingsPosts : SaveFacts(s)
  /\ StoreFacts

(* What the records are made of.                                           *)
LEMMA RecordFacts ==
  ASSUME SettingsBounds
  PROVE  /\ Settings!Absent \in Settings!Stored /\ Settings!First \in Settings!Records
         /\ Settings!Stored = Settings!Records \cup {Settings!Absent}
         /\ Settings!Absent.rev = 0 /\ Settings!Absent \notin Settings!Records
         /\ \A r \in Settings!Records : r.rev \in 1 .. MaxRevisions /\ Settings!Of(r) \in Settings!Fields
         /\ \A f \in Settings!Fields : [f EXCEPT !.archived = ~@] \in Settings!Fields
         /\ \A f \in Settings!Fields, c \in Contents : [f EXCEPT !.says = c] \in Settings!Fields
         /\ \A s \in Settings!Saves : s.id \in 1 .. MaxSaves /\ s.by \in Windows /\ s.over \in Settings!Stored
         /\ \A w \in Windows, i \in 1 .. MaxSaves, o \in Settings!Stored, f \in Settings!Fields :
              [id |-> i, by |-> w, over |-> o, fields |-> f] \in Settings!Saves
         /\ Settings!Blank \in Settings!Fields
         /\ \A r \in Settings!Stored : r.rev \in Nat /\ r # Nothing
<1> USE DEF SettingsBounds, Settings!Records, Settings!Fields
<1>1. /\ Settings!Absent \in Settings!Stored /\ Settings!First \in Settings!Records
      /\ Settings!Stored = Settings!Records \cup {Settings!Absent}
      /\ Settings!Absent.rev = 0 /\ Settings!Absent \notin Settings!Records
  BY DEF Settings!Absent, Settings!Stored, Settings!First
<1>2. \A r \in Settings!Records : r.rev \in 1 .. MaxRevisions /\ Settings!Of(r) \in Settings!Fields
  BY DEF Settings!Of
<1>3. /\ \A f \in Settings!Fields : [f EXCEPT !.archived = ~@] \in Settings!Fields
      /\ \A f \in Settings!Fields, c \in Contents : [f EXCEPT !.says = c] \in Settings!Fields
  OBVIOUS
<1>4. /\ \A s \in Settings!Saves : s.id \in 1 .. MaxSaves /\ s.by \in Windows /\ s.over \in Settings!Stored
      /\ \A w \in Windows, i \in 1 .. MaxSaves, o \in Settings!Stored, f \in Settings!Fields :
              [id |-> i, by |-> w, over |-> o, fields |-> f] \in Settings!Saves
  BY DEF Settings!Saves
<1>5. Settings!Blank \in Settings!Fields
  BY DEF Settings!Blank
<1>6. \A r \in Settings!Stored : r.rev \in Nat /\ r # Nothing
  BY <1>1, <1>2
<1> QED BY <1>1, <1>2, <1>3, <1>4, <1>5, <1>6

(* What a form can be filled with is a record of the settings.             *)
LEMMA FillsTyped ==
  ASSUME SettingsBounds, Settings!TypeOK, NEW w \in Windows, NEW r \in Settings!Records, Settings!Fills(w, r)
  PROVE  /\ settingsForm' \in [Windows -> Settings!Fields \cup {Nothing}]
         /\ settingsBase' \in [Windows -> Settings!Stored] /\ settingsTest' \in [Windows -> 0 .. MaxRevisions]
<1>1. Settings!Of(r) \in Settings!Fields /\ r \in Settings!Stored /\ MaxRevisions \in Nat
  BY RecordFacts DEF SettingsBounds
<1> QED BY <1>1 DEF Settings!Fills, Settings!Sets, Settings!TypeOK

(* The invariant holds to begin with.                                      *)
LEMMA SettingsStart ==
  ASSUME SettingsBounds, Settings!Init PROVE SettingsInv
<1> USE RecordFacts DEF SettingsBounds, Settings!Init
<1>a. Settings!First.rev = 1
  BY DEF Settings!First
<1>0. settings \in Settings!Stored /\ (settings = Settings!Absent \/ settings.rev = 1)
  BY <1>a
<1>1. Settings!TypeOK
  <2>1. Settings!NoAnswer \in [kind : {"none", "saved", "refused", "tested"}, record : Settings!Stored]
    BY DEF Settings!NoAnswer
  <2> QED BY <1>0, <2>1 DEF Settings!TypeOK
<1>2. Known(Settings!Absent)
  BY <1>0 DEF Known
<1>3. \A w \in Windows : WindowFacts(w) /\ AnswerFacts(w)
  BY <1>2 DEF WindowFacts, AnswerFacts, Settings!NoAnswer
<1>4. StoreFacts
  BY DEF StoreFacts, Settings!Resting
<1> QED BY <1>1, <1>3, <1>4 DEF SettingsInv

(* What fills a form, or empties it.                                       *)
LEMMA ShutsTyped ==
  ASSUME SettingsBounds, Settings!TypeOK, NEW w \in Windows, Settings!Shuts(w)
  PROVE  /\ settingsForm' \in [Windows -> Settings!Fields \cup {Nothing}]
         /\ settingsBase' \in [Windows -> Settings!Stored] /\ settingsTest' \in [Windows -> 0 .. MaxRevisions]
         /\ settingsMode' \in [Windows -> {"closed", "view", "edit", "closing"}]
<1>1. Settings!Absent \in Settings!Stored /\ MaxRevisions \in Nat
  BY RecordFacts DEF SettingsBounds
<1> QED BY <1>1 DEF Settings!Shuts, Settings!Sets, Settings!TypeOK

(* What a window sends is of the type of what is sent.                     *)
LEMMA RequestTyped ==
  ASSUME SettingsBounds, Settings!TypeOK, NEW w \in Windows, NEW k \in {"save", "archive", "test", "folder"},
         (Settings!NoLonger(w) /\ UNCHANGED settingsAsked) \/ Settings!Asks(w, k)
  PROVE  /\ settingsBusy' \in [Windows -> {"none", "save", "archive", "test", "folder"}]
         /\ settingsWaits' \in [Windows -> 0 .. MaxSaves]
         /\ settingsAnswers' \in [Windows -> [kind : {"none", "saved", "refused", "tested"}, record : Settings!Stored]]
         /\ settingsAsked' \in 0 .. MaxSaves
<1>1. /\ Settings!NoAnswer \in [kind : {"none", "saved", "refused", "tested"}, record : Settings!Stored]
      /\ MaxSaves \in Nat
  BY RecordFacts DEF SettingsBounds, Settings!NoAnswer
<1>2. CASE Settings!NoLonger(w) /\ UNCHANGED settingsAsked
  BY <1>1, <1>2 DEF Settings!NoLonger, Settings!Sets, Settings!TypeOK
<1>3. CASE Settings!Asks(w, k)
  <2>1. settingsAsked' \in 0 .. MaxSaves
    BY <1>1, <1>3 DEF Settings!Asks, Settings!TypeOK
  <2> QED BY <1>1, <1>3, <2>1 DEF Settings!Asks, Settings!Sets, Settings!TypeOK
<1> QED BY <1>2, <1>3

(* What the page does.                                                     *)
LEMMA WindowTyped ==
  ASSUME SettingsBounds, SettingsInv, NEW w \in Windows,
         \/ Settings!Load(w) \/ Settings!Open(w, "view") \/ Settings!Open(w, "edit") \/ Settings!Add(w)
         \/ Settings!ToEdit(w) \/ Settings!Discard(w) \/ Settings!Close(w)
         \/ Settings!KeepEditing(w) \/ Settings!Dismiss(w)
         \/ \E c \in Contents : Settings!Edit(w, c)
         \/ Settings!Save(w) \/ Settings!Test(w) \/ Settings!Select(w) \/ Settings!Choose(w)
         \/ Settings!AskArchive(w) \/ Settings!Archive(w) \/ Settings!CancelArchive(w)
         \/ Settings!Answered(w) \/ Settings!Unanswered(w) \/ Settings!RunTest(w)
  PROVE  Settings!TypeOK'
<1> USE DEF Settings!server
<1>0. Settings!TypeOK /\ MaxRevisions \in Nat /\ MaxSaves \in Nat /\ WindowFacts(w) /\ AnswerFacts(w)
  BY DEF SettingsInv, SettingsBounds
<1>1. CASE Settings!Load(w)
  BY <1>0, <1>1, ShutsTyped, RequestTyped DEF Settings!Load, Settings!Sets, Settings!TypeOK
<1>2. CASE Settings!Open(w, "view") \/ Settings!Open(w, "edit")
  BY <1>0, <1>2, FillsTyped DEF Settings!Open, Settings!Sets, Settings!TypeOK
<1>3. CASE Settings!Add(w)
  BY <1>0, <1>3, RecordFacts DEF Settings!Add, Settings!Sets, Settings!TypeOK
<1>4. CASE Settings!ToEdit(w) \/ Settings!KeepEditing(w)
  BY <1>0, <1>4 DEF Settings!ToEdit, Settings!KeepEditing, Settings!Sets, Settings!TypeOK
<1>5. CASE Settings!Dismiss(w)
  BY <1>0, <1>5, ShutsTyped DEF Settings!Dismiss, Settings!TypeOK
<1>6. CASE Settings!Discard(w)
  <2>1. Settings!Listed(w) => settingsList[w] \in Settings!Records
    BY <1>0, <1>6, RecordFacts DEF Settings!Discard, WindowFacts, Settings!Listed, Settings!TypeOK
  <2> QED BY <1>0, <1>6, <2>1, FillsTyped, ShutsTyped DEF Settings!Discard, Settings!TypeOK
<1>7. CASE Settings!Close(w)
  BY <1>0, <1>7, ShutsTyped DEF Settings!Close, Settings!Sets, Settings!TypeOK
<1>8. CASE \E c \in Contents : Settings!Edit(w, c)
  BY <1>0, <1>8, RecordFacts DEF Settings!Edit, Settings!TypeOK
<1>9. CASE Settings!Save(w)
  <2>1. Settings!Asks(w, "save") /\ settingsAsked' \in 1 .. MaxSaves
    BY <1>0, <1>9 DEF Settings!Save, Settings!Asks, Settings!TypeOK
  <2>2. settingsPosts' \subseteq Settings!Saves
    BY <1>0, <1>9, <2>1, RecordFacts DEF Settings!Save, Settings!Posts, Settings!Dirty,
       Settings!TypeOK
  <2> QED BY <1>0, <1>9, <2>1, <2>2, RequestTyped DEF Settings!Save, Settings!Sets,
     Settings!TypeOK
<1>a. CASE Settings!Test(w)
  BY <1>0, <1>a, RequestTyped DEF Settings!Test, Settings!Sets, Settings!TypeOK
<1>b. CASE Settings!Select(w)
  BY <1>0, <1>b DEF Settings!Select, Settings!Sets, Settings!TypeOK
<1>c. CASE Settings!Choose(w)
  BY <1>0, <1>c, RequestTyped DEF Settings!Choose, Settings!Sets, Settings!TypeOK
<1>d. CASE Settings!AskArchive(w) \/ Settings!CancelArchive(w)
  BY <1>0, <1>d DEF Settings!AskArchive, Settings!CancelArchive, Settings!Sets, Settings!TypeOK
<1>e. CASE Settings!Archive(w)
  <2>1. settingsArchiving[w] \in Settings!Records
    BY <1>0, <1>e DEF Settings!Archive, WindowFacts
  <2>2. Settings!Asks(w, "archive") /\ settingsAsked' \in 1 .. MaxSaves
    BY <1>0, <1>e DEF Settings!Archive, Settings!Asks, Settings!TypeOK
  <2>3. Settings!Of(settingsArchiving[w]) \in Settings!Fields /\ settingsArchiving[w] \in Settings!Stored
    BY <2>1, RecordFacts
  <2>4. settingsPosts' \subseteq Settings!Saves
    BY <1>0, <1>e, <2>2, <2>3, RecordFacts DEF Settings!Archive, Settings!Posts, Settings!TypeOK
  <2> QED BY <1>0, <1>e, <2>2, <2>4, RequestTyped DEF Settings!Archive, Settings!TypeOK
<1>f. CASE Settings!Answered(w)
  <2> DEFINE a == settingsAnswers[w]
  <2>0. Settings!NoLonger(w) /\ UNCHANGED <<settings, settingsKept, settingsStore, settingsPosts, settingsAsked>>
    BY <1>f DEF Settings!Answered
  <2>1. a.record \in Settings!Stored /\ a.record.rev \in 0 .. MaxRevisions
    BY <1>0, RecordFacts DEF Settings!TypeOK
  <2>2. CASE settingsBusy[w] = "save"
    <3>1. a.record \in Settings!Records
      BY <1>0, <1>f, <2>2 DEF Settings!Answered, AnswerFacts
    <3> QED BY <1>0, <1>f, <2>0, <2>1, <2>2, <3>1, FillsTyped, RequestTyped
            DEF Settings!Answered, Settings!Stays, Settings!Sets, Settings!TypeOK
  <2>3. CASE settingsBusy[w] # "save"
    BY <1>0, <1>f, <2>0, <2>1, <2>3, RequestTyped DEF Settings!Answered, Settings!Sets,
       Settings!TypeOK
  <2> QED BY <2>2, <2>3
<1>g. CASE Settings!Unanswered(w)
  BY <1>0, <1>g, RequestTyped DEF Settings!Unanswered, Settings!TypeOK
<1>h. CASE Settings!RunTest(w)
  BY <1>0, <1>h DEF Settings!RunTest, Settings!Sets, Settings!window, Settings!page,
     Settings!TypeOK
<1> QED BY <1>1, <1>2, <1>3, <1>4, <1>5, <1>6, <1>7, <1>8, <1>9, <1>a, <1>b, <1>c, <1>d, <1>e,
   <1>f, <1>g, <1>h

(* What the store does.                                                    *)
LEMMA StoreTyped ==
  ASSUME SettingsBounds, SettingsInv,
         \/ \E s \in settingsPosts : Settings!Check(s)
         \/ Settings!KeepOld \/ Settings!KeepNew \/ Settings!Replace \/ Settings!Fail
  PROVE  Settings!TypeOK'
<1> USE DEF Settings!window, Settings!page
<1>0. Settings!TypeOK /\ MaxRevisions \in Nat /\ MaxSaves \in Nat /\ StoreFacts
  BY DEF SettingsInv, SettingsBounds
<1>s. ASSUME NEW s \in Settings!Saves, NEW k \in {"saved", "refused"}, NEW r \in Settings!Stored, Settings!Says(s, k, r)
      PROVE  settingsAnswers' \in [Windows -> [kind : {"none", "saved", "refused", "tested"}, record : Settings!Stored]]
  BY <1>0, <1>s, RecordFacts DEF Settings!Says, Settings!Sets, Settings!TypeOK
<1>1. CASE \E s \in settingsPosts : Settings!Check(s)
  <2> PICK s \in settingsPosts : Settings!Check(s)
    BY <1>1
  <2>1. s \in Settings!Saves /\ Settings!Absent \in Settings!Stored
    BY <1>0, RecordFacts DEF Settings!TypeOK
  <2>2. settingsStore' = settingsStore \/ settingsStore' \in [step : {"checked", "kept", "added"}, save : Settings!Saves]
    BY <2>1 DEF Settings!Check
  <2>3. settingsAnswers' \in [Windows -> [kind : {"none", "saved", "refused", "tested"}, record : Settings!Stored]]
    BY <1>0, <1>s, <2>1 DEF Settings!Check, Settings!TypeOK
  <2> QED BY <1>0, <2>2, <2>3 DEF Settings!Check, Settings!TypeOK
<1>a. ASSUME settingsStore.step # "idle"
      PROVE  /\ settingsStore \in [step : {"checked", "kept", "added"}, save : Settings!Saves]
             /\ settingsStore.save \in Settings!Saves
             /\ Settings!New(settingsStore.save) \in Settings!Records
  <2>1. settingsStore \in [step : {"checked", "kept", "added"}, save : Settings!Saves]
    BY <1>0, <1>a DEF Settings!Resting, Settings!TypeOK
  <2>2. settings.rev + 1 \in 1 .. MaxRevisions
    BY <1>0, <2>1, RecordFacts DEF StoreFacts, Settings!TypeOK
  <2> QED BY <2>1, <2>2 DEF Settings!New, Settings!Records, Settings!Saves, Settings!Fields
<1>2. CASE Settings!KeepOld
  BY <1>0, <1>2, <1>a, RecordFacts DEF Settings!KeepOld, Settings!TypeOK
<1>3. CASE Settings!KeepNew
  BY <1>0, <1>3, <1>a DEF Settings!KeepNew, Settings!TypeOK
<1>4. CASE Settings!Replace
  <2>1. settings' \in Settings!Stored /\ settingsStore.step # "idle"
    BY <1>0, <1>4, <1>a, RecordFacts DEF Settings!Replace
  <2>2. settingsAnswers' \in [Windows -> [kind : {"none", "saved", "refused", "tested"}, record : Settings!Stored]]
    BY <1>4, <1>a, <1>s, <2>1 DEF Settings!Replace
  <2> QED BY <1>0, <1>4, <2>1, <2>2 DEF Settings!Replace, Settings!TypeOK
<1>5. CASE Settings!Fail
  <2>1. settingsStore.save \in Settings!Saves /\ Settings!Absent \in Settings!Stored
    BY <1>0, <1>5, RecordFacts DEF Settings!Fail, Settings!TypeOK
  <2>2. settingsAnswers' \in [Windows -> [kind : {"none", "saved", "refused", "tested"}, record : Settings!Stored]]
    BY <1>0, <1>5, <1>s, <2>1 DEF Settings!Fail, Settings!TypeOK
  <2> QED BY <1>0, <1>5, <2>2 DEF Settings!Fail, Settings!TypeOK
<1> QED BY <1>1, <1>2, <1>3, <1>4, <1>5

(* What a window knows while the record stays, and its own steps.          *)
LEMMA WindowKeeps ==
  ASSUME SettingsBounds, SettingsInv, NEW w \in Windows, Settings!TypeOK',
         \/ Settings!Load(w) \/ Settings!Open(w, "view") \/ Settings!Open(w, "edit") \/ Settings!Add(w)
         \/ Settings!ToEdit(w) \/ Settings!Discard(w) \/ Settings!Close(w)
         \/ Settings!KeepEditing(w) \/ Settings!Dismiss(w)
         \/ \E c \in Contents : Settings!Edit(w, c)
         \/ Settings!Save(w) \/ Settings!Test(w) \/ Settings!Select(w) \/ Settings!Choose(w)
         \/ Settings!AskArchive(w) \/ Settings!Archive(w) \/ Settings!CancelArchive(w)
         \/ Settings!Answered(w) \/ Settings!Unanswered(w) \/ Settings!RunTest(w)
  PROVE  WindowFacts(w)' /\ AnswerFacts(w)'
<1> USE DEF Settings!server
<1>0. /\ Settings!TypeOK /\ MaxRevisions \in Nat /\ MaxSaves \in Nat /\ WindowFacts(w) /\ AnswerFacts(w)
      /\ settings \in Settings!Stored /\ settings.rev \in Nat /\ Settings!Absent.rev = 0
  BY RecordFacts DEF SettingsInv, SettingsBounds, Settings!TypeOK
<1>z. Settings!NoAnswer = [kind |-> "none", record |-> Settings!Absent] /\ Known(Settings!Absent)
  BY <1>0, RecordFacts DEF Settings!NoAnswer, Known
<1>1. CASE Settings!Load(w)
  BY <1>0, <1>z, <1>1 DEF Settings!Load, Settings!Shuts, Settings!NoLonger, Settings!Sets,
     Settings!TypeOK,
     WindowFacts, AnswerFacts, Known
<1>2. CASE Settings!Open(w, "view") \/ Settings!Open(w, "edit")
  BY <1>0, <1>2, RecordFacts DEF Settings!Open, Settings!Fills, Settings!Sets, Settings!TypeOK,
     WindowFacts, AnswerFacts, Known
<1>3. CASE Settings!Add(w)
  BY <1>0, <1>z, <1>3, RecordFacts DEF Settings!Add, Settings!Sets, Settings!TypeOK, WindowFacts,
     AnswerFacts, Known
<1>4. CASE Settings!ToEdit(w) \/ Settings!KeepEditing(w)
  BY <1>0, <1>4 DEF Settings!ToEdit, Settings!KeepEditing, Settings!Sets, Settings!TypeOK,
     WindowFacts, AnswerFacts, Known
<1>5. CASE Settings!Dismiss(w)
  BY <1>0, <1>z, <1>5 DEF Settings!Dismiss, Settings!Shuts, Settings!Sets, Settings!TypeOK,
     WindowFacts, AnswerFacts, Known
<1>6. CASE Settings!Discard(w)
  BY <1>0, <1>z, <1>6 DEF Settings!Discard, Settings!Listed, Settings!Fills, Settings!Shuts,
     Settings!Sets,
     Settings!TypeOK, WindowFacts, AnswerFacts, Known
<1>7. CASE Settings!Close(w)
  BY <1>0, <1>z, <1>7 DEF Settings!Close, Settings!Shuts, Settings!Sets, Settings!TypeOK,
     WindowFacts, AnswerFacts, Known
<1>8. CASE \E c \in Contents : Settings!Edit(w, c)
  BY <1>0, <1>8 DEF Settings!Edit, WindowFacts, AnswerFacts, Known
<1>9. CASE Settings!Save(w) \/ Settings!Test(w) \/ Settings!Choose(w)
  BY <1>0, <1>z, <1>9 DEF Settings!Save, Settings!Test, Settings!Choose, Settings!Asks,
     Settings!Sets,
     Settings!TypeOK, WindowFacts, AnswerFacts, Known
<1>b. CASE Settings!Select(w)
  BY <1>0, <1>b DEF Settings!Select, Settings!Sets, Settings!TypeOK, WindowFacts, AnswerFacts,
     Known
<1>d. CASE Settings!AskArchive(w)
  BY <1>0, <1>d, RecordFacts DEF Settings!AskArchive, Settings!Sets, Settings!TypeOK,
     WindowFacts, AnswerFacts, Known
<1>i. CASE Settings!CancelArchive(w)
  BY <1>0, <1>i DEF Settings!CancelArchive, Settings!Free, Settings!Sets, Settings!TypeOK,
     WindowFacts, AnswerFacts, Known
<1>e. CASE Settings!Archive(w)
  BY <1>0, <1>z, <1>e DEF Settings!Archive, Settings!Asks, Settings!Sets, Settings!TypeOK,
     WindowFacts, AnswerFacts, Known
<1>f. CASE Settings!Answered(w)
  <2> DEFINE a == settingsAnswers[w]
  <2>0. /\ Settings!NoLonger(w) /\ UNCHANGED <<settings, settingsKept, settingsStore, settingsPosts, settingsAsked>>
        /\ a.kind \in {"saved", "tested"} /\ a.record \in Settings!Stored
    BY <1>0, <1>f DEF Settings!Answered, Settings!TypeOK
  <2>1. a.record.rev \in Nat /\ Known(a.record)
    BY <1>0, <2>0, RecordFacts DEF AnswerFacts
  <2>2. AnswerFacts(w)' /\ settingsBusy'[w] = "none" /\ settingsWaits'[w] = 0
    BY <1>0, <1>z, <2>0 DEF Settings!NoLonger, Settings!Sets, Settings!TypeOK, AnswerFacts, Known
  <2>3. CASE settingsBusy[w] = "save"
    BY <1>0, <1>f, <2>0, <2>1, <2>2, <2>3, RecordFacts
       DEF Settings!Answered, Settings!Stays, Settings!Fills, Settings!Sets, Settings!TypeOK, WindowFacts, Known
  <2>4. CASE settingsBusy[w] = "archive"
    BY <1>0, <1>f, <2>0, <2>1, <2>2, <2>4
       DEF Settings!Answered, Settings!Sets, Settings!TypeOK, WindowFacts, Known
  <2>5. CASE settingsBusy[w] \notin {"save", "archive"}
    <3>1. a.kind = "tested" /\ settingsTest'[w] = a.record.rev
      BY <1>0, <1>f, <2>0, <2>5 DEF Settings!Answered, Settings!Sets, Settings!TypeOK, AnswerFacts
    <3> QED BY <1>0, <1>f, <2>0, <2>1, <2>2, <2>5, <3>1
       DEF Settings!Answered, Settings!TypeOK, WindowFacts, AnswerFacts, Known
  <2> QED BY <2>2, <2>3, <2>4, <2>5
<1>g. CASE Settings!Unanswered(w)
  BY <1>0, <1>z, <1>g DEF Settings!Unanswered, Settings!NoLonger, Settings!Sets, Settings!TypeOK,
     WindowFacts, AnswerFacts, Known
<1>h. CASE Settings!RunTest(w)
  <2>1. settingsList[w] # Nothing => settingsList[w].rev <= settings.rev
    <3>1. settingsList[w] # Nothing => settingsList[w].rev \in Nat
      BY <1>0, RecordFacts DEF Settings!TypeOK
    <3> QED BY <1>0, <3>1 DEF WindowFacts, Known, Settings!TypeOK
  <2> QED BY <1>0, <1>h, <2>1 DEF Settings!RunTest, Settings!Sets, Settings!window, Settings!page,
     Settings!TypeOK, WindowFacts, AnswerFacts, Known
<1> QED BY <1>1, <1>2, <1>3, <1>4, <1>5, <1>6, <1>7, <1>8, <1>9, <1>b, <1>d, <1>i, <1>e, <1>f,
   <1>g, <1>h

(* And what it leaves alone.                                               *)
LEMMA WindowAlone ==
  ASSUME SettingsBounds, SettingsInv, NEW w \in Windows, Settings!TypeOK',
         \/ Settings!Load(w) \/ Settings!Open(w, "view") \/ Settings!Open(w, "edit") \/ Settings!Add(w)
         \/ Settings!ToEdit(w) \/ Settings!Discard(w) \/ Settings!Close(w)
         \/ Settings!KeepEditing(w) \/ Settings!Dismiss(w)
         \/ \E c \in Contents : Settings!Edit(w, c)
         \/ Settings!Save(w) \/ Settings!Test(w) \/ Settings!Select(w) \/ Settings!Choose(w)
         \/ Settings!AskArchive(w) \/ Settings!Archive(w) \/ Settings!CancelArchive(w)
         \/ Settings!Answered(w) \/ Settings!Unanswered(w) \/ Settings!RunTest(w)
  PROVE  /\ UNCHANGED <<settings, settingsKept, settingsStore>>
         /\ settingsAsked' >= settingsAsked
         /\ \A v \in Windows : v # w =>
              /\ settingsList'[v] = settingsList[v] /\ settingsBase'[v] = settingsBase[v]
              /\ settingsArchiving'[v] = settingsArchiving[v] /\ settingsMode'[v] = settingsMode[v]
              /\ settingsTest'[v] = settingsTest[v] /\ settingsBusy'[v] = settingsBusy[v]
              /\ settingsWaits'[v] = settingsWaits[v] /\ settingsAnswers'[v] = settingsAnswers[v]
         /\ \/ settingsBusy'[w] = settingsBusy[w] /\ settingsWaits'[w] = settingsWaits[w]
            \/ settingsWaits'[w] = 0
            \/ settingsWaits'[w] = settingsAsked' /\ settingsAsked' > settingsAsked
         /\ \/ settingsPosts' = settingsPosts
            \/ \E s : /\ settingsPosts' = settingsPosts \cup {s} /\ s.by = w /\ s.id = settingsAsked' /\ Known(s.over)
                      /\ settingsBusy'[w] \in {"save", "archive"}
<1> USE DEF Settings!server
<1>0. Settings!TypeOK /\ MaxSaves \in Nat /\ WindowFacts(w) /\ settingsAsked \in Nat
  BY DEF SettingsInv, SettingsBounds, Settings!TypeOK
<1>1. CASE Settings!Load(w)
  BY <1>0, <1>1 DEF Settings!Load, Settings!Shuts, Settings!NoLonger, Settings!Sets,
     Settings!TypeOK
<1>2. CASE Settings!Open(w, "view") \/ Settings!Open(w, "edit")
  BY <1>0, <1>2 DEF Settings!Open, Settings!Fills, Settings!Sets, Settings!TypeOK
<1>3. CASE Settings!Add(w)
  BY <1>0, <1>3 DEF Settings!Add, Settings!Sets, Settings!TypeOK
<1>4. CASE Settings!ToEdit(w) \/ Settings!KeepEditing(w) \/ Settings!Dismiss(w)
  BY <1>0, <1>4 DEF Settings!ToEdit, Settings!KeepEditing, Settings!Dismiss, Settings!Shuts,
     Settings!Sets,
     Settings!TypeOK
<1>6. CASE Settings!Discard(w)
  BY <1>0, <1>6 DEF Settings!Discard, Settings!Fills, Settings!Shuts, Settings!Sets,
     Settings!TypeOK
<1>7. CASE Settings!Close(w)
  BY <1>0, <1>7 DEF Settings!Close, Settings!Shuts, Settings!Sets, Settings!TypeOK
<1>8. CASE \E c \in Contents : Settings!Edit(w, c)
  BY <1>0, <1>8 DEF Settings!Edit
<1>9. CASE Settings!Save(w)
  <2>1. settingsBusy'[w] = "save" /\ settingsWaits'[w] = settingsAsked' /\ settingsAsked' = settingsAsked + 1
    BY <1>0, <1>9 DEF Settings!Save, Settings!Asks, Settings!Sets, Settings!TypeOK
  <2>2. \E s : settingsPosts' = settingsPosts \cup {s} /\ s.by = w /\ s.id = settingsAsked' /\ s.over = settingsBase[w]
    <3> DEFINE s == [id |-> settingsAsked', by |-> w, over |-> settingsBase[w], fields |-> settingsForm[w]]
    <3>1. settingsPosts' = settingsPosts \cup {s}
      BY <1>9 DEF Settings!Save, Settings!Posts
    <3>2. s.by = w /\ s.id = settingsAsked' /\ s.over = settingsBase[w]
      OBVIOUS
    <3> HIDE DEF s
    <3> QED BY <3>1, <3>2
  <2>3. Known(settingsBase[w])
    BY <1>0 DEF WindowFacts
  <2> QED BY <1>0, <1>9, <2>1, <2>2, <2>3 DEF Settings!Save, Settings!Asks, Settings!Sets,
     Settings!TypeOK
<1>a. CASE Settings!Test(w) \/ Settings!Choose(w)
  BY <1>0, <1>a DEF Settings!Test, Settings!Choose, Settings!Asks, Settings!Sets, Settings!TypeOK
<1>b. CASE Settings!Select(w)
  BY <1>0, <1>b DEF Settings!Select, Settings!Sets, Settings!TypeOK
<1>d. CASE Settings!AskArchive(w) \/ Settings!CancelArchive(w)
  BY <1>0, <1>d DEF Settings!AskArchive, Settings!CancelArchive, Settings!Sets, Settings!TypeOK
<1>e. CASE Settings!Archive(w)
  <2>1. settingsBusy'[w] = "archive" /\ settingsWaits'[w] = settingsAsked' /\ settingsAsked' = settingsAsked + 1
    BY <1>0, <1>e DEF Settings!Archive, Settings!Asks, Settings!Sets, Settings!TypeOK
  <2>2. \E s : settingsPosts' = settingsPosts \cup {s} /\ s.by = w /\ s.id = settingsAsked' /\ s.over = settingsArchiving[w]
    <3> DEFINE s == [id |-> settingsAsked', by |-> w, over |-> settingsArchiving[w], fields |-> [Settings!Of(settingsArchiving[w]) EXCEPT !.archived = ~@]]
    <3>1. settingsPosts' = settingsPosts \cup {s}
      BY <1>e DEF Settings!Archive, Settings!Posts
    <3>2. s.by = w /\ s.id = settingsAsked' /\ s.over = settingsArchiving[w]
      OBVIOUS
    <3> HIDE DEF s
    <3> QED BY <3>1, <3>2
  <2>3. Known(settingsArchiving[w])
    BY <1>0, <1>e DEF WindowFacts, Settings!Archive
  <2> QED BY <1>0, <1>e, <2>1, <2>2, <2>3 DEF Settings!Archive, Settings!Asks, Settings!Sets,
     Settings!TypeOK
<1>f. CASE Settings!Answered(w)
  BY <1>0, <1>f DEF Settings!Answered, Settings!NoLonger, Settings!Stays, Settings!Fills,
     Settings!Sets,
     Settings!TypeOK
<1>g. CASE Settings!Unanswered(w)
  BY <1>0, <1>g DEF Settings!Unanswered, Settings!NoLonger, Settings!Sets, Settings!TypeOK
<1>h. CASE Settings!RunTest(w)
  BY <1>0, <1>h DEF Settings!RunTest, Settings!Sets, Settings!window, Settings!page,
     Settings!TypeOK
<1> QED BY <1>1, <1>2, <1>3, <1>4, <1>6, <1>7, <1>8, <1>9, <1>a, <1>b, <1>d, <1>e, <1>f, <1>g,
   <1>h

(* Every step of the page keeps the invariant.                             *)
LEMMA WindowStep ==
  ASSUME SettingsBounds, SettingsInv, NEW w \in Windows,
         \/ Settings!Load(w) \/ Settings!Open(w, "view") \/ Settings!Open(w, "edit") \/ Settings!Add(w)
         \/ Settings!ToEdit(w) \/ Settings!Discard(w) \/ Settings!Close(w)
         \/ Settings!KeepEditing(w) \/ Settings!Dismiss(w)
         \/ \E c \in Contents : Settings!Edit(w, c)
         \/ Settings!Save(w) \/ Settings!Test(w) \/ Settings!Select(w) \/ Settings!Choose(w)
         \/ Settings!AskArchive(w) \/ Settings!Archive(w) \/ Settings!CancelArchive(w)
         \/ Settings!Answered(w) \/ Settings!Unanswered(w) \/ Settings!RunTest(w)
  PROVE  SettingsInv'
<1>1. Settings!TypeOK'
  BY WindowTyped
<1>2. /\ UNCHANGED <<settings, settingsKept, settingsStore>>
      /\ settingsAsked' >= settingsAsked
      /\ \A v \in Windows : v # w =>
           /\ settingsList'[v] = settingsList[v] /\ settingsBase'[v] = settingsBase[v]
           /\ settingsArchiving'[v] = settingsArchiving[v] /\ settingsMode'[v] = settingsMode[v]
           /\ settingsTest'[v] = settingsTest[v] /\ settingsBusy'[v] = settingsBusy[v]
           /\ settingsWaits'[v] = settingsWaits[v] /\ settingsAnswers'[v] = settingsAnswers[v]
      /\ \/ settingsBusy'[w] = settingsBusy[w] /\ settingsWaits'[w] = settingsWaits[w]
         \/ settingsWaits'[w] = 0
         \/ settingsWaits'[w] = settingsAsked' /\ settingsAsked' > settingsAsked
      /\ \/ settingsPosts' = settingsPosts
         \/ \E s : /\ settingsPosts' = settingsPosts \cup {s} /\ s.by = w /\ s.id = settingsAsked' /\ Known(s.over)
                   /\ settingsBusy'[w] \in {"save", "archive"}
  BY <1>1, WindowAlone
<1>3. settingsAsked \in Nat /\ settingsAsked' \in Nat /\ \A v \in Windows : settingsWaits[v] \in Nat
  BY <1>1 DEF SettingsInv, Settings!TypeOK, SettingsBounds
<1>4. \A v \in Windows : WindowFacts(v)' /\ AnswerFacts(v)'
  <2>1. WindowFacts(w)' /\ AnswerFacts(w)'
    BY <1>1, WindowKeeps
  <2>2. ASSUME NEW v \in Windows, v # w
        PROVE  WindowFacts(v)' /\ AnswerFacts(v)'
    <3>1. WindowFacts(v) /\ AnswerFacts(v)
      BY DEF SettingsInv
    <3> QED BY <1>2, <1>3, <2>2, <3>1 DEF WindowFacts, AnswerFacts, Known
  <2> QED BY <2>1, <2>2
<1>5. ASSUME NEW s \in Settings!Saves, SaveFacts(s)
      PROVE  SaveFacts(s)'
  <2>1. s.id \in Nat /\ s.id > 0 /\ s.by \in Windows
    BY RecordFacts DEF SettingsBounds
  <2>2. CASE s.by # w
    BY <1>2, <1>3, <1>5, <2>1, <2>2 DEF SaveFacts, Known
  <2>3. CASE s.by = w
    BY <1>2, <1>3, <1>5, <2>1, <2>3 DEF SaveFacts, Known
  <2> QED BY <2>2, <2>3
<1>6. \A s \in settingsPosts' : SaveFacts(s)'
  <2>1. \A s \in settingsPosts : SaveFacts(s)'
    BY <1>5 DEF SettingsInv, Settings!TypeOK
  <2>2. ASSUME NEW s, s.by = w, s.id = settingsAsked', Known(s.over), settingsBusy'[w] \in {"save", "archive"}
        PROVE  SaveFacts(s)'
    BY <1>2, <1>3, <2>2 DEF SaveFacts, Known
  <2> QED BY <1>2, <2>1, <2>2
<1>7. StoreFacts'
  <2>1. CASE settingsStore.step \in {"checked", "kept", "added"}
    <3>1. settingsStore.save \in Settings!Saves
      BY <2>1 DEF SettingsInv, Settings!TypeOK, Settings!Resting
    <3>2. SaveFacts(settingsStore.save) /\ StoreFacts
      BY <2>1 DEF SettingsInv, StoreFacts
    <3>3. SaveFacts(settingsStore.save)'
      BY <1>2, <1>5, <3>1, <3>2
    <3> QED BY <1>2, <3>2, <3>3 DEF StoreFacts, Settings!New
  <2>2. CASE settingsStore.step \notin {"checked", "kept", "added"}
    BY <1>2, <2>2 DEF SettingsInv, StoreFacts
  <2> QED BY <2>1, <2>2
<1> QED BY <1>1, <1>4, <1>6, <1>7 DEF SettingsInv

(* So does every step of the store.                                        *)
LEMMA StoreStep ==
  ASSUME SettingsBounds, SettingsInv,
         \/ \E s \in settingsPosts : Settings!Check(s)
         \/ Settings!KeepOld \/ Settings!KeepNew \/ Settings!Replace \/ Settings!Fail
  PROVE  SettingsInv'
<1> USE DEF Settings!window, Settings!page
<1>1. Settings!TypeOK' /\ Settings!TypeOK /\ StoreFacts
  BY StoreTyped DEF SettingsInv
<1>2. /\ UNCHANGED <<settingsList, settingsForm, settingsBase, settingsMode, settingsTest, settingsArchiving,
                    settingsBusy, settingsWaits, settingsAsked>>
      /\ settingsPosts' \subseteq settingsPosts
  BY DEF Settings!Check, Settings!KeepOld, Settings!KeepNew, Settings!Replace, Settings!Fail
<1>3. settings' = settings \/ settings.rev < settings'.rev
  <2>1. CASE Settings!Replace
    BY <2>1, <1>1, RecordFacts DEF Settings!Replace, Settings!New, Settings!TypeOK
  <2> QED BY <2>1 DEF Settings!Check, Settings!KeepOld, Settings!KeepNew, Settings!Fail
<1>4. ASSUME NEW r \in Settings!Stored, Known(r)
      PROVE  Known(r)'
  <2>1. r.rev \in Nat /\ settings.rev \in Nat /\ settings'.rev \in Nat
    BY <1>1, RecordFacts DEF Settings!TypeOK
  <2> QED BY <1>3, <1>4, <2>1 DEF Known
<1>5. \A v \in Windows : WindowFacts(v)'
  <2> TAKE v \in Windows
  <2>1. WindowFacts(v) /\ settingsBase[v] \in Settings!Stored /\ settingsList[v] \in Settings!Stored \cup {Nothing}
        /\ (settingsArchiving[v] # Nothing => settingsArchiving[v] \in Settings!Stored)
    BY <1>1 DEF SettingsInv, Settings!TypeOK
  <2> QED BY <1>2, <1>4, <2>1 DEF WindowFacts
<1>6. \A s \in Settings!Saves : SaveFacts(s) => SaveFacts(s)'
  BY <1>2, <1>4, RecordFacts DEF SaveFacts
<1>7. \A s \in settingsPosts' : SaveFacts(s)'
  BY <1>1, <1>2, <1>6 DEF SettingsInv, Settings!TypeOK
<1>8. ASSUME NEW v \in Windows
      PROVE  AnswerFacts(v)'
  <2>0. AnswerFacts(v) /\ settingsAnswers[v].record \in Settings!Stored
    BY <1>1 DEF SettingsInv, Settings!TypeOK
  <2>1. CASE settingsAnswers'[v] = settingsAnswers[v]
    BY <1>2, <1>4, <2>0, <2>1 DEF AnswerFacts
  <2>2. CASE settingsAnswers'[v].kind = "refused" /\ settingsAnswers'[v].record = Settings!Absent
    <3>1. Known(Settings!Absent)'
      BY <1>1, RecordFacts DEF Known, Settings!TypeOK
    <3> QED BY <2>2, <3>1 DEF AnswerFacts
  <2>3. CASE /\ Settings!Replace /\ settingsAnswers'[v] = [kind |-> "saved", record |-> settings']
             /\ settingsStore.save.by = v /\ settingsWaits[v] = settingsStore.save.id
    <3>1. SaveFacts(settingsStore.save)
      BY <1>1, <2>3 DEF StoreFacts, Settings!Replace
    <3>2. settings' \in Settings!Records
      BY <1>1, <1>3, <2>3, RecordFacts DEF Settings!Replace, Settings!New, Settings!TypeOK
    <3> QED BY <1>2, <2>3, <3>1, <3>2 DEF AnswerFacts, SaveFacts, Known
  <2> QED
    BY <1>1, <2>1, <2>2, <2>3 DEF Settings!Check, Settings!KeepOld, Settings!KeepNew,
       Settings!Replace, Settings!Fail,
       Settings!Says, Settings!Sets, Settings!TypeOK
<1>9. StoreFacts'
  <2>1. ASSUME settingsStore.step \in {"checked", "kept", "added"}
        PROVE  \E s \in Settings!Saves : settingsStore.save = s /\ SaveFacts(s) /\ SaveFacts(s)'
    <3>1. settingsStore.save \in Settings!Saves
      BY <1>1, <2>1 DEF Settings!TypeOK, Settings!Resting
    <3>2. SaveFacts(settingsStore.save)
      BY <1>1, <2>1 DEF StoreFacts
    <3> QED BY <1>6, <3>1, <3>2
  <2>2. CASE UNCHANGED <<settings, settingsKept, settingsStore>>
    BY <1>1, <2>1, <2>2 DEF StoreFacts, Settings!New
  <2>3. CASE \E s \in settingsPosts : Settings!Check(s)
    <3> PICK s \in settingsPosts : Settings!Check(s)
      BY <2>3
    <3>1. s \in Settings!Saves /\ SaveFacts(s) /\ SaveFacts(s)' /\ Known(s.over) /\ UNCHANGED <<settings, settingsKept>>
      BY <1>1, <1>6 DEF SettingsInv, Settings!TypeOK, SaveFacts, Settings!Check
    <3>2. settings.rev \in Nat /\ s.over.rev \in Nat /\ MaxRevisions \in Nat
      BY <1>1, <3>1, RecordFacts DEF Settings!TypeOK, SettingsBounds
    <3>4. CASE /\ s.over.rev = settings.rev /\ settings.rev < MaxRevisions
               /\ settingsStore' = [step |-> "checked", save |-> s]
      BY <3>1, <3>2, <3>4 DEF StoreFacts, Known
    <3> QED BY <2>2, <3>1, <3>4 DEF Settings!Check
  <2>5. CASE Settings!KeepOld \/ Settings!KeepNew
    <3>0. settingsStore.step \in {"checked", "kept"} /\ UNCHANGED settings
      BY <2>5 DEF Settings!KeepOld, Settings!KeepNew
    <3>1. PICK s \in Settings!Saves : settingsStore.save = s /\ SaveFacts(s) /\ SaveFacts(s)'
      BY <2>1, <3>0
    <3>2. settingsStore'.save = s /\ settingsStore'.step = IF settingsStore.step = "checked" THEN "kept" ELSE "added"
      <4>1. settingsStore \in [step : {"checked", "kept", "added"}, save : Settings!Saves]
        BY <1>1, <3>0 DEF Settings!TypeOK, Settings!Resting
      <4> QED BY <2>5, <3>1, <4>1 DEF Settings!KeepOld, Settings!KeepNew
    <3>3. CASE settingsStore.step = "checked"
      BY <1>1, <2>5, <3>0, <3>1, <3>2, <3>3 DEF StoreFacts, Settings!KeepOld, Settings!KeepNew
    <3>4. CASE settingsStore.step = "kept"
      BY <1>1, <2>5, <3>0, <3>1, <3>2, <3>4 DEF StoreFacts, Settings!KeepOld, Settings!KeepNew,
         Settings!New
    <3> QED BY <3>0, <3>3, <3>4
  <2>4. CASE Settings!Replace \/ Settings!Fail
    BY <2>4 DEF Settings!Replace, Settings!Fail, Settings!Resting, StoreFacts
  <2> QED BY <2>3, <2>4, <2>5
<1> QED BY <1>1, <1>5, <1>7, <1>8, <1>9 DEF SettingsInv

(* Every step keeps the invariant.                                         *)
LEMMA SettingsStep ==
  ASSUME SettingsBounds, SettingsInv, Settings!Next
  PROVE  SettingsInv'
BY WindowStep, StoreStep DEF Settings!Next

(* Which is: the test shown is of no earlier record.                       *)
LEMMA SettingsSafe ==
  ASSUME SettingsBounds, SettingsInv
  PROVE  Settings!TestIsNoOlder
BY DEF SettingsInv, WindowFacts, Settings!TestIsNoOlder, Settings!TestShown

(* What takes effect replaces what was shown, and both are kept.           *)
LEMMA SettingsActions ==
  ASSUME SettingsBounds, SettingsInv, Settings!Next
  PROVE  Settings!PastIsKept /\ Settings!ReplacesWhatWasShown
<1>1. CASE UNCHANGED <<settings, settingsKept>>
  BY <1>1 DEF Settings!PastIsKept, Settings!ReplacesWhatWasShown
<1>2. CASE Settings!KeepOld \/ Settings!KeepNew
  BY <1>2 DEF Settings!KeepOld, Settings!KeepNew, Settings!PastIsKept,
     Settings!ReplacesWhatWasShown
<1>3. CASE Settings!Replace
  <2>1. /\ settingsStore.save.over = settings /\ settings' \in settingsKept /\ UNCHANGED settingsKept
        /\ (settings = Settings!Absent \/ settings \in settingsKept)
    BY <1>3 DEF SettingsInv, StoreFacts, Settings!Replace
  <2> QED BY <2>1 DEF Settings!PastIsKept, Settings!ReplacesWhatWasShown
<1>4. CASE Settings!Fail \/ \E s \in settingsPosts : Settings!Check(s)
  BY <1>1, <1>4 DEF Settings!Fail, Settings!Check
<1>5. ASSUME NEW w \in Windows,
             \/ Settings!Load(w) \/ Settings!Open(w, "view") \/ Settings!Open(w, "edit") \/ Settings!Add(w)
             \/ Settings!ToEdit(w) \/ Settings!Discard(w) \/ Settings!Close(w)
             \/ Settings!KeepEditing(w) \/ Settings!Dismiss(w)
             \/ \E c \in Contents : Settings!Edit(w, c)
             \/ Settings!Save(w) \/ Settings!Test(w) \/ Settings!Select(w) \/ Settings!Choose(w)
             \/ Settings!AskArchive(w) \/ Settings!Archive(w) \/ Settings!CancelArchive(w)
             \/ Settings!Answered(w) \/ Settings!Unanswered(w) \/ Settings!RunTest(w)
      PROVE  Settings!PastIsKept /\ Settings!ReplacesWhatWasShown
  <2>1. UNCHANGED <<settings, settingsKept>>
    BY <1>5, WindowTyped, WindowAlone
  <2> QED BY <1>1, <2>1
<1> QED BY <1>2, <1>3, <1>4, <1>5 DEF Settings!Next

(* Nothing is lost where nothing moves.                                    *)
LEMMA SettingsStill ==
  ASSUME SettingsInv, UNCHANGED Settings!vars
  PROVE  SettingsInv' /\ Settings!PastIsKept /\ Settings!ReplacesWhatWasShown
<1>1. /\ UNCHANGED <<settings, settingsKept, settingsStore, settingsList, settingsForm, settingsBase>>
      /\ UNCHANGED <<settingsMode, settingsBusy, settingsWaits, settingsTest, settingsArchiving>>
      /\ UNCHANGED <<settingsPosts, settingsAnswers, settingsAsked>>
  BY DEF Settings!vars, Settings!server, Settings!window, Settings!page
<1>2. Settings!TypeOK'
  BY <1>1 DEF SettingsInv, Settings!TypeOK
<1>3. \A w \in Windows : WindowFacts(w)' /\ AnswerFacts(w)'
  BY <1>1 DEF SettingsInv, WindowFacts, AnswerFacts, Known
<1>4. \A s : SaveFacts(s) => SaveFacts(s)'
  BY <1>1 DEF SaveFacts, Known
<1>5. StoreFacts'
  <2>1. \A s : Settings!New(s)' = Settings!New(s)
    BY <1>1 DEF Settings!New
  <2>2. StoreFacts
    BY DEF SettingsInv
  <2> QED BY <1>1, <1>4, <2>1, <2>2 DEF StoreFacts
<1>6. \A s \in settingsPosts' : SaveFacts(s)'
  BY <1>1, <1>4 DEF SettingsInv
<1> QED BY <1>1, <1>2, <1>3, <1>5, <1>6 DEF SettingsInv, Settings!PastIsKept,
   Settings!ReplacesWhatWasShown

(* Every step, and none, keeps the invariant; what takes effect replaces   *)
(* what was shown, and both are kept.                                      *)
LEMMA SettingsMove ==
  ASSUME SettingsBounds, SettingsInv, [Settings!Next]_(Settings!vars)
  PROVE  SettingsInv' /\ Settings!PastIsKept /\ Settings!ReplacesWhatWasShown
BY SettingsStep, SettingsActions, SettingsStill

--------------------------------------------------------------------------------
(* A computer that is connected by an account (SystemEnrollment).          *)

CONSTANTS EnrollUsers, EnrollLimit, MaxDevices, MaxWindows, MaxTries, MaxRevokes, MaxLapses
VARIABLES devices, config, consent, cut, running, remembered, form, step, enrollPhase, connecting,
  made, lost, windows, tries, revokes, lapses

Enrolling == INSTANCE SystemEnrollment WITH
  pending <- connecting, phase <- enrollPhase, Users <- EnrollUsers, DeviceLimit <- EnrollLimit

EnrollingBounds == Enrolling!Nobody \notin EnrollUsers /\ MaxDevices \in Nat

DeviceRow == [user : EnrollUsers \cup {Enrolling!Nobody}, seen : BOOLEAN, policy : BOOLEAN,
              status : {"none", "active", "revoked"}]
Holder    == [user : EnrollUsers \cup {Enrolling!Nobody}, device : 0 .. MaxDevices]
Try       == [user : EnrollUsers \cup {Enrolling!Nobody}, device : 0 .. MaxDevices, resume : BOOLEAN]

EnrollTypes ==
  /\ devices \in [Enrolling!Devices -> DeviceRow]
  /\ config \in [Enrolling!Devices -> Enrolling!Forms] /\ consent \in [Enrolling!Devices -> BOOLEAN]
  /\ remembered \in Holder /\ form \in Enrolling!Forms /\ connecting \in Try
  /\ step \in Enrolling!Steps

Waits == connecting = Enrolling!NotYet
Owns(d, u) == d \in Enrolling!Devices /\ devices[d].status # "none" /\ devices[d].user = u /\ u \in EnrollUsers
Settled(d) == d \in cut \/ consent[d] = config[d].activity

(* A window registers at most one device it had the answer of, and none    *)
(* while it has one at hand.                                               *)
MadeFacts ==
  /\ Waits /\ enrollPhase # "connected" => made \subseteq lost
  /\ \E d : made \ lost \subseteq {d}
  /\ step \in {"look", "pair"} => Waits
  /\ step # "idle" => enrollPhase = "busy"
  /\ step # "idle" \/ enrollPhase = "connected" => form.user \in EnrollUsers

(* The device at hand is the account's, and is as far as the step says.    *)
TryFacts ==
  /\ ~Waits => Owns(connecting.device, connecting.user)
  /\ ~Waits /\ connecting.resume =>
       remembered.device = connecting.device /\ remembered.user = connecting.user
  /\ ~Waits /\ ~connecting.resume => (consent[connecting.device] => config[connecting.device].activity)
  /\ step \notin {"idle", "look", "pair"} => ~Waits /\ connecting.user = form.user
  /\ step \notin {"idle", "look", "pair", "install"} => config[connecting.device] = form
  /\ step \in {"start", "remember", "policy", "wait"} =>
       connecting.device \in cut \/ consent[connecting.device] = form.activity
  /\ step \in {"policy", "wait"} => remembered = [user |-> form.user, device |-> connecting.device]
  /\ step = "wait" /\ form.activity => devices[connecting.device].policy

(* So is the one that is remembered, unless it is being asked otherwise.   *)
HeldFacts ==
  /\ remembered.user # Enrolling!Nobody =>
       /\ Owns(remembered.device, remembered.user) /\ config[remembered.device].user = remembered.user
       /\ \/ Settled(remembered.device)
          \/ step = "consent" /\ ~Waits /\ connecting.resume /\ connecting.device = remembered.device
  /\ \A d \in Enrolling!Devices : devices[d].status = "none" => config[d] = Enrolling!NoForm /\ ~consent[d]

EnrollingInv == EnrollTypes /\ MadeFacts /\ TryFacts /\ HeldFacts /\ Enrolling!ConnectedAsAsked

(* What is not there is of the types of what is.                           *)
LEMMA EnrollConsts ==
  ASSUME EnrollingBounds
  PROVE  /\ Enrolling!NoDevice \in DeviceRow /\ Enrolling!NoDevice.status = "none"
         /\ Enrolling!NoForm \in Enrolling!Forms /\ Enrolling!NoForm.user \notin EnrollUsers /\ ~Enrolling!NoForm.activity
         /\ Enrolling!NotYet \in Try /\ Enrolling!NotYet.device = 0 /\ 0 \notin Enrolling!Devices
         /\ \A d \in Enrolling!Devices : d \in 0 .. MaxDevices
<1>1. 0 \in 0 .. MaxDevices /\ 0 \notin Enrolling!Devices /\ \A d \in Enrolling!Devices : d \in 0 .. MaxDevices
  BY DEF EnrollingBounds, Enrolling!Devices
<1>2. Enrolling!NoDevice \in DeviceRow /\ Enrolling!NoDevice.status = "none"
  BY DEF Enrolling!NoDevice, DeviceRow
<1>3. Enrolling!NoForm \in Enrolling!Forms /\ Enrolling!NoForm.user \notin EnrollUsers /\ ~Enrolling!NoForm.activity
  BY DEF EnrollingBounds, Enrolling!NoForm, Enrolling!Forms
<1>4. Enrolling!NotYet \in Try /\ Enrolling!NotYet.device = 0
  BY <1>1 DEF Enrolling!NotYet, Try
<1> QED BY <1>1, <1>2, <1>3, <1>4

(* The invariant holds to begin with.                                      *)
LEMMA EnrollingStart == ASSUME EnrollingBounds, Enrolling!Init PROVE EnrollingInv
<1>0. /\ devices = [d \in Enrolling!Devices |-> Enrolling!NoDevice]
      /\ config = [d \in Enrolling!Devices |-> Enrolling!NoForm] /\ consent = [d \in Enrolling!Devices |-> FALSE]
      /\ remembered = [user |-> Enrolling!Nobody, device |-> 0] /\ form = Enrolling!NoForm /\ step = "idle"
      /\ enrollPhase = "ready" /\ connecting = Enrolling!NotYet /\ made = {} /\ lost = {}
  BY DEF Enrolling!Init
<1>1. EnrollTypes
  <2>1. remembered \in Holder
    <3>1. 0 \in 0 .. MaxDevices
      BY DEF EnrollingBounds
    <3> QED BY <1>0, <3>1 DEF Holder
  <2>2. "idle" \in Enrolling!Steps
    BY DEF Enrolling!Steps
  <2> QED BY <1>0, <2>1, <2>2, EnrollConsts DEF EnrollTypes
<1>2. MadeFacts /\ TryFacts /\ Enrolling!ConnectedAsAsked
  BY <1>0 DEF MadeFacts, TryFacts, Waits, Enrolling!ConnectedAsAsked
<1>3. HeldFacts
  BY <1>0, EnrollConsts DEF HeldFacts
<1> QED BY <1>1, <1>2, <1>3 DEF EnrollingInv

(* A try that ends where it is, with its files as they are.                *)
LEMMA FailsSafely ==
  ASSUME EnrollingBounds, EnrollingInv, Enrolling!Fails, step # "consent",
         UNCHANGED <<devices, config, consent, remembered, made, lost>>,
         cut \subseteq cut', form' \in Enrolling!Forms, enrollPhase # "connected"
  PROVE  EnrollingInv'
<1>0. step' = "idle" /\ enrollPhase' = "failed" /\ UNCHANGED connecting /\ "idle" \in Enrolling!Steps
  BY DEF Enrolling!Fails, Enrolling!Steps
<1>1. EnrollTypes'
  BY <1>0 DEF EnrollTypes, EnrollingInv
<1>2. MadeFacts'
  BY <1>0 DEF EnrollingInv, MadeFacts, Waits
<1>3. TryFacts'
  BY <1>0 DEF EnrollingInv, TryFacts, Waits, Owns
<1>4. HeldFacts'
  BY <1>0 DEF EnrollingInv, HeldFacts, Waits, Owns, Settled
<1>5. Enrolling!ConnectedAsAsked'
  BY <1>0 DEF Enrolling!ConnectedAsAsked
<1> QED BY <1>1, <1>2, <1>3, <1>4, <1>5 DEF EnrollingInv

(* The user connects: a try begins as a new one, or over the remembered    *)
(* one.                                                                    *)
LEMMA EnrollConnect ==
  ASSUME EnrollingBounds, EnrollingInv, NEW f \in [user : EnrollUsers, activity : BOOLEAN], Enrolling!Connect(f)
  PROVE  EnrollingInv'
<1>0. /\ step = "idle" /\ enrollPhase # "connected" /\ form' = f
      /\ UNCHANGED <<devices, config, consent, cut, running, remembered, made, lost>>
      /\ f \in Enrolling!Forms /\ f.user \in EnrollUsers
  BY DEF Enrolling!Connect, Enrolling!computer, Enrolling!Forms
<1>1. CASE Enrolling!Fails
  BY <1>0, <1>1, FailsSafely
<1>2. CASE /\ Waits \/ connecting.user = f.user
           /\ enrollPhase' = "busy" /\ UNCHANGED connecting
           /\ step' = IF Waits THEN "look" ELSE "install"
  <2>1. EnrollTypes'
    BY <1>0, <1>2 DEF EnrollingInv, EnrollTypes, Enrolling!Steps
  <2>2. MadeFacts'
    BY <1>0, <1>2 DEF EnrollingInv, MadeFacts, Waits
  <2>3. TryFacts'
    BY <1>0, <1>2 DEF EnrollingInv, TryFacts, Waits, Owns
  <2>4. HeldFacts'
    BY <1>0, <1>2 DEF EnrollingInv, HeldFacts, Waits, Owns, Settled
  <2>5. Enrolling!ConnectedAsAsked'
    BY <1>2 DEF Enrolling!ConnectedAsAsked
  <2> QED BY <2>1, <2>2, <2>3, <2>4, <2>5 DEF EnrollingInv
<1> QED BY <1>1, <1>2 DEF Enrolling!Connect, Waits

(* The window looks at what the account has already.                       *)
LEMMA EnrollLook ==
  ASSUME EnrollingBounds, EnrollingInv, Enrolling!Look
  PROVE  EnrollingInv'
<1>0. /\ step = "look" /\ UNCHANGED <<devices, config, consent, cut, remembered, form, made, lost>>
      /\ Waits /\ enrollPhase = "busy" /\ form.user \in EnrollUsers /\ made \subseteq lost
  BY DEF Enrolling!Look, Enrolling!computer, EnrollingInv, MadeFacts
<1>t. EnrollTypes
  BY DEF EnrollingInv
<1>1. CASE Enrolling!Fails
  BY <1>0, <1>t, <1>1, FailsSafely DEF EnrollTypes
<1>2. CASE UNCHANGED enrollPhase /\ step' = "pair" /\ UNCHANGED connecting
  <2>1. EnrollTypes'
    BY <1>0, <1>2, <1>t DEF EnrollTypes, Enrolling!Steps
  <2>2. MadeFacts'
    BY <1>0, <1>2 DEF EnrollingInv, MadeFacts, Waits
  <2>3. TryFacts'
    BY <1>0, <1>2 DEF EnrollingInv, TryFacts, Waits, Owns
  <2>4. HeldFacts'
    BY <1>0, <1>2 DEF EnrollingInv, HeldFacts, Waits, Owns, Settled
  <2>5. Enrolling!ConnectedAsAsked'
    BY <1>0, <1>2 DEF Enrolling!ConnectedAsAsked
  <2> QED BY <2>1, <2>2, <2>3, <2>4, <2>5 DEF EnrollingInv
<1>3. CASE /\ UNCHANGED enrollPhase /\ step' = "install"
           /\ remembered.user = form.user /\ devices[remembered.device].status = "active"
           /\ connecting' = [user |-> form.user, device |-> remembered.device, resume |-> TRUE]
  <2>0. remembered.user # Enrolling!Nobody /\ Owns(remembered.device, remembered.user)
    BY <1>0, <1>3 DEF EnrollingBounds, EnrollingInv, HeldFacts
  <2>1. /\ connecting' \in Try /\ connecting'.user = form.user /\ connecting'.device = remembered.device /\ connecting'.resume
        /\ connecting' # Enrolling!NotYet
    BY <1>0, <1>3, <1>t, <2>0 DEF EnrollTypes, Try, Holder, Enrolling!NotYet
  <2>2. EnrollTypes'
    BY <1>0, <1>3, <1>t, <2>1 DEF EnrollTypes, Enrolling!Steps
  <2>3. MadeFacts'
    BY <1>0, <1>3, <2>1 DEF EnrollingInv, MadeFacts, Waits
  <2>4. TryFacts'
    BY <1>0, <1>3, <2>0, <2>1 DEF TryFacts, Waits, Owns
  <2>5. HeldFacts'
    BY <1>0, <1>3 DEF EnrollingInv, HeldFacts, Waits, Owns, Settled
  <2>6. Enrolling!ConnectedAsAsked'
    BY <1>0, <1>3 DEF Enrolling!ConnectedAsAsked
  <2> QED BY <2>2, <2>3, <2>4, <2>5, <2>6 DEF EnrollingInv
<1> QED BY <1>1, <1>2, <1>3 DEF Enrolling!Look

(* The window registers a device, of which the answer may be lost.         *)
LEMMA EnrollPair ==
  ASSUME EnrollingBounds, EnrollingInv, Enrolling!Pair
  PROVE  EnrollingInv'
<1>0. /\ step = "pair" /\ UNCHANGED <<config, consent, cut, running, remembered, form>>
      /\ Waits /\ enrollPhase = "busy" /\ form.user \in EnrollUsers /\ made \subseteq lost
  BY DEF Enrolling!Pair, Enrolling!computer, EnrollingInv, MadeFacts
<1>t. EnrollTypes
  BY DEF EnrollingInv
<1>1. CASE Enrolling!Fails /\ UNCHANGED <<devices, made, lost>>
  BY <1>0, <1>t, <1>1, FailsSafely DEF EnrollTypes
<1>2. ASSUME NEW d \in Enrolling!Devices, devices[d].status = "none",
             devices' = [devices EXCEPT ![d] = [Enrolling!NoDevice EXCEPT !.user = form.user, !.status = "active"]],
             made' = made \cup {d},
             \/ lost' = lost \cup {d} /\ Enrolling!Fails
             \/ /\ connecting' = [user |-> form.user, device |-> d, resume |-> FALSE]
                /\ step' = "install" /\ UNCHANGED <<enrollPhase, lost>>
      PROVE  EnrollingInv'
  <2>1. /\ devices' \in [Enrolling!Devices -> DeviceRow] /\ devices'[d].user = form.user /\ devices'[d].status = "active"
        /\ \A e \in Enrolling!Devices : e # d => devices'[e] = devices[e]
    <3>1. Enrolling!NoDevice \in DeviceRow
      BY EnrollConsts
    <3>2. [Enrolling!NoDevice EXCEPT !.user = form.user, !.status = "active"] \in DeviceRow
      BY <3>1, <1>0 DEF DeviceRow
    <3>3. /\ [Enrolling!NoDevice EXCEPT !.user = form.user, !.status = "active"].user = form.user
          /\ [Enrolling!NoDevice EXCEPT !.user = form.user, !.status = "active"].status = "active"
      BY <3>1 DEF DeviceRow
    <3> QED BY <1>2, <1>t, <3>2, <3>3 DEF EnrollTypes
  <2>2. \A e, u : Owns(e, u) => e # d /\ Owns(e, u)'
    BY <1>2, <2>1 DEF Owns
  <2>3. config[d] = Enrolling!NoForm /\ ~consent[d]
    BY <1>2 DEF EnrollingInv, HeldFacts
  <2>4. \/ step' = "idle" /\ enrollPhase' = "failed" /\ connecting' = connecting /\ lost' = lost \cup {d}
        \/ /\ connecting' = [user |-> form.user, device |-> d, resume |-> FALSE]
           /\ step' = "install" /\ enrollPhase' = "busy" /\ lost' = lost
    BY <1>0, <1>2 DEF Enrolling!Fails
  <2>5. [user |-> form.user, device |-> d, resume |-> FALSE] \in Try /\ [user |-> form.user, device |-> d, resume |-> FALSE] # Enrolling!NotYet
    <3>1. d \in 0 .. MaxDevices /\ d # 0
      BY EnrollConsts
    <3> QED BY <3>1, <1>0, EnrollConsts DEF Try
  <2>6. EnrollTypes'
    BY <1>0, <1>t, <2>1, <2>4, <2>5 DEF EnrollTypes, Enrolling!Steps
  <2>7. MadeFacts'
    <3>1. made' \ lost' \subseteq {d}
      BY <1>0, <1>2, <2>4
    <3>2. Waits' /\ enrollPhase' # "connected" => made' \subseteq lost'
      BY <1>0, <1>2, <2>4, <2>5 DEF Waits
    <3> QED BY <3>1, <3>2, <1>0, <2>4 DEF MadeFacts
  <2>8. TryFacts'
    <3>1. Owns(d, form.user)'
      BY <2>1, <1>0 DEF Owns
    <3> QED BY <1>0, <2>3, <2>4, <2>5, <3>1 DEF TryFacts, Waits
  <2>9. HeldFacts'
    BY <1>0, <2>1, <2>2 DEF EnrollingInv, HeldFacts, Settled
  <2>10. Enrolling!ConnectedAsAsked'
    BY <2>4 DEF Enrolling!ConnectedAsAsked
  <2> QED BY <2>6, <2>7, <2>8, <2>9, <2>10 DEF EnrollingInv
<1> QED BY <1>1, <1>2 DEF Enrolling!Pair

(* What is known at a step on a device.                                    *)
LEMMA AtWork ==
  ASSUME EnrollingBounds, EnrollingInv, step \notin {"idle", "look", "pair"}
  PROVE  /\ ~Waits /\ enrollPhase = "busy" /\ Owns(connecting.device, form.user) /\ form.user \in EnrollUsers
         /\ connecting.user = form.user /\ connecting.device \in Enrolling!Devices /\ form \in Enrolling!Forms
         /\ form # Enrolling!NoForm
BY EnrollConsts DEF EnrollingInv, TryFacts, MadeFacts, Owns, EnrollTypes

(* The facts about what the window registered do not change meanwhile.     *)
LEMMA MadeStays ==
  ASSUME EnrollingBounds, EnrollingInv, step \notin {"idle", "look", "pair"},
         UNCHANGED <<made, lost, form, connecting>>,
         \/ Enrolling!Fails
         \/ enrollPhase' = enrollPhase /\ step' \notin {"look", "pair"}
  PROVE  MadeFacts'
BY AtWork DEF EnrollingInv, MadeFacts, Waits, Enrolling!Fails

(* The device at hand is installed as the form says.                       *)
LEMMA EnrollInstall ==
  ASSUME EnrollingBounds, EnrollingInv, Enrolling!Install
  PROVE  EnrollingInv'
<1> DEFINE d == connecting.device
<1>0. /\ step = "install" /\ ~connecting.resume /\ UNCHANGED <<devices, consent, cut, remembered, form, made, lost>>
  BY DEF Enrolling!Install
<1>t. EnrollTypes /\ ~Waits /\ enrollPhase = "busy" /\ Owns(d, form.user) /\ connecting.user = form.user /\ form # Enrolling!NoForm
  BY <1>0, AtWork DEF EnrollingInv
<1>1. CASE Enrolling!Fails /\ UNCHANGED config
  BY <1>0, <1>t, <1>1, FailsSafely DEF EnrollTypes
<1>2. CASE /\ config[d] \in {Enrolling!NoForm, form} /\ config' = [config EXCEPT ![d] = form]
           /\ Enrolling!Goes("consent") \/ Enrolling!Fails
  <2>1. UNCHANGED connecting /\ step' \in {"consent", "idle"} /\ enrollPhase' \in {"busy", "failed"}
    BY <1>2, <1>t DEF Enrolling!Goes, Enrolling!Fails
  <2>2. d \in Enrolling!Devices /\ form \in Enrolling!Forms
    BY <1>t DEF Owns, EnrollTypes
  <2>3. config' \in [Enrolling!Devices -> Enrolling!Forms] /\ config'[d] = form /\ \A e \in Enrolling!Devices : e # d => config'[e] = config[e]
    BY <1>2, <1>t, <2>2 DEF EnrollTypes
  <2>4. consent[d] => form.activity
    BY <1>0, <1>t, <1>2, EnrollConsts DEF EnrollingInv, TryFacts
  <2>5. EnrollTypes'
    BY <1>0, <1>t, <2>1, <2>3 DEF EnrollTypes, Enrolling!Steps
  <2>6. MadeFacts'
    BY <1>0, <1>2, <2>1, MadeStays DEF Enrolling!Goes
  <2>7. TryFacts'
    BY <1>0, <1>t, <2>1, <2>3, <2>4 DEF EnrollingInv, TryFacts, Waits, Owns
  <2>8. HeldFacts'
    <3>1. remembered.user # Enrolling!Nobody /\ remembered.device = d => config[d] = form
      BY <1>2, EnrollConsts DEF EnrollingInv, HeldFacts, Owns
    <3>2. remembered.user # Enrolling!Nobody => config'[remembered.device] = config[remembered.device]
      BY <2>3, <3>1 DEF EnrollingInv, HeldFacts, Owns
    <3>3. \A e \in Enrolling!Devices : devices[e].status = "none" => e # d
      BY <1>t DEF Owns
    <3> QED BY <1>0, <2>1, <2>3, <3>2, <3>3 DEF EnrollingInv, HeldFacts, Waits, Owns, Settled
  <2>9. Enrolling!ConnectedAsAsked'
    BY <2>1 DEF Enrolling!ConnectedAsAsked
  <2> QED BY <2>5, <2>6, <2>7, <2>8, <2>9 DEF EnrollingInv
<1> QED BY <1>1, <1>2 DEF Enrolling!Install, Enrolling!Device

(* The user consents, or not, to what the form says of activity.           *)
LEMMA EnrollConsent ==
  ASSUME EnrollingBounds, EnrollingInv, Enrolling!Consent \/ Enrolling!ResumeConsent
  PROVE  EnrollingInv'
<1> DEFINE d == connecting.device
<1>0. /\ step = "consent" /\ UNCHANGED <<devices, config, running, remembered, form, made, lost>>
      /\ Enrolling!Goes("start") \/ Enrolling!Fails
      /\ cut' = cut \/ cut' = cut \ {d}
  BY DEF Enrolling!Consent, Enrolling!ResumeConsent, Enrolling!Device
<1>t. /\ EnrollTypes /\ ~Waits /\ enrollPhase = "busy" /\ Owns(d, form.user) /\ connecting.user = form.user
      /\ config[d] = form /\ d \in Enrolling!Devices /\ form.activity \in BOOLEAN
  BY <1>0, AtWork DEF EnrollingInv, TryFacts, Enrolling!Forms
<1>1. /\ consent' \in [Enrolling!Devices -> BOOLEAN] /\ consent'[d] = form.activity
      /\ \A e \in Enrolling!Devices : e # d => consent'[e] = consent[e]
  <2>1. CASE Enrolling!Consent
    <3>1. ~connecting.resume /\ consent' = [consent EXCEPT ![d] = consent[d] \/ form.activity]
      BY <2>1 DEF Enrolling!Consent, Enrolling!Device
    <3>2. consent[d] => form.activity
      BY <3>1, <1>t DEF EnrollingInv, TryFacts
    <3>3. (consent[d] \/ form.activity) = form.activity
      BY <3>2, <1>t DEF EnrollTypes
    <3> QED BY <3>1, <3>3, <1>t DEF EnrollTypes
  <2>2. CASE Enrolling!ResumeConsent
    BY <2>2, <1>t DEF Enrolling!ResumeConsent, Enrolling!Device, EnrollTypes
  <2> QED BY <2>1, <2>2
<1>2. UNCHANGED connecting /\ step' \in {"start", "idle"} /\ enrollPhase' \in {"busy", "failed"}
  BY <1>0, <1>t DEF Enrolling!Goes, Enrolling!Fails
<1>3. EnrollTypes'
  BY <1>0, <1>t, <1>1, <1>2 DEF EnrollTypes, Enrolling!Steps
<1>4. MadeFacts'
  BY <1>0, <1>2, MadeStays DEF Enrolling!Goes
<1>5. TryFacts'
  BY <1>0, <1>t, <1>1, <1>2 DEF EnrollingInv, TryFacts, Waits, Owns
<1>6. HeldFacts'
  <2>1. remembered.user # Enrolling!Nobody => Settled(remembered.device)'
    <3>1. CASE remembered.device = d
      BY <3>1, <1>0, <1>1, <1>t DEF Settled
    <3>2. CASE remembered.device # d
      BY <3>2, <1>0, <1>1 DEF EnrollingInv, HeldFacts, Owns, Settled
    <3> QED BY <3>1, <3>2
  <2>2. \A e \in Enrolling!Devices : devices[e].status = "none" => e # d
    BY <1>t DEF Owns
  <2> QED BY <1>0, <1>1, <2>1, <2>2 DEF EnrollingInv, HeldFacts, Owns
<1>7. Enrolling!ConnectedAsAsked'
  BY <1>2 DEF Enrolling!ConnectedAsAsked
<1> QED BY <1>3, <1>4, <1>5, <1>6, <1>7 DEF EnrollingInv

(* A computer that is remembered is tried again.                           *)
LEMMA EnrollResume ==
  ASSUME EnrollingBounds, EnrollingInv, Enrolling!Resume
  PROVE  EnrollingInv'
<1> DEFINE d == connecting.device
<1>0. /\ step = "install" /\ connecting.resume /\ UNCHANGED <<devices, consent, remembered, form, made, lost>>
  BY DEF Enrolling!Resume
<1>t. /\ EnrollTypes /\ ~Waits /\ enrollPhase = "busy" /\ Owns(d, form.user) /\ connecting.user = form.user
      /\ d \in Enrolling!Devices /\ form \in Enrolling!Forms /\ form.user \in EnrollUsers /\ form.user # Enrolling!Nobody
  BY <1>0, AtWork DEF EnrollingInv, EnrollingBounds
<1>r. remembered.device = d /\ remembered.user = form.user /\ Settled(d)
  BY <1>0, <1>t DEF EnrollingInv, TryFacts, HeldFacts
<1>1. CASE Enrolling!Fails /\ UNCHANGED <<config, cut>>
  BY <1>0, <1>t, <1>1, FailsSafely
<1>2. CASE /\ config[d].user = form.user /\ config[d].activity = form.activity
           /\ Enrolling!Goes("start") /\ UNCHANGED <<config, cut, running>>
  <2>0. step' = "start" /\ UNCHANGED <<connecting, enrollPhase>>
    BY <1>2 DEF Enrolling!Goes
  <2>1. config[d] = form
    BY <1>2, <1>t DEF EnrollTypes, Enrolling!Forms
  <2>2. EnrollTypes'
    BY <1>0, <1>t, <1>2, <2>0 DEF EnrollTypes, Enrolling!Steps
  <2>3. MadeFacts'
    BY <1>0, <2>0, MadeStays
  <2>4. TryFacts'
    BY <1>0, <1>t, <1>2, <1>r, <2>0, <2>1 DEF EnrollingInv, TryFacts, Waits, Owns, Settled
  <2>5. HeldFacts'
    BY <1>0, <1>2, <1>r, <2>0 DEF EnrollingInv, HeldFacts, Owns, Settled
  <2>6. Enrolling!ConnectedAsAsked'
    BY <2>0, <1>t DEF Enrolling!ConnectedAsAsked
  <2> QED BY <2>2, <2>3, <2>4, <2>5, <2>6 DEF EnrollingInv
<1>3. CASE /\ config' = [config EXCEPT ![d] = form]
           /\ \/ Enrolling!Goes("consent") /\ UNCHANGED cut
              \/ Enrolling!Fails /\ cut' = cut \cup {d}
  <2>0. /\ UNCHANGED connecting /\ enrollPhase' \in {"busy", "failed"}
        /\ \/ step' = "consent" /\ cut' = cut
           \/ step' = "idle" /\ cut' = cut \cup {d}
    BY <1>3, <1>t DEF Enrolling!Goes, Enrolling!Fails
  <2>1. config' \in [Enrolling!Devices -> Enrolling!Forms] /\ config'[d] = form /\ \A e \in Enrolling!Devices : e # d => config'[e] = config[e]
    BY <1>3, <1>t DEF EnrollTypes
  <2>2. EnrollTypes'
    BY <1>0, <1>t, <2>0, <2>1 DEF EnrollTypes, Enrolling!Steps
  <2>3. MadeFacts'
    BY <1>0, <1>3, <2>0, MadeStays DEF Enrolling!Goes
  <2>4. TryFacts'
    BY <1>0, <1>t, <1>r, <2>0, <2>1 DEF EnrollingInv, TryFacts, Waits, Owns
  <2>5. HeldFacts'
    <3>1. \A e \in Enrolling!Devices : devices[e].status = "none" => e # d
      BY <1>t DEF Owns
    <3> QED BY <1>0, <1>t, <1>r, <2>0, <2>1, <3>1 DEF EnrollingInv, HeldFacts, Owns, Settled,
       Waits
  <2>6. Enrolling!ConnectedAsAsked'
    BY <2>0 DEF Enrolling!ConnectedAsAsked
  <2> QED BY <2>2, <2>3, <2>4, <2>5, <2>6 DEF EnrollingInv
<1> QED BY <1>1, <1>2, <1>3 DEF Enrolling!Resume, Enrolling!Device

(* The connector is started, and the computer remembered.                  *)
LEMMA EnrollStarts ==
  ASSUME EnrollingBounds, EnrollingInv, Enrolling!Start \/ Enrolling!Remember
  PROVE  EnrollingInv'
<1> DEFINE d == connecting.device
<1>0. /\ step \in {"start", "remember"} /\ UNCHANGED <<devices, config, consent, cut, form, made, lost>>
  BY DEF Enrolling!Start, Enrolling!Remember
<1>t. /\ EnrollTypes /\ ~Waits /\ enrollPhase = "busy" /\ Owns(d, form.user) /\ connecting.user = form.user
      /\ d \in Enrolling!Devices /\ form \in Enrolling!Forms /\ form.user \in EnrollUsers /\ form.user # Enrolling!Nobody
      /\ config[d] = form /\ (d \in cut \/ consent[d] = form.activity)
  BY <1>0, AtWork DEF EnrollingInv, EnrollingBounds, TryFacts
<1>1. CASE UNCHANGED remembered /\ Enrolling!Fails
  BY <1>0, <1>t, <1>1, FailsSafely
<1>2. CASE UNCHANGED remembered /\ step = "start" /\ Enrolling!Goes("remember")
  <2>0. step' = "remember" /\ UNCHANGED <<connecting, enrollPhase>>
    BY <1>2 DEF Enrolling!Goes
  <2>1. EnrollTypes'
    BY <1>0, <1>2, <1>t, <2>0 DEF EnrollTypes, Enrolling!Steps
  <2>2. MadeFacts'
    BY <1>0, <2>0, MadeStays
  <2>3. TryFacts'
    BY <1>0, <1>2, <1>t, <2>0 DEF EnrollingInv, TryFacts, Waits, Owns
  <2>4. HeldFacts'
    BY <1>0, <1>2, <2>0 DEF EnrollingInv, HeldFacts, Owns, Settled
  <2>5. Enrolling!ConnectedAsAsked'
    BY <1>t, <2>0 DEF Enrolling!ConnectedAsAsked
  <2> QED BY <2>1, <2>2, <2>3, <2>4, <2>5 DEF EnrollingInv
<1>3. CASE /\ remembered' = [user |-> form.user, device |-> d]
           /\ Enrolling!Goes(IF form.activity THEN "policy" ELSE "wait")
  <2>1. /\ UNCHANGED <<connecting, enrollPhase>>
        /\ step' \in {"policy", "wait"} /\ (step' = "wait" => ~form.activity)
    BY <1>3 DEF Enrolling!Goes
  <2>2. remembered' \in Holder /\ remembered'.user = form.user /\ remembered'.device = d
    <3>1. d \in 0 .. MaxDevices
      BY <1>t, EnrollConsts
    <3> QED BY <1>3, <3>1, <1>t DEF Holder
  <2>3. EnrollTypes'
    BY <1>0, <1>t, <2>1, <2>2 DEF EnrollTypes, Enrolling!Steps
  <2>4. MadeFacts'
    BY <1>0, <2>1, MadeStays
  <2>5. TryFacts'
    BY <1>0, <1>3, <1>t, <2>1, <2>2 DEF EnrollingInv, TryFacts, Waits, Owns
  <2>6. HeldFacts'
    BY <1>0, <1>t, <2>1, <2>2 DEF EnrollingInv, HeldFacts, Owns, Settled
  <2>7. Enrolling!ConnectedAsAsked'
    BY <1>t, <2>1 DEF Enrolling!ConnectedAsAsked
  <2> QED BY <2>3, <2>4, <2>5, <2>6, <2>7 DEF EnrollingInv
<1> QED BY <1>1, <1>2, <1>3 DEF Enrolling!Start, Enrolling!Remember, Enrolling!Device

(* A device that is changed keeps whose it is, and its policy.             *)
LEMMA DeviceChanges ==
  ASSUME EnrollingBounds, EnrollingInv, NEW d \in Enrolling!Devices, NEW row \in DeviceRow,
         devices' = [devices EXCEPT ![d] = row],
         row.user = devices[d].user, row.status = "none" <=> devices[d].status = "none",
         devices[d].policy => row.policy,
         UNCHANGED <<config, consent, cut, remembered, form, connecting, made, lost>>,
         \/ UNCHANGED <<step, enrollPhase>>
         \/ step = "policy" /\ d = connecting.device /\ row.policy
            /\ (Enrolling!Goes("wait") \/ Enrolling!Fails)
  PROVE  EnrollingInv'
<1>0. /\ devices' \in [Enrolling!Devices -> DeviceRow]
      /\ \A e \in Enrolling!Devices :
           /\ devices'[e].user = devices[e].user /\ (devices'[e].status = "none" <=> devices[e].status = "none")
           /\ devices[e].policy => devices'[e].policy
      /\ devices'[d].policy = row.policy
  BY DEF EnrollingInv, EnrollTypes
<1>1. \A e, u : Owns(e, u)' <=> Owns(e, u)
  BY <1>0 DEF Owns
<1>2. \/ UNCHANGED <<step, enrollPhase>>
      \/ /\ step = "policy" /\ d = connecting.device /\ devices'[d].policy /\ enrollPhase = "busy"
         /\ \/ step' = "wait" /\ enrollPhase' = "busy"
            \/ step' = "idle" /\ enrollPhase' = "failed"
  BY <1>0 DEF Enrolling!Goes, Enrolling!Fails, EnrollingInv, MadeFacts
<1>3. EnrollTypes'
  BY <1>0, <1>2 DEF EnrollingInv, EnrollTypes, Enrolling!Steps
<1>4. MadeFacts'
  BY <1>2 DEF EnrollingInv, MadeFacts, Waits
<1>5. TryFacts'
  <2>1. form.activity /\ step' = "wait" => devices'[connecting.device].policy
    <3>1. step' = "wait" => connecting.device \in Enrolling!Devices
      BY <1>2 DEF EnrollingInv, TryFacts, Owns
    <3> QED BY <1>0, <1>2, <3>1 DEF EnrollingInv, TryFacts
  <2> QED BY <1>1, <1>2, <2>1 DEF EnrollingInv, TryFacts, Waits
<1>6. HeldFacts'
  BY <1>0, <1>1, <1>2 DEF EnrollingInv, HeldFacts, Waits, Settled
<1>7. Enrolling!ConnectedAsAsked'
  <2> SUFFICES ASSUME enrollPhase' = "connected"
               PROVE  /\ remembered.user = form.user /\ devices'[remembered.device].user = form.user
                      /\ config[remembered.device] = form
                      /\ form.activity => devices'[remembered.device].policy
                      /\ remembered.device \in cut \/ consent[remembered.device] = form.activity
    BY DEF Enrolling!ConnectedAsAsked
  <2>0. enrollPhase = "connected"
    BY <1>2
  <2>1. /\ remembered.user = form.user /\ devices[remembered.device].user = form.user
        /\ config[remembered.device] = form
        /\ form.activity => devices[remembered.device].policy
        /\ remembered.device \in cut \/ consent[remembered.device] = form.activity
    BY <2>0 DEF EnrollingInv, Enrolling!ConnectedAsAsked
  <2>2. remembered.device \in Enrolling!Devices
    BY <2>0, <2>1 DEF EnrollingInv, MadeFacts, HeldFacts, Owns, EnrollingBounds
  <2> QED BY <1>0, <2>1, <2>2
<1> QED BY <1>3, <1>4, <1>5, <1>6, <1>7 DEF EnrollingInv

(* The policy that waits for the device is seen.                           *)
LEMMA EnrollPolicy ==
  ASSUME EnrollingBounds, EnrollingInv, Enrolling!SeePolicy
  PROVE  EnrollingInv'
<1> DEFINE d == connecting.device
<1>0. step = "policy" /\ UNCHANGED <<config, consent, cut, running, remembered, form, made, lost>>
  BY DEF Enrolling!SeePolicy, Enrolling!computer
<1>t. EnrollTypes /\ enrollPhase = "busy" /\ d \in Enrolling!Devices
  BY <1>0, AtWork DEF EnrollingInv
<1>1. CASE Enrolling!Fails /\ UNCHANGED devices
  BY <1>0, <1>t, <1>1, FailsSafely DEF EnrollTypes
<1>2. CASE devices' = [devices EXCEPT ![d].policy = TRUE] /\ (Enrolling!Goes("wait") \/ Enrolling!Fails)
  <2> DEFINE row == [devices[d] EXCEPT !.policy = TRUE]
  <2>1. devices[d] \in DeviceRow
    BY <1>t DEF EnrollTypes
  <2>2. row \in DeviceRow /\ row.user = devices[d].user /\ row.status = devices[d].status /\ row.policy
    BY <2>1 DEF DeviceRow
  <2>3. devices' = [devices EXCEPT ![d] = row] /\ UNCHANGED connecting
    BY <1>2 DEF Enrolling!Goes, Enrolling!Fails
  <2> HIDE DEF row
  <2> QED BY <1>0, <1>t, <1>2, <2>2, <2>3, DeviceChanges
<1> QED BY <1>1, <1>2 DEF Enrolling!SeePolicy, Enrolling!Device

(* The first report of the device is awaited.                              *)
LEMMA EnrollAwait ==
  ASSUME EnrollingBounds, EnrollingInv, Enrolling!Await
  PROVE  EnrollingInv'
<1> DEFINE d == connecting.device
<1>0. step = "wait" /\ UNCHANGED <<devices, config, consent, cut, running, remembered, form, made, lost>>
  BY DEF Enrolling!Await, Enrolling!computer
<1>t. /\ EnrollTypes /\ ~Waits /\ enrollPhase = "busy" /\ Owns(d, form.user) /\ form.user \in EnrollUsers
      /\ form \in Enrolling!Forms
  BY <1>0, AtWork DEF EnrollingInv
<1>1. CASE Enrolling!Fails
  BY <1>0, <1>t, <1>1, FailsSafely
<1>2. CASE step' = "idle" /\ \/ enrollPhase' = "waiting" /\ UNCHANGED connecting
                             \/ enrollPhase' = "connected" /\ connecting' = Enrolling!NotYet
  <2>1. EnrollTypes'
    BY <1>0, <1>2, <1>t, EnrollConsts DEF EnrollTypes, Enrolling!Steps, Try
  <2>2. MadeFacts'
    BY <1>0, <1>2, <1>t DEF EnrollingInv, MadeFacts, Waits
  <2>3. TryFacts'
    BY <1>0, <1>2 DEF EnrollingInv, TryFacts, Waits, Owns
  <2>4. HeldFacts'
    BY <1>0, <1>2 DEF EnrollingInv, HeldFacts, Owns, Settled
  <2>5. Enrolling!ConnectedAsAsked'
    <3>1. /\ remembered.user = form.user /\ remembered.device = d /\ devices[d].user = form.user
          /\ config[d] = form /\ (form.activity => devices[d].policy)
          /\ d \in cut \/ consent[d] = form.activity
      BY <1>0, <1>t DEF EnrollingInv, TryFacts, Owns
    <3> QED BY <1>0, <3>1 DEF Enrolling!ConnectedAsAsked
  <2> QED BY <2>1, <2>2, <2>3, <2>4, <2>5 DEF EnrollingInv
<1> QED BY <1>1, <1>2 DEF Enrolling!Await

(* What happens beside the window: reports, revocations, a policy, a lapse.*)
LEMMA EnrollBeside ==
  ASSUME EnrollingBounds, EnrollingInv, NEW d \in Enrolling!Devices,
         Enrolling!Heartbeat(d) \/ Enrolling!Lapse(d) \/ Enrolling!Revoke(d)
  PROVE  EnrollingInv'
<1>0. /\ UNCHANGED <<config, consent, cut, running, remembered, form, step, enrollPhase, connecting, made, lost>>
  BY DEF Enrolling!Heartbeat, Enrolling!Lapse, Enrolling!Revoke, Enrolling!computer,
     Enrolling!shown
<1>1. devices[d] \in DeviceRow
  BY DEF EnrollingInv, EnrollTypes
<1>2. PICK row \in DeviceRow :
        /\ devices' = [devices EXCEPT ![d] = row] /\ row.user = devices[d].user /\ row.policy = devices[d].policy
        /\ row.status = "none" <=> devices[d].status = "none"
  <2>1. CASE Enrolling!Heartbeat(d)
    <3>1. [devices[d] EXCEPT !.seen = TRUE] \in DeviceRow
      BY <1>1 DEF DeviceRow
    <3> QED BY <1>1, <2>1, <3>1 DEF Enrolling!Heartbeat, DeviceRow
  <2>2. CASE Enrolling!Lapse(d)
    <3>1. [devices[d] EXCEPT !.seen = FALSE] \in DeviceRow
      BY <1>1 DEF DeviceRow
    <3> QED BY <1>1, <2>2, <3>1 DEF Enrolling!Lapse, DeviceRow
  <2>3. CASE Enrolling!Revoke(d)
    <3>1. [devices[d] EXCEPT !.status = "revoked", !.seen = FALSE] \in DeviceRow
      BY <1>1 DEF DeviceRow
    <3>2. devices' = [devices EXCEPT ![d] = [devices[d] EXCEPT !.status = "revoked", !.seen = FALSE]]
      BY <1>1, <2>3 DEF Enrolling!Revoke, EnrollingInv, EnrollTypes
    <3>3. devices[d].status = "active"
      BY <2>3 DEF Enrolling!Revoke
    <3> QED BY <1>1, <3>1, <3>2, <3>3 DEF DeviceRow
  <2> QED BY <2>1, <2>2, <2>3
<1> QED BY <1>0, <1>2, DeviceChanges

(* The window is opened again, and forgets what was at hand.               *)
LEMMA EnrollReopen ==
  ASSUME EnrollingBounds, EnrollingInv, Enrolling!Reopen
  PROVE  EnrollingInv'
<1>0. /\ UNCHANGED <<devices, config, consent, running, remembered>>
      /\ step' = "idle" /\ enrollPhase' = "ready" /\ connecting' = Enrolling!NotYet /\ form' = Enrolling!NoForm
      /\ made' = {} /\ lost' = {} /\ cut \subseteq cut'
      /\ step = "consent" => connecting.device \in cut'
  BY DEF Enrolling!Reopen, Enrolling!Device
<1>1. EnrollTypes'
  BY <1>0, EnrollConsts DEF EnrollingInv, EnrollTypes, Enrolling!Steps, Try
<1>2. MadeFacts' /\ TryFacts' /\ Enrolling!ConnectedAsAsked'
  BY <1>0 DEF MadeFacts, TryFacts, Waits, Enrolling!ConnectedAsAsked
<1>3. HeldFacts'
  BY <1>0 DEF EnrollingInv, HeldFacts, Owns, Settled
<1> QED BY <1>1, <1>2, <1>3 DEF EnrollingInv

(* Every step keeps the invariant.                                         *)
LEMMA EnrollingStep ==
  ASSUME EnrollingBounds, EnrollingInv, Enrolling!Next
  PROVE  EnrollingInv'
BY EnrollConnect, EnrollLook, EnrollPair, EnrollInstall, EnrollConsent, EnrollResume,
   EnrollStarts,
   EnrollPolicy, EnrollAwait, EnrollBeside, EnrollReopen DEF Enrolling!Next, Enrolling!Enrolls

(* So does no step.                                                        *)
LEMMA EnrollingStill ==
  ASSUME EnrollingInv, UNCHANGED Enrolling!vars
  PROVE  EnrollingInv'
<1>1. UNCHANGED <<devices, config, consent, cut, remembered, form, step, enrollPhase, connecting, made, lost>>
  BY DEF Enrolling!vars, Enrolling!computer, Enrolling!shown
<1>2. EnrollTypes' /\ MadeFacts'
  BY <1>1 DEF EnrollingInv, EnrollTypes, MadeFacts, Waits
<1>3. TryFacts'
  BY <1>1 DEF EnrollingInv, TryFacts, Waits, Owns
<1>4. HeldFacts'
  BY <1>1 DEF EnrollingInv, HeldFacts, Waits, Owns, Settled
<1>5. Enrolling!ConnectedAsAsked'
  BY <1>1 DEF EnrollingInv, Enrolling!ConnectedAsAsked
<1> QED BY <1>2, <1>3, <1>4, <1>5 DEF EnrollingInv

(* Which is: retries use the device there is, and what is shown as         *)
(* connected is as it was asked for.                                       *)
LEMMA EnrollingSafe ==
  ASSUME EnrollingInv
  PROVE  Enrolling!RetriesReuse /\ Enrolling!ConnectedAsAsked
<1>1. PICK d : made \ lost \subseteq {d}
  BY DEF EnrollingInv, MadeFacts
<1>2. IsFiniteSet({d}) /\ Cardinality({d}) = 1
  BY FS_Singleton
<1>3. Cardinality(made \ lost) <= 1
  BY <1>1, <1>2, FS_Subset
<1>4. Enrolling!Cardinality(made \ lost) = Cardinality(made \ lost)
  BY DEF Enrolling!Cardinality, Cardinality
<1> QED BY <1>3, <1>4 DEF EnrollingInv, Enrolling!RetriesReuse

(* Every step, and none, keeps the invariant.                              *)
LEMMA EnrollingMove ==
  ASSUME EnrollingBounds, EnrollingInv, [Enrolling!Next]_(Enrolling!vars)
  PROVE  EnrollingInv'
BY EnrollingStep, EnrollingStill

--------------------------------------------------------------------------------
(* The environment file of a service (EnvironmentVariables).               *)

CONSTANTS Keys, Values, Missing, Same, FirstText, FirstPlan, FirstShown, MaxEnvRequests, MaxCopies,
  MaxEnvEvents
VARIABLES envText, envPlanned, envClaimed, envReceipts, envRuntime, envBoot, envObserved, envJobs,
  envDocuments, envConnection, envDocument, envDraft, envPending, envFrozen, envSending,
  envUncertain, envSaved, envMessage, envRequests, envPosts, envAnswer, envReplaced, envEvents

Variables == INSTANCE EnvironmentVariables WITH
  text <- envText, planned <- envPlanned, claimed <- envClaimed, receipts <- envReceipts,
  runtime <- envRuntime, boot <- envBoot, observed <- envObserved, jobs <- envJobs,
  documents <- envDocuments, connection <- envConnection, document <- envDocument,
  draft <- envDraft, pending <- envPending, frozen <- envFrozen, sending <- envSending,
  uncertain <- envUncertain, savedNotice <- envSaved, message <- envMessage,
  requests <- envRequests, posts <- envPosts, answer <- envAnswer, replaced <- envReplaced,
  events <- envEvents, MaxRequests <- MaxEnvRequests, MaxEvents <- MaxEnvEvents

VariablesBounds == MaxEnvRequests \in Nat /\ MaxEnvEvents \in Nat

VariablesTypes ==
  /\ DOMAIN envRuntime = {"step", "job", "held", "result"}
  /\ DOMAIN envJobs = Variables!Ids /\ DOMAIN envReceipts = Variables!Ids
  /\ DOMAIN envRequests = Variables!Ids /\ DOMAIN envPosts = Variables!Ids
  /\ envEvents \in Nat

(* Requests are made one after another, the one that is waited for last;   *)
(* nothing is known of one that was not made.                              *)
Made(i) == i \in Variables!Ids /\ envRequests[i].op # "none"
MadeInOrder ==
  /\ \A i, j \in Variables!Ids : ~Made(i) /\ Made(j) => j < i
  /\ envPending # 0 => Made(envPending) /\ \A j \in Variables!Ids : Made(j) => j <= envPending
  /\ envFrozen \in {0, envPending}
  /\ \A i \in Variables!Ids :
       envPosts[i] > 0 \/ envJobs[i] # "none" \/ envReceipts[i].result # "none" => Made(i)
  /\ envRuntime.step # "idle" => Made(envRuntime.job)

(* A save that succeeded, wherever that is told, has replaced the file.    *)
Kept(i) == envRequests[i].op # "read" => i \in envReplaced
WorkFacts ==
  /\ \A i \in Variables!Ids :
       envJobs[i] = "succeeded" \/ envReceipts[i].result = "succeeded" => Kept(i)
  /\ envRuntime.step \in {"over", "done"} /\ envRuntime.result = "succeeded" => Kept(envRuntime.job)
  /\ envRuntime.step = "replaced" => envRuntime.job \in envReplaced
  /\ envRuntime.step = "reading" => envRequests[envRuntime.job].op = "read"
  /\ envRuntime.step = "patched" => envRuntime.held = envRequests[envRuntime.job].base

(* What waits is the save of the draft; no text is shown between a save    *)
(* and the read that follows it.                                           *)
Covered == \E i \in envReplaced : \A j \in Variables!Ids : envRequests[j].op = "save" => j <= i
DialogFacts ==
  /\ envPending # 0 /\ envDraft # Variables!Untouched =>
       envRequests[envPending].op = "save" /\ envRequests[envPending].changes = envDraft
  /\ envSaved => envDocument = Variables!NoText
  /\ envSaved \/ envMessage = "saved" => Covered

VariablesInv == VariablesTypes /\ MadeInOrder /\ WorkFacts /\ DialogFacts

(* Requests are numbered from one.                                         *)
LEMMA NumbersOfRequests ==
  ASSUME VariablesBounds
  PROVE  \A i \in Variables!Ids : i \in Nat /\ i # 0
BY DEF VariablesBounds, Variables!Ids

(* The invariant holds to begin with.                                      *)
LEMMA VariablesStart == ASSUME VariablesBounds, Variables!Init PROVE VariablesInv
<1>0. /\ envRuntime = Variables!Idle /\ envJobs = [i \in Variables!Ids |-> "none"]
      /\ envReceipts = [i \in Variables!Ids |-> Variables!NoReceipt]
      /\ envRequests = [i \in Variables!Ids |-> Variables!Unmade] /\ envPosts = [i \in Variables!Ids |-> 0]
      /\ envEvents = 0 /\ envPending = 0 /\ envFrozen = 0 /\ envSaved = FALSE /\ envMessage \in {"none", "loaded"}
  BY DEF Variables!Init
<1>1. /\ \A i \in Variables!Ids : /\ envRequests[i].op = "none" /\ envJobs[i] = "none"
                                  /\ envReceipts[i].result = "none" /\ ~(envPosts[i] > 0)
      /\ envRuntime.step = "idle" /\ DOMAIN envRuntime = {"step", "job", "held", "result"}
  BY <1>0 DEF Variables!Unmade, Variables!NoReceipt, Variables!Idle
<1>2. VariablesTypes
  BY <1>0, <1>1 DEF VariablesTypes
<1>3. MadeInOrder /\ WorkFacts /\ DialogFacts
  BY <1>0, <1>1 DEF MadeInOrder, Made, WorkFacts, DialogFacts
<1> QED BY <1>2, <1>3 DEF VariablesInv

(* A request more: it is the last, and it is waited for.                   *)
LEMMA NewRequest ==
  ASSUME VariablesBounds, VariablesInv, NEW about, NEW op \in {"read", "save"}, NEW base, NEW changes,
         Variables!Asks(about, op, base, changes),
         UNCHANGED <<envRuntime, envJobs, envReceipts, envReplaced>>, envEvents' \in Nat
  PROVE  /\ VariablesTypes' /\ MadeInOrder' /\ WorkFacts'
         /\ envPending' # 0 /\ envRequests'[envPending'].op = op /\ envRequests'[envPending'].changes = changes
         /\ op = "read" /\ Covered => Covered'
<1> DEFINE row == [op |-> op, rev |-> about.rev, files |-> about.files, key |-> about.key,
                   base |-> base, changes |-> changes]
<1>1. PICK id \in Variables!Ids :
        /\ envRequests[id].op = "none" /\ \A i \in Variables!Ids : envRequests[i].op = "none" => id <= i
        /\ envRequests' = [envRequests EXCEPT ![id] = row]
        /\ envPending' = id /\ envFrozen' = id /\ envPosts' = [envPosts EXCEPT ![id] = @ + 1]
  BY DEF Variables!Asks, Variables!Missed, Variables!Sends
<1>2. row.op = op /\ row.changes = changes /\ op # "none"
  OBVIOUS
<1>t. VariablesTypes
  BY DEF VariablesInv
<1> HIDE DEF row
<1>3. /\ envRequests'[id] = row /\ \A j \in Variables!Ids : j # id => envRequests'[j] = envRequests[j]
      /\ \A j \in Variables!Ids : j # id => envPosts'[j] = envPosts[j]
  BY <1>1, <1>t DEF VariablesTypes
<1>4. VariablesTypes'
  BY <1>1, <1>t DEF VariablesTypes
<1>5. /\ Made(id)' /\ \A j \in Variables!Ids : j # id => Made(j)' = Made(j)
      /\ \A j : Made(j) => j # id
  BY <1>1, <1>2, <1>3 DEF Made
<1>6. MadeInOrder'
  <2>1. \A i, j \in Variables!Ids : ~Made(i)' /\ Made(j)' => j < i
    <3> SUFFICES ASSUME NEW i \in Variables!Ids, NEW j \in Variables!Ids, ~Made(i)', Made(j)' PROVE j < i
      OBVIOUS
    <3>1. i # id /\ ~Made(i)
      BY <1>5
    <3>2. id <= i /\ i \in Nat /\ id \in Nat
      BY <1>1, <3>1, NumbersOfRequests DEF Made
    <3>3. CASE j = id
      BY <3>1, <3>2, <3>3
    <3>4. CASE j # id
      BY <3>1, <3>4, <1>5 DEF VariablesInv, MadeInOrder
    <3> QED BY <3>3, <3>4
  <2>2. \A j \in Variables!Ids : Made(j)' => j <= id
    <3> SUFFICES ASSUME NEW j \in Variables!Ids, Made(j)', j # id PROVE j <= id
      BY NumbersOfRequests
    <3>1. j < id
      BY <1>1, <1>5 DEF VariablesInv, MadeInOrder, Made
    <3> QED BY <3>1, NumbersOfRequests
  <2>3. \A i \in Variables!Ids :
          envPosts'[i] > 0 \/ envJobs'[i] # "none" \/ envReceipts'[i].result # "none" => Made(i)'
    BY <1>3, <1>5 DEF VariablesInv, MadeInOrder
  <2>4. envRuntime'.step # "idle" => Made(envRuntime.job)'
    BY <1>5 DEF VariablesInv, MadeInOrder, Made
  <2> QED BY <1>1, <1>5, <2>1, <2>2, <2>3, <2>4 DEF MadeInOrder
<1>7. WorkFacts'
  <2>1. \A i : Made(i) => envRequests'[i] = envRequests[i]
    BY <1>3, <1>5 DEF Made
  <2>2. \A i \in Variables!Ids : envJobs[i] = "succeeded" \/ envReceipts[i].result = "succeeded" => Made(i)
    BY DEF VariablesInv, MadeInOrder
  <2>3. envRuntime.step # "idle" => Made(envRuntime.job)
    BY DEF VariablesInv, MadeInOrder
  <2> QED BY <2>1, <2>2, <2>3 DEF VariablesInv, WorkFacts, Kept
<1>8. op = "read" /\ Covered => Covered'
  BY <1>2, <1>3 DEF Covered
<1> QED BY <1>1, <1>2, <1>3, <1>4, <1>6, <1>7, <1>8, NumbersOfRequests

(* Nothing is asked for; what waits may be sent again, or given up.        *)
LEMMA NoRequest ==
  ASSUME VariablesBounds, VariablesInv,
         UNCHANGED <<envRuntime, envJobs, envReceipts, envReplaced, envRequests>>, envEvents' \in Nat,
         envPending' \in {0, envPending}, envFrozen' \in {0, envPending'},
         \/ UNCHANGED envPosts
         \/ envPending # 0 /\ envPosts' = [envPosts EXCEPT ![envPending] = @ + 1]
  PROVE  VariablesTypes' /\ MadeInOrder' /\ WorkFacts' /\ Covered' = Covered
<1>t. VariablesTypes
  BY DEF VariablesInv
<1>1. VariablesTypes'
  BY <1>t DEF VariablesTypes
<1>2. \A i \in Variables!Ids : envPosts'[i] > 0 => Made(i)
  BY <1>t DEF VariablesInv, VariablesTypes, MadeInOrder
<1>3. MadeInOrder'
  BY <1>2 DEF VariablesInv, MadeInOrder, Made
<1>4. WorkFacts' /\ Covered' = Covered
  BY DEF VariablesInv, WorkFacts, Kept, Covered
<1> QED BY <1>1, <1>3, <1>4

(* What the user does, and what the page does by itself.                   *)
LEMMA DialogStep ==
  ASSUME VariablesBounds, VariablesInv,
         \/ Variables!Reload \/ Variables!Reopen \/ Variables!Save \/ Variables!Retry
         \/ Variables!Answered \/ Variables!Refused \/ Variables!Unanswered \/ Variables!Poll
         \/ \E k \in Keys, v \in Values \cup {Missing, Same} : Variables!Edit(k, v)
  PROVE  VariablesInv' /\ Variables!ReplacesWhatWasShown /\ Variables!DraftIsKept
<1>e. envEvents \in Nat /\ envFrozen \in {0, envPending}
  BY DEF VariablesInv, VariablesTypes, MadeInOrder
<1>r. envText' = envText => Variables!ReplacesWhatWasShown
  BY DEF Variables!ReplacesWhatWasShown
<1>b. ~Variables!Busy => envPending = 0
  BY DEF Variables!Busy
<1>1. CASE Variables!Reload
  <2>0. /\ envPending = 0 /\ envDocument' = Variables!NoText /\ envDraft' = Variables!Untouched
        /\ Variables!Reads(envConnection, envMessage, FALSE)
        /\ UNCHANGED <<envText, envRuntime, envJobs, envReceipts, envSaved, envReplaced, envEvents>>
    BY <1>1, <1>b DEF Variables!Reload, Variables!disk, Variables!agent, Variables!server
  <2>1. CASE /\ envMessage' = envMessage /\ envPending' = 0 /\ envFrozen' = 0 /\ UNCHANGED Variables!network
    <3>1. VariablesTypes' /\ MadeInOrder' /\ WorkFacts' /\ Covered' = Covered
      BY <1>e, <2>0, <2>1, NoRequest DEF Variables!network
    <3> QED BY <1>r, <2>0, <2>1, <3>1 DEF VariablesInv, DialogFacts, Variables!DraftIsKept
  <2>2. CASE envMessage' = "loading" /\ Variables!Asks(envConnection, "read", Variables!NoText, Variables!Untouched)
    <3>1. /\ VariablesTypes' /\ MadeInOrder' /\ WorkFacts' /\ (Covered => Covered')
      BY <1>e, <2>0, <2>2, NewRequest
    <3> QED BY <1>r, <2>0, <2>2, <3>1 DEF VariablesInv, DialogFacts, Variables!DraftIsKept
  <2> QED BY <2>0, <2>1, <2>2 DEF Variables!Reads
<1>2. CASE Variables!Reopen
  <2>0. /\ envDocument' = Variables!NoText /\ envDraft' = Variables!Untouched /\ envSaved' = FALSE
        /\ envEvents' = envEvents + 1
        /\ UNCHANGED <<envText, envRuntime, envJobs, envReceipts, envReplaced>>
    BY <1>2 DEF Variables!Reopen, Variables!Event, Variables!disk, Variables!agent,
       Variables!server
  <2>e. envEvents' \in Nat /\ envEvents' # envEvents
    BY <1>e, <2>0
  <2>1. CASE envMessage' = "none" /\ envPending' = 0 /\ envFrozen' = 0 /\ UNCHANGED Variables!network
    <3>1. VariablesTypes' /\ MadeInOrder' /\ WorkFacts' /\ Covered' = Covered
      BY <2>e, <2>0, <2>1, NoRequest DEF Variables!network
    <3> QED BY <1>r, <2>0, <2>e, <2>1, <3>1 DEF VariablesInv, DialogFacts, Variables!DraftIsKept
  <2>2. CASE envMessage' = "loading" /\ Variables!Asks(envObserved, "read", Variables!NoText, Variables!Untouched)
    <3>1. /\ VariablesTypes' /\ MadeInOrder' /\ WorkFacts' /\ (Covered => Covered')
      BY <2>e, <2>0, <2>2, NewRequest
    <3> QED BY <1>r, <2>0, <2>e, <2>2, <3>1 DEF VariablesInv, DialogFacts, Variables!DraftIsKept
  <2> QED BY <1>2, <2>1, <2>2 DEF Variables!Reopen
<1>3. CASE Variables!Save
  <2>0. /\ envPending = 0 /\ envDocument # Variables!NoText /\ envDraft # Variables!Untouched
        /\ envMessage' = "saving" /\ Variables!Asks(envConnection, "save", envDocument, envDraft)
        /\ UNCHANGED <<envText, envRuntime, envJobs, envReceipts, envReplaced, envEvents,
                       envDocument, envDraft, envSaved>>
    BY <1>3, <1>b DEF Variables!Save, Variables!Dirty, Variables!disk, Variables!agent,
       Variables!server
  <2>1. /\ VariablesTypes' /\ MadeInOrder' /\ WorkFacts'
        /\ envRequests'[envPending'].op = "save" /\ envRequests'[envPending'].changes = envDraft
    BY <1>e, <2>0, NewRequest
  <2> QED BY <1>r, <2>0, <2>1 DEF VariablesInv, DialogFacts, Variables!DraftIsKept
<1>4. CASE Variables!Retry
  <2>0. /\ envFrozen # 0 /\ envPending' = envFrozen /\ envFrozen' = envFrozen
        /\ envPosts' = [envPosts EXCEPT ![envFrozen] = @ + 1]
        /\ UNCHANGED <<envText, envRuntime, envJobs, envReceipts, envReplaced, envEvents,
                       envDocument, envDraft, envSaved, envMessage, envRequests>>
    BY <1>4 DEF Variables!Retry, Variables!Sends, Variables!disk, Variables!agent,
       Variables!server
  <2>1. envFrozen = envPending
    BY <1>e, <2>0
  <2>2. VariablesTypes' /\ MadeInOrder' /\ WorkFacts' /\ Covered' = Covered
    BY <1>e, <2>0, <2>1, NoRequest
  <2> QED BY <1>r, <2>0, <2>1, <2>2 DEF VariablesInv, DialogFacts, Variables!DraftIsKept,
     Variables!Dirty
<1>5. CASE Variables!Answered \/ Variables!Refused \/ Variables!Unanswered
  <2>0. /\ <<envPending, envFrozen, envMessage>>' \in
             {<<envPending, envFrozen, envMessage>>, <<0, 0, "not saved">>, <<envPending, envFrozen, "unconfirmed">>}
        /\ UNCHANGED <<envText, envRuntime, envJobs, envReceipts, envReplaced, envEvents, envPosts,
                       envDocument, envDraft, envSaved, envRequests>>
    BY <1>5 DEF Variables!Answered, Variables!Refused, Variables!Unanswered, Variables!disk,
       Variables!agent,
       Variables!server
  <2>1. /\ envPending' \in {0, envPending} /\ envFrozen' \in {0, envPending'}
        /\ envMessage' \in {envMessage, "not saved", "unconfirmed"}
    BY <1>e, <2>0
  <2>2. VariablesTypes' /\ MadeInOrder' /\ WorkFacts' /\ Covered' = Covered
    BY <1>e, <2>0, <2>1, NoRequest
  <2> QED BY <1>r, <2>0, <2>1, <2>2 DEF VariablesInv, DialogFacts, Variables!DraftIsKept,
     Variables!Dirty
<1>6. CASE Variables!Poll
  <2>0. UNCHANGED <<envText, envRuntime, envJobs, envReceipts, envReplaced, envEvents>>
    BY <1>6 DEF Variables!Poll, Variables!disk, Variables!agent, Variables!server
  <2>1. CASE UNCHANGED <<envDocument, envDraft, envPending, envFrozen, envSaved, envMessage, Variables!network>>
    <3>1. VariablesTypes' /\ MadeInOrder' /\ WorkFacts' /\ Covered' = Covered
      BY <1>e, <2>0, <2>1, NoRequest DEF Variables!network
    <3> QED BY <1>r, <2>0, <2>1, <3>1 DEF VariablesInv, DialogFacts, Variables!DraftIsKept,
       Variables!Dirty, Variables!network
  <2>2. CASE Variables!Settled /\ Variables!Settles
    <3>0. envPending # 0 /\ Made(envPending)
      BY <2>2 DEF Variables!Settled, VariablesInv, MadeInOrder
    <3>1. CASE envJobs[envPending] # "succeeded"
      <4>0. /\ envMessage' = "failed" /\ envPending' = 0 /\ envFrozen' = 0
            /\ UNCHANGED <<envDocument, envDraft, envSaved, envRequests, envPosts>>
        BY <2>2, <3>1 DEF Variables!Settles, Variables!network
      <4>1. VariablesTypes' /\ MadeInOrder' /\ WorkFacts' /\ Covered' = Covered
        BY <1>e, <2>0, <4>0, NoRequest
      <4> QED BY <1>r, <2>0, <4>0, <4>1 DEF VariablesInv, DialogFacts, Variables!DraftIsKept,
         Variables!Dirty
    <3>2. CASE envJobs[envPending] = "succeeded"
      <4>d. envDraft' = Variables!Untouched /\ Variables!DraftIsKept
        BY <2>2, <3>0, <3>2 DEF Variables!Settles, Variables!DraftIsKept, Variables!Dirty,
           VariablesInv, DialogFacts
      <4>1. CASE envRequests[envPending].op = "read"
        <5>0. /\ envMessage' = IF envSaved THEN "saved" ELSE "loaded"
              /\ envSaved' = FALSE /\ envPending' = 0 /\ envFrozen' = 0
              /\ UNCHANGED <<envRequests, envPosts>>
          BY <2>2, <3>2, <4>1 DEF Variables!Settles, Variables!network
        <5>1. VariablesTypes' /\ MadeInOrder' /\ WorkFacts' /\ Covered' = Covered
          BY <1>e, <2>0, <5>0, NoRequest
        <5> QED BY <1>r, <2>0, <4>d, <5>0, <5>1 DEF VariablesInv, DialogFacts
      <4>2. CASE envRequests[envPending].op # "read"
        <5>0. /\ envDocument' = Variables!NoText /\ envSaved' = TRUE
              /\ Variables!Reads(envObserved, "saved", envSending)
          BY <2>2, <3>2, <4>2 DEF Variables!Settles
        <5>1. Covered
          <6>1. envPending \in envReplaced
            BY <3>0, <3>2, <4>2 DEF VariablesInv, WorkFacts, Kept, Made
          <6>2. \A j \in Variables!Ids : envRequests[j].op = "save" => j <= envPending
            BY <3>0 DEF VariablesInv, MadeInOrder, Made
          <6> QED BY <6>1, <6>2 DEF Covered
        <5>2. CASE envPending' = 0 /\ envFrozen' = 0 /\ UNCHANGED Variables!network
          <6>1. VariablesTypes' /\ MadeInOrder' /\ WorkFacts' /\ Covered' = Covered
            BY <1>e, <2>0, <5>2, NoRequest DEF Variables!network
          <6> QED BY <1>r, <2>0, <4>d, <5>0, <5>1, <5>2, <6>1 DEF VariablesInv, DialogFacts
        <5>3. CASE Variables!Asks(envObserved, "read", Variables!NoText, Variables!Untouched)
          <6>1. VariablesTypes' /\ MadeInOrder' /\ WorkFacts' /\ (Covered => Covered')
            BY <1>e, <2>0, <5>3, NewRequest
          <6> QED BY <1>r, <2>0, <4>d, <5>0, <5>1, <6>1 DEF VariablesInv, DialogFacts
        <5> QED BY <5>0, <5>2, <5>3 DEF Variables!Reads
      <4> QED BY <4>1, <4>2
    <3> QED BY <3>1, <3>2
  <2> QED BY <1>6, <2>1, <2>2 DEF Variables!Poll
<1>7. ASSUME NEW k \in Keys, NEW v \in Values \cup {Missing, Same}, Variables!Edit(k, v)
      PROVE  VariablesInv' /\ Variables!ReplacesWhatWasShown /\ Variables!DraftIsKept
  <2>0. /\ envPending = 0
        /\ UNCHANGED <<envText, envRuntime, envJobs, envReceipts, envReplaced, envEvents, envPosts,
                       envDocument, envSaved, envRequests, envMessage, envPending, envFrozen>>
    BY <1>7, <1>b DEF Variables!Edit, Variables!disk, Variables!agent, Variables!server,
       Variables!network
  <2>1. VariablesTypes' /\ MadeInOrder' /\ WorkFacts' /\ Covered' = Covered
    BY <1>e, <2>0, NoRequest
  <2> QED BY <1>r, <2>0, <2>1 DEF VariablesInv, DialogFacts, Variables!DraftIsKept
<1> QED BY <1>1, <1>2, <1>3, <1>4, <1>5, <1>6, <1>7

(* The facts about the dialog and its requests do not depend on the rest.  *)
LEMMA DialogRests ==
  ASSUME VariablesInv, UNCHANGED <<Variables!dialog, envRequests>>, envReplaced \subseteq envReplaced'
  PROVE  /\ DialogFacts' /\ Variables!DraftIsKept /\ (\A i : Made(i)' = Made(i))
         /\ (\A i : Kept(i) => Kept(i)') /\ UNCHANGED <<envPending, envFrozen>>
<1>0. UNCHANGED <<envDocument, envDraft, envPending, envFrozen, envSaved, envMessage>>
  BY DEF Variables!dialog
<1>1. DialogFacts'
  BY <1>0 DEF VariablesInv, DialogFacts, Covered
<1>2. Variables!DraftIsKept
  BY <1>0 DEF Variables!DraftIsKept, Variables!Dirty
<1>3. (\A i : Made(i)' = Made(i)) /\ (\A i : Kept(i) => Kept(i)')
  BY DEF Made, Kept
<1> QED BY <1>0, <1>1, <1>2, <1>3

(* The control plane keeps a request, hands it out, or is told of its end. *)
LEMMA ControlStep ==
  ASSUME VariablesBounds, VariablesInv,
         \/ \E id \in Variables!Ids : Variables!Receive(id) \/ Variables!Claim(id)
         \/ Variables!Complete \/ Variables!Observe
  PROVE  VariablesInv' /\ Variables!ReplacesWhatWasShown /\ Variables!DraftIsKept
<1>0. UNCHANGED <<Variables!disk, Variables!dialog, envRequests, envReplaced, envEvents>>
  BY DEF Variables!Receive, Variables!Claim, Variables!Complete, Variables!Observe,
     Variables!network
<1>1. /\ DialogFacts' /\ Variables!DraftIsKept /\ Variables!ReplacesWhatWasShown
      /\ \A i : Made(i)' = Made(i)
      /\ \A i : Kept(i)' = Kept(i)
      /\ UNCHANGED <<envReceipts, envPending, envFrozen>>
  BY <1>0, DialogRests DEF Variables!disk, Variables!ReplacesWhatWasShown, Kept
<1>t. VariablesTypes /\ MadeInOrder /\ WorkFacts
  BY DEF VariablesInv
<1>2. ASSUME NEW id \in Variables!Ids, Variables!Receive(id) PROVE VariablesInv'
  <2>0. /\ envPosts[id] > 0 /\ envPosts' = [envPosts EXCEPT ![id] = @ - 1]
        /\ envJobs' = envJobs \/ envJobs' = [envJobs EXCEPT ![id] = "queued"]
        /\ UNCHANGED envRuntime
    BY <1>2 DEF Variables!Receive, Variables!agent
  <2>1. /\ \A i \in Variables!Ids : i # id => envPosts'[i] = envPosts[i]
        /\ \A i \in Variables!Ids : envJobs'[i] \in {envJobs[i], "queued"} /\ (i # id => envJobs'[i] = envJobs[i])
        /\ Made(id)
    BY <2>0, <1>t DEF VariablesTypes, MadeInOrder
  <2>2. VariablesTypes'
    BY <1>0, <1>1, <1>t, <2>0 DEF VariablesTypes
  <2>3. MadeInOrder'
    BY <1>0, <1>1, <1>t, <2>0, <2>1 DEF MadeInOrder
  <2>4. WorkFacts'
    BY <1>0, <1>1, <1>t, <2>0, <2>1 DEF WorkFacts
  <2> QED BY <1>1, <2>2, <2>3, <2>4 DEF VariablesInv
<1>3. ASSUME NEW id \in Variables!Ids, Variables!Claim(id) PROVE VariablesInv'
  <2>0. /\ envJobs[id] # "none" /\ UNCHANGED envPosts
        /\ envJobs' = [envJobs EXCEPT ![id] = "failed"] \/ envJobs' = [envJobs EXCEPT ![id] = "working"]
        /\ envRuntime' = envRuntime \/ envRuntime' = [Variables!Idle EXCEPT !.step = "given", !.job = id]
    BY <1>3 DEF Variables!Claim, Variables!network
  <2>1. /\ \A i \in Variables!Ids : envJobs'[i] # "none" => envJobs[i] # "none"
        /\ \A i \in Variables!Ids : envJobs'[i] = "succeeded" => envJobs[i] = "succeeded"
        /\ Made(id) /\ DOMAIN envJobs' = Variables!Ids
    BY <2>0, <1>t DEF VariablesTypes, MadeInOrder
  <2>2. \/ envRuntime' = envRuntime
        \/ envRuntime'.step = "given" /\ envRuntime'.job = id /\ DOMAIN envRuntime' = {"step", "job", "held", "result"}
    BY <2>0 DEF Variables!Idle
  <2>3. VariablesTypes'
    BY <1>0, <1>1, <1>t, <2>0, <2>1, <2>2 DEF VariablesTypes
  <2>4. MadeInOrder'
    BY <1>0, <1>1, <1>t, <2>0, <2>1, <2>2 DEF MadeInOrder
  <2>5. WorkFacts'
    BY <1>0, <1>1, <1>t, <2>1, <2>2 DEF WorkFacts
  <2> QED BY <1>1, <2>3, <2>4, <2>5 DEF VariablesInv
<1>4. CASE Variables!Complete
  <2>i. PICK id : id = envRuntime.job
    OBVIOUS
  <2>0. /\ envRuntime.step = "done" /\ envRuntime' = Variables!Idle /\ UNCHANGED envPosts
        /\ envJobs' = envJobs \/ envJobs' = [envJobs EXCEPT ![id] = envRuntime.result]
    BY <1>4, <2>i DEF Variables!Complete, Variables!network
  <2>1. Made(id) /\ id \in Variables!Ids /\ (envRuntime.result = "succeeded" => Kept(id))
    BY <2>0, <2>i, <1>t DEF MadeInOrder, WorkFacts, Made
  <2>2. /\ \A i \in Variables!Ids :
             envJobs'[i] = envJobs[i] \/ (i = id /\ envJobs'[i] = envRuntime.result)
        /\ DOMAIN envJobs' = Variables!Ids
    BY <2>0, <1>t DEF VariablesTypes
  <2>3. envRuntime'.step = "idle" /\ DOMAIN envRuntime' = {"step", "job", "held", "result"}
    BY <2>0 DEF Variables!Idle
  <2>4. VariablesTypes'
    BY <1>0, <1>1, <1>t, <2>0, <2>2, <2>3 DEF VariablesTypes
  <2>5. MadeInOrder'
    BY <1>0, <1>1, <1>t, <2>0, <2>1, <2>2, <2>3 DEF MadeInOrder
  <2>6. WorkFacts'
    BY <1>0, <1>1, <1>t, <2>1, <2>2, <2>3 DEF WorkFacts
  <2> QED BY <1>1, <2>4, <2>5, <2>6 DEF VariablesInv
<1>5. CASE Variables!Observe
  <2>0. UNCHANGED <<envRuntime, envJobs, envPosts>>
    BY <1>5 DEF Variables!Observe, Variables!agent, Variables!network
  <2>1. VariablesTypes' /\ MadeInOrder' /\ WorkFacts'
    BY <1>0, <1>1, <1>t, <2>0 DEF VariablesTypes, MadeInOrder, WorkFacts
  <2> QED BY <1>1, <2>1 DEF VariablesInv
<1> QED BY <1>1, <1>2, <1>3, <1>4, <1>5

(* The runtime works on the request it was given.                          *)
LEMMA RuntimeStep ==
  ASSUME VariablesBounds, VariablesInv,
         \/ Variables!Begin \/ Variables!Look \/ Variables!Read \/ Variables!Open \/ Variables!Patch
         \/ Variables!Replace \/ Variables!Advance \/ Variables!WriteReceipt
  PROVE  VariablesInv' /\ Variables!ReplacesWhatWasShown /\ Variables!DraftIsKept
<1>i. PICK id : id = envRuntime.job
  OBVIOUS
<1> USE DEF Variables!At, Variables!Fails, Variables!Ends, Variables!To, Variables!disk
<1>0. /\ UNCHANGED <<Variables!server, Variables!dialog, Variables!network, envEvents>>
      /\ envReplaced \subseteq envReplaced' /\ envRuntime.step # "idle"
  BY DEF Variables!Begin, Variables!Look, Variables!Read, Variables!Open, Variables!Patch,
     Variables!Replace, Variables!Advance, Variables!WriteReceipt
<1>1. UNCHANGED <<envJobs, envRequests, envPosts>>
  BY <1>0 DEF Variables!server, Variables!network
<1>2. /\ DialogFacts' /\ Variables!DraftIsKept
      /\ \A i : Made(i)' = Made(i)
      /\ \A i : Kept(i) => Kept(i)'
      /\ UNCHANGED <<envPending, envFrozen>>
  BY <1>0, <1>1, DialogRests
<1>t. VariablesTypes /\ MadeInOrder /\ WorkFacts /\ Made(id) /\ id \in Variables!Ids
  BY <1>0, <1>i DEF VariablesInv, MadeInOrder, Made
(* The job at hand, as far as it has come; its receipt tells how it ended. *)
<1>3. SUFFICES /\ Variables!ReplacesWhatWasShown
               /\ DOMAIN envRuntime' = {"step", "job", "held", "result"}
               /\ envRuntime'.step = "idle" \/ envRuntime'.job = id
               /\ envRuntime'.step \in {"over", "done"} /\ envRuntime'.result = "succeeded" => Kept(id)'
               /\ envRuntime'.step = "replaced" => id \in envReplaced'
               /\ envRuntime'.step = "reading" => envRequests[id].op = "read"
               /\ envRuntime'.step = "patched" => envRuntime'.held = envRequests[id].base
               /\ \/ UNCHANGED envReceipts
                  \/ \E row : /\ envReceipts' = [envReceipts EXCEPT ![id] = row]
                              /\ row.result = "succeeded" => Kept(id)'
  <2> DEFINE Goal ==
               /\ Variables!ReplacesWhatWasShown
               /\ DOMAIN envRuntime' = {"step", "job", "held", "result"}
               /\ envRuntime'.step = "idle" \/ envRuntime'.job = id
               /\ envRuntime'.step \in {"over", "done"} /\ envRuntime'.result = "succeeded" => Kept(id)'
               /\ envRuntime'.step = "replaced" => id \in envReplaced'
               /\ envRuntime'.step = "reading" => envRequests[id].op = "read"
               /\ envRuntime'.step = "patched" => envRuntime'.held = envRequests[id].base
               /\ \/ UNCHANGED envReceipts
                  \/ \E row : /\ envReceipts' = [envReceipts EXCEPT ![id] = row]
                              /\ row.result = "succeeded" => Kept(id)'
  <2> SUFFICES ASSUME Goal PROVE VariablesInv' /\ Variables!ReplacesWhatWasShown /\ Variables!DraftIsKept
    OBVIOUS
  <2>1. /\ \A i \in Variables!Ids : i # id => envReceipts'[i] = envReceipts[i]
        /\ DOMAIN envReceipts' = Variables!Ids
        /\ envReceipts'[id].result = "succeeded" => envReceipts'[id] = envReceipts[id] \/ Kept(id)'
    BY <1>t DEF VariablesTypes
  <2>2. VariablesTypes'
    BY <1>0, <1>1, <1>t, <2>1 DEF VariablesTypes
  <2>3. MadeInOrder'
    BY <1>1, <1>2, <1>i, <1>t, <2>1 DEF MadeInOrder
  <2>4. WorkFacts'
    BY <1>1, <1>2, <1>i, <1>t, <2>1 DEF WorkFacts
  <2> QED BY <1>2, <2>2, <2>3, <2>4 DEF VariablesInv
<1> USE DEF VariablesTypes
<1>4. CASE Variables!Begin
  <2>1. UNCHANGED <<envText, envReceipts>>
    BY <1>i, <1>4 DEF Variables!Begin
  <2>2. \/ /\ envRuntime' = [envRuntime EXCEPT !.step = "done", !.result = envReceipts[id].result,
                                               !.held = envReceipts[id].held]
        \/ /\ envRuntime' = [envRuntime EXCEPT !.step = "done", !.result = "recovery-required"]
        \/ /\ envRuntime' = [envRuntime EXCEPT !.step = "claimed"]
    BY <1>i, <1>4 DEF Variables!Begin
  <2>3. envReceipts[id].result = "succeeded" => Kept(id)'
    BY <1>2, <1>t DEF WorkFacts
  <2> QED BY <1>i, <1>t, <2>1, <2>2, <2>3 DEF Variables!ReplacesWhatWasShown
<1>5. CASE Variables!Look
  <2>1. UNCHANGED <<envText, envReceipts>>
    BY <1>i, <1>5 DEF Variables!Look
  <2>2. \/ envRuntime' = [envRuntime EXCEPT !.step = "over", !.result = "failed"]
        \/ envRuntime' = [envRuntime EXCEPT !.step = "reading"] /\ envRequests[id].op = "read"
        \/ envRuntime' = [envRuntime EXCEPT !.step = "editing"]
    BY <1>i, <1>5 DEF Variables!Look
  <2> QED BY <1>i, <1>t, <2>1, <2>2 DEF Variables!ReplacesWhatWasShown
<1>6. CASE Variables!Read
  <2>1. UNCHANGED <<envText, envReceipts>> /\ envRequests[id].op = "read"
    BY <1>i, <1>6, <1>t DEF Variables!Read, WorkFacts
  <2>2. \/ envRuntime' = [envRuntime EXCEPT !.step = "over", !.result = "failed"]
        \/ envRuntime' = [envRuntime EXCEPT !.step = "over", !.result = "succeeded", !.held = envText]
    BY <1>i, <1>6 DEF Variables!Read
  <2>3. Kept(id)'
    BY <1>1, <2>1 DEF Kept
  <2> QED BY <1>i, <1>t, <2>1, <2>2, <2>3 DEF Variables!ReplacesWhatWasShown
<1>7. CASE Variables!Open
  <2>1. UNCHANGED <<envText, envReceipts>>
    BY <1>i, <1>7 DEF Variables!Open
  <2>2. \/ envRuntime' = [envRuntime EXCEPT !.step = "over", !.result = "failed"]
        \/ envRuntime' = [envRuntime EXCEPT !.step = "opened"]
    BY <1>i, <1>7 DEF Variables!Open
  <2> QED BY <1>i, <1>t, <2>1, <2>2 DEF Variables!ReplacesWhatWasShown
<1>8. CASE Variables!Patch
  <2>1. UNCHANGED <<envText, envReceipts>>
    BY <1>i, <1>8 DEF Variables!Patch
  <2>2. \/ envRuntime' = [envRuntime EXCEPT !.step = "over", !.result = "failed"]
        \/ /\ envRuntime' = [envRuntime EXCEPT !.step = "patched", !.held = envText]
           /\ envText = envRequests[id].base
    BY <1>i, <1>8 DEF Variables!Patch
  <2> QED BY <1>i, <1>t, <2>1, <2>2 DEF Variables!ReplacesWhatWasShown
<1>9. CASE Variables!Replace
  <2>1. UNCHANGED envReceipts /\ envRuntime.held = envRequests[id].base
    BY <1>i, <1>9, <1>t DEF Variables!Replace, WorkFacts
  <2>2. \/ /\ envRuntime' = [envRuntime EXCEPT !.step = "over", !.result = "failed"]
           /\ UNCHANGED envText \/ envText = envRuntime.held
        \/ /\ envRuntime' = [envRuntime EXCEPT !.step = "replaced"]
           /\ envText = envRuntime.held /\ envReplaced' = envReplaced \cup {id}
    BY <1>i, <1>9 DEF Variables!Replace
  <2> QED BY <1>i, <1>t, <2>1, <2>2 DEF Variables!ReplacesWhatWasShown
<1>10. CASE Variables!Advance
  <2>1. UNCHANGED <<envText, envReceipts>> /\ id \in envReplaced
    BY <1>i, <1>10, <1>t DEF Variables!Advance, WorkFacts
  <2>2. \/ envRuntime' = [envRuntime EXCEPT !.step = "over", !.result = "failed"]
        \/ envRuntime' = [envRuntime EXCEPT !.step = "over", !.result = "succeeded"]
    BY <1>i, <1>10 DEF Variables!Advance
  <2>3. Kept(id)'
    BY <1>0, <2>1 DEF Kept
  <2> QED BY <1>i, <1>t, <2>1, <2>2, <2>3 DEF Variables!ReplacesWhatWasShown
<1>11. CASE Variables!WriteReceipt
  <2>1. UNCHANGED envText
    BY <1>i, <1>11 DEF Variables!WriteReceipt
  <2>2. envRuntime.result = "succeeded" => Kept(id)'
    BY <1>i, <1>11, <1>2, <1>t DEF Variables!WriteReceipt, WorkFacts
  <2>3. CASE UNCHANGED envReceipts /\ envRuntime' = Variables!Idle
    BY <2>1, <2>3 DEF Variables!ReplacesWhatWasShown, Variables!Idle
  <2>4. CASE /\ envReceipts' = [envReceipts EXCEPT ![id] = [result |-> envRuntime.result, held |-> envRuntime.held]]
             /\ envRuntime' = [envRuntime EXCEPT !.step = "done"]
    <3>1. PICK row : row = [result |-> envRuntime.result, held |-> envRuntime.held]
      OBVIOUS
    <3>2. row.result = envRuntime.result /\ envReceipts' = [envReceipts EXCEPT ![id] = row]
      BY <2>4, <3>1
    <3> QED BY <1>i, <1>t, <2>1, <2>2, <2>4, <3>2 DEF Variables!ReplacesWhatWasShown
  <2> QED BY <1>i, <1>11, <2>3, <2>4 DEF Variables!WriteReceipt
<1> QED BY <1>4, <1>5, <1>6, <1>7, <1>8, <1>9, <1>10, <1>11

(* The runtime stops, or another program writes the file.                  *)
LEMMA BesideStep ==
  ASSUME VariablesBounds, VariablesInv, Variables!Stop \/ \E t \in Variables!Texts : Variables!EditFile(t)
  PROVE  VariablesInv' /\ Variables!ReplacesWhatWasShown /\ Variables!DraftIsKept
<1>0. /\ UNCHANGED <<Variables!server, Variables!dialog, Variables!network, envReceipts, envReplaced>>
      /\ envEvents' = envEvents + 1 /\ envEvents \in Nat
      /\ envRuntime' \in {envRuntime, Variables!Idle}
  BY DEF Variables!Stop, Variables!EditFile, Variables!Event, Variables!disk, Variables!agent,
     VariablesInv, VariablesTypes
<1>1. /\ UNCHANGED <<envJobs, envRequests, envPosts>> /\ envEvents' # envEvents /\ envEvents' \in Nat
      /\ \/ envRuntime' = envRuntime
         \/ envRuntime'.step = "idle" /\ DOMAIN envRuntime' = {"step", "job", "held", "result"}
  <2>1. UNCHANGED <<envJobs, envRequests, envPosts>>
    BY <1>0 DEF Variables!server, Variables!network
  <2>2. envEvents' # envEvents /\ envEvents' \in Nat
    BY <1>0
  <2>3. Variables!Idle.step = "idle" /\ DOMAIN Variables!Idle = {"step", "job", "held", "result"}
    BY DEF Variables!Idle
  <2> QED BY <1>0, <2>1, <2>2, <2>3
<1>2. /\ DialogFacts' /\ Variables!DraftIsKept
      /\ \A i : Made(i)' = Made(i)
      /\ \A i : Kept(i) => Kept(i)'
      /\ UNCHANGED <<envPending, envFrozen>>
  BY <1>0, <1>1, DialogRests
<1>t. VariablesTypes /\ MadeInOrder /\ WorkFacts
  BY DEF VariablesInv
<1>3. VariablesTypes' /\ MadeInOrder' /\ WorkFacts'
  BY <1>0, <1>1, <1>2, <1>t DEF VariablesTypes, MadeInOrder, WorkFacts
<1> QED BY <1>1, <1>2, <1>3 DEF VariablesInv, Variables!ReplacesWhatWasShown

(* Every step keeps the facts; it replaces only what was shown, and loses  *)
(* no draft.                                                               *)
LEMMA VariablesStep ==
  ASSUME VariablesBounds, VariablesInv, Variables!Next
  PROVE  VariablesInv' /\ Variables!ReplacesWhatWasShown /\ Variables!DraftIsKept
BY DialogStep, ControlStep, RuntimeStep, BesideStep DEF Variables!Next

(* So does a step that leaves them alone.                                  *)
LEMMA VariablesStill ==
  ASSUME VariablesInv, UNCHANGED Variables!vars
  PROVE  VariablesInv' /\ Variables!ReplacesWhatWasShown /\ Variables!DraftIsKept
<1>0. UNCHANGED <<envText, envRuntime, envJobs, envReceipts, envReplaced, envRequests, envPosts, envEvents,
                  Variables!dialog>>
  BY DEF Variables!vars, Variables!disk, Variables!agent, Variables!server, Variables!network
<1>1. /\ DialogFacts' /\ Variables!DraftIsKept
      /\ \A i : Made(i)' = Made(i)
      /\ \A i : Kept(i) => Kept(i)'
      /\ UNCHANGED <<envPending, envFrozen>>
  BY <1>0, DialogRests
<1>t. VariablesTypes /\ MadeInOrder /\ WorkFacts
  BY DEF VariablesInv
<1>2. VariablesTypes' /\ MadeInOrder' /\ WorkFacts'
  BY <1>0, <1>1, <1>t DEF VariablesTypes, MadeInOrder, WorkFacts
<1> QED BY <1>0, <1>1, <1>2 DEF VariablesInv, Variables!ReplacesWhatWasShown

(* "Saved" is true.                                                        *)
LEMMA VariablesSafe == ASSUME VariablesInv PROVE Variables!SavedIsTrue
BY DEF VariablesInv, DialogFacts, Covered, Variables!SavedIsTrue

(* Every step, and none, keeps the invariant; the file that is replaced is *)
(* the one that was shown, and no draft is lost.                           *)
LEMMA VariablesMove ==
  ASSUME VariablesBounds, VariablesInv, [Variables!Next]_(Variables!vars)
  PROVE  VariablesInv' /\ Variables!ReplacesWhatWasShown /\ Variables!DraftIsKept
BY VariablesStep, VariablesStill

--------------------------------------------------------------------------------
(* The tools of a computer (SystemSetup).                                  *)

CONSTANTS Tools, Always, Installable, Named, Folders, MaxRequests, MaxDeliveries, MaxAlters, MaxStops
VARIABLES manifests, status, window, seen, sent, handler, finisher, setupIntents, setupResults,
  executed, deliveries, alters, setupStops

Equipment == INSTANCE SystemSetup WITH intents <- setupIntents, results <- setupResults, stops <- setupStops

EquipmentBounds ==
  /\ MaxRequests \in Nat /\ MaxDeliveries \in Nat /\ MaxAlters \in Nat /\ MaxStops \in Nat
  /\ IsFiniteSet(Tools) /\ Always \subseteq Tools

Told        == SUBSET (Tools \X {"installed", "failed-or-cancelled"})
HandlerSet  == [step : {"idle", "accepted", "recorded", "installing"},
                request : Equipment!Requests \cup {Equipment!NoRequest}, todo : SUBSET Tools, told : Told]

(* Requests are numbered as they are sent, of what may be selected.        *)
SentFacts ==
  /\ sent \subseteq Equipment!Requests /\ IsFiniteSet(sent)
  /\ \A r \in sent : r.id <= Cardinality(sent) /\ r.selected \subseteq Equipment!Selectable(r.preview)
  /\ \A r, q \in sent : r.id = q.id => r = q
  /\ setupIntents \subseteq sent

MachineTypes ==
  /\ manifests \in [Folders -> [asks : SUBSET Tools, odd : BOOLEAN]]
  /\ status \in [Tools -> Equipment!Statuses]
  /\ seen \subseteq Equipment!Reports
  /\ executed \in [Equipment!Ids \X Tools -> Nat]

(* Of a request at hand, nothing is done that is not told.                 *)
HandlerFacts ==
  /\ handler \in HandlerSet
  /\ handler.step = "idle" => handler = Equipment!Idle
  /\ handler.step # "idle" => handler.request \in sent
  /\ handler.step \in {"accepted", "recorded"} => handler.todo = {} /\ handler.told = {}
  /\ handler.step \in {"recorded", "installing"} =>
       /\ handler.request \in setupIntents
       /\ \A r \in setupResults : r.id # handler.request.id
  /\ handler.step = "recorded" => \A t \in Tools : executed[<<handler.request.id, t>>] = 0
  /\ handler.step = "installing" =>
       /\ handler.todo \subseteq handler.request.selected
       /\ \A t \in handler.todo : executed[<<handler.request.id, t>>] = 0
       /\ {x[1] : x \in handler.told} = handler.request.selected \ handler.todo
       /\ IsFiniteSet(handler.told)
       /\ Cardinality(handler.told) = Cardinality(handler.request.selected \ handler.todo)

EquipmentInv ==
  /\ MachineTypes /\ SentFacts /\ HandlerFacts
  /\ Equipment!InstalledByIntent /\ Equipment!ResultIsWhole

(* A cardinality is the same wherever it is written.                       *)
LEMMA Counted == \A S : Equipment!Cardinality(S) = Cardinality(S)
BY DEF Equipment!Cardinality, Cardinality

(* The invariant holds to begin with.                                      *)
LEMMA EquipmentStart == ASSUME EquipmentBounds, Equipment!Init PROVE EquipmentInv
<1>0. /\ manifests \in [Folders -> [asks : SUBSET Tools, odd : {FALSE}]]
      /\ status \in [Tools -> {"missing", "ready"}] /\ seen = {} /\ sent = {} /\ handler = Equipment!Idle
      /\ setupIntents = {} /\ setupResults = {} /\ executed = [x \in Equipment!Ids \X Tools |-> 0]
  BY DEF Equipment!Init
<1>1. MachineTypes
  <2>1. status \in [Tools -> Equipment!Statuses]
    BY <1>0 DEF Equipment!Statuses
  <2>2. \A x \in [asks : SUBSET Tools, odd : {FALSE}] : x \in [asks : SUBSET Tools, odd : BOOLEAN]
    OBVIOUS
  <2>3. manifests \in [Folders -> [asks : SUBSET Tools, odd : BOOLEAN]]
    BY <1>0, <2>2
  <2> QED BY <1>0, <2>1, <2>3 DEF MachineTypes
<1>2. SentFacts
  BY <1>0, FS_EmptySet DEF SentFacts
<1>3. HandlerFacts
  <2>1. Equipment!Idle \in HandlerSet /\ Equipment!Idle.step = "idle"
    BY DEF Equipment!Idle, HandlerSet, Told
  <2> QED BY <1>0, <2>1 DEF HandlerFacts
<1>4. Equipment!InstalledByIntent /\ Equipment!ResultIsWhole
  BY <1>0 DEF Equipment!InstalledByIntent, Equipment!ResultIsWhole
<1> QED BY <1>1, <1>2, <1>3, <1>4 DEF EquipmentInv

(* What is found is a report.                                              *)
LEMMA InspectTyped ==
  ASSUME EquipmentBounds, MachineTypes
  PROVE  Equipment!inspect \in Equipment!Reports
<1>1. Equipment!requirements \subseteq Tools
  BY DEF EquipmentBounds, MachineTypes, Equipment!requirements
<1>2. [t \in Equipment!requirements |-> Equipment!detected(t)] \in [Equipment!requirements -> Equipment!Statuses]
  BY <1>1 DEF MachineTypes, Equipment!detected
<1>3. Equipment!Blocked \in BOOLEAN
  BY DEF Equipment!Blocked
<1> QED BY <1>1, <1>2, <1>3 DEF Equipment!Reports, Equipment!inspect

(* What may be selected is a tool.                                         *)
LEMMA SelectableTools ==
  ASSUME NEW p \in Equipment!Reports
  PROVE  Equipment!Selectable(p) \subseteq Tools
BY DEF Equipment!Reports, Equipment!Selectable

(* The machine keeps its types.                                            *)
LEMMA MachineTyped ==
  ASSUME EquipmentBounds, EquipmentInv, Equipment!Next PROVE MachineTypes'
<1>0. MachineTypes /\ Equipment!inspect \in Equipment!Reports
  BY InspectTyped DEF EquipmentInv
<1>1. manifests' \in [Folders -> [asks : SUBSET Tools, odd : BOOLEAN]]
  <2>1. CASE UNCHANGED manifests
    BY <2>1, <1>0 DEF MachineTypes
  <2>2. CASE Equipment!Alter
    <3>1. ASSUME NEW f \in Folders, NEW t \in Tools
          PROVE  /\ [manifests EXCEPT ![f].asks = @ \cup {t}] \in [Folders -> [asks : SUBSET Tools, odd : BOOLEAN]]
                 /\ [manifests EXCEPT ![f].odd = ~@] \in [Folders -> [asks : SUBSET Tools, odd : BOOLEAN]]
      <4>1. /\ [manifests[f] EXCEPT !.asks = @ \cup {t}] \in [asks : SUBSET Tools, odd : BOOLEAN]
            /\ [manifests[f] EXCEPT !.odd = ~@] \in [asks : SUBSET Tools, odd : BOOLEAN]
        BY <1>0 DEF MachineTypes
      <4> QED BY <4>1, <1>0 DEF MachineTypes
    <3>2. CASE UNCHANGED manifests
      BY <3>2, <1>0 DEF MachineTypes
    <3>3. ASSUME NEW f \in Folders, NEW t \in Tools,
                 manifests' \in {[manifests EXCEPT ![f].asks = @ \cup {t}], [manifests EXCEPT ![f].odd = ~@]}
          PROVE  manifests' \in [Folders -> [asks : SUBSET Tools, odd : BOOLEAN]]
      <4>1. CASE manifests' = [manifests EXCEPT ![f].asks = @ \cup {t}]
        BY <3>1, <4>1
      <4>2. CASE manifests' = [manifests EXCEPT ![f].odd = ~@]
        BY <3>1, <4>2
      <4> QED BY <3>3, <4>1, <4>2
    <3> QED BY <2>2, <3>2, <3>3 DEF Equipment!Alter
  <2> QED BY <2>1, <2>2 DEF Equipment!Next, Equipment!Check, Equipment!Click,
     Equipment!RecordIntent, Equipment!Review,
             Equipment!Complete, Equipment!Accept, Equipment!Install, Equipment!AskFinish, Equipment!Finish,
             Equipment!Expire, Equipment!Reopen, Equipment!machine
<1>2. status' \in [Tools -> Equipment!Statuses]
  <2>1. CASE UNCHANGED status
    BY <2>1, <1>0 DEF MachineTypes
  <2>2. CASE \E t \in Tools, s \in Equipment!Statuses : status' = [status EXCEPT ![t] = s]
    BY <2>2, <1>0 DEF MachineTypes
  <2>3. \A t \in Tools : Equipment!Install(t) => \E s \in Equipment!Statuses : status' = [status EXCEPT ![t] = s]
    <3>1. \A t \in Tools : \A s \in {status[t], "ready", "version-mismatch"} : s \in Equipment!Statuses
      BY <1>0 DEF MachineTypes, Equipment!Statuses
    <3> QED BY <3>1 DEF Equipment!Install
  <2>4. Equipment!Alter => UNCHANGED status \/ \E t \in Tools, s \in Equipment!Statuses : status' = [status EXCEPT ![t] = s]
    BY DEF Equipment!Alter
  <2> QED BY <2>1, <2>2, <2>3, <2>4 DEF Equipment!Next, Equipment!Check, Equipment!Click,
     Equipment!RecordIntent, Equipment!Review,
             Equipment!Complete, Equipment!Accept, Equipment!AskFinish, Equipment!Finish,
             Equipment!Expire, Equipment!Reopen, Equipment!machine
<1>3. seen' \subseteq Equipment!Reports
  <2>1. seen' \subseteq seen \cup {Equipment!inspect}
    BY DEF Equipment!Next, Equipment!Alter, Equipment!Check, Equipment!Click,
       Equipment!RecordIntent, Equipment!Review,
             Equipment!Complete, Equipment!Accept, Equipment!Install, Equipment!AskFinish, Equipment!Finish,
             Equipment!Expire, Equipment!Reopen
  <2> QED BY <2>1, <1>0 DEF MachineTypes
<1>4. executed' \in [Equipment!Ids \X Tools -> Nat]
  <2>1. CASE UNCHANGED executed
    BY <2>1, <1>0 DEF MachineTypes
  <2>2. ASSUME NEW t \in Tools, Equipment!Install(t) PROVE executed' \in [Equipment!Ids \X Tools -> Nat]
    <3>1. <<handler.request.id, t>> \in Equipment!Ids \X Tools
      BY <2>2 DEF Equipment!Install, EquipmentInv, HandlerFacts, SentFacts, Equipment!Requests
    <3>2. executed' = [executed EXCEPT ![<<handler.request.id, t>>] = @ + 1]
      BY <2>2 DEF Equipment!Install
    <3> QED BY <3>1, <3>2, <1>0 DEF MachineTypes
  <2>3. UNCHANGED executed \/ \E t \in Tools : Equipment!Install(t)
    BY DEF Equipment!Next, Equipment!Alter, Equipment!Check, Equipment!Click,
       Equipment!RecordIntent, Equipment!Review,
             Equipment!Complete, Equipment!Accept, Equipment!AskFinish, Equipment!Finish,
             Equipment!Expire, Equipment!Reopen, Equipment!receipts
  <2> QED BY <2>1, <2>2, <2>3
<1> QED BY <1>1, <1>2, <1>3, <1>4 DEF MachineTypes

(* The user asks for an installation.                                      *)
LEMMA ClickStep ==
  ASSUME EquipmentBounds, EquipmentInv, Equipment!Click PROVE SentFacts' /\ HandlerFacts'
<1>0. SentFacts /\ HandlerFacts /\ MachineTypes /\ UNCHANGED <<handler, setupIntents, setupResults, executed>>
  BY DEF EquipmentInv, Equipment!Click, Equipment!receipts
<1> DEFINE n == Cardinality(sent)
<1>1. n \in Nat /\ n < MaxRequests /\ n + 1 \in Equipment!Ids
  BY <1>0, FS_CardinalityType, Counted DEF SentFacts, Equipment!Click, Equipment!Ids,
     EquipmentBounds
<1>2. PICK report \in seen : \E selected \in SUBSET Equipment!Selectable(report) :
        sent' = sent \cup {[id |-> n + 1, preview |-> report, selected |-> selected]}
  BY Counted DEF Equipment!Click
<1>2a. PICK selected \in SUBSET Equipment!Selectable(report) :
        sent' = sent \cup {[id |-> n + 1, preview |-> report, selected |-> selected]}
  BY <1>2
<1> DEFINE r == [id |-> n + 1, preview |-> report, selected |-> selected]
<1>3. r \in Equipment!Requests /\ r.id = n + 1 /\ r.selected \subseteq Equipment!Selectable(r.preview)
  <2>1. report \in Equipment!Reports
    BY <1>0 DEF MachineTypes
  <2> QED BY <2>1, <1>1, SelectableTools DEF Equipment!Requests
<1> HIDE DEF r
<1>4. \A q \in sent : q.id <= n /\ q.id \in Nat
  BY <1>0 DEF SentFacts, Equipment!Requests, Equipment!Ids
<1>5. r \notin sent
  BY <1>3, <1>4, <1>1
<1>6. IsFiniteSet(sent') /\ Cardinality(sent') = n + 1
  BY <1>0, <1>2a, <1>5, FS_AddElement DEF SentFacts, r
<1>7. sent' = sent \cup {r}
  BY <1>2a DEF r
<1>8. \A q \in sent' : q.id <= n + 1 /\ q.selected \subseteq Equipment!Selectable(q.preview)
  <2>1. \A q \in sent : q.id <= n + 1
    BY <1>4, <1>1
  <2> QED BY <2>1, <1>7, <1>3, <1>1, <1>0 DEF SentFacts
<1>9. \A p, q \in sent' : p.id = q.id => p = q
  <2>1. \A q \in sent : q.id # n + 1
    BY <1>4, <1>1
  <2> QED BY <2>1, <1>7, <1>3, <1>0 DEF SentFacts
<1>10. SentFacts'
  BY <1>0, <1>3, <1>6, <1>7, <1>8, <1>9 DEF SentFacts
<1>11. HandlerFacts'
  BY <1>0, <1>7 DEF HandlerFacts
<1> QED BY <1>10, <1>11

(* What is known of the handler while it does nothing more.                *)
LEMMA HandlerRests ==
  ASSUME handler' = Equipment!Idle PROVE HandlerFacts'
BY DEF HandlerFacts, Equipment!Idle, HandlerSet, Told

(* Every step keeps the invariant.                                         *)
LEMMA EquipmentStep ==
  ASSUME EquipmentBounds, EquipmentInv, Equipment!Next PROVE EquipmentInv'
<1> DEFINE h == handler
           r == handler.request
<1>0. /\ SentFacts /\ HandlerFacts /\ MachineTypes /\ Equipment!InstalledByIntent /\ Equipment!ResultIsWhole
      /\ handler \in HandlerSet
  BY DEF EquipmentInv, HandlerFacts
<1>m. MachineTypes'
  BY MachineTyped
<1> DEFINE Facts == SentFacts' /\ HandlerFacts' /\ Equipment!InstalledByIntent' /\ Equipment!ResultIsWhole'
<1> SUFFICES Facts
  BY <1>m DEF EquipmentInv
<1>s. UNCHANGED <<sent, setupIntents>> => SentFacts'
  BY <1>0 DEF SentFacts
<1>r. UNCHANGED <<setupIntents, setupResults, executed>> => Equipment!InstalledByIntent' /\ Equipment!ResultIsWhole'
  BY <1>0, Counted DEF Equipment!InstalledByIntent, Equipment!ResultIsWhole
<1>i. r \in sent => /\ r.id \in Equipment!Ids /\ r.selected \subseteq Tools
                    /\ r.selected \subseteq Equipment!Selectable(r.preview)
  BY <1>0 DEF SentFacts, Equipment!Requests
<1>1. CASE UNCHANGED <<sent, handler, setupIntents, setupResults, executed>>
  BY <1>1, <1>0, <1>s, <1>r DEF HandlerFacts
<1>2. CASE Equipment!Click
  <2>1. UNCHANGED <<setupIntents, setupResults, executed>>
    BY <1>2 DEF Equipment!Click, Equipment!receipts
  <2> QED BY <1>2, <2>1, <1>r, ClickStep
<1>3. CASE Equipment!Reopen
  BY <1>3, <1>s, <1>r, HandlerRests DEF Equipment!Reopen, Equipment!receipts
<1>4. ASSUME NEW q \in sent, Equipment!Accept(q) PROVE Facts
  <2>1. /\ UNCHANGED <<sent, setupIntents, setupResults, executed>>
        /\ handler' = [Equipment!Idle EXCEPT !.step = "accepted", !.request = q]
    BY <1>4 DEF Equipment!Accept, Equipment!receipts
  <2>2. q \in Equipment!Requests
    BY <1>0 DEF SentFacts
  <2>3. handler' \in HandlerSet /\ handler'.step = "accepted" /\ handler'.request = q /\ handler'.todo = {} /\ handler'.told = {}
    BY <2>1, <2>2 DEF Equipment!Idle, HandlerSet, Told
  <2>4. HandlerFacts'
    BY <2>1, <2>3 DEF HandlerFacts
  <2> QED BY <2>1, <2>4, <1>s, <1>r
<1>5. CASE Equipment!RecordIntent
  <2>0. h.step = "accepted" /\ UNCHANGED <<sent, setupResults, executed>> /\ r \in sent /\ h.todo = {} /\ h.told = {}
    BY <1>5, <1>0 DEF Equipment!RecordIntent, HandlerFacts
  <2>1. CASE \E i \in setupIntents : i.id = r.id
    BY <1>5, <2>0, <2>1, <1>s, <1>r, HandlerRests DEF Equipment!RecordIntent
  <2>2. CASE ~\E i \in setupIntents : i.id = r.id
    <3>1. setupIntents' = setupIntents \cup {r} /\ handler' = [handler EXCEPT !.step = "recorded"]
      BY <1>5, <2>2 DEF Equipment!RecordIntent
    <3>2. handler' \in HandlerSet /\ handler'.step = "recorded" /\ handler'.request = r /\ handler'.todo = {} /\ handler'.told = {}
      BY <3>1, <2>0, <1>0 DEF HandlerSet
    <3>3. /\ \A t \in Tools : executed[<<r.id, t>>] = 0
          /\ \A x \in setupResults : x.id # r.id
      <4>1. \A t \in Tools : ~(executed[<<r.id, t>>] > 0)
        BY <2>0, <2>2, <1>0, <1>i DEF Equipment!InstalledByIntent
      <4>2. \A t \in Tools : executed[<<r.id, t>>] \in Nat
        BY <2>0, <1>i, <1>0 DEF MachineTypes
      <4>3. \A x \in setupResults : x.id # r.id
        BY <2>2, <1>0 DEF Equipment!ResultIsWhole
      <4> QED BY <4>1, <4>2, <4>3
    <3>4. HandlerFacts'
      BY <2>0, <3>1, <3>2, <3>3 DEF HandlerFacts
    <3>5. SentFacts'
      BY <2>0, <3>1, <1>0 DEF SentFacts
    <3>6. Equipment!InstalledByIntent' /\ Equipment!ResultIsWhole'
      BY <2>0, <3>1, <1>0, Counted DEF Equipment!InstalledByIntent, Equipment!ResultIsWhole
    <3> QED BY <3>4, <3>5, <3>6
  <2> QED BY <2>1, <2>2
<1>6. CASE Equipment!Review
  <2>0. /\ UNCHANGED <<sent, setupIntents, setupResults, executed>> /\ h.step = "recorded" /\ r \in sent
        /\ h.told = {} /\ r \in setupIntents
        /\ \A t \in Tools : executed[<<r.id, t>>] = 0
        /\ \A x \in setupResults : x.id # r.id
    BY <1>6, <1>0 DEF Equipment!Review, Equipment!receipts, HandlerFacts
  <2>1. handler' = Equipment!Idle \/ handler' = [handler EXCEPT !.step = "installing", !.todo = r.selected]
    BY <1>6 DEF Equipment!Review
  <2>2. CASE handler' = [handler EXCEPT !.step = "installing", !.todo = r.selected]
    <3>1. handler' \in HandlerSet /\ handler'.step = "installing" /\ handler'.request = r /\ handler'.todo = r.selected /\ handler'.told = {}
      BY <2>0, <2>2, <1>0, <1>i DEF HandlerSet
    <3>2. {x[1] : x \in {}} = r.selected \ r.selected
      OBVIOUS
    <3>3. IsFiniteSet({}) /\ Cardinality({}) = Cardinality(r.selected \ r.selected)
      BY <3>2, FS_EmptySet
    <3>4. HandlerFacts'
      BY <2>0, <3>1, <3>2, <3>3, <1>i DEF HandlerFacts
    <3> QED BY <2>0, <3>4, <1>s, <1>r
  <2> QED BY <2>0, <2>1, <2>2, <1>s, <1>r, HandlerRests
<1>7. ASSUME NEW t \in Tools, Equipment!Install(t) PROVE Facts
  <2>0. /\ UNCHANGED <<sent, setupIntents, setupResults>> /\ h.step = "installing" /\ t \in h.todo
        /\ executed' = [executed EXCEPT ![<<r.id, t>>] = @ + 1]
    BY <1>7 DEF Equipment!Install
  <2>1. PICK o \in {"installed", "failed-or-cancelled"} :
          handler' = [handler EXCEPT !.todo = @ \ {t}, !.told = @ \cup {<<t, o>>}]
    BY <1>7 DEF Equipment!Install
  <2>2. /\ r \in sent /\ r \in setupIntents /\ h.todo \subseteq r.selected
        /\ \A u \in h.todo : executed[<<r.id, u>>] = 0
        /\ {x[1] : x \in h.told} = r.selected \ h.todo /\ IsFiniteSet(h.told)
        /\ Cardinality(h.told) = Cardinality(r.selected \ h.todo)
        /\ \A x \in setupResults : x.id # r.id
    BY <2>0, <1>0 DEF HandlerFacts
  <2>3. /\ handler' \in HandlerSet /\ handler'.step = "installing" /\ handler'.request = r
        /\ handler'.todo = h.todo \ {t} /\ handler'.told = h.told \cup {<<t, o>>}
    <3>1. h.told \cup {<<t, o>>} \in Told /\ h.todo \ {t} \in SUBSET Tools
      BY <1>0 DEF HandlerSet, Told
    <3> QED BY <2>0, <2>1, <3>1, <1>0 DEF HandlerSet
  <2>4. {x[1] : x \in h.told \cup {<<t, o>>}} = r.selected \ (h.todo \ {t})
    <3>1. {x[1] : x \in h.told \cup {<<t, o>>}} = {x[1] : x \in h.told} \cup {t}
      <4>1. <<t, o>>[1] = t
        OBVIOUS
      <4>2. \A y : y \in {x[1] : x \in h.told \cup {<<t, o>>}} <=> \E x \in h.told \cup {<<t, o>>} : y = x[1]
        OBVIOUS
      <4>3. \A y : y \in {x[1] : x \in h.told} <=> \E x \in h.told : y = x[1]
        OBVIOUS
      <4>4. \A y : (\E x \in h.told \cup {<<t, o>>} : y = x[1]) <=> (\E x \in h.told : y = x[1]) \/ y = t
        BY <4>1
      <4> QED BY <4>2, <4>3, <4>4
    <3> QED BY <2>0, <2>2, <3>1
  <2>5. /\ IsFiniteSet(h.told \cup {<<t, o>>})
        /\ Cardinality(h.told \cup {<<t, o>>}) = Cardinality(r.selected \ (h.todo \ {t}))
    <3>1. <<t, o>> \notin h.told
      BY <2>0, <2>2
    <3>2. IsFiniteSet(h.told \cup {<<t, o>>}) /\ Cardinality(h.told \cup {<<t, o>>}) = Cardinality(h.told) + 1
      BY <2>2, <3>1, FS_AddElement
    <3>3. IsFiniteSet(r.selected \ h.todo) /\ t \notin r.selected \ h.todo
      <4>1. r.selected \ h.todo \subseteq Tools
        BY <2>2, <1>i
      <4> QED BY <4>1, <2>0, FS_Subset DEF EquipmentBounds
    <3>4. r.selected \ (h.todo \ {t}) = (r.selected \ h.todo) \cup {t}
      BY <2>0, <2>2
    <3>5. Cardinality((r.selected \ h.todo) \cup {t}) = Cardinality(r.selected \ h.todo) + 1
      BY <3>3, FS_AddElement
    <3> QED BY <3>2, <3>4, <3>5, <2>2
  <2>6. <<r.id, t>> \in Equipment!Ids \X Tools /\ executed \in [Equipment!Ids \X Tools -> Nat]
    BY <2>2, <1>i, <1>0 DEF MachineTypes
  <2>7. executed'[<<r.id, t>>] = 1 /\ \A x \in Equipment!Ids \X Tools : x # <<r.id, t>> => executed'[x] = executed[x]
    BY <2>0, <2>2, <2>6
  <2>8. \A u \in h.todo \ {t} : executed'[<<r.id, u>>] = 0
    <3>1. \A u \in h.todo \ {t} : <<r.id, u>> # <<r.id, t>> /\ <<r.id, u>> \in Equipment!Ids \X Tools
      BY <2>2, <1>i
    <3> QED BY <2>2, <2>7, <3>1
  <2>9. HandlerFacts'
    BY <2>0, <2>2, <2>3, <2>4, <2>5, <2>8 DEF HandlerFacts
  <2>10. Equipment!InstalledByIntent'
    <3> SUFFICES ASSUME NEW id \in Equipment!Ids, NEW u \in Tools, executed'[<<id, u>>] > 0
                 PROVE  /\ executed'[<<id, u>>] = 1
                        /\ \E i \in setupIntents : i.id = id /\ u \in i.selected \cap Equipment!Selectable(i.preview)
      BY <2>0 DEF Equipment!InstalledByIntent, Equipment!Selectable, Equipment!recipe
    <3>1. CASE <<id, u>> = <<r.id, t>>
      BY <3>1, <2>0, <2>2, <2>7, <1>i
    <3>2. CASE <<id, u>> # <<r.id, t>>
      <4>1. executed'[<<id, u>>] = executed[<<id, u>>]
        BY <3>2, <2>7
      <4> QED BY <4>1, <1>0 DEF Equipment!InstalledByIntent
    <3> QED BY <3>1, <3>2
  <2>11. Equipment!ResultIsWhole'
    BY <2>0, <1>0, Counted DEF Equipment!ResultIsWhole
  <2> QED BY <2>0, <2>9, <2>10, <2>11, <1>s
<1>8. CASE Equipment!Complete
  <2>0. /\ UNCHANGED <<sent, setupIntents, executed>> /\ h.step = "installing" /\ h.todo = {}
        /\ setupResults' = setupResults \cup {[id |-> r.id, told |-> h.told]} /\ handler' = Equipment!Idle
    BY <1>8 DEF Equipment!Complete
  <2>1. /\ r \in setupIntents /\ {x[1] : x \in h.told} = r.selected \ {}
        /\ Cardinality(h.told) = Cardinality(r.selected \ {})
        /\ \A x \in setupResults : x.id # r.id
    BY <2>0, <1>0 DEF HandlerFacts
  <2>2. r.selected \ {} = r.selected
    OBVIOUS
  <2>3. Equipment!InstalledByIntent'
    BY <2>0, <1>0 DEF Equipment!InstalledByIntent
  <2>4. Equipment!ResultIsWhole'
    <3> DEFINE new == [id |-> r.id, told |-> h.told]
    <3>1. new.id = r.id /\ new.told = h.told
      OBVIOUS
    <3> HIDE DEF new
    <3>2. \A x \in setupResults : \E i \in setupIntents :
            i.id = x.id /\ {y[1] : y \in x.told} = i.selected /\ Cardinality(x.told) = Cardinality(i.selected)
      BY <1>0, Counted DEF Equipment!ResultIsWhole
    <3>3. \E i \in setupIntents :
            i.id = new.id /\ {y[1] : y \in new.told} = i.selected /\ Cardinality(new.told) = Cardinality(i.selected)
      BY <2>1, <2>2, <3>1
    <3>4. setupResults' = setupResults \cup {new}
      BY <2>0 DEF new
    <3>5. \A x \in setupResults' : \E i \in setupIntents' :
            i.id = x.id /\ {y[1] : y \in x.told} = i.selected /\ Cardinality(x.told) = Cardinality(i.selected)
      BY <2>0, <3>2, <3>3, <3>4
    <3>6. \A x, y \in setupResults' : x.id = y.id => x = y
      BY <2>1, <3>1, <3>4, <1>0 DEF Equipment!ResultIsWhole
    <3> QED BY <3>5, <3>6, Counted DEF Equipment!ResultIsWhole
  <2> QED BY <2>0, <2>3, <2>4, <1>s, HandlerRests
<1>9. \/ Equipment!Click \/ Equipment!Reopen \/ (\E q \in sent : Equipment!Accept(q)) \/ Equipment!RecordIntent
      \/ Equipment!Review \/ (\E t \in Tools : Equipment!Install(t)) \/ Equipment!Complete
      \/ UNCHANGED <<sent, handler, setupIntents, setupResults, executed>>
  BY DEF Equipment!Next, Equipment!Alter, Equipment!Check, Equipment!AskFinish, Equipment!Finish,
     Equipment!Expire,
         Equipment!requested, Equipment!receipts
<1> QED BY <1>1, <1>2, <1>3, <1>4, <1>5, <1>6, <1>7, <1>8, <1>9

(* Nothing that changes nothing breaks it.                                 *)
LEMMA EquipmentStill ==
  ASSUME EquipmentInv,
         UNCHANGED <<manifests, status, seen, sent, handler, setupIntents, setupResults, executed>>
  PROVE  EquipmentInv'
<1>1. MachineTypes' /\ SentFacts' /\ HandlerFacts'
  BY DEF EquipmentInv, MachineTypes, SentFacts, HandlerFacts
<1>2. Equipment!InstalledByIntent' /\ Equipment!ResultIsWhole'
  BY Counted DEF EquipmentInv, Equipment!InstalledByIntent, Equipment!ResultIsWhole
<1> QED BY <1>1, <1>2 DEF EquipmentInv

(* Every step, and none, keeps the invariant.                              *)
LEMMA EquipmentMove ==
  ASSUME EquipmentBounds, EquipmentInv, [Equipment!Next]_(Equipment!vars)
  PROVE  EquipmentInv'
<1>1. UNCHANGED Equipment!vars =>
        UNCHANGED <<manifests, status, seen, sent, handler, setupIntents, setupResults, executed>>
  BY DEF Equipment!vars, Equipment!machine, Equipment!requested, Equipment!receipts
<1> QED BY <1>1, EquipmentStep, EquipmentStill

(* Which is: tools are installed for the record that is kept, and results  *)
(* tell of all of them.                                                    *)
LEMMA EquipmentSafe ==
  ASSUME EquipmentInv
  PROVE  Equipment!InstalledByIntent /\ Equipment!ResultIsWhole
BY DEF EquipmentInv

--------------------------------------------------------------------------------
(* What a page has confirmed (ConfirmedActions).                           *)

CONSTANTS Page, MaxConfirmed, MaxSends, MaxLoads
VARIABLES offered, frozen, sending, listed, polled, sends, posts, answer, jobs, meant, confirmed, loads

Confirms == INSTANCE ConfirmedActions

ConfirmsBounds == MaxConfirmed \in Nat /\ MaxSends \in Nat /\ MaxLoads \in Nat /\ Page # "local"

(* The numbers are made one after another, each for a confirmation of its  *)
(* own.                                                                    *)
NumberFacts ==
  /\ \E m \in 0 .. Len(sends) : \A i \in Confirms!Ids : meant[i] # 0 <=> i <= m
  /\ \A i, j \in Confirms!Ids : i # j /\ meant[i] # 0 => meant[i] # meant[j]
  /\ \A i \in Confirms!Ids : meant[i] <= confirmed
  /\ \A n \in 1 .. Len(sends) : meant[sends[n]] # 0
  /\ \A i \in Confirms!Ids : jobs[i] # Confirms!Absent => meant[i] # 0

(* What can be sent is what the frozen number was made for, or what none   *)
(* was made for.                                                           *)
PageFacts ==
  /\ frozen # 0 => meant[frozen] # 0
  /\ offered <= confirmed
  /\ offered # 0 =>
       IF frozen = 0 THEN \A i \in Confirms!Ids : meant[i] # offered ELSE meant[frozen] = offered

ConfirmsInv == Confirms!TypeOK /\ NumberFacts /\ PageFacts

(* The invariant holds to begin with.                                      *)
LEMMA ConfirmsStart == ASSUME ConfirmsBounds, Confirms!Init PROVE ConfirmsInv
<1> USE DEF ConfirmsBounds, Confirms!Init, Confirms!Ids, Confirms!Empty, Confirms!Absent
<1>1. Confirms!TypeOK
  <2>1. sends \in UNION {[1 .. n -> Confirms!Ids] : n \in 0 .. MaxSends} /\ posts \subseteq 1 .. Len(sends)
    <3>1. sends \in [1 .. 0 -> Confirms!Ids] /\ 0 \in 0 .. MaxSends
      OBVIOUS
    <3> QED BY <3>1
  <2>2. listed \in Confirms!Lists /\ jobs \in Confirms!Lists
    BY DEF Confirms!Lists
  <2>3. /\ offered \in 0 .. MaxConfirmed /\ frozen \in 0 .. MaxSends /\ sending \in BOOLEAN
        /\ confirmed \in 0 .. MaxConfirmed /\ loads \in 0 .. MaxLoads /\ meant \in [Confirms!Ids -> 0 .. MaxConfirmed]
    <3>1. 0 \in 0 .. MaxConfirmed /\ 0 \in 0 .. MaxSends /\ 0 \in 0 .. MaxLoads
      OBVIOUS
    <3>2. offered = 0 /\ frozen = 0 /\ sending = FALSE /\ confirmed = 0 /\ loads = 0 /\ meant = [i \in Confirms!Ids |-> 0]
      OBVIOUS
    <3> HIDE DEF ConfirmsBounds, Confirms!Init, Confirms!Ids, Confirms!Empty, Confirms!Absent
    <3> QED BY <3>1, <3>2
  <2>4. polled = Confirms!NoPoll /\ answer \in Confirms!Answers
    BY DEF Confirms!Answers
  <2> HIDE DEF ConfirmsBounds, Confirms!Init, Confirms!Ids, Confirms!Empty, Confirms!Absent
  <2> QED BY <2>1, <2>2, <2>3, <2>4 DEF Confirms!TypeOK
<1>2. NumberFacts
  <2>1. Len(sends) = 0
    OBVIOUS
  <2> QED BY <2>1 DEF NumberFacts
<1>3. PageFacts
  BY DEF PageFacts
<1> QED BY <1>1, <1>2, <1>3 DEF ConfirmsInv

(* What was sent is a sequence of numbers.                                 *)
LEMMA SendsTyped ==
  ASSUME ConfirmsBounds, Confirms!TypeOK
  PROVE  /\ sends \in Seq(Confirms!Ids) /\ Len(sends) \in 0 .. MaxSends
         /\ \A n \in 1 .. Len(sends) : sends[n] \in Confirms!Ids
<1>1. PICK n \in 0 .. MaxSends : sends \in [1 .. n -> Confirms!Ids]
  BY DEF Confirms!TypeOK
<1>2. n \in Nat /\ sends \in Seq(Confirms!Ids)
  BY <1>1 DEF ConfirmsBounds
<1>3. Len(sends) = n
  BY <1>1, <1>2
<1> QED BY <1>1, <1>2, <1>3

(* The next number is the one after the last that was made.                *)
LEMMA NextNumber ==
  ASSUME ConfirmsBounds, Confirms!TypeOK, NumberFacts, Len(sends) < MaxSends
  PROVE  /\ Confirms!NewId \in Confirms!Ids /\ meant[Confirms!NewId] = 0
         /\ \A k \in Confirms!Ids : k < Confirms!NewId => meant[k] # 0
         /\ Confirms!NewId <= Len(sends) + 1
<1>1. PICK m \in 0 .. Len(sends) : \A i \in Confirms!Ids : meant[i] # 0 <=> i <= m
  BY DEF NumberFacts
<1>2. Len(sends) \in 0 .. MaxSends /\ MaxSends \in Nat
  BY SendsTyped DEF ConfirmsBounds
<1>3. m + 1 \in Confirms!Ids /\ m \in Nat
  BY <1>1, <1>2 DEF Confirms!Ids
<1>4. meant[m + 1] = 0 /\ \A k \in 1 .. (m + 1) - 1 : meant[k] # 0
  <2>1. ~(m + 1 <= m) /\ \A k \in 1 .. (m + 1) - 1 : k <= m /\ k \in Confirms!Ids
    BY <1>2, <1>3 DEF Confirms!Ids
  <2> QED BY <2>1, <1>1, <1>3
<1>5. /\ Confirms!NewId \in Confirms!Ids /\ meant[Confirms!NewId] = 0
      /\ \A k \in 1 .. Confirms!NewId - 1 : meant[k] # 0
  BY <1>3, <1>4 DEF Confirms!NewId
<1>6. Confirms!NewId = m + 1
  <2>1. ~(Confirms!NewId <= m)
    BY <1>1, <1>5
  <2>2. m + 1 < Confirms!NewId => m + 1 \in 1 .. Confirms!NewId - 1
    BY <1>3, <1>5 DEF Confirms!Ids
  <2> QED BY <2>1, <2>2, <1>3, <1>4, <1>5 DEF Confirms!Ids
<1>7. \A k \in Confirms!Ids : k < Confirms!NewId => meant[k] # 0
  BY <1>1, <1>3, <1>6 DEF Confirms!Ids
<1>8. m + 1 <= Len(sends) + 1
  BY <1>2, <1>3
<1> QED BY <1>5, <1>6, <1>7, <1>8

(* A number is made, or used again.                                        *)
LEMMA SendStep == ASSUME ConfirmsBounds, ConfirmsInv, Confirms!Send PROVE ConfirmsInv'
<1> DEFINE id == Confirms!Numbered
<1>0. /\ offered # 0 /\ Len(sends) < MaxSends
      /\ frozen' = id /\ meant' = [meant EXCEPT ![id] = offered] /\ sends' = Append(sends, id)
      /\ posts' = posts \cup {Len(sends) + 1} /\ answer' = "none" /\ sending' = TRUE
      /\ UNCHANGED <<offered, listed, polled, jobs, confirmed, loads>>
  BY DEF Confirms!Send
<1>1. /\ offered \in 0 .. MaxConfirmed /\ frozen \in 0 .. MaxSends /\ meant \in [Confirms!Ids -> 0 .. MaxConfirmed]
      /\ confirmed \in 0 .. MaxConfirmed /\ MaxSends \in Nat /\ MaxConfirmed \in Nat
      /\ posts \subseteq 1 .. Len(sends) /\ jobs \in Confirms!Lists
      /\ NumberFacts /\ PageFacts
  BY DEF ConfirmsInv, Confirms!TypeOK, ConfirmsBounds
<1>2. sends \in Seq(Confirms!Ids) /\ Len(sends) \in 0 .. MaxSends /\ \A n \in 1 .. Len(sends) : sends[n] \in Confirms!Ids
  BY SendsTyped DEF ConfirmsInv
<1>3. id \in Confirms!Ids /\ id \in 1 .. MaxSends /\ id # 0
  BY <1>0, <1>1, NextNumber DEF Confirms!Numbered, ConfirmsInv, Confirms!Ids
<1>4. frozen # 0 => id = frozen /\ meant[id] = offered
  BY <1>0, <1>1 DEF Confirms!Numbered, PageFacts
<1>5. frozen = 0 => /\ meant[id] = 0 /\ (\A k \in Confirms!Ids : k < id => meant[k] # 0) /\ id <= Len(sends) + 1
                    /\ \A i \in Confirms!Ids : meant[i] # offered
  BY <1>0, <1>1, NextNumber DEF Confirms!Numbered, ConfirmsInv, PageFacts
<1>6. /\ sends' \in Seq(Confirms!Ids) /\ Len(sends') = Len(sends) + 1 /\ sends'[Len(sends) + 1] = id
      /\ \A n \in 1 .. Len(sends) : sends'[n] = sends[n]
  BY <1>0, <1>2, <1>3
<1> HIDE DEF id
<1>7. /\ meant' \in [Confirms!Ids -> 0 .. MaxConfirmed] /\ meant'[id] = offered
      /\ \A i \in Confirms!Ids \ {id} : meant'[i] = meant[i]
  BY <1>0, <1>1, <1>3
<1>8. Confirms!TypeOK'
  <2>1. sends' \in [1 .. Len(sends) + 1 -> Confirms!Ids] /\ Len(sends) + 1 \in 0 .. MaxSends
    <3>1. sends' \in [1 .. Len(sends') -> Confirms!Ids]
      BY <1>6
    <3> QED BY <3>1, <1>0, <1>1, <1>2, <1>6
  <2>2. sends' \in UNION {[1 .. n -> Confirms!Ids] : n \in 0 .. MaxSends}
    BY <2>1
  <2>3. posts' \subseteq 1 .. Len(sends')
    <3>1. \A n \in 1 .. Len(sends) : n \in 1 .. Len(sends) + 1
      BY <1>2
    <3>2. Len(sends) + 1 \in 1 .. Len(sends) + 1
      BY <1>2
    <3> QED BY <3>1, <3>2, <1>0, <1>1, <1>6
  <2>4. frozen' \in 0 .. MaxSends /\ sending' \in BOOLEAN /\ answer' \in Confirms!Answers
    BY <1>0, <1>3, <1>1 DEF Confirms!Answers
  <2> QED BY <2>2, <2>3, <2>4, <1>0, <1>7 DEF Confirms!TypeOK, ConfirmsInv
<1>9. \A i, j \in Confirms!Ids : i # j /\ meant'[i] # 0 => meant'[i] # meant'[j]
  <2>1. CASE frozen # 0
    <3>1. meant' = meant
      BY <2>1, <1>4, <1>1, <1>7
    <3> QED BY <3>1, <1>1 DEF NumberFacts
  <2>2. CASE frozen = 0
    <3>1. \A i, j \in Confirms!Ids : i # j /\ meant[i] # 0 => meant[i] # meant[j]
      BY <1>1 DEF NumberFacts
    <3> QED BY <2>2, <3>1, <1>5, <1>7
  <2> QED BY <2>1, <2>2
<1>10. \E m \in 0 .. Len(sends') : \A i \in Confirms!Ids : meant'[i] # 0 <=> i <= m
  <2>1. PICK m \in 0 .. Len(sends) : \A i \in Confirms!Ids : meant[i] # 0 <=> i <= m
    BY <1>1 DEF NumberFacts
  <2>2. CASE frozen # 0
    <3>1. \A i \in Confirms!Ids : meant'[i] # 0 <=> i <= m
      BY <2>2, <2>1, <1>4, <1>7
    <3>2. m \in 0 .. Len(sends')
      BY <1>6, <1>2
    <3> QED BY <3>1, <3>2
  <2>3. CASE frozen = 0
    <3>1. \A i \in Confirms!Ids : meant'[i] # 0 <=> i <= id
      <4> SUFFICES ASSUME NEW i \in Confirms!Ids PROVE meant'[i] # 0 <=> i <= id
        OBVIOUS
      <4>0. i \in Nat /\ id \in Nat
        BY <1>3, <1>1 DEF Confirms!Ids
      <4>1. CASE i = id
        BY <4>1, <4>0, <1>7, <1>0
      <4>2. CASE i < id
        BY <4>2, <4>0, <2>3, <1>5, <1>7
      <4>3. CASE i > id
        <5>1. ~(id <= m)
          BY <2>1, <2>3, <1>3, <1>5
        <5>2. ~(i <= m)
          BY <5>1, <4>3, <4>0
        <5> QED BY <5>2, <4>3, <4>0, <2>1, <1>7
      <4> QED BY <4>0, <4>1, <4>2, <4>3
    <3>2. id \in 0 .. Len(sends')
      BY <2>3, <1>3, <1>5, <1>6, <1>2
    <3> QED BY <3>1, <3>2
  <2> QED BY <2>2, <2>3
<1>11. /\ \A i \in Confirms!Ids : meant'[i] <= confirmed'
       /\ \A i \in Confirms!Ids : meant[i] # 0 => meant'[i] # 0
  BY <1>0, <1>1, <1>7 DEF NumberFacts, PageFacts
<1>12. \A n \in 1 .. Len(sends') : meant'[sends'[n]] # 0
  <2> SUFFICES ASSUME NEW n \in 1 .. Len(sends') PROVE meant'[sends'[n]] # 0
    OBVIOUS
  <2>1. n \in 1 .. Len(sends) \/ n = Len(sends) + 1
    BY <1>6, <1>2
  <2>2. CASE n = Len(sends) + 1
    BY <2>2, <1>6, <1>7, <1>0
  <2>3. CASE n \in 1 .. Len(sends)
    BY <2>3, <1>6, <1>2, <1>11, <1>1 DEF NumberFacts
  <2> QED BY <2>1, <2>2, <2>3
<1>13. \A i \in Confirms!Ids : jobs'[i] # Confirms!Absent => meant'[i] # 0
  BY <1>0, <1>1, <1>11 DEF NumberFacts
<1>14. PageFacts'
  BY <1>0, <1>1, <1>3, <1>7 DEF PageFacts
<1> QED BY <1>8, <1>9, <1>10, <1>11, <1>12, <1>13, <1>14 DEF ConfirmsInv, NumberFacts

(* The other steps make no number.                                         *)
LEMMA ConfirmsStep ==
  ASSUME ConfirmsBounds, ConfirmsInv, Confirms!Next
  PROVE  ConfirmsInv' /\ Confirms!NothingDisappears
<1>1. /\ offered \in 0 .. MaxConfirmed /\ frozen \in 0 .. MaxSends /\ meant \in [Confirms!Ids -> 0 .. MaxConfirmed]
      /\ confirmed \in 0 .. MaxConfirmed /\ MaxSends \in Nat /\ MaxConfirmed \in Nat /\ MaxLoads \in Nat
      /\ posts \subseteq 1 .. Len(sends) /\ jobs \in Confirms!Lists /\ listed \in Confirms!Lists
      /\ (polled = Confirms!NoPoll \/ polled \in Confirms!Lists) /\ loads \in 0 .. MaxLoads
      /\ sending \in BOOLEAN /\ answer \in Confirms!Answers /\ Page # "local"
      /\ NumberFacts /\ PageFacts /\ Confirms!TypeOK
  BY DEF ConfirmsInv, Confirms!TypeOK, ConfirmsBounds
<1>2. sends \in Seq(Confirms!Ids) /\ Len(sends) \in 0 .. MaxSends /\ \A n \in 1 .. Len(sends) : sends[n] \in Confirms!Ids
  BY SendsTyped, <1>1
<1>l. /\ Confirms!Empty \in Confirms!Lists
      /\ \A l \in Confirms!Lists, i \in Confirms!Ids, v \in {Confirms!Open, Confirms!Over} :
           [l EXCEPT ![i] = v] \in Confirms!Lists
      /\ \A k, l \in Confirms!Lists : Confirms!Newer(k, l) \in Confirms!Lists /\ \A i \in Confirms!Ids : Confirms!Newer(k, l)[i] >= k[i]
      /\ \A l \in Confirms!Lists, i \in Confirms!Ids : l[i] \in Nat
  BY DEF Confirms!Empty, Confirms!Lists, Confirms!Absent, Confirms!Open, Confirms!Over,
     Confirms!Newer
<1>z. 0 \in 0 .. MaxConfirmed /\ 0 \in 0 .. MaxSends /\ FALSE \in BOOLEAN
  BY <1>1
<1>k. UNCHANGED <<sends, jobs, meant, confirmed>> => NumberFacts'
  BY <1>1 DEF NumberFacts
<1>q. UNCHANGED listed => Confirms!NothingDisappears
  BY <1>1, <1>l DEF Confirms!NothingDisappears
<1>3. CASE Confirms!Confirm
  <2>0. UNCHANGED <<frozen, sending, listed, polled, sends, posts, answer, jobs, meant, loads>>
    BY <1>3 DEF Confirms!Confirm, Confirms!net
  <2>1. CASE frozen # 0
    <3>1. offered' = meant[frozen] /\ UNCHANGED confirmed /\ frozen \in Confirms!Ids
      BY <1>3, <2>1, <1>1 DEF Confirms!Confirm, Confirms!Ids
    <3>2. Confirms!TypeOK'
      BY <2>0, <3>1, <1>1 DEF Confirms!TypeOK
    <3>3. PageFacts'
      BY <2>0, <2>1, <3>1, <1>1 DEF PageFacts, NumberFacts
    <3> QED BY <2>0, <3>1, <3>2, <3>3, <1>k, <1>q DEF ConfirmsInv
  <2>2. CASE frozen = 0
    <3>1. confirmed < MaxConfirmed /\ confirmed' = confirmed + 1 /\ offered' = confirmed + 1
      BY <1>3, <2>2 DEF Confirms!Confirm
    <3>2. \A i \in Confirms!Ids : meant[i] <= confirmed /\ meant[i] \in Nat
      BY <1>1 DEF NumberFacts
    <3>3. offered' \in 0 .. MaxConfirmed /\ confirmed' \in 0 .. MaxConfirmed
      BY <3>1, <1>1
    <3>4. Confirms!TypeOK'
      BY <2>0, <3>3, <1>1 DEF Confirms!TypeOK
    <3>5. \A i \in Confirms!Ids : meant[i] <= confirmed' /\ meant[i] # offered'
      BY <3>1, <3>2, <1>1
    <3>6. NumberFacts'
      BY <2>0, <3>5, <1>1 DEF NumberFacts
    <3>7. PageFacts'
      BY <2>0, <2>2, <3>1, <3>3, <3>5, <1>1 DEF PageFacts
    <3> QED BY <2>0, <3>4, <3>6, <3>7, <1>q DEF ConfirmsInv
  <2> QED BY <2>1, <2>2
<1>4. CASE Confirms!PutAside
  <2>1. offered' = 0 /\ UNCHANGED <<frozen, sending, listed, polled, sends, posts, answer, jobs, meant, confirmed, loads>>
    BY <1>4 DEF Confirms!PutAside, Confirms!net
  <2>2. Confirms!TypeOK' /\ PageFacts'
    BY <2>1, <1>1 DEF Confirms!TypeOK, PageFacts
  <2> QED BY <2>1, <2>2, <1>k, <1>q DEF ConfirmsInv
<1>5. CASE Confirms!Send
  BY <1>5, SendStep, <1>q DEF Confirms!Send
<1>6. CASE Confirms!Confirmed
  <2>0. sending' = FALSE /\ frozen' = 0 /\ offered' = 0 /\ UNCHANGED <<polled, sends, posts, answer, jobs, meant, confirmed, loads>>
        /\ sending
    BY <1>6 DEF Confirms!Confirmed, Confirms!net
  <2>1. listed' \in Confirms!Lists /\ \A i \in Confirms!Ids : listed'[i] >= listed[i]
    <3> DEFINE id == sends[Len(sends)]
    <3>1. listed' = IF listed[id] = Confirms!Absent THEN [listed EXCEPT ![id] = Confirms!Open] ELSE listed
      BY <1>6 DEF Confirms!Confirmed
    <3>2. ASSUME NEW x, listed[x] = Confirms!Absent
          PROVE  /\ [listed EXCEPT ![x] = Confirms!Open] \in Confirms!Lists
                 /\ \A i \in Confirms!Ids : [listed EXCEPT ![x] = Confirms!Open][i] >= listed[i]
      <4> DEFINE l == [listed EXCEPT ![x] = Confirms!Open]
      <4>1. /\ l = [i \in Confirms!Ids |-> IF i = x THEN Confirms!Open ELSE listed[i]]
            /\ \A i \in Confirms!Ids : listed[i] \in {0, 1, 2}
        BY <1>1 DEF Confirms!Lists, Confirms!Absent, Confirms!Open, Confirms!Over
      <4>2. \A i \in Confirms!Ids : l[i] \in {0, 1, 2} /\ (l[i] = listed[i] \/ (l[i] = 1 /\ listed[i] = 0))
        BY <4>1, <3>2 DEF Confirms!Open, Confirms!Absent
      <4>3. l \in [Confirms!Ids -> {0, 1, 2}]
        BY <4>1, <4>2
      <4> HIDE DEF l
      <4>4. \A i \in Confirms!Ids : l[i] >= listed[i]
        BY <4>1, <4>2
      <4> QED BY <4>3, <4>4 DEF l, Confirms!Lists, Confirms!Absent, Confirms!Open, Confirms!Over
    <3>3. \A i \in Confirms!Ids : listed[i] >= listed[i]
      BY <1>1, <1>l
    <3> HIDE DEF id
    <3> QED BY <3>1, <3>2, <3>3, <1>1
  <2>2. Confirms!TypeOK' /\ PageFacts'
    <3>1. Confirms!TypeOK'
      BY <2>0, <2>1, <1>1, <1>z DEF Confirms!TypeOK
    <3>2. PageFacts'
      BY <2>0, <1>1 DEF PageFacts
    <3> QED BY <3>1, <3>2
  <2> QED BY <2>0, <2>1, <2>2, <1>k DEF ConfirmsInv, Confirms!NothingDisappears
<1>7. CASE Confirms!NotStarted
  <2>1. sending' = FALSE /\ frozen' = 0 /\ offered' = 0 /\ UNCHANGED <<listed, polled, sends, posts, answer, jobs, meant, confirmed, loads>>
    BY <1>7 DEF Confirms!NotStarted, Confirms!net
  <2>2. Confirms!TypeOK' /\ PageFacts'
    <3>1. Confirms!TypeOK'
      BY <2>1, <1>1, <1>z DEF Confirms!TypeOK
    <3>2. PageFacts'
      BY <2>1, <1>1 DEF PageFacts
    <3> QED BY <3>1, <3>2
  <2> QED BY <2>1, <2>2, <1>k, <1>q DEF ConfirmsInv
<1>8. CASE Confirms!Unanswered
  <2>1. sending' = FALSE /\ answer' = "none" /\ UNCHANGED <<offered, frozen, listed, polled, sends, posts, jobs, meant, confirmed, loads>>
    BY <1>8, <1>1 DEF Confirms!Unanswered
  <2>2. Confirms!TypeOK' /\ PageFacts'
    BY <2>1, <1>1 DEF Confirms!TypeOK, PageFacts, Confirms!Answers
  <2> QED BY <2>1, <2>2, <1>k, <1>q DEF ConfirmsInv
<1>9. CASE Confirms!Poll
  <2>1. polled' = jobs /\ UNCHANGED <<offered, frozen, sending, listed, sends, posts, answer, jobs, meant, confirmed, loads>>
    BY <1>9 DEF Confirms!Poll, Confirms!net
  <2>2. Confirms!TypeOK' /\ PageFacts'
    BY <2>1, <1>1 DEF Confirms!TypeOK, PageFacts
  <2> QED BY <2>1, <2>2, <1>k, <1>q DEF ConfirmsInv
<1>10. CASE Confirms!Polled
  <2>1. /\ polled' = Confirms!NoPoll /\ UNCHANGED <<sending, sends, posts, answer, jobs, meant, confirmed, loads>>
        /\ polled \in Confirms!Lists
        /\ (frozen' = 0 /\ offered' = 0) \/ UNCHANGED <<frozen, offered>>
        /\ listed' = listed \/ listed' = Confirms!Merged(listed, polled)
    BY <1>10, <1>1 DEF Confirms!Polled, Confirms!net
  <2>2. listed' \in Confirms!Lists /\ (Page = "servix" => \A i \in Confirms!Ids : listed'[i] >= listed[i])
    BY <2>1, <1>l, <1>1 DEF Confirms!Merged
  <2>3. Confirms!TypeOK' /\ PageFacts'
    BY <2>1, <2>2, <1>1 DEF Confirms!TypeOK, PageFacts
  <2> QED BY <2>1, <2>2, <2>3, <1>k DEF ConfirmsInv, Confirms!NothingDisappears
<1>11. CASE Confirms!Reload
  <2>1. /\ offered' = 0 /\ frozen' = 0 /\ sending' = FALSE /\ listed' = Confirms!Empty /\ polled' = Confirms!NoPoll
        /\ answer' = "none" /\ loads < MaxLoads /\ loads' = loads + 1
        /\ UNCHANGED <<sends, posts, jobs, meant, confirmed>>
    BY <1>11 DEF Confirms!Reload
  <2>2. loads' \in 0 .. MaxLoads /\ loads' # loads
    BY <2>1, <1>1
  <2>3. Confirms!TypeOK' /\ PageFacts'
    <3>1. "none" \in Confirms!Answers
      BY DEF Confirms!Answers
    <3>2. Confirms!TypeOK'
      BY <2>1, <2>2, <3>1, <1>1, <1>l, <1>z DEF Confirms!TypeOK
    <3>3. PageFacts'
      BY <2>1, <1>1 DEF PageFacts
    <3> QED BY <3>2, <3>3
  <2> QED BY <2>1, <2>2, <2>3, <1>k DEF ConfirmsInv, Confirms!NothingDisappears
<1>12. ASSUME NEW n \in 1 .. MaxSends, Confirms!Receive(n) PROVE ConfirmsInv' /\ Confirms!NothingDisappears
  <2>1. /\ UNCHANGED <<offered, frozen, sending, listed, polled, sends, meant, confirmed, loads>>
        /\ n \in posts /\ posts' = posts \ {n}
        /\ jobs' = jobs \/ jobs' = [jobs EXCEPT ![sends[n]] = Confirms!Open]
        /\ answer' \in {answer, "refused", "stored"}
    BY <1>12 DEF Confirms!Receive, Confirms!page
  <2>2. n \in 1 .. Len(sends) /\ sends[n] \in Confirms!Ids /\ meant[sends[n]] # 0
    BY <2>1, <1>1, <1>2 DEF NumberFacts
  <2>3. jobs' \in Confirms!Lists
    BY <2>1, <2>2, <1>1, <1>l
  <2>4. answer' \in Confirms!Answers /\ posts' \subseteq 1 .. Len(sends)
    BY <2>1, <1>1 DEF Confirms!Answers
  <2>5. \A i \in Confirms!Ids : jobs'[i] # Confirms!Absent => meant[i] # 0
    BY <2>1, <2>2, <1>1 DEF NumberFacts, Confirms!Lists
  <2>6. Confirms!TypeOK' /\ PageFacts'
    BY <2>1, <2>3, <2>4, <1>1 DEF Confirms!TypeOK, PageFacts
  <2>7. NumberFacts'
    BY <2>1, <2>5, <1>1 DEF NumberFacts
  <2> QED BY <2>1, <2>6, <2>7, <1>q DEF ConfirmsInv
<1>13. ASSUME NEW i \in Confirms!Ids, Confirms!Ends(i) PROVE ConfirmsInv' /\ Confirms!NothingDisappears
  <2>1. /\ UNCHANGED <<offered, frozen, sending, listed, polled, sends, posts, answer, meant, confirmed, loads>>
        /\ jobs[i] = Confirms!Open /\ jobs' = [jobs EXCEPT ![i] = Confirms!Over]
    BY <1>13 DEF Confirms!Ends, Confirms!page, Confirms!net
  <2>2. jobs' \in Confirms!Lists
    BY <2>1, <1>1, <1>l
  <2>3. \A j \in Confirms!Ids : jobs'[j] # Confirms!Absent => jobs[j] # Confirms!Absent
    BY <2>1, <1>1 DEF Confirms!Lists, Confirms!Open, Confirms!Absent
  <2>4. Confirms!TypeOK' /\ PageFacts'
    BY <2>1, <2>2, <1>1 DEF Confirms!TypeOK, PageFacts
  <2>5. NumberFacts'
    BY <2>1, <2>3, <1>1 DEF NumberFacts
  <2> QED BY <2>1, <2>4, <2>5, <1>q DEF ConfirmsInv
<1> QED BY <1>3, <1>4, <1>5, <1>6, <1>7, <1>8, <1>9, <1>10, <1>11, <1>12, <1>13 DEF Confirms!Next

(* Nothing that changes nothing breaks it.                                 *)
LEMMA ConfirmsStill ==
  ASSUME ConfirmsInv,
         UNCHANGED <<offered, frozen, sending, listed, polled, sends, posts, answer, jobs, meant, confirmed, loads>>
  PROVE  ConfirmsInv'
BY DEF ConfirmsInv, Confirms!TypeOK, NumberFacts, PageFacts

(* What was confirmed once is stored once.                                 *)
LEMMA ConfirmsSafe == ASSUME ConfirmsInv PROVE Confirms!OnceConfirmed
BY DEF ConfirmsInv, NumberFacts, Confirms!OnceConfirmed

(* Every step, and none, keeps the invariant, and no release that is shown *)
(* disappears.                                                             *)
LEMMA ConfirmsMove ==
  ASSUME ConfirmsBounds, ConfirmsInv, [Confirms!Next]_(Confirms!vars)
  PROVE  ConfirmsInv' /\ Confirms!NothingDisappears
<1>1. CASE Confirms!Next
  BY <1>1, ConfirmsStep
<1>2. CASE UNCHANGED Confirms!vars
  <2>1. UNCHANGED <<offered, frozen, sending, listed, polled, sends, posts, answer, jobs, meant,
                    confirmed, loads>>
    BY <1>2 DEF Confirms!vars
  <2>2. ConfirmsInv'
    BY <2>1, ConfirmsStill
  <2>3. \A i \in Confirms!Ids : listed[i] >= listed[i]
    BY DEF ConfirmsInv, Confirms!TypeOK, Confirms!Lists, Confirms!Absent, Confirms!Open,
       Confirms!Over
  <2> QED BY <2>1, <2>2, <2>3 DEF Confirms!NothingDisappears
<1> QED BY <1>1, <1>2
===============================================================================
