--------------------------- MODULE SystemEnrollment ---------------------------
(***************************************************************************)
(* A computer that connects itself (SystemEnrollment.cjs and its scripts): *)
(* the window signs in, takes up the device it remembers or registers a new*)
(* one, installs or restarts the connector, remembers it, sees to its      *)
(* policy, and waits for the first report.  A try may fail at every step   *)
(* and is repeated in the same window, which keeps what it registered; an  *)
(* answer may be lost, a script killed, the window closed and opened again *)
(* by another account.                                                     *)
(***************************************************************************)
EXTENDS Naturals, FiniteSets

CONSTANTS
  Users, DeviceLimit,               (* active devices of an account (10)    *)
  MaxDevices, MaxWindows, MaxTries, MaxRevokes, MaxLapses   (* bounds       *)

VARIABLES
  devices,    (* server: whose, active, seen of late, with a policy         *)
  config,     (* computer: device.dpapi of each device                      *)
  consent,    (* computer: state/discovery-consent.json says yes            *)
  cut,        (* computer: devices between whose two files a script ended   *)
  running,    (* computer: connectors at work                               *)
  remembered, (* computer: connection.json                                  *)
  form,       (* window: who connects, with file activity or not            *)
  step,       (* window: where enroll is                                    *)
  phase,      (* window: what is shown                                      *)
  pending,    (* window: the device of a connection that is not complete    *)
  made, lost, (* window: devices registered for it, and answers that failed *)
  windows, tries, revokes, lapses

computer == <<config, consent, cut, running, remembered>>
shown    == <<form, step, phase, pending, made, lost>>
bounds   == <<windows, revokes, lapses>>
vars     == <<devices, computer, shown, tries, bounds>>

Devices  == 1 .. MaxDevices
Nobody   == "nobody"
NoDevice == [user |-> Nobody, status |-> "none", seen |-> FALSE, policy |-> FALSE]
NoForm   == [user |-> Nobody, activity |-> FALSE]
NotYet   == [user |-> Nobody, device |-> 0, resume |-> FALSE]
Forms    == [user : Users \cup {Nobody}, activity : BOOLEAN]
Steps    == {"idle", "look", "pair", "install", "consent", "start", "remember", "policy", "wait"}

TypeOK ==
  /\ devices \in [Devices -> [user : Users \cup {Nobody}, seen : BOOLEAN, policy : BOOLEAN,
                              status : {"none", "active", "revoked"}]]
  /\ config \in [Devices -> Forms] /\ consent \in [Devices -> BOOLEAN]
  /\ running \subseteq Devices /\ cut \subseteq Devices
  /\ remembered \in [user : Users \cup {Nobody}, device : 0 .. MaxDevices]
  /\ form \in Forms /\ step \in Steps
  /\ phase \in {"ready", "busy", "failed", "waiting", "connected"}
  /\ pending \in [user : Users \cup {Nobody}, device : 0 .. MaxDevices, resume : BOOLEAN]
  /\ made \subseteq Devices /\ lost \subseteq made
  /\ <<windows, tries>> \in (1 .. MaxWindows) \X (0 .. MaxTries)
  /\ <<revokes, lapses>> \in (0 .. MaxRevokes) \X (0 .. MaxLapses)

Init ==
  /\ devices = [d \in Devices |-> NoDevice]
  /\ config = [d \in Devices |-> NoForm] /\ consent = [d \in Devices |-> FALSE]
  /\ running = {} /\ cut = {}
  /\ remembered = [user |-> Nobody, device |-> 0]
  /\ form = NoForm /\ step = "idle" /\ phase = "ready" /\ pending = NotYet
  /\ made = {} /\ lost = {}
  /\ windows = 1 /\ tries = 0 /\ revokes = 0 /\ lapses = 0

--------------------------------------------------------------------------------
(* A try, step by step.                                                    *)

Device == pending.device

(* The try ends, and what was registered is kept for the next.              *)
Fails == step' = "idle" /\ phase' = "failed" /\ UNCHANGED pending

Goes(s) == step' = s /\ UNCHANGED <<phase, pending>>

(* The form is sent, unless a try is busy or the computer is connected.     *)
(* Signing in may fail, and a try begun by another account is not taken.    *)
Connect(f) ==
  /\ step = "idle" /\ phase # "connected"
  /\ tries < MaxTries
  /\ tries' = tries + 1
  /\ form' = f
  /\ \/ Fails
     \/ /\ pending = NotYet \/ pending.user = f.user
        /\ phase' = "busy" /\ UNCHANGED pending
        /\ step' = IF pending = NotYet THEN "look" ELSE "install"
  /\ UNCHANGED <<devices, computer, made, lost, bounds>>

(* The device this computer remembers of the account, if it is active; else*)
(* a new one.                                                              *)
Look ==
  LET d == remembered.device
  IN  /\ step = "look"
      /\ \/ Fails
         \/ /\ UNCHANGED phase
            /\ IF remembered.user = form.user /\ devices[d].status = "active"
               THEN pending' = [user |-> form.user, device |-> d, resume |-> TRUE] /\ step' = "install"
               ELSE step' = "pair" /\ UNCHANGED pending
      /\ UNCHANGED <<devices, computer, form, made, lost, tries, bounds>>

Active(u) == {d \in Devices : devices[d].user = u /\ devices[d].status = "active"}

(* The server registers a device below the limit.  If its answer is lost   *)
(* the device is there, and this window does not know it.                  *)
Pair ==
  /\ step = "pair"
  /\ \/ Fails /\ UNCHANGED <<devices, made, lost>>
     \/ \E d \in Devices :
          /\ devices[d].status = "none" /\ \A e \in Devices : e < d => devices[e].status # "none"
          /\ Cardinality(Active(form.user)) < DeviceLimit
          /\ devices' = [devices EXCEPT ![d] =
               [NoDevice EXCEPT !.user = form.user, !.status = "active"]]
          /\ made' = made \cup {d}
          /\ \/ lost' = lost \cup {d} /\ Fails
             \/ /\ pending' = [user |-> form.user, device |-> d, resume |-> FALSE]
                /\ step' = "install" /\ UNCHANGED <<phase, lost>>
  /\ UNCHANGED <<computer, form, tries, bounds>>

(* The protected configuration of a new connector: written once, and found *)
(* the same by a later try.                                                *)
Install ==
  /\ step = "install" /\ ~pending.resume
  /\ \/ Fails /\ UNCHANGED config
     \/ /\ config[Device] \in {NoForm, form}
        /\ config' = [config EXCEPT ![Device] = form]
        /\ Goes("consent") \/ Fails
  /\ UNCHANGED <<devices, consent, cut, running, remembered, form, made, lost, tries, bounds>>

(* Its consent file, if file activity is asked for.                         *)
Consent ==
  /\ step = "consent" /\ ~pending.resume
  /\ consent' = [consent EXCEPT ![Device] = @ \/ form.activity]
  /\ Goes("start") \/ Fails
  /\ UNCHANGED <<devices, config, cut, running, remembered, form, made, lost, tries, bounds>>

(* The connector that is there must be the account's.  If file activity is *)
(* asked for otherwise than before it is stopped and its configuration is  *)
(* replaced.                                                               *)
Resume ==
  /\ step = "install" /\ pending.resume
  /\ \/ /\ Fails /\ UNCHANGED <<config, cut>>
        /\ running' \in {running, running \ {Device}}
     \/ /\ config[Device].user = form.user
        /\ IF config[Device].activity = form.activity
           THEN Goes("start") /\ UNCHANGED <<config, cut, running>>
           ELSE /\ running' = running \ {Device}
                /\ config' = [config EXCEPT ![Device] = form]
                /\ \/ Goes("consent") /\ UNCHANGED cut
                   \/ Fails /\ cut' = cut \cup {Device}
  /\ UNCHANGED <<devices, consent, remembered, form, made, lost, tries, bounds>>

(* Its consent file is written over.                                        *)
ResumeConsent ==
  /\ step = "consent" /\ pending.resume
  /\ consent' = [consent EXCEPT ![Device] = form.activity]
  /\ cut' = cut \ {Device}
  /\ Goes("start") \/ Fails
  /\ UNCHANGED <<devices, config, running, remembered, form, made, lost, tries, bounds>>

Start ==
  /\ step = "start"
  /\ \/ Fails /\ UNCHANGED running
     \/ running' = running \cup {Device} /\ (Goes("remember") \/ Fails)
  /\ UNCHANGED <<devices, config, consent, cut, remembered, form, made, lost, tries, bounds>>

Remember ==
  /\ step = "remember"
  /\ \/ Fails /\ UNCHANGED remembered
     \/ /\ remembered' = [user |-> form.user, device |-> Device]
        /\ Goes(IF form.activity THEN "policy" ELSE "wait")
  /\ UNCHANGED <<devices, config, consent, cut, running, form, made, lost, tries, bounds>>

(* A policy is made if the device has none.                                 *)
SeePolicy ==
  /\ step = "policy"
  /\ \/ Fails /\ UNCHANGED devices
     \/ /\ devices' = [devices EXCEPT ![Device].policy = TRUE]
        /\ Goes("wait") \/ Fails
  /\ UNCHANGED <<computer, form, made, lost, tries, bounds>>

(* The server has seen the device report; or the time is over, and the next*)
(* try goes on with the same device.                                       *)
Await ==
  /\ step = "wait"
  /\ \/ Fails
     \/ step' = "idle" /\ phase' = "waiting" /\ UNCHANGED pending
     \/ /\ devices[Device].seen
        /\ step' = "idle" /\ phase' = "connected" /\ pending' = NotYet
  /\ UNCHANGED <<devices, computer, form, made, lost, tries, bounds>>

--------------------------------------------------------------------------------
(* What happens beside the window.                                         *)

(* A connector reports; twenty seconds without a report pass.               *)
Heartbeat(d) ==
  /\ d \in running /\ devices[d].status = "active" /\ ~devices[d].seen
  /\ devices' = [devices EXCEPT ![d].seen = TRUE]
  /\ UNCHANGED <<computer, shown, tries, bounds>>

Lapse(d) ==
  /\ devices[d].seen
  /\ lapses < MaxLapses
  /\ lapses' = lapses + 1
  /\ devices' = [devices EXCEPT ![d].seen = FALSE]
  /\ UNCHANGED <<computer, shown, tries, windows, revokes>>

Revoke(d) ==
  /\ devices[d].status = "active"
  /\ revokes < MaxRevokes
  /\ revokes' = revokes + 1
  /\ devices' = [devices EXCEPT ![d].status = "revoked", ![d].seen = FALSE]
  /\ UNCHANGED <<computer, shown, tries, windows, lapses>>

(* The window is closed or lapses, at any step, and is opened again.        *)
Reopen ==
  /\ windows < MaxWindows
  /\ windows' = windows + 1
  /\ step' = "idle" /\ phase' = "ready" /\ pending' = NotYet /\ form' = NoForm
  /\ made' = {} /\ lost' = {} /\ tries' = 0
  /\ cut' = IF step = "consent" THEN cut \cup {Device} ELSE cut
  /\ UNCHANGED <<devices, config, consent, running, remembered, revokes, lapses>>

Enrolls ==
  \/ Look \/ Pair \/ Install \/ Consent \/ Resume \/ ResumeConsent \/ Start \/ Remember
  \/ SeePolicy \/ Await

Next ==
  \/ \E f \in [user : Users, activity : BOOLEAN] : Connect(f)
  \/ Enrolls
  \/ \E d \in Devices : Heartbeat(d) \/ Lapse(d) \/ Revoke(d)
  \/ Reopen

Spec == Init /\ [][Next]_vars

--------------------------------------------------------------------------------
(* Properties.                                                             *)

(* A window registers one device at most of which it had the answer,       *)
(* however often it is tried again (SystemEnrollment.cjs:239-273, 385-387: *)
(* "the existing pairing will be reused").                                 *)
RetriesReuse == Cardinality(made \ lost) <= 1

(* "Connected" is said of the account's own device, whose connector this   *)
(* computer holds and remembers under that account, with the file activity *)
(* that was asked for and a policy for it; the consent that its collector  *)
(* reads says the same, unless a script ended between its two files        *)
(* (SystemEnrollment.cjs:334-381, Resume-SystemConnector.ps1:19-24).       *)
ConnectedAsAsked ==
  phase = "connected" =>
    LET d == remembered.device
    IN  /\ remembered.user = form.user /\ devices[d].user = form.user
        /\ config[d] = form
        /\ form.activity => devices[d].policy
        /\ d \in cut \/ consent[d] = form.activity
===============================================================================
