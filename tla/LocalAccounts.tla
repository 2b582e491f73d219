---------------------------- MODULE LocalAccounts ----------------------------
(***************************************************************************)
(* Local accounts, their sessions and the replacement of a password        *)
(* (repositories.ts, local-accounts.ts, the account routes of server.ts).  *)
(* A login is two transactions.  A change of a password reads the version  *)
(* it will replace, verifies the password that was typed, writes an        *)
(* approval to the audit file, and then takes row locks one after another: *)
(* the session, the credential of who asks, the credential that is         *)
(* replaced, the sessions it revokes.  Two changes may wait on each other, *)
(* and the database ends one of them.                                      *)
(* A password is the number of its version; 0 stands for a wrong one, and  *)
(* a credential at version 0 is not there yet.  The OIDC login is left out.*)
(***************************************************************************)
EXTENDS Naturals, FiniteSets, Sequences

CONSTANTS
  Users, Admin,        (* accounts; the one that may reset the others'      *)
  Signed,              (* who is signed in where as it begins: a sequence   *)
  LockAfter,           (* failures that lock an account (5)                 *)
  MaxSessions, MaxChanges, MaxVersions, MaxEvents         (* bounds         *)

VARIABLES
  credentials,  (* rows of local_credentials                                *)
  sessions,     (* rows of sessions                                         *)
  browser,      (* the cookie of a browser, and a login between its steps   *)
  changes,      (* changes of passwords: where each is                      *)
  audit,        (* password-actions.jsonl                                   *)
  events        (* bound: logins, logouts, lapses and restarts so far       *)

vars == <<credentials, sessions, browser, changes, audit, events>>

Sessions == 1 .. MaxSessions
Changes  == 1 .. MaxChanges
Browsers == 1 .. Len(Signed)
Nobody   == "nobody"
Steps    == {"none", "asked", "read", "verified", "approved", "live", "actor", "target",
             "closing", "ended"}
Outcomes == {"none", "denied", "session-expired", "credential-changed", "account-not-found",
             "approval-expired", "changed", "failed"}

NoSession == [user |-> Nobody, status |-> "none", aged |-> FALSE]
NoChange  == [step |-> "none", session |-> 0, target |-> Nobody, typed |-> 0, version |-> 0,
              late |-> FALSE, outcome |-> "none"]

TypeOK ==
  /\ credentials \in [Users -> [version : 0 .. MaxVersions, failures : 0 .. LockAfter,
                                locked : BOOLEAN]]
  /\ sessions \in [Sessions -> [user : Users \cup {Nobody}, aged : BOOLEAN,
                                status : {"none", "active", "revoked"}]]
  /\ browser \in [Browsers -> [session : 0 .. MaxSessions, principal : Users \cup {Nobody}]]
  /\ changes \in [Changes -> [step : Steps, session : 0 .. MaxSessions, late : BOOLEAN,
                              target : Users \cup {Nobody}, typed : 0 .. MaxVersions,
                              version : 0 .. MaxVersions, outcome : Outcomes]]
  /\ audit \subseteq Changes \X (Outcomes \cup {"approved"})
  /\ events \in 0 .. MaxEvents

(* Sessions are numbered as they are created.                              *)
Used == {s \in Sessions : sessions[s].status # "none"}

Init ==
  /\ credentials = [u \in Users |->
       [version |-> IF \E b \in Browsers : Signed[b] = u THEN 1 ELSE 0,
        failures |-> 0, locked |-> FALSE]]
  /\ sessions = [s \in Sessions |->
       IF s \in Browsers THEN [NoSession EXCEPT !.status = "active", !.user = Signed[s]]
       ELSE NoSession]
  /\ browser = [b \in Browsers |-> [session |-> b, principal |-> Nobody]]
  /\ changes = [c \in Changes |-> NoChange]
  /\ audit = {}
  /\ events = 0

Actor(c) == sessions[changes[c].session].user

--------------------------------------------------------------------------------
(* The rows that a change has locked until its transaction ends, and whom  *)
(* it waits for.                                                           *)

HoldsSession(c, s) == changes[c].session = s /\ changes[c].step \in {"live", "actor", "target"}
HoldsAccount(c, u) ==
  \/ changes[c].step \in {"actor", "target"} /\ Actor(c) = u
  \/ changes[c].step = "target" /\ changes[c].target = u

FreeSession(s) == \A c \in Changes : ~HoldsSession(c, s)
FreeAccount(u) == \A c \in Changes : ~HoldsAccount(c, u)

Revoked(c) == {s \in Sessions : sessions[s].user = changes[c].target /\ sessions[s].status = "active"}

WaitsFor(c, d) ==
  /\ c # d
  /\ \/ changes[c].step = "approved" /\ HoldsSession(d, changes[c].session)
     \/ changes[c].step = "live" /\ HoldsAccount(d, Actor(c))
     \/ changes[c].step = "actor" /\ HoldsAccount(d, changes[c].target)
     \/ changes[c].step = "target" /\ \E s \in Revoked(c) : HoldsSession(d, s)

Happens == events < MaxEvents /\ events' = events + 1

--------------------------------------------------------------------------------
(* Accounts and logins.                                                    *)

Renewed(u) == [version |-> credentials[u].version + 1, failures |-> 0, locked |-> FALSE]

(* The account is made, or given a new password from the command line.      *)
provisionLocalCredential(u) ==
  /\ Happens
  /\ FreeAccount(u)
  /\ credentials[u].version < MaxVersions
  /\ credentials' = [credentials EXCEPT ![u] = Renewed(u)]
  /\ UNCHANGED <<sessions, browser, changes, audit>>

(* What a password that is typed for an account does to its row.            *)
Accepts(u, typed) == credentials[u].version = typed /\ ~credentials[u].locked
Tried(u, typed) ==
  LET row == credentials[u]
      failures == IF row.failures + 1 > LockAfter THEN LockAfter ELSE row.failures + 1
  IN  IF row.locked THEN row
      ELSE IF row.version = typed THEN [row EXCEPT !.failures = 0]
      ELSE [row EXCEPT !.failures = failures, !.locked = failures = LockAfter]

(* Fifteen minutes pass.  The failures stay counted.                        *)
LockLapses(u) ==
  /\ Happens
  /\ credentials[u].locked
  /\ FreeAccount(u)
  /\ credentials' = [credentials EXCEPT ![u].locked = FALSE]
  /\ UNCHANGED <<sessions, browser, changes, audit>>

(* The first transaction of a login.                                        *)
Login(b, u) ==
  /\ Happens
  /\ browser[b].principal = Nobody
  /\ credentials[u].version > 0
  /\ FreeAccount(u)
  /\ \E typed \in {0, credentials[u].version} :
       /\ credentials' = [credentials EXCEPT ![u] = Tried(u, typed)]
       /\ browser' = IF Accepts(u, typed) THEN [browser EXCEPT ![b].principal = u] ELSE browser
  /\ UNCHANGED <<sessions, changes, audit>>

(* The second: a session, and the one of the cookie is revoked.             *)
createSession(b) ==
  LET fresh == Cardinality(Used) + 1
      old   == browser[b].session
  IN  /\ browser[b].principal # Nobody
      /\ fresh \in Sessions
      /\ old # 0 => FreeSession(old)
      /\ sessions' = [s \in Sessions |->
           IF s = fresh THEN [NoSession EXCEPT !.status = "active", !.user = browser[b].principal]
           ELSE IF s = old THEN [sessions[s] EXCEPT !.status = "revoked"] ELSE sessions[s]]
      /\ browser' = [browser EXCEPT ![b] = [session |-> fresh, principal |-> Nobody]]
      /\ UNCHANGED <<credentials, changes, audit, events>>

(* A request is answered for a session that is active and not too old; to  *)
(* find it, its row is written.                                            *)
Authentic(b) ==
  LET s == browser[b].session
  IN  s # 0 /\ sessions[s].status = "active" /\ ~sessions[s].aged /\ FreeSession(s)

revoke(b) ==
  /\ Happens
  /\ Authentic(b)
  /\ sessions' = [sessions EXCEPT ![browser[b].session].status = "revoked"]
  /\ browser' = [browser EXCEPT ![b].session = 0]
  /\ UNCHANGED <<credentials, changes, audit>>

(* Thirty minutes without a request, or twelve hours.                       *)
SessionAges(s) ==
  /\ Happens
  /\ sessions[s].status = "active" /\ ~sessions[s].aged
  /\ sessions' = [sessions EXCEPT ![s].aged = TRUE]
  /\ UNCHANGED <<credentials, browser, changes, audit>>

--------------------------------------------------------------------------------
(* A change of a password.                                                 *)

Becomes(c, step) == changes' = [changes EXCEPT ![c].step = step]
Ends(c, outcome) == changes' = [changes EXCEPT ![c].step = "ended", ![c].outcome = outcome]
Closes(c, outcome) == changes' = [changes EXCEPT ![c].step = "closing", ![c].outcome = outcome]

(* The form is sent: for oneself, or by the administrator for another.      *)
Ask(c, b, target) ==
  LET actor == sessions[browser[b].session].user
  IN  /\ changes[c].step = "none"
      /\ \A d \in Changes : d < c => changes[d].step # "none"
      /\ Authentic(b)
      /\ target = actor \/ actor = Admin
      /\ \E typed \in {0, credentials[actor].version} :
           changes' = [changes EXCEPT ![c] = [NoChange EXCEPT
             !.step = "asked", !.session = browser[b].session, !.target = target,
             !.typed = typed]]
      /\ UNCHANGED <<credentials, sessions, browser, audit, events>>

(* The version that is to be in force until the change is made.             *)
ReadVersion(c) ==
  /\ changes[c].step = "asked"
  /\ changes' = [changes EXCEPT ![c].step = "read", ![c].version = credentials[Actor(c)].version]
  /\ UNCHANGED <<credentials, sessions, browser, audit, events>>

Verify(c) ==
  LET u == Actor(c)
  IN  /\ changes[c].step = "read"
      /\ FreeAccount(u)
      /\ credentials' = [credentials EXCEPT ![u] = Tried(u, changes[c].typed)]
      /\ IF Accepts(u, changes[c].typed) THEN Becomes(c, "verified") ELSE Ends(c, "denied")
      /\ UNCHANGED <<sessions, browser, audit, events>>

(* The approval is on disk before the transaction begins.                   *)
Approve(c) ==
  /\ changes[c].step = "verified"
  /\ Becomes(c, "approved")
  /\ audit' = audit \cup {<<c, "approved">>}
  /\ UNCHANGED <<credentials, sessions, browser, events>>

(* A minute passes since the form was sent.                                 *)
ApprovalAges(c) ==
  /\ Happens
  /\ changes[c].step \in {"approved", "live", "actor"} /\ ~changes[c].late
  /\ changes' = [changes EXCEPT ![c].late = TRUE]
  /\ UNCHANGED <<credentials, sessions, browser, audit>>

(* The session is still there.  How old it is was decided with the request. *)
LockSession(c) ==
  /\ changes[c].step = "approved"
  /\ FreeSession(changes[c].session)
  /\ IF sessions[changes[c].session].status = "active" THEN Becomes(c, "live")
     ELSE Closes(c, "session-expired")
  /\ UNCHANGED <<credentials, sessions, browser, audit, events>>

(* Faulty form of LockActor: the credential is there, whatever its version. *)
LockActorOfAnyVersion(c) ==
  /\ changes[c].step = "live"
  /\ FreeAccount(Actor(c))
  /\ Becomes(c, "actor")
  /\ UNCHANGED <<credentials, sessions, browser, audit, events>>

(* The password that was verified is still in force.                        *)
LockActor(c) ==
  /\ changes[c].step = "live"
  /\ FreeAccount(Actor(c))
  /\ IF credentials[Actor(c)].version = changes[c].version THEN Becomes(c, "actor")
     ELSE Closes(c, "credential-changed")
  /\ UNCHANGED <<credentials, sessions, browser, audit, events>>

LockTarget(c) ==
  LET target == changes[c].target
  IN  /\ changes[c].step = "actor"
      /\ \A d \in Changes \ {c} : ~HoldsAccount(d, target)
      /\ IF credentials[target].version = 0 THEN Closes(c, "account-not-found")
         ELSE IF changes[c].late THEN Closes(c, "approval-expired")
         ELSE Becomes(c, "target")
      /\ UNCHANGED <<credentials, sessions, browser, audit, events>>

(* The password is replaced, and every session of the account revoked.      *)
Replace(c) ==
  LET target == changes[c].target
  IN  /\ changes[c].step = "target"
      /\ \A d \in Changes \ {c}, s \in Revoked(c) : ~HoldsSession(d, s)
      /\ credentials[target].version < MaxVersions
      /\ credentials' = [credentials EXCEPT ![target] = Renewed(target)]
      /\ sessions' = [s \in Sessions |-> IF s \in Revoked(c)
                        THEN [sessions[s] EXCEPT !.status = "revoked"] ELSE sessions[s]]
      /\ Closes(c, "changed")
      /\ UNCHANGED <<browser, audit, events>>

(* The database ends one of two that wait on each other; nothing of it is  *)
(* kept, and no result is written.                                         *)
Deadlocked(c) ==
  /\ \E d \in Changes : WaitsFor(c, d) /\ WaitsFor(d, c)
  /\ Ends(c, "failed")
  /\ UNCHANGED <<credentials, sessions, browser, audit, events>>

(* The result is written; for one's own change the cookie is cleared.       *)
Report(c) ==
  /\ changes[c].step = "closing"
  /\ audit' = audit \cup {<<c, changes[c].outcome>>}
  /\ Becomes(c, "ended")
  /\ browser' = [b \in Browsers |->
       IF /\ changes[c].outcome = "changed" /\ changes[c].target = Actor(c)
          /\ browser[b].session = changes[c].session
       THEN [browser[b] EXCEPT !.session = 0] ELSE browser[b]]
  /\ UNCHANGED <<credentials, sessions, events>>

(* The server stops: open transactions are undone, logins are lost.         *)
Restart ==
  /\ Happens
  /\ browser' = [b \in Browsers |-> [browser[b] EXCEPT !.principal = Nobody]]
  /\ changes' = [c \in Changes |->
       IF changes[c].step \in {"none", "ended"} THEN changes[c]
       ELSE [changes[c] EXCEPT !.step = "ended",
               !.outcome = IF changes[c].outcome = "changed" THEN "changed" ELSE "failed"]]
  /\ UNCHANGED <<credentials, sessions, audit>>

Advances(c) ==
  \/ ReadVersion(c) \/ Verify(c) \/ Approve(c) \/ LockSession(c) \/ LockActor(c)
  \/ LockTarget(c) \/ Replace(c) \/ Deadlocked(c) \/ Report(c)

Next ==
  \/ \E u \in Users : provisionLocalCredential(u) \/ LockLapses(u)
  \/ \E b \in Browsers : createSession(b) \/ revoke(b) \/ \E u \in Users : Login(b, u)
  \/ \E s \in Sessions : SessionAges(s)
  \/ \E c \in Changes :
       \/ Advances(c) \/ ApprovalAges(c)
       \/ \E b \in Browsers, u \in Users : Ask(c, b, u)
  \/ Restart

Spec == Init /\ [][Next]_vars

--------------------------------------------------------------------------------
(* Properties.                                                             *)

Changed(c) == changes[c].outcome = "changed"

(* A password is replaced only for who typed the one in force at that      *)
(* moment, in a session that was not ended meanwhile, after the approval   *)
(* was written, although changes, resets, logouts and logins of the same   *)
(* accounts come between the steps (local-accounts.ts:87-147).             *)
ChangeIsCurrent ==
  \A c \in Changes : Changed(c)' /\ ~Changed(c) =>
    /\ credentials[Actor(c)].version = changes[c].typed
    /\ sessions[changes[c].session].status = "active"
    /\ <<c, "approved">> \in audit

(* What the audit file says of a change is what became of it: it is there  *)
(* before the change is, and a result is never another one's               *)
(* (local-accounts.ts:117-150).                                            *)
AuditIsTrue ==
  \A c \in Changes :
    /\ Changed(c) => <<c, "approved">> \in audit
    /\ \A outcome \in Outcomes : <<c, outcome>> \in audit => changes[c].outcome = outcome
===============================================================================
