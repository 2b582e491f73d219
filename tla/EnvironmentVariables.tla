------------------------- MODULE EnvironmentVariables -------------------------
(***************************************************************************)
(* The environment file of a service, edited from the control center: the  *)
(* dialog (apps/control-center/src/EnvironmentVariables.tsx), the requests *)
(* the control plane keeps (local-development.ts), and the runtime on the  *)
(* developer's computer that reads and replaces the file                   *)
(* (LocalDevelopment.cjs, EnvironmentEditor.cjs).                          *)
(*                                                                         *)
(* One file.  Its text gives each key a value or Missing, and stands for   *)
(* the digests taken of it: the revision of a document, and what the file  *)
(* contributes to the fingerprint of the observation.  A draft or a list of*)
(* changes says of each key Same, a value, or Missing (delete it).  What is*)
(* sealed for the runtime's key can be opened by the process that made the *)
(* key only; a process is known by its number.  Refusals and failures that *)
(* LocalDevelopment goes into (services that run, a device that is revoked)*)
(* may come at any time here.                                              *)
(***************************************************************************)
EXTENDS Naturals, FiniteSets

CONSTANTS
  Keys, Values, Missing, Same,
  FirstText, FirstPlan, FirstShown,   (* the file, its plan, the text shown at first *)
  MaxRequests, MaxCopies, MaxEvents                                (* bounds *)

VARIABLES
  text,        (* the file                                                  *)
  planned,     (* configuration.json: revision (0 for none) and the files of it *)
  claimed,     (* ld_*.claim                                                *)
  receipts,    (* ld_*.receipt.json: the result of each, or "none"          *)
  runtime,     (* what the runtime does, and what it has read               *)
  boot,        (* the runtime's process                                     *)
  observed,    (* control plane: the last observation                       *)
  jobs,        (* control plane: the status of each request                 *)
  documents,   (* control plane: the text a read was answered with          *)
  connection,  (* dialog: the observation it was told of                    *)
  document,    (* dialog: the text shown, or NoText                         *)
  draft,       (* dialog: what the user made of it                          *)
  pending,     (* dialog: the request that is waited for, 0 if none         *)
  frozen,      (* dialog: the request a retry would send, 0 if none         *)
  sending,     (* dialog: a request is out                                  *)
  uncertain,   (* dialog: a retry is offered                                *)
  savedNotice, (* dialog: the next document follows a save                  *)
  message,     (* dialog: what the user is told                             *)
  requests,    (* each request, as the dialog made it                       *)
  posts,       (* network: how many copies of each may still reach the server *)
  answer,      (* network: what the server said to the last                 *)
  replaced,    (* the requests under which the file was replaced            *)
  events       (* writes by other programs, stops, reopened dialogs so far    *)

disk    == <<text, planned, claimed, receipts>>
agent   == <<runtime, boot>>
server  == <<observed, jobs, documents>>
dialog  == <<connection, document, draft, pending, frozen, sending, uncertain, savedNotice, message>>
network == <<requests, posts, answer>>
vars    == <<disk, agent, server, dialog, network, replaced, events>>

Ids      == 1 .. MaxRequests
Texts    == [Keys -> Values \cup {Missing}]
NoText   == [k \in Keys |-> Same]
Changes  == [Keys -> Values \cup {Missing, Same}]
Untouched == [k \in Keys |-> Same]
Outcomes == {"succeeded", "failed", "recovery-required"}
Unmade   == [op |-> "none", rev |-> 0, files |-> NoText, key |-> 0, base |-> NoText, changes |-> Untouched]
Idle     == [step |-> "idle", job |-> 0, held |-> NoText, result |-> "none"]
NoReceipt == [result |-> "none", held |-> NoText]
Copies   == 0 .. MaxCopies

(* What an observation says: the revision of the plan, the files, the key. *)
Snapshot == [rev |-> planned.rev, files |-> text, key |-> boot]

TypeOK ==
  LET texts == Texts \cup {NoText}
      seen  == [rev : 0 .. FirstPlan + MaxRequests, files : Texts, key : 0 .. MaxEvents]
  IN  /\ text \in Texts /\ planned \in [rev : 0 .. FirstPlan + MaxRequests, files : Texts]
      /\ claimed \subseteq Ids /\ receipts \in [Ids -> [result : Outcomes \cup {"none"}, held : texts]]
      /\ runtime.step \in {"idle", "given", "claimed", "reading", "editing", "opened", "patched",
                           "replaced", "over", "done"}
      /\ runtime.job \in 0 .. MaxRequests /\ runtime.held \in texts
      /\ runtime.result \in Outcomes \cup {"none"}
      /\ boot \in 0 .. MaxEvents /\ observed \in seen /\ connection \in seen
      /\ jobs \in [Ids -> Outcomes \cup {"none", "queued", "working"}]
      /\ documents \in [Ids -> texts] /\ document \in texts /\ draft \in Changes
      /\ pending \in 0 .. MaxRequests /\ frozen \in {0, pending}
      /\ sending \in BOOLEAN /\ uncertain \in BOOLEAN /\ savedNotice \in BOOLEAN
      /\ message \in {"none", "loading", "loaded", "saving", "saved", "failed", "not saved", "unconfirmed"}
      /\ posts \in [Ids -> Copies] /\ answer \in {"none", "stored", "refused"} /\ replaced \subseteq Ids
      /\ \A i \in Ids : requests[i].op \in {"none", "read", "save"} /\ requests[i].changes \in Changes
      /\ events \in 0 .. MaxEvents

Init ==
  /\ text = FirstText /\ planned = [rev |-> FirstPlan, files |-> text]
  /\ claimed = {} /\ receipts = [i \in Ids |-> NoReceipt]
  /\ runtime = Idle /\ boot = 0
  /\ observed = Snapshot /\ connection = Snapshot
  /\ jobs = [i \in Ids |-> "none"] /\ documents = [i \in Ids |-> NoText]
  /\ document = FirstShown /\ draft = Untouched /\ pending = 0 /\ frozen = 0
  /\ sending = FALSE /\ uncertain = FALSE /\ savedNotice = FALSE
  /\ message = IF document = NoText THEN "none" ELSE "loaded"
  /\ requests = [i \in Ids |-> Unmade] /\ posts = [i \in Ids |-> 0] /\ answer = "none"
  /\ replaced = {} /\ events = 0

--------------------------------------------------------------------------------
(* The dialog.                                                             *)

Event   == events < MaxEvents /\ events' = events + 1
Busy    == pending # 0 \/ sending
Dirty   == draft # Untouched
Missed  == {i \in Ids : requests[i].op = "none"}

(* What was decided is sent under a number, and again under the same.      *)
Sends(id) ==
  /\ sending' = TRUE /\ pending' = id /\ frozen' = id /\ uncertain' = FALSE
  /\ posts[id] + 1 \in Copies
  /\ posts' = [posts EXCEPT ![id] = @ + 1] /\ answer' = "none"

(* A new request about the connection seen.                                *)
Asks(seen, op, base, changes) ==
  \E id \in Missed :
    /\ \A i \in Missed : id <= i
    /\ requests' = [requests EXCEPT ![id] =
         [op |-> op, rev |-> seen.rev, files |-> seen.files, key |-> seen.key,
          base |-> base, changes |-> changes]]
    /\ Sends(id)

(* The document shown is asked for again.  Nothing is sent to a connection *)
(* that is offline or not ready, nor while something else is out.          *)
Reads(seen, told, out) ==
  \/ message' = told /\ pending' = 0 /\ frozen' = 0 /\ uncertain' = FALSE
     /\ UNCHANGED <<sending, network>>
  \/ /\ message' = "loading"
     /\ IF out THEN pending' = 0 /\ frozen' = 0 /\ uncertain' = FALSE /\ UNCHANGED <<sending, network>>
               ELSE Asks(seen, "read", NoText, Untouched)

Reload ==
  /\ ~Busy
  /\ document' = NoText /\ draft' = Untouched
  /\ Reads(connection, message, FALSE)
  /\ UNCHANGED <<disk, agent, server, connection, savedNotice, replaced, events>>

(* The dialog is closed, or the page reloaded, and opened again.           *)
Reopen ==
  /\ Event
  /\ document' = NoText /\ draft' = Untouched /\ savedNotice' = FALSE
  /\ connection' = observed
  /\ \/ message' = "loading" /\ Asks(observed, "read", NoText, Untouched)
     \/ /\ message' = "none" /\ pending' = 0 /\ frozen' = 0 /\ uncertain' = FALSE /\ sending' = FALSE
        /\ UNCHANGED network
  /\ UNCHANGED <<disk, agent, server, replaced>>

(* The user sets a value, deletes a row, or undoes either.                 *)
Edit(k, v) ==
  /\ ~Busy /\ document # NoText
  /\ v = Missing => document[k] # Missing
  /\ draft[k] # v /\ (draft[k] = Missing => v = Same)
  /\ draft' = [draft EXCEPT ![k] = v]
  /\ UNCHANGED <<disk, agent, server, connection, document, pending, frozen, sending, uncertain,
                 savedNotice, message, network, replaced, events>>

Save ==
  /\ ~Busy /\ document # NoText /\ Dirty
  /\ message' = "saving"
  /\ Asks(connection, "save", document, draft)
  /\ UNCHANGED <<disk, agent, server, connection, document, draft, savedNotice, replaced, events>>

Retry ==
  /\ uncertain /\ ~sending /\ frozen # 0
  /\ Sends(frozen)
  /\ UNCHANGED <<disk, agent, server, connection, document, draft, savedNotice, message, requests,
                 replaced, events>>

(* An answer to the request that is out, one that it is not kept, or none. *)
Answered ==
  /\ sending /\ answer = "stored"
  /\ sending' = FALSE /\ answer' = "none"
  /\ UNCHANGED <<disk, agent, server, connection, document, draft, pending, frozen, uncertain,
                 savedNotice, message, requests, posts, replaced, events>>

Refused ==
  /\ sending /\ answer = "refused"
  /\ sending' = FALSE /\ pending' = 0 /\ frozen' = 0 /\ message' = "not saved" /\ answer' = "none"
  /\ UNCHANGED <<disk, agent, server, connection, document, draft, uncertain, savedNotice, requests,
                 posts, replaced, events>>

Unanswered ==
  /\ sending
  /\ sending' = FALSE /\ uncertain' = TRUE /\ message' = "unconfirmed" /\ answer' = "none"
  /\ UNCHANGED <<disk, agent, server, connection, document, draft, pending, frozen, savedNotice,
                 requests, posts, replaced, events>>

(* The request waited for is over: a document replaces the one shown, a    *)
(* save is followed by a read.                                             *)
Settles ==
  IF jobs[pending] # "succeeded"
  THEN /\ message' = "failed" /\ pending' = 0 /\ frozen' = 0 /\ uncertain' = FALSE
       /\ UNCHANGED <<document, draft, savedNotice, sending, network>>
  ELSE /\ draft' = Untouched
       /\ IF requests[pending].op = "read"
          THEN /\ document' = documents[pending]
               /\ message' = IF savedNotice THEN "saved" ELSE "loaded"
               /\ savedNotice' = FALSE
               /\ pending' = 0 /\ frozen' = 0 /\ uncertain' = FALSE
               /\ UNCHANGED <<sending, network>>
          ELSE /\ document' = NoText /\ savedNotice' = TRUE
               /\ Reads(observed, "saved", sending)

Settled == pending # 0 /\ jobs[pending] \in Outcomes

(* The page asks the control plane what there is.  Requests that are over  *)
(* stay as they are, so that a list that comes late says nothing else.     *)
Poll ==
  /\ connection' = observed
  /\ \/ Settled /\ Settles
     \/ /\ ~Settled /\ connection # observed
        /\ UNCHANGED <<document, draft, pending, frozen, sending, uncertain, savedNotice, message, network>>
  /\ UNCHANGED <<disk, agent, server, replaced, events>>

--------------------------------------------------------------------------------
(* The control plane.                                                      *)

(* A request that is known is answered as before; a new one is kept if it  *)
(* is about what was observed, sealed for the key observed, and nothing is *)
(* under way.                                                              *)
Accepts(id) ==
  /\ \A i \in Ids : jobs[i] \notin {"queued", "working"}
  /\ requests[id].rev = observed.rev /\ requests[id].files = observed.files
  /\ requests[id].op = "save" => requests[id].key = observed.key

Receive(id) ==
  LET Says(a) == answer' = IF sending /\ pending = id THEN a ELSE answer
  IN  /\ posts[id] > 0
      /\ posts' = [posts EXCEPT ![id] = @ - 1]
      /\ \/ Says("refused") /\ UNCHANGED jobs
         \/ jobs[id] # "none" /\ Says("stored") /\ UNCHANGED jobs
         \/ jobs[id] = "none" /\ Accepts(id) /\ Says("stored") /\ jobs' = [jobs EXCEPT ![id] = "queued"]
      /\ UNCHANGED <<disk, agent, observed, documents, dialog, requests, replaced, events>>

(* The runtime asks for a job: one that waited for two minutes is over, one*)
(* that was handed out is handed out again, and the answer may be lost.    *)
Claim(id) ==
  /\ runtime.step = "idle" /\ jobs[id] \in {"queued", "working"}
  /\ \/ jobs[id] = "queued" /\ jobs' = [jobs EXCEPT ![id] = "failed"] /\ UNCHANGED runtime
     \/ /\ jobs' = [jobs EXCEPT ![id] = "working"]
        /\ runtime' \in {[Idle EXCEPT !.step = "given", !.job = id], runtime}
        /\ <<jobs, runtime>>' # <<jobs, runtime>>
  /\ UNCHANGED <<disk, boot, observed, documents, dialog, network, replaced, events>>

Complete ==
  LET id == runtime.job
  IN  /\ runtime.step = "done"
      /\ runtime' = Idle
      /\ \/ UNCHANGED <<jobs, documents>>
         \/ /\ jobs[id] = "working"
            /\ jobs' = [jobs EXCEPT ![id] = runtime.result]
            /\ documents' = IF requests[id].op = "read" /\ runtime.result = "succeeded"
                            THEN [documents EXCEPT ![id] = runtime.held] ELSE documents
      /\ UNCHANGED <<disk, boot, observed, dialog, network, replaced, events>>

--------------------------------------------------------------------------------
(* The runtime.  Its chain does one thing at a time; other programs change *)
(* the file between any two of them.                                       *)

To(step)     == runtime' = [runtime EXCEPT !.step = step]
Ends(result) == runtime' = [runtime EXCEPT !.step = "over", !.result = result]
Fails        == Ends("failed") /\ UNCHANGED <<disk, replaced>>
At(step)     == runtime.step = step /\ UNCHANGED <<boot, server, dialog, network, events>>

Patched(old, changes) == [k \in Keys |-> IF changes[k] = Same THEN old[k] ELSE changes[k]]

(* A job that has a receipt is answered by it, one that was only begun is  *)
(* not done again.                                                         *)
Begin ==
  LET id == runtime.job
  IN  /\ At("given")
      /\ IF receipts[id] # NoReceipt
         THEN /\ runtime' = [runtime EXCEPT !.step = "done", !.result = receipts[id].result,
                                            !.held = receipts[id].held]
              /\ UNCHANGED claimed
         ELSE IF id \in claimed
         THEN /\ runtime' = [runtime EXCEPT !.step = "done", !.result = "recovery-required"]
              /\ UNCHANGED claimed
         ELSE To("claimed") /\ claimed' = claimed \cup {id}
      /\ UNCHANGED <<text, planned, receipts, replaced>>

(* It looks at what there is, which must be what the request is about.     *)
Look ==
  LET r == requests[runtime.job]
  IN  /\ At("claimed")
      /\ \/ Fails
         \/ /\ r.rev = planned.rev /\ r.files = text
            /\ To(IF r.op = "read" THEN "reading" ELSE "editing")
            /\ UNCHANGED <<disk, replaced>>

Read ==
  /\ At("reading")
  /\ \/ Fails
     \/ /\ runtime' = [runtime EXCEPT !.step = "over", !.result = "succeeded", !.held = text]
        /\ UNCHANGED <<disk, replaced>>

(* The key must be this process's and the document the one that was shown. *)
Open ==
  LET r == requests[runtime.job]
  IN  /\ At("editing")
      /\ \/ Fails
         \/ r.key = boot /\ r.base = text /\ To("opened") /\ UNCHANGED <<disk, replaced>>

(* The file is read again, compared, and the changes are made to it.       *)
Patch ==
  /\ At("opened")
  /\ \/ Fails
     \/ /\ text = requests[runtime.job].base
        /\ runtime' = [runtime EXCEPT !.step = "patched", !.held = text]
        /\ UNCHANGED <<disk, replaced>>

(* A helper holds the file, compares it and puts another in its place: the *)
(* comparison and the replacement are one step.  Whether it did may remain *)
(* unknown.                                                                *)
Replace ==
  LET id == runtime.job
  IN  /\ At("patched")
      /\ \/ Fails
         \/ /\ text = runtime.held
            /\ text' = Patched(text, requests[id].changes)
            /\ replaced' = replaced \cup {id}
            /\ To("replaced") \/ Ends("failed")
            /\ UNCHANGED <<planned, claimed, receipts>>

(* A plan there is takes the files as they are now.                        *)
Advance ==
  /\ At("replaced")
  /\ \/ Fails
     \/ /\ planned' = IF planned.rev > 0 THEN [rev |-> planned.rev + 1, files |-> text] ELSE planned
        /\ Ends("succeeded")
        /\ UNCHANGED <<text, claimed, receipts, replaced>>

WriteReceipt ==
  /\ At("over")
  /\ \/ receipts' = [receipts EXCEPT ![runtime.job] = [result |-> runtime.result, held |-> runtime.held]]
        /\ To("done")
     \/ UNCHANGED receipts /\ runtime' = Idle
  /\ UNCHANGED <<text, planned, claimed, replaced>>

Observe ==
  /\ runtime.step \in {"idle", "given", "done"}
  /\ observed # Snapshot
  /\ observed' = Snapshot
  /\ UNCHANGED <<disk, agent, jobs, documents, dialog, network, replaced, events>>

(* The connector stops anywhere and starts as another process.             *)
Stop ==
  /\ Event
  /\ boot' = boot + 1 /\ runtime' = Idle
  /\ UNCHANGED <<disk, server, dialog, network, replaced>>

(* Another program writes the file.                                        *)
EditFile(t) ==
  /\ Event
  /\ text # t /\ text' = t
  /\ UNCHANGED <<planned, claimed, receipts, agent, server, dialog, network, replaced>>

Next ==
  \/ Reload \/ Reopen \/ Save \/ Retry \/ Answered \/ Refused \/ Unanswered \/ Poll
  \/ \E k \in Keys, v \in Values \cup {Missing, Same} : Edit(k, v)
  \/ \E id \in Ids : Receive(id) \/ Claim(id)
  \/ Complete \/ Begin \/ Look \/ Read \/ Open \/ Patch \/ Replace \/ Advance \/ WriteReceipt
  \/ Observe \/ Stop
  \/ \E t \in Texts : EditFile(t)

Spec == Init /\ [][Next]_vars

--------------------------------------------------------------------------------
(* Properties.                                                             *)

(* Only the text that was shown is replaced: not one that another program  *)
(* wrote since, whenever it did (EnvironmentEditor.cjs:219-256,            *)
(* Write-LocalEnvironment.ps1:18-20).                                      *)
ReplacesWhatWasShown ==
  text' # text /\ events' = events => text = requests[runtime.job].base

(* A draft is not lost to a list that arrives: it is given up for the      *)
(* outcome of the save of exactly this draft ("polling must never replace a*)
(* user's draft", EnvironmentVariables.tsx:138).                           *)
DraftIsKept ==
  Dirty /\ draft' = Untouched /\ pending # 0 /\ events' = events =>
    /\ requests[pending].op = "save" /\ requests[pending].changes = draft
    /\ jobs[pending] = "succeeded"

(* The user is told "Saved" only if the last save that was asked for has   *)
(* replaced the file, although polls, answers and failures of the read that*)
(* follows it come in any order (EnvironmentVariables.tsx:145-195).        *)
SavedIsTrue ==
  message = "saved" =>
    \E i \in replaced : \A j \in Ids : requests[j].op = "save" => j <= i
===============================================================================
