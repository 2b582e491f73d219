-------------------------- MODULE DeploymentSettings --------------------------
(***************************************************************************)
(* The settings of a project's deployment: the store of the control plane  *)
(* (deployment-settings.ts), which keeps a record per project and every    *)
(* record it replaced, and the page that shows, edits, archives and tests  *)
(* them (DeploymentSettingsPage.tsx), open in several windows.             *)
(*                                                                         *)
(* One project.  A record is its revision, what it says and whether it is  *)
(* archived.  What it says is a member of Contents: those the schema and   *)
(* the checks on the destination and on preserved paths admit.  Only one   *)
(* member may write, so that windows differ in what they show.             *)
(***************************************************************************)
EXTENDS Naturals

CONSTANTS
  Windows, Contents,
  FirstContent,        (* of the record that is there without a file        *)
  Nothing,
  MaxRevisions, MaxRequests                  (* bounds                      *)

VARIABLES
  record,     (* the record in force, Absent when there is none             *)
  history,    (* history/: the records written there                        *)
  store,      (* the save that the promise chain is at                      *)
  list,       (* window: the project as it is listed, Absent or Nothing     *)
  form,       (* window: the content in the form, Nothing if it is closed   *)
  baseline,   (* window: the record the form was filled from                *)
  mode,       (* window: the editor is "closed", in "view", in "edit", or   *)
              (* in "edit" and asking whether to discard, which is "closing" *)
  busy,       (* window: the kind of request it waits for                   *)
  waits,      (* window: the number of that request                         *)
  test,       (* window: the test shown, its revision, 0 if none            *)
  archiving,  (* window: the record to archive or restore, or Nothing       *)
  posts,      (* network: the requests that may still reach the server      *)
  answers,    (* network: what the server says to a window                  *)
  asked       (* the requests so far                                        *)

server  == <<record, history, store>>
page    == <<list, form, baseline, mode, test, archiving>>
window  == <<page, busy, waits>>
vars    == <<server, window, posts, answers, asked>>

Absent  == [rev |-> 0, says |-> Nothing, archived |-> FALSE]
Records == [rev : 1 .. MaxRevisions, says : Contents, archived : BOOLEAN]
Stored  == Records \cup {Absent}
Fields  == [says : Contents, archived : BOOLEAN]
Of(r)   == [says |-> r.says, archived |-> r.archived]

(* A save carries the record it replaces: the code sends its revision only.*)
Saves   == [id : 1 .. MaxRequests, by : Windows, over : Stored, fields : Fields]
Resting == [step |-> "idle", save |-> Nothing]
NoAnswer == [kind |-> "none", record |-> Absent]

TypeOK ==
  /\ record \in Stored /\ history \subseteq Records
  /\ store = Resting \/ store \in [step : {"checked", "kept", "added"}, save : Saves]
  /\ list \in [Windows -> Stored \cup {Nothing}]
  /\ form \in [Windows -> Fields \cup {Nothing}] /\ baseline \in [Windows -> Stored]
  /\ mode \in [Windows -> {"closed", "view", "edit", "closing"}]
  /\ busy \in [Windows -> {"none", "save", "archive", "test", "folder"}]
  /\ waits \in [Windows -> 0 .. MaxRequests]
  /\ test \in [Windows -> 0 .. MaxRevisions] /\ archiving \in [Windows -> Stored \cup {Nothing}]
  /\ posts \subseteq Saves
  /\ answers \in [Windows -> [kind : {"none", "saved", "refused", "tested"}, record : Stored]]
  /\ asked \in 0 .. MaxRequests

(* A project that is known without a file begins with the record in the    *)
(* code; any other is added.                                               *)
First == [rev |-> 1, says |-> FirstContent, archived |-> FALSE]

Init ==
  /\ record \in {First, Absent} /\ history = {} /\ store = Resting
  /\ list = [w \in Windows |-> Nothing] /\ form = [w \in Windows |-> Nothing]
  /\ baseline = [w \in Windows |-> Absent] /\ mode = [w \in Windows |-> "closed"]
  /\ busy = [w \in Windows |-> "none"] /\ waits = [w \in Windows |-> 0] /\ test = [w \in Windows |-> 0]
  /\ archiving = [w \in Windows |-> Nothing]
  /\ posts = {} /\ answers = [w \in Windows |-> NoAnswer]
  /\ asked = 0

--------------------------------------------------------------------------------
(* The page.                                                               *)

Free(w)  == busy[w] = "none"
Dirty(w) == form[w] # Nothing /\ form[w] # Of(baseline[w])
Listed(w) == baseline[w] # Absent
Editing(w) == mode[w] \in {"edit", "closing"}
Blank    == [says |-> FirstContent, archived |-> FALSE]

Sets(f, w, v) == [f EXCEPT ![w] = v]

(* The form is filled from a record; what a test said, and the question    *)
(* whether to discard, are dropped.                                        *)
Fills(w, r) ==
  /\ form' = Sets(form, w, Of(r)) /\ baseline' = Sets(baseline, w, r)
  /\ test' = Sets(test, w, 0)
Stays(w) == mode' = Sets(mode, w, IF mode[w] = "closing" THEN "edit" ELSE mode[w])

Shuts(w) ==
  /\ mode' = Sets(mode, w, "closed") /\ form' = Sets(form, w, Nothing)
  /\ test' = Sets(test, w, 0) /\ baseline' = Sets(baseline, w, Absent)

NoLonger(w) ==
  /\ busy' = Sets(busy, w, "none") /\ waits' = Sets(waits, w, 0)
  /\ answers' = Sets(answers, w, NoAnswer)

(* The page is opened, or loaded again: it knows nothing of what it asked. *)
Load(w) ==
  /\ list' = Sets(list, w, record) /\ archiving' = Sets(archiving, w, Nothing)
  /\ Shuts(w) /\ NoLonger(w)
  /\ UNCHANGED <<server, posts, asked>>

Open(w, m) ==
  /\ mode[w] = "closed" /\ archiving[w] = Nothing /\ list[w] \in Records
  /\ Fills(w, list[w]) /\ mode' = Sets(mode, w, m)
  /\ UNCHANGED <<server, list, busy, waits, archiving, posts, answers, asked>>

(* A project is added that is not listed.  Its form counts as changed,     *)
(* since it has to be named.                                               *)
Add(w) ==
  /\ mode[w] = "closed" /\ archiving[w] = Nothing /\ list[w] = Absent
  /\ form' = Sets(form, w, Blank) /\ baseline' = Sets(baseline, w, Absent)
  /\ test' = Sets(test, w, 0) /\ mode' = Sets(mode, w, "edit")
  /\ UNCHANGED <<server, list, busy, waits, archiving, posts, answers, asked>>

ToEdit(w) ==
  /\ mode[w] = "view"
  /\ mode' = Sets(mode, w, "edit")
  /\ UNCHANGED <<server, list, form, baseline, busy, waits, test, archiving, posts, answers, asked>>

Edit(w, c) ==
  /\ Editing(w) /\ Free(w) /\ form[w] # Nothing /\ form[w].says # c
  /\ form' = [form EXCEPT ![w].says = c]
  /\ UNCHANGED <<server, list, baseline, mode, busy, waits, test, archiving, posts, answers, asked>>

(* What was changed is discarded: the form is filled again from the list,  *)
(* or closed when the project is a new one.                                *)
Discard(w) ==
  /\ mode[w] \in {"view", "edit"} /\ Free(w) /\ Dirty(w)
  /\ IF Listed(w) THEN Fills(w, list[w]) /\ UNCHANGED mode ELSE Shuts(w)
  /\ UNCHANGED <<server, list, busy, waits, archiving, posts, answers, asked>>

Close(w) ==
  /\ mode[w] # "closed" /\ Free(w)
  /\ IF Dirty(w) THEN mode' = Sets(mode, w, "closing") /\ UNCHANGED <<form, baseline, test>>
                 ELSE Shuts(w)
  /\ UNCHANGED <<server, list, busy, waits, archiving, posts, answers, asked>>

KeepEditing(w) ==
  /\ mode[w] = "closing"
  /\ mode' = Sets(mode, w, "edit")
  /\ UNCHANGED <<server, list, form, baseline, busy, waits, test, archiving, posts, answers, asked>>

(* This is not held up by a request that is out.                           *)
Dismiss(w) ==
  /\ mode[w] = "closing"
  /\ Shuts(w)
  /\ UNCHANGED <<server, list, busy, waits, archiving, posts, answers, asked>>

Asks(w, kind) ==
  /\ asked < MaxRequests /\ asked' = asked + 1
  /\ busy' = Sets(busy, w, kind) /\ waits' = Sets(waits, w, asked') /\ answers' = Sets(answers, w, NoAnswer)

Posts(w, over, fields) ==
  posts' = posts \cup {[id |-> asked', by |-> w, over |-> over, fields |-> fields]}

Save(w) ==
  /\ Editing(w) /\ Free(w) /\ Dirty(w)
  /\ Asks(w, "save") /\ Posts(w, baseline[w], form[w])
  /\ test' = Sets(test, w, 0)
  /\ UNCHANGED <<server, list, form, baseline, mode, archiving>>

Test(w) ==
  /\ mode[w] # "closed" /\ Free(w) /\ ~Dirty(w) /\ Listed(w) /\ ~list[w].archived
  /\ Asks(w, "test") /\ test' = Sets(test, w, 0)
  /\ UNCHANGED <<server, list, form, baseline, mode, archiving, posts>>

TestShown(w) == mode[w] # "closed" /\ test[w] # 0 /\ ~Dirty(w)

(* Another device is selected for the test.                                *)
Select(w) ==
  /\ mode[w] # "closed" /\ Free(w) /\ test[w] # 0
  /\ test' = Sets(test, w, 0)
  /\ UNCHANGED <<server, list, form, baseline, mode, busy, waits, archiving, posts, answers, asked>>

(* A folder is chosen on the device; the page waits until that is over.    *)
Choose(w) ==
  /\ mode[w] # "closed" /\ Free(w) /\ ~Dirty(w) /\ Listed(w) /\ ~list[w].archived
  /\ Asks(w, "folder") /\ test' = Sets(test, w, 0)
  /\ UNCHANGED <<server, list, form, baseline, mode, archiving, posts>>

(* To archive a project, or to restore it, is asked first, and says of the *)
(* record that was listed the opposite.                                    *)
AskArchive(w) ==
  /\ mode[w] = "closed" /\ archiving[w] = Nothing /\ list[w] \in Records
  /\ archiving' = Sets(archiving, w, list[w])
  /\ UNCHANGED <<server, list, form, baseline, mode, busy, waits, test, posts, answers, asked>>

Archive(w) ==
  LET r == archiving[w]
  IN  /\ r # Nothing /\ Free(w)
      /\ Asks(w, "archive") /\ Posts(w, r, [Of(r) EXCEPT !.archived = ~@])
      /\ UNCHANGED <<server, list, form, baseline, mode, test, archiving>>

CancelArchive(w) ==
  /\ archiving[w] # Nothing /\ Free(w)
  /\ archiving' = Sets(archiving, w, Nothing)
  /\ UNCHANGED <<server, list, form, baseline, mode, busy, waits, test, posts, answers, asked>>

(* The answer that is waited for: what was saved is listed and fills the   *)
(* form again.                                                             *)
Answered(w) ==
  LET a == answers[w]
  IN  /\ ~Free(w) /\ a.kind \in {"saved", "tested"}
      /\ NoLonger(w)
      /\ CASE busy[w] = "save" ->
                /\ list' = Sets(list, w, a.record) /\ Fills(w, a.record) /\ Stays(w)
                /\ UNCHANGED archiving
           [] busy[w] = "archive" ->
                /\ list' = Sets(list, w, a.record) /\ archiving' = Sets(archiving, w, Nothing)
                /\ UNCHANGED <<form, baseline, mode, test>>
           [] OTHER ->
                /\ test' = Sets(test, w, a.record.rev)
                /\ UNCHANGED <<list, form, baseline, mode, archiving>>
      /\ UNCHANGED <<server, posts, asked>>

(* It is refused, or does not come: the form and the dialog stay.          *)
Unanswered(w) ==
  /\ ~Free(w)
  /\ NoLonger(w)
  /\ UNCHANGED <<server, list, form, baseline, mode, test, archiving, posts, asked>>

--------------------------------------------------------------------------------
(* The store.                                                              *)

(* An answer counts while the window waits for it.                         *)
Says(s, kind, r) ==
  answers' = IF waits[s.by] = s.id THEN Sets(answers, s.by, [kind |-> kind, record |-> r])
                                   ELSE answers

(* Requests are taken one at a time.  One whose revision is not the stored *)
(* one is refused, and so may any other be.                                *)
Check(s) ==
  /\ store = Resting /\ s \in posts
  /\ posts' = posts \ {s}
  /\ \/ /\ s.over.rev = record.rev /\ record.rev < MaxRevisions
        /\ store' = [step |-> "checked", save |-> s] /\ UNCHANGED answers
     \/ UNCHANGED store /\ Says(s, "refused", Absent)
  /\ UNCHANGED <<record, history, window, asked>>

New(s) == [rev |-> record.rev + 1, says |-> s.fields.says, archived |-> s.fields.archived]

(* The record before is kept, then the new one, each in a file of its own; *)
(* then the new one takes effect.                                          *)
KeepOld ==
  /\ store.step = "checked"
  /\ history' = history \cup ({record} \ {Absent})
  /\ store' = [store EXCEPT !.step = "kept"]
  /\ UNCHANGED <<record, window, posts, answers, asked>>

KeepNew ==
  /\ store.step = "kept"
  /\ history' = history \cup {New(store.save)}
  /\ store' = [store EXCEPT !.step = "added"]
  /\ UNCHANGED <<record, window, posts, answers, asked>>

Replace ==
  /\ store.step = "added"
  /\ record' = New(store.save) /\ store' = Resting
  /\ Says(store.save, "saved", record')
  /\ UNCHANGED <<history, window, posts, asked>>

(* A write fails, and the request does; or the control plane stops, and it *)
(* is not answered.  What was kept stays.                                  *)
Fail ==
  /\ store # Resting
  /\ store' = Resting
  /\ Says(store.save, "refused", Absent) \/ UNCHANGED answers
  /\ UNCHANGED <<record, history, window, posts, asked>>

(* A test reads the record beside the chain.                               *)
RunTest(w) ==
  /\ busy[w] = "test" /\ answers[w] = NoAnswer
  /\ answers' = Sets(answers, w, [kind |-> "tested", record |-> record])
  /\ UNCHANGED <<server, window, posts, asked>>

Next ==
  \/ \E w \in Windows :
       \/ Load(w) \/ Open(w, "view") \/ Open(w, "edit") \/ Add(w) \/ ToEdit(w) \/ Discard(w) \/ Close(w)
       \/ KeepEditing(w) \/ Dismiss(w)
       \/ \E c \in Contents : Edit(w, c)
       \/ Save(w) \/ Test(w) \/ Select(w) \/ Choose(w) \/ AskArchive(w) \/ Archive(w) \/ CancelArchive(w)
       \/ Answered(w) \/ Unanswered(w) \/ RunTest(w)
  \/ \E s \in posts : Check(s)
  \/ KeepOld \/ KeepNew \/ Replace \/ Fail

Spec == Init /\ [][Next]_vars

--------------------------------------------------------------------------------
(* Properties.                                                             *)

(* What takes effect replaces the record that was shown when it was        *)
(* decided: no window overwrites what another saved meanwhile              *)
(* (deployment-settings.ts:126-127).                                       *)
ReplacesWhatWasShown == record' # record => store.save.over = record

(* A record that was ever in force is kept, and one takes effect only when *)
(* it is kept: "never overwrite an earlier revision; a failed              *)
(* current-pointer write is retryable" (deployment-settings.ts:181).       *)
PastIsKept ==
  /\ history \subseteq history'
  /\ record' # record => {record, record'} \ {Absent} \subseteq history'

(* The test shown beside a form that was not changed is not of an earlier  *)
(* record than the form shows (DeploymentSettingsPage.tsx:167-205, 877).   *)
TestIsNoOlder ==
  \A w \in Windows : TestShown(w) => test[w] >= baseline[w].rev
===============================================================================
