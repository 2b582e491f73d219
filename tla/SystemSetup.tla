----------------------------- MODULE SystemSetup -----------------------------
(***************************************************************************)
(* The system check of a developer's computer (SystemSetup.cjs and         *)
(* SystemPrerequisites.cjs): a window on the loopback address shows what a *)
(* project requires and what is there, installs the tools that are selected*)
(* after the intent is on disk, and lets the setup continue when nothing is*)
(* missing.  A request may be delivered more than once, by several tabs,   *)
(* the machine changes by other hands meanwhile, and the window expires or *)
(* is killed and opened again; its receipts stay.                          *)
(* A report stands for its fingerprint.  What a version number says of a   *)
(* tool is its status; more than twelve requirements count as an odd       *)
(* manifest, and a prompt that is refused as an installer that fails.      *)
(***************************************************************************)
EXTENDS Naturals, FiniteSets

CONSTANTS
  Tools, Always,  (* what a project may require; what the connector requires*)
  Installable,    (* those with a recipe for this system                    *)
  Named,          (* those an install request may name                      *)
  Folders,        (* the project's folders, as deep as is looked            *)
  MaxRequests, MaxDeliveries, MaxAlters, MaxStops             (* bounds     *)

VARIABLES
  manifests,   (* what the manifests of a folder require, and whether one   *)
               (* asks for what is not supported                            *)
  status,      (* of each tool on this machine                              *)
  window,      (* of the setup server                                       *)
  seen,        (* the reports the tabs of this window hold                  *)
  sent,        (* install requests; a delivered one may come again          *)
  handler,     (* the install request that is served                        *)
  finisher,    (* the report a finish request holds while it looks again    *)
  intents,     (* <id>.intent.json                                          *)
  results,     (* <id>.result.json                                          *)
  executed,    (* how often the installer of a tool ran for a request       *)
  deliveries, alters, stops

requested == <<sent, handler, finisher, deliveries>>
receipts  == <<intents, results, executed>>
machine   == <<manifests, status, alters>>
vars      == <<machine, window, seen, requested, receipts, stops>>

Ids     == 1 .. MaxRequests
Statuses == {"missing", "ready", "version-mismatch", "review-required"}
Reports  == [tools : UNION {[needs -> Statuses] : needs \in SUBSET Tools}, blocked : BOOLEAN]
Requests == [id : Ids, preview : Reports, selected : SUBSET Tools]
NoReport == [none |-> TRUE]
NoRequest == [id |-> 0]
Idle     == [step |-> "idle", request |-> NoRequest, todo |-> {}, told |-> {}]

TypeOK ==
  /\ manifests \in [Folders -> [asks : SUBSET Tools, odd : BOOLEAN]]
  /\ status \in [Tools -> Statuses]
  /\ window \in {"open", "completed", "closed"}
  /\ seen \subseteq Reports
  /\ sent \subseteq Requests
  /\ handler \in [step : {"idle", "accepted", "recorded", "installing"},
                  request : Requests \cup {NoRequest}, todo : SUBSET Tools,
                  told : SUBSET (Tools \X {"installed", "failed-or-cancelled"})]
  /\ finisher \in {NoReport} \cup Reports
  /\ intents \subseteq Requests
  /\ results \subseteq [id : Ids, told : SUBSET (Tools \X {"installed", "failed-or-cancelled"})]
  /\ executed \in [Ids \X Tools -> 0 .. MaxDeliveries]
  /\ <<deliveries, alters, stops>> \in (0 .. MaxDeliveries) \X (0 .. MaxAlters) \X (0 .. MaxStops)

Init ==
  /\ manifests \in [Folders -> [asks : SUBSET Tools, odd : {FALSE}]]
  /\ status \in [Tools -> {"missing", "ready"}]
  /\ window = "open"
  /\ seen = {} /\ sent = {}
  /\ handler = Idle /\ finisher = NoReport
  /\ intents = {} /\ results = {}
  /\ executed = [x \in Ids \X Tools |-> 0]
  /\ deliveries = 0 /\ alters = 0 /\ stops = 0

--------------------------------------------------------------------------------
(* What the check finds.                                                   *)

(* What is required: by the connector, and by the manifests of the folders.*)
requirements == Always \cup UNION {manifests[f].asks : f \in Folders}
Blocked      == \E f \in Folders : manifests[f].odd

(* The versions that are found of a tool, for what is required of it.       *)
detected(t) == status[t]

inspect == [tools |-> [t \in requirements |-> detected(t)], blocked |-> Blocked]

Ready(report) == ~report.blocked /\ \A t \in DOMAIN report.tools : report.tools[t] = "ready"

recipe(t) == [available |-> t \in Installable]

(* The tools that may be selected of a report.                              *)
Selectable(report) == {t \in DOMAIN report.tools : report.tools[t] # "ready" /\ recipe(t).available}

(* Somebody installs, replaces or removes a tool, or edits a manifest.      *)
Alter ==
  /\ alters < MaxAlters
  /\ alters' = alters + 1
  /\ \/ \E t \in Tools, s \in Statuses : status' = [status EXCEPT ![t] = s] /\ UNCHANGED manifests
     \/ \E f \in Folders, t \in Tools :
          /\ manifests' \in {[manifests EXCEPT ![f].asks = @ \cup {t}],
                            [manifests EXCEPT ![f].odd = ~@]}
          /\ UNCHANGED status
  /\ UNCHANGED <<window, seen, requested, receipts, stops>>

--------------------------------------------------------------------------------
(* The window.                                                             *)

Check ==
  /\ window = "open"
  /\ seen' = seen \cup {inspect}
  /\ UNCHANGED <<machine, window, requested, receipts, stops>>

(* A tab asks to install what is selected of the report it shows.           *)
Click ==
  /\ window = "open"
  /\ Cardinality(sent) < MaxRequests
  /\ \E report \in seen : \E selected \in SUBSET Selectable(report) :
       /\ selected # {}
       /\ sent' = sent \cup {[id |-> Cardinality(sent) + 1, preview |-> report,
                              selected |-> selected]}
  /\ UNCHANGED <<machine, window, seen, handler, finisher, deliveries, receipts, stops>>

(* The request is taken if no installation runs, and it names only tools   *)
(* the server knows by name, which not all that are offered are.           *)
Accept(r) ==
  /\ window = "open"
  /\ r \in sent /\ r.selected \subseteq Named
  /\ handler = Idle
  /\ deliveries < MaxDeliveries
  /\ deliveries' = deliveries + 1
  /\ handler' = [Idle EXCEPT !.step = "accepted", !.request = r]
  /\ UNCHANGED <<machine, window, seen, sent, finisher, receipts, stops>>

(* Faulty form of RecordIntent: the file is written over.                   *)
RecordIntentOver ==
  /\ handler.step = "accepted"
  /\ intents' = intents \cup {handler.request}
  /\ handler' = [handler EXCEPT !.step = "recorded"]
  /\ UNCHANGED <<machine, window, seen, sent, finisher, deliveries, results, executed, stops>>

(* The intent is a new file; a request that comes again ends here.          *)
RecordIntent ==
  /\ handler.step = "accepted"
  /\ IF \E i \in intents : i.id = handler.request.id
     THEN handler' = Idle /\ UNCHANGED intents
     ELSE /\ intents' = intents \cup {handler.request}
          /\ handler' = [handler EXCEPT !.step = "recorded"]
  /\ UNCHANGED <<machine, window, seen, sent, finisher, deliveries, results, executed, stops>>

(* What was reviewed is still what is found.                                *)
Review ==
  /\ handler.step = "recorded"
  /\ handler' =
       IF /\ inspect = handler.request.preview
          /\ handler.request.selected \subseteq Selectable(inspect)
       THEN [handler EXCEPT !.step = "installing", !.todo = handler.request.selected]
       ELSE Idle
  /\ UNCHANGED <<machine, window, seen, sent, finisher, deliveries, receipts, stops>>

(* One tool after the other; one that fails does not stop the next.  What  *)
(* the installer says and what is found after it are two things.           *)
Install(t) ==
  /\ handler.step = "installing"
  /\ t \in handler.todo
  /\ executed' = [executed EXCEPT ![<<handler.request.id, t>>] = @ + 1]
  /\ \E s \in {status[t], "ready", "version-mismatch"} : status' = [status EXCEPT ![t] = s]
  /\ \E outcome \in {"installed", "failed-or-cancelled"} :
       handler' = [handler EXCEPT !.todo = @ \ {t}, !.told = @ \cup {<<t, outcome>>}]
  /\ UNCHANGED <<manifests, alters, window, seen, sent, finisher, deliveries, intents, results, stops>>

(* The tools are looked for again, and the result is a new file.            *)
Complete ==
  /\ handler.step = "installing" /\ handler.todo = {}
  /\ results' = results \cup {[id |-> handler.request.id, told |-> handler.told]}
  /\ handler' = Idle
  /\ seen' = IF window = "open" THEN seen \cup {inspect} ELSE seen
  /\ UNCHANGED <<machine, window, sent, finisher, deliveries, intents, executed, stops>>

(* The setup may continue if what is found is what was shown, and nothing  *)
(* is missing.  No installation runs when the request comes; one may begin *)
(* while the tools are looked for.                                         *)
AskFinish ==
  /\ window = "open" /\ handler = Idle /\ finisher = NoReport
  /\ finisher' \in {report \in seen : Ready(report)}
  /\ UNCHANGED <<machine, window, seen, sent, handler, deliveries, receipts, stops>>

Finish ==
  /\ finisher # NoReport
  /\ finisher' = NoReport
  /\ window' = IF window = "open" /\ inspect = finisher /\ Ready(inspect) THEN "completed" ELSE window
  /\ UNCHANGED <<machine, seen, sent, handler, deliveries, receipts, stops>>

(* After thirty minutes requests are refused; an installation goes on.      *)
Expire ==
  /\ window = "open"
  /\ window' = "closed"
  /\ UNCHANGED <<machine, seen, requested, receipts, stops>>

(* The server is killed, and the setup is started again.                    *)
Reopen ==
  /\ window # "completed"
  /\ stops < MaxStops
  /\ stops' = stops + 1
  /\ window' = "open" /\ seen' = {}
  /\ handler' = Idle /\ finisher' = NoReport
  /\ UNCHANGED <<machine, sent, deliveries, receipts>>

Next ==
  \/ Alter \/ Check \/ Click \/ RecordIntent \/ Review \/ Complete
  \/ \E r \in sent : Accept(r)
  \/ \E t \in Tools : Install(t)
  \/ AskFinish \/ Finish \/ Expire \/ Reopen

Spec == Init /\ [][Next]_vars

--------------------------------------------------------------------------------
(* Properties.                                                             *)

(* An installer runs only for a request whose intent is on disk, for a tool*)
(* that was selected and was missing in what was shown, and once for each  *)
(* request, however often it is delivered and the window opened again      *)
(* (SystemSetup.cjs:144-184, SystemPrerequisites.cjs:553-567).             *)
InstalledByIntent ==
  \A id \in Ids, t \in Tools : executed[<<id, t>>] > 0 =>
    /\ executed[<<id, t>>] = 1
    /\ \E i \in intents : i.id = id /\ t \in i.selected \cap Selectable(i.preview)

(* A result tells of each selected tool once, and no request has two       *)
(* (SystemSetup.cjs:185-200).                                              *)
ResultIsWhole ==
  /\ \A r \in results : \E i \in intents :
       i.id = r.id /\ {x[1] : x \in r.told} = i.selected /\ Cardinality(r.told) = Cardinality(i.selected)
  /\ \A r, q \in results : r.id = q.id => r = q
===============================================================================
