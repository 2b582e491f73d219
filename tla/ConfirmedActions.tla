--------------------------- MODULE ConfirmedActions ---------------------------
(***************************************************************************)
(* A page of the control center that asks the server for something that    *)
(* must happen once: components to deploy (ComponentDeployments.tsx), a    *)
(* release to serve (DeploymentsPage.tsx), services to start or stop on a  *)
(* developer's computer (LocalDevelopmentPage.tsx).  What the user confirms*)
(* is frozen under a request number, sent, and sent again under the same   *)
(* number until it is answered; meanwhile the page asks the server what it *)
(* has.  A request may reach the server late, its answer never.            *)
(***************************************************************************)
EXTENDS Naturals, Sequences, FiniteSets

CONSTANTS
  Page,                               (* "components", "servix" or "local"  *)
  MaxConfirmed, MaxSends, MaxLoads    (* bounds                             *)

VARIABLES
  offered,    (* page: the confirmation that can be sent, 0 if none         *)
  frozen,     (* page: the number of the unanswered request, 0 if none      *)
  sending,    (* page: a request is out                                     *)
  listed,     (* page: each request as it is shown                          *)
  polled,     (* page: the list that is on its way                          *)
  sends,      (* network: the number of each request sent                   *)
  posts,      (* network: those that are still to reach the server          *)
  answer,     (* network: what the server said to the last                  *)
  jobs,       (* server: each request as it is stored                       *)
  meant,      (* the confirmation each number was made for                  *)
  confirmed, loads

vars == <<offered, frozen, sending, listed, polled, sends, posts, answer, jobs, meant,
          confirmed, loads>>

Ids    == 1 .. MaxSends
Absent == 0   Open == 1   Over == 2
Lists  == [Ids -> {Absent, Open, Over}]
Empty  == [i \in Ids |-> Absent]
NoPoll == <<>>
Answers == {"none", "stored", "refused"}

TypeOK ==
  /\ offered \in 0 .. MaxConfirmed /\ frozen \in 0 .. MaxSends /\ sending \in BOOLEAN
  /\ listed \in Lists /\ jobs \in Lists
  /\ polled = NoPoll \/ polled \in Lists
  /\ sends \in UNION {[1 .. n -> Ids] : n \in 0 .. MaxSends}
  /\ posts \subseteq 1 .. Len(sends)
  /\ answer \in Answers
  /\ meant \in [Ids -> 0 .. MaxConfirmed]
  /\ confirmed \in 0 .. MaxConfirmed /\ loads \in 0 .. MaxLoads

Init ==
  /\ offered = 0 /\ frozen = 0 /\ sending = FALSE
  /\ listed = Empty /\ polled = NoPoll
  /\ sends = <<>> /\ posts = {} /\ answer = "none"
  /\ jobs = Empty /\ meant = [i \in Ids |-> 0]
  /\ confirmed = 0 /\ loads = 0

--------------------------------------------------------------------------------
(* The user and the page.                                                  *)

page == <<offered, frozen, sending, listed, polled>>
net  == <<sends, posts, answer>>

(* The user asks for something.  Of an unanswered request that was put     *)
(* aside, the same is asked again.                                         *)
Confirm ==
  /\ offered = 0 /\ ~sending
  /\ IF frozen # 0
     THEN offered' = meant[frozen] /\ UNCHANGED confirmed
     ELSE /\ confirmed < MaxConfirmed
          /\ confirmed' = confirmed + 1 /\ offered' = confirmed + 1
  /\ UNCHANGED <<frozen, sending, listed, polled, net, jobs, meant, loads>>

(* Only the page of releases lets an unanswered request be put aside.       *)
PutAside ==
  /\ Page = "servix"
  /\ offered # 0 /\ ~sending
  /\ offered' = 0
  /\ UNCHANGED <<frozen, sending, listed, polled, net, jobs, meant, confirmed, loads>>

NewId == CHOOSE i \in Ids : meant[i] = 0 /\ \A k \in 1 .. i - 1 : meant[k] # 0

(* The number a request is sent under: the frozen one, or a new one.        *)
Numbered == IF frozen = 0 THEN NewId ELSE frozen

Send ==
  /\ offered # 0 /\ ~sending
  /\ Len(sends) < MaxSends
  /\ LET id == Numbered
     IN  /\ frozen' = id
         /\ meant' = [meant EXCEPT ![id] = offered]
         /\ sends' = Append(sends, id)
  /\ posts' = posts \cup {Len(sends) + 1} /\ answer' = "none" /\ sending' = TRUE
  /\ UNCHANGED <<offered, listed, polled, jobs, confirmed, loads>>

(* It is stored: the page lists it, and the confirmation is over.           *)
Confirmed ==
  /\ sending /\ answer = "stored"
  /\ sending' = FALSE /\ frozen' = 0 /\ offered' = 0
  /\ LET id == sends[Len(sends)]
     IN  listed' = IF listed[id] = Absent THEN [listed EXCEPT ![id] = Open] ELSE listed
  /\ UNCHANGED <<polled, net, jobs, meant, confirmed, loads>>

(* It is refused: the user is told that nothing was started.               *)
NotStarted ==
  /\ sending /\ answer = "refused"
  /\ sending' = FALSE /\ frozen' = 0 /\ offered' = 0
  /\ UNCHANGED <<listed, polled, net, jobs, meant, confirmed, loads>>

(* No answer comes, or one that says nothing.  The page of local services  *)
(* shows a button of its own for what was sent.                            *)
Unanswered ==
  /\ sending
  /\ sending' = FALSE
  /\ offered' = IF Page = "local" THEN meant[sends[Len(sends)]] ELSE offered
  /\ answer' = "none"
  /\ UNCHANGED <<frozen, listed, polled, sends, posts, jobs, meant, confirmed, loads>>

(* The list the server answers with, the newer of each request where the   *)
(* page merges.                                                            *)
Newer(a, b) == [i \in Ids |-> IF b[i] > a[i] THEN b[i] ELSE a[i]]

(* Faulty form of Merged: the list is replaced.                             *)
MergedByLast(old, new) == new

Merged(old, new) == IF Page = "servix" THEN Newer(old, new) ELSE new

Poll ==
  /\ polled = NoPoll
  /\ polled' = jobs
  /\ UNCHANGED <<offered, frozen, sending, listed, net, jobs, meant, confirmed, loads>>

Found(list) == frozen # 0 /\ list[frozen] # Absent

(* Two of the pages take the request they find in the list for answered.    *)
Polled ==
  /\ polled # NoPoll
  /\ polled' = NoPoll
  /\ \/ UNCHANGED <<listed, frozen, offered>>
     \/ /\ listed' = Merged(listed, polled)
        /\ IF Page # "components" /\ Found(polled)
           THEN frozen' = 0 /\ offered' = 0
           ELSE UNCHANGED <<frozen, offered>>
  /\ UNCHANGED <<sending, net, jobs, meant, confirmed, loads>>

(* The page is loaded again and knows nothing of what it sent.              *)
Reload ==
  /\ loads < MaxLoads
  /\ loads' = loads + 1
  /\ offered' = 0 /\ frozen' = 0 /\ sending' = FALSE /\ listed' = Empty /\ polled' = NoPoll
  /\ answer' = "none"
  /\ UNCHANGED <<sends, posts, jobs, meant, confirmed>>

--------------------------------------------------------------------------------
(* The server.                                                             *)

(* A request that is known is answered as it was, a new one is stored      *)
(* while nothing else is open; either may be refused, or be denied to who  *)
(* is not signed in.  Only the last one that was sent is waited for.        *)
Receive(n) ==
  LET id    == sends[n]
      free  == \A i \in Ids : jobs[i] # Open
      Says(a) == answer' = IF n = Len(sends) /\ sending THEN a ELSE answer
  IN  /\ n \in posts
      /\ posts' = posts \ {n}
      /\ \/ Says("refused") /\ UNCHANGED jobs
         \/ jobs[id] # Absent /\ Says("stored") /\ UNCHANGED jobs
         \/ jobs[id] = Absent /\ free /\ Says("stored") /\ jobs' = [jobs EXCEPT ![id] = Open]
      /\ UNCHANGED <<page, sends, meant, confirmed, loads>>

Ends(i) ==
  /\ jobs[i] = Open
  /\ jobs' = [jobs EXCEPT ![i] = Over]
  /\ UNCHANGED <<page, net, meant, confirmed, loads>>

Next ==
  \/ Confirm \/ PutAside \/ Send \/ Confirmed \/ NotStarted \/ Unanswered
  \/ Poll \/ Polled \/ Reload
  \/ \E n \in 1 .. MaxSends : Receive(n)
  \/ \E i \in Ids : Ends(i)

Spec == Init /\ [][Next]_vars

--------------------------------------------------------------------------------
(* Properties.                                                             *)

(* What was confirmed once is stored once, however often it was sent:      *)
(* "retries never blindly repeat" (docs/adr/0053-local-development-        *)
(* runtime.md:17-19, ComponentDeployments.tsx:197, DeploymentsPage.tsx:208,*)
(* LocalDevelopmentPage.tsx:162-173, 295-298).                             *)
OnceConfirmed ==
  \A i, j \in Ids : i # j /\ jobs[i] # Absent /\ jobs[j] # Absent => meant[i] # meant[j]

(* A release that the page has shown does not disappear from it or go back,*)
(* although lists and answers overtake each other                          *)
(* (servix-deployment-state.ts:3-30).                                      *)
NothingDisappears ==
  Page = "servix" /\ loads' = loads => \A i \in Ids : listed'[i] >= listed[i]
===============================================================================
