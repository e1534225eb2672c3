------------------------------- MODULE WebApp -------------------------------
(***************************************************************************)
(* The web app: the access store at the root (root.tsx), and below it the  *)
(* pages of the router (routes.ts), of which a tab shows one.  The console *)
(* of a document is mounted while its page is shown and keeps nothing; the *)
(* store lives as long as the page's memory, a reload empties it.  One     *)
(* visitor's tab is used for everything, the other tabs of the browser     *)
(* show documents only.                                                    *)
(*                                                                         *)
(* Budgets bound what a behaviour does of each kind; every budget of the   *)
(* set is a scenario of its own.                                           *)
(***************************************************************************)
EXTENDS AccessStore, Console

CONSTANTS
  Visitor,       \* the tab that visits all pages
  Budgets        \* scenarios: how often each kind of thing happens

ASSUME VisitorAssumption == Visitor \in Tabs

Kinds == {"clicks", "visits", "deletes", "failures", "syncs", "toggles", "answers"}

ASSUME BudgetsAssumption ==
  \A b \in Budgets :
    /\ DOMAIN b.left = Kinds \cup {"docs"}
    /\ b.left.docs \subseteq Docs
    /\ b.relayed \in BOOLEAN

VARIABLES
  page,          \* what the visitor's tab shows
  left           \* what the scenario has left

webVars == << storeVars, consoleVars, page, left >>

Pages == {"closed", "console", "delegate", "inbox", "directory"}

Spending(kind) ==
  /\ left[kind] > 0
  /\ left' = [left EXCEPT ![kind] = @ - 1]

---------------------------------------------------------------------------
(* A step of the console, in a tab that shows it or that finishes what the *)
(* console left.                                                           *)
ConsoleWorks(t) ==
  /\ Works(t)
  /\ UNCHANGED << storeVars, page, left >>

Clicks(t) ==
  /\ \/ \E a \in Askers : RunEditorDemo(t, a)
     \/ \E a \in Actors : SwitchActor(t, a)
     \/ ResetAll(t)
  /\ Spending("clicks")
  /\ UNCHANGED << storeVars, page >>

Deletes ==
  /\ \E d \in Docs : \E k \in 1 .. Len(asks[d]) + Len(markers[d]) : DeleteParagraph(d, k)
  /\ Spending("deletes")
  /\ UNCHANGED << storeVars, page >>

ChunksFail(t) ==
  /\ \/ /\ \E r \in DOMAIN rooms[t] : RecoverStaleChunk(t, r)
        /\ IF t = Visitor /\ ~reloaded[t]
           THEN caps' = RegistryCapabilities /\ requests' = SeedRequests /\ UNCHANGED form
           ELSE UNCHANGED storeVars
     \/ /\ \E b \in DOMAIN bots[t] : LoseBot(t, b)
        /\ UNCHANGED storeVars
  /\ Spending("failures")
  /\ UNCHANGED page

(* The links of the sidebar: to a document and away from the documents.    *)
ShowDocument(t, d) ==
  /\ t = Visitor => page # "closed"
  /\ Navigate(t, d)
  /\ Spending("visits")
  /\ IF t = Visitor
     THEN page' = "console" /\ form' = NoForm
     ELSE UNCHANGED << page, form >>
  /\ UNCHANGED << caps, requests >>

LeaveConsole(t) ==
  /\ Navigate(t, None)
  /\ Spending("visits")
  /\ page' = IF t = Visitor THEN "directory" ELSE page
  /\ UNCHANGED storeVars

(* A page that is loaded or closed: the store of its tab is a new one.     *)
Renewed(t) ==
  IF t = Visitor
  THEN caps' = RegistryCapabilities /\ requests' = SeedRequests /\ form' = NoForm
  ELSE UNCHANGED storeVars

Load(t, d, sync) ==
  /\ LoadPage(t, d, sync)
  /\ Spending("syncs")
  /\ Renewed(t)
  /\ page' = IF t = Visitor THEN "console" ELSE page

Close(t) ==
  /\ IF t = Visitor THEN page # "closed" ELSE ui[t].doc # None
  /\ CloseTab(t)
  /\ Spending("visits")
  /\ Renewed(t)
  /\ page' = IF t = Visitor THEN "closed" ELSE page

---------------------------------------------------------------------------
(* The access-control pages, which the visitor reaches from the directory. *)

VisitDelegate ==
  /\ page \in {"directory", "inbox"}
  /\ \E owner \in Humans : \E agent \in OwnedAgents[owner] : OpenForm(owner, agent)
  /\ page' = "delegate"
  /\ UNCHANGED << consoleVars, left >>

VisitInbox ==
  /\ page \in {"directory", "delegate"}
  /\ CloseForm \/ (form = NoForm /\ UNCHANGED storeVars)
  /\ page' = "inbox"
  /\ UNCHANGED << consoleVars, left >>

FillsForm ==
  /\ page = "delegate"
  /\ \/ \E owner \in Humans : ChangeOwner(owner)
     \/ \E f \in FinanceFields : ToggleField(f)
     \/ \E t \in ALL_TEAMS : ToggleTeam(t)
  /\ Spending("toggles")
  /\ UNCHANGED << consoleVars, page >>

Delegates ==
  /\ page = "delegate"
  /\ Submit
  /\ Spending("answers")
  /\ UNCHANGED << consoleVars, page >>

Answers ==
  /\ page = "inbox"
  /\ Reset \/ \E req \in Inbox : Approve(req) \/ Deny(req)
  /\ Spending("answers")
  /\ UNCHANGED << consoleVars, page >>

---------------------------------------------------------------------------
Init ==
  /\ StoreInit
  /\ ConsoleInit
  /\ page = "directory"
  /\ \E b \in Budgets : left = b.left /\ relayed = b.relayed

Next ==
  \/ \E t \in Tabs :
       \/ ConsoleWorks(t)
       \/ Clicks(t)
       \/ ChunksFail(t)
       \/ \E d \in left.docs : ShowDocument(t, d)
       \/ LeaveConsole(t)
       \/ \E d \in left.docs : \E sync \in {"url", "off"} : Load(t, d, sync)
       \/ Close(t)
  \/ Deletes
  \/ VisitDelegate \/ VisitInbox
  \/ FillsForm \/ Delegates \/ Answers

Spec == Init /\ [][Next]_webVars /\ ConsoleFairness

=============================================================================
