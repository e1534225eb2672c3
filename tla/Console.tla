------------------------------ MODULE Console ------------------------------
(***************************************************************************)
(* The document console of the web app in the tabs of one browser:         *)
(*   - useWeaverRoom (apps/web/app/lib/weaverRoom.ts), the effect that     *)
(*     imports the editor's chunks, opens a room for the acting principal  *)
(*     and closes it when the actor or the document changes;               *)
(*   - useDemoAgent (lib/demoAgent.ts), the simulated peer that one tab    *)
(*     per browser and document runs under a Web Lock;                     *)
(*   - the scripted demo and the reset of ConsolePage                      *)
(*     (components/ConsolePage.tsx).                                       *)
(*                                                                         *)
(* What the hard part is: effects that start asynchronous work, and work   *)
(* that goes on after its effect is cleaned up.  React's state is `ui`,    *)
(* what the last commit rendered `seen`; Render commits, running the       *)
(* cleanups and then the effects whose dependencies changed.  A handler of *)
(* the visitor runs against what was rendered.  An await is a step of its  *)
(* own; what lies between two of them is one.                              *)
(*                                                                         *)
(* A document's content is shared by the rooms of the browser: how edits   *)
(* travel is RoomSync's subject.  It is the demo's asks and the paragraphs *)
(* of the simulated peer, each with the number of characters typed and     *)
(* whether it is still there.  Lines have LineLength characters.           *)
(*                                                                         *)
(* Effects, awaits and timers obey the browser: an import or a lock        *)
(* arrives at any time, a commit is due before a timer of the demo fires.  *)
(* The watcher that answers an ask and the watch's deadline both end it.   *)
(***************************************************************************)
EXTENDS Naturals, Sequences, FiniteSets

CONSTANTS
  Tabs,          \* the tabs of the browser
  Docs,          \* document rooms
  Actors,        \* the identities a visitor acts as
  Askers,        \* those that have a demo question
  FirstActor,    \* whom a visitor acts as at first
  LineLength     \* characters of a line

ASSUME ConsoleAssumption ==
  /\ Askers \subseteq Actors
  /\ FirstActor \in Actors
  /\ LineLength \in Nat \ {0}

VARIABLES
  ui,            \* a tab's React state, document and actor included
  seen,          \* the state its last commit rendered
  rooms,         \* the rooms a tab opened, the last one that of its effect
  runs,          \* the runs of the demo
  effectRun,     \* the run the demo effect's cleanup aborts, or 0
  busy,          \* demoBusyRef
  bots,          \* the simulated peers a tab started
  lock,          \* which tab and peer holds a document's lock
  resets,        \* the rooms whose reset waits for its imports
  reloaded,      \* the session flag that stops a reload loop
  relayed,       \* whether the browser stored the URL of a relay
  asks,          \* the paragraphs of a document the demos wrote
  markers        \* those the simulated peers wrote

tabVars == << ui, seen, rooms, runs, effectRun, busy, bots, resets, reloaded >>
docVars == << lock, relayed, asks, markers >>
consoleVars == << ui, seen, rooms, runs, effectRun, busy, bots, lock, resets,
                  reloaded, relayed, asks, markers >>

None == "none"
Shut == [doc |-> None, actor |-> FirstActor, demo |-> None, ed |-> 0]
Free == << None, 0 >>

---------------------------------------------------------------------------
(* Rooms.                                                                  *)

CurrentRoom(t) == Len(rooms[t])

(* The cleanup of the room effect: the editor and its transport go, or     *)
(* never come.                                                             *)
Closed(room) ==
  [room EXCEPT !.disposed = TRUE,
               !.state = IF @ = "attached" THEN "gone" ELSE @]

(* Mutant: one flag for all rooms, never lowered again. *)
RoomsStayShut(t, changed, mounted, doc) ==
  LET n == CurrentRoom(t)
      closed == IF changed /\ n > 0
                THEN [rooms[t] EXCEPT ![n] = Closed(@)] ELSE rooms[t]
  IN  IF changed /\ mounted
      THEN Append(closed, [doc |-> doc, state |-> "importing", disposed |-> n > 0])
      ELSE closed

RoomsAfter(t, changed, mounted, doc) ==
  LET n == CurrentRoom(t)
      closed == IF changed /\ n > 0
                THEN [rooms[t] EXCEPT ![n] = Closed(@)] ELSE rooms[t]
  IN  IF changed /\ mounted
      THEN Append(closed, [doc |-> doc, state |-> "importing", disposed |-> FALSE])
      ELSE closed

(* Mutant: a room that was closed meanwhile is opened all the same. *)
AttachAnyway(t, r) ==
  /\ r \in DOMAIN rooms[t]
  /\ rooms[t][r].state = "importing"
  /\ reloaded' = [reloaded EXCEPT ![t] = FALSE]
  /\ rooms' = [rooms EXCEPT ![t][r].state = "attached"]
  /\ ui' = [ui EXCEPT ![t].ed = IF rooms[t][r].disposed THEN @ ELSE r]
  /\ UNCHANGED << seen, runs, effectRun, busy, bots, resets, docVars >>

(* The chunks have arrived: a room that was closed meanwhile stays shut.   *)
Attach(t, r) ==
  /\ r \in DOMAIN rooms[t]
  /\ rooms[t][r].state = "importing"
  /\ reloaded' = [reloaded EXCEPT ![t] = FALSE]
  /\ IF rooms[t][r].disposed
     THEN /\ rooms' = [rooms EXCEPT ![t][r].state = "gone"]
          /\ UNCHANGED ui
     ELSE /\ rooms' = [rooms EXCEPT ![t][r].state = "attached"]
          /\ ui' = [ui EXCEPT ![t].ed = r]
  /\ UNCHANGED << seen, runs, effectRun, busy, bots, resets, docVars >>

---------------------------------------------------------------------------
(* The simulated peer.                                                     *)

LiveBot(b) == b.at \in {"waiting", "writing", "resting"} /\ ~b.aborted

BotsAfter(t, changed, mounted, doc) ==
  LET stopped(b) == [b EXCEPT !.aborted = TRUE, !.attached = FALSE,
                              !.at = IF @ = "queued" THEN "over" ELSE @]
      rest == IF changed THEN [i \in DOMAIN bots[t] |-> stopped(bots[t][i])]
              ELSE bots[t]
  IN  IF changed /\ mounted /\ ~relayed
      THEN Append(rest, [doc |-> doc, at |-> "queued", attached |-> FALSE,
                         aborted |-> FALSE, block |-> 0])
      ELSE rest

GrantLock(t, b) ==
  /\ b \in DOMAIN bots[t]
  /\ bots[t][b].at = "queued"
  /\ lock[bots[t][b].doc] = Free
  /\ lock' = [lock EXCEPT ![bots[t][b].doc] = << t, b >>]
  /\ bots' = [bots EXCEPT ![t][b].at = "loading"]
  /\ UNCHANGED << ui, seen, rooms, runs, effectRun, busy, resets, reloaded,
                  relayed, asks, markers >>

(* Mutant: the lock is kept by a run that is over. *)
BotEndsHolding(t, b, at) ==
  /\ bots' = [bots EXCEPT ![t][b].at = at]
  /\ UNCHANGED lock

(* The run settles, with an error or without: the lock goes to the next.   *)
BotEnds(t, b, at) ==
  /\ bots' = [bots EXCEPT ![t][b].at = at]
  /\ lock' = [lock EXCEPT ![bots[t][b].doc] = Free]

LoadBot(t, b) ==
  /\ b \in DOMAIN bots[t]
  /\ bots[t][b].at = "loading"
  /\ IF bots[t][b].aborted
     THEN BotEnds(t, b, "over")
     ELSE /\ bots' = [bots EXCEPT ![t][b].at = "waiting", ![t][b].attached = TRUE]
          /\ UNCHANGED lock
  /\ UNCHANGED << ui, seen, rooms, runs, effectRun, busy, resets, reloaded,
                  relayed, asks, markers >>

(* The chunks of the peer are gone: the error is swallowed, the lock goes  *)
(* to the next, and nothing tries again.  The modules are the room's, and  *)
(* one that has arrived is not fetched again.                              *)
LoseBot(t, b) ==
  /\ b \in DOMAIN bots[t]
  /\ bots[t][b].at = "loading"
  /\ \A r \in DOMAIN rooms[t] : rooms[t][r].state \in {"importing", "failed"}
  /\ BotEnds(t, b, IF bots[t][b].aborted THEN "over" ELSE "failed")
  /\ UNCHANGED << ui, seen, rooms, runs, effectRun, busy, resets, reloaded,
                  relayed, asks, markers >>

(* A new line: find the marked paragraph or write one, and empty it.       *)
StartLine(t, b) ==
  LET d == bots[t][b].doc
      there == { i \in DOMAIN markers[d] : markers[d][i].there }
  IN
  /\ b \in DOMAIN bots[t]
  /\ bots[t][b].at \in {"waiting", "resting"}
  /\ IF bots[t][b].aborted
     THEN BotEnds(t, b, "over") /\ UNCHANGED markers
     ELSE /\ IF there = {}
             THEN markers' = [markers EXCEPT ![d] = Append(@, [typed |-> 0, there |-> TRUE])]
             ELSE \E i \in there : /\ \A j \in there : i <= j
                                   /\ markers' = [markers EXCEPT ![d][i].typed = 0]
          /\ bots' = [bots EXCEPT ![t][b].at = "writing",
                                  ![t][b].block = IF there = {} THEN Len(markers[d]) + 1
                                                  ELSE CHOOSE i \in there : \A j \in there : i <= j]
          /\ UNCHANGED lock
  /\ UNCHANGED << ui, seen, rooms, runs, effectRun, busy, resets, reloaded,
                  relayed, asks >>

(* One character.  A paragraph deleted meanwhile throws, and the peer is   *)
(* done: its lock goes to the next, its room stays until the page closes   *)
(* it.                                                                     *)
BotTypes(t, b) ==
  LET d == bots[t][b].doc
      i == bots[t][b].block
  IN
  /\ b \in DOMAIN bots[t]
  /\ bots[t][b].at = "writing"
  /\ CASE bots[t][b].aborted -> BotEnds(t, b, "over") /\ UNCHANGED markers
       [] ~bots[t][b].aborted /\ ~markers[d][i].there ->
            BotEnds(t, b, "dead") /\ UNCHANGED markers
       [] ~bots[t][b].aborted /\ markers[d][i].there ->
            /\ markers' = [markers EXCEPT ![d][i].typed = @ + 1]
            /\ bots' = [bots EXCEPT ![t][b].at =
                          IF markers[d][i].typed + 1 = LineLength THEN "resting" ELSE @]
            /\ UNCHANGED lock
  /\ UNCHANGED << ui, seen, rooms, runs, effectRun, busy, resets, reloaded,
                  relayed, asks >>

---------------------------------------------------------------------------
(* The scripted demo: type the ask in the asker's own room, then watch for *)
(* the answer.                                                             *)

Active(run) == run.at \in {"loading", "settling", "typing", "watching"}

(* Mutant: no run is aborted. *)
RunsGoOn(t, changed, mounted, start) ==
  LET rest == [i \in DOMAIN runs[t] |-> [runs[t][i] EXCEPT !.own = @ /\ mounted]]
  IN  IF start
      THEN Append(rest, [room |-> ui[t].ed, asker |-> ui[t].demo, at |-> "loading",
                         block |-> 0, aborted |-> FALSE, own |-> TRUE, lost |-> FALSE])
      ELSE rest

(* The cleanup of the demo effect aborts the run it started; a page that   *)
(* goes takes the busy flag with it.                                       *)
RunsAfter(t, changed, mounted, start) ==
  LET stopped(i) == IF changed /\ i = effectRun[t] THEN TRUE ELSE runs[t][i].aborted
      rest == [i \in DOMAIN runs[t] |->
                 [runs[t][i] EXCEPT !.aborted = stopped(i), !.own = @ /\ mounted]]
  IN  IF start
      THEN Append(rest, [room |-> ui[t].ed, asker |-> ui[t].demo, at |-> "loading",
                         block |-> 0, aborted |-> FALSE, own |-> TRUE, lost |-> FALSE])
      ELSE rest

LoadRun(t, i) ==
  /\ i \in DOMAIN runs[t]
  /\ runs[t][i].at = "loading"
  /\ runs' = [runs EXCEPT ![t][i].at = "settling"]
  /\ UNCHANGED << ui, seen, rooms, effectRun, busy, bots, resets, reloaded, docVars >>

(* Time to hydrate, unless aborted.  An ask that is there is not typed     *)
(* again, a partly typed one is.                                           *)
Settle(t, i) ==
  LET d == rooms[t][runs[t][i].room].doc
      asked == \E k \in DOMAIN asks[d] :
                 asks[d][k] = [asker |-> runs[t][i].asker, typed |-> LineLength, there |-> TRUE]
  IN
  /\ i \in DOMAIN runs[t]
  /\ runs[t][i].at = "settling"
  /\ runs[t][i].aborted \/ ui[t] = seen[t]
  /\ IF runs[t][i].aborted \/ asked
     THEN /\ runs' = [runs EXCEPT ![t][i].at =
                        IF runs[t][i].aborted THEN "over" ELSE "watching"]
          /\ UNCHANGED asks
     ELSE /\ runs' = [runs EXCEPT ![t][i].at = "typing", ![t][i].block = Len(asks[d]) + 1]
          /\ asks' = [asks EXCEPT ![d] = Append(@,
                       [asker |-> runs[t][i].asker, typed |-> 0, there |-> TRUE])]
  /\ UNCHANGED << ui, seen, rooms, effectRun, busy, bots, resets, reloaded, relayed,
                  lock, markers >>

(* Mutant: an aborted run goes on typing. *)
TypeOn(t, i) ==
  LET room == rooms[t][runs[t][i].room]
      k == runs[t][i].block
      typed == asks[room.doc][k].typed + 1
  IN
  /\ i \in DOMAIN runs[t]
  /\ runs[t][i].at = "typing"
  /\ \/ /\ room.state = "gone"
        /\ runs' = [runs EXCEPT ![t][i].lost = TRUE]
        /\ UNCHANGED asks
     \/ /\ room.state = "attached" /\ asks[room.doc][k].there
        /\ asks' = [asks EXCEPT ![room.doc][k].typed = typed]
        /\ runs' = [runs EXCEPT ![t][i].at = IF typed = LineLength THEN "watching" ELSE @]
  /\ UNCHANGED << ui, seen, rooms, effectRun, busy, bots, resets, reloaded, relayed,
                  lock, markers >>

(* A paragraph deleted meanwhile throws: the run is over without its end.  *)
(* A room that was closed keeps what is typed to itself.                   *)
TypeAsk(t, i) ==
  LET room == rooms[t][runs[t][i].room]
      k == runs[t][i].block
      typed == asks[room.doc][k].typed + 1
  IN
  /\ i \in DOMAIN runs[t]
  /\ runs[t][i].at = "typing"
  /\ \/ /\ runs[t][i].aborted
        /\ runs' = [runs EXCEPT ![t][i].at = "over"]
        /\ UNCHANGED asks
     \/ /\ ~runs[t][i].aborted /\ room.state = "gone"
        /\ runs' = [runs EXCEPT ![t][i].lost = TRUE]
        /\ UNCHANGED asks
     \/ /\ ~runs[t][i].aborted /\ room.state = "attached" /\ ~asks[room.doc][k].there
        /\ runs' = [runs EXCEPT ![t][i].at = "dead"]
        /\ UNCHANGED asks
     \/ /\ ~runs[t][i].aborted /\ room.state = "attached" /\ asks[room.doc][k].there
        /\ asks' = [asks EXCEPT ![room.doc][k].typed = typed]
        /\ runs' = [runs EXCEPT ![t][i].at = IF typed = LineLength THEN "watching" ELSE @]
  /\ UNCHANGED << ui, seen, rooms, effectRun, busy, bots, resets, reloaded, relayed,
                  lock, markers >>

(* Mutant: the demo that ends leaves its buttons disabled. *)
EndSilently(t, i) ==
  /\ i \in DOMAIN runs[t]
  /\ runs[t][i].at = "watching"
  /\ runs' = [runs EXCEPT ![t][i].at = "over"]
  /\ busy' = [busy EXCEPT ![t] = @ /\ ~runs[t][i].own]
  /\ UNCHANGED << ui, seen, rooms, effectRun, bots, resets, reloaded, docVars >>

(* Answered, out of time or aborted.  The flag is lowered by an aborted    *)
(* run too, whoever raised it since.                                       *)
EndWatch(t, i) ==
  /\ i \in DOMAIN runs[t]
  /\ runs[t][i].at = "watching"
  /\ runs' = [runs EXCEPT ![t][i].at = "over"]
  /\ ui' = [ui EXCEPT ![t].demo = IF runs[t][i].aborted THEN @ ELSE None]
  /\ busy' = [busy EXCEPT ![t] = @ /\ ~runs[t][i].own]
  /\ UNCHANGED << seen, rooms, effectRun, bots, resets, reloaded, docVars >>

---------------------------------------------------------------------------
(* A commit.  The demo effect still sees the editor it rendered with, in   *)
(* the commit that closes its room: setEditor(null) is rendered next.      *)

Render(t) ==
  LET now == ui[t]
      was == seen[t]
      mounted == now.doc # None
      roomDeps == << now.actor, now.doc >> # << was.actor, was.doc >>
      demoDeps == << now.demo, now.actor, now.ed >> # << was.demo, was.actor, was.ed >>
      start == /\ demoDeps /\ mounted
               /\ now.demo # None /\ now.actor = now.demo /\ now.ed # 0
               /\ ~busy[t] \/ effectRun[t] # 0
  IN
  /\ now # was
  /\ seen' = [seen EXCEPT ![t] = now]
  /\ ui' = [ui EXCEPT ![t].ed = IF roomDeps THEN 0 ELSE @]
  /\ rooms' = [rooms EXCEPT ![t] = RoomsAfter(t, roomDeps, mounted, now.doc)]
  /\ bots' = [bots EXCEPT ![t] = BotsAfter(t, now.doc # was.doc, mounted, now.doc)]
  /\ runs' = [runs EXCEPT ![t] = RunsAfter(t, demoDeps \/ ~mounted, mounted, start)]
  /\ effectRun' = [effectRun EXCEPT ![t] =
                     IF start THEN Len(runs[t]) + 1
                     ELSE IF demoDeps \/ ~mounted THEN 0 ELSE @]
  /\ busy' = [busy EXCEPT ![t] = start \/ (@ /\ mounted /\ (effectRun[t] = 0 \/ ~demoDeps))]
  /\ UNCHANGED << resets, reloaded, docVars >>

---------------------------------------------------------------------------
(* The visitor.  A click's own update is rendered before the next click.   *)

Idle(t) == [ui[t] EXCEPT !.ed = 0] = [seen[t] EXCEPT !.ed = 0]

Sets(t, state) ==
  /\ ui' = [ui EXCEPT ![t] = state]
  /\ UNCHANGED << seen, rooms, runs, effectRun, busy, bots, reloaded, docVars >>

RunEditorDemo(t, asker) ==
  /\ Idle(t) /\ seen[t].doc # None
  /\ seen[t].demo = None
  /\ Sets(t, [ui[t] EXCEPT !.actor = asker, !.demo = asker])
  /\ UNCHANGED resets

SwitchActor(t, a) ==
  /\ Idle(t) /\ seen[t].doc # None
  /\ a # ui[t].actor
  /\ Sets(t, [ui[t] EXCEPT !.actor = a])
  /\ UNCHANGED resets

Navigate(t, d) ==
  /\ Idle(t)
  /\ d # ui[t].doc
  /\ Sets(t, IF d = None THEN Shut ELSE [ui[t] EXCEPT !.doc = d])
  /\ UNCHANGED resets

(* Reset clears the page at once and the document once its imports come,   *)
(* in the editor of the page that was clicked.                             *)
ResetAll(t) ==
  /\ Idle(t) /\ seen[t].doc # None
  /\ Sets(t, [ui[t] EXCEPT !.demo = None])
  /\ resets' = [resets EXCEPT ![t] = @ \cup ({seen[t].ed} \ {0})]

Cleared(blocks) == [k \in DOMAIN blocks |-> [blocks[k] EXCEPT !.there = FALSE]]

RestoreSeed(t, r) ==
  /\ r \in resets[t]
  /\ resets' = [resets EXCEPT ![t] = @ \ {r}]
  /\ IF rooms[t][r].state = "attached"
     THEN LET d == rooms[t][r].doc
          IN  /\ asks' = [asks EXCEPT ![d] = Cleared(@)]
              /\ markers' = [markers EXCEPT ![d] = Cleared(@)]
     ELSE UNCHANGED << asks, markers >>
  /\ UNCHANGED << ui, seen, rooms, runs, effectRun, busy, bots, lock, relayed, reloaded >>

(* A peer or the visitor deletes a paragraph somebody is writing.          *)
DeleteParagraph(d, k) ==
  /\ \/ /\ k \in DOMAIN asks[d] /\ asks[d][k].there
        /\ asks' = [asks EXCEPT ![d][k].there = FALSE]
        /\ UNCHANGED markers
     \/ /\ k \in DOMAIN markers[d] /\ markers[d][k].there
        /\ markers' = [markers EXCEPT ![d][k].there = FALSE]
        /\ UNCHANGED asks
  /\ UNCHANGED << tabVars, lock, relayed >>

(* The page's memory goes: all it ran stops, its locks are free.           *)
PageGoes(t, state) ==
  /\ ui' = [ui EXCEPT ![t] = state]
  /\ seen' = [seen EXCEPT ![t] = Shut]
  /\ rooms' = [rooms EXCEPT ![t] = << >>]
  /\ runs' = [runs EXCEPT ![t] = << >>]
  /\ effectRun' = [effectRun EXCEPT ![t] = 0]
  /\ busy' = [busy EXCEPT ![t] = FALSE]
  /\ bots' = [bots EXCEPT ![t] = << >>]
  /\ resets' = [resets EXCEPT ![t] = {}]
  /\ lock' = [d \in Docs |-> IF lock[d][1] = t THEN Free ELSE lock[d]]
  /\ UNCHANGED << asks, markers >>

CloseTab(t) ==
  /\ PageGoes(t, Shut)
  /\ reloaded' = [reloaded EXCEPT ![t] = FALSE]
  /\ UNCHANGED relayed

(* The page is loaded from an address: it may name a relay, which is kept  *)
(* for every tab, or take back the one that is kept.                       *)
LoadPage(t, d, sync) ==
  /\ PageGoes(t, [Shut EXCEPT !.doc = d])
  /\ relayed' = (sync = "url")
  /\ UNCHANGED reloaded

(* A stale deploy: the chunks are gone.  The page is loaded once more.     *)
RecoverStaleChunk(t, r) ==
  /\ r \in DOMAIN rooms[t]
  /\ rooms[t][r].state = "importing"
  /\ IF reloaded[t]
     THEN /\ rooms' = [rooms EXCEPT ![t][r].state = "failed"]
          /\ UNCHANGED << ui, seen, runs, effectRun, busy, bots, resets, reloaded, docVars >>
     ELSE /\ PageGoes(t, [Shut EXCEPT !.doc = ui[t].doc])
          /\ reloaded' = [reloaded EXCEPT ![t] = TRUE]
          /\ UNCHANGED relayed

---------------------------------------------------------------------------
ConsoleInit ==
  /\ ui = [t \in Tabs |-> Shut]
  /\ seen = [t \in Tabs |-> Shut]
  /\ rooms = [t \in Tabs |-> << >>]
  /\ runs = [t \in Tabs |-> << >>]
  /\ effectRun = [t \in Tabs |-> 0]
  /\ busy = [t \in Tabs |-> FALSE]
  /\ bots = [t \in Tabs |-> << >>]
  /\ lock = [d \in Docs |-> Free]
  /\ resets = [t \in Tabs |-> {}]
  /\ reloaded = [t \in Tabs |-> FALSE]
  /\ relayed \in BOOLEAN
  /\ asks = [d \in Docs |-> << >>]
  /\ markers = [d \in Docs |-> << >>]

(* What goes on by itself.                                                 *)
Works(t) ==
  \/ Render(t)
  \/ \E r \in DOMAIN rooms[t] : Attach(t, r)
  \/ \E i \in DOMAIN runs[t] : LoadRun(t, i) \/ Settle(t, i) \/ TypeAsk(t, i) \/ EndWatch(t, i)
  \/ \E b \in DOMAIN bots[t] : GrantLock(t, b) \/ LoadBot(t, b) \/ StartLine(t, b) \/ BotTypes(t, b)
  \/ \E r \in resets[t] : RestoreSeed(t, r)

ConsoleFairness ==
  \A t \in Tabs :
    /\ WF_consoleVars(Render(t))
    /\ WF_consoleVars(\E r \in DOMAIN rooms[t] : Attach(t, r))
    /\ WF_consoleVars(\E i \in DOMAIN runs[t] : LoadRun(t, i))
    /\ WF_consoleVars(\E i \in DOMAIN runs[t] : Settle(t, i))
    /\ WF_consoleVars(\E i \in DOMAIN runs[t] : TypeAsk(t, i))
    /\ WF_consoleVars(\E i \in DOMAIN runs[t] : EndWatch(t, i))
    /\ WF_consoleVars(\E b \in DOMAIN bots[t] : GrantLock(t, b))
    /\ WF_consoleVars(\E b \in DOMAIN bots[t] : LoadBot(t, b))
    /\ WF_consoleVars(\E b \in DOMAIN bots[t] : ~bots[t][b].aborted /\ StartLine(t, b))
    /\ WF_consoleVars(\E b \in DOMAIN bots[t] : ~bots[t][b].aborted /\ BotTypes(t, b))
    /\ WF_consoleVars(\E b \in DOMAIN bots[t] :
                        bots[t][b].aborted /\ (StartLine(t, b) \/ BotTypes(t, b)))
    /\ WF_consoleVars(\E r \in resets[t] : RestoreSeed(t, r))

---------------------------------------------------------------------------
(* No room and no simulated peer outlives the page, the actor or the       *)
(* document it was opened for, however late its imports arrive: a leaked   *)
(* transport would announce a visitor who is not there and save a document *)
(* nobody edits (weaverRoom.ts:119, 150-154; demoAgent.ts:60, 124-127).    *)
NothingLeaks ==
  \A t \in Tabs :
    /\ \A r \in DOMAIN rooms[t] : rooms[t][r].state = "attached" =>
         r = CurrentRoom(t) /\ rooms[t][r].doc = seen[t].doc
    /\ \A b \in DOMAIN bots[t] : bots[t][b].attached =>
         b = Len(bots[t]) /\ bots[t][b].doc = seen[t].doc

(* Nobody is played twice.  A visitor's demo never types from two runs: a  *)
(* click, a new actor, a new document or a remounted editor has stopped    *)
(* the earlier one before the next starts (ConsolePage.tsx:145-161,        *)
(* 222-226).  And however many tabs show a document, one simulated peer    *)
(* writes in it (demoAgent.ts:16-17, 112-115).                             *)
OneOfEach ==
  /\ \A t \in Tabs :
       Cardinality({ i \in DOMAIN runs[t] : Active(runs[t][i]) /\ ~runs[t][i].aborted }) <= 1
  /\ \A d \in Docs :
       Cardinality({ tb \in UNION { {t} \X DOMAIN bots[t] : t \in Tabs } :
                       LET b == bots[tb[1]][tb[2]] IN LiveBot(b) /\ b.doc = d }) <= 1

(* A demo types into the editor its page shows, and not at all once it was *)
(* reset or its page, actor or editor went: when the document changes      *)
(* under it, what it types before the next commit is lost with the editor, *)
(* and not one character more (ConsolePage.tsx:171, 190, 222-226).         *)
Types(t, i) ==
  LET d == rooms[t][runs[t][i].room].doc
      k == runs[t][i].block
  IN  /\ i \in DOMAIN runs'[t]
      /\ runs[t][i].at = "typing"
      /\ \/ asks'[d][k].typed > asks[d][k].typed
         \/ runs'[t][i].lost # runs[t][i].lost

NobodyTypesIntoTheVoid ==
  [][\A t \in Tabs : \A i \in DOMAIN runs[t] :
       Types(t, i) => ~runs[t][i].aborted /\ runs[t][i].room = seen[t].ed]_consoleVars

(* A page whose chunks load shows its editor in the end, whatever was      *)
(* clicked while they came (weaverRoom.ts:104-155).                        *)
EditorOpens ==
  \A t \in Tabs :
    []<>(\/ ui[t].doc = None \/ ui[t].ed # 0
         \/ \E r \in DOMAIN rooms[t] : rooms[t][r].state = "failed")

(* A demo that is left alone ends, and its buttons work again: unless its  *)
(* own paragraph is deleted under it, its actor is switched away or its    *)
(* chunks are gone (ConsolePage.tsx:154-228).                              *)
DemoEnds ==
  \A t \in Tabs :
    []<>(\/ ui[t].demo = None \/ ui[t].actor # ui[t].demo
         \/ \E i \in DOMAIN runs[t] : runs[t][i].at = "dead" /\ ~runs[t][i].aborted
         \/ \E r \in DOMAIN rooms[t] : rooms[t][r].state = "failed")

(* Of the simulated peers that pages started and did not stop, for a       *)
(* document, one comes to write, taken over by another tab when the        *)
(* leader's goes: unless every one of them gave up, its paragraph deleted  *)
(* under it or its chunks gone (demoAgent.ts:16-17, 112-115).              *)
BotTakesOver ==
  \A d \in Docs :
    LET peers == { tb \in UNION { {t} \X DOMAIN bots[t] : t \in Tabs } :
                     LET b == bots[tb[1]][tb[2]] IN b.doc = d /\ ~b.aborted }
        At(tb) == bots[tb[1]][tb[2]].at
    IN  []<>(\/ \E tb \in peers : At(tb) \in {"waiting", "writing", "resting"}
             \/ \A tb \in peers : At(tb) \in {"dead", "failed"})
=============================================================================
