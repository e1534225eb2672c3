------------------------------ MODULE RoomSync ------------------------------
(***************************************************************************)
(* The browser's room transport (apps/web/app/lib/weaverTransport.ts),     *)
(* with the relay it talks to and the localStorage and BroadcastChannel    *)
(* it shares with the other tabs of its browser.                           *)
(*                                                                         *)
(* One room.  A document is the set of edits merged into it; every frame   *)
(* carries a sender's full update log, so importing one is set union.      *)
(* Edits are numbered as they are made; 0 stands for what the room's       *)
(* earlier visitors left at the relay, and Poison for a history that does  *)
(* not merge with this bundle's seed (mergesCleanly is FALSE).             *)
(*                                                                         *)
(* JavaScript runs every callback to its end, so a callback is one action. *)
(* The relay is Relay.tla's for one room: the receiver before the          *)
(* snapshot, the broadcast before the save, and a truncated file while a   *)
(* save is under way; its channel never overflows here.  Presence and      *)
(* notifications, which touch none of this state, are left out.            *)
(***************************************************************************)
EXTENDS Naturals, Sequences, FiniteSets, SequencesExt

CONSTANTS
    Tabs, Browsers, BrowserOf,
    Poison,
    Setups,      \* the deployments to check, records in which
                 \*   tabs       are the tabs somebody may open
                 \*   relayed    those that were given a relayUrl
                 \*   revocable  those whose principal the relay may refuse
                 \*   storage    the browsers whose localStorage works
                 \*   stores     what the relay may hold at first
                 \*   droppers   bound: tabs that may lose their socket
                 \*   closers    bound: tabs that may be closed or crash
                 \*   edits      bound: local edits
                 \*   faults     bound: drops, closed and crashed tabs
    EditLimit,   \* bound: edits of any deployment
    DialLimit    \* bound: connections of a tab

Past == 0
Ops == 0..EditLimit
Dials == 1..DialLimit
Conns == Tabs \X Dials
Wired == UNION {s.relayed : s \in Setups}
Sent == 1..Max({s.edits : s \in {r \in Setups : r.relayed # {}}})

ASSUME RoomSyncAssumption ==
    /\ BrowserOf \in [Tabs -> Browsers]
    /\ EditLimit \in Nat /\ DialLimit \in Nat
    /\ Poison \notin Ops
    /\ \A s \in Setups :
        /\ s.relayed \cup s.revocable \cup s.droppers \cup s.closers \subseteq s.tabs
        /\ s.tabs \subseteq Tabs /\ s.storage \subseteq Browsers
        /\ s.stores \subseteq SUBSET {Past, Poison}
        /\ s.edits \in 0..EditLimit /\ s.faults \in Nat
        /\ s.relayed # {} => s.faults < DialLimit

VARIABLES
    setup,    \* the deployment, which never changes
    edits,    \* edits made so far
    opened,   \* open tabs
    doc,      \* the LoroDoc of each tab
    dirty,    \* its saveTimer is set
    local,    \* localStorage of each browser
    chan,     \* BroadcastChannel messages on their way to each tab
    link,     \* each tab's side of the relay connection
    fatal,    \* the tab gave the relay up for good
    conn,     \* the number of the tab's last connection
    inbox,    \* frames on their way to the relay, of every connection
    outbox,   \* frames on their way to each tab
    handler,  \* the relay's handler of every connection
    room,     \* open connections subscribed at the relay, oldest first
    store,    \* the relay's docs/<doc>.loro
    faults,
    posted    \* history: <<a, b>> when a, having heard all, broadcast to b

relay == <<inbox, outbox, handler, room, store>>
session == <<link, fatal, conn>>
tabs == <<edits, opened, doc, dirty, local, chan, session, faults, posted>>
vars == <<setup, tabs, relay>>

Relayed == setup.relayed
Storage == setup.storage

Frame(kind, ops) == [kind |-> kind, ops |-> ops]

(* Mutant: nothing is tried on a scratch document. *)
MergesAlways(h) == TRUE

(* Whether a history can be merged on a scratch document and read back. *)
MergesCleanly(h) == Poison \notin h

Socket(t) == <<t, conn[t]>>
HasSocket(t) == link[t] \in {"open", "live"}
Mates(t) == {u \in opened \ {t} : BrowserOf[u] = BrowserOf[t]}

Init ==
    /\ setup \in Setups
    /\ edits = 0 /\ opened = {} /\ faults = 0
    /\ doc = [t \in Tabs |-> {}] /\ dirty = [t \in Tabs |-> FALSE]
    /\ local = [b \in Browsers |-> {}]
    /\ chan = [t \in Tabs |-> << >>]
    /\ link = [t \in Tabs |-> "none"] /\ fatal = [t \in Tabs |-> FALSE]
    /\ conn = [t \in Tabs |-> 0]
    /\ inbox = [c \in Conns |-> << >>] /\ outbox = [t \in Tabs |-> << >>]
    /\ handler = [c \in Conns |-> "loop"] /\ room = << >>
    /\ store \in setup.stores
    /\ posted = {}

-----------------------------------------------------------------------------
(* The tab. *)

(* The forwarder of a closed socket delivers nothing any more. *)
Unsubscribe(t) ==
    \/ Socket(t) \notin ToSet(room) /\ UNCHANGED room
    \/ \E i \in DOMAIN room : room[i] = Socket(t) /\ room' = RemoveAt(room, i)

(* connect: a new socket; what the old one had not delivered is gone. *)
NewSocket(t) ==
    /\ link' = [link EXCEPT ![t] = "connecting"]
    /\ conn' = [conn EXCEPT ![t] = @ + 1]
    /\ outbox' = [outbox EXCEPT ![t] = << >>]

(* Mutant: the persisted snapshot is not loaded. *)
OpenTabFresh(t) ==
    /\ t \in setup.tabs \ opened
    /\ opened' = opened \cup {t}
    /\ \/ t \in Relayed /\ NewSocket(t)
       \/ t \notin Relayed /\ UNCHANGED <<link, conn, outbox>>
    /\ UNCHANGED <<edits, doc, dirty, local, chan, fatal, inbox, handler,
                   room, store, faults, posted>>

(* Hydration: the seed (in every document, so left out), then the snapshot *)
(* in localStorage, which is saved back at once.                           *)
OpenTab(t) ==
    /\ t \in setup.tabs \ opened
    /\ opened' = opened \cup {t}
    /\ doc' = [doc EXCEPT ![t] = local[BrowserOf[t]]]
    /\ \/ t \in Relayed /\ NewSocket(t)
       \/ t \notin Relayed /\ UNCHANGED <<link, conn, outbox>>
    /\ UNCHANGED <<edits, dirty, local, chan, fatal, inbox, handler, room,
                   store, faults, posted>>

(* onopen sends HELLO and SUBSCRIBE. *)
OnOpen(t) ==
    /\ link[t] = "connecting"
    /\ link' = [link EXCEPT ![t] = "open"]
    /\ inbox' = [inbox EXCEPT ![Socket(t)] = <<Frame("SUBSCRIBE", {})>>]
    /\ UNCHANGED <<edits, opened, doc, dirty, local, chan, fatal, conn,
                   outbox, handler, room, store, faults, posted>>

(* Mutant: what is new is sent instead of the full log. *)
PublishDelta(t, ops) ==
    /\ chan' = [u \in Tabs |-> IF u \in Mates(t)
                               THEN Append(chan[u], ops \ doc[t]) ELSE chan[u]]
    /\ inbox' = IF HasSocket(t)
                THEN [inbox EXCEPT ![Socket(t)] =
                        Append(@, Frame("UPDATE", ops \ doc[t]))]
                ELSE inbox
    /\ posted' = IF chan[t] = << >> THEN posted \cup ({t} \X Mates(t))
                 ELSE posted

(* broadcast: to the other tabs of the browser and, if the socket is open, *)
(* to the relay.                                                           *)
Publish(t, ops) ==
    /\ chan' = [u \in Tabs |-> IF u \in Mates(t) THEN Append(chan[u], ops)
                               ELSE chan[u]]
    /\ inbox' = IF HasSocket(t)
                THEN [inbox EXCEPT ![Socket(t)] =
                        Append(@, Frame("UPDATE", ops))]
                ELSE inbox
    /\ posted' = IF chan[t] = << >> THEN posted \cup ({t} \X Mates(t))
                 ELSE posted

(* scheduleSave.  Where localStorage refuses writes the timer's callback   *)
(* changes nothing, so the timer is left out.                              *)
ScheduleSave(t, news) ==
    dirty' = [dirty EXCEPT ![t] = @ \/ (news /\ BrowserOf[t] \in Storage)]

(* A local commit: the full log is broadcast and a save scheduled. *)
Edit(t) ==
    /\ t \in opened /\ edits < setup.edits
    /\ edits' = edits + 1
    /\ doc' = [doc EXCEPT ![t] = @ \cup {edits + 1}]
    /\ ScheduleSave(t, TRUE)
    /\ Publish(t, doc[t] \cup {edits + 1})
    /\ UNCHANGED <<opened, local, session, outbox, handler, room, store,
                   faults>>

(* doc.import; the document's event schedules a save if anything is new. *)
Import(t, ops) ==
    /\ doc' = [doc EXCEPT ![t] = @ \cup ops]
    /\ ScheduleSave(t, ~(ops \subseteq doc[t]))

(* bc.onmessage: what does not merge is dropped. *)
OnChannel(t) ==
    /\ chan[t] # << >>
    /\ chan' = [chan EXCEPT ![t] = Tail(@)]
    /\ LET ops == Head(chan[t]) IN
        Import(t, IF MergesCleanly(doc[t] \cup ops) THEN ops ELSE {})
    /\ UNCHANGED <<edits, opened, local, session, relay, faults, posted>>

(* The tab closes its socket for good; what it sent still arrives. *)
GoOffline(t) ==
    /\ fatal' = [fatal EXCEPT ![t] = TRUE]
    /\ link' = [link EXCEPT ![t] = "closing"]
    /\ Unsubscribe(t)

(* ws.onmessage.  A frame that does not merge, and an ERROR, are fatal; an *)
(* empty snapshot is not imported; the first snapshot is answered with     *)
(* the merged log.                                                         *)
OnMessage(t) ==
    /\ HasSocket(t) /\ outbox[t] # << >>
    /\ outbox' = [outbox EXCEPT ![t] = Tail(@)]
    /\ LET f == Head(outbox[t])
           merges == f.kind # "ERROR" /\ MergesCleanly(doc[t] \cup f.ops)
           first == f.kind = "SNAPSHOT" /\ link[t] = "open"
       IN \/ /\ ~merges /\ GoOffline(t)
             /\ UNCHANGED <<doc, dirty, chan, inbox, posted>>
          \/ /\ merges /\ ~first /\ Import(t, f.ops)
             /\ UNCHANGED <<link, fatal, chan, inbox, posted, room>>
          \/ /\ merges /\ first /\ Import(t, f.ops)
             /\ link' = [link EXCEPT ![t] = "live"]
             /\ Publish(t, doc[t] \cup f.ops)
             /\ UNCHANGED <<fatal, room>>
    /\ UNCHANGED <<edits, opened, local, conn, handler, store, faults>>

(* The debounced save. *)
SaveTimer(t) ==
    /\ dirty[t]
    /\ dirty' = [dirty EXCEPT ![t] = FALSE]
    /\ local' = [local EXCEPT ![BrowserOf[t]] = doc[t]]
    /\ UNCHANGED <<edits, opened, doc, chan, session, relay, faults, posted>>

(* Mutant: no reconnect is scheduled. *)
StayClosed(t) == "none"

(* ws.onclose: a reconnect is scheduled, unless the error was fatal. *)
AfterClose(t) == IF fatal[t] THEN "none" ELSE "waiting"

OnClose(t) ==
    /\ link[t] = "closing"
    /\ link' = [link EXCEPT ![t] = AfterClose(t)]
    /\ UNCHANGED <<edits, opened, doc, dirty, local, chan, fatal, conn,
                   relay, faults, posted>>

(* reconnectTimer *)
Reconnect(t) ==
    /\ link[t] = "waiting" /\ ~fatal[t]
    /\ NewSocket(t)
    /\ UNCHANGED <<edits, opened, doc, dirty, local, chan, fatal, inbox,
                   handler, room, store, faults, posted>>

-----------------------------------------------------------------------------
(* Faults. *)

Fault == faults < setup.faults /\ faults' = faults + 1

(* Of what was on its way to the relay, a prefix still arrives. *)
KeepPrefix(t) ==
    IF ~HasSocket(t) THEN inbox' = inbox
    ELSE \E n \in 0..Len(inbox[Socket(t)]) :
           /\ handler[Socket(t)] = "save" => n > 0
           /\ inbox' = [inbox EXCEPT ![Socket(t)] = SubSeq(@, 1, n)]

(* A socket drops, or cannot be opened. *)
Drop(t) ==
    /\ link[t] \in {"connecting", "open", "live"}
    /\ t \in setup.droppers /\ Fault
    /\ KeepPrefix(t) /\ Unsubscribe(t)
    /\ link' = [link EXCEPT ![t] = AfterClose(t)]
    /\ outbox' = [outbox EXCEPT ![t] = << >>]
    /\ UNCHANGED <<edits, opened, doc, dirty, local, chan, fatal, conn,
                   handler, store, posted>>

Leave(t) ==
    /\ t \in opened \cap setup.closers /\ Fault /\ Unsubscribe(t)
    /\ opened' = opened \ {t}
    /\ doc' = [doc EXCEPT ![t] = {}]
    /\ dirty' = [dirty EXCEPT ![t] = FALSE]
    /\ chan' = [chan EXCEPT ![t] = << >>]
    /\ link' = [link EXCEPT ![t] = "none"]
    /\ fatal' = [fatal EXCEPT ![t] = FALSE]
    /\ outbox' = [outbox EXCEPT ![t] = << >>]
    /\ posted' = {ab \in posted : t \notin {ab[1], ab[2]}}
    /\ UNCHANGED <<edits, conn, handler, store>>

(* dispose flushes a pending save and closes the socket gracefully. *)
Dispose(t) ==
    /\ Leave(t)
    /\ \/ dirty[t] /\ local' = [local EXCEPT ![BrowserOf[t]] = doc[t]]
       \/ ~dirty[t] /\ UNCHANGED local
    /\ UNCHANGED inbox

(* The tab is killed: no flush. *)
Crash(t) == Leave(t) /\ KeepPrefix(t) /\ UNCHANGED local

-----------------------------------------------------------------------------
(* The relay, per connection c = <<tab, number>>. *)

Attached(c) == conn[c[1]] = c[2] /\ HasSocket(c[1])
Waiting(c, kind) ==
    handler[c] = "loop" /\ inbox[c] # << >> /\ Head(inbox[c]).kind = kind
Pop(c) == inbox' = [inbox EXCEPT ![c] = Tail(@)]

(* The token or the principal is revoked: ERROR, and the handler returns. *)
Refuse(c) ==
    /\ c[1] \in setup.revocable /\ handler[c] = "loop" /\ inbox[c] # << >>
    /\ handler' = [handler EXCEPT ![c] = "done"]
    /\ inbox' = [inbox EXCEPT ![c] = << >>]
    /\ outbox' = IF Attached(c)
                 THEN [outbox EXCEPT ![c[1]] = Append(@, Frame("ERROR", {}))]
                 ELSE outbox
    /\ UNCHANGED <<tabs, room, store>>

(* Mutant: no forwarder is started. *)
SubscribeOnce(c) ==
    /\ Waiting(c, "SUBSCRIBE") /\ Pop(c)
    /\ handler' = [handler EXCEPT ![c] = "load"]
    /\ UNCHANGED <<tabs, outbox, room, store>>

Subscribe(c) ==
    /\ Waiting(c, "SUBSCRIBE") /\ Pop(c)
    /\ handler' = [handler EXCEPT ![c] = "load"]
    /\ room' = IF Attached(c) THEN Append(room, c) ELSE room
    /\ UNCHANGED <<tabs, outbox, store>>

(* The snapshot goes out before what the receiver caught meanwhile. *)
LoadSnapshot(c) ==
    /\ handler[c] = "load"
    /\ handler' = [handler EXCEPT ![c] = "loop"]
    /\ \E s \in {store} \cup (IF \E k \in Conns : handler[k] = "save"
                             THEN {{}} ELSE {}) :
         outbox' = IF Attached(c)
                   THEN [outbox EXCEPT ![c[1]] = <<Frame("SNAPSHOT", s)>> \o @]
                   ELSE outbox
    /\ UNCHANGED <<tabs, inbox, room, store>>

Broadcast(c) ==
    /\ Waiting(c, "UPDATE")
    /\ handler' = [handler EXCEPT ![c] = "save"]
    /\ outbox' = [t \in Tabs |->
         IF Socket(t) \in ToSet(room) \ {c} /\ Attached(Socket(t))
         THEN Append(outbox[t], Head(inbox[c])) ELSE outbox[t]]
    /\ UNCHANGED <<tabs, inbox, room, store>>

Save(c) ==
    /\ handler[c] = "save"
    /\ handler' = [handler EXCEPT ![c] = "loop"]
    /\ store' = Head(inbox[c]).ops
    /\ Pop(c)
    /\ UNCHANGED <<tabs, outbox, room>>

-----------------------------------------------------------------------------
Handle(c) == Subscribe(c) \/ LoadSnapshot(c) \/ Broadcast(c) \/ Save(c)
Callback(t) == OnOpen(t) \/ OnMessage(t) \/ OnClose(t) \/ Reconnect(t)

Step ==
    \/ \E t \in Tabs :
        \/ OpenTab(t) \/ Edit(t) \/ OnChannel(t) \/ SaveTimer(t)
        \/ Callback(t) \/ Drop(t) \/ Dispose(t) \/ Crash(t)
    \/ \E c \in Conns : Handle(c) \/ Refuse(c)

Next == Step /\ UNCHANGED setup

(* The browser delivers what arrives, the relay serves the frames of every *)
(* tab, and the network fails no more than setup.faults times.             *)
Fairness ==
    \A t \in Wired :
        /\ WF_vars(Callback(t) /\ UNCHANGED setup)
        /\ WF_vars(\E c \in {t} \X Dials : Handle(c) /\ UNCHANGED setup)

Spec == Init /\ [][Next]_vars /\ Fairness

-----------------------------------------------------------------------------
(* The shape of the transport's state: a document never holds a history    *)
(* that does not merge, whatever arrives.                                  *)
TypeOK ==
    /\ setup \in Setups
    /\ edits \in 0..setup.edits /\ faults \in 0..setup.faults
    /\ opened \subseteq setup.tabs
    /\ doc \in [Tabs -> SUBSET Ops] /\ local \in [Browsers -> SUBSET Ops]
    /\ dirty \in [Tabs -> BOOLEAN] /\ fatal \in [Tabs -> BOOLEAN]
    /\ link \in [Tabs -> {"none", "connecting", "open", "live", "closing",
                          "waiting"}]
    /\ conn \in [Tabs -> 0..DialLimit]
    /\ handler \in [Conns -> {"loop", "load", "save", "done"}]
    /\ room \in Seq(Conns) /\ store \subseteq Ops \cup {Poison}
    /\ \A t \in Tabs : chan[t] \in Seq(SUBSET Ops)

(* A browser's only open tab has everything it shows in localStorage, or   *)
(* the timer that will save it is running.                                 *)
SavedUnlessPending ==
    \A t \in opened :
        (/\ BrowserOf[t] \in Storage
         /\ \A u \in setup.tabs \ {t} : BrowserOf[u] # BrowserOf[t])
            => dirty[t] \/ local[BrowserOf[t]] = doc[t]

Quiet ==
    /\ \A c \in Conns : inbox[c] = << >> /\ handler[c] \in {"loop", "done"}
    /\ \A t \in Tabs : outbox[t] = << >> /\ chan[t] = << >>

(* Announcing the merged log and broadcasting full logs keep those already *)
(* in a room complete: with nothing in flight, a live tab knows every edit *)
(* that a tab which joined after it knows.  What a tab hears from another  *)
(* of its browser it passes on to nobody, so the later one is to have no   *)
(* such neighbour.                                                         *)
EarlierJoinersKnowAll ==
    Quiet => \A i, j \in DOMAIN room :
        (/\ i < j /\ Attached(room[i]) /\ Attached(room[j])
         /\ link[room[i][1]] = "live" /\ link[room[j][1]] = "live"
         /\ \A u \in setup.tabs \ {room[j][1]} :
              BrowserOf[u] # BrowserOf[room[j][1]])
            => doc[room[j][1]] \subseteq doc[room[i][1]]

(* Full logs heal what a tab missed before it opened: once a tab without a *)
(* relay has heard all that was sent to it and broadcasts, each tab of its *)
(* browser has, or is about to have, all it has or ever learns.  What a    *)
(* relay sends it, a tab does not broadcast.                               *)
FullLogHeals ==
    \A ab \in posted : ab[1] \notin Relayed =>
        doc[ab[1]] \subseteq doc[ab[2]] \cup UNION ToSet(chan[ab[2]])

(* What a tab sent and the relay has not broadcast yet. *)
Unsent(t) ==
    LET q == inbox[Socket(t)]
    IN IF handler[Socket(t)] = "save" THEN Tail(q) ELSE q

(* What a live tab sent, and the relay has not broadcast yet, reaches      *)
(* every live tab if both stay connected.                                  *)
LiveEditsArrive ==
    \A a, b \in Wired : \A e \in Sent :
        (/\ a # b /\ link[a] = "live" /\ link[b] = "live"
         /\ \E f \in ToSet(Unsent(a)) : e \in f.ops)
            ~> (e \in doc[b] \/ link[a] # "live" \/ link[b] # "live")

(* An open tab gets live, and gets live again after its socket dropped,    *)
(* unless the relay or its history turned it away for good.                *)
ComesBack ==
    \A t \in Wired :
        (t \in opened \cap Relayed) ~> (link[t] = "live" \/ fatal[t] \/ t \notin opened)

Shared == INSTANCE SharedDoc WITH Edits <- Ops, written <- 0..edits,
                                  kept <- local

(* The transport implements the shared document, whatever the network, the *)
(* relay's history and the other tabs do.                                  *)
ImplementsSharedDoc == Shared!Spec
=============================================================================
