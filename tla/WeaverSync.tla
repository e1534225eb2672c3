----------------------------- MODULE WeaverSync -----------------------------
(***************************************************************************)
(* The editor's own sync stack (packages/weaver): initSync wires a page's  *)
(* LoroDoc to a store (opfs-store.ts) and to a room (sync-room.ts) over a  *)
(* WebSocket that reconnects by itself (ws-bridge.ts); connectPeers links  *)
(* the document of an agent that lives in the same page (peer-link.ts).    *)
(*                                                                         *)
(* Edits are numbered as they are made.  A document is the set of edits    *)
(* imported into it; one whose dependencies are missing is kept aside by   *)
(* Loro and neither shown nor exported, so a version is the set of visible *)
(* edits.  A frame is the set of edits it carries.                         *)
(*                                                                         *)
(* JavaScript runs a callback to its end, so a callback is one action; an  *)
(* IndexedDB request completes later.  Presence, which shares the socket   *)
(* but no state with the document, is left out.  The server's adapter is   *)
(* not in the repository and is modelled from SyncRoom's comments: a join  *)
(* is caught up, a snapshot is kept now and then, a restart starts from it.*)
(***************************************************************************)
EXTENDS Naturals, Sequences, FiniteSets, SequencesExt, FiniteSetsExt

CONSTANTS
    Pages,
    Durable,       \* pages whose browser has IndexedDB
    Wired,         \* pages given a wsUrl
    Hosts,         \* bound: pages with an agent
    Leavers,       \* bound: pages that may be disposed of or go
    SnapshotEvery, \* snapshotEveryNOps
    KeepEvery,     \* SNAPSHOT_EVERY_N_FRAMES
    MaxEdits,      \* bound: edits of anybody
    Budgets        \* bound: how often each of Bounded may happen

(* Edits of anybody, links of an agent, snapshots asked for through the    *)
(* handle, faults of the network and of the server, writes that fail,      *)
(* disposals and pages that go.                                            *)
Bounded == {"edits", "links", "flushes", "network", "writes", "disposals",
            "leaves"}

ASSUME WeaverSyncAssumption ==
    /\ Durable \subseteq Pages /\ Wired \subseteq Pages
    /\ Hosts \subseteq Pages /\ Leavers \subseteq Pages
    /\ SnapshotEvery \in Nat \ {0} /\ KeepEvery \in Nat \ {0}
    /\ MaxEdits \in Nat /\ Budgets \subseteq [Bounded -> 0..MaxEdits]

VARIABLES
    edits,      \* every edit made: its peer and the version it was made on
    phase,      \* how far initSync or dispose has got
    doc,        \* the page's LoroDoc
    agent,      \* the agent's LoroDoc
    linked,     \* connectPeers has joined the two
    mark,       \* lastExportedVersion
    since,      \* opsSinceSnapshot
    sock,       \* the bridge's socket
    timer,      \* a reconnect is scheduled
    ever,       \* everConnected
    quitting,   \* intentionalClose
    up, down,   \* frames on their way to and from the room
    puts,       \* snapshots on their way to the store
    writes,     \* appends and deletions on their way to the op log
    snap, log,  \* the page's snapshots and ops stores
    room,       \* SyncRoom.doc
    hasContent, \* SyncRoom.hasContent
    frames,     \* framesSinceSnapshot, up to KeepEvery
    kept,       \* the snapshot the server has kept
    budget,     \* how often each may happen yet
    given,      \* history: edits the page gave its store
    settled,    \* history: edits the store has committed
    heard       \* history: edits the wire brought to the open page

page == <<phase, doc, agent, linked, mark, since>>
bridge == <<sock, timer, ever, quitting>>
wire == <<up, down>>
disk == <<puts, writes, snap, log>>
server == <<room, hasContent, frames, kept>>
history == <<given, settled, heard>>
vars == <<edits, page, bridge, wire, disk, server, budget, history>>

Ops == 1..MaxEdits

Phases == {"off", "loading", "connecting", "live", "failed", "draining",
           "disposed"}

(* The document's subscriber is attached, and nobody has detached it: a    *)
(* failed connect fails initSync with the subscriber in place.             *)
Subscribed == {"connecting", "live", "failed"}

(* What a document shows of h: the edits whose dependencies h holds. *)
Visible(E, h) == {o \in h : E[o].deps \subseteq h}

(* partialEndVersionVector: a peer's edits up to the last that h carries. *)
UpTo(E, h) == {o \in DOMAIN E : \E x \in h : E[x].peer = E[o].peer /\ o <= x}

(* A page has a new peer after every reload. *)
Peer(p, who) == <<p, who, budget.leaves>>

Put(f, p, x) == [f EXCEPT ![p] = x]
Spend(what) == budget[what] > 0 /\ budget' = [budget EXCEPT ![what] = @ - 1]

Deletion(tracked) == [kind |-> "delete", ops |-> {}, tracked |-> tracked]
Append1(ops) == [kind |-> "append", ops |-> ops, tracked |-> TRUE]
Flushing(p) ==
    puts[p] # <<>> \/ \E i \in DOMAIN writes[p] : writes[p][i].kind = "delete"
Queued(p) ==
    UNION ({puts[p][i].ops : i \in DOMAIN puts[p]}
           \cup {writes[p][i].ops : i \in DOMAIN writes[p]})
Stored(p) == snap[p] \cup log[p]

Init ==
    /\ edits = <<>>
    /\ phase = [p \in Pages |-> "off"]
    /\ doc = [p \in Pages |-> {}] /\ agent = [p \in Pages |-> {}]
    /\ linked = [p \in Pages |-> FALSE]
    /\ mark = [p \in Pages |-> {}] /\ since = [p \in Pages |-> 0]
    /\ sock = [p \in Pages |-> "none"] /\ timer = [p \in Pages |-> FALSE]
    /\ ever = [p \in Pages |-> FALSE] /\ quitting = [p \in Pages |-> FALSE]
    /\ up = [p \in Pages |-> <<>>] /\ down = [p \in Pages |-> <<>>]
    /\ puts = [p \in Pages |-> <<>>] /\ writes = [p \in Pages |-> <<>>]
    /\ snap = [p \in Pages |-> {}] /\ log = [p \in Pages |-> {}]
    /\ room = {} /\ hasContent = FALSE /\ frames = 0 /\ kept = {}
    /\ budget \in Budgets
    /\ given = [p \in Pages |-> {}] /\ settled = [p \in Pages |-> {}]
    /\ heard = [p \in Pages |-> {}]

-----------------------------------------------------------------------------
(* The store.                                                              *)

(* A flush folds what the page shows into the snapshot.  What the log holds *)
(* beside it is lost: an edit that waits for its dependencies, or one that  *)
(* reaches the log before its deletion and after the export.  The history   *)
(* promises neither.                                                        *)
Unfolded(p, v) == (log[p] \cup Queued(p)) \ v

(* Mutant: the op log is deleted before the snapshot is put. *)
SaveSnapshotLast(p, v, tracked, w, l) ==
    /\ puts' = [puts EXCEPT ![p] = Append(@, [ops |-> v, tracked |-> tracked])]
    /\ writes' = Put(writes, p, Append(w, Deletion(tracked)))
    /\ log' = Put(log, p, l)
    /\ settled' = [settled EXCEPT ![p] = @ \ Unfolded(p, v)]
    /\ UNCHANGED snap

(* saveSnapshot of version v, the op log being l and the queue to it w: at *)
(* once in memory; in IndexedDB the snapshot is put, and then the op log   *)
(* is deleted, in two transactions.                                        *)
SaveSnapshot(p, v, tracked, w, l) ==
    IF p \in Durable
    THEN /\ puts' = [puts EXCEPT ![p] = Append(@, [ops |-> v, tracked |-> tracked])]
         /\ writes' = Put(writes, p, w)
         /\ log' = Put(log, p, l)
         /\ settled' = [settled EXCEPT ![p] = @ \ Unfolded(p, v)]
         /\ UNCHANGED snap
    ELSE /\ snap' = Put(snap, p, v)
         /\ log' = Put(log, p, {})
         /\ settled' = [settled EXCEPT ![p] = (@ \ Unfolded(p, v)) \cup v]
         /\ UNCHANGED <<puts, writes>>

(* flushSnapshot through the handle; dispose does not wait for it.  In     *)
(* memory it ends at once.                                                 *)
Flush(p) ==
    /\ phase[p] = "live" /\ Spend("flushes")
    /\ LET v == Visible(edits, doc[p]) IN
        /\ SaveSnapshot(p, v, FALSE, writes[p], log[p])
        /\ given' = [given EXCEPT ![p] = @ \ Unfolded(p, v)]
        /\ mark' = Put(mark, p, IF p \in Durable THEN mark[p] ELSE v)
        /\ since' = Put(since, p, IF p \in Durable THEN since[p] ELSE 0)
    /\ UNCHANGED <<edits, phase, doc, agent, linked, bridge, wire, server,
                   heard>>

(* A put whose request succeeds is followed by the deletion of the op log. *)
PutSnapshot(p) ==
    /\ puts[p] # <<>>
    /\ LET s == Head(puts[p]) IN
        /\ snap' = Put(snap, p, s.ops)
        /\ writes' = [writes EXCEPT ![p] = Append(@, Deletion(s.tracked))]
        /\ settled' = [settled EXCEPT ![p] = @ \cup s.ops]
    /\ puts' = [puts EXCEPT ![p] = Tail(@)]
    /\ UNCHANGED <<edits, page, bridge, wire, log, server, budget, given,
                   heard>>

(* Transactions on the op log run in the order they were made; the last    *)
(* one of a flush is followed by the new watermark and count.              *)
WriteOps(p) ==
    /\ writes[p] # <<>>
    /\ LET w == Head(writes[p]) IN
        IF w.kind = "append"
        THEN /\ log' = [log EXCEPT ![p] = @ \cup w.ops]
             /\ settled' = [settled EXCEPT ![p] =
                              IF Flushing(p) THEN @ ELSE @ \cup w.ops]
             /\ UNCHANGED <<mark, since>>
        ELSE /\ log' = Put(log, p, {})
             /\ mark' = Put(mark, p, Visible(edits, doc[p]))
             /\ since' = Put(since, p, 0)
             /\ UNCHANGED settled
    /\ writes' = [writes EXCEPT ![p] = Tail(@)]
    /\ UNCHANGED <<edits, phase, doc, agent, linked, bridge, wire, puts, snap,
                   server, budget, given, heard>>

(* A request that fails is logged; nothing tries it again. *)
FailWrite(p) ==
    /\ Spend("writes")
    /\ \/ /\ puts[p] # <<>>
          /\ puts' = [puts EXCEPT ![p] = Tail(@)]
          /\ UNCHANGED <<writes, given>>
       \/ /\ writes[p] # <<>>
          /\ writes' = [writes EXCEPT ![p] = Tail(@)]
          /\ given' = [given EXCEPT ![p] = @ \ Head(writes[p]).ops]
          /\ UNCHANGED puts
    /\ UNCHANGED <<edits, page, bridge, wire, snap, log, server, settled,
                   heard>>

(* tx answers when its request succeeds, and the transaction may still      *)
(* abort; the page is not told.  When a transaction ends is seen only by    *)
(* the next one of its store and by whoever opens the page again, so its    *)
(* end is decided with the request.  After a put that aborts, the deletion  *)
(* of the op log takes what no snapshot holds.                              *)
AbortWrite(p) ==
    /\ Spend("writes")
    /\ \/ /\ puts[p] # <<>>
          /\ puts' = [puts EXCEPT ![p] = Tail(@)]
          /\ writes' = [writes EXCEPT ![p] = Append(@, Deletion(Head(puts[p]).tracked))]
          /\ given' = [given EXCEPT ![p] = @ \cap snap[p]]
          /\ settled' = [settled EXCEPT ![p] = @ \cap snap[p]]
          /\ UNCHANGED <<mark, since>>
       \/ /\ writes[p] # <<>>
          /\ writes' = [writes EXCEPT ![p] = Tail(@)]
          /\ given' = [given EXCEPT ![p] = @ \ Head(writes[p]).ops]
          /\ IF Head(writes[p]).kind = "delete"
             THEN /\ mark' = Put(mark, p, Visible(edits, doc[p]))
                  /\ since' = Put(since, p, 0)
             ELSE UNCHANGED <<mark, since>>
          /\ UNCHANGED <<puts, settled>>
    /\ UNCHANGED <<edits, phase, doc, agent, linked, bridge, wire, snap, log,
                   server, heard>>

-----------------------------------------------------------------------------
(* The document's subscriber.                                              *)

(* One call of it: what the watermark m does not cover is appended to the  *)
(* op log and sent if the socket is open; every SnapshotEvery calls start  *)
(* a flush, and so does every call before that flush has ended.            *)
Export(p, v, m) ==
    LET delta == v \ m
        n == Min({since[p] + 1, SnapshotEvery})
        full == n = SnapshotEvery
        w == Append(writes[p], Append1(delta))
    IN
    /\ IF p \in Durable
       THEN IF full
            THEN SaveSnapshot(p, v, TRUE, w, log[p])
            ELSE /\ writes' = Put(writes, p, w)
                 /\ UNCHANGED <<puts, snap, log, settled>>
       ELSE IF full
            THEN SaveSnapshot(p, v, TRUE, writes[p], log[p])
            ELSE /\ log' = [log EXCEPT ![p] = @ \cup delta]
                 /\ settled' = [settled EXCEPT ![p] = @ \cup delta]
                 /\ UNCHANGED <<puts, writes, snap>>
    /\ given' = [given EXCEPT ![p] =
          (@ \ (IF full THEN Unfolded(p, v) ELSE {}))
          \cup (IF Flushing(p) THEN {} ELSE delta)]
    /\ mark' = Put(mark, p, v)
    /\ since' = Put(since, p, IF full /\ p \notin Durable THEN 0 ELSE n)
    /\ up' = IF sock[p] = "open" THEN [up EXCEPT ![p] = Append(@, delta)]
                                 ELSE up

(* The page's document becomes h, the watermark being m and the edits E. *)
Becomes(p, E, h, m) ==
    /\ doc' = Put(doc, p, h)
    /\ LET v == Visible(E, h) IN
        IF phase[p] \in Subscribed /\ v # Visible(E, doc[p]) /\ v # m
        THEN Export(p, v, m)
        ELSE /\ mark' = Put(mark, p, m)
             /\ UNCHANGED <<since, up, disk, given, settled>>

(* Mutant: an import from the wire leaves the watermark where it was. *)
MarkStays(p, f) == mark[p]

(* The watermark an inbound frame leaves before it is imported. *)
MarkPast(p, f) == mark[p] \cup UpTo(edits, f)

Made(peer, on) == Append(edits, [peer |-> peer, deps |-> on])

(* The user edits the page's document; a linked agent imports the delta    *)
(* its own version lacks.                                                  *)
Edit(p) ==
    /\ phase[p] # "off" /\ Spend("edits")
    /\ edits' = Made(Peer(p, "user"), Visible(edits, doc[p]))
    /\ LET h == doc[p] \cup {Len(edits')} IN
        /\ Becomes(p, edits', h, mark[p])
        /\ agent' = IF linked[p]
                    THEN [agent EXCEPT ![p] = @ \cup Visible(edits', h)]
                    ELSE agent
    /\ UNCHANGED <<phase, linked, bridge, down, server, heard>>

(* The agent edits its own document; only then does the page learn it. *)
AgentEdit(p) ==
    /\ p \in Hosts /\ phase[p] # "off" /\ Spend("edits")
    /\ edits' = Made(Peer(p, "agent"), Visible(edits, agent[p]))
    /\ LET h == agent[p] \cup {Len(edits')} IN
        /\ agent' = Put(agent, p, h)
        /\ IF linked[p]
           THEN Becomes(p, edits', doc[p] \cup Visible(edits', h), mark[p])
           ELSE UNCHANGED <<doc, mark, since, up, disk, given, settled>>
    /\ UNCHANGED <<phase, linked, bridge, down, server, heard>>

(* connectPeers brings both to the union; an import alone is not passed on *)
(* until somebody edits.                                                   *)
Link(p) ==
    /\ p \in Hosts /\ phase[p] # "off" /\ ~linked[p]
    /\ Spend("links")
    /\ LET both == Visible(edits, doc[p]) \cup Visible(edits, agent[p]) IN
        /\ agent' = [agent EXCEPT ![p] = @ \cup both]
        /\ Becomes(p, edits, doc[p] \cup both, mark[p])
    /\ linked' = Put(linked, p, TRUE)
    /\ UNCHANGED <<edits, phase, bridge, down, server, heard>>

Unlink(p) ==
    /\ linked[p]
    /\ linked' = Put(linked, p, FALSE)
    /\ UNCHANGED <<edits, phase, doc, agent, mark, since, bridge, wire, disk,
                   server, budget, history>>

-----------------------------------------------------------------------------
(* initSync.                                                               *)

(* A page opens with an empty document and imports its snapshot. *)
Open(p) ==
    /\ phase[p] = "off"
    /\ phase' = Put(phase, p, "loading")
    /\ doc' = Put(doc, p, snap[p])
    /\ UNCHANGED <<edits, agent, linked, mark, since, bridge, wire, disk,
                   server, budget, history>>

(* The op log is replayed, the subscriber attached and the room dialled;   *)
(* what the user did meanwhile counts as exported already.                 *)
LoadOps(p) ==
    /\ phase[p] = "loading"
    /\ doc' = [doc EXCEPT ![p] = @ \cup log[p]]
    /\ mark' = Put(mark, p, Visible(edits, doc[p] \cup log[p]))
    /\ IF p \in Wired
       THEN phase' = Put(phase, p, "connecting")
            /\ sock' = Put(sock, p, "dialing")
       ELSE phase' = Put(phase, p, "live") /\ UNCHANGED sock
    /\ UNCHANGED <<edits, agent, linked, since, timer, ever, quitting, wire,
                   disk, server, budget, history>>

-----------------------------------------------------------------------------
(* The bridge.                                                             *)

(* Mutant: a connection that comes back sends nothing. *)
PushNothing(p) == <<>>

(* Everything the page knows goes up on the first connect and, as the     *)
(* handler of initSync is registered, on every later one until dispose.    *)
PushFullState(p) ==
    IF phase[p] \in {"connecting", "live"}
    THEN <<Visible(edits, doc[p])>>
    ELSE <<>>

CatchUpFrames ==
    IF hasContent THEN <<Visible(edits, room)>> ELSE <<>>

(* The server accepts and catches the page up, and onopen runs: the frames *)
(* of the room cannot overtake it.  The first time, initSync returns.      *)
Connect(p) ==
    /\ sock[p] = "dialing"
    /\ sock' = Put(sock, p, "open")
    /\ ever' = Put(ever, p, TRUE)
    /\ down' = Put(down, p, CatchUpFrames)
    /\ up' = Put(up, p, PushFullState(p))
    /\ phase' = IF phase[p] = "connecting" THEN Put(phase, p, "live") ELSE phase
    /\ UNCHANGED <<edits, doc, agent, linked, mark, since, timer, quitting,
                   disk, server, budget, history>>

(* Mutant: a bridge that never reconnects. *)
RetriesNever(p) == FALSE

(* onclose: a reconnect is scheduled unless the close was asked for or the *)
(* first connect never succeeded.                                          *)
Reconnects(p) == ever[p] /\ ~quitting[p]

Closed(p) ==
    /\ sock' = Put(sock, p, "none")
    /\ timer' = Put(timer, p, timer[p] \/ Reconnects(p))
    /\ up' = Put(up, p, <<>>) /\ down' = Put(down, p, <<>>)

(* A first connect that fails fails initSync; a later one is retried. *)
DialFails(p) ==
    /\ sock[p] = "dialing" /\ Spend("network")
    /\ Closed(p)
    /\ phase' = IF phase[p] = "connecting" THEN Put(phase, p, "failed") ELSE phase
    /\ UNCHANGED <<edits, doc, agent, linked, mark, since, ever, quitting,
                   disk, server, history>>

DropSocket(p) ==
    /\ sock[p] = "open" /\ Spend("network")
    /\ Closed(p)
    /\ UNCHANGED <<edits, page, ever, quitting, disk, server, history>>

(* The timer of scheduleReconnect dials, whoever disconnected meanwhile. *)
Redial(p) ==
    /\ timer[p]
    /\ timer' = Put(timer, p, FALSE)
    /\ quitting' = Put(quitting, p, FALSE)
    /\ sock' = Put(sock, p, "dialing")
    /\ UNCHANGED <<edits, page, ever, wire, disk, server, budget, history>>

(* A socket that was asked to close sends what it was given first. *)
Hangup(p) ==
    /\ sock[p] = "closing" /\ up[p] = <<>>
    /\ Closed(p)
    /\ UNCHANGED <<edits, page, ever, quitting, disk, server, budget, history>>

(* An inbound frame moves the watermark past what it carries and is        *)
(* imported; its edits are never appended to the op log.  Once dispose has *)
(* begun, no handler is left.                                              *)
Receive(p) ==
    /\ sock[p] \in {"open", "closing"} /\ down[p] # <<>>
    /\ down' = [down EXCEPT ![p] = Tail(@)]
    /\ IF phase[p] = "live"
       THEN /\ Becomes(p, edits, doc[p] \cup Head(down[p]),
                       MarkPast(p, Head(down[p])))
            /\ heard' = [heard EXCEPT ![p] = @ \cup Head(down[p])]
       ELSE UNCHANGED <<doc, mark, since, up, disk, given, settled, heard>>
    /\ UNCHANGED <<edits, phase, agent, linked, bridge, server, budget>>

-----------------------------------------------------------------------------
(* The room.                                                               *)

(* A frame is merged into the room's document and passed on, as it is, to  *)
(* every other open connection.                                            *)
ReceiveFrame(p) ==
    /\ sock[p] \in {"open", "closing"} /\ up[p] # <<>>
    /\ LET f == Head(up[p]) IN
        /\ room' = room \cup f
        /\ down' = [q \in Pages |->
              IF q # p /\ sock[q] \in {"open", "closing"}
              THEN Append(down[q], f) ELSE down[q]]
    /\ hasContent' = TRUE
    /\ frames' = Min({frames + 1, KeepEvery})
    /\ up' = [up EXCEPT ![p] = Tail(@)]
    /\ UNCHANGED <<edits, page, bridge, disk, kept, budget, history>>

(* The adapter keeps a snapshot once enough frames have come. *)
Keep ==
    /\ frames = KeepEvery
    /\ kept' = Visible(edits, room)
    /\ frames' = 0
    /\ UNCHANGED <<edits, page, bridge, wire, disk, room, hasContent, budget,
                   history>>

(* A server that restarts hydrates from the snapshot it kept, if any; its  *)
(* connections are gone.                                                   *)
Restart ==
    /\ Spend("network")
    /\ room' = kept /\ hasContent' = (kept # {}) /\ frames' = 0
    /\ LET hit == {p \in Pages : sock[p] # "none"} IN
        /\ sock' = [p \in Pages |-> "none"]
        /\ timer' = [p \in Pages |-> timer[p] \/ (p \in hit /\ Reconnects(p))]
        /\ up' = [p \in Pages |-> <<>>] /\ down' = [p \in Pages |-> <<>>]
        /\ phase' = [p \in Pages |->
              IF p \in hit /\ phase[p] = "connecting" THEN "failed" ELSE phase[p]]
    /\ UNCHANGED <<edits, doc, agent, linked, mark, since, ever, quitting,
                   disk, kept, history>>

-----------------------------------------------------------------------------
(* dispose, and pages that go.                                             *)

Dispose(p) ==
    /\ p \in Leavers /\ phase[p] = "live" /\ Spend("disposals")
    /\ phase' = Put(phase, p, "draining")
    /\ UNCHANGED <<edits, doc, agent, linked, mark, since, bridge, wire, disk,
                   server, history>>

(* No write that was tracked is pending. *)
Drained(p) ==
    /\ \A i \in DOMAIN puts[p] : ~puts[p][i].tracked
    /\ \A i \in DOMAIN writes[p] : ~writes[p][i].tracked

(* The bridge disconnects; a reconnect that was scheduled stays scheduled. *)
Disconnect(p) ==
    /\ phase[p] = "draining" /\ Drained(p)
    /\ phase' = Put(phase, p, "disposed")
    /\ quitting' = Put(quitting, p, TRUE)
    /\ sock' = IF sock[p] = "none" THEN sock ELSE Put(sock, p, "closing")
    /\ UNCHANGED <<edits, doc, agent, linked, mark, since, timer, ever, wire,
                   disk, server, budget, history>>

(* The page is closed, reloaded or crashes: what it had not written is     *)
(* lost, and without IndexedDB so is the store.  Only a page that had been *)
(* disposed of promised more.                                              *)
Leave(p) ==
    /\ p \in Leavers /\ phase[p] # "off" /\ Spend("leaves")
    /\ phase' = Put(phase, p, "off")
    /\ doc' = Put(doc, p, {}) /\ agent' = Put(agent, p, {})
    /\ linked' = Put(linked, p, FALSE)
    /\ mark' = Put(mark, p, {}) /\ since' = Put(since, p, 0)
    /\ sock' = Put(sock, p, "none") /\ timer' = Put(timer, p, FALSE)
    /\ ever' = Put(ever, p, FALSE) /\ quitting' = Put(quitting, p, FALSE)
    /\ up' = Put(up, p, <<>>) /\ down' = Put(down, p, <<>>)
    /\ puts' = Put(puts, p, <<>>) /\ writes' = Put(writes, p, <<>>)
    /\ heard' = Put(heard, p, {})
    /\ IF p \in Durable
       THEN /\ given' = Put(given, p, IF phase[p] = "disposed" THEN given[p]
                                      ELSE given[p] \cap Stored(p))
            /\ UNCHANGED <<snap, log, settled>>
       ELSE /\ given' = Put(given, p, {}) /\ settled' = Put(settled, p, {})
            /\ snap' = Put(snap, p, {}) /\ log' = Put(log, p, {})
    /\ UNCHANGED <<edits, server>>

-----------------------------------------------------------------------------
Next ==
    \/ \E p \in Pages :
        \/ Open(p) \/ LoadOps(p) \/ Edit(p) \/ AgentEdit(p) \/ Link(p)
        \/ Unlink(p) \/ Flush(p) \/ PutSnapshot(p) \/ WriteOps(p)
        \/ FailWrite(p) \/ AbortWrite(p) \/ Connect(p) \/ DialFails(p) \/ DropSocket(p)
        \/ Redial(p) \/ Hangup(p) \/ Receive(p) \/ ReceiveFrame(p)
        \/ Dispose(p) \/ Disconnect(p) \/ Leave(p)
    \/ Keep \/ Restart

(* Promises settle, requests to IndexedDB complete, a scheduled timer      *)
(* fires, the network answers and carries frames.                          *)
Fairness ==
    \A p \in Pages :
        /\ WF_vars(LoadOps(p)) /\ WF_vars(PutSnapshot(p))
        /\ WF_vars(WriteOps(p)) /\ WF_vars(Connect(p)) /\ WF_vars(Redial(p))
        /\ WF_vars(Hangup(p)) /\ WF_vars(Receive(p)) /\ WF_vars(ReceiveFrame(p))
        /\ WF_vars(Disconnect(p))

Spec == Init /\ [][Next]_vars /\ Fairness

-----------------------------------------------------------------------------
(* Properties.                                                             *)

(* The room never waits for a dependency: "without this, later deltas      *)
(* reference ops the canonical doc never saw and remote peers stall on     *)
(* missing causal deps" (index.ts:296).  A page that is connected waits    *)
(* for no edit but its own of an earlier visit, since its store keeps      *)
(* those and not what they were made on.                                   *)
NobodyStalls ==
    /\ Visible(edits, room) = room
    /\ \A p \in Pages : phase[p] = "live" =>
        \A o \in doc[p] \ Visible(edits, doc[p]) : edits[o].peer[1] = p

(* What the wire brought is not sent back as a page's own (index.ts:146,   *)
(* 175-183): a delta never carries an edit the page heard of.              *)
EchoFree ==
    [][\A p \in Pages :
        Len(up'[p]) = Len(up[p]) + 1 /\ sock[p] = "open" =>
            Last(up'[p]) \cap heard'[p] = {}]_vars

(* A store keeps what it took.  What it has committed stays in it, whoever *)
(* crashes when, unless a flush was under way, could not show it, or was   *)
(* aborted after its put was taken for done; what a page gave it is there  *)
(* or on its way, also when the page is disposed of (opfs-store.ts:172,    *)
(* index.ts:350).                                                          *)
StoresKeep ==
    \A p \in Pages :
        /\ settled[p] \subseteq Stored(p)
        /\ given[p] \subseteq Stored(p) \cup Queued(p)

(* A page that stays connected comes to show what the room holds, and so   *)
(* what every other page shows, however often sockets drop and the server  *)
(* restarts.                                                               *)
Agreed ==
    \A p \in Wired : phase[p] = "live" =>
        Visible(edits, doc[p]) = Visible(edits, room)
Converges == <>[]Agreed
=============================================================================
