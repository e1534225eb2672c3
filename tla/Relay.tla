------------------------------- MODULE Relay -------------------------------
(***************************************************************************)
(* The sync relay, crates/sync/src/sync/server.rs.                         *)
(*                                                                         *)
(* Every connection has a handler task that reads one frame at a time, and *)
(* every subscription a forwarder task that copies the room's broadcast    *)
(* channel to the socket.  Tasks interleave at every await and every file  *)
(* access, with each other and with the `ctl revoke` process that rewrites *)
(* the revocation lists the relay reads.                                   *)
(*                                                                         *)
(* A CRDT payload is opaque to the relay: it is the number of the frame    *)
(* that carried it.  A principal has one token, and the identifier list    *)
(* names the principals whose tokens it voids (ControlPlane models the     *)
(* identifiers).  A client subscribes to a document once per connection,   *)
(* as the browser transport and the headless client do.                    *)
(***************************************************************************)
EXTENDS Naturals, Sequences, FiniteSets, SequencesExt

CONSTANTS
    Conns,       \* connections
    Principals,
    Who,         \* the principal each connection names in HELLO
    HasToken,    \* principals whose stored token verifies
    Docs,        \* safe document ids
    UnsafeDoc,   \* a document id is_safe_doc_id rejects
    Rights,      \* documents the verified token of a principal covers
    Setups,      \* bound: who connects, is revoked and closes its socket
    Capacity,    \* bound: messages the broadcast channel keeps (256)
    MaxFrames,   \* bound: data frames clients send in all
    NoRx         \* no receiver

Durable == {"UPDATE", "SNAPSHOT"}
Ephemeral == {"NOTIFY"}   \* AWARENESS takes the same path
Kinds == {"SUBSCRIBE"} \cup Durable \cup Ephemeral
Msg == [kind: Kinds \cup {"none"}, doc: Docs \cup {UnsafeDoc},
        n: 0..MaxFrames, from: Conns \cup {"none"}]

ASSUME RelayAssumption ==
    /\ Who \in [Conns -> Principals]
    /\ Setups \subseteq [conns: SUBSET Conns, leavers: SUBSET Conns,
                        revocable: SUBSET Principals]
    /\ HasToken \subseteq Principals
    /\ UnsafeDoc \notin Docs
    /\ Rights \in [Principals -> SUBSET Docs]
    /\ Capacity \in Nat \ {0} /\ MaxFrames \in Nat
    /\ NoRx \notin Seq(Msg)

VARIABLES
    setup,       \* the deployment, which never changes
    names, ids,  \* the revocation lists as a reader sees them
    ctl,         \* the revoke process: its next step, its principal, its list
    pc,          \* where each handler is
    msg,         \* the frame it is handling
    snap,        \* the snapshot it has loaded
    rx,          \* receiver of each connection for each room (NoRx: none)
    fwd,         \* rooms whose forwarder runs for the connection
    store,       \* docs/<doc>.loro: 0 when absent or truncated
    open,        \* the connection's socket is open
    out,         \* frames written to each socket, oldest first
    frames,      \* data frames received so far
    log,         \* history: the messages broadcast in each room
    joined,      \* history: how long the log was when a receiver was made
    late,        \* history: writes since the sender's revocation took effect
    others       \* history: revocations begun since then

lists == <<setup, names, ids, ctl>>
hist == <<log, joined, late, others>>
vars == <<lists, pc, msg, snap, rx, fwd, store, open, out, frames, hist>>

NoMsg == [kind |-> "none", doc |-> UnsafeDoc, n |-> 0, from |-> "none"]
NoList == [step |-> "idle", who |-> "none", list |-> {}]

(* A frame of the relay: `n` numbers the payload, `doc` is its room. *)
Frame(kind, doc, n) == [kind |-> kind, doc |-> doc, n |-> n]
Error(code) == [kind |-> "ERROR", doc |-> UnsafeDoc, n |-> 0, code |-> code]

Init ==
    /\ setup \in Setups
    /\ names = {} /\ ids = {} /\ ctl = NoList
    /\ pc = [c \in Conns |-> "new"]
    /\ msg = [c \in Conns |-> NoMsg]
    /\ snap = [c \in Conns |-> 0]
    /\ rx = [c \in Conns |-> [d \in Docs |-> NoRx]]
    /\ fwd = [c \in Conns |-> {}]
    /\ store = [d \in Docs |-> 0]
    /\ open = [c \in Conns |-> TRUE]
    /\ out = [c \in Conns |-> << >>]
    /\ frames = 0
    /\ log = [d \in Docs |-> << >>]
    /\ joined = [c \in Conns |-> [d \in Docs |-> 0]]
    /\ late = [c \in Conns |-> 0] /\ others = [c \in Conns |-> 0]

Goto(c, label) == pc' = [pc EXCEPT ![c] = label]
Resume(c) == Goto(c, "loop") /\ msg' = [msg EXCEPT ![c] = NoMsg]
Send(c, fs) == out' = [out EXCEPT ![c] = @ \o fs]

(* The lists say that the connection's principal is revoked. *)
Revoked(c) == Who[c] \in names \/ Who[c] \in ids

(* The handler returns.  Its halves of the socket are dropped, but a       *)
(* forwarder keeps the write half, and with it the socket, alive.          *)
Return(c) ==
    /\ Goto(c, "done")
    /\ msg' = [msg EXCEPT ![c] = NoMsg]
    /\ open' = [open EXCEPT ![c] = @ /\ fwd[c] # {}]

-----------------------------------------------------------------------------
(* `ctl revoke`, as ControlPlane has it: two lists, each truncated and then *)
(* written.                                                                 *)
Revoke ==
    \/ \E p \in Principals \cap setup.revocable :
         /\ ctl.step = "idle" /\ p \notin names
         /\ ctl' = [step |-> "writeNames", who |-> p, list |-> names \cup {p}]
         /\ names' = {} /\ UNCHANGED ids
    \/ /\ ctl.step = "writeNames" /\ names' = ctl.list
       /\ ctl' = [ctl EXCEPT !.step = "truncIds"] /\ UNCHANGED ids
    \/ /\ ctl.step = "truncIds" /\ ids' = {}
       /\ ctl' = [ctl EXCEPT !.step = "writeIds", !.list = ids \cup {ctl.who}]
       /\ UNCHANGED names
    \/ /\ ctl.step = "writeIds" /\ ids' = ctl.list
       /\ ctl' = NoList /\ UNCHANGED names

RevokeStep ==
    /\ Revoke
    /\ others' = [c \in Conns |-> IF ctl.step = "idle" /\ Revoked(c)
                                  THEN others[c] + 1 ELSE others[c]]
    /\ UNCHANGED <<setup, pc, msg, snap, rx, fwd, store, open, out, frames,
                   log, joined, late>>

-----------------------------------------------------------------------------
(* HELLO: the name list is read, then the token (which no step of this     *)
(* module changes), then the identifier list.                              *)

Hello(c) ==
    /\ pc[c] = "new" /\ open[c] /\ c \in setup.conns
    /\ Goto(c, "helloNames")
    /\ UNCHANGED <<lists, msg, snap, rx, fwd, store, open, out, frames, hist>>

Refuse(c, code) == Send(c, <<Error(code)>>) /\ Return(c)

CheckHello(c) ==
    /\ \/ pc[c] = "helloNames" /\ Who[c] \in names /\ Refuse(c, "revoked")
       \/ /\ pc[c] = "helloNames" /\ Who[c] \notin names
          /\ Goto(c, "helloIds") /\ UNCHANGED <<out, open, msg>>
       \/ /\ pc[c] = "helloIds" /\ Who[c] \notin HasToken
          /\ Refuse(c, "no_capability")
       \/ /\ pc[c] = "helloIds" /\ Who[c] \in HasToken \cap ids
          /\ Refuse(c, "revoked")
       \/ /\ pc[c] = "helloIds" /\ Who[c] \in HasToken \ ids
          /\ Goto(c, "loop") /\ UNCHANGED <<out, open, msg>>
    /\ UNCHANGED <<lists, snap, rx, fwd, store, frames, hist>>

-----------------------------------------------------------------------------
(* The message loop.                                                       *)

(* The next frame the client sent.  A frame is refused in the same way     *)
(* whatever its kind, so the unsafe document is named by one kind only.    *)
Receive(c) ==
    /\ pc[c] = "loop" /\ open[c] /\ frames < MaxFrames
    /\ \E k \in Kinds, d \in Docs \cup {UnsafeDoc} :
        /\ k = "SUBSCRIBE" => d \in Docs /\ rx[c][d] = NoRx
        /\ d = UnsafeDoc => k = "UPDATE"
        /\ msg' = [msg EXCEPT ![c] = [kind |-> k, doc |-> d, n |-> frames + 1,
                                      from |-> c]]
    /\ frames' = frames + 1
    /\ Goto(c, "check")
    /\ UNCHANGED <<lists, snap, rx, fwd, store, open, out, hist>>

(* The client closed the socket: next_message returns None. *)
EndOfStream(c) ==
    /\ pc[c] = "loop" /\ ~open[c]
    /\ Return(c)
    /\ UNCHANGED <<lists, snap, rx, fwd, store, out, frames, hist>>

(* doc_authorized: reading and writing a document are one right. *)
Authorized(c, d) == d \in Docs /\ d \in Rights[Who[c]]

Route(kind) ==
    CASE kind = "SUBSCRIBE" -> "subscribe"
      [] kind = "SNAPSHOT" -> "truncate"
      [] OTHER -> "broadcast"

(* Mutant: revocation is checked at HELLO only. *)
CheckRights(c) ==
    /\ pc[c] = "check"
    /\ \/ /\ ~Authorized(c, msg[c].doc)
          /\ Send(c, <<Error("forbidden")>>) /\ Resume(c)
       \/ /\ Authorized(c, msg[c].doc)
          /\ Goto(c, Route(msg[c].kind)) /\ UNCHANGED <<out, msg>>
    /\ UNCHANGED <<lists, snap, rx, fwd, store, open, frames, hist>>

(* The lists are read anew for every frame, the names and then the         *)
(* identifiers; then come the token's rights, which are those of HELLO.    *)
Check(c) ==
    /\ \/ pc[c] = "check" /\ Who[c] \in names /\ Refuse(c, "revoked")
       \/ /\ pc[c] = "check" /\ Who[c] \notin names
          /\ Goto(c, "checkIds") /\ UNCHANGED <<out, open, msg>>
       \/ pc[c] = "checkIds" /\ Who[c] \in ids /\ Refuse(c, "revoked")
       \/ /\ pc[c] = "checkIds" /\ Who[c] \notin ids
          /\ ~Authorized(c, msg[c].doc)
          /\ Send(c, <<Error("forbidden")>>)
          /\ Resume(c) /\ UNCHANGED open
       \/ /\ pc[c] = "checkIds" /\ Who[c] \notin ids
          /\ Authorized(c, msg[c].doc)
          /\ Goto(c, Route(msg[c].kind))
          /\ UNCHANGED <<out, open, msg>>
    /\ UNCHANGED <<lists, snap, rx, fwd, store, frames, hist>>

(* SUBSCRIBE, first the receiver ... *)
SubscribeRoom(c) ==
    /\ pc[c] = "subscribe"
    /\ rx' = [rx EXCEPT ![c][msg[c].doc] = << >>]
    /\ joined' = [joined EXCEPT ![c][msg[c].doc] = Len(log[msg[c].doc])]
    /\ Goto(c, "load")
    /\ UNCHANGED <<lists, msg, snap, fwd, store, open, out, frames, log, late,
                   others>>

(* ... then the stored snapshot ... *)
LoadSnapshot(c) ==
    /\ pc[c] = "load"
    /\ snap' = [snap EXCEPT ![c] = store[msg[c].doc]]
    /\ Goto(c, "sendSnapshot")
    /\ UNCHANGED <<lists, msg, rx, fwd, store, open, out, frames, hist>>

(* ... and, once it is sent, the forwarder.  Sending to a closed socket is *)
(* an error, which ends the handler and drops the receiver.                *)
SendSnapshot(c) ==
    /\ pc[c] = "sendSnapshot"
    /\ LET d == msg[c].doc IN
        \/ /\ open[c]
           /\ Send(c, <<Frame("HELLO_OK", d, 0), Frame("SNAPSHOT", d, snap[c])>>)
           /\ fwd' = [fwd EXCEPT ![c] = @ \cup {d}]
           /\ Resume(c) /\ UNCHANGED <<open, rx>>
        \/ /\ ~open[c]
           /\ rx' = [rx EXCEPT ![c][d] = NoRx]
           /\ Return(c) /\ UNCHANGED <<out, fwd>>
    /\ snap' = [snap EXCEPT ![c] = 0]
    /\ UNCHANGED <<lists, store, frames, hist>>

(* The channel keeps the newest messages: a full receiver loses its oldest. *)
Push(q, m) ==
    IF q = NoRx THEN NoRx
    ELSE IF Len(q) < Capacity THEN Append(q, m) ELSE Append(Tail(q), m)

(* UPDATE and NOTIFY go to every receiver of the room; an UPDATE is        *)
(* then persisted.                                                         *)
Broadcast(c) ==
    /\ pc[c] = "broadcast"
    /\ LET m == msg[c] IN
        /\ rx' = [k \in Conns |-> [rx[k] EXCEPT ![m.doc] = Push(@, m)]]
        /\ log' = [log EXCEPT ![m.doc] = Append(@, m)]
        /\ \/ m.kind = "UPDATE" /\ Goto(c, "truncate") /\ UNCHANGED msg
           \/ m.kind # "UPDATE" /\ Resume(c)
    /\ UNCHANGED <<lists, snap, fwd, store, open, out, frames, joined, late,
                   others>>

(* save_snapshot: fs::write truncates, then writes. *)
Truncate(c) ==
    /\ pc[c] = "truncate"
    /\ store' = [store EXCEPT ![msg[c].doc] = 0]
    /\ Goto(c, "save")
    /\ UNCHANGED <<lists, msg, snap, rx, fwd, open, out, frames, hist>>

Save(c) ==
    /\ pc[c] = "save"
    /\ store' = [store EXCEPT ![msg[c].doc] = msg[c].n]
    /\ late' = [late EXCEPT ![c] = IF Revoked(c) THEN @ + 1 ELSE 0]
    /\ Resume(c)
    /\ UNCHANGED <<lists, snap, rx, fwd, open, out, frames, log, joined, others>>

-----------------------------------------------------------------------------
(* Mutants: the forwarder echoes, or waits at its own connection's message. *)
ForwardEcho(c, d) ==
    /\ d \in fwd[c] /\ rx[c][d] # << >> /\ open[c]
    /\ LET m == Head(rx[c][d]) IN
        /\ rx' = [rx EXCEPT ![c][d] = Tail(@)]
        /\ out' = [out EXCEPT ![c] = Append(@, Frame(m.kind, d, m.n))]
    /\ UNCHANGED <<lists, pc, msg, fwd, snap, store, open, frames, hist>>
ForwardOthers(c, d) ==
    /\ rx[c][d] # NoRx /\ rx[c][d] # << >> /\ Head(rx[c][d]).from # c
    /\ ForwardEcho(c, d)

(* The forwarder skips its own connection's messages; what the channel     *)
(* dropped it never sees (Lagged).  It ends when a send fails.             *)
Forward(c, d) ==
    /\ d \in fwd[c] /\ rx[c][d] # << >>
    /\ LET m == Head(rx[c][d]) IN
        \/ /\ m.from = c \/ open[c]
           /\ rx' = [rx EXCEPT ![c][d] = Tail(@)]
           /\ out' = IF m.from = c THEN out
                     ELSE [out EXCEPT ![c] = Append(@, Frame(m.kind, d, m.n))]
           /\ UNCHANGED fwd
        \/ /\ m.from # c /\ ~open[c]
           /\ fwd' = [fwd EXCEPT ![c] = @ \ {d}]
           /\ rx' = [rx EXCEPT ![c][d] = NoRx]
           /\ UNCHANGED out
    /\ UNCHANGED <<lists, pc, msg, snap, store, open, frames, hist>>

(* The client goes away. *)
ClientClose(c) ==
    /\ c \in setup.leavers /\ open[c] /\ pc[c] # "new"
    /\ open' = [open EXCEPT ![c] = FALSE]
    /\ UNCHANGED <<lists, pc, msg, snap, rx, fwd, store, out, frames, hist>>

-----------------------------------------------------------------------------
Handle(c) ==
    \/ CheckHello(c) \/ EndOfStream(c) \/ Check(c)
    \/ SubscribeRoom(c) \/ LoadSnapshot(c) \/ SendSnapshot(c)
    \/ Broadcast(c) \/ Truncate(c) \/ Save(c)

Next ==
    \/ RevokeStep
    \/ \E c \in Conns :
        \/ Hello(c) \/ Receive(c) \/ ClientClose(c) \/ Handle(c)
        \/ \E d \in Docs : Forward(c, d)

(* Tasks are scheduled (tokio); clients and operators act when they like.  *)
Fairness ==
    \A c \in Conns :
        WF_vars(Handle(c)) /\ \A d \in Docs : WF_vars(Forward(c, d))

Spec == Init /\ [][Next]_vars /\ Fairness

-----------------------------------------------------------------------------
(* The shape of the relay's state. *)
TypeOK ==
    /\ names \subseteq Principals /\ ids \subseteq Principals
    /\ pc \in [Conns -> {"new", "helloNames", "helloIds", "loop",
                         "check", "checkIds", "subscribe", "load", "sendSnapshot",
                         "broadcast", "truncate", "save", "done"}]
    /\ msg \in [Conns -> Msg]
    /\ snap \in [Conns -> 0..MaxFrames] /\ store \in [Docs -> 0..MaxFrames]
    /\ \A c \in Conns, d \in Docs :
         rx[c][d] # NoRx => /\ rx[c][d] \in Seq(Msg)
                            /\ Len(rx[c][d]) <= Capacity
    /\ fwd \in [Conns -> SUBSET Docs] /\ open \in [Conns -> BOOLEAN]
    /\ late \in [Conns -> Nat] /\ others \in [Conns -> Nat] /\ frames \in 0..MaxFrames

(* Frames of a room that a connection was sent, by position. *)
RoomFrames(c, d) ==
    {i \in DOMAIN out[c] : out[c][i].doc = d /\ out[c][i].kind # "HELLO_OK"}

(* Where in the room's broadcasts a frame number stands. *)
Position(d, n) == {k \in DOMAIN log[d] : log[d][k].n = n}

(* What a client of a room sees: first the snapshot, then live frames in   *)
(* the order they were broadcast, each once, none of its own and none      *)
(* broadcast before it subscribed.                                         *)
FramesInOrder ==
    \A c \in Conns, d \in Docs : \A i, j \in RoomFrames(c, d) :
        /\ i < j => out[c][j].kind # "SNAPSHOT"
        /\ out[c][i].kind # "SNAPSHOT" =>
             /\ \E k \in RoomFrames(c, d) : out[c][k].kind = "SNAPSHOT"
             /\ \E k \in Position(d, out[c][i].n) :
                  /\ k > joined[c][d] /\ log[d][k].from # c
                  /\ i < j => \A l \in Position(d, out[c][j].n) : k < l

Newest(d) == log[d][Len(log[d])]

(* Revocation is checked per frame (spec 01): once it is in force, a       *)
(* session can still persist the one frame it had checked before, and one  *)
(* more for each later revocation, which empties either list in turn while *)
(* a check reads the two.                                                  *)
RevocationBoundsWrites == \A c \in Conns : late[c] <= 1 + others[c]

(* A session refused at HELLO, or whose token does not cover a document,   *)
(* is sent nothing of it and has no receiver in its room.                  *)
OnlyAuthorizedRooms ==
    \A c \in Conns, d \in Docs :
        (rx[c][d] # NoRx \/ RoomFrames(c, d) # {}) =>
            Who[c] \in HasToken /\ d \in Rights[Who[c]]

(* What waits for a subscriber reaches it, or its socket is closed. *)
RoomsDrain ==
    \A c \in Conns, d \in Docs :
        (d \in fwd[c] /\ rx[c][d] # << >>) ~> (rx[c][d] \in {<< >>, NoRx})

(* server.rs: subscribing to the room before the snapshot is loaded means  *)
(* no lost update.  The newest update of a room is known to every client   *)
(* whose subscription is complete, from its snapshot, a frame or a frame   *)
(* waiting for it, once the handler that accepted the update is done.      *)
NoLostUpdate ==
    \A c \in Conns, d \in Docs :
        (/\ d \in fwd[c] /\ log[d] # << >>
         /\ Newest(d).kind = "UPDATE" /\ Newest(d).from # c
         /\ \A k \in Conns : pc[k] = "loop")
          => \/ Newest(d) \in ToSet(rx[c][d])
             \/ \E i \in RoomFrames(c, d) : out[c][i].n >= Newest(d).n

(* specs/01-room-sync.md: a principal revoked mid-session is dropped.      *)
(* After the relay told a session it is revoked, it sends it nothing.      *)
RevokedSessionIsDropped ==
    \A c \in Conns : \A i \in DOMAIN out[c] :
        out[c][i].kind = "ERROR" /\ out[c][i].code = "revoked" =>
            i = Len(out[c])
=============================================================================
