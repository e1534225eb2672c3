---------------------------- MODULE RelayProofs ----------------------------
(***************************************************************************)
(* Safety of the relay, for any number of connections, rooms and frames:   *)
(* what a session is sent of a room, and how long it may write after its   *)
(* principal was revoked.                                                  *)
(*                                                                         *)
(* The properties are about what was sent, and two facts nobody sends make *)
(* them hold: a receiver is always the end of its room's log that follows  *)
(* its making, and one of the two revocation lists always has whoever was  *)
(* revoked.                                                                *)
(***************************************************************************)
EXTENDS Relay, TLAPS

Handling == {"subscribe", "load", "sendSnapshot", "broadcast", "truncate", "save"}
Replies == [kind : {"HELLO_OK", "SNAPSHOT", "UPDATE", "NOTIFY"}, doc : Docs,
            n : 0..MaxFrames]
Errors == [kind : {"ERROR"}, doc : {UnsafeDoc}, n : {0},
           code : {"revoked", "no_capability", "forbidden"}]

(* The shape of the state, with that of the history. *)
Shapes ==
  /\ TypeOK
  /\ ctl \in [step : {"idle", "writeNames", "truncIds", "writeIds"},
              who : Principals \cup {"none"}, list : SUBSET Principals]
  /\ rx \in [Conns -> [Docs -> Seq(Msg) \cup {NoRx}]]
  /\ out \in [Conns -> Seq(Replies \cup Errors)]
  /\ log \in [Docs -> Seq(Msg)]
  /\ joined \in [Conns -> [Docs -> Nat]]

(* Whoever is revoked is on one of the lists while the other is rewritten. *)
Lists ==
  /\ ctl.step = "idle" => names = ids
  /\ ctl.step # "idle" => ctl.who \in Principals
  /\ ctl.step = "writeNames" => names = {} /\ ctl.list = ids \cup {ctl.who}
  /\ ctl.step = "truncIds" => names = ids \cup {ctl.who}
  /\ ctl.step = "writeIds" => ids = {} /\ ctl.list = names

(* A session passes a check after its revocation only if a later one       *)
(* emptied the names when it read them (Window), and the identifiers after *)
(* that; so between two such checks another revocation began.              *)
Window(c) == ctl.step = "writeNames" /\ Revoked(c)
LastWrite ==
  \A c \in Conns :
    /\ late[c] > 0 => Revoked(c)
    /\ late[c] <= others[c] + 1
    /\ Window(c) \/ pc[c] \in Handling \cup {"checkIds"} => late[c] <= others[c]
    /\ Window(c) /\ pc[c] \in Handling => late[c] + 1 <= others[c]

(* What a handler has checked of the frame in its hands. *)
Session(c) ==
  /\ pc[c] \notin {"new", "helloNames", "helloIds", "done"} => Who[c] \in HasToken
  /\ pc[c] \in Handling => msg[c].doc \in Docs /\ msg[c].doc \in Rights[Who[c]]
  /\ pc[c] \in Handling \cup {"check", "checkIds"} => msg[c].kind \in Kinds
  /\ pc[c] \in {"subscribe", "load", "sendSnapshot"} => msg[c].kind = "SUBSCRIBE"
  /\ pc[c] = "broadcast" => msg[c].kind \in {"UPDATE", "NOTIFY"}

(* A room is subscribed to once: nothing of it was sent before. *)
Joining(c) ==
  /\ pc[c] \in Handling \cup {"check", "checkIds"} /\ msg[c].kind = "SUBSCRIBE" =>
       /\ msg[c].doc \in Docs
       /\ msg[c].doc \notin fwd[c] /\ RoomFrames(c, msg[c].doc) = {}
  /\ pc[c] \in {"load", "sendSnapshot"} => rx[c][msg[c].doc] # NoRx

(* A frame is broadcast once, under a number of its own. *)
Numbered ==
  /\ \A d \in Docs : \A k \in DOMAIN log[d] :
       /\ log[d][k].kind \in {"UPDATE", "NOTIFY"}
       /\ log[d][k].n \in 1..frames
       /\ \A l \in DOMAIN log[d] : log[d][l].n = log[d][k].n => l = k
  /\ \A c \in Conns : pc[c] \in {"check", "checkIds", "broadcast"} =>
       /\ msg[c].n \in 1..frames
       /\ \A d \in Docs : \A k \in DOMAIN log[d] : log[d][k].n # msg[c].n
       /\ \A b \in Conns : pc[b] \in {"check", "checkIds", "broadcast"} /\ msg[b].n = msg[c].n => b = c

(* A receiver holds the end of the room's log, from after its making. *)
Taken(c, d) == Len(log[d]) - Len(rx[c][d])
Tails(c, d) ==
  /\ joined[c][d] <= Len(log[d])
  /\ rx[c][d] # NoRx =>
       /\ joined[c][d] <= Taken(c, d)
       /\ \A i \in 1..Len(rx[c][d]) : rx[c][d][i] = log[d][Taken(c, d) + i]

(* Who may be in a room, and what being in it takes. *)
Admitted(c, d) ==
  /\ rx[c][d] # NoRx \/ RoomFrames(c, d) # {} =>
       Who[c] \in HasToken /\ d \in Rights[Who[c]]
  /\ d \in fwd[c] => rx[c][d] # NoRx
  /\ RoomFrames(c, d) # {} => d \in fwd[c] \/ ~open[c]

(* What was sent of a room: the snapshot, then frames of its log in order. *)
Delivered(c, d) ==
  /\ \A i, j \in RoomFrames(c, d) : i < j => out[c][j].kind # "SNAPSHOT"
  /\ d \in fwd[c] \/ RoomFrames(c, d) # {} =>
       \E i \in RoomFrames(c, d) : out[c][i].kind = "SNAPSHOT"
  /\ \A i \in RoomFrames(c, d) : out[c][i].kind # "SNAPSHOT" =>
       \E k \in Position(d, out[c][i].n) :
         /\ joined[c][d] < k /\ log[d][k].from # c
         /\ rx[c][d] # NoRx => k <= Taken(c, d)
  /\ \A i, j \in RoomFrames(c, d) :
       i < j /\ out[c][i].kind # "SNAPSHOT" =>
         \A k \in Position(d, out[c][i].n), l \in Position(d, out[c][j].n) : k < l

(* The inductive invariant. *)
IInv ==
  /\ Shapes /\ Lists /\ LastWrite /\ Numbered
  /\ \A c \in Conns : Session(c) /\ Joining(c)
  /\ \A c \in Conns, d \in Docs : Tails(c, d) /\ Admitted(c, d) /\ Delivered(c, d)

---------------------------------------------------------------------------
(* Sequences. *)

(* Appending keeps what was there. *)
LEMMA Appended ==
  ASSUME NEW S, NEW s \in Seq(S), NEW e \in S
  PROVE  /\ Append(s, e) \in Seq(S) /\ Len(Append(s, e)) = Len(s) + 1
         /\ \A i \in 1..Len(s) : Append(s, e)[i] = s[i]
         /\ Append(s, e)[Len(s) + 1] = e
         /\ Len(s) \in Nat
  OBVIOUS

(* What is left of a sequence without its head. *)
LEMMA Beheaded ==
  ASSUME NEW S, NEW s \in Seq(S), s # << >>
  PROVE  /\ Head(s) \in S /\ Head(s) = s[1]
         /\ Len(s) \in Nat /\ Len(s) >= 1
         /\ Tail(s) \in Seq(S) /\ Len(Tail(s)) = Len(s) - 1
         /\ \A i \in 1..Len(s) - 1 : Tail(s)[i] = s[i + 1]
  OBVIOUS

(* A receiver that is pushed to holds the newest messages, at most the     *)
(* channel's capacity of them.                                             *)
PushedTo(q, p, m) ==
  /\ p = NoRx <=> q = NoRx
  /\ q # NoRx =>
       /\ Len(q) \in Nat /\ Len(p) \in Nat /\ Len(p) \in {Len(q), Len(q) + 1}
       /\ Len(p) <= Capacity /\ Len(p) >= 1 /\ p[Len(p)] = m
       /\ \A i \in 1..(Len(p) - 1) : p[i] = q[i + 1 + Len(q) - Len(p)]

LEMMA Pushed ==
  ASSUME NEW q \in Seq(Msg) \cup {NoRx}, q # NoRx => Len(q) <= Capacity,
         NEW m \in Msg
  PROVE  Push(q, m) \in Seq(Msg) \cup {NoRx} /\ PushedTo(q, Push(q, m), m)
  <1>. USE RelayAssumption
  <1>1. CASE q = NoRx
    BY <1>1 DEF Push, PushedTo
  <1>2. CASE q # NoRx /\ Len(q) < Capacity
    <2>1. Push(q, m) = Append(q, m) /\ q \in Seq(Msg)
      BY <1>2 DEF Push
    <2>. QED
      BY <2>1, <1>2, Appended DEF PushedTo
  <1>3. CASE q # NoRx /\ ~(Len(q) < Capacity)
    <2>1. Push(q, m) = Append(Tail(q), m) /\ q \in Seq(Msg) /\ Len(q) = Capacity
      BY <1>3 DEF Push
    <2>2. q # << >>
      BY <2>1
    <2>3. /\ Tail(q) \in Seq(Msg) /\ Len(Tail(q)) = Len(q) - 1 /\ Len(q) \in Nat
          /\ \A i \in 1..Len(q) - 1 : Tail(q)[i] = q[i + 1]
      BY <2>1, <2>2, Beheaded
    <2>4. /\ Push(q, m) \in Seq(Msg) /\ Len(Push(q, m)) = Len(q)
          /\ \A i \in 1..Len(q) - 1 : Push(q, m)[i] = Tail(q)[i]
          /\ Push(q, m)[Len(q)] = m
      BY <2>1, <2>3, Appended
    <2>5. Push(q, m) # NoRx /\ Capacity \in Nat /\ Capacity >= 1
      BY <2>4
    <2>6. \A i \in 1..Len(q) - 1 : Push(q, m)[i] = q[i + 1 + Len(q) - Len(q)]
      <3>1. \A i \in 1..Len(q) - 1 : i + 1 + Len(q) - Len(q) = i + 1
        BY <2>3
      <3>. QED
        BY <2>3, <2>4, <3>1
    <2>. QED
      BY <2>1, <2>3, <2>4, <2>5, <2>6, <1>3 DEF PushedTo
  <1>. QED
    BY <1>1, <1>2, <1>3

---------------------------------------------------------------------------
(* The revocation lists. *)

(* Every action but `ctl revoke` leaves the lists alone. *)
LEMMA ListsKept ==
  ASSUME [Next]_vars, ~RevokeStep
  PROVE  UNCHANGED lists
  <1>1. ASSUME NEW c \in Conns, Hello(c) \/ Receive(c) \/ ClientClose(c)
        PROVE  UNCHANGED lists
    BY <1>1 DEF Hello, Receive, ClientClose
  <1>2. ASSUME NEW c \in Conns, CheckHello(c) \/ EndOfStream(c) \/ Check(c)
        PROVE  UNCHANGED lists
    BY <1>2 DEF CheckHello, EndOfStream, Check
  <1>3. ASSUME NEW c \in Conns, SubscribeRoom(c) \/ LoadSnapshot(c) \/ SendSnapshot(c)
        PROVE  UNCHANGED lists
    BY <1>3 DEF SubscribeRoom, LoadSnapshot, SendSnapshot
  <1>4. ASSUME NEW c \in Conns, Broadcast(c) \/ Truncate(c) \/ Save(c)
        PROVE  UNCHANGED lists
    BY <1>4 DEF Broadcast, Truncate, Save
  <1>5. ASSUME NEW c \in Conns, NEW d \in Docs, Forward(c, d)
        PROVE  UNCHANGED lists
    BY <1>5 DEF Forward
  <1>6. CASE UNCHANGED vars
    BY <1>6 DEF vars
  <1>. QED
    BY <1>1, <1>2, <1>3, <1>4, <1>5, <1>6 DEF Next, Handle

(* Each step of `ctl revoke` keeps whoever was on a list on one of them.   *)
LEMMA RevokeKeeps ==
  ASSUME ctl \in [step : {"idle", "writeNames", "truncIds", "writeIds"},
                  who : Principals \cup {"none"}, list : SUBSET Principals],
         Lists, Revoke
  PROVE  Lists' /\ names \cup ids \subseteq names' \cup ids'
  <1>1. ASSUME NEW p \in Principals \cap setup.revocable, ctl.step = "idle",
               ctl' = [step |-> "writeNames", who |-> p, list |-> names \cup {p}],
               names' = {}, ids' = ids
        PROVE  Lists' /\ names \cup ids \subseteq names' \cup ids'
    <2>1. p \in Principals /\ names = ids
      BY <1>1, RelayAssumption DEF Lists
    <2>2. ctl'.step = "writeNames" /\ ctl'.who = p /\ ctl'.list = names \cup {p}
      BY <1>1
    <2>. QED
      BY <1>1, <2>1, <2>2 DEF Lists
  <1>2. ASSUME ctl.step = "writeNames", names' = ctl.list,
               ctl' = [ctl EXCEPT !.step = "truncIds"], ids' = ids
        PROVE  Lists' /\ names \cup ids \subseteq names' \cup ids'
    <2>1. names = {} /\ ctl.list = ids \cup {ctl.who} /\ ctl.who \in Principals
      BY <1>2 DEF Lists
    <2>2. ctl'.step = "truncIds" /\ ctl'.who = ctl.who /\ ctl'.list = ctl.list
      BY <1>2
    <2>. QED
      BY <1>2, <2>1, <2>2 DEF Lists
  <1>3. ASSUME ctl.step = "truncIds", ids' = {}, names' = names,
               ctl' = [ctl EXCEPT !.step = "writeIds", !.list = ids \cup {ctl.who}]
        PROVE  Lists' /\ names \cup ids \subseteq names' \cup ids'
    <2>1. names = ids \cup {ctl.who} /\ ctl.who \in Principals
      BY <1>3 DEF Lists
    <2>2. ctl'.step = "writeIds" /\ ctl'.who = ctl.who /\ ctl'.list = ids \cup {ctl.who}
      BY <1>3
    <2>. QED
      BY <1>3, <2>1, <2>2 DEF Lists
  <1>4. ASSUME ctl.step = "writeIds", ids' = ctl.list, ctl' = NoList, names' = names
        PROVE  Lists' /\ names \cup ids \subseteq names' \cup ids'
    <2>1. ids = {} /\ ctl.list = names
      BY <1>4 DEF Lists
    <2>2. ctl'.step = "idle"
      BY <1>4 DEF NoList
    <2>. QED
      BY <1>4, <2>1, <2>2 DEF Lists
  <1>. QED
    BY <1>1, <1>2, <1>3, <1>4 DEF Revoke

LEMMA ListsStep ==
  ASSUME IInv, [Next]_vars
  PROVE  Lists'
  <1>1. CASE RevokeStep
    BY <1>1, RevokeKeeps DEF IInv, Shapes, RevokeStep
  <1>2. CASE ~RevokeStep
    BY <1>2, ListsKept DEF IInv, Lists, lists
  <1>. QED
    BY <1>1, <1>2

(* Between the two rewrites there is no instant at which a revoked         *)
(* principal is on neither list.                                           *)
LEMMA RevokedStays ==
  ASSUME IInv, [Next]_vars, NEW c \in Conns, Revoked(c)
  PROVE  Revoked(c)'
  <1>1. CASE RevokeStep
    <2>1. names \cup ids \subseteq names' \cup ids'
      BY <1>1, RevokeKeeps DEF IInv, Shapes, RevokeStep
    <2>. QED
      BY <2>1 DEF Revoked
  <1>2. CASE ~RevokeStep
    BY <1>2, ListsKept DEF Revoked, lists
  <1>. QED
    BY <1>1, <1>2

(* What has passed the names was not on them; what has passed the          *)
(* identifiers, not on those.                                              *)
LEMMA Passes ==
  ASSUME Shapes, [Next]_vars, NEW k \in Conns, ~RevokeStep
  PROVE  /\ others' = others
         /\ \/ late' = late
            \/ \E c \in Conns : Save(c)
         /\ pc'[k] = "checkIds" => \/ pc[k] = "checkIds"
                                   \/ pc[k] = "check" /\ Who[k] \notin names
         /\ pc'[k] \in Handling => \/ pc[k] \in Handling
                                   \/ pc[k] = "checkIds" /\ Who[k] \notin ids
  <1>. DEFINE Goal == /\ others' = others /\ late' = late
                      /\ pc'[k] = "checkIds" => \/ pc[k] = "checkIds"
                                                \/ pc[k] = "check" /\ Who[k] \notin names
                      /\ pc'[k] \in Handling => \/ pc[k] \in Handling
                                                \/ pc[k] = "checkIds" /\ Who[k] \notin ids
  <1>0. pc = [b \in Conns |-> pc[b]]
    BY DEF Shapes, TypeOK
  <1>1. CASE UNCHANGED vars
    BY <1>1 DEF vars, hist
  <1>2. ASSUME NEW c \in Conns, Hello(c) \/ Receive(c) \/ ClientClose(c)
        PROVE  Goal
    BY <1>0, <1>2 DEF Hello, Receive, ClientClose, hist, Goto, Handling
  <1>3. ASSUME NEW c \in Conns, CheckHello(c) \/ EndOfStream(c)
        PROVE  Goal
    BY <1>0, <1>3 DEF CheckHello, EndOfStream, hist, Goto, Refuse, Return, Handling
  <1>4. ASSUME NEW c \in Conns, Check(c)
        PROVE  Goal
    <2>1. CASE pc[c] = "check"
      BY <1>0, <1>4, <2>1 DEF Check, hist, Goto, Refuse, Return, Handling
    <2>2. CASE pc[c] = "checkIds" /\ Who[c] \in ids
      BY <1>0, <1>4, <2>2 DEF Check, hist, Goto, Refuse, Return, Handling
    <2>3. CASE pc[c] = "checkIds" /\ Who[c] \notin ids
      <3>1. Route(msg[c].kind) # "checkIds"
        BY DEF Route
      <3>. QED
        BY <1>0, <1>4, <2>3, <3>1 DEF Check, hist, Goto, Resume, Handling
    <2>. QED
      BY <1>4, <2>1, <2>2, <2>3 DEF Check
  <1>5. ASSUME NEW c \in Conns, SubscribeRoom(c) \/ LoadSnapshot(c) \/ SendSnapshot(c)
        PROVE  Goal
    BY <1>0, <1>5 DEF SubscribeRoom, LoadSnapshot, SendSnapshot, hist, Goto, Return, Resume, Handling
  <1>6. ASSUME NEW c \in Conns, Broadcast(c) \/ Truncate(c)
        PROVE  Goal
    BY <1>0, <1>6 DEF Broadcast, Truncate, hist, Goto, Resume, Handling
  <1>7. ASSUME NEW c \in Conns, Save(c)
        PROVE  /\ others' = others
               /\ pc'[k] \in Handling \cup {"checkIds"} => pc'[k] = pc[k]
    BY <1>0, <1>7 DEF Save, Goto, Resume, Handling
  <1>8. ASSUME NEW c \in Conns, NEW d \in Docs, Forward(c, d)
        PROVE  Goal
    BY <1>0, <1>8 DEF Forward, hist
  <1>. QED
    BY <1>0, <1>1, <1>2, <1>3, <1>4, <1>5, <1>6, <1>7, <1>8 DEF Next, Handle

(* A revocation that begins adds one for each session revoked before; and  *)
(* once it has written the names, nobody revoked passes them.              *)
LEMMA LastWriteStep ==
  ASSUME IInv, [Next]_vars
  PROVE  LastWrite'
  <1>. SUFFICES ASSUME NEW k \in Conns
                PROVE  /\ late'[k] > 0 => Revoked(k)'
                       /\ late'[k] <= others'[k] + 1
                       /\ Window(k)' \/ pc'[k] \in Handling \cup {"checkIds"} =>
                            late'[k] <= others'[k]
                       /\ Window(k)' /\ pc'[k] \in Handling => late'[k] + 1 <= others'[k]
    BY DEF LastWrite, Handling
  <1>0. /\ late \in [Conns -> Nat] /\ others \in [Conns -> Nat] /\ Lists /\ Shapes
        /\ late[k] > 0 => Revoked(k)
        /\ late[k] <= others[k] + 1
        /\ Window(k) \/ pc[k] \in Handling \cup {"checkIds"} => late[k] <= others[k]
        /\ Window(k) /\ pc[k] \in Handling => late[k] + 1 <= others[k]
        /\ pc = [b \in Conns |-> pc[b]] /\ late[k] \in Nat /\ others[k] \in Nat
        /\ Revoked(k) => Revoked(k)'
    BY RevokedStays DEF IInv, LastWrite, Shapes, TypeOK
  <1>1. CASE RevokeStep
    <2>1. /\ late' = late /\ pc' = pc
          /\ others'[k] = IF ctl.step = "idle" /\ Revoked(k) THEN others[k] + 1 ELSE others[k]
      BY <1>1 DEF RevokeStep
    <2>2. CASE ctl.step = "idle"
      <3>1. ~Revoked(k) => ~Revoked(k)'
        BY <1>0, <1>1, <2>2 DEF RevokeStep, Revoke, Revoked, Lists
      <3>. QED
        BY <1>0, <2>1, <2>2, <3>1 DEF Window
    <2>3. CASE ctl.step # "idle"
      <3>1. ctl'.step # "writeNames"
        <4>1. CASE ctl' = [ctl EXCEPT !.step = "truncIds"]
          BY <1>0, <4>1 DEF Shapes
        <4>2. CASE ctl' = [ctl EXCEPT !.step = "writeIds", !.list = ids \cup {ctl.who}]
          BY <1>0, <4>2 DEF Shapes
        <4>3. CASE ctl' = NoList
          BY <4>3 DEF NoList
        <4>. QED
          BY <1>1, <2>3, <4>1, <4>2, <4>3 DEF RevokeStep, Revoke
      <3>. QED
        BY <1>0, <2>1, <2>3, <3>1 DEF Window
    <2>. QED
      BY <2>2, <2>3
  <1>2. CASE ~RevokeStep
    <2>1. Revoked(k)' = Revoked(k) /\ Window(k)' = Window(k)
      BY <1>2, ListsKept DEF Revoked, Window, lists
    <2>2. ASSUME pc[k] = "check", Who[k] \notin names
          PROVE  late[k] <= others[k]
      BY <1>0, <2>2 DEF Lists, Revoked, Window, Shapes
    <2>3. ASSUME pc[k] = "checkIds", Who[k] \notin ids
          PROVE  ~Window(k)
      BY <1>0, <2>3 DEF Lists, Revoked, Window
    <2>4. /\ others' = others
          /\ pc'[k] = "checkIds" => \/ pc[k] = "checkIds"
                                    \/ pc[k] = "check" /\ Who[k] \notin names
          /\ pc'[k] \in Handling => \/ pc[k] \in Handling
                                    \/ pc[k] = "checkIds" /\ Who[k] \notin ids
          /\ late' = late \/ \E c \in Conns : Save(c)
      BY <1>0, <1>2, Passes
    <2>5. CASE late'[k] = late[k]
      BY <1>0, <2>1, <2>2, <2>3, <2>4, <2>5
    <2>6. CASE late'[k] # late[k]
      <3>1. PICK c \in Conns : Save(c)
        BY <2>4, <2>6
      <3>2. c = k
        BY <1>0, <2>6, <3>1 DEF Save
      <3>3. /\ late'[k] = IF Revoked(k) THEN late[k] + 1 ELSE 0
            /\ pc[k] \in Handling /\ pc'[k] \notin Handling \cup {"checkIds"}
        BY <1>0, <3>1, <3>2 DEF Save, Goto, Resume, Handling
      <3>. QED
        BY <1>0, <2>1, <2>4, <3>3
    <2>. QED
      BY <2>5, <2>6
  <1>. QED
    BY <1>1, <1>2

---------------------------------------------------------------------------
(* The shape of the state. *)

(* Where a handler is, and the frame in its hands. *)
LEMMA HandlersTyped ==
  ASSUME Shapes, [Next]_vars
  PROVE  /\ pc' \in [Conns -> {"new", "helloNames", "helloIds", "loop",
                               "check", "checkIds", "subscribe", "load", "sendSnapshot",
                               "broadcast", "truncate", "save", "done"}]
         /\ msg' \in [Conns -> Msg] /\ frames' \in 0..MaxFrames
  <1>. DEFINE Labels == {"new", "helloNames", "helloIds", "loop",
                         "check", "checkIds", "subscribe", "load", "sendSnapshot",
                         "broadcast", "truncate", "save", "done"}
              Typed == /\ pc' \in [Conns -> Labels] /\ msg' \in [Conns -> Msg]
                       /\ frames' \in 0..MaxFrames
  <1>0. /\ pc \in [Conns -> Labels] /\ msg \in [Conns -> Msg] /\ frames \in 0..MaxFrames
        /\ NoMsg \in Msg
    BY RelayAssumption DEF Shapes, TypeOK, NoMsg, Msg
  <1>. HIDE DEF Labels
  <1>l. /\ {"loop", "helloNames", "helloIds", "check", "checkIds", "done", "subscribe"} \subseteq Labels
        /\ {"load", "sendSnapshot", "broadcast", "truncate", "save"} \subseteq Labels
    BY DEF Labels
  <1>1. ASSUME RevokeStep \/ UNCHANGED vars
        PROVE  Typed
    BY <1>0, <1>1 DEF RevokeStep, vars
  <1>2. ASSUME NEW c \in Conns, Hello(c) \/ ClientClose(c)
        PROVE  Typed
    BY <1>0, <1>l, <1>2 DEF Hello, ClientClose, Goto
  <1>3. ASSUME NEW c \in Conns, CheckHello(c) \/ EndOfStream(c) \/ Check(c)
        PROVE  Typed
    BY <1>0, <1>l, <1>3 DEF CheckHello, EndOfStream, Check, Goto, Refuse, Return, Resume, Route
  <1>4. ASSUME NEW c \in Conns, Receive(c)
        PROVE  Typed
    <2>1. PICK k \in Kinds, d \in Docs \cup {UnsafeDoc} :
            msg' = [msg EXCEPT ![c] = [kind |-> k, doc |-> d, n |-> frames + 1, from |-> c]]
      BY <1>4 DEF Receive
    <2>2. frames + 1 \in 0..MaxFrames /\ frames' = frames + 1
      BY <1>0, <1>4, RelayAssumption DEF Receive
    <2>3. [kind |-> k, doc |-> d, n |-> frames + 1, from |-> c] \in Msg
      BY <2>2 DEF Msg
    <2>. QED
      BY <1>0, <1>l, <1>4, <2>1, <2>2, <2>3 DEF Receive, Goto
  <1>5. ASSUME NEW c \in Conns, SubscribeRoom(c) \/ LoadSnapshot(c) \/ SendSnapshot(c)
        PROVE  Typed
    BY <1>0, <1>l, <1>5 DEF SubscribeRoom, LoadSnapshot, SendSnapshot, Goto, Return, Resume
  <1>6. ASSUME NEW c \in Conns, Broadcast(c) \/ Truncate(c) \/ Save(c)
        PROVE  Typed
    BY <1>0, <1>l, <1>6 DEF Broadcast, Truncate, Save, Goto, Resume
  <1>7. ASSUME NEW c \in Conns, NEW d \in Docs, Forward(c, d)
        PROVE  Typed
    BY <1>0, <1>7 DEF Forward
  <1>8. Typed
    BY <1>1, <1>2, <1>3, <1>4, <1>5, <1>6, <1>7 DEF Next, Handle
  <1>. QED
    BY <1>8 DEF Labels

(* Snapshots, forwarders, sockets and the count of late writes. *)
LEMMA RestTyped ==
  ASSUME IInv, [Next]_vars
  PROVE  /\ snap' \in [Conns -> 0..MaxFrames] /\ store' \in [Docs -> 0..MaxFrames]
         /\ fwd' \in [Conns -> SUBSET Docs] /\ open' \in [Conns -> BOOLEAN]
         /\ late' \in [Conns -> Nat] /\ others' \in [Conns -> Nat]
  <1>. DEFINE Typed ==
         /\ snap' \in [Conns -> 0..MaxFrames] /\ store' \in [Docs -> 0..MaxFrames]
         /\ fwd' \in [Conns -> SUBSET Docs] /\ open' \in [Conns -> BOOLEAN]
         /\ late' \in [Conns -> Nat] /\ others' \in [Conns -> Nat]
  <1>0. /\ snap \in [Conns -> 0..MaxFrames] /\ store \in [Docs -> 0..MaxFrames]
        /\ fwd \in [Conns -> SUBSET Docs] /\ open \in [Conns -> BOOLEAN]
        /\ late \in [Conns -> Nat] /\ others \in [Conns -> Nat] /\ MaxFrames \in Nat
        /\ \A c \in Conns : msg[c].n \in 0..MaxFrames
        /\ \A c \in Conns : pc[c] \in Handling => msg[c].doc \in Docs
    BY RelayAssumption DEF IInv, Session, Shapes, TypeOK, Msg
  <1>1. CASE RevokeStep \/ UNCHANGED vars
    BY <1>0, <1>1 DEF RevokeStep, vars, hist
  <1>2. ASSUME NEW c \in Conns, Hello(c) \/ Receive(c) \/ ClientClose(c)
        PROVE  Typed
    BY <1>0, <1>2 DEF Hello, Receive, ClientClose, hist
  <1>3. ASSUME NEW c \in Conns, CheckHello(c) \/ EndOfStream(c) \/ Check(c)
        PROVE  Typed
    BY <1>0, <1>3 DEF CheckHello, EndOfStream, Check, Refuse, Return, hist
  <1>4. ASSUME NEW c \in Conns, SubscribeRoom(c)
        PROVE  Typed
    BY <1>0, <1>4 DEF SubscribeRoom
  <1>5. ASSUME NEW c \in Conns, LoadSnapshot(c)
        PROVE  Typed
    BY <1>0, <1>5 DEF LoadSnapshot, hist, Handling
  <1>6. ASSUME NEW c \in Conns, SendSnapshot(c)
        PROVE  Typed
    BY <1>0, <1>6 DEF SendSnapshot, Return, hist, Handling
  <1>7. ASSUME NEW c \in Conns, Broadcast(c) \/ Truncate(c) \/ Save(c)
        PROVE  Typed
    <2>1. CASE Broadcast(c)
      BY <1>0, <2>1 DEF Broadcast
    <2>2. CASE Truncate(c)
      <3>1. 0 \in 0..MaxFrames
        BY <1>0
      <3>. QED
        BY <1>0, <2>2, <3>1 DEF Truncate, hist
    <2>3. CASE Save(c)
      <3>1. late[c] + 1 \in Nat /\ msg[c].n \in 0..MaxFrames
        BY <1>0
      <3>. QED
        BY <1>0, <2>3, <3>1 DEF Save
    <2>. QED
      BY <1>7, <2>1, <2>2, <2>3
  <1>8. ASSUME NEW c \in Conns, NEW d \in Docs, Forward(c, d)
        PROVE  Typed
    BY <1>0, <1>8 DEF Forward, hist
  <1>. QED
    BY <1>1, <1>2, <1>3, <1>4, <1>5, <1>6, <1>7, <1>8 DEF Next, Handle

---------------------------------------------------------------------------
(* Most actions concern no room: no receiver, no log and no frame sent of  *)
(* a room changes.                                                         *)
Aside(c) ==
  \/ Hello(c) \/ Receive(c) \/ ClientClose(c) \/ CheckHello(c) \/ EndOfStream(c)
  \/ Check(c) \/ LoadSnapshot(c) \/ Truncate(c) \/ Save(c)

SameFrames(c, d) ==
  /\ RoomFrames(c, d)' = RoomFrames(c, d)
  /\ \A i \in RoomFrames(c, d) : out'[c][i] = out[c][i]

NoneTold ==
  /\ out' \in [Conns -> Seq(Replies \cup Errors)]
  /\ \A c \in Conns, d \in Docs : SameFrames(c, d)

LEMMA NothingSent ==
  ASSUME Shapes, out' = out
  PROVE  NoneTold
  BY DEF Shapes, NoneTold, SameFrames, RoomFrames

(* An error names no room. *)
LEMMA ErrorSent ==
  ASSUME Shapes, NEW c \in Conns, NEW code \in {"revoked", "no_capability", "forbidden"},
         Send(c, <<Error(code)>>)
  PROVE  NoneTold
  <1>. DEFINE e == Error(code)
  <1>1. /\ e \in Replies \cup Errors /\ e.doc = UnsafeDoc /\ UnsafeDoc \notin Docs
        /\ out \in [Conns -> Seq(Replies \cup Errors)]
    BY RelayAssumption DEF Errors, Error, Shapes
  <1>. HIDE DEF e
  <1>2. out' = [out EXCEPT ![c] = Append(@, e)]
    <2>1. out[c] \o <<e>> = Append(out[c], e)
      BY <1>1
    <2>. QED
      BY <1>1, <2>1 DEF Send, e
  <1>3. /\ Append(out[c], e) \in Seq(Replies \cup Errors)
        /\ Len(Append(out[c], e)) = Len(out[c]) + 1 /\ Len(out[c]) \in Nat
        /\ \A i \in 1..Len(out[c]) : Append(out[c], e)[i] = out[c][i]
        /\ Append(out[c], e)[Len(out[c]) + 1] = e
    BY <1>1, Appended
  <1>4. out' \in [Conns -> Seq(Replies \cup Errors)]
    BY <1>1, <1>2, <1>3
  <1>5. ASSUME NEW k \in Conns, NEW d \in Docs, k # c
        PROVE  SameFrames(k, d)
    BY <1>1, <1>2, <1>5 DEF SameFrames, RoomFrames
  <1>6. ASSUME NEW d \in Docs
        PROVE  SameFrames(c, d)
    <2>1. out'[c] = Append(out[c], e)
      BY <1>1, <1>2
    <2>2. /\ DOMAIN out[c] = 1..Len(out[c]) /\ DOMAIN out'[c] = 1..(Len(out[c]) + 1)
          /\ \A i \in 1..Len(out[c]) : out'[c][i] = out[c][i]
          /\ out'[c][Len(out[c]) + 1].doc # d
      BY <1>1, <1>3, <2>1
    <2>. QED
      BY <1>3, <2>2 DEF SameFrames, RoomFrames
  <1>. QED
    BY <1>4, <1>5, <1>6 DEF NoneTold

LEMMA AsideStep ==
  ASSUME Shapes, NEW c \in Conns, Aside(c)
  PROVE  /\ NoneTold /\ UNCHANGED <<rx, fwd, log, joined>>
         /\ \A k \in Conns : open'[k] => open[k]
  <1>0. open \in [Conns -> BOOLEAN]
    BY DEF Shapes, TypeOK
  <1>1. CASE Hello(c) \/ Receive(c) \/ ClientClose(c)
    BY <1>0, <1>1, NothingSent DEF Hello, Receive, ClientClose, hist
  <1>2. CASE CheckHello(c)
    BY <1>0, <1>2, NothingSent, ErrorSent DEF CheckHello, hist, Refuse, Return
  <1>3. CASE EndOfStream(c)
    BY <1>0, <1>3, NothingSent DEF EndOfStream, hist, Return
  <1>4. CASE Check(c)
    BY <1>0, <1>4, NothingSent, ErrorSent DEF Check, hist, Refuse, Return
  <1>5. CASE LoadSnapshot(c) \/ Truncate(c) \/ Save(c)
    BY <1>0, <1>5, NothingSent DEF LoadSnapshot, Truncate, Save, hist
  <1>. QED
    BY <1>1, <1>2, <1>3, <1>4, <1>5 DEF Aside

(* What is so of a connection and a room stays so when nothing of the two  *)
(* changes.                                                                *)
LEMMA RoomKept ==
  ASSUME NEW c \in Conns, NEW d \in Docs,
         Tails(c, d) /\ Admitted(c, d) /\ Delivered(c, d), SameFrames(c, d),
         rx'[c][d] = rx[c][d], (d \in fwd[c])' = (d \in fwd[c]),
         log'[d] = log[d], joined'[c][d] = joined[c][d], open'[c] => open[c]
  PROVE  (Tails(c, d) /\ Admitted(c, d) /\ Delivered(c, d))'
  <1>1. Taken(c, d)' = Taken(c, d) /\ Tails(c, d)'
    BY DEF Tails, Taken
  <1>2. Admitted(c, d)'
    BY DEF Admitted, SameFrames
  <1>3. /\ RoomFrames(c, d)' = RoomFrames(c, d)
        /\ \A i \in RoomFrames(c, d) : out'[c][i] = out[c][i]
        /\ \A n : Position(d, n)' = Position(d, n)
    BY DEF SameFrames, Position
  <1>. HIDE DEF RoomFrames, Position, Taken
  <1>4. Delivered(c, d)'
    BY <1>1, <1>3 DEF Delivered
  <1>. QED
    BY <1>1, <1>2, <1>4

---------------------------------------------------------------------------
(* The four actions that concern a room. *)

RoomsTyped ==
  /\ rx \in [Conns -> [Docs -> Seq(Msg) \cup {NoRx}]]
  /\ \A c \in Conns, d \in Docs : rx[c][d] # NoRx => Len(rx[c][d]) <= Capacity
  /\ log \in [Docs -> Seq(Msg)] /\ joined \in [Conns -> [Docs -> Nat]]
  /\ out \in [Conns -> Seq(Replies \cup Errors)]

Rooms == \A c \in Conns, d \in Docs : Tails(c, d) /\ Admitted(c, d) /\ Delivered(c, d)

LEMMA RoomFacts ==
  ASSUME IInv
  PROVE  /\ RoomsTyped /\ Rooms
         /\ fwd \in [Conns -> SUBSET Docs] /\ open \in [Conns -> BOOLEAN]
         /\ msg \in [Conns -> Msg]
         /\ Capacity \in Nat /\ Capacity >= 1 /\ << >> # NoRx
  <1>1. Capacity \in Nat /\ Capacity >= 1
    BY RelayAssumption
  <1>2. << >> # NoRx
    <2>1. << >> \in Seq(Msg)
      OBVIOUS
    <2>. QED
      BY <2>1, RelayAssumption
  <1>. QED
    BY <1>1, <1>2 DEF IInv, Shapes, TypeOK, RoomsTyped, Rooms

(* A receiver is made: it is the empty end of the log. *)
LEMMA SubscribeRooms ==
  ASSUME IInv, NEW c \in Conns, SubscribeRoom(c)
  PROVE  RoomsTyped' /\ Rooms'
  <1>0. PICK d \in Docs : d = msg[c].doc
    BY DEF SubscribeRoom, IInv, Session, Handling
  <1>1. /\ Who[c] \in HasToken /\ d \in Rights[Who[c]]
        /\ d \notin fwd[c] /\ RoomFrames(c, d) = {}
    BY <1>0 DEF SubscribeRoom, IInv, Session, Joining, Handling
  <1>2. /\ rx' = [rx EXCEPT ![c][d] = << >>]
        /\ joined' = [joined EXCEPT ![c][d] = Len(log[d])]
        /\ UNCHANGED <<log, fwd, open, out>>
    BY <1>0 DEF SubscribeRoom
  <1>3. NoneTold
    BY <1>2, NothingSent DEF IInv
  <1>4. /\ RoomsTyped /\ Len(log[d]) \in Nat
        /\ << >> \in Seq(Msg) /\ Len(<< >>) = 0 /\ << >> # NoRx
        /\ Capacity \in Nat /\ Capacity >= 1
    BY <1>1, RoomFacts DEF RoomsTyped
  <1>5. RoomsTyped'
    BY <1>1, <1>2, <1>4 DEF RoomsTyped
  <1>6. ASSUME NEW k \in Conns, NEW e \in Docs, k # c \/ e # d
        PROVE  (Tails(k, e) /\ Admitted(k, e) /\ Delivered(k, e))'
    <2>1. rx'[k][e] = rx[k][e] /\ joined'[k][e] = joined[k][e]
      BY <1>2, <1>4, <1>6 DEF RoomsTyped
    <2>. QED
      BY <2>1, <1>2, <1>3, RoomKept, RoomFacts DEF Rooms, NoneTold
  <1>7. (Tails(c, d) /\ Admitted(c, d) /\ Delivered(c, d))'
    <2>1. /\ rx'[c][d] = << >> /\ joined'[c][d] = Len(log[d])
          /\ RoomFrames(c, d)' = {} /\ d \notin fwd'[c]
      BY <1>1, <1>2, <1>3, <1>4 DEF RoomsTyped, NoneTold, SameFrames
    <2>. HIDE DEF RoomFrames
    <2>2. Tails(c, d)'
      <3>1. Len(log'[d]) = Len(log[d]) /\ Len(rx'[c][d]) = 0
        BY <1>2, <1>4, <2>1
      <3>2. Taken(c, d)' = Len(log[d])
        BY <1>4, <3>1 DEF Taken
      <3>. QED
        BY <1>4, <2>1, <3>1, <3>2 DEF Tails
    <2>3. Admitted(c, d)' /\ Delivered(c, d)'
      BY <1>1, <1>4, <2>1 DEF Admitted, Delivered
    <2>. QED
      BY <2>2, <2>3
  <1>. QED
    BY <1>5, <1>6, <1>7 DEF Rooms

LEMMA AppendedTwo ==
  ASSUME NEW S, NEW s \in Seq(S), NEW a \in S, NEW b \in S
  PROVE  /\ s \o <<a, b>> \in Seq(S) /\ Len(s \o <<a, b>>) = Len(s) + 2
         /\ \A i \in 1..Len(s) : (s \o <<a, b>>)[i] = s[i]
         /\ (s \o <<a, b>>)[Len(s) + 1] = a /\ (s \o <<a, b>>)[Len(s) + 2] = b
         /\ Len(s) \in Nat
  OBVIOUS

(* The snapshot is the first frame of its room; if the socket is closed,   *)
(* the receiver goes and the room was never entered.                       *)
LEMMA SendSnapshotRooms ==
  ASSUME IInv, NEW c \in Conns, SendSnapshot(c)
  PROVE  RoomsTyped' /\ Rooms'
  <1>0. PICK d \in Docs : d = msg[c].doc
    BY DEF SendSnapshot, IInv, Session, Handling
  <1>1. /\ Who[c] \in HasToken /\ d \in Rights[Who[c]] /\ rx[c][d] # NoRx
        /\ d \notin fwd[c] /\ RoomFrames(c, d) = {}
    BY <1>0 DEF SendSnapshot, IInv, Session, Joining, Handling
  <1>2. UNCHANGED <<log, joined>>
    BY DEF SendSnapshot, hist
  <1>3. /\ RoomsTyped /\ Rooms /\ fwd \in [Conns -> SUBSET Docs]
        /\ open \in [Conns -> BOOLEAN]
    BY RoomFacts
  <1>4. CASE open[c]
    <2>. DEFINE ok == Frame("HELLO_OK", d, 0)
                sn == Frame("SNAPSHOT", d, snap[c])
    <2>1. /\ out' = [out EXCEPT ![c] = @ \o <<ok, sn>>]
          /\ fwd' = [fwd EXCEPT ![c] = @ \cup {d}]
          /\ UNCHANGED <<open, rx>>
      BY <1>0, <1>4 DEF SendSnapshot, Send
    <2>2. /\ ok \in Replies /\ sn \in Replies /\ ok.doc = d /\ sn.doc = d
          /\ ok.kind = "HELLO_OK" /\ sn.kind = "SNAPSHOT"
      BY RelayAssumption DEF Replies, Frame, IInv, Shapes, TypeOK
    <2>. HIDE DEF ok, sn
    <2>3. /\ out'[c] \in Seq(Replies \cup Errors) /\ Len(out'[c]) = Len(out[c]) + 2
          /\ \A i \in 1..Len(out[c]) : out'[c][i] = out[c][i]
          /\ out'[c][Len(out[c]) + 1] = ok /\ out'[c][Len(out[c]) + 2] = sn
          /\ Len(out[c]) \in Nat
      <3>1. out'[c] = out[c] \o <<ok, sn>> /\ out[c] \in Seq(Replies \cup Errors)
        BY <1>3, <2>1 DEF RoomsTyped
      <3>. QED
        BY <2>2, <3>1, AppendedTwo
    <2>4. DOMAIN out[c] = 1..Len(out[c]) /\ DOMAIN out'[c] = 1..(Len(out[c]) + 2)
      BY <1>3, <2>3 DEF RoomsTyped
    <2>5. RoomsTyped'
      BY <1>2, <1>3, <2>1, <2>3 DEF RoomsTyped
    <2>6. ASSUME NEW k \in Conns, NEW e \in Docs, k # c \/ e # d
          PROVE  (Tails(k, e) /\ Admitted(k, e) /\ Delivered(k, e))'
      <3>1. SameFrames(k, e)
        <4>1. CASE k # c
          BY <1>3, <2>1, <4>1 DEF SameFrames, RoomFrames, RoomsTyped
        <4>2. CASE k = c /\ e # d
          <5>1. /\ \A i \in DOMAIN out[c] : i \in DOMAIN out'[c] /\ out'[c][i] = out[c][i]
                /\ \A i \in DOMAIN out'[c] : \/ i \in DOMAIN out[c]
                                             \/ out'[c][i] \in {ok, sn}
            BY <2>3, <2>4
          <5>2. \A i \in DOMAIN out'[c] : i \in DOMAIN out[c] \/ out'[c][i].doc # e
            BY <2>2, <4>2, <5>1
          <5>. QED
            BY <4>2, <5>1, <5>2 DEF SameFrames, RoomFrames
        <4>. QED
          BY <2>6, <4>1, <4>2
      <3>2. (e \in fwd[k])' = (e \in fwd[k])
        BY <1>3, <2>1, <2>6
      <3>. QED
        BY <3>1, <3>2, <1>2, <1>3, <2>1, RoomKept DEF Rooms
    <2>7. (Tails(c, d) /\ Admitted(c, d) /\ Delivered(c, d))'
      <3>1. /\ RoomFrames(c, d)' = {Len(out[c]) + 2} /\ d \in fwd'[c]
            /\ out'[c][Len(out[c]) + 2].kind = "SNAPSHOT"
        BY <1>1, <1>3, <2>1, <2>2, <2>3, <2>4 DEF RoomFrames
      <3>. HIDE DEF RoomFrames
      <3>2. Tails(c, d)'
        BY <1>2, <1>3, <2>1 DEF Rooms, Tails, Taken
      <3>3. Admitted(c, d)'
        BY <1>1, <2>1, <3>1 DEF Admitted
      <3>4. Delivered(c, d)'
        BY <2>3, <3>1 DEF Delivered
      <3>. QED
        BY <3>2, <3>3, <3>4
    <2>. QED
      BY <2>5, <2>6, <2>7 DEF Rooms
  <1>5. CASE ~open[c]
    <2>1. /\ rx' = [rx EXCEPT ![c][d] = NoRx] /\ UNCHANGED <<out, fwd>>
          /\ \A k \in Conns : open'[k] => open[k]
      BY <1>0, <1>3, <1>5 DEF SendSnapshot, Return
    <2>2. NoneTold
      BY <2>1, NothingSent DEF IInv
    <2>3. RoomsTyped'
      BY <1>2, <1>3, <2>1 DEF RoomsTyped
    <2>4. ASSUME NEW k \in Conns, NEW e \in Docs, k # c \/ e # d
          PROVE  (Tails(k, e) /\ Admitted(k, e) /\ Delivered(k, e))'
      <3>1. rx'[k][e] = rx[k][e]
        BY <1>3, <2>1, <2>4 DEF RoomsTyped
      <3>. QED
        BY <1>2, <1>3, <2>1, <2>2, <3>1, RoomKept DEF Rooms, NoneTold
    <2>5. (Tails(c, d) /\ Admitted(c, d) /\ Delivered(c, d))'
      <3>1. rx'[c][d] = NoRx /\ RoomFrames(c, d)' = {} /\ d \notin fwd'[c]
        BY <1>1, <1>3, <2>1, <2>2 DEF RoomsTyped, NoneTold, SameFrames
      <3>. HIDE DEF RoomFrames
      <3>2. Tails(c, d)'
        BY <1>2, <1>3, <3>1 DEF Rooms, Tails
      <3>3. Admitted(c, d)' /\ Delivered(c, d)'
        BY <3>1 DEF Admitted, Delivered
      <3>. QED
        BY <3>2, <3>3
    <2>. QED
      BY <2>3, <2>4, <2>5 DEF Rooms
  <1>. QED
    BY <1>4, <1>5

LEMMA Shifted ==
  ASSUME NEW x \in Nat, NEW y \in Nat, NEW z \in Nat, z \in {y, y + 1}, y <= x,
         NEW i \in 1..(z - 1)
  PROVE  /\ i + 1 + y - z \in 1..y /\ x - y + (i + 1 + y - z) = x + 1 - z + i
         /\ x + 1 - z + i \in 1..x
  OBVIOUS

LEMMA Behind ==
  ASSUME NEW x \in Nat, NEW y \in Nat, NEW z \in Nat, z \in {y, y + 1}
  PROVE  x - y \in Int /\ x + 1 - z \in Int /\ x - y <= x + 1 - z
  OBVIOUS

(* A room's log and its receivers grow at their ends; what a receiver at   *)
(* the channel's capacity loses is at its beginning.                       *)
LEMMA BroadcastRooms ==
  ASSUME IInv, NEW c \in Conns, Broadcast(c)
  PROVE  RoomsTyped' /\ Rooms'
  <1>0. PICK m \in Msg : m = msg[c]
    BY RoomFacts
  <1>1. PICK d \in Docs : d = m.doc
    BY <1>0 DEF Broadcast, IInv, Session, Handling
  <1>2. /\ rx' = [k \in Conns |-> [rx[k] EXCEPT ![d] = Push(@, m)]]
        /\ log' = [log EXCEPT ![d] = Append(@, m)]
        /\ UNCHANGED <<joined, out, fwd, open>>
    BY <1>0, <1>1 DEF Broadcast
  <1>3. /\ RoomsTyped /\ Rooms /\ log[d] \in Seq(Msg) /\ joined \in [Conns -> [Docs -> Nat]]
        /\ fwd \in [Conns -> SUBSET Docs] /\ NoneTold
    BY <1>2, RoomFacts, NothingSent DEF RoomsTyped, IInv
  <1>4. \A k \in DOMAIN log[d] : log[d][k].n # m.n
    BY <1>0 DEF IInv, Numbered, Broadcast
  <1>. DEFINE L == log[d]
  <1>5. /\ log'[d] \in Seq(Msg) /\ Len(log'[d]) = Len(L) + 1 /\ Len(L) \in Nat
        /\ \A i \in 1..Len(L) : log'[d][i] = L[i]
        /\ log'[d][Len(L) + 1] = m
        /\ DOMAIN L = 1..Len(L) /\ DOMAIN log'[d] = 1..(Len(L) + 1)
    <2>1. log'[d] = Append(L, m)
      BY <1>2, <1>3 DEF RoomsTyped
    <2>2. /\ Append(L, m) \in Seq(Msg) /\ Len(Append(L, m)) = Len(L) + 1 /\ Len(L) \in Nat
          /\ \A i \in 1..Len(L) : Append(L, m)[i] = L[i]
          /\ Append(L, m)[Len(L) + 1] = m
      BY <1>3, Appended
    <2>. QED
      BY <1>3, <2>1, <2>2
  <1>6. ASSUME NEW k \in Conns
        PROVE  /\ rx[k][d] \in Seq(Msg) \cup {NoRx}
               /\ rx[k][d] # NoRx => Len(rx[k][d]) <= Capacity
               /\ rx'[k][d] = Push(rx[k][d], m)
    BY <1>2, <1>3 DEF RoomsTyped
  <1>7. RoomsTyped'
    <2>1. ASSUME NEW k \in Conns, NEW e \in Docs
          PROVE  /\ rx'[k][e] \in Seq(Msg) \cup {NoRx}
                 /\ rx'[k][e] # NoRx => Len(rx'[k][e]) <= Capacity
      <3>1. CASE e = d
        <4>1. PushedTo(rx[k][d], rx'[k][d], m) /\ rx'[k][d] \in Seq(Msg) \cup {NoRx}
          BY <1>6, Pushed
        <4>. QED
          BY <3>1, <4>1 DEF PushedTo
      <3>2. CASE e # d
        BY <1>2, <1>3, <3>2 DEF RoomsTyped
      <3>. QED
        BY <3>1, <3>2
    <2>2. rx' \in [Conns -> [Docs -> Seq(Msg) \cup {NoRx}]]
      <3>1. \A k \in Conns : rx'[k] = [e \in Docs |-> rx'[k][e]]
        BY <1>2, <1>3 DEF RoomsTyped
      <3>2. rx' = [k \in Conns |-> rx'[k]]
        BY <1>2
      <3>. QED
        BY <2>1, <3>1, <3>2
    <2>3. log' \in [Docs -> Seq(Msg)]
      BY <1>2, <1>3, <1>5 DEF RoomsTyped
    <2>. QED
      BY <1>2, <1>3, <2>1, <2>2, <2>3 DEF RoomsTyped
  <1>8. ASSUME NEW k \in Conns, NEW e \in Docs, e # d
        PROVE  (Tails(k, e) /\ Admitted(k, e) /\ Delivered(k, e))'
    <2>1. rx'[k][e] = rx[k][e] /\ log'[e] = log[e]
      BY <1>2, <1>3, <1>8 DEF RoomsTyped
    <2>. QED
      BY <1>2, <1>3, <2>1, RoomKept DEF Rooms, NoneTold
  <1>9. ASSUME NEW k \in Conns
        PROVE  (Tails(k, d) /\ Admitted(k, d) /\ Delivered(k, d))'
    <2>1. Tails(k, d) /\ Admitted(k, d) /\ Delivered(k, d) /\ SameFrames(k, d)
      BY <1>3 DEF Rooms, NoneTold
    <2>2. joined[k][d] \in Nat /\ joined'[k][d] = joined[k][d]
      BY <1>2, <1>3
    <2>3. PushedTo(rx[k][d], rx'[k][d], m)
      BY <1>6, Pushed
    <2>4. (rx[k][d] = NoRx) = (rx'[k][d] = NoRx)
      BY <2>3 DEF PushedTo
    <2>5. rx[k][d] # NoRx => /\ Taken(k, d) \in Int /\ Taken(k, d)' \in Int
                             /\ Taken(k, d) <= Taken(k, d)'
      <3>. SUFFICES ASSUME rx[k][d] # NoRx
                    PROVE  /\ Taken(k, d) \in Int /\ Taken(k, d)' \in Int
                           /\ Taken(k, d) <= Taken(k, d)'
        OBVIOUS
      <3>1. /\ Len(rx[k][d]) \in Nat /\ Len(rx'[k][d]) \in Nat
            /\ Len(rx'[k][d]) \in {Len(rx[k][d]), Len(rx[k][d]) + 1}
        BY <2>3 DEF PushedTo
      <3>2. /\ Taken(k, d) = Len(L) - Len(rx[k][d])
            /\ Taken(k, d)' = Len(L) + 1 - Len(rx'[k][d])
        BY <1>5 DEF Taken
      <3>3. Len(L) \in Nat
        BY <1>5
      <3>. HIDE DEF L
      <3>. QED
        BY <3>1, <3>2, <3>3, Behind
    <2>6. Tails(k, d)'
      <3>1. joined'[k][d] <= Len(log'[d])
        BY <1>5, <2>1, <2>2 DEF Tails
      <3>2. CASE rx[k][d] # NoRx
        <4>. DEFINE q == rx[k][d]
                    p == rx'[k][d]
        <4>1. /\ Len(q) \in Nat /\ Len(p) \in Nat /\ Len(p) \in {Len(q), Len(q) + 1}
              /\ Len(p) >= 1
          BY <2>3, <3>2 DEF PushedTo
        <4>2. Taken(k, d) = Len(L) - Len(q) /\ Taken(k, d)' = Len(L) + 1 - Len(p)
          BY <1>5 DEF Taken
        <4>3. joined[k][d] <= Taken(k, d) /\ joined'[k][d] <= Taken(k, d)'
          <5>1. joined[k][d] <= Taken(k, d)
            BY <2>1, <3>2 DEF Tails
          <5>. QED
            BY <2>2, <2>5, <3>2, <5>1
        <4>4. p[Len(p)] = log'[d][Taken(k, d)' + Len(p)]
          <5>1. Taken(k, d)' + Len(p) = Len(L) + 1
            BY <1>5, <4>1, <4>2
          <5>. QED
            BY <1>5, <2>3, <3>2, <5>1 DEF PushedTo
        <4>5. ASSUME NEW i \in 1..(Len(p) - 1)
              PROVE  p[i] = log'[d][Taken(k, d)' + i]
          <5>. DEFINE j == i + 1 + Len(q) - Len(p)
          <5>1. Len(q) <= Len(L)
            <6>1. joined[k][d] <= Len(L) - Len(q) /\ joined[k][d] \in Nat
              BY <2>2, <4>2, <4>3
            <6>2. Len(L) \in Nat /\ Len(q) \in Nat
              BY <1>5, <4>1
            <6>. HIDE DEF L, q
            <6>. QED
              BY <6>1, <6>2
          <5>2. /\ j \in 1..Len(q) /\ Len(L) - Len(q) + j = Len(L) + 1 - Len(p) + i
                /\ Len(L) + 1 - Len(p) + i \in 1..Len(L)
            BY <1>5, <4>1, <5>1, Shifted
          <5>3. p[i] = q[j]
            BY <2>3, <3>2 DEF PushedTo
          <5>4. q[j] = L[Taken(k, d) + j]
            BY <2>1, <3>2, <5>2 DEF Tails
          <5>. QED
            BY <1>5, <4>2, <5>2, <5>3, <5>4
        <4>6. ASSUME NEW i \in 1..Len(p)
              PROVE  p[i] = log'[d][Taken(k, d)' + i]
          <5>1. i \in 1..(Len(p) - 1) \/ i = Len(p)
            BY <4>1
          <5>. QED
            BY <4>4, <4>5, <5>1
        <4>. QED
          BY <3>1, <4>3, <4>6 DEF Tails
      <3>3. CASE rx[k][d] = NoRx
        BY <2>4, <3>1, <3>3 DEF Tails
      <3>. QED
        BY <3>2, <3>3
    <2>7. Admitted(k, d)'
      BY <1>2, <2>1, <2>4 DEF Admitted, SameFrames
    <2>8. Delivered(k, d)'
      <3>1. ASSUME NEW n, n # m.n
            PROVE  /\ Position(d, n)' = Position(d, n)
                   /\ \A l \in Position(d, n) : log'[d][l] = log[d][l]
        <4>1. \A l \in DOMAIN log'[d] : l \in DOMAIN L \/ log'[d][l].n # n
          BY <1>5, <3>1
        <4>2. \A l \in DOMAIN L : l \in DOMAIN log'[d] /\ log'[d][l] = L[l]
          BY <1>5
        <4>. QED
          BY <4>1, <4>2 DEF Position
      <3>2. ASSUME NEW n, NEW l \in Position(d, n)
            PROVE  n # m.n
        BY <1>4, <3>2 DEF Position
      <3>3. /\ RoomFrames(k, d)' = RoomFrames(k, d)
            /\ \A i \in RoomFrames(k, d) : out'[k][i] = out[k][i]
        BY <2>1 DEF SameFrames
      <3>. HIDE DEF RoomFrames, Position
      <3>4. ASSUME NEW i \in RoomFrames(k, d), out[k][i].kind # "SNAPSHOT"
            PROVE  /\ Position(d, out[k][i].n)' = Position(d, out[k][i].n)
                   /\ \E l \in Position(d, out[k][i].n)' :
                        /\ joined'[k][d] < l /\ log'[d][l].from # k
                        /\ rx'[k][d] # NoRx => l <= Taken(k, d)'
        <4>1. PICK n : n = out[k][i].n /\ n = out'[k][i].n
          BY <1>2
        <4>2. PICK l \in Position(d, n) :
                 /\ joined[k][d] < l /\ log[d][l].from # k
                 /\ rx[k][d] # NoRx => l <= Taken(k, d)
          BY <2>1, <3>4, <4>1 DEF Delivered
        <4>3. Position(d, n)' = Position(d, n) /\ log'[d][l] = log[d][l]
          BY <3>1, <3>2, <4>2
        <4>4. Position(d, out[k][i].n)' = Position(d, n)'
          BY <4>1 DEF Position
        <4>5. l \in Nat
          BY <1>5, <4>2 DEF Position
        <4>6. rx[k][d] # NoRx => l <= Taken(k, d)'
          BY <2>5, <4>2, <4>5
        <4>. QED
          BY <2>2, <2>4, <4>1, <4>2, <4>3, <4>4, <4>6
      <3>5. /\ \A i, j \in RoomFrames(k, d)' : i < j => out'[k][j].kind # "SNAPSHOT"
            /\ d \in fwd'[k] \/ RoomFrames(k, d)' # {} =>
                 \E i \in RoomFrames(k, d)' : out'[k][i].kind = "SNAPSHOT"
        BY <1>2, <2>1, <3>3 DEF Delivered
      <3>6. \A i \in RoomFrames(k, d)' : out'[k][i].kind # "SNAPSHOT" =>
              \E l \in Position(d, out[k][i].n)' :
                 /\ joined'[k][d] < l /\ log'[d][l].from # k
                 /\ rx'[k][d] # NoRx => l <= Taken(k, d)'
        BY <3>3, <3>4
      <3>7. ASSUME NEW i \in RoomFrames(k, d), NEW j \in RoomFrames(k, d),
                   i < j, out[k][i].kind # "SNAPSHOT"
            PROVE  \A a \in Position(d, out[k][i].n)', b \in Position(d, out[k][j].n)' : a < b
        <4>1. out[k][j].kind # "SNAPSHOT"
          BY <2>1, <3>7 DEF Delivered
        <4>2. \A a \in Position(d, out[k][i].n), b \in Position(d, out[k][j].n) : a < b
          BY <2>1, <3>7 DEF Delivered
        <4>. QED
          BY <3>4, <3>7, <4>1, <4>2
      <3>8. \A i, j \in RoomFrames(k, d)' : i < j /\ out'[k][i].kind # "SNAPSHOT" =>
              \A a \in Position(d, out[k][i].n)', b \in Position(d, out[k][j].n)' : a < b
        BY <3>3, <3>7
      <3>. QED
        BY <3>5, <3>6, <3>8 DEF Delivered
    <2>. QED
      BY <2>6, <2>7, <2>8
  <1>. QED
    BY <1>7, <1>8, <1>9 DEF Rooms

(* A forwarder takes the next message of the log its receiver has not      *)
(* taken, so what it writes comes after all it wrote before.               *)
LEMMA ForwardRooms ==
  ASSUME IInv, NEW c \in Conns, NEW d \in Docs, Forward(c, d)
  PROVE  RoomsTyped' /\ Rooms'
  <1>1. /\ RoomsTyped /\ Rooms /\ NoRx \notin Seq(Msg) /\ fwd \in [Conns -> SUBSET Docs]
        /\ Tails(c, d) /\ Admitted(c, d) /\ Delivered(c, d)
    BY RoomFacts, RelayAssumption DEF Rooms
  <1>2. UNCHANGED <<log, joined, open>> /\ d \in fwd[c]
    BY DEF Forward, hist
  <1>3. PICK q \in Seq(Msg) : q = rx[c][d] /\ q # << >>
    BY <1>1, <1>2 DEF Forward, Admitted, RoomsTyped
  <1>4. /\ Head(q) \in Msg /\ Head(q) = q[1] /\ Len(q) \in Nat /\ Len(q) >= 1
        /\ Tail(q) \in Seq(Msg) /\ Len(Tail(q)) = Len(q) - 1
        /\ \A i \in 1..Len(q) - 1 : Tail(q)[i] = q[i + 1]
    BY <1>3, Beheaded
  <1>5. PICK m \in Msg : m = Head(q)
    BY <1>4
  <1>6. PICK L \in Seq(Msg) : L = log[d] /\ L = log'[d]
    BY <1>1, <1>2 DEF RoomsTyped
  <1>7. PICK s \in Nat : s = joined[c][d] /\ s = joined'[c][d]
    BY <1>1, <1>2 DEF RoomsTyped
  <1>8. PICK t \in Nat : /\ t = Taken(c, d) /\ t = Len(L) - Len(q) /\ s <= t
                         /\ t + 1 \in 1..Len(L) /\ Len(L) \in Nat
    <2>1. s <= Len(L) - Len(q) /\ Taken(c, d) = Len(L) - Len(q) /\ Len(L) \in Nat
      <3>1. Taken(c, d) = Len(L) - Len(q) /\ Len(L) \in Nat
        BY <1>3, <1>6 DEF Taken
      <3>2. rx[c][d] # NoRx
        BY <1>1, <1>3
      <3>3. s <= Taken(c, d)
        BY <1>1, <1>7, <3>2 DEF Tails
      <3>. QED
        BY <3>1, <3>3
    <2>2. Len(L) - Len(q) \in Nat /\ Len(L) - Len(q) + 1 \in 1..Len(L)
      BY <1>4, <2>1
    <2>. QED
      BY <2>1, <2>2
  <1>9. \A i \in 1..Len(q) : q[i] = L[t + i]
    BY <1>1, <1>3, <1>6, <1>8 DEF Tails
  <1>10. L[t + 1] = m
    BY <1>4, <1>5, <1>9
  <1>11. /\ m.kind \in {"UPDATE", "NOTIFY"} /\ m.n \in 0..MaxFrames
         /\ \A l \in DOMAIN L : L[l].n = m.n => l = t + 1
         /\ \A k, l \in DOMAIN L : L[l].n = L[k].n => l = k
         /\ DOMAIN L = 1..Len(L)
    <2>1. DOMAIN L = 1..Len(L) /\ t + 1 \in DOMAIN L
      BY <1>8
    <2>2. /\ \A l \in DOMAIN L : L[l].kind \in {"UPDATE", "NOTIFY"}
          /\ \A k, l \in DOMAIN L : L[l].n = L[k].n => l = k
      BY <1>6 DEF IInv, Numbered
    <2>3. m.n \in 0..MaxFrames
      BY DEF Msg
    <2>. QED
      BY <1>10, <2>1, <2>2, <2>3
  <1>12. CASE (m.from = c \/ open[c]) /\ rx' = [rx EXCEPT ![c][d] = Tail(@)]
              /\ out' = (IF m.from = c THEN out
                         ELSE [out EXCEPT ![c] = Append(@, Frame(m.kind, d, m.n))])
              /\ UNCHANGED fwd
    <2>1. rx'[c][d] = Tail(q) /\ rx'[c][d] # NoRx
      BY <1>1, <1>3, <1>4, <1>12 DEF RoomsTyped
    <2>2. Taken(c, d)' = t + 1
      <3>1. Taken(c, d)' = Len(L) - (Len(q) - 1)
        BY <1>4, <1>6, <2>1 DEF Taken
      <3>. QED
        BY <1>4, <1>8, <3>1
    <2>3. Tails(c, d)'
      <3>1. s <= Len(L) /\ s <= t + 1
        BY <1>8
      <3>2. ASSUME NEW i \in 1..Len(Tail(q))
            PROVE  Tail(q)[i] = L[t + 1 + i]
        <4>1. i + 1 \in 1..Len(q) /\ i \in 1..Len(q) - 1 /\ t + (i + 1) = t + 1 + i
          BY <1>4
        <4>. QED
          BY <1>4, <1>9, <4>1
      <3>. QED
        BY <1>6, <1>7, <2>1, <2>2, <3>1, <3>2 DEF Tails
    <2>4. Len(Tail(q)) <= Capacity
      <3>1. Len(q) <= Capacity /\ Capacity \in Nat
        BY <1>1, <1>3, RoomFacts DEF RoomsTyped
      <3>. QED
        BY <1>4, <3>1
    <2>5. CASE m.from = c
      <3>1. NoneTold
        BY <1>12, <2>5, NothingSent DEF IInv
      <3>2. RoomsTyped'
        BY <1>1, <1>2, <1>3, <1>4, <1>12, <2>4, <2>5 DEF RoomsTyped
      <3>3. ASSUME NEW k \in Conns, NEW e \in Docs, k # c \/ e # d
            PROVE  (Tails(k, e) /\ Admitted(k, e) /\ Delivered(k, e))'
        <4>1. rx'[k][e] = rx[k][e]
          BY <1>1, <1>12, <3>3 DEF RoomsTyped
        <4>. QED
          BY <1>1, <1>2, <1>12, <3>1, <4>1, RoomKept DEF Rooms, NoneTold
      <3>4. SameFrames(c, d)
        BY <3>1 DEF NoneTold
      <3>5. Admitted(c, d)'
        BY <1>1, <1>2, <1>3, <1>12, <2>1, <3>4 DEF Admitted, SameFrames
      <3>6. Delivered(c, d)'
        <4>1. /\ RoomFrames(c, d)' = RoomFrames(c, d) /\ out' = out
              /\ \A n : Position(d, n)' = Position(d, n)
          BY <1>2, <1>12, <2>5, <3>4 DEF SameFrames, Position
        <4>2. ASSUME NEW n, NEW k \in Position(d, n)
              PROVE  k <= t => k <= t + 1
          BY <1>6, <1>11, <4>2 DEF Position
        <4>. HIDE DEF RoomFrames, Position
        <4>3. ASSUME NEW i \in RoomFrames(c, d), out[c][i].kind # "SNAPSHOT"
              PROVE  \E k \in Position(d, out[c][i].n)' :
                        /\ joined'[c][d] < k /\ log'[d][k].from # c
                        /\ rx'[c][d] # NoRx => k <= Taken(c, d)'
          <5>1. PICK n : n = out[c][i].n /\ n = out'[c][i].n
            BY <4>1
          <5>2. PICK k \in Position(d, n) :
                   joined[c][d] < k /\ log[d][k].from # c /\ k <= t
            BY <1>1, <1>3, <1>8, <4>3, <5>1 DEF Delivered
          <5>3. Position(d, out[c][i].n)' = Position(d, n)'
            BY <5>1 DEF Position
          <5>. QED
            BY <1>2, <2>2, <4>1, <4>2, <5>2, <5>3
        <4>4. ASSUME NEW i \in RoomFrames(c, d)
              PROVE  Position(d, out[c][i].n)' = Position(d, out[c][i].n)
          BY <1>2, <4>1 DEF Position
        <4>. QED
          BY <1>1, <1>12, <4>1, <4>3, <4>4 DEF Delivered
      <3>. QED
        BY <2>3, <3>2, <3>3, <3>5, <3>6 DEF Rooms
    <2>6. CASE m.from # c
      <3>. DEFINE f == Frame(m.kind, d, m.n)
      <3>1. /\ f \in Replies /\ f.doc = d /\ f.kind = m.kind /\ f.n = m.n
            /\ f.kind # "HELLO_OK" /\ f.kind # "SNAPSHOT"
        BY <1>11 DEF Replies, Frame
      <3>. HIDE DEF f
      <3>2. PICK O \in Seq(Replies \cup Errors) : O = out[c]
        BY <1>1 DEF RoomsTyped
      <3>3. out' = [out EXCEPT ![c] = Append(O, f)] /\ out'[c] = Append(O, f)
        BY <1>1, <1>12, <2>6, <3>2 DEF RoomsTyped, f
      <3>4. /\ Append(O, f) \in Seq(Replies \cup Errors)
            /\ Len(Append(O, f)) = Len(O) + 1 /\ Len(O) \in Nat
            /\ \A i \in 1..Len(O) : Append(O, f)[i] = O[i]
            /\ Append(O, f)[Len(O) + 1] = f
        BY <3>1, <3>2, Appended
      <3>5. /\ DOMAIN out[c] = 1..Len(O) /\ DOMAIN out'[c] = 1..(Len(O) + 1)
            /\ \A i \in 1..Len(O) : out'[c][i] = out[c][i]
            /\ out'[c][Len(O) + 1] = f
        BY <3>2, <3>3, <3>4
      <3>6. RoomsTyped'
        BY <1>1, <1>2, <1>3, <1>4, <1>12, <2>4, <3>3, <3>4 DEF RoomsTyped
      <3>7. ASSUME NEW k \in Conns, NEW e \in Docs, k # c \/ e # d
            PROVE  (Tails(k, e) /\ Admitted(k, e) /\ Delivered(k, e))'
        <4>1. rx'[k][e] = rx[k][e]
          BY <1>1, <1>12, <3>7 DEF RoomsTyped
        <4>2. SameFrames(k, e)
          <5>1. CASE k # c
            BY <1>1, <3>3, <5>1 DEF SameFrames, RoomFrames, RoomsTyped
          <5>2. CASE k = c /\ e # d
            <6>1. /\ \A i \in DOMAIN out[c] : i \in DOMAIN out'[c] /\ out'[c][i] = out[c][i]
                  /\ \A i \in DOMAIN out'[c] : i \in DOMAIN out[c] \/ out'[c][i].doc # e
              BY <3>1, <3>4, <3>5, <5>2
            <6>. QED
              BY <5>2, <6>1 DEF SameFrames, RoomFrames
          <5>. QED
            BY <3>7, <5>1, <5>2
        <4>. QED
          BY <1>1, <1>2, <1>12, <4>1, <4>2, RoomKept DEF Rooms
      <3>8. Admitted(c, d)'
        BY <1>1, <1>2, <1>3, <1>12, <2>1 DEF Admitted
      <3>9. /\ RoomFrames(c, d)' = RoomFrames(c, d) \cup {Len(O) + 1}
            /\ \A i \in RoomFrames(c, d) :
                  i \in Nat /\ i < Len(O) + 1 /\ out'[c][i] = out[c][i]
            /\ Len(O) + 1 \notin RoomFrames(c, d)
        BY <3>1, <3>4, <3>5 DEF RoomFrames
      <3>10. ASSUME NEW n
             PROVE  /\ Position(d, n)' = Position(d, n)
                    /\ \A k \in Position(d, n) : k \in 1..Len(L) /\ L[k].n = n
        BY <1>2, <1>6, <1>11 DEF Position
      <3>11. Position(d, m.n) = {t + 1}
        BY <1>6, <1>8, <1>10, <1>11 DEF Position
      <3>. HIDE DEF RoomFrames
      <3>12. ASSUME NEW i \in RoomFrames(c, d), out[c][i].kind # "SNAPSHOT"
             PROVE  /\ \E k \in Position(d, out[c][i].n) :
                          s < k /\ L[k].from # c /\ k <= t
                    /\ \A k \in Position(d, out[c][i].n) : k < t + 1
                    /\ Position(d, out[c][i].n)' = Position(d, out[c][i].n)
        <4>1. PICK n : n = out[c][i].n /\ n = out'[c][i].n
          BY <3>9
        <4>2. PICK k \in Position(d, n) : s < k /\ L[k].from # c /\ k <= t
          BY <1>1, <1>3, <1>6, <1>7, <1>8, <3>12, <4>1 DEF Delivered
        <4>3. \A l \in Position(d, n) : l = k
          BY <1>11, <3>10, <4>2
        <4>4. k < t + 1
          BY <3>10, <4>2
        <4>5. Position(d, out[c][i].n)' = Position(d, n)'
          BY <4>1 DEF Position
        <4>. QED
          BY <3>10, <4>1, <4>2, <4>3, <4>4, <4>5
      <3>13. Position(d, out[c][Len(O) + 1].n)' = {t + 1}
        <4>1. Position(d, out[c][Len(O) + 1].n)' = Position(d, m.n)'
          BY <3>1, <3>5 DEF Position
        <4>. QED
          BY <3>10, <3>11, <4>1
      <3>14. Delivered(c, d)'
        <4>1. ASSUME NEW i \in RoomFrames(c, d)', NEW j \in RoomFrames(c, d)', i < j
              PROVE  i \in RoomFrames(c, d) /\ out'[c][j].kind # "SNAPSHOT"
          BY <1>1, <3>1, <3>5, <3>9, <4>1 DEF Delivered
        <4>2. \E i \in RoomFrames(c, d)' : out'[c][i].kind = "SNAPSHOT"
          BY <1>1, <1>2, <3>9 DEF Delivered
        <4>3. ASSUME NEW i \in RoomFrames(c, d)', out'[c][i].kind # "SNAPSHOT"
              PROVE  \E k \in Position(d, out[c][i].n)' :
                        /\ joined'[c][d] < k /\ log'[d][k].from # c
                        /\ rx'[c][d] # NoRx => k <= Taken(c, d)'
          <5>1. CASE i \in RoomFrames(c, d)
            <6>1. out[c][i].kind # "SNAPSHOT"
              BY <3>9, <4>3, <5>1
            <6>2. Position(d, out[c][i].n)' = Position(d, out[c][i].n)
              BY <3>12, <5>1, <6>1
            <6>3. PICK k \in Position(d, out[c][i].n) :
                     s < k /\ L[k].from # c /\ k <= t
              BY <3>12, <5>1, <6>1
            <6>4. k \in Nat
              BY <1>6, <1>11, <6>3 DEF Position
            <6>5. k <= t + 1
              BY <6>3, <6>4
            <6>. QED
              BY <1>6, <1>7, <2>2, <6>2, <6>3, <6>5
          <5>2. CASE i = Len(O) + 1
            <6>1. s < t + 1 /\ L[t + 1].from # c /\ t + 1 <= t + 1
              BY <1>8, <1>10, <2>6
            <6>. QED
              BY <1>6, <1>7, <2>2, <3>13, <5>2, <6>1
          <5>. QED
            BY <3>9, <5>1, <5>2
        <4>4. ASSUME NEW i \in RoomFrames(c, d)', NEW j \in RoomFrames(c, d)', i < j,
                     out'[c][i].kind # "SNAPSHOT"
              PROVE  \A k \in Position(d, out[c][i].n)', l \in Position(d, out[c][j].n)' : k < l
          <5>1. i \in RoomFrames(c, d) /\ out[c][i].kind # "SNAPSHOT"
            BY <3>9, <4>1, <4>4
          <5>2. CASE j = Len(O) + 1
            BY <3>12, <3>13, <5>1, <5>2
          <5>3. CASE j \in RoomFrames(c, d)
            <6>1. /\ out[c][j].kind # "SNAPSHOT"
                  /\ \A k \in Position(d, out[c][i].n), l \in Position(d, out[c][j].n) : k < l
              BY <1>1, <4>4, <5>1, <5>3 DEF Delivered
            <6>. QED
              BY <3>12, <5>1, <5>3, <6>1
          <5>. QED
            BY <3>9, <5>2, <5>3
        <4>. QED
          BY <4>1, <4>2, <4>3, <4>4 DEF Delivered
      <3>. QED
        BY <2>3, <3>6, <3>7, <3>8, <3>14 DEF Rooms
    <2>. QED
      BY <2>5, <2>6
  <1>13. CASE ~open[c] /\ fwd' = [fwd EXCEPT ![c] = @ \ {d}]
              /\ rx' = [rx EXCEPT ![c][d] = NoRx] /\ out' = out
    <2>1. NoneTold
      BY <1>13, NothingSent DEF IInv
    <2>2. RoomsTyped'
      BY <1>1, <1>2, <1>13 DEF RoomsTyped
    <2>3. ASSUME NEW k \in Conns, NEW e \in Docs, k # c \/ e # d
          PROVE  (Tails(k, e) /\ Admitted(k, e) /\ Delivered(k, e))'
      <3>1. rx'[k][e] = rx[k][e] /\ (e \in fwd[k])' = (e \in fwd[k])
        BY <1>1, <1>13, <2>3 DEF RoomsTyped
      <3>. QED
        BY <1>1, <1>2, <1>13, <2>1, <3>1, RoomKept DEF Rooms, NoneTold
    <2>4. (Tails(c, d) /\ Admitted(c, d) /\ Delivered(c, d))'
      <3>1. rx'[c][d] = NoRx /\ d \notin fwd'[c] /\ SameFrames(c, d)
        BY <1>1, <1>13, <2>1 DEF RoomsTyped, NoneTold
      <3>2. Tails(c, d)' /\ Admitted(c, d)'
        BY <1>1, <1>2, <1>13, <3>1 DEF Tails, Admitted, SameFrames
      <3>3. ASSUME NEW i \in RoomFrames(c, d)
            PROVE  Position(d, out[c][i].n)' = Position(d, out[c][i].n)
        BY <1>2, <1>13 DEF Position
      <3>4. RoomFrames(c, d)' = RoomFrames(c, d)
        BY <3>1 DEF SameFrames
      <3>. HIDE DEF RoomFrames, Position
      <3>5. Delivered(c, d)'
        BY <1>1, <1>2, <1>13, <3>1, <3>3, <3>4 DEF Delivered
      <3>. QED
        BY <3>2, <3>5
    <2>. QED
      BY <2>2, <2>3, <2>4 DEF Rooms
  <1>. QED
    BY <1>3, <1>5, <1>12, <1>13 DEF Forward

LEMMA RoomsStep ==
  ASSUME IInv, [Next]_vars
  PROVE  RoomsTyped' /\ Rooms'
  <1>1. ASSUME NoneTold, UNCHANGED <<rx, fwd, log, joined>>,
               \A k \in Conns : open'[k] => open[k]
        PROVE  RoomsTyped' /\ Rooms'
    <2>1. RoomsTyped'
      BY <1>1, RoomFacts DEF RoomsTyped, NoneTold
    <2>2. Rooms'
      BY <1>1, RoomFacts, RoomKept DEF Rooms, NoneTold
    <2>. QED
      BY <2>1, <2>2
  <1>2. CASE RevokeStep \/ UNCHANGED vars
    BY <1>1, <1>2, NothingSent DEF IInv, RevokeStep, vars, hist
  <1>3. ASSUME NEW c \in Conns, Aside(c)
        PROVE  RoomsTyped' /\ Rooms'
    BY <1>1, <1>3, AsideStep DEF IInv
  <1>. QED
    BY <1>2, <1>3, SubscribeRooms, SendSnapshotRooms, BroadcastRooms, ForwardRooms
       DEF Next, Handle, Aside

---------------------------------------------------------------------------
(* What a handler holds. *)

(* A task touches its own connection only, and of the others the receivers *)
(* it pushes to.                                                           *)
LEMMA OthersKept ==
  ASSUME IInv, NEW c \in Conns, NEW k \in Conns, k # c,
         \/ Hello(c) \/ Receive(c) \/ ClientClose(c) \/ Handle(c)
         \/ \E d \in Docs : Forward(c, d)
  PROVE  /\ pc'[k] = pc[k] /\ msg'[k] = msg[k] /\ fwd'[k] = fwd[k] /\ out'[k] = out[k]
         /\ \A e \in Docs : rx[k][e] # NoRx => rx'[k][e] # NoRx
  <1>0. /\ pc = [b \in Conns |-> pc[b]] /\ msg \in [Conns -> Msg]
        /\ fwd \in [Conns -> SUBSET Docs] /\ RoomsTyped
    BY RoomFacts DEF IInv, Shapes, TypeOK
  <1>1. CASE Hello(c) \/ Receive(c) \/ ClientClose(c)
    BY <1>0, <1>1 DEF Hello, Receive, ClientClose, Goto
  <1>2. CASE CheckHello(c) \/ EndOfStream(c) \/ Check(c)
    BY <1>0, <1>2 DEF CheckHello, EndOfStream, Check, Goto, Refuse, Return, Resume, Send,
                      RoomsTyped
  <1>3. CASE LoadSnapshot(c) \/ Truncate(c) \/ Save(c)
    BY <1>0, <1>3 DEF LoadSnapshot, Truncate, Save, Goto, Resume
  <1>4. CASE SubscribeRoom(c)
    BY <1>0, <1>4 DEF SubscribeRoom, Goto, RoomsTyped
  <1>5. CASE SendSnapshot(c)
    BY <1>0, <1>5 DEF SendSnapshot, Goto, Return, Resume, Send, RoomsTyped
  <1>6. CASE Broadcast(c)
    <2>1. pc'[k] = pc[k] /\ msg'[k] = msg[k] /\ fwd'[k] = fwd[k] /\ out'[k] = out[k]
      BY <1>0, <1>6 DEF Broadcast, Goto, Resume
    <2>2. ASSUME NEW e \in Docs, rx[k][e] # NoRx
          PROVE  rx'[k][e] # NoRx
      <3>1. PICK m \in Msg : rx' = [b \in Conns |-> [rx[b] EXCEPT ![m.doc] = Push(@, m)]]
        BY <1>0, <1>6 DEF Broadcast
      <3>2. rx[k][e] \in Seq(Msg) \cup {NoRx} /\ Len(rx[k][e]) <= Capacity
        BY <1>0, <2>2 DEF RoomsTyped
      <3>3. rx'[k][e] = rx[k][e] \/ rx'[k][e] = Push(rx[k][e], m)
        BY <1>0, <3>1 DEF RoomsTyped
      <3>4. PushedTo(rx[k][e], Push(rx[k][e], m), m)
        BY <3>2, Pushed
      <3>. QED
        BY <2>2, <3>3, <3>4 DEF PushedTo
    <2>. QED
      BY <2>1, <2>2
  <1>7. ASSUME NEW d \in Docs, Forward(c, d)
        PROVE  /\ pc'[k] = pc[k] /\ msg'[k] = msg[k] /\ fwd'[k] = fwd[k] /\ out'[k] = out[k]
               /\ \A e \in Docs : rx[k][e] # NoRx => rx'[k][e] # NoRx
    BY <1>0, <1>7 DEF Forward, RoomsTyped
  <1>. QED
    BY <1>1, <1>2, <1>3, <1>4, <1>5, <1>6, <1>7 DEF Handle

(* The frame in a handler's hands stays checked and, if it subscribes,     *)
(* stays the first of its room.                                            *)
LEMMA HandlerKept ==
  ASSUME IInv, NEW k \in Conns, pc'[k] = pc[k], msg'[k] = msg[k],
         \A e \in Docs : e = msg[k].doc /\ e \notin fwd[k] =>
           /\ e \notin fwd'[k] /\ RoomFrames(k, e)' = RoomFrames(k, e)
           /\ rx[k][e] # NoRx => rx'[k][e] # NoRx
  PROVE  Session(k)' /\ Joining(k)'
  <1>1. Session(k) /\ Joining(k)
    BY DEF IInv
  <1>2. Session(k)'
    BY <1>1 DEF Session, Handling
  <1>3. ASSUME pc[k] \in Handling \cup {"check", "checkIds"}, msg[k].kind = "SUBSCRIBE"
        PROVE  /\ msg[k].doc \in Docs
               /\ msg[k].doc \notin fwd'[k] /\ RoomFrames(k, msg[k].doc)' = {}
               /\ rx[k][msg[k].doc] # NoRx => rx'[k][msg[k].doc] # NoRx
    <2>1. PICK e \in Docs : e = msg[k].doc
      BY <1>1, <1>3 DEF Joining
    <2>2. RoomFrames(k, e)' = {} /\ e = msg'[k].doc
      BY <1>1, <1>3, <2>1 DEF Joining
    <2>3. RoomFrames(k, msg[k].doc)' = RoomFrames(k, e)'
      BY <2>1, <2>2 DEF RoomFrames
    <2>. QED
      BY <1>1, <1>3, <2>1, <2>2, <2>3 DEF Joining
  <1>4. pc[k] \in {"load", "sendSnapshot"} => msg[k].kind = "SUBSCRIBE" /\ pc[k] \in Handling
    BY <1>1 DEF Session, Handling
  <1>. HIDE DEF RoomFrames
  <1>5. Joining(k)'
    BY <1>1, <1>3, <1>4 DEF Joining, Handling
  <1>. QED
    BY <1>2, <1>5

LEMMA HandlersStep ==
  ASSUME IInv, [Next]_vars, NEW k \in Conns
  PROVE  Session(k)' /\ Joining(k)'
  <1>0. /\ pc = [b \in Conns |-> pc[b]] /\ msg \in [Conns -> Msg]
        /\ fwd \in [Conns -> SUBSET Docs] /\ RoomsTyped /\ Session(k) /\ Joining(k)
    BY RoomFacts DEF IInv, Shapes, TypeOK
  <1>1. CASE RevokeStep \/ UNCHANGED vars
    BY <1>1, HandlerKept DEF RevokeStep, vars, RoomFrames
  <1>2. ASSUME NEW c \in Conns, c # k,
               \/ Hello(c) \/ Receive(c) \/ ClientClose(c) \/ Handle(c)
               \/ \E d \in Docs : Forward(c, d)
        PROVE  Session(k)' /\ Joining(k)'
    <2>1. /\ pc'[k] = pc[k] /\ msg'[k] = msg[k] /\ fwd'[k] = fwd[k] /\ out'[k] = out[k]
          /\ \A e \in Docs : rx[k][e] # NoRx => rx'[k][e] # NoRx
      BY <1>2, OthersKept
    <2>2. \A e \in Docs : RoomFrames(k, e)' = RoomFrames(k, e)
      BY <2>1 DEF RoomFrames
    <2>. QED
      BY <2>1, <2>2, HandlerKept
  <1>3. CASE ClientClose(k)
    BY <1>3, HandlerKept DEF ClientClose, RoomFrames
  <1>4. ASSUME NEW d \in Docs, Forward(k, d)
        PROVE  Session(k)' /\ Joining(k)'
    <2>1. d \in fwd[k] /\ pc'[k] = pc[k] /\ msg'[k] = msg[k]
      BY <1>4 DEF Forward
    <2>2. ASSUME NEW e \in Docs, e \notin fwd[k]
          PROVE  /\ e \notin fwd'[k] /\ RoomFrames(k, e)' = RoomFrames(k, e)
                 /\ rx'[k][e] = rx[k][e]
      <3>1. e # d /\ e \notin fwd'[k] /\ rx'[k][e] = rx[k][e]
        BY <1>0, <1>4, <2>1, <2>2 DEF Forward, RoomsTyped
      <3>2. PICK f : f.doc = d /\ (out'[k] = out[k] \/ out'[k] = Append(out[k], f))
        <4>1. \A kind, n : Frame(kind, d, n).doc = d
          BY DEF Frame
        <4>2. PICK m : m = Head(rx[k][d])
          OBVIOUS
        <4>3. \/ out' = out
              \/ out' = [out EXCEPT ![k] = Append(@, Frame(m.kind, d, m.n))]
          BY <1>4, <4>2 DEF Forward
        <4>4. \/ out'[k] = out[k]
              \/ out'[k] = Append(out[k], Frame(m.kind, d, m.n))
          BY <1>0, <4>3 DEF RoomsTyped
        <4>5. PICK f : f = Frame(m.kind, d, m.n) /\ f.doc = d
          BY <4>1
        <4>. QED
          BY <4>4, <4>5
      <3>3. out[k] \in Seq(Replies \cup Errors)
        BY <1>0 DEF RoomsTyped
      <3>. QED
        BY <3>1, <3>2, <3>3 DEF RoomFrames
    <2>. QED
      BY <2>1, <2>2, HandlerKept
  <1>5. CASE Hello(k) \/ CheckHello(k) \/ EndOfStream(k)
    <2>1. /\ pc'[k] \in {"helloNames", "helloIds", "done", "loop"}
          /\ pc'[k] = "loop" => Who[k] \in HasToken
      BY <1>0, <1>5 DEF Hello, CheckHello, EndOfStream, Goto, Refuse, Return
    <2>. QED
      BY <2>1 DEF Session, Joining, Handling
  <1>6. CASE Receive(k)
    <2>1. /\ pc'[k] = "check" /\ pc[k] = "loop" /\ msg'[k].kind \in Kinds
          /\ msg'[k].kind = "SUBSCRIBE" => /\ msg'[k].doc \in Docs
                                           /\ rx[k][msg'[k].doc] = NoRx
          /\ open[k] /\ UNCHANGED <<out, fwd>>
      BY <1>0, <1>6 DEF Receive, Goto
    <2>2. Session(k)'
      BY <1>0, <2>1 DEF Session, Handling
    <2>3. ASSUME msg'[k].kind = "SUBSCRIBE"
          PROVE  msg'[k].doc \notin fwd'[k] /\ RoomFrames(k, msg[k].doc)' = {}
      <3>1. PICK e \in Docs : e = msg'[k].doc
        BY <2>1, <2>3
      <3>2. Admitted(k, e)
        BY RoomFacts DEF Rooms
      <3>3. e \notin fwd[k] /\ RoomFrames(k, e) = {}
        BY <2>1, <2>3, <3>1, <3>2 DEF Admitted
      <3>4. RoomFrames(k, msg[k].doc)' = RoomFrames(k, e)
        BY <2>1, <3>1 DEF RoomFrames
      <3>. QED
        BY <2>1, <3>1, <3>3, <3>4
    <2>. HIDE DEF RoomFrames
    <2>4. Joining(k)'
      BY <2>1, <2>3 DEF Joining, Handling
    <2>. QED
      BY <2>2, <2>4
  <1>7. CASE Check(k)
    <2>1. CASE pc'[k] \in {"done", "loop"}
      BY <1>0, <1>7, <2>1 DEF Check, Session, Joining, Handling
    <2>2. CASE /\ Authorized(k, msg[k].doc) /\ pc'[k] = Route(msg[k].kind)
               /\ UNCHANGED <<out, msg>> /\ pc[k] = "checkIds"
      <3>1. /\ msg'[k] = msg[k] /\ pc[k] = "checkIds" /\ msg[k].kind \in Kinds
            /\ msg[k].doc \in Docs /\ msg[k].doc \in Rights[Who[k]] /\ Who[k] \in HasToken
        BY <1>0, <1>7, <2>2 DEF Check, Authorized, Session, Handling
      <3>2. /\ pc'[k] \in {"subscribe", "truncate", "broadcast"}
            /\ pc'[k] = "subscribe" <=> msg[k].kind = "SUBSCRIBE"
            /\ pc'[k] = "broadcast" => msg[k].kind \in {"UPDATE", "NOTIFY"}
        BY <2>2, <3>1 DEF Route, Kinds, Durable, Ephemeral
      <3>3. Session(k)'
        BY <3>1, <3>2 DEF Session, Handling
      <3>4. RoomFrames(k, msg[k].doc)' = RoomFrames(k, msg[k].doc) /\ fwd' = fwd
        BY <1>7, <2>2 DEF Check, RoomFrames
      <3>. HIDE DEF RoomFrames
      <3>5. Joining(k)'
        BY <1>0, <3>1, <3>2, <3>4 DEF Joining, Handling
      <3>. QED
        BY <3>3, <3>5
    <2>3. CASE pc[k] = "check" /\ pc'[k] = "checkIds" /\ UNCHANGED <<out, msg>>
      <3>1. RoomFrames(k, msg[k].doc)' = RoomFrames(k, msg[k].doc) /\ fwd' = fwd
        BY <1>7, <2>3 DEF Check, RoomFrames
      <3>. HIDE DEF RoomFrames
      <3>2. Session(k)' /\ Joining(k)'
        BY <1>0, <2>3, <3>1 DEF Session, Joining, Handling
      <3>. QED
        BY <3>2
    <2>. QED
      BY <1>0, <1>7, <2>1, <2>2, <2>3 DEF Check, Goto, Refuse, Return, Resume
  <1>8. CASE SubscribeRoom(k) \/ LoadSnapshot(k) \/ Truncate(k)
    <2>1. /\ UNCHANGED <<msg, fwd, out>>
          /\ <<pc[k], pc'[k]>> \in {<<"subscribe", "load">>, <<"load", "sendSnapshot">>,
                                    <<"truncate", "save">>}
          /\ msg[k].doc \in Docs
      BY <1>0, <1>8 DEF SubscribeRoom, LoadSnapshot, Truncate, Goto, Session, Handling
    <2>2. Session(k)'
      BY <1>0, <2>1 DEF Session, Handling
    <2>3. RoomFrames(k, msg[k].doc)' = RoomFrames(k, msg[k].doc)
      BY <2>1 DEF RoomFrames
    <2>4. pc'[k] \in {"load", "sendSnapshot"} => rx'[k][msg[k].doc] # NoRx
      BY <1>0, <1>8, <2>1, RoomFacts DEF SubscribeRoom, LoadSnapshot, Truncate, Joining, RoomsTyped
    <2>. HIDE DEF RoomFrames
    <2>5. Joining(k)'
      BY <1>0, <2>1, <2>3, <2>4 DEF Joining, Handling
    <2>. QED
      BY <2>2, <2>5
  <1>9. CASE SendSnapshot(k) \/ Save(k)
    <2>1. pc'[k] \in {"loop", "done"} /\ Who[k] \in HasToken
      BY <1>0, <1>9 DEF SendSnapshot, Save, Goto, Return, Resume, Session, Handling
    <2>. QED
      BY <2>1 DEF Session, Joining, Handling
  <1>10. CASE Broadcast(k)
    <2>1. /\ pc[k] = "broadcast" /\ Who[k] \in HasToken /\ msg[k].kind \in {"UPDATE", "NOTIFY"}
          /\ msg[k].doc \in Docs /\ msg[k].doc \in Rights[Who[k]]
      BY <1>0, <1>10 DEF Broadcast, Session, Handling
    <2>2. pc'[k] = "loop" \/ (pc'[k] = "truncate" /\ msg'[k] = msg[k])
      BY <1>0, <1>10 DEF Broadcast, Goto, Resume
    <2>. QED
      BY <2>1, <2>2 DEF Session, Joining, Handling, Kinds, Durable, Ephemeral
  <1>. QED
    BY <1>1, <1>2, <1>3, <1>4, <1>5, <1>6, <1>7, <1>8, <1>9, <1>10 DEF Next, Handle

---------------------------------------------------------------------------
(* Frames have numbers of their own. *)
Waiting(c) == pc[c] \in {"check", "checkIds", "broadcast"}

LEMMA NumbersKept ==
  ASSUME Numbered, log' = log, frames' = frames,
         \A c \in Conns : Waiting(c)' => Waiting(c) /\ msg'[c] = msg[c]
  PROVE  Numbered'
  BY DEF Numbered, Waiting

LEMMA NumberedStep ==
  ASSUME IInv, [Next]_vars
  PROVE  Numbered'
  <1>0. /\ pc = [b \in Conns |-> pc[b]] /\ msg \in [Conns -> Msg] /\ Numbered
        /\ frames \in Nat /\ log \in [Docs -> Seq(Msg)]
    BY RelayAssumption DEF IInv, Shapes, TypeOK
  <1>1. CASE RevokeStep \/ UNCHANGED vars
    BY <1>0, <1>1, NumbersKept DEF RevokeStep, vars, hist, Waiting
  <1>2. ASSUME NEW c \in Conns, Hello(c) \/ ClientClose(c) \/ CheckHello(c) \/ EndOfStream(c)
        PROVE  Numbered'
    <2>1. log' = log /\ frames' = frames
      BY <1>2 DEF Hello, ClientClose, CheckHello, EndOfStream, hist
    <2>2. \A k \in Conns : Waiting(k)' => Waiting(k) /\ msg'[k] = msg[k]
      BY <1>0, <1>2 DEF Hello, ClientClose, CheckHello, EndOfStream, Goto, Refuse, Return, Waiting
    <2>. QED
      BY <1>0, <2>1, <2>2, NumbersKept
  <1>3. ASSUME NEW c \in Conns, Check(c)
        PROVE  Numbered'
    <2>1. log' = log /\ frames' = frames
      BY <1>3 DEF Check, hist
    <2>2. \A k \in Conns : Waiting(k)' => Waiting(k) /\ msg'[k] = msg[k]
      BY <1>0, <1>3 DEF Check, Goto, Refuse, Return, Resume, Waiting
    <2>. QED
      BY <1>0, <2>1, <2>2, NumbersKept
  <1>4. ASSUME NEW c \in Conns,
               SubscribeRoom(c) \/ LoadSnapshot(c) \/ SendSnapshot(c) \/ Truncate(c) \/ Save(c)
        PROVE  Numbered'
    <2>1. log' = log /\ frames' = frames
      BY <1>4 DEF SubscribeRoom, LoadSnapshot, SendSnapshot, Truncate, Save, hist
    <2>2. \A k \in Conns : Waiting(k)' => Waiting(k) /\ msg'[k] = msg[k]
      BY <1>0, <1>4 DEF SubscribeRoom, LoadSnapshot, SendSnapshot, Truncate, Save, Goto, Return,
                        Resume, Waiting
    <2>. QED
      BY <1>0, <2>1, <2>2, NumbersKept
  <1>5. ASSUME NEW c \in Conns, NEW d \in Docs, Forward(c, d)
        PROVE  Numbered'
    BY <1>0, <1>5, NumbersKept DEF Forward, hist, Waiting
  <1>6. ASSUME NEW c \in Conns, Receive(c)
        PROVE  Numbered'
    <2>1. /\ log' = log /\ frames' = frames + 1 /\ msg'[c].n = frames + 1
          /\ \A k \in Conns \ {c} : pc'[k] = pc[k] /\ msg'[k] = msg[k]
      BY <1>0, <1>6 DEF Receive, Goto, hist
    <2>2. \A n \in 1..frames : n \in 1..frames' /\ n # frames + 1
      BY <1>0, <2>1
    <2>3. frames + 1 \in 1..frames'
      BY <1>0, <2>1
    <2>4. \A d \in Docs : \A k \in DOMAIN log'[d] :
            /\ log'[d][k].kind \in {"UPDATE", "NOTIFY"} /\ log'[d][k].n \in 1..frames
            /\ \A l \in DOMAIN log'[d] : log'[d][l].n = log'[d][k].n => l = k
      BY <1>0, <2>1 DEF Numbered
    <2>5. ASSUME NEW k \in Conns, Waiting(k)', k # c
          PROVE  /\ msg'[k].n \in 1..frames
                 /\ \A d \in Docs : \A i \in DOMAIN log'[d] : log'[d][i].n # msg'[k].n
                 /\ \A b \in Conns : b # c /\ Waiting(b)' /\ msg'[b].n = msg'[k].n => b = k
      BY <1>0, <2>1, <2>5 DEF Numbered, Waiting
    <2>6. \A d \in Docs : \A i \in DOMAIN log'[d] : log'[d][i].n # msg'[c].n
      BY <2>1, <2>2, <2>4
    <2>. QED
      BY <2>1, <2>2, <2>3, <2>4, <2>5, <2>6 DEF Numbered, Waiting
  <1>7. ASSUME NEW c \in Conns, Broadcast(c)
        PROVE  Numbered'
    <2>1. PICK m \in Msg : m = msg[c]
      BY <1>0
    <2>2. PICK d \in Docs : d = m.doc
      BY <1>7, <2>1 DEF Broadcast, IInv, Session, Handling
    <2>3. /\ log' = [log EXCEPT ![d] = Append(@, m)] /\ frames' = frames
          /\ m.kind \in {"UPDATE", "NOTIFY"} /\ Waiting(c)
      BY <1>7, <2>1, <2>2 DEF Broadcast, IInv, Session, Waiting
    <2>4. /\ ~Waiting(c)'
          /\ \A k \in Conns \ {c} : pc'[k] = pc[k] /\ msg'[k] = msg[k]
      BY <1>0, <1>7 DEF Broadcast, Goto, Resume, Waiting
    <2>5. /\ m.n \in 1..frames
          /\ \A e \in Docs : \A k \in DOMAIN log[e] : log[e][k].n # m.n
          /\ \A k \in Conns \ {c} : Waiting(k) => msg[k].n # m.n
      BY <1>0, <2>1, <2>3 DEF Numbered, Waiting
    <2>6. /\ \A e \in Docs \ {d} : log'[e] = log[e]
          /\ DOMAIN log[d] = 1..Len(log[d]) /\ Len(log[d]) \in Nat
          /\ DOMAIN log'[d] = 1..(Len(log[d]) + 1)
          /\ \A i \in 1..Len(log[d]) : log'[d][i] = log[d][i]
          /\ log'[d][Len(log[d]) + 1] = m
      <3>1. log'[d] = Append(log[d], m) /\ log[d] \in Seq(Msg)
        BY <1>0, <2>3
      <3>2. /\ Append(log[d], m) \in Seq(Msg) /\ Len(log[d]) \in Nat
            /\ Len(Append(log[d], m)) = Len(log[d]) + 1
            /\ \A i \in 1..Len(log[d]) : Append(log[d], m)[i] = log[d][i]
            /\ Append(log[d], m)[Len(log[d]) + 1] = m
        BY <3>1, Appended
      <3>. QED
        BY <1>0, <2>3, <3>1, <3>2
    <2>7. \A i \in DOMAIN log'[d] : \/ i \in DOMAIN log[d] /\ log'[d][i] = log[d][i]
                                    \/ i = Len(log[d]) + 1 /\ log'[d][i] = m
      BY <2>6
    <2>8. ASSUME NEW e \in Docs, NEW k \in DOMAIN log'[e]
          PROVE  /\ log'[e][k].kind \in {"UPDATE", "NOTIFY"} /\ log'[e][k].n \in 1..frames
                 /\ \A l \in DOMAIN log'[e] : log'[e][l].n = log'[e][k].n => l = k
                 /\ \A b \in Conns \ {c} : Waiting(b) => msg[b].n # log'[e][k].n
      <3>1. CASE e = d
        BY <1>0, <2>3, <2>5, <2>7, <2>8, <3>1 DEF Numbered, Waiting
      <3>2. CASE e # d
        BY <1>0, <2>6, <2>8, <3>2 DEF Numbered, Waiting
      <3>. QED
        BY <3>1, <3>2
    <2>9. ASSUME NEW k \in Conns, Waiting(k)'
          PROVE  /\ k # c /\ msg'[k].n \in 1..frames /\ Waiting(k) /\ msg'[k] = msg[k]
                 /\ \A b \in Conns : Waiting(b)' /\ msg'[b].n = msg'[k].n => b = k
      BY <1>0, <2>4, <2>9 DEF Numbered, Waiting
    <2>. QED
      BY <2>3, <2>8, <2>9 DEF Numbered, Waiting
  <1>. QED
    BY <1>1, <1>2, <1>3, <1>4, <1>5, <1>6, <1>7 DEF Next, Handle

---------------------------------------------------------------------------
(* The invariant. *)

LEMMA ListsTyped ==
  ASSUME IInv, [Next]_vars
  PROVE  /\ names' \subseteq Principals /\ ids' \subseteq Principals
         /\ ctl' \in [step : {"idle", "writeNames", "truncIds", "writeIds"},
                      who : Principals \cup {"none"}, list : SUBSET Principals]
  <1>0. /\ names \subseteq Principals /\ ids \subseteq Principals
        /\ ctl \in [step : {"idle", "writeNames", "truncIds", "writeIds"},
                    who : Principals \cup {"none"}, list : SUBSET Principals]
        /\ ctl.step # "idle" => ctl.who \in Principals
    BY RelayAssumption DEF IInv, Shapes, TypeOK, Lists
  <1>1. CASE RevokeStep
    <2>1. CASE \E p \in Principals :
                 /\ ctl' = [step |-> "writeNames", who |-> p, list |-> names \cup {p}]
                 /\ names' = {} /\ ids' = ids
      BY <1>0, <2>1
    <2>2. CASE ctl' = [ctl EXCEPT !.step = "truncIds"] /\ names' = ctl.list /\ ids' = ids
      BY <1>0, <2>2
    <2>3. CASE /\ ctl.step = "truncIds" /\ ids' = {} /\ names' = names
               /\ ctl' = [ctl EXCEPT !.step = "writeIds", !.list = ids \cup {ctl.who}]
      <3>1. ids \cup {ctl.who} \subseteq Principals
        BY <1>0, <2>3
      <3>. QED
        BY <1>0, <2>3, <3>1
    <2>4. CASE ctl' = NoList /\ ids' = ctl.list /\ names' = names
      BY <1>0, <2>4 DEF NoList
    <2>. QED
      BY <1>1, <2>1, <2>2, <2>3, <2>4 DEF RevokeStep, Revoke
  <1>2. CASE ~RevokeStep
    BY <1>0, <1>2, ListsKept DEF lists
  <1>. QED
    BY <1>1, <1>2

LEMMA ShapesStep ==
  ASSUME IInv, [Next]_vars
  PROVE  Shapes'
  <1>1. Shapes
    BY DEF IInv
  <1>2. RoomsTyped'
    BY RoomsStep
  <1>3. /\ pc' \in [Conns -> {"new", "helloNames", "helloIds", "loop",
                              "check", "checkIds", "subscribe", "load", "sendSnapshot",
                              "broadcast", "truncate", "save", "done"}]
        /\ msg' \in [Conns -> Msg] /\ frames' \in 0..MaxFrames
    BY <1>1, HandlersTyped
  <1>4. /\ snap' \in [Conns -> 0..MaxFrames] /\ store' \in [Docs -> 0..MaxFrames]
        /\ fwd' \in [Conns -> SUBSET Docs] /\ open' \in [Conns -> BOOLEAN]
        /\ late' \in [Conns -> Nat] /\ others' \in [Conns -> Nat]
    BY RestTyped
  <1>5. /\ names' \subseteq Principals /\ ids' \subseteq Principals
        /\ ctl' \in [step : {"idle", "writeNames", "truncIds", "writeIds"},
                     who : Principals \cup {"none"}, list : SUBSET Principals]
    BY ListsTyped
  <1>6. \A c \in Conns, d \in Docs :
          rx'[c][d] # NoRx => rx'[c][d] \in Seq(Msg) /\ Len(rx'[c][d]) <= Capacity
    BY <1>2 DEF RoomsTyped
  <1>. QED
    BY <1>2, <1>3, <1>4, <1>5, <1>6 DEF Shapes, TypeOK, RoomsTyped

LEMMA Initially ==
  ASSUME Init
  PROVE  IInv
  <1>1. MaxFrames \in Nat /\ << >> \in Seq(Msg) /\ << >> \in Seq(Replies \cup Errors)
    BY RelayAssumption
  <1>2. NoMsg \in Msg /\ 0 \in 0..MaxFrames
    BY <1>1 DEF NoMsg, Msg
  <1>3. TypeOK
    BY <1>1, <1>2 DEF Init, TypeOK
  <1>4. Shapes
    BY <1>1, <1>3 DEF Init, Shapes, NoList
  <1>5. Lists /\ LastWrite
    <2>1. \A c \in Conns : late[c] = 0 /\ others[c] = 0 /\ pc[c] = "new"
      BY DEF Init
    <2>2. ctl.step = "idle"
      BY DEF Init, NoList
    <2>. QED
      BY <2>1, <2>2 DEF Init, Lists, LastWrite, Window, Handling
  <1>6. Numbered
    BY DEF Init, Numbered
  <1>7. ASSUME NEW c \in Conns
        PROVE  Session(c) /\ Joining(c)
    BY DEF Init, Session, Joining, Handling
  <1>8. ASSUME NEW c \in Conns, NEW d \in Docs
        PROVE  Tails(c, d) /\ Admitted(c, d) /\ Delivered(c, d)
    <2>1. rx[c][d] = NoRx /\ d \notin fwd[c] /\ joined[c][d] = 0 /\ Len(log[d]) = 0
      BY DEF Init
    <2>2. RoomFrames(c, d) = {}
      BY DEF Init, RoomFrames
    <2>. HIDE DEF RoomFrames
    <2>. QED
      BY <2>1, <2>2 DEF Tails, Admitted, Delivered
  <1>. QED
    BY <1>4, <1>5, <1>6, <1>7, <1>8 DEF IInv

LEMMA Inductive ==
  ASSUME IInv, [Next]_vars
  PROVE  IInv'
  BY ShapesStep, ListsStep, LastWriteStep, NumberedStep, HandlersStep, RoomsStep
     DEF IInv, Rooms

THEOREM Invariance == Spec => []IInv
  BY Initially, Inductive, PTL DEF Spec

---------------------------------------------------------------------------
(* The state of the relay always has its shape: no handler is without its  *)
(* frame and no receiver holds more than the channel keeps.                *)
THEOREM TypeCorrect == Spec => []TypeOK
  <1>1. IInv => TypeOK
    BY DEF IInv, Shapes
  <1>. QED
    BY <1>1, Invariance, PTL

(* What a client is sent of a room is a snapshot and then the room's       *)
(* broadcasts in their order, without gaps it could see, repetitions or    *)
(* its own (server.rs, run and broadcast).                                 *)
THEOREM Ordered == Spec => []FramesInOrder
  <1>1. ASSUME IInv
        PROVE  FramesInOrder
    <2>. SUFFICES ASSUME NEW c \in Conns, NEW d \in Docs,
                         NEW i \in RoomFrames(c, d), NEW j \in RoomFrames(c, d)
                  PROVE  /\ i < j => out[c][j].kind # "SNAPSHOT"
                         /\ out[c][i].kind # "SNAPSHOT" =>
                              /\ \E k \in RoomFrames(c, d) : out[c][k].kind = "SNAPSHOT"
                              /\ \E k \in Position(d, out[c][i].n) :
                                   /\ k > joined[c][d] /\ log[d][k].from # c
                                   /\ i < j => \A l \in Position(d, out[c][j].n) : k < l
      BY DEF FramesInOrder
    <2>1. Delivered(c, d) /\ joined[c][d] \in Nat /\ log[d] \in Seq(Msg)
      BY <1>1, RoomFacts DEF Rooms, RoomsTyped
    <2>2. \A n : \A k \in Position(d, n) : k \in Nat
      BY <2>1 DEF Position
    <2>. HIDE DEF RoomFrames, Position
    <2>3. i < j => out[c][j].kind # "SNAPSHOT"
      BY <2>1 DEF Delivered
    <2>4. ASSUME out[c][i].kind # "SNAPSHOT"
          PROVE  /\ \E k \in RoomFrames(c, d) : out[c][k].kind = "SNAPSHOT"
                 /\ \E k \in Position(d, out[c][i].n) :
                      /\ k > joined[c][d] /\ log[d][k].from # c
                      /\ i < j => \A l \in Position(d, out[c][j].n) : k < l
      BY <2>1, <2>2, <2>4 DEF Delivered
    <2>. QED
      BY <2>3, <2>4
  <1>. QED
    BY <1>1, Invariance, PTL

(* Once a revocation is in force, a session persists at most the frame it  *)
(* had checked before, and one for each revocation that begins later: to   *)
(* pass a check it must read each list while that is empty (server.rs, the *)
(* two reads per frame; controlplane/mod.rs, the two rewrites).            *)
THEOREM Bounded == Spec => []RevocationBoundsWrites
  <1>1. IInv => RevocationBoundsWrites
    BY DEF IInv, Shapes, TypeOK, LastWrite, RevocationBoundsWrites
  <1>. QED
    BY <1>1, Invariance, PTL

(* Nothing of a room is queued for, or sent to, a session whose token does *)
(* not cover it (server.rs, doc_authorized).                               *)
THEOREM Confined == Spec => []OnlyAuthorizedRooms
  <1>1. IInv => OnlyAuthorizedRooms
    BY DEF IInv, Admitted, OnlyAuthorizedRooms
  <1>. QED
    BY <1>1, Invariance, PTL
=============================================================================
