--------------------------- MODULE RoomSyncProofs ---------------------------
(***************************************************************************)
(* The browser transport, for any tabs, browsers, deployments, edits,      *)
(* drops, refusals, closed and crashed tabs: it implements the shared      *)
(* document; a browser's only tab never loses an edit it had time to save; *)
(* full logs heal what a browser's tabs missed; and whoever is in a room   *)
(* knows all that those who joined later know.                             *)
(*                                                                         *)
(* The step of the refinement that takes an argument is learning: whatever *)
(* a tab imports was written by somebody, because everything on its way to *)
(* it was (Typed), unless it does not merge, and then nothing is imported. *)
(* That earlier tabs know more rests on the order of things on every       *)
(* connection (Talk) and on what each tab is about to hear (Ahead).        *)
(***************************************************************************)
EXTENDS RoomSync, SequenceTheorems, TLAPS

(* What somebody wrote, and what the tabs and the relay send. *)
Written == SUBSET (0..edits)
Stored == SUBSET ((0..edits) \cup {Poison})
ToRelay == [kind : {"SUBSCRIBE", "UPDATE"}, ops : Written]
ToTab == [kind : {"SNAPSHOT", "UPDATE", "ERROR"}, ops : Stored]

Links == {"none", "connecting", "open", "live", "closing", "waiting"}
Handlers == {"loop", "load", "save", "done"}

(* Nothing is shown, kept or sent that nobody wrote. *)
Typed ==
  /\ setup \in Setups
  /\ edits \in 0..setup.edits /\ faults \in 0..setup.faults
  /\ opened \subseteq setup.tabs
  /\ doc \in [Tabs -> Written] /\ local \in [Browsers -> Written]
  /\ dirty \in [Tabs -> BOOLEAN] /\ fatal \in [Tabs -> BOOLEAN]
  /\ chan \in [Tabs -> Seq(Written)]
  /\ link \in [Tabs -> Links] /\ conn \in [Tabs -> 0..DialLimit]
  /\ inbox \in [Conns -> Seq(ToRelay)] /\ outbox \in [Tabs -> Seq(ToTab)]
  /\ handler \in [Conns -> Handlers] /\ room \in Seq(Conns)
  /\ store \in Stored

(* A tab that is closed has no timer, no message and no connection. *)
Open(t) ==
  /\ chan[t] # << >> \/ dirty[t] \/ link[t] # "none" => t \in opened
  /\ dirty[t] => BrowserOf[t] \in Storage
  /\ link[t] # "none" => t \in Relayed /\ conn[t] >= 1

(* A connection after the first makes up for a fault. *)
Dialed(t) ==
  /\ conn[t] <= faults + 1
  /\ t \notin opened \/ link[t] = "waiting" => conn[t] <= faults
  /\ link[t] = "closing" => fatal[t]

(* The relay saves the frame it broadcast. *)
Saving == \A c \in Conns : handler[c] = "save" => inbox[c] # << >>

IInv ==
  /\ Typed
  /\ \A t \in Tabs : Open(t) /\ Dialed(t)
  /\ Saving

-----------------------------------------------------------------------------
(* What the assumptions say of a deployment. *)
LEMMA Deployment ==
  ASSUME setup \in Setups
  PROVE  /\ setup.tabs \subseteq Tabs /\ setup.relayed \subseteq Tabs
         /\ setup.edits \in Nat /\ setup.edits <= EditLimit
         /\ setup.faults \in Nat /\ EditLimit \in Nat /\ DialLimit \in Nat
         /\ setup.relayed # {} => setup.faults < DialLimit
         /\ Poison \notin Ops
  BY RoomSyncAssumption DEF RoomSyncAssumption

(* A closed socket leaves the room. *)
LEMMA Unsubscribed ==
  ASSUME NEW t \in Tabs, room \in Seq(Conns), Unsubscribe(t)
  PROVE  room' \in Seq(Conns)
<1>1. CASE UNCHANGED room
  BY <1>1
<1>2. ASSUME NEW i \in DOMAIN room, room' = RemoveAt(room, i)
      PROVE  room' \in Seq(Conns)
  <2>1. i \in 1..Len(room) /\ Len(room) \in Nat
    BY <1>2
  <2>2. SubSeq(room, 1, i - 1) \in Seq(Conns)
        /\ SubSeq(room, i + 1, Len(room)) \in Seq(Conns)
    BY <2>1
  <2> QED BY <1>2, <2>2 DEF RemoveAt
<1> QED BY <1>1, <1>2 DEF Unsubscribe

(* What is kept of a connection's frames is a prefix of them. *)
LEMMA Prefix ==
  ASSUME Typed, Saving, NEW t \in Tabs, KeepPrefix(t),
         HasSocket(t) => conn[t] \in Dials
  PROVE  /\ inbox' \in [Conns -> Seq(ToRelay)]
         /\ \A c \in Conns : handler[c] = "save" => inbox'[c] # << >>
<1>1. HasSocket(t) => Socket(t) \in Conns
  BY DEF Socket, Conns
<1>2. CASE inbox' = inbox
  BY <1>2 DEF Typed, Saving
<1>3. ASSUME HasSocket(t), NEW n \in 0..Len(inbox[Socket(t)]),
             handler[Socket(t)] = "save" => n > 0,
             inbox' = [inbox EXCEPT ![Socket(t)] = SubSeq(@, 1, n)]
      PROVE  /\ inbox' \in [Conns -> Seq(ToRelay)]
             /\ \A c \in Conns : handler[c] = "save" => inbox'[c] # << >>
  <2>1. inbox[Socket(t)] \in Seq(ToRelay)
    BY <1>1, <1>3 DEF Typed
  <2>2. SubSeq(inbox[Socket(t)], 1, n) \in Seq(ToRelay)
        /\ Len(SubSeq(inbox[Socket(t)], 1, n)) = n
    BY <2>1
  <2>3. inbox' \in [Conns -> Seq(ToRelay)]
    BY <1>3, <2>2 DEF Typed
  <2>4. ASSUME NEW c \in Conns, handler[c] = "save" PROVE inbox'[c] # << >>
    <3>1. CASE c = Socket(t)
      <4>1. inbox'[c] = SubSeq(inbox[c], 1, n) /\ n > 0
        BY <1>1, <1>3, <2>4, <3>1 DEF Typed
      <4>2. Len(inbox'[c]) > 0
        BY <2>2, <3>1, <4>1
      <4> QED BY <4>2
    <3>2. CASE c # Socket(t)
      BY <1>1, <1>3, <2>4, <3>2 DEF Typed, Saving
    <3> QED BY <3>1, <3>2
  <2> QED BY <2>3, <2>4
<1> QED BY <1>2, <1>3 DEF KeepPrefix

(* A full log goes to the tabs of the browser and to the relay. *)
LEMMA Published ==
  ASSUME NEW W, NEW t \in Tabs, NEW ops \in W, Publish(t, ops),
         chan \in [Tabs -> Seq(W)],
         inbox \in [Conns -> Seq([kind : {"SUBSCRIBE", "UPDATE"}, ops : W])],
         HasSocket(t) => conn[t] \in Dials
  PROVE  /\ chan' \in [Tabs -> Seq(W)]
         /\ inbox' \in [Conns -> Seq([kind : {"SUBSCRIBE", "UPDATE"}, ops : W])]
         /\ \A u \in Tabs : chan'[u] # << >> => chan[u] # << >> \/ u \in opened
         /\ \A c \in Conns : inbox[c] # << >> => inbox'[c] # << >>
<1>1. Frame("UPDATE", ops) \in [kind : {"SUBSCRIBE", "UPDATE"}, ops : W]
  BY DEF Frame
<1>2. \A u \in Tabs : Append(chan[u], ops) \in Seq(W)
  OBVIOUS
<1>3. chan' = [u \in Tabs |-> IF u \in Mates(t) THEN Append(chan[u], ops)
                              ELSE chan[u]]
  BY DEF Publish
<1>4. chan' \in [Tabs -> Seq(W)]
  BY <1>2, <1>3
<1>5. \A u \in Tabs : chan'[u] # << >> => chan[u] # << >> \/ u \in opened
  BY <1>3 DEF Mates
<1>6. CASE HasSocket(t)
  <2>1. Socket(t) \in Conns
    BY <1>6 DEF Socket, Conns
  <2>2. inbox' = [inbox EXCEPT ![Socket(t)] = Append(@, Frame("UPDATE", ops))]
    BY <1>6 DEF Publish
  <2>3. /\ Append(inbox[Socket(t)], Frame("UPDATE", ops))
             \in Seq([kind : {"SUBSCRIBE", "UPDATE"}, ops : W])
        /\ Append(inbox[Socket(t)], Frame("UPDATE", ops)) # << >>
    <3>1. inbox[Socket(t)] \in Seq([kind : {"SUBSCRIBE", "UPDATE"}, ops : W])
      BY <2>1
    <3>2. \A S : \A q \in Seq(S), e \in S :
            Append(q, e) \in Seq(S) /\ Append(q, e) # << >>
      BY AppendProperties
    <3> QED BY <1>1, <3>1, <3>2, Zenon
  <2> QED BY <1>4, <1>5, <2>1, <2>2, <2>3
<1>7. CASE ~HasSocket(t)
  <2>1. inbox' = inbox
    BY <1>7 DEF Publish
  <2> QED BY <1>4, <1>5, <2>1
<1> QED BY <1>6, <1>7
(* The same edits: the same documents and frames are possible.             *)
LEMMA SameFrames ==
  ASSUME edits' = edits
  PROVE  /\ Written' = Written /\ Stored' = Stored
         /\ ToRelay' = ToRelay /\ ToTab' = ToTab
  BY DEF Written, Stored, ToRelay, ToTab

(* A new socket is one more than the faults there were, at most.           *)
LEMMA Connecting ==
  ASSUME IInv, NEW t \in Tabs, NewSocket(t), t \in Relayed, conn[t] <= faults
  PROVE  /\ link' \in [Tabs -> Links] /\ conn' \in [Tabs -> 0..DialLimit]
         /\ outbox' \in [Tabs -> Seq(ToTab)]
         /\ conn'[t] = conn[t] + 1 /\ link'[t] = "connecting"
         /\ \A u \in Tabs \ {t} : conn'[u] = conn[u] /\ link'[u] = link[u]
<1>1. /\ setup.faults \in Nat /\ DialLimit \in Nat
      /\ setup.faults < DialLimit /\ faults \in 0..setup.faults
  BY Deployment DEF IInv, Typed, Relayed
<1>2. conn[t] \in Nat /\ conn[t] + 1 \in 0..DialLimit
  BY <1>1 DEF IInv, Typed
<1> QED BY <1>2 DEF IInv, Typed, NewSocket, Links

-----------------------------------------------------------------------------
(* Every action keeps the invariant. *)

LEMMA OpenTabStep ==
  ASSUME IInv, NEW t \in Tabs, OpenTab(t), UNCHANGED setup
  PROVE  IInv'
<1>1. edits' = edits
  BY DEF OpenTab
<1>2. t \notin opened /\ t \in setup.tabs /\ opened' = opened \cup {t}
  BY DEF OpenTab
<1>3. conn[t] <= faults /\ link[t] = "none"
  BY <1>2 DEF IInv, Open, Dialed
<1>4. doc' \in [Tabs -> Written]
  BY RoomSyncAssumption DEF OpenTab, IInv, Typed, RoomSyncAssumption
<1>5. CASE t \in Relayed /\ NewSocket(t)
  <2>1. Typed'
    BY <1>1, <1>2, <1>3, <1>4, <1>5, SameFrames, Connecting
       DEF OpenTab, IInv, Typed
  <2>2. ASSUME NEW u \in Tabs PROVE Open(u)' /\ Dialed(u)'
    <3>1. CASE u = t
      BY <1>2, <1>3, <1>5, <3>1, Connecting
         DEF OpenTab, IInv, Typed, Open, Dialed, Storage, Relayed
    <3>2. CASE u # t
      BY <1>2, <1>3, <1>5, <3>2, Connecting
         DEF OpenTab, IInv, Open, Dialed, Storage, Relayed
    <3> QED BY <3>1, <3>2
  <2> QED BY <2>1, <2>2 DEF IInv, Saving, OpenTab
<1>6. CASE UNCHANGED <<link, conn, outbox>>
  <2>1. Typed'
    BY <1>1, <1>2, <1>4, <1>6, SameFrames DEF OpenTab, IInv, Typed
  <2>2. ASSUME NEW u \in Tabs PROVE Open(u)' /\ Dialed(u)'
    BY <1>2, <1>3, <1>6 DEF OpenTab, IInv, Open, Dialed, Storage, Relayed
  <2> QED BY <2>1, <2>2 DEF IInv, Saving, OpenTab
<1> QED BY <1>5, <1>6 DEF OpenTab

LEMMA OnOpenStep ==
  ASSUME IInv, NEW t \in Tabs, OnOpen(t), UNCHANGED setup
  PROVE  IInv'
<1>1. edits' = edits
  BY DEF OnOpen
<1>2. link[t] = "connecting" /\ t \in opened /\ t \in Relayed /\ conn[t] >= 1
  BY DEF OnOpen, IInv, Open
<1>3. Socket(t) \in Conns
  BY <1>2 DEF Socket, Conns, Dials, IInv, Typed
<1>4. <<Frame("SUBSCRIBE", {})>> \in Seq(ToRelay)
      /\ <<Frame("SUBSCRIBE", {})>> # << >>
  BY DEF Frame, ToRelay, Written
<1>5. inbox' \in [Conns -> Seq(ToRelay)]
  BY <1>3, <1>4 DEF OnOpen, IInv, Typed
<1>6. link' \in [Tabs -> Links]
  BY DEF OnOpen, IInv, Typed, Links
<1>7. Typed'
  BY <1>1, <1>5, <1>6, SameFrames DEF OnOpen, IInv, Typed
<1>8. ASSUME NEW u \in Tabs PROVE Open(u)' /\ Dialed(u)'
  BY <1>2 DEF OnOpen, IInv, Typed, Open, Dialed, Storage, Relayed
<1>9. Saving'
  BY <1>3, <1>4 DEF OnOpen, IInv, Saving, Typed
<1> QED BY <1>7, <1>8, <1>9 DEF IInv

(* A document grows by one edit, and so does what may be anywhere.         *)
LEMMA EditStep ==
  ASSUME IInv, NEW t \in Tabs, Edit(t), UNCHANGED setup
  PROVE  IInv'
<1>1. edits \in Nat /\ edits' = edits + 1 /\ edits' \in 0..setup.edits
      /\ t \in opened
  BY Deployment DEF Edit, IInv, Typed
<1>2. Written \subseteq Written' /\ Stored \subseteq Stored'
  BY <1>1 DEF Written, Stored
<1>3. ToRelay \subseteq ToRelay' /\ ToTab \subseteq ToTab'
  BY <1>2 DEF ToRelay, ToTab
<1>4. /\ chan \in [Tabs -> Seq(Written')]
      /\ inbox \in [Conns -> Seq(ToRelay')]
      /\ outbox \in [Tabs -> Seq(ToTab')]
  BY <1>2, <1>3, SeqMonotonic DEF IInv, Typed
<1>5. doc[t] \cup {edits + 1} \in Written'
  BY <1>1 DEF IInv, Typed, Written
<1>6. HasSocket(t) => conn[t] \in Dials
  BY DEF HasSocket, IInv, Open, Typed, Dials
<1>7. ToRelay' = [kind : {"SUBSCRIBE", "UPDATE"}, ops : Written']
  BY DEF ToRelay
<1>8. Publish(t, doc[t] \cup {edits + 1})
  BY DEF Edit
<1>9. /\ chan' \in [Tabs -> Seq(Written')]
      /\ inbox' \in [Conns -> Seq(ToRelay')]
      /\ \A u \in Tabs : chan'[u] # << >> => chan[u] # << >> \/ u \in opened
      /\ \A c \in Conns : inbox[c] # << >> => inbox'[c] # << >>
  BY <1>4, <1>5, <1>6, <1>7, <1>8, Published
<1>10. doc' \in [Tabs -> Written'] /\ local' \in [Browsers -> Written']
  BY <1>2, <1>5 DEF Edit, IInv, Typed
<1>11. Typed'
  <2>1. dirty' \in [Tabs -> BOOLEAN]
    BY DEF Edit, ScheduleSave, IInv, Typed
  <2> QED BY <1>1, <1>2, <1>4, <1>9, <1>10, <2>1
             DEF Edit, IInv, Typed, session
<1>12. ASSUME NEW u \in Tabs PROVE Open(u)' /\ Dialed(u)'
  <2>1. dirty'[u] => u \in opened /\ BrowserOf[u] \in Storage
    BY <1>1 DEF Edit, ScheduleSave, IInv, Typed, Open
  <2> QED BY <1>9, <2>1
             DEF Edit, IInv, Open, Dialed, session, Storage, Relayed
<1>13. Saving'
  BY <1>9 DEF Edit, IInv, Saving
<1> QED BY <1>11, <1>12, <1>13 DEF IInv
(* What merges cleanly was written, though the relay may hold what does not. *)
LEMMA MergedWritten ==
  ASSUME IInv, NEW t \in Tabs, NEW ops \in Stored, MergesCleanly(doc[t] \cup ops)
  PROVE  ops \in Written
  BY DEF MergesCleanly, Stored, Written

LEMMA ImportStep ==
  ASSUME IInv, NEW t \in Tabs, NEW ops \in Written, Import(t, ops), t \in opened
  PROVE  /\ doc' \in [Tabs -> Written] /\ dirty' \in [Tabs -> BOOLEAN]
         /\ \A u \in Tabs : dirty'[u] => u \in opened /\ BrowserOf[u] \in Storage
<1>1. doc[t] \cup ops \in Written
  BY DEF IInv, Typed, Written
<1> QED BY <1>1 DEF Import, ScheduleSave, IInv, Typed, Open

LEMMA OnChannelStep ==
  ASSUME IInv, NEW t \in Tabs, OnChannel(t), UNCHANGED setup
  PROVE  IInv'
<1> DEFINE ops == IF MergesCleanly(doc[t] \cup Head(chan[t])) THEN Head(chan[t])
                  ELSE {}
<1>1. edits' = edits /\ t \in opened
  BY DEF OnChannel, IInv, Open
<1>2. chan[t] \in Seq(Written) /\ chan[t] # << >>
  BY DEF OnChannel, IInv, Typed
<1>3. Head(chan[t]) \in Written /\ Tail(chan[t]) \in Seq(Written)
  BY <1>2
<1>4. ops \in Written
  BY <1>3 DEF Written
<1>5. Import(t, ops)
  BY DEF OnChannel
<1>6. /\ doc' \in [Tabs -> Written] /\ dirty' \in [Tabs -> BOOLEAN]
      /\ \A u \in Tabs : dirty'[u] => u \in opened /\ BrowserOf[u] \in Storage
  BY <1>1, <1>4, <1>5, ImportStep
<1>7. Typed'
  BY <1>1, <1>3, <1>6, SameFrames DEF OnChannel, IInv, Typed, session, relay
<1>8. ASSUME NEW u \in Tabs PROVE Open(u)' /\ Dialed(u)'
  BY <1>1, <1>6 DEF OnChannel, IInv, Typed, Open, Dialed, session, Storage,
                    Relayed
<1>9. Saving'
  BY DEF OnChannel, IInv, Saving, relay
<1> QED BY <1>7, <1>8, <1>9 DEF IInv

LEMMA OnMessageStep ==
  ASSUME IInv, NEW t \in Tabs, OnMessage(t), UNCHANGED setup
  PROVE  IInv'
<1> DEFINE f == Head(outbox[t])
<1>1. /\ edits' = edits /\ t \in opened /\ t \in Relayed /\ conn[t] \in Dials
      /\ link[t] \in {"open", "live"}
  BY DEF OnMessage, HasSocket, IInv, Open, Typed, Dials
<1>2. outbox[t] \in Seq(ToTab) /\ outbox[t] # << >>
  BY DEF OnMessage, IInv, Typed
<1>3. f \in ToTab /\ outbox' \in [Tabs -> Seq(ToTab)]
  BY <1>2 DEF OnMessage, IInv, Typed
<1>4. f.ops \in Stored
  BY <1>3 DEF ToTab
<1>5. CASE GoOffline(t) /\ UNCHANGED <<doc, dirty, chan, inbox, posted>>
  <2>1. room' \in Seq(Conns)
    BY <1>5, Unsubscribed DEF GoOffline, IInv, Typed
  <2>2. link' \in [Tabs -> Links] /\ fatal' \in [Tabs -> BOOLEAN]
    BY <1>5 DEF GoOffline, IInv, Typed, Links
  <2>3. Typed'
    BY <1>1, <1>3, <1>5, <2>1, <2>2, SameFrames DEF OnMessage, IInv, Typed
  <2>4. ASSUME NEW u \in Tabs PROVE Open(u)' /\ Dialed(u)'
    BY <1>1, <1>5 DEF OnMessage, GoOffline, IInv, Typed, Open, Dialed, Storage,
                      Relayed
  <2> QED BY <1>5, <2>3, <2>4 DEF OnMessage, IInv, Saving
<1>6. CASE /\ MergesCleanly(doc[t] \cup f.ops) /\ Import(t, f.ops)
           /\ UNCHANGED <<link, fatal, chan, inbox, posted, room>>
  <2>1. f.ops \in Written
    BY <1>4, <1>6, MergedWritten
  <2>2. /\ doc' \in [Tabs -> Written] /\ dirty' \in [Tabs -> BOOLEAN]
        /\ \A u \in Tabs : dirty'[u] => u \in opened /\ BrowserOf[u] \in Storage
    BY <1>1, <1>6, <2>1, ImportStep
  <2>3. Typed'
    BY <1>1, <1>3, <1>6, <2>2, SameFrames DEF OnMessage, IInv, Typed
  <2>4. ASSUME NEW u \in Tabs PROVE Open(u)' /\ Dialed(u)'
    BY <1>1, <1>6, <2>2 DEF OnMessage, IInv, Open, Dialed, Storage, Relayed
  <2> QED BY <1>6, <2>3, <2>4 DEF OnMessage, IInv, Saving
<1>7. CASE /\ MergesCleanly(doc[t] \cup f.ops) /\ Import(t, f.ops)
           /\ link' = [link EXCEPT ![t] = "live"]
           /\ Publish(t, doc[t] \cup f.ops)
           /\ UNCHANGED <<fatal, room>>
  <2>1. f.ops \in Written
    BY <1>4, <1>7, MergedWritten
  <2>2. /\ doc' \in [Tabs -> Written] /\ dirty' \in [Tabs -> BOOLEAN]
        /\ \A u \in Tabs : dirty'[u] => u \in opened /\ BrowserOf[u] \in Storage
    BY <1>1, <1>7, <2>1, ImportStep
  <2>3. doc[t] \cup f.ops \in Written
    BY <2>1 DEF IInv, Typed, Written
  <2>4. /\ chan' \in [Tabs -> Seq(Written)]
        /\ inbox' \in [Conns -> Seq(ToRelay)]
        /\ \A u \in Tabs : chan'[u] # << >> => chan[u] # << >> \/ u \in opened
        /\ \A c \in Conns : inbox[c] # << >> => inbox'[c] # << >>
    <3>1. /\ chan \in [Tabs -> Seq(Written)]
          /\ inbox \in [Conns -> Seq([kind : {"SUBSCRIBE", "UPDATE"}, ops : Written])]
      BY DEF IInv, Typed, ToRelay
    <3>2. Publish(t, doc[t] \cup f.ops)
      BY <1>7
    <3>3. /\ chan' \in [Tabs -> Seq(Written)]
          /\ inbox' \in [Conns -> Seq([kind : {"SUBSCRIBE", "UPDATE"}, ops : Written])]
          /\ \A u \in Tabs : chan'[u] # << >> => chan[u] # << >> \/ u \in opened
          /\ \A c \in Conns : inbox[c] # << >> => inbox'[c] # << >>
      <4> HIDE DEF f
      <4> QED BY <1>1, <2>3, <3>1, <3>2, Published
    <3> QED BY <3>3 DEF ToRelay
  <2>5. link' \in [Tabs -> Links]
    BY <1>7 DEF IInv, Typed, Links
  <2>6. Typed'
    BY <1>1, <1>3, <1>7, <2>2, <2>4, <2>5, SameFrames DEF OnMessage, IInv, Typed
  <2>7. ASSUME NEW u \in Tabs PROVE Open(u)' /\ Dialed(u)'
    BY <1>1, <1>7, <2>2, <2>4
       DEF OnMessage, IInv, Typed, Open, Dialed, Storage, Relayed
  <2> QED BY <1>7, <2>4, <2>6, <2>7 DEF OnMessage, IInv, Saving
<1> QED BY <1>5, <1>6, <1>7 DEF OnMessage

LEMMA SaveTimerStep ==
  ASSUME IInv, NEW t \in Tabs, SaveTimer(t), UNCHANGED setup
  PROVE  IInv'
<1>1. edits' = edits
  BY DEF SaveTimer
<1>2. local' \in [Browsers -> Written] /\ dirty' \in [Tabs -> BOOLEAN]
  BY DEF SaveTimer, IInv, Typed
<1>3. Typed'
  BY <1>1, <1>2, SameFrames DEF SaveTimer, IInv, Typed, session, relay
<1>4. ASSUME NEW u \in Tabs PROVE Open(u)' /\ Dialed(u)'
  BY DEF SaveTimer, IInv, Typed, Open, Dialed, session, Storage, Relayed
<1> QED BY <1>3, <1>4 DEF SaveTimer, IInv, Saving, relay

LEMMA OnCloseStep ==
  ASSUME IInv, NEW t \in Tabs, OnClose(t), UNCHANGED setup
  PROVE  IInv'
<1>1. edits' = edits /\ link' = [link EXCEPT ![t] = "none"]
  BY DEF OnClose, AfterClose, IInv, Dialed
<1>2. link' \in [Tabs -> Links]
  BY <1>1 DEF IInv, Typed, Links
<1>3. Typed'
  BY <1>1, <1>2, SameFrames DEF OnClose, IInv, Typed, relay
<1>4. ASSUME NEW u \in Tabs PROVE Open(u)' /\ Dialed(u)'
  BY <1>1 DEF OnClose, IInv, Typed, Open, Dialed, Storage, Relayed
<1> QED BY <1>3, <1>4 DEF OnClose, IInv, Saving, relay

LEMMA ReconnectStep ==
  ASSUME IInv, NEW t \in Tabs, Reconnect(t), UNCHANGED setup
  PROVE  IInv'
<1>1. edits' = edits /\ NewSocket(t)
  BY DEF Reconnect
<1>2. conn[t] <= faults /\ t \in opened /\ t \in Relayed /\ conn[t] >= 1
  BY DEF Reconnect, IInv, Open, Dialed
<1>3. Typed'
  BY <1>1, <1>2, SameFrames, Connecting DEF Reconnect, IInv, Typed
<1>4. ASSUME NEW u \in Tabs PROVE Open(u)' /\ Dialed(u)'
  <2>1. CASE u = t
    BY <1>1, <1>2, <2>1, Connecting
       DEF Reconnect, IInv, Typed, Open, Dialed, Storage, Relayed
  <2>2. CASE u # t
    BY <1>1, <1>2, <2>2, Connecting
       DEF Reconnect, IInv, Open, Dialed, Storage, Relayed
  <2> QED BY <2>1, <2>2
<1> QED BY <1>3, <1>4 DEF Reconnect, IInv, Saving
LEMMA DropStep ==
  ASSUME IInv, NEW t \in Tabs, Drop(t), UNCHANGED setup
  PROVE  IInv'
<1>1. edits' = edits /\ faults' = faults + 1 /\ faults' \in 0..setup.faults
  BY Deployment DEF Drop, Fault, IInv, Typed
<1>2. t \in opened /\ t \in Relayed /\ conn[t] \in Dials
  BY DEF Drop, IInv, Open, Typed, Dials
<1>3. /\ inbox' \in [Conns -> Seq(ToRelay)]
      /\ \A c \in Conns : handler[c] = "save" => inbox'[c] # << >>
  BY <1>2, Prefix DEF Drop, IInv
<1>4. room' \in Seq(Conns)
  BY Unsubscribed DEF Drop, IInv, Typed
<1>5. outbox' \in [Tabs -> Seq(ToTab)] /\ link' \in [Tabs -> Links]
  BY DEF Drop, AfterClose, IInv, Typed, Links
<1>6. Typed'
  BY <1>1, <1>3, <1>4, <1>5, SameFrames DEF Drop, IInv, Typed
<1>7. ASSUME NEW u \in Tabs PROVE Open(u)' /\ Dialed(u)'
  <2>1. link'[u] \in {"none", "waiting", link[u]}
    BY DEF Drop, AfterClose, IInv, Typed
  <2>2. u # t => link'[u] = link[u]
    BY DEF Drop, IInv, Typed
  <2>3. faults \in Nat /\ conn[u] \in Nat
    BY Deployment DEF IInv, Typed
  <2> QED BY <1>1, <1>2, <2>1, <2>2, <2>3
             DEF Drop, IInv, Open, Dialed, Storage, Relayed
<1> QED BY <1>3, <1>6, <1>7 DEF Drop, IInv, Saving

(* A tab that goes leaves nothing behind but what it sent.                 *)
LEMMA LeaveStep ==
  ASSUME IInv, NEW t \in Tabs, Leave(t), UNCHANGED setup,
         local' \in [Browsers -> Written], inbox' \in [Conns -> Seq(ToRelay)],
         \A c \in Conns : handler[c] = "save" => inbox'[c] # << >>
  PROVE  IInv'
<1>1. edits' = edits /\ faults' = faults + 1 /\ faults' \in 0..setup.faults
  BY Deployment DEF Leave, Fault, IInv, Typed
<1>2. room' \in Seq(Conns)
  BY Unsubscribed DEF Leave, IInv, Typed
<1>3. /\ doc' \in [Tabs -> Written] /\ dirty' \in [Tabs -> BOOLEAN]
      /\ chan' \in [Tabs -> Seq(Written)] /\ fatal' \in [Tabs -> BOOLEAN]
  BY DEF Leave, IInv, Typed, Written
<1>4. outbox' \in [Tabs -> Seq(ToTab)] /\ link' \in [Tabs -> Links]
  BY DEF Leave, IInv, Typed, Links
<1>5. Typed'
  BY <1>1, <1>2, <1>3, <1>4, SameFrames DEF Leave, IInv, Typed
<1>6. ASSUME NEW u \in Tabs PROVE Open(u)' /\ Dialed(u)'
  <2>1. faults \in Nat /\ conn[u] \in Nat
    BY Deployment DEF IInv, Typed
  <2>2. CASE u = t
    BY <1>1, <2>1, <2>2 DEF Leave, IInv, Typed, Open, Dialed
  <2>3. CASE u # t
    BY <1>1, <2>1, <2>3 DEF Leave, IInv, Typed, Open, Dialed, Storage, Relayed
  <2> QED BY <2>2, <2>3
<1> QED BY <1>5, <1>6 DEF Leave, IInv, Saving

LEMMA DisposeStep ==
  ASSUME IInv, NEW t \in Tabs, Dispose(t), UNCHANGED setup
  PROVE  IInv'
<1>1. Leave(t) /\ inbox' = inbox
  BY DEF Dispose
<1>2. local' \in [Browsers -> Written]
  BY DEF Dispose, IInv, Typed
<1> QED BY <1>1, <1>2, LeaveStep DEF IInv, Typed, Saving

LEMMA CrashStep ==
  ASSUME IInv, NEW t \in Tabs, Crash(t), UNCHANGED setup
  PROVE  IInv'
<1>1. Leave(t) /\ KeepPrefix(t) /\ local' = local
  BY DEF Crash
<1>2. HasSocket(t) => conn[t] \in Dials
  BY DEF HasSocket, IInv, Open, Typed, Dials
<1>3. /\ inbox' \in [Conns -> Seq(ToRelay)]
      /\ \A c \in Conns : handler[c] = "save" => inbox'[c] # << >>
  BY <1>1, <1>2, Prefix DEF IInv
<1> QED BY <1>1, <1>3, LeaveStep DEF IInv, Typed

(* The relay's steps leave the tabs alone.                                 *)
LEMMA RelayStep ==
  ASSUME IInv, UNCHANGED setup, UNCHANGED tabs,
         inbox' \in [Conns -> Seq(ToRelay)], outbox' \in [Tabs -> Seq(ToTab)],
         handler' \in [Conns -> Handlers], room' \in Seq(Conns), store' \in Stored,
         Saving'
  PROVE  IInv'
<1>1. edits' = edits
  BY DEF tabs
<1>2. Typed'
  BY <1>1, SameFrames DEF IInv, Typed, tabs, session
<1>3. ASSUME NEW u \in Tabs PROVE Open(u)' /\ Dialed(u)'
  BY DEF IInv, Open, Dialed, tabs, session, Storage, Relayed
<1> QED BY <1>2, <1>3 DEF IInv

LEMMA RefuseStep ==
  ASSUME IInv, NEW c \in Conns, Refuse(c), UNCHANGED setup
  PROVE  IInv'
<1>1. c[1] \in Tabs
  BY DEF Conns
<1>2. Frame("ERROR", {}) \in ToTab
  BY DEF Frame, ToTab, Stored
<1>3. outbox' \in [Tabs -> Seq(ToTab)]
  <2>1. Append(outbox[c[1]], Frame("ERROR", {})) \in Seq(ToTab)
    BY <1>1, <1>2 DEF IInv, Typed
  <2> QED BY <1>1, <2>1 DEF Refuse, IInv, Typed
<1>4. inbox' \in [Conns -> Seq(ToRelay)] /\ handler' \in [Conns -> Handlers]
  BY DEF Refuse, IInv, Typed, Handlers
<1>5. Saving'
  BY DEF Refuse, IInv, Typed, Saving
<1> QED BY <1>3, <1>4, <1>5, RelayStep DEF Refuse, IInv, Typed

LEMMA SubscribeStep ==
  ASSUME IInv, NEW c \in Conns, Subscribe(c), UNCHANGED setup
  PROVE  IInv'
<1>1. Tail(inbox[c]) \in Seq(ToRelay)
  BY DEF Subscribe, Waiting, IInv, Typed
<1>2. inbox' \in [Conns -> Seq(ToRelay)] /\ handler' \in [Conns -> Handlers]
  BY <1>1 DEF Subscribe, Pop, IInv, Typed, Handlers
<1>3. room' \in Seq(Conns)
  BY DEF Subscribe, IInv, Typed
<1>4. Saving'
  BY DEF Subscribe, Pop, IInv, Typed, Saving
<1> QED BY <1>2, <1>3, <1>4, RelayStep DEF Subscribe, IInv, Typed

LEMMA LoadSnapshotStep ==
  ASSUME IInv, NEW c \in Conns, LoadSnapshot(c), UNCHANGED setup
  PROVE  IInv'
<1>1. c[1] \in Tabs
  BY DEF Conns
<1>2. PICK s \in {store, {}} :
        outbox' = IF Attached(c)
                  THEN [outbox EXCEPT ![c[1]] = <<Frame("SNAPSHOT", s)>> \o @]
                  ELSE outbox
  BY DEF LoadSnapshot
<1>3. s \in Stored
  BY <1>2 DEF IInv, Typed, Stored
<1>4. <<Frame("SNAPSHOT", s)>> \in Seq(ToTab)
  BY <1>3 DEF Frame, ToTab
<1>5. <<Frame("SNAPSHOT", s)>> \o outbox[c[1]] \in Seq(ToTab)
  BY <1>1, <1>4, ConcatProperties DEF IInv, Typed
<1>6. outbox' \in [Tabs -> Seq(ToTab)]
  BY <1>1, <1>2, <1>5 DEF IInv, Typed
<1>7. handler' \in [Conns -> Handlers]
  BY DEF LoadSnapshot, IInv, Typed, Handlers
<1>8. Saving'
  BY DEF LoadSnapshot, IInv, Typed, Saving
<1> QED BY <1>6, <1>7, <1>8, RelayStep DEF LoadSnapshot, IInv, Typed

LEMMA BroadcastStep ==
  ASSUME IInv, NEW c \in Conns, Broadcast(c), UNCHANGED setup
  PROVE  IInv'
<1>1. inbox[c] \in Seq(ToRelay) /\ inbox[c] # << >>
  BY DEF Broadcast, Waiting, IInv, Typed
<1>2. Head(inbox[c]) \in ToTab
  <2>1. Head(inbox[c]) \in ToRelay /\ Head(inbox[c]).kind = "UPDATE"
    BY <1>1 DEF Broadcast, Waiting
  <2>2. \A f \in ToRelay : f.kind = "UPDATE" => f \in ToTab
    BY DEF ToRelay, ToTab, Written, Stored
  <2> QED BY <2>1, <2>2
<1>3. \A t \in Tabs : Append(outbox[t], Head(inbox[c])) \in Seq(ToTab)
  BY <1>2 DEF IInv, Typed
<1>4. outbox' \in [Tabs -> Seq(ToTab)]
  BY <1>3 DEF Broadcast, IInv, Typed
<1>5. handler' \in [Conns -> Handlers]
  BY DEF Broadcast, IInv, Typed, Handlers
<1>6. Saving'
  BY <1>1 DEF Broadcast, IInv, Typed, Saving
<1> QED BY <1>4, <1>5, <1>6, RelayStep DEF Broadcast, IInv, Typed

LEMMA SaveStep ==
  ASSUME IInv, NEW c \in Conns, Save(c), UNCHANGED setup
  PROVE  IInv'
<1>1. inbox[c] \in Seq(ToRelay) /\ inbox[c] # << >>
  BY DEF Save, IInv, Typed, Saving
<1>2. Head(inbox[c]) \in ToRelay /\ Tail(inbox[c]) \in Seq(ToRelay)
  BY <1>1
<1>3. store' \in Stored
  BY <1>2 DEF Save, ToRelay, Written, Stored
<1>4. inbox' \in [Conns -> Seq(ToRelay)] /\ handler' \in [Conns -> Handlers]
  BY <1>2 DEF Save, Pop, IInv, Typed, Handlers
<1>5. Saving'
  BY DEF Save, Pop, IInv, Typed, Saving
<1> QED BY <1>3, <1>4, <1>5, RelayStep DEF Save, IInv, Typed

-----------------------------------------------------------------------------
LEMMA InvStep == IInv /\ [Next]_vars => IInv'
<1> SUFFICES ASSUME IInv, [Next]_vars PROVE IInv'
  OBVIOUS
<1>1. CASE UNCHANGED vars
  <2>1. Written' = Written /\ Stored' = Stored /\ ToRelay' = ToRelay
        /\ ToTab' = ToTab
    BY <1>1, SameFrames DEF vars, tabs
  <2>2. Typed'
    BY <1>1, <2>1 DEF IInv, Typed, vars, tabs, session, relay
  <2>3. ASSUME NEW t \in Tabs PROVE Open(t)' /\ Dialed(t)'
    BY <1>1 DEF IInv, Open, Dialed, vars, tabs, session, Storage, Relayed
  <2> QED BY <1>1, <2>2, <2>3 DEF IInv, Saving, vars, relay
<1>2. ASSUME NEW t \in Tabs, UNCHANGED setup,
             OpenTab(t) \/ Edit(t) \/ OnChannel(t) \/ SaveTimer(t)
      PROVE  IInv'
  BY <1>2, OpenTabStep, EditStep, OnChannelStep, SaveTimerStep
<1>3. ASSUME NEW t \in Tabs, UNCHANGED setup,
             Callback(t) \/ Drop(t) \/ Dispose(t) \/ Crash(t)
      PROVE  IInv'
  BY <1>3, OnOpenStep, OnMessageStep, OnCloseStep, ReconnectStep, DropStep,
     DisposeStep, CrashStep DEF Callback
<1>4. ASSUME NEW c \in Conns, UNCHANGED setup, Handle(c) \/ Refuse(c)
      PROVE  IInv'
  BY <1>4, SubscribeStep, LoadSnapshotStep, BroadcastStep, SaveStep, RefuseStep
     DEF Handle
<1> QED BY <1>1, <1>2, <1>3, <1>4 DEF Next, Step

LEMMA InvInit == Init => IInv
<1> SUFFICES ASSUME Init PROVE IInv
  OBVIOUS
<1>1. setup \in Setups /\ edits = 0
  BY DEF Init
<1>2. store \in Stored
  <2>1. store \subseteq {Past, Poison}
    BY <1>1, RoomSyncAssumption DEF Init, RoomSyncAssumption
  <2> QED BY <1>1, <2>1 DEF Stored, Past
<1>3. Typed
  BY <1>1, <1>2, Deployment
     DEF Init, Typed, Written, Links, Handlers
<1>4. ASSUME NEW t \in Tabs PROVE Open(t) /\ Dialed(t)
  BY DEF Init, Open, Dialed
<1> QED BY <1>3, <1>4 DEF Init, IInv, Saving

(* Everything shown, kept or on its way was written by somebody, whatever  *)
(* the network, the relay and the other tabs do.                           *)
THEOREM Invariance == Spec => []IInv
<1> QED BY InvInit, InvStep, PTL DEF Spec

LEMMA Shapes == IInv => TypeOK
<1> SUFFICES ASSUME IInv PROVE TypeOK
  OBVIOUS
<1>1. edits \in 0..EditLimit /\ EditLimit \in Nat
  BY Deployment DEF IInv, Typed
<1>2. Written \subseteq SUBSET Ops /\ Stored \subseteq SUBSET (Ops \cup {Poison})
  BY <1>1 DEF Written, Stored, Ops
<1>3. \A t \in Tabs : chan[t] \in Seq(SUBSET Ops)
  BY <1>2, SeqMonotonic DEF IInv, Typed
<1> QED BY <1>2, <1>3 DEF IInv, Typed, TypeOK, Links, Handlers

(* The shape of the transport's state, for every deployment: in particular *)
(* no document and no localStorage ever holds a history that does not      *)
(* merge with the seed, though the relay may.                              *)
THEOREM TypeCorrect == Spec => []TypeOK
<1> QED BY Shapes, Invariance, PTL

-----------------------------------------------------------------------------
(* A browser's only open tab is saved, or about to be, after every step.   *)

Alone(t) ==
  /\ BrowserOf[t] \in Storage
  /\ \A u \in setup.tabs \ {t} : BrowserOf[u] # BrowserOf[t]

Kept(t) == dirty[t] \/ local[BrowserOf[t]] = doc[t]

LEMMA ImportKeeps ==
  ASSUME IInv, NEW t \in Tabs, NEW ops, Import(t, ops), UNCHANGED <<local, setup>>,
         NEW u \in Tabs, Alone(u), Kept(u)
  PROVE  Kept(u)'
<1>1. CASE u = t
  <2>1. CASE ops \subseteq doc[t]
    BY <1>1, <2>1 DEF Import, ScheduleSave, IInv, Typed, Kept
  <2>2. CASE ~(ops \subseteq doc[t])
    BY <1>1, <2>2 DEF Import, ScheduleSave, IInv, Typed, Kept, Alone
  <2> QED BY <2>1, <2>2
<1>2. CASE u # t
  BY <1>2 DEF Import, ScheduleSave, IInv, Typed, Kept
<1> QED BY <1>1, <1>2

(* What another tab does reaches neither the browser nor the document of a *)
(* tab that is alone in its browser.                                       *)
LEMMA KeptStep ==
  ASSUME IInv, [Next]_vars, SavedUnlessPending
  PROVE  SavedUnlessPending'
<1> SUFFICES ASSUME NEW u \in opened', Alone(u)' PROVE Kept(u)'
  BY DEF SavedUnlessPending, Alone, Kept, Storage
<1>1. setup' = setup /\ Alone(u)
  BY DEF Next, vars, Alone, Storage
<1>2. opened \subseteq setup.tabs /\ setup.tabs \subseteq Tabs
  BY Deployment DEF IInv, Typed
<1>3. \A t \in setup.tabs \ {u} : BrowserOf[t] # BrowserOf[u]
  BY <1>1 DEF Alone
<1>4. u \in opened => Kept(u)
  BY <1>1 DEF SavedUnlessPending, Alone, Kept
<1>5. BrowserOf \in [Tabs -> Browsers]
  BY RoomSyncAssumption DEF RoomSyncAssumption
<1>6. CASE UNCHANGED <<opened, doc, dirty, local>>
  BY <1>4, <1>6 DEF Kept
<1>7. ASSUME NEW t \in Tabs, OpenTab(t) PROVE Kept(u)'
  <2>1. CASE u = t
    BY <1>7, <2>1 DEF OpenTab, IInv, Typed, Kept
  <2>2. CASE u # t
    BY <1>4, <1>7, <2>2 DEF OpenTab, IInv, Typed, Kept
  <2> QED BY <2>1, <2>2
<1>8. ASSUME NEW t \in Tabs, Edit(t) PROVE Kept(u)'
  <2>1. CASE u = t
    BY <1>1, <1>8, <2>1 DEF Edit, ScheduleSave, IInv, Typed, Kept, Alone
  <2>2. CASE u # t
    BY <1>4, <1>8, <2>2 DEF Edit, ScheduleSave, IInv, Typed, Kept
  <2> QED BY <2>1, <2>2
<1>9. ASSUME NEW t \in Tabs, OnChannel(t) PROVE Kept(u)'
  BY <1>1, <1>2, <1>4, <1>9, ImportKeeps DEF OnChannel
<1>10. ASSUME NEW t \in Tabs, OnMessage(t) PROVE Kept(u)'
  <2>1. local' = local /\ opened' = opened
    BY <1>10 DEF OnMessage
  <2>2. CASE UNCHANGED <<doc, dirty>>
    BY <1>6, <2>1, <2>2
  <2>3. CASE \E ops : Import(t, ops)
    BY <1>1, <1>2, <1>4, <2>1, <2>3, ImportKeeps
  <2> QED BY <1>10, <2>2, <2>3 DEF OnMessage
<1>11. ASSUME NEW t \in Tabs, SaveTimer(t) PROVE Kept(u)'
  <2>1. t \in opened /\ opened' = opened
    BY <1>11 DEF SaveTimer, IInv, Open
  <2>2. CASE u = t
    BY <1>5, <1>11, <2>2 DEF SaveTimer, IInv, Typed, Kept
  <2>3. CASE u # t
    <3>1. BrowserOf[t] # BrowserOf[u]
      BY <1>2, <1>3, <2>1, <2>3
    <3> QED BY <1>4, <1>5, <1>11, <2>1, <2>3, <3>1
            DEF SaveTimer, IInv, Typed, Kept
  <2> QED BY <2>2, <2>3
<1>12. ASSUME NEW t \in Tabs, Dispose(t) \/ Crash(t) PROVE Kept(u)'
  <2>1. t \in opened /\ opened' = opened \ {t} /\ u # t /\ u \in opened
    BY <1>12 DEF Dispose, Crash, Leave
  <2>2. BrowserOf[t] # BrowserOf[u]
    BY <1>2, <1>3, <2>1
  <2>3. local'[BrowserOf[u]] = local[BrowserOf[u]]
    BY <1>2, <1>5, <1>12, <2>1, <2>2 DEF Dispose, Crash, IInv, Typed
  <2> QED BY <1>2, <1>4, <1>12, <2>1, <2>3
          DEF Dispose, Crash, Leave, IInv, Typed, Kept
<1>13. ASSUME NEW t \in Tabs, Callback(t) \/ Drop(t) PROVE Kept(u)'
  BY <1>6, <1>10, <1>13 DEF Callback, OnOpen, OnClose, Reconnect, Drop
<1>14. ASSUME NEW c \in Conns, Handle(c) \/ Refuse(c) PROVE Kept(u)'
  BY <1>6, <1>14
     DEF Handle, Refuse, Subscribe, LoadSnapshot, Broadcast, Save, tabs
<1>15. CASE UNCHANGED vars
  BY <1>6, <1>15 DEF vars, tabs
<1> QED BY <1>7, <1>8, <1>9, <1>11, <1>12, <1>13, <1>14, <1>15 DEF Next, Step

(* The debounced save never leaves an edit behind: a tab that is its       *)
(* browser's only one has all it shows in localStorage, or its timer is    *)
(* set, whatever arrives, drops or is refused, and however other tabs end. *)
THEOREM OnlyTabIsSaved == Spec => []SavedUnlessPending
<1>1. Init => SavedUnlessPending
  BY DEF Init, SavedUnlessPending
<1>2. IInv /\ [Next]_vars /\ SavedUnlessPending => SavedUnlessPending'
  BY KeptStep
<1> QED BY <1>1, <1>2, Invariance, PTL DEF Spec

-----------------------------------------------------------------------------
(* Full logs between the tabs of a browser. *)

(* What a tab has, or is about to have. *)
Due(t) == doc[t] \cup UNION ToSet(chan[t])

(* Two open tabs of a browser, of which the second has all that is on its  *)
(* way to the first, and all the first has if no relay adds to that.       *)
Caught(a, b) ==
  /\ a \in opened /\ b \in opened /\ a # b /\ BrowserOf[a] = BrowserOf[b]
  /\ \A m \in ToSet(chan[a]) : m \subseteq Due(b)
  /\ a \notin Relayed => doc[a] \subseteq Due(b)

PostedInv == \A ab \in posted : ab[1] \in Tabs /\ ab[2] \in Tabs /\ Caught(ab[1], ab[2])

(* A queue of logs that gets one more, and one that is read. *)
LEMMA Queued ==
  ASSUME NEW S, NEW q \in Seq(S), NEW e \in S
  PROVE  /\ Append(q, e) \in Seq(S) /\ Append(q, e) # << >>
         /\ ToSet(Append(q, e)) = ToSet(q) \cup {e}
<1> DEFINE r == Append(q, e)
<1>1. /\ r \in Seq(S) /\ Len(q) \in Nat /\ Len(r) = Len(q) + 1
      /\ \A i \in 1..Len(q) : r[i] = q[i]
      /\ r[Len(q) + 1] = e
  OBVIOUS
<1>2. DOMAIN r = 1..(Len(q) + 1) /\ DOMAIN q = 1..Len(q)
  BY <1>1
<1>3. r # << >>
  BY <1>1
<1> HIDE DEF r
<1>4. \A x \in ToSet(r) : x \in ToSet(q) \cup {e}
  BY <1>1, <1>2 DEF ToSet
<1>5. \A x \in ToSet(q) : x \in ToSet(r)
  BY <1>1, <1>2 DEF ToSet
<1>6. e \in ToSet(r)
  BY <1>1, <1>2 DEF ToSet
<1>7. r \in Seq(S) /\ r # << >> /\ ToSet(r) = ToSet(q) \cup {e}
  BY <1>1, <1>3, <1>4, <1>5, <1>6
<1> QED BY <1>7 DEF r

LEMMA Read ==
  ASSUME NEW S, NEW q \in Seq(S), q # << >>
  PROVE  /\ Head(q) \in S /\ Tail(q) \in Seq(S)
         /\ ToSet(q) = {Head(q)} \cup ToSet(Tail(q))
<1> DEFINE r == Tail(q)
<1>1. /\ Head(q) \in S /\ r \in Seq(S) /\ Head(q) = q[1]
      /\ Len(q) \in Nat \ {0} /\ Len(r) = Len(q) - 1
      /\ \A i \in 1..(Len(q) - 1) : r[i] = q[i + 1]
  OBVIOUS
<1>2. DOMAIN r = 1..(Len(q) - 1) /\ DOMAIN q = 1..Len(q)
  BY <1>1
<1> HIDE DEF r
<1>3. ASSUME NEW i \in 1..Len(q) PROVE q[i] \in {Head(q)} \cup ToSet(r)
  <2>1. CASE i = 1
    BY <1>1, <2>1
  <2>2. CASE i # 1
    <3>1. i - 1 \in 1..(Len(q) - 1) /\ (i - 1) + 1 = i
      BY <1>1, <1>3, <2>2
    <3>2. r[i - 1] = q[i]
      BY <1>1, <3>1
    <3> QED BY <1>2, <3>1, <3>2 DEF ToSet
  <2> QED BY <2>1, <2>2
<1>4. ASSUME NEW i \in 1..(Len(q) - 1) PROVE r[i] \in ToSet(q)
  <2>1. i + 1 \in 1..Len(q) /\ r[i] = q[i + 1]
    BY <1>1, <1>4
  <2> QED BY <1>2, <2>1 DEF ToSet
<1>5. Head(q) \in ToSet(q)
  BY <1>1, <1>2 DEF ToSet
<1>6. ToSet(q) = {Head(q)} \cup ToSet(r)
  BY <1>2, <1>3, <1>4, <1>5 DEF ToSet
<1> QED BY <1>1, <1>6 DEF r

(* A tab broadcasts all it has. *)
LEMMA PublishCatches ==
  ASSUME IInv, IInv', PostedInv, NEW t \in opened, Publish(t, doc'[t]),
         doc[t] \subseteq doc'[t], \A u \in Tabs \ {t} : doc'[u] = doc[u],
         UNCHANGED << opened, setup >>
  PROVE  PostedInv'
<1> DEFINE ops == doc'[t]
<1>0. /\ opened \subseteq Tabs /\ t \in Tabs /\ Mates(t) \subseteq Tabs
      /\ \A u \in Tabs : chan[u] \in Seq(SUBSET Ops)
      /\ ops \in SUBSET Ops
  <2>1. \A u \in Tabs : chan[u] \in Seq(SUBSET Ops)
    BY Shapes DEF TypeOK
  <2>2. opened \subseteq Tabs /\ edits' \in 0..EditLimit /\ EditLimit \in Nat
    <3>1. setup \in Setups /\ setup' = setup /\ opened \subseteq setup.tabs
      BY DEF IInv, Typed
    <3>2. /\ setup.tabs \subseteq Tabs /\ setup.edits \in Nat
          /\ setup.edits <= EditLimit /\ EditLimit \in Nat
      BY <3>1, Deployment
    <3>3. edits' \in 0..setup'.edits
      BY DEF IInv, Typed
    <3>4. edits' \in 0..EditLimit
      BY <3>1, <3>2, <3>3
    <3> QED BY <3>1, <3>2, <3>4
  <2>3. ops \in Written'
    BY <2>2 DEF IInv, Typed
  <2>4. Written' \subseteq SUBSET Ops
    BY <2>2 DEF Written, Ops
  <2> QED BY <2>1, <2>2, <2>3, <2>4 DEF Mates
<1>1. /\ \A u \in Mates(t) : ToSet(chan'[u]) = ToSet(chan[u]) \cup {ops}
      /\ \A u \in Tabs \ Mates(t) : chan'[u] = chan[u]
  <2>1. chan' = [u \in Tabs |-> IF u \in Mates(t) THEN Append(chan[u], ops)
                                ELSE chan[u]]
    BY DEF Publish
  <2> HIDE DEF ops
  <2>2. \A u \in Tabs : ToSet(Append(chan[u], ops)) = ToSet(chan[u]) \cup {ops}
    BY <1>0, Queued
  <2> QED BY <1>0, <2>1, <2>2
<1>2. \/ posted' = posted
      \/ posted' = posted \cup ({t} \X Mates(t)) /\ chan[t] = << >>
  <2>1. posted' = IF chan[t] = << >> THEN posted \cup ({t} \X Mates(t)) ELSE posted
    BY DEF Publish
  <2> QED BY <2>1
<1>3. \A u \in Tabs : Due(u) \subseteq Due(u)'
  BY <1>0, <1>1 DEF Due
<1>4. /\ \A u \in Mates(t) : ops \subseteq Due(u)'
      /\ ops \subseteq Due(t)'
  BY <1>1 DEF Due
<1>5. ASSUME NEW a \in Tabs, NEW b \in Tabs, Caught(a, b) PROVE Caught(a, b)'
  <2>1. ASSUME NEW m \in ToSet(chan'[a]) PROVE m \subseteq Due(b)'
    <3>1. CASE m \in ToSet(chan[a])
      BY <1>3, <1>5, <3>1 DEF Caught
    <3>2. CASE m \notin ToSet(chan[a])
      <4>1. a \in Mates(t) /\ m = ops
        BY <1>1, <2>1, <3>2
      <4>2. b = t \/ b \in Mates(t)
        BY <1>5, <4>1 DEF Caught, Mates
      <4> QED BY <1>4, <4>1, <4>2
    <3> QED BY <3>1, <3>2
  <2>2. CASE a = t
    <3>1. b \in Mates(t)
      BY <1>5, <2>2 DEF Caught, Mates
    <3> QED BY <1>4, <1>5, <2>1, <2>2, <3>1 DEF Caught
  <2>3. CASE a # t
    BY <1>3, <1>5, <2>1, <2>3 DEF Caught, Relayed
  <2> QED BY <2>2, <2>3
<1>6. ASSUME NEW b \in Mates(t), chan[t] = << >> PROVE Caught(t, b)'
  <2>1. chan'[t] = << >> /\ ToSet(chan'[t]) = {}
    BY <1>0, <1>1, <1>6 DEF Mates, ToSet
  <2> QED BY <1>4, <1>6, <2>1 DEF Caught, Mates
<1> QED BY <1>0, <1>2, <1>5, <1>6 DEF PostedInv

(* A tab imports what another of its browser sent. *)
LEMMA ChannelCatches ==
  ASSUME IInv, PostedInv, NEW t \in Tabs, OnChannel(t), UNCHANGED setup
  PROVE  PostedInv'
<1> DEFINE m == Head(chan[t])
<1>1. /\ chan[t] \in Seq(Written) /\ chan[t] # << >>
      /\ doc \in [Tabs -> Written] /\ chan \in [Tabs -> Seq(Written)]
  BY DEF OnChannel, IInv, Typed
<1>2. m \in Written /\ ToSet(chan[t]) = {m} \cup ToSet(Tail(chan[t]))
  BY <1>1, Read
<1>3. MergesCleanly(doc[t] \cup m)
  <2>1. Poison \notin 0..edits
    BY Deployment DEF IInv, Typed, Ops
  <2> QED BY <1>1, <1>2, <2>1 DEF MergesCleanly, Written
<1>4. /\ doc' = [doc EXCEPT ![t] = @ \cup m]
      /\ chan' = [chan EXCEPT ![t] = Tail(@)]
      /\ posted' = posted /\ opened' = opened
  BY <1>3 DEF OnChannel, Import
<1> HIDE DEF m
<1>5. /\ doc'[t] = doc[t] \cup m /\ chan'[t] = Tail(chan[t])
      /\ \A u \in Tabs \ {t} : doc'[u] = doc[u] /\ chan'[u] = chan[u]
  BY <1>1, <1>4
<1>6. \A u \in Tabs : Due(u)' = Due(u)
  BY <1>2, <1>5 DEF Due
<1>7. ASSUME NEW a \in Tabs, NEW b \in Tabs, Caught(a, b) PROVE Caught(a, b)'
  <2>1. CASE a = t
    BY <1>2, <1>4, <1>5, <1>6, <1>7, <2>1 DEF Caught, Relayed
  <2>2. CASE a # t
    BY <1>4, <1>5, <1>6, <1>7, <2>2 DEF Caught, Relayed
  <2> QED BY <2>1, <2>2
<1> QED BY <1>4, <1>7 DEF PostedInv

LEMMA PostedStep == IInv /\ [Next]_vars /\ PostedInv => PostedInv'
<1> SUFFICES ASSUME IInv, [Next]_vars, PostedInv PROVE PostedInv'
  OBVIOUS
<1>1. setup' = setup /\ IInv'
  BY InvStep DEF Next, vars
<1>2. CASE UNCHANGED << opened, doc, chan, posted >>
  BY <1>1, <1>2 DEF PostedInv, Caught, Due, Relayed
<1>3. ASSUME NEW t \in Tabs, OpenTab(t) PROVE PostedInv'
  <2>1. /\ t \notin opened /\ opened \subseteq opened' /\ posted' = posted
        /\ chan' = chan /\ \A u \in Tabs \ {t} : doc'[u] = doc[u]
    BY <1>3 DEF OpenTab, IInv, Typed
  <2> QED BY <1>1, <2>1 DEF PostedInv, Caught, Due, Relayed
<1>4. ASSUME NEW t \in Tabs, Edit(t) PROVE PostedInv'
  <2>1. /\ t \in opened /\ opened' = opened
        /\ doc'[t] = doc[t] \cup {edits + 1} /\ Publish(t, doc'[t])
        /\ \A u \in Tabs \ {t} : doc'[u] = doc[u]
    BY <1>4 DEF Edit, IInv, Typed
  <2> QED BY <1>1, <2>1, PublishCatches
<1>5. ASSUME NEW t \in Tabs, OnMessage(t) PROVE PostedInv'
  <2>1. opened' = opened /\ t \in opened /\ t \in Relayed
    BY <1>5 DEF OnMessage, HasSocket, IInv, Open
  <2>2. CASE UNCHANGED << doc, chan, posted >>
    BY <1>2, <2>1, <2>2
  <2>3. ASSUME NEW ops, Import(t, ops), UNCHANGED << chan, posted >>
        PROVE  PostedInv'
    <3>1. /\ doc[t] \subseteq doc'[t]
          /\ \A u \in Tabs \ {t} : doc'[u] = doc[u]
      BY <2>3 DEF Import, IInv, Typed
    <3>2. \A u \in Tabs : Due(u) \subseteq Due(u)'
      BY <2>3, <3>1 DEF Due
    <3> QED BY <1>1, <2>1, <2>3, <3>1, <3>2 DEF PostedInv, Caught, Relayed
  <2>4. ASSUME NEW ops, Import(t, ops), Publish(t, doc[t] \cup ops)
        PROVE  PostedInv'
    <3>1. /\ doc'[t] = doc[t] \cup ops
          /\ \A u \in Tabs \ {t} : doc'[u] = doc[u]
      BY <2>4 DEF Import, IInv, Typed
    <3> QED BY <1>1, <2>1, <2>4, <3>1, PublishCatches
  <2> QED BY <1>5, <2>2, <2>3, <2>4 DEF OnMessage
<1>6. ASSUME NEW t \in Tabs, Dispose(t) \/ Crash(t) PROVE PostedInv'
  <2>1. /\ opened' = opened \ {t}
        /\ posted' = {ab \in posted : t \notin {ab[1], ab[2]}}
        /\ \A u \in Tabs \ {t} : doc'[u] = doc[u] /\ chan'[u] = chan[u]
    BY <1>6 DEF Dispose, Crash, Leave, IInv, Typed
  <2>2. ASSUME NEW a \in Tabs \ {t}, NEW b \in Tabs \ {t}, Caught(a, b)
        PROVE  Caught(a, b)'
    BY <1>1, <2>1, <2>2 DEF Caught, Due, Relayed
  <2> QED BY <2>1, <2>2 DEF PostedInv
<1>7. ASSUME NEW t \in Tabs, SaveTimer(t) \/ Callback(t) \/ Drop(t) PROVE PostedInv'
  BY <1>2, <1>5, <1>7 DEF SaveTimer, Callback, OnOpen, OnClose, Reconnect, Drop
<1>8. ASSUME NEW c \in Conns, Handle(c) \/ Refuse(c) PROVE PostedInv'
  BY <1>2, <1>8
     DEF Handle, Refuse, Subscribe, LoadSnapshot, Broadcast, Save, tabs
<1>9. ASSUME NEW t \in Tabs, OnChannel(t) PROVE PostedInv'
  BY <1>1, <1>9, ChannelCatches
<1>10. CASE UNCHANGED vars
  BY <1>2, <1>10 DEF vars, tabs
<1> QED BY <1>3, <1>4, <1>6, <1>7, <1>8, <1>9, <1>10 DEF Next, Step

(* What a tab without a relay broadcast once it had heard all, the other   *)
(* tabs of its browser have for good, and all it learns later, however     *)
(* many tabs there are, come and go, and send meanwhile.                   *)
THEOREM FullLogsHeal == Spec => []FullLogHeals
<1>1. Init => PostedInv
  BY DEF Init, PostedInv
<1>2. PostedInv => FullLogHeals
  BY DEF PostedInv, Caught, Due, FullLogHeals
<1> QED BY <1>1, <1>2, PostedStep, Invariance, PTL DEF Spec

-----------------------------------------------------------------------------
(* Frames in a row: what they carry, and which kinds are among them. *)

Frames == [kind : {"SUBSCRIBE", "SNAPSHOT", "UPDATE", "ERROR"},
           ops : SUBSET (Ops \cup {Poison})]

Among(s, k) == \E p \in DOMAIN s : s[p].kind = k
OnlyFirst(s, k) == \A p \in DOMAIN s : s[p].kind = k => p = 1
Carried(s) == UNION {s[p].ops : p \in DOMAIN s}
News(s) == UNION {f.ops : f \in {s[p] : p \in {q \in DOMAIN s : s[q].kind = "UPDATE"}}}

LEMMA NoFrames ==
  ASSUME NEW k
  PROVE  /\ ~Among(<< >>, k) /\ OnlyFirst(<< >>, k)
         /\ Carried(<< >>) = {} /\ News(<< >>) = {}
  BY DEF Among, OnlyFirst, Carried, News

(* One more frame, behind the others. *)
LEMMA FrameAppended ==
  ASSUME NEW s \in Seq(Frames), NEW f \in Frames
  PROVE  /\ Append(s, f) \in Seq(Frames) /\ Append(s, f) # << >>
         /\ \A k : Among(Append(s, f), k) <=> Among(s, k) \/ f.kind = k
         /\ \A k : OnlyFirst(s, k) /\ (f.kind # k \/ s = << >>)
                     => OnlyFirst(Append(s, f), k)
         /\ Carried(Append(s, f)) = Carried(s) \cup f.ops
         /\ News(Append(s, f)) \subseteq News(s) \cup f.ops
         /\ f.kind # "UPDATE" => News(Append(s, f)) = News(s)
         /\ s # << >> => Tail(Append(s, f)) = Append(Tail(s), f)
<1> DEFINE r == Append(s, f)
<1>1. /\ r \in Seq(Frames) /\ Len(s) \in Nat /\ Len(r) = Len(s) + 1
      /\ \A i \in 1..Len(s) : r[i] = s[i]
      /\ r[Len(s) + 1] = f
  OBVIOUS
<1>2. DOMAIN r = 1..(Len(s) + 1) /\ DOMAIN s = 1..Len(s)
  BY <1>1
<1>3. r # << >>
  BY <1>1
<1>4. s # << >> => Tail(r) = Append(Tail(s), f)
  OBVIOUS
<1>5. s = << >> => Len(s) = 0
  OBVIOUS
<1> HIDE DEF r
<1>6. \A k : Among(r, k) <=> Among(s, k) \/ f.kind = k
  BY <1>1, <1>2 DEF Among
<1>7. \A k : OnlyFirst(s, k) /\ (f.kind # k \/ s = << >>) => OnlyFirst(r, k)
  BY <1>1, <1>2, <1>5 DEF OnlyFirst
<1>8. Carried(r) = Carried(s) \cup f.ops
  BY <1>1, <1>2 DEF Carried
<1>9. News(r) \subseteq News(s) \cup f.ops
  BY <1>1, <1>2 DEF News
<1>10. ASSUME f.kind # "UPDATE" PROVE News(r) = News(s)
  BY <1>1, <1>2, <1>10 DEF News
<1>11. r \in Seq(Frames)
  BY <1>1
<1> QED BY <1>3, <1>4, <1>6, <1>7, <1>8, <1>9, <1>10, <1>11 DEF r

(* The first frame goes. *)
LEMMA FrameRead ==
  ASSUME NEW s \in Seq(Frames), s # << >>
  PROVE  /\ Head(s) \in Frames /\ Tail(s) \in Seq(Frames)
         /\ \A k : Among(s, k) <=> Head(s).kind = k \/ Among(Tail(s), k)
         /\ \A k : OnlyFirst(s, k) => ~Among(Tail(s), k) /\ OnlyFirst(Tail(s), k)
         /\ Carried(s) = Head(s).ops \cup Carried(Tail(s))
         /\ News(Tail(s)) \subseteq News(s)
         /\ Head(s).kind = "UPDATE" => Head(s).ops \subseteq News(s)
<1> DEFINE r == Tail(s)
           f == Head(s)
<1>1. /\ f \in Frames /\ r \in Seq(Frames) /\ f = s[1]
      /\ Len(s) \in Nat \ {0} /\ Len(r) = Len(s) - 1
      /\ \A i \in 1..(Len(s) - 1) : r[i] = s[i + 1]
  OBVIOUS
<1>2. DOMAIN r = 1..(Len(s) - 1) /\ DOMAIN s = 1..Len(s) /\ 1 \in DOMAIN s
  BY <1>1
<1> HIDE DEF r, f
<1>3. \A i \in DOMAIN r : i + 1 \in DOMAIN s /\ i + 1 # 1 /\ r[i] = s[i + 1]
  BY <1>1, <1>2
<1>4. ASSUME NEW i \in DOMAIN s, i # 1
      PROVE  \E j \in DOMAIN r : r[j] = s[i]
  <2>1. i - 1 \in 1..(Len(s) - 1) /\ (i - 1) + 1 = i
    BY <1>1, <1>2, <1>4
  <2>2. r[i - 1] = s[i]
    BY <1>1, <2>1
  <2> QED BY <1>2, <2>1, <2>2
<1>5. \A k : Among(s, k) <=> f.kind = k \/ Among(r, k)
  <2>1. ASSUME NEW k, Among(s, k) PROVE f.kind = k \/ Among(r, k)
    <3>1. PICK i \in DOMAIN s : s[i].kind = k
      BY <2>1 DEF Among
    <3>2. i = 1 \/ \E j \in DOMAIN r : r[j] = s[i]
      BY <1>4
    <3> QED BY <1>1, <3>1, <3>2 DEF Among
  <2>2. ASSUME NEW k, f.kind = k PROVE Among(s, k)
    BY <1>1, <1>2, <2>2 DEF Among
  <2>3. ASSUME NEW k, Among(r, k) PROVE Among(s, k)
    BY <1>3, <2>3 DEF Among
  <2> QED BY <2>1, <2>2, <2>3
<1>6. \A k : OnlyFirst(s, k) => ~Among(r, k) /\ OnlyFirst(r, k)
  BY <1>3 DEF OnlyFirst, Among
<1>7. Carried(s) = f.ops \cup Carried(r)
  <2>1. \A x \in Carried(s) : x \in f.ops \cup Carried(r)
    BY <1>1, <1>4 DEF Carried
  <2>2. Carried(r) \subseteq Carried(s)
    BY <1>3 DEF Carried
  <2>3. f.ops \subseteq Carried(s)
    BY <1>1, <1>2 DEF Carried
  <2> QED BY <2>1, <2>2, <2>3
<1>8. News(r) \subseteq News(s)
  BY <1>3 DEF News
<1>9. f.kind = "UPDATE" => f.ops \subseteq News(s)
  BY <1>1, <1>2 DEF News
<1>10. f \in Frames /\ r \in Seq(Frames)
  BY <1>1
<1> QED BY <1>5, <1>6, <1>7, <1>8, <1>9, <1>10 DEF r, f

(* One more frame, before the others. *)
LEMMA FramePrepended ==
  ASSUME NEW s \in Seq(Frames), NEW f \in Frames
  PROVE  /\ << f >> \o s \in Seq(Frames)
         /\ \A k : Among(<< f >> \o s, k) <=> Among(s, k) \/ f.kind = k
         /\ \A k : ~Among(s, k) => OnlyFirst(<< f >> \o s, k)
         /\ Carried(s) \subseteq Carried(<< f >> \o s)
         /\ f.kind # "UPDATE" => News(<< f >> \o s) = News(s)
<1> DEFINE r == << f >> \o s
<1>1. /\ r \in Seq(Frames) /\ Len(s) \in Nat /\ Len(r) = Len(s) + 1 /\ r[1] = f
      /\ \A i \in 1..Len(s) : r[i + 1] = s[i]
  OBVIOUS
<1>2. DOMAIN r = 1..(Len(s) + 1) /\ DOMAIN s = 1..Len(s)
  BY <1>1
<1> HIDE DEF r
<1>3. \A i \in DOMAIN s : i + 1 \in DOMAIN r /\ r[i + 1] = s[i]
  BY <1>1, <1>2
<1>4. ASSUME NEW i \in DOMAIN r
      PROVE  (i = 1 /\ r[i] = f) \/ \E j \in DOMAIN s : r[i] = s[j]
  <2>1. CASE i = 1
    BY <1>1, <2>1
  <2>2. CASE i # 1
    <3>1. i - 1 \in 1..Len(s) /\ (i - 1) + 1 = i
      BY <1>1, <1>2, <1>4, <2>2
    <3>2. r[i] = s[i - 1]
      BY <1>1, <3>1
    <3> QED BY <1>2, <3>1, <3>2
  <2> QED BY <2>1, <2>2
<1>5. 1 \in DOMAIN r /\ r[1] = f
  BY <1>1, <1>2
<1>6. \A k : Among(r, k) <=> Among(s, k) \/ f.kind = k
  BY <1>3, <1>4, <1>5 DEF Among
<1>7. \A k : ~Among(s, k) => OnlyFirst(r, k)
  BY <1>4 DEF Among, OnlyFirst
<1>8. Carried(s) \subseteq Carried(r)
  BY <1>3 DEF Carried
<1>9. ASSUME f.kind # "UPDATE" PROVE News(r) = News(s)
  BY <1>3, <1>4, <1>9 DEF News
<1>10. r \in Seq(Frames)
  BY <1>1
<1> QED BY <1>6, <1>7, <1>8, <1>9, <1>10 DEF r

-----------------------------------------------------------------------------
(* Full logs between the browsers of a room. *)

Only(t) == \A u \in setup.tabs \ {t} : BrowserOf[u] # BrowserOf[t]

(* c has been in the room for longer than d. *)
Before(c, d) == \E i, j \in DOMAIN room : i < j /\ room[i] = c /\ room[j] = d

(* A connection nobody has opened yet, and one that is being opened.       *)
Undialed(c) == c[2] > conn[c[1]] => inbox[c] = << >> /\ handler[c] = "loop"

Dialing(t) == link[t] = "connecting" =>
  /\ inbox[Socket(t)] = << >> /\ handler[Socket(t)] = "loop"
  /\ Socket(t) \notin ToSet(room) /\ outbox[t] = << >>

(* The order of things on a connection: SUBSCRIBE comes first and once,    *)
(* its snapshot is the only one and goes first, the tab is live only when  *)
(* it has it, and whoever is refused has an ERROR on its way.  The tab     *)
(* keeps all it sends.                                                     *)
Talk(t) == HasSocket(t) =>
  LET c == Socket(t) IN
  /\ OnlyFirst(inbox[c], "SUBSCRIBE")
  /\ Among(inbox[c], "SUBSCRIBE") => handler[c] = "loop" /\ c \notin ToSet(room)
  /\ handler[c] = "load" => c \in ToSet(room)
  /\ Among(inbox[c], "SUBSCRIBE") \/ handler[c] = "load"
       => link[t] = "open" /\ ~Among(outbox[t], "SNAPSHOT")
  /\ OnlyFirst(outbox[t], "SNAPSHOT")
  /\ Among(outbox[t], "SNAPSHOT") => link[t] = "open"
  /\ c \notin ToSet(room) => /\ link[t] = "open" /\ ~Among(outbox[t], "SNAPSHOT")
                             /\ News(outbox[t]) = {}
  /\ handler[c] = "done" => Among(outbox[t], "ERROR")
  /\ Carried(inbox[c]) \subseteq doc[t]

(* What a tab has, or is about to have from the relay. *)
Hearing(t) == doc[t] \cup Carried(outbox[t])

(* Of two tabs in a room the earlier hears all that the later is sent, and *)
(* all the later knows unless that is still on its way to the relay.       *)
Told(a, b) == News(outbox[b]) \subseteq Hearing(a)

Knows(a, b) ==
  Only(b) /\ link[b] = "live" /\ handler[Socket(b)] # "done"
    => doc[b] \subseteq Hearing(a) \cup Carried(Unsent(b))

Paired(a, b) ==
  /\ a # b /\ HasSocket(a) /\ HasSocket(b)
  /\ Before(Socket(a), Socket(b))

Ahead(a, b) == Paired(a, b) => Told(a, b) /\ Knows(a, b)

Unheard(t) == Only(t) => chan[t] = << >>

JoinInv ==
  /\ \A c \in Conns : Undialed(c)
  /\ \A c \in ToSet(room) : c[2] <= conn[c[1]]
  /\ \A t \in Tabs : Dialing(t) /\ Talk(t) /\ Unheard(t)
  /\ \A a, b \in Tabs : Ahead(a, b)

LEMMA Framed ==
  ASSUME IInv
  PROVE  /\ inbox \in [Conns -> Seq(Frames)] /\ outbox \in [Tabs -> Seq(Frames)]
         /\ conn \in [Tabs -> Nat] /\ room \in Seq(Conns) /\ ToSet(room) \subseteq Conns
         /\ \A t \in Tabs : link[t] # "none" => Socket(t) \in Conns
<1>1. edits \in 0..EditLimit /\ EditLimit \in Nat /\ DialLimit \in Nat
  BY Deployment DEF IInv, Typed
<1>2. Written \subseteq SUBSET (Ops \cup {Poison}) /\ Stored \subseteq SUBSET (Ops \cup {Poison})
  BY <1>1 DEF Written, Stored, Ops
<1>3. ToRelay \subseteq Frames /\ ToTab \subseteq Frames
  BY <1>2 DEF ToRelay, ToTab, Frames
<1>4. inbox \in [Conns -> Seq(Frames)] /\ outbox \in [Tabs -> Seq(Frames)]
  BY <1>3, SeqMonotonic DEF IInv, Typed
<1>5. conn \in [Tabs -> 0..DialLimit] /\ room \in Seq(Conns)
  BY DEF IInv, Typed
<1>6. ToSet(room) \subseteq Conns
  BY <1>5 DEF ToSet
<1>7. ASSUME NEW t \in Tabs, link[t] # "none" PROVE Socket(t) \in Conns
  <2>1. conn[t] >= 1
    BY <1>7 DEF IInv, Open
  <2> QED BY <1>1, <1>5, <2>1 DEF Socket, Conns, Dials
<1> QED BY <1>1, <1>4, <1>5, <1>6, <1>7

LEMMA Joins ==
  ASSUME NEW S, NEW x \in Seq(S), NEW y \in Seq(S)
  PROVE  /\ x \o y \in Seq(S) /\ Len(x \o y) = Len(x) + Len(y)
         /\ \A k \in 1..Len(x) : (x \o y)[k] = x[k]
         /\ \A k \in 1..Len(y) : (x \o y)[Len(x) + k] = y[k]
  OBVIOUS

(* A socket that leaves the room keeps the others' order. *)
LEMMA RoomLeft ==
  ASSUME IInv, NEW t \in Tabs, Unsubscribe(t)
  PROVE  /\ ToSet(room') \subseteq ToSet(room)
         /\ \A c \in ToSet(room) : c # Socket(t) => c \in ToSet(room')
         /\ \A c, d : Before(c, d)' => Before(c, d)
<1>1. CASE UNCHANGED room
  BY <1>1 DEF Before
<1>2. ASSUME NEW i \in DOMAIN room, room[i] = Socket(t), room' = RemoveAt(room, i)
      PROVE  /\ ToSet(room') \subseteq ToSet(room)
             /\ \A c \in ToSet(room) : c # Socket(t) => c \in ToSet(room')
             /\ \A c, d : Before(c, d)' => Before(c, d)
  <2> DEFINE x == SubSeq(room, 1, i - 1)
             y == SubSeq(room, i + 1, Len(room))
  <2>1. /\ room \in Seq(Conns) /\ Len(room) \in Nat /\ i \in 1..Len(room)
        /\ DOMAIN room = 1..Len(room)
    BY <1>2 DEF IInv, Typed
  <2>2. /\ x \in Seq(Conns) /\ Len(x) = i - 1
        /\ y \in Seq(Conns) /\ Len(y) = Len(room) - i
        /\ \A k \in 1..(i - 1) : x[k] = room[k]
        /\ \A k \in 1..(Len(room) - i) : y[k] = room[i + k]
    BY <2>1, SMTT(30)
  <2>3. room' = x \o y
    BY <1>2 DEF RemoveAt
  <2> HIDE DEF x, y
  <2>4. /\ room' \in Seq(Conns) /\ Len(room') = Len(room) - 1
        /\ DOMAIN room' = 1..(Len(room) - 1)
        /\ \A k \in 1..(Len(room) - 1) :
             room'[k] = IF k < i THEN room[k] ELSE room[k + 1]
    <3>1. /\ room' \in Seq(Conns) /\ Len(room') = Len(x) + Len(y)
          /\ \A k \in 1..Len(x) : room'[k] = x[k]
          /\ \A k \in 1..Len(y) : room'[Len(x) + k] = y[k]
      <4>1. x \in Seq(Conns) /\ y \in Seq(Conns)
        BY <2>2
      <4> DEFINE z == x \o y
      <4>2. /\ z \in Seq(Conns) /\ Len(z) = Len(x) + Len(y)
            /\ \A k \in 1..Len(x) : z[k] = x[k]
            /\ \A k \in 1..Len(y) : z[Len(x) + k] = y[k]
        BY <4>1, Joins
      <4>3. room' = z
        BY <2>3
      <4> HIDE DEF z
      <4> QED BY <4>2, <4>3
    <3>2. Len(room') = Len(room) - 1 /\ DOMAIN room' = 1..(Len(room) - 1)
      BY <2>1, <2>2, <3>1
    <3>3. ASSUME NEW k \in 1..(Len(room) - 1), k < i PROVE room'[k] = room[k]
      BY <2>1, <2>2, <3>1, <3>3, SMTT(30)
    <3>4. ASSUME NEW k \in 1..(Len(room) - 1), ~(k < i) PROVE room'[k] = room[k + 1]
      <4> DEFINE l == k - Len(x)
      <4>1. l \in 1..(Len(room) - i) /\ i + l = k + 1 /\ Len(x) + l = k
        BY <2>1, <2>2, <3>4, SMTT(30)
      <4> HIDE DEF l
      <4>2. room'[k] = y[l]
        BY <2>2, <3>1, <4>1
      <4> QED BY <2>2, <4>1, <4>2
    <3> QED BY <3>1, <3>2, <3>3, <3>4
  <2> DEFINE at(k) == IF k < i THEN k ELSE k + 1
  <2>5. \A k \in DOMAIN room' : at(k) \in DOMAIN room /\ room'[k] = room[at(k)]
    BY <2>1, <2>4
  <2>6. \A k, l \in DOMAIN room' : k < l => at(k) < at(l)
    BY <2>1, <2>4
  <2>7. ASSUME NEW k \in DOMAIN room, k # i PROVE \E l \in DOMAIN room' : room'[l] = room[k]
    <3>1. CASE k < i
      BY <2>1, <2>4, <3>1
    <3>2. CASE ~(k < i)
      <4>1. k - 1 \in DOMAIN room' /\ ~(k - 1 < i) /\ (k - 1) + 1 = k
        BY <2>1, <2>4, <2>7, <3>2
      <4> QED BY <2>4, <4>1
    <3> QED BY <3>1, <3>2
  <2> HIDE DEF at
  <2> QED BY <1>2, <2>5, <2>6, <2>7 DEF ToSet, Before
<1> QED BY <1>1, <1>2 DEF Unsubscribe

LEMMA RoomJoined ==
  ASSUME room \in Seq(Conns), NEW c \in Conns, room' = Append(room, c)
  PROVE  /\ ToSet(room') = ToSet(room) \cup {c}
         /\ \A d, e : Before(d, e)' => Before(d, e) \/ e = c
<1>1. ToSet(room') = ToSet(room) \cup {c}
  BY Queued
<1>2. /\ Len(room) \in Nat /\ DOMAIN room = 1..Len(room)
      /\ DOMAIN room' = 1..(Len(room) + 1)
      /\ \A k \in 1..Len(room) : room'[k] = room[k]
      /\ room'[Len(room) + 1] = c
  OBVIOUS
<1>3. ASSUME NEW d, NEW e, Before(d, e)', e # c PROVE Before(d, e)
  <2>1. PICK i, j \in DOMAIN room' : i < j /\ room'[i] = d /\ room'[j] = e
    BY <1>3 DEF Before
  <2>2. j \in 1..Len(room) /\ i \in 1..Len(room)
    BY <1>2, <1>3, <2>1
  <2> QED BY <1>2, <2>1, <2>2 DEF Before
<1> QED BY <1>1, <1>3

-----------------------------------------------------------------------------
(* What a step leaves alone of a tab and its connection. *)
Same(t) ==
  /\ link'[t] = link[t] /\ conn'[t] = conn[t]
  /\ outbox'[t] = outbox[t] /\ doc'[t] = doc[t]
  /\ link[t] \in {"connecting", "open", "live"} =>
       /\ inbox'[Socket(t)] = inbox[Socket(t)]
       /\ handler'[Socket(t)] = handler[Socket(t)]
       /\ Socket(t) \in ToSet(room') <=> Socket(t) \in ToSet(room)

LEMMA SameTalk ==
  ASSUME NEW t \in Tabs, Same(t), Talk(t), Dialing(t)
  PROVE  Talk(t)' /\ Dialing(t)'
<1>1. Socket(t)' = Socket(t) /\ (HasSocket(t)' <=> HasSocket(t))
  BY DEF Same, Socket, HasSocket
<1>2. Talk(t)'
  <2>1. CASE HasSocket(t)
    <3>1. /\ inbox'[Socket(t)'] = inbox[Socket(t)]
          /\ handler'[Socket(t)'] = handler[Socket(t)]
          /\ Socket(t)' \in ToSet(room') <=> Socket(t) \in ToSet(room)
          /\ link'[t] = link[t] /\ outbox'[t] = outbox[t] /\ doc'[t] = doc[t]
      BY <1>1, <2>1 DEF Same, HasSocket
    <3> QED BY <2>1, <3>1 DEF Talk
  <2>2. CASE ~HasSocket(t)
    BY <1>1, <2>2 DEF Talk
  <2> QED BY <2>1, <2>2
<1>3. Dialing(t)'
  BY <1>1 DEF Dialing, Same
<1> QED BY <1>2, <1>3

LEMMA SamePair ==
  ASSUME NEW a \in Tabs, NEW b \in Tabs, Same(a), Same(b), UNCHANGED setup,
         Ahead(a, b), \A c, d : Before(c, d)' => Before(c, d)
  PROVE  Ahead(a, b)'
<1> SUFFICES ASSUME Paired(a, b)' PROVE Told(a, b)' /\ Knows(a, b)'
  BY DEF Ahead
<1>1. Socket(a)' = Socket(a) /\ Socket(b)' = Socket(b)
  BY DEF Same, Socket
<1>2. Paired(a, b)
  BY <1>1 DEF Paired, HasSocket, Same
<1>3. Hearing(a)' = Hearing(a) /\ Unsent(b)' = Unsent(b)
  BY <1>1, <1>2 DEF Hearing, Unsent, Same, Paired, HasSocket
<1>4. Told(a, b) /\ Knows(a, b)
  BY <1>2 DEF Ahead
<1>5. Told(a, b)'
  BY <1>3, <1>4 DEF Told, Same
<1>6. Knows(a, b)'
  BY <1>1, <1>2, <1>3, <1>4 DEF Knows, Only, Same, Paired, HasSocket
<1> QED BY <1>5, <1>6

(* A tab that has no socket after the step. *)
LEMMA GoneStep ==
  ASSUME IInv, JoinInv, UNCHANGED << setup, handler >>, NEW t \in Tabs,
         conn' \in [Tabs -> 0..DialLimit], ~HasSocket(t)',
         \A u \in Tabs \ {t} : /\ link'[u] = link[u] /\ conn'[u] = conn[u]
                               /\ outbox'[u] = outbox[u] /\ doc'[u] = doc[u],
         \A c \in Conns : c # Socket(t) => inbox'[c] = inbox[c],
         \A u \in Tabs : chan'[u] \in {chan[u], << >>},
         \/ /\ conn' = conn /\ link'[t] # "connecting"
            /\ (UNCHANGED room) \/ Unsubscribe(t)
         \/ /\ NewSocket(t) /\ UNCHANGED << inbox, room >>
  PROVE  JoinInv'
<1>0. /\ conn \in [Tabs -> Nat] /\ ToSet(room) \subseteq Conns
      /\ \A u \in Tabs : link[u] # "none" => Socket(u) \in Conns
  BY Framed
<1>1. conn'[t] \in {conn[t], conn[t] + 1} /\ conn'[t] >= conn[t]
  BY <1>0 DEF NewSocket
<1>2. /\ ToSet(room') \subseteq ToSet(room)
      /\ \A c \in ToSet(room) : c # Socket(t) => c \in ToSet(room')
      /\ \A c, d : Before(c, d)' => Before(c, d)
  <2>1. CASE UNCHANGED room
    BY <2>1 DEF Before
  <2>2. CASE Unsubscribe(t)
    BY <2>2, RoomLeft
  <2> QED BY <2>1, <2>2
<1>3. ASSUME NEW u \in Tabs, u # t PROVE Same(u)
  <2>1. Socket(u) # Socket(t)
    BY <1>3 DEF Socket
  <2> QED BY <1>0, <1>2, <1>3, <2>1 DEF Same
<1>4. ASSUME NEW c \in Conns PROVE Undialed(c)'
  <2>1. c[1] \in Tabs /\ c[2] \in Nat
    BY RoomSyncAssumption DEF Conns, Dials, RoomSyncAssumption
  <2>2. Undialed(c)
    BY DEF JoinInv
  <2>3. CASE c[1] # t
    <3>1. c # Socket(t)
      BY <2>3 DEF Socket
    <3> QED BY <2>1, <2>2, <2>3, <3>1 DEF Undialed
  <2>4. CASE c[1] = t
    <3> SUFFICES ASSUME c[2] > conn'[t] PROVE inbox'[c] = << >> /\ handler'[c] = "loop"
      BY <2>4 DEF Undialed
    <3>1. c[2] > conn[t]
      BY <1>0, <1>1, <2>1
    <3>2. c # Socket(t)
      BY <1>0, <2>1, <3>1 DEF Socket
    <3> QED BY <2>2, <2>4, <3>1, <3>2 DEF Undialed
  <2> QED BY <2>3, <2>4
<1>5. ASSUME NEW c \in ToSet(room') PROVE c[2] <= conn'[c[1]]
  <2>1. c \in Conns /\ c[1] \in Tabs /\ c[2] \in Nat /\ c[2] <= conn[c[1]]
    BY <1>0, <1>2, RoomSyncAssumption DEF JoinInv, Conns, Dials, RoomSyncAssumption
  <2> QED BY <1>0, <1>1, <2>1
<1>6. Dialing(t)'
  <2> SUFFICES ASSUME link'[t] = "connecting" PROVE Dialing(t)'
    BY DEF Dialing
  <2>1. /\ conn'[t] = conn[t] + 1 /\ outbox'[t] = << >>
        /\ inbox' = inbox /\ room' = room
    BY <1>0 DEF NewSocket, IInv, Typed
  <2> DEFINE c == << t, conn[t] + 1 >>
  <2>2. Socket(t)' = c /\ c[1] = t /\ c[2] = conn[t] + 1 /\ conn[t] \in Nat
    BY <1>0, <2>1 DEF Socket
  <2>3. c \in Conns
    <3>1. DialLimit \in Nat
      BY RoomSyncAssumption DEF RoomSyncAssumption
    <3> QED BY <2>1, <2>2, <3>1 DEF Conns, Dials
  <2>4. c \in Conns => inbox[c] = << >> /\ handler[c] = "loop"
    BY <2>2 DEF JoinInv, Undialed
  <2>5. c \notin ToSet(room)
    BY <2>2 DEF JoinInv
  <2> QED BY <2>1, <2>2, <2>3, <2>4, <2>5 DEF Dialing
<1>7. ASSUME NEW u \in Tabs PROVE Dialing(u)' /\ Talk(u)' /\ Unheard(u)'
  <2>1. Dialing(u) /\ Talk(u) /\ Unheard(u)
    BY DEF JoinInv
  <2>2. Unheard(u)'
    BY <2>1 DEF Unheard, Only
  <2>3. CASE u = t
    BY <1>6, <2>2, <2>3 DEF Talk
  <2>4. CASE u # t
    BY <1>3, <2>1, <2>2, <2>4, SameTalk
  <2> QED BY <2>3, <2>4
<1>8. ASSUME NEW a \in Tabs, NEW b \in Tabs PROVE Ahead(a, b)'
  <2>1. CASE a = t \/ b = t
    BY <2>1 DEF Ahead, Paired
  <2>2. CASE a # t /\ b # t
    <3>1. Same(a) /\ Same(b) /\ Ahead(a, b)
      BY <1>3, <2>2 DEF JoinInv
    <3> QED BY <1>2, <3>1, SamePair
  <2> QED BY <2>1, <2>2
<1> QED BY <1>4, <1>5, <1>7, <1>8 DEF JoinInv

-----------------------------------------------------------------------------
(* A tab opens, closes, loses its socket or gets a new one. *)
LEMMA GoneKeeps ==
  ASSUME IInv, IInv', JoinInv, UNCHANGED setup, NEW t \in Tabs,
         OpenTab(t) \/ Reconnect(t) \/ OnClose(t) \/ Drop(t) \/ Dispose(t) \/ Crash(t)
  PROVE  JoinInv'
<1>0. /\ conn' \in [Tabs -> 0..DialLimit] /\ link \in [Tabs -> Links]
      /\ outbox \in [Tabs -> Seq(ToTab)] /\ doc \in [Tabs -> Written]
      /\ chan \in [Tabs -> Seq(Written)] /\ inbox \in [Conns -> Seq(ToRelay)]
      /\ conn \in [Tabs -> 0..DialLimit]
  BY DEF IInv, Typed
<1>1. HasSocket(t) => Socket(t) \in Conns
  BY Framed DEF HasSocket
<1>2. CASE OpenTab(t) \/ Reconnect(t)
  <2>1. CASE NewSocket(t)
    <3>1. /\ ~HasSocket(t)'
          /\ \A u \in Tabs \ {t} : /\ link'[u] = link[u] /\ conn'[u] = conn[u]
                                   /\ outbox'[u] = outbox[u] /\ doc'[u] = doc[u]
      BY <1>0, <1>2, <2>1 DEF NewSocket, OpenTab, Reconnect, HasSocket
    <3>2. UNCHANGED << handler, inbox, room, chan >>
      BY <1>2 DEF OpenTab, Reconnect
    <3> QED BY <1>0, <2>1, <3>1, <3>2, GoneStep
  <2>2. CASE ~NewSocket(t)
    <3>1. /\ link' = link /\ conn' = conn /\ outbox' = outbox /\ link[t] = "none"
          /\ \A u \in Tabs \ {t} : doc'[u] = doc[u]
      BY <1>0, <1>2, <2>2 DEF OpenTab, Reconnect, IInv, Open
    <3>2. UNCHANGED << handler, inbox, room, chan >>
      BY <1>2 DEF OpenTab, Reconnect
    <3>3. ~HasSocket(t)'
      BY <3>1 DEF HasSocket
    <3> QED BY <1>0, <3>1, <3>2, <3>3, GoneStep
  <2> QED BY <2>1, <2>2
<1>3. CASE OnClose(t)
  <2>1. /\ UNCHANGED << handler, inbox, room, chan, conn, outbox, doc >>
        /\ link'[t] \in {"none", "waiting"}
        /\ \A u \in Tabs \ {t} : link'[u] = link[u]
    BY <1>0, <1>3 DEF OnClose, AfterClose, relay
  <2>2. ~HasSocket(t)' /\ link'[t] # "connecting"
    BY <2>1 DEF HasSocket
  <2> QED BY <1>0, <2>1, <2>2, GoneStep
<1>4. CASE Drop(t) \/ Crash(t) \/ Dispose(t)
  <2>1. /\ conn' = conn /\ handler' = handler /\ Unsubscribe(t)
        /\ link'[t] \in {"none", "waiting"}
        /\ \A u \in Tabs \ {t} : /\ link'[u] = link[u]
                                 /\ outbox'[u] = outbox[u] /\ doc'[u] = doc[u]
        /\ \A u \in Tabs : chan'[u] \in {chan[u], << >>}
    BY <1>0, <1>4 DEF Drop, Crash, Dispose, Leave, AfterClose
  <2>2. \A c \in Conns : c # Socket(t) => inbox'[c] = inbox[c]
    BY <1>0, <1>1, <1>4 DEF Drop, Crash, Dispose, KeepPrefix
  <2>3. ~HasSocket(t)' /\ link'[t] # "connecting"
    BY <2>1 DEF HasSocket
  <2> QED BY <1>0, <2>1, <2>2, <2>3, GoneStep
<1> QED BY <1>2, <1>3, <1>4

LEMMA InTheRoom ==
  ASSUME NEW c, NEW d, Before(c, d)
  PROVE  c \in ToSet(room) /\ d \in ToSet(room)
  BY DEF Before, ToSet

(* A step of one tab's own, which keeps the room. *)
LEMMA OwnStep ==
  ASSUME IInv, JoinInv, UNCHANGED << setup, conn, room, handler >>, NEW t \in Tabs,
         \A u \in Tabs \ {t} : /\ link'[u] = link[u]
                               /\ outbox'[u] = outbox[u] /\ doc'[u] = doc[u],
         \A c \in Conns : c # Socket(t) => inbox'[c] = inbox[c],
         Talk(t)', Dialing(t)', \A u \in Tabs : Unheard(u)',
         \A b \in Tabs : Paired(t, b)' => HasSocket(t) /\ Hearing(t) \subseteq Hearing(t)',
         \A a \in Tabs : Paired(a, t)' => Told(a, t)' /\ Knows(a, t)'
  PROVE  JoinInv'
<1>0. /\ conn \in [Tabs -> Nat] /\ ToSet(room) \subseteq Conns
      /\ \A u \in Tabs : link[u] # "none" => Socket(u) \in Conns
  BY Framed
<1>1. ASSUME NEW u \in Tabs, u # t PROVE Same(u)
  <2>1. Socket(u) # Socket(t)
    BY <1>1 DEF Socket
  <2> QED BY <1>0, <1>1, <2>1 DEF Same
<1>2. ASSUME NEW c \in Conns PROVE Undialed(c)'
  <2>1. c[1] \in Tabs /\ c[2] \in Nat /\ Undialed(c)
    BY RoomSyncAssumption DEF JoinInv, Conns, Dials, RoomSyncAssumption
  <2>2. CASE c = Socket(t)
    BY <1>0, <2>1, <2>2 DEF Undialed, Socket
  <2>3. CASE c # Socket(t)
    BY <2>1, <2>3 DEF Undialed
  <2> QED BY <2>2, <2>3
<1>3. ASSUME NEW u \in Tabs PROVE Dialing(u)' /\ Talk(u)' /\ Unheard(u)'
  <2>1. CASE u = t
    BY <2>1
  <2>2. CASE u # t
    BY <1>1, <2>2, SameTalk DEF JoinInv
  <2> QED BY <2>1, <2>2
<1>4. \A c, d : Before(c, d)' => Before(c, d)
  BY DEF Before
<1>5. ASSUME NEW a \in Tabs, NEW b \in Tabs PROVE Ahead(a, b)'
  <2>1. CASE b = t
    BY <2>1 DEF Ahead
  <2>2. CASE b # t /\ a # t
    BY <1>1, <1>4, <2>2, SamePair DEF JoinInv
  <2>3. CASE a = t /\ b # t
    <3> SUFFICES ASSUME Paired(t, b)' PROVE Told(t, b)' /\ Knows(t, b)'
      BY <2>3 DEF Ahead
    <3>1. Same(b) /\ Socket(t)' = Socket(t) /\ Socket(b)' = Socket(b)
      BY <1>1, <2>3 DEF Socket
    <3>2. Paired(t, b) /\ Hearing(t) \subseteq Hearing(t)'
      BY <1>4, <2>3, <3>1 DEF Paired, HasSocket, Same
    <3>3. Told(t, b) /\ Knows(t, b)
      BY <2>3, <3>2 DEF JoinInv, Ahead
    <3>4. Unsent(b)' = Unsent(b)
      BY <3>1, <3>2 DEF Unsent, Same, Paired, HasSocket
    <3>5. Told(t, b)'
      BY <3>1, <3>2, <3>3 DEF Told, Same
    <3>6. Knows(t, b)'
      BY <3>1, <3>2, <3>3, <3>4 DEF Knows, Only, Same, Paired, HasSocket
    <3> QED BY <3>5, <3>6
  <2> QED BY <2>1, <2>2, <2>3
<1> QED BY <1>2, <1>3, <1>5 DEF JoinInv

(* A tab with a socket sends its full log: the relay will get all it has.  *)
LEMMA PublishSends ==
  ASSUME IInv, IInv', NEW t \in Tabs, HasSocket(t), Publish(t, doc'[t]),
         UNCHANGED << setup, conn, handler >>
  PROVE  LET c == Socket(t) IN
         /\ c \in Conns
         /\ Among(inbox'[c], "SUBSCRIBE") <=> Among(inbox[c], "SUBSCRIBE")
         /\ OnlyFirst(inbox[c], "SUBSCRIBE") => OnlyFirst(inbox'[c], "SUBSCRIBE")
         /\ Carried(inbox'[c]) = Carried(inbox[c]) \cup doc'[t]
         /\ doc'[t] \subseteq Carried(Unsent(t)')
         /\ \A d \in Conns : d # c => inbox'[d] = inbox[d]
<1> DEFINE c == Socket(t)
           f == Frame("UPDATE", doc'[t])
           q == inbox[c]
<1>1. /\ c \in Conns /\ q \in Seq(Frames) /\ inbox \in [Conns -> Seq(Frames)]
  BY Framed DEF HasSocket
<1>2. f \in Frames /\ f.kind = "UPDATE" /\ f.ops = doc'[t]
  <2>1. edits' \in 0..EditLimit /\ EditLimit \in Nat
    BY Deployment DEF IInv, Typed
  <2>2. doc'[t] \in SUBSET (0..edits')
    BY DEF IInv, Typed, Written
  <2> QED BY <2>1, <2>2 DEF Frame, Frames, Ops
<1>3. inbox' = [inbox EXCEPT ![c] = Append(q, f)]
  BY DEF Publish
<1> HIDE DEF c, f, q
<1>4. /\ inbox'[c] = Append(q, f)
      /\ \A d \in Conns : d # c => inbox'[d] = inbox[d]
  BY <1>1, <1>3
<1>5. /\ Append(q, f) # << >>
      /\ \A k : Among(Append(q, f), k) <=> Among(q, k) \/ f.kind = k
      /\ \A k : OnlyFirst(q, k) /\ (f.kind # k \/ q = << >>) => OnlyFirst(Append(q, f), k)
      /\ Carried(Append(q, f)) = Carried(q) \cup f.ops
      /\ q # << >> => Tail(Append(q, f)) = Append(Tail(q), f)
  BY <1>1, <1>2, FrameAppended
<1>6. doc'[t] \subseteq Carried(Unsent(t)')
  <2>1. Unsent(t)' = IF handler[c] = "save" THEN Tail(inbox'[c]) ELSE inbox'[c]
    BY DEF Unsent, Socket, c
  <2>2. CASE handler[c] = "save"
    <3>1. q # << >>
      BY <1>1, <2>2 DEF IInv, Saving, q
    <3>2. Tail(q) \in Seq(Frames)
      BY <1>1, <3>1
    <3>3. Carried(Append(Tail(q), f)) = Carried(Tail(q)) \cup f.ops
      BY <1>2, <3>2, FrameAppended
    <3> QED BY <1>2, <1>4, <1>5, <2>1, <2>2, <3>1, <3>3
  <2>3. CASE handler[c] # "save"
    BY <1>2, <1>4, <1>5, <2>1, <2>3
  <2> QED BY <2>2, <2>3
<1> QED BY <1>1, <1>2, <1>4, <1>5, <1>6 DEF c, q

LEMMA PublishUnheard ==
  ASSUME IInv, JoinInv, NEW t \in opened, NEW ops, Publish(t, ops), UNCHANGED setup
  PROVE  \A u \in Tabs : Unheard(u)'
<1>1. opened \subseteq setup.tabs /\ setup.tabs \subseteq Tabs
  BY Deployment DEF IInv, Typed
<1>2. ASSUME NEW u \in Tabs, Only(u) PROVE chan'[u] = << >>
  <2>1. chan[u] = << >>
    BY <1>2 DEF JoinInv, Unheard
  <2>2. u \notin Mates(t)
    BY <1>1, <1>2 DEF Only, Mates
  <2> QED BY <2>1, <2>2 DEF Publish
<1> QED BY <1>2 DEF Unheard, Only

-----------------------------------------------------------------------------
LEMMA OpenKeeps ==
  ASSUME IInv, JoinInv, UNCHANGED setup, NEW t \in Tabs, OnOpen(t)
  PROVE  JoinInv'
<1> DEFINE c == Socket(t)
           first == << Frame("SUBSCRIBE", {}) >>
<1>1. /\ link[t] = "connecting" /\ link' = [link EXCEPT ![t] = "open"]
      /\ inbox' = [inbox EXCEPT ![c] = first]
      /\ UNCHANGED << doc, chan, conn, outbox, handler, room >>
  BY DEF OnOpen
<1>2. c \in Conns /\ inbox \in [Conns -> Seq(Frames)] /\ link \in [Tabs -> Links]
  BY <1>1, Framed DEF IInv, Typed
<1>3. /\ OnlyFirst(first, "SUBSCRIBE") /\ Carried(first) = {}
  BY DEF OnlyFirst, Carried, Frame
<1>4. handler[c] = "loop" /\ c \notin ToSet(room) /\ outbox[t] = << >>
  BY <1>1 DEF JoinInv, Dialing
<1> HIDE DEF c, first
<1>5. /\ inbox'[c] = first /\ link'[t] = "open"
      /\ \A d \in Conns : d # c => inbox'[d] = inbox[d]
      /\ \A u \in Tabs \ {t} : link'[u] = link[u]
  BY <1>1, <1>2
<1>6. Socket(t)' = c
  BY <1>1 DEF Socket, c
<1>7. Talk(t)'
  <2>1. /\ ~Among(outbox'[t], "SNAPSHOT") /\ OnlyFirst(outbox'[t], "SNAPSHOT")
        /\ News(outbox'[t]) = {}
    BY <1>1, <1>4, NoFrames
  <2> QED BY <1>1, <1>3, <1>4, <1>5, <1>6, <2>1 DEF Talk
<1>8. Dialing(t)'
  BY <1>5 DEF Dialing
<1>9. \A u \in Tabs : Unheard(u)'
  BY <1>1 DEF JoinInv, Unheard, Only
<1>10. \A a \in Tabs : ~Paired(a, t)' /\ ~Paired(t, a)'
  <2>1. \A d, e : Before(d, e)' => Before(d, e)
    BY <1>1 DEF Before
  <2>2. ASSUME NEW d, Before(d, c) \/ Before(c, d) PROVE FALSE
    BY <1>4, <2>2, InTheRoom
  <2> QED BY <1>6, <2>1, <2>2 DEF Paired
<1> QED BY <1>1, <1>5, <1>7, <1>8, <1>9, <1>10, OwnStep DEF c

LEMMA EditKeeps ==
  ASSUME IInv, IInv', JoinInv, UNCHANGED setup, NEW t \in Tabs, Edit(t)
  PROVE  JoinInv'
<1> DEFINE c == Socket(t)
<1>1. /\ t \in opened /\ doc[t] \subseteq doc'[t] /\ Publish(t, doc'[t])
      /\ UNCHANGED << link, conn, outbox, handler, room >>
      /\ \A u \in Tabs \ {t} : doc'[u] = doc[u]
  BY DEF Edit, session, IInv, Typed
<1>2. Socket(t)' = c /\ (HasSocket(t)' <=> HasSocket(t)) /\ Talk(t) /\ Dialing(t)
  BY <1>1 DEF Socket, HasSocket, JoinInv
<1>3. ASSUME HasSocket(t)
      PROVE  /\ Talk(t)' /\ doc'[t] \subseteq Carried(Unsent(t)')
             /\ \A d \in Conns : d # c => inbox'[d] = inbox[d]
  <2>1. /\ Among(inbox'[c], "SUBSCRIBE") <=> Among(inbox[c], "SUBSCRIBE")
        /\ OnlyFirst(inbox[c], "SUBSCRIBE") => OnlyFirst(inbox'[c], "SUBSCRIBE")
        /\ Carried(inbox'[c]) = Carried(inbox[c]) \cup doc'[t]
        /\ doc'[t] \subseteq Carried(Unsent(t)')
        /\ \A d \in Conns : d # c => inbox'[d] = inbox[d]
    BY <1>1, <1>3, PublishSends
  <2> HIDE DEF c
  <2>2. Talk(t)'
    BY <1>1, <1>2, <1>3, <2>1 DEF Talk, c
  <2> QED BY <2>1, <2>2
<1>4. ASSUME ~HasSocket(t)
      PROVE  Talk(t)' /\ inbox' = inbox
  BY <1>1, <1>2, <1>4 DEF Talk, Publish
<1>5. Dialing(t)'
  <2>1. CASE HasSocket(t)
    BY <1>1, <2>1 DEF Dialing, HasSocket
  <2>2. CASE ~HasSocket(t)
    BY <1>1, <1>2, <1>4, <2>2 DEF Dialing
  <2> QED BY <2>1, <2>2
<1>6. \A u \in Tabs : Unheard(u)'
  BY <1>1, PublishUnheard
<1>7. Hearing(t) \subseteq Hearing(t)'
  BY <1>1 DEF Hearing
<1>8. ASSUME NEW a \in Tabs, Paired(a, t)' PROVE Told(a, t)' /\ Knows(a, t)'
  <2>1. /\ HasSocket(t) /\ a # t /\ HasSocket(a) /\ Before(Socket(a), c)
        /\ Hearing(a)' = Hearing(a)
    BY <1>1, <1>2, <1>8 DEF Paired, HasSocket, Socket, Before, Hearing
  <2>2. Told(a, t)
    BY <2>1 DEF JoinInv, Ahead, Paired
  <2> QED BY <1>1, <1>3, <2>1, <2>2 DEF Told, Knows
<1> QED BY <1>1, <1>2, <1>3, <1>4, <1>5, <1>6, <1>7, <1>8, OwnStep DEF Paired

LEMMA ChannelKeeps ==
  ASSUME IInv, JoinInv, UNCHANGED setup, NEW t \in Tabs, OnChannel(t)
  PROVE  JoinInv'
<1>1. /\ UNCHANGED << link, conn, inbox, outbox, handler, room >>
      /\ chan[t] # << >> /\ \A u \in Tabs \ {t} : chan'[u] = chan[u]
      /\ doc[t] \subseteq doc'[t] /\ \A u \in Tabs \ {t} : doc'[u] = doc[u]
  BY DEF OnChannel, Import, session, relay, IInv, Typed
<1>2. ~Only(t) /\ ~Only(t)'
  BY <1>1 DEF JoinInv, Unheard, Only
<1>3. Socket(t)' = Socket(t) /\ (HasSocket(t)' <=> HasSocket(t)) /\ Talk(t) /\ Dialing(t)
  BY <1>1 DEF Socket, HasSocket, JoinInv
<1>4. Talk(t)' /\ Dialing(t)'
  BY <1>1, <1>3 DEF Talk, Dialing
<1>5. \A u \in Tabs : Unheard(u)'
  BY <1>1, <1>2 DEF JoinInv, Unheard, Only
<1>6. Hearing(t) \subseteq Hearing(t)'
  BY <1>1 DEF Hearing
<1>7. ASSUME NEW a \in Tabs, Paired(a, t)' PROVE Told(a, t)' /\ Knows(a, t)'
  <2>1. Paired(a, t) /\ Hearing(a)' = Hearing(a)
    BY <1>1, <1>7 DEF Paired, HasSocket, Socket, Before, Hearing
  <2>2. Told(a, t)
    BY <2>1 DEF JoinInv, Ahead
  <2> QED BY <1>1, <1>2, <2>1, <2>2 DEF Told, Knows
<1> QED BY <1>1, <1>3, <1>4, <1>5, <1>6, <1>7, OwnStep DEF Paired

(* What a tab imports it was to hear; what its first snapshot brings it    *)
(* announces, and what follows the others of the room hear too.            *)
LEMMA MessageKeeps ==
  ASSUME IInv, IInv', JoinInv, UNCHANGED setup, NEW t \in Tabs, OnMessage(t)
  PROVE  JoinInv'
<1> DEFINE c == Socket(t)
           f == Head(outbox[t])
           s == outbox[t]
<1>1. /\ HasSocket(t) /\ s # << >> /\ s \in Seq(Frames) /\ c \in Conns
      /\ outbox \in [Tabs -> Seq(Frames)]
      /\ outbox' = [outbox EXCEPT ![t] = Tail(s)]
      /\ UNCHANGED << conn, handler >> /\ t \in opened
      /\ doc \in [Tabs -> Written] /\ link \in [Tabs -> Links]
  BY Framed DEF OnMessage, HasSocket, IInv, Open, Typed
<1>2. Talk(t) /\ Dialing(t)
  BY DEF JoinInv
<1>3. /\ f \in Frames /\ Tail(s) \in Seq(Frames)
      /\ \A k : Among(s, k) <=> f.kind = k \/ Among(Tail(s), k)
      /\ \A k : OnlyFirst(s, k) => ~Among(Tail(s), k) /\ OnlyFirst(Tail(s), k)
      /\ Carried(s) = f.ops \cup Carried(Tail(s))
      /\ News(Tail(s)) \subseteq News(s)
      /\ f.kind = "UPDATE" => f.ops \subseteq News(s)
  BY <1>1, FrameRead
<1>4. /\ outbox'[t] = Tail(s)
      /\ \A u \in Tabs \ {t} : outbox'[u] = outbox[u]
  BY <1>1
<1>5. Socket(t)' = c
  BY <1>1 DEF Socket
<1>6. CASE GoOffline(t) /\ UNCHANGED << doc, dirty, chan, inbox, posted >>
  <2>1. /\ link'[t] = "closing" /\ \A u \in Tabs \ {t} : link'[u] = link[u]
        /\ Unsubscribe(t)
    BY <1>1, <1>6 DEF GoOffline
  <2>2. ~HasSocket(t)' /\ conn' \in [Tabs -> 0..DialLimit] /\ link'[t] # "connecting"
    BY <2>1 DEF HasSocket, IInv, Typed
  <2> QED BY <1>1, <1>4, <1>6, <2>1, <2>2, GoneStep
<1>7. ASSUME f.kind # "ERROR", Import(t, f.ops), UNCHANGED room
      PROVE  /\ doc'[t] = doc[t] \cup f.ops /\ Hearing(t)' = Hearing(t)
             /\ \A u \in Tabs \ {t} : doc'[u] = doc[u]
             /\ Among(Tail(s), "ERROR") <=> Among(s, "ERROR")
             /\ \A a \in Tabs : Paired(a, t)' /\ a # t =>
                  Told(a, t)' /\ Hearing(a)' = Hearing(a)
  <2>1. /\ doc'[t] = doc[t] \cup f.ops
        /\ \A u \in Tabs \ {t} : doc'[u] = doc[u]
    BY <1>1, <1>7 DEF Import
  <2> HIDE DEF f, s
  <2>2. Hearing(t)' = Hearing(t)
    BY <1>3, <1>4, <2>1 DEF Hearing, s
  <2>3. Among(Tail(s), "ERROR") <=> Among(s, "ERROR")
    BY <1>3, <1>7
  <2>4. ASSUME NEW a \in Tabs, a # t, Paired(a, t)'
        PROVE  Told(a, t)' /\ Hearing(a)' = Hearing(a)
    <3>1. Hearing(a)' = Hearing(a)
      BY <1>4, <2>1, <2>4 DEF Hearing
    <3>2. Paired(a, t)
      <4>1. HasSocket(a)
        BY <1>1, <2>4 DEF Paired, OnMessage, GoOffline, HasSocket
      <4>2. Before(Socket(a), Socket(t))
        BY <1>1, <1>7, <2>4 DEF Paired, Before, Socket
      <4> QED BY <1>1, <2>4, <4>1, <4>2 DEF Paired
    <3>3. News(s) \subseteq Hearing(a)
      BY <3>2 DEF JoinInv, Ahead, Told, s
    <3> QED BY <1>3, <1>4, <3>1, <3>3 DEF Told
  <2> QED BY <2>1, <2>2, <2>3, <2>4
<1>8. CASE /\ f.kind # "ERROR" /\ ~(f.kind = "SNAPSHOT" /\ link[t] = "open")
           /\ Import(t, f.ops) /\ UNCHANGED << link, chan, inbox, room >>
  <2>1. /\ doc'[t] = doc[t] \cup f.ops /\ Hearing(t)' = Hearing(t)
        /\ \A u \in Tabs \ {t} : doc'[u] = doc[u]
        /\ Among(Tail(s), "ERROR") <=> Among(s, "ERROR")
        /\ \A a \in Tabs : Paired(a, t)' /\ a # t =>
             Told(a, t)' /\ Hearing(a)' = Hearing(a)
    BY <1>7, <1>8
  <2> HIDE DEF c, f, s
  <2>2. Talk(t)'
    BY <1>1, <1>2, <1>3, <1>4, <1>5, <1>8, <2>1 DEF Talk, c, s
  <2>3. Dialing(t)'
    BY <1>1, <1>8 DEF Dialing, HasSocket
  <2>4. \A u \in Tabs : Unheard(u)'
    BY <1>8 DEF JoinInv, Unheard, Only
  <2>5. ASSUME NEW a \in Tabs, Paired(a, t)' PROVE Told(a, t)' /\ Knows(a, t)'
    <3>1. a # t
      BY <2>5 DEF Paired
    <3>2. Told(a, t)' /\ Hearing(a)' = Hearing(a)
      BY <2>1, <2>5, <3>1
    <3>3. Paired(a, t)
      BY <1>1, <1>8, <2>5 DEF Paired, HasSocket, Socket, Before
    <3>4. Told(a, t) /\ Knows(a, t)
      BY <3>3 DEF JoinInv, Ahead
    <3>5. Unsent(t)' = Unsent(t)
      BY <1>1, <1>8 DEF Unsent, Socket
    <3>6. ASSUME link[t] = "live" PROVE f.ops \subseteq Hearing(a)
      <4>1. f.kind # "SNAPSHOT" /\ f.kind # "SUBSCRIBE"
        <5>1. f.kind # "SNAPSHOT"
          BY <1>1, <1>2, <1>3, <3>6 DEF Talk, s
        <5>2. s \in Seq(ToTab)
          BY DEF IInv, Typed, s
        <5>3. f \in ToTab
          BY <1>1, <5>2 DEF f, s
        <5> QED BY <5>1, <5>3 DEF ToTab
      <4>2. f.kind = "UPDATE"
        BY <1>3, <1>8, <4>1 DEF Frames
      <4> QED BY <1>3, <3>4, <4>2 DEF Told, s
    <3>7. Knows(a, t)'
      BY <1>1, <1>5, <1>8, <2>1, <3>2, <3>4, <3>5, <3>6 DEF Knows, Only, c
    <3> QED BY <3>2, <3>7
  <2> QED BY <1>1, <1>4, <1>8, <2>1, <2>2, <2>3, <2>4, <2>5, OwnStep DEF c
<1>9. CASE /\ f.kind = "SNAPSHOT" /\ link[t] = "open" /\ Import(t, f.ops)
           /\ link' = [link EXCEPT ![t] = "live"]
           /\ Publish(t, doc[t] \cup f.ops) /\ UNCHANGED room
  <2>1. /\ doc'[t] = doc[t] \cup f.ops /\ Hearing(t)' = Hearing(t)
        /\ \A u \in Tabs \ {t} : doc'[u] = doc[u]
        /\ Among(Tail(s), "ERROR") <=> Among(s, "ERROR")
        /\ \A a \in Tabs : Paired(a, t)' /\ a # t =>
             Told(a, t)' /\ Hearing(a)' = Hearing(a)
    BY <1>7, <1>9
  <2>2. link'[t] = "live" /\ \A u \in Tabs \ {t} : link'[u] = link[u]
    BY <1>1, <1>9
  <2>3. Publish(t, doc'[t])
    BY <1>9, <2>1
  <2>4. /\ Among(inbox'[c], "SUBSCRIBE") <=> Among(inbox[c], "SUBSCRIBE")
        /\ OnlyFirst(inbox[c], "SUBSCRIBE") => OnlyFirst(inbox'[c], "SUBSCRIBE")
        /\ Carried(inbox'[c]) = Carried(inbox[c]) \cup doc'[t]
        /\ doc'[t] \subseteq Carried(Unsent(t)')
        /\ \A d \in Conns : d # c => inbox'[d] = inbox[d]
    BY <1>1, <2>3, PublishSends
  <2> HIDE DEF c, f, s
  <2>5. /\ ~Among(inbox[c], "SUBSCRIBE") /\ handler[c] # "load" /\ c \in ToSet(room)
        /\ ~Among(Tail(s), "SNAPSHOT") /\ OnlyFirst(Tail(s), "SNAPSHOT")
    BY <1>1, <1>2, <1>3, <1>9 DEF Talk, c, s
  <2>6. Talk(t)'
    BY <1>1, <1>2, <1>4, <1>5, <1>9, <2>1, <2>2, <2>4, <2>5 DEF Talk, c, s
  <2>7. Dialing(t)'
    BY <2>2 DEF Dialing
  <2>8. \A u \in Tabs : Unheard(u)'
    BY <1>1, <2>3, PublishUnheard
  <2>9. ASSUME NEW a \in Tabs, Paired(a, t)' PROVE Told(a, t)' /\ Knows(a, t)'
    <3>1. a # t
      BY <2>9 DEF Paired
    <3> QED BY <2>1, <2>4, <2>9, <3>1 DEF Knows
  <2> QED BY <1>1, <1>4, <1>9, <2>1, <2>2, <2>4, <2>6, <2>7, <2>8, <2>9, OwnStep DEF c
<1> QED BY <1>6, <1>8, <1>9 DEF OnMessage

-----------------------------------------------------------------------------
(* A step of the relay for one connection, which the tabs do not notice.   *)
LEMMA RelayKeeps ==
  ASSUME IInv, JoinInv, UNCHANGED setup, UNCHANGED tabs, NEW c \in Conns,
         inbox[c] # << >> \/ handler[c] # "loop",
         \A d \in Conns : d # c => inbox'[d] = inbox[d] /\ handler'[d] = handler[d],
         \A d \in Conns : d # c => (d \in ToSet(room') <=> d \in ToSet(room)),
         ToSet(room') \subseteq ToSet(room) \cup {c},
         c \in ToSet(room') => c \in ToSet(room) \/ Attached(c),
         \A u \in Tabs : ~HasSocket(u) => outbox'[u] = outbox[u],
         \A u \in Tabs : HasSocket(u) => Talk(u)',
         \A a, b \in Tabs : Paired(a, b)' => Told(a, b)' /\ Knows(a, b)'
  PROVE  JoinInv'
<1>0. /\ conn \in [Tabs -> Nat] /\ ToSet(room) \subseteq Conns
      /\ \A u \in Tabs : link[u] # "none" => Socket(u) \in Conns
      /\ UNCHANGED << link, conn, doc, chan >>
  BY Framed DEF tabs, session
<1>1. c[1] \in Tabs /\ c[2] \in Nat /\ ~(c[2] > conn[c[1]]) /\ c[2] <= conn[c[1]]
  <2>1. c[1] \in Tabs /\ c[2] \in Nat /\ Undialed(c)
    BY RoomSyncAssumption DEF JoinInv, Conns, Dials, RoomSyncAssumption
  <2>2. ~(c[2] > conn[c[1]])
    BY <2>1 DEF Undialed
  <2> QED BY <1>0, <2>1, <2>2
<1>2. ASSUME NEW d \in Conns PROVE Undialed(d)'
  BY <1>0, <1>1 DEF JoinInv, Undialed
<1>3. ASSUME NEW d \in ToSet(room') PROVE d[2] <= conn'[d[1]]
  BY <1>0, <1>1 DEF JoinInv
<1>4. ASSUME NEW u \in Tabs PROVE Dialing(u)' /\ Talk(u)' /\ Unheard(u)'
  <2>1. Unheard(u)'
    BY <1>0 DEF JoinInv, Unheard, Only
  <2>2. CASE HasSocket(u)
    <3>1. Dialing(u)'
      BY <1>0, <2>2 DEF HasSocket, Dialing
    <3> QED BY <2>1, <2>2, <3>1
  <2>3. CASE ~HasSocket(u)
    <3>1. Talk(u)'
      BY <1>0, <2>3 DEF HasSocket, Talk
    <3>2. ASSUME link[u] = "connecting" PROVE Dialing(u)'
      <4>1. Dialing(u) /\ Socket(u) \in Conns /\ Socket(u)' = Socket(u)
        BY <1>0, <3>2 DEF JoinInv, Socket
      <4>2. Socket(u) # c
        BY <3>2, <4>1 DEF Dialing
      <4> QED BY <1>0, <2>3, <3>2, <4>1, <4>2 DEF Dialing
    <3>3. Dialing(u)'
      BY <1>0, <3>2 DEF Dialing
    <3> QED BY <2>1, <3>1, <3>3
  <2> QED BY <2>2, <2>3
<1> QED BY <1>2, <1>3, <1>4 DEF JoinInv, Ahead

(* A tab of another connection, to which nothing is sent.                  *)
LEMMA OtherTalk ==
  ASSUME IInv, JoinInv, UNCHANGED tabs, NEW c \in Conns, NEW u \in Tabs, HasSocket(u), Socket(u) # c,
         outbox'[u] = outbox[u],
         \A d \in Conns : d # c => inbox'[d] = inbox[d] /\ handler'[d] = handler[d],
         \A d \in Conns : d # c => (d \in ToSet(room') <=> d \in ToSet(room))
  PROVE  Talk(u)' /\ Same(u)
<1>1. Socket(u) \in Conns /\ UNCHANGED << link, conn, doc >>
  BY Framed DEF HasSocket, tabs, session
<1>2. Same(u)
  BY <1>1 DEF Same
<1> QED BY <1>2, SameTalk DEF JoinInv

(* What the relay's steps need of a connection c.                          *)
LEMMA Served ==
  ASSUME IInv, NEW c \in Conns
  PROVE  /\ inbox \in [Conns -> Seq(Frames)] /\ outbox \in [Tabs -> Seq(Frames)]
         /\ room \in Seq(Conns) /\ handler \in [Conns -> Handlers]
         /\ c[1] \in Tabs /\ (Attached(c) <=> HasSocket(c[1]) /\ c = Socket(c[1]))
         /\ \A u \in Tabs : Socket(u)[1] = u
<1>1. /\ inbox \in [Conns -> Seq(Frames)] /\ outbox \in [Tabs -> Seq(Frames)]
      /\ room \in Seq(Conns)
  BY Framed
<1>2. handler \in [Conns -> Handlers]
  BY DEF IInv, Typed
<1>3. c[1] \in Tabs /\ c = << c[1], c[2] >>
  BY DEF Conns
<1>4. Attached(c) <=> HasSocket(c[1]) /\ c = Socket(c[1])
  BY <1>3 DEF Attached, Socket
<1>5. \A u \in Tabs : Socket(u)[1] = u
  BY DEF Socket
<1> QED BY <1>1, <1>2, <1>3, <1>4, <1>5

LEMMA RefuseKeeps ==
  ASSUME IInv, JoinInv, UNCHANGED setup, NEW c \in Conns, Refuse(c)
  PROVE  JoinInv'
<1> DEFINE t == c[1]
           e == Frame("ERROR", {})
<1>0. /\ inbox \in [Conns -> Seq(Frames)] /\ outbox \in [Tabs -> Seq(Frames)]
      /\ t \in Tabs /\ handler \in [Conns -> Handlers]
      /\ e \in Frames /\ e.kind = "ERROR" /\ e.ops = {}
      /\ Attached(c) <=> HasSocket(t) /\ c = Socket(t)
      /\ \A u \in Tabs : Socket(u)[1] = u
  <2>1. e \in Frames /\ e.kind = "ERROR" /\ e.ops = {}
    BY DEF Frames, Frame
  <2> HIDE DEF e
  <2> QED BY <2>1, Served
<1>1. /\ UNCHANGED tabs /\ UNCHANGED room /\ inbox[c] # << >>
      /\ inbox'[c] = << >> /\ handler'[c] = "done"
      /\ \A d \in Conns : d # c => inbox'[d] = inbox[d] /\ handler'[d] = handler[d]
      /\ \A u \in Tabs \ {t} : outbox'[u] = outbox[u]
      /\ outbox'[t] = IF Attached(c) THEN Append(outbox[t], e) ELSE outbox[t]
  BY <1>0 DEF Refuse
<1>2. UNCHANGED << link, conn, doc >> /\ \A u \in Tabs : Socket(u)' = Socket(u)
  BY <1>1 DEF tabs, session, Socket
<1>3. LET r == Append(outbox[t], e) IN
      /\ \A k : Among(r, k) <=> Among(outbox[t], k) \/ e.kind = k
      /\ \A k : OnlyFirst(outbox[t], k) /\ (e.kind # k \/ outbox[t] = << >>) => OnlyFirst(r, k)
      /\ Carried(r) = Carried(outbox[t]) \cup e.ops
      /\ e.kind # "UPDATE" => News(r) = News(outbox[t])
  BY <1>0, FrameAppended
<1> HIDE DEF t, e
<1>4. ASSUME NEW u \in Tabs, HasSocket(u), Socket(u) # c PROVE Talk(u)' /\ Same(u)
  <2>1. outbox'[u] = outbox[u]
    BY <1>0, <1>1, <1>4
  <2> QED BY <1>1, <1>4, <2>1, OtherTalk
<1>5. ASSUME NEW u \in Tabs, HasSocket(u), Socket(u) = c PROVE Talk(u)'
  <2>1. u = t /\ Attached(c)
    <3>1. u = t
      BY <1>0, <1>5 DEF t
    <3> QED BY <1>0, <1>5, <3>1
  <2>2. outbox'[u] = Append(outbox[t], e)
    BY <1>1, <2>1
  <2>3. Talk(u)
    BY DEF JoinInv
  <2>4. /\ ~Among(inbox'[c], "SUBSCRIBE") /\ OnlyFirst(inbox'[c], "SUBSCRIBE")
        /\ Carried(inbox'[c]) = {}
    BY <1>1, NoFrames
  <2>5. /\ Among(outbox'[u], "SNAPSHOT") <=> Among(outbox[u], "SNAPSHOT")
        /\ OnlyFirst(outbox[u], "SNAPSHOT") => OnlyFirst(outbox'[u], "SNAPSHOT")
        /\ Among(outbox'[u], "ERROR") /\ News(outbox'[u]) = News(outbox[u])
    BY <1>0, <1>3, <2>1, <2>2
  <2> QED BY <1>1, <1>2, <1>5, <2>3, <2>4, <2>5 DEF Talk
<1>6. \A u \in Tabs : Hearing(u)' = Hearing(u) /\ News(outbox'[u]) = News(outbox[u])
  <2>1. ASSUME NEW u \in Tabs
        PROVE  Carried(outbox'[u]) = Carried(outbox[u]) /\ News(outbox'[u]) = News(outbox[u])
    <3>1. CASE u = t /\ Attached(c)
      BY <1>0, <1>1, <1>3, <3>1
    <3>2. CASE ~(u = t /\ Attached(c))
      <4>1. outbox'[u] = outbox[u]
        BY <1>1, <3>2
      <4> QED BY <4>1
    <3> QED BY <3>1, <3>2
  <2> QED BY <1>2, <2>1 DEF Hearing
<1>7. ASSUME NEW a \in Tabs, NEW b \in Tabs, Paired(a, b)'
      PROVE  Told(a, b)' /\ Knows(a, b)'
  <2>1. Paired(a, b)
    BY <1>1, <1>2, <1>7 DEF Paired, HasSocket, Before
  <2>2. Told(a, b) /\ Knows(a, b)
    BY <2>1 DEF JoinInv, Ahead
  <2>3. Told(a, b)'
    BY <1>6, <2>2 DEF Told
  <2>4. CASE Socket(b) = c
    BY <1>1, <1>2, <2>3, <2>4 DEF Knows
  <2>5. CASE Socket(b) # c
    <3>1. Socket(b) \in Conns
      BY <2>1, Framed DEF Paired, HasSocket
    <3>2. Unsent(b)' = Unsent(b) /\ handler'[Socket(b)] = handler[Socket(b)]
      BY <1>1, <1>2, <2>5, <3>1 DEF Unsent
    <3>3. Knows(a, b)'
      BY <1>2, <1>6, <2>2, <3>2 DEF Knows, Only
    <3> QED BY <2>3, <3>3
  <2> QED BY <2>4, <2>5
<1>8. \A u \in Tabs : ~HasSocket(u) => outbox'[u] = outbox[u]
  BY <1>0, <1>1
<1>9. \A u \in Tabs : HasSocket(u) => Talk(u)'
  BY <1>4, <1>5
<1>10. /\ ToSet(room') \subseteq ToSet(room) \cup {c}
       /\ \A d \in Conns : d # c => (d \in ToSet(room') <=> d \in ToSet(room))
       /\ c \in ToSet(room') => c \in ToSet(room)
  BY <1>1
<1> QED BY <1>1, <1>7, <1>8, <1>9, <1>10, RelayKeeps

LEMMA SubscribeKeeps ==
  ASSUME IInv, JoinInv, UNCHANGED setup, NEW c \in Conns, Subscribe(c)
  PROVE  JoinInv'
<1> DEFINE q == inbox[c]
<1>0. /\ inbox \in [Conns -> Seq(Frames)] /\ room \in Seq(Conns)
      /\ c[1] \in Tabs /\ handler \in [Conns -> Handlers]
      /\ Attached(c) <=> HasSocket(c[1]) /\ c = Socket(c[1])
      /\ \A u \in Tabs : Socket(u)[1] = u
  BY Served
<1>1. /\ UNCHANGED tabs /\ UNCHANGED outbox /\ q # << >> /\ Head(q).kind = "SUBSCRIBE"
      /\ handler[c] = "loop" /\ inbox'[c] = Tail(q) /\ handler'[c] = "load"
      /\ \A d \in Conns : d # c => inbox'[d] = inbox[d] /\ handler'[d] = handler[d]
      /\ room' = IF Attached(c) THEN Append(room, c) ELSE room
  BY <1>0 DEF Subscribe, Waiting, Pop
<1>2. UNCHANGED << link, conn, doc >> /\ \A u \in Tabs : Socket(u)' = Socket(u)
  BY <1>1 DEF tabs, session, Socket
<1>3. /\ \A k : Among(q, k) <=> Head(q).kind = k \/ Among(Tail(q), k)
      /\ \A k : OnlyFirst(q, k) => ~Among(Tail(q), k) /\ OnlyFirst(Tail(q), k)
      /\ Carried(q) = Head(q).ops \cup Carried(Tail(q))
  BY <1>0, <1>1, FrameRead
<1>4. /\ ToSet(room') = IF Attached(c) THEN ToSet(room) \cup {c} ELSE ToSet(room)
      /\ \A d, e : Before(d, e)' => Before(d, e) \/ (e = c /\ Attached(c))
  <2>1. CASE Attached(c)
    BY <1>0, <1>1, <2>1, RoomJoined
  <2>2. CASE ~Attached(c)
    BY <1>1, <2>2 DEF Before
  <2> QED BY <2>1, <2>2
<1> HIDE DEF q
<1>5. ASSUME NEW u \in Tabs, HasSocket(u), Socket(u) # c PROVE Talk(u)' /\ Same(u)
  BY <1>1, <1>4, <1>5, OtherTalk
<1>6. ASSUME NEW u \in Tabs, HasSocket(u), Socket(u) = c
      PROVE  Talk(u)' /\ link[u] = "open" /\ News(outbox[u]) = {}
  <2>1. Attached(c) /\ Talk(u)
    BY <1>0, <1>6 DEF JoinInv
  <2>2. /\ OnlyFirst(q, "SUBSCRIBE") /\ Among(q, "SUBSCRIBE")
        /\ c \notin ToSet(room) /\ link[u] = "open" /\ ~Among(outbox[u], "SNAPSHOT")
        /\ OnlyFirst(outbox[u], "SNAPSHOT") /\ News(outbox[u]) = {}
        /\ Carried(q) \subseteq doc[u]
    BY <1>1, <1>3, <1>6, <2>1 DEF Talk, q
  <2>3. /\ ~Among(inbox'[c], "SUBSCRIBE") /\ OnlyFirst(inbox'[c], "SUBSCRIBE")
        /\ Carried(inbox'[c]) \subseteq doc[u] /\ c \in ToSet(room')
    BY <1>1, <1>3, <1>4, <2>1, <2>2
  <2>4. Talk(u)'
    BY <1>1, <1>2, <1>6, <2>2, <2>3 DEF Talk
  <2> QED BY <2>2, <2>4
<1>7. ASSUME NEW a \in Tabs, NEW b \in Tabs, Paired(a, b)'
      PROVE  Told(a, b)' /\ Knows(a, b)'
  <2>0. HasSocket(b) /\ Hearing(a)' = Hearing(a) /\ outbox'[b] = outbox[b]
    BY <1>1, <1>2, <1>7 DEF Paired, HasSocket, Hearing
  <2>1. CASE Socket(b) = c
    <3>1. link[b] = "open" /\ News(outbox[b]) = {}
      BY <1>6, <2>0, <2>1
    <3> QED BY <1>2, <2>0, <3>1 DEF Told, Knows
  <2>2. CASE Socket(b) # c
    <3>1. Same(b)
      BY <1>5, <2>0, <2>2
    <3>2. Paired(a, b)
      BY <1>2, <1>4, <1>7, <2>2 DEF Paired, HasSocket
    <3>3. Told(a, b) /\ Knows(a, b)
      BY <3>2 DEF JoinInv, Ahead
    <3>4. Unsent(b)' = Unsent(b) /\ handler'[Socket(b)] = handler[Socket(b)]
      BY <1>2, <2>0, <3>1 DEF Unsent, Same, HasSocket
    <3>5. Told(a, b)'
      BY <2>0, <3>3 DEF Told
    <3>6. Knows(a, b)'
      BY <1>2, <2>0, <3>3, <3>4 DEF Knows, Only
    <3> QED BY <3>5, <3>6
  <2> QED BY <2>1, <2>2
<1>8. \A u \in Tabs : HasSocket(u) => Talk(u)'
  BY <1>5, <1>6
<1>9. /\ ToSet(room') \subseteq ToSet(room) \cup {c}
      /\ \A d \in Conns : d # c => (d \in ToSet(room') <=> d \in ToSet(room))
      /\ c \in ToSet(room') => c \in ToSet(room) \/ Attached(c)
  BY <1>4
<1> QED BY <1>1, <1>7, <1>8, <1>9, RelayKeeps DEF q

LEMMA LoadKeeps ==
  ASSUME IInv, JoinInv, UNCHANGED setup, NEW c \in Conns, LoadSnapshot(c)
  PROVE  JoinInv'
<1> DEFINE t == c[1]
<1>0. /\ outbox \in [Tabs -> Seq(Frames)] /\ t \in Tabs /\ handler \in [Conns -> Handlers]
      /\ Attached(c) <=> HasSocket(t) /\ c = Socket(t)
      /\ \A u \in Tabs : Socket(u)[1] = u
  BY Served
<1>1. PICK e \in Frames :
        /\ e.kind = "SNAPSHOT"
        /\ outbox' = IF Attached(c) THEN [outbox EXCEPT ![t] = << e >> \o @] ELSE outbox
  <2>1. PICK x \in {store, {}} :
          outbox' = IF Attached(c)
                    THEN [outbox EXCEPT ![t] = << Frame("SNAPSHOT", x) >> \o @]
                    ELSE outbox
    BY DEF LoadSnapshot
  <2>2. Frame("SNAPSHOT", x) \in Frames
    <3>1. edits \in 0..EditLimit /\ EditLimit \in Nat
      BY Deployment DEF IInv, Typed
    <3>2. Stored \subseteq SUBSET (Ops \cup {Poison})
      BY <3>1 DEF Stored, Ops
    <3>3. store \in SUBSET (Ops \cup {Poison})
      BY <3>2 DEF IInv, Typed
    <3>4. x \in SUBSET (Ops \cup {Poison})
      BY <2>1, <3>3
    <3> QED BY <3>4 DEF Frame, Frames
  <2> QED BY <2>1, <2>2 DEF Frame
<1>2. /\ UNCHANGED tabs /\ UNCHANGED << inbox, room >> /\ handler[c] = "load"
      /\ handler'[c] = "loop"
      /\ \A d \in Conns : d # c => handler'[d] = handler[d]
      /\ \A u \in Tabs \ {t} : outbox'[u] = outbox[u]
      /\ outbox'[t] = IF Attached(c) THEN << e >> \o outbox[t] ELSE outbox[t]
  <2>1. /\ UNCHANGED tabs /\ UNCHANGED << inbox, room >> /\ handler[c] = "load"
        /\ handler' = [handler EXCEPT ![c] = "loop"]
    BY DEF LoadSnapshot
  <2> QED BY <1>0, <1>1, <2>1
<1>3. UNCHANGED << link, conn, doc >> /\ \A u \in Tabs : Socket(u)' = Socket(u)
  BY <1>2 DEF tabs, session, Socket
<1>4. LET r == << e >> \o outbox[t] IN
      /\ \A k : Among(r, k) <=> Among(outbox[t], k) \/ e.kind = k
      /\ \A k : ~Among(outbox[t], k) => OnlyFirst(r, k)
      /\ Carried(outbox[t]) \subseteq Carried(r)
      /\ e.kind # "UPDATE" => News(r) = News(outbox[t])
  BY <1>0, FramePrepended
<1> HIDE DEF t
<1>5. ASSUME NEW u \in Tabs, HasSocket(u), Socket(u) # c PROVE Talk(u)' /\ Same(u)
  <2>1. outbox'[u] = outbox[u]
    <3>1. CASE u = t
      BY <1>0, <1>2, <1>5, <3>1
    <3>2. CASE u # t
      BY <1>2, <3>2
    <3> QED BY <3>1, <3>2
  <2> QED BY <1>2, <1>5, <2>1, OtherTalk
<1>6. ASSUME NEW u \in Tabs, HasSocket(u), Socket(u) = c
      PROVE  Talk(u)' /\ link[u] = "open"
  <2>1. u = t /\ Attached(c) /\ Talk(u)
    <3>1. u = t
      BY <1>0, <1>6 DEF t
    <3> QED BY <1>0, <1>6, <3>1 DEF JoinInv
  <2>2. outbox'[u] = << e >> \o outbox[t]
    BY <1>2, <2>1
  <2>3. /\ c \in ToSet(room) /\ link[u] = "open" /\ ~Among(outbox[u], "SNAPSHOT")
        /\ ~Among(inbox[c], "SUBSCRIBE") /\ OnlyFirst(inbox[c], "SUBSCRIBE")
        /\ Carried(inbox[c]) \subseteq doc[u]
    BY <1>2, <1>6, <2>1 DEF Talk
  <2>4. OnlyFirst(outbox'[u], "SNAPSHOT")
    BY <1>4, <2>1, <2>2, <2>3
  <2>5. Talk(u)'
    BY <1>2, <1>3, <1>6, <2>3, <2>4 DEF Talk
  <2> QED BY <2>3, <2>5
<1>7. ASSUME NEW u \in Tabs
      PROVE  Hearing(u) \subseteq Hearing(u)' /\ News(outbox'[u]) = News(outbox[u])
  <2>1. Carried(outbox[u]) \subseteq Carried(outbox'[u]) /\ News(outbox'[u]) = News(outbox[u])
    <3>1. CASE u = t /\ Attached(c)
      BY <1>1, <1>2, <1>4, <3>1
    <3>2. CASE ~(u = t /\ Attached(c))
      <4>1. outbox'[u] = outbox[u]
        BY <1>2, <3>2
      <4> QED BY <4>1
    <3> QED BY <3>1, <3>2
  <2> QED BY <1>3, <2>1 DEF Hearing
<1>8. ASSUME NEW a \in Tabs, NEW b \in Tabs, Paired(a, b)'
      PROVE  Told(a, b)' /\ Knows(a, b)'
  <2>1. Paired(a, b)
    BY <1>2, <1>3, <1>8 DEF Paired, HasSocket, Before
  <2>2. Told(a, b) /\ Knows(a, b)
    BY <2>1 DEF JoinInv, Ahead
  <2>3. Told(a, b)'
    BY <1>7, <2>2 DEF Told
  <2>4. CASE Socket(b) = c
    <3>1. link'[b] = "open"
      BY <1>3, <1>6, <2>1, <2>4 DEF Paired
    <3> QED BY <2>3, <3>1 DEF Knows
  <2>5. CASE Socket(b) # c
    <3>1. Same(b)
      BY <1>5, <2>1, <2>5 DEF Paired
    <3>2. Unsent(b)' = Unsent(b) /\ handler'[Socket(b)] = handler[Socket(b)]
      BY <1>3, <2>1, <3>1 DEF Unsent, Same, Paired, HasSocket
    <3>3. Knows(a, b)'
      BY <1>3, <1>7, <2>2, <3>2 DEF Knows, Only
    <3> QED BY <2>3, <3>3
  <2> QED BY <2>4, <2>5
<1>9. \A u \in Tabs : ~HasSocket(u) => outbox'[u] = outbox[u]
  BY <1>0, <1>2
<1>10. \A u \in Tabs : HasSocket(u) => Talk(u)'
  BY <1>5, <1>6
<1>11. /\ ToSet(room') \subseteq ToSet(room) \cup {c}
       /\ \A d \in Conns : d # c => (d \in ToSet(room') <=> d \in ToSet(room))
       /\ c \in ToSet(room') => c \in ToSet(room)
       /\ \A d \in Conns : d # c => inbox'[d] = inbox[d] /\ handler'[d] = handler[d]
       /\ handler[c] # "loop"
  BY <1>2
<1> QED BY <1>2, <1>8, <1>9, <1>10, <1>11, RelayKeeps

-----------------------------------------------------------------------------
(* Whoever is in the room hears the frame, or sent it.                     *)
LEMMA BroadcastKeeps ==
  ASSUME IInv, JoinInv, UNCHANGED setup, NEW c \in Conns, Broadcast(c)
  PROVE  JoinInv'
<1> DEFINE q == inbox[c]
           f == Head(q)
           hears(u) == HasSocket(u) /\ Socket(u) \in ToSet(room) /\ Socket(u) # c
<1>0. /\ inbox \in [Conns -> Seq(Frames)] /\ outbox \in [Tabs -> Seq(Frames)]
      /\ handler \in [Conns -> Handlers] /\ c[1] \in Tabs
      /\ \A u \in Tabs : Socket(u)[1] = u
  BY Served
<1>1. /\ UNCHANGED tabs /\ UNCHANGED << inbox, room >> /\ q # << >>
      /\ f.kind = "UPDATE" /\ handler[c] = "loop" /\ handler'[c] = "save"
      /\ \A d \in Conns : d # c => handler'[d] = handler[d]
  BY <1>0 DEF Broadcast, Waiting
<1>2. UNCHANGED << link, conn, doc >> /\ \A u \in Tabs : Socket(u)' = Socket(u)
  BY <1>1 DEF tabs, session, Socket
<1>3. /\ f \in Frames /\ Tail(q) \in Seq(Frames)
      /\ \A k : Among(q, k) <=> f.kind = k \/ Among(Tail(q), k)
      /\ \A k : OnlyFirst(q, k) => ~Among(Tail(q), k)
      /\ Carried(q) = f.ops \cup Carried(Tail(q))
  BY <1>0, <1>1, FrameRead
<1>4. ASSUME NEW u \in Tabs
      PROVE  outbox'[u] = IF hears(u) THEN Append(outbox[u], f) ELSE outbox[u]
  <2>1. Attached(Socket(u)) <=> HasSocket(u)
    BY DEF Attached, Socket
  <2> QED BY <2>1 DEF Broadcast
<1>5. ASSUME NEW u \in Tabs, hears(u)
      PROVE  /\ \A k : Among(outbox'[u], k) <=> Among(outbox[u], k) \/ f.kind = k
             /\ OnlyFirst(outbox[u], "SNAPSHOT") => OnlyFirst(outbox'[u], "SNAPSHOT")
             /\ Carried(outbox'[u]) = Carried(outbox[u]) \cup f.ops
             /\ News(outbox'[u]) \subseteq News(outbox[u]) \cup f.ops
  <2> DEFINE s == outbox[u]
  <2>1. s \in Seq(Frames) /\ outbox'[u] = Append(s, f)
    BY <1>0, <1>4, <1>5
  <2> HIDE DEF f, s, hears
  <2>2. /\ \A k : Among(Append(s, f), k) <=> Among(s, k) \/ f.kind = k
        /\ \A k : OnlyFirst(s, k) /\ (f.kind # k \/ s = << >>) => OnlyFirst(Append(s, f), k)
        /\ Carried(Append(s, f)) = Carried(s) \cup f.ops
        /\ News(Append(s, f)) \subseteq News(s) \cup f.ops
    BY <1>3, <2>1, FrameAppended
  <2>3. OnlyFirst(s, "SNAPSHOT") => OnlyFirst(Append(s, f), "SNAPSHOT")
    BY <1>1, <2>2
  <2> QED BY <2>1, <2>2, <2>3 DEF s
<1> HIDE DEF q, f
<1>6. ASSUME NEW u \in Tabs, HasSocket(u) PROVE Talk(u)'
  <2>0. Talk(u) /\ Socket(u) \in Conns
    BY <1>6, Framed DEF JoinInv, HasSocket
  <2>1. CASE Socket(u) = c
    <3>1. /\ outbox'[u] = outbox[u] /\ OnlyFirst(q, "SUBSCRIBE")
          /\ Carried(q) \subseteq doc[u]
      BY <1>4, <1>6, <2>0, <2>1 DEF Talk, q
    <3>2. ~Among(q, "SUBSCRIBE")
      BY <1>1, <1>3, <3>1
    <3> QED BY <1>1, <1>2, <1>6, <2>0, <2>1, <3>1, <3>2 DEF Talk, q
  <2>2. CASE Socket(u) # c /\ ~hears(u)
    <3>1. outbox'[u] = outbox[u]
      BY <1>4, <2>2
    <3>2. /\ \A d \in Conns : d # c => inbox'[d] = inbox[d] /\ handler'[d] = handler[d]
          /\ \A d \in Conns : d # c => (d \in ToSet(room') <=> d \in ToSet(room))
      BY <1>1
    <3> HIDE DEF hears
    <3> QED BY <1>1, <1>6, <2>2, <3>1, <3>2, OtherTalk
  <2>3. CASE hears(u)
    <3>1. /\ \A k : Among(outbox'[u], k) <=> Among(outbox[u], k) \/ f.kind = k
          /\ OnlyFirst(outbox[u], "SNAPSHOT") => OnlyFirst(outbox'[u], "SNAPSHOT")
      BY <1>5, <2>3
    <3>2. /\ Socket(u) \in ToSet(room) /\ Socket(u) # c
          /\ Socket(u)' = Socket(u) /\ handler'[Socket(u)] = handler[Socket(u)]
      BY <1>1, <1>2, <2>0, <2>3
    <3>3. Among(outbox'[u], "SNAPSHOT") <=> Among(outbox[u], "SNAPSHOT")
      BY <1>1, <3>1
    <3>4. Among(outbox[u], "ERROR") => Among(outbox'[u], "ERROR")
      BY <3>1
    <3> HIDE DEF hears
    <3> QED BY <1>1, <1>2, <1>6, <2>0, <3>1, <3>2, <3>3, <3>4 DEF Talk
  <2> QED BY <1>6, <2>1, <2>2, <2>3
<1>7. ASSUME NEW u \in Tabs PROVE Hearing(u) \subseteq Hearing(u)'
  <2>1. Carried(outbox[u]) \subseteq Carried(outbox'[u])
    BY <1>4, <1>5
  <2> QED BY <1>2, <2>1 DEF Hearing
<1>8. ASSUME NEW a \in Tabs, HasSocket(a), Socket(a) \in ToSet(room)
      PROVE  f.ops \subseteq Hearing(a)'
  <2>1. CASE Socket(a) = c
    <3>1. Talk(a)
      BY DEF JoinInv
    <3>2. Carried(q) \subseteq doc[a]
      BY <1>8, <2>1, <3>1 DEF Talk, q
    <3> QED BY <1>2, <1>3, <3>2 DEF Hearing
  <2>2. CASE Socket(a) # c
    BY <1>5, <1>8, <2>2 DEF Hearing
  <2> QED BY <2>1, <2>2
<1>9. ASSUME NEW a \in Tabs, NEW b \in Tabs, Paired(a, b)'
      PROVE  Told(a, b)' /\ Knows(a, b)'
  <2>1. Paired(a, b)
    BY <1>1, <1>2, <1>9 DEF Paired, HasSocket, Before
  <2>2. /\ Told(a, b) /\ Knows(a, b) /\ HasSocket(b)
        /\ Hearing(a) \subseteq Hearing(a)' /\ f.ops \subseteq Hearing(a)'
    <3>1. HasSocket(a) /\ HasSocket(b) /\ Before(Socket(a), Socket(b))
      BY <2>1 DEF Paired
    <3>2. Socket(a) \in ToSet(room)
      BY <3>1, InTheRoom
    <3>3. Told(a, b) /\ Knows(a, b)
      BY <2>1 DEF JoinInv, Ahead
    <3> QED BY <1>7, <1>8, <3>1, <3>2, <3>3
  <2>3. Told(a, b)'
    <3>1. News(outbox'[b]) \subseteq News(outbox[b]) \cup f.ops
      BY <1>4, <1>5
    <3> QED BY <2>2, <3>1 DEF Told
  <2>4. Knows(a, b)'
    <3>0. Socket(b) \in Conns /\ Socket(b)' = Socket(b)
      BY <1>2, <2>2, Framed DEF HasSocket
    <3>1. CASE Socket(b) = c
      <4>1. Unsent(b) = q /\ Unsent(b)' = Tail(q)
        BY <1>1, <3>0, <3>1 DEF Unsent, q
      <4>2. handler[Socket(b)] # "done"
        BY <1>1, <3>1
      <4>3. ASSUME Only(b)', link'[b] = "live" PROVE doc'[b] \subseteq Hearing(a)' \cup Carried(Unsent(b)')
        <5>1. doc[b] \subseteq Hearing(a) \cup Carried(q)
          BY <1>2, <2>2, <4>1, <4>2, <4>3 DEF Knows, Only
        <5> QED BY <1>2, <1>3, <2>2, <4>1, <5>1
      <4> QED BY <4>3 DEF Knows
    <3>2. CASE Socket(b) # c
      <4>1. Unsent(b)' = Unsent(b) /\ handler'[Socket(b)] = handler[Socket(b)]
        BY <1>1, <3>0, <3>2 DEF Unsent
      <4> QED BY <1>2, <2>2, <3>0, <4>1 DEF Knows, Only
    <3> QED BY <3>1, <3>2
  <2> QED BY <2>3, <2>4
<1>10. \A u \in Tabs : ~HasSocket(u) => outbox'[u] = outbox[u]
  BY <1>4
<1>11. \A u \in Tabs : HasSocket(u) => Talk(u)'
  BY <1>6
<1>12. /\ ToSet(room') \subseteq ToSet(room) \cup {c}
       /\ \A d \in Conns : d # c => (d \in ToSet(room') <=> d \in ToSet(room))
       /\ c \in ToSet(room') => c \in ToSet(room)
       /\ \A d \in Conns : d # c => inbox'[d] = inbox[d] /\ handler'[d] = handler[d]
       /\ inbox[c] # << >>
  BY <1>1 DEF q
<1> HIDE DEF hears
<1> QED BY <1>1, <1>9, <1>10, <1>11, <1>12, RelayKeeps

LEMMA SaveKeeps ==
  ASSUME IInv, JoinInv, UNCHANGED setup, NEW c \in Conns, Save(c)
  PROVE  JoinInv'
<1> DEFINE q == inbox[c]
<1>0. /\ inbox \in [Conns -> Seq(Frames)] /\ handler \in [Conns -> Handlers]
      /\ c[1] \in Tabs /\ \A u \in Tabs : Socket(u)[1] = u
  BY Served
<1>1. /\ UNCHANGED tabs /\ UNCHANGED << outbox, room >> /\ q # << >>
      /\ handler[c] = "save" /\ inbox'[c] = Tail(q) /\ handler'[c] = "loop"
      /\ \A d \in Conns : d # c => inbox'[d] = inbox[d] /\ handler'[d] = handler[d]
  BY <1>0 DEF Save, Pop, IInv, Saving
<1>2. UNCHANGED << link, conn, doc >> /\ \A u \in Tabs : Socket(u)' = Socket(u)
  BY <1>1 DEF tabs, session, Socket
<1>3. /\ \A k : Among(q, k) <=> Head(q).kind = k \/ Among(Tail(q), k)
      /\ \A k : OnlyFirst(q, k) => ~Among(Tail(q), k) /\ OnlyFirst(Tail(q), k)
      /\ Carried(q) = Head(q).ops \cup Carried(Tail(q))
  BY <1>0, <1>1, FrameRead
<1>4. /\ \A d \in Conns : d # c => (d \in ToSet(room') <=> d \in ToSet(room))
      /\ \A d, e : Before(d, e)' => Before(d, e)
  BY <1>1 DEF Before
<1> HIDE DEF q
<1>5. ASSUME NEW u \in Tabs, HasSocket(u) PROVE Talk(u)'
  <2>1. CASE Socket(u) # c
    BY <1>1, <1>4, <1>5, <2>1, OtherTalk
  <2>2. CASE Socket(u) = c
    <3>1. Talk(u)
      BY DEF JoinInv
    <3>2. /\ OnlyFirst(q, "SUBSCRIBE") /\ ~Among(q, "SUBSCRIBE")
          /\ Carried(q) \subseteq doc[u]
      BY <1>1, <1>5, <2>2, <3>1 DEF Talk, q
    <3>3. /\ ~Among(inbox'[c], "SUBSCRIBE") /\ OnlyFirst(inbox'[c], "SUBSCRIBE")
          /\ Carried(inbox'[c]) \subseteq doc[u]
      BY <1>1, <1>3, <3>2
    <3> QED BY <1>1, <1>2, <1>5, <2>2, <3>1, <3>3 DEF Talk
  <2> QED BY <2>1, <2>2
<1>6. ASSUME NEW a \in Tabs, NEW b \in Tabs, Paired(a, b)'
      PROVE  Told(a, b)' /\ Knows(a, b)'
  <2>1. Paired(a, b) /\ HasSocket(b)
    BY <1>2, <1>4, <1>6 DEF Paired, HasSocket
  <2>2. Told(a, b) /\ Knows(a, b) /\ Hearing(a)' = Hearing(a)
    BY <1>1, <1>2, <2>1 DEF JoinInv, Ahead, Hearing
  <2>3. Told(a, b)'
    BY <1>1, <2>2 DEF Told
  <2>4. Socket(b) \in Conns /\ Socket(b)' = Socket(b)
    BY <1>2, <2>1, Framed DEF HasSocket
  <2>5. Unsent(b)' = Unsent(b) /\ (handler'[Socket(b)] # "done" => handler[Socket(b)] # "done")
    <3>1. CASE Socket(b) = c
      BY <1>1, <2>4, <3>1 DEF Unsent, q
    <3>2. CASE Socket(b) # c
      BY <1>1, <2>4, <3>2 DEF Unsent
    <3> QED BY <3>1, <3>2
  <2>6. Knows(a, b)'
    BY <1>2, <2>2, <2>4, <2>5 DEF Knows, Only
  <2> QED BY <2>3, <2>6
<1>7. /\ ToSet(room') \subseteq ToSet(room) \cup {c}
      /\ c \in ToSet(room') => c \in ToSet(room)
      /\ handler[c] # "loop"
      /\ \A u \in Tabs : ~HasSocket(u) => outbox'[u] = outbox[u]
  BY <1>1
<1> QED BY <1>1, <1>4, <1>5, <1>6, <1>7, RelayKeeps

-----------------------------------------------------------------------------
LEMMA Rests ==
  ASSUME JoinInv,
         UNCHANGED << setup, link, conn, doc, chan, inbox, outbox, handler, room >>
  PROVE  JoinInv'
<1>1. /\ \A t \in Tabs : Socket(t)' = Socket(t) /\ (Only(t)' <=> Only(t))
      /\ \A t \in Tabs : HasSocket(t)' <=> HasSocket(t)
      /\ \A t \in Tabs : Hearing(t)' = Hearing(t) /\ Unsent(t)' = Unsent(t)
      /\ \A c, d : Before(c, d)' <=> Before(c, d)
  BY DEF Socket, Only, HasSocket, Hearing, Unsent, Before
<1>2. ASSUME NEW c \in Conns PROVE Undialed(c)'
  BY DEF JoinInv, Undialed
<1>3. ASSUME NEW t \in Tabs PROVE Dialing(t)' /\ Talk(t)' /\ Unheard(t)'
  <2>1. Dialing(t) /\ Talk(t) /\ Unheard(t)
    BY DEF JoinInv
  <2>2. Same(t)
    BY DEF Same
  <2>3. Unheard(t)'
    BY <1>1, <2>1 DEF Unheard
  <2> QED BY <2>1, <2>2, <2>3, SameTalk
<1>4. ASSUME NEW a \in Tabs, NEW b \in Tabs PROVE Ahead(a, b)'
  <2>1. Same(a) /\ Same(b)
    BY DEF Same
  <2> QED BY <1>1, <2>1, SamePair DEF JoinInv
<1> QED BY <1>2, <1>3, <1>4 DEF JoinInv

LEMMA JoinInit == Init => JoinInv
<1> SUFFICES ASSUME Init PROVE JoinInv
  OBVIOUS
<1>1. \A c \in Conns : Undialed(c)
  BY DEF Init, Undialed
<1>2. room = << >> /\ ToSet(room) = {}
  BY DEF Init, ToSet
<1>3. ASSUME NEW t \in Tabs PROVE Dialing(t) /\ Talk(t) /\ Unheard(t) /\ ~HasSocket(t)
  <2>1. link[t] = "none" /\ chan[t] = << >>
    BY <1>3 DEF Init
  <2> QED BY <2>1 DEF Dialing, Talk, Unheard, HasSocket
<1> QED BY <1>1, <1>2, <1>3 DEF JoinInv, Ahead, Paired

LEMMA JoinStep ==
  ASSUME IInv, IInv', JoinInv, [Next]_vars
  PROVE  JoinInv'
<1>1. CASE UNCHANGED vars
  BY <1>1, Rests DEF vars, tabs, relay, session
<1>2. CASE Next
  <2>1. UNCHANGED setup
    BY <1>2 DEF Next
  <2>2. ASSUME NEW t \in Tabs,
               OpenTab(t) \/ Reconnect(t) \/ OnClose(t) \/ Drop(t) \/ Dispose(t) \/ Crash(t)
        PROVE  JoinInv'
    BY <2>1, <2>2, GoneKeeps
  <2>3. ASSUME NEW t \in Tabs, Edit(t) PROVE JoinInv'
    BY <2>1, <2>3, EditKeeps
  <2>4. ASSUME NEW t \in Tabs, OnChannel(t) PROVE JoinInv'
    BY <2>1, <2>4, ChannelKeeps
  <2>5. ASSUME NEW t \in Tabs, SaveTimer(t) PROVE JoinInv'
    BY <2>1, <2>5, Rests DEF SaveTimer, session, relay
  <2>6. ASSUME NEW t \in Tabs, OnOpen(t) PROVE JoinInv'
    BY <2>1, <2>6, OpenKeeps
  <2>7. ASSUME NEW t \in Tabs, OnMessage(t) PROVE JoinInv'
    BY <2>1, <2>7, MessageKeeps
  <2>8. ASSUME NEW c \in Conns, Refuse(c) PROVE JoinInv'
    BY <2>1, <2>8, RefuseKeeps
  <2>9. ASSUME NEW c \in Conns, Subscribe(c) PROVE JoinInv'
    BY <2>1, <2>9, SubscribeKeeps
  <2>10. ASSUME NEW c \in Conns, LoadSnapshot(c) PROVE JoinInv'
    BY <2>1, <2>10, LoadKeeps
  <2>11. ASSUME NEW c \in Conns, Broadcast(c) PROVE JoinInv'
    BY <2>1, <2>11, BroadcastKeeps
  <2>12. ASSUME NEW c \in Conns, Save(c) PROVE JoinInv'
    BY <2>1, <2>12, SaveKeeps
  <2> QED BY <1>2, <2>2, <2>3, <2>4, <2>5, <2>6, <2>7, <2>8, <2>9, <2>10, <2>11, <2>12
             DEF Next, Step, Callback, Handle
<1> QED BY <1>1, <1>2

(* With nothing in flight what a live tab has, the earlier ones have.      *)
LEMMA AheadKnows == IInv /\ JoinInv => EarlierJoinersKnowAll
<1> SUFFICES ASSUME IInv, JoinInv, Quiet,
                    NEW i \in DOMAIN room, NEW j \in DOMAIN room, i < j,
                    Attached(room[i]), Attached(room[j]),
                    link[room[i][1]] = "live", link[room[j][1]] = "live",
                    \A u \in setup.tabs \ {room[j][1]} :
                      BrowserOf[u] # BrowserOf[room[j][1]]
             PROVE  doc[room[j][1]] \subseteq doc[room[i][1]]
  BY DEF EarlierJoinersKnowAll
<1> DEFINE a == room[i][1]
           b == room[j][1]
<1>1. room[i] \in Conns /\ room[j] \in Conns
  BY DEF IInv, Typed
<1>2. /\ a \in Tabs /\ room[i] = Socket(a) /\ HasSocket(a)
      /\ b \in Tabs /\ room[j] = Socket(b) /\ HasSocket(b)
  <2>1. ASSUME NEW c \in Conns, Attached(c)
        PROVE  c[1] \in Tabs /\ c = Socket(c[1]) /\ HasSocket(c[1])
    BY <2>1, Served
  <2> QED BY <1>1, <2>1
<1>3. Before(Socket(a), Socket(b))
  BY <1>2 DEF Before
<1>4. /\ Only(b) /\ link[b] = "live"
  BY DEF Only
<1>5. /\ outbox[a] = << >> /\ outbox[b] = << >>
      /\ inbox[Socket(b)] = << >> /\ handler[Socket(b)] \in {"loop", "done"}
  BY <1>1, <1>2 DEF Quiet
<1> SUFFICES doc[b] \subseteq doc[a]
  OBVIOUS
<1> HIDE DEF a, b
<1>6. CASE a = b
  BY <1>6
<1>7. CASE a # b
  <2>1. Knows(a, b) /\ Talk(b)
    BY <1>2, <1>3, <1>7 DEF JoinInv, Ahead, Paired
  <2>2. handler[Socket(b)] = "loop"
    BY <1>2, <1>5, <2>1, NoFrames DEF Talk
  <2>3. Unsent(b) = << >>
    BY <1>5, <2>2 DEF Unsent
  <2>4. doc[b] \subseteq Hearing(a) \cup Carried(Unsent(b))
    BY <1>4, <2>1, <2>2 DEF Knows
  <2>5. Hearing(a) = doc[a] /\ Carried(Unsent(b)) = {}
    BY <1>5, <2>3, NoFrames DEF Hearing
  <2> QED BY <2>4, <2>5
<1> QED BY <1>6, <1>7

(* Whoever joins a room answers its snapshot with the merged log, and what *)
(* a tab sends is its full log (weaverTransport.ts, announce and           *)
(* broadcast): with nothing in flight, a live tab knows every edit of the  *)
(* tabs that joined after it and hear from nobody but the relay, whatever  *)
(* dropped, closed, crashed or was refused before.                         *)
THEOREM EarlierJoinersKnow == Spec => []EarlierJoinersKnowAll
<1>1. Init => IInv
  BY InvInit
<1>2. IInv /\ [Next]_vars => IInv'
  BY InvStep
<1>3. Init => JoinInv
  BY JoinInit
<1>4. IInv /\ IInv' /\ JoinInv /\ [Next]_vars => JoinInv'
  BY JoinStep
<1>5. IInv /\ JoinInv => EarlierJoinersKnowAll
  BY AheadKnows
<1> QED BY <1>1, <1>2, <1>3, <1>4, <1>5, PTL DEF Spec


-----------------------------------------------------------------------------
(* The refinement. *)

LEMMA InitMaps == Init => Shared!Init
<1> SUFFICES ASSUME Init PROVE Shared!Init
  OBVIOUS
<1>1. edits = 0 /\ EditLimit \in Nat
  BY Deployment DEF Init
<1>2. (0..edits) \in SUBSET Ops
  BY <1>1 DEF Ops
<1> QED BY <1>2 DEF Init, Shared!Init

(* A step that touches no document, no browser and no edit is a stutter.   *)
LEMMA Stutters ==
  ASSUME UNCHANGED <<edits, opened, doc, local>>
  PROVE  UNCHANGED Shared!vars
  BY DEF Shared!vars

(* Whatever is imported was written, so to import is to learn.             *)
LEMMA ImportMaps ==
  ASSUME IInv, NEW t \in opened, NEW ops \in Written, Import(t, ops),
         UNCHANGED <<edits, opened, local>>
  PROVE  Shared!Learn(t)
<1>1. ops \in SUBSET (0..edits)
  BY DEF Written
<1>2. doc' = [doc EXCEPT ![t] = @ \cup ops]
  BY DEF Import
<1> QED BY <1>1, <1>2 DEF Shared!Learn

LEMMA EditMaps ==
  ASSUME IInv, NEW t \in Tabs, Edit(t), UNCHANGED setup
  PROVE  Shared!Write(t)
<1>1. edits \in Nat /\ edits + 1 <= EditLimit /\ EditLimit \in Nat
  BY Deployment DEF Edit, IInv, Typed
<1>2. edits + 1 \in Ops \ (0..edits)
  BY <1>1 DEF Ops
<1>3. (0..edits)' = (0..edits) \cup {edits + 1}
  BY <1>1 DEF Edit
<1> QED BY <1>2, <1>3 DEF Edit, Shared!Write

LEMMA MessageMaps ==
  ASSUME IInv, NEW t \in Tabs, OnMessage(t)
  PROVE  Shared!Learn(t) \/ UNCHANGED Shared!vars
<1> DEFINE f == Head(outbox[t])
<1>1. t \in opened /\ UNCHANGED <<edits, opened, local>>
  BY DEF OnMessage, HasSocket, IInv, Open
<1>2. outbox[t] \in Seq(ToTab) /\ outbox[t] # << >>
  BY DEF OnMessage, IInv, Typed
<1>3. f \in ToTab
  BY <1>2
<1>4. f.ops \in Stored
  BY <1>3 DEF ToTab
<1>5. CASE UNCHANGED doc
  BY <1>1, <1>5, Stutters
<1>6. CASE MergesCleanly(doc[t] \cup f.ops) /\ Import(t, f.ops)
  <2>1. f.ops \in Written
    BY <1>4, <1>6, MergedWritten
  <2> HIDE DEF f
  <2> QED BY <1>1, <1>6, <2>1, ImportMaps
<1> QED BY <1>5, <1>6 DEF OnMessage

LEMMA ChannelMaps ==
  ASSUME IInv, NEW t \in Tabs, OnChannel(t)
  PROVE  Shared!Learn(t)
<1> DEFINE ops == IF MergesCleanly(doc[t] \cup Head(chan[t])) THEN Head(chan[t])
                  ELSE {}
<1>1. t \in opened /\ UNCHANGED <<edits, opened, local>>
  BY DEF OnChannel, session, IInv, Open
<1>2. chan[t] \in Seq(Written) /\ chan[t] # << >>
  BY DEF OnChannel, IInv, Typed
<1>3. Head(chan[t]) \in Written
  BY <1>2
<1>4. ops \in Written
  BY <1>3 DEF Written
<1>5. Import(t, ops)
  BY DEF OnChannel
<1> HIDE DEF ops
<1> QED BY <1>1, <1>4, <1>5, ImportMaps

(* A tab that goes keeps its document if it had time to, or does not.      *)
LEMMA LeaveMaps ==
  ASSUME IInv, NEW t \in Tabs, Dispose(t) \/ Crash(t)
  PROVE  Shared!Close(t)
<1>1. Leave(t) /\ (UNCHANGED local \/ local' = [local EXCEPT ![BrowserOf[t]] = doc[t]])
  BY DEF Dispose, Crash
<1> QED BY <1>1 DEF Leave, Shared!Close

LEMMA StepMaps == IInv /\ [Next]_vars => [Shared!Next]_(Shared!vars)
<1> SUFFICES ASSUME IInv, [Next]_vars
             PROVE  Shared!Next \/ UNCHANGED Shared!vars
  OBVIOUS
<1>1. CASE UNCHANGED vars
  BY <1>1, Stutters DEF vars, tabs
<1>2. ASSUME NEW t \in Tabs, UNCHANGED setup, OpenTab(t)
      PROVE  Shared!Open(t)
  BY <1>2 DEF OpenTab, Shared!Open
<1>3. ASSUME NEW t \in Tabs, SaveTimer(t)
      PROVE  Shared!Keep(t)
  <2>1. t \in opened
    BY <1>3 DEF SaveTimer, IInv, Open
  <2> QED BY <1>3, <2>1 DEF SaveTimer, Shared!Keep
<1>4. ASSUME NEW t \in Tabs, UNCHANGED setup,
             \/ OpenTab(t) \/ Edit(t) \/ OnChannel(t) \/ SaveTimer(t)
             \/ Dispose(t) \/ Crash(t)
      PROVE  Shared!Next
  BY <1>2, <1>3, <1>4, EditMaps, ChannelMaps, LeaveMaps DEF Shared!Next
<1>5. ASSUME NEW t \in Tabs, Callback(t) \/ Drop(t)
      PROVE  Shared!Next \/ UNCHANGED Shared!vars
  <2>1. CASE OnMessage(t)
    BY <2>1, MessageMaps DEF Shared!Next
  <2>2. CASE OnOpen(t) \/ OnClose(t) \/ Reconnect(t) \/ Drop(t)
    BY <2>2, Stutters DEF OnOpen, OnClose, Reconnect, Drop
  <2> QED BY <1>5, <2>1, <2>2 DEF Callback
<1>6. ASSUME NEW c \in Conns, Handle(c) \/ Refuse(c)
      PROVE  UNCHANGED Shared!vars
  BY <1>6, Stutters
     DEF Handle, Refuse, Subscribe, LoadSnapshot, Broadcast, Save, tabs
<1> QED BY <1>1, <1>4, <1>5, <1>6 DEF Next, Step

(* The transport implements the shared document: a tab starts from what    *)
(* its browser kept, gains only what somebody wrote, loses nothing while   *)
(* it is open, and a browser keeps nothing else.                           *)
THEOREM ImplementsShared == Spec => ImplementsSharedDoc
<1> QED BY Invariance, InitMaps, StepMaps, PTL
        DEF Spec, ImplementsSharedDoc, Shared!Spec
=============================================================================
