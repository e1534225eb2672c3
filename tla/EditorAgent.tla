---------------------------- MODULE EditorAgent ----------------------------
(***************************************************************************)
(* The editor agent (crates/sync/src/agent/editor.rs): a relay client that *)
(* watches a document, and answers below them the questions (`Q: ...`) and *)
(* the asks that mention it or an agent it owns (`@... `), from the brain: *)
(* a question with its own capability, an ask with its asker's.            *)
(*                                                                         *)
(* One room.  People write lines, each in a paragraph of its own; a line   *)
(* is the sequence of its texts, and its author types them one after       *)
(* another.  A document says how far every line is and which replies it    *)
(* holds: merging two takes the later text of each line and every reply.   *)
(* Nobody writes a line between a question and its reply.                  *)
(*                                                                         *)
(* Frames go through the relay in the order it reads them.  Time passes in *)
(* steps of STABLE_MS = 1.5 s, in which every frame on its way arrives and *)
(* somebody in the middle of a line goes on before PauseLimit of them. The *)
(* brain, external here, is a constant: what it remembers and what of it   *)
(* each principal's capability (load_capability, or the scenario's initial *)
(* one) reads.                                                             *)
(***************************************************************************)
EXTENDS Naturals, Sequences, FiniteSets, SequencesExt

CONSTANTS
    Humans, Watchers,
    Lines,        \* 1..n, from the top of the document down
    Author,       \* who writes each line
    Plans,        \* the sessions to check, records in which
                  \*   script    is the texts each line goes through
                  \*   watchers  are the watchers that may run
                  \*   drops     bound: watches that end
    Serves,       \* whom a watcher answers for: itself and agents it owns
    Remembered,   \* texts that match a memory card
    Readable,     \* <<principal, text>>: the principal may read that card
    Nobody,
    PauseLimit    \* bound: steps between two keystrokes of a line

Peers == Humans \cup Watchers
Texts == UNION {ToSet(p.script[l]) : p \in Plans, l \in Lines}

(* A reply: what it answers, in which version, and below which line it is. *)
Replying == [line : Lines, version : Nat, by : Watchers, asker : Peers,
             heard : BOOLEAN, under : Lines]

(* In steps of STABLE_MS. *)
STABLE == 1
WRITER_QUIET == 4

ASSUME EditorAgentAssumption ==
    /\ IsFiniteSet(Lines) /\ Lines = 1..Cardinality(Lines)
    /\ Author \in [Lines -> Humans]
    /\ Humans \cap Watchers = {}
    /\ \A p \in Plans : /\ p.script \in [Lines -> Seq(Texts)]
                       /\ p.watchers \subseteq Watchers /\ p.drops \in Nat
    /\ \A t \in Texts : t.kind \in {"empty", "prose", "Q", "ask", "A"}
    /\ Readable \subseteq Peers \X Texts
    /\ PauseLimit \in 1..(WRITER_QUIET - 1)
    /\ Nobody \notin Peers \cup Replying

VARIABLES
    plan,      \* the session, which never changes
    doc,       \* the document of every peer
    pause,     \* steps since a human's last keystroke
    inbox,     \* frames on their way from every peer to the relay
    outbox,    \* and back
    room,      \* the relay: who is subscribed
    store,     \* and its snapshot
    notices,   \* the denials each human was notified of, as lines
    link,      \* whether a watcher's loop runs
    answered,  \* its loop's texts answered, authors of lines, and the gate:
    authors,
    pending_since,  \* steps since a scan first saw a text, Unseen if none did
    last_writing,   \* steps since somebody was seen writing
    drops,
    begun      \* history: lines begun when the watcher was subscribed

loop == <<answered, authors, pending_since, last_writing>>
relay == <<inbox, outbox, room, store>>
vars == <<plan, doc, pause, relay, notices, link, loop, drops, begun>>

Script == plan.script

Unseen == STABLE + 1

Min2(a, b) == IF a < b THEN a ELSE b
Max2(a, b) == IF a < b THEN b ELSE a

NewDoc == [typed |-> [l \in Lines |-> 0], replies |-> {}]

Merge(d, e) ==
    [typed |-> [l \in Lines |-> Max2(d.typed[l], e.typed[l])],
     replies |-> d.replies \cup e.replies]

Update(d) == [kind |-> "UPDATE", doc |-> d]
Writing == [kind |-> "AWARENESS"]
Notify(h, l) == [kind |-> "NOTIFY", to |-> h, line |-> l]

Init ==
    /\ plan \in Plans
    /\ doc = [p \in Peers |-> NewDoc]
    /\ pause = [h \in Humans |-> WRITER_QUIET]
    /\ inbox = [p \in Peers |-> << >>] /\ outbox = [p \in Peers |-> << >>]
    /\ room = Humans /\ store = NewDoc
    /\ notices = [h \in Humans |-> {}]
    /\ link = [w \in Watchers |-> FALSE]
    /\ answered = [w \in Watchers |-> {}]
    /\ authors = [w \in Watchers |-> [l \in Lines |-> Nobody]]
    /\ pending_since = [w \in Watchers |-> [t \in Texts |-> Unseen]]
    /\ last_writing = [w \in Watchers |-> WRITER_QUIET]
    /\ drops = 0
    /\ begun = [w \in Watchers |-> {}]

-----------------------------------------------------------------------------
(* The people. *)

Unfinished(h, l) ==
    Author[l] = h /\ doc[h].typed[l] \in 1..(Len(Script[l]) - 1)

(* A keystroke: the full log, and the caret's move, sent as presence whose *)
(* mode is writing so soon after an edit.                                  *)
Type(h, l) ==
    /\ Author[l] = h /\ doc[h].typed[l] < Len(Script[l])
    /\ \A k \in Lines \ {l} : ~Unfinished(h, k)
    /\ LET d == [doc[h] EXCEPT !.typed[l] = @ + 1]
       IN /\ doc' = [doc EXCEPT ![h] = d]
          /\ inbox' = [inbox EXCEPT ![h] = @ \o <<Update(d), Writing>>]
    /\ pause' = [pause EXCEPT ![h] = 0]
    /\ UNCHANGED <<outbox, room, store, notices, link, loop, drops, begun>>

(* A browser merges an update, and shows a notice addressed to it.         *)
Show(h) ==
    /\ outbox[h] # << >>
    /\ outbox' = [outbox EXCEPT ![h] = Tail(@)]
    /\ LET f == Head(outbox[h]) IN
        \/ /\ f.kind = "UPDATE" /\ doc' = [doc EXCEPT ![h] = Merge(@, f.doc)]
           /\ UNCHANGED notices
        \/ /\ f.kind = "NOTIFY"
           /\ notices' = [notices EXCEPT ![h] = @ \cup {f.line}]
           /\ UNCHANGED doc
    /\ UNCHANGED <<pause, inbox, room, store, link, loop, drops, begun>>

-----------------------------------------------------------------------------
(* The relay, of which Relay has the rest: it stamps an update with its    *)
(* sender and sends it on before it becomes the room's snapshot.  What a   *)
(* receiver would ignore is left out.                                      *)

Heeds(q, f) ==
    \/ f.kind = "UPDATE"
    \/ f.kind = "AWARENESS" /\ q \in Watchers
    \/ f.kind = "NOTIFY" /\ q = f.to

Forward(p, f) ==
    outbox' = [q \in Peers |-> IF q \in room \ {p} /\ Heeds(q, f)
                               THEN Append(outbox[q], f) ELSE outbox[q]]

Serve(p) ==
    /\ inbox[p] # << >>
    /\ inbox' = [inbox EXCEPT ![p] = Tail(@)]
    /\ LET f == Head(inbox[p]) IN
        \/ /\ f.kind = "SUBSCRIBE"
           /\ room' = room \cup {p}
           /\ outbox' = [outbox EXCEPT ![p] =
                            Append(@, [kind |-> "SNAPSHOT", doc |-> store])]
           /\ begun' = [begun EXCEPT ![p] =
                           {l \in Lines : doc[Author[l]].typed[l] > 0}]
           /\ UNCHANGED store
        \/ /\ f.kind = "UPDATE"
           /\ Forward(p, [kind |-> "UPDATE", doc |-> f.doc, from |-> p])
           /\ store' = f.doc
           /\ UNCHANGED <<room, begun>>
        \/ /\ f.kind \in {"AWARENESS", "NOTIFY"}
           /\ Forward(p, f)
           /\ UNCHANGED <<room, store, begun>>
    /\ UNCHANGED <<doc, pause, notices, link, loop, drops>>

-----------------------------------------------------------------------------
(* The watcher. *)

(* watch: an empty document, nothing remembered of an earlier watch. *)
Watch(w) ==
    /\ w \in plan.watchers /\ ~link[w] /\ inbox[w] = << >>
    /\ link' = [link EXCEPT ![w] = TRUE]
    /\ doc' = [doc EXCEPT ![w] = NewDoc]
    /\ inbox' = [inbox EXCEPT ![w] = <<[kind |-> "SUBSCRIBE"]>>]
    /\ answered' = [answered EXCEPT ![w] = {}]
    /\ authors' = [authors EXCEPT ![w] = [l \in Lines |-> Nobody]]
    /\ pending_since' = [pending_since EXCEPT ![w] = [t \in Texts |-> Unseen]]
    /\ last_writing' = [last_writing EXCEPT ![w] = WRITER_QUIET]
    /\ UNCHANGED <<pause, outbox, room, store, notices, drops, begun>>

(* The socket fails, the relay answers with an ERROR, or the agent dies:   *)
(* of what it sent, a prefix is still read, but for the first frame of a   *)
(* watch, which subscribes.                                                *)
Drop(w) ==
    /\ link[w] /\ drops < plan.drops
    /\ drops' = drops + 1
    /\ link' = [link EXCEPT ![w] = FALSE]
    /\ LET first == IF inbox[w] # << >> /\ Head(inbox[w]).kind = "SUBSCRIBE" THEN 2 ELSE 1
       IN \E n \in 0..Len(inbox[w]) : inbox' = [inbox EXCEPT ![w] = SubSeq(@, first, n)]
    /\ outbox' = [outbox EXCEPT ![w] = << >>]
    /\ room' = room \ {w}
    /\ UNCHANGED <<doc, pause, store, notices, loop, begun>>

(* Mutant: the last sender of a line is its author. *)
AttributeLast(w, d, from) ==
    [l \in Lines |-> IF d.typed[l] > 0 THEN from ELSE authors[w][l]]

(* Lines an update introduces are their sender's; the first author stays.  *)
Attribute(w, d, from) ==
    [l \in Lines |-> IF doc[w].typed[l] = 0 /\ d.typed[l] > 0
                     THEN (IF authors[w][l] = Nobody THEN from ELSE authors[w][l])
                     ELSE authors[w][l]]

(* The snapshot's lines have no author; a peer's writing presence is seen. *)
Read(w) ==
    /\ link[w] /\ outbox[w] # << >>
    /\ outbox' = [outbox EXCEPT ![w] = Tail(@)]
    /\ LET f == Head(outbox[w]) IN
        \/ /\ f.kind = "SNAPSHOT"
           /\ doc' = [doc EXCEPT ![w] = Merge(@, f.doc)]
           /\ UNCHANGED <<authors, last_writing>>
        \/ /\ f.kind = "UPDATE"
           /\ doc' = [doc EXCEPT ![w] = Merge(@, f.doc)]
           /\ authors' = [authors EXCEPT ![w] =
                             Attribute(w, Merge(doc[w], f.doc), f.from)]
           /\ UNCHANGED last_writing
        \/ /\ f.kind = "AWARENESS"
           /\ last_writing' = [last_writing EXCEPT ![w] = 0]
           /\ UNCHANGED <<doc, authors>>
    /\ UNCHANGED <<pause, inbox, room, store, notices, link, answered,
                   pending_since, drops, begun>>

-----------------------------------------------------------------------------
(* A scan. *)

TextOf(d, l) == Script[l][d.typed[l]]

(* Answered: the next block that is not empty is an answer, somebody's     *)
(* line or a reply.                                                        *)
Answered(d, l) ==
    \E k \in Lines :
        /\ k >= l
        /\ \/ \E r \in d.replies : r.under = k
           \/ k > l /\ d.typed[k] > 0 /\ TextOf(d, k).kind = "A"
        /\ \A m \in (l + 1)..k :
            \/ d.typed[m] = 0 \/ TextOf(d, m).kind = "empty"
            \/ m = k /\ TextOf(d, m).kind = "A"

(* find_unanswered and find_mention_asks, less what this watch answered    *)
(* and the asks addressed to somebody else.                                *)
Candidates(w, d) ==
    {l \in Lines :
        /\ d.typed[l] > 0 /\ TextOf(d, l) \notin answered[w]
        /\ LET t == TextOf(d, l) IN
            t.kind = "Q" \/ (t.kind = "ask" /\ t.to \in Serves[w])
        /\ ~Answered(d, l)}

(* Mutant: every scan starts the clock of a text again. *)
ObserveAfresh(w, texts) ==
    [t \in Texts |-> IF t \in texts THEN 0 ELSE Unseen]

(* QuestionGate: the clock of a text starts when a scan first finds it and *)
(* is forgotten once a scan does not.                                      *)
Observe(w, texts) ==
    [t \in Texts |-> IF t \notin texts THEN Unseen
                     ELSE IF pending_since[w][t] = Unseen THEN 0
                     ELSE pending_since[w][t]]

(* Mutant: nobody is waited for. *)
ReadyAnyway(w, seen) == {t \in Texts : seen[t] = STABLE}

(* A text is ready once it was stable, and nobody was writing, for long.   *)
Ready(w, seen) ==
    {t \in Texts : seen[t] = STABLE /\ last_writing[w] >= WRITER_QUIET}

(* resolve_ask: the card that matches may not be read. *)
Denied(p, t) == t \in Remembered /\ <<p, t>> \notin Readable

(* A question is answered with the watcher's capability, an ask with that  *)
(* of its asker.                                                           *)
ReplyTo(w, l) ==
    LET t == TextOf(doc[w], l)
        asker == IF t.kind = "Q" THEN w ELSE authors[w][l]
    IN [line |-> l, version |-> doc[w].typed[l], by |-> w, asker |-> asker,
        heard |-> l \notin begun[w], under |-> l]

(* read_blocks: the lines that are there, each with the replies below it.  *)
Blocks(d) ==
    LET Under(l) == SetToSeq({r \in d.replies : r.under = l})
        Below(l) == [i \in DOMAIN Under(l) |-> [line |-> l, reply |-> Under(l)[i]]]
    IN FlattenSeq([l \in Lines |->
                      IF d.typed[l] = 0 THEN << >>
                      ELSE <<[line |-> l, reply |-> Nobody]>> \o Below(l)])

(* Mutant: from the top down, so that an insertion shifts the next ones.   *)
LastBelow(S) == Max(S)

(* Bottom-up, so that earlier indices stay valid: the topmost comes last.  *)
LastInserted(S) == Min(S)

(* The blocks once replies were inserted, each at its line's index in what *)
(* the scan read, plus one.                                                *)
Inserted(w, b, lines) ==
    LET At == {i \in DOMAIN b : b[i].reply = Nobody /\ b[i].line \in lines}
        Insert(i, c) == InsertAt(c, i + 1, [line |-> b[i].line,
                                            reply |-> ReplyTo(w, b[i].line)])
    IN MapThenFoldSet(Insert, b, LAMBDA i : i, LastInserted, At)

(* The replies among some blocks, with the line each of them is below. *)
Placed(c) ==
    {[c[j].reply EXCEPT !.under =
        c[CHOOSE i \in 1..j : /\ c[i].reply = Nobody
                              /\ \A k \in (i + 1)..j : c[k].reply # Nobody].line] :
        j \in {k \in DOMAIN c : c[k].reply # Nobody}}

(* The asks among some lines whose asker may not read the answer, in the   *)
(* order of the lines.                                                     *)
Denials(w, lines) ==
    LET denied == {l \in lines : /\ TextOf(doc[w], l).kind = "ask"
                                /\ Denied(authors[w][l], TextOf(doc[w], l))}
    IN FlattenSeq([l \in Lines |-> IF l \in denied THEN <<Notify(authors[w][l], l)>>
                                   ELSE << >>])

(* Mutant: the denials are sent before the document. *)
FramesDenialsFirst(d, denials) ==
    <<Writing>> \o denials \o <<Update(d)>>

(* Writing presence, the full log, then the denials. *)
Frames(d, denials) == <<Writing, Update(d)>> \o denials

Reply(w, lines) ==
    /\ \E b \in {Blocks(doc[w])} : \E c \in {Inserted(w, b, lines)} :
        doc' = [doc EXCEPT ![w].replies = Placed(c)]
    /\ answered' = [answered EXCEPT ![w] =
                       @ \cup {TextOf(doc[w], l) : l \in lines}]
    /\ inbox' = [inbox EXCEPT ![w] = @ \o Frames(doc'[w], Denials(w, lines))]

Scan(w) ==
    /\ link[w]
    /\ LET waiting == Candidates(w, doc[w])
           seen == Observe(w, {TextOf(doc[w], l) : l \in waiting})
           ready == {l \in waiting :
                       /\ TextOf(doc[w], l) \in Ready(w, seen)
                       /\ TextOf(doc[w], l).kind = "ask" => authors[w][l] # Nobody}
       IN /\ pending_since' = [pending_since EXCEPT ![w] = seen]
          /\ \/ ready = {} /\ UNCHANGED <<doc, inbox, answered>>
             \/ ready # {} /\ \E lines \in {ready} : Reply(w, lines)
    /\ UNCHANGED <<pause, outbox, room, store, notices, link, authors,
                   last_writing, drops, begun>>

-----------------------------------------------------------------------------
(* Time. *)
Tick ==
    /\ \A p \in Peers : inbox[p] = << >> /\ outbox[p] = << >>
    /\ \A h \in Humans : (\E l \in Lines : Unfinished(h, l)) =>
                            pause[h] < PauseLimit
    /\ pause' = [h \in Humans |-> Min2(pause[h] + 1, WRITER_QUIET)]
    /\ last_writing' = [w \in Watchers |-> Min2(last_writing[w] + 1, WRITER_QUIET)]
    /\ pending_since' =
         [w \in Watchers |-> [t \in Texts |->
            IF pending_since[w][t] = Unseen THEN Unseen ELSE STABLE]]
    /\ UNCHANGED <<doc, relay, notices, link, answered, authors, drops, begun>>

Step ==
    \/ \E h \in Humans : Show(h) \/ \E l \in Lines : Type(h, l)
    \/ \E p \in Peers : Serve(p)
    \/ \E w \in Watchers : Watch(w) \/ Drop(w) \/ Read(w) \/ Scan(w)
    \/ Tick

Next == Step /\ UNCHANGED plan

(* The loop's select serves its socket and its scan timer, the relay its   *)
(* clients, browsers their sockets; time passes, and who began a line      *)
(* finishes it.  Every one of these can happen only so often without the   *)
(* others, so one of them at a time is enough.                             *)
Due ==
    \/ \E h \in Humans : Show(h) \/ \E l \in Lines : Unfinished(h, l) /\ Type(h, l)
    \/ \E p \in Peers : Serve(p)
    \/ \E w \in Watchers : Read(w) \/ Scan(w)
    \/ Tick

Spec == Init /\ [][Next]_vars /\ WF_vars(Due /\ UNCHANGED plan)

-----------------------------------------------------------------------------
Replies == (UNION {doc[p].replies : p \in Peers}) \cup store.replies
AskOf(r) == Script[r.line][r.version]

Shared(l, t) == \E k \in Lines \ {l} : t \in ToSet(Script[k])

(* "never one mid-keystroke" (editor.rs:11): a line begun while a watcher  *)
(* listens gets no reply before its author is done, if the author does not *)
(* pause for WRITER_QUIET_MS.  A watcher that starts meanwhile has seen    *)
(* nobody writing, and may; and so may one whose clock runs for another    *)
(* line with the text this one has so far, before it sees that somebody is *)
(* writing.                                                                *)
NeverMidTyping ==
    \A r \in Replies :
        (r.heard /\ ~Shared(r.line, AskOf(r))) => r.version = Len(Script[r.line])

(* "authorized against the asker's token" (editor.rs:23): the reply to an  *)
(* ask made while the watcher listens says what its author may read,       *)
(* whichever full logs carry the ask around.  An ask made before may reach *)
(* the watcher first in another's log, and is then that one's.             *)
AskerAuthorizes ==
    \A r \in Replies :
        (r.heard /\ AskOf(r).kind = "ask") => r.asker = Author[r.line]

(* A reply is below what it answers, however many a scan answers, and a    *)
(* person who is notified of a denial has its reply on the screen          *)
(* (editor.rs:666, 683).                                                   *)
RepliesInPlace ==
    /\ \A r \in Replies : r.under = r.line
    /\ \A h \in Humans : \A l \in notices[h] :
         \E r \in doc[h].replies : r.line = l /\ Denied(h, AskOf(r))

(* Somebody else's line with the same text: a watch answers a text once.   *)
Repeated(l) == Shared(l, Last(Script[l]))

(* A finished question, or ask of one the watcher serves and whose author  *)
(* it knows.                                                               *)
Waits(w, l) ==
    /\ link[w] /\ doc[w].typed[l] > 0 /\ doc[w].typed[l] = Len(Script[l])
    /\ ~Repeated(l) /\ ~Answered(doc[w], l)
    /\ LET t == TextOf(doc[w], l) IN
        t.kind = "Q" \/ (t.kind = "ask" /\ t.to \in Serves[w]
                          /\ authors[w][l] # Nobody)

(* What waits for an answer gets one, however the gate's clocks and the    *)
(* presence of people and other watchers put it off.                       *)
AsksAnswered == []<>(\A w \in Watchers : \A l \in Lines : ~Waits(w, l))
=============================================================================
