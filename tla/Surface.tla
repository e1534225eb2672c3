------------------------------ MODULE Surface -------------------------------
(***************************************************************************)
(* One editing surface: attachEditor (packages/weaver/dom/src/bridge.ts)   *)
(* over the editor and the keymap, the @-mention picker of @weaver/react,  *)
(* the commands the app calls, and the edits of remote peers.              *)
(*                                                                         *)
(* An action is one browser task.  Every handler renders before it ends,   *)
(* and a commit from elsewhere is rendered in a microtask of its own task, *)
(* so between tasks the DOM shows the document and only the DOM selection  *)
(* is a state of its own.                                                  *)
(***************************************************************************)
EXTENDS Keymap

CONSTANTS Pages,         \* the documents a session may open with
          Typings,       \* what one input event may insert: sequences of glyphs
          RemoteEdits,   \* which edits peers make: a subset of {"insert", "delete"}
          MaxGestures,   \* bound: number of tasks that change anything but the selection
          MaxRanges      \* bound: selecting and composing begin before so many of them

VARIABLES ed,            \* the editor
          dsel,          \* the DOM selection, as model offsets
          ime,           \* [on, at]: a composition and where it will insert
          tabbed,        \* lastIndentTarget
          clip,          \* the clipboard: [frags, lines]
          editable,
          picker,        \* the mention trigger: [b, from, to, q], b = Root when closed
          did,           \* the last gesture, and whether it threw
          gestures

vars == <<ed, dsel, ime, tabbed, clip, editable, picker, did, gestures>>

FirstFresh == 50      \* the names below it may be used by the document a session opens with

ASSUME PagesAssumption == \A d \in Pages : IsDocument(d, FirstFresh)
ASSUME TypingsAssumption == Typings \subseteq Seq(Word) \ {<<>>}
ASSUME RemoteEditsAssumption == RemoteEdits \subseteq {"insert", "delete"}

NoClip == [frags |-> <<>>, lines |-> <<>>]
NoPicker == [b |-> Root, from |-> 0, to |-> 0, q |-> <<>>]
NoIme == [on |-> FALSE, at |-> NoCaret]
-----------------------------------------------------------------------------
(* The DOM selection.                                                      *)

InDoc(e, s) == s # NoSel /\ Known(e, s)
Glyphs(t) == [k \in DOMAIN t |-> t[k].g]
\* What is rendered of a block: nothing, if it is not inline.
ShownText(e, id) == IF Inline(e, id) THEN BlockOf(e.doc, id).text ELSE <<>>
ShownLen(e, id) == Len(ShownText(e, id))
SameText(old, e, id) == Has(old.doc, id) /\ Glyphs(ShownText(old, id)) = Glyphs(TextOf(e, id))
\* setEnd before setStart collapses the range: a backward one keeps its focus.
Written(e, s) ==
  LET fit(p) == Caret(p.b, IF p.o > ShownLen(e, p.b) THEN ShownLen(e, p.b) ELSE p.o)
      r == At2(fit(s.a), fit(s.f))
  IN  IF Ordered(e, r) = r THEN r ELSE At2(r.f, r.f)
\* What rendering alone does to a selection: gone with its block, at the start
\* of a block whose text nodes were replaced.
Left(old, e, s) ==
  LET stay(p) == Caret(p.b, IF /\ Inline(e, p.b) /\ SameText(old, e, p.b)
                               /\ \A k \in DOMAIN TextOf(e, p.b) : TextOf(e, p.b)[k].m = {}
                            THEN p.o ELSE 0)
  IN  IF InDoc(e, s) THEN At2(stay(s.a), stay(s.f)) ELSE NoSel

\* flushRerender: the pending selection, or the present one when the text under
\* it is what it was, is written back.
Flushed(old, e, pending, s) ==
  IF pending # NoSel
  THEN IF Known(e, pending) THEN Written(e, pending) ELSE Left(old, e, s)
  ELSE IF InDoc(e, s) /\ SameText(old, e, s.a.b) /\ SameText(old, e, s.f.b) THEN Written(e, s)
  ELSE Left(old, e, s)

\* ensureCaretInBlock: a caret outside every block goes to the end of the last.
EnsuredCaret == IF InDoc(ed, dsel) THEN dsel ELSE Point(Last(ed.doc).id, ShownLen(ed, Last(ed.doc).id))

\* detectMentionTrigger, for a caret
Trigger(e, s) ==
  LET t == TextOf(e, s.a.b)
      starts == {k \in 1..s.a.o : /\ t[k].g = "@" /\ \A j \in (k + 1)..s.a.o : t[j].g \notin Space \union {"@"}
                                  /\ k = 1 \/ t[k - 1].g \in Space}
      k == CHOOSE k \in starts : TRUE
  IN  IF ~InDoc(e, s) \/ ~Collapsed(s) \/ starts = {} THEN NoPicker
      ELSE [b |-> s.a.b, from |-> k - 1, to |-> s.a.o, q |-> Glyphs(SubSeq(t, k, s.a.o))]
-----------------------------------------------------------------------------
Init ==
  /\ \E d \in Pages : ed = NewEditor(d, FirstFresh)
  /\ dsel = NoSel /\ ime = NoIme /\ tabbed = Root /\ clip = NoClip
  /\ editable = TRUE /\ picker = NoPicker
  /\ did = [what |-> "open", threw |-> FALSE] /\ gestures = 0

\* A task that ends in e, asking for the selection pending, and renders.
Task(what, e, pending) ==
  /\ gestures < MaxGestures
  /\ gestures' = gestures + 1
  /\ ed' = [e EXCEPT !.threw = FALSE, !.group = "none"]
  /\ dsel' = Flushed(ed, e, IF e.threw THEN NoSel ELSE pending, dsel)
  /\ did' = [what |-> what, threw |-> e.threw]

CaretSel(at) == IF at = NoCaret THEN NoSel ELSE At2(at, at)
Retrigger == picker' = Trigger(ed', dsel')

\* A selection the user makes, and onSelectionChange, which the browser calls
\* for it: the core selection follows the DOM's.
Moved(s) ==
  /\ dsel' = s
  /\ ed' = Select(ed, s)
  /\ picker' = IF ime.on THEN NoPicker ELSE Trigger(ed, s)
  /\ did' = [what |-> "select", threw |-> FALSE]
  /\ UNCHANGED <<ime, tabbed, clip, editable, gestures>>

Named(s) == [k \in DOMAIN s |-> [c |-> ed.fresh + k - 1, g |-> s[k], m |-> {}]]

\* deleteDomRange: answers the editor; its selection is the caret that is left.
DeleteRange(e, s) == Replace(Select(e, s), <<>>)
-----------------------------------------------------------------------------
(* beforeinput, dropped while composing and swallowed when read-only       *)

BeforeInput(what, r) ==
  /\ ~ime.on /\ editable
  /\ Task(what, r.e, CaretSel(r.at))
  /\ Retrigger
  /\ UNCHANGED <<ime, tabbed, clip, editable>>

\* The selected text goes first; at is the caret that is left.
Cleared(s) ==
  LET cut == DeleteRange(ed, s)
  IN  IF Collapsed(s) THEN Result(ed, s.a)
      ELSE Result(cut, IF cut.threw THEN NoCaret ELSE cut.sel.a)

Type(g) ==
  LET r == Cleared(EnsuredCaret)
      e == Use(r.e, Len(g))
  IN  IF r.e.threw THEN BeforeInput("type", r)
      ELSE BeforeInput(Inserting(e, r.at, Named(g)), InsertText(e, r.at, Named(g)))

\* Enter and a soft line break act at the anchor; a selection is left alone.
EnterKey == BeforeInput("enter", Enter(ed, EnsuredCaret.a))
LineBreakKey ==
  BeforeInput("type", LineBreak(Use(ed, 1), EnsuredCaret.a, [c |-> ed.fresh, g |-> "\n", m |-> {}]))

DeleteKey(unit, forward) ==
  LET s == EnsuredCaret
  IN  BeforeInput("delete", IF ~Collapsed(s) THEN Cleared(s)
                            ELSE IF forward THEN DeleteAhead(ed, s.a, unit)
                            ELSE DeleteBack(ed, s.a, unit))

\* deleteByCut, deleteByDrag
DeleteBy == LET s == EnsuredCaret
            IN  ~Collapsed(s) /\ BeforeInput("delete", Cleared(s))

HistoryKey(redo) ==
  /\ editable
  /\ Task("history", IF redo THEN Redo(ed) ELSE Undo(ed), NoSel)
  /\ Retrigger
  /\ UNCHANGED <<ime, tabbed, clip, editable>>
-----------------------------------------------------------------------------
(* keydown                                                                 *)

KeyDown(what, e, pending, target) ==
  /\ editable
  /\ Task(what, e, pending)
  /\ tabbed' = target
  /\ UNCHANGED <<ime, clip, editable, picker>>

Tab(shift) ==
  LET id == IF InDoc(ed, dsel) THEN dsel.a.b ELSE tabbed
      code == InDoc(ed, dsel) /\ BlockOf(ed.doc, id).kind = "code" /\ ~shift
  IN  /\ id # Root
      /\ IF code
         THEN KeyDown("type", TextInsert(Use(ed, 1), id, dsel.a.o, <<[c |-> ed.fresh, g |-> " ", m |-> {}]>>),
                      Point(id, dsel.a.o + 1), tabbed)
         ELSE KeyDown("tab", IF shift THEN Outdent(ed, id) ELSE Indent(ed, id), dsel, id)

MarkKey == InDoc(ed, dsel) /\ KeyDown("mark", MarkSegments(ed, dsel, "bold"), dsel, tabbed)
ClearKey == InDoc(ed, dsel) /\ KeyDown("mark", ClearSegments(ed, dsel), dsel, tabbed)

SelectAllKey ==
  /\ ed.doc # <<>> /\ gestures < MaxRanges
  /\ Moved(Written(ed, SelectAll(ed).sel))
-----------------------------------------------------------------------------
(* Composition: the text goes to where the caret was when it began; one    *)
(* that is cancelled has none.                                             *)

CompositionStart ==
  /\ ~ime.on /\ gestures < MaxRanges
  /\ ime' = [on |-> TRUE, at |-> IF InDoc(ed, dsel) /\ Collapsed(dsel) THEN dsel.a ELSE NoCaret]
  /\ UNCHANGED <<ed, dsel, tabbed, clip, editable, picker, did, gestures>>

CompositionEnd(g) ==
  LET c == ime.at
      insert == editable /\ c # NoCaret /\ g # <<>>
  IN  /\ ime.on
      /\ ime' = NoIme
      /\ Task("compose", IF insert THEN TextInsert(Use(ed, Len(g)), c.b, c.o, Named(g)) ELSE ed,
              IF insert THEN Point(c.b, c.o + Len(g)) ELSE NoSel)
      /\ IF editable /\ ~did'.threw THEN Retrigger ELSE UNCHANGED picker
      /\ UNCHANGED <<tabbed, clip, editable>>
-----------------------------------------------------------------------------
(* The clipboard takes the DOM selection first; it asks for no editable.   *)

ClipOf(e) == [frags |-> Copy(e), lines |-> TextContent(e)]

CopyKey ==
  LET e == Select(ed, dsel)
  IN  /\ InDoc(ed, dsel) /\ Copy(e) # <<>> /\ gestures < MaxGestures
      /\ clip' = ClipOf(e)
      /\ ed' = e
      /\ did' = [what |-> "copy", threw |-> FALSE]
      /\ gestures' = gestures + 1
      /\ UNCHANGED <<dsel, ime, tabbed, editable, picker>>

\* When the removal throws, nothing has been put on the clipboard.
CutKey ==
  /\ InDoc(ed, dsel) /\ Copy(Select(ed, dsel)) # <<>>
  /\ \E cut \in {Replace(Select(ed, dsel), <<>>)} :
       /\ clip' = IF cut.threw THEN clip ELSE ClipOf(Select(ed, dsel))
       /\ Task("cut", cut, CaretSel(cut.sel.a))
  /\ UNCHANGED <<ime, tabbed, editable, picker>>

\* A structured paste that throws falls back to the text, on what is left.
Plain(lines) == [k \in DOMAIN lines |-> [j \in DOMAIN lines[k] |-> [Copied(lines[k])[j] EXCEPT !.m = {}]]]
OrText(e) == IF e.threw THEN PasteText([e EXCEPT !.threw = FALSE], Plain(clip.lines)) ELSE e
PasteKey(rich) ==
  LET e == Select(ed, dsel)
  IN  /\ InDoc(ed, dsel) /\ clip # NoClip
      /\ \E done \in {OrText(IF rich THEN Paste(e, clip.frags) ELSE [e EXCEPT !.threw = TRUE])} :
           Task("paste", done, CaretSel(done.sel.a))
      /\ UNCHANGED <<ime, tabbed, clip, editable, picker>>
-----------------------------------------------------------------------------
(* Mouse, focus, picker                                                    *)

\* The user moves the DOM selection; so does focus on a caret outside.  Bounds:
\* once between two other tasks, and after MaxRanges of them only to paste.
MoveSelection(s) ==
  /\ s # dsel /\ gestures < MaxGestures /\ did.what # "select"
  /\ gestures < MaxRanges \/ (Collapsed(s) /\ clip # NoClip)
  /\ Moved(s)

Focus == ed.doc # <<>> /\ EnsuredCaret # dsel /\ gestures < MaxGestures /\ Moved(EnsuredCaret)

ClickToDo(id) ==
  /\ editable /\ BlockOf(ed.doc, id).kind = "to-do"
  /\ Task("click", SetAttr(ed, id, IF BlockOf(ed.doc, id).attr = "checked" THEN "unchecked" ELSE "checked"), NoSel)
  /\ UNCHANGED <<ime, tabbed, clip, editable, picker>>

(* Mutant: the trigger is trusted. *)
PickMentionTrusting(who) ==
  /\ picker # NoPicker /\ Live(ed, picker.b)
  /\ Task("pick", InsertMention(ed, picker.b, picker.from, picker.to, who), Point(picker.b, picker.from + 2))
  /\ picker' = NoPicker
  /\ UNCHANGED <<ime, tabbed, clip, editable>>

\* MentionsApi.insert: the trigger is read again before it is replaced.
PickMention(who) ==
  LET p == picker
      still == Live(ed, p.b) /\ Glyphs(SubSeq(TextOf(ed, p.b), p.from + 1,
                                  IF p.to > TextLen(ed.doc, p.b) THEN TextLen(ed.doc, p.b) ELSE p.to)) = p.q
  IN  /\ p # NoPicker
      /\ picker' = NoPicker
      /\ IF still THEN Task("pick", InsertMention(ed, p.b, p.from, p.to, who), Point(p.b, p.from + 2))
         ELSE did' = [what |-> "select", threw |-> FALSE] /\ UNCHANGED <<ed, dsel, gestures>>
      /\ UNCHANGED <<ime, tabbed, clip, editable>>

ClosePicker ==
  /\ picker # NoPicker /\ picker' = NoPicker
  /\ UNCHANGED <<ed, dsel, ime, tabbed, clip, editable, did, gestures>>
-----------------------------------------------------------------------------
(* The app and the peers                                                   *)

\* Bound: flipped during a composition only; otherwise it just disables keys.
SetEditable(on) ==
  /\ ime.on \/ on
  /\ editable # on /\ editable' = on /\ gestures < MaxGestures
  /\ UNCHANGED <<ed, dsel, ime, tabbed, clip, picker, did, gestures>>

\* Commands called from code: a block appended, a link or a comment put on a
\* block, a block moved, everything cleared.  Bound: the first block.
Command ==
  LET b == ed.doc[1].id
      all == TextLen(ed.doc, b)
  IN  /\ \/ Task("insert", BlockInsert(ed, Root, Cardinality(Children(ed.doc, 0)), "paragraph", "none"), NoSel)
         \/ Task("annotate", ToggleMark(ed, b, 0, all, "comment-anchor", "thread"), NoSel)
         \/ Task("annotate", MarkUpdate(ed, b, 0, all, "link", "href"), NoSel)
         \/ \E p \in IdsOf(ed.doc) \union {Root} : Task("move", Move(ed, b, p, 1), NoSel)
         \/ Task("clear", Clear(ed), NoSel)
      /\ UNCHANGED <<ime, tabbed, clip, editable, picker>>

\* A peer's edit reaches the document and, rebased, every undo step.
Remote(kind, id) ==
  LET edit(d) ==
        IF ~Has(d, id) THEN d
        ELSE IF kind = "delete" THEN Without(d, id, ed.fresh)
        ELSE SetText(d, id, <<[c |-> ed.fresh, g |-> "x", m |-> {}]>> \o BlockOf(d, id).text)
      over(stack) == [k \in DOMAIN stack |-> edit(stack[k])]
  IN  /\ kind = "insert" => Inline(ed, id)
      /\ Task("remote", Use([ed EXCEPT !.doc = edit(@), !.past = over(@), !.future = over(@)], 1), NoSel)
      /\ UNCHANGED <<ime, tabbed, clip, editable, picker>>

\* Bound: a backward selection starts at the end of the page.
Carets(e) == {Caret(e.doc[i].id, o) : i \in DOMAIN e.doc, o \in 0..3}
Ranges(e) ==
  LET all == {p \in Carets(e) : p.o <= ShownLen(e, p.b)}
  IN  {s \in {At2(a, f) : a, f \in all} : Ordered(e, s) = s \/ s.a.b = Last(e.doc).id}

Next ==
  \/ \E g \in Typings : Type(g)
  \/ \E g \in Typings \union {<<>>} : CompositionEnd(g)
  \/ EnterKey \/ LineBreakKey
  \/ \E unit \in Units, forward \in BOOLEAN : DeleteKey(unit, forward)
  \/ DeleteBy
  \/ \E b \in BOOLEAN : HistoryKey(b) \/ Tab(b) \/ PasteKey(b) \/ SetEditable(b)
  \/ MarkKey \/ ClearKey \/ SelectAllKey
  \/ CompositionStart
  \/ CopyKey \/ CutKey
  \/ \E s \in Ranges(ed) : MoveSelection(s)
  \/ Focus
  \/ \E id \in IdsOf(ed.doc) : ClickToDo(id)
  \/ PickMention("ana") \/ ClosePicker
  \/ Command
  \/ \E kind \in RemoteEdits, id \in IdsOf(ed.doc) : Remote(kind, id)

Spec == Init /\ [][Next]_vars
-----------------------------------------------------------------------------
(* Properties                                                              *)

Gesture(kinds) == gestures' # gestures /\ did'.what \in kinds
Shortcuts == {"block shortcut", "inline shortcut"}
Order(d) == SelectSeq(FlattenSeq([i \in DOMAIN d |-> [k \in DOMAIN d[i].text |-> d[i].text[k].c]]),
                      LAMBDA c : c # 0)
MarksOf(d, c) == (CHOOSE x \in CharsOf(d) : x.c = c).m
Lost == NamesOf(ed.doc) \ NamesOf(ed'.doc)
Kept == NamesOf(ed.doc) \intersect NamesOf(ed'.doc)
Selected(e, s) ==
  UNION {{x.c : x \in Range(Covered(e, Ordered(e, s), id))} : id \in Range(Spanned(e, s))}
\* Text of a divider or below one: deleting the divider takes it along.
BelowDivider(d) ==
  UNION {{x.c : x \in Range(d[j].text)} :
           j \in {j \in DOMAIN d : \E i \in 1..j : ~HasInline(d[i].kind) /\ SelfOrDescendant(d, i, j)}}
\* Where the subtrees of the blocks i..j end that reach beyond j.  The blocks after
\* j up to there come to hang below i when i..j are merged: in their old order if
\* all of those subtrees end together.
Ends(d, i, j) == {LastOf(d, k) : k \in i..j} \ 1..j
\* The characters of a stretch of block id that begins or ends at offset o.
Stretch(e, id, o, names) ==
  LET t == TextOf(e, id)
      at == {k \in DOMAIN t : t[k].c \in names}
  IN  /\ Cardinality(at) = Cardinality(names)
      /\ at = (o + 1)..(o + Cardinality(at)) \/ at = (o - Cardinality(at) + 1)..o
Shortened(names) == \A c \in names : \E x \in CharsOf(ed.doc) :
                      x.c = c /\ x.g \in DOMAIN Starter \union DOMAIN Delimiter \union {" "}

\* The document always stands for a tree and is never empty, every undo step
\* leads to such a document, no name is used twice, every inline block has a text
\* container, and where there is text there is one: no command of a later gesture
\* fails for want of it.  (That only inline blocks have text is not so: one plain
\* line pasted with the caret on a divider goes into it, where nothing shows it.)
TypeOK ==
  /\ \A d \in {ed.doc} \union Range(ed.past) \union Range(ed.future) : IsDocument(d, ed.fresh)
  /\ ~ed.threw /\ ed.group = "none"
  /\ picker # NoPicker => picker.from < picker.to

\* No gesture of the user loses a character it was not aimed at: typing, cut
\* and paste lose what was selected (and the glyphs of a shortcut), a delete key
\* a stretch next to the caret, a mention the query it replaces, anything
\* else nothing.  Left out is a paste that fails: with a divider at the start of
\* the selection it throws after it took out the selected text of the next block,
\* and its fallback takes out as much again of what is left, and throws.
LosesWhatItNames ==
  LET s == EnsuredCaret
      lost == Lost \ BelowDivider(ed.doc)
      shown == IF InDoc(ed, s) THEN Selected(ed, s) ELSE {}
  IN  /\ Gesture(Shortcuts) => Shortened(lost \ shown)
      /\ Gesture({"type", "cut"}) \/ (Gesture({"paste"}) /\ ~did'.threw) => lost \subseteq shown
      /\ Gesture({"delete"}) => IF Collapsed(s) THEN Stretch(ed, s.a.b, s.a.o, lost) ELSE lost \subseteq shown
      /\ Gesture({"pick"}) => Glyphs(SelectSeq(TextOf(ed, picker.b), LAMBDA x : x.c \in Lost)) = picker.q
      /\ Gesture({"enter", "tab", "mark", "annotate", "compose", "click", "insert", "move"}) => Lost = {}
\* What stays is read in the same order.  Left out is what the code is known to
\* reorder: a tail that is split off goes below the children of its block (and, at
\* a paste, below those left over from a selection); the children of a block that
\* is merged go to the end of those of the block it is merged into; a block that
\* is outdented goes below its later siblings.
KeepsOrder ==
  LET kept(d) == SelectSeq(Order(d), LAMBDA c : c \in Kept)
      s == EnsuredCaret
      i == At(ed.doc, Ordered(ed, s).a.b)
      j == At(ed.doc, Ordered(ed, s).f.b)
      ahead == Collapsed(s) /\ s.a.o = ShownLen(ed, s.a.b) /\ j < Len(ed.doc)
      merges == Cardinality(Ends(ed.doc, i, IF ahead THEN j + 1 ELSE j)) > 1
      outdents == s.a.o = 0 /\ Collapsed(s) /\ BlockOf(ed.doc, s.a.b).depth > 0
      covered ==
        \/ Gesture({"mark", "annotate", "compose", "pick"})
        \/ Gesture({"enter"}) /\ Childless(ed.doc, s.a.b)
        \/ Gesture({"paste"}) /\ Ends(ed.doc, i, j) = {}
        \/ Gesture(Shortcuts \union {"type", "cut"}) /\ Cardinality(Ends(ed.doc, i, j)) <= 1
        \/ Gesture({"delete"}) /\ ~merges /\ ~outdents
  IN  covered => kept(ed.doc) = kept(ed'.doc)
\* What a gesture was not aimed at survives it, and in its place.
TheRestStays == [][LosesWhatItNames /\ KeepsOrder]_vars

\* The marks of what stays change only where marks were asked to change.
MarksStayPut == [][
  LET same(names) == \A c \in names : MarksOf(ed'.doc, c) = MarksOf(ed.doc, c)
      aimed == UNION {{TextOf(ed, p.b)[k].c : k \in (p.from + 1)..p.to} : p \in Segments(ed, dsel)}
      into == {x.c : x \in Range(TextOf(ed', dsel'.a.b))}
  IN  /\ Gesture({"type", "block shortcut", "delete", "enter", "cut", "paste", "tab", "compose", "click", "move",
                  "pick", "insert"}) => same(Kept)
      /\ Gesture({"inline shortcut"}) => same(Kept \ into)
      /\ Gesture({"mark"}) => same(Kept \ aimed)]_vars

\* After typing or composing, the caret stands behind the new text; also where
\* the text completes a shortcut for what stands before it in its block.  Further
\* up in the block the caret keeps its offset, while the text moves forward.
CaretFollowsTyping == [][
  LET new == NamesOf(ed'.doc) \ NamesOf(ed.doc)
      s == EnsuredCaret
      atEnd == Collapsed(s) /\ s.a.o = TextLen(ed.doc, s.a.b)
  IN  (Gesture({"type", "compose"}) \/ (Gesture({"inline shortcut"}) /\ atEnd)) /\ new # {} /\ ~did'.threw =>
        /\ Collapsed(dsel') /\ dsel'.a.o > 0
        /\ TextOf(ed', dsel'.a.b)[dsel'.a.o].c = Max(new)]_vars

\* What is cut and pasted back in place reads as before, if no block outside the
\* selection hangs below one in it (it would come to stand before the pasted
\* blocks), and in the same lines, if no selected block is nested; and one undo
\* takes the whole paste back.
CutPasteRestores ==
  gestures < MaxGestures /\ dsel = NoSel => \A s \in Ranges(ed) :
    LET e == Select(ed, s)
        cut == Replace(e, <<>>)
        back == Paste(cut, Copy(e))
        lines(d) == [i \in DOMAIN d |-> Glyphs(d[i].text)]
        flat == \A id \in Range(Spanned(e, s)) : BlockOf(e.doc, id).depth = 0 /\ Childless(e.doc, id)
        r == Ordered(e, s)
    IN  ~Collapsed(s) /\ ~cut.threw /\ Ends(e.doc, At(e.doc, r.a.b), At(e.doc, r.f.b)) = {} =>
          /\ ~back.threw
          /\ FlattenSeq(lines(back.doc)) = FlattenSeq(lines(ed.doc))
          /\ flat => lines(back.doc) = lines(ed.doc)
          /\ Undo(back).doc \in {cut.doc} \union Range(cut.past)

\* No handler throws part of the way through a change, except with a divider in
\* the selection, or a composition whose block is gone.
NothingElseThrows == [][
  LET s == EnsuredCaret
  IN  Gesture(Shortcuts \union
              {"type", "enter", "delete", "tab", "mark", "cut", "paste", "click", "pick", "insert", "annotate"})
        /\ InDoc(ed, s) /\ (\A id \in Range(Spanned(ed, s)) : Inline(ed, id)) => ~did'.threw]_vars
====
