------------------------------- MODULE Keymap -------------------------------
(***************************************************************************)
(* What each key does (packages/weaver/dom/src/keymap.ts).  A handler      *)
(* takes the editor state and the caret and answers [e, at]: the editor    *)
(* after its commands and where the caret should go, NoCaret for "leave    *)
(* it".  The DOM lists the blocks in document order, so the visual         *)
(* neighbour of a block is its neighbour in the outline.                   *)
(***************************************************************************)
EXTENDS Editor

Result(e, at) == [e |-> e, at |-> at]
ListKinds == {"bullet", "to-do"}
Space == {" ", "\n"}

\* Block shortcuts: the glyph that, with a space, makes up the whole paragraph.
\* One character stands for each run (--- and a code fence are single glyphs).
Starter == [g \in {"#", ">", "-", "[]", "fence", "---"} |->
             CASE g = "#" -> "heading" [] g = ">" -> "quote" [] g = "-" -> "bullet"
               [] g = "[]" -> "to-do" [] g = "fence" -> "code" [] g = "---" -> "divider"]
\* Inline shortcuts: the delimiter and the mark it puts on the text it encloses.
Delimiter == [g \in {"*", "tick"} |-> IF g = "*" THEN "bold" ELSE "code"]

Parent(e, id) == IdAt(e.doc, ParentOf(e.doc, At(e.doc, id)))
Neighbour(e, id, by) ==
  LET i == At(e.doc, id) + by IN IF i \in DOMAIN e.doc THEN e.doc[i].id ELSE Root
First(e) == IF e.doc = <<>> THEN NoCaret ELSE Caret(e.doc[1].id, 0)
TextOf(e, id) == IF Live(e, id) THEN BlockOf(e.doc, id).text ELSE <<>>

\* The new paragraph is named by the fresh name it was given.
ParagraphAfter(e, id) ==
  BlockInsert(e, Parent(e, id), IndexOf(e.doc, At(e.doc, id)) + 1, "paragraph", "none")

BlockShortcut(e, c) ==
  LET t == TextOf(e, c.b)
      kind == Starter[t[1].g]
      attr == IF kind \in {"heading", "to-do"} THEN DefaultAttr(kind) ELSE "none"
      done == Transform(TextDelete(e, c.b, 0, 2), c.b, kind, attr)
  IN  IF kind = "divider" THEN Result(ParagraphAfter(done, c.b), Caret(done.fresh, 0))
      ELSE Result(done, Caret(c.b, 0))

\* The delimiters of a text that ends in  delimiter inner delimiter space.
Delimited(t) ==
  {p \in (DOMAIN t) \X (DOMAIN t) :
     /\ p[1] + 1 < p[2] /\ p[2] + 1 = Len(t)
     /\ t[p[1]].g = t[p[2]].g /\ t[p[2]].g \in DOMAIN Delimiter /\ t[Len(t)].g = " "
     /\ \A k \in (p[1] + 1)..(p[2] - 1) : t[k].g \notin {t[p[1]].g, "\n"}}

InlineShortcut(e, c, p) ==
  LET t == TextOf(e, c.b)
      inner == SubSeq(t, p[1] + 1, p[2] - 1)
      from == p[1] - 1
      cut == TextDelete(e, c.b, from, Len(t) - from)
      put == TextInsert(cut, c.b, from, Append(inner, Last(t)))
      done == ToggleMark(put, c.b, from, from + Len(inner), Delimiter[t[p[1]].g], "none")
  IN  Result(done, Caret(c.b, IF c.o > TextLen(done.doc, c.b) THEN TextLen(done.doc, c.b) ELSE c.o))

\* What a text that was just typed completes, if anything.
Completes(e, c) ==
  LET t == TextOf(e, c.b)
  IN  IF e.threw \/ ~Live(e, c.b) \/ BlockOf(e.doc, c.b).kind # "paragraph" THEN "type"
      ELSE IF Len(t) = 2 /\ t[1].g \in DOMAIN Starter /\ t[2].g = " " THEN "block shortcut"
      ELSE IF Delimited(t) # {} THEN "inline shortcut"
      ELSE "type"

Shortcut(e, c) ==
  CASE Completes(e, c) = "block shortcut" -> BlockShortcut(e, c)
    [] Completes(e, c) = "inline shortcut" -> InlineShortcut(e, c, CHOOSE p \in Delimited(TextOf(e, c.b)) : TRUE)
    [] OTHER -> Result(e, c)

(* Mutant: the caret is left in front of the text. *)
InsertTextStill(e, c, s) == Shortcut(TextInsert(e, c.b, c.o, s), c)

\* handleInsertText: next to a divider the text starts a paragraph below it.
InsertText(e, c, s) ==
  LET below == ParagraphAfter(e, c.b)
  IN  IF Live(e, c.b) /\ ~Inline(e, c.b)
      THEN Result(TextInsert(below, e.fresh, 0, s), Caret(e.fresh, Len(s)))
      ELSE Shortcut(TextInsert(e, c.b, c.o, s), Caret(c.b, c.o + Len(s)))
\* Which of these it was.
Inserting(e, c, s) ==
  IF Live(e, c.b) /\ ~Inline(e, c.b) THEN "type" ELSE Completes(TextInsert(e, c.b, c.o, s), c)

LineBreak(e, c, ch) == Result(TextInsert(e, c.b, c.o, <<ch>>), Caret(c.b, c.o + 1))

Enter(e, c) ==
  LET kind == BlockOf(e.doc, c.b).kind
      split == Split(e, c.b, c.o)
      plain == kind \in {"heading", "quote"} /\ c.o >= TextLen(e.doc, c.b)
  IN  IF Live(e, c.b) /\ kind \in ListKinds /\ TextLen(e.doc, c.b) = 0
      THEN Result(Transform(e, c.b, "paragraph", "none"), Caret(c.b, 0))
      ELSE Result(IF Live(e, c.b) /\ plain THEN Transform(split, e.fresh, "paragraph", "none") ELSE split,
                  Caret(e.fresh, 0))

Backspace(e, c) ==
  LET prev == Neighbour(e, c.b, -1)
      gone == Delete(e, c.b)
  IN  IF ~Inline(e, c.b)
      THEN Result(gone, IF prev = Root THEN First(gone) ELSE Caret(prev, TextLen(gone.doc, prev)))
      ELSE IF c.o > 0 THEN Result(TextDelete(e, c.b, c.o - 1, 1), Caret(c.b, c.o - 1))
      ELSE IF Parent(e, c.b) # Root THEN Result(Outdent(e, c.b), c)
      ELSE IF prev = Root
           THEN IF BlockOf(e.doc, c.b).kind = "paragraph" THEN Result(e, NoCaret)
                ELSE Result(Transform(e, c.b, "paragraph", "none"), c)
      ELSE IF ~Inline(e, prev) THEN Result(Delete(e, prev), c)
      ELSE Result(Merge(e, prev, c.b), Caret(prev, TextLen(e.doc, prev)))

(* Mutant: whatever comes next is merged. *)
DeleteForwardMerging(e, c) ==
  LET next == Neighbour(e, c.b, 1)
  IN  IF c.o < TextLen(e.doc, c.b) THEN Result(TextDelete(e, c.b, c.o, 1), c)
      ELSE IF next = Root THEN Result(e, NoCaret) ELSE Result(Merge(e, c.b, next), c)

DeleteForward(e, c) ==
  LET next == Neighbour(e, c.b, 1)
      gone == Delete(e, c.b)
  IN  IF ~Inline(e, c.b) THEN Result(gone, IF next = Root THEN First(gone) ELSE Caret(next, 0))
      ELSE IF c.o < TextLen(e.doc, c.b) THEN Result(TextDelete(e, c.b, c.o, 1), c)
      ELSE IF next = Root THEN Result(e, NoCaret)
      ELSE IF ~Inline(e, next) THEN Result(Delete(e, next), c)
      ELSE Result(Merge(e, c.b, next), c)

\* Where a word or a line starts before o and ends after o.
BackTarget(t, o, unit) ==
  IF unit = "line" THEN Max({k \in 1..o : t[k].g = "\n"} \union {0})
  ELSE LET word == Max({k \in 1..o : t[k].g \notin Space} \union {0})
       IN  Max({k \in 1..word : t[k].g \in Space} \union {0})
ForwardTarget(t, o, unit) ==
  IF unit = "line" THEN Min({k \in (o + 1)..Len(t) : t[k].g = "\n"} \union {Len(t) + 1}) - 1
  ELSE LET word == Min({k \in (o + 1)..Len(t) : t[k].g \notin Space} \union {Len(t) + 1})
       IN  Min({k \in word..Len(t) : t[k].g \in Space} \union {Len(t) + 1}) - 1

Units == {"char", "word", "line"}
DeleteBack(e, c, unit) ==
  LET to == BackTarget(TextOf(e, c.b), c.o, unit)
  IN  IF unit # "char" /\ c.o > 0 /\ to < c.o
      THEN Result(TextDelete(e, c.b, to, c.o - to), Caret(c.b, to))
      ELSE Backspace(e, c)
DeleteAhead(e, c, unit) ==
  LET t == TextOf(e, c.b)
      to == ForwardTarget(t, c.o, unit)
  IN  IF unit # "char" /\ c.o < Len(t) /\ to > c.o
      THEN Result(TextDelete(e, c.b, c.o, to - c.o), c)
      ELSE DeleteForward(e, c)

\* computeMarkSegments: a caret means its whole block; a range over several
\* blocks is resolved among the top-level blocks only.
Segments(e, s) ==
  LET d == e.doc
      r == Ordered(e, s)
      i == At(d, r.a.b)
      j == At(d, r.f.b)
      part(k) == [b |-> d[k].id, from |-> IF k = i THEN r.a.o ELSE 0,
                  to |-> IF k = j THEN r.f.o ELSE Len(d[k].text)]
  IN  IF s.a.b = s.f.b
      THEN {[b |-> s.a.b, from |-> IF Collapsed(s) THEN 0 ELSE r.a.o,
             to |-> IF Collapsed(s) THEN TextLen(d, s.a.b) ELSE r.f.o]}
      ELSE IF d[i].depth > 0 \/ d[j].depth > 0 THEN {}
      ELSE {p \in {part(k) : k \in {k \in i..j : d[k].depth = 0}} : p.to > p.from}

FullyMarked(e, p, key) ==
  p.to > p.from /\ Covers(TextOf(e, p.b), p.from, p.to, key)

\* Over several blocks the mark is set on all, unless all have it already.
MarkSegments(e, s, key) ==
  LET all == Segments(e, s)
      on == {p \in all : FullyMarked(e, p, key)}
      flip == IF Cardinality(all) <= 1 THEN all ELSE IF on = all THEN all ELSE all \ on
  IN  FoldSet(LAMBDA p, x : ToggleMark(x, p.b, p.from, p.to, key, "none"), e, flip)

ClearSegments(e, s) ==
  FoldSet(LAMBDA p, x : ClearMarks(x, p.b, p.from, p.to), e, Segments(e, s))
=============================================================================
