------------------------------- MODULE Editor -------------------------------
(***************************************************************************)
(* The commands of createEditor (packages/weaver/core/src/editor.ts) as    *)
(* functions on the editor's state e:                                      *)
(*   doc         the document (Blocks)                                     *)
(*   sel         the core selection: its endpoints a (anchor), f (focus)   *)
(*   past, future  the undo and redo stacks, as the documents to return to *)
(*   run         prevMergeable: the last commit was a text edit            *)
(*   group       "none", "opened" (no step yet) or "used"                  *)
(*   threw       a command of the current gesture threw an exception       *)
(*   fresh       the next unused name of a block or a character            *)
(* A command that throws leaves the rest of its gesture undone; the steps  *)
(* committed before it stay.                                               *)
(***************************************************************************)
EXTENDS Blocks, SequencesExt

NoCaret == [b |-> Root, o |-> 0]
NoSel == [a |-> NoCaret, f |-> NoCaret]
Caret(b, o) == [b |-> b, o |-> o]
At2(a, f) == [a |-> a, f |-> f]
Point(b, o) == At2(Caret(b, o), Caret(b, o))
Collapsed(s) == s.a = s.f

\* createEditor seeds one paragraph before the undo manager exists.
NewEditor(d, n) ==
  [doc |-> d, sel |-> NoSel, past |-> <<>>, future |-> <<>>, run |-> FALSE,
   group |-> "none", threw |-> FALSE, fresh |-> n]

\* withOrigin: consecutive text edits share an undo step, a group is one step.
Commit(e, d, text) ==
  LET joins == e.past # <<>> /\ (e.group = "used" \/ (text /\ e.run))
  IN  IF d = e.doc THEN [e EXCEPT !.run = text]
      ELSE [e EXCEPT !.doc = d, !.run = text, !.future = <<>>,
                     !.past = IF joins THEN @ ELSE Append(@, e.doc),
                     !.group = IF @ = "none" THEN @ ELSE "used"]

Do(e, ok, d, text) ==
  IF e.threw THEN e
  ELSE IF ok THEN Commit(e, d, text) ELSE [e EXCEPT !.threw = TRUE]
Use(e, n) == [e EXCEPT !.fresh = @ + n]
Select(e, s) == IF e.threw THEN e ELSE [e EXCEPT !.sel = s]
Collapse(e, id, o) == Select(e, Point(id, Clamp(o, 0, TextLen(e.doc, id))))

Open(e) == [e EXCEPT !.group = "opened"]
Close(e) == [e EXCEPT !.group = "none"]

Live(e, id) == Has(e.doc, id)
Rich(e, id) == Live(e, id) /\ BlockOf(e.doc, id).rich
Inline(e, id) == Live(e, id) /\ HasInline(BlockOf(e.doc, id).kind)
-----------------------------------------------------------------------------
(* commands.block                                                          *)

\* The new block is named e.fresh.
BlockInsert(e, parent, n, kind, attr) ==
  Use(Do(e, parent = Root \/ Live(e, parent),
         Inserted(e.doc, parent, n, NewBlock(e.fresh, kind, attr, 0)), FALSE), 1)

Split(e, id, o) ==
  Use(Do(e, Rich(e, id), SplitAt(e.doc, id, Clamp(o, 0, TextLen(e.doc, id)), e.fresh), FALSE), 1)

Merge(e, prev, next) ==
  Do(e, /\ Rich(e, prev) /\ Rich(e, next)
        /\ ~SelfOrDescendant(e.doc, At(e.doc, next), At(e.doc, prev)),
     MergedInto(e.doc, prev, next), FALSE)

Transform(e, id, kind, attr) == Do(e, Live(e, id), SetKind(e.doc, id, kind, attr), FALSE)

\* A node that is gone is still known to the tree, and deleting it throws.
Delete(e, id) == Use(Do(e, Live(e, id), Without(e.doc, id, e.fresh), FALSE), 1)

Indent(e, id) ==
  LET d == e.doc
      n == IndexOf(d, At(d, id))
      before == CHOOSE k \in Children(d, ParentOf(d, At(d, id))) : IndexOf(d, k) = n - 1
  IN  Do(e, TRUE, IF ~Has(d, id) \/ n = 0 THEN d
                  ELSE Relocated(d, At(d, id), d[before].id, Cardinality(Children(d, before))),
         FALSE)

Outdent(e, id) ==
  LET d == e.doc
      p == ParentOf(d, At(d, id))
  IN  Do(e, TRUE, IF ~Has(d, id) \/ p = 0 THEN d
                  ELSE Relocated(d, At(d, id), IdAt(d, ParentOf(d, p)), IndexOf(d, p) + 1),
         FALSE)

Move(e, id, parent, n) ==
  LET d == e.doc
      p == IF parent = Root THEN 0 ELSE At(d, parent)
      same == ParentOf(d, At(d, id)) = p
      refused == \/ ~Has(d, id) \/ (parent # Root /\ ~Has(d, parent))
                 \/ parent # Root /\ SelfOrDescendant(d, At(d, id), p)
      top == Cardinality(Children(d, p)) - (IF same THEN 1 ELSE 0)
  IN  Do(e, TRUE, IF refused THEN d ELSE Relocated(d, At(d, id), parent, Clamp(n, 0, top)), FALSE)

SetAttr(e, id, attr) ==
  Do(e, TRUE, IF Live(e, id) THEN [e.doc EXCEPT ![At(e.doc, id)].attr = attr] ELSE e.doc, FALSE)
-----------------------------------------------------------------------------
(* commands.text                                                           *)

TextInsert(e, id, o, s) ==
  Do(e, Inline(e, id),
     SetText(e.doc, id, Typed(BlockOf(e.doc, id).text, Clamp(o, 0, TextLen(e.doc, id)), s)), TRUE)

TextDelete(e, id, o, n) ==
  LET t == BlockOf(e.doc, id).text
      from == Clamp(o, 0, Len(t))
      to == from + Clamp(n, 0, Len(t) - from)
  IN  Do(e, TRUE, IF Rich(e, id) THEN SetText(e.doc, id, Slice(t, 0, from) \o Slice(t, to, Len(t)))
                  ELSE e.doc, TRUE)

\* validateMarkValue: a link, a mention and a comment need a value.
ToggleMark(e, id, a, b, key, val) ==
  LET t == BlockOf(e.doc, id).text
      on == Covers(t, a, b, key)
      valid == key \in {"bold", "code"} \/ val # "none" \/ on
  IN  IF ~Live(e, id) \/ b <= a THEN Do(e, TRUE, e.doc, FALSE)
      ELSE Do(e, Rich(e, id) /\ b <= Len(t) /\ valid, SetText(e.doc, id, Toggled(t, a, b, key, val)), FALSE)

MarkUpdate(e, id, a, b, key, val) ==
  LET t == BlockOf(e.doc, id).text
  IN  IF ~Live(e, id) \/ b <= a THEN Do(e, TRUE, e.doc, FALSE)
      ELSE Do(e, Rich(e, id) /\ b <= Len(t), SetText(e.doc, id, Marked(t, a, b, <<key, val>>)), FALSE)

ClearMarks(e, id, a, b) ==
  Do(e, TRUE, IF Rich(e, id) THEN SetText(e.doc, id, Unmarked(BlockOf(e.doc, id).text, a, b, Formatting))
              ELSE e.doc, FALSE)

\* The label (one character here) and a space replace [a, b) in one commit.
InsertMention(e, id, a, b, who) ==
  LET t == BlockOf(e.doc, id).text
      from == Clamp(a, 0, Len(t))
      to == Clamp(b, from, Len(t))
      cut == Slice(t, 0, from) \o Slice(t, to, Len(t))
      chip == <<[c |-> e.fresh, g |-> "@", m |-> {}], [c |-> e.fresh + 1, g |-> " ", m |-> {}]>>
  IN  Use(Do(e, Inline(e, id),
             SetText(e.doc, id, Marked(Typed(cut, from, chip), from, from + 1, <<"mention", who>>)),
             FALSE), 2)
-----------------------------------------------------------------------------
(* commands.history                                                        *)

\* reconcileSelectionWithDoc
Reconciled(e) ==
  LET cap(p) == Caret(p.b, IF p.o > TextLen(e.doc, p.b) THEN TextLen(e.doc, p.b) ELSE p.o)
  IN  [e EXCEPT !.sel = IF Live(e, @.a.b) /\ Live(e, @.f.b) THEN At2(cap(@.a), cap(@.f)) ELSE NoSel]

Undo(e) ==
  IF e.past = <<>> THEN e
  ELSE Reconciled([e EXCEPT !.doc = Last(e.past), !.past = Front(@), !.future = Append(@, e.doc)])
Redo(e) ==
  IF e.future = <<>> THEN e
  ELSE Reconciled([e EXCEPT !.doc = Last(e.future), !.future = Front(@), !.past = Append(@, e.doc)])

Clear(e) ==
  Use(Select(Do(e, TRUE, <<NewBlock(e.fresh, "paragraph", "none", 0)>>, FALSE), NoSel), 1)
-----------------------------------------------------------------------------
(* commands.selection and commands.clipboard                               *)

Known(e, s) == Live(e, s.a.b) /\ Live(e, s.f.b)
\* The endpoints in document order.
Ordered(e, s) ==
  LET i == At(e.doc, s.a.b)
      j == At(e.doc, s.f.b)
  IN  IF i < j \/ (i = j /\ s.a.o <= s.f.o) THEN s ELSE At2(s.f, s.a)
Spanned(e, s) ==      \* getBlockIds
  LET r == Ordered(e, s)
  IN  [k \in 1..(At(e.doc, r.f.b) - At(e.doc, r.a.b) + 1) |-> e.doc[At(e.doc, r.a.b) + k - 1].id]

SelectAll(e) ==
  LET z == Last(e.doc).id
  IN  IF e.doc = <<>> THEN Select(e, NoSel)
      ELSE Select(e, At2(Caret(e.doc[1].id, 0), Caret(z, TextLen(e.doc, z))))

\* The part of block id the selection s (ordered) covers.
Covered(e, s, id) ==
  LET from == IF id = s.a.b THEN s.a.o ELSE 0
      to == IF id = s.f.b THEN s.f.o ELSE TextLen(e.doc, id)
  IN  SubSeq(BlockOf(e.doc, id).text, from + 1, to)

\* getTextContent: the lines of the selection.
TextContent(e) ==
  IF ~Known(e, e.sel) THEN <<>>
  ELSE LET s == Ordered(e, e.sel)
           ids == Spanned(e, s)
       IN  [k \in DOMAIN ids |-> Covered(e, s, ids[k])]

\* mutateSelectionRange: what is selected goes, s takes its place; the blocks
\* after the first lose their part and are merged into the first one by one.
Replace(e, s) ==
  LET r == Ordered(e, e.sel)
      ids == Spanned(e, r)
      gone(id) == IF id = r.f.b THEN r.f.o ELSE TextLen(e.doc, id)
      swallow(x, id) ==
        IF HasInline(BlockOf(e.doc, id).kind)
        THEN Merge(IF gone(id) = 0 THEN x
                   ELSE Do(x, Live(x, id), TextDelete(x, id, 0, gone(id)).doc, TRUE), r.a.b, id)
        ELSE Delete(x, id)
      cut == IF Len(ids) = 1
             THEN IF r.f.o > r.a.o THEN TextDelete(e, r.a.b, r.a.o, r.f.o - r.a.o) ELSE e
             ELSE FoldLeft(swallow,
                           IF TextLen(e.doc, r.a.b) > r.a.o
                           THEN TextDelete(e, r.a.b, r.a.o, TextLen(e.doc, r.a.b)) ELSE e,
                           Tail(ids))
      put == IF s = <<>> THEN cut ELSE TextInsert(cut, r.a.b, r.a.o, s)
  IN  IF ~Known(e, e.sel) THEN e ELSE Select(put, Point(r.a.b, r.a.o + Len(s)))

\* buildClipboardPayload: the selected blocks with their covered text; a block
\* hangs below its nearest selected ancestor.  <<>> when nothing is selected.
Copy(e) ==
  LET s == Ordered(e, e.sel)
      first == At(e.doc, s.a.b)
      frag(k) ==
        LET i == first + k - 1
            b == e.doc[i]
        IN  [kind |-> b.kind, attr |-> b.attr,
             depth |-> Cardinality({p \in first..(i - 1) : SelfOrDescendant(e.doc, p, i)}),
             text |-> IF HasInline(b.kind) THEN Covered(e, s, b.id) ELSE <<>>]
  IN  IF ~Known(e, e.sel) \/ Collapsed(e.sel) THEN <<>>
      ELSE [k \in DOMAIN Spanned(e, s) |-> frag(k)]

\* What is pasted is a copy (c is 0, its characters have no history), without
\* the marks that may not cross documents.
Copied(s) == [k \in DOMAIN s |-> [c |-> 0, g |-> s[k].g, m |-> {v \in s[k].m : v[1] \in Pasteable}]]

\* insertDeltaInline: a block without a text container is given one.
Graft(e, id, o, s) ==
  IF s = <<>> \/ ~Live(e, id) THEN e
  ELSE Do(e, TRUE,
          SetText(EnsureText(e.doc, id), id, Grafted(BlockOf(e.doc, id).text, o, Copied(s))), FALSE)

\* Pasted blocks: createFragmentBlock for the fragments, as siblings after id.
Planted(e, id, frags) ==
  LET at == LastOf(e.doc, At(e.doc, id))
      base == BlockOf(e.doc, id).depth
      block(k) == [NewBlock(e.fresh + k - 1, frags[k].kind, frags[k].attr, base + frags[k].depth)
                     EXCEPT !.text = Copied(frags[k].text)]
  IN  IF frags = <<>> THEN e
      ELSE Use(Do(e, TRUE, Splice(e.doc, at + 1, at, [k \in DOMAIN frags |-> block(k)]), FALSE),
               Len(frags))

Bare(frags, k) == HasInline(frags[k].kind) /\ (k = Len(frags) \/ frags[k + 1].depth = 0)
Drop(e, id) == IF ~e.threw /\ TextLen(e.doc, id) = 0 /\ Childless(e.doc, id) THEN Delete(e, id) ELSE e

\* pasteStructured: the block is split at the caret, a plain first fragment
\* joins its head, a plain last one takes its tail, the rest lands in between.
\* The last step settles the tail and the caret; top is the last fragment that
\* is not nested and became block last.
Settled(e, top, last, tail) ==
  LET bare == TextLen(e.doc, tail) = 0 /\ Childless(e.doc, tail)
  IN  IF top.bare THEN Collapse(Merge(e, last, tail), last, top.size)
      ELSE IF bare THEN Collapse(Delete(e, tail), last, top.size)
      ELSE Collapse(e, tail, 0)

\* headed has its first fragment (if joins) and is to get the rest.
Spread(headed, id, tail, rest, joins) ==
  LET top == CHOOSE k \in DOMAIN rest : rest[k].depth = 0 /\ \A j \in (k + 1)..Len(rest) : rest[j].depth > 0
      planted == Planted(headed, id, rest)
  IN  Settled(IF joins THEN planted ELSE Drop(planted, id),
              [bare |-> Bare(rest, top), size |-> Len(rest[top].text)], headed.fresh + top - 1, tail)

PasteAt(e, id, o, frags) ==
  LET split == Split(e, id, o)
  IN  IF ~Bare(frags, 1) THEN Spread(split, id, e.fresh, frags, FALSE)
      ELSE IF Len(frags) = 1 THEN Collapse(Graft(e, id, o, frags[1].text), id, o + Len(frags[1].text))
      ELSE Spread(Graft(split, id, o, frags[1].text), id, e.fresh, Tail(frags), TRUE)

\* Only a lone plain fragment needs no split, which throws on a divider.
PasteOver(e, frags) ==
  IF e.threw \/ ~Known(e, e.sel) THEN e
  ELSE IF ~Rich(e, e.sel.a.b) /\ ~(Bare(frags, 1) /\ Len(frags) = 1) THEN [e EXCEPT !.threw = TRUE]
  ELSE PasteAt(e, e.sel.a.b, e.sel.a.o, frags)
PasteBlocks(e, frags) == PasteOver(IF Collapsed(e.sel) THEN e ELSE Replace(e, <<>>), frags)

\* pasteTextImpl: the first line over the selection, a split before each next.
PasteLines(e, lines) ==
  LET line(x, s) ==
        LET cur == Split(x, x.sel.a.b, x.sel.a.o)
        IN  Select(IF s = <<>> THEN cur ELSE TextInsert(cur, x.fresh, 0, s), Point(x.fresh, Len(s)))
  IN  IF lines = <<>> \/ lines = << <<>> >> \/ ~Known(e, e.sel) THEN e
      ELSE FoldLeft(line, Replace(e, lines[1]), Tail(lines))

Cut(e) == IF Copy(e) = <<>> THEN e ELSE Replace(e, <<>>)
(* Mutant: no undo group. *)
PasteUngrouped(e, frags) == PasteBlocks(e, frags)

Paste(e, frags) == Close(PasteBlocks(Open(e), frags))
PasteText(e, lines) == Close(PasteLines(Open(e), lines))
=============================================================================
