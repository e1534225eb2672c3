------------------------------- MODULE Blocks -------------------------------
(***************************************************************************)
(* The document of the rich-text editor (packages/weaver/core) and the     *)
(* changes its commands make to it.                                        *)
(*                                                                         *)
(* The Loro tree is kept as an outline: the blocks in document order, each *)
(* with its depth.  A subtree is then a contiguous run of the outline and  *)
(* a block's parent is the nearest shallower block above it.               *)
(*                                                                         *)
(* A character is a record: c names it for ever (0: a copy), g is its      *)
(* glyph class, m the marks it carries, as <<key, value>> pairs.  What the *)
(* Loro library does with marks at an insertion (Inherited) is external.   *)
(* rich says that the block has a text container; every inline kind does.  *)
(***************************************************************************)
EXTENDS Integers, Sequences, FiniteSets

Root == 0        \* ROOT_ID; the ids of blocks are positive

InlineKinds == {"paragraph", "heading", "quote", "bullet", "to-do", "code"}
Kinds == InlineKinds \union {"divider"}
HasInline(kind) == kind \in InlineKinds
DefaultAttr(kind) == CASE kind = "to-do" -> "unchecked"
                       [] kind = "heading" -> "level1"
                       [] OTHER -> "none"

MarkKeys == {"bold", "code", "link", "mention", "comment-anchor", "agent-pending"}
ExpandAfter == {"bold", "agent-pending"}
Formatting == MarkKeys \ {"comment-anchor"}
Pasteable == MarkKeys \ {"comment-anchor", "agent-pending"}

Clamp(n, lo, hi) == IF n < lo THEN lo ELSE IF n > hi THEN hi ELSE n
-----------------------------------------------------------------------------
(* Text: a sequence of characters.                                         *)

Slice(t, a, b) == SubSeq(t, a + 1, b)
Keys(m) == {v[1] : v \in m}
Over(below, above) == above \union {v \in below : v[1] \notin Keys(above)}

\* The marks a character inserted at offset o takes from its neighbours: those
\* that grow at their end, and those it is strictly inside of.
Inherited(t, o) ==
  IF o = 0 THEN {}
  ELSE {v \in t[o].m : v[1] \in ExpandAfter \/ (o < Len(t) /\ v \in t[o + 1].m)}

Put(t, o, s) == Slice(t, 0, o) \o s \o Slice(t, o, Len(t))
Typed(t, o, s) ==
  Put(t, o, [k \in DOMAIN s |-> [s[k] EXCEPT !.m = Inherited(t, o)]])

(* Mutant: the marks that grow are not taken off. *)
GraftedOver(t, o, s) ==
  Put(t, o, [k \in DOMAIN s |-> [s[k] EXCEPT !.m = Over(Inherited(t, o), s[k].m)]])

\* Text that arrives with its own marks: growing marks of the character before
\* are taken off again and the run's own are put on.
Grafted(t, o, s) ==
  LET base == {v \in Inherited(t, o) : v[1] \notin ExpandAfter}
  IN  Put(t, o, [k \in DOMAIN s |-> [s[k] EXCEPT !.m = Over(base, s[k].m)]])

Unmarked(t, a, b, keys) ==
  [k \in DOMAIN t |-> IF a < k /\ k <= b
                      THEN [t[k] EXCEPT !.m = {v \in @ : v[1] \notin keys}] ELSE t[k]]
Marked(t, a, b, mark) ==
  [k \in DOMAIN t |-> IF a < k /\ k <= b
                      THEN [t[k] EXCEPT !.m = Over(@, {mark})] ELSE t[k]]

ValuesOf(x, key) == {v[2] : v \in {v \in x.m : v[1] = key}}
Covers(t, a, b, key) == b <= Len(t) /\ \A k \in (a + 1)..b : ValuesOf(t[k], key) # {}
HasMarkInRange(t, key, a, b) ==
  \E k \in (a + 1)..b : k \in DOMAIN t /\ key \in Keys(t[k].m)
-----------------------------------------------------------------------------
(* The outline.                                                            *)

Has(d, id) == \E i \in DOMAIN d : d[i].id = id
At(d, id) == CHOOSE i \in DOMAIN d : d[i].id = id
BlockOf(d, id) == d[At(d, id)]
TextLen(d, id) == IF Has(d, id) THEN Len(BlockOf(d, id).text) ELSE 0

\* j lies in the subtree of i, and the last position that does
SelfOrDescendant(d, i, j) == i <= j /\ \A k \in (i + 1)..j : d[k].depth > d[i].depth
LastOf(d, i) ==
  CHOOSE j \in i..Len(d) : /\ SelfOrDescendant(d, i, j)
                           /\ j = Len(d) \/ d[j + 1].depth <= d[i].depth

\* Position of the parent; 0 is the root.
ParentOf(d, i) ==
  IF d[i].depth = 0 THEN 0
  ELSE CHOOSE p \in 1..(i - 1) : d[p].depth = d[i].depth - 1 /\ SelfOrDescendant(d, p, i)
IdAt(d, p) == IF p = 0 THEN Root ELSE d[p].id
Children(d, p) == {k \in DOMAIN d : ParentOf(d, k) = p}
IndexOf(d, i) == Cardinality({k \in Children(d, ParentOf(d, i)) : k < i})
Childless(d, id) == Children(d, At(d, id)) = {}

\* Where the outline opens for a new n-th child (counted from 0) of position p.
Slot(d, p, n) ==
  IF \E k \in Children(d, p) : IndexOf(d, k) = n
  THEN CHOOSE k \in Children(d, p) : IndexOf(d, k) = n
  ELSE (IF p = 0 THEN Len(d) ELSE LastOf(d, p)) + 1

Splice(d, i, j, s) == SubSeq(d, 1, i - 1) \o s \o SubSeq(d, j + 1, Len(d))
Shift(s, by) == [k \in DOMAIN s |-> [s[k] EXCEPT !.depth = @ + by]]
DepthUnder(d, p) == IF p = 0 THEN 0 ELSE d[p].depth + 1

NewBlock(id, kind, attr, depth) ==
  [id |-> id, kind |-> kind, attr |-> attr, depth |-> depth,
   rich |-> HasInline(kind), text |-> <<>>]

SetText(d, id, t) == [d EXCEPT ![At(d, id)].text = t]
EnsureText(d, id) == [d EXCEPT ![At(d, id)].rich = TRUE]
SetKind(d, id, kind, attr) ==
  LET b == BlockOf(d, id)
  IN  [d EXCEPT ![At(d, id)] = [b EXCEPT !.kind = kind, !.attr = attr, !.rich = @ \/ HasInline(kind)]]
Inserted(d, parent, n, b) ==
  LET p == IF parent = Root THEN 0 ELSE At(d, parent)
      at == Slot(d, p, n)
  IN  Splice(d, at, at - 1, <<[b EXCEPT !.depth = DepthUnder(d, p)]>>)
Relocated(d, i, parent, n) ==
  LET sub == SubSeq(d, i, LastOf(d, i))
      r == Splice(d, i, LastOf(d, i), <<>>)
      p == IF parent = Root THEN 0 ELSE At(r, parent)
      at == Slot(r, p, n)
  IN  Splice(r, at, at - 1, Shift(sub, DepthUnder(r, p) - d[i].depth))

\* The tail of the text goes to a new block of the same kind, next sibling of
\* the old one: below the old one's children, which stay where they are.
SplitAt(d, id, o, new) ==
  LET i == At(d, id)
      t == d[i].text
      b == [NewBlock(new, d[i].kind, d[i].attr, 0) EXCEPT
              !.text = Slice(t, o, Len(t)), !.rich = @ \/ o < Len(t)]
  IN  Inserted(SetText(d, id, Slice(t, 0, o)), IdAt(d, ParentOf(d, i)), IndexOf(d, i) + 1, b)

\* next's text goes to the end of prev's, next's children under prev.
MergedInto(d, prev, next) ==
  LET n == At(d, next)
      kids == SubSeq(d, n + 1, LastOf(d, n))
      rest == Splice(SetText(d, prev, Grafted(BlockOf(d, prev).text, TextLen(d, prev), d[n].text)),
                     n, LastOf(d, n), <<>>)
      p == At(rest, prev)
  IN  Splice(rest, LastOf(rest, p) + 1, LastOf(rest, p), Shift(kids, rest[p].depth - d[n].depth))

(* Mutant: the children are left behind. *)
WithoutAlone(d, id, new) == SelectSeq(d, LAMBDA b : b.id # id)

\* The whole subtree goes; the page never stays without a block.
Without(d, id, new) ==
  LET i == At(d, id)
      r == Splice(d, i, LastOf(d, i), <<>>)
  IN  IF r = <<>> THEN <<NewBlock(new, "paragraph", "none", 0)>> ELSE r

Toggled(t, a, b, key, val) ==
  LET given == val # "none"
      set == IF given THEN val ELSE "on"
  IN  IF Covers(t, a, b, key) /\ (given => \A k \in (a + 1)..b : set \in ValuesOf(t[k], key))
      THEN Unmarked(t, a, b, {key})
      ELSE LET rivals == {r \in {"code", "link"} : key \in {"code", "link"} /\ r # key
                                                 /\ HasMarkInRange(t, r, a, b)}
           IN  Marked(Unmarked(t, a, b, rivals), a, b, <<key, set>>)
-----------------------------------------------------------------------------
(* What an outline must be for it to stand for a tree, and a document for   *)
(* an editor that has used the names below n.                              *)
Word ==          \* any string; those the code writes itself are named
  STRING \union {"none", "level1", "unchecked", "checked", "on", "href", "thread", "ana",
                 " ", "\n", "@", "x"} \union MarkKeys
Char == [c : Nat, g : Word, m : SUBSET (Word \X Word)]
Block == [id : Nat \ {Root}, kind : Kinds, attr : Word, depth : Nat,
          rich : BOOLEAN, text : Seq(Char)]

IsOutline(d) ==
  /\ d # <<>> => d[1].depth = 0
  /\ \A i \in 1..(Len(d) - 1) : d[i + 1].depth <= d[i].depth + 1
  /\ \A i, j \in DOMAIN d : d[i].id = d[j].id => i = j

NamedOnce(d) ==
  \A i, j \in DOMAIN d : \A k \in DOMAIN d[i].text, l \in DOMAIN d[j].text :
    d[i].text[k].c = d[j].text[l].c => d[i].text[k].c = 0 \/ (i = j /\ k = l)

IsDocument(d, n) ==
  /\ d \in Seq(Block) /\ d # <<>> /\ IsOutline(d) /\ NamedOnce(d)
  /\ \A i \in DOMAIN d : /\ d[i].id < n
                         /\ HasInline(d[i].kind) \/ d[i].text # <<>> => d[i].rich
                         /\ \A k \in DOMAIN d[i].text : d[i].text[k].c < n

IdsOf(d) == {d[i].id : i \in DOMAIN d}
CharsOf(d) == UNION {{d[i].text[k] : k \in DOMAIN d[i].text} : i \in DOMAIN d}
NamesOf(d) == {x.c : x \in CharsOf(d)} \ {0}
=============================================================================
