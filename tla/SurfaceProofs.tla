---------------------------- MODULE SurfaceProofs ----------------------------
(***************************************************************************)
(* Type correctness of the rich-text editor, for every set of pages, every *)
(* typed text and any number of gestures: Spec => []TypeOK, from the       *)
(* inductive invariant IInv.  The proof goes the way the code is layered:  *)
(* what the operators on sequences and texts return; what each operation   *)
(* on an outline makes of a tree; what each command makes of an editor,    *)
(* whose undo steps count as much as its document; what each gesture and   *)
(* each edit of a peer makes of the surface.                               *)
(*                                                                         *)
(* Three bounds run through it.  A document stands below n and c: its      *)
(* blocks are named below n, its characters below c.  Between two tasks    *)
(* both are e.fresh; within one, c may lag behind, so that the names from  *)
(* c on are still free for the text a gesture is about to put in.          *)
(***************************************************************************)
EXTENDS Surface, FiniteSetTheorems, SequenceTheorems, WellFoundedInduction, TLAPS

\* A text; the names in it, of which none may be used twice.
Marks == Word \X Word
Text == Seq(Char)
Names(t) == {t[k].c : k \in DOMAIN t} \ {0}
Distinct(t) == \A k, l \in DOMAIN t : t[k].c = t[l].c /\ t[k].c # 0 => k = l

\* A block of a document that stands below n and c; two blocks with no name in
\* common; an outline that starts at the margin and goes in one step at a time.
Sound(b, n, c) ==
  /\ b \in Block /\ b.id < n
  /\ (HasInline(b.kind) => b.rich) /\ (b.text # <<>> => b.rich)
  /\ Distinct(b.text) /\ \A x \in Names(b.text) : x < c
Apart(x, y) == x.id # y.id /\ Names(x.text) \cap Names(y.text) = {}
AllApart(d) == \A i, j \in DOMAIN d : i # j => Apart(d[i], d[j])
Nested(d) == \A i \in 1..(Len(d) - 1) : d[i + 1].depth <= d[i].depth + 1
Rooted(d) == d # <<>> => d[1].depth = 0
Doc(d, n, c) ==
  /\ d \in Seq(Block) /\ d # <<>> /\ Rooted(d) /\ Nested(d) /\ AllApart(d)
  /\ \A i \in DOMAIN d : Sound(d[i], n, c)

\* The documents an editor can go to.  A block that is inline in one of them has a
\* text container in all of them, so what a peer types into it can be put into every
\* one.  (They need not agree on more: a paste gives a divider one in one of them.)
Pt == [b : Nat, o : Nat]
Sel == [a : Pt, f : Pt]
Docs(e) == {e.doc} \union Range(e.past) \union Range(e.future)
Kin(d1, d2) ==
  \A i \in DOMAIN d1, j \in DOMAIN d2 : d1[i].id = d2[j].id /\ HasInline(d1[i].kind) => d2[j].rich
Editors ==
  [doc : Seq(Block), sel : Sel, past : Seq(Seq(Block)), future : Seq(Seq(Block)), run : BOOLEAN,
   group : {"none", "opened", "used"}, threw : BOOLEAN, fresh : Nat]
Good(e, c) ==
  /\ e \in Editors /\ c \in Nat /\ c <= e.fresh
  /\ \A d \in Docs(e) : Doc(d, e.fresh, c)
  /\ \A d1, d2 \in Docs(e) : Kin(d1, d2)

\* A caret within its block, if there is one; what the clipboard may hold.
Fits(d, p) == Has(d, p.b) => p.o <= TextLen(d, p.b)
Fragment == [kind : Kinds, attr : Word, depth : Nat, text : Text]
Fragments(f) ==
  /\ f \in Seq(Fragment)
  /\ Rooted(f) /\ Nested(f)
  /\ \A k \in DOMAIN f : f[k].text # <<>> => HasInline(f[k].kind)

\* The inductive invariant.  Between two tasks every name in use is below fresh,
\* in the document and on both stacks; the selection the page shows lies in the
\* document; the clipboard holds an outline that can be pasted; the picker waits
\* on a query that begins where it stands.
AtRest(e) == Good(e, e.fresh) /\ ~e.threw /\ e.group = "none"
Inside(e, p) == Has(e.doc, p.b) => p.o <= ShownLen(e, p.b)
Shown(e, s) == s \in Sel /\ Inside(e, s.a) /\ Inside(e, s.f)
Clipped(k) ==
  /\ k \in [frags : Seq(Fragment), lines : Seq(Text)]
  /\ Fragments(k.frags) /\ (k # NoClip => k.frags # <<>>)
Picking(p) ==
  /\ p.b \in Nat /\ p.from \in Nat /\ p.to \in Nat
  /\ p # NoPicker => p.from < p.to
IInv ==
  /\ AtRest(ed) /\ Shown(ed, dsel) /\ ime \in [on : BOOLEAN, at : Pt]
  /\ Clipped(clip) /\ Picking(picker)

(***************************************************************************)
(* Numbers and folds.                                                      *)
(***************************************************************************)

\* A set of numbers has a least element, and one with a bound a greatest.
Less == {ss \in Nat \X Nat : ss[1] < ss[2]}

\* Every set of numbers that is not empty has a least element.
LEMMA Least ==
  ASSUME NEW T \in SUBSET Nat, T # {}
  PROVE  \E n \in T : \A m \in T : n <= m
<1>1. IsWellFoundedOn(Less, Nat)
  BY NatLessThanWellFounded DEF OpToRel, Less
<1>2. PICK n \in T : \A m \in T : ~(<<m, n>> \in Less)
  BY <1>1, WFMin
<1>3. ASSUME NEW m \in T PROVE n <= m
  <2>1. <<m, n>> \notin Less
    BY <1>2
  <2> QED BY <2>1 DEF Less
<1> QED BY <1>3

\* Induction over the numbers, for a set P.
LEMMA Induction ==
  ASSUME NEW P, 0 \in P, \A n \in Nat : n \in P => n + 1 \in P
  PROVE  Nat \subseteq P
<1>1. SUFFICES ASSUME Nat \ P # {} PROVE FALSE
  OBVIOUS
<1>2. PICK n \in Nat \ P : \A m \in Nat \ P : n <= m
  BY <1>1, Least
<1>3. n # 0 /\ n - 1 \in Nat /\ n - 1 \notin Nat \ P
  BY <1>2
<1> QED BY <1>2, <1>3

\* Every bounded set of numbers that is not empty has a greatest element.
LEMMA Greatest ==
  ASSUME NEW T \in SUBSET Nat, T # {}, NEW b \in Nat, \A m \in T : m <= b
  PROVE  \E n \in T : \A m \in T : m <= n
<1> DEFINE U == {u \in Nat : b - u \in T}
<1>1. PICK m0 \in T : TRUE
  OBVIOUS
<1>2. b - m0 \in Nat /\ b - (b - m0) = m0
  BY <1>1
<1>3. U \in SUBSET Nat /\ U # {}
  BY <1>2
<1>4. PICK u \in U : \A v \in U : u <= v
  BY <1>3, Least
<1>5. ASSUME NEW m \in T PROVE m <= b - u
  <2>1. b - m \in Nat /\ b - (b - m) = m
    OBVIOUS
  <2>2. b - m \in U
    BY <2>1
  <2>3. u <= b - m
    BY <1>4, <2>2
  <2>4. u \in Nat /\ m \in Nat /\ b \in Nat
    BY <1>4, <1>5
  <2> HIDE DEF U
  <2> QED BY <2>3, <2>4
<1> QED BY <1>4, <1>5

\* Max and Min of the community modules, on finite sets of numbers.
LEMMA MaxIs ==
  ASSUME NEW T \in SUBSET Nat, T # {}, NEW b \in Nat, \A m \in T : m <= b
  PROVE  Max(T) \in T /\ \A m \in T : m <= Max(T)
<1>1. PICK n \in T : \A m \in T : m <= n
  BY Greatest
<1>2. \A m \in T : n >= m
  BY <1>1
<1> QED BY <1>2 DEF Max

\* Min, on any set of numbers that is not empty.
LEMMA MinIs ==
  ASSUME NEW T \in SUBSET Nat, T # {}
  PROVE  Min(T) \in T /\ \A m \in T : Min(T) <= m
<1>1. PICK n \in T : \A m \in T : n <= m
  BY Least
<1> QED BY <1>1 DEF Min

\* ch picks a member of every set that S has; P holds what can be built up along
\* ch; h folds F along ch.
Picks(S, ch) == \A T \in SUBSET S : T # {} => ch[T] \in T
Builds(S, ch, P) == {} \in P /\ \A T \in SUBSET S : T # {} /\ T \ {ch[T]} \in P => T \in P
Closed(S, X, F) == \A x \in S, y \in X : F[<<x, y>>] \in X
Folds(S, X, ch, base, F, h) ==
  /\ h \in [SUBSET S -> X]
  /\ \A T \in SUBSET S : h[T] = IF T = {} THEN base ELSE F[<<ch[T], h[T \ {ch[T]}]>>]


\* What holds of the empty set and, of a set, if it holds without the element
\* that ch takes from it, holds of every finite set.
LEMMA TakingAway ==
  ASSUME NEW S, IsFiniteSet(S), NEW ch, Picks(S, ch), NEW P, Builds(S, ch, P)
  PROVE  S \in P
<1> USE DEF Picks, Builds
<1> DEFINE N == {n \in Nat : \A T \in SUBSET S : Cardinality(T) <= n => T \in P}
<1>1. \A T \in SUBSET S : IsFiniteSet(T) /\ Cardinality(T) \in Nat
  BY FS_Subset, FS_CardinalityType
<1>2. 0 \in N
  <2>1. \A T \in SUBSET S : Cardinality(T) <= 0 => T = {}
    BY <1>1, FS_EmptySet
  <2> QED BY <2>1
<1>3. ASSUME NEW n \in Nat, n \in N PROVE n + 1 \in N
  <2>1. ASSUME NEW T \in SUBSET S, Cardinality(T) <= n + 1, T # {} PROVE T \in P
    <3>1. ch[T] \in T /\ T \ {ch[T]} \in SUBSET S
      BY <2>1
    <3>2. Cardinality(T \ {ch[T]}) = Cardinality(T) - 1
      BY <3>1, <1>1, FS_RemoveElement
    <3>3. Cardinality(T \ {ch[T]}) <= n
      BY <3>2, <2>1, <1>1
    <3> QED BY <3>1, <3>3, <1>3, <2>1
  <2>2. \A T \in SUBSET S : Cardinality(T) <= n + 1 => T \in P
    BY <2>1
  <2> QED BY <2>2
<1> HIDE DEF N
<1>4. Nat \subseteq N
  BY <1>2, <1>3, Induction
<1> QED BY <1>1, <1>4 DEF N

\* Folding F over a finite set stays in a set F stays in.
LEMMA FoldExists ==
  ASSUME NEW S, IsFiniteSet(S), NEW ch, Picks(S, ch), NEW X, NEW base \in X, NEW F, Closed(S, X, F)
  PROVE  \E h : Folds(S, X, ch, base, F, h)
<1> USE DEF Picks, Closed
<1> DEFINE Eq(h, T) == h[T] = IF T = {} THEN base ELSE F[<<ch[T], h[T \ {ch[T]}]>>]
           N == {n \in Nat : \E h \in [SUBSET S -> X] :
                   \A T \in SUBSET S : Cardinality(T) <= n => Eq(h, T)}
<1>1. \A T \in SUBSET S : IsFiniteSet(T) /\ Cardinality(T) \in Nat
  BY FS_Subset, FS_CardinalityType
<1>2. 0 \in N
  <2> DEFINE h == [T \in SUBSET S |-> base]
  <2>1. h \in [SUBSET S -> X] /\ \A T \in SUBSET S : Cardinality(T) <= 0 => Eq(h, T)
    BY <1>1, FS_EmptySet
  <2> QED BY <2>1
<1>3. ASSUME NEW n \in Nat, n \in N PROVE n + 1 \in N
  <2>1. PICK h \in [SUBSET S -> X] : \A T \in SUBSET S : Cardinality(T) <= n => Eq(h, T)
    BY <1>3
  <2> DEFINE g == [T \in SUBSET S |-> IF T = {} THEN base ELSE F[<<ch[T], h[T \ {ch[T]}]>>]]
  <2>2. g \in [SUBSET S -> X]
    <3>1. ASSUME NEW T \in SUBSET S, T # {} PROVE F[<<ch[T], h[T \ {ch[T]}]>>] \in X
      <4>1. ch[T] \in S /\ T \ {ch[T]} \in SUBSET S
        BY <3>1
      <4> QED BY <4>1
    <3> QED BY <3>1
  <2>3. ASSUME NEW T \in SUBSET S, Cardinality(T) <= n + 1 PROVE Eq(g, T)
    <3>1. CASE T = {}
      BY <3>1
    <3>2. CASE T # {}
      <4> DEFINE U == T \ {ch[T]}
      <4>1. ch[T] \in T /\ U \in SUBSET S
        BY <3>2
      <4>2. Cardinality(U) = Cardinality(T) - 1
        BY <4>1, <1>1, FS_RemoveElement
      <4>3. Cardinality(U) <= n
        BY <4>2, <2>3, <1>1
      <4>4. g[U] = h[U]
        BY <4>1, <4>3, <2>1
      <4>5. g[T] = F[<<ch[T], h[U]>>]
        BY <3>2
      <4> QED BY <4>4, <4>5, <3>2
    <3> QED BY <3>1, <3>2
  <2> HIDE DEF g
  <2>4. \A T \in SUBSET S : Cardinality(T) <= n + 1 => Eq(g, T)
    BY <2>3
  <2> QED BY <2>2, <2>4
<1> HIDE DEF N
<1>4. Cardinality(S) \in N
  BY <1>1, <1>2, <1>3, Induction
<1>5. PICK h \in [SUBSET S -> X] : \A T \in SUBSET S : Cardinality(T) <= Cardinality(S) => Eq(h, T)
  BY <1>4 DEF N
<1>6. \A T \in SUBSET S : Cardinality(T) <= Cardinality(S)
  BY FS_Subset
<1> QED BY <1>5, <1>6 DEF Folds

(***************************************************************************)
(* Sequences.                                                              *)
(***************************************************************************)
\* What a sequence is, as a function.
LEMMA SeqIs ==
  ASSUME NEW S, NEW s \in Seq(S)
  PROVE  /\ Len(s) \in Nat /\ DOMAIN s = 1..Len(s) /\ s \in [1..Len(s) -> S]
         /\ \A k \in DOMAIN s : s[k] \in S
         /\ s # <<>> <=> Len(s) > 0
BY LenProperties, EmptySeq

\* A function on 1..n is a sequence.
LEMMA FcnIsSeq ==
  ASSUME NEW S, NEW n \in Nat, NEW s \in [1..n -> S]
  PROVE  s \in Seq(S) /\ Len(s) = n /\ DOMAIN s = 1..n
OBVIOUS

LEMMA SubSeqIs ==
  ASSUME NEW S, NEW d \in Seq(S), NEW i \in Int, NEW j \in Int, 1 <= i, j <= Len(d)
  PROVE  /\ SubSeq(d, i, j) \in Seq(S)
         /\ Len(SubSeq(d, i, j)) = IF i <= j THEN j - i + 1 ELSE 0
         /\ DOMAIN SubSeq(d, i, j) = 1..(j - i + 1)
         /\ \A k \in 1..(j - i + 1) : SubSeq(d, i, j)[k] = d[i + k - 1]
<1>1. \A k \in i..j : d[k] \in S
  BY SeqIs
<1>2. /\ SubSeq(d, i, j) \in Seq(S)
      /\ Len(SubSeq(d, i, j)) = IF i <= j THEN j - i + 1 ELSE 0
      /\ \A k \in 1..(j - i + 1) : SubSeq(d, i, j)[k] = d[i + k - 1]
  BY <1>1, SubSeqProperties
<1>3. DOMAIN SubSeq(d, i, j) = 1..Len(SubSeq(d, i, j))
  BY <1>2, SeqIs
<1>4. DOMAIN SubSeq(d, i, j) = 1..(j - i + 1)
  BY <1>2, <1>3
<1> QED BY <1>2, <1>4

\* u is s followed by t; u is the stretch i..j of d.
Joined(S, s, t, u) ==
  /\ u \in Seq(S) /\ Len(u) = Len(s) + Len(t) /\ Len(s) \in Nat /\ Len(t) \in Nat
  /\ DOMAIN u = 1..(Len(s) + Len(t)) /\ DOMAIN s = 1..Len(s) /\ DOMAIN t = 1..Len(t)
  /\ \A k \in 1..Len(s) : u[k] = s[k]
  /\ \A k \in 1..Len(t) : u[Len(s) + k] = t[k]
  /\ \A k \in 1..(Len(s) + Len(t)) : k \in 1..Len(s) \/ \E m \in 1..Len(t) : k = Len(s) + m
Portion(S, d, i, j, u) ==
  /\ u \in Seq(S) /\ Len(u) = (IF i <= j THEN j - i + 1 ELSE 0) /\ Len(u) \in Nat
  /\ DOMAIN u = 1..Len(u) /\ Len(d) \in Nat /\ DOMAIN d = 1..Len(d)
  /\ \A k \in 1..Len(u) : u[k] = d[i + k - 1] /\ i + k - 1 \in i..j

\* Concatenation.
LEMMA Concat ==
  ASSUME NEW S, NEW s \in Seq(S), NEW t \in Seq(S)
  PROVE  Joined(S, s, t, s \o t)
<1> DEFINE u == s \o t
<1>1. u \in Seq(S) /\ Len(u) = Len(s) + Len(t)
  BY ConcatProperties, Zenon
<1>2. \A k \in 1..(Len(s) + Len(t)) : u[k] = IF k <= Len(s) THEN s[k] ELSE t[k - Len(s)]
  BY ConcatProperties
<1>3. Len(s) \in Nat /\ Len(t) \in Nat /\ DOMAIN s = 1..Len(s) /\ DOMAIN t = 1..Len(t)
  OBVIOUS
<1> HIDE DEF u
<1>4. \A k \in 1..Len(s) : u[k] = s[k]
  BY <1>2, <1>3
<1>5. ASSUME NEW k \in 1..Len(t) PROVE u[Len(s) + k] = t[k]
  <2>1. Len(s) + k \in 1..(Len(s) + Len(t)) /\ ~(Len(s) + k <= Len(s)) /\ Len(s) + k - Len(s) = k
    BY <1>3
  <2> QED BY <1>2, <2>1
<1>6. DOMAIN u = 1..Len(u)
  BY <1>1
<1>7. ASSUME NEW k \in 1..(Len(s) + Len(t)), k \notin 1..Len(s)
      PROVE  \E m \in 1..Len(t) : k = Len(s) + m
  <2>1. k - Len(s) \in 1..Len(t) /\ k = Len(s) + (k - Len(s))
    BY <1>3, <1>7
  <2> QED BY <2>1
<1>8. Joined(S, s, t, u)
  BY <1>1, <1>3, <1>4, <1>5, <1>6, <1>7 DEF Joined
<1> QED BY <1>8 DEF u

\* SubSeq.
LEMMA PortionIs ==
  ASSUME NEW S, NEW d \in Seq(S), NEW i \in Int, NEW j \in Int, 1 <= i, j <= Len(d)
  PROVE  Portion(S, d, i, j, SubSeq(d, i, j))
<1> DEFINE u == SubSeq(d, i, j)
<1>1. u \in Seq(S) /\ Len(u) = (IF i <= j THEN j - i + 1 ELSE 0)
  BY SubSeqIs
<1>2. \A k \in 1..(j - i + 1) : u[k] = d[i + k - 1]
  BY SubSeqIs
<1>3. Len(d) \in Nat /\ DOMAIN d = 1..Len(d)
  OBVIOUS
<1> HIDE DEF u
<1>4. DOMAIN u = 1..Len(u) /\ Len(u) \in Nat
  BY <1>1
<1>5. \A k \in 1..Len(u) : k \in 1..(j - i + 1) /\ i + k - 1 \in i..j
  BY <1>1
<1>6. Portion(S, d, i, j, u)
  BY <1>1, <1>2, <1>3, <1>4, <1>5 DEF Portion
<1> QED BY <1>6 DEF u

\* u is d with s in the place of its stretch i..j.
Exchanged(S, d, i, j, s, u) ==
  /\ u \in Seq(S) /\ Len(u) = (i - 1) + Len(s) + (Len(d) - j) /\ DOMAIN u = 1..Len(u)
  /\ Len(d) \in Nat /\ Len(s) \in Nat /\ DOMAIN d = 1..Len(d) /\ DOMAIN s = 1..Len(s)
  /\ \A k \in 1..(i - 1) : u[k] = d[k]
  /\ \A k \in 1..Len(s) : u[i - 1 + k] = s[k]
  /\ \A k \in (j + 1)..Len(d) : u[i - 1 + Len(s) + k - j] = d[k]
  /\ \A k \in 1..Len(u) :
       \/ k \in 1..(i - 1)
       \/ \E m \in 1..Len(s) : k = i - 1 + m
       \/ \E m \in (j + 1)..Len(d) : k = i - 1 + Len(s) + m - j

\* Splice replaces a stretch.
LEMMA Spliced ==
  ASSUME NEW S, NEW d \in Seq(S), NEW s \in Seq(S),
         NEW i \in Nat, NEW j \in Nat, 1 <= i, i <= j + 1, j <= Len(d)
  PROVE  Exchanged(S, d, i, j, s, Splice(d, i, j, s))
<1> DEFINE a == SubSeq(d, 1, i - 1)
           z == SubSeq(d, j + 1, Len(d))
           ls == Len(s)
           ld == Len(d)
           as == a \o s
           sp == as \o z
<1>1. ld \in Nat /\ ls \in Nat /\ i - 1 \in Nat /\ ld - j \in Nat
  BY SeqIs
<1>2. Portion(S, d, 1, i - 1, a)
  BY <1>1, PortionIs
<1>3. Portion(S, d, j + 1, ld, z)
  BY <1>1, PortionIs
<1> HIDE DEF a, z
<1>4. a \in Seq(S) /\ z \in Seq(S)
  BY <1>2, <1>3, Zenon DEF Portion
<1>5. Joined(S, a, s, as)
  BY <1>4, Concat
<1> HIDE DEF as
<1>6. as \in Seq(S)
  BY <1>5 DEF Joined
<1>7. Joined(S, as, z, sp)
  BY <1>4, <1>6, Concat
<1> HIDE DEF sp, ls, ld
<1>8. /\ Len(a) = i - 1 /\ \A k \in 1..(i - 1) : a[k] = d[k]
  <2>1. Len(a) = i - 1
    BY <1>1, <1>2 DEF Portion
  <2>2. ASSUME NEW k \in 1..(i - 1) PROVE a[k] = d[k]
    <3>1. a[k] = d[1 + k - 1] /\ 1 + k - 1 = k
      BY <1>2, <2>1 DEF Portion
    <3> QED BY <3>1
  <2> QED BY <2>1, <2>2
<1>9. /\ Len(z) = ld - j /\ \A k \in 1..(ld - j) : z[k] = d[j + k]
  <2>1. Len(z) = ld - j
    BY <1>1, <1>3 DEF Portion
  <2>2. ASSUME NEW k \in 1..(ld - j) PROVE z[k] = d[j + k]
    <3>1. z[k] = d[j + 1 + k - 1] /\ j + 1 + k - 1 = j + k
      BY <1>3, <2>1 DEF Portion
    <3> QED BY <3>1
  <2> QED BY <2>1, <2>2
<1>10. /\ Len(as) = i - 1 + ls
       /\ \A k \in 1..(i - 1) : as[k] = d[k]
       /\ \A k \in 1..ls : as[i - 1 + k] = s[k]
  BY <1>5, <1>8 DEF Joined, ls
<1>11. /\ sp \in Seq(S) /\ Len(sp) = i - 1 + ls + (ld - j) /\ DOMAIN sp = 1..Len(sp)
       /\ \A k \in 1..(i - 1 + ls) : sp[k] = as[k]
       /\ \A k \in 1..(ld - j) : sp[i - 1 + ls + k] = z[k]
  BY <1>7, <1>9, <1>10 DEF Joined
<1>12. \A k \in 1..(i - 1) : sp[k] = d[k]
  <2>1. \A k \in 1..(i - 1) : k \in 1..(i - 1 + ls)
    BY <1>1
  <2> QED BY <1>10, <1>11, <2>1
<1>13. \A k \in 1..ls : sp[i - 1 + k] = s[k]
  <2>1. \A k \in 1..ls : i - 1 + k \in 1..(i - 1 + ls)
    BY <1>1
  <2> QED BY <1>10, <1>11, <2>1
<1>14. ASSUME NEW k \in (j + 1)..ld PROVE sp[i - 1 + ls + k - j] = d[k]
  <2>1. k - j \in 1..(ld - j) /\ i - 1 + ls + (k - j) = i - 1 + ls + k - j /\ j + (k - j) = k
    BY <1>1
  <2>2. sp[i - 1 + ls + (k - j)] = z[k - j] /\ z[k - j] = d[j + (k - j)]
    BY <2>1, <1>9, <1>11
  <2> QED BY <2>1, <2>2
<1>15. ASSUME NEW k \in 1..Len(sp)
       PROVE  \/ k \in 1..(i - 1)
              \/ \E m \in 1..ls : k = i - 1 + m
              \/ \E m \in (j + 1)..ld : k = i - 1 + ls + m - j
  <2>1. CASE k <= i - 1
    BY <2>1, <1>1
  <2>2. CASE k > i - 1 /\ k <= i - 1 + ls
    <3>1. k - (i - 1) \in 1..ls /\ k = i - 1 + (k - (i - 1))
      BY <2>2, <1>1
    <3> QED BY <3>1
  <2>3. CASE k > i - 1 + ls
    <3> DEFINE m == k - (i - 1 + ls) + j
    <3>1. k \in Int /\ k <= i - 1 + ls + (ld - j)
      BY <1>11
    <3>2. m \in Int /\ m > j /\ m <= ld /\ k = i - 1 + ls + m - j
      BY <3>1, <2>3, <1>1
    <3>3. m \in (j + 1)..ld
      BY <3>2, <1>1
    <3> QED BY <3>2, <3>3
  <2> QED BY <2>1, <2>2, <2>3, <1>1
<1>16. DOMAIN d = 1..ld /\ DOMAIN s = 1..ls
  BY SeqIs DEF ld, ls
<1> USE DEF ls, ld
<1>17. Exchanged(S, d, i, j, s, sp)
  <2>1. sp \in Seq(S) /\ Len(sp) = (i - 1) + Len(s) + (Len(d) - j) /\ DOMAIN sp = 1..Len(sp)
    BY <1>11
  <2>2. Len(d) \in Nat /\ Len(s) \in Nat /\ DOMAIN d = 1..Len(d) /\ DOMAIN s = 1..Len(s)
    BY <1>1, <1>16
  <2>3. \A k \in (j + 1)..Len(d) : sp[i - 1 + Len(s) + k - j] = d[k]
    BY <1>14
  <2>4. \A k \in 1..Len(sp) :
       \/ k \in 1..(i - 1)
       \/ \E m \in 1..Len(s) : k = i - 1 + m
       \/ \E m \in (j + 1)..Len(d) : k = i - 1 + Len(s) + m - j
    BY <1>15, Zenon
  <2> QED BY <2>1, <2>2, <2>3, <2>4, <1>12, <1>13, Zenon DEF Exchanged
<1>18. Splice(d, i, j, s) = sp
  BY DEF Splice, sp, as, a, z
<1> QED BY <1>17, <1>18

(***************************************************************************)
(* Text.                                                                   *)
(***************************************************************************)

\* A text whose characters have names in N, none twice; one with the same names.
Spells(t, N) == t \in Text /\ Distinct(t) /\ Names(t) \subseteq N
Rewritten(t, u) ==
  /\ u \in Text /\ Len(u) = Len(t) /\ DOMAIN u = DOMAIN t
  /\ \A k \in DOMAIN t : u[k].c = t[k].c

Reworked(t, u) ==
  /\ DOMAIN u = DOMAIN t /\ u = [k \in DOMAIN t |-> u[k]]
  /\ \A k \in DOMAIN t : u[k] = t[k] \/ \E m \in SUBSET Marks : u[k] = [t[k] EXCEPT !.m = m]
\* u is what stands behind a up to b in t.
Sliced(t, a, b, u) ==
  /\ u \in Text /\ Len(u) = (IF a < b THEN b - a ELSE 0)
  /\ \A N : Spells(t, N) => Spells(u, N)
  /\ \A k \in DOMAIN u : a + k \in DOMAIN t /\ a + k > a /\ a + k <= b /\ u[k] = t[a + k]
Catenated(t, u, v) ==
  /\ v \in Text /\ Len(v) = Len(t) + Len(u) /\ Names(v) = Names(t) \cup Names(u)
  /\ Distinct(t) /\ Distinct(u) /\ Names(t) \cap Names(u) = {} => Distinct(v)

\* What a text is, character by character.
LEMMA TextIs ==
  ASSUME NEW t \in Text
  PROVE  /\ Len(t) \in Nat /\ DOMAIN t = 1..Len(t)
         /\ \A k \in DOMAIN t : t[k] \in Char /\ t[k].c \in Nat /\ t[k].m \in SUBSET Marks
         /\ t # <<>> <=> Len(t) > 0
<1>1. Len(t) \in Nat /\ DOMAIN t = 1..Len(t) /\ (t # <<>> <=> Len(t) > 0)
  BY SeqIs DEF Text
<1>2. \A k \in DOMAIN t : t[k] \in Char
  BY SeqIs DEF Text
<1>3. \A x \in Char : x.c \in Nat /\ x.m \in SUBSET Marks
  BY DEF Char, Marks
<1> QED BY <1>1, <1>2, <1>3

LEMMA EmptyText ==
  <<>> \in Text /\ Distinct(<<>>) /\ Names(<<>>) = {} /\ Len(<<>>) = 0 /\ Spells(<<>>, {})
<1>1. <<>> \in Text /\ Len(<<>>) = 0 /\ DOMAIN <<>> = {}
  BY EmptySeq DEF Text
<1> QED BY <1>1 DEF Spells, Distinct, Names

\* Rewriting the marks of a text leaves its names.
LEMMA SameNames ==
  ASSUME NEW t \in Text, NEW u, Rewritten(t, u)
  PROVE  /\ u \in Text /\ Len(u) = Len(t) /\ Names(u) = Names(t) /\ (Distinct(t) => Distinct(u))
         /\ \A N : Spells(t, N) => Spells(u, N)
<1>1. Names(u) = Names(t)
  BY DEF Rewritten, Names
<1>2. Distinct(t) => Distinct(u)
  BY DEF Rewritten, Distinct
<1> QED BY <1>1, <1>2 DEF Rewritten, Spells

\* Only marks were touched.
LEMMA MarksOn ==
  ASSUME NEW t \in Text, NEW u, Reworked(t, u)
  PROVE  Rewritten(t, u)
<1>1. Len(t) \in Nat /\ DOMAIN t = 1..Len(t) /\ \A k \in DOMAIN t : t[k] \in Char
  BY TextIs
<1>2. ASSUME NEW x \in Char, NEW m \in SUBSET Marks
      PROVE  [x EXCEPT !.m = m] \in Char /\ [x EXCEPT !.m = m].c = x.c
  BY DEF Char, Marks
<1>3. ASSUME NEW k \in DOMAIN t PROVE u[k] \in Char /\ u[k].c = t[k].c
  <2>1. CASE u[k] = t[k]
    BY <1>1, <2>1
  <2>2. CASE \E m \in SUBSET Marks : u[k] = [t[k] EXCEPT !.m = m]
    <3>1. PICK m \in SUBSET Marks : u[k] = [t[k] EXCEPT !.m = m]
      BY <2>2
    <3>2. t[k] \in Char
      BY <1>1
    <3> QED BY <3>1, <3>2, <1>2
  <2> QED BY <2>1, <2>2 DEF Reworked
<1>4. u \in [1..Len(t) -> Char]
  BY <1>1, <1>3 DEF Reworked
<1>5. u \in Seq(Char) /\ Len(u) = Len(t)
  BY <1>1, <1>4, FcnIsSeq
<1> QED BY <1>3, <1>5 DEF Rewritten, Reworked, Text

LEMMA OverIs ==
  ASSUME NEW a \in SUBSET Marks, NEW b \in SUBSET Marks
  PROVE  Over(a, b) \in SUBSET Marks
BY DEF Over

\* The marks a new character takes over.
LEMMA InheritedIs ==
  ASSUME NEW t \in Text, NEW o \in 0..Len(t)
  PROVE  Inherited(t, o) \in SUBSET Marks
<1>1. o # 0 => t[o].m \in SUBSET Marks
  BY TextIs
<1> QED BY <1>1 DEF Inherited

\* Slice.
LEMMA SliceIs ==
  ASSUME NEW t \in Text, NEW a \in Nat, NEW b \in Nat, b <= Len(t)
  PROVE  Sliced(t, a, b, Slice(t, a, b))
<1> DEFINE u == Slice(t, a, b)
<1>0. u = SubSeq(t, a + 1, b)
  BY DEF Slice
<1>1. Portion(Char, t, a + 1, b, u)
  BY <1>0, PortionIs DEF Text
<1> HIDE DEF u
<1>2. u \in Text /\ Len(u) = IF a < b THEN b - a ELSE 0
  BY <1>1 DEF Portion, Text
<1>3. ASSUME NEW k \in DOMAIN u
      PROVE  a + k \in DOMAIN t /\ a + k > a /\ a + k <= b /\ u[k] = t[a + k]
  <2>1. k \in 1..Len(u) /\ u[k] = t[a + 1 + k - 1] /\ a + 1 + k - 1 \in (a + 1)..b
        /\ DOMAIN t = 1..Len(t) /\ Len(t) \in Nat
    BY <1>1 DEF Portion
  <2>2. a + 1 + k - 1 = a + k
    BY <2>1
  <2> QED BY <2>1, <2>2
<1>4. Names(u) \subseteq Names(t)
  BY <1>3 DEF Names
<1>5. Distinct(t) => Distinct(u)
  <2>1. SUFFICES ASSUME Distinct(t), NEW k \in DOMAIN u, NEW l \in DOMAIN u,
                        u[k].c = u[l].c, u[k].c # 0
                 PROVE  k = l
    BY DEF Distinct
  <2>2. a + k \in DOMAIN t /\ a + l \in DOMAIN t /\ u[k] = t[a + k] /\ u[l] = t[a + l]
    BY <1>3
  <2>3. a + k = a + l
    BY <2>1, <2>2 DEF Distinct
  <2>4. k \in Nat /\ l \in Nat
    BY <1>1 DEF Portion
  <2> QED BY <2>3, <2>4
<1>6. \A N : Spells(t, N) => Spells(u, N)
  BY <1>2, <1>4, <1>5 DEF Spells
<1>7. Sliced(t, a, b, u)
  BY <1>2, <1>3, <1>6 DEF Sliced
<1> QED BY <1>7 DEF u

\* Two texts one behind the other.
LEMMA CatIs ==
  ASSUME NEW t \in Text, NEW u \in Text
  PROVE  Catenated(t, u, t \o u)
<1> DEFINE v == t \o u
<1>1. Joined(Char, t, u, v)
  BY Concat DEF Text
<1> HIDE DEF v
<1>2. v \in Text /\ Len(v) = Len(t) + Len(u)
  BY <1>1 DEF Joined, Text
<1>3. ASSUME NEW k \in DOMAIN v
      PROVE  (k \in DOMAIN t /\ v[k] = t[k]) \/ \E m \in DOMAIN u : k = Len(t) + m /\ v[k] = u[m]
  <2>1. k \in 1..Len(t) \/ \E m \in 1..Len(u) : k = Len(t) + m
    BY <1>1 DEF Joined
  <2>2. DOMAIN t = 1..Len(t) /\ DOMAIN u = 1..Len(u)
    BY <1>1 DEF Joined
  <2>3. \A m \in 1..Len(t) : v[m] = t[m]
    BY <1>1 DEF Joined
  <2>4. \A m \in 1..Len(u) : v[Len(t) + m] = u[m]
    BY <1>1 DEF Joined
  <2> QED BY <2>1, <2>2, <2>3, <2>4
<1>0. /\ Len(t) \in Nat /\ Len(u) \in Nat /\ DOMAIN v = 1..(Len(t) + Len(u))
      /\ DOMAIN t = 1..Len(t) /\ DOMAIN u = 1..Len(u)
  BY <1>1 DEF Joined
<1>4. \A k \in DOMAIN t : k \in DOMAIN v /\ v[k] = t[k]
  BY <1>0, <1>1 DEF Joined
<1>5. ASSUME NEW k \in DOMAIN u PROVE Len(t) + k \in DOMAIN v /\ v[Len(t) + k] = u[k]
  <2>1. Len(t) + k \in DOMAIN v
    BY <1>0
  <2>2. v[Len(t) + k] = u[k]
    BY <1>1 DEF Joined
  <2> QED BY <2>1, <2>2
<1>6. Names(v) = Names(t) \cup Names(u)
  <2>1. Names(v) \subseteq Names(t) \cup Names(u)
    BY <1>3 DEF Names
  <2>2. Names(t) \subseteq Names(v)
    BY <1>4 DEF Names
  <2>3. Names(u) \subseteq Names(v)
    BY <1>5 DEF Names
  <2> QED BY <2>1, <2>2, <2>3
<1>7. ASSUME Distinct(t), Distinct(u), Names(t) \cap Names(u) = {}
      PROVE  Distinct(v)
  <2>1. SUFFICES ASSUME NEW k \in DOMAIN v, NEW l \in DOMAIN v, v[k].c = v[l].c, v[k].c # 0
                 PROVE  k = l
    BY DEF Distinct
  <2>2. \A i \in DOMAIN t, j \in DOMAIN u : t[i].c = u[j].c => t[i].c = 0
    BY <1>7 DEF Names
  <2>3. CASE k \in DOMAIN t /\ v[k] = t[k]
    BY <2>1, <2>2, <2>3, <1>3, <1>7 DEF Distinct
  <2>4. CASE \E m \in DOMAIN u : k = Len(t) + m /\ v[k] = u[m]
    BY <2>1, <2>2, <2>4, <1>3, <1>7 DEF Distinct
  <2> QED BY <2>3, <2>4, <1>3
<1>8. Catenated(t, u, v)
  BY <1>2, <1>6, <1>7 DEF Catenated
<1> QED BY <1>8 DEF v

\* The text left when the characters behind a up to b are taken out.
LEMMA CutOut ==
  ASSUME NEW t \in Text, NEW a \in Nat, NEW b \in Nat, a <= b, b <= Len(t)
  PROVE  LET u == Slice(t, 0, a) \o Slice(t, b, Len(t))
         IN  /\ u \in Text /\ Len(u) = a + (Len(t) - b)
             /\ \A N : Spells(t, N) => Spells(u, N)
<1> DEFINE x == Slice(t, 0, a)
           y == Slice(t, b, Len(t))
           u == x \o y
<1>0. Len(t) \in Nat /\ DOMAIN t = 1..Len(t)
  BY TextIs
<1>1. Sliced(t, 0, a, x) /\ Sliced(t, b, Len(t), y)
  BY <1>0, SliceIs
<1> HIDE DEF x, y
<1>2. x \in Text /\ y \in Text
  BY <1>1 DEF Sliced
<1>3. Catenated(x, y, u)
  BY <1>2, CatIs
<1> HIDE DEF u
<1>4. Len(u) = a + (Len(t) - b)
  <2>1. Len(u) = Len(x) + Len(y) /\ Len(x) = (IF 0 < a THEN a - 0 ELSE 0)
        /\ Len(y) = (IF b < Len(t) THEN Len(t) - b ELSE 0)
    BY <1>1, <1>3 DEF Sliced, Catenated
  <2> DEFINE lx == Len(x)
             ly == Len(y)
             lt == Len(t)
  <2> HIDE DEF lx, ly, lt
  <2>a. lt \in Nat /\ b <= lt /\ lx = (IF 0 < a THEN a - 0 ELSE 0)
        /\ ly = (IF b < lt THEN lt - b ELSE 0)
    BY <2>1, <1>0, Zenon DEF lx, ly, lt
  <2>b. lx = a /\ ly = lt - b
    BY <2>a
  <2>2. Len(x) = a /\ Len(y) = Len(t) - b
    BY <2>b DEF lx, ly, lt
  <2> QED BY <2>1, <2>2, Zenon
<1>5. ASSUME Distinct(t), Names(x) \cap Names(y) # {} PROVE FALSE
  <2>1. PICK k \in DOMAIN x, l \in DOMAIN y : x[k].c = y[l].c /\ x[k].c # 0
    BY <1>5 DEF Names
  <2>2. x[k] = t[0 + k] /\ y[l] = t[b + l] /\ 0 + k \in DOMAIN t /\ b + l \in DOMAIN t
        /\ 0 + k <= a /\ b + l > b
    BY <1>1 DEF Sliced
  <2>3. 0 + k = b + l
    BY <1>5, <2>1, <2>2 DEF Distinct
  <2>4. b + l \in Int
    BY <1>0, <2>2
  <2> QED BY <2>2, <2>3, <2>4
<1>6. ASSUME NEW N, Spells(t, N) PROVE Spells(u, N)
  <2>1. Spells(x, N) /\ Spells(y, N)
    BY <1>1, <1>6 DEF Sliced
  <2>2. Distinct(t)
    BY <1>6 DEF Spells
  <2> QED BY <1>3, <1>5, <2>1, <2>2 DEF Spells, Catenated
<1>7. u \in Text
  BY <1>3 DEF Catenated
<1> QED BY <1>4, <1>6, <1>7 DEF u, x, y

\* Text put into text.
LEMMA PutIs ==
  ASSUME NEW t \in Text, NEW o \in 0..Len(t), NEW s \in Text,
         NEW N, NEW M, Spells(t, N), Spells(s, M), N \cap M = {}
  PROVE  Spells(Put(t, o, s), N \cup M) /\ Len(Put(t, o, s)) = Len(t) + Len(s)
<1> DEFINE x == Slice(t, 0, o)
           y == Slice(t, o, Len(t))
           xs == x \o s
           u == xs \o y
<1>0. Len(t) \in Nat /\ DOMAIN t = 1..Len(t) /\ Len(s) \in Nat
  BY TextIs
<1>1. Sliced(t, 0, o, x) /\ Sliced(t, o, Len(t), y)
  BY <1>0, SliceIs
<1> HIDE DEF x, y
<1>2. x \in Text /\ y \in Text /\ Spells(x, N) /\ Spells(y, N)
  BY <1>1 DEF Sliced
<1>3. Names(x) \cap Names(y) = {}
  <2>1. SUFFICES ASSUME Names(x) \cap Names(y) # {} PROVE FALSE
    OBVIOUS
  <2>2. PICK k \in DOMAIN x, l \in DOMAIN y : x[k].c = y[l].c /\ x[k].c # 0
    BY <2>1 DEF Names
  <2>3. x[k] = t[0 + k] /\ y[l] = t[o + l] /\ 0 + k \in DOMAIN t /\ o + l \in DOMAIN t
        /\ 0 + k <= o /\ o + l > o
    BY <1>1 DEF Sliced
  <2>4. 0 + k = o + l
    BY <2>2, <2>3 DEF Distinct, Spells
  <2>5. o + l \in Int
    BY <1>0, <2>3
  <2> QED BY <2>3, <2>4, <2>5
<1>4. Catenated(x, s, xs)
  BY <1>2, CatIs
<1> HIDE DEF xs
<1>5. Catenated(xs, y, u)
  BY <1>2, <1>4, CatIs DEF Catenated
<1> HIDE DEF u
<1>6. Len(u) = Len(t) + Len(s)
  <2>1. /\ Len(u) = Len(xs) + Len(y) /\ Len(xs) = Len(x) + Len(s)
        /\ Len(x) = (IF 0 < o THEN o - 0 ELSE 0)
        /\ Len(y) = (IF o < Len(t) THEN Len(t) - o ELSE 0)
    BY <1>1, <1>4, <1>5 DEF Sliced, Catenated
  <2> DEFINE lx == Len(x)
             ly == Len(y)
             lt == Len(t)
  <2> HIDE DEF lx, ly, lt
  <2>a. lt \in Nat /\ o \in 0..lt /\ lx = (IF 0 < o THEN o - 0 ELSE 0)
        /\ ly = (IF o < lt THEN lt - o ELSE 0)
    BY <2>1, <1>0, Zenon DEF lx, ly, lt
  <2>b. lx = o /\ ly = lt - o /\ o \in Nat
    BY <2>a
  <2>2. Len(x) = o /\ Len(y) = Len(t) - o /\ o \in Nat
    BY <2>b DEF lx, ly, lt
  <2>3. Len(u) = (o + Len(s)) + (Len(t) - o)
    BY <2>1, <2>2
  <2> QED BY <2>2, <2>3, <1>0
<1>7. /\ Distinct(x) /\ Distinct(y) /\ Distinct(s)
      /\ Names(x) \subseteq N /\ Names(y) \subseteq N /\ Names(s) \subseteq M
  BY <1>2 DEF Spells
<1>8. Names(x) \cap Names(s) = {} /\ Names(xs) \cap Names(y) = {}
  BY <1>3, <1>4, <1>7 DEF Catenated
<1>9. Spells(u, N \cup M)
  BY <1>4, <1>5, <1>7, <1>8 DEF Spells, Catenated
<1>10. u = Put(t, o, s)
  BY DEF u, xs, x, y, Put
<1> QED BY <1>6, <1>9, <1>10

\* Typing into a text, where the new characters take over the marks beside
\* them.
LEMMA TypedIs ==
  ASSUME NEW t \in Text, NEW o \in 0..Len(t), NEW s \in Text,
         NEW N, NEW M, Spells(t, N), Spells(s, M), N \cap M = {}
  PROVE  Spells(Typed(t, o, s), N \cup M) /\ Len(Typed(t, o, s)) = Len(t) + Len(s)
<1> DEFINE r == [k \in DOMAIN s |-> [s[k] EXCEPT !.m = Inherited(t, o)]]
<1>1. Rewritten(s, r)
  <2>1. \A k \in DOMAIN s : \E m \in SUBSET Marks : r[k] = [s[k] EXCEPT !.m = m]
    BY InheritedIs
  <2>2. DOMAIN r = DOMAIN s /\ r = [k \in DOMAIN s |-> r[k]]
    OBVIOUS
  <2> HIDE DEF r
  <2>3. Reworked(s, r)
    BY <2>1, <2>2 DEF Reworked
  <2> QED BY <2>3, MarksOn
<1> HIDE DEF r
<1>2. r \in Text /\ Len(r) = Len(s) /\ Spells(r, M)
  BY <1>1, SameNames
<1>3. Typed(t, o, s) = Put(t, o, r)
  BY DEF Typed, r
<1> QED BY <1>2, <1>3, PutIs

\* Pasting into a text, where they do not.
LEMMA GraftedIs ==
  ASSUME NEW t \in Text, NEW o \in 0..Len(t), NEW s \in Text,
         NEW N, NEW M, Spells(t, N), Spells(s, M), N \cap M = {}
  PROVE  Spells(Grafted(t, o, s), N \cup M) /\ Len(Grafted(t, o, s)) = Len(t) + Len(s)
<1> DEFINE base == {v \in Inherited(t, o) : v[1] \notin ExpandAfter}
           r == [k \in DOMAIN s |-> [s[k] EXCEPT !.m = Over(base, s[k].m)]]
<1>0. base \in SUBSET Marks
  BY InheritedIs
<1>1. Rewritten(s, r)
  <2>1. ASSUME NEW k \in DOMAIN s PROVE \E m \in SUBSET Marks : r[k] = [s[k] EXCEPT !.m = m]
    <3>1. s[k].m \in SUBSET Marks
      BY TextIs
    <3>2. Over(base, s[k].m) \in SUBSET Marks
      BY <1>0, <3>1, OverIs
    <3> QED BY <3>2
  <2>2. DOMAIN r = DOMAIN s /\ r = [k \in DOMAIN s |-> r[k]]
    OBVIOUS
  <2> HIDE DEF r
  <2>3. Reworked(s, r)
    BY <2>1, <2>2 DEF Reworked
  <2> QED BY <2>3, MarksOn
<1>3. Grafted(t, o, s) = Put(t, o, r)
  BY DEF Grafted
<1> HIDE DEF r
<1>2. r \in Text /\ Len(r) = Len(s) /\ Spells(r, M)
  BY <1>1, SameNames
<1> QED BY <1>2, <1>3, PutIs

\* Taking marks off.
LEMMA UnmarkedIs ==
  ASSUME NEW t \in Text, NEW a, NEW b, NEW keys
  PROVE  Rewritten(t, Unmarked(t, a, b, keys))
<1> DEFINE r == Unmarked(t, a, b, keys)
<1>1. ASSUME NEW k \in DOMAIN t
      PROVE  r[k] = t[k] \/ \E m \in SUBSET Marks : r[k] = [t[k] EXCEPT !.m = m]
  <2>1. t[k].m \in SUBSET Marks
    BY TextIs
  <2>2. {v \in t[k].m : v[1] \notin keys} \in SUBSET Marks
    BY <2>1
  <2>3. r[k] = IF a < k /\ k <= b THEN [t[k] EXCEPT !.m = {v \in t[k].m : v[1] \notin keys}] ELSE t[k]
    BY DEF Unmarked
  <2> QED BY <2>2, <2>3
<1>2. DOMAIN r = DOMAIN t /\ r = [k \in DOMAIN t |-> r[k]]
  BY DEF Unmarked
<1> HIDE DEF r
<1>3. Reworked(t, r)
  BY <1>1, <1>2 DEF Reworked
<1>4. Rewritten(t, r)
  BY <1>3, MarksOn
<1> QED BY <1>4 DEF r

\* Setting a mark.
LEMMA MarkedIs ==
  ASSUME NEW t \in Text, NEW a, NEW b, NEW mark \in Marks
  PROVE  Rewritten(t, Marked(t, a, b, mark))
<1> DEFINE r == Marked(t, a, b, mark)
<1>1. ASSUME NEW k \in DOMAIN t
      PROVE  r[k] = t[k] \/ \E m \in SUBSET Marks : r[k] = [t[k] EXCEPT !.m = m]
  <2>1. t[k].m \in SUBSET Marks
    BY TextIs
  <2>2. Over(t[k].m, {mark}) \in SUBSET Marks
    BY <2>1, OverIs
  <2>3. r[k] = IF a < k /\ k <= b THEN [t[k] EXCEPT !.m = Over(t[k].m, {mark})] ELSE t[k]
    BY DEF Marked
  <2> QED BY <2>2, <2>3
<1>2. DOMAIN r = DOMAIN t /\ r = [k \in DOMAIN t |-> r[k]]
  BY DEF Marked
<1> HIDE DEF r
<1>3. Reworked(t, r)
  BY <1>1, <1>2 DEF Reworked
<1>4. Rewritten(t, r)
  BY <1>3, MarksOn
<1> QED BY <1>4 DEF r

LEMMA RewrittenTwice ==
  ASSUME NEW t \in Text, NEW u, NEW v, Rewritten(t, u), Rewritten(u, v)
  PROVE  Rewritten(t, v)
BY DEF Rewritten

\* Setting a mark or taking it off.
LEMMA ToggledIs ==
  ASSUME NEW t \in Text, NEW a, NEW b, NEW key \in Word, NEW val \in Word
  PROVE  Rewritten(t, Toggled(t, a, b, key, val))
<1> DEFINE set == IF val # "none" THEN val ELSE "on"
           rivals == {r \in {"code", "link"} : key \in {"code", "link"} /\ r # key
                                                 /\ HasMarkInRange(t, r, a, b)}
<1>1. <<key, set>> \in Marks
  <2>1. "on" \in Word
    BY DEF Word
  <2> QED BY <2>1 DEF Marks
<1>2. Rewritten(t, Unmarked(t, a, b, {key}))
  BY UnmarkedIs
<1>3. Rewritten(t, Unmarked(t, a, b, rivals))
  BY UnmarkedIs
<1>4. Unmarked(t, a, b, rivals) \in Text
  BY <1>3 DEF Rewritten
<1>5. Rewritten(Unmarked(t, a, b, rivals), Marked(Unmarked(t, a, b, rivals), a, b, <<key, set>>))
  BY <1>1, <1>4, MarkedIs
<1>6. Rewritten(t, Marked(Unmarked(t, a, b, rivals), a, b, <<key, set>>))
  BY <1>3, <1>5, RewrittenTwice
<1>7. \/ Toggled(t, a, b, key, val) = Unmarked(t, a, b, {key})
      \/ Toggled(t, a, b, key, val) = Marked(Unmarked(t, a, b, rivals), a, b, <<key, set>>)
  BY DEF Toggled
<1> QED BY <1>2, <1>6, <1>7

\* A copied text has no names: those of the original stay where they are.
LEMMA CopiedIs ==
  ASSUME NEW s \in Text
  PROVE  Copied(s) \in Text /\ Len(Copied(s)) = Len(s) /\ Spells(Copied(s), {})
<1> DEFINE r == Copied(s)
<1>1. Len(s) \in Nat /\ DOMAIN s = 1..Len(s) /\ \A k \in DOMAIN s : s[k] \in Char
  BY TextIs
<1>2. ASSUME NEW k \in DOMAIN s
      PROVE  [c |-> 0, g |-> s[k].g, m |-> {v \in s[k].m : v[1] \in Pasteable}] \in Char
  BY <1>1 DEF Char
<1>3. r = [k \in DOMAIN s |-> [c |-> 0, g |-> s[k].g, m |-> {v \in s[k].m : v[1] \in Pasteable}]]
  BY DEF Copied
<1>4. r \in [1..Len(s) -> Char] /\ \A k \in 1..Len(s) : r[k].c = 0
  BY <1>1, <1>2, <1>3
<1> HIDE DEF r
<1>5. r \in Text /\ Len(r) = Len(s) /\ DOMAIN r = 1..Len(s)
  BY <1>1, <1>4, FcnIsSeq DEF Text
<1>6. Spells(r, {})
  BY <1>4, <1>5 DEF Spells, Distinct, Names
<1> QED BY <1>5, <1>6 DEF r

(***************************************************************************)
(* The outline.                                                            *)
(***************************************************************************)
Shape(d) == d \in Seq(Block) /\ Rooted(d) /\ Nested(d)

\* What a block is.
LEMMA BlockIs ==
  ASSUME NEW b \in Block
  PROVE  /\ b.id \in Nat /\ b.id # 0 /\ b.kind \in Kinds /\ b.attr \in Word /\ b.depth \in Nat
         /\ b.rich \in BOOLEAN /\ b.text \in Text
BY DEF Block, Root, Text

\* What an outline is, block by block.
LEMMA BlocksAre ==
  ASSUME NEW d \in Seq(Block)
  PROVE  /\ Len(d) \in Nat /\ DOMAIN d = 1..Len(d) /\ (d # <<>> <=> Len(d) > 0)
         /\ \A i \in DOMAIN d : /\ d[i] \in Block /\ d[i].id \in Nat /\ d[i].id # 0
                                /\ d[i].depth \in Nat /\ d[i].text \in Text
<1>1. /\ Len(d) \in Nat /\ DOMAIN d = 1..Len(d) /\ (d # <<>> <=> Len(d) > 0)
      /\ \A i \in DOMAIN d : d[i] \in Block
  BY SeqIs
<1> QED BY <1>1, BlockIs

\* At finds a block that is there.
LEMMA HasIs ==
  ASSUME NEW d, NEW id, Has(d, id)
  PROVE  At(d, id) \in DOMAIN d /\ d[At(d, id)].id = id
BY DEF Has, At

\* Where no id is used twice, At finds the one block of that id.
LEMMA AtIs ==
  ASSUME NEW d, AllApart(d), NEW i \in DOMAIN d
  PROVE  Has(d, d[i].id) /\ At(d, d[i].id) = i
<1>1. Has(d, d[i].id)
  BY DEF Has
<1>2. At(d, d[i].id) \in DOMAIN d /\ d[At(d, d[i].id)].id = d[i].id
  BY <1>1, HasIs
<1> QED BY <1>1, <1>2 DEF AllApart, Apart

\* j is the last position of the subtree of i.
EndsAt(d, i, j) ==
  /\ j \in i..Len(d) /\ j \in Nat /\ j \in DOMAIN d
  /\ \A k \in (i + 1)..j : d[k].depth > d[i].depth
  /\ j = Len(d) \/ (j + 1 \in DOMAIN d /\ d[j + 1].depth <= d[i].depth)

\* LastOf is the end of the subtree.
LEMMA LastIs ==
  ASSUME NEW d \in Seq(Block), NEW i \in DOMAIN d
  PROVE  EndsAt(d, i, LastOf(d, i))
<1>0. /\ Len(d) \in Nat /\ DOMAIN d = 1..Len(d) /\ i \in Nat /\ i <= Len(d) /\ 1 <= i
      /\ \A k \in DOMAIN d : d[k].depth \in Nat
  BY BlocksAre
<1> DEFINE T == {j \in i..Len(d) : \A k \in (i + 1)..j : d[k].depth > d[i].depth}
<1>1. T \in SUBSET Nat /\ i \in T /\ \A j \in T : j <= Len(d)
  BY <1>0
<1>2. PICK j \in T : \A m \in T : m <= j
  BY <1>0, <1>1, Greatest
<1>3. j = Len(d) \/ d[j + 1].depth <= d[i].depth
  <2>1. SUFFICES ASSUME j # Len(d), ~(d[j + 1].depth <= d[i].depth) PROVE FALSE
    OBVIOUS
  <2>0. j \in Nat /\ i <= j /\ j <= Len(d) /\ \A k \in (i + 1)..j : d[k].depth > d[i].depth
    BY <1>0
  <2>2. j + 1 \in i..Len(d) /\ j + 1 \in DOMAIN d
    <3> HIDE DEF T
    <3>1. j \in Nat /\ i <= j /\ j <= Len(d) /\ j # Len(d) /\ Len(d) \in Nat /\ DOMAIN d = 1..Len(d) /\ i \in Nat /\ 1 <= i
      BY <2>0, <2>1, <1>0
    <3> DEFINE z == Len(d)
    <3>2. j \in Nat /\ i <= j /\ j <= z /\ j # z /\ z \in Nat /\ DOMAIN d = 1..z /\ i \in Nat /\ 1 <= i
      BY <3>1, Zenon
    <3> HIDE DEF z
    <3>3. j + 1 \in i..z /\ j + 1 \in 1..z
      BY <3>2
    <3> QED BY <3>3, <3>2, Zenon DEF z
  <2>3. d[j + 1].depth > d[i].depth
    <3> HIDE DEF T
    <3>1. d[j + 1].depth \in Nat /\ d[i].depth \in Nat
      BY <2>2, <1>0
    <3> QED BY <2>1, <3>1
  <2>4. \A k \in (i + 1)..(j + 1) : k \in (i + 1)..j \/ k = j + 1
    <3> HIDE DEF T
    <3> QED BY <2>0, <1>0
  <2>5. j + 1 \in T
    <3>1. \A k \in (i + 1)..(j + 1) : d[k].depth > d[i].depth
      <4> HIDE DEF T
      <4> QED BY <2>0, <2>3, <2>4
    <3> QED BY <2>2, <3>1
  <2> QED BY <2>5, <1>2, <1>0
<1>4. \E l \in i..Len(d) : SelfOrDescendant(d, i, l) /\ (l = Len(d) \/ d[l + 1].depth <= d[i].depth)
  <2>1. SelfOrDescendant(d, i, j)
    BY <1>0 DEF SelfOrDescendant
  <2> QED BY <1>3, <2>1
<1>5. /\ LastOf(d, i) \in i..Len(d) /\ SelfOrDescendant(d, i, LastOf(d, i))
      /\ LastOf(d, i) = Len(d) \/ d[LastOf(d, i) + 1].depth <= d[i].depth
  BY <1>4 DEF LastOf
<1> DEFINE l == LastOf(d, i)
<1> HIDE DEF l
<1>6. l \in i..Len(d) /\ SelfOrDescendant(d, i, l) /\ (l = Len(d) \/ d[l + 1].depth <= d[i].depth)
  BY <1>5 DEF l
<1>7. l \in Nat /\ l \in DOMAIN d /\ (l = Len(d) \/ l + 1 \in DOMAIN d)
  <2> HIDE DEF T
  <2> DEFINE n == Len(d)
  <2>1. n \in Nat /\ DOMAIN d = 1..n /\ l \in i..n
    BY <1>0, <1>6
  <2> HIDE DEF n
  <2>2. l \in Nat /\ l \in 1..n /\ (l = n \/ l + 1 \in 1..n)
    BY <2>1, <1>0
  <2> QED BY <2>1, <2>2, Zenon DEF n
<1>8. EndsAt(d, i, l)
  BY <1>6, <1>7 DEF EndsAt, SelfOrDescendant
<1> QED BY <1>8 DEF l

\* p is the parent of i.
ParentAt(d, i, p) ==
  /\ p \in Nat /\ p < i
  /\ p = 0 => d[i].depth = 0
  /\ p # 0 => /\ p \in DOMAIN d /\ d[i].depth = d[p].depth + 1
              /\ \A k \in (p + 1)..i : d[k].depth > d[p].depth

\* ParentOf is the nearest block above that is one less deep; between the two
\* everything is deeper.
LEMMA ParentIs ==
  ASSUME NEW d, Shape(d), NEW i \in DOMAIN d
  PROVE  ParentAt(d, i, ParentOf(d, i))
<1>0. /\ Len(d) \in Nat /\ DOMAIN d = 1..Len(d) /\ i \in Nat /\ i <= Len(d) /\ 1 <= i
      /\ \A k \in DOMAIN d : d[k].depth \in Nat
  BY BlocksAre DEF Shape
<1>1. CASE d[i].depth = 0
  <2>1. ParentOf(d, i) = 0
    BY <1>1 DEF ParentOf
  <2> QED BY <2>1, <1>1, <1>0 DEF ParentAt
<1>2. CASE d[i].depth # 0
  <2> DEFINE T == {p \in 1..(i - 1) : d[p].depth < d[i].depth}
  <2>1. d[1].depth = 0
    BY <1>0, BlocksAre DEF Shape, Rooted
  <2>2. 1 \in T
    BY <1>0, <1>2, <2>1
  <2>3. T \in SUBSET Nat /\ \A m \in T : m <= i
    BY <1>0
  <2>4. PICK p \in T : \A m \in T : m <= p
    BY <1>0, <2>2, <2>3, Greatest
  <2>5. p \in 1..(i - 1) /\ p \in DOMAIN d /\ p + 1 \in DOMAIN d /\ p \in 1..(Len(d) - 1)
        /\ d[p].depth < d[i].depth
    BY <1>0, <2>4
  <2>6. ASSUME NEW k \in (p + 1)..i PROVE d[k].depth >= d[i].depth
    <3>1. k \in DOMAIN d /\ k \notin T
      BY <1>0, <2>4, <2>5
    <3> QED BY <3>1, <1>0, <2>5
  <2>7. d[p + 1].depth <= d[p].depth + 1
    BY <2>5 DEF Shape, Nested
  <2>8. d[p + 1].depth >= d[i].depth
    BY <2>5, <2>6, <1>0
  <2>9. d[p].depth = d[i].depth - 1 /\ d[i].depth = d[p].depth + 1
    BY <2>5, <2>7, <2>8, <1>0
  <2>10. \A k \in (p + 1)..i : d[k].depth > d[p].depth
    <3>1. ASSUME NEW k \in (p + 1)..i PROVE d[k].depth > d[p].depth
      <4>1. k \in DOMAIN d
        BY <2>5, <1>0
      <4> QED BY <4>1, <2>6, <2>5, <1>0
    <3> QED BY <3>1
  <2>11. SelfOrDescendant(d, p, i)
    BY <2>5, <2>10, <1>0 DEF SelfOrDescendant
  <2>12. ParentOf(d, i) \in 1..(i - 1) /\ d[ParentOf(d, i)].depth = d[i].depth - 1
         /\ SelfOrDescendant(d, ParentOf(d, i), i)
    BY <2>5, <2>9, <2>11, <1>2 DEF ParentOf
  <2> DEFINE q == ParentOf(d, i)
  <2> HIDE DEF q
  <2>13. q \in 1..(i - 1) /\ d[q].depth = d[i].depth - 1 /\ SelfOrDescendant(d, q, i)
    BY <2>12 DEF q
  <2>14. q \in Nat /\ q < i /\ q # 0 /\ q \in DOMAIN d
    BY <2>13, <1>0
  <2>15. d[i].depth = d[q].depth + 1
    BY <2>13, <2>14, <1>0
  <2>16. ParentAt(d, i, q)
    BY <2>13, <2>14, <2>15 DEF ParentAt, SelfOrDescendant
  <2> QED BY <2>16 DEF q
<1> QED BY <1>1, <1>2

\* Between at - 1 and at there is room for a block of depth h.
RoomAt(d, at, h) ==
  /\ at \in Nat /\ 1 <= at /\ at <= Len(d) + 1 /\ h \in Nat
  /\ at = 1 => h = 0
  /\ at > 1 => at - 1 \in DOMAIN d /\ h <= d[at - 1].depth + 1
  /\ at <= Len(d) => at \in DOMAIN d /\ d[at].depth <= h

\* The depth of a child.
LEMMA DepthUnderIs ==
  ASSUME NEW d, Shape(d), NEW p \in 0..Len(d)
  PROVE  DepthUnder(d, p) \in Nat /\ (p # 0 => p \in DOMAIN d /\ DepthUnder(d, p) = d[p].depth + 1)
<1>1. Len(d) \in Nat /\ DOMAIN d = 1..Len(d) /\ \A k \in DOMAIN d : d[k].depth \in Nat
  BY BlocksAre DEF Shape
<1> QED BY <1>1 DEF DepthUnder

\* Slot finds a place for the n-th child of p.
LEMMA SlotIs ==
  ASSUME NEW d, Shape(d), NEW p \in 0..Len(d), NEW n
  PROVE  RoomAt(d, Slot(d, p, n), DepthUnder(d, p)) /\ Slot(d, p, n) > p
<1> DEFINE h == DepthUnder(d, p)
           at == Slot(d, p, n)
<1>0. /\ Len(d) \in Nat /\ DOMAIN d = 1..Len(d) /\ p \in Nat
      /\ \A k \in DOMAIN d : d[k].depth \in Nat
  BY BlocksAre DEF Shape
<1>1. h \in Nat /\ (p # 0 => p \in DOMAIN d /\ h = d[p].depth + 1) /\ (p = 0 => h = 0)
  BY DepthUnderIs DEF DepthUnder
<1>2. CASE \E k \in Children(d, p) : IndexOf(d, k) = n
  <2>1. at \in Children(d, p)
    BY <1>2 DEF Slot
  <2> HIDE DEF at, h
  <2>2. at \in DOMAIN d /\ ParentOf(d, at) = p
    BY <2>1 DEF Children
  <2>3. ParentAt(d, at, p)
    BY <2>2, ParentIs
  <2>4. p < at /\ at \in Nat /\ 1 <= at /\ at <= Len(d) /\ d[at].depth = h
    BY <2>2, <2>3, <1>0, <1>1 DEF ParentAt
  <2>5. at > 1 => at - 1 \in DOMAIN d /\ h <= d[at - 1].depth + 1
    <3>1. SUFFICES ASSUME at > 1 PROVE at - 1 \in DOMAIN d /\ h <= d[at - 1].depth + 1
      OBVIOUS
    <3>2. at - 1 \in DOMAIN d
      BY <3>1, <2>4, <1>0
    <3>3. CASE p = 0
      BY <3>2, <3>3, <1>0, <1>1
    <3>4. CASE p # 0 /\ at - 1 = p
      BY <3>2, <3>4, <1>0, <1>1
    <3>5. CASE p # 0 /\ at - 1 # p
      <4>1. at - 1 \in (p + 1)..at
        BY <3>5, <2>4, <1>0
      <4>2. d[at - 1].depth > d[p].depth /\ p \in DOMAIN d
        BY <4>1, <3>5, <2>3 DEF ParentAt
      <4> QED BY <4>2, <3>2, <3>5, <1>0, <1>1
    <3> QED BY <3>3, <3>4, <3>5
  <2>6. at = 1 => h = 0
    BY <2>4, <1>0, <1>1
  <2>7. RoomAt(d, at, h) /\ at > p
    BY <2>2, <2>4, <2>5, <2>6, <1>0, <1>1 DEF RoomAt
  <2> QED BY <2>7 DEF at, h
<1>3. CASE ~(\E k \in Children(d, p) : IndexOf(d, k) = n)
  <2>1. at = (IF p = 0 THEN Len(d) ELSE LastOf(d, p)) + 1
    BY <1>3, Zenon DEF Slot
  <2> HIDE DEF at, h
  <2>2. CASE p = 0
    <3>1. at = Len(d) + 1 /\ h = 0
      BY <2>1, <2>2, <1>1
    <3>2. at > 1 => at - 1 \in DOMAIN d /\ h <= d[at - 1].depth + 1
      <4>1. at > 1 => at - 1 \in DOMAIN d
        BY <3>1, <1>0
      <4> QED BY <4>1, <3>1, <1>0
    <3>3. RoomAt(d, at, h) /\ at > p
      BY <3>1, <3>2, <2>2, <1>0 DEF RoomAt
    <3> QED BY <3>3 DEF at, h
  <2>3. CASE p # 0
    <3> DEFINE l == LastOf(d, p)
    <3>1. EndsAt(d, p, l)
      BY <2>3, <1>1, LastIs DEF Shape
    <3>2. at = l + 1
      BY <2>1, <2>3
    <3> HIDE DEF l
    <3> DEFINE z == Len(d)
    <3>0. /\ z \in Nat /\ DOMAIN d = 1..z /\ l \in p..z /\ l \in Nat /\ l \in DOMAIN d
          /\ \A k \in (p + 1)..l : d[k].depth > d[p].depth
          /\ l = z \/ (l + 1 \in DOMAIN d /\ d[l + 1].depth <= d[p].depth)
      BY <3>1, <1>0, Zenon DEF EndsAt
    <3> HIDE DEF z
    <3>3. l \in Nat /\ l \in DOMAIN d /\ p <= l /\ l <= z
      BY <3>0, <1>0
    <3>4. d[l].depth >= d[p].depth /\ p \in DOMAIN d
      <4>1. CASE l = p
        BY <4>1, <3>3, <1>0
      <4>2. CASE l # p
        <5>1. l \in (p + 1)..l
          BY <4>2, <3>3, <1>0
        <5>2. d[l].depth > d[p].depth /\ d[l].depth \in Nat /\ d[p].depth \in Nat /\ p \in DOMAIN d
          BY <5>1, <3>0, <2>3, <1>1, <1>0
        <5> QED BY <5>2
      <4> QED BY <4>1, <4>2, <2>3, <1>1, <1>0
    <3>5. at <= z => at \in DOMAIN d /\ d[at].depth <= d[p].depth
      BY <3>0, <3>2, <3>3
    <3>6. at <= z => at \in DOMAIN d /\ d[at].depth <= h
      BY <3>4, <3>5, <2>3, <1>0, <1>1
    <3>7. at > 1 /\ at - 1 \in DOMAIN d /\ h <= d[at - 1].depth + 1
      BY <3>2, <3>3, <3>4, <2>3, <1>0, <1>1
    <3>8. at \in Nat /\ 1 <= at /\ at <= z + 1 /\ at > p
      BY <3>2, <3>3, <3>0, <1>0
    <3>9. RoomAt(d, at, h) /\ at > p
      BY <3>8, <3>6, <3>7, <1>1 DEF RoomAt, z
    <3> QED BY <3>9 DEF at, h
  <2> QED BY <2>2, <2>3
<1> QED BY <1>2, <1>3

(***************************************************************************)
(* Replacing a stretch of an outline.                                      *)
(***************************************************************************)

\* Where position a outside i..j stands once n blocks have replaced i..j.
Place(i, j, n, a) == IF a < i THEN a ELSE i - 1 + n + a - j
Beside(d, i, j) == {a \in DOMAIN d : a < i \/ a > j}

\* What each block of u was, in d or in s, and where each of those went.
Originates(d, i, j, s, u) ==
  /\ \A k \in DOMAIN u :
       \/ \E a \in Beside(d, i, j) : k = Place(i, j, Len(s), a) /\ u[k] = d[a]
       \/ \E m \in DOMAIN s : k = i - 1 + m /\ u[k] = s[m]
  /\ \A a \in Beside(d, i, j) :
       Place(i, j, Len(s), a) \in DOMAIN u /\ u[Place(i, j, Len(s), a)] = d[a]
  /\ \A m \in DOMAIN s : i - 1 + m \in DOMAIN u /\ u[i - 1 + m] = s[m]

\* Where the blocks of a splice come from and go to.
LEMMA Origins ==
  ASSUME NEW S, NEW d \in Seq(S), NEW s \in Seq(S), NEW u,
         NEW i \in Nat, NEW j \in Nat, 1 <= i, i <= j + 1, j <= Len(d), Exchanged(S, d, i, j, s, u)
  PROVE  Originates(d, i, j, s, u)
<1> DEFINE n == Len(d)
           l == Len(s)
           z == Len(u)
<1>1. /\ n \in Nat /\ l \in Nat /\ DOMAIN d = 1..n /\ DOMAIN s = 1..l /\ DOMAIN u = 1..z
      /\ z = (i - 1) + l + (n - j) /\ j <= n
      /\ \A k \in 1..(i - 1) : u[k] = d[k]
      /\ \A k \in 1..l : u[i - 1 + k] = s[k]
      /\ \A k \in (j + 1)..n : u[i - 1 + l + k - j] = d[k]
      /\ \A k \in 1..z : \/ k \in 1..(i - 1)
                         \/ \E m \in 1..l : k = i - 1 + m
                         \/ \E m \in (j + 1)..n : k = i - 1 + l + m - j
  BY DEF Exchanged
<1> HIDE DEF n, l, z
<1>2. ASSUME NEW k \in 1..z
      PROVE  \/ \E a \in Beside(d, i, j) : k = Place(i, j, l, a) /\ u[k] = d[a]
             \/ \E m \in DOMAIN s : k = i - 1 + m /\ u[k] = s[m]
  <2>1. CASE k \in 1..(i - 1)
    <3>1. k \in Beside(d, i, j) /\ k = Place(i, j, l, k) /\ u[k] = d[k]
      BY <2>1, <1>1 DEF Beside, Place
    <3> QED BY <3>1
  <2>2. CASE \E m \in 1..l : k = i - 1 + m
    <3>1. PICK m \in 1..l : k = i - 1 + m
      BY <2>2
    <3>2. m \in DOMAIN s /\ u[k] = s[m]
      BY <3>1, <1>1
    <3> QED BY <3>1, <3>2
  <2>3. CASE \E m \in (j + 1)..n : k = i - 1 + l + m - j
    <3>1. PICK m \in (j + 1)..n : k = i - 1 + l + m - j
      BY <2>3
    <3>2. m \in Beside(d, i, j) /\ k = Place(i, j, l, m)
      BY <3>1, <1>1 DEF Beside, Place
    <3>3. u[k] = d[m]
      BY <3>1, <1>1
    <3> QED BY <3>2, <3>3
  <2> QED BY <2>1, <2>2, <2>3, <1>1
<1>3. ASSUME NEW a \in Beside(d, i, j)
      PROVE  Place(i, j, l, a) \in 1..z /\ u[Place(i, j, l, a)] = d[a]
  <2>0. a \in 1..n /\ (a < i \/ a > j)
    BY <1>1 DEF Beside
  <2>1. CASE a < i
    BY <2>0, <2>1, <1>1 DEF Place
  <2>2. CASE ~(a < i)
    <3>1. a \in (j + 1)..n /\ Place(i, j, l, a) = i - 1 + l + a - j
      BY <2>0, <2>2, <1>1 DEF Place
    <3>2. i - 1 + l + a - j \in 1..z
      BY <3>1, <1>1
    <3> QED BY <3>1, <3>2, <1>1
  <2> QED BY <2>1, <2>2
<1>4. \A m \in 1..l : i - 1 + m \in 1..z /\ u[i - 1 + m] = s[m]
  BY <1>1
<1>5. /\ \A k \in DOMAIN u : \/ \E a \in Beside(d, i, j) : k = Place(i, j, l, a) /\ u[k] = d[a]
                             \/ \E m \in DOMAIN s : k = i - 1 + m /\ u[k] = s[m]
      /\ \A a \in Beside(d, i, j) : Place(i, j, l, a) \in DOMAIN u /\ u[Place(i, j, l, a)] = d[a]
      /\ \A m \in DOMAIN s : i - 1 + m \in DOMAIN u /\ u[i - 1 + m] = s[m]
  BY <1>1, <1>2, <1>3, <1>4
<1> QED BY <1>5 DEF l, Originates

LEMMA ApartBoth ==
  ASSUME NEW x, NEW y, Apart(x, y)
  PROVE  Apart(y, x)
BY DEF Apart

\* What s needs to keep out of, and what must hold beside i..j.
ApartBeside(d, i, j) == \A a, b \in Beside(d, i, j) : a # b => Apart(d[a], d[b])
ApartFrom(d, i, j, s) == \A a \in Beside(d, i, j), m \in DOMAIN s : Apart(d[a], s[m])

\* A splice uses no name twice.
LEMMA SpliceApart ==
  ASSUME NEW S, NEW d \in Seq(S), NEW s \in Seq(S), NEW u,
         NEW i \in Nat, NEW j \in Nat, 1 <= i, i <= j + 1, j <= Len(d), Exchanged(S, d, i, j, s, u),
         ApartBeside(d, i, j), AllApart(s), ApartFrom(d, i, j, s)
  PROVE  AllApart(u)
<1>1. SUFFICES ASSUME NEW k \in DOMAIN u, NEW l \in DOMAIN u, k # l PROVE Apart(u[k], u[l])
  BY DEF AllApart
<1>2. \A e \in DOMAIN u :
        \/ \E a \in Beside(d, i, j) : e = Place(i, j, Len(s), a) /\ u[e] = d[a]
        \/ \E m \in DOMAIN s : e = i - 1 + m /\ u[e] = s[m]
  <2>1. Originates(d, i, j, s, u)
    BY Origins
  <2> QED BY <2>1 DEF Originates
<1>3. CASE \E a \in Beside(d, i, j) : k = Place(i, j, Len(s), a) /\ u[k] = d[a]
  <2>1. PICK a \in Beside(d, i, j) : k = Place(i, j, Len(s), a) /\ u[k] = d[a]
    BY <1>3
  <2>2. CASE \E b \in Beside(d, i, j) : l = Place(i, j, Len(s), b) /\ u[l] = d[b]
    <3>1. PICK b \in Beside(d, i, j) : l = Place(i, j, Len(s), b) /\ u[l] = d[b]
      BY <2>2
    <3>2. a # b
      BY <1>1, <2>1, <3>1
    <3> QED BY <2>1, <3>1, <3>2 DEF ApartBeside
  <2>3. CASE \E m \in DOMAIN s : l = i - 1 + m /\ u[l] = s[m]
    BY <2>1, <2>3 DEF ApartFrom
  <2> QED BY <1>2, <2>2, <2>3
<1>4. CASE \E m \in DOMAIN s : k = i - 1 + m /\ u[k] = s[m]
  <2>1. PICK m \in DOMAIN s : k = i - 1 + m /\ u[k] = s[m]
    BY <1>4
  <2>2. CASE \E b \in Beside(d, i, j) : l = Place(i, j, Len(s), b) /\ u[l] = d[b]
    BY <2>1, <2>2, ApartBoth DEF ApartFrom
  <2>3. CASE \E q \in DOMAIN s : l = i - 1 + q /\ u[l] = s[q]
    <3>1. PICK q \in DOMAIN s : l = i - 1 + q /\ u[l] = s[q]
      BY <2>3
    <3>2. q # m
      BY <1>1, <2>1, <3>1
    <3> QED BY <2>1, <3>1, <3>2 DEF AllApart
  <2> QED BY <1>2, <2>2, <2>3
<1> QED BY <1>2, <1>3, <1>4

\* The depths that meet where s replaces i..j.
Seam(d, i, j, s) ==
  /\ s # <<>> => IF i = 1 THEN s[1].depth = 0 ELSE s[1].depth <= d[i - 1].depth + 1
  /\ j < Len(d) => IF s # <<>> THEN d[j + 1].depth <= s[Len(s)].depth + 1
                   ELSE IF i = 1 THEN d[j + 1].depth = 0 ELSE d[j + 1].depth <= d[i - 1].depth + 1

\* A splice is an outline if the depths meet at both ends of s.
LEMMA SpliceShape ==
  ASSUME NEW d, Shape(d), NEW s \in Seq(Block), NEW u, Nested(s),
         NEW i \in Nat, NEW j \in Nat, 1 <= i, i <= j + 1, j <= Len(d), Exchanged(Block, d, i, j, s, u),
         Seam(d, i, j, s)
  PROVE  Shape(u)
<1> DEFINE n == Len(d)
           l == Len(s)
           z == Len(u)
<1>1. /\ n \in Nat /\ l \in Nat /\ z \in Nat /\ DOMAIN d = 1..n /\ DOMAIN s = 1..l /\ DOMAIN u = 1..z
      /\ (s # <<>>) = (l > 0) /\ (u # <<>>) = (z > 0) /\ (d # <<>>) = (n > 0)
      /\ z = (i - 1) + l + (n - j) /\ j <= n /\ u \in Seq(Block)
      /\ \A k \in 1..(i - 1) : u[k] = d[k]
      /\ \A k \in 1..l : u[i - 1 + k] = s[k]
      /\ \A k \in (j + 1)..n : u[i - 1 + l + k - j] = d[k]
      /\ \A k \in 1..z : \/ k \in 1..(i - 1)
                         \/ \E m \in 1..l : k = i - 1 + m
                         \/ \E m \in (j + 1)..n : k = i - 1 + l + m - j
  BY BlocksAre DEF Exchanged, Shape
<1>2. /\ \A k \in 1..(n - 1) : d[k + 1].depth <= d[k].depth + 1
      /\ \A k \in 1..(l - 1) : s[k + 1].depth <= s[k].depth + 1
      /\ n > 0 => d[1].depth = 0
      /\ l > 0 => IF i = 1 THEN s[1].depth = 0 ELSE s[1].depth <= d[i - 1].depth + 1
      /\ j < n => IF l > 0 THEN d[j + 1].depth <= s[l].depth + 1
                  ELSE IF i = 1 THEN d[j + 1].depth = 0 ELSE d[j + 1].depth <= d[i - 1].depth + 1
  BY <1>1 DEF Shape, Nested, Rooted, Seam
<1> HIDE DEF n, l, z
<1>3. z > 0 => u[1].depth = 0
  <2>1. CASE i > 1
    BY <2>1, <1>1, <1>2
  <2>2. CASE i = 1 /\ l > 0
    <3>1. 1 \in 1..l /\ i - 1 + 1 = 1
      BY <2>2, <1>1
    <3>2. u[1] = s[1]
      BY <3>1, <1>1
    <3> QED BY <3>2, <2>2, <1>2
  <2>3. CASE i = 1 /\ l = 0
    <3>0. SUFFICES ASSUME z > 0 PROVE u[1].depth = 0
      OBVIOUS
    <3>1. j + 1 \in (j + 1)..n /\ i - 1 + l + (j + 1) - j = 1 /\ j < n
      BY <3>0, <2>3, <1>1
    <3>2. u[1] = d[j + 1]
      BY <3>1, <1>1
    <3> QED BY <3>1, <3>2, <2>3, <1>2
  <2> QED BY <2>1, <2>2, <2>3, <1>1
<1>4. ASSUME NEW k \in 1..(z - 1)
      PROVE  u[k + 1].depth <= u[k].depth + 1
  <2>0. k \in 1..z /\ k + 1 \in 1..z /\ k \in Nat
    BY <1>1
  <2>1. CASE k + 1 < i
    <3>1. k \in 1..(i - 1) /\ k + 1 \in 1..(i - 1) /\ k \in 1..(n - 1)
      BY <2>0, <2>1, <1>1
    <3> QED BY <3>1, <1>1, <1>2
  <2>2. CASE k + 1 = i /\ l > 0
    <3>1. k \in 1..(i - 1) /\ 1 \in 1..l /\ k + 1 = i - 1 + 1 /\ k = i - 1 /\ i # 1
      BY <2>0, <2>2, <1>1
    <3>2. u[k] = d[i - 1] /\ u[k + 1] = s[1]
      BY <3>1, <1>1
    <3> QED BY <3>1, <3>2, <2>2, <1>2
  <2>3. CASE k + 1 = i /\ l = 0
    <3>1. k \in 1..(i - 1) /\ j + 1 \in (j + 1)..n /\ k + 1 = i - 1 + l + (j + 1) - j /\ k = i - 1 /\ i # 1 /\ j < n
      BY <2>0, <2>3, <1>1
    <3>2. u[k] = d[i - 1] /\ u[k + 1] = d[j + 1]
      BY <3>1, <1>1
    <3> QED BY <3>1, <3>2, <2>3, <1>2
  <2>4. CASE k >= i /\ k - i + 1 < l
    <3>1. k - i + 1 \in 1..l /\ k - i + 2 \in 1..l /\ k - i + 1 \in 1..(l - 1)
          /\ k = i - 1 + (k - i + 1) /\ k + 1 = i - 1 + (k - i + 2) /\ k - i + 2 = (k - i + 1) + 1
      BY <2>0, <2>4, <1>1
    <3>2. u[k] = s[k - i + 1] /\ u[k + 1] = s[k - i + 2]
      BY <3>1, <1>1
    <3> QED BY <3>1, <3>2, <1>2
  <2>5. CASE k >= i /\ k - i + 1 = l
    <3>1. l \in 1..l /\ l > 0 /\ k = i - 1 + l /\ j + 1 \in (j + 1)..n /\ k + 1 = i - 1 + l + (j + 1) - j /\ j < n
      BY <2>0, <2>5, <1>1
    <3>2. u[k] = s[l] /\ u[k + 1] = d[j + 1]
      BY <3>1, <1>1
    <3> QED BY <3>1, <3>2, <1>2
  <2>6. CASE k >= i /\ k - i + 1 > l
    <3> DEFINE q == k - (i - 1) - l + j
    <3>1. q \in (j + 1)..n /\ q + 1 \in (j + 1)..n /\ q \in 1..(n - 1)
          /\ k = i - 1 + l + q - j /\ k + 1 = i - 1 + l + (q + 1) - j
      BY <2>0, <2>6, <1>1
    <3> HIDE DEF q
    <3>2. u[k] = d[q] /\ u[k + 1] = d[q + 1]
      BY <3>1, <1>1
    <3> QED BY <3>1, <3>2, <1>2
  <2> QED BY <2>0, <2>1, <2>2, <2>3, <2>4, <2>5, <2>6, <1>1
<1>5. Rooted(u)
  BY <1>1, <1>3 DEF Rooted
<1>6. Nested(u)
  BY <1>4 DEF Nested, z
<1> QED BY <1>1, <1>5, <1>6 DEF Shape

(***************************************************************************)
(* Documents, and what an operation leaves of them.                        *)
(***************************************************************************)

\* A document, or the empty outline.
Tree(d, n, c) == Shape(d) /\ AllApart(d) /\ \A i \in DOMAIN d : Sound(d[i], n, c)

LEMMA DocIs ==
  ASSUME NEW d, NEW n, NEW c
  PROVE  Doc(d, n, c) <=> Tree(d, n, c) /\ d # <<>>
BY DEF Doc, Tree, Shape

\* What a sound block is.
LEMMA SoundIs ==
  ASSUME NEW b, NEW n \in Nat, NEW c \in Nat, Sound(b, n, c)
  PROVE  /\ b \in Block /\ b.id \in Nat /\ b.id # 0 /\ b.id < n /\ b.depth \in Nat
         /\ b.text \in Text /\ b.rich \in BOOLEAN /\ b.kind \in Kinds /\ b.attr \in Word
         /\ Distinct(b.text) /\ Names(b.text) \subseteq Nat /\ \A x \in Names(b.text) : x < c
         /\ (HasInline(b.kind) => b.rich) /\ (b.text # <<>> => b.rich)
<1>1. b \in Block
  BY DEF Sound
<1>2. b.text \in Text
  BY <1>1, BlockIs
<1>3. Names(b.text) \subseteq Nat
  BY <1>2, TextIs DEF Names
<1> QED BY <1>1, <1>3, BlockIs DEF Sound

\* A block that stands below n and c stands below any greater bounds; so do
\* outlines and documents.
LEMMA SoundLater ==
  ASSUME NEW b, NEW n \in Nat, NEW c \in Nat, NEW n1 \in Nat, NEW c1 \in Nat,
         n <= n1, c <= c1, Sound(b, n, c)
  PROVE  Sound(b, n1, c1)
<1>1. /\ b \in Block /\ b.id \in Nat /\ b.id < n
      /\ Names(b.text) \subseteq Nat /\ \A x \in Names(b.text) : x < c
  BY SoundIs
<1>2. b.id < n1 /\ \A x \in Names(b.text) : x < c1
  BY <1>1
<1> QED BY <1>2 DEF Sound

LEMMA TreeLater ==
  ASSUME NEW d, NEW n \in Nat, NEW c \in Nat, NEW n1 \in Nat, NEW c1 \in Nat,
         n <= n1, c <= c1, Tree(d, n, c)
  PROVE  Tree(d, n1, c1)
<1>1. \A i \in DOMAIN d : Sound(d[i], n1, c1)
  BY SoundLater DEF Tree
<1> QED BY <1>1 DEF Tree

LEMMA DocLater ==
  ASSUME NEW d, NEW n \in Nat, NEW c \in Nat, NEW n1 \in Nat, NEW c1 \in Nat,
         n <= n1, c <= c1, Doc(d, n, c)
  PROVE  Doc(d, n1, c1)
BY DocIs, TreeLater

\* Every block of u is new (named from n on) or was in d, where it had no text
\* container that it has lost and was inline if it is; there its text, too, if it is
\* not the block id.
Old(b, x, id) ==
  /\ x.id = b.id /\ (b.id # id => x.text = b.text)
  /\ (x.rich => b.rich) /\ (HasInline(b.kind) => HasInline(x.kind))
Stems(u, d, n, id) ==
  \A k \in DOMAIN u : u[k].id >= n \/ \E j \in DOMAIN d : Old(u[k], d[j], id)

\* The identity leaves everything as it was; two such operations in a row are
\* one.
LEMMA StemsSame ==
  ASSUME NEW d, NEW n, NEW id
  PROVE  Stems(d, d, n, id)
BY DEF Stems, Old

LEMMA StemsTwice ==
  ASSUME NEW d, NEW u, NEW v, NEW n, NEW id, Stems(u, d, n, id), Stems(v, u, n, id)
  PROVE  Stems(v, d, n, id)
<1> SUFFICES ASSUME NEW k \in DOMAIN v, ~(v[k].id >= n)
             PROVE  \E j \in DOMAIN d : Old(v[k], d[j], id)
  BY DEF Stems
<1>1. PICK j \in DOMAIN u : Old(v[k], u[j], id)
  BY DEF Stems
<1>2. ~(u[j].id >= n)
  BY <1>1 DEF Old
<1>3. PICK i \in DOMAIN d : Old(u[j], d[i], id)
  BY <1>2 DEF Stems
<1>4. Old(v[k], d[i], id)
  BY <1>1, <1>3 DEF Old
<1> QED BY <1>4

\* s can take the place of i..j in d.
Fitting(d, i, j, s, n, c) ==
  /\ Shape(d) /\ s \in Seq(Block) /\ Nested(s)
  /\ i \in Nat /\ j \in Nat /\ 1 <= i /\ i <= j + 1 /\ j <= Len(d) /\ Seam(d, i, j, s)
  /\ ApartBeside(d, i, j) /\ AllApart(s) /\ ApartFrom(d, i, j, s)
  /\ \A a \in Beside(d, i, j) : Sound(d[a], n, c)
  /\ \A m \in DOMAIN s : Sound(s[m], n, c)

\* A splice that fits is a tree.
LEMMA SpliceTree ==
  ASSUME NEW d, NEW i, NEW j, NEW s, NEW n, NEW c, Fitting(d, i, j, s, n, c)
  PROVE  /\ Tree(Splice(d, i, j, s), n, c)
         /\ Originates(d, i, j, s, Splice(d, i, j, s))
         /\ Len(Splice(d, i, j, s)) = (i - 1) + Len(s) + (Len(d) - j)
         /\ Exchanged(Block, d, i, j, s, Splice(d, i, j, s))
<1> DEFINE u == Splice(d, i, j, s)
<1>1. /\ Shape(d) /\ d \in Seq(Block) /\ s \in Seq(Block) /\ Nested(s)
      /\ i \in Nat /\ j \in Nat /\ 1 <= i /\ i <= j + 1 /\ j <= Len(d)
      /\ Seam(d, i, j, s)
  BY DEF Fitting, Shape
<1>2. Exchanged(Block, d, i, j, s, u)
  BY <1>1, Spliced
<1> HIDE DEF u
<1>3. Originates(d, i, j, s, u)
  BY <1>1, <1>2, Origins
<1>4. Shape(u)
  BY <1>1, <1>2, SpliceShape
<1>5. AllApart(u)
  BY <1>1, <1>2, SpliceApart DEF Fitting
<1>6. ASSUME NEW k \in DOMAIN u PROVE Sound(u[k], n, c)
  BY <1>3 DEF Originates, Fitting
<1>7. Tree(u, n, c)
  BY <1>4, <1>5, <1>6 DEF Tree
<1>8. Len(u) = (i - 1) + Len(s) + (Len(d) - j)
  BY <1>2 DEF Exchanged
<1> QED BY <1>2, <1>3, <1>7, <1>8 DEF u

\* A block is put in the place of another at the same depth.
Swapped(d, i, b, u) ==
  /\ Len(u) = Len(d) /\ DOMAIN u = DOMAIN d /\ u[i] = b
  /\ \A k \in DOMAIN d : k # i => u[k] = d[k]
  /\ \A k \in DOMAIN d : u[k].depth = d[k].depth /\ (b.id = d[i].id => u[k].id = d[k].id)

LEMMA SwapShape ==
  ASSUME NEW d, Shape(d), NEW i \in DOMAIN d, NEW b \in Block, b.depth = d[i].depth, NEW u, u = [d EXCEPT ![i] = b]
  PROVE  Shape(u) /\ Swapped(d, i, b, u)
<1> DEFINE n == Len(d)
<1>1. /\ n \in Nat /\ DOMAIN d = 1..n /\ d \in [1..n -> Block] /\ d # <<>> /\ n > 0
      /\ d[1].depth = 0
  BY BlocksAre, SeqIs DEF Shape, Rooted
<1> HIDE DEF n
<1>2. u \in [1..n -> Block] /\ u[i] = b /\ \A k \in 1..n : k # i => u[k] = d[k]
  BY <1>1
<1>3. u \in Seq(Block) /\ Len(u) = n /\ DOMAIN u = 1..n
  BY <1>1, <1>2, FcnIsSeq
<1>4. \A k \in 1..n : u[k].depth = d[k].depth
  BY <1>2
<1>5. Rooted(u)
  BY <1>1, <1>4 DEF Rooted
<1>6. Nested(u)
  <2>1. SUFFICES ASSUME NEW k \in 1..(n - 1) PROVE u[k + 1].depth <= u[k].depth + 1
    BY <1>3 DEF Nested
  <2>2. k \in 1..n /\ k + 1 \in 1..n /\ d[k + 1].depth <= d[k].depth + 1
    BY <1>1 DEF Shape, Nested, n
  <2> QED BY <2>2, <1>4
<1>7. Swapped(d, i, b, u)
  BY <1>1, <1>2, <1>3, <1>4 DEF Swapped, n
<1> QED BY <1>3, <1>5, <1>6, <1>7 DEF Shape

\* A block may be exchanged for one of the same id and depth.
LEMMA SwapTree ==
  ASSUME NEW n \in Nat, NEW c \in Nat, NEW d, Tree(d, n, c), NEW i \in DOMAIN d,
         NEW b, Sound(b, n, c), b.depth = d[i].depth, b.id = d[i].id,
         \A k \in DOMAIN d : k # i => Names(d[k].text) \cap Names(b.text) = {},
         NEW u, u = [d EXCEPT ![i] = b]
  PROVE  /\ Tree(u, n, c) /\ Swapped(d, i, b, u)
         /\ (d[i].rich => b.rich) /\ b.kind = d[i].kind => Stems(u, d, n, b.id)
<1>0. b \in Block
  BY DEF Sound
<1>1. /\ Shape(u) /\ Len(u) = Len(d) /\ DOMAIN u = DOMAIN d /\ u[i] = b
      /\ \A k \in DOMAIN d : k # i => u[k] = d[k]
      /\ \A k \in DOMAIN d : u[k].depth = d[k].depth
  <2>1. Shape(u) /\ Swapped(d, i, b, u)
    BY <1>0, SwapShape DEF Tree
  <2> QED BY <2>1 DEF Swapped
<1>2. \A k \in DOMAIN d : u[k].id = d[k].id
  BY <1>1
<1>3. ASSUME NEW k \in DOMAIN d, NEW l \in DOMAIN d, k # l PROVE Apart(u[k], u[l])
  <2>1. Apart(d[k], d[l])
    BY <1>3 DEF Tree, AllApart
  <2>2. u[k].id # u[l].id
    BY <2>1, <1>2 DEF Apart
  <2>3. Names(u[k].text) \cap Names(u[l].text) = {}
    <3>1. CASE k = i
      BY <3>1, <1>1, <1>3
    <3>2. CASE l = i
      BY <3>2, <1>1, <1>3
    <3>3. CASE k # i /\ l # i
      BY <3>3, <1>1, <2>1 DEF Apart
    <3> QED BY <3>1, <3>2, <3>3
  <2> QED BY <2>2, <2>3 DEF Apart
<1>4. AllApart(u)
  BY <1>1, <1>3 DEF AllApart
<1>5. \A k \in DOMAIN u : Sound(u[k], n, c)
  BY <1>1 DEF Tree
<1>6. Tree(u, n, c)
  BY <1>1, <1>4, <1>5 DEF Tree
<1>7. (d[i].rich => b.rich) /\ b.kind = d[i].kind => Stems(u, d, n, b.id)
  <2>1. SUFFICES ASSUME d[i].rich => b.rich, b.kind = d[i].kind, NEW k \in DOMAIN d
                 PROVE  Old(u[k], d[k], b.id)
    BY <1>1 DEF Stems
  <2>2. CASE k = i
    BY <2>1, <2>2, <1>1 DEF Old
  <2>3. CASE k # i
    BY <2>3, <1>1 DEF Old
  <2> QED BY <2>2, <2>3
<1>8. Swapped(d, i, b, u)
  BY <1>1, <1>2 DEF Swapped
<1> QED BY <1>6, <1>7, <1>8

(***************************************************************************)
(* Operations on one block.                                                *)
(***************************************************************************)

\* The block of an id that is there.
LEMMA BlockOfIs ==
  ASSUME NEW n \in Nat, NEW c \in Nat, NEW d, Tree(d, n, c), NEW id, Has(d, id)
  PROVE  /\ At(d, id) \in DOMAIN d /\ BlockOf(d, id) = d[At(d, id)] /\ BlockOf(d, id).id = id
         /\ Sound(BlockOf(d, id), n, c) /\ BlockOf(d, id).text \in Text
         /\ TextLen(d, id) = Len(BlockOf(d, id).text) /\ TextLen(d, id) \in Nat
         /\ id \in Nat /\ id < n /\ id # 0
<1>1. At(d, id) \in DOMAIN d /\ BlockOf(d, id) = d[At(d, id)] /\ BlockOf(d, id).id = id
  BY HasIs DEF BlockOf
<1>2. Sound(BlockOf(d, id), n, c)
  BY <1>1 DEF Tree
<1>3. BlockOf(d, id).text \in Text /\ id \in Nat /\ id < n /\ id # 0
  BY <1>1, <1>2, SoundIs
<1>4. TextLen(d, id) = Len(BlockOf(d, id).text) /\ TextLen(d, id) \in Nat
  BY <1>3, TextIs DEF TextLen
<1> QED BY <1>1, <1>2, <1>3, <1>4

LEMMA TextLenIs ==
  ASSUME NEW n \in Nat, NEW c \in Nat, NEW d, Tree(d, n, c), NEW id
  PROVE  TextLen(d, id) \in Nat
<1>1. CASE Has(d, id)
  BY <1>1, BlockOfIs
<1>2. CASE ~Has(d, id)
  BY <1>2 DEF TextLen
<1> QED BY <1>1, <1>2

\* A block that is there is the one its id finds.
LEMMA Standing ==
  ASSUME NEW d, AllApart(d), NEW i \in DOMAIN d
  PROVE  Has(d, d[i].id) /\ BlockOf(d, d[i].id) = d[i] /\ TextLen(d, d[i].id) = Len(d[i].text)
BY AtIs DEF BlockOf, TextLen

\* u is d with t for the text of block id.
Retexted(d, id, t, u) ==
  /\ Has(u, id) /\ BlockOf(u, id) = [BlockOf(d, id) EXCEPT !.text = t] /\ TextLen(u, id) = Len(t)
  /\ Swapped(d, At(d, id), [BlockOf(d, id) EXCEPT !.text = t], u)

\* A block's text may be set to one that takes its names from the old text and
\* from M, if no other block uses M.
LEMMA SetTextIs ==
  ASSUME NEW n \in Nat, NEW c \in Nat, NEW c1 \in Nat, c <= c1, NEW d, Tree(d, n, c), NEW id, Has(d, id),
         NEW t, NEW M, \A x \in M : x < c1,
         \A k \in DOMAIN d : k # At(d, id) => Names(d[k].text) \cap M = {},
         Spells(t, Names(BlockOf(d, id).text) \cup M), t # <<>> => BlockOf(d, id).rich
  PROVE  /\ Tree(SetText(d, id, t), n, c1) /\ Stems(SetText(d, id, t), d, n, id)
         /\ Retexted(d, id, t, SetText(d, id, t))
<1> DEFINE i == At(d, id)
           b == [d[i] EXCEPT !.text = t]
           u == SetText(d, id, t)
<1>1. /\ i \in DOMAIN d /\ BlockOf(d, id) = d[i] /\ d[i].id = id /\ Sound(d[i], n, c)
  BY BlockOfIs
<1>2. u = [d EXCEPT ![i] = b]
  BY DEF SetText
<1>3. d[i] \in Block /\ \A x \in Names(d[i].text) : x \in Nat /\ x < c
  BY <1>1, SoundIs
<1>4. b \in Block /\ b.id = id /\ b.depth = d[i].depth /\ b.rich = d[i].rich /\ b.text = t /\ b.kind = d[i].kind
  BY <1>1, <1>3 DEF Spells, Block, Text
<1>5. Tree(d, n, c1)
  BY TreeLater
<1>6. Sound(b, n, c1)
  <2>1. \A x \in Names(t) : x < c1
    BY <1>1, <1>3 DEF Spells
  <2>2. Distinct(t) /\ b.id < n /\ (HasInline(b.kind) => b.rich) /\ (b.text # <<>> => b.rich)
    BY <1>1, <1>4, SoundIs DEF Spells
  <2> QED BY <2>1, <2>2, <1>4 DEF Sound
<1>7. ASSUME NEW k \in DOMAIN d, k # i PROVE Names(d[k].text) \cap Names(b.text) = {}
  <2>1. Names(d[k].text) \cap Names(d[i].text) = {}
    BY <1>1, <1>7 DEF Tree, AllApart, Apart
  <2>3. Names(d[k].text) \cap M = {}
    BY <1>7
  <2>4. Names(b.text) \subseteq Names(d[i].text) \cup M
    BY <1>1, <1>4 DEF Spells
  <2> QED BY <2>1, <2>3, <2>4
<1> HIDE DEF u, b
<1>8. Tree(u, n, c1) /\ Swapped(d, i, b, u) /\ Stems(u, d, n, id)
  BY <1>1, <1>2, <1>4, <1>5, <1>6, <1>7, SwapTree
<1>9. i \in DOMAIN u /\ u[i] = b /\ u[i].id = id
  BY <1>1, <1>4, <1>8 DEF Swapped
<1>10. Has(u, id) /\ BlockOf(u, id) = b /\ TextLen(u, id) = Len(t)
  BY <1>4, <1>8, <1>9, Standing DEF Tree
<1>11. Retexted(d, id, t, u)
  BY <1>1, <1>8, <1>10 DEF Retexted, b
<1> QED BY <1>8, <1>11 DEF u

\* The same, with no names but the old ones.
LEMMA RetextIs ==
  ASSUME NEW n \in Nat, NEW c \in Nat, NEW d, Tree(d, n, c), NEW id, Has(d, id),
         NEW t, Spells(t, Names(BlockOf(d, id).text)), t # <<>> => BlockOf(d, id).rich
  PROVE  /\ Tree(SetText(d, id, t), n, c) /\ Stems(SetText(d, id, t), d, n, id)
         /\ Retexted(d, id, t, SetText(d, id, t))
<1> DEFINE M == {}
<1>1. /\ Spells(t, Names(BlockOf(d, id).text) \cup M) /\ c <= c /\ \A y \in M : y < c
      /\ \A k \in DOMAIN d : k # At(d, id) => Names(d[k].text) \cap M = {}
  OBVIOUS
<1> HIDE DEF M
<1> QED BY <1>1, SetTextIs

\* A block may be given any kind; an inline one, if it has been inline.
LEMMA SetKindIs ==
  ASSUME NEW n \in Nat, NEW c \in Nat, NEW d, Tree(d, n, c), NEW id, Has(d, id),
         NEW kind \in Kinds, NEW attr \in Word, HasInline(kind) => HasInline(BlockOf(d, id).kind)
  PROVE  /\ Tree(SetKind(d, id, kind, attr), n, c) /\ Len(SetKind(d, id, kind, attr)) = Len(d)
         /\ \A z : Stems(SetKind(d, id, kind, attr), d, n, z)
<1> DEFINE i == At(d, id)
           b == [d[i] EXCEPT !.kind = kind, !.attr = attr, !.rich = d[i].rich \/ HasInline(kind)]
           u == SetKind(d, id, kind, attr)
<1>0. At(d, id) \in DOMAIN d /\ BlockOf(d, id) = d[At(d, id)] /\ BlockOf(d, id).id = id /\ Sound(BlockOf(d, id), n, c)
  BY BlockOfIs
<1>1. /\ i \in DOMAIN d /\ BlockOf(d, id) = d[i] /\ d[i].id = id /\ Sound(d[i], n, c)
  BY <1>0
<1>2. u = [d EXCEPT ![i] = b]
  BY <1>1 DEF SetKind
<1>3. d[i] \in Block /\ d[i].rich \in BOOLEAN
  BY <1>1, SoundIs
<1>4. (d[i].rich \/ HasInline(kind)) = d[i].rich
  BY <1>1, <1>3, SoundIs
<1>5. b = [d[i] EXCEPT !.kind = kind, !.attr = attr]
  BY <1>3, <1>4 DEF Block
<1> HIDE DEF b
<1>6. b \in Block /\ b.id = d[i].id /\ b.depth = d[i].depth /\ b.rich = d[i].rich /\ b.text = d[i].text /\ b.kind = kind
  BY <1>3, <1>5 DEF Block
<1>7. Sound(b, n, c)
  BY <1>1, <1>6, SoundIs DEF Sound
<1>8. ASSUME NEW k \in DOMAIN d, k # i PROVE Names(d[k].text) \cap Names(b.text) = {}
  BY <1>1, <1>6, <1>8 DEF Tree, AllApart, Apart
<1> HIDE DEF u
<1>9. Tree(u, n, c) /\ Swapped(d, i, b, u)
  BY <1>1, <1>2, <1>6, <1>7, <1>8, SwapTree
<1>10. Len(u) = Len(d)
  BY <1>9 DEF Swapped
<1>11. ASSUME NEW z PROVE Stems(u, d, n, z)
  <2>1. SUFFICES ASSUME NEW k \in DOMAIN d PROVE Old(u[k], d[k], z)
    BY <1>9 DEF Stems, Swapped
  <2>2. CASE k = i
    BY <2>2, <1>1, <1>6, <1>9 DEF Swapped, Old
  <2>3. CASE k # i
    BY <2>3, <1>9 DEF Swapped, Old
  <2> QED BY <2>2, <2>3
<1> QED BY <1>9, <1>10, <1>11 DEF u

\* A block that is given a text container, if it has none, is there as before.
Ensured(d, id, n, c, u) ==
  /\ Tree(u, n, c) /\ Stems(u, d, n, id) /\ Has(u, id)
  /\ BlockOf(u, id).rich = TRUE /\ BlockOf(u, id).text = BlockOf(d, id).text

LEMMA EnsureTextIs ==
  ASSUME NEW n \in Nat, NEW c \in Nat, NEW d, Tree(d, n, c), NEW id, Has(d, id)
  PROVE  Ensured(d, id, n, c, EnsureText(d, id))
<1> DEFINE i == At(d, id)
           b == [d[i] EXCEPT !.rich = TRUE]
           u == EnsureText(d, id)
<1>1. /\ i \in DOMAIN d /\ BlockOf(d, id) = d[i] /\ d[i].id = id /\ Sound(d[i], n, c) /\ d[i] \in Block
  <2>1. At(d, id) \in DOMAIN d /\ BlockOf(d, id) = d[At(d, id)] /\ BlockOf(d, id).id = id /\ Sound(BlockOf(d, id), n, c)
    BY BlockOfIs
  <2> QED BY <2>1, SoundIs
<1>2. u = [d EXCEPT ![i] = b]
  BY DEF EnsureText
<1>3. /\ b \in Block /\ b.id = d[i].id /\ b.depth = d[i].depth /\ b.rich = TRUE /\ b.text = d[i].text
      /\ b.kind = d[i].kind
  BY <1>1 DEF Block
<1> HIDE DEF b
<1>4. Sound(b, n, c)
  BY <1>1, <1>3, SoundIs DEF Sound
<1>5. ASSUME NEW k \in DOMAIN d, k # i PROVE Names(d[k].text) \cap Names(b.text) = {}
  BY <1>1, <1>3, <1>5 DEF Tree, AllApart, Apart
<1> HIDE DEF u
<1>6. Tree(u, n, c) /\ Swapped(d, i, b, u) /\ Stems(u, d, n, id)
  <2>1. \A k \in DOMAIN d : k # i => Names(d[k].text) \cap Names(b.text) = {}
    BY <1>5
  <2>2. i \in DOMAIN d /\ b.depth = d[i].depth /\ b.id = d[i].id
    BY <1>1, <1>3
  <2> HIDE DEF i
  <2>3. Tree(u, n, c) /\ Swapped(d, i, b, u) /\ ((d[i].rich => b.rich) /\ b.kind = d[i].kind => Stems(u, d, n, b.id))
    BY <1>2, <1>4, <2>1, <2>2, SwapTree
  <2>4. (d[i].rich => b.rich) /\ b.kind = d[i].kind /\ b.id = id
    BY <1>1, <1>3
  <2> QED BY <2>3, <2>4
<1>7. i \in DOMAIN u /\ u[i] = b
  BY <1>1, <1>6 DEF Swapped
<1>8. Has(u, id) /\ BlockOf(u, id) = b
  BY <1>1, <1>3, <1>6, <1>7, Standing DEF Tree
<1> QED BY <1>1, <1>3, <1>6, <1>8 DEF Ensured, u

\* What the command attr.set makes of a document.
Attributed(d, id, attr) == [d EXCEPT ![At(d, id)].attr = attr]

LEMMA SetAttrIs ==
  ASSUME NEW n \in Nat, NEW c \in Nat, NEW d, Tree(d, n, c), NEW id, Has(d, id), NEW attr \in Word
  PROVE  /\ Tree(Attributed(d, id, attr), n, c)
         /\ Len(Attributed(d, id, attr)) = Len(d)
         /\ \A z : Stems(Attributed(d, id, attr), d, n, z)
<1> DEFINE i == At(d, id)
           b == [d[i] EXCEPT !.attr = attr]
           u == Attributed(d, id, attr)
<1>1. /\ i \in DOMAIN d /\ d[i].id = id /\ Sound(d[i], n, c) /\ d[i] \in Block
  BY BlockOfIs, SoundIs
<1>2. u = [d EXCEPT ![i] = b]
  BY DEF Attributed
<1>6. b \in Block /\ b.id = d[i].id /\ b.depth = d[i].depth /\ b.rich = d[i].rich /\ b.text = d[i].text /\ b.kind = d[i].kind
  BY <1>1 DEF Block
<1> HIDE DEF b
<1>7. Sound(b, n, c)
  BY <1>1, <1>6, SoundIs DEF Sound
<1>8. ASSUME NEW k \in DOMAIN d, k # i PROVE Names(d[k].text) \cap Names(b.text) = {}
  BY <1>1, <1>6, <1>8 DEF Tree, AllApart, Apart
<1> HIDE DEF u
<1>9. Tree(u, n, c) /\ Swapped(d, i, b, u)
  BY <1>1, <1>2, <1>6, <1>7, <1>8, SwapTree
<1>10. Len(u) = Len(d)
  BY <1>9 DEF Swapped
<1>11. ASSUME NEW z PROVE Stems(u, d, n, z)
  <2>1. SUFFICES ASSUME NEW k \in DOMAIN d PROVE Old(u[k], d[k], z)
    BY <1>9 DEF Stems, Swapped
  <2>2. CASE k = i
    BY <2>2, <1>6, <1>9 DEF Swapped, Old
  <2>3. CASE k # i
    BY <2>3, <1>9 DEF Swapped, Old
  <2> QED BY <2>2, <2>3
<1> QED BY <1>9, <1>10, <1>11 DEF u

(***************************************************************************)
(* Inserting, splitting, deleting and moving blocks.                       *)
(***************************************************************************)

\* s is the stretch a..b of d, with by added to every depth.
Shifted(d, a, b, by, s) ==
  /\ s \in Seq(Block) /\ Len(s) = (IF a <= b THEN b - a + 1 ELSE 0) /\ Len(s) \in Nat /\ DOMAIN s = 1..Len(s)
  /\ \A k \in 1..Len(s) :
       /\ a + k - 1 \in a..b /\ a + k - 1 \in DOMAIN d
       /\ s[k].depth = d[a + k - 1].depth + by /\ s[k].id = d[a + k - 1].id
       /\ s[k].text = d[a + k - 1].text /\ s[k].rich = d[a + k - 1].rich /\ s[k].kind = d[a + k - 1].kind
  /\ s # <<>> => Len(s) > 0 /\ a <= b

\* Shift moves the depths of a stretch.
LEMMA ShiftIs ==
  ASSUME NEW d, Shape(d), NEW a \in Nat, 1 <= a, NEW b \in Nat, b <= Len(d), NEW by \in Int,
         \A k \in a..b : d[k].depth + by \in Nat
  PROVE  Shifted(d, a, b, by, Shift(SubSeq(d, a, b), by)) /\ Nested(Shift(SubSeq(d, a, b), by))
<1> DEFINE p == SubSeq(d, a, b)
           s == Shift(p, by)
           n == Len(p)
           z == Len(d)
<1>1. d \in Seq(Block)
  BY DEF Shape
<1>2. Portion(Block, d, a, b, p)
  BY <1>1, PortionIs
<1>3. /\ p \in Seq(Block) /\ n = (IF a <= b THEN b - a + 1 ELSE 0) /\ n \in Nat /\ DOMAIN p = 1..n
      /\ z \in Nat /\ DOMAIN d = 1..z /\ b <= z
      /\ \A k \in 1..n : p[k] = d[a + k - 1] /\ a + k - 1 \in a..b
  BY <1>2 DEF Portion
<1> HIDE DEF p, z
<1>4. s = [k \in 1..n |-> [p[k] EXCEPT !.depth = p[k].depth + by]]
  BY <1>3 DEF Shift
<1> HIDE DEF n, s
<1>5. ASSUME NEW k \in 1..n
      PROVE  /\ a + k - 1 \in DOMAIN d /\ a + k - 1 \in a..b /\ p[k] = d[a + k - 1] /\ d[a + k - 1] \in Block
             /\ s[k] = [d[a + k - 1] EXCEPT !.depth = d[a + k - 1].depth + by] /\ s[k] \in Block
  <2>1. a + k - 1 \in a..b /\ p[k] = d[a + k - 1] /\ a + k - 1 \in 1..z
    BY <1>3
  <2>2. d[a + k - 1] \in Block /\ d[a + k - 1].depth + by \in Nat
    BY <2>1, <1>1, <1>3, BlocksAre
  <2>3. s[k] = [d[a + k - 1] EXCEPT !.depth = d[a + k - 1].depth + by]
    BY <1>4, <2>1
  <2>4. s[k] \in Block
    BY <2>2, <2>3 DEF Block
  <2> QED BY <2>1, <2>2, <2>3, <2>4, <1>3
<1>6. s \in [1..n -> Block]
  BY <1>4, <1>5
<1>7. s \in Seq(Block) /\ Len(s) = n /\ DOMAIN s = 1..n
  BY <1>3, <1>6, FcnIsSeq
<1>8. \A k \in 1..n :
       /\ a + k - 1 \in a..b /\ a + k - 1 \in DOMAIN d
       /\ s[k].depth = d[a + k - 1].depth + by /\ s[k].id = d[a + k - 1].id
       /\ s[k].text = d[a + k - 1].text /\ s[k].rich = d[a + k - 1].rich /\ s[k].kind = d[a + k - 1].kind
  BY <1>5 DEF Block
<1>9. s # <<>> => n > 0 /\ a <= b
  BY <1>3, <1>7, BlocksAre
<1>10. Shifted(d, a, b, by, s)
  BY <1>3, <1>7, <1>8, <1>9 DEF Shifted
<1>11. Nested(s)
  <2>1. SUFFICES ASSUME NEW k \in 1..(n - 1) PROVE s[k + 1].depth <= s[k].depth + 1
    BY <1>7 DEF Nested
  <2>2. k \in 1..n /\ k + 1 \in 1..n /\ a + (k + 1) - 1 = (a + k - 1) + 1
    BY <1>3
  <2>3. a + k - 1 \in 1..z /\ (a + k - 1) + 1 \in 1..z /\ a + k - 1 \in 1..(z - 1)
    BY <2>2, <1>3
  <2>4. d[(a + k - 1) + 1].depth <= d[a + k - 1].depth + 1
    BY <2>3 DEF Shape, Nested, z
  <2>5. d[(a + k - 1) + 1].depth \in Nat /\ d[a + k - 1].depth \in Nat
    BY <2>3, <1>1, <1>3, BlocksAre
  <2>6. s[k].depth = d[a + k - 1].depth + by /\ s[k + 1].depth = d[(a + k - 1) + 1].depth + by
    BY <2>2, <1>8
  <2> DEFINE x == d[(a + k - 1) + 1].depth
             y == d[a + k - 1].depth
  <2>7. x <= y + 1 /\ x \in Nat /\ y \in Nat /\ s[k].depth = y + by /\ s[k + 1].depth = x + by
    BY <2>4, <2>5, <2>6
  <2> HIDE DEF x, y
  <2>8. x + by <= (y + by) + 1
    BY <2>7
  <2> QED BY <2>7, <2>8
<1> QED BY <1>10, <1>11 DEF s, p

\* Block b, whatever its depth, stands in u.
Stands(u, b) ==
  \E k \in DOMAIN u : u[k].id = b.id /\ u[k].text = b.text /\ u[k].rich = b.rich /\ u[k].kind = b.kind

\* An outline of one block.
LEMMA SingleIs ==
  ASSUME NEW b \in Block
  PROVE  /\ <<b>> \in Seq(Block) /\ Len(<<b>>) = 1 /\ DOMAIN <<b>> = {1} /\ <<b>>[1] = b /\ <<b>> # <<>>
         /\ Nested(<<b>>) /\ AllApart(<<b>>) /\ \A m \in DOMAIN <<b>> : m = 1
<1>1. /\ <<b>> \in Seq(Block) /\ Len(<<b>>) = 1 /\ DOMAIN <<b>> = {1} /\ <<b>>[1] = b /\ <<b>> # <<>>
  OBVIOUS
<1>2. Nested(<<b>>)
  BY <1>1 DEF Nested
<1>3. AllApart(<<b>>)
  BY <1>1 DEF AllApart
<1> QED BY <1>1, <1>2, <1>3

\* A block inserted below a parent, or at the root; every block stays.
LEMMA InsertedIs ==
  ASSUME NEW n \in Nat, NEW c \in Nat, NEW n1 \in Nat, NEW c1 \in Nat, n <= n1, c <= c1,
         NEW d, Tree(d, n, c), NEW parent, parent = Root \/ Has(d, parent), NEW m,
         NEW b, Sound(b, n1, c1), b.id >= n, \A k \in DOMAIN d : Names(d[k].text) \cap Names(b.text) = {}
  PROVE  /\ Doc(Inserted(d, parent, m, b), n1, c1) /\ \A z : Stems(Inserted(d, parent, m, b), d, n, z)
         /\ Stands(Inserted(d, parent, m, b), b) /\ \A k \in DOMAIN d : Stands(Inserted(d, parent, m, b), d[k])
<1> DEFINE p == IF parent = Root THEN 0 ELSE At(d, parent)
           at == Slot(d, p, m)
           h == DepthUnder(d, p)
           x == [b EXCEPT !.depth = h]
           s == <<x>>
           u == Splice(d, at, at - 1, s)
           z == Len(d)
<1>0. Inserted(d, parent, m, b) = u
  BY DEF Inserted
<1>1. Shape(d) /\ d \in Seq(Block) /\ AllApart(d) /\ z \in Nat /\ DOMAIN d = 1..z
  BY BlocksAre DEF Tree, Shape
<1>2. p \in 0..z
  BY <1>1, HasIs DEF Root
<1> HIDE DEF p, z
<1>3. RoomAt(d, at, h)
  BY <1>1, <1>2, SlotIs DEF z
<1> HIDE DEF at, h, u
<1>4. /\ at \in Nat /\ 1 <= at /\ at <= z + 1 /\ h \in Nat /\ at - 1 \in Nat /\ at - 1 <= z
      /\ at = 1 => h = 0
      /\ at > 1 => at - 1 \in DOMAIN d /\ h <= d[at - 1].depth + 1
      /\ at <= z => at \in DOMAIN d /\ d[at].depth <= h
  BY <1>1, <1>3 DEF RoomAt, z
<1>5. b \in Block /\ b.id \in Nat
  BY SoundIs
<1>6. x \in Block /\ x.id = b.id /\ x.text = b.text /\ x.kind = b.kind /\ x.rich = b.rich /\ x.depth = h
  BY <1>4, <1>5 DEF Block
<1>7. Sound(x, n1, c1)
  BY <1>6 DEF Sound
<1> HIDE DEF x
<1>8. /\ s \in Seq(Block) /\ Len(s) = 1 /\ DOMAIN s = {1} /\ s[1] = x /\ s # <<>> /\ Nested(s) /\ AllApart(s)
      /\ \A k \in DOMAIN s : k = 1
  BY <1>6, SingleIs
<1> HIDE DEF s
<1>9. Tree(d, n1, c1)
  BY TreeLater
<1>10. Seam(d, at, at - 1, s)
  <2>1. IF at = 1 THEN s[1].depth = 0 ELSE s[1].depth <= d[at - 1].depth + 1
    BY <1>4, <1>6, <1>8
  <2>2. at - 1 < z => d[(at - 1) + 1].depth <= s[Len(s)].depth + 1
    <3>1. SUFFICES ASSUME at - 1 < z PROVE d[at].depth <= x.depth + 1
      BY <1>4, <1>8
    <3>2. at \in DOMAIN d /\ d[at].depth <= h /\ d[at].depth \in Nat
      BY <3>1, <1>1, <1>4, BlocksAre
    <3> QED BY <3>2, <1>4, <1>6
  <2> QED BY <2>1, <2>2, <1>8 DEF Seam, z
<1>11. ApartBeside(d, at, at - 1)
  BY <1>1 DEF ApartBeside, AllApart, Beside
<1>12. ApartFrom(d, at, at - 1, s)
  <2>1. SUFFICES ASSUME NEW k \in DOMAIN d PROVE Apart(d[k], x)
    BY <1>8 DEF ApartFrom, Beside
  <2>2. d[k].id \in Nat /\ d[k].id < n
    BY SoundIs DEF Tree
  <2> QED BY <2>2, <1>5, <1>6 DEF Apart
<1>13. Fitting(d, at, at - 1, s, n1, c1)
  <2>1. \A k \in Beside(d, at, at - 1) : Sound(d[k], n1, c1)
    BY <1>9 DEF Tree, Beside
  <2>2. \A k \in DOMAIN s : Sound(s[k], n1, c1)
    BY <1>7, <1>8
  <2> QED BY <2>1, <2>2, <1>1, <1>4, <1>8, <1>10, <1>11, <1>12 DEF Fitting, z
<1>14. Tree(u, n1, c1) /\ Originates(d, at, at - 1, s, u)
  BY <1>13, SpliceTree DEF u
<1>15. /\ \A k \in DOMAIN u : u[k] = x \/ \E a \in DOMAIN d : u[k] = d[a]
       /\ \E k \in DOMAIN u : u[k] = x
       /\ \A a \in DOMAIN d : \E k \in DOMAIN u : u[k] = d[a]
  <2>1. \A k \in DOMAIN u : u[k] = x \/ \E a \in DOMAIN d : u[k] = d[a]
    BY <1>8, <1>14 DEF Originates, Beside
  <2>2. \E k \in DOMAIN u : u[k] = x
    BY <1>8, <1>14 DEF Originates
  <2>3. \A a \in DOMAIN d : a \in Beside(d, at, at - 1)
    BY <1>1, <1>4 DEF Beside
  <2> QED BY <2>1, <2>2, <2>3, <1>14 DEF Originates
<1>16. ASSUME NEW y PROVE Stems(u, d, n, y)
  <2>1. SUFFICES ASSUME NEW k \in DOMAIN u PROVE u[k].id >= n \/ \E j \in DOMAIN d : Old(u[k], d[j], y)
    BY DEF Stems
  <2>2. CASE u[k] = x
    BY <2>2, <1>6
  <2>3. CASE \E a \in DOMAIN d : u[k] = d[a]
    BY <2>3 DEF Old
  <2> QED BY <2>2, <2>3, <1>15
<1>17. Stands(u, b) /\ \A k \in DOMAIN d : Stands(u, d[k])
  BY <1>6, <1>15 DEF Stands
<1>18. u # <<>>
  BY <1>15
<1> QED BY <1>0, <1>14, <1>16, <1>17, <1>18, DocIs

\* What NewBlock makes: a block without text.
Blank(b, id, kind, depth) ==
  /\ b \in Block /\ b.id = id /\ b.depth = depth /\ b.text = <<>> /\ b.kind = kind /\ b.rich = HasInline(kind)
  /\ Names(b.text) = {}

LEMMA NewBlockIs ==
  ASSUME NEW n \in Nat, NEW c \in Nat, NEW id \in Nat, id # 0, id < n,
         NEW kind \in Kinds, NEW attr \in Word, NEW depth \in Nat
  PROVE  /\ Sound(NewBlock(id, kind, attr, depth), n, c)
         /\ Blank(NewBlock(id, kind, attr, depth), id, kind, depth)
<1> DEFINE b == NewBlock(id, kind, attr, depth)
<1>1. <<>> \in Seq(Char) /\ Distinct(<<>>) /\ Names(<<>>) = {}
  BY EmptyText DEF Text
<1>2. HasInline(kind) \in BOOLEAN
  BY DEF HasInline
<1>3. /\ b \in Block /\ b.id = id /\ b.depth = depth /\ b.text = <<>> /\ b.kind = kind /\ b.rich = HasInline(kind)
  BY <1>1, <1>2 DEF NewBlock, Block, Root
<1> HIDE DEF b
<1>4. Sound(b, n, c)
  BY <1>1, <1>3 DEF Sound
<1> QED BY <1>1, <1>3, <1>4 DEF b, Blank

\* A block that stands in a document is found there.
LEMMA StandsIs ==
  ASSUME NEW d, AllApart(d), NEW b, Stands(d, b)
  PROVE  /\ Has(d, b.id) /\ BlockOf(d, b.id).text = b.text /\ BlockOf(d, b.id).kind = b.kind
         /\ BlockOf(d, b.id).rich = b.rich /\ TextLen(d, b.id) = Len(b.text)
<1>1. PICK k \in DOMAIN d : d[k].id = b.id /\ d[k].text = b.text /\ d[k].rich = b.rich /\ d[k].kind = b.kind
  BY DEF Stands
<1>2. Has(d, d[k].id) /\ BlockOf(d, d[k].id) = d[k] /\ TextLen(d, d[k].id) = Len(d[k].text)
  BY Standing
<1> QED BY <1>1, <1>2

\* A text cut in two: the halves share no name.
LEMMA Halves ==
  ASSUME NEW t \in Text, Distinct(t), NEW o \in 0..Len(t)
  PROVE  /\ Slice(t, 0, o) \in Text /\ Len(Slice(t, 0, o)) = o /\ Spells(Slice(t, 0, o), Names(t))
         /\ Slice(t, o, Len(t)) \in Text /\ Len(Slice(t, o, Len(t))) = Len(t) - o
         /\ Spells(Slice(t, o, Len(t)), Names(t))
         /\ Names(Slice(t, 0, o)) \cap Names(Slice(t, o, Len(t))) = {}
<1> DEFINE a == Slice(t, 0, o)
           b == Slice(t, o, Len(t))
           n == Len(t)
<1>0. n \in Nat /\ DOMAIN t = 1..n /\ o \in Nat /\ o <= n
  BY TextIs
<1>1. Sliced(t, 0, o, a)
  BY <1>0, SliceIs
<1>2. Sliced(t, o, n, b)
  BY <1>0, SliceIs
<1>3. Spells(t, Names(t))
  BY DEF Spells
<1> HIDE DEF a, b, n
<1>4. a \in Text /\ Len(a) = o /\ Spells(a, Names(t)) /\ b \in Text /\ Len(b) = n - o /\ Spells(b, Names(t))
  BY <1>0, <1>1, <1>2, <1>3 DEF Sliced
<1>5. Names(a) \cap Names(b) = {}
  <2>1. SUFFICES ASSUME NEW k \in DOMAIN a, NEW l \in DOMAIN b, a[k].c = b[l].c, a[k].c # 0 PROVE FALSE
    BY DEF Names
  <2>2. 0 + k \in DOMAIN t /\ 0 + k <= o /\ a[k] = t[0 + k]
    BY <1>1 DEF Sliced
  <2>3. o + l \in DOMAIN t /\ o + l > o /\ b[l] = t[o + l]
    BY <1>2 DEF Sliced
  <2>4. 0 + k = o + l
    BY <2>1, <2>2, <2>3 DEF Distinct
  <2> QED BY <2>2, <2>3, <2>4
<1> QED BY <1>4, <1>5 DEF a, b, n

\* u is d with block id cut in two at o, the tail named new.
Halved(d, id, o, new, u) ==
  /\ Has(u, id) /\ TextLen(u, id) = o /\ BlockOf(u, id).rich = BlockOf(d, id).rich
  /\ BlockOf(u, id).kind = BlockOf(d, id).kind
  /\ Has(u, new) /\ TextLen(u, new) = TextLen(d, id) - o /\ BlockOf(u, new).kind = BlockOf(d, id).kind
  /\ BlockOf(u, new).rich = (HasInline(BlockOf(d, id).kind) \/ o < TextLen(d, id))

\* Splitting a block: the tail is a new block with the characters behind o.
LEMMA SplitAtIs ==
  ASSUME NEW n \in Nat, NEW c \in Nat, NEW d, Tree(d, n, c), NEW id, Has(d, id), BlockOf(d, id).rich,
         NEW o \in 0..TextLen(d, id), NEW new \in Nat, NEW n1 \in Nat, n <= new, new < n1
  PROVE  /\ Doc(SplitAt(d, id, o, new), n1, c) /\ Stems(SplitAt(d, id, o, new), d, n, id)
         /\ Halved(d, id, o, new, SplitAt(d, id, o, new))
<1> DEFINE i == At(d, id)
           t == d[i].text
           head == Slice(t, 0, o)
           tail == Slice(t, o, Len(t))
           x == NewBlock(new, d[i].kind, d[i].attr, 0)
           rich == HasInline(d[i].kind) \/ o < Len(t)
           b == [x EXCEPT !.text = tail, !.rich = rich]
           d1 == SetText(d, id, head)
           parent == IdAt(d, ParentOf(d, i))
           m == IndexOf(d, i) + 1
           u == Inserted(d1, parent, m, b)
<1>1. /\ i \in DOMAIN d /\ BlockOf(d, id) = d[i] /\ d[i].id = id /\ Sound(d[i], n, c)
      /\ t \in Text /\ TextLen(d, id) = Len(t) /\ id \in Nat /\ id < n /\ id # 0
  <2> HIDE DEF i
  <2>1. /\ i \in DOMAIN d /\ BlockOf(d, id) = d[i] /\ BlockOf(d, id).id = id
        /\ Sound(BlockOf(d, id), n, c) /\ BlockOf(d, id).text \in Text
        /\ TextLen(d, id) = Len(BlockOf(d, id).text) /\ id \in Nat /\ id < n /\ id # 0
    BY BlockOfIs DEF i
  <2> QED BY <2>1
<1>2. /\ d[i] \in Block /\ d[i].kind \in Kinds /\ d[i].attr \in Word /\ Distinct(t) /\ d[i].rich = TRUE
      /\ \A y \in Names(t) : y \in Nat /\ y < c
  BY <1>1, SoundIs
<1>3. new # 0 /\ new # id
  BY <1>1
<1>4. /\ Sound(x, n1, c) /\ x \in Block /\ x.id = new /\ x.kind = d[i].kind /\ x.rich = HasInline(d[i].kind)
  <2> DEFINE kind == d[i].kind
             attr == d[i].attr
  <2>1. kind \in Kinds /\ attr \in Word /\ 0 \in Nat
    BY <1>2
  <2> HIDE DEF kind, attr
  <2>2. Sound(NewBlock(new, kind, attr, 0), n1, c) /\ Blank(NewBlock(new, kind, attr, 0), new, kind, 0)
    BY <1>3, <2>1, NewBlockIs
  <2> QED BY <2>2 DEF kind, attr, Blank
<1>5. SplitAt(d, id, o, new) = u
  BY <1>4 DEF SplitAt
<1>6. /\ head \in Text /\ Len(head) = o /\ Spells(head, Names(t))
      /\ tail \in Text /\ Len(tail) = Len(t) - o /\ Spells(tail, Names(t))
      /\ Names(head) \cap Names(tail) = {}
  BY <1>1, <1>2, Halves
<1>7. /\ b \in Block /\ b.id = new /\ b.text = tail /\ b.kind = d[i].kind /\ b.rich = rich /\ rich \in BOOLEAN
  <2>1. rich \in BOOLEAN
    BY DEF HasInline
  <2> QED BY <2>1, <1>4, <1>6 DEF Block, Text
<1>8. Len(t) \in Nat /\ (tail # <<>> => o < Len(t))
  BY <1>1, <1>6, TextIs
<1> HIDE DEF b, x, rich
<1>9. Sound(b, n1, c)
  <2>1. \A y \in Names(tail) : y < c
    BY <1>2, <1>6 DEF Spells
  <2>2. rich = (HasInline(d[i].kind) \/ o < Len(t))
    BY DEF rich
  <2> QED BY <2>1, <2>2, <1>6, <1>7, <1>8 DEF Sound, Spells
<1> HIDE DEF head, tail, d1
<1>10. Tree(d1, n, c) /\ Stems(d1, d, n, id) /\ Retexted(d, id, head, d1)
  <2>1. Spells(head, Names(BlockOf(d, id).text))
    BY <1>1, <1>6
  <2>2. head # <<>> => BlockOf(d, id).rich
    OBVIOUS
  <2> HIDE DEF t, i
  <2> QED BY <2>1, <2>2, RetextIs DEF d1
<1>11. parent = Root \/ Has(d1, parent)
  <2>1. ParentAt(d, i, ParentOf(d, i))
    BY <1>1, ParentIs DEF Tree
  <2>2. CASE ParentOf(d, i) = 0
    BY <2>2 DEF IdAt
  <2>3. CASE ParentOf(d, i) # 0
    <3>1. ParentOf(d, i) \in DOMAIN d /\ parent = d[ParentOf(d, i)].id
      BY <2>1, <2>3 DEF ParentAt, IdAt
    <3>2. DOMAIN d1 = DOMAIN d /\ d1[ParentOf(d, i)].id = d[ParentOf(d, i)].id
      <4>1. Swapped(d, i, [d[i] EXCEPT !.text = head], d1)
        BY <1>1, <1>10 DEF Retexted
      <4>2. [d[i] EXCEPT !.text = head].id = d[i].id
        BY <1>2 DEF Block
      <4> QED BY <3>1, <4>1, <4>2 DEF Swapped
    <3> QED BY <3>1, <3>2 DEF Has
  <2> QED BY <2>2, <2>3
<1>12. d1[i].text = head /\ \A k \in DOMAIN d1 : k \in DOMAIN d /\ (k # i => d1[k] = d[k])
  <2>1. Swapped(d, i, [d[i] EXCEPT !.text = head], d1)
    BY <1>1, <1>10 DEF Retexted
  <2>2. [d[i] EXCEPT !.text = head].text = head
    BY <1>2 DEF Block
  <2> QED BY <2>1, <2>2 DEF Swapped
<1>13. ASSUME NEW k \in DOMAIN d1 PROVE Names(d1[k].text) \cap Names(b.text) = {}
  <2>1. CASE k = i
    BY <2>1, <1>6, <1>7, <1>12
  <2>2. CASE k # i
    <3>1. Names(d[k].text) \cap Names(t) = {}
      BY <2>2, <1>1, <1>12 DEF Tree, AllApart, Apart
    <3>2. Names(b.text) \subseteq Names(t)
      BY <1>6, <1>7 DEF Spells
    <3> QED BY <2>2, <3>1, <3>2, <1>12
  <2> QED BY <2>1, <2>2
<1>14. n <= n1 /\ b.id >= n /\ c <= c
  BY <1>7
<1> HIDE DEF u, parent, m
<1>15. /\ Doc(u, n1, c) /\ \A z : Stems(u, d1, n, z)
       /\ Stands(u, b) /\ \A k \in DOMAIN d1 : Stands(u, d1[k])
  BY <1>9, <1>10, <1>11, <1>13, <1>14, InsertedIs DEF u
<1>16. Stems(u, d, n, id)
  BY <1>10, <1>15, StemsTwice
<1>17. i \in DOMAIN d1 /\ d1[i].id = id /\ d1[i].text = head /\ d1[i].rich = d[i].rich /\ d1[i].kind = d[i].kind
  <2>1. Swapped(d, i, [d[i] EXCEPT !.text = head], d1)
    BY <1>1, <1>10 DEF Retexted
  <2>2. LET y == [d[i] EXCEPT !.text = head] IN y.id = d[i].id /\ y.rich = d[i].rich /\ y.kind = d[i].kind /\ y.text = head
    BY <1>2 DEF Block
  <2> QED BY <1>1, <2>1, <2>2 DEF Swapped
<1>18. AllApart(u)
  BY <1>15 DEF Doc
<1>19. Has(u, id) /\ TextLen(u, id) = o /\ BlockOf(u, id).rich = d[i].rich /\ BlockOf(u, id).kind = d[i].kind
  <2>1. Stands(u, d1[i])
    BY <1>15, <1>17
  <2>2. /\ Has(u, d1[i].id) /\ BlockOf(u, d1[i].id).kind = d1[i].kind
        /\ BlockOf(u, d1[i].id).rich = d1[i].rich /\ TextLen(u, d1[i].id) = Len(d1[i].text)
    BY <1>18, <2>1, StandsIs
  <2> QED BY <2>2, <1>6, <1>17
<1>20. /\ Has(u, new) /\ TextLen(u, new) = TextLen(d, id) - o /\ BlockOf(u, new).kind = d[i].kind
       /\ BlockOf(u, new).rich = rich
  <2>2. /\ Has(u, b.id) /\ BlockOf(u, b.id).kind = b.kind
        /\ BlockOf(u, b.id).rich = b.rich /\ TextLen(u, b.id) = Len(b.text)
    BY <1>15, <1>18, StandsIs
  <2> QED BY <2>2, <1>1, <1>6, <1>7
<1>21. Halved(d, id, o, new, u)
  BY <1>1, <1>19, <1>20 DEF Halved, rich
<1> QED BY <1>5, <1>15, <1>16, <1>21

\* The empty outline.
LEMMA NoBlocks ==
  /\ <<>> \in Seq(Block) /\ Len(<<>>) = 0 /\ DOMAIN <<>> = {} /\ Nested(<<>>) /\ AllApart(<<>>)
  /\ \A m : m \notin DOMAIN <<>>
<1>1. <<>> \in Seq(Block) /\ Len(<<>>) = 0 /\ DOMAIN <<>> = {}
  OBVIOUS
<1> QED BY <1>1 DEF Nested, AllApart

\* l is where the subtree of i ends.
Subtree(d, i, l) ==
  /\ i \in Nat /\ l \in Nat /\ 1 <= i /\ i <= l /\ l <= Len(d) /\ Len(d) \in Nat /\ l \in DOMAIN d /\ i \in DOMAIN d
  /\ DOMAIN d = 1..Len(d)
  /\ \A k \in DOMAIN d : d[k].depth \in Nat
  /\ \A k \in i..l : k \in DOMAIN d /\ d[k].depth >= d[i].depth
  /\ \A k \in (i + 1)..l : k \in DOMAIN d /\ d[k].depth > d[i].depth
  /\ l < Len(d) => l + 1 \in DOMAIN d /\ d[l + 1].depth <= d[i].depth

\* LastOf ends the subtree of i.
LEMMA SubtreeIs ==
  ASSUME NEW d, Shape(d), NEW i \in DOMAIN d
  PROVE  Subtree(d, i, LastOf(d, i))
<1> DEFINE l == LastOf(d, i)
           z == Len(d)
<1>1. EndsAt(d, i, l)
  BY LastIs DEF Shape
<1>2. z \in Nat /\ DOMAIN d = 1..z /\ \A k \in DOMAIN d : d[k].depth \in Nat
  BY BlocksAre DEF Shape
<1> HIDE DEF l
<1>3. /\ l \in i..z /\ l \in Nat /\ l \in DOMAIN d
      /\ \A k \in (i + 1)..l : d[k].depth > d[i].depth
      /\ l = z \/ (l + 1 \in DOMAIN d /\ d[l + 1].depth <= d[i].depth)
  BY <1>1 DEF EndsAt
<1> HIDE DEF z
<1>4. i \in Nat /\ 1 <= i /\ i <= l /\ l <= z
  BY <1>2, <1>3
<1>5. \A k \in (i + 1)..l : k \in DOMAIN d /\ d[k].depth > d[i].depth
  BY <1>2, <1>3, <1>4
<1>6. ASSUME NEW k \in i..l PROVE k \in DOMAIN d /\ d[k].depth >= d[i].depth
  <2>1. k \in DOMAIN d
    BY <1>2, <1>3, <1>4
  <2>2. CASE k = i
    BY <2>1, <2>2, <1>2
  <2>3. CASE k # i
    <3>1. k \in (i + 1)..l
      BY <2>3, <1>4
    <3> QED BY <3>1, <1>5, <1>2
  <2> QED BY <2>1, <2>2, <2>3
<1>7. l < z => l + 1 \in DOMAIN d /\ d[l + 1].depth <= d[i].depth
  BY <1>3, <1>4, <1>2
<1> QED BY <1>2, <1>3, <1>4, <1>5, <1>6, <1>7 DEF Subtree, z, l

\* What the blocks beside i..l need to stand in an outline of their own.
SoundBeside(d, i, l, n, c) == ApartBeside(d, i, l) /\ \A a \in Beside(d, i, l) : Sound(d[a], n, c)

\* The blocks of u are those of d beside i..l.
Remains(d, i, l, u) ==
  /\ \A k \in DOMAIN u : \E a \in Beside(d, i, l) : u[k] = d[a]
  /\ \A a \in Beside(d, i, l) : \E k \in DOMAIN u : u[k] = d[a]

\* An outline without a subtree is an outline, and its blocks are those beside
\* the subtree.
LEMMA Removed ==
  ASSUME NEW n, NEW c, NEW d, Shape(d), NEW i, NEW l, Subtree(d, i, l), SoundBeside(d, i, l, n, c)
  PROVE  /\ Tree(Splice(d, i, l, <<>>), n, c) /\ Originates(d, i, l, <<>>, Splice(d, i, l, <<>>))
         /\ Remains(d, i, l, Splice(d, i, l, <<>>))
<1> DEFINE u == Splice(d, i, l, <<>>)
           s == <<>>
           z == Len(d)
<1>1. s \in Seq(Block) /\ Nested(s) /\ AllApart(s) /\ s = <<>> /\ \A m : m \notin DOMAIN s
  BY NoBlocks
<1> HIDE DEF s
<1>2. /\ i \in Nat /\ l \in Nat /\ 1 <= i /\ i <= l /\ l <= z /\ z \in Nat /\ DOMAIN d = 1..z
      /\ l < z => l + 1 \in DOMAIN d /\ d[l + 1].depth <= d[i].depth
      /\ \A k \in DOMAIN d : d[k].depth \in Nat
  BY DEF Subtree
<1>3. Seam(d, i, l, s)
  <2>1. SUFFICES ASSUME l < z
                 PROVE  IF i = 1 THEN d[l + 1].depth = 0 ELSE d[l + 1].depth <= d[i - 1].depth + 1
    BY <1>1 DEF Seam
  <2> HIDE DEF z
  <2>2. d[l + 1].depth <= d[i].depth /\ d[l + 1].depth \in Nat /\ i \in DOMAIN d /\ d[i].depth \in Nat
    BY <2>1, <1>2
  <2>3. CASE i = 1
    <3>1. d[1].depth = 0
      <4>1. d # <<>>
        BY <1>2, BlocksAre DEF Shape, z
      <4> QED BY <4>1 DEF Shape, Rooted
    <3> QED BY <3>1, <2>2, <2>3
  <2>4. CASE i # 1
    <3>1. i - 1 \in 1..(z - 1) /\ i - 1 \in DOMAIN d /\ (i - 1) + 1 = i
      BY <2>4, <1>2
    <3>2. d[i].depth <= d[i - 1].depth + 1 /\ d[i - 1].depth \in Nat
      BY <3>1, <1>2 DEF Shape, Nested, z
    <3> QED BY <3>2, <2>2, <2>4
  <2> QED BY <2>3, <2>4
<1>4. i <= l + 1
  BY <1>2
<1>5. Fitting(d, i, l, s, n, c)
  BY <1>1, <1>2, <1>3, <1>4 DEF Fitting, ApartFrom, SoundBeside, z
<1>6. Tree(Splice(d, i, l, s), n, c) /\ Originates(d, i, l, s, Splice(d, i, l, s))
  BY <1>5, SpliceTree
<1>7. u = Splice(d, i, l, s)
  BY <1>1
<1> HIDE DEF u
<1>8. /\ \A k \in DOMAIN u : \E a \in Beside(d, i, l) : u[k] = d[a]
      /\ \A a \in Beside(d, i, l) : \E k \in DOMAIN u : u[k] = d[a]
  BY <1>1, <1>6, <1>7 DEF Originates
<1> QED BY <1>1, <1>6, <1>7, <1>8 DEF u, Remains

LEMMA RemovedTree ==
  ASSUME NEW n, NEW c, NEW d, Tree(d, n, c), NEW i \in DOMAIN d
  PROVE  LET r == Splice(d, i, LastOf(d, i), <<>>)
         IN  /\ Tree(r, n, c) /\ Subtree(d, i, LastOf(d, i)) /\ \A z : Stems(r, d, n, z)
             /\ \A k \in DOMAIN r : \E a \in Beside(d, i, LastOf(d, i)) : r[k] = d[a]
             /\ \A a \in Beside(d, i, LastOf(d, i)) : \E k \in DOMAIN r : r[k] = d[a]
<1> DEFINE l == LastOf(d, i)
           r == Splice(d, i, l, <<>>)
<1>1. Subtree(d, i, l)
  BY SubtreeIs DEF Tree
<1> HIDE DEF l
<1>2. ApartBeside(d, i, l) /\ \A a \in Beside(d, i, l) : a \in DOMAIN d /\ Sound(d[a], n, c)
  BY DEF ApartBeside, Beside, Tree, AllApart
<1>3. /\ Tree(r, n, c)
      /\ \A k \in DOMAIN r : \E a \in Beside(d, i, l) : r[k] = d[a]
      /\ \A a \in Beside(d, i, l) : \E k \in DOMAIN r : r[k] = d[a]
  <2>1. SoundBeside(d, i, l, n, c) /\ Shape(d)
    BY <1>2 DEF Tree, SoundBeside
  <2>2. Tree(r, n, c) /\ Remains(d, i, l, r)
    BY <1>1, <2>1, Removed
  <2> HIDE DEF r
  <2> QED BY <2>2 DEF Remains
<1> HIDE DEF r
<1>4. ASSUME NEW z PROVE Stems(r, d, n, z)
  BY <1>2, <1>3 DEF Stems, Old
<1> QED BY <1>1, <1>3, <1>4 DEF r, l

\* A document without a block and what hangs below it; if nothing is left, a
\* new paragraph takes its place.
LEMMA WithoutIs ==
  ASSUME NEW n \in Nat, NEW c \in Nat, NEW d, Tree(d, n, c), NEW id, Has(d, id),
         NEW new \in Nat, n <= new, NEW n1 \in Nat, new < n1
  PROVE  Doc(Without(d, id, new), n1, c) /\ \A z : Stems(Without(d, id, new), d, n, z)
<1> DEFINE i == At(d, id)
           r == Splice(d, i, LastOf(d, i), <<>>)
           b == NewBlock(new, "paragraph", "none", 0)
           u == Without(d, id, new)
<1>1. i \in DOMAIN d /\ 0 < new
  BY BlockOfIs
<1>2. Tree(r, n, c) /\ \A z : Stems(r, d, n, z)
  BY <1>1, RemovedTree
<1>3. u = IF r = <<>> THEN <<b>> ELSE r
  BY DEF Without
<1> HIDE DEF r
<1>4. CASE r = <<>>
  <2>1. "paragraph" \in Kinds /\ "none" \in Word
    BY DEF Kinds, InlineKinds, Word
  <2>2. new \in Nat /\ new # 0 /\ 0 \in Nat
    BY <1>1
  <2>3. Sound(b, n1, c) /\ Blank(b, new, "paragraph", 0)
    BY <2>1, <2>2, NewBlockIs
  <2> HIDE DEF b, u
  <2>4. /\ <<b>> \in Seq(Block) /\ Len(<<b>>) = 1 /\ DOMAIN <<b>> = {1} /\ <<b>>[1] = b /\ <<b>> # <<>>
        /\ Nested(<<b>>) /\ AllApart(<<b>>) /\ \A m \in DOMAIN <<b>> : m = 1
    BY <2>3, SingleIs DEF Blank
  <2>5. u = <<b>>
    BY <1>3, <1>4
  <2>6. Rooted(u)
    BY <2>3, <2>4, <2>5 DEF Rooted, Blank
  <2>7. Doc(u, n1, c)
    BY <2>3, <2>4, <2>5, <2>6 DEF Doc
  <2>8. ASSUME NEW z PROVE Stems(u, d, n, z)
    BY <2>3, <2>4, <2>5 DEF Stems, Blank
  <2> QED BY <2>7, <2>8 DEF u
<1>5. CASE r # <<>>
  <2>1. Tree(r, n1, c)
    BY <1>2, TreeLater
  <2> QED BY <2>1, <1>2, <1>3, <1>5, DocIs
<1> QED BY <1>4, <1>5

\* Behind a subtree there is room for a sibling or a child of its root.
LEMMA EndRoom ==
  ASSUME NEW d, NEW i, NEW l, Subtree(d, i, l), NEW h \in Nat, d[i].depth <= h, h <= d[i].depth + 1
  PROVE  RoomAt(d, l + 1, h)
<1> DEFINE z == Len(d)
<1>1. /\ i \in Nat /\ l \in Nat /\ 1 <= i /\ i <= l /\ l <= z /\ z \in Nat /\ l \in DOMAIN d /\ i \in DOMAIN d
      /\ DOMAIN d = 1..z /\ d[l].depth \in Nat /\ d[i].depth \in Nat
      /\ l < z => l + 1 \in DOMAIN d /\ d[l + 1].depth <= d[i].depth /\ d[l + 1].depth \in Nat
  BY DEF Subtree
<1>2. d[l].depth >= d[i].depth
  BY <1>1 DEF Subtree
<1> HIDE DEF z
<1>3. l + 1 \in Nat /\ 1 <= l + 1 /\ l + 1 <= z + 1 /\ l + 1 > 1 /\ (l + 1) - 1 = l
  BY <1>1
<1>4. h <= d[(l + 1) - 1].depth + 1
  BY <1>1, <1>2, <1>3
<1>5. l + 1 <= z => l + 1 \in DOMAIN d /\ d[l + 1].depth <= h
  BY <1>1
<1> QED BY <1>1, <1>3, <1>4, <1>5 DEF RoomAt, z

\* The blocks of u are those of r and of s.
Mixed(r, s, u) ==
  /\ \A k \in DOMAIN u : (\E a \in DOMAIN r : u[k] = r[a]) \/ (\E m \in DOMAIN s : u[k] = s[m])
  /\ \A a \in DOMAIN r : \E k \in DOMAIN u : u[k] = r[a]
  /\ \A m \in DOMAIN s : \E k \in DOMAIN u : u[k] = s[m]

\* Blocks may be planted wherever there is room for the first of them.
LEMMA Planting ==
  ASSUME NEW n, NEW c, NEW r, Tree(r, n, c), NEW at, NEW h, RoomAt(r, at, h),
         NEW s \in Seq(Block), Nested(s), AllApart(s), \A m \in DOMAIN s : Sound(s[m], n, c),
         s # <<>> => s[1].depth = h, \A m \in DOMAIN s : s[m].depth >= h,
         \A k \in DOMAIN r, m \in DOMAIN s : Apart(r[k], s[m])
  PROVE  Tree(Splice(r, at, at - 1, s), n, c) /\ Mixed(r, s, Splice(r, at, at - 1, s))
<1> DEFINE u == Splice(r, at, at - 1, s)
           z == Len(r)
           l == Len(s)
<1>1. Shape(r) /\ r \in Seq(Block) /\ z \in Nat /\ DOMAIN r = 1..z /\ \A k \in DOMAIN r : r[k].depth \in Nat
  BY BlocksAre DEF Tree, Shape
<1>2. l \in Nat /\ DOMAIN s = 1..l /\ (s # <<>>) = (l > 0) /\ \A m \in DOMAIN s : s[m].depth \in Nat
  BY BlocksAre
<1>3. /\ at \in Nat /\ 1 <= at /\ at <= z + 1 /\ h \in Nat
      /\ at = 1 => h = 0
      /\ at > 1 => at - 1 \in DOMAIN r /\ h <= r[at - 1].depth + 1
      /\ at <= z => at \in DOMAIN r /\ r[at].depth <= h
  BY DEF RoomAt
<1> HIDE DEF z, l, u
<1>4. at - 1 \in Nat /\ at - 1 <= z /\ (at - 1) + 1 = at /\ at <= (at - 1) + 1
  BY <1>1, <1>3
<1>5. Seam(r, at, at - 1, s)
  <2>1. s # <<>> => IF at = 1 THEN s[1].depth = 0 ELSE s[1].depth <= r[at - 1].depth + 1
    BY <1>3
  <2>2. ASSUME at - 1 < z
        PROVE  IF s # <<>> THEN r[at].depth <= s[l].depth + 1
               ELSE IF at = 1 THEN r[at].depth = 0 ELSE r[at].depth <= r[at - 1].depth + 1
    <3>1. at \in DOMAIN r /\ r[at].depth <= h /\ r[at].depth \in Nat
      BY <2>2, <1>1, <1>3
    <3>2. CASE s # <<>>
      <4>1. l \in DOMAIN s
        BY <3>2, <1>2
      <4>2. s[l].depth >= h /\ s[l].depth \in Nat
        BY <4>1, <1>2
      <4> QED BY <3>1, <3>2, <4>2, <1>3
    <3>3. CASE s = <<>>
      <4>1. CASE at = 1
        BY <4>1, <3>1, <3>3, <1>3
      <4>2. CASE at # 1
        <5>1. at - 1 \in DOMAIN r /\ h <= r[at - 1].depth + 1 /\ r[at - 1].depth \in Nat
          BY <4>2, <1>1, <1>3
        <5> QED BY <5>1, <4>2, <3>1, <3>3, <1>3
      <4> QED BY <4>1, <4>2
    <3> QED BY <3>2, <3>3
  <2> QED BY <2>1, <2>2, <1>4 DEF Seam, z, l
<1>6. ApartBeside(r, at, at - 1) /\ ApartFrom(r, at, at - 1, s) /\ \A a \in Beside(r, at, at - 1) : Sound(r[a], n, c)
  BY DEF ApartBeside, ApartFrom, Beside, Tree, AllApart
<1>7. Fitting(r, at, at - 1, s, n, c)
  BY <1>1, <1>3, <1>4, <1>5, <1>6 DEF Fitting, z
<1>8. Tree(u, n, c) /\ Originates(r, at, at - 1, s, u)
  BY <1>7, SpliceTree DEF u
<1>9. \A a \in DOMAIN r : a \in Beside(r, at, at - 1)
  BY <1>1, <1>3 DEF Beside
<1>10. Mixed(r, s, u)
  <2>1. ASSUME NEW k \in DOMAIN u PROVE (\E a \in DOMAIN r : u[k] = r[a]) \/ (\E m \in DOMAIN s : u[k] = s[m])
    BY <1>8 DEF Originates, Beside
  <2>2. ASSUME NEW a \in DOMAIN r PROVE \E k \in DOMAIN u : u[k] = r[a]
    BY <1>8, <1>9 DEF Originates
  <2>3. ASSUME NEW m \in DOMAIN s PROVE \E k \in DOMAIN u : u[k] = s[m]
    BY <1>8 DEF Originates
  <2> QED BY <2>1, <2>2, <2>3 DEF Mixed
<1> QED BY <1>8, <1>10 DEF u

\* A subtree that was shifted is as sound as it was.
LEMMA ShiftedSound ==
  ASSUME NEW n \in Nat, NEW c \in Nat, NEW d, NEW a, NEW b, NEW by, NEW s, Shifted(d, a, b, by, s),
         \A k \in a..b : k \in DOMAIN d /\ Sound(d[k], n, c),
         \A k, l \in a..b : k # l => Apart(d[k], d[l]), a \in Nat
  PROVE  AllApart(s) /\ \A m \in DOMAIN s : Sound(s[m], n, c)
<1>1. /\ s \in Seq(Block) /\ Len(s) \in Nat /\ DOMAIN s = 1..Len(s)
      /\ \A k \in 1..Len(s) :
           /\ a + k - 1 \in a..b
           /\ s[k].id = d[a + k - 1].id
           /\ s[k].text = d[a + k - 1].text /\ s[k].rich = d[a + k - 1].rich /\ s[k].kind = d[a + k - 1].kind
  BY DEF Shifted
<1>2. ASSUME NEW k \in DOMAIN s, NEW l \in DOMAIN s, k # l PROVE Apart(s[k], s[l])
  <2>1. k \in 1..Len(s) /\ l \in 1..Len(s) /\ a + k - 1 # a + l - 1
    BY <1>1, <1>2
  <2>2. Apart(d[a + k - 1], d[a + l - 1])
    BY <2>1, <1>1
  <2> QED BY <2>1, <2>2, <1>1 DEF Apart
<1>3. ASSUME NEW k \in DOMAIN s PROVE Sound(s[k], n, c)
  <2>1. Sound(d[a + k - 1], n, c) /\ s[k] \in Block
    BY <1>1, BlocksAre
  <2> QED BY <2>1, <1>1 DEF Sound
<1> QED BY <1>2, <1>3 DEF AllApart

\* A subtree moved below a parent that is not in it.
LEMMA RelocatedIs ==
  ASSUME NEW n \in Nat, NEW c \in Nat, NEW d, Tree(d, n, c), NEW i \in DOMAIN d, NEW parent, NEW m,
         parent = Root \/ Has(Splice(d, i, LastOf(d, i), <<>>), parent)
  PROVE  Doc(Relocated(d, i, parent, m), n, c) /\ \A z : Stems(Relocated(d, i, parent, m), d, n, z)
<1> DEFINE l == LastOf(d, i)
           r == Splice(d, i, l, <<>>)
           p == IF parent = Root THEN 0 ELSE At(r, parent)
           at == Slot(r, p, m)
           h == DepthUnder(r, p)
           by == h - d[i].depth
           s == Shift(SubSeq(d, i, l), by)
           u == Splice(r, at, at - 1, s)
<1>0. Relocated(d, i, parent, m) = u
  BY DEF Relocated
<1>1. /\ Tree(r, n, c) /\ Subtree(d, i, l) /\ \A z : Stems(r, d, n, z)
      /\ \A k \in DOMAIN r : \E a \in Beside(d, i, l) : r[k] = d[a]
      /\ \A a \in Beside(d, i, l) : \E k \in DOMAIN r : r[k] = d[a]
  BY RemovedTree
<1>2. parent = Root \/ Has(r, parent)
  OBVIOUS
<1> HIDE DEF r, l
<1>3. Shape(r) /\ Len(r) \in Nat /\ DOMAIN r = 1..Len(r)
  BY <1>1, BlocksAre DEF Tree, Shape
<1>4. p \in 0..Len(r)
  BY <1>2, <1>3, HasIs
<1> HIDE DEF p
<1>5. RoomAt(r, at, h)
  BY <1>3, <1>4, SlotIs
<1>6. h \in Nat
  BY <1>3, <1>4, DepthUnderIs
<1> HIDE DEF at, h
<1>7. /\ Shape(d) /\ i \in Nat /\ l \in Nat /\ 1 <= i /\ i <= l /\ l <= Len(d)
      /\ \A k \in i..l : k \in DOMAIN d /\ d[k].depth >= d[i].depth /\ d[k].depth \in Nat
      /\ d[i].depth \in Nat
  BY <1>1 DEF Subtree, Tree
<1>8. by \in Int /\ \A k \in i..l : d[k].depth + by \in Nat /\ d[k].depth + by >= h
  <2>1. by \in Int
    BY <1>6, <1>7
  <2>2. ASSUME NEW k \in i..l PROVE d[k].depth + by \in Nat /\ d[k].depth + by >= h
    <3> DEFINE x == d[k].depth
               y == d[i].depth
    <3>1. x \in Nat /\ y \in Nat /\ x >= y
      BY <1>7
    <3> HIDE DEF x, y
    <3>2. x + (h - y) \in Nat /\ x + (h - y) >= h
      BY <3>1, <1>6
    <3> QED BY <3>2 DEF x, y
  <2> QED BY <2>1, <2>2
<1>9. d[i].depth + by = h
  BY <1>6, <1>7
<1> HIDE DEF by
<1>10. Shifted(d, i, l, by, s) /\ Nested(s)
  BY <1>7, <1>8, ShiftIs
<1> HIDE DEF s, u
<1>11. AllApart(s) /\ \A k \in DOMAIN s : Sound(s[k], n, c)
  BY <1>7, <1>10, ShiftedSound DEF Tree, AllApart
<1>12. /\ s \in Seq(Block) /\ DOMAIN s = 1..Len(s) /\ Len(s) = l - i + 1 /\ Len(s) \in Nat
       /\ \A k \in DOMAIN s : i + k - 1 \in i..l /\ s[k].depth = d[i + k - 1].depth + by
                              /\ s[k].id = d[i + k - 1].id /\ s[k].text = d[i + k - 1].text /\ s[k].rich = d[i + k - 1].rich
                              /\ s[k].kind = d[i + k - 1].kind
  BY <1>7, <1>10 DEF Shifted
<1>13. 1 \in DOMAIN s /\ s[1].depth = h /\ \A k \in DOMAIN s : s[k].depth >= h
  <2>1. 1 \in DOMAIN s /\ i + 1 - 1 = i
    BY <1>7, <1>12
  <2>2. s[1].depth = d[i].depth + by
    BY <2>1, <1>12
  <2> QED BY <2>1, <2>2, <1>8, <1>9, <1>12
<1>14. ASSUME NEW k \in DOMAIN r, NEW q \in DOMAIN s PROVE Apart(r[k], s[q])
  <2>1. PICK a \in Beside(d, i, l) : r[k] = d[a]
    BY <1>1
  <2>2. a \in DOMAIN d /\ i + q - 1 \in DOMAIN d /\ a # i + q - 1
    <3> DEFINE e == i + q - 1
    <3>1. e \in i..l /\ e \in DOMAIN d
      BY <1>7, <1>12
    <3> HIDE DEF e
    <3>2. a \in DOMAIN d /\ (a < i \/ a > l)
      BY DEF Beside
    <3>3. a # e
      BY <1>7, <3>1, <3>2
    <3> QED BY <3>1, <3>2, <3>3 DEF e
  <2>3. Apart(d[a], d[i + q - 1])
    BY <2>2 DEF Tree, AllApart
  <2> QED BY <2>1, <2>3, <1>12 DEF Apart
<1>15. Tree(u, n, c) /\ Mixed(r, s, u)
  BY <1>1, <1>5, <1>10, <1>11, <1>12, <1>13, <1>14, Planting DEF u
<1>16. ASSUME NEW y PROVE Stems(u, d, n, y)
  <2>1. SUFFICES ASSUME NEW k \in DOMAIN u PROVE \E j \in DOMAIN d : Old(u[k], d[j], y)
    BY DEF Stems
  <2>2. CASE \E a \in DOMAIN r : u[k] = r[a]
    BY <2>2, <1>1 DEF Beside, Old
  <2>3. CASE \E q \in DOMAIN s : u[k] = s[q]
    <3>1. PICK q \in DOMAIN s : u[k] = s[q]
      BY <2>3
    <3>2. i + q - 1 \in DOMAIN d /\ Old(u[k], d[i + q - 1], y)
      BY <3>1, <1>7, <1>12 DEF Old
    <3> QED BY <3>2
  <2> QED BY <2>2, <2>3, <1>15 DEF Mixed
<1>17. u # <<>>
  BY <1>13, <1>15 DEF Mixed
<1> QED BY <1>0, <1>15, <1>16, <1>17, DocIs

\* Merging two blocks: the text of next goes behind that of prev, its children
\* below it, and next goes. Not if prev hangs below next.
LEMMA MergedIntoIs ==
  ASSUME NEW n \in Nat, NEW c \in Nat, NEW d, Tree(d, n, c), NEW prev, NEW next, Has(d, prev), Has(d, next),
         BlockOf(d, prev).rich, ~SelfOrDescendant(d, At(d, next), At(d, prev))
  PROVE  /\ Doc(MergedInto(d, prev, next), n, c) /\ Stems(MergedInto(d, prev, next), d, n, prev)
         /\ TextLen(MergedInto(d, prev, next), prev) = TextLen(d, prev) + TextLen(d, next)
         /\ Has(MergedInto(d, prev, next), prev)
<1> DEFINE i == At(d, next)
           l == LastOf(d, i)
           q == At(d, prev)
           t == d[q].text
           w == d[i].text
           T == Grafted(t, Len(t), w)
           b == [d[q] EXCEPT !.text = T]
           d1 == SetText(d, prev, T)
           rest == Splice(d1, i, l, <<>>)
           p == At(rest, prev)
           L == LastOf(rest, p)
           by == rest[p].depth - d[i].depth
           s == Shift(SubSeq(d, i + 1, l), by)
           u == Splice(rest, L + 1, L, s)
<1>1. /\ q \in DOMAIN d /\ BlockOf(d, prev) = d[q] /\ d[q].id = prev /\ Sound(d[q], n, c) /\ t \in Text
      /\ TextLen(d, prev) = Len(t) /\ d[q].rich = TRUE
  <2> HIDE DEF q, t
  <2>1. /\ q \in DOMAIN d /\ BlockOf(d, prev) = d[q] /\ BlockOf(d, prev).id = prev
        /\ Sound(BlockOf(d, prev), n, c) /\ BlockOf(d, prev).text \in Text
        /\ TextLen(d, prev) = Len(BlockOf(d, prev).text)
    BY BlockOfIs DEF q
  <2>2. BlockOf(d, prev).rich = TRUE
    BY <2>1, SoundIs
  <2> QED BY <2>1, <2>2 DEF t
<1>2. /\ i \in DOMAIN d /\ d[i].id = next /\ Sound(d[i], n, c) /\ w \in Text
      /\ TextLen(d, next) = Len(w)
  <2> HIDE DEF i, w
  <2>1. /\ i \in DOMAIN d /\ BlockOf(d, next) = d[i] /\ BlockOf(d, next).id = next
        /\ Sound(BlockOf(d, next), n, c) /\ BlockOf(d, next).text \in Text
        /\ TextLen(d, next) = Len(BlockOf(d, next).text)
    BY BlockOfIs DEF i
  <2> QED BY <2>1 DEF w
<1>3. MergedInto(d, prev, next) = u
  BY <1>1 DEF MergedInto
<1>4. Subtree(d, i, l) /\ Shape(d)
  BY <1>2, SubtreeIs DEF Tree
<1>5. /\ i \in Nat /\ l \in Nat /\ 1 <= i /\ i <= l /\ l <= Len(d) /\ Len(d) \in Nat
      /\ DOMAIN d = 1..Len(d)
      /\ \A k \in DOMAIN d : d[k].depth \in Nat
      /\ \A k \in (i + 1)..l : k \in DOMAIN d /\ d[k].depth > d[i].depth
  BY <1>4 DEF Subtree
<1>6. q \in Beside(d, i, l) /\ q # i
  <2> HIDE DEF l
  <2>1. q \in Nat /\ i \in Nat /\ l \in Nat
    BY <1>1, <1>5
  <2>2. ~SelfOrDescendant(d, i, q)
    OBVIOUS
  <2> HIDE DEF q, i
  <2>3. ASSUME i <= q, q <= l PROVE FALSE
    <3>1. \A k \in (i + 1)..q : d[k].depth > d[i].depth
      BY <2>1, <2>3, <1>5
    <3> QED BY <2>2, <2>3, <3>1 DEF SelfOrDescendant
  <2>4. q < i \/ q > l
    BY <2>1, <2>3
  <2> QED BY <1>1, <1>5, <2>1, <2>4 DEF Beside
<1>7. /\ Apart(d[q], d[i]) /\ Distinct(t) /\ Distinct(w)
      /\ (\A x \in Names(t) : x < c) /\ (\A x \in Names(w) : x < c)
      /\ \A k \in DOMAIN d : k # q => Names(t) \cap Names(d[k].text) = {}
      /\ \A k \in DOMAIN d : k # i => Names(w) \cap Names(d[k].text) = {}
  BY <1>1, <1>2, <1>6, SoundIs DEF Tree, AllApart, Apart
<1>8. Spells(T, Names(t) \cup Names(w)) /\ Len(T) = Len(t) + Len(w) /\ T \in Text
  <2>1. Len(t) \in 0..Len(t)
    BY <1>1, TextIs
  <2>2. Spells(t, Names(t)) /\ Spells(w, Names(w)) /\ Names(t) \cap Names(w) = {}
    BY <1>1, <1>2, <1>7 DEF Spells, Apart
  <2> HIDE DEF t, w
  <2>3. Spells(T, Names(t) \cup Names(w)) /\ Len(T) = Len(t) + Len(w)
    BY <1>1, <1>2, <2>1, <2>2, GraftedIs
  <2> QED BY <2>3 DEF Spells
<1> HIDE DEF T
<1>9. b \in Block /\ b.id = prev /\ b.text = T /\ b.depth = d[q].depth /\ b.rich = d[q].rich /\ b.kind = d[q].kind
  BY <1>1, <1>8, SoundIs DEF Block, Text
<1>10. d1 = [d EXCEPT ![q] = b]
  BY DEF SetText
<1> HIDE DEF b, d1
<1>11. Shape(d1) /\ Swapped(d, q, b, d1)
  BY <1>1, <1>4, <1>9, <1>10, SwapShape
<1>12. /\ Len(d1) = Len(d) /\ DOMAIN d1 = DOMAIN d /\ d1[q] = b
       /\ \A k \in DOMAIN d : k # q => d1[k] = d[k]
       /\ \A k \in DOMAIN d : d1[k].depth = d[k].depth /\ d1[k].id = d[k].id
  BY <1>1, <1>9, <1>11 DEF Swapped
<1> HIDE DEF l
<1>13. Subtree(d1, i, l)
  BY <1>4, <1>5, <1>12, <1>2 DEF Subtree
<1>14. \A a \in Beside(d, i, l) : a \in DOMAIN d /\ a # i
  BY <1>5 DEF Beside
<1>15. \A k \in DOMAIN d : k # i /\ k # q => Names(T) \cap Names(d[k].text) = {}
  BY <1>7, <1>8 DEF Spells
<1>16. ASSUME NEW a \in Beside(d, i, l), NEW k \in DOMAIN d, k # i, k # a PROVE Apart(d1[a], d[k])
  <2>1. Apart(d[a], d[k])
    BY <1>14, <1>16 DEF Tree, AllApart
  <2>2. CASE a = q
    BY <2>1, <2>2, <1>9, <1>12, <1>15, <1>16, <1>1 DEF Apart
  <2>3. CASE a # q
    BY <2>1, <2>3, <1>12, <1>14
  <2> QED BY <2>2, <2>3
<1>17. ApartBeside(d1, i, l)
  <2>1. SUFFICES ASSUME NEW a \in Beside(d, i, l), NEW k \in Beside(d, i, l), a # k PROVE Apart(d1[a], d1[k])
    BY <1>12 DEF ApartBeside, Beside
  <2>2. Apart(d1[a], d[k]) /\ Apart(d1[k], d[a]) /\ d1[k].id = d[k].id
    BY <2>1, <1>12, <1>14, <1>16
  <2>3. CASE k # q
    BY <2>2, <2>3, <1>12, <1>14
  <2>4. CASE a # q
    <3>1. Apart(d1[k], d1[a])
      BY <2>2, <2>4, <1>12, <1>14
    <3> QED BY <3>1, ApartBoth
  <2> QED BY <2>1, <2>3, <2>4
<1>18. \A a \in Beside(d1, i, l) : Sound(d1[a], n, c)
  <2>1. Sound(b, n, c)
    <3>1. \A x \in Names(T) : x < c
      BY <1>7, <1>8 DEF Spells
    <3>2. Distinct(T)
      BY <1>8 DEF Spells
    <3> QED BY <1>1, <1>9, <3>1, <3>2 DEF Sound
  <2>2. ASSUME NEW a \in Beside(d1, i, l) PROVE Sound(d1[a], n, c)
    <3>1. a \in DOMAIN d
      BY <1>12 DEF Beside
    <3> QED BY <3>1, <2>1, <1>12 DEF Tree
  <2> QED BY <2>2
<1>19. /\ Tree(rest, n, c)
       /\ \A k \in DOMAIN rest : \E a \in Beside(d, i, l) : rest[k] = d1[a]
       /\ \A a \in Beside(d, i, l) : \E k \in DOMAIN rest : rest[k] = d1[a]
  <2>1. Beside(d1, i, l) = Beside(d, i, l)
    BY <1>12 DEF Beside
  <2>2. /\ Tree(rest, n, c)
        /\ \A k \in DOMAIN rest : \E a \in Beside(d1, i, l) : rest[k] = d1[a]
        /\ \A a \in Beside(d1, i, l) : \E k \in DOMAIN rest : rest[k] = d1[a]
    <3> HIDE DEF i, l, d1
    <3>1. SoundBeside(d1, i, l, n, c) /\ Shape(d1)
      BY <1>11, <1>17, <1>18 DEF SoundBeside
    <3>2. Tree(rest, n, c) /\ Remains(d1, i, l, rest)
      BY <3>1, <1>13, Removed
    <3> HIDE DEF rest
    <3> QED BY <3>2 DEF Remains
  <2> QED BY <2>1, <2>2
<1> HIDE DEF rest
<1>20. p \in DOMAIN rest /\ rest[p] = b
  <2>1. PICK k \in DOMAIN rest : rest[k] = b
    BY <1>6, <1>12, <1>19
  <2>2. Has(rest, rest[k].id) /\ At(rest, rest[k].id) = k
    BY <1>19, AtIs DEF Tree
  <2> QED BY <2>1, <2>2, <1>9
<1> HIDE DEF p
<1>21. Subtree(rest, p, L)
  BY <1>19, <1>20, SubtreeIs DEF Tree
<1> HIDE DEF L
<1> DEFINE h == rest[p].depth + 1
<1>22. rest[p].depth = d[q].depth /\ rest[p].depth \in Nat /\ d[i].depth \in Nat /\ h \in Nat /\ by \in Int
  BY <1>1, <1>2, <1>5, <1>9, <1>20
<1>23. \A k \in (i + 1)..l : d[k].depth + by \in Nat /\ d[k].depth + by >= h
  <2>1. SUFFICES ASSUME NEW k \in (i + 1)..l PROVE d[k].depth + by \in Nat /\ d[k].depth + by >= h
    OBVIOUS
  <2> DEFINE x == d[k].depth
             y == d[i].depth
             z == rest[p].depth
  <2>2. x \in Nat /\ y \in Nat /\ z \in Nat /\ x > y
    BY <1>5, <1>22
  <2> HIDE DEF x, y, z
  <2>3. x + (z - y) \in Nat /\ x + (z - y) >= z + 1
    BY <2>2
  <2> QED BY <2>3 DEF x, y, z
<1>24. i + 1 <= l => d[i + 1].depth + by = h
  <2>1. SUFFICES ASSUME i + 1 <= l PROVE d[i + 1].depth + by = h
    OBVIOUS
  <2>2. i + 1 \in (i + 1)..l /\ i \in 1..(Len(d) - 1)
    BY <2>1, <1>5
  <2>3. d[i + 1].depth <= d[i].depth + 1 /\ d[i + 1].depth > d[i].depth /\ d[i + 1].depth \in Nat
    BY <2>2, <1>4, <1>5 DEF Shape, Nested
  <2>4. d[i + 1].depth = d[i].depth + 1
    BY <2>3, <1>22
  <2> DEFINE x == d[i + 1].depth
             y == d[i].depth
             z == rest[p].depth
  <2>5. x = y + 1 /\ y \in Nat /\ z \in Nat
    BY <2>4, <1>22
  <2> HIDE DEF x, y, z
  <2>6. x + (z - y) = z + 1
    BY <2>5
  <2> QED BY <2>6 DEF x, y, z
<1> HIDE DEF by
<1>25. Shifted(d, i + 1, l, by, s) /\ Nested(s)
  <2>1. i + 1 \in Nat /\ 1 <= i + 1
    BY <1>5
  <2> QED BY <2>1, <1>4, <1>5, <1>22, <1>23, ShiftIs
<1> HIDE DEF s, h
<1>26. /\ s \in Seq(Block) /\ DOMAIN s = 1..Len(s) /\ Len(s) \in Nat
       /\ \A k \in DOMAIN s : (i + 1) + k - 1 \in (i + 1)..l /\ s[k].depth = d[(i + 1) + k - 1].depth + by
                              /\ s[k].id = d[(i + 1) + k - 1].id /\ s[k].text = d[(i + 1) + k - 1].text
                              /\ s[k].rich = d[(i + 1) + k - 1].rich /\ s[k].kind = d[(i + 1) + k - 1].kind
       /\ s # <<>> => i + 1 <= l /\ Len(s) > 0
  BY <1>25 DEF Shifted
<1>27. AllApart(s) /\ \A k \in DOMAIN s : Sound(s[k], n, c)
  <2>1. i + 1 \in Nat
    BY <1>5
  <2>2. \A k \in (i + 1)..l : k \in DOMAIN d /\ Sound(d[k], n, c)
    BY <1>5 DEF Tree
  <2>3. \A k, e \in (i + 1)..l : k # e => Apart(d[k], d[e])
    BY <2>2 DEF Tree, AllApart
  <2> QED BY <2>1, <2>2, <2>3, <1>25, ShiftedSound
<1>28. (s # <<>> => s[1].depth = h) /\ \A k \in DOMAIN s : s[k].depth >= h
  <2>1. ASSUME s # <<>> PROVE s[1].depth = h
    <3>1. 1 \in DOMAIN s /\ (i + 1) + 1 - 1 = i + 1
      BY <2>1, <1>5, <1>26
    <3> QED BY <3>1, <2>1, <1>24, <1>26
  <2>2. ASSUME NEW k \in DOMAIN s PROVE s[k].depth >= h
    BY <1>23, <1>26
  <2> QED BY <2>1, <2>2
<1>29. ASSUME NEW k \in DOMAIN rest, NEW m \in DOMAIN s PROVE Apart(rest[k], s[m])
  <2>1. PICK a \in Beside(d, i, l) : rest[k] = d1[a]
    BY <1>19
  <2> DEFINE e == (i + 1) + m - 1
  <2>2. e \in (i + 1)..l /\ s[m].id = d[e].id /\ s[m].text = d[e].text
    BY <1>26
  <2> HIDE DEF e
  <2>3. e \in DOMAIN d /\ e # i /\ e # a
    <3>1. a < i \/ a > l
      BY DEF Beside
    <3>2. e \in DOMAIN d /\ e # i
      BY <2>2, <1>5
    <3>3. a \in DOMAIN d
      BY DEF Beside
    <3>4. e # a
      BY <3>1, <3>3, <2>2, <1>5
    <3> QED BY <3>2, <3>4
  <2>4. Apart(d1[a], d[e])
    BY <2>3, <1>16
  <2> QED BY <2>1, <2>2, <2>4 DEF Apart
<1>30. RoomAt(rest, L + 1, h)
  <2>1. rest[p].depth <= h /\ h <= rest[p].depth + 1 /\ h \in Nat
    BY <1>22 DEF h
  <2> QED BY <2>1, <1>21, EndRoom
<1>31. Tree(u, n, c) /\ Mixed(rest, s, u)
  <2>1. (L + 1) - 1 = L
    BY <1>21 DEF Subtree
  <2>2. Tree(Splice(rest, L + 1, (L + 1) - 1, s), n, c) /\ Mixed(rest, s, Splice(rest, L + 1, (L + 1) - 1, s))
    BY <1>19, <1>26, <1>25, <1>27, <1>28, <1>29, <1>30, Planting
  <2> QED BY <2>1, <2>2
<1> HIDE DEF u
<1>32. Stems(u, d, n, prev)
  <2>1. SUFFICES ASSUME NEW k \in DOMAIN u PROVE \E j \in DOMAIN d : Old(u[k], d[j], prev)
    BY DEF Stems
  <2>2. CASE \E a \in DOMAIN rest : u[k] = rest[a]
    <3>1. PICK a \in Beside(d, i, l) : u[k] = d1[a]
      BY <2>2, <1>19
    <3>2. a \in DOMAIN d /\ Old(d1[a], d[a], prev)
      BY <1>1, <1>9, <1>12, <1>14 DEF Old
    <3> QED BY <3>1, <3>2
  <2>3. CASE \E m \in DOMAIN s : u[k] = s[m]
    <3>1. PICK m \in DOMAIN s : u[k] = s[m]
      BY <2>3
    <3>2. (i + 1) + m - 1 \in DOMAIN d
      BY <1>5, <1>26
    <3>3. Old(u[k], d[(i + 1) + m - 1], prev)
      BY <3>1, <1>26 DEF Old
    <3> QED BY <3>2, <3>3
  <2> QED BY <2>2, <2>3, <1>31 DEF Mixed
<1>33. PICK k \in DOMAIN u : u[k] = b
  BY <1>20, <1>31 DEF Mixed
<1>34. Has(u, prev) /\ TextLen(u, prev) = Len(T)
  BY <1>9, <1>31, <1>33, Standing DEF Tree
<1>35. u # <<>>
  BY <1>33
<1> QED BY <1>1, <1>2, <1>3, <1>8, <1>31, <1>32, <1>34, <1>35, DocIs

(***************************************************************************)
(* Pasted blocks.                                                          *)
(***************************************************************************)

\* The blocks the fragments f become, named from new on, below depth base.
Sprouts(f, new, base) ==
  [k \in DOMAIN f |-> [NewBlock(new + k - 1, f[k].kind, f[k].attr, base + f[k].depth)
                         EXCEPT !.text = Copied(f[k].text)]]

\* What the clipboard's fragments are.
LEMMA FragmentIs ==
  ASSUME NEW f, Fragments(f)
  PROVE  /\ Len(f) \in Nat /\ DOMAIN f = 1..Len(f) /\ (f # <<>> <=> Len(f) > 0)
         /\ \A k \in DOMAIN f : /\ f[k] \in Fragment /\ f[k].kind \in Kinds /\ f[k].attr \in Word
                                /\ f[k].depth \in Nat /\ f[k].text \in Text
                                /\ f[k].text # <<>> => HasInline(f[k].kind)
<1>1. f \in Seq(Fragment)
  BY DEF Fragments
<1>2. /\ Len(f) \in Nat /\ DOMAIN f = 1..Len(f) /\ (f # <<>> <=> Len(f) > 0)
      /\ \A k \in DOMAIN f : f[k] \in Fragment
  BY <1>1, SeqIs
<1> QED BY <1>2 DEF Fragment, Fragments

\* What pasted blocks are: new, below base, with copied text.
Sprouted(f, new, base, c, s) ==
  /\ s \in Seq(Block) /\ DOMAIN s = DOMAIN f /\ Len(s) = Len(f) /\ Nested(s) /\ AllApart(s)
  /\ \A k \in DOMAIN s : /\ Sound(s[k], new + Len(f), c) /\ s[k].id = new + k - 1 /\ s[k].id >= new
                         /\ Names(s[k].text) = {} /\ s[k].depth = base + f[k].depth /\ s[k].depth >= base
  /\ s # <<>> => s[1].depth = base

LEMMA SproutsAre ==
  ASSUME NEW f, Fragments(f), NEW new \in Nat, new # 0, NEW base \in Nat, NEW c \in Nat
  PROVE  Sprouted(f, new, base, c, Sprouts(f, new, base))
<1> DEFINE s == Sprouts(f, new, base)
           n == Len(f)
<1>1. /\ n \in Nat /\ DOMAIN f = 1..n /\ (f # <<>> <=> n > 0)
      /\ \A k \in 1..n : /\ f[k].kind \in Kinds /\ f[k].attr \in Word
                         /\ f[k].depth \in Nat /\ f[k].text \in Text
                         /\ f[k].text # <<>> => HasInline(f[k].kind)
  BY FragmentIs
<1> HIDE DEF n
<1>2. ASSUME NEW k \in 1..n
      PROVE  /\ s[k] \in Block /\ Sound(s[k], new + n, c) /\ s[k].id = new + k - 1
             /\ Names(s[k].text) = {} /\ s[k].depth = base + f[k].depth
  <2> DEFINE id == new + k - 1
             kind == f[k].kind
             attr == f[k].attr
             depth == base + f[k].depth
             x == NewBlock(id, kind, attr, depth)
             t == Copied(f[k].text)
             b == [x EXCEPT !.text = t]
  <2>1. s[k] = b
    BY <1>1 DEF Sprouts
  <2>2. id \in Nat /\ id # 0 /\ id < new + n /\ kind \in Kinds /\ attr \in Word /\ depth \in Nat /\ new + n \in Nat
    BY <1>1
  <2> HIDE DEF id, kind, attr, depth
  <2>3. Sound(x, new + n, c) /\ Blank(x, id, kind, depth)
    BY <2>2, NewBlockIs
  <2>4. x \in Block /\ x.id = id /\ x.depth = depth /\ x.kind = kind /\ x.rich = HasInline(kind)
    BY <2>3 DEF Blank
  <2>5. t \in Text /\ Len(t) = Len(f[k].text) /\ Spells(t, {})
    BY <1>1, CopiedIs
  <2> HIDE DEF x, t
  <2>6. b \in Block /\ b.id = id /\ b.depth = depth /\ b.text = t /\ b.kind = kind /\ b.rich = HasInline(kind)
    BY <2>4, <2>5 DEF Block, Text
  <2> HIDE DEF b
  <2>7. Distinct(t) /\ Names(t) = {}
    BY <2>5 DEF Spells
  <2>8. t # <<>> => HasInline(kind)
    BY <1>1, <2>5, TextIs DEF kind
  <2>9. Sound(b, new + n, c)
    BY <2>2, <2>6, <2>7, <2>8 DEF Sound
  <2> QED BY <2>1, <2>6, <2>7, <2>9 DEF id, depth
<1>3. s \in [1..n -> Block]
  <2>1. s = [k \in 1..n |-> s[k]]
    BY <1>1 DEF Sprouts
  <2> HIDE DEF s
  <2> QED BY <2>1, <1>2
<1> HIDE DEF s
<1>4. s \in Seq(Block) /\ Len(s) = n /\ DOMAIN s = 1..n
  BY <1>1, <1>3, FcnIsSeq
<1>5. Nested(s)
  <2>1. SUFFICES ASSUME NEW k \in 1..(n - 1) PROVE s[k + 1].depth <= s[k].depth + 1
    BY <1>4 DEF Nested
  <2>2. k \in 1..n /\ k + 1 \in 1..n /\ f[k + 1].depth <= f[k].depth + 1
    BY <1>1 DEF Fragments, Nested, n
  <2> DEFINE x == f[k].depth
             y == f[k + 1].depth
  <2>3. x \in Nat /\ y \in Nat /\ y <= x + 1 /\ s[k].depth = base + x /\ s[k + 1].depth = base + y
    BY <2>2, <1>1, <1>2
  <2> HIDE DEF x, y
  <2> QED BY <2>3
<1>6. \A k \in 1..n : s[k].id >= new /\ s[k].depth >= base
  <2>1. SUFFICES ASSUME NEW k \in 1..n PROVE s[k].id >= new /\ s[k].depth >= base
    OBVIOUS
  <2>2. s[k].id = new + k - 1 /\ s[k].depth = base + f[k].depth /\ f[k].depth \in Nat
    BY <1>1, <1>2
  <2> QED BY <2>2, <1>1
<1>7. AllApart(s)
  <2>1. SUFFICES ASSUME NEW k \in 1..n, NEW l \in 1..n, k # l PROVE Apart(s[k], s[l])
    BY <1>4 DEF AllApart
  <2>2. s[k].id = new + k - 1 /\ s[l].id = new + l - 1 /\ Names(s[k].text) = {}
    BY <1>2
  <2>3. s[k].id # s[l].id
    BY <2>1, <2>2, <1>1
  <2> QED BY <2>2, <2>3 DEF Apart
<1>8. s # <<>> => s[1].depth = base
  <2>1. SUFFICES ASSUME s # <<>> PROVE s[1].depth = base
    OBVIOUS
  <2>2. n > 0 /\ f # <<>>
    BY <2>1, <1>1, <1>4, BlocksAre
  <2>3. f[1].depth = 0 /\ 1 \in 1..n
    BY <2>2, <1>1 DEF Fragments, Rooted
  <2> QED BY <2>3, <1>2
<1> QED BY <1>1, <1>2, <1>4, <1>5, <1>6, <1>7, <1>8 DEF s, n, Sprouted

\* Pasted blocks planted behind the subtree of a block.
LEMMA SproutedIs ==
  ASSUME NEW n \in Nat, NEW c \in Nat, NEW d, Tree(d, n, c), NEW id, Has(d, id),
         NEW f, Fragments(f), NEW new \in Nat, n <= new
  PROVE  LET at == LastOf(d, At(d, id))
             u == Splice(d, at + 1, at, Sprouts(f, new, BlockOf(d, id).depth))
         IN  Doc(u, new + Len(f), c) /\ \A z : Stems(u, d, n, z)
<1> DEFINE i == At(d, id)
           at == LastOf(d, i)
           base == BlockOf(d, id).depth
           s == Sprouts(f, new, base)
           u == Splice(d, at + 1, at, s)
           n1 == new + Len(f)
<1>1. i \in DOMAIN d /\ base = d[i].depth /\ 0 < new /\ base \in Nat
  <2>1. At(d, id) \in DOMAIN d /\ BlockOf(d, id) = d[At(d, id)] /\ Sound(BlockOf(d, id), n, c) /\ 0 < new
    BY BlockOfIs
  <2> QED BY <2>1, SoundIs
<1>2. Subtree(d, i, at)
  BY <1>1, SubtreeIs DEF Tree
<1> HIDE DEF at, base, i
<1>3. RoomAt(d, at + 1, base)
  <2>1. d[i].depth <= base /\ base <= d[i].depth + 1
    BY <1>1
  <2> QED BY <2>1, <1>1, <1>2, EndRoom
<1>4. Len(f) \in Nat
  BY FragmentIs
<1>5. /\ s \in Seq(Block) /\ DOMAIN s = DOMAIN f /\ Nested(s) /\ AllApart(s)
      /\ \A k \in DOMAIN s : /\ Sound(s[k], n1, c) /\ s[k].id >= new
                             /\ Names(s[k].text) = {} /\ s[k].depth >= base
      /\ s # <<>> => s[1].depth = base
  <2>2. new # 0
    BY <1>1
  <2>3. Sprouted(f, new, base, c, s)
    BY <1>1, <2>2, SproutsAre
  <2> QED BY <2>3 DEF Sprouted
<1>6. n1 \in Nat /\ n <= n1
  BY <1>4
<1> HIDE DEF s, n1
<1>7. Tree(d, n1, c)
  <2>1. c <= c
    OBVIOUS
  <2> QED BY <2>1, <1>6, TreeLater
<1>8. ASSUME NEW k \in DOMAIN d, NEW m \in DOMAIN s PROVE Apart(d[k], s[m])
  <2>1. d[k].id \in Nat /\ d[k].id < n
    BY SoundIs DEF Tree
  <2>2. s[m] \in Block /\ s[m].id \in Nat /\ s[m].id >= new
    BY <1>5, BlocksAre
  <2>3. d[k].id # s[m].id
    BY <2>1, <2>2
  <2> QED BY <2>3, <1>5 DEF Apart
<1>9. Tree(u, n1, c) /\ Mixed(d, s, u)
  <2>1. (at + 1) - 1 = at
    BY <1>2 DEF Subtree
  <2>2. Tree(Splice(d, at + 1, (at + 1) - 1, s), n1, c) /\ Mixed(d, s, Splice(d, at + 1, (at + 1) - 1, s))
    BY <1>3, <1>5, <1>7, <1>8, Planting
  <2> QED BY <2>1, <2>2
<1> HIDE DEF u
<1>10. ASSUME NEW z PROVE Stems(u, d, n, z)
  <2>1. SUFFICES ASSUME NEW k \in DOMAIN u PROVE u[k].id >= n \/ \E j \in DOMAIN d : Old(u[k], d[j], z)
    BY DEF Stems
  <2>2. CASE \E a \in DOMAIN d : u[k] = d[a]
    BY <2>2 DEF Old
  <2>3. CASE \E m \in DOMAIN s : u[k] = s[m]
    <3>1. PICK m \in DOMAIN s : u[k] = s[m]
      BY <2>3
    <3>2. s[m].id \in Nat /\ s[m].id >= new
      BY <1>5, BlocksAre
    <3> QED BY <3>1, <3>2
  <2> QED BY <2>2, <2>3, <1>9 DEF Mixed
<1>11. u # <<>>
  BY <1>1, <1>9 DEF Mixed
<1> QED BY <1>9, <1>10, <1>11, DocIs DEF u, n1, s, base, at, i

(***************************************************************************)
(* The editor: committing a change, and the block commands.                *)
(***************************************************************************)

\* What an editor is.
LEMMA EditorIs ==
  ASSUME NEW e \in Editors
  PROVE  /\ e.doc \in Seq(Block) /\ e.sel \in Sel /\ e.past \in Seq(Seq(Block)) /\ e.future \in Seq(Seq(Block))
         /\ e.run \in BOOLEAN /\ e.group \in {"none", "opened", "used"} /\ e.threw \in BOOLEAN /\ e.fresh \in Nat
         /\ e.doc \in Docs(e) /\ Range(e.past) \subseteq Docs(e) /\ Range(e.future) \subseteq Docs(e)
BY DEF Editors, Docs

\* What a good editor is.
LEMMA GoodIs ==
  ASSUME NEW e, NEW c, Good(e, c)
  PROVE  /\ e \in Editors /\ c \in Nat /\ c <= e.fresh /\ e.fresh \in Nat /\ e.sel \in Sel
         /\ e.threw \in BOOLEAN /\ e.group \in {"none", "opened", "used"}
         /\ Doc(e.doc, e.fresh, c) /\ Tree(e.doc, e.fresh, c) /\ e.doc # <<>> /\ e.doc \in Seq(Block)
<1>1. e \in Editors /\ c \in Nat /\ c <= e.fresh /\ \A d \in Docs(e) : Doc(d, e.fresh, c)
  BY DEF Good
<1>2. Doc(e.doc, e.fresh, c)
  BY <1>1, EditorIs
<1> QED BY <1>1, <1>2, EditorIs, DocIs

\* An editor with no new documents is good if it was.
LEMMA SameDocs ==
  ASSUME NEW e, NEW c, Good(e, c), NEW x \in Editors, Docs(x) \subseteq Docs(e),
         e.fresh <= x.fresh, NEW c1 \in Nat, c <= c1, c1 <= x.fresh
  PROVE  Good(x, c1)
<1>1. e.fresh \in Nat /\ x.fresh \in Nat /\ c \in Nat
  BY GoodIs, EditorIs
<1>2. \A d \in Docs(x) : Doc(d, x.fresh, c1)
  BY <1>1, DocLater DEF Good
<1>3. \A d1, d2 \in Docs(x) : Kin(d1, d2)
  BY DEF Good
<1> QED BY <1>2, <1>3 DEF Good

\* An editor with one more document, grown from the one it had, is good.
LEMMA OneMore ==
  ASSUME NEW e, NEW c, Good(e, c), NEW x \in Editors, NEW d, Docs(x) \subseteq Docs(e) \cup {d},
         e.fresh <= x.fresh, NEW c1 \in Nat, c <= c1, c1 <= x.fresh,
         Doc(d, x.fresh, c1), NEW z, Stems(d, e.doc, e.fresh, z)
  PROVE  Good(x, c1)
<1>1. e.fresh \in Nat /\ x.fresh \in Nat /\ c \in Nat /\ e.doc \in Docs(e) /\ e \in Editors
  BY GoodIs, EditorIs
<1>2. \A y \in Docs(x) : Doc(y, x.fresh, c1)
  <2>1. \A y \in Docs(e) : Doc(y, x.fresh, c1)
    BY <1>1, DocLater DEF Good
  <2> QED BY <2>1
<1>3. \A d1, d2 \in Docs(e) : Kin(d1, d2)
  BY DEF Good
<1>4. ASSUME NEW y \in Docs(e) PROVE Kin(d, y) /\ Kin(y, d)
  <2>1. SUFFICES ASSUME NEW k \in DOMAIN d, NEW j \in DOMAIN y, d[k].id = y[j].id
                 PROVE  (HasInline(d[k].kind) => y[j].rich) /\ (HasInline(y[j].kind) => d[k].rich)
    BY DEF Kin
  <2>2. Sound(y[j], e.fresh, c)
    BY DEF Good, Doc
  <2>3. ~(d[k].id >= e.fresh)
    BY <1>1, <2>1, <2>2, SoundIs
  <2>4. PICK i \in DOMAIN e.doc : Old(d[k], e.doc[i], z)
    BY <2>3 DEF Stems
  <2>5. (HasInline(e.doc[i].kind) => y[j].rich) /\ (HasInline(y[j].kind) => e.doc[i].rich)
    BY <1>1, <1>3, <2>1, <2>4 DEF Old, Kin
  <2> QED BY <2>4, <2>5 DEF Old
<1>5. Kin(d, d)
  BY DEF Doc, Sound, Kin, AllApart, Apart
<1>6. \A d1, d2 \in Docs(x) : Kin(d1, d2)
  BY <1>3, <1>4, <1>5
<1> QED BY <1>2, <1>6 DEF Good

LEMMA RangeAppend ==
  ASSUME NEW S, NEW s \in Seq(S), NEW x
  PROVE  Range(Append(s, x)) \subseteq Range(s) \cup {x}
<1>1. SUFFICES ASSUME NEW k \in DOMAIN Append(s, x) PROVE Append(s, x)[k] \in Range(s) \cup {x}
  BY DEF Range
<1>2. Len(s) \in Nat /\ DOMAIN s = 1..Len(s) /\ DOMAIN Append(s, x) = 1..(Len(s) + 1)
  BY SeqIs
<1>3. CASE k = Len(s) + 1
  BY <1>3, <1>2
<1>4. CASE k # Len(s) + 1
  <2>1. k \in 1..Len(s)
    BY <1>2, <1>4
  <2>2. Append(s, x)[k] = s[k]
    BY <2>1
  <2> QED BY <2>1, <2>2, <1>2 DEF Range
<1> QED BY <1>3, <1>4

\* What x is, once the change of e to d was committed, or refused.
Done(e, ok, d, m, c, x) ==
  /\ Good(x, c) /\ x.fresh = e.fresh + m /\ x.sel = e.sel /\ x.threw = (e.threw \/ ~ok)
  /\ x.doc = IF ok /\ ~e.threw THEN d ELSE e.doc

\* Where the command is allowed, d is a document that uses at most m more names.
Ready(e, ok, d, m, c, z) ==
  ok /\ ~e.threw => Doc(d, e.fresh + m, c) /\ Stems(d, e.doc, e.fresh, z)

\* A commit: the old document goes on the stack, the new one takes its place,
\* and what could be redone is gone; a refused command throws.
LEMMA DoIs ==
  ASSUME NEW e, NEW c, Good(e, c), NEW ok \in BOOLEAN, NEW d, NEW text \in BOOLEAN, NEW m \in Nat,
         NEW c1 \in Nat, c <= c1, c1 <= e.fresh + m, NEW z,
         Ready(e, ok, d, m, c1, z)
  PROVE  /\ Done(e, ok, d, m, c1, Use(Do(e, ok, d, text), m))
         /\ Do(e, ok, d, text) \in Editors /\ Do(e, ok, d, text).fresh = e.fresh
<1> DEFINE y == Do(e, ok, d, text)
           x == Use(y, m)
<1>1. /\ e \in Editors /\ e.doc \in Seq(Block) /\ e.sel \in Sel /\ e.past \in Seq(Seq(Block))
      /\ e.future \in Seq(Seq(Block)) /\ e.run \in BOOLEAN /\ e.group \in {"none", "opened", "used"}
      /\ e.threw \in BOOLEAN /\ e.fresh \in Nat /\ e.fresh + m \in Nat /\ e.fresh <= e.fresh + m
  BY GoodIs, EditorIs
<1>2. x = [y EXCEPT !.fresh = y.fresh + m]
  BY DEF Use
<1>3. ASSUME y \in Editors, y.fresh = e.fresh
      PROVE  x \in Editors /\ x.fresh = e.fresh + m /\ Docs(x) = Docs(y) /\ x.sel = y.sel /\ x.threw = y.threw /\ x.doc = y.doc
  <2> HIDE DEF x, y
  <2>1. x = [y EXCEPT !.fresh = e.fresh + m]
    BY <1>2, <1>3
  <2>2. x \in Editors /\ x.fresh = e.fresh + m /\ x.sel = y.sel /\ x.threw = y.threw /\ x.doc = y.doc
        /\ x.past = y.past /\ x.future = y.future
    BY <1>1, <1>3, <2>1 DEF Editors
  <2> QED BY <2>2 DEF Docs
<1>4. CASE e.threw
  <2>1. y = e
    BY <1>4 DEF Do
  <2> HIDE DEF x, y
  <2>2. x \in Editors /\ x.fresh = e.fresh + m /\ Docs(x) = Docs(e) /\ x.sel = e.sel /\ x.threw = e.threw /\ x.doc = e.doc
    BY <1>1, <1>3, <2>1
  <2>3. Good(x, c1)
    BY <1>1, <2>2, SameDocs
  <2> QED BY <1>1, <1>4, <2>1, <2>2, <2>3 DEF x, y, Done
<1>5. CASE ~e.threw /\ ~ok
  <2>1. y = [e EXCEPT !.threw = TRUE]
    BY <1>5 DEF Do
  <2> HIDE DEF x, y
  <2>2. y \in Editors /\ y.fresh = e.fresh /\ y.sel = e.sel /\ y.threw = TRUE /\ y.doc = e.doc
        /\ y.past = e.past /\ y.future = e.future
    BY <1>1, <2>1 DEF Editors
  <2>3. x \in Editors /\ x.fresh = e.fresh + m /\ Docs(x) = Docs(e) /\ x.sel = e.sel /\ x.threw = TRUE /\ x.doc = e.doc
    BY <1>3, <2>2 DEF Docs
  <2>4. Good(x, c1)
    BY <1>1, <2>3, SameDocs
  <2> QED BY <1>1, <1>5, <2>2, <2>3, <2>4 DEF x, y, Done
<1>6. CASE ~e.threw /\ ok /\ d = e.doc
  <2>1. y = [e EXCEPT !.run = text]
    BY <1>6 DEF Do, Commit
  <2> HIDE DEF x, y
  <2>2. y \in Editors /\ y.fresh = e.fresh /\ y.sel = e.sel /\ y.threw = e.threw /\ y.doc = e.doc
        /\ y.past = e.past /\ y.future = e.future
    BY <1>1, <2>1 DEF Editors
  <2>3. x \in Editors /\ x.fresh = e.fresh + m /\ Docs(x) = Docs(e) /\ x.sel = e.sel /\ x.threw = e.threw /\ x.doc = e.doc
    BY <1>3, <2>2 DEF Docs
  <2>4. Good(x, c1)
    BY <1>1, <2>3, SameDocs
  <2> QED BY <1>1, <1>6, <2>2, <2>3, <2>4 DEF x, y, Done
<1>7. CASE ~e.threw /\ ok /\ d # e.doc
  <2> DEFINE joins == e.past # <<>> /\ (e.group = "used" \/ (text /\ e.run))
             past == IF joins THEN e.past ELSE Append(e.past, e.doc)
             group == IF e.group = "none" THEN e.group ELSE "used"
  <2>0. Doc(d, e.fresh + m, c1) /\ Stems(d, e.doc, e.fresh, z)
    BY <1>7 DEF Ready
  <2>1. y = [e EXCEPT !.doc = d, !.run = text, !.future = <<>>, !.past = past, !.group = group]
    BY <1>7 DEF Do, Commit
  <2>2. past \in Seq(Seq(Block)) /\ <<>> \in Seq(Seq(Block)) /\ group \in {"none", "opened", "used"} /\ d \in Seq(Block)
    BY <1>1, <2>0 DEF Doc
  <2>3. Range(past) \subseteq Range(e.past) \cup {e.doc}
    BY <1>1, RangeAppend
  <2> HIDE DEF past, group, x, y, joins
  <2>4. y \in Editors /\ y.fresh = e.fresh /\ y.sel = e.sel /\ y.threw = e.threw /\ y.doc = d
        /\ y.past = past /\ y.future = <<>>
    BY <1>1, <2>1, <2>2 DEF Editors
  <2>5. Range(y.future) = {}
    BY <2>4 DEF Range
  <2>6. Docs(y) \subseteq Docs(e) \cup {d}
    BY <2>3, <2>4, <2>5 DEF Docs
  <2>7. x \in Editors /\ x.fresh = e.fresh + m /\ Docs(x) \subseteq Docs(e) \cup {d} /\ x.sel = e.sel
        /\ x.threw = e.threw /\ x.doc = d
    BY <1>3, <2>4, <2>6
  <2>8. Good(x, c1)
    BY <1>1, <2>0, <2>7, OneMore
  <2> QED BY <1>1, <1>7, <2>4, <2>7, <2>8 DEF x, y, Done
<1> QED BY <1>4, <1>5, <1>6, <1>7

LEMMA DoneIs ==
  ASSUME NEW e, NEW c, Good(e, c), NEW ok \in BOOLEAN, NEW d, NEW text \in BOOLEAN,
         NEW c1 \in Nat, c <= c1, c1 <= e.fresh, NEW z,
         Ready(e, ok, d, 0, c1, z)
  PROVE  Done(e, ok, d, 0, c1, Do(e, ok, d, text))
<1> DEFINE y == Do(e, ok, d, text)
           m == 0
<1>1. e.fresh \in Nat
  BY GoodIs
<1>2. m \in Nat /\ c1 <= e.fresh + m /\ Ready(e, ok, d, m, c1, z)
  BY <1>1
<1>3. Done(e, ok, d, m, c1, Use(y, m)) /\ y \in Editors /\ y.fresh = e.fresh
  <2> HIDE DEF m
  <2> QED BY <1>2, DoIs
<1> HIDE DEF y
<1>4. Use(y, m) = y
  <2>1. Use(y, m) = [y EXCEPT !.fresh = y.fresh + m]
    BY DEF Use
  <2>2. Use(y, m) = [y EXCEPT !.fresh = y.fresh]
    BY <1>1, <1>3, <2>1
  <2> QED BY <1>3, <2>2 DEF Editors
<1> QED BY <1>3, <1>4 DEF y, m

\* x is e after a command that used m names and left no character named from c on.
Steps(e, x, m, c, z) ==
  /\ Good(x, c) /\ x.fresh = e.fresh + m /\ x.sel = e.sel /\ (e.threw => x.threw /\ x.doc = e.doc)
  /\ Stems(x.doc, e.doc, e.fresh, z)

\* A command that commits a document it was ready to commit makes a good editor
\* of a good one.
LEMMA StepsIs ==
  ASSUME NEW e, NEW c, NEW c1, Good(e, c), NEW ok \in BOOLEAN, NEW d, NEW m, NEW x, Done(e, ok, d, m, c1, x),
         NEW z, Ready(e, ok, d, m, c1, z)
  PROVE  Steps(e, x, m, c1, z)
<1>1. e.threw \in BOOLEAN
  BY GoodIs
<1>2. Stems(e.doc, e.doc, e.fresh, z)
  BY StemsSame
<1>3. e.threw => x.threw /\ x.doc = e.doc
  BY <1>1 DEF Done
<1>4. Stems(x.doc, e.doc, e.fresh, z)
  BY <1>2 DEF Done, Ready
<1> QED BY <1>3, <1>4 DEF Done, Steps

\* A command that uses m names.
LEMMA Uses ==
  ASSUME NEW e, NEW c, Good(e, c), NEW ok \in BOOLEAN, NEW d, NEW text \in BOOLEAN, NEW m \in Nat,
         NEW c1 \in Nat, c <= c1, c1 <= e.fresh + m, NEW z, Ready(e, ok, d, m, c1, z)
  PROVE  /\ Done(e, ok, d, m, c1, Use(Do(e, ok, d, text), m))
         /\ Steps(e, Use(Do(e, ok, d, text), m), m, c1, z)
<1>1. Done(e, ok, d, m, c1, Use(Do(e, ok, d, text), m))
  BY DoIs
<1> QED BY <1>1, StepsIs

\* A command that uses no name.
LEMMA Does ==
  ASSUME NEW e, NEW c, Good(e, c), NEW ok \in BOOLEAN, NEW d, NEW text \in BOOLEAN,
         NEW c1 \in Nat, c <= c1, c1 <= e.fresh, NEW z, Ready(e, ok, d, 0, c1, z)
  PROVE  Done(e, ok, d, 0, c1, Do(e, ok, d, text)) /\ Steps(e, Do(e, ok, d, text), 0, c1, z)
<1>1. Done(e, ok, d, 0, c1, Do(e, ok, d, text))
  BY DoneIs
<1> QED BY <1>1, StepsIs

LEMMA ClampIs ==
  ASSUME NEW n \in Int, NEW lo \in Int, NEW hi \in Int, lo <= hi
  PROVE  /\ Clamp(n, lo, hi) \in lo..hi /\ Clamp(n, lo, hi) \in Int
         /\ lo <= n /\ n <= hi => Clamp(n, lo, hi) = n
BY DEF Clamp

\* The next name.
LEMMA FreshIs ==
  ASSUME NEW e, NEW c, Good(e, c)
  PROVE  /\ e.fresh \in Nat /\ e.fresh # 0 /\ c \in Nat /\ c <= e.fresh /\ c <= c /\ c <= e.fresh + 1 /\ c <= e.fresh + 2
<1>1. e.fresh \in Nat /\ c \in Nat /\ c <= e.fresh /\ Tree(e.doc, e.fresh, c) /\ e.doc # <<>> /\ e.doc \in Seq(Block)
  BY GoodIs
<1>2. 1 \in DOMAIN e.doc
  BY <1>1, BlocksAre
<1>3. Sound(e.doc[1], e.fresh, c)
  BY <1>1, <1>2 DEF Tree
<1>4. e.doc[1].id \in Nat /\ e.doc[1].id < e.fresh
  BY <1>1, <1>3, SoundIs
<1> QED BY <1>1, <1>4

\* A change that ends in a document of the same names.
LEMMA ReadyIs ==
  ASSUME NEW e, NEW c, Good(e, c), NEW ok, NEW d, NEW z,
         ok /\ ~e.threw => Tree(d, e.fresh, c) /\ d # <<>> /\ Stems(d, e.doc, e.fresh, z)
  PROVE  Ready(e, ok, d, 0, c, z)
<1>1. e.fresh \in Nat /\ e.fresh + 0 = e.fresh
  BY GoodIs
<1> QED BY <1>1, DocIs DEF Ready

\* A block that is live in the editor.
LEMMA LiveIs ==
  ASSUME NEW e, NEW c, Good(e, c), NEW id, Live(e, id)
  PROVE  /\ Has(e.doc, id) /\ Tree(e.doc, e.fresh, c) /\ e.doc # <<>> /\ Len(e.doc) > 0
         /\ At(e.doc, id) \in DOMAIN e.doc /\ BlockOf(e.doc, id) = e.doc[At(e.doc, id)] /\ BlockOf(e.doc, id).id = id
         /\ Sound(BlockOf(e.doc, id), e.fresh, c) /\ BlockOf(e.doc, id).text \in Text
         /\ TextLen(e.doc, id) = Len(BlockOf(e.doc, id).text) /\ TextLen(e.doc, id) \in Nat
         /\ id \in Nat /\ id < e.fresh /\ id # 0 /\ BlockOf(e.doc, id).rich \in BOOLEAN
         /\ Spells(BlockOf(e.doc, id).text, Names(BlockOf(e.doc, id).text))
         /\ HasInline(BlockOf(e.doc, id).kind) => BlockOf(e.doc, id).rich
<1>1. e.fresh \in Nat /\ c \in Nat /\ Tree(e.doc, e.fresh, c) /\ e.doc # <<>> /\ Has(e.doc, id) /\ e.doc \in Seq(Block)
  BY GoodIs DEF Live
<1>2. /\ At(e.doc, id) \in DOMAIN e.doc /\ BlockOf(e.doc, id) = e.doc[At(e.doc, id)] /\ BlockOf(e.doc, id).id = id
      /\ Sound(BlockOf(e.doc, id), e.fresh, c) /\ BlockOf(e.doc, id).text \in Text
      /\ TextLen(e.doc, id) = Len(BlockOf(e.doc, id).text) /\ TextLen(e.doc, id) \in Nat
      /\ id \in Nat /\ id < e.fresh /\ id # 0
  BY <1>1, BlockOfIs
<1>3. /\ BlockOf(e.doc, id).rich \in BOOLEAN /\ Distinct(BlockOf(e.doc, id).text)
      /\ HasInline(BlockOf(e.doc, id).kind) => BlockOf(e.doc, id).rich
  BY <1>1, <1>2, SoundIs
<1> QED BY <1>1, <1>2, <1>3, BlocksAre DEF Spells

LEMMA GuardsAre ==
  ASSUME NEW e, NEW id
  PROVE  Live(e, id) \in BOOLEAN /\ (Inline(e, id) \in BOOLEAN)
BY DEF Live, Has, Inline, HasInline

\* A block that holds text has a text container.
LEMMA RichIs ==
  ASSUME NEW e, NEW c, Good(e, c), NEW id
  PROVE  Rich(e, id) \in BOOLEAN /\ (Rich(e, id) => Live(e, id) /\ BlockOf(e.doc, id).rich) /\ (Inline(e, id) => Rich(e, id))
<1>1. CASE Live(e, id)
  BY <1>1, LiveIs DEF Rich, Inline
<1>2. CASE ~Live(e, id)
  BY <1>2 DEF Rich, Inline
<1> QED BY <1>1, <1>2

\* block.insert.
LEMMA BlockInsertIs ==
  ASSUME NEW e, NEW c, Good(e, c), NEW parent, NEW n, NEW kind \in Kinds, NEW attr \in Word, NEW z
  PROVE  Steps(e, BlockInsert(e, parent, n, kind, attr), 1, c, z)
<1> DEFINE b == NewBlock(e.fresh, kind, attr, 0)
           d == Inserted(e.doc, parent, n, b)
           ok == parent = Root \/ Live(e, parent)
           n1 == e.fresh + 1
<1>1. e.fresh \in Nat /\ e.fresh # 0 /\ c \in Nat /\ c <= c /\ c <= e.fresh + 1 /\ Tree(e.doc, e.fresh, c)
  BY FreshIs, GoodIs
<1>2. n1 \in Nat /\ e.fresh < n1 /\ e.fresh <= n1 /\ 0 \in Nat /\ 1 \in Nat
  BY <1>1
<1>3. Sound(b, n1, c) /\ Blank(b, e.fresh, kind, 0)
  BY <1>1, <1>2, NewBlockIs
<1> HIDE DEF b
<1>4. b.id >= e.fresh /\ \A k \in DOMAIN e.doc : Names(e.doc[k].text) \cap Names(b.text) = {}
  BY <1>1, <1>3 DEF Blank
<1> HIDE DEF n1
<1>5. ok => Doc(d, n1, c) /\ Stems(d, e.doc, e.fresh, z)
  BY <1>1, <1>2, <1>3, <1>4, InsertedIs DEF Live
<1>6. ok \in BOOLEAN
  BY GuardsAre
<1> HIDE DEF d, ok
<1>7. Ready(e, ok, d, 1, c, z)
  BY <1>5 DEF Ready, n1
<1>8. Steps(e, Use(Do(e, ok, d, FALSE), 1), 1, c, z)
  BY <1>1, <1>2, <1>6, <1>7, Uses
<1> QED BY <1>8 DEF BlockInsert, ok, d, b

\* block.split.
LEMMA SplitIs ==
  ASSUME NEW e, NEW c, Good(e, c), NEW id, NEW o \in Int
  PROVE  /\ Steps(e, Split(e, id, o), 1, c, id)
         /\ ~Split(e, id, o).threw => Rich(e, id) /\ Clamp(o, 0, TextLen(e.doc, id)) \in 0..TextLen(e.doc, id)
                                      /\ Halved(e.doc, id, Clamp(o, 0, TextLen(e.doc, id)), e.fresh, Split(e, id, o).doc)
<1> DEFINE at == Clamp(o, 0, TextLen(e.doc, id))
           d == SplitAt(e.doc, id, at, e.fresh)
           ok == Rich(e, id)
           n1 == e.fresh + 1
           x == Use(Do(e, ok, d, FALSE), 1)
<1>1. e.fresh \in Nat /\ e.fresh # 0 /\ c \in Nat /\ c <= c /\ c <= e.fresh + 1 /\ Tree(e.doc, e.fresh, c)
  BY FreshIs, GoodIs
<1>2. n1 \in Nat /\ e.fresh < n1 /\ e.fresh <= e.fresh /\ 1 \in Nat
  BY <1>1
<1>3. ok \in BOOLEAN /\ (ok => Has(e.doc, id) /\ BlockOf(e.doc, id).rich)
  BY RichIs DEF Live
<1>4. at \in 0..TextLen(e.doc, id)
  <2>1. TextLen(e.doc, id) \in Nat
    BY <1>1, TextLenIs
  <2> DEFINE hi == TextLen(e.doc, id)
  <2>2. hi \in Int /\ 0 \in Int /\ 0 <= hi
    BY <2>1
  <2> HIDE DEF hi
  <2>3. Clamp(o, 0, hi) \in 0..hi
    BY <2>2, ClampIs
  <2> QED BY <2>3 DEF hi
<1> HIDE DEF at, n1
<1>5. ok => Doc(d, n1, c) /\ Stems(d, e.doc, e.fresh, id) /\ Halved(e.doc, id, at, e.fresh, d)
  BY <1>1, <1>2, <1>3, <1>4, SplitAtIs
<1> HIDE DEF d, ok
<1>6. Ready(e, ok, d, 1, c, id)
  BY <1>5 DEF Ready, n1
<1>7. Done(e, ok, d, 1, c, x) /\ Steps(e, x, 1, c, id)
  BY <1>1, <1>2, <1>3, <1>6, Uses
<1>8. Split(e, id, o) = x
  BY DEF Split, ok, d, at
<1> HIDE DEF x
<1>9. ~x.threw => Rich(e, id) /\ at \in 0..TextLen(e.doc, id) /\ Halved(e.doc, id, at, e.fresh, x.doc)
  BY <1>4, <1>5, <1>7 DEF Done, ok
<1> QED BY <1>7, <1>8, <1>9 DEF at

\* block.merge: the text that was there stays as long as it was.
LEMMA MergeIs ==
  ASSUME NEW e, NEW c, Good(e, c), NEW prev, NEW next
  PROVE  /\ Steps(e, Merge(e, prev, next), 0, c, prev)
         /\ TextLen(Merge(e, prev, next).doc, prev) >= TextLen(e.doc, prev)
<1> DEFINE d == MergedInto(e.doc, prev, next)
           below == SelfOrDescendant(e.doc, At(e.doc, next), At(e.doc, prev))
           ok == Rich(e, prev) /\ Rich(e, next) /\ ~below
           x == Do(e, ok, d, FALSE)
<1>1. e.fresh \in Nat /\ c \in Nat /\ c <= c /\ c <= e.fresh /\ Tree(e.doc, e.fresh, c)
  BY FreshIs, GoodIs
<1>2. ok \in BOOLEAN
  BY RichIs DEF SelfOrDescendant
<1>3. ok => /\ Doc(d, e.fresh, c) /\ Stems(d, e.doc, e.fresh, prev)
            /\ TextLen(d, prev) = TextLen(e.doc, prev) + TextLen(e.doc, next)
  BY <1>1, RichIs, MergedIntoIs DEF Live
<1>4. TextLen(e.doc, prev) \in Nat /\ TextLen(e.doc, next) \in Nat
  BY <1>1, TextLenIs
<1> HIDE DEF ok, d
<1>5. Ready(e, ok, d, 0, c, prev)
  BY <1>3, ReadyIs, DocIs
<1>6. Done(e, ok, d, 0, c, x) /\ Steps(e, x, 0, c, prev)
  BY <1>1, <1>2, <1>5, Does
<1>7. Merge(e, prev, next) = x
  BY DEF Merge, ok, d
<1> HIDE DEF x
<1>8. (x.doc = d /\ ok) \/ x.doc = e.doc
  BY <1>6 DEF Done
<1>9. TextLen(x.doc, prev) >= TextLen(e.doc, prev)
  BY <1>3, <1>4, <1>8
<1> QED BY <1>6, <1>7, <1>9

\* block.transform.
LEMMA TransformIs ==
  ASSUME NEW e, NEW c, Good(e, c), NEW id, NEW kind \in Kinds, NEW attr \in Word, NEW z,
         ~e.threw /\ Live(e, id) /\ HasInline(kind) => Inline(e, id)
  PROVE  Steps(e, Transform(e, id, kind, attr), 0, c, z)
<1> DEFINE d == SetKind(e.doc, id, kind, attr)
           ok == Live(e, id)
<1>1. e.fresh \in Nat /\ c \in Nat /\ c <= c /\ c <= e.fresh /\ Tree(e.doc, e.fresh, c)
  BY FreshIs, GoodIs
<1>2. ok \in BOOLEAN
  BY GuardsAre
<1>3. ok /\ ~e.threw => Tree(d, e.fresh, c) /\ d # <<>> /\ Stems(d, e.doc, e.fresh, z)
  <2>1. SUFFICES ASSUME ok, ~e.threw PROVE Tree(d, e.fresh, c) /\ d # <<>> /\ Stems(d, e.doc, e.fresh, z)
    OBVIOUS
  <2>2. Has(e.doc, id) /\ Len(e.doc) > 0
    BY <2>1, LiveIs
  <2>3. HasInline(kind) => HasInline(BlockOf(e.doc, id).kind)
    BY <2>1 DEF Inline
  <2>4. Tree(d, e.fresh, c) /\ Len(d) = Len(e.doc) /\ Stems(d, e.doc, e.fresh, z)
    BY <1>1, <2>2, <2>3, SetKindIs
  <2> HIDE DEF d
  <2>5. d # <<>>
    BY <2>2, <2>4, BlocksAre DEF Tree, Shape
  <2> QED BY <2>4, <2>5
<1> HIDE DEF ok, d
<1>5. Ready(e, ok, d, 0, c, z)
  BY <1>3, ReadyIs
<1>6. Steps(e, Do(e, ok, d, FALSE), 0, c, z)
  BY <1>1, <1>2, <1>5, Does
<1> QED BY <1>6 DEF Transform, ok, d

\* block.delete.
LEMMA DeleteIs ==
  ASSUME NEW e, NEW c, Good(e, c), NEW id, NEW z
  PROVE  Steps(e, Delete(e, id), 1, c, z)
<1> DEFINE d == Without(e.doc, id, e.fresh)
           ok == Live(e, id)
           n1 == e.fresh + 1
<1>1. e.fresh \in Nat /\ c \in Nat /\ c <= c /\ c <= e.fresh + 1 /\ Tree(e.doc, e.fresh, c)
  BY FreshIs, GoodIs
<1>2. ok \in BOOLEAN
  BY GuardsAre
<1>3. n1 \in Nat /\ e.fresh < n1 /\ e.fresh <= e.fresh /\ 1 \in Nat
  BY <1>1
<1> HIDE DEF n1
<1>4. ok => Doc(d, n1, c) /\ Stems(d, e.doc, e.fresh, z)
  BY <1>1, <1>3, WithoutIs DEF Live
<1> HIDE DEF ok, d
<1>5. Ready(e, ok, d, 1, c, z)
  BY <1>4 DEF Ready, n1
<1>6. Steps(e, Use(Do(e, ok, d, FALSE), 1), 1, c, z)
  BY <1>1, <1>2, <1>3, <1>5, Uses
<1> QED BY <1>6 DEF Delete, ok, d

\* attr.set.
LEMMA SetAttrStep ==
  ASSUME NEW e, NEW c, Good(e, c), NEW id, NEW attr \in Word, NEW z
  PROVE  Steps(e, SetAttr(e, id, attr), 0, c, z)
<1> DEFINE w == Attributed(e.doc, id, attr)
           d == IF Live(e, id) THEN w ELSE e.doc
<1>1. e.fresh \in Nat /\ c \in Nat /\ c <= c /\ c <= e.fresh /\ Tree(e.doc, e.fresh, c) /\ e.doc # <<>>
  BY FreshIs, GoodIs
<1>2. Live(e, id) => Tree(w, e.fresh, c) /\ w # <<>> /\ Stems(w, e.doc, e.fresh, z)
  <2>1. SUFFICES ASSUME Live(e, id) PROVE Tree(w, e.fresh, c) /\ w # <<>> /\ Stems(w, e.doc, e.fresh, z)
    OBVIOUS
  <2>2. Has(e.doc, id) /\ Len(e.doc) > 0
    BY <2>1, LiveIs
  <2>3. Tree(w, e.fresh, c) /\ Len(w) = Len(e.doc) /\ Stems(w, e.doc, e.fresh, z)
    BY <1>1, <2>2, SetAttrIs
  <2> HIDE DEF w
  <2>4. w # <<>>
    BY <2>2, <2>3, BlocksAre DEF Tree, Shape
  <2> QED BY <2>3, <2>4
<1> HIDE DEF w
<1>3. Stems(e.doc, e.doc, e.fresh, z)
  BY StemsSame
<1>4. Tree(d, e.fresh, c) /\ d # <<>> /\ Stems(d, e.doc, e.fresh, z)
  BY <1>1, <1>2, <1>3
<1> HIDE DEF d
<1>5. Ready(e, TRUE, d, 0, c, z)
  BY <1>4, ReadyIs
<1>6. Steps(e, Do(e, TRUE, d, FALSE), 0, c, z)
  BY <1>1, <1>5, Does
<1> QED BY <1>6 DEF SetAttr, d, w, Attributed

(***************************************************************************)
(* Indenting, outdenting and moving.                                       *)
(***************************************************************************)

\* Moving a subtree below a block that is not in it.
LEMMA RelocatedBeside ==
  ASSUME NEW n \in Nat, NEW c \in Nat, NEW d, Tree(d, n, c), NEW i \in DOMAIN d, NEW parent, NEW m, NEW z,
         parent = Root \/ \E a \in Beside(d, i, LastOf(d, i)) : parent = d[a].id
  PROVE  Doc(Relocated(d, i, parent, m), n, c) /\ Stems(Relocated(d, i, parent, m), d, n, z)
<1> DEFINE l == LastOf(d, i)
           r == Splice(d, i, l, <<>>)
<1>1. /\ Tree(r, n, c)
      /\ \A a \in Beside(d, i, l) : \E k \in DOMAIN r : r[k] = d[a]
  BY RemovedTree
<1>2. parent = Root \/ Has(r, parent)
  <2>1. ASSUME NEW a \in Beside(d, i, l), parent = d[a].id PROVE Has(r, parent)
    <3> HIDE DEF r, l
    <3>1. PICK k \in DOMAIN r : r[k] = d[a]
      BY <1>1
    <3> QED BY <2>1, <3>1 DEF Has
  <2> QED BY <2>1
<1> QED BY <1>2, RelocatedIs

\* What stands above a subtree is not in it.
LEMMA Above ==
  ASSUME NEW d, NEW i, NEW l, Subtree(d, i, l), NEW a \in DOMAIN d, a < i
  PROVE  a \in Beside(d, i, l)
BY DEF Beside

\* Siblings have the same depth; the sibling before the n-th is the one of
\* index n - 1.
LEMMA SiblingBefore ==
  ASSUME NEW d, Shape(d), NEW i \in DOMAIN d, IndexOf(d, i) # 0
  PROVE  LET before == CHOOSE k \in Children(d, ParentOf(d, i)) : IndexOf(d, k) = IndexOf(d, i) - 1
         IN  before \in Beside(d, i, LastOf(d, i)) /\ before \in DOMAIN d
<1> DEFINE p == ParentOf(d, i)
           C == Children(d, p)
           A == {k \in C : k < i}
           n == IndexOf(d, i)
           before == CHOOSE k \in C : IndexOf(d, k) = n - 1
<1>1. /\ Len(d) \in Nat /\ DOMAIN d = 1..Len(d) /\ i \in Nat
      /\ \A k \in DOMAIN d : d[k].depth \in Nat
  BY BlocksAre DEF Shape
<1>2. C \subseteq DOMAIN d /\ i \in C /\ \A k \in C : ParentOf(d, k) = p
  BY DEF Children
<1>3. IsFiniteSet(A) /\ A \in SUBSET Nat /\ \A k \in A : k <= i
  <2>1. IsFiniteSet(1..Len(d))
    BY <1>1, FS_Interval
  <2>2. A \subseteq 1..Len(d)
    BY <1>1, <1>2
  <2> QED BY <2>1, <2>2, <1>1, FS_Subset
<1>4. n = Cardinality(A)
  BY DEF IndexOf
<1>5. n \in Nat /\ A # {}
  BY <1>3, <1>4, FS_CardinalityType, FS_EmptySet
<1> HIDE DEF C, p, n
<1>6. PICK m \in A : \A k \in A : k <= m
  BY <1>1, <1>3, <1>5, Greatest
<1>7. IndexOf(d, m) = n - 1
  <2>1. m \in C /\ ParentOf(d, m) = p /\ m < i /\ m \in Nat
    BY <1>2, <1>3
  <2>2. {k \in C : k < m} = A \ {m}
    <3>1. ASSUME NEW k \in C, k < m PROVE k \in A \ {m}
      BY <1>1, <1>2, <2>1, <3>1
    <3>2. ASSUME NEW k \in A, k # m PROVE k \in C /\ k < m
      <4>1. k <= m /\ k \in Nat
        BY <1>3, <1>6
      <4> QED BY <4>1, <3>2, <2>1
    <3> QED BY <3>1, <3>2
  <2>3. Cardinality(A \ {m}) = Cardinality(A) - 1
    BY <1>3, <1>6, FS_RemoveElement
  <2> QED BY <2>1, <2>2, <2>3, <1>4 DEF IndexOf, C
<1>8. before \in C /\ IndexOf(d, before) = n - 1
  <2>1. \E k \in C : IndexOf(d, k) = n - 1
    BY <1>7, <1>6
  <2> QED BY <2>1
<1> HIDE DEF before
<1>9. before # i /\ before \in DOMAIN d /\ ParentOf(d, before) = p
  BY <1>2, <1>5, <1>8 DEF n
<1>10. d[before].depth = d[i].depth
  <2>1. ParentAt(d, i, p) /\ ParentAt(d, before, p)
    BY <1>2, <1>9, ParentIs DEF p
  <2> QED BY <2>1 DEF ParentAt
<1>11. Subtree(d, i, LastOf(d, i))
  BY SubtreeIs
<1>12. before \in Beside(d, i, LastOf(d, i))
  <2> DEFINE l == LastOf(d, i)
  <2>1. /\ l \in Nat /\ \A k \in (i + 1)..l : d[k].depth > d[i].depth
    BY <1>11 DEF Subtree
  <2> HIDE DEF l
  <2>2. before \notin (i + 1)..l
    BY <2>1, <1>1, <1>9, <1>10
  <2>3. before < i \/ before > l
    BY <2>1, <2>2, <1>1, <1>9
  <2> QED BY <2>3, <1>9 DEF Beside, l
<1> QED BY <1>9, <1>12 DEF before, C, p, n

\* block.indent: below the sibling before it.
LEMMA IndentIs ==
  ASSUME NEW e, NEW c, Good(e, c), NEW id, NEW z
  PROVE  Steps(e, Indent(e, id), 0, c, z)
<1> DEFINE d == e.doc
           i == At(d, id)
           n == IndexOf(d, i)
           before == CHOOSE k \in Children(d, ParentOf(d, i)) : IndexOf(d, k) = n - 1
           u == Relocated(d, i, d[before].id, Cardinality(Children(d, before)))
           w == IF ~Has(d, id) \/ n = 0 THEN d ELSE u
<1>1. e.fresh \in Nat /\ c \in Nat /\ c <= c /\ c <= e.fresh /\ Tree(d, e.fresh, c) /\ d # <<>>
  BY FreshIs, GoodIs
<1>2. Has(d, id) /\ n # 0 => Doc(u, e.fresh, c) /\ Stems(u, d, e.fresh, z)
  <2>1. SUFFICES ASSUME Has(d, id), n # 0 PROVE Doc(u, e.fresh, c) /\ Stems(u, d, e.fresh, z)
    OBVIOUS
  <2>2. i \in DOMAIN d /\ Shape(d)
    BY <1>1, <2>1, HasIs DEF Tree
  <2> HIDE DEF i, d
  <2>3. before \in Beside(d, i, LastOf(d, i)) /\ before \in DOMAIN d
    BY <2>1, <2>2, SiblingBefore
  <2> HIDE DEF before
  <2>4. \E a \in Beside(d, i, LastOf(d, i)) : d[before].id = d[a].id
    BY <2>3
  <2> QED BY <1>1, <2>2, <2>4, RelocatedBeside
<1>3. Stems(d, d, e.fresh, z)
  BY StemsSame
<1> HIDE DEF u, i
<1>4. Tree(w, e.fresh, c) /\ w # <<>> /\ Stems(w, d, e.fresh, z)
  BY <1>1, <1>2, <1>3, DocIs
<1> HIDE DEF w
<1>5. Ready(e, TRUE, w, 0, c, z)
  BY <1>4, ReadyIs
<1>6. Steps(e, Do(e, TRUE, w, FALSE), 0, c, z)
  BY <1>1, <1>5, Does
<1> QED BY <1>6 DEF Indent, w, u, i

\* block.outdent: behind its parent.
LEMMA OutdentIs ==
  ASSUME NEW e, NEW c, Good(e, c), NEW id, NEW z
  PROVE  Steps(e, Outdent(e, id), 0, c, z)
<1> DEFINE d == e.doc
           i == At(d, id)
           p == ParentOf(d, i)
           g == ParentOf(d, p)
           u == Relocated(d, i, IdAt(d, g), IndexOf(d, p) + 1)
           w == IF ~Has(d, id) \/ p = 0 THEN d ELSE u
<1>1. e.fresh \in Nat /\ c \in Nat /\ c <= c /\ c <= e.fresh /\ Tree(d, e.fresh, c) /\ d # <<>>
  BY FreshIs, GoodIs
<1>2. Has(d, id) /\ p # 0 => Doc(u, e.fresh, c) /\ Stems(u, d, e.fresh, z)
  <2>1. SUFFICES ASSUME Has(d, id), p # 0 PROVE Doc(u, e.fresh, c) /\ Stems(u, d, e.fresh, z)
    OBVIOUS
  <2>2. i \in DOMAIN d /\ Shape(d)
    BY <1>1, <2>1, HasIs DEF Tree
  <2> HIDE DEF i, d
  <2>3. p \in DOMAIN d /\ p \in Nat /\ p < i
    BY <2>1, <2>2, ParentIs DEF ParentAt
  <2> HIDE DEF p
  <2>4. g \in Nat /\ g < p /\ (g # 0 => g \in DOMAIN d)
    BY <2>2, <2>3, ParentIs DEF ParentAt
  <2> HIDE DEF g
  <2>5. Subtree(d, i, LastOf(d, i)) /\ i \in Nat
    BY <2>2, SubtreeIs DEF Subtree
  <2>6. IdAt(d, g) = Root \/ \E a \in Beside(d, i, LastOf(d, i)) : IdAt(d, g) = d[a].id
    <3>1. CASE g = 0
      BY <3>1 DEF IdAt
    <3>2. CASE g # 0
      <4>1. g < i
        BY <2>3, <2>4, <2>5
      <4>2. g \in Beside(d, i, LastOf(d, i))
        BY <3>2, <4>1, <2>4, <2>5, Above
      <4> QED BY <3>2, <4>2 DEF IdAt
    <3> QED BY <3>1, <3>2
  <2> QED BY <1>1, <2>2, <2>6, RelocatedBeside
<1>3. Stems(d, d, e.fresh, z)
  BY StemsSame
<1> HIDE DEF u, i, p
<1>4. Tree(w, e.fresh, c) /\ w # <<>> /\ Stems(w, d, e.fresh, z)
  BY <1>1, <1>2, <1>3, DocIs
<1> HIDE DEF w
<1>5. Ready(e, TRUE, w, 0, c, z)
  BY <1>4, ReadyIs
<1>6. Steps(e, Do(e, TRUE, w, FALSE), 0, c, z)
  BY <1>1, <1>5, Does
<1> QED BY <1>6 DEF Outdent, w, u, i, p

\* block.move.
LEMMA MoveIs ==
  ASSUME NEW e, NEW c, Good(e, c), NEW id, NEW parent, NEW n, NEW z
  PROVE  Steps(e, Move(e, id, parent, n), 0, c, z)
<1> DEFINE d == e.doc
           i == At(d, id)
           p == IF parent = Root THEN 0 ELSE At(d, parent)
           same == ParentOf(d, i) = p
           refused == \/ ~Has(d, id) \/ (parent # Root /\ ~Has(d, parent))
                      \/ parent # Root /\ SelfOrDescendant(d, i, p)
           top == Cardinality(Children(d, p)) - (IF same THEN 1 ELSE 0)
           u == Relocated(d, i, parent, Clamp(n, 0, top))
           w == IF refused THEN d ELSE u
<1>1. e.fresh \in Nat /\ c \in Nat /\ c <= c /\ c <= e.fresh /\ Tree(d, e.fresh, c) /\ d # <<>>
  BY FreshIs, GoodIs
<1>2. ~refused => Doc(u, e.fresh, c) /\ Stems(u, d, e.fresh, z)
  <2>1. SUFFICES ASSUME ~refused PROVE Doc(u, e.fresh, c) /\ Stems(u, d, e.fresh, z)
    OBVIOUS
  <2>2. i \in DOMAIN d /\ Shape(d)
    BY <1>1, <2>1, HasIs DEF Tree
  <2>3. parent = Root \/ (Has(d, parent) /\ ~SelfOrDescendant(d, i, At(d, parent)))
    BY <2>1
  <2> HIDE DEF i, d, refused, same, top
  <2>4. Subtree(d, i, LastOf(d, i)) /\ i \in Nat
    BY <2>2, SubtreeIs DEF Subtree
  <2>5. parent = Root \/ \E a \in Beside(d, i, LastOf(d, i)) : parent = d[a].id
    <3>1. SUFFICES ASSUME parent # Root PROVE \E a \in Beside(d, i, LastOf(d, i)) : parent = d[a].id
      OBVIOUS
    <3> DEFINE q == At(d, parent)
               l == LastOf(d, i)
    <3>2. q \in DOMAIN d /\ d[q].id = parent /\ ~SelfOrDescendant(d, i, q)
      BY <3>1, <2>3, HasIs
    <3> HIDE DEF q, l
    <3>3. q \in Nat /\ l \in Nat /\ \A k \in (i + 1)..l : d[k].depth > d[i].depth
      BY <3>2, <2>4 DEF Subtree, l
    <3>4. ~(i <= q /\ q <= l)
      <4>1. SUFFICES ASSUME i <= q, q <= l PROVE FALSE
        OBVIOUS
      <4>2. \A k \in (i + 1)..q : d[k].depth > d[i].depth
        BY <4>1, <3>3, <2>4
      <4> QED BY <4>1, <4>2, <3>2 DEF SelfOrDescendant
    <3>5. q < i \/ q > l
      BY <3>3, <3>4, <2>4
    <3> QED BY <3>2, <3>5 DEF Beside, l
  <2> QED BY <1>1, <2>2, <2>5, RelocatedBeside
<1>3. Stems(d, d, e.fresh, z)
  BY StemsSame
<1> HIDE DEF u, refused
<1>4. Tree(w, e.fresh, c) /\ w # <<>> /\ Stems(w, d, e.fresh, z)
  BY <1>1, <1>2, <1>3, DocIs
<1> HIDE DEF w
<1>5. Ready(e, TRUE, w, 0, c, z)
  BY <1>4, ReadyIs
<1>6. Steps(e, Do(e, TRUE, w, FALSE), 0, c, z)
  BY <1>1, <1>5, Does
<1> QED BY <1>6 DEF Move, w, u, refused

(***************************************************************************)
(* The text and mark commands.                                             *)
(***************************************************************************)

\* New text for a block of the editor's document, its new names below c1.
LEMMA NewTextIs ==
  ASSUME NEW e, NEW c, Good(e, c), NEW c1 \in Nat, c <= c1, c1 <= e.fresh, NEW id, Rich(e, id),
         NEW t, NEW M, Spells(t, Names(BlockOf(e.doc, id).text) \cup M), \A x \in M : x < c1,
         \A k \in DOMAIN e.doc : k # At(e.doc, id) => Names(e.doc[k].text) \cap M = {}
  PROVE  /\ Doc(SetText(e.doc, id, t), e.fresh, c1) /\ Stems(SetText(e.doc, id, t), e.doc, e.fresh, id)
         /\ TextLen(SetText(e.doc, id, t), id) = Len(t)
<1> DEFINE d == e.doc
           u == SetText(d, id, t)
<1>1. e.fresh \in Nat /\ c \in Nat /\ Tree(d, e.fresh, c)
  BY GoodIs
<1>2. Has(d, id) /\ BlockOf(d, id).rich /\ At(d, id) \in DOMAIN d
  BY RichIs, LiveIs
<1>3. Tree(u, e.fresh, c1) /\ Stems(u, d, e.fresh, id) /\ Retexted(d, id, t, u)
  BY <1>1, <1>2, SetTextIs
<1> HIDE DEF u
<1>4. At(d, id) \in DOMAIN u /\ TextLen(u, id) = Len(t)
  BY <1>2, <1>3 DEF Retexted, Swapped
<1>5. u # <<>>
  BY <1>4
<1> QED BY <1>3, <1>4, <1>5, DocIs DEF u

\* Text for a block of the editor's document, without a new name.
LEMMA OldTextIs ==
  ASSUME NEW e, NEW c, Good(e, c), NEW id, Rich(e, id),
         NEW t, Spells(t, Names(BlockOf(e.doc, id).text))
  PROVE  /\ Doc(SetText(e.doc, id, t), e.fresh, c) /\ Stems(SetText(e.doc, id, t), e.doc, e.fresh, id)
         /\ TextLen(SetText(e.doc, id, t), id) = Len(t)
<1> DEFINE M == {}
<1>1. /\ Spells(t, Names(BlockOf(e.doc, id).text) \cup M) /\ \A x \in M : x < c
      /\ \A k \in DOMAIN e.doc : k # At(e.doc, id) => Names(e.doc[k].text) \cap M = {}
  OBVIOUS
<1>2. c \in Nat /\ c <= c /\ c <= e.fresh
  BY FreshIs
<1> HIDE DEF M
<1> QED BY <1>1, <1>2, NewTextIs

\* s can be put into any block of d: it shares no name with d.
Insertable(d, s, c) ==
  /\ s \in Text /\ Distinct(s) /\ \A x \in Names(s) : x < c
  /\ \A k \in DOMAIN d : Names(d[k].text) \cap Names(s) = {}

\* A text whose names lie from c on can be put in anywhere.
LEMMA FreshText ==
  ASSUME NEW e, NEW c, Good(e, c), NEW c1, NEW s \in Text, Distinct(s), \A x \in Names(s) : c <= x /\ x < c1
  PROVE  Insertable(e.doc, s, c1)
<1>1. e.fresh \in Nat /\ c \in Nat /\ Tree(e.doc, e.fresh, c)
  BY GoodIs
<1>2. ASSUME NEW k \in DOMAIN e.doc PROVE Names(e.doc[k].text) \cap Names(s) = {}
  <2>1. Names(e.doc[k].text) \subseteq Nat /\ \A x \in Names(e.doc[k].text) : x < c
    BY <1>1, SoundIs DEF Tree
  <2> QED BY <2>1, <1>1
<1> QED BY <1>2 DEF Insertable

\* text.insert.
LEMMA TextInsertIs ==
  ASSUME NEW e, NEW c, Good(e, c), NEW c1 \in Nat, c <= c1, c1 <= e.fresh, NEW id, NEW o \in Int,
         NEW s, Insertable(e.doc, s, c1)
  PROVE  Steps(e, TextInsert(e, id, o, s), 0, c1, id)
<1> DEFINE d == e.doc
           t == BlockOf(d, id).text
           hi == TextLen(d, id)
           at == Clamp(o, 0, hi)
           w == Typed(t, at, s)
           u == SetText(d, id, w)
           ok == Inline(e, id)
<1>1. /\ s \in Text /\ Distinct(s) /\ \A x \in Names(s) : x < c1
      /\ \A k \in DOMAIN d : Names(d[k].text) \cap Names(s) = {}
  BY DEF Insertable
<1>2. ok => Doc(u, e.fresh, c1) /\ Stems(u, d, e.fresh, id)
  <2>1. SUFFICES ASSUME ok PROVE Doc(u, e.fresh, c1) /\ Stems(u, d, e.fresh, id)
    OBVIOUS
  <2>2. Rich(e, id) /\ Live(e, id)
    BY <2>1, RichIs
  <2>3. /\ t \in Text /\ hi = Len(t) /\ hi \in Nat /\ Spells(t, Names(t)) /\ At(d, id) \in DOMAIN d
        /\ t = d[At(d, id)].text
    BY <2>2, LiveIs
  <2>4. at \in 0..Len(t)
    <3> HIDE DEF hi
    <3>1. hi \in Int /\ 0 \in Int /\ 0 <= hi
      BY <2>3
    <3>2. at \in 0..hi
      BY <3>1, ClampIs
    <3> QED BY <3>2, <2>3
  <2>5. Names(t) \cap Names(s) = {} /\ Spells(s, Names(s))
    BY <1>1, <2>3 DEF Spells
  <2> HIDE DEF t, at
  <2>6. Spells(w, Names(t) \cup Names(s))
    BY <1>1, <2>3, <2>4, <2>5, TypedIs
  <2> HIDE DEF w
  <2> QED BY <1>1, <2>2, <2>6, NewTextIs DEF t
<1>3. ok \in BOOLEAN
  BY GuardsAre
<1> HIDE DEF u, ok
<1>4. e.fresh \in Nat /\ e.fresh + 0 = e.fresh
  BY GoodIs
<1>5. Ready(e, ok, u, 0, c1, id)
  BY <1>2, <1>4 DEF Ready
<1>6. Steps(e, Do(e, ok, u, TRUE), 0, c1, id)
  BY <1>3, <1>5, Does
<1> QED BY <1>6 DEF TextInsert, ok, u, w, at, hi, t, d

\* Where a command leaves the document alone unless the block can hold text.
LEMMA EditIs ==
  ASSUME NEW e, NEW c, Good(e, c), NEW id, NEW t,
         Rich(e, id) => Spells(t, Names(BlockOf(e.doc, id).text)), NEW text \in BOOLEAN,
         NEW d, d = IF Rich(e, id) THEN SetText(e.doc, id, t) ELSE e.doc
  PROVE  Done(e, TRUE, d, 0, c, Do(e, TRUE, d, text)) /\ Steps(e, Do(e, TRUE, d, text), 0, c, id)
<1>1. e.fresh \in Nat /\ c \in Nat /\ c <= c /\ c <= e.fresh /\ Tree(e.doc, e.fresh, c) /\ e.doc # <<>>
  BY FreshIs, GoodIs
<1>2. Stems(e.doc, e.doc, e.fresh, id)
  BY StemsSame
<1>3. Rich(e, id) => Doc(SetText(e.doc, id, t), e.fresh, c) /\ Stems(SetText(e.doc, id, t), e.doc, e.fresh, id)
  BY OldTextIs
<1>4. Tree(d, e.fresh, c) /\ d # <<>> /\ Stems(d, e.doc, e.fresh, id)
  BY <1>1, <1>2, <1>3, DocIs
<1>5. Ready(e, TRUE, d, 0, c, id)
  BY <1>4, ReadyIs
<1> QED BY <1>1, <1>5, Does

\* text.delete: what stands before the stretch stays.
LEMMA TextDeleteIs ==
  ASSUME NEW e, NEW c, Good(e, c), NEW id, NEW o \in Int, NEW n \in Int
  PROVE  /\ Steps(e, TextDelete(e, id, o, n), 0, c, id)
         /\ 0 <= o /\ o <= TextLen(e.doc, id) => TextLen(TextDelete(e, id, o, n).doc, id) >= o
<1> DEFINE d == e.doc
           t == BlockOf(d, id).text
           hi == Len(t)
           from == Clamp(o, 0, hi)
           to == from + Clamp(n, 0, hi - from)
           w == Slice(t, 0, from) \o Slice(t, to, hi)
           u == IF Rich(e, id) THEN SetText(d, id, w) ELSE d
           x == Do(e, TRUE, u, TRUE)
<1>1. ASSUME Rich(e, id)
      PROVE  /\ Spells(w, Names(t)) /\ w \in Text /\ Len(w) >= from /\ from \in Nat /\ TextLen(d, id) = hi
             /\ 0 <= o /\ o <= hi => from = o
  <2>1. t \in Text /\ hi \in Nat /\ Spells(t, Names(t)) /\ TextLen(d, id) = hi
    BY <1>1, RichIs, LiveIs
  <2> HIDE DEF t, hi
  <2>2. from \in 0..hi /\ from \in Nat /\ (0 <= o /\ o <= hi => from = o)
    <3>1. hi \in Int /\ 0 \in Int /\ 0 <= hi
      BY <2>1
    <3>2. from \in 0..hi /\ (0 <= o /\ o <= hi => from = o)
      BY <3>1, ClampIs
    <3> QED BY <3>2, <2>1
  <2> HIDE DEF from
  <2>3. Clamp(n, 0, hi - from) \in 0..(hi - from)
    <3> DEFINE r == hi - from
    <3>1. r \in Int /\ 0 \in Int /\ 0 <= r
      BY <2>1, <2>2
    <3> HIDE DEF r
    <3>2. Clamp(n, 0, r) \in 0..r
      BY <3>1, ClampIs
    <3> QED BY <3>2 DEF r
  <2>4. to \in Nat /\ from <= to /\ to <= hi
    BY <2>1, <2>2, <2>3
  <2> HIDE DEF to
  <2>5. w \in Text /\ Len(w) = from + (hi - to) /\ Spells(w, Names(t))
    BY <2>1, <2>2, <2>4, CutOut DEF hi
  <2> QED BY <2>1, <2>2, <2>4, <2>5
<1> HIDE DEF w, from, to
<1>2. Done(e, TRUE, u, 0, c, x) /\ Steps(e, x, 0, c, id)
  BY <1>1, EditIs
<1>3. TextDelete(e, id, o, n) = x
  BY DEF TextDelete, w, from, to
<1> HIDE DEF x
<1>4. ASSUME 0 <= o, o <= TextLen(d, id) PROVE TextLen(x.doc, id) >= o
  <2>1. x.doc = u \/ x.doc = d
    BY <1>2 DEF Done
  <2>2. CASE Rich(e, id) /\ x.doc = u
    <3>1. TextLen(SetText(d, id, w), id) = Len(w)
      BY <1>1, <2>2, OldTextIs
    <3> QED BY <2>1, <2>2, <3>1, <1>1, <1>4
  <2>3. CASE ~Rich(e, id) \/ x.doc = d
    <3>1. e.fresh \in Nat /\ c \in Nat /\ Tree(d, e.fresh, c)
      BY GoodIs
    <3>2. TextLen(d, id) \in Nat
      BY <3>1, TextLenIs
    <3> QED BY <3>2, <2>1, <2>3, <1>4
  <2> QED BY <2>1, <2>2, <2>3
<1> QED BY <1>2, <1>3, <1>4

\* mark.clear.
LEMMA ClearMarksIs ==
  ASSUME NEW e, NEW c, Good(e, c), NEW id, NEW a, NEW b
  PROVE  Steps(e, ClearMarks(e, id, a, b), 0, c, id)
<1> DEFINE t == BlockOf(e.doc, id).text
           w == Unmarked(t, a, b, Formatting)
           d == IF Rich(e, id) THEN SetText(e.doc, id, w) ELSE e.doc
<1>1. Rich(e, id) => Spells(w, Names(t))
  <2>1. SUFFICES ASSUME Rich(e, id) PROVE Spells(w, Names(t))
    OBVIOUS
  <2>2. t \in Text /\ Spells(t, Names(t))
    BY <2>1, RichIs, LiveIs
  <2>3. Rewritten(t, w)
    BY <2>2, UnmarkedIs
  <2> QED BY <2>2, <2>3, SameNames
<1> HIDE DEF w
<1>2. Steps(e, Do(e, TRUE, d, FALSE), 0, c, id)
  BY <1>1, EditIs
<1> QED BY <1>2 DEF ClearMarks, w

\* A command on the marks of a block that refuses a block without text.
LEMMA MarksReady ==
  ASSUME NEW e, NEW c, Good(e, c), NEW id, NEW w, Rich(e, id) => Rewritten(BlockOf(e.doc, id).text, w),
         NEW ok \in BOOLEAN, ok => Rich(e, id)
  PROVE  Steps(e, Do(e, ok, SetText(e.doc, id, w), FALSE), 0, c, id)
<1> DEFINE t == BlockOf(e.doc, id).text
           u == SetText(e.doc, id, w)
<1>1. e.fresh \in Nat /\ c \in Nat /\ c <= c /\ c <= e.fresh
  BY FreshIs
<1>2. ok => Tree(u, e.fresh, c) /\ u # <<>> /\ Stems(u, e.doc, e.fresh, id)
  <2>1. SUFFICES ASSUME ok PROVE Tree(u, e.fresh, c) /\ u # <<>> /\ Stems(u, e.doc, e.fresh, id)
    OBVIOUS
  <2>2. t \in Text /\ Spells(t, Names(t))
    BY <2>1, RichIs, LiveIs
  <2>3. Spells(w, Names(t))
    BY <2>1, <2>2, SameNames
  <2>4. Doc(u, e.fresh, c) /\ Stems(u, e.doc, e.fresh, id)
    BY <2>1, <2>3, OldTextIs
  <2> QED BY <2>4, DocIs
<1> HIDE DEF u
<1>3. Ready(e, ok, u, 0, c, id)
  BY <1>2, ReadyIs
<1> QED BY <1>1, <1>3, Does DEF u

\* A command that commits the document as it was.
LEMMA IdleIs ==
  ASSUME NEW e, NEW c, Good(e, c), NEW text \in BOOLEAN, NEW z
  PROVE  Steps(e, Do(e, TRUE, e.doc, text), 0, c, z)
<1>1. e.fresh \in Nat /\ c \in Nat /\ c <= c /\ c <= e.fresh /\ Tree(e.doc, e.fresh, c) /\ e.doc # <<>>
  BY FreshIs, GoodIs
<1>2. Stems(e.doc, e.doc, e.fresh, z)
  BY StemsSame
<1>3. Ready(e, TRUE, e.doc, 0, c, z)
  BY <1>1, <1>2, ReadyIs
<1> QED BY <1>1, <1>3, Does

\* mark.toggle.
LEMMA ToggleMarkIs ==
  ASSUME NEW e, NEW c, Good(e, c), NEW id, NEW a, NEW b, NEW key \in Word, NEW val \in Word
  PROVE  Steps(e, ToggleMark(e, id, a, b, key, val), 0, c, id)
<1> DEFINE t == BlockOf(e.doc, id).text
           w == Toggled(t, a, b, key, val)
           on == Covers(t, a, b, key)
           valid == key \in {"bold", "code"} \/ val # "none" \/ on
           ok == Rich(e, id) /\ b <= Len(t) /\ valid
<1>1. Rich(e, id) => Rewritten(t, w)
  <2>1. SUFFICES ASSUME Rich(e, id) PROVE Rewritten(t, w)
    OBVIOUS
  <2>2. t \in Text
    BY <2>1, RichIs, LiveIs
  <2> QED BY <2>2, ToggledIs
<1>2. ok \in BOOLEAN /\ (ok => Rich(e, id))
  BY RichIs DEF Covers
<1> HIDE DEF w, ok
<1>3. Steps(e, Do(e, ok, SetText(e.doc, id, w), FALSE), 0, c, id)
  BY <1>1, <1>2, MarksReady
<1>4. Steps(e, Do(e, TRUE, e.doc, FALSE), 0, c, id)
  BY IdleIs
<1> QED BY <1>3, <1>4 DEF ToggleMark, w, ok

\* mark.set.
LEMMA MarkUpdateIs ==
  ASSUME NEW e, NEW c, Good(e, c), NEW id, NEW a, NEW b, NEW key \in Word, NEW val \in Word
  PROVE  Steps(e, MarkUpdate(e, id, a, b, key, val), 0, c, id)
<1> DEFINE t == BlockOf(e.doc, id).text
           w == Marked(t, a, b, <<key, val>>)
           ok == Rich(e, id) /\ b <= Len(t)
<1>1. Rich(e, id) => Rewritten(t, w)
  <2>1. SUFFICES ASSUME Rich(e, id) PROVE Rewritten(t, w)
    OBVIOUS
  <2>2. t \in Text /\ <<key, val>> \in Marks
    BY <2>1, RichIs, LiveIs DEF Marks
  <2> QED BY <2>2, MarkedIs
<1>2. ok \in BOOLEAN /\ (ok => Rich(e, id))
  BY RichIs
<1> HIDE DEF w, ok
<1>3. Steps(e, Do(e, ok, SetText(e.doc, id, w), FALSE), 0, c, id)
  BY <1>1, <1>2, MarksReady
<1>4. Steps(e, Do(e, TRUE, e.doc, FALSE), 0, c, id)
  BY IdleIs
<1> QED BY <1>3, <1>4 DEF MarkUpdate, w, ok

(***************************************************************************)
(* Selections, and what a command leaves of a block it was not about.      *)
(***************************************************************************)

\* x has the documents of e.
Alike(e, x) ==
  x \in Editors /\ x.doc = e.doc /\ x.past = e.past /\ x.future = e.future /\ e.fresh <= x.fresh

\* An editor with the documents of a good one is good.
LEMMA AlikeIs ==
  ASSUME NEW e, NEW c, Good(e, c), NEW x, Alike(e, x), NEW c1 \in Nat, c <= c1, c1 <= x.fresh
  PROVE  Good(x, c1)
<1>1. Docs(x) = Docs(e) /\ x \in Editors /\ e.fresh <= x.fresh
  BY DEF Alike, Docs
<1> QED BY <1>1, SameDocs

LEMMA GoodLater ==
  ASSUME NEW e, NEW c, Good(e, c), NEW c1 \in Nat, c <= c1, c1 <= e.fresh
  PROVE  Good(e, c1)
<1>1. e \in Editors /\ e.fresh \in Nat
  BY GoodIs
<1>2. Alike(e, e)
  BY <1>1 DEF Alike
<1> QED BY <1>2, AlikeIs

\* Names set aside.
LEMMA UseIs ==
  ASSUME NEW e, NEW c, Good(e, c), NEW m \in Nat, NEW c1 \in Nat, c <= c1, c1 <= e.fresh + m
  PROVE  /\ Good(Use(e, m), c1) /\ Use(e, m).doc = e.doc /\ Use(e, m).sel = e.sel /\ Use(e, m).threw = e.threw
         /\ Use(e, m).fresh = e.fresh + m
<1> DEFINE x == Use(e, m)
<1>1. e \in Editors /\ e.fresh \in Nat /\ e.fresh + m \in Nat /\ e.fresh <= e.fresh + m
  BY GoodIs
<1>2. x = [e EXCEPT !.fresh = e.fresh + m]
  BY DEF Use
<1> HIDE DEF x
<1>3. /\ x \in Editors /\ x.fresh = e.fresh + m /\ x.doc = e.doc /\ x.sel = e.sel /\ x.threw = e.threw
      /\ x.past = e.past /\ x.future = e.future
  BY <1>1, <1>2 DEF Editors
<1>4. Alike(e, x)
  BY <1>1, <1>3 DEF Alike
<1>5. Good(x, c1)
  BY <1>3, <1>4, AlikeIs
<1> QED BY <1>3, <1>5 DEF x

\* x is e, but for its selection, its group and whether it threw.
Same(e, c, x) == Good(x, c) /\ x.doc = e.doc /\ x.fresh = e.fresh

LEMMA ChooseIs ==
  ASSUME NEW e, NEW c, Good(e, c), NEW s \in Sel
  PROVE  Same(e, c, [e EXCEPT !.sel = s]) /\ [e EXCEPT !.sel = s].sel = s /\ [e EXCEPT !.sel = s].threw = e.threw
<1> DEFINE x == [e EXCEPT !.sel = s]
<1>1. e \in Editors /\ e.fresh \in Nat /\ c \in Nat /\ c <= e.fresh /\ c <= c /\ e.fresh <= e.fresh
  BY GoodIs
<1>2. x \in Editors /\ x.doc = e.doc /\ x.past = e.past /\ x.future = e.future /\ x.fresh = e.fresh /\ x.sel = s
      /\ x.threw = e.threw
  BY <1>1 DEF Editors
<1> HIDE DEF x
<1>3. Alike(e, x)
  BY <1>1, <1>2 DEF Alike
<1>4. Good(x, c)
  BY <1>1, <1>2, <1>3, AlikeIs
<1> QED BY <1>2, <1>4 DEF Same, x

\* Selecting changes the selection only.
LEMMA SelectIs ==
  ASSUME NEW e, NEW c, Good(e, c), NEW s \in Sel
  PROVE  /\ Same(e, c, Select(e, s)) /\ Select(e, s).threw = e.threw
         /\ Select(e, s).sel = IF e.threw THEN e.sel ELSE s
<1>1. Same(e, c, e)
  BY DEF Same
<1>2. Same(e, c, [e EXCEPT !.sel = s]) /\ [e EXCEPT !.sel = s].sel = s /\ [e EXCEPT !.sel = s].threw = e.threw
  BY ChooseIs
<1>3. CASE e.threw
  BY <1>1, <1>3 DEF Select
<1>4. CASE ~e.threw
  <2>1. Select(e, s) = [e EXCEPT !.sel = s]
    BY <1>4 DEF Select
  <2> QED BY <1>2, <1>4, <2>1
<1> QED BY <1>3, <1>4

LEMMA GroupIs ==
  ASSUME NEW e, NEW c, Good(e, c), NEW g \in {"none", "opened", "used"}
  PROVE  /\ Same(e, c, [e EXCEPT !.group = g]) /\ [e EXCEPT !.group = g].sel = e.sel
         /\ [e EXCEPT !.group = g].threw = e.threw /\ [e EXCEPT !.group = g].group = g
<1> DEFINE x == [e EXCEPT !.group = g]
<1>1. e \in Editors /\ e.fresh \in Nat /\ c \in Nat /\ c <= e.fresh /\ c <= c /\ e.fresh <= e.fresh
  BY GoodIs
<1>2. x \in Editors /\ x.doc = e.doc /\ x.past = e.past /\ x.future = e.future /\ x.fresh = e.fresh /\ x.sel = e.sel
      /\ x.threw = e.threw /\ x.group = g
  BY <1>1 DEF Editors
<1> HIDE DEF x
<1>3. Alike(e, x)
  BY <1>1, <1>2 DEF Alike
<1>4. Good(x, c)
  BY <1>1, <1>2, <1>3, AlikeIs
<1> QED BY <1>2, <1>4 DEF Same, x

LEMMA ThrewIs ==
  ASSUME NEW e, NEW c, Good(e, c), NEW b \in BOOLEAN
  PROVE  /\ Same(e, c, [e EXCEPT !.threw = b]) /\ [e EXCEPT !.threw = b].sel = e.sel
         /\ [e EXCEPT !.threw = b].threw = b /\ [e EXCEPT !.threw = b].group = e.group
<1> DEFINE x == [e EXCEPT !.threw = b]
<1>1. e \in Editors /\ e.fresh \in Nat /\ c \in Nat /\ c <= e.fresh /\ c <= c /\ e.fresh <= e.fresh
  BY GoodIs
<1>2. x \in Editors /\ x.doc = e.doc /\ x.past = e.past /\ x.future = e.future /\ x.fresh = e.fresh /\ x.sel = e.sel
      /\ x.threw = b /\ x.group = e.group
  BY <1>1 DEF Editors
<1> HIDE DEF x
<1>3. Alike(e, x)
  BY <1>1, <1>2 DEF Alike
<1>4. Good(x, c)
  BY <1>1, <1>2, <1>3, AlikeIs
<1> QED BY <1>2, <1>4 DEF Same, x

\* Points and selections.
LEMMA PointsAre ==
  /\ NoCaret \in Pt /\ NoSel \in Sel
  /\ \A b, o \in Nat : Caret(b, o) \in Pt /\ Point(b, o) \in Sel /\ Point(b, o).a = Caret(b, o)
  /\ \A p, q \in Pt : At2(p, q) \in Sel
  /\ \A p \in Pt : p.b \in Nat /\ p.o \in Nat
  /\ \A s \in Sel : s.a \in Pt /\ s.f \in Pt
BY DEF NoCaret, NoSel, Caret, Point, At2, Pt, Sel, Root

\* So does collapsing it.
LEMMA CollapseIs ==
  ASSUME NEW e, NEW c, Good(e, c), NEW id \in Nat, NEW o \in Int
  PROVE  Same(e, c, Collapse(e, id, o))
<1> DEFINE hi == TextLen(e.doc, id)
           at == Clamp(o, 0, hi)
<1>1. e.fresh \in Nat /\ c \in Nat /\ Tree(e.doc, e.fresh, c)
  BY GoodIs
<1>2. hi \in Nat
  BY <1>1, TextLenIs
<1> HIDE DEF hi
<1>3. hi \in Int /\ 0 \in Int /\ 0 <= hi
  BY <1>2
<1>4. at \in 0..hi
  BY <1>3, ClampIs
<1> HIDE DEF at
<1>5. at \in Nat
  BY <1>2, <1>4
<1>6. Point(id, at) \in Sel
  BY <1>5, PointsAre
<1>7. Same(e, c, Select(e, Point(id, at)))
  BY <1>6, SelectIs
<1> QED BY <1>7 DEF Collapse, at, hi

\* What a change that keeps away from z leaves of another block.
LEMMA Abides ==
  ASSUME NEW n \in Nat, NEW c \in Nat, NEW d, Tree(d, n, c), NEW u, NEW z, Stems(u, d, n, z),
         NEW id \in Nat, id < n, Has(u, id)
  PROVE  /\ Has(d, id) /\ (BlockOf(d, id).rich => BlockOf(u, id).rich)
         /\ id # z => TextLen(u, id) = TextLen(d, id) /\ BlockOf(u, id).text = BlockOf(d, id).text
<1>1. At(u, id) \in DOMAIN u /\ u[At(u, id)].id = id
  BY HasIs
<1>2. ~(u[At(u, id)].id >= n)
  BY <1>1
<1>3. PICK j \in DOMAIN d : Old(u[At(u, id)], d[j], z)
  BY <1>1, <1>2 DEF Stems
<1>4. d[j].id = id /\ (d[j].rich => u[At(u, id)].rich) /\ (id # z => u[At(u, id)].text = d[j].text)
  BY <1>1, <1>3 DEF Old
<1>5. AllApart(d)
  BY DEF Tree
<1>6. Has(d, id) /\ At(d, id) = j
  BY <1>4, <1>5, AtIs
<1>7. BlockOf(d, id) = d[j] /\ BlockOf(u, id) = u[At(u, id)]
  BY <1>6 DEF BlockOf
<1> QED BY <1>4, <1>6, <1>7 DEF TextLen

\* The same, of the editor after a command.
LEMMA StepAbides ==
  ASSUME NEW e, NEW c, Good(e, c), NEW x, NEW m, NEW c1, NEW z, Steps(e, x, m, c1, z),
         NEW id \in Nat, id < e.fresh, Live(x, id)
  PROVE  /\ Live(e, id) /\ (BlockOf(e.doc, id).rich => BlockOf(x.doc, id).rich)
         /\ id # z => TextLen(x.doc, id) = TextLen(e.doc, id)
<1>1. e.fresh \in Nat /\ c \in Nat /\ Tree(e.doc, e.fresh, c)
  BY GoodIs
<1>2. Stems(x.doc, e.doc, e.fresh, z) /\ Has(x.doc, id)
  BY DEF Steps, Live
<1>3. /\ Has(e.doc, id) /\ (BlockOf(e.doc, id).rich => BlockOf(x.doc, id).rich)
      /\ id # z => TextLen(x.doc, id) = TextLen(e.doc, id)
  BY <1>1, <1>2, Abides
<1> QED BY <1>3 DEF Live

\* A text of copies goes anywhere.
Unnamed(s) == s \in Text /\ Names(s) = {}
\* A text of copies.
LEMMA UnnamedIs ==
  ASSUME NEW s, Unnamed(s), NEW d, NEW c
  PROVE  Insertable(d, s, c) /\ Spells(s, {}) /\ Len(s) \in Nat
<1>1. s \in Text /\ Names(s) = {} /\ Len(s) \in Nat
  BY TextIs DEF Unnamed
<1>2. \A k \in DOMAIN s : s[k].c = 0
  BY <1>1 DEF Names
<1>3. Distinct(s)
  BY <1>2 DEF Distinct
<1> QED BY <1>1, <1>3 DEF Insertable, Spells

LEMMA CopiedUnnamed ==
  ASSUME NEW s \in Text
  PROVE  Unnamed(Copied(s)) /\ Len(Copied(s)) = Len(s)
BY CopiedIs DEF Unnamed, Spells

\* What a step leaves.
LEMMA StepsGood ==
  ASSUME NEW e, NEW x, NEW m, NEW c, NEW z, Steps(e, x, m, c, z)
  PROVE  Good(x, c) /\ x.fresh = e.fresh + m /\ x.sel = e.sel /\ (e.threw => x.threw /\ x.doc = e.doc)
BY DEF Steps

(***************************************************************************)
(* Pasting blocks, mentions, undo.                                         *)
(***************************************************************************)

\* Text pasted into a block, which is given a text container if it has none.
LEMMA GraftIs ==
  ASSUME NEW e, NEW c, Good(e, c), NEW id, NEW o, Live(e, id) /\ ~e.threw => o \in 0..TextLen(e.doc, id),
         NEW s \in Text
  PROVE  /\ Good(Graft(e, id, o, s), c) /\ Graft(e, id, o, s).fresh = e.fresh
         /\ ~Graft(e, id, o, s).threw => ~e.threw /\ (Has(e.doc, id) => Has(Graft(e, id, o, s).doc, id))
<1> DEFINE t == BlockOf(e.doc, id).text
           w == Grafted(t, o, Copied(s))
           d == EnsureText(e.doc, id)
           u == SetText(d, id, w)
           x == Do(e, TRUE, u, FALSE)
<1>1. e.fresh \in Nat /\ c \in Nat /\ c <= c /\ c <= e.fresh /\ e.fresh + 0 = e.fresh
  BY FreshIs
<1>2. Live(e, id) /\ ~e.threw => Tree(u, e.fresh, c) /\ u # <<>> /\ Stems(u, e.doc, e.fresh, id) /\ Has(u, id)
  <2>1. SUFFICES ASSUME Live(e, id), ~e.threw
                 PROVE  Tree(u, e.fresh, c) /\ u # <<>> /\ Stems(u, e.doc, e.fresh, id) /\ Has(u, id)
    OBVIOUS
  <2>2. t \in Text /\ Spells(t, Names(t)) /\ TextLen(e.doc, id) = Len(t) /\ Tree(e.doc, e.fresh, c) /\ Has(e.doc, id)
    BY <2>1, LiveIs DEF Live
  <2>3. o \in 0..Len(t)
    BY <2>1, <2>2
  <2>4. Copied(s) \in Text /\ Spells(Copied(s), {})
    BY CopiedIs
  <2> DEFINE M == {}
  <2>5. Spells(Copied(s), M) /\ Names(t) \cap M = {} /\ Names(t) \cup M = Names(t)
    BY <2>4
  <2>6. /\ Tree(d, e.fresh, c) /\ Stems(d, e.doc, e.fresh, id) /\ Has(d, id)
        /\ BlockOf(d, id).rich = TRUE /\ BlockOf(d, id).text = t
    <3>1. c \in Nat /\ e.fresh \in Nat
      BY <1>1
    <3>2. Ensured(e.doc, id, e.fresh, c, d)
      BY <2>2, <3>1, EnsureTextIs
    <3> HIDE DEF d
    <3> QED BY <3>2 DEF Ensured
  <2> HIDE DEF M, t, d
  <2>7. Spells(w, Names(t))
    BY <2>2, <2>3, <2>4, <2>5, GraftedIs
  <2> HIDE DEF w
  <2>8. Tree(u, e.fresh, c) /\ Stems(u, d, e.fresh, id) /\ Retexted(d, id, w, u)
    BY <1>1, <2>6, <2>7, RetextIs
  <2>9. Has(u, id)
    BY <2>8 DEF Retexted
  <2>10. Stems(u, e.doc, e.fresh, id)
    BY <2>6, <2>8, StemsTwice
  <2> HIDE DEF u
  <2>11. u # <<>>
    BY <2>9 DEF Has
  <2> QED BY <2>8, <2>9, <2>10, <2>11
<1> HIDE DEF u
<1>3. Graft(e, id, o, s) = IF s = <<>> \/ ~Live(e, id) THEN e ELSE x
  BY DEF Graft, u, d, w, t
<1>4. ASSUME Live(e, id) PROVE Good(x, c) /\ x.fresh = e.fresh /\ (~x.threw => ~e.threw /\ Has(x.doc, id))
  <2>1. Ready(e, TRUE, u, 0, c, id)
    BY <1>2, <1>4, ReadyIs
  <2>2. Done(e, TRUE, u, 0, c, x) /\ Steps(e, x, 0, c, id)
    BY <1>1, <2>1, Does
  <2> HIDE DEF x
  <2>3. Good(x, c) /\ x.fresh = e.fresh
    BY <1>1, <2>2, StepsGood
  <2> QED BY <1>2, <1>4, <2>2, <2>3 DEF Done
<1> HIDE DEF x
<1> QED BY <1>3, <1>4 DEF Live

\* Where a refused split leaves no new block, what is planted beside the old one
\* may lie anywhere: nothing happens to an editor that threw.
LEMMA PlantedIs ==
  ASSUME NEW e, NEW c, Good(e, c), NEW id, ~e.threw => Has(e.doc, id), NEW f, Fragments(f)
  PROVE  Good(Planted(e, id, f), c) /\ Planted(e, id, f).fresh = e.fresh + Len(f)
<1> DEFINE at == LastOf(e.doc, At(e.doc, id))
           u == Splice(e.doc, at + 1, at, Sprouts(f, e.fresh, BlockOf(e.doc, id).depth))
           x == Use(Do(e, TRUE, u, FALSE), Len(f))
<1>1. /\ e.fresh \in Nat /\ c \in Nat /\ c <= c /\ c <= e.fresh /\ e.fresh <= e.fresh /\ Tree(e.doc, e.fresh, c)
      /\ e.fresh + 0 = e.fresh
  BY FreshIs, GoodIs
<1>2. Len(f) \in Nat /\ (f # <<>> <=> Len(f) > 0)
  BY FragmentIs
<1>3. ~e.threw => Doc(u, e.fresh + Len(f), c) /\ \A z : Stems(u, e.doc, e.fresh, z)
  BY <1>1, SproutedIs
<1>4. f # <<>> => Planted(e, id, f) = x
  BY DEF Planted, Sprouts
<1>5. f = <<>> => Planted(e, id, f) = e
  BY DEF Planted
<1> HIDE DEF u
<1>6. Ready(e, TRUE, u, Len(f), c, 0)
  BY <1>3 DEF Ready
<1>7. c <= e.fresh + Len(f)
  BY <1>1, <1>2
<1>8. Steps(e, x, Len(f), c, 0)
  BY <1>1, <1>2, <1>6, <1>7, Uses
<1> HIDE DEF x
<1> QED BY <1>1, <1>2, <1>4, <1>5, <1>8, StepsGood

\* A block dropped after a paste.
LEMMA DropIs ==
  ASSUME NEW e, NEW c, Good(e, c), NEW id
  PROVE  Good(Drop(e, id), c)
<1>1. Good(Delete(e, id), c)
  BY DeleteIs, StepsGood
<1> QED BY <1>1 DEF Drop

\* The caret after a paste.
LEMMA SettledIs ==
  ASSUME NEW e, NEW c, Good(e, c), NEW top, top.size \in Nat, NEW last \in Nat, NEW tail \in Nat
  PROVE  Good(Settled(e, top, last, tail), c)
<1>1. Good(Merge(e, last, tail), c) /\ Good(Delete(e, tail), c)
  BY MergeIs, DeleteIs, StepsGood
<1>2. top.size \in Int /\ 0 \in Int
  OBVIOUS
<1>3. /\ Good(Collapse(Merge(e, last, tail), last, top.size), c)
      /\ Good(Collapse(Delete(e, tail), last, top.size), c)
      /\ Good(Collapse(e, tail, 0), c)
  BY <1>1, <1>2, CollapseIs DEF Same
<1> QED BY <1>3 DEF Settled

\* The last fragment that hangs below no other.
LEMMA TopIs ==
  ASSUME NEW f, Fragments(f), f # <<>>
  PROVE  (CHOOSE k \in DOMAIN f : f[k].depth = 0 /\ \A j \in (k + 1)..Len(f) : f[j].depth > 0) \in DOMAIN f
<1> DEFINE T == {k \in DOMAIN f : f[k].depth = 0}
<1>1. Len(f) \in Nat /\ DOMAIN f = 1..Len(f) /\ Len(f) > 0 /\ \A k \in DOMAIN f : f[k].depth \in Nat
  BY FragmentIs
<1>2. f[1].depth = 0
  BY DEF Fragments, Rooted
<1>3. T \in SUBSET Nat /\ T # {} /\ \A m \in T : m <= Len(f)
  BY <1>1, <1>2
<1>4. PICK k \in T : \A m \in T : m <= k
  <2> HIDE DEF T
  <2> QED BY <1>1, <1>3, Greatest
<1>5. ASSUME NEW j \in (k + 1)..Len(f) PROVE f[j].depth > 0
  <2>1. k \in Nat /\ j \in Int /\ j > k /\ j \in DOMAIN f
    BY <1>1, <1>3, <1>4
  <2>2. j \notin T
    BY <1>4, <2>1
  <2> QED BY <2>1, <2>2, <1>1
<1> QED BY <1>4, <1>5

\* Fragments spread over new blocks, the last of them joined to the tail.
LEMMA SpreadIs ==
  ASSUME NEW x, NEW c, Good(x, c), NEW id, ~x.threw => Has(x.doc, id), NEW tail \in Nat,
         NEW f, Fragments(f), f # <<>>, NEW joins
  PROVE  Good(Spread(x, id, tail, f, joins), c)
<1> DEFINE top == CHOOSE k \in DOMAIN f : f[k].depth = 0 /\ \A j \in (k + 1)..Len(f) : f[j].depth > 0
           planted == Planted(x, id, f)
           y == IF joins THEN planted ELSE Drop(planted, id)
           t == [bare |-> Bare(f, top), size |-> Len(f[top].text)]
           last == x.fresh + top - 1
<1>1. top \in DOMAIN f
  BY TopIs
<1>2. Good(planted, c)
  BY PlantedIs
<1>3. Good(y, c)
  BY <1>2, DropIs
<1>4. t.size \in Nat /\ last \in Nat
  <2>1. x.fresh \in Nat
    BY FreshIs
  <2>2. top \in Nat /\ top >= 1 /\ f[top].text \in Text
    <3> HIDE DEF top
    <3> QED BY <1>1, FragmentIs
  <2>3. Len(f[top].text) \in Nat
    BY <2>2, TextIs
  <2> HIDE DEF top
  <2> QED BY <2>1, <2>2, <2>3
<1>5. Spread(x, id, tail, f, joins) = Settled(y, t, last, tail)
  BY DEF Spread
<1> HIDE DEF y, t, last
<1>6. Good(Settled(y, t, last, tail), c)
  BY <1>3, <1>4, SettledIs
<1> QED BY <1>5, <1>6

\* The fragments behind the first, when nothing hangs below it.
LEMMA TailIs ==
  ASSUME NEW f, Fragments(f), Len(f) # 1, f # <<>>, Bare(f, 1)
  PROVE  Fragments(Tail(f)) /\ Tail(f) # <<>>
<1> DEFINE g == Tail(f)
<1>1. Len(f) \in Nat /\ DOMAIN f = 1..Len(f) /\ Len(f) > 1 /\ f \in Seq(Fragment)
  <2>1. Len(f) \in Nat /\ DOMAIN f = 1..Len(f) /\ Len(f) > 0
    BY FragmentIs
  <2>2. f \in Seq(Fragment)
    BY DEF Fragments
  <2> QED BY <2>1, <2>2
<1>2. g \in Seq(Fragment) /\ Len(g) = Len(f) - 1 /\ \A k \in 1..(Len(f) - 1) : g[k] = f[k + 1]
  BY <1>1
<1>3. DOMAIN g = 1..(Len(f) - 1) /\ g # <<>>
  <2> HIDE DEF g
  <2>1. DOMAIN g = 1..Len(g) /\ (g # <<>> <=> Len(g) > 0)
    BY <1>2, SeqIs
  <2> QED BY <1>1, <1>2, <2>1
<1>4. f[2].depth = 0
  BY <1>1 DEF Bare
<1> HIDE DEF g
<1>5. Rooted(g)
  BY <1>1, <1>2, <1>4 DEF Rooted
<1>6. Nested(g)
  <2>1. ASSUME NEW k \in 1..(Len(g) - 1) PROVE g[k + 1].depth <= g[k].depth + 1
    <3>1. k + 1 \in 1..(Len(f) - 1) /\ k \in 1..(Len(f) - 1)
      BY <1>1, <1>2
    <3>2. f[(k + 1) + 1].depth <= f[k + 1].depth + 1
      BY <1>1, <3>1 DEF Fragments, Nested
    <3> QED BY <3>1, <3>2, <1>2
  <2> QED BY <2>1 DEF Nested
<1>7. \A k \in DOMAIN g : g[k].text # <<>> => HasInline(g[k].kind)
  <2>1. ASSUME NEW k \in DOMAIN g PROVE g[k] = f[k + 1] /\ k + 1 \in DOMAIN f
    BY <1>1, <1>2, <1>3
  <2> QED BY <2>1 DEF Fragments
<1> QED BY <1>2, <1>3, <1>5, <1>6, <1>7 DEF Fragments, g

\* A structured paste at a caret.
LEMMA PasteAtIs ==
  ASSUME NEW e, NEW c, Good(e, c), ~e.threw, NEW p \in Pt, Fits(e.doc, p), NEW f, Fragments(f), f # <<>>
  PROVE  Good(PasteAt(e, p.b, p.o, f), c)
<1> DEFINE split == Split(e, p.b, p.o)
           hi == TextLen(e.doc, p.b)
<1>1. p.b \in Nat /\ p.o \in Nat /\ p.o \in Int
  BY PointsAre
<1>2. e.fresh \in Nat /\ c \in Nat /\ c <= c /\ c <= e.fresh /\ Tree(e.doc, e.fresh, c)
  BY FreshIs, GoodIs
<1>3. Len(f) \in Nat /\ f[1].text \in Text /\ Len(f[1].text) \in Nat
  BY FragmentIs, TextIs
<1>4. Live(e, p.b) => p.o \in 0..hi
  <2>1. Live(e, p.b) => p.o <= hi
    BY DEF Fits, Live
  <2> QED BY <1>1, <1>2, <2>1, TextLenIs
<1>5. Good(split, c)
  BY <1>1, SplitIs, StepsGood
<1>6. ~split.threw => Has(split.doc, p.b) /\ TextLen(split.doc, p.b) = p.o
  <2>1. SUFFICES ASSUME ~split.threw PROVE Has(split.doc, p.b) /\ TextLen(split.doc, p.b) = p.o
    OBVIOUS
  <2>2. Rich(e, p.b) /\ Halved(e.doc, p.b, Clamp(p.o, 0, hi), e.fresh, split.doc)
    BY <1>1, <2>1, SplitIs
  <2>3. Has(split.doc, p.b) /\ TextLen(split.doc, p.b) = Clamp(p.o, 0, hi)
    BY <2>2 DEF Halved
  <2>4. p.o \in 0..hi /\ hi \in Nat
    BY <1>2, <1>4, <2>2, TextLenIs, RichIs
  <2> HIDE DEF hi, split
  <2>5. Clamp(p.o, 0, hi) = p.o
    BY <1>1, <2>4 DEF Clamp
  <2> QED BY <2>3, <2>5
<1> HIDE DEF split
<1>7. Good(Spread(split, p.b, e.fresh, f, FALSE), c)
  BY <1>2, <1>5, <1>6, SpreadIs
<1>8. Good(Collapse(Graft(e, p.b, p.o, f[1].text), p.b, p.o + Len(f[1].text)), c)
  <2>1. Good(Graft(e, p.b, p.o, f[1].text), c)
    BY <1>3, <1>4, GraftIs
  <2>2. p.o + Len(f[1].text) \in Int
    BY <1>1, <1>3
  <2> QED BY <1>1, <2>1, <2>2, CollapseIs DEF Same
<1>9. ASSUME Len(f) # 1, Bare(f, 1)
      PROVE  Good(Spread(Graft(split, p.b, p.o, f[1].text), p.b, e.fresh, Tail(f), TRUE), c)
  <2> DEFINE y == Graft(split, p.b, p.o, f[1].text)
  <2>1. Good(y, c)
    <3>1. ~split.threw => p.o \in 0..TextLen(split.doc, p.b)
      BY <1>1, <1>6
    <3> QED BY <1>3, <1>5, <3>1, GraftIs
  <2>2. ~y.threw => Has(y.doc, p.b)
    <3>1. ~split.threw => p.o \in 0..TextLen(split.doc, p.b)
      BY <1>1, <1>6
    <3> QED BY <1>3, <1>5, <1>6, <3>1, GraftIs
  <2>3. Fragments(Tail(f)) /\ Tail(f) # <<>>
    BY <1>9, TailIs
  <2> HIDE DEF y
  <2>4. Good(Spread(y, p.b, e.fresh, Tail(f), TRUE), c)
    BY <1>2, <2>1, <2>2, <2>3, SpreadIs
  <2> QED BY <2>4 DEF y
<1> QED BY <1>7, <1>8, <1>9 DEF PasteAt, split

LEMMA WordsAre ==
  /\ MarkKeys \subseteq Word
  /\ \A w \in {"none", "level1", "unchecked", "checked", "on", "href", "thread", "ana", " ", "\n", "@", "x"} : w \in Word
BY DEF Word

\* Two new characters: the label and a space.
LEMMA ChipIs ==
  ASSUME NEW n \in Nat
  PROVE  LET chip == <<[c |-> n, g |-> "@", m |-> {}], [c |-> n + 1, g |-> " ", m |-> {}]>>
         IN  chip \in Text /\ Distinct(chip) /\ Names(chip) \subseteq {n, n + 1} /\ Spells(chip, {n, n + 1})
<1> DEFINE x == [c |-> n, g |-> "@", m |-> {}]
           y == [c |-> n + 1, g |-> " ", m |-> {}]
           chip == <<x, y>>
<1>1. "@" \in Word /\ " " \in Word
  BY WordsAre
<1>2. {} \in SUBSET (Word \X Word) /\ n + 1 \in Nat
  OBVIOUS
<1>3. x \in Char /\ y \in Char
  BY <1>1, <1>2 DEF Char
<1>4. x.c = n /\ y.c = n + 1
  OBVIOUS
<1> HIDE DEF x, y
<1>5. chip \in Seq(Char) /\ DOMAIN chip = {1, 2} /\ chip[1] = x /\ chip[2] = y
  BY <1>3
<1>6. chip[1].c = n /\ chip[2].c = n + 1 /\ n # n + 1
  BY <1>4, <1>5
<1> HIDE DEF chip
<1>7. Names(chip) \subseteq {n, n + 1}
  BY <1>5, <1>6 DEF Names
<1>8. Distinct(chip)
  BY <1>5, <1>6 DEF Distinct
<1>9. chip \in Text
  BY <1>5 DEF Text
<1> QED BY <1>7, <1>8, <1>9 DEF Spells, chip, x, y

\* A mention: two new characters in the place of the query.
LEMMA InsertMentionIs ==
  ASSUME NEW e, Good(e, e.fresh), NEW id, NEW a \in Int, NEW b \in Int, NEW who \in Word
  PROVE  Good(InsertMention(e, id, a, b, who), InsertMention(e, id, a, b, who).fresh)
<1> DEFINE t == BlockOf(e.doc, id).text
           n == e.fresh
           from == Clamp(a, 0, Len(t))
           to == Clamp(b, from, Len(t))
           cut == Slice(t, 0, from) \o Slice(t, to, Len(t))
           chip == <<[c |-> e.fresh, g |-> "@", m |-> {}], [c |-> e.fresh + 1, g |-> " ", m |-> {}]>>
           typed == Typed(cut, from, chip)
           w == Marked(typed, from, from + 1, <<"mention", who>>)
           u == SetText(e.doc, id, w)
           ok == Inline(e, id)
           x == Use(Do(e, ok, u, FALSE), 2)
           M == {n, n + 1}
           c1 == n + 2
<1>1. n \in Nat /\ n <= n /\ Tree(e.doc, n, n) /\ n + 1 \in Nat /\ 2 \in Nat /\ c1 \in Nat /\ n <= c1 /\ c1 <= c1
  BY FreshIs, GoodIs
<1>2. chip \in Text /\ Spells(chip, M)
  BY <1>1, ChipIs
<1> HIDE DEF chip
<1>3. ok => Doc(u, c1, c1) /\ Stems(u, e.doc, n, id)
  <2>1. SUFFICES ASSUME ok PROVE Doc(u, c1, c1) /\ Stems(u, e.doc, n, id)
    OBVIOUS
  <2>2. Rich(e, id) /\ Live(e, id)
    BY <2>1, RichIs
  <2>3. /\ t \in Text /\ Len(t) \in Nat /\ Spells(t, Names(t)) /\ Has(e.doc, id)
        /\ At(e.doc, id) \in DOMAIN e.doc /\ BlockOf(e.doc, id) = e.doc[At(e.doc, id)] /\ BlockOf(e.doc, id).rich
    BY <2>2, RichIs, LiveIs, TextIs
  <2>4. \A k \in DOMAIN e.doc : Names(e.doc[k].text) \cap M = {}
    <3>1. ASSUME NEW k \in DOMAIN e.doc PROVE Names(e.doc[k].text) \cap M = {}
      <4>1. Names(e.doc[k].text) \subseteq Nat /\ \A y \in Names(e.doc[k].text) : y < n
        BY <1>1, SoundIs DEF Tree
      <4> QED BY <4>1, <1>1
    <3> QED BY <3>1
  <2>5. Names(t) \cap M = {}
    BY <2>3, <2>4
  <2>6. from \in 0..Len(t) /\ from \in Nat
    <3> DEFINE hi == Len(t)
    <3>1. hi \in Int /\ 0 \in Int /\ 0 <= hi
      BY <2>3
    <3> HIDE DEF hi
    <3>2. Clamp(a, 0, hi) \in 0..hi
      BY <3>1, ClampIs
    <3> QED BY <3>1, <3>2 DEF hi
  <2> HIDE DEF from
  <2>7. to \in from..Len(t) /\ to \in Nat
    <3> DEFINE hi == Len(t)
    <3>1. hi \in Int /\ from \in Int /\ from <= hi
      BY <2>3, <2>6
    <3> HIDE DEF hi
    <3>2. Clamp(b, from, hi) \in from..hi
      BY <3>1, ClampIs
    <3> QED BY <2>6, <3>1, <3>2 DEF hi
  <2> HIDE DEF to, M
  <2>8. cut \in Text /\ Len(cut) = from + (Len(t) - to) /\ Spells(cut, Names(t))
    <3>1. from <= to /\ to <= Len(t)
      BY <2>3, <2>6, <2>7
    <3> HIDE DEF t
    <3> QED BY <2>3, <2>6, <2>7, <3>1, CutOut
  <2> HIDE DEF t
  <2>9. from \in 0..Len(cut)
    BY <2>3, <2>6, <2>7, <2>8
  <2> HIDE DEF cut
  <2>10. Spells(typed, Names(t) \cup M)
    BY <1>2, <2>5, <2>8, <2>9, TypedIs
  <2> HIDE DEF typed
  <2>11. Spells(w, Names(t) \cup M)
    <3>1. typed \in Text
      BY <2>10 DEF Spells
    <3>2. <<"mention", who>> \in Marks
      BY WordsAre DEF Marks, MarkKeys
    <3>3. Rewritten(typed, w)
      BY <3>1, <3>2, MarkedIs
    <3> QED BY <2>10, <3>1, <3>3, SameNames
  <2> HIDE DEF w
  <2>12. \A y \in M : y < c1
    BY <1>1 DEF M
  <2> HIDE DEF c1
  <2>13. Tree(u, n, c1) /\ Stems(u, e.doc, n, id) /\ Retexted(e.doc, id, w, u)
    BY <1>1, <2>3, <2>4, <2>11, <2>12, SetTextIs DEF t
  <2>14. Tree(u, c1, c1)
    BY <1>1, <2>13, TreeLater
  <2>15. u # <<>>
    <3>1. Has(u, id)
      BY <2>13 DEF Retexted
    <3> QED BY <3>1, HasIs
  <2> QED BY <2>13, <2>14, <2>15, DocIs
<1>4. ok \in BOOLEAN
  BY GuardsAre
<1>5. InsertMention(e, id, a, b, who) = x
  BY DEF InsertMention, ok, u, w, typed, cut, to, from, chip, t
<1> HIDE DEF u, ok, c1
<1>6. Ready(e, ok, u, 2, c1, id)
  BY <1>3 DEF Ready, c1
<1>7. c1 <= e.fresh + 2
  BY <1>1 DEF c1
<1>8. Steps(e, x, 2, c1, id)
  BY <1>1, <1>4, <1>6, <1>7, Uses
<1>9. Good(x, c1) /\ x.fresh = c1
  BY <1>8, StepsGood DEF c1
<1> QED BY <1>5, <1>9

\* Everything cleared: one new paragraph.
LEMMA ClearIs ==
  ASSUME NEW e, NEW c, Good(e, c)
  PROVE  Good(Clear(e), c)
<1> DEFINE b == NewBlock(e.fresh, "paragraph", "none", 0)
           u == <<b>>
           y == Do(e, TRUE, u, FALSE)
           n1 == e.fresh + 1
<1>1. e.fresh \in Nat /\ e.fresh # 0 /\ c \in Nat /\ c <= c /\ c <= e.fresh + 1 /\ n1 \in Nat /\ e.fresh < n1 /\ 1 \in Nat
      /\ 0 \in Nat
  BY FreshIs
<1>2. "paragraph" \in Kinds /\ "none" \in Word
  BY WordsAre DEF Kinds, InlineKinds
<1> HIDE DEF n1
<1>3. Sound(b, n1, c) /\ b.depth = 0 /\ b.id = e.fresh
  BY <1>1, <1>2, NewBlockIs DEF Blank
<1> HIDE DEF b
<1>4. b \in Block
  BY <1>3 DEF Sound
<1>5. u \in Seq(Block) /\ Len(u) = 1 /\ DOMAIN u = {1} /\ u[1] = b /\ u # <<>> /\ Nested(u) /\ AllApart(u)
  BY <1>4, SingleIs
<1> HIDE DEF u
<1>6. Doc(u, n1, c)
  BY <1>3, <1>5 DEF Doc, Rooted
<1>7. Stems(u, e.doc, e.fresh, 0)
  BY <1>1, <1>3, <1>5 DEF Stems
<1>8. Ready(e, TRUE, u, 1, c, 0)
  BY <1>6, <1>7 DEF Ready, n1
<1>9. Good(Use(y, 1), c) /\ y \in Editors /\ y.fresh = e.fresh
  <2>1. Done(e, TRUE, u, 1, c, Use(y, 1)) /\ y \in Editors /\ y.fresh = e.fresh
    BY <1>1, <1>8, DoIs
  <2> QED BY <2>1 DEF Done
<1> DEFINE z == Use(y, 1)
<1>10. Clear(e) = Use(Select(y, NoSel), 1)
  BY DEF Clear, u, b
<1> HIDE DEF y
<1>11. Use(Select(y, NoSel), 1) = Select(z, NoSel)
  <2>1. z.threw = y.threw
    BY <1>9 DEF Use, Editors
  <2>2. CASE y.threw
    BY <2>1, <2>2 DEF Select
  <2>3. CASE ~y.threw
    <3>1. Use([y EXCEPT !.sel = NoSel], 1) = [z EXCEPT !.sel = NoSel]
      BY <1>9 DEF Use, Editors
    <3> QED BY <2>1, <2>3, <3>1 DEF Select
  <2> QED BY <2>2, <2>3
<1> HIDE DEF z
<1>12. Good(Select(z, NoSel), c)
  <2>1. Good(z, c)
    BY <1>9 DEF z
  <2> QED BY <2>1, PointsAre, SelectIs DEF Same
<1> QED BY <1>10, <1>11, <1>12

\* An editor that went back to a document it knows.
LEMMA ReconciledIs ==
  ASSUME NEW e, NEW c, Good(e, c)
  PROVE  Good(Reconciled(e), c) /\ Reconciled(e).fresh = e.fresh
<1> DEFINE cap(p) == Caret(p.b, IF p.o > TextLen(e.doc, p.b) THEN TextLen(e.doc, p.b) ELSE p.o)
           s == IF Live(e, e.sel.a.b) /\ Live(e, e.sel.f.b) THEN At2(cap(e.sel.a), cap(e.sel.f)) ELSE NoSel
<1>1. e.fresh \in Nat /\ c \in Nat /\ Tree(e.doc, e.fresh, c) /\ e.sel \in Sel
  BY GoodIs
<1>2. ASSUME NEW p \in Pt PROVE cap(p) \in Pt
  <2>1. p.b \in Nat /\ p.o \in Nat /\ TextLen(e.doc, p.b) \in Nat
    BY <1>1, PointsAre, TextLenIs
  <2> QED BY <2>1, PointsAre
<1>3. cap(e.sel.a) \in Pt /\ cap(e.sel.f) \in Pt
  BY <1>1, <1>2, PointsAre
<1>4. Reconciled(e) = [e EXCEPT !.sel = s]
  BY DEF Reconciled
<1> HIDE DEF cap
<1>5. s \in Sel
  BY <1>3, PointsAre
<1> HIDE DEF s
<1> QED BY <1>4, <1>5, ChooseIs DEF Same

LEMMA StackIs ==
  ASSUME NEW S, NEW s \in Seq(S), s # <<>>
  PROVE  Last(s) \in S /\ Last(s) \in Range(s) /\ Front(s) \in Seq(S) /\ Range(Front(s)) \subseteq Range(s)
<1> DEFINE n == Len(s)
<1>1. n \in Nat /\ n > 0 /\ DOMAIN s = 1..n /\ s # <<>>
  BY SeqIs
<1>2. Last(s) = s[n] /\ n \in DOMAIN s
  BY <1>1 DEF Last
<1>3. Last(s) \in S /\ Last(s) \in Range(s)
  BY <1>1, <1>2, SeqIs DEF Range
<1>4. Front(s) = SubSeq(s, 1, n - 1)
  BY DEF Front
<1>5. 1 \in Int /\ n - 1 \in Int /\ 1 <= 1 /\ n - 1 <= Len(s)
  BY <1>1
<1>6. Portion(S, s, 1, n - 1, Front(s))
  BY <1>4, <1>5, PortionIs
<1>7. Front(s) \in Seq(S)
  BY <1>6, Zenon DEF Portion
<1>8. ASSUME NEW k \in DOMAIN Front(s) PROVE Front(s)[k] \in Range(s)
  <2>1. k \in 1..Len(Front(s)) /\ Len(Front(s)) \in Nat
    <3> DEFINE u == Front(s)
    <3>1. Portion(S, s, 1, n - 1, u) /\ k \in DOMAIN u
      BY <1>6
    <3> HIDE DEF u
    <3>2. k \in 1..Len(u) /\ Len(u) \in Nat
      BY <3>1, Zenon DEF Portion
    <3> QED BY <3>2 DEF u
  <2>2. Front(s)[k] = s[1 + k - 1] /\ 1 + k - 1 \in 1..(n - 1)
    BY <1>6, <2>1 DEF Portion
  <2>3. 1 + k - 1 \in DOMAIN s
    BY <1>1, <2>2
  <2> QED BY <2>2, <2>3 DEF Range
<1>9. Range(Front(s)) \subseteq Range(s)
  BY <1>8 DEF Range
<1> QED BY <1>3, <1>7, <1>9

\* Undo and redo go to documents the editor knows.
LEMMA HistoryIs ==
  ASSUME NEW e, NEW c, Good(e, c)
  PROVE  /\ Good(Undo(e), c) /\ Undo(e).fresh = e.fresh
         /\ Good(Redo(e), c) /\ Redo(e).fresh = e.fresh
<1>1. /\ e \in Editors /\ e.doc \in Seq(Block) /\ e.past \in Seq(Seq(Block)) /\ e.future \in Seq(Seq(Block))
      /\ e.fresh \in Nat /\ c \in Nat /\ c <= c /\ c <= e.fresh /\ e.fresh <= e.fresh
      /\ e.doc \in Docs(e) /\ Range(e.past) \subseteq Docs(e) /\ Range(e.future) \subseteq Docs(e)
  BY GoodIs, EditorIs
<1>2. ASSUME NEW from \in Seq(Seq(Block)), NEW to \in Seq(Seq(Block)), from # <<>>,
             Range(from) \subseteq Docs(e), Range(to) \subseteq Docs(e), NEW x,
             x \in Editors, x.doc = Last(from), x.fresh = e.fresh,
             Range(x.past) \cup Range(x.future) \subseteq Range(Front(from)) \cup Range(Append(to, e.doc))
      PROVE  Good(Reconciled(x), c) /\ Reconciled(x).fresh = e.fresh
  <2>1. Last(from) \in Range(from) /\ Range(Front(from)) \subseteq Range(from)
    BY <1>2, StackIs
  <2>2. Range(Append(to, e.doc)) \subseteq Range(to) \cup {e.doc}
    BY RangeAppend
  <2>3. Docs(x) \subseteq Docs(e)
    BY <1>1, <1>2, <2>1, <2>2 DEF Docs
  <2>4. Good(x, c)
    BY <1>1, <1>2, <2>3, SameDocs
  <2> QED BY <1>2, <2>4, ReconciledIs
<1>3. ASSUME e.past # <<>> PROVE Good(Undo(e), c) /\ Undo(e).fresh = e.fresh
  <2> DEFINE x == [e EXCEPT !.doc = Last(e.past), !.past = Front(e.past), !.future = Append(e.future, e.doc)]
  <2>1. Last(e.past) \in Seq(Block) /\ Front(e.past) \in Seq(Seq(Block)) /\ Append(e.future, e.doc) \in Seq(Seq(Block))
    <3>1. Last(e.past) \in Seq(Block) /\ Front(e.past) \in Seq(Seq(Block))
      BY <1>1, <1>3, StackIs
    <3>2. Append(e.future, e.doc) \in Seq(Seq(Block))
      BY <1>1
    <3> QED BY <3>1, <3>2
  <2>2. Undo(e) = Reconciled(x)
    BY <1>3 DEF Undo
  <2>3. /\ x \in Editors /\ x.doc = Last(e.past) /\ x.fresh = e.fresh /\ x.past = Front(e.past)
        /\ x.future = Append(e.future, e.doc)
    BY <1>1, <2>1 DEF Editors
  <2> HIDE DEF x
  <2>4. Good(Reconciled(x), c) /\ Reconciled(x).fresh = e.fresh
    BY <1>1, <1>2, <1>3, <2>3
  <2> QED BY <2>2, <2>4
<1>4. ASSUME e.future # <<>> PROVE Good(Redo(e), c) /\ Redo(e).fresh = e.fresh
  <2> DEFINE x == [e EXCEPT !.doc = Last(e.future), !.future = Front(e.future), !.past = Append(e.past, e.doc)]
  <2>1. Last(e.future) \in Seq(Block) /\ Front(e.future) \in Seq(Seq(Block)) /\ Append(e.past, e.doc) \in Seq(Seq(Block))
    <3>1. Last(e.future) \in Seq(Block) /\ Front(e.future) \in Seq(Seq(Block))
      BY <1>1, <1>4, StackIs
    <3>2. Append(e.past, e.doc) \in Seq(Seq(Block))
      BY <1>1
    <3> QED BY <3>1, <3>2
  <2>2. Redo(e) = Reconciled(x)
    BY <1>4 DEF Redo
  <2>3. /\ x \in Editors /\ x.doc = Last(e.future) /\ x.fresh = e.fresh /\ x.future = Front(e.future)
        /\ x.past = Append(e.past, e.doc)
    BY <1>1, <2>1 DEF Editors
  <2> HIDE DEF x
  <2>4. Good(Reconciled(x), c) /\ Reconciled(x).fresh = e.fresh
    BY <1>1, <1>2, <1>4, <2>3
  <2> QED BY <2>2, <2>4
<1> QED BY <1>3, <1>4 DEF Undo, Redo

(***************************************************************************)
(* Replacing the selection.                                                *)
(***************************************************************************)

\* The endpoints r of the selection s in document order.
InOrder(e, s, r) ==
  /\ r \in Sel /\ Known(e, r) /\ r.a \in {s.a, s.f} /\ r.f \in {s.a, s.f} /\ Ordered(e, r) = r
  /\ At(e.doc, r.a.b) \in DOMAIN e.doc /\ At(e.doc, r.f.b) \in DOMAIN e.doc
  /\ At(e.doc, r.a.b) <= At(e.doc, r.f.b)

\* A selection has its two ends in document order.
LEMMA OrderedIs ==
  ASSUME NEW e, NEW c, Good(e, c), NEW s \in Sel
  PROVE  /\ Ordered(e, s) \in Sel /\ Ordered(e, s).a \in {s.a, s.f} /\ Ordered(e, s).f \in {s.a, s.f}
         /\ Known(e, s) => InOrder(e, s, Ordered(e, s))
<1> DEFINE d == e.doc
           i == At(d, s.a.b)
           j == At(d, s.f.b)
           t == At2(s.f, s.a)
           r == Ordered(e, s)
<1>1. r = IF i < j \/ (i = j /\ s.a.o <= s.f.o) THEN s ELSE t
  BY DEF Ordered
<1>2. s.a \in Pt /\ s.f \in Pt /\ t \in Sel /\ t.a = s.f /\ t.f = s.a
  BY PointsAre DEF At2
<1>3. r \in Sel /\ r.a \in {s.a, s.f} /\ r.f \in {s.a, s.f}
  BY <1>1, <1>2
<1>4. ASSUME Known(e, s) PROVE InOrder(e, s, r)
  <2>1. i \in DOMAIN d /\ j \in DOMAIN d /\ i \in Nat /\ j \in Nat
    <3>1. Live(e, s.a.b) /\ Live(e, s.f.b) /\ DOMAIN d = 1..Len(d) /\ Len(d) \in Nat
      BY <1>4, GoodIs, BlocksAre DEF Known
    <3> QED BY <3>1, LiveIs
  <2>2. s.a.o \in Nat /\ s.f.o \in Nat
    BY <1>2, PointsAre
  <2>3. CASE i < j \/ (i = j /\ s.a.o <= s.f.o)
    <3>1. r = s
      BY <1>1, <2>3
    <3>2. Ordered(e, r) = r
      BY <3>1
    <3> QED BY <1>2, <1>3, <1>4, <2>1, <2>3, <3>1, <3>2 DEF InOrder
  <2>4. CASE ~(i < j \/ (i = j /\ s.a.o <= s.f.o))
    <3>1. r = t
      BY <1>1, <2>4
    <3>2. j < i \/ (j = i /\ s.f.o <= s.a.o)
      BY <2>1, <2>2, <2>4
    <3>3. Ordered(e, t) = t
      BY <1>2, <3>2 DEF Ordered
    <3>4. Known(e, t) /\ j <= i
      BY <1>2, <1>4, <2>1, <3>2 DEF Known
    <3> HIDE DEF t, r
    <3> QED BY <1>2, <1>3, <2>1, <3>1, <3>3, <3>4 DEF InOrder
  <2> QED BY <2>3, <2>4
<1> QED BY <1>3, <1>4

\* The ids of the blocks from position i to position j.
Run(d, i, j, ids) ==
  /\ ids \in Seq(Nat) /\ Len(ids) = j - i + 1 /\ DOMAIN ids = 1..(j - i + 1) /\ i \in Nat /\ j \in Nat /\ i <= j
  /\ \A k \in DOMAIN ids : i + k - 1 \in DOMAIN d /\ ids[k] = d[i + k - 1].id

\* The blocks between them.
LEMMA SpannedIs ==
  ASSUME NEW e, NEW c, Good(e, c), NEW s, NEW r, InOrder(e, s, r)
  PROVE  Run(e.doc, At(e.doc, r.a.b), At(e.doc, r.f.b), Spanned(e, r))
<1> DEFINE d == e.doc
           i == At(d, r.a.b)
           j == At(d, r.f.b)
           n == j - i + 1
           ids == [k \in 1..n |-> d[i + k - 1].id]
<1>1. d \in Seq(Block) /\ Len(d) \in Nat /\ DOMAIN d = 1..Len(d)
  BY GoodIs, BlocksAre
<1>2. i \in DOMAIN d /\ j \in DOMAIN d /\ i <= j /\ Ordered(e, r) = r
  BY DEF InOrder
<1>3. Spanned(e, r) = ids
  BY <1>2 DEF Spanned
<1> HIDE DEF i, j
<1>4. i \in Nat /\ j \in Nat /\ n \in Nat
  BY <1>1, <1>2
<1>5. \A k \in 1..n : i + k - 1 \in DOMAIN d /\ d[i + k - 1].id \in Nat
  <2>1. ASSUME NEW k \in 1..n PROVE i + k - 1 \in DOMAIN d
    BY <1>1, <1>2, <1>4
  <2> QED BY <1>1, <2>1, BlocksAre
<1> HIDE DEF n
<1>6. ids \in [1..n -> Nat] /\ \A k \in 1..n : ids[k] = d[i + k - 1].id
  BY <1>5
<1> HIDE DEF ids
<1>7. ids \in Seq(Nat) /\ Len(ids) = n /\ DOMAIN ids = 1..n
  BY <1>4, <1>6, FcnIsSeq
<1> QED BY <1>2, <1>3, <1>4, <1>5, <1>6, <1>7 DEF Run, i, j, n

\* An editor along the way, when the caret p of e is to be kept.
Onward(e, c, p) == {x \in Editors : Good(x, c) /\ e.fresh <= x.fresh /\ Fits(x.doc, p)}

\* A command that does not shorten the block of a caret leaves the caret in it.
LEMMA StepFits ==
  ASSUME NEW x, NEW c, Good(x, c), NEW p \in Pt, p.b < x.fresh, Fits(x.doc, p),
         NEW y, NEW m, NEW z, Steps(x, y, m, c, z), p.b # z \/ TextLen(y.doc, p.b) >= TextLen(x.doc, p.b)
  PROVE  Fits(y.doc, p)
<1>1. SUFFICES ASSUME Has(y.doc, p.b) PROVE p.o <= TextLen(y.doc, p.b)
  BY DEF Fits
<1>2. p.b \in Nat /\ p.o \in Nat
  BY PointsAre
<1>3. Live(x, p.b) /\ (p.b # z => TextLen(y.doc, p.b) = TextLen(x.doc, p.b))
  BY <1>1, <1>2, StepAbides DEF Live
<1>4. p.o <= TextLen(x.doc, p.b)
  BY <1>3 DEF Fits, Live
<1>5. TextLen(x.doc, p.b) \in Nat /\ TextLen(y.doc, p.b) \in Nat
  <2>1. Good(y, c)
    BY StepsGood
  <2>2. Tree(x.doc, x.fresh, c) /\ Tree(y.doc, y.fresh, c) /\ x.fresh \in Nat /\ y.fresh \in Nat /\ c \in Nat
    BY <2>1, GoodIs
  <2> QED BY <2>2, TextLenIs
<1> QED BY <1>2, <1>3, <1>4, <1>5

LEMMA StepOnward ==
  ASSUME NEW e, NEW c, e.fresh \in Nat, NEW p \in Pt, p.b < e.fresh, NEW x \in Onward(e, c, p),
         NEW y, NEW m \in Nat, NEW z, Steps(x, y, m, c, z), p.b # z \/ TextLen(y.doc, p.b) >= TextLen(x.doc, p.b)
  PROVE  y \in Onward(e, c, p)
<1>1. Good(x, c) /\ e.fresh <= x.fresh /\ Fits(x.doc, p)
  BY DEF Onward
<1>2. Good(y, c) /\ y.fresh = x.fresh + m
  BY StepsGood
<1>3. x.fresh \in Nat /\ y \in Editors /\ p.b \in Nat
  BY <1>1, <1>2, GoodIs, PointsAre
<1>4. Fits(y.doc, p)
  BY <1>1, <1>3, StepFits
<1> QED BY <1>1, <1>2, <1>3, <1>4 DEF Onward

\* One more block of a selection is taken in.
LEMMA SwallowIs ==
  ASSUME NEW e, NEW c, e.fresh \in Nat, NEW p \in Pt, p.b < e.fresh, NEW x \in Onward(e, c, p),
         NEW id, id # p.b, NEW g \in Int
  PROVE  LET y == IF g = 0 THEN x ELSE Do(x, Live(x, id), TextDelete(x, id, 0, g).doc, TRUE)
         IN  Merge(y, p.b, id) \in Onward(e, c, p) /\ Delete(x, id) \in Onward(e, c, p)
<1> DEFINE w == Do(x, Live(x, id), TextDelete(x, id, 0, g).doc, TRUE)
           y == IF g = 0 THEN x ELSE w
<1>1. Good(x, c) /\ 0 \in Int /\ 0 \in Nat /\ 1 \in Nat
  BY DEF Onward
<1>2. w \in Onward(e, c, p)
  <2> DEFINE td == TextDelete(x, id, 0, g)
  <2>1. Steps(x, td, 0, c, id)
    BY <1>1, TextDeleteIs
  <2> HIDE DEF td
  <2>2. Good(td, c) /\ td.fresh = x.fresh + 0 /\ x.fresh \in Nat /\ c \in Nat /\ c <= c /\ c <= x.fresh
    BY <1>1, <2>1, StepsGood, FreshIs
  <2>3. Doc(td.doc, x.fresh + 0, c) /\ Stems(td.doc, x.doc, x.fresh, id)
    BY <2>1, <2>2, GoodIs DEF Steps
  <2>4. Ready(x, Live(x, id), td.doc, 0, c, id)
    BY <2>3 DEF Ready
  <2>5. Live(x, id) \in BOOLEAN
    BY GuardsAre
  <2>6. Steps(x, w, 0, c, id)
    BY <1>1, <2>2, <2>4, <2>5, Does DEF td
  <2> HIDE DEF w
  <2> QED BY <1>1, <2>6, StepOnward
<1> HIDE DEF w
<1>3. y \in Onward(e, c, p)
  BY <1>2
<1>4. Merge(y, p.b, id) \in Onward(e, c, p)
  <2> HIDE DEF y
  <2>1. Good(y, c)
    BY <1>3 DEF Onward
  <2>2. Steps(y, Merge(y, p.b, id), 0, c, p.b) /\ TextLen(Merge(y, p.b, id).doc, p.b) >= TextLen(y.doc, p.b)
    BY <2>1, MergeIs
  <2> QED BY <1>1, <1>3, <2>2, StepOnward
<1>5. Delete(x, id) \in Onward(e, c, p)
  <2>1. Steps(x, Delete(x, id), 1, c, id)
    BY <1>1, DeleteIs
  <2> QED BY <1>1, <2>1, StepOnward
<1> QED BY <1>4, <1>5 DEF y, w

\* Max picks a position of every set of positions.
LEMMA MaxPicks ==
  ASSUME NEW n \in Nat, NEW S, S = 1..n
  PROVE  Picks(S, [T \in SUBSET S |-> Max(T)]) /\ IsFiniteSet(S)
<1>1. ASSUME NEW T \in SUBSET S, T # {} PROVE Max(T) \in T
  <2>1. T \in SUBSET Nat /\ \A m \in T : m <= n
    OBVIOUS
  <2> QED BY <1>1, <2>1, MaxIs
<1>2. IsFiniteSet(S)
  BY FS_Interval
<1> QED BY <1>1, <1>2 DEF Picks

\* Replacing the selection: the first block keeps what stands before it and
\* gets what stood behind it in the last, and those between are merged or
\* deleted one by one.
LEMMA ReplaceIs ==
  ASSUME NEW e, NEW c, Good(e, c), NEW s, Unnamed(s)
  PROVE  /\ Good(Replace(e, s), c)
         /\ Fits(e.doc, e.sel.a) /\ Fits(e.doc, e.sel.f) /\ ~e.threw /\ s = <<>> /\ ~Replace(e, s).threw =>
              Fits(Replace(e, s).doc, Replace(e, s).sel.a)
<1> DEFINE r == Ordered(e, e.sel)
           ids == Spanned(e, r)
           gone(id) == IF id = r.f.b THEN r.f.o ELSE TextLen(e.doc, id)
           swallow(x, id) ==
             IF HasInline(BlockOf(e.doc, id).kind)
             THEN Merge(IF gone(id) = 0 THEN x
                        ELSE Do(x, Live(x, id), TextDelete(x, id, 0, gone(id)).doc, TRUE), r.a.b, id)
             ELSE Delete(x, id)
           base == IF TextLen(e.doc, r.a.b) > r.a.o
                   THEN TextDelete(e, r.a.b, r.a.o, TextLen(e.doc, r.a.b)) ELSE e
           S == DOMAIN Tail(ids)
           Step(g) == [T \in SUBSET S |-> IF T = {} THEN base
                                          ELSE swallow(g[T \ {Max(T)}], Tail(ids)[Max(T)])]
           iter == CHOOSE g : g = Step(g)
           cut == IF Len(ids) = 1
                  THEN IF r.f.o > r.a.o THEN TextDelete(e, r.a.b, r.a.o, r.f.o - r.a.o) ELSE e
                  ELSE iter[S]
           put == IF s = <<>> THEN cut ELSE TextInsert(cut, r.a.b, r.a.o, s)
<1>1. Replace(e, s) = IF ~Known(e, e.sel) THEN e ELSE Select(put, Point(r.a.b, r.a.o + Len(s)))
  BY DEF Replace, FoldLeft, MapThenFoldSet
<1>2. e.fresh \in Nat /\ c \in Nat /\ c <= e.fresh /\ e.fresh <= e.fresh /\ e \in Editors /\ e.sel \in Sel /\ Tree(e.doc, e.fresh, c)
  BY GoodIs
<1>3. CASE ~Known(e, e.sel)
  BY <1>1, <1>3, Zenon
<1>4. CASE Known(e, e.sel)
  <2> DEFINE p == Caret(r.a.b, IF Fits(e.doc, r.a) THEN r.a.o ELSE 0)
             X == Onward(e, c, p)
  <2>1. InOrder(e, e.sel, r)
    BY <1>2, <1>4, OrderedIs
  <2> HIDE DEF r
  <2>2. /\ r \in Sel /\ p \in Pt /\ r.f \in Pt /\ p.b \in Nat /\ p.o \in Nat /\ r.f.b \in Nat /\ r.f.o \in Nat
        /\ Live(e, p.b) /\ Fits(e.doc, p) /\ p.b < e.fresh /\ r.a.o \in Nat /\ p.b = r.a.b
        /\ (Fits(e.doc, e.sel.a) /\ Fits(e.doc, e.sel.f) => p.o = r.a.o) /\ p.o \in {0, r.a.o}
        /\ p.o # 0 => Fits(e.doc, r.a)
    <3>1. r \in Sel /\ r.a \in {e.sel.a, e.sel.f} /\ Live(e, r.a.b)
      BY <2>1 DEF InOrder, Known
    <3>2. r.a \in Pt /\ r.f \in Pt /\ r.a.b \in Nat /\ r.a.o \in Nat /\ r.f.b \in Nat /\ r.f.o \in Nat
      BY <3>1, PointsAre
    <3>3. p.b = r.a.b /\ p.o = (IF Fits(e.doc, r.a) THEN r.a.o ELSE 0)
      BY DEF Caret
    <3>4. p \in Pt
      BY <3>2, PointsAre
    <3> HIDE DEF p
    <3>5. Live(e, p.b) /\ p.b < e.fresh
      BY <3>1, <3>3, LiveIs
    <3>6. TextLen(e.doc, p.b) \in Nat
      BY <1>2, TextLenIs
    <3>7. Fits(e.doc, p)
      BY <3>2, <3>3, <3>6 DEF Fits
    <3>8. Fits(e.doc, e.sel.a) /\ Fits(e.doc, e.sel.f) => p.o = r.a.o
      BY <3>1, <3>3
    <3> QED BY <3>1, <3>2, <3>3, <3>4, <3>5, <3>7, <3>8
  <2> HIDE DEF p
  <2>3. p.o <= TextLen(e.doc, p.b) /\ TextLen(e.doc, p.b) \in Nat
    BY <1>2, <2>2, TextLenIs DEF Fits, Live
  <2>4. Run(e.doc, At(e.doc, p.b), At(e.doc, r.f.b), ids)
    <3>1. Run(e.doc, At(e.doc, r.a.b), At(e.doc, r.f.b), ids)
      BY <2>1, SpannedIs
    <3> QED BY <2>2, <3>1
  <2>5. e \in X
    BY <1>2, <2>2 DEF Onward
  <2>6. ASSUME NEW n \in Int PROVE TextDelete(e, p.b, r.a.o, n) \in X
    <3> DEFINE x == TextDelete(e, p.b, r.a.o, n)
    <3>1. r.a.o \in Int /\ 0 \in Nat /\ 0 <= r.a.o
      BY <2>2
    <3>2. Steps(e, x, 0, c, p.b) /\ (r.a.o <= TextLen(e.doc, p.b) => TextLen(x.doc, p.b) >= r.a.o)
      BY <3>1, TextDeleteIs
    <3> HIDE DEF x
    <3>3. Good(x, c) /\ x.fresh = e.fresh + 0
      BY <3>2, StepsGood
    <3>4. TextLen(x.doc, p.b) \in Nat /\ x \in Editors
      BY <3>3, TextLenIs, GoodIs
    <3>5. p.o <= TextLen(x.doc, p.b)
      <4>1. p.o # 0 => p.o = r.a.o /\ r.a.o <= TextLen(e.doc, p.b)
        BY <2>2 DEF Fits, Live
      <4> QED BY <2>2, <3>2, <3>4, <4>1
    <3>6. Fits(x.doc, p)
      BY <3>5 DEF Fits
    <3> QED BY <1>2, <3>3, <3>4, <3>6 DEF Onward, x
  <2>7. base \in X
    <3>1. base = IF TextLen(e.doc, p.b) > r.a.o THEN TextDelete(e, p.b, r.a.o, TextLen(e.doc, p.b)) ELSE e
      BY <2>2
    <3>2. TextLen(e.doc, p.b) \in Int
      BY <2>3
    <3> QED BY <2>5, <2>6, <3>1, <3>2
  <2>8. cut \in X
    <3>1. CASE Len(ids) = 1
      <4>1. r.f.o - r.a.o \in Int
        BY <2>2
      <4>2. cut = IF r.f.o > r.a.o THEN TextDelete(e, p.b, r.a.o, r.f.o - r.a.o) ELSE e
        BY <2>2, <3>1
      <4> QED BY <4>1, <4>2, <2>5, <2>6, Zenon
    <3>2. CASE Len(ids) # 1
      <4> DEFINE tl == Tail(ids)
      <4>1. /\ S = 1..(Len(ids) - 1) /\ Len(ids) - 1 \in Nat
            /\ \A k \in S : tl[k] # p.b
        <5> DEFINE i == At(e.doc, p.b)
                   j == At(e.doc, r.f.b)
        <5>1. i \in DOMAIN e.doc /\ e.doc[i].id = p.b
          BY <2>2, LiveIs, HasIs DEF Live
        <5> HIDE DEF i, j, ids, p
        <5>2. ids \in Seq(Nat) /\ Len(ids) = j - i + 1 /\ DOMAIN ids = 1..(j - i + 1) /\ i \in Nat /\ j \in Nat /\ i <= j
              /\ \A k \in DOMAIN ids : i + k - 1 \in DOMAIN e.doc /\ ids[k] = e.doc[i + k - 1].id
          BY <2>4, Zenon DEF Run, i, j, p
        <5>3. Len(ids) \in Nat /\ Len(ids) > 1 /\ ids # <<>>
          BY <3>2, <5>2
        <5>4. tl \in Seq(Nat) /\ Len(tl) = Len(ids) - 1 /\ \A k \in 1..(Len(ids) - 1) : tl[k] = ids[k + 1]
          BY <5>2, <5>3
        <5>5. S = 1..(Len(ids) - 1)
          BY <5>4, SeqIs
        <5>6. ASSUME NEW k \in S PROVE tl[k] # p.b
          <6>1. k \in Nat /\ k >= 1 /\ k + 1 \in DOMAIN ids /\ k \in 1..(Len(ids) - 1)
            BY <5>2, <5>3, <5>5
          <6>2. i + (k + 1) - 1 \in DOMAIN e.doc /\ tl[k] = e.doc[i + (k + 1) - 1].id
            BY <5>2, <5>4, <6>1
          <6>3. i + (k + 1) - 1 # i
            BY <5>2, <6>1
          <6>4. Apart(e.doc[i + (k + 1) - 1], e.doc[i])
            BY <1>2, <5>1, <6>2, <6>3 DEF Tree, AllApart
          <6> QED BY <5>1, <6>2, <6>4 DEF Apart
        <5> QED BY <5>3, <5>5, <5>6
      <4> HIDE DEF tl
      <4>2. ASSUME NEW k \in S, NEW x \in X PROVE swallow(x, tl[k]) \in X
        <5> DEFINE id == tl[k]
        <5>1. id # p.b
          BY <4>1
        <5>2. gone(id) \in Int
          BY <1>2, <2>2, TextLenIs
        <5> DEFINE g == gone(id)
        <5> HIDE DEF id, gone, g
        <5>3. g \in Int
          BY <5>2 DEF g
        <5>4. LET y == IF g = 0 THEN x ELSE Do(x, Live(x, id), TextDelete(x, id, 0, g).doc, TRUE)
              IN  Merge(y, p.b, id) \in X /\ Delete(x, id) \in X
          BY <1>2, <2>2, <5>1, <5>3, SwallowIs
        <5>5. p.b = r.a.b
          BY <2>2
        <5> HIDE DEF X
        <5> QED BY <5>4, <5>5 DEF id, g
      <4> DEFINE ch == [T \in SUBSET S |-> Max(T)]
                 op(k, x) == swallow(x, tl[k])
                 F == [y \in S \X X |-> op(y[1], y[2])]
      <4>3. Picks(S, ch) /\ IsFiniteSet(S)
        BY <4>1, MaxPicks
      <4>4. \A k \in S, x \in X : op(k, x) \in X
        BY <4>2
      <4>5. \A g : Step(g) = [T \in SUBSET S |-> IF T = {} THEN base ELSE op(Max(T), g[T \ {Max(T)}])]
        BY DEF tl
      <4> HIDE DEF X, S, op, base, swallow
      <4>6. \A k \in S, x \in X : F[<<k, x>>] = op(k, x)
        OBVIOUS
      <4>7. Closed(S, X, F)
        BY <4>4, <4>6 DEF Closed
      <4> HIDE DEF F
      <4>8. PICK h : Folds(S, X, ch, base, F, h)
        <5> HIDE DEF ch
        <5> QED BY <2>7, <4>3, <4>7, FoldExists
      <4>9. h = Step(h)
        <5>1. ASSUME NEW T \in SUBSET S PROVE h[T] = IF T = {} THEN base ELSE op(Max(T), h[T \ {Max(T)}])
          <6>1. CASE T = {}
            BY <4>8, <6>1 DEF Folds
          <6>2. CASE T # {}
            <7>1. ch[T] = Max(T)
              OBVIOUS
            <7>2. ch[T] \in S /\ h[T \ {ch[T]}] \in X
              BY <4>3, <4>8, <6>2 DEF Picks, Folds
            <7>3. h[T] = op(ch[T], h[T \ {ch[T]}])
              <8> HIDE DEF ch
              <8> QED BY <4>6, <4>8, <6>2, <7>2 DEF Folds
            <7> QED BY <6>2, <7>1, <7>3
          <6> QED BY <6>1, <6>2
        <5>2. DOMAIN h = SUBSET S /\ h = [T \in SUBSET S |-> h[T]]
          BY <4>8 DEF Folds
        <5> HIDE DEF Step
        <5> QED BY <4>5, <5>1, <5>2
      <4>10. iter = Step(iter)
        <5> HIDE DEF Step
        <5> QED BY <4>9
      <4>11. iter = [T \in SUBSET S |-> IF T = {} THEN base ELSE op(Max(T), iter[T \ {Max(T)}])]
        <5> HIDE DEF Step, iter
        <5> QED BY <4>5, <4>10
      <4> HIDE DEF iter
      <4> DEFINE P == {T \in SUBSET S : iter[T] \in X}
      <4>12. {} \in P
        BY <2>7, <4>11
      <4>13. ASSUME NEW T \in SUBSET S, T # {}, T \ {ch[T]} \in P PROVE T \in P
        <5>1. ch[T] = Max(T) /\ ch[T] \in S
          BY <4>3, <4>13 DEF Picks
        <5>2. iter[T] = op(ch[T], iter[T \ {ch[T]}])
          BY <4>11, <4>13, <5>1
        <5> QED BY <4>4, <4>13, <5>1, <5>2
      <4>14. Builds(S, ch, P)
        BY <4>12, <4>13 DEF Builds
      <4> HIDE DEF P, ch
      <4>15. S \in P
        BY <4>3, <4>14, TakingAway
      <4> QED BY <3>2, <4>15 DEF P
    <3> QED BY <3>1, <3>2, Zenon
  <2> HIDE DEF cut
  <2>9. Good(put, c) /\ (s = <<>> => put \in X)
    <3>1. Good(cut, c)
      BY <2>8 DEF Onward
    <3>2. c \in Nat /\ c <= c /\ c <= cut.fresh
      BY <3>1, FreshIs
    <3>3. r.a.o \in Int /\ Insertable(cut.doc, s, c)
      BY <2>2, UnnamedIs
    <3>4. Good(TextInsert(cut, r.a.b, r.a.o, s), c)
      BY <3>1, <3>2, <3>3, TextInsertIs, StepsGood
    <3> QED BY <2>8, <3>1, <3>4
  <2> DEFINE q == Point(r.a.b, r.a.o + Len(s))
             y == Select(put, q)
  <2>10. Len(s) \in Nat /\ (s = <<>> => Len(s) = 0)
    BY UnnamedIs
  <2>11. q \in Sel /\ (s = <<>> => q.a.b = r.a.b /\ q.a.o = r.a.o)
    <3>1. r.a.o + Len(s) \in Nat /\ (s = <<>> => r.a.o + Len(s) = r.a.o)
      BY <2>2, <2>10
    <3> DEFINE o == r.a.o + Len(s)
    <3>2. o \in Nat /\ r.a.b \in Nat
      BY <2>2, <3>1
    <3>3. Point(r.a.b, o) \in Sel /\ Point(r.a.b, o).a = Caret(r.a.b, o)
      BY <3>2, PointsAre
    <3>4. Caret(r.a.b, o).b = r.a.b /\ Caret(r.a.b, o).o = o
      BY DEF Caret
    <3> QED BY <3>1, <3>3, <3>4
  <2> HIDE DEF put, q
  <2>12. Same(put, c, y) /\ y.threw = put.threw /\ y.sel = IF put.threw THEN put.sel ELSE q
    BY <2>9, <2>11, SelectIs
  <2>13. Replace(e, s) = y
    BY <1>1, <1>4 DEF q
  <2> HIDE DEF y
  <2>14. Fits(e.doc, e.sel.a) /\ Fits(e.doc, e.sel.f) /\ ~e.threw /\ s = <<>> /\ ~y.threw => Fits(y.doc, y.sel.a)
    <3>1. s = <<>> => Fits(put.doc, p)
      BY <2>9 DEF Onward
    <3>2. s = <<>> /\ ~y.threw => y.doc = put.doc /\ y.sel = q
      BY <2>12 DEF Same
    <3> QED BY <2>2, <2>11, <3>1, <3>2 DEF Fits
  <2> QED BY <2>12, <2>13, <2>14 DEF Same
<1> QED BY <1>3, <1>4

\* Pasting over what is selected.
LEMMA PasteOverIs ==
  ASSUME NEW e, NEW c, Good(e, c), ~e.threw => Fits(e.doc, e.sel.a), NEW f, Fragments(f), f # <<>>
  PROVE  Good(PasteOver(e, f), c)
<1>1. e.sel.a \in Pt
  BY GoodIs, PointsAre
<1>2. Good([e EXCEPT !.threw = TRUE], c)
  BY ThrewIs DEF Same
<1>3. ~e.threw => Good(PasteAt(e, e.sel.a.b, e.sel.a.o, f), c)
  BY <1>1, PasteAtIs
<1> QED BY <1>2, <1>3 DEF PasteOver

\* Editor.paste.
LEMMA PasteIs ==
  ASSUME NEW e, NEW c, Good(e, c), ~e.threw, Fits(e.doc, e.sel.a), Fits(e.doc, e.sel.f),
         NEW f, Fragments(f), f # <<>>
  PROVE  Good(Paste(e, f), c) /\ Good(Replace(e, <<>>), c)
<1> DEFINE x == Open(e)
           y == IF Collapsed(x.sel) THEN x ELSE Replace(x, <<>>)
           z == PasteOver(y, f)
<1>0. Unnamed(<<>>)
  BY EmptyText DEF Unnamed
<1>1. Same(e, c, x) /\ x.sel = e.sel /\ x.threw = e.threw
  BY GroupIs DEF Open
<1> HIDE DEF x
<1>2. Good(x, c) /\ ~x.threw /\ Fits(x.doc, x.sel.a) /\ Fits(x.doc, x.sel.f)
  BY <1>1 DEF Same
<1>3. Good(Replace(x, <<>>), c) /\ (~Replace(x, <<>>).threw => Fits(Replace(x, <<>>).doc, Replace(x, <<>>).sel.a))
  BY <1>0, <1>2, ReplaceIs
<1>4. Good(y, c) /\ (~y.threw => Fits(y.doc, y.sel.a))
  BY <1>2, <1>3
<1>5. Paste(e, f) = Close(z)
  BY DEF Paste, PasteBlocks, x
<1> HIDE DEF y
<1>6. Good(z, c)
  BY <1>4, PasteOverIs
<1> HIDE DEF z
<1>7. Same(z, c, Close(z))
  BY <1>6, GroupIs DEF Close
<1>8. Good(Replace(e, <<>>), c)
  BY <1>0, ReplaceIs
<1> QED BY <1>5, <1>7, <1>8 DEF Same

\* Lines of copied text.
Lines(l) == l \in Seq(Text) /\ \A k \in DOMAIN l : Unnamed(l[k])

\* One more pasted line: a split and its text.
LEMMA LineIs ==
  ASSUME NEW x, NEW c, Good(x, c), NEW s, Unnamed(s)
  PROVE  LET cur == Split(x, x.sel.a.b, x.sel.a.o)
         IN  Good(Select(IF s = <<>> THEN cur ELSE TextInsert(cur, x.fresh, 0, s), Point(x.fresh, Len(s))), c)
<1> DEFINE cur == Split(x, x.sel.a.b, x.sel.a.o)
           y == IF s = <<>> THEN cur ELSE TextInsert(cur, x.fresh, 0, s)
<1>1. x.sel.a.o \in Int /\ x.fresh \in Nat /\ c \in Nat /\ 0 \in Int
  <2> HIDE DEF cur, y
  <2>1. x.sel \in Sel /\ x.fresh \in Nat /\ c \in Nat
    BY GoodIs
  <2>2. x.sel.a \in Pt
    BY <2>1, PointsAre
  <2>3. x.sel.a.o \in Nat
    BY <2>2, PointsAre
  <2> QED BY <2>1, <2>3
<1>2. Good(cur, c)
  BY <1>1, SplitIs, StepsGood
<1> HIDE DEF cur
<1>3. Insertable(cur.doc, s, c) /\ Len(s) \in Nat /\ c <= c /\ c <= cur.fresh
  BY <1>2, UnnamedIs, FreshIs
<1>4. Good(TextInsert(cur, x.fresh, 0, s), c)
  BY <1>1, <1>2, <1>3, TextInsertIs, StepsGood
<1>5. Good(y, c)
  BY <1>2, <1>4
<1> HIDE DEF y
<1>6. Point(x.fresh, Len(s)) \in Sel
  BY <1>1, <1>3, PointsAre
<1>7. Good(Select(y, Point(x.fresh, Len(s))), c)
  BY <1>5, <1>6, SelectIs DEF Same
<1> QED BY <1>7 DEF y, cur

\* Lines pasted one by one.
LEMMA PasteLinesIs ==
  ASSUME NEW e, NEW c, Good(e, c), NEW l, Lines(l)
  PROVE  Good(PasteLines(e, l), c)
<1> DEFINE line(x, s) ==
             LET cur == Split(x, x.sel.a.b, x.sel.a.o)
             IN  Select(IF s = <<>> THEN cur ELSE TextInsert(cur, x.fresh, 0, s), Point(x.fresh, Len(s)))
           base == Replace(e, l[1])
           tl == Tail(l)
           S == DOMAIN tl
           X == {x \in Editors : Good(x, c)}
           Step(g) == [T \in SUBSET S |-> IF T = {} THEN base ELSE line(g[T \ {Max(T)}], tl[Max(T)])]
           iter == CHOOSE g : g = Step(g)
           ch == [T \in SUBSET S |-> Max(T)]
           op(k, x) == line(x, tl[k])
           F == [y \in S \X X |-> op(y[1], y[2])]
           P == {T \in SUBSET S : iter[T] \in X}
<1>1. PasteLines(e, l) = IF l = <<>> \/ l = << <<>> >> \/ ~Known(e, e.sel) THEN e ELSE iter[S]
  BY DEF PasteLines, FoldLeft, MapThenFoldSet
<1>2. SUFFICES ASSUME l # <<>> PROVE iter[S] \in X
  BY <1>1
<1>3. l \in Seq(Text) /\ Len(l) \in Nat /\ Len(l) > 0 /\ DOMAIN l = 1..Len(l)
  BY <1>2, SeqIs DEF Lines
<1>4. tl \in Seq(Text) /\ Len(tl) = Len(l) - 1 /\ \A k \in 1..(Len(l) - 1) : tl[k] = l[k + 1]
  BY <1>2, <1>3
<1>5. S = 1..(Len(l) - 1) /\ Len(l) - 1 \in Nat
  <2> HIDE DEF tl
  <2>1. DOMAIN tl = 1..Len(tl)
    BY <1>4, SeqIs
  <2> QED BY <1>3, <1>4, <2>1
<1>6. base \in X
  <2>1. Unnamed(l[1])
    BY <1>3 DEF Lines
  <2> QED BY <2>1, ReplaceIs, GoodIs
<1>7. ASSUME NEW k \in S, NEW x \in X PROVE op(k, x) \in X
  <2>1. k + 1 \in DOMAIN l /\ tl[k] = l[k + 1]
    BY <1>3, <1>4, <1>5
  <2>2. Unnamed(tl[k])
    BY <2>1 DEF Lines
  <2> HIDE DEF tl, S
  <2>3. Good(op(k, x), c)
    BY <2>2, LineIs
  <2> HIDE DEF op
  <2> QED BY <2>3, GoodIs
<1>8. Picks(S, ch) /\ IsFiniteSet(S)
  BY <1>5, MaxPicks
<1>9. \A g : Step(g) = [T \in SUBSET S |-> IF T = {} THEN base ELSE op(Max(T), g[T \ {Max(T)}])]
  OBVIOUS
<1> HIDE DEF X, S, op, base, tl
<1>10. \A k \in S, x \in X : F[<<k, x>>] = op(k, x)
  OBVIOUS
<1>11. Closed(S, X, F)
  BY <1>7, <1>10 DEF Closed
<1> HIDE DEF F
<1>12. PICK h : Folds(S, X, ch, base, F, h)
  <2> HIDE DEF ch
  <2> QED BY <1>6, <1>8, <1>11, FoldExists
<1>13. h = Step(h)
  <2>1. ASSUME NEW T \in SUBSET S PROVE h[T] = IF T = {} THEN base ELSE op(Max(T), h[T \ {Max(T)}])
    <3>1. CASE T = {}
      BY <1>12, <3>1 DEF Folds
    <3>2. CASE T # {}
      <4>1. ch[T] = Max(T)
        OBVIOUS
      <4>2. ch[T] \in S /\ h[T \ {ch[T]}] \in X
        BY <1>8, <1>12, <3>2 DEF Picks, Folds
      <4>3. h[T] = op(ch[T], h[T \ {ch[T]}])
        <5> HIDE DEF ch
        <5> QED BY <1>10, <1>12, <3>2, <4>2 DEF Folds
      <4> QED BY <3>2, <4>1, <4>3
    <3> QED BY <3>1, <3>2
  <2>2. DOMAIN h = SUBSET S /\ h = [T \in SUBSET S |-> h[T]]
    BY <1>12 DEF Folds
  <2> HIDE DEF Step
  <2> QED BY <1>9, <2>1, <2>2
<1>14. iter = Step(iter)
  <2> HIDE DEF Step
  <2> QED BY <1>13
<1>15. iter = [T \in SUBSET S |-> IF T = {} THEN base ELSE op(Max(T), iter[T \ {Max(T)}])]
  <2> HIDE DEF Step, iter
  <2> QED BY <1>9, <1>14
<1> HIDE DEF iter
<1>16. {} \in P
  BY <1>6, <1>15
<1>17. ASSUME NEW T \in SUBSET S, T # {}, T \ {ch[T]} \in P PROVE T \in P
  <2>1. ch[T] = Max(T) /\ ch[T] \in S
    BY <1>8, <1>17 DEF Picks
  <2>2. iter[T] = op(ch[T], iter[T \ {ch[T]}])
    BY <1>15, <1>17, <2>1
  <2> QED BY <1>7, <1>17, <2>1, <2>2
<1>18. Builds(S, ch, P)
  BY <1>16, <1>17 DEF Builds
<1> HIDE DEF P, ch
<1>19. S \in P
  BY <1>8, <1>18, TakingAway
<1> QED BY <1>19 DEF P

\* Pasting plain text.
LEMMA PasteTextIs ==
  ASSUME NEW e, NEW c, Good(e, c), NEW l, Lines(l)
  PROVE  Good(PasteText(e, l), c)
<1> DEFINE x == Open(e)
           z == PasteLines(x, l)
<1>1. Same(e, c, x) /\ x.sel = e.sel /\ x.threw = e.threw
  BY GroupIs DEF Open
<1> HIDE DEF x
<1>2. Good(x, c)
  BY <1>1 DEF Same
<1>3. Good(z, c)
  BY <1>2, PasteLinesIs
<1>4. PasteText(e, l) = Close(z)
  BY DEF PasteText, x
<1> HIDE DEF z
<1>5. Same(z, c, Close(z))
  BY <1>3, GroupIs DEF Close
<1> QED BY <1>4, <1>5 DEF Same

(***************************************************************************)
(* Copying.                                                                *)
(***************************************************************************)

\* The selected part of one block.
LEMMA CoveredIs ==
  ASSUME NEW e, NEW c, Good(e, c), NEW s \in Sel, Fits(e.doc, s.a), Fits(e.doc, s.f), NEW id, Live(e, id)
  PROVE  Covered(e, s, id) \in Text
<1> DEFINE t == BlockOf(e.doc, id).text
           from == IF id = s.a.b THEN s.a.o ELSE 0
           to == IF id = s.f.b THEN s.f.o ELSE TextLen(e.doc, id)
<1>1. t \in Text /\ TextLen(e.doc, id) = Len(t) /\ TextLen(e.doc, id) \in Nat
  BY LiveIs
<1>2. s.a.o \in Nat /\ s.f.o \in Nat
  BY PointsAre
<1>3. from \in Nat /\ to \in Nat
  BY <1>1, <1>2
<1>4. to <= Len(t)
  BY <1>1 DEF Fits, Live
<1>5. Covered(e, s, id) = Slice(t, from, to)
  BY DEF Covered, Slice
<1> HIDE DEF t, from, to
<1> QED BY <1>1, <1>3, <1>4, <1>5, SliceIs DEF Sliced

LEMMA SelectedIs ==
  ASSUME NEW e, NEW c, Good(e, c), Fits(e.doc, e.sel.a), Fits(e.doc, e.sel.f), Known(e, e.sel)
  PROVE  /\ InOrder(e, e.sel, Ordered(e, e.sel))
         /\ Run(e.doc, At(e.doc, Ordered(e, e.sel).a.b), At(e.doc, Ordered(e, e.sel).f.b), Spanned(e, Ordered(e, e.sel)))
         /\ \A id : Live(e, id) => Covered(e, Ordered(e, e.sel), id) \in Text
<1> DEFINE r == Ordered(e, e.sel)
<1>1. e.sel \in Sel
  BY GoodIs
<1>2. InOrder(e, e.sel, r)
  BY <1>1, OrderedIs
<1> HIDE DEF r
<1>3. r \in Sel /\ Fits(e.doc, r.a) /\ Fits(e.doc, r.f)
  BY <1>2 DEF InOrder
<1>4. \A id : Live(e, id) => Covered(e, r, id) \in Text
  BY <1>3, CoveredIs
<1>5. Run(e.doc, At(e.doc, r.a.b), At(e.doc, r.f.b), Spanned(e, r))
  BY <1>2, SpannedIs
<1> QED BY <1>2, <1>4, <1>5 DEF r

\* The text of the selection, line by line.
LEMMA TextContentIs ==
  ASSUME NEW e, NEW c, Good(e, c), Fits(e.doc, e.sel.a), Fits(e.doc, e.sel.f)
  PROVE  TextContent(e) \in Seq(Text)
<1> DEFINE r == Ordered(e, e.sel)
           ids == Spanned(e, r)
           u == [k \in DOMAIN ids |-> Covered(e, r, ids[k])]
<1>1. CASE ~Known(e, e.sel)
  BY <1>1 DEF TextContent
<1>2. CASE Known(e, e.sel)
  <2>1. /\ Run(e.doc, At(e.doc, r.a.b), At(e.doc, r.f.b), ids)
        /\ \A id : Live(e, id) => Covered(e, r, id) \in Text
    BY <1>2, SelectedIs
  <2>2. TextContent(e) = u
    BY <1>2 DEF TextContent
  <2> DEFINE n == Len(ids)
  <2> HIDE DEF r, ids
  <2>3. DOMAIN ids = 1..n /\ n \in Nat
    BY <2>1 DEF Run
  <2>4. ASSUME NEW k \in 1..n PROVE Covered(e, r, ids[k]) \in Text
    <3>1. Live(e, ids[k])
      BY <2>1, <2>3 DEF Run, Live, Has
    <3> QED BY <2>1, <3>1
  <2> HIDE DEF n
  <2>5. u \in [1..n -> Text]
    BY <2>3, <2>4
  <2> HIDE DEF u
  <2> QED BY <2>2, <2>3, <2>5, FcnIsSeq
<1> QED BY <1>1, <1>2

\* The selected blocks above position i that it hangs below.
Hanging(d, first, i) == {p \in first..(i - 1) : SelfOrDescendant(d, p, i)}
\* From one block to the next at most one more selected block lies above.
LEMMA OverCounts ==
  ASSUME NEW d, NEW first \in Nat, NEW i \in Nat, first <= i
  PROVE  /\ Cardinality(Hanging(d, first, i)) \in Nat /\ (i = first => Cardinality(Hanging(d, first, i)) = 0)
         /\ Cardinality(Hanging(d, first, i + 1)) <= Cardinality(Hanging(d, first, i)) + 1
<1> DEFINE A == Hanging(d, first, i)
           B == Hanging(d, first, i + 1)
<1>1. A \subseteq first..(i - 1) /\ B \subseteq first..i
  BY DEF Hanging
<1>2. IsFiniteSet(first..(i - 1)) /\ IsFiniteSet(first..i)
  BY FS_Interval
<1>3. IsFiniteSet(A) /\ IsFiniteSet(B)
  BY <1>1, <1>2, FS_Subset
<1>4. Cardinality(A) \in Nat /\ Cardinality(B) \in Nat
  BY <1>3, FS_CardinalityType
<1>5. B \subseteq A \cup {i}
  <2>1. ASSUME NEW p \in B, p # i PROVE p \in A
    <3>1. p \in first..(i - 1)
      BY <1>1, <2>1
    <3>2. SelfOrDescendant(d, p, i + 1)
      BY DEF Hanging
    <3>3. p <= i /\ \A k \in (p + 1)..i : k \in (p + 1)..(i + 1)
      BY <3>1
    <3>4. SelfOrDescendant(d, p, i)
      BY <3>2, <3>3 DEF SelfOrDescendant
    <3> QED BY <3>1, <3>4 DEF Hanging
  <2> QED BY <2>1
<1>6. i = first => A = {}
  <2>1. i = first => first..(i - 1) = {}
    OBVIOUS
  <2> QED BY <1>1, <2>1
<1> HIDE DEF A, B
<1>7. IsFiniteSet(A \cup {i}) /\ Cardinality(A \cup {i}) \in {Cardinality(A), Cardinality(A) + 1}
  BY <1>3, FS_AddElement
<1>8. Cardinality(B) <= Cardinality(A \cup {i})
  BY <1>5, <1>7, FS_Subset
<1>9. i = first => Cardinality(A) = 0
  BY <1>6, FS_EmptySet
<1> QED BY <1>4, <1>7, <1>8, <1>9 DEF A, B

\* Copying makes an outline of the selection: its depths are counted from the
\* selected blocks, so they go in one step at a time.
LEMMA CopyIs ==
  ASSUME NEW e, NEW c, Good(e, c), Fits(e.doc, e.sel.a), Fits(e.doc, e.sel.f)
  PROVE  Fragments(Copy(e))
<1> DEFINE s == Ordered(e, e.sel)
           d == e.doc
           first == At(e.doc, s.a.b)
           ids == Spanned(e, s)
           frag(k) ==
             LET i == first + k - 1
                 b == e.doc[i]
             IN  [kind |-> b.kind, attr |-> b.attr,
                  depth |-> Cardinality({p \in first..(i - 1) : SelfOrDescendant(e.doc, p, i)}),
                  text |-> IF HasInline(b.kind) THEN Covered(e, s, b.id) ELSE <<>>]
           f == [k \in DOMAIN ids |-> frag(k)]
<1>1. CASE ~Known(e, e.sel) \/ Collapsed(e.sel)
  <2>1. Copy(e) = <<>>
    BY <1>1 DEF Copy
  <2>2. <<>> \in Seq(Fragment) /\ Len(<<>>) = 0 /\ DOMAIN <<>> = {}
    OBVIOUS
  <2> DEFINE g == <<>>
  <2>3. g \in Seq(Fragment) /\ Len(g) = 0 /\ DOMAIN g = {} /\ g = <<>>
    BY <2>2
  <2> HIDE DEF g
  <2>4. Rooted(g) /\ Nested(g) /\ \A k \in DOMAIN g : g[k].text # <<>> => HasInline(g[k].kind)
    BY <2>3 DEF Rooted, Nested
  <2>5. Fragments(g)
    BY <2>3, <2>4 DEF Fragments
  <2> QED BY <2>1, <2>5 DEF g
<1>2. CASE Known(e, e.sel) /\ ~Collapsed(e.sel)
  <2>1. /\ Run(d, first, At(d, s.f.b), ids)
        /\ \A id : Live(e, id) => Covered(e, s, id) \in Text
    BY <1>2, SelectedIs
  <2>2. Copy(e) = f
    BY <1>2 DEF Copy
  <2>3. Tree(d, e.fresh, c) /\ e.fresh \in Nat /\ c \in Nat
    BY GoodIs
  <2> DEFINE n == Len(ids)
  <2> HIDE DEF s, first, ids, d
  <2> DEFINE j == At(d, s.f.b)
  <2>4. DOMAIN ids = 1..n /\ n \in Nat /\ first \in Nat /\ \A k \in 1..n : first + k - 1 \in DOMAIN d
    <3> HIDE DEF j
    <3>1. /\ n = j - first + 1 /\ DOMAIN ids = 1..(j - first + 1) /\ first \in Nat /\ j \in Nat /\ first <= j
          /\ \A k \in DOMAIN ids : first + k - 1 \in DOMAIN d
      BY <2>1 DEF Run, j
    <3> HIDE DEF n
    <3>2. n \in Nat
      BY <3>1
    <3>3. DOMAIN ids = 1..n
      BY <3>1
    <3> QED BY <3>1, <3>2, <3>3
  <2> HIDE DEF n
  <2>5. \A k : frag(k) = [kind |-> d[first + k - 1].kind, attr |-> d[first + k - 1].attr,
                          depth |-> Cardinality(Hanging(d, first, first + k - 1)),
                          text |-> IF HasInline(d[first + k - 1].kind) THEN Covered(e, s, d[first + k - 1].id) ELSE <<>>]
    BY DEF Hanging, d
  <2> HIDE DEF frag
  <2>6. ASSUME NEW k \in 1..n
        PROVE  /\ frag(k) \in Fragment /\ (frag(k).text # <<>> => HasInline(frag(k).kind))
               /\ frag(k).depth = Cardinality(Hanging(d, first, first + k - 1))
    <3> DEFINE i == first + k - 1
               t == IF HasInline(d[i].kind) THEN Covered(e, s, d[i].id) ELSE <<>>
               h == Cardinality(Hanging(d, first, i))
    <3>1. i \in DOMAIN d /\ i \in Nat /\ first <= i
      <4> HIDE DEF h, t
      <4>1. i \in DOMAIN d
        BY <2>4, Zenon
      <4>2. k \in Nat /\ k >= 1 /\ i = first + k - 1
        BY <2>4
      <4> HIDE DEF i
      <4> QED BY <2>4, <4>1, <4>2
    <3>2. frag(k) = [kind |-> d[i].kind, attr |-> d[i].attr, depth |-> h, text |-> t]
      BY <2>5
    <3> HIDE DEF i
    <3>3. d[i].kind \in Kinds /\ d[i].attr \in Word
      BY <2>3, <3>1, SoundIs DEF Tree
    <3>4. Live(e, d[i].id)
      BY <3>1 DEF Live, Has, d
    <3>5. t \in Text
      BY <2>1, <3>4, EmptyText
    <3>6. h \in Nat
      BY <2>4, <3>1, OverCounts
    <3>7. t # <<>> => HasInline(d[i].kind)
      OBVIOUS
    <3> HIDE DEF t, h
    <3>8. frag(k) \in Fragment /\ (frag(k).text # <<>> => HasInline(frag(k).kind)) /\ frag(k).depth = h
      BY <3>2, <3>3, <3>5, <3>6, <3>7 DEF Fragment
    <3> QED BY <3>8 DEF h, i
  <2>7. f \in [1..n -> Fragment] /\ \A k \in 1..n : f[k] = frag(k)
    BY <2>4, <2>6
  <2> HIDE DEF f
  <2>8. f \in Seq(Fragment) /\ Len(f) = n /\ DOMAIN f = 1..n
    BY <2>4, <2>7, FcnIsSeq
  <2>9. Rooted(f)
    <3>1. SUFFICES ASSUME f # <<>> PROVE f[1].depth = 0
      BY DEF Rooted
    <3>2. 1 \in 1..n /\ first + 1 - 1 = first /\ first <= first
      BY <2>4, <2>8, <3>1, SeqIs
    <3>3. f[1].depth = Cardinality(Hanging(d, first, first + 1 - 1))
      BY <2>6, <2>7, <3>2
    <3> QED BY <2>4, <3>2, <3>3, OverCounts
  <2>10. Nested(f)
    <3>1. SUFFICES ASSUME NEW k \in 1..(Len(f) - 1) PROVE f[k + 1].depth <= f[k].depth + 1
      BY DEF Nested
    <3> DEFINE i == first + k - 1
    <3>2. k \in 1..n /\ k + 1 \in 1..n /\ first + (k + 1) - 1 = i + 1 /\ i \in Nat /\ first <= i
      BY <2>4, <2>8, <3>1
    <3>3. f[k].depth = Cardinality(Hanging(d, first, i)) /\ f[k + 1].depth = Cardinality(Hanging(d, first, first + (k + 1) - 1))
      BY <2>6, <2>7, <3>2
    <3>4. f[k + 1].depth = Cardinality(Hanging(d, first, i + 1))
      BY <3>2, <3>3
    <3> HIDE DEF i
    <3> QED BY <2>4, <3>2, <3>3, <3>4, OverCounts
  <2>11. \A k \in DOMAIN f : f[k].text # <<>> => HasInline(f[k].kind)
    BY <2>6, <2>7, <2>8
  <2> QED BY <2>2, <2>8, <2>9, <2>10, <2>11 DEF Fragments
<1> QED BY <1>1, <1>2

(***************************************************************************)
(* The keymap: shortcuts.                                                  *)
(***************************************************************************)

\* A handler's result: an editor and a caret.
Handled(r, c) == Good(r.e, c) /\ r.at \in Pt

LEMMA ResultIs ==
  ASSUME NEW x, NEW c, Good(x, c), NEW p \in Pt
  PROVE  Handled(Result(x, p), c)
BY DEF Handled, Result

\* Neighbours, and where the document begins.
LEMMA PlacesAre ==
  ASSUME NEW e, NEW c, Good(e, c)
  PROVE  /\ \A id, by : by \in Int => Neighbour(e, id, by) \in Nat
         /\ First(e) \in Pt
         /\ \A id : TextLen(e.doc, id) \in Nat
<1>1. /\ e.fresh \in Nat /\ c \in Nat /\ Tree(e.doc, e.fresh, c)
      /\ \A i \in DOMAIN e.doc : e.doc[i].id \in Nat
      /\ e.doc # <<>> => 1 \in DOMAIN e.doc
  BY GoodIs, BlocksAre
<1>2. \A id : TextLen(e.doc, id) \in Nat
  BY <1>1, TextLenIs
<1>3. First(e) \in Pt
  <2>1. CASE e.doc = <<>>
    BY <2>1, PointsAre DEF First
  <2>2. CASE e.doc # <<>>
    <3>1. e.doc[1].id \in Nat
      BY <1>1, <2>2
    <3> QED BY <2>2, <3>1, PointsAre DEF First
  <2> QED BY <2>1, <2>2
<1>4. \A id, by : by \in Int => Neighbour(e, id, by) \in Nat
  BY <1>1 DEF Neighbour, Root
<1> QED BY <1>2, <1>3, <1>4

\* A paragraph added behind a block.
LEMMA ParagraphIs ==
  ASSUME NEW e, NEW c, Good(e, c), NEW id
  PROVE  Good(ParagraphAfter(e, id), c) /\ ParagraphAfter(e, id).fresh = e.fresh + 1
<1>1. "paragraph" \in Kinds /\ "none" \in Word
  BY WordsAre DEF Kinds, InlineKinds
<1> DEFINE parent == Parent(e, id)
           n == IndexOf(e.doc, At(e.doc, id)) + 1
<1>2. Steps(e, BlockInsert(e, parent, n, "paragraph", "none"), 1, c, 0)
  BY <1>1, BlockInsertIs
<1> QED BY <1>2, StepsGood DEF ParagraphAfter

\* What a line may begin with to become another kind of block.
LEMMA StarterIs ==
  ASSUME NEW g \in DOMAIN Starter
  PROVE  Starter[g] \in Kinds /\ (Starter[g] \in {"heading", "to-do"} => DefaultAttr(Starter[g]) \in Word)
<1>1. g \in {"#", ">", "-", "[]", "fence", "---"}
  BY DEF Starter
<1>2. Starter[g] \in {"heading", "quote", "bullet", "to-do", "code", "divider"}
  BY <1>1 DEF Starter
<1>3. DefaultAttr("heading") = "level1" /\ DefaultAttr("to-do") = "unchecked"
  BY DEF DefaultAttr
<1> QED BY <1>2, <1>3, WordsAre DEF Kinds, InlineKinds

\* text.delete leaves a block of the kind it was.
LEMMA KeepsKind ==
  ASSUME NEW e, NEW c, Good(e, c), NEW id, Inline(e, id), NEW o, NEW n
  PROVE  Inline(TextDelete(e, id, o, n), id)
<1> DEFINE i == At(e.doc, id)
           t == BlockOf(e.doc, id).text
           from == Clamp(o, 0, Len(t))
           to == from + Clamp(n, 0, Len(t) - from)
           w == Slice(t, 0, from) \o Slice(t, to, Len(t))
           u == SetText(e.doc, id, w)
           x == TextDelete(e, id, o, n)
<1>1. /\ Has(e.doc, id) /\ i \in DOMAIN e.doc /\ BlockOf(e.doc, id) = e.doc[i] /\ e.doc[i].id = id
      /\ e.doc[i] \in Block /\ AllApart(e.doc) /\ HasInline(e.doc[i].kind)
  BY LiveIs DEF Tree, Sound, Inline, Live
<1> HIDE DEF w
<1>2. /\ DOMAIN u = DOMAIN e.doc /\ u[i].id = id /\ u[i].kind = e.doc[i].kind
      /\ \A k \in DOMAIN e.doc : k # i => u[k].id # id
  BY <1>1 DEF SetText, Block, AllApart, Apart
<1> HIDE DEF u
<1>3. Has(u, id) /\ At(u, id) = i
  BY <1>1, <1>2 DEF Has, At
<1>4. Has(u, id) /\ HasInline(BlockOf(u, id).kind)
  BY <1>1, <1>2, <1>3 DEF BlockOf
<1>5. e \in Editors /\ x = Do(e, TRUE, IF Rich(e, id) THEN u ELSE e.doc, TRUE)
  BY GoodIs DEF TextDelete, u, w
<1> HIDE DEF x
<1>6. x.doc = u \/ x.doc = e.doc
  BY <1>5 DEF Do, Commit, Editors
<1> QED BY <1>1, <1>4, <1>6 DEF Inline, Live, x

\* A shortcut that turns the paragraph into another block.
LEMMA BlockShortcutIs ==
  ASSUME NEW e, NEW c, Good(e, c), NEW p \in Pt, Live(e, p.b), BlockOf(e.doc, p.b).kind = "paragraph",
         TextOf(e, p.b)[1].g \in DOMAIN Starter
  PROVE  Handled(BlockShortcut(e, p), c)
<1> DEFINE kind == Starter[TextOf(e, p.b)[1].g]
           attr == IF kind \in {"heading", "to-do"} THEN DefaultAttr(kind) ELSE "none"
           cut == TextDelete(e, p.b, 0, 2)
           done == Transform(cut, p.b, kind, attr)
<1>1. kind \in Kinds /\ attr \in Word
  BY StarterIs, WordsAre
<1>2. p.b \in Nat /\ 0 \in Nat /\ 0 \in Int /\ 2 \in Int
  BY PointsAre
<1>3. BlockOf(e.doc, p.b).rich /\ p.b < e.fresh
  BY LiveIs DEF HasInline, InlineKinds
<1>4. Steps(e, cut, 0, c, p.b)
  BY <1>2, TextDeleteIs
<1> HIDE DEF cut, kind, attr
<1>5. Good(cut, c)
  BY <1>4, StepsGood
<1>6. Inline(cut, p.b)
  <2>1. Inline(e, p.b)
    BY DEF Inline, HasInline, InlineKinds
  <2> QED BY <2>1, KeepsKind DEF cut
<1>7. Good(done, c)
  <2>1. Steps(cut, done, 0, c, p.b)
    BY <1>1, <1>5, <1>6, TransformIs
  <2> HIDE DEF done
  <2> QED BY <2>1, StepsGood
<1> HIDE DEF done
<1>8. Good(ParagraphAfter(done, p.b), c) /\ done.fresh \in Nat
  BY <1>7, ParagraphIs, FreshIs
<1>9. Caret(done.fresh, 0) \in Pt /\ Caret(p.b, 0) \in Pt
  BY <1>2, <1>8, PointsAre
<1>10. BlockShortcut(e, p) = IF kind = "divider" THEN Result(ParagraphAfter(done, p.b), Caret(done.fresh, 0))
                             ELSE Result(done, Caret(p.b, 0))
  BY DEF BlockShortcut, done, kind, attr, cut
<1> QED BY <1>7, <1>8, <1>9, <1>10, ResultIs

\* A cut to the end of a text, and what stood further on, put back.
LEMMA InsideIs ==
  ASSUME NEW t \in Text, Distinct(t), NEW a \in Nat, NEW b \in Nat, 1 <= a, a + 1 < b, b + 1 = Len(t)
  PROVE  LET u == Append(SubSeq(t, a + 1, b - 1), Last(t))
         IN  /\ u \in Text /\ Distinct(u) /\ Names(u) \subseteq Names(t)
             /\ Names(u) \cap Names(Slice(t, 0, a - 1)) = {}
<1> DEFINE inner == SubSeq(t, a + 1, b - 1)
           n == (b - 1) - a
           u == Append(inner, Last(t))
           w == Slice(t, 0, a - 1)
           at == [k \in 1..(n + 1) |-> IF k <= n THEN a + k ELSE Len(t)]
<1>1. /\ Len(t) \in Nat /\ DOMAIN t = 1..Len(t) /\ t \in Seq(Char) /\ n \in Nat /\ n > 0 /\ t # <<>>
      /\ a + 1 \in Int /\ b - 1 \in Int /\ 1 <= a + 1 /\ b - 1 <= Len(t) /\ a + 1 <= b - 1
      /\ (b - 1) - (a + 1) + 1 = n
  BY TextIs DEF Text
<1>2. Portion(Char, t, a + 1, b - 1, inner)
  BY <1>1, PortionIs
<1>3. inner \in Seq(Char) /\ Len(inner) = n /\ \A k \in 1..n : inner[k] = t[a + k]
  <2>1. inner \in Seq(Char) /\ Len(inner) = n
    BY <1>1, <1>2 DEF Portion
  <2>2. ASSUME NEW k \in 1..n PROVE inner[k] = t[a + k]
    <3>1. inner[k] = t[(a + 1) + k - 1]
      BY <1>2, <2>1, <2>2 DEF Portion
    <3>2. (a + 1) + k - 1 = a + k
      BY <1>1
    <3> QED BY <3>1, <3>2
  <2> QED BY <2>1, <2>2
<1>4. Last(t) = t[Len(t)] /\ Last(t) \in Char
  BY <1>1 DEF Last
<1> HIDE DEF inner, n
<1>5. u \in Seq(Char) /\ Len(u) = n + 1 /\ DOMAIN u = 1..(n + 1)
  BY <1>1, <1>3, <1>4
<1>6. ASSUME NEW k \in 1..(n + 1) PROVE u[k] = t[at[k]] /\ at[k] \in DOMAIN t /\ at[k] > a
  <2>1. CASE k <= n
    <3>1. k \in 1..n /\ at[k] = a + k /\ k \in Nat /\ k >= 1
      BY <1>1, <2>1
    <3>2. u[k] = inner[k]
      BY <1>3, <3>1
    <3>3. a + k \in DOMAIN t /\ a + k > a
      BY <1>1, <3>1 DEF n
    <3> QED BY <1>3, <3>1, <3>2, <3>3
  <2>2. CASE ~(k <= n)
    <3>1. k = n + 1 /\ at[k] = Len(t)
      BY <1>1, <2>2
    <3>2. u[k] = Last(t)
      BY <1>3, <3>1
    <3> QED BY <1>1, <1>4, <3>1, <3>2
  <2> QED BY <2>1, <2>2
<1>7. \A k, l \in 1..(n + 1) : at[k] = at[l] => k = l
  <2>1. ASSUME NEW k \in 1..(n + 1), NEW l \in 1..(n + 1), at[k] = at[l] PROVE k = l
    BY <1>1, <2>1 DEF n
  <2> QED BY <2>1
<1> HIDE DEF u, at
<1>8. Distinct(u)
  <2>1. ASSUME NEW k \in DOMAIN u, NEW l \in DOMAIN u, u[k].c = u[l].c /\ u[k].c # 0 PROVE k = l
    <3>1. t[at[k]].c = t[at[l]].c /\ t[at[k]].c # 0 /\ at[k] \in DOMAIN t /\ at[l] \in DOMAIN t
      BY <1>5, <1>6, <2>1
    <3>2. at[k] = at[l]
      BY <3>1 DEF Distinct
    <3> QED BY <1>5, <1>7, <3>2
  <2> QED BY <2>1 DEF Distinct
<1>9. Names(u) \subseteq Names(t)
  BY <1>5, <1>6 DEF Names
<1>10. Sliced(t, 0, a - 1, w)
  <2>1. 0 \in Nat /\ a - 1 \in Nat /\ a - 1 <= Len(t)
    BY <1>1
  <2> QED BY <2>1, SliceIs
<1> HIDE DEF w
<1>11. ASSUME NEW x \in Names(u), x \in Names(w) PROVE FALSE
  <2>1. PICK k \in DOMAIN u : u[k].c = x /\ x # 0
    BY DEF Names
  <2>2. PICK l \in DOMAIN w : w[l].c = x
    BY <1>11 DEF Names
  <2>3. 0 + l \in DOMAIN t /\ 0 + l <= a - 1 /\ w[l] = t[0 + l]
    BY <1>10 DEF Sliced
  <2>4. at[k] \in DOMAIN t /\ at[k] > a /\ t[at[k]].c = x
    BY <1>5, <1>6, <2>1
  <2>5. at[k] = 0 + l
    BY <2>1, <2>2, <2>3, <2>4 DEF Distinct
  <2> QED BY <1>1, <2>3, <2>4, <2>5
<1> QED BY <1>5, <1>8, <1>9, <1>11 DEF Text, u, w, inner

\* The text of block id is cut behind a.
Trimmed(e, id, a, c, x) ==
  /\ Steps(e, x, 0, c, id) /\ Done(e, TRUE, x.doc, 0, c, x)
  /\ \E w \in Text : /\ Retexted(e.doc, id, w, x.doc) /\ Len(w) = a
                     /\ Names(w) \subseteq Names(Slice(BlockOf(e.doc, id).text, 0, a))
\* text.delete, to the end of a block.
LEMMA TrimIs ==
  ASSUME NEW e, NEW c, Good(e, c), ~e.threw, NEW id, Rich(e, id), NEW a \in Nat, a <= TextLen(e.doc, id)
  PROVE  Trimmed(e, id, a, c, TextDelete(e, id, a, TextLen(e.doc, id) - a))
<1> DEFINE t == BlockOf(e.doc, id).text
           w == Slice(t, 0, a) \o Slice(t, Len(t), Len(t))
           n == TextLen(e.doc, id) - a
           d == IF Rich(e, id) THEN SetText(e.doc, id, w) ELSE e.doc
<1>1. /\ Live(e, id) /\ t \in Text /\ TextLen(e.doc, id) = Len(t) /\ Len(t) \in Nat
      /\ BlockOf(e.doc, id).rich /\ Spells(t, Names(t)) /\ Tree(e.doc, e.fresh, c) /\ Has(e.doc, id)
  BY LiveIs, RichIs, TextIs
<1>2. Clamp(a, 0, Len(t)) = a /\ Clamp(n, 0, Len(t) - a) = n /\ a + n = Len(t)
  BY <1>1 DEF Clamp
<1> HIDE DEF t
<1>3. w \in Text /\ Spells(w, Names(t)) /\ Len(w) = a /\ Names(w) \subseteq Names(Slice(t, 0, a))
  <2>1. w \in Text /\ Spells(w, Names(t)) /\ Len(w) = a
    <3>1. Len(t) \in Nat /\ a <= Len(t) /\ Len(t) <= Len(t) /\ Len(t) - Len(t) = 0 /\ a + 0 = a
      BY <1>1
    <3>2. w \in Text /\ Spells(w, Names(t)) /\ Len(w) = a + (Len(t) - Len(t))
      BY <1>1, <3>1, CutOut
    <3> QED BY <3>1, <3>2
  <2>2. 0 \in Nat /\ Sliced(t, 0, a, Slice(t, 0, a)) /\ Sliced(t, Len(t), Len(t), Slice(t, Len(t), Len(t)))
    BY <1>1, SliceIs
  <2>3. Names(Slice(t, Len(t), Len(t))) = {}
    <3>1. Slice(t, Len(t), Len(t)) \in Text /\ Len(Slice(t, Len(t), Len(t))) = 0
      BY <1>1, <2>2 DEF Sliced
    <3>2. Slice(t, Len(t), Len(t)) = <<>>
      BY <3>1, TextIs
    <3> QED BY <3>2, EmptyText
  <2>4. Catenated(Slice(t, 0, a), Slice(t, Len(t), Len(t)), w)
    BY <2>2, CatIs DEF Sliced
  <2> QED BY <2>1, <2>3, <2>4 DEF Catenated
<1> HIDE DEF w
<1>4. TextDelete(e, id, a, n) = Do(e, TRUE, d, TRUE)
  BY <1>1, <1>2 DEF TextDelete, t, w
<1>5. Done(e, TRUE, d, 0, c, Do(e, TRUE, d, TRUE)) /\ Steps(e, Do(e, TRUE, d, TRUE), 0, c, id)
  <2>1. Rich(e, id) => Spells(w, Names(BlockOf(e.doc, id).text))
    BY <1>3 DEF t
  <2> QED BY <2>1, EditIs
<1>6. Do(e, TRUE, d, TRUE).doc = d /\ d = SetText(e.doc, id, w)
  BY <1>5 DEF Done
<1>7. Retexted(e.doc, id, w, SetText(e.doc, id, w))
  <2>1. e.fresh \in Nat /\ c \in Nat /\ Spells(w, Names(BlockOf(e.doc, id).text))
    BY <1>3, FreshIs DEF t
  <2> QED BY <1>1, <2>1, RetextIs
<1> HIDE DEF d
<1> QED BY <1>3, <1>4, <1>5, <1>6, <1>7 DEF Trimmed, t

\* What was cut goes in again, further to the front, without its delimiters.
LEMMA RetypedIs ==
  ASSUME NEW e, NEW c, Good(e, c), NEW id, Live(e, id), NEW a \in Nat, NEW x, Trimmed(e, id, a, c, x),
         NEW u \in Text, Distinct(u), Names(u) \subseteq Names(BlockOf(e.doc, id).text),
         Names(u) \cap Names(Slice(BlockOf(e.doc, id).text, 0, a)) = {}
  PROVE  Insertable(x.doc, u, c)
<1> DEFINE i == At(e.doc, id)
<1>1. PICK w \in Text : /\ Retexted(e.doc, id, w, x.doc)
                        /\ Names(w) \subseteq Names(Slice(BlockOf(e.doc, id).text, 0, a))
  BY DEF Trimmed
<1>2. Swapped(e.doc, i, [BlockOf(e.doc, id) EXCEPT !.text = w], x.doc)
  BY <1>1 DEF Retexted
<1>3. /\ i \in DOMAIN e.doc /\ BlockOf(e.doc, id) = e.doc[i] /\ AllApart(e.doc) /\ Sound(e.doc[i], e.fresh, c)
      /\ e.doc[i] \in Block
  BY LiveIs DEF Tree, Sound
<1> HIDE DEF i
<1>4. \A y \in Names(u) : y < c
  BY <1>3 DEF Sound
<1>5. ASSUME NEW k \in DOMAIN x.doc PROVE Names(x.doc[k].text) \cap Names(u) = {}
  <2>1. k \in DOMAIN e.doc
    BY <1>2 DEF Swapped
  <2>2. CASE k = i
    <3>1. x.doc[k] = [e.doc[i] EXCEPT !.text = w]
      BY <1>2, <1>3, <2>2 DEF Swapped
    <3>2. x.doc[k].text = w
      BY <1>3, <3>1 DEF Block
    <3> QED BY <1>1, <3>2
  <2>3. CASE k # i
    <3>1. x.doc[k] = e.doc[k] /\ Apart(e.doc[k], e.doc[i])
      BY <1>2, <1>3, <2>1, <2>3 DEF Swapped, AllApart
    <3> QED BY <1>3, <3>1 DEF Apart
  <2> QED BY <2>2, <2>3
<1> QED BY <1>4, <1>5 DEF Insertable

\* A shortcut that marks what stands between two delimiters.
LEMMA InlineShortcutIs ==
  ASSUME NEW e, NEW c, Good(e, c), ~e.threw, NEW q \in Pt, Live(e, q.b), BlockOf(e.doc, q.b).kind = "paragraph",
         NEW p, p \in Delimited(TextOf(e, q.b))
  PROVE  Handled(InlineShortcut(e, q, p), c)
<1> DEFINE t == TextOf(e, q.b)
           inner == SubSeq(t, p[1] + 1, p[2] - 1)
           u == Append(inner, Last(t))
           from == p[1] - 1
           cut == TextDelete(e, q.b, from, Len(t) - from)
           put == TextInsert(cut, q.b, from, u)
           key == Delimiter[t[p[1]].g]
           done == ToggleMark(put, q.b, from, from + Len(inner), key, "none")
           n == TextLen(done.doc, q.b)
<1>1. /\ t = BlockOf(e.doc, q.b).text /\ t \in Text /\ Distinct(t) /\ TextLen(e.doc, q.b) = Len(t)
      /\ Len(t) \in Nat /\ DOMAIN t = 1..Len(t)
  <2>1. t = BlockOf(e.doc, q.b).text
    BY DEF TextOf
  <2> HIDE DEF t
  <2> QED BY <2>1, LiveIs, TextIs DEF Sound
<1>2. Rich(e, q.b)
  BY LiveIs DEF Rich, HasInline, InlineKinds
<1>3. p[1] \in DOMAIN t /\ p[2] \in DOMAIN t /\ p[1] + 1 < p[2] /\ p[2] + 1 = Len(t) /\ t[p[1]].g \in DOMAIN Delimiter
  BY DEF Delimited
<1>4. key \in {"bold", "code"}
  BY <1>3 DEF Delimiter
<1>5. key \in Word /\ "none" \in Word
  BY <1>4, WordsAre DEF MarkKeys
<1> HIDE DEF t
<1>6. p[1] \in Nat /\ p[2] \in Nat /\ 1 <= p[1] /\ from \in Nat /\ from <= Len(t) /\ from \in Int
  BY <1>1, <1>3
<1> HIDE DEF key
<1>7. u \in Text /\ Distinct(u) /\ Names(u) \subseteq Names(t) /\ Names(u) \cap Names(Slice(t, 0, from)) = {}
  BY <1>1, <1>3, <1>6, InsideIs
<1> HIDE DEF from, u
<1>8. Trimmed(e, q.b, from, c, cut)
  BY <1>1, <1>2, <1>6, TrimIs
<1> HIDE DEF cut
<1>9. Insertable(cut.doc, u, c)
  BY <1>1, <1>6, <1>7, <1>8, RetypedIs
<1>10. Steps(e, cut, 0, c, q.b) /\ Good(cut, c)
  BY <1>8, StepsGood DEF Trimmed
<1>11. Good(put, c)
  <2>1. c \in Nat /\ c <= c /\ c <= cut.fresh
    BY <1>10, FreshIs
  <2>2. Steps(cut, put, 0, c, q.b)
    BY <1>6, <1>9, <1>10, <2>1, TextInsertIs
  <2> QED BY <2>2, StepsGood
<1> HIDE DEF put
<1>12. Good(done, c)
  BY <1>5, <1>11, ToggleMarkIs, StepsGood
<1> HIDE DEF done, inner
<1>13. Caret(q.b, IF q.o > n THEN n ELSE q.o) \in Pt
  BY <1>12, PlacesAre, PointsAre
<1>14. InlineShortcut(e, q, p) = Result(done, Caret(q.b, IF q.o > n THEN n ELSE q.o))
  BY DEF InlineShortcut, done, put, cut, u, from, key, inner, t
<1> QED BY <1>12, <1>13, <1>14, ResultIs

\* Either shortcut, or none.
LEMMA ShortcutIs ==
  ASSUME NEW e, NEW c, Good(e, c), NEW q \in Pt
  PROVE  Handled(Shortcut(e, q), c)
<1> DEFINE t == TextOf(e, q.b)
           what == Completes(e, q)
<1>1. Handled(Result(e, q), c)
  BY ResultIs
<1>2. what = "block shortcut" => Handled(BlockShortcut(e, q), c)
  <2>1. what = "block shortcut" =>
          Live(e, q.b) /\ BlockOf(e.doc, q.b).kind = "paragraph" /\ TextOf(e, q.b)[1].g \in DOMAIN Starter
    BY DEF Completes
  <2> QED BY <2>1, BlockShortcutIs
<1>3. what = "inline shortcut" => Handled(InlineShortcut(e, q, CHOOSE p \in Delimited(t) : TRUE), c)
  <2>1. what = "inline shortcut" =>
          ~e.threw /\ Live(e, q.b) /\ BlockOf(e.doc, q.b).kind = "paragraph" /\ Delimited(t) # {}
    BY DEF Completes
  <2>2. Delimited(t) # {} => (CHOOSE p \in Delimited(t) : TRUE) \in Delimited(t)
    OBVIOUS
  <2> QED BY <2>1, <2>2, InlineShortcutIs
<1>4. Shortcut(e, q) = CASE what = "block shortcut" -> BlockShortcut(e, q)
                         [] what = "inline shortcut" -> InlineShortcut(e, q, CHOOSE p \in Delimited(t) : TRUE)
                         [] OTHER -> Result(e, q)
  BY DEF Shortcut
<1> HIDE DEF what
<1> QED BY <1>1, <1>2, <1>3, <1>4

(***************************************************************************)
(* The keymap: typing, Enter and the delete keys.                          *)
(***************************************************************************)

\* Text with new names, typed into a block.
LEMMA TypedAtIs ==
  ASSUME NEW e, NEW c, Good(e, c), NEW c1 \in Nat, c <= c1, c1 <= e.fresh, NEW id, NEW o \in Int,
         NEW s \in Text, Distinct(s), \A x \in Names(s) : c <= x /\ x < c1
  PROVE  Good(TextInsert(e, id, o, s), c1)
<1>1. Insertable(e.doc, s, c1)
  BY FreshText
<1>2. Steps(e, TextInsert(e, id, o, s), 0, c1, id)
  BY <1>1, TextInsertIs
<1> QED BY <1>2, StepsGood

\* The names below c1 belong to the text that is typed.
LEMMA InsertTextIs ==
  ASSUME NEW e, NEW c, Good(e, c), NEW c1 \in Nat, c <= c1, c1 <= e.fresh, NEW p \in Pt,
         NEW s \in Text, Distinct(s), \A x \in Names(s) : c <= x /\ x < c1
  PROVE  Handled(InsertText(e, p, s), c1)
<1> DEFINE below == ParagraphAfter(e, p.b)
<1>1. Good(below, c) /\ c1 <= below.fresh /\ e.fresh \in Nat
  <2>1. Good(below, c) /\ below.fresh = e.fresh + 1 /\ e.fresh \in Nat
    BY ParagraphIs, FreshIs
  <2> HIDE DEF below
  <2> QED BY <2>1
<1>0. p.b \in Nat /\ p.o \in Nat
  BY PointsAre
<1>2. p.b \in Nat /\ p.o \in Nat /\ p.o \in Int /\ Len(s) \in Nat /\ p.o + Len(s) \in Nat /\ 0 \in Int
  BY <1>0, TextIs
<1>3. Caret(e.fresh, Len(s)) \in Pt /\ Caret(p.b, p.o + Len(s)) \in Pt
  BY <1>1, <1>2, PointsAre
<1> HIDE DEF below
<1>4. Good(TextInsert(below, e.fresh, 0, s), c1)
  BY <1>1, <1>2, TypedAtIs
<1>5. Good(TextInsert(e, p.b, p.o, s), c1)
  BY <1>2, TypedAtIs
<1>6. Handled(Result(TextInsert(below, e.fresh, 0, s), Caret(e.fresh, Len(s))), c1)
  BY <1>3, <1>4, ResultIs
<1>7. Handled(Shortcut(TextInsert(e, p.b, p.o, s), Caret(p.b, p.o + Len(s))), c1)
  BY <1>3, <1>5, ShortcutIs
<1> QED BY <1>6, <1>7 DEF InsertText, below

\* One new character.
LEMMA LetterIs ==
  ASSUME NEW n \in Nat, NEW g \in Word
  PROVE  LET s == <<[c |-> n, g |-> g, m |-> {}]>>
         IN  /\ s \in Text /\ Distinct(s) /\ Names(s) \subseteq {n} /\ Spells(s, {n}) /\ Len(s) = 1
             /\ \A x \in Names(s) : n <= x /\ x < n + 1
<1> DEFINE s == <<[c |-> n, g |-> g, m |-> {}]>>
<1>1. [c |-> n, g |-> g, m |-> {}] \in Char
  BY DEF Char
<1>2. s \in Text /\ Len(s) = 1 /\ DOMAIN s = {1} /\ s[1].c = n
  BY <1>1 DEF Text
<1> HIDE DEF s
<1>3. Distinct(s) /\ Names(s) \subseteq {n}
  BY <1>2 DEF Distinct, Names
<1>4. \A x \in Names(s) : n <= x /\ x < n + 1
  BY <1>3
<1> QED BY <1>2, <1>3, <1>4 DEF s, Spells

\* A soft line break.
LEMMA LineBreakIs ==
  ASSUME NEW e, NEW c, Good(e, c), c + 1 <= e.fresh, NEW p \in Pt, NEW ch, ch = [c |-> c, g |-> "\n", m |-> {}]
  PROVE  Handled(LineBreak(e, p, ch), c + 1)
<1>1. c \in Nat /\ c + 1 \in Nat /\ c <= c + 1
  BY FreshIs
<1>2. p.b \in Nat /\ p.o \in Nat /\ p.o \in Int /\ p.o + 1 \in Nat
  BY PointsAre
<1>3. <<ch>> \in Text /\ Distinct(<<ch>>) /\ \A x \in Names(<<ch>>) : c <= x /\ x < c + 1
  BY <1>1, WordsAre, LetterIs
<1>4. Good(TextInsert(e, p.b, p.o, <<ch>>), c + 1)
  BY <1>1, <1>2, <1>3, TypedAtIs
<1>5. Caret(p.b, p.o + 1) \in Pt
  BY <1>2, PointsAre
<1> QED BY <1>4, <1>5, ResultIs DEF LineBreak

\* Back to a paragraph.
LEMMA PlainIs ==
  ASSUME NEW e, NEW c, Good(e, c), NEW id, Inline(e, id)
  PROVE  Good(Transform(e, id, "paragraph", "none"), c)
<1>1. "paragraph" \in Kinds /\ "none" \in Word
  BY WordsAre DEF Kinds, InlineKinds
<1> QED BY <1>1, TransformIs, StepsGood

\* Enter: a split, a way out of a list, or a new paragraph.
LEMMA EnterIs ==
  ASSUME NEW e, NEW c, Good(e, c), NEW p \in Pt
  PROVE  Handled(Enter(e, p), c)
<1> DEFINE kind == BlockOf(e.doc, p.b).kind
           split == Split(e, p.b, p.o)
           plain == kind \in {"heading", "quote"} /\ p.o >= TextLen(e.doc, p.b)
           ends == Live(e, p.b) /\ kind \in ListKinds /\ TextLen(e.doc, p.b) = 0
           next == IF Live(e, p.b) /\ plain THEN Transform(split, e.fresh, "paragraph", "none") ELSE split
<1>0. p.b \in Nat /\ p.o \in Nat
  BY PointsAre
<1>1. p.b \in Nat /\ p.o \in Int /\ e.fresh \in Nat /\ 0 \in Nat
  BY <1>0, FreshIs
<1>2. Caret(p.b, 0) \in Pt /\ Caret(e.fresh, 0) \in Pt
  BY <1>1, PointsAre
<1>3. ends => Good(Transform(e, p.b, "paragraph", "none"), c)
  BY PlainIs DEF Inline, HasInline, InlineKinds, ListKinds
<1>4. Good(split, c)
  BY <1>1, SplitIs, StepsGood
<1>5. ASSUME plain, ~split.threw PROVE Inline(split, e.fresh)
  <2>1. Halved(e.doc, p.b, Clamp(p.o, 0, TextLen(e.doc, p.b)), e.fresh, split.doc)
    BY <1>1, <1>5, SplitIs
  <2>2. HasInline(kind)
    BY <1>5 DEF HasInline, InlineKinds
  <2> HIDE DEF split
  <2> QED BY <2>1, <2>2 DEF Halved, Inline, Live
<1>6. Good(next, c)
  <2>1. "paragraph" \in Kinds /\ "none" \in Word
    BY WordsAre DEF Kinds, InlineKinds
  <2>2. ASSUME Live(e, p.b) /\ plain PROVE Good(Transform(split, e.fresh, "paragraph", "none"), c)
    <3>1. ~split.threw /\ Live(split, e.fresh) /\ HasInline("paragraph") => Inline(split, e.fresh)
      BY <1>5, <2>2
    <3> HIDE DEF split
    <3>2. Steps(split, Transform(split, e.fresh, "paragraph", "none"), 0, c, 0)
      BY <1>4, <2>1, <3>1, TransformIs
    <3> QED BY <3>2, StepsGood
  <2> HIDE DEF split, plain
  <2> QED BY <1>4, <2>2
<1>7. Enter(e, p) = IF ends THEN Result(Transform(e, p.b, "paragraph", "none"), Caret(p.b, 0))
                    ELSE Result(next, Caret(e.fresh, 0))
  BY DEF Enter
<1> HIDE DEF ends, next
<1> QED BY <1>2, <1>3, <1>6, <1>7, ResultIs

\* What both delete keys do to a block that holds no text, and to the next one.
LEMMA GoneIs ==
  ASSUME NEW e, NEW c, Good(e, c), NEW id, NEW other \in Nat
  PROVE  /\ Good(Delete(e, id), c) /\ First(Delete(e, id)) \in Pt
         /\ Caret(other, 0) \in Pt /\ Caret(other, TextLen(Delete(e, id).doc, other)) \in Pt
         /\ Caret(other, TextLen(e.doc, other)) \in Pt
         /\ \A next : Good(Merge(e, id, next), c)
<1>1. Good(Delete(e, id), c)
  BY DeleteIs, StepsGood
<1>2. First(Delete(e, id)) \in Pt /\ TextLen(Delete(e, id).doc, other) \in Nat /\ TextLen(e.doc, other) \in Nat
  BY <1>1, PlacesAre
<1>3. \A next : Good(Merge(e, id, next), c)
  BY MergeIs, StepsGood
<1> QED BY <1>1, <1>2, <1>3, PointsAre

\* Backspace at the start of a block.
LEMMA BackspaceIs ==
  ASSUME NEW e, NEW c, Good(e, c), NEW p \in Pt
  PROVE  Handled(Backspace(e, p), c)
<1> DEFINE prev == Neighbour(e, p.b, -1)
           gone == Delete(e, p.b)
           after == Caret(prev, TextLen(gone.doc, prev))
<1>1. p.b \in Nat /\ p.o \in Nat /\ p.o - 1 \in Int /\ 1 \in Int /\ (p.o > 0 => p.o - 1 \in Nat) /\ NoCaret \in Pt
  BY PointsAre
<1>2. prev \in Nat
  BY PlacesAre
<1> HIDE DEF prev
<1>3. /\ Good(gone, c) /\ First(gone) \in Pt /\ after \in Pt /\ Good(Delete(e, prev), c)
      /\ Good(Merge(e, prev, p.b), c) /\ Caret(prev, TextLen(e.doc, prev)) \in Pt
  BY <1>2, GoneIs
<1>4. Good(TextDelete(e, p.b, p.o - 1, 1), c) /\ (p.o > 0 => Caret(p.b, p.o - 1) \in Pt)
  BY <1>1, TextDeleteIs, StepsGood, PointsAre
<1>5. Good(Outdent(e, p.b), c)
  BY OutdentIs, StepsGood
<1>6. Inline(e, p.b) => Good(Transform(e, p.b, "paragraph", "none"), c)
  BY PlainIs
<1>7. \A x, at : Good(x, c) /\ at \in Pt => Handled(Result(x, at), c)
  BY ResultIs
<1> DEFINE start == IF BlockOf(e.doc, p.b).kind = "paragraph" THEN Result(e, NoCaret)
                    ELSE Result(Transform(e, p.b, "paragraph", "none"), p)
           removed == Result(gone, IF prev = Root THEN First(gone) ELSE after)
<1>8. Handled(removed, c)
  BY <1>3, <1>7
<1>9. Inline(e, p.b) => Handled(start, c)
  BY <1>1, <1>6, <1>7
<1>10. Backspace(e, p) =
         IF ~Inline(e, p.b) THEN removed
         ELSE IF p.o > 0 THEN Result(TextDelete(e, p.b, p.o - 1, 1), Caret(p.b, p.o - 1))
         ELSE IF Parent(e, p.b) # Root THEN Result(Outdent(e, p.b), p)
         ELSE IF prev = Root THEN start
         ELSE IF ~Inline(e, prev) THEN Result(Delete(e, prev), p)
         ELSE Result(Merge(e, prev, p.b), Caret(prev, TextLen(e.doc, prev)))
  BY DEF Backspace, prev
<1> HIDE DEF removed, start, gone, after
<1> QED BY <1>3, <1>4, <1>5, <1>7, <1>8, <1>9, <1>10

\* Delete at its end.
LEMMA DeleteForwardIs ==
  ASSUME NEW e, NEW c, Good(e, c), NEW p \in Pt
  PROVE  Handled(DeleteForward(e, p), c)
<1> DEFINE next == Neighbour(e, p.b, 1)
           gone == Delete(e, p.b)
<1>1. p.b \in Nat /\ p.o \in Int /\ 1 \in Int /\ NoCaret \in Pt
  BY PointsAre
<1>2. next \in Nat
  BY PlacesAre
<1> HIDE DEF next
<1>3. /\ Good(gone, c) /\ First(gone) \in Pt /\ Caret(next, 0) \in Pt /\ Good(Delete(e, next), c)
      /\ Good(Merge(e, p.b, next), c)
  BY <1>1, <1>2, GoneIs
<1>4. Good(TextDelete(e, p.b, p.o, 1), c)
  BY <1>1, TextDeleteIs, StepsGood
<1>5. \A x, at : Good(x, c) /\ at \in Pt => Handled(Result(x, at), c)
  BY ResultIs
<1> DEFINE removed == Result(gone, IF next = Root THEN First(gone) ELSE Caret(next, 0))
<1>6. Handled(removed, c)
  BY <1>3, <1>5
<1>7. DeleteForward(e, p) =
        IF ~Inline(e, p.b) THEN removed
        ELSE IF p.o < TextLen(e.doc, p.b) THEN Result(TextDelete(e, p.b, p.o, 1), p)
        ELSE IF next = Root THEN Result(e, NoCaret)
        ELSE IF ~Inline(e, next) THEN Result(Delete(e, next), p)
        ELSE Result(Merge(e, p.b, next), p)
  BY DEF DeleteForward, next
<1> HIDE DEF removed, gone
<1> QED BY <1>1, <1>3, <1>4, <1>5, <1>6, <1>7

\* Where a delete key stops.
LEMMA BackTargetIs ==
  ASSUME NEW t, NEW o \in Nat, NEW unit
  PROVE  BackTarget(t, o, unit) \in Nat
<1>1. ASSUME NEW n \in Nat, NEW T \in SUBSET (1..n) PROVE Max(T \union {0}) \in Nat
  <2> DEFINE X == T \union {0}
  <2>1. X \in SUBSET Nat /\ X # {} /\ \A m \in X : m <= n
    BY <1>1
  <2> HIDE DEF X
  <2>2. Max(X) \in X
    BY <2>1, MaxIs
  <2> QED BY <2>1, <2>2 DEF X
<1> DEFINE L == {k \in 1..o : t[k].g = "\n"}
           W == {k \in 1..o : t[k].g \notin Space}
           word == Max(W \union {0})
           B == {k \in 1..word : t[k].g \in Space}
<1>2. Max(L \union {0}) \in Nat /\ word \in Nat
  BY <1>1
<1>3. BackTarget(t, o, unit) = IF unit = "line" THEN Max(L \union {0}) ELSE Max(B \union {0})
  BY DEF BackTarget
<1> HIDE DEF L, word
<1>4. Max(B \union {0}) \in Nat
  BY <1>1, <1>2
<1> QED BY <1>2, <1>3, <1>4

LEMMA ForwardTargetIs ==
  ASSUME NEW t \in Text, NEW o \in Nat, NEW unit
  PROVE  ForwardTarget(t, o, unit) \in Int
<1>0. Len(t) \in Nat
  BY TextIs
<1>1. ASSUME NEW n \in Nat, NEW T \in SUBSET (n..Len(t)) PROVE Min(T \union {Len(t) + 1}) \in Nat
  <2> DEFINE X == T \union {Len(t) + 1}
  <2>1. \A m \in n..Len(t) : m \in Nat
    BY <1>0, <1>1
  <2>2. T \subseteq Nat
    BY <1>1, <2>1
  <2>3. Len(t) + 1 \in Nat
    BY <1>0
  <2>0. X \in SUBSET Nat /\ X # {}
    BY <2>2, <2>3
  <2> HIDE DEF X
  <2>4. Min(X) \in X
    BY <2>0, MinIs
  <2> QED BY <2>0, <2>4 DEF X
<1> DEFINE L == {k \in (o + 1)..Len(t) : t[k].g = "\n"}
           W == {k \in (o + 1)..Len(t) : t[k].g \notin Space}
           word == Min(W \union {Len(t) + 1})
           F == {k \in word..Len(t) : t[k].g \in Space}
<1>2. Min(L \union {Len(t) + 1}) \in Nat /\ word \in Nat
  <2>1. o + 1 \in Nat /\ L \in SUBSET ((o + 1)..Len(t)) /\ W \in SUBSET ((o + 1)..Len(t))
    OBVIOUS
  <2> HIDE DEF L, W
  <2> QED BY <1>1, <2>1
<1>3. ForwardTarget(t, o, unit) = IF unit = "line" THEN Min(L \union {Len(t) + 1}) - 1 ELSE Min(F \union {Len(t) + 1}) - 1
  BY DEF ForwardTarget
<1> HIDE DEF L, word
<1>4. Min(F \union {Len(t) + 1}) \in Nat
  BY <1>1, <1>2
<1> HIDE DEF F
<1> QED BY <1>2, <1>3, <1>4

\* Both delete keys, with every unit.
LEMMA DeleteKeysAre ==
  ASSUME NEW e, NEW c, Good(e, c), NEW p \in Pt, NEW unit
  PROVE  Handled(DeleteBack(e, p, unit), c) /\ Handled(DeleteAhead(e, p, unit), c)
<1> DEFINE t == TextOf(e, p.b)
           back == BackTarget(t, p.o, unit)
           ahead == ForwardTarget(t, p.o, unit)
<1>1. p.b \in Nat /\ p.o \in Nat
  BY PointsAre
<1>2. t \in Text
  BY LiveIs, EmptyText DEF TextOf
<1> HIDE DEF t
<1>3. back \in Nat /\ ahead \in Int
  BY <1>1, <1>2, BackTargetIs, ForwardTargetIs
<1> HIDE DEF back, ahead
<1>4. back \in Int /\ p.o - back \in Int /\ p.o \in Int /\ ahead - p.o \in Int
  BY <1>1, <1>3
<1>5. Good(TextDelete(e, p.b, back, p.o - back), c) /\ Good(TextDelete(e, p.b, p.o, ahead - p.o), c)
  BY <1>4, TextDeleteIs, StepsGood
<1>6. Caret(p.b, back) \in Pt
  BY <1>1, <1>3, PointsAre
<1>7. Handled(Result(TextDelete(e, p.b, back, p.o - back), Caret(p.b, back)), c)
      /\ Handled(Result(TextDelete(e, p.b, p.o, ahead - p.o), p), c)
  BY <1>5, <1>6, ResultIs
<1> QED BY <1>7, BackspaceIs, DeleteForwardIs DEF DeleteBack, DeleteAhead, t, back, ahead

(***************************************************************************)
(* Marks over a selection.                                                 *)
(***************************************************************************)

\* Setting or taking off a mark on every member of a finite set of stretches.
LEMMA MarkFold ==
  ASSUME NEW S, IsFiniteSet(S), NEW X, NEW e \in X,
         \A p \in S, x \in X : ToggleMark(x, p.b, p.from, p.to, "bold", "none") \in X
  PROVE  FoldSet(LAMBDA p, x : ToggleMark(x, p.b, p.from, p.to, "bold", "none"), e, S) \in X
<1> DEFINE op(p, x) == ToggleMark(x, p.b, p.from, p.to, "bold", "none")
           ch == [T \in SUBSET S |-> CHOOSE x \in T : TRUE]
           F == [y \in S \X X |-> op(y[1], y[2])]
           Step(g) == [s \in SUBSET S |-> IF s = {} THEN e ELSE op(CHOOSE x \in s : TRUE, g[s \ {CHOOSE x \in s : TRUE}])]
           iter == CHOOSE g : g = Step(g)
<1>0. IsFiniteSet(S) /\ e \in X
  OBVIOUS
<1>1. Picks(S, ch)
  BY DEF Picks
<1>2. \A p \in S, x \in X : op(p, x) \in X
  OBVIOUS
<1> HIDE DEF op
<1>3. \A x \in S, y \in X : F[<<x, y>>] = op(x, y)
  OBVIOUS
<1>4. Closed(S, X, F)
  BY <1>2, <1>3 DEF Closed
<1> HIDE DEF F
<1>5. PICK h : Folds(S, X, ch, e, F, h)
  <2> HIDE DEF ch
  <2> QED BY <1>1, <1>4, FoldExists
<1>6. h = Step(h)
  <2>1. ASSUME NEW T \in SUBSET S PROVE h[T] = Step(h)[T]
    <3>1. CASE T = {}
      BY <1>5, <3>1 DEF Folds
    <3>2. CASE T # {}
      <4>1. ch[T] = CHOOSE x \in T : TRUE
        OBVIOUS
      <4>2. ch[T] \in S /\ h[T \ {ch[T]}] \in X
        BY <1>1, <1>5, <3>2 DEF Picks, Folds
      <4>3. h[T] = op(ch[T], h[T \ {ch[T]}])
        <5> HIDE DEF ch
        <5> QED BY <1>3, <1>5, <3>2, <4>2 DEF Folds
      <4> QED BY <4>1, <4>3, <3>2
    <3> QED BY <3>1, <3>2
  <2>2. DOMAIN h = SUBSET S /\ h = [T \in SUBSET S |-> h[T]]
    BY <1>5 DEF Folds
  <2> QED BY <2>1, <2>2
<1>7. iter = Step(iter)
  <2> HIDE DEF Step
  <2> QED BY <1>6
<1>8. FoldSet(LAMBDA p, x : ToggleMark(x, p.b, p.from, p.to, "bold", "none"), e, S) = iter[S]
  BY DEF FoldSet, MapThenFoldSet, op
<1> DEFINE P == {T \in SUBSET S : iter[T] \in X}
<1> HIDE DEF iter
<1>9. {} \in P
  BY <1>7
<1>10. ASSUME NEW T \in SUBSET S, T # {}, T \ {ch[T]} \in P PROVE T \in P
  <2>1. ch[T] = (CHOOSE x \in T : TRUE) /\ ch[T] \in S
    BY <1>1, <1>10 DEF Picks
  <2>2. iter[T] = op(ch[T], iter[T \ {ch[T]}])
    BY <1>7, <1>10, <2>1
  <2> QED BY <1>2, <1>10, <2>1, <2>2
<1>11. Builds(S, ch, P)
  BY <1>9, <1>10 DEF Builds
<1> HIDE DEF P, ch
<1>12. S \in P
  BY <1>1, <1>11, TakingAway
<1> QED BY <1>8, <1>12 DEF P

\* Taking off all marks of every member of a finite set of stretches.
LEMMA ClearFold ==
  ASSUME NEW S, IsFiniteSet(S), NEW X, NEW e \in X,
         \A p \in S, x \in X : ClearMarks(x, p.b, p.from, p.to) \in X
  PROVE  FoldSet(LAMBDA p, x : ClearMarks(x, p.b, p.from, p.to), e, S) \in X
<1> DEFINE op(p, x) == ClearMarks(x, p.b, p.from, p.to)
           ch == [T \in SUBSET S |-> CHOOSE x \in T : TRUE]
           F == [y \in S \X X |-> op(y[1], y[2])]
           Step(g) == [s \in SUBSET S |-> IF s = {} THEN e ELSE op(CHOOSE x \in s : TRUE, g[s \ {CHOOSE x \in s : TRUE}])]
           iter == CHOOSE g : g = Step(g)
<1>0. IsFiniteSet(S) /\ e \in X
  OBVIOUS
<1>1. Picks(S, ch)
  BY DEF Picks
<1>2. \A p \in S, x \in X : op(p, x) \in X
  OBVIOUS
<1> HIDE DEF op
<1>3. \A x \in S, y \in X : F[<<x, y>>] = op(x, y)
  OBVIOUS
<1>4. Closed(S, X, F)
  BY <1>2, <1>3 DEF Closed
<1> HIDE DEF F
<1>5. PICK h : Folds(S, X, ch, e, F, h)
  <2> HIDE DEF ch
  <2> QED BY <1>1, <1>4, FoldExists
<1>6. h = Step(h)
  <2>1. ASSUME NEW T \in SUBSET S PROVE h[T] = Step(h)[T]
    <3>1. CASE T = {}
      BY <1>5, <3>1 DEF Folds
    <3>2. CASE T # {}
      <4>1. ch[T] = CHOOSE x \in T : TRUE
        OBVIOUS
      <4>2. ch[T] \in S /\ h[T \ {ch[T]}] \in X
        BY <1>1, <1>5, <3>2 DEF Picks, Folds
      <4>3. h[T] = op(ch[T], h[T \ {ch[T]}])
        <5> HIDE DEF ch
        <5> QED BY <1>3, <1>5, <3>2, <4>2 DEF Folds
      <4> QED BY <4>1, <4>3, <3>2
    <3> QED BY <3>1, <3>2
  <2>2. DOMAIN h = SUBSET S /\ h = [T \in SUBSET S |-> h[T]]
    BY <1>5 DEF Folds
  <2> QED BY <2>1, <2>2
<1>7. iter = Step(iter)
  <2> HIDE DEF Step
  <2> QED BY <1>6
<1>8. FoldSet(LAMBDA p, x : ClearMarks(x, p.b, p.from, p.to), e, S) = iter[S]
  BY DEF FoldSet, MapThenFoldSet, op
<1> DEFINE P == {T \in SUBSET S : iter[T] \in X}
<1> HIDE DEF iter
<1>9. {} \in P
  BY <1>7
<1>10. ASSUME NEW T \in SUBSET S, T # {}, T \ {ch[T]} \in P PROVE T \in P
  <2>1. ch[T] = (CHOOSE x \in T : TRUE) /\ ch[T] \in S
    BY <1>1, <1>10 DEF Picks
  <2>2. iter[T] = op(ch[T], iter[T \ {ch[T]}])
    BY <1>7, <1>10, <2>1
  <2> QED BY <1>2, <1>10, <2>1, <2>2
<1>11. Builds(S, ch, P)
  BY <1>9, <1>10 DEF Builds
<1> HIDE DEF P, ch
<1>12. S \in P
  BY <1>1, <1>11, TakingAway
<1> QED BY <1>8, <1>12 DEF P

\* The stretches a selection covers are finitely many.
LEMMA SegmentsFinite ==
  ASSUME NEW e, NEW c, Good(e, c), NEW s \in Sel, Known(e, s)
  PROVE  IsFiniteSet(Segments(e, s))
<1> DEFINE d == e.doc
           r == Ordered(e, s)
           i == At(d, r.a.b)
           j == At(d, r.f.b)
           part(k) == [b |-> d[k].id, from |-> IF k = i THEN r.a.o ELSE 0,
                       to |-> IF k = j THEN r.f.o ELSE Len(d[k].text)]
           K == {k \in i..j : d[k].depth = 0}
           M == {part(k) : k \in K}
           f == [k \in K |-> part(k)]
           S == {p \in M : p.to > p.from}
           one == [b |-> s.a.b, from |-> IF Collapsed(s) THEN 0 ELSE r.a.o,
                   to |-> IF Collapsed(s) THEN TextLen(d, s.a.b) ELSE r.f.o]
<1>1. i \in Int /\ j \in Int
  <2>1. InOrder(e, s, r)
    BY OrderedIs
  <2>2. i \in DOMAIN d /\ j \in DOMAIN d /\ DOMAIN d = 1..Len(d)
    BY <2>1, GoodIs, BlocksAre DEF InOrder
  <2> QED BY <2>2
<1> HIDE DEF i, j
<1>2. IsFiniteSet(i..j)
  BY <1>1, FS_Interval
<1>3. IsFiniteSet(K)
  BY <1>2, FS_Subset
<1> HIDE DEF K, part
<1>4. IsFiniteSet(M)
  <2>1. f \in Surjection(K, M)
    BY DEF Surjection
  <2> QED BY <1>3, <2>1, FS_Surjection
<1> HIDE DEF M
<1>5. IsFiniteSet(S)
  BY <1>4, FS_Subset
<1> HIDE DEF one, S
<1>6. IsFiniteSet({one}) /\ IsFiniteSet({})
  BY FS_Singleton, FS_EmptySet
<1>7. Segments(e, s) = IF s.a.b = s.f.b THEN {one} ELSE IF d[i].depth > 0 \/ d[j].depth > 0 THEN {} ELSE S
  BY DEF Segments, one, S, M, part, K, i, j
<1> QED BY <1>5, <1>6, <1>7

\* Bold, over a selection.
LEMMA MarkSegmentsIs ==
  ASSUME NEW e, NEW c, Good(e, c), NEW s \in Sel, Known(e, s)
  PROVE  Good(MarkSegments(e, s, "bold"), c)
<1> DEFINE all == Segments(e, s)
           on == {p \in all : FullyMarked(e, p, "bold")}
           flip == IF Cardinality(all) <= 1 THEN all ELSE IF on = all THEN all ELSE all \ on
           X == {x \in Editors : Good(x, c)}
<1>1. IsFiniteSet(all)
  BY SegmentsFinite
<1>2. flip \subseteq all
  OBVIOUS
<1>3. e \in X /\ "none" \in Word /\ "bold" \in Word
  BY GoodIs, WordsAre DEF MarkKeys
<1>4. MarkSegments(e, s, "bold") = FoldSet(LAMBDA p, x : ToggleMark(x, p.b, p.from, p.to, "bold", "none"), e, flip)
  BY DEF MarkSegments
<1> HIDE DEF flip, all
<1>5. IsFiniteSet(flip)
  BY <1>1, <1>2, FS_Subset
<1>6. ASSUME NEW p \in flip, NEW x \in X PROVE ToggleMark(x, p.b, p.from, p.to, "bold", "none") \in X
  <2>1. Good(ToggleMark(x, p.b, p.from, p.to, "bold", "none"), c)
    BY <1>3, ToggleMarkIs, StepsGood
  <2> QED BY <2>1, GoodIs
<1> HIDE DEF X
<1>7. FoldSet(LAMBDA p, x : ToggleMark(x, p.b, p.from, p.to, "bold", "none"), e, flip) \in X
  BY <1>3, <1>5, <1>6, MarkFold
<1>8. MarkSegments(e, s, "bold") \in X
  BY <1>4, <1>7
<1> QED BY <1>8 DEF X

\* No marks, over a selection.
LEMMA ClearSegmentsIs ==
  ASSUME NEW e, NEW c, Good(e, c), NEW s \in Sel, Known(e, s)
  PROVE  Good(ClearSegments(e, s), c)
<1> DEFINE X == {x \in Editors : Good(x, c)}
<1>1. IsFiniteSet(Segments(e, s))
  BY SegmentsFinite
<1>2. e \in X
  BY GoodIs
<1>3. ASSUME NEW p \in Segments(e, s), NEW x \in X PROVE ClearMarks(x, p.b, p.from, p.to) \in X
  <2>1. Good(ClearMarks(x, p.b, p.from, p.to), c)
    BY ClearMarksIs, StepsGood
  <2> QED BY <2>1, GoodIs
<1> HIDE DEF X
<1>4. ClearSegments(e, s) \in X
  BY <1>1, <1>2, <1>3, ClearFold DEF ClearSegments
<1> QED BY <1>4 DEF X

(***************************************************************************)
(* The surface: tasks and the selection the page shows.                    *)
(***************************************************************************)

\* What an editor between two tasks is.
LEMMA RestIs ==
  ASSUME NEW e, AtRest(e)
  PROVE  /\ Good(e, e.fresh) /\ ~e.threw /\ e.fresh \in Nat /\ e.fresh <= e.fresh /\ e.doc # <<>> /\ Tree(e.doc, e.fresh, e.fresh)
         /\ e.threw = FALSE /\ e.group = "none"
<1>1. Good(e, e.fresh) /\ ~e.threw /\ e.group = "none"
  BY DEF AtRest
<1>2. e.threw \in BOOLEAN /\ e.fresh \in Nat /\ e.doc # <<>> /\ Tree(e.doc, e.fresh, e.fresh)
  BY <1>1, GoodIs
<1> QED BY <1>1, <1>2

\* Of an inline block the whole text is shown, of another nothing.
LEMMA ShownLenIs ==
  ASSUME NEW e, NEW c, Good(e, c), NEW id
  PROVE  /\ ShownLen(e, id) \in Nat /\ ShownLen(e, id) <= TextLen(e.doc, id) /\ TextLen(e.doc, id) \in Nat
         /\ ShownText(e, id) \in Text
         /\ Inline(e, id) => ShownText(e, id) = TextOf(e, id) /\ ShownLen(e, id) = TextLen(e.doc, id)
<1>1. TextLen(e.doc, id) \in Nat /\ 0 \in Nat
  BY PlacesAre
<1>2. CASE Inline(e, id)
  <2>1. Live(e, id) /\ ShownText(e, id) = BlockOf(e.doc, id).text
    BY <1>2 DEF Inline, ShownText
  <2>2. BlockOf(e.doc, id).text \in Text /\ TextLen(e.doc, id) = Len(BlockOf(e.doc, id).text)
    BY <2>1, LiveIs
  <2> QED BY <1>1, <2>1, <2>2 DEF ShownLen, TextOf
<1>3. CASE ~Inline(e, id)
  <2>1. ShownText(e, id) = <<>> /\ ShownLen(e, id) = 0
    BY <1>3, EmptyText DEF ShownText, ShownLen
  <2> QED BY <1>1, <1>3, <2>1, EmptyText
<1> QED BY <1>2, <1>3

\* A caret in what is shown of a block is one in its text.
LEMMA InsideFits ==
  ASSUME NEW e, NEW c, Good(e, c), NEW p \in Pt, Inside(e, p)
  PROVE  Fits(e.doc, p)
<1>1. p.o \in Nat /\ ShownLen(e, p.b) \in Nat /\ ShownLen(e, p.b) <= TextLen(e.doc, p.b) /\ TextLen(e.doc, p.b) \in Nat
  BY ShownLenIs, PointsAre
<1> QED BY <1>1 DEF Inside, Fits

\* Carets that are inside everywhere.
LEMMA FitsIs ==
  ASSUME NEW e, NEW c, Good(e, c)
  PROVE  /\ \A b \in Nat : Inside(e, Caret(b, 0)) /\ Inside(e, Caret(b, ShownLen(e, b)))
         /\ Inside(e, NoCaret) /\ Shown(e, NoSel)
<1>1. \A id : ShownLen(e, id) \in Nat
  BY ShownLenIs
<1>2. \A b \in Nat : Inside(e, Caret(b, 0)) /\ Inside(e, Caret(b, ShownLen(e, b)))
  BY <1>1 DEF Inside, Caret
<1>3. Inside(e, NoCaret)
  BY <1>1 DEF Inside, NoCaret
<1>4. NoSel \in Sel /\ NoSel.a = NoCaret /\ NoSel.f = NoCaret
  BY PointsAre DEF NoSel
<1> QED BY <1>2, <1>3, <1>4 DEF Shown

\* A selection that is written back is cut down to what is there.
LEMMA WrittenIs ==
  ASSUME NEW e, NEW c, Good(e, c), NEW s \in Sel
  PROVE  Shown(e, Written(e, s))
<1> DEFINE fit(p) == Caret(p.b, IF p.o > ShownLen(e, p.b) THEN ShownLen(e, p.b) ELSE p.o)
           r == At2(fit(s.a), fit(s.f))
<1>1. ASSUME NEW p \in Pt PROVE fit(p) \in Pt /\ Inside(e, fit(p))
  <2>1. p.b \in Nat /\ p.o \in Nat /\ ShownLen(e, p.b) \in Nat
    BY ShownLenIs, PointsAre
  <2>2. fit(p) \in Pt /\ fit(p).b = p.b /\ fit(p).o = (IF p.o > ShownLen(e, p.b) THEN ShownLen(e, p.b) ELSE p.o)
    BY <2>1, PointsAre DEF Caret
  <2> HIDE DEF fit
  <2> QED BY <2>1, <2>2 DEF Inside
<1>2. s.a \in Pt /\ s.f \in Pt
  BY PointsAre
<1>3. fit(s.a) \in Pt /\ fit(s.f) \in Pt /\ Inside(e, fit(s.a)) /\ Inside(e, fit(s.f))
  BY <1>1, <1>2
<1> HIDE DEF fit
<1>4. r.a = fit(s.a) /\ r.f = fit(s.f) /\ r \in Sel /\ At2(r.f, r.f) \in Sel
      /\ At2(r.f, r.f).a = r.f /\ At2(r.f, r.f).f = r.f
  <2>1. r.a = fit(s.a) /\ r.f = fit(s.f)
    BY DEF At2
  <2> HIDE DEF r
  <2>2. At2(r.f, r.f).a = r.f /\ At2(r.f, r.f).f = r.f
    BY DEF At2
  <2>3. At2(r.f, r.f) \in Sel
    BY <1>3, <2>1, PointsAre
  <2>4. r \in Sel
    BY <1>3, PointsAre DEF r
  <2> QED BY <2>1, <2>2, <2>3, <2>4
<1>5. Written(e, s) = IF Ordered(e, r) = r THEN r ELSE At2(r.f, r.f)
  BY DEF Written, fit
<1> HIDE DEF r
<1> QED BY <1>3, <1>4, <1>5 DEF Shown

\* A block with the same glyphs has the same length.
LEMMA SameTextIs ==
  ASSUME NEW old, NEW c0, Good(old, c0), NEW e, NEW c, Good(e, c), NEW id, SameText(old, e, id), Inline(e, id)
  PROVE  ShownLen(e, id) = ShownLen(old, id) /\ Has(old.doc, id)
<1> DEFINE t == ShownText(old, id)
           u == TextOf(e, id)
<1>1. Glyphs(t) = Glyphs(u) /\ Has(old.doc, id)
  BY DEF SameText
<1>2. t \in Text /\ ShownLen(old, id) = Len(t)
  BY ShownLenIs DEF ShownLen
<1>3. u \in Text /\ ShownLen(e, id) = Len(u)
  BY ShownLenIs DEF ShownLen
<1> HIDE DEF t, u
<1>4. DOMAIN t = DOMAIN u
  BY <1>1 DEF Glyphs
<1>5. Len(t) = Len(u)
  <2>1. Len(t) \in Nat /\ Len(u) \in Nat /\ DOMAIN t = 1..Len(t) /\ DOMAIN u = 1..Len(u)
    BY <1>2, <1>3, TextIs
  <2>2. ASSUME NEW m \in Nat, NEW n \in Nat, 1..m = 1..n PROVE m <= n
    <3>1. CASE m = 0
      BY <3>1
    <3>2. CASE m # 0
      <4>1. m \in 1..m
        BY <3>2
      <4> QED BY <2>2, <4>1
    <3> QED BY <3>1, <3>2
  <2>3. 1..Len(t) = 1..Len(u) /\ 1..Len(u) = 1..Len(t)
    BY <1>4, <2>1, Zenon
  <2>4. \A m, n \in Nat : 1..m = 1..n => m = n
    <3>1. \A m, n \in Nat : 1..m = 1..n => m <= n
      BY <2>2
    <3>2. \A m, n \in Nat : m <= n /\ n <= m => m = n
      OBVIOUS
    <3> QED BY <3>1, <3>2
  <2> QED BY <2>1, <2>3, <2>4, Zenon
<1> QED BY <1>1, <1>2, <1>3, <1>5

\* The selection the page is left with when it renders another document.
LEMMA LeftIs ==
  ASSUME NEW old, NEW c0, Good(old, c0), NEW e, NEW c, Good(e, c), NEW s, Shown(old, s)
  PROVE  Shown(e, Left(old, e, s))
<1> DEFINE keeps(p) == /\ Inline(e, p.b) /\ SameText(old, e, p.b)
                       /\ \A k \in DOMAIN TextOf(e, p.b) : TextOf(e, p.b)[k].m = {}
           stay(p) == Caret(p.b, IF keeps(p) THEN p.o ELSE 0)
           r == At2(stay(s.a), stay(s.f))
<1>1. ASSUME NEW p \in Pt, Inside(old, p) PROVE stay(p) \in Pt /\ Inside(e, stay(p))
  <2>1. p.b \in Nat /\ p.o \in Nat /\ 0 \in Nat /\ ShownLen(e, p.b) \in Nat
    BY ShownLenIs, PointsAre
  <2>2. stay(p) \in Pt /\ stay(p).b = p.b /\ stay(p).o = IF keeps(p) THEN p.o ELSE 0
    <3> HIDE DEF keeps
    <3> QED BY <2>1, PointsAre DEF Caret
  <2>3. Has(e.doc, p.b) /\ keeps(p) => p.o <= ShownLen(e, p.b)
    BY <1>1, SameTextIs DEF Inside
  <2> HIDE DEF stay, keeps
  <2> QED BY <2>1, <2>2, <2>3 DEF Inside
<1>2. s.a \in Pt /\ s.f \in Pt /\ Inside(old, s.a) /\ Inside(old, s.f)
  BY PointsAre DEF Shown
<1>3. stay(s.a) \in Pt /\ stay(s.f) \in Pt /\ Inside(e, stay(s.a)) /\ Inside(e, stay(s.f))
  BY <1>1, <1>2
<1>4. Left(old, e, s) = IF InDoc(e, s) THEN r ELSE NoSel
  BY DEF Left
<1> HIDE DEF stay, keeps
<1>5. Shown(e, r)
  <2>1. r.a = stay(s.a) /\ r.f = stay(s.f)
    BY DEF At2
  <2>2. r \in Sel
    BY <1>3, PointsAre
  <2> HIDE DEF r
  <2> QED BY <1>3, <2>1, <2>2 DEF Shown
<1> QED BY <1>4, <1>5, FitsIs

\* The selection once the page has rendered a task.
LEMMA FlushedIs ==
  ASSUME NEW old, NEW c0, Good(old, c0), NEW e, NEW c, Good(e, c), NEW pending \in Sel, NEW s, Shown(old, s)
  PROVE  Shown(e, Flushed(old, e, pending, s))
<1>1. s \in Sel
  BY DEF Shown
<1>2. Shown(e, Written(e, pending)) /\ Shown(e, Written(e, s)) /\ Shown(e, Left(old, e, s))
  BY <1>1, WrittenIs, LeftIs
<1> QED BY <1>2 DEF Flushed

\* A trigger that is found is one the picker can show.
LEMMA TriggerIs ==
  ASSUME NEW e, NEW c, NEW s, Good(e, c), s \in Sel
  PROVE  Picking(Trigger(e, s))
<1> DEFINE t == TextOf(e, s.a.b)
           starts == {k \in 1..s.a.o : /\ t[k].g = "@" /\ \A j \in (k + 1)..s.a.o : t[j].g \notin Space \union {"@"}
                                       /\ k = 1 \/ t[k - 1].g \in Space}
           k == CHOOSE k \in starts : TRUE
           p == [b |-> s.a.b, from |-> k - 1, to |-> s.a.o, q |-> Glyphs(SubSeq(t, k, s.a.o))]
<1>1. s.a.b \in Nat /\ s.a.o \in Nat
  BY PointsAre
<1>2. starts # {} => k \in 1..s.a.o
  OBVIOUS
<1>3. Trigger(e, s) = IF ~InDoc(e, s) \/ ~Collapsed(s) \/ starts = {} THEN NoPicker ELSE p
  BY DEF Trigger
<1>4. Picking(NoPicker)
  BY DEF Picking, NoPicker, Root
<1> HIDE DEF k, starts
<1>5. starts # {} => Picking(p)
  <2>1. p.b = s.a.b /\ p.from = k - 1 /\ p.to = s.a.o
    OBVIOUS
  <2>2. starts # {} => k - 1 \in Nat /\ k - 1 < s.a.o
    BY <1>1, <1>2
  <2> HIDE DEF p
  <2> QED BY <1>1, <2>1, <2>2 DEF Picking
<1> QED BY <1>3, <1>4, <1>5

\* What the invariant says of the editor.
LEMMA InvIs ==
  ASSUME IInv
  PROVE  /\ AtRest(ed) /\ Good(ed, ed.fresh) /\ ~ed.threw /\ ed.threw = FALSE /\ ed.group = "none"
         /\ ed.fresh \in Nat /\ ed.fresh <= ed.fresh /\ ed.doc # <<>>
         /\ Shown(ed, dsel) /\ dsel \in Sel /\ dsel.a \in Pt /\ dsel.f \in Pt /\ ime.at \in Pt
<1>1. AtRest(ed) /\ Shown(ed, dsel) /\ ime \in [on : BOOLEAN, at : Pt] /\ dsel \in Sel
  BY DEF IInv, Shown
<1> QED BY <1>1, RestIs, PointsAre

\* The end of a task: what e threw and what it grouped is over.
LEMMA OverIsAtRest ==
  ASSUME NEW e, NEW c, Good(e, c)
  PROVE  AtRest([e EXCEPT !.threw = FALSE, !.group = "none"]) /\ [e EXCEPT !.threw = FALSE, !.group = "none"].doc = e.doc
<1> DEFINE x == [e EXCEPT !.threw = FALSE]
           y == [x EXCEPT !.group = "none"]
<1>1. FALSE \in BOOLEAN /\ "none" \in {"none", "opened", "used"}
  OBVIOUS
<1>2. Same(e, c, x) /\ x.threw = FALSE
  BY <1>1, ThrewIs
<1>3. [e EXCEPT !.threw = FALSE, !.group = "none"] = y
  OBVIOUS
<1> HIDE DEF x
<1>4. Good(x, c)
  BY <1>2 DEF Same
<1>5. Same(x, c, y) /\ y.threw = x.threw /\ y.group = "none"
  BY <1>1, <1>4, GroupIs
<1> HIDE DEF y
<1>6. Good(y, c)
  BY <1>5 DEF Same
<1>7. Good(y, y.fresh)
  <2>1. y.fresh \in Nat /\ c \in Nat /\ c <= y.fresh /\ y.fresh <= y.fresh
    BY <1>6, FreshIs
  <2> QED BY <1>6, <2>1, GoodLater
<1> QED BY <1>2, <1>3, <1>5, <1>7 DEF AtRest, Same

\* A document that is shown is shown whatever else the editor remembers.
LEMMA ShownAlike ==
  ASSUME NEW e, NEW x, x.doc = e.doc, NEW s, Shown(e, s)
  PROVE  Shown(x, s)
BY DEF Shown, Inside, ShownLen, ShownText, Inline, Live

\* The end of any task.
LEMMA TaskIs ==
  ASSUME IInv, NEW what, NEW e, NEW c, Good(e, c), NEW pending \in Sel, Task(what, e, pending)
  PROVE  AtRest(ed') /\ Shown(ed', dsel')
<1> DEFINE x == [e EXCEPT !.threw = FALSE, !.group = "none"]
           p == IF e.threw THEN NoSel ELSE pending
<1>1. ed' = x /\ dsel' = Flushed(ed, e, p, dsel)
  BY DEF Task
<1>2. AtRest(x) /\ x.doc = e.doc
  BY OverIsAtRest
<1>3. p \in Sel
  BY PointsAre
<1> HIDE DEF x, p
<1>4. Shown(e, Flushed(ed, e, p, dsel))
  BY <1>3, InvIs, FlushedIs
<1>5. Shown(x, Flushed(ed, e, p, dsel))
  BY <1>2, <1>4, ShownAlike
<1> QED BY <1>1, <1>2, <1>5

LEMMA RetriggerIs ==
  ASSUME AtRest(ed'), Shown(ed', dsel'), Retrigger
  PROVE  Picking(picker')
<1>1. Good(ed', ed'.fresh) /\ dsel' \in Sel
  BY DEF AtRest, Shown
<1>2. Picking(Trigger(ed', dsel'))
  <2>1. \A e, c, s : Good(e, c) /\ s \in Sel => Picking(Trigger(e, s))
    BY TriggerIs
  <2> QED BY <1>1, <2>1
<1> QED BY <1>2 DEF Retrigger

LEMMA CaretSelIs ==
  ASSUME NEW at \in Pt
  PROVE  CaretSel(at) \in Sel
BY PointsAre DEF CaretSel

\* A task that leaves the picker, the clipboard and the composition alone.
LEMMA TaskKeeps ==
  ASSUME IInv, NEW what, NEW e, NEW c, Good(e, c), NEW pending \in Sel, Task(what, e, pending),
         UNCHANGED <<ime, clip, picker>>
  PROVE  IInv'
<1>1. AtRest(ed') /\ Shown(ed', dsel')
  BY TaskIs
<1> QED BY <1>1 DEF IInv

\* A task after which the trigger is looked for again.
LEMMA TaskTriggers ==
  ASSUME IInv, NEW what, NEW e, NEW c, Good(e, c), NEW pending \in Sel, Task(what, e, pending),
         Retrigger, UNCHANGED <<ime, clip>>
  PROVE  IInv'
<1>1. AtRest(ed') /\ Shown(ed', dsel')
  BY TaskIs
<1>2. Picking(picker')
  BY <1>1, RetriggerIs
<1> QED BY <1>1, <1>2 DEF IInv

\* A beforeinput handler.
LEMMA BeforeInputIs ==
  ASSUME IInv, NEW what, NEW r, NEW c, Handled(r, c), BeforeInput(what, r)
  PROVE  IInv'
<1>1. Good(r.e, c) /\ CaretSel(r.at) \in Sel
  BY CaretSelIs DEF Handled
<1>2. Task(what, r.e, CaretSel(r.at)) /\ Retrigger /\ UNCHANGED <<ime, clip>>
  BY DEF BeforeInput
<1> QED BY <1>1, <1>2, TaskTriggers

\* The caret a handler starts from.
LEMMA EnsuredIs ==
  ASSUME IInv
  PROVE  Shown(ed, EnsuredCaret) /\ EnsuredCaret \in Sel /\ EnsuredCaret.a \in Pt
<1> DEFINE z == Last(ed.doc).id
           n == ShownLen(ed, z)
<1>1. Good(ed, ed.fresh) /\ Shown(ed, dsel) /\ ed.doc # <<>>
  BY InvIs
<1>2. z \in Nat /\ n \in Nat
  <2>1. ed.doc \in Seq(Block)
    BY <1>1, GoodIs
  <2>2. Len(ed.doc) \in DOMAIN ed.doc /\ Last(ed.doc) = ed.doc[Len(ed.doc)]
    BY <1>1, <2>1, BlocksAre DEF Last
  <2> QED BY <1>1, <2>1, <2>2, BlocksAre, ShownLenIs
<1> HIDE DEF z
<1>3. Inside(ed, Caret(z, n))
  BY <1>1, <1>2, FitsIs
<1>4. Point(z, n) \in Sel /\ Point(z, n).a = Caret(z, n) /\ Point(z, n).f = Caret(z, n)
  BY <1>2, PointsAre DEF Point, At2
<1>5. Shown(ed, Point(z, n))
  BY <1>3, <1>4 DEF Shown
<1>6. Shown(ed, EnsuredCaret)
  BY <1>1, <1>5 DEF EnsuredCaret, z
<1> QED BY <1>6, PointsAre DEF Shown

\* The editor whose core selection is the one the DOM shows.
LEMMA SelectedDom ==
  ASSUME IInv, NEW s, Shown(ed, s)
  PROVE  LET e == Select(ed, s)
         IN  /\ Good(e, ed.fresh) /\ e.doc = ed.doc /\ e.fresh = ed.fresh /\ ~e.threw /\ e.sel = s
             /\ Fits(e.doc, e.sel.a) /\ Fits(e.doc, e.sel.f)
<1> DEFINE e == Select(ed, s)
<1>1. s \in Sel /\ Fits(ed.doc, s.a) /\ Fits(ed.doc, s.f)
  BY InvIs, InsideFits, PointsAre DEF Shown
<1>2. Same(ed, ed.fresh, e) /\ e.threw = ed.threw /\ e.sel = IF ed.threw THEN ed.sel ELSE s
  BY <1>1, InvIs, SelectIs
<1> HIDE DEF e
<1> QED BY <1>1, <1>2, InvIs DEF Same, e

\* The selected text taken out.
LEMMA ClearedIs ==
  ASSUME IInv, NEW s, Shown(ed, s)
  PROVE  Handled(Cleared(s), ed.fresh)
<1> DEFINE e == Select(ed, s)
           cut == Replace(e, <<>>)
           at == IF cut.threw THEN NoCaret ELSE cut.sel.a
<1>1. Good(e, ed.fresh) /\ Unnamed(<<>>)
  BY SelectedDom, EmptyText DEF Unnamed
<1> HIDE DEF e
<1>2. Good(cut, ed.fresh)
  BY <1>1, ReplaceIs
<1> HIDE DEF cut
<1>3. at \in Pt /\ s.a \in Pt
  BY <1>2, GoodIs, PointsAre DEF Shown
<1> HIDE DEF at
<1>4. Handled(Result(cut, at), ed.fresh) /\ Handled(Result(ed, s.a), ed.fresh)
  BY <1>2, <1>3, InvIs, ResultIs
<1>5. Cleared(s) = IF Collapsed(s) THEN Result(ed, s.a) ELSE Result(cut, at)
  BY DEF Cleared, DeleteRange, cut, e, at
<1> QED BY <1>4, <1>5

(***************************************************************************)
(* One lemma for each gesture.                                             *)
(***************************************************************************)

\* The characters of a typed text, named from fresh on.
LEMMA NamedIs ==
  ASSUME IInv, NEW g \in Typings
  PROVE  /\ Named(g) \in Text /\ Distinct(Named(g)) /\ Len(Named(g)) = Len(g) /\ Len(g) \in Nat
         /\ \A x \in Names(Named(g)) : ed.fresh <= x /\ x < ed.fresh + Len(g)
         /\ Len(g) > 0 /\ Named(g)[Len(g)].c = ed.fresh + Len(g) - 1
<1> DEFINE s == Named(g)
           n == ed.fresh
<1>1. g \in Seq(Word) /\ Len(g) \in Nat /\ DOMAIN g = 1..Len(g) /\ n \in Nat /\ Len(g) > 0
  BY TypingsAssumption, SeqIs, InvIs
<1>2. s = [k \in DOMAIN g |-> [c |-> n + k - 1, g |-> g[k], m |-> {}]]
  BY DEF Named
<1> HIDE DEF n
<1>3. \A k \in DOMAIN g : n + k - 1 \in Nat /\ n <= n + k - 1 /\ n + k - 1 < n + Len(g)
  BY <1>1
<1>4. \A k \in DOMAIN g : s[k] \in Char /\ s[k].c = n + k - 1
  <2>1. ASSUME NEW k \in DOMAIN g PROVE s[k] \in Char /\ s[k].c = n + k - 1
    <3>1. s[k] = [c |-> n + k - 1, g |-> g[k], m |-> {}]
      BY <1>2
    <3>2. g[k] \in Word /\ {} \in SUBSET (Word \X Word)
      BY <1>1
    <3> QED BY <1>3, <3>1, <3>2 DEF Char
  <2> QED BY <2>1
<1>5. s \in [1..Len(g) -> Char]
  <2>1. DOMAIN s = 1..Len(g) /\ s = [k \in 1..Len(g) |-> s[k]]
    BY <1>1, <1>2
  <2> HIDE DEF s
  <2> QED BY <1>1, <1>4, <2>1
<1> HIDE DEF s
<1>6. s \in Text /\ Len(s) = Len(g) /\ DOMAIN s = 1..Len(g)
  BY <1>1, <1>5, FcnIsSeq DEF Text
<1>7. Distinct(s)
  <2>1. ASSUME NEW k \in DOMAIN s, NEW l \in DOMAIN s, s[k].c = s[l].c PROVE k = l
    <3>1. n + k - 1 = n + l - 1 /\ k \in Int /\ l \in Int
      BY <1>1, <1>4, <1>6, <2>1
    <3> QED BY <1>1, <3>1
  <2> QED BY <2>1 DEF Distinct
<1>8. \A x \in Names(s) : n <= x /\ x < n + Len(g)
  BY <1>1, <1>3, <1>4, <1>6 DEF Names
<1>9. s[Len(g)].c = n + Len(g) - 1
  BY <1>1, <1>4
<1> QED BY <1>1, <1>6, <1>7, <1>8, <1>9 DEF s, n

\* Typing, where the selected text is already gone.
LEMMA TypeInto ==
  ASSUME IInv, NEW r, Handled(r, ed.fresh), NEW g \in Typings
  PROVE  Handled(InsertText(Use(r.e, Len(g)), r.at, Named(g)), ed.fresh + Len(g))
<1> DEFINE x == Use(r.e, Len(g))
           n == ed.fresh
           c1 == n + Len(g)
<1>1. Good(r.e, n) /\ r.at \in Pt
  BY DEF Handled
<1>2. n \in Nat /\ Len(g) \in Nat /\ r.e.fresh \in Nat /\ n <= r.e.fresh
  BY <1>1, NamedIs, FreshIs
<1>3. c1 \in Nat /\ n <= c1 /\ c1 <= r.e.fresh + Len(g) /\ n <= n /\ n <= r.e.fresh + Len(g)
  BY <1>2
<1> HIDE DEF c1
<1>4. Good(x, n) /\ x.fresh = r.e.fresh + Len(g)
  BY <1>1, <1>2, <1>3, UseIs
<1>5. Named(g) \in Text /\ Distinct(Named(g)) /\ \A y \in Names(Named(g)) : n <= y /\ y < c1
  BY NamedIs DEF c1
<1> HIDE DEF x, n
<1>6. c1 <= x.fresh
  BY <1>3, <1>4
<1>7. Handled(InsertText(x, r.at, Named(g)), c1)
  BY <1>1, <1>3, <1>4, <1>5, <1>6, InsertTextIs
<1> QED BY <1>7 DEF x, c1, n

\* Type.
LEMMA TypeStep ==
  ASSUME IInv, NEW g \in Typings, Type(g)
  PROVE  IInv'
<1> DEFINE r == Cleared(EnsuredCaret)
           put == InsertText(Use(r.e, Len(g)), r.at, Named(g))
<1>1. Handled(r, ed.fresh)
  BY EnsuredIs, ClearedIs
<1>2. /\ r.e.threw => BeforeInput("type", r)
      /\ ~r.e.threw => BeforeInput(Inserting(Use(r.e, Len(g)), r.at, Named(g)), put)
  BY DEF Type
<1> HIDE DEF r
<1>3. Handled(put, ed.fresh + Len(g))
  BY <1>1, TypeInto
<1> HIDE DEF put
<1>4. CASE r.e.threw
  BY <1>1, <1>2, <1>4, BeforeInputIs
<1>5. CASE ~r.e.threw
  BY <1>2, <1>3, <1>5, BeforeInputIs
<1> QED BY <1>4, <1>5

\* EnterKey.
LEMMA EnterStep ==
  ASSUME IInv, EnterKey
  PROVE  IInv'
<1>1. Handled(Enter(ed, EnsuredCaret.a), ed.fresh)
  BY InvIs, EnsuredIs, EnterIs
<1> QED BY <1>1, BeforeInputIs DEF EnterKey

\* One name is set aside.
LEMMA UseOne ==
  ASSUME IInv
  PROVE  /\ Good(Use(ed, 1), ed.fresh) /\ Use(ed, 1).doc = ed.doc /\ Use(ed, 1).threw = ed.threw
         /\ ed.fresh + 1 <= Use(ed, 1).fresh /\ ed.fresh + 1 \in Nat /\ ed.fresh <= ed.fresh + 1
<1>1. ed.fresh \in Nat /\ 1 \in Nat /\ ed.fresh <= ed.fresh /\ ed.fresh <= ed.fresh + 1 /\ ed.fresh + 1 \in Nat
      /\ ed.fresh + 1 <= ed.fresh + 1
  BY InvIs
<1>2. Good(Use(ed, 1), ed.fresh) /\ Use(ed, 1).doc = ed.doc /\ Use(ed, 1).threw = ed.threw
      /\ Use(ed, 1).fresh = ed.fresh + 1
  BY <1>1, InvIs, UseIs
<1> QED BY <1>1, <1>2

\* LineBreakKey.
LEMMA LineBreakStep ==
  ASSUME IInv, LineBreakKey
  PROVE  IInv'
<1> DEFINE x == Use(ed, 1)
           ch == [c |-> ed.fresh, g |-> "\n", m |-> {}]
           p == EnsuredCaret.a
<1>1. Good(x, ed.fresh) /\ ed.fresh + 1 <= x.fresh /\ p \in Pt
  BY UseOne, EnsuredIs
<1>2. BeforeInput("type", LineBreak(x, p, ch))
  BY DEF LineBreakKey
<1> HIDE DEF x, p
<1>3. Handled(LineBreak(x, p, ch), ed.fresh + 1)
  BY <1>1, LineBreakIs
<1> HIDE DEF ch
<1> QED BY <1>2, <1>3, BeforeInputIs

\* DeleteKey.
LEMMA DeleteStep ==
  ASSUME IInv, NEW unit, NEW forward, DeleteKey(unit, forward)
  PROVE  IInv'
<1> DEFINE s == EnsuredCaret
           r == IF ~Collapsed(s) THEN Cleared(s)
                ELSE IF forward THEN DeleteAhead(ed, s.a, unit) ELSE DeleteBack(ed, s.a, unit)
<1>1. Handled(Cleared(s), ed.fresh)
  BY EnsuredIs, ClearedIs
<1>2. Handled(DeleteAhead(ed, s.a, unit), ed.fresh) /\ Handled(DeleteBack(ed, s.a, unit), ed.fresh)
  BY InvIs, EnsuredIs, DeleteKeysAre
<1>3. BeforeInput("delete", r)
  BY DEF DeleteKey
<1> HIDE DEF s
<1>4. Handled(r, ed.fresh)
  BY <1>1, <1>2
<1> HIDE DEF r
<1> QED BY <1>3, <1>4, BeforeInputIs

\* DeleteBy.
LEMMA DeleteByStep ==
  ASSUME IInv, DeleteBy
  PROVE  IInv'
<1>1. Handled(Cleared(EnsuredCaret), ed.fresh)
  BY EnsuredIs, ClearedIs
<1> QED BY <1>1, BeforeInputIs DEF DeleteBy

\* HistoryKey.
LEMMA HistoryStep ==
  ASSUME IInv, NEW redo, HistoryKey(redo)
  PROVE  IInv'
<1> DEFINE x == IF redo THEN Redo(ed) ELSE Undo(ed)
<1>1. Good(x, ed.fresh)
  BY InvIs, HistoryIs
<1>2. Task("history", x, NoSel) /\ Retrigger /\ UNCHANGED <<ime, clip>>
  BY DEF HistoryKey
<1> HIDE DEF x
<1> QED BY <1>1, <1>2, PointsAre, TaskTriggers

\* A keydown handler.
LEMMA KeyDownIs ==
  ASSUME IInv, NEW what, NEW e, NEW c, Good(e, c), NEW pending \in Sel, NEW target, KeyDown(what, e, pending, target)
  PROVE  IInv'
BY TaskKeeps DEF KeyDown

\* Tab.
LEMMA TabStep ==
  ASSUME IInv, NEW shift, Tab(shift)
  PROVE  IInv'
<1> DEFINE id == IF InDoc(ed, dsel) THEN dsel.a.b ELSE tabbed
           code == InDoc(ed, dsel) /\ BlockOf(ed.doc, id).kind = "code" /\ ~shift
           s == <<[c |-> ed.fresh, g |-> " ", m |-> {}]>>
           x == Use(ed, 1)
           put == TextInsert(x, id, dsel.a.o, s)
           after == Point(id, dsel.a.o + 1)
           moved == IF shift THEN Outdent(ed, id) ELSE Indent(ed, id)
<1>1. /\ code => KeyDown("type", put, after, tabbed)
      /\ ~code => KeyDown("tab", moved, dsel, id)
  BY DEF Tab
<1>2. dsel.a.b \in Nat /\ dsel.a.o \in Nat /\ dsel \in Sel
  BY InvIs, PointsAre
<1>3. Good(put, ed.fresh + 1)
  <2>1. dsel.a.o \in Int
    BY <1>2
  <2>2. s \in Text /\ Distinct(s) /\ \A y \in Names(s) : ed.fresh <= y /\ y < ed.fresh + 1
    BY InvIs, WordsAre, LetterIs
  <2> HIDE DEF s, id
  <2> QED BY <2>1, <2>2, UseOne, TypedAtIs
<1>4. code => after \in Sel
  <2>1. dsel.a.o + 1 \in Nat
    BY <1>2
  <2>2. Point(dsel.a.b, dsel.a.o + 1) \in Sel
    BY <1>2, <2>1, PointsAre
  <2> QED BY <2>2
<1> HIDE DEF id
<1>5. Good(moved, ed.fresh)
  BY InvIs, OutdentIs, IndentIs, StepsGood
<1> HIDE DEF code, put, after, moved
<1>6. CASE code
  BY <1>1, <1>3, <1>4, <1>6, KeyDownIs
<1>7. CASE ~code
  BY <1>1, <1>2, <1>5, <1>7, KeyDownIs
<1> QED BY <1>6, <1>7

\* MarkKey and ClearKey.
LEMMA MarkStep ==
  ASSUME IInv, MarkKey \/ ClearKey
  PROVE  IInv'
<1>1. dsel \in Sel /\ Good(ed, ed.fresh) /\ Known(ed, dsel)
  BY InvIs DEF MarkKey, ClearKey, InDoc
<1>2. Good(MarkSegments(ed, dsel, "bold"), ed.fresh) /\ Good(ClearSegments(ed, dsel), ed.fresh)
  BY <1>1, MarkSegmentsIs, ClearSegmentsIs
<1>3. CASE MarkKey
  BY <1>1, <1>2, <1>3, KeyDownIs DEF MarkKey
<1>4. CASE ClearKey
  BY <1>1, <1>2, <1>4, KeyDownIs DEF ClearKey
<1> QED BY <1>3, <1>4

\* A selection the user makes.
LEMMA MovedIs ==
  ASSUME IInv, NEW s, Shown(ed, s), Moved(s)
  PROVE  IInv'
<1>1. ed' = Select(ed, s) /\ dsel' = s /\ ime' = ime /\ clip' = clip
      /\ picker' = IF ime.on THEN NoPicker ELSE Trigger(ed, s)
  BY DEF Moved
<1>2. Good(ed', ed.fresh) /\ ed'.doc = ed.doc /\ ed'.fresh = ed.fresh /\ ~ed'.threw
  BY <1>1, SelectedDom
<1>3. ed'.group = ed.group
  <2>1. ed \in Editors /\ ~ed.threw
    BY InvIs, GoodIs
  <2> QED BY <1>1, <2>1 DEF Select, Editors
<1>4. AtRest(ed') /\ Shown(ed', dsel')
  <2>1. Shown(ed', s)
    BY <1>2, ShownAlike
  <2> QED BY <1>1, <1>2, <1>3, <2>1, InvIs DEF AtRest
<1>5. Picking(picker')
  <2>1. s \in Sel /\ Good(ed, ed.fresh)
    BY InvIs DEF Shown
  <2>2. Picking(Trigger(ed, s))
    BY <2>1, TriggerIs
  <2>3. Picking(NoPicker)
    BY DEF Picking, NoPicker, Root
  <2> QED BY <1>1, <2>2, <2>3
<1> QED BY <1>1, <1>4, <1>5 DEF IInv

\* SelectAllKey.
LEMMA SelectAllStep ==
  ASSUME IInv, SelectAllKey
  PROVE  IInv'
<1>1. SelectAll(ed).sel \in Sel
  <2> DEFINE z == Last(ed.doc).id
             s == At2(Caret(ed.doc[1].id, 0), Caret(z, TextLen(ed.doc, z)))
  <2>1. Good(ed, ed.fresh) /\ ed.doc # <<>> /\ ~ed.threw
    BY InvIs
  <2>2. ed.doc \in Seq(Block)
    BY <2>1, GoodIs
  <2>3. 1 \in DOMAIN ed.doc /\ Len(ed.doc) \in DOMAIN ed.doc /\ Last(ed.doc) = ed.doc[Len(ed.doc)]
    BY <2>1, <2>2, BlocksAre DEF Last
  <2>4. ed.doc[1].id \in Nat /\ z \in Nat /\ TextLen(ed.doc, z) \in Nat /\ 0 \in Nat
    BY <2>1, <2>2, <2>3, BlocksAre, PlacesAre
  <2>5. Caret(ed.doc[1].id, 0) \in Pt /\ Caret(z, TextLen(ed.doc, z)) \in Pt
    BY <2>4, PointsAre
  <2>6. s \in Sel
    BY <2>5, PointsAre
  <2>7. SelectAll(ed) = Select(ed, s)
    BY <2>1 DEF SelectAll
  <2> HIDE DEF s
  <2>8. Select(ed, s).sel = s
    BY <2>1, <2>6, SelectIs
  <2> QED BY <2>6, <2>7, <2>8
<1>2. Shown(ed, Written(ed, SelectAll(ed).sel))
  BY <1>1, InvIs, WrittenIs
<1> QED BY <1>2, MovedIs DEF SelectAllKey

LEMMA SelectRests ==
  ASSUME IInv, NEW s, Shown(ed, s)
  PROVE  AtRest(Select(ed, s)) /\ Select(ed, s).doc = ed.doc
<1>1. /\ Good(Select(ed, s), ed.fresh) /\ Select(ed, s).doc = ed.doc /\ Select(ed, s).fresh = ed.fresh
      /\ ~Select(ed, s).threw
  BY SelectedDom
<1>2. Select(ed, s).group = ed.group
  <2>1. ed \in Editors /\ ~ed.threw
    BY InvIs, GoodIs
  <2> QED BY <2>1 DEF Select, Editors
<1> QED BY <1>1, <1>2, InvIs DEF AtRest

\* MoveSelection.
LEMMA MoveStep ==
  ASSUME IInv, NEW s \in Ranges(ed), MoveSelection(s)
  PROVE  IInv'
<1>1. PICK a \in Carets(ed), f \in Carets(ed) :
        s = At2(a, f) /\ a.o <= ShownLen(ed, a.b) /\ f.o <= ShownLen(ed, f.b)
  BY DEF Ranges
<1>2. \A p \in Carets(ed) : p \in Pt
  <2>1. \A i \in DOMAIN ed.doc : ed.doc[i].id \in Nat
    BY InvIs, GoodIs, BlocksAre
  <2>2. ASSUME NEW p \in Carets(ed) PROVE p \in Pt
    <3>1. PICK i \in DOMAIN ed.doc, o \in 0..3 : p = Caret(ed.doc[i].id, o)
      BY DEF Carets
    <3>2. o \in Nat
      BY <3>1
    <3> QED BY <2>1, <3>1, <3>2, PointsAre
  <2> QED BY <2>2
<1>3. s.a = a /\ s.f = f /\ s \in Sel
  BY <1>1, <1>2, PointsAre DEF At2
<1>4. Shown(ed, s)
  BY <1>1, <1>3 DEF Shown, Inside
<1> QED BY <1>4, MovedIs DEF MoveSelection

\* Focus.
LEMMA FocusStep ==
  ASSUME IInv, Focus
  PROVE  IInv'
BY EnsuredIs, MovedIs DEF Focus

\* CompositionStart.
LEMMA CompositionStartStep ==
  ASSUME IInv, CompositionStart
  PROVE  IInv'
<1>1. ime' \in [on : BOOLEAN, at : Pt]
  BY InvIs, PointsAre DEF CompositionStart
<1> QED BY <1>1 DEF IInv, CompositionStart

\* CompositionEnd.
LEMMA CompositionEndStep ==
  ASSUME IInv, NEW g \in Typings \union {<<>>}, CompositionEnd(g)
  PROVE  IInv'
<1> DEFINE c == ime.at
           insert == editable /\ c # NoCaret /\ g # <<>>
           x == Use(ed, Len(g))
           put == TextInsert(x, c.b, c.o, Named(g))
           e == IF insert THEN put ELSE ed
           pending == IF insert THEN Point(c.b, c.o + Len(g)) ELSE NoSel
           n == ed.fresh
           c1 == n + Len(g)
<1>1. Task("compose", e, pending) /\ ime' = NoIme /\ (Retrigger \/ UNCHANGED picker) /\ clip' = clip
  BY DEF CompositionEnd
<1>0. CASE ~insert
  <2>1. Good(ed, ed.fresh) /\ NoSel \in Sel /\ Task("compose", ed, NoSel)
    BY <1>0, <1>1, InvIs, PointsAre
  <2>2. AtRest(ed') /\ Shown(ed', dsel')
    BY <2>1, TaskIs
  <2>3. Picking(picker') /\ NoIme \in [on : BOOLEAN, at : Pt]
    BY <1>1, <2>2, RetriggerIs, PointsAre DEF IInv, NoIme
  <2> QED BY <1>1, <2>2, <2>3 DEF IInv
<1> SUFFICES ASSUME insert
             PROVE  IInv'
  BY <1>0
<1>2. c.b \in Nat /\ c.o \in Nat /\ Len(g) \in Nat /\ n \in Nat /\ n <= n /\ g \in Typings
  BY InvIs, PointsAre, NamedIs
<1>3. c1 \in Nat /\ n <= c1 /\ c1 <= n + Len(g) /\ n <= n + Len(g) /\ c.o \in Int /\ c.o + Len(g) \in Nat
  BY <1>2
<1>4. pending \in Sel
  BY <1>2, <1>3, PointsAre
<1>5. Good(x, n) /\ x.fresh = n + Len(g)
  BY <1>2, <1>3, InvIs, UseIs
<1>6. Named(g) \in Text /\ Distinct(Named(g)) /\ \A y \in Names(Named(g)) : n <= y /\ y < c1
  BY NamedIs
<1> HIDE DEF n, c1, x, c, pending
<1>7. c1 <= x.fresh
  BY <1>3, <1>5
<1>8. Good(put, c1)
  BY <1>3, <1>5, <1>6, <1>7, TypedAtIs
<1> HIDE DEF put
<1>9. AtRest(ed') /\ Shown(ed', dsel')
  BY <1>1, <1>4, <1>8, TaskIs
<1>10. Picking(picker')
  BY <1>1, <1>9, RetriggerIs DEF IInv
<1>11. NoIme \in [on : BOOLEAN, at : Pt]
  BY PointsAre DEF NoIme
<1> QED BY <1>1, <1>9, <1>10, <1>11 DEF IInv

\* What a copy puts on the clipboard.
LEMMA ClipIs ==
  ASSUME IInv, Copy(Select(ed, dsel)) # <<>>
  PROVE  Clipped(ClipOf(Select(ed, dsel)))
<1> DEFINE e == Select(ed, dsel)
           k == ClipOf(e)
<1>1. Good(e, ed.fresh) /\ Fits(e.doc, e.sel.a) /\ Fits(e.doc, e.sel.f)
  BY InvIs, SelectedDom
<1> HIDE DEF e
<1>2. Fragments(Copy(e)) /\ TextContent(e) \in Seq(Text)
  BY <1>1, CopyIs, TextContentIs
<1>3. k = [frags |-> Copy(e), lines |-> TextContent(e)]
  BY DEF ClipOf
<1> HIDE DEF k
<1>4. k \in [frags : Seq(Fragment), lines : Seq(Text)]
  BY <1>2, <1>3 DEF Fragments
<1>5. k.frags = Copy(e) /\ Copy(e) # <<>>
  BY <1>3 DEF e
<1> QED BY <1>2, <1>4, <1>5 DEF Clipped, k, e

\* CopyKey.
LEMMA CopyStep ==
  ASSUME IInv, CopyKey
  PROVE  IInv'
<1>1. ed' = Select(ed, dsel) /\ clip' = ClipOf(Select(ed, dsel)) /\ Copy(Select(ed, dsel)) # <<>>
      /\ UNCHANGED <<dsel, ime, picker>>
  BY DEF CopyKey
<1>2. AtRest(ed') /\ ed'.doc = ed.doc
  BY <1>1, InvIs, SelectRests
<1>3. Shown(ed', dsel')
  BY <1>1, <1>2, InvIs, ShownAlike
<1>4. Clipped(clip')
  BY <1>1, ClipIs
<1> QED BY <1>1, <1>2, <1>3, <1>4 DEF IInv

\* CutKey.
LEMMA CutStep ==
  ASSUME IInv, CutKey
  PROVE  IInv'
<1> DEFINE e == Select(ed, dsel)
           cut == Replace(e, <<>>)
<1>1. Good(e, ed.fresh) /\ Unnamed(<<>>)
  BY InvIs, SelectedDom, EmptyText DEF Unnamed
<1>2. /\ clip' = (IF cut.threw THEN clip ELSE ClipOf(e)) /\ Copy(e) # <<>>
      /\ Task("cut", cut, CaretSel(cut.sel.a)) /\ UNCHANGED <<ime, picker>>
  BY DEF CutKey
<1>3. Clipped(clip')
  BY <1>2, ClipIs DEF IInv
<1> HIDE DEF e
<1>4. Good(cut, ed.fresh)
  BY <1>1, ReplaceIs
<1> HIDE DEF cut
<1>5. CaretSel(cut.sel.a) \in Sel
  BY <1>4, GoodIs, PointsAre, CaretSelIs
<1>6. AtRest(ed') /\ Shown(ed', dsel')
  BY <1>2, <1>4, <1>5, TaskIs
<1> QED BY <1>2, <1>3, <1>6 DEF IInv

\* The copied lines lose their marks with their names.
LEMMA PlainLines ==
  ASSUME NEW l \in Seq(Text)
  PROVE  Lines(Plain(l))
<1> DEFINE bare(t) == [j \in DOMAIN t |-> [Copied(t)[j] EXCEPT !.m = {}]]
           p == [k \in DOMAIN l |-> bare(l[k])]
<1>1. ASSUME NEW t \in Text PROVE Unnamed(bare(t))
  <2> DEFINE s == Copied(t)
             u == [j \in DOMAIN t |-> [s[j] EXCEPT !.m = {}]]
  <2>1. s \in Text /\ Unnamed(s) /\ Len(s) = Len(t) /\ Len(t) \in Nat /\ DOMAIN t = 1..Len(t)
    BY CopiedIs, CopiedUnnamed, TextIs
  <2> HIDE DEF s
  <2>2. DOMAIN s = DOMAIN t
    BY <2>1, TextIs
  <2>3. Rewritten(s, u)
    <3>1. DOMAIN u = DOMAIN s /\ u = [j \in DOMAIN s |-> u[j]]
      BY <2>2
    <3>2. ASSUME NEW j \in DOMAIN s PROVE \E m \in SUBSET Marks : u[j] = [s[j] EXCEPT !.m = m]
      <4>1. {} \in SUBSET Marks /\ u[j] = [s[j] EXCEPT !.m = {}]
        BY <2>2, <3>2
      <4> QED BY <4>1
    <3> HIDE DEF u
    <3>3. Reworked(s, u)
      BY <3>1, <3>2 DEF Reworked
    <3> QED BY <2>1, <3>3, MarksOn
  <2> HIDE DEF u
  <2>4. u \in Text /\ Names(u) = Names(s)
    BY <2>1, <2>3, SameNames
  <2> QED BY <2>1, <2>4 DEF Unnamed, u, s
<1>2. Plain(l) = p
  BY DEF Plain
<1>3. Len(l) \in Nat /\ DOMAIN l = 1..Len(l) /\ \A k \in DOMAIN l : l[k] \in Text
  BY SeqIs
<1> HIDE DEF bare
<1>4. \A k \in DOMAIN l : p[k] \in Text /\ Unnamed(p[k])
  BY <1>1, <1>3 DEF Unnamed
<1>5. p \in [1..Len(l) -> Text]
  BY <1>3, <1>4
<1> HIDE DEF p
<1>6. p \in Seq(Text) /\ DOMAIN p = 1..Len(l)
  BY <1>3, <1>5, FcnIsSeq
<1> QED BY <1>2, <1>3, <1>4, <1>6 DEF Lines

\* A structured paste that threw goes on as a paste of text.
LEMMA OrTextIs ==
  ASSUME IInv, NEW e, NEW c, Good(e, c)
  PROVE  Good(OrText(e), c)
<1> DEFINE x == [e EXCEPT !.threw = FALSE]
<1>1. FALSE \in BOOLEAN
  OBVIOUS
<1>2. Good(x, c)
  BY <1>1, ThrewIs DEF Same
<1> HIDE DEF x
<1>3. clip.lines \in Seq(Text)
  BY DEF IInv, Clipped
<1>4. Good(PasteText(x, Plain(clip.lines)), c)
  BY <1>2, <1>3, PlainLines, PasteTextIs
<1> QED BY <1>4 DEF OrText, x

\* PasteKey.
LEMMA PasteStep ==
  ASSUME IInv, NEW rich, PasteKey(rich)
  PROVE  IInv'
<1> DEFINE e == Select(ed, dsel)
           x == IF rich THEN Paste(e, clip.frags) ELSE [e EXCEPT !.threw = TRUE]
           done == OrText(x)
<1>1. Good(e, ed.fresh) /\ ~e.threw /\ Fits(e.doc, e.sel.a) /\ Fits(e.doc, e.sel.f)
  BY InvIs, SelectedDom
<1>2. Task("paste", done, CaretSel(done.sel.a)) /\ UNCHANGED <<ime, clip, picker>> /\ clip # NoClip
  BY DEF PasteKey
<1> HIDE DEF e
<1>3. Fragments(clip.frags) /\ clip.frags # <<>>
  BY <1>2 DEF IInv, Clipped
<1>4. Good(x, ed.fresh)
  <2>1. Good(Paste(e, clip.frags), ed.fresh)
    BY <1>1, <1>3, PasteIs
  <2>2. Good([e EXCEPT !.threw = TRUE], ed.fresh)
    BY <1>1, ThrewIs DEF Same
  <2> QED BY <2>1, <2>2
<1> HIDE DEF x
<1>5. Good(done, ed.fresh)
  BY <1>4, OrTextIs
<1> HIDE DEF done
<1>6. CaretSel(done.sel.a) \in Sel
  BY <1>5, GoodIs, PointsAre, CaretSelIs
<1> QED BY <1>2, <1>5, <1>6, TaskKeeps

\* ClickToDo.
LEMMA ClickStep ==
  ASSUME IInv, NEW id, ClickToDo(id)
  PROVE  IInv'
<1> DEFINE attr == IF BlockOf(ed.doc, id).attr = "checked" THEN "unchecked" ELSE "checked"
<1>1. attr \in Word
  BY WordsAre
<1>2. Task("click", SetAttr(ed, id, attr), NoSel) /\ UNCHANGED <<ime, clip, picker>>
  BY DEF ClickToDo
<1> HIDE DEF attr
<1>3. Good(SetAttr(ed, id, attr), ed.fresh)
  BY <1>1, InvIs, SetAttrStep, StepsGood
<1> QED BY <1>2, <1>3, PointsAre, TaskKeeps

LEMMA NoPickerIs == Picking(NoPicker)
BY DEF Picking, NoPicker, Root

\* PickMention.
LEMMA PickStep ==
  ASSUME IInv, PickMention("ana")
  PROVE  IInv'
<1> DEFINE x == InsertMention(ed, picker.b, picker.from, picker.to, "ana")
           pending == Point(picker.b, picker.from + 2)
<1>1. picker' = NoPicker /\ UNCHANGED <<ime, clip>> /\ (Task("pick", x, pending) \/ UNCHANGED <<ed, dsel>>)
  BY DEF PickMention
<1>2. picker.b \in Nat /\ picker.from \in Nat /\ picker.to \in Nat
  BY DEF IInv, Picking
<1>3. pending \in Sel
  <2>1. picker.from + 2 \in Nat
    BY <1>2
  <2> QED BY <1>2, <2>1, PointsAre
<1>4. Good(x, x.fresh)
  <2>1. picker.from \in Int /\ picker.to \in Int
    BY <1>2
  <2>2. "ana" \in Word
    BY WordsAre
  <2> QED BY <2>1, <2>2, InvIs, InsertMentionIs
<1> HIDE DEF x, pending
<1>5. CASE Task("pick", x, pending)
  <2>1. AtRest(ed') /\ Shown(ed', dsel')
    BY <1>3, <1>4, <1>5, TaskIs
  <2> QED BY <1>1, <2>1, NoPickerIs DEF IInv
<1>6. CASE UNCHANGED <<ed, dsel>>
  BY <1>1, <1>6, NoPickerIs DEF IInv
<1> QED BY <1>1, <1>5, <1>6

\* ClosePicker and SetEditable.
LEMMA StillStep ==
  ASSUME IInv, ClosePicker \/ \E on : SetEditable(on)
  PROVE  IInv'
BY NoPickerIs DEF IInv, ClosePicker, SetEditable

\* Command.
LEMMA CommandStep ==
  ASSUME IInv, Command
  PROVE  IInv'
<1> DEFINE b == ed.doc[1].id
           all == TextLen(ed.doc, b)
           n == Cardinality(Children(ed.doc, 0))
<1>1. /\ UNCHANGED <<ime, clip, picker>>
      /\ \/ Task("insert", BlockInsert(ed, Root, n, "paragraph", "none"), NoSel)
         \/ Task("annotate", ToggleMark(ed, b, 0, all, "comment-anchor", "thread"), NoSel)
         \/ Task("annotate", MarkUpdate(ed, b, 0, all, "link", "href"), NoSel)
         \/ \E p : Task("move", Move(ed, b, p, 1), NoSel)
         \/ Task("clear", Clear(ed), NoSel)
  BY DEF Command
<1> HIDE DEF b, all, n
<1>2. "paragraph" \in Kinds /\ {"none", "comment-anchor", "thread", "link", "href"} \subseteq Word
  BY WordsAre DEF Kinds, InlineKinds, MarkKeys
<1>3. Good(ed, ed.fresh) /\ NoSel \in Sel
  BY InvIs, PointsAre
<1>4. /\ Good(BlockInsert(ed, Root, n, "paragraph", "none"), ed.fresh)
      /\ Good(ToggleMark(ed, b, 0, all, "comment-anchor", "thread"), ed.fresh)
      /\ Good(MarkUpdate(ed, b, 0, all, "link", "href"), ed.fresh)
      /\ \A p : Good(Move(ed, b, p, 1), ed.fresh)
      /\ Good(Clear(ed), ed.fresh)
  <2>1. Good(BlockInsert(ed, Root, n, "paragraph", "none"), ed.fresh)
    <3>1. "none" \in Word
      BY <1>2
    <3>2. Steps(ed, BlockInsert(ed, Root, n, "paragraph", "none"), 1, ed.fresh, 0)
      BY <1>2, <1>3, <3>1, BlockInsertIs
    <3> QED BY <3>2, StepsGood
  <2>2. Good(ToggleMark(ed, b, 0, all, "comment-anchor", "thread"), ed.fresh)
    BY <1>2, <1>3, ToggleMarkIs, StepsGood
  <2>3. Good(MarkUpdate(ed, b, 0, all, "link", "href"), ed.fresh)
    BY <1>2, <1>3, MarkUpdateIs, StepsGood
  <2>4. \A p : Good(Move(ed, b, p, 1), ed.fresh)
    BY <1>3, MoveIs, StepsGood
  <2>5. Good(Clear(ed), ed.fresh)
    BY <1>3, ClearIs
  <2> QED BY <2>1, <2>2, <2>3, <2>4, <2>5
<1>5. CASE Task("insert", BlockInsert(ed, Root, n, "paragraph", "none"), NoSel)
  BY <1>1, <1>3, <1>4, <1>5, TaskKeeps
<1>6. CASE Task("annotate", ToggleMark(ed, b, 0, all, "comment-anchor", "thread"), NoSel)
  BY <1>1, <1>3, <1>4, <1>6, TaskKeeps
<1>7. CASE Task("annotate", MarkUpdate(ed, b, 0, all, "link", "href"), NoSel)
  BY <1>1, <1>3, <1>4, <1>7, TaskKeeps
<1>8. CASE \E p : Task("move", Move(ed, b, p, 1), NoSel)
  <2>1. PICK p : Task("move", Move(ed, b, p, 1), NoSel)
    BY <1>8
  <2> QED BY <1>1, <1>3, <1>4, <2>1, TaskKeeps
<1>9. CASE Task("clear", Clear(ed), NoSel)
  BY <1>1, <1>3, <1>4, <1>9, TaskKeeps
<1> QED BY <1>1, <1>5, <1>6, <1>7, <1>8, <1>9

(***************************************************************************)
(* A peer's edit.                                                          *)
(***************************************************************************)

\* u is d after an edit of block z that uses the name n: a block that was not
\* there before can hold text.
Renewed(u, d, n, z) ==
  Doc(u, n + 1, n + 1) /\ Stems(u, d, n, z) /\ \A k \in DOMAIN u : u[k].id >= n => u[k].rich = TRUE

\* The same edit, made in two documents that are kin, leaves them kin.
LEMMA RenewedKin ==
  ASSUME NEW n \in Nat, NEW z, NEW d1, NEW d2, Tree(d1, n, n), Tree(d2, n, n), Kin(d1, d2),
         NEW u1, NEW u2, Renewed(u1, d1, n, z), Renewed(u2, d2, n, z)
  PROVE  Kin(u1, u2)
<1>1. ASSUME NEW i \in DOMAIN u1, NEW j \in DOMAIN u2, u1[i].id = u2[j].id, HasInline(u1[i].kind)
      PROVE  u2[j].rich
  <2>1. u1[i].id \in Nat /\ u2[j].id \in Nat
    BY DocIs, BlocksAre DEF Renewed, Doc
  <2>2. \A k \in DOMAIN d1 : d1[k].id < n
    BY DEF Tree, Sound
  <2>3. \A k \in DOMAIN d2 : d2[k].id < n
    BY DEF Tree, Sound
  <2>4. CASE u1[i].id >= n
    BY <1>1, <2>1, <2>4 DEF Renewed
  <2>5. CASE ~(u1[i].id >= n)
    <3>1. PICK k \in DOMAIN d1 : Old(u1[i], d1[k], z)
      BY <2>5 DEF Renewed, Stems
    <3>2. PICK l \in DOMAIN d2 : Old(u2[j], d2[l], z)
      BY <1>1, <2>5 DEF Renewed, Stems
    <3> QED BY <1>1, <3>1, <3>2 DEF Old, Kin
  <2> QED BY <2>4, <2>5
<1> QED BY <1>1 DEF Kin

\* A document without the block is left as it is.
LEMMA UnchangedRenewed ==
  ASSUME NEW n \in Nat, NEW d, Doc(d, n, n), NEW z
  PROVE  Renewed(d, d, n, z)
<1>1. Doc(d, n + 1, n + 1)
  BY DocLater
<1>2. \A k \in DOMAIN d : ~(d[k].id >= n)
  <2>1. \A k \in DOMAIN d : d[k].id < n /\ d[k].id \in Nat
    BY BlocksAre DEF Doc, Sound
  <2> QED BY <2>1
<1> QED BY <1>1, <1>2, StemsSame DEF Renewed

\* A block a peer deletes.
LEMMA WithoutRenewed ==
  ASSUME NEW n \in Nat, n # 0, NEW d, Doc(d, n, n), NEW id, Has(d, id)
  PROVE  Renewed(Without(d, id, n), d, n, id)
<1> DEFINE i == At(d, id)
           r == Splice(d, i, LastOf(d, i), <<>>)
           u == Without(d, id, n)
           b == NewBlock(n, "paragraph", "none", 0)
<1>1. Tree(d, n, n) /\ n + 1 \in Nat /\ n < n + 1 /\ n <= n + 1 /\ n <= n
  BY DocIs
<1>2. Doc(u, n + 1, n) /\ Stems(u, d, n, id)
  BY <1>1, WithoutIs
<1>3. Doc(u, n + 1, n + 1)
  BY <1>1, <1>2, DocLater
<1>4. Tree(r, n, n)
  BY <1>1, BlockOfIs, RemovedTree
<1>5. u = IF r = <<>> THEN <<b>> ELSE r
  BY DEF Without
<1> HIDE DEF u, r
<1>6. ASSUME NEW k \in DOMAIN u, u[k].id >= n PROVE u[k].rich = TRUE
  <2>1. CASE r = <<>>
    <3>1. u = <<b>> /\ k = 1
      BY <1>5, <1>6, <2>1
    <3>2. b.rich = TRUE
      BY DEF NewBlock, HasInline, InlineKinds
    <3> HIDE DEF b
    <3> QED BY <3>1, <3>2
  <2>2. CASE r # <<>>
    <3>1. u = r
      BY <1>5, <2>2
    <3>2. u[k].id < n /\ u[k].id \in Nat
      BY <1>4, <1>6, <3>1, BlocksAre DEF Tree, Sound, Shape
    <3> QED BY <1>6, <3>2
  <2> QED BY <2>1, <2>2
<1> QED BY <1>2, <1>3, <1>6 DEF Renewed, u

\* A character a peer puts before a block's text.
LEMMA PrefixedRenewed ==
  ASSUME NEW n \in Nat, NEW d, Doc(d, n, n), NEW id, Has(d, id), BlockOf(d, id).rich
  PROVE  Renewed(SetText(d, id, <<[c |-> n, g |-> "x", m |-> {}]>> \o BlockOf(d, id).text), d, n, id)
<1> DEFINE s == <<[c |-> n, g |-> "x", m |-> {}]>>
           t == BlockOf(d, id).text
           w == s \o t
           u == SetText(d, id, w)
<1>1. Tree(d, n, n) /\ n + 1 \in Nat /\ n <= n + 1 /\ n < n + 1
  BY DocIs
<1>2. t \in Text /\ Distinct(t) /\ At(d, id) \in DOMAIN d /\ BlockOf(d, id) = d[At(d, id)] /\ \A x \in Names(t) : x < n
  BY <1>1, BlockOfIs DEF Sound
<1>3. \A k \in DOMAIN d : \A x \in Names(d[k].text) : x < n
  BY <1>1 DEF Tree, Sound
<1>4. s \in Text /\ Distinct(s) /\ Names(s) \subseteq {n}
  BY WordsAre, LetterIs
<1> HIDE DEF s, t
<1>5. Names(t) \cap {n} = {}
  BY <1>2
<1>6. Spells(w, Names(t) \cup {n})
  <2>1. Catenated(s, t, w)
    BY <1>2, <1>4, CatIs
  <2>2. Names(s) \cap Names(t) = {}
    BY <1>4, <1>5
  <2> QED BY <1>2, <1>4, <2>1, <2>2 DEF Catenated, Spells
<1>7. \A k \in DOMAIN d : Names(d[k].text) \cap {n} = {}
  BY <1>3
<1> DEFINE M == {n}
<1>8. \A x \in M : x < n + 1
  BY <1>1
<1> HIDE DEF w, M
<1>9. Tree(u, n, n + 1) /\ Stems(u, d, n, id) /\ Retexted(d, id, w, u)
  <2>1. Spells(w, Names(BlockOf(d, id).text) \cup M) /\ \A k \in DOMAIN d : k # At(d, id) => Names(d[k].text) \cap M = {}
    BY <1>6, <1>7 DEF t, M
  <2> QED BY <1>1, <1>8, <2>1, SetTextIs
<1> HIDE DEF u
<1>10. Tree(u, n + 1, n + 1)
  BY <1>1, <1>9, TreeLater
<1>11. u # <<>>
  <2>1. Len(u) = Len(d) /\ d # <<>> /\ d \in Seq(Block)
    BY <1>9 DEF Retexted, Swapped, Doc
  <2>2. Len(d) > 0 /\ u \in Seq(Block)
    BY <1>9, <2>1, BlocksAre DEF Tree, Shape
  <2> QED BY <2>1, <2>2, BlocksAre
<1>12. \A k \in DOMAIN u : ~(u[k].id >= n)
  <2>1. \A k \in DOMAIN u : u[k].id < n /\ u[k].id \in Nat
    BY <1>9, BlocksAre DEF Tree, Sound, Shape
  <2> QED BY <2>1
<1>13. Doc(u, n + 1, n + 1)
  BY <1>10, <1>11, DocIs
<1> QED BY <1>9, <1>12, <1>13 DEF Renewed, u, w, s, t

\* What a remote edit of block id makes of a document the editor knows.
Edited(kind, id, d) ==
  IF ~Has(d, id) THEN d
  ELSE IF kind = "delete" THEN Without(d, id, ed.fresh)
  ELSE SetText(d, id, <<[c |-> ed.fresh, g |-> "x", m |-> {}]>> \o BlockOf(d, id).text)

\* Either edit, in any document the editor knows.
LEMMA EditedIs ==
  ASSUME IInv, NEW kind \in RemoteEdits, NEW id, kind = "insert" => Inline(ed, id), NEW d \in Docs(ed)
  PROVE  Renewed(Edited(kind, id, d), d, ed.fresh, id)
<1>1. ed.fresh \in Nat /\ ed.fresh # 0 /\ Good(ed, ed.fresh)
  BY InvIs, FreshIs
<1>2. Doc(d, ed.fresh, ed.fresh) /\ Kin(ed.doc, d) /\ ed.doc \in Docs(ed)
  BY <1>1, GoodIs, EditorIs DEF Good
<1>3. Renewed(d, d, ed.fresh, id)
  BY <1>1, <1>2, UnchangedRenewed
<1>4. Has(d, id) => Renewed(Without(d, id, ed.fresh), d, ed.fresh, id)
  BY <1>1, <1>2, WithoutRenewed
<1>5. Has(d, id) /\ kind = "insert" => BlockOf(d, id).rich
  <2>1. SUFFICES ASSUME Has(d, id), Inline(ed, id) PROVE BlockOf(d, id).rich
    OBVIOUS
  <2>2. Live(ed, id) /\ HasInline(BlockOf(ed.doc, id).kind)
    BY <2>1 DEF Inline
  <2>3. At(d, id) \in DOMAIN d /\ d[At(d, id)].id = id
    BY <2>1, HasIs
  <2>4. At(ed.doc, id) \in DOMAIN ed.doc /\ ed.doc[At(ed.doc, id)].id = id
    BY <2>2, HasIs DEF Live
  <2> QED BY <1>2, <2>2, <2>3, <2>4 DEF Kin, BlockOf
<1>6. Has(d, id) /\ kind = "insert" =>
        Renewed(SetText(d, id, <<[c |-> ed.fresh, g |-> "x", m |-> {}]>> \o BlockOf(d, id).text), d, ed.fresh, id)
  BY <1>1, <1>2, <1>5, PrefixedRenewed
<1>7. kind = "insert" \/ kind = "delete"
  BY RemoteEditsAssumption
<1> QED BY <1>3, <1>4, <1>6, <1>7 DEF Edited

\* The steps of an undo stack, all edited.
LEMMA StackEdited ==
  ASSUME IInv, NEW kind \in RemoteEdits, NEW id, kind = "insert" => Inline(ed, id),
         NEW stack \in Seq(Seq(Block)), Range(stack) \subseteq Docs(ed)
  PROVE  LET u == [k \in DOMAIN stack |-> Edited(kind, id, stack[k])]
         IN  u \in Seq(Seq(Block)) /\ \A y \in Range(u) : \E d \in Docs(ed) : y = Edited(kind, id, d)
<1> DEFINE u == [k \in DOMAIN stack |-> Edited(kind, id, stack[k])]
<1>1. Len(stack) \in Nat /\ DOMAIN stack = 1..Len(stack)
  BY SeqIs
<1>2. \A k \in DOMAIN stack : stack[k] \in Docs(ed)
  BY DEF Range
<1>3. \A k \in DOMAIN stack : Edited(kind, id, stack[k]) \in Seq(Block)
  BY <1>2, EditedIs DEF Renewed, Doc
<1>4. u \in [1..Len(stack) -> Seq(Block)]
  BY <1>1, <1>3
<1>5. u \in Seq(Seq(Block)) /\ DOMAIN u = DOMAIN stack
  BY <1>1, <1>4, FcnIsSeq
<1>6. \A y \in Range(u) : \E d \in Docs(ed) : y = Edited(kind, id, d)
  BY <1>2 DEF Range
<1> QED BY <1>5, <1>6

\* Remote.
LEMMA RemoteStep ==
  ASSUME IInv, NEW kind \in RemoteEdits, NEW id, Remote(kind, id)
  PROVE  IInv'
<1> DEFINE over(stack) == [k \in DOMAIN stack |-> Edited(kind, id, stack[k])]
           x == [ed EXCEPT !.doc = Edited(kind, id, ed.doc), !.past = over(ed.past), !.future = over(ed.future),
                           !.fresh = ed.fresh + 1]
<1>1. kind = "insert" => Inline(ed, id)
  BY DEF Remote
<1>2. ed \in Editors /\ ed.fresh \in Nat /\ Good(ed, ed.fresh) /\ ed.fresh + 1 \in Nat
  BY InvIs, GoodIs
<1>3. /\ ed.doc \in Docs(ed) /\ Range(ed.past) \subseteq Docs(ed) /\ Range(ed.future) \subseteq Docs(ed)
      /\ ed.past \in Seq(Seq(Block)) /\ ed.future \in Seq(Seq(Block))
  BY <1>2, EditorIs
<1>4. Task("remote", x, NoSel) /\ UNCHANGED <<ime, clip, picker>>
  <2> DEFINE edit(d) ==
               IF ~Has(d, id) THEN d
               ELSE IF kind = "delete" THEN Without(d, id, ed.fresh)
               ELSE SetText(d, id, <<[c |-> ed.fresh, g |-> "x", m |-> {}]>> \o BlockOf(d, id).text)
             put == [ed EXCEPT !.doc = edit(ed.doc), !.past = [k \in DOMAIN ed.past |-> edit(ed.past[k])],
                               !.future = [k \in DOMAIN ed.future |-> edit(ed.future[k])]]
  <2>1. Task("remote", Use(put, 1), NoSel) /\ UNCHANGED <<ime, clip, picker>>
    BY DEF Remote
  <2>2. \A d : edit(d) = Edited(kind, id, d)
    BY DEF Edited
  <2> HIDE DEF edit
  <2>3. put = [ed EXCEPT !.doc = Edited(kind, id, ed.doc), !.past = over(ed.past), !.future = over(ed.future)]
    BY <2>2
  <2> HIDE DEF put, over
  <2>4. Use(put, 1) = x
    BY <1>2, <2>3 DEF Use, Editors
  <2> QED BY <2>1, <2>4
<1>5. over(ed.past) \in Seq(Seq(Block)) /\ \A y \in Range(over(ed.past)) : \E d \in Docs(ed) : y = Edited(kind, id, d)
  BY <1>1, <1>3, StackEdited
<1>6. over(ed.future) \in Seq(Seq(Block)) /\ \A y \in Range(over(ed.future)) : \E d \in Docs(ed) : y = Edited(kind, id, d)
  BY <1>1, <1>3, StackEdited
<1> HIDE DEF over
<1>7. Edited(kind, id, ed.doc) \in Seq(Block)
  BY <1>1, <1>3, EditedIs DEF Renewed, Doc
<1>8. /\ x \in Editors /\ x.doc = Edited(kind, id, ed.doc) /\ x.past = over(ed.past) /\ x.future = over(ed.future)
      /\ x.fresh = ed.fresh + 1
  BY <1>2, <1>5, <1>6, <1>7 DEF Editors
<1> HIDE DEF x
<1>9. \A y \in Docs(x) : \E d \in Docs(ed) : y = Edited(kind, id, d)
  BY <1>3, <1>5, <1>6, <1>8 DEF Docs
<1>10. \A y \in Docs(x) : Doc(y, x.fresh, x.fresh)
  BY <1>1, <1>8, <1>9, EditedIs DEF Renewed
<1>11. ASSUME NEW y1 \in Docs(x), NEW y2 \in Docs(x) PROVE Kin(y1, y2)
  <2>1. PICK d1 \in Docs(ed) : y1 = Edited(kind, id, d1)
    BY <1>9
  <2>2. PICK d2 \in Docs(ed) : y2 = Edited(kind, id, d2)
    BY <1>9
  <2>3. Tree(d1, ed.fresh, ed.fresh) /\ Tree(d2, ed.fresh, ed.fresh) /\ Kin(d1, d2)
    BY <1>2, DocIs DEF Good
  <2>4. Renewed(y1, d1, ed.fresh, id) /\ Renewed(y2, d2, ed.fresh, id)
    BY <1>1, <2>1, <2>2, EditedIs
  <2> QED BY <1>2, <2>3, <2>4, RenewedKin
<1>12. Good(x, x.fresh)
  BY <1>2, <1>8, <1>10, <1>11 DEF Good
<1> QED BY <1>4, <1>12, PointsAre, TaskKeeps

\* A document a session may open with.
LEMMA PageIs ==
  ASSUME NEW d, NEW n \in Nat, IsDocument(d, n)
  PROVE  Doc(d, n, n)
<1>1. d \in Seq(Block) /\ d # <<>> /\ IsOutline(d) /\ NamedOnce(d)
  BY DEF IsDocument
<1>2. Rooted(d) /\ Nested(d)
  BY <1>1 DEF IsOutline, Rooted, Nested
<1>3. \A i, j \in DOMAIN d : i # j => d[i].id # d[j].id
  BY <1>1 DEF IsOutline
<1>4. ASSUME NEW i \in DOMAIN d, NEW j \in DOMAIN d, i # j PROVE Names(d[i].text) \cap Names(d[j].text) = {}
  BY <1>1, <1>4 DEF NamedOnce, Names
<1>5. ASSUME NEW i \in DOMAIN d PROVE Sound(d[i], n, n)
  <2>1. Distinct(d[i].text)
    BY <1>1 DEF NamedOnce, Distinct
  <2>2. \A x \in Names(d[i].text) : x < n
    BY DEF IsDocument, Names
  <2>3. d[i] \in Block /\ d[i].id < n /\ (HasInline(d[i].kind) \/ d[i].text # <<>> => d[i].rich)
    BY <1>1, BlocksAre DEF IsDocument
  <2> QED BY <2>1, <2>2, <2>3 DEF Sound
<1> QED BY <1>1, <1>2, <1>3, <1>4, <1>5 DEF Doc, AllApart, Apart

\* The session opens with a page and nothing to undo.
LEMMA InitIs ==
  ASSUME Init
  PROVE  IInv
<1>1. PICK d \in Pages : ed = NewEditor(d, FirstFresh)
  BY DEF Init
<1>2. FirstFresh \in Nat
  BY DEF FirstFresh
<1>3. Doc(d, FirstFresh, FirstFresh)
  BY <1>2, PagesAssumption, PageIs
<1>4. /\ ed = [doc |-> d, sel |-> NoSel, past |-> <<>>, future |-> <<>>, run |-> FALSE,
               group |-> "none", threw |-> FALSE, fresh |-> FirstFresh]
  BY <1>1 DEF NewEditor
<1> HIDE DEF FirstFresh
<1>5. d \in Seq(Block) /\ AllApart(d)
  BY <1>3 DEF Doc
<1>6. ed \in Editors /\ ed.fresh = FirstFresh /\ ed.threw = FALSE /\ ed.group = "none" /\ ed.doc = d
  BY <1>2, <1>4, <1>5, PointsAre DEF Editors
<1>7. Docs(ed) = {d}
  BY <1>4 DEF Docs, Range
<1>8. Kin(d, d)
  BY <1>3 DEF Doc, Sound, Kin, AllApart, Apart
<1>9. Good(ed, ed.fresh)
  BY <1>2, <1>3, <1>6, <1>7, <1>8 DEF Good
<1>10. AtRest(ed)
  BY <1>6, <1>9 DEF AtRest
<1>11. Shown(ed, dsel)
  BY <1>9, FitsIs DEF Init
<1>12. ime \in [on : BOOLEAN, at : Pt]
  BY PointsAre DEF Init, NoIme
<1>13. Clipped(clip)
  <2>1. NoClip \in [frags : Seq(Fragment), lines : Seq(Text)] /\ NoClip.frags = <<>>
    BY DEF NoClip
  <2>2. Fragments(<<>>)
    BY DEF Fragments, Rooted, Nested
  <2> QED BY <2>1, <2>2 DEF Clipped, Init
<1>14. Picking(picker)
  BY NoPickerIs DEF Init
<1> QED BY <1>10, <1>11, <1>12, <1>13, <1>14 DEF IInv

\* Every step keeps the invariant.
LEMMA StepIs ==
  ASSUME IInv, [Next]_vars
  PROVE  IInv'
<1>1. CASE (\E g \in Typings : Type(g)) \/ \E g \in Typings \union {<<>>} : CompositionEnd(g)
  BY <1>1, TypeStep, CompositionEndStep
<1>2. CASE EnterKey \/ LineBreakKey \/ DeleteBy
  BY <1>2, EnterStep, LineBreakStep, DeleteByStep
<1>3. CASE \E unit \in Units, forward \in BOOLEAN : DeleteKey(unit, forward)
  BY <1>3, DeleteStep
<1>4. CASE \E b \in BOOLEAN : HistoryKey(b) \/ Tab(b) \/ PasteKey(b)
  BY <1>4, HistoryStep, TabStep, PasteStep
<1>5. CASE MarkKey \/ ClearKey \/ SelectAllKey
  BY <1>5, MarkStep, SelectAllStep
<1>6. CASE CompositionStart \/ CopyKey \/ CutKey
  BY <1>6, CompositionStartStep, CopyStep, CutStep
<1>7. CASE (\E s \in Ranges(ed) : MoveSelection(s)) \/ Focus
  BY <1>7, MoveStep, FocusStep
<1>8. CASE \E id \in IdsOf(ed.doc) : ClickToDo(id)
  BY <1>8, ClickStep
<1>9. CASE PickMention("ana") \/ ClosePicker \/ \E b \in BOOLEAN : SetEditable(b)
  BY <1>9, PickStep, StillStep
<1>10. CASE Command
  BY <1>10, CommandStep
<1>11. CASE \E kind \in RemoteEdits, id \in IdsOf(ed.doc) : Remote(kind, id)
  BY <1>11, RemoteStep
<1>12. CASE UNCHANGED vars
  BY <1>12 DEF vars, IInv
<1> QED BY <1>1, <1>2, <1>3, <1>4, <1>5, <1>6, <1>7, <1>8, <1>9, <1>10, <1>11, <1>12 DEF Next

\* The invariant holds what TypeOK asks for.
LEMMA TypeIs ==
  ASSUME IInv
  PROVE  TypeOK
<1>1. Good(ed, ed.fresh) /\ ~ed.threw /\ ed.group = "none" /\ Picking(picker)
  BY InvIs DEF IInv
<1>2. ASSUME NEW d, NEW n \in Nat, Doc(d, n, n) PROVE IsDocument(d, n)
  <2>1. d \in Seq(Block) /\ d # <<>> /\ Rooted(d) /\ Nested(d) /\ AllApart(d) /\ \A i \in DOMAIN d : Sound(d[i], n, n)
    BY <1>2 DEF Doc
  <2>2. IsOutline(d)
    BY <2>1 DEF IsOutline, Rooted, Nested, AllApart, Apart
  <2>3. NamedOnce(d)
    <3>1. SUFFICES ASSUME NEW i \in DOMAIN d, NEW j \in DOMAIN d, NEW k \in DOMAIN d[i].text, NEW l \in DOMAIN d[j].text,
                          d[i].text[k].c = d[j].text[l].c, d[i].text[k].c # 0
                   PROVE  i = j /\ k = l
      BY DEF NamedOnce
    <3>2. d[i].text[k].c \in Names(d[i].text) /\ d[i].text[k].c \in Names(d[j].text)
      BY <3>1 DEF Names
    <3>3. i = j
      BY <2>1, <3>2 DEF AllApart, Apart
    <3> QED BY <2>1, <3>1, <3>3 DEF Sound, Distinct
  <2>4. ASSUME NEW i \in DOMAIN d, NEW k \in DOMAIN d[i].text PROVE d[i].text[k].c < n
    <3>1. d[i].text \in Text /\ d[i].text[k].c \in Nat
      <4>1. d[i].text \in Text
        BY <2>1, BlocksAre
      <4> QED BY <4>1, TextIs
    <3>2. CASE d[i].text[k].c = 0
      <4>1. d[i].id \in Nat /\ d[i].id # 0 /\ d[i].id < n
        BY <2>1, BlocksAre DEF Sound
      <4> QED BY <1>2, <3>2, <4>1
    <3>3. CASE d[i].text[k].c # 0
      BY <2>1, <3>3 DEF Names, Sound
    <3> QED BY <3>2, <3>3
  <2> QED BY <2>1, <2>2, <2>3, <2>4 DEF IsDocument, Sound
<1>3. \A d \in Docs(ed) : IsDocument(d, ed.fresh)
  <2>1. ed.fresh \in Nat /\ \A d \in Docs(ed) : Doc(d, ed.fresh, ed.fresh)
    BY <1>1, GoodIs DEF Good
  <2> QED BY <1>2, <2>1
<1> QED BY <1>1, <1>3 DEF TypeOK, Docs, Picking

(***************************************************************************)
(* The caret behind what was typed.                                        *)
(***************************************************************************)

\* The last character put into a text stands as far behind the place as there
\* were characters.
LEMMA PutEnd ==
  ASSUME NEW t \in Text, NEW o \in 0..Len(t), NEW s \in Text, Len(s) > 0
  PROVE  Put(t, o, s)[o + Len(s)] = s[Len(s)]
<1> DEFINE x == Slice(t, 0, o)
           y == Slice(t, o, Len(t))
           xs == x \o s
<1>1. Len(t) \in Nat /\ Len(s) \in Nat /\ o \in Nat /\ o <= Len(t) /\ 0 \in Nat
  BY TextIs
<1>2. x \in Text /\ y \in Text /\ Len(x) = o
  <2>1. Sliced(t, 0, o, x) /\ Sliced(t, o, Len(t), y)
    BY <1>1, SliceIs
  <2> HIDE DEF x, y
  <2> QED BY <1>1, <2>1 DEF Sliced
<1> HIDE DEF x, y
<1>3. Joined(Char, x, s, xs)
  BY <1>2, Concat DEF Text
<1>4. xs \in Seq(Char) /\ Len(xs) = o + Len(s) /\ xs[o + Len(s)] = s[Len(s)]
  <2>1. Len(s) \in 1..Len(s)
    BY <1>1
  <2> HIDE DEF xs
  <2> QED BY <1>2, <1>3, <2>1 DEF Joined
<1> HIDE DEF xs
<1>5. Joined(Char, xs, y, xs \o y)
  BY <1>2, <1>4, Concat DEF Text
<1>6. (xs \o y)[o + Len(s)] = xs[o + Len(s)]
  <2>1. o + Len(s) \in 1..Len(xs)
    BY <1>1, <1>4
  <2> QED BY <1>5, <2>1 DEF Joined
<1>7. Put(t, o, s) = xs \o y
  BY DEF Put, xs, x, y
<1> QED BY <1>4, <1>6, <1>7

\* The same for typed text, which takes over the marks beside it.
LEMMA TypedEnd ==
  ASSUME NEW t \in Text, NEW o \in 0..Len(t), NEW s \in Text, Len(s) > 0
  PROVE  Typed(t, o, s)[o + Len(s)].c = s[Len(s)].c
<1> DEFINE r == [k \in DOMAIN s |-> [s[k] EXCEPT !.m = Inherited(t, o)]]
<1>1. Rewritten(s, r)
  <2>1. \A k \in DOMAIN s : \E m \in SUBSET Marks : r[k] = [s[k] EXCEPT !.m = m]
    BY InheritedIs
  <2>2. DOMAIN r = DOMAIN s /\ r = [k \in DOMAIN s |-> r[k]]
    OBVIOUS
  <2> HIDE DEF r
  <2>3. Reworked(s, r)
    BY <2>1, <2>2 DEF Reworked
  <2> QED BY <2>3, MarksOn
<1> HIDE DEF r
<1>2. r \in Text /\ Len(r) = Len(s) /\ Len(s) \in DOMAIN s
  <2>1. Len(s) \in Nat /\ DOMAIN s = 1..Len(s)
    BY TextIs
  <2> QED BY <1>1, <2>1 DEF Rewritten
<1>3. Put(t, o, r)[o + Len(r)] = r[Len(r)]
  BY <1>2, PutEnd
<1>4. Typed(t, o, s) = Put(t, o, r)
  BY DEF Typed, r
<1> QED BY <1>1, <1>2, <1>3, <1>4 DEF Rewritten

\* The editor x shows the character named c in front of offset o of block id.
Behind(x, id, o, c) ==
  /\ Inline(x, id) /\ o \in Nat /\ o > 0 /\ o <= TextLen(x.doc, id)
  /\ TextOf(x, id)[o].c = c

\* Text that went in ends where its length says.
LEMMA InsertBehind ==
  ASSUME NEW e, NEW c, Good(e, c), NEW c1 \in Nat, c <= c1, c1 <= e.fresh, NEW id, NEW o \in Int,
         NEW s, Insertable(e.doc, s, c1), Len(s) > 0, ~TextInsert(e, id, o, s).threw
  PROVE  LET x == TextInsert(e, id, o, s)
             at == Clamp(o, 0, TextLen(e.doc, id))
         IN  /\ Good(x, c1) /\ ~e.threw /\ Live(e, id) /\ at \in 0..TextLen(e.doc, id) /\ Len(s) \in Nat
             /\ TextLen(x.doc, id) = TextLen(e.doc, id) + Len(s)
             /\ Behind(x, id, at + Len(s), s[Len(s)].c)
<1> DEFINE d == e.doc
           t == BlockOf(d, id).text
           hi == TextLen(d, id)
           at == Clamp(o, 0, hi)
           w == Typed(t, at, s)
           u == SetText(d, id, w)
           ok == Inline(e, id)
           x == TextInsert(e, id, o, s)
<1>1. x = Do(e, ok, u, TRUE)
  BY DEF TextInsert
<1>2. Good(x, c1)
  <2>1. Steps(e, x, 0, c1, id)
    BY TextInsertIs
  <2> HIDE DEF x
  <2> QED BY <2>1, StepsGood
<1>3. ok /\ ~e.threw
  <2> HIDE DEF ok, u
  <2>1. ~x.threw /\ e \in Editors
    BY GoodIs
  <2> HIDE DEF x
  <2>2. ~e.threw
    BY <1>1, <2>1 DEF Do
  <2>3. ok
    <3>1. SUFFICES ASSUME ~ok PROVE x.threw
      BY <2>1
    <3>2. x = [e EXCEPT !.threw = TRUE]
      BY <1>1, <2>2, <3>1 DEF Do
    <3> QED BY <2>1, <3>2 DEF Editors
  <2> QED BY <2>2, <2>3
<1>4. Live(e, id) /\ BlockOf(d, id).rich /\ Has(d, id)
  BY <1>3, RichIs DEF Live
<1>5. t \in Text /\ hi = Len(t) /\ Len(t) \in Nat /\ Spells(t, Names(t)) /\ Tree(d, e.fresh, c)
  BY <1>4, LiveIs
<1>6. at \in 0..hi
  <2> HIDE DEF hi
  <2>1. hi \in Int /\ 0 \in Int /\ 0 <= hi
    BY <1>5
  <2> QED BY <2>1, ClampIs
<1>7. s \in Text /\ Len(s) \in Nat /\ s[Len(s)].c \in Nat /\ Spells(s, Names(s)) /\ \A y \in Names(s) : y < c1
  <2>1. s \in Text /\ Distinct(s) /\ \A y \in Names(s) : y < c1
    BY DEF Insertable
  <2>2. Len(s) \in Nat /\ Len(s) \in DOMAIN s
    BY <2>1, TextIs
  <2> QED BY <2>1, <2>2, TextIs DEF Spells
<1>8. \A k \in DOMAIN d : Names(d[k].text) \cap Names(s) = {}
  BY DEF Insertable
<1>9. Names(t) \cap Names(s) = {}
  BY <1>4, <1>8, LiveIs
<1>10. x.doc = u
  BY <1>1, <1>3, <1>2, GoodIs DEF Do, Commit, Editors
<1> HIDE DEF x, ok
<1>11. Spells(w, Names(t) \cup Names(s)) /\ Len(w) = hi + Len(s) /\ w[at + Len(s)].c = s[Len(s)].c
  <2> HIDE DEF t, at, hi
  <2> QED BY <1>5, <1>6, <1>7, <1>9, TypedIs, TypedEnd
<1> HIDE DEF w
<1>12. Retexted(d, id, w, u)
  <2>1. e.fresh \in Nat /\ c \in Nat
    BY FreshIs
  <2> QED BY <1>4, <1>5, <1>7, <1>8, <1>11, <2>1, SetTextIs DEF t
<1>13. Has(u, id) /\ BlockOf(u, id).text = w /\ TextLen(u, id) = hi + Len(s) /\ HasInline(BlockOf(u, id).kind)
  <2>1. BlockOf(d, id) \in Block /\ HasInline(BlockOf(d, id).kind)
    BY <1>3, <1>4, LiveIs DEF Sound, Inline, ok
  <2>2. [BlockOf(d, id) EXCEPT !.text = w].text = w /\ [BlockOf(d, id) EXCEPT !.text = w].kind = BlockOf(d, id).kind
    BY <2>1 DEF Block
  <2> QED BY <1>11, <1>12, <2>1, <2>2 DEF Retexted
<1> HIDE DEF u
<1>14. Behind(x, id, at + Len(s), s[Len(s)].c)
  <2>1. Inline(x, id) /\ TextOf(x, id) = w
    BY <1>10, <1>13 DEF Inline, Live, TextOf
  <2>2. at + Len(s) \in Nat /\ at + Len(s) > 0 /\ at + Len(s) <= hi + Len(s)
    BY <1>5, <1>6, <1>7
  <2> HIDE DEF at, hi
  <2> QED BY <1>10, <1>11, <1>13, <2>1, <2>2 DEF Behind
<1> QED BY <1>2, <1>3, <1>4, <1>6, <1>7, <1>10, <1>13, <1>14 DEF x

\* A caret that is written back stays, or comes to the end of its block.
LEMMA WrittenThere ==
  ASSUME NEW e, NEW c, Good(e, c), NEW id, Inline(e, id), NEW o \in Nat
  PROVE  Written(e, Point(id, o)) = Point(id, IF o > TextLen(e.doc, id) THEN TextLen(e.doc, id) ELSE o)
<1> DEFINE fit(p) == Caret(p.b, IF p.o > ShownLen(e, p.b) THEN ShownLen(e, p.b) ELSE p.o)
           m == IF o > TextLen(e.doc, id) THEN TextLen(e.doc, id) ELSE o
           s == Point(id, o)
           r == Point(id, m)
<1>1. s.a = Caret(id, o) /\ s.f = Caret(id, o) /\ r.a = Caret(id, m) /\ r.f = Caret(id, m) /\ r = At2(r.f, r.f)
  BY DEF Point, At2
<1>2. Caret(id, o).b = id /\ Caret(id, o).o = o
  BY DEF Caret
<1>3. fit(s.a) = Caret(id, m) /\ fit(s.f) = Caret(id, m)
  <2>1. ShownLen(e, id) = TextLen(e.doc, id)
    BY ShownLenIs
  <2> QED BY <1>1, <1>2, <2>1
<1>4. Written(e, s) = IF Ordered(e, At2(fit(s.a), fit(s.f))) = At2(fit(s.a), fit(s.f)) THEN At2(fit(s.a), fit(s.f))
                      ELSE At2(fit(s.f), fit(s.f))
  <2> DEFINE w == At2(fit(s.a), fit(s.f))
  <2>1. Written(e, s) = IF Ordered(e, w) = w THEN w ELSE At2(w.f, w.f)
    BY DEF Written
  <2>2. w.f = fit(s.f)
    BY DEF At2
  <2> QED BY <2>1, <2>2
<1> HIDE DEF fit, m
<1>5. Written(e, s) = At2(Caret(id, m), Caret(id, m))
  BY <1>3, <1>4
<1> QED BY <1>1, <1>5 DEF m

\* The names of a document.
LEMMA NamesBelow ==
  ASSUME NEW e, NEW c, Good(e, c)
  PROVE  NamesOf(e.doc) \subseteq Nat /\ (\A y \in NamesOf(e.doc) : y < c)
         /\ \A id : \A k \in DOMAIN TextOf(e, id) : TextOf(e, id)[k].c # 0 => TextOf(e, id)[k].c \in NamesOf(e.doc)
<1>1. e.fresh \in Nat /\ c \in Nat /\ Tree(e.doc, e.fresh, c)
  BY GoodIs
<1>2. ASSUME NEW y \in NamesOf(e.doc) PROVE y \in Nat /\ y < c
  <2>1. PICK i \in DOMAIN e.doc : y \in Names(e.doc[i].text)
    BY DEF NamesOf, CharsOf, Names
  <2>2. Sound(e.doc[i], e.fresh, c)
    BY <1>1 DEF Tree
  <2> QED BY <1>1, <2>1, <2>2, SoundIs
<1>3. ASSUME NEW id, NEW k \in DOMAIN TextOf(e, id), TextOf(e, id)[k].c # 0 PROVE TextOf(e, id)[k].c \in NamesOf(e.doc)
  <2>1. CASE Live(e, id)
    <3>1. TextOf(e, id) = e.doc[At(e.doc, id)].text /\ At(e.doc, id) \in DOMAIN e.doc
      BY <2>1, LiveIs DEF TextOf
    <3> QED BY <1>3, <3>1 DEF NamesOf, CharsOf
  <2>2. CASE ~Live(e, id)
    <3>1. TextOf(e, id) = <<>>
      BY <2>2 DEF TextOf
    <3>2. DOMAIN <<>> = {}
      BY EmptyText, TextIs
    <3> QED BY <1>3, <3>1, <3>2
  <2> QED BY <2>1, <2>2
<1> QED BY <1>2, <1>3

\* The caret stands behind the newest character.
Follows ==
  /\ Collapsed(dsel') /\ dsel'.a.o > 0
  /\ TextOf(ed', dsel'.a.b)[dsel'.a.o].c = Max(NamesOf(ed'.doc) \ NamesOf(ed.doc))

\* Where a task asks for the caret behind the last character it put in, there it is.
LEMMA TaskFollows ==
  ASSUME IInv, NEW what, NEW e, NEW n \in Nat, ed.fresh <= n, Good(e, n + 1), NEW id, NEW o \in Nat,
         Task(what, e, Point(id, o)), ~e.threw,
         Behind(e, id, IF o > TextLen(e.doc, id) THEN TextLen(e.doc, id) ELSE o, n)
  PROVE  Follows
<1> DEFINE x == [e EXCEPT !.threw = FALSE, !.group = "none"]
           s == Point(id, o)
           m == IF o > TextLen(e.doc, id) THEN TextLen(e.doc, id) ELSE o
           new == NamesOf(x.doc) \ NamesOf(ed.doc)
<1>1. ed' = x /\ dsel' = Flushed(ed, e, s, dsel)
  BY DEF Task
<1>2. x.doc = e.doc
  BY OverIsAtRest
<1>3. Inline(e, id) /\ Live(e, id) /\ id # 0 /\ m \in Nat /\ m > 0 /\ m <= TextLen(e.doc, id) /\ TextOf(e, id)[m].c = n
  <2>1. Behind(e, id, m, n)
    OBVIOUS
  <2> HIDE DEF m
  <2> QED BY <2>1, LiveIs DEF Behind, Inline
<1> HIDE DEF x
<1>4. dsel' = Point(id, m)
  <2>1. s # NoSel /\ Known(e, s)
    BY <1>3 DEF Known, Point, At2, Caret, NoSel, NoCaret, Root
  <2>2. Flushed(ed, e, s, dsel) = Written(e, s)
    BY <2>1 DEF Flushed
  <2> QED BY <1>1, <1>3, <2>2, WrittenThere
<1> HIDE DEF m, s
<1>5. TextOf(x, id) = TextOf(e, id) /\ TextOf(x, id)[m].c = n
  BY <1>2, <1>3 DEF TextOf, Live
<1>6. Max(new) = n
  <2>1. ed.fresh \in Nat /\ Good(ed, ed.fresh)
    BY InvIs
  <2>2. m \in DOMAIN TextOf(e, id)
    <3>1. TextOf(e, id) \in Text /\ TextLen(e.doc, id) = Len(TextOf(e, id))
      BY <1>3, LiveIs DEF TextOf
    <3> QED BY <1>3, <3>1, TextIs
  <2>3. n # 0
    BY <2>1, FreshIs
  <2>4. n \in NamesOf(x.doc)
    BY <1>2, <1>3, <2>2, <2>3, NamesBelow
  <2>5. n \notin NamesOf(ed.doc)
    <3>1. \A y \in NamesOf(ed.doc) : y < ed.fresh
      BY <2>1, NamesBelow
    <3> QED BY <2>1, <3>1
  <2>6. \A y \in new : y \in Nat /\ y <= n
    <3>1. \A y \in NamesOf(x.doc) : y \in Nat /\ y < n + 1
      BY <1>2, NamesBelow
    <3> QED BY <3>1
  <2>7. n \in new
    BY <2>4, <2>5
  <2> HIDE DEF new
  <2>8. Max(new) \in new /\ n <= Max(new)
    BY <2>6, <2>7, MaxIs
  <2> QED BY <2>6, <2>8
<1>7. dsel'.a = Caret(id, m) /\ dsel'.f = Caret(id, m) /\ Caret(id, m).b = id /\ Caret(id, m).o = m
  BY <1>4 DEF Point, At2, Caret
<1>8. ed' = x
  BY <1>1
<1> QED BY <1>3, <1>5, <1>6, <1>7, <1>8 DEF Follows, Collapsed, new

\* What a handler answers: unless it threw, its caret is behind the character named n.
Within(e, p) == IF p.o > TextLen(e.doc, p.b) THEN TextLen(e.doc, p.b) ELSE p.o
Reaches(r, n) == ~r.e.threw => Behind(r.e, r.at.b, Within(r.e, r.at), n)

\* Text put in at a caret, which moves on by the length of the text.
LEMMA InsertReaches ==
  ASSUME NEW e, NEW c, Good(e, c), NEW c1 \in Nat, c <= c1, c1 <= e.fresh, NEW p \in Pt,
         NEW s, Insertable(e.doc, s, c1), Len(s) > 0
  PROVE  LET r == Result(TextInsert(e, p.b, p.o, s), Caret(p.b, p.o + Len(s)))
         IN  /\ Reaches(r, s[Len(s)].c)
             /\ ~r.e.threw => /\ Good(r.e, c1) /\ Len(s) \in Nat
                              /\ TextLen(e.doc, p.b) <= p.o => TextLen(r.e.doc, p.b) <= p.o + Len(s)
<1> DEFINE x == TextInsert(e, p.b, p.o, s)
           q == Caret(p.b, p.o + Len(s))
           r == Result(x, q)
           hi == TextLen(e.doc, p.b)
           at == Clamp(p.o, 0, hi)
<1>1. r.e = x /\ r.at = q /\ q.b = p.b /\ q.o = p.o + Len(s)
  BY DEF Result, Caret
<1> HIDE DEF r, q
<1>2. p.o \in Nat /\ p.o \in Int
  BY PointsAre
<1>3. ASSUME ~x.threw
      PROVE  /\ Good(x, c1) /\ Len(s) \in Nat /\ at \in 0..hi /\ TextLen(x.doc, p.b) = hi + Len(s)
             /\ Behind(x, p.b, at + Len(s), s[Len(s)].c) /\ Live(e, p.b)
  BY <1>2, <1>3, InsertBehind
<1>4. ASSUME ~x.threw PROVE Within(x, q) = at + Len(s) /\ (hi <= p.o => hi + Len(s) <= p.o + Len(s))
  <2>1. hi \in Nat
    BY PlacesAre
  <2>2. at = IF p.o > hi THEN hi ELSE p.o
    <3> HIDE DEF hi
    <3> QED BY <1>2, <2>1 DEF Clamp
  <2> HIDE DEF at, x, hi
  <2>3. Within(x, q) = IF p.o + Len(s) > hi + Len(s) THEN hi + Len(s) ELSE p.o + Len(s)
    BY <1>1, <1>3, <1>4 DEF Within
  <2> QED BY <1>2, <1>3, <1>4, <2>1, <2>2, <2>3
<1> HIDE DEF x, at, hi
<1> QED BY <1>1, <1>3, <1>4 DEF Reaches, x, hi, r, q

\* Marking a stretch of a block leaves its characters.
LEMMA ToggledSame ==
  ASSUME NEW e, NEW c, Good(e, c), NEW id, Live(e, id), NEW a, NEW b, NEW key \in Word, NEW val \in Word
  PROVE  LET x == ToggleMark(e, id, a, b, key, val)
         IN  /\ Live(x, id) /\ TextLen(x.doc, id) = TextLen(e.doc, id) /\ (Inline(e, id) => Inline(x, id))
             /\ \A k \in DOMAIN TextOf(e, id) : TextOf(x, id)[k].c = TextOf(e, id)[k].c
             /\ ~x.threw => ~e.threw
<1> DEFINE t == BlockOf(e.doc, id).text
           w == Toggled(t, a, b, key, val)
           u == SetText(e.doc, id, w)
           on == Covers(t, a, b, key)
           valid == key \in {"bold", "code"} \/ val # "none" \/ on
           ok == Rich(e, id) /\ b <= Len(t) /\ valid
           x == ToggleMark(e, id, a, b, key, val)
<1>1. x = Do(e, TRUE, e.doc, FALSE) \/ x = Do(e, ok, u, FALSE)
  BY DEF ToggleMark
<1>2. /\ Has(e.doc, id) /\ t \in Text /\ Spells(t, Names(t)) /\ Tree(e.doc, e.fresh, c) /\ TextLen(e.doc, id) = Len(t)
      /\ e.fresh \in Nat /\ c \in Nat /\ e \in Editors
  BY LiveIs, GoodIs
<1>3. Rewritten(t, w)
  <2> HIDE DEF t
  <2> QED BY <1>2, ToggledIs
<1>4. ok => BlockOf(e.doc, id).rich
  BY DEF Rich
<1>5. Spells(w, Names(t)) /\ Len(w) = Len(t) /\ \A k \in DOMAIN t : w[k].c = t[k].c
  BY <1>2, <1>3, SameNames DEF Rewritten
<1> HIDE DEF w, ok
<1>6. ok => Has(u, id) /\ BlockOf(u, id).text = w /\ TextLen(u, id) = Len(t) /\ BlockOf(u, id).kind = BlockOf(e.doc, id).kind
  <2>1. ok => Retexted(e.doc, id, w, u)
    BY <1>2, <1>4, <1>5, RetextIs
  <2>2. BlockOf(e.doc, id) \in Block
    BY LiveIs DEF Sound
  <2>3. /\ [BlockOf(e.doc, id) EXCEPT !.text = w].text = w
        /\ [BlockOf(e.doc, id) EXCEPT !.text = w].kind = BlockOf(e.doc, id).kind
    BY <2>2 DEF Block
  <2> QED BY <1>5, <2>1, <2>3 DEF Retexted
<1> HIDE DEF u
<1>7. (x.doc = e.doc \/ (ok /\ x.doc = u)) /\ (~x.threw => ~e.threw)
  <2> HIDE DEF x
  <2>1. \A y, d : y = Do(e, TRUE, d, FALSE) => (y.doc = e.doc \/ y.doc = d) /\ (~y.threw => ~e.threw)
    BY <1>2 DEF Do, Commit, Editors
  <2>2. \A y : y = Do(e, ok, u, FALSE) => (y.doc = e.doc \/ (ok /\ y.doc = u)) /\ (~y.threw => ~e.threw)
    BY <1>2 DEF Do, Commit, Editors
  <2> QED BY <1>1, <2>1, <2>2
<1> HIDE DEF x
<1>8. CASE x.doc = e.doc
  BY <1>2, <1>7, <1>8 DEF Inline, Live, TextOf, x
<1>9. CASE ok /\ x.doc = u
  <2>1. Live(x, id) /\ TextOf(x, id) = w /\ TextOf(e, id) = t /\ (Inline(e, id) => Inline(x, id))
    BY <1>6, <1>9 DEF Inline, Live, TextOf
  <2> QED BY <1>2, <1>5, <1>6, <1>7, <1>9, <2>1 DEF x
<1> QED BY <1>7, <1>8, <1>9

\* A caret no character of its block is behind.
AtEnd(e, q) == TextLen(e.doc, q.b) <= q.o

\* An inline shortcut completed at the end of a block leaves the caret there.
LEMMA InlineReaches ==
  ASSUME NEW e, NEW c, Good(e, c), ~e.threw, NEW q \in Pt, Live(e, q.b), BlockOf(e.doc, q.b).kind = "paragraph",
         NEW p, p \in Delimited(TextOf(e, q.b)), AtEnd(e, q)
  PROVE  Reaches(InlineShortcut(e, q, p), TextOf(e, q.b)[TextLen(e.doc, q.b)].c)
<1> DEFINE t == TextOf(e, q.b)
           inner == SubSeq(t, p[1] + 1, p[2] - 1)
           u == Append(inner, Last(t))
           from == p[1] - 1
           cut == TextDelete(e, q.b, from, Len(t) - from)
           put == TextInsert(cut, q.b, from, u)
           key == Delimiter[t[p[1]].g]
           done == ToggleMark(put, q.b, from, from + Len(inner), key, "none")
           n == TextLen(done.doc, q.b)
           r == InlineShortcut(e, q, p)
<1>1. /\ t = BlockOf(e.doc, q.b).text /\ t \in Text /\ Distinct(t) /\ TextLen(e.doc, q.b) = Len(t)
      /\ Len(t) \in Nat /\ DOMAIN t = 1..Len(t)
  <2>1. t = BlockOf(e.doc, q.b).text
    BY DEF TextOf
  <2> HIDE DEF t
  <2> QED BY <2>1, LiveIs, TextIs DEF Sound
<1>2. Rich(e, q.b)
  BY LiveIs DEF Rich, HasInline, InlineKinds
<1>3. p[1] \in DOMAIN t /\ p[2] \in DOMAIN t /\ p[1] + 1 < p[2] /\ p[2] + 1 = Len(t) /\ t[p[1]].g \in DOMAIN Delimiter
  BY DEF Delimited
<1>4. key \in Word /\ "none" \in Word
  <2>1. key \in {"bold", "code"}
    BY <1>3 DEF Delimiter
  <2> QED BY <2>1, WordsAre DEF MarkKeys
<1>5. r.e = done /\ r.at = Caret(q.b, IF q.o > n THEN n ELSE q.o)
  BY DEF InlineShortcut, Result
<1> HIDE DEF t, key
<1>6. /\ p[1] \in Nat /\ p[2] \in Nat /\ 1 <= p[1] /\ from \in Nat /\ from <= Len(t) /\ from \in Int
      /\ q.o \in Nat
  <2>1. p[1] \in DOMAIN t /\ p[2] \in DOMAIN t /\ DOMAIN t = 1..Len(t) /\ Len(t) \in Nat
    BY <1>1, <1>3
  <2>2. p[1] \in 1..Len(t) /\ p[2] \in 1..Len(t)
    BY <2>1
  <2>3. p[1] \in Nat /\ p[2] \in Nat /\ 1 <= p[1] /\ p[1] <= Len(t)
    BY <2>1, <2>2
  <2>4. q.o \in Nat
    BY PointsAre
  <2> QED BY <2>1, <2>3, <2>4 DEF from
<1>7. /\ u \in Text /\ Distinct(u) /\ Names(u) \subseteq Names(t) /\ Names(u) \cap Names(Slice(t, 0, from)) = {}
      /\ Len(u) = p[2] - p[1] /\ u[Len(u)] = t[Len(t)]
  <2>1. u \in Text /\ Distinct(u) /\ Names(u) \subseteq Names(t) /\ Names(u) \cap Names(Slice(t, 0, from)) = {}
    BY <1>1, <1>3, <1>6, InsideIs
  <2>2. Portion(Char, t, p[1] + 1, p[2] - 1, inner)
    <3>1. t \in Seq(Char) /\ Len(t) \in Nat /\ p[1] \in Nat /\ p[2] \in Nat /\ p[2] + 1 = Len(t)
      BY <1>1, <1>3, <1>6 DEF Text
    <3>2. \A k, l, n1 \in Nat : l + 1 = n1 => k + 1 \in Int /\ l - 1 \in Int /\ 1 <= k + 1 /\ l - 1 <= n1
      OBVIOUS
    <3>3. p[1] + 1 \in Int /\ p[2] - 1 \in Int /\ 1 <= p[1] + 1 /\ p[2] - 1 <= Len(t)
      BY <3>1, <3>2
    <3> QED BY <3>1, <3>3, PortionIs
  <2> HIDE DEF inner
  <2>3. inner \in Seq(Char) /\ Len(inner) + 1 = p[2] - p[1] /\ Len(inner) \in Nat
    <3>1. /\ inner \in Seq(Char) /\ Len(inner) \in Nat
          /\ Len(inner) = IF p[1] + 1 <= p[2] - 1 THEN (p[2] - 1) - (p[1] + 1) + 1 ELSE 0
      BY <2>2 DEF Portion
    <3>2. \A k, l \in Nat : k + 1 < l => k + 1 <= l - 1 /\ ((l - 1) - (k + 1) + 1) + 1 = l - k
      OBVIOUS
    <3>3. p[1] + 1 <= p[2] - 1 /\ ((p[2] - 1) - (p[1] + 1) + 1) + 1 = p[2] - p[1]
      BY <1>3, <1>6, <3>2
    <3> QED BY <3>1, <3>3
  <2>4. Last(t) = t[Len(t)]
    BY DEF Last
  <2>5. Len(u) = Len(inner) + 1 /\ u[Len(inner) + 1] = Last(t)
    BY <2>3
  <2> HIDE DEF u
  <2> QED BY <2>1, <2>3, <2>4, <2>5
<1> HIDE DEF u, from, inner
<1>8. Trimmed(e, q.b, from, c, cut)
  BY <1>1, <1>2, <1>6, TrimIs
<1> HIDE DEF cut
<1>9. Insertable(cut.doc, u, c)
  BY <1>1, <1>6, <1>7, <1>8, RetypedIs
<1>10. Good(cut, c) /\ TextLen(cut.doc, q.b) = from /\ c \in Nat /\ c <= c /\ c <= cut.fresh
  <2>1. Good(cut, c)
    BY <1>8, StepsGood DEF Trimmed
  <2> QED BY <1>8, <2>1, FreshIs DEF Trimmed, Retexted
<1> DEFINE m == from + Len(u)
<1>11. ASSUME ~put.threw
       PROVE  /\ Good(put, c) /\ TextLen(put.doc, q.b) = m /\ Behind(put, q.b, m, u[Len(u)].c)
              /\ m \in Nat /\ m < Len(t)
  <2>1. Len(u) > 0 /\ m \in Nat /\ m < Len(t)
    <3>1. Len(u) = p[2] - p[1] /\ from = p[1] - 1 /\ p[1] \in Nat /\ p[2] \in Nat
      BY <1>6, <1>7 DEF from
    <3>2. p[1] + 1 < p[2] /\ p[2] + 1 = Len(t) /\ 1 <= p[1] /\ Len(t) \in Nat
      BY <1>1, <1>3, <1>6
    <3>3. \A k, l, n1 \in Nat : k + 1 < l /\ l + 1 = n1 /\ 1 <= k =>
            l - k > 0 /\ (k - 1) + (l - k) \in Nat /\ (k - 1) + (l - k) < n1
      OBVIOUS
    <3>4. p[2] - p[1] > 0 /\ (p[1] - 1) + (p[2] - p[1]) \in Nat /\ (p[1] - 1) + (p[2] - p[1]) < Len(t)
      BY <3>1, <3>2, <3>3
    <3>5. m = (p[1] - 1) + (p[2] - p[1])
      BY <3>1
    <3> HIDE DEF m
    <3> QED BY <3>1, <3>4, <3>5
  <2>2. Clamp(from, 0, from) = from
    BY <1>6 DEF Clamp
  <2>3. /\ Good(put, c) /\ TextLen(put.doc, q.b) = from + Len(u)
        /\ Behind(put, q.b, Clamp(from, 0, TextLen(cut.doc, q.b)) + Len(u), u[Len(u)].c)
    BY <1>6, <1>9, <1>10, <1>11, <2>1, InsertBehind
  <2> QED BY <1>10, <2>1, <2>2, <2>3
<1> HIDE DEF put, m
<1>12. ASSUME ~done.threw PROVE n = m /\ Behind(done, q.b, m, u[Len(u)].c) /\ m \in Nat /\ m < Len(t)
  <2>1. ~put.threw
    <3>1. \A d, ok : Do(put, ok, d, FALSE).threw \/ ~put.threw
      BY DEF Do
    <3> QED BY <1>12, <3>1 DEF ToggleMark
  <2>2. Good(put, c) /\ Live(put, q.b)
    BY <1>11, <2>1 DEF Behind, Inline
  <2>3. /\ Inline(done, q.b) /\ n = TextLen(put.doc, q.b)
        /\ \A k \in DOMAIN TextOf(put, q.b) : TextOf(done, q.b)[k].c = TextOf(put, q.b)[k].c
    BY <1>4, <1>11, <2>1, <2>2, ToggledSame DEF Behind
  <2>4. m \in DOMAIN TextOf(put, q.b)
    <3>1. TextOf(put, q.b) \in Text /\ Len(TextOf(put, q.b)) = m
      BY <1>11, <2>1, <2>2, LiveIs DEF TextOf
    <3> QED BY <1>11, <2>1, <3>1, TextIs DEF Behind
  <2> HIDE DEF done
  <2> QED BY <1>11, <2>1, <2>3, <2>4 DEF Behind
<1> HIDE DEF done, r
<1>13. ASSUME ~done.threw PROVE Within(done, r.at) = m /\ r.at.b = q.b
  <2>1. r.at.b = q.b /\ r.at.o = IF q.o > n THEN n ELSE q.o
    BY <1>5 DEF Caret
  <2>2. q.o > m
    BY <1>1, <1>6, <1>12, <1>13 DEF AtEnd
  <2> HIDE DEF m
  <2> QED BY <1>12, <1>13, <2>1, <2>2 DEF Within
<1>14. Reaches(r, t[Len(t)].c)
  BY <1>5, <1>7, <1>12, <1>13 DEF Reaches
<1> QED BY <1>1, <1>14 DEF r, t

\* What is typed completes no shortcut, or an inline one at the end of its block.
Trails(e, p, s) ==
  \/ Inserting(e, p, s) = "type"
  \/ Inserting(e, p, s) = "inline shortcut" /\ AtEnd(e, p)

\* The handler for typed text.
LEMMA InsertTextReaches ==
  ASSUME NEW e, NEW n, Good(e, n), NEW c1 \in Nat, n <= c1, c1 <= e.fresh, NEW p \in Pt,
         NEW s \in Text, Distinct(s), \A x \in Names(s) : n <= x /\ x < c1, Len(s) > 0, Trails(e, p, s)
  PROVE  Reaches(InsertText(e, p, s), s[Len(s)].c)
<1> DEFINE below == ParagraphAfter(e, p.b)
           x == TextInsert(e, p.b, p.o, s)
           q == Caret(p.b, p.o + Len(s))
           aside == Live(e, p.b) /\ ~Inline(e, p.b)
           here == Result(x, q)
           there == Result(TextInsert(below, e.fresh, 0, s), Caret(e.fresh, Len(s)))
           cc == s[Len(s)].c
<1>0. p.b \in Nat /\ p.o \in Nat /\ e.fresh \in Nat /\ Len(s) \in Nat /\ n \in Nat
  BY PointsAre, FreshIs, TextIs
<1>1. Good(below, n) /\ c1 <= below.fresh
  <2>1. Good(below, n) /\ below.fresh = e.fresh + 1
    BY ParagraphIs
  <2> HIDE DEF below
  <2> QED BY <1>0, <2>1
<1>2. InsertText(e, p, s) = (IF aside THEN there ELSE Shortcut(x, q))
      /\ Inserting(e, p, s) = (IF aside THEN "type" ELSE Completes(x, p))
  BY DEF InsertText, Inserting
<1>3. Completes(x, p) = Completes(x, q)
  BY DEF Completes, Caret
<1> HIDE DEF below
<1>4. Reaches(there, cc)
  <2> DEFINE z == Caret(e.fresh, 0)
  <2>1. z \in Pt /\ z.b = e.fresh /\ z.o = 0 /\ z.o + Len(s) = Len(s)
    <3>1. z \in Pt /\ z.b = e.fresh /\ z.o = 0
      BY <1>0, PointsAre DEF Caret
    <3> HIDE DEF z
    <3> QED BY <1>0, <3>1
  <2>2. Insertable(below.doc, s, c1)
    BY <1>1, FreshText
  <2> HIDE DEF z
  <2>3. Reaches(Result(TextInsert(below, z.b, z.o, s), Caret(z.b, z.o + Len(s))), s[Len(s)].c)
    BY <1>1, <2>1, <2>2, InsertReaches
  <2> QED BY <2>1, <2>3
<1>5. /\ Reaches(here, cc)
      /\ ~here.e.threw => Good(here.e, c1) /\ (TextLen(e.doc, p.b) <= p.o => TextLen(here.e.doc, p.b) <= p.o + Len(s))
  <2>1. Insertable(e.doc, s, c1)
    BY FreshText
  <2> QED BY <2>1, InsertReaches
<1>6. here.e = x /\ here.at = q /\ q.b = p.b /\ q.o = p.o + Len(s)
  BY DEF Result, Caret
<1>7. Shortcut(x, q) = CASE Completes(x, q) = "block shortcut" -> BlockShortcut(x, q)
                         [] Completes(x, q) = "inline shortcut" ->
                              InlineShortcut(x, q, CHOOSE y \in Delimited(TextOf(x, q.b)) : TRUE)
                         [] OTHER -> here
  BY DEF Shortcut
<1> HIDE DEF x, q, here
<1>8. CASE aside
  BY <1>2, <1>4, <1>8
<1>11. Inserting(e, p, s) = "type" \/ (Inserting(e, p, s) = "inline shortcut" /\ TextLen(e.doc, p.b) <= p.o)
  BY DEF Trails, AtEnd
<1>9. CASE ~aside /\ Inserting(e, p, s) = "type"
  <2>1. Completes(x, q) = "type" /\ InsertText(e, p, s) = Shortcut(x, q)
    BY <1>2, <1>3, <1>9
  <2>2. Shortcut(x, q) = here
    BY <1>7, <2>1
  <2> QED BY <1>5, <2>1, <2>2
<1>10. CASE ~aside /\ Inserting(e, p, s) = "inline shortcut"
  <2>1. Completes(x, q) = "inline shortcut" /\ InsertText(e, p, s) = Shortcut(x, q)
    BY <1>2, <1>3, <1>10
  <2> DEFINE y == CHOOSE y \in Delimited(TextOf(x, q.b)) : TRUE
  <2>2. Shortcut(x, q) = InlineShortcut(x, q, y)
    BY <1>7, <2>1
  <2>3. ~x.threw /\ Live(x, q.b) /\ BlockOf(x.doc, q.b).kind = "paragraph" /\ Delimited(TextOf(x, q.b)) # {}
    BY <2>1 DEF Completes
  <2>4. y \in Delimited(TextOf(x, q.b))
    BY <2>3
  <2>5. q \in Pt /\ Good(x, c1) /\ TextLen(x.doc, q.b) <= q.o
    <3>1. p.o + Len(s) \in Nat
      BY <1>0
    <3> QED BY <1>0, <1>5, <1>6, <1>10, <1>11, <2>3, <3>1, PointsAre DEF q
  <2> HIDE DEF y
  <2>6. Reaches(InlineShortcut(x, q, y), TextOf(x, q.b)[TextLen(x.doc, q.b)].c)
    BY <2>3, <2>4, <2>5, InlineReaches DEF AtEnd
  <2>7. TextOf(x, q.b)[TextLen(x.doc, q.b)].c = cc
    <3>1. Behind(x, q.b, Within(x, q), cc)
      BY <1>5, <1>6, <2>3 DEF Reaches
    <3>2. Within(x, q) = TextLen(x.doc, q.b)
      <4>1. TextLen(x.doc, q.b) \in Nat /\ q.o \in Nat
        BY <2>5, PlacesAre, PointsAre
      <4> QED BY <2>5, <4>1 DEF Within
    <3> QED BY <3>1, <3>2 DEF Behind
  <2> QED BY <2>1, <2>2, <2>6, <2>7
<1> QED BY <1>8, <1>9, <1>10, <1>11

\* The same for a task that asks for the caret a handler answered.
LEMMA HandledFollows ==
  ASSUME IInv, NEW what, NEW r, NEW n \in Nat, ed.fresh <= n, Handled(r, n + 1), Reaches(r, n),
         Task(what, r.e, CaretSel(r.at)), ~did'.threw
  PROVE  Follows
<1> DEFINE id == r.at.b
           o == r.at.o
<1>1. ~r.e.threw /\ Good(r.e, n + 1) /\ r.at \in Pt
  BY DEF Task, Handled
<1>2. Behind(r.e, id, Within(r.e, r.at), n)
  BY <1>1 DEF Reaches
<1>3. Live(r.e, id) /\ id # 0
  BY <1>1, <1>2, LiveIs DEF Behind, Inline
<1>4. r.at = Caret(id, o) /\ o \in Nat
  BY <1>1 DEF Pt, Caret
<1>5. CaretSel(r.at) = Point(id, o)
  <2>1. r.at # NoCaret
    BY <1>3 DEF NoCaret, Root
  <2>2. CaretSel(r.at) = At2(r.at, r.at)
    BY <2>1 DEF CaretSel
  <2> HIDE DEF id, o
  <2> QED BY <1>4, <2>2 DEF Point
<1>6. Behind(r.e, id, IF o > TextLen(r.e.doc, id) THEN TextLen(r.e.doc, id) ELSE o, n)
  BY <1>2 DEF Within
<1>7. Task(what, r.e, Point(id, o))
  BY <1>5
<1> HIDE DEF id, o
<1> QED BY <1>1, <1>4, <1>6, <1>7, TaskFollows

\* What the property asks of a step.
AtTheEnd == Collapsed(EnsuredCaret) /\ EnsuredCaret.a.o = TextLen(ed.doc, EnsuredCaret.a.b)
Asked == Gesture({"type", "compose"}) \/ (Gesture({"inline shortcut"}) /\ AtTheEnd)
FollowsTyping == Asked /\ NamesOf(ed'.doc) \ NamesOf(ed.doc) # {} /\ ~did'.threw => Follows

\* Type.
LEMMA TypeFollows ==
  ASSUME IInv, NEW g \in Typings, Type(g)
  PROVE  FollowsTyping
<1> SUFFICES ASSUME Asked, ~did'.threw
             PROVE  Follows
  BY DEF FollowsTyping
<1> DEFINE s == EnsuredCaret
           r == Cleared(s)
           x == Use(r.e, Len(g))
           put == InsertText(x, r.at, Named(g))
           what == Inserting(x, r.at, Named(g))
           c1 == ed.fresh + Len(g)
           n == c1 - 1
<1>1. Handled(r, ed.fresh)
  BY EnsuredIs, ClearedIs
<1>2. ~r.e.threw /\ BeforeInput(what, put)
  BY DEF Type, BeforeInput, Task
<1>3. Handled(put, c1)
  BY <1>1, TypeInto
<1>4. /\ Named(g) \in Text /\ Distinct(Named(g)) /\ Len(Named(g)) = Len(g) /\ Len(g) \in Nat /\ Len(g) > 0
      /\ (\A y \in Names(Named(g)) : ed.fresh <= y /\ y < c1) /\ Named(g)[Len(Named(g))].c = n
  <2>1. /\ Named(g) \in Text /\ Distinct(Named(g)) /\ Len(Named(g)) = Len(g) /\ Len(g) \in Nat /\ Len(g) > 0
        /\ \A y \in Names(Named(g)) : ed.fresh <= y /\ y < ed.fresh + Len(g)
    BY NamedIs
  <2>2. Named(g)[Len(g)].c = ed.fresh + Len(g) - 1
    BY NamedIs
  <2>3. ed.fresh + Len(g) - 1 = n
    BY <2>1, InvIs
  <2>4. Named(g)[Len(Named(g))].c = n
    BY <2>1, <2>2, <2>3, Zenon
  <2> QED BY <2>1, <2>4, Zenon
<1>5. ed.fresh \in Nat /\ r.e.fresh \in Nat /\ ed.fresh <= r.e.fresh
  BY <1>1, InvIs, FreshIs DEF Handled
<1>6. c1 \in Nat /\ n \in Nat /\ ed.fresh <= n /\ n + 1 = c1 /\ ed.fresh <= c1 /\ c1 <= r.e.fresh + Len(g)
      /\ ed.fresh <= r.e.fresh + Len(g) /\ ed.fresh <= ed.fresh
  BY <1>4, <1>5
<1> HIDE DEF n, c1
<1>7. Good(x, ed.fresh) /\ x.doc = r.e.doc /\ c1 <= x.fresh /\ r.at \in Pt
  BY <1>1, <1>4, <1>5, <1>6, UseIs DEF Handled
<1>8. Task(what, put.e, CaretSel(put.at)) /\ did'.what = what
  BY <1>2 DEF BeforeInput, Task
<1> HIDE DEF put
<1>9. what = "type" \/ (what = "inline shortcut" /\ AtTheEnd) \/ what = "compose"
  BY <1>8 DEF Asked, Gesture
<1>10. what \in {"type", "block shortcut", "inline shortcut"}
  BY DEF Inserting, Completes
<1>11. Trails(x, r.at, Named(g))
  <2>1. CASE what = "type"
    BY <2>1 DEF Trails
  <2>2. CASE what = "inline shortcut" /\ AtTheEnd
    <3>1. r = Result(ed, s.a) /\ s.a.o = TextLen(ed.doc, s.a.b)
      BY <2>2 DEF AtTheEnd, Cleared
    <3>2. r.e = ed /\ r.at = s.a
      BY <3>1 DEF Result
    <3>3. AtEnd(x, r.at)
      <4>1. r.at.o \in Nat
        BY <1>7, PointsAre
      <4> HIDE DEF x, s
      <4> QED BY <1>7, <3>1, <3>2, <4>1 DEF AtEnd
    <3> QED BY <2>2, <3>3 DEF Trails
  <2> HIDE DEF what
  <2> QED BY <1>9, <1>10, <2>1, <2>2
<1> HIDE DEF x, r, s, what
<1>12. Reaches(put, n)
  <2>1. Reaches(InsertText(x, r.at, Named(g)), Named(g)[Len(Named(g))].c)
    BY <1>4, <1>5, <1>6, <1>7, <1>11, InsertTextReaches
  <2> QED BY <1>4, <2>1 DEF put
<1> QED BY <1>3, <1>6, <1>8, <1>12, HandledFollows

\* LineBreakKey.
LEMMA LineBreakFollows ==
  ASSUME IInv, LineBreakKey
  PROVE  FollowsTyping
<1> SUFFICES ASSUME ~did'.threw
             PROVE  Follows
  BY DEF FollowsTyping
<1> DEFINE x == Use(ed, 1)
           ch == [c |-> ed.fresh, g |-> "\n", m |-> {}]
           p == EnsuredCaret.a
           r == LineBreak(x, p, ch)
           n == ed.fresh
<1>1. Good(x, n) /\ n + 1 <= x.fresh /\ p \in Pt /\ n + 1 \in Nat /\ n <= n + 1 /\ n \in Nat /\ n <= n
  BY UseOne, EnsuredIs, InvIs
<1>2. Task("type", r.e, CaretSel(r.at))
  BY DEF LineBreakKey, BeforeInput
<1> HIDE DEF x, p
<1>3. Handled(r, n + 1)
  BY <1>1, LineBreakIs
<1>4. <<ch>> \in Text /\ Distinct(<<ch>>) /\ Len(<<ch>>) = 1 /\ \A y \in Names(<<ch>>) : n <= y /\ y < n + 1
  BY <1>1, WordsAre, LetterIs
<1>5. <<ch>>[Len(<<ch>>)].c = n
  OBVIOUS
<1> HIDE DEF ch
<1>6. Insertable(x.doc, <<ch>>, n + 1)
  BY <1>1, <1>4, FreshText
<1>7. r = Result(TextInsert(x, p.b, p.o, <<ch>>), Caret(p.b, p.o + Len(<<ch>>)))
  BY <1>4 DEF LineBreak
<1> HIDE DEF r
<1>8. Reaches(r, n)
  <2>1. Len(<<ch>>) > 0
    BY <1>4
  <2> QED BY <1>1, <1>5, <1>6, <1>7, <2>1, InsertReaches
<1> HIDE DEF n
<1>9. ed.fresh <= n
  BY <1>1 DEF n
<1> QED BY <1>1, <1>2, <1>3, <1>8, <1>9, HandledFollows

\* Text put in at a caret by a task that asks for the place behind it.
LEMMA PutFollows ==
  ASSUME IInv, NEW what, NEW x, Good(x, ed.fresh), NEW p \in Pt, NEW s \in Text, Distinct(s), Len(s) > 0,
         NEW c1 \in Nat, c1 <= x.fresh, \A y \in Names(s) : ed.fresh <= y /\ y < c1, s[Len(s)].c = c1 - 1, ed.fresh < c1,
         Task(what, TextInsert(x, p.b, p.o, s), Point(p.b, p.o + Len(s))), ~did'.threw
  PROVE  Follows
<1> DEFINE e == TextInsert(x, p.b, p.o, s)
           q == Caret(p.b, p.o + Len(s))
           n == c1 - 1
           r == Result(e, q)
<1>1. ed.fresh \in Nat /\ n \in Nat /\ ed.fresh <= n /\ n + 1 = c1 /\ ed.fresh <= c1
  BY InvIs
<1>2. Insertable(x.doc, s, c1)
  BY FreshText
<1>3. r.e = e /\ r.at = q /\ q.b = p.b /\ q.o = p.o + Len(s)
  BY DEF Result, Caret
<1>4. ~e.threw /\ Task(what, e, Point(q.b, q.o))
  BY <1>3 DEF Task
<1> HIDE DEF n
<1>5. Reaches(r, n) /\ Good(e, n + 1)
  <2>1. Reaches(r, s[Len(s)].c) /\ (~r.e.threw => Good(r.e, c1))
    BY <1>1, <1>2, InsertReaches
  <2> HIDE DEF r, e, q
  <2> QED BY <1>1, <1>3, <1>4, <2>1 DEF n
<1> HIDE DEF r, e
<1>6. Behind(e, q.b, IF q.o > TextLen(e.doc, q.b) THEN TextLen(e.doc, q.b) ELSE q.o, n)
  BY <1>3, <1>4, <1>5 DEF Reaches, Within
<1>7. q.o \in Nat
  <2>1. p.o \in Nat /\ Len(s) \in Nat
    BY PointsAre, TextIs
  <2> HIDE DEF q
  <2> QED BY <1>3, <2>1
<1> HIDE DEF q
<1> QED BY <1>1, <1>4, <1>5, <1>6, <1>7, TaskFollows

\* CompositionEnd.
LEMMA CompositionEndFollows ==
  ASSUME IInv, NEW g \in Typings \union {<<>>}, CompositionEnd(g)
  PROVE  FollowsTyping
<1> DEFINE c == ime.at
           insert == editable /\ c # NoCaret /\ g # <<>>
           x == Use(ed, Len(g))
           put == TextInsert(x, c.b, c.o, Named(g))
           c1 == ed.fresh + Len(g)
<1>1. Task("compose", IF insert THEN put ELSE ed, IF insert THEN Point(c.b, c.o + Len(g)) ELSE NoSel)
  BY DEF CompositionEnd
<1>2. CASE ~insert
  <2>1. ed'.doc = ed.doc
    <3>1. ed' = [ed EXCEPT !.threw = FALSE, !.group = "none"]
      BY <1>1, <1>2 DEF Task
    <3> QED BY <3>1, InvIs, OverIsAtRest
  <2> QED BY <2>1 DEF FollowsTyping
<1>3. CASE insert
  <2>1. Task("compose", put, Point(c.b, c.o + Len(g)))
    BY <1>1, <1>3
  <2>0. g \in Typings
    BY <1>3
  <2>2. c \in Pt /\ ed.fresh \in Nat /\ ed.fresh <= ed.fresh
    BY InvIs
  <2>3. /\ Named(g) \in Text /\ Distinct(Named(g)) /\ Len(Named(g)) = Len(g) /\ Len(g) \in Nat /\ Len(g) > 0
        /\ (\A y \in Names(Named(g)) : ed.fresh <= y /\ y < c1) /\ Named(g)[Len(Named(g))].c = c1 - 1
    <3>1. /\ Named(g) \in Text /\ Distinct(Named(g)) /\ Len(Named(g)) = Len(g) /\ Len(g) \in Nat /\ Len(g) > 0
          /\ \A y \in Names(Named(g)) : ed.fresh <= y /\ y < ed.fresh + Len(g)
      BY <2>0, NamedIs
    <3>2. Named(g)[Len(g)].c = ed.fresh + Len(g) - 1
      BY <2>0, NamedIs
    <3>3. ed.fresh + Len(g) - 1 = c1 - 1
      BY <2>2, <3>1
    <3>4. Named(g)[Len(Named(g))].c = c1 - 1
      BY <3>1, <3>2, <3>3, Zenon
    <3> QED BY <3>1, <3>4, Zenon
  <2>4. c1 \in Nat /\ ed.fresh < c1 /\ ed.fresh <= ed.fresh + Len(g) /\ c1 <= ed.fresh + Len(g)
    BY <2>2, <2>3
  <2>5. Good(x, ed.fresh) /\ x.fresh = ed.fresh + Len(g)
    BY <2>2, <2>3, <2>4, InvIs, UseIs
  <2> HIDE DEF c1, x, c
  <2>6. c1 <= x.fresh
    BY <2>4, <2>5
  <2>7. ASSUME ~did'.threw PROVE Follows
    BY <2>1, <2>2, <2>3, <2>4, <2>5, <2>6, <2>7, PutFollows
  <2> QED BY <2>7 DEF FollowsTyping
<1> QED BY <1>2, <1>3

\* Tab, which types where it does not indent.
LEMMA TabFollows ==
  ASSUME IInv, NEW shift, Tab(shift)
  PROVE  FollowsTyping
<1> DEFINE id == IF InDoc(ed, dsel) THEN dsel.a.b ELSE tabbed
           code == InDoc(ed, dsel) /\ BlockOf(ed.doc, id).kind = "code" /\ ~shift
           s == <<[c |-> ed.fresh, g |-> " ", m |-> {}]>>
           x == Use(ed, 1)
           p == dsel.a
           n == ed.fresh
           moved == IF shift THEN Outdent(ed, id) ELSE Indent(ed, id)
<1>1. /\ code => KeyDown("type", TextInsert(x, id, p.o, s), Point(id, p.o + 1), tabbed)
      /\ ~code => KeyDown("tab", moved, dsel, id)
  BY DEF Tab
<1>2. CASE code
  <2>1. Task("type", TextInsert(x, p.b, p.o, s), Point(p.b, p.o + 1))
    BY <1>1, <1>2 DEF KeyDown
  <2>2. p \in Pt /\ n \in Nat /\ " " \in Word
    BY InvIs, WordsAre
  <2>3. s \in Text /\ Distinct(s) /\ Len(s) = 1 /\ \A y \in Names(s) : n <= y /\ y < n + 1
    BY <2>2, LetterIs
  <2>4. s[Len(s)].c = n
    OBVIOUS
  <2>5. Good(x, n) /\ n + 1 <= x.fresh /\ n + 1 \in Nat
    BY UseOne
  <2> HIDE DEF s, x, p
  <2>6. ASSUME ~did'.threw PROVE Follows
    <3>1. Len(s) > 0 /\ n < n + 1 /\ (n + 1) - 1 = n
      <4>1. \A k \in Nat : k < k + 1 /\ (k + 1) - 1 = k
        OBVIOUS
      <4>2. Len(s) > 0
        BY <2>3
      <4> QED BY <2>2, <4>1, <4>2
    <3> QED BY <2>1, <2>2, <2>3, <2>4, <2>5, <2>6, <3>1, PutFollows
  <2> QED BY <2>6 DEF FollowsTyping
<1>3. CASE ~code
  <2> HIDE DEF code, moved, id
  <2>1. KeyDown("tab", moved, dsel, id)
    BY <1>1, <1>3
  <2>2. did'.what = "tab"
    BY <2>1 DEF KeyDown, Task
  <2> QED BY <2>2 DEF FollowsTyping, Asked, Gesture
<1> QED BY <1>2, <1>3

\* The other gestures type nothing.
LEMMA OthersFollow ==
  ASSUME EnterKey \/ DeleteBy \/ (\E unit \in Units, forward \in BOOLEAN : DeleteKey(unit, forward))
           \/ (\E b \in BOOLEAN : HistoryKey(b) \/ PasteKey(b)) \/ MarkKey \/ ClearKey \/ CopyKey \/ CutKey
           \/ (\E id \in IdsOf(ed.doc) : ClickToDo(id)) \/ PickMention("ana") \/ Command
           \/ (\E kind \in RemoteEdits, id \in IdsOf(ed.doc) : Remote(kind, id))
  PROVE  FollowsTyping
<1>1. \A what, e, s : Task(what, e, s) => did'.what = what
  BY DEF Task
<1>2. did'.what \in {"enter", "delete", "history", "paste", "mark", "copy", "cut", "click", "pick", "select", "insert",
                     "annotate", "move", "clear", "remote"}
  <2>1. CASE EnterKey \/ DeleteBy \/ \E unit \in Units, forward \in BOOLEAN : DeleteKey(unit, forward)
    BY <1>1, <2>1 DEF EnterKey, DeleteBy, DeleteKey, BeforeInput
  <2>2. CASE (\E b \in BOOLEAN : HistoryKey(b)) \/ MarkKey \/ ClearKey
    BY <1>1, <2>2 DEF HistoryKey, MarkKey, ClearKey, KeyDown
  <2>3. CASE (\E b \in BOOLEAN : PasteKey(b)) \/ CutKey
    BY <1>1, <2>3 DEF PasteKey, CutKey
  <2>4. CASE CopyKey
    BY <2>4 DEF CopyKey
  <2>5. CASE \E id \in IdsOf(ed.doc) : ClickToDo(id)
    BY <1>1, <2>5, Zenon DEF ClickToDo
  <2>6. CASE PickMention("ana")
    <3>1. did'.what = "pick" \/ did' = [what |-> "select", threw |-> FALSE]
      BY <1>1, <2>6, Zenon DEF PickMention
    <3> QED BY <3>1
  <2>7. CASE Command
    BY <1>1, <2>7, Zenon DEF Command
  <2>8. CASE \E kind \in RemoteEdits, id \in IdsOf(ed.doc) : Remote(kind, id)
    BY <1>1, <2>8, Zenon DEF Remote
  <2> QED BY <2>1, <2>2, <2>3, <2>4, <2>5, <2>6, <2>7, <2>8
<1> QED BY <1>2 DEF FollowsTyping, Asked, Gesture

\* Steps that are no gesture.
LEMMA StillFollow ==
  ASSUME SelectAllKey \/ CompositionStart \/ (\E s \in Ranges(ed) : MoveSelection(s)) \/ Focus \/ ClosePicker
           \/ (\E b \in BOOLEAN : SetEditable(b)) \/ UNCHANGED vars
  PROVE  FollowsTyping
<1>1. gestures' = gestures
  BY DEF SelectAllKey, CompositionStart, MoveSelection, Focus, Moved, ClosePicker, SetEditable, vars
<1> QED BY <1>1 DEF FollowsTyping, Asked, Gesture

\* After every step the caret is where typing left it.
LEMMA StepFollows ==
  ASSUME IInv, [Next]_vars
  PROVE  FollowsTyping
BY TypeFollows, LineBreakFollows, CompositionEndFollows, TabFollows, OthersFollow, StillFollow DEF Next

(***************************************************************************)
(* The theorems.                                                           *)
(***************************************************************************)

\* Throughout a session the editor is at rest between two tasks, the selection
\* lies in what the page shows of the document, and the clipboard and the picker
\* hold what can be pasted and replaced: whatever the gestures, the peers' edits
\* and their order, for any pages and typed texts.  A block that is inline in one
\* document the editor can go to has a text container in all of them, also after a
\* paste has given a divider one (editor.ts:1415) that undo takes away again.
THEOREM SurfaceInvariant == Spec => []IInv
<1>1. Init => IInv
  BY InitIs
<1>2. IInv /\ [Next]_vars => IInv'
  BY StepIs
<1> QED BY <1>1, <1>2, PTL DEF Spec

\* Type correctness: the document, and every document undo or redo can bring
\* back, is never empty, stands for a tree, uses no id and no character twice,
\* has a text container in every inline block and wherever there is text, and
\* leaves the names the next edit will use free.  It does not say that the text is
\* shown: a divider may come to hold some.
THEOREM SurfaceTypeCorrect == Spec => []TypeOK
<1>1. IInv => TypeOK
  BY TypeIs
<1> QED BY <1>1, SurfaceInvariant, PTL

\* Typing and composing leave the caret behind the new text, so that the next
\* character goes after it: whatever was selected, next to dividers, in blocks
\* whose text is restyled by an inline shortcut, and while peers edit.
THEOREM SurfaceCaretFollows == Spec => CaretFollowsTyping
<1>1. IInv /\ [Next]_vars =>
        LET new == NamesOf(ed'.doc) \ NamesOf(ed.doc)
            s == EnsuredCaret
            atEnd == Collapsed(s) /\ s.a.o = TextLen(ed.doc, s.a.b)
        IN  (Gesture({"type", "compose"}) \/ (Gesture({"inline shortcut"}) /\ atEnd)) /\ new # {} /\ ~did'.threw =>
              /\ Collapsed(dsel') /\ dsel'.a.o > 0
              /\ TextOf(ed', dsel'.a.b)[dsel'.a.o].c = Max(new)
  BY StepFollows DEF FollowsTyping, Asked, AtTheEnd, Follows
<1> QED BY <1>1, SurfaceInvariant, PTL DEF Spec, CaretFollowsTyping

=============================================================================
