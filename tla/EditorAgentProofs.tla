------------------------- MODULE EditorAgentProofs -------------------------
(***************************************************************************)
(* The editor agent keeps its three promises for any number of people,     *)
(* watchers and lines, whatever they type and however their frames are     *)
(* interleaved: it answers no line its author is still typing, an ask with *)
(* nobody's capability but its author's, and below what it answers.        *)
(*                                                                         *)
(* Each rests on the order of frames.  Whoever hears of a line has it from *)
(* the relay, which got it first from its author: so of a line begun while *)
(* a watcher listens, the first frame that shows it is its author's.  A    *)
(* keystroke's presence is on its way, or was heard, no longer ago than    *)
(* the keystroke: and when time passes, everything on its way is there.    *)
(* A denial follows the document that has its reply, through both queues.  *)
(***************************************************************************)
EXTENDS EditorAgent, FiniteSetTheorems, SequenceTheorems, WellFoundedInduction, TLAPS

Doc == [typed : [Lines -> Nat], replies : {R \in SUBSET Replying : IsFiniteSet(R)}]
-----------------------------------------------------------------------------
(* Induction: the least element of a set of numbers. *)

Less == {ss \in Nat \X Nat : ss[1] < ss[2]}

LEMMA LessWF == IsWellFoundedOn(Less, Nat)
  BY NatLessThanWellFounded DEF OpToRel, Less

LEMMA Least ==
  ASSUME NEW T \in SUBSET Nat, T # {}
  PROVE  \E n \in T : \A m \in T : n <= m
<1>1. PICK n \in T : \A m \in T : ~(<<m, n>> \in Less)
  BY LessWF, WFMin
<1>2. ASSUME NEW m \in T PROVE n <= m
  <2>1. <<m, n>> \notin Less
    BY <1>1
  <2> QED BY <2>1 DEF Less
<1> QED BY <1>2

LEMMA Induction ==
  ASSUME NEW P, 0 \in P, \A n \in Nat : n \in P => n + 1 \in P
  PROVE  Nat \subseteq P
<1>1. SUFFICES ASSUME Nat \ P # {} PROVE FALSE
  OBVIOUS
<1>2. PICK n \in Nat \ P : \A m \in Nat \ P : n <= m
  BY <1>1, Least
<1>3. n # 0 /\ n - 1 \in Nat /\ n - 1 \notin Nat \ P
  BY <1>2
<1> QED BY <1>2, <1>3

LEMMA MinIs ==
  ASSUME NEW T \in SUBSET Nat, T # {}
  PROVE  LastInserted(T) \in T /\ \A j \in T : LastInserted(T) <= j
  BY Least DEF LastInserted, Min

-----------------------------------------------------------------------------
(* Blocks: the nearest line above a reply is the one it is below.          *)

Block == [line : Lines, reply : Replying \cup {Nobody}]

NearestAbove(c, j, i) == c[i].reply = Nobody /\ \A k \in (i + 1)..j : c[k].reply # Nobody

Right(c) ==
    \A j \in DOMAIN c : c[j].reply # Nobody =>
        \E i \in 1..j : NearestAbove(c, j, i) /\ c[i].line = c[j].line

LEMMA Nearest ==
  ASSUME NEW c \in Seq(Block), Right(c), NEW j \in DOMAIN c, c[j].reply # Nobody
  PROVE  c[CHOOSE i \in 1..j : NearestAbove(c, j, i)].line = c[j].line
<1> DEFINE n == CHOOSE i \in 1..j : NearestAbove(c, j, i)
<1>1. PICK i \in 1..j : NearestAbove(c, j, i) /\ c[i].line = c[j].line
  BY DEF Right
<1>2. n \in 1..j /\ NearestAbove(c, j, n)
  BY <1>1
<1>3. j \in Nat
  OBVIOUS
<1> HIDE DEF n
<1>4. n = i
  BY <1>1, <1>2, <1>3 DEF NearestAbove
<1> QED BY <1>1, <1>4 DEF n

LEMMA InsertAtIs ==
  ASSUME NEW c \in Seq(Block), NEW m \in 1..Len(c), NEW e \in Block
  PROVE  LET z == InsertAt(c, m + 1, e)
         IN  /\ z \in Seq(Block) /\ DOMAIN z = 1..(Len(c) + 1)
             /\ \A i \in 1..m : z[i] = c[i]
             /\ z[m + 1] = e
             /\ \A i \in (m + 1)..Len(c) : z[i + 1] = c[i]
<1> DEFINE a == SubSeq(c, 1, m)
           d == SubSeq(c, m + 1, Len(c))
           z == InsertAt(c, m + 1, e)
<1>1. /\ a \in Seq(Block) /\ Len(a) = m /\ \A i \in 1..m : a[i] = c[i]
  BY SubSeqProperties
<1>2. /\ d \in Seq(Block) /\ Len(d) = Len(c) - m /\ \A i \in 1..(Len(c) - m) : d[i] = c[m + i]
  BY SubSeqProperties
<1>3. z = a \o <<e>> \o d
  <2>1. (m + 1) - 1 = m
    OBVIOUS
  <2> QED BY <2>1 DEF InsertAt
<1> HIDE DEF a, d, z
<1> DEFINE y == a \o <<e>>
<1>4. /\ y \in Seq(Block) /\ Len(y) = m + 1 /\ y[m + 1] = e
      /\ \A i \in 1..m : y[i] = c[i]
  BY <1>1
<1> HIDE DEF y
<1>5. z = y \o d
  BY <1>3 DEF y
<1>6. /\ z \in Seq(Block) /\ Len(z) = Len(c) + 1
      /\ \A i \in 1..(m + 1) : z[i] = y[i]
      /\ \A i \in 1..(Len(c) - m) : z[m + 1 + i] = d[i]
  <2>1. z \in Seq(Block) /\ Len(z) = Len(y) + Len(d) /\ Len(y) + Len(d) = Len(c) + 1
    <3>1. z \in Seq(Block) /\ Len(z) = Len(y) + Len(d)
      BY <1>2, <1>4, <1>5, ConcatProperties, Zenon
    <3> QED BY <3>1, <1>2, <1>4
  <2>2. \A i \in 1..(Len(y) + Len(d)) : z[i] = IF i <= Len(y) THEN y[i] ELSE d[i - Len(y)]
    BY <1>2, <1>4, <1>5, ConcatProperties
  <2>3. ASSUME NEW i \in 1..(Len(c) - m) PROVE z[m + 1 + i] = d[i]
    <3>1. m + 1 + i \in 1..(Len(y) + Len(d)) /\ ~(m + 1 + i <= Len(y)) /\ (m + 1 + i) - Len(y) = i
      BY <1>2, <1>4
    <3> QED BY <3>1, <2>2
  <2>4. ASSUME NEW i \in 1..(m + 1) PROVE z[i] = y[i]
    <3>1. i \in 1..(Len(y) + Len(d)) /\ i <= Len(y)
      BY <1>2, <1>4
    <3> QED BY <3>1, <2>2
  <2> QED BY <2>1, <2>3, <2>4
<1>7. ASSUME NEW i \in (m + 1)..Len(c) PROVE z[i + 1] = c[i]
  <2> DEFINE n == i - m
  <2>1. n \in 1..(Len(c) - m) /\ m + 1 + n = i + 1 /\ m + n = i
    OBVIOUS
  <2> HIDE DEF n
  <2>2. z[m + 1 + n] = d[n] /\ d[n] = c[m + n]
    BY <1>2, <1>6, <2>1
  <2> QED BY <2>1, <2>2
<1>8. Len(c) \in Nat /\ DOMAIN z = 1..Len(z)
  BY <1>6
<1> QED BY <1>4, <1>6, <1>7, <1>8 DEF z

LEMMA InsertedBelow ==
  ASSUME NEW c \in Seq(Block), Right(c), NEW m \in 1..Len(c), c[m].reply = Nobody,
         NEW r \in Replying, NEW e, e = [line |-> c[m].line, reply |-> r],
         NEW z, z = InsertAt(c, m + 1, e)
  PROVE  Right(z)
<1>1. /\ e \in Block /\ r # Nobody /\ Len(c) \in Nat /\ c[m] \in Block
      /\ e.reply = r /\ e.line = c[m].line
  <2>1. c[m] \in Block
    OBVIOUS
  <2>2. r # Nobody
    BY EditorAgentAssumption
  <2>3. e \in Block
    BY <2>1 DEF Block
  <2> QED BY <2>1, <2>2, <2>3
<1>2. /\ DOMAIN z = 1..(Len(c) + 1) /\ DOMAIN c = 1..Len(c)
      /\ \A i \in 1..m : z[i] = c[i]
      /\ z[m + 1] = e
      /\ \A i \in (m + 1)..Len(c) : z[i + 1] = c[i]
  <2>1. LET x == InsertAt(c, m + 1, e)
        IN  /\ DOMAIN x = 1..(Len(c) + 1)
            /\ \A i \in 1..m : x[i] = c[i]
            /\ x[m + 1] = e
            /\ \A i \in (m + 1)..Len(c) : x[i + 1] = c[i]
    BY <1>1, InsertAtIs, ZenonT(40)
  <2> QED BY <2>1
<1>3. SUFFICES ASSUME NEW j \in 1..(Len(c) + 1), z[j].reply # Nobody
               PROVE  \E i \in 1..j : NearestAbove(z, j, i) /\ z[i].line = z[j].line
  BY <1>2 DEF Right
<1>4. CASE j <= m
  <2>1. z[j] = c[j] /\ j \in 1..Len(c) /\ c[j].reply # Nobody
    BY <1>2, <1>3, <1>4, <1>1
  <2>2. PICK i \in 1..j : NearestAbove(c, j, i) /\ c[i].line = c[j].line
    BY <1>2, <2>1 DEF Right
  <2>3. NearestAbove(z, j, i) /\ z[i].line = z[j].line
    BY <1>2, <1>4, <2>1, <2>2 DEF NearestAbove
  <2> QED BY <2>3
<1>5. CASE j = m + 1
  <2>1. NearestAbove(z, j, m) /\ z[m].line = z[j].line /\ m \in 1..j
    BY <1>1, <1>2, <1>5 DEF NearestAbove
  <2> QED BY <2>1
<1>6. CASE j > m + 1
  <2>1. j - 1 \in (m + 1)..Len(c) /\ z[j] = c[j - 1] /\ c[j - 1].reply # Nobody
    <3>1. j - 1 \in (m + 1)..Len(c) /\ (j - 1) + 1 = j
      BY <1>1, <1>6
    <3> QED BY <3>1, <1>2, <1>3
  <2>2. PICK i \in 1..(j - 1) : NearestAbove(c, j - 1, i) /\ c[i].line = c[j - 1].line
    BY <1>2, <2>1 DEF Right
  <2>3. i >= m
    BY <2>1, <2>2 DEF NearestAbove
  <2>4. CASE i = m
    <3>1. ASSUME NEW k \in (m + 1)..j PROVE z[k].reply # Nobody
      <4>1. CASE k = m + 1 BY <4>1, <1>1, <1>2
      <4>2. CASE k # m + 1
        <5>1. k - 1 \in (m + 1)..(j - 1) /\ k - 1 \in (m + 1)..Len(c) /\ (k - 1) + 1 = k
          BY <4>2, <2>1
        <5>2. z[k] = c[k - 1]
          BY <5>1, <1>2
        <5> QED BY <5>1, <5>2, <2>2, <2>4 DEF NearestAbove
      <4> QED BY <4>1, <4>2
    <3>2. NearestAbove(z, j, m) /\ z[m].line = z[j].line /\ m \in 1..j
      BY <3>1, <2>1, <2>2, <2>4, <1>2, <1>6 DEF NearestAbove
    <3> QED BY <3>2
  <2>5. CASE i > m
    <3>1. i + 1 \in 1..j /\ i \in (m + 1)..Len(c) /\ z[i + 1] = c[i]
      BY <2>1, <2>2, <2>5, <1>2
    <3>2. ASSUME NEW k \in ((i + 1) + 1)..j PROVE z[k].reply # Nobody
      <4>1. k - 1 \in (i + 1)..(j - 1) /\ k - 1 \in (m + 1)..Len(c) /\ (k - 1) + 1 = k
        BY <2>1, <2>5
      <4>2. z[k] = c[k - 1]
        BY <4>1, <1>2
      <4> QED BY <4>1, <4>2, <2>2 DEF NearestAbove
    <3>3. NearestAbove(z, j, i + 1) /\ z[i + 1].line = z[j].line
      BY <3>1, <3>2, <2>1, <2>2 DEF NearestAbove
    <3> QED BY <3>1, <3>3
  <2> QED BY <2>3, <2>4, <2>5
<1> QED BY <1>4, <1>5, <1>6, <1>1
-----------------------------------------------------------------------------
(* The insertions: the one of the topmost line last, after those below it. *)

New(w, b, i) == [line |-> b[i].line, reply |-> ReplyTo(w, b[i].line)]

At(b, lines) == {i \in DOMAIN b : b[i].reply = Nobody /\ b[i].line \in lines}

Below(f, w, b, s) ==
    IF s = {} THEN b
    ELSE InsertAt(f[s \ {LastInserted(s)}], LastInserted(s) + 1, New(w, b, LastInserted(s)))

From(b, k) == {i \in DOMAIN b : i > Len(b) - k}

LEMMA BelowFrom ==
  ASSUME NEW b \in Seq(Block), NEW k \in Nat, NEW s \in SUBSET From(b, k), s # {}
  PROVE  /\ LastInserted(s) \in s /\ s \ {LastInserted(s)} \in SUBSET From(b, k)
         /\ s \notin SUBSET From(b, k - 1) => s \ {LastInserted(s)} \in SUBSET From(b, k - 1)
<1> DEFINE m == LastInserted(s)
<1>1. s \in SUBSET Nat
  BY DEF From
<1>2. m \in s /\ \A j \in s : m <= j
  BY <1>1, MinIs
<1> HIDE DEF m
<1>3. ASSUME s \notin SUBSET From(b, k - 1) PROVE s \ {m} \in SUBSET From(b, k - 1)
  <2>1. PICK i \in s : i \notin From(b, k - 1)
    BY <1>3
  <2>2. i = Len(b) - k + 1
    BY <2>1 DEF From
  <2>3. \A j \in s : j >= i
    BY <2>2 DEF From
  <2>4. m = i
    BY <1>1, <1>2, <2>1, <2>3
  <2> QED BY <2>2, <2>3, <2>4 DEF From
<1> QED BY <1>2, <1>3 DEF m

Inserts(f, w, b, lines) ==
    /\ Inserted(w, b, lines) = f[At(b, lines)]
    /\ f = [s \in SUBSET At(b, lines) |-> Below(f, w, b, s)]

LEMMA InsertedRecursion ==
  ASSUME NEW w, NEW b \in Seq(Block), NEW lines
  PROVE  \E f : Inserts(f, w, b, lines)
<1> DEFINE A == At(b, lines)
           D(k) == {s \in SUBSET A : s \subseteq From(b, k)}
           Upto(f, k) == f = [s \in D(k) |-> Below(f, w, b, s)]
           P == {n \in Nat : \E f : Upto(f, n)}
<1>1. 0 \in P
  <2>1. D(0) = {{}}
    BY DEF From
  <2> DEFINE f == [s \in D(0) |-> b]
  <2>2. f = [s \in D(0) |-> Below(f, w, b, s)]
    BY <2>1 DEF Below
  <2> QED BY <2>2
<1>2. ASSUME NEW k \in Nat, k \in P PROVE k + 1 \in P
  <2>1. PICK f : f = [s \in D(k) |-> Below(f, w, b, s)]
    BY <1>2
  <2> DEFINE g == [s \in D(k + 1) |-> IF s \in D(k) THEN f[s] ELSE Below(f, w, b, s)]
  <2>2. D(k) \subseteq D(k + 1)
    BY DEF From
  <2>3. ASSUME NEW s \in D(k + 1) PROVE g[s] = Below(g, w, b, s)
    <3>1. CASE s = {}
      BY <3>1, <2>1 DEF Below
    <3>2. CASE s # {} /\ s \in D(k)
      <4>1. s \ {LastInserted(s)} \in D(k)
        BY <3>2, BelowFrom
      <4>2. g[s \ {LastInserted(s)}] = f[s \ {LastInserted(s)}]
        BY <4>1, <2>2
      <4>3. g[s] = f[s] /\ f[s] = Below(f, w, b, s)
        BY <3>2, <2>1
      <4> QED BY <4>2, <4>3 DEF Below
    <3>3. CASE s # {} /\ s \notin D(k)
      <4>1. s \ {LastInserted(s)} \in D(k)
        <5>1. (k + 1) - 1 = k /\ k + 1 \in Nat
          OBVIOUS
        <5> QED BY <3>3, <5>1, BelowFrom
      <4>2. g[s \ {LastInserted(s)}] = f[s \ {LastInserted(s)}]
        BY <4>1, <2>2
      <4>3. g[s] = Below(f, w, b, s)
        BY <3>3
      <4> QED BY <4>2, <4>3 DEF Below
    <3> QED BY <3>1, <3>2, <3>3
  <2>4. g = [s \in D(k + 1) |-> g[s]]
    OBVIOUS
  <2> HIDE DEF g
  <2>5. g = [s \in D(k + 1) |-> Below(g, w, b, s)]
    BY <2>3, <2>4
  <2>6. Upto(g, k + 1)
    BY <2>5
  <2> HIDE DEF Upto, D
  <2> QED BY <2>6
<1>3. Len(b) \in P
  <2>1. Len(b) \in Nat
    OBVIOUS
  <2> HIDE DEF P
  <2>2. Nat \subseteq P
    BY <1>1, <1>2, Induction
  <2> QED BY <2>1, <2>2
<1>4. D(Len(b)) = SUBSET A
  BY DEF From, At
<1>5. \E f : f = [s \in SUBSET A |-> Below(f, w, b, s)]
  BY <1>3, <1>4
<1> DEFINE F == CHOOSE f : f = [s \in SUBSET A |-> Below(f, w, b, s)]
<1>6. F = [s \in SUBSET A |-> Below(F, w, b, s)]
  BY <1>5
<1>7. Inserted(w, b, lines) = F[A]
  BY DEF Inserted, MapThenFoldSet, Below, New, At
<1> HIDE DEF F
<1>8. Inserts(F, w, b, lines)
  BY <1>6, <1>7 DEF Inserts
<1> QED BY <1>8

(* What the blocks are once the replies below the lines at s were inserted. *)
Extends(w, b, s, c) ==
    /\ c \in Seq(Block) /\ Right(c) /\ Len(c) >= Len(b)
    /\ \A i \in DOMAIN b : (\A j \in s : i <= j) => c[i] = b[i]
    /\ \A j \in DOMAIN c : c[j].reply # Nobody =>
         \/ \E i \in DOMAIN b : c[j] = b[i]
         \/ \E i \in s : c[j] = New(w, b, i)
    /\ \A i \in s : \E j \in DOMAIN c : c[j] = New(w, b, i)

LEMMA ExtendsBelow ==
  ASSUME NEW w, NEW b \in Seq(Block), NEW lines, NEW s \in SUBSET At(b, lines), s # {},
         \A i \in At(b, lines) : ReplyTo(w, b[i].line) \in Replying,
         NEW c, Extends(w, b, s \ {LastInserted(s)}, c),
         NEW z, z = InsertAt(c, LastInserted(s) + 1, New(w, b, LastInserted(s)))
  PROVE  Extends(w, b, s, z)
<1> DEFINE m == LastInserted(s)
<1>1. s \subseteq Nat /\ DOMAIN b = 1..Len(b) /\ Len(b) \in Nat /\ s \subseteq DOMAIN b
  BY DEF At
<1>2. m \in s /\ \A j \in s : m <= j
  BY <1>1, MinIs
<1>3. Extends(w, b, s \ {m}, c) /\ z = InsertAt(c, m + 1, New(w, b, m))
  OBVIOUS
<1> HIDE DEF m
<1>4. c \in Seq(Block) /\ Len(c) \in Nat /\ DOMAIN c = 1..Len(c)
  BY <1>3 DEF Extends
<1>5. m \in 1..Len(c) /\ m \in DOMAIN b /\ b[m].reply = Nobody
  BY <1>1, <1>2, <1>3, <1>4 DEF Extends, At
<1>6. \A i \in DOMAIN b : i <= m => c[i] = b[i]
  <2> SUFFICES ASSUME NEW i \in DOMAIN b, i <= m PROVE c[i] = b[i]
    OBVIOUS
  <2>1. \A j \in s \ {m} : i <= j
    BY <1>1, <1>2
  <2> QED BY <2>1, <1>3 DEF Extends
<1> DEFINE e == New(w, b, m)
<1>7. /\ e = [line |-> c[m].line, reply |-> ReplyTo(w, b[m].line)]
      /\ ReplyTo(w, b[m].line) \in Replying /\ c[m].reply = Nobody
      /\ c[m] \in Block
  BY <1>2, <1>4, <1>5, <1>6 DEF New
<1> HIDE DEF e
<1>8. e \in Block
  BY <1>7 DEF Block
<1>9. /\ z \in Seq(Block) /\ DOMAIN z = 1..(Len(c) + 1)
      /\ \A i \in 1..m : z[i] = c[i]
      /\ z[m + 1] = e
      /\ \A i \in (m + 1)..Len(c) : z[i + 1] = c[i]
  <2>1. z = InsertAt(c, m + 1, e)
    BY <1>3 DEF e
  <2>2. LET x == InsertAt(c, m + 1, e)
        IN  /\ x \in Seq(Block) /\ DOMAIN x = 1..(Len(c) + 1)
            /\ \A i \in 1..m : x[i] = c[i]
            /\ x[m + 1] = e
            /\ \A i \in (m + 1)..Len(c) : x[i + 1] = c[i]
    BY <1>4, <1>5, <1>8, InsertAtIs, ZenonT(40)
  <2> QED BY <2>1, <2>2
<1>10. Right(z)
  <2>1. Right(c) /\ z = InsertAt(c, m + 1, e)
    BY <1>3 DEF Extends, e
  <2> QED BY <2>1, <1>4, <1>5, <1>7, InsertedBelow
<1>11. Len(z) = Len(c) + 1 /\ Len(z) >= Len(b)
  BY <1>3, <1>4, <1>9, <1>1 DEF Extends
<1>12. ASSUME NEW i \in DOMAIN b, \A j \in s : i <= j PROVE z[i] = b[i]
  BY <1>12, <1>1, <1>2, <1>5, <1>6, <1>9
<1>13. ASSUME NEW j \in DOMAIN z, z[j].reply # Nobody
       PROVE  \/ \E i \in DOMAIN b : z[j] = b[i]
              \/ \E i \in s : z[j] = New(w, b, i)
  <2>1. CASE j = m + 1
    BY <2>1, <1>2, <1>9 DEF e
  <2>2. ASSUME NEW k \in DOMAIN c, z[j] = c[k]
        PROVE  \/ \E i \in DOMAIN b : z[j] = b[i]
               \/ \E i \in s : z[j] = New(w, b, i)
    BY <2>2, <1>3, <1>13 DEF Extends
  <2>3. CASE j <= m
    <3>1. j \in DOMAIN c /\ z[j] = c[j]
      BY <2>3, <1>4, <1>5, <1>9
    <3> QED BY <3>1, <2>2
  <2>4. CASE j > m + 1
    <3> DEFINE k == j - 1
    <3>1. k \in (m + 1)..Len(c) /\ k + 1 = j /\ k \in DOMAIN c
      BY <2>4, <1>4, <1>5, <1>9
    <3> HIDE DEF k
    <3>2. z[j] = c[k]
      BY <3>1, <1>9
    <3> QED BY <3>1, <3>2, <2>2
  <2> QED BY <2>1, <2>3, <2>4, <1>5, <1>9
<1>14. ASSUME NEW i \in s PROVE \E j \in DOMAIN z : z[j] = New(w, b, i)
  <2>1. CASE i = m
    <3>1. m + 1 \in DOMAIN z
      BY <1>4, <1>5, <1>9
    <3> QED BY <3>1, <2>1, <1>9 DEF e
  <2>2. CASE i # m
    <3>1. PICK j \in DOMAIN c : c[j] = New(w, b, i)
      BY <2>2, <1>3 DEF Extends
    <3>2. CASE j <= m
      BY <3>1, <3>2, <1>4, <1>9
    <3>3. CASE j > m
      <4>1. j \in (m + 1)..Len(c) /\ j + 1 \in DOMAIN z
        BY <3>3, <1>4, <1>5, <1>9
      <4>2. z[j + 1] = New(w, b, i)
        BY <4>1, <3>1, <1>9
      <4> QED BY <4>1, <4>2
    <3> QED BY <3>2, <3>3, <1>4, <1>5
  <2> QED BY <2>1, <2>2
<1> QED BY <1>9, <1>10, <1>11, <1>12, <1>13, <1>14 DEF Extends

LEMMA InsertedExtends ==
  ASSUME NEW w, NEW b \in Seq(Block), Right(b), NEW lines,
         \A i \in At(b, lines) : ReplyTo(w, b[i].line) \in Replying
  PROVE  Extends(w, b, At(b, lines), Inserted(w, b, lines))
<1> DEFINE A == At(b, lines)
<1>1. PICK f : Inserts(f, w, b, lines)
  BY InsertedRecursion
<1>2. ASSUME NEW s \in SUBSET A PROVE f[s] = Below(f, w, b, s)
  BY <1>1 DEF Inserts
<1> DEFINE D(k) == {s \in SUBSET A : s \subseteq From(b, k)}
           P == {n \in Nat : \A s \in D(n) : Extends(w, b, s, f[s])}
<1>3. Extends(w, b, {}, f[{}])
  <2>1. f[{}] = b
    BY <1>2 DEF Below
  <2> QED BY <2>1 DEF Extends
<1>4. 0 \in P
  <2>1. D(0) = {{}}
    BY DEF From
  <2> QED BY <2>1, <1>3
<1>5. ASSUME NEW k \in Nat, k \in P PROVE k + 1 \in P
  <2>1. ASSUME NEW s \in D(k + 1) PROVE Extends(w, b, s, f[s])
    <3>1. CASE s \in D(k)
      BY <3>1, <1>5
    <3>2. CASE s \notin D(k) /\ s # {}
      <4> DEFINE m == LastInserted(s)
      <4>1. s \ {m} \in D(k)
        <5>1. (k + 1) - 1 = k /\ k + 1 \in Nat
          OBVIOUS
        <5> QED BY <3>2, <5>1, BelowFrom
      <4>2. Extends(w, b, s \ {m}, f[s \ {m}])
        BY <4>1, <1>5
      <4>3. f[s] = InsertAt(f[s \ {m}], m + 1, New(w, b, m))
        BY <3>2, <1>2 DEF Below
      <4> QED BY <3>2, <4>2, <4>3, ExtendsBelow
    <3>3. CASE s = {}
      BY <3>3, <1>3
    <3> QED BY <3>1, <3>2, <3>3
  <2> QED BY <2>1
<1>6. A \in D(Len(b)) /\ Len(b) \in Nat
  BY DEF From, At
<1>7. Len(b) \in P
  <2> HIDE DEF P
  <2>1. Nat \subseteq P
    BY <1>4, <1>5, Induction
  <2> QED BY <2>1, <1>6
<1> QED BY <1>1, <1>6, <1>7 DEF Inserts

-----------------------------------------------------------------------------
(* The blocks of a document: the rows of its lines, one after another.     *)

Row(d, l) ==
    LET under == SetToSeq({r \in d.replies : r.under = l})
    IN IF d.typed[l] = 0 THEN << >>
       ELSE <<[line |-> l, reply |-> Nobody]>> \o
            [i \in DOMAIN under |-> [line |-> l, reply |-> under[i]]]

Joined(S, y, x, z) ==
    /\ z \in Seq(S) /\ DOMAIN z = 1..(Len(y) + Len(x)) /\ Len(z) = Len(y) + Len(x)
    /\ DOMAIN y = 1..Len(y) /\ DOMAIN x = 1..Len(x)
    /\ Len(y) \in Nat /\ Len(x) \in Nat
    /\ \A i \in 1..Len(y) : z[i] = y[i]
    /\ \A i \in 1..Len(x) : z[Len(y) + i] = x[i]

LEMMA Concat ==
  ASSUME NEW S, NEW y \in Seq(S), NEW x \in Seq(S)
  PROVE  Joined(S, y, x, y \o x)
<1> DEFINE z == y \o x
<1>1. z \in Seq(S) /\ Len(z) = Len(y) + Len(x)
  BY ConcatProperties, Zenon
<1>2. \A i \in 1..(Len(y) + Len(x)) : z[i] = IF i <= Len(y) THEN y[i] ELSE x[i - Len(y)]
  BY ConcatProperties
<1>3. Len(y) \in Nat /\ Len(x) \in Nat /\ DOMAIN y = 1..Len(y) /\ DOMAIN x = 1..Len(x)
  OBVIOUS
<1>4. ASSUME NEW i \in 1..Len(x) PROVE z[Len(y) + i] = x[i]
  <2>1. /\ Len(y) + i \in 1..(Len(y) + Len(x)) /\ ~(Len(y) + i <= Len(y))
        /\ (Len(y) + i) - Len(y) = i
    BY <1>3
  <2> QED BY <2>1, <1>2
<1>5. ASSUME NEW i \in 1..Len(y) PROVE z[i] = y[i]
  <2>1. i \in 1..(Len(y) + Len(x)) /\ i <= Len(y)
    BY <1>3
  <2> QED BY <2>1, <1>2
<1> QED BY <1>1, <1>3, <1>4, <1>5 DEF Joined

LEMMA SetAsSeq ==
  ASSUME NEW S, IsFiniteSet(S)
  PROVE  SetToSeq(S) \in Seq(S)
<1>1. PICK f : f \in Bijection(1..Cardinality(S), S)
  BY FS_CardinalityType DEF ExistsBijection
<1>2. f \in [1..Cardinality(S) -> S] /\ IsInjective(f)
  BY <1>1 DEF Bijection, Injection, IsInjective
<1>3. SetToSeq(S) \in [1..Cardinality(S) -> S]
  BY <1>2 DEF SetToSeq
<1> QED BY <1>3, FS_CardinalityType

(* What the first rows of a document are. *)
Reads(d, n, z) ==
    /\ z \in Seq(Block) /\ Right(z)
    /\ \A j \in DOMAIN z : z[j].reply # Nobody =>
         z[j].reply \in d.replies /\ z[j].reply.under = z[j].line
    /\ \A l \in 1..n : d.typed[l] > 0 =>
         \E j \in DOMAIN z : z[j] = [line |-> l, reply |-> Nobody]

LEMMA RowReads ==
  ASSUME NEW d \in Doc, NEW l \in Lines
  PROVE  /\ Row(d, l) \in Seq(Block) /\ Right(Row(d, l))
         /\ \A j \in DOMAIN Row(d, l) : Row(d, l)[j].reply # Nobody =>
              Row(d, l)[j].reply \in d.replies /\ Row(d, l)[j].reply.under = Row(d, l)[j].line
         /\ d.typed[l] > 0 => \E j \in DOMAIN Row(d, l) : Row(d, l)[j] = [line |-> l, reply |-> Nobody]
<1> DEFINE U == {r \in d.replies : r.under = l}
           under == SetToSeq(U)
           x == [i \in DOMAIN under |-> [line |-> l, reply |-> under[i]]]
           y == <<[line |-> l, reply |-> Nobody]>>
           z == Row(d, l)
<1>1. IsFiniteSet(U) /\ U \subseteq Replying /\ d.typed[l] \in Nat
  BY FS_Subset DEF Doc
<1> HIDE DEF U
<1>2. under \in Seq(U)
  BY <1>1, SetAsSeq
<1>3. z = IF d.typed[l] = 0 THEN << >> ELSE y \o x
  BY DEF Row, U
<1> HIDE DEF z, under
<1>4. x \in Seq(Block) /\ \A j \in DOMAIN x : x[j].reply \in U /\ x[j].line = l
  <2>1. /\ DOMAIN under = 1..Len(under) /\ Len(under) \in Nat
        /\ \A i \in 1..Len(under) : under[i] \in U
    BY <1>2
  <2>2. \A i \in 1..Len(under) : [line |-> l, reply |-> under[i]] \in Block
    BY <1>1, <2>1 DEF Block
  <2>3. x \in [1..Len(under) -> Block]
    BY <2>1, <2>2
  <2> QED BY <2>1, <2>3
<1> HIDE DEF x
<1>5. y \in Seq(Block) /\ Len(y) = 1 /\ y[1] = [line |-> l, reply |-> Nobody]
  BY DEF Block
<1> HIDE DEF y
<1>6. CASE d.typed[l] = 0
  <2>1. z = << >>
    BY <1>3, <1>6
  <2>2. << >> \in Seq(Block) /\ DOMAIN << >> = {}
    OBVIOUS
  <2>3. Right(z)
    BY <2>1, <2>2 DEF Right
  <2> QED BY <2>1, <2>2, <2>3, <1>6, <1>1 DEF z
<1>7. CASE d.typed[l] # 0
  <2>1. /\ z \in Seq(Block) /\ DOMAIN z = 1..(1 + Len(x)) /\ DOMAIN x = 1..Len(x)
        /\ Len(x) \in Nat
        /\ z[1] = y[1] /\ \A i \in 1..Len(x) : z[1 + i] = x[i]
    <3>1. z = y \o x
      BY <1>3, <1>7
    <3>2. x \in Seq(Block) /\ y \in Seq(Block)
      BY <1>4, <1>5
    <3>3. Joined(Block, y, x, z)
      BY <3>1, <3>2, Concat
    <3> QED BY <3>3, <1>5 DEF Joined
  <2>2. ASSUME NEW j \in DOMAIN z, j # 1
        PROVE  z[j].reply \in U /\ z[j].line = l
    <3> DEFINE k == j - 1
    <3>1. k \in 1..Len(x) /\ 1 + k = j
      BY <2>1, <2>2
    <3> HIDE DEF k
    <3>2. z[j] = x[k]
      BY <3>1, <2>1
    <3> QED BY <3>1, <3>2, <2>1, <1>4
  <2>3. 1 \in DOMAIN z /\ z[1].reply = Nobody /\ z[1].line = l
        /\ z[1] = [line |-> l, reply |-> Nobody]
    BY <2>1, <1>5
  <2>4. \A r \in U : r # Nobody /\ r \in d.replies /\ r.under = l
    BY <1>1, EditorAgentAssumption DEF U
  <2>5. Right(z)
    <3>1. SUFFICES ASSUME NEW j \in DOMAIN z, z[j].reply # Nobody
                   PROVE  \E i \in 1..j : NearestAbove(z, j, i) /\ z[i].line = z[j].line
      BY DEF Right
    <3>2. \A k \in (1 + 1)..j : z[k].reply # Nobody
      BY <2>1, <2>2, <2>4
    <3>3. j # 1
      BY <3>1, <2>3
    <3>4. NearestAbove(z, j, 1) /\ z[1].line = z[j].line /\ 1 \in 1..j
      BY <3>1, <3>2, <3>3, <2>1, <2>2, <2>3 DEF NearestAbove
    <3> QED BY <3>4
  <2>6. ASSUME NEW j \in DOMAIN z, z[j].reply # Nobody
        PROVE  z[j].reply \in d.replies /\ z[j].reply.under = z[j].line
    BY <2>6, <2>2, <2>3, <2>4
  <2> QED BY <2>1, <2>3, <2>5, <2>6 DEF z
<1> QED BY <1>6, <1>7

(* FlattenSeq, one row after another. *)
Flattens(f, ss, n) ==
    f = [i \in 1..n |-> IF i = 1 THEN ss[i] ELSE f[i - 1] \o ss[i]]

LEMMA FlattenRecursion ==
  ASSUME NEW ss, NEW n \in Nat, Len(ss) = n, n # 0
  PROVE  \E f : Flattens(f, ss, n) /\ FlattenSeq(ss) = f[n]
<1> DEFINE P == {k \in Nat : \E f : Flattens(f, ss, k)}
<1>1. 0 \in P
  <2>1. Flattens([i \in 1..0 |-> 0], ss, 0)
    BY DEF Flattens
  <2> QED BY <2>1
<1>2. ASSUME NEW k \in Nat, k \in P PROVE k + 1 \in P
  <2>1. PICK f : f = [i \in 1..k |-> IF i = 1 THEN ss[i] ELSE f[i - 1] \o ss[i]]
    BY <1>2 DEF Flattens
  <2> DEFINE g == [i \in 1..(k + 1) |-> IF i \in 1..k THEN f[i]
                                       ELSE IF i = 1 THEN ss[i] ELSE f[i - 1] \o ss[i]]
  <2>2. ASSUME NEW i \in 1..(k + 1)
        PROVE  g[i] = IF i = 1 THEN ss[i] ELSE g[i - 1] \o ss[i]
    <3>1. i # 1 => i - 1 \in 1..k /\ i - 1 \in 1..(k + 1)
      OBVIOUS
    <3>2. i # 1 => g[i - 1] = f[i - 1]
      BY <3>1
    <3> QED BY <3>1, <3>2, <2>1
  <2>3. g = [i \in 1..(k + 1) |-> g[i]]
    OBVIOUS
  <2> HIDE DEF g
  <2>4. g = [i \in 1..(k + 1) |-> IF i = 1 THEN ss[i] ELSE g[i - 1] \o ss[i]]
    BY <2>2, <2>3
  <2>5. Flattens(g, ss, k + 1)
    BY <2>4, Zenon DEF Flattens
  <2> QED BY <2>5
<1>3. n \in P
  <2> HIDE DEF P
  <2> QED BY <1>1, <1>2, Induction
<1> DEFINE F == CHOOSE f : Flattens(f, ss, n)
<1>4. Flattens(F, ss, n)
  BY <1>3
<1>5. FlattenSeq(ss) = F[n]
  BY DEF FlattenSeq, Flattens
<1> QED BY <1>4, <1>5

LEMMA FlattenAt ==
  ASSUME NEW f, NEW ss, NEW n \in Nat, Flattens(f, ss, n)
  PROVE  /\ n # 0 => f[1] = ss[1]
         /\ \A k \in 1..(n - 1) : f[k + 1] = f[k] \o ss[k + 1]
<1>1. ASSUME NEW i \in 1..n PROVE f[i] = IF i = 1 THEN ss[i] ELSE f[i - 1] \o ss[i]
  BY DEF Flattens
<1>2. ASSUME NEW k \in 1..(n - 1) PROVE f[k + 1] = f[k] \o ss[k + 1]
  <2>1. k + 1 \in 1..n /\ k + 1 # 1 /\ (k + 1) - 1 = k
    OBVIOUS
  <2> QED BY <2>1, <1>1
<1>3. n # 0 => f[1] = ss[1]
  BY <1>1
<1> QED BY <1>2, <1>3

LEMMA ReadsMore ==
  ASSUME NEW d \in Doc, NEW k \in Nat, k + 1 \in Lines, NEW y, Reads(d, k, y),
         NEW z, z = y \o Row(d, k + 1)
  PROVE  Reads(d, k + 1, z)
<1> DEFINE x == Row(d, k + 1)
<1>1. /\ x \in Seq(Block) /\ Right(x)
      /\ \A j \in DOMAIN x : x[j].reply # Nobody =>
           x[j].reply \in d.replies /\ x[j].reply.under = x[j].line
      /\ d.typed[k + 1] > 0 => \E j \in DOMAIN x : x[j] = [line |-> k + 1, reply |-> Nobody]
  BY RowReads
<1>2. z = y \o x /\ y \in Seq(Block)
  BY DEF Reads
<1> HIDE DEF x
<1>3. /\ z \in Seq(Block) /\ DOMAIN z = 1..(Len(y) + Len(x)) /\ DOMAIN y = 1..Len(y)
      /\ DOMAIN x = 1..Len(x) /\ Len(x) \in Nat /\ Len(y) \in Nat
      /\ \A i \in 1..Len(y) : z[i] = y[i]
      /\ \A i \in 1..Len(x) : z[Len(y) + i] = x[i]
  <2>1. x \in Seq(Block) /\ y \in Seq(Block)
    BY <1>1, <1>2
  <2>2. Joined(Block, y, x, z)
    BY <2>1, <1>2, Concat
  <2> QED BY <2>2 DEF Joined
<1>4. ASSUME NEW j \in DOMAIN z, j > Len(y)
      PROVE  \E i \in DOMAIN x : j = Len(y) + i /\ z[j] = x[i]
  <2> DEFINE i == j - Len(y)
  <2>1. i \in 1..Len(x) /\ j = Len(y) + i
    BY <1>3, <1>4
  <2> HIDE DEF i
  <2> QED BY <2>1, <1>3
<1>5. Right(z)
  <2>1. SUFFICES ASSUME NEW j \in DOMAIN z, z[j].reply # Nobody
                 PROVE  \E i \in 1..j : NearestAbove(z, j, i) /\ z[i].line = z[j].line
    BY DEF Right
  <2>2. CASE j <= Len(y)
    <3>1. j \in DOMAIN y /\ z[j] = y[j]
      BY <2>2, <1>3
    <3>2. PICK i \in 1..j : NearestAbove(y, j, i) /\ y[i].line = y[j].line
      BY <3>1, <2>1 DEF Reads, Right
    <3>3. NearestAbove(z, j, i) /\ z[i].line = z[j].line
      BY <3>1, <3>2, <1>3 DEF NearestAbove
    <3> QED BY <3>3
  <2>3. CASE j > Len(y)
    <3>1. PICK jj \in DOMAIN x : j = Len(y) + jj /\ z[j] = x[jj]
      BY <2>3, <1>4
    <3>2. PICK i \in 1..jj : NearestAbove(x, jj, i) /\ x[i].line = x[jj].line
      BY <3>1, <2>1, <1>1 DEF Right
    <3>3. Len(y) + i \in 1..j /\ i \in 1..Len(x) /\ z[Len(y) + i] = x[i] /\ jj \in Nat
      BY <3>1, <3>2, <1>3, SMTT(30)
    <3>4. ASSUME NEW q \in ((Len(y) + i) + 1)..j PROVE z[q].reply # Nobody
      <4>1. PICK n \in DOMAIN x : q = Len(y) + n /\ z[q] = x[n]
        <5>1. q \in DOMAIN z /\ q > Len(y)
          BY <3>1, <3>2, <1>3, SMTT(30)
        <5> QED BY <5>1, <1>4
      <4>2. n \in (i + 1)..jj
        <5>1. Len(y) \in Nat /\ n \in Nat /\ jj \in Nat /\ i \in Nat
          BY <1>3, <3>3
        <5> QED BY <5>1, <4>1, <3>1
      <4> QED BY <4>1, <4>2, <3>2 DEF NearestAbove
    <3>5. NearestAbove(z, j, Len(y) + i) /\ z[Len(y) + i].line = z[j].line
      BY <3>1, <3>2, <3>3, <3>4 DEF NearestAbove
    <3> QED BY <3>3, <3>5
  <2> QED BY <2>2, <2>3, <1>3
<1>6. ASSUME NEW j \in DOMAIN z, z[j].reply # Nobody
      PROVE  z[j].reply \in d.replies /\ z[j].reply.under = z[j].line
  <2>1. CASE j <= Len(y)
    BY <2>1, <1>3, <1>6 DEF Reads
  <2>2. CASE j > Len(y)
    BY <2>2, <1>1, <1>4, <1>6
  <2> QED BY <2>1, <2>2, <1>3
<1>7. ASSUME NEW l \in 1..(k + 1), d.typed[l] > 0
      PROVE  \E j \in DOMAIN z : z[j] = [line |-> l, reply |-> Nobody]
  <2>1. CASE l = k + 1
    <3>1. PICK j \in DOMAIN x : x[j] = [line |-> l, reply |-> Nobody]
      BY <2>1, <1>1, <1>7
    <3>2. Len(y) + j \in DOMAIN z
      BY <1>3
    <3> QED BY <3>1, <3>2, <1>3
  <2>2. CASE l # k + 1
    <3>1. PICK j \in DOMAIN y : y[j] = [line |-> l, reply |-> Nobody]
      <4>1. l \in 1..k
        BY <2>2
      <4> QED BY <4>1, <1>7 DEF Reads
    <3>2. j \in DOMAIN z
      BY <1>3
    <3> QED BY <3>1, <3>2, <1>3
  <2> QED BY <2>1, <2>2
<1> QED BY <1>3, <1>5, <1>6, <1>7 DEF Reads

LEMMA BlocksRead ==
  ASSUME NEW d \in Doc
  PROVE  Reads(d, Cardinality(Lines), Blocks(d))
<1> DEFINE n == Cardinality(Lines)
           ss == [l \in Lines |-> Row(d, l)]
<1>1. n \in Nat /\ Lines = 1..n
  BY EditorAgentAssumption, FS_CardinalityType
<1>2. Blocks(d) = FlattenSeq(ss)
  BY DEF Blocks, Row
<1> HIDE DEF n
<1>3. Len(ss) = n /\ \A l \in Lines : ss[l] = Row(d, l)
  BY <1>1
<1> HIDE DEF ss
<1>4. CASE n = 0
  <2>1. Blocks(d) = ss
    BY <1>2, <1>3, <1>4 DEF FlattenSeq
  <2>2. ss = << >>
    BY <1>1, <1>4 DEF ss
  <2>3. Right(<< >>) /\ << >> \in Seq(Block)
    BY DEF Right
  <2> QED BY <2>1, <2>2, <2>3, <1>4 DEF Reads, n
<1>5. CASE n # 0
  <2>1. PICK f : Flattens(f, ss, n) /\ FlattenSeq(ss) = f[n]
    BY <1>1, <1>3, <1>5, FlattenRecursion
  <2>2. f[1] = ss[1] /\ \A k \in 1..(n - 1) : f[k + 1] = f[k] \o ss[k + 1]
    BY <1>1, <1>5, <2>1, FlattenAt
  <2> DEFINE P == {k \in Nat : k \in 1..n => Reads(d, k, f[k])}
  <2>3. Reads(d, 1, f[1])
    <3>1. 1 \in Lines /\ f[1] = Row(d, 1)
      BY <1>1, <1>3, <1>5, <2>2
    <3> QED BY <3>1, RowReads DEF Reads
  <2>4. ASSUME NEW k \in Nat, k \in P PROVE k + 1 \in P
    <3>1. CASE k + 1 \in 1..n /\ k # 0
      <4>1. /\ k \in 1..n /\ k \in 1..(n - 1) /\ k + 1 \in Lines
        BY <3>1, <1>1
      <4>2. f[k + 1] = f[k] \o Row(d, k + 1)
        BY <4>1, <2>2, <1>3
      <4>3. Reads(d, k + 1, f[k + 1])
        BY <4>1, <4>2, <2>4, ReadsMore
      <4> QED BY <4>3
    <3>2. CASE k = 0
      BY <3>2, <2>3
    <3>3. CASE k + 1 \notin 1..n
      BY <3>3
    <3> QED BY <3>1, <3>2, <3>3
  <2>5. n \in P
    <3>1. 0 \in P
      OBVIOUS
    <3> HIDE DEF P
    <3> QED BY <3>1, <2>4, <1>1, Induction
  <2>6. n \in 1..n
    BY <1>1, <1>5
  <2> QED BY <2>1, <2>5, <2>6, <1>2 DEF n
<1> QED BY <1>4, <1>5

-----------------------------------------------------------------------------
(* What a scan writes: of what the document held, and of its own replies.  *)

LEMMA PlacedReplies ==
  ASSUME NEW w, NEW d \in Doc, NEW lines \in SUBSET Lines,
         \A l \in lines : d.typed[l] > 0,
         \A l \in lines : ReplyTo(w, l) \in Replying
  PROVE  LET R == Placed(Inserted(w, Blocks(d), lines))
         IN  /\ IsFiniteSet(R)
             /\ \A r \in R : r \in d.replies \/ \E l \in lines : r = ReplyTo(w, l)
             /\ \A l \in lines : ReplyTo(w, l) \in R
<1> DEFINE n == Cardinality(Lines)
           b == Blocks(d)
           c == Inserted(w, b, lines)
           R == Placed(c)
<1>1. n \in Nat /\ Lines = 1..n
  BY EditorAgentAssumption, FS_CardinalityType
<1>2. Reads(d, n, b)
  BY BlocksRead
<1> HIDE DEF n, b
<1>3. b \in Seq(Block) /\ Right(b) /\ \A i \in At(b, lines) : ReplyTo(w, b[i].line) \in Replying
  BY <1>2 DEF Reads, At
<1>4. Extends(w, b, At(b, lines), c)
  BY <1>3, InsertedExtends
<1> HIDE DEF c
<1>5. c \in Seq(Block) /\ Right(c)
  BY <1>4 DEF Extends
<1> DEFINE J == {k \in DOMAIN c : c[k].reply # Nobody}
<1>6. ASSUME NEW j \in J
      PROVE  /\ [c[j].reply EXCEPT !.under = c[j].line] = c[j].reply
             /\ c[j].reply \in d.replies \/ \E l \in lines : c[j].reply = ReplyTo(w, l)
  <2>1. CASE \E i \in DOMAIN b : c[j] = b[i]
    <3>1. c[j].reply \in d.replies /\ c[j].reply.under = c[j].line
      BY <2>1, <1>2 DEF Reads
    <3>2. c[j].reply \in Replying
      BY <3>1 DEF Doc
    <3> QED BY <3>1, <3>2 DEF Replying
  <2>2. CASE \E i \in At(b, lines) : c[j] = New(w, b, i)
    <3>1. PICK i \in At(b, lines) : c[j] = New(w, b, i)
      BY <2>2
    <3>2. b[i].line \in lines /\ c[j].line = b[i].line /\ c[j].reply = ReplyTo(w, b[i].line)
      BY <3>1 DEF At, New
    <3>3. c[j].reply \in Replying /\ c[j].reply.under = c[j].line
      BY <3>2 DEF ReplyTo
    <3> QED BY <3>2, <3>3 DEF Replying
  <2> QED BY <2>1, <2>2, <1>4 DEF Extends
<1>7. R = {c[j].reply : j \in J}
  <2>1. ASSUME NEW j \in J
        PROVE  c[CHOOSE i \in 1..j : /\ c[i].reply = Nobody
                                     /\ \A k \in (i + 1)..j : c[k].reply # Nobody].line
                = c[j].line
    BY <1>5, Nearest, Zenon DEF NearestAbove
  <2>2. R = {[c[j].reply EXCEPT !.under = c[j].line] : j \in J}
    BY <2>1 DEF Placed
  <2> HIDE DEF R, J
  <2> QED BY <2>2, <1>6, ZenonT(40)
<1>8. ASSUME NEW l \in lines PROVE ReplyTo(w, l) \in R
  <2>1. PICK i \in DOMAIN b : b[i] = [line |-> l, reply |-> Nobody]
    BY <1>1, <1>2 DEF Reads
  <2>2. i \in At(b, lines) /\ b[i].line = l
    BY <2>1 DEF At
  <2>3. PICK j \in DOMAIN c : c[j] = New(w, b, i)
    BY <2>2, <1>4 DEF Extends
  <2>4. c[j].reply = ReplyTo(w, l) /\ c[j].reply # Nobody
    BY <2>2, <2>3, EditorAgentAssumption DEF New
  <2> QED BY <2>4, <1>7
<1>9. IsFiniteSet(R)
  <2>1. DOMAIN c = 1..Len(c) /\ Len(c) \in Nat
    BY <1>5
  <2>2. IsFiniteSet(J)
    <3>1. IsFiniteSet(1..Len(c)) /\ J \in SUBSET (1..Len(c))
      BY <2>1, FS_Interval
    <3> HIDE DEF J
    <3> QED BY <3>1, FS_Subset
  <2> DEFINE f == [j \in J |-> c[j].reply]
  <2> HIDE DEF J, R
  <2>3. f \in Surjection(J, R)
    BY <1>7 DEF Surjection
  <2> HIDE DEF f
  <2> QED BY <2>2, <2>3, FS_Surjection
<1>10. \A r \in R : r \in d.replies \/ \E l \in lines : r = ReplyTo(w, l)
  <2> HIDE DEF J, R
  <2> QED BY <1>6, <1>7
<1> QED BY <1>8, <1>9, <1>10 DEF c, b

(* How far everybody and every frame is, and the order of frames.          *)

Presence == [kind : {"AWARENESS"}]
Notice == [kind : {"NOTIFY"}, to : Peers, line : Lines]
Sent == [kind : {"UPDATE"}, doc : Doc] \cup Presence \cup Notice \cup [kind : {"SUBSCRIBE"}]
Got == [kind : {"UPDATE"}, doc : Doc, from : Peers] \cup Presence \cup Notice
         \cup [kind : {"SNAPSHOT"}, doc : Doc]

AgentTypeOK ==
    /\ plan \in Plans
    /\ doc \in [Peers -> Doc] /\ store \in Doc
    /\ pause \in [Humans -> 0..WRITER_QUIET]
    /\ inbox \in [Peers -> Seq(Sent)] /\ outbox \in [Peers -> Seq(Got)]
    /\ room \subseteq Peers
    /\ notices \in [Humans -> SUBSET Lines]
    /\ link \in [Watchers -> BOOLEAN]
    /\ answered \in [Watchers -> SUBSET Texts]
    /\ authors \in [Watchers -> [Lines -> Peers \cup {Nobody}]]
    /\ pending_since \in [Watchers -> [Texts -> 0..Unseen]]
    /\ last_writing \in [Watchers -> 0..WRITER_QUIET]
    /\ drops \in Nat
    /\ begun \in [Watchers -> SUBSET Lines]

(* Who is in the room. *)
Joining(w) ==
    /\ inbox[w] = <<[kind |-> "SUBSCRIBE"]>>
    /\ doc[w] = NewDoc
    /\ \A t \in Texts : pending_since[w][t] = Unseen

RoomInv ==
    /\ Humans \subseteq room
    /\ \A h \in Humans : \A f \in ToSet(inbox[h]) : f.kind \in {"UPDATE", "AWARENESS"}
    /\ \A w \in Watchers :
         /\ w \in room => link[w]
         /\ w \notin room => outbox[w] = << >>
         /\ w \notin room /\ link[w] => Joining(w)
         /\ w \in room \/ ~link[w] => \A f \in ToSet(inbox[w]) : f.kind # "SUBSCRIBE"

(* Every log that is about: no line is ahead of its author, and every      *)
(* reply keeps the promises.                                               *)
HasDoc(f) == f.kind \in {"UPDATE", "SNAPSHOT"}
DocsOf(s) == {f.doc : f \in {g \in ToSet(s) : HasDoc(g)}}

Logs == {store} \cup UNION {{doc[p]} \cup DocsOf(inbox[p]) \cup DocsOf(outbox[p]) : p \in Peers}

Behind(D, d) == \A l \in Lines : d.typed[l] <= D[Author[l]].typed[l]

Sound(r) ==
    /\ r.under = r.line
    /\ r.heard => /\ ~Shared(r.line, AskOf(r)) => r.version = Len(Script[r.line])
                  /\ AskOf(r).kind = "ask" => r.asker = Author[r.line]

DocsInv ==
    /\ \A l \in Lines : doc[Author[l]].typed[l] <= Len(Script[l])
    /\ \A d \in Logs : Behind(doc, d) /\ \A r \in d.replies : Sound(r)

(* A line that a watcher heard being begun. *)
Hears(w, l) == w \in room /\ l \notin begun[w]

Carries(f, l) == HasDoc(f) /\ f.doc.typed[l] > 0

(* The line is known to somebody but its author. *)
Out(l) ==
    \/ store.typed[l] > 0
    \/ \E p \in Peers :
         \/ \E f \in ToSet(outbox[p]) : Carries(f, l)
         \/ /\ p # Author[l]
            /\ doc[p].typed[l] > 0 \/ \E f \in ToSet(inbox[p]) : Carries(f, l)

FirstFrom(s, l, a) ==
    \A i \in DOMAIN s : Carries(s[i], l) /\ (\A j \in 1..(i - 1) : ~Carries(s[j], l))
                          => s[i].kind = "UPDATE" /\ s[i].from = a

FirstHeard(w, l) ==
    /\ doc[w].typed[l] > 0 => authors[w][l] = Author[l]
    /\ doc[w].typed[l] = 0 => FirstFrom(outbox[w], l, Author[l])
    /\ Out(l) => doc[w].typed[l] > 0 \/ \E f \in ToSet(outbox[w]) : Carries(f, l)

AuthorsInv ==
    /\ \A w \in Watchers, l \in Lines : authors[w][l] # Nobody => doc[w].typed[l] > 0
    /\ \A w \in Watchers, l \in Lines : Hears(w, l) => FirstHeard(w, l)

(* What its author typed last, and that somebody is writing, is heard      *)
(* before time passes.                                                     *)
Latest(D, f, l) == f.kind = "UPDATE" /\ f.doc.typed[l] = D[Author[l]].typed[l]

UpToDate(w, l) ==
    \/ doc[w].typed[l] = doc[Author[l]].typed[l]
    \/ \E f \in ToSet(inbox[Author[l]]) \cup ToSet(outbox[w]) : Latest(doc, f, l)

Alerted(w, l) ==
    \/ last_writing[w] <= pause[Author[l]]
    \/ \E f \in ToSet(inbox[Author[l]]) \cup ToSet(outbox[w]) : f.kind = "AWARENESS"

(* A text whose clock runs was seen, and one that was stable for long was  *)
(* seen when somebody was known to be writing.                             *)
SeenBefore(w, t) == \E l \in Lines : \E i \in 1..doc[w].typed[l] : Script[l][i] = t

Held(w, l) ==
    \A t \in Texts :
        /\ t \in ToSet(Script[l]) /\ ~Shared(l, t)
        /\ doc[w].typed[l] > 0 /\ doc[w].typed[l] < Len(Script[l])
        /\ pending_since[w][t] = STABLE
        => last_writing[w] < WRITER_QUIET

GateInv ==
    /\ \A w \in Watchers, t \in Texts : pending_since[w][t] # Unseen => SeenBefore(w, t)
    /\ \A w \in Watchers, l \in Lines : Hears(w, l) =>
         /\ UpToDate(w, l)
         /\ Unfinished(Author[l], l) => Alerted(w, l)
         /\ Held(w, l)

(* A denial comes after its reply, through both queues. *)
Explained(sc, d, h) == {l \in Lines : \E r \in d.replies : r.line = l /\ Denied(h, sc[r.line][r.version])}
Shown(sc, f, h) == IF f.kind = "UPDATE" THEN Explained(sc, f.doc, h) ELSE {}
ShownIn(sc, s, h) == UNION {Shown(sc, f, h) : f \in ToSet(s)}

Preceded(sc, s, h, E) ==
    \A i \in DOMAIN s : s[i].kind = "NOTIFY" /\ s[i].to = h =>
        s[i].line \in E \/ \E j \in 1..(i - 1) : s[i].line \in Shown(sc, s[j], h)

Arriving(h) == Explained(Script, doc[h], h) \cup ShownIn(Script, outbox[h], h)

NoticesInv ==
    \A h \in Humans :
        /\ notices[h] \subseteq Explained(Script, doc[h], h)
        /\ \A f \in ToSet(outbox[h]) : f.kind = "NOTIFY" => f.to = h
        /\ Preceded(Script, outbox[h], h, Explained(Script, doc[h], h))
        /\ \A w \in Watchers : Preceded(Script, inbox[w], h, Arriving(h))

AgentInv == AgentTypeOK /\ RoomInv /\ DocsInv /\ AuthorsInv /\ GateInv /\ NoticesInv

-----------------------------------------------------------------------------
(* Queues. *)

LEMMA TailIs ==
  ASSUME NEW S, NEW s \in Seq(S), s # << >>
  PROVE  /\ Tail(s) \in Seq(S) /\ Head(s) \in S /\ Head(s) \in ToSet(s)
         /\ ToSet(s) = {Head(s)} \cup ToSet(Tail(s))
         /\ Head(s) = s[1] /\ 1 \in DOMAIN s
         /\ DOMAIN Tail(s) \subseteq Nat /\ DOMAIN s \subseteq Nat \ {0}
         /\ \A i \in DOMAIN Tail(s) : i + 1 \in DOMAIN s /\ Tail(s)[i] = s[i + 1]
         /\ \A i \in DOMAIN s : i > 1 => i - 1 \in DOMAIN Tail(s) /\ Tail(s)[i - 1] = s[i]
<1> DEFINE t == Tail(s)
<1>1. /\ t \in Seq(S) /\ Head(s) \in S /\ Len(t) = Len(s) - 1 /\ Len(s) \in Nat /\ Len(s) # 0
      /\ DOMAIN s = 1..Len(s) /\ DOMAIN t = 1..Len(t) /\ Head(s) = s[1]
  BY HeadTailProperties
<1>2. \A i \in 1..Len(t) : t[i] = s[i + 1]
  BY HeadTailProperties
<1> HIDE DEF t
<1>3. \A i \in DOMAIN t : i + 1 \in DOMAIN s
  BY <1>1
<1>4. ASSUME NEW i \in DOMAIN s, i > 1 PROVE i - 1 \in DOMAIN t /\ t[i - 1] = s[i]
  <2>1. i - 1 \in 1..Len(t) /\ (i - 1) + 1 = i
    BY <1>1, <1>4
  <2> QED BY <2>1, <1>1, <1>2
<1>5. 1 \in DOMAIN s /\ DOMAIN t \subseteq Nat /\ DOMAIN s \subseteq Nat \ {0}
  BY <1>1
<1>6. ToSet(s) = {s[1]} \cup ToSet(t)
  <2>1. ASSUME NEW f \in ToSet(s) PROVE f = s[1] \/ f \in ToSet(t)
    <3>1. PICK i \in DOMAIN s : f = s[i]
      BY <2>1 DEF ToSet
    <3>2. i = 1 \/ i > 1
      BY <1>1
    <3> QED BY <3>1, <3>2, <1>4 DEF ToSet
  <2>2. ASSUME NEW f \in ToSet(t) PROVE f \in ToSet(s)
    <3>1. PICK i \in DOMAIN t : f = t[i]
      BY <2>2 DEF ToSet
    <3>2. i + 1 \in DOMAIN s /\ f = s[i + 1]
      BY <3>1, <1>1, <1>2, <1>3
    <3> QED BY <3>2 DEF ToSet
  <2>3. s[1] \in ToSet(s)
    BY <1>5 DEF ToSet
  <2> QED BY <2>1, <2>2, <2>3
<1>7. \A i \in DOMAIN t : t[i] = s[i + 1]
  BY <1>1, <1>2
<1>8. Head(s) \in ToSet(s)
  BY <1>1, <1>6
<1> QED BY <1>1, <1>3, <1>4, <1>5, <1>6, <1>7, <1>8 DEF t

LEMMA ConcatIs ==
  ASSUME NEW S, NEW s \in Seq(S), NEW x \in Seq(S)
  PROVE  s \o x \in Seq(S) /\ ToSet(s \o x) = ToSet(s) \cup ToSet(x)
<1> DEFINE z == s \o x
<1>1. Joined(S, s, x, z)
  BY Concat
<1> HIDE DEF z
<1>2. /\ z \in Seq(S) /\ DOMAIN z = 1..(Len(s) + Len(x)) /\ DOMAIN s = 1..Len(s)
      /\ DOMAIN x = 1..Len(x) /\ Len(s) \in Nat /\ Len(x) \in Nat
      /\ \A i \in 1..Len(s) : z[i] = s[i]
      /\ \A i \in 1..Len(x) : z[Len(s) + i] = x[i]
  BY <1>1 DEF Joined
<1>3. ASSUME NEW f \in ToSet(z) PROVE f \in ToSet(s) \cup ToSet(x)
  <2>1. PICK i \in DOMAIN z : f = z[i]
    BY <1>3 DEF ToSet
  <2>2. CASE i <= Len(s)
    <3>1. i \in DOMAIN s /\ f = s[i]
      BY <2>1, <2>2, <1>2
    <3> QED BY <3>1 DEF ToSet
  <2>3. CASE i > Len(s)
    <3> DEFINE k == i - Len(s)
    <3>1. k \in 1..Len(x) /\ Len(s) + k = i
      BY <2>1, <2>3, <1>2
    <3> HIDE DEF k
    <3>2. k \in DOMAIN x /\ f = x[k]
      BY <3>1, <2>1, <1>2
    <3> QED BY <3>2 DEF ToSet
  <2> QED BY <2>2, <2>3, <1>2
<1>4. ASSUME NEW f \in ToSet(s) PROVE f \in ToSet(z)
  <2>1. PICK i \in DOMAIN s : f = s[i]
    BY <1>4 DEF ToSet
  <2>2. i \in DOMAIN z /\ f = z[i]
    BY <2>1, <1>2
  <2> QED BY <2>2 DEF ToSet
<1>5. ASSUME NEW f \in ToSet(x) PROVE f \in ToSet(z)
  <2>1. PICK i \in DOMAIN x : f = x[i]
    BY <1>5 DEF ToSet
  <2>2. Len(s) + i \in DOMAIN z /\ f = z[Len(s) + i]
    BY <2>1, <1>2
  <2> QED BY <2>2 DEF ToSet
<1> QED BY <1>2, <1>3, <1>4, <1>5 DEF z

LEMMA AppendIs ==
  ASSUME NEW S, NEW s \in Seq(S), NEW e \in S
  PROVE  Append(s, e) \in Seq(S) /\ ToSet(Append(s, e)) = ToSet(s) \cup {e}
<1>1. Append(s, e) = s \o <<e>> /\ <<e>> \in Seq(S)
  BY AppendIsConcat
<1>2. ToSet(<<e>>) = {e}
  BY DEF ToSet
<1> DEFINE x == <<e>>
<1>3. x \in Seq(S)
  BY <1>1
<1>4. ToSet(x) = {e} /\ Append(s, e) = s \o x
  BY <1>1, <1>2
<1> HIDE DEF x
<1>5. s \o x \in Seq(S) /\ ToSet(s \o x) = ToSet(s) \cup ToSet(x)
  BY <1>3, ConcatIs
<1> QED BY <1>4, <1>5

(* What is left of a queue when the rest of it is lost. *)
LEMMA PrefixIs ==
  ASSUME NEW S, NEW s \in Seq(S), NEW m \in 1..2, NEW n \in 0..Len(s)
  PROVE  /\ SubSeq(s, m, n) \in Seq(S) /\ ToSet(SubSeq(s, m, n)) \subseteq ToSet(s)
         /\ m = 1 => /\ DOMAIN SubSeq(s, m, n) \subseteq DOMAIN s
                     /\ \A i \in DOMAIN SubSeq(s, m, n) : SubSeq(s, m, n)[i] = s[i]
                     /\ \A i \in DOMAIN SubSeq(s, m, n) : \A j \in 1..(i - 1) :
                          j \in DOMAIN SubSeq(s, m, n)
<1> DEFINE z == SubSeq(s, m, n)
<1>1. \A i \in m..n : s[i] \in S /\ i \in DOMAIN s
  OBVIOUS
<1>2. /\ z \in Seq(S) /\ Len(z) = IF m <= n THEN n - m + 1 ELSE 0
      /\ \A i \in 1..(n - m + 1) : z[i] = s[m + i - 1]
  BY <1>1, SubSeqProperties
<1> HIDE DEF z
<1>3. DOMAIN z = 1..Len(z) /\ Len(z) \in Nat /\ DOMAIN s = 1..Len(s) /\ Len(s) \in Nat
  BY <1>2
<1>4. ASSUME NEW i \in DOMAIN z
      PROVE  m + i - 1 \in DOMAIN s /\ z[i] = s[m + i - 1]
  <2>1. m <= n /\ i \in 1..(n - m + 1)
    BY <1>2, <1>3
  <2> QED BY <2>1, <1>2, <1>3
<1>5. ToSet(z) \subseteq ToSet(s)
  BY <1>4 DEF ToSet
<1>6. ASSUME m = 1, NEW i \in DOMAIN z
      PROVE  i \in DOMAIN s /\ z[i] = s[i] /\ \A j \in 1..(i - 1) : j \in DOMAIN z
  <2>1. m + i - 1 = i
    BY <1>6, <1>3
  <2> QED BY <2>1, <1>3, <1>4
<1> QED BY <1>2, <1>5, <1>6 DEF z

LEMMA FirstFromTail ==
  ASSUME NEW S, NEW s \in Seq(S), s # << >>, NEW l, NEW a, FirstFrom(s, l, a)
  PROVE  /\ Carries(Head(s), l) => Head(s).kind = "UPDATE" /\ Head(s).from = a
         /\ ~Carries(Head(s), l) => FirstFrom(Tail(s), l, a)
<1> DEFINE t == Tail(s)
<1>1. /\ Head(s) = s[1] /\ 1 \in DOMAIN s /\ DOMAIN t \subseteq Nat
      /\ DOMAIN s \subseteq Nat \ {0}
      /\ \A i \in DOMAIN t : i + 1 \in DOMAIN s /\ t[i] = s[i + 1]
      /\ \A i \in DOMAIN s : i > 1 => i - 1 \in DOMAIN t /\ t[i - 1] = s[i]
  BY TailIs
<1> HIDE DEF t
<1>2. Carries(s[1], l) => s[1].kind = "UPDATE" /\ s[1].from = a
  BY <1>1 DEF FirstFrom
<1>3. ASSUME ~Carries(s[1], l), NEW i \in DOMAIN t, Carries(t[i], l),
             \A j \in 1..(i - 1) : ~Carries(t[j], l)
      PROVE  t[i].kind = "UPDATE" /\ t[i].from = a
  <2>1. i + 1 \in DOMAIN s /\ t[i] = s[i + 1] /\ i \in Nat
    BY <1>1, <1>3
  <2>2. ASSUME NEW j \in 1..((i + 1) - 1) PROVE ~Carries(s[j], l)
    <3>1. CASE j = 1
      BY <3>1, <1>3
    <3>2. CASE j # 1
      <4>1. j \in DOMAIN s /\ j > 1 /\ j - 1 \in 1..(i - 1)
        <5>1. j \in 1..i /\ DOMAIN s = 1..Len(s) /\ Len(s) \in Nat
          BY <2>1
        <5> QED BY <5>1, <2>1, <3>2
      <4>2. t[j - 1] = s[j]
        BY <4>1, <1>1
      <4> QED BY <4>1, <4>2, <1>3
    <3> QED BY <3>1, <3>2
  <2> QED BY <2>1, <2>2, <1>3 DEF FirstFrom
<1> QED BY <1>1, <1>2, <1>3 DEF FirstFrom, t

LEMMA FirstFromAppend ==
  ASSUME NEW S, NEW s \in Seq(S), NEW e \in S, NEW l, NEW a, FirstFrom(s, l, a),
         Carries(e, l) => \/ e.kind = "UPDATE" /\ e.from = a
                         \/ \E f \in ToSet(s) : Carries(f, l)
  PROVE  FirstFrom(Append(s, e), l, a)
<1> DEFINE z == Append(s, e)
<1>1. /\ DOMAIN z = 1..(Len(s) + 1) /\ z[Len(s) + 1] = e /\ \A i \in 1..Len(s) : z[i] = s[i]
      /\ DOMAIN s = 1..Len(s) /\ Len(s) \in Nat
  BY AppendProperties
<1> HIDE DEF z
<1>2. ASSUME NEW i \in DOMAIN z, Carries(z[i], l), \A j \in 1..(i - 1) : ~Carries(z[j], l)
      PROVE  z[i].kind = "UPDATE" /\ z[i].from = a
  <2>1. CASE i = Len(s) + 1
    <3>1. \A f \in ToSet(s) : ~Carries(f, l)
      BY <2>1, <1>1, <1>2 DEF ToSet
    <3> QED BY <3>1, <2>1, <1>1, <1>2
  <2>2. CASE i # Len(s) + 1
    <3>1. i \in DOMAIN s /\ z[i] = s[i] /\ \A j \in 1..(i - 1) : z[j] = s[j]
      BY <2>2, <1>1
    <3> QED BY <3>1, <1>2 DEF FirstFrom
  <2> QED BY <2>1, <2>2
<1> QED BY <1>2 DEF FirstFrom, z

LEMMA PrecededMore ==
  ASSUME NEW sc, NEW s, NEW h, NEW E, NEW F, Preceded(sc, s, h, E), E \subseteq F
  PROVE  Preceded(sc, s, h, F)
  BY DEF Preceded

LEMMA PrecededTail ==
  ASSUME NEW S, NEW s \in Seq(S), s # << >>, NEW sc, NEW h, NEW E, Preceded(sc, s, h, E)
  PROVE  /\ Head(s).kind = "NOTIFY" /\ Head(s).to = h => Head(s).line \in E
         /\ Preceded(sc, Tail(s), h, E \cup Shown(sc, Head(s), h))
<1> DEFINE t == Tail(s)
<1>1. /\ Head(s) = s[1] /\ 1 \in DOMAIN s /\ DOMAIN t \subseteq Nat
      /\ DOMAIN s = 1..Len(s) /\ Len(s) \in Nat
      /\ \A i \in DOMAIN t : i + 1 \in DOMAIN s /\ t[i] = s[i + 1]
      /\ \A i \in DOMAIN s : i > 1 => i - 1 \in DOMAIN t /\ t[i - 1] = s[i]
  BY TailIs
<1> HIDE DEF t
<1>2. s[1].kind = "NOTIFY" /\ s[1].to = h => s[1].line \in E
  BY <1>1 DEF Preceded
<1>3. ASSUME NEW i \in DOMAIN t, t[i].kind = "NOTIFY", t[i].to = h,
             t[i].line \notin E \cup Shown(sc, s[1], h)
      PROVE  \E j \in 1..(i - 1) : t[i].line \in Shown(sc, t[j], h)
  <2>1. i + 1 \in DOMAIN s /\ t[i] = s[i + 1] /\ i \in Nat
    BY <1>1
  <2>2. PICK j \in 1..((i + 1) - 1) : t[i].line \in Shown(sc, s[j], h)
    BY <2>1, <1>3 DEF Preceded
  <2>3. j # 1
    BY <2>2, <1>3
  <2>4. j \in DOMAIN s /\ j > 1 /\ j - 1 \in 1..(i - 1)
    <3>1. j \in 1..i
      BY <2>1
    <3> QED BY <3>1, <2>1, <2>3, <1>1
  <2>5. t[j - 1] = s[j]
    BY <2>4, <1>1
  <2> QED BY <2>2, <2>4, <2>5
<1> QED BY <1>1, <1>2, <1>3 DEF Preceded, t

LEMMA PrecededAppend ==
  ASSUME NEW S, NEW s \in Seq(S), NEW e \in S, NEW sc, NEW h, NEW E, Preceded(sc, s, h, E),
         e.kind = "NOTIFY" /\ e.to = h => e.line \in E \cup ShownIn(sc, s, h)
  PROVE  Preceded(sc, Append(s, e), h, E)
<1> DEFINE z == Append(s, e)
<1>1. /\ DOMAIN z = 1..(Len(s) + 1) /\ z[Len(s) + 1] = e /\ \A i \in 1..Len(s) : z[i] = s[i]
      /\ DOMAIN s = 1..Len(s) /\ Len(s) \in Nat
  BY AppendProperties
<1> HIDE DEF z
<1>2. ASSUME NEW i \in DOMAIN z, z[i].kind = "NOTIFY", z[i].to = h, z[i].line \notin E
      PROVE  \E j \in 1..(i - 1) : z[i].line \in Shown(sc, z[j], h)
  <2>1. CASE i = Len(s) + 1
    <3>1. PICK f \in ToSet(s) : e.line \in Shown(sc, f, h)
      BY <2>1, <1>1, <1>2 DEF ShownIn
    <3>2. PICK j \in DOMAIN s : f = s[j]
      BY <3>1 DEF ToSet
    <3>3. j \in 1..(i - 1) /\ z[j] = s[j]
      BY <3>2, <2>1, <1>1
    <3> QED BY <3>1, <3>2, <3>3, <2>1, <1>1
  <2>2. CASE i # Len(s) + 1
    <3>1. i \in DOMAIN s /\ z[i] = s[i] /\ \A j \in 1..(i - 1) : z[j] = s[j]
      BY <2>2, <1>1
    <3>2. PICK j \in 1..(i - 1) : s[i].line \in Shown(sc, s[j], h)
      BY <3>1, <1>2 DEF Preceded
    <3> QED BY <3>1, <3>2
  <2> QED BY <2>1, <2>2
<1> QED BY <1>2 DEF Preceded, z

LEMMA PrecededConcat ==
  ASSUME NEW S, NEW s \in Seq(S), NEW x \in Seq(S), NEW sc, NEW h, NEW E, Preceded(sc, s, h, E),
         Preceded(sc, x, h, E)
  PROVE  Preceded(sc, s \o x, h, E)
<1> DEFINE z == s \o x
<1>1. Joined(S, s, x, z)
  BY Concat
<1> HIDE DEF z
<1>2. /\ z \in Seq(S) /\ DOMAIN z = 1..(Len(s) + Len(x)) /\ DOMAIN s = 1..Len(s)
      /\ DOMAIN x = 1..Len(x) /\ Len(s) \in Nat /\ Len(x) \in Nat
      /\ \A i \in 1..Len(s) : z[i] = s[i]
      /\ \A i \in 1..Len(x) : z[Len(s) + i] = x[i]
  BY <1>1 DEF Joined
<1>3. ASSUME NEW i \in DOMAIN z, z[i].kind = "NOTIFY", z[i].to = h, z[i].line \notin E
      PROVE  \E j \in 1..(i - 1) : z[i].line \in Shown(sc, z[j], h)
  <2>1. CASE i <= Len(s)
    <3>1. i \in DOMAIN s /\ z[i] = s[i] /\ \A j \in 1..(i - 1) : z[j] = s[j]
      BY <2>1, <1>2
    <3>2. PICK j \in 1..(i - 1) : s[i].line \in Shown(sc, s[j], h)
      BY <3>1, <1>3 DEF Preceded
    <3> QED BY <3>1, <3>2
  <2>2. CASE i > Len(s)
    <3> DEFINE k == i - Len(s)
    <3>1. k \in 1..Len(x) /\ Len(s) + k = i
      BY <2>2, <1>2
    <3> HIDE DEF k
    <3>2. z[i] = x[k] /\ k \in DOMAIN x
      BY <3>1, <1>2
    <3>3. PICK j \in 1..(k - 1) : x[k].line \in Shown(sc, x[j], h)
      BY <3>2, <1>3 DEF Preceded
    <3>4. Len(s) + j \in 1..(i - 1) /\ j \in 1..Len(x)
      BY <3>1, <1>2
    <3>5. z[Len(s) + j] = x[j]
      BY <3>4, <1>2
    <3> QED BY <3>2, <3>3, <3>4, <3>5
  <2> QED BY <2>1, <2>2, <1>2
<1> QED BY <1>3 DEF Preceded, z

LEMMA PrecededPrefix ==
  ASSUME NEW S, NEW s \in Seq(S), NEW n \in 0..Len(s), NEW sc, NEW h, NEW E, Preceded(sc, s, h, E)
  PROVE  Preceded(sc, SubSeq(s, 1, n), h, E)
<1> DEFINE z == SubSeq(s, 1, n)
<1>1. /\ \A i \in DOMAIN z : z[i] = s[i] /\ i \in DOMAIN s
      /\ \A i \in DOMAIN z : \A j \in 1..(i - 1) : j \in DOMAIN z
  BY PrefixIs
<1> HIDE DEF z
<1>2. ASSUME NEW i \in DOMAIN z, z[i].kind = "NOTIFY", z[i].to = h, z[i].line \notin E
      PROVE  \E j \in 1..(i - 1) : z[i].line \in Shown(sc, z[j], h)
  <2>1. PICK j \in 1..(i - 1) : s[i].line \in Shown(sc, s[j], h)
    BY <1>1, <1>2 DEF Preceded
  <2> QED BY <2>1, <1>1
<1> QED BY <1>2 DEF Preceded, z

-----------------------------------------------------------------------------
(* Documents and frames. *)

LEMMA PeersAre ==
  /\ \A h \in Humans : h \in Peers /\ h \notin Watchers
  /\ \A w \in Watchers : w \in Peers /\ w \notin Humans
  /\ \A l \in Lines : Author[l] \in Humans /\ Author[l] \in Peers
  /\ Peers = Humans \cup Watchers
  BY EditorAgentAssumption DEF Peers

LEMMA DocIs ==
  ASSUME NEW d \in Doc
  PROVE  /\ \A l \in Lines : d.typed[l] \in Nat
         /\ IsFiniteSet(d.replies) /\ d.replies \subseteq Replying
  BY DEF Doc

LEMMA NewDocIs ==
  NewDoc \in Doc /\ NewDoc.replies = {} /\ \A l \in Lines : NewDoc.typed[l] = 0
<1>1. IsFiniteSet({})
  BY FS_EmptySet
<1> QED BY <1>1 DEF NewDoc, Doc

LEMMA MergeIs ==
  ASSUME NEW d \in Doc, NEW e \in Doc
  PROVE  /\ Merge(d, e) \in Doc /\ Merge(d, e).replies = d.replies \cup e.replies
         /\ \A l \in Lines : Merge(d, e).typed[l] = Max2(d.typed[l], e.typed[l])
<1>1. IsFiniteSet(d.replies \cup e.replies)
  BY FS_Union, DocIs
<1>2. d.replies \cup e.replies \subseteq Replying
  BY DocIs
<1>3. \A l \in Lines : Max2(d.typed[l], e.typed[l]) \in Nat
  BY DocIs DEF Max2
<1> QED BY <1>1, <1>2, <1>3 DEF Merge, Doc

LEMMA SentIs ==
  ASSUME NEW f \in Sent
  PROVE  /\ f.kind \in {"UPDATE", "AWARENESS", "NOTIFY", "SUBSCRIBE"}
         /\ HasDoc(f) <=> f.kind = "UPDATE"
         /\ HasDoc(f) => f.doc \in Doc
         /\ f.kind = "AWARENESS" => f \in Presence
         /\ f.kind = "NOTIFY" => f \in Notice /\ f.to \in Peers /\ f.line \in Lines
  BY DEF Sent, Presence, Notice, HasDoc

LEMMA GotIs ==
  ASSUME NEW f \in Got
  PROVE  /\ f.kind \in {"UPDATE", "AWARENESS", "NOTIFY", "SNAPSHOT"}
         /\ HasDoc(f) => f.doc \in Doc
         /\ f.kind = "UPDATE" => f.from \in Peers
         /\ f.kind = "NOTIFY" => f.line \in Lines
  BY DEF Got, Presence, Notice, HasDoc

LEMMA InQueue ==
  ASSUME NEW S, NEW s \in Seq(S), NEW f \in ToSet(s)
  PROVE  f \in S
  BY DEF ToSet

LEMMA Typed ==
  ASSUME AgentTypeOK
  PROVE  /\ \A p \in Peers : /\ doc[p] \in Doc /\ inbox[p] \in Seq(Sent) /\ outbox[p] \in Seq(Got)
                             /\ \A f \in ToSet(inbox[p]) : f \in Sent
                             /\ \A f \in ToSet(outbox[p]) : f \in Got
         /\ store \in Doc
         /\ \A l \in Lines : Script[l] \in Seq(Texts)
<1>1. /\ \A p \in Peers : doc[p] \in Doc /\ inbox[p] \in Seq(Sent) /\ outbox[p] \in Seq(Got)
      /\ store \in Doc
  BY DEF AgentTypeOK
<1>2. \A l \in Lines : Script[l] \in Seq(Texts)
  BY EditorAgentAssumption DEF AgentTypeOK, Script
<1> QED BY <1>1, <1>2, InQueue

LEMMA LogsAre ==
  ASSUME AgentTypeOK
  PROVE  /\ \A d \in Logs : d \in Doc
         /\ store \in Logs
         /\ \A p \in Peers : /\ doc[p] \in Logs
                             /\ \A f \in ToSet(inbox[p]) \cup ToSet(outbox[p]) : HasDoc(f) => f.doc \in Logs
<1>1. \A p \in Peers : \A d \in DocsOf(inbox[p]) \cup DocsOf(outbox[p]) : d \in Doc
  BY Typed, SentIs, GotIs DEF DocsOf
<1> QED BY <1>1, Typed DEF Logs, DocsOf

(* The logs after a step that adds some documents to those there were. *)
LEMMA LogsGrow ==
  ASSUME NEW X,
         store' \in Logs \cup X,
         \A p \in Peers : doc'[p] \in Logs \cup X,
         \A p \in Peers : \A f \in ToSet(inbox'[p]) : HasDoc(f) =>
            f \in ToSet(inbox[p]) \/ f.doc \in Logs \cup X,
         \A p \in Peers : \A f \in ToSet(outbox'[p]) : HasDoc(f) =>
            f \in ToSet(outbox[p]) \/ f.doc \in Logs \cup X
  PROVE  \A d \in Logs' : d \in Logs \cup X
<1>1. ASSUME NEW p \in Peers, NEW d \in DocsOf(inbox'[p]) PROVE d \in Logs \cup X
  <2>1. PICK f \in ToSet(inbox'[p]) : HasDoc(f) /\ f.doc = d
    BY <1>1 DEF DocsOf
  <2> QED BY <2>1 DEF Logs, DocsOf
<1>2. ASSUME NEW p \in Peers, NEW d \in DocsOf(outbox'[p]) PROVE d \in Logs \cup X
  <2>1. PICK f \in ToSet(outbox'[p]) : HasDoc(f) /\ f.doc = d
    BY <1>2 DEF DocsOf
  <2> QED BY <2>1 DEF Logs, DocsOf
<1>3. Logs' = {store'} \cup UNION {{doc'[p]} \cup DocsOf(inbox'[p]) \cup DocsOf(outbox'[p]) : p \in Peers}
  BY DEF Logs, DocsOf, ToSet, HasDoc
<1> QED BY <1>1, <1>2, <1>3

LEMMA SoundStays ==
  ASSUME plan' = plan
  PROVE  Script' = Script /\ \A r : Sound(r)' <=> Sound(r)
  BY DEF Sound, Shared, AskOf, Script

LEMMA DocsKeep ==
  ASSUME AgentTypeOK, DocsInv, plan' = plan, NEW X,
         \A l \in Lines : /\ doc'[Author[l]].typed[l] \in Nat
                          /\ doc[Author[l]].typed[l] <= doc'[Author[l]].typed[l]
                          /\ doc'[Author[l]].typed[l] <= Len(Script[l]),
         \A d \in Logs' : d \in Logs \cup X,
         \A d \in X : Behind(doc', d) /\ \A r \in d.replies : Sound(r)
  PROVE  DocsInv'
<1>1. ASSUME NEW d \in Logs PROVE Behind(doc', d)
  <2>1. d \in Doc /\ Behind(doc, d)
    BY LogsAre DEF DocsInv
  <2>2. ASSUME NEW l \in Lines PROVE d.typed[l] <= doc'[Author[l]].typed[l]
    <3>1. d.typed[l] \in Nat /\ d.typed[l] <= doc[Author[l]].typed[l]
      BY <2>1, DocIs DEF Behind
    <3>2. doc[Author[l]].typed[l] \in Nat
      BY Typed, DocIs, PeersAre
    <3> QED BY <3>1, <3>2
  <2> QED BY <2>2 DEF Behind
<1>2. ASSUME NEW d \in Logs' PROVE Behind(doc', d) /\ \A r \in d.replies : Sound(r)
  BY <1>1 DEF DocsInv
<1>3. \A d \in Logs' : Behind(doc', d) /\ \A r \in d.replies : Sound(r)'
  BY <1>2, SoundStays
<1>4. \A l \in Lines : doc'[Author[l]].typed[l] <= Len(Script'[l])
  BY SoundStays
<1>5. DocsInv' = (/\ \A l \in Lines : doc'[Author[l]].typed[l] <= Len(Script'[l])
                  /\ \A d \in Logs' : Behind(doc', d) /\ \A r \in d.replies : Sound(r)')
  BY DEF DocsInv, Behind
<1> QED BY <1>3, <1>4, <1>5

(* Who heard what, after a step that is not about that. *)
LEMMA OutOnly ==
  ASSUME NEW l,
         store'.typed[l] > 0 => Out(l),
         \A p \in Peers : p # Author[l] /\ doc'[p].typed[l] > 0 => Out(l),
         \A p \in Peers : \A f \in ToSet(inbox'[p]) : p # Author[l] /\ Carries(f, l) => Out(l),
         \A p \in Peers : \A f \in ToSet(outbox'[p]) : Carries(f, l) => Out(l)
  PROVE  Out(l)' => Out(l)
<1>1. Out(l)' = (\/ store'.typed[l] > 0
                 \/ \E p \in Peers :
                      \/ \E f \in ToSet(outbox'[p]) : Carries(f, l)
                      \/ /\ p # Author[l]
                         /\ doc'[p].typed[l] > 0 \/ \E f \in ToSet(inbox'[p]) : Carries(f, l))
  BY DEF Out, Carries, HasDoc, ToSet
<1> QED BY <1>1

LEMMA HeardKeeps ==
  ASSUME NEW w, NEW l, FirstHeard(w, l),
         doc'[w].typed[l] = doc[w].typed[l], authors'[w] = authors[w],
         doc[w].typed[l] = 0 => FirstFrom(outbox'[w], l, Author[l]),
         ToSet(outbox[w]) \subseteq ToSet(outbox'[w]),
         Out(l)' => Out(l) \/ \E f \in ToSet(outbox'[w]) : Carries(f, l)
  PROVE  FirstHeard(w, l)'
<1>1. FirstHeard(w, l)' =
        (/\ doc'[w].typed[l] > 0 => authors'[w][l] = Author[l]
         /\ doc'[w].typed[l] = 0 => FirstFrom(outbox'[w], l, Author[l])
         /\ Out(l)' => doc'[w].typed[l] > 0 \/ \E f \in ToSet(outbox'[w]) : Carries(f, l))
  BY DEF FirstHeard, FirstFrom, Carries, HasDoc, ToSet
<1> QED BY <1>1 DEF FirstHeard

(* What a watcher knows of a line, and of its author, is as late as it was. *)
Gate(w, l) ==
    /\ UpToDate(w, l)
    /\ Unfinished(Author[l], l) => Alerted(w, l)
    /\ Held(w, l)

LEMMA GateKeeps ==
  ASSUME plan' = plan, NEW w, NEW l, Gate(w, l), NEW a, a = Author[l],
         doc'[w].typed[l] = doc[w].typed[l], doc'[a].typed[l] = doc[a].typed[l],
         pause'[a] = pause[a], last_writing'[w] = last_writing[w],
         \A t \in Texts : pending_since'[w][t] = STABLE => pending_since[w][t] = STABLE,
         \A f \in ToSet(inbox[a]) \cup ToSet(outbox[w]) : Latest(doc, f, l) =>
            \E g \in ToSet(inbox'[a]) \cup ToSet(outbox'[w]) : Latest(doc, g, l),
         \A f \in ToSet(inbox[a]) \cup ToSet(outbox[w]) : f.kind = "AWARENESS" =>
            \E g \in ToSet(inbox'[a]) \cup ToSet(outbox'[w]) : g.kind = "AWARENESS"
  PROVE  Gate(w, l)'
<1>1. UpToDate(w, l)'
  <2>1. CASE doc[w].typed[l] = doc[a].typed[l]
    BY <2>1 DEF UpToDate
  <2>2. CASE \E f \in ToSet(inbox[a]) \cup ToSet(outbox[w]) : Latest(doc, f, l)
    <3>1. PICK g \in ToSet(inbox'[a]) \cup ToSet(outbox'[w]) : Latest(doc, g, l)
      BY <2>2
    <3>2. Latest(doc', g, l)
      BY <3>1 DEF Latest
    <3>3. UpToDate(w, l)' = (\/ doc'[w].typed[l] = doc'[a].typed[l]
                             \/ \E f \in ToSet(inbox'[a]) \cup ToSet(outbox'[w]) : Latest(doc', f, l))
      BY DEF UpToDate, Latest, ToSet
    <3> QED BY <3>1, <3>2, <3>3
  <2> QED BY <2>1, <2>2 DEF Gate, UpToDate
<1>2. ASSUME Unfinished(a, l)' PROVE Alerted(w, l)'
  <2>1. Unfinished(a, l)
    BY <1>2, SoundStays DEF Unfinished
  <2>2. Alerted(w, l)
    BY <2>1 DEF Gate
  <2>3. Alerted(w, l)' = (\/ last_writing'[w] <= pause'[a]
                          \/ \E f \in ToSet(inbox'[a]) \cup ToSet(outbox'[w]) : f.kind = "AWARENESS")
    BY DEF Alerted, ToSet
  <2> QED BY <2>2, <2>3 DEF Alerted
<1>3. Held(w, l)'
  BY SoundStays DEF Gate, Held, Shared, ToSet
<1> QED BY <1>1, <1>2, <1>3 DEF Gate

LEMMA NoticesAre ==
  NoticesInv' <=>
    \A h \in Humans :
        /\ notices'[h] \subseteq Explained(Script', doc'[h], h)
        /\ \A f \in ToSet(outbox'[h]) : f.kind = "NOTIFY" => f.to = h
        /\ Preceded(Script', outbox'[h], h, Explained(Script', doc'[h], h))
        /\ \A w \in Watchers : Preceded(Script', inbox'[w], h,
                Explained(Script', doc'[h], h) \cup ShownIn(Script', outbox'[h], h))
  BY DEF NoticesInv, Preceded, Arriving, Explained, ShownIn, Shown, ToSet, Denied

LEMMA AuthorsGate ==
  ASSUME AuthorsInv, GateInv, NEW w \in Watchers, NEW l \in Lines, Hears(w, l)
  PROVE  FirstHeard(w, l) /\ Gate(w, l)
  BY DEF AuthorsInv, GateInv, Gate

LEMMA RoomIs ==
  RoomInv' <=>
    /\ Humans \subseteq room'
    /\ \A h \in Humans : \A f \in ToSet(inbox'[h]) : f.kind \in {"UPDATE", "AWARENESS"}
    /\ \A w \in Watchers :
         /\ w \in room' => link'[w]
         /\ w \notin room' => outbox'[w] = << >>
         /\ w \notin room' /\ link'[w] =>
              /\ inbox'[w] = <<[kind |-> "SUBSCRIBE"]>> /\ doc'[w] = NewDoc
              /\ \A t \in Texts : pending_since'[w][t] = Unseen
         /\ w \in room' \/ ~link'[w] => \A f \in ToSet(inbox'[w]) : f.kind # "SUBSCRIBE"
<1> DEFINE J(w) == /\ inbox'[w] = <<[kind |-> "SUBSCRIBE"]>> /\ doc'[w] = NewDoc
                   /\ \A t \in Texts : pending_since'[w][t] = Unseen
<1>1. ASSUME NEW w \in Watchers PROVE Joining(w)' <=> J(w)
  BY DEF Joining, NewDoc, Texts
<1>2. \A p : ToSet(inbox[p])' = ToSet(inbox'[p])
  BY DEF ToSet
<1> HIDE DEF J
<1>3. RoomInv' <=>
    /\ Humans \subseteq room'
    /\ \A h \in Humans : \A f \in ToSet(inbox'[h]) : f.kind \in {"UPDATE", "AWARENESS"}
    /\ \A w \in Watchers :
         /\ w \in room' => link'[w]
         /\ w \notin room' => outbox'[w] = << >>
         /\ w \notin room' /\ link'[w] => J(w)
         /\ w \in room' \/ ~link'[w] => \A f \in ToSet(inbox'[w]) : f.kind # "SUBSCRIBE"
  BY <1>1, <1>2 DEF RoomInv
<1> QED BY <1>3 DEF J

-----------------------------------------------------------------------------
(* The people's steps. *)

LEMMA TypeKeeps ==
  ASSUME AgentInv, plan' = plan, NEW h \in Humans, NEW l \in Lines, Type(h, l)
  PROVE  AgentInv'
<1> DEFINE d == [doc[h] EXCEPT !.typed[l] = @ + 1]
<1>0. AgentTypeOK /\ RoomInv /\ DocsInv /\ AuthorsInv /\ GateInv /\ NoticesInv
  BY DEF AgentInv
<1>1. /\ h \in Peers /\ h \notin Watchers /\ Author[l] = h /\ doc[h] \in Doc
      /\ inbox[h] \in Seq(Sent) /\ doc[h].typed[l] < Len(Script[l])
      /\ \A p \in Peers : doc[p] \in Doc
      /\ outbox' = outbox /\ room' = room /\ store' = store /\ notices' = notices
      /\ link' = link /\ drops' = drops /\ begun' = begun
      /\ answered' = answered /\ authors' = authors /\ pending_since' = pending_since
      /\ last_writing' = last_writing /\ pause' = [pause EXCEPT ![h] = 0]
  BY <1>0, PeersAre, Typed DEF Type, loop
<1>2. /\ d \in Doc /\ d.replies = doc[h].replies /\ d.typed[l] = doc[h].typed[l] + 1
      /\ \A k \in Lines : k # l => d.typed[k] = doc[h].typed[k]
  <2>1. /\ doc[h].typed \in [Lines -> Nat] /\ IsFiniteSet(doc[h].replies)
        /\ doc[h].replies \in SUBSET Replying
        /\ doc[h] = [typed |-> doc[h].typed, replies |-> doc[h].replies]
    BY <1>1 DEF Doc
  <2> DEFINE t == [doc[h].typed EXCEPT ![l] = @ + 1]
  <2>2. t \in [Lines -> Nat] /\ t[l] = doc[h].typed[l] + 1 /\ \A k \in Lines : k # l => t[k] = doc[h].typed[k]
    BY <2>1
  <2>3. d = [typed |-> t, replies |-> doc[h].replies]
    BY <2>1
  <2> HIDE DEF t, d
  <2> QED BY <2>1, <2>2, <2>3 DEF Doc
<1>3. /\ doc' = [doc EXCEPT ![h] = d] /\ inbox' = [inbox EXCEPT ![h] = @ \o <<Update(d), Writing>>]
  BY DEF Type
<1> DEFINE x == <<Update(d), Writing>>
<1>4. x \in Seq(Sent) /\ ToSet(x) = {Update(d), Writing}
  <2>1. Update(d) \in Sent /\ Writing \in Sent
    BY <1>2 DEF Update, Writing, Sent, Presence
  <2> QED BY <2>1 DEF ToSet
<1> HIDE DEF d
<1>5. /\ doc'[h] = d /\ \A p \in Peers : p # h => doc'[p] = doc[p]
      /\ doc' \in [Peers -> Doc]
  BY <1>0, <1>1, <1>2, <1>3 DEF AgentTypeOK
<1>6. /\ inbox'[h] = inbox[h] \o x /\ \A p \in Peers : p # h => inbox'[p] = inbox[p]
      /\ inbox[h] \o x \in Seq(Sent) /\ inbox' \in [Peers -> Seq(Sent)]
      /\ ToSet(inbox[h] \o x) = ToSet(inbox[h]) \cup {Update(d), Writing}
  <2> HIDE DEF x
  <2>1. inbox[h] \o x \in Seq(Sent) /\ ToSet(inbox[h] \o x) = ToSet(inbox[h]) \cup {Update(d), Writing}
    BY <1>1, <1>4, ConcatIs
  <2>2. inbox' = [inbox EXCEPT ![h] = @ \o x]
    BY <1>3 DEF x
  <2> QED BY <2>1, <2>2, <1>0, <1>1 DEF AgentTypeOK
<1> HIDE DEF x
<1>7. ToSet(inbox'[h]) = ToSet(inbox[h]) \cup {Update(d), Writing}
  BY <1>6
<1>8. \A k \in Lines : /\ doc'[Author[k]].typed[k] \in Nat
                       /\ doc[Author[k]].typed[k] <= doc'[Author[k]].typed[k]
                       /\ k # l => doc'[Author[k]].typed[k] = doc[Author[k]].typed[k]
  BY <1>1, <1>2, <1>5, DocIs, PeersAre
<1>9. AgentTypeOK'
  BY <1>0, <1>1, <1>5, <1>6 DEF AgentTypeOK, WRITER_QUIET
<1>10. RoomInv'
  <2>1. \A g \in Humans : \A f \in ToSet(inbox'[g]) : f.kind \in {"UPDATE", "AWARENESS"}
    <3>1. Update(d).kind = "UPDATE" /\ Writing.kind = "AWARENESS"
      BY DEF Update, Writing
    <3> QED BY <3>1, <1>0, <1>6, <1>7, PeersAre DEF RoomInv
  <2>2. \A w \in Watchers : inbox'[w] = inbox[w] /\ doc'[w] = doc[w]
    BY <1>1, <1>5, <1>6, PeersAre
  <2> QED BY <2>1, <2>2, <1>0, <1>1, RoomIs DEF RoomInv, Joining
<1>11. DocsInv'
  <2>1. \A k \in Lines : doc'[Author[k]].typed[k] <= Len(Script[k])
    <3>1. Len(Script[l]) \in Nat
      BY <1>0, Typed
    <3>2. doc'[Author[l]].typed[l] <= Len(Script[l])
      BY <3>1, <1>1, <1>2, <1>5, DocIs
    <3> QED BY <3>2, <1>0, <1>8 DEF DocsInv
  <2>2. doc[h] \in Logs /\ store \in Logs
    BY <1>0, <1>1, LogsAre
  <2>3. \A e \in Logs' : e \in Logs \cup {d}
    <3>1. Update(d).doc = d /\ ~HasDoc(Writing)
      BY DEF Update, Writing, HasDoc
    <3>2. \A p \in Peers : doc'[p] \in Logs \cup {d}
      BY <1>0, <1>5, LogsAre
    <3>3. \A p \in Peers : \A f \in ToSet(inbox'[p]) : HasDoc(f) =>
            f \in ToSet(inbox[p]) \/ f.doc \in Logs \cup {d}
      BY <3>1, <1>6, <1>7
    <3> QED BY <3>2, <3>3, <2>2, <1>1, LogsGrow
  <2>4. Behind(doc', d) /\ \A r \in d.replies : Sound(r)
    <3>1. Behind(doc, doc[h]) /\ \A r \in doc[h].replies : Sound(r)
      BY <2>2, <1>0 DEF DocsInv
    <3>2. \A k \in Lines : d.typed[k] <= doc'[Author[k]].typed[k]
      BY <3>1, <1>1, <1>2, <1>5, <1>8, DocIs DEF Behind
    <3> QED BY <3>1, <3>2, <1>2 DEF Behind
  <2> QED BY <1>0, <1>8, <2>1, <2>3, <2>4, DocsKeep, ZenonT(40)
<1>12. AuthorsInv'
  <2>1. ASSUME NEW w \in Watchers, NEW k \in Lines, Hears(w, k) PROVE FirstHeard(w, k)'
    <3>1. FirstHeard(w, k) /\ w \in Peers /\ w # h
      BY <1>0, <1>1, <2>1, AuthorsGate, PeersAre
    <3>2. h # Author[k] => k # l
      BY <1>1
    <3>3. h # Author[k] /\ d.typed[k] > 0 => Out(k)
      BY <3>2, <1>1, <1>2 DEF Out
    <3>4. Out(k)' => Out(k)
      <4>1. \A p \in Peers : p # Author[k] /\ doc'[p].typed[k] > 0 => Out(k)
        BY <3>3, <1>5 DEF Out
      <4>2. \A p \in Peers : \A f \in ToSet(inbox'[p]) : p # Author[k] /\ Carries(f, k) => Out(k)
        <5>1. Update(d).doc = d /\ ~HasDoc(Writing)
          BY DEF Update, Writing, HasDoc
        <5>2. ASSUME NEW p \in Peers, NEW f \in ToSet(inbox'[p]), p # Author[k], Carries(f, k)
              PROVE  Out(k)
          <6>1. CASE f \in ToSet(inbox[p])
            BY <6>1, <5>2 DEF Out
          <6>2. CASE f \notin ToSet(inbox[p])
            <7>1. p = h /\ f = Update(d)
              BY <6>2, <5>1, <5>2, <1>6, <1>7 DEF Carries
            <7> QED BY <7>1, <5>1, <5>2, <3>3 DEF Carries
          <6> QED BY <6>1, <6>2
        <5> QED BY <5>2
      <4>3. \A p \in Peers : \A f \in ToSet(outbox'[p]) : Carries(f, k) => Out(k)
        BY <1>1 DEF Out
      <4>4. store'.typed[k] > 0 => Out(k)
        BY <1>1 DEF Out
      <4> QED BY <4>1, <4>2, <4>3, <4>4, OutOnly
    <3> QED BY <3>1, <3>4, <1>1, <1>5, HeardKeeps DEF FirstHeard
  <2> QED BY <2>1, <1>0, <1>1, <1>5, PeersAre DEF AuthorsInv, Hears
<1>13. GateInv'
  <2>1. ASSUME NEW w \in Watchers, NEW k \in Lines, Hears(w, k) PROVE Gate(w, k)'
    <3>1. Gate(w, k) /\ w \in Peers /\ w # h /\ doc'[w] = doc[w]
      BY <1>0, <1>1, <1>5, <2>1, AuthorsGate, PeersAre
    <3>2. CASE Author[k] # h
      <4>1. /\ doc'[Author[k]].typed[k] = doc[Author[k]].typed[k] /\ pause'[Author[k]] = pause[Author[k]]
            /\ inbox'[Author[k]] = inbox[Author[k]]
        BY <3>2, <1>0, <1>1, <1>5, <1>6, PeersAre DEF AgentTypeOK
      <4> QED BY <4>1, <3>1, <1>1, GateKeeps
    <3>3. CASE Author[k] = h /\ k # l
      <4>1. Unfinished(h, k)' => Alerted(w, k)'
        <5>1. Writing \in ToSet(inbox'[Author[k]]) /\ Writing.kind = "AWARENESS"
          BY <1>7, <3>3 DEF Writing
        <5> QED BY <5>1 DEF Alerted, ToSet
      <4>2. UpToDate(w, k)'
        <5>1. doc'[Author[k]].typed[k] = doc[Author[k]].typed[k] /\ doc'[w] = doc[w]
          BY <3>1, <3>3, <1>8
        <5>2. UpToDate(w, k)' = (\/ doc'[w].typed[k] = doc'[Author[k]].typed[k]
                                 \/ \E f \in ToSet(inbox'[Author[k]]) \cup ToSet(outbox'[w]) : Latest(doc', f, k))
          BY DEF UpToDate, Latest, ToSet
        <5> QED BY <5>1, <5>2, <3>1, <3>3, <1>1, <1>7 DEF Gate, UpToDate, Latest
      <4>3. Held(w, k)'
        BY <3>1, <1>1, SoundStays DEF Gate, Held, Shared, ToSet
      <4> QED BY <4>1, <4>2, <4>3, <3>3 DEF Gate
    <3>4. CASE k = l
      <4>1. Alerted(w, k)'
        <5>1. Writing \in ToSet(inbox'[Author[k]]) /\ Writing.kind = "AWARENESS"
          BY <1>1, <1>7, <3>4 DEF Writing
        <5> QED BY <5>1 DEF Alerted, ToSet
      <4>2. UpToDate(w, k)'
        <5>1. Update(d) \in ToSet(inbox'[Author[k]]) /\ Latest(doc', Update(d), k)
          BY <1>1, <1>5, <1>7, <3>4 DEF Latest, Update
        <5>2. UpToDate(w, k)' = (\/ doc'[w].typed[k] = doc'[Author[k]].typed[k]
                                 \/ \E f \in ToSet(inbox'[Author[k]]) \cup ToSet(outbox'[w]) : Latest(doc', f, k))
          BY DEF UpToDate, Latest, ToSet
        <5> QED BY <5>1, <5>2
      <4>3. Held(w, k)'
        BY <3>1, <1>1, SoundStays DEF Gate, Held, Shared, ToSet
      <4> QED BY <4>1, <4>2, <4>3 DEF Gate
    <3> QED BY <3>2, <3>3, <3>4
  <2>2. \A w \in Watchers, t \in Texts : (pending_since[w][t] # Unseen => SeenBefore(w, t))'
    <3>1. \A w \in Watchers : doc'[w] = doc[w]
      BY <1>1, <1>5, PeersAre
    <3> QED BY <3>1, <1>0, <1>1, SoundStays DEF GateInv, SeenBefore
  <2> QED BY <2>1, <2>2, <1>1 DEF GateInv, Gate, Hears, Texts
<1>14. NoticesInv'
  <2>1. \A g \in Humans : Explained(Script, doc'[g], g) = Explained(Script, doc[g], g)
    BY <1>1, <1>2, <1>5, PeersAre DEF Explained
  <2>2. \A w \in Watchers : inbox'[w] = inbox[w]
    BY <1>1, <1>6, PeersAre
  <2> QED BY <2>1, <2>2, <1>0, <1>1, SoundStays, NoticesAre DEF NoticesInv, Arriving
<1> QED BY <1>9, <1>10, <1>11, <1>12, <1>13, <1>14 DEF AgentInv

LEMMA ShowKeeps ==
  ASSUME AgentInv, plan' = plan, NEW h \in Humans, Show(h)
  PROVE  AgentInv'
<1> DEFINE f == Head(outbox[h])
           t == Tail(outbox[h])
           u == f.kind = "UPDATE"
           d == IF u THEN Merge(doc[h], f.doc) ELSE doc[h]
<1>0. AgentTypeOK /\ RoomInv /\ DocsInv /\ AuthorsInv /\ GateInv /\ NoticesInv
  BY DEF AgentInv
<1>1. /\ h \in Peers /\ h \notin Watchers /\ doc[h] \in Doc
      /\ outbox[h] \in Seq(Got) /\ outbox[h] # << >>
      /\ \A p \in Peers : doc[p] \in Doc
      /\ inbox' = inbox /\ room' = room /\ store' = store
      /\ link' = link /\ drops' = drops /\ begun' = begun
      /\ answered' = answered /\ authors' = authors /\ pending_since' = pending_since
      /\ last_writing' = last_writing /\ pause' = pause
      /\ outbox' = [outbox EXCEPT ![h] = t]
  BY <1>0, PeersAre, Typed DEF Show, loop
<1>2. \/ /\ u /\ doc' = [doc EXCEPT ![h] = Merge(doc[h], f.doc)]
         /\ notices' = notices
      \/ /\ ~u /\ f.kind = "NOTIFY" /\ doc' = doc
         /\ notices' = [notices EXCEPT ![h] = notices[h] \cup {f.line}]
  BY <1>0, <1>1 DEF Show, AgentTypeOK
<1>3. /\ f \in Got /\ f \in ToSet(outbox[h]) /\ t \in Seq(Got)
      /\ ToSet(outbox[h]) = {f} \cup ToSet(t)
  BY <1>1, TailIs
<1>4. /\ u => f.doc \in Doc /\ f.doc \in Logs /\ HasDoc(f)
      /\ f.kind = "NOTIFY" => f.line \in Lines
  BY <1>0, <1>1, <1>3, GotIs, LogsAre DEF HasDoc
<1>5. Behind(doc, doc[h]) /\ (u => Behind(doc, f.doc)) /\ doc[h] \in Logs
  BY <1>0, <1>1, <1>4, LogsAre DEF DocsInv
<1> HIDE DEF f, t
<1>6. /\ d \in Doc
      /\ \A k \in Lines : d.typed[k] = IF u THEN Max2(doc[h].typed[k], f.doc.typed[k]) ELSE doc[h].typed[k]
      /\ d.replies = doc[h].replies \cup IF u THEN f.doc.replies ELSE {}
  BY <1>1, <1>4, MergeIs
<1>7. /\ doc'[h] = d /\ doc' \in [Peers -> Doc] /\ \A p \in Peers : p # h => doc'[p] = doc[p]
      /\ outbox'[h] = t /\ outbox' \in [Peers -> Seq(Got)]
      /\ \A p \in Peers : p # h => outbox'[p] = outbox[p]
  BY <1>0, <1>1, <1>2, <1>3, <1>6, ZenonT(40) DEF AgentTypeOK
<1> HIDE DEF d, u
<1>8. \A k \in Lines : /\ d.typed[k] \in Nat
                       /\ doc[h].typed[k] <= d.typed[k] /\ d.typed[k] <= doc[Author[k]].typed[k]
  <2> SUFFICES ASSUME NEW k \in Lines
               PROVE  /\ d.typed[k] \in Nat /\ doc[h].typed[k] <= d.typed[k]
                      /\ d.typed[k] <= doc[Author[k]].typed[k]
    OBVIOUS
  <2>1. doc[h].typed[k] \in Nat /\ d.typed[k] \in Nat /\ (u => f.doc.typed[k] \in Nat)
    BY <1>1, <1>4, <1>6, DocIs
  <2>2. /\ doc[h].typed[k] <= doc[Author[k]].typed[k]
        /\ u => f.doc.typed[k] <= doc[Author[k]].typed[k]
    BY <1>5 DEF Behind
  <2> QED BY <2>1, <2>2, <1>6 DEF Max2
<1>9. \A k \in Lines : /\ doc'[Author[k]].typed[k] = doc[Author[k]].typed[k]
                       /\ doc[Author[k]].typed[k] \in Nat
  <2> SUFFICES ASSUME NEW k \in Lines
               PROVE  /\ doc'[Author[k]].typed[k] = doc[Author[k]].typed[k]
                      /\ doc[Author[k]].typed[k] \in Nat
    OBVIOUS
  <2>1. doc[Author[k]].typed[k] \in Nat /\ Author[k] \in Peers
    BY <1>1, DocIs, PeersAre
  <2>2. CASE Author[k] = h
    <3>1. doc[h].typed[k] <= d.typed[k] /\ d.typed[k] <= doc[h].typed[k] /\ d.typed[k] \in Nat
      BY <1>8, <2>2
    <3> QED BY <3>1, <2>1, <2>2, <1>7
  <2> QED BY <2>1, <2>2, <1>7
<1>10. AgentTypeOK'
  <2>1. notices' \in [Humans -> SUBSET Lines]
    <3>1. notices \in [Humans -> SUBSET Lines]
      BY <1>0 DEF AgentTypeOK
    <3>2. CASE notices' = notices
      BY <3>1, <3>2
    <3>3. CASE f.kind = "NOTIFY" /\ notices' = [notices EXCEPT ![h] = notices[h] \cup {f.line}]
      <4>1. notices[h] \cup {f.line} \in SUBSET Lines
        BY <3>1, <3>3, <1>4
      <4> QED BY <4>1, <3>1, <3>3
    <3> QED BY <3>2, <3>3, <1>2
  <2> QED BY <2>1, <1>0, <1>1, <1>7 DEF AgentTypeOK
<1>11. RoomInv'
  <2>1. \A w \in Watchers : outbox'[w] = outbox[w] /\ doc'[w] = doc[w]
    BY <1>1, <1>7, PeersAre
  <2> QED BY <2>1, <1>0, <1>1, RoomIs DEF RoomInv, Joining
<1>12. DocsInv'
  <2>1. \A e \in Logs' : e \in Logs \cup {d}
    <3>1. \A p \in Peers : doc'[p] \in Logs \cup {d}
      BY <1>0, <1>7, LogsAre
    <3>2. \A p \in Peers : \A g \in ToSet(outbox'[p]) : g \in ToSet(outbox[p])
      BY <1>3, <1>7
    <3> QED BY <3>1, <3>2, <1>0, <1>1, LogsAre, LogsGrow
  <2>2. Behind(doc', d)
    BY <1>8, <1>9 DEF Behind
  <2>3. \A r \in d.replies : Sound(r)
    BY <1>0, <1>4, <1>5, <1>6 DEF DocsInv
  <2>4. \A k \in Lines : /\ doc'[Author[k]].typed[k] \in Nat
                         /\ doc[Author[k]].typed[k] <= doc'[Author[k]].typed[k]
                         /\ doc'[Author[k]].typed[k] <= Len(Script[k])
    BY <1>0, <1>9 DEF DocsInv
  <2> QED BY <1>0, <2>1, <2>2, <2>3, <2>4, DocsKeep
<1>13. AuthorsInv'
  <2>1. ASSUME NEW w \in Watchers, NEW k \in Lines, Hears(w, k) PROVE FirstHeard(w, k)'
    <3>1. FirstHeard(w, k) /\ w \in Peers /\ w # h
      BY <1>0, <1>1, <2>1, AuthorsGate, PeersAre
    <3>2. Out(k)' => Out(k)
      <4>1. \A p \in Peers : p # Author[k] /\ doc'[p].typed[k] > 0 => Out(k)
        <5>1. ASSUME h # Author[k], d.typed[k] > 0 PROVE Out(k)
          <6>1. doc[h].typed[k] > 0 \/ (u /\ f.doc.typed[k] > 0)
            <7>1. CASE u
              <8>1. d.typed[k] = Max2(doc[h].typed[k], f.doc.typed[k])
                BY <7>1, <1>6, <2>1
              <8> QED BY <8>1, <7>1, <5>1 DEF Max2
            <7>2. CASE ~u
              BY <7>2, <5>1, <1>6, <2>1
            <7> QED BY <7>1, <7>2
          <6> QED BY <6>1, <5>1, <1>1, <1>3, <1>4 DEF Out, Carries
        <5> QED BY <5>1, <1>7 DEF Out
      <4>2. \A p \in Peers : \A g \in ToSet(inbox'[p]) : p # Author[k] /\ Carries(g, k) => Out(k)
        BY <1>1 DEF Out
      <4>3. \A p \in Peers : \A g \in ToSet(outbox'[p]) : Carries(g, k) => Out(k)
        BY <1>3, <1>7 DEF Out
      <4>4. store'.typed[k] > 0 => Out(k)
        BY <1>1 DEF Out
      <4> QED BY <4>1, <4>2, <4>3, <4>4, OutOnly
    <3> QED BY <3>1, <3>2, <1>1, <1>7, HeardKeeps DEF FirstHeard
  <2> QED BY <2>1, <1>0, <1>1, <1>7, PeersAre DEF AuthorsInv, Hears
<1>14. GateInv'
  <2>1. ASSUME NEW w \in Watchers, NEW k \in Lines, Hears(w, k) PROVE Gate(w, k)'
    <3>1. Gate(w, k) /\ w \in Peers /\ w # h /\ doc'[w] = doc[w] /\ outbox'[w] = outbox[w]
      BY <1>0, <1>1, <1>7, <2>1, AuthorsGate, PeersAre
    <3> QED BY <3>1, <1>1, <1>9, GateKeeps
  <2>2. \A w \in Watchers, x \in Texts : (pending_since[w][x] # Unseen => SeenBefore(w, x))'
    <3>1. \A w \in Watchers : doc'[w] = doc[w]
      BY <1>1, <1>7, PeersAre
    <3> QED BY <3>1, <1>0, <1>1, SoundStays DEF GateInv, SeenBefore
  <2> QED BY <2>1, <2>2, <1>1 DEF GateInv, Gate, Hears, Texts
<1>15. NoticesInv'
  <2>1. \A g \in Humans : g # h => doc'[g] = doc[g] /\ outbox'[g] = outbox[g]
    BY <1>7, PeersAre
  <2> DEFINE E == Explained(Script, doc[h], h)
             N == Explained(Script, d, h)
             S == Shown(Script, f, h)
  <2>2. N = E \cup S
    <3>1. CASE u
      BY <3>1, <1>6 DEF Explained, Shown, u
    <3>2. CASE ~u
      BY <3>2, <1>6 DEF Explained, Shown, u
    <3> QED BY <3>1, <3>2
  <2>3. /\ notices[h] \subseteq E
        /\ \A g \in ToSet(outbox[h]) : g.kind = "NOTIFY" => g.to = h
        /\ Preceded(Script, outbox[h], h, E)
        /\ \A w \in Watchers : Preceded(Script, inbox[w], h, E \cup ShownIn(Script, outbox[h], h))
    BY <1>0 DEF NoticesInv, Arriving
  <2>4. /\ f.kind = "NOTIFY" /\ f.to = h => f.line \in E
        /\ Preceded(Script, t, h, E \cup S)
    BY <2>3, <1>1, PrecededTail DEF f, t
  <2>5. ShownIn(Script, outbox[h], h) = S \cup ShownIn(Script, t, h)
    BY <1>3 DEF ShownIn
  <2> HIDE DEF E, N, S
  <2>6. notices'[h] \subseteq N /\ \A g \in Humans : g # h => notices'[g] = notices[g]
    BY <2>2, <2>3, <2>4, <1>0, <1>2, <1>3 DEF AgentTypeOK
  <2>7. \A w \in Watchers : Preceded(Script, inbox[w], h, N \cup ShownIn(Script, t, h))
    BY <2>2, <2>3, <2>5, PrecededMore
  <2>8. \A g \in ToSet(t) : g.kind = "NOTIFY" => g.to = h
    BY <2>3, <1>3
  <2>9. /\ notices'[h] \subseteq Explained(Script', doc'[h], h)
        /\ \A g \in ToSet(outbox'[h]) : g.kind = "NOTIFY" => g.to = h
        /\ Preceded(Script', outbox'[h], h, Explained(Script', doc'[h], h))
        /\ \A w \in Watchers : Preceded(Script', inbox'[w], h,
                Explained(Script', doc'[h], h) \cup ShownIn(Script', outbox'[h], h))
    BY <2>2, <2>4, <2>6, <2>7, <2>8, <1>1, <1>7, SoundStays, ZenonT(40) DEF N
  <2>10. ASSUME NEW g \in Humans, g # h
         PROVE  /\ notices'[g] \subseteq Explained(Script', doc'[g], g)
                /\ \A e \in ToSet(outbox'[g]) : e.kind = "NOTIFY" => e.to = g
                /\ Preceded(Script', outbox'[g], g, Explained(Script', doc'[g], g))
                /\ \A w \in Watchers : Preceded(Script', inbox'[w], g,
                        Explained(Script', doc'[g], g) \cup ShownIn(Script', outbox'[g], g))
    BY <2>1, <2>6, <2>10, <1>0, <1>1, SoundStays DEF NoticesInv, Arriving
  <2> QED BY <2>9, <2>10, NoticesAre
<1> QED BY <1>10, <1>11, <1>12, <1>13, <1>14, <1>15 DEF AgentInv

-----------------------------------------------------------------------------
(* A watch begins, and ends. *)

LEMMA WatchKeeps ==
  ASSUME AgentInv, plan' = plan, NEW w \in Watchers, Watch(w)
  PROVE  AgentInv'
<1> DEFINE x == <<[kind |-> "SUBSCRIBE"]>>
<1>0. AgentTypeOK /\ RoomInv /\ DocsInv /\ AuthorsInv /\ GateInv /\ NoticesInv
  BY DEF AgentInv
<1>1. /\ w \in Peers /\ w \notin Humans /\ ~link[w] /\ w \notin room
      /\ \A p \in Peers : doc[p] \in Doc
      /\ outbox' = outbox /\ room' = room /\ store' = store /\ notices' = notices
      /\ drops' = drops /\ begun' = begun /\ pause' = pause
      /\ link' = [link EXCEPT ![w] = TRUE]
      /\ doc' = [doc EXCEPT ![w] = NewDoc]
      /\ inbox' = [inbox EXCEPT ![w] = x]
      /\ answered' = [answered EXCEPT ![w] = {}]
      /\ authors' = [authors EXCEPT ![w] = [l \in Lines |-> Nobody]]
      /\ pending_since' = [pending_since EXCEPT ![w] = [t \in Texts |-> Unseen]]
      /\ last_writing' = [last_writing EXCEPT ![w] = WRITER_QUIET]
  BY <1>0, PeersAre, Typed DEF Watch, RoomInv
<1>2. x \in Seq(Sent) /\ ToSet(x) = {[kind |-> "SUBSCRIBE"]}
  BY DEF Sent, ToSet
<1>3. /\ doc'[w] = NewDoc /\ doc' \in [Peers -> Doc] /\ \A p \in Peers : p # w => doc'[p] = doc[p]
      /\ inbox'[w] = x /\ inbox' \in [Peers -> Seq(Sent)]
      /\ \A p \in Peers : p # w => inbox'[p] = inbox[p]
  <2> HIDE DEF x
  <2> QED BY <1>0, <1>1, <1>2, NewDocIs DEF AgentTypeOK
<1>4. /\ link'[w] /\ \A v \in Watchers : v # w => link'[v] = link[v]
      /\ authors'[w] = [l \in Lines |-> Nobody]
      /\ \A v \in Watchers : v # w => authors'[v] = authors[v]
      /\ pending_since'[w] = [t \in Texts |-> Unseen]
      /\ \A v \in Watchers : v # w => pending_since'[v] = pending_since[v]
      /\ \A v \in Watchers : v # w => last_writing'[v] = last_writing[v]
  BY <1>0, <1>1 DEF AgentTypeOK
<1>5. \A l \in Lines : Author[l] # w /\ doc'[Author[l]] = doc[Author[l]] /\ inbox'[Author[l]] = inbox[Author[l]]
  BY <1>1, <1>3, PeersAre
<1>6. AgentTypeOK'
  BY <1>0, <1>1, <1>3 DEF AgentTypeOK, WRITER_QUIET, Unseen, STABLE
<1>7. RoomInv'
  <2>1. \A v \in Watchers : v # w => inbox'[v] = inbox[v] /\ doc'[v] = doc[v]
    BY <1>3, PeersAre
  <2>2. \A h \in Humans : inbox'[h] = inbox[h]
    BY <1>1, <1>3, PeersAre
  <2>3. outbox[w] = << >>
    BY <1>0, <1>1 DEF RoomInv
  <2>4. \A v \in Watchers :
         /\ v \in room' => link'[v]
         /\ v \notin room' => outbox'[v] = << >>
         /\ v \notin room' /\ link'[v] =>
              /\ inbox'[v] = <<[kind |-> "SUBSCRIBE"]>> /\ doc'[v] = NewDoc
              /\ \A t \in Texts : pending_since'[v][t] = Unseen
         /\ v \in room' \/ ~link'[v] => \A f \in ToSet(inbox'[v]) : f.kind # "SUBSCRIBE"
    <3> SUFFICES ASSUME NEW v \in Watchers
                 PROVE  /\ v \in room' => link'[v]
                        /\ v \notin room' => outbox'[v] = << >>
                        /\ v \notin room' /\ link'[v] =>
                             /\ inbox'[v] = <<[kind |-> "SUBSCRIBE"]>> /\ doc'[v] = NewDoc
                             /\ \A t \in Texts : pending_since'[v][t] = Unseen
                        /\ v \in room' \/ ~link'[v] => \A f \in ToSet(inbox'[v]) : f.kind # "SUBSCRIBE"
      OBVIOUS
    <3>1. CASE v = w
      BY <3>1, <2>3, <1>1, <1>3, <1>4
    <3>2. CASE v # w
      BY <3>2, <2>1, <1>0, <1>1, <1>4 DEF RoomInv, Joining
    <3> QED BY <3>1, <3>2
  <2> QED BY <2>2, <2>4, <1>0, <1>1, RoomIs DEF RoomInv
<1>8. DocsInv'
  <2>1. \A e \in Logs' : e \in Logs \cup {NewDoc}
    <3>1. \A p \in Peers : doc'[p] \in Logs \cup {NewDoc}
      BY <1>0, <1>3, LogsAre
    <3>2. \A p \in Peers : \A g \in ToSet(inbox'[p]) : HasDoc(g) => g \in ToSet(inbox[p])
      BY <1>2, <1>3 DEF HasDoc
    <3> QED BY <3>1, <3>2, <1>0, <1>1, LogsAre, LogsGrow
  <2>2. Behind(doc', NewDoc)
    BY <1>1, <1>5, NewDocIs, DocIs, PeersAre DEF Behind
  <2>3. \A k \in Lines : /\ doc'[Author[k]].typed[k] \in Nat
                         /\ doc[Author[k]].typed[k] <= doc'[Author[k]].typed[k]
                         /\ doc'[Author[k]].typed[k] <= Len(Script[k])
    <3>1. \A k \in Lines : doc[Author[k]].typed[k] \in Nat
      BY <1>1, DocIs, PeersAre
    <3> QED BY <3>1, <1>0, <1>5 DEF DocsInv
  <2>4. \A r \in NewDoc.replies : Sound(r)
    BY NewDocIs
  <2>5. \A e \in {NewDoc} : Behind(doc', e) /\ \A r \in e.replies : Sound(r)
    BY <2>2, <2>4
  <2> QED BY <1>0, <2>1, <2>3, <2>5, DocsKeep
<1>9. ASSUME NEW v \in Watchers, NEW k \in Lines, Hears(v, k)'
      PROVE  v # w /\ Hears(v, k) /\ v \in Peers
  BY <1>1, <1>9, PeersAre DEF Hears
<1>10. AuthorsInv'
  <2>1. ASSUME NEW v \in Watchers, NEW k \in Lines, Hears(v, k)' PROVE FirstHeard(v, k)'
    <3>1. FirstHeard(v, k) /\ v \in Peers /\ v # w
      BY <1>0, <1>9, <2>1, AuthorsGate
    <3>2. Out(k)' => Out(k)
      <4>1. \A p \in Peers : p # Author[k] /\ doc'[p].typed[k] > 0 => Out(k)
        BY <1>3, NewDocIs DEF Out
      <4>2. \A p \in Peers : \A g \in ToSet(inbox'[p]) : p # Author[k] /\ Carries(g, k) => Out(k)
        <5>1. ASSUME NEW p \in Peers, NEW g \in ToSet(inbox'[p]), p # Author[k], Carries(g, k)
              PROVE  Out(k)
          <6>1. p # w
            BY <5>1, <1>2, <1>3 DEF Carries, HasDoc
          <6>2. g \in ToSet(inbox[p])
            BY <5>1, <6>1, <1>3
          <6> QED BY <6>2, <5>1 DEF Out
        <5> QED BY <5>1
      <4>3. \A p \in Peers : \A g \in ToSet(outbox'[p]) : Carries(g, k) => Out(k)
        BY <1>1 DEF Out
      <4>4. store'.typed[k] > 0 => Out(k)
        BY <1>1 DEF Out
      <4> QED BY <4>1, <4>2, <4>3, <4>4, OutOnly
    <3> QED BY <3>1, <3>2, <1>1, <1>3, <1>4, HeardKeeps DEF FirstHeard
  <2>2. \A v \in Watchers, k \in Lines : authors'[v][k] # Nobody => doc'[v].typed[k] > 0
    <3>1. \A v \in Watchers : v # w => authors'[v] = authors[v] /\ doc'[v] = doc[v]
      BY <1>3, <1>4, PeersAre
    <3>2. \A k \in Lines : authors'[w][k] = Nobody
      BY <1>4
    <3> QED BY <3>1, <3>2, <1>0 DEF AuthorsInv
  <2> QED BY <2>1, <2>2 DEF AuthorsInv
<1>11. GateInv'
  <2>1. ASSUME NEW v \in Watchers, NEW k \in Lines, Hears(v, k)' PROVE Gate(v, k)'
    <3>1. /\ Gate(v, k) /\ doc'[v] = doc[v] /\ outbox'[v] = outbox[v]
          /\ pending_since'[v] = pending_since[v] /\ last_writing'[v] = last_writing[v]
      BY <1>0, <1>1, <1>3, <1>4, <1>9, <2>1, AuthorsGate
    <3> QED BY <3>1, <1>1, <1>5, GateKeeps
  <2>2. \A v \in Watchers, x1 \in Texts : (pending_since[v][x1] # Unseen => SeenBefore(v, x1))'
    <3>1. \A v \in Watchers : v # w => doc'[v] = doc[v] /\ pending_since'[v] = pending_since[v]
      BY <1>3, <1>4, PeersAre
    <3>2. \A x1 \in Texts : pending_since'[w][x1] = Unseen
      BY <1>4
    <3> QED BY <3>1, <3>2, <1>0, SoundStays DEF GateInv, SeenBefore, Unseen
  <2> QED BY <2>1, <2>2 DEF GateInv, Gate, Texts
<1>12. NoticesInv'
  <2>1. \A g \in Humans : doc'[g] = doc[g]
    BY <1>1, <1>3, PeersAre
  <2>2. \A g, E : Preceded(Script, x, g, E)
    BY DEF Preceded
  <2>3. ASSUME NEW g \in Humans, NEW v \in Watchers
        PROVE  Preceded(Script, inbox'[v], g, Explained(Script, doc[g], g) \cup ShownIn(Script, outbox[g], g))
    <3>1. CASE v = w
      BY <3>1, <2>2, <1>3
    <3>2. CASE v # w
      BY <3>2, <1>0, <1>3, PeersAre DEF NoticesInv, Arriving
    <3> QED BY <3>1, <3>2
  <2> QED BY <2>1, <2>3, <1>0, <1>1, SoundStays, NoticesAre DEF NoticesInv
<1> QED BY <1>6, <1>7, <1>8, <1>10, <1>11, <1>12 DEF AgentInv

LEMMA DropKeeps ==
  ASSUME AgentInv, plan' = plan, NEW w \in Watchers, Drop(w)
  PROVE  AgentInv'
<1> DEFINE first == IF inbox[w] # << >> /\ Head(inbox[w]).kind = "SUBSCRIBE" THEN 2 ELSE 1
<1>0. AgentTypeOK /\ RoomInv /\ DocsInv /\ AuthorsInv /\ GateInv /\ NoticesInv
  BY DEF AgentInv
<1>1. /\ w \in Peers /\ w \notin Humans /\ link[w]
      /\ \A p \in Peers : doc[p] \in Doc
      /\ inbox[w] \in Seq(Sent)
      /\ outbox' = [outbox EXCEPT ![w] = << >>] /\ room' = room \ {w}
      /\ store' = store /\ notices' = notices /\ drops' = drops + 1 /\ begun' = begun
      /\ pause' = pause /\ link' = [link EXCEPT ![w] = FALSE]
      /\ doc' = doc /\ answered' = answered /\ authors' = authors
      /\ pending_since' = pending_since /\ last_writing' = last_writing
  BY <1>0, PeersAre, Typed DEF Drop, loop
<1>2. PICK n \in 0..Len(inbox[w]) : inbox' = [inbox EXCEPT ![w] = SubSeq(inbox[w], first, n)]
  BY <1>0, <1>1 DEF Drop, AgentTypeOK
<1>3. first \in 1..2 /\ SubSeq(inbox[w], first, n) \in Seq(Sent)
      /\ ToSet(SubSeq(inbox[w], first, n)) \subseteq ToSet(inbox[w])
  <2>1. first \in 1..2
    OBVIOUS
  <2> HIDE DEF first
  <2> QED BY <2>1, <1>1, PrefixIs
<1>4. first = 2 => SubSeq(inbox[w], first, n) = << >>
  <2>1. SUFFICES ASSUME first = 2 PROVE SubSeq(inbox[w], 2, n) = << >>
    BY Zenon
  <2>2. Head(inbox[w]).kind = "SUBSCRIBE" /\ Head(inbox[w]) \in ToSet(inbox[w])
    BY <2>1, <1>1, TailIs
  <2>3. Joining(w)
    BY <2>2, <1>0, <1>1 DEF RoomInv
  <2>4. Len(inbox[w]) = 1
    BY <2>3 DEF Joining
  <2>5. n \in Int /\ n < 2
    BY <2>4
  <2> QED BY <2>5, SubSeqEmpty
<1>5. \A f \in ToSet(SubSeq(inbox[w], first, n)) : f.kind # "SUBSCRIBE"
  <2>1. CASE w \in room
    BY <2>1, <1>0, <1>3 DEF RoomInv
  <2>2. CASE w \notin room
    <3>1. Joining(w)
      BY <2>2, <1>0, <1>1 DEF RoomInv
    <3>2. first = 2
      BY <3>1 DEF Joining
    <3> QED BY <3>2, <1>4 DEF ToSet
  <2> QED BY <2>1, <2>2
<1>6. \A g, E : Preceded(Script, inbox[w], g, E) => Preceded(Script, SubSeq(inbox[w], first, n), g, E)
  <2>1. CASE first = 2
    <3> HIDE DEF first
    <3>1. \A g, E : Preceded(Script, << >>, g, E)
      BY DEF Preceded
    <3> QED BY <3>1, <2>1, <1>4
  <2>2. CASE first = 1
    <3> HIDE DEF first
    <3> QED BY <2>2, <1>1, PrecededPrefix
  <2> QED BY <2>1, <2>2, <1>3
<1> DEFINE x == SubSeq(inbox[w], first, n)
<1> HIDE DEF x, first
<1>7. /\ inbox'[w] = x /\ x \in Seq(Sent) /\ inbox' \in [Peers -> Seq(Sent)]
      /\ \A p \in Peers : p # w => inbox'[p] = inbox[p]
      /\ outbox'[w] = << >> /\ outbox' \in [Peers -> Seq(Got)]
      /\ \A p \in Peers : p # w => outbox'[p] = outbox[p]
      /\ ~link'[w] /\ \A v \in Watchers : v # w => link'[v] = link[v]
      /\ ToSet(x) \subseteq ToSet(inbox[w]) /\ ToSet(outbox'[w]) = {}
  <2>1. << >> \in Seq(Got) /\ ToSet(<< >>) = {}
    BY DEF ToSet
  <2>2. x \in Seq(Sent) /\ inbox' = [inbox EXCEPT ![w] = x] /\ ToSet(x) \subseteq ToSet(inbox[w])
    BY <1>2, <1>3 DEF x
  <2> QED BY <2>1, <2>2, <1>0, <1>1 DEF AgentTypeOK
<1>8. AgentTypeOK'
  BY <1>0, <1>1, <1>7 DEF AgentTypeOK
<1>9. RoomInv'
  <2>1. \A v \in Watchers : v # w => inbox'[v] = inbox[v] /\ outbox'[v] = outbox[v]
    BY <1>7, PeersAre
  <2>2. \A h \in Humans : inbox'[h] = inbox[h]
    BY <1>1, <1>7, PeersAre
  <2>3. Humans \subseteq room'
    BY <1>0, <1>1, PeersAre DEF RoomInv
  <2>4. \A v \in Watchers :
         /\ v \in room' => link'[v]
         /\ v \notin room' => outbox'[v] = << >>
         /\ v \notin room' /\ link'[v] =>
              /\ inbox'[v] = <<[kind |-> "SUBSCRIBE"]>> /\ doc'[v] = NewDoc
              /\ \A t \in Texts : pending_since'[v][t] = Unseen
         /\ v \in room' \/ ~link'[v] => \A f \in ToSet(inbox'[v]) : f.kind # "SUBSCRIBE"
    <3> SUFFICES ASSUME NEW v \in Watchers
                 PROVE  /\ v \in room' => link'[v]
                        /\ v \notin room' => outbox'[v] = << >>
                        /\ v \notin room' /\ link'[v] =>
                             /\ inbox'[v] = <<[kind |-> "SUBSCRIBE"]>> /\ doc'[v] = NewDoc
                             /\ \A t \in Texts : pending_since'[v][t] = Unseen
                        /\ v \in room' \/ ~link'[v] => \A f \in ToSet(inbox'[v]) : f.kind # "SUBSCRIBE"
      OBVIOUS
    <3>1. CASE v = w
      BY <3>1, <1>1, <1>5, <1>7 DEF x
    <3>2. CASE v # w
      BY <3>2, <2>1, <1>0, <1>1, <1>7, SMTT(30) DEF RoomInv, Joining
    <3> QED BY <3>1, <3>2
  <2> QED BY <2>2, <2>3, <2>4, <1>0, RoomIs DEF RoomInv
<1>10. DocsInv'
  <2>1. \A e \in Logs' : e \in Logs \cup {}
    <3>1. \A p \in Peers : ToSet(inbox'[p]) \subseteq ToSet(inbox[p]) /\ ToSet(outbox'[p]) \subseteq ToSet(outbox[p])
      BY <1>7
    <3> QED BY <3>1, <1>0, <1>1, LogsAre, LogsGrow
  <2>3. \A k \in Lines : /\ doc'[Author[k]].typed[k] \in Nat
                         /\ doc[Author[k]].typed[k] <= doc'[Author[k]].typed[k]
                         /\ doc'[Author[k]].typed[k] <= Len(Script[k])
    <3>1. \A k \in Lines : doc[Author[k]].typed[k] \in Nat
      BY <1>1, DocIs, PeersAre
    <3> QED BY <3>1, <1>0, <1>1 DEF DocsInv
  <2> QED BY <1>0, <2>1, <2>3, DocsKeep
<1>11. ASSUME NEW v \in Watchers, NEW k \in Lines, Hears(v, k)'
       PROVE  v # w /\ Hears(v, k) /\ v \in Peers
  BY <1>1, <1>11, PeersAre DEF Hears
<1>12. AuthorsInv'
  <2>1. ASSUME NEW v \in Watchers, NEW k \in Lines, Hears(v, k)' PROVE FirstHeard(v, k)'
    <3>1. FirstHeard(v, k) /\ v \in Peers /\ v # w
      BY <1>0, <1>11, <2>1, AuthorsGate
    <3>2. Out(k)' => Out(k)
      <4>2. \A p \in Peers : \A g \in ToSet(inbox'[p]) : p # Author[k] /\ Carries(g, k) => Out(k)
        BY <1>7 DEF Out
      <4>3. \A p \in Peers : \A g \in ToSet(outbox'[p]) : Carries(g, k) => Out(k)
        BY <1>7 DEF Out
      <4>4. store'.typed[k] > 0 => Out(k)
        BY <1>1 DEF Out
      <4>5. \A p \in Peers : p # Author[k] /\ doc'[p].typed[k] > 0 => Out(k)
        BY <1>1 DEF Out
      <4> QED BY <4>2, <4>3, <4>4, <4>5, OutOnly
    <3> QED BY <3>1, <3>2, <1>1, <1>7, HeardKeeps DEF FirstHeard
  <2> QED BY <2>1, <1>0, <1>1 DEF AuthorsInv
<1>13. GateInv'
  <2>1. ASSUME NEW v \in Watchers, NEW k \in Lines, Hears(v, k)' PROVE Gate(v, k)'
    <3>1. Gate(v, k) /\ outbox'[v] = outbox[v] /\ inbox'[Author[k]] = inbox[Author[k]]
      <4>1. Author[k] \in Peers /\ Author[k] # w
        BY <1>1, <2>1, PeersAre
      <4>2. Gate(v, k) /\ v # w /\ v \in Peers
        BY <1>0, <1>11, <2>1, AuthorsGate
      <4> QED BY <4>1, <4>2, <1>7
    <3> QED BY <3>1, <1>1, GateKeeps
  <2> QED BY <2>1, <1>0, <1>1, SoundStays DEF GateInv, Gate, SeenBefore
<1>14. NoticesInv'
  <2>1. \A g \in Humans : outbox'[g] = outbox[g]
    BY <1>1, <1>7, PeersAre
  <2>2. ASSUME NEW g \in Humans, NEW v \in Watchers
        PROVE  Preceded(Script, inbox'[v], g, Explained(Script, doc[g], g) \cup ShownIn(Script, outbox[g], g))
    <3>1. Preceded(Script, inbox[v], g, Explained(Script, doc[g], g) \cup ShownIn(Script, outbox[g], g))
      BY <1>0 DEF NoticesInv, Arriving
    <3>2. CASE v = w
      BY <3>1, <3>2, <1>6, <1>7 DEF x
    <3>3. CASE v # w
      BY <3>1, <3>3, <1>7, PeersAre
    <3> QED BY <3>2, <3>3
  <2> QED BY <2>1, <2>2, <1>0, <1>1, SoundStays, NoticesAre, ZenonT(40) DEF NoticesInv
<1> QED BY <1>8, <1>9, <1>10, <1>12, <1>13, <1>14 DEF AgentInv

-----------------------------------------------------------------------------
(* The relay's step: it takes a frame from a peer's queue. *)

Takes(p, f) ==
    /\ p \in Peers /\ inbox[p] # << >> /\ f = Head(inbox[p])
    /\ inbox' = [inbox EXCEPT ![p] = Tail(inbox[p])]
    /\ doc' = doc /\ pause' = pause /\ notices' = notices /\ link' = link
    /\ answered' = answered /\ authors' = authors /\ pending_since' = pending_since
    /\ last_writing' = last_writing /\ drops' = drops

LEMMA TakesIs ==
  ASSUME AgentTypeOK, RoomInv, NEW p, NEW f, Takes(p, f)
  PROVE  /\ inbox[p] \in Seq(Sent) /\ f \in Sent /\ f \in ToSet(inbox[p])
         /\ f.kind = "SUBSCRIBE" => p \in Watchers /\ Joining(p) /\ p \notin room /\ link[p]
         /\ p \in Humans => f.kind \in {"UPDATE", "AWARENESS"}
         /\ inbox' \in [Peers -> Seq(Sent)] /\ inbox'[p] = Tail(inbox[p])
         /\ ToSet(inbox[p]) = {f} \cup ToSet(inbox'[p])
         /\ \A q \in Peers : q # p => inbox'[q] = inbox[q]
         /\ \A q \in Peers : ToSet(inbox'[q]) \subseteq ToSet(inbox[q])
<1>1. p \in Peers /\ inbox[p] \in Seq(Sent) /\ inbox[p] # << >> /\ f = Head(inbox[p])
  BY Typed DEF Takes
<1>2. /\ f \in Sent /\ f \in ToSet(inbox[p]) /\ Tail(inbox[p]) \in Seq(Sent)
      /\ ToSet(inbox[p]) = {f} \cup ToSet(Tail(inbox[p]))
  BY <1>1, TailIs
<1>3. f.kind = "SUBSCRIBE" => p \in Watchers /\ Joining(p) /\ p \notin room /\ link[p]
  BY <1>1, <1>2, PeersAre DEF RoomInv
<1>4. p \in Humans => f.kind \in {"UPDATE", "AWARENESS"}
  BY <1>2 DEF RoomInv
<1>5. /\ inbox' \in [Peers -> Seq(Sent)] /\ inbox'[p] = Tail(inbox[p])
      /\ \A q \in Peers : q # p => inbox'[q] = inbox[q]
  BY <1>1, <1>2 DEF Takes, AgentTypeOK
<1>6. \A q \in Peers : ToSet(inbox'[q]) \subseteq ToSet(inbox[q])
  BY <1>2, <1>5
<1> QED BY <1>1, <1>2, <1>3, <1>4, <1>5, <1>6

LEMMA ForwardIs ==
  ASSUME AgentTypeOK, NEW p \in Peers, NEW e \in Got, Forward(p, e)
  PROVE  /\ outbox' \in [Peers -> Seq(Got)]
         /\ \A q \in Peers :
              /\ q \in room /\ q # p /\ Heeds(q, e) =>
                   outbox'[q] = Append(outbox[q], e) /\ ToSet(outbox'[q]) = ToSet(outbox[q]) \cup {e}
              /\ ~(q \in room /\ q # p /\ Heeds(q, e)) => outbox'[q] = outbox[q]
<1>1. \A q \in Peers : /\ outbox[q] \in Seq(Got) /\ Append(outbox[q], e) \in Seq(Got)
                       /\ ToSet(Append(outbox[q], e)) = ToSet(outbox[q]) \cup {e}
  BY Typed, AppendIs
<1> QED BY <1>1 DEF Forward

LEMMA NotYetOut ==
  ASSUME AgentTypeOK, DocsInv, NEW k \in Lines, doc[Author[k]].typed[k] = 0
  PROVE  ~Out(k) /\ \A d \in Logs : d.typed[k] = 0
<1>1. ASSUME NEW d \in Logs PROVE d.typed[k] = 0
  <2>1. d.typed[k] \in Nat /\ d.typed[k] <= 0
    BY LogsAre, DocIs DEF DocsInv, Behind
  <2> QED BY <2>1
<1>2. ~Out(k)
  BY <1>1, LogsAre DEF Out, Carries
<1> QED BY <1>1, <1>2

LEMMA NothingMoves ==
  ASSUME AgentTypeOK, DocsInv, doc' = doc
  PROVE  \A k \in Lines : /\ doc'[Author[k]].typed[k] \in Nat
                          /\ doc[Author[k]].typed[k] <= doc'[Author[k]].typed[k]
                          /\ doc'[Author[k]].typed[k] <= Len(Script[k])
<1>1. \A k \in Lines : doc[Author[k]].typed[k] \in Nat
  BY Typed, DocIs, PeersAre
<1> QED BY <1>1 DEF DocsInv

LEMMA LogsStay ==
  ASSUME AgentTypeOK, DocsInv, plan' = plan, doc' = doc, \A d \in Logs' : d \in Logs \cup {}
  PROVE  DocsInv'
<1>1. \A k \in Lines : /\ doc'[Author[k]].typed[k] \in Nat
                       /\ doc[Author[k]].typed[k] <= doc'[Author[k]].typed[k]
                       /\ doc'[Author[k]].typed[k] <= Len(Script[k])
  BY NothingMoves
<1> QED BY <1>1, DocsKeep

LEMMA SubscribeKeeps ==
  ASSUME AgentInv, plan' = plan, NEW p, NEW f, Takes(p, f), f.kind = "SUBSCRIBE",
         room' = room \cup {p}, store' = store,
         outbox' = [outbox EXCEPT ![p] = Append(@, [kind |-> "SNAPSHOT", doc |-> store])],
         begun' = [begun EXCEPT ![p] = {l \in Lines : doc[Author[l]].typed[l] > 0}]
  PROVE  AgentInv'
<1> DEFINE e == [kind |-> "SNAPSHOT", doc |-> store]
           x == <<e>>
<1>0. AgentTypeOK /\ RoomInv /\ DocsInv /\ AuthorsInv /\ GateInv /\ NoticesInv
  BY DEF AgentInv
<1>1. /\ inbox[p] \in Seq(Sent) /\ f \in Sent /\ f \in ToSet(inbox[p])
      /\ p \in Watchers /\ Joining(p) /\ p \notin room /\ link[p]
      /\ inbox' \in [Peers -> Seq(Sent)] /\ inbox'[p] = Tail(inbox[p])
      /\ ToSet(inbox[p]) = {f} \cup ToSet(inbox'[p])
      /\ \A q \in Peers : q # p => inbox'[q] = inbox[q]
      /\ \A q \in Peers : ToSet(inbox'[q]) \subseteq ToSet(inbox[q])
  BY <1>0, TakesIs
<1>2. /\ p \in Peers /\ doc' = doc /\ pause' = pause /\ notices' = notices /\ link' = link
      /\ answered' = answered /\ authors' = authors /\ pending_since' = pending_since
      /\ last_writing' = last_writing /\ drops' = drops
  BY DEF Takes
<1>3. inbox'[p] = << >> /\ doc[p] = NewDoc /\ outbox[p] = << >> /\ p \notin Humans
  BY <1>0, <1>1, PeersAre DEF Joining, RoomInv
<1>4. e \in Got /\ x \in Seq(Got) /\ ToSet(x) = {e} /\ x = Append(<< >>, e)
  <2>1. e \in Got
    BY <1>0, Typed DEF Got
  <2> HIDE DEF e
  <2> QED BY <2>1 DEF ToSet
<1>5. /\ outbox'[p] = x /\ outbox' \in [Peers -> Seq(Got)]
      /\ \A q \in Peers : q # p => outbox'[q] = outbox[q]
  <2>1. outbox' = [outbox EXCEPT ![p] = x]
    BY <1>0, <1>2, <1>3, <1>4 DEF AgentTypeOK
  <2>2. x \in Seq(Got) /\ p \in Peers /\ outbox \in [Peers -> Seq(Got)]
    BY <1>0, <1>2, <1>4 DEF AgentTypeOK
  <2> HIDE DEF x
  <2> QED BY <2>1, <2>2
<1>6. /\ begun' \in [Watchers -> SUBSET Lines] /\ \A v \in Watchers : v # p => begun'[v] = begun[v]
      /\ begun'[p] = {l \in Lines : doc[Author[l]].typed[l] > 0}
  BY <1>0, <1>1 DEF AgentTypeOK
<1> HIDE DEF x
<1>7. ToSet(outbox'[p]) = {e} /\ e.doc = store
  BY <1>4, <1>5
<1> HIDE DEF e
<1>8. AgentTypeOK'
  BY <1>0, <1>1, <1>2, <1>5, <1>6 DEF AgentTypeOK
<1>9. RoomInv'
  <2>1. \A h \in Humans : \A g \in ToSet(inbox'[h]) : g.kind \in {"UPDATE", "AWARENESS"}
    BY <1>0, <1>1, PeersAre DEF RoomInv
  <2>2. \A v \in Watchers :
         /\ v \in room' => link'[v]
         /\ v \notin room' => outbox'[v] = << >>
         /\ v \notin room' /\ link'[v] =>
              /\ inbox'[v] = <<[kind |-> "SUBSCRIBE"]>> /\ doc'[v] = NewDoc
              /\ \A t \in Texts : pending_since'[v][t] = Unseen
         /\ v \in room' \/ ~link'[v] => \A g \in ToSet(inbox'[v]) : g.kind # "SUBSCRIBE"
    <3> SUFFICES ASSUME NEW v \in Watchers
                 PROVE  /\ v \in room' => link'[v]
                        /\ v \notin room' => outbox'[v] = << >>
                        /\ v \notin room' /\ link'[v] =>
                             /\ inbox'[v] = <<[kind |-> "SUBSCRIBE"]>> /\ doc'[v] = NewDoc
                             /\ \A t \in Texts : pending_since'[v][t] = Unseen
                        /\ v \in room' \/ ~link'[v] => \A g \in ToSet(inbox'[v]) : g.kind # "SUBSCRIBE"
      OBVIOUS
    <3>1. CASE v = p
      BY <3>1, <1>1, <1>2, <1>3 DEF ToSet
    <3>2. CASE v # p
      <4>1. inbox'[v] = inbox[v] /\ outbox'[v] = outbox[v]
        BY <3>2, <1>1, <1>5, PeersAre
      <4> QED BY <3>2, <4>1, <1>0, <1>2 DEF RoomInv, Joining
    <3> QED BY <3>1, <3>2
  <2> QED BY <2>1, <2>2, <1>0, RoomIs DEF RoomInv
<1>10. DocsInv'
  <2>1. \A d \in Logs' : d \in Logs \cup {}
    <3>1. \A q \in Peers : \A g \in ToSet(outbox'[q]) : HasDoc(g) =>
            g \in ToSet(outbox[q]) \/ g.doc \in Logs \cup {}
      BY <1>0, <1>5, <1>7, LogsAre
    <3>2. \A q \in Peers : \A g \in ToSet(inbox'[q]) : HasDoc(g) =>
            g \in ToSet(inbox[q]) \/ g.doc \in Logs \cup {}
      BY <1>1
    <3>3. store' \in Logs \cup {} /\ \A q \in Peers : doc'[q] \in Logs \cup {}
      BY <1>0, <1>2, LogsAre
    <3> QED BY <3>1, <3>2, <3>3, LogsGrow
  <2> QED BY <1>0, <1>2, <2>1, LogsStay
<1>11. ASSUME NEW k \in Lines PROVE Out(k)' => Out(k)
  <2>1. \A q \in Peers : q # Author[k] /\ doc'[q].typed[k] > 0 => Out(k)
    BY <1>2 DEF Out
  <2>2. \A q \in Peers : \A g \in ToSet(inbox'[q]) : q # Author[k] /\ Carries(g, k) => Out(k)
    BY <1>1 DEF Out
  <2>3. \A q \in Peers : \A g \in ToSet(outbox'[q]) : Carries(g, k) => Out(k)
    BY <1>5, <1>7 DEF Out, Carries
  <2>4. store'.typed[k] > 0 => Out(k)
    BY DEF Out
  <2> QED BY <2>1, <2>2, <2>3, <2>4, OutOnly
<1>12. ASSUME NEW k \in Lines, k \notin begun'[p]
       PROVE  /\ doc[Author[k]].typed[k] = 0 /\ doc[p].typed[k] = 0 /\ ~Carries(e, k) /\ ~Out(k)'
  <2>1. doc[Author[k]].typed[k] = 0
    <3>1. doc[Author[k]].typed[k] \in Nat
      BY <1>0, Typed, DocIs, PeersAre
    <3> QED BY <3>1, <1>6, <1>12
  <2> QED BY <2>1, <1>0, <1>2, <1>7, <1>11, NotYetOut, LogsAre DEF Carries
<1>13. ASSUME NEW v \in Watchers, NEW k \in Lines, Hears(v, k)', v # p
       PROVE  Hears(v, k) /\ inbox'[Author[k]] = inbox[Author[k]] /\ outbox'[v] = outbox[v]
  <2>1. Author[k] # p /\ Author[k] \in Peers /\ v \in Peers
    BY <1>1, <1>3, <1>13, PeersAre
  <2> QED BY <2>1, <1>1, <1>5, <1>6, <1>13 DEF Hears
<1>14. AuthorsInv'
  <2>1. ASSUME NEW v \in Watchers, NEW k \in Lines, Hears(v, k)' PROVE FirstHeard(v, k)'
    <3>1. CASE v = p
      <4>1. k \notin begun'[p]
        BY <2>1, <3>1 DEF Hears
      <4>2. doc'[p].typed[k] = 0 /\ ~Carries(e, k) /\ ~Out(k)'
        BY <4>1, <1>2, <1>12, <2>1
      <4>3. FirstFrom(x, k, Author[k])
        BY <4>2, <1>4 DEF FirstFrom, ToSet
      <4>4. FirstFrom(outbox[p], k, Author[k])'
        BY <4>3, <1>5 DEF FirstFrom, Carries, HasDoc
      <4> QED BY <3>1, <4>2, <4>4 DEF FirstHeard
    <3>2. CASE v # p
      <4>1. FirstHeard(v, k) /\ outbox'[v] = outbox[v]
        BY <1>0, <1>13, <2>1, <3>2, AuthorsGate
      <4>2. Out(k)' => Out(k)
        BY <1>11, <2>1
      <4> QED BY <4>1, <4>2, <1>2, HeardKeeps DEF FirstHeard
    <3> QED BY <3>1, <3>2
  <2> QED BY <2>1, <1>0, <1>2 DEF AuthorsInv
<1>15. GateInv'
  <2>1. ASSUME NEW v \in Watchers, NEW k \in Lines, Hears(v, k)' PROVE Gate(v, k)'
    <3>1. CASE v = p
      <4>1. k \notin begun'[p]
        BY <2>1, <3>1 DEF Hears
      <4>2. doc'[p].typed[k] = 0 /\ doc'[Author[k]].typed[k] = 0
        BY <4>1, <1>2, <1>12, <2>1
      <4>3. UpToDate(p, k)' /\ ~Unfinished(Author[k], k)' /\ Held(p, k)'
        <5>1. UpToDate(p, k)'
          BY <4>2 DEF UpToDate
        <5>2. ~Unfinished(Author[k], k)'
          BY <4>2 DEF Unfinished
        <5>3. Held(p, k)'
          BY <4>2 DEF Held
        <5> QED BY <5>1, <5>2, <5>3
      <4> QED BY <3>1, <4>3 DEF Gate
    <3>2. CASE v # p
      <4>1. Gate(v, k) /\ outbox'[v] = outbox[v] /\ inbox'[Author[k]] = inbox[Author[k]]
        BY <1>0, <1>13, <2>1, <3>2, AuthorsGate
      <4> QED BY <4>1, <1>2, GateKeeps
    <3> QED BY <3>1, <3>2
  <2> QED BY <2>1, <1>0, <1>2, SoundStays DEF GateInv, Gate, SeenBefore
<1>16. NoticesInv'
  <2>1. \A g \in Humans : outbox'[g] = outbox[g]
    BY <1>3, <1>5, PeersAre
  <2>2. ASSUME NEW g \in Humans, NEW v \in Watchers
        PROVE  Preceded(Script, inbox'[v], g, Explained(Script, doc[g], g) \cup ShownIn(Script, outbox[g], g))
    <3>1. CASE v = p
      BY <3>1, <1>3 DEF Preceded
    <3>2. CASE v # p
      BY <3>2, <1>0, <1>1, PeersAre DEF NoticesInv, Arriving
    <3> QED BY <3>1, <3>2
  <2> QED BY <2>1, <2>2, <1>0, <1>2, SoundStays, NoticesAre DEF NoticesInv
<1> QED BY <1>8, <1>9, <1>10, <1>14, <1>15, <1>16 DEF AgentInv

(* An update, with its sender, a presence or a denial goes on to the room. *)
Stamped(p, f, e) ==
    /\ e.kind = f.kind /\ e.kind # "SNAPSHOT"
    /\ f.kind = "UPDATE" => e.doc = f.doc /\ e.from = p
    /\ f.kind # "UPDATE" => e = f
    /\ store' = IF f.kind = "UPDATE" THEN f.doc ELSE store

LEMMA ForwardKeeps ==
  ASSUME AgentInv, plan' = plan, NEW p, NEW f, Takes(p, f), f.kind # "SUBSCRIBE",
         NEW e \in Got, Stamped(p, f, e), Forward(p, e), room' = room, begun' = begun
  PROVE  AgentInv'
<1>0. AgentTypeOK /\ RoomInv /\ DocsInv /\ AuthorsInv /\ GateInv /\ NoticesInv
  BY DEF AgentInv
<1>1. /\ inbox[p] \in Seq(Sent) /\ f \in Sent /\ f \in ToSet(inbox[p])
      /\ p \in Humans => f.kind \in {"UPDATE", "AWARENESS"}
      /\ inbox' \in [Peers -> Seq(Sent)] /\ inbox'[p] = Tail(inbox[p])
      /\ ToSet(inbox[p]) = {f} \cup ToSet(inbox'[p])
      /\ \A q \in Peers : q # p => inbox'[q] = inbox[q]
      /\ \A q \in Peers : ToSet(inbox'[q]) \subseteq ToSet(inbox[q])
  <2>1. p \in Humans => f.kind \in {"UPDATE", "AWARENESS"}
    BY <1>0, TakesIs
  <2>2. inbox[p] \in Seq(Sent) /\ f \in Sent /\ f \in ToSet(inbox[p])
    BY <1>0, TakesIs
  <2>3. inbox' \in [Peers -> Seq(Sent)] /\ inbox'[p] = Tail(inbox[p]) /\ ToSet(inbox[p]) = {f} \cup ToSet(inbox'[p])
    BY <1>0, TakesIs
  <2>4. \A q \in Peers : q # p => inbox'[q] = inbox[q]
    BY <1>0, TakesIs
  <2>5. \A q \in Peers : ToSet(inbox'[q]) \subseteq ToSet(inbox[q])
    BY <1>0, TakesIs
  <2> QED BY <2>1, <2>2, <2>3, <2>4, <2>5
<1>2. /\ p \in Peers /\ doc' = doc /\ pause' = pause /\ notices' = notices /\ link' = link
      /\ answered' = answered /\ authors' = authors /\ pending_since' = pending_since
      /\ last_writing' = last_writing /\ drops' = drops
      /\ inbox[p] # << >> /\ f = Head(inbox[p])
  BY DEF Takes
<1>3. /\ HasDoc(f) <=> f.kind = "UPDATE"
      /\ HasDoc(e) <=> f.kind = "UPDATE"
      /\ HasDoc(f) => f.doc \in Doc /\ f.doc \in Logs /\ e.doc = f.doc /\ e.from = p
      /\ e.kind = f.kind
      /\ f.kind # "UPDATE" => e = f
      /\ store' = IF f.kind = "UPDATE" THEN f.doc ELSE store
  BY <1>0, <1>1, <1>2, SentIs, LogsAre DEF Stamped, HasDoc
<1>4. /\ outbox' \in [Peers -> Seq(Got)]
      /\ \A q \in Peers :
           /\ q \in room /\ q # p /\ Heeds(q, e) =>
                outbox'[q] = Append(outbox[q], e) /\ ToSet(outbox'[q]) = ToSet(outbox[q]) \cup {e}
           /\ ~(q \in room /\ q # p /\ Heeds(q, e)) => outbox'[q] = outbox[q]
  BY <1>0, <1>2, ForwardIs
<1>5. \A q \in Peers : /\ ToSet(outbox[q]) \subseteq ToSet(outbox'[q])
                       /\ ToSet(outbox'[q]) \subseteq ToSet(outbox[q]) \cup {e}
  BY <1>4
<1>6. AgentTypeOK'
  <2>1. store' \in Doc
    BY <1>0, <1>3 DEF AgentTypeOK
  <2> QED BY <2>1, <1>0, <1>1, <1>2, <1>4 DEF AgentTypeOK
<1>7. RoomInv'
  <2>1. \A h \in Humans : \A g \in ToSet(inbox'[h]) : g.kind \in {"UPDATE", "AWARENESS"}
    BY <1>0, <1>1, PeersAre DEF RoomInv
  <2>2. ASSUME NEW v \in Watchers
        PROVE  /\ v \in room' => link'[v]
               /\ v \notin room' => outbox'[v] = << >>
               /\ v \notin room' /\ link'[v] =>
                    /\ inbox'[v] = <<[kind |-> "SUBSCRIBE"]>> /\ doc'[v] = NewDoc
                    /\ \A t \in Texts : pending_since'[v][t] = Unseen
               /\ v \in room' \/ ~link'[v] => \A g \in ToSet(inbox'[v]) : g.kind # "SUBSCRIBE"
    <3>1. v \in Peers /\ ToSet(inbox'[v]) \subseteq ToSet(inbox[v])
      BY <1>1, <2>2, PeersAre
    <3>2. v \notin room => outbox'[v] = outbox[v]
      BY <3>1, <1>4
    <3>3. Joining(v) => v # p
      BY <1>2 DEF Joining
    <3>4. Joining(v) => inbox'[v] = inbox[v]
      BY <3>1, <3>3, <1>1
    <3> QED BY <2>2, <3>1, <3>2, <3>4, <1>0, <1>2 DEF RoomInv, Joining
  <2> QED BY <2>1, <2>2, <1>0, RoomIs DEF RoomInv
<1>8. DocsInv'
  <2>1. \A d \in Logs' : d \in Logs \cup {}
    <3>1. \A q \in Peers : \A g \in ToSet(outbox'[q]) : HasDoc(g) =>
            g \in ToSet(outbox[q]) \/ g.doc \in Logs \cup {}
      BY <1>3, <1>5
    <3>2. \A q \in Peers : \A g \in ToSet(inbox'[q]) : HasDoc(g) =>
            g \in ToSet(inbox[q]) \/ g.doc \in Logs \cup {}
      BY <1>1
    <3>3. store' \in Logs \cup {} /\ \A q \in Peers : doc'[q] \in Logs \cup {}
      BY <1>0, <1>2, <1>3, LogsAre
    <3> QED BY <3>1, <3>2, <3>3, LogsGrow
  <2> QED BY <1>0, <1>2, <2>1, LogsStay
<1>9. ASSUME NEW k \in Lines, Carries(e, k)
      PROVE  f.kind = "UPDATE" /\ e.kind = "UPDATE" /\ e.from = p /\ (p # Author[k] => Out(k))
  <2>1. HasDoc(f) /\ f.doc.typed[k] > 0
    BY <1>3, <1>9 DEF Carries
  <2> QED BY <2>1, <1>1, <1>2, <1>3 DEF Out, Carries
<1>10. ASSUME NEW k \in Lines PROVE Out(k)' => Out(k) \/ (p = Author[k] /\ Carries(e, k))
  <2>1. CASE Out(k)
    BY <2>1
  <2>2. CASE p = Author[k] /\ Carries(e, k)
    BY <2>2
  <2>3. CASE ~Out(k) /\ ~(p = Author[k] /\ Carries(e, k))
    <3>0. ~Carries(e, k)
      BY <2>3, <1>9, <1>10
    <3>1. \A q \in Peers : q # Author[k] /\ doc'[q].typed[k] > 0 => Out(k)
      BY <1>2 DEF Out
    <3>2. \A q \in Peers : \A g \in ToSet(inbox'[q]) : q # Author[k] /\ Carries(g, k) => Out(k)
      BY <1>1 DEF Out
    <3>3. \A q \in Peers : \A g \in ToSet(outbox'[q]) : Carries(g, k) => Out(k)
      BY <3>0, <1>5 DEF Out
    <3>4. store'.typed[k] > 0 => Out(k)
      BY <3>0, <1>3 DEF Out, Carries
    <3> QED BY <3>1, <3>2, <3>3, <3>4, OutOnly
  <2> QED BY <2>1, <2>2, <2>3
<1>11. ASSUME NEW v \in Watchers, NEW k \in Lines, Hears(v, k)'
       PROVE  /\ Hears(v, k) /\ v \in Peers /\ v \in room
              /\ Author[k] \in Humans /\ Author[k] \in Peers /\ v # Author[k]
  BY <1>2, <1>11, PeersAre DEF Hears
<1>12. ASSUME NEW v \in Watchers, v \in room, v # p, f.kind \in {"UPDATE", "AWARENESS"}
       PROVE  e \in ToSet(outbox'[v])
  <2>1. v \in Peers /\ Heeds(v, e)
    BY <1>3, <1>12, PeersAre DEF Heeds
  <2> QED BY <2>1, <1>4, <1>12
<1>13. AuthorsInv'
  <2>1. ASSUME NEW v \in Watchers, NEW k \in Lines, Hears(v, k)' PROVE FirstHeard(v, k)'
    <3>1. FirstHeard(v, k) /\ v \in Peers /\ v \in room /\ v # Author[k]
      BY <1>0, <1>11, <2>1, AuthorsGate
    <3>2. ASSUME doc[v].typed[k] = 0 PROVE FirstFrom(outbox'[v], k, Author[k])
      <4>1. FirstFrom(outbox[v], k, Author[k]) /\ outbox[v] \in Seq(Got)
        BY <3>1, <3>2, <1>0, Typed DEF FirstHeard
      <4>2. CASE v # p /\ Heeds(v, e)
        <5>1. outbox'[v] = Append(outbox[v], e)
          BY <3>1, <4>2, <1>4
        <5>2. Carries(e, k) => \/ e.kind = "UPDATE" /\ e.from = Author[k]
                              \/ \E g \in ToSet(outbox[v]) : Carries(g, k)
          <6>1. Out(k) => \E g \in ToSet(outbox[v]) : Carries(g, k)
            BY <3>1, <3>2 DEF FirstHeard
          <6> QED BY <6>1, <1>9, <2>1
        <5> QED BY <4>1, <5>1, <5>2, FirstFromAppend
      <4>3. CASE ~(v # p /\ Heeds(v, e))
        <5>1. outbox'[v] = outbox[v]
          BY <3>1, <4>3, <1>4
        <5> QED BY <4>1, <5>1
      <4> QED BY <4>2, <4>3
    <3>3. Out(k)' => Out(k) \/ \E g \in ToSet(outbox'[v]) : Carries(g, k)
      <4>1. p = Author[k] /\ Carries(e, k) => e \in ToSet(outbox'[v])
        BY <1>9, <1>12, <2>1, <3>1
      <4> QED BY <4>1, <1>10, <2>1
    <3>4. ToSet(outbox[v]) \subseteq ToSet(outbox'[v])
      BY <1>5, <3>1
    <3> QED BY <3>1, <3>2, <3>3, <3>4, <1>2, HeardKeeps
  <2> QED BY <2>1, <1>0, <1>2 DEF AuthorsInv
<1>14. GateInv'
  <2>1. ASSUME NEW v \in Watchers, NEW k \in Lines, Hears(v, k)' PROVE Gate(v, k)'
    <3> DEFINE a == Author[k]
    <3>1. Gate(v, k) /\ v \in Peers /\ v \in room /\ v # a /\ a \in Peers
      BY <1>0, <1>11, <2>1, AuthorsGate
    <3> HIDE DEF a
    <3>2. ToSet(outbox[v]) \subseteq ToSet(outbox'[v])
      BY <1>5, <3>1
    <3>3. ToSet(inbox[a]) \subseteq ToSet(inbox'[a]) \cup {f}
      BY <1>1, <3>1
    <3>4. CASE a = p /\ f.kind \in {"UPDATE", "AWARENESS"}
      <4>1. e \in ToSet(outbox'[v])
        BY <3>1, <3>4, <1>12
      <4>2. Latest(doc, f, k) => Latest(doc, e, k)
        BY <1>3 DEF Latest
      <4>3. \A g \in ToSet(inbox[a]) \cup ToSet(outbox[v]) : Latest(doc, g, k) =>
              \E b \in ToSet(inbox'[a]) \cup ToSet(outbox'[v]) : Latest(doc, b, k)
        BY <4>1, <4>2, <3>2, <3>3
      <4>4. \A g \in ToSet(inbox[a]) \cup ToSet(outbox[v]) : g.kind = "AWARENESS" =>
              \E b \in ToSet(inbox'[a]) \cup ToSet(outbox'[v]) : b.kind = "AWARENESS"
        BY <4>1, <3>2, <3>3, <1>3
      <4> QED BY <4>3, <4>4, <3>1, <1>2, GateKeeps DEF a
    <3>5. CASE ~(a = p /\ f.kind \in {"UPDATE", "AWARENESS"})
      <4>1. a # p
        BY <3>5, <1>1, <1>11, <2>1 DEF a
      <4>2. inbox'[a] = inbox[a]
        BY <4>1, <3>1, <1>1
      <4> QED BY <4>2, <3>1, <3>2, <1>2, GateKeeps DEF a
    <3> QED BY <3>4, <3>5
  <2> QED BY <2>1, <1>0, <1>2, SoundStays DEF GateInv, Gate, SeenBefore
<1>15. NoticesInv'
  <2>1. ASSUME NEW h \in Humans
        PROVE  /\ \A g \in ToSet(outbox'[h]) : g.kind = "NOTIFY" => g.to = h
               /\ Preceded(Script, outbox'[h], h, Explained(Script, doc[h], h))
               /\ \A w \in Watchers : Preceded(Script, inbox'[w], h,
                    Explained(Script, doc[h], h) \cup ShownIn(Script, outbox'[h], h))
    <3> DEFINE E == Explained(Script, doc[h], h)
               N == E \cup ShownIn(Script, outbox'[h], h)
    <3>1. /\ \A g \in ToSet(outbox[h]) : g.kind = "NOTIFY" => g.to = h
          /\ Preceded(Script, outbox[h], h, E)
          /\ \A w \in Watchers : Preceded(Script, inbox[w], h, E \cup ShownIn(Script, outbox[h], h))
      BY <1>0, <2>1 DEF NoticesInv, Arriving
    <3>2. h \in Peers /\ h \in room /\ outbox[h] \in Seq(Got)
      BY <1>0, <2>1, PeersAre, Typed DEF RoomInv
    <3>3. E \cup ShownIn(Script, outbox[h], h) \subseteq N
      BY <1>5, <3>2 DEF ShownIn
    <3>4. h # p => Shown(Script, f, h) \subseteq N
      <4>1. CASE f.kind = "UPDATE" /\ h # p
        <5>1. e \in ToSet(outbox'[h])
          BY <4>1, <3>2, <1>3, <1>4 DEF Heeds
        <5>2. Shown(Script, f, h) = Shown(Script, e, h)
          BY <4>1, <1>3 DEF Shown
        <5> QED BY <5>1, <5>2 DEF ShownIn
      <4>2. CASE f.kind # "UPDATE"
        BY <4>2 DEF Shown
      <4> QED BY <4>1, <4>2
    <3> HIDE DEF E, N
    <3>5. ASSUME e.kind = "NOTIFY", e.to = h PROVE e.line \in E \cup ShownIn(Script, outbox[h], h)
      <4>1. p \in Watchers /\ e = f
        BY <3>5, <1>1, <1>2, <1>3, PeersAre
      <4> QED BY <4>1, <3>1, <3>5, <1>1, <1>2, PrecededTail
    <3>6. CASE h # p /\ Heeds(h, e)
      <4>1. outbox'[h] = Append(outbox[h], e)
        BY <3>2, <3>6, <1>4
      <4>2. Preceded(Script, outbox'[h], h, E)
        BY <4>1, <3>1, <3>2, <3>5, PrecededAppend
      <4>3. \A g \in ToSet(outbox'[h]) : g.kind = "NOTIFY" => g.to = h
        BY <3>1, <3>2, <3>6, <1>5 DEF Heeds
      <4>4. ASSUME NEW w \in Watchers PROVE Preceded(Script, inbox'[w], h, N)
        <5>1. Preceded(Script, inbox[w], h, N)
          BY <4>4, <3>1, <3>3, PrecededMore
        <5>2. CASE w = p
          <6>1. Preceded(Script, inbox'[w], h, N \cup Shown(Script, f, h))
            BY <5>1, <5>2, <1>1, <1>2, PrecededTail
          <6>2. N \cup Shown(Script, f, h) = N
            BY <3>4, <3>6
          <6> QED BY <6>1, <6>2
        <5>3. CASE w # p
          BY <5>1, <5>3, <1>1, PeersAre
        <5> QED BY <5>2, <5>3
      <4> QED BY <4>2, <4>3, <4>4 DEF E, N
    <3>7. CASE ~(h # p /\ Heeds(h, e))
      <4>1. outbox'[h] = outbox[h]
        BY <3>2, <3>7, <1>4
      <4>4. ASSUME NEW w \in Watchers PROVE Preceded(Script, inbox'[w], h, N)
        <5>1. Preceded(Script, inbox[w], h, N)
          BY <4>4, <3>1, <3>3, PrecededMore
        <5>2. CASE w = p
          <6>0. h # p
            BY <5>2, <2>1, PeersAre
          <6>1. Preceded(Script, inbox'[w], h, N \cup Shown(Script, f, h))
            BY <5>1, <5>2, <1>1, <1>2, PrecededTail
          <6>2. N \cup Shown(Script, f, h) = N
            BY <3>4, <6>0
          <6> QED BY <6>1, <6>2
        <5>3. CASE w # p
          BY <5>1, <5>3, <1>1, PeersAre
        <5> QED BY <5>2, <5>3
      <4> QED BY <4>1, <4>4, <3>1 DEF E, N
    <3> QED BY <3>6, <3>7
  <2> QED BY <2>1, <1>0, <1>2, SoundStays, NoticesAre DEF NoticesInv
<1> QED BY <1>6, <1>7, <1>8, <1>13, <1>14, <1>15 DEF AgentInv

LEMMA ServeKeeps ==
  ASSUME AgentInv, plan' = plan, NEW p \in Peers, Serve(p)
  PROVE  AgentInv'
<1> DEFINE f == Head(inbox[p])
<1>1. Takes(p, f)
  BY DEF Serve, Takes, loop
<1>2. AgentTypeOK /\ RoomInv
  BY DEF AgentInv
<1>3. f \in Sent
  BY <1>1, <1>2, TakesIs
<1>4. \/ /\ f.kind = "SUBSCRIBE" /\ store' = store
         /\ room' = room \cup {p}
         /\ outbox' = [outbox EXCEPT ![p] = Append(@, [kind |-> "SNAPSHOT", doc |-> store])]
         /\ begun' = [begun EXCEPT ![p] = {l \in Lines : doc[Author[l]].typed[l] > 0}]
      \/ /\ f.kind = "UPDATE" /\ store' = f.doc /\ room' = room /\ begun' = begun
         /\ Forward(p, [kind |-> "UPDATE", doc |-> f.doc, from |-> p])
      \/ /\ f.kind \in {"AWARENESS", "NOTIFY"} /\ store' = store /\ room' = room /\ begun' = begun
         /\ Forward(p, f)
  BY DEF Serve
<1> HIDE DEF f
<1>5. CASE f.kind = "SUBSCRIBE"
  BY <1>1, <1>4, <1>5, SubscribeKeeps
<1>6. CASE f.kind = "UPDATE"
  <2> DEFINE e == [kind |-> "UPDATE", doc |-> f.doc, from |-> p]
  <2>1. e \in Got /\ Stamped(p, f, e)
    BY <1>3, <1>4, <1>6, SentIs DEF Got, Stamped, HasDoc
  <2>2. Forward(p, e) /\ room' = room /\ begun' = begun
    BY <1>4, <1>6
  <2> HIDE DEF e
  <2> QED BY <2>1, <2>2, <1>1, <1>6, ForwardKeeps
<1>7. CASE f.kind \in {"AWARENESS", "NOTIFY"}
  <2>1. f \in Got /\ Stamped(p, f, f)
    BY <1>3, <1>4, <1>7, SentIs DEF Got, Stamped
  <2> QED BY <2>1, <1>1, <1>4, <1>7, ForwardKeeps
<1> QED BY <1>3, <1>5, <1>6, <1>7, SentIs

-----------------------------------------------------------------------------
(* A watcher reads a frame. *)

LEMMA FirstHeardIs ==
  ASSUME NEW w, NEW l
  PROVE  FirstHeard(w, l)' <=>
           /\ doc'[w].typed[l] > 0 => authors'[w][l] = Author[l]
           /\ doc'[w].typed[l] = 0 => FirstFrom(outbox'[w], l, Author[l])
           /\ Out(l)' => doc'[w].typed[l] > 0 \/ \E f \in ToSet(outbox'[w]) : Carries(f, l)
  BY DEF FirstHeard, FirstFrom, Carries, HasDoc, ToSet

LEMMA GateIs ==
  ASSUME plan' = plan, NEW w, NEW l
  PROVE  Gate(w, l)' <=>
           /\ \/ doc'[w].typed[l] = doc'[Author[l]].typed[l]
              \/ \E f \in ToSet(inbox'[Author[l]]) \cup ToSet(outbox'[w]) : Latest(doc', f, l)
           /\ doc'[Author[l]].typed[l] \in 1..(Len(Script[l]) - 1) =>
                \/ last_writing'[w] <= pause'[Author[l]]
                \/ \E f \in ToSet(inbox'[Author[l]]) \cup ToSet(outbox'[w]) : f.kind = "AWARENESS"
           /\ \A t \in Texts :
                /\ t \in ToSet(Script[l]) /\ ~Shared(l, t)
                /\ doc'[w].typed[l] > 0 /\ doc'[w].typed[l] < Len(Script[l])
                /\ pending_since'[w][t] = STABLE
                => last_writing'[w] < WRITER_QUIET
<1>1. UpToDate(w, l)' <=>
        \/ doc'[w].typed[l] = doc'[Author[l]].typed[l]
        \/ \E f \in ToSet(inbox'[Author[l]]) \cup ToSet(outbox'[w]) : Latest(doc', f, l)
  BY DEF UpToDate, Latest, ToSet
<1>2. Alerted(w, l)' <=>
        \/ last_writing'[w] <= pause'[Author[l]]
        \/ \E f \in ToSet(inbox'[Author[l]]) \cup ToSet(outbox'[w]) : f.kind = "AWARENESS"
  BY DEF Alerted, ToSet
<1>3. Unfinished(Author[l], l)' <=> doc'[Author[l]].typed[l] \in 1..(Len(Script[l]) - 1)
  BY SoundStays DEF Unfinished
<1>4. Held(w, l)' <=>
        \A t \in Texts :
                /\ t \in ToSet(Script[l]) /\ ~Shared(l, t)
                /\ doc'[w].typed[l] > 0 /\ doc'[w].typed[l] < Len(Script[l])
                /\ pending_since'[w][t] = STABLE
                => last_writing'[w] < WRITER_QUIET
  BY SoundStays DEF Held, Shared, ToSet
<1> QED BY <1>1, <1>2, <1>3, <1>4 DEF Gate

(* A text a watcher has seen is one of a line that somebody began. *)
LEMMA SeenShared ==
  ASSUME AgentTypeOK, DocsInv, NEW w \in Watchers, NEW k \in Lines, NEW t,
         SeenBefore(w, t), doc[w].typed[k] = 0
  PROVE  Shared(k, t)
<1>1. PICK l \in Lines : \E i \in 1..doc[w].typed[l] : Script[l][i] = t
  BY DEF SeenBefore
<1>2. PICK i \in 1..doc[w].typed[l] : Script[l][i] = t
  BY <1>1
<1>3. doc[w].typed[l] \in Nat /\ doc[Author[l]].typed[l] \in Nat
  BY Typed, DocIs, PeersAre
<1>4. doc[w].typed[l] <= doc[Author[l]].typed[l]
  BY LogsAre, PeersAre DEF DocsInv, Behind
<1>5. doc[Author[l]].typed[l] <= Len(Script[l]) /\ Script[l] \in Seq(Texts) /\ Len(Script[l]) \in Nat
  BY Typed DEF DocsInv
<1>6. i \in 1..Len(Script[l]) /\ DOMAIN Script[l] = 1..Len(Script[l])
  BY <1>2, <1>3, <1>4, <1>5
<1>7. t \in ToSet(Script[l])
  BY <1>2, <1>6 DEF ToSet
<1>8. l # k
  BY <1>2, <1>3
<1> QED BY <1>7, <1>8 DEF Shared

LEMMA ReadKeeps ==
  ASSUME AgentInv, plan' = plan, NEW w \in Watchers, Read(w)
  PROVE  AgentInv'
<1> DEFINE f == Head(outbox[w])
           t == Tail(outbox[w])
           u == f.kind \in {"UPDATE", "SNAPSHOT"}
           d == IF u THEN Merge(doc[w], f.doc) ELSE doc[w]
           Attributed(k) == f.kind = "UPDATE" /\ doc[w].typed[k] = 0 /\ d.typed[k] > 0
                       /\ authors[w][k] = Nobody
<1>0. AgentTypeOK /\ RoomInv /\ DocsInv /\ AuthorsInv /\ GateInv /\ NoticesInv
  BY DEF AgentInv
<1>1. /\ w \in Peers /\ w \notin Humans /\ doc[w] \in Doc /\ w \in room
      /\ outbox[w] \in Seq(Got) /\ outbox[w] # << >>
      /\ \A p \in Peers : doc[p] \in Doc
      /\ inbox' = inbox /\ room' = room /\ store' = store /\ notices' = notices
      /\ link' = link /\ drops' = drops /\ begun' = begun
      /\ answered' = answered /\ pending_since' = pending_since /\ pause' = pause
      /\ outbox' = [outbox EXCEPT ![w] = t]
  BY <1>0, PeersAre, Typed DEF Read, RoomInv
<1>2. \/ /\ f.kind = "SNAPSHOT" /\ doc' = [doc EXCEPT ![w] = Merge(doc[w], f.doc)]
         /\ authors' = authors /\ last_writing' = last_writing
      \/ /\ f.kind = "UPDATE" /\ doc' = [doc EXCEPT ![w] = Merge(doc[w], f.doc)]
         /\ authors' = [authors EXCEPT ![w] = Attribute(w, Merge(doc[w], f.doc), f.from)]
         /\ last_writing' = last_writing
      \/ /\ f.kind = "AWARENESS" /\ doc' = doc /\ authors' = authors
         /\ last_writing' = [last_writing EXCEPT ![w] = 0]
  BY <1>0, <1>1 DEF Read, AgentTypeOK
<1>3. /\ f \in Got /\ f \in ToSet(outbox[w]) /\ t \in Seq(Got)
      /\ ToSet(outbox[w]) = {f} \cup ToSet(t)
  BY <1>1, TailIs
<1>4. /\ u <=> HasDoc(f)
      /\ u => f.doc \in Doc /\ f.doc \in Logs
      /\ f.kind = "UPDATE" => f.from \in Peers
  BY <1>0, <1>1, <1>3, GotIs, LogsAre DEF HasDoc
<1>5. Behind(doc, doc[w]) /\ (u => Behind(doc, f.doc)) /\ doc[w] \in Logs
  BY <1>0, <1>1, <1>4, LogsAre DEF DocsInv
<1>6. \A k \in Lines : FirstFrom(outbox[w], k, Author[k]) =>
        /\ Carries(f, k) => f.kind = "UPDATE" /\ f.from = Author[k]
        /\ ~Carries(f, k) => FirstFrom(t, k, Author[k])
  BY <1>1, FirstFromTail
<1> HIDE DEF f, t
<1>7. /\ d \in Doc
      /\ \A k \in Lines : d.typed[k] = IF u THEN Max2(doc[w].typed[k], f.doc.typed[k]) ELSE doc[w].typed[k]
      /\ d.replies = doc[w].replies \cup IF u THEN f.doc.replies ELSE {}
  BY <1>1, <1>4, MergeIs
<1>8. /\ doc'[w] = d /\ doc' \in [Peers -> Doc] /\ \A p \in Peers : p # w => doc'[p] = doc[p]
      /\ outbox'[w] = t /\ outbox' \in [Peers -> Seq(Got)]
      /\ \A p \in Peers : p # w => outbox'[p] = outbox[p]
  <2>1. doc \in [Peers -> Doc] /\ outbox \in [Peers -> Seq(Got)]
    BY <1>0 DEF AgentTypeOK
  <2>2. doc' = [doc EXCEPT ![w] = d]
    <3>1. CASE u
      BY <3>1, <1>2
    <3>2. CASE ~u
      BY <3>2, <2>1, <1>1, <1>2
    <3> QED BY <3>1, <3>2
  <2> HIDE DEF d
  <2> QED BY <2>1, <2>2, <1>1, <1>3, <1>7
<1>9. /\ authors' \in [Watchers -> [Lines -> Peers \cup {Nobody}]]
      /\ \A v \in Watchers : v # w => authors'[v] = authors[v]
      /\ \A k \in Lines : authors'[w][k] = IF Attributed(k) THEN f.from ELSE authors[w][k]
  <2>1. authors \in [Watchers -> [Lines -> Peers \cup {Nobody}]]
    BY <1>0 DEF AgentTypeOK
  <2>2. CASE f.kind = "UPDATE"
    <3>1. authors' = [authors EXCEPT ![w] = Attribute(w, d, f.from)]
      BY <1>2, <2>2
    <3>2. /\ Attribute(w, d, f.from) \in [Lines -> Peers \cup {Nobody}]
          /\ \A k \in Lines : Attribute(w, d, f.from)[k] = IF Attributed(k) THEN f.from ELSE authors[w][k]
      <4> HIDE DEF d
      <4> QED BY <2>1, <2>2, <1>4 DEF Attribute
    <3> HIDE DEF d, Attributed
    <3> QED BY <2>1, <3>1, <3>2
  <2>3. CASE f.kind # "UPDATE"
    BY <2>1, <2>3, <1>2
  <2> QED BY <2>2, <2>3
<1> HIDE DEF d, u, Attributed
<1>10. \A k \in Lines : /\ d.typed[k] \in Nat /\ doc[w].typed[k] \in Nat /\ doc[Author[k]].typed[k] \in Nat
                        /\ doc[w].typed[k] <= d.typed[k] /\ d.typed[k] <= doc[Author[k]].typed[k]
                        /\ u => f.doc.typed[k] \in Nat /\ f.doc.typed[k] <= d.typed[k]
                        /\ doc[w].typed[k] = 0 /\ d.typed[k] > 0 => u /\ f.doc.typed[k] > 0
  <2> SUFFICES ASSUME NEW k \in Lines
               PROVE  /\ d.typed[k] \in Nat /\ doc[w].typed[k] \in Nat /\ doc[Author[k]].typed[k] \in Nat
                      /\ doc[w].typed[k] <= d.typed[k] /\ d.typed[k] <= doc[Author[k]].typed[k]
                      /\ u => f.doc.typed[k] \in Nat /\ f.doc.typed[k] <= d.typed[k]
                      /\ doc[w].typed[k] = 0 /\ d.typed[k] > 0 => u /\ f.doc.typed[k] > 0
    OBVIOUS
  <2>1. /\ doc[w].typed[k] \in Nat /\ d.typed[k] \in Nat /\ (u => f.doc.typed[k] \in Nat)
        /\ doc[Author[k]].typed[k] \in Nat
    BY <1>1, <1>4, <1>7, DocIs, PeersAre
  <2>2. /\ doc[w].typed[k] <= doc[Author[k]].typed[k]
        /\ u => f.doc.typed[k] <= doc[Author[k]].typed[k]
    BY <1>5 DEF Behind
  <2>3. d.typed[k] = IF u THEN Max2(doc[w].typed[k], f.doc.typed[k]) ELSE doc[w].typed[k]
    BY <1>7
  <2>4. CASE u
    BY <2>1, <2>2, <2>3, <2>4 DEF Max2
  <2>5. CASE ~u
    BY <2>1, <2>2, <2>3, <2>5
  <2> QED BY <2>4, <2>5
<1>11. \A k \in Lines : Author[k] # w /\ doc'[Author[k]] = doc[Author[k]]
  BY <1>1, <1>8, PeersAre
<1>12. AgentTypeOK'
  <2>1. last_writing' \in [Watchers -> 0..WRITER_QUIET]
    <3>1. last_writing \in [Watchers -> 0..WRITER_QUIET] /\ 0 \in 0..WRITER_QUIET
      BY <1>0 DEF AgentTypeOK, WRITER_QUIET
    <3>2. last_writing' = last_writing \/ last_writing' = [last_writing EXCEPT ![w] = 0]
      BY <1>2
    <3> QED BY <3>1, <3>2
  <2> QED BY <2>1, <1>0, <1>1, <1>8, <1>9 DEF AgentTypeOK
<1>13. RoomInv'
  <2>1. \A v \in Watchers : v # w => outbox'[v] = outbox[v] /\ doc'[v] = doc[v]
    BY <1>8, PeersAre
  <2> QED BY <2>1, <1>0, <1>1, RoomIs DEF RoomInv, Joining
<1>14. DocsInv'
  <2>1. \A e \in Logs' : e \in Logs \cup {d}
    <3>1. \A p \in Peers : doc'[p] \in Logs \cup {d}
      BY <1>0, <1>8, LogsAre
    <3>2. \A p \in Peers : \A g \in ToSet(outbox'[p]) : g \in ToSet(outbox[p])
      BY <1>3, <1>8
    <3> QED BY <3>1, <3>2, <1>0, <1>1, LogsAre, LogsGrow
  <2>2. Behind(doc', d)
    BY <1>10, <1>11 DEF Behind
  <2>3. \A r \in d.replies : Sound(r)
    BY <1>0, <1>4, <1>5, <1>7 DEF DocsInv
  <2>4. \A k \in Lines : /\ doc'[Author[k]].typed[k] \in Nat
                         /\ doc[Author[k]].typed[k] <= doc'[Author[k]].typed[k]
                         /\ doc'[Author[k]].typed[k] <= Len(Script[k])
    BY <1>0, <1>10, <1>11 DEF DocsInv
  <2>5. \A e \in {d} : Behind(doc', e) /\ \A r \in e.replies : Sound(r)
    BY <2>2, <2>3
  <2> QED BY <1>0, <2>1, <2>4, <2>5, DocsKeep
<1>15. ASSUME NEW k \in Lines PROVE Out(k)' => Out(k)
  <2>1. \A p \in Peers : p # Author[k] /\ doc'[p].typed[k] > 0 => Out(k)
    <3>1. ASSUME d.typed[k] > 0 PROVE Out(k)
      <4>1. CASE doc[w].typed[k] > 0
        BY <4>1, <1>1, <1>11, <1>15 DEF Out
      <4>2. CASE doc[w].typed[k] = 0
        BY <4>2, <3>1, <1>1, <1>3, <1>4, <1>10, <1>15 DEF Out, Carries
      <4> QED BY <4>1, <4>2, <1>10, <1>15
    <3> QED BY <3>1, <1>8 DEF Out
  <2>2. \A p \in Peers : \A g \in ToSet(inbox'[p]) : p # Author[k] /\ Carries(g, k) => Out(k)
    BY <1>1 DEF Out
  <2>3. \A p \in Peers : \A g \in ToSet(outbox'[p]) : Carries(g, k) => Out(k)
    BY <1>3, <1>8 DEF Out
  <2>4. store'.typed[k] > 0 => Out(k)
    BY <1>1 DEF Out
  <2> QED BY <2>1, <2>2, <2>3, <2>4, OutOnly
<1>16. ASSUME NEW v \in Watchers, NEW k \in Lines, Hears(v, k)', v # w
       PROVE  /\ FirstHeard(v, k) /\ Gate(v, k)
              /\ doc'[v] = doc[v] /\ outbox'[v] = outbox[v] /\ authors'[v] = authors[v]
              /\ last_writing'[v] = last_writing[v]
  <2>1. Hears(v, k) /\ v \in Peers
    BY <1>1, <1>16, PeersAre DEF Hears
  <2>2. last_writing'[v] = last_writing[v]
    BY <1>0, <1>2, <1>16 DEF AgentTypeOK
  <2> QED BY <2>1, <2>2, <1>0, <1>8, <1>9, <1>16, AuthorsGate
<1>17. ASSUME NEW k \in Lines, Hears(w, k)' PROVE FirstHeard(w, k) /\ Gate(w, k)
  <2>1. Hears(w, k)
    BY <1>1, <1>17 DEF Hears
  <2> QED BY <2>1, <1>0, <1>17, AuthorsGate
<1>18. \A k \in Lines : authors[w][k] # Nobody => doc[w].typed[k] > 0
  BY <1>0 DEF AuthorsInv
<1>19. AuthorsInv'
  <2>1. ASSUME NEW v \in Watchers, NEW k \in Lines, Hears(v, k)' PROVE FirstHeard(v, k)'
    <3>1. CASE v # w
      <4>1. /\ FirstHeard(v, k) /\ doc'[v] = doc[v] /\ outbox'[v] = outbox[v] /\ authors'[v] = authors[v]
        BY <2>1, <3>1, <1>16
      <4>2. Out(k)' => Out(k)
        BY <1>15, <2>1
      <4> QED BY <4>1, <4>2, HeardKeeps DEF FirstHeard
    <3>2. CASE v = w
      <4>1. FirstHeard(w, k)
        BY <2>1, <3>2, <1>17
      <4>2. /\ d.typed[k] \in Nat /\ doc[w].typed[k] \in Nat /\ doc[w].typed[k] <= d.typed[k]
            /\ doc[w].typed[k] = 0 /\ d.typed[k] > 0 => Carries(f, k)
            /\ Carries(f, k) => d.typed[k] > 0
        BY <1>4, <1>10, <2>1 DEF Carries
      <4>3. ASSUME d.typed[k] > 0 PROVE authors'[w][k] = Author[k]
        <5>1. CASE doc[w].typed[k] > 0
          <6>1. authors[w][k] = Author[k] /\ ~Attributed(k)
            BY <5>1, <4>1, <4>2 DEF FirstHeard, Attributed
          <6> QED BY <6>1, <1>9, <2>1
        <5>2. CASE doc[w].typed[k] = 0
          <6>1. f.kind = "UPDATE" /\ f.from = Author[k]
            BY <5>2, <4>1, <4>2, <4>3, <1>6, <2>1 DEF FirstHeard
          <6>2. Attributed(k)
            BY <6>1, <5>2, <4>3, <1>18, <2>1 DEF Attributed
          <6> QED BY <6>1, <6>2, <1>9, <2>1
        <5> QED BY <5>1, <5>2, <4>2
      <4>4. ASSUME d.typed[k] = 0 PROVE FirstFrom(t, k, Author[k])
        <5>1. doc[w].typed[k] = 0 /\ ~Carries(f, k)
          BY <4>2, <4>4
        <5> QED BY <5>1, <4>1, <1>6, <2>1 DEF FirstHeard
      <4>5. Out(k)' => d.typed[k] > 0 \/ \E g \in ToSet(t) : Carries(g, k)
        <5>1. Out(k)' => doc[w].typed[k] > 0 \/ \E g \in ToSet(outbox[w]) : Carries(g, k)
          BY <4>1, <1>15, <2>1 DEF FirstHeard
        <5>2. doc[w].typed[k] > 0 => d.typed[k] > 0
          BY <4>2
        <5>3. (\E g \in ToSet(outbox[w]) : Carries(g, k)) => Carries(f, k) \/ \E g \in ToSet(t) : Carries(g, k)
          BY <1>3
        <5> QED BY <5>1, <5>2, <5>3, <4>2
      <4> QED BY <4>3, <4>4, <4>5, <3>2, <1>8, FirstHeardIs
    <3> QED BY <3>1, <3>2
  <2>2. \A v \in Watchers, k \in Lines : authors'[v][k] # Nobody => doc'[v].typed[k] > 0
    <3>1. ASSUME NEW v \in Watchers, NEW k \in Lines, v # w, authors'[v][k] # Nobody
          PROVE  doc'[v].typed[k] > 0
      <4>1. authors'[v] = authors[v] /\ doc'[v] = doc[v]
        BY <3>1, <1>8, <1>9, PeersAre
      <4> QED BY <4>1, <3>1, <1>0 DEF AuthorsInv
    <3>2. ASSUME NEW k \in Lines, authors'[w][k] # Nobody PROVE d.typed[k] > 0
      <4>1. CASE Attributed(k)
        BY <4>1 DEF Attributed
      <4>2. CASE ~Attributed(k)
        <5>1. doc[w].typed[k] > 0
          BY <4>2, <3>2, <1>9, <1>18
        <5>2. doc[w].typed[k] \in Nat /\ d.typed[k] \in Nat /\ doc[w].typed[k] <= d.typed[k]
          BY <1>10, <3>2
        <5> QED BY <5>1, <5>2
      <4> QED BY <4>1, <4>2
    <3> QED BY <3>1, <3>2, <1>8
  <2> QED BY <2>1, <2>2 DEF AuthorsInv
<1>20. GateInv'
  <2>1. ASSUME NEW v \in Watchers, NEW k \in Lines, Hears(v, k)' PROVE Gate(v, k)'
    <3>1. CASE v # w
      <4>1. /\ Gate(v, k) /\ doc'[v] = doc[v] /\ outbox'[v] = outbox[v]
            /\ last_writing'[v] = last_writing[v]
        BY <2>1, <3>1, <1>16
      <4>2. doc'[Author[k]] = doc[Author[k]]
        BY <1>11, <2>1
      <4> QED BY <4>1, <4>2, <1>1, GateKeeps
    <3>2. CASE v = w
      <4> DEFINE a == Author[k]
      <4>1. Gate(w, k) /\ doc'[a] = doc[a] /\ a \in Humans
        BY <2>1, <3>2, <1>11, <1>17, PeersAre
      <4>2. /\ d.typed[k] \in Nat /\ doc[w].typed[k] \in Nat /\ doc[a].typed[k] \in Nat
            /\ doc[w].typed[k] <= d.typed[k] /\ d.typed[k] <= doc[a].typed[k]
            /\ u => f.doc.typed[k] \in Nat /\ f.doc.typed[k] <= d.typed[k]
        BY <1>10, <2>1
      <4>3. \/ doc[w].typed[k] = doc[a].typed[k]
            \/ \E g \in ToSet(inbox[a]) \cup ToSet(outbox[w]) : Latest(doc, g, k)
        BY <4>1 DEF Gate, UpToDate
      <4>4. doc[a].typed[k] \in 1..(Len(Script[k]) - 1) =>
                \/ last_writing[w] <= pause[a]
                \/ \E g \in ToSet(inbox[a]) \cup ToSet(outbox[w]) : g.kind = "AWARENESS"
        BY <4>1 DEF Gate, Alerted, Unfinished
      <4> HIDE DEF a
      <4>5. \/ d.typed[k] = doc[a].typed[k]
            \/ \E g \in ToSet(inbox[a]) \cup ToSet(t) : Latest(doc, g, k)
        <5>1. Latest(doc, f, k) => d.typed[k] = doc[a].typed[k]
          BY <4>2, <1>4 DEF Latest, HasDoc, a
        <5> QED BY <5>1, <4>2, <4>3, <1>3
      <4>6. pause[a] \in 0..WRITER_QUIET /\ (f.kind = "AWARENESS" => last_writing'[w] = 0)
            /\ (f.kind # "AWARENESS" => last_writing'[w] = last_writing[w])
        BY <4>1, <1>0, <1>2 DEF AgentTypeOK
      <4>7. doc[a].typed[k] \in 1..(Len(Script[k]) - 1) =>
                \/ last_writing'[w] <= pause[a]
                \/ \E g \in ToSet(inbox[a]) \cup ToSet(t) : g.kind = "AWARENESS"
        <5>1. f.kind = "AWARENESS" => last_writing'[w] <= pause[a]
          BY <4>6 DEF WRITER_QUIET
        <5> QED BY <5>1, <4>4, <4>6, <1>3
      <4>8. ASSUME NEW x \in Texts, x \in ToSet(Script[k]), ~Shared(k, x),
                   d.typed[k] > 0, d.typed[k] < Len(Script[k]), pending_since[w][x] = STABLE
            PROVE  last_writing'[w] < WRITER_QUIET
        <5>1. Len(Script[k]) \in Nat
          BY <1>0, <2>1, Typed
        <5>2. doc[w].typed[k] > 0
          <6>1. pending_since[w][x] # Unseen
            BY <4>8 DEF Unseen, STABLE
          <6>2. SeenBefore(w, x)
            BY <6>1, <4>8, <1>0 DEF GateInv
          <6>3. doc[w].typed[k] # 0
            BY <6>2, <4>8, <2>1, <1>0, SeenShared
          <6> QED BY <6>3, <4>2
        <5>3. doc[w].typed[k] < Len(Script[k])
          BY <5>1, <4>2, <4>8
        <5>4. last_writing[w] < WRITER_QUIET
          BY <5>2, <5>3, <4>1, <4>8 DEF Gate, Held
        <5> QED BY <5>4, <4>6 DEF WRITER_QUIET
      <4>9. /\ doc'[w].typed[k] = d.typed[k] /\ ToSet(outbox'[w]) = ToSet(t)
            /\ \A g : Latest(doc, g, k) => Latest(doc', g, k)
        BY <4>1, <1>8 DEF Latest, a
      <4> QED BY <4>1, <4>5, <4>7, <4>8, <4>9, <3>2, <1>1, GateIs DEF a
    <3> QED BY <3>1, <3>2
  <2>2. \A v \in Watchers, x \in Texts : (pending_since[v][x] # Unseen => SeenBefore(v, x))'
    <3>1. ASSUME NEW v \in Watchers, NEW x \in Texts, pending_since[v][x] # Unseen
          PROVE  SeenBefore(v, x)'
      <4>1. PICK l \in Lines : \E i \in 1..doc[v].typed[l] : Script[l][i] = x
        BY <3>1, <1>0 DEF GateInv, SeenBefore
      <4>2. PICK i \in 1..doc[v].typed[l] : Script[l][i] = x
        BY <4>1
      <4>3. i \in 1..doc'[v].typed[l]
        <5>1. CASE v = w
          <6>1. doc[w].typed[l] \in Nat /\ d.typed[l] \in Nat /\ doc[w].typed[l] <= d.typed[l]
            BY <1>10
          <6> QED BY <6>1, <5>1, <4>2, <1>8
        <5>2. CASE v # w
          BY <5>2, <4>2, <1>8, PeersAre
        <5> QED BY <5>1, <5>2
      <4> QED BY <4>2, <4>3, SoundStays DEF SeenBefore
    <3> QED BY <3>1, <1>1 DEF Unseen
  <2> QED BY <2>1, <2>2, <1>1 DEF GateInv, Gate, Texts
<1>21. NoticesInv'
  <2>1. \A h \in Humans : doc'[h] = doc[h] /\ outbox'[h] = outbox[h]
    BY <1>1, <1>8, PeersAre
  <2> QED BY <2>1, <1>0, <1>1, SoundStays, NoticesAre DEF NoticesInv, Arriving
<1> QED BY <1>12, <1>13, <1>14, <1>19, <1>20, <1>21 DEF AgentInv

-----------------------------------------------------------------------------
(* Time passes. *)

LEMMA TickKeeps ==
  ASSUME AgentInv, plan' = plan, Tick
  PROVE  AgentInv'
<1>0. AgentTypeOK /\ RoomInv /\ DocsInv /\ AuthorsInv /\ GateInv /\ NoticesInv
  BY DEF AgentInv
<1>1. /\ doc' = doc /\ inbox' = inbox /\ outbox' = outbox /\ room' = room /\ store' = store
      /\ notices' = notices /\ link' = link /\ answered' = answered /\ authors' = authors
      /\ drops' = drops /\ begun' = begun
  BY DEF Tick, relay
<1>2. \A p \in Peers : inbox[p] = << >> /\ outbox[p] = << >>
  BY DEF Tick
<1>3. /\ pause' \in [Humans -> 0..WRITER_QUIET]
      /\ \A h \in Humans : pause[h] \in 0..WRITER_QUIET /\ pause'[h] = Min2(pause[h] + 1, WRITER_QUIET)
  <2>1. \A h \in Humans : pause[h] \in 0..WRITER_QUIET
    BY <1>0 DEF AgentTypeOK
  <2>2. \A h \in Humans : Min2(pause[h] + 1, WRITER_QUIET) \in 0..WRITER_QUIET
    BY <2>1 DEF Min2, WRITER_QUIET
  <2> QED BY <2>1, <2>2 DEF Tick
<1>4. /\ last_writing' \in [Watchers -> 0..WRITER_QUIET]
      /\ \A w \in Watchers : /\ last_writing[w] \in 0..WRITER_QUIET
                             /\ last_writing'[w] = Min2(last_writing[w] + 1, WRITER_QUIET)
  <2>1. \A w \in Watchers : last_writing[w] \in 0..WRITER_QUIET
    BY <1>0 DEF AgentTypeOK
  <2>2. \A w \in Watchers : Min2(last_writing[w] + 1, WRITER_QUIET) \in 0..WRITER_QUIET
    BY <2>1 DEF Min2, WRITER_QUIET
  <2> QED BY <2>1, <2>2 DEF Tick
<1>5. /\ pending_since' \in [Watchers -> [Texts -> 0..Unseen]]
      /\ \A w \in Watchers : \A t \in Texts :
           pending_since'[w][t] = IF pending_since[w][t] = Unseen THEN Unseen ELSE STABLE
  BY DEF Tick, Unseen, STABLE
<1>6. AgentTypeOK'
  BY <1>0, <1>1, <1>3, <1>4, <1>5 DEF AgentTypeOK
<1>7. RoomInv'
  <2>1. \A v \in Watchers : Joining(v) =>
              /\ inbox'[v] = <<[kind |-> "SUBSCRIBE"]>> /\ doc'[v] = NewDoc
              /\ \A t \in Texts : pending_since'[v][t] = Unseen
    BY <1>1, <1>5 DEF Joining
  <2> QED BY <2>1, <1>0, <1>1, RoomIs DEF RoomInv
<1>8. DocsInv'
  <2>1. \A d \in Logs' : d \in Logs \cup {}
    BY <1>0, <1>1, LogsAre, LogsGrow
  <2> QED BY <1>0, <1>1, <2>1, LogsStay
<1>9. AuthorsInv'
  <2>1. ASSUME NEW v \in Watchers, NEW k \in Lines, Hears(v, k)' PROVE FirstHeard(v, k)'
    <3>1. FirstHeard(v, k)
      BY <1>0, <1>1, <2>1, AuthorsGate DEF Hears
    <3>2. Out(k)' => Out(k)
      <4>1. /\ store'.typed[k] > 0 => Out(k)
            /\ \A p \in Peers : p # Author[k] /\ doc'[p].typed[k] > 0 => Out(k)
            /\ \A p \in Peers : \A f \in ToSet(inbox'[p]) : p # Author[k] /\ Carries(f, k) => Out(k)
            /\ \A p \in Peers : \A f \in ToSet(outbox'[p]) : Carries(f, k) => Out(k)
        BY <1>1 DEF Out
      <4> QED BY <4>1, OutOnly
    <3> QED BY <3>1, <3>2, <1>1, HeardKeeps DEF FirstHeard
  <2> QED BY <2>1, <1>0, <1>1 DEF AuthorsInv
<1>10. GateInv'
  <2>1. ASSUME NEW v \in Watchers, NEW k \in Lines, Hears(v, k)' PROVE Gate(v, k)'
    <3> DEFINE a == Author[k]
    <3>1. Gate(v, k) /\ v \in Peers /\ a \in Peers /\ a \in Humans
      BY <1>0, <1>1, <2>1, AuthorsGate, PeersAre DEF Hears
    <3>2. ToSet(inbox[a]) \cup ToSet(outbox[v]) = {}
      BY <1>2, <3>1 DEF ToSet
    <3>3. doc[v].typed[k] = doc[a].typed[k]
      BY <3>1, <3>2 DEF Gate, UpToDate
    <3>4. Unfinished(a, k) => last_writing[v] <= pause[a]
      BY <3>1, <3>2 DEF Gate, Alerted
    <3>5. Unfinished(a, k) => pause[a] < PauseLimit
      BY <3>1, <2>1 DEF Tick
    <3>6. Unfinished(a, k) <=> doc[a].typed[k] \in 1..(Len(Script[k]) - 1)
      BY DEF Unfinished
    <3>7. doc[a].typed[k] \in Nat /\ Len(Script[k]) \in Nat
      BY <1>0, <2>1, <3>1, Typed, DocIs
    <3> HIDE DEF a
    <3>8. Unfinished(a, k) => last_writing'[v] <= pause'[a]
      BY <3>1, <3>4, <1>3, <1>4, <2>1 DEF Min2, WRITER_QUIET
    <3>9. Unfinished(a, k) => last_writing'[v] < WRITER_QUIET
      <4>1. PauseLimit \in 1..3
        BY EditorAgentAssumption DEF WRITER_QUIET
      <4> QED BY <4>1, <3>1, <3>4, <3>5, <1>3, <1>4, <2>1 DEF Min2, WRITER_QUIET
    <3>10. doc[a].typed[k] > 0 /\ doc[a].typed[k] < Len(Script[k]) => Unfinished(a, k)
      BY <3>6, <3>7
    <3> QED BY <3>3, <3>6, <3>8, <3>9, <3>10, <1>1, GateIs DEF a
  <2>2. \A v \in Watchers, x \in Texts : (pending_since[v][x] # Unseen => SeenBefore(v, x))'
    BY <1>0, <1>1, <1>5, SoundStays DEF GateInv, SeenBefore, Unseen
  <2> QED BY <2>1, <2>2 DEF GateInv, Gate, Texts
<1>11. NoticesInv'
  BY <1>0, <1>1, SoundStays, NoticesAre DEF NoticesInv, Arriving
<1> QED BY <1>6, <1>7, <1>8, <1>9, <1>10, <1>11 DEF AgentInv

-----------------------------------------------------------------------------
(* A scan: its clocks, and the denials it sends. *)

LEMMA CandidatesAre ==
  ASSUME AgentTypeOK, NEW w \in Watchers, NEW l \in Candidates(w, doc[w])
  PROVE  /\ l \in Lines /\ doc[w].typed[l] \in Nat /\ doc[w].typed[l] > 0
         /\ TextOf(doc[w], l).kind \in {"Q", "ask"}
         /\ SeenBefore(w, TextOf(doc[w], l))
<1>1. /\ l \in Lines /\ doc[w].typed[l] > 0 /\ doc[w].typed[l] \in Nat
      /\ TextOf(doc[w], l).kind \in {"Q", "ask"}
  BY Typed, DocIs, PeersAre DEF Candidates
<1>2. doc[w].typed[l] \in 1..doc[w].typed[l]
  BY <1>1
<1> QED BY <1>1, <1>2 DEF SeenBefore, TextOf

(* What a scan leaves of the clocks. *)
Looked(w) ==
    /\ pending_since' \in [Watchers -> [Texts -> 0..Unseen]]
    /\ \A v \in Watchers : v # w => pending_since'[v] = pending_since[v]
    /\ \A t \in Texts : /\ pending_since'[w][t] = STABLE => pending_since[w][t] = STABLE
                        /\ pending_since'[w][t] # Unseen => SeenBefore(w, t)

LEMMA ObserveLooks ==
  ASSUME AgentTypeOK, NEW w \in Watchers,
         pending_since' = [pending_since EXCEPT ![w] =
            Observe(w, {TextOf(doc[w], l) : l \in Candidates(w, doc[w])})]
  PROVE  Looked(w)
<1> DEFINE T == {TextOf(doc[w], l) : l \in Candidates(w, doc[w])}
           o == Observe(w, T)
<1>1. pending_since \in [Watchers -> [Texts -> 0..Unseen]]
  BY DEF AgentTypeOK
<1>2. \A t \in T : SeenBefore(w, t)
  BY CandidatesAre
<1>3. pending_since' = [pending_since EXCEPT ![w] = o]
  OBVIOUS
<1> HIDE DEF T
<1>4. /\ o \in [Texts -> 0..Unseen]
      /\ \A t \in Texts : /\ o[t] = STABLE => pending_since[w][t] = STABLE
                          /\ o[t] # Unseen => t \in T
  BY <1>1 DEF Observe, Unseen, STABLE
<1> HIDE DEF o
<1> QED BY <1>1, <1>2, <1>3, <1>4 DEF Looked

LEMMA FlattenIn ==
  ASSUME NEW S, NEW n \in Nat, NEW ss, Len(ss) = n, n = 0 => ss = << >>,
         \A k \in 1..n : ss[k] \in Seq(S)
  PROVE  FlattenSeq(ss) \in Seq(S)
<1>1. CASE n = 0
  <2>1. FlattenSeq(ss) = ss
    BY <1>1 DEF FlattenSeq
  <2> QED BY <2>1, <1>1
<1>2. CASE n # 0
  <2>1. PICK f : Flattens(f, ss, n) /\ FlattenSeq(ss) = f[n]
    BY <1>2, FlattenRecursion
  <2>2. f[1] = ss[1] /\ \A k \in 1..(n - 1) : f[k + 1] = f[k] \o ss[k + 1]
    BY <1>2, <2>1, FlattenAt, ZenonT(40)
  <2> DEFINE P == {k \in Nat : k \in 1..n => f[k] \in Seq(S)}
  <2>3. 0 \in P
    OBVIOUS
  <2>4. ASSUME NEW k \in Nat, k \in P PROVE k + 1 \in P
    <3>1. CASE k = 0
      <4>1. f[1] \in Seq(S)
        BY <1>2, <2>2
      <4> QED BY <4>1, <3>1
    <3>2. CASE k # 0 /\ k + 1 \in 1..n
      <4>1. k \in 1..(n - 1) /\ k \in 1..n /\ k + 1 \in 1..n
        BY <3>2
      <4>2. f[k] \in Seq(S) /\ ss[k + 1] \in Seq(S) /\ f[k + 1] = f[k] \o ss[k + 1]
        BY <4>1, <2>2, <2>4
      <4>3. f[k + 1] \in Seq(S)
        BY <4>2, ConcatIs
      <4> QED BY <4>3
    <3>3. CASE k + 1 \notin 1..n
      BY <3>3
    <3> QED BY <3>1, <3>2, <3>3
  <2> HIDE DEF P
  <2>5. n \in P
    BY <2>3, <2>4, Induction
  <2>6. n \in 1..n
    BY <1>2
  <2> QED BY <2>1, <2>5, <2>6 DEF P
<1> QED BY <1>1, <1>2

Refused(w, lines) ==
    {l \in lines : /\ TextOf(doc[w], l).kind = "ask"
                   /\ Denied(authors[w][l], TextOf(doc[w], l))}

LEMMA DenialsAre ==
  ASSUME NEW w, NEW lines
  PROVE  Denials(w, lines) \in Seq({Notify(authors[w][l], l) : l \in Refused(w, lines)})
<1> DEFINE n == Cardinality(Lines)
           R == Refused(w, lines)
           S == {Notify(authors[w][l], l) : l \in R}
           ss == [l \in Lines |-> IF l \in R THEN <<Notify(authors[w][l], l)>> ELSE << >>]
<1>1. n \in Nat /\ Lines = 1..n
  BY EditorAgentAssumption, FS_CardinalityType
<1>2. Denials(w, lines) = FlattenSeq(ss)
  BY DEF Denials, Refused
<1> HIDE DEF n, R
<1>3. \A l \in Lines : ss[l] \in Seq(S)
  <2>1. ASSUME NEW l \in Lines PROVE ss[l] \in Seq(S)
    <3>1. CASE l \in R
      <4>1. ss[l] = <<Notify(authors[w][l], l)>> /\ Notify(authors[w][l], l) \in S
        BY <3>1
      <4> HIDE DEF S, ss
      <4> QED BY <4>1
    <3>2. CASE l \notin R
      <4>1. ss[l] = << >>
        BY <3>2
      <4> QED BY <4>1
    <3> QED BY <3>1, <3>2
  <2> QED BY <2>1
<1>4. Len(ss) = n
  BY <1>1
<1>5. n = 0 => ss = << >>
  BY <1>1
<1> HIDE DEF ss, S
<1>6. FlattenSeq(ss) \in Seq(S)
  BY <1>1, <1>3, <1>4, <1>5, FlattenIn
<1> QED BY <1>2, <1>6 DEF S, R

(* A scan that answers nothing, or one that answers some lines. *)
LEMMA LookKeeps ==
  ASSUME AgentInv, plan' = plan, NEW w \in Watchers, Looked(w),
         doc' = doc, inbox' = inbox, answered' = answered,
         UNCHANGED <<pause, outbox, room, store, notices, link, authors,
                     last_writing, drops, begun>>
  PROVE  AgentInv'
<1>0. AgentTypeOK /\ RoomInv /\ DocsInv /\ AuthorsInv /\ GateInv /\ NoticesInv
  BY DEF AgentInv
<1>1. /\ outbox' = outbox /\ room' = room /\ store' = store /\ pause' = pause
      /\ notices' = notices /\ link' = link /\ authors' = authors /\ last_writing' = last_writing
      /\ drops' = drops /\ begun' = begun
  OBVIOUS
<1>2. /\ pending_since' \in [Watchers -> [Texts -> 0..Unseen]]
      /\ \A v \in Watchers : v # w => pending_since'[v] = pending_since[v]
      /\ \A t \in Texts : /\ pending_since'[w][t] = STABLE => pending_since[w][t] = STABLE
                          /\ pending_since'[w][t] # Unseen => SeenBefore(w, t)
  BY DEF Looked
<1>3. \A v \in Watchers : \A t \in Texts :
        /\ pending_since'[v][t] = STABLE => pending_since[v][t] = STABLE
        /\ pending_since'[v][t] # Unseen => SeenBefore(v, t)
  BY <1>0, <1>2 DEF GateInv
<1>4. AgentTypeOK'
  BY <1>0, <1>1, <1>2 DEF AgentTypeOK
<1>5. RoomInv'
  <2>1. ASSUME NEW v \in Watchers, Joining(v)
        PROVE  /\ inbox'[v] = <<[kind |-> "SUBSCRIBE"]>> /\ doc'[v] = NewDoc
               /\ \A t \in Texts : pending_since'[v][t] = Unseen
    <3>1. \A t : ~SeenBefore(v, t)
      BY <2>1, NewDocIs DEF Joining, SeenBefore
    <3> QED BY <3>1, <2>1, <1>3 DEF Joining
  <2> QED BY <2>1, <1>0, <1>1, RoomIs DEF RoomInv
<1>6. DocsInv'
  <2>1. \A d \in Logs' : d \in Logs \cup {}
    BY <1>0, <1>1, LogsAre, LogsGrow
  <2> QED BY <1>0, <1>1, <2>1, LogsStay
<1>7. AuthorsInv'
  <2>1. ASSUME NEW v \in Watchers, NEW k \in Lines, Hears(v, k)' PROVE FirstHeard(v, k)'
    <3>1. FirstHeard(v, k)
      BY <1>0, <1>1, <2>1, AuthorsGate DEF Hears
    <3>2. Out(k)' => Out(k)
      <4>1. /\ store'.typed[k] > 0 => Out(k)
            /\ \A p \in Peers : p # Author[k] /\ doc'[p].typed[k] > 0 => Out(k)
            /\ \A p \in Peers : \A f \in ToSet(inbox'[p]) : p # Author[k] /\ Carries(f, k) => Out(k)
            /\ \A p \in Peers : \A f \in ToSet(outbox'[p]) : Carries(f, k) => Out(k)
        BY <1>1 DEF Out
      <4> QED BY <4>1, OutOnly
    <3> QED BY <3>1, <3>2, <1>1, HeardKeeps DEF FirstHeard
  <2> QED BY <2>1, <1>0, <1>1 DEF AuthorsInv
<1>8. GateInv'
  <2>1. ASSUME NEW v \in Watchers, NEW k \in Lines, Hears(v, k)' PROVE Gate(v, k)'
    <3>1. Gate(v, k)
      BY <1>0, <1>1, <2>1, AuthorsGate DEF Hears
    <3> QED BY <3>1, <1>1, <1>3, <2>1, GateKeeps
  <2>2. \A v \in Watchers, x \in Texts : (pending_since[v][x] # Unseen => SeenBefore(v, x))'
    BY <1>3, SoundStays DEF SeenBefore, Unseen
  <2> QED BY <2>1, <2>2 DEF GateInv, Gate, Texts
<1>9. NoticesInv'
  BY <1>0, <1>1, SoundStays, NoticesAre DEF NoticesInv, Arriving
<1> QED BY <1>4, <1>5, <1>6, <1>7, <1>8, <1>9 DEF AgentInv

(* The lines a scan answers are those whose gate is open. *)
Answers(w, lines) ==
    /\ lines \in SUBSET Candidates(w, doc[w])
    /\ \A l \in lines : /\ pending_since[w][TextOf(doc[w], l)] = STABLE
                        /\ last_writing[w] >= WRITER_QUIET
                        /\ TextOf(doc[w], l) \in Texts
                        /\ TextOf(doc[w], l).kind = "ask" => authors[w][l] # Nobody

LEMMA AnswersSoundly ==
  ASSUME AgentInv, NEW w \in Watchers, link[w], NEW lines, Answers(w, lines), NEW l \in lines
  PROVE  /\ w \in room /\ l \in Lines /\ ReplyTo(w, l) \in Replying /\ Sound(ReplyTo(w, l))
         /\ doc[w].typed[l] > 0
         /\ ReplyTo(w, l).line = l /\ AskOf(ReplyTo(w, l)) = TextOf(doc[w], l)
<1> DEFINE t == TextOf(doc[w], l)
           r == ReplyTo(w, l)
<1>0. AgentTypeOK /\ RoomInv /\ DocsInv /\ AuthorsInv /\ GateInv
  BY DEF AgentInv
<1>1. /\ l \in Lines /\ doc[w].typed[l] \in Nat /\ doc[w].typed[l] > 0 /\ t.kind \in {"Q", "ask"}
      /\ pending_since[w][t] = STABLE /\ last_writing[w] >= WRITER_QUIET /\ t \in Texts
      /\ t.kind = "ask" => authors[w][l] # Nobody
  BY <1>0, CandidatesAre DEF Answers
<1>2. w \in room
  <2>1. ~Joining(w)
    BY <1>1, NewDocIs DEF Joining
  <2> QED BY <2>1, <1>0 DEF RoomInv
<1>3. w \in Peers /\ authors[w][l] \in Peers \cup {Nobody}
  BY <1>0, <1>1, PeersAre DEF AgentTypeOK
<1>4. /\ r.line = l /\ r.version = doc[w].typed[l] /\ r.under = l /\ r.heard = (l \notin begun[w])
      /\ r.asker = IF t.kind = "Q" THEN w ELSE authors[w][l]
      /\ AskOf(r) = t
  BY DEF ReplyTo, AskOf, TextOf
<1>5. r \in Replying
  <2>1. (IF t.kind = "Q" THEN w ELSE authors[w][l]) \in Peers
    BY <1>1, <1>3
  <2> QED BY <2>1, <1>1 DEF ReplyTo, Replying
<1> HIDE DEF r, t
<1>6. Sound(r)
  <2>1. SUFFICES ASSUME r.heard
                 PROVE  /\ ~Shared(l, t) => r.version = Len(Script[l])
                        /\ t.kind = "ask" => r.asker = Author[l]
    BY <1>4 DEF Sound
  <2>2. FirstHeard(w, l) /\ Gate(w, l)
    BY <2>1, <1>0, <1>1, <1>2, <1>4, AuthorsGate DEF Hears
  <2>3. t.kind = "ask" => r.asker = Author[l]
    BY <2>2, <1>1, <1>4 DEF FirstHeard
  <2>4. ASSUME ~Shared(l, t) PROVE r.version = Len(Script[l])
    <3>1. /\ doc[w].typed[l] <= doc[Author[l]].typed[l] /\ doc[Author[l]].typed[l] <= Len(Script[l])
          /\ doc[Author[l]].typed[l] \in Nat /\ Len(Script[l]) \in Nat
          /\ DOMAIN Script[l] = 1..Len(Script[l])
      <4>1. doc[Author[l]].typed[l] \in Nat /\ Script[l] \in Seq(Texts)
        BY <1>0, <1>1, Typed, DocIs, PeersAre
      <4>2. doc[w].typed[l] <= doc[Author[l]].typed[l] /\ doc[Author[l]].typed[l] <= Len(Script[l])
        BY <1>0, <1>1, <1>3, LogsAre DEF DocsInv, Behind
      <4> QED BY <4>1, <4>2
    <3>2. t \in ToSet(Script[l])
      <4>1. doc[w].typed[l] \in DOMAIN Script[l]
        BY <3>1, <1>1
      <4> QED BY <4>1 DEF t, TextOf, ToSet
    <3>3. ~(doc[w].typed[l] < Len(Script[l]))
      <4>1. ~(last_writing[w] < WRITER_QUIET)
        <5>1. last_writing[w] \in 0..WRITER_QUIET
          BY <1>0 DEF AgentTypeOK
        <5> QED BY <5>1, <1>1 DEF WRITER_QUIET
      <4> QED BY <4>1, <3>2, <2>2, <2>4, <1>1 DEF Gate, Held
    <3> QED BY <3>1, <3>3, <1>1, <1>4
  <2> QED BY <2>3, <2>4
<1> QED BY <1>1, <1>2, <1>4, <1>5, <1>6 DEF r, t

(* What a watcher sends of it. *)
LEMMA FramesAre ==
  ASSUME AgentInv, NEW w \in Watchers, link[w], NEW lines, Answers(w, lines), NEW d \in Doc,
         \A l \in lines : ReplyTo(w, l) \in d.replies
  PROVE  LET x == Frames(d, Denials(w, lines))
         IN  /\ x \in Seq(Sent)
             /\ \A f \in ToSet(x) : f.kind # "SUBSCRIBE" /\ (HasDoc(f) => f.doc = d)
             /\ \A h, E : Preceded(Script, x, h, E)
<1> DEFINE R == Refused(w, lines)
           N == {Notify(authors[w][l], l) : l \in R}
           y == <<Writing, Update(d)>>
           z == Denials(w, lines)
           x == y \o z
<1>0. AgentTypeOK
  BY DEF AgentInv
<1>1. z \in Seq(N)
  BY DenialsAre
<1>2. \A l \in R : /\ l \in lines /\ l \in Lines /\ authors[w][l] \in Peers /\ ReplyTo(w, l) \in d.replies
                   /\ ReplyTo(w, l).line = l /\ AskOf(ReplyTo(w, l)) = TextOf(doc[w], l)
                   /\ Denied(authors[w][l], TextOf(doc[w], l))
  <2>1. \A l \in R : l \in lines /\ TextOf(doc[w], l).kind = "ask" /\ Denied(authors[w][l], TextOf(doc[w], l))
    BY DEF Refused
  <2>2. \A l \in lines : /\ l \in Lines /\ ReplyTo(w, l).line = l
                         /\ AskOf(ReplyTo(w, l)) = TextOf(doc[w], l)
    BY AnswersSoundly
  <2>3. \A l \in R : authors[w][l] \in Peers
    BY <2>1, <2>2, <1>0 DEF AgentTypeOK, Answers
  <2> HIDE DEF R
  <2> QED BY <2>1, <2>2, <2>3
<1> HIDE DEF R
<1>3. \A f \in N : /\ f \in Notice /\ f \in Sent /\ f.kind = "NOTIFY"
                   /\ f.line \in Explained(Script, d, f.to)
  <2>1. ASSUME NEW l \in R
        PROVE  LET f == Notify(authors[w][l], l)
               IN  f \in Notice /\ f.kind = "NOTIFY" /\ f.line \in Explained(Script, d, f.to)
    <3> DEFINE f == Notify(authors[w][l], l)
    <3>1. f \in Notice /\ f.kind = "NOTIFY" /\ f.line = l /\ f.to = authors[w][l]
      BY <1>2, <2>1 DEF Notify, Notice
    <3>2. Script[ReplyTo(w, l).line][ReplyTo(w, l).version] = TextOf(doc[w], l)
      BY <1>2, <2>1 DEF AskOf
    <3> HIDE DEF f
    <3>3. f.line \in Explained(Script, d, f.to)
      BY <1>2, <2>1, <3>1, <3>2 DEF Explained
    <3> QED BY <3>1, <3>3 DEF f
  <2> QED BY <2>1 DEF Sent
<1> HIDE DEF N, z
<1>4. z \in Seq(Sent)
  BY <1>1, <1>3
<1>5. y \in Seq(Sent) /\ Len(y) = 2 /\ y[1] = Writing /\ y[2] = Update(d) /\ DOMAIN y = 1..2
  BY DEF Writing, Update, Sent, Presence
<1> HIDE DEF y
<1>6. Joined(Sent, y, z, x)
  BY <1>4, <1>5, Concat
<1> HIDE DEF x
<1>7. /\ x \in Seq(Sent) /\ DOMAIN x = 1..(2 + Len(z)) /\ Len(z) \in Nat /\ DOMAIN z = 1..Len(z)
      /\ x[1] = Writing /\ x[2] = Update(d)
      /\ \A i \in 1..Len(z) : x[2 + i] = z[i]
  BY <1>5, <1>6 DEF Joined
<1>8. ASSUME NEW i \in DOMAIN x
      PROVE  \/ i = 1 /\ x[i] = Writing
             \/ i = 2 /\ x[i] = Update(d)
             \/ i > 2 /\ x[i] \in N
  <2>1. CASE i > 2
    <3> DEFINE k == i - 2
    <3>1. k \in 1..Len(z) /\ 2 + k = i
      BY <2>1, <1>7
    <3> HIDE DEF k
    <3>2. x[i] = z[k] /\ z[k] \in N
      BY <3>1, <1>1, <1>7
    <3> QED BY <3>2, <2>1
  <2>2. CASE i = 1 \/ i = 2
    BY <2>2, <1>7
  <2> QED BY <2>1, <2>2, <1>7
<1>9. \A f \in ToSet(x) : f.kind # "SUBSCRIBE" /\ (HasDoc(f) => f.doc = d)
  <2>1. \A f \in ToSet(x) : f = Writing \/ f = Update(d) \/ f \in N
    BY <1>8 DEF ToSet
  <2> QED BY <2>1, <1>3 DEF Writing, Update, HasDoc
<1>10. ASSUME NEW h, NEW E, NEW i \in DOMAIN x, x[i].kind = "NOTIFY", x[i].to = h
       PROVE  \E j \in 1..(i - 1) : x[i].line \in Shown(Script, x[j], h)
  <2>1. i > 2 /\ x[i] \in N
    BY <1>8, <1>10 DEF Writing, Update
  <2>2. x[i].line \in Shown(Script, x[2], h)
    BY <2>1, <1>3, <1>7, <1>10 DEF Shown, Update
  <2>3. 2 \in 1..(i - 1)
    BY <2>1, <1>7
  <2> QED BY <2>2, <2>3
<1>11. x = Frames(d, Denials(w, lines))
  BY DEF x, y, z, Frames
<1>12. \A h, E : Preceded(Script, x, h, E)
  BY <1>10 DEF Preceded
<1> QED BY <1>7, <1>9, <1>11, <1>12

LEMMA ReplyKeeps ==
  ASSUME AgentInv, plan' = plan, NEW w \in Watchers, link[w], Looked(w),
         NEW lines, lines # {}, Answers(w, lines), Reply(w, lines),
         UNCHANGED <<pause, outbox, room, store, notices, link, authors,
                     last_writing, drops, begun>>
  PROVE  AgentInv'
<1> DEFINE R == Placed(Inserted(w, Blocks(doc[w]), lines))
           d == [doc[w] EXCEPT !.replies = R]
           x == Frames(d, Denials(w, lines))
<1>0. AgentTypeOK /\ RoomInv /\ DocsInv /\ AuthorsInv /\ GateInv /\ NoticesInv
  BY DEF AgentInv
<1>1. /\ outbox' = outbox /\ room' = room /\ store' = store /\ pause' = pause
      /\ notices' = notices /\ link' = link /\ authors' = authors /\ last_writing' = last_writing
      /\ drops' = drops /\ begun' = begun
  OBVIOUS
<1>2. w \in Peers /\ w \notin Humans /\ doc[w] \in Doc /\ inbox[w] \in Seq(Sent)
  BY <1>0, Typed, PeersAre
<1>3. \A l \in lines : /\ w \in room /\ l \in Lines /\ ReplyTo(w, l) \in Replying
                       /\ Sound(ReplyTo(w, l)) /\ doc[w].typed[l] > 0
  BY AnswersSoundly
<1>4. /\ IsFiniteSet(R)
      /\ \A r \in R : r \in doc[w].replies \/ \E l \in lines : r = ReplyTo(w, l)
      /\ \A l \in lines : ReplyTo(w, l) \in R
  <2>1. lines \in SUBSET Lines
    BY <1>3
  <2>2. \A l \in lines : doc[w].typed[l] > 0
    BY <1>3
  <2>3. \A l \in lines : ReplyTo(w, l) \in Replying
    BY <1>3
  <2> QED BY <1>2, <2>1, <2>2, <2>3, PlacedReplies
<1>5. doc' = [doc EXCEPT ![w] = d] /\ inbox' = [inbox EXCEPT ![w] = inbox[w] \o Frames(doc'[w], Denials(w, lines))]
      /\ answered' = [answered EXCEPT ![w] = answered[w] \cup {TextOf(doc[w], l) : l \in lines}]
  BY <1>0, <1>2 DEF Reply, AgentTypeOK
<1> HIDE DEF R
<1>6. d \in Doc /\ d.typed = doc[w].typed /\ d.replies = R
  <2>1. R \subseteq Replying
    BY <1>2, <1>3, <1>4, DocIs
  <2> QED BY <2>1, <1>2, <1>4 DEF Doc
<1> HIDE DEF d
<1>7. /\ doc' \in [Peers -> Doc] /\ doc'[w] = d /\ \A p \in Peers : p # w => doc'[p] = doc[p]
  BY <1>0, <1>2, <1>5, <1>6 DEF AgentTypeOK
<1>8. /\ x \in Seq(Sent)
      /\ \A f \in ToSet(x) : f.kind # "SUBSCRIBE" /\ (HasDoc(f) => f.doc = d)
      /\ \A h, E : Preceded(Script, x, h, E)
  <2>1. \A l \in lines : ReplyTo(w, l) \in d.replies
    BY <1>4, <1>6
  <2> QED BY <2>1, <1>6, FramesAre
<1>9. inbox' = [inbox EXCEPT ![w] = inbox[w] \o x]
  BY <1>5, <1>7
<1> HIDE DEF x
<1>10. inbox[w] \o x \in Seq(Sent) /\ ToSet(inbox[w] \o x) = ToSet(inbox[w]) \cup ToSet(x)
  BY <1>2, <1>8, ConcatIs
<1>11. /\ inbox' \in [Peers -> Seq(Sent)] /\ inbox'[w] = inbox[w] \o x
       /\ \A p \in Peers : p # w => inbox'[p] = inbox[p]
       /\ ToSet(inbox'[w]) = ToSet(inbox[w]) \cup ToSet(x)
  BY <1>0, <1>2, <1>9, <1>10 DEF AgentTypeOK
<1>12. /\ pending_since' \in [Watchers -> [Texts -> 0..Unseen]]
       /\ \A v \in Watchers : \A t \in Texts :
            /\ pending_since'[v][t] = STABLE => pending_since[v][t] = STABLE
            /\ pending_since'[v][t] # Unseen => SeenBefore(v, t)
  BY <1>0 DEF Looked, GateInv
<1>13. /\ \A p \in Peers : doc'[p].typed = doc[p].typed
       /\ \A l \in Lines : Author[l] \in Peers /\ Author[l] # w
  BY <1>2, <1>6, <1>7, PeersAre
<1>14. AgentTypeOK'
  <2>1. answered' \in [Watchers -> SUBSET Texts]
    <3>1. \A l \in lines : TextOf(doc[w], l) \in Texts
      BY DEF Answers
    <3> DEFINE T == {TextOf(doc[w], l) : l \in lines}
    <3>2. T \subseteq Texts
      BY <3>1
    <3> HIDE DEF T
    <3>3. answered' = [answered EXCEPT ![w] = answered[w] \cup T]
      BY <1>5 DEF T
    <3> QED BY <3>2, <3>3, <1>0 DEF AgentTypeOK
  <2> QED BY <2>1, <1>0, <1>1, <1>7, <1>11, <1>12 DEF AgentTypeOK
<1>15. w \in room
  BY <1>3
<1>16. RoomInv'
  <2>1. \A h \in Humans : inbox'[h] = inbox[h]
    BY <1>2, <1>11, PeersAre
  <2>2. ASSUME NEW v \in Watchers
        PROVE  /\ v \in room' => link'[v]
               /\ v \notin room' => outbox'[v] = << >>
               /\ v \notin room' /\ link'[v] =>
                    /\ inbox'[v] = <<[kind |-> "SUBSCRIBE"]>> /\ doc'[v] = NewDoc
                    /\ \A t \in Texts : pending_since'[v][t] = Unseen
               /\ v \in room' \/ ~link'[v] => \A g \in ToSet(inbox'[v]) : g.kind # "SUBSCRIBE"
    <3>1. CASE v = w
      BY <3>1, <1>0, <1>1, <1>8, <1>11, <1>15 DEF RoomInv
    <3>2. CASE v # w
      <4>1. inbox'[v] = inbox[v] /\ doc'[v] = doc[v] /\ pending_since'[v] = pending_since[v]
        BY <2>2, <3>2, <1>7, <1>11, PeersAre DEF Looked
      <4> QED BY <4>1, <2>2, <1>0, <1>1 DEF RoomInv, Joining
    <3> QED BY <3>1, <3>2
  <2> QED BY <2>1, <2>2, <1>0, <1>1, RoomIs DEF RoomInv
<1>17. DocsInv'
  <2>1. \A e \in Logs' : e \in Logs \cup {d}
    <3>1. \A p \in Peers : doc'[p] \in Logs \cup {d}
      BY <1>0, <1>7, LogsAre
    <3>2. \A p \in Peers : \A g \in ToSet(inbox'[p]) : HasDoc(g) =>
            g \in ToSet(inbox[p]) \/ g.doc \in Logs \cup {d}
      BY <1>8, <1>11
    <3>3. store' \in Logs \cup {d} /\ \A p \in Peers : outbox'[p] = outbox[p]
      BY <1>0, <1>1, LogsAre
    <3> QED BY <3>1, <3>2, <3>3, LogsGrow
  <2>2. doc[w] \in Logs /\ Behind(doc, doc[w]) /\ \A r \in doc[w].replies : Sound(r)
    BY <1>0, <1>2, LogsAre DEF DocsInv
  <2>3. Behind(doc', d)
    BY <2>2, <1>6, <1>13 DEF Behind
  <2>4. \A r \in d.replies : Sound(r)
    BY <2>2, <1>3, <1>4, <1>6
  <2>5. \A e \in {d} : Behind(doc', e) /\ \A r \in e.replies : Sound(r)
    BY <2>3, <2>4
  <2>6. \A k \in Lines : /\ doc'[Author[k]].typed[k] \in Nat
                         /\ doc[Author[k]].typed[k] <= doc'[Author[k]].typed[k]
                         /\ doc'[Author[k]].typed[k] <= Len(Script[k])
    <3>1. \A k \in Lines : doc[Author[k]].typed[k] \in Nat
      BY <1>0, Typed, DocIs, PeersAre
    <3> QED BY <3>1, <1>0, <1>13 DEF DocsInv
  <2> QED BY <1>0, <2>1, <2>5, <2>6, DocsKeep
<1>18. ASSUME NEW k \in Lines PROVE Out(k)' => Out(k)
  <2>1. \A p \in Peers : p # Author[k] /\ doc'[p].typed[k] > 0 => Out(k)
    BY <1>13 DEF Out
  <2>2. \A p \in Peers : \A g \in ToSet(inbox'[p]) : p # Author[k] /\ Carries(g, k) => Out(k)
    <3>1. ASSUME NEW g \in ToSet(x), Carries(g, k) PROVE Out(k)
      <4>1. doc[w].typed[k] > 0
        BY <3>1, <1>6, <1>8 DEF Carries
      <4> QED BY <4>1, <1>2, <1>13, <1>18 DEF Out
    <3> QED BY <3>1, <1>11 DEF Out
  <2>3. \A p \in Peers : \A g \in ToSet(outbox'[p]) : Carries(g, k) => Out(k)
    BY <1>1 DEF Out
  <2>4. store'.typed[k] > 0 => Out(k)
    BY <1>1 DEF Out
  <2> QED BY <2>1, <2>2, <2>3, <2>4, OutOnly
<1>19. ASSUME NEW v \in Watchers, NEW k \in Lines, Hears(v, k)'
       PROVE  FirstHeard(v, k) /\ Gate(v, k) /\ v \in Peers
  <2>1. Hears(v, k)
    BY <1>1, <1>19 DEF Hears
  <2> QED BY <2>1, <1>0, <1>19, AuthorsGate, PeersAre
<1>20. AuthorsInv'
  <2>1. ASSUME NEW v \in Watchers, NEW k \in Lines, Hears(v, k)' PROVE FirstHeard(v, k)'
    <3>1. FirstHeard(v, k) /\ doc'[v].typed[k] = doc[v].typed[k]
      BY <1>13, <1>19, <2>1
    <3>2. Out(k)' => Out(k)
      BY <1>18, <2>1
    <3> QED BY <3>1, <3>2, <1>1, HeardKeeps DEF FirstHeard
  <2>2. \A v \in Watchers : doc'[v].typed = doc[v].typed
    BY <1>13, PeersAre
  <2> QED BY <2>1, <2>2, <1>0, <1>1 DEF AuthorsInv
<1>21. GateInv'
  <2>1. ASSUME NEW v \in Watchers, NEW k \in Lines, Hears(v, k)' PROVE Gate(v, k)'
    <3> DEFINE a == Author[k]
    <3>1. /\ Gate(v, k) /\ doc'[v].typed[k] = doc[v].typed[k]
          /\ doc'[a].typed[k] = doc[a].typed[k] /\ inbox'[a] = inbox[a]
      BY <1>11, <1>13, <1>19, <2>1
    <3> HIDE DEF a
    <3> QED BY <3>1, <1>1, <1>12, <2>1, GateKeeps DEF a
  <2>2. \A v \in Watchers, y \in Texts : (pending_since[v][y] # Unseen => SeenBefore(v, y))'
    <3>1. \A v \in Watchers : doc'[v].typed = doc[v].typed
      BY <1>13, PeersAre
    <3> QED BY <3>1, <1>12, SoundStays DEF SeenBefore, Unseen
  <2> QED BY <2>1, <2>2 DEF GateInv, Gate, Texts
<1>22. NoticesInv'
  <2>1. \A h \in Humans : doc'[h] = doc[h]
    BY <1>2, <1>7, PeersAre
  <2>2. ASSUME NEW h \in Humans, NEW v \in Watchers
        PROVE  Preceded(Script, inbox'[v], h, Explained(Script, doc[h], h) \cup ShownIn(Script, outbox[h], h))
    <3>1. Preceded(Script, inbox[v], h, Explained(Script, doc[h], h) \cup ShownIn(Script, outbox[h], h))
      BY <2>2, <1>0 DEF NoticesInv, Arriving
    <3>2. CASE v = w
      <4>1. Preceded(Script, x, h, Explained(Script, doc[h], h) \cup ShownIn(Script, outbox[h], h))
        BY <1>8
      <4> QED BY <3>1, <3>2, <4>1, <1>2, <1>8, <1>11, PrecededConcat
    <3>3. CASE v # w
      BY <3>1, <3>3, <1>11, PeersAre
    <3> QED BY <3>2, <3>3
  <2> QED BY <2>1, <2>2, <1>0, <1>1, SoundStays, NoticesAre DEF NoticesInv
<1> QED BY <1>14, <1>16, <1>17, <1>20, <1>21, <1>22 DEF AgentInv

LEMMA ScanKeeps ==
  ASSUME AgentInv, plan' = plan, NEW w \in Watchers, Scan(w)
  PROVE  AgentInv'
<1> DEFINE waiting == Candidates(w, doc[w])
           seen == Observe(w, {TextOf(doc[w], l) : l \in waiting})
           ready == {l \in waiting : /\ TextOf(doc[w], l) \in Ready(w, seen)
                                     /\ TextOf(doc[w], l).kind = "ask" => authors[w][l] # Nobody}
<1>1. /\ link[w]
      /\ pending_since' = [pending_since EXCEPT ![w] = seen]
      /\ \/ doc' = doc /\ inbox' = inbox /\ answered' = answered
         \/ ready # {} /\ Reply(w, ready)
      /\ UNCHANGED <<pause, outbox, room, store, notices, link, authors,
                     last_writing, drops, begun>>
  BY DEF Scan
<1>2. AgentTypeOK
  BY DEF AgentInv
<1>3. Looked(w)
  BY <1>1, <1>2, ObserveLooks
<1>4. Answers(w, ready)
  <2>1. \A t \in Ready(w, seen) : /\ t \in Texts /\ seen[t] = STABLE
                                  /\ last_writing[w] >= WRITER_QUIET
    BY DEF Ready
  <2>2. \A t \in Texts : seen[t] = STABLE => pending_since[w][t] = STABLE
    BY DEF Observe, Unseen, STABLE
  <2> HIDE DEF seen, waiting
  <2> QED BY <2>1, <2>2 DEF Answers, waiting
<1> HIDE DEF seen, ready, waiting
<1>5. CASE doc' = doc /\ inbox' = inbox /\ answered' = answered
  BY <1>1, <1>3, <1>5, LookKeeps
<1>6. CASE ready # {} /\ Reply(w, ready)
  BY <1>1, <1>3, <1>4, <1>6, ReplyKeeps
<1> QED BY <1>1, <1>5, <1>6

-----------------------------------------------------------------------------
(* The invariant. *)

LEMMA AgentInit ==
  ASSUME Init
  PROVE  AgentInv
<1>1. /\ plan \in Plans /\ drops = 0 /\ room = Humans /\ store = NewDoc
      /\ doc = [p \in Peers |-> NewDoc]
      /\ pause = [h \in Humans |-> WRITER_QUIET]
      /\ inbox = [p \in Peers |-> << >>] /\ outbox = [p \in Peers |-> << >>]
      /\ notices = [h \in Humans |-> {}]
      /\ link = [w \in Watchers |-> FALSE]
      /\ answered = [w \in Watchers |-> {}]
      /\ authors = [w \in Watchers |-> [l \in Lines |-> Nobody]]
      /\ pending_since = [w \in Watchers |-> [t \in Texts |-> Unseen]]
      /\ last_writing = [w \in Watchers |-> WRITER_QUIET]
      /\ begun = [w \in Watchers |-> {}]
  BY DEF Init
<1>2. /\ \A p \in Peers : doc[p] = NewDoc /\ inbox[p] = << >> /\ outbox[p] = << >>
      /\ ToSet(<< >>) = {} /\ \A l \in Lines : NewDoc.typed[l] = 0
      /\ NewDoc \in Doc /\ NewDoc.replies = {}
  BY <1>1, NewDocIs DEF ToSet
<1>3. AgentTypeOK
  <2>1. inbox \in [Peers -> Seq(Sent)] /\ outbox \in [Peers -> Seq(Got)] /\ room \subseteq Peers
    BY <1>1, PeersAre
  <2>2. doc \in [Peers -> Doc] /\ store \in Doc
    BY <1>1, <1>2
  <2>3. /\ pause \in [Humans -> 0..WRITER_QUIET] /\ last_writing \in [Watchers -> 0..WRITER_QUIET]
        /\ pending_since \in [Watchers -> [Texts -> 0..Unseen]]
    BY <1>1 DEF WRITER_QUIET, Unseen, STABLE
  <2> QED BY <1>1, <2>1, <2>2, <2>3 DEF AgentTypeOK
<1>4. RoomInv
  BY <1>1, <1>2, PeersAre DEF RoomInv
<1>5. DocsInv
  <2>1. ASSUME NEW e \in Logs PROVE e = NewDoc
    <3>1. ASSUME NEW p \in Peers PROVE DocsOf(inbox[p]) = {} /\ DocsOf(outbox[p]) = {}
      BY <1>2 DEF DocsOf
    <3> QED BY <3>1, <1>1, <1>2 DEF Logs
  <2>2. \A l \in Lines : doc[Author[l]].typed[l] = 0
    BY <1>2, PeersAre
  <2>3. Behind(doc, NewDoc)
    BY <2>2, <1>2 DEF Behind
  <2>4. \A l \in Lines : 0 <= Len(Script[l])
    BY <1>3, Typed
  <2>5. \A l \in Lines : doc[Author[l]].typed[l] <= Len(Script[l])
    BY <2>2, <2>4
  <2>6. \A e \in Logs : Behind(doc, e) /\ \A r \in e.replies : Sound(r)
    BY <2>1, <2>3, <1>2
  <2> QED BY <2>5, <2>6 DEF DocsInv
<1>6. \A w \in Watchers : w \notin room
  BY <1>1, PeersAre
<1>7. AuthorsInv
  BY <1>1, <1>6 DEF AuthorsInv, Hears
<1>8. GateInv
  BY <1>1, <1>6 DEF GateInv, Hears
<1>9. NoticesInv
  <2>1. \A h, E : Preceded(Script, << >>, h, E)
    BY DEF Preceded
  <2> QED BY <2>1, <1>1, <1>2, PeersAre DEF NoticesInv
<1> QED BY <1>3, <1>4, <1>5, <1>7, <1>8, <1>9 DEF AgentInv

LEMMA AgentNext ==
  ASSUME AgentInv, [Next]_vars
  PROVE  AgentInv'
<1>1. CASE Next
  <2>1. plan' = plan /\ Step
    BY <1>1 DEF Next
  <2>2. ASSUME NEW h \in Humans, Show(h) PROVE AgentInv'
    BY <2>1, <2>2, ShowKeeps
  <2>3. ASSUME NEW h \in Humans, NEW l \in Lines, Type(h, l) PROVE AgentInv'
    BY <2>1, <2>3, TypeKeeps
  <2>4. ASSUME NEW p \in Peers, Serve(p) PROVE AgentInv'
    BY <2>1, <2>4, ServeKeeps
  <2>5. ASSUME NEW w \in Watchers, Watch(w) PROVE AgentInv'
    BY <2>1, <2>5, WatchKeeps
  <2>6. ASSUME NEW w \in Watchers, Drop(w) PROVE AgentInv'
    BY <2>1, <2>6, DropKeeps
  <2>7. ASSUME NEW w \in Watchers, Read(w) PROVE AgentInv'
    BY <2>1, <2>7, ReadKeeps
  <2>8. ASSUME NEW w \in Watchers, Scan(w) PROVE AgentInv'
    BY <2>1, <2>8, ScanKeeps
  <2>9. CASE Tick
    BY <2>1, <2>9, TickKeeps
  <2> QED BY <2>1, <2>2, <2>3, <2>4, <2>5, <2>6, <2>7, <2>8, <2>9 DEF Step
<1>2. CASE UNCHANGED vars
  <2>1. /\ plan' = plan /\ doc' = doc /\ pause' = pause /\ inbox' = inbox /\ outbox' = outbox
        /\ room' = room /\ store' = store /\ notices' = notices /\ link' = link
        /\ answered' = answered /\ authors' = authors /\ pending_since' = pending_since
        /\ last_writing' = last_writing /\ drops' = drops /\ begun' = begun
    BY <1>2 DEF vars, relay, loop
  <2>2. AgentTypeOK'
    BY <2>1 DEF AgentInv, AgentTypeOK
  <2>3. RoomInv'
    BY <2>1, RoomIs DEF AgentInv, RoomInv, Joining
  <2>4. DocsInv'
    <3>1. AgentTypeOK /\ DocsInv
      BY DEF AgentInv
    <3>2. \A d \in Logs' : d \in Logs \cup {}
      BY <2>1, <3>1, LogsAre, LogsGrow
    <3> QED BY <2>1, <3>1, <3>2, LogsStay
  <2>5. AuthorsInv'
    BY <2>1 DEF AgentInv, AuthorsInv, Hears, FirstHeard, FirstFrom, Out, Carries, HasDoc, ToSet
  <2>6. GateInv'
    <3>1. AuthorsInv /\ GateInv
      BY DEF AgentInv
    <3>2. ASSUME NEW v \in Watchers, NEW k \in Lines, Hears(v, k)' PROVE Gate(v, k)'
      <4>1. Gate(v, k)
        BY <2>1, <3>1, <3>2, AuthorsGate DEF Hears
      <4> QED BY <4>1, <2>1, GateKeeps
    <3>3. \A v \in Watchers, y \in Texts : (pending_since[v][y] # Unseen => SeenBefore(v, y))'
      BY <2>1, <3>1, SoundStays DEF GateInv, SeenBefore, Unseen
    <3> QED BY <3>2, <3>3 DEF GateInv, Gate, Texts
  <2>7. NoticesInv'
    BY <2>1, SoundStays, NoticesAre DEF AgentInv, NoticesInv, Arriving
  <2> QED BY <2>2, <2>3, <2>4, <2>5, <2>6, <2>7 DEF AgentInv
<1> QED BY <1>1, <1>2

LEMMA AgentInvariant == Spec => []AgentInv
<1>1. Init => AgentInv
  BY AgentInit
<1>2. AgentInv /\ [Next]_vars => AgentInv'
  BY AgentNext
<1> QED BY <1>1, <1>2, PTL DEF Spec

LEMMA RepliesSound ==
  ASSUME AgentInv, NEW r \in Replies
  PROVE  Sound(r)
<1>1. AgentTypeOK /\ DocsInv
  BY DEF AgentInv
<1>2. PICK d \in Logs : r \in d.replies
  <2>1. store \in Logs /\ \A p \in Peers : doc[p] \in Logs
    BY <1>1, LogsAre
  <2>2. CASE r \in store.replies
    BY <2>1, <2>2
  <2>3. CASE \E p \in Peers : r \in doc[p].replies
    BY <2>1, <2>3
  <2>4. r \in UNION {doc[p].replies : p \in Peers} \/ r \in store.replies
    BY DEF Replies
  <2> QED BY <2>2, <2>3, <2>4
<1> QED BY <1>1, <1>2 DEF DocsInv

(* Every variable of the agent's model has its type in every reachable     *)
(* state: logs hold replies a watcher can have written, and a relay queue  *)
(* frames that can be on it.                                               *)
THEOREM AgentTypeCorrect == Spec => []AgentTypeOK
<1>1. AgentInv => AgentTypeOK
  BY DEF AgentInv
<1> QED BY <1>1, AgentInvariant, PTL

(* A line begun while a watcher listens gets no reply before its author is *)
(* done, if its texts are its own and the author does not pause for        *)
(* WRITER_QUIET_MS (editor.rs:11, 560-600).                                *)
THEOREM NeverAnsweredMidTyping == Spec => []NeverMidTyping
<1>1. AgentInv => NeverMidTyping
  BY RepliesSound DEF NeverMidTyping, Sound
<1> QED BY <1>1, AgentInvariant, PTL

(* An ask made while the watcher listens is answered with its author's     *)
(* capability, whichever full logs carry the ask around (editor.rs:23).    *)
THEOREM TheAskerAuthorizes == Spec => []AskerAuthorizes
<1>1. AgentInv => AskerAuthorizes
  BY RepliesSound DEF AskerAuthorizes, Sound
<1> QED BY <1>1, AgentInvariant, PTL

(* A reply is below what it answers, and whoever is notified of a denial   *)
(* has the reply that says so (editor.rs:666, 683).                        *)
THEOREM RepliesAreInPlace == Spec => []RepliesInPlace
<1>1. AgentInv => RepliesInPlace
  <2>1. ASSUME AgentInv PROVE RepliesInPlace
    <3>1. \A r \in Replies : r.under = r.line
      BY <2>1, RepliesSound DEF Sound
    <3>2. ASSUME NEW h \in Humans, NEW l \in notices[h]
          PROVE  \E r \in doc[h].replies : r.line = l /\ Denied(h, AskOf(r))
      <4>1. l \in Explained(Script, doc[h], h)
        BY <2>1, <3>2 DEF AgentInv, NoticesInv
      <4> QED BY <4>1 DEF Explained, AskOf
    <3> QED BY <3>1, <3>2 DEF RepliesInPlace
  <2> QED BY <2>1
<1> QED BY <1>1, AgentInvariant, PTL
=============================================================================
