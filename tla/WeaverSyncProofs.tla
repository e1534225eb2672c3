-------------------------- MODULE WeaverSyncProofs --------------------------
(***************************************************************************)
(* What a page gave its store, and what the store committed, is lost only  *)
(* where the model says so; nobody waits for an edit that others have, and *)
(* no page sends back what it heard: for any pages and rooms, any number   *)
(* of edits, snapshots, failed and aborted writes, dropped sockets,        *)
(* restarts and visits.                                                    *)
(*                                                                         *)
(* The op log is deleted a transaction after the snapshot is put, and more *)
(* flushes and appends may be queued meanwhile.  The argument is that a    *)
(* document only grows while its page is open, so the snapshots queued     *)
(* form a chain, each of which holds all that was promised when it was     *)
(* taken and all that the stored one holds.  A put that aborts after its   *)
(* request succeeded breaks the promise of whatever no snapshot holds, and *)
(* of nothing else: the chain goes on without it.                          *)
(***************************************************************************)
EXTENDS WeaverSync, SequenceTheorems, TLAPS

(* Every edit made, and what documents, frames and stores may hold.        *)
Known == 1..Len(edits)
Docs == SUBSET Known

Entries == [peer : Pages \X {"user", "agent"} \X Nat, deps : SUBSET Nat]
Puts == [ops : Docs, tracked : BOOLEAN]
Appends == [kind : {"append"}, ops : Docs, tracked : {TRUE}]
Deletions == [kind : {"delete"}, ops : {{}}, tracked : BOOLEAN]

(* A set of edits that waits for no dependency.                            *)
Whole(E, h) == \A o \in h : E[o].deps \subseteq h

(* An edit is made on a version: a whole set of earlier edits.             *)
Causal == \A o \in Known : edits[o].deps \in Docs /\ Whole(edits, edits[o].deps)

Typed ==
  /\ edits \in Seq(Entries)
  /\ phase \in [Pages -> Phases]
  /\ doc \in [Pages -> Docs] /\ agent \in [Pages -> Docs]
  /\ up \in [Pages -> Seq(Docs)] /\ down \in [Pages -> Seq(Docs)]
  /\ puts \in [Pages -> Seq(Puts)]
  /\ writes \in [Pages -> Seq(Appends \cup Deletions)]
  /\ snap \in [Pages -> Docs] /\ log \in [Pages -> Docs]
  /\ room \in Docs /\ kept \in Docs
  /\ given \in [Pages -> Docs] /\ settled \in [Pages -> Docs]
  /\ budget \in [Bounded -> Nat]

Promised(p) == given[p] \cup settled[p]
Appending(p) == UNION {writes[p][i].ops : i \in DOMAIN writes[p]}
Deleting(p) == \E i \in DOMAIN writes[p] : writes[p][i].kind = "delete"

(* The snapshots of a page, stored and queued, are whole and of what it    *)
(* has shown since it opened, each of no less than those before it.        *)
Chain(p) ==
  /\ Whole(edits, snap[p]) /\ (phase[p] # "off" => snap[p] \subseteq doc[p])
  /\ \A i \in DOMAIN puts[p] :
        /\ Whole(edits, puts[p][i].ops) /\ puts[p][i].ops \subseteq doc[p]
        /\ Promised(p) \subseteq puts[p][i].ops
        /\ \A j \in DOMAIN puts[p] :
              i <= j => puts[p][i].ops \subseteq puts[p][j].ops

(* The op log may be deleted once the snapshot holds all that was promised.*)
Safe(p) ==
  /\ settled[p] \subseteq snap[p] \cup log[p]
  /\ given[p] \subseteq snap[p] \cup log[p] \cup Appending(p)
  /\ Deleting(p) => Promised(p) \subseteq snap[p]

(* A page that is not there writes nothing, one that was disposed of       *)
(* waited for what was tracked, and a store in memory has no queue.        *)
Quiet(p) ==
  /\ p \notin Durable \/ phase[p] = "off" => puts[p] = <<>> /\ writes[p] = <<>>
  /\ phase[p] = "disposed" => Drained(p)

IInv ==
  /\ Typed /\ Causal
  /\ \A p \in Pages : Chain(p) /\ Safe(p) /\ Quiet(p)

(* No edit is forgotten or changed.                                        *)
Grows == Known \subseteq Known' /\ \A o \in Known : edits'[o] = edits[o]

-----------------------------------------------------------------------------
(* Queues.                                                                 *)

LEMMA TailFacts ==
  ASSUME NEW S, NEW s \in Seq(S), s # <<>>
  PROVE  /\ Head(s) \in S /\ Tail(s) \in Seq(S)
         /\ 1 \in DOMAIN s /\ Head(s) = s[1]
         /\ \A i \in DOMAIN Tail(s) : i + 1 \in DOMAIN s /\ Tail(s)[i] = s[i + 1]
         /\ \A j \in DOMAIN s : j = 1 \/ \E i \in DOMAIN Tail(s) : Tail(s)[i] = s[j]
<1>1. /\ Head(s) \in S /\ Tail(s) \in Seq(S) /\ Len(s) \in Nat \ {0}
      /\ Len(Tail(s)) = Len(s) - 1
      /\ \A i \in 1..Len(Tail(s)) : Tail(s)[i] = s[i + 1]
  BY HeadTailProperties, EmptySeq
<1>2. DOMAIN s = 1..Len(s) /\ DOMAIN Tail(s) = 1..Len(Tail(s)) /\ Head(s) = s[1]
  BY <1>1
<1>3. ASSUME NEW j \in DOMAIN s, j # 1
      PROVE  \E i \in DOMAIN Tail(s) : Tail(s)[i] = s[j]
  <2>1. j - 1 \in DOMAIN Tail(s) /\ (j - 1) + 1 = j
    BY <1>1, <1>2, <1>3
  <2> QED BY <1>1, <1>2, <2>1
<1> QED BY <1>1, <1>2, <1>3

LEMMA AppendFacts ==
  ASSUME NEW S, NEW s \in Seq(S), NEW e \in S
  PROVE  /\ Append(s, e) \in Seq(S)
         /\ \A i \in DOMAIN s : i \in DOMAIN Append(s, e) /\ Append(s, e)[i] = s[i]
         /\ Len(s) + 1 \in DOMAIN Append(s, e) /\ Append(s, e)[Len(s) + 1] = e
         /\ \A i \in DOMAIN Append(s, e) : i \in DOMAIN s \/ i = Len(s) + 1
         /\ \A i \in DOMAIN s : i <= Len(s) /\ i \in Nat /\ Len(s) \in Nat
<1>1. /\ Append(s, e) \in Seq(S) /\ Len(Append(s, e)) = Len(s) + 1
      /\ \A i \in 1..Len(s) : Append(s, e)[i] = s[i]
      /\ Append(s, e)[Len(s) + 1] = e
  BY AppendProperties
<1>2. /\ DOMAIN s = 1..Len(s) /\ Len(s) \in Nat
      /\ DOMAIN Append(s, e) = 1..Len(Append(s, e))
  BY <1>1
<1> QED BY <1>1, <1>2

-----------------------------------------------------------------------------
(* Versions.                                                               *)

(* What a document shows waits for nothing.                                *)
LEMMA VisibleWhole ==
  ASSUME NEW E, NEW h, \A o \in h : Whole(E, E[o].deps)
  PROVE  Whole(E, Visible(E, h)) /\ Visible(E, h) \subseteq h
  BY DEF Whole, Visible

LEMMA WholeShown ==
  ASSUME NEW E, NEW h, NEW g, g \subseteq h, Whole(E, g)
  PROVE  g \subseteq Visible(E, h)
  BY DEF Whole, Visible

LEMMA WholeStays ==
  ASSUME Grows, NEW h \in Docs, Whole(edits, h)
  PROVE  Whole(edits', h)
  BY DEF Grows, Docs, Whole

LEMMA TypesGrow ==
  ASSUME Grows
  PROVE  /\ Docs \subseteq Docs' /\ Seq(Docs) \subseteq Seq(Docs')
         /\ Seq(Puts) \subseteq Seq(Puts')
         /\ Appends \subseteq Appends' /\ Deletions' = Deletions
         /\ Seq(Appends \cup Deletions) \subseteq Seq((Appends \cup Deletions)')
<1>1. Docs \subseteq Docs'
  BY DEF Grows, Docs
<1>2. Puts \subseteq Puts' /\ Appends \subseteq Appends' /\ Deletions' = Deletions
  BY <1>1 DEF Puts, Appends, Deletions
<1>3. Appends \cup Deletions \subseteq (Appends \cup Deletions)'
  BY <1>2
<1> QED BY <1>1, <1>2, <1>3, SeqMonotonic

LEMMA SameEdits ==
  ASSUME Causal, edits' = edits
  PROVE  Grows /\ Causal' /\ Known' = Known
<1>1. Known' = Known
  BY DEF Known
<1>2. Docs' = Docs
  BY <1>1 DEF Docs
<1> QED BY <1>1, <1>2 DEF Grows, Causal, Whole

(* An edit on what a document shows is later than all it depends on.       *)
LEMMA NewEdit ==
  ASSUME Typed, Causal, NEW peer \in Pages \X {"user", "agent"} \X Nat,
         NEW h \in Docs, edits' = Made(peer, Visible(edits, h))
  PROVE  /\ edits' \in Seq(Entries) /\ Grows /\ Causal'
         /\ Len(edits') \in Known'
<1> DEFINE on == Visible(edits, h)
           e == [peer |-> peer, deps |-> on]
<1>1. on \in Docs /\ Whole(edits, on)
  BY VisibleWhole DEF Causal, Docs
<1>2. on \in SUBSET Nat
  BY <1>1 DEF Docs, Known
<1>3. e \in Entries
  BY <1>2 DEF Entries
<1>4. edits' = Append(edits, e) /\ edits \in Seq(Entries)
  BY DEF Made, Typed
<1>5. /\ edits' \in Seq(Entries) /\ Len(edits') = Len(edits) + 1 /\ Len(edits) \in Nat
      /\ \A i \in 1..Len(edits) : edits'[i] = edits[i]
      /\ edits'[Len(edits) + 1] = e
  <2> HIDE DEF e
  <2> QED BY <1>3, <1>4, AppendProperties
<1>6. Grows /\ Known' = Known \cup {Len(edits) + 1}
  BY <1>5 DEF Grows, Known
<1>7. Docs \subseteq Docs'
  BY <1>6 DEF Docs
<1>8. ASSUME NEW o \in Known'
      PROVE  edits'[o].deps \in Docs' /\ Whole(edits', edits'[o].deps)
  <2>1. CASE o \in Known
    BY <1>6, <1>7, <2>1, WholeStays DEF Causal, Grows
  <2>2. CASE o = Len(edits) + 1
    BY <1>1, <1>5, <1>6, <1>7, <2>2, WholeStays
  <2> QED BY <1>6, <2>1, <2>2
<1> QED BY <1>5, <1>6, <1>8 DEF Causal, Known

-----------------------------------------------------------------------------
(* Pages.                                                                  *)

LEMMA QueuedTypes ==
  ASSUME Typed, NEW p \in Pages
  PROVE  /\ \A i \in DOMAIN puts[p] : puts[p][i] \in Puts /\ puts[p][i].ops \in Docs
         /\ \A i \in DOMAIN writes[p] : writes[p][i] \in Appends \cup Deletions
<1>1. puts[p] \in Seq(Puts) /\ writes[p] \in Seq(Appends \cup Deletions)
  BY DEF Typed
<1>2. /\ \A i \in DOMAIN puts[p] : puts[p][i] \in Puts
      /\ \A i \in DOMAIN writes[p] : writes[p][i] \in Appends \cup Deletions
  BY <1>1
<1> QED BY <1>2 DEF Puts

(* A page whose store is left alone while its document grows, is read from *)
(* its snapshot or is given up once nothing tracked is pending.            *)
LEMMA PageStays ==
  ASSUME Typed, Grows, NEW q \in Pages, Chain(q), Safe(q), Quiet(q),
         snap'[q] = snap[q], log'[q] = log[q], puts'[q] = puts[q],
         writes'[q] = writes[q], given'[q] = given[q], settled'[q] = settled[q],
         phase'[q] = "off" => phase[q] = "off",
         phase'[q] = "disposed" => phase[q] = "disposed" \/ Drained(q),
         phase[q] # "off" => doc[q] \subseteq doc'[q],
         phase'[q] # "off" => snap[q] \subseteq doc'[q]
  PROVE  Chain(q)' /\ Safe(q)' /\ Quiet(q)'
<1>1. Whole(edits', snap[q])
  BY WholeStays DEF Typed, Chain
<1>2. ASSUME NEW i \in DOMAIN puts[q]
      PROVE  Whole(edits', puts[q][i].ops) /\ puts[q][i].ops \subseteq doc'[q]
  <2>1. puts[q][i].ops \in Docs
    BY <1>2, QueuedTypes
  <2>2. phase[q] # "off"
    BY <1>2 DEF Quiet
  <2> QED BY <1>2, <2>1, <2>2, WholeStays DEF Chain
<1>3. Chain(q)'
  BY <1>1, <1>2 DEF Chain, Promised
<1>4. Safe(q)'
  BY DEF Safe, Promised, Appending, Deleting
<1>5. Quiet(q)'
  BY DEF Quiet, Drained
<1> QED BY <1>3, <1>4, <1>5

(* What most actions have in common: no store changes.                     *)
LEMMA Aside ==
  ASSUME IInv, Typed', Causal', Grows, UNCHANGED <<disk, given, settled>>,
         \A q \in Pages :
            /\ phase'[q] = "off" => phase[q] = "off"
            /\ phase'[q] = "disposed" => phase[q] = "disposed" \/ Drained(q)
            /\ phase[q] # "off" => doc[q] \subseteq doc'[q]
            /\ phase'[q] # "off" => snap[q] \subseteq doc'[q]
  PROVE  IInv'
<1>1. ASSUME NEW q \in Pages PROVE Chain(q)' /\ Safe(q)' /\ Quiet(q)'
  BY <1>1, PageStays DEF IInv, disk
<1> QED BY <1>1 DEF IInv

(* A step of one page leaves the others' stores and documents alone.       *)
Others(p) ==
  \A q \in Pages \ {p} :
    /\ snap'[q] = snap[q] /\ log'[q] = log[q] /\ puts'[q] = puts[q]
    /\ writes'[q] = writes[q] /\ given'[q] = given[q] /\ settled'[q] = settled[q]
    /\ phase'[q] = phase[q] /\ doc'[q] = doc[q]

LEMMA OnePage ==
  ASSUME IInv, Typed', Causal', Grows, NEW p \in Pages, Others(p),
         Chain(p)', Safe(p)', Quiet(p)'
  PROVE  IInv'
<1>1. ASSUME NEW q \in Pages \ {p} PROVE Chain(q)' /\ Safe(q)' /\ Quiet(q)'
  <2>1. Chain(q) /\ Safe(q) /\ Quiet(q) /\ Typed
    BY DEF IInv
  <2>2. phase[q] # "off" => snap[q] \subseteq doc[q]
    BY <2>1 DEF Chain
  <2> QED BY <2>1, <2>2, PageStays DEF Others
<1> QED BY <1>1 DEF IInv

-----------------------------------------------------------------------------
(* Exports and flushes.                                                    *)

(* Of what was promised, a flush drops what the version it saves does not  *)
(* show: the rest is in that version.                                      *)
LEMMA Folded ==
  ASSUME NEW p \in Pages, Safe(p), NEW v, snap[p] \subseteq v
  PROVE  Promised(p) \ Unfolded(p, v) \subseteq v
<1>1. Appending(p) \subseteq Queued(p)
  BY DEF Appending, Queued
<1> QED BY <1>1 DEF Safe, Promised, Unfolded

(* The version saved is later than every snapshot before it, so the chain  *)
(* goes on; delta is what the same callback appends to the op log, and new *)
(* what of it is promised.                                                 *)
LEMMA Saved ==
  ASSUME Typed, Grows, NEW p \in Pages, Chain(p), Safe(p), Quiet(p),
         phase[p] \notin {"off", "disposed"}, phase' = phase,
         NEW v \in Docs', Whole(edits', v), v \subseteq doc'[p],
         doc[p] \subseteq doc'[p], snap[p] \subseteq v,
         \A i \in DOMAIN puts[p] : puts[p][i].ops \subseteq v,
         NEW tracked \in BOOLEAN, NEW delta, delta \subseteq v,
         NEW new, new \subseteq delta, Flushing(p) => new = {},
         NEW w, \/ w = Append(writes[p], Append1(delta))
                \/ w = writes[p] /\ (p \in Durable => new = {}),
         SaveSnapshot(p, v, tracked, w, log[p]),
         given' = [given EXCEPT ![p] = (@ \ Unfolded(p, v)) \cup new],
         p \notin Durable => w = writes[p]
  PROVE  /\ puts' \in [Pages -> Seq(Puts')]
         /\ writes' \in [Pages -> Seq((Appends \cup Deletions)')]
         /\ snap' \in [Pages -> Docs'] /\ log' \in [Pages -> Docs']
         /\ given' \in [Pages -> Docs'] /\ settled' \in [Pages -> Docs']
         /\ \A q \in Pages \ {p} :
              /\ snap'[q] = snap[q] /\ log'[q] = log[q] /\ puts'[q] = puts[q]
              /\ writes'[q] = writes[q] /\ given'[q] = given[q]
              /\ settled'[q] = settled[q]
         /\ Chain(p)' /\ Safe(p)' /\ Quiet(p)'
<1> DEFINE r == [ops |-> v, tracked |-> tracked]
<1>1. delta \in Docs' /\ new \in Docs' /\ Append1(delta) \in (Appends \cup Deletions)'
      /\ r \in Puts' /\ {} \in Docs'
  BY DEF Docs, Append1, Appends, Puts
<1>2. /\ Docs \subseteq Docs' /\ puts[p] \in Seq(Puts')
      /\ writes[p] \in Seq((Appends \cup Deletions)')
      /\ puts \in [Pages -> Seq(Puts')]
      /\ writes \in [Pages -> Seq((Appends \cup Deletions)')]
      /\ snap \in [Pages -> Docs'] /\ log \in [Pages -> Docs']
      /\ given \in [Pages -> Docs'] /\ settled \in [Pages -> Docs']
  BY TypesGrow DEF Typed
<1>3. given' \in [Pages -> Docs']
  BY <1>1, <1>2 DEF Docs
<1>4. Promised(p) \ Unfolded(p, v) \subseteq v
  BY Folded
<1>5. given'[p] = (given[p] \ Unfolded(p, v)) \cup new
  BY <1>2
<1>6. CASE p \in Durable
  <2>1. /\ puts' = [puts EXCEPT ![p] = Append(@, r)]
        /\ writes' = [writes EXCEPT ![p] = w] /\ log' = [log EXCEPT ![p] = log[p]]
        /\ settled' = [settled EXCEPT ![p] = @ \ Unfolded(p, v)] /\ snap' = snap
    BY <1>6 DEF SaveSnapshot, Put
  <2>2. Append(puts[p], r) \in Seq(Puts') /\ w \in Seq((Appends \cup Deletions)')
    <3>1. Append(writes[p], Append1(delta)) \in Seq((Appends \cup Deletions)')
      BY <1>1, <1>2, AppendFacts
    <3>2. Append(puts[p], r) \in Seq(Puts')
      <4> HIDE DEF r
      <4> QED BY <1>1, <1>2, AppendFacts
    <3> QED BY <1>2, <3>1, <3>2
  <2>3. /\ puts' \in [Pages -> Seq(Puts')]
        /\ writes' \in [Pages -> Seq((Appends \cup Deletions)')]
        /\ snap' \in [Pages -> Docs'] /\ log' \in [Pages -> Docs']
    BY <1>2, <2>1, <2>2
  <2>4. settled' \in [Pages -> Docs']
    BY <1>2, <2>1 DEF Docs
  <2>5. /\ puts'[p] = Append(puts[p], r) /\ writes'[p] = w
        /\ settled'[p] = settled[p] \ Unfolded(p, v)
        /\ snap'[p] = snap[p] /\ log'[p] = log[p]
    BY <1>2, <2>1
  <2>6. Promised(p)' \subseteq v /\ Promised(p)' \subseteq Promised(p) \cup new
    BY <1>4, <1>5, <2>5 DEF Promised
  <2>7. Chain(p)'
    <3>1. Whole(edits', snap[p]) /\ snap[p] \subseteq doc'[p]
      BY WholeStays DEF Typed, Chain
    <3>2. /\ \A i \in DOMAIN puts[p] : i \in DOMAIN puts'[p] /\ puts'[p][i] = puts[p][i]
          /\ puts'[p][Len(puts[p]) + 1] = r
          /\ \A i \in DOMAIN puts'[p] : i \in DOMAIN puts[p] \/ i = Len(puts[p]) + 1
          /\ \A i \in DOMAIN puts[p] : i <= Len(puts[p]) /\ i \in Nat /\ Len(puts[p]) \in Nat
      <4> HIDE DEF r
      <4> QED BY <1>1, <1>2, <2>5, AppendFacts
    <3>3. ASSUME NEW i \in DOMAIN puts[p]
          PROVE  /\ Whole(edits', puts[p][i].ops) /\ puts[p][i].ops \subseteq doc'[p]
                 /\ Promised(p)' \subseteq puts[p][i].ops
      <4>1. Flushing(p) /\ new = {}
        BY <3>3 DEF Flushing
      <4>2. puts[p][i].ops \in Docs
        BY <3>3, QueuedTypes
      <4>3. /\ Whole(edits, puts[p][i].ops) /\ puts[p][i].ops \subseteq doc[p]
            /\ Promised(p) \subseteq puts[p][i].ops
        BY <3>3 DEF Chain
      <4>4. Whole(edits', puts[p][i].ops)
        BY <4>2, <4>3, WholeStays
      <4> QED BY <2>6, <4>1, <4>3, <4>4
    <3>4. ASSUME NEW i \in DOMAIN puts'[p]
          PROVE  /\ Whole(edits', puts'[p][i].ops) /\ puts'[p][i].ops \subseteq doc'[p]
                 /\ Promised(p)' \subseteq puts'[p][i].ops
      BY <2>6, <3>2, <3>3
    <3>5. ASSUME NEW i \in DOMAIN puts'[p], NEW j \in DOMAIN puts'[p], i <= j
          PROVE  puts'[p][i].ops \subseteq puts'[p][j].ops
      <4>1. CASE i \in DOMAIN puts[p] /\ j \in DOMAIN puts[p]
        BY <3>2, <3>5, <4>1 DEF Chain
      <4>2. CASE j = Len(puts[p]) + 1
        BY <3>2, <4>2
      <4> QED BY <3>2, <3>5, <4>1, <4>2
    <3> QED BY <2>5, <3>1, <3>4, <3>5 DEF Chain
  <2>8. Safe(p)'
    <3>1. \A i \in DOMAIN writes[p] : i \in DOMAIN w /\ w[i] = writes[p][i]
      BY <1>1, <1>2, AppendFacts
    <3>2. Appending(p) \subseteq Appending(p)'
      BY <2>5, <3>1 DEF Appending
    <3>3. new \subseteq Appending(p)'
      <4>1. CASE w = Append(writes[p], Append1(delta))
        <5>1. Len(writes[p]) + 1 \in DOMAIN w /\ w[Len(writes[p]) + 1] = Append1(delta)
          BY <1>1, <1>2, <4>1, AppendFacts
        <5> QED BY <2>5, <5>1 DEF Appending, Append1
      <4>2. CASE new = {}
        BY <4>2
      <4> QED BY <1>6, <4>1, <4>2
    <3>4. Deleting(p)' => Deleting(p)
      <4>1. CASE w = Append(writes[p], Append1(delta))
        <5>1. \A i \in DOMAIN w : i \in DOMAIN writes[p] \/ w[i] = Append1(delta)
          BY <1>1, <1>2, <4>1, AppendFacts
        <5> QED BY <2>5, <3>1, <5>1 DEF Deleting, Append1
      <4>2. CASE w = writes[p]
        BY <2>5, <4>2 DEF Deleting
      <4> QED BY <4>1, <4>2
    <3>5. Deleting(p) => new = {}
      BY DEF Deleting, Flushing
    <3> QED BY <1>5, <2>5, <2>6, <3>2, <3>3, <3>4, <3>5 DEF Safe
  <2>9. Quiet(p)'
    BY <1>6 DEF Quiet
  <2> QED BY <1>3, <2>1, <2>3, <2>4, <2>7, <2>8, <2>9
<1>7. CASE p \notin Durable
  <2>1. /\ snap' = [snap EXCEPT ![p] = v] /\ log' = [log EXCEPT ![p] = {}]
        /\ settled' = [settled EXCEPT ![p] = (@ \ Unfolded(p, v)) \cup v]
        /\ UNCHANGED <<puts, writes>>
    BY <1>7 DEF SaveSnapshot, Put
  <2>2. /\ snap' \in [Pages -> Docs'] /\ log' \in [Pages -> Docs']
        /\ settled' \in [Pages -> Docs']
    BY <1>1, <1>2, <2>1 DEF Docs
  <2>3. /\ puts[p] = <<>> /\ writes[p] = <<>> /\ snap'[p] = v
        /\ settled'[p] = (settled[p] \ Unfolded(p, v)) \cup v
    BY <1>2, <1>7, <2>1 DEF Quiet
  <2>4. Promised(p)' \subseteq v
    BY <1>4, <1>5, <2>3 DEF Promised
  <2>5. Chain(p)' /\ Safe(p)'
    BY <2>1, <2>3, <2>4 DEF Chain, Safe, Promised, Deleting
  <2>6. Quiet(p)'
    BY <2>1, <2>3 DEF Quiet
  <2> QED BY <1>2, <1>3, <2>1, <2>2, <2>5, <2>6
<1> QED BY <1>6, <1>7

(* One call of the subscriber, which runs while nobody has detached it.    *)
LEMMA Exported ==
  ASSUME Typed, Grows, NEW p \in Pages, Chain(p), Safe(p), Quiet(p),
         phase[p] \notin {"off", "disposed"}, phase' = phase,
         NEW v \in Docs', Whole(edits', v), v \subseteq doc'[p],
         doc[p] \subseteq doc'[p], snap[p] \subseteq v,
         \A i \in DOMAIN puts[p] : puts[p][i].ops \subseteq v,
         NEW m, Export(p, v, m)
  PROVE  /\ puts' \in [Pages -> Seq(Puts')]
         /\ writes' \in [Pages -> Seq((Appends \cup Deletions)')]
         /\ snap' \in [Pages -> Docs'] /\ log' \in [Pages -> Docs']
         /\ given' \in [Pages -> Docs'] /\ settled' \in [Pages -> Docs']
         /\ up' \in [Pages -> Seq(Docs')]
         /\ \A q \in Pages \ {p} :
              /\ snap'[q] = snap[q] /\ log'[q] = log[q] /\ puts'[q] = puts[q]
              /\ writes'[q] = writes[q] /\ given'[q] = given[q]
              /\ settled'[q] = settled[q]
         /\ Chain(p)' /\ Safe(p)' /\ Quiet(p)'
<1> DEFINE delta == v \ m
           new == IF Flushing(p) THEN {} ELSE delta
           w == Append(writes[p], Append1(delta))
           full == Min({since[p] + 1, SnapshotEvery}) = SnapshotEvery
<1>1. /\ delta \in Docs' /\ new \in Docs' /\ {} \in Docs'
      /\ Append1(delta) \in (Appends \cup Deletions)'
      /\ delta \subseteq v /\ new \subseteq delta /\ (Flushing(p) => new = {})
  BY DEF Docs, Append1, Appends
<1>2. /\ Docs \subseteq Docs' /\ puts[p] \in Seq(Puts')
      /\ writes[p] \in Seq((Appends \cup Deletions)')
      /\ puts \in [Pages -> Seq(Puts')]
      /\ writes \in [Pages -> Seq((Appends \cup Deletions)')]
      /\ snap \in [Pages -> Docs'] /\ log \in [Pages -> Docs']
      /\ given \in [Pages -> Docs'] /\ settled \in [Pages -> Docs']
      /\ up \in [Pages -> Seq(Docs')]
  BY TypesGrow DEF Typed
<1>3. up' \in [Pages -> Seq(Docs')]
  <2>1. up' = up \/ up' = [up EXCEPT ![p] = Append(@, delta)]
    BY DEF Export
  <2>2. Append(up[p], delta) \in Seq(Docs')
    <3> HIDE DEF delta
    <3> QED BY <1>1, <1>2, AppendFacts
  <2> QED BY <1>2, <2>1, <2>2
<1>4. CASE full
  <2>1. given' = [given EXCEPT ![p] = (@ \ Unfolded(p, v)) \cup new]
    BY <1>4 DEF Export
  <2>2. IF p \in Durable THEN SaveSnapshot(p, v, TRUE, w, log[p])
        ELSE SaveSnapshot(p, v, TRUE, writes[p], log[p])
    BY <1>4 DEF Export
  <2> HIDE DEF new, delta, full
  <2>3. CASE p \in Durable
    BY <1>1, <1>3, <2>1, <2>2, <2>3, Saved
  <2>4. CASE p \notin Durable
    BY <1>1, <1>3, <2>1, <2>2, <2>4, Saved
  <2> QED BY <2>3, <2>4
<1>5. CASE ~full
  <2>1. given' = [given EXCEPT ![p] = @ \cup new]
    <3>1. given' = [given EXCEPT ![p] = (@ \ {}) \cup new]
      BY <1>5 DEF Export
    <3> QED BY <3>1
  <2>2. IF p \in Durable
        THEN writes' = [writes EXCEPT ![p] = w] /\ UNCHANGED <<puts, snap, log, settled>>
        ELSE /\ log' = [log EXCEPT ![p] = @ \cup delta]
             /\ settled' = [settled EXCEPT ![p] = @ \cup delta]
             /\ UNCHANGED <<puts, writes, snap>>
    BY <1>5 DEF Export, Put
  <2>3. given' \in [Pages -> Docs']
    BY <1>1, <1>2, <2>1 DEF Docs
  <2>4. given'[p] = given[p] \cup new
    BY <1>2, <2>1
  <2>5. Whole(edits', snap[p])
    BY WholeStays DEF Typed, Chain
  <2>6. CASE p \in Durable
    <3>1. w \in Seq((Appends \cup Deletions)')
      <4> HIDE DEF delta
      <4> QED BY <1>1, <1>2, AppendFacts
    <3>2. writes' \in [Pages -> Seq((Appends \cup Deletions)')]
      BY <1>2, <2>2, <2>6, <3>1
    <3>3. /\ puts'[p] = puts[p] /\ snap'[p] = snap[p] /\ log'[p] = log[p]
          /\ settled'[p] = settled[p] /\ writes'[p] = w
      BY <1>2, <2>2, <2>6
    <3>4. /\ \A i \in DOMAIN writes[p] : i \in DOMAIN w /\ w[i] = writes[p][i]
          /\ Len(writes[p]) + 1 \in DOMAIN w /\ w[Len(writes[p]) + 1] = Append1(delta)
          /\ \A i \in DOMAIN w : i \in DOMAIN writes[p] \/ w[i] = Append1(delta)
      <4> HIDE DEF delta
      <4> QED BY <1>1, <1>2, AppendFacts
    <3>5. Chain(p)'
      <4>1. ASSUME NEW i \in DOMAIN puts[p]
            PROVE  /\ Whole(edits', puts[p][i].ops) /\ puts[p][i].ops \subseteq doc'[p]
                   /\ Promised(p)' \subseteq puts[p][i].ops
        <5>1. Flushing(p) /\ new = {}
          BY <4>1 DEF Flushing
        <5>2. puts[p][i].ops \in Docs
          BY <4>1, QueuedTypes
        <5>3. /\ Whole(edits, puts[p][i].ops) /\ puts[p][i].ops \subseteq doc[p]
              /\ Promised(p) \subseteq puts[p][i].ops
          BY <4>1 DEF Chain
        <5>4. Whole(edits', puts[p][i].ops)
          BY <5>2, <5>3, WholeStays
        <5> QED BY <2>4, <3>3, <5>1, <5>3, <5>4 DEF Promised
      <4> QED BY <2>5, <3>3, <4>1 DEF Chain
    <3>6. Safe(p)'
      <4>1. Appending(p) \subseteq Appending(p)'
        BY <3>3, <3>4 DEF Appending
      <4>2. delta \subseteq Appending(p)'
        <5> HIDE DEF delta
        <5> QED BY <3>3, <3>4 DEF Appending, Append1
      <4>3. Deleting(p)' => Deleting(p)
        BY <3>3, <3>4 DEF Deleting, Append1
      <4>4. Deleting(p) => new = {}
        BY DEF Deleting, Flushing
      <4> HIDE DEF new, delta
      <4> QED BY <1>1, <2>4, <3>3, <4>1, <4>2, <4>3, <4>4 DEF Safe, Promised
    <3>7. Quiet(p)'
      BY <2>6 DEF Quiet
    <3> HIDE DEF new, delta, w
    <3> QED BY <1>2, <1>3, <2>1, <2>2, <2>3, <2>6, <3>2, <3>5, <3>6, <3>7
  <2>7. CASE p \notin Durable
    <3>1. /\ log' = [log EXCEPT ![p] = @ \cup delta]
          /\ settled' = [settled EXCEPT ![p] = @ \cup delta]
          /\ UNCHANGED <<puts, writes, snap>>
      BY <2>2, <2>7
    <3>2. puts[p] = <<>> /\ writes[p] = <<>>
      BY <2>7 DEF Quiet
    <3>3. log' \in [Pages -> Docs'] /\ settled' \in [Pages -> Docs']
      BY <1>1, <1>2, <3>1 DEF Docs
    <3>4. log'[p] = log[p] \cup delta /\ settled'[p] = settled[p] \cup delta
      BY <1>2, <3>1
    <3>5. Chain(p)' /\ Quiet(p)'
      BY <2>5, <3>1, <3>2 DEF Chain, Quiet
    <3>6. Safe(p)'
      <4> HIDE DEF new, delta
      <4> QED BY <1>1, <2>4, <3>1, <3>2, <3>4 DEF Safe, Appending, Deleting
    <3> HIDE DEF new, delta, w
    <3> QED BY <1>2, <1>3, <2>1, <2>3, <3>1, <3>3, <3>5, <3>6
  <2> QED BY <2>6, <2>7
<1> QED BY <1>4, <1>5

(* A document that grows: what its subscriber makes of it, if any is left. *)
LEMMA Became ==
  ASSUME IInv, Grows, NEW p \in Pages, phase[p] # "off", phase' = phase,
         NEW h \in Docs', doc[p] \subseteq h, NEW m, Becomes(p, edits', h, m),
         Causal'
  PROVE  /\ puts' \in [Pages -> Seq(Puts')]
         /\ writes' \in [Pages -> Seq((Appends \cup Deletions)')]
         /\ snap' \in [Pages -> Docs'] /\ log' \in [Pages -> Docs']
         /\ given' \in [Pages -> Docs'] /\ settled' \in [Pages -> Docs']
         /\ up' \in [Pages -> Seq(Docs')] /\ doc' \in [Pages -> Docs']
         /\ Others(p) /\ Chain(p)' /\ Safe(p)' /\ Quiet(p)'
<1> DEFINE v == Visible(edits', h)
<1>1. Typed /\ Chain(p) /\ Safe(p) /\ Quiet(p) /\ phase[p] \in Phases
  BY DEF IInv, Typed
<1>2. doc' = [doc EXCEPT ![p] = h]
  BY DEF Becomes, Put
<1>3. doc' \in [Pages -> Docs'] /\ doc'[p] = h
      /\ \A q \in Pages \ {p} : doc'[q] = doc[q]
  BY <1>1, <1>2, TypesGrow DEF Typed
<1>4. \A o \in h : Whole(edits', edits'[o].deps)
  BY DEF Causal, Docs
<1>5. Whole(edits', v) /\ v \subseteq h /\ v \in Docs'
  BY <1>4, VisibleWhole DEF Docs
<1>6. snap[p] \subseteq v
  <2>1. Whole(edits', snap[p]) /\ snap[p] \subseteq h
    BY <1>1, WholeStays DEF Typed, Chain
  <2> QED BY <2>1, WholeShown
<1>7. ASSUME NEW i \in DOMAIN puts[p] PROVE puts[p][i].ops \subseteq v
  <2>1. puts[p][i].ops \in Docs
    BY <1>1, <1>7, QueuedTypes
  <2>2. Whole(edits, puts[p][i].ops) /\ puts[p][i].ops \subseteq h
    BY <1>1, <1>7 DEF Chain
  <2>3. Whole(edits', puts[p][i].ops)
    BY <2>1, <2>2, WholeStays
  <2> QED BY <2>2, <2>3, WholeShown
<1>8. CASE phase[p] \in Subscribed /\ Export(p, v, m)
  <2>1. phase[p] \notin {"off", "disposed"}
    BY <1>8 DEF Subscribed
  <2> HIDE DEF v
  <2>2. /\ puts' \in [Pages -> Seq(Puts')]
        /\ writes' \in [Pages -> Seq((Appends \cup Deletions)')]
        /\ snap' \in [Pages -> Docs'] /\ log' \in [Pages -> Docs']
        /\ given' \in [Pages -> Docs'] /\ settled' \in [Pages -> Docs']
        /\ up' \in [Pages -> Seq(Docs')]
        /\ \A q \in Pages \ {p} :
             /\ snap'[q] = snap[q] /\ log'[q] = log[q] /\ puts'[q] = puts[q]
             /\ writes'[q] = writes[q] /\ given'[q] = given[q]
             /\ settled'[q] = settled[q]
        /\ Chain(p)' /\ Safe(p)' /\ Quiet(p)'
    BY <1>1, <1>3, <1>5, <1>6, <1>7, <1>8, <2>1, Exported
  <2> QED BY <1>3, <2>2 DEF Others
<1>9. CASE UNCHANGED <<up, disk, given, settled>>
  <2>1. Chain(p)' /\ Safe(p)' /\ Quiet(p)'
    <3>1. snap[p] \subseteq doc'[p]
      BY <1>3, <1>5, <1>6
    <3> QED BY <1>1, <1>3, <1>9, <3>1, PageStays DEF disk
  <2>2. Others(p)
    BY <1>3, <1>9 DEF Others, disk
  <2> QED BY <1>1, <1>3, <1>9, <2>1, <2>2, TypesGrow DEF Typed, disk
<1> QED BY <1>8, <1>9 DEF Becomes

-----------------------------------------------------------------------------
(* Every action keeps the invariant.                                       *)

LEMMA SameTypes ==
  ASSUME edits' = edits
  PROVE  /\ Docs' = Docs /\ Puts' = Puts /\ Appends' = Appends
         /\ Deletions' = Deletions
  BY DEF Docs, Known, Puts, Appends, Deletions

LEMMA Spent ==
  ASSUME Typed, NEW what \in Bounded, Spend(what)
  PROVE  budget' \in [Bounded -> Nat]
<1>1. budget[what] - 1 \in Nat
  BY DEF Typed, Spend
<1> QED BY <1>1 DEF Typed, Spend

LEMMA PeerType ==
  ASSUME Typed, NEW p \in Pages, NEW who \in {"user", "agent"}
  PROVE  Peer(p, who) \in Pages \X {"user", "agent"} \X Nat
<1>1. budget["leaves"] \in Nat
  BY DEF Typed, Bounded
<1> QED BY <1>1 DEF Peer

LEMMA EditStep ==
  ASSUME IInv, NEW p \in Pages, Edit(p)
  PROVE  IInv'
<1> DEFINE h == doc[p] \cup {Len(edits')}
<1>1. Typed /\ Causal /\ doc[p] \in Docs /\ Peer(p, "user") \in Pages \X {"user", "agent"} \X Nat
  BY PeerType DEF IInv, Typed
<1>2. /\ edits' \in Seq(Entries) /\ Grows /\ Causal' /\ Len(edits') \in Known'
  BY <1>1, NewEdit DEF Edit
<1>3. h \in Docs' /\ doc[p] \subseteq h
  BY <1>1, <1>2, TypesGrow DEF Docs
<1>4. phase[p] # "off" /\ phase' = phase /\ Becomes(p, edits', h, mark[p])
  BY DEF Edit
<1>5. /\ puts' \in [Pages -> Seq(Puts')]
      /\ writes' \in [Pages -> Seq((Appends \cup Deletions)')]
      /\ snap' \in [Pages -> Docs'] /\ log' \in [Pages -> Docs']
      /\ given' \in [Pages -> Docs'] /\ settled' \in [Pages -> Docs']
      /\ up' \in [Pages -> Seq(Docs')] /\ doc' \in [Pages -> Docs']
      /\ Others(p) /\ Chain(p)' /\ Safe(p)' /\ Quiet(p)'
  <2> HIDE DEF h
  <2> QED BY <1>2, <1>3, <1>4, Became
<1>6. agent' \in [Pages -> Docs']
  <2>1. Visible(edits', h) \in Docs'
    BY <1>3 DEF Visible, Docs
  <2>2. agent \in [Pages -> Docs']
    BY <1>1, <1>2, TypesGrow DEF Typed
  <2>3. agent[p] \cup Visible(edits', h) \in Docs'
    BY <2>1, <2>2 DEF Docs
  <2>4. agent' = agent \/ agent' = [agent EXCEPT ![p] = @ \cup Visible(edits', h)]
    BY DEF Edit
  <2> QED BY <2>2, <2>3, <2>4
<1>7. budget' \in [Bounded -> Nat]
  BY <1>1, Spent DEF Edit, Bounded
<1>8. Typed'
  BY <1>1, <1>2, <1>4, <1>5, <1>6, <1>7, TypesGrow
     DEF Typed, Edit, server, Entries
<1> QED BY <1>2, <1>5, <1>8, OnePage

LEMMA AgentEditStep ==
  ASSUME IInv, NEW p \in Pages, AgentEdit(p)
  PROVE  IInv'
<1> DEFINE h == agent[p] \cup {Len(edits')}
           d == doc[p] \cup Visible(edits', h)
<1>1. Typed /\ Causal /\ agent[p] \in Docs /\ Peer(p, "agent") \in Pages \X {"user", "agent"} \X Nat
  BY PeerType DEF IInv, Typed
<1>2. /\ edits' \in Seq(Entries) /\ Grows /\ Causal' /\ Len(edits') \in Known'
  BY <1>1, NewEdit DEF AgentEdit
<1>3. h \in Docs'
  BY <1>1, <1>2, TypesGrow DEF Docs
<1>4. d \in Docs' /\ doc[p] \subseteq d
  BY <1>1, <1>2, <1>3, TypesGrow DEF Docs, Visible, Typed
<1>5. phase[p] # "off" /\ phase' = phase /\ agent' = [agent EXCEPT ![p] = h]
  BY DEF AgentEdit, Put
<1>6. agent' \in [Pages -> Docs']
  BY <1>1, <1>2, <1>3, <1>5, TypesGrow DEF Typed
<1>7. budget' \in [Bounded -> Nat]
  BY <1>1, Spent DEF AgentEdit, Bounded
<1>8. CASE Becomes(p, edits', d, mark[p])
  <2>1. /\ puts' \in [Pages -> Seq(Puts')]
        /\ writes' \in [Pages -> Seq((Appends \cup Deletions)')]
        /\ snap' \in [Pages -> Docs'] /\ log' \in [Pages -> Docs']
        /\ given' \in [Pages -> Docs'] /\ settled' \in [Pages -> Docs']
        /\ up' \in [Pages -> Seq(Docs')] /\ doc' \in [Pages -> Docs']
        /\ Others(p) /\ Chain(p)' /\ Safe(p)' /\ Quiet(p)'
    <3> HIDE DEF d
    <3> QED BY <1>2, <1>4, <1>5, <1>8, Became
  <2>2. Typed'
    BY <1>1, <1>2, <1>5, <1>6, <1>7, <2>1, TypesGrow
       DEF Typed, AgentEdit, server, Entries
  <2> QED BY <1>2, <2>1, <2>2, OnePage
<1>9. CASE UNCHANGED <<doc, mark, since, up, disk, given, settled>>
  <2>1. Typed'
    BY <1>1, <1>2, <1>5, <1>6, <1>7, <1>9, TypesGrow
       DEF Typed, AgentEdit, server, disk, Entries
  <2> QED BY <1>2, <1>5, <1>9, <2>1, Aside DEF IInv, Chain
<1> QED BY <1>8, <1>9 DEF AgentEdit

LEMMA LinkStep ==
  ASSUME IInv, NEW p \in Pages, Link(p)
  PROVE  IInv'
<1> DEFINE both == Visible(edits, doc[p]) \cup Visible(edits, agent[p])
           d == doc[p] \cup both
<1>1. Typed /\ Causal /\ edits' = edits /\ phase[p] # "off" /\ phase' = phase
  BY DEF IInv, Link
<1>2. Grows /\ Causal'
  BY <1>1, SameEdits
<1>3. both \in Docs /\ d \in Docs' /\ doc[p] \subseteq d
  BY <1>1, SameTypes DEF Typed, Docs, Visible
<1>4. Becomes(p, edits', d, mark[p])
  BY <1>1 DEF Link
<1>5. /\ puts' \in [Pages -> Seq(Puts')]
      /\ writes' \in [Pages -> Seq((Appends \cup Deletions)')]
      /\ snap' \in [Pages -> Docs'] /\ log' \in [Pages -> Docs']
      /\ given' \in [Pages -> Docs'] /\ settled' \in [Pages -> Docs']
      /\ up' \in [Pages -> Seq(Docs')] /\ doc' \in [Pages -> Docs']
      /\ Others(p) /\ Chain(p)' /\ Safe(p)' /\ Quiet(p)'
  <2> HIDE DEF d
  <2> QED BY <1>1, <1>2, <1>3, <1>4, Became
<1>6. agent' \in [Pages -> Docs]
  <2>1. agent[p] \cup both \in Docs
    BY <1>1, <1>3 DEF Typed, Docs
  <2> QED BY <1>1, <2>1 DEF Link, Typed
<1>7. budget' \in [Bounded -> Nat]
  BY <1>1, Spent DEF Link, Bounded
<1>8. Typed'
  BY <1>1, <1>5, <1>6, <1>7, SameTypes DEF Typed, Link, server, Entries
<1> QED BY <1>2, <1>5, <1>8, OnePage

LEMMA ReceiveStep ==
  ASSUME IInv, NEW p \in Pages, Receive(p)
  PROVE  IInv'
<1> DEFINE f == Head(down[p])
           d == doc[p] \cup f
           m == MarkPast(p, f)
<1>1. Typed /\ Causal /\ edits' = edits /\ phase' = phase /\ budget' = budget
  BY DEF IInv, Receive
<1>2. Grows /\ Causal'
  BY <1>1, SameEdits
<1>3. f \in Docs /\ down' \in [Pages -> Seq(Docs)]
  <2>1. down[p] \in Seq(Docs) /\ down[p] # <<>>
    BY <1>1 DEF Typed, Receive
  <2>2. f \in Docs /\ Tail(down[p]) \in Seq(Docs)
    BY <2>1, TailFacts
  <2> QED BY <1>1, <2>2 DEF Typed, Receive
<1>4. CASE phase[p] = "live" /\ Becomes(p, edits', d, m)
  <2>1. d \in Docs' /\ doc[p] \subseteq d
    BY <1>1, <1>3, SameTypes DEF Typed, Docs
  <2>2. /\ puts' \in [Pages -> Seq(Puts')]
        /\ writes' \in [Pages -> Seq((Appends \cup Deletions)')]
        /\ snap' \in [Pages -> Docs'] /\ log' \in [Pages -> Docs']
        /\ given' \in [Pages -> Docs'] /\ settled' \in [Pages -> Docs']
        /\ up' \in [Pages -> Seq(Docs')] /\ doc' \in [Pages -> Docs']
        /\ Others(p) /\ Chain(p)' /\ Safe(p)' /\ Quiet(p)'
    <3> HIDE DEF d, m
    <3> QED BY <1>1, <1>2, <1>4, <2>1, Became
  <2>3. Typed'
    BY <1>1, <1>3, <2>2, SameTypes DEF Typed, Receive, server, Entries
  <2> QED BY <1>2, <2>2, <2>3, OnePage
<1>5. CASE UNCHANGED <<doc, up, disk, given, settled>>
  <2>1. Typed'
    BY <1>1, <1>3, <1>5, SameTypes DEF Typed, Receive, server, disk, Entries
  <2> QED BY <1>1, <1>2, <1>5, <2>1, Aside DEF IInv, Chain
<1> QED BY <1>1, <1>4, <1>5 DEF Receive

(* A flush asked for through the handle, in a page that is live.           *)
LEMMA FlushStep ==
  ASSUME IInv, NEW p \in Pages, Flush(p)
  PROVE  IInv'
<1> DEFINE v == Visible(edits, doc[p])
<1>1. /\ Typed /\ Causal /\ edits' = edits /\ phase' = phase /\ phase[p] = "live"
      /\ doc' = doc /\ Chain(p) /\ Safe(p) /\ Quiet(p)
  BY DEF IInv, Flush
<1>2. Grows /\ Causal'
  BY <1>1, SameEdits
<1>3. doc[p] \in Docs /\ \A o \in doc[p] : Whole(edits, edits[o].deps)
  BY <1>1 DEF Typed, Causal, Docs
<1>4. Whole(edits, v) /\ v \subseteq doc[p] /\ v \in Docs'
  BY <1>1, <1>3, VisibleWhole, SameTypes DEF Docs
<1>5. snap[p] \subseteq v /\ \A i \in DOMAIN puts[p] : puts[p][i].ops \subseteq v
  BY <1>1, WholeShown DEF Chain
<1>6. given' = [given EXCEPT ![p] = (@ \ Unfolded(p, v)) \cup {}]
  <2>1. given' = [given EXCEPT ![p] = @ \ Unfolded(p, v)]
    BY DEF Flush
  <2> QED BY <2>1
<1>7. SaveSnapshot(p, v, FALSE, writes[p], log[p])
  BY DEF Flush
<1>8. /\ puts' \in [Pages -> Seq(Puts')]
      /\ writes' \in [Pages -> Seq((Appends \cup Deletions)')]
      /\ snap' \in [Pages -> Docs'] /\ log' \in [Pages -> Docs']
      /\ given' \in [Pages -> Docs'] /\ settled' \in [Pages -> Docs']
      /\ \A q \in Pages \ {p} :
           /\ snap'[q] = snap[q] /\ log'[q] = log[q] /\ puts'[q] = puts[q]
           /\ writes'[q] = writes[q] /\ given'[q] = given[q]
           /\ settled'[q] = settled[q]
      /\ Chain(p)' /\ Safe(p)' /\ Quiet(p)'
  <2> HIDE DEF v
  <2>1. {} \subseteq v /\ FALSE \in BOOLEAN /\ phase[p] \notin {"off", "disposed"}
    BY <1>1
  <2>2. Whole(edits', v) /\ v \subseteq doc'[p] /\ doc[p] \subseteq doc'[p]
    BY <1>1, <1>4
  <2> QED BY <1>1, <1>2, <1>4, <1>5, <1>6, <1>7, <2>1, <2>2, Saved
<1>9. budget' \in [Bounded -> Nat]
  BY <1>1, Spent DEF Flush, Bounded
<1>10. Typed'
  BY <1>1, <1>8, <1>9, SameTypes DEF Typed, Flush, wire, server, Entries
<1> QED BY <1>1, <1>2, <1>8, <1>10, OnePage DEF Others

(* The snapshot put holds all that was promised: the log may go.           *)
LEMMA PutSnapshotStep ==
  ASSUME IInv, NEW p \in Pages, PutSnapshot(p)
  PROVE  IInv'
<1> DEFINE s == Head(puts[p])
           w == Deletion(s.tracked)
<1>1. /\ Typed /\ Causal /\ edits' = edits /\ phase' = phase /\ doc' = doc
      /\ Chain(p) /\ Safe(p) /\ Quiet(p) /\ UNCHANGED <<log, given>>
  BY DEF IInv, PutSnapshot, page
<1>2. Grows /\ Causal'
  BY <1>1, SameEdits
<1>3. puts[p] \in Seq(Puts) /\ puts[p] # <<>>
  BY <1>1 DEF Typed, PutSnapshot
<1>4. /\ s \in Puts /\ Tail(puts[p]) \in Seq(Puts) /\ 1 \in DOMAIN puts[p]
      /\ s = puts[p][1]
      /\ \A i \in DOMAIN Tail(puts[p]) :
            i + 1 \in DOMAIN puts[p] /\ Tail(puts[p])[i] = puts[p][i + 1]
  BY <1>3, TailFacts
<1>5. DOMAIN puts[p] \subseteq Nat \ {0} /\ DOMAIN Tail(puts[p]) \subseteq Nat \ {0}
  BY <1>3, <1>4
<1>6. s.ops \in Docs /\ w \in Deletions /\ w.kind = "delete" /\ w.ops = {}
  BY <1>4 DEF Puts, Deletions, Deletion
<1>7. /\ snap' = [snap EXCEPT ![p] = s.ops]
      /\ writes' = [writes EXCEPT ![p] = Append(@, w)]
      /\ settled' = [settled EXCEPT ![p] = @ \cup s.ops]
      /\ puts' = [puts EXCEPT ![p] = Tail(@)]
  BY DEF PutSnapshot, Put
<1>8. writes[p] \in Seq(Appends \cup Deletions) /\ w \in Appends \cup Deletions
  BY <1>1, <1>6 DEF Typed
<1>9. /\ Append(writes[p], w) \in Seq(Appends \cup Deletions)
      /\ \A i \in DOMAIN writes[p] :
           i \in DOMAIN Append(writes[p], w) /\ Append(writes[p], w)[i] = writes[p][i]
      /\ \A i \in DOMAIN Append(writes[p], w) :
           i \in DOMAIN writes[p] \/ Append(writes[p], w)[i] = w
  <2> HIDE DEF w
  <2> QED BY <1>8, AppendFacts
<1>10. /\ snap' \in [Pages -> Docs] /\ settled' \in [Pages -> Docs]
       /\ puts' \in [Pages -> Seq(Puts)]
       /\ writes' \in [Pages -> Seq(Appends \cup Deletions)]
  <2>1. settled[p] \cup s.ops \in Docs
    BY <1>1, <1>6 DEF Typed, Docs
  <2> QED BY <1>1, <1>4, <1>6, <1>7, <1>9, <2>1 DEF Typed
<1>11. /\ snap'[p] = s.ops /\ settled'[p] = settled[p] \cup s.ops
       /\ puts'[p] = Tail(puts[p]) /\ writes'[p] = Append(writes[p], w)
  BY <1>1, <1>7 DEF Typed
<1>12. Promised(p) \subseteq s.ops /\ Promised(p)' \subseteq s.ops
  <2>1. Promised(p) \subseteq s.ops
    BY <1>1, <1>4 DEF Chain
  <2> QED BY <1>1, <1>11, <2>1 DEF Promised
<1>13. Chain(p)'
  <2>1. Whole(edits', s.ops) /\ s.ops \subseteq doc'[p]
    BY <1>1, <1>4 DEF Chain
  <2>2. ASSUME NEW i \in DOMAIN Tail(puts[p])
        PROVE  /\ Whole(edits', Tail(puts[p])[i].ops)
               /\ Tail(puts[p])[i].ops \subseteq doc'[p]
               /\ s.ops \subseteq Tail(puts[p])[i].ops
               /\ \A j \in DOMAIN Tail(puts[p]) :
                    i <= j => Tail(puts[p])[i].ops \subseteq Tail(puts[p])[j].ops
    <3>1. i + 1 \in DOMAIN puts[p] /\ 1 <= i + 1
      BY <1>4, <1>5, <2>2
    <3>2. ASSUME NEW j \in DOMAIN Tail(puts[p]), i <= j
          PROVE  Tail(puts[p])[i].ops \subseteq Tail(puts[p])[j].ops
      <4>1. j + 1 \in DOMAIN puts[p] /\ i + 1 <= j + 1
        BY <1>4, <1>5, <2>2, <3>2
      <4> QED BY <1>1, <1>4, <2>2, <3>1, <3>2, <4>1 DEF Chain
    <3> QED BY <1>1, <1>4, <2>2, <3>1, <3>2 DEF Chain
  <2> QED BY <1>11, <1>12, <2>1, <2>2 DEF Chain
<1>14. Safe(p)'
  <2>1. Promised(p)' \subseteq snap'[p]
    BY <1>11, <1>12
  <2> QED BY <2>1 DEF Safe, Promised
<1>15. Quiet(p)'
  <2>1. p \in Durable /\ phase[p] # "off"
    BY <1>1, <1>3 DEF Quiet
  <2>2. ASSUME phase[p] = "disposed" PROVE Drained(p)'
    <3>1. Drained(p) /\ ~s.tracked
      BY <1>1, <1>4, <2>2 DEF Quiet, Drained
    <3>2. ~w.tracked
      BY <3>1 DEF Deletion
    <3> HIDE DEF s, w
    <3> QED BY <1>4, <1>9, <1>11, <3>1, <3>2 DEF Drained
  <2> QED BY <1>1, <2>1, <2>2 DEF Quiet
<1>16. Typed'
  BY <1>1, <1>10, SameTypes DEF Typed, PutSnapshot, page, wire, server, Entries
<1>17. Others(p)
  BY <1>1, <1>7 DEF Others, Typed
<1> QED BY <1>2, <1>13, <1>14, <1>15, <1>16, <1>17, OnePage

(* What is left of a queue when its first write is done, or has failed.    *)
LEMMA WritesLeft ==
  ASSUME Typed, NEW p \in Pages, writes[p] # <<>>,
         writes' = [writes EXCEPT ![p] = Tail(@)]
  PROVE  /\ writes' \in [Pages -> Seq(Appends \cup Deletions)]
         /\ Head(writes[p]) \in Appends \cup Deletions
         /\ Head(writes[p]).kind = "delete" => Deleting(p)
         /\ Appending(p) \subseteq Head(writes[p]).ops \cup Appending(p)'
         /\ Deleting(p)' => Deleting(p)
         /\ UNCHANGED <<puts, phase>> /\ Quiet(p) => Quiet(p)'
         /\ \A q \in Pages \ {p} : writes'[q] = writes[q]
<1>1. writes[p] \in Seq(Appends \cup Deletions) /\ writes'[p] = Tail(writes[p])
  BY DEF Typed
<1>2. /\ Head(writes[p]) \in Appends \cup Deletions
      /\ Tail(writes[p]) \in Seq(Appends \cup Deletions)
      /\ 1 \in DOMAIN writes[p] /\ Head(writes[p]) = writes[p][1]
      /\ \A i \in DOMAIN Tail(writes[p]) :
            i + 1 \in DOMAIN writes[p] /\ Tail(writes[p])[i] = writes[p][i + 1]
      /\ \A j \in DOMAIN writes[p] :
            j = 1 \/ \E i \in DOMAIN Tail(writes[p]) : Tail(writes[p])[i] = writes[p][j]
  BY <1>1, TailFacts
<1>3. Appending(p) \subseteq Head(writes[p]).ops \cup Appending(p)'
  <2> SUFFICES ASSUME NEW j \in DOMAIN writes[p]
               PROVE  writes[p][j].ops \subseteq Head(writes[p]).ops \cup Appending(p)'
    BY DEF Appending
  <2>1. CASE j = 1
    BY <1>2, <2>1
  <2>2. ASSUME NEW i \in DOMAIN Tail(writes[p]), Tail(writes[p])[i] = writes[p][j]
        PROVE  writes[p][j].ops \subseteq Appending(p)'
    BY <1>1, <2>2 DEF Appending
  <2> QED BY <1>2, <2>1, <2>2
<1>4. Deleting(p)' => Deleting(p)
  BY <1>1, <1>2 DEF Deleting
<1>5. UNCHANGED <<puts, phase>> /\ Quiet(p) => Quiet(p)'
  BY <1>1, <1>2 DEF Quiet, Drained
<1>6. writes' \in [Pages -> Seq(Appends \cup Deletions)]
  BY <1>2 DEF Typed
<1>7. Head(writes[p]).kind = "delete" => Deleting(p)
  BY <1>2 DEF Deleting
<1>8. \A q \in Pages \ {p} : writes'[q] = writes[q]
  BY DEF Typed
<1> QED BY <1>2, <1>3, <1>4, <1>5, <1>6, <1>7, <1>8

LEMMA WriteOpsStep ==
  ASSUME IInv, NEW p \in Pages, WriteOps(p)
  PROVE  IInv'
<1> DEFINE w == Head(writes[p])
<1>1. /\ Typed /\ Causal /\ edits' = edits /\ Chain(p) /\ Safe(p) /\ Quiet(p)
      /\ UNCHANGED <<phase, doc, puts, snap, given>>
  BY DEF IInv, WriteOps
<1>2. Grows /\ Causal'
  BY <1>1, SameEdits
<1>3. writes[p] # <<>> /\ writes' = [writes EXCEPT ![p] = Tail(@)]
  BY DEF WriteOps
<1>4. /\ writes' \in [Pages -> Seq(Appends \cup Deletions)]
      /\ w \in Appends \cup Deletions /\ (w.kind = "delete" => Deleting(p))
      /\ Appending(p) \subseteq w.ops \cup Appending(p)'
      /\ (Deleting(p)' => Deleting(p)) /\ Quiet(p)'
      /\ \A q \in Pages \ {p} : writes'[q] = writes[q]
  BY <1>1, <1>3, WritesLeft
<1>5. CASE w.kind = "append"
  <2>1. w.ops \in Docs
    BY <1>4, <1>5 DEF Appends, Deletions
  <2>2. /\ log' = [log EXCEPT ![p] = @ \cup w.ops]
        /\ settled' = [settled EXCEPT ![p] = IF Flushing(p) THEN @ ELSE @ \cup w.ops]
    BY <1>5 DEF WriteOps
  <2>3. /\ log'[p] = log[p] \cup w.ops
        /\ settled'[p] = IF Flushing(p) THEN settled[p] ELSE settled[p] \cup w.ops
    BY <1>1, <2>2 DEF Typed
  <2>4. log' \in [Pages -> Docs] /\ settled' \in [Pages -> Docs]
    BY <1>1, <2>1, <2>2 DEF Typed, Docs
  <2>5. Chain(p)'
    <3>1. ASSUME NEW i \in DOMAIN puts[p] PROVE Promised(p)' = Promised(p)
      <4>1. Flushing(p)
        BY <3>1 DEF Flushing
      <4> QED BY <1>1, <2>3, <4>1 DEF Promised
    <3> HIDE DEF w
    <3> QED BY <1>1, <3>1 DEF Chain
  <2>6. Safe(p)'
    <3>1. Deleting(p) => settled'[p] = settled[p]
      BY <2>3 DEF Deleting, Flushing
    <3> HIDE DEF w
    <3> QED BY <1>1, <1>4, <2>3, <3>1 DEF Safe, Promised
  <2>7. Others(p)
    BY <1>1, <1>4, <2>2 DEF Others, Typed
  <2>8. Typed'
    BY <1>1, <1>4, <2>4, SameTypes DEF Typed, WriteOps, wire, server, Entries
  <2> QED BY <1>2, <1>4, <2>5, <2>6, <2>7, <2>8, OnePage
<1>6. CASE w.kind # "append"
  <2>1. log' = [log EXCEPT ![p] = {}] /\ settled' = settled
    BY <1>6 DEF WriteOps, Put
  <2>2. w.kind = "delete" /\ w.ops = {}
    BY <1>4, <1>6 DEF Appends, Deletions
  <2>3. Promised(p) \subseteq snap[p]
    BY <1>1, <1>4, <2>2 DEF Safe
  <2>4. Promised(p)' \subseteq snap'[p] /\ Promised(p)' = Promised(p)
    BY <1>1, <2>1, <2>3 DEF Promised
  <2>5. Chain(p)' /\ Safe(p)'
    BY <1>1, <2>4 DEF Chain, Safe, Promised
  <2>6. log' \in [Pages -> Docs]
    BY <1>1, <2>1 DEF Typed, Docs
  <2>7. Others(p)
    BY <1>1, <1>4, <2>1 DEF Others, Typed
  <2>8. Typed'
    BY <1>1, <1>4, <2>1, <2>6, SameTypes DEF Typed, WriteOps, wire, server, Entries
  <2> QED BY <1>2, <1>4, <2>5, <2>7, <2>8, OnePage
<1> QED BY <1>5, <1>6

(* A write that fails takes back the promise the page had made itself of.  *)
LEMMA FailWriteStep ==
  ASSUME IInv, NEW p \in Pages, FailWrite(p)
  PROVE  IInv'
<1>1. /\ Typed /\ Causal /\ edits' = edits /\ Chain(p) /\ Safe(p) /\ Quiet(p)
      /\ UNCHANGED <<phase, doc, snap, log, settled>>
  BY DEF IInv, FailWrite, page
<1>2. Grows /\ Causal' /\ budget' \in [Bounded -> Nat]
  BY <1>1, SameEdits, Spent DEF FailWrite, Bounded
<1>3. CASE /\ puts[p] # <<>> /\ puts' = [puts EXCEPT ![p] = Tail(@)]
           /\ UNCHANGED <<writes, given>>
  <2>1. puts[p] \in Seq(Puts) /\ puts'[p] = Tail(puts[p])
    BY <1>1, <1>3 DEF Typed
  <2>2. /\ Tail(puts[p]) \in Seq(Puts)
        /\ \A i \in DOMAIN Tail(puts[p]) :
              i + 1 \in DOMAIN puts[p] /\ Tail(puts[p])[i] = puts[p][i + 1]
    BY <1>3, <2>1, TailFacts
  <2>3. DOMAIN Tail(puts[p]) \subseteq Nat
    BY <2>2
  <2>4. Chain(p)'
    <3>1. ASSUME NEW i \in DOMAIN Tail(puts[p]), NEW j \in DOMAIN Tail(puts[p]), i <= j
          PROVE  Tail(puts[p])[i].ops \subseteq Tail(puts[p])[j].ops
      <4>1. i + 1 <= j + 1
        BY <2>3, <3>1
      <4> QED BY <1>1, <2>2, <3>1, <4>1 DEF Chain
    <3> QED BY <1>1, <1>3, <2>1, <2>2, <3>1 DEF Chain, Promised
  <2>5. Safe(p)'
    BY <1>1, <1>3 DEF Safe, Promised, Appending, Deleting
  <2>6. Quiet(p)'
    BY <1>1, <1>3, <2>1, <2>2 DEF Quiet, Drained
  <2>7. puts' \in [Pages -> Seq(Puts)]
    BY <1>1, <1>3, <2>2 DEF Typed
  <2>8. Typed'
    BY <1>1, <1>2, <1>3, <2>7, SameTypes
       DEF Typed, FailWrite, page, wire, server, Entries
  <2>9. Others(p)
    BY <1>1, <1>3 DEF Others, Typed
  <2> QED BY <1>2, <2>4, <2>5, <2>6, <2>8, <2>9, OnePage
<1>4. CASE /\ writes[p] # <<>> /\ writes' = [writes EXCEPT ![p] = Tail(@)]
           /\ given' = [given EXCEPT ![p] = @ \ Head(writes[p]).ops]
           /\ UNCHANGED puts
  <2>1. /\ writes' \in [Pages -> Seq(Appends \cup Deletions)]
        /\ Appending(p) \subseteq Head(writes[p]).ops \cup Appending(p)'
        /\ (Deleting(p)' => Deleting(p)) /\ Quiet(p)'
        /\ \A q \in Pages \ {p} : writes'[q] = writes[q]
    BY <1>1, <1>4, WritesLeft
  <2>2. given'[p] = given[p] \ Head(writes[p]).ops /\ given' \in [Pages -> Docs]
    BY <1>1, <1>4 DEF Typed, Docs
  <2>3. Chain(p)'
    BY <1>1, <1>4, <2>2 DEF Chain, Promised
  <2>4. Safe(p)'
    BY <1>1, <2>1, <2>2 DEF Safe, Promised
  <2>5. Typed'
    BY <1>1, <1>2, <1>4, <2>1, <2>2, SameTypes
       DEF Typed, FailWrite, page, wire, server, Entries
  <2>6. Others(p)
    BY <1>1, <1>4, <2>1 DEF Others, Typed
  <2> QED BY <1>2, <2>1, <2>3, <2>4, <2>5, <2>6, OnePage
<1> QED BY <1>3, <1>4 DEF FailWrite

(* The end of a put is followed by the deletion of the op log, so what is  *)
(* still promised then is what the stored snapshot holds.                  *)
LEMMA AbortPutStep ==
  ASSUME IInv, NEW p \in Pages, AbortWrite(p), puts[p] # <<>>,
         puts' = [puts EXCEPT ![p] = Tail(@)],
         writes' = [writes EXCEPT ![p] = Append(@, Deletion(Head(puts[p]).tracked))],
         given' = [given EXCEPT ![p] = @ \cap snap[p]],
         settled' = [settled EXCEPT ![p] = @ \cap snap[p]]
  PROVE  IInv'
<1> DEFINE s == Head(puts[p])
           w == Deletion(s.tracked)
<1>1. /\ Typed /\ Causal /\ edits' = edits /\ Chain(p) /\ Safe(p) /\ Quiet(p)
      /\ UNCHANGED <<phase, doc, snap, log>>
  BY DEF IInv, AbortWrite
<1>2. Grows /\ Causal' /\ budget' \in [Bounded -> Nat]
  BY <1>1, SameEdits, Spent DEF AbortWrite, Bounded
<1>3. puts[p] \in Seq(Puts)
  BY <1>1 DEF Typed
<1>4. /\ s \in Puts /\ Tail(puts[p]) \in Seq(Puts) /\ 1 \in DOMAIN puts[p]
      /\ s = puts[p][1]
      /\ \A i \in DOMAIN Tail(puts[p]) :
            i + 1 \in DOMAIN puts[p] /\ Tail(puts[p])[i] = puts[p][i + 1]
  BY <1>3, TailFacts
<1>5. DOMAIN Tail(puts[p]) \subseteq Nat
  BY <1>4
<1>6. w \in Appends \cup Deletions
  BY <1>4 DEF Puts, Deletions, Deletion
<1>7. writes[p] \in Seq(Appends \cup Deletions)
  BY <1>1 DEF Typed
<1>8. /\ Append(writes[p], w) \in Seq(Appends \cup Deletions)
      /\ \A i \in DOMAIN Append(writes[p], w) :
           \/ i \in DOMAIN writes[p] /\ Append(writes[p], w)[i] = writes[p][i]
           \/ Append(writes[p], w)[i] = w
  <2> HIDE DEF w
  <2> QED BY <1>6, <1>7, AppendFacts
<1>9. /\ puts'[p] = Tail(puts[p]) /\ writes'[p] = Append(writes[p], w)
      /\ Promised(p)' = Promised(p) \cap snap[p]
  BY <1>1 DEF Typed, Promised
<1>10. Chain(p)'
  <2>1. ASSUME NEW i \in DOMAIN Tail(puts[p]), NEW j \in DOMAIN Tail(puts[p]), i <= j
        PROVE  Tail(puts[p])[i].ops \subseteq Tail(puts[p])[j].ops
    <3>1. i + 1 <= j + 1
      BY <1>5, <2>1
    <3> QED BY <1>1, <1>4, <2>1, <3>1 DEF Chain
  <2> QED BY <1>1, <1>4, <1>9, <2>1 DEF Chain
<1>11. Safe(p)'
  <2>1. Promised(p)' \subseteq snap'[p]
    BY <1>1, <1>9
  <2> QED BY <2>1 DEF Safe, Promised
<1>12. Quiet(p)'
  <2>1. p \in Durable /\ phase[p] # "off"
    BY <1>1 DEF Quiet
  <2>2. ASSUME phase[p] = "disposed" PROVE Drained(p)'
    <3>1. Drained(p) /\ ~s.tracked
      BY <1>1, <1>4, <2>2 DEF Quiet, Drained
    <3>2. ~w.tracked
      BY <3>1 DEF Deletion
    <3> HIDE DEF s, w
    <3> QED BY <1>4, <1>8, <1>9, <3>1, <3>2 DEF Drained
  <2> QED BY <1>1, <2>1, <2>2 DEF Quiet
<1>13. /\ puts' \in [Pages -> Seq(Puts)]
       /\ writes' \in [Pages -> Seq(Appends \cup Deletions)]
       /\ given' \in [Pages -> Docs] /\ settled' \in [Pages -> Docs]
  <2>1. given[p] \cap snap[p] \in Docs /\ settled[p] \cap snap[p] \in Docs
    BY <1>1 DEF Typed, Docs
  <2> QED BY <1>1, <1>4, <1>8, <2>1 DEF Typed
<1>14. Typed'
  BY <1>1, <1>2, <1>13, SameTypes DEF Typed, AbortWrite, wire, server, Entries
<1>15. Others(p)
  BY <1>1 DEF Others, Typed
<1> QED BY <1>2, <1>10, <1>11, <1>12, <1>14, <1>15, OnePage

LEMMA AbortWriteStep ==
  ASSUME IInv, NEW p \in Pages, AbortWrite(p)
  PROVE  IInv'
<1>1. /\ Typed /\ Causal /\ edits' = edits /\ Chain(p) /\ Safe(p) /\ Quiet(p)
      /\ UNCHANGED <<phase, doc, snap, log>>
  BY DEF IInv, AbortWrite
<1>2. Grows /\ Causal' /\ budget' \in [Bounded -> Nat]
  BY <1>1, SameEdits, Spent DEF AbortWrite, Bounded
<1>3. CASE /\ writes[p] # <<>> /\ writes' = [writes EXCEPT ![p] = Tail(@)]
           /\ given' = [given EXCEPT ![p] = @ \ Head(writes[p]).ops]
           /\ UNCHANGED <<puts, settled>>
  <2>1. /\ writes' \in [Pages -> Seq(Appends \cup Deletions)]
        /\ Appending(p) \subseteq Head(writes[p]).ops \cup Appending(p)'
        /\ (Deleting(p)' => Deleting(p)) /\ Quiet(p)'
        /\ \A q \in Pages \ {p} : writes'[q] = writes[q]
    BY <1>1, <1>3, WritesLeft
  <2>2. given'[p] = given[p] \ Head(writes[p]).ops /\ given' \in [Pages -> Docs]
    BY <1>1, <1>3 DEF Typed, Docs
  <2>3. Chain(p)'
    BY <1>1, <1>3, <2>2 DEF Chain, Promised
  <2>4. Safe(p)'
    BY <1>1, <1>3, <2>1, <2>2 DEF Safe, Promised
  <2>5. Typed'
    BY <1>1, <1>2, <1>3, <2>1, <2>2, SameTypes
       DEF Typed, AbortWrite, wire, server, Entries
  <2>6. Others(p)
    BY <1>1, <1>3, <2>1 DEF Others, Typed
  <2> QED BY <1>2, <2>1, <2>3, <2>4, <2>5, <2>6, OnePage
<1> QED BY <1>3, AbortPutStep DEF AbortWrite

(* A page opens on its snapshot, and then replays its op log.              *)
LEMMA LoadStep ==
  ASSUME IInv, NEW p \in Pages, Open(p) \/ LoadOps(p)
  PROVE  IInv'
<1>1. /\ Typed /\ Causal /\ edits' = edits
      /\ UNCHANGED <<agent, wire, disk, server, budget, given, settled>>
  BY DEF IInv, Open, LoadOps, history
<1>2. Grows /\ Causal'
  BY <1>1, SameEdits
<1>3. /\ phase'[p] \in {"loading", "connecting", "live"} /\ snap[p] \subseteq doc'[p]
      /\ phase[p] # "off" => doc[p] \subseteq doc'[p]
      /\ doc' \in [Pages -> Docs] /\ phase' \in [Pages -> Phases]
      /\ \A q \in Pages \ {p} : phase'[q] = phase[q] /\ doc'[q] = doc[q]
  <2>1. CASE Open(p)
    BY <1>1, <2>1 DEF Open, Put, Typed, Phases
  <2>2. CASE LoadOps(p)
    <3>1. snap[p] \subseteq doc[p] /\ doc[p] \cup log[p] \in Docs
      BY <1>1, <2>2 DEF IInv, Chain, LoadOps, Typed, Docs
    <3>2. /\ doc' = [doc EXCEPT ![p] = doc[p] \cup log[p]]
          /\ \E x \in {"connecting", "live"} : phase' = [phase EXCEPT ![p] = x]
      BY <2>2 DEF LoadOps, Put
    <3>3. doc \in [Pages -> Docs] /\ phase \in [Pages -> Phases]
      BY <1>1 DEF Typed
    <3> QED BY <3>1, <3>2, <3>3 DEF Phases
  <2> QED BY <2>1, <2>2
<1>4. Typed'
  BY <1>1, <1>3, SameTypes DEF Typed, wire, disk, server, Entries
<1>5. \A q \in Pages : phase[q] # "off" => snap[q] \subseteq doc[q]
  BY DEF IInv, Chain
<1> QED BY <1>1, <1>2, <1>3, <1>4, <1>5, Aside DEF IInv

(* The documents, their stores and the edits are as they were, and nobody  *)
(* has begun or ended a visit: what the network does.                      *)
LEMMA NetworkStep ==
  ASSUME IInv, UNCHANGED <<edits, doc, agent, disk, given, settled>>,
         room' \in Docs, kept' \in Docs,
         up' \in [Pages -> Seq(Docs)], down' \in [Pages -> Seq(Docs)],
         phase' \in [Pages -> Phases], budget' \in [Bounded -> Nat],
         \A q \in Pages :
            /\ phase'[q] = "off" <=> phase[q] = "off"
            /\ phase'[q] = "disposed" => phase[q] = "disposed" \/ Drained(q)
  PROVE  IInv'
<1>1. Typed /\ Causal /\ Grows /\ Causal'
  BY SameEdits DEF IInv
<1>2. Typed'
  BY <1>1, SameTypes DEF Typed, disk, Entries
<1>3. \A q \in Pages : phase[q] # "off" => snap[q] \subseteq doc[q]
  BY DEF IInv, Chain
<1> QED BY <1>1, <1>2, <1>3, Aside

LEMMA ConnectStep ==
  ASSUME IInv, NEW p \in Pages, Connect(p)
  PROVE  IInv'
<1>1. Typed /\ UNCHANGED <<edits, doc, agent, disk, server, budget, given, settled>>
  BY DEF IInv, Connect, history
<1>2. CatchUpFrames \in Seq(Docs)
  <2>1. Visible(edits, room) \in Docs
    BY <1>1 DEF Typed, Docs, Visible
  <2> QED BY <2>1 DEF CatchUpFrames
<1>3. PushFullState(p) \in Seq(Docs)
  <2>1. Visible(edits, doc[p]) \in Docs
    BY <1>1 DEF Typed, Docs, Visible
  <2> QED BY <2>1 DEF PushFullState
<1>4. up' \in [Pages -> Seq(Docs)] /\ down' \in [Pages -> Seq(Docs)]
  BY <1>1, <1>2, <1>3 DEF Connect, Put, Typed
<1>5. phase' = phase \/ (phase[p] = "connecting" /\ phase' = [phase EXCEPT ![p] = "live"])
  BY DEF Connect, Put
<1>6. phase' \in [Pages -> Phases]
  BY <1>1, <1>5 DEF Typed, Phases
<1>7. \A q \in Pages : /\ phase'[q] = "off" <=> phase[q] = "off"
                       /\ phase'[q] = "disposed" => phase[q] = "disposed"
  BY <1>1, <1>5 DEF Typed
<1> QED BY <1>1, <1>4, <1>6, <1>7, NetworkStep DEF server, Typed

LEMMA ClosedStep ==
  ASSUME IInv, NEW p \in Pages,
         DialFails(p) \/ DropSocket(p) \/ Redial(p) \/ Hangup(p)
  PROVE  IInv'
<1>1. Typed /\ UNCHANGED <<edits, doc, agent, disk, server, given, settled>>
  BY DEF IInv, DialFails, DropSocket, Redial, Hangup, history, page
<1>2. budget' \in [Bounded -> Nat]
  BY <1>1, Spent DEF DialFails, DropSocket, Redial, Hangup, Typed, Bounded
<1>3. up' \in [Pages -> Seq(Docs)] /\ down' \in [Pages -> Seq(Docs)]
  <2>1. CASE Closed(p)
    BY <1>1, <2>1 DEF Closed, Put, Typed
  <2>2. CASE UNCHANGED wire
    BY <1>1, <2>2 DEF wire, Typed
  <2> QED BY <2>1, <2>2 DEF DialFails, DropSocket, Redial, Hangup
<1>4. phase' = phase \/ (phase[p] = "connecting" /\ phase' = [phase EXCEPT ![p] = "failed"])
  BY DEF DialFails, DropSocket, Redial, Hangup, page, Put
<1>5. phase' \in [Pages -> Phases]
  BY <1>1, <1>4 DEF Typed, Phases
<1>6. \A q \in Pages : /\ phase'[q] = "off" <=> phase[q] = "off"
                       /\ phase'[q] = "disposed" => phase[q] = "disposed"
  BY <1>1, <1>4 DEF Typed
<1> QED BY <1>1, <1>2, <1>3, <1>5, <1>6, NetworkStep DEF server, Typed

LEMMA ReceiveFrameStep ==
  ASSUME IInv, NEW p \in Pages, ReceiveFrame(p)
  PROVE  IInv'
<1> DEFINE f == Head(up[p])
<1>1. /\ Typed /\ UNCHANGED <<edits, doc, agent, disk, given, settled>>
      /\ UNCHANGED <<phase, kept, budget>>
  BY DEF IInv, ReceiveFrame, history, page
<1>2. up[p] \in Seq(Docs) /\ up[p] # <<>>
  BY <1>1 DEF Typed, ReceiveFrame
<1>3. f \in Docs /\ Tail(up[p]) \in Seq(Docs)
  BY <1>2, TailFacts
<1>4. up' \in [Pages -> Seq(Docs)]
  BY <1>1, <1>3 DEF Typed, ReceiveFrame
<1>5. \A q \in Pages : Append(down[q], f) \in Seq(Docs) /\ down[q] \in Seq(Docs)
  BY <1>1, <1>3, AppendFacts DEF Typed
<1>6. down' \in [Pages -> Seq(Docs)]
  BY <1>5 DEF ReceiveFrame
<1>7. room' \in Docs
  BY <1>1, <1>3 DEF Typed, ReceiveFrame, Docs
<1> QED BY <1>1, <1>4, <1>6, <1>7, NetworkStep DEF Typed

LEMMA KeepStep ==
  ASSUME IInv, Keep
  PROVE  IInv'
<1>1. /\ Typed /\ UNCHANGED <<edits, doc, agent, disk, given, settled>>
      /\ UNCHANGED <<phase, wire, room, budget>>
  BY DEF IInv, Keep, history, page
<1>2. kept' \in Docs
  BY <1>1 DEF Typed, Keep, Docs, Visible
<1> QED BY <1>1, <1>2, NetworkStep DEF Typed, wire

LEMMA RestartStep ==
  ASSUME IInv, Restart
  PROVE  IInv'
<1>1. /\ Typed /\ UNCHANGED <<edits, doc, agent, disk, given, settled>>
      /\ kept' = kept /\ room' = kept
  BY DEF IInv, Restart, history
<1>2. budget' \in [Bounded -> Nat]
  BY <1>1, Spent DEF Restart, Bounded
<1>3. up' \in [Pages -> Seq(Docs)] /\ down' \in [Pages -> Seq(Docs)]
  BY DEF Restart
<1>4. /\ phase' \in [Pages -> Phases]
      /\ \A q \in Pages : /\ phase'[q] = "off" <=> phase[q] = "off"
                          /\ phase'[q] = "disposed" => phase[q] = "disposed"
  BY <1>1 DEF Restart, Typed, Phases
<1> QED BY <1>1, <1>2, <1>3, <1>4, NetworkStep DEF Typed

LEMMA UnlinkStep ==
  ASSUME IInv, NEW p \in Pages, Unlink(p)
  PROVE  IInv'
<1>1. /\ Typed /\ UNCHANGED <<edits, doc, agent, disk, given, settled>>
      /\ UNCHANGED <<phase, wire, server, budget>>
  BY DEF IInv, Unlink, history
<1> QED BY <1>1, NetworkStep DEF Typed, wire, server

(* dispose begins, and disconnects once nothing tracked is pending.        *)
LEMMA DisposeStep ==
  ASSUME IInv, NEW p \in Pages, Dispose(p) \/ Disconnect(p)
  PROVE  IInv'
<1>1. /\ Typed /\ UNCHANGED <<edits, doc, agent, disk, given, settled>>
      /\ UNCHANGED <<wire, server>>
  BY DEF IInv, Dispose, Disconnect, history
<1>2. budget' \in [Bounded -> Nat]
  BY <1>1, Spent DEF Dispose, Disconnect, Typed, Bounded
<1>3. \/ phase[p] = "live" /\ phase' = [phase EXCEPT ![p] = "draining"]
      \/ /\ phase[p] = "draining" /\ Drained(p)
         /\ phase' = [phase EXCEPT ![p] = "disposed"]
  BY DEF Dispose, Disconnect, Put
<1>4. /\ phase' \in [Pages -> Phases]
      /\ \A q \in Pages : /\ phase'[q] = "off" <=> phase[q] = "off"
                          /\ phase'[q] = "disposed" => phase[q] = "disposed" \/ Drained(q)
  BY <1>1, <1>3 DEF Typed, Phases
<1> QED BY <1>1, <1>2, <1>4, NetworkStep DEF Typed, wire, server

(* A page that goes loses its queues; one that was disposed of had nothing *)
(* in them that it had promised.                                           *)
LEMMA LeaveStep ==
  ASSUME IInv, NEW p \in Pages, Leave(p)
  PROVE  IInv'
<1>1. /\ Typed /\ Causal /\ edits' = edits /\ Chain(p) /\ Safe(p) /\ Quiet(p)
      /\ UNCHANGED server
  BY DEF IInv, Leave
<1>2. Grows /\ Causal' /\ budget' \in [Bounded -> Nat] /\ {} \in Docs
  BY <1>1, SameEdits, Spent DEF Leave, Bounded, Docs
<1>3. /\ phase' = [phase EXCEPT ![p] = "off"] /\ doc' = [doc EXCEPT ![p] = {}]
      /\ agent' = [agent EXCEPT ![p] = {}]
      /\ up' = [up EXCEPT ![p] = <<>>] /\ down' = [down EXCEPT ![p] = <<>>]
      /\ puts' = [puts EXCEPT ![p] = <<>>] /\ writes' = [writes EXCEPT ![p] = <<>>]
  BY DEF Leave, Put
<1>4. /\ phase' \in [Pages -> Phases] /\ doc' \in [Pages -> Docs]
      /\ agent' \in [Pages -> Docs]
      /\ up' \in [Pages -> Seq(Docs)] /\ down' \in [Pages -> Seq(Docs)]
      /\ puts' \in [Pages -> Seq(Puts)]
      /\ writes' \in [Pages -> Seq(Appends \cup Deletions)]
  BY <1>1, <1>2, <1>3 DEF Typed, Phases
<1>5. phase'[p] = "off" /\ puts'[p] = <<>> /\ writes'[p] = <<>>
  BY <1>1, <1>3 DEF Typed
<1>6. CASE p \in Durable
  <2>1. /\ UNCHANGED <<snap, log, settled>>
        /\ given' = [given EXCEPT ![p] = IF phase[p] = "disposed" THEN given[p]
                                         ELSE given[p] \cap Stored(p)]
    BY <1>6 DEF Leave, Put
  <2>2. given'[p] \subseteq given[p] /\ given' \in [Pages -> Docs]
    BY <1>1, <2>1 DEF Typed, Docs
  <2>3. given'[p] \subseteq Stored(p)
    <3>1. CASE phase[p] = "disposed"
      <4>1. ASSUME NEW i \in DOMAIN writes[p] PROVE writes[p][i].ops = {}
        <5>1. writes[p][i] \in Appends \cup Deletions
          BY <1>1, <4>1, QueuedTypes
        <5>2. ~writes[p][i].tracked
          BY <1>1, <3>1, <4>1 DEF Quiet, Drained
        <5> QED BY <5>1, <5>2 DEF Appends, Deletions
      <4>2. Appending(p) = {}
        BY <4>1 DEF Appending
      <4> QED BY <1>1, <2>2, <4>2 DEF Safe, Stored
    <3>2. CASE phase[p] # "disposed"
      BY <1>1, <2>1, <3>2 DEF Typed
    <3> QED BY <3>1, <3>2
  <2>4. Chain(p)' /\ Quiet(p)'
    BY <1>1, <1>5, <2>1 DEF Chain, Quiet
  <2>5. Safe(p)'
    BY <1>1, <1>5, <2>1, <2>3 DEF Safe, Stored, Deleting
  <2>6. Others(p)
    BY <1>1, <1>3, <2>1 DEF Others, Typed
  <2>7. Typed'
    BY <1>1, <1>2, <1>4, <2>1, <2>2, SameTypes DEF Typed, server, Entries
  <2> QED BY <1>2, <2>4, <2>5, <2>6, <2>7, OnePage
<1>7. CASE p \notin Durable
  <2>1. /\ given' = [given EXCEPT ![p] = {}] /\ settled' = [settled EXCEPT ![p] = {}]
        /\ snap' = [snap EXCEPT ![p] = {}] /\ log' = [log EXCEPT ![p] = {}]
    BY <1>7 DEF Leave, Put
  <2>2. /\ given' \in [Pages -> Docs] /\ settled' \in [Pages -> Docs]
        /\ snap' \in [Pages -> Docs] /\ log' \in [Pages -> Docs]
        /\ given'[p] = {} /\ settled'[p] = {} /\ snap'[p] = {}
    BY <1>1, <1>2, <2>1 DEF Typed
  <2>3. Chain(p)' /\ Safe(p)' /\ Quiet(p)'
    BY <1>5, <2>2 DEF Chain, Safe, Quiet, Whole, Promised
  <2>4. Others(p)
    BY <1>1, <1>3, <2>1 DEF Others, Typed
  <2>5. Typed'
    BY <1>1, <1>2, <1>4, <2>2, SameTypes DEF Typed, server, Entries
  <2> QED BY <1>2, <2>3, <2>4, <2>5, OnePage
<1> QED BY <1>6, <1>7

-----------------------------------------------------------------------------
LEMMA InvInit == Init => IInv
<1> SUFFICES ASSUME Init PROVE IInv
  OBVIOUS
<1>1. {} \in Docs /\ edits = <<>> /\ Known = {}
  BY DEF Docs, Init, Known
<1>2. budget \in [Bounded -> Nat]
  BY WeaverSyncAssumption DEF WeaverSyncAssumption, Init
<1>3. Typed
  BY <1>1, <1>2 DEF Init, Typed, Phases
<1>4. Causal
  BY <1>1 DEF Causal
<1>5. ASSUME NEW p \in Pages PROVE Chain(p) /\ Safe(p) /\ Quiet(p)
  BY <1>5 DEF Init, Chain, Safe, Quiet, Whole, Promised, Appending, Deleting
<1> QED BY <1>3, <1>4, <1>5 DEF IInv

LEMMA InvStep == IInv /\ [Next]_vars => IInv'
<1> SUFFICES ASSUME IInv, [Next]_vars PROVE IInv'
  OBVIOUS
<1>1. CASE UNCHANGED vars
  <2>1. /\ UNCHANGED <<edits, doc, agent, disk, given, settled>>
        /\ UNCHANGED <<phase, wire, server, budget>>
    BY <1>1 DEF vars, page, history
  <2> QED BY <2>1, NetworkStep DEF IInv, Typed, wire, server
<1>2. ASSUME NEW p \in Pages,
             \/ Open(p) \/ LoadOps(p) \/ Edit(p) \/ AgentEdit(p) \/ Link(p)
             \/ Unlink(p) \/ Flush(p) \/ PutSnapshot(p) \/ WriteOps(p)
      PROVE  IInv'
  BY <1>2, LoadStep, EditStep, AgentEditStep, LinkStep, UnlinkStep, FlushStep,
     PutSnapshotStep, WriteOpsStep
<1>3. ASSUME NEW p \in Pages,
             \/ FailWrite(p) \/ AbortWrite(p) \/ Connect(p) \/ DialFails(p)
             \/ DropSocket(p) \/ Redial(p) \/ Hangup(p) \/ Receive(p) \/ ReceiveFrame(p)
             \/ Dispose(p) \/ Disconnect(p) \/ Leave(p)
      PROVE  IInv'
  BY <1>3, FailWriteStep, AbortWriteStep, ConnectStep, ClosedStep, ReceiveStep,
     ReceiveFrameStep, DisposeStep, LeaveStep
<1> QED BY <1>1, <1>2, <1>3, KeepStep, RestartStep DEF Next

(* What every page's store, document and queues satisfy in every           *)
(* behaviour, also when transactions abort after their requests succeeded: *)
(* the snapshots of a page form a chain, and each holds what was still     *)
(* promised when it was taken.                                             *)
THEOREM Invariance == Spec => []IInv
<1> QED BY InvInit, InvStep, PTL DEF Spec

(* A store keeps what it took: what it committed stays in it, whoever      *)
(* crashes when, and what a page gave it is there or on its way, also when *)
(* the page is disposed of, however flushes, appends and failures meet.    *)
(* What a flush under way or an aborted put may take is not promised.      *)
THEOREM NothingTakenIsLost == Spec => []StoresKeep
<1>1. IInv => StoresKeep
  <2> SUFFICES ASSUME IInv, NEW p \in Pages
               PROVE  /\ settled[p] \subseteq Stored(p)
                      /\ given[p] \subseteq Stored(p) \cup Queued(p)
    BY DEF StoresKeep
  <2>1. Safe(p)
    BY DEF IInv
  <2>2. Appending(p) \subseteq Queued(p)
    BY DEF Appending, Queued
  <2> QED BY <2>1, <2>2 DEF Safe, Stored
<1> QED BY <1>1, Invariance, PTL
-----------------------------------------------------------------------------
(* The wire.  That nobody waits for a missing edit, and that no page sends *)
(* back what it heard, have one argument: frames reach the room, and each  *)
(* page, in an order in which every edit comes after those it was made on, *)
(* because a frame carries what the page shows beyond its watermark, and   *)
(* the watermark is, after every callback, exactly what the page shows.    *)

(* Edits that page p and its agent have made, on any visit.                *)
Own(p) == {o \in Known : edits[o].peer[1] = p}
Shown(p) == Visible(edits, doc[p])

(* What frames carry, and frames none of which waits for an edit that is   *)
(* neither in base nor in it or a frame before it.                         *)
Carried(s) == UNION {s[i] : i \in DOMAIN s}
InOrder(E, base, s) ==
  \A i \in DOMAIN s : \A o \in s[i] : \A d \in E[o].deps :
    d \in base \/ \E j \in DOMAIN s : j <= i /\ d \in s[j]

TypedWire ==
  /\ phase \in [Pages -> Phases]
  /\ sock \in [Pages -> {"none", "dialing", "open", "closing"}]
  /\ timer \in [Pages -> BOOLEAN] /\ ever \in [Pages -> BOOLEAN]
  /\ mark \in [Pages -> Docs] /\ heard \in [Pages -> Docs]

(* An edit is made on all that its peer has made before, which the         *)
(* document of that peer shows as long as the peer may make another.       *)
Peers ==
  /\ \A o, x \in Known :
        edits[o].peer = edits[x].peer /\ o < x => o \in edits[x].deps
  /\ \A o \in Known : edits[o].peer[3] >= budget["leaves"]
  /\ \A o \in Known, p \in Pages :
        /\ edits[o].peer = Peer(p, "user") => o \in Shown(p)
        /\ edits[o].peer = Peer(p, "agent") => o \in agent[p]

(* The room and the snapshot kept of it wait for nothing.                  *)
RoomWhole ==
  /\ Whole(edits, room) /\ Whole(edits, kept)
  /\ ~hasContent => room = {}

(* Until its first connection a bridge is dialling at most once.           *)
Fresh(p) ==
  /\ phase[p] \in {"off", "loading", "failed"} => sock[p] = "none"
  /\ phase[p] = "connecting" => sock[p] = "dialing"
  /\ phase[p] \in {"off", "loading", "connecting", "failed"} =>
        ~timer[p] /\ ~ever[p]

(* Only its own edits wait in a page, as its op log holds no other; what   *)
(* the page shows is what its watermark covers, and all it heard.          *)
Settled(p) ==
  /\ Whole(edits, agent[p]) /\ agent[p] \subseteq Shown(p) \cup Own(p)
  /\ doc[p] \ Shown(p) \subseteq Own(p)
  /\ log[p] \cup Appending(p) \subseteq Own(p)
  /\ phase[p] = "off" => doc[p] = {} /\ agent[p] = {}
  /\ Fresh(p)
  /\ heard[p] \subseteq Shown(p)
  /\ phase[p] \in Subscribed => mark[p] = Shown(p)

(* What is on the wire of a page, each way, waits for nothing that has not *)
(* arrived, and nothing is missing from it.                                *)
Upward(p) ==
  /\ InOrder(edits, room, up[p])
  /\ phase[p] = "live" /\ sock[p] \in {"open", "closing"} =>
        Carried(up[p]) \subseteq Shown(p)
  /\ phase[p] = "live" /\ sock[p] = "open" =>
        Shown(p) \subseteq room \cup Carried(up[p])
Downward(p) ==
  phase[p] = "live" /\ sock[p] \in {"open", "closing"} =>
    /\ InOrder(edits, Shown(p), down[p])
    /\ Carried(down[p]) \subseteq room
    /\ room \subseteq Shown(p) \cup Carried(down[p])

WireInv ==
  /\ TypedWire /\ Peers /\ RoomWhole
  /\ \A p \in Pages : Settled(p) /\ Upward(p) /\ Downward(p)

Echo == \A p \in Pages :
  Len(up'[p]) = Len(up[p]) + 1 /\ sock[p] = "open" =>
    Last(up'[p]) \cap heard'[p] = {}

(* What a document shows is settled when it is imported: later edits do    *)
(* not hide it.                                                            *)
LEMMA ShownSame ==
  ASSUME Grows, NEW h \in Docs
  PROVE  Visible(edits', h) = Visible(edits, h)
  BY DEF Grows, Docs, Visible

LEMMA ShownGrows ==
  ASSUME Grows, NEW h \in Docs, NEW g, h \subseteq g
  PROVE  Visible(edits, h) \subseteq Visible(edits', g)
  BY DEF Grows, Docs, Visible

LEMMA OwnGrows ==
  ASSUME Grows, NEW p
  PROVE  Own(p) \subseteq Own(p)'
  BY DEF Grows, Own

LEMMA ShownFacts ==
  ASSUME Typed, Causal, NEW p \in Pages
  PROVE  /\ doc[p] \in Docs /\ Shown(p) \in Docs /\ Shown(p) \subseteq doc[p]
         /\ Whole(edits, Shown(p))
<1>1. doc[p] \in Docs
  BY DEF Typed
<1>2. \A o \in doc[p] : Whole(edits, edits[o].deps)
  BY <1>1 DEF Causal, Docs
<1> QED BY <1>1, <1>2, VisibleWhole DEF Shown, Docs

(* An order of frames is not disturbed by edits made later, nor by what    *)
(* else arrives.                                                           *)
LEMMA OrderStays ==
  ASSUME NEW E, NEW F, NEW s, \A o \in Carried(s) : F[o] = E[o],
         NEW base, NEW more, base \subseteq more, InOrder(E, base, s)
  PROVE  InOrder(F, more, s)
<1>1. \A i \in DOMAIN s : \A o \in s[i] : F[o] = E[o]
  BY DEF Carried
<1> QED BY <1>1 DEF InOrder

(* A frame appended that waits for nothing beyond what has been carried.   *)
LEMMA OrderAppended ==
  ASSUME NEW E, NEW S, NEW s \in Seq(S), NEW f \in S, NEW base, InOrder(E, base, s),
         \A o \in f : E[o].deps \subseteq base \cup Carried(s) \cup f
  PROVE  InOrder(E, base, Append(s, f)) /\ Carried(Append(s, f)) = Carried(s) \cup f
<1> DEFINE t == Append(s, f)
<1>1. /\ \A i \in DOMAIN s : i \in DOMAIN t /\ t[i] = s[i]
      /\ Len(s) + 1 \in DOMAIN t /\ t[Len(s) + 1] = f
      /\ \A i \in DOMAIN t : i \in DOMAIN s \/ i = Len(s) + 1
      /\ \A i \in DOMAIN s : i <= Len(s) /\ i \in Nat
      /\ Len(s) \in Nat
  <2>1. Len(s) \in Nat
    OBVIOUS
  <2> QED BY <2>1, AppendFacts
<1> HIDE DEF t
<1>2. Carried(t) = Carried(s) \cup f
  BY <1>1 DEF Carried
<1>3. ASSUME NEW i \in DOMAIN t, NEW o \in t[i], NEW d \in E[o].deps
      PROVE  d \in base \/ \E j \in DOMAIN t : j <= i /\ d \in t[j]
  <2>1. CASE i \in DOMAIN s
    <3>1. d \in base \/ \E j \in DOMAIN s : j <= i /\ d \in s[j]
      BY <1>1, <1>3, <2>1 DEF InOrder
    <3> QED BY <1>1, <3>1
  <2>2. CASE i = Len(s) + 1
    <3>1. d \in base \/ d \in Carried(s) \/ d \in f
      BY <1>1, <1>3, <2>2
    <3>2. CASE d \in Carried(s)
      <4>1. PICK j \in DOMAIN s : d \in s[j]
        BY <3>2 DEF Carried
      <4>2. j \in DOMAIN t /\ t[j] = s[j] /\ j <= i
        BY <1>1, <2>2
      <4> QED BY <4>1, <4>2
    <3>3. CASE d \in f
      <4>1. i \in DOMAIN t /\ i <= i /\ d \in t[i]
        BY <1>1, <2>2, <3>3
      <4> QED BY <4>1
    <3> QED BY <3>1, <3>2, <3>3
  <2> QED BY <1>1, <2>1, <2>2
<1>4. InOrder(E, base, t)
  BY <1>3 DEF InOrder
<1> QED BY <1>2, <1>4 DEF t

(* The first frame of an order waits for nothing but base, and once it has *)
(* arrived the rest is in order.                                           *)
LEMMA OrderTail ==
  ASSUME NEW E, NEW S, NEW s \in Seq(S), s # <<>>, NEW base, InOrder(E, base, s)
  PROVE  /\ \A o \in Head(s) : E[o].deps \subseteq base \cup Head(s)
         /\ Carried(s) = Head(s) \cup Carried(Tail(s))
         /\ Head(s) \in S /\ Tail(s) \in Seq(S)
         /\ \A more : base \cup Head(s) \subseteq more => InOrder(E, more, Tail(s))
<1>1. /\ Head(s) \in S /\ Tail(s) \in Seq(S)
      /\ 1 \in DOMAIN s /\ Head(s) = s[1]
      /\ \A i \in DOMAIN Tail(s) : i + 1 \in DOMAIN s /\ Tail(s)[i] = s[i + 1]
      /\ \A j \in DOMAIN s : j = 1 \/ \E i \in DOMAIN Tail(s) : Tail(s)[i] = s[j]
  BY TailFacts
<1>2. /\ DOMAIN s \subseteq Nat \ {0} /\ DOMAIN Tail(s) \subseteq Nat \ {0}
      /\ \A j \in DOMAIN s : j = 1 \/ j - 1 \in DOMAIN Tail(s)
  <2>1. /\ Len(s) \in Nat /\ Len(Tail(s)) = Len(s) - 1
        /\ DOMAIN s = 1..Len(s) /\ DOMAIN Tail(s) = 1..Len(Tail(s))
    BY <1>1, HeadTailProperties
  <2> QED BY <2>1
<1>3. \A o \in Head(s) : E[o].deps \subseteq base \cup Head(s)
  <2> SUFFICES ASSUME NEW o \in Head(s), NEW d \in E[o].deps
               PROVE  d \in base \cup Head(s)
    OBVIOUS
  <2>1. d \in base \/ \E j \in DOMAIN s : j <= 1 /\ d \in s[j]
    BY <1>1 DEF InOrder
  <2>2. \A j \in DOMAIN s : j <= 1 => j = 1
    BY <1>2
  <2> QED BY <1>1, <2>1, <2>2
<1>4. Carried(s) = Head(s) \cup Carried(Tail(s))
  BY <1>1 DEF Carried
<1>5. ASSUME NEW more, base \cup Head(s) \subseteq more
      PROVE  InOrder(E, more, Tail(s))
  <2> SUFFICES ASSUME NEW i \in DOMAIN Tail(s), NEW o \in Tail(s)[i],
                      NEW d \in E[o].deps
               PROVE  \/ d \in more
                      \/ \E j \in DOMAIN Tail(s) : j <= i /\ d \in Tail(s)[j]
    BY DEF InOrder
  <2>1. d \in base \/ \E j \in DOMAIN s : j <= i + 1 /\ d \in s[j]
    BY <1>1 DEF InOrder
  <2>2. ASSUME NEW j \in DOMAIN s, j <= i + 1, d \in s[j]
        PROVE  d \in more \/ \E k \in DOMAIN Tail(s) : k <= i /\ d \in Tail(s)[k]
    <3>1. CASE j = 1
      BY <1>1, <1>5, <2>2, <3>1
    <3>2. CASE j # 1
      <4>1. j - 1 \in DOMAIN Tail(s) /\ j - 1 <= i /\ (j - 1) + 1 = j
        BY <1>2, <2>2, <3>2
      <4>2. d \in Tail(s)[j - 1]
        BY <1>1, <2>2, <4>1
      <4> QED BY <4>1, <4>2
    <3> QED BY <3>1, <3>2
  <2> QED BY <1>5, <2>1, <2>2
<1> QED BY <1>1, <1>3, <1>4, <1>5

(* A page whose documents are left alone.                                  *)
LEMMA SettledStays ==
  ASSUME Typed, Grows, NEW q \in Pages, Settled(q), doc'[q] = doc[q],
         agent'[q] = agent[q], heard'[q] = heard[q],
         log'[q] \cup Appending(q)' \subseteq Own(q)',
         phase'[q] = "off" => phase[q] = "off",
         Fresh(q)',
         phase'[q] \in Subscribed => mark'[q] = Shown(q)
  PROVE  Settled(q)' /\ Shown(q)' = Shown(q)
<1>1. Shown(q)' = Shown(q)
  BY ShownSame DEF Typed, Shown
<1>2. Whole(edits', agent[q])
  BY WholeStays DEF Typed, Settled, Fresh
<1>3. Own(q) \subseteq Own(q)'
  BY OwnGrows
<1> QED BY <1>1, <1>2, <1>3 DEF Settled, Fresh

(* A wire on which nothing moves, or that is gone.                         *)
LEMMA WireStays ==
  ASSUME Typed, Grows, NEW q \in Pages, Upward(q), Downward(q),
         Shown(q)' = Shown(q),
         \/ /\ up'[q] = up[q] /\ down'[q] = down[q] /\ room' = room
            /\ phase'[q] = "live" /\ sock'[q] \in {"open", "closing"} =>
                  phase[q] = "live" /\ sock[q] \in {"open", "closing"}
            /\ phase'[q] = "live" /\ sock'[q] = "open" => sock[q] = "open"
         \/ up'[q] = <<>> /\ sock'[q] = "none"
  PROVE  Upward(q)' /\ Downward(q)'
<1>1. CASE up'[q] = <<>> /\ sock'[q] = "none"
  <2>1. InOrder(edits, room, up[q])'
    BY <1>1 DEF InOrder
  <2> QED BY <1>1, <2>1 DEF Upward, Downward
<1>2. CASE /\ up'[q] = up[q] /\ down'[q] = down[q] /\ room' = room
           /\ phase'[q] = "live" /\ sock'[q] \in {"open", "closing"} =>
                 phase[q] = "live" /\ sock[q] \in {"open", "closing"}
           /\ phase'[q] = "live" /\ sock'[q] = "open" => sock[q] = "open"
  <2>1. up[q] \in Seq(Docs) /\ down[q] \in Seq(Docs)
    BY DEF Typed
  <2>2. InOrder(edits, room, up[q])' /\ Carried(up[q])' = Carried(up[q])
    <3>1. InOrder(edits, room, up[q])
      BY DEF Upward
    <3>2. \A i \in DOMAIN up[q] : \A o \in up[q][i] : edits'[o] = edits[o]
      BY <2>1 DEF Grows, Docs
    <3> QED BY <1>2, <3>1, <3>2 DEF InOrder, Carried
  <2>3. Upward(q)'
    BY <1>2, <2>2 DEF Upward
  <2>4. Downward(q)'
    <3> SUFFICES ASSUME phase'[q] = "live", sock'[q] \in {"open", "closing"}
                 PROVE  /\ InOrder(edits, Shown(q), down[q])'
                        /\ Carried(down[q])' \subseteq room'
                        /\ room' \subseteq Shown(q)' \cup Carried(down[q])'
      BY DEF Downward
    <3>1. /\ InOrder(edits, Shown(q), down[q]) /\ Carried(down[q]) \subseteq room
          /\ room \subseteq Shown(q) \cup Carried(down[q])
      BY <1>2 DEF Downward
    <3>2. \A i \in DOMAIN down[q] : \A o \in down[q][i] : edits'[o] = edits[o]
      BY <2>1 DEF Grows, Docs
    <3> QED BY <1>2, <3>1, <3>2 DEF InOrder, Carried
  <2> QED BY <2>3, <2>4
<1> QED BY <1>1, <1>2

LEMMA PeersStay ==
  ASSUME Typed, Peers, edits' = edits, budget'["leaves"] = budget["leaves"],
         \A q \in Pages : Shown(q) \subseteq Shown(q)' /\ agent[q] \subseteq agent'[q]
  PROVE  Peers'
<1>1. Known' = Known
  BY DEF Known
<1> QED BY <1>1 DEF Peers, Peer

LEMMA SpentElse ==
  ASSUME Typed, NEW what \in Bounded \ {"leaves"}, Spend(what)
  PROVE  budget'["leaves"] = budget["leaves"]
  BY DEF Typed, Spend, Bounded

(* What most actions have in common: no document changes, and no wire but  *)
(* those that go.                                                          *)
LEMMA WiresAside ==
  ASSUME IInv, WireInv, TypedWire',
         UNCHANGED <<edits, doc, agent, heard>>, RoomWhole',
         budget'["leaves"] = budget["leaves"],
         \A q \in Pages :
            /\ log'[q] \cup Appending(q)' \subseteq Own(q)
            /\ phase'[q] = "off" => phase[q] = "off"
            /\ Fresh(q)'
            /\ phase'[q] \in Subscribed => mark'[q] = Shown(q)
            /\ \/ /\ up'[q] = up[q] /\ down'[q] = down[q] /\ room' = room
                  /\ phase'[q] = "live" /\ sock'[q] \in {"open", "closing"} =>
                        phase[q] = "live" /\ sock[q] \in {"open", "closing"}
                  /\ phase'[q] = "live" /\ sock'[q] = "open" => sock[q] = "open"
               \/ up'[q] = <<>> /\ sock'[q] = "none"
  PROVE  WireInv' /\ Echo
<1>1. Typed /\ Causal /\ Grows
  BY SameEdits DEF IInv
<1>2. Peers'
  <2>1. Peers
    BY DEF WireInv
  <2>2. \A q \in Pages : Shown(q) \subseteq Shown(q)' /\ agent[q] \subseteq agent'[q]
    BY DEF Shown
  <2> QED BY <1>1, <2>1, <2>2, PeersStay
<1>3. ASSUME NEW q \in Pages PROVE Settled(q)' /\ Upward(q)' /\ Downward(q)'
  <2>1. Own(q) \subseteq Own(q)'
    BY <1>1, OwnGrows
  <2>2. Settled(q) /\ Upward(q) /\ Downward(q)
    BY DEF WireInv
  <2>3. Settled(q)' /\ Shown(q)' = Shown(q)
    BY <1>1, <2>1, <2>2, SettledStays
  <2> QED BY <1>1, <2>2, <2>3, WireStays
<1>4. Echo
  <2> SUFFICES ASSUME NEW q \in Pages PROVE Len(up'[q]) # Len(up[q]) + 1
    BY DEF Echo
  <2>1. up[q] \in Seq(Docs) /\ Len(up[q]) \in Nat /\ Len(<<>>) = 0
    BY <1>1 DEF Typed
  <2>2. up'[q] = up[q] \/ up'[q] = <<>>
    OBVIOUS
  <2> QED BY <2>1, <2>2
<1> QED BY <1>2, <1>3, <1>4 DEF WireInv

(* A step of a page's store, of which the wire sees the watermark only.    *)
LEMMA StoreAside ==
  ASSUME IInv, WireInv, NEW p \in Pages,
         UNCHANGED <<edits, doc, agent, phase, sock, timer, ever, heard>>,
         UNCHANGED <<up, down, room, kept, hasContent>>,
         budget'["leaves"] = budget["leaves"],
         mark' = mark \/ mark' = [mark EXCEPT ![p] = Shown(p)],
         \A q \in Pages \ {p} : log'[q] = log[q] /\ writes'[q] = writes[q],
         log'[p] \cup Appending(p)' \subseteq Own(p)
  PROVE  WireInv' /\ Echo
<1>1. Typed /\ Causal /\ TypedWire /\ \A q \in Pages : Settled(q)
  BY DEF IInv, WireInv
<1>2. Shown(p) \in Docs
  BY <1>1, ShownFacts
<1>3. TypedWire'
  BY <1>1, <1>2, SameTypes DEF TypedWire
<1>4. RoomWhole'
  BY DEF WireInv, RoomWhole
<1>5. ASSUME NEW q \in Pages
      PROVE  /\ log'[q] \cup Appending(q)' \subseteq Own(q)
             /\ Fresh(q)'
             /\ phase'[q] \in Subscribed => mark'[q] = Shown(q)
  <2>1. Settled(q)
    BY <1>1
  <2>2. phase'[q] \in Subscribed => mark'[q] = Shown(q)
    BY <1>1, <2>1 DEF Settled, Fresh, TypedWire
  <2>3. q # p => Appending(q)' = Appending(q)
    BY DEF Appending
  <2> QED BY <2>1, <2>2, <2>3 DEF Settled, Fresh
<1> QED BY <1>3, <1>4, <1>5, WiresAside

LEMMA FlushWire ==
  ASSUME IInv, WireInv, NEW p \in Pages, Flush(p)
  PROVE  WireInv' /\ Echo
<1> DEFINE v == Visible(edits, doc[p])
<1>1. /\ Typed /\ TypedWire /\ Settled(p) /\ phase[p] = "live"
      /\ UNCHANGED <<edits, doc, agent, phase, sock, timer, ever, heard>>
      /\ UNCHANGED <<up, down, room, kept, hasContent>>
  BY DEF IInv, WireInv, Flush, bridge, wire, server
<1>2. budget'["leaves"] = budget["leaves"]
  BY <1>1, SpentElse DEF Flush, Bounded
<1>3. mark' = mark \/ mark' = [mark EXCEPT ![p] = Shown(p)]
  BY <1>1 DEF Flush, Put, TypedWire, Shown
<1>4. SaveSnapshot(p, v, FALSE, writes[p], log[p])
  BY DEF Flush
<1>5. /\ \A q \in Pages \ {p} : log'[q] = log[q] /\ writes'[q] = writes[q]
      /\ log'[p] \in {log[p], {}} /\ writes'[p] = writes[p]
  BY <1>1, <1>4 DEF SaveSnapshot, Put, Typed
<1>6. log'[p] \cup Appending(p)' \subseteq Own(p)
  BY <1>1, <1>5 DEF Settled, Fresh, Appending
<1> QED BY <1>1, <1>2, <1>3, <1>5, <1>6, StoreAside

(* A put is done, or was taken for done.                                   *)
LEMMA PutSnapshotWire ==
  ASSUME IInv, WireInv, NEW p \in Pages, puts[p] # <<>>,
         PutSnapshot(p) \/ AbortWrite(p),
         writes' = [writes EXCEPT ![p] = Append(@, Deletion(Head(puts[p]).tracked))],
         mark' = mark
  PROVE  WireInv' /\ Echo
<1> DEFINE w == Deletion(Head(puts[p]).tracked)
<1>1. /\ Typed /\ Settled(p)
      /\ UNCHANGED <<edits, doc, agent, phase, sock, timer, ever, heard>>
      /\ UNCHANGED <<up, down, room, kept, hasContent, mark, log>>
  BY DEF IInv, WireInv, PutSnapshot, AbortWrite, page, bridge, wire, server
<1>2. budget'["leaves"] = budget["leaves"]
  BY <1>1, SpentElse DEF PutSnapshot, AbortWrite, Bounded
<1>3. writes[p] \in Seq(Appends \cup Deletions) /\ w.ops = {}
  BY <1>1 DEF Typed, Deletion
<1> HIDE DEF w
<1>4. /\ writes'[p] = Append(writes[p], w)
      /\ \A q \in Pages \ {p} : writes'[q] = writes[q]
  BY <1>1 DEF w, Typed
<1>5. ASSUME NEW i \in DOMAIN writes'[p]
      PROVE  writes'[p][i].ops \subseteq Appending(p)
  <2>1. Head(puts[p]) \in Puts
    <3>1. puts[p] \in Seq(Puts) /\ puts[p] # <<>>
      BY <1>1 DEF Typed
    <3> QED BY <3>1, TailFacts
  <2>2. w \in Appends \cup Deletions
    BY <2>1 DEF w, Deletion, Deletions, Puts
  <2>3. \/ i \in DOMAIN writes[p] /\ writes'[p][i] = writes[p][i]
        \/ writes'[p][i] = w
    BY <1>3, <1>4, <1>5, <2>2, AppendFacts
  <2> QED BY <1>3, <2>3 DEF Appending
<1>6. log'[p] \cup Appending(p)' \subseteq Own(p)
  BY <1>1, <1>5 DEF Settled, Fresh, Appending
<1> QED BY <1>1, <1>2, <1>4, <1>6, StoreAside

LEMMA WriteOpsWire ==
  ASSUME IInv, WireInv, NEW p \in Pages,
         WriteOps(p) \/ FailWrite(p) \/ AbortWrite(p)
  PROVE  WireInv' /\ Echo
<1>1. /\ Typed /\ TypedWire /\ Settled(p)
      /\ UNCHANGED <<edits, doc, agent, phase, sock, timer, ever, heard>>
      /\ UNCHANGED <<up, down, room, kept, hasContent>>
  BY DEF IInv, WireInv, WriteOps, FailWrite, AbortWrite, page, bridge, wire, server
<1>2. budget'["leaves"] = budget["leaves"]
  BY <1>1, SpentElse DEF WriteOps, FailWrite, AbortWrite, Bounded
<1>3. mark' = mark \/ mark' = [mark EXCEPT ![p] = Shown(p)]
  BY DEF WriteOps, FailWrite, AbortWrite, page, Put, Shown
<1>4. CASE writes' = writes /\ log' = log
  BY <1>1, <1>2, <1>3, <1>4, StoreAside DEF Settled, Fresh, Appending
<1>5. CASE writes[p] # <<>> /\ writes' = [writes EXCEPT ![p] = Tail(@)]
  <2>1. writes[p] \in Seq(Appends \cup Deletions) /\ writes'[p] = Tail(writes[p])
        /\ \A q \in Pages \ {p} : writes'[q] = writes[q]
    BY <1>1, <1>5 DEF Typed
  <2>2. /\ 1 \in DOMAIN writes[p] /\ Head(writes[p]) = writes[p][1]
        /\ \A i \in DOMAIN Tail(writes[p]) :
              i + 1 \in DOMAIN writes[p] /\ Tail(writes[p])[i] = writes[p][i + 1]
    BY <1>5, <2>1, TailFacts
  <2>3. /\ Appending(p)' \subseteq Appending(p)
        /\ Head(writes[p]).ops \subseteq Appending(p)
    BY <2>1, <2>2 DEF Appending
  <2>4. /\ \A q \in Pages \ {p} : log'[q] = log[q]
        /\ log'[p] \subseteq log[p] \cup Head(writes[p]).ops
    BY <1>1 DEF WriteOps, FailWrite, AbortWrite, Put, Typed
  <2> QED BY <1>1, <1>2, <1>3, <2>1, <2>3, <2>4, StoreAside DEF Settled, Fresh
<1>6. CASE /\ AbortWrite(p) /\ puts[p] # <<>> /\ mark' = mark
           /\ writes' = [writes EXCEPT ![p] = Append(@, Deletion(Head(puts[p]).tracked))]
  BY <1>6, PutSnapshotWire
<1> QED BY <1>4, <1>5, <1>6 DEF WriteOps, FailWrite, AbortWrite

(* The bridge dials, hangs up or loses its socket; a page is disposed of   *)
(* or lets its agent go: what was on a wire that stays is still on it.     *)
LEMMA BridgeWire ==
  ASSUME IInv, WireInv, NEW p \in Pages,
         \/ DialFails(p) \/ DropSocket(p) \/ Redial(p) \/ Hangup(p)
         \/ Dispose(p) \/ Disconnect(p) \/ Unlink(p)
  PROVE  WireInv' /\ Echo
<1>1. /\ Typed /\ TypedWire /\ RoomWhole /\ \A q \in Pages : Settled(q) /\ Fresh(q)
      /\ UNCHANGED <<edits, doc, agent, mark, disk, heard, ever>>
      /\ UNCHANGED <<room, kept, hasContent>>
  BY DEF IInv, WireInv, Settled, DialFails, DropSocket, Redial, Hangup, Dispose,
         Disconnect, Unlink, page, bridge, history, server
<1>2. budget'["leaves"] = budget["leaves"]
  BY <1>1, SpentElse DEF DialFails, DropSocket, Redial, Hangup, Dispose,
     Disconnect, Unlink, Bounded
<1>3. RoomWhole'
  BY <1>1 DEF RoomWhole
<1>4. ASSUME NEW q \in Pages
      PROVE  log'[q] \cup Appending(q)' \subseteq Own(q)
  BY <1>1 DEF disk, Settled, Appending
<1>5. CASE /\ Closed(p)
           /\ \/ /\ phase[p] \notin {"off", "loading", "connecting", "failed"}
                 /\ phase' = phase
              \/ phase[p] = "connecting" /\ phase' = [phase EXCEPT ![p] = "failed"]
  <2>1. /\ sock' = [sock EXCEPT ![p] = "none"]
        /\ timer' = [timer EXCEPT ![p] = timer[p] \/ (ever[p] /\ ~quitting[p])]
        /\ up' = [up EXCEPT ![p] = <<>>] /\ down' = [down EXCEPT ![p] = <<>>]
    BY <1>5 DEF Closed, Reconnects, Put
  <2>2. TypedWire'
    BY <1>1, <1>5, <2>1, SameTypes DEF TypedWire, Phases
  <2>3. /\ sock'[p] = "none" /\ up'[p] = <<>>
        /\ timer'[p] = (timer[p] \/ (ever[p] /\ ~quitting[p]))
        /\ \A q \in Pages \ {p} : /\ sock'[q] = sock[q] /\ timer'[q] = timer[q]
                                  /\ up'[q] = up[q] /\ down'[q] = down[q]
    BY <1>1, <2>1 DEF Typed, TypedWire
  <2>4. /\ phase'[p] \notin {"off", "loading", "connecting"}
        /\ phase'[p] = "failed" => ~timer[p] /\ ~ever[p]
        /\ phase'[p] \in Subscribed => phase[p] \in Subscribed
        /\ \A q \in Pages \ {p} : phase'[q] = phase[q]
    BY <1>1, <1>5 DEF TypedWire, Subscribed, Fresh
  <2>5. \A q \in Pages : Fresh(q)'
    BY <1>1, <2>3, <2>4 DEF Fresh
  <2> QED BY <1>1, <1>2, <1>3, <1>4, <2>2, <2>3, <2>4, <2>5, WiresAside DEF Settled
<1>6. CASE Redial(p)
  <2>1. /\ sock' = [sock EXCEPT ![p] = "dialing"] /\ timer[p]
        /\ timer' = [timer EXCEPT ![p] = FALSE] /\ UNCHANGED <<phase, up, down>>
    BY <1>6 DEF Redial, page, wire, Put
  <2>2. TypedWire'
    BY <1>1, <2>1, SameTypes DEF TypedWire
  <2>3. /\ phase[p] \notin {"off", "loading", "connecting", "failed"}
        /\ sock'[p] = "dialing"
        /\ \A q \in Pages \ {p} : sock'[q] = sock[q] /\ timer'[q] = timer[q]
    BY <1>1, <2>1 DEF Fresh, TypedWire
  <2>4. \A q \in Pages : Fresh(q)'
    BY <1>1, <2>1, <2>3 DEF Fresh
  <2> QED BY <1>1, <1>2, <1>3, <1>4, <2>1, <2>2, <2>3, <2>4, WiresAside DEF Settled
<1>7. CASE Dispose(p) \/ Disconnect(p)
  <2>1. /\ UNCHANGED <<timer, up, down>>
        /\ \E x \in {"draining", "disposed"} : phase' = [phase EXCEPT ![p] = x]
        /\ sock' = sock \/ sock' = [sock EXCEPT ![p] = "closing"]
    BY <1>7 DEF Dispose, Disconnect, bridge, wire, Put
  <2>2. TypedWire'
    BY <1>1, <2>1, SameTypes DEF TypedWire, Phases
  <2>3. /\ phase'[p] \in {"draining", "disposed"}
        /\ \A q \in Pages \ {p} : phase'[q] = phase[q] /\ sock'[q] = sock[q]
    BY <1>1, <2>1 DEF TypedWire
  <2>4. \A q \in Pages : Fresh(q)'
    BY <1>1, <2>1, <2>3 DEF Fresh
  <2> QED BY <1>1, <1>2, <1>3, <1>4, <2>1, <2>2, <2>3, <2>4, WiresAside
          DEF Settled, Subscribed
<1>8. CASE Unlink(p)
  <2>1. UNCHANGED <<phase, sock, timer, up, down, log, writes>>
    BY <1>8 DEF Unlink, bridge, wire, disk
  <2> QED BY <1>1, <1>2, <1>4, <2>1, StoreAside
<1>9. DialFails(p) =>
        /\ Closed(p)
        /\ \/ /\ phase[p] \notin {"off", "loading", "connecting", "failed"}
              /\ phase' = phase
           \/ phase[p] = "connecting" /\ phase' = [phase EXCEPT ![p] = "failed"]
  BY <1>1 DEF DialFails, Put, Fresh
<1>10. DropSocket(p) \/ Hangup(p) =>
        /\ Closed(p) /\ phase' = phase
        /\ phase[p] \notin {"off", "loading", "connecting", "failed"}
  BY <1>1 DEF DropSocket, Hangup, page, Fresh
<1> QED BY <1>5, <1>6, <1>7, <1>8, <1>9, <1>10

(* A page that opens, or replays its op log, has nothing on a wire yet.    *)
LEMMA LoadWire ==
  ASSUME IInv, WireInv, NEW p \in Pages, Open(p) \/ LoadOps(p)
  PROVE  WireInv' /\ Echo
<1>1. /\ Typed /\ TypedWire /\ Causal /\ Settled(p) /\ Chain(p)
      /\ UNCHANGED <<edits, agent, timer, ever, up, down, log, writes, room, kept>>
      /\ UNCHANGED <<hasContent, budget, heard>>
  BY DEF IInv, WireInv, Open, LoadOps, history, wire, disk, server, bridge
<1>2. Grows /\ Causal' /\ Own(p)' = Own(p)
  BY <1>1, SameEdits DEF Own, Known
<1>3. /\ snap[p] \in Docs /\ log[p] \in Docs /\ doc[p] \in Docs
      /\ phase[p] \in {"off", "loading"} /\ sock[p] = "none" /\ ~timer[p] /\ ~ever[p]
  BY <1>1 DEF Typed, Settled, Fresh, Open, LoadOps
<1>4. /\ Shown(p) \subseteq Shown(p)' /\ doc'[p] \ Shown(p)' \subseteq Own(p)
      /\ phase'[p] \in {"loading", "connecting", "live"}
      /\ phase'[p] = "loading" => sock'[p] = "none"
      /\ phase'[p] = "connecting" => sock'[p] = "dialing"
      /\ sock'[p] \in {"none", "dialing"}
      /\ phase'[p] \in Subscribed => mark'[p] = Shown(p)'
      /\ TypedWire'
  <2>1. CASE Open(p)
    <3>1. /\ doc' = [doc EXCEPT ![p] = snap[p]]
          /\ phase' = [phase EXCEPT ![p] = "loading"] /\ UNCHANGED <<sock, mark>>
      BY <2>1 DEF Open, bridge, Put
    <3>2. doc'[p] = snap[p] /\ phase'[p] = "loading"
      BY <1>1, <3>1 DEF Typed, TypedWire
    <3>3. Shown(p) = {}
      BY <1>1, <2>1 DEF Settled, Fresh, Shown, Visible, Open
    <3>4. Shown(p)' = snap[p]
      BY <1>1, <3>2 DEF Shown, Visible, Chain, Whole
    <3>5. TypedWire'
      BY <1>1, <3>1, SameTypes DEF TypedWire, Phases
    <3> QED BY <1>1, <1>3, <3>1, <3>2, <3>3, <3>4, <3>5 DEF Subscribed
  <2>2. CASE LoadOps(p)
    <3>1. /\ doc' = [doc EXCEPT ![p] = doc[p] \cup log[p]]
          /\ mark' = [mark EXCEPT ![p] = Visible(edits, doc[p] \cup log[p])]
          /\ \/ /\ phase' = [phase EXCEPT ![p] = "connecting"]
                /\ sock' = [sock EXCEPT ![p] = "dialing"]
             \/ phase' = [phase EXCEPT ![p] = "live"] /\ sock' = sock
      BY <2>2 DEF LoadOps, Put
    <3>2. /\ doc'[p] = doc[p] \cup log[p] /\ mark'[p] = Shown(p)'
          /\ phase'[p] \in {"connecting", "live"} /\ sock'[p] \in {"none", "dialing"}
          /\ phase'[p] = "connecting" => sock'[p] = "dialing"
      BY <1>1, <1>3, <3>1 DEF Typed, TypedWire, Shown
    <3>3. Visible(edits, doc[p] \cup log[p]) \in Docs
      BY <1>3 DEF Docs, Visible
    <3>4. TypedWire'
      BY <1>1, <3>1, <3>3, SameTypes DEF TypedWire, Phases
    <3>5. Shown(p) \subseteq Shown(p)'
      BY <1>1, <1>2, <1>3, <3>2, ShownGrows DEF Shown
    <3>6. doc'[p] \ Shown(p)' \subseteq Own(p)
      BY <1>1, <3>2, <3>5 DEF Settled, Fresh
    <3> QED BY <3>2, <3>4, <3>5, <3>6
  <2> QED BY <2>1, <2>2
<1>5. \A q \in Pages \ {p} : /\ doc'[q] = doc[q] /\ phase'[q] = phase[q]
                             /\ sock'[q] = sock[q] /\ mark'[q] = mark[q]
  BY <1>1 DEF Open, LoadOps, Put, Typed, TypedWire, bridge
<1>6. Peers' /\ RoomWhole'
  <2>1. \A q \in Pages : Shown(q) \subseteq Shown(q)' /\ agent[q] \subseteq agent'[q]
    BY <1>1, <1>4, <1>5 DEF Shown
  <2> QED BY <1>1, <2>1, PeersStay DEF WireInv, RoomWhole
<1>7. Settled(p)' /\ Upward(p)' /\ Downward(p)'
  <2>1. Appending(p)' = Appending(p)
    BY <1>1 DEF Appending
  <2>2. Settled(p)'
    BY <1>1, <1>2, <1>3, <1>4, <2>1 DEF Settled, Fresh
  <2>3. InOrder(edits, room, up[p])'
    <3>1. InOrder(edits, room, up[p])
      BY DEF WireInv, Upward
    <3> QED BY <1>1, <3>1 DEF InOrder
  <2> QED BY <1>4, <2>2, <2>3 DEF Upward, Downward
<1>8. ASSUME NEW q \in Pages \ {p} PROVE Settled(q)' /\ Upward(q)' /\ Downward(q)'
  <2>1. Settled(q) /\ Upward(q) /\ Downward(q) /\ Own(q) \subseteq Own(q)'
    BY <1>2, OwnGrows DEF WireInv
  <2>2. Settled(q)' /\ Shown(q)' = Shown(q)
    BY <1>1, <1>2, <1>5, <2>1, SettledStays DEF Settled, Fresh, Appending
  <2> QED BY <1>1, <1>2, <1>5, <2>1, <2>2, WireStays
<1>9. Echo
  <2>1. \A q \in Pages : Len(up[q]) \in Nat
    BY <1>1 DEF Typed
  <2> QED BY <1>1, <2>1 DEF Echo
<1> QED BY <1>4, <1>6, <1>7, <1>8, <1>9 DEF WireInv

(* A connection is caught up and pushes all the page shows.                *)
LEMMA ConnectWire ==
  ASSUME IInv, WireInv, NEW p \in Pages, Connect(p)
  PROVE  WireInv' /\ Echo
<1>1. /\ Typed /\ TypedWire /\ Causal /\ Settled(p) /\ RoomWhole /\ Peers
      /\ UNCHANGED <<edits, doc, agent, timer, log, writes, room, kept, mark>>
      /\ UNCHANGED <<hasContent, budget, heard>>
  BY DEF IInv, WireInv, Connect, history, disk, server
<1>2. Grows /\ Causal' /\ Own(p)' = Own(p)
  BY <1>1, SameEdits DEF Own, Known
<1>3. /\ sock[p] = "dialing" /\ sock' = [sock EXCEPT ![p] = "open"]
      /\ ever' = [ever EXCEPT ![p] = TRUE]
      /\ up' = [up EXCEPT ![p] = PushFullState(p)]
      /\ down' = [down EXCEPT ![p] = CatchUpFrames]
      /\ \/ phase[p] = "connecting" /\ phase' = [phase EXCEPT ![p] = "live"]
         \/ phase[p] # "connecting" /\ phase' = phase
  BY DEF Connect, Put
<1>4. /\ sock'[p] = "open" /\ up'[p] = PushFullState(p) /\ down'[p] = CatchUpFrames
      /\ phase'[p] = "live" => phase[p] \in {"connecting", "live"}
      /\ phase'[p] \notin {"off", "loading", "connecting", "failed"}
      /\ phase'[p] \in Subscribed => phase[p] \in Subscribed
      /\ \A q \in Pages \ {p} : /\ up'[q] = up[q] /\ down'[q] = down[q]
                                /\ phase'[q] = phase[q] /\ sock'[q] = sock[q]
                                /\ ever'[q] = ever[q]
  BY <1>1, <1>3 DEF Typed, TypedWire, Settled, Fresh, Subscribed
<1>5. TypedWire'
  BY <1>1, <1>3, SameTypes DEF TypedWire, Phases
<1>6. Peers' /\ RoomWhole' /\ Shown(p)' = Shown(p)
  <2>1. \A q \in Pages : Shown(q) \subseteq Shown(q)' /\ agent[q] \subseteq agent'[q]
    BY <1>1 DEF Shown
  <2>2. Peers'
    BY <1>1, <2>1, PeersStay
  <2> QED BY <1>1, <2>2 DEF RoomWhole, Shown
<1>7. Settled(p)'
  <2>1. Appending(p)' = Appending(p)
    BY <1>1 DEF Appending
  <2> QED BY <1>1, <1>2, <1>4, <1>6, <2>1 DEF Settled, Fresh
<1>8. Whole(edits, Shown(p))
  BY <1>1, ShownFacts
<1>9. Upward(p)'
  <2>1. CASE up'[p] = <<Shown(p)>>
    <3>1. /\ DOMAIN up'[p] = {1} /\ up'[p][1] = Shown(p)
      BY <2>1
    <3>2. InOrder(edits, room, up[p])' /\ Carried(up[p])' = Shown(p)
      BY <1>1, <1>8, <3>1 DEF InOrder, Carried, Whole
    <3> QED BY <1>6, <3>2 DEF Upward
  <2>2. CASE up'[p] = <<>> /\ phase'[p] # "live"
    <3>1. InOrder(edits, room, up[p])'
      BY <2>2 DEF InOrder
    <3> QED BY <2>2, <3>1 DEF Upward
  <2> QED BY <1>4, <2>1, <2>2 DEF PushFullState, Shown
<1>10. Downward(p)'
  <2>1. CASE hasContent
    <3>1. Visible(edits, room) = room
      BY <1>1 DEF RoomWhole, Visible, Whole
    <3>2. DOMAIN down'[p] = {1} /\ down'[p][1] = room
      BY <1>4, <2>1, <3>1 DEF CatchUpFrames
    <3>3. InOrder(edits, Shown(p), down[p])' /\ Carried(down[p])' = room
      BY <1>1, <3>2 DEF InOrder, Carried, Whole, RoomWhole
    <3> QED BY <1>1, <3>3 DEF Downward
  <2>2. CASE ~hasContent
    <3>1. down'[p] = <<>> /\ room = {}
      BY <1>1, <1>4, <2>2 DEF CatchUpFrames, RoomWhole
    <3>2. InOrder(edits, Shown(p), down[p])' /\ Carried(down[p])' = {}
      BY <3>1 DEF InOrder, Carried
    <3> QED BY <1>1, <3>1, <3>2 DEF Downward
  <2> QED BY <2>1, <2>2
<1>11. ASSUME NEW q \in Pages \ {p} PROVE Settled(q)' /\ Upward(q)' /\ Downward(q)'
  <2>1. Settled(q) /\ Upward(q) /\ Downward(q) /\ Own(q) \subseteq Own(q)'
    BY <1>2, OwnGrows DEF WireInv
  <2>2. Settled(q)' /\ Shown(q)' = Shown(q)
    BY <1>1, <1>2, <1>4, <2>1, SettledStays DEF Settled, Fresh, Appending
  <2> QED BY <1>1, <1>2, <1>4, <2>1, <2>2, WireStays
<1>12. Echo
  <2>1. \A q \in Pages : Len(up[q]) \in Nat
    BY <1>1 DEF Typed
  <2> QED BY <1>3, <1>4, <2>1 DEF Echo
<1> QED BY <1>5, <1>6, <1>7, <1>9, <1>10, <1>11, <1>12 DEF WireInv

(* A frame that reaches the room waits there for nothing, and is behind    *)
(* all that the other connections have yet to receive.                     *)
LEMMA ReceiveFrameWire ==
  ASSUME IInv, WireInv, NEW p \in Pages, ReceiveFrame(p)
  PROVE  WireInv' /\ Echo
<1> DEFINE f == Head(up[p])
<1>1. /\ Typed /\ TypedWire /\ Causal /\ RoomWhole /\ Peers
      /\ UNCHANGED <<edits, doc, agent, phase, mark, sock, timer, ever, log>>
      /\ UNCHANGED <<writes, kept, budget, heard>>
  BY DEF IInv, WireInv, ReceiveFrame, history, disk, bridge, page
<1>2. Grows /\ Causal'
  BY <1>1, SameEdits
<1>3. /\ up[p] # <<>> /\ up' = [up EXCEPT ![p] = Tail(@)] /\ room' = room \cup f
      /\ hasContent' = TRUE /\ sock[p] \in {"open", "closing"}
      /\ down' = [q \in Pages |->
            IF q # p /\ sock[q] \in {"open", "closing"}
            THEN Append(down[q], f) ELSE down[q]]
  BY DEF ReceiveFrame
<1>4. up[p] \in Seq(Docs) /\ InOrder(edits, room, up[p]) /\ up'[p] = Tail(up[p])
  BY <1>1, <1>3 DEF Typed, WireInv, Upward
<1>5. /\ \A o \in f : edits[o].deps \subseteq room \cup f
      /\ Carried(up[p]) = f \cup Carried(Tail(up[p]))
      /\ f \in Docs /\ InOrder(edits, room \cup f, Tail(up[p]))
  BY <1>3, <1>4, OrderTail
<1> HIDE DEF f
<1>6. \A q \in Pages : Settled(q)' /\ Shown(q)' = Shown(q)
  <2>1. \A q \in Pages : Own(q) \subseteq Own(q)' /\ Settled(q)
    BY <1>2, OwnGrows DEF WireInv
  <2> QED BY <1>1, <1>2, <2>1, SettledStays DEF Settled, Fresh, Appending
<1>7. Peers' /\ RoomWhole' /\ TypedWire'
  <2>1. Peers'
    BY <1>1, <1>6, PeersStay
  <2>2. Whole(edits, room') /\ Whole(edits, kept')
    BY <1>1, <1>3, <1>5 DEF RoomWhole, Whole
  <2>3. RoomWhole'
    BY <1>1, <1>3, <2>2 DEF RoomWhole
  <2>4. TypedWire'
    BY <1>1, SameTypes DEF TypedWire
  <2> QED BY <2>1, <2>3, <2>4
<1>8. Upward(p)' /\ Downward(p)'
  <2>1. InOrder(edits, room, up[p])' /\ Carried(up[p])' = Carried(Tail(up[p]))
    BY <1>1, <1>3, <1>4, <1>5 DEF InOrder, Carried
  <2>2. Upward(p) /\ Downward(p)
    BY DEF WireInv
  <2>3. Upward(p)'
    BY <1>1, <1>3, <1>5, <1>6, <2>1, <2>2 DEF Upward
  <2>4. down'[p] = down[p]
    BY <1>3
  <2>5. Downward(p)'
    <3> SUFFICES ASSUME phase[p] = "live"
                 PROVE  /\ InOrder(edits, Shown(p), down[p])'
                        /\ Carried(down[p])' \subseteq room'
                        /\ room' \subseteq Shown(p)' \cup Carried(down[p])'
      BY <1>1 DEF Downward
    <3>1. f \subseteq Shown(p)
      BY <1>3, <1>5, <2>2 DEF Upward
    <3>2. /\ InOrder(edits, Shown(p), down[p]) /\ Carried(down[p]) \subseteq room
          /\ room \subseteq Shown(p) \cup Carried(down[p])
      BY <1>3, <2>2 DEF Downward
    <3>3. InOrder(edits, Shown(p), down[p])' /\ Carried(down[p])' = Carried(down[p])
      BY <1>1, <1>6, <2>4, <3>2 DEF InOrder, Carried
    <3> QED BY <1>3, <1>6, <3>1, <3>2, <3>3
  <2> QED BY <2>3, <2>5
<1>9. ASSUME NEW q \in Pages \ {p} PROVE Upward(q)' /\ Downward(q)'
  <2>1. Upward(q) /\ Downward(q) /\ up'[q] = up[q]
    BY <1>1, <1>3 DEF WireInv, Typed
  <2>2. InOrder(edits, room, up[q])' /\ Carried(up[q])' = Carried(up[q])
    BY <1>1, <1>3, <2>1 DEF Upward, InOrder, Carried
  <2>3. Upward(q)'
    BY <1>1, <1>3, <1>6, <2>1, <2>2 DEF Upward
  <2>4. Downward(q)'
    <3> SUFFICES ASSUME phase[q] = "live", sock[q] \in {"open", "closing"}
                 PROVE  /\ InOrder(edits, Shown(q), down[q])'
                        /\ Carried(down[q])' \subseteq room'
                        /\ room' \subseteq Shown(q)' \cup Carried(down[q])'
      BY <1>1 DEF Downward
    <3>1. /\ InOrder(edits, Shown(q), down[q]) /\ Carried(down[q]) \subseteq room
          /\ room \subseteq Shown(q) \cup Carried(down[q])
      BY <2>1 DEF Downward
    <3>2. down'[q] = Append(down[q], f) /\ down[q] \in Seq(Docs)
      BY <1>1, <1>3 DEF Typed
    <3>3. \A o \in f : edits[o].deps \subseteq Shown(q) \cup Carried(down[q]) \cup f
      BY <1>5, <3>1
    <3>4. /\ InOrder(edits, Shown(q), Append(down[q], f))
          /\ Carried(Append(down[q], f)) = Carried(down[q]) \cup f
      BY <1>5, <3>1, <3>2, <3>3, OrderAppended
    <3>5. /\ InOrder(edits, Shown(q), down[q])'
          /\ Carried(down[q])' = Carried(down[q]) \cup f
      BY <1>1, <1>6, <3>2, <3>4 DEF InOrder, Carried
    <3> QED BY <1>3, <1>6, <3>1, <3>5
  <2> QED BY <2>3, <2>4
<1>10. Echo
  <2> SUFFICES ASSUME NEW q \in Pages PROVE Len(up'[q]) # Len(up[q]) + 1
    BY DEF Echo
  <2>1. up[q] \in Seq(Docs) /\ Len(up[q]) \in Nat
    BY <1>1 DEF Typed
  <2>2. CASE q = p
    <3>1. Len(Tail(up[p])) = Len(up[p]) - 1
      BY <1>3, <1>4, HeadTailProperties
    <3>2. Len(up'[q]) = Len(up[q]) - 1
      BY <1>4, <2>2, <3>1, Zenon
    <3> QED BY <2>1, <3>2
  <2>3. CASE q # p
    BY <1>1, <1>3, <2>1, <2>3 DEF Typed
  <2> QED BY <2>2, <2>3
<1> QED BY <1>6, <1>7, <1>8, <1>9, <1>10 DEF WireInv

(* The server keeps what the room shows, and restarts on what it kept.     *)
LEMMA ServerWire ==
  ASSUME IInv, WireInv, Keep \/ Restart
  PROVE  WireInv' /\ Echo
<1>1. /\ Typed /\ TypedWire /\ Causal /\ RoomWhole
      /\ UNCHANGED <<edits, doc, agent, mark, log, writes, heard, ever>>
  BY DEF IInv, WireInv, Keep, Restart, history, disk, page, bridge
<1>2. budget'["leaves"] = budget["leaves"]
  BY <1>1, SpentElse DEF Keep, Restart, Bounded
<1>3. ASSUME NEW q \in Pages PROVE log'[q] \cup Appending(q)' \subseteq Own(q)
  BY <1>1 DEF WireInv, Settled, Fresh, Appending
<1>4. \A q \in Pages : Settled(q)
  BY DEF WireInv
<1>5. CASE Keep
  <2>1. UNCHANGED <<phase, sock, timer, up, down, room, hasContent>>
        /\ kept' = Visible(edits, room)
    BY <1>5 DEF Keep, page, bridge, wire
  <2>2. Whole(edits, kept')
    BY <1>1, <2>1 DEF RoomWhole, Visible, Whole
  <2>3. RoomWhole' /\ TypedWire'
    BY <1>1, <2>1, <2>2, SameTypes DEF RoomWhole, TypedWire
  <2> QED BY <1>1, <1>2, <1>3, <1>4, <2>1, <2>3, WiresAside DEF Settled, Fresh
<1>6. CASE Restart
  <2> DEFINE hit == {p \in Pages : sock[p] # "none"}
  <2>1. /\ room' = kept /\ hasContent' = (kept # {}) /\ kept' = kept
        /\ sock' = [p \in Pages |-> "none"]
        /\ timer' = [p \in Pages |->
              timer[p] \/ (p \in hit /\ ever[p] /\ ~quitting[p])]
        /\ up' = [p \in Pages |-> <<>>] /\ down' = [p \in Pages |-> <<>>]
        /\ phase' = [p \in Pages |->
              IF p \in hit /\ phase[p] = "connecting" THEN "failed" ELSE phase[p]]
    BY <1>6 DEF Restart, Reconnects
  <2>2. RoomWhole' /\ TypedWire'
    BY <1>1, <2>1, SameTypes DEF RoomWhole, TypedWire, Phases
  <2>3. ASSUME NEW q \in Pages
        PROVE  /\ phase'[q] = "off" => phase[q] = "off"
               /\ Fresh(q)'
               /\ phase'[q] \in Subscribed => mark'[q] = Shown(q)
               /\ up'[q] = <<>> /\ sock'[q] = "none"
    BY <1>1, <1>4, <2>1 DEF Settled, Fresh, Subscribed
  <2> QED BY <1>1, <1>2, <1>3, <2>2, <2>3, WiresAside
<1> QED BY <1>5, <1>6

(* A page that goes takes its peers with it: whoever comes back in its     *)
(* place, or edits on elsewhere, is a new one.                             *)
LEMMA LeaveWire ==
  ASSUME IInv, WireInv, NEW p \in Pages, Leave(p)
  PROVE  WireInv' /\ Echo
<1>1. /\ Typed /\ TypedWire /\ Causal /\ RoomWhole /\ Peers
      /\ UNCHANGED <<edits, room, kept, hasContent>>
  BY DEF IInv, WireInv, Leave, server
<1>2. Grows /\ Causal' /\ Known' = Known
  BY <1>1, SameEdits
<1>3. /\ phase' = [phase EXCEPT ![p] = "off"] /\ doc' = [doc EXCEPT ![p] = {}]
      /\ agent' = [agent EXCEPT ![p] = {}] /\ mark' = [mark EXCEPT ![p] = {}]
      /\ sock' = [sock EXCEPT ![p] = "none"] /\ timer' = [timer EXCEPT ![p] = FALSE]
      /\ ever' = [ever EXCEPT ![p] = FALSE]
      /\ up' = [up EXCEPT ![p] = <<>>] /\ down' = [down EXCEPT ![p] = <<>>]
      /\ writes' = [writes EXCEPT ![p] = <<>>] /\ heard' = [heard EXCEPT ![p] = {}]
      /\ log' = log \/ log' = [log EXCEPT ![p] = {}]
  BY DEF Leave, Put
<1>4. TypedWire'
  <2>1. {} \in Docs /\ Docs' = Docs
    BY <1>1, SameTypes DEF Docs
  <2> QED BY <1>1, <1>3, <2>1 DEF TypedWire, Phases
<1>5. /\ phase'[p] = "off" /\ doc'[p] = {} /\ agent'[p] = {} /\ sock'[p] = "none"
      /\ ~timer'[p] /\ ~ever'[p] /\ up'[p] = <<>> /\ writes'[p] = <<>>
      /\ heard'[p] = {}
      /\ log'[p] \subseteq log[p]
      /\ \A q \in Pages \ {p} :
           /\ phase'[q] = phase[q] /\ doc'[q] = doc[q] /\ agent'[q] = agent[q]
           /\ mark'[q] = mark[q] /\ sock'[q] = sock[q] /\ timer'[q] = timer[q]
           /\ up'[q] = up[q] /\ down'[q] = down[q] /\ writes'[q] = writes[q]
           /\ heard'[q] = heard[q] /\ log'[q] = log[q] /\ ever'[q] = ever[q]
  BY <1>1, <1>3 DEF Typed, TypedWire
<1>6. Peers'
  <2>1. budget["leaves"] \in Nat /\ budget'["leaves"] = budget["leaves"] - 1
    BY <1>1 DEF Typed, Leave, Spend, Bounded
  <2>2. ASSUME NEW o \in Known PROVE edits[o].peer[3] >= budget["leaves"]
                                     /\ edits[o].peer[3] \in Nat
    <3>1. edits[o] \in Entries
      BY <1>1, <2>2 DEF Typed, Known
    <3> QED BY <1>1, <2>2, <3>1 DEF Peers, Entries
  <2>3. ASSUME NEW o \in Known, NEW q \in Pages, NEW who
        PROVE  edits[o].peer # <<q, who, budget'["leaves"]>>
    BY <2>1, <2>2, <2>3
  <2>4. \A o \in Known, q \in Pages :
          edits[o].peer # Peer(q, "user")' /\ edits[o].peer # Peer(q, "agent")'
    BY <2>3 DEF Peer
  <2>5. \A o \in Known : edits[o].peer[3] >= budget'["leaves"]
    BY <2>1, <2>2
  <2> QED BY <1>1, <1>2, <2>4, <2>5 DEF Peers
<1>7. Settled(p)' /\ Upward(p)' /\ Downward(p)'
  <2>1. Shown(p)' = {} /\ Appending(p)' = {}
    BY <1>5 DEF Shown, Visible, Appending
  <2>2. Settled(p) /\ Own(p)' = Own(p)
    BY <1>1, <1>2 DEF WireInv, Own
  <2>3. Settled(p)'
    BY <1>5, <2>1, <2>2 DEF Settled, Fresh, Whole, Subscribed
  <2>4. InOrder(edits, room, up[p])'
    BY <1>5 DEF InOrder
  <2> QED BY <1>5, <2>3, <2>4 DEF Upward, Downward
<1>8. ASSUME NEW q \in Pages \ {p} PROVE Settled(q)' /\ Upward(q)' /\ Downward(q)'
  <2>1. Settled(q) /\ Upward(q) /\ Downward(q) /\ Own(q) \subseteq Own(q)'
    BY <1>2, OwnGrows DEF WireInv
  <2>2. Settled(q)' /\ Shown(q)' = Shown(q)
    BY <1>1, <1>2, <1>5, <2>1, SettledStays DEF Settled, Fresh, Appending
  <2> QED BY <1>1, <1>2, <1>5, <2>1, <2>2, WireStays
<1>9. Echo
  <2> SUFFICES ASSUME NEW q \in Pages PROVE Len(up'[q]) # Len(up[q]) + 1
    BY DEF Echo
  <2>1. up[q] \in Seq(Docs) /\ Len(up[q]) \in Nat /\ Len(<<>>) = 0
    BY <1>1 DEF Typed
  <2> QED BY <1>5, <2>1
<1> QED BY <1>1, <1>4, <1>6, <1>7, <1>8, <1>9 DEF WireInv, RoomWhole

(* The subscriber writes the page's own edits into its op log and no       *)
(* other, if that is what the watermark leaves out.                        *)
LEMMA ExportedOwn ==
  ASSUME Typed, Grows, NEW p \in Pages, log[p] \cup Appending(p) \subseteq Own(p),
         NEW v \in Docs', NEW m, v \ m \subseteq Own(p)', Export(p, v, m)
  PROVE  log'[p] \cup Appending(p)' \subseteq Own(p)'
<1> DEFINE delta == v \ m
           a == Append1(delta)
           w == Append(writes[p], a)
<1>1. Own(p) \subseteq Own(p)' /\ a.ops = delta /\ a \in (Appends \cup Deletions)'
      /\ writes[p] \in Seq((Appends \cup Deletions)') /\ delta \subseteq Own(p)'
  BY OwnGrows, TypesGrow DEF Append1, Appends, Docs, Typed
<1>2. /\ \/ log' = log \/ log' = [log EXCEPT ![p] = log[p]]
         \/ log' = [log EXCEPT ![p] = {}] \/ log' = [log EXCEPT ![p] = @ \cup delta]
      /\ \/ writes' = writes \/ writes' = [writes EXCEPT ![p] = w]
         \/ writes' = [writes EXCEPT ![p] = writes[p]]
  BY DEF Export, SaveSnapshot, Put
<1> HIDE DEF delta, a
<1>3. log'[p] \subseteq Own(p)'
  BY <1>1, <1>2 DEF Typed
<1>4. Appending(p)' \subseteq Own(p)'
  <2>1. writes'[p] = writes[p] \/ writes'[p] = w
    BY <1>2 DEF Typed
  <2>2. CASE writes'[p] = writes[p]
    BY <1>1, <2>2 DEF Appending
  <2>3. CASE writes'[p] = w
    <3>1. \A i \in DOMAIN w : \/ i \in DOMAIN writes[p] /\ w[i] = writes[p][i]
                              \/ w[i] = a
      BY <1>1, AppendFacts
    <3>2. \A i \in DOMAIN w : w[i].ops \subseteq Own(p)'
      BY <1>1, <3>1 DEF Appending
    <3> QED BY <2>3, <3>2 DEF Appending
  <2> QED BY <2>1, <2>2, <2>3
<1> QED BY <1>3, <1>4

(* A document that grows: what the wire sees of it.  The frame sent is     *)
(* what the watermark m leaves out of the version v, so m must hold what   *)
(* the page showed before and nothing that neither it nor the room shows.  *)
LEMMA Shipped ==
  ASSUME IInv, WireInv, Grows, Causal', NEW p \in Pages, phase[p] # "off",
         phase' = phase, sock' = sock, room' = room,
         NEW h \in Docs', doc[p] \subseteq h, NEW m, Becomes(p, edits', h, m),
         phase[p] \in Subscribed =>
            /\ Shown(p) \subseteq m /\ m \subseteq Visible(edits', h)
            /\ m \subseteq Shown(p) \cup room
            /\ Visible(edits', h) \ m \subseteq Own(p)',
         m \in Docs'
  PROVE  /\ Others(p) /\ doc'[p] = h /\ mark' \in [Pages -> Docs']
         /\ \A q \in Pages \ {p} : mark'[q] = mark[q] /\ up'[q] = up[q]
         /\ phase[p] \in Subscribed => mark'[p] = Shown(p)'
         /\ Shown(p) \subseteq Shown(p)' /\ Shown(p)' = Visible(edits', h)
         /\ log'[p] \cup Appending(p)' \subseteq Own(p)' /\ Upward(p)'
         /\ \/ up'[p] = up[p]
            \/ phase[p] \in Subscribed /\ Last(up'[p]) = Shown(p)' \ m
<1> DEFINE v == Visible(edits', h)
           delta == v \ m
<1>1. /\ Typed /\ TypedWire /\ Causal /\ Settled(p) /\ Fresh(p) /\ Upward(p)
      /\ doc[p] \in Docs /\ Own(p) \subseteq Own(p)' /\ up[p] \in Seq(Docs)
  BY OwnGrows DEF IInv, WireInv, Settled, Typed
<1>2. Others(p)
  BY Became
<1>3. doc'[p] = h /\ v = Shown(p)'
  BY <1>1 DEF Becomes, Put, Typed, Shown
<1>4. /\ Shown(p) \subseteq v /\ v \in Docs' /\ Whole(edits', v)
      /\ Visible(edits', doc[p]) = Shown(p)
  <2>1. \A o \in h : Whole(edits', edits'[o].deps)
    BY DEF Causal, Docs
  <2>2. Whole(edits', v) /\ v \subseteq h
    BY <2>1, VisibleWhole
  <2> QED BY <1>1, <2>2, ShownGrows, ShownSame DEF Shown, Docs
<1>5. InOrder(edits', room, up[p])
  <2>1. \A o \in Carried(up[p]) : edits'[o] = edits[o]
    BY <1>1 DEF Carried, Grows, Docs
  <2>2. InOrder(edits, room, up[p])
    BY <1>1 DEF Upward
  <2> QED BY <2>1, <2>2, OrderStays
<1>6. /\ mark \in [Pages -> Docs'] /\ up \in [Pages -> Seq(Docs')]
  BY <1>1, TypesGrow DEF TypedWire, Typed
<1>7. CASE phase[p] \in Subscribed /\ v # Shown(p) /\ v # m
  <2>1. Export(p, v, m)
    BY <1>4, <1>7 DEF Becomes
  <2>2. log'[p] \cup Appending(p)' \subseteq Own(p)'
    <3>1. log[p] \cup Appending(p) \subseteq Own(p) /\ v \ m \subseteq Own(p)'
      BY <1>1, <1>7 DEF Settled
    <3> HIDE DEF v
    <3> QED BY <1>1, <1>4, <2>1, <3>1, ExportedOwn
  <2>3. /\ mark' = [mark EXCEPT ![p] = v]
        /\ up' = IF sock[p] = "open" THEN [up EXCEPT ![p] = Append(@, delta)] ELSE up
    BY <2>1 DEF Export, Put
  <2>4. /\ mark'[p] = v /\ mark' \in [Pages -> Docs']
        /\ \A q \in Pages \ {p} : mark'[q] = mark[q]
    <3> HIDE DEF v
    <3> QED BY <1>4, <1>6, <2>3
  <2>5. CASE sock[p] = "open"
    <3>1. phase[p] = "live" /\ Shown(p) \subseteq room \cup Carried(up[p])
          /\ Carried(up[p]) \subseteq Shown(p)
      BY <1>1, <1>7, <2>5 DEF Fresh, Subscribed, Upward
    <3>2. /\ m \subseteq Shown(p) \cup room
          /\ v \subseteq room \cup Carried(up[p]) \cup delta
          /\ delta \subseteq v /\ delta \in Docs'
      BY <1>4, <1>7, <3>1 DEF Docs
    <3>3. \A o \in delta :
            edits'[o].deps \subseteq room \cup Carried(up[p]) \cup delta
      BY <1>4, <3>2 DEF Whole
    <3> HIDE DEF v, delta
    <3>4. /\ up'[p] = Append(up[p], delta) /\ up[p] \in Seq(Docs')
          /\ \A q \in Pages \ {p} : up'[q] = up[q]
      BY <1>6, <2>3, <2>5
    <3>5. /\ InOrder(edits', room, Append(up[p], delta))
          /\ Carried(Append(up[p], delta)) = Carried(up[p]) \cup delta
      BY <1>5, <3>2, <3>3, <3>4, OrderAppended
    <3>6. Last(up'[p]) = delta
      <4>1. /\ Len(Append(up[p], delta)) = Len(up[p]) + 1
            /\ Append(up[p], delta)[Len(up[p]) + 1] = delta
        BY <3>2, <3>4, AppendProperties
      <4> QED BY <3>4, <4>1 DEF Last
    <3>7. Upward(p)'
      <4>1. InOrder(edits, room, up[p])'
        BY <3>4, <3>5
      <4>2. /\ Carried(up[p])' \subseteq Shown(p)'
            /\ Shown(p)' \subseteq room' \cup Carried(up[p])'
        BY <1>3, <1>4, <3>1, <3>2, <3>4, <3>5
      <4> QED BY <4>1, <4>2 DEF Upward
    <3> QED BY <1>2, <1>3, <1>4, <1>7, <2>2, <2>4, <3>4, <3>6, <3>7
            DEF v, delta
  <2>6. CASE sock[p] # "open"
    <3>1. up' = up
      BY <2>3, <2>6
    <3>2. InOrder(edits, room, up[p])'
      BY <1>5, <3>1
    <3>3. phase[p] = "live" /\ sock[p] \in {"open", "closing"} =>
             Carried(up[p]) \subseteq Shown(p)
      BY <1>1 DEF Upward
    <3>4. Upward(p)'
      BY <1>3, <1>4, <2>6, <3>1, <3>2, <3>3 DEF Upward
    <3> QED BY <1>2, <1>3, <1>4, <2>2, <2>4, <3>1, <3>4
  <2> QED BY <2>5, <2>6
<1>8. CASE ~(phase[p] \in Subscribed /\ v # Shown(p) /\ v # m)
  <2>1. mark' = [mark EXCEPT ![p] = m] /\ UNCHANGED <<up, log, writes>>
    BY <1>4, <1>8 DEF Becomes, disk, Put
  <2>2. /\ mark'[p] = m /\ mark' \in [Pages -> Docs']
        /\ \A q \in Pages \ {p} : mark'[q] = mark[q]
    BY <1>6, <2>1
  <2>3. phase[p] \in Subscribed => m = v
    BY <1>8
  <2>4. log'[p] \cup Appending(p)' \subseteq Own(p)'
    BY <1>1, <2>1 DEF Settled, Appending
  <2>5. InOrder(edits, room, up[p])'
    BY <1>5, <2>1
  <2>6. phase[p] = "live" =>
          /\ sock[p] \in {"open", "closing"} => Carried(up[p]) \subseteq Shown(p)
          /\ sock[p] = "open" => v \subseteq room \cup Carried(up[p])
    <3>1. phase[p] = "live" => m \subseteq Shown(p) \cup room
      BY DEF Subscribed
    <3>2. phase[p] = "live" => v = m
      BY <2>3 DEF Subscribed
    <3> HIDE DEF v
    <3> QED BY <1>1, <3>1, <3>2 DEF Upward
  <2>7. Upward(p)'
    BY <1>3, <1>4, <2>1, <2>5, <2>6 DEF Upward
  <2> QED BY <1>2, <1>3, <1>4, <2>1, <2>2, <2>3, <2>4, <2>7
<1> QED BY <1>7, <1>8

LEMMA DownwardGrows ==
  ASSUME Typed, Grows, NEW p \in Pages, Downward(p), Shown(p) \subseteq Shown(p)',
         UNCHANGED <<phase, sock, room>>, down'[p] = down[p]
  PROVE  Downward(p)'
<1> SUFFICES ASSUME phase[p] = "live", sock[p] \in {"open", "closing"}
             PROVE  /\ InOrder(edits, Shown(p), down[p])'
                    /\ Carried(down[p])' \subseteq room'
                    /\ room' \subseteq Shown(p)' \cup Carried(down[p])'
  BY DEF Downward
<1>1. /\ InOrder(edits, Shown(p), down[p]) /\ Carried(down[p]) \subseteq room
      /\ room \subseteq Shown(p) \cup Carried(down[p])
  BY DEF Downward
<1>2. \A o \in Carried(down[p]) : edits'[o] = edits[o]
  <2>1. down[p] \in Seq(Docs)
    BY DEF Typed
  <2> QED BY <2>1 DEF Carried, Grows, Docs
<1>3. InOrder(edits', Shown(p)', down[p])
  BY <1>1, <1>2, OrderStays
<1> QED BY <1>1, <1>3

(* A step of one page's documents leaves the other pages alone.            *)
LEMMA OtherWires ==
  ASSUME IInv, WireInv, Grows, NEW p \in Pages, Others(p),
         UNCHANGED <<phase, sock, timer, ever, room>>,
         NEW q \in Pages \ {p}, agent'[q] = agent[q], heard'[q] = heard[q],
         mark'[q] = mark[q], up'[q] = up[q], down'[q] = down[q]
  PROVE  Settled(q)' /\ Upward(q)' /\ Downward(q)' /\ Shown(q)' = Shown(q)
<1>1. Typed /\ Settled(q) /\ Upward(q) /\ Downward(q) /\ Own(q) \subseteq Own(q)'
  BY OwnGrows DEF IInv, WireInv
<1>2. doc'[q] = doc[q] /\ log'[q] = log[q] /\ Appending(q)' = Appending(q)
  BY DEF Others, Appending
<1>3. Settled(q)' /\ Shown(q)' = Shown(q)
  BY <1>1, <1>2, SettledStays DEF Settled, Fresh
<1> QED BY <1>1, <1>3, WireStays

(* An edit joins the chain of its peer.                                    *)
LEMMA NewPeer ==
  ASSUME Typed, Peers, Grows, NEW p \in Pages, NEW who \in {"user", "agent"},
         NEW on, edits' = Made(Peer(p, who), on),
         budget'["leaves"] = budget["leaves"],
         \A o \in Known : edits[o].peer = Peer(p, who) => o \in on,
         \A q \in Pages : Shown(q) \subseteq Shown(q)' /\ agent[q] \subseteq agent'[q],
         who = "user" => Len(edits') \in Shown(p)',
         who = "agent" => Len(edits') \in agent'[p]
  PROVE  Peers' /\ Len(edits') \in Own(p)'
<1> DEFINE e == [peer |-> Peer(p, who), deps |-> on]
           n == Len(edits) + 1
<1>1. edits \in Seq(Entries) /\ Len(edits) \in Nat /\ edits' = Append(edits, e)
  BY DEF Typed, Made
<1>2. /\ Len(edits') = n /\ edits'[n] = e /\ n \in Nat
      /\ Known' = Known \cup {n} /\ n \notin Known
      /\ \A o \in Known : o \in Nat /\ edits'[o] = edits[o] /\ o < n
  BY <1>1 DEF Known
<1>3. e.peer = Peer(p, who) /\ e.deps = on
  OBVIOUS
<1>4. /\ Peer(p, who)[1] = p /\ Peer(p, who)[2] = who
      /\ Peer(p, who)[3] = budget["leaves"] /\ budget["leaves"] \in Nat
  BY DEF Peer, Typed, Bounded
<1> HIDE DEF e, n
<1>5. n \in Own(p)'
  BY <1>2, <1>3, <1>4 DEF Own
<1>6. ASSUME NEW o \in Known', NEW x \in Known',
             edits'[o].peer = edits'[x].peer, o < x
      PROVE  o \in edits'[x].deps
  <2>1. CASE x \in Known
    <3>1. o \in Known
      <4>1. o # n
        BY <1>2, <1>6, <2>1
      <4> QED BY <1>2, <4>1
    <3> QED BY <1>2, <1>6, <2>1, <3>1 DEF Peers
  <2>2. CASE x = n
    <3>1. o \in Known
      BY <1>2, <1>6, <2>2
    <3> QED BY <1>2, <1>3, <1>6, <2>2, <3>1
  <2> QED BY <1>2, <2>1, <2>2
<1>7. \A o \in Known' : edits'[o].peer[3] >= budget'["leaves"]
  BY <1>2, <1>3, <1>4 DEF Peers
<1>8. ASSUME NEW o \in Known', NEW q \in Pages
      PROVE  /\ edits'[o].peer = Peer(q, "user") => o \in Shown(q)'
             /\ edits'[o].peer = Peer(q, "agent") => o \in agent'[q]
  <2>1. CASE o \in Known
    BY <1>2, <2>1 DEF Peers
  <2>2. CASE o = n
    <3>1. \A w \in {"user", "agent"} : Peer(p, who) = Peer(q, w) => q = p /\ w = who
      BY DEF Peer
    <3> QED BY <1>2, <1>3, <2>2, <3>1
  <2> QED BY <1>2, <2>1, <2>2
<1>9. Peers'
  <2>1. \A q \in Pages : /\ Peer(q, "user")' = Peer(q, "user")
                         /\ Peer(q, "agent")' = Peer(q, "agent")
    BY DEF Peer
  <2> QED BY <1>6, <1>7, <1>8, <2>1 DEF Peers
<1> QED BY <1>2, <1>5, <1>9

(* Who sends only what the page made itself sends nothing that was heard.  *)
LEMMA EchoFrom ==
  ASSUME IInv, NEW p \in Pages, \A q \in Pages \ {p} : up'[q] = up[q],
         NEW v, NEW m, heard'[p] \subseteq m,
         up'[p] = up[p] \/ Last(up'[p]) = v \ m
  PROVE  Echo
<1> SUFFICES ASSUME NEW q \in Pages, Len(up'[q]) = Len(up[q]) + 1
             PROVE  Last(up'[q]) \cap heard'[q] = {}
  BY DEF Echo
<1>1. up[q] \in Seq(Docs) /\ Len(up[q]) \in Nat
  BY DEF IInv, Typed
<1>2. up'[q] # up[q]
  BY <1>1
<1>3. q = p /\ Last(up'[p]) = v \ m
  BY <1>2
<1> QED BY <1>3

LEMMA EditWire ==
  ASSUME IInv, WireInv, NEW p \in Pages, Edit(p)
  PROVE  WireInv' /\ Echo
<1> DEFINE h == doc[p] \cup {Len(edits')}
<1>1. /\ Typed /\ TypedWire /\ Causal /\ Settled(p) /\ Downward(p)
      /\ RoomWhole /\ Peers /\ phase[p] # "off"
      /\ UNCHANGED <<phase, sock, timer, ever, down, room, kept, hasContent, heard>>
      /\ edits' = Made(Peer(p, "user"), Shown(p)) /\ Becomes(p, edits', h, mark[p])
  BY DEF IInv, WireInv, Edit, bridge, server, Shown
<1>2. Peer(p, "user") \in Pages \X {"user", "agent"} \X Nat /\ doc[p] \in Docs
  BY <1>1, PeerType DEF Typed
<1>3. Grows /\ Causal' /\ Len(edits') \in Known'
  BY <1>1, <1>2, NewEdit DEF Shown
<1>4. /\ Docs \subseteq Docs' /\ Own(p) \subseteq Own(p)'
      /\ h \in Docs' /\ doc[p] \subseteq h
  BY <1>2, <1>3, TypesGrow, OwnGrows DEF Docs
<1>5. /\ Shown(p) \in Docs /\ Shown(p) \subseteq doc[p] /\ Whole(edits, Shown(p))
      /\ edits'[Len(edits')].deps = Shown(p)
  <2>1. edits' = Append(edits, [peer |-> Peer(p, "user"), deps |-> Shown(p)])
        /\ Len(edits') = Len(edits) + 1
        /\ edits'[Len(edits) + 1] = [peer |-> Peer(p, "user"), deps |-> Shown(p)]
    BY <1>1 DEF Typed, Made
  <2> QED BY <1>1, <2>1, ShownFacts
<1>6. Len(edits') \in Visible(edits', h) /\ Shown(p) \subseteq Visible(edits', h)
  <2>1. Shown(p) \subseteq Visible(edits', h)
    BY <1>2, <1>3, <1>4, ShownGrows DEF Shown
  <2> QED BY <1>5, <2>1 DEF Visible
<1>7. Len(edits') \in Own(p)'
  <2>1. /\ edits'[Len(edits')] = [peer |-> Peer(p, "user"), deps |-> Shown(p)]
    BY <1>1 DEF Typed, Made
  <2> QED BY <1>3, <2>1 DEF Own, Peer
<1>8. phase[p] \in Subscribed =>
        /\ Shown(p) \subseteq mark[p] /\ mark[p] \subseteq Visible(edits', h)
        /\ mark[p] \subseteq Shown(p) \cup room
        /\ Visible(edits', h) \ mark[p] \subseteq Own(p)'
  BY <1>1, <1>4, <1>6, <1>7 DEF Settled, Visible
<1>9. mark[p] \in Docs'
  BY <1>1, <1>4 DEF TypedWire
<1> HIDE DEF h
<1>10. /\ Others(p) /\ doc'[p] = h /\ mark' \in [Pages -> Docs']
       /\ \A q \in Pages \ {p} : mark'[q] = mark[q] /\ up'[q] = up[q]
       /\ phase[p] \in Subscribed => mark'[p] = Shown(p)'
       /\ Shown(p) \subseteq Shown(p)' /\ Shown(p)' = Visible(edits', h)
       /\ log'[p] \cup Appending(p)' \subseteq Own(p)' /\ Upward(p)'
       /\ \/ up'[p] = up[p]
          \/ phase[p] \in Subscribed /\ Last(up'[p]) = Shown(p)' \ mark[p]
  BY <1>1, <1>3, <1>4, <1>8, <1>9, Shipped
<1>11. /\ agent'[p] \subseteq agent[p] \cup Shown(p)' /\ agent[p] \subseteq agent'[p]
       /\ agent'[p] = agent[p] \/ agent'[p] = agent[p] \cup Shown(p)'
       /\ \A q \in Pages \ {p} : agent'[q] = agent[q]
  <2>1. agent' = agent \/ agent' = [agent EXCEPT ![p] = @ \cup Visible(edits', h)]
    BY DEF Edit, h
  <2> QED BY <1>1, <1>10, <2>1 DEF Typed
<1>12. Settled(p)'
  <2>1. Whole(edits', Shown(p)') /\ Whole(edits', agent[p])
    <3>1. \A o \in h : Whole(edits', edits'[o].deps)
      BY <1>3, <1>4 DEF Causal, Docs
    <3>2. Whole(edits', Shown(p)')
      BY <1>10, <3>1, VisibleWhole
    <3>3. Whole(edits', agent[p])
      BY <1>1, <1>3, WholeStays DEF Settled, Typed
    <3> QED BY <3>2, <3>3
  <2>2. Whole(edits', agent'[p]) /\ agent'[p] \subseteq Shown(p)' \cup Own(p)'
    BY <1>1, <1>4, <1>10, <1>11, <2>1 DEF Settled, Whole
  <2>3. doc'[p] \ Shown(p)' \subseteq Own(p)'
    BY <1>1, <1>4, <1>6, <1>10 DEF Settled, h
  <2>4. Fresh(p)' /\ heard'[p] \subseteq Shown(p)'
    BY <1>1, <1>10 DEF Settled, Fresh
  <2> QED BY <1>1, <1>10, <2>2, <2>3, <2>4 DEF Settled
<1>13. \A q \in Pages \ {p} :
         Settled(q)' /\ Upward(q)' /\ Downward(q)' /\ Shown(q)' = Shown(q)
  BY <1>1, <1>3, <1>10, <1>11, OtherWires
<1>14. Downward(p)'
  BY <1>1, <1>3, <1>10, DownwardGrows
<1>15. Peers'
  <2>1. budget'["leaves"] = budget["leaves"]
    BY <1>1, SpentElse DEF Edit, Bounded
  <2>2. \A o \in Known : edits[o].peer = Peer(p, "user") => o \in Shown(p)
    BY <1>1 DEF Peers
  <2>3. \A q \in Pages : Shown(q) \subseteq Shown(q)' /\ agent[q] \subseteq agent'[q]
    BY <1>10, <1>11, <1>13
  <2>4. Len(edits') \in Shown(p)'
    BY <1>6, <1>10
  <2> QED BY <1>1, <1>3, <2>1, <2>2, <2>3, <2>4, NewPeer
<1>16. RoomWhole' /\ TypedWire'
  <2>1. Whole(edits', room) /\ Whole(edits', kept)
    BY <1>1, <1>3, WholeStays DEF RoomWhole, Typed
  <2>2. heard \in [Pages -> Docs']
    BY <1>1, <1>4 DEF TypedWire
  <2> QED BY <1>1, <1>10, <2>1, <2>2 DEF RoomWhole, TypedWire
<1>17. Echo
  <2>1. CASE phase[p] \in Subscribed
    <3>1. heard'[p] \subseteq mark[p]
      BY <1>1, <1>8, <2>1 DEF Settled
    <3> QED BY <1>10, <3>1, EchoFrom
  <2>2. CASE up'[p] = up[p]
    <3>1. \A q \in Pages : up'[q] = up[q] /\ Len(up[q]) \in Nat
      BY <1>1, <1>10, <2>2 DEF Typed
    <3> QED BY <3>1 DEF Echo
  <2> QED BY <1>10, <2>1, <2>2
<1> QED BY <1>10, <1>12, <1>13, <1>14, <1>15, <1>16, <1>17 DEF WireInv

(* The agent's document waits for nothing, so a linked page shows all that *)
(* it imports from it.                                                     *)
LEMMA AgentEditWire ==
  ASSUME IInv, WireInv, NEW p \in Pages, AgentEdit(p)
  PROVE  WireInv' /\ Echo
<1> DEFINE n == Len(edits')
           g == agent[p] \cup {n}
           h == doc[p] \cup Visible(edits', g)
<1>1. /\ Typed /\ TypedWire /\ Causal /\ Settled(p) /\ Upward(p) /\ Downward(p)
      /\ RoomWhole /\ Peers /\ phase[p] # "off"
      /\ UNCHANGED <<phase, sock, timer, ever, down, room, kept, hasContent, heard>>
      /\ edits' = Made(Peer(p, "agent"), Visible(edits, agent[p]))
      /\ agent' = [agent EXCEPT ![p] = g]
  BY DEF IInv, WireInv, AgentEdit, bridge, server, Put
<1>2. /\ Peer(p, "agent") \in Pages \X {"user", "agent"} \X Nat
      /\ doc[p] \in Docs /\ agent[p] \in Docs
      /\ Visible(edits, agent[p]) = agent[p]
  <2>1. Visible(edits, agent[p]) = agent[p]
    BY <1>1 DEF Settled, Visible, Whole
  <2> QED BY <1>1, <2>1, PeerType DEF Typed
<1>3. Grows /\ Causal' /\ n \in Known'
  BY <1>1, <1>2, NewEdit
<1>4. /\ Docs \subseteq Docs' /\ Own(p) \subseteq Own(p)' /\ g \in Docs'
      /\ agent'[p] = g /\ \A q \in Pages \ {p} : agent'[q] = agent[q]
  BY <1>1, <1>2, <1>3, TypesGrow, OwnGrows DEF Docs, Typed
<1>5. edits'[n] = [peer |-> Peer(p, "agent"), deps |-> agent[p]]
  BY <1>1, <1>2 DEF Typed, Made
<1>6. n \in Own(p)'
  BY <1>3, <1>5 DEF Own, Peer
<1>7. Whole(edits', agent[p]) /\ Whole(edits', g) /\ Visible(edits', g) = g
  <2>1. Whole(edits', agent[p])
    BY <1>1, <1>2, <1>3, WholeStays DEF Settled
  <2>2. Whole(edits', g)
    BY <1>5, <2>1 DEF Whole
  <2> QED BY <2>1, <2>2 DEF Whole, Visible
<1>8. h = doc[p] \cup g /\ h \in Docs' /\ doc[p] \subseteq h
  BY <1>2, <1>4, <1>7 DEF Docs
<1>9. g \subseteq Visible(edits', h) /\ Shown(p) \subseteq Visible(edits', h)
  <2>1. g \subseteq Visible(edits', h)
    BY <1>7, <1>8, WholeShown
  <2> QED BY <1>2, <1>3, <1>8, <2>1, ShownGrows DEF Shown
<1>10. budget'["leaves"] = budget["leaves"]
  BY <1>1, SpentElse DEF AgentEdit, Bounded
<1>11. \A o \in Known : edits[o].peer = Peer(p, "agent") => o \in agent[p]
  BY <1>1 DEF Peers
<1>12. Whole(edits', room) /\ Whole(edits', kept) /\ heard \in [Pages -> Docs']
  <2>1. heard \in [Pages -> Docs']
    BY <1>1, <1>4 DEF TypedWire
  <2> QED BY <1>1, <1>3, <2>1, WholeStays DEF RoomWhole, Typed
<1>13. CASE Becomes(p, edits', h, mark[p])
  <2>1. phase[p] \in Subscribed =>
          /\ Shown(p) \subseteq mark[p] /\ mark[p] \subseteq Visible(edits', h)
          /\ mark[p] \subseteq Shown(p) \cup room
          /\ Visible(edits', h) \ mark[p] \subseteq Own(p)'
    <3>1. h \ Shown(p) \subseteq Own(p)'
      BY <1>1, <1>4, <1>6, <1>8 DEF Settled
    <3>2. Visible(edits', h) \subseteq h
      BY DEF Visible
    <3>3. phase[p] \in Subscribed => mark[p] = Shown(p)
      BY <1>1 DEF Settled
    <3> HIDE DEF h
    <3> QED BY <1>9, <3>1, <3>2, <3>3
  <2>2. mark[p] \in Docs'
    BY <1>1, <1>4 DEF TypedWire
  <2> HIDE DEF h, g, n
  <2>3. /\ Others(p) /\ doc'[p] = h /\ mark' \in [Pages -> Docs']
        /\ \A q \in Pages \ {p} : mark'[q] = mark[q] /\ up'[q] = up[q]
        /\ phase[p] \in Subscribed => mark'[p] = Shown(p)'
        /\ Shown(p) \subseteq Shown(p)' /\ Shown(p)' = Visible(edits', h)
        /\ log'[p] \cup Appending(p)' \subseteq Own(p)' /\ Upward(p)'
        /\ \/ up'[p] = up[p]
           \/ phase[p] \in Subscribed /\ Last(up'[p]) = Shown(p)' \ mark[p]
    BY <1>1, <1>3, <1>8, <1>13, <2>1, <2>2, Shipped
  <2>4. Settled(p)'
    <3>1. Whole(edits', agent'[p]) /\ agent'[p] \subseteq Shown(p)'
      BY <1>4, <1>7, <1>9, <2>3
    <3>2. doc'[p] \ Shown(p)' \subseteq Own(p)'
      BY <1>1, <1>4, <1>8, <1>9, <2>3 DEF Settled
    <3>3. Fresh(p)' /\ heard'[p] \subseteq Shown(p)'
      BY <1>1, <2>3 DEF Settled, Fresh
    <3> QED BY <1>1, <2>3, <3>1, <3>2, <3>3 DEF Settled
  <2>5. \A q \in Pages \ {p} :
          Settled(q)' /\ Upward(q)' /\ Downward(q)' /\ Shown(q)' = Shown(q)
    BY <1>1, <1>3, <1>4, <2>3, OtherWires
  <2>6. Downward(p)'
    BY <1>1, <1>3, <2>3, DownwardGrows
  <2>7. Peers'
    <3>1. \A q \in Pages : Shown(q) \subseteq Shown(q)' /\ agent[q] \subseteq agent'[q]
      BY <1>4, <2>3, <2>5 DEF g
    <3>2. n \in agent'[p]
      BY <1>4 DEF g
    <3> QED BY <1>1, <1>2, <1>3, <1>10, <1>11, <3>1, <3>2, NewPeer DEF n
  <2>8. RoomWhole' /\ TypedWire'
    BY <1>1, <1>12, <2>3 DEF RoomWhole, TypedWire
  <2>9. Echo
    <3>1. CASE phase[p] \in Subscribed
      <4>1. heard'[p] \subseteq mark[p]
        BY <1>1, <2>1, <3>1 DEF Settled
      <4> QED BY <2>3, <4>1, EchoFrom
    <3>2. CASE up'[p] = up[p]
      <4>1. \A q \in Pages : up'[q] = up[q] /\ Len(up[q]) \in Nat
        BY <1>1, <2>3, <3>2 DEF Typed
      <4> QED BY <4>1 DEF Echo
    <3> QED BY <2>3, <3>1, <3>2
  <2> QED BY <2>3, <2>4, <2>5, <2>6, <2>7, <2>8, <2>9 DEF WireInv
<1>14. CASE UNCHANGED <<doc, mark, up, disk>>
  <2> HIDE DEF g, n
  <2>1. \A q \in Pages : Shown(q)' = Shown(q)
    BY <1>1, <1>3, <1>14, ShownSame DEF Shown, Typed
  <2>2. \A q \in Pages : Appending(q)' = Appending(q) /\ Own(q) \subseteq Own(q)'
    BY <1>3, <1>14, OwnGrows DEF Appending, disk
  <2>3. ASSUME NEW q \in Pages PROVE Upward(q)' /\ Downward(q)'
    BY <1>1, <1>3, <1>14, <2>1, WireStays DEF WireInv
  <2>4. ASSUME NEW q \in Pages \ {p} PROVE Settled(q)'
    <3>1. Settled(q)
      BY DEF WireInv
    <3> QED BY <1>1, <1>3, <1>4, <1>14, <2>2, <3>1, SettledStays
            DEF Settled, Fresh, disk
  <2>5. Settled(p)'
    <3>1. Whole(edits', agent'[p]) /\ agent'[p] \subseteq Shown(p) \cup Own(p)'
      BY <1>1, <1>4, <1>6, <1>7 DEF Settled, g
    <3>2. /\ log'[p] \cup Appending(p)' \subseteq Own(p)'
          /\ doc'[p] \ Shown(p)' \subseteq Own(p)'
      BY <1>1, <1>4, <1>14, <2>1, <2>2 DEF Settled, disk
    <3> QED BY <1>1, <1>14, <2>1, <3>1, <3>2 DEF Settled, Fresh
  <2>6. Peers'
    <3>1. n \in agent'[p] /\ agent[p] \subseteq agent'[p]
      BY <1>4 DEF g
    <3> QED BY <1>1, <1>2, <1>3, <1>4, <1>10, <1>11, <2>1, <3>1, NewPeer DEF n
  <2>7. RoomWhole' /\ TypedWire'
    <3>1. mark \in [Pages -> Docs']
      BY <1>1, <1>4 DEF TypedWire
    <3> QED BY <1>1, <1>12, <1>14, <3>1 DEF RoomWhole, TypedWire
  <2>8. Echo
    <3>1. \A q \in Pages : up'[q] = up[q] /\ Len(up[q]) \in Nat
      BY <1>1, <1>14 DEF Typed
    <3> QED BY <3>1 DEF Echo
  <2> QED BY <2>3, <2>4, <2>5, <2>6, <2>7, <2>8 DEF WireInv
<1> QED BY <1>13, <1>14 DEF AgentEdit

(* A link brings the page what its agent shows, which is the page's own or *)
(* the page shows it already.                                              *)
LEMMA LinkWire ==
  ASSUME IInv, WireInv, NEW p \in Pages, Link(p)
  PROVE  WireInv' /\ Echo
<1> DEFINE both == Shown(p) \cup agent[p]
           h == doc[p] \cup both
<1>1. /\ Typed /\ TypedWire /\ Causal /\ Settled(p) /\ Downward(p)
      /\ RoomWhole /\ Peers /\ phase[p] # "off" /\ UNCHANGED <<edits, down>>
      /\ UNCHANGED <<phase, sock, timer, ever, room, kept, hasContent, heard>>
  BY DEF IInv, WireInv, Link, bridge, server
<1>2. Grows /\ Causal' /\ Own(p)' = Own(p) /\ Docs' = Docs
  BY <1>1, SameEdits, SameTypes DEF Own, Known
<1>3. /\ doc[p] \in Docs /\ agent[p] \in Docs /\ Shown(p) \in Docs
      /\ Shown(p) \subseteq doc[p]
  BY <1>1, ShownFacts DEF Typed
<1>4. Visible(edits, agent[p]) = agent[p]
  BY <1>1 DEF Settled, Visible, Whole
<1>5. Becomes(p, edits', h, mark[p]) /\ agent' = [agent EXCEPT ![p] = @ \cup both]
  BY <1>1, <1>4 DEF Link, Shown
<1>6. h \in Docs' /\ doc[p] \subseteq h /\ mark[p] \in Docs'
  BY <1>1, <1>2, <1>3 DEF Docs, TypedWire
<1>7. Whole(edits, both) /\ both \subseteq Visible(edits', h)
  <2>1. Whole(edits, both)
    <3>1. Whole(edits, Shown(p)) /\ Whole(edits, agent[p])
      BY <1>1, ShownFacts DEF Settled
    <3> QED BY <3>1 DEF Whole
  <2> QED BY <1>1, <2>1, WholeShown
<1>8. phase[p] \in Subscribed =>
        /\ Shown(p) \subseteq mark[p] /\ mark[p] \subseteq Visible(edits', h)
        /\ mark[p] \subseteq Shown(p) \cup room
        /\ Visible(edits', h) \ mark[p] \subseteq Own(p)'
  <2>1. h \ Shown(p) \subseteq Own(p)'
    BY <1>1, <1>2 DEF Settled
  <2>2. Visible(edits', h) \subseteq h
    BY DEF Visible
  <2>3. phase[p] \in Subscribed => mark[p] = Shown(p)
    BY <1>1 DEF Settled
  <2> HIDE DEF h
  <2> QED BY <1>7, <2>1, <2>2, <2>3
<1>9. /\ agent'[p] = Shown(p) \cup agent[p]
      /\ \A q \in Pages \ {p} : agent'[q] = agent[q]
  BY <1>1, <1>5 DEF Typed
<1> HIDE DEF h
<1>10. /\ Others(p) /\ doc'[p] = h /\ mark' \in [Pages -> Docs']
       /\ \A q \in Pages \ {p} : mark'[q] = mark[q] /\ up'[q] = up[q]
       /\ phase[p] \in Subscribed => mark'[p] = Shown(p)'
       /\ Shown(p) \subseteq Shown(p)' /\ Shown(p)' = Visible(edits', h)
       /\ log'[p] \cup Appending(p)' \subseteq Own(p)' /\ Upward(p)'
       /\ \/ up'[p] = up[p]
          \/ phase[p] \in Subscribed /\ Last(up'[p]) = Shown(p)' \ mark[p]
  BY <1>1, <1>2, <1>5, <1>6, <1>8, Shipped
<1>11. Settled(p)'
  <2>1. Whole(edits', agent'[p]) /\ agent'[p] \subseteq Shown(p)'
    BY <1>1, <1>7, <1>9, <1>10
  <2>2. doc'[p] \ Shown(p)' \subseteq Own(p)'
    BY <1>1, <1>2, <1>10, <2>1 DEF Settled, h
  <2>3. Fresh(p)' /\ heard'[p] \subseteq Shown(p)'
    BY <1>1, <1>10 DEF Settled, Fresh
  <2> QED BY <1>1, <1>10, <2>1, <2>2, <2>3 DEF Settled
<1>12. \A q \in Pages \ {p} :
         Settled(q)' /\ Upward(q)' /\ Downward(q)' /\ Shown(q)' = Shown(q)
  BY <1>1, <1>2, <1>9, <1>10, OtherWires
<1>13. Downward(p)'
  BY <1>1, <1>2, <1>10, DownwardGrows
<1>14. Peers'
  <2>1. budget'["leaves"] = budget["leaves"]
    BY <1>1, SpentElse DEF Link, Bounded
  <2> QED BY <1>1, <1>9, <1>10, <1>12, <2>1, PeersStay
<1>15. RoomWhole' /\ TypedWire'
  BY <1>1, <1>2, <1>10 DEF RoomWhole, TypedWire
<1>16. Echo
  <2>1. CASE phase[p] \in Subscribed
    <3>1. heard'[p] \subseteq mark[p]
      BY <1>1, <1>8, <2>1 DEF Settled
    <3> QED BY <1>10, <3>1, EchoFrom
  <2>2. CASE up'[p] = up[p]
    <3>1. \A q \in Pages : up'[q] = up[q] /\ Len(up[q]) \in Nat
      BY <1>1, <1>10, <2>2 DEF Typed
    <3> QED BY <3>1 DEF Echo
  <2> QED BY <1>10, <2>1, <2>2
<1> QED BY <1>10, <1>11, <1>12, <1>13, <1>14, <1>15, <1>16 DEF WireInv

(* The first frame on a page's wire waits for nothing there, and the       *)
(* watermark it leaves covers it and nothing else: what a peer made before *)
(* is among what its edits were made on.                                   *)
LEMMA ReceiveWire ==
  ASSUME IInv, WireInv, NEW p \in Pages, Receive(p)
  PROVE  WireInv' /\ Echo
<1> DEFINE f == Head(down[p])
           h == doc[p] \cup f
           m == MarkPast(p, f)
<1>1. /\ Typed /\ TypedWire /\ Causal /\ Settled(p) /\ Upward(p) /\ Downward(p)
      /\ RoomWhole /\ Peers /\ UNCHANGED <<edits, agent, budget>>
      /\ UNCHANGED <<phase, sock, timer, ever, room, kept, hasContent>>
      /\ sock[p] \in {"open", "closing"} /\ down[p] # <<>>
      /\ down' = [down EXCEPT ![p] = Tail(@)]
  BY DEF IInv, WireInv, Receive, bridge, server
<1>2. Grows /\ Causal' /\ Own(p)' = Own(p) /\ Docs' = Docs /\ DOMAIN edits = Known
  BY <1>1, SameEdits, SameTypes DEF Own, Known, Typed
<1>3. /\ doc[p] \in Docs /\ Shown(p) \in Docs /\ Shown(p) \subseteq doc[p]
      /\ Whole(edits, Shown(p)) /\ down[p] \in Seq(Docs)
  BY <1>1, ShownFacts DEF Typed
<1>4. down'[p] = Tail(down[p]) /\ \A q \in Pages \ {p} : down'[q] = down[q]
  BY <1>1 DEF Typed
<1>5. RoomWhole'
  BY <1>1 DEF RoomWhole
<1>6. CASE phase[p] # "live"
  <2>1. UNCHANGED <<doc, mark, up, log, writes, heard>>
    BY <1>6 DEF Receive, disk
  <2>2. TypedWire' /\ Peers'
    <3>1. \A q \in Pages : Shown(q) \subseteq Shown(q)' /\ agent[q] \subseteq agent'[q]
      BY <1>1, <2>1 DEF Shown
    <3> QED BY <1>1, <1>2, <2>1, <3>1, PeersStay DEF TypedWire
  <2>3. ASSUME NEW q \in Pages PROVE Settled(q)' /\ Shown(q)' = Shown(q)
    <3>1. Settled(q) /\ Own(q) \subseteq Own(q)'
      BY <1>2, OwnGrows DEF WireInv
    <3> QED BY <1>1, <1>2, <2>1, <3>1, SettledStays DEF Settled, Fresh, Appending
  <2>4. Upward(p)' /\ Downward(p)'
    BY <1>1, <1>6, <2>1, <2>3 DEF Upward, Downward, InOrder
  <2>5. ASSUME NEW q \in Pages \ {p} PROVE Upward(q)' /\ Downward(q)'
    BY <1>1, <1>2, <1>4, <2>1, <2>3, WireStays DEF WireInv
  <2>6. Echo
    <3>1. \A q \in Pages : up'[q] = up[q] /\ Len(up[q]) \in Nat
      BY <1>1, <2>1 DEF Typed
    <3> QED BY <3>1 DEF Echo
  <2> QED BY <1>5, <2>2, <2>3, <2>4, <2>5, <2>6 DEF WireInv
<1>7. CASE phase[p] = "live"
  <2>1. /\ Becomes(p, edits', h, m) /\ m = mark[p] \cup UpTo(edits, f)
        /\ heard' = [heard EXCEPT ![p] = @ \cup f]
    BY <1>1, <1>7 DEF Receive, MarkPast
  <2>2. /\ InOrder(edits, Shown(p), down[p]) /\ Carried(down[p]) \subseteq room
        /\ room \subseteq Shown(p) \cup Carried(down[p]) /\ mark[p] = Shown(p)
    BY <1>1, <1>7 DEF Downward, Settled, Subscribed
  <2>3. /\ \A o \in f : edits[o].deps \subseteq Shown(p) \cup f
        /\ Carried(down[p]) = f \cup Carried(Tail(down[p]))
        /\ f \in Docs
        /\ \A more : Shown(p) \cup f \subseteq more =>
              InOrder(edits, more, Tail(down[p]))
    BY <1>1, <1>3, <2>2, OrderTail
  <2> HIDE DEF f
  <2>4. UpTo(edits, f) \subseteq Shown(p) \cup f /\ f \subseteq UpTo(edits, f)
    <3>1. ASSUME NEW o \in Known, NEW x \in f, edits[x].peer = edits[o].peer, o <= x
          PROVE  o \in Shown(p) \cup f
      <4>1. x \in Known /\ x \in Nat /\ o \in Nat
        BY <2>3, <3>1 DEF Docs, Known
      <4>2. CASE o = x
        BY <3>1, <4>2
      <4>3. CASE o < x
        <5>1. o \in edits[x].deps
          BY <1>1, <3>1, <4>1, <4>3 DEF Peers
        <5> QED BY <2>3, <3>1, <5>1
      <4> QED BY <3>1, <4>1, <4>2, <4>3
    <3>2. \A x \in f : x \in Known /\ x <= x
      BY <2>3 DEF Docs, Known
    <3> QED BY <1>2, <3>1, <3>2 DEF UpTo
  <2>5. m = Shown(p) \cup f
    BY <2>1, <2>2, <2>4
  <2>6. h \in Docs' /\ doc[p] \subseteq h /\ m \in Docs' /\ phase[p] # "off"
    BY <1>2, <1>3, <1>7, <2>3, <2>5 DEF Docs
  <2>7. Whole(edits, m) /\ m \subseteq Visible(edits', h)
    <3>1. Whole(edits, Shown(p) \cup f)
      BY <1>3, <2>3 DEF Whole
    <3>2. Shown(p) \cup f \subseteq h
      BY <1>3
    <3> QED BY <1>1, <2>5, <3>1, <3>2, WholeShown
  <2>8. /\ Shown(p) \subseteq m /\ m \subseteq Shown(p) \cup room
        /\ Visible(edits', h) \ m \subseteq Own(p)'
    BY <1>1, <1>2, <2>2, <2>3, <2>5 DEF Settled, Visible
  <2> HIDE DEF h, m
  <2>9. /\ Others(p) /\ doc'[p] = h /\ mark' \in [Pages -> Docs']
        /\ \A q \in Pages \ {p} : mark'[q] = mark[q] /\ up'[q] = up[q]
        /\ phase[p] \in Subscribed => mark'[p] = Shown(p)'
        /\ Shown(p) \subseteq Shown(p)' /\ Shown(p)' = Visible(edits', h)
        /\ log'[p] \cup Appending(p)' \subseteq Own(p)' /\ Upward(p)'
        /\ \/ up'[p] = up[p]
           \/ phase[p] \in Subscribed /\ Last(up'[p]) = Shown(p)' \ m
    BY <1>1, <1>2, <2>1, <2>6, <2>7, <2>8, Shipped
  <2>10. /\ heard'[p] = heard[p] \cup f /\ heard' \in [Pages -> Docs']
         /\ \A q \in Pages \ {p} : heard'[q] = heard[q]
    BY <1>1, <1>2, <2>1, <2>3 DEF TypedWire, Docs
  <2>11. Settled(p)'
    <3>1. Whole(edits', agent'[p]) /\ agent'[p] \subseteq Shown(p)' \cup Own(p)'
      BY <1>1, <1>2, <2>9 DEF Settled
    <3>2. doc'[p] \ Shown(p)' \subseteq Own(p)'
      BY <1>1, <1>2, <2>5, <2>7, <2>9 DEF Settled, h
    <3>3. Fresh(p)' /\ heard'[p] \subseteq Shown(p)'
      BY <1>1, <2>5, <2>7, <2>9, <2>10 DEF Settled, Fresh
    <3> QED BY <1>1, <1>7, <2>9, <3>1, <3>2, <3>3 DEF Settled
  <2>12. \A q \in Pages \ {p} :
           Settled(q)' /\ Upward(q)' /\ Downward(q)' /\ Shown(q)' = Shown(q)
    BY <1>1, <1>2, <1>4, <2>9, <2>10, OtherWires
  <2>13. Downward(p)'
    <3>1. Shown(p) \cup f \subseteq Shown(p)'
      BY <2>5, <2>7, <2>9
    <3>2. InOrder(edits, Shown(p)', Tail(down[p]))
      BY <2>3, <3>1
    <3>3. InOrder(edits, Shown(p), down[p])'
      BY <1>1, <1>4, <3>2
    <3>4. /\ Carried(down[p])' \subseteq room'
          /\ room' \subseteq Shown(p)' \cup Carried(down[p])'
      BY <1>1, <1>4, <2>2, <2>3, <3>1
    <3> QED BY <3>3, <3>4 DEF Downward
  <2>14. Peers'
    BY <1>1, <2>9, <2>12, PeersStay
  <2>15. TypedWire'
    BY <1>1, <1>2, <2>9, <2>10 DEF TypedWire
  <2>16. Echo
    <3>1. heard'[p] \subseteq m
      BY <1>1, <2>5, <2>10 DEF Settled
    <3> QED BY <2>9, <3>1, EchoFrom
  <2> QED BY <1>5, <2>9, <2>11, <2>12, <2>13, <2>14, <2>15, <2>16 DEF WireInv
<1> QED BY <1>6, <1>7

-----------------------------------------------------------------------------
LEMMA WireInit == Init => WireInv
<1> SUFFICES ASSUME Init PROVE WireInv
  OBVIOUS
<1>1. edits = <<>> /\ Known = {} /\ {} \in Docs
  BY DEF Init, Known, Docs
<1>2. TypedWire
  BY <1>1 DEF Init, TypedWire, Phases
<1>3. Peers /\ RoomWhole
  BY <1>1 DEF Init, Peers, RoomWhole, Whole
<1>4. ASSUME NEW p \in Pages PROVE Settled(p) /\ Upward(p) /\ Downward(p)
  BY <1>4 DEF Init, Settled, Fresh, Upward, Downward, InOrder, Whole, Appending,
              Shown, Visible, Subscribed
<1> QED BY <1>2, <1>3, <1>4 DEF WireInv

LEMMA WireStep == IInv /\ WireInv /\ [Next]_vars => WireInv' /\ Echo
<1> SUFFICES ASSUME IInv, WireInv, [Next]_vars PROVE WireInv' /\ Echo
  OBVIOUS
<1>1. CASE UNCHANGED vars
  <2>1. /\ Typed /\ TypedWire /\ RoomWhole
        /\ UNCHANGED <<edits, doc, agent, heard, room, kept, hasContent, budget>>
        /\ UNCHANGED <<phase, sock, timer, ever, up, down, log, writes, mark>>
    BY <1>1 DEF IInv, WireInv, vars, page, bridge, wire, disk, server, history
  <2>2. TypedWire' /\ RoomWhole'
    BY <2>1, SameTypes DEF TypedWire, RoomWhole
  <2> QED BY <2>1, <2>2, WiresAside DEF WireInv, Settled, Fresh, Appending
<1>2. ASSUME NEW p \in Pages,
             \/ Open(p) \/ LoadOps(p) \/ Edit(p) \/ AgentEdit(p) \/ Link(p)
             \/ Unlink(p) \/ Flush(p) \/ PutSnapshot(p) \/ WriteOps(p)
      PROVE  WireInv' /\ Echo
  BY <1>2, LoadWire, EditWire, AgentEditWire, LinkWire, BridgeWire, FlushWire,
     PutSnapshotWire, WriteOpsWire DEF PutSnapshot, page
<1>3. ASSUME NEW p \in Pages,
             \/ FailWrite(p) \/ AbortWrite(p) \/ Connect(p) \/ DialFails(p)
             \/ DropSocket(p) \/ Redial(p) \/ Hangup(p) \/ Receive(p) \/ ReceiveFrame(p)
             \/ Dispose(p) \/ Disconnect(p) \/ Leave(p)
      PROVE  WireInv' /\ Echo
  BY <1>3, WriteOpsWire, ConnectWire, BridgeWire, ReceiveWire,
     ReceiveFrameWire, LeaveWire
<1> QED BY <1>1, <1>2, <1>3, ServerWire DEF Next

(* What every wire satisfies in every behaviour: frames come in an order   *)
(* in which an edit follows those it was made on, nothing is missing from  *)
(* what was sent, and a watermark is exactly what its page shows.          *)
THEOREM WireInvariance == Spec => [](IInv /\ WireInv)
<1>1. Init => IInv /\ WireInv
  BY InvInit, WireInit
<1>2. IInv /\ WireInv /\ [Next]_vars => (IInv /\ WireInv)'
  BY InvStep, WireStep
<1> QED BY <1>1, <1>2, PTL DEF Spec

(* The room never waits for a dependency, and a connected page for no edit *)
(* but its own, whatever the network, the server and its store do.         *)
THEOREM NobodyEverStalls == Spec => []NobodyStalls
<1>1. IInv /\ WireInv => NobodyStalls
  <2> SUFFICES ASSUME IInv, WireInv PROVE NobodyStalls
    OBVIOUS
  <2>1. Visible(edits, room) = room
    BY DEF WireInv, RoomWhole, Visible, Whole
  <2>2. ASSUME NEW p \in Pages, NEW o \in doc[p] \ Visible(edits, doc[p])
        PROVE  edits[o].peer[1] = p
    BY <2>2 DEF WireInv, Settled, Own, Shown
  <2> QED BY <2>1, <2>2 DEF NobodyStalls
<1> QED BY <1>1, WireInvariance, PTL

(* No delta a page sends carries an edit that the wire brought it.         *)
THEOREM NothingEchoes == Spec => EchoFree
<1>1. IInv /\ WireInv /\ [Next]_vars => [Echo]_vars
  BY WireStep
<1>2. Echo => \A p \in Pages : Len(up'[p]) = Len(up[p]) + 1 /\ sock[p] = "open" =>
                Last(up'[p]) \cap heard'[p] = {}
  BY DEF Echo
<1> QED BY <1>1, <1>2, WireInvariance, PTL DEF Spec, EchoFree, Echo
=============================================================================
