------------------------- MODULE ControlPlaneProofs -------------------------
(***************************************************************************)
(* Theorems about the control plane, for every set of principals, fields   *)
(* and processes, with crashes and with concurrent commands.               *)
(*                                                                         *)
(* None of the safety properties is inductive alone: a key is written, a   *)
(* token saved, a registry published and a list extended from a process's  *)
(* local state, so the invariants below also say what the processes hold.  *)
(***************************************************************************)
EXTENDS ControlPlane, TLAPS

KeyLabels == {"loadKey", "createKey", "writeKey"}

(* What a process carries from one step to the next. *)
LocalOK(c) ==
    /\ pc[c] \in KeyLabels =>
         /\ job[c].op \in {"seed", "mint"}
         /\ job[c].op = "mint" => job[c].keys[FinanceRoot] = NoKey
    /\ job[c].op = "seed" => job[c].todo # << >>
    /\ pc[c] \in {"truncRegistry", "writeRegistry"} =>
         /\ job[c].op = "seed"
         /\ \A r \in Roots : job[c].keys[r] # NoKey
    /\ pc[c] = "issue" =>
         /\ job[c].op \in {"seed", "mint"}
         /\ job[c].keys[FinanceRoot] # NoKey
    /\ pc[c] \in {"truncCap", "writeCap"} =>
         /\ job[c].op \in {"seed", "mint", "grant"}
         /\ job[c].tok # NoToken
         /\ job[c].op = "seed" => job[c].keys[FinanceRoot] # NoKey
    /\ pc[c] = "approve" => job[c].op = "grant"
    /\ pc[c] \in {"readNames", "truncNames", "writeNames", "readIds",
                  "truncIds", "writeIds"} => job[c].op = "revoke"
    /\ pc[c] = "audit" => job[c].op \in {"mint", "grant", "revoke"}

LocalInv == \A c \in Procs : LocalOK(c)

(* Who holds a key holds the keystore's, and only the creator of a file    *)
(* still waits to write it.                                                *)
KeyInv ==
    /\ KeyAgreement
    /\ \A c \in Procs :
         /\ pc[c] = "writeKey" => keyFile[Wanted(c)] = TornKey
         /\ \A r \in Roots :
              job[c].keys[r] # NoKey => keyFile[r] = job[c].keys[r]
         /\ job[c].tok # NoToken => job[c].tok.key = keyFile[FinanceRoot]
    /\ \A c, d \in Procs :
         pc[c] = "writeKey" /\ pc[d] = "writeKey" /\ Wanted(c) = Wanted(d)
           => c = d

(* What may be stored, or be on its way to be stored, for a principal. *)
Storable(p, t) ==
    /\ Holder(t) = p
    /\ IF p = Owner
       THEN t.holder = Owner /\ t.chain = << >> /\ t.fields = InitialFields[Owner]
       ELSE ScopeFields(t) \cap NeverDelegable = {}

TokenInv ==
    /\ \A p \in Principals : caps[p] # NoToken => Storable(p, caps[p])
    /\ \A c \in Procs :
         pc[c] \in {"truncCap", "writeCap"} => Storable(Target(c), job[c].tok)

(* A principal whose token is still to be written, by a seed that has not  *)
(* come to it or by a command that has emptied its file.                   *)
Pending(c, p) ==
    \/ /\ pc[c] \in {"issue", "truncCap", "writeCap"} /\ job[c].op = "seed"
       /\ \E i \in DOMAIN job[c].todo : job[c].todo[i] = p
    \/ pc[c] = "writeCap" /\ Target(c) = p

(* Once the public keys are published, everybody has a token or will.      *)
SeedInv ==
    /\ \A c \in Procs :
         job[c].op = "seed" /\ pc[c] \notin {"issue", "truncCap", "writeCap"}
           => job[c].todo = SeedOrder
    /\ crashes = 0 /\ registry # NoRegistry =>
         \A p \in Principals :
           caps[p] # NoToken \/ \E c \in Procs : Pending(c, p)

IInv == TypeOK /\ LocalInv /\ KeyInv /\ TokenInv /\ SeedInv

(* What a revoke holds of the lists it rewrites, if nobody else rewrites   *)
(* them meanwhile: all that was on them, and the one it is about.          *)
Revoked == {p \in Principals : <<"revoke", p>> \in audit}

Extends(c) ==
    /\ pc[c] \in {"truncNames", "writeNames"} =>
         job[c].who \in job[c].nameList /\ Revoked \subseteq job[c].nameList
    /\ job[c].op = "revoke" /\ pc[c] \in {"readIds", "truncIds", "writeIds", "audit"} =>
         job[c].who \in names
    /\ pc[c] \in {"truncIds", "writeIds"} => voided \subseteq job[c].idList

ListInv ==
    /\ \A c \in Procs : job[c].op = "revoke" => c \in Revokers
    /\ crashes = 0 =>
         /\ \A c \in Procs : Extends(c)
         /\ (\A c \in Procs : pc[c] # "writeNames") => Revoked \subseteq names
         /\ (\A c \in Procs : pc[c] # "writeIds") => voided \subseteq ids

(* `revoke` is run by one process at a time. *)
OneRevoker == \A c, d \in Revokers : c = d

-----------------------------------------------------------------------------
(* Operators of Capability. *)

(* The rest of a non-empty sequence is a sequence over the same set. *)
LEMMA HeadTail ==
    ASSUME NEW S, NEW s \in Seq(S), s # << >>
    PROVE  Head(s) \in S /\ Tail(s) \in Seq(S)
  OBVIOUS

(* A signed token is a token. *)
LEMMA SignedType ==
    ASSUME NEW k \in Keys, NEW p \in Principals, NEW n \in Nat,
           ControlPlaneAssumption
    PROVE  Signed(n, k, p, InitialView[p], InitialFields[p], InitialRows[p],
                  Docs) \in Token
  BY DEF Signed, Token, ControlPlaneAssumption

(* Appending keeps everything of a token but the chain. *)
LEMMA AppendType ==
    ASSUME NEW t \in Token, NEW b \in Attenuation
    PROVE  /\ AppendBlock(t, b) \in Token
           /\ AppendBlock(t, b).key = t.key
           /\ AppendBlock(t, b).chain = Append(t.chain, b)
<1>1. t.chain \in Seq(Attenuation) BY DEF Token
<1>2. Append(t.chain, b) \in Seq(Attenuation) BY <1>1
<1>3. t = [id |-> t.id, key |-> t.key, holder |-> t.holder, view |-> t.view,
           fields |-> t.fields, rows |-> t.rows, docs |-> t.docs,
           chain |-> t.chain]
  BY DEF Token
<1>4. AppendBlock(t, b) =
        [id |-> t.id, key |-> t.key, holder |-> t.holder, view |-> t.view,
         fields |-> t.fields, rows |-> t.rows, docs |-> t.docs,
         chain |-> Append(t.chain, b)]
  BY <1>3, SMTT(30) DEF AppendBlock
<1> QED BY <1>2, <1>4 DEF Token

(* Whatever the owner's token grants, one approval block takes every       *)
(* never-delegable field away for good, and hands the token over.          *)
LEMMA ApprovalDeniesSalary ==
    ASSUME NEW t \in Token, NEW b \in Attenuation, b.deny = NeverDelegable
    PROVE  /\ ScopeFields(AppendBlock(t, b)) \cap NeverDelegable = {}
           /\ Holder(AppendBlock(t, b)) = b.held
<1> DEFINE u == AppendBlock(t, b)
<1>1. u.chain = Append(t.chain, b) BY AppendType
<1>2. t.chain \in Seq(Attenuation) BY DEF Token
<1>3. /\ Len(u.chain) \in 1..Len(u.chain)
      /\ u.chain[Len(u.chain)] = b
  BY <1>1, <1>2
<1>4. ASSUME NEW f \in ScopeFields(u) PROVE f \notin NeverDelegable
  BY <1>3, <1>4 DEF ScopeFields
<1>5. Holder(u) = b.held
  BY <1>3 DEF Holder
<1> QED BY <1>4, <1>5

(* Block identifiers of a token are numbers. *)
LEMMA BlockIdsType ==
    ASSUME NEW t \in Token
    PROVE  BlockIds(t) \subseteq Nat
<1>1. t.id \in Nat /\ t.chain \in Seq(Attenuation) BY DEF Token
<1>2. \A i \in 1..Len(t.chain) : t.chain[i] \in Attenuation BY <1>1
<1>3. \A i \in 1..Len(t.chain) : t.chain[i].id \in Nat
  BY <1>2 DEF Attenuation
<1> QED BY <1>1, <1>3 DEF BlockIds

-----------------------------------------------------------------------------
(* Typing of the commands' local state. *)

(* A command starts with well-typed local state. *)
LEMMA NewJobType ==
    ASSUME NEW op \in {"none", "seed", "mint", "grant", "revoke"},
           NEW p \in Principals, NEW v \in Views, NEW fs \in SUBSET Fields,
           NEW n \in Nat, NEW todo \in Seq(Principals)
    PROVE  NewJob(op, p, v, fs, n, todo) \in Job
  BY DEF NewJob, Job, Roots, FinanceRoot

(* So does an idle process. *)
LEMMA NoJobType == NoJob \in Job
<1>1. << >> \in Seq(Principals) OBVIOUS
<1>2. Owner \in Principals /\ InitialView[Owner] \in Views
  BY ControlPlaneAssumption DEF ControlPlaneAssumption
<1> QED BY <1>1, <1>2, NewJobType DEF NoJob

(* The initial files and processes are well-typed. *)
LEMMA TypingInit == Init => TypeOK
<1> SUFFICES ASSUME Init PROVE TypeOK OBVIOUS
<1>1. job \in [Procs -> Job] BY NoJobType DEF Init
<1>2. pc \in [Procs -> Labels] BY DEF Init, Labels
<1> QED BY <1>1, <1>2 DEF Init, TypeOK

(* A process that leaves has well-typed state. *)
LEMMA TypingExit ==
    ASSUME TypeOK, NEW c \in Procs, Exit(c)
    PROVE  pc' \in [Procs -> Labels] /\ job' \in [Procs -> Job]
  BY NoJobType DEF TypeOK, Exit, Goto, Labels

(* Changing one field of a command's local state keeps it well-typed and   *)
(* keeps the other fields.                                                 *)
LEMMA JobUpdate ==
    ASSUME NEW j \in Job
    PROVE  /\ \A ks \in [Roots -> Keys \cup {NoKey}] :
                [j EXCEPT !.keys = ks] \in Job
           /\ \A t \in Token : [j EXCEPT !.tok = t] \in Job
           /\ \A s \in Seq(Principals) : [j EXCEPT !.todo = s] \in Job
           /\ \A l \in SUBSET Principals : [j EXCEPT !.nameList = l] \in Job
           /\ \A l \in SUBSET Nat : [j EXCEPT !.idList = l] \in Job
  BY DEF Job

(* ensure_root_key is asked for one of the two roots. *)
LEMMA WantedType ==
    ASSUME NEW c \in Procs
    PROVE  Wanted(c) \in Roots
  BY DEF Wanted, Roots, FinanceRoot

(* A key in hand goes to the next root, the registry or the signing. *)
LEMMA HaveKeyEffect ==
    ASSUME TypeOK, NEW c \in Procs, NEW k \in Keys, HaveKey(c, k)
    PROVE  LET ks == [job[c].keys EXCEPT ![Wanted(c)] = k]
           IN /\ ks \in [Roots -> Keys \cup {NoKey}]
              /\ job' = [job EXCEPT ![c] = [job[c] EXCEPT !.keys = ks]]
              /\ job'[c] \in Job /\ job'[c].keys = ks
              /\ job'[c].op = job[c].op /\ job'[c].todo = job[c].todo
              /\ job'[c].tok = job[c].tok
              /\ pc' \in [Procs -> Labels]
              /\ \/ pc'[c] = "issue" /\ job[c].op = "mint"
                 \/ /\ pc'[c] = "loadKey" /\ job[c].op # "mint"
                    /\ Wanted(c) = FinanceRoot
                 \/ /\ pc'[c] = "truncRegistry" /\ job[c].op # "mint"
                    /\ Wanted(c) # FinanceRoot
<1> DEFINE ks == [job[c].keys EXCEPT ![Wanted(c)] = k]
<1>1. job[c] \in Job BY DEF TypeOK
<1>2. ks \in [Roots -> Keys \cup {NoKey}]
  BY <1>1, WantedType DEF Job
<1>3. job' = [job EXCEPT ![c] = [job[c] EXCEPT !.keys = ks]]
  BY DEF HaveKey, TypeOK
<1>4. job'[c] = [job[c] EXCEPT !.keys = ks]
  BY <1>3 DEF TypeOK
<1>5. /\ job'[c] \in Job /\ job'[c].keys = ks
      /\ job'[c].op = job[c].op /\ job'[c].todo = job[c].todo
      /\ job'[c].tok = job[c].tok
  BY <1>1, <1>2, <1>4 DEF Job
<1>6. /\ pc' \in [Procs -> Labels]
      /\ \/ pc'[c] = "issue" /\ job[c].op = "mint"
         \/ /\ pc'[c] = "loadKey" /\ job[c].op # "mint"
            /\ Wanted(c) = FinanceRoot
         \/ /\ pc'[c] = "truncRegistry" /\ job[c].op # "mint"
            /\ Wanted(c) # FinanceRoot
  BY DEF HaveKey, Goto, TypeOK, Labels
<1> QED BY <1>2, <1>3, <1>5, <1>6

(* Keeping a key, loaded or generated, is well-typed. *)
LEMMA TypingHaveKey ==
    ASSUME TypeOK, NEW c \in Procs, NEW k \in Keys, HaveKey(c, k)
    PROVE  pc' \in [Procs -> Labels] /\ job' \in [Procs -> Job]
<1> DEFINE n == [job[c] EXCEPT !.keys = [job[c].keys EXCEPT ![Wanted(c)] = k]]
<1>1. pc' \in [Procs -> Labels] /\ job' = [job EXCEPT ![c] = n]
  BY HaveKeyEffect
<1>2. job'[c] \in Job
  BY HaveKeyEffect
<1>3. job'[c] = n
  BY <1>1 DEF TypeOK
<1> HIDE DEF n
<1> QED BY <1>1, <1>2, <1>3 DEF TypeOK

(* Storing a token in a command's local state changes nothing else of it. *)
LEMMA TokUpdate ==
    ASSUME TypeOK, NEW c \in Procs, NEW t \in Token,
           job' = [job EXCEPT ![c] = [job[c] EXCEPT !.tok = t]]
    PROVE  /\ job' \in [Procs -> Job] /\ job'[c].tok = t
           /\ job'[c].op = job[c].op /\ job'[c].who = job[c].who
           /\ job'[c].keys = job[c].keys /\ job'[c].todo = job[c].todo
<1>1. job[c] \in Job /\ [job[c] EXCEPT !.tok = t] \in Job
  BY JobUpdate DEF TypeOK
<1>2. job'[c] = [job[c] EXCEPT !.tok = t] BY DEF TypeOK
<1>3. job' \in [Procs -> Job] BY <1>1 DEF TypeOK
<1> QED BY <1>1, <1>2, <1>3 DEF Job

(* What a signing or an approval hands to the writing of a file. *)
LEMMA IssueEffect ==
    ASSUME TypeOK, LocalInv, NEW c \in Procs, Issue(c)
    PROVE  LET p == Target(c)
               t == Signed(nextId, job[c].keys[FinanceRoot], p,
                           InitialView[p], InitialFields[p], InitialRows[p],
                           Docs)
           IN /\ p \in Principals /\ t \in Token
              /\ job[c].keys[FinanceRoot] \in Keys
              /\ job' \in [Procs -> Job] /\ job'[c].tok = t
              /\ job'[c].op = job[c].op /\ job'[c].who = job[c].who
              /\ job'[c].keys = job[c].keys /\ job'[c].todo = job[c].todo
              /\ pc' = [pc EXCEPT ![c] = "truncCap"]
<1> DEFINE p == Target(c)
           t == Signed(nextId, job[c].keys[FinanceRoot], p, InitialView[p],
                       InitialFields[p], InitialRows[p], Docs)
<1>1. job[c] \in Job /\ LocalOK(c) /\ pc[c] = "issue"
  BY DEF TypeOK, LocalInv, Issue
<1>2. p \in Principals
  BY <1>1, HeadTail DEF Target, LocalOK, Job
<1>3. job[c].keys[FinanceRoot] \in Keys
  BY <1>1 DEF LocalOK, Job, Roots
<1>4. t \in Token
  BY <1>2, <1>3, SignedType, ControlPlaneAssumption DEF TypeOK
<1>5. /\ job' = [job EXCEPT ![c] = [job[c] EXCEPT !.tok = t]]
      /\ pc' = [pc EXCEPT ![c] = "truncCap"]
  BY DEF Issue, Goto
<1>6. /\ job' \in [Procs -> Job] /\ job'[c].tok = t
      /\ job'[c].op = job[c].op /\ job'[c].who = job[c].who
      /\ job'[c].keys = job[c].keys /\ job'[c].todo = job[c].todo
  <2>1. t \in Token /\ job' = [job EXCEPT ![c] = [job[c] EXCEPT !.tok = t]]
    BY <1>4, <1>5
  <2> HIDE DEF t
  <2> QED BY <2>1, TokUpdate
<1> QED BY <1>2, <1>3, <1>4, <1>5, <1>6

(* An approval extends the owner's token and hands it to the writing.      *)
LEMMA ApproveEffect ==
    ASSUME TypeOK, NEW c \in Procs, Approve(c),
           MayGrant(job[c].who, job[c].view, job[c].fields)
    PROVE  LET b == ApprovalBlock(nextId, Owner, job[c].who, job[c].fields,
                                  Teams, now + job[c].ttl)
               t == AppendBlock(caps[Owner], b)
           IN /\ caps[Owner] \in Token /\ b \in Attenuation /\ t \in Token
              /\ job' \in [Procs -> Job] /\ job'[c].tok = t
              /\ job'[c].op = job[c].op /\ job'[c].who = job[c].who
              /\ job'[c].keys = job[c].keys /\ job'[c].todo = job[c].todo
              /\ nextId' = nextId + 1
              /\ pc' = [pc EXCEPT ![c] = "truncCap"]
<1> DEFINE b == ApprovalBlock(nextId, Owner, job[c].who, job[c].fields,
                              Teams, now + job[c].ttl)
           t == AppendBlock(caps[Owner], b)
<1>1. job[c] \in Job BY DEF TypeOK
<1>2. caps[Owner] \in Token
  BY ControlPlaneAssumption
     DEF MayGrant, Loads, TypeOK, ControlPlaneAssumption
<1>3. b \in Attenuation
  BY <1>1, FieldAssumption, ControlPlaneAssumption
     DEF ApprovalBlock, Attenuation, Job, TypeOK, FieldAssumption,
         ControlPlaneAssumption
<1>4. t \in Token BY <1>2, <1>3, AppendType
<1>5. /\ job' = [job EXCEPT ![c] = [job[c] EXCEPT !.tok = t]]
      /\ nextId' = nextId + 1
      /\ pc' = [pc EXCEPT ![c] = "truncCap"]
  BY DEF Approve, Goto
<1>6. /\ job' \in [Procs -> Job] /\ job'[c].tok = t
      /\ job'[c].op = job[c].op /\ job'[c].who = job[c].who
      /\ job'[c].keys = job[c].keys /\ job'[c].todo = job[c].todo
  <2>1. t \in Token /\ job' = [job EXCEPT ![c] = [job[c] EXCEPT !.tok = t]]
    BY <1>4, <1>5
  <2> HIDE DEF t
  <2> QED BY <2>1, TokUpdate
<1> QED BY <1>2, <1>3, <1>4, <1>5, <1>6

(* The file a command writes is a principal's. *)
LEMMA TargetType ==
    ASSUME TypeOK, LocalInv, NEW c \in Procs
    PROVE  Target(c) \in Principals
<1>1. job[c] \in Job /\ LocalOK(c) BY DEF TypeOK, LocalInv
<1> QED BY <1>1, HeadTail DEF Target, LocalOK, Job

-----------------------------------------------------------------------------
(* Typing is preserved. *)
THEOREM TypingStep == TypeOK /\ LocalInv /\ [Next]_vars => TypeOK'
<1> SUFFICES ASSUME TypeOK, LocalInv, [Next]_vars PROVE TypeOK'
  OBVIOUS
<1> USE ControlPlaneAssumption DEF ControlPlaneAssumption
<1>1. CASE UNCHANGED vars
  BY <1>1 DEF TypeOK, vars, files
<1>2. CASE Tick /\ UNCHANGED crashes
  BY <1>2 DEF Tick, TypeOK, files
<1>3. ASSUME NEW c \in Procs, Command(c), UNCHANGED crashes PROVE TypeOK'
  <2> USE <1>3
  <2>1. ASSUME NEW l \in Labels, NEW j \in Job, Start(c, l, j) PROVE TypeOK'
    BY <2>1 DEF Start, TypeOK, files, Goto
  <2>2. CASE StartSeed(c)
    BY <2>1, <2>2, NewJobType DEF StartSeed, Labels
  <2>3. CASE StartMint(c)
    <3>1. PICK p \in Principals :
            Start(c, "loadKey", NewJob("mint", p, InitialView[p], {}, 0, << >>))
      BY <2>3 DEF StartMint
    <3>2. << >> \in Seq(Principals) /\ InitialView[p] \in Views OBVIOUS
    <3>3. NewJob("mint", p, InitialView[p], {}, 0, << >>) \in Job
      BY <3>2, NewJobType
    <3> QED BY <2>1, <3>1, <3>3 DEF Labels
  <2>4. CASE StartGrant(c)
    <3>1. PICK p \in Principals, v \in Views, fs \in FieldRequests, ttl \in TTLs :
            Start(c, "approve", NewJob("grant", p, v, fs, ttl, << >>))
      BY <2>4 DEF StartGrant
    <3>2. << >> \in Seq(Principals) /\ fs \in SUBSET Fields /\ ttl \in Nat
      OBVIOUS
    <3>3. NewJob("grant", p, v, fs, ttl, << >>) \in Job
      BY <3>2, NewJobType
    <3> QED BY <2>1, <3>1, <3>3 DEF Labels
  <2>5. CASE StartRevoke(c)
    <3>1. PICK p \in Principals :
            Start(c, "readNames",
                  NewJob("revoke", p, InitialView[p], {}, 0, << >>))
      BY <2>5 DEF StartRevoke
    <3>2. << >> \in Seq(Principals) /\ InitialView[p] \in Views OBVIOUS
    <3>3. NewJob("revoke", p, InitialView[p], {}, 0, << >>) \in Job
      BY <3>2, NewJobType
    <3> QED BY <2>1, <3>1, <3>3 DEF Labels
  <2> QED BY <2>2, <2>3, <2>4, <2>5 DEF Command
<1>4. ASSUME NEW c \in Procs, Crash(c) PROVE TypeOK'
  BY <1>4, TypingExit DEF Crash, TypeOK, files
<1>5. ASSUME NEW c \in Procs, Step(c), UNCHANGED crashes PROVE TypeOK'
  <2> USE <1>5
  <2>0. job[c] \in Job BY DEF TypeOK
  <2>1. CASE LoadKey(c)
    <3>1. CASE Exit(c)
      BY <2>1, <3>1, TypingExit DEF LoadKey, TypeOK, files
    <3>2. CASE keyFile[Wanted(c)] \in Keys
               /\ HaveKey(c, keyFile[Wanted(c)])
      BY <2>1, <3>2, TypingHaveKey DEF LoadKey, TypeOK, files
    <3>3. CASE Goto(c, "createKey") /\ UNCHANGED job
      BY <2>1, <3>3 DEF LoadKey, Goto, TypeOK, Labels, files
    <3> QED BY <2>1, <3>1, <3>2, <3>3 DEF LoadKey
  <2>2. CASE CreateKey(c)
    BY <2>2 DEF CreateKey, Goto, TypeOK, Labels
  <2>3. CASE WriteKey(c)
    BY <2>3, TypingHaveKey DEF WriteKey, TypeOK
  <2>4. CASE TruncRegistry(c)
    BY <2>4 DEF TruncRegistry, Goto, TypeOK, Labels
  <2>5. CASE WriteRegistry(c)
    <3>1. job[c].keys \in [Roots -> Keys]
      BY <2>0, <2>5 DEF WriteRegistry, LocalInv, LocalOK, Job
    <3> QED BY <2>5, <3>1 DEF WriteRegistry, Goto, TypeOK, Labels
  <2>6. CASE Issue(c)
    <3>1. job' \in [Procs -> Job] /\ pc' \in [Procs -> Labels]
      BY <2>6, IssueEffect DEF TypeOK, Labels
    <3> QED BY <2>6, <3>1 DEF Issue, TypeOK, files
  <2>7. CASE Approve(c)
    <3>1. CASE MayGrant(job[c].who, job[c].view, job[c].fields)
      <4>1. /\ job' \in [Procs -> Job] /\ pc' \in [Procs -> Labels]
            /\ nextId' \in Nat
        BY <2>7, <3>1, ApproveEffect DEF TypeOK, Labels
      <4> QED BY <2>7, <4>1 DEF Approve, TypeOK, files
    <3>2. CASE ~MayGrant(job[c].who, job[c].view, job[c].fields)
      BY <2>7, <3>2, TypingExit DEF Approve, TypeOK, files
    <3> QED BY <3>1, <3>2
  <2>8. CASE TruncCap(c)
    BY <2>8 DEF TruncCap, Goto, TypeOK, Labels
  <2>9. CASE WriteCap(c)
    <3>1. caps' \in [Principals -> Token \cup {NoToken}]
      BY <2>0, <2>9, TargetType DEF WriteCap, TypeOK, Job
    <3>2. CASE Exit(c)
      BY <2>9, <3>1, <3>2, TypingExit DEF WriteCap, TypeOK
    <3>3. CASE Goto(c, "audit") /\ UNCHANGED job
      BY <2>9, <3>1, <3>3 DEF WriteCap, Goto, TypeOK, Labels
    <3>4. CASE /\ job[c].op = "seed" /\ Goto(c, "issue")
               /\ job' = [job EXCEPT ![c].todo = Tail(job[c].todo)]
      <4>1. Tail(job[c].todo) \in Seq(Principals)
        BY <2>0, <3>4, HeadTail DEF LocalInv, LocalOK, Job
      <4>2. [job[c] EXCEPT !.todo = Tail(job[c].todo)] \in Job
        BY <2>0, <4>1, JobUpdate
      <4> QED BY <2>9, <3>1, <3>4, <4>2 DEF WriteCap, Goto, TypeOK, Labels
    <3> QED BY <2>9, <3>2, <3>3, <3>4 DEF WriteCap
  <2>10. CASE ReadNames(c)
    <3>1. names \cup {job[c].who} \in SUBSET Principals
      BY <2>0 DEF TypeOK, Job
    <3>2. [job[c] EXCEPT !.nameList = names \cup {job[c].who}] \in Job
      BY <2>0, <3>1, JobUpdate
    <3> QED BY <2>10, <3>2 DEF ReadNames, Goto, TypeOK, Labels, files
  <2>11. CASE TruncNames(c)
    BY <2>11 DEF TruncNames, Goto, TypeOK, Labels
  <2>12. CASE WriteNames(c)
    BY <2>0, <2>12 DEF WriteNames, Goto, TypeOK, Labels, Job
  <2>13. CASE ReadIds(c)
    <3> DEFINE t == caps[job[c].who]
    <3>1. CASE t = NoToken
      BY <2>13, <3>1 DEF ReadIds, Goto, TypeOK, Labels, files
    <3>2. CASE t # NoToken
      <4>1. t \in Token BY <2>0, <3>2 DEF TypeOK, Job
      <4>2. ids \cup BlockIds(t) \in SUBSET Nat
        BY <4>1, BlockIdsType DEF TypeOK
      <4>3. [job[c] EXCEPT !.idList = ids \cup BlockIds(t)] \in Job
        BY <2>0, <4>2, JobUpdate
      <4> QED BY <2>13, <3>2, <4>3, ZenonT(40) DEF ReadIds, Goto, TypeOK, Labels, files
    <3> QED BY <3>1, <3>2
  <2>14. CASE TruncIds(c)
    BY <2>14 DEF TruncIds, Goto, TypeOK, Labels
  <2>15. CASE WriteIds(c)
    BY <2>0, <2>15 DEF WriteIds, Goto, TypeOK, Labels, Job
  <2>16. CASE Record(c)
    <3>1. job[c].op \in {"mint", "grant", "revoke"} /\ job[c].who \in Principals
      BY <2>0, <2>16 DEF Record, LocalInv, LocalOK, Job
    <3>2. audit' = audit \cup {<<job[c].op, job[c].who>>}
      BY <2>16 DEF Record
    <3>3. <<job[c].op, job[c].who>> \in {"mint", "grant", "revoke"} \X Principals
      BY <3>1
    <3>4. audit \subseteq {"mint", "grant", "revoke"} \X Principals
      BY DEF TypeOK
    <3>5. audit' \subseteq {"mint", "grant", "revoke"} \X Principals
      BY <3>2, <3>3, <3>4, Zenon
    <3> QED BY <2>16, <3>5, TypingExit DEF Record, TypeOK
  <2> QED BY <2>1, <2>2, <2>3, <2>4, <2>5, <2>6, <2>7, <2>8, <2>9, <2>10,
             <2>11, <2>12, <2>13, <2>14, <2>15, <2>16 DEF Step
<1> QED BY <1>1, <1>2, <1>3, <1>4, <1>5 DEF Next

-----------------------------------------------------------------------------
(* A step of one process leaves every other process where it is. *)
LEMMA OthersUntouched ==
    ASSUME TypeOK, NEW c \in Procs, Command(c) \/ Step(c) \/ Crash(c),
           NEW d \in Procs, d # c
    PROVE  pc'[d] = pc[d] /\ job'[d] = job[d]
<1> USE DEF TypeOK, Goto, Exit
<1>1. CASE Command(c)
  BY <1>1 DEF Command, Start, StartSeed, StartMint, StartGrant, StartRevoke
<1>2. CASE Crash(c)
  BY <1>2 DEF Crash
<1>3. CASE LoadKey(c) \/ CreateKey(c) \/ WriteKey(c)
  BY <1>3 DEF LoadKey, CreateKey, WriteKey, HaveKey
<1>4. CASE TruncRegistry(c) \/ WriteRegistry(c) \/ TruncCap(c)
           \/ WriteCap(c) \/ TruncNames(c) \/ WriteNames(c)
           \/ TruncIds(c) \/ WriteIds(c) \/ Record(c)
  BY <1>4 DEF TruncRegistry, WriteRegistry, TruncCap, WriteCap,
              TruncNames, WriteNames, TruncIds, WriteIds, Record
<1>5. CASE Issue(c) \/ Approve(c)
  BY <1>5 DEF Issue, Approve
<1>6. CASE ReadNames(c) \/ ReadIds(c)
  BY <1>6 DEF ReadNames, ReadIds
<1> QED BY <1>1, <1>2, <1>3, <1>4, <1>5, <1>6 DEF Step

(* What a process is at after leaving: nothing is asked of it. *)
LEMMA LocalExit ==
    ASSUME TypeOK, NEW c \in Procs, Exit(c)
    PROVE  LocalOK(c)'
<1>1. pc'[c] = "idle" /\ job'[c].op = "none"
  BY DEF Exit, Goto, TypeOK, NoJob, NewJob
<1> QED BY <1>1 DEF LocalOK, KeyLabels

(* Having a key, the next label finds what it needs. *)
LEMMA LocalHaveKey ==
    ASSUME TypeOK, NEW c \in Procs, LocalOK(c), pc[c] \in KeyLabels,
           NEW k \in Keys, HaveKey(c, k)
    PROVE  LocalOK(c)'
<1> DEFINE ks == [job[c].keys EXCEPT ![Wanted(c)] = k]
<1>1. /\ job'[c].keys = ks /\ job'[c].op = job[c].op
      /\ job'[c].todo = job[c].todo
      /\ \/ pc'[c] = "issue" /\ job[c].op = "mint"
         \/ /\ pc'[c] = "loadKey" /\ job[c].op # "mint"
            /\ Wanted(c) = FinanceRoot
         \/ /\ pc'[c] = "truncRegistry" /\ job[c].op # "mint"
            /\ Wanted(c) # FinanceRoot
  BY HaveKeyEffect
<1>2. job[c] \in Job BY DEF TypeOK
<1>3. job[c].op \in {"seed", "mint"} BY DEF LocalOK
<1>4. ks[Wanted(c)] = k /\ k # NoKey
  BY <1>2, WantedType, AbsentValues DEF Job, AbsentValues
<1>5. CASE job[c].op = "mint"
  <2>1. Wanted(c) = FinanceRoot BY <1>5 DEF LocalOK, Wanted
  <2> QED BY <1>1, <1>4, <1>5, <2>1 DEF LocalOK, KeyLabels
<1>6. CASE job[c].op # "mint" /\ Wanted(c) = FinanceRoot
  BY <1>1, <1>3, <1>6 DEF LocalOK, KeyLabels
<1>7. CASE job[c].op # "mint" /\ Wanted(c) # FinanceRoot
  <2>1. job[c].keys[FinanceRoot] # NoKey /\ Wanted(c) = "control-plane"
    BY <1>7 DEF Wanted
  <2>2. \A q \in Roots : ks[q] # NoKey
    BY <1>2, <1>4, <2>1 DEF Roots, FinanceRoot, Job
  <2> QED BY <1>1, <1>3, <1>7, <2>2 DEF LocalOK, KeyLabels
<1> QED BY <1>5, <1>6, <1>7

(* Every step leaves its own process with what its next step needs. *)
LEMMA LocalStep ==
    ASSUME TypeOK, LocalInv, NEW c \in Procs,
           Command(c) \/ Step(c) \/ Crash(c)
    PROVE  LocalOK(c)'
<1>0. job[c] \in Job /\ LocalOK(c) BY DEF TypeOK, LocalInv
<1> DEFINE Moves(a, b) == pc[c] = a /\ pc'[c] = b
<1>1. CASE Command(c)
  <2>1. ASSUME NEW j \in Job, NEW l \in Labels, Start(c, l, j)
        PROVE  pc'[c] = l /\ job'[c] = j
    BY <2>1 DEF Start, Goto, TypeOK
  <2>2. CASE StartSeed(c)
    <3> DEFINE j == NewJob("seed", Owner, InitialView[Owner], {}, 0, SeedOrder)
    <3>1. pc'[c] = "loadKey" /\ job'[c] = j
      BY <2>2 DEF StartSeed, Start, Goto, TypeOK
    <3>2. j.op = "seed" /\ j.todo # << >>
      BY ControlPlaneAssumption DEF NewJob, ControlPlaneAssumption
    <3> QED BY <3>1, <3>2 DEF LocalOK, KeyLabels
  <2>3. CASE StartMint(c)
    <3>1. PICK p \in Principals :
            Start(c, "loadKey", NewJob("mint", p, InitialView[p], {}, 0, << >>))
      BY <2>3 DEF StartMint
    <3> DEFINE j == NewJob("mint", p, InitialView[p], {}, 0, << >>)
    <3>2. pc'[c] = "loadKey" /\ job'[c] = j
      BY <3>1 DEF Start, Goto, TypeOK
    <3>3. j.op = "mint" /\ j.keys[FinanceRoot] = NoKey
      BY DEF NewJob, Roots
    <3> QED BY <3>2, <3>3 DEF LocalOK, KeyLabels
  <2>4. CASE StartGrant(c)
    <3>1. PICK p \in Principals, v \in Views, fs \in FieldRequests, ttl \in TTLs :
            Start(c, "approve", NewJob("grant", p, v, fs, ttl, << >>))
      BY <2>4 DEF StartGrant
    <3>2. pc'[c] = "approve" /\ job'[c].op = "grant"
      BY <3>1 DEF Start, Goto, TypeOK, NewJob
    <3> QED BY <3>2 DEF LocalOK, KeyLabels
  <2>5. CASE StartRevoke(c)
    <3>1. PICK p \in Principals :
            Start(c, "readNames",
                  NewJob("revoke", p, InitialView[p], {}, 0, << >>))
      BY <2>5 DEF StartRevoke
    <3>2. pc'[c] = "readNames" /\ job'[c].op = "revoke"
      BY <3>1 DEF Start, Goto, TypeOK, NewJob
    <3> QED BY <3>2 DEF LocalOK, KeyLabels
  <2> QED BY <1>1, <2>2, <2>3, <2>4, <2>5 DEF Command
<1>2. CASE Exit(c)
  BY <1>2, LocalExit
<1>3. CASE LoadKey(c)
  <2>1. CASE Goto(c, "createKey") /\ UNCHANGED job
    <3>1. pc'[c] = "createKey" /\ job'[c] = job[c] /\ pc[c] = "loadKey"
      BY <1>3, <2>1 DEF LoadKey, Goto, TypeOK
    <3> QED BY <1>0, <3>1 DEF LocalOK, KeyLabels
  <2>2. ASSUME keyFile[Wanted(c)] \in Keys, HaveKey(c, keyFile[Wanted(c)])
        PROVE  LocalOK(c)'
    BY <1>0, <1>3, <2>2, LocalHaveKey DEF LoadKey, KeyLabels
  <2> QED BY <1>2, <1>3, <2>1, <2>2 DEF LoadKey
<1>4. CASE CreateKey(c)
  <2>1. /\ pc'[c] \in {"writeKey", "loadKey"} /\ job'[c] = job[c]
        /\ pc[c] = "createKey"
    BY <1>4 DEF CreateKey, Goto, TypeOK
  <2> QED BY <1>0, <2>1 DEF LocalOK, KeyLabels
<1>5. CASE WriteKey(c)
  <2>1. c \in Keys BY ControlPlaneAssumption DEF ControlPlaneAssumption
  <2> QED BY <1>0, <1>5, <2>1, LocalHaveKey DEF WriteKey, KeyLabels
<1>6. CASE TruncRegistry(c) \/ WriteRegistry(c)
  <2>1. /\ job'[c] = job[c]
        /\ Moves("truncRegistry", "writeRegistry")
             \/ Moves("writeRegistry", "issue")
    BY <1>6 DEF TruncRegistry, WriteRegistry, Goto, TypeOK
  <2> QED BY <1>0, <2>1 DEF LocalOK, KeyLabels, Roots, FinanceRoot
<1>7. CASE Issue(c)
  <2>1. /\ job'[c].op = job[c].op /\ job'[c].tok \in Token
        /\ job'[c].keys = job[c].keys /\ job'[c].todo = job[c].todo
        /\ Moves("issue", "truncCap")
    BY <1>7, IssueEffect DEF Issue, TypeOK
  <2>2. job'[c].tok # NoToken
    BY <2>1, AbsentValues DEF AbsentValues
  <2> QED BY <1>0, <2>1, <2>2 DEF LocalOK, KeyLabels
<1>8. CASE Approve(c) /\ MayGrant(job[c].who, job[c].view, job[c].fields)
  <2>1. /\ job'[c].op = job[c].op /\ job'[c].tok \in Token
        /\ job'[c].keys = job[c].keys /\ job'[c].todo = job[c].todo
        /\ Moves("approve", "truncCap")
    BY <1>8, ApproveEffect DEF Approve, TypeOK
  <2>2. job'[c].tok # NoToken
    BY <2>1, AbsentValues DEF AbsentValues
  <2> QED BY <1>0, <2>1, <2>2 DEF LocalOK, KeyLabels
<1>9. CASE TruncCap(c)
  <2>1. job'[c] = job[c] /\ Moves("truncCap", "writeCap")
    BY <1>9 DEF TruncCap, Goto, TypeOK
  <2> QED BY <1>0, <2>1 DEF LocalOK, KeyLabels
<1>10. CASE WriteCap(c) /\ ~Exit(c)
  <2>1. CASE job[c].op # "seed"
    <3>1. job'[c] = job[c] /\ Moves("writeCap", "audit")
      BY <1>10, <2>1 DEF WriteCap, Goto, TypeOK
    <3> QED BY <1>0, <2>1, <3>1 DEF LocalOK, KeyLabels
  <2>2. CASE job[c].op = "seed"
    <3>1. /\ job'[c] = [job[c] EXCEPT !.todo = Tail(job[c].todo)]
          /\ Tail(job[c].todo) # << >> /\ Moves("writeCap", "issue")
      BY <1>10, <2>2 DEF WriteCap, Goto, TypeOK
    <3>2. /\ job'[c].op = "seed" /\ job'[c].todo # << >>
          /\ job'[c].keys = job[c].keys
      BY <1>0, <2>2, <3>1 DEF Job
    <3> QED BY <1>0, <2>2, <3>1, <3>2 DEF LocalOK, KeyLabels
  <2> QED BY <2>1, <2>2
<1>11. CASE ReadNames(c) \/ TruncNames(c) \/ WriteNames(c) \/ ReadIds(c)
            \/ TruncIds(c) \/ WriteIds(c)
  <2>1. /\ job'[c].op = job[c].op
        /\ pc[c] \in {"readNames", "truncNames", "writeNames", "readIds",
                      "truncIds", "writeIds"}
        /\ pc'[c] \in {"truncNames", "writeNames", "readIds", "truncIds",
                       "writeIds", "audit"}
    BY <1>0, <1>11 DEF ReadNames, TruncNames, WriteNames, ReadIds, TruncIds,
                       WriteIds, Goto, TypeOK, Job
  <2> QED BY <1>0, <2>1 DEF LocalOK, KeyLabels
<1> QED
  BY <1>1, <1>2, <1>3, <1>4, <1>5, <1>6, <1>7, <1>8, <1>9, <1>10, <1>11
     DEF Step, Crash, Record, Approve

(* LocalInv is preserved. *)
LEMMA LocalInvStep == TypeOK /\ LocalInv /\ [Next]_vars => LocalInv'
<1> SUFFICES ASSUME TypeOK, LocalInv, [Next]_vars PROVE LocalInv'
  OBVIOUS
<1>1. CASE UNCHANGED vars
  BY <1>1 DEF LocalInv, LocalOK, vars
<1>2. CASE Tick
  BY <1>2 DEF Tick, LocalInv, LocalOK
<1>3. ASSUME NEW c \in Procs, Command(c) \/ Step(c) \/ Crash(c)
      PROVE  LocalInv'
  <2> SUFFICES ASSUME NEW d \in Procs PROVE LocalOK(d)'
    BY DEF LocalInv
  <2>1. CASE d = c
    BY <1>3, <2>1, LocalStep
  <2>2. CASE d # c
    <3>1. pc'[d] = pc[d] /\ job'[d] = job[d] /\ LocalOK(d)
      BY <1>3, <2>2, OthersUntouched DEF LocalInv
    <3> QED BY <3>1 DEF LocalOK
  <2> QED BY <2>1, <2>2
<1> QED BY <1>1, <1>2, <1>3 DEF Next

-----------------------------------------------------------------------------
(* Keys. *)

(* The part of KeyInv about one process. *)
KeyOK(c) ==
    /\ pc[c] = "writeKey" => keyFile[Wanted(c)] = TornKey
    /\ \A r \in Roots : job[c].keys[r] # NoKey => keyFile[r] = job[c].keys[r]
    /\ job[c].tok # NoToken => job[c].tok.key = keyFile[FinanceRoot]

(* A file that is not a key yet is one nobody's state refers to. *)
LEMMA UnwrittenKeyUnused ==
    ASSUME TypeOK, KeyInv, NEW w \in Roots, keyFile[w] \notin Keys
    PROVE  /\ registry = NoRegistry
           /\ \A d \in Procs : job[d].keys[w] = NoKey
           /\ w = FinanceRoot => /\ \A p \in Principals : caps[p] = NoToken
                                 /\ \A d \in Procs : job[d].tok = NoToken
<1>1. registry = NoRegistry
  BY DEF TypeOK, KeyInv, KeyAgreement
<1>2. ASSUME NEW d \in Procs PROVE job[d].keys[w] = NoKey
  <2>1. job[d].keys[w] \in Keys \cup {NoKey} BY DEF TypeOK, Job
  <2> QED BY <2>1 DEF KeyInv
<1>3. ASSUME w = FinanceRoot, NEW p \in Principals PROVE caps[p] = NoToken
  <2>1. caps[p] \in Token => caps[p].key \in Keys BY DEF Token
  <2> QED BY <1>3, <2>1 DEF TypeOK, KeyInv, KeyAgreement
<1>4. ASSUME w = FinanceRoot, NEW d \in Procs PROVE job[d].tok = NoToken
  <2>1. job[d].tok \in Token \cup {NoToken} BY DEF TypeOK, Job
  <2>2. job[d].tok \in Token => job[d].tok.key \in Keys BY DEF Token
  <2> QED BY <1>4, <2>1, <2>2 DEF KeyInv
<1> QED BY <1>1, <1>2, <1>3, <1>4

(* An absent key file is created empty by one process only. *)
LEMMA KeyInvCreate ==
    ASSUME TypeOK, KeyInv, NEW c \in Procs, CreateKey(c)
    PROVE  KeyInv'
<1> DEFINE w == Wanted(c)
<1>0. w \in Roots BY WantedType
<1>1. job' = job /\ registry' = registry /\ caps' = caps
  BY DEF CreateKey
<1>2. CASE keyFile[w] # NoKey
  <2>1. keyFile' = keyFile /\ pc' = [pc EXCEPT ![c] = "loadKey"]
    BY <1>2 DEF CreateKey, Goto
  <2>2. \A d \in Procs : pc'[d] = "writeKey" => pc[d] = "writeKey"
    BY <2>1 DEF TypeOK
  <2> QED BY <1>1, <2>1, <2>2 DEF KeyInv, KeyAgreement, Wanted
<1>3. CASE keyFile[w] = NoKey
  <2>1. /\ keyFile' = [keyFile EXCEPT ![w] = TornKey]
        /\ pc' = [pc EXCEPT ![c] = "writeKey"]
    BY <1>3 DEF CreateKey, Goto
  <2>2. keyFile[w] \notin Keys BY <1>3, AbsentValues DEF AbsentValues
  <2>3. /\ registry = NoRegistry
        /\ \A d \in Procs : job[d].keys[w] = NoKey
        /\ w = FinanceRoot => /\ \A p \in Principals : caps[p] = NoToken
                              /\ \A d \in Procs : job[d].tok = NoToken
    BY <1>0, <2>2, UnwrittenKeyUnused
  <2>4. /\ keyFile'[w] = TornKey
        /\ \A r \in Roots : r # w => keyFile'[r] = keyFile[r]
    BY <1>0, <2>1 DEF TypeOK
  <2>5. \A d \in Procs : pc[d] = "writeKey" => Wanted(d) # w
    BY <1>3, AbsentValues DEF KeyInv, AbsentValues
  <2>6. \A d \in Procs : Wanted(d)' = Wanted(d)
    BY <1>1 DEF Wanted
  <2>7. KeyAgreement'
    BY <1>1, <2>3, <2>4 DEF KeyInv, KeyAgreement, Roots
  <2>8. ASSUME NEW d \in Procs PROVE KeyOK(d)'
    <3>1. (pc[d] = "writeKey" => keyFile[Wanted(d)] = TornKey)'
      <4>1. CASE d = c BY <2>4, <2>6, <4>1
      <4>2. CASE d # c
        <5>1. pc'[d] = pc[d] BY <2>1, <4>2 DEF TypeOK
        <5> QED BY <5>1, <2>4, <2>5, <2>6, WantedType DEF KeyInv
      <4> QED BY <4>1, <4>2
    <3>2. \A r \in Roots : job[d].keys[r] # NoKey => keyFile'[r] = job[d].keys[r]
      BY <2>3, <2>4 DEF KeyInv
    <3>3. job[d].tok # NoToken => job[d].tok.key = keyFile'[FinanceRoot]
      BY <2>3, <2>4 DEF KeyInv, Roots
    <3> QED BY <1>1, <2>6, <3>1, <3>2, <3>3 DEF KeyOK
  <2>9. ASSUME NEW a \in Procs, NEW b \in Procs,
               pc'[a] = "writeKey", pc'[b] = "writeKey",
               Wanted(a) = Wanted(b)
        PROVE  a = b
    <3>1. \A d \in Procs : d # c => pc'[d] = pc[d]
      BY <2>1 DEF TypeOK
    <3> QED BY <2>5, <2>9, <3>1 DEF KeyInv
  <2> QED BY <2>6, <2>7, <2>8, <2>9 DEF KeyInv, KeyOK
<1> QED BY <1>2, <1>3

(* The creator's write turns the empty file into the key it holds. *)
LEMMA KeyInvWrite ==
    ASSUME TypeOK, KeyInv, NEW c \in Procs, WriteKey(c)
    PROVE  KeyInv'
<1> DEFINE w == Wanted(c)
<1>0. w \in Roots /\ c \in Keys /\ pc[c] = "writeKey"
  BY WantedType, ControlPlaneAssumption DEF ControlPlaneAssumption, WriteKey
<1>1. keyFile' = [keyFile EXCEPT ![w] = c] /\ registry' = registry
      /\ caps' = caps /\ HaveKey(c, c)
  BY DEF WriteKey
<1>2. keyFile[w] \notin Keys
  BY <1>0, AbsentValues DEF KeyInv, AbsentValues
<1>3. /\ registry = NoRegistry
      /\ \A d \in Procs : job[d].keys[w] = NoKey
      /\ w = FinanceRoot => /\ \A p \in Principals : caps[p] = NoToken
                            /\ \A d \in Procs : job[d].tok = NoToken
  BY <1>0, <1>2, UnwrittenKeyUnused
<1>4. /\ keyFile'[w] = c
      /\ \A r \in Roots : r # w => keyFile'[r] = keyFile[r]
  BY <1>0, <1>1 DEF TypeOK
<1>5. /\ job'[c].keys = [job[c].keys EXCEPT ![w] = c]
      /\ job'[c].tok = job[c].tok /\ pc'[c] # "writeKey"
  BY <1>0, <1>1, HaveKeyEffect
<1>6. \A d \in Procs : d # c => pc'[d] = pc[d] /\ job'[d] = job[d]
  BY OthersUntouched DEF Step
<1>7. KeyAgreement'
  BY <1>1, <1>3, <1>4 DEF KeyInv, KeyAgreement, Roots
<1>8. KeyOK(c)'
  <2>1. \A r \in Roots : job'[c].keys[r] # NoKey
          => keyFile'[r] = job'[c].keys[r]
    <3>1. job[c].keys \in [Roots -> Keys \cup {NoKey}]
      BY DEF TypeOK, Job
    <3> QED BY <1>0, <1>4, <1>5, <3>1 DEF KeyInv
  <2>2. job'[c].tok # NoToken => job'[c].tok.key = keyFile'[FinanceRoot]
    BY <1>3, <1>4, <1>5 DEF KeyInv, Roots
  <2> QED BY <1>5, <2>1, <2>2 DEF KeyOK
<1>9. ASSUME NEW d \in Procs, d # c PROVE KeyOK(d)' /\ Wanted(d)' = Wanted(d)
  <2>1. Wanted(d)' = Wanted(d) /\ pc'[d] = pc[d] /\ job'[d] = job[d]
    BY <1>6, <1>9 DEF Wanted
  <2>2. pc[d] = "writeKey" => Wanted(d) # w
    BY <1>0, <1>9 DEF KeyInv
  <2>3. (pc[d] = "writeKey" => keyFile[Wanted(d)] = TornKey)'
    BY <1>4, <2>1, <2>2, WantedType DEF KeyInv
  <2>4. \A r \in Roots : job[d].keys[r] # NoKey => keyFile'[r] = job[d].keys[r]
    BY <1>3, <1>4 DEF KeyInv
  <2>5. job[d].tok # NoToken => job[d].tok.key = keyFile'[FinanceRoot]
    BY <1>3, <1>4 DEF KeyInv, Roots
  <2> QED BY <2>1, <2>3, <2>4, <2>5 DEF KeyOK
<1>10. ASSUME NEW a \in Procs, NEW b \in Procs,
              pc'[a] = "writeKey", pc'[b] = "writeKey",
              Wanted(a)' = Wanted(b)'
       PROVE  a = b
  <2>1. a # c /\ b # c BY <1>5, <1>10
  <2> QED BY <1>6, <1>9, <1>10, <2>1 DEF KeyInv
<1> QED BY <1>7, <1>8, <1>9, <1>10 DEF KeyInv, KeyOK

(* Every other step leaves the keystore alone; what it publishes, stores   *)
(* or keeps comes from a key it holds or a token already on disk.          *)
LEMMA KeyInvOther ==
    ASSUME TypeOK, LocalInv, KeyInv, NEW c \in Procs,
           Command(c) \/ Step(c) \/ Crash(c), ~CreateKey(c), ~WriteKey(c)
    PROVE  KeyInv'
<1>0. job[c] \in Job /\ LocalOK(c) /\ KeyOK(c) /\ Target(c) \in Principals
  BY TargetType DEF TypeOK, LocalInv, KeyInv, KeyOK
<1>1. keyFile' = keyFile /\ pc'[c] # "writeKey"
  <2>1. CASE Command(c)
    BY <2>1 DEF Command, StartSeed, StartMint, StartGrant, StartRevoke, Start,
                Goto, TypeOK, files
  <2>2. CASE LoadKey(c)
    BY <2>2 DEF LoadKey, HaveKey, Exit, Goto, TypeOK, files
  <2>3. CASE TruncRegistry(c) \/ WriteRegistry(c) \/ Issue(c) \/ Approve(c)
             \/ TruncCap(c) \/ WriteCap(c)
    BY <2>3 DEF TruncRegistry, WriteRegistry, Issue, Approve, TruncCap,
                WriteCap, Exit, Goto, TypeOK, files
  <2>4. CASE ReadNames(c) \/ TruncNames(c) \/ WriteNames(c) \/ ReadIds(c)
             \/ TruncIds(c) \/ WriteIds(c) \/ Record(c) \/ Crash(c)
    BY <2>4 DEF ReadNames, TruncNames, WriteNames, ReadIds, TruncIds,
                WriteIds, Record, Crash, Exit, Goto, TypeOK, files
  <2> QED BY <2>1, <2>2, <2>3, <2>4 DEF Step
<1>2. registry' # NoRegistry => registry' = keyFile
  <2>1. CASE WriteRegistry(c)
    <3>1. registry' = job[c].keys /\ \A r \in Roots : job[c].keys[r] # NoKey
      BY <1>0, <2>1 DEF WriteRegistry, LocalOK
    <3>2. \A r \in Roots : keyFile[r] = job[c].keys[r]
      BY <1>0, <3>1 DEF KeyOK
    <3>3. job[c].keys \in [Roots -> Keys \cup {NoKey}]
      BY <1>0 DEF Job
    <3> QED BY <3>1, <3>2, <3>3 DEF TypeOK
  <2>2. CASE ~WriteRegistry(c)
    <3>1. registry' \in {registry, NoRegistry}
      BY <2>2 DEF Step, Command, StartSeed, StartMint, StartGrant,
           StartRevoke, Start, LoadKey, TruncRegistry, Issue, Approve,
           TruncCap, WriteCap, ReadNames, TruncNames, WriteNames, ReadIds,
           TruncIds, WriteIds, Record, Crash, files
    <3> QED BY <3>1 DEF KeyInv, KeyAgreement
  <2> QED BY <2>1, <2>2
<1>3. ASSUME NEW p \in Principals, caps'[p] # NoToken
      PROVE  caps'[p].key = keyFile[FinanceRoot]
  <2>1. CASE WriteCap(c)
    <3>1. caps' = [caps EXCEPT ![Target(c)] = job[c].tok]
          /\ job[c].tok # NoToken
      BY <1>0, <2>1 DEF WriteCap, LocalOK
    <3> QED BY <1>0, <1>3, <3>1 DEF KeyInv, KeyAgreement, KeyOK, TypeOK
  <2>2. CASE TruncCap(c)
    <3>1. caps' = [caps EXCEPT ![Target(c)] = NoToken]
      BY <2>2 DEF TruncCap
    <3> QED BY <1>0, <1>3, <3>1 DEF KeyInv, KeyAgreement, TypeOK
  <2>3. CASE ~WriteCap(c) /\ ~TruncCap(c)
    <3>1. caps' = caps
      BY <2>3 DEF Step, Command, StartSeed, StartMint, StartGrant,
           StartRevoke, Start, LoadKey, TruncRegistry, WriteRegistry, Issue,
           Approve, ReadNames, TruncNames, WriteNames, ReadIds, TruncIds,
           WriteIds, Record, Crash, files
    <3> QED BY <1>3, <3>1 DEF KeyInv, KeyAgreement
  <2> QED BY <2>1, <2>2, <2>3
<1>4. /\ \A r \in Roots :
           job'[c].keys[r] # NoKey => keyFile[r] = job'[c].keys[r]
      /\ job'[c].tok # NoToken => job'[c].tok.key = keyFile[FinanceRoot]
  <2>1. CASE job'[c].keys = [r \in Roots |-> NoKey] /\ job'[c].tok = NoToken
    BY <2>1
  <2>2. CASE job'[c].keys = job[c].keys /\ job'[c].tok = job[c].tok
    BY <1>0, <2>2 DEF KeyOK
  <2>3. CASE Exit(c)
    BY <2>1, <2>3 DEF Exit, TypeOK, NoJob, NewJob
  <2>4. CASE Command(c)
    BY <2>1, <2>4 DEF Command, StartSeed, StartMint, StartGrant, StartRevoke,
                      Start, NewJob, TypeOK
  <2>5. CASE LoadKey(c) /\ ~Exit(c) /\ keyFile[Wanted(c)] \in Keys
    <3> DEFINE k == keyFile[Wanted(c)]
    <3>1. HaveKey(c, k) \/ job' = job
      BY <2>5 DEF LoadKey
    <3>2. CASE HaveKey(c, k)
      <4>1. /\ job'[c].keys = [job[c].keys EXCEPT ![Wanted(c)] = k]
            /\ job'[c].tok = job[c].tok
        BY <2>5, <3>2, HaveKeyEffect
      <4>2. job[c].keys \in [Roots -> Keys \cup {NoKey}]
        BY <1>0 DEF Job
      <4> QED BY <1>0, <4>1, <4>2, WantedType DEF KeyOK
    <3> QED BY <2>2, <3>1, <3>2
  <2>6. CASE LoadKey(c) /\ ~Exit(c) /\ keyFile[Wanted(c)] \notin Keys
    BY <2>2, <2>6 DEF LoadKey
  <2>7. CASE Issue(c)
    <3> DEFINE p == Target(c)
               t == Signed(nextId, job[c].keys[FinanceRoot], p,
                           InitialView[p], InitialFields[p], InitialRows[p],
                           Docs)
    <3>0. /\ job'[c].keys = job[c].keys /\ job[c].keys[FinanceRoot] \in Keys
          /\ job'[c].tok = t
      BY <2>7, IssueEffect
    <3>1. /\ job'[c].keys = job[c].keys /\ job[c].keys[FinanceRoot] \in Keys
          /\ job'[c].tok.key = job[c].keys[FinanceRoot]
      BY <3>0 DEF Signed
    <3>2. keyFile[FinanceRoot] = job[c].keys[FinanceRoot]
      BY <1>0, <3>1, AbsentValues DEF KeyOK, AbsentValues, Roots
    <3> QED BY <1>0, <3>1, <3>2 DEF KeyOK
  <2>8. CASE Approve(c) /\ MayGrant(job[c].who, job[c].view, job[c].fields)
    <3>1. job'[c].keys = job[c].keys
      BY <2>8, ApproveEffect
    <3>4. caps[Owner] # NoToken
      BY <2>8 DEF MayGrant, Loads
    <3>2. job'[c].tok.key = caps[Owner].key
      <4> DEFINE b == ApprovalBlock(nextId, Owner, job[c].who, job[c].fields,
                                    Teams, now + job[c].ttl)
      <4>1. job'[c].tok = AppendBlock(caps[Owner], b)
            /\ caps[Owner] \in Token /\ b \in Attenuation
        BY <2>8, ApproveEffect
      <4> HIDE DEF b
      <4> QED BY <4>1, AppendType
    <3>3. caps[Owner].key = keyFile[FinanceRoot]
      BY <3>4, ControlPlaneAssumption
         DEF KeyInv, KeyAgreement, ControlPlaneAssumption
    <3> QED BY <1>0, <3>1, <3>2, <3>3 DEF KeyOK
  <2>9. CASE TruncRegistry(c) \/ WriteRegistry(c) \/ TruncCap(c)
             \/ TruncNames(c) \/ WriteNames(c) \/ TruncIds(c) \/ WriteIds(c)
    BY <2>2, <2>9 DEF TruncRegistry, WriteRegistry, TruncCap, TruncNames,
                      WriteNames, TruncIds, WriteIds
  <2>10. CASE (WriteCap(c) \/ ReadNames(c) \/ ReadIds(c)) /\ ~Exit(c)
    <3>1. job'[c].keys = job[c].keys /\ job'[c].tok = job[c].tok
      BY <1>0, <2>10 DEF WriteCap, ReadNames, ReadIds, TypeOK, Job
    <3> QED BY <2>2, <3>1
  <2> QED BY <2>3, <2>4, <2>5, <2>6, <2>7, <2>8, <2>9, <2>10
             DEF Step, Crash, Record, Approve
<1>5. \A d \in Procs : d # c =>
        pc'[d] = pc[d] /\ job'[d] = job[d] /\ Wanted(d)' = Wanted(d)
  BY OthersUntouched DEF Wanted
<1>6. ASSUME NEW d \in Procs PROVE KeyOK(d)'
  <2>1. CASE d = c
    BY <1>1, <1>4, <2>1 DEF KeyOK
  <2>2. CASE d # c
    BY <1>1, <1>5, <2>2 DEF KeyInv, KeyOK
  <2> QED BY <2>1, <2>2
<1>7. KeyAgreement'
  BY <1>1, <1>2, <1>3 DEF KeyAgreement
<1>8. ASSUME NEW a \in Procs, NEW b \in Procs,
             pc'[a] = "writeKey", pc'[b] = "writeKey",
             Wanted(a)' = Wanted(b)'
      PROVE  a = b
  BY <1>1, <1>5, <1>8 DEF KeyInv
<1> QED BY <1>6, <1>7, <1>8 DEF KeyInv, KeyOK

(* The keystore, the registry and the tokens stay of one key. *)
LEMMA KeyInvStep ==
    TypeOK /\ LocalInv /\ KeyInv /\ [Next]_vars => KeyInv'
<1> SUFFICES ASSUME TypeOK, LocalInv, KeyInv, [Next]_vars PROVE KeyInv'
  OBVIOUS
<1>1. CASE UNCHANGED vars
  BY <1>1 DEF vars, files, KeyInv, KeyAgreement, Wanted
<1>2. CASE Tick
  BY <1>2 DEF Tick, files, KeyInv, KeyAgreement, Wanted
<1>3. ASSUME NEW c \in Procs, Command(c) \/ Step(c) \/ Crash(c)
      PROVE  KeyInv'
  BY <1>3, KeyInvCreate, KeyInvWrite, KeyInvOther
<1> QED BY <1>1, <1>2, <1>3 DEF Next

-----------------------------------------------------------------------------
(* Tokens. *)

(* What signing gives a principal may be stored for it. *)
LEMMA SignedStorable ==
    ASSUME NEW p \in Principals, NEW n, NEW k
    PROVE  Storable(p, Signed(n, k, p, InitialView[p], InitialFields[p],
                              InitialRows[p], Docs))
<1> DEFINE t == Signed(n, k, p, InitialView[p], InitialFields[p],
                       InitialRows[p], Docs)
<1>1. /\ t.holder = p /\ t.chain = << >> /\ t.fields = InitialFields[p]
      /\ Holder(t) = p
  BY DEF Signed, Holder
<1>2. CASE p = Owner
  BY <1>1, <1>2 DEF Storable
<1>3. CASE p # Owner
  <2>1. ScopeFields(t) \subseteq InitialFields[p]
    BY <1>1 DEF ScopeFields
  <2> QED BY <1>1, <1>3, <2>1, InitialFieldsAssumption
          DEF Storable, InitialFieldsAssumption
<1> QED BY <1>2, <1>3

(* Only what may be stored is stored. *)
LEMMA TokenInvStep ==
    TypeOK /\ LocalInv /\ TokenInv /\ [Next]_vars => TokenInv'
<1> SUFFICES ASSUME TypeOK, LocalInv, TokenInv, [Next]_vars PROVE TokenInv'
  OBVIOUS
<1>1. CASE UNCHANGED vars
  BY <1>1 DEF vars, files, TokenInv, Target
<1>2. CASE Tick
  BY <1>2 DEF Tick, files, TokenInv, Target
<1>3. ASSUME NEW c \in Procs, Command(c) \/ Step(c) \/ Crash(c)
      PROVE  TokenInv'
  <2>0. job[c] \in Job /\ LocalOK(c) /\ Target(c) \in Principals
    BY TargetType DEF TypeOK, LocalInv
  <2>1. ASSUME NEW p \in Principals, caps'[p] # NoToken
        PROVE  Storable(p, caps'[p])
    <3>1. CASE WriteCap(c)
      <4>1. /\ caps' = [caps EXCEPT ![Target(c)] = job[c].tok]
            /\ Storable(Target(c), job[c].tok)
        BY <3>1 DEF WriteCap, TokenInv
      <4> QED BY <2>0, <2>1, <4>1 DEF TokenInv, TypeOK
    <3>2. CASE TruncCap(c)
      <4>1. caps' = [caps EXCEPT ![Target(c)] = NoToken]
        BY <3>2 DEF TruncCap
      <4> QED BY <2>0, <2>1, <4>1 DEF TokenInv, TypeOK
    <3>3. CASE ~WriteCap(c) /\ ~TruncCap(c)
      <4>1. caps' = caps
        BY <1>3, <3>3 DEF Step, Command, StartSeed, StartMint, StartGrant,
             StartRevoke, Start, LoadKey, CreateKey, WriteKey, TruncRegistry,
             WriteRegistry, Issue, Approve, ReadNames, TruncNames, WriteNames,
             ReadIds, TruncIds, WriteIds, Record, Crash, files
      <4> QED BY <2>1, <4>1 DEF TokenInv
    <3> QED BY <3>1, <3>2, <3>3
  <2>2. ASSUME pc'[c] \in {"truncCap", "writeCap"}
        PROVE  Storable(Target(c), job[c].tok)'
    <3>1. CASE Issue(c)
      <4> DEFINE p == Target(c)
                 t == Signed(nextId, job[c].keys[FinanceRoot], p,
                             InitialView[p], InitialFields[p],
                             InitialRows[p], Docs)
      <4>1. /\ job'[c].tok = t /\ job'[c].op = job[c].op
            /\ job'[c].who = job[c].who /\ job'[c].todo = job[c].todo
        BY <3>1, IssueEffect
      <4>2. Target(c)' = p BY <4>1 DEF Target
      <4>3. Storable(p, t) BY <2>0, SignedStorable
      <4> QED BY <4>1, <4>2, <4>3 DEF Storable, Holder
    <3>2. CASE Approve(c)
      <4>1. MayGrant(job[c].who, job[c].view, job[c].fields)
        BY <2>2, <3>2 DEF Approve, Exit, Goto, TypeOK
      <4> DEFINE b == ApprovalBlock(nextId, Owner, job[c].who, job[c].fields,
                                    Teams, now + job[c].ttl)
      <4>2. /\ job'[c].tok = AppendBlock(caps[Owner], b)
            /\ job'[c].op = job[c].op /\ job'[c].who = job[c].who
            /\ caps[Owner] \in Token /\ b \in Attenuation
        BY <3>2, <4>1, ApproveEffect
      <4>3. b.deny = NeverDelegable /\ b.held = job[c].who BY DEF ApprovalBlock
      <4>4. /\ ScopeFields(AppendBlock(caps[Owner], b)) \cap NeverDelegable = {}
            /\ Holder(AppendBlock(caps[Owner], b)) = job[c].who
        <5> HIDE DEF b
        <5> QED BY <4>2, <4>3, ApprovalDeniesSalary
      <4>5. job[c].op = "grant" /\ job[c].who # Owner
        BY <2>0, <3>2, <4>1 DEF Approve, LocalOK, MayGrant
      <4>6. Target(c)' # Owner /\ Target(c)' = job[c].who
        BY <4>2, <4>5 DEF Target
      <4> QED BY <4>2, <4>4, <4>6 DEF Storable, ScopeFields, Holder
    <3>3. CASE TruncCap(c)
      <4>1. job' = job /\ pc[c] = "truncCap" BY <3>3 DEF TruncCap
      <4>2. Storable(Target(c), job[c].tok) BY <4>1 DEF TokenInv
      <4> QED BY <4>1, <4>2 DEF Storable, Target, ScopeFields, Holder
    <3>4. CASE ~Issue(c) /\ ~Approve(c) /\ ~TruncCap(c)
      <4>1. CASE Command(c)
        BY <2>2, <4>1 DEF Command, StartSeed, StartMint, StartGrant,
                          StartRevoke, Start, Goto, TypeOK
      <4>2. CASE LoadKey(c) \/ CreateKey(c) \/ WriteKey(c)
        BY <2>2, <4>2 DEF LoadKey, CreateKey, WriteKey, HaveKey, Exit, Goto,
                          TypeOK
      <4>3. CASE TruncRegistry(c) \/ WriteRegistry(c) \/ WriteCap(c)
                 \/ Record(c) \/ Crash(c)
        BY <2>2, <4>3 DEF TruncRegistry, WriteRegistry, WriteCap, Record,
                          Crash, Exit, Goto, TypeOK
      <4>4. CASE ReadNames(c) \/ TruncNames(c) \/ WriteNames(c) \/ ReadIds(c)
                 \/ TruncIds(c) \/ WriteIds(c)
        BY <2>2, <4>4 DEF ReadNames, TruncNames, WriteNames, ReadIds,
                          TruncIds, WriteIds, Goto, TypeOK
      <4> QED BY <1>3, <3>4, <4>1, <4>2, <4>3, <4>4 DEF Step
    <3> QED BY <3>1, <3>2, <3>3, <3>4
  <2>3. ASSUME NEW d \in Procs, d # c,
               pc'[d] \in {"truncCap", "writeCap"}
        PROVE  Storable(Target(d), job[d].tok)'
    <3>1. pc'[d] = pc[d] /\ job'[d] = job[d]
      BY <1>3, <2>3, OthersUntouched
    <3>2. Storable(Target(d), job[d].tok)
      BY <2>3, <3>1 DEF TokenInv
    <3> QED BY <3>1, <3>2 DEF Storable, Target, ScopeFields, Holder
  <2> QED BY <2>1, <2>2, <2>3, ZenonT(40) DEF TokenInv, Storable, ScopeFields, Holder
<1> QED BY <1>1, <1>2, <1>3 DEF Next

-----------------------------------------------------------------------------
(* Seeds. *)

(* A command that has a seed's list to go through still has all of it.     *)
LEMMA SeedOrderKept ==
    ASSUME TypeOK, LocalInv, SeedInv, NEW c \in Procs,
           Command(c) \/ Step(c) \/ Crash(c),
           job'[c].op = "seed", pc'[c] \notin {"issue", "truncCap", "writeCap"}
    PROVE  job'[c].todo = SeedOrder
<1>0. job[c] \in Job /\ LocalOK(c)
  BY DEF TypeOK, LocalInv
<1>1. ~Exit(c)
  BY DEF Exit, NoJob, NewJob, TypeOK
<1>2. CASE Command(c)
  BY <1>2 DEF Command, StartSeed, StartMint, StartGrant, StartRevoke, Start,
              NewJob, TypeOK
<1>3. ASSUME job'[c].op = job[c].op, job'[c].todo = job[c].todo,
             pc[c] \notin {"issue", "truncCap", "writeCap"}
      PROVE  job'[c].todo = SeedOrder
  BY <1>3 DEF SeedInv
<1>4. ASSUME NEW k \in Keys, HaveKey(c, k), pc[c] \in KeyLabels
      PROVE  job'[c].todo = SeedOrder
  <2>1. job'[c].op = job[c].op /\ job'[c].todo = job[c].todo
    BY <1>4, HaveKeyEffect
  <2> QED BY <2>1, <1>3, <1>4 DEF KeyLabels
<1>5. CASE LoadKey(c)
  BY <1>1, <1>3, <1>4, <1>5 DEF LoadKey, KeyLabels
<1>6. CASE WriteKey(c)
  BY <1>4, <1>6, ControlPlaneAssumption DEF WriteKey, KeyLabels, ControlPlaneAssumption
<1>7. CASE CreateKey(c) \/ TruncRegistry(c)
  BY <1>3, <1>7 DEF CreateKey, TruncRegistry
<1>8. CASE WriteRegistry(c) \/ Issue(c) \/ TruncCap(c)
  BY <1>8 DEF WriteRegistry, Issue, TruncCap, Goto, TypeOK
<1>9. CASE Approve(c)
  <2>1. MayGrant(job[c].who, job[c].view, job[c].fields) => pc'[c] = "truncCap"
    BY <1>9 DEF Approve, Goto, TypeOK
  <2> QED BY <1>1, <1>9, <2>1 DEF Approve
<1>10. CASE WriteCap(c)
  BY <1>1, <1>10 DEF WriteCap, Goto, TypeOK
<1>11. CASE ReadNames(c) \/ TruncNames(c) \/ WriteNames(c) \/ ReadIds(c)
            \/ TruncIds(c) \/ WriteIds(c)
  <2>1. job'[c].op = job[c].op /\ job[c].op = "revoke"
    BY <1>0, <1>11 DEF ReadNames, TruncNames, WriteNames, ReadIds, TruncIds,
                       WriteIds, TypeOK, LocalOK, Job
  <2> QED BY <2>1
<1> QED BY <1>1, <1>2, <1>5, <1>6, <1>7, <1>8, <1>9, <1>10, <1>11
           DEF Step, Crash, Record

(* What comes later in a list is in the rest of it. *)
LEMMA LaterInTail ==
    ASSUME NEW S, NEW q \in Seq(S), NEW i \in DOMAIN q, i # 1
    PROVE  /\ Tail(q) # << >>
           /\ \E j \in DOMAIN Tail(q) : Tail(q)[j] = q[i]
<1>1. Len(q) \in Nat /\ i \in 1..Len(q) /\ q # << >>
  OBVIOUS
<1>2. Tail(q) \in Seq(S) /\ Len(Tail(q)) = Len(q) - 1
  BY <1>1
<1>3. i - 1 \in 1..Len(Tail(q))
  BY <1>1, <1>2
<1>4. Tail(q)[i - 1] = q[i]
  BY <1>1, <1>2, <1>3
<1>5. DOMAIN Tail(q) = 1..Len(Tail(q))
  BY <1>2
<1> QED BY <1>2, <1>3, <1>4, <1>5

(* Whose token a process was to write it still is to write, or has.        *)
LEMMA PendingKept ==
    ASSUME TypeOK, LocalInv, NEW c \in Procs, Command(c) \/ Step(c),
           NEW p \in Principals, Pending(c, p)
    PROVE  caps'[p] # NoToken \/ Pending(c, p)'
<1>0. job[c] \in Job /\ LocalOK(c) /\ Target(c) \in Principals
  BY TargetType DEF TypeOK, LocalInv
<1>1. pc[c] \in {"issue", "truncCap", "writeCap"}
  BY DEF Pending
<1>2. Issue(c) \/ TruncCap(c) \/ WriteCap(c)
  BY <1>1 DEF Step, Command, StartSeed, StartMint, StartGrant, StartRevoke,
              Start, LoadKey, CreateKey, WriteKey, TruncRegistry,
              WriteRegistry, Approve, ReadNames, TruncNames, WriteNames,
              ReadIds, TruncIds, WriteIds, Record
<1>3. CASE Issue(c)
  <2>1. /\ job'[c].op = job[c].op /\ job'[c].todo = job[c].todo
        /\ pc'[c] = "truncCap" /\ pc[c] = "issue"
    BY <1>3, IssueEffect DEF Issue, TypeOK
  <2> QED BY <2>1 DEF Pending
<1>4. CASE TruncCap(c)
  <2>1. job' = job /\ pc'[c] = "writeCap" /\ pc[c] = "truncCap"
    BY <1>4 DEF TruncCap, Goto, TypeOK
  <2> QED BY <2>1 DEF Pending
<1>5. CASE WriteCap(c)
  <2>1. /\ caps' = [caps EXCEPT ![Target(c)] = job[c].tok]
        /\ job[c].tok # NoToken /\ pc[c] = "writeCap"
    BY <1>0, <1>5 DEF WriteCap, LocalOK
  <2>2. CASE Target(c) = p
    BY <2>1, <2>2 DEF TypeOK
  <2>3. CASE Target(c) # p
    <3>1. PICK i \in DOMAIN job[c].todo : job[c].todo[i] = p
      BY <2>3 DEF Pending
    <3>2. job[c].op = "seed" /\ job[c].todo \in Seq(Principals) /\ job[c].todo # << >>
      BY <1>0, <2>3 DEF Pending, LocalOK, Job
    <3>3. i # 1
      BY <2>3, <3>1, <3>2 DEF Target
    <3> DEFINE s == Tail(job[c].todo)
    <3>4. s # << >> /\ \E j \in DOMAIN s : s[j] = p
      BY <3>1, <3>2, <3>3, LaterInTail
    <3>5. /\ pc'[c] = "issue"
          /\ job'[c] = [job[c] EXCEPT !.todo = s]
      BY <1>5, <3>2, <3>4 DEF WriteCap, Goto, TypeOK
    <3>6. job'[c].op = "seed" /\ job'[c].todo = s
      BY <1>0, <3>2, <3>5 DEF Job
    <3> HIDE DEF s
    <3> QED BY <3>4, <3>5, <3>6 DEF Pending
  <2> QED BY <2>2, <2>3
<1> QED BY <1>2, <1>3, <1>4, <1>5

(* Nobody is left without a token by commands that run to their end.       *)
LEMMA SeedInvStep ==
    TypeOK /\ LocalInv /\ SeedInv /\ [Next]_vars => SeedInv'
<1> SUFFICES ASSUME TypeOK, LocalInv, SeedInv, [Next]_vars PROVE SeedInv'
  OBVIOUS
<1>1. CASE UNCHANGED vars
  BY <1>1 DEF vars, files, SeedInv, Pending, Target
<1>2. CASE Tick /\ UNCHANGED crashes
  BY <1>2 DEF Tick, files, SeedInv, Pending, Target
<1>3. ASSUME NEW c \in Procs,
             ((Command(c) \/ Step(c)) /\ UNCHANGED crashes) \/ Crash(c)
      PROVE  SeedInv'
  <2>1. ASSUME NEW d \in Procs, job'[d].op = "seed",
               pc'[d] \notin {"issue", "truncCap", "writeCap"}
        PROVE  job'[d].todo = SeedOrder
    <3>1. CASE d = c
      BY <1>3, <2>1, <3>1, SeedOrderKept
    <3>2. CASE d # c
      <4>1. pc'[d] = pc[d] /\ job'[d] = job[d]
        BY <1>3, <3>2, OthersUntouched
      <4> QED BY <2>1, <4>1 DEF SeedInv
    <3> QED BY <3>1, <3>2
  <2>2. ASSUME crashes' = 0, registry' # NoRegistry, NEW p \in Principals
        PROVE  caps'[p] # NoToken \/ \E d \in Procs : Pending(d, p)'
    <3>0. job[c] \in Job /\ LocalOK(c) /\ Target(c) \in Principals
      BY TargetType DEF TypeOK, LocalInv
    <3>1. (Command(c) \/ Step(c)) /\ crashes = 0
      BY <1>3, <2>2 DEF Crash, TypeOK
    <3>2. CASE WriteRegistry(c)
      <4>1. /\ pc[c] = "writeRegistry" /\ pc'[c] = "issue" /\ job'[c] = job[c]
        BY <3>2 DEF WriteRegistry, Goto, TypeOK
      <4>2. job[c].op = "seed" /\ job[c].todo = SeedOrder
        BY <3>0, <4>1 DEF LocalOK, SeedInv
      <4> QED BY <4>1, <4>2, SeedOrderAssumption DEF Pending, SeedOrderAssumption
    <3>3. CASE ~WriteRegistry(c)
      <4>1. registry' = registry
        BY <2>2, <3>1, <3>3 DEF Step, Command, StartSeed, StartMint, StartGrant,
             StartRevoke, Start, LoadKey, CreateKey, WriteKey, TruncRegistry,
             Issue, Approve, TruncCap, WriteCap, ReadNames, TruncNames,
             WriteNames, ReadIds, TruncIds, WriteIds, Record, files
      <4>2. caps[p] # NoToken \/ \E d \in Procs : Pending(d, p)
        BY <2>2, <3>1, <4>1 DEF SeedInv
      <4>3. ASSUME NEW d \in Procs, d # c, Pending(d, p) PROVE Pending(d, p)'
        <5>1. pc'[d] = pc[d] /\ job'[d] = job[d]
          BY <1>3, <4>3, OthersUntouched
        <5> QED BY <4>3, <5>1 DEF Pending, Target
      <4>4. CASE caps[p] # NoToken
        <5>1. CASE TruncCap(c)
          <6>1. /\ caps' = [caps EXCEPT ![Target(c)] = NoToken] /\ job' = job
                /\ pc'[c] = "writeCap"
            BY <5>1 DEF TruncCap, Goto, TypeOK
          <6>2. CASE Target(c) = p
            BY <6>1, <6>2 DEF Pending, Target
          <6>3. CASE Target(c) # p
            BY <4>4, <6>1, <6>3 DEF TypeOK
          <6> QED BY <6>2, <6>3
        <5>2. CASE WriteCap(c)
          <6>1. /\ caps' = [caps EXCEPT ![Target(c)] = job[c].tok]
                /\ job[c].tok # NoToken
            BY <3>0, <5>2 DEF WriteCap, LocalOK
          <6> QED BY <4>4, <6>1 DEF TypeOK
        <5>3. CASE ~TruncCap(c) /\ ~WriteCap(c)
          <6>1. caps' = caps
            BY <3>1, <5>3 DEF Step, Command, StartSeed, StartMint, StartGrant,
                 StartRevoke, Start, LoadKey, CreateKey, WriteKey,
                 TruncRegistry, WriteRegistry, Issue, Approve, ReadNames,
                 TruncNames, WriteNames, ReadIds, TruncIds, WriteIds, Record,
                 files
          <6> QED BY <4>4, <6>1
        <5> QED BY <5>1, <5>2, <5>3
      <4> QED BY <3>1, <4>2, <4>3, <4>4, PendingKept
    <3> QED BY <3>2, <3>3
  <2> QED BY <2>1, <2>2 DEF SeedInv
<1> QED BY <1>1, <1>2, <1>3 DEF Next

-----------------------------------------------------------------------------
(* Revocations. *)

(* Of a process that does not revoke, the lists ask nothing. *)
LEMMA ExtendsIdle ==
    ASSUME NEW c \in Procs, LocalOK(c), job[c].op # "revoke"
    PROVE  Extends(c) /\ pc[c] # "writeNames" /\ pc[c] # "writeIds"
  BY DEF Extends, LocalOK

(* While one revokes, nobody else does. *)
LEMMA Solo ==
    ASSUME OneRevoker, ListInv, NEW c \in Procs, job[c].op = "revoke",
           NEW d \in Procs, d # c
    PROVE  job[d].op # "revoke"
  BY DEF OneRevoker, ListInv

(* A step that touches neither list, and records no revocation.            *)
LEMMA ListsAlone ==
    ASSUME TypeOK, LocalInv, LocalInv', ListInv, NEW c \in Procs,
           Command(c) \/ Step(c), crashes' = crashes,
           names' = names, ids' = ids, voided' = voided, Revoked' = Revoked,
           pc[c] \notin {"writeNames", "writeIds"},
           job'[c].op = "revoke" => c \in Revokers /\ pc'[c] = "readNames"
    PROVE  ListInv'
<1>1. \A d \in Procs : d # c => pc'[d] = pc[d] /\ job'[d] = job[d]
  BY OthersUntouched
<1>2. pc[c] # "writeNames" /\ pc[c] # "writeIds"
  OBVIOUS
<1>3. /\ Extends(c)' /\ pc'[c] # "writeNames" /\ pc'[c] # "writeIds"
  <2>1. LocalOK(c)'
    BY DEF LocalInv
  <2>2. CASE job'[c].op = "revoke"
    BY <2>2 DEF Extends
  <2>3. CASE job'[c].op # "revoke"
    BY <2>1, <2>3 DEF Extends, LocalOK
  <2> QED BY <2>2, <2>3
<1>4. \A d \in Procs : job'[d].op = "revoke" => d \in Revokers
  BY <1>1 DEF ListInv
<1>5. ASSUME crashes = 0, NEW d \in Procs PROVE Extends(d)'
  <2>1. CASE d = c
    BY <1>3, <2>1
  <2>2. CASE d # c
    <3>1. Extends(d)
      BY <1>5 DEF ListInv
    <3>2. pc'[d] = pc[d] /\ job'[d] = job[d]
      BY <1>1, <2>2
    <3> QED BY <3>1, <3>2 DEF Extends
  <2> QED BY <2>1, <2>2
<1>6. (\A d \in Procs : pc'[d] # "writeNames") => \A d \in Procs : pc[d] # "writeNames"
  BY <1>1, <1>2
<1>7. (\A d \in Procs : pc'[d] # "writeIds") => \A d \in Procs : pc[d] # "writeIds"
  BY <1>1, <1>2
<1> QED BY <1>4, <1>5, <1>6, <1>7 DEF ListInv

(* A revoke's own steps keep what the lists held, in them or in hand.      *)
LEMMA ListsRewritten ==
    ASSUME TypeOK, LocalInv, OneRevoker, ListInv, NEW c \in Procs,
           Step(c), crashes' = crashes, job[c].op = "revoke"
    PROVE  ListInv'
<1>0. job[c] \in Job /\ LocalOK(c) /\ c \in Revokers
  BY DEF TypeOK, LocalInv, ListInv
<1>1. \A d \in Procs : d # c => pc'[d] = pc[d] /\ job'[d] = job[d]
  BY OthersUntouched
<1>2. \A d \in Procs : d # c => job[d].op # "revoke"
  BY Solo
<1>3. \A d \in Procs : d # c => pc[d] # "writeNames" /\ pc[d] # "writeIds"
  BY <1>2, ExtendsIdle DEF LocalInv
<1>4. ASSUME NEW d \in Procs, d # c PROVE Extends(d)'
  <2>1. LocalOK(d) /\ job[d].op # "revoke" /\ pc'[d] = pc[d] /\ job'[d] = job[d]
    BY <1>1, <1>2, <1>4 DEF LocalInv
  <2> QED BY <2>1 DEF Extends, LocalOK
<1>5. \A d \in Procs : job'[d].op = "revoke" => d \in Revokers
  BY <1>0, <1>1 DEF ListInv
<1>6. SUFFICES ASSUME crashes = 0
               PROVE  /\ Extends(c)'
                      /\ pc'[c] # "writeNames" => Revoked' \subseteq names'
                      /\ pc'[c] # "writeIds" => voided' \subseteq ids'
  BY <1>4, <1>5 DEF ListInv
<1>7. /\ Extends(c)
      /\ pc[c] # "writeNames" => Revoked \subseteq names
      /\ pc[c] # "writeIds" => voided \subseteq ids
  BY <1>3, <1>6 DEF ListInv
<1>8. CASE ReadNames(c)
  <2>1. /\ pc[c] = "readNames" /\ pc'[c] = "truncNames"
        /\ job'[c] = [job[c] EXCEPT !.nameList = names \cup {job[c].who}]
        /\ names' = names /\ ids' = ids /\ voided' = voided /\ audit' = audit
    BY <1>8 DEF ReadNames, Goto, TypeOK, files
  <2>2. job'[c].nameList = names \cup {job[c].who} /\ job'[c].who = job[c].who
    BY <1>0, <2>1 DEF Job
  <2> QED BY <1>7, <2>1, <2>2 DEF Extends, Revoked
<1>9. CASE TruncNames(c)
  <2>1. /\ pc[c] = "truncNames" /\ pc'[c] = "writeNames" /\ job' = job
        /\ ids' = ids /\ voided' = voided /\ audit' = audit
    BY <1>9 DEF TruncNames, Goto, TypeOK
  <2> QED BY <1>7, <2>1 DEF Extends, Revoked
<1>10. CASE WriteNames(c)
  <2>1. /\ pc[c] = "writeNames" /\ pc'[c] = "readIds" /\ job' = job
        /\ names' = job[c].nameList
        /\ ids' = ids /\ voided' = voided /\ audit' = audit
    BY <1>10 DEF WriteNames, Goto, TypeOK
  <2> QED BY <1>7, <2>1 DEF Extends, Revoked
<1>11. CASE ReadIds(c)
  <2>1. /\ pc[c] = "readIds" /\ pc'[c] \in {"audit", "truncIds"}
        /\ names' = names /\ ids' = ids /\ voided' = voided /\ audit' = audit
    BY <1>11 DEF ReadIds, Goto, TypeOK, files
  <2>2. /\ job'[c].who = job[c].who
        /\ pc'[c] = "truncIds" => ids \subseteq job'[c].idList
    BY <1>0, <1>11 DEF ReadIds, Goto, TypeOK, Job
  <2> QED BY <1>0, <1>7, <2>1, <2>2 DEF Extends, Revoked, LocalOK
<1>12. CASE TruncIds(c)
  <2>1. /\ pc[c] = "truncIds" /\ pc'[c] = "writeIds" /\ job' = job
        /\ names' = names /\ voided' = voided /\ audit' = audit
    BY <1>12 DEF TruncIds, Goto, TypeOK
  <2> QED BY <1>0, <1>7, <2>1 DEF Extends, Revoked, LocalOK
<1>13. CASE WriteIds(c)
  <2>1. /\ pc[c] = "writeIds" /\ pc'[c] = "audit" /\ job' = job
        /\ names' = names /\ ids' = job[c].idList /\ audit' = audit
        /\ voided' = voided \cup job[c].idList
    BY <1>13 DEF WriteIds, Goto, TypeOK
  <2> QED BY <1>0, <1>7, <2>1 DEF Extends, Revoked, LocalOK
<1>14. CASE Record(c)
  <2>1. /\ pc[c] = "audit" /\ pc'[c] = "idle"
        /\ names' = names /\ ids' = ids /\ voided' = voided
        /\ audit' = audit \cup {<<"revoke", job[c].who>>}
    BY <1>14 DEF Record, Exit, Goto, TypeOK
  <2>2. Revoked' \subseteq Revoked \cup {job[c].who}
    BY <2>1 DEF Revoked
  <2> QED BY <1>7, <2>1, <2>2 DEF Extends
<1>15. pc[c] \in {"readNames", "truncNames", "writeNames", "readIds", "truncIds",
                  "writeIds", "audit"} \cup {"idle"}
  BY <1>0 DEF LocalOK, TypeOK, Labels, KeyLabels
<1> QED
  BY <1>8, <1>9, <1>10, <1>11, <1>12, <1>13, <1>14, <1>15
     DEF Step, LoadKey, CreateKey, WriteKey, TruncRegistry, WriteRegistry,
         Issue, Approve, TruncCap, WriteCap

(* The lists keep what was on them, as long as nobody dies rewriting one.  *)
LEMMA ListInvStep ==
    ASSUME OneRevoker
    PROVE  TypeOK /\ LocalInv /\ ListInv /\ [Next]_vars => ListInv'
<1> SUFFICES ASSUME TypeOK, LocalInv, ListInv, [Next]_vars PROVE ListInv'
  OBVIOUS
<1>0. LocalInv'
  BY LocalInvStep
<1>1. CASE UNCHANGED vars
  BY <1>1 DEF vars, files, ListInv, Extends, Revoked
<1>2. CASE Tick /\ UNCHANGED crashes
  BY <1>2 DEF Tick, files, ListInv, Extends, Revoked
<1>3. ASSUME NEW c \in Procs, Crash(c) PROVE ListInv'
  <2>1. crashes' # 0
    BY <1>3 DEF Crash, TypeOK
  <2>2. job'[c].op = "none"
    BY <1>3 DEF Crash, Exit, NoJob, NewJob, TypeOK
  <2>3. \A d \in Procs : d # c => job'[d] = job[d]
    BY <1>3, OthersUntouched
  <2>4. \A d \in Procs : job'[d].op = "revoke" => d \in Revokers
    BY <2>2, <2>3 DEF ListInv
  <2> QED BY <2>1, <2>4 DEF ListInv
<1>4. ASSUME NEW c \in Procs, Command(c), UNCHANGED crashes PROVE ListInv'
  <2>1. /\ names' = names /\ ids' = ids /\ voided' = voided /\ audit' = audit
        /\ pc[c] = "idle"
    BY <1>4 DEF Command, StartSeed, StartMint, StartGrant, StartRevoke, Start,
                files
  <2>2. job'[c].op = "revoke" => c \in Revokers /\ pc'[c] = "readNames"
    BY <1>4 DEF Command, StartSeed, StartMint, StartGrant, StartRevoke, Start,
                NewJob, Goto, TypeOK
  <2>3. Revoked' = Revoked
    BY <2>1 DEF Revoked
  <2> QED BY <1>0, <1>4, <2>1, <2>2, <2>3, ListsAlone
<1>5. ASSUME NEW c \in Procs, Step(c), UNCHANGED crashes, job[c].op # "revoke"
      PROVE  ListInv'
  <2>0. job[c] \in Job /\ LocalOK(c)
    BY DEF TypeOK, LocalInv
  <2>1. ~ReadNames(c) /\ ~TruncNames(c) /\ ~WriteNames(c) /\ ~ReadIds(c)
        /\ ~TruncIds(c) /\ ~WriteIds(c)
    BY <1>5, <2>0 DEF LocalOK, ReadNames, TruncNames, WriteNames, ReadIds,
                      TruncIds, WriteIds
  <2>2. names' = names /\ ids' = ids /\ voided' = voided
    BY <1>5, <2>1 DEF Step, LoadKey, CreateKey, WriteKey, TruncRegistry,
         WriteRegistry, Issue, Approve, TruncCap, WriteCap, Record, files
  <2>3. audit' = audit \/ audit' = audit \cup {<<job[c].op, job[c].who>>}
    BY <1>5, <2>1 DEF Step, LoadKey, CreateKey, WriteKey, TruncRegistry,
         WriteRegistry, Issue, Approve, TruncCap, WriteCap, Record, files
  <2>4. Revoked' = Revoked
    BY <1>5, <2>3 DEF Revoked
  <2>5. job'[c].op # "revoke"
    <3>1. CASE Exit(c)
      BY <3>1 DEF Exit, NoJob, NewJob, TypeOK
    <3>2. ASSUME NEW k \in Keys, HaveKey(c, k) PROVE job'[c].op # "revoke"
      BY <1>5, <3>2, HaveKeyEffect
    <3>3. CASE LoadKey(c)
      BY <1>5, <3>1, <3>2, <3>3 DEF LoadKey
    <3>4. CASE WriteKey(c)
      BY <3>2, <3>4, ControlPlaneAssumption DEF WriteKey, ControlPlaneAssumption
    <3>5. CASE CreateKey(c) \/ TruncRegistry(c) \/ WriteRegistry(c) \/ TruncCap(c)
      BY <1>5, <3>5 DEF CreateKey, TruncRegistry, WriteRegistry, TruncCap
    <3>6. CASE Issue(c)
      BY <1>5, <3>6, IssueEffect
    <3>7. CASE Approve(c)
      BY <1>5, <3>1, <3>7, ApproveEffect DEF Approve
    <3>8. CASE WriteCap(c)
      BY <1>5, <2>0, <3>1, <3>8 DEF WriteCap, TypeOK, Job
    <3>9. CASE Record(c)
      BY <3>1, <3>9 DEF Record
    <3> QED BY <1>5, <2>1, <3>3, <3>4, <3>5, <3>6, <3>7, <3>8, <3>9 DEF Step
  <2>6. pc[c] \notin {"writeNames", "writeIds"}
    BY <1>5, <2>0 DEF LocalOK
  <2> QED BY <1>0, <1>5, <2>2, <2>4, <2>5, <2>6, ListsAlone
<1>6. ASSUME NEW c \in Procs, Step(c), UNCHANGED crashes, job[c].op = "revoke"
      PROVE  ListInv'
  BY <1>6, ListsRewritten
<1> QED BY <1>1, <1>2, <1>3, <1>4, <1>5, <1>6 DEF Next

-----------------------------------------------------------------------------
(* The inductive invariant, and what follows from it. *)

(* No command has run: nothing is stored and nobody holds anything. *)
LEMMA InitIInv == Init => IInv
<1> SUFFICES ASSUME Init PROVE IInv
  OBVIOUS
<1>1. TypeOK BY TypingInit
<1>2. \A c \in Procs : /\ pc[c] = "idle" /\ job[c].op = "none"
                       /\ job[c].keys = [r \in Roots |-> NoKey]
                       /\ job[c].tok = NoToken
  BY DEF Init, NoJob, NewJob
<1>3. LocalInv BY <1>2 DEF LocalInv, LocalOK, KeyLabels
<1>4. KeyInv BY <1>2 DEF Init, KeyInv, KeyAgreement
<1>5. TokenInv BY <1>2 DEF Init, TokenInv
<1>6. SeedInv BY <1>2 DEF Init, SeedInv
<1> QED BY <1>1, <1>3, <1>4, <1>5, <1>6 DEF IInv

(* Every step of Next keeps IInv, whatever commands run and crash. *)
THEOREM Invariance == Spec => []IInv
<1>1. Init => IInv BY InitIInv
<1>2. IInv /\ [Next]_vars => IInv'
  BY TypingStep, LocalInvStep, KeyInvStep, TokenInvStep, SeedInvStep DEF IInv
<1> QED BY <1>1, <1>2, PTL DEF Spec

(* Files and local state are well-typed in every behaviour. *)
THEOREM TypeCorrect == Spec => []TypeOK
<1>1. IInv => TypeOK BY DEF IInv
<1> QED BY <1>1, Invariance, PTL

(* The salary invariant of request.rs: no command, crash or interleaving   *)
(* puts a token on disk from which a principal other than the owner        *)
(* derives a never-delegable field.                                        *)
THEOREM SalaryNeverDelegated == Spec => []SalaryInvariant
<1>1. IInv => SalaryInvariant
  BY DEF IInv, TokenInv, Storable, SalaryInvariant
<1> QED BY <1>1, Invariance, PTL

(* A concurrent seed never separates the tokens, the registry and the      *)
(* keystore (ensure_root_key's create_new).                                *)
THEOREM KeysAgree == Spec => []KeyAgreement
<1>1. IInv => KeyAgreement BY DEF IInv, KeyInv
<1> QED BY <1>1, Invariance, PTL

(* Commands that raced leave a working system: after a seed, when nothing  *)
(* was revoked and nobody died, everybody has a token that loads until a   *)
(* grant's ttl runs out (seed's order of writes, mod.rs:197-220).          *)
THEOREM QuietIsUsable == Spec => []QuietSystemIsUsable
<1>1. ASSUME IInv, \A c \in Procs : pc[c] = "idle", crashes = 0,
             registry # NoRegistry, ids = {}, NEW p \in Principals
      PROVE  /\ caps[p] # NoToken
             /\ Loads(p) \/ ~Unexpired(caps[p], now)
  <2>1. caps[p] # NoToken
    BY <1>1 DEF IInv, SeedInv, Pending
  <2>2. caps[p].key = registry[FinanceRoot]
    BY <1>1, <2>1 DEF IInv, KeyInv, KeyAgreement
  <2>3. Holder(caps[p]) = p
    BY <1>1, <2>1 DEF IInv, TokenInv, Storable
  <2> QED BY <1>1, <2>1, <2>2, <2>3 DEF Loads, Verifies
<1>2. IInv => QuietSystemIsUsable
  BY <1>1 DEF QuietSystemIsUsable
<1> QED BY <1>2, Invariance, PTL

(* A completed revocation stays listed whatever seeds, mints, grants and   *)
(* later revocations follow, if `revoke` is run by one process at a time   *)
(* and no process dies rewriting a list (mod.rs:141-165).                  *)
THEOREM RevocationsStick ==
    ASSUME OneRevoker
    PROVE  Spec => []RevocationSticks
<1>1. Init => ListInv
  BY DEF Init, ListInv, Extends, Revoked, NoJob, NewJob
<1>2. IInv /\ ListInv /\ [Next]_vars => ListInv'
  BY ListInvStep DEF IInv
<1>3. ListInv => RevocationSticks
  BY DEF ListInv, RevocationSticks, Settled, Revoked
<1> QED BY <1>1, <1>2, <1>3, Invariance, PTL DEF Spec

(* No grant replaces the owner's root token. *)
THEOREM RootTokenKept == Spec => []OwnerKeepsRootToken
<1>1. IInv => OwnerKeepsRootToken
  BY ControlPlaneAssumption
     DEF IInv, TokenInv, Storable, OwnerKeepsRootToken, ControlPlaneAssumption
<1> QED BY <1>1, Invariance, PTL
=============================================================================
