----------------------------- MODULE Capability -----------------------------
(***************************************************************************)
(* Capability tokens: the block algebra of crates/sync/src/access.         *)
(*                                                                         *)
(* A token is an authority block, signed by a resource root's key, and a   *)
(* chain of attenuation blocks that anyone may append and nobody may       *)
(* remove.  What a token grants is never stored: it is derived from the    *)
(* blocks (verify_token), so every operator below reads the chain.         *)
(*                                                                         *)
(* Data abstracted: a row scope `team IN [...]` is the set of teams it     *)
(* admits (no scope = every team); the operations are left out (every      *)
(* capability the program mints carries the same {query, read}); a         *)
(* Biscuit revocation identifier is a number, fresh for every block.       *)
(***************************************************************************)
EXTENDS Naturals, Sequences

CONSTANTS
    Principals,      \* registered principal ids
    Views,           \* view ids, such as stripe/finance_private
    Fields,          \* column names
    Teams,           \* values of the row label `team`
    Docs,            \* document ids
    Keys,            \* root signing keys that may be generated
    NeverDelegable,  \* fields no approval path may delegate (employee_salary)
    RowLabels        \* labels an approval always adds (team, period)

ASSUME FieldAssumption ==
    /\ NeverDelegable \subseteq Fields
    /\ RowLabels \subseteq Fields
    /\ RowLabels \cap NeverDelegable = {}

(* One attenuation block as approve_request builds it and                  *)
(* attenuation_block renders it: `held` is the holder it names, `exp` the  *)
(* instant from which its `check if time($t), $t < exp` fails.             *)
Attenuation ==
    [id: Nat, by: Principals, held: Principals, allow: SUBSET Fields,
     deny: SUBSET Fields, rows: SUBSET Teams, exp: Nat]

Token ==
    [id: Nat, key: Keys, holder: Principals, view: Views,
     fields: SUBSET Fields, rows: SUBSET Teams, docs: SUBSET Docs,
     chain: Seq(Attenuation)]

(* A freshly signed token has only its authority block. *)
Signed(id, key, holder, view, fields, rows, docs) ==
    [id |-> id, key |-> key, holder |-> holder, view |-> view,
     fields |-> fields, rows |-> rows, docs |-> docs, chain |-> << >>]

(* Mutant: the approver's token is handed over as it is. *)
HandOver(t, b) == t

(* Appending is the only operation on an existing token. *)
AppendBlock(t, b) == [t EXCEPT !.chain = Append(t.chain, b)]

(* A request that names a never-delegable field is refused outright. *)
Approvable(fields) == fields \cap NeverDelegable = {}

(* Approval narrows the approver's token to the requested fields and the   *)
(* row labels, denies the never-delegable ones, and hands it over.         *)
ApprovalBlock(id, by, to, fields, rows, exp) ==
    [id |-> id, by |-> by, held |-> to, allow |-> fields \cup RowLabels,
     deny |-> NeverDelegable, rows |-> rows, exp |-> exp]

-----------------------------------------------------------------------------
(* What a verified token grants. *)

(* A field of the authority block survives when every block's checks pass. *)
ScopeFields(t) ==
    {f \in t.fields : \A i \in 1..Len(t.chain) :
        f \in t.chain[i].allow /\ f \notin t.chain[i].deny}

(* Authority rows intersected with every narrowing group. *)
ScopeRows(t) ==
    {r \in t.rows : \A i \in 1..Len(t.chain) : r \in t.chain[i].rows}

(* Document rights are read from the authority block alone: no block of    *)
(* the chain narrows them.                                                 *)
ScopeDocs(t) == t.docs

(* The holder is the last delegation of the chain. *)
Holder(t) ==
    IF t.chain = << >> THEN t.holder ELSE t.chain[Len(t.chain)].held

(* One revocation identifier per block; attenuated copies share the        *)
(* identifiers of the blocks they were appended to.                        *)
BlockIds(t) == {t.id} \cup {t.chain[i].id : i \in 1..Len(t.chain)}

(* The time-to-live checks of every block. *)
Unexpired(t, now) == \A i \in 1..Len(t.chain) : now < t.chain[i].exp

(* verify_capability: the signature matches the root's registered key, the *)
(* checks hold now, and the holder is the principal the file is for.       *)
Verifies(t, rootKey, p, now) ==
    /\ t.key = rootKey
    /\ Unexpired(t, now)
    /\ Holder(t) = p
=============================================================================
