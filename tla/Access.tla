------------------------------- MODULE Access -------------------------------
(***************************************************************************)
(* The token algebra of packages/protocol: access.ts (minting, attenuation *)
(* and authorization), requests.ts (routing and approval of requests) and  *)
(* brain.ts (the query layer behind a token).  All of it is pure.          *)
(*                                                                         *)
(* A token is a sequence of blocks, the authority first.  Attenuations are *)
(* not folded one after the other as the code does: what a token grants is *)
(* said of all its blocks at once.  An absent allowFields or rows is the   *)
(* value that restricts nothing.  Row predicates are a function from the   *)
(* row field to its set of values, empty when all rows are granted.  The   *)
(* time to live is recorded by the code for the audit and left out.        *)
(***************************************************************************)
EXTENDS Naturals, Sequences

NoRows == [f \in {} |-> {}]

Authority(root, ops, view, fields, rows) ==
  [root |-> root, ops |-> ops, view |-> view, fields |-> fields, rows |-> rows]

Attenuation(by, allow, deny, rows) ==
  [by |-> by, allowFields |-> allow, denyFields |-> deny, denyViews |-> {},
   rows |-> rows]

(* A root mints tokens of its own views; null stands for NoRootAuthority.  *)
Mint(root, holder, ops, view, fields, rows) ==
  IF view \in root.views
  THEN [holder |-> holder,
        blocks |-> << Authority(root.id, ops, view, fields, rows) >>]
  ELSE [holder |-> holder, blocks |-> << >>]

DelegateTo(cap, holder, block) ==
  [holder |-> holder, blocks |-> Append(cap.blocks, block)]

Attenuate(cap, block) == DelegateTo(cap, cap.holder, block)

---------------------------------------------------------------------------
(* What a token grants.                                                    *)

Attenuations(cap) == { cap.blocks[i] : i \in 2 .. Len(cap.blocks) }

EffectiveFields(cap) ==
  { f \in cap.blocks[1].fields :
      \A b \in Attenuations(cap) : f \in b.allowFields \ b.denyFields }

Restricting(cap, f) ==
  { i \in DOMAIN cap.blocks : f \in DOMAIN cap.blocks[i].rows }

(* Mutant: the rows of the last block replace those before it. *)
LastRows(cap) == cap.blocks[Len(cap.blocks)].rows

EffectiveRows(cap) ==
  [ f \in UNION { DOMAIN cap.blocks[i].rows : i \in DOMAIN cap.blocks } |->
      { v \in UNION { cap.blocks[i].rows[f] : i \in Restricting(cap, f) } :
          \A i \in Restricting(cap, f) : v \in cap.blocks[i].rows[f] } ]

DeniedViews(cap) == UNION { b.denyViews : b \in Attenuations(cap) }

RowAllowed(row, rows) == \A f \in DOMAIN rows : row[f] \in rows[f]

(* The first refusal that applies, or the fields granted and redacted.     *)
Authorize(cap, op, view, fields) ==
  IF cap.blocks = << >> THEN [decision |-> "no_grant"]
  ELSE IF cap.blocks[1].view # view THEN [decision |-> "no_grant"]
  ELSE IF view \in DeniedViews(cap) THEN [decision |-> "view_denied"]
  ELSE IF op \notin cap.blocks[1].ops THEN [decision |-> "wrong_op"]
  ELSE [decision |-> "ok",
        granted  |-> fields \cap EffectiveFields(cap),
        redacted |-> fields \ EffectiveFields(cap)]

Labels == {"team", "period"}

(* A query of the brain: refused, or the allowed rows cut down to the      *)
(* granted fields and the labels the token itself grants.                  *)
BrainQuery(cap, dataset, view, fields) ==
  LET decision == Authorize(cap, "query", view, fields)
      columns == (decision.granted \cup (Labels \cap EffectiveFields(cap)))
                   \cap dataset.columns
      allowed == { row \in dataset.rows : RowAllowed(row, EffectiveRows(cap)) }
  IN  IF decision.decision # "ok"
      THEN decision
      ELSE [decision |-> "ok", fields |-> decision.granted,
            redacted |-> decision.redacted, columns |-> columns,
            rows |-> allowed]

---------------------------------------------------------------------------
(* Requests.                                                               *)

NEVER_DELEGABLE == {"employee_salary"}

DelegableFields(cap) == EffectiveFields(cap) \ NEVER_DELEGABLE

RouteRequest(req, envelope) ==
  IF req.fields \cap envelope.neverDelegate # {} THEN "forbidden"
  ELSE IF req.view \in envelope.autoApprove THEN "auto" ELSE "escalate"

(* approveRequest throws on a field nobody may be given.                   *)
Refused(req) == req.fields \cap NEVER_DELEGABLE # {}

ApproveRequest(cap, req) ==
  Attenuate([cap EXCEPT !.holder = req.requester],
            Attenuation(cap.holder, req.fields \cup Labels, NEVER_DELEGABLE,
                        req.rowScope))
=============================================================================
