------------------------------ MODULE Scenario ------------------------------
(***************************************************************************)
(* The cast, the data and the tokens the web app starts from               *)
(* (packages/protocol/src/scenario.ts).  Amounts are left out: a row is    *)
(* the team it is about.                                                   *)
(***************************************************************************)
EXTENDS Access

SPEND_BY_TEAM == "stripe/spend_by_team"
FINANCE_PRIVATE == "stripe/finance_private"

CFO == "cfo"
CTO == "cto"
ENG == "eng"
CFO_AGENT == "agent:cfo/1"
CTO_AGENT == "agent:cto/1"
ENG_AGENT == "agent:eng/1"

Humans == {CFO, CTO, ENG}
OwnedAgents == [h \in Humans |-> CASE h = CFO -> {CFO_AGENT}
                                   [] h = CTO -> {CTO_AGENT}
                                   [] h = ENG -> {ENG_AGENT}]
Agents == UNION { OwnedAgents[h] : h \in Humans }
REGISTRY == Humans \cup Agents

CFO_ROOT == [id |-> CFO, owner |-> CFO, views |-> {FINANCE_PRIVATE, SPEND_BY_TEAM}]
CONTROL_PLANE_ROOT == [id |-> "control-plane", owner |-> "control-plane", views |-> {}]

ALL_TEAMS == {"eng", "ops", "sales", "finance"}
SpendFields == {"team", "period", "gross", "net"}
FinanceFields == SpendFields \cup {"discount_tier", "credits", "employee_salary"}
RowScopes == {NoRows} \cup [{"team"} -> SUBSET ALL_TEAMS]
Views == {SPEND_BY_TEAM, FINANCE_PRIVATE}

DATASETS ==
  [v \in Views |->
     [columns |-> IF v = SPEND_BY_TEAM THEN SpendFields ELSE FinanceFields,
      rows    |-> { [team |-> t] : t \in ALL_TEAMS }]]

Spend(holder, rows) ==
  Mint(CFO_ROOT, holder, {"query", "read"}, SPEND_BY_TEAM, SpendFields, rows)

RegistryCapability(p) ==
  CASE p = CFO -> Mint(CFO_ROOT, CFO, {"query", "read"}, FINANCE_PRIVATE,
                       FinanceFields, NoRows)
    [] p = ENG_AGENT -> Spend(p, [f \in {"team"} |-> {"eng"}])
    [] p = ENG -> Spend(p, [f \in {"team"} |-> {"eng", "ops"}])
    [] OTHER -> Spend(p, NoRows)

CFO_ENVELOPE ==
  [autoApprove |-> {SPEND_BY_TEAM}, neverDelegate |-> {"employee_salary"}]

FLOW_A_REQUEST ==
  [id |-> "req-flow-a", requester |-> CTO_AGENT, view |-> FINANCE_PRIVATE,
   fields |-> {"gross", "credits", "discount_tier"},
   rowScope |-> [f \in {"team"} |-> ALL_TEAMS]]
FLOW_B_REQUEST ==
  [id |-> "req-flow-b", requester |-> ENG_AGENT, view |-> FINANCE_PRIVATE,
   fields |-> {"employee_salary"}, rowScope |-> NoRows]

INBOX_SEED == {FLOW_A_REQUEST, FLOW_B_REQUEST}

(* The owner of the root whose view it is; the CFO for any other view.     *)
ResourceOwnerOf(v) == IF v \in CFO_ROOT.views THEN CFO_ROOT.owner ELSE CFO
=============================================================================
