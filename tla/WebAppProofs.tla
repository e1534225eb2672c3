----------------------------- MODULE WebAppProofs -----------------------------
(***************************************************************************)
(* Theorems about the whole web app: its access store first, then its      *)
(* console.  Every step of the app is a step of one of the two, or leaves  *)
(* both alone, so each keeps its own inductive invariant: StoreInv and     *)
(* ConsoleInv.                                                             *)
(***************************************************************************)
EXTENDS WebApp, FiniteSetTheorems, SequenceTheorems, TLAPS

(***************************************************************************)
(* Safety of the web app's access store, for any queue of requests and for *)
(* everything the app around it does: no agent ever holds a salary,        *)
(* whatever is delegated or approved grants no more than its giver holds,  *)
(* and what the pages say they hand out is what a query then answers.      *)
(*                                                                         *)
(* None is inductive alone.  What makes them hold is that a human's token  *)
(* never changes, and that an agent's is the one it started with or a      *)
(* human's with one block more, which denies what nobody may delegate.     *)
(***************************************************************************)

(* What a form may hold, shown or not. *)
Forms == [owner : Humans \cup {""}, agent : Agents \cup {""},
          fields : SUBSET FinanceFields, teams : SUBSET ALL_TEAMS]

(* A token its agent got from a human. *)
Given(cap, agent, h) ==
  \E block \in AttenuationBlocks :
    /\ block.by = h
    /\ NEVER_DELEGABLE \subseteq block.denyFields
    /\ cap = DelegateTo(RegistryCapability(h), agent, block)

(* Humans keep the tokens they started with. *)
HumansKeep == \A h \in Humans : caps[h] = RegistryCapability(h)

(* Agents hold the tokens they started with, or one a human gave them. *)
AgentsAreGiven ==
  \A a \in Agents : \/ caps[a] = RegistryCapability(a)
                    \/ \E h \in Humans : Given(caps[a], a, h)

(* The inductive invariant. *)
StoreInv ==
  /\ caps \in [REGISTRY -> Tokens] /\ HumansKeep /\ AgentsAreGiven
  /\ requests \in [Inbox -> {"pending", "auto", "approved", "denied", "forbidden"}]
  /\ form \in Forms
  /\ form = NoForm \/ /\ form.owner \in Humans
                      /\ form.agent \in OwnedAgents[form.owner]
                      /\ form.fields \subseteq DelegableFields(caps[form.owner])
                      /\ form.teams \subseteq TeamsFor(caps[form.owner])

---------------------------------------------------------------------------
(* The algebra. *)

(* Appending to the blocks of a token keeps them and adds one. *)
LEMMA AppendedBlocks ==
  ASSUME NEW S, NEW s \in Seq(S), NEW e
  PROVE  /\ Len(Append(s, e)) = Len(s) + 1
         /\ DOMAIN Append(s, e) = DOMAIN s \cup {Len(s) + 1}
         /\ \A i \in DOMAIN s : Append(s, e)[i] = s[i]
         /\ Append(s, e)[Len(s) + 1] = e
         /\ e \in S => Append(s, e) \in Seq(S)
  <1>1. Len(s) \in Nat /\ DOMAIN s = 1 .. Len(s)
    OBVIOUS
  <1>. QED
    BY <1>1

(* A delegated token has its parent's attenuations and the new block. *)
LEMMA DelegatedAttenuations ==
  ASSUME NEW S, NEW cap, cap.blocks \in Seq(S), cap.blocks # << >>,
         NEW holder, NEW block
  PROVE  /\ Attenuations(DelegateTo(cap, holder, block))
              = Attenuations(cap) \cup {block}
         /\ DelegateTo(cap, holder, block).blocks[1] = cap.blocks[1]
  <1>. DEFINE n == Len(cap.blocks)
              new == Append(cap.blocks, block)
  <1>1. /\ n \in Nat /\ n >= 1 /\ Len(new) = n + 1
        /\ \A i \in 1 .. n : new[i] = cap.blocks[i]
        /\ new[n + 1] = block
    BY AppendedBlocks
  <1>2. DelegateTo(cap, holder, block).blocks = new
    BY DEF DelegateTo
  <1>3. 2 .. n + 1 = (2 .. n) \cup {n + 1}
    BY <1>1
  <1>. HIDE DEF new, n
  <1>4. { new[i] : i \in 2 .. n + 1 } = { cap.blocks[i] : i \in 2 .. n } \cup {block}
    BY <1>1, <1>3
  <1>. QED
    BY <1>1, <1>2, <1>4 DEF Attenuations, n

(* Delegation narrows: whatever the block says, the child grants no field  *)
(* and no row that its parent does not.                                    *)
THEOREM DelegationNarrows ==
  ASSUME NEW S, NEW cap, cap.blocks \in Seq(S), cap.blocks # << >>,
         NEW holder, NEW block
  PROVE  Within(DelegateTo(cap, holder, block), cap)
  <1>. DEFINE child == DelegateTo(cap, holder, block)
  <1>1. /\ Attenuations(cap) \subseteq Attenuations(child)
        /\ child.blocks[1] = cap.blocks[1]
    BY DelegatedAttenuations
  <1>2. EffectiveFields(child) \subseteq EffectiveFields(cap)
    BY <1>1 DEF EffectiveFields
  <1>3. child.blocks = Append(cap.blocks, block)
    BY DEF DelegateTo
  <1>4. /\ DOMAIN cap.blocks \subseteq DOMAIN child.blocks
        /\ \A i \in DOMAIN cap.blocks : child.blocks[i] = cap.blocks[i]
    BY <1>3, AppendedBlocks
  <1>. HIDE DEF child
  <1>5. ASSUME NEW f \in DOMAIN EffectiveRows(cap)
        PROVE  /\ f \in DOMAIN EffectiveRows(child)
               /\ EffectiveRows(child)[f] \subseteq EffectiveRows(cap)[f]
    <2>1. PICK k \in DOMAIN cap.blocks : f \in DOMAIN cap.blocks[k].rows
      BY DEF EffectiveRows
    <2>2. f \in UNION { DOMAIN child.blocks[i].rows : i \in DOMAIN child.blocks }
      BY <2>1, <1>4
    <2>3. f \in DOMAIN EffectiveRows(child)
      BY <2>2 DEF EffectiveRows
    <2>4. \A i \in Restricting(cap, f) :
            i \in Restricting(child, f) /\ child.blocks[i] = cap.blocks[i]
      BY <1>4 DEF Restricting
    <2>5. ASSUME NEW v \in EffectiveRows(child)[f] PROVE v \in EffectiveRows(cap)[f]
      <3>1. \A i \in Restricting(child, f) : v \in child.blocks[i].rows[f]
        BY <2>2 DEF EffectiveRows
      <3>2. \A i \in Restricting(cap, f) : v \in cap.blocks[i].rows[f]
        BY <3>1, <2>4
      <3>3. k \in Restricting(cap, f)
        BY <2>1 DEF Restricting
      <3>. QED
        BY <3>2, <3>3 DEF EffectiveRows
    <2>. QED
      BY <2>3, <2>5
  <1>. QED
    BY <1>1, <1>2, <1>5 DEF Within, child

(* What no block may delegate, a token with such a block does not grant. *)
LEMMA DenyingBlock ==
  ASSUME NEW S, NEW cap, cap.blocks \in Seq(S), cap.blocks # << >>,
         NEW holder, NEW block, NEVER_DELEGABLE \subseteq block.denyFields
  PROVE  EffectiveFields(DelegateTo(cap, holder, block)) \cap NEVER_DELEGABLE = {}
  BY DelegatedAttenuations DEF EffectiveFields

(* A token of one block grants what its authority says, and passed nothing *)
(* on.                                                                     *)
LEMMA OneBlock ==
  ASSUME NEW cap, NEW block, cap.blocks = << block >>
  PROVE  /\ Attenuations(cap) = {}
         /\ EffectiveFields(cap) = block.fields
  <1>1. 2 .. Len(cap.blocks) = {} /\ cap.blocks[1] = block
    OBVIOUS
  <1>. QED
    BY <1>1 DEF Attenuations, EffectiveFields

---------------------------------------------------------------------------
(* The scenario. *)

(* The principals are six, and the agents are no humans. *)
LEMMA Cast ==
  /\ Humans = {CFO, CTO, ENG} /\ Agents = {CFO_AGENT, CTO_AGENT, ENG_AGENT}
  /\ REGISTRY = Humans \cup Agents /\ Humans \cap Agents = {}
  /\ \A h \in Humans : OwnedAgents[h] \subseteq Agents
  BY DEF Humans, Agents, REGISTRY, OwnedAgents, CFO, CTO, ENG, CFO_AGENT,
         CTO_AGENT, ENG_AGENT

(* Everybody starts with a token of one block, to query with; only the     *)
(* CFO's grants a salary, and it is of all there is.                       *)
LEMMA SeededTokens ==
  ASSUME NEW p \in REGISTRY
  PROVE  /\ RegistryCapability(p) \in Tokens
         /\ RegistryCapability(p).holder = p
         /\ \E b \in AuthorityBlocks :
              /\ RegistryCapability(p).blocks = << b >> /\ "query" \in b.ops
              /\ p # CFO => b.fields = SpendFields
              /\ p = CFO => /\ b.view = FINANCE_PRIVATE /\ b.fields = FinanceFields
                            /\ b.rows = NoRows
  <1>. DEFINE Seeded(fields, view, rows) ==
         [holder |-> p, blocks |-> << Authority(CFO, {"query", "read"}, view, fields, rows) >>]
  <1>1. /\ NoRows \in RowScopes
        /\ [f \in {"team"} |-> {"eng"}] \in RowScopes
        /\ [f \in {"team"} |-> {"eng", "ops"}] \in RowScopes
    BY DEF RowScopes, ALL_TEAMS
  <1>2. \E view \in Views, rows \in RowScopes, fields \in SUBSET FinanceFields :
          /\ RegistryCapability(p) = Seeded(fields, view, rows)
          /\ p # CFO => fields = SpendFields
          /\ p = CFO => view = FINANCE_PRIVATE /\ fields = FinanceFields /\ rows = NoRows
    <2>1. CASE p = CFO
      <3>1. RegistryCapability(p) = Seeded(FinanceFields, FINANCE_PRIVATE, NoRows)
        <4>1. FINANCE_PRIVATE \in CFO_ROOT.views /\ CFO_ROOT.id = CFO
          BY DEF CFO_ROOT
        <4>2. RegistryCapability(p) = Mint(CFO_ROOT, CFO, {"query", "read"},
                                           FINANCE_PRIVATE, FinanceFields, NoRows)
          BY <2>1 DEF RegistryCapability, CFO, ENG, ENG_AGENT
        <4>. QED
          BY <2>1, <4>1, <4>2 DEF Mint
      <3>. QED
        BY <2>1, <3>1, <1>1 DEF Views
    <2>2. CASE p # CFO
      <3>1. \E rows \in RowScopes : RegistryCapability(p) = Spend(p, rows)
        BY <2>2, <1>1 DEF RegistryCapability, REGISTRY
      <3>2. \A rows : Spend(p, rows) = Seeded(SpendFields, SPEND_BY_TEAM, rows)
        BY DEF Spend, Mint, CFO_ROOT
      <3>3. SpendFields \subseteq FinanceFields
        BY DEF FinanceFields
      <3>. QED
        BY <2>2, <3>1, <3>2, <3>3 DEF Views
    <2>. QED
      BY <2>1, <2>2
  <1>3. PICK view \in Views, rows \in RowScopes, fields \in SUBSET FinanceFields :
          /\ RegistryCapability(p) = Seeded(fields, view, rows)
          /\ p # CFO => fields = SpendFields
          /\ p = CFO => view = FINANCE_PRIVATE /\ fields = FinanceFields /\ rows = NoRows
    BY <1>2
  <1>. DEFINE b == Authority(CFO, {"query", "read"}, view, fields, rows)
  <1>4. /\ b \in AuthorityBlocks /\ "query" \in b.ops
        /\ b.fields = fields /\ b.view = view /\ b.rows = rows
    BY DEF AuthorityBlocks, Authority
  <1>5. << b >> \in Seq(AuthorityBlocks \cup AttenuationBlocks)
    BY <1>4
  <1>. HIDE DEF b
  <1>. QED
    BY <1>3, <1>4, <1>5 DEF Tokens, b

---------------------------------------------------------------------------
(* What a token given by a human is. *)
LEMMA GivenTokens ==
  ASSUME NEW h \in Humans, NEW a \in Agents, NEW cap, Given(cap, a, h)
  PROVE  /\ cap \in Tokens /\ cap.holder = a /\ cap.blocks # << >>
         /\ EffectiveFields(cap) \cap NEVER_DELEGABLE = {}
         /\ \A b \in Attenuations(cap) : b.by = h
         /\ Within(cap, RegistryCapability(h))
  <1>. DEFINE S == AuthorityBlocks \cup AttenuationBlocks
              parent == RegistryCapability(h)
  <1>1. PICK block \in AttenuationBlocks :
          /\ block.by = h
          /\ NEVER_DELEGABLE \subseteq block.denyFields
          /\ cap = DelegateTo(parent, a, block)
    BY DEF Given
  <1>2. h \in REGISTRY /\ a \in REGISTRY
    BY Cast
  <1>3. PICK authority \in AuthorityBlocks : parent.blocks = << authority >>
    BY <1>2, SeededTokens
  <1>4. parent.blocks \in Seq(S) /\ parent.blocks # << >> /\ Attenuations(parent) = {}
    BY <1>3, OneBlock
  <1>. HIDE DEF S, parent
  <1>5. Append(parent.blocks, block) \in Seq(S) /\ Append(parent.blocks, block) # << >>
    <2>1. block \in S
      BY DEF S
    <2>2. /\ Append(parent.blocks, block) \in Seq(S)
          /\ Len(Append(parent.blocks, block)) = Len(parent.blocks) + 1
      BY <1>4, <2>1, AppendedBlocks
    <2>3. Len(parent.blocks) \in Nat
      BY <1>4
    <2>. QED
      BY <2>2, <2>3
  <1>6. cap \in Tokens /\ cap.holder = a /\ cap.blocks # << >>
    BY <1>1, <1>2, <1>5 DEF DelegateTo, Tokens, S
  <1>7. Attenuations(cap) = {block}
    BY <1>1, <1>4, DelegatedAttenuations
  <1>8. EffectiveFields(cap) \cap NEVER_DELEGABLE = {}
    BY <1>1, <1>4, DenyingBlock
  <1>9. Within(cap, parent)
    BY <1>1, <1>4, DelegationNarrows
  <1>. QED
    BY <1>1, <1>6, <1>7, <1>8, <1>9 DEF parent

(* The invariant implies the store's type invariant. *)
LEMMA StoreTypes == StoreInv => StoreTypeOK
  <1>. SUFFICES ASSUME StoreInv PROVE StoreTypeOK
    OBVIOUS
  <1>1. ASSUME NEW p \in REGISTRY PROVE caps[p].holder = p /\ caps[p].blocks # << >>
    <2>1. CASE p \in Humans \/ caps[p] = RegistryCapability(p)
      BY <2>1, SeededTokens DEF StoreInv, HumansKeep
    <2>2. CASE p \in Agents /\ \E h \in Humans : Given(caps[p], p, h)
      BY <2>2, GivenTokens
    <2>. QED
      BY <2>1, <2>2, Cast DEF StoreInv, AgentsAreGiven
  <1>. QED
    BY <1>1 DEF StoreInv, StoreTypeOK

(* The invariant implies that no agent holds a salary. *)
LEMMA NoSalary == StoreInv => SalaryStaysHome
  <1>. SUFFICES ASSUME StoreInv, NEW a \in Agents
                PROVE  EffectiveFields(caps[a]) \cap NEVER_DELEGABLE = {}
    BY DEF SalaryStaysHome
  <1>1. CASE caps[a] = RegistryCapability(a)
    <2>1. a \in REGISTRY /\ a # CFO
      BY Cast DEF Humans
    <2>2. EffectiveFields(caps[a]) = SpendFields
      BY <1>1, <2>1, SeededTokens, OneBlock
    <2>. QED
      BY <2>2 DEF SpendFields, NEVER_DELEGABLE
  <1>2. CASE \E h \in Humans : Given(caps[a], a, h)
    BY <1>2, GivenTokens
  <1>. QED
    BY <1>1, <1>2 DEF StoreInv, AgentsAreGiven

(* The invariant implies that tokens only narrow. *)
LEMMA Narrowed == StoreInv => NarrowsOnly
  <1>. SUFFICES ASSUME StoreInv, NEW p \in REGISTRY, NEW b \in Attenuations(caps[p])
                PROVE  Within(caps[p], caps[b.by])
    BY DEF NarrowsOnly
  <1>1. caps[p] # RegistryCapability(p)
    BY SeededTokens, OneBlock
  <1>2. PICK h \in Humans : Given(caps[p], p, h) /\ p \in Agents
    BY <1>1, Cast DEF StoreInv, HumansKeep, AgentsAreGiven
  <1>. QED
    BY <1>2, GivenTokens DEF StoreInv, HumansKeep

---------------------------------------------------------------------------
(* The steps of the store. *)

(* What a form offers of a human's token is of the scenario. *)
LEMMA FormOffers ==
  ASSUME NEW h \in Humans
  PROVE  /\ DelegableFields(RegistryCapability(h)) \subseteq FinanceFields
         /\ TeamsFor(RegistryCapability(h)) \subseteq ALL_TEAMS
  <1>. DEFINE cap == RegistryCapability(h)
  <1>1. PICK b \in AuthorityBlocks : cap.blocks = << b >>
    BY Cast, SeededTokens
  <1>2. /\ DOMAIN cap.blocks = {1} /\ cap.blocks[1] = b
        /\ b.fields \subseteq FinanceFields /\ b.rows \in RowScopes /\ b.view \in Views
    BY <1>1 DEF AuthorityBlocks
  <1>. HIDE DEF cap
  <1>3. DelegableFields(cap) \subseteq FinanceFields
    BY <1>1, <1>2, OneBlock DEF DelegableFields
  <1>4. ASSUME "team" \in DOMAIN EffectiveRows(cap)
        PROVE  EffectiveRows(cap)["team"] \subseteq ALL_TEAMS
    <2>1. "team" \in DOMAIN b.rows
      BY <1>2, <1>4 DEF EffectiveRows
    <2>2. b.rows["team"] \subseteq ALL_TEAMS
      BY <1>2, <2>1 DEF RowScopes, NoRows
    <2>3. EffectiveRows(cap)["team"] \subseteq b.rows["team"]
      BY <1>2, <1>4 DEF EffectiveRows, Restricting
    <2>. QED
      BY <2>2, <2>3
  <1>5. { row.team : row \in DATASETS[cap.blocks[1].view].rows } \subseteq ALL_TEAMS
    <2>1. DATASETS[b.view].rows = { [team |-> t] : t \in ALL_TEAMS }
      BY <1>2 DEF DATASETS
    <2>. QED
      BY <1>2, <2>1
  <1>. QED
    BY <1>3, <1>4, <1>5 DEF TeamsFor, cap

(* A human hands a token to an agent. *)
LEMMA Handing ==
  ASSUME StoreInv, NEW h \in Humans, NEW a \in Agents,
         NEW block \in AttenuationBlocks, block.by = h,
         NEVER_DELEGABLE \subseteq block.denyFields,
         caps' = [caps EXCEPT ![a] = DelegateTo(caps[h], a, block)]
  PROVE  /\ caps' \in [REGISTRY -> Tokens] /\ HumansKeep' /\ AgentsAreGiven'
         /\ \A p \in Humans : caps'[p] = caps[p]
  <1>1. caps \in [REGISTRY -> Tokens] /\ a \in REGISTRY
    BY Cast DEF StoreInv
  <1>2. \A p \in Humans : p \in REGISTRY /\ p # a
    BY Cast
  <1>3. caps[h] = RegistryCapability(h)
    BY DEF StoreInv, HumansKeep
  <1>4. Given(caps'[a], a, h)
    BY <1>1, <1>3 DEF Given
  <1>5. caps'[a] \in Tokens
    BY <1>4, GivenTokens
  <1>6. \A p \in REGISTRY \ {a} : caps'[p] = caps[p]
    BY <1>1
  <1>7. caps' \in [REGISTRY -> Tokens]
    <2>1. caps' = [p \in REGISTRY |-> caps'[p]]
      BY <1>1
    <2>2. \A p \in REGISTRY : caps'[p] \in Tokens
      BY <1>1, <1>5, <1>6
    <2>. HIDE DEF Tokens
    <2>. QED
      BY <2>1, <2>2
  <1>8. \A p \in Humans : caps'[p] = caps[p]
    BY <1>2, <1>6
  <1>9. HumansKeep'
    BY <1>8 DEF StoreInv, HumansKeep
  <1>10. AgentsAreGiven'
    <2>. SUFFICES ASSUME NEW c \in Agents
                  PROVE  \/ caps'[c] = RegistryCapability(c)
                         \/ \E p \in Humans : Given(caps'[c], c, p)
      BY DEF AgentsAreGiven
    <2>1. CASE c = a
      BY <2>1, <1>4
    <2>2. CASE c # a
      BY <2>2, <1>6, Cast DEF StoreInv, AgentsAreGiven
    <2>. QED
      BY <2>1, <2>2
  <1>. QED
    BY <1>7, <1>8, <1>9, <1>10

(* What a form holds stays possible while humans keep their tokens. *)
LEMMA FormStays ==
  ASSUME StoreInv, form' \in {form, NoForm},
         \A p \in Humans : caps'[p] = caps[p]
  PROVE  /\ form' \in Forms
         /\ form' = NoForm \/ /\ form'.owner \in Humans
                              /\ form'.agent \in OwnedAgents[form'.owner]
                              /\ form'.fields \subseteq DelegableFields(caps'[form'.owner])
                              /\ form'.teams \subseteq TeamsFor(caps'[form'.owner])
  <1>1. NoForm \in Forms
    BY DEF NoForm, Forms
  <1>2. CASE form' = NoForm
    BY <1>1, <1>2
  <1>3. CASE form' = form /\ form # NoForm
    <2>1. form.owner \in Humans /\ caps'[form.owner] = caps[form.owner]
      BY <1>3 DEF StoreInv
    <2>2. form \in Forms /\ form.agent \in OwnedAgents[form.owner]
          /\ form.fields \subseteq DelegableFields(caps[form.owner])
          /\ form.teams \subseteq TeamsFor(caps[form.owner])
      BY <1>3 DEF StoreInv
    <2>. QED
      BY <1>3, <2>1, <2>2
  <1>. QED
    BY <1>2, <1>3

(* An approval or a refusal of a request. *)
LEMMA AnswerStep ==
  ASSUME StoreInv, NEW req \in Inbox, Approve(req) \/ Deny(req)
  PROVE  StoreInv'
  <1>. DEFINE Statuses == {"pending", "auto", "approved", "denied", "forbidden"}
  <1>1. /\ req.requester \in Agents /\ req.fields \subseteq FinanceFields
        /\ req.rowScope \in RowScopes
    BY InboxAssumption
  <1>2. requests \in [Inbox -> Statuses]
    BY DEF StoreInv
  <1>3. requests' \in [Inbox -> Statuses]
    BY <1>2 DEF Approve, Deny
  <1>4. form' = form
    BY DEF Approve, Deny
  <1>5. CASE caps' = caps
    BY <1>3, <1>4, <1>5 DEF StoreInv, HumansKeep, AgentsAreGiven
  <1>6. CASE caps' # caps
    <2>1. caps' = [caps EXCEPT ![req.requester] = ApproveRequest(caps[CFO], req)]
      BY <1>6 DEF Approve, Deny, ResourceOwnerOf, CFO_ROOT
    <2>. DEFINE block == Attenuation(CFO, req.fields \cup Labels, NEVER_DELEGABLE,
                                     req.rowScope)
    <2>2. CFO \in Humans /\ CFO \in REGISTRY
      BY Cast
    <2>3. caps[CFO] \in Tokens /\ caps[CFO].holder = CFO
      BY <2>2, SeededTokens DEF StoreInv, HumansKeep
    <2>4. ApproveRequest(caps[CFO], req) = DelegateTo(caps[CFO], req.requester, block)
      BY <2>3 DEF ApproveRequest, Attenuate, DelegateTo, Tokens
    <2>5. block \in AttenuationBlocks /\ block.by = CFO
          /\ NEVER_DELEGABLE \subseteq block.denyFields
      BY <1>1, <2>2 DEF AttenuationBlocks, Attenuation, Labels, FinanceFields,
         SpendFields, NEVER_DELEGABLE
    <2>. HIDE DEF block
    <2>6. /\ caps' \in [REGISTRY -> Tokens] /\ HumansKeep' /\ AgentsAreGiven'
          /\ \A p \in Humans : caps'[p] = caps[p]
      BY <2>1, <2>2, <2>4, <2>5, <1>1, Handing
    <2>. QED
      BY <2>6, <1>3, <1>4, FormStays DEF StoreInv
  <1>. QED
    BY <1>5, <1>6

(* A click on Delegate. *)
LEMMA SubmitStep == ASSUME StoreInv, Submit PROVE StoreInv'
  <1>. DEFINE h == form.owner
              block == Attenuation(h, form.fields \cap DelegableFields(caps[h]),
                                   NEVER_DELEGABLE, SelectedRows)
  <1>1. /\ h \in Humans /\ form.agent \in OwnedAgents[h]
        /\ form.fields \subseteq FinanceFields /\ form.teams \subseteq ALL_TEAMS
    BY DEF Submit, StoreInv, Forms
  <1>2. h \in REGISTRY /\ form.agent \in Agents
    BY <1>1, Cast
  <1>3. SelectedRows \in RowScopes
    BY <1>1 DEF SelectedRows, RowScopes
  <1>4. block \in AttenuationBlocks /\ block.by = h
        /\ NEVER_DELEGABLE \subseteq block.denyFields
    BY <1>1, <1>2, <1>3 DEF AttenuationBlocks, Attenuation, NEVER_DELEGABLE, FinanceFields
  <1>5. caps' = [caps EXCEPT ![form.agent] = DelegateTo(caps[h], form.agent, block)]
    BY DEF Submit, Delegate
  <1>. HIDE DEF block
  <1>6. /\ caps' \in [REGISTRY -> Tokens] /\ HumansKeep' /\ AgentsAreGiven'
        /\ \A p \in Humans : caps'[p] = caps[p]
    BY <1>1, <1>2, <1>4, <1>5, Handing
  <1>7. form' = form /\ requests' = requests
    BY DEF Submit
  <1>. QED
    BY <1>6, <1>7, FormStays DEF StoreInv

(* The form that opens for a human's agent. *)
LEMMA FormForOwner ==
  ASSUME StoreInv, NEW owner \in Humans, NEW agent \in OwnedAgents[owner],
         form' = FormFor(owner, agent), UNCHANGED << caps, requests >>
  PROVE  StoreInv'
  <1>1. caps[owner] = RegistryCapability(owner)
    BY DEF StoreInv, HumansKeep
  <1>2. /\ DelegableFields(caps[owner]) \subseteq FinanceFields
        /\ TeamsFor(caps[owner]) \subseteq ALL_TEAMS
    BY <1>1, FormOffers
  <1>3. /\ form' \in Forms /\ form'.owner = owner /\ form'.agent = agent
        /\ form'.fields = DelegableFields(caps[owner])
        /\ form'.teams = TeamsFor(caps[owner])
    BY <1>2, Cast DEF FormFor, Forms
  <1>. QED
    BY <1>3 DEF StoreInv, HumansKeep, AgentsAreGiven

(* A box of the form is ticked or unticked. *)
LEMMA ToggleStep ==
  ASSUME StoreInv,
         \/ \E f \in FinanceFields : ToggleField(f)
         \/ \E t \in ALL_TEAMS : ToggleTeam(t)
  PROVE  StoreInv'
  <1>. DEFINE h == form.owner
  <1>1. /\ form # NoForm /\ form \in Forms /\ h \in Humans
        /\ form.agent \in OwnedAgents[h] /\ UNCHANGED << caps, requests >>
        /\ form.fields \subseteq DelegableFields(caps[h])
        /\ form.teams \subseteq TeamsFor(caps[h])
    BY DEF StoreInv, ToggleField, ToggleTeam
  <1>2. CASE \E f \in FinanceFields : ToggleField(f)
    <2>1. PICK f \in FinanceFields :
            /\ f \in DelegableFields(caps[h])
            /\ form' = [form EXCEPT !.fields = Toggled(@, f)]
      BY <1>2 DEF ToggleField
    <2>2. /\ Toggled(form.fields, f) \subseteq DelegableFields(caps[h])
          /\ Toggled(form.fields, f) \subseteq FinanceFields
      BY <1>1, <2>1 DEF Toggled, Forms
    <2>3. /\ form' \in Forms /\ form'.owner = h /\ form'.agent = form.agent
          /\ form'.fields \subseteq DelegableFields(caps[h])
          /\ form'.teams = form.teams
      BY <1>1, <2>1, <2>2 DEF Forms
    <2>. QED
      BY <1>1, <2>3 DEF StoreInv, HumansKeep, AgentsAreGiven
  <1>3. CASE \E t \in ALL_TEAMS : ToggleTeam(t)
    <2>1. PICK t \in ALL_TEAMS :
            /\ t \in TeamsFor(caps[h])
            /\ form' = [form EXCEPT !.teams = Toggled(@, t)]
      BY <1>3 DEF ToggleTeam
    <2>2. /\ Toggled(form.teams, t) \subseteq TeamsFor(caps[h])
          /\ Toggled(form.teams, t) \subseteq ALL_TEAMS
      BY <1>1, <2>1 DEF Toggled, Forms
    <2>3. /\ form' \in Forms /\ form'.owner = h /\ form'.agent = form.agent
          /\ form'.fields = form.fields
          /\ form'.teams \subseteq TeamsFor(caps[h])
      BY <1>1, <2>1, <2>2 DEF Forms
    <2>. QED
      BY <1>1, <2>3 DEF StoreInv, HumansKeep, AgentsAreGiven
  <1>. QED
    BY <1>2, <1>3

(* The store and the page around it. *)

(* A form may be shut, and nothing else changes. *)
FormClosed == form' \in {form, NoForm} /\ UNCHANGED << caps, requests >>

(* Tokens and requests start over. *)
StartsOver == /\ form' \in {form, NoForm}
              /\ caps' = RegistryCapabilities /\ requests' = SeedRequests

(* The seeded tokens and requests. *)
LEMMA Seeds ==
  /\ RegistryCapabilities \in [REGISTRY -> Tokens]
  /\ \A p \in REGISTRY : RegistryCapabilities[p] = RegistryCapability(p)
  /\ SeedRequests \in [Inbox -> {"pending", "auto", "approved", "denied", "forbidden"}]
  <1>1. \A p \in REGISTRY : RegistryCapability(p) \in Tokens
    BY SeededTokens
  <1>2. \A req \in Inbox : SeedStatus(req) \in {"pending", "auto", "forbidden"}
    BY DEF SeedStatus, RouteRequest
  <1>. HIDE DEF Tokens
  <1>. QED
    BY <1>1, <1>2 DEF RegistryCapabilities, SeedRequests

(* Both keep the invariant. *)
LEMMA FormClosedStep == ASSUME StoreInv, FormClosed PROVE StoreInv'
  <1>1. UNCHANGED << caps, requests >> /\ form' \in {form, NoForm}
    BY DEF FormClosed
  <1>. QED
    BY <1>1, FormStays DEF StoreInv, HumansKeep, AgentsAreGiven

LEMMA StartsOverStep == ASSUME StoreInv, StartsOver PROVE StoreInv'
  <1>1. \A p \in REGISTRY : caps'[p] = RegistryCapability(p)
    BY Seeds DEF StartsOver
  <1>2. HumansKeep' /\ AgentsAreGiven'
    BY <1>1, Cast DEF HumansKeep, AgentsAreGiven
  <1>3. \A p \in Humans : caps'[p] = caps[p]
    BY <1>1, Cast DEF StoreInv, HumansKeep
  <1>4. form' \in {form, NoForm}
    BY DEF StartsOver
  <1>5. caps' \in [REGISTRY -> Tokens]
        /\ requests' \in [Inbox -> {"pending", "auto", "approved", "denied", "forbidden"}]
    BY Seeds DEF StartsOver
  <1>. QED
    BY <1>2, <1>3, <1>4, <1>5, FormStays DEF StoreInv

LEMMA StoreInits == ASSUME StoreInit PROVE StoreInv
  <1>1. NoForm \in Forms
    BY DEF NoForm, Forms
  <1>2. \A p \in REGISTRY : caps[p] = RegistryCapability(p)
    BY Seeds DEF StoreInit
  <1>. QED
    BY <1>1, <1>2, Seeds, Cast DEF StoreInit, StoreInv, HumansKeep, AgentsAreGiven

(* Every step of the store keeps the invariant. *)
LEMMA StoreSteps == ASSUME StoreInv, [StoreNext]_storeVars PROVE StoreInv'
  <1>1. CASE UNCHANGED storeVars
    BY <1>1, FormClosedStep DEF storeVars, FormClosed
  <1>2. CASE \E req \in Inbox : Approve(req) \/ Deny(req)
    BY <1>2, AnswerStep
  <1>3. CASE Reset
    BY <1>3, StartsOverStep DEF Reset, StartsOver
  <1>4. CASE \E owner \in Humans : \E agent \in OwnedAgents[owner] : OpenForm(owner, agent)
    BY <1>4, FormForOwner DEF OpenForm
  <1>5. CASE CloseForm
    BY <1>5, FormClosedStep DEF CloseForm, FormClosed
  <1>6. CASE \E owner \in Humans : ChangeOwner(owner)
    BY <1>6, FormForOwner DEF ChangeOwner
  <1>7. CASE \/ \E f \in FinanceFields : ToggleField(f)
             \/ \E t \in ALL_TEAMS : ToggleTeam(t)
    BY <1>7, ToggleStep
  <1>8. CASE Submit
    BY <1>8, SubmitStep
  <1>. QED
    BY <1>1, <1>2, <1>3, <1>4, <1>5, <1>6, <1>7, <1>8 DEF StoreNext

(* What the app around the store does to it: a step of the store, a form   *)
(* that its page takes along, or a page that is loaded anew.               *)
LEMMA AppSteps ==
  ASSUME [Next]_webVars PROVE [StoreNext]_storeVars \/ FormClosed \/ StartsOver
  <1>1. CASE UNCHANGED webVars
    BY <1>1 DEF webVars
  <1>2. ASSUME NEW t \in Tabs, ConsoleWorks(t) \/ Clicks(t) \/ LeaveConsole(t)
        PROVE  UNCHANGED storeVars
    BY <1>2 DEF ConsoleWorks, Clicks, LeaveConsole
  <1>3. ASSUME NEW t \in Tabs, ChunksFail(t)
        PROVE  UNCHANGED storeVars \/ StartsOver
    BY <1>3 DEF ChunksFail, StartsOver
  <1>4. ASSUME NEW t \in Tabs, NEW d, ShowDocument(t, d)
        PROVE  FormClosed
    BY <1>4 DEF ShowDocument, FormClosed
  <1>5. ASSUME NEW t \in Tabs, NEW d, NEW sync, Load(t, d, sync) \/ Close(t)
        PROVE  UNCHANGED storeVars \/ StartsOver
    BY <1>5 DEF Load, Close, Renewed, StartsOver
  <1>6. CASE Deletes
    BY <1>6 DEF Deletes
  <1>7. CASE VisitDelegate
    BY <1>7 DEF VisitDelegate, StoreNext
  <1>8. CASE VisitInbox
    BY <1>8 DEF VisitInbox, StoreNext
  <1>9. CASE FillsForm
    BY <1>9 DEF FillsForm, StoreNext
  <1>10. CASE Delegates
    BY <1>10 DEF Delegates, StoreNext
  <1>11. CASE Answers
    BY <1>11 DEF Answers, StoreNext
  <1>12. CASE \E t \in Tabs : Close(t)
    <2>1. PICK t \in Tabs : Close(t)
      BY <1>12
    <2>. QED
      BY <2>1, <1>5
  <1>. QED
    BY <1>1, <1>2, <1>3, <1>4, <1>5, <1>6, <1>7, <1>8, <1>9, <1>10, <1>11, <1>12
       DEF Next

---------------------------------------------------------------------------
(* What a query answers. *)

(* A row passes a token exactly if it passes each of its blocks. *)
LEMMA RowsOfBlocks ==
  ASSUME NEW cap, NEW row
  PROVE  RowAllowed(row, EffectiveRows(cap))
           <=> \A i \in DOMAIN cap.blocks : RowAllowed(row, cap.blocks[i].rows)
  <1>. DEFINE D == UNION { DOMAIN cap.blocks[i].rows : i \in DOMAIN cap.blocks }
  <1>1. DOMAIN EffectiveRows(cap) = D
    BY DEF EffectiveRows
  <1>2. ASSUME NEW f \in D
        PROVE  row[f] \in EffectiveRows(cap)[f]
                 <=> \A i \in Restricting(cap, f) : row[f] \in cap.blocks[i].rows[f]
    <2>1. PICK k \in Restricting(cap, f) : TRUE
      BY DEF Restricting
    <2>2. row[f] \in EffectiveRows(cap)[f]
            <=> /\ row[f] \in UNION { cap.blocks[i].rows[f] : i \in Restricting(cap, f) }
                /\ \A i \in Restricting(cap, f) : row[f] \in cap.blocks[i].rows[f]
      BY DEF EffectiveRows
    <2>. QED
      BY <2>1, <2>2
  <1>3. ASSUME \A i \in DOMAIN cap.blocks : RowAllowed(row, cap.blocks[i].rows),
               NEW f \in D
        PROVE  row[f] \in EffectiveRows(cap)[f]
    BY <1>2, <1>3 DEF Restricting, RowAllowed
  <1>4. ASSUME \A f \in D : row[f] \in EffectiveRows(cap)[f],
               NEW i \in DOMAIN cap.blocks, NEW f \in DOMAIN cap.blocks[i].rows
        PROVE  row[f] \in cap.blocks[i].rows[f]
    <2>1. f \in D /\ i \in Restricting(cap, f)
      BY DEF Restricting
    <2>. QED
      BY <2>1, <1>2, <1>4
  <1>. HIDE DEF D
  <1>. QED
    BY <1>1, <1>3, <1>4 DEF RowAllowed

(* What an authority grants of what one block passes on. *)
Granted(b, block) == (b.fields \cap block.allowFields) \ block.denyFields
Passing(b, block, rows) ==
  { row \in rows : RowAllowed(row, b.rows) /\ RowAllowed(row, block.rows) }

(* A token of two blocks. *)
Handed(cap, b, block) ==
  /\ cap.blocks # << >> /\ DOMAIN cap.blocks = {1, 2}
  /\ cap.blocks[1] = b /\ cap.blocks[2] = block
  /\ Attenuations(cap) = {block}

LEMMA HandedOn ==
  ASSUME NEW parent, NEW b, NEW block, NEW holder
  PROVE  parent.blocks = << b >> => Handed(DelegateTo(parent, holder, block), b, block)
  <1>. DEFINE cap == DelegateTo(parent, holder, block)
              S == {b}
  <1>1. SUFFICES ASSUME parent.blocks = << b >> PROVE Handed(cap, b, block)
    OBVIOUS
  <1>2. parent.blocks \in Seq(S) /\ parent.blocks # << >>
        /\ DOMAIN parent.blocks = {1} /\ Len(parent.blocks) = 1
        /\ parent.blocks[1] = b
    BY <1>1
  <1>3. cap.blocks = Append(parent.blocks, block)
    BY DEF DelegateTo
  <1>4. Attenuations(parent) = {}
    BY <1>1, OneBlock
  <1>. HIDE DEF S
  <1>5. Attenuations(cap) = {block}
    <2>1. Attenuations(cap) = Attenuations(parent) \cup {block}
      BY <1>2, DelegatedAttenuations
    <2>. HIDE DEF cap
    <2>. QED
      BY <1>4, <2>1
  <1>6. /\ Len(Append(parent.blocks, block)) = 2
        /\ DOMAIN Append(parent.blocks, block) = {1, 2}
        /\ Append(parent.blocks, block)[1] = b
        /\ Append(parent.blocks, block)[2] = block
    BY <1>2, AppendedBlocks
  <1>. HIDE DEF cap
  <1>7. cap.blocks # << >>
    BY <1>3, <1>6
  <1>. QED
    BY <1>3, <1>5, <1>6, <1>7 DEF Handed, cap

(* A query with such a token, of the view it was minted for: the fields    *)
(* that both blocks grant, and the rows that pass both.                    *)
Answered(answer, b, block, dataset, fields) ==
  /\ answer.decision = "ok"
  /\ answer.fields = fields \cap Granted(b, block)
  /\ answer.redacted = fields \ Granted(b, block)
  /\ answer.columns = ((fields \cup Labels) \cap Granted(b, block)) \cap dataset.columns
  /\ answer.rows = Passing(b, block, dataset.rows)

LEMMA HandedQuery ==
  ASSUME NEW cap, NEW b, NEW block, Handed(cap, b, block),
         "query" \in b.ops, block.denyViews = {}, NEW dataset, NEW fields
  PROVE  Answered(BrainQuery(cap, dataset, b.view, fields), b, block, dataset, fields)
  <1>. DEFINE answer == BrainQuery(cap, dataset, b.view, fields)
              granted == Granted(b, block)
              passing == { row \in dataset.rows : RowAllowed(row, EffectiveRows(cap)) }
              decided == Authorize(cap, "query", b.view, fields)
  <1>1. Attenuations(cap) = {block} /\ cap.blocks[1] = b
    BY DEF Handed
  <1>2. /\ DOMAIN cap.blocks = {1, 2} /\ cap.blocks # << >>
        /\ cap.blocks[1] = b /\ cap.blocks[2] = block
    BY DEF Handed
  <1>3. EffectiveFields(cap) = granted
    BY <1>1 DEF EffectiveFields, Granted
  <1>4. DeniedViews(cap) = {}
    BY <1>1 DEF DeniedViews
  <1>5. passing = Passing(b, block, dataset.rows)
    BY <1>2, RowsOfBlocks DEF Passing
  <1>. HIDE DEF granted
  <1>6. decided = [decision |-> "ok", granted |-> fields \cap granted,
                   redacted |-> fields \ granted]
    BY <1>2, <1>3, <1>4 DEF Authorize
  <1>7. /\ decided.decision = "ok" /\ decided.granted = fields \cap granted
        /\ decided.redacted = fields \ granted
    <2>. HIDE DEF decided
    <2>. QED
      BY <1>6
  <1>8. answer = IF decided.decision # "ok" THEN decided
                  ELSE [decision |-> "ok", fields |-> decided.granted,
                        redacted |-> decided.redacted,
                        columns |-> (decided.granted \cup (Labels \cap EffectiveFields(cap)))
                                      \cap dataset.columns,
                        rows |-> passing]
    BY DEF BrainQuery
  <1>. HIDE DEF passing, decided, answer
  <1>9. /\ answer.decision = "ok" /\ answer.fields = fields \cap granted
         /\ answer.redacted = fields \ granted /\ answer.rows = passing
         /\ answer.columns = ((fields \cap granted) \cup (Labels \cap granted))
                               \cap dataset.columns
    BY <1>3, <1>7, <1>8
  <1>10. answer.columns = ((fields \cup Labels) \cap granted) \cap dataset.columns
    BY <1>9
  <1>. QED
    BY <1>5, <1>9, <1>10 DEF granted, answer, Answered

(* Which rows a form is about: those of the teams ticked, out of those its *)
(* owner can scope to.                                                     *)
LEMMA OwnersTeams ==
  ASSUME NEW cap, NEW b \in AuthorityBlocks, cap.blocks = << b >>,
         NEW row \in DATASETS[b.view].rows
  PROVE  RowAllowed(row, b.rows) <=> row.team \in TeamsFor(cap)
  <1>. DEFINE view == cap.blocks[1].view
  <1>1. /\ DOMAIN cap.blocks = {1} /\ cap.blocks[1] = b /\ view = b.view
        /\ b.rows \in RowScopes /\ b.view \in Views
    BY DEF AuthorityBlocks
  <1>2. /\ DOMAIN EffectiveRows(cap) = DOMAIN b.rows
        /\ RowAllowed(row, EffectiveRows(cap)) <=> RowAllowed(row, b.rows)
    <2>1. UNION { DOMAIN cap.blocks[i].rows : i \in DOMAIN cap.blocks } = DOMAIN b.rows
      BY <1>1
    <2>2. DOMAIN EffectiveRows(cap) = DOMAIN b.rows
      BY <2>1 DEF EffectiveRows
    <2>. QED
      BY <2>2, <1>1, RowsOfBlocks
  <1>. HIDE DEF view
  <1>3. CASE b.rows = NoRows
    <2>1. DOMAIN b.rows = {}
      BY <1>3 DEF NoRows
    <2>2. TeamsFor(cap) = { r.team : r \in DATASETS[b.view].rows }
      BY <2>1, <1>1, <1>2 DEF TeamsFor, view
    <2>. QED
      BY <2>1, <2>2 DEF RowAllowed
  <1>4. CASE b.rows \in [{"team"} -> SUBSET ALL_TEAMS]
    <2>1. DOMAIN b.rows = {"team"}
      BY <1>4
    <2>2. TeamsFor(cap) = EffectiveRows(cap)["team"]
      BY <2>1, <1>2 DEF TeamsFor
    <2>3. RowAllowed(row, EffectiveRows(cap)) <=> row["team"] \in EffectiveRows(cap)["team"]
      BY <2>1, <1>2 DEF RowAllowed
    <2>4. row["team"] = row.team
      OBVIOUS
    <2>. QED
      BY <2>2, <2>3, <2>4, <1>2
  <1>. QED
    BY <1>1, <1>3, <1>4 DEF RowScopes

(* Of what changes, only a click on Approve approves a request; what its   *)
(* requester is handed answers exactly what it asked for.                  *)
LEMMA ApprovedAsAsked ==
  ASSUME StoreInv, [StoreNext]_storeVars, NEW req \in Inbox,
         requests[req] = "pending", requests'[req] = "approved"
  PROVE  AsAsked(req)
  <1>. DEFINE block == Attenuation(CFO, req.fields \cup Labels, NEVER_DELEGABLE,
                                   req.rowScope)
              cap == caps'[req.requester]
  <1>1. Approve(req)
    <2>1. CASE \E r \in Inbox : Approve(r) \/ Deny(r)
      <3>1. PICK r \in Inbox : Approve(r) \/ Deny(r)
        BY <2>1
      <3>2. requests \in [Inbox -> {"pending", "auto", "approved", "denied", "forbidden"}]
        BY DEF StoreInv
      <3>3. \A q \in Inbox \ {r} : requests'[q] = requests[q]
        BY <3>1, <3>2 DEF Approve, Deny
      <3>4. ~Deny(req)
        BY <3>2 DEF Deny
      <3>. QED
        BY <3>1, <3>3, <3>4
    <2>2. CASE Reset
      <3>1. requests'[req] = SeedStatus(req)
        BY <2>2 DEF Reset, SeedRequests
      <3>2. SeedStatus(req) \in {"pending", "auto", "forbidden"}
        BY DEF SeedStatus, RouteRequest
      <3>. QED
        BY <3>1, <3>2
    <2>3. CASE UNCHANGED requests
      BY <2>3
    <2>4. \/ \E r \in Inbox : Approve(r) \/ Deny(r)
          \/ Reset
          \/ UNCHANGED requests
      BY DEF StoreNext, storeVars, OpenForm, CloseForm, ChangeOwner, ToggleField,
             ToggleTeam, Submit
    <2>. QED
      BY <2>1, <2>2, <2>3, <2>4
  <1>2. /\ req.requester \in Agents /\ req.view \in Views
        /\ req.fields \subseteq FinanceFields /\ req.rowScope \in RowScopes
    BY InboxAssumption
  <1>3. /\ req.view = FINANCE_PRIVATE /\ req.fields \cap NEVER_DELEGABLE = {}
        /\ ~Refused(req)
    BY <1>1, <1>2 DEF Approve, RouteRequest, CFO_ENVELOPE, Views, Refused, NEVER_DELEGABLE
  <1>4. CFO \in Humans /\ CFO \in REGISTRY /\ req.requester \in REGISTRY
    BY <1>2, Cast
  <1>5. caps[CFO] = RegistryCapability(CFO)
    BY <1>4 DEF StoreInv, HumansKeep
  <1>6. PICK b \in AuthorityBlocks :
          /\ caps[CFO].blocks = << b >> /\ "query" \in b.ops
          /\ b.view = FINANCE_PRIVATE /\ b.fields = FinanceFields /\ b.rows = NoRows
    BY <1>4, <1>5, SeededTokens
  <1>7. cap = DelegateTo(caps[CFO], req.requester, block)
    <2>1. caps' = [caps EXCEPT ![req.requester] = ApproveRequest(caps[CFO], req)]
      BY <1>1, <1>3 DEF Approve, ResourceOwnerOf, CFO_ROOT
    <2>2. caps[CFO] \in Tokens /\ caps[CFO].holder = CFO
      BY <1>4, <1>5, SeededTokens
    <2>3. ApproveRequest(caps[CFO], req) = DelegateTo(caps[CFO], req.requester, block)
      BY <2>2 DEF ApproveRequest, Attenuate, DelegateTo, Tokens
    <2>4. caps \in [REGISTRY -> Tokens]
      BY DEF StoreInv
    <2>. HIDE DEF block
    <2>. QED
      BY <2>1, <2>3, <2>4, <1>4
  <1>8. /\ block \in AttenuationBlocks /\ block.denyViews = {}
        /\ block.allowFields = req.fields \cup Labels
        /\ block.denyFields = NEVER_DELEGABLE /\ block.rows = req.rowScope
    BY <1>2, <1>4 DEF AttenuationBlocks, Attenuation, Labels, FinanceFields,
       SpendFields, NEVER_DELEGABLE
  <1>. HIDE DEF block, cap
  <1>. DEFINE answer == BrainQuery(cap, DATASETS[req.view], req.view, req.fields)
  <1>9. Handed(cap, b, block)
    BY <1>6, <1>7, HandedOn
  <1>10. Answered(answer, b, block, DATASETS[req.view], req.fields)
    <2>1. Answered(BrainQuery(cap, DATASETS[req.view], b.view, req.fields),
                   b, block, DATASETS[req.view], req.fields)
      BY <1>6, <1>8, <1>9, HandedQuery
    <2>2. b.view = req.view
      BY <1>3, <1>6
    <2>. QED
      BY <2>1, <2>2
  <1>. HIDE DEF answer
  <1>11. Granted(b, block) = req.fields \cup Labels
    BY <1>2, <1>3, <1>6, <1>8 DEF Granted, Labels, FinanceFields, SpendFields, NEVER_DELEGABLE
  <1>12. DATASETS[req.view].columns = FinanceFields
    BY <1>2, <1>3 DEF DATASETS, SPEND_BY_TEAM, FINANCE_PRIVATE
  <1>13. Labels \subseteq FinanceFields
    BY DEF Labels, FinanceFields, SpendFields
  <1>14. \A row : RowAllowed(row, b.rows)
    BY <1>6 DEF NoRows, RowAllowed
  <1>15. answer.columns = req.fields \cup Labels /\ answer.redacted = {}
    BY <1>2, <1>10, <1>11, <1>12, <1>13 DEF Answered
  <1>16. answer.rows = { row \in DATASETS[req.view].rows : RowAllowed(row, req.rowScope) }
    BY <1>8, <1>10, <1>14 DEF Answered, Passing
  <1>. QED
    BY <1>10, <1>15, <1>16 DEF Answered, AsAsked, answer, cap

(* A click on Delegate hands the agent what the form shows ticked.         *)
LEMMA DelegatedAsTicked ==
  ASSUME StoreInv, Submit, form.teams # {}
  PROVE  AsTicked
  <1>. DEFINE h == form.owner
              safe == form.fields \cap DelegableFields(caps[h])
              block == Attenuation(h, safe, NEVER_DELEGABLE, SelectedRows)
              cap == caps'[form.agent]
  <1>1. /\ h \in Humans /\ form.agent \in OwnedAgents[h]
        /\ form.fields \subseteq FinanceFields /\ form.teams \subseteq ALL_TEAMS
        /\ form.fields \subseteq DelegableFields(caps[h])
        /\ form.teams \subseteq TeamsFor(caps[h])
    BY DEF Submit, StoreInv, Forms
  <1>2. h \in REGISTRY /\ form.agent \in REGISTRY
    BY <1>1, Cast
  <1>3. caps[h] = RegistryCapability(h)
    BY <1>1 DEF StoreInv, HumansKeep
  <1>4. PICK b \in AuthorityBlocks : caps[h].blocks = << b >> /\ "query" \in b.ops
    BY <1>2, <1>3, SeededTokens
  <1>5. caps[h].blocks[1].view = b.view
    BY <1>4
  <1>6. SelectedRows \in RowScopes
    BY <1>1 DEF SelectedRows, RowScopes
  <1>7. safe = form.fields /\ form.fields \subseteq b.fields
        /\ form.fields \cap NEVER_DELEGABLE = {}
    BY <1>1, <1>4, OneBlock DEF DelegableFields
  <1>8. /\ block \in AttenuationBlocks /\ block.denyViews = {}
        /\ block.allowFields = form.fields
        /\ block.denyFields = NEVER_DELEGABLE /\ block.rows = SelectedRows
    BY <1>1, <1>2, <1>6, <1>7 DEF AttenuationBlocks, Attenuation, NEVER_DELEGABLE,
       FinanceFields
  <1>9. cap = DelegateTo(caps[h], form.agent, block)
    <2>1. caps' = [caps EXCEPT ![form.agent] = DelegateTo(caps[h], form.agent, block)]
      BY DEF Submit, Delegate
    <2>2. caps \in [REGISTRY -> Tokens]
      BY DEF StoreInv
    <2>. HIDE DEF block
    <2>. QED
      BY <2>1, <2>2, <1>2
  <1>. HIDE DEF block, cap
  <1>. DEFINE answer == BrainQuery(cap, DATASETS[b.view], b.view, FinanceFields)
  <1>10. Handed(cap, b, block)
    BY <1>4, <1>9, HandedOn
  <1>11. Answered(answer, b, block, DATASETS[b.view], FinanceFields)
    BY <1>4, <1>8, <1>10, HandedQuery
  <1>. HIDE DEF answer
  <1>12. answer.fields = form.fields
    BY <1>1, <1>7, <1>8, <1>11 DEF Answered, Granted
  <1>13. ASSUME NEW row \in DATASETS[b.view].rows
         PROVE  RowAllowed(row, b.rows) /\ RowAllowed(row, SelectedRows)
                  <=> row.team \in form.teams
    <2>1. RowAllowed(row, b.rows) <=> row.team \in TeamsFor(caps[h])
      BY <1>4, OwnersTeams
    <2>2. CASE form.teams = TeamsFor(caps[h])
      <3>1. DOMAIN SelectedRows = {}
        BY <2>2 DEF SelectedRows, NoRows
      <3>. QED
        BY <2>1, <2>2, <3>1 DEF RowAllowed
    <2>3. CASE form.teams # TeamsFor(caps[h])
      <3>1. SelectedRows = [f \in {"team"} |-> form.teams]
        BY <2>3 DEF SelectedRows
      <3>2. RowAllowed(row, SelectedRows) <=> row.team \in form.teams
        BY <3>1 DEF RowAllowed
      <3>. QED
        BY <2>1, <3>2, <1>1
    <2>. QED
      BY <2>2, <2>3
  <1>14. answer.rows = { row \in DATASETS[b.view].rows : row.team \in form.teams }
    BY <1>8, <1>11, <1>13 DEF Answered, Passing
  <1>. QED
    BY <1>5, <1>11, <1>12, <1>14 DEF Answered, AsTicked, answer, cap

---------------------------------------------------------------------------
(* The inductive invariant holds in the whole app, whatever the console,   *)
(* the router and the other tabs do.                                       *)
THEOREM StoreInvariance == Spec => []StoreInv
  <1>1. Init => StoreInv
    BY StoreInits DEF Init
  <1>2. StoreInv /\ [Next]_webVars => StoreInv'
    BY AppSteps, StoreSteps, FormClosedStep, StartsOverStep
  <1>. QED
    BY <1>1, <1>2, PTL DEF Spec

(* The store's own specification keeps it too. *)
THEOREM StoreAlone == StoreSpec => []StoreInv
  <1>1. StoreInit => StoreInv
    BY StoreInits
  <1>2. StoreInv /\ [StoreNext]_storeVars => StoreInv'
    BY StoreSteps
  <1>. QED
    BY <1>1, <1>2, PTL DEF StoreSpec

(* No agent of the web app ever holds a salary (requests.ts:4-8), for any  *)
(* queue of requests.                                                      *)
THEOREM SalaryNeverHandedOut == Spec => []SalaryStaysHome
  BY StoreInvariance, NoSalary, PTL

(* No token of the web app grants what its giver's does not (access.ts:7). *)
THEOREM TokensOnlyNarrow == Spec => []NarrowsOnly
  BY StoreInvariance, Narrowed, PTL

(* The store's state is well-typed. *)
THEOREM StoreTypeCorrect == Spec => []StoreTypeOK
  BY StoreInvariance, StoreTypes, PTL

(* What a page says it hands out is what a query then answers, whatever    *)
(* was delegated, approved, reset or reloaded before (inbox.tsx:86-91,     *)
(* delegate.tsx:79-86): an action property of the whole web app.           *)
THEOREM AnswersAreAsShown == Spec => GrantsWhatItShows
  <1>. DEFINE Promised ==
         /\ \A req \in Inbox :
              requests[req] = "pending" /\ requests'[req] = "approved" => AsAsked(req)
         /\ Submit /\ form.teams # {} => AsTicked
  <1>1. ASSUME StoreInv, [Next]_webVars PROVE Promised
    <2>1. ASSUME NEW req \in Inbox,
                 requests[req] = "pending", requests'[req] = "approved"
          PROVE  AsAsked(req)
      <3>1. CASE [StoreNext]_storeVars
        BY <1>1, <2>1, <3>1, ApprovedAsAsked
      <3>2. CASE FormClosed
        BY <2>1, <3>2 DEF FormClosed
      <3>3. CASE StartsOver
        <4>1. requests'[req] = SeedStatus(req)
          BY <3>3 DEF StartsOver, SeedRequests
        <4>2. SeedStatus(req) \in {"pending", "auto", "forbidden"}
          BY DEF SeedStatus, RouteRequest
        <4>. QED
          BY <2>1, <4>1, <4>2
      <3>. QED
        BY <1>1, <3>1, <3>2, <3>3, AppSteps
    <2>2. ASSUME Submit, form.teams # {} PROVE AsTicked
      BY <1>1, <2>2, DelegatedAsTicked
    <2>. QED
      BY <2>1, <2>2
  <1>2. StoreInv /\ [Next]_webVars => [Promised]_storeVars
    BY <1>1
  <1>3. Spec => [][Next]_webVars
    BY PTL DEF Spec
  <1>. QED
    BY <1>2, <1>3, StoreInvariance, PTL DEF GrantsWhatItShows

(***************************************************************************)
(* The console cleans up after itself: for any number of tabs, documents,  *)
(* actors and lines, whatever is clicked, navigated, reloaded or deleted   *)
(* while imports, locks and timers are under way, no room and no simulated *)
(* peer outlives its page, nobody is played twice, and no demo types into  *)
(* an editor that is not shown.                                            *)
(*                                                                         *)
(* The argument is that each cleanup reaches everything its effect has     *)
(* started.  The effects keep one handle each, the last room, the last     *)
(* peer and the run of effectRun: so whatever is not shut, aborted or over *)
(* must be what the handle names, and must belong to what was rendered     *)
(* last.  The lock of a document is kept by a peer from the moment it is   *)
(* granted until the peer's run settles, aborted or not.                   *)
(***************************************************************************)

PageState == [doc : Docs \cup {None}, actor : Actors, demo : Askers \cup {None}, ed : Nat]
Room == [doc : Docs, state : {"importing", "attached", "gone", "failed"}, disposed : BOOLEAN]
Run == [room : Nat, asker : Askers,
        at : {"loading", "settling", "typing", "watching", "over", "dead"},
        block : Nat, aborted : BOOLEAN, own : BOOLEAN, lost : BOOLEAN]
Bot == [doc : Docs,
        at : {"queued", "loading", "waiting", "writing", "resting", "over", "dead", "failed"},
        attached : BOOLEAN, aborted : BOOLEAN, block : Nat]
Ask == [asker : Askers, typed : Nat, there : BOOLEAN]
Marker == [typed : Nat, there : BOOLEAN]

ConsoleTypeOK ==
  /\ ui \in [Tabs -> PageState] /\ seen \in [Tabs -> PageState]
  /\ rooms \in [Tabs -> Seq(Room)]
  /\ runs \in [Tabs -> Seq(Run)] /\ effectRun \in [Tabs -> Nat]
  /\ busy \in [Tabs -> BOOLEAN] /\ reloaded \in [Tabs -> BOOLEAN] /\ relayed \in BOOLEAN
  /\ bots \in [Tabs -> Seq(Bot)] /\ lock \in [Docs -> (Tabs \X Nat) \cup {Free}]
  /\ resets \in [Tabs -> SUBSET Nat]
  /\ asks \in [Docs -> Seq(Ask)] /\ markers \in [Docs -> Seq(Marker)]

(* Every room that is referred to was opened. *)
RoomsNamed(t) ==
  /\ ui[t].ed <= Len(rooms[t]) /\ seen[t].ed <= Len(rooms[t])
  /\ resets[t] \subseteq DOMAIN rooms[t]
  /\ \A i \in DOMAIN runs[t] : runs[t][i].room \in DOMAIN rooms[t]

(* What is not shut, or aborted, is what the effect's cleanup will reach.  *)
RoomsOfPage(t) ==
  \A r \in DOMAIN rooms[t] :
    IF rooms[t][r].disposed THEN rooms[t][r].state # "attached"
    ELSE r = Len(rooms[t]) /\ rooms[t][r].doc = seen[t].doc

BotsOfPage(t) ==
  \A b \in DOMAIN bots[t] :
    IF bots[t][b].aborted THEN ~bots[t][b].attached
    ELSE b = Len(bots[t]) /\ bots[t][b].doc = seen[t].doc

RunsOfPage(t) ==
  \A i \in DOMAIN runs[t] :
    ~runs[t][i].aborted => i = effectRun[t] /\ runs[t][i].room = seen[t].ed

(* A peer keeps its document's lock until its run settles. *)
Working(b) == b.at \in {"loading", "waiting", "writing", "resting"}

LockHeld(t) ==
  \A b \in DOMAIN bots[t] : Working(bots[t][b]) => lock[bots[t][b].doc] = << t, b >>

(* Whoever types has written the paragraph it types in, and no other run   *)
(* types in that one.                                                      *)
RunDoc(t, i) == rooms[t][runs[t][i].room].doc
Typing(t, i) == i \in DOMAIN runs[t] /\ runs[t][i].at = "typing"

BlocksKnown(t) ==
  /\ \A i \in DOMAIN runs[t] :
       Typing(t, i) => runs[t][i].block \in DOMAIN asks[RunDoc(t, i)]
  /\ \A b \in DOMAIN bots[t] :
       bots[t][b].at = "writing" => bots[t][b].block \in DOMAIN markers[bots[t][b].doc]

BlocksApart(t, u) ==
  \A i \in DOMAIN runs[t], j \in DOMAIN runs[u] :
    /\ Typing(t, i) /\ Typing(u, j)
    /\ RunDoc(t, i) = RunDoc(u, j) /\ runs[t][i].block = runs[u][j].block
    => t = u /\ i = j

ConsoleInv ==
  /\ ConsoleTypeOK
  /\ \A t \in Tabs :
       /\ RoomsNamed(t)
       /\ RoomsOfPage(t) /\ BotsOfPage(t) /\ RunsOfPage(t)
       /\ LockHeld(t) /\ BlocksKnown(t)
       /\ \A u \in Tabs : BlocksApart(t, u)

(* The scenarios the budgets may still describe. *)
Kept ==
  /\ left.docs \subseteq Docs
  /\ DOMAIN left = Kinds \cup {"docs"}

-----------------------------------------------------------------------------
(* A sequence of which one element is replaced. *)
LEMMA SetAt ==
  ASSUME NEW S, NEW s \in Seq(S), NEW i \in DOMAIN s, NEW v \in S
  PROVE  LET z == [s EXCEPT ![i] = v]
         IN  /\ z \in Seq(S) /\ DOMAIN z = DOMAIN s /\ Len(z) = Len(s)
             /\ z[i] = v /\ \A j \in DOMAIN s : j # i => z[j] = s[j]
<1> DEFINE z == [s EXCEPT ![i] = v]
<1>1. DOMAIN s = 1..Len(s) /\ Len(s) \in Nat /\ \A j \in 1..Len(s) : s[j] \in S
  OBVIOUS
<1>2. z \in [1..Len(s) -> S]
  BY <1>1
<1> QED BY <1>1, <1>2

(* A sequence of which every element is replaced. *)
LEMMA Mapped ==
  ASSUME NEW S, NEW s \in Seq(S), NEW z, z = [i \in DOMAIN s |-> z[i]],
         \A i \in DOMAIN s : z[i] \in S
  PROVE  z \in Seq(S) /\ DOMAIN z = DOMAIN s /\ Len(z) = Len(s)
<1>1. DOMAIN s = 1..Len(s) /\ Len(s) \in Nat
  OBVIOUS
<1>2. z \in [1..Len(s) -> S]
  BY <1>1
<1> QED BY <1>1, <1>2

(* A sequence that has grown by one element. *)
LEMMA Grown ==
  ASSUME NEW S, NEW s \in Seq(S), NEW v \in S
  PROVE  LET z == Append(s, v)
         IN  /\ z \in Seq(S) /\ DOMAIN z = 1..(Len(s) + 1) /\ Len(z) = Len(s) + 1
             /\ Len(s) \in Nat /\ DOMAIN s = 1..Len(s)
             /\ z[Len(s) + 1] = v /\ \A j \in DOMAIN s : z[j] = s[j]
  BY AppendProperties

LEMMA DomainOf ==
  ASSUME NEW S, NEW s \in Seq(S)
  PROVE  /\ Len(s) \in Nat /\ DOMAIN s = 1..Len(s)
         /\ \A i \in DOMAIN s : s[i] \in S
  OBVIOUS

-----------------------------------------------------------------------------
(* The simulated peers.  One of them moves on, with the lock or without:   *)
(* it keeps its document and its abort flag, is attached only if it is not *)
(* aborted, and works only while it holds the lock.                        *)
BotStep(t, b, new) ==
  /\ new \in Bot
  /\ new.doc = bots[t][b].doc
  /\ new.aborted = bots[t][b].aborted
  /\ new.attached => ~new.aborted
  /\ bots' = [bots EXCEPT ![t] = [bots[t] EXCEPT ![b] = new]]
  /\ lock' \in [Docs -> (Tabs \X Nat) \cup {Free}]
  /\ \A d \in Docs : d # new.doc => lock'[d] = lock[d]
  /\ lock[new.doc] \in {Free, << t, b >>}
  /\ Working(new) => lock'[new.doc] = << t, b >>
  /\ markers' \in [Docs -> Seq(Marker)]
  /\ \A d \in Docs : DOMAIN markers[d] \subseteq DOMAIN markers'[d]
  /\ new.at = "writing" => new.block \in DOMAIN markers'[new.doc]
  /\ UNCHANGED << ui, seen, rooms, runs, effectRun, busy, resets, reloaded, relayed, asks >>

LEMMA BotStepKeeps ==
  ASSUME ConsoleInv, NEW t \in Tabs, NEW b \in DOMAIN bots[t], NEW new, BotStep(t, b, new)
  PROVE  ConsoleInv'
<1> DEFINE z == [bots[t] EXCEPT ![b] = new]
<1>1. /\ bots \in [Tabs -> Seq(Bot)] /\ bots[t] \in Seq(Bot)
      /\ \A u \in Tabs : \A c \in DOMAIN bots[u] : bots[u][c] \in Bot /\ c \in Nat \ {0}
  BY DomainOf DEF ConsoleInv, ConsoleTypeOK
<1>2. /\ z \in Seq(Bot) /\ DOMAIN z = DOMAIN bots[t] /\ Len(z) = Len(bots[t])
      /\ z[b] = new /\ \A c \in DOMAIN bots[t] : c # b => z[c] = bots[t][c]
  BY <1>1, SetAt DEF BotStep
<1>3. bots' = [bots EXCEPT ![t] = z]
  BY DEF BotStep
<1> HIDE DEF z
<1>4. /\ bots' \in [Tabs -> Seq(Bot)] /\ bots'[t] = z
      /\ \A u \in Tabs : u # t => bots'[u] = bots[u]
  BY <1>1, <1>2, <1>3
<1>5. /\ \A u \in Tabs : DOMAIN bots'[u] = DOMAIN bots[u] /\ Len(bots'[u]) = Len(bots[u])
      /\ bots'[t][b] = new
      /\ \A u \in Tabs : \A c \in DOMAIN bots[u] :
           u # t \/ c # b => bots'[u][c] = bots[u][c]
  BY <1>2, <1>4
<1> HIDE DEF z
<1>6. ConsoleTypeOK'
  BY <1>4 DEF BotStep, ConsoleInv, ConsoleTypeOK
<1>7. ASSUME NEW u \in Tabs
      PROVE  RoomsNamed(u)' /\ RoomsOfPage(u)' /\ RunsOfPage(u)'
  BY DEF BotStep, ConsoleInv, RoomsNamed, RoomsOfPage, RunsOfPage
<1>8. ASSUME NEW u \in Tabs, NEW c \in DOMAIN bots'[u]
      PROVE  IF bots'[u][c].aborted THEN ~bots'[u][c].attached
             ELSE c = Len(bots'[u]) /\ bots'[u][c].doc = seen'[u].doc
  <2>1. IF bots[u][c].aborted THEN ~bots[u][c].attached
        ELSE c = Len(bots[u]) /\ bots[u][c].doc = seen[u].doc
    BY <1>5, <1>8 DEF ConsoleInv, BotsOfPage
  <2>2. CASE u = t /\ c = b
    BY <2>1, <2>2, <1>5 DEF BotStep
  <2>3. CASE u # t \/ c # b
    BY <2>1, <2>3, <1>5, <1>8 DEF BotStep
  <2> QED BY <2>2, <2>3
<1>9. ASSUME NEW u \in Tabs, NEW c \in DOMAIN bots'[u], Working(bots'[u][c])
      PROVE  lock'[bots'[u][c].doc] = << u, c >>
  <2>1. CASE u = t /\ c = b
    BY <2>1, <1>5, <1>9 DEF BotStep
  <2>2. CASE u # t \/ c # b
    <3>1. c \in DOMAIN bots[u] /\ bots'[u][c] = bots[u][c]
      BY <2>2, <1>5, <1>9
    <3>2. lock[bots[u][c].doc] = << u, c >>
      BY <3>1, <1>9 DEF ConsoleInv, LockHeld
    <3>3. << u, c >> # Free /\ << u, c >> # << t, b >>
      BY <2>2, <1>1, <3>1 DEF Free
    <3>4. bots[u][c].doc # new.doc /\ bots[u][c].doc \in Docs
      BY <1>1, <3>1, <3>2, <3>3 DEF BotStep, Bot
    <3> QED BY <3>1, <3>2, <3>4 DEF BotStep
  <2> QED BY <2>1, <2>2
<1>10. ASSUME NEW u \in Tabs, NEW c \in DOMAIN bots'[u], bots'[u][c].at = "writing"
       PROVE  bots'[u][c].block \in DOMAIN markers'[bots'[u][c].doc]
  <2>1. CASE u = t /\ c = b
    BY <2>1, <1>5, <1>10 DEF BotStep
  <2>2. CASE u # t \/ c # b
    <3>1. c \in DOMAIN bots[u] /\ bots'[u][c] = bots[u][c] /\ bots[u][c].doc \in Docs
      BY <2>2, <1>1, <1>5, <1>10 DEF Bot
    <3>2. bots[u][c].block \in DOMAIN markers[bots[u][c].doc]
      BY <3>1, <1>10 DEF ConsoleInv, BlocksKnown
    <3> QED BY <3>1, <3>2 DEF BotStep
  <2> QED BY <2>1, <2>2
<1>11. ASSUME NEW u \in Tabs, NEW v \in Tabs
       PROVE  /\ \A i \in DOMAIN runs'[u] :
                   Typing(u, i)' => (runs[u][i].block \in DOMAIN asks[RunDoc(u, i)])'
              /\ BlocksApart(u, v)'
  <2>1. UNCHANGED << ui, rooms, runs, asks >>
    BY DEF BotStep
  <2>2. \A i \in DOMAIN runs[u] :
          Typing(u, i) => runs[u][i].block \in DOMAIN asks[RunDoc(u, i)]
    BY DEF ConsoleInv, BlocksKnown
  <2>3. BlocksApart(u, v)
    BY DEF ConsoleInv
  <2> QED BY <2>1, <2>2, <2>3 DEF BlocksApart, Typing, RunDoc
<1> QED BY <1>6, <1>7, <1>8, <1>9, <1>10, <1>11
        DEF ConsoleInv, BotsOfPage, LockHeld, BlocksKnown

LEMMA BotAt ==
  ASSUME ConsoleInv, NEW t \in Tabs, NEW b \in DOMAIN bots[t]
  PROVE  /\ bots \in [Tabs -> Seq(Bot)] /\ lock \in [Docs -> (Tabs \X Nat) \cup {Free}]
         /\ markers \in [Docs -> Seq(Marker)]
         /\ b \in Nat \ {0} /\ bots[t][b] \in Bot /\ bots[t][b].doc \in Docs
         /\ markers[bots[t][b].doc] \in Seq(Marker)
         /\ bots[t][b].attached => ~bots[t][b].aborted
         /\ Working(bots[t][b]) => lock[bots[t][b].doc] = << t, b >>
<1>1. /\ bots \in [Tabs -> Seq(Bot)] /\ lock \in [Docs -> (Tabs \X Nat) \cup {Free}]
      /\ markers \in [Docs -> Seq(Marker)]
  BY DEF ConsoleInv, ConsoleTypeOK
<1>2. bots[t] \in Seq(Bot)
  BY <1>1
<1>3. b \in Nat \ {0} /\ bots[t][b] \in Bot
  BY <1>2, DomainOf
<1>4. bots[t][b].doc \in Docs
  BY <1>3 DEF Bot
<1> QED BY <1>1, <1>3, <1>4 DEF ConsoleInv, BotsOfPage, LockHeld

LEMMA GrantLockKeeps ==
  ASSUME ConsoleInv, NEW t \in Tabs, NEW b \in DOMAIN bots[t], GrantLock(t, b)
  PROVE  ConsoleInv'
<1> DEFINE new == [bots[t][b] EXCEPT !.at = "loading"]
           d == bots[t][b].doc
<1>1. /\ bots[t][b] \in Bot /\ d \in Docs /\ b \in Nat /\ lock[d] = Free
      /\ bots \in [Tabs -> Seq(Bot)] /\ lock \in [Docs -> (Tabs \X Nat) \cup {Free}]
      /\ markers \in [Docs -> Seq(Marker)]
      /\ bots[t][b].attached => ~bots[t][b].aborted
  BY BotAt DEF GrantLock
<1>2. /\ new \in Bot /\ new.doc = d /\ new.aborted = bots[t][b].aborted
      /\ new.attached = bots[t][b].attached /\ new.at # "writing"
  BY <1>1 DEF Bot
<1>3. new.attached => ~new.aborted
  BY <1>1, <1>2
<1>4. bots' = [bots EXCEPT ![t] = [bots[t] EXCEPT ![b] = new]]
  BY <1>1 DEF GrantLock
<1>5. /\ lock' \in [Docs -> (Tabs \X Nat) \cup {Free}] /\ lock'[d] = << t, b >>
      /\ \A e \in Docs : e # d => lock'[e] = lock[e]
  BY <1>1 DEF GrantLock
<1> HIDE DEF new
<1>6. BotStep(t, b, new)
  BY <1>1, <1>2, <1>3, <1>4, <1>5 DEF BotStep, GrantLock
<1> QED BY <1>6, BotStepKeeps

(* A run that settles gives its lock back, and only its own. *)
LEMMA BotEndsKeeps ==
  ASSUME ConsoleInv, NEW t \in Tabs, NEW b \in DOMAIN bots[t], Working(bots[t][b]),
         NEW at \in {"over", "dead", "failed"}, BotEnds(t, b, at),
         UNCHANGED << ui, seen, rooms, runs, effectRun, busy, resets, reloaded, relayed,
                      asks, markers >>
  PROVE  ConsoleInv'
<1> DEFINE new == [bots[t][b] EXCEPT !.at = at]
<1>1. /\ bots[t][b] \in Bot
      /\ bots \in [Tabs -> Seq(Bot)] /\ lock \in [Docs -> (Tabs \X Nat) \cup {Free}]
      /\ markers \in [Docs -> Seq(Marker)]
  BY DomainOf DEF ConsoleInv, ConsoleTypeOK
<1>2. /\ bots[t][b].attached => ~bots[t][b].aborted
      /\ lock[bots[t][b].doc] = << t, b >>
  BY DEF ConsoleInv, BotsOfPage, LockHeld
<1>3. /\ new \in Bot /\ new.doc = bots[t][b].doc /\ new.aborted = bots[t][b].aborted
      /\ new.attached = bots[t][b].attached /\ ~Working(new) /\ new.at # "writing"
  BY <1>1 DEF Bot, Working
<1>4. bots' = [bots EXCEPT ![t] = [bots[t] EXCEPT ![b] = new]]
  BY <1>1 DEF BotEnds
<1>5. /\ lock' \in [Docs -> (Tabs \X Nat) \cup {Free}]
      /\ \A d \in Docs : d # bots[t][b].doc => lock'[d] = lock[d]
  BY <1>1 DEF BotEnds, Bot
<1> HIDE DEF new
<1> QED BY <1>1, <1>2, <1>3, <1>4, <1>5, BotStepKeeps DEF BotStep

LEMMA LoadBotKeeps ==
  ASSUME ConsoleInv, NEW t \in Tabs, NEW b \in DOMAIN bots[t], LoadBot(t, b)
  PROVE  ConsoleInv'
<1>1. /\ bots[t][b] \in Bot /\ bots[t][b].at = "loading"
      /\ bots \in [Tabs -> Seq(Bot)] /\ lock \in [Docs -> (Tabs \X Nat) \cup {Free}]
      /\ markers \in [Docs -> Seq(Marker)]
  BY DomainOf DEF ConsoleInv, ConsoleTypeOK, LoadBot
<1>2. Working(bots[t][b]) /\ lock[bots[t][b].doc] = << t, b >>
  BY <1>1 DEF ConsoleInv, LockHeld, Working
<1>3. CASE bots[t][b].aborted
  BY <1>2, <1>3, BotEndsKeeps DEF LoadBot
<1>4. CASE ~bots[t][b].aborted
  <2> DEFINE new == [bots[t][b] EXCEPT !.at = "waiting", !.attached = TRUE]
  <2>1. /\ new \in Bot /\ new.doc = bots[t][b].doc /\ new.aborted = bots[t][b].aborted
        /\ new.at = "waiting"
    BY <1>1 DEF Bot
  <2>2. bots' = [bots EXCEPT ![t] = [bots[t] EXCEPT ![b] = new]] /\ UNCHANGED lock
    BY <1>1, <1>4 DEF LoadBot
  <2> HIDE DEF new
  <2> QED BY <1>1, <1>2, <1>4, <2>1, <2>2, BotStepKeeps DEF BotStep, LoadBot
<1> QED BY <1>3, <1>4

LEMMA LoseBotKeeps ==
  ASSUME ConsoleInv, NEW t \in Tabs, NEW b \in DOMAIN bots[t], LoseBot(t, b)
  PROVE  ConsoleInv'
<1>1. Working(bots[t][b])
  BY DEF LoseBot, Working
<1>2. CASE bots[t][b].aborted
  BY <1>1, <1>2, BotEndsKeeps DEF LoseBot
<1>3. CASE ~bots[t][b].aborted
  BY <1>1, <1>3, BotEndsKeeps DEF LoseBot
<1> QED BY <1>2, <1>3

LEMMA StartLineKeeps ==
  ASSUME ConsoleInv, NEW t \in Tabs, NEW b \in DOMAIN bots[t], StartLine(t, b)
  PROVE  ConsoleInv'
<1> DEFINE d == bots[t][b].doc
           there == { i \in DOMAIN markers[d] : markers[d][i].there }
           block == IF there = {} THEN Len(markers[d]) + 1
                    ELSE CHOOSE i \in there : \A j \in there : i <= j
           new == [bots[t][b] EXCEPT !.at = "writing", !.block = block]
<1>1. /\ bots[t][b] \in Bot /\ d \in Docs
      /\ bots[t][b].at \in {"waiting", "resting"}
      /\ bots \in [Tabs -> Seq(Bot)] /\ lock \in [Docs -> (Tabs \X Nat) \cup {Free}]
      /\ markers \in [Docs -> Seq(Marker)] /\ markers[d] \in Seq(Marker)
      /\ Len(markers[d]) \in Nat /\ DOMAIN markers[d] = 1..Len(markers[d])
      /\ \A i \in DOMAIN markers[d] : markers[d][i] \in Marker
  BY BotAt, DomainOf DEF StartLine
<1>2. Working(bots[t][b]) /\ lock[d] = << t, b >>
  BY <1>1 DEF ConsoleInv, LockHeld, Working
<1>3. CASE bots[t][b].aborted
  BY <1>2, <1>3, BotEndsKeeps DEF StartLine
<1>4. CASE ~bots[t][b].aborted
  <2>1. /\ bots' = [bots EXCEPT ![t] = [bots[t] EXCEPT ![b] = new]] /\ UNCHANGED lock
        /\ IF there = {}
           THEN markers' = [markers EXCEPT ![d] = Append(@, [typed |-> 0, there |-> TRUE])]
           ELSE \E i \in there : /\ \A j \in there : i <= j
                                 /\ markers' = [markers EXCEPT ![d][i].typed = 0]
    <3>1. bots' = [bots EXCEPT ![t] = [bots[t] EXCEPT ![b] = new]]
      BY <1>1, <1>4 DEF StartLine
    <3>2. /\ UNCHANGED lock
          /\ IF there = {}
             THEN markers' = [markers EXCEPT ![d] = Append(@, [typed |-> 0, there |-> TRUE])]
             ELSE \E i \in there : /\ \A j \in there : i <= j
                                   /\ markers' = [markers EXCEPT ![d][i].typed = 0]
      BY <1>4 DEF StartLine
    <3> HIDE DEF there, block, new
    <3> QED BY <3>1, <3>2
  <2>2. /\ block \in Nat
        /\ markers' \in [Docs -> Seq(Marker)]
        /\ block \in DOMAIN markers'[d]
        /\ \A e \in Docs : DOMAIN markers[e] \subseteq DOMAIN markers'[e]
    <3>1. CASE there = {}
      <4> DEFINE line == [typed |-> 0, there |-> TRUE]
      <4>1. line \in Marker /\ block = Len(markers[d]) + 1
        BY <3>1 DEF Marker
      <4>2. markers' = [markers EXCEPT ![d] = Append(markers[d], line)]
        BY <2>1, <3>1
      <4> HIDE DEF line, block
      <4>3. /\ Append(markers[d], line) \in Seq(Marker)
            /\ DOMAIN Append(markers[d], line) = 1..(Len(markers[d]) + 1)
        BY <1>1, <4>1, Grown
      <4> QED BY <1>1, <4>1, <4>2, <4>3
    <3>2. CASE there # {}
      <4>1. PICK i \in there : /\ \A j \in there : i <= j
                               /\ markers' = [markers EXCEPT ![d][i].typed = 0]
        BY <2>1, <3>2
      <4>2. block \in there
        BY <3>2, <4>1
      <4> DEFINE line == [markers[d][i] EXCEPT !.typed = 0]
      <4>3. line \in Marker /\ i \in DOMAIN markers[d]
        BY <1>1 DEF Marker
      <4>4. markers' = [markers EXCEPT ![d] = [markers[d] EXCEPT ![i] = line]]
        BY <4>1
      <4> HIDE DEF line, block
      <4>5. /\ [markers[d] EXCEPT ![i] = line] \in Seq(Marker)
            /\ DOMAIN [markers[d] EXCEPT ![i] = line] = DOMAIN markers[d]
        BY <1>1, <4>3, SetAt
      <4> QED BY <1>1, <4>2, <4>4, <4>5
    <3> QED BY <3>1, <3>2
  <2> HIDE DEF block, there
  <2>3. /\ new \in Bot /\ new.doc = d /\ new.aborted = bots[t][b].aborted
        /\ new.attached = bots[t][b].attached /\ new.block = block
    BY <1>1, <2>2 DEF Bot
  <2> HIDE DEF new
  <2> QED BY <1>1, <1>2, <1>4, <2>1, <2>2, <2>3, BotStepKeeps DEF BotStep, StartLine
<1> QED BY <1>3, <1>4

(* A line of a demo or a mention that gets one more character.             *)
LEMMA LineGrows ==
  /\ \A m \in Marker : [m EXCEPT !.typed = m.typed + 1] \in Marker
  /\ \A a \in Ask : [a EXCEPT !.typed = a.typed + 1] \in Ask
  BY DEF Marker, Ask

LEMMA BotTypesKeeps ==
  ASSUME ConsoleInv, NEW t \in Tabs, NEW b \in DOMAIN bots[t], BotTypes(t, b)
  PROVE  ConsoleInv'
<1> DEFINE d == bots[t][b].doc
           i == bots[t][b].block
<1>1. /\ bots[t][b] \in Bot /\ d \in Docs /\ bots[t][b].at = "writing"
      /\ bots \in [Tabs -> Seq(Bot)] /\ lock \in [Docs -> (Tabs \X Nat) \cup {Free}]
      /\ markers \in [Docs -> Seq(Marker)] /\ markers[d] \in Seq(Marker)
  BY BotAt DEF BotTypes
<1>2. Working(bots[t][b]) /\ lock[d] = << t, b >> /\ i \in DOMAIN markers[d]
  BY <1>1 DEF ConsoleInv, LockHeld, BlocksKnown, Working
<1>3. CASE bots[t][b].aborted
  BY <1>2, <1>3, BotEndsKeeps DEF BotTypes
<1>4. CASE ~bots[t][b].aborted /\ ~markers[d][i].there
  BY <1>2, <1>4, BotEndsKeeps DEF BotTypes
<1>5. CASE ~bots[t][b].aborted /\ markers[d][i].there
  <2> DEFINE at == IF markers[d][i].typed + 1 = LineLength THEN "resting" ELSE bots[t][b].at
             new == [bots[t][b] EXCEPT !.at = at]
             line == [markers[d][i] EXCEPT !.typed = markers[d][i].typed + 1]
  <2>1. /\ bots' = [bots EXCEPT ![t] = [bots[t] EXCEPT ![b] = new]] /\ UNCHANGED lock
        /\ markers' = [markers EXCEPT ![d] = [markers[d] EXCEPT ![i] = line]]
    BY <1>1, <1>5 DEF BotTypes
  <2>2. line \in Marker
    <3>1. markers[d][i] \in Marker
      BY <1>1, <1>2, DomainOf
    <3> QED BY <3>1, LineGrows
  <2>3. at \in {"resting", "writing"}
    BY <1>1
  <2> HIDE DEF at, line
  <2>4. /\ new \in Bot /\ new.doc = d /\ new.aborted = bots[t][b].aborted
        /\ new.attached = bots[t][b].attached /\ new.block = i
    BY <1>1, <2>3 DEF Bot
  <2> HIDE DEF new
  <2>5. /\ [markers[d] EXCEPT ![i] = line] \in Seq(Marker)
        /\ DOMAIN [markers[d] EXCEPT ![i] = line] = DOMAIN markers[d]
    BY <1>1, <1>2, <2>2, SetAt
  <2>6. /\ markers' \in [Docs -> Seq(Marker)]
        /\ \A e \in Docs : DOMAIN markers'[e] = DOMAIN markers[e]
    BY <1>1, <2>1, <2>5
  <2> QED BY <1>1, <1>2, <1>5, <2>1, <2>4, <2>6, BotStepKeeps DEF BotStep, BotTypes
<1> QED BY <1>3, <1>4, <1>5

-----------------------------------------------------------------------------
(* The runs of the demo.  One of them moves on: it keeps its room and its  *)
(* abort flag, and types in the paragraph it has or in a new one.          *)
RunStep(t, i, new) ==
  /\ new \in Run
  /\ new.room = runs[t][i].room
  /\ new.aborted = runs[t][i].aborted
  /\ runs' = [runs EXCEPT ![t] = [runs[t] EXCEPT ![i] = new]]
  /\ asks' \in [Docs -> Seq(Ask)]
  /\ \A d \in Docs : DOMAIN asks[d] \subseteq DOMAIN asks'[d]
  /\ new.at = "typing" =>
       \/ runs[t][i].at = "typing" /\ new.block = runs[t][i].block
       \/ \E d \in Docs : d = RunDoc(t, i) /\ new.block \in DOMAIN asks'[d] \ DOMAIN asks[d]
  /\ ui' \in [Tabs -> PageState] /\ \A u \in Tabs : ui'[u].ed = ui[u].ed
  /\ busy' \in [Tabs -> BOOLEAN]
  /\ UNCHANGED << seen, rooms, effectRun, bots, lock, resets, reloaded, relayed, markers >>

LEMMA RunAt ==
  ASSUME ConsoleInv, NEW t \in Tabs, NEW i \in DOMAIN runs[t]
  PROVE  /\ runs \in [Tabs -> Seq(Run)] /\ runs[t] \in Seq(Run) /\ asks \in [Docs -> Seq(Ask)]
         /\ ui \in [Tabs -> PageState] /\ busy \in [Tabs -> BOOLEAN]
         /\ i \in Nat \ {0} /\ runs[t][i] \in Run
         /\ runs[t][i].room \in DOMAIN rooms[t] /\ rooms[t][runs[t][i].room] \in Room
         /\ RunDoc(t, i) \in Docs /\ asks[RunDoc(t, i)] \in Seq(Ask)
         /\ runs[t][i].at = "typing" => runs[t][i].block \in DOMAIN asks[RunDoc(t, i)]
         /\ ~runs[t][i].aborted => i = effectRun[t] /\ runs[t][i].room = seen[t].ed
<1>1. /\ runs \in [Tabs -> Seq(Run)] /\ asks \in [Docs -> Seq(Ask)]
      /\ ui \in [Tabs -> PageState] /\ busy \in [Tabs -> BOOLEAN]
      /\ runs[t] \in Seq(Run) /\ rooms[t] \in Seq(Room)
  BY DEF ConsoleInv, ConsoleTypeOK
<1>2. i \in Nat \ {0} /\ runs[t][i] \in Run
  BY <1>1, DomainOf
<1>3. runs[t][i].room \in DOMAIN rooms[t]
  BY DEF ConsoleInv, RoomsNamed
<1>4. rooms[t][runs[t][i].room] \in Room
  BY <1>1, <1>3, DomainOf
<1>5. RunDoc(t, i) \in Docs
  BY <1>4 DEF RunDoc, Room
<1> QED BY <1>1, <1>2, <1>3, <1>4, <1>5 DEF ConsoleInv, BlocksKnown, RunsOfPage, Typing

LEMMA RunStepKeeps ==
  ASSUME ConsoleInv, NEW t \in Tabs, NEW i \in DOMAIN runs[t], NEW new, RunStep(t, i, new)
  PROVE  ConsoleInv'
<1> DEFINE z == [runs[t] EXCEPT ![i] = new]
<1>1. runs \in [Tabs -> Seq(Run)] /\ runs[t] \in Seq(Run)
  BY RunAt
<1>2. /\ z \in Seq(Run) /\ DOMAIN z = DOMAIN runs[t] /\ Len(z) = Len(runs[t])
      /\ z[i] = new /\ \A j \in DOMAIN runs[t] : j # i => z[j] = runs[t][j]
  BY <1>1, SetAt DEF RunStep
<1>3. runs' = [runs EXCEPT ![t] = z]
  BY DEF RunStep
<1> HIDE DEF z
<1>4. /\ runs' \in [Tabs -> Seq(Run)]
      /\ \A u \in Tabs : DOMAIN runs'[u] = DOMAIN runs[u]
      /\ runs'[t][i] = new
      /\ \A u \in Tabs : \A j \in DOMAIN runs[u] :
           u # t \/ j # i => runs'[u][j] = runs[u][j]
  BY <1>1, <1>2, <1>3
<1>5. ASSUME NEW u \in Tabs, NEW j \in DOMAIN runs[u]
      PROVE  runs'[u][j].room = runs[u][j].room /\ runs'[u][j].aborted = runs[u][j].aborted
  BY <1>4 DEF RunStep
<1>6. ASSUME NEW u \in Tabs, NEW j \in DOMAIN runs[u]
      PROVE  RunDoc(u, j)' = RunDoc(u, j)
  BY <1>5 DEF RunStep, RunDoc
<1>7. ConsoleTypeOK'
  BY <1>4 DEF RunStep, ConsoleInv, ConsoleTypeOK
<1>8. ASSUME NEW u \in Tabs
      PROVE  RoomsNamed(u)' /\ RoomsOfPage(u)' /\ BotsOfPage(u)' /\ LockHeld(u)'
  <2>1. RoomsNamed(u) /\ RoomsOfPage(u) /\ BotsOfPage(u) /\ LockHeld(u)
    BY DEF ConsoleInv
  <2>2. RoomsNamed(u)'
    BY <1>4, <1>5, <2>1 DEF RunStep, RoomsNamed
  <2> QED BY <2>1, <2>2 DEF RunStep, RoomsOfPage, BotsOfPage, LockHeld
<1>9. ASSUME NEW u \in Tabs
      PROVE  RunsOfPage(u)'
  BY <1>4, <1>5 DEF RunStep, ConsoleInv, RunsOfPage
<1>10. ASSUME NEW u \in Tabs, NEW j \in DOMAIN runs[u], Typing(u, j)'
       PROVE  /\ (runs[u][j].block \in DOMAIN asks[RunDoc(u, j)])'
              /\ \/ Typing(u, j) /\ runs'[u][j].block = runs[u][j].block
                 \/ /\ u = t /\ j = i
                    /\ runs'[u][j].block \notin DOMAIN asks[RunDoc(u, j)]
  <2>1. /\ DOMAIN asks[RunDoc(u, j)] \subseteq DOMAIN asks'[RunDoc(u, j)']
        /\ Typing(u, j) => runs[u][j].block \in DOMAIN asks[RunDoc(u, j)]
    <3>1. RunDoc(u, j) \in Docs
      BY RunAt
    <3> QED BY <1>6, <3>1, RunAt DEF RunStep, Typing
  <2>2. CASE u # t \/ j # i
    BY <2>1, <2>2, <1>4, <1>10 DEF Typing
  <2>3. CASE u = t /\ j = i
    BY <2>1, <2>3, <1>4, <1>6, <1>10 DEF Typing, RunStep
  <2> QED BY <2>2, <2>3
<1>11. ASSUME NEW u \in Tabs
       PROVE  BlocksKnown(u)'
  <2>1. \A b \in DOMAIN bots'[u] :
          bots'[u][b].at = "writing" => bots'[u][b].block \in DOMAIN markers'[bots'[u][b].doc]
    BY DEF ConsoleInv, BlocksKnown, RunStep
  <2> QED BY <2>1, <1>4, <1>10 DEF BlocksKnown
<1>12. ASSUME NEW u \in Tabs, NEW v \in Tabs, NEW j \in DOMAIN runs[u], NEW k \in DOMAIN runs[v],
              Typing(u, j)', Typing(v, k)', RunDoc(u, j)' = RunDoc(v, k)',
              runs'[u][j].block = runs'[v][k].block
       PROVE  u = v /\ j = k
  <2>1. RunDoc(u, j) = RunDoc(v, k)
    BY <1>6, <1>12
  <2>2. CASE Typing(u, j) /\ runs'[u][j].block = runs[u][j].block
    <3>1. runs[u][j].block \in DOMAIN asks[RunDoc(u, j)]
      BY <2>2, RunAt DEF Typing
    <3>2. Typing(v, k) /\ runs'[v][k].block = runs[v][k].block
      BY <1>10, <1>12, <2>1, <2>2, <3>1
    <3> QED BY <1>12, <2>1, <2>2, <3>2 DEF ConsoleInv, BlocksApart
  <2>3. CASE u = t /\ j = i /\ runs'[u][j].block \notin DOMAIN asks[RunDoc(u, j)]
    <3>1. CASE Typing(v, k) /\ runs'[v][k].block = runs[v][k].block
      <4>1. runs[v][k].block \in DOMAIN asks[RunDoc(v, k)]
        BY <3>1, RunAt DEF Typing
      <4> QED BY <1>12, <2>1, <2>3, <3>1, <4>1
    <3> QED BY <1>10, <1>12, <2>3, <3>1
  <2> QED BY <1>10, <1>12, <2>2, <2>3
<1> QED BY <1>4, <1>7, <1>8, <1>9, <1>11, <1>12 DEF ConsoleInv, BlocksApart

LEMMA LoadRunKeeps ==
  ASSUME ConsoleInv, NEW t \in Tabs, NEW i \in DOMAIN runs[t], LoadRun(t, i)
  PROVE  ConsoleInv'
<1> DEFINE new == [runs[t][i] EXCEPT !.at = "settling"]
<1>1. /\ runs \in [Tabs -> Seq(Run)] /\ runs[t][i] \in Run /\ asks \in [Docs -> Seq(Ask)]
      /\ ui \in [Tabs -> PageState] /\ busy \in [Tabs -> BOOLEAN]
  BY RunAt
<1>2. /\ new \in Run /\ new.room = runs[t][i].room /\ new.aborted = runs[t][i].aborted
      /\ new.at = "settling"
  BY <1>1 DEF Run
<1>3. runs' = [runs EXCEPT ![t] = [runs[t] EXCEPT ![i] = new]]
  BY <1>1 DEF LoadRun
<1> HIDE DEF new
<1>4. RunStep(t, i, new)
  BY <1>1, <1>2, <1>3 DEF RunStep, LoadRun, docVars
<1> QED BY <1>4, RunStepKeeps

LEMMA SettleKeeps ==
  ASSUME ConsoleInv, NEW t \in Tabs, NEW i \in DOMAIN runs[t], Settle(t, i)
  PROVE  ConsoleInv'
<1> DEFINE d == RunDoc(t, i)
<1>1. /\ runs \in [Tabs -> Seq(Run)] /\ runs[t][i] \in Run /\ asks \in [Docs -> Seq(Ask)]
      /\ ui \in [Tabs -> PageState] /\ busy \in [Tabs -> BOOLEAN]
      /\ d \in Docs /\ asks[d] \in Seq(Ask)
  BY RunAt
<1>2. CASE UNCHANGED asks /\ runs' = [runs EXCEPT ![t][i].at =
                        IF runs[t][i].aborted THEN "over" ELSE "watching"]
  <2> DEFINE at == IF runs[t][i].aborted THEN "over" ELSE "watching"
             new == [runs[t][i] EXCEPT !.at = at]
  <2>1. runs' = [runs EXCEPT ![t] = [runs[t] EXCEPT ![i] = new]]
    BY <1>1, <1>2
  <2>2. at \in {"over", "watching"}
    OBVIOUS
  <2> HIDE DEF at
  <2>3. /\ new \in Run /\ new.room = runs[t][i].room /\ new.aborted = runs[t][i].aborted
        /\ new.at # "typing"
    BY <1>1, <2>2 DEF Run
  <2> HIDE DEF new
  <2>4. RunStep(t, i, new)
    BY <1>1, <1>2, <2>1, <2>3 DEF RunStep, Settle
  <2> QED BY <2>4, RunStepKeeps
<1>3. CASE /\ runs' = [runs EXCEPT ![t][i].at = "typing", ![t][i].block = Len(asks[d]) + 1]
           /\ asks' = [asks EXCEPT ![d] = Append(@,
                        [asker |-> runs[t][i].asker, typed |-> 0, there |-> TRUE])]
  <2> DEFINE n == Len(asks[d]) + 1
             new == [runs[t][i] EXCEPT !.at = "typing", !.block = n]
             ask == [asker |-> runs[t][i].asker, typed |-> 0, there |-> TRUE]
  <2>1. /\ runs' = [runs EXCEPT ![t] = [runs[t] EXCEPT ![i] = new]]
        /\ asks' = [asks EXCEPT ![d] = Append(asks[d], ask)]
    BY <1>1, <1>3
  <2>2. ask \in Ask /\ n \in Nat
    BY <1>1 DEF Ask, Run
  <2>3. /\ Append(asks[d], ask) \in Seq(Ask) /\ n \in DOMAIN Append(asks[d], ask)
        /\ DOMAIN asks[d] \subseteq DOMAIN Append(asks[d], ask) /\ n \notin DOMAIN asks[d]
    <3> HIDE DEF ask
    <3> QED BY <1>1, <2>2, Grown
  <2> HIDE DEF n, ask
  <2>4. /\ new \in Run /\ new.room = runs[t][i].room /\ new.aborted = runs[t][i].aborted
        /\ new.block = n
    BY <1>1, <2>2 DEF Run
  <2> HIDE DEF new
  <2>5. /\ asks' \in [Docs -> Seq(Ask)] /\ n \in DOMAIN asks'[d] \ DOMAIN asks[d]
        /\ \A e \in Docs : DOMAIN asks[e] \subseteq DOMAIN asks'[e]
    BY <1>1, <2>1, <2>3
  <2>6. RunStep(t, i, new)
    BY <1>1, <2>1, <2>4, <2>5 DEF RunStep, Settle
  <2> QED BY <2>6, RunStepKeeps
<1> QED BY <1>2, <1>3 DEF Settle, RunDoc

LEMMA TypeAskKeeps ==
  ASSUME ConsoleInv, NEW t \in Tabs, NEW i \in DOMAIN runs[t], TypeAsk(t, i)
  PROVE  ConsoleInv'
<1> DEFINE d == RunDoc(t, i)
           k == runs[t][i].block
<1>1. /\ runs \in [Tabs -> Seq(Run)] /\ runs[t][i] \in Run /\ asks \in [Docs -> Seq(Ask)]
      /\ ui \in [Tabs -> PageState] /\ busy \in [Tabs -> BOOLEAN]
      /\ d \in Docs /\ asks[d] \in Seq(Ask)
      /\ runs[t][i].at = "typing" /\ k \in DOMAIN asks[d]
  BY RunAt DEF TypeAsk
<1>2. ASSUME NEW at \in {"over", "dead"}, UNCHANGED asks,
             runs' = [runs EXCEPT ![t][i].at = at]
      PROVE  ConsoleInv'
  <2> DEFINE new == [runs[t][i] EXCEPT !.at = at]
  <2>1. runs' = [runs EXCEPT ![t] = [runs[t] EXCEPT ![i] = new]]
    BY <1>1, <1>2
  <2>2. /\ new \in Run /\ new.room = runs[t][i].room /\ new.aborted = runs[t][i].aborted
        /\ new.at # "typing"
    BY <1>1 DEF Run
  <2> HIDE DEF new
  <2>3. RunStep(t, i, new)
    BY <1>1, <1>2, <2>1, <2>2 DEF RunStep, TypeAsk
  <2> QED BY <2>3, RunStepKeeps
<1>3. CASE UNCHANGED asks /\ runs' = [runs EXCEPT ![t][i].lost = TRUE]
  <2> DEFINE new == [runs[t][i] EXCEPT !.lost = TRUE]
  <2>1. runs' = [runs EXCEPT ![t] = [runs[t] EXCEPT ![i] = new]]
    BY <1>1, <1>3
  <2>2. /\ new \in Run /\ new.room = runs[t][i].room /\ new.aborted = runs[t][i].aborted
        /\ new.at = "typing" /\ new.block = k
    BY <1>1 DEF Run
  <2> HIDE DEF new
  <2>3. RunStep(t, i, new)
    BY <1>1, <1>3, <2>1, <2>2 DEF RunStep, TypeAsk
  <2> QED BY <2>3, RunStepKeeps
<1>4. ASSUME NEW typed, typed = asks[d][k].typed + 1,
             asks' = [asks EXCEPT ![d][k].typed = typed],
             runs' = [runs EXCEPT ![t][i].at = IF typed = LineLength THEN "watching" ELSE @]
      PROVE  ConsoleInv'
  <2> DEFINE at == IF typed = LineLength THEN "watching" ELSE "typing"
             new == [runs[t][i] EXCEPT !.at = at]
             ask == [asks[d][k] EXCEPT !.typed = typed]
  <2>1. /\ runs' = [runs EXCEPT ![t] = [runs[t] EXCEPT ![i] = new]]
        /\ asks' = [asks EXCEPT ![d] = [asks[d] EXCEPT ![k] = ask]]
    BY <1>1, <1>4
  <2>2. asks[d][k] \in Ask
    BY <1>1, DomainOf
  <2>3. ask \in Ask
    BY <1>4, <2>2, LineGrows
  <2>4. at \in {"watching", "typing"}
    OBVIOUS
  <2> HIDE DEF ask, at
  <2>5. /\ new \in Run /\ new.room = runs[t][i].room /\ new.aborted = runs[t][i].aborted
        /\ new.block = k
    BY <1>1, <2>4 DEF Run
  <2>6. /\ [asks[d] EXCEPT ![k] = ask] \in Seq(Ask)
        /\ DOMAIN [asks[d] EXCEPT ![k] = ask] = DOMAIN asks[d]
    BY <1>1, <2>3, SetAt
  <2> HIDE DEF new
  <2>7. /\ asks' \in [Docs -> Seq(Ask)]
        /\ \A e \in Docs : DOMAIN asks'[e] = DOMAIN asks[e]
    BY <1>1, <2>1, <2>6
  <2>8. RunStep(t, i, new)
    BY <1>1, <2>1, <2>5, <2>7 DEF RunStep, TypeAsk
  <2> QED BY <2>8, RunStepKeeps
<1> QED BY <1>2, <1>3, <1>4 DEF TypeAsk, RunDoc

LEMMA EndWatchKeeps ==
  ASSUME ConsoleInv, NEW t \in Tabs, NEW i \in DOMAIN runs[t], EndWatch(t, i)
  PROVE  ConsoleInv'
<1> DEFINE new == [runs[t][i] EXCEPT !.at = "over"]
           demo == IF runs[t][i].aborted THEN ui[t].demo ELSE None
<1>1. /\ runs \in [Tabs -> Seq(Run)] /\ runs[t][i] \in Run /\ asks \in [Docs -> Seq(Ask)]
      /\ ui \in [Tabs -> PageState] /\ busy \in [Tabs -> BOOLEAN]
  BY RunAt
<1>2. /\ new \in Run /\ new.room = runs[t][i].room /\ new.aborted = runs[t][i].aborted
      /\ new.at = "over"
  BY <1>1 DEF Run
<1>3. /\ runs' = [runs EXCEPT ![t] = [runs[t] EXCEPT ![i] = new]]
      /\ ui' = [ui EXCEPT ![t] = [ui[t] EXCEPT !.demo = demo]]
  BY <1>1 DEF EndWatch
<1>4. busy' \in [Tabs -> BOOLEAN]
  BY <1>1 DEF EndWatch
<1>5. demo \in Askers \cup {None}
  BY <1>1 DEF PageState
<1> HIDE DEF new, demo
<1>6. ui' \in [Tabs -> PageState] /\ \A u \in Tabs : ui'[u].ed = ui[u].ed
  BY <1>1, <1>3, <1>5 DEF PageState
<1>7. RunStep(t, i, new)
  BY <1>1, <1>2, <1>3, <1>4, <1>6 DEF RunStep, EndWatch, docVars
<1> QED BY <1>7, RunStepKeeps

-----------------------------------------------------------------------------
(* A step that starts, shuts and finishes nothing: clicks, imports that    *)
(* arrive or fail, paragraphs deleted.  Only a room that is open comes up. *)
QuietStep ==
  /\ ui' \in [Tabs -> PageState]
  /\ resets' \in [Tabs -> SUBSET Nat] /\ reloaded' \in [Tabs -> BOOLEAN]
  /\ rooms' \in [Tabs -> Seq(Room)]
  /\ \A u \in Tabs :
       /\ DOMAIN rooms'[u] = DOMAIN rooms[u] /\ Len(rooms'[u]) = Len(rooms[u])
       /\ ui'[u].ed <= Len(rooms[u])
       /\ resets'[u] \subseteq DOMAIN rooms[u]
       /\ \A r \in DOMAIN rooms[u] :
            /\ rooms'[u][r].doc = rooms[u][r].doc
            /\ rooms'[u][r].disposed = rooms[u][r].disposed
            /\ rooms[u][r].disposed => rooms'[u][r].state # "attached"
  /\ asks' \in [Docs -> Seq(Ask)] /\ markers' \in [Docs -> Seq(Marker)]
  /\ \A d \in Docs : DOMAIN asks'[d] = DOMAIN asks[d] /\ DOMAIN markers'[d] = DOMAIN markers[d]
  /\ UNCHANGED << seen, runs, effectRun, busy, bots, lock, relayed >>

LEMMA QuietStepKeeps ==
  ASSUME ConsoleInv, QuietStep
  PROVE  ConsoleInv'
<1>1. ConsoleTypeOK'
  BY DEF QuietStep, ConsoleInv, ConsoleTypeOK
<1>2. ASSUME NEW u \in Tabs
      PROVE  RoomsNamed(u)'
  BY DEF QuietStep, ConsoleInv, RoomsNamed
<1>3. ASSUME NEW u \in Tabs
      PROVE  RoomsOfPage(u)'
  <2>1. ASSUME NEW r \in DOMAIN rooms[u]
        PROVE  IF rooms'[u][r].disposed THEN rooms'[u][r].state # "attached"
               ELSE r = Len(rooms'[u]) /\ rooms'[u][r].doc = seen'[u].doc
    <3>1. /\ rooms'[u][r].doc = rooms[u][r].doc
          /\ rooms'[u][r].disposed = rooms[u][r].disposed
          /\ rooms[u][r].disposed => rooms'[u][r].state # "attached"
          /\ Len(rooms'[u]) = Len(rooms[u]) /\ UNCHANGED seen
      BY DEF QuietStep
    <3>2. IF rooms[u][r].disposed THEN rooms[u][r].state # "attached"
          ELSE r = Len(rooms[u]) /\ rooms[u][r].doc = seen[u].doc
      BY DEF ConsoleInv, RoomsOfPage
    <3> QED BY <3>1, <3>2
  <2>2. DOMAIN rooms'[u] = DOMAIN rooms[u]
    BY DEF QuietStep
  <2> QED BY <2>1, <2>2 DEF RoomsOfPage
<1>4. ASSUME NEW u \in Tabs
      PROVE  BotsOfPage(u)' /\ RunsOfPage(u)' /\ LockHeld(u)'
  BY DEF QuietStep, ConsoleInv, BotsOfPage, RunsOfPage, LockHeld
<1>5. ASSUME NEW u \in Tabs, NEW i \in DOMAIN runs[u]
      PROVE  RunDoc(u, i)' = RunDoc(u, i) /\ RunDoc(u, i) \in Docs /\ Typing(u, i)' = Typing(u, i)
  <2>1. runs[u][i].room \in DOMAIN rooms[u] /\ RunDoc(u, i) \in Docs
    BY RunAt
  <2> QED BY <2>1 DEF QuietStep, RunDoc, Typing
<1>6. ASSUME NEW u \in Tabs
      PROVE  BlocksKnown(u)'
  <2>1. ASSUME NEW i \in DOMAIN runs[u], Typing(u, i)'
        PROVE  (runs[u][i].block \in DOMAIN asks[RunDoc(u, i)])'
    <3>1. runs[u][i].block \in DOMAIN asks[RunDoc(u, i)]
      BY <1>5, <2>1, RunAt DEF Typing
    <3> QED BY <1>5, <3>1 DEF QuietStep
  <2>2. ASSUME NEW b \in DOMAIN bots[u], bots[u][b].at = "writing"
        PROVE  bots[u][b].block \in DOMAIN markers'[bots[u][b].doc]
    BY <2>2, BotAt DEF QuietStep, ConsoleInv, BlocksKnown
  <2>3. UNCHANGED << runs, bots >>
    BY DEF QuietStep
  <2> QED BY <2>1, <2>2, <2>3 DEF BlocksKnown
<1>7. ASSUME NEW u \in Tabs, NEW v \in Tabs
      PROVE  BlocksApart(u, v)'
  <2>1. BlocksApart(u, v) /\ UNCHANGED runs
    BY DEF ConsoleInv, QuietStep
  <2> QED BY <1>5, <2>1 DEF BlocksApart
<1> QED BY <1>1, <1>2, <1>3, <1>4, <1>6, <1>7 DEF ConsoleInv

(* What a step leaves alone of that. *)
LEMMA Quiet ==
  ASSUME ConsoleInv, NEW t \in Tabs
  PROVE  /\ ui \in [Tabs -> PageState] /\ seen \in [Tabs -> PageState]
         /\ rooms \in [Tabs -> Seq(Room)] /\ rooms[t] \in Seq(Room)
         /\ Len(rooms[t]) \in Nat /\ DOMAIN rooms[t] = 1..Len(rooms[t])
         /\ \A r \in DOMAIN rooms[t] : rooms[t][r] \in Room
         /\ resets \in [Tabs -> SUBSET Nat] /\ reloaded \in [Tabs -> BOOLEAN]
         /\ asks \in [Docs -> Seq(Ask)] /\ markers \in [Docs -> Seq(Marker)]
         /\ \A u \in Tabs :
              /\ ui[u].ed <= Len(rooms[u]) /\ seen[u].ed <= Len(rooms[u])
              /\ resets[u] \subseteq DOMAIN rooms[u]
              /\ \A r \in DOMAIN rooms[u] :
                   rooms[u][r].disposed => rooms[u][r].state # "attached"
<1>1. /\ ui \in [Tabs -> PageState] /\ seen \in [Tabs -> PageState]
      /\ rooms \in [Tabs -> Seq(Room)]
      /\ resets \in [Tabs -> SUBSET Nat] /\ reloaded \in [Tabs -> BOOLEAN]
      /\ asks \in [Docs -> Seq(Ask)] /\ markers \in [Docs -> Seq(Marker)]
  BY DEF ConsoleInv, ConsoleTypeOK
<1>2. rooms[t] \in Seq(Room)
  BY <1>1
<1>3. ASSUME NEW u \in Tabs
      PROVE  /\ ui[u].ed <= Len(rooms[u]) /\ seen[u].ed <= Len(rooms[u])
             /\ resets[u] \subseteq DOMAIN rooms[u]
             /\ \A r \in DOMAIN rooms[u] :
                  rooms[u][r].disposed => rooms[u][r].state # "attached"
  BY DEF ConsoleInv, RoomsNamed, RoomsOfPage
<1> QED BY <1>1, <1>2, <1>3, DomainOf

(* A room's import arrives, or fails: only one that is not shut opens. *)
LEMMA RoomStep ==
  ASSUME ConsoleInv, NEW t \in Tabs, NEW r \in DOMAIN rooms[t],
         NEW state \in {"attached", "gone", "failed"},
         state = "attached" => ~rooms[t][r].disposed,
         rooms' = [rooms EXCEPT ![t][r].state = state],
         ui' = ui \/ ui' = [ui EXCEPT ![t].ed = r],
         reloaded' \in [Tabs -> BOOLEAN],
         UNCHANGED << seen, runs, effectRun, busy, bots, resets, docVars >>
  PROVE  ConsoleInv'
<1> DEFINE new == [rooms[t][r] EXCEPT !.state = state]
<1>0. /\ ui \in [Tabs -> PageState] /\ rooms \in [Tabs -> Seq(Room)] /\ rooms[t] \in Seq(Room)
      /\ DOMAIN rooms[t] = 1..Len(rooms[t]) /\ Len(rooms[t]) \in Nat
      /\ rooms[t][r] \in Room /\ r \in Nat /\ r <= Len(rooms[t])
      /\ \A u \in Tabs : ui[u].ed <= Len(rooms[u])
  BY Quiet
<1>1. /\ new \in Room /\ new.doc = rooms[t][r].doc /\ new.disposed = rooms[t][r].disposed
      /\ new.state = state
  BY <1>0 DEF Room
<1>2. rooms' = [rooms EXCEPT ![t] = [rooms[t] EXCEPT ![r] = new]]
  BY <1>0
<1>3. ui' \in [Tabs -> PageState] /\ \A u \in Tabs : ui'[u].ed <= Len(rooms[u])
  <2>1. CASE ui' = ui
    BY <1>0, <2>1
  <2>2. CASE ui' = [ui EXCEPT ![t].ed = r]
    <3>0. ui[t] \in PageState
      BY <1>0
    <3>1. [ui[t] EXCEPT !.ed = r] \in PageState /\ [ui[t] EXCEPT !.ed = r].ed = r
      BY <1>0, <3>0 DEF PageState
    <3>2. ui' = [ui EXCEPT ![t] = [ui[t] EXCEPT !.ed = r]]
      BY <1>0, <2>2
    <3> QED BY <1>0, <3>1, <3>2
  <2> QED BY <2>1, <2>2
<1> HIDE DEF new
<1>4. /\ [rooms[t] EXCEPT ![r] = new] \in Seq(Room)
      /\ DOMAIN [rooms[t] EXCEPT ![r] = new] = DOMAIN rooms[t]
      /\ Len([rooms[t] EXCEPT ![r] = new]) = Len(rooms[t])
      /\ [rooms[t] EXCEPT ![r] = new][r] = new
      /\ \A s \in DOMAIN rooms[t] : s # r => [rooms[t] EXCEPT ![r] = new][s] = rooms[t][s]
  BY <1>0, <1>1, SetAt
<1>5. /\ rooms' \in [Tabs -> Seq(Room)]
      /\ rooms'[t] = [rooms[t] EXCEPT ![r] = new]
      /\ \A u \in Tabs : u # t => rooms'[u] = rooms[u]
  <2> DEFINE z == [rooms[t] EXCEPT ![r] = new]
  <2>1. z \in Seq(Room) /\ rooms' = [rooms EXCEPT ![t] = z]
    BY <1>2, <1>4
  <2> HIDE DEF z
  <2>2. rooms' \in [Tabs -> Seq(Room)] /\ rooms'[t] = z /\ \A u \in Tabs : u # t => rooms'[u] = rooms[u]
    BY <1>0, <2>1
  <2> QED BY <2>2 DEF z
<1>7. ASSUME NEW u \in Tabs, NEW s \in DOMAIN rooms[u]
      PROVE  /\ rooms'[u][s].doc = rooms[u][s].doc
             /\ rooms'[u][s].disposed = rooms[u][s].disposed
             /\ rooms[u][s].disposed => rooms'[u][s].state # "attached"
  <2>1. CASE u = t /\ s = r
    BY <2>1, <1>1, <1>4, <1>5
  <2>2. CASE ~(u = t /\ s = r)
    <3>1. rooms'[u][s] = rooms[u][s]
      BY <2>2, <1>4, <1>5
    <3> QED BY <3>1, Quiet
  <2> QED BY <2>1, <2>2
<1>8. \A u \in Tabs : DOMAIN rooms'[u] = DOMAIN rooms[u] /\ Len(rooms'[u]) = Len(rooms[u])
  BY <1>4, <1>5
<1>9. /\ resets \in [Tabs -> SUBSET Nat] /\ \A u \in Tabs : resets[u] \subseteq DOMAIN rooms[u]
      /\ asks \in [Docs -> Seq(Ask)] /\ markers \in [Docs -> Seq(Marker)]
  BY Quiet
<1>10. QuietStep
  BY <1>3, <1>5, <1>7, <1>8, <1>9 DEF QuietStep, docVars
<1> QED BY <1>10, QuietStepKeeps

LEMMA AttachKeeps ==
  ASSUME ConsoleInv, NEW t \in Tabs, NEW r \in DOMAIN rooms[t], Attach(t, r)
  PROVE  ConsoleInv'
<1>1. reloaded' \in [Tabs -> BOOLEAN]
  BY Quiet DEF Attach
<1> QED BY <1>1, RoomStep DEF Attach

(* A click renders nothing yet. *)
LEMMA ClickKeeps ==
  ASSUME ConsoleInv, NEW t \in Tabs, NEW new \in PageState, new.ed \in {0, ui[t].ed},
         Sets(t, new),
         resets' = resets \/ resets' = [resets EXCEPT ![t] = @ \cup ({seen[t].ed} \ {0})]
  PROVE  ConsoleInv'
<1>0. /\ ui \in [Tabs -> PageState] /\ rooms \in [Tabs -> Seq(Room)]
      /\ seen \in [Tabs -> PageState] /\ reloaded \in [Tabs -> BOOLEAN]
      /\ resets \in [Tabs -> SUBSET Nat]
      /\ DOMAIN rooms[t] = 1..Len(rooms[t]) /\ Len(rooms[t]) \in Nat
      /\ asks \in [Docs -> Seq(Ask)] /\ markers \in [Docs -> Seq(Marker)]
      /\ \A u \in Tabs :
           /\ ui[u].ed <= Len(rooms[u]) /\ seen[u].ed <= Len(rooms[u])
           /\ resets[u] \subseteq DOMAIN rooms[u]
           /\ \A r \in DOMAIN rooms[u] :
                rooms[u][r].disposed => rooms[u][r].state # "attached"
  BY Quiet
<1>1. ui' \in [Tabs -> PageState] /\ \A u \in Tabs : ui'[u].ed <= Len(rooms[u])
  BY <1>0 DEF Sets
<1>2. resets' \in [Tabs -> SUBSET Nat] /\ \A u \in Tabs : resets'[u] \subseteq DOMAIN rooms[u]
  <2>1. seen[t].ed \in Nat
    BY <1>0 DEF PageState
  <2> DEFINE more == resets[t] \cup ({seen[t].ed} \ {0})
  <2>2. more \in SUBSET Nat /\ more \subseteq DOMAIN rooms[t]
    BY <1>0, <2>1
  <2>3. CASE resets' = resets
    BY <1>0, <2>3
  <2>4. CASE resets' = [resets EXCEPT ![t] = more]
    <3> HIDE DEF more
    <3> QED BY <1>0, <2>2, <2>4
  <2> QED BY <1>0, <2>3, <2>4
<1>3. QuietStep
  BY <1>0, <1>1, <1>2 DEF QuietStep, Sets, docVars
<1> QED BY <1>3, QuietStepKeeps

LEMMA ShutType == Shut \in PageState /\ Shut.ed = 0
  BY ConsoleAssumption DEF ConsoleAssumption, Shut, PageState

LEMMA VisitorKeeps ==
  ASSUME ConsoleInv, NEW t \in Tabs,
         \/ \E a \in Askers : RunEditorDemo(t, a)
         \/ \E a \in Actors : SwitchActor(t, a)
         \/ ResetAll(t)
         \/ \E d \in Docs \cup {None} : Navigate(t, d)
  PROVE  ConsoleInv'
<1>1. ui[t] \in PageState /\ Askers \subseteq Actors
  BY Quiet, ConsoleAssumption DEF ConsoleAssumption
<1>2. ASSUME NEW a \in Askers, RunEditorDemo(t, a)
      PROVE  ConsoleInv'
  <2> DEFINE new == [ui[t] EXCEPT !.actor = a, !.demo = a]
  <2>1. new \in PageState /\ new.ed = ui[t].ed
    BY <1>1 DEF PageState
  <2>2. Sets(t, new) /\ UNCHANGED resets
    BY <1>2 DEF RunEditorDemo
  <2> HIDE DEF new
  <2> QED BY <2>1, <2>2, ClickKeeps
<1>3. ASSUME NEW a \in Actors, SwitchActor(t, a)
      PROVE  ConsoleInv'
  <2> DEFINE new == [ui[t] EXCEPT !.actor = a]
  <2>1. new \in PageState /\ new.ed = ui[t].ed
    BY <1>1 DEF PageState
  <2>2. Sets(t, new) /\ UNCHANGED resets
    BY <1>3 DEF SwitchActor
  <2> HIDE DEF new
  <2> QED BY <2>1, <2>2, ClickKeeps
<1>4. ASSUME ResetAll(t)
      PROVE  ConsoleInv'
  <2> DEFINE new == [ui[t] EXCEPT !.demo = None]
  <2>1. new \in PageState /\ new.ed = ui[t].ed
    BY <1>1 DEF PageState
  <2>2. Sets(t, new) /\ resets' = [resets EXCEPT ![t] = @ \cup ({seen[t].ed} \ {0})]
    BY <1>4 DEF ResetAll
  <2> HIDE DEF new
  <2> QED BY <2>1, <2>2, ClickKeeps
<1>5. ASSUME NEW d \in Docs \cup {None}, Navigate(t, d)
      PROVE  ConsoleInv'
  <2> DEFINE new == IF d = None THEN Shut ELSE [ui[t] EXCEPT !.doc = d]
  <2>1. new \in PageState /\ new.ed \in {0, ui[t].ed}
    BY <1>1, ShutType DEF PageState
  <2>2. Sets(t, new) /\ UNCHANGED resets
    BY <1>5 DEF Navigate
  <2> HIDE DEF new
  <2> QED BY <2>1, <2>2, ClickKeeps
<1> QED BY <1>2, <1>3, <1>4, <1>5

(* Paragraphs are deleted, one or all: none is forgotten. *)
LEMMA ClearedType ==
  /\ \A s \in Seq(Ask) : Cleared(s) \in Seq(Ask) /\ DOMAIN Cleared(s) = DOMAIN s
  /\ \A s \in Seq(Marker) : Cleared(s) \in Seq(Marker) /\ DOMAIN Cleared(s) = DOMAIN s
<1>1. ASSUME NEW s \in Seq(Ask)
      PROVE  Cleared(s) \in Seq(Ask) /\ DOMAIN Cleared(s) = DOMAIN s
  <2> DEFINE z == Cleared(s)
  <2>1. z = [k \in DOMAIN s |-> z[k]]
    BY DEF Cleared
  <2>2. ASSUME NEW k \in DOMAIN s
        PROVE  z[k] \in Ask
    <3>1. s[k] \in Ask
      BY DomainOf
    <3>2. z[k] = [s[k] EXCEPT !.there = FALSE]
      BY DEF Cleared
    <3> QED BY <3>1, <3>2 DEF Ask
  <2> HIDE DEF z
  <2>3. z \in Seq(Ask) /\ DOMAIN z = DOMAIN s
    BY <2>1, <2>2, Mapped
  <2> QED BY <2>3 DEF z
<1>2. ASSUME NEW s \in Seq(Marker)
      PROVE  Cleared(s) \in Seq(Marker) /\ DOMAIN Cleared(s) = DOMAIN s
  <2> DEFINE z == Cleared(s)
  <2>1. z = [k \in DOMAIN s |-> z[k]]
    BY DEF Cleared
  <2>2. ASSUME NEW k \in DOMAIN s
        PROVE  z[k] \in Marker
    <3>1. s[k] \in Marker
      BY DomainOf
    <3>2. z[k] = [s[k] EXCEPT !.there = FALSE]
      BY DEF Cleared
    <3> QED BY <3>1, <3>2 DEF Marker
  <2> HIDE DEF z
  <2>3. z \in Seq(Marker) /\ DOMAIN z = DOMAIN s
    BY <2>1, <2>2, Mapped
  <2> QED BY <2>3 DEF z
<1> QED BY <1>1, <1>2

LEMMA TextKeeps ==
  ASSUME ConsoleInv,
         asks' \in [Docs -> Seq(Ask)], markers' \in [Docs -> Seq(Marker)],
         \A d \in Docs : DOMAIN asks'[d] = DOMAIN asks[d] /\ DOMAIN markers'[d] = DOMAIN markers[d],
         resets' \in [Tabs -> SUBSET Nat], \A u \in Tabs : resets'[u] \subseteq resets[u],
         UNCHANGED << ui, seen, rooms, runs, effectRun, busy, bots, lock, relayed, reloaded >>
  PROVE  ConsoleInv'
<1>1. /\ ui \in [Tabs -> PageState] /\ rooms \in [Tabs -> Seq(Room)]
      /\ reloaded \in [Tabs -> BOOLEAN]
  BY DEF ConsoleInv, ConsoleTypeOK
<1>2. ASSUME NEW u \in Tabs
      PROVE  /\ ui[u].ed <= Len(rooms[u]) /\ resets[u] \subseteq DOMAIN rooms[u]
             /\ \A r \in DOMAIN rooms[u] :
                  rooms[u][r].disposed => rooms[u][r].state # "attached"
  BY Quiet
<1>3. QuietStep
  BY <1>1, <1>2 DEF QuietStep
<1> QED BY <1>3, QuietStepKeeps

LEMMA RestoreSeedKeeps ==
  ASSUME ConsoleInv, NEW t \in Tabs, NEW r \in resets[t], RestoreSeed(t, r)
  PROVE  ConsoleInv'
<1>1. /\ resets \in [Tabs -> SUBSET Nat]
      /\ asks \in [Docs -> Seq(Ask)] /\ markers \in [Docs -> Seq(Marker)]
      /\ rooms[t][r] \in Room
  BY Quiet
<1>2. resets' \in [Tabs -> SUBSET Nat] /\ \A u \in Tabs : resets'[u] \subseteq resets[u]
  BY <1>1 DEF RestoreSeed
<1>3. CASE UNCHANGED << asks, markers >>
  BY <1>1, <1>2, <1>3, TextKeeps DEF RestoreSeed
<1>4. CASE ~UNCHANGED << asks, markers >>
  <2> DEFINE d == rooms[t][r].doc
  <2>1. d \in Docs
    BY <1>1 DEF Room
  <2>2. /\ asks' = [asks EXCEPT ![d] = Cleared(@)]
        /\ markers' = [markers EXCEPT ![d] = Cleared(@)]
    BY <1>4 DEF RestoreSeed
  <2>3. /\ asks' \in [Docs -> Seq(Ask)] /\ markers' \in [Docs -> Seq(Marker)]
        /\ \A e \in Docs : DOMAIN asks'[e] = DOMAIN asks[e] /\ DOMAIN markers'[e] = DOMAIN markers[e]
    BY <1>1, <2>1, <2>2, ClearedType
  <2> QED BY <1>2, <2>3, TextKeeps DEF RestoreSeed
<1> QED BY <1>3, <1>4

LEMMA DeleteKeeps ==
  ASSUME ConsoleInv, NEW d \in Docs, NEW k, DeleteParagraph(d, k)
  PROVE  ConsoleInv'
<1>1. /\ asks \in [Docs -> Seq(Ask)] /\ markers \in [Docs -> Seq(Marker)]
      /\ resets \in [Tabs -> SUBSET Nat] /\ asks[d] \in Seq(Ask) /\ markers[d] \in Seq(Marker)
  BY DEF ConsoleInv, ConsoleTypeOK
<1>2. CASE /\ k \in DOMAIN asks[d]
           /\ asks' = [asks EXCEPT ![d][k].there = FALSE]
           /\ UNCHANGED markers
  <2> DEFINE ask == [asks[d][k] EXCEPT !.there = FALSE]
  <2>1. asks[d][k] \in Ask
    BY <1>1, <1>2, DomainOf
  <2>2. ask \in Ask /\ asks' = [asks EXCEPT ![d] = [asks[d] EXCEPT ![k] = ask]]
    BY <1>1, <1>2, <2>1 DEF Ask
  <2> HIDE DEF ask
  <2>3. /\ [asks[d] EXCEPT ![k] = ask] \in Seq(Ask)
        /\ DOMAIN [asks[d] EXCEPT ![k] = ask] = DOMAIN asks[d]
    BY <1>1, <1>2, <2>2, SetAt
  <2>4. asks' \in [Docs -> Seq(Ask)] /\ \A e \in Docs : DOMAIN asks'[e] = DOMAIN asks[e]
    BY <1>1, <2>2, <2>3
  <2> QED BY <1>1, <1>2, <2>4, TextKeeps DEF DeleteParagraph, tabVars
<1>3. CASE /\ k \in DOMAIN markers[d]
           /\ markers' = [markers EXCEPT ![d][k].there = FALSE]
           /\ UNCHANGED asks
  <2> DEFINE line == [markers[d][k] EXCEPT !.there = FALSE]
  <2>1. markers[d][k] \in Marker
    BY <1>1, <1>3, DomainOf
  <2>2. line \in Marker /\ markers' = [markers EXCEPT ![d] = [markers[d] EXCEPT ![k] = line]]
    BY <1>1, <1>3, <2>1 DEF Marker
  <2> HIDE DEF line
  <2>3. /\ [markers[d] EXCEPT ![k] = line] \in Seq(Marker)
        /\ DOMAIN [markers[d] EXCEPT ![k] = line] = DOMAIN markers[d]
    BY <1>1, <1>3, <2>2, SetAt
  <2>4. markers' \in [Docs -> Seq(Marker)] /\ \A e \in Docs : DOMAIN markers'[e] = DOMAIN markers[e]
    BY <1>1, <2>2, <2>3
  <2> QED BY <1>1, <1>3, <2>4, TextKeeps DEF DeleteParagraph, tabVars
<1> QED BY <1>2, <1>3 DEF DeleteParagraph

(* A page that goes takes all it ran with it, and the locks it held: the   *)
(* peers of other tabs hold theirs.                                        *)
LEMMA PageGoesKeeps ==
  ASSUME ConsoleInv, NEW t \in Tabs, NEW new \in PageState, new.ed = 0, PageGoes(t, new),
         reloaded' \in [Tabs -> BOOLEAN], relayed' \in BOOLEAN
  PROVE  ConsoleInv'
<1> DEFINE mine == << >>
<1>1. /\ ConsoleTypeOK
      /\ Shut \in PageState /\ Shut.ed = 0
  BY ShutType DEF ConsoleInv
<1>2. \A S : mine \in Seq(S)
  OBVIOUS
<1>3. Len(mine) = 0 /\ DOMAIN mine = {}
  OBVIOUS
<1>4. /\ ui' = [ui EXCEPT ![t] = new] /\ seen' = [seen EXCEPT ![t] = Shut]
      /\ rooms' = [rooms EXCEPT ![t] = mine] /\ runs' = [runs EXCEPT ![t] = mine]
      /\ effectRun' = [effectRun EXCEPT ![t] = 0] /\ busy' = [busy EXCEPT ![t] = FALSE]
      /\ bots' = [bots EXCEPT ![t] = mine] /\ resets' = [resets EXCEPT ![t] = {}]
      /\ lock' = [d \in Docs |-> IF lock[d][1] = t THEN Free ELSE lock[d]]
      /\ UNCHANGED << asks, markers >>
  BY DEF PageGoes
<1> HIDE DEF mine
<1>5. /\ ui' \in [Tabs -> PageState] /\ seen' \in [Tabs -> PageState]
      /\ rooms' \in [Tabs -> Seq(Room)] /\ runs' \in [Tabs -> Seq(Run)]
      /\ effectRun' \in [Tabs -> Nat] /\ busy' \in [Tabs -> BOOLEAN]
      /\ bots' \in [Tabs -> Seq(Bot)] /\ resets' \in [Tabs -> SUBSET Nat]
      /\ lock' \in [Docs -> (Tabs \X Nat) \cup {Free}]
      /\ asks' \in [Docs -> Seq(Ask)] /\ markers' \in [Docs -> Seq(Marker)]
  BY <1>1, <1>2, <1>4 DEF ConsoleTypeOK
<1>6. ConsoleTypeOK'
  BY <1>5 DEF ConsoleTypeOK
<1>7. /\ ui'[t] = new /\ seen'[t] = Shut /\ rooms'[t] = mine /\ runs'[t] = mine
      /\ bots'[t] = mine /\ resets'[t] = {}
  BY <1>1, <1>4 DEF ConsoleTypeOK
<1>8. ASSUME NEW u \in Tabs, u # t
      PROVE  /\ ui'[u] = ui[u] /\ seen'[u] = seen[u] /\ rooms'[u] = rooms[u]
             /\ runs'[u] = runs[u] /\ effectRun'[u] = effectRun[u]
             /\ bots'[u] = bots[u] /\ resets'[u] = resets[u]
  BY <1>1, <1>4, <1>8 DEF ConsoleTypeOK
<1>9. ASSUME NEW u \in Tabs
      PROVE  /\ RoomsNamed(u)' /\ RoomsOfPage(u)' /\ BotsOfPage(u)' /\ RunsOfPage(u)'
             /\ BlocksKnown(u)' /\ LockHeld(u)'
  <2>1. CASE u = t
    BY <1>1, <1>3, <1>7, <2>1
       DEF RoomsNamed, RoomsOfPage, BotsOfPage, RunsOfPage, BlocksKnown, LockHeld
  <2>2. CASE u # t
    <3>1. /\ RoomsNamed(u) /\ RoomsOfPage(u) /\ BotsOfPage(u) /\ RunsOfPage(u)
          /\ BlocksKnown(u) /\ LockHeld(u)
      BY DEF ConsoleInv
    <3>2. RoomsNamed(u)' /\ RoomsOfPage(u)' /\ BotsOfPage(u)' /\ RunsOfPage(u)'
      BY <1>8, <2>2, <3>1 DEF RoomsNamed, RoomsOfPage, BotsOfPage, RunsOfPage
    <3>3. BlocksKnown(u)'
      BY <1>4, <1>8, <2>2, <3>1 DEF BlocksKnown, Typing, RunDoc
    <3>4. ASSUME NEW b \in DOMAIN bots[u], Working(bots[u][b])
          PROVE  lock'[bots[u][b].doc] = << u, b >>
      <4>1. lock[bots[u][b].doc] = << u, b >> /\ bots[u][b].doc \in Docs
        BY <3>4, BotAt
      <4>2. lock[bots[u][b].doc][1] # t
        BY <4>1, <2>2
      <4> QED BY <1>4, <4>1, <4>2
    <3> QED BY <1>8, <2>2, <3>2, <3>3, <3>4 DEF LockHeld
  <2> QED BY <2>1, <2>2
<1>10. ASSUME NEW u \in Tabs, NEW v \in Tabs
       PROVE  BlocksApart(u, v)'
  <2>1. CASE u = t \/ v = t
    BY <1>3, <1>7, <2>1 DEF BlocksApart
  <2>2. CASE u # t /\ v # t
    <3>1. BlocksApart(u, v)
      BY DEF ConsoleInv
    <3> QED BY <1>8, <2>2, <3>1 DEF BlocksApart, Typing, RunDoc
  <2> QED BY <2>1, <2>2
<1> QED BY <1>6, <1>9, <1>10 DEF ConsoleInv

LEMMA PagesKeep ==
  ASSUME ConsoleInv, NEW t \in Tabs,
         \/ CloseTab(t)
         \/ \E d \in Docs, sync \in {"url", "off"} : LoadPage(t, d, sync)
         \/ \E r \in DOMAIN rooms[t] : RecoverStaleChunk(t, r)
  PROVE  ConsoleInv'
<1>1. /\ reloaded \in [Tabs -> BOOLEAN] /\ relayed \in BOOLEAN /\ ui[t] \in PageState
      /\ Shut \in PageState /\ Shut.ed = 0
  BY ShutType DEF ConsoleInv, ConsoleTypeOK
<1>2. ASSUME CloseTab(t)
      PROVE  ConsoleInv'
  <2>1. reloaded' \in [Tabs -> BOOLEAN] /\ relayed' \in BOOLEAN
    BY <1>1, <1>2 DEF CloseTab
  <2> QED BY <1>1, <1>2, <2>1, PageGoesKeeps DEF CloseTab
<1>3. ASSUME NEW d \in Docs \cup {None}
      PROVE  [Shut EXCEPT !.doc = d] \in PageState /\ [Shut EXCEPT !.doc = d].ed = 0
  BY <1>1 DEF PageState
<1>4. ASSUME NEW d \in Docs, NEW sync \in {"url", "off"}, LoadPage(t, d, sync)
      PROVE  ConsoleInv'
  <2>1. reloaded' \in [Tabs -> BOOLEAN] /\ relayed' \in BOOLEAN
    BY <1>1, <1>4 DEF LoadPage
  <2> QED BY <1>3, <1>4, <2>1, PageGoesKeeps DEF LoadPage
<1>5. ASSUME NEW r \in DOMAIN rooms[t], RecoverStaleChunk(t, r)
      PROVE  ConsoleInv'
  <2>1. CASE reloaded[t]
    <3>1. /\ rooms' = [rooms EXCEPT ![t][r].state = "failed"]
          /\ UNCHANGED << ui, seen, runs, effectRun, busy, bots, resets, reloaded, docVars >>
      BY <1>5, <2>1 DEF RecoverStaleChunk
    <3>2. reloaded' \in [Tabs -> BOOLEAN]
      BY <1>1, <3>1
    <3> QED BY <3>1, <3>2, RoomStep
  <2>2. CASE ~reloaded[t]
    <3>1. /\ PageGoes(t, [Shut EXCEPT !.doc = ui[t].doc])
          /\ reloaded' = [reloaded EXCEPT ![t] = TRUE] /\ UNCHANGED relayed
      BY <1>5, <2>2 DEF RecoverStaleChunk
    <3>2. ui[t].doc \in Docs \cup {None}
      BY <1>1 DEF PageState
    <3>3. reloaded' \in [Tabs -> BOOLEAN] /\ relayed' \in BOOLEAN
      BY <1>1, <3>1
    <3> QED BY <1>3, <3>1, <3>2, <3>3, PageGoesKeeps
  <2> QED BY <2>1, <2>2
<1> QED BY <1>2, <1>4, <1>5

-----------------------------------------------------------------------------
(* A commit.  Its cleanups reach all that is left of the last one: what    *)
(* they do not shut belongs to the page that is rendered.                  *)
LEMMA RoomsAfterFacts ==
  ASSUME ConsoleInv, NEW t \in Tabs, NEW changed \in BOOLEAN, NEW mounted \in BOOLEAN,
         NEW doc, mounted => doc \in Docs
  PROVE  LET z == RoomsAfter(t, changed, mounted, doc)
         IN  /\ z \in Seq(Room) /\ Len(z) \in Nat /\ Len(rooms[t]) <= Len(z)
             /\ \A r \in DOMAIN rooms[t] : r \in DOMAIN z /\ z[r].doc = rooms[t][r].doc
             /\ \A r \in DOMAIN z :
                  IF z[r].disposed THEN z[r].state # "attached"
                  ELSE r = Len(z) /\ z[r].doc = IF changed THEN doc ELSE seen[t].doc
<1> DEFINE n == Len(rooms[t])
           closed == IF changed /\ n > 0
                     THEN [rooms[t] EXCEPT ![n] = Closed(@)] ELSE rooms[t]
           new == [doc |-> doc, state |-> "importing", disposed |-> FALSE]
<1>1. /\ rooms[t] \in Seq(Room) /\ n \in Nat /\ DOMAIN rooms[t] = 1..n
      /\ \A r \in DOMAIN rooms[t] : rooms[t][r] \in Room
      /\ \A r \in DOMAIN rooms[t] :
           IF rooms[t][r].disposed THEN rooms[t][r].state # "attached"
           ELSE r = n /\ rooms[t][r].doc = seen[t].doc
  BY Quiet DEF ConsoleInv, RoomsOfPage
<1>2. /\ closed \in Seq(Room) /\ Len(closed) = n /\ DOMAIN closed = 1..n
      /\ \A r \in 1..n : closed[r].doc = rooms[t][r].doc
      /\ \A r \in 1..n :
           IF closed[r].disposed THEN closed[r].state # "attached"
           ELSE ~changed /\ r = n /\ closed[r].doc = seen[t].doc
  <2>1. CASE changed /\ n > 0
    <3>1. n \in DOMAIN rooms[t] /\ rooms[t][n] \in Room
      BY <1>1, <2>1
    <3>2. /\ Closed(rooms[t][n]) \in Room /\ Closed(rooms[t][n]).doc = rooms[t][n].doc
          /\ Closed(rooms[t][n]).disposed /\ Closed(rooms[t][n]).state # "attached"
      BY <3>1 DEF Closed, Room
    <3> DEFINE v == Closed(rooms[t][n])
    <3>3. closed = [rooms[t] EXCEPT ![n] = v]
      BY <2>1
    <3> HIDE DEF v, closed
    <3>4. /\ closed \in Seq(Room) /\ Len(closed) = n /\ DOMAIN closed = 1..n
          /\ closed[n] = v /\ \A r \in 1..n : r # n => closed[r] = rooms[t][r]
      BY <1>1, <3>1, <3>2, <3>3, SetAt DEF v
    <3>5. v.doc = rooms[t][n].doc /\ v.disposed /\ v.state # "attached"
      BY <3>2 DEF v
    <3> QED BY <1>1, <3>4, <3>5
  <2>2. CASE ~changed \/ n = 0
    <3>1. closed = rooms[t]
      BY <2>2
    <3> HIDE DEF closed
    <3> QED BY <1>1, <2>2, <3>1
  <2> QED BY <1>1, <2>1, <2>2
<1>3. RoomsAfter(t, changed, mounted, doc) =
        IF changed /\ mounted THEN Append(closed, new) ELSE closed
  BY DEF RoomsAfter, CurrentRoom
<1> HIDE DEF closed
<1>4. CASE changed /\ mounted
  <2>1. new \in Room /\ new.doc = doc /\ ~new.disposed
    BY <1>4 DEF Room
  <2> HIDE DEF new
  <2> DEFINE z == Append(closed, new)
  <2>2. /\ z \in Seq(Room) /\ DOMAIN z = 1..(n + 1) /\ Len(z) = n + 1
        /\ z[n + 1] = new /\ \A r \in 1..n : z[r] = closed[r]
    BY <1>2, <2>1, Grown
  <2>3. RoomsAfter(t, changed, mounted, doc) = z
    BY <1>3, <1>4
  <2> HIDE DEF z
  <2>4. ASSUME NEW r \in DOMAIN z
        PROVE  IF z[r].disposed THEN z[r].state # "attached"
               ELSE r = Len(z) /\ z[r].doc = doc
    <3>1. CASE r = n + 1
      BY <2>1, <2>2, <3>1
    <3>2. CASE r \in 1..n
      BY <1>2, <1>4, <2>2, <3>2
    <3> QED BY <1>1, <2>2, <3>1, <3>2
  <2>5. \A r \in DOMAIN rooms[t] : r \in DOMAIN z /\ z[r].doc = rooms[t][r].doc
    BY <1>1, <1>2, <2>2
  <2>6. Len(z) \in Nat /\ n <= Len(z)
    BY <1>1, <2>2
  <2> QED BY <1>4, <2>2, <2>3, <2>4, <2>5, <2>6
<1>5. CASE ~(changed /\ mounted)
  <2>1. RoomsAfter(t, changed, mounted, doc) = closed
    BY <1>3, <1>5
  <2> QED BY <1>1, <1>2, <2>1
<1> QED BY <1>4, <1>5

LEMMA BotsAfterFacts ==
  ASSUME ConsoleInv, NEW t \in Tabs, NEW changed \in BOOLEAN, NEW mounted \in BOOLEAN,
         NEW doc, mounted => doc \in Docs
  PROVE  LET z == BotsAfter(t, changed, mounted, doc)
         IN  /\ z \in Seq(Bot)
             /\ \A b \in DOMAIN z :
                  /\ IF z[b].aborted THEN ~z[b].attached
                     ELSE b = Len(z) /\ z[b].doc = IF changed THEN doc ELSE seen[t].doc
                  /\ Working(z[b]) =>
                       /\ b \in DOMAIN bots[t] /\ bots[t][b].doc = z[b].doc
                       /\ bots[t][b].at = z[b].at /\ bots[t][b].block = z[b].block
<1> DEFINE stopped(b) == [b EXCEPT !.aborted = TRUE, !.attached = FALSE,
                                   !.at = IF @ = "queued" THEN "over" ELSE @]
           rest == IF changed THEN [i \in DOMAIN bots[t] |-> stopped(bots[t][i])] ELSE bots[t]
           new == [doc |-> doc, at |-> "queued", attached |-> FALSE,
                   aborted |-> FALSE, block |-> 0]
           Fine(b, i) == /\ i \in DOMAIN bots[t] /\ bots[t][i].doc = b.doc
                         /\ Working(b) => bots[t][i].at = b.at /\ bots[t][i].block = b.block
<1>1. /\ bots[t] \in Seq(Bot) /\ Len(bots[t]) \in Nat /\ DOMAIN bots[t] = 1..Len(bots[t])
      /\ \A b \in DOMAIN bots[t] : bots[t][b] \in Bot
      /\ \A b \in DOMAIN bots[t] :
           IF bots[t][b].aborted THEN ~bots[t][b].attached
           ELSE b = Len(bots[t]) /\ bots[t][b].doc = seen[t].doc
  <2>1. bots[t] \in Seq(Bot)
    BY DEF ConsoleInv, ConsoleTypeOK
  <2> QED BY <2>1, DomainOf DEF ConsoleInv, BotsOfPage
<1>2. /\ rest \in Seq(Bot) /\ Len(rest) = Len(bots[t]) /\ DOMAIN rest = DOMAIN bots[t]
      /\ \A b \in DOMAIN rest :
           /\ Fine(rest[b], b)
           /\ IF rest[b].aborted THEN ~rest[b].attached
              ELSE ~changed /\ b = Len(rest) /\ rest[b].doc = seen[t].doc
  <2>1. CASE changed
    <3>1. rest = [i \in DOMAIN bots[t] |-> stopped(bots[t][i])]
      BY <2>1
    <3>2. ASSUME NEW b \in DOMAIN bots[t]
          PROVE  /\ rest[b] \in Bot /\ Fine(rest[b], b)
                 /\ rest[b].aborted /\ ~rest[b].attached
      <4>1. rest[b] = [bots[t][b] EXCEPT !.aborted = TRUE, !.attached = FALSE,
                         !.at = IF bots[t][b].at = "queued" THEN "over" ELSE bots[t][b].at]
        BY <1>1, <3>1 DEF Bot
      <4> HIDE DEF rest
      <4> QED BY <1>1, <4>1 DEF Bot, Working
    <3>3. rest = [i \in DOMAIN bots[t] |-> rest[i]]
      BY <3>1
    <3> HIDE DEF rest, Fine
    <3>4. rest \in Seq(Bot) /\ DOMAIN rest = DOMAIN bots[t] /\ Len(rest) = Len(bots[t])
      BY <1>1, <3>2, <3>3, Mapped
    <3> QED BY <3>2, <3>4
  <2>2. CASE ~changed
    <3>1. rest = bots[t]
      BY <2>2
    <3> HIDE DEF rest
    <3> QED BY <1>1, <2>2, <3>1
  <2> QED BY <2>1, <2>2
<1>3. BotsAfter(t, changed, mounted, doc) =
        IF changed /\ mounted /\ ~relayed THEN Append(rest, new) ELSE rest
  BY DEF BotsAfter
<1> HIDE DEF rest
<1>4. CASE changed /\ mounted /\ ~relayed
  <2>1. new \in Bot /\ new.doc = doc /\ ~new.aborted /\ ~Working(new)
    BY <1>4 DEF Bot, Working
  <2> HIDE DEF new
  <2> DEFINE z == Append(rest, new)
             n == Len(bots[t])
  <2>2. /\ z \in Seq(Bot) /\ DOMAIN z = 1..(n + 1) /\ Len(z) = n + 1
        /\ z[n + 1] = new /\ \A b \in 1..n : z[b] = rest[b]
    BY <1>1, <1>2, <2>1, Grown
  <2>3. BotsAfter(t, changed, mounted, doc) = z
    BY <1>3, <1>4
  <2> HIDE DEF z
  <2>4. ASSUME NEW b \in DOMAIN z
        PROVE  /\ IF z[b].aborted THEN ~z[b].attached
                  ELSE b = Len(z) /\ z[b].doc = doc
               /\ Working(z[b]) =>
                    /\ b \in DOMAIN bots[t] /\ bots[t][b].doc = z[b].doc
                    /\ bots[t][b].at = z[b].at /\ bots[t][b].block = z[b].block
    <3>1. CASE b = n + 1
      BY <2>1, <2>2, <3>1
    <3>2. CASE b \in 1..n
      BY <1>1, <1>2, <1>4, <2>2, <3>2
    <3> QED BY <1>1, <2>2, <3>1, <3>2
  <2> QED BY <1>4, <2>2, <2>3, <2>4, ZenonT(40)
<1>5. CASE ~(changed /\ mounted /\ ~relayed)
  <2>1. BotsAfter(t, changed, mounted, doc) = rest
    BY <1>3, <1>5
  <2> QED BY <1>1, <1>2, <2>1
<1> QED BY <1>4, <1>5

LEMMA RunsAfterFacts ==
  ASSUME ConsoleInv, NEW t \in Tabs, NEW changed \in BOOLEAN, NEW mounted \in BOOLEAN,
         NEW start \in BOOLEAN, start => ui[t].demo # None
  PROVE  LET z == RunsAfter(t, changed, mounted, start)
         IN  /\ z \in Seq(Run)
             /\ \A i \in DOMAIN z :
                  \/ /\ i \in DOMAIN runs[t]
                     /\ z[i].room = runs[t][i].room /\ z[i].at = runs[t][i].at
                     /\ z[i].block = runs[t][i].block /\ z[i].lost = runs[t][i].lost
                     /\ ~z[i].aborted =>
                          ~runs[t][i].aborted /\ ~(changed /\ i = effectRun[t])
                  \/ /\ start /\ i = Len(runs[t]) + 1
                     /\ z[i].room = ui[t].ed /\ z[i].at = "loading"
<1> DEFINE stopped(i) == IF changed /\ i = effectRun[t] THEN TRUE ELSE runs[t][i].aborted
           rest == [i \in DOMAIN runs[t] |->
                      [runs[t][i] EXCEPT !.aborted = stopped(i), !.own = @ /\ mounted]]
           new == [room |-> ui[t].ed, asker |-> ui[t].demo, at |-> "loading",
                   block |-> 0, aborted |-> FALSE, own |-> TRUE, lost |-> FALSE]
           n == Len(runs[t])
           Same(run, i) == /\ i \in DOMAIN runs[t]
                           /\ run.room = runs[t][i].room /\ run.at = runs[t][i].at
                           /\ run.block = runs[t][i].block /\ run.lost = runs[t][i].lost
                           /\ ~run.aborted =>
                                ~runs[t][i].aborted /\ ~(changed /\ i = effectRun[t])
<1>1. /\ runs[t] \in Seq(Run) /\ n \in Nat /\ DOMAIN runs[t] = 1..n
      /\ \A i \in DOMAIN runs[t] : runs[t][i] \in Run
      /\ ui[t] \in PageState
  <2>1. runs[t] \in Seq(Run) /\ ui[t] \in PageState
    BY DEF ConsoleInv, ConsoleTypeOK
  <2> QED BY <2>1, DomainOf
<1>2. /\ rest \in Seq(Run) /\ Len(rest) = n /\ DOMAIN rest = DOMAIN runs[t]
      /\ \A i \in DOMAIN rest : Same(rest[i], i)
  <2>1. ASSUME NEW i \in DOMAIN runs[t]
        PROVE  rest[i] \in Run /\ Same(rest[i], i)
    <3>1. rest[i] = [runs[t][i] EXCEPT !.aborted = stopped(i), !.own = @ /\ mounted]
      OBVIOUS
    <3>2. stopped(i) \in BOOLEAN /\ (runs[t][i].own /\ mounted) \in BOOLEAN
      BY <1>1 DEF Run
    <3>3. ~stopped(i) => ~runs[t][i].aborted /\ ~(changed /\ i = effectRun[t])
      OBVIOUS
    <3> HIDE DEF stopped, rest
    <3>4. /\ rest[i] \in Run /\ rest[i].room = runs[t][i].room /\ rest[i].at = runs[t][i].at
          /\ rest[i].block = runs[t][i].block /\ rest[i].lost = runs[t][i].lost
          /\ rest[i].aborted = stopped(i)
      BY <1>1, <3>1, <3>2 DEF Run
    <3> QED BY <3>3, <3>4
  <2>2. rest = [i \in DOMAIN runs[t] |-> rest[i]]
    OBVIOUS
  <2> HIDE DEF rest, Same
  <2>3. rest \in Seq(Run) /\ DOMAIN rest = DOMAIN runs[t] /\ Len(rest) = n
    BY <1>1, <2>1, <2>2, Mapped
  <2> QED BY <2>1, <2>3
<1>3. RunsAfter(t, changed, mounted, start) = IF start THEN Append(rest, new) ELSE rest
  BY DEF RunsAfter
<1> HIDE DEF rest
<1>4. CASE start
  <2>1. new \in Run /\ new.room = ui[t].ed /\ new.at = "loading"
    <3>1. ui[t].ed \in Nat /\ ui[t].demo \in Askers
      BY <1>1, <1>4 DEF PageState
    <3> QED BY <3>1 DEF Run
  <2> HIDE DEF new
  <2> DEFINE z == Append(rest, new)
  <2>2. /\ z \in Seq(Run) /\ DOMAIN z = 1..(n + 1)
        /\ z[n + 1] = new /\ \A i \in 1..n : z[i] = rest[i]
    <3>1. rest \in Seq(Run) /\ Len(rest) = n
      BY <1>2
    <3>2. /\ z \in Seq(Run) /\ DOMAIN z = 1..(Len(rest) + 1)
          /\ z[Len(rest) + 1] = new /\ \A i \in DOMAIN rest : z[i] = rest[i]
          /\ DOMAIN rest = 1..Len(rest)
      BY <2>1, <3>1, Grown
    <3> QED BY <3>1, <3>2
  <2>3. RunsAfter(t, changed, mounted, start) = z
    BY <1>3, <1>4
  <2> HIDE DEF z
  <2>4. ASSUME NEW i \in DOMAIN z
        PROVE  \/ Same(z[i], i)
               \/ start /\ i = n + 1 /\ z[i].room = ui[t].ed /\ z[i].at = "loading"
    <3> HIDE DEF Same
    <3>1. CASE i = n + 1
      BY <1>4, <2>1, <2>2, <3>1
    <3>2. CASE i \in 1..n
      BY <1>1, <1>2, <2>2, <3>2
    <3> QED BY <1>1, <2>2, <3>1, <3>2
  <2> QED BY <2>2, <2>3, <2>4
<1>5. CASE ~start
  <2>1. RunsAfter(t, changed, mounted, start) = rest
    BY <1>3, <1>5
  <2> QED BY <1>1, <1>2, <2>1
<1> QED BY <1>4, <1>5

LEMMA RenderKeeps ==
  ASSUME ConsoleInv, NEW t \in Tabs, Render(t)
  PROVE  ConsoleInv'
<1> DEFINE now == ui[t]
           was == seen[t]
           mounted == now.doc # None
           moved == << now.actor, now.doc >> # << was.actor, was.doc >>
           demoDeps == << now.demo, now.actor, now.ed >> # << was.demo, was.actor, was.ed >>
           start == /\ demoDeps /\ mounted
                    /\ now.demo # None /\ now.actor = now.demo /\ now.ed # 0
                    /\ ~busy[t] \/ effectRun[t] # 0
           left2 == [now EXCEPT !.ed = IF moved THEN 0 ELSE @]
           rooms2 == RoomsAfter(t, moved, mounted, now.doc)
           elsewhere == now.doc # was.doc
           cleanup == demoDeps \/ ~mounted
           bots2 == BotsAfter(t, elsewhere, mounted, now.doc)
           runs2 == RunsAfter(t, cleanup, mounted, start)
           effect2 == IF start THEN Len(runs[t]) + 1
                      ELSE IF cleanup THEN 0 ELSE effectRun[t]
<1>1. /\ ui' = [ui EXCEPT ![t] = left2] /\ seen' = [seen EXCEPT ![t] = now]
      /\ rooms' = [rooms EXCEPT ![t] = rooms2] /\ bots' = [bots EXCEPT ![t] = bots2]
      /\ runs' = [runs EXCEPT ![t] = runs2] /\ effectRun' = [effectRun EXCEPT ![t] = effect2]
      /\ busy' \in [Tabs -> BOOLEAN]
      /\ UNCHANGED << resets, reloaded, lock, relayed, asks, markers >>
  <2>1. busy \in [Tabs -> BOOLEAN] /\ ui \in [Tabs -> PageState] /\ effectRun \in [Tabs -> Nat]
    BY DEF ConsoleInv, ConsoleTypeOK
  <2>2. busy' \in [Tabs -> BOOLEAN]
    BY <2>1 DEF Render
  <2> QED BY <2>1, <2>2 DEF Render, docVars
<1>2. /\ now \in PageState /\ was \in PageState /\ now.ed <= Len(rooms[t])
      /\ left2 \in PageState /\ left2.ed \in {0, now.ed}
      /\ mounted => now.doc \in Docs
      /\ mounted \in BOOLEAN /\ moved \in BOOLEAN /\ demoDeps \in BOOLEAN /\ start \in BOOLEAN
      /\ start => now.demo # None
  <2>1. now \in PageState /\ was \in PageState /\ now.ed <= Len(rooms[t])
    BY Quiet
  <2>2. mounted => now.doc \in Docs
    BY <2>1 DEF PageState
  <2>3. left2 \in PageState /\ left2.ed \in {0, now.ed}
    <3>1. (IF moved THEN 0 ELSE now.ed) \in Nat
      BY <2>1 DEF PageState
    <3> QED BY <2>1, <3>1 DEF PageState
  <2> QED BY <2>1, <2>2, <2>3
<1>3. /\ rooms2 \in Seq(Room) /\ Len(rooms2) \in Nat /\ Len(rooms[t]) <= Len(rooms2)
      /\ \A r \in DOMAIN rooms[t] : r \in DOMAIN rooms2 /\ rooms2[r].doc = rooms[t][r].doc
      /\ \A r \in DOMAIN rooms2 :
           IF rooms2[r].disposed THEN rooms2[r].state # "attached"
           ELSE r = Len(rooms2) /\ rooms2[r].doc = IF moved THEN now.doc ELSE was.doc
  <2> HIDE DEF moved, mounted
  <2> QED BY <1>2, RoomsAfterFacts
<1>4. /\ bots2 \in Seq(Bot)
      /\ \A b \in DOMAIN bots2 :
           /\ IF bots2[b].aborted THEN ~bots2[b].attached
              ELSE b = Len(bots2) /\ bots2[b].doc = now.doc
           /\ Working(bots2[b]) =>
                /\ b \in DOMAIN bots[t] /\ bots[t][b].doc = bots2[b].doc
                /\ bots[t][b].at = bots2[b].at /\ bots[t][b].block = bots2[b].block
  <2>1. elsewhere \in BOOLEAN /\ (~elsewhere => was.doc = now.doc)
    OBVIOUS
  <2> HIDE DEF mounted, elsewhere
  <2>2. /\ bots2 \in Seq(Bot)
        /\ \A b \in DOMAIN bots2 :
             /\ IF bots2[b].aborted THEN ~bots2[b].attached
                ELSE b = Len(bots2) /\ bots2[b].doc = IF elsewhere THEN now.doc ELSE was.doc
             /\ Working(bots2[b]) =>
                  /\ b \in DOMAIN bots[t] /\ bots[t][b].doc = bots2[b].doc
                  /\ bots[t][b].at = bots2[b].at /\ bots[t][b].block = bots2[b].block
    BY <1>2, <2>1, BotsAfterFacts
  <2> QED BY <2>1, <2>2
<1>5. /\ runs2 \in Seq(Run)
      /\ \A i \in DOMAIN runs2 :
           \/ /\ i \in DOMAIN runs[t]
              /\ runs2[i].room = runs[t][i].room /\ runs2[i].at = runs[t][i].at
              /\ runs2[i].block = runs[t][i].block
              /\ ~runs2[i].aborted =>
                   ~runs[t][i].aborted /\ ~(cleanup /\ i = effectRun[t])
           \/ /\ start /\ i = Len(runs[t]) + 1
              /\ runs2[i].room = now.ed /\ runs2[i].at = "loading"
  <2>1. cleanup \in BOOLEAN
    OBVIOUS
  <2> HIDE DEF mounted, cleanup, start
  <2> QED BY <1>2, <2>1, RunsAfterFacts
<1>6. cleanup \/ now.ed = was.ed
  OBVIOUS
<1>7. start => cleanup /\ now.ed # 0
  OBVIOUS
<1>8. moved \/ now.doc = was.doc
  OBVIOUS
<1>9. effect2 \in Nat
  <2>1. effectRun[t] \in Nat /\ Len(runs[t]) \in Nat
    BY DEF ConsoleInv, ConsoleTypeOK
  <2> QED BY <2>1
<1> HIDE DEF mounted, moved, demoDeps, elsewhere, cleanup, start, left2, rooms2, bots2, runs2
<1>10. /\ ui \in [Tabs -> PageState] /\ seen \in [Tabs -> PageState]
       /\ rooms \in [Tabs -> Seq(Room)] /\ runs \in [Tabs -> Seq(Run)]
       /\ bots \in [Tabs -> Seq(Bot)] /\ effectRun \in [Tabs -> Nat]
  BY DEF ConsoleInv, ConsoleTypeOK
<1>11. /\ ui'[t] = left2 /\ seen'[t] = now /\ rooms'[t] = rooms2 /\ bots'[t] = bots2
       /\ runs'[t] = runs2 /\ effectRun'[t] = effect2
  BY <1>1, <1>10
<1>12. ASSUME NEW u \in Tabs, u # t
       PROVE  /\ ui'[u] = ui[u] /\ seen'[u] = seen[u] /\ rooms'[u] = rooms[u]
              /\ runs'[u] = runs[u] /\ effectRun'[u] = effectRun[u] /\ bots'[u] = bots[u]
  BY <1>1, <1>10, <1>12
<1>13. ConsoleTypeOK'
  <2>1. /\ ui' \in [Tabs -> PageState] /\ seen' \in [Tabs -> PageState]
        /\ rooms' \in [Tabs -> Seq(Room)] /\ runs' \in [Tabs -> Seq(Run)]
        /\ bots' \in [Tabs -> Seq(Bot)] /\ effectRun' \in [Tabs -> Nat]
    <3> HIDE DEF effect2
    <3> QED BY <1>1, <1>2, <1>3, <1>4, <1>5, <1>9, <1>10
  <2> QED BY <1>1, <2>1 DEF ConsoleInv, ConsoleTypeOK
<1>14. /\ DOMAIN rooms[t] = 1..Len(rooms[t]) /\ Len(rooms[t]) \in Nat
       /\ DOMAIN rooms2 = 1..Len(rooms2) /\ now.ed \in Nat
  BY <1>2, <1>3, Quiet DEF PageState
<1>15. ASSUME NEW i \in DOMAIN runs2
       PROVE  runs2[i].room \in DOMAIN rooms[t]
  <2>1. CASE i \in DOMAIN runs[t] /\ runs2[i].room = runs[t][i].room
    BY <2>1, RunAt
  <2>2. CASE start /\ runs2[i].room = now.ed
    BY <1>2, <1>7, <1>14, <2>2
  <2> QED BY <1>5, <2>1, <2>2
<1>16. RoomsNamed(t)'
  <2>1. left2.ed <= Len(rooms2) /\ now.ed <= Len(rooms2)
    BY <1>2, <1>3, <1>14
  <2>2. DOMAIN rooms[t] \subseteq DOMAIN rooms2 /\ resets[t] \subseteq DOMAIN rooms[t]
    BY <1>3, Quiet
  <2> QED BY <1>1, <1>11, <1>15, <2>1, <2>2 DEF RoomsNamed
<1>17. RoomsOfPage(t)'
  <2>1. ASSUME NEW r \in DOMAIN rooms2
        PROVE  IF rooms2[r].disposed THEN rooms2[r].state # "attached"
               ELSE r = Len(rooms2) /\ rooms2[r].doc = now.doc
    BY <1>3, <1>8
  <2> QED BY <1>11, <2>1 DEF RoomsOfPage
<1>18. BotsOfPage(t)'
  BY <1>4, <1>11 DEF BotsOfPage
<1>19. RunsOfPage(t)'
  <2>1. ASSUME NEW i \in DOMAIN runs2, ~runs2[i].aborted
        PROVE  i = effect2 /\ runs2[i].room = now.ed
    <3>1. CASE start /\ i = Len(runs[t]) + 1 /\ runs2[i].room = now.ed
      BY <3>1
    <3>2. CASE /\ i \in DOMAIN runs[t] /\ runs2[i].room = runs[t][i].room
               /\ ~runs[t][i].aborted /\ ~(cleanup /\ i = effectRun[t])
      <4>1. i = effectRun[t] /\ runs[t][i].room = was.ed
        BY <3>2, RunAt
      <4> QED BY <1>6, <1>7, <3>2, <4>1
    <3> QED BY <1>5, <2>1, <3>1, <3>2
  <2> QED BY <1>11, <2>1 DEF RunsOfPage
<1>20. LockHeld(t)'
  <2>1. ASSUME NEW b \in DOMAIN bots2, Working(bots2[b])
        PROVE  lock[bots2[b].doc] = << t, b >>
    <3>1. /\ b \in DOMAIN bots[t] /\ bots[t][b].doc = bots2[b].doc
          /\ bots[t][b].at = bots2[b].at
      BY <1>4, <2>1
    <3>2. Working(bots[t][b])
      BY <2>1, <3>1 DEF Working
    <3> QED BY <3>1, <3>2, BotAt
  <2> QED BY <1>1, <1>11, <2>1 DEF LockHeld
<1>21. ASSUME NEW i \in DOMAIN runs2, runs2[i].at = "typing"
       PROVE  /\ Typing(t, i) /\ runs2[i].block = runs[t][i].block
              /\ RunDoc(t, i)' = RunDoc(t, i)
  <2>1. i \in DOMAIN runs[t] /\ runs2[i].room = runs[t][i].room
        /\ runs2[i].at = runs[t][i].at /\ runs2[i].block = runs[t][i].block
    BY <1>5, <1>21
  <2>2. runs[t][i].room \in DOMAIN rooms[t]
    BY <2>1, RunAt
  <2>3. rooms2[runs[t][i].room].doc = rooms[t][runs[t][i].room].doc
    BY <1>3, <2>2
  <2> QED BY <1>11, <1>21, <2>1, <2>3 DEF Typing, RunDoc
<1>22. ASSUME NEW u \in Tabs, NEW i \in DOMAIN runs'[u], Typing(u, i)'
       PROVE  /\ Typing(u, i) /\ runs'[u][i].block = runs[u][i].block
              /\ RunDoc(u, i)' = RunDoc(u, i)
  <2>1. CASE u = t
    BY <1>11, <1>21, <1>22, <2>1 DEF Typing
  <2>2. CASE u # t
    BY <1>12, <1>22, <2>2 DEF Typing, RunDoc
  <2> QED BY <2>1, <2>2
<1>23. BlocksKnown(t)'
  <2>1. ASSUME NEW i \in DOMAIN runs'[t], Typing(t, i)'
        PROVE  (runs[t][i].block \in DOMAIN asks[RunDoc(t, i)])'
    <3>1. Typing(t, i) /\ runs'[t][i].block = runs[t][i].block /\ RunDoc(t, i)' = RunDoc(t, i)
      BY <1>22, <2>1
    <3>2. runs[t][i].block \in DOMAIN asks[RunDoc(t, i)]
      BY <3>1, RunAt DEF Typing
    <3> QED BY <1>1, <3>1, <3>2
  <2>2. ASSUME NEW b \in DOMAIN bots2, bots2[b].at = "writing"
        PROVE  bots2[b].block \in DOMAIN markers[bots2[b].doc]
    <3>1. /\ b \in DOMAIN bots[t] /\ bots[t][b].doc = bots2[b].doc
          /\ bots[t][b].at = "writing" /\ bots[t][b].block = bots2[b].block
      BY <1>4, <2>2 DEF Working
    <3> QED BY <3>1 DEF ConsoleInv, BlocksKnown
  <2> QED BY <1>1, <1>11, <2>1, <2>2 DEF BlocksKnown
<1>24. ASSUME NEW u \in Tabs, NEW v \in Tabs
       PROVE  BlocksApart(u, v)'
  <2>1. ASSUME NEW i \in DOMAIN runs'[u], NEW j \in DOMAIN runs'[v],
               Typing(u, i)', Typing(v, j)', RunDoc(u, i)' = RunDoc(v, j)',
               runs'[u][i].block = runs'[v][j].block
        PROVE  u = v /\ i = j
    <3>1. Typing(u, i) /\ runs'[u][i].block = runs[u][i].block /\ RunDoc(u, i)' = RunDoc(u, i)
      BY <1>22, <2>1
    <3>2. Typing(v, j) /\ runs'[v][j].block = runs[v][j].block /\ RunDoc(v, j)' = RunDoc(v, j)
      BY <1>22, <2>1
    <3>3. BlocksApart(u, v)
      BY DEF ConsoleInv
    <3> QED BY <2>1, <3>1, <3>2, <3>3 DEF BlocksApart, Typing
  <2> QED BY <2>1 DEF BlocksApart
<1>25. ASSUME NEW u \in Tabs, u # t
       PROVE  /\ RoomsNamed(u)' /\ RoomsOfPage(u)' /\ BotsOfPage(u)' /\ RunsOfPage(u)'
              /\ LockHeld(u)' /\ BlocksKnown(u)'
  <2>1. /\ RoomsNamed(u) /\ RoomsOfPage(u) /\ BotsOfPage(u) /\ RunsOfPage(u)
        /\ LockHeld(u) /\ BlocksKnown(u)
    BY DEF ConsoleInv
  <2>2. RoomsNamed(u)' /\ RoomsOfPage(u)' /\ BotsOfPage(u)' /\ RunsOfPage(u)' /\ LockHeld(u)'
    BY <1>1, <1>12, <1>25, <2>1 DEF RoomsNamed, RoomsOfPage, BotsOfPage, RunsOfPage, LockHeld
  <2>3. BlocksKnown(u)'
    BY <1>1, <1>12, <1>25, <2>1 DEF BlocksKnown, Typing, RunDoc
  <2> QED BY <2>2, <2>3
<1> QED BY <1>13, <1>16, <1>17, <1>18, <1>19, <1>20, <1>23, <1>24, <1>25 DEF ConsoleInv

-----------------------------------------------------------------------------
(* Steps of the store alone. *)
LEMMA StillKeeps ==
  ASSUME ConsoleInv, UNCHANGED consoleVars
  PROVE  ConsoleInv'
<1>1. ConsoleTypeOK'
  BY DEF ConsoleInv, ConsoleTypeOK, consoleVars
<1>2. ASSUME NEW t \in Tabs
      PROVE  /\ RoomsNamed(t)' /\ RoomsOfPage(t)' /\ BotsOfPage(t)' /\ RunsOfPage(t)'
             /\ LockHeld(t)' /\ BlocksKnown(t)'
             /\ \A u \in Tabs : BlocksApart(t, u)'
  BY DEF ConsoleInv, consoleVars, RoomsNamed, RoomsOfPage, BotsOfPage, RunsOfPage, LockHeld,
         BlocksKnown, BlocksApart, Typing, RunDoc
<1> QED BY <1>1, <1>2 DEF ConsoleInv

LEMMA SpendingKeeps ==
  ASSUME Kept, NEW kind \in Kinds, Spending(kind)
  PROVE  Kept'
<1>1. kind # "docs" /\ kind \in DOMAIN left
  BY DEF Kept, Kinds
<1>2. /\ DOMAIN left' = DOMAIN left /\ left'["docs"] = left["docs"]
  BY <1>1 DEF Spending, Kept
<1> QED BY <1>2 DEF Kept

LEMMA WorksKeeps ==
  ASSUME ConsoleInv, NEW t \in Tabs, Works(t)
  PROVE  ConsoleInv'
<1>1. CASE Render(t)
  BY <1>1, RenderKeeps
<1>2. CASE \E r \in DOMAIN rooms[t] : Attach(t, r)
  BY <1>2, AttachKeeps
<1>3. CASE \E i \in DOMAIN runs[t] : LoadRun(t, i) \/ Settle(t, i) \/ TypeAsk(t, i) \/ EndWatch(t, i)
  BY <1>3, LoadRunKeeps, SettleKeeps, TypeAskKeeps, EndWatchKeeps
<1>4. CASE \E b \in DOMAIN bots[t] :
             GrantLock(t, b) \/ LoadBot(t, b) \/ StartLine(t, b) \/ BotTypes(t, b)
  BY <1>4, GrantLockKeeps, LoadBotKeeps, StartLineKeeps, BotTypesKeeps
<1>5. CASE \E r \in resets[t] : RestoreSeed(t, r)
  BY <1>5, RestoreSeedKeeps
<1> QED BY <1>1, <1>2, <1>3, <1>4, <1>5 DEF Works

LEMMA ConsoleInvInit == Init => ConsoleInv /\ Kept
<1> SUFFICES ASSUME Init PROVE ConsoleInv /\ Kept
  OBVIOUS
<1>1. Kept
  BY BudgetsAssumption DEF Init, Kept
<1>2. relayed \in BOOLEAN
  BY BudgetsAssumption DEF Init
<1>3. ConsoleTypeOK
  <2>1. /\ << >> \in Seq(Room) /\ << >> \in Seq(Run) /\ << >> \in Seq(Bot)
        /\ << >> \in Seq(Ask) /\ << >> \in Seq(Marker)
    OBVIOUS
  <2>2. /\ ui \in [Tabs -> PageState] /\ seen \in [Tabs -> PageState]
    BY ShutType DEF Init, ConsoleInit
  <2>3. /\ effectRun \in [Tabs -> Nat] /\ busy \in [Tabs -> BOOLEAN]
        /\ reloaded \in [Tabs -> BOOLEAN] /\ resets \in [Tabs -> SUBSET Nat]
        /\ lock \in [Docs -> (Tabs \X Nat) \cup {Free}]
    BY DEF Init, ConsoleInit
  <2>4. /\ rooms \in [Tabs -> Seq(Room)] /\ runs \in [Tabs -> Seq(Run)]
        /\ bots \in [Tabs -> Seq(Bot)] /\ asks \in [Docs -> Seq(Ask)]
        /\ markers \in [Docs -> Seq(Marker)]
    BY <2>1 DEF Init, ConsoleInit
  <2> QED BY <1>2, <2>2, <2>3, <2>4 DEF ConsoleTypeOK
<1>4. ASSUME NEW t \in Tabs
      PROVE  /\ RoomsNamed(t) /\ RoomsOfPage(t) /\ BotsOfPage(t) /\ RunsOfPage(t)
             /\ LockHeld(t) /\ BlocksKnown(t)
             /\ \A u \in Tabs : BlocksApart(t, u)
  <2>1. /\ rooms[t] = << >> /\ runs[t] = << >> /\ bots[t] = << >> /\ resets[t] = {}
        /\ ui[t].ed = 0 /\ seen[t].ed = 0
    BY ShutType DEF Init, ConsoleInit
  <2>2. Len(rooms[t]) = 0 /\ DOMAIN rooms[t] = {} /\ DOMAIN runs[t] = {} /\ DOMAIN bots[t] = {}
    BY <2>1
  <2> QED BY <2>1, <2>2
          DEF RoomsNamed, RoomsOfPage, BotsOfPage, RunsOfPage, LockHeld, BlocksKnown, BlocksApart
<1> QED BY <1>1, <1>3, <1>4 DEF ConsoleInv

LEMMA ConsoleInvNext ==
  ASSUME ConsoleInv, Kept, [Next]_webVars
  PROVE  ConsoleInv' /\ Kept'
<1>1. CASE UNCHANGED webVars
  BY <1>1, StillKeeps DEF webVars, Kept
<1>2. ASSUME NEW t \in Tabs, ConsoleWorks(t)
      PROVE  ConsoleInv' /\ Kept'
  BY <1>2, WorksKeeps DEF ConsoleWorks, Kept
<1>3. ASSUME NEW t \in Tabs, Clicks(t)
      PROVE  ConsoleInv' /\ Kept'
  BY <1>3, VisitorKeeps, SpendingKeeps DEF Clicks, Kinds
<1>4. ASSUME NEW t \in Tabs, ChunksFail(t)
      PROVE  ConsoleInv' /\ Kept'
  BY <1>4, PagesKeep, LoseBotKeeps, SpendingKeeps DEF ChunksFail, Kinds
<1>5. ASSUME NEW t \in Tabs, NEW d \in left.docs, ShowDocument(t, d)
      PROVE  ConsoleInv' /\ Kept'
  <2>1. d \in Docs \cup {None}
    BY DEF Kept
  <2> QED BY <1>5, <2>1, VisitorKeeps, SpendingKeeps DEF ShowDocument, Kinds
<1>6. ASSUME NEW t \in Tabs, LeaveConsole(t)
      PROVE  ConsoleInv' /\ Kept'
  <2>1. \E d \in Docs \cup {None} : Navigate(t, d)
    BY <1>6 DEF LeaveConsole
  <2> QED BY <1>6, <2>1, VisitorKeeps, SpendingKeeps DEF LeaveConsole, Kinds
<1>7. ASSUME NEW t \in Tabs, NEW d \in left.docs, NEW sync \in {"url", "off"}, Load(t, d, sync)
      PROVE  ConsoleInv' /\ Kept'
  <2>1. d \in Docs
    BY DEF Kept
  <2> QED BY <1>7, <2>1, PagesKeep, SpendingKeeps DEF Load, Kinds
<1>8. ASSUME NEW t \in Tabs, Close(t)
      PROVE  ConsoleInv' /\ Kept'
  BY <1>8, PagesKeep, SpendingKeeps DEF Close, Kinds
<1>9. CASE Deletes
  BY <1>9, DeleteKeeps, SpendingKeeps DEF Deletes, Kinds
<1>10. CASE VisitDelegate \/ VisitInbox
  BY <1>10, StillKeeps DEF VisitDelegate, VisitInbox, Kept
<1>11. CASE FillsForm \/ Delegates \/ Answers
  BY <1>11, StillKeeps, SpendingKeeps DEF FillsForm, Delegates, Answers, Kinds
<1> QED BY <1>1, <1>2, <1>3, <1>4, <1>5, <1>6, <1>7, <1>8, <1>9, <1>10, <1>11 DEF Next

-----------------------------------------------------------------------------
(* What the cleanups reach is all there is: nothing leaks.                 *)
LEMMA InvNothingLeaks == ConsoleInv => NothingLeaks
<1> SUFFICES ASSUME ConsoleInv, NEW t \in Tabs
             PROVE  /\ \A r \in DOMAIN rooms[t] : rooms[t][r].state = "attached" =>
                         r = Len(rooms[t]) /\ rooms[t][r].doc = seen[t].doc
                    /\ \A b \in DOMAIN bots[t] : bots[t][b].attached =>
                         b = Len(bots[t]) /\ bots[t][b].doc = seen[t].doc
  BY DEF NothingLeaks, CurrentRoom
<1>1. RoomsOfPage(t) /\ BotsOfPage(t)
  BY DEF ConsoleInv
<1> QED BY <1>1 DEF RoomsOfPage, BotsOfPage

LEMMA AtMostOne ==
  ASSUME NEW S, NEW x, \A y \in S : y = x
  PROVE  Cardinality(S) <= 1
<1>1. CASE S = {}
  BY <1>1, FS_EmptySet
<1>2. CASE S # {}
  <2>1. S = {x}
    BY <1>2
  <2> QED BY <2>1, FS_Singleton
<1> QED BY <1>1, <1>2

(* The effect has one run, a document one lock. *)
LEMMA InvOneOfEach == ConsoleInv => OneOfEach
<1> SUFFICES ASSUME ConsoleInv PROVE OneOfEach
  OBVIOUS
<1>1. ASSUME NEW t \in Tabs
      PROVE  Cardinality({ i \in DOMAIN runs[t] :
                             Active(runs[t][i]) /\ ~runs[t][i].aborted }) <= 1
  <2> DEFINE S == { i \in DOMAIN runs[t] : Active(runs[t][i]) /\ ~runs[t][i].aborted }
  <2>1. \A i \in S : i = effectRun[t]
    BY DEF ConsoleInv, RunsOfPage
  <2> HIDE DEF S
  <2>2. Cardinality(S) <= 1
    BY <2>1, AtMostOne
  <2> QED BY <2>2 DEF S
<1>2. ASSUME NEW d \in Docs
      PROVE  Cardinality({ tb \in UNION { {t} \X DOMAIN bots[t] : t \in Tabs } :
                             LET b == bots[tb[1]][tb[2]] IN LiveBot(b) /\ b.doc = d }) <= 1
  <2> DEFINE S == { tb \in UNION { {t} \X DOMAIN bots[t] : t \in Tabs } :
                      LET b == bots[tb[1]][tb[2]] IN LiveBot(b) /\ b.doc = d }
  <2>1. ASSUME NEW tb \in S
        PROVE  tb = lock[d]
    <3>1. PICK t \in Tabs : tb \in {t} \X DOMAIN bots[t]
      OBVIOUS
    <3>2. PICK b \in DOMAIN bots[t] : tb = << t, b >>
      BY <3>1
    <3>3. Working(bots[t][b]) /\ bots[t][b].doc = d
      BY <3>2 DEF LiveBot, Working
    <3> QED BY <3>2, <3>3, BotAt
  <2> HIDE DEF S
  <2>2. Cardinality(S) <= 1
    BY <2>1, AtMostOne, SMTT(30)
  <2> QED BY <2>2 DEF S
<1> QED BY <1>1, <1>2 DEF OneOfEach

-----------------------------------------------------------------------------
(* Who types.  A step that leaves the text of every paragraph, and the     *)
(* runs that are still there, as they are, is not a demo's keystroke.      *)
SameTexts ==
  \A d \in Docs : \A k \in DOMAIN asks[d] : asks'[d][k].typed = asks[d][k].typed

SameLosses(t) ==
  \A i \in DOMAIN runs[t] :
    i \in DOMAIN runs'[t] => runs'[t][i].lost = runs[t][i].lost

LEMMA SilentStep ==
  ASSUME ConsoleInv, NEW t \in Tabs, NEW i \in DOMAIN runs[t], SameTexts, SameLosses(t)
  PROVE  ~Types(t, i)
<1> SUFFICES ASSUME Types(t, i) PROVE FALSE
  OBVIOUS
<1>1. PICK d \in Docs : d = rooms[t][runs[t][i].room].doc
  BY RunAt DEF RunDoc
<1>2. PICK k : k = runs[t][i].block
  OBVIOUS
<1>3. /\ i \in DOMAIN runs'[t] /\ runs[t][i].at = "typing"
      /\ asks'[d][k].typed > asks[d][k].typed \/ runs'[t][i].lost # runs[t][i].lost
  BY <1>1, <1>2 DEF Types
<1>4. k \in DOMAIN asks[d] /\ asks[d] \in Seq(Ask)
  BY <1>1, <1>2, <1>3, RunAt DEF RunDoc
<1>5. asks[d][k].typed \in Nat
  <2>1. asks[d][k] \in Ask
    BY <1>4, DomainOf
  <2> QED BY <2>1 DEF Ask
<1>6. asks'[d][k].typed = asks[d][k].typed
  BY <1>4 DEF SameTexts
<1>7. runs'[t][i].lost = runs[t][i].lost
  BY <1>3 DEF SameLosses
<1> QED BY <1>3, <1>5, <1>6, <1>7

(* A run that moves on by itself, its flag of a lost keystroke as it was.  *)
LEMMA SameLossesOfRun ==
  ASSUME ConsoleInv, NEW t \in Tabs, NEW i \in DOMAIN runs[t], NEW new,
         new.lost = runs[t][i].lost,
         runs' = [runs EXCEPT ![t] = [runs[t] EXCEPT ![i] = new]]
  PROVE  \A u \in Tabs : SameLosses(u)
<1>1. runs \in [Tabs -> Seq(Run)]
  BY DEF ConsoleInv, ConsoleTypeOK
<1>2. /\ runs'[t] = [runs[t] EXCEPT ![i] = new]
      /\ \A u \in Tabs : u # t => runs'[u] = runs[u]
  BY <1>1
<1> QED BY <1>2 DEF SameLosses

LEMMA SilentRuns ==
  ASSUME ConsoleInv, NEW t \in Tabs, NEW i \in DOMAIN runs[t],
         LoadRun(t, i) \/ Settle(t, i) \/ EndWatch(t, i)
  PROVE  SameTexts /\ \A u \in Tabs : SameLosses(u)
<1>1. /\ runs \in [Tabs -> Seq(Run)] /\ runs[t][i] \in Run /\ asks \in [Docs -> Seq(Ask)]
  BY RunAt
<1>2. PICK d \in Docs : d = rooms[t][runs[t][i].room].doc
  BY RunAt DEF RunDoc
<1>3. \E at, block :
        runs' = [runs EXCEPT ![t] = [runs[t] EXCEPT
                   ![i] = [runs[t][i] EXCEPT !.at = at, !.block = block]]]
  <2>1. ASSUME NEW at, runs' = [runs EXCEPT ![t][i].at = at]
        PROVE  runs' = [runs EXCEPT ![t] = [runs[t] EXCEPT
                   ![i] = [runs[t][i] EXCEPT !.at = at, !.block = runs[t][i].block]]]
    <3>1. [runs[t][i] EXCEPT !.at = at, !.block = runs[t][i].block] = [runs[t][i] EXCEPT !.at = at]
      BY <1>1 DEF Run
    <3>2. runs' = [runs EXCEPT ![t] = [runs[t] EXCEPT ![i] = [runs[t][i] EXCEPT !.at = at]]]
      BY <1>1, <2>1
    <3> QED BY <3>1, <3>2
  <2>2. CASE \E at : runs' = [runs EXCEPT ![t][i].at = at]
    BY <2>1, <2>2, ZenonT(40)
  <2>3. CASE \E at, block : runs' = [runs EXCEPT ![t][i].at = at, ![t][i].block = block]
    <3>1. PICK at, block : runs' = [runs EXCEPT ![t][i].at = at, ![t][i].block = block]
      BY <2>3
    <3>2. runs' = [runs EXCEPT ![t] = [runs[t] EXCEPT
                     ![i] = [runs[t][i] EXCEPT !.at = at, !.block = block]]]
      BY <1>1, <3>1
    <3> QED BY <3>2
  <2> QED BY <2>2, <2>3 DEF LoadRun, Settle, EndWatch
<1>4. \A u \in Tabs : SameLosses(u)
  <2>1. PICK at, block :
          runs' = [runs EXCEPT ![t] = [runs[t] EXCEPT
                     ![i] = [runs[t][i] EXCEPT !.at = at, !.block = block]]]
    BY <1>3
  <2> DEFINE new == [runs[t][i] EXCEPT !.at = at, !.block = block]
  <2>2. new.lost = runs[t][i].lost
    BY <1>1 DEF Run
  <2>3. runs' = [runs EXCEPT ![t] = [runs[t] EXCEPT ![i] = new]]
    BY <2>1
  <2> HIDE DEF new
  <2> QED BY <2>2, <2>3, SameLossesOfRun
<1>5. SameTexts
  <2>1. CASE UNCHANGED asks
    BY <2>1 DEF SameTexts
  <2>2. CASE \E ask \in Ask : asks' = [asks EXCEPT ![d] = Append(asks[d], ask)]
    <3>1. PICK ask \in Ask : asks' = [asks EXCEPT ![d] = Append(asks[d], ask)]
      BY <2>2
    <3>2. \A k \in DOMAIN asks[d] : Append(asks[d], ask)[k] = asks[d][k]
      BY <1>1, Grown
    <3> QED BY <1>1, <3>1, <3>2 DEF SameTexts
  <2>3. [asker |-> runs[t][i].asker, typed |-> 0, there |-> TRUE] \in Ask
    BY <1>1 DEF Ask, Run
  <2> QED BY <1>2, <2>1, <2>2, <2>3 DEF LoadRun, Settle, EndWatch, docVars
<1> QED BY <1>4, <1>5

(* A keystroke of the demo is a keystroke of that run, in its own          *)
(* paragraph, or is lost with its editor; and the run is not aborted.      *)
LEMMA KeystrokeOf ==
  ASSUME ConsoleInv, NEW t \in Tabs, NEW i \in DOMAIN runs[t], TypeAsk(t, i),
         NEW u \in Tabs, NEW j \in DOMAIN runs[u], Types(u, j)
  PROVE  ~runs[u][j].aborted /\ runs[u][j].room = seen[u].ed
<1>1. /\ runs \in [Tabs -> Seq(Run)] /\ runs[t][i] \in Run /\ asks \in [Docs -> Seq(Ask)]
  BY RunAt
<1>2. PICK d \in Docs : d = RunDoc(t, i) /\ d = rooms[t][runs[t][i].room].doc
  BY RunAt DEF RunDoc
<1>3. PICK e \in Docs : e = RunDoc(u, j) /\ e = rooms[u][runs[u][j].room].doc
  BY RunAt DEF RunDoc
<1>4. PICK k : k = runs[t][i].block
  OBVIOUS
<1>5. PICK l : l = runs[u][j].block
  OBVIOUS
<1>6. /\ j \in DOMAIN runs'[u] /\ runs[u][j].at = "typing"
      /\ asks'[e][l].typed > asks[e][l].typed \/ runs'[u][j].lost # runs[u][j].lost
  BY <1>3, <1>5 DEF Types
<1>7. /\ runs[t][i].at = "typing"
      /\ \/ /\ runs[t][i].aborted
            /\ runs' = [runs EXCEPT ![t][i].at = "over"] /\ UNCHANGED asks
         \/ /\ ~runs[t][i].aborted /\ UNCHANGED asks
            /\ runs' = [runs EXCEPT ![t][i].lost = TRUE]
         \/ /\ ~runs[t][i].aborted /\ UNCHANGED asks
            /\ runs' = [runs EXCEPT ![t][i].at = "dead"]
         \/ /\ ~runs[t][i].aborted
            /\ \E typed : asks' = [asks EXCEPT ![d][k].typed = typed]
            /\ \E at : runs' = [runs EXCEPT ![t][i].at = at]
  BY <1>1, <1>2, <1>4 DEF TypeAsk
<1>8. k \in DOMAIN asks[d] /\ l \in DOMAIN asks[e] /\ asks[e] \in Seq(Ask)
  <2>1. runs[t][i].at = "typing" /\ runs[u][j].at = "typing"
    BY <1>6, <1>7
  <2>2. runs[t][i].block \in DOMAIN asks[RunDoc(t, i)]
    BY <2>1, RunAt
  <2>3. runs[u][j].block \in DOMAIN asks[RunDoc(u, j)] /\ asks[RunDoc(u, j)] \in Seq(Ask)
    BY <2>1, RunAt
  <2> QED BY <1>2, <1>3, <1>4, <1>5, <2>2, <2>3
<1>9. asks[e][l].typed \in Nat
  <2>1. asks[e][l] \in Ask
    BY <1>8, DomainOf
  <2> QED BY <2>1 DEF Ask
<1>10. ~(asks[e][l].typed > asks[e][l].typed)
  BY <1>9
<1>11. CASE u = t /\ j = i
  <2>1. CASE runs[t][i].aborted
    <3>1. runs' = [runs EXCEPT ![t][i].at = "over"] /\ UNCHANGED asks
      BY <1>7, <2>1
    <3>2. runs'[t][i].lost = runs[t][i].lost
      BY <1>1, <3>1 DEF Run
    <3> QED BY <1>6, <1>10, <1>11, <3>1, <3>2
  <2>2. CASE ~runs[t][i].aborted
    BY <1>11, <2>2, RunAt
  <2> QED BY <2>1, <2>2
<1>12. CASE ~(u = t /\ j = i)
  <2>1. runs'[u][j] = runs[u][j]
    <3>1. CASE \E at : runs' = [runs EXCEPT ![t][i].at = at]
      BY <1>1, <1>12, <3>1
    <3>2. CASE runs' = [runs EXCEPT ![t][i].lost = TRUE]
      BY <1>1, <1>12, <3>2
    <3> QED BY <1>7, <3>1, <3>2
  <2>2. e # d \/ l # k
    <3>1. BlocksApart(u, t)
      BY DEF ConsoleInv
    <3>2. Typing(u, j) /\ Typing(t, i)
      BY <1>6, <1>7 DEF Typing
    <3>3. ~(RunDoc(u, j) = RunDoc(t, i) /\ runs[u][j].block = runs[t][i].block)
      BY <1>12, <3>1, <3>2 DEF BlocksApart
    <3> QED BY <1>2, <1>3, <1>4, <1>5, <3>3
  <2>3. asks'[e][l] = asks[e][l]
    <3>1. CASE UNCHANGED asks
      BY <3>1
    <3>2. CASE \E typed : asks' = [asks EXCEPT ![d][k].typed = typed]
      BY <1>1, <2>2, <3>2
    <3> QED BY <1>7, <3>1, <3>2
  <2> QED BY <1>6, <1>10, <2>1, <2>3
<1> QED BY <1>11, <1>12

LEMMA ClearedTexts ==
  ASSUME ConsoleInv, NEW t \in Tabs, NEW r \in resets[t], RestoreSeed(t, r)
  PROVE  SameTexts
<1>1. asks \in [Docs -> Seq(Ask)]
  BY DEF ConsoleInv, ConsoleTypeOK
<1>2. ASSUME NEW d \in Docs, NEW k \in DOMAIN asks[d]
      PROVE  Cleared(asks[d])[k].typed = asks[d][k].typed
  <2>1. asks[d][k] \in Ask
    BY <1>1, DomainOf
  <2>2. Cleared(asks[d])[k] = [asks[d][k] EXCEPT !.there = FALSE]
    BY DEF Cleared
  <2> QED BY <2>1, <2>2 DEF Ask
<1>3. UNCHANGED asks \/ \E d : asks' = [asks EXCEPT ![d] = Cleared(asks[d])]
  BY <1>1 DEF RestoreSeed
<1>4. CASE UNCHANGED asks
  BY <1>4 DEF SameTexts
<1>5. CASE \E d : asks' = [asks EXCEPT ![d] = Cleared(asks[d])]
  BY <1>1, <1>2, <1>5 DEF SameTexts
<1> QED BY <1>3, <1>4, <1>5

LEMMA DeletedTexts ==
  ASSUME ConsoleInv, NEW d \in Docs, NEW k, DeleteParagraph(d, k)
  PROVE  SameTexts
<1>1. asks \in [Docs -> Seq(Ask)]
  BY DEF ConsoleInv, ConsoleTypeOK
<1>2. UNCHANGED asks \/ (k \in DOMAIN asks[d] /\ asks' = [asks EXCEPT ![d][k].there = FALSE])
  BY DEF DeleteParagraph
<1>3. CASE UNCHANGED asks
  BY <1>3 DEF SameTexts
<1>4. CASE k \in DOMAIN asks[d] /\ asks' = [asks EXCEPT ![d][k].there = FALSE]
  <2>1. asks[d][k] \in Ask
    BY <1>1, <1>4, DomainOf
  <2>2. [asks[d][k] EXCEPT !.there = FALSE].typed = asks[d][k].typed
    BY <2>1 DEF Ask
  <2>3. asks' = [asks EXCEPT ![d] = [asks[d] EXCEPT ![k] = [asks[d][k] EXCEPT !.there = FALSE]]]
    BY <1>1, <1>4
  <2> DEFINE new == [asks[d][k] EXCEPT !.there = FALSE]
  <2>4. /\ new.typed = asks[d][k].typed
        /\ asks' = [asks EXCEPT ![d] = [asks[d] EXCEPT ![k] = new]]
    BY <2>2, <2>3
  <2> HIDE DEF new
  <2> QED BY <1>1, <2>4 DEF SameTexts
<1> QED BY <1>2, <1>3, <1>4

LEMMA RenderSilent ==
  ASSUME ConsoleInv, NEW t \in Tabs, Render(t)
  PROVE  SameTexts /\ \A u \in Tabs : SameLosses(u)
<1>1. SameTexts
  BY DEF Render, docVars, SameTexts
<1>2. \E changed \in BOOLEAN, mounted \in BOOLEAN, start \in BOOLEAN :
        /\ start => ui[t].demo # None
        /\ runs' = [runs EXCEPT ![t] = RunsAfter(t, changed, mounted, start)]
  <2> DEFINE now == ui[t]
             was == seen[t]
             mounted == now.doc # None
             demoDeps == << now.demo, now.actor, now.ed >> # << was.demo, was.actor, was.ed >>
             start == /\ demoDeps /\ mounted
                      /\ now.demo # None /\ now.actor = now.demo /\ now.ed # 0
                      /\ ~busy[t] \/ effectRun[t] # 0
             changed == demoDeps \/ ~mounted
  <2>1. runs' = [runs EXCEPT ![t] = RunsAfter(t, changed, mounted, start)]
    BY DEF Render
  <2>2. /\ changed \in BOOLEAN /\ mounted \in BOOLEAN /\ start \in BOOLEAN
        /\ start => ui[t].demo # None
    OBVIOUS
  <2> HIDE DEF changed, mounted, start
  <2> QED BY <2>1, <2>2
<1>3. PICK changed \in BOOLEAN, mounted \in BOOLEAN, start \in BOOLEAN :
        /\ start => ui[t].demo # None
        /\ runs' = [runs EXCEPT ![t] = RunsAfter(t, changed, mounted, start)]
  BY <1>2
<1> DEFINE z == RunsAfter(t, changed, mounted, start)
<1>4. runs \in [Tabs -> Seq(Run)] /\ runs[t] \in Seq(Run)
  BY DEF ConsoleInv, ConsoleTypeOK
<1>5. runs'[t] = z /\ \A u \in Tabs : u # t => runs'[u] = runs[u]
  BY <1>3, <1>4
<1>6. \A i \in DOMAIN z :
        \/ i \in DOMAIN runs[t] /\ z[i].lost = runs[t][i].lost
        \/ i = Len(runs[t]) + 1
  BY <1>3, RunsAfterFacts
<1> HIDE DEF z
<1>7. ASSUME NEW i \in DOMAIN z, i \in DOMAIN runs[t]
      PROVE  z[i].lost = runs[t][i].lost
  <2>1. i # Len(runs[t]) + 1
    BY <1>4, <1>7, DomainOf
  <2>2. \/ i \in DOMAIN runs[t] /\ z[i].lost = runs[t][i].lost
        \/ i = Len(runs[t]) + 1
    BY <1>6
  <2> QED BY <2>1, <2>2
<1> QED BY <1>1, <1>5, <1>7 DEF SameLosses

LEMMA SilentWorks ==
  ASSUME ConsoleInv, NEW t \in Tabs, Works(t),
         ~(\E i \in DOMAIN runs[t] : TypeAsk(t, i))
  PROVE  SameTexts /\ \A u \in Tabs : SameLosses(u)
<1>1. CASE Render(t)
  BY <1>1, RenderSilent
<1>2. CASE \E r \in DOMAIN rooms[t] : Attach(t, r)
  BY <1>2 DEF Attach, docVars, SameTexts, SameLosses
<1>3. CASE \E i \in DOMAIN runs[t] : LoadRun(t, i) \/ Settle(t, i) \/ EndWatch(t, i)
  BY <1>3, SilentRuns
<1>4. CASE \E b \in DOMAIN bots[t] :
             GrantLock(t, b) \/ LoadBot(t, b) \/ StartLine(t, b) \/ BotTypes(t, b)
  <2>1. UNCHANGED << asks, runs >>
    BY <1>4 DEF GrantLock, LoadBot, StartLine, BotTypes
  <2> QED BY <2>1 DEF SameTexts, SameLosses
<1>5. CASE \E r \in resets[t] : RestoreSeed(t, r)
  <2>1. UNCHANGED runs
    BY <1>5 DEF RestoreSeed
  <2> QED BY <1>5, <2>1, ClearedTexts DEF SameLosses
<1> QED BY <1>1, <1>2, <1>3, <1>4, <1>5 DEF Works

(* A page that goes takes its runs with it. *)
LEMMA SilentPages ==
  ASSUME ConsoleInv, NEW t \in Tabs, NEW state, PageGoes(t, state)
  PROVE  SameTexts /\ \A u \in Tabs : SameLosses(u)
<1>1. runs \in [Tabs -> Seq(Run)]
  BY DEF ConsoleInv, ConsoleTypeOK
<1>2. runs'[t] = << >> /\ \A u \in Tabs : u # t => runs'[u] = runs[u]
  BY <1>1 DEF PageGoes
<1> QED BY <1>2 DEF PageGoes, SameTexts, SameLosses

LEMMA SilentNext ==
  ASSUME ConsoleInv, Kept, [Next]_webVars,
         ~(\E t \in Tabs : \E i \in DOMAIN runs[t] : TypeAsk(t, i))
  PROVE  SameTexts /\ \A u \in Tabs : SameLosses(u)
<1>1. CASE UNCHANGED << asks, runs >>
  BY <1>1 DEF SameTexts, SameLosses
<1>2. ASSUME NEW t \in Tabs, ConsoleWorks(t)
      PROVE  SameTexts /\ \A u \in Tabs : SameLosses(u)
  BY <1>2, SilentWorks DEF ConsoleWorks
<1>3. ASSUME NEW t \in Tabs, Clicks(t) \/ LeaveConsole(t) \/ \E d : ShowDocument(t, d)
      PROVE  UNCHANGED << asks, runs >>
  BY <1>3 DEF Clicks, LeaveConsole, ShowDocument, RunEditorDemo, SwitchActor, ResetAll,
              Navigate, Sets, docVars
<1>4. ASSUME NEW t \in Tabs, ChunksFail(t)
      PROVE  SameTexts /\ \A u \in Tabs : SameLosses(u)
  <2>1. \/ \E r \in DOMAIN rooms[t] : RecoverStaleChunk(t, r)
        \/ \E b \in DOMAIN bots[t] : LoseBot(t, b)
    BY <1>4 DEF ChunksFail
  <2>2. UNCHANGED << asks, runs >> \/ \E state : PageGoes(t, state)
    BY <2>1 DEF RecoverStaleChunk, LoseBot, docVars
  <2> QED BY <1>1, <2>2, SilentPages
<1>5. ASSUME NEW t \in Tabs, Close(t) \/ \E d, sync : Load(t, d, sync)
      PROVE  SameTexts /\ \A u \in Tabs : SameLosses(u)
  <2>1. \E state : PageGoes(t, state)
    BY <1>5 DEF Close, Load, CloseTab, LoadPage
  <2> QED BY <2>1, SilentPages
<1>6. CASE Deletes
  <2>1. UNCHANGED runs
    BY <1>6 DEF Deletes, DeleteParagraph, tabVars
  <2>2. SameTexts
    BY <1>6, DeletedTexts DEF Deletes
  <2> QED BY <2>1, <2>2 DEF SameLosses
<1>7. CASE VisitDelegate \/ VisitInbox \/ FillsForm \/ Delegates \/ Answers \/ UNCHANGED webVars
  <2>1. UNCHANGED << asks, runs >>
    BY <1>7 DEF VisitDelegate, VisitInbox, FillsForm, Delegates, Answers, consoleVars, webVars
  <2> QED BY <1>1, <2>1
<1> QED BY <1>1, <1>2, <1>3, <1>4, <1>5, <1>6, <1>7 DEF Next

LEMMA NextTypes ==
  ASSUME ConsoleInv, Kept, [Next]_webVars, NEW u \in Tabs, NEW j \in DOMAIN runs[u], Types(u, j)
  PROVE  ~runs[u][j].aborted /\ runs[u][j].room = seen[u].ed
<1>1. CASE \E t \in Tabs : \E i \in DOMAIN runs[t] : TypeAsk(t, i)
  BY <1>1, KeystrokeOf
<1>2. CASE ~(\E t \in Tabs : \E i \in DOMAIN runs[t] : TypeAsk(t, i))
  BY <1>2, SilentNext, SilentStep
<1> QED BY <1>1, <1>2

-----------------------------------------------------------------------------
LEMMA ConsoleInvariant == Spec => [](ConsoleInv /\ Kept)
<1>1. Init => ConsoleInv /\ Kept
  BY ConsoleInvInit
<1>2. ConsoleInv /\ Kept /\ [Next]_webVars => (ConsoleInv /\ Kept)'
  BY ConsoleInvNext
<1> QED BY <1>1, <1>2, PTL DEF Spec

(* The variables of the console keep their types: a tab's rooms, runs and  *)
(* peers, the locks of the documents, and what was written in them.        *)
THEOREM ConsoleTypeCorrect == Spec => []ConsoleTypeOK
<1>1. ConsoleInv => ConsoleTypeOK
  BY DEF ConsoleInv
<1> QED BY <1>1, ConsoleInvariant, PTL

(* No room and no simulated peer outlives the page, the actor or the       *)
(* document it was opened for, in any number of tabs and however late its  *)
(* imports arrive (weaverRoom.ts:119, 150-154; demoAgent.ts:60, 124-127).  *)
THEOREM NoLeaks == Spec => []NothingLeaks
  BY InvNothingLeaks, ConsoleInvariant, PTL

(* A visitor's demo never types from two runs, and a document has one      *)
(* simulated peer, however many tabs show it (ConsolePage.tsx:145-161,     *)
(* 222-226; demoAgent.ts:16-17, 112-115).                                  *)
THEOREM NobodyPlayedTwice == Spec => []OneOfEach
  BY InvOneOfEach, ConsoleInvariant, PTL

(* A demo types into the editor its page shows, never after it was reset   *)
(* or its page, actor or editor went: no keystroke of another run, of a    *)
(* reset or of a deletion can pass for one of its own (ConsolePage.tsx:171,*)
(* 190, 222-226).                                                          *)
THEOREM VoidStaysEmpty == Spec => NobodyTypesIntoTheVoid
<1>1. ConsoleInv /\ Kept /\ [Next]_webVars
      => [\A t \in Tabs : \A i \in DOMAIN runs[t] :
            Types(t, i) => ~runs[t][i].aborted /\ runs[t][i].room = seen[t].ed]_consoleVars
  BY NextTypes
<1>2. Spec => [][Next]_webVars
  BY PTL DEF Spec
<1> QED BY <1>1, <1>2, ConsoleInvariant, PTL DEF NobodyTypesIntoTheVoid
===============================================================================
