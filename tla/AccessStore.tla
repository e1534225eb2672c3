---------------------------- MODULE AccessStore ----------------------------
(***************************************************************************)
(* The web app's access-control state (apps/web/app/lib/accessStore.tsx)   *)
(* and the two pages that change it: the delegation form                   *)
(* (routes/delegate.tsx) and the inbox (routes/inbox.tsx).  One React      *)
(* provider at the root of the app holds one token per principal and one   *)
(* queue of requests, so what one page does the other shows.               *)
(*                                                                         *)
(* The form is mounted with the page: NoForm when another page is shown.   *)
(* The audit log of the page is wording and left out.                      *)
(***************************************************************************)
EXTENDS Scenario

CONSTANT
  Inbox          \* the requests that wait for their resource's owner

ASSUME InboxAssumption ==
  Inbox \subseteq [id : STRING, requester : Agents, view : Views,
                  fields : SUBSET FinanceFields, rowScope : RowScopes]

VARIABLES
  caps,          \* the token of every principal
  requests,      \* the status of every request
  form           \* the delegation form, while its page is shown

storeVars == << caps, requests, form >>

NoForm == [owner |-> "", agent |-> "", fields |-> {}, teams |-> {}]

---------------------------------------------------------------------------
SeedStatus(req) ==
  CASE RouteRequest(req, CFO_ENVELOPE) = "forbidden" -> "forbidden"
    [] RouteRequest(req, CFO_ENVELOPE) = "auto" -> "auto"
    [] RouteRequest(req, CFO_ENVELOPE) = "escalate" -> "pending"

SeedRequests == [req \in Inbox |-> SeedStatus(req)]
RegistryCapabilities == [p \in REGISTRY |-> RegistryCapability(p)]

(* Mutant: the rows are not passed on. *)
DelegateFields(owner, agent, allow, rows) ==
  LET safe == allow \cap DelegableFields(caps[owner])
      block == Attenuation(owner, safe, NEVER_DELEGABLE, NoRows)
  IN  caps' = [caps EXCEPT ![agent] = DelegateTo(caps[owner], agent, block)]

Delegate(owner, agent, allow, rows) ==
  LET safe == allow \cap DelegableFields(caps[owner])
      block == Attenuation(owner, safe, NEVER_DELEGABLE, rows)
  IN  caps' = [caps EXCEPT ![agent] = DelegateTo(caps[owner], agent, block)]

(* A click on Approve: only a request the inbox escalated and nobody       *)
(* answered shows the button.                                              *)
Approve(req) ==
  /\ RouteRequest(req, CFO_ENVELOPE) = "escalate"
  /\ requests[req] = "pending"
  /\ LET approver == caps[ResourceOwnerOf(req.view)]
     IN  IF Refused(req)
         THEN /\ requests' = [requests EXCEPT ![req] = "forbidden"]
              /\ UNCHANGED caps
         ELSE /\ requests' = [requests EXCEPT ![req] = "approved"]
              /\ caps' = [caps EXCEPT ![req.requester] = ApproveRequest(approver, req)]
  /\ UNCHANGED form

Deny(req) ==
  /\ RouteRequest(req, CFO_ENVELOPE) = "escalate"
  /\ requests[req] = "pending"
  /\ requests' = [requests EXCEPT ![req] = "denied"]
  /\ UNCHANGED << caps, form >>

Reset ==
  /\ caps' = RegistryCapabilities
  /\ requests' = SeedRequests
  /\ UNCHANGED form

---------------------------------------------------------------------------
(* The delegation form.                                                    *)

(* The teams an owner can scope to: its own, or all the view has.          *)
TeamsFor(cap) ==
  IF "team" \in DOMAIN EffectiveRows(cap) THEN EffectiveRows(cap)["team"]
  ELSE { row.team : row \in DATASETS[cap.blocks[1].view].rows }

FormFor(owner, agent) ==
  [owner |-> owner, agent |-> agent, fields |-> DelegableFields(caps[owner]),
   teams |-> TeamsFor(caps[owner])]

OpenForm(owner, agent) ==
  /\ form = NoForm
  /\ form' = FormFor(owner, agent)
  /\ UNCHANGED << caps, requests >>

CloseForm ==
  /\ form # NoForm
  /\ form' = NoForm
  /\ UNCHANGED << caps, requests >>

ChangeOwner(owner) ==
  /\ form # NoForm
  /\ owner # form.owner
  /\ \E agent \in OwnedAgents[owner] : form' = FormFor(owner, agent)
  /\ UNCHANGED << caps, requests >>

Toggled(s, x) == IF x \in s THEN s \ {x} ELSE s \cup {x}

ToggleField(f) ==
  /\ form # NoForm
  /\ f \in DelegableFields(caps[form.owner])
  /\ form' = [form EXCEPT !.fields = Toggled(@, f)]
  /\ UNCHANGED << caps, requests >>

ToggleTeam(t) ==
  /\ form # NoForm
  /\ t \in TeamsFor(caps[form.owner])
  /\ form' = [form EXCEPT !.teams = Toggled(@, t)]
  /\ UNCHANGED << caps, requests >>

(* All the teams, and none of them, are both sent as no restriction.       *)
SelectedRows ==
  IF form.teams # {} /\ form.teams # TeamsFor(caps[form.owner])
  THEN [f \in {"team"} |-> form.teams]
  ELSE NoRows

Submit ==
  /\ form # NoForm
  /\ form.fields # {}
  /\ Delegate(form.owner, form.agent, form.fields, SelectedRows)
  /\ UNCHANGED << requests, form >>

---------------------------------------------------------------------------
StoreInit ==
  /\ caps = RegistryCapabilities
  /\ requests = SeedRequests
  /\ form = NoForm

StoreNext ==
  \/ \E req \in Inbox : Approve(req) \/ Deny(req)
  \/ Reset
  \/ \E owner \in Humans : \E agent \in OwnedAgents[owner] : OpenForm(owner, agent)
  \/ CloseForm
  \/ \E owner \in Humans : ChangeOwner(owner)
  \/ \E f \in FinanceFields : ToggleField(f)
  \/ \E t \in ALL_TEAMS : ToggleTeam(t)
  \/ Submit

StoreSpec == StoreInit /\ [][StoreNext]_storeVars

---------------------------------------------------------------------------
(* The types of the store's state (accessStore.tsx:45-72).                 *)
AuthorityBlocks ==
  [root : {CFO}, ops : SUBSET {"query", "read"}, view : Views,
   fields : SUBSET FinanceFields, rows : RowScopes]
AttenuationBlocks ==
  [by : REGISTRY, allowFields : SUBSET FinanceFields,
   denyFields : SUBSET FinanceFields, denyViews : SUBSET Views, rows : RowScopes]
Tokens == [holder : REGISTRY, blocks : Seq(AuthorityBlocks \cup AttenuationBlocks)]

StoreTypeOK ==
  /\ caps \in [REGISTRY -> Tokens]
  /\ \A p \in REGISTRY : caps[p].holder = p /\ caps[p].blocks # << >>
  /\ requests \in [Inbox -> {"pending", "auto", "approved", "denied", "forbidden"}]
  /\ form = NoForm \/ /\ form.owner \in Humans
                      /\ form.agent \in OwnedAgents[form.owner]
                      /\ form.fields \subseteq DelegableFields(caps[form.owner])
                      /\ form.teams \subseteq TeamsFor(caps[form.owner])

(* No agent ever holds a token for a salary, whatever is delegated,        *)
(* approved or reset, in whatever order (requests.ts:4-8).                 *)
SalaryStaysHome ==
  \A a \in Agents : EffectiveFields(caps[a]) \cap NEVER_DELEGABLE = {}

(* Every token handed on grants no field and no row its giver does not     *)
(* hold: caps(child) is a subset of caps(parent) (access.ts:7), the        *)
(* giver's present token being the parent.                                 *)
Within(child, parent) ==
  /\ child.blocks[1].view = parent.blocks[1].view
  /\ EffectiveFields(child) \subseteq EffectiveFields(parent)
  /\ \A f \in DOMAIN EffectiveRows(parent) :
       /\ f \in DOMAIN EffectiveRows(child)
       /\ EffectiveRows(child)[f] \subseteq EffectiveRows(parent)[f]

NarrowsOnly ==
  \A p \in REGISTRY : \A b \in Attenuations(caps[p]) : Within(caps[p], caps[b.by])

(* What a page says it hands out is what a query then answers.  An         *)
(* approval gives its requester exactly what it asked for: all of the      *)
(* fields, labelled, of the rows it named and of no others                 *)
(* (inbox.tsx:86-91, requests.ts:83-88).  A delegation gives the agent the *)
(* fields and the teams the form shows ticked, and nothing else; a form    *)
(* with no team ticked is left out (delegate.tsx:79-86).                   *)
AsAsked(req) ==
  LET answer == BrainQuery(caps'[req.requester], DATASETS[req.view], req.view, req.fields)
  IN  /\ answer.decision = "ok"
      /\ answer.columns = req.fields \cup Labels
      /\ answer.redacted = {}
      /\ answer.rows = { row \in DATASETS[req.view].rows : RowAllowed(row, req.rowScope) }

AsTicked ==
  LET view == caps[form.owner].blocks[1].view
      answer == BrainQuery(caps'[form.agent], DATASETS[view], view, FinanceFields)
  IN  /\ answer.decision = "ok"
      /\ answer.fields = form.fields
      /\ answer.rows = { row \in DATASETS[view].rows : row.team \in form.teams }

GrantsWhatItShows ==
  [][/\ \A req \in Inbox :
          requests[req] = "pending" /\ requests'[req] = "approved" => AsAsked(req)
     /\ Submit /\ form.teams # {} => AsTicked]_storeVars
=============================================================================
