------------------------------ MODULE MC_WebApp ------------------------------
(***************************************************************************)
(* The web app in two tabs of one browser, two document rooms.             *)
(***************************************************************************)
EXTENDS WebApp

CONSTANTS t1, t2, d1, d2

mcActors == {ENG, ENG_AGENT, CFO}
mcAskers == {CFO, ENG}

Scene(rel, docs, clicks, visits, deletes, failures, syncs, toggles, answers) ==
  [relayed |-> rel,
   left |-> [docs |-> docs, clicks |-> clicks, visits |-> visits, deletes |-> deletes,
             failures |-> failures, syncs |-> syncs, toggles |-> toggles,
             answers |-> answers]]

mcBudgets ==
  { Scene(TRUE, {d1}, 2, 1, 1, 0, 0, 0, 0),
    Scene(TRUE, {d1, d2}, 1, 2, 0, 0, 0, 0, 0),
    Scene(TRUE, {d1}, 1, 1, 1, 2, 0, 0, 0),
    Scene(TRUE, {d1}, 0, 2, 0, 1, 0, 0, 1),
    Scene(FALSE, {d1}, 1, 1, 0, 0, 0, 0, 0),
    Scene(FALSE, {d1, d2}, 0, 2, 1, 0, 0, 0, 0),
    Scene(FALSE, {d1}, 0, 3, 0, 0, 0, 0, 0),
    Scene(FALSE, {d1}, 0, 1, 0, 1, 1, 0, 0),
    Scene(FALSE, {d1}, 0, 2, 0, 2, 0, 0, 0),
    Scene(TRUE, {}, 0, 0, 0, 0, 0, 2, 2),
    Scene(TRUE, {}, 0, 0, 0, 0, 0, 1, 3) }
=============================================================================
