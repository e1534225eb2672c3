-------------------------- MODULE MC_ControlPlane --------------------------
(* The seeded principals of scenario.rs, reduced to the owner and one      *)
(* agent, for TLC.                                                         *)
EXTENDS ControlPlane

CONSTANTS cfo, agent, finance_private, spend_by_team, salary, gross, team

mcFields == {salary, gross, team}
mcView == [p \in Principals |->
             IF p = cfo THEN finance_private ELSE spend_by_team]
mcInitialFields == [p \in Principals |->
             IF p = cfo THEN mcFields ELSE {gross, team}]
mcRows == [p \in Principals |-> Teams]
mcSeedOrder == <<agent, cfo>>
(* one request the owner may approve, one that names salary *)
mcRequests == {{gross}, {gross, salary}}
=============================================================================
