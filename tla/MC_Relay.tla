------------------------------ MODULE MC_Relay ------------------------------
(* Small relays for TLC: two connections of two principals, whose tokens   *)
(* cover one document of two.                                              *)
EXTENDS Relay

CONSTANTS c1, c2, eng, agent, room, ledger

mcWho == [c \in Conns |-> IF c = c1 THEN eng ELSE agent]
mcRights == [p \in Principals |-> {room}]

Deployed(conns, leavers, revocable) ==
    [conns |-> conns, leavers |-> leavers, revocable |-> revocable]
(* two sessions, one of which may be revoked and the other close *)
mcTwo == Deployed({c1, c2}, {c2}, {eng})
(* one session, whose principal is revoked before or after another is *)
mcOne == Deployed({c1}, {}, {eng, agent})
mcSetups == {mcTwo, mcOne}
mcRevoked == {mcTwo}
mcQuiet == {Deployed({c1, c2}, {c2}, {})}
=============================================================================
