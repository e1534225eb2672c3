-------------------------- MODULE SupervisorProofs --------------------------
(***************************************************************************)
(* Safety of the supervisor, for any number of loops, processes, requests  *)
(* and faults: the app never has two children, and no process it recorded  *)
(* is forgotten.                                                           *)
(*                                                                         *)
(* Neither property is inductive alone.  What makes them hold is that at   *)
(* most one loop is active (start consults loop_alive, which a loop clears *)
(* only when it has no child), and that the pidfile is that loop's to      *)
(* write from the moment it has reaped what the file named.                *)
(***************************************************************************)
EXTENDS Supervisor, TLAPS

(* Labels at which a loop has a child. *)
Holding == {"record", "watch", "probe"}
(* Labels at which an active loop has reaped and has written no pid. *)
Clear == {"top", "spawn", "record", "backoff", "stopped", "parked", "leave"}

(* At most one loop is active. *)
OneLoop ==
    \A k, l \in Loops : pc[k] \in Active /\ pc[l] \in Active => k = l

(* A loop has a child exactly between its spawn and its exit. *)
ChildHeld == \A l \in Loops : child[l] # None <=> pc[l] \in Holding

(* The active loop's pid file: none, or the pid of its child. *)
PidfileOwned ==
    \A l \in Loops :
        /\ pc[l] \in Clear => pidfile = None
        /\ pc[l] \in {"watch", "probe"} => pidfile = child[l]
        /\ pc[l] = "record" => child[l] \notin recorded

(* Only processes that were started are recorded, or are a loop's child. *)
RecordedStarted ==
    /\ \A p \in recorded : procs[p] # "none"
    /\ \A l \in Loops : child[l] # None => procs[child[l]] # "none"

(* The inductive invariant. *)
IInv ==
    /\ TypeOK /\ OneLoop /\ ChildHeld /\ PidfileOwned /\ RecordedStarted
    /\ OrphansAccounted

(* 0 is no process id. *)
LEMMA NoneIsNoProc == None \notin Procs
  BY SupervisorAssumption DEF None, Procs

(* A request stays within the bound on requests. *)
LEMMA CommandBound ==
    ASSUME Shape, Command PROVE commands' \in 0..MaxCommands
  BY SupervisorAssumption DEF Shape, Command

(* Likewise the counter of faults. *)
LEMMA FaultBound ==
    ASSUME Shape, Fault PROVE faults' \in 0..MaxFaults
  BY SupervisorAssumption DEF Shape, Fault

(* SpawnLoop changes nothing, or makes one unused loop task new. *)
LEMMA SpawnLoopEffect ==
    ASSUME SpawnLoop
    PROVE  \/ UNCHANGED <<alive, pc>>
           \/ /\ ~alive /\ alive' = TRUE
              /\ \E l \in Loops : /\ pc[l] = "none"
                                /\ pc' = [pc EXCEPT ![l] = "new"]
  BY DEF SpawnLoop, Goto

(* The child a restart is to replace is a process or None. *)
LEMMA CurrentIsProc ==
    ASSUME Shape PROVE Current \in Procs \cup {None}
<1>1. CASE \E l \in Loops : Running(child[l])
  <2> DEFINE k == CHOOSE l \in Loops : Running(child[l])
  <2>1. k \in Loops
    BY <1>1
  <2>2. Current = child[k]
    BY <1>1 DEF Current
  <2> QED
    BY <2>1, <2>2 DEF Shape
<1> QED
  BY <1>1 DEF Current

-----------------------------------------------------------------------------
(* One lemma for each part of IInv, in each one step for each action or   *)
(* group of actions that does the same to that part.                      *)

(* Every step keeps the shape of the state. *)
LEMMA ShapeStep ==
    ASSUME IInv, [Next]_vars PROVE Shape'
<1> USE NoneIsNoProc, SupervisorAssumption DEF IInv, TypeOK, Shape, Active
<1>1. CASE Start \/ RestartStart \/ Launch
  <2>1. CASE UNCHANGED <<alive, pc>>
    BY <1>1, CommandBound, <2>1
      DEF Start, RestartStart, Launch, Want, requests, loop, machine
  <2>2. ASSUME NEW l \in Loops, pc[l] = "none", ~alive, alive' = TRUE,
               pc' = [pc EXCEPT ![l] = "new"]
        PROVE  Shape'
    BY <1>1, CommandBound, <2>2
      DEF Start, RestartStart, Launch, Want, requests, loop, machine
  <2> QED
    BY <1>1, <2>1, <2>2, SpawnLoopEffect DEF Start, RestartStart, Launch
<1>2. CASE Stop \/ RestartStop \/ Quit
  BY <1>2, CommandBound, CurrentIsProc
    DEF Stop, RestartStop, Quit, Want, requests, loop, machine
<1>3. CASE Exit \/ Kill
  BY <1>3, FaultBound DEF Exit, Kill, Gone, requests, loop, machine
<1>4. ASSUME NEW l \in Loops, Enter(l) PROVE Shape'
  BY <1>4 DEF Enter, Goto, Signal, requests, loop, machine
<1>5. ASSUME NEW l \in Loops, Spawn(l) PROVE Shape'
  BY <1>5, FaultBound DEF Spawn, Goto, requests, loop, machine
<1>6. ASSUME NEW l \in Loops, Record(l) PROVE Shape'
  BY <1>6 DEF Record, Goto, ChildHeld, Holding, requests, loop, machine
<1>7. ASSUME NEW l \in Loops, DesiredChanged(l) PROVE Shape'
  BY <1>7 DEF DesiredChanged, Signal, requests, loop, machine
<1>8. ASSUME NEW l \in Loops, Exited(l) PROVE Shape'
  BY <1>8 DEF Exited, Goto, requests, loop, machine
<1>9. ASSUME NEW l \in Loops, Leave(l) PROVE Shape'
  BY <1>9 DEF Leave, Goto, requests, loop, machine
<1>10. ASSUME NEW l \in Loops,
             Top(l) \/ Probe(l) \/ ProbeDone(l)
             \/ Wait(l) \/ Backoff(l) \/ Final(l)
      PROVE  Shape'
  BY <1>10, FaultBound
    DEF Top, Probe, ProbeDone, Wait, Backoff, Final, Goto, requests, loop,
        machine
<1>11. ASSUME NEW p \in Procs, Die(p) \/ Crash(p) PROVE Shape'
  BY <1>11, FaultBound DEF Die, Crash, requests, loop, machine
<1>12. CASE UNCHANGED vars
  BY <1>12 DEF vars, requests, loop, machine
<1> QED
  BY <1>1, <1>2, <1>3, <1>4, <1>5, <1>6, <1>7, <1>8, <1>9, <1>10, <1>11, <1>12
    DEF Next, Request, Timer, Run

(* loop_alive stays truthful: the only active loop clears it. *)
LEMMA FlagStep ==
    ASSUME IInv, [Next]_vars PROVE FlagTruthful'
<1> USE NoneIsNoProc DEF IInv, TypeOK, Shape, FlagTruthful, OneLoop, Active
<1>1. CASE Start \/ RestartStart \/ Launch
  <2>1. CASE UNCHANGED <<alive, pc>>
    BY <1>1, <2>1 DEF Start, RestartStart, Launch, Want, requests, loop, machine
  <2>2. ASSUME NEW l \in Loops, pc[l] = "none", ~alive, alive' = TRUE,
               pc' = [pc EXCEPT ![l] = "new"]
        PROVE  FlagTruthful'
    BY <1>1, <2>2 DEF Start, RestartStart, Launch, Want, requests, loop, machine
  <2> QED
    BY <1>1, <2>1, <2>2, SpawnLoopEffect DEF Start, RestartStart, Launch
<1>2. CASE Stop \/ RestartStop \/ Quit
  BY <1>2 DEF Stop, RestartStop, Quit, Want, requests, loop, machine
<1>3. CASE Exit \/ Kill
  BY <1>3 DEF Exit, Kill, Gone, requests, loop, machine
<1>4. ASSUME NEW l \in Loops, Enter(l) PROVE FlagTruthful'
  BY <1>4 DEF Enter, Goto, Signal, requests, loop, machine
<1>5. ASSUME NEW l \in Loops, Spawn(l) PROVE FlagTruthful'
  BY <1>5 DEF Spawn, Goto, requests, loop, machine
<1>6. ASSUME NEW l \in Loops, Record(l) PROVE FlagTruthful'
  BY <1>6 DEF Record, Goto, requests, loop, machine
<1>7. ASSUME NEW l \in Loops, DesiredChanged(l) PROVE FlagTruthful'
  BY <1>7 DEF DesiredChanged, Signal, requests, loop, machine
<1>8. ASSUME NEW l \in Loops, Exited(l) PROVE FlagTruthful'
  BY <1>8 DEF Exited, Goto, requests, loop, machine
<1>9. ASSUME NEW l \in Loops, Leave(l) PROVE FlagTruthful'
  BY <1>9 DEF Leave, Goto, requests, loop, machine
<1>10. ASSUME NEW l \in Loops,
             Top(l) \/ Probe(l) \/ ProbeDone(l)
             \/ Wait(l) \/ Backoff(l) \/ Final(l)
      PROVE  FlagTruthful'
  BY <1>10
    DEF Top, Probe, ProbeDone, Wait, Backoff, Final, Goto, requests, loop,
        machine
<1>11. ASSUME NEW p \in Procs, Die(p) \/ Crash(p) PROVE FlagTruthful'
  BY <1>11 DEF Die, Crash, requests, loop, machine
<1>12. CASE UNCHANGED vars
  BY <1>12 DEF vars, requests, loop, machine
<1> QED
  BY <1>1, <1>2, <1>3, <1>4, <1>5, <1>6, <1>7, <1>8, <1>9, <1>10, <1>11, <1>12
    DEF Next, Request, Timer, Run

(* start makes a loop only when none is active. *)
LEMMA OneLoopStep ==
    ASSUME IInv, [Next]_vars PROVE OneLoop'
<1> USE NoneIsNoProc DEF IInv, TypeOK, Shape, FlagTruthful, OneLoop, Active
<1>1. CASE Start \/ RestartStart \/ Launch
  <2>1. CASE UNCHANGED <<alive, pc>>
    BY <1>1, <2>1 DEF Start, RestartStart, Launch, Want, requests, loop, machine
  <2>2. ASSUME NEW l \in Loops, pc[l] = "none", ~alive, alive' = TRUE,
               pc' = [pc EXCEPT ![l] = "new"]
        PROVE  OneLoop'
    BY <1>1, <2>2 DEF Start, RestartStart, Launch, Want, requests, loop, machine
  <2> QED
    BY <1>1, <2>1, <2>2, SpawnLoopEffect DEF Start, RestartStart, Launch
<1>2. CASE Stop \/ RestartStop \/ Quit
  BY <1>2 DEF Stop, RestartStop, Quit, Want, requests, loop, machine
<1>3. CASE Exit \/ Kill
  BY <1>3 DEF Exit, Kill, Gone, requests, loop, machine
<1>4. ASSUME NEW l \in Loops, Enter(l) PROVE OneLoop'
  BY <1>4 DEF Enter, Goto, Signal, requests, loop, machine
<1>5. ASSUME NEW l \in Loops, Spawn(l) PROVE OneLoop'
  BY <1>5 DEF Spawn, Goto, requests, loop, machine
<1>6. ASSUME NEW l \in Loops, Record(l) PROVE OneLoop'
  BY <1>6 DEF Record, Goto, requests, loop, machine
<1>7. ASSUME NEW l \in Loops, DesiredChanged(l) PROVE OneLoop'
  BY <1>7 DEF DesiredChanged, Signal, requests, loop, machine
<1>8. ASSUME NEW l \in Loops, Exited(l) PROVE OneLoop'
  BY <1>8 DEF Exited, Goto, requests, loop, machine
<1>9. ASSUME NEW l \in Loops, Leave(l) PROVE OneLoop'
  BY <1>9 DEF Leave, Goto, requests, loop, machine
<1>10. ASSUME NEW l \in Loops,
             Top(l) \/ Probe(l) \/ ProbeDone(l)
             \/ Wait(l) \/ Backoff(l) \/ Final(l)
      PROVE  OneLoop'
  BY <1>10
    DEF Top, Probe, ProbeDone, Wait, Backoff, Final, Goto, requests, loop,
        machine
<1>11. ASSUME NEW p \in Procs, Die(p) \/ Crash(p) PROVE OneLoop'
  BY <1>11 DEF Die, Crash, requests, loop, machine
<1>12. CASE UNCHANGED vars
  BY <1>12 DEF vars, requests, loop, machine
<1> QED
  BY <1>1, <1>2, <1>3, <1>4, <1>5, <1>6, <1>7, <1>8, <1>9, <1>10, <1>11, <1>12
    DEF Next, Request, Timer, Run

(* A loop comes to have a child in Spawn only, and gives it up in Exited. *)
LEMMA ChildStep ==
    ASSUME IInv, [Next]_vars PROVE ChildHeld'
<1> USE NoneIsNoProc DEF IInv, TypeOK, Shape, ChildHeld, Holding, Active
<1>1. CASE Start \/ RestartStart \/ Launch
  <2>1. CASE UNCHANGED <<alive, pc>>
    BY <1>1, <2>1 DEF Start, RestartStart, Launch, Want, requests, loop, machine
  <2>2. ASSUME NEW l \in Loops, pc[l] = "none", ~alive, alive' = TRUE,
               pc' = [pc EXCEPT ![l] = "new"]
        PROVE  ChildHeld'
    BY <1>1, <2>2 DEF Start, RestartStart, Launch, Want, requests, loop, machine
  <2> QED
    BY <1>1, <2>1, <2>2, SpawnLoopEffect DEF Start, RestartStart, Launch
<1>2. CASE Stop \/ RestartStop \/ Quit
  BY <1>2 DEF Stop, RestartStop, Quit, Want, requests, loop, machine
<1>3. CASE Exit \/ Kill
  BY <1>3 DEF Exit, Kill, Gone, requests, loop, machine
<1>4. ASSUME NEW l \in Loops, Enter(l) PROVE ChildHeld'
  BY <1>4 DEF Enter, Goto, Signal, requests, loop, machine
<1>5. ASSUME NEW l \in Loops, Spawn(l) PROVE ChildHeld'
  BY <1>5 DEF Spawn, Goto, requests, loop, machine
<1>6. ASSUME NEW l \in Loops, Record(l) PROVE ChildHeld'
  BY <1>6 DEF Record, Goto, requests, loop, machine
<1>7. ASSUME NEW l \in Loops, DesiredChanged(l) PROVE ChildHeld'
  BY <1>7 DEF DesiredChanged, Signal, requests, loop, machine
<1>8. ASSUME NEW l \in Loops, Exited(l) PROVE ChildHeld'
  BY <1>8 DEF Exited, Goto, requests, loop, machine
<1>9. ASSUME NEW l \in Loops, Leave(l) PROVE ChildHeld'
  BY <1>9 DEF Leave, Goto, requests, loop, machine
<1>10. ASSUME NEW l \in Loops,
             Top(l) \/ Probe(l) \/ ProbeDone(l)
             \/ Wait(l) \/ Backoff(l) \/ Final(l)
      PROVE  ChildHeld'
  BY <1>10
    DEF Top, Probe, ProbeDone, Wait, Backoff, Final, Goto, requests, loop,
        machine
<1>11. ASSUME NEW p \in Procs, Die(p) \/ Crash(p) PROVE ChildHeld'
  BY <1>11 DEF Die, Crash, requests, loop, machine
<1>12. CASE UNCHANGED vars
  BY <1>12 DEF vars, requests, loop, machine
<1> QED
  BY <1>1, <1>2, <1>3, <1>4, <1>5, <1>6, <1>7, <1>8, <1>9, <1>10, <1>11, <1>12
    DEF Next, Request, Timer, Run

(* No loop but the active one writes the pidfile. *)
LEMMA PidfileStep ==
    ASSUME IInv, [Next]_vars PROVE PidfileOwned'
<1> USE NoneIsNoProc
    DEF IInv, TypeOK, Shape, OneLoop, ChildHeld, PidfileOwned,
        RecordedStarted, Clear, Holding, Active
<1>1. CASE Start \/ RestartStart \/ Launch
  <2>1. CASE UNCHANGED <<alive, pc>>
    BY <1>1, <2>1 DEF Start, RestartStart, Launch, Want, requests, loop, machine
  <2>2. ASSUME NEW l \in Loops, pc[l] = "none", ~alive, alive' = TRUE,
               pc' = [pc EXCEPT ![l] = "new"]
        PROVE  PidfileOwned'
    BY <1>1, <2>2 DEF Start, RestartStart, Launch, Want, requests, loop, machine
  <2> QED
    BY <1>1, <2>1, <2>2, SpawnLoopEffect DEF Start, RestartStart, Launch
<1>2. CASE Stop \/ RestartStop \/ Quit
  BY <1>2 DEF Stop, RestartStop, Quit, Want, requests, loop, machine
<1>3. CASE Exit \/ Kill
  BY <1>3 DEF Exit, Kill, Gone, requests, loop, machine
<1>4. ASSUME NEW l \in Loops, Enter(l) PROVE PidfileOwned'
  BY <1>4 DEF Enter, Goto, Signal, requests, loop, machine
<1>5. ASSUME NEW l \in Loops, Spawn(l) PROVE PidfileOwned'
  BY <1>5 DEF Spawn, Goto, requests, loop, machine
<1>6. ASSUME NEW l \in Loops, Record(l) PROVE PidfileOwned'
  BY <1>6 DEF Record, Goto, requests, loop, machine
<1>7. ASSUME NEW l \in Loops, DesiredChanged(l) PROVE PidfileOwned'
  BY <1>7 DEF DesiredChanged, Signal, requests, loop, machine
<1>8. ASSUME NEW l \in Loops, Exited(l) PROVE PidfileOwned'
  BY <1>8 DEF Exited, Goto, requests, loop, machine
<1>9. ASSUME NEW l \in Loops, Leave(l) PROVE PidfileOwned'
  BY <1>9 DEF Leave, Goto, requests, loop, machine
<1>10. ASSUME NEW l \in Loops,
             Top(l) \/ Probe(l) \/ ProbeDone(l)
             \/ Wait(l) \/ Backoff(l) \/ Final(l)
      PROVE  PidfileOwned'
  BY <1>10
    DEF Top, Probe, ProbeDone, Wait, Backoff, Final, Goto, requests, loop,
        machine
<1>11. ASSUME NEW p \in Procs, Die(p) \/ Crash(p) PROVE PidfileOwned'
  BY <1>11 DEF Die, Crash, requests, loop, machine
<1>12. CASE UNCHANGED vars
  BY <1>12 DEF vars, requests, loop, machine
<1> QED
  BY <1>1, <1>2, <1>3, <1>4, <1>5, <1>6, <1>7, <1>8, <1>9, <1>10, <1>11, <1>12
    DEF Next, Request, Timer, Run

(* A pid is written after its process was started. *)
LEMMA RecordedStep ==
    ASSUME IInv, [Next]_vars PROVE RecordedStarted'
<1> USE NoneIsNoProc
    DEF IInv, TypeOK, Shape, ChildHeld, RecordedStarted, Holding, Active
<1>1. CASE Start \/ RestartStart \/ Launch
  <2>1. CASE UNCHANGED <<alive, pc>>
    BY <1>1, <2>1 DEF Start, RestartStart, Launch, Want, requests, loop, machine
  <2>2. ASSUME NEW l \in Loops, pc[l] = "none", ~alive, alive' = TRUE,
               pc' = [pc EXCEPT ![l] = "new"]
        PROVE  RecordedStarted'
    BY <1>1, <2>2 DEF Start, RestartStart, Launch, Want, requests, loop, machine
  <2> QED
    BY <1>1, <2>1, <2>2, SpawnLoopEffect DEF Start, RestartStart, Launch
<1>2. CASE Stop \/ RestartStop \/ Quit
  BY <1>2 DEF Stop, RestartStop, Quit, Want, requests, loop, machine
<1>3. CASE Exit \/ Kill
  BY <1>3 DEF Exit, Kill, Gone, requests, loop, machine
<1>4. ASSUME NEW l \in Loops, Enter(l) PROVE RecordedStarted'
  BY <1>4 DEF Enter, Goto, Signal, requests, loop, machine
<1>5. ASSUME NEW l \in Loops, Spawn(l) PROVE RecordedStarted'
  BY <1>5 DEF Spawn, Goto, requests, loop, machine
<1>6. ASSUME NEW l \in Loops, Record(l) PROVE RecordedStarted'
  BY <1>6 DEF Record, Goto, requests, loop, machine
<1>7. ASSUME NEW l \in Loops, DesiredChanged(l) PROVE RecordedStarted'
  BY <1>7 DEF DesiredChanged, Signal, requests, loop, machine
<1>8. ASSUME NEW l \in Loops, Exited(l) PROVE RecordedStarted'
  BY <1>8 DEF Exited, Goto, requests, loop, machine
<1>9. ASSUME NEW l \in Loops, Leave(l) PROVE RecordedStarted'
  BY <1>9 DEF Leave, Goto, requests, loop, machine
<1>10. ASSUME NEW l \in Loops,
             Top(l) \/ Probe(l) \/ ProbeDone(l)
             \/ Wait(l) \/ Backoff(l) \/ Final(l)
      PROVE  RecordedStarted'
  BY <1>10
    DEF Top, Probe, ProbeDone, Wait, Backoff, Final, Goto, requests, loop,
        machine
<1>11. ASSUME NEW p \in Procs, Die(p) \/ Crash(p) PROVE RecordedStarted'
  BY <1>11 DEF Die, Crash, requests, loop, machine
<1>12. CASE UNCHANGED vars
  BY <1>12 DEF vars, requests, loop, machine
<1> QED
  BY <1>1, <1>2, <1>3, <1>4, <1>5, <1>6, <1>7, <1>8, <1>9, <1>10, <1>11, <1>12
    DEF Next, Request, Timer, Run

(* A recorded process stays named, or is told to stop. *)
LEMMA OrphansStep ==
    ASSUME IInv, [Next]_vars PROVE OrphansAccounted'
<1> USE NoneIsNoProc
    DEF IInv, TypeOK, Shape, OneLoop, ChildHeld, PidfileOwned,
        RecordedStarted, OrphansAccounted, Running, Live, Clear, Holding,
        Active
<1>1. CASE Start \/ RestartStart \/ Launch
  <2>1. CASE UNCHANGED <<alive, pc>>
    BY <1>1, <2>1 DEF Start, RestartStart, Launch, Want, requests, loop, machine
  <2>2. ASSUME NEW l \in Loops, pc[l] = "none", ~alive, alive' = TRUE,
               pc' = [pc EXCEPT ![l] = "new"]
        PROVE  OrphansAccounted'
    BY <1>1, <2>2 DEF Start, RestartStart, Launch, Want, requests, loop, machine
  <2> QED
    BY <1>1, <2>1, <2>2, SpawnLoopEffect DEF Start, RestartStart, Launch
<1>2. CASE Stop \/ RestartStop \/ Quit
  BY <1>2 DEF Stop, RestartStop, Quit, Want, requests, loop, machine
<1>3. CASE Exit \/ Kill
  BY <1>3 DEF Exit, Kill, Gone, requests, loop, machine
<1>4. ASSUME NEW l \in Loops, Enter(l) PROVE OrphansAccounted'
  BY <1>4 DEF Enter, Goto, Signal, requests, loop, machine
<1>5. ASSUME NEW l \in Loops, Spawn(l) PROVE OrphansAccounted'
  BY <1>5 DEF Spawn, Goto, requests, loop, machine
<1>6. ASSUME NEW l \in Loops, Record(l) PROVE OrphansAccounted'
  BY <1>6 DEF Record, Goto, requests, loop, machine
<1>7. ASSUME NEW l \in Loops, DesiredChanged(l) PROVE OrphansAccounted'
  BY <1>7 DEF DesiredChanged, Signal, requests, loop, machine
<1>8. ASSUME NEW l \in Loops, Exited(l) PROVE OrphansAccounted'
  BY <1>8 DEF Exited, Goto, requests, loop, machine
<1>9. ASSUME NEW l \in Loops, Leave(l) PROVE OrphansAccounted'
  BY <1>9 DEF Leave, Goto, requests, loop, machine
<1>10. ASSUME NEW l \in Loops,
             Top(l) \/ Probe(l) \/ ProbeDone(l)
             \/ Wait(l) \/ Backoff(l) \/ Final(l)
      PROVE  OrphansAccounted'
  BY <1>10
    DEF Top, Probe, ProbeDone, Wait, Backoff, Final, Goto, requests, loop,
        machine
<1>11. ASSUME NEW p \in Procs, Die(p) \/ Crash(p) PROVE OrphansAccounted'
  BY <1>11 DEF Die, Crash, requests, loop, machine
<1>12. CASE UNCHANGED vars
  BY <1>12 DEF vars, requests, loop, machine
<1> QED
  BY <1>1, <1>2, <1>3, <1>4, <1>5, <1>6, <1>7, <1>8, <1>9, <1>10, <1>11, <1>12
    DEF Next, Request, Timer, Run

-----------------------------------------------------------------------------
(* The theorems. *)

(* No app has run: no loop, no process, no pidfile. *)
LEMMA InitIInv == Init => IInv
<1> SUFFICES ASSUME Init PROVE IInv
  OBVIOUS
<1>1. Shape
  <2>1. /\ commands \in 0..MaxCommands /\ faults \in 0..MaxFaults
        /\ recorded \subseteq Procs
    BY SupervisorAssumption DEF Init
  <2> QED BY <2>1 DEF Init, Shape
<1>2. FlagTruthful /\ OneLoop
  BY DEF Init, FlagTruthful, OneLoop, Active
<1>3. ChildHeld /\ PidfileOwned
  BY DEF Init, ChildHeld, PidfileOwned, Holding, Clear
<1>4. RecordedStarted /\ OrphansAccounted
  BY DEF Init, RecordedStarted, OrphansAccounted
<1> QED BY <1>1, <1>2, <1>3, <1>4 DEF IInv, TypeOK

(* Whatever requests, crashes and loops do, in any order, IInv holds. *)
THEOREM Invariance == Spec => []IInv
<1>1. IInv /\ [Next]_vars => IInv'
  BY ShapeStep, FlagStep, OneLoopStep, ChildStep, PidfileStep, RecordedStep,
     OrphansStep
  DEF IInv, TypeOK
<1> QED BY <1>1, InitIInv, PTL DEF Spec

(* The state is well-typed, and loop_alive says whether a loop is there. *)
THEOREM TypeCorrect == Spec => []TypeOK
<1>1. IInv => TypeOK BY DEF IInv
<1> QED BY <1>1, Invariance, PTL

(* A start that races an ending loop never gives the app a second child: a *)
(* loop with a child is active, and one loop is active.                    *)
THEOREM NeverTwoChildren == Spec => []AtMostOneChild
<1>1. IInv => AtMostOneChild
  BY DEF IInv, OneLoop, ChildHeld, Holding, Active, AtMostOneChild, Live
<1> QED BY <1>1, Invariance, PTL

(* The next launch finds the child of an app that crashed after recording  *)
(* it, however many launches, crashes and restarts there were.             *)
THEOREM NoOrphanForgotten == Spec => []OrphansAccounted
<1>1. IInv => OrphansAccounted BY DEF IInv
<1> QED BY <1>1, Invariance, PTL
=============================================================================
