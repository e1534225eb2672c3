----------------------------- MODULE Supervisor -----------------------------
(***************************************************************************)
(* The desktop app's supervisor, apps/desktop/src-tauri/src/supervisor.rs: *)
(* it keeps one `sync` process running while that is wanted.               *)
(*                                                                         *)
(* start, stop and restart are called from any thread and leave what they  *)
(* want in a watch channel, which keeps only the latest value; a loop task *)
(* acts on it.  A loop that ends lets the next start make another.  The    *)
(* child of an app that died is found again through a pidfile.             *)
(*                                                                         *)
(* Time: the 300 ms of a restart and the 500 ms of a quit do not pass      *)
(* before a loop that waits for events has noticed the stop; they may pass *)
(* while it probes the relay's port (up to 2 s) or backs off (up to 60 s). *)
(* Left out: logs, arguments, the length of a backoff, the recycling of    *)
(* process ids.                                                            *)
(***************************************************************************)
EXTENDS Naturals, FiniteSets

CONSTANTS
    MaxLoops,     \* bound: loop tasks
    MaxProcs,     \* bound: processes
    MaxCommands,  \* bound: launches of the app and requests of its user
    MaxFaults     \* bound: crashes, failed spawns, a missing binary

ASSUME SupervisorAssumption ==
    MaxLoops \in Nat /\ MaxProcs \in Nat /\ MaxCommands \in Nat
    /\ MaxFaults \in Nat

Loops == 1..MaxLoops
Procs == 1..MaxProcs
None == 0   \* no process

VARIABLES
    app,       \* "down", "up" or "quitting"
    desired,   \* the watch channel's value
    alive,     \* loop_alive
    pc,        \* where each loop task is
    fresh,     \* its receiver has not seen the latest value
    stopping,  \* it has killed its child
    child,     \* the process it started
    procs,     \* the processes of the machine
    pidfile,
    status,    \* what the menu bar shows
    restart,   \* a restart between its stop and its start
    old,       \* history: the child that the last restart is to replace
    recorded,  \* history: processes whose pid was written
    commands, faults

requests == <<desired, alive, restart, old>>
loop == <<pc, fresh, stopping, child>>
machine == <<procs, pidfile, recorded>>
vars == <<app, requests, loop, machine, status, commands, faults>>

Init ==
    /\ app = "down" /\ desired = FALSE /\ alive = FALSE
    /\ pc = [l \in Loops |-> "none"]
    /\ fresh = [l \in Loops |-> FALSE] /\ stopping = [l \in Loops |-> FALSE]
    /\ child = [l \in Loops |-> None]
    /\ procs = [p \in Procs |-> "none"] /\ pidfile = None /\ recorded = {}
    /\ status = "stopped" /\ restart = FALSE /\ old = None
    /\ commands = 0 /\ faults = 0

Goto(l, label) == pc' = [pc EXCEPT ![l] = label]
Command == commands < MaxCommands /\ commands' = commands + 1
Fault == faults < MaxFaults /\ faults' = faults + 1

Running(p) == p # None /\ procs[p] = "running"
Live(p) == p # None /\ procs[p] \in {"running", "dying"}
(* A signal was sent; the process is not gone yet. *)
Signal(p) == [procs EXCEPT ![p] = IF @ = "running" THEN "dying" ELSE @]

-----------------------------------------------------------------------------
(* Requests. *)

(* send_replace: every receiver has something new to see. *)
Want(b) ==
    /\ desired' = b
    /\ fresh' = [l \in Loops |-> pc[l] \notin {"none", "new", "done"}]

(* Mutant: a loop is started whether or not one runs. *)
SpawnAnyway ==
    \E l \in Loops : /\ pc[l] = "none" /\ \A k \in 1..l - 1 : pc[k] # "none"
                     /\ alive' = TRUE /\ Goto(l, "new")

(* A loop is started unless one is there. *)
SpawnLoop ==
    \/ alive /\ UNCHANGED <<alive, pc>>
    \/ /\ ~alive /\ alive' = TRUE
       /\ \E l \in Loops : /\ pc[l] = "none" /\ \A k \in 1..l - 1 : pc[k] # "none"
                           /\ Goto(l, "new")

Start ==
    /\ app = "up" /\ Command
    /\ Want(TRUE) /\ SpawnLoop
    /\ UNCHANGED <<app, restart, old, stopping, child, machine, status, faults>>

Stop ==
    /\ app = "up" /\ Command
    /\ Want(FALSE)
    /\ UNCHANGED <<app, alive, restart, old, pc, stopping, child, machine,
                   status, faults>>

(* The running child, if a loop has one. *)
Current ==
    IF \E l \in Loops : Running(child[l])
    THEN child[CHOOSE l \in Loops : Running(child[l])] ELSE None

(* Half a second on: every loop is where it may be held up (probing, in a  *)
(* backoff, reading the Keychain before a spawn) or has seen the latest    *)
(* value and waits for an event.                                           *)
Noticed ==
    \A l \in Loops : \/ pc[l] \in {"none", "done", "spawn", "probe", "backoff"}
                     \/ pc[l] \in {"watch", "parked"} /\ ~fresh[l]

(* restart: stop, a moment for the loop to reap the child, start. *)
RestartStop ==
    /\ app = "up" /\ ~restart /\ Command
    /\ Want(FALSE)
    /\ restart' = TRUE /\ old' = Current
    /\ UNCHANGED <<app, alive, pc, stopping, child, machine, status, faults>>

RestartStart ==
    /\ restart /\ app # "down" /\ Noticed
    /\ Want(TRUE) /\ SpawnLoop
    /\ restart' = FALSE
    /\ UNCHANGED <<app, old, stopping, child, machine, status, commands, faults>>

(* graceful_shutdown: stop, a moment, exit. *)
Quit ==
    /\ app = "up" /\ Command
    /\ app' = "quitting"
    /\ Want(FALSE)
    /\ UNCHANGED <<alive, restart, old, pc, stopping, child, machine, status,
                   faults>>

(* The app's tasks are gone; its child, if it still has one, is not. *)
Gone ==
    /\ app' = "down" /\ desired' = FALSE /\ alive' = FALSE
    /\ pc' = [l \in Loops |-> IF pc[l] = "none" THEN "none" ELSE "done"]
    /\ fresh' = [l \in Loops |-> FALSE] /\ stopping' = [l \in Loops |-> FALSE]
    /\ child' = [l \in Loops |-> None]
    /\ status' = "stopped" /\ restart' = FALSE /\ old' = None
    /\ UNCHANGED machine

Exit == app = "quitting" /\ Noticed /\ Gone /\ UNCHANGED <<commands, faults>>
Kill == app # "down" /\ Fault /\ Gone /\ UNCHANGED commands

(* The app starts, and on a configured machine the service with it. *)
Launch ==
    /\ app = "down" /\ Command
    /\ app' = "up"
    /\ \/ Want(TRUE) /\ SpawnLoop
       \/ UNCHANGED <<desired, alive, pc, fresh>>
    /\ UNCHANGED <<restart, old, stopping, child, machine, status, faults>>

-----------------------------------------------------------------------------
(* The loop. *)

(* Mutant: the pidfile is cleared, but the process is left alone. *)
EnterBlind(l) ==
    /\ pc[l] = "new" /\ Goto(l, "top")
    /\ pidfile' = None
    /\ UNCHANGED <<app, requests, fresh, stopping, child, procs, recorded,
                   status, commands, faults>>

(* The task subscribes to the channel and reaps a stale child: a process   *)
(* that the pidfile still names is sent SIGTERM.                           *)
Enter(l) ==
    /\ pc[l] = "new" /\ Goto(l, "top")
    /\ pidfile' = None
    /\ procs' = IF pidfile = None THEN procs ELSE Signal(pidfile)
    /\ UNCHANGED <<app, requests, fresh, stopping, child, recorded, status,
                   commands, faults>>

Top(l) ==
    /\ pc[l] = "top"
    /\ \/ ~desired /\ Goto(l, "leave") /\ UNCHANGED <<status, faults>>
       \/ desired /\ Fault /\ Goto(l, "leave") /\ status' = "stopped"
       \/ /\ desired /\ Goto(l, "spawn") /\ status' = "starting"
          /\ UNCHANGED faults
    /\ UNCHANGED <<app, requests, fresh, stopping, child, machine, commands>>

Spawn(l) ==
    /\ pc[l] = "spawn"
    /\ \/ /\ Fault /\ Goto(l, "backoff") /\ status' = "starting"
          /\ UNCHANGED <<procs, child>>
       \/ /\ \E p \in Procs :
               /\ procs[p] = "none" /\ \A q \in 1..p - 1 : procs[q] # "none"
               /\ procs' = [procs EXCEPT ![p] = "running"]
               /\ child' = [child EXCEPT ![l] = p]
          /\ Goto(l, "record") /\ UNCHANGED <<status, faults>>
    /\ UNCHANGED <<app, requests, fresh, stopping, pidfile, recorded, commands>>

Record(l) ==
    /\ pc[l] = "record" /\ Goto(l, "watch")
    /\ pidfile' = child[l] /\ recorded' = recorded \cup {child[l]}
    /\ status' = "starting" /\ stopping' = [stopping EXCEPT ![l] = FALSE]
    /\ UNCHANGED <<app, requests, fresh, child, procs, commands, faults>>

(* Mutant: a change is noted and the child left alone. *)
DesiredChangedIgnored(l) ==
    /\ pc[l] = "watch" /\ fresh[l]
    /\ fresh' = [fresh EXCEPT ![l] = FALSE]
    /\ UNCHANGED <<app, requests, pc, stopping, child, machine, status,
                   commands, faults>>

(* DesiredChanged: a stop kills the child. *)
DesiredChanged(l) ==
    /\ pc[l] = "watch" /\ fresh[l]
    /\ fresh' = [fresh EXCEPT ![l] = FALSE]
    /\ \/ desired /\ UNCHANGED <<stopping, procs>>
       \/ /\ ~desired
          /\ stopping' = [stopping EXCEPT ![l] = TRUE]
          /\ procs' = Signal(child[l])
    /\ UNCHANGED <<app, requests, pc, child, pidfile, recorded, status,
                   commands, faults>>

(* Mutant: the port is probed until it answers. *)
ProbeOnce(l) ==
    /\ pc[l] = "watch" /\ ~stopping[l] /\ status = "starting"
    /\ Goto(l, "probe")
    /\ UNCHANGED <<app, requests, fresh, stopping, child, machine, status,
                   commands, faults>>

(* HealthTick: nothing else is noticed until the probe is over. *)
Probe(l) ==
    /\ pc[l] = "watch" /\ ~stopping[l] /\ Goto(l, "probe")
    /\ UNCHANGED <<app, requests, fresh, stopping, child, machine, status,
                   commands, faults>>

ProbeDone(l) ==
    /\ pc[l] = "probe" /\ Goto(l, "watch")
    /\ status' \in {"healthy", "degraded"}
    /\ UNCHANGED <<app, requests, fresh, stopping, child, machine, commands,
                   faults>>

(* Mutant: a child that exits is never started again on its own. *)
ExitedParks(l) ==
    /\ pc[l] = "watch" /\ ~Live(child[l])
    /\ pidfile' = None /\ child' = [child EXCEPT ![l] = None]
    /\ Goto(l, "parked") /\ status' = "stopped"
    /\ UNCHANGED <<app, requests, fresh, stopping, procs, recorded, commands,
                   faults>>

(* Exited: stopped if that was wanted, else a restart with backoff. *)
Exited(l) ==
    /\ pc[l] = "watch" /\ ~Live(child[l])
    /\ pidfile' = None /\ child' = [child EXCEPT ![l] = None]
    /\ \/ /\ stopping[l] \/ ~desired
          /\ Goto(l, "stopped") /\ status' = "stopped"
       \/ /\ ~stopping[l] /\ desired
          /\ Goto(l, "backoff") /\ status' = "starting"
    /\ UNCHANGED <<app, requests, fresh, stopping, procs, recorded, commands,
                   faults>>

(* A stopped loop waits for a change until the service is wanted again. *)
Wait(l) ==
    /\ \/ pc[l] = "stopped" /\ desired /\ Goto(l, "top") /\ UNCHANGED fresh
       \/ pc[l] = "stopped" /\ ~desired /\ Goto(l, "parked") /\ UNCHANGED fresh
       \/ /\ pc[l] = "parked" /\ fresh[l] /\ Goto(l, "stopped")
          /\ fresh' = [fresh EXCEPT ![l] = FALSE]
    /\ UNCHANGED <<app, requests, stopping, child, machine, status, commands,
                   faults>>

Backoff(l) ==
    /\ pc[l] = "backoff" /\ Goto(l, "top")
    /\ UNCHANGED <<app, requests, fresh, stopping, child, machine, status,
                   commands, faults>>

(* The loop ends: first loop_alive, then what is shown. *)
Leave(l) ==
    /\ pc[l] = "leave" /\ Goto(l, "final")
    /\ alive' = FALSE
    /\ UNCHANGED <<app, desired, restart, old, fresh, stopping, child, machine,
                   status, commands, faults>>

Final(l) ==
    /\ pc[l] = "final" /\ Goto(l, "done")
    /\ status' = "stopped"
    /\ UNCHANGED <<app, requests, fresh, stopping, child, machine, commands,
                   faults>>

-----------------------------------------------------------------------------
(* Processes. *)

Die(p) ==
    /\ procs[p] = "dying"
    /\ procs' = [procs EXCEPT ![p] = "dead"]
    /\ UNCHANGED <<app, requests, loop, pidfile, recorded, status, commands,
                   faults>>

Crash(p) ==
    /\ procs[p] = "running" /\ Fault
    /\ procs' = [procs EXCEPT ![p] = "dead"]
    /\ UNCHANGED <<app, requests, loop, pidfile, recorded, status, commands>>

-----------------------------------------------------------------------------
Request == Start \/ Stop \/ RestartStop \/ Quit \/ Launch
Timer == RestartStart \/ Exit
Run(l) ==
    \/ Enter(l) \/ Top(l) \/ Spawn(l) \/ Record(l) \/ DesiredChanged(l)
    \/ Probe(l) \/ ProbeDone(l) \/ Exited(l) \/ Wait(l) \/ Backoff(l)
    \/ Leave(l) \/ Final(l)

Next ==
    \/ Request \/ Timer \/ Kill
    \/ \E l \in Loops : Run(l)
    \/ \E p \in Procs : Die(p) \/ Crash(p)

(* Timers fire, tasks are scheduled and a killed process dies. A loop that *)
(* is told something, or whose child exits, does not probe for ever.       *)
Fairness ==
    /\ WF_vars(Timer)
    /\ \A l \in Loops : /\ WF_vars(Run(l)) /\ SF_vars(DesiredChanged(l))
                        /\ SF_vars(Exited(l))
    /\ \A p \in Procs : WF_vars(Die(p))

Spec == Init /\ [][Next]_vars /\ Fairness

-----------------------------------------------------------------------------
Active == {"new", "top", "spawn", "record", "watch", "probe", "backoff",
           "stopped", "parked", "leave"}

Shape ==
    /\ app \in {"down", "up", "quitting"}
    /\ desired \in BOOLEAN /\ alive \in BOOLEAN /\ restart \in BOOLEAN
    /\ pc \in [Loops -> Active \cup {"none", "final", "done"}]
    /\ fresh \in [Loops -> BOOLEAN] /\ stopping \in [Loops -> BOOLEAN]
    /\ child \in [Loops -> Procs \cup {None}]
    /\ procs \in [Procs -> {"none", "running", "dying", "dead"}]
    /\ pidfile \in Procs \cup {None} /\ old \in Procs \cup {None}
    /\ recorded \subseteq Procs
    /\ status \in {"starting", "healthy", "degraded", "stopped"}
    /\ commands \in 0..MaxCommands /\ faults \in 0..MaxFaults

FlagTruthful == alive <=> \E l \in Loops : pc[l] \in Active

(* The shape of the supervisor's state, and loop_alive says whether a loop *)
(* is there.                                                               *)
TypeOK == Shape /\ FlagTruthful

(* Whatever starts, stops and restarts race a loop that is ending, the app *)
(* never has two children at once.                                         *)
AtMostOneChild ==
    \A k, l \in Loops : Live(child[k]) /\ Live(child[l]) => k = l

(* A process whose app died or quit without it is not forgotten: the       *)
(* pidfile names it until it was told to stop, so that the next launch     *)
(* finds it.                                                               *)
OrphansAccounted ==
    \A p \in recorded :
        (Running(p) /\ \A l \in Loops : child[l] # p) => pidfile = p

(* A stop is never lost: in whatever state it meets the loop, the child    *)
(* ends, unless the service is wanted again or the app goes.               *)
StopStops ==
    (app # "down" /\ ~desired) ~>
        (app = "down" \/ desired \/ \A l \in Loops : ~Live(child[l]))

(* While a loop is there and the service wanted, a child that crashed or   *)
(* could not be started is started again.                                  *)
WantedRuns ==
    (alive /\ desired) ~>
        (~alive \/ ~desired \/ \E l \in Loops : Running(child[l]))

(* The menu bar may show a running service as stopped (an ended loop says  *)
(* so after the next one has begun), but not for good.                     *)
StatusCatchesUp ==
    (status = "stopped" /\ \E l \in Loops : Running(child[l])) ~>
        (status # "stopped" \/ \A l \in Loops : ~Running(child[l]))

(* supervisor.rs: restart gives the loop a moment to reap the child, then  *)
(* relaunches.  After a restart, a loop that has seen all there is to see  *)
(* does not go on with the child it had before.                            *)
RestartReplacesChild ==
    \A l \in Loops :
        (~restart /\ pc[l] = "watch" /\ ~fresh[l] /\ child[l] = old
         /\ Running(old)) => stopping[l]
=============================================================================
