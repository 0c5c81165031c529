-------------------------------- MODULE ServerOps --------------------------------
(***************************************************************************)
(* The lifecycle core of lulism: ServerControl's operations (server.py),   *)
(* the OpsLock that serialises them (util.py), the shared state file       *)
(* (state.py) and the watchdog loop (watchdog.py), interleaved with the    *)
(* game server itself and its tmux session.                                *)
(*                                                                         *)
(* A process is one lulism invocation: a member of Users is a CLI call, an *)
(* agent session, the GUI or the dashboard, one command at a time; WD is   *)
(* the watchdog daemon.  Every remote command and every access to the      *)
(* state file is a step of its own.                                        *)
(***************************************************************************)
EXTENDS WatchdogState

CONSTANTS
    Users,          \* lulism invocations other than the watchdog
    WD,             \* the watchdog daemon
    LockFree,       \* the users whose front end takes no OpsLock (dash, config --restart)
    UserCommands,   \* what users may type
    Observations,   \* what the watchdog's probe may return
    JVMs,           \* identities of game-server processes (a bound, see FreeJVMs)
    AtomicState,    \* TRUE: load-change-save of the state file happens in one step
    SlowScript,     \* TRUE: the start script runs a while before it becomes java
    None

Procs == Users \cup {WD}

ASSUME UsersAssumption == /\ WD \notin Users
                          /\ None \notin Procs
                          /\ LockFree \subseteq Users
ASSUME JVMsAssumption == /\ None \notin JVMs
                         /\ JVMs \cap {"none", "script", "dead"} = {}
ASSUME FlagsAssumption == AtomicState \in BOOLEAN /\ SlowScript \in BOOLEAN
ASSUME ObservationsAssumption == Observations \subseteq Observation
ASSUME NoneAssumption == None \notin StateFile /\ None \notin Observation
                         /\ None \notin Restarts /\ None \notin Desired

Commands == {"start", "start-no-wait", "stop", "restart", "kill",
             "backup", "restore", "arm", "disarm", "adopt"}
ASSUME CommandsAssumption == UserCommands \subseteq Commands

(* arm, disarm and adopt only touch the state file and never take the lock. *)
StateOnly == {"arm", "disarm", "adopt"}

VARIABLES
    file,       \* watchdog.json
    pane,       \* the tmux session: "none", its start script, its JVM, or a dead pane
    jvm,        \* every game-server process: "off", "up" or "exiting"
    lock,       \* the process holding the OpsLock, or None
    pc,         \* where each process is
    cmd,        \* the command it executes
    pid,        \* the server process it captured
    mem,        \* the copy of the state file it has loaded
    obs,        \* the watchdog's last observation
    attempt,    \* the restart the watchdog has recorded and is now trying
    launched,   \* ghost: recorded restarts that did launch a server
    intent      \* ghost: what a person last asked for

host == <<pane, jvm>>
local == <<lock, pc, cmd, pid, mem, attempt>>
ghosts == <<launched, intent>>
vars == <<file, pane, jvm, lock, pc, cmd, pid, mem, obs, attempt,
          launched, intent>>

--------------------------------------------------------------------------------
(* Program points. *)

EditPoints == {"set-up", "set-down", "set-armed", "set-disarmed",
               "record", "halt", "alert"}
StartPoints == {"find", "clear", "launch", "set-up", "await"}
WaitPoints == {"wait-stop", "wait-term", "wait-kill"}
StopPoints == {"set-down", "target", "ask", "term", "reap"} \cup WaitPoints
LockedPoints == {"busy", "check", "swap"} \cup StartPoints \cup StopPoints
Points == {"idle", "probe", "adopt", "decide", "backoff", "lock"}
            \cup EditPoints \cup LockedPoints

Live == {j \in JVMs : jvm[j] # "off"}
Serving == {j \in JVMs : jvm[j] = "up"}

TypeOK ==
    /\ file \in StateFile
    /\ pane \in JVMs \cup {"none", "script", "dead"}
    /\ jvm \in [JVMs -> {"off", "up", "exiting"}]
    /\ lock \in Procs \cup {None}
    /\ pc \in [Procs -> Points]
    /\ cmd \in [Procs -> Commands \cup {"none"}]
    /\ pid \in [Procs -> JVMs \cup {None}]
    /\ mem \in [Procs -> StateFile \cup {None}]
    /\ obs \in Observation \cup {None}
    /\ attempt \in Restarts \cup {None}
    /\ launched \in SUBSET Restarts
    /\ intent \in Desired

(* Any state file people can have left behind while the server was down. *)
Init ==
    /\ file \in {DEFAULT_STATE, set_armed(DEFAULT_STATE, TRUE)}
    /\ pane = "none"
    /\ jvm = [j \in JVMs |-> "off"]
    /\ lock = None
    /\ pc = [p \in Procs |-> "idle"]
    /\ cmd = [p \in Procs |-> "none"]
    /\ pid = [p \in Procs |-> None]
    /\ mem = [p \in Procs |-> None]
    /\ obs = None
    /\ attempt = None
    /\ launched = {}
    /\ intent = "down"

--------------------------------------------------------------------------------
(* Mutant: the lock is kept when even SIGKILL fails. *)
MutantLeave(p) ==
    /\ pc' = [pc EXCEPT ![p] = "idle"]
    /\ cmd' = [cmd EXCEPT ![p] = "none"]
    /\ pid' = [pid EXCEPT ![p] = None]
    /\ mem' = [mem EXCEPT ![p] = None]
    /\ lock' = IF lock = p /\ pc[p] # "wait-kill" THEN None ELSE lock
    /\ attempt' = IF p = WD THEN None ELSE attempt

(* Leaving a command: every return and every exception of it.  The `with    *)
(* OpsLock()` block releases the lock, and so does the kernel when the      *)
(* process is killed.                                                       *)
Leave(p) ==
    /\ pc' = [pc EXCEPT ![p] = "idle"]
    /\ cmd' = [cmd EXCEPT ![p] = "none"]
    /\ pid' = [pid EXCEPT ![p] = None]
    /\ mem' = [mem EXCEPT ![p] = None]
    /\ lock' = IF lock = p THEN None ELSE lock
    /\ attempt' = IF p = WD THEN None ELSE attempt

Goto(p, l) ==
    /\ pc' = [pc EXCEPT ![p] = l]
    /\ mem' = [mem EXCEPT ![p] = None]
    /\ UNCHANGED <<lock, cmd, pid, attempt>>

(* Mutant: the session is forgotten, not killed. *)
MutantReapSession == pane' = "none" /\ UNCHANGED jvm

(* tmux kill-session: whatever runs in the pane gets a hangup. *)
reap_session ==
    /\ pane' = "none"
    /\ jvm' = [j \in JVMs |-> IF pane = j /\ jvm[j] = "up" THEN "exiting" ELSE jvm[j]]

(* A signal, or `stop` on the console, takes effect or is ignored by a      *)
(* server that hangs.                                                       *)
MayExit(j) ==
    \/ jvm' = jvm
    \/ jvm[j] = "up" /\ jvm' = [jvm EXCEPT ![j] = "exiting"]

--------------------------------------------------------------------------------
(* Beginning a command. *)

FirstPoint(c) ==
    CASE c \in {"start", "start-no-wait"} -> "find"
      [] c \in {"stop", "restart", "kill"} -> "set-down"
      [] c = "backup" -> "busy"
      [] c = "restore" -> "check"
      [] c = "arm" -> "set-armed"
      [] c = "disarm" -> "set-disarmed"
      [] c = "adopt" -> "probe"

(* Mutant: restart is forgotten among the commands that take the lock. *)
MutantNeedsLock(u, c) == u \notin LockFree /\ c \notin StateOnly \cup {"restart"}

NeedsLock(u, c) == u \notin LockFree /\ c \notin StateOnly

(* A held lock is refused at once (LockHeldError), which changes nothing.   *)
Begin(u, c) ==
    /\ pc[u] = "idle"
    /\ u \in LockFree => c \in {"start", "stop", "restart", "backup"}
    /\ NeedsLock(u, c) => lock = None
    /\ lock' = IF NeedsLock(u, c) THEN u ELSE lock
    /\ pc' = [pc EXCEPT ![u] = FirstPoint(c)]
    /\ cmd' = [cmd EXCEPT ![u] = c]
    /\ UNCHANGED <<file, host, pid, mem, obs, attempt, ghosts>>

(* TransportError, ServerError, Ctrl-C or a kill of the process, anywhere.  *)
Abort(p) ==
    /\ pc[p] # "idle"
    /\ Leave(p)
    /\ obs' = IF p = WD THEN None ELSE obs
    /\ UNCHANGED <<file, host, ghosts>>

--------------------------------------------------------------------------------
(* The state-file helpers.  Each loads the file, changes its copy and       *)
(* replaces the file; nothing keeps another process out in between.         *)

Edited(l, st) ==
    CASE l = "set-up" -> set_desired(st, "up")
      [] l = "set-down" -> set_desired(st, "down")
      [] l = "set-armed" -> set_armed(st, TRUE)
      [] l = "set-disarmed" -> set_armed(st, FALSE)
      [] l = "halt" -> set_halted(st)
      [] l = "alert" -> st

(* A person's start raises the intent, a person's stop or kill lowers it;   *)
(* adopt, the first half of a restart and the watchdog speak for nobody.    *)
IntentAfter(p) ==
    IF p \in Users /\ pc[p] = "set-up" /\ cmd[p] # "adopt" THEN "up"
    ELSE IF p \in Users /\ pc[p] = "set-down" /\ cmd[p] \in {"stop", "kill"} THEN "down"
    ELSE intent

(* The copy an edit starts from: the one loaded earlier, if there is one.   *)
Copy(p) == IF mem[p] = None THEN file ELSE mem[p]

Load(p) ==
    /\ ~AtomicState
    /\ pc[p] \in EditPoints
    /\ mem[p] = None
    /\ mem' = [mem EXCEPT ![p] = file]
    /\ UNCHANGED <<file, host, lock, pc, cmd, pid, obs, attempt, ghosts>>

Save(p) ==
    /\ pc[p] \in EditPoints \ {"record"}
    /\ AtomicState \/ mem[p] # None
    /\ file' = Edited(pc[p], Copy(p))
    /\ intent' = IntentAfter(p)
    /\ \/ pc[p] = "set-down" /\ Goto(p, "target")
       \/ pc[p] = "set-up" /\ cmd[p] \in {"start", "restart"} /\ Goto(p, "await")
       \/ pc[p] = "set-up" /\ cmd[p] \in {"start-no-wait", "adopt"} /\ Leave(p)
       \/ pc[p] \notin {"set-up", "set-down"} /\ Leave(p)
    /\ UNCHANGED <<host, obs, launched>>

--------------------------------------------------------------------------------
(* ServerControl.start. *)

(* A process id is not reused while somebody still waits for its owner. *)
FreeJVMs == {j \in JVMs : jvm[j] = "off" /\ \A p \in Procs : pid[p] # j}

(* Mutant: start judges by the session, not by the process. *)
MutantFindNone(p) ==
    /\ pc[p] = "find"
    /\ IF pane \notin JVMs THEN Goto(p, "clear") ELSE Leave(p)
    /\ UNCHANGED <<file, host, obs, ghosts>>

FindNone(p) ==
    /\ pc[p] = "find"
    /\ IF Live = {} THEN Goto(p, "clear") ELSE Leave(p)
    /\ UNCHANGED <<file, host, obs, ghosts>>

ClearSession(p) ==
    /\ pc[p] = "clear"
    /\ reap_session
    /\ Goto(p, "launch")
    /\ UNCHANGED <<file, obs, ghosts>>

NewSession ==
    IF SlowScript THEN pane' = "script" /\ UNCHANGED jvm
    ELSE \E j \in FreeJVMs : pane' = j /\ jvm' = [jvm EXCEPT ![j] = "up"]

(* new-session refuses a name that is taken; and the reply may be lost      *)
(* after the session exists.                                                *)
Launch(p) ==
    /\ pc[p] = "launch"
    /\ \/ /\ pane = "none"
          /\ NewSession
          /\ launched' = IF p = WD THEN launched \cup {attempt} ELSE launched
          /\ Goto(p, "set-up") \/ Leave(p)
       \/ /\ pane # "none"
          /\ Leave(p)
          /\ UNCHANGED <<host, launched>>
    /\ UNCHANGED <<file, obs, intent>>

(* Ready, died or timed out: each ends the wait and the command. *)
Await(p) ==
    /\ pc[p] = "await"
    /\ Leave(p)
    /\ UNCHANGED <<file, host, obs, ghosts>>

--------------------------------------------------------------------------------
(* ServerControl.stop and kill; restart is stop, then start. *)

Target(p) ==
    /\ pc[p] = "target"
    /\ \/ /\ Live = {}
          /\ Goto(p, "reap")
       \/ \E j \in Live :
          /\ pid' = [pid EXCEPT ![p] = j]
          /\ pc' = [pc EXCEPT ![p] = IF cmd[p] = "kill" THEN "term" ELSE "ask"]
          /\ UNCHANGED <<lock, cmd, mem, attempt>>
    /\ UNCHANGED <<file, host, obs, ghosts>>

(* The countdown, save-all flush and `stop`, whose errors are suppressed. *)
Ask(p) ==
    /\ pc[p] = "ask"
    /\ MayExit(pid[p])
    /\ Goto(p, "wait-stop")
    /\ UNCHANGED <<file, pane, obs, ghosts>>

(* SIGTERM: kill's first resort, and stop's when the server did not go.     *)
Terminate(p) ==
    /\ pc[p] \in {"term", "wait-stop"}
    /\ MayExit(pid[p])
    /\ Goto(p, "wait-term")
    /\ UNCHANGED <<file, pane, obs, ghosts>>

Kill(p) ==
    /\ pc[p] = "wait-term"
    /\ jvm' = [jvm EXCEPT ![pid[p]] = IF @ = "up" THEN "exiting" ELSE @]
    /\ Goto(p, "wait-kill")
    /\ UNCHANGED <<file, pane, obs, ghosts>>

PidGone(p) ==
    /\ pc[p] \in WaitPoints
    /\ jvm[pid[p]] = "off"
    /\ Goto(p, "reap")
    /\ UNCHANGED <<file, host, obs, ghosts>>

(* Not even SIGKILL helped: stop raises, kill reaps the session anyway.     *)
Survived(p) ==
    /\ pc[p] = "wait-kill"
    /\ IF cmd[p] = "kill" THEN Goto(p, "reap") ELSE Leave(p)
    /\ UNCHANGED <<file, host, obs, ghosts>>

(* Mutant: once the process is gone its session is left alone. *)
MutantReap(p) ==
    /\ pc[p] = "reap"
    /\ IF pid[p] = None THEN reap_session ELSE UNCHANGED host
    /\ \/ /\ cmd[p] = "restart"
          /\ pc' = [pc EXCEPT ![p] = "find"]
          /\ pid' = [pid EXCEPT ![p] = None]
          /\ UNCHANGED <<lock, cmd, mem, attempt>>
       \/ cmd[p] # "restart" /\ Leave(p)
    /\ UNCHANGED <<file, obs, ghosts>>

Reap(p) ==
    /\ pc[p] = "reap"
    /\ reap_session
    /\ \/ /\ cmd[p] = "restart"
          /\ pc' = [pc EXCEPT ![p] = "find"]
          /\ pid' = [pid EXCEPT ![p] = None]
          /\ UNCHANGED <<lock, cmd, mem, attempt>>
       \/ cmd[p] # "restart" /\ Leave(p)
    /\ UNCHANGED <<file, obs, ghosts>>

--------------------------------------------------------------------------------
(* Other holders of the lock, and adopt. *)

(* A backup: it holds the lock for as long as it likes. *)
Busy(p) ==
    /\ pc[p] = "busy"
    /\ Leave(p)
    /\ UNCHANGED <<file, host, obs, ghosts>>

(* Mutant: a server that is shutting down counts as down. *)
MutantCheckStopped(p) ==
    /\ pc[p] = "check"
    /\ IF Serving = {} THEN Goto(p, "swap") ELSE Leave(p)
    /\ UNCHANGED <<file, host, obs, ghosts>>

(* restore: the server must be down; then the archive is verified and the   *)
(* live world is moved aside and unpacked.                                  *)
CheckStopped(p) ==
    /\ pc[p] = "check"
    /\ IF Live = {} THEN Goto(p, "swap") ELSE Leave(p)
    /\ UNCHANGED <<file, host, obs, ghosts>>

SwapWorld(p) ==
    /\ pc[p] = "swap"
    /\ Leave(p)
    /\ UNCHANGED <<file, host, obs, ghosts>>

(* The GUI's first status probe, then adopt's look at the state file.       *)
Probe(p) ==
    /\ pc[p] = "probe"
    /\ IF Live = {} THEN Leave(p) ELSE Goto(p, "adopt")
    /\ UNCHANGED <<file, host, obs, ghosts>>

Adopt(p) ==
    /\ pc[p] = "adopt"
    /\ IF file.desired = "up" THEN Leave(p) ELSE Goto(p, "set-up")
    /\ UNCHANGED <<file, host, obs, ghosts>>

--------------------------------------------------------------------------------
(* The watchdog: observe, decide, act. *)

Sees(o) ==
    /\ ~o.ssh_ok => ~o.proc_up
    /\ o.ssh_ok => (o.proc_up <=> Live # {})
    /\ ~o.proc_up => ~o.frozen /\ o.alerts = {}

Observe ==
    /\ pc[WD] = "idle"
    /\ \E o \in Observations : Sees(o) /\ obs' = o
    /\ Goto(WD, "decide")
    /\ UNCHANGED <<file, host, ghosts>>

(* Two alerts of one pass are written from the same copy, the second after  *)
(* the first one's notification and profile have been awaited.              *)
SlowAlert(acts) ==
    \/ Cardinality(acts \cap {"alert-tps", "alert-heap", "alert-disk"}) > 1
    \/ ~AtomicState /\ acts \notin {{"noop"}, {"autosave"}}

Act(acts) ==
    CASE acts = {"start"} ->
            [pc |-> "backoff", cmd |-> "start", mem |-> None]
      [] acts = {"restart-frozen"} ->
            [pc |-> "record", cmd |-> "restart", mem |-> None]
      [] acts = {"halt-crashloop"} ->
            [pc |-> "halt", cmd |-> "none", mem |-> None]
      [] SlowAlert(acts) ->
            [pc |-> "alert", cmd |-> "none", mem |-> file]
      [] OTHER ->
            [pc |-> "idle", cmd |-> "none", mem |-> None]

Decide ==
    /\ pc[WD] = "decide"
    /\ LET next == Act(decide(obs, file)) IN
       /\ pc' = [pc EXCEPT ![WD] = next.pc]
       /\ cmd' = [cmd EXCEPT ![WD] = next.cmd]
       /\ mem' = [mem EXCEPT ![WD] = next.mem]
    /\ obs' = None
    /\ UNCHANGED <<file, host, lock, pid, attempt, ghosts>>

(* Evidence, then time.sleep(backoff): nothing is held and nothing is read  *)
(* again afterwards.                                                        *)
Backoff ==
    /\ pc[WD] = "backoff"
    /\ Goto(WD, "record")
    /\ UNCHANGED <<file, host, obs, ghosts>>

InUse == file.restarts \cup launched
            \cup UNION {mem[p].restarts : p \in {q \in Procs : mem[q] # None}}

Record ==
    /\ pc[WD] = "record"
    /\ AtomicState \/ mem[WD] # None
    /\ \E r \in Restarts \ InUse :
          /\ file' = record_restart(Copy(WD), r)
          /\ attempt' = r
    /\ pc' = [pc EXCEPT ![WD] = "lock"]
    /\ mem' = [mem EXCEPT ![WD] = None]
    /\ UNCHANGED <<host, lock, cmd, pid, obs, ghosts>>

TakeLock ==
    /\ pc[WD] = "lock"
    /\ \/ /\ lock = None
          /\ lock' = WD
          /\ pc' = [pc EXCEPT ![WD] = IF cmd[WD] = "start" THEN "find" ELSE "set-down"]
          /\ UNCHANGED <<cmd, pid, mem, attempt>>
       \/ /\ lock # None
          /\ Leave(WD)
    /\ UNCHANGED <<file, host, obs, ghosts>>

--------------------------------------------------------------------------------
(* The host. *)

ScriptRuns ==
    /\ pane = "script"
    /\ \/ pane' \in {"dead", "none"} /\ UNCHANGED jvm
       \/ \E j \in FreeJVMs : pane' = j /\ jvm' = [jvm EXCEPT ![j] = "up"]
    /\ UNCHANGED <<file, local, obs, ghosts>>

(* A crash of a server that was up, or the end of one that was exiting.     *)
(* remain-on-exit keeps the dead pane, where tmux accepted that option.     *)
Exit(j) ==
    /\ jvm[j] # "off"
    /\ jvm' = [jvm EXCEPT ![j] = "off"]
    /\ pane' \in IF pane = j THEN {"dead", "none"} ELSE {pane}
    /\ UNCHANGED <<file, local, obs, ghosts>>

(* A restart drops out of restart_window.  The window is an hour, no        *)
(* attempt takes that long.                                                 *)
Age(r) ==
    /\ r # attempt
    /\ r \in InUse
    /\ file' = [file EXCEPT !.restarts = @ \ {r}]
    /\ mem' = [p \in Procs |-> IF mem[p] = None THEN None
                               ELSE [mem[p] EXCEPT !.restarts = @ \ {r}]]
    /\ launched' = launched \ {r}
    /\ UNCHANGED <<host, lock, pc, cmd, pid, obs, attempt, intent>>

--------------------------------------------------------------------------------

(* What a process does by itself once it is under way. *)
Step(p) ==
    \/ Load(p) \/ Save(p)
    \/ FindNone(p) \/ ClearSession(p) \/ Launch(p) \/ Await(p)
    \/ Target(p) \/ Ask(p) \/ Terminate(p) \/ Kill(p) \/ PidGone(p) \/ Survived(p)
    \/ Reap(p)
    \/ Busy(p) \/ CheckStopped(p) \/ SwapWorld(p) \/ Probe(p) \/ Adopt(p)

Watch == Observe \/ Decide \/ Backoff \/ Record \/ TakeLock

Next ==
    \/ \E u \in Users, c \in UserCommands : Begin(u, c)
    \/ \E p \in Procs : Step(p) \/ Abort(p)
    \/ Watch
    \/ ScriptRuns
    \/ \E j \in JVMs : Exit(j)
    \/ \E r \in Restarts : Age(r)

Spec == Init /\ [][Next]_vars

--------------------------------------------------------------------------------
(* Properties. *)

Holds(p) == pc[p] \in LockedPoints /\ ~(pc[p] = "set-up" /\ cmd[p] = "adopt")

(* Whoever is inside an operation that takes the OpsLock holds it, so no    *)
(* two of them overlap (util.py, OpsLock).                                  *)
LockProtects ==
    \A p \in Procs \ LockFree : Holds(p) => lock = p

(* A server that is up runs in the tmux session of the configuration, where *)
(* the next stop, kill or start reaches it (server.py, start).              *)
ServingInPane == \A j \in JVMs : jvm[j] = "up" => pane = j

(* Two game servers never run on one world: start looks for a process       *)
(* first, restart waits for the old process to be gone, and the lock keeps  *)
(* two starts apart (server.py, start and _wait_pid_gone).                  *)
OneServer == \A i, j \in Live : i = j

(* While restore replaces the world no game server runs, not even one the   *)
(* watchdog would like to restart (backup.py, restore).                     *)
RestoreOffline == \A p \in Procs : pc[p] = "swap" => Live = {}

(* The watchdog launches at most max_restarts servers within one            *)
(* restart_window (watchdog.py, decide).                                    *)
RestartBudget == Cardinality(launched) <= MaxRestarts

(* A tripped crash-loop breaker is reset by nothing but a person's start,   *)
(* restart or arm, or by a GUI that adopts a live server (state.py,         *)
(* set_desired and set_armed).                                              *)
OnlyPeopleClearHalt ==
    [][file.halted /\ ~file'.halted =>
          \E u \in Users : pc[u] \in {"set-up", "set-armed"}]_vars

(* Once a stop has completed, nothing serves players any more and no start  *)
(* script is left that would (server.py, stop).                             *)
StopLeavesNothing ==
    [][\A u \in Users : cmd[u] = "stop" /\ Reap(u) => Serving' = {} /\ pane' = "none"]_vars

(* The watchdog never brings back a server somebody has stopped on purpose. *)
StopNeverFought == [][launched' \ launched # {} => intent = "up"]_vars

(* The breaker trips only after max_restarts restarts within the window.    *)
HaltFollowsRestarts ==
    [][~file.halted /\ file'.halted => Cardinality(launched) >= MaxRestarts]_vars

================================================================================
