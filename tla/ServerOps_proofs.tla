---------------------------- MODULE ServerOps_proofs ----------------------------
(***************************************************************************)
(* Theorems about ServerOps, for every set of users, servers and restarts. *)
(***************************************************************************)
EXTENDS ServerOps, FiniteSetTheorems, TLAPS

--------------------------------------------------------------------------------
(* Types. *)

(* The helpers of state.py return state files. *)
LEMMA EditedType ==
    ASSUME NEW st \in StateFile, NEW l \in EditPoints \ {"record"}
    PROVE  Edited(l, st) \in StateFile
  BY DEF Edited, EditPoints, StateFile, Desired, set_desired, set_armed, set_halted

(* Recording a restart keeps the file a state file (state.py, record_restart). *)
LEMMA RecordType ==
    ASSUME NEW st \in StateFile, NEW r \in Restarts
    PROVE  record_restart(st, r) \in StateFile
  BY DEF record_restart, StateFile

(* Whatever copy an edit starts from is a state file. *)
LEMMA CopyType ==
    ASSUME TypeOK, NEW p \in Procs
    PROVE  Copy(p) \in StateFile
  BY DEF TypeOK, Copy

(* A command begins at a program point; only adopt begins with a probe. *)
LEMMA FirstPointType ==
    ASSUME NEW c \in Commands
    PROVE  /\ FirstPoint(c) \in Points
           /\ FirstPoint(c) \in LockedPoints => c \notin StateOnly
           /\ FirstPoint(c) \notin {"clear", "launch", "swap", "adopt", "halt"}
           /\ FirstPoint(c) = "probe" => c = "adopt"
  BY DEF FirstPoint, Commands, Points, EditPoints, LockedPoints, StartPoints,
         StopPoints, WaitPoints, StateOnly

(* What the watchdog's decision sends it to do next. *)
LEMMA ActType ==
    ASSUME TypeOK, NEW acts
    PROVE  /\ Act(acts).pc \in {"backoff", "record", "halt", "alert", "idle"}
           /\ Act(acts).cmd \in Commands \cup {"none"}
           /\ Act(acts).mem \in {file, None}
           /\ Act(acts).mem # None => Act(acts).pc = "alert"
  BY DEF Act, TypeOK, Commands

(* Leaving a command and moving within it keep every local variable in its type. *)
LEMMA MoveType ==
    ASSUME TypeOK, NEW p \in Procs, NEW l \in Points, Leave(p) \/ Goto(p, l)
    PROVE  /\ lock' \in Procs \cup {None}
           /\ pc' \in [Procs -> Points]
           /\ cmd' \in [Procs -> Commands \cup {"none"}]
           /\ pid' \in [Procs -> JVMs \cup {None}]
           /\ mem' \in [Procs -> StateFile \cup {None}]
           /\ attempt' \in Restarts \cup {None}
  <1>1. CASE Leave(p)
    BY <1>1 DEF TypeOK, Leave, Points
  <1>2. CASE Goto(p, l)
    BY <1>2 DEF TypeOK, Goto
  <1>. QED BY <1>1, <1>2

(* The state file stays a state file, whoever writes it. *)
LEMMA WriteType ==
    ASSUME TypeOK, NEW p \in Procs, Save(p) \/ (p = WD /\ Record)
    PROVE  file' \in StateFile /\ intent' \in Desired
  <1>1. Copy(p) \in StateFile
    BY CopyType
  <1>2. CASE Save(p)
    <2>1. file' \in StateFile
      BY <1>1, <1>2, EditedType DEF Save
    <2>2. intent' \in Desired
      BY <1>2 DEF Save, IntentAfter, TypeOK, Desired
    <2>. QED BY <2>1, <2>2
  <1>3. CASE p = WD /\ Record
    <2>1. file' \in StateFile
      BY <1>1, <1>3, RecordType DEF Record
    <2>. QED BY <1>3, <2>1 DEF Record, ghosts, TypeOK
  <1>. QED BY <1>2, <1>3

--------------------------------------------------------------------------------

USE UsersAssumption, JVMsAssumption, NoneAssumption, CommandsAssumption,
    ObservationsAssumption

(* TypeOK is not inductive: a launch of the watchdog puts its attempt among  *)
(* the restarts, so the attempt must be one by then.                        *)
Attempting ==
    /\ pc[WD] \notin {"probe", "adopt"}
    /\ pc[WD] \in LockedPoints \cup {"lock"} => attempt \in Restarts

TypeInv == TypeOK /\ Attempting

(* Every step of a process preserves the types. *)
LEMMA StepType ==
    ASSUME TypeInv, NEW p \in Procs, Step(p) \/ Abort(p)
    PROVE  TypeOK'
  <1>. USE DEF host, ghosts, TypeInv
  <1>1. CASE Load(p)
    BY <1>1 DEF TypeOK, Load
  <1>2. CASE Save(p)
    <2>1. /\ lock' \in Procs \cup {None}
          /\ pc' \in [Procs -> Points]
          /\ cmd' \in [Procs -> Commands \cup {"none"}]
          /\ pid' \in [Procs -> JVMs \cup {None}]
          /\ mem' \in [Procs -> StateFile \cup {None}]
          /\ attempt' \in Restarts \cup {None}
      <3>1. "target" \in Points /\ "await" \in Points
        BY DEF Points, LockedPoints, StartPoints, StopPoints
      <3>2. Leave(p) \/ Goto(p, "target") \/ Goto(p, "await")
        BY <1>2 DEF Save
      <3>. QED BY <3>1, <3>2, MoveType
    <2>. QED BY <1>2, <2>1, WriteType DEF TypeOK, Save
  <1>3. CASE \/ FindNone(p) \/ Await(p) \/ PidGone(p) \/ Survived(p) \/ Busy(p)
             \/ CheckStopped(p) \/ SwapWorld(p) \/ Probe(p) \/ Adopt(p) \/ Abort(p)
    <2>1. \E l \in Points : Leave(p) \/ Goto(p, l)
      BY <1>3 DEF FindNone, Await, PidGone, Survived, Busy, CheckStopped, SwapWorld,
         Probe, Adopt, Abort, Points, EditPoints, LockedPoints, StartPoints, StopPoints
    <2>2. UNCHANGED <<file, pane, jvm, launched, intent>> /\ obs' \in {obs, None}
      BY <1>3 DEF FindNone, Await, PidGone, Survived, Busy, CheckStopped, SwapWorld,
         Probe, Adopt, Abort
    <2>. QED BY <2>1, <2>2, MoveType DEF TypeOK
  <1>4. CASE ClearSession(p)
    <2>1. "launch" \in Points
      BY DEF Points, LockedPoints, StartPoints
    <2>2. /\ pane' \in JVMs \cup {"none", "script", "dead"}
          /\ jvm' \in [JVMs -> {"off", "up", "exiting"}]
      BY <1>4 DEF ClearSession, reap_session, TypeOK
    <2>. QED BY <1>4, <2>1, <2>2, MoveType DEF TypeOK, ClearSession
  <1>5. CASE Launch(p)
    <2>1. Leave(p) \/ Goto(p, "set-up")
      BY <1>5 DEF Launch
    <2>2. "set-up" \in Points
      BY DEF Points, EditPoints
    <2>3. /\ pane' \in JVMs \cup {"none", "script", "dead"}
          /\ jvm' \in [JVMs -> {"off", "up", "exiting"}]
      BY <1>5 DEF Launch, NewSession, FreeJVMs, TypeOK
    <2>4. launched' \in SUBSET Restarts
      BY <1>5 DEF Launch, TypeOK, Attempting, LockedPoints, StartPoints
    <2>. QED BY <1>5, <2>1, <2>2, <2>3, <2>4, MoveType DEF TypeOK, Launch
  <1>6. CASE Target(p)
    <2>1. CASE Goto(p, "reap")
      <3>1. "reap" \in Points
        BY DEF Points, LockedPoints, StopPoints
      <3>. QED BY <1>6, <2>1, <3>1, MoveType DEF TypeOK, Target
    <2>2. CASE ~Goto(p, "reap")
      BY <1>6, <2>2 DEF TypeOK, Target, Live, Points, LockedPoints, StopPoints
    <2>. QED BY <2>1, <2>2
  <1>7. CASE Ask(p) \/ Terminate(p) \/ Kill(p)
    <2>1. jvm' \in [JVMs -> {"off", "up", "exiting"}]
      BY <1>7 DEF Ask, Terminate, Kill, MayExit, TypeOK
    <2>2. \E l \in Points : Goto(p, l)
      BY <1>7 DEF Ask, Terminate, Kill, Points, LockedPoints, StopPoints, WaitPoints
    <2>. QED BY <1>7, <2>1, <2>2, MoveType DEF TypeOK, Ask, Terminate, Kill
  <1>8. CASE Reap(p)
    <2>1. /\ pane' \in JVMs \cup {"none", "script", "dead"}
          /\ jvm' \in [JVMs -> {"off", "up", "exiting"}]
      BY <1>8 DEF Reap, reap_session, TypeOK
    <2>2. CASE Leave(p)
      <3>1. "idle" \in Points
        BY DEF Points
      <3>. QED BY <1>8, <2>1, <2>2, <3>1, MoveType DEF TypeOK, Reap
    <2>3. CASE ~Leave(p)
      BY <1>8, <2>1, <2>3 DEF TypeOK, Reap, Points, LockedPoints, StartPoints
    <2>. QED BY <2>2, <2>3
  <1>. QED BY <1>1, <1>2, <1>3, <1>4, <1>5, <1>6, <1>7, <1>8 DEF Step

(* A step of a process leaves its command or moves on within it; the points *)
(* it may come to by moving on are few.                                     *)
MovesOn(p) ==
    /\ pc' = [pc EXCEPT ![p] = pc'[p]]
    /\ UNCHANGED <<lock, cmd, attempt>>
    /\ \/ pc'[p] = pc[p]
       \/ Holds(p) /\ pc'[p] \in LockedPoints
       \/ pc[p] = "probe" /\ pc'[p] = "adopt" /\ Live # {}
       \/ pc[p] = "adopt" /\ pc'[p] = "set-up"

(* How a step of a process may move it between program points. *)
LEMMA StepMoves ==
    ASSUME TypeOK, NEW p \in Procs, Step(p) \/ Abort(p)
    PROVE  Leave(p) \/ MovesOn(p)
  <1>1. ASSUME NEW l, Goto(p, l),
               Holds(p) /\ l \in LockedPoints
        PROVE  MovesOn(p)
    BY <1>1 DEF TypeOK, Goto, MovesOn
  <1>. USE DEF Holds, LockedPoints, StartPoints, StopPoints, WaitPoints
  <1>2. CASE Load(p)
    BY <1>2 DEF TypeOK, Load, MovesOn
  <1>3. CASE Save(p)
    <2>1. \/ Leave(p)
          \/ pc[p] = "set-down" /\ Goto(p, "target")
          \/ pc[p] = "set-up" /\ cmd[p] # "adopt" /\ Goto(p, "await")
      BY <1>3 DEF Save
    <2>. QED BY <1>1, <2>1
  <1>4. CASE FindNone(p) \/ ClearSession(p) \/ Launch(p) \/ Await(p)
    BY <1>1, <1>4 DEF FindNone, ClearSession, Launch, Await
  <1>5. CASE Target(p)
    BY <1>1, <1>5 DEF Target, TypeOK, MovesOn
  <1>6. CASE Ask(p) \/ Terminate(p) \/ Kill(p)
    BY <1>1, <1>6 DEF Ask, Terminate, Kill
  <1>7. CASE PidGone(p) \/ Survived(p)
    BY <1>1, <1>7 DEF PidGone, Survived
  <1>8. CASE Reap(p)
    BY <1>8 DEF Reap, TypeOK, MovesOn
  <1>9. CASE Busy(p) \/ CheckStopped(p) \/ SwapWorld(p)
    BY <1>1, <1>9 DEF Busy, CheckStopped, SwapWorld
  <1>10. CASE Probe(p) \/ Adopt(p) \/ Abort(p)
    BY <1>10 DEF Probe, Adopt, Abort, Goto, TypeOK, MovesOn
  <1>. QED BY <1>2, <1>3, <1>4, <1>5, <1>6, <1>7, <1>8, <1>9, <1>10 DEF Step

(* A step of a process keeps a recorded attempt recorded. *)
LEMMA StepAttempting ==
    ASSUME TypeInv, NEW p \in Procs, Step(p) \/ Abort(p)
    PROVE  Attempting'
  <1>. USE DEF Procs, TypeInv, TypeOK, Attempting, LockedPoints, StartPoints, StopPoints,
               WaitPoints
  <1>1. CASE Leave(p)
    BY <1>1 DEF Leave
  <1>2. CASE MovesOn(p)
    BY <1>2 DEF MovesOn, Holds
  <1>. QED BY <1>1, <1>2, StepMoves

(* The host and the passing of time touch no program counter. *)
HostStep == \/ ScriptRuns
            \/ \E j \in JVMs : Exit(j)
            \/ \E r \in Restarts : Age(r)

(* The host's own steps preserve the types. *)
LEMMA HostStepType ==
    ASSUME TypeInv, HostStep
    PROVE  TypeInv' /\ UNCHANGED <<lock, pc, cmd, attempt, pid>>
  <1>. USE DEF TypeInv, TypeOK, Attempting, HostStep, local
  <1>1. CASE ScriptRuns
    BY <1>1 DEF ScriptRuns, FreeJVMs, ghosts
  <1>2. ASSUME NEW j \in JVMs, Exit(j) PROVE TypeInv' /\ UNCHANGED <<lock, pc, cmd, attempt, pid>>
    BY <1>2 DEF Exit, ghosts
  <1>3. ASSUME NEW r \in Restarts, Age(r) PROVE TypeInv' /\ UNCHANGED <<lock, pc, cmd, attempt, pid>>
    BY <1>3 DEF Age, host, StateFile
  <1>. QED BY <1>1, <1>2, <1>3

(* The watchdog's own steps preserve the types. *)
LEMMA WatchType ==
    ASSUME TypeInv, Watch
    PROVE  TypeInv'
  <1>. USE DEF TypeInv, TypeOK, Attempting, LockedPoints, StartPoints, StopPoints, WaitPoints,
               Procs, host, ghosts, Goto
  <1>1. CASE Observe
    BY <1>1 DEF Observe, Points
  <1>2. CASE Decide
    BY <1>2, ActType DEF Decide, Points, EditPoints
  <1>3. CASE Backoff
    BY <1>3 DEF Backoff, Points, EditPoints
  <1>4. CASE Record
    BY <1>4, WriteType DEF Record, Points
  <1>5. CASE TakeLock
    BY <1>5 DEF TakeLock, Points, Leave
  <1>. QED BY <1>1, <1>2, <1>3, <1>4, <1>5 DEF Watch

(* Beginning a command preserves the types. *)
LEMMA BeginType ==
    ASSUME TypeInv, NEW u \in Users, NEW c \in UserCommands, Begin(u, c)
    PROVE  TypeInv'
  BY FirstPointType DEF Begin, TypeInv, TypeOK, Attempting, Procs, host, ghosts

(* TypeInv is inductive. *)
LEMMA TypeInvInductive == TypeInv /\ [Next]_vars => TypeInv'
  <1>. SUFFICES ASSUME TypeInv, [Next]_vars PROVE TypeInv'
    OBVIOUS
  <1>1. CASE \E u \in Users, c \in UserCommands : Begin(u, c)
    BY <1>1, BeginType
  <1>2. CASE \E p \in Procs : Step(p) \/ Abort(p)
    BY <1>2, StepType, StepAttempting DEF TypeInv
  <1>3. CASE Watch
    BY <1>3, WatchType
  <1>4. CASE HostStep
    BY <1>4, HostStepType
  <1>5. CASE UNCHANGED vars
    BY <1>5 DEF vars, TypeInv, TypeOK, Attempting
  <1>. QED BY <1>1, <1>2, <1>3, <1>4, <1>5 DEF Next, HostStep

(* TypeInv is an invariant of every instance. *)
LEMMA TypeInvariant == Spec => []TypeInv
  <1>1. Init => TypeInv
    <2>1. DEFAULT_STATE \in StateFile
      BY DEF StateFile, Desired, DEFAULT_STATE
    <2>2. \A st \in StateFile : set_armed(st, TRUE) \in StateFile
      BY DEF StateFile, set_armed
    <2>3. Init => file \in StateFile
      BY <2>1, <2>2 DEF Init
    <2>4. Init => Attempting
      BY DEF Init, Attempting, LockedPoints, StartPoints, StopPoints, WaitPoints, Procs
    <2>5. Init => /\ jvm \in [JVMs -> {"off", "up", "exiting"}]
                  /\ pc \in [Procs -> Points]
                  /\ cmd \in [Procs -> Commands \cup {"none"}]
                  /\ pid \in [Procs -> JVMs \cup {None}]
                  /\ mem \in [Procs -> StateFile \cup {None}]
      BY DEF Init, Points
    <2>. QED BY <2>3, <2>4, <2>5 DEF Init, TypeInv, TypeOK, Desired
  <1>. QED BY <1>1, TypeInvInductive, PTL DEF Spec

(* Every variable keeps to its type. *)
THEOREM TypeCorrect == Spec => []TypeOK
  BY TypeInvariant, PTL DEF TypeInv

(* A server the watchdog launches is one whose restart it has recorded      *)
(* before (watchdog.py, act).                                               *)
THEOREM LaunchesAreRecorded == Spec => []Attempting
  BY TypeInvariant, PTL DEF TypeInv

--------------------------------------------------------------------------------
(* Mutual exclusion. *)

LockInv ==
    /\ LockProtects
    /\ \A p \in Procs : pc[p] \in {"probe", "adopt"} => cmd[p] = "adopt"

(* A step inside an operation neither takes nor loses the lock. *)
LEMMA StepLock ==
    ASSUME TypeInv, LockInv, NEW p \in Procs, Step(p) \/ Abort(p)
    PROVE  LockInv'
  <1>. USE DEF TypeInv, TypeOK, LockInv, LockProtects
  <1>1. CASE Leave(p)
    BY <1>1 DEF Leave, Holds, LockedPoints, StartPoints, StopPoints, WaitPoints
  <1>2. CASE MovesOn(p)
    <2>1. \A q \in Procs \ {p} : Holds(q)' <=> Holds(q)
      BY <1>2 DEF MovesOn, Holds
    <2>2. Holds(p)' => Holds(p)
      BY <1>2 DEF MovesOn, Holds, LockedPoints, StartPoints, StopPoints, WaitPoints
    <2>3. lock' = lock
      BY <1>2 DEF MovesOn
    <2>4. \A q \in Procs : pc'[q] \in {"probe", "adopt"} => cmd'[q] = "adopt"
      BY <1>2 DEF MovesOn, Holds, LockedPoints, StartPoints, StopPoints, WaitPoints
    <2>. QED BY <2>1, <2>2, <2>3, <2>4
  <1>. QED BY <1>1, <1>2, StepMoves

(* The watchdog enters its operations with the lock. *)
LEMMA WatchLock ==
    ASSUME TypeInv, LockInv, Watch
    PROVE  LockInv'
  <1>. USE DEF TypeInv, TypeOK, LockInv, LockProtects, Holds, Goto, Procs, LockedPoints,
               StartPoints, StopPoints, WaitPoints
  <1>1. CASE Observe \/ Backoff
    BY <1>1 DEF Observe, Backoff
  <1>2. CASE Decide
    BY <1>2, ActType DEF Decide
  <1>3. CASE Record
    BY <1>3 DEF Record
  <1>4. CASE TakeLock
    BY <1>4 DEF TakeLock, Leave
  <1>. QED BY <1>1, <1>2, <1>3, <1>4 DEF Watch

(* A command that needs the lock begins with it. *)
LEMMA BeginLock ==
    ASSUME TypeInv, LockInv, NEW u \in Users, NEW c \in UserCommands, Begin(u, c)
    PROVE  LockInv'
  BY FirstPointType DEF Begin, NeedsLock, TypeInv, TypeOK, LockInv, LockProtects, Holds, Procs,
     StateOnly

(* No two operations that take the OpsLock ever overlap, however many       *)
(* processes there are and wherever they fail (util.py, OpsLock).           *)
THEOREM MutualExclusion == Spec => []LockProtects
  <1>1. Init => LockInv
    BY DEF Init, LockInv, LockProtects, Holds, LockedPoints, StartPoints, StopPoints, WaitPoints
  <1>2. TypeInv /\ LockInv /\ [Next]_vars => LockInv'
    <2>. SUFFICES ASSUME TypeInv, LockInv, [Next]_vars PROVE LockInv'
      OBVIOUS
    <2>1. CASE \E u \in Users, c \in UserCommands : Begin(u, c)
      BY <2>1, BeginLock
    <2>2. CASE \E p \in Procs : Step(p) \/ Abort(p)
      BY <2>2, StepLock
    <2>3. CASE Watch
      BY <2>3, WatchLock
    <2>4. CASE HostStep \/ UNCHANGED vars
      BY <2>4, HostStepType DEF vars, LockInv, LockProtects, Holds
    <2>. QED BY <2>1, <2>2, <2>3, <2>4 DEF Next, HostStep
  <1>. QED BY <1>1, <1>2, TypeInvariant, PTL DEF Spec, LockInv

--------------------------------------------------------------------------------
(* The session. *)

(* No step of a process leaves a serving server outside the session. *)
LEMMA StepInPane ==
    ASSUME TypeInv, ServingInPane, NEW p \in Procs, Step(p) \/ Abort(p)
    PROVE  ServingInPane'
  <1>. USE DEF TypeInv, TypeOK, ServingInPane
  <1>1. CASE UNCHANGED host
    BY <1>1 DEF host
  <1>2. CASE ClearSession(p) \/ Reap(p)
    BY <1>2 DEF ClearSession, Reap, reap_session
  <1>3. CASE Launch(p)
    BY <1>3 DEF Launch, NewSession, FreeJVMs, host
  <1>4. CASE Ask(p) \/ Terminate(p) \/ Kill(p)
    BY <1>4 DEF Ask, Terminate, Kill, MayExit
  <1>5. UNCHANGED host \/ ClearSession(p) \/ Reap(p) \/ Launch(p) \/ Ask(p)
          \/ Terminate(p) \/ Kill(p)
    BY DEF Step, Abort, Load, Save, FindNone, Await, Target, PidGone, Survived, Busy,
       CheckStopped, SwapWorld, Probe, Adopt
  <1>. QED BY <1>1, <1>2, <1>3, <1>4, <1>5

(* Neither does a step of the host. *)
LEMMA HostStepInPane ==
    ASSUME TypeInv, ServingInPane, HostStep
    PROVE  ServingInPane'
  <1>. USE DEF TypeInv, TypeOK, ServingInPane
  <1>1. CASE ScriptRuns
    BY <1>1 DEF ScriptRuns, FreeJVMs
  <1>2. CASE \E j \in JVMs : Exit(j)
    BY <1>2 DEF Exit
  <1>3. CASE \E r \in Restarts : Age(r)
    BY <1>3 DEF Age, host
  <1>. QED BY <1>1, <1>2, <1>3 DEF HostStep

(* The watchdog's own steps touch nothing on the host. *)
LEMMA WatchHost == Watch => UNCHANGED host
  BY DEF Watch, Observe, Decide, Backoff, Record, TakeLock

(* Whatever front ends skip the lock and however slow the start script is,  *)
(* a server that serves sits in the session that stop, kill and start reap  *)
(* (server.py, start and _reap_session).                                    *)
THEOREM SessionHoldsServer == Spec => []ServingInPane
  <1>1. Init => ServingInPane
    BY DEF Init, ServingInPane
  <1>2. TypeInv /\ ServingInPane /\ [Next]_vars => ServingInPane'
    <2>. SUFFICES ASSUME TypeInv, ServingInPane, [Next]_vars PROVE ServingInPane'
      OBVIOUS
    <2>1. CASE UNCHANGED host
      BY <2>1 DEF host, ServingInPane
    <2>2. CASE \E p \in Procs : Step(p) \/ Abort(p)
      BY <2>2, StepInPane
    <2>3. CASE HostStep
      BY <2>3, HostStepInPane
    <2>. QED BY <2>1, <2>2, <2>3, WatchHost DEF Next, HostStep, Begin, vars, host
  <1>. QED BY <1>1, <1>2, TypeInvariant, PTL DEF Spec

(* A completed stop leaves neither a serving server nor a start script that *)
(* would become one, even when somebody without the lock started another    *)
(* one meanwhile (server.py, stop).                                         *)
THEOREM StopIsComplete == Spec => StopLeavesNothing
  <1>1. ASSUME TypeInv, ServingInPane, NEW u \in Users, Reap(u)
        PROVE  Serving' = {} /\ pane' = "none"
    BY <1>1 DEF TypeInv, TypeOK, ServingInPane, Reap, reap_session, Serving
  <1>2. TypeInv /\ ServingInPane =>
          [\A u \in Users : cmd[u] = "stop" /\ Reap(u) => Serving' = {} /\ pane' = "none"]_vars
    BY <1>1
  <1>. QED BY <1>2, TypeInvariant, SessionHoldsServer, PTL DEF StopLeavesNothing

--------------------------------------------------------------------------------
(* One server per world.  These hold where every front end takes the lock   *)
(* and the start command is the server itself.                              *)

Disciplined == LockFree = {} /\ ~SlowScript

(* A process looks for a server long before it launches one or swaps the    *)
(* world; what it saw stays true, since nobody else holds the lock.         *)
WorldInv ==
    /\ OneServer
    /\ pane # "script"
    /\ \A p \in Procs : pc[p] \in {"clear", "launch", "swap"} => Live = {}

(* A launch apart, no step of a process brings a server to life. *)
LEMMA StepLive ==
    ASSUME TypeInv, NEW p \in Procs, Step(p) \/ Abort(p), ~Launch(p)
    PROVE  Live' \subseteq Live /\ pane' \in {pane, "none"}
  <1>. USE DEF TypeInv, TypeOK, Live
  <1>1. CASE UNCHANGED host
    BY <1>1 DEF host
  <1>2. CASE ClearSession(p) \/ Reap(p)
    BY <1>2 DEF ClearSession, Reap, reap_session
  <1>3. CASE Ask(p) \/ Terminate(p) \/ Kill(p)
    BY <1>3 DEF Ask, Terminate, Kill, MayExit
  <1>. QED BY <1>1, <1>2, <1>3 DEF Step, Abort, Load, Save, FindNone, Await, Target, PidGone,
              Survived, Busy, CheckStopped, SwapWorld, Probe, Adopt

(* The only ways to those points lead past a look that found no server. *)
LEMMA StepLooks ==
    ASSUME TypeInv, WorldInv, NEW p \in Procs, Step(p) \/ Abort(p),
           pc'[p] \in {"clear", "launch", "swap"}
    PROVE  Live = {}
  <1>. USE DEF TypeInv, TypeOK, WorldInv
  <1>1. CASE pc'[p] = pc[p]
    BY <1>1
  <1>2. CASE Leave(p)
    BY <1>2 DEF Leave
  <1>3. CASE pc'[p] # pc[p] /\ ~Leave(p)
    <2>1. CASE FindNone(p) \/ ClearSession(p) \/ CheckStopped(p)
      BY <2>1, <1>3 DEF FindNone, ClearSession, CheckStopped, Goto
    <2>2. CASE Load(p) \/ Save(p) \/ Launch(p) \/ Await(p) \/ Reap(p) \/ Target(p) \/ Abort(p)
      BY <2>2, <1>3 DEF Load, Save, Launch, Await, Reap, Target, Abort, Goto
    <2>3. CASE \/ Ask(p) \/ Terminate(p) \/ Kill(p) \/ PidGone(p) \/ Survived(p)
               \/ Busy(p) \/ SwapWorld(p) \/ Probe(p) \/ Adopt(p)
      BY <2>3, <1>3 DEF Ask, Terminate, Kill, PidGone, Survived, Busy, SwapWorld, Probe,
         Adopt, Goto
    <2>. QED BY <2>1, <2>2, <2>3 DEF Step
  <1>. QED BY <1>1, <1>2, <1>3

(* A step of a process keeps the world to one server. *)
LEMMA StepWorld ==
    ASSUME Disciplined, TypeInv, LockProtects, WorldInv, NEW p \in Procs, Step(p) \/ Abort(p)
    PROVE  WorldInv'
  <1>1. \A q \in Procs \ {p} : pc'[q] = pc[q]
    BY StepMoves DEF Leave, MovesOn, TypeInv, TypeOK
  <1>2. CASE ~Launch(p)
    <2>1. Live' \subseteq Live /\ pane' # "script"
      BY <1>2, StepLive DEF WorldInv
    <2>2. \A q \in Procs : pc'[q] \in {"clear", "launch", "swap"} => Live = {}
      BY <1>1, StepLooks DEF WorldInv
    <2>. QED BY <2>1, <2>2 DEF WorldInv, OneServer
  <1>3. CASE Launch(p)
    <2>1. Live = {}
      BY <1>3 DEF Launch, WorldInv
    <2>2. \A q \in Procs : pc'[q] \notin {"clear", "launch", "swap"}
      <3>1. ASSUME NEW q \in Procs \ {p}, pc[q] \in {"clear", "launch", "swap"}
            PROVE  FALSE
        <4>1. Holds(p) /\ Holds(q)
          BY <1>3, <3>1 DEF Launch, Holds, LockedPoints, StartPoints
        <4>. QED BY <4>1, <3>1 DEF LockProtects, Disciplined
      <3>2. pc'[p] \in {"set-up", "idle"}
        BY <1>3 DEF Launch, Goto, Leave, TypeInv, TypeOK
      <3>. QED BY <1>1, <3>1, <3>2
    <2>3. pane' # "script" /\ \A i, j \in Live' : i = j
      BY <1>3, <2>1 DEF Launch, NewSession, Live, host, Disciplined, WorldInv, TypeInv, TypeOK,
         FreeJVMs
    <2>. QED BY <2>2, <2>3 DEF WorldInv, OneServer
  <1>. QED BY <1>2, <1>3

(* One world, one server: an operator may start, stop, restart, kill,       *)
(* restore, abort anywhere, and the watchdog restart meanwhile; and no      *)
(* server is alive while restore swaps the world (server.py, start;         *)
(* backup.py, restore).                                                     *)
THEOREM OneServerPerWorld ==
    ASSUME Disciplined
    PROVE  Spec => [](OneServer /\ RestoreOffline)
  <1>1. Init => WorldInv
    BY DEF Init, WorldInv, OneServer, Live
  <1>2. TypeInv /\ LockProtects /\ WorldInv /\ [Next]_vars => WorldInv'
    <2>. SUFFICES ASSUME TypeInv, LockProtects, WorldInv, [Next]_vars PROVE WorldInv'
      OBVIOUS
    <2>1. CASE \E u \in Users, c \in UserCommands : Begin(u, c)
      <3>1. \A q \in Procs : pc'[q] \in {"clear", "launch", "swap"} => pc[q] = pc'[q]
        BY <2>1, FirstPointType DEF Begin, TypeInv, TypeOK, Procs
      <3>. QED BY <2>1, <3>1 DEF Begin, host, WorldInv, OneServer, Live
    <2>2. CASE \E p \in Procs : Step(p) \/ Abort(p)
      BY <2>2, StepWorld
    <2>3. CASE Watch
      <3>1. \A q \in Procs : pc'[q] \in {"clear", "launch", "swap"} => pc[q] = pc'[q]
        BY <2>3, ActType DEF Watch, Observe, Decide, Backoff, Record, TakeLock, Goto, Leave,
           TypeInv, TypeOK, Procs
      <3>. QED BY <2>3, <3>1, WatchHost DEF host, WorldInv, OneServer, Live
    <2>4. CASE HostStep
      <3>1. Live' \subseteq Live /\ pane' # "script"
        BY <2>4 DEF HostStep, ScriptRuns, Exit, Age, host, Live, WorldInv, TypeInv, TypeOK
      <3>. QED BY <2>4, <3>1, HostStepType DEF WorldInv, OneServer
    <2>5. CASE UNCHANGED vars
      BY <2>5 DEF vars, WorldInv, OneServer, Live
    <2>. QED BY <2>1, <2>2, <2>3, <2>4, <2>5 DEF Next, HostStep
  <1>3. WorldInv => OneServer /\ RestoreOffline
    BY DEF WorldInv, RestoreOffline
  <1>. QED BY <1>1, <1>2, <1>3, TypeInvariant, MutualExclusion, PTL DEF Spec

--------------------------------------------------------------------------------
(* The state file.  These hold where its helpers do not overlap, which one  *)
(* watchdog and one person at a time bring about but nothing enforces.      *)

(* While the watchdog acts the breaker has not tripped, and the copy an     *)
(* alert of it writes back is what the file already says.                   *)
HaltInv ==
    /\ \A u \in Users : mem[u] = None /\ pc[u] # "halt"
    /\ mem[WD] # None => pc[WD] = "alert" /\ ~mem[WD].halted
    /\ pc[WD] \notin {"idle", "decide"} => ~file.halted

(* Which edits of the state file clear the breaker, and which set it. *)
LEMMA EditedHalted ==
    ASSUME NEW st \in StateFile, NEW l \in EditPoints \ {"record"}
    PROVE  /\ st.halted /\ ~Edited(l, st).halted => l \in {"set-up", "set-armed"}
           /\ ~st.halted /\ Edited(l, st).halted => l = "halt"
           /\ Edited(l, st).restarts = st.restarts
  BY DEF Edited, EditPoints, StateFile, set_desired, set_armed, set_halted

(* A halted watchdog decides to do nothing. *)
LEMMA HaltedIsIdle ==
    ASSUME AtomicState, NEW o, NEW st, st.halted
    PROVE  Act(decide(o, st)).pc = "idle" /\ Act(decide(o, st)).mem = None
  <1>1. decide(o, st) = {"noop"}
    BY DEF decide
  <1>2. ~SlowAlert({"noop"})
    <2>1. {"noop"} \cap {"alert-tps", "alert-heap", "alert-disk"} = {}
      OBVIOUS
    <2>. QED BY <2>1, FS_EmptySet DEF SlowAlert
  <1>. QED BY <1>1, <1>2 DEF Act

(* All a step of a process does to the copies it has loaded. *)
LEMMA StepCopies ==
    ASSUME AtomicState, TypeInv, HaltInv, NEW p \in Procs, Step(p) \/ Abort(p)
    PROVE  /\ mem' = mem \/ mem' = [mem EXCEPT ![p] = None]
           /\ mem' = mem => pc'[p] = pc[p] \/ mem[p] = None
           /\ UNCHANGED file \/ Save(p)
  <1>. USE DEF TypeInv, TypeOK, HaltInv, Goto, Leave
  <1>1. CASE Load(p) \/ Save(p) \/ Abort(p) \/ Target(p) \/ Reap(p)
    BY <1>1 DEF Load, Save, Abort, Target, Reap, EditPoints, Procs
  <1>2. CASE ~(Load(p) \/ Save(p) \/ Abort(p) \/ Target(p) \/ Reap(p))
    BY <1>2 DEF Step, FindNone, ClearSession, Launch, Await, Ask, Terminate, Kill, PidGone,
       Survived, Busy, CheckStopped, SwapWorld, Probe, Adopt
  <1>. QED BY <1>1, <1>2

(* What saving the state file does to the breaker. *)
LEMMA SaveHalted ==
    ASSUME AtomicState, TypeInv, HaltInv, NEW p \in Procs, Save(p)
    PROVE  /\ p \in Users => file' = Edited(pc[p], file)
           /\ p = WD => ~file.halted /\ (pc'[p] # "idle" => ~file'.halted)
           /\ file.halted /\ ~file'.halted => p \in Users /\ pc[p] \in {"set-up", "set-armed"}
           /\ p \in Users /\ ~file.halted => ~file'.halted
  <1>. USE DEF TypeInv, TypeOK, HaltInv
  <1>1. pc[p] \in EditPoints \ {"record"} /\ file' = Edited(pc[p], Copy(p))
    BY DEF Save
  <1>2. CASE p \in Users
    <2>1. file' = Edited(pc[p], file)
      BY <1>1, <1>2 DEF Copy
    <2>. QED BY <1>1, <1>2, <2>1, EditedHalted, UsersAssumption
  <1>3. CASE p = WD
    <2>1. ~file.halted
      BY <1>1, <1>3 DEF EditPoints
    <2>2. Copy(p) \in StateFile /\ ~Copy(p).halted
      BY <1>3, <2>1, CopyType DEF Copy
    <2>3. file'.halted => pc[p] = "halt"
      BY <1>1, <2>2, EditedHalted
    <2>4. pc[p] = "halt" => pc'[p] = "idle"
      BY DEF Save, Leave
    <2>. QED BY <1>3, <2>1, <2>3, <2>4
  <1>. QED BY <1>2, <1>3 DEF Procs

(* A step of a process keeps the watchdog idle while the breaker is tripped. *)
LEMMA StepHalt ==
    ASSUME AtomicState, TypeInv, HaltInv, NEW p \in Procs, Step(p) \/ Abort(p)
    PROVE  HaltInv'
  <1>. USE DEF TypeInv, TypeOK, HaltInv
  <1>1. \A q \in Procs \ {p} : pc'[q] = pc[q] /\ mem'[q] = mem[q]
    BY StepMoves, StepCopies DEF Leave, MovesOn
  <1>2. pc'[p] # pc[p] => pc'[p] = "idle" \/ pc[p] \in LockedPoints \cup {"probe", "adopt"}
    BY StepMoves DEF Leave, MovesOn, Holds
  <1>3. pc'[p] = "halt" => pc[p] = "halt"
    BY StepMoves DEF Leave, MovesOn, Holds, LockedPoints, StartPoints, StopPoints, WaitPoints
  <1>4. mem'[p] # None => mem'[p] = mem[p] /\ pc'[p] = pc[p]
    BY StepCopies
  <1>5. \A u \in Users : mem'[u] = None /\ pc'[u] # "halt"
    BY <1>1, <1>3, <1>4 DEF Procs
  <1>6. mem'[WD] # None => pc'[WD] = "alert" /\ ~mem'[WD].halted
    BY <1>1, <1>4 DEF Procs
  <1>7. pc'[WD] \notin {"idle", "decide"} => ~file'.halted
    <2>1. CASE UNCHANGED file
      BY <1>1, <1>2, <2>1 DEF Procs, LockedPoints, StartPoints, StopPoints, WaitPoints
    <2>2. CASE Save(p)
      BY <1>1, <2>2, SaveHalted DEF Procs
    <2>. QED BY <2>1, <2>2, StepCopies
  <1>. QED BY <1>5, <1>6, <1>7

(* So does the watchdog itself. *)
LEMMA WatchHalt ==
    ASSUME AtomicState, TypeInv, HaltInv, Watch
    PROVE  HaltInv' /\ file'.halted = file.halted
  <1>. USE DEF TypeInv, TypeOK, HaltInv, Procs, Goto
  <1>1. CASE Observe \/ Backoff
    BY <1>1 DEF Observe, Backoff
  <1>2. CASE Decide
    <2>1. CASE file.halted
      BY <1>2, <2>1, HaltedIsIdle DEF Decide
    <2>2. CASE ~file.halted
      BY <1>2, <2>2, ActType DEF Decide
    <2>. QED BY <2>1, <2>2
  <1>3. CASE Record
    <2>1. file'.halted = file.halted
      BY <1>3 DEF Record, Copy, record_restart, StateFile
    <2>. QED BY <1>3, <2>1 DEF Record
  <1>4. CASE TakeLock
    BY <1>4 DEF TakeLock, Leave
  <1>. QED BY <1>1, <1>2, <1>3, <1>4 DEF Watch

(* So does the host. *)
LEMMA HostHalt ==
    ASSUME TypeInv, HaltInv, HostStep
    PROVE  HaltInv' /\ file'.halted = file.halted
  <1>. USE DEF TypeInv, TypeOK, HaltInv, Procs
  <1>1. CASE ScriptRuns \/ \E j \in JVMs : Exit(j)
    BY <1>1 DEF ScriptRuns, Exit, local
  <1>2. CASE \E r \in Restarts : Age(r)
    BY <1>2 DEF Age, StateFile
  <1>. QED BY <1>1, <1>2 DEF HostStep

(* So does a command that begins. *)
LEMMA BeginHalt ==
    ASSUME HaltInv, TypeInv, NEW u \in Users, NEW c \in UserCommands, Begin(u, c)
    PROVE  HaltInv' /\ file' = file
  BY FirstPointType DEF Begin, HaltInv, TypeInv, TypeOK, Procs

(* A tripped breaker keeps the watchdog from acting, in every reachable state. *)
LEMMA HaltInvariant ==
    ASSUME AtomicState
    PROVE  Spec => []HaltInv
  <1>1. Init => HaltInv
    BY DEF Init, HaltInv, Procs
  <1>2. TypeInv /\ HaltInv /\ [Next]_vars => HaltInv'
    <2>. SUFFICES ASSUME TypeInv, HaltInv, [Next]_vars PROVE HaltInv'
      OBVIOUS
    <2>1. CASE UNCHANGED vars
      BY <2>1 DEF vars, HaltInv
    <2>. QED BY <2>1, BeginHalt, StepHalt, WatchHalt, HostHalt DEF Next, HostStep
  <1>. QED BY <1>1, <1>2, TypeInvariant, PTL DEF Spec

(* Nothing the watchdog writes resets its own breaker, not even the launch  *)
(* that marks the server as wanted or an alert it writes back late          *)
(* (watchdog.py, act; state.py, set_desired).                               *)
THEOREM BreakerHolds ==
    ASSUME AtomicState
    PROVE  Spec => OnlyPeopleClearHalt
  <1>1. TypeInv /\ HaltInv /\ [Next]_vars =>
          [file.halted /\ ~file'.halted =>
              \E u \in Users : pc[u] \in {"set-up", "set-armed"}]_vars
    <2>. SUFFICES ASSUME TypeInv, HaltInv, [Next]_vars, file.halted, ~file'.halted
                  PROVE  \E u \in Users : pc[u] \in {"set-up", "set-armed"}
      OBVIOUS
    <2>1. \E p \in Procs : Step(p) \/ Abort(p)
      BY BeginHalt, WatchHalt, HostHalt DEF Next, HostStep, vars
    <2>2. \E p \in Procs : Save(p)
      BY <2>1, StepCopies
    <2>. QED BY <2>2, SaveHalted
  <1>. QED BY <1>1, TypeInvariant, HaltInvariant, PTL DEF Spec, OnlyPeopleClearHalt

--------------------------------------------------------------------------------
(* The restart budget. *)

(* A launch is recorded before it happens and recorded only while the       *)
(* budget has room; nothing but the passing of restart_window removes it.   *)
BudgetInv ==
    /\ IsFiniteSet(file.restarts) /\ Cardinality(file.restarts) <= MaxRestarts
    /\ pc[WD] \in {"backoff", "record"} => Cardinality(file.restarts) < MaxRestarts
    /\ launched \subseteq file.restarts
    /\ pc[WD] \in LockedPoints \cup {"lock"} => attempt \in file.restarts
    /\ mem[WD] # None => mem[WD].restarts = file.restarts
    /\ pc[WD] = "decide" => obs \in Observation

(* Cardinality of a finite set after one more element. *)
LEMMA OneMore ==
    ASSUME NEW S, NEW x, IsFiniteSet(S), Cardinality(S) < MaxRestarts
    PROVE  IsFiniteSet(S \cup {x}) /\ Cardinality(S \cup {x}) <= MaxRestarts
  <1>1. IsFiniteSet(S \cup {x})
    BY FS_AddElement
  <1>2. CASE x \in S
    <2>1. S \cup {x} = S
      BY <1>2
    <2>2. Cardinality(S) \in Nat /\ MaxRestarts \in Nat
      BY FS_CardinalityType, MaxRestartsAssumption
    <2>. QED BY <1>1, <2>1, <2>2
  <1>3. CASE x \notin S
    <2>1. Cardinality(S \cup {x}) = Cardinality(S) + 1
      BY <1>3, FS_AddElement
    <2>2. Cardinality(S) \in Nat /\ MaxRestarts \in Nat
      BY FS_CardinalityType, MaxRestartsAssumption
    <2>. QED BY <1>1, <2>1, <2>2
  <1>. QED BY <1>2, <1>3

(* A decision to start or restart finds budget left. *)
LEMMA DecideBudget ==
    ASSUME NEW o \in Observation, NEW st,
           Act(decide(o, st)).pc \in {"backoff", "record"}
    PROVE  ~BudgetSpent(st)
  <1>1. decide(o, st) \in {{"start"}, {"restart-frozen"}}
    BY DEF Act
  <1>2. \/ ~BudgetSpent(st)
        \/ decide(o, st) \in {{"noop"}, {"alert-ssh"}, {"halt-crashloop"}}
        \/ decide(o, st) \subseteq SoftActions
    BY DEF decide, Observation
  <1>. QED BY <1>1, <1>2 DEF SoftActions

(* A step of a process stays within the budget. *)
LEMMA StepBudget ==
    ASSUME AtomicState, TypeInv, HaltInv, BudgetInv, NEW p \in Procs, Step(p) \/ Abort(p)
    PROVE  BudgetInv'
  <1>. USE DEF TypeInv, TypeOK
  <1>1. file'.restarts = file.restarts
    <2>1. CASE UNCHANGED file
      BY <2>1
    <2>2. CASE Save(p)
      <3>1. pc[p] \in EditPoints \ {"record"} /\ file' = Edited(pc[p], Copy(p))
        BY <2>2 DEF Save
      <3>2. Copy(p).restarts = file.restarts
        BY DEF Copy, HaltInv, BudgetInv, Procs
      <3>. QED BY <3>1, <3>2, CopyType, EditedHalted
    <2>. QED BY <2>1, <2>2, StepCopies
  <1>2. \/ pc'[WD] \in {pc[WD], "idle"}
        \/ pc'[WD] \in LockedPoints /\ pc[WD] \in LockedPoints
    BY StepMoves DEF Leave, MovesOn, Holds, Procs, Attempting
  <1>3. attempt' = attempt \/ pc'[WD] = "idle"
    BY StepMoves DEF Leave, MovesOn, Procs
  <1>4. launched' \subseteq file.restarts
    <2>1. CASE Launch(p)
      BY <2>1 DEF Launch, BudgetInv, LockedPoints, StartPoints
    <2>2. CASE UNCHANGED launched
      BY <2>2 DEF BudgetInv
    <2>. QED BY <2>1, <2>2 DEF Step, Abort, Load, Save, FindNone, ClearSession, Await, Target,
                Ask, Terminate, Kill, PidGone, Survived, Reap, Busy, CheckStopped, SwapWorld,
                Probe, Adopt, ghosts
  <1>5. mem'[WD] # None => mem'[WD] = mem[WD]
    BY StepCopies DEF Procs
  <1>6. obs' = obs \/ pc'[WD] = "idle"
    BY DEF Step, Abort, Leave, Procs, Load, Save, FindNone, ClearSession, Launch, Await, Target,
       Ask, Terminate, Kill, PidGone, Survived, Reap, Busy, CheckStopped, SwapWorld, Probe, Adopt
  <1>. QED BY <1>1, <1>2, <1>3, <1>4, <1>5, <1>6 DEF BudgetInv, LockedPoints, StartPoints,
              StopPoints, WaitPoints

(* The watchdog's own steps stay within the budget. *)
LEMMA WatchBudget ==
    ASSUME AtomicState, TypeInv, HaltInv, BudgetInv, Watch
    PROVE  BudgetInv'
  <1>. USE DEF TypeInv, TypeOK, BudgetInv, Goto, ghosts, host, LockedPoints, StartPoints,
               StopPoints, WaitPoints, Procs
  <1>1. CASE Observe
    BY <1>1 DEF Observe
  <1>2. CASE Decide
    <2>1. pc'[WD] \in {"backoff", "record"} => ~BudgetSpent(file)
      BY <1>2, DecideBudget DEF Decide
    <2>2. Cardinality(file.restarts) \in Nat /\ MaxRestarts \in Nat
      BY FS_CardinalityType, MaxRestartsAssumption
    <2>3. pc'[WD] \in {"backoff", "record"} => Cardinality(file.restarts) < MaxRestarts
      BY <2>1, <2>2 DEF BudgetSpent
    <2>. QED BY <1>2, <2>3, ActType DEF Decide
  <1>3. CASE Backoff
    BY <1>3 DEF Backoff
  <1>4. CASE Record
    <2>1. Copy(WD) = file /\ Cardinality(file.restarts) < MaxRestarts
      BY <1>4 DEF Record, HaltInv, Copy
    <2>2. PICK r \in Restarts : file'.restarts = file.restarts \cup {r} /\ attempt' = r
      BY <1>4, <2>1 DEF Record, record_restart, StateFile
    <2>3. IsFiniteSet(file'.restarts) /\ Cardinality(file'.restarts) <= MaxRestarts
      <3>. HIDE DEF TypeInv, TypeOK
      <3>1. /\ IsFiniteSet(file.restarts \cup {r})
            /\ Cardinality(file.restarts \cup {r}) <= MaxRestarts
        BY <2>1, OneMore
      <3>. QED BY <2>2, <3>1
    <2>. QED BY <1>4, <2>2, <2>3 DEF Record
  <1>5. CASE TakeLock
    BY <1>5 DEF TakeLock, Leave
  <1>. QED BY <1>1, <1>2, <1>3, <1>4, <1>5 DEF Watch

(* The host's steps, ageing included, stay within the budget. *)
LEMMA HostBudget ==
    ASSUME TypeInv, BudgetInv, HostStep
    PROVE  BudgetInv'
  <1>. USE DEF TypeInv, TypeOK, BudgetInv, Procs
  <1>1. CASE ScriptRuns \/ \E j \in JVMs : Exit(j)
    BY <1>1 DEF ScriptRuns, Exit, local, ghosts
  <1>2. ASSUME NEW r \in Restarts, Age(r)
        PROVE  BudgetInv'
    <2>1. file'.restarts = file.restarts \ {r}
      BY <1>2 DEF Age, StateFile
    <2>2. /\ IsFiniteSet(file'.restarts)
          /\ Cardinality(file'.restarts) <= Cardinality(file.restarts)
      BY <2>1, FS_Subset
    <2>3. Cardinality(file.restarts) \in Nat /\ Cardinality(file'.restarts) \in Nat
          /\ MaxRestarts \in Nat
      BY <2>2, FS_CardinalityType, MaxRestartsAssumption
    <2>4. mem'[WD] # None => mem'[WD].restarts = file'.restarts
      BY <1>2, <2>1 DEF Age, StateFile
    <2>. QED BY <1>2, <2>1, <2>2, <2>3, <2>4 DEF Age
  <1>. QED BY <1>1, <1>2 DEF HostStep

(* Within one restart_window the watchdog launches at most max_restarts     *)
(* servers, whatever people do to the state file meanwhile (watchdog.py,    *)
(* decide and act).                                                         *)
THEOREM BudgetKept ==
    ASSUME AtomicState
    PROVE  Spec => []RestartBudget
  <1>1. Init => BudgetInv
    <2>1. DEFAULT_STATE \in StateFile /\ DEFAULT_STATE.restarts = {}
      BY DEF DEFAULT_STATE, StateFile, Desired
    <2>2. \A st \in StateFile : set_armed(st, TRUE).restarts = st.restarts
      BY DEF StateFile, set_armed
    <2>3. Init => file.restarts = {}
      BY <2>1, <2>2 DEF Init
    <2>4. IsFiniteSet({}) /\ Cardinality({}) <= MaxRestarts
      BY FS_EmptySet, MaxRestartsAssumption
    <2>. QED BY <2>3, <2>4 DEF Init, BudgetInv, LockedPoints, StartPoints, StopPoints,
                WaitPoints, Procs
  <1>2. TypeInv /\ HaltInv /\ BudgetInv /\ [Next]_vars => BudgetInv'
    <2>. SUFFICES ASSUME TypeInv, HaltInv, BudgetInv, [Next]_vars PROVE BudgetInv'
      OBVIOUS
    <2>1. CASE UNCHANGED vars
      BY <2>1 DEF vars, BudgetInv
    <2>2. CASE \E u \in Users, c \in UserCommands : Begin(u, c)
      BY <2>2 DEF Begin, BudgetInv, TypeInv, TypeOK, Procs, ghosts
    <2>. QED BY <2>1, <2>2, StepBudget, WatchBudget, HostBudget DEF Next, HostStep
  <1>3. BudgetInv => RestartBudget
    <2>. SUFFICES ASSUME BudgetInv PROVE RestartBudget
      OBVIOUS
    <2>1. Cardinality(launched) <= Cardinality(file.restarts)
      BY FS_Subset DEF BudgetInv
    <2>2. /\ Cardinality(launched) \in Nat /\ Cardinality(file.restarts) \in Nat
          /\ MaxRestarts \in Nat
      BY FS_Subset, FS_CardinalityType, MaxRestartsAssumption DEF BudgetInv
    <2>. QED BY <2>1, <2>2 DEF BudgetInv, RestartBudget
  <1>. QED BY <1>1, <1>2, <1>3, TypeInvariant, HaltInvariant, PTL DEF Spec

================================================================================
