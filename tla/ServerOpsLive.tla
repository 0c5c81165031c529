------------------------------ MODULE ServerOpsLive ------------------------------
(***************************************************************************)
(* Liveness of ServerOps.  A behaviour may become calm: from then on       *)
(* nobody types a command, no process fails and the watchdog's link holds. *)
(* Before that anything goes, and nothing makes it become calm.            *)
(***************************************************************************)
EXTENDS ServerOps

VARIABLE calm

liveVars == <<vars, calm>>

LiveInit == Init /\ calm = FALSE

CalmDown == ~calm /\ calm' = TRUE /\ UNCHANGED vars

(* Servers still crash and start scripts still fail in calm times. *)
CalmNext ==
    \/ \E p \in Procs : Step(p)
    \/ Observe /\ obs'.ssh_ok
    \/ Decide \/ Backoff \/ Record \/ TakeLock
    \/ ScriptRuns
    \/ \E j \in JVMs : Exit(j)
    \/ \E r \in Restarts : Age(r)

LiveNext ==
    \/ CalmDown
    \/ ~calm /\ Next /\ UNCHANGED calm
    \/ calm /\ CalmNext /\ UNCHANGED calm

(* Every wait of an operation has a time limit, the daemon loops forever    *)
(* and survives its exceptions, so a process that is under way moves on.    *)
(* Nothing obliges a person, a fault or the host.                           *)
Fairness == /\ \A p \in Procs : WF_vars(Step(p))
            /\ WF_vars(Observe) /\ WF_vars(Decide \/ Backoff \/ Record \/ TakeLock)

LiveSpec == LiveInit /\ [][LiveNext]_liveVars /\ Fairness

--------------------------------------------------------------------------------

(* No operation keeps the OpsLock forever, whatever fails inside it (util.py, *)
(* OpsLock; server.py, the deadlines of start and stop).                      *)
LockReleased == \A p \in Procs : lock = p ~> lock # p

Coming == pane = "script" \/ Serving # {}
NoHealing == file.halted \/ ~file.armed

(* In calm times a watchdog that is armed and not halted launches a server  *)
(* that should be up and is not, or trips the breaker (watchdog.py, step).  *)
SelfHeals ==
    calm /\ file.desired = "up" /\ Live = {}
        ~> Coming \/ NoHealing \/ file.desired = "down"

(* The same for what people asked for, whatever the state file says of it:  *)
(* a server wanted up comes back unless the breaker or the arm switch is    *)
(* in the way (README, Self-healing semantics).                             *)
IntentHealed ==
    calm /\ intent = "up" /\ Live = {} ~> Coming \/ NoHealing

================================================================================
