----------------------------- MODULE WatchdogState -----------------------------
(***************************************************************************)
(* The watchdog's state file (state.py) and its decision function          *)
(* (watchdog.py, decide), as operators on values.  ServerOps gives them    *)
(* their interleaving.                                                     *)
(*                                                                         *)
(* A restart timestamp is a member of Restarts; the list of timestamps     *)
(* that lie inside restart_window is the set `restarts`.  Older entries    *)
(* decide nothing, so they are not kept.                                   *)
(***************************************************************************)
EXTENDS Naturals, FiniteSets

CONSTANTS
    Restarts,       \* identities of restart timestamps
    MaxRestarts     \* watchdog.max_restarts

ASSUME MaxRestartsAssumption == MaxRestarts \in Nat \ {0}

Desired == {"up", "down"}

(* The fields of watchdog.json that decide anything; last_alerts only rate- *)
(* limits notifications and is abstracted to a free choice in ServerOps.    *)
StateFile == [armed: BOOLEAN, desired: Desired, halted: BOOLEAN,
              restarts: SUBSET Restarts]

(* Mutant: an empty file wants nothing in particular. *)
MutantDefaultState ==
    [armed |-> FALSE, desired |-> "", halted |-> FALSE, restarts |-> {}]

DEFAULT_STATE ==
    [armed |-> FALSE, desired |-> "down", halted |-> FALSE, restarts |-> {}]

(* Mutant: a stop re-arms the breaker as well. *)
MutantSetDesired(st, d) == [st EXCEPT !.desired = d, !.halted = FALSE]

set_desired(st, d) ==
    [st EXCEPT !.desired = d, !.halted = IF d = "up" THEN FALSE ELSE @]

set_armed(st, a) ==
    [st EXCEPT !.armed = a, !.halted = IF a THEN FALSE ELSE @]

record_restart(st, r) == [st EXCEPT !.restarts = @ \cup {r}]

set_halted(st) == [st EXCEPT !.halted = TRUE]

--------------------------------------------------------------------------------
(* What one probe of the host tells the watchdog.  `frozen` stands for      *)
(* log_age_s >= freeze_log_age together with a console that did not answer; *)
(* `alerts` for the thresholds that were crossed and the autosave timer.    *)

SoftActions == {"alert-tps", "alert-heap", "alert-disk", "autosave"}

Observation == [ssh_ok: BOOLEAN, proc_up: BOOLEAN, frozen: BOOLEAN,
                alerts: SUBSET SoftActions]

(* Mutant: off by one. *)
MutantBudgetSpent(st) == Cardinality(st.restarts) > MaxRestarts

BudgetSpent(st) == Cardinality(st.restarts) >= MaxRestarts

(* Mutant: a spent budget is passed over in silence. *)
MutantDecide(obs, st) ==
    IF ~st.armed \/ st.halted THEN {"noop"}
    ELSE IF ~obs.ssh_ok THEN {"alert-ssh"}
    ELSE IF st.desired = "up" /\ ~obs.proc_up THEN
        (IF BudgetSpent(st) THEN {"noop"} ELSE {"start"})
    ELSE IF obs.proc_up /\ obs.frozen THEN
        (IF BudgetSpent(st) THEN {"halt-crashloop"} ELSE {"restart-frozen"})
    ELSE IF obs.proc_up /\ obs.alerts # {} THEN obs.alerts
    ELSE {"noop"}

(* The list of actions decide returns, as a set: START, RESTART_FROZEN and  *)
(* HALT_CRASHLOOP are always returned alone.                                *)
decide(obs, st) ==
    IF ~st.armed \/ st.halted THEN {"noop"}
    ELSE IF ~obs.ssh_ok THEN {"alert-ssh"}
    ELSE IF st.desired = "up" /\ ~obs.proc_up THEN
        (IF BudgetSpent(st) THEN {"halt-crashloop"} ELSE {"start"})
    ELSE IF obs.proc_up /\ obs.frozen THEN
        (IF BudgetSpent(st) THEN {"halt-crashloop"} ELSE {"restart-frozen"})
    ELSE IF obs.proc_up /\ obs.alerts # {} THEN obs.alerts
    ELSE {"noop"}

================================================================================
