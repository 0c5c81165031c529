------------------------------- MODULE MCServerOps -------------------------------
(* Small instances of ServerOps for TLC. *)
EXTENDS ServerOps, TLC

Obs(ssh, up, frozen, alerts) ==
    [ssh_ok |-> ssh, proc_up |-> up, frozen |-> frozen, alerts |-> alerts]

(* Server down or healthy; the same with the link lost at times ... *)
PlainObservations == {Obs(TRUE, FALSE, FALSE, {}), Obs(TRUE, TRUE, FALSE, {})}
QuietObservations == PlainObservations \cup {Obs(FALSE, FALSE, FALSE, {})}

(* ... a silent log with a console that did not answer ... *)
FreezeObservations == QuietObservations \cup {Obs(TRUE, TRUE, TRUE, {})}

(* ... and two alerts of one pass. *)
AllObservations ==
    FreezeObservations \cup {Obs(TRUE, TRUE, FALSE, {"alert-tps", "alert-disk"})}

(* Sound only where no user is told apart from another. *)
Symmetric == Permutations(Users) \cup Permutations(JVMs) \cup Permutations(Restarts)
HostSymmetric == Permutations(JVMs) \cup Permutations(Restarts)

================================================================================
