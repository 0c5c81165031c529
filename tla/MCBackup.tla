-------------------------------- MODULE MCBackup --------------------------------
(***************************************************************************)
(* A small instance of Backup for TLC, in two parts: creates that take the *)
(* OpsLock, with prunes, over three archives of which the third is made     *)
(* with the server down; and two archives of creates and saves with and     *)
(* without the lock, and a console on which commands wait and repeat.       *)
(***************************************************************************)
EXTENDS Backup

VARIABLE part

(* Two archives a day, all in one week. *)
SmallDay == [t \in Times |-> t \div 2]
SmallWeek == [t \in Times |-> 0]

Running(commands) == \A p \in Clients : cmd[p] \in commands \cup {"none"}

Within ==
    \/ /\ part = "locked" /\ Running({"create", "cli-prune"})
       /\ Len(inbox) <= 1 /\ (up => clock <= 2)
    \/ /\ part = "any" /\ Running({"agent-create", "dash-create", "save"})
       /\ clock <= 2

MCInit == Init /\ part \in {"locked", "any"}
MCNext == Next /\ UNCHANGED part /\ Within'
MCSpec == MCInit /\ [][MCNext]_<<vars, part>>

(* Sound because no client is told apart from another. *)
Symmetric == Permutations(Clients)

================================================================================
