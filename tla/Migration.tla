-------------------------------- MODULE Migration --------------------------------
(***************************************************************************)
(* The first thing every command does (cli.py main): copy a directory of the *)
(* predecessor program to its new place, once, then make the directories     *)
(* that are missing (util.py migrate_legacy_dirs, ensure_dirs).              *)
(***************************************************************************)
EXTENDS FiniteSets

CONSTANTS
    Starters,   \* lulism commands that start
    Legacy      \* the files of the old directory

VARIABLES
    exists, files2,     \* the new directory and the files in it
    starter,    \* each command: "look", "make", "copy", "remove", "ensure" or "run"
    mine,       \* what the new directory held before the first of them
    trouble     \* ghost: a copy failed, a command was killed, or two of them overlapped

moving == <<exists, files2, starter, mine, trouble>>

Own == "own"

MigrateInit ==
    /\ exists \in BOOLEAN /\ files2 = (IF exists THEN {Own} ELSE {}) /\ mine = files2
    /\ starter = [p \in Starters |-> "new"]
    /\ trouble = FALSE

Go(p, place) == starter' = [starter EXCEPT ![p] = place]
Beside(p) == \E o \in Starters \ {p} : starter[o] \notin {"new", "run", "dead"}

(* Mutant: the directories are made first. *)
MutantLook(p) == exists' = TRUE /\ Go(p, "ensure")

Look(p) == Go(p, IF exists THEN "ensure" ELSE "make") /\ UNCHANGED exists

StartUp(p) ==
    /\ starter[p] = "new" /\ Look(p)
    /\ trouble' = (trouble \/ Beside(p))
    /\ UNCHANGED <<files2, mine>>

(* copytree makes the directory, and fails if it is there by now. *)
MakeDir(p) ==
    /\ starter[p] = "make"
    /\ IF exists THEN Go(p, "remove") /\ UNCHANGED exists
       ELSE Go(p, "copy") /\ exists' = TRUE
    /\ UNCHANGED <<files2, mine, trouble>>

(* It copies on when a file fails, and fails in the end. *)
CopyFile(p) ==
    /\ starter[p] = "copy"
    /\ \/ \E f \in Legacy \ files2 : exists /\ files2' = files2 \cup {f} /\ UNCHANGED <<starter, trouble>>
       \/ Legacy \subseteq files2 /\ Go(p, "ensure") /\ UNCHANGED <<files2, trouble>>
       \/ Go(p, "remove") /\ trouble' = TRUE /\ UNCHANGED files2
    /\ UNCHANGED <<exists, mine>>

RemoveCopy(p) ==
    /\ starter[p] = "remove" /\ Go(p, "ensure")
    /\ exists' = FALSE /\ files2' = {}
    /\ UNCHANGED <<mine, trouble>>

EnsureDirs(p) ==
    /\ starter[p] = "ensure" /\ Go(p, "run") /\ exists' = TRUE
    /\ UNCHANGED <<files2, mine, trouble>>

KillStarter(p) ==
    /\ starter[p] \notin {"new", "run", "dead"} /\ Go(p, "dead") /\ trouble' = TRUE
    /\ UNCHANGED <<exists, files2, mine>>

MigrateNext ==
    \E p \in Starters :
        StartUp(p) \/ MakeDir(p) \/ CopyFile(p) \/ RemoveCopy(p) \/ EnsureDirs(p) \/ KillStarter(p)

MigrateSpec == MigrateInit /\ [][MigrateNext]_moving

--------------------------------------------------------------------------------

(* A command runs with the whole of the old directory or with the one the     *)
(* user has made, unless a copy failed, a command was killed or two started   *)
(* at once; and what the user has made is never removed, even then            *)
(* (util.py:89-124).                                                        *)
MigratedWhole ==
    /\ mine \subseteq files2
    /\ ~trouble /\ mine = {} => \A p \in Starters : starter[p] = "run" => Legacy \subseteq files2

================================================================================
