---------------------------------- MODULE Store ----------------------------------
(***************************************************************************)
(* A JSON state file (util.py load_json and save_json, state.py): each       *)
(* helper loads the whole file, changes a field, writes a temporary file of   *)
(* a fixed name and renames it.  Nothing locks the file.                     *)
(***************************************************************************)
EXTENDS Naturals

CONSTANTS
    Processes,
    Fields,     \* armed, desired, restarts, ...
    Unset,      \* a field's default
    Values,
    MaxSaves    \* bound: the files ever opened for writing

ASSUME StoreAssumption == MaxSaves \in Nat /\ Fields # {}

Torn == "torn"
Inodes == 1..MaxSaves
Default == [f \in Fields |-> Unset]

VARIABLES
    inode,      \* the content of each file: bytes is "new", "empty", "torn" or "json"
    tmp, final, \* what the two names lead to, 0 for nothing
    helper,     \* each process: where it is, what it sets, what it has loaded, the
                \* file it has open
    latest,     \* ghost: the field values of the helpers that are through
    mixed       \* ghost: two helpers overlapped

disk == <<inode, tmp, final>>
storeVars == <<disk, helper, latest, mixed>>

Resting == [at |-> "idle", field |-> CHOOSE f \in Fields : TRUE, value |-> Unset,
            loaded |-> Default, fd |-> 0]

FileInit ==
    /\ inode = [i \in Inodes |-> [bytes |-> "new", json |-> Default]]
    /\ tmp = 0 /\ final = 0
    /\ helper = [p \in Processes |-> Resting]
    /\ latest = Default /\ mixed = FALSE

(* A file that is missing or does not parse is read as the defaults. *)
LoadJson(i) == IF i # 0 /\ inode[i].bytes = "json" THEN inode[i].json ELSE Default

Set(p) == \* set_desired, set_armed, record_restart, should_alert: load, then change
    /\ helper[p].at = "idle"
    /\ \E f \in Fields, v \in Values :
         helper' = [helper EXCEPT ![p] =
            [at |-> "changed", field |-> f, value |-> v,
             loaded |-> [LoadJson(final) EXCEPT ![f] = v], fd |-> 0]]
    /\ mixed' = (mixed \/ \E o \in Processes \ {p} : helper[o].at # "idle")
    /\ UNCHANGED <<disk, latest>>

(* Mutant: the file itself is written. *)
MutantNamed == final

Named == tmp

(* open(tmp, "w") empties the file that another writer may still have open. *)
OpenTmp(p) ==
    /\ helper[p].at = "changed"
    /\ \E i \in Inodes :
         /\ IF Named # 0 THEN i = Named /\ UNCHANGED tmp
            ELSE /\ inode[i].bytes = "new" /\ \A j \in Inodes : inode[j].bytes = "new" => i <= j
                 /\ tmp' = i
         /\ inode' = [inode EXCEPT ![i].bytes = "empty"]
         /\ helper' = [helper EXCEPT ![p].at = "open", ![p].fd = i]
    /\ UNCHANGED <<final, latest, mixed>>

(* close writes the buffer at the start of the file; something longer that   *)
(* another writer has put there stays behind it.                             *)
CloseTmp(p) ==
    /\ helper[p].at = "open"
    /\ LET i == helper[p].fd
       IN  \E bytes \in IF inode[i].bytes = "empty" THEN {"json"} ELSE {"json", Torn} :
              inode' = [inode EXCEPT ![i] = [bytes |-> bytes, json |-> helper[p].loaded]]
    /\ helper' = [helper EXCEPT ![p].at = "written"]
    /\ UNCHANGED <<tmp, final, latest, mixed>>

Rename(p) == final' = tmp /\ tmp' = 0 /\ UNCHANGED inode

(* rename raises when another writer has taken the temporary file away. *)
Replace(p) ==
    /\ helper[p].at = "written"
    /\ IF tmp = 0 THEN UNCHANGED <<disk, latest>>
       ELSE Rename(p) /\ latest' = [latest EXCEPT ![helper[p].field] = helper[p].value]
    /\ helper' = [helper EXCEPT ![p] = Resting]
    /\ UNCHANGED mixed

(* The process is killed; what it has not flushed is lost. *)
KillHelper(p) ==
    /\ helper[p].at # "idle"
    /\ helper' = [helper EXCEPT ![p] = Resting]
    /\ UNCHANGED <<disk, latest, mixed>>

FileNext ==
    \E p \in Processes : Set(p) \/ OpenTmp(p) \/ CloseTmp(p) \/ Replace(p) \/ KillHelper(p)

FileSpec == FileInit /\ [][FileNext]_storeVars

--------------------------------------------------------------------------------

(* As long as no two helpers overlap, the file holds what the helpers that    *)
(* went through have set, every field of it, whenever a helper is killed, and  *)
(* is never seen half-written (util.py:260-274, state.py:42-70).              *)
UpdatesKept == ~mixed => LoadJson(final) = latest

================================================================================
