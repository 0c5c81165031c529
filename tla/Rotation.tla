-------------------------------- MODULE Rotation --------------------------------
(***************************************************************************)
(* plan_rotation of backup.py.  An entry has a time stamp, `ts`, and may   *)
(* be a `full` archive; no two entries have the same time stamp.           *)
(***************************************************************************)
EXTENDS Integers, FiniteSets, SequencesExt

CONSTANTS
    Times,          \* time stamps of archives
    Day,            \* the date of a time stamp
    Week,           \* its ISO year and week, in order
    KeepRecent, KeepDaily, KeepWeekly

ASSUME TimesAssumption == Times \subseteq Nat
ASSUME CalendarAssumption == /\ Day \in [Times -> Nat] /\ Week \in [Times -> Nat]
                             /\ \A s, t \in Times : s < t => Day[s] <= Day[t] /\ Week[s] <= Week[t]
ASSUME KeepAssumption == KeepRecent \in Nat \ {0} /\ KeepDaily \in Nat /\ KeepWeekly \in Nat

(* Mutant: oldest first. *)
MutantSnaps(entries) ==
    LET snaps == {e \in entries : ~e.full} IN
    CHOOSE s \in [1..Cardinality(snaps) -> snaps] :
        \A i, j \in DOMAIN s : i < j => s[i].ts < s[j].ts

(* The backups of the world that are no full archives, newest first. *)
Snaps(entries) ==
    LET snaps == {e \in entries : ~e.full} IN
    CHOOSE s \in [1..Cardinality(snaps) -> snaps] :
        \A i, j \in DOMAIN s : i < j => s[i].ts > s[j].ts

(* Mutant: the last hit of a day wins. *)
MutantFirstHit(key, snaps) ==
    [k \in {key[e.ts] : e \in ToSet(snaps)} |->
        snaps[Max({i \in DOMAIN snaps : key[snaps[i].ts] = k})]]

(* setdefault over the snapshots: the first one met of each day or week.    *)
FirstHit(key, snaps) ==
    [k \in {key[e.ts] : e \in ToSet(snaps)} |->
        snaps[Min({i \in DOMAIN snaps : key[snaps[i].ts] = k})]]

(* sorted(keys, reverse=True)[:n] *)
Latest(keys, n) == {k \in keys : Cardinality({j \in keys : j > k}) < n}

plan_rotation(entries) ==
    LET snaps  == Snaps(entries)
        daily  == FirstHit(Day, snaps)
        weekly == FirstHit(Week, snaps)
        keep   == {snaps[i] : i \in DOMAIN snaps \cap 1..KeepRecent}
                    \cup {daily[d] : d \in Latest(DOMAIN daily, KeepDaily)}
                    \cup {weekly[w] : w \in Latest(DOMAIN weekly, KeepWeekly)}
    IN  [kept    |-> {e \in entries : e.full \/ e \in keep},
         dropped |-> ToSet(snaps) \ keep]

--------------------------------------------------------------------------------
(* The same policy without sorting or counting through a list: newest of    *)
(* its day or week, with few enough later days or weeks that have any.      *)

NewestOf(key, e, snaps) == \A f \in snaps : key[f.ts] = key[e.ts] => f.ts <= e.ts
Later(key, e, snaps) == {key[f.ts] : f \in {f \in snaps : key[f.ts] > key[e.ts]}}

Retained(entries) ==
    LET snaps == {e \in entries : ~e.full} IN
    {e \in entries :
        \/ e.full
        \/ Cardinality({f \in snaps : f.ts > e.ts}) < KeepRecent
        \/ NewestOf(Day, e, snaps) /\ Cardinality(Later(Day, e, snaps)) < KeepDaily
        \/ NewestOf(Week, e, snaps) /\ Cardinality(Later(Week, e, snaps)) < KeepWeekly}

================================================================================
