--------------------------------- MODULE Restore ---------------------------------
(***************************************************************************)
(* Unpacking archives (backup.py, restore and extract): checks by the       *)
(* client, then one script on the host that moves the world aside and        *)
(* unpacks, which goes on when its client dies; a prune without the lock     *)
(* deletes archives meanwhile.                                              *)
(***************************************************************************)
EXTENDS Naturals, FiniteSets

CONSTANTS
    Restorers,  \* lulism invocations
    Archives,
    Parts,      \* the pieces tar writes of a world, one after the other
    Nobody

ASSUME NobodyAssumption == Nobody \notin Restorers

VARIABLES
    archive,    \* each archive: "good", "torn", "full" (of the whole instance) or "gone"
    dir,        \* what is in the world's directory and in extract's destination, as
                \* <<origin, part>>; nothing if the directory is missing
    kept,       \* the contents of the directories moved aside
    opsLock,
    job,        \* what each client does, with which archive, and where it is
    script,     \* its script on the host: "none", "begin", "unpack", "check", "ok" or
                \* "failed"
    serving,    \* the server runs
    orphan,     \* ghost: a client died while its script went on
    intruded    \* ghost: since the lock was taken somebody without it has started the server

unpacking == <<archive, dir, kept, opsLock, job, script, serving, orphan, intruded>>
excuses == <<orphan, intruded>>

World(origin) == {origin} \X Parts
Original == World("original")
Idle == [kind |-> "restore", of |-> Nobody, at |-> "idle"]
Target(p) == IF job[p].kind = "restore" THEN "world" ELSE "dest"

RestoreInit ==
    /\ archive \in [Archives -> {"good", "torn", "full", "gone"}]
    /\ dir = [world |-> Original, dest |-> {}] /\ kept = {}
    /\ opsLock = Nobody /\ serving \in BOOLEAN /\ orphan = FALSE /\ intruded = FALSE
    /\ job = [p \in Restorers |-> Idle] /\ script = [p \in Restorers |-> "none"]

--------------------------------------------------------------------------------
(* The client *)

StandsAt(p, place) == job[p].at = place
Move(p, place) == job' = [job EXCEPT ![p].at = place]
Leave(p, place) == Move(p, place) /\ opsLock' = Nobody
Unchanged == UNCHANGED <<archive, dir, kept, serving>>

(* Mutant: the lock is not taken. *)
MutantEnter(p) == UNCHANGED opsLock

Enter(p) == opsLock = Nobody /\ opsLock' = p

Invoke(p) ==
    /\ StandsAt(p, "idle") /\ script[p] = "none"
    /\ Enter(p)
    /\ \E kind \in {"restore", "extract"}, a \in Archives :
            job' = [job EXCEPT ![p] = [kind |-> kind, of |-> a, at |-> "exists"]]
    /\ intruded' = FALSE
    /\ Unchanged /\ UNCHANGED <<script, orphan>>

Check(p, place, passes, next) ==
    /\ StandsAt(p, place)
    /\ IF passes THEN Move(p, next) /\ UNCHANGED opsLock ELSE Leave(p, "refused")
    /\ Unchanged /\ UNCHANGED <<script, excuses>>

Exists(p) ==
    Check(p, "exists", archive[job[p].of] # "gone",
          IF job[p].kind = "restore" THEN "running" ELSE "verify")

(* restore only: nothing runs, and the archive is one of a world. *)
MayReplace(p) == Check(p, "running", ~serving /\ archive[job[p].of] # "full", "verify")

Verify(p) == Check(p, "verify", archive[job[p].of] \in {"good", "full"}, "launch")

Launch(p) ==
    /\ StandsAt(p, "launch") /\ Move(p, "wait")
    /\ script' = [script EXCEPT ![p] = "begin"]
    /\ Unchanged /\ UNCHANGED <<opsLock, excuses>>

Hear(p) ==
    /\ StandsAt(p, "wait") /\ script[p] \in {"ok", "failed"}
    /\ Leave(p, IF script[p] = "ok" THEN "restored" ELSE "failed")
    /\ script' = [script EXCEPT ![p] = "none"]
    /\ Unchanged /\ UNCHANGED excuses

(* The link breaks, the hour of the timeout is over, or Ctrl-C. *)
Die(p) ==
    /\ job[p].at \in {"exists", "running", "verify", "launch", "wait"}
    /\ Leave(p, "dead")
    /\ orphan' = (orphan \/ StandsAt(p, "wait"))
    /\ Unchanged /\ UNCHANGED <<script, intruded>>

--------------------------------------------------------------------------------
(* The script: set -e -o pipefail *)

Step(p, next) == script' = [script EXCEPT ![p] = next]

(* Mutant: the world is removed instead. *)
MutantAside == UNCHANGED kept

(* mv of the directory; into the older one if two are of the same second. *)
Aside == kept' = kept \cup {dir["world"]}

Start(p) ==
    /\ script[p] = "begin"
    /\ IF job[p].kind = "restore"
         THEN /\ Step(p, "unpack")
              /\ IF dir["world"] = {} THEN UNCHANGED <<dir, kept>>
                 ELSE Aside /\ dir' = [dir EXCEPT !["world"] = {}]
         ELSE /\ Step(p, IF dir["dest"] = {} THEN "unpack" ELSE "failed")
              /\ UNCHANGED <<dir, kept>>
    /\ UNCHANGED <<archive, opsLock, job, serving, excuses>>

(* Mutant: the status of a pipe is that of its last command. *)
MutantBroken == "check"

Broken == "failed"

(* tar adds the next part to whatever is there by now; the last ends it.  An  *)
(* archive that is deleted while it is read stays readable.                  *)
Unpack(p) ==
    /\ script[p] = "unpack"
    /\ LET missing == World(job[p].of) \ dir[Target(p)]
       IN  \/ /\ missing = {} /\ Step(p, "check") /\ UNCHANGED dir
           \/ /\ missing # {} /\ missing = World(job[p].of) => archive[job[p].of] # "gone"
              /\ \E piece \in missing : dir' = [dir EXCEPT ![Target(p)] = @ \cup {piece}]
              /\ UNCHANGED script
    /\ UNCHANGED <<archive, kept, opsLock, job, serving, excuses>>

(* The archive is gone, the disk is full, mv is not allowed. *)
Fail(p) ==
    /\ \/ script[p] = "begin" /\ Step(p, "failed")
       \/ script[p] = "unpack" /\ Step(p, Broken)
    /\ UNCHANGED <<archive, dir, kept, opsLock, job, serving, excuses>>

(* test -d, of restore only. *)
Test(p) ==
    /\ script[p] = "check"
    /\ Step(p, IF job[p].kind = "restore" /\ dir["world"] = {} THEN "failed" ELSE "ok")
    /\ UNCHANGED <<archive, dir, kept, opsLock, job, serving, excuses>>

--------------------------------------------------------------------------------
(* The others *)

Prune(a) ==
    /\ archive[a] \in {"good", "torn"} /\ archive' = [archive EXCEPT ![a] = "gone"]
    /\ UNCHANGED <<dir, kept, opsLock, job, script, serving, excuses>>

(* Parts of the world that are not there in any form. *)
Missing == Parts \ {piece[2] : piece \in dir["world"]}

(* They take the OpsLock, but for the dashboard's S and X and `config set     *)
(* --restart`.  A server that starts makes what is missing of its world.      *)
StartStop ==
    /\ serving' = ~serving
    /\ dir' = IF serving' THEN [dir EXCEPT !["world"] = @ \cup ({"fresh"} \X Missing)] ELSE dir
    /\ intruded' = (intruded \/ (serving' /\ opsLock # Nobody))
    /\ UNCHANGED <<archive, kept, opsLock, job, script, orphan>>

RestoreNext ==
    \/ \E p \in Restorers :
         \/ Invoke(p) \/ Exists(p) \/ MayReplace(p) \/ Verify(p) \/ Launch(p)
         \/ Hear(p) \/ Die(p)
         \/ Start(p) \/ Unpack(p) \/ Fail(p) \/ Test(p)
    \/ \E a \in Archives : Prune(a)
    \/ StartStop

RestoreSpec == RestoreInit /\ [][RestoreNext]_unpacking

--------------------------------------------------------------------------------

(* Whatever fails, dies or overlaps, the world that was live is somewhere in   *)
(* one piece, in its place or aside (backup.py:261-289: "never deleted").     *)
NothingLost == \E d \in kept \cup {dir["world"]} : Original \subseteq d

(* A restore that reports success has left the archive's world and nothing   *)
(* else in place, and so has an extract in its destination, although archives *)
(* are pruned and clients die meanwhile; not when the script of a dead client *)
(* goes on, or somebody starts the server without the lock                   *)
(* (backup.py:261-326).                                                     *)
RestoredIsArchive ==
    [][\A p \in Restorers :
          job[p].at # "restored" /\ job'[p].at = "restored" /\ ~orphan /\ ~intruded
              => dir[Target(p)] = World(job[p].of)]_unpacking

Replacing(p) == script[p] \in {"begin", "unpack", "check"} /\ Target(p) = "world"

(* The server never runs on a world that is being replaced, unless the client *)
(* of that restore has died or the server was started without the lock        *)
(* (backup.py:268 and the OpsLock).                                         *)
NoHalfWorldServed ==
    serving /\ ~orphan /\ ~intruded => \A p \in Restorers : ~Replacing(p)

================================================================================
