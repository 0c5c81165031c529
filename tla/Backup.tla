--------------------------------- MODULE Backup ---------------------------------
(***************************************************************************)
(* World backups (backup.py) while the server runs, stops and crashes:     *)
(* save-off, save-all flush, the wait for it, the archive script on the    *)
(* host, save-on, and rotation, by several clients at once.                *)
(*                                                                         *)
(* The script on the host outlives a client whose link breaks.  An archive *)
(* is `clean` as long as nothing has written the world since its script    *)
(* began to read it: whole, it is the world of one moment then.            *)
(***************************************************************************)
EXTENDS Rotation

CONSTANTS
    Clients,        \* lulism invocations
    UserCommands,   \* what they may run
    MaxInbox,       \* bound on the commands waiting at the server's console
    None

(* The CLI's and the GUI's create, the agent's and the dashboard's.         *)
Creates == {"create", "agent-create", "dash-create"}
Commands == Creates \cup {"prune", "cli-prune", "save"}

(* What the dashboard, `backup prune` and `save` do without the OpsLock;    *)
(* "save" is also the agent's, the watchdog's and the key of the dashboard. *)
Lockless == {"dash-create", "cli-prune", "save"}

(* Mutant: the agent forgets the lock. *)
MutantNeedsLock(c) == c \notin Lockless \cup {"agent-create"}

NeedsLock(c) == c \notin Lockless

ASSUME ClientsAssumption == None \notin Clients \cup Times
ASSUME CommandsAssumption == UserCommands \subseteq Commands
ASSUME InboxAssumption == MaxInbox \in Nat

VARIABLES
    up,         \* the game server is running
    autosave,   \* its autosave switch
    inbox,      \* console commands it has received and not yet executed
    files,      \* the archive directory
    clock,      \* the next time stamp
    lock,       \* the client holding the OpsLock, or None
    pc,         \* where each client is
    cmd,        \* what it runs
    stamp,      \* the time stamp in its archive's name
    running,    \* what it found out about the server
    ok,         \* its archive script has reported success
    doomed,     \* what it is about to delete
    unheard,    \* ghost: a save-on was lost and no other has been executed since
    abandoned,  \* ghost: the same of a pause that was interrupted before it was over
    meddled     \* ghost: while the holder of the lock makes its archive, somebody without the
                \*        lock has used the console, or started or stopped the server

server == <<up, autosave, inbox>>
disk == <<files, clock>>
local == <<cmd, stamp, running, ok, doomed>>
switch == <<unheard, abandoned>>
ghosts == <<switch, meddled>>
vars == <<server, disk, lock, pc, local, ghosts>>

Words == {"save-off", "save-all", "save-on"}     \* save-all stands for `save-all flush`

(* `tmp` while its name ends in .tmp, `busy` while its script runs,         *)
(* `reported` when create has returned it.  `excuse` is a ghost: its maker  *)
(* had no lock, did not wait to the end of its flush, or was meddled with.  *)
File == [ts: Times, full: BOOLEAN, tmp: BOOLEAN, busy: BOOLEAN, clean: BOOLEAN,
         reported: BOOLEAN, excuse: BOOLEAN]

Paused == {"flush", "wait", "undo", "tar", "pack", "rm", "on"}
Points == {"idle", "look", "off", "list", "delete", "send"} \cup Paused

(* Types; and what bears a final name is whole, and one of its time.        *)
TypeOK ==
    /\ {up, autosave, unheard, abandoned, meddled} \subseteq BOOLEAN
    /\ inbox \in Seq(Words)
    /\ files \subseteq File
    /\ \A f \in files : /\ f.busy => f.tmp
                        /\ f.reported => ~f.tmp
                        /\ \A g \in files : f.ts = g.ts => f = g
    /\ clock \in Nat
    /\ lock \in Clients \cup {None}
    /\ pc \in [Clients -> Points]
    /\ cmd \in [Clients -> Commands \cup {"none"}]
    /\ stamp \in [Clients -> Times \cup {None}]
    /\ {running, ok} \subseteq [Clients -> BOOLEAN]
    /\ doomed \in [Clients -> SUBSET File]

Init ==
    /\ up \in BOOLEAN
    /\ autosave = TRUE
    /\ inbox = <<>>
    /\ files = {}
    /\ clock = 0
    /\ lock = None
    /\ pc = [p \in Clients |-> "idle"]
    /\ cmd = [p \in Clients |-> "none"]
    /\ stamp = [p \in Clients |-> None]
    /\ running = [p \in Clients |-> FALSE]
    /\ ok = [p \in Clients |-> FALSE]
    /\ doomed = [p \in Clients |-> {}]
    /\ unheard = FALSE /\ abandoned = FALSE /\ meddled = FALSE

--------------------------------------------------------------------------------
(* Whoever writes the world spoils the archives that are being read. *)
Spoilt == {IF f.busy THEN [f EXCEPT !.clean = FALSE] ELSE f : f \in files}

Leave(p) ==
    /\ pc' = [pc EXCEPT ![p] = "idle"]
    /\ cmd' = [cmd EXCEPT ![p] = "none"]
    /\ stamp' = [stamp EXCEPT ![p] = None]
    /\ running' = [running EXCEPT ![p] = FALSE]
    /\ ok' = [ok EXCEPT ![p] = FALSE]
    /\ doomed' = [doomed EXCEPT ![p] = {}]
    /\ lock' = IF lock = p THEN None ELSE lock

Goto(p, l) == pc' = [pc EXCEPT ![p] = l] /\ UNCHANGED <<lock, local>>

(* Console.send: RCON, and tmux when RCON's reply is lost.  It returns when *)
(* the server has the command, or never will because it is down ...         *)
Delivered(word) ==
    \/ ~up /\ UNCHANGED inbox
    \/ up /\ Len(inbox) < MaxInbox /\ inbox' = Append(inbox, word)
    \/ up /\ Len(inbox) + 1 < MaxInbox /\ inbox' = inbox \o <<word, word>>

(* ... or it raises, and perhaps the server has the command nevertheless.   *)
Failed(word) ==
    \/ UNCHANGED inbox
    \/ up /\ Len(inbox) < MaxInbox /\ inbox' = Append(inbox, word)

(* From find_pid to the script's reply. *)
LockedArchive == \E p \in Clients : lock = p /\ pc[p] \in {"off", "flush", "wait", "tar", "pack"}

(* A client without the lock uses the console. *)
Meddle(p) == meddled' = (meddled \/ (LockedArchive /\ cmd[p] \in Lockless))

(* save-on, with every exception suppressed. *)
SaveOn(p) ==
    /\ Delivered("save-on") \/ Failed("save-on")
    /\ unheard' = (unheard \/ (up /\ inbox' = inbox))
    /\ Meddle(p)
    /\ UNCHANGED abandoned

--------------------------------------------------------------------------------
FirstPoint(c) ==
    CASE c \in Creates -> "look"
      [] c \in {"prune", "cli-prune"} -> "list"
      [] c = "save" -> "send"

(* The name of an archive is made first, from the time of day. *)
Begin(p, c) ==
    /\ pc[p] = "idle"
    /\ NeedsLock(c) => lock = None
    /\ lock' = IF NeedsLock(c) THEN p ELSE lock
    /\ pc' = [pc EXCEPT ![p] = FirstPoint(c)]
    /\ cmd' = [cmd EXCEPT ![p] = c]
    /\ IF c \in Creates
       THEN clock \in Times /\ stamp' = [stamp EXCEPT ![p] = clock] /\ clock' = clock + 1
       ELSE UNCHANGED <<stamp, clock>>
    /\ UNCHANGED <<server, files, running, ok, doomed, ghosts>>

(* The disk has room or BackupError; then find_pid, asked once.             *)
Look(p) ==
    /\ pc[p] = "look"
    /\ \/ /\ running' = [running EXCEPT ![p] = up]
          /\ pc' = [pc EXCEPT ![p] = IF up THEN "off" ELSE "tar"]
          /\ meddled' = (meddled /\ lock # p)
          /\ UNCHANGED <<lock, cmd, stamp, ok, doomed>>
       \/ Leave(p) /\ UNCHANGED meddled
    /\ UNCHANGED <<server, disk, switch>>

(* log_size, and save-off. *)
SaveOff(p) ==
    /\ pc[p] = "off"
    /\ \/ Delivered("save-off") /\ Goto(p, "flush")
       \/ Failed("save-off") /\ Goto(p, "undo")
    /\ Meddle(p)
    /\ UNCHANGED <<up, autosave, disk, switch>>

Flush(p) ==
    /\ pc[p] = "flush"
    /\ \/ Delivered("save-all") /\ Goto(p, "wait")
       \/ Failed("save-all") /\ Goto(p, "undo")
    /\ Meddle(p)
    /\ UNCHANGED <<up, autosave, disk, switch>>

(* wait_in_log returns when anybody's flush is over or gives up after a     *)
(* minute, and its result is not used.                                      *)
Wait(p) ==
    /\ pc[p] = "wait"
    /\ Goto(p, "tar") \/ Goto(p, "undo")
    /\ UNCHANGED <<server, disk, ghosts>>

Undo(p) ==
    /\ pc[p] = "undo"
    /\ SaveOn(p)
    /\ Leave(p)
    /\ UNCHANGED <<up, autosave, disk>>

Begun(p, full) ==
    [ts |-> stamp[p], full |-> full, tmp |-> TRUE, busy |-> TRUE, clean |-> TRUE,
     reported |-> FALSE, excuse |-> cmd[p] \in Lockless \/ "save-all" \in ToSet(inbox)]

(* The script starts on the host. *)
Tar(p) ==
    /\ pc[p] = "tar"
    /\ \E full \in BOOLEAN : files' = files \cup {Begun(p, full)}
    /\ Goto(p, "pack")
    /\ UNCHANGED <<server, clock, ghosts>>

Mine(p) == {f \in files : f.ts = stamp[p]}

Returned(f) == [f EXCEPT !.reported = TRUE, !.excuse = ~f.clean /\ (@ \/ meddled)]

(* Its reply; or an error: it failed, took an hour, or the link is gone.    *)
Pack(p) ==
    /\ pc[p] = "pack"
    /\ \/ \E f \in Mine(p) :
            /\ ~f.tmp
            /\ files' = (files \ {f}) \cup {Returned(f)}
            /\ ok' = [ok EXCEPT ![p] = TRUE]
            /\ pc' = [pc EXCEPT ![p] = "on"]
            /\ UNCHANGED <<lock, cmd, stamp, running, doomed>>
       \/ Goto(p, "rm") /\ UNCHANGED files
    /\ meddled' = (meddled /\ lock # p)
    /\ UNCHANGED <<server, clock, switch>>

(* rm -f of the temporary file, which may fail as well. *)
Unlink(p) ==
    /\ pc[p] = "rm"
    /\ files' \in {files, files \ {f \in Mine(p) : f.tmp}}
    /\ Goto(p, "on")
    /\ UNCHANGED <<server, clock, ghosts>>

(* Mutant: no save-on after a failed script. *)
MutantResume(p) ==
    /\ pc[p] = "on"
    /\ IF running[p] /\ ok[p] THEN SaveOn(p) ELSE UNCHANGED <<inbox, ghosts>>
    /\ IF ok[p] /\ cmd[p] = "create" THEN Goto(p, "list") ELSE Leave(p)
    /\ UNCHANGED <<up, autosave, disk>>

(* The `finally`; after it a create of the CLI or the GUI prunes.           *)
Resume(p) ==
    /\ pc[p] = "on"
    /\ IF running[p] THEN SaveOn(p) ELSE UNCHANGED <<inbox, ghosts>>
    /\ IF ok[p] /\ cmd[p] = "create" THEN Goto(p, "list") ELSE Leave(p)
    /\ UNCHANGED <<up, autosave, disk>>

(* Every name that list accepts, a .tmp file's as well, goes into the plan. *)
List(p) ==
    /\ pc[p] = "list"
    /\ LET dropped == plan_rotation(files).dropped IN
       \/ /\ dropped # {}
          /\ doomed' = [doomed EXCEPT ![p] = dropped]
          /\ pc' = [pc EXCEPT ![p] = "delete"]
          /\ UNCHANGED <<lock, cmd, stamp, running, ok>>
       \/ dropped = {} /\ Leave(p)
    /\ UNCHANGED <<server, disk, ghosts>>

(* rm -f of the listed names. *)
Delete(p) ==
    /\ pc[p] = "delete"
    /\ files' \in {files,
                   {f \in files : \A g \in doomed[p] : f.ts # g.ts \/ f.tmp # g.tmp}}
    /\ Leave(p)
    /\ UNCHANGED <<server, clock, ghosts>>

Send(p) ==
    /\ pc[p] = "send"
    /\ Delivered("save-all") \/ Failed("save-all")
    /\ Meddle(p)
    /\ Leave(p)
    /\ UNCHANGED <<up, autosave, disk, switch>>

(* Ctrl-C is no Exception: a `finally` still sends save-on, the handler of  *)
(* a failed flush does not.                                                 *)
Interrupt(p) ==
    /\ pc[p] # "idle"
    /\ IF pc[p] \in {"tar", "pack", "rm"} THEN Goto(p, "on") ELSE Leave(p)
    /\ abandoned' = (abandoned \/ (running[p] /\ pc[p] \in {"flush", "wait", "undo", "on"}))
    /\ UNCHANGED <<server, disk, unheard, meddled>>

--------------------------------------------------------------------------------
(* Mutant: the script writes under the final name. *)
MutantScript(f) ==
    /\ f.busy
    /\ \E renamed \in BOOLEAN :
          files' = (files \ {f}) \cup {[f EXCEPT !.busy = renamed, !.tmp = ~renamed]}
    /\ UNCHANGED <<server, clock, lock, pc, local, ghosts>>

(* Only a whole archive is worth judging. *)
Ended(f, renamed) ==
    [f EXCEPT !.busy = FALSE, !.tmp = ~renamed, !.clean = @ /\ renamed, !.excuse = @ /\ renamed]

(* The host: the archive passes its test and is renamed, or the script ends *)
(* somewhere before.                                                        *)
Script(f) ==
    /\ f.busy
    /\ \E renamed \in BOOLEAN : files' = (files \ {f}) \cup {Ended(f, renamed)}
    /\ UNCHANGED <<server, clock, lock, pc, local, ghosts>>

(* The server executes a console command. *)
Execute ==
    /\ up /\ inbox # <<>>
    /\ inbox' = Tail(inbox)
    /\ LET word == Head(inbox) IN
          /\ autosave' = CASE word = "save-off" -> FALSE
                           [] word = "save-on" -> TRUE
                           [] OTHER -> autosave
          /\ files' = IF word = "save-all" THEN Spoilt ELSE files
          /\ IF word = "save-on" /\ "save-off" \notin ToSet(Tail(inbox))
             THEN unheard' = FALSE /\ abandoned' = FALSE
             ELSE UNCHANGED switch
    /\ UNCHANGED <<up, clock, lock, pc, local, meddled>>

Autosave ==
    /\ up /\ autosave
    /\ files' = Spoilt
    /\ UNCHANGED <<server, clock, lock, pc, local, ghosts>>

Crash ==
    /\ up
    /\ up' = FALSE /\ inbox' = <<>>
    /\ UNCHANGED <<autosave, disk, lock, pc, local, ghosts>>

(* stop saves; start loads the world and saves it, with autosave on.  They  *)
(* take the OpsLock, but for the dashboard's keys S and X and `config set   *)
(* --restart`.                                                              *)
StopServer ==
    /\ up
    /\ up' = FALSE /\ inbox' = <<>>
    /\ files' = Spoilt
    /\ meddled' = (meddled \/ LockedArchive)
    /\ UNCHANGED <<autosave, clock, lock, pc, local, switch>>

StartServer ==
    /\ ~up
    /\ up' = TRUE /\ autosave' = TRUE
    /\ files' = Spoilt
    /\ unheard' = FALSE /\ abandoned' = FALSE
    /\ meddled' = (meddled \/ LockedArchive)
    /\ UNCHANGED <<inbox, clock, lock, pc, local>>

Client(p) ==
    \/ \E c \in UserCommands : Begin(p, c)
    \/ Look(p) \/ SaveOff(p) \/ Flush(p) \/ Wait(p) \/ Undo(p)
    \/ Tar(p) \/ Pack(p) \/ Unlink(p) \/ Resume(p)
    \/ List(p) \/ Delete(p) \/ Send(p) \/ Interrupt(p)

Next ==
    \/ \E p \in Clients : Client(p)
    \/ \E f \in files : Script(f)
    \/ Execute \/ Autosave \/ Crash \/ StopServer \/ StartServer

Spec == Init /\ [][Next]_vars

--------------------------------------------------------------------------------
Pausing == \E p \in Clients : running[p] /\ pc[p] \in Paused

(* backup.py:3: an archive that create has returned is the world of one     *)
(* moment, whatever failed, crashed or was interrupted meanwhile, if its    *)
(* maker had the lock and waited to the end of its flush, and if nobody     *)
(* without the lock used the console, or started or stopped the server,     *)
(* before create returned.                                                  *)
ReportedConsistent == \A f \in files : f.reported => f.clean \/ f.excuse

(* backup.py:7, as far as it goes: autosave is off only while a backup is   *)
(* pausing it, while a save-on is on its way or was lost, or after a Ctrl-C *)
(* before the archive was begun or after it was over.                       *)
AutosaveBack ==
    up /\ ~autosave => Pausing \/ "save-on" \in ToSet(inbox) \/ unheard \/ abandoned

(* backup.py:7 and :146 as they stand: "no code path may leave autosave     *)
(* disabled"; save-on is sent "on every exit path".                         *)
AutosaveGuaranteed ==
    up /\ ~autosave => Pausing \/ "save-on" \in ToSet(inbox) \/ unheard

(* While a create that has made its archive is under way, nobody removes    *)
(* the archive: not its own rotation, whatever is left in the directory of  *)
(* earlier backups, and not another prune with a list it read before.       *)
MadeIsKept ==
    [][\A p \in Clients : ok[p] =>
          \A f \in Mine(p) : \E g \in files' : g.ts = f.ts]_vars

(* What is kept of any directory that may come about is what backup.py:9    *)
(* says: the newest few and the newest of the latest days and weeks.        *)
PlanIsPolicy == plan_rotation(files).kept = Retained(files)

================================================================================
