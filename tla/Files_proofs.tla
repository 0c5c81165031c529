------------------------------- MODULE Files_proofs -------------------------------
(***************************************************************************)
(* The files several processes write: a state file, the directory of the      *)
(* predecessor, a file that is edited, a world that is unpacked.  For any      *)
(* number of processes, nothing is lost to one that is killed, as long as two  *)
(* of them do not overlap.                                                  *)
(***************************************************************************)
EXTENDS Store, Migration, Editing, Restore, TLAPS

Json2 == [Fields -> Values \cup {Unset}]

(* The bound on files is the model's; a name leads to a file or to nothing. *)
StoreType ==
    /\ inode \in [Inodes -> [bytes : {"new", "empty", Torn, "json"}, json : Json2]]
    /\ tmp \in Inodes \cup {0} /\ final \in Inodes \cup {0}
    /\ helper \in [Processes -> [at : {"idle", "changed", "open", "written"}, field : Fields,
                                 value : Values \cup {Unset}, loaded : Json2,
                                 fd : Inodes \cup {0}]]
    /\ latest \in Json2 /\ mixed \in BOOLEAN

Active(p) == helper[p].at # "idle"

(* The temporary file is never the one in place, so that nobody who empties   *)
(* it touches what a reader sees; a temporary file that a killed helper has    *)
(* left is written anew.                                                    *)
Apart ==
    /\ final # 0 => inode[final].bytes = "json" /\ inode[final].json = latest
    /\ final = 0 => latest = Default
    /\ tmp # 0 => tmp # final /\ inode[tmp].bytes # "new"

(* What the one helper that is under way has in its hands. *)
InHand(p) ==
    /\ Active(p) => helper[p].loaded = [latest EXCEPT ![helper[p].field] = helper[p].value]
    /\ helper[p].at \in {"open", "written"} => helper[p].fd = tmp /\ tmp # 0
    /\ helper[p].at = "open" => inode[tmp].bytes = "empty"
    /\ helper[p].at = "written" =>
            inode[tmp].bytes = "json" /\ inode[tmp].json = helper[p].loaded

AloneInv ==
    ~mixed => /\ \A p, q \in Processes : Active(p) /\ Active(q) => p = q
              /\ Apart
              /\ \A p \in Processes : InHand(p)

StoreInv == StoreType /\ AloneInv

--------------------------------------------------------------------------------

(* The defaults are a content, and a helper at rest has a field. *)
LEMMA DefaultType == Default \in Json2 /\ (CHOOSE f \in Fields : TRUE) \in Fields
  BY StoreAssumption DEF Default, Json2

(* Whatever is in place, load returns a content. *)
LEMMA LoadType == ASSUME StoreType PROVE LoadJson(final) \in Json2
  BY DEF StoreType, LoadJson, Default, Json2

(* What the invariant is for. *)
LEMMA AloneKept == StoreInv => UpdatesKept
  BY DEF StoreInv, AloneInv, Apart, UpdatesKept, LoadJson

(* There is no file at first. *)
LEMMA StoreInit == FileInit => StoreInv
  <1>. SUFFICES ASSUME FileInit PROVE StoreInv
    OBVIOUS
  <1>1. StoreType
    BY DefaultType DEF FileInit, StoreType, Resting
  <1>2. AloneInv
    BY DEF FileInit, AloneInv, Apart, InHand, Active, Resting
  <1>. QED BY <1>1, <1>2 DEF StoreInv

(* Every step keeps the types, overlapping helpers or not. *)
LEMMA StepType ==
    ASSUME StoreType, [FileNext]_storeVars
    PROVE  StoreType'
  <1>. USE DEF StoreType, disk
  <1>0. Resting \in [at : {"idle"}, field : Fields, value : {Unset}, loaded : Json2, fd : {0}]
    BY DefaultType DEF Resting
  <1>1. ASSUME NEW p \in Processes, Set(p) PROVE StoreType'
    <2>1. PICK f \in Fields, v \in Values :
             helper' = [helper EXCEPT ![p] =
                [at |-> "changed", field |-> f, value |-> v,
                 loaded |-> [LoadJson(final) EXCEPT ![f] = v], fd |-> 0]]
      BY <1>1 DEF Set
    <2>2. [LoadJson(final) EXCEPT ![f] = v] \in Json2
      BY LoadType DEF Json2
    <2>. QED BY <1>1, <2>1, <2>2 DEF Set
  <1>2. ASSUME NEW p \in Processes, OpenTmp(p) PROVE StoreType'
    <2>1. PICK i \in Inodes : /\ inode' = [inode EXCEPT ![i].bytes = "empty"]
                              /\ helper' = [helper EXCEPT ![p].at = "open", ![p].fd = i]
                              /\ tmp' \in {tmp, i}
      BY <1>2 DEF OpenTmp
    <2>2. inode' \in [Inodes -> [bytes : {"new", "empty", Torn, "json"}, json : Json2]]
      BY <2>1
    <2>3. helper' \in [Processes -> [at : {"idle", "changed", "open", "written"}, field : Fields,
                                 value : Values \cup {Unset}, loaded : Json2,
                                 fd : Inodes \cup {0}]]
      BY <2>1
    <2>. QED BY <1>2, <2>1, <2>2, <2>3 DEF OpenTmp
  <1>3. ASSUME NEW p \in Processes, CloseTmp(p) PROVE StoreType'
    <2>1. PICK bytes \in {"json", Torn} :
             inode' = [inode EXCEPT ![helper[p].fd] = [bytes |-> bytes, json |-> helper[p].loaded]]
      BY <1>3 DEF CloseTmp
    <2>2. [bytes |-> bytes, json |-> helper[p].loaded]
             \in [bytes : {"new", "empty", Torn, "json"}, json : Json2]
      OBVIOUS
    <2>3. inode' \in [Inodes -> [bytes : {"new", "empty", Torn, "json"}, json : Json2]]
      BY <2>1, <2>2
    <2>. QED BY <1>3, <2>3 DEF CloseTmp
  <1>4. ASSUME NEW p \in Processes, Replace(p) PROVE StoreType'
    <2>1. [latest EXCEPT ![helper[p].field] = helper[p].value] \in Json2
      BY DEF Json2
    <2>. QED BY <1>0, <1>4, <2>1 DEF Replace, Rename
  <1>5. ASSUME NEW p \in Processes, KillHelper(p) PROVE StoreType'
    BY <1>0, <1>5 DEF KillHelper
  <1>. QED BY <1>1, <1>2, <1>3, <1>4, <1>5 DEF FileNext, storeVars

(* While helpers do not overlap, nobody else is under way. *)
LEMMA StepAlone ==
    ASSUME StoreInv, FileNext
    PROVE  AloneInv'
  <1>. USE StoreAssumption DEF StoreInv, StoreType, disk, Inodes
  <1>. SUFFICES ASSUME ~mixed', NEW p \in Processes,
                       Set(p) \/ OpenTmp(p) \/ CloseTmp(p) \/ Replace(p) \/ KillHelper(p)
                PROVE  /\ (\A r, q \in Processes : Active(r) /\ Active(q) => r = q)'
                       /\ Apart'
                       /\ (\A q \in Processes : InHand(q))'
    BY DEF FileNext, AloneInv
  <1>0. ~mixed
    BY DEF Set, OpenTmp, CloseTmp, Replace, KillHelper
  <1>1. \A q \in Processes \ {p} : ~Active(q) /\ helper'[q] = helper[q]
    BY <1>0 DEF Set, OpenTmp, CloseTmp, Replace, KillHelper, AloneInv, Active
  <1>2. (\A r, q \in Processes : Active(r) /\ Active(q) => r = q)'
    BY <1>1 DEF Active
  <1>3. Apart /\ InHand(p)
    BY <1>0 DEF AloneInv
  <1>4. \A q \in Processes \ {p} : InHand(q)'
    BY <1>1 DEF InHand, Active
  <1>5. CASE Set(p)
    <2>1. LoadJson(final) = latest
      BY <1>3 DEF Apart, LoadJson
    <2>. QED BY <1>2, <1>3, <1>4, <1>5, <2>1 DEF Set, Apart, InHand, Active
  <1>6. CASE OpenTmp(p)
    <2>1. PICK i \in Inodes :
             /\ inode' = [inode EXCEPT ![i].bytes = "empty"]
             /\ helper' = [helper EXCEPT ![p].at = "open", ![p].fd = i]
             /\ tmp' = i
             /\ i = tmp \/ inode[i].bytes = "new"
      BY <1>6 DEF OpenTmp, Named
    <2>2. i # 0 /\ i # final
      BY <1>3, <2>1 DEF Apart
    <2>3. Apart'
      BY <1>3, <1>6, <2>1, <2>2 DEF OpenTmp, Apart
    <2>4. InHand(p)'
      <3>1. /\ helper'[p].at = "open" /\ helper'[p].fd = i
            /\ helper'[p].loaded = helper[p].loaded /\ helper'[p].field = helper[p].field
            /\ helper'[p].value = helper[p].value
        BY <2>1
      <3>2. latest' = latest /\ inode'[i].bytes = "empty" /\ helper[p].at = "changed"
        BY <1>6, <2>1 DEF OpenTmp
      <3>. QED BY <1>3, <2>1, <2>2, <3>1, <3>2 DEF InHand, Active
    <2>. QED BY <1>2, <1>4, <2>3, <2>4
  <1>7. CASE CloseTmp(p)
    BY <1>2, <1>3, <1>4, <1>7 DEF CloseTmp, Apart, InHand, Active, Torn
  <1>8. CASE Replace(p)
    BY <1>2, <1>3, <1>4, <1>8 DEF Replace, Rename, Apart, InHand, Active, Resting
  <1>9. CASE KillHelper(p)
    BY <1>2, <1>3, <1>4, <1>9 DEF KillHelper, Apart, InHand, Active, Resting
  <1>. QED BY <1>5, <1>6, <1>7, <1>8, <1>9

(* The file holds, of every field, what was last set, however many helpers    *)
(* were killed, if no two overlap (util.py:260-274, state.py:42-70).         *)
THEOREM AloneNothingIsLost == FileSpec => []UpdatesKept
  <1>1. StoreInv /\ [FileNext]_storeVars => StoreInv'
    <2>. SUFFICES ASSUME StoreInv, [FileNext]_storeVars PROVE StoreInv'
      OBVIOUS
    <2>1. CASE FileNext
      BY <2>1, StepType, StepAlone DEF StoreInv
    <2>2. CASE UNCHANGED storeVars
      BY <2>2 DEF storeVars, disk, StoreInv, StoreType, AloneInv, Apart, InHand, Active
    <2>. QED BY <2>1, <2>2
  <1>. QED BY StoreInit, AloneKept, <1>1, PTL DEF FileSpec

--------------------------------------------------------------------------------
(* Migration *)

Places == {"new", "make", "copy", "remove", "ensure", "run", "dead"}

Starting(p) == starter[p] \notin {"new", "run", "dead"}

(* While nothing has gone wrong one command at most is starting.  It copies     *)
(* only what is not there, and until it has, nobody else is past the look.     *)
OneStarts ==
    /\ \A p, q \in Starters : Starting(p) /\ Starting(q) => p = q
    /\ \A p \in Starters :
        /\ starter[p] \notin {"remove", "dead"}
        /\ starter[p] = "make" => ~exists
        /\ starter[p] = "copy" => exists

CopyIsWhole ==
    /\ exists => Legacy \subseteq files2 \/ \E p \in Starters : starter[p] = "copy"
    /\ \A p \in Starters : starter[p] \in {"ensure", "run"} => Legacy \subseteq files2

(* What the user has made is seen by everybody who starts. *)
UsersOwn ==
    mine # {} => /\ exists /\ mine \subseteq files2
                 /\ \A p \in Starters : starter[p] \notin {"make", "copy", "remove"}

MigrationInv ==
    /\ starter \in [Starters -> Places] /\ exists \in BOOLEAN /\ trouble \in BOOLEAN
    /\ UsersOwn
    /\ ~trouble => OneStarts
    /\ ~trouble /\ mine = {} => CopyIsWhole

LEMMA MigrationStep == MigrationInv /\ [MigrateNext]_moving => MigrationInv'
  <1>. SUFFICES ASSUME MigrationInv, [MigrateNext]_moving PROVE MigrationInv'
    OBVIOUS
  <1>. USE DEF MigrationInv, UsersOwn, OneStarts, CopyIsWhole, Starting, Places, Go
  <1>1. ASSUME NEW p \in Starters, StartUp(p) PROVE MigrationInv'
    BY <1>1 DEF StartUp, Look, Beside
  <1>2. ASSUME NEW p \in Starters, MakeDir(p) PROVE MigrationInv'
    BY <1>2 DEF MakeDir
  <1>3. ASSUME NEW p \in Starters, CopyFile(p) PROVE MigrationInv'
    BY <1>3 DEF CopyFile
  <1>4. ASSUME NEW p \in Starters, RemoveCopy(p) PROVE MigrationInv'
    BY <1>4 DEF RemoveCopy
  <1>5. ASSUME NEW p \in Starters, EnsureDirs(p) PROVE MigrationInv'
    BY <1>5 DEF EnsureDirs
  <1>6. ASSUME NEW p \in Starters, KillStarter(p) PROVE MigrationInv'
    BY <1>6 DEF KillStarter
  <1>7. CASE UNCHANGED moving
    BY <1>7 DEF moving
  <1>. QED BY <1>1, <1>2, <1>3, <1>4, <1>5, <1>6, <1>7 DEF MigrateNext

(* MigratedWhole: a command runs with the whole of the old directory, and what   *)
(* the user has made is never removed (util.py:89-124).                       *)
THEOREM MigrationIsWhole == MigrateSpec => []MigratedWhole
  <1>1. MigrateInit => MigrationInv
    BY DEF MigrateInit, MigrationInv, UsersOwn, OneStarts, CopyIsWhole, Starting, Places, Own
  <1>2. MigrationInv => MigratedWhole
    BY DEF MigrationInv, UsersOwn, CopyIsWhole, MigratedWhole
  <1>. QED BY <1>1, <1>2, MigrationStep, PTL DEF MigrateSpec

--------------------------------------------------------------------------------
(* Editing *)

Texts == SUBSET Nat

EditType ==
    /\ onDisk \in Texts /\ bak \in [1..MaxClock -> [kept : BOOLEAN, of : Texts]]
    /\ clock \in 1..MaxClock /\ edits \in Nat /\ rushed \in BOOLEAN
    /\ editor \in [Editors -> [at : {"away", "open", "temp", "kept"}, copy : Texts, text : Texts]]

InBak(v) == \E s \in DOMAIN bak : bak[s] = [kept |-> TRUE, of |-> v]

(* One script at a time; what it is about to replace is in a .bak by then. *)
ScriptInv ==
    /\ \A e, o \in Editors : Writing(e) /\ Writing(o) => e = o
    /\ \A e \in Editors : editor[e].at = "kept" => InBak(onDisk)
    /\ \A v \in versions : v = onDisk \/ InBak(v)

EditInv == EditType /\ (~rushed => ScriptInv)

LEMMA EditInitial == EditInit => EditInv
  <1>. SUFFICES ASSUME EditInit PROVE EditInv
    OBVIOUS
  <1>1. EditType
    <2>1. {} \in Texts /\ NoBak \in [kept : BOOLEAN, of : Texts]
      BY DEF Texts, NoBak
    <2>2. Away \in [at : {"away", "open", "temp", "kept"}, copy : Texts, text : Texts]
      BY DEF Texts, Away
    <2>3. 1 \in 1..MaxClock
      BY EditingAssumption
    <2>. HIDE DEF Texts
    <2>. QED BY <2>1, <2>2, <2>3 DEF EditInit, EditType
  <1>2. ScriptInv
    BY DEF EditInit, ScriptInv, Writing, Away
  <1>. QED BY <1>1, <1>2 DEF EditInv

LEMMA EditStep == EditInv /\ [EditNext]_editing => EditInv'
  <1>. SUFFICES ASSUME EditInv, [EditNext]_editing PROVE EditInv'
    OBVIOUS
  <1>. USE DEF EditInv, EditType, Texts, Sit
  <1>1. ASSUME NEW e \in Editors, Load(e) PROVE EditInv'
    BY <1>1 DEF Load, ScriptInv, Writing, InBak
  <1>2. ASSUME NEW e \in Editors, GiveUp(e) PROVE EditInv'
    BY <1>2 DEF GiveUp, ScriptInv, Writing, InBak
  <1>3. ASSUME NEW e \in Editors, Save(e) PROVE EditInv'
    <2>. DEFINE read == IF editor[e].at = "open" THEN editor[e].copy ELSE {}
                new == [at |-> "temp", copy |-> editor[e].copy, text |-> read \cup {edits'}]
    <2>1. /\ editor' = [editor EXCEPT ![e] = new] /\ edits' = edits + 1
          /\ rushed' = (rushed \/ \E o \in Editors : Writing(o))
          /\ UNCHANGED <<onDisk, bak, clock, versions>>
      BY <1>3 DEF Save
    <2>2. new \in [at : {"away", "open", "temp", "kept"}, copy : Texts, text : Texts]
      BY <2>1
    <2>3. /\ editor' \in [Editors -> [at : {"away", "open", "temp", "kept"}, copy : Texts, text : Texts]]
          /\ editor'[e].at = "temp" /\ \A o \in Editors \ {e} : editor'[o] = editor[o]
      BY <2>1, <2>2
    <2>4. EditType'
      BY <2>1, <2>3
    <2>5. ASSUME ~rushed' PROVE ScriptInv'
      <3>1. ScriptInv /\ \A o \in Editors : ~Writing(o)
        BY <2>1, <2>5
      <3>. HIDE DEF EditInv, EditType
      <3>. QED BY <2>1, <2>3, <3>1 DEF ScriptInv, Writing, InBak
    <2>. QED BY <2>4, <2>5
  <1>4. ASSUME NEW e \in Editors, KeepBak(e) PROVE EditInv'
    <2>. DEFINE new == [kept |-> TRUE, of |-> onDisk]
    <2>1. /\ bak' = [bak EXCEPT ![clock] = new] /\ clock \in DOMAIN bak
          /\ editor[e].at = "temp" /\ editor' = [editor EXCEPT ![e].at = "kept"]
          /\ rushed' = (rushed \/ bak[clock].kept)
          /\ UNCHANGED <<onDisk, clock, edits, versions>>
      BY <1>4 DEF KeepBak, BakName
    <2>2. new \in [kept : BOOLEAN, of : Texts]
      OBVIOUS
    <2>3. bak' \in [1..MaxClock -> [kept : BOOLEAN, of : Texts]]
      BY <2>1, <2>2
    <2>4. /\ editor' \in [Editors -> [at : {"away", "open", "temp", "kept"}, copy : Texts, text : Texts]]
          /\ editor'[e].at = "kept" /\ \A o \in Editors \ {e} : editor'[o] = editor[o]
      BY <2>1
    <2>5. EditType'
      BY <2>1, <2>3, <2>4
    <2>6. ASSUME ~rushed' PROVE ScriptInv'
      <3>1. ScriptInv /\ ~bak[clock].kept
        BY <2>1, <2>6
      <3>2. InBak(onDisk)'
        BY <2>1 DEF InBak
      <3>3. \A v : InBak(v) => InBak(v)'
        <4>. SUFFICES ASSUME NEW v, NEW s \in DOMAIN bak, bak[s] = [kept |-> TRUE, of |-> v]
                      PROVE  InBak(v)'
          BY DEF InBak
        <4>1. s # clock
          BY <3>1
        <4>2. s \in DOMAIN bak' /\ bak'[s] = bak[s]
          BY <2>1, <4>1
        <4>. QED BY <4>2 DEF InBak
      <3>. HIDE DEF EditInv, EditType
      <3>4. \A o, q \in Editors : Writing(o)' /\ Writing(q)' => o = q
        BY <2>1, <2>4, <3>1 DEF ScriptInv, Writing
      <3>. QED BY <2>1, <3>1, <3>2, <3>3, <3>4 DEF ScriptInv
    <2>. QED BY <2>5, <2>6
  <1>5. ASSUME NEW e \in Editors, Move2(e) PROVE EditInv'
    <2>1. /\ editor[e].at = "kept" /\ onDisk' = editor[e].text
          /\ versions' = versions \cup {onDisk'}
          /\ editor' = [editor EXCEPT ![e] = [at |-> "open", copy |-> editor[e].text, text |-> {}]]
          /\ UNCHANGED <<bak, clock, edits, rushed>>
      BY <1>5 DEF Move2
    <2>2. /\ editor' \in [Editors -> [at : {"away", "open", "temp", "kept"}, copy : Texts, text : Texts]]
          /\ editor'[e].at = "open" /\ \A o \in Editors \ {e} : editor'[o] = editor[o]
      BY <2>1
    <2>3. EditType'
      BY <2>1, <2>2
    <2>4. ASSUME ~rushed' PROVE ScriptInv'
      <3>1. ScriptInv
        BY <2>1, <2>4
      <3>. HIDE DEF EditInv, EditType
      <3>2. \A o \in Editors : ~Writing(o)'
        BY <2>1, <2>2, <3>1 DEF ScriptInv, Writing
      <3>3. InBak(onDisk) /\ \A v : InBak(v) => InBak(v)'
        BY <2>1, <3>1 DEF ScriptInv, InBak
      <3>4. \A v \in versions' : v = onDisk' \/ InBak(v)'
        BY <2>1, <3>1, <3>3 DEF ScriptInv
      <3>. QED BY <3>2, <3>4 DEF ScriptInv, Writing
    <2>. QED BY <2>3, <2>4
  <1>6. ASSUME NEW e \in Editors, ScriptFails(e) PROVE EditInv'
    BY <1>6 DEF ScriptFails, ScriptInv, Writing, InBak
  <1>7. ASSUME Second PROVE EditInv'
    BY <1>7, EditingAssumption DEF Second, ScriptInv, Writing, InBak
  <1>8. CASE UNCHANGED editing
    BY <1>8 DEF editing, ScriptInv, Writing, InBak
  <1>. QED BY <1>1, <1>2, <1>3, <1>4, <1>5, <1>6, <1>7, <1>8 DEF EditNext

(* Recoverable: every content that was ever in place is in the file or in a      *)
(* .bak (transport.py:118-134).                                              *)
THEOREM EditsAreRecoverable == EditSpec => []Recoverable
  <1>1. EditInv => Recoverable
    BY DEF EditInv, ScriptInv, InBak, Recoverable
  <1>. QED BY <1>1, EditInitial, EditStep, PTL DEF EditSpec

--------------------------------------------------------------------------------
(* restore and extract, for any number of clients, archives and parts of a    *)
(* world: nothing is lost, the server never runs on half a world, and a       *)
(* restore that reports success is the archive's world.                      *)

Dirs == {"world", "dest"}
Kinds == {"restore", "extract"}
JobPlaces == {"idle", "exists", "running", "verify", "launch", "wait", "restored", "refused",
           "failed", "dead"}
Points == {"none", "begin", "unpack", "check", "ok", "failed"}
Contents == SUBSET ((Archives \cup {Nobody, "original", "fresh"}) \X Parts)

UnpackType ==
    /\ dir \in [Dirs -> Contents]
    /\ kept \subseteq Contents
    /\ opsLock \in Restorers \cup {Nobody}
    /\ job \in [Restorers -> [kind : Kinds, of : Archives \cup {Nobody}, at : JobPlaces]]
    /\ script \in [Restorers -> Points]
    /\ serving \in BOOLEAN /\ orphan \in BOOLEAN /\ intruded \in BOOLEAN

(* A client that works holds the lock, and a script whose client has not died *)
(* has a client that waits for it.                                          *)
Working == {"exists", "running", "verify", "launch", "wait"}

Owned ==
    \A p \in Restorers :
        /\ job[p].at \in Working => opsLock = p
        /\ script[p] # "none" => job[p].at = "wait" \/ orphan

(* From its look at the processes on, a restore sees no server.  Nothing is   *)
(* said once a client has died while its script went on, or a server was      *)
(* started without the lock.                                                *)
Offline ==
    ~orphan /\ ~intruded => \A p \in Restorers :
        job[p].at \in {"verify", "launch", "wait"} /\ job[p].kind = "restore" => ~serving

(* While a script unpacks, its destination holds parts of its archive only,   *)
(* and all of them when it has come to its end.                              *)
Filling ==
    ~orphan /\ ~intruded => \A p \in Restorers :
        /\ script[p] = "unpack" => dir[Target(p)] \subseteq World(job[p].of)
        /\ script[p] \in {"check", "ok"} => dir[Target(p)] = World(job[p].of)

UnpackInv == UnpackType /\ Owned /\ Offline /\ Filling /\ NothingLost

ClientStep(p) ==
    \/ Invoke(p) \/ Exists(p) \/ MayReplace(p) \/ Verify(p) \/ Launch(p) \/ Hear(p) \/ Die(p)
ScriptStep(p) == Start(p) \/ Unpack(p) \/ Fail(p) \/ Test(p)

--------------------------------------------------------------------------------

(* The world is in its place, and nobody works. *)
LEMMA UnpackInit == RestoreInit => UnpackInv
  <1>. SUFFICES ASSUME RestoreInit PROVE UnpackInv
    OBVIOUS
  <1>1. dir \in [Dirs -> Contents] /\ dir["world"] = Original
    BY DEF RestoreInit, Dirs, Contents, World, Original
  <1>2. UnpackType
    BY <1>1 DEF RestoreInit, UnpackType, Idle, Kinds, JobPlaces, Points
  <1>3. Owned /\ Offline /\ Filling
    BY DEF RestoreInit, Owned, Offline, Filling, Idle, Working
  <1>4. NothingLost
    BY <1>1 DEF NothingLost
  <1>. QED BY <1>2, <1>3, <1>4 DEF UnpackInv

(* A client's step leaves the directories alone. *)
LEMMA ClientKeeps ==
    ASSUME UnpackInv, NEW p \in Restorers, ClientStep(p)
    PROVE  UnpackInv'
  <1>. USE NobodyAssumption DEF UnpackInv, UnpackType, ClientStep, Leave, Move, StandsAt, Unchanged,
                           excuses
  <1>1. UnpackType'
    <2>1. CASE Invoke(p)
      <3>1. PICK kind \in Kinds, a \in Archives :
              job' = [job EXCEPT ![p] = [kind |-> kind, of |-> a, at |-> "exists"]]
        BY <2>1 DEF Invoke, Kinds
      <3>2. job' \in [Restorers -> [kind : Kinds, of : Archives \cup {Nobody}, at : JobPlaces]]
        BY <3>1 DEF JobPlaces
      <3>. QED BY <2>1, <3>2 DEF Invoke, Enter
    <2>2. CASE Exists(p)
      BY <2>2 DEF Exists, Check, Kinds, JobPlaces, Points
    <2>3. CASE MayReplace(p)
      BY <2>3 DEF MayReplace, Check, Kinds, JobPlaces, Points
    <2>4. CASE Verify(p)
      BY <2>4 DEF Verify, Check, Kinds, JobPlaces, Points
    <2>5. CASE Launch(p)
      BY <2>5 DEF Launch, Kinds, JobPlaces, Points
    <2>6. CASE Hear(p)
      BY <2>6 DEF Hear, Kinds, JobPlaces, Points
    <2>7. CASE Die(p)
      BY <2>7 DEF Die, Kinds, JobPlaces, Points
    <2>. QED BY <2>1, <2>2, <2>3, <2>4, <2>5, <2>6, <2>7
  <1>2. Owned'
    <2>1. CASE Invoke(p)
      BY <2>1 DEF Invoke, Enter, Owned, Working, JobPlaces
    <2>2. CASE Exists(p)
      BY <2>2 DEF Exists, Check, Owned, Working, JobPlaces
    <2>3. CASE MayReplace(p)
      BY <2>3 DEF MayReplace, Check, Owned, Working, JobPlaces
    <2>4. CASE Verify(p)
      BY <2>4 DEF Verify, Check, Owned, Working, JobPlaces
    <2>5. CASE Launch(p)
      BY <2>5 DEF Launch, Owned, Working, JobPlaces
    <2>6. CASE Hear(p)
      BY <2>6 DEF Hear, Owned, Working, JobPlaces
    <2>7. CASE Die(p)
      BY <2>7 DEF Die, Owned, Working, JobPlaces
    <2>. QED BY <2>1, <2>2, <2>3, <2>4, <2>5, <2>6, <2>7
  <1>0. ASSUME Invoke(p), NEW q \in Restorers
        PROVE  job'[q].at \notin {"verify", "launch", "wait"} /\ (~orphan' => script'[q] = "none")
    <2>1. job[q].at \notin Working /\ (~orphan => script[q] = "none")
      BY <1>0 DEF Invoke, Enter, Owned, Working
    <2>2. script' = script /\ orphan' = orphan
      BY <1>0 DEF Invoke
    <2>3. job'[q] = job[q] \/ job'[q].at = "exists"
      BY <1>0 DEF Invoke
    <2>. QED BY <2>1, <2>2, <2>3 DEF Working
  <1>3. Offline'
    <2>1. CASE Invoke(p)
      BY <1>0, <2>1 DEF Offline
    <2>2. CASE ~Invoke(p)
      BY <2>2 DEF Exists, MayReplace, Verify, Check, Launch, Hear, Die, Owned, Offline
    <2>. QED BY <2>1, <2>2
  <1>4. Filling'
    <2>1. CASE Invoke(p)
      BY <1>0, <2>1 DEF Filling
    <2>2. CASE Exists(p)
      BY <2>2 DEF Exists, Check, Owned, Filling, Target
    <2>3. CASE MayReplace(p)
      BY <2>3 DEF MayReplace, Check, Owned, Filling, Target
    <2>4. CASE Verify(p)
      BY <2>4 DEF Verify, Check, Owned, Filling, Target
    <2>5. CASE Launch(p)
      BY <2>5 DEF Launch, Owned, Filling, Target
    <2>6. CASE Hear(p)
      BY <2>6 DEF Hear, Owned, Filling, Target
    <2>7. CASE Die(p)
      BY <2>7 DEF Die, Owned, Filling, Target
    <2>. QED BY <2>1, <2>2, <2>3, <2>4, <2>5, <2>6, <2>7
  <1>5. NothingLost'
    BY DEF Invoke, Exists, MayReplace, Verify, Check, Launch, Hear, Die, NothingLost
  <1>. QED BY <1>1, <1>2, <1>3, <1>4, <1>5

(* A script's step leaves the clients alone. *)
LEMMA ScriptKeeps ==
    ASSUME UnpackInv, NEW p \in Restorers, ScriptStep(p)
    PROVE  UnpackInv'
  <1>. USE DEF UnpackInv, UnpackType, ScriptStep, Step, Broken, excuses
  <1>0. Target(p) \in Dirs
    BY DEF Target, Dirs
  <1>1. UnpackType'
    BY <1>0 DEF Start, Aside, Unpack, Fail, Test, World, Points, Dirs, Contents
  <1>2. Owned'
    BY DEF Start, Unpack, Fail, Test, Owned
  <1>3. Offline'
    BY DEF Start, Unpack, Fail, Test, Offline
  <1>4. Filling'
    <2>1. SUFFICES ASSUME ~orphan, ~intruded PROVE Filling'
      BY DEF Filling, Start, Unpack, Fail, Test
    <2>2. \A q \in Restorers \ {p} : script[q] = "none"
      BY <2>1 DEF Owned, Working, Start, Unpack, Fail, Test
    <2>. QED BY <1>0, <2>1, <2>2 DEF Filling, Start, Aside, Unpack, Fail, Test, Target, World, Dirs
  <1>5. NothingLost'
    <2>1. kept \subseteq kept'
      BY DEF Start, Aside, Unpack, Fail, Test
    <2>2. dir["world"] \subseteq dir'["world"] \/ dir["world"] \in kept'
      BY <1>0 DEF Start, Aside, Unpack, Fail, Test, Dirs
    <2>. QED BY <2>1, <2>2 DEF NothingLost
  <1>. QED BY <1>1, <1>2, <1>3, <1>4, <1>5

(* A start with the lock waits for every script whose client lives; one        *)
(* without it is an intrusion.                                              *)
LEMMA OthersKeep ==
    ASSUME UnpackInv, StartStop \/ \E a \in Archives : Prune(a)
    PROVE  UnpackInv'
  <1>. USE DEF UnpackInv, UnpackType, excuses
  <1>1. CASE \E a \in Archives : Prune(a)
    BY <1>1 DEF Prune, Owned, Offline, Filling, NothingLost, Target
  <1>2. CASE StartStop
    <2>1. \/ ~serving' /\ dir' = dir
          \/ orphan \/ intruded'
          \/ \A q \in Restorers : script[q] = "none" /\ job[q].at \notin Working
      BY <1>2, NobodyAssumption DEF StartStop, Owned, Working
    <2>2. dir' \in [Dirs -> Contents]
      BY <1>2 DEF StartStop, Dirs, Contents, Missing
    <2>3. NothingLost'
      <3>1. dir["world"] \subseteq dir'["world"] /\ kept' = kept
        BY <1>2 DEF StartStop, Dirs
      <3>. QED BY <3>1 DEF NothingLost
    <2>4. UnpackType'
      BY <1>2, <2>2 DEF StartStop
    <2>5. Owned'
      BY <1>2 DEF StartStop, Owned
    <2>6. Offline'
      BY <1>2, <2>1 DEF StartStop, Offline, Working
    <2>7. Filling'
      BY <1>2, <2>1 DEF StartStop, Filling, Target
    <2>. QED BY <2>3, <2>4, <2>5, <2>6, <2>7
  <1>. QED BY <1>1, <1>2

(* The invariant of all that follows, from which each result is read off. *)
THEOREM UnpackInvariant == RestoreSpec => []UnpackInv
  <1>1. UnpackInv /\ [RestoreNext]_unpacking => UnpackInv'
    <2>. SUFFICES ASSUME UnpackInv, [RestoreNext]_unpacking PROVE UnpackInv'
      OBVIOUS
    <2>1. CASE UNCHANGED unpacking
      BY <2>1 DEF unpacking, UnpackInv, UnpackType, Owned, Offline, Filling, NothingLost, Target
    <2>2. CASE RestoreNext
      BY <2>2, ClientKeeps, ScriptKeeps, OthersKeep DEF RestoreNext, ClientStep, ScriptStep
    <2>. QED BY <2>1, <2>2
  <1>. QED BY UnpackInit, <1>1, PTL DEF RestoreSpec

(* Of the world that was live no part is lost, for any number of clients, of  *)
(* scripts that fail or go on alone, and of prunes (backup.py:261-289).      *)
THEOREM WorldIsKept == RestoreSpec => []NothingLost
  BY UnpackInvariant, PTL DEF UnpackInv

(* The server never runs on a world that is being replaced, unless the client *)
(* of that restore has died or somebody started the server without the lock   *)
(* (backup.py:268 and the OpsLock).                                         *)
THEOREM NeverServesHalf == RestoreSpec => []NoHalfWorldServed
  <1>1. UnpackInv => NoHalfWorldServed
    BY DEF UnpackInv, UnpackType, Owned, Offline, NoHalfWorldServed, Replacing, Target, Kinds
  <1>. QED BY UnpackInvariant, <1>1, PTL

(* What a restore or an extract reports is what it has put there, unless a     *)
(* dead client's script goes on or somebody started the server without the     *)
(* lock (backup.py:261-326).                                                *)
THEOREM SuccessIsTheArchive == RestoreSpec => RestoredIsArchive
  <1>. DEFINE Told == \A p \in Restorers :
                job[p].at # "restored" /\ job'[p].at = "restored" /\ ~orphan /\ ~intruded
                    => dir[Target(p)] = World(job[p].of)
  <1>1. UnpackInv /\ [RestoreNext]_unpacking => [Told]_unpacking
    <2>. SUFFICES ASSUME UnpackInv, RestoreNext, NEW p \in Restorers,
                         job[p].at # "restored", job'[p].at = "restored", ~orphan, ~intruded
                  PROVE  dir[Target(p)] = World(job[p].of)
      BY DEF unpacking
    <2>1. Hear(p) /\ script[p] = "ok"
      <3>1. PICK q \in Restorers : ClientStep(q)
        BY DEF RestoreNext, ClientStep, Start, Unpack, Fail, Test, Prune, StartStop, excuses
      <3>2. q = p
        BY <3>1 DEF UnpackInv, UnpackType, ClientStep, Leave, Move, Invoke, Exists, MayReplace,
                    Verify, Check, Launch, Hear, Die
      <3>. QED BY <3>1, <3>2 DEF UnpackInv, UnpackType, ClientStep, Leave, Move, Invoke, Exists,
                    MayReplace, Verify, Check, Launch, Hear, Die
    <2>. QED BY <2>1 DEF UnpackInv, Filling
  <1>. QED BY UnpackInvariant, <1>1, PTL DEF RestoreSpec, RestoredIsArchive
================================================================================
