-------------------------------- MODULE Editing --------------------------------
(***************************************************************************)
(* Editing a file on the server: server.properties, variables.txt or a mod's *)
(* config.  The file is read, changed by somebody who takes his time, and     *)
(* written as a whole by one script (transport.py write_text), which keeps    *)
(* the file it replaces under a name with the time of day in it.  Nothing     *)
(* locks it: the command line, the window, the phone and doctor all may.      *)
(***************************************************************************)
EXTENDS Naturals

CONSTANTS
    Editors,
    MaxEdits,   \* bound: edits
    MaxClock    \* bound: seconds

ASSUME EditingAssumption == MaxClock \in Nat \ {0}

VARIABLES
    onDisk,     \* the content of the file: the edits in it
    bak,        \* the .bak file of each second, "none" or with a content
    clock,
    editor,     \* each editor: where it is, what it has read, what it writes
    edits,      \* the edits begun
    versions,   \* ghost: every content that was ever in place
    rushed      \* ghost: two scripts overlapped, or fell into one second

editing == <<onDisk, bak, clock, editor, edits, versions, rushed>>

NoBak == [kept |-> FALSE, of |-> {}]
Away == [at |-> "away", copy |-> {}, text |-> {}]

EditInit ==
    /\ onDisk = {} /\ bak = [s \in 1..MaxClock |-> NoBak] /\ clock = 1
    /\ editor = [e \in Editors |-> Away]
    /\ edits = 0 /\ versions = {{}} /\ rushed = FALSE

Sit(e, place) == editor' = [editor EXCEPT ![e].at = place]

(* load_props, load_variables, read_config; the window's page reads again     *)
(* after each save, and when it is told to.                                  *)
Load(e) ==
    /\ editor[e].at \in {"away", "open"}
    /\ editor' = [editor EXCEPT ![e] = [at |-> "open", copy |-> onDisk, text |-> {}]]
    /\ UNCHANGED <<onDisk, bak, clock, edits, versions, rushed>>

(* Nothing has changed, the value is not valid, the question is answered no. *)
GiveUp(e) ==
    /\ editor[e].at = "open" /\ Sit(e, "away")
    /\ UNCHANGED <<onDisk, bak, clock, edits, versions, rushed>>

Writing(e) == editor[e].at \in {"temp", "kept"}

(* The script is sent; it has written its temporary file.  "config set" has    *)
(* read nothing and replaces the whole of the file.                          *)
Save(e) ==
    /\ edits < MaxEdits /\ edits' = edits + 1
    /\ editor[e].at \in {"away", "open"}
    /\ LET read == IF editor[e].at = "open" THEN editor[e].copy ELSE {}
       IN  editor' = [editor EXCEPT ![e] = [at |-> "temp", copy |-> editor[e].copy,
                                            text |-> read \cup {edits'}]]
    /\ rushed' = (rushed \/ \E o \in Editors : Writing(o))
    /\ UNCHANGED <<onDisk, bak, clock, versions>>

(* Mutant: one .bak for all times. *)
MutantBakName == 1

BakName == clock

(* cp -a *)
KeepBak(e) ==
    /\ editor[e].at = "temp" /\ Sit(e, "kept")
    /\ bak' = [bak EXCEPT ![BakName] = [kept |-> TRUE, of |-> onDisk]]
    /\ rushed' = (rushed \/ bak[clock].kept)
    /\ UNCHANGED <<onDisk, clock, edits, versions>>

(* mv.  What is typed stays in the window, over what it has read. *)
Move2(e) ==
    /\ editor[e].at = "kept"
    /\ onDisk' = editor[e].text /\ versions' = versions \cup {onDisk'}
    /\ editor' = [editor EXCEPT ![e] = [at |-> "open", copy |-> editor[e].text, text |-> {}]]
    /\ UNCHANGED <<bak, clock, edits, rushed>>

(* set -e: the disk is full, the host goes down.  The script of a client that *)
(* dies goes on.                                                            *)
ScriptFails(e) ==
    /\ Writing(e) /\ Sit(e, "open")
    /\ UNCHANGED <<onDisk, bak, clock, edits, versions, rushed>>

Second ==
    /\ clock < MaxClock /\ clock' = clock + 1
    /\ UNCHANGED <<onDisk, bak, editor, edits, versions, rushed>>

EditNext ==
    \/ \E e \in Editors :
         Load(e) \/ GiveUp(e) \/ Save(e) \/ KeepBak(e) \/ Move2(e) \/ ScriptFails(e)
    \/ Second

EditSpec == EditInit /\ [][EditNext]_editing

--------------------------------------------------------------------------------

(* An edit that another editor's older copy overwrites can be had back: every  *)
(* content that was ever in place is in the file or in a .bak, wherever a      *)
(* script fails, unless two scripts overlapped or fell into one second        *)
(* (transport.py:118-134, props.py:170).                                    *)
Recoverable ==
    rushed \/ \A v \in versions : v = onDisk \/ \E s \in DOMAIN bak : bak[s] = [kept |-> TRUE, of |-> v]

================================================================================
