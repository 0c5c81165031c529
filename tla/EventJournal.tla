------------------------------ MODULE EventJournal ------------------------------
(***************************************************************************)
(* The event journal (events.py): processes append to events.jsonl and,    *)
(* when it has grown too large, first move it to events.jsonl.1.  Nothing  *)
(* locks it.  The file is more than its name: an appender that has opened  *)
(* the journal goes on writing into it after somebody has moved it aside.  *)
(*                                                                         *)
(* Sizes are counted in events, time in the milliseconds emit rounds to.   *)
(***************************************************************************)
EXTENDS Naturals, Sequences

CONSTANTS
    Writers,        \* the processes that emit: the watchdog and any CLI, GUI or agent
    MaxSize,        \* _MAX_BYTES, in events
    MaxEvents       \* bound: events emitted

ASSUME SizeAssumption == MaxSize \in Nat \ {0}
ASSUME EventsAssumption == MaxEvents \in Nat

VARIABLES
    file,       \* the content of every journal file ever made, by inode
    live,       \* the inode named events.jsonl, 0 if there is none
    kept,       \* the inode named events.jsonl.1, 0 if there is none
    clock,
    emitted,    \* how many events have been stamped
    writer,     \* where each writer is in emit, and its event, check and handle
    history,    \* ghost: every event written, in that order, with its inode
    astray      \* ghost: which of them a rename overwrote whose writer had not
                \* measured the file it moved, or went into a file moved before

journal == <<file, live, kept, clock, emitted, writer, history, astray>>

Events == [id: 1..MaxEvents, ts: 1..MaxEvents + 1]
NoEvent == [id |-> 0, ts |-> 0]
Idle == [pc |-> "idle", ev |-> NoEvent, seen |-> 0, fh |-> 0]

JournalInit ==
    /\ file = <<>> /\ live = 0 /\ kept = 0
    /\ clock = 1 /\ emitted = 0
    /\ writer = [w \in Writers |-> Idle]
    /\ history = <<>> /\ astray = {}

(* emit takes the time first; everything else happens later.  Since the     *)
(* event before, a millisecond has passed or not.                           *)
Stamp(w) ==
    /\ writer[w].pc = "idle" /\ emitted < MaxEvents
    /\ emitted' = emitted + 1
    /\ clock' \in {clock, clock + 1}
    /\ writer' = [writer EXCEPT ![w].pc = "check",
                                ![w].ev = [id |-> emitted', ts |-> clock']]
    /\ UNCHANGED <<file, live, kept, history, astray>>

(* Mutant: a full file is one event short of full. *)
MutantTooLarge == live # 0 /\ Len(file[live]) >= MaxSize

TooLarge == live # 0 /\ Len(file[live]) > MaxSize

Check(w) ==
    /\ writer[w].pc = "check"
    /\ writer' = [writer EXCEPT ![w].seen = live,
                    ![w].pc = IF TooLarge THEN "rotate" ELSE "open"]
    /\ UNCHANGED <<file, live, kept, clock, emitted, history, astray>>

(* The rename names whatever is events.jsonl by now.  If another writer has *)
(* moved it and not made a new one yet, the rename fails and emit gives up. *)
Rotate(w) ==
    /\ writer[w].pc = "rotate"
    /\ IF live = 0
         THEN /\ writer' = [writer EXCEPT ![w] = Idle]
              /\ UNCHANGED <<live, kept, astray>>
         ELSE /\ writer' = [writer EXCEPT ![w].pc = "open"]
              /\ kept' = live
              /\ live' = 0
              /\ astray' = IF live = writer[w].seen THEN astray
                           ELSE astray \cup {i \in DOMAIN history : history[i].at = kept}
    /\ UNCHANGED <<file, clock, emitted, history>>

(* open(p, "a") makes the file if there is none. *)
Open(w) ==
    /\ writer[w].pc = "open"
    /\ IF live = 0
         THEN /\ file' = Append(file, <<>>)
              /\ live' = Len(file) + 1
         ELSE UNCHANGED <<file, live>>
    /\ writer' = [writer EXCEPT ![w].pc = "write", ![w].fh = live']
    /\ UNCHANGED <<kept, clock, emitted, history, astray>>

(* Mutant: the journal is opened for writing instead of appending. *)
MutantAppended(f, ev) == <<ev>>

Appended(f, ev) == Append(f, ev)

Write(w) ==
    LET ev == writer[w].ev
        fh == writer[w].fh
    IN  /\ writer[w].pc = "write"
        /\ file' = [file EXCEPT ![fh] = Appended(@, ev)]
        /\ history' = Append(history, [ev |-> ev, at |-> fh])
        /\ astray' = IF fh = live THEN astray ELSE astray \cup {Len(history')}
        /\ writer' = [writer EXCEPT ![w] = Idle]
        /\ UNCHANGED <<live, kept, clock, emitted>>

(* Any OSError on the way, or the process dies: the event is not journalled. *)
Drop(w) ==
    /\ writer[w].pc # "idle"
    /\ writer' = [writer EXCEPT ![w] = Idle]
    /\ UNCHANGED <<file, live, kept, clock, emitted, history, astray>>

JournalNext ==
    \E w \in Writers : \/ Stamp(w) \/ Check(w) \/ Rotate(w)
                       \/ Open(w) \/ Write(w) \/ Drop(w)

JournalSpec == JournalInit /\ [][JournalNext]_journal

(* The events of a file a reader wants, line by line: those that pass.        *)
(* Mutant: a reader that resumes gets the event it saw last once more.       *)
MutantAfter(f, since) == SelectSeq(f, LAMBDA ev : ev.ts >= since)

After(f, since) ==
    LET read[n \in 0..Len(f)] ==
            IF n = 0 THEN <<>>
            ELSE IF f[n].ts > since THEN Append(read[n - 1], f[n]) ELSE read[n - 1]
    IN  read[Len(f)]

(* read(since): only events.jsonl is read, never events.jsonl.1.  `since` 0 *)
(* stands for None.                                                         *)
Newer(since) == IF live = 0 THEN <<>> ELSE After(file[live], since)

--------------------------------------------------------------------------------

InFile(f, ev) == f # 0 /\ \E i \in DOMAIN file[f] : file[f][i] = ev

(* Rotation drops only old events: the last MaxSize + 1 events written are    *)
(* on disk (events.py:61-64), but for those that a writer overwrote with a     *)
(* file he had not measured, and those that went into a file already moved.   *)
RecentKept ==
    \A i \in DOMAIN history \ astray :
        i + MaxSize >= Len(history) =>
            InFile(live, history[i].ev) \/ InFile(kept, history[i].ev)

================================================================================
