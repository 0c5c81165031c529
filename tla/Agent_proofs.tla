--------------------------- MODULE Agent_proofs ---------------------------
(***************************************************************************)
(* What rotation may lose, for any number of writers, any size of a file    *)
(* and any number of events: RecentKept, of the journal and in every agent   *)
(* session; and that a session's types hold and its stream is faithful.      *)
(***************************************************************************)
EXTENDS Agent, DataTheorems

Stamped == [id : Nat, ts : Nat]

Place == [pc : {"idle", "check", "rotate", "open", "write"},
          ev : Stamped, seen : Nat, fh : Nat]

JournalType ==
    /\ file \in Seq(Seq(Stamped)) /\ history \in Seq([ev : Stamped, at : Nat])
    /\ live \in 0..Len(file) /\ kept \in 0..Len(file)
    /\ clock \in Nat /\ emitted \in Nat /\ astray \subseteq Nat
    /\ writer \in [Writers -> Place]

(* The kept file is not the live one; an appender that writes has a file      *)
(* open; and one that is about to rotate has measured a file that was too     *)
(* large, and files only grow.                                              *)
Handles ==
    /\ live # 0 => live # kept
    /\ \A w \in Writers :
        /\ writer[w].pc = "write" => writer[w].fh \in DOMAIN file
        /\ writer[w].pc = "rotate" =>
              writer[w].seen \in DOMAIN file /\ Len(file[writer[w].seen]) > MaxSize

(* An event is in the file it was written to.                                *)
Placed(i) ==
    /\ history[i].at \in DOMAIN file
    /\ \E k \in DOMAIN file[history[i].at] : file[history[i].at][k] = history[i].ev

(* Unless it has gone astray, that file still has its name or the event is    *)
(* old; and what is in the live file now came after all that is elsewhere.    *)
Found(i) ==
    i \notin astray =>
        /\ history[i].at \in {live, kept} \/ i + MaxSize < Len(history)
        /\ live # 0 /\ history[i].at # live => i + Len(file[live]) <= Len(history)

JournalInv ==
    /\ JournalType /\ Handles
    /\ \A i \in DOMAIN history : Placed(i) /\ Found(i)

--------------------------------------------------------------------------------

(* What the invariant is for: an event that is not old is in one of the two    *)
(* files that have a name.                                                  *)
LEMMA InvKeepsRecent == JournalInv => RecentKept
  <1>. SUFFICES ASSUME JournalInv,
                       NEW i \in DOMAIN history, i \notin astray, i + MaxSize >= Len(history)
                PROVE  InFile(live, history[i].ev) \/ InFile(kept, history[i].ev)
    BY DEF RecentKept
  <1>. DEFINE f == history[i].at
  <1>1. i \in Nat /\ Len(history) \in Nat /\ 0 \notin DOMAIN file
    BY DEF JournalInv, JournalType
  <1>2. Placed(i) /\ Found(i)
    BY DEF JournalInv
  <1>3. f \in {live, kept}
    BY <1>1, <1>2, SizeAssumption DEF Found
  <1>4. f # 0 /\ \E k \in DOMAIN file[f] : file[f][k] = history[i].ev
    BY <1>1, <1>2 DEF Placed
  <1>. HIDE DEF f
  <1>. QED BY <1>3, <1>4 DEF InFile

(* There is no journal at first. *)
LEMMA InvInit == JournalInit => JournalInv
  <1>. SUFFICES ASSUME JournalInit PROVE JournalInv
    OBVIOUS
  <1>1. Idle \in Place
    BY DEF Idle, NoEvent, Stamped, Place
  <1>2. JournalType
    <2>1. writer \in [Writers -> Place]
      BY <1>1 DEF JournalInit
    <2>2. file \in Seq(Seq(Stamped)) /\ history \in Seq([ev : Stamped, at : Nat])
      BY DEF JournalInit
    <2>3. live = 0 /\ kept = 0 /\ clock \in Nat /\ emitted \in Nat /\ astray = {}
      BY DEF JournalInit
    <2>. QED BY <2>1, <2>2, <2>3 DEF JournalType
  <1>3. Handles
    BY DEF JournalInit, Handles, Idle
  <1>4. DOMAIN history = {}
    BY DEF JournalInit
  <1>. QED BY <1>2, <1>3, <1>4 DEF JournalInv

(* A step that touches no file keeps the invariant if the writer it moves      *)
(* keeps its type and has its handles.                                      *)
LEMMA FilesAlone ==
  ASSUME JournalInv, UNCHANGED <<file, live, kept, history, astray>>,
         clock' \in Nat, emitted' \in Nat,
         NEW w \in Writers, NEW place \in Place, writer' = [writer EXCEPT ![w] = place],
         place.pc # "write",
         place.pc = "rotate" => place.seen \in DOMAIN file /\ Len(file[place.seen]) > MaxSize
  PROVE  JournalInv'
  <1>1. JournalType'
    BY DEF JournalInv, JournalType
  <1>2. Handles'
    BY DEF JournalInv, JournalType, Handles
  <1>. QED BY <1>1, <1>2 DEF JournalInv, Placed, Found

(* Stamping, measuring and giving up touch no file. *)
LEMMA StampStep == ASSUME JournalInv, NEW w \in Writers, Stamp(w) PROVE JournalInv'
  <1>. DEFINE place == writer'[w]  ev == [id |-> emitted', ts |-> clock']
  <1>1. /\ writer \in [Writers -> Place]
        /\ clock' \in Nat /\ emitted' \in Nat
    BY DEF Stamp, JournalInv, JournalType
  <1>2. writer' = [writer EXCEPT ![w].pc = "check", ![w].ev = ev]
    BY DEF Stamp
  <1>3. ev \in Stamped
    BY <1>1 DEF Stamped
  <1>. HIDE DEF ev
  <1>4. place \in Place /\ place.pc = "check" /\ writer' = [writer EXCEPT ![w] = place]
    BY <1>1, <1>2, <1>3 DEF Place
  <1>. HIDE DEF place
  <1>. QED BY <1>1, <1>4, FilesAlone DEF Stamp

LEMMA CheckStep == ASSUME JournalInv, NEW w \in Writers, Check(w) PROVE JournalInv'
  <1>. DEFINE place == writer'[w]  next == IF TooLarge THEN "rotate" ELSE "open"
  <1>1. writer \in [Writers -> Place] /\ live \in Nat
    BY DEF JournalInv, JournalType
  <1>2. writer' = [writer EXCEPT ![w].seen = live, ![w].pc = next]
    BY DEF Check
  <1>3. next \in {"rotate", "open"} /\ (next = "rotate" => TooLarge)
    OBVIOUS
  <1>. HIDE DEF next
  <1>4. /\ place \in Place /\ place.pc = next /\ place.seen = live
        /\ writer' = [writer EXCEPT ![w] = place]
    BY <1>1, <1>2, <1>3 DEF Place
  <1>5. place.pc = "rotate" => place.seen \in DOMAIN file /\ Len(file[place.seen]) > MaxSize
    BY <1>3, <1>4 DEF TooLarge, JournalInv, JournalType
  <1>. HIDE DEF place
  <1>. QED BY <1>3, <1>4, <1>5, FilesAlone DEF Check, JournalInv, JournalType

LEMMA DropStep == ASSUME JournalInv, NEW w \in Writers, Drop(w) PROVE JournalInv'
  <1>1. Idle \in Place /\ Idle.pc = "idle"
    BY DEF Idle, NoEvent, Stamped, Place
  <1>. QED BY <1>1, FilesAlone DEF Drop, JournalInv, JournalType

(* A rename moves the live file, which was more than full when it was         *)
(* measured and is so still, and makes it what came before.                 *)
LEMMA RotateStep == ASSUME JournalInv, NEW w \in Writers, Rotate(w) PROVE JournalInv'
  <1>1. Idle \in Place /\ Idle.pc = "idle"
    BY DEF Idle, NoEvent, Stamped, Place
  <1>2. CASE live = 0
    BY <1>1, <1>2, FilesAlone DEF Rotate, JournalInv, JournalType
  <1>3. CASE live # 0
    <2>1. /\ kept' = live /\ live' = 0 /\ file' = file /\ history' = history
          /\ writer' = [writer EXCEPT ![w].pc = "open"]
          /\ astray' = IF live = writer[w].seen THEN astray
                       ELSE astray \cup {i \in DOMAIN history : history[i].at = kept}
          /\ clock' = clock /\ emitted' = emitted
      BY <1>3 DEF Rotate
    <2>2. writer[w] \in Place /\ writer[w].pc = "rotate"
      BY DEF Rotate, JournalInv, JournalType
    <2>3. JournalType'
      <3>1. writer' \in [Writers -> Place]
        <4>1. writer \in [Writers -> Place]
          BY DEF JournalInv, JournalType
        <4>. QED BY <2>1, <4>1 DEF Place
      <3>. QED BY <2>1, <3>1 DEF JournalInv, JournalType
    <2>4. Handles'
      BY <1>3, <2>1, <2>2 DEF JournalInv, JournalType, Handles, Place
    <2>5. ASSUME NEW i \in DOMAIN history' PROVE Placed(i)' /\ Found(i)'
      <3>1. /\ i \in Nat /\ i <= Len(history) /\ Len(history) \in Nat
            /\ i \in DOMAIN history
            /\ live \in DOMAIN file /\ Len(file[live]) \in Nat
        BY <1>3, <2>1, <2>5 DEF JournalInv, JournalType
      <3>2. Placed(i) /\ Found(i)
        BY <3>1 DEF JournalInv
      <3>3. Placed(i)'
        BY <2>1, <3>2 DEF Placed
      <3>4. ASSUME i \notin astray', history[i].at # live PROVE i + MaxSize < Len(history)
        <4>1. i \notin astray
          BY <2>1, <3>4
        <4>2. CASE live = writer[w].seen
          <5>1. Len(file[live]) > MaxSize
            BY <2>2, <4>2 DEF JournalInv, Handles
          <5>2. i + Len(file[live]) <= Len(history)
            BY <1>3, <3>2, <3>4, <4>1 DEF Found
          <5>. QED BY <3>1, <5>1, <5>2, SizeAssumption
        <4>3. CASE live # writer[w].seen
          <5>1. history[i].at # kept
            BY <2>1, <3>1, <3>4, <4>3
          <5>. QED BY <3>2, <3>4, <4>1, <5>1 DEF Found
        <4>. QED BY <4>2, <4>3
      <3>5. Found(i)'
        BY <2>1, <3>4 DEF Found
      <3>. QED BY <3>3, <3>5
    <2>. QED BY <2>3, <2>4, <2>5 DEF JournalInv
  <1>. QED BY <1>2, <1>3

(* A journal is made when there is none. *)
LEMMA OpenStep == ASSUME JournalInv, NEW w \in Writers, Open(w) PROVE JournalInv'
  <1>. DEFINE place == writer'[w]
  <1>1. /\ writer \in [Writers -> Place] /\ live \in Nat /\ Len(file) \in Nat
        /\ file \in Seq(Seq(Stamped))
    BY DEF JournalInv, JournalType
  <1>2. /\ writer' = [writer EXCEPT ![w].pc = "write", ![w].fh = live']
        /\ UNCHANGED <<kept, clock, emitted, history, astray>>
    BY DEF Open
  <1>3. CASE live # 0
    <2>1. file' = file /\ live' = live
      BY <1>3 DEF Open
    <2>2. writer' \in [Writers -> Place]
      BY <1>1, <1>2, <2>1 DEF Place
    <2>3. JournalType'
      BY <1>2, <2>1, <2>2 DEF JournalInv, JournalType
    <2>4. Handles'
      <3>1. ASSUME NEW v \in Writers
            PROVE  /\ writer'[v].pc = "write" => writer'[v].fh \in DOMAIN file
                   /\ writer'[v].pc = "rotate" => writer'[v] = writer[v]
        <4>1. CASE v = w
          BY <1>1, <1>2, <1>3, <2>1, <4>1 DEF Place, JournalInv, JournalType
        <4>2. CASE v # w
          BY <1>1, <1>2, <4>2 DEF JournalInv, Handles
        <4>. QED BY <4>1, <4>2
      <3>. QED BY <1>2, <2>1, <3>1 DEF JournalInv, Handles
    <2>. QED BY <1>2, <2>1, <2>3, <2>4 DEF JournalInv, Placed, Found
  <1>4. CASE live = 0
    <2>1. file' = Append(file, <<>>) /\ live' = Len(file) + 1
      BY <1>4 DEF Open
    <2>2. /\ file' \in Seq(Seq(Stamped)) /\ Len(file') = Len(file) + 1
          /\ file'[live'] = <<>>
          /\ \A f \in DOMAIN file : f \in DOMAIN file' /\ file'[f] = file[f]
      BY <1>1, <2>1
    <2>3. writer' \in [Writers -> Place]
      <3>1. live' \in Nat
        BY <1>1, <2>1
      <3>. QED BY <1>1, <1>2, <3>1 DEF Place
    <2>4. JournalType'
      BY <1>1, <1>2, <2>1, <2>2, <2>3 DEF JournalInv, JournalType
    <2>5. Handles'
      <3>1. ASSUME NEW v \in Writers
            PROVE  /\ writer'[v].pc = "write" => writer'[v].fh \in DOMAIN file'
                   /\ writer'[v].pc = "rotate" => writer'[v] = writer[v]
        <4>1. CASE v = w
          BY <1>1, <1>2, <2>1, <2>2, <4>1 DEF Place
        <4>2. CASE v # w
          BY <1>1, <1>2, <2>2, <4>2 DEF JournalInv, Handles
        <4>. QED BY <4>1, <4>2
      <3>. QED BY <1>1, <1>2, <2>1, <2>2, <3>1 DEF JournalInv, JournalType, Handles
    <2>6. ASSUME NEW i \in DOMAIN history' PROVE Placed(i)' /\ Found(i)'
      <3>1. i \in DOMAIN history /\ i \in Nat /\ i <= Len(history) /\ Len(history) \in Nat
        BY <1>2, <2>6 DEF JournalInv, JournalType
      <3>2. Placed(i) /\ Found(i)
        BY <3>1 DEF JournalInv
      <3>3. Placed(i)'
        BY <1>2, <2>2, <3>2 DEF Placed
      <3>4. history[i].at # live
        BY <1>1, <1>4, <3>2 DEF Placed
      <3>5. Len(file'[live']) = 0
        BY <2>2
      <3>. QED BY <1>2, <3>1, <3>2, <3>3, <3>4, <3>5 DEF Found
    <2>. QED BY <2>4, <2>5, <2>6 DEF JournalInv
  <1>. QED BY <1>3, <1>4

(* An event becomes the end of the history and of the file it is written to.   *)
LEMMA WriteStep == ASSUME JournalInv, NEW w \in Writers, Write(w) PROVE JournalInv'
  <1>. DEFINE ev == writer[w].ev  fh == writer[w].fh
  <1>1. /\ writer \in [Writers -> Place] /\ ev \in Stamped /\ fh \in DOMAIN file
        /\ file \in Seq(Seq(Stamped)) /\ file[fh] \in Seq(Stamped)
        /\ history \in Seq([ev : Stamped, at : Nat])
    BY DEF Write, JournalInv, JournalType, Handles, Place
  <1>2. /\ file' = [file EXCEPT ![fh] = Append(file[fh], ev)]
        /\ history' = Append(history, [ev |-> ev, at |-> fh])
        /\ astray' = IF fh = live THEN astray ELSE astray \cup {Len(history')}
        /\ writer' = [writer EXCEPT ![w] = Idle]
        /\ UNCHANGED <<live, kept, clock, emitted>>
    BY <1>1 DEF Write, Appended
  <1>. HIDE DEF ev, fh
  <1>3. /\ file' \in Seq(Seq(Stamped)) /\ Len(file') = Len(file)
        /\ file'[fh] = Append(file[fh], ev)
        /\ \A f \in DOMAIN file : f # fh => file'[f] = file[f]
        /\ \A f \in DOMAIN file : Len(file'[f]) >= Len(file[f])
    BY <1>1, <1>2
  <1>4. /\ history' \in Seq([ev : Stamped, at : Nat]) /\ Len(history') = Len(history) + 1
        /\ history'[Len(history) + 1] = [ev |-> ev, at |-> fh] /\ Len(history) \in Nat
        /\ \A i \in 1..Len(history) : history'[i] = history[i]
    BY <1>1, <1>2
  <1>5. Idle \in Place /\ Idle.pc = "idle"
    BY DEF Idle, NoEvent, Stamped, Place
  <1>6. JournalType'
    <2>1. writer' \in [Writers -> Place]
      BY <1>1, <1>2, <1>5
    <2>. QED BY <1>1, <1>2, <1>3, <1>4, <2>1 DEF JournalInv, JournalType
  <1>7. Handles'
    <2>1. ASSUME NEW v \in Writers
          PROVE  /\ writer'[v].pc = "write" => writer'[v].fh \in DOMAIN file'
                 /\ writer'[v].pc = "rotate" =>
                      writer'[v].seen \in DOMAIN file' /\ Len(file'[writer'[v].seen]) > MaxSize
      <3>1. CASE v = w
        BY <1>1, <1>2, <1>5, <3>1
      <3>2. CASE v # w
        <4>1. writer'[v] = writer[v] /\ DOMAIN file' = DOMAIN file
          BY <1>1, <1>2, <3>2
        <4>2. writer[v].pc = "rotate" =>
                writer[v].seen \in DOMAIN file /\ Len(file[writer[v].seen]) > MaxSize
          BY DEF JournalInv, Handles
        <4>3. \A f \in DOMAIN file : Len(file'[f]) \in Nat /\ Len(file[f]) \in Nat
          BY <1>1, <1>3
        <4>. QED BY <1>3, <4>1, <4>2, <4>3, SizeAssumption DEF JournalInv, Handles
      <3>. QED BY <3>1, <3>2
    <2>. QED BY <1>2, <2>1 DEF JournalInv, Handles
  <1>8. ASSUME NEW i \in DOMAIN history' PROVE Placed(i)' /\ Found(i)'
    <2>. DEFINE n == Len(history)
    <2>1. i \in Nat /\ n \in Nat /\ i \in 1..n + 1 /\ Len(history') = n + 1
      BY <1>4, <1>8
    <2>2. /\ live # 0 => live \in DOMAIN file
          /\ \A f \in DOMAIN file : Len(file[f]) \in Nat /\ DOMAIN file[f] = 1..Len(file[f])
      BY <1>1 DEF JournalInv, JournalType
    <2>3. CASE i = n + 1
      <3>1. history'[i].at = fh /\ history'[i].ev = ev
        BY <1>4, <2>3
      <3>2. Placed(i)'
        <4>1. Len(file[fh]) + 1 \in DOMAIN file'[fh] /\ file'[fh][Len(file[fh]) + 1] = ev
          BY <1>1, <1>3
        <4>. QED BY <1>1, <1>3, <3>1, <4>1 DEF Placed
      <3>3. Found(i)'
        BY <1>2, <2>1, <2>3, <3>1 DEF Found
      <3>. QED BY <3>2, <3>3
    <2>4. CASE i # n + 1
      <3>1. i \in DOMAIN history /\ history'[i] = history[i]
        <4>1. i \in 1..n
          BY <2>1, <2>4
        <4>2. DOMAIN history = 1..n
          BY <1>1
        <4>. QED BY <1>4, <4>1, <4>2
      <3>2. Placed(i) /\ Found(i)
        BY <3>1 DEF JournalInv
      <3>. DEFINE f == history[i].at
      <3>3. Placed(i)'
        <4>1. f \in DOMAIN file
          BY <3>2 DEF Placed
        <4>2. PICK k \in DOMAIN file[f] : file[f][k] = history[i].ev
          BY <3>2 DEF Placed
        <4>. HIDE DEF f
        <4>3. k \in DOMAIN file'[f] /\ file'[f][k] = file[f][k]
          <5>1. CASE f = fh
            <6>1. /\ file'[f] = Append(file[f], ev) /\ file[f] \in Seq(Stamped)
                  /\ k \in 1..Len(file[f])
              BY <1>1, <1>3, <4>2, <5>1
            <6>. QED BY <1>1, <6>1
          <5>2. CASE f # fh
            BY <1>3, <4>1, <4>2, <5>2
          <5>. QED BY <5>1, <5>2
        <4>4. history'[i].at = f /\ history'[i].ev = history[i].ev
          BY <3>1 DEF f
        <4>5. f \in DOMAIN file'
          BY <1>1, <1>3, <4>1
        <4>. QED BY <4>2, <4>3, <4>4, <4>5 DEF Placed
      <3>4. Found(i)'
        <4>. SUFFICES ASSUME i \notin astray'
             PROVE  /\ f \in {live, kept} \/ i + MaxSize < n + 1
                    /\ live # 0 /\ f # live => i + Len(file'[live]) <= n + 1
          BY <1>2, <2>1, <3>1 DEF Found
        <4>1. i \notin astray
          BY <1>2
        <4>2. f \in {live, kept} \/ i + MaxSize < n + 1
          BY <2>1, <3>2, <4>1, SizeAssumption DEF Found
        <4>3. ASSUME live # 0, f # live PROVE i + Len(file'[live]) <= n + 1
          <5>1. i + Len(file[live]) <= n /\ live \in DOMAIN file
            BY <2>2, <3>2, <4>1, <4>3 DEF Found
          <5>2. Len(file'[live]) <= Len(file[live]) + 1 /\ Len(file'[live]) \in Nat
            <6>1. CASE live = fh
              <7>1. file'[live] = Append(file[live], ev) /\ file[live] \in Seq(Stamped)
                BY <1>1, <1>3, <6>1
              <7>. QED BY <1>1, <7>1
            <6>2. CASE live # fh
              BY <1>3, <2>2, <5>1, <6>2
            <6>. QED BY <6>1, <6>2
          <5>. QED BY <2>1, <2>2, <5>1, <5>2
        <4>. QED BY <4>2, <4>3
      <3>. QED BY <3>3, <3>4
    <2>. QED BY <2>3, <2>4
  <1>. QED BY <1>6, <1>7, <1>8 DEF JournalInv

--------------------------------------------------------------------------------

(* Rotation drops only old events: the last MaxSize + 1 events written are on   *)
(* disk, but for those that a writer overwrote with a file he had not measured,  *)
(* and those that went into a file already moved.                            *)
THEOREM RotationKeepsRecent == JournalSpec => []RecentKept
  <1>1. JournalInv /\ [JournalNext]_journal => JournalInv'
    <2>. SUFFICES ASSUME JournalInv, [JournalNext]_journal PROVE JournalInv'
      OBVIOUS
    <2>1. CASE UNCHANGED journal
      BY <2>1 DEF journal, JournalInv, JournalType, Handles, Placed, Found
    <2>2. CASE JournalNext
      BY <2>2, StampStep, CheckStep, RotateStep, OpenStep, WriteStep, DropStep DEF JournalNext
    <2>. QED BY <2>1, <2>2
  <1>. QED BY InvInit, <1>1, InvKeepsRecent, PTL DEF JournalSpec

(* So it is while an agent session streams the journal: a session reads it     *)
(* and changes none of it.                                                  *)
THEOREM SessionKeepsRecent == Spec => []RecentKept
  <1>1. Init => JournalInit
    BY DEF Init
  <1>2. [Next]_vars => [JournalNext]_journal
    <2>. SUFFICES ASSUME [Next]_vars, ~(UNCHANGED journal) PROVE JournalNext
      OBVIOUS
    <2>1. CASE AgentNext
      BY <2>1 DEF AgentNext, ReadNoise, MainStep, WriteReply, Join, EndOfInput, Hangup, Refuse, Hello,
         Shutdown, Subscribe, Call, ThreadStep, Look, Fetch, BeginSend, EndSend
    <2>2. CASE UNCHANGED vars
      BY <2>2 DEF vars
    <2>. QED BY <2>1, <2>2 DEF Next
  <1>3. Spec => JournalSpec
    BY <1>1, <1>2, PTL DEF Spec, JournalSpec
  <1>. QED BY <1>3, RotationKeepsRecent, PTL

--------------------------------------------------------------------------------

(* Every event carries the number and the time it was stamped with, and time   *)
(* runs no faster than events are stamped.                                  *)
Stamps ==
    /\ emitted \in 0..MaxEvents /\ clock \in 1..emitted + 1
    /\ \A w \in Writers : writer[w].pc # "idle" => writer[w].ev \in Events
    /\ file \in Seq(Seq(Events))
    /\ history \in Seq([ev : Events, at : Nat])

(* What was written is in the file it was written to, and nothing else is.     *)
Filed ==
    /\ \A h \in DOMAIN history :
          /\ history[h].at \in DOMAIN file
          /\ \E i \in DOMAIN file[history[h].at] : file[history[h].at][i] = history[h].ev
    /\ \A f \in DOMAIN file : \A i \in DOMAIN file[f] :
          \E h \in DOMAIN history : history[h].ev = file[f][i]

Ascending(s) == \A i, j \in DOMAIN s : i < j => s[i].ts < s[j].ts

(* A journal in order is in order file by file. *)
FilesAscend == InOrder => \A f \in DOMAIN file : Ascending(file[f])

EventsInv == JournalInv /\ Stamps /\ Filed /\ FilesAscend

(* The events a reader takes from a file: those that pass, each of them, in    *)
(* the order of the file.                                                   *)
LEMMA AfterFacts ==
    ASSUME NEW f \in Seq(Events), NEW since \in Nat
    PROVE  /\ After(f, since) \in Seq(Events)
           /\ \A j \in DOMAIN After(f, since) :
                 /\ After(f, since)[j].ts > since
                 /\ \E i \in DOMAIN f : f[i] = After(f, since)[j]
           /\ \A i \in DOMAIN f : f[i].ts > since =>
                 \E j \in DOMAIN After(f, since) : After(f, since)[j] = f[i]
           /\ Ascending(f) => Ascending(After(f, since))
  <1>. DEFINE D == Seq(Events)
              next(n, r) == IF f[n].ts > since THEN Append(r, f[n]) ELSE r
              step == [n \in 1..Len(f) |-> [r \in D |-> next(n, r)]]
              read == CHOOSE r : r = [n \in 0..Len(f) |->
                                        IF n = 0 THEN <<>> ELSE next(n, r[n - 1])]
  <1>1. Len(f) \in Nat /\ <<>> \in D /\ DOMAIN f = 1..Len(f)
    OBVIOUS
  <1>2. step \in [1..Len(f) -> [D -> D]]
    <2>1. ASSUME NEW n \in 1..Len(f), NEW r \in D PROVE next(n, r) \in D
      <3>1. f[n] \in Events
        OBVIOUS
      <3>2. Append(r, f[n]) \in D
        BY <3>1
      <3>. QED BY <3>2
    <2>. QED BY <2>1
  <1>3. PICK g \in [0..Len(f) -> D] :
            g[0] = <<>> /\ \A n \in 1..Len(f) : g[n] = step[n][g[n - 1]]
    <2>. HIDE DEF step, D
    <2>1. \E g : Made(g, Len(f), D, <<>>, step)
      BY <1>1, <1>2, Steps
    <2>. QED BY <2>1 DEF Made
  <1>4. g = [n \in 0..Len(f) |-> IF n = 0 THEN <<>> ELSE next(n, g[n - 1])]
    <2>1. ASSUME NEW n \in 1..Len(f) PROVE g[n] = next(n, g[n - 1])
      <3>1. g[n - 1] \in D
        BY <1>1, <1>3
      <3>. HIDE DEF D, next
      <3>. QED BY <1>3, <3>1
    <2>. HIDE DEF next, step, D
    <2>2. ASSUME NEW n \in 0..Len(f)
          PROVE  g[n] = IF n = 0 THEN <<>> ELSE next(n, g[n - 1])
      BY <1>1, <1>3, <2>1
    <2>. QED BY <1>3, <2>2
  <1>5. read = [n \in 0..Len(f) |-> IF n = 0 THEN <<>> ELSE next(n, read[n - 1])]
    <2>. HIDE DEF next
    <2>. QED BY <1>4
  <1>6. After(f, since) = read[Len(f)]
    BY DEF After
  <1>. HIDE DEF read, step
  <1>7. read[0] = <<>> /\ \A n \in 0..Len(f) - 1 : read[n + 1] = next(n + 1, read[n])
    <2>. HIDE DEF next
    <2>. QED BY <1>1, <1>5
  <1>. DEFINE Good(n, r) ==
                /\ r \in D
                /\ \A j \in DOMAIN r : r[j].ts > since /\ \E i \in 1..n : f[i] = r[j]
                /\ \A i \in 1..n : f[i].ts > since => \E j \in DOMAIN r : r[j] = f[i]
                /\ Ascending(f) => Ascending(r)
              S == {n \in 0..Len(f) : Good(n, read[n])}
  <1>8. 0 \in S
    <2>1. Good(0, <<>>)
      BY DEF Ascending
    <2>. HIDE DEF Good
    <2>. QED BY <1>1, <1>7, <2>1
  <1>9. ASSUME NEW n \in 0..Len(f) - 1, n \in S PROVE n + 1 \in S
    <2>. DEFINE r == read[n]  e == f[n + 1]
    <2>1. /\ n + 1 \in 1..Len(f) /\ e \in Events /\ r \in Seq(Events)
          /\ read[n + 1] = IF e.ts > since THEN Append(r, e) ELSE r
      BY <1>1, <1>7, <1>9
    <2>2. Good(n, r)
      BY <1>9
    <2>. HIDE DEF r, e
    <2>3. CASE ~(e.ts > since)
      <3>1. Good(n + 1, r)
        <4>1. \A i \in 1..n + 1 : i \in 1..n \/ i = n + 1
          OBVIOUS
        <4>2. \A i \in 1..n : i \in 1..n + 1
          OBVIOUS
        <4>. QED BY <2>2, <2>3, <4>1, <4>2 DEF e
      <3>. HIDE DEF Good
      <3>. QED BY <2>1, <2>3, <3>1
    <2>4. CASE e.ts > since
      <3>. DEFINE s == Append(r, e)
      <3>1. /\ s \in Seq(Events) /\ Len(s) = Len(r) + 1 /\ DOMAIN s = 1..Len(r) + 1
            /\ DOMAIN r = 1..Len(r) /\ Len(r) \in Nat
            /\ s[Len(r) + 1] = e /\ \A j \in 1..Len(r) : s[j] = r[j]
        BY <2>1
      <3>. HIDE DEF s
      <3>2. ASSUME NEW j \in DOMAIN s
            PROVE  s[j].ts > since /\ \E i \in 1..n + 1 : f[i] = s[j]
        <4>1. CASE j \in 1..Len(r)
          <5>1. s[j] = r[j] /\ j \in DOMAIN r
            BY <3>1, <4>1
          <5>2. PICK i \in 1..n : f[i] = r[j]
            BY <2>2, <5>1
          <5>3. i \in 1..n + 1
            OBVIOUS
          <5>. QED BY <2>2, <5>1, <5>2, <5>3
        <4>2. CASE j = Len(r) + 1
          <5>1. n + 1 \in 1..n + 1
            OBVIOUS
          <5>. QED BY <2>4, <3>1, <4>2, <5>1 DEF e
        <4>. QED BY <3>1, <3>2, <4>1, <4>2
      <3>3. ASSUME NEW i \in 1..n + 1, f[i].ts > since PROVE \E j \in DOMAIN s : s[j] = f[i]
        <4>1. CASE i \in 1..n
          <5>1. PICK j \in DOMAIN r : r[j] = f[i]
            BY <2>2, <3>3, <4>1
          <5>. QED BY <3>1, <5>1
        <4>2. CASE i = n + 1
          BY <3>1, <4>2 DEF e
        <4>. QED BY <4>1, <4>2
      <3>4. ASSUME Ascending(f), NEW i \in DOMAIN s, NEW j \in DOMAIN s, i < j
            PROVE  s[i].ts < s[j].ts
        <4>1. i \in 1..Len(r) /\ s[i] = r[i]
          BY <3>1, <3>4
        <4>2. CASE j \in 1..Len(r)
          BY <2>2, <3>1, <3>4, <4>1, <4>2 DEF Ascending
        <4>3. CASE j = Len(r) + 1
          <5>1. PICK k \in 1..n : f[k] = r[i]
            BY <2>2, <3>1, <4>1
          <5>2. k \in DOMAIN f /\ n + 1 \in DOMAIN f /\ k < n + 1
            BY <1>1, <2>1
          <5>3. f[k].ts < f[n + 1].ts
            BY <3>4, <5>2 DEF Ascending
          <5>. QED BY <3>1, <4>1, <4>3, <5>1, <5>3 DEF e
        <4>. QED BY <3>1, <4>2, <4>3
      <3>5. Good(n + 1, s)
        BY <3>1, <3>2, <3>3, <3>4 DEF Ascending
      <3>6. read[n + 1] = s
        BY <2>1, <2>4 DEF s
      <3>. HIDE DEF Good
      <3>. QED BY <2>1, <3>5, <3>6
    <2>. QED BY <2>3, <2>4
  <1>10. \A n \in 0..Len(f) : n \in S
    <2>. HIDE DEF S
    <2>. QED BY <1>1, <1>8, <1>9, InductionUpTo
  <1>11. Good(Len(f), After(f, since))
    <2>. HIDE DEF Good
    <2>. QED BY <1>1, <1>6, <1>10
  <1>. QED BY <1>1, <1>11

--------------------------------------------------------------------------------

(* What a stream thread holds: events, and some when it is about to send one. *)
SessionType ==
    /\ caps \subseteq Capabilities
    /\ main \in {"read", "join", "reply", "ended"} /\ todo \in Requests \cup {Close}
    /\ stop \in BOOLEAN /\ shutdown \in BOOLEAN /\ gone \in BOOLEAN
    /\ thread \in Seq(ThreadType)
    /\ stream \in 0..Len(thread) /\ wlock \in 0..Len(thread)
    /\ \A t \in DOMAIN thread :
          /\ thread[t].pc \in {"look", "check", "fetch", "done"} => thread[t].batch = <<>>
          /\ thread[t].pc \in {"send", "sending"} => thread[t].batch # <<>>

SessionInv == EventsInv /\ SessionType

Holds(s, ev) == \E i \in DOMAIN s : s[i] = ev
Written(ev) == \E h \in DOMAIN history : history[h].ev = ev

(* The cursor of a thread is ahead of what it sent only while it writes an     *)
(* event, and once the write has failed.                                    *)
Settled(s) == s.pc \notin {"sending", "dead"}

(* The time up to which a thread has dealt with the journal: its cursor, the   *)
(* events it has sent and those it has read.                                *)
Reached(s, ts) ==
    \/ Settled(s) /\ ts <= s.last
    \/ \E i \in DOMAIN s.sent : ts <= s.sent[i].ts
    \/ \E i \in DOMAIN s.batch : ts <= s.batch[i].ts

(* What a thread sent is in order and before what it has still to send, the    *)
(* cursor stands between the two, and of all that it has dealt with it misses  *)
(* only what is no longer live.                                             *)
InLine(s) ==
    /\ Ascending(s.sent) /\ Ascending(s.batch)
    /\ \A i \in DOMAIN s.sent : Written(s.sent[i])
    /\ \A i \in DOMAIN s.batch : Written(s.batch[i])
    /\ \A i \in DOMAIN s.sent : \A j \in DOMAIN s.batch : s.sent[i].ts < s.batch[j].ts

Cursor(s) ==
    /\ s.pc = "sending" => s.last = s.batch[1].ts
    /\ Settled(s) =>
        /\ s.last = s.since \/ \E i \in DOMAIN s.sent : s.last = s.sent[i].ts
        /\ \A i \in DOMAIN s.sent : s.sent[i].ts <= s.last
        /\ \A j \in DOMAIN s.batch : s.last < s.batch[j].ts

Complete(s) ==
    \A h \in DOMAIN history :
        history[h].ev.ts > s.since /\ Reached(s, history[h].ev.ts) =>
            \/ Holds(s.sent, history[h].ev) \/ Holds(s.batch, history[h].ev)
            \/ history[h].at # live

StreamInv == InOrder => \A t \in DOMAIN thread :
                            InLine(thread[t]) /\ Cursor(thread[t]) /\ Complete(thread[t])

--------------------------------------------------------------------------------

(* There are no events at first. *)
LEMMA EventsInit == JournalInit => EventsInv
  <1>. SUFFICES ASSUME JournalInit PROVE EventsInv
    OBVIOUS
  <1>1. /\ file = <<>> /\ history = <<>> /\ emitted = 0 /\ clock = 1
        /\ \A w \in Writers : writer[w].pc = "idle"
    BY DEF JournalInit, Idle
  <1>2. DOMAIN file = {} /\ DOMAIN history = {}
    BY <1>1
  <1>3. file \in Seq(Seq(Events)) /\ history \in Seq([ev : Events, at : Nat])
    BY <1>1
  <1>4. Stamps
    BY <1>1, <1>3, EventsAssumption DEF Stamps
  <1>5. Filed /\ FilesAscend
    BY <1>2 DEF Filed, FilesAscend
  <1>. QED BY <1>4, <1>5, InvInit DEF EventsInv

(* Files and history as they were are filed and in order as they were. *)
LEMMA FiledAlone ==
    ASSUME Filed, FilesAscend, UNCHANGED <<file, history>>
    PROVE  Filed' /\ FilesAscend'
  BY DEF Filed, FilesAscend, InOrder, Ascending

(* A writer that is moved on, or starts over, keeps the event it has. *)
LEMMA StampsAlone ==
    ASSUME Stamps, UNCHANGED <<file, history, emitted, clock>>,
           \A w \in Writers : writer'[w].pc # "idle" =>
               writer'[w].ev = writer[w].ev /\ writer[w].pc # "idle"
    PROVE  Stamps'
  <1>1. \A w \in Writers : writer'[w].pc # "idle" => writer'[w].ev \in Events
    BY DEF Stamps
  <1>. HIDE DEF Events
  <1>2. /\ emitted' \in 0..MaxEvents /\ clock' \in 1..emitted' + 1
        /\ file' \in Seq(Seq(Events)) /\ history' \in Seq([ev : Events, at : Nat])
    BY DEF Stamps
  <1>. QED BY <1>1, <1>2 DEF Stamps

(* What is said of the step: all but the place of the writer stays.           *)
LEMMA PlaceAlone ==
    ASSUME JournalType, NEW w \in Writers, writer[w].pc # "idle", NEW pc, NEW seen, NEW fh,
           \/ writer' = [writer EXCEPT ![w] = Idle]
           \/ writer' = [writer EXCEPT ![w].seen = seen, ![w].pc = pc]
           \/ writer' = [writer EXCEPT ![w].pc = pc]
           \/ writer' = [writer EXCEPT ![w].pc = pc, ![w].fh = fh]
    PROVE  \A v \in Writers : writer'[v].pc # "idle" =>
               writer'[v].ev = writer[v].ev /\ writer[v].pc # "idle"
  <1>. SUFFICES ASSUME NEW v \in Writers, writer'[v].pc # "idle"
                PROVE  writer'[v].ev = writer[v].ev /\ writer[v].pc # "idle"
    OBVIOUS
  <1>1. writer \in [Writers -> Place] /\ Idle.pc = "idle"
    BY DEF JournalType, Idle
  <1>2. CASE v # w
    BY <1>1, <1>2
  <1>3. CASE v = w
    BY <1>1, <1>3 DEF Place
  <1>. QED BY <1>2, <1>3

(* A new event gets the next number, and a time no later than there are        *)
(* events.                                                                 *)
LEMMA EventsStamp == ASSUME EventsInv, NEW w \in Writers, Stamp(w) PROVE EventsInv'
  <1>1. JournalInv' /\ JournalType
    BY StampStep DEF EventsInv, JournalInv
  <1>. DEFINE ev == [id |-> emitted', ts |-> clock']
  <1>2. /\ emitted' \in 1..MaxEvents /\ clock' \in 1..emitted' + 1 /\ clock' \in 1..MaxEvents + 1
    BY EventsAssumption DEF EventsInv, Stamps, Stamp
  <1>3. ev \in Events
    BY <1>2 DEF Events
  <1>4. writer' = [writer EXCEPT ![w].pc = "check", ![w].ev = ev]
    BY DEF Stamp
  <1>. HIDE DEF ev
  <1>5. ASSUME NEW v \in Writers, writer'[v].pc # "idle" PROVE writer'[v].ev \in Events
    <2>1. writer \in [Writers -> Place]
      BY <1>1 DEF JournalType
    <2>2. CASE v = w
      BY <1>3, <1>4, <2>1, <2>2 DEF Place
    <2>3. CASE v # w
      BY <1>4, <1>5, <2>1, <2>3 DEF EventsInv, Stamps
    <2>. QED BY <2>2, <2>3
  <1>6. file' = file /\ history' = history
    BY DEF Stamp
  <1>7. /\ emitted' \in 0..MaxEvents
        /\ file' \in Seq(Seq(Events)) /\ history' \in Seq([ev : Events, at : Nat])
    BY <1>2, <1>6 DEF EventsInv, Stamps
  <1>8. Stamps'
    BY ONLY <1>2, <1>5, <1>7 DEF Stamps
  <1>. QED BY <1>1, <1>6, <1>8, FiledAlone DEF EventsInv

LEMMA EventsCheck == ASSUME EventsInv, NEW w \in Writers, Check(w) PROVE EventsInv'
  <1>1. JournalInv' /\ JournalType
    BY CheckStep DEF EventsInv, JournalInv
  <1>2. \A v \in Writers : writer'[v].pc # "idle" =>
            writer'[v].ev = writer[v].ev /\ writer[v].pc # "idle"
    BY <1>1, PlaceAlone DEF Check
  <1>3. Stamps'
    BY <1>2, StampsAlone DEF EventsInv, Check
  <1>. QED BY <1>1, <1>3, FiledAlone DEF EventsInv, Check

LEMMA EventsDrop == ASSUME EventsInv, NEW w \in Writers, Drop(w) PROVE EventsInv'
  <1>1. JournalInv' /\ JournalType
    BY DropStep DEF EventsInv, JournalInv
  <1>2. \A v \in Writers : writer'[v].pc # "idle" =>
            writer'[v].ev = writer[v].ev /\ writer[v].pc # "idle"
    BY <1>1, PlaceAlone DEF Drop
  <1>3. Stamps'
    BY <1>2, StampsAlone DEF EventsInv, Drop
  <1>. QED BY <1>1, <1>3, FiledAlone DEF EventsInv, Drop

LEMMA EventsRotate == ASSUME EventsInv, NEW w \in Writers, Rotate(w) PROVE EventsInv'
  <1>1. JournalInv' /\ JournalType
    BY RotateStep DEF EventsInv, JournalInv
  <1>2. \A v \in Writers : writer'[v].pc # "idle" =>
            writer'[v].ev = writer[v].ev /\ writer[v].pc # "idle"
    <2>1. \/ writer' = [writer EXCEPT ![w] = Idle]
          \/ writer' = [writer EXCEPT ![w].pc = "open"]
      <3>1. CASE live = 0
        BY <3>1 DEF Rotate
      <3>2. CASE live # 0
        BY <3>2 DEF Rotate
      <3>. QED BY <3>1, <3>2
    <2>. QED BY <1>1, <2>1, PlaceAlone DEF Rotate
  <1>3. Stamps'
    BY <1>2, StampsAlone DEF EventsInv, Rotate
  <1>4. UNCHANGED <<file, history>>
    BY DEF Rotate
  <1>. QED BY <1>1, <1>3, <1>4, FiledAlone DEF EventsInv

(* A new file is empty. *)
LEMMA EventsOpen == ASSUME EventsInv, NEW w \in Writers, Open(w) PROVE EventsInv'
  <1>1. JournalInv' /\ JournalType /\ JournalType'
    BY OpenStep DEF EventsInv, JournalInv
  <1>2. /\ UNCHANGED <<history, emitted, clock>>
        /\ file' = file \/ file' = Append(file, <<>>)
        /\ writer' = [writer EXCEPT ![w].pc = "write", ![w].fh = live'] /\ writer[w].pc # "idle"
    BY DEF Open
  <1>3. /\ file' \in Seq(Seq(Events))
        /\ \A f \in DOMAIN file : f \in DOMAIN file' /\ file'[f] = file[f]
        /\ \A f \in DOMAIN file' : f \in DOMAIN file \/ file'[f] = <<>>
    <2>1. file \in Seq(Seq(Events)) /\ <<>> \in Seq(Events)
      BY DEF EventsInv, Stamps
    <2>2. CASE file' = file
      BY <2>1, <2>2
    <2>3. CASE file' = Append(file, <<>>)
      <3>. DEFINE E == Seq(Events)  none == <<>>
      <3>1. file \in Seq(E) /\ none \in E /\ file' = Append(file, none)
        BY <2>1, <2>3
      <3>. HIDE DEF E, none
      <3>2. /\ file' \in Seq(E) /\ DOMAIN file' = DOMAIN file \cup {Len(file) + 1}
            /\ file'[Len(file) + 1] = none
            /\ \A f \in DOMAIN file : file'[f] = file[f]
        BY <3>1
      <3>. QED BY <3>2 DEF E, none
    <2>. QED BY <1>2, <2>2, <2>3
  <1>4. Stamps'
    <2>1. ASSUME NEW v \in Writers, writer'[v].pc # "idle" PROVE writer'[v].ev \in Events
      <3>1. writer \in [Writers -> Place]
        BY <1>1 DEF JournalType
      <3>2. writer'[v].ev = writer[v].ev /\ writer[v].pc # "idle"
        BY <1>2, <2>1, <3>1 DEF Place
      <3>. QED BY <3>2 DEF EventsInv, Stamps
    <2>. QED BY <1>2, <1>3, <2>1 DEF EventsInv, Stamps
  <1>5. Filed'
    <2>1. \A h \in DOMAIN history :
             /\ history[h].at \in DOMAIN file'
             /\ \E i \in DOMAIN file'[history[h].at] : file'[history[h].at][i] = history[h].ev
      BY <1>3 DEF EventsInv, Filed
    <2>2. ASSUME NEW f \in DOMAIN file', NEW i \in DOMAIN file'[f]
          PROVE  \E h \in DOMAIN history : history[h].ev = file'[f][i]
      <3>1. f \in DOMAIN file /\ file'[f] = file[f]
        BY <1>3
      <3>. QED BY <3>1 DEF EventsInv, Filed
    <2>. QED BY <1>2, <2>1, <2>2 DEF Filed
  <1>6. FilesAscend'
    <2>1. InOrder' => InOrder
      BY <1>2 DEF InOrder
    <2>2. Ascending(<<>>)
      BY DEF Ascending
    <2>. QED BY <1>3, <2>1, <2>2 DEF EventsInv, FilesAscend, Ascending
  <1>. QED BY <1>1, <1>4, <1>5, <1>6 DEF EventsInv

(* What a write adds to the history, in the terms the readers need. *)
LEMMA Written1 ==
    ASSUME EventsInv, NEW w \in Writers, Write(w)
    PROVE  LET ev == writer[w].ev  fh == writer[w].fh  n == Len(history) + 1
           IN  /\ ev \in Events /\ fh \in DOMAIN file
               /\ file' = [file EXCEPT ![fh] = Append(file[fh], ev)]
               /\ n \in DOMAIN history' /\ n \notin DOMAIN history
               /\ history'[n] = [ev |-> ev, at |-> fh]
               /\ DOMAIN history' = DOMAIN history \cup {n}
               /\ \A h \in DOMAIN history : history'[h] = history[h] /\ h < n
               /\ history' \in Seq([ev : Events, at : Nat])
               /\ InOrder' => InOrder
               /\ InOrder' => \A h \in DOMAIN history : history[h].ev.ts < ev.ts
  <1>. DEFINE ev == writer[w].ev  fh == writer[w].fh  n == Len(history) + 1
  <1>1. /\ ev \in Events /\ fh \in DOMAIN file /\ fh \in Nat
        /\ history \in Seq([ev : Events, at : Nat])
    <2>1. writer[w] \in Place
      BY DEF EventsInv, JournalInv, JournalType
    <2>. QED BY <2>1 DEF Write, EventsInv, JournalInv, Handles, Stamps, Place
  <1>2. /\ file' = [file EXCEPT ![fh] = Append(file[fh], ev)]
        /\ history' = Append(history, [ev |-> ev, at |-> fh])
    BY <1>1 DEF Write, Appended
  <1>. HIDE DEF ev, fh
  <1>3. [ev |-> ev, at |-> fh] \in [ev : Events, at : Nat]
    BY <1>1
  <1>4. /\ n \in DOMAIN history' /\ n \notin DOMAIN history
        /\ history'[n] = [ev |-> ev, at |-> fh]
        /\ DOMAIN history' = DOMAIN history \cup {n}
        /\ \A h \in DOMAIN history : history'[h] = history[h] /\ h < n
        /\ history' \in Seq([ev : Events, at : Nat])
    BY <1>1, <1>2, <1>3
  <1>. HIDE DEF n
  <1>5. InOrder' => InOrder
    BY <1>4 DEF InOrder
  <1>6. ASSUME InOrder', NEW h \in DOMAIN history PROVE history[h].ev.ts < ev.ts
    <2>1. history'[h].ev.ts < history'[n].ev.ts
      BY <1>4, <1>6 DEF InOrder
    <2>. QED BY <1>4, <2>1
  <1>. QED BY <1>1, <1>2, <1>4, <1>5, <1>6 DEF ev, fh, n

LEMMA EventsWrite == ASSUME EventsInv, NEW w \in Writers, Write(w) PROVE EventsInv'
  <1>. DEFINE ev == writer[w].ev  fh == writer[w].fh  n == Len(history) + 1
  <1>1. /\ ev \in Events /\ fh \in DOMAIN file
        /\ file' = [file EXCEPT ![fh] = Append(file[fh], ev)]
        /\ n \in DOMAIN history' /\ n \notin DOMAIN history
        /\ history'[n] = [ev |-> ev, at |-> fh]
        /\ DOMAIN history' = DOMAIN history \cup {n}
        /\ \A h \in DOMAIN history : history'[h] = history[h] /\ h < n
        /\ history' \in Seq([ev : Events, at : Nat])
        /\ InOrder' => InOrder
        /\ InOrder' => \A h \in DOMAIN history : history[h].ev.ts < ev.ts
    BY Written1
  <1>2. JournalInv' /\ JournalType
    BY WriteStep DEF EventsInv, JournalInv
  <1>3. /\ file \in Seq(Seq(Events)) /\ file[fh] \in Seq(Events)
    BY <1>1 DEF EventsInv, Stamps
  <1>. DEFINE s == file[fh]
  <1>. HIDE DEF ev, fh, n
  <1>4. /\ Append(s, ev) \in Seq(Events)
        /\ DOMAIN Append(s, ev) = DOMAIN s \cup {Len(s) + 1}
        /\ Append(s, ev)[Len(s) + 1] = ev
        /\ \A i \in DOMAIN s : Append(s, ev)[i] = s[i] /\ i < Len(s) + 1
        /\ Len(s) + 1 \notin DOMAIN s
    BY <1>1, <1>3
  <1>5. /\ file' \in Seq(Seq(Events)) /\ DOMAIN file' = DOMAIN file
        /\ file'[fh] = Append(s, ev) /\ \A f \in DOMAIN file : f # fh => file'[f] = file[f]
    BY <1>1, <1>3, <1>4
  <1>6. Stamps'
    <2>1. ASSUME NEW v \in Writers, writer'[v].pc # "idle" PROVE writer'[v].ev \in Events
      <3>1. writer \in [Writers -> Place] /\ writer' = [writer EXCEPT ![w] = Idle]
            /\ Idle.pc = "idle"
        BY <1>2 DEF JournalType, Write, Idle
      <3>2. v # w
        BY <2>1, <3>1
      <3>. QED BY <2>1, <3>1, <3>2 DEF EventsInv, Stamps
    <2>. QED BY <1>1, <1>5, <2>1 DEF EventsInv, Stamps, Write
  <1>7. Filed'
    <2>1. ASSUME NEW h \in DOMAIN history'
          PROVE  /\ history'[h].at \in DOMAIN file'
                 /\ \E i \in DOMAIN file'[history'[h].at] :
                        file'[history'[h].at][i] = history'[h].ev
      <3>1. CASE h = n
        <4>1. Len(s) + 1 \in DOMAIN file'[fh] /\ file'[fh][Len(s) + 1] = ev
          BY <1>4, <1>5
        <4>. QED BY <1>1, <1>5, <3>1, <4>1
      <3>2. CASE h \in DOMAIN history
        <4>. DEFINE f == history[h].at
        <4>1. f \in DOMAIN file /\ history'[h] = history[h]
          BY <1>1, <3>2 DEF EventsInv, Filed
        <4>2. PICK i \in DOMAIN file[f] : file[f][i] = history[h].ev
          BY <3>2 DEF EventsInv, Filed
        <4>. HIDE DEF f
        <4>3. i \in DOMAIN file'[f] /\ file'[f][i] = file[f][i]
          <5>1. CASE f = fh
            BY <1>4, <1>5, <4>2, <5>1
          <5>2. CASE f # fh
            BY <1>5, <4>1, <4>2, <5>2
          <5>. QED BY <5>1, <5>2
        <4>. QED BY <1>5, <4>1, <4>2, <4>3 DEF f
      <3>. QED BY <1>1, <3>1, <3>2
    <2>2. ASSUME NEW f \in DOMAIN file', NEW i \in DOMAIN file'[f]
          PROVE  \E h \in DOMAIN history' : history'[h].ev = file'[f][i]
      <3>1. CASE f = fh /\ i = Len(s) + 1
        <4>1. file'[f][i] = ev
          BY <1>4, <1>5, <3>1
        <4>. QED BY <1>1, <4>1
      <3>2. CASE ~(f = fh /\ i = Len(s) + 1)
        <4>1. f \in DOMAIN file /\ i \in DOMAIN file[f] /\ file'[f][i] = file[f][i]
          <5>1. CASE f = fh
            BY <1>4, <1>5, <3>2, <5>1
          <5>2. CASE f # fh
            BY <1>5, <5>2
          <5>. QED BY <5>1, <5>2
        <4>2. PICK h \in DOMAIN history : history[h].ev = file[f][i]
          BY <4>1 DEF EventsInv, Filed
        <4>. QED BY <1>1, <4>1, <4>2
      <3>. QED BY <3>1, <3>2
    <2>. QED BY <2>1, <2>2 DEF Filed
  <1>8. FilesAscend'
    <2>. SUFFICES ASSUME InOrder', NEW f \in DOMAIN file' PROVE Ascending(file'[f])
      BY DEF FilesAscend, Ascending
    <2>1. f \in DOMAIN file /\ Ascending(file[f])
      BY <1>1, <1>5 DEF EventsInv, FilesAscend
    <2>2. CASE f # fh
      BY <1>5, <2>1, <2>2
    <2>3. CASE f = fh
      <3>1. ASSUME NEW i \in DOMAIN s PROVE s[i].ts < ev.ts
        <4>1. PICK h \in DOMAIN history : history[h].ev = s[i]
          BY <1>1 DEF EventsInv, Filed
        <4>. QED BY <1>1, <4>1
      <3>2. ASSUME NEW i \in DOMAIN Append(s, ev), NEW j \in DOMAIN Append(s, ev), i < j
            PROVE  Append(s, ev)[i].ts < Append(s, ev)[j].ts
        <4>1. i \in DOMAIN s /\ Append(s, ev)[i] = s[i]
          BY <1>3, <1>4, <3>2
        <4>2. CASE j \in DOMAIN s
          BY <1>4, <2>1, <2>3, <3>2, <4>1, <4>2 DEF Ascending
        <4>3. CASE j = Len(s) + 1
          BY <1>4, <3>1, <4>1, <4>3
        <4>. QED BY <1>4, <4>2, <4>3
      <3>3. file'[f] = Append(s, ev)
        BY <1>5, <2>3
      <3>. QED BY <3>2, <3>3 DEF Ascending
    <2>. QED BY <2>2, <2>3
  <1>. QED BY <1>2, <1>6, <1>7, <1>8 DEF EventsInv

(* Whatever a writer does. *)
LEMMA EventsNext == ASSUME EventsInv, [JournalNext]_journal PROVE EventsInv'
  <1>1. CASE UNCHANGED journal
    <2>1. JournalInv'
      BY <1>1 DEF journal, EventsInv, JournalInv, JournalType, Handles, Placed, Found
    <2>2. Stamps'
      BY <1>1, StampsAlone DEF journal, EventsInv
    <2>. QED BY <1>1, <2>1, <2>2, FiledAlone DEF journal, EventsInv
  <1>2. CASE JournalNext
    BY <1>2, EventsStamp, EventsCheck, EventsRotate, EventsOpen, EventsWrite, EventsDrop
       DEF JournalNext
  <1>. QED BY <1>1, <1>2

--------------------------------------------------------------------------------

Filled(s) ==
    /\ s.pc \in {"look", "check", "fetch", "done"} => s.batch = <<>>
    /\ s.pc \in {"send", "sending"} => s.batch # <<>>

Following(s) == InLine(s) /\ Cursor(s) /\ Complete(s)

(* A session starts without a stream. *)
LEMMA SessionInit == Init => SessionInv /\ StreamInv
  <1>. SUFFICES ASSUME Init PROVE SessionInv /\ StreamInv
    OBVIOUS
  <1>1. EventsInv
    BY EventsInit DEF Init
  <1>2. thread = <<>> /\ thread \in Seq(ThreadType) /\ DOMAIN thread = {}
    BY DEF Init, AgentInit
  <1>3. SessionType
    <2>1. /\ caps = {} /\ main = "read" /\ todo = Close /\ stop = FALSE /\ shutdown = FALSE
          /\ gone = FALSE /\ stream = 0 /\ wlock = 0
      BY DEF Init, AgentInit
    <2>2. stream \in 0..Len(thread) /\ wlock \in 0..Len(thread)
      BY <1>2, <2>1
    <2>. QED BY <1>2, <2>1, <2>2 DEF SessionType
  <1>4. StreamInv
    BY <1>2 DEF StreamInv
  <1>. QED BY <1>1, <1>3, <1>4 DEF SessionInv

(* The journal moves on under a thread that does nothing.  What is no longer   *)
(* live does not come back, and what is written is later than all that the     *)
(* thread has dealt with.                                                  *)
LEMMA FollowingStays ==
    ASSUME EventsInv, [JournalNext]_journal, NEW s \in ThreadType, InOrder',
           InOrder => Following(s)
    PROVE  Following(s)'
  <1>1. CASE \E w \in Writers : Write(w)
    <2>1. PICK w \in Writers : Write(w)
      BY <1>1
    <2>. DEFINE ev == writer[w].ev  fh == writer[w].fh  n == Len(history) + 1
    <2>2. /\ ev \in Events
          /\ history'[n] = [ev |-> ev, at |-> fh]
          /\ DOMAIN history' = DOMAIN history \cup {n}
          /\ \A h \in DOMAIN history : history'[h] = history[h] /\ h < n
          /\ InOrder
          /\ \A h \in DOMAIN history : history[h].ev.ts < ev.ts
      BY <2>1, Written1
    <2>. HIDE DEF ev, fh, n
    <2>3. Following(s)
      BY <2>2
    <2>4. \A e : Written(e) => Written(e)'
      BY <2>2 DEF Written
    <2>5. InLine(s)'
      BY <2>3, <2>4 DEF InLine, Following, Ascending
    <2>6. Cursor(s)'
      BY <2>3 DEF Cursor, Following, Settled
    <2>7. /\ s.since \in Nat /\ s.last \in Nat /\ ev.ts \in Nat
          /\ s.sent \in Seq(Events) /\ s.batch \in Seq(Events)
      BY <2>2, RequestsAssumption, EventsAssumption DEF ThreadType, Sinces, Events
    <2>8. ASSUME ev.ts > s.since, Reached(s, ev.ts) PROVE FALSE
      <3>1. ASSUME NEW e \in Events, Written(e) PROVE e.ts < ev.ts
        BY <2>2, <3>1 DEF Written
      <3>2. ~(\E i \in DOMAIN s.sent : ev.ts <= s.sent[i].ts)
        <4>1. ASSUME NEW i \in DOMAIN s.sent PROVE s.sent[i].ts < ev.ts /\ s.sent[i].ts \in Nat
          <5>1. s.sent[i] \in Events /\ Written(s.sent[i])
            BY <2>3, <2>7 DEF Following, InLine
          <5>. QED BY <3>1, <5>1 DEF Events
        <4>. QED BY <2>7, <4>1
      <3>3. ~(\E i \in DOMAIN s.batch : ev.ts <= s.batch[i].ts)
        <4>1. ASSUME NEW i \in DOMAIN s.batch PROVE s.batch[i].ts < ev.ts /\ s.batch[i].ts \in Nat
          <5>1. s.batch[i] \in Events /\ Written(s.batch[i])
            BY <2>3, <2>7 DEF Following, InLine
          <5>. QED BY <3>1, <5>1 DEF Events
        <4>. QED BY <2>7, <4>1
      <3>4. Settled(s) /\ ev.ts <= s.last
        BY <2>8, <3>2, <3>3 DEF Reached
      <3>5. PICK i \in DOMAIN s.sent : s.last = s.sent[i].ts
        BY <2>3, <2>7, <2>8, <3>4 DEF Following, Cursor
      <3>. QED BY <3>2, <3>4, <3>5
    <2>9. Complete(s)'
      <3>1. live' = live
        BY <2>1 DEF Write
      <3>2. ASSUME NEW h \in DOMAIN history', history'[h].ev.ts > s.since,
                   Reached(s, history'[h].ev.ts)
            PROVE  \/ Holds(s.sent, history'[h].ev) \/ Holds(s.batch, history'[h].ev)
                   \/ history'[h].at # live
        <4>1. h \in DOMAIN history
          BY <2>2, <2>8, <3>2
        <4>. QED BY <2>2, <2>3, <3>2, <4>1 DEF Following, Complete
      <3>. QED BY <3>1, <3>2 DEF Complete, Holds, Reached, Settled
    <2>. QED BY <2>5, <2>6, <2>9 DEF Following
  <1>2. CASE ~(\E w \in Writers : Write(w))
    <2>1. history' = history /\ (live' = live \/ live' = 0 \/ live' = Len(file) + 1)
      BY <1>2 DEF journal, JournalNext, Stamp, Check, Rotate, Open, Drop
    <2>2. InOrder /\ Following(s)
      BY <2>1 DEF InOrder
    <2>3. \A h \in DOMAIN history : history[h].at \in 1..Len(file)
      BY DEF EventsInv, Filed, JournalInv, JournalType
    <2>4. Len(file) \in Nat
      BY DEF EventsInv, JournalInv, JournalType
    <2>5. \A h \in DOMAIN history : history[h].at # live => history[h].at # live'
      BY <2>1, <2>3, <2>4
    <2>6. InLine(s)' /\ Cursor(s)'
      BY <2>1, <2>2 DEF Following, InLine, Cursor, Ascending, Written, Settled
    <2>7. Complete(s)'
      BY <2>1, <2>2, <2>5 DEF Following, Complete, Holds, Reached, Settled
    <2>. QED BY <2>6, <2>7 DEF Following
  <1>. QED BY <1>1, <1>2

(* A thread that moves, and nothing else but the lock with it. *)
LEMMA ThreadMoves ==
    ASSUME SessionInv, StreamInv, NEW t \in DOMAIN thread, NEW s \in ThreadType,
           thread' = [thread EXCEPT ![t] = s], Filled(s), InOrder => Following(s),
           wlock' \in 0..Len(thread),
           UNCHANGED <<journal, main, todo, caps, shutdown, stop, stream, gone>>
    PROVE  SessionType' /\ StreamInv'
  <1>1. /\ thread \in Seq(ThreadType) /\ thread' \in Seq(ThreadType)
        /\ Len(thread') = Len(thread) /\ DOMAIN thread' = DOMAIN thread
        /\ thread'[t] = s /\ \A u \in DOMAIN thread : u # t => thread'[u] = thread[u]
    BY DEF SessionInv, SessionType
  <1>2. \A u \in DOMAIN thread : Filled(thread'[u])
    BY <1>1 DEF Filled, SessionInv, SessionType
  <1>3. SessionType'
    BY <1>1, <1>2 DEF SessionInv, SessionType, Filled
  <1>4. StreamInv'
    <2>1. history' = history /\ live' = live
      BY DEF journal
    <2>2. ASSUME InOrder, NEW u \in DOMAIN thread PROVE Following(thread'[u])
      BY <1>1, <2>2 DEF StreamInv, Following
    <2>. QED BY <1>1, <2>1, <2>2 DEF StreamInv, Following, InOrder, InLine, Cursor, Complete,
            Ascending, Written, Holds, Reached, Settled
  <1>. QED BY <1>3, <1>4

(* What is known of a thread. *)
LEMMA ThreadFacts ==
    ASSUME SessionInv, StreamInv, NEW t \in DOMAIN thread
    PROVE  /\ thread[t] \in ThreadType /\ Filled(thread[t])
           /\ InOrder => Following(thread[t])
           /\ t \in 1..Len(thread) /\ Len(thread) \in Nat
           /\ thread[t].since \in Nat /\ thread[t].last \in Nat
           /\ thread[t].batch \in Seq(Events) /\ thread[t].sent \in Seq(Events)
  <1>1. thread[t] \in ThreadType /\ t \in 1..Len(thread) /\ Len(thread) \in Nat
    BY DEF SessionInv, SessionType
  <1>2. Filled(thread[t]) /\ (InOrder => Following(thread[t]))
    BY DEF SessionInv, SessionType, StreamInv, Filled, Following
  <1>3. /\ thread[t].since \in Nat /\ thread[t].last \in Nat
        /\ thread[t].batch \in Seq(Events) /\ thread[t].sent \in Seq(Events)
    BY <1>1, RequestsAssumption, EventsAssumption DEF ThreadType, Sinces
  <1>. QED BY <1>1, <1>2, <1>3

(* What is in the history. *)
LEMMA HistoryFacts ==
    ASSUME EventsInv
    PROVE  \A h \in DOMAIN history : history[h].ev \in Events
  <1>. DEFINE R == [ev : Events, at : Nat]
  <1>1. history \in Seq(R)
    BY DEF EventsInv, Stamps
  <1>2. \A r \in R : r.ev \in Events
    OBVIOUS
  <1>. HIDE DEF R
  <1>3. \A h \in DOMAIN history : history[h] \in R
    BY <1>1
  <1>. QED BY <1>2, <1>3

(* Looking moves neither the cursor nor what is held. *)
LEMMA LookStep ==
    ASSUME SessionInv, StreamInv, NEW t \in DOMAIN thread, Look(t)
    PROVE  SessionType' /\ StreamInv'
  <1>. DEFINE o == thread[t]
              pc == IF o.pc = "check" /\ stop THEN "done"
                    ELSE IF live = 0 THEN "check" ELSE "fetch"
              s == [o EXCEPT !.pc = pc]
  <1>1. o \in ThreadType /\ Filled(o) /\ (InOrder => Following(o))
    BY ThreadFacts
  <1>2. /\ thread' = [thread EXCEPT ![t].pc = pc] /\ o.pc \in {"look", "check"}
        /\ UNCHANGED <<journal, main, todo, caps, shutdown, stop, stream, wlock, gone>>
    BY DEF Look, Runs
  <1>3. pc \in {"done", "check", "fetch"}
    OBVIOUS
  <1>. HIDE DEF pc
  <1>4. thread' = [thread EXCEPT ![t] = s]
    BY <1>2
  <1>. HIDE DEF o
  <1>5. /\ s \in ThreadType /\ s.pc \in {"done", "check", "fetch"} /\ s.since = o.since
        /\ s.last = o.last /\ s.batch = o.batch /\ s.sent = o.sent
    BY <1>1, <1>3 DEF ThreadType
  <1>. HIDE DEF s
  <1>6. Filled(s)
    BY <1>1, <1>2, <1>5 DEF Filled
  <1>7. InOrder => Following(s)
    BY <1>1, <1>2, <1>5 DEF Following, InLine, Cursor, Complete, Reached, Settled
  <1>8. wlock' \in 0..Len(thread)
    BY <1>2 DEF SessionInv, SessionType
  <1>. QED BY <1>2, <1>4, <1>5, <1>6, <1>7, <1>8, ThreadMoves

(* What is fetched is all that is live and behind the cursor, in order. *)
LEMMA FetchStep ==
    ASSUME SessionInv, StreamInv, NEW t \in DOMAIN thread, Fetch(t)
    PROVE  SessionType' /\ StreamInv'
  <1>. DEFINE o == thread[t]  new == Newer(o.last)
              pc == IF live = 0 THEN "dead" ELSE IF new = <<>> THEN "check" ELSE "send"
              s == [o EXCEPT !.batch = new, !.pc = pc]
  <1>1. /\ o \in ThreadType /\ Filled(o) /\ (InOrder => Following(o))
        /\ o.since \in Nat /\ o.last \in Nat
        /\ o.batch \in Seq(Events) /\ o.sent \in Seq(Events)
    BY ThreadFacts
  <1>2. /\ thread' = [thread EXCEPT ![t].batch = new, ![t].pc = pc] /\ o.pc = "fetch"
        /\ UNCHANGED <<journal, main, todo, caps, shutdown, stop, stream, wlock, gone>>
    BY DEF Fetch, Runs
  <1>3. /\ live \in 0..Len(file) /\ Len(file) \in Nat /\ file \in Seq(Seq(Events))
        /\ live # 0 => live \in DOMAIN file /\ file[live] \in Seq(Events)
    BY DEF SessionInv, EventsInv, JournalInv, JournalType, Stamps
  <1>4. /\ new \in Seq(Events) /\ (live = 0 => new = <<>>)
        /\ \A j \in DOMAIN new : new[j].ts > o.last
        /\ live # 0 => \A j \in DOMAIN new : \E i \in DOMAIN file[live] : file[live][i] = new[j]
        /\ live # 0 => \A i \in DOMAIN file[live] : file[live][i].ts > o.last =>
                           \E j \in DOMAIN new : new[j] = file[live][i]
        /\ InOrder => Ascending(new)
    <2>1. CASE live = 0
      <3>1. new = <<>>
        BY <2>1 DEF Newer
      <3>2. DOMAIN new = {} /\ new \in Seq(Events)
        BY <3>1
      <3>. QED BY <2>1, <3>1, <3>2 DEF Ascending
    <2>2. CASE live # 0
      <3>1. new = After(file[live], o.last)
        BY <2>2 DEF Newer
      <3>2. InOrder => Ascending(file[live])
        BY <1>3, <2>2 DEF SessionInv, EventsInv, FilesAscend
      <3>. HIDE DEF o, new
      <3>. QED BY <1>1, <1>3, <2>2, <3>1, <3>2, AfterFacts
    <2>. QED BY <2>1, <2>2
  <1>5. /\ pc \in {"dead", "check", "send"}
        /\ pc = "send" => new # <<>>
        /\ pc = "check" => new = <<>>
    OBVIOUS
  <1>. HIDE DEF pc, new
  <1>6. thread' = [thread EXCEPT ![t] = s]
    BY <1>2
  <1>. HIDE DEF o
  <1>7. /\ s \in ThreadType /\ s.pc = pc /\ s.since = o.since
        /\ s.last = o.last /\ s.batch = new /\ s.sent = o.sent
    BY <1>1, <1>4, <1>5 DEF ThreadType
  <1>. HIDE DEF s
  <1>8. Filled(s)
    BY <1>5, <1>7 DEF Filled
  <1>9. ASSUME InOrder PROVE Following(s)
    <2>1. Following(o) /\ Settled(o)
      BY <1>1, <1>2, <1>9 DEF Settled
    <2>2. InLine(s)
      <3>1. Ascending(s.sent) /\ Ascending(s.batch)
        BY <1>4, <1>7, <1>9, <2>1 DEF Following, InLine
      <3>2. \A i \in DOMAIN s.sent : Written(s.sent[i])
        BY <1>7, <2>1 DEF Following, InLine
      <3>3. ASSUME NEW j \in DOMAIN s.batch PROVE Written(s.batch[j])
        <4>1. live # 0
          BY <1>4, <1>7
        <4>2. PICK i \in DOMAIN file[live] : file[live][i] = new[j]
          BY <1>4, <1>7, <4>1
        <4>. QED BY <1>3, <1>7, <4>1, <4>2 DEF SessionInv, EventsInv, Filed, Written
      <3>4. ASSUME NEW i \in DOMAIN s.sent, NEW j \in DOMAIN s.batch
            PROVE  s.sent[i].ts < s.batch[j].ts
        <4>1. o.sent[i].ts <= o.last /\ o.sent[i].ts \in Nat
          <5>1. o.sent[i] \in Events
            BY <1>1, <1>7
          <5>. QED BY <1>7, <2>1, <5>1 DEF Following, Cursor, Events
        <4>2. new[j].ts > o.last /\ new[j].ts \in Nat
          <5>1. new[j] \in Events
            BY <1>4, <1>7
          <5>. QED BY <1>4, <1>7, <5>1 DEF Events
        <4>. QED BY <1>1, <1>7, <4>1, <4>2
      <3>. QED BY <3>1, <3>2, <3>3, <3>4 DEF InLine
    <2>3. Cursor(s)
      <3>1. \A j \in DOMAIN s.batch : s.last < s.batch[j].ts
        <4>1. ASSUME NEW j \in DOMAIN s.batch PROVE s.last < s.batch[j].ts
          <5>1. new[j] \in Events /\ new[j].ts > o.last
            BY <1>4, <1>7
          <5>. QED BY <1>1, <1>7, <5>1 DEF Events
        <4>. QED BY <4>1
      <3>2. s.pc # "sending"
        BY <1>5, <1>7
      <3>. QED BY <1>7, <2>1, <3>1, <3>2 DEF Following, Cursor
    <2>4. Complete(s)
      <3>. SUFFICES ASSUME NEW h \in DOMAIN history, history[h].ev.ts > s.since,
                           Reached(s, history[h].ev.ts), history[h].at = live
                    PROVE  Holds(s.sent, history[h].ev) \/ Holds(s.batch, history[h].ev)
        BY DEF Complete
      <3>. DEFINE ev == history[h].ev
      <3>1. ev \in Events /\ ev.ts \in Nat
        <4>1. history[h].ev \in Events
          BY HistoryFacts DEF SessionInv
        <4>. QED BY <4>1 DEF Events
      <3>. HIDE DEF ev
      <3>2. CASE ev.ts <= o.last
        <4>1. Reached(o, ev.ts)
          BY <2>1, <3>2 DEF Reached
        <4>2. o.batch = <<>>
          BY <1>1, <1>2 DEF Filled
        <4>3. ~Holds(o.batch, ev)
          BY <4>2 DEF Holds
        <4>. QED BY <1>7, <2>1, <4>1, <4>3 DEF Following, Complete, ev
      <3>3. CASE ~(ev.ts <= o.last)
        <4>1. live \in DOMAIN file /\ live # 0
          BY <1>3 DEF SessionInv, EventsInv, Filed
        <4>2. PICK i \in DOMAIN file[live] : file[live][i] = ev
          BY DEF SessionInv, EventsInv, Filed, ev
        <4>3. ev.ts > o.last
          BY <1>1, <3>1, <3>3
        <4>. QED BY <1>4, <1>7, <4>1, <4>2, <4>3 DEF Holds, ev
      <3>. QED BY <3>2, <3>3
    <2>. QED BY <2>2, <2>3, <2>4 DEF Following
  <1>10. wlock' \in 0..Len(thread)
    BY <1>2 DEF SessionInv, SessionType
  <1>. QED BY <1>2, <1>6, <1>7, <1>8, <1>9, <1>10, ThreadMoves

(* The cursor moves to the event a thread is about to send. *)
LEMMA BeginSendStep ==
    ASSUME SessionInv, StreamInv, NEW t \in DOMAIN thread, BeginSend(t)
    PROVE  SessionType' /\ StreamInv'
  <1>. DEFINE o == thread[t]
              s == [o EXCEPT !.pc = "sending", !.last = Head(o.batch).ts]
  <1>1. /\ o \in ThreadType /\ Filled(o) /\ (InOrder => Following(o))
        /\ t \in 1..Len(thread) /\ Len(thread) \in Nat
        /\ o.batch \in Seq(Events) /\ o.sent \in Seq(Events)
    BY ThreadFacts
  <1>2. /\ thread' = [thread EXCEPT ![t].pc = "sending", ![t].last = Head(o.batch).ts]
        /\ o.pc = "send" /\ wlock' = t
        /\ UNCHANGED <<journal, main, todo, caps, shutdown, stop, stream, gone>>
    BY DEF BeginSend, Runs
  <1>3. thread' = [thread EXCEPT ![t] = s]
    BY <1>2
  <1>4. o.batch # <<>>
    BY <1>1, <1>2 DEF Filled
  <1>. HIDE DEF o
  <1>5. /\ Head(o.batch) = o.batch[1] /\ 1 \in DOMAIN o.batch /\ o.batch[1] \in Events
        /\ o.batch[1].ts \in 1..MaxEvents + 1
    <2>1. Head(o.batch) = o.batch[1] /\ 1 \in DOMAIN o.batch /\ o.batch[1] \in Events
      BY <1>1, <1>4
    <2>. QED BY <2>1 DEF Events
  <1>6. /\ s \in ThreadType /\ s.pc = "sending" /\ s.since = o.since
        /\ s.last = o.batch[1].ts /\ s.batch = o.batch /\ s.sent = o.sent
    BY <1>1, <1>5 DEF ThreadType
  <1>. HIDE DEF s
  <1>7. Filled(s)
    BY <1>4, <1>6 DEF Filled
  <1>8. InOrder => Following(s)
    <2>1. ASSUME NEW x, Reached(s, x) PROVE Reached(o, x)
      BY <1>6, <2>1 DEF Reached, Settled
    <2>. QED BY <1>1, <1>6, <2>1 DEF Following, InLine, Cursor, Complete, Settled
  <1>9. wlock' \in 0..Len(thread)
    BY <1>1, <1>2
  <1>. QED BY <1>2, <1>3, <1>6, <1>7, <1>8, <1>9, ThreadMoves

(* A write that fails ends the thread where it stands. *)
LEMMA EndSendFails ==
    ASSUME SessionInv, StreamInv, NEW t \in DOMAIN thread, EndSend(t), gone
    PROVE  SessionType' /\ StreamInv'
  <1>. DEFINE o == thread[t]  s == [o EXCEPT !.pc = "dead"]
  <1>1. o \in ThreadType /\ Filled(o) /\ (InOrder => Following(o)) /\ Len(thread) \in Nat
    BY ThreadFacts
  <1>2. /\ thread' = [thread EXCEPT ![t].pc = "dead"] /\ o.pc = "sending" /\ wlock' = 0
        /\ UNCHANGED <<journal, main, todo, caps, shutdown, stop, stream, gone>>
    BY DEF EndSend, Runs
  <1>7. thread' = [thread EXCEPT ![t] = s]
    BY <1>2
  <1>. HIDE DEF o
  <1>3. /\ s \in ThreadType /\ s.pc = "dead" /\ s.since = o.since
        /\ s.last = o.last /\ s.batch = o.batch /\ s.sent = o.sent
    BY <1>1 DEF ThreadType
  <1>. HIDE DEF s
  <1>4. Filled(s)
    BY <1>3 DEF Filled
  <1>5. InOrder => Following(s)
    BY <1>1, <1>2, <1>3 DEF Following, InLine, Cursor, Complete, Reached, Settled
  <1>6. wlock' \in 0..Len(thread)
    BY <1>1, <1>2
  <1>. QED BY <1>2, <1>3, <1>4, <1>5, <1>6, <1>7, ThreadMoves

(* A written event goes from what is held to what was sent. *)
LEMMA EndSendSends ==
    ASSUME SessionInv, StreamInv, NEW t \in DOMAIN thread, EndSend(t), ~gone
    PROVE  SessionType' /\ StreamInv'
  <1>. DEFINE o == thread[t]  b == o.batch  ev == Head(b)
              pc == IF Len(b) = 1 THEN "check" ELSE "send"
              s == [o EXCEPT !.sent = Append(o.sent, ev), !.batch = Tail(b), !.pc = pc]
  <1>1. /\ o \in ThreadType /\ Filled(o) /\ (InOrder => Following(o)) /\ Len(thread) \in Nat
        /\ o.last \in Nat /\ o.batch \in Seq(Events) /\ o.sent \in Seq(Events)
    BY ThreadFacts
  <1>2. /\ thread' = [thread EXCEPT ![t] = s] /\ o.pc = "sending" /\ wlock' = 0
        /\ UNCHANGED <<journal, main, todo, caps, shutdown, stop, stream, gone>>
    <2>1. /\ thread' = [thread EXCEPT ![t].sent = Append(@, ev), ![t].batch = Tail(b),
                                      ![t].pc = pc]
          /\ o.pc = "sending" /\ wlock' = 0
          /\ UNCHANGED <<journal, main, todo, caps, shutdown, stop, stream, gone>>
      BY DEF EndSend, Runs
    <2>. HIDE DEF pc, ev, b
    <2>2. thread' = [thread EXCEPT ![t] = s]
      BY <1>1, <2>1 DEF ThreadType
    <2>. QED BY <2>1, <2>2
  <1>3. b # <<>>
    BY <1>1, <1>2 DEF Filled
  <1>. HIDE DEF o
  <1>4. b \in Seq(Events)
    BY <1>1
  <1>. HIDE DEF b
  <1>5. /\ ev = b[1] /\ ev \in Events /\ 1 \in DOMAIN b
        /\ Tail(b) \in Seq(Events) /\ Len(Tail(b)) = Len(b) - 1 /\ Len(b) \in Nat
        /\ \A j \in DOMAIN Tail(b) : j + 1 \in DOMAIN b /\ Tail(b)[j] = b[j + 1] /\ j \in Nat
        /\ \A j \in DOMAIN b : j # 1 => j - 1 \in DOMAIN Tail(b) /\ Tail(b)[j - 1] = b[j]
    BY <1>3, <1>4
  <1>6. pc \in {"check", "send"} /\ (pc = "check" <=> Len(Tail(b)) = 0)
    BY <1>5
  <1>. HIDE DEF pc, ev
  <1>7. /\ Append(o.sent, ev) \in Seq(Events)
        /\ DOMAIN Append(o.sent, ev) = DOMAIN o.sent \cup {Len(o.sent) + 1}
        /\ \A i \in DOMAIN o.sent : Append(o.sent, ev)[i] = o.sent[i] /\ i < Len(o.sent) + 1
        /\ Append(o.sent, ev)[Len(o.sent) + 1] = ev
        /\ \A i \in DOMAIN Append(o.sent, ev) : i \in Nat /\ i <= Len(o.sent) + 1
        /\ Len(o.sent) \in Nat
    BY <1>1, <1>5
  <1>8. /\ s \in ThreadType /\ s.pc = pc /\ s.since = o.since /\ s.last = o.last
        /\ s.batch = Tail(b) /\ s.sent = Append(o.sent, ev)
    BY <1>1, <1>5, <1>6, <1>7 DEF ThreadType
  <1>. HIDE DEF s
  <1>9. Filled(s)
    BY <1>5, <1>6, <1>8 DEF Filled
  <1>10. ASSUME InOrder PROVE Following(s)
    <2>1. Following(o) /\ o.batch = b
      BY <1>1, <1>10 DEF b
    <2>2. ev.ts = o.last /\ ev.ts \in Nat
      BY <1>2, <1>5, <2>1 DEF Following, Cursor, Events
    <2>3. \A i \in DOMAIN o.sent : o.sent[i].ts < ev.ts /\ o.sent[i].ts \in Nat
      <3>1. \A i \in DOMAIN o.sent : o.sent[i] \in Events
        BY <1>1
      <3>2. \A i \in DOMAIN o.sent : o.sent[i].ts < b[1].ts
        BY <1>5, <2>1 DEF Following, InLine
      <3>. QED BY <1>5, <3>1, <3>2 DEF Events
    <2>4. \A j \in DOMAIN Tail(b) : ev.ts < Tail(b)[j].ts
      <3>1. \A j \in DOMAIN b : 1 < j => b[1].ts < b[j].ts
        BY <1>5, <2>1 DEF Following, InLine, Ascending
      <3>2. ASSUME NEW j \in DOMAIN Tail(b) PROVE ev.ts < Tail(b)[j].ts
        <4>1. j + 1 \in DOMAIN b /\ Tail(b)[j] = b[j + 1] /\ j \in Nat /\ j # 0
          BY <1>5
        <4>2. 1 < j + 1
          BY <4>1
        <4>. QED BY <1>5, <3>1, <4>1, <4>2
      <3>. QED BY <3>2
    <2>5. InLine(s)
      <3>1. Ascending(s.sent)
        <4>1. ASSUME NEW i \in DOMAIN s.sent, NEW j \in DOMAIN s.sent, i < j
              PROVE  s.sent[i].ts < s.sent[j].ts
          <5>1. i \in DOMAIN o.sent /\ s.sent[i] = o.sent[i]
            <6>1. i # Len(o.sent) + 1
              BY <1>7, <1>8, <4>1
            <6>. QED BY <1>7, <1>8, <6>1
          <5>2. CASE j \in DOMAIN o.sent
            BY <1>7, <1>8, <2>1, <4>1, <5>1, <5>2 DEF Following, InLine, Ascending
          <5>3. CASE j = Len(o.sent) + 1
            BY <1>7, <1>8, <2>3, <5>1, <5>3
          <5>. QED BY <1>7, <1>8, <5>2, <5>3
        <4>. QED BY <4>1 DEF Ascending
      <3>2. Ascending(s.batch)
        <4>1. ASSUME NEW i \in DOMAIN Tail(b), NEW j \in DOMAIN Tail(b), i < j
              PROVE  Tail(b)[i].ts < Tail(b)[j].ts
          <5>1. i + 1 \in DOMAIN b /\ j + 1 \in DOMAIN b /\ i + 1 < j + 1
            BY <1>5, <4>1
          <5>2. b[i + 1].ts < b[j + 1].ts
            BY <2>1, <5>1 DEF Following, InLine, Ascending
          <5>. QED BY <1>5, <5>2
        <4>. QED BY <1>8, <4>1 DEF Ascending
      <3>3. \A i \in DOMAIN s.sent : Written(s.sent[i])
        BY <1>5, <1>7, <1>8, <2>1 DEF Following, InLine
      <3>4. \A i \in DOMAIN s.batch : Written(s.batch[i])
        BY <1>5, <1>8, <2>1 DEF Following, InLine
      <3>5. ASSUME NEW i \in DOMAIN s.sent, NEW j \in DOMAIN s.batch
            PROVE  s.sent[i].ts < s.batch[j].ts
        <4>1. CASE i \in DOMAIN o.sent
          <5>1. j + 1 \in DOMAIN b /\ s.batch[j] = b[j + 1] /\ s.sent[i] = o.sent[i]
            BY <1>5, <1>7, <1>8, <4>1
          <5>. QED BY <2>1, <4>1, <5>1 DEF Following, InLine
        <4>2. CASE i = Len(o.sent) + 1
          BY <1>7, <1>8, <2>4, <4>2
        <4>. QED BY <1>7, <1>8, <4>1, <4>2
      <3>. QED BY <3>1, <3>2, <3>3, <3>4, <3>5 DEF InLine
    <2>6. Cursor(s)
      <3>1. Len(o.sent) + 1 \in DOMAIN s.sent /\ s.sent[Len(o.sent) + 1] = ev
        BY <1>7, <1>8
      <3>2. \A i \in DOMAIN s.sent : s.sent[i].ts <= s.last
        <4>1. ASSUME NEW i \in DOMAIN s.sent PROVE s.sent[i].ts <= s.last
          <5>1. CASE i \in DOMAIN o.sent
            BY <1>1, <1>7, <1>8, <2>2, <2>3, <5>1
          <5>2. CASE i = Len(o.sent) + 1
            BY <1>1, <1>8, <2>2, <3>1, <5>2
          <5>. QED BY <1>7, <1>8, <5>1, <5>2
        <4>. QED BY <4>1
      <3>3. s.pc # "sending"
        BY <1>6, <1>8
      <3>4. \E i \in DOMAIN s.sent : s.last = s.sent[i].ts
        BY <1>8, <2>2, <3>1
      <3>5. \A j \in DOMAIN s.batch : s.last < s.batch[j].ts
        BY <1>8, <2>2, <2>4
      <3>. QED BY <3>2, <3>3, <3>4, <3>5 DEF Cursor
    <2>7. Complete(s)
      <3>. SUFFICES ASSUME NEW h \in DOMAIN history, history[h].ev.ts > s.since,
                           Reached(s, history[h].ev.ts), history[h].at = live
                    PROVE  Holds(s.sent, history[h].ev) \/ Holds(s.batch, history[h].ev)
        BY DEF Complete
      <3>. DEFINE e == history[h].ev
      <3>1. Reached(o, e.ts)
        <4>1. CASE e.ts <= s.last
          BY <1>5, <1>8, <2>1, <2>2, <4>1 DEF Reached
        <4>2. CASE \E i \in DOMAIN s.sent : e.ts <= s.sent[i].ts
          BY <1>5, <1>7, <1>8, <2>1, <4>2 DEF Reached
        <4>3. CASE \E i \in DOMAIN s.batch : e.ts <= s.batch[i].ts
          BY <1>5, <1>8, <2>1, <4>3 DEF Reached
        <4>. QED BY <4>1, <4>2, <4>3 DEF Reached
      <3>2. Holds(o.sent, e) \/ Holds(b, e)
        BY <1>8, <2>1, <3>1 DEF Following, Complete
      <3>. HIDE DEF e
      <3>3. CASE Holds(o.sent, e)
        BY <1>7, <1>8, <3>3 DEF Holds, e
      <3>4. CASE Holds(b, e)
        <4>1. PICK j \in DOMAIN b : b[j] = e
          BY <3>4 DEF Holds
        <4>2. CASE j = 1
          BY <1>5, <1>7, <1>8, <4>1, <4>2 DEF Holds, e
        <4>3. CASE j # 1
          <5>1. j - 1 \in DOMAIN s.batch /\ s.batch[j - 1] = history[h].ev
            BY <1>5, <1>8, <4>1, <4>3 DEF e
          <5>. QED BY <5>1 DEF Holds
        <4>. QED BY <4>2, <4>3
      <3>. QED BY <3>2, <3>3, <3>4 DEF e
    <2>. QED BY <2>5, <2>6, <2>7 DEF Following
  <1>11. wlock' \in 0..Len(thread)
    BY <1>1, <1>2
  <1>. QED BY <1>2, <1>8, <1>9, <1>10, <1>11, ThreadMoves

(* The main thread moves, and no stream with it. *)
LEMMA MainMoves ==
    ASSUME SessionInv, StreamInv, UNCHANGED <<journal, thread, wlock>>,
           main' \in {"read", "join", "reply", "ended"}, todo' \in Requests \cup {Close},
           caps' \subseteq Capabilities, stop' \in BOOLEAN, shutdown' \in BOOLEAN,
           gone' \in BOOLEAN, stream' \in 0..Len(thread)
    PROVE  SessionType' /\ StreamInv'
  <1>1. SessionType'
    BY DEF SessionInv, SessionType
  <1>2. StreamInv'
    BY DEF journal, StreamInv, InOrder, InLine, Cursor, Complete, Ascending, Written, Holds,
           Reached, Settled
  <1>. QED BY <1>1, <1>2

(* Reading, refusing and answering a request. *)
LEMMA RequestStep ==
    ASSUME SessionInv, StreamInv,
           \/ ReadNoise \/ WriteReply \/ EndOfInput \/ Hangup
           \/ \E req \in Requests : \/ Refuse(req) \/ Hello(req) \/ Shutdown(req)
                                    \/ Subscribe(req) \/ Call(req)
    PROVE  SessionType' /\ StreamInv'
  <1>1. /\ main \in {"read", "join", "reply", "ended"} /\ todo \in Requests \cup {Close}
        /\ caps \subseteq Capabilities /\ stop \in BOOLEAN /\ shutdown \in BOOLEAN
        /\ gone \in BOOLEAN /\ stream \in 0..Len(thread)
    BY DEF SessionInv, SessionType
  <1>2. UNCHANGED <<journal, thread, wlock>>
    BY DEF ReadNoise, WriteReply, EndOfInput, Hangup, Refuse, Hello, Shutdown, Subscribe, Call
  <1>3. /\ stop' \in BOOLEAN /\ shutdown' \in BOOLEAN /\ gone' \in BOOLEAN
    BY <1>1 DEF ReadNoise, WriteReply, EndOfInput, Hangup, Refuse, Hello, Shutdown, Subscribe, Call,
       StopEvents
  <1>4. main' \in {"read", "join", "reply", "ended"} /\ todo' \in Requests \cup {Close}
    BY <1>1 DEF ReadNoise, WriteReply, EndOfInput, Hangup, Refuse, Hello, Shutdown, Subscribe, Call,
       StopEvents, Answer
  <1>5. caps' \subseteq Capabilities
    BY <1>1 DEF ReadNoise, WriteReply, EndOfInput, Hangup, Refuse, Hello, Shutdown, Subscribe, Call,
       Granted
  <1>6. stream' \in 0..Len(thread)
    BY <1>1 DEF ReadNoise, WriteReply, EndOfInput, Hangup, Refuse, Hello, Shutdown, Subscribe, Call
  <1>. QED BY <1>2, <1>3, <1>4, <1>5, <1>6, MainMoves

(* A new stream has sent nothing and its cursor stands where it begins. *)
LEMMA JoinStep ==
    ASSUME SessionInv, StreamInv, Join
    PROVE  SessionType' /\ StreamInv'
  <1>1. /\ thread \in Seq(ThreadType) /\ Len(thread) \in Nat
        /\ stop \in BOOLEAN /\ shutdown \in BOOLEAN /\ gone \in BOOLEAN
        /\ caps \subseteq Capabilities
        /\ wlock \in 0..Len(thread) /\ todo \in Requests \cup {Close}
    BY DEF SessionInv, SessionType
  <1>2. todo' = Close /\ UNCHANGED <<journal, caps, shutdown, wlock, gone>>
    BY DEF Join
  <1>3. CASE todo.method # "events.subscribe"
    <2>1. /\ main' \in {"read", "reply", "ended"} /\ stream' = 0
          /\ UNCHANGED <<stop, thread>>
      BY <1>3 DEF Join, Answer
    <2>. QED BY <1>1, <1>2, <2>1, MainMoves
  <1>4. CASE todo.method = "events.subscribe"
    <2>. DEFINE s == [pc |-> "look", since |-> todo.since, last |-> todo.since,
                      batch |-> <<>>, sent |-> <<>>]
                n == Len(thread) + 1
    <2>1. /\ main' \in {"read", "reply"} /\ stop' = FALSE
          /\ thread' = Append(thread, s) /\ stream' = n
      BY <1>4 DEF Join, Start, Answer
    <2>2. todo \in Requests
      BY <1>1, <1>4 DEF Close
    <2>3. /\ s.pc = "look" /\ s.since = todo.since /\ s.last = todo.since
          /\ s.batch = <<>> /\ s.sent = <<>> /\ todo.since \in Nat
      BY <2>2, RequestsAssumption
    <2>4. s \in ThreadType
      <3>1. todo.since \in Sinces
        BY <2>2 DEF Sinces
      <3>2. <<>> \in Seq(Events)
        OBVIOUS
      <3>. QED BY <3>1, <3>2 DEF ThreadType
    <2>. HIDE DEF s
    <2>5. /\ thread' \in Seq(ThreadType) /\ Len(thread') = n
          /\ DOMAIN thread' = DOMAIN thread \cup {n} /\ thread'[n] = s
          /\ \A t \in DOMAIN thread : thread'[t] = thread[t]
      BY <1>1, <2>1, <2>4
    <2>6. DOMAIN s.sent = {} /\ DOMAIN s.batch = {}
      BY <2>3
    <2>7. Filled(s)
      BY <2>3 DEF Filled
    <2>8. ASSUME InOrder PROVE Following(s)
      <3>1. InLine(s) /\ Cursor(s)
        BY <2>3, <2>6 DEF InLine, Cursor, Ascending
      <3>2. ASSUME NEW h \in DOMAIN history, history[h].ev.ts > s.since,
                   Reached(s, history[h].ev.ts)
            PROVE  FALSE
        <4>1. history[h].ev.ts \in Nat
          <5>1. history[h].ev \in Events
            BY HistoryFacts DEF SessionInv
          <5>. QED BY <5>1 DEF Events
        <4>2. history[h].ev.ts <= s.last
          BY <2>6, <3>2 DEF Reached
        <4>. QED BY <2>3, <3>2, <4>1, <4>2
      <3>. QED BY <3>1, <3>2 DEF Following, Complete
    <2>9. \A t \in DOMAIN thread' : Filled(thread'[t])
      BY <2>5, <2>7 DEF Filled, SessionInv, SessionType
    <2>10. /\ main' \in {"read", "join", "reply", "ended"} /\ todo' \in Requests \cup {Close}
           /\ caps' \subseteq Capabilities /\ stop' \in BOOLEAN
           /\ shutdown' \in BOOLEAN /\ gone' \in BOOLEAN
      BY <1>1, <1>2, <2>1
    <2>11. stream' \in 0..Len(thread') /\ wlock' \in 0..Len(thread')
      BY <1>1, <1>2, <2>1, <2>5
    <2>12. SessionType'
      BY <2>5, <2>9, <2>10, <2>11 DEF SessionType, Filled
    <2>13. StreamInv'
      <3>1. history' = history /\ live' = live
        BY <1>2 DEF journal
      <3>2. ASSUME InOrder, NEW t \in DOMAIN thread' PROVE Following(thread'[t])
        <4>1. \A u \in DOMAIN thread : Following(thread[u])
          BY <3>2 DEF StreamInv, Following
        <4>. QED BY <2>5, <2>8, <3>2, <4>1
      <3>. QED BY <3>1, <3>2 DEF StreamInv, Following, InOrder, InLine, Cursor, Complete,
              Ascending, Written, Holds, Reached, Settled
    <2>. QED BY <2>12, <2>13
  <1>. QED BY <1>3, <1>4

(* Whatever a session and the writers of its journal do. *)
LEMMA SessionNext ==
    ASSUME SessionInv, StreamInv, [Next]_vars
    PROVE  (SessionInv /\ StreamInv)'
  <1>1. CASE AgentNext
    <2>1. UNCHANGED journal
      BY <1>1 DEF AgentNext, ReadNoise, MainStep, WriteReply, Join, EndOfInput, Hangup, Refuse,
         Hello, Shutdown, Subscribe, Call, ThreadStep, Look, Fetch, BeginSend, EndSend
    <2>2. EventsInv'
      BY <2>1, EventsNext DEF SessionInv
    <2>3. SessionType' /\ StreamInv'
      <3>1. CASE \E t \in DOMAIN thread : ThreadStep(t)
        BY <3>1, LookStep, FetchStep, BeginSendStep, EndSendFails, EndSendSends DEF ThreadStep
      <3>2. CASE Join
        BY <3>2, JoinStep
      <3>3. CASE \/ ReadNoise \/ WriteReply \/ EndOfInput \/ Hangup
                 \/ \E req \in Requests : \/ Refuse(req) \/ Hello(req) \/ Shutdown(req)
                                          \/ Subscribe(req) \/ Call(req)
        BY <3>3, RequestStep
      <3>. QED BY <1>1, <3>1, <3>2, <3>3 DEF AgentNext, MainStep
    <2>. QED BY <2>2, <2>3 DEF SessionInv
  <1>2. CASE ~AgentNext
    <2>1. [JournalNext]_journal /\ UNCHANGED session
      BY <1>2 DEF Next, vars
    <2>2. EventsInv'
      BY <2>1, EventsNext DEF SessionInv
    <2>3. SessionType'
      BY <2>1 DEF session, SessionInv, SessionType
    <2>4. StreamInv'
      <3>1. thread' = thread
        BY <2>1 DEF session
      <3>2. ASSUME InOrder', NEW t \in DOMAIN thread'
            PROVE  InLine(thread[t])' /\ Cursor(thread[t])' /\ Complete(thread[t])'
        <4>1. PICK s : s = thread[t] /\ s = thread'[t]
          BY <3>1
        <4>2. s \in ThreadType /\ (InOrder => Following(s))
          BY <3>1, <3>2, <4>1, ThreadFacts
        <4>3. Following(s)'
          BY <2>1, <3>2, <4>2, FollowingStays DEF SessionInv
        <4>. QED BY <4>1, <4>3 DEF Following, InLine, Cursor, Complete, Ascending, Written,
                Holds, Reached, Settled
      <3>. QED BY <3>2 DEF StreamInv
    <2>. QED BY <2>2, <2>3, <2>4 DEF SessionInv
  <1>. QED BY <1>1, <1>2

(* The types of a session, for any requests, any number of writers, of events   *)
(* and of streams.                                                         *)
LEMMA InvIsTyped == SessionInv => TypeOK
  BY DEF SessionInv, EventsInv, JournalInv, JournalType, Stamps, SessionType, TypeOK

(* What the invariant is for: between what was sent and the cursor nothing      *)
(* that is still live is missing.                                           *)
LEMMA InvIsFaithful == SessionInv /\ StreamInv => FaithfulStream
  <1>. SUFFICES ASSUME SessionInv, StreamInv, InOrder, NEW t \in DOMAIN thread
                PROVE  LET sent == thread[t].sent
                           was(ev) == \E i \in DOMAIN sent : sent[i] = ev
                       IN  /\ \A i, j \in DOMAIN sent : i < j => sent[i].ts < sent[j].ts
                           /\ \A h \in DOMAIN history :
                               LET ev == history[h].ev
                               IN  /\ ev.ts > thread[t].since
                                   /\ sent # <<>> /\ ev.ts < sent[Len(sent)].ts
                                   => was(ev) \/ history[h].at # live
    BY DEF FaithfulStream
  <1>. DEFINE s == thread[t]
  <1>1. /\ Following(s) /\ s.sent \in Seq(Events) /\ s.batch \in Seq(Events)
    BY ThreadFacts
  <1>. HIDE DEF s
  <1>2. \A i, j \in DOMAIN s.sent : i < j => s.sent[i].ts < s.sent[j].ts
    BY <1>1 DEF Following, InLine, Ascending
  <1>3. ASSUME NEW h \in DOMAIN history, history[h].ev.ts > s.since, s.sent # <<>>,
               history[h].ev.ts < s.sent[Len(s.sent)].ts, history[h].at = live
        PROVE  \E i \in DOMAIN s.sent : s.sent[i] = history[h].ev
    <2>. DEFINE ev == history[h].ev  n == Len(s.sent)
    <2>1. n \in DOMAIN s.sent /\ s.sent[n] \in Events
      BY <1>1, <1>3
    <2>2. ev \in Events
      BY HistoryFacts DEF SessionInv
    <2>3. ev.ts \in Nat /\ s.sent[n].ts \in Nat
      BY <2>1, <2>2 DEF Events
    <2>. HIDE DEF ev, n
    <2>4. ev.ts < s.sent[n].ts
      BY <1>3 DEF ev, n
    <2>5. Reached(s, ev.ts)
      BY <2>1, <2>3, <2>4 DEF Reached
    <2>6. Holds(s.sent, ev) \/ Holds(s.batch, ev)
      BY <1>1, <1>3, <2>5 DEF Following, Complete, ev
    <2>7. ASSUME NEW j \in DOMAIN s.batch, s.batch[j] = ev PROVE FALSE
      <3>1. s.sent[n].ts < ev.ts
        BY <1>1, <2>1, <2>7 DEF Following, InLine
      <3>. QED BY <2>3, <2>4, <3>1
    <2>. QED BY <2>6, <2>7 DEF Holds, ev
  <1>. QED BY <1>2, <1>3 DEF s

(* The invariant of a session. *)
LEMMA SessionInvariant == Spec => [](SessionInv /\ StreamInv)
  <1>1. (SessionInv /\ StreamInv) /\ [Next]_vars => (SessionInv /\ StreamInv)'
    BY SessionNext
  <1>. QED BY SessionInit, <1>1, PTL DEF Spec

(* Type correctness of a session and its journal, for any requests and any      *)
(* number of writers and events.                                           *)
THEOREM SessionTyped == Spec => []TypeOK
  BY SessionInvariant, InvIsTyped, PTL

(* While the journal is in the order of its stamps, each stream thread by       *)
(* itself sends every event once, in order, and leaves one out only if it was   *)
(* moved away with its file, whatever the other threads, the rotations and the  *)
(* failed writes in between.                                                *)
THEOREM StreamIsFaithful == Spec => []FaithfulStream
  BY SessionInvariant, InvIsFaithful, PTL

================================================================================
