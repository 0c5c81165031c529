-------------------------------- MODULE Gui_proofs --------------------------------
(***************************************************************************)
(* The window, for any number of jobs, changes, turns and addresses: a flag  *)
(* belongs to one job, the status on view is fresh when nothing is left to    *)
(* do, the settings in use are the saved ones, a conversation alternates.     *)
(* And the front ends: who works without the lock is named.                 *)
(***************************************************************************)
EXTENDS Gui, Frontends, FiniteSetTheorems, TLAPS

Kinds == {"status", "page", "action", "edit", "craft", "preview", "command", "reconnect", "ollama",
          "chat", "none"}

JobSet == [kind : Kinds, flag : Flags \cup {NoFlag}, data : Nat \cup Addresses, ok : BOOLEAN]

(* The flag of a job tells its kind, as far as anything depends on it. *)
Proper(j) ==
    /\ j.kind = "status" <=> j.flag = "_refreshing"
    /\ j.kind = "reconnect" <=> j.flag = "_settings_saving"
    /\ j.kind = "chat" <=> j.flag = "_chat_running"
    /\ j.kind = "ollama" => j.data \in Addresses
    /\ j.kind = "craft" => j.flag = "dialog"

Jobs == {j \in JobSet : Proper(j)}

(* Which jobs hold which flags, when `q` waits, `n` runs, `r` has its callbacks *)
(* pending and `up` are the flags: a flag that is up has a job, and every job   *)
(* has its flag to itself.                                                   *)
Raised(q, n, r, up) ==
    /\ n.flag \in up \cup {NoFlag}
    /\ \A i \in DOMAIN q : q[i].flag \in up \cup {NoFlag}
    /\ \A i \in DOMAIN r : r[i].flag \in up \cup {NoFlag}

Owned(q, n, r, up) ==
    \A f \in up : \/ n.flag = f
                  \/ \E i \in DOMAIN q : q[i].flag = f
                  \/ \E i \in DOMAIN r : r[i].flag = f

Distinct(q) == \A i, j \in DOMAIN q : q[i].flag = q[j].flag /\ q[i].flag # NoFlag => i = j

Separate(q, n, r) ==
    /\ Distinct(q) /\ Distinct(r)
    /\ \A i \in DOMAIN q : q[i].flag # NoFlag => q[i].flag # n.flag
    /\ \A i \in DOMAIN r : r[i].flag # NoFlag => r[i].flag # n.flag
    /\ \A i \in DOMAIN q, j \in DOMAIN r : q[i].flag # NoFlag => q[i].flag # r[j].flag

Held(q, n, r, up) ==
    /\ up \subseteq Flags
    /\ Raised(q, n, r, up) /\ Owned(q, n, r, up) /\ Separate(q, n, r)

GuiType ==
    /\ queue \in Seq(Jobs) /\ now \in Jobs /\ ready \in Seq(Jobs)
    /\ changes \in Nat /\ shown \in [of : Nat \cup Addresses, ok : BOOLEAN]
    /\ memory \in Settings /\ disk2 \in Settings /\ link2 \in Addresses \cup {NoFlag}
    /\ crossed \in BOOLEAN /\ parted \in BOOLEAN
    /\ chat \in Seq({"user", "assistant"})

FlagInv == GuiType /\ Held(queue, now, ready, flags)

--------------------------------------------------------------------------------
(* Jobs *)

(* The jobs that handlers submit. *)
LEMMA JobsAreProper ==
  /\ \A full \in BOOLEAN : Status(full) \in Jobs
  /\ \A k \in {"page", "action", "edit", "craft", "preview", "command", "reconnect", "chat"},
        d \in {0, 1} :
        LET f == CASE k = "page" -> "page" [] k \in {"action", "edit"} -> "_busy"
                   [] k \in {"craft", "preview"} -> "dialog" [] k = "command" -> NoFlag
                   [] k = "reconnect" -> "_settings_saving" [] k = "chat" -> "_chat_running"
        IN  Job(k, f, d) \in Jobs
  /\ \A url \in Addresses : Job("ollama", NoFlag, url) \in Jobs
  /\ NoJob \in Jobs
  BY GuiAssumption DEF Status, Job, Jobs, JobSet, Proper, Kinds, Flags, NoJob

(* Jobs whose flags are down, and differ, may be submitted. *)
LEMMA SubmitHolds ==
  ASSUME NEW q \in Seq(Jobs), NEW n \in Jobs, NEW r \in Seq(Jobs), NEW up, Held(q, n, r, up),
         NEW new \in Seq(Jobs), Distinct(new),
         \A i \in DOMAIN new : new[i].flag \notin up
  PROVE  /\ q \o new \in Seq(Jobs)
         /\ Held(q \o new, n, r, up \cup ({new[i].flag : i \in DOMAIN new} \ {NoFlag}))
  <1>. DEFINE all == q \o new  ups == up \cup ({new[i].flag : i \in DOMAIN new} \ {NoFlag})
  <1>1. /\ all \in Seq(Jobs)
        /\ Len(q) \in Nat /\ Len(new) \in Nat /\ Len(all) = Len(q) + Len(new)
        /\ \A i \in DOMAIN q : i \in DOMAIN all /\ all[i] = q[i]
        /\ \A i \in DOMAIN new : Len(q) + i \in DOMAIN all /\ all[Len(q) + i] = new[i]
        /\ \A i \in DOMAIN all : i \notin DOMAIN q => i - Len(q) \in DOMAIN new
    OBVIOUS
  <1>2. \A i \in DOMAIN all : \/ i \in DOMAIN q /\ all[i] = q[i]
                              \/ i \notin DOMAIN q /\ i - Len(q) \in DOMAIN new /\ all[i] = new[i - Len(q)]
    BY <1>1
  <1>3. ups \subseteq Flags
    <2>1. \A i \in DOMAIN new : new[i].flag \in Flags \cup {NoFlag}
      <3>1. \A i \in DOMAIN new : new[i] \in Jobs
        OBVIOUS
      <3>. QED BY <3>1 DEF Jobs, JobSet
    <2>. QED BY <2>1 DEF Held
  <1>. HIDE DEF all
  <1>4. Raised(all, n, r, ups)
    BY <1>2 DEF Held, Raised
  <1>5. Owned(all, n, r, ups)
    <2>. SUFFICES ASSUME NEW f \in ups, n.flag # f, \A i \in DOMAIN r : r[i].flag # f
                  PROVE  \E i \in DOMAIN all : all[i].flag = f
      BY DEF Owned
    <2>1. CASE f \in up
      <3>1. PICK i \in DOMAIN q : q[i].flag = f
        BY <2>1 DEF Held, Owned
      <3>. QED BY <1>1, <3>1
    <2>2. CASE f \notin up
      <3>1. PICK i \in DOMAIN new : new[i].flag = f
        BY <2>2
      <3>2. Len(q) + i \in DOMAIN all /\ all[Len(q) + i].flag = f
        BY <1>1, <3>1
      <3>. QED BY <3>2
    <2>. QED BY <2>1, <2>2
  <1>6. Separate(all, n, r)
    <2>1. Distinct(all)
      <3>. SUFFICES ASSUME NEW i \in DOMAIN all, NEW j \in DOMAIN all,
                           all[i].flag = all[j].flag, all[i].flag # NoFlag
                    PROVE  i = j
        BY DEF Distinct
      <3>1. CASE i \in DOMAIN q /\ j \in DOMAIN q
        BY <1>2, <3>1 DEF Held, Separate, Distinct
      <3>2. CASE i \in DOMAIN q /\ j \notin DOMAIN q
        BY <1>2, <3>2 DEF Held, Raised
      <3>3. CASE i \notin DOMAIN q /\ j \in DOMAIN q
        BY <1>2, <3>3 DEF Held, Raised
      <3>4. CASE i \notin DOMAIN q /\ j \notin DOMAIN q
        <4>1. /\ i - Len(q) \in DOMAIN new /\ j - Len(q) \in DOMAIN new
              /\ new[i - Len(q)].flag = new[j - Len(q)].flag /\ new[i - Len(q)].flag # NoFlag
          BY <1>2, <3>4
        <4>2. i - Len(q) = j - Len(q)
          BY <4>1 DEF Distinct
        <4>3. i \in 1..Len(all) /\ j \in 1..Len(all)
          BY <1>1
        <4>. QED BY <1>1, <4>2, <4>3
      <3>. QED BY <3>1, <3>2, <3>3, <3>4
    <2>2. \A i \in DOMAIN all : all[i].flag # NoFlag => all[i].flag # n.flag
      BY <1>2 DEF Held, Separate, Raised
    <2>3. \A i \in DOMAIN all, j \in DOMAIN r : all[i].flag # NoFlag => all[i].flag # r[j].flag
      BY <1>2 DEF Held, Separate, Raised
    <2>. QED BY <2>1, <2>2, <2>3 DEF Held, Separate
  <1>. QED BY <1>1, <1>3, <1>4, <1>5, <1>6 DEF Held, all

(* What is left of a sequence without its head. *)
LEMMA TailFacts ==
  ASSUME NEW q \in Seq(Jobs), q # <<>>
  PROVE  /\ Tail(q) \in Seq(Jobs) /\ Head(q) \in Jobs /\ 1 \in DOMAIN q /\ q[1] = Head(q)
         /\ \A i \in DOMAIN Tail(q) : i + 1 \in DOMAIN q /\ i + 1 # 1 /\ Tail(q)[i] = q[i + 1]
         /\ \A i \in DOMAIN q : i # 1 => i - 1 \in DOMAIN Tail(q) /\ Tail(q)[i - 1] = q[i]
         /\ \A i, j \in DOMAIN Tail(q) : i + 1 = j + 1 => i = j
  OBVIOUS

(* The worker takes the first job. *)
LEMMA TakeHolds ==
  ASSUME NEW q \in Seq(Jobs), q # <<>>, NEW n \in Jobs, n.flag = NoFlag, NEW r \in Seq(Jobs),
         NEW up, Held(q, n, r, up), NEW m \in Jobs, m.flag = Head(q).flag
  PROVE  Held(Tail(q), m, r, up)
  <1>. DEFINE t == Tail(q)
  <1>1. /\ 1 \in DOMAIN q /\ q[1].flag = m.flag
        /\ \A i \in DOMAIN t : i + 1 \in DOMAIN q /\ i + 1 # 1 /\ t[i] = q[i + 1]
        /\ \A i \in DOMAIN q : i # 1 => i - 1 \in DOMAIN t /\ t[i - 1] = q[i]
        /\ \A i, j \in DOMAIN t : i + 1 = j + 1 => i = j
    BY TailFacts
  <1>. HIDE DEF t
  <1>2. Raised(t, m, r, up)
    BY <1>1 DEF Held, Raised
  <1>3. Owned(t, m, r, up)
    <2>. SUFFICES ASSUME NEW f \in up, m.flag # f, \A i \in DOMAIN r : r[i].flag # f
                  PROVE  \E i \in DOMAIN t : t[i].flag = f
      BY DEF Owned
    <2>1. f # NoFlag
      BY GuiAssumption DEF Held
    <2>2. PICK i \in DOMAIN q : q[i].flag = f
      BY <2>1 DEF Held, Owned
    <2>. QED BY <1>1, <2>2
  <1>4. Distinct(t)
    BY <1>1 DEF Held, Separate, Distinct
  <1>5. Separate(t, m, r)
    BY <1>1, <1>4 DEF Held, Separate, Distinct
  <1>. QED BY <1>2, <1>3, <1>5 DEF Held, t

(* The worker hands a job over to the main loop. *)
LEMMA FinishHolds ==
  ASSUME NEW q \in Seq(Jobs), NEW n \in Jobs, NEW r \in Seq(Jobs), NEW up, Held(q, n, r, up),
         NEW m \in Jobs, m.flag = n.flag, NEW o \in Jobs, o.flag = NoFlag
  PROVE  Append(r, m) \in Seq(Jobs) /\ Held(q, o, Append(r, m), up)
  <1>. DEFINE a == Append(r, m)
  <1>1. /\ a \in Seq(Jobs) /\ Len(r) \in Nat
        /\ Len(r) + 1 \in DOMAIN a /\ a[Len(r) + 1] = m
        /\ \A i \in DOMAIN r : i \in DOMAIN a /\ a[i] = r[i]
        /\ \A i \in DOMAIN a : \/ i \in DOMAIN r /\ a[i] = r[i]
                               \/ i = Len(r) + 1 /\ i \notin DOMAIN r /\ a[i] = m
    OBVIOUS
  <1>. HIDE DEF a
  <1>2. Raised(q, o, a, up)
    BY <1>1 DEF Held, Raised
  <1>3. Owned(q, o, a, up)
    BY <1>1 DEF Held, Owned
  <1>4. Distinct(a)
    <2>. SUFFICES ASSUME NEW i \in DOMAIN a, NEW j \in DOMAIN a,
                         a[i].flag = a[j].flag, a[i].flag # NoFlag
                  PROVE  i = j
      BY DEF Distinct
    <2>. QED BY <1>1 DEF Held, Separate, Distinct
  <1>5. Separate(q, o, a)
    BY <1>1, <1>4 DEF Held, Separate
  <1>. QED BY <1>1, <1>2, <1>3, <1>5 DEF Held, a

(* A callback lowers the flag of its job. *)
LEMMA CallbackHolds ==
  ASSUME NEW q \in Seq(Jobs), NEW n \in Jobs, NEW r \in Seq(Jobs), r # <<>>, NEW up,
         Held(q, n, r, up)
  PROVE  Tail(r) \in Seq(Jobs) /\ Held(q, n, Tail(r), up \ {Head(r).flag})
  <1>. DEFINE t == Tail(r)  f == Head(r).flag
  <1>1. /\ t \in Seq(Jobs) /\ 1 \in DOMAIN r /\ r[1].flag = f
        /\ \A i \in DOMAIN t : i + 1 \in DOMAIN r /\ i + 1 # 1 /\ t[i] = r[i + 1]
        /\ \A i \in DOMAIN r : i # 1 => i - 1 \in DOMAIN t /\ t[i - 1] = r[i]
        /\ \A i, j \in DOMAIN t : i + 1 = j + 1 => i = j
    BY TailFacts
  <1>. HIDE DEF t, f
  <1>2. \A i \in DOMAIN t : t[i].flag = NoFlag \/ t[i].flag # f
    BY <1>1 DEF Held, Separate, Distinct
  <1>3. Raised(q, n, t, up \ {f})
    BY <1>1, <1>2 DEF Held, Raised, Separate
  <1>4. Owned(q, n, t, up \ {f})
    <2>. SUFFICES ASSUME NEW g \in up \ {f}, n.flag # g, \A i \in DOMAIN q : q[i].flag # g
                  PROVE  \E i \in DOMAIN t : t[i].flag = g
      BY DEF Owned
    <2>1. PICK i \in DOMAIN r : r[i].flag = g
      BY DEF Held, Owned
    <2>. QED BY <1>1, <2>1
  <1>5. Distinct(t)
    <2>. SUFFICES ASSUME NEW i \in DOMAIN t, NEW j \in DOMAIN t,
                         t[i].flag = t[j].flag, t[i].flag # NoFlag
                  PROVE  i = j
      BY DEF Distinct
    <2>1. i + 1 = j + 1
      <3>1. /\ i + 1 \in DOMAIN r /\ j + 1 \in DOMAIN r
            /\ r[i + 1].flag = r[j + 1].flag /\ r[i + 1].flag # NoFlag
        BY <1>1
      <3>2. Distinct(r)
        BY DEF Held, Separate
      <3>. QED BY ONLY <3>1, <3>2 DEF Distinct
    <2>. QED BY <1>1, <2>1
  <1>6. Separate(q, n, t)
    BY <1>1, <1>5 DEF Held, Separate
  <1>. QED BY <1>1, <1>3, <1>4, <1>6 DEF Held, t, f

(* Refreshes are submitted only while none is under way. *)
LEMMA RefreshIsFresh ==
  ASSUME NEW up, NEW full \in BOOLEAN
  PROVE  /\ RefreshJobs(up, full) \in Seq(Jobs)
         /\ \A i \in DOMAIN RefreshJobs(up, full) :
                i = 1 /\ RefreshJobs(up, full)[i].flag = "_refreshing" /\ "_refreshing" \notin up
  <1>1. Status(full) \in Jobs /\ Status(full).flag = "_refreshing"
    BY JobsAreProper DEF Status, Job
  <1>. HIDE DEF Status
  <1>. QED BY <1>1 DEF RefreshJobs

LEMMA PageIsFresh ==
  ASSUME NEW up
  PROVE  /\ PageJobs(up) \in Seq(Jobs)
         /\ \A i \in DOMAIN PageJobs(up) :
                i = 1 /\ PageJobs(up)[i].flag = "page" /\ "page" \notin up
  <1>. DEFINE j == Job("page", "page", 0)
  <1>1. j \in Jobs /\ j.flag = "page"
    BY JobsAreProper DEF Job
  <1>. HIDE DEF j
  <1>. QED BY <1>1 DEF PageJobs, j

(* A refresh and a page at once. *)
LEMMA BothAreFresh ==
  ASSUME NEW up, NEW full \in BOOLEAN
  PROVE  LET new == RefreshJobs(up, full) \o PageJobs(up)
         IN  /\ new \in Seq(Jobs) /\ Distinct(new)
             /\ \A i \in DOMAIN new : new[i].flag \notin up
  <1>. DEFINE a == RefreshJobs(up, full)  b == PageJobs(up)  new == a \o b
  <1>1. a \in Seq(Jobs) /\ b \in Seq(Jobs)
    BY RefreshIsFresh, PageIsFresh
  <1>2. /\ \A i \in DOMAIN a : i = 1 /\ a[i].flag = "_refreshing" /\ "_refreshing" \notin up
        /\ \A i \in DOMAIN b : i = 1 /\ b[i].flag = "page" /\ "page" \notin up
    BY RefreshIsFresh, PageIsFresh
  <1>. HIDE DEF a, b
  <1>3. /\ new \in Seq(Jobs)
        /\ \A i \in DOMAIN new :
              \/ i \in DOMAIN a /\ new[i] = a[i]
              \/ i \notin DOMAIN a /\ i - Len(a) \in DOMAIN b /\ new[i] = b[i - Len(a)]
    BY <1>1
  <1>4. Len(a) \in Nat /\ \A i \in DOMAIN new : i \in Nat
    BY <1>1, <1>3
  <1>. HIDE DEF new
  <1>5. Distinct(new)
    <2>. SUFFICES ASSUME NEW i \in DOMAIN new, NEW j \in DOMAIN new, new[i].flag = new[j].flag
                  PROVE  i = j
      BY DEF Distinct
    <2>1. CASE i \in DOMAIN a /\ j \in DOMAIN a
      BY <1>2, <2>1
    <2>2. CASE i \notin DOMAIN a /\ j \notin DOMAIN a
      <3>1. i - Len(a) = 1 /\ j - Len(a) = 1
        BY <1>2, <1>3, <2>2
      <3>. QED BY <1>4, <3>1
    <2>3. CASE ~(i \in DOMAIN a <=> j \in DOMAIN a)
      <3>1. {new[i].flag, new[j].flag} = {"_refreshing", "page"}
        BY <1>2, <1>3, <2>3
      <3>. QED BY <3>1
    <2>. QED BY <2>1, <2>2, <2>3
  <1>6. \A i \in DOMAIN new : new[i].flag \notin up
    BY <1>2, <1>3
  <1>. QED BY <1>3, <1>5, <1>6 DEF a, b, new

(* A job by itself. *)
LEMMA OneIsFresh ==
  ASSUME NEW j \in Jobs, NEW up, j.flag \notin up
  PROVE  /\ <<j>> \in Seq(Jobs) /\ Distinct(<<j>>)
         /\ \A i \in DOMAIN <<j>> : <<j>>[i].flag \notin up
  BY DEF Distinct

LEMMA NoneIsFresh == <<>> \in Seq(Jobs) /\ Distinct(<<>>)
  BY DEF Distinct

--------------------------------------------------------------------------------
(* The invariant of the flags *)

LEMMA InitFlags == GuiInit => FlagInv
  <1>. SUFFICES ASSUME GuiInit PROVE FlagInv
    OBVIOUS
  <1>1. memory \in Settings
    <2>1. PICK a : a \in Addresses
      BY GuiAssumption
    <2>2. [host |-> a, url |-> a] \in Settings
      BY <2>1 DEF Settings
    <2>3. \E s \in Settings : s.host = s.url
      BY <2>2
    <2>. QED BY <2>3 DEF GuiInit
  <1>2. Status(TRUE) \in Jobs /\ Status(TRUE).flag = "_refreshing" /\ NoJob \in Jobs
        /\ NoJob.flag = NoFlag
    BY JobsAreProper DEF Status, Job, NoJob
  <1>. DEFINE s == Status(TRUE)
  <1>. HIDE DEF s
  <1>3. queue = <<s>> /\ now = NoJob /\ ready = <<>> /\ flags = {"_refreshing"}
    BY DEF GuiInit, s
  <1>4. queue \in Seq(Jobs) /\ DOMAIN queue = {1} /\ queue[1] = s
    <2>1. s \in Jobs
      BY <1>2 DEF s
    <2>2. <<s>> \in Seq(Jobs) /\ DOMAIN <<s>> = {1} /\ <<s>>[1] = s
      BY <2>1
    <2>. QED BY <1>3, <2>2
  <1>5. GuiType
    <2>1. ready \in Seq(Jobs) /\ chat \in Seq({"user", "assistant"})
      BY DEF GuiInit
    <2>2. changes \in Nat /\ shown \in [of : Nat \cup Addresses, ok : BOOLEAN]
      BY DEF GuiInit
    <2>3. disk2 \in Settings /\ link2 \in Addresses \cup {NoFlag}
          /\ crossed \in BOOLEAN /\ parted \in BOOLEAN
      BY <1>1 DEF GuiInit
    <2>4. now \in Jobs
      BY <1>2, <1>3
    <2>. QED BY <1>1, <1>4, <2>1, <2>2, <2>3, <2>4 DEF GuiType
  <1>6. Held(queue, now, ready, flags)
    <2>1. s.flag = "_refreshing" /\ now.flag = NoFlag
      BY <1>2, <1>3 DEF s
    <2>2. Raised(queue, now, ready, flags) /\ Owned(queue, now, ready, flags)
      BY <1>3, <1>4, <2>1 DEF Raised, Owned
    <2>3. Separate(queue, now, ready)
      BY <1>3, <1>4, <2>1 DEF Separate, Distinct
    <2>. QED BY <1>3, <2>2, <2>3 DEF Held, Flags
  <1>. QED BY <1>5, <1>6 DEF FlagInv

(* What every handler leaves. *)
LEMMA HandlerHolds ==
  ASSUME FlagInv, NEW new \in Seq(Jobs), Distinct(new), Submit(flags, new),
         \A i \in DOMAIN new : new[i].flag \notin flags
  PROVE  queue' \in Seq(Jobs) /\ Held(queue', now, ready, flags')
  BY SubmitHolds DEF FlagInv, GuiType, Submit

LEMMA TickFlags == FlagInv /\ Tick => FlagInv'
  <1>. SUFFICES ASSUME FlagInv, Tick PROVE FlagInv'
    OBVIOUS
  <1>1. PICK full \in BOOLEAN : Submit(flags, RefreshJobs(flags, full) \o PageJobs(flags))
    BY DEF Tick
  <1>2. queue' \in Seq(Jobs) /\ Held(queue', now, ready, flags')
    BY <1>1, BothAreFresh, HandlerHolds
  <1>. QED BY <1>2 DEF FlagInv, GuiType, Tick

LEMMA RefreshSubmits ==
  ASSUME FlagInv, NEW full \in BOOLEAN, Submit(flags, RefreshJobs(flags, full))
  PROVE  queue' \in Seq(Jobs) /\ Held(queue', now, ready, flags')
  <1>. DEFINE new == RefreshJobs(flags, full)
  <1>1. /\ new \in Seq(Jobs)
        /\ \A i \in DOMAIN new : i = 1 /\ new[i].flag \notin flags
    BY RefreshIsFresh
  <1>. HIDE DEF new
  <1>2. Distinct(new)
    BY <1>1 DEF Distinct
  <1>3. Submit(flags, new)
    BY DEF new
  <1>. QED BY <1>1, <1>2, <1>3, HandlerHolds

LEMMA OneSubmits ==
  ASSUME FlagInv, NEW j \in Jobs, j.flag \notin flags, Submit(flags, <<j>>)
  PROVE  queue' \in Seq(Jobs) /\ Held(queue', now, ready, flags')
  BY OneIsFresh, HandlerHolds

LEMMA PressFlags == FlagInv /\ PressRefresh => FlagInv'
  <1>. SUFFICES ASSUME FlagInv, PressRefresh PROVE FlagInv'
    OBVIOUS
  <1>1. queue' \in Seq(Jobs) /\ Held(queue', now, ready, flags')
    BY RefreshSubmits DEF PressRefresh
  <1>. QED BY <1>1 DEF FlagInv, GuiType, PressRefresh

LEMMA ActFlags == FlagInv /\ Act => FlagInv'
  <1>. SUFFICES ASSUME FlagInv, Act PROVE FlagInv'
    OBVIOUS
  <1>1. PICK j \in {Job("action", "_busy", 0), Job("action", "_busy", 1), Job("edit", "_busy", 0),
                    Job("craft", "dialog", 0), Job("command", NoFlag, 0)} :
          j.flag \notin flags /\ Submit(flags, <<j>>)
    BY DEF Act
  <1>2. j \in Jobs
    BY JobsAreProper
  <1>3. queue' \in Seq(Jobs) /\ Held(queue', now, ready, flags')
    BY <1>1, <1>2, OneSubmits
  <1>. QED BY <1>3 DEF FlagInv, GuiType, Act

LEMMA SaveFlags == FlagInv /\ SaveSettings => FlagInv'
  <1>. SUFFICES ASSUME FlagInv, SaveSettings PROVE FlagInv'
    OBVIOUS
  <1>1. PICK typed \in Settings :
         \/ /\ Rollback(typed) /\ UNCHANGED <<disk2, queue, flags, crossed>>
         \/ /\ memory' = typed /\ disk2' = typed
            /\ crossed' = (now.kind = "ollama")
            /\ IF typed.host = memory.host THEN Submit(flags, RefreshJobs(flags, TRUE))
               ELSE /\ changes < MaxChanges
                    /\ Submit(flags, <<Job("reconnect", "_settings_saving", 0)>>)
    BY DEF SaveSettings
  <1>2. memory' \in Settings /\ disk2' \in Settings /\ crossed' \in BOOLEAN
    BY <1>1 DEF Rollback, FlagInv, GuiType
  <1>3. UNCHANGED <<now, ready, changes, shown, link2, chat, parted>>
    BY DEF SaveSettings
  <1>4. queue' \in Seq(Jobs) /\ Held(queue', now, ready, flags')
    <2>1. CASE UNCHANGED <<queue, flags>>
      BY <2>1 DEF FlagInv, GuiType
    <2>2. CASE Submit(flags, RefreshJobs(flags, TRUE))
      BY <2>2, RefreshSubmits
    <2>3. CASE Submit(flags, <<Job("reconnect", "_settings_saving", 0)>>)
      <3>. DEFINE j == Job("reconnect", "_settings_saving", 0)
      <3>1. j \in Jobs /\ j.flag \notin flags
        BY JobsAreProper DEF Job, SaveSettings
      <3>. QED BY <2>3, <3>1, OneSubmits
    <2>. QED BY <1>1, <2>1, <2>2, <2>3
  <1>. QED BY <1>2, <1>3, <1>4 DEF FlagInv, GuiType

LEMMA ModelFlags == FlagInv /\ ChooseModel => FlagInv'
  <1>. SUFFICES ASSUME FlagInv, ChooseModel PROVE FlagInv'
    OBVIOUS
  <1>1. PICK url \in Addresses : Submit(flags, <<Job("ollama", NoFlag, url)>>)
    BY DEF ChooseModel
  <1>. DEFINE j == Job("ollama", NoFlag, url)
  <1>2. j \in Jobs /\ j.flag = NoFlag
    BY JobsAreProper DEF Job
  <1>3. NoFlag \notin flags
    BY GuiAssumption DEF FlagInv, Held
  <1>4. queue' \in Seq(Jobs) /\ Held(queue', now, ready, flags')
    BY <1>1, <1>2, <1>3, OneSubmits
  <1>. QED BY <1>4 DEF FlagInv, GuiType, ChooseModel

LEMMA SendFlags == FlagInv /\ SendChat => FlagInv'
  <1>. SUFFICES ASSUME FlagInv, SendChat PROVE FlagInv'
    OBVIOUS
  <1>. DEFINE d == IF chat = <<>> THEN 1 ELSE 0  j == Job("chat", "_chat_running", d)
  <1>1. d \in {0, 1}
    OBVIOUS
  <1>2. j \in Jobs /\ j.flag \notin flags /\ Submit(flags, <<j>>)
    <2>. HIDE DEF d
    <2>1. j \in Jobs /\ j.flag = "_chat_running"
      BY <1>1, JobsAreProper DEF Job
    <2>. QED BY <2>1 DEF SendChat, d
  <1>. HIDE DEF j
  <1>3. queue' \in Seq(Jobs) /\ Held(queue', now, ready, flags')
    BY <1>2, OneSubmits
  <1>. QED BY <1>3 DEF FlagInv, GuiType, SendChat

LEMMA NewFlags == FlagInv /\ NewChat => FlagInv'
  BY DEF FlagInv, GuiType, NewChat

LEMMA TakeFlags == FlagInv /\ Take2 => FlagInv'
  <1>. SUFFICES ASSUME FlagInv, Take2 PROVE FlagInv'
    OBVIOUS
  <1>. DEFINE j == Head(queue)
  <1>1. /\ queue \in Seq(Jobs) /\ queue # <<>> /\ now = NoJob /\ ready \in Seq(Jobs)
        /\ Held(queue, now, ready, flags) /\ now \in Jobs
    BY DEF FlagInv, GuiType, Take2
  <1>2. j \in Jobs /\ Tail(queue) \in Seq(Jobs)
    BY <1>1, TailFacts
  <1>3. now.flag = NoFlag
    BY <1>1 DEF NoJob, Job
  <1>. HIDE DEF j
  <1>4. j \in JobSet /\ Proper(j)
    BY <1>2 DEF Jobs
  <1>5. CASE j.kind = "ollama"
    <2>1. now' = [j EXCEPT !.data = memory.url] /\ memory' = [memory EXCEPT !.url = j.data]
          /\ UNCHANGED <<chat, link2>>
      BY <1>5 DEF Take2, j, Swap
    <2>2. memory.url \in Addresses /\ j.data \in Addresses
      BY <1>4, <1>5 DEF FlagInv, GuiType, Settings, Proper
    <2>3. now' \in JobSet /\ now'.flag = j.flag /\ now'.kind = j.kind /\ now'.data \in Addresses
      BY <1>4, <2>1, <2>2 DEF JobSet
    <2>4. now' \in Jobs
      BY <1>4, <2>3 DEF Jobs, Proper
    <2>5. memory' \in Settings
      BY <2>1, <2>2 DEF FlagInv, GuiType, Settings
    <2>6. Held(Tail(queue), now', ready, flags)
      BY <1>1, <1>3, <2>3, <2>4, TakeHolds DEF j
    <2>. QED BY <1>2, <2>1, <2>4, <2>5, <2>6 DEF FlagInv, GuiType, Take2
  <1>6. CASE j.kind # "ollama"
    <2>1. now' \in Jobs /\ now'.flag = j.flag
      <3>1. changes \in Nat
        BY DEF FlagInv, GuiType
      <3>2. now' \in {j, [j EXCEPT !.ok = FALSE], [j EXCEPT !.data = changes]}
        BY <1>6 DEF Take2, j
      <3>3. now' \in JobSet /\ now'.flag = j.flag /\ now'.kind = j.kind
        BY <1>4, <3>1, <3>2 DEF JobSet
      <3>. QED BY <1>4, <1>6, <3>3 DEF Jobs, Proper
    <2>2. memory' = memory /\ link2' \in Addresses \cup {NoFlag}
      BY <1>6 DEF Take2, j, FlagInv, GuiType, Settings
    <2>3. chat' \in Seq({"user", "assistant"})
      <3>1. chat \in Seq({"user", "assistant"})
        BY DEF FlagInv, GuiType
      <3>2. Append(chat, "user") \in Seq({"user", "assistant"})
        BY <3>1
      <3>3. chat' \in {chat, Append(chat, "user")}
        BY <1>6 DEF Take2, j
      <3>. QED BY <3>1, <3>2, <3>3
    <2>4. Held(Tail(queue), now', ready, flags)
      BY <1>1, <1>3, <2>1, TakeHolds DEF j
    <2>. QED BY <1>2, <2>1, <2>2, <2>3, <2>4 DEF FlagInv, GuiType, Take2
  <1>. QED BY <1>5, <1>6

LEMMA FinishFlags == FlagInv /\ Finish => FlagInv'
  <1>. SUFFICES ASSUME FlagInv, Finish PROVE FlagInv'
    OBVIOUS
  <1>1. PICK ok \in BOOLEAN :
          /\ ready' = Append(ready, [now EXCEPT !.ok = ok])
          /\ chat' = IF now.kind = "chat" /\ ok THEN Append(chat, "assistant") ELSE chat
    <2>1. now.ok \in BOOLEAN
      BY DEF FlagInv, GuiType, Jobs, JobSet
    <2>. QED BY <2>1 DEF Finish
  <1>. DEFINE m == [now EXCEPT !.ok = ok]
  <1>2. m \in Jobs /\ m.flag = now.flag
    <2>1. now \in JobSet /\ Proper(now)
      BY DEF FlagInv, GuiType, Jobs
    <2>2. m \in JobSet /\ m.flag = now.flag /\ m.kind = now.kind /\ m.data = now.data
      BY <2>1 DEF JobSet
    <2>. HIDE DEF m
    <2>. QED BY <2>1, <2>2 DEF Jobs, Proper
  <1>. HIDE DEF m
  <1>3. NoJob \in Jobs /\ NoJob.flag = NoFlag
    BY JobsAreProper DEF NoJob, Job
  <1>4. ready' \in Seq(Jobs) /\ Held(queue, NoJob, ready', flags)
    BY <1>1, <1>2, <1>3, FinishHolds DEF FlagInv, GuiType, m
  <1>5. memory' \in Settings
    <2>1. now.kind = "ollama" => now.data \in Addresses
      BY DEF FlagInv, GuiType, Jobs, Proper
    <2>. QED BY <2>1 DEF Finish, Swap, FlagInv, GuiType, Settings
  <1>6. chat' \in Seq({"user", "assistant"})
    <2>1. chat \in Seq({"user", "assistant"})
      BY DEF FlagInv, GuiType
    <2>. QED BY <1>1, <2>1
  <1>7. changes' \in Nat /\ link2' \in Addresses \cup {NoFlag} /\ now' = NoJob
        /\ UNCHANGED <<queue, flags, shown, disk2, crossed, parted>>
    BY DEF Finish, FlagInv, GuiType
  <1>. QED BY <1>3, <1>4, <1>5, <1>6, <1>7 DEF FlagInv, GuiType

(* What a callback submits is not under way. *)
LEMMA FollowUpIsFresh ==
  ASSUME NEW up, NEW j \in Jobs, j.flag \notin up
  PROVE  LET new == FollowUp(up, j)
         IN  /\ new \in Seq(Jobs) /\ Distinct(new)
             /\ \A i \in DOMAIN new : new[i].flag \notin up
  <1>. DEFINE Fresh(new) == /\ new \in Seq(Jobs) /\ Distinct(new)
                           /\ \A i \in DOMAIN new : new[i].flag \notin up
  <1>1. \A full \in BOOLEAN : Fresh(RefreshJobs(up, full))
    <2>. SUFFICES ASSUME NEW full \in BOOLEAN PROVE Fresh(RefreshJobs(up, full))
      OBVIOUS
    <2>. DEFINE new == RefreshJobs(up, full)
    <2>1. new \in Seq(Jobs) /\ \A i \in DOMAIN new : i = 1 /\ new[i].flag \notin up
      BY RefreshIsFresh
    <2>. HIDE DEF new
    <2>2. Distinct(new)
      BY <2>1 DEF Distinct
    <2>. QED BY <2>1, <2>2 DEF new
  <1>2. \A full \in BOOLEAN : Fresh(RefreshJobs(up, full) \o PageJobs(up))
    BY BothAreFresh
  <1>3. Fresh(<<>>)
    BY NoneIsFresh
  <1>4. j.kind = "craft" => Fresh(<<Job("preview", "dialog", 0)>>)
    <2>. SUFFICES ASSUME j.kind = "craft" PROVE Fresh(<<Job("preview", "dialog", 0)>>)
      OBVIOUS
    <2>. DEFINE p == Job("preview", "dialog", 0)
    <2>1. p \in Jobs /\ p.flag = "dialog" /\ j.flag = "dialog"
      BY JobsAreProper DEF Jobs, Proper, Job
    <2>. HIDE DEF p
    <2>2. Fresh(<<p>>)
      BY <2>1, OneIsFresh
    <2>. QED BY <2>2 DEF p
  <1>5. \/ FollowUp(up, j) = <<>>
        \/ \E full \in BOOLEAN : FollowUp(up, j) = RefreshJobs(up, full) \o PageJobs(up)
        \/ \E full \in BOOLEAN : FollowUp(up, j) = RefreshJobs(up, full)
        \/ j.kind = "craft" /\ FollowUp(up, j) = <<Job("preview", "dialog", 0)>>
    <2>1. j.ok \in BOOLEAN
      BY DEF Jobs, JobSet
    <2>2. \A full \in BOOLEAN : RefreshJobs(up, full) \o <<>> = RefreshJobs(up, full)
      BY RefreshIsFresh
    <2>. QED BY <2>1, <2>2 DEF FollowUp
  <1>. HIDE DEF Fresh
  <1>6. Fresh(FollowUp(up, j))
    BY <1>1, <1>2, <1>3, <1>4, <1>5
  <1>. QED BY <1>6 DEF Fresh

LEMMA CallbackFlags == FlagInv /\ Callback => FlagInv'
  <1>. SUFFICES ASSUME FlagInv, Callback PROVE FlagInv'
    OBVIOUS
  <1>. DEFINE j == Head(ready)  up == flags \ {j.flag}  new == FollowUp(up, j)
  <1>1. /\ queue \in Seq(Jobs) /\ now \in Jobs /\ ready \in Seq(Jobs) /\ ready # <<>>
        /\ Held(queue, now, ready, flags)
    BY DEF FlagInv, GuiType, Callback
  <1>2. j \in Jobs /\ ready' = Tail(ready) /\ Submit(up, new)
    BY <1>1, TailFacts DEF Callback
  <1>3. ready' \in Seq(Jobs) /\ Held(queue, now, ready', up)
    BY <1>1, <1>2, CallbackHolds
  <1>4. new \in Seq(Jobs) /\ Distinct(new) /\ \A i \in DOMAIN new : new[i].flag \notin up
    BY <1>2, FollowUpIsFresh
  <1>5. shown' \in [of : Nat \cup Addresses, ok : BOOLEAN]
    <2>1. j.data \in Nat \cup Addresses
      BY <1>2 DEF Jobs, JobSet
    <2>2. shown \in [of : Nat \cup Addresses, ok : BOOLEAN]
      BY DEF FlagInv, GuiType
    <2>3. shown' \in {shown, [of |-> j.data, ok |-> TRUE], [shown EXCEPT !.ok = FALSE]}
      BY DEF Callback
    <2>. HIDE DEF j
    <2>4. [of |-> j.data, ok |-> TRUE] \in [of : Nat \cup Addresses, ok : BOOLEAN]
      BY <2>1
    <2>5. [shown EXCEPT !.ok = FALSE] \in [of : Nat \cup Addresses, ok : BOOLEAN]
      BY <2>2
    <2>. QED BY <2>2, <2>3, <2>4, <2>5
  <1>6. chat' \in Seq({"user", "assistant"})
    <2>1. chat \in Seq({"user", "assistant"})
      BY DEF FlagInv, GuiType
    <2>2. chat # <<>> => SubSeq(chat, 1, Len(chat) - 1) \in Seq({"user", "assistant"})
      BY <2>1
    <2>. QED BY <2>1, <2>2 DEF Callback, Answered
  <1>7. UNCHANGED <<now, changes, memory, disk2, link2, crossed, parted>>
    BY DEF Callback
  <1>. HIDE DEF j, up, new
  <1>8. queue' \in Seq(Jobs) /\ Held(queue', now, ready', flags')
    <2>1. /\ queue \o new \in Seq(Jobs)
          /\ Held(queue \o new, now, ready', up \cup ({new[i].flag : i \in DOMAIN new} \ {NoFlag}))
      BY <1>1, <1>3, <1>4, SubmitHolds
    <2>. QED BY <1>2, <2>1 DEF Submit
  <1>. QED BY <1>3, <1>5, <1>6, <1>7, <1>8 DEF FlagInv, GuiType

(* Every step keeps the invariant of the flags. *)
LEMMA NextFlags == FlagInv /\ [GuiNext]_window => FlagInv'
  <1>1. FlagInv /\ UNCHANGED window => FlagInv'
    BY DEF FlagInv, GuiType, window
  <1>. QED BY <1>1, TickFlags, PressFlags, ActFlags, SaveFlags, ModelFlags, SendFlags, NewFlags,
              TakeFlags, FinishFlags, CallbackFlags DEF GuiNext

--------------------------------------------------------------------------------

(* The three sequences as one. *)
LEMMA ThreeAsOne ==
  ASSUME NEW q \in Seq(Jobs), NEW n \in Jobs, NEW r \in Seq(Jobs)
  PROVE  LET all == q \o <<n>> \o r
         IN  /\ \A i \in DOMAIN q : i \in DOMAIN all /\ all[i] = q[i]
             /\ Len(q) + 1 \in DOMAIN all /\ all[Len(q) + 1] = n
             /\ \A i \in DOMAIN r : Len(q) + 1 + i \in DOMAIN all /\ all[Len(q) + 1 + i] = r[i]
             /\ \A i \in DOMAIN all : i \in Nat /\
                   \/ i \in DOMAIN q
                   \/ i = Len(q) + 1
                   \/ \E k \in DOMAIN r : i = Len(q) + 1 + k
  <1>. DEFINE b == <<n>>  a == q \o b  all == a \o r
  <1>1. b \in Seq(Jobs) /\ Len(b) = 1 /\ b[1] = n
    OBVIOUS
  <1>. HIDE DEF b
  <1>2. /\ a \in Seq(Jobs) /\ Len(a) = Len(q) + 1 /\ a[Len(q) + 1] = n
        /\ \A i \in DOMAIN q : i \in DOMAIN a /\ a[i] = q[i]
        /\ \A i \in DOMAIN a : i \in DOMAIN q \/ i = Len(q) + 1
    <2>1. a \in Seq(Jobs) /\ Len(a) = Len(q) + 1 /\ Len(q) \in Nat /\ DOMAIN q = 1..Len(q)
      <3>1. a \in Seq(Jobs) /\ Len(a) = Len(q) + Len(b)
        <4>1. q \in Seq(Jobs) /\ b \in Seq(Jobs)
          BY <1>1
        <4>. QED BY <4>1
      <3>2. Len(q) \in Nat /\ DOMAIN q = 1..Len(q)
        OBVIOUS
      <3>. QED BY <1>1, <3>1, <3>2
    <2>2. a[Len(q) + 1] = b[1] /\ \A i \in DOMAIN q : a[i] = q[i]
      BY <1>1, <2>1
    <2>3. DOMAIN a = 1..(Len(q) + 1)
      BY <2>1
    <2>. HIDE DEF a
    <2>. QED BY <1>1, <2>1, <2>2, <2>3
  <1>. HIDE DEF a
  <1>3. Len(q) \in Nat
    OBVIOUS
  <1>4. /\ \A i \in DOMAIN a : i \in DOMAIN all /\ all[i] = a[i]
        /\ \A i \in DOMAIN r : Len(a) + i \in DOMAIN all /\ all[Len(a) + i] = r[i]
        /\ \A i \in DOMAIN all : i \in Nat /\ (i \in DOMAIN a \/ \E k \in DOMAIN r : i = Len(a) + k)
    <2>1. all \in Seq(Jobs) /\ Len(all) = Len(a) + Len(r)
      BY <1>2
    <2>2. \A i \in DOMAIN all : \/ i \in DOMAIN a
                                \/ i - Len(a) \in DOMAIN r /\ i = Len(a) + (i - Len(a))
      BY <1>2
    <2>. QED BY <1>2, <2>1, <2>2
  <1>5. Len(q) + 1 \in DOMAIN a
    BY <1>2, <1>3
  <1>. HIDE DEF all
  <1>6. \A i \in DOMAIN r : Len(q) + 1 + i \in DOMAIN all /\ all[Len(q) + 1 + i] = r[i]
    BY <1>2, <1>4
  <1>7. \A i \in DOMAIN all : i \in Nat /\
             \/ i \in DOMAIN q
             \/ i = Len(q) + 1
             \/ \E k \in DOMAIN r : i = Len(q) + 1 + k
    BY <1>2, <1>4
  <1>. QED BY <1>2, <1>4, <1>5, <1>6, <1>7 DEF all, a, b

(* The invariant is what FlagsAreJobs says. *)
LEMMA FlagsHaveJobs == FlagInv => FlagsAreJobs
  <1>. SUFFICES ASSUME FlagInv PROVE FlagsAreJobs
    OBVIOUS
  <1>. DEFINE all == queue \o <<now>> \o ready
             With(f) == {i \in DOMAIN all : all[i].flag = f}
  <1>1. /\ queue \in Seq(Jobs) /\ now \in Jobs /\ ready \in Seq(Jobs)
        /\ Held(queue, now, ready, flags)
    BY DEF FlagInv, GuiType
  <1>2. /\ \A i \in DOMAIN queue : i \in DOMAIN all /\ all[i] = queue[i]
        /\ Len(queue) + 1 \in DOMAIN all /\ all[Len(queue) + 1] = now
        /\ \A i \in DOMAIN ready :
              Len(queue) + 1 + i \in DOMAIN all /\ all[Len(queue) + 1 + i] = ready[i]
        /\ \A i \in DOMAIN all : i \in Nat /\
              \/ i \in DOMAIN queue
              \/ i = Len(queue) + 1
              \/ \E k \in DOMAIN ready : i = Len(queue) + 1 + k
    BY <1>1, ThreeAsOne
  <1>. HIDE DEF all
  <1>3. \A i \in DOMAIN all : all[i].flag \in flags \cup {NoFlag}
    BY <1>1, <1>2 DEF Held, Raised
  <1>4. NoFlag \notin flags
    BY <1>1, GuiAssumption DEF Held
  <1>. SUFFICES ASSUME NEW f \in flags PROVE Cardinality(With(f)) = 1
    BY <1>3 DEF FlagsAreJobs, all
  <1>5. f # NoFlag
    BY <1>4
  <1>6. PICK i \in DOMAIN all : all[i].flag = f
    BY <1>1, <1>2 DEF Held, Owned
  <1>7. \A k \in DOMAIN all : all[k].flag = f => k = i
    <2>. SUFFICES ASSUME NEW k \in DOMAIN all, all[k].flag = f PROVE k = i
      OBVIOUS
    <2>1. /\ \A a, b \in DOMAIN queue : queue[a].flag = f /\ queue[b].flag = f => a = b
          /\ \A a, b \in DOMAIN ready : ready[a].flag = f /\ ready[b].flag = f => a = b
          /\ \A a \in DOMAIN queue, b \in DOMAIN ready : ~(queue[a].flag = f /\ ready[b].flag = f)
      BY <1>1, <1>5 DEF Held, Separate, Distinct
    <2>2. /\ \A a \in DOMAIN queue : ~(queue[a].flag = f /\ now.flag = f)
          /\ \A a \in DOMAIN ready : ~(ready[a].flag = f /\ now.flag = f)
      BY <1>1, <1>5 DEF Held, Separate
    <2>3. \A c \in DOMAIN all : all[c].flag = f =>
                \/ c \in DOMAIN queue /\ queue[c].flag = f
                \/ c = Len(queue) + 1 /\ now.flag = f
                \/ \E a \in DOMAIN ready : c = Len(queue) + 1 + a /\ ready[a].flag = f
      <3>. SUFFICES ASSUME NEW c \in DOMAIN all, all[c].flag = f,
                           ~(c \in DOMAIN queue), c # Len(queue) + 1
                    PROVE  \E a \in DOMAIN ready : c = Len(queue) + 1 + a /\ ready[a].flag = f
        BY <1>2
      <3>1. PICK a \in DOMAIN ready : c = Len(queue) + 1 + a
        BY <1>2
      <3>2. all[Len(queue) + 1 + a] = ready[a]
        BY <1>2
      <3>. QED BY <3>1, <3>2
    <2>. QED BY <1>6, <2>1, <2>2, <2>3
  <1>8. With(f) = {i}
    BY <1>6, <1>7
  <1>. QED BY <1>8, FS_Singleton

(* FlagsAreJobs: every flag that is up belongs to exactly one job, so a button  *)
(* that was greyed out comes back and no job of a kind is queued twice.        *)
THEOREM FlagsBelongToJobs == GuiSpec => []FlagsAreJobs
  <1>1. GuiInit => FlagInv
    BY InitFlags
  <1>2. FlagInv /\ [GuiNext]_window => FlagInv'
    BY NextFlags
  <1>3. FlagInv => FlagsAreJobs
    BY FlagsHaveJobs
  <1>. QED BY <1>1, <1>2, <1>3, PTL DEF GuiSpec

--------------------------------------------------------------------------------
(* The conversation *)

Alternates(c) == \A i \in DOMAIN c : c[i] = IF i % 2 = 1 THEN "user" ELSE "assistant"

(* A conversation ends with the user only while a reply is awaited, or while   *)
(* the callback that drops the turn is pending.                               *)
ChatInv ==
    ~parted =>
        /\ Alternates(chat)
        /\ now.kind = "chat" /\ now.ok => Len(chat) % 2 = 1
        /\ now.kind # "chat" /\ Len(chat) % 2 = 1 =>
              \E i \in DOMAIN ready : ready[i].kind = "chat" /\ ~ready[i].ok

(* One turn more, one turn less. *)
LEMMA Turns ==
  ASSUME NEW c \in Seq({"user", "assistant"}), Alternates(c)
  PROVE  /\ Len(c) % 2 \in {0, 1}
         /\ Len(c) % 2 = 0 => /\ Alternates(Append(c, "user"))
                              /\ Len(Append(c, "user")) % 2 = 1
         /\ Len(c) % 2 = 1 => /\ Alternates(Append(c, "assistant"))
                              /\ Len(Append(c, "assistant")) % 2 = 0
         /\ c # <<>> => /\ c[Len(c)] = "user" <=> Len(c) % 2 = 1
                        /\ Alternates(SubSeq(c, 1, Len(c) - 1))
                        /\ c[Len(c)] = "user" => Len(SubSeq(c, 1, Len(c) - 1)) % 2 = 0
         /\ Len(c) % 2 = 1 => c # <<>>
  <1>1. /\ Len(c) \in Nat /\ DOMAIN c = 1..Len(c)
        /\ Len(c) % 2 \in {0, 1}
        /\ Len(c) % 2 = 0 <=> (Len(c) + 1) % 2 = 1
        /\ Len(c) % 2 = 1 <=> (Len(c) + 1) % 2 = 0
        /\ Len(c) % 2 = 1 <=> (Len(c) - 1) % 2 = 0
    OBVIOUS
  <1>2. \A t \in {"user", "assistant"} :
          /\ Len(Append(c, t)) = Len(c) + 1 /\ DOMAIN Append(c, t) = 1..(Len(c) + 1)
          /\ Append(c, t)[Len(c) + 1] = t
          /\ \A i \in 1..Len(c) : Append(c, t)[i] = c[i]
    BY <1>1
  <1>3. Len(c) % 2 = 0 => /\ Alternates(Append(c, "user")) /\ Len(Append(c, "user")) % 2 = 1
    BY <1>1, <1>2 DEF Alternates
  <1>4. Len(c) % 2 = 1 => /\ Alternates(Append(c, "assistant"))
                         /\ Len(Append(c, "assistant")) % 2 = 0
    BY <1>1, <1>2 DEF Alternates
  <1>5. ASSUME c # <<>>
        PROVE  /\ c[Len(c)] = "user" <=> Len(c) % 2 = 1
               /\ Alternates(SubSeq(c, 1, Len(c) - 1))
               /\ c[Len(c)] = "user" => Len(SubSeq(c, 1, Len(c) - 1)) % 2 = 0
    <2>1. Len(c) \in DOMAIN c
      BY <1>1, <1>5
    <2>2. c[Len(c)] = "user" <=> Len(c) % 2 = 1
      BY <2>1 DEF Alternates
    <2>3. /\ Len(SubSeq(c, 1, Len(c) - 1)) = Len(c) - 1
          /\ DOMAIN SubSeq(c, 1, Len(c) - 1) = 1..(Len(c) - 1)
          /\ \A i \in 1..(Len(c) - 1) : SubSeq(c, 1, Len(c) - 1)[i] = c[i]
      BY <1>1, <2>1
    <2>4. Alternates(SubSeq(c, 1, Len(c) - 1))
      <3>. DEFINE d == SubSeq(c, 1, Len(c) - 1)
      <3>1. \A i \in DOMAIN d : i \in DOMAIN c /\ d[i] = c[i]
        BY <1>1, <2>3
      <3>. HIDE DEF d
      <3>. QED BY <3>1 DEF Alternates
    <2>. QED BY <1>1, <2>2, <2>3, <2>4
  <1>6. Len(c) % 2 = 1 => c # <<>>
    OBVIOUS
  <1>. QED BY <1>1, <1>3, <1>4, <1>5, <1>6

LEMMA InitChat == GuiInit => ChatInv
  <1>. SUFFICES ASSUME GuiInit PROVE ChatInv
    OBVIOUS
  <1>1. chat = <<>> /\ now.kind = "none"
    BY DEF GuiInit, NoJob, Job
  <1>2. Alternates(chat) /\ Len(chat) % 2 = 0
    BY <1>1 DEF Alternates
  <1>. QED BY <1>1, <1>2 DEF ChatInv

LEMMA TakeChat == FlagInv /\ ChatInv /\ Take2 => ChatInv'
  <1>. SUFFICES ASSUME FlagInv, ChatInv, Take2, ~parted' PROVE ChatInv'
    BY DEF ChatInv
  <1>. DEFINE j == Head(queue)
  <1>1. /\ queue \in Seq(Jobs) /\ queue # <<>> /\ now = NoJob /\ ready \in Seq(Jobs)
        /\ Held(queue, now, ready, flags) /\ ~parted /\ ready' = ready /\ parted' = parted
        /\ chat \in Seq({"user", "assistant"})
    BY DEF FlagInv, GuiType, Take2
  <1>2. now.kind = "none" /\ Alternates(chat)
    BY <1>1 DEF NoJob, Job, ChatInv
  <1>3. j \in JobSet /\ Proper(j) /\ 1 \in DOMAIN queue /\ queue[1] = j
    BY <1>1, TailFacts DEF Jobs
  <1>4. CASE j.kind = "chat"
    <2>1. Len(chat) % 2 = 0
      <3>1. \A i \in DOMAIN ready : ready[i].kind # "chat"
        <4>1. \A i \in DOMAIN ready : Proper(ready[i])
          BY <1>1 DEF Jobs
        <4>2. \A i \in DOMAIN ready : ready[i].flag # j.flag
          <5>1. j.flag = "_chat_running" /\ j.flag # NoFlag
            BY <1>3, <1>4, GuiAssumption DEF Proper, Flags
          <5>. QED BY <1>1, <1>3, <5>1 DEF Held, Separate
        <4>. QED BY <1>3, <1>4, <4>1, <4>2 DEF Proper
      <3>. QED BY <1>1, <1>2, <3>1, Turns DEF ChatInv
    <2>2. \/ now' = j /\ chat' = Append(chat, "user")
          \/ now' = [j EXCEPT !.ok = FALSE] /\ chat' = chat
      BY <1>4 DEF Take2, j
    <2>3. CASE now' = j /\ chat' = Append(chat, "user")
      BY <1>1, <1>2, <1>4, <2>1, <2>3, Turns DEF ChatInv
    <2>4. CASE now' = [j EXCEPT !.ok = FALSE] /\ chat' = chat
      <3>1. now'.ok = FALSE /\ now'.kind = "chat"
        BY <1>3, <1>4, <2>4 DEF JobSet
      <3>. QED BY <1>2, <2>4, <3>1 DEF ChatInv
    <2>. QED BY <2>2, <2>3, <2>4
  <1>5. CASE j.kind # "chat"
    <2>1. chat' = chat
      BY <1>5 DEF Take2, j
    <2>2. now'.kind # "chat"
      <3>1. now' \in {j, [j EXCEPT !.data = changes], [j EXCEPT !.data = memory.url]}
        BY <1>5 DEF Take2, j
      <3>. HIDE DEF j
      <3>. QED BY <1>3, <1>5, <3>1 DEF JobSet
    <2>. QED BY <1>1, <1>2, <2>1, <2>2 DEF ChatInv
  <1>. QED BY <1>4, <1>5

LEMMA FinishChat == FlagInv /\ ChatInv /\ Finish => ChatInv'
  <1>. SUFFICES ASSUME FlagInv, ChatInv, Finish, ~parted' PROVE ChatInv'
    BY DEF ChatInv
  <1>1. PICK ok \in {now.ok, FALSE} :
          /\ ready' = Append(ready, [now EXCEPT !.ok = ok])
          /\ chat' = IF now.kind = "chat" /\ ok THEN Append(chat, "assistant") ELSE chat
    BY DEF Finish
  <1>. DEFINE m == [now EXCEPT !.ok = ok]
  <1>2. m.kind = now.kind /\ m.ok = ok
    BY DEF FlagInv, GuiType, Jobs, JobSet
  <1>. HIDE DEF m
  <1>3. /\ \A i \in DOMAIN ready : i \in DOMAIN ready' /\ ready'[i] = ready[i]
        /\ \E i \in DOMAIN ready' : ready'[i] = m
    <2>1. ready \in Seq(Jobs) /\ ready' = Append(ready, m) /\ Len(ready) \in Nat
      BY <1>1 DEF FlagInv, GuiType, m
    <2>2. Len(ready) + 1 \in DOMAIN ready' /\ ready'[Len(ready) + 1] = m
      BY <2>1
    <2>. QED BY <2>1, <2>2
  <1>4. ~parted /\ now'.kind = "none" /\ Alternates(chat) /\ chat \in Seq({"user", "assistant"})
    BY DEF Finish, NoJob, Job, ChatInv, FlagInv, GuiType
  <1>5. CASE now.kind = "chat" /\ ok
    <2>1. Len(chat) % 2 = 1
      BY <1>1, <1>4, <1>5 DEF ChatInv
    <2>2. chat' = Append(chat, "assistant")
      BY <1>1, <1>5
    <2>3. /\ Alternates(Append(chat, "assistant"))
          /\ Len(Append(chat, "assistant")) % 2 = 0
      BY <1>4, <2>1, Turns
    <2>4. Alternates(chat') /\ Len(chat') % 2 = 0
      BY <2>2, <2>3
    <2>. QED BY <1>4, <2>4 DEF ChatInv
  <1>6. CASE now.kind = "chat" /\ ~ok
    BY <1>1, <1>2, <1>3, <1>4, <1>6 DEF ChatInv
  <1>7. CASE now.kind # "chat"
    BY <1>1, <1>3, <1>4, <1>7 DEF ChatInv
  <1>. QED BY <1>5, <1>6, <1>7

LEMMA CallbackChat == FlagInv /\ ChatInv /\ Callback => ChatInv'
  <1>. SUFFICES ASSUME FlagInv, ChatInv, Callback, ~parted' PROVE ChatInv'
    BY DEF ChatInv
  <1>. DEFINE j == Head(ready)
  <1>1. /\ ready \in Seq(Jobs) /\ ready # <<>> /\ ready' = Tail(ready)
        /\ Held(queue, now, ready, flags) /\ ~parted /\ now' = now /\ parted' = parted
        /\ chat' = Answered(j) /\ chat \in Seq({"user", "assistant"})
    BY DEF FlagInv, GuiType, Callback
  <1>2. /\ j \in Jobs /\ 1 \in DOMAIN ready /\ ready[1] = j
        /\ \A i \in DOMAIN ready : i # 1 => i - 1 \in DOMAIN ready' /\ ready'[i - 1] = ready[i]
    BY <1>1, TailFacts
  <1>3. Alternates(chat)
    BY <1>1 DEF ChatInv
  <1>. HIDE DEF j
  <1>4. CASE j.kind = "chat"
    <2>1. j.flag = "_chat_running" /\ j.flag # NoFlag
      BY <1>2, <1>4, GuiAssumption DEF Jobs, Proper, Flags
    <2>2. now.kind # "chat"
      <3>1. Proper(now)
        BY DEF FlagInv, GuiType, Jobs
      <3>. QED BY <1>1, <1>2, <2>1, <3>1 DEF Held, Separate, Proper
    <2>3. j.ok => Len(chat) % 2 = 0
      <3>. SUFFICES ASSUME j.ok, Len(chat) % 2 = 1 PROVE FALSE
        BY <1>1, <1>3, Turns
      <3>1. PICK i \in DOMAIN ready : ready[i].kind = "chat" /\ ~ready[i].ok
        BY <1>1, <2>2 DEF ChatInv
      <3>2. ready[i].flag = j.flag
        BY <1>1, <2>1, <3>1 DEF Jobs, Proper
      <3>3. i = 1
        BY <1>1, <1>2, <2>1, <3>2 DEF Held, Separate, Distinct
      <3>. QED BY <1>2, <3>1, <3>3
    <2>4. Alternates(chat') /\ Len(chat') % 2 = 0
      <3>1. CASE ~j.ok /\ chat # <<>> /\ chat[Len(chat)] = "user"
        <4>1. chat' = SubSeq(chat, 1, Len(chat) - 1)
          BY <1>1, <1>4, <3>1 DEF Answered
        <4>2. /\ Alternates(SubSeq(chat, 1, Len(chat) - 1))
              /\ Len(SubSeq(chat, 1, Len(chat) - 1)) % 2 = 0
          BY <1>1, <1>3, <3>1, Turns
        <4>. QED BY <4>1, <4>2
      <3>2. CASE ~(~j.ok /\ chat # <<>> /\ chat[Len(chat)] = "user")
        <4>1. chat' = chat
          BY <1>1, <3>2 DEF Answered
        <4>. QED BY <1>1, <1>3, <2>3, <3>2, <4>1, Turns
      <3>. QED BY <3>1, <3>2
    <2>. QED BY <1>1, <2>2, <2>4 DEF ChatInv
  <1>5. CASE j.kind # "chat"
    <2>1. chat' = chat
      BY <1>1, <1>5 DEF Answered
    <2>2. \A i \in DOMAIN ready : ready[i].kind = "chat" =>
              \E k \in DOMAIN ready' : ready'[k] = ready[i]
      BY <1>2, <1>5
    <2>. QED BY <1>1, <1>3, <2>1, <2>2 DEF ChatInv
  <1>. QED BY <1>4, <1>5

LEMMA NewChatChat == FlagInv /\ ChatInv /\ NewChat => ChatInv'
  <1>. SUFFICES ASSUME FlagInv, NewChat, ~parted' PROVE ChatInv'
    BY DEF ChatInv
  <1>1. chat' = <<>> /\ now' = now /\ "_chat_running" \notin flags
    BY DEF NewChat
  <1>2. now.kind # "chat"
    <2>1. now.flag \in flags \cup {NoFlag} /\ Proper(now)
      BY DEF FlagInv, GuiType, Held, Raised, Jobs
    <2>. QED BY <1>1, <2>1, GuiAssumption DEF Proper, Flags
  <1>3. Alternates(chat') /\ Len(chat') % 2 = 0
    BY <1>1 DEF Alternates
  <1>. QED BY <1>1, <1>2, <1>3 DEF ChatInv

LEMMA NextChat == FlagInv /\ ChatInv /\ [GuiNext]_window => ChatInv'
  <1>1. ChatInv /\ UNCHANGED <<now, ready, chat, parted>> => ChatInv'
    BY DEF ChatInv
  <1>2. \/ Tick \/ PressRefresh \/ Act \/ SaveSettings \/ ChooseModel \/ SendChat
        \/ UNCHANGED window
        => UNCHANGED <<now, ready, chat, parted>>
    BY DEF Tick, PressRefresh, Act, SaveSettings, ChooseModel, SendChat, window
  <1>. QED BY <1>1, <1>2, TakeChat, FinishChat, CallbackChat, NewChatChat DEF GuiNext

LEMMA ChatIsWhole == FlagInv /\ ChatInv => ChatAlternates
  <1>. SUFFICES ASSUME FlagInv, ChatInv, "_chat_running" \notin flags, ~parted
                PROVE  Alternates(chat) /\ Len(chat) % 2 = 0
    BY DEF ChatAlternates, Alternates
  <1>1. /\ now.flag \in flags \cup {NoFlag} /\ Proper(now)
        /\ \A i \in DOMAIN ready : ready[i].flag \in flags \cup {NoFlag} /\ Proper(ready[i])
    BY DEF FlagInv, GuiType, Held, Raised, Jobs
  <1>2. now.kind # "chat" /\ \A i \in DOMAIN ready : ready[i].kind # "chat"
    BY <1>1, GuiAssumption DEF Proper, Flags
  <1>3. chat \in Seq({"user", "assistant"})
    BY DEF FlagInv, GuiType
  <1>. QED BY <1>2, <1>3, Turns DEF ChatInv

(* ChatAlternates: a conversation that waits for no reply alternates and ends   *)
(* with a reply.                                                             *)
THEOREM ConversationAlternates == GuiSpec => []ChatAlternates
  <1>1. GuiInit => FlagInv /\ ChatInv
    BY InitFlags, InitChat
  <1>2. FlagInv /\ ChatInv /\ [GuiNext]_window => (FlagInv /\ ChatInv)'
    BY NextFlags, NextChat
  <1>3. FlagInv /\ ChatInv => ChatAlternates
    BY ChatIsWhole
  <1>. QED BY <1>1, <1>2, <1>3, PTL DEF GuiSpec

--------------------------------------------------------------------------------
(* Jobs that wait stay where they are when others are added. *)
LEMMA SubmitKeeps ==
  ASSUME FlagInv, NEW up, NEW new \in Seq(Jobs), Submit(up, new)
  PROVE  \A i \in DOMAIN queue : i \in DOMAIN queue' /\ queue'[i] = queue[i]
  BY DEF FlagInv, GuiType, Submit

(* What handlers and callbacks submit are jobs. *)
LEMMA HandlersKeep ==
  FlagInv /\ (Tick \/ PressRefresh \/ Act \/ SaveSettings \/ ChooseModel \/ SendChat \/ Callback)
  => \A i \in DOMAIN queue : i \in DOMAIN queue' /\ queue'[i] = queue[i]
  <1>. SUFFICES ASSUME FlagInv,
                       Tick \/ PressRefresh \/ Act \/ SaveSettings \/ ChooseModel \/ SendChat \/ Callback
                PROVE  \A i \in DOMAIN queue : i \in DOMAIN queue' /\ queue'[i] = queue[i]
    OBVIOUS
  <1>1. \A full \in BOOLEAN : /\ RefreshJobs(flags, full) \in Seq(Jobs)
                             /\ RefreshJobs(flags, full) \o PageJobs(flags) \in Seq(Jobs)
    BY RefreshIsFresh, BothAreFresh
  <1>2. \A j \in Jobs : <<j>> \in Seq(Jobs)
    OBVIOUS
  <1>3. CASE Tick
    BY <1>1, <1>3, SubmitKeeps DEF Tick
  <1>4. CASE PressRefresh
    BY <1>1, <1>4, SubmitKeeps DEF PressRefresh
  <1>5. CASE Act
    BY <1>2, <1>5, JobsAreProper, SubmitKeeps DEF Act
  <1>6. CASE SaveSettings
    <2>1. \/ queue' = queue
          \/ Submit(flags, RefreshJobs(flags, TRUE))
          \/ Submit(flags, <<Job("reconnect", "_settings_saving", 0)>>)
      BY <1>6 DEF SaveSettings
    <2>2. Job("reconnect", "_settings_saving", 0) \in Jobs
      BY JobsAreProper
    <2>. QED BY <1>1, <1>2, <2>1, <2>2, SubmitKeeps
  <1>7. CASE ChooseModel
    BY <1>2, <1>7, JobsAreProper, SubmitKeeps DEF ChooseModel
  <1>8. CASE SendChat
    <2>1. PICK d \in {0, 1} : Submit(flags, <<Job("chat", "_chat_running", d)>>)
      BY <1>8 DEF SendChat
    <2>2. Job("chat", "_chat_running", d) \in Jobs
      BY JobsAreProper
    <2>. QED BY <1>2, <2>1, <2>2, SubmitKeeps
  <1>9. CASE Callback
    <2>. DEFINE j == Head(ready)  up == flags \ {j.flag}
    <2>1. j \in Jobs /\ Submit(up, FollowUp(up, j))
      BY <1>9, TailFacts DEF Callback, FlagInv, GuiType
    <2>2. FollowUp(up, j) \in Seq(Jobs)
      BY <2>1, FollowUpIsFresh
    <2>. QED BY <2>1, <2>2, SubmitKeeps
  <1>. QED BY <1>3, <1>4, <1>5, <1>6, <1>7, <1>8, <1>9

--------------------------------------------------------------------------------
(* The settings *)

(* A reconnect is on its way. *)
Reconnecting(q, n) == n.kind = "reconnect" \/ \E i \in DOMAIN q : q[i].kind = "reconnect"

(* A query keeps the address it will put back. *)
SettingsInv ==
    /\ ~crossed => disk2 = IF now.kind = "ollama" THEN [memory EXCEPT !.url = now.data] ELSE memory
    /\ link2 \in {NoFlag, memory.host} \/ Reconnecting(queue, now)

LEMMA InitSettings == GuiInit => SettingsInv
  BY DEF GuiInit, SettingsInv, NoJob, Job

LEMMA SaveKeeps == FlagInv /\ SettingsInv /\ SaveSettings => SettingsInv'
  <1>. SUFFICES ASSUME FlagInv, SettingsInv, SaveSettings PROVE SettingsInv'
    OBVIOUS
  <1>1. \A i \in DOMAIN queue : i \in DOMAIN queue' /\ queue'[i] = queue[i]
    BY HandlersKeep
  <1>2. now' = now /\ link2' = link2
    BY DEF SaveSettings
  <1>3. CASE UNCHANGED <<memory, disk2, queue, crossed>>
    BY <1>2, <1>3 DEF SettingsInv, Reconnecting
  <1>4. CASE memory' = disk2' /\ crossed' = (now.kind = "ollama") /\ memory'.host = memory.host
    BY <1>1, <1>2, <1>4 DEF SettingsInv, Reconnecting
  <1>5. CASE memory' = disk2' /\ crossed' = (now.kind = "ollama")
             /\ Submit(flags, <<Job("reconnect", "_settings_saving", 0)>>)
    <2>. DEFINE j == Job("reconnect", "_settings_saving", 0)
    <2>1. j \in Jobs /\ j.kind = "reconnect" /\ queue' = queue \o <<j>> /\ queue \in Seq(Jobs)
      BY <1>5, JobsAreProper DEF Job, Submit, FlagInv, GuiType
    <2>. HIDE DEF j
    <2>2. Len(queue) + 1 \in DOMAIN queue' /\ queue'[Len(queue) + 1] = j
      BY <2>1
    <2>. QED BY <1>2, <1>5, <2>1, <2>2 DEF SettingsInv, Reconnecting
  <1>6. PICK typed \in Settings :
         \/ Rollback(typed) /\ UNCHANGED <<disk2, queue, flags, crossed>>
         \/ /\ memory' = typed /\ disk2' = typed
            /\ crossed' = (now.kind = "ollama")
            /\ typed.host # memory.host => Submit(flags, <<Job("reconnect", "_settings_saving", 0)>>)
    BY DEF SaveSettings
  <1>. QED BY <1>3, <1>4, <1>5, <1>6 DEF Rollback

LEMMA TakeKeeps == FlagInv /\ SettingsInv /\ Take2 => SettingsInv'
  <1>. SUFFICES ASSUME FlagInv, SettingsInv, Take2 PROVE SettingsInv'
    OBVIOUS
  <1>. DEFINE j == Head(queue)
  <1>1. /\ queue \in Seq(Jobs) /\ queue # <<>> /\ queue' = Tail(queue)
        /\ UNCHANGED <<disk2, crossed>> /\ memory \in Settings
    BY DEF FlagInv, GuiType, Take2
  <1>2. now.kind = "none"
    BY DEF Take2, NoJob, Job
  <1>3. /\ j \in JobSet /\ 1 \in DOMAIN queue /\ queue[1] = j
        /\ \A i \in DOMAIN queue : i # 1 => i - 1 \in DOMAIN queue' /\ queue'[i - 1] = queue[i]
    BY <1>1, TailFacts DEF Jobs
  <1>. HIDE DEF j
  <1>4. Reconnecting(queue, now) => j.kind = "reconnect" \/ \E i \in DOMAIN queue' : queue'[i].kind = "reconnect"
    BY <1>2, <1>3 DEF Reconnecting
  <1>5. CASE j.kind = "ollama"
    <2>1. now' = [j EXCEPT !.data = memory.url] /\ memory' = [memory EXCEPT !.url = j.data]
          /\ link2' = link2
      BY <1>5 DEF Take2, j, Swap
    <2>2. now'.kind = "ollama" /\ now'.data = memory.url
      BY <1>3, <1>5, <2>1 DEF JobSet
    <2>3. memory'.host = memory.host /\ [memory' EXCEPT !.url = memory.url] = memory
      BY <1>1, <2>1 DEF Settings
    <2>4. ~crossed => disk2 = memory
      BY <1>2 DEF SettingsInv
    <2>5. ~crossed' => disk2' = [memory' EXCEPT !.url = now'.data]
      BY <1>1, <2>2, <2>3, <2>4
    <2>. QED BY <1>4, <1>5, <2>1, <2>2, <2>3, <2>5 DEF SettingsInv, Reconnecting
  <1>6. CASE j.kind # "ollama"
    <2>1. now' \in {j, [j EXCEPT !.ok = FALSE], [j EXCEPT !.data = changes]} /\ memory' = memory
      BY <1>6 DEF Take2, j
    <2>2. now'.kind = j.kind
      BY <1>3, <2>1 DEF JobSet
    <2>3. link2' \in {link2, memory.host} /\ (link2' # link2 => link2 = NoFlag)
      BY <1>6 DEF Take2, j
    <2>. QED BY <1>1, <1>2, <1>4, <1>6, <2>1, <2>2, <2>3 DEF SettingsInv, Reconnecting
  <1>. QED BY <1>5, <1>6

LEMMA FinishKeeps == FlagInv /\ SettingsInv /\ Finish => SettingsInv'
  <1>. SUFFICES ASSUME FlagInv, SettingsInv, Finish PROVE SettingsInv'
    OBVIOUS
  <1>1. now'.kind = "none" /\ UNCHANGED <<queue, disk2, crossed>> /\ memory \in Settings
    BY DEF Finish, NoJob, Job, FlagInv, GuiType
  <1>2. memory' = IF now.kind = "ollama" THEN [memory EXCEPT !.url = now.data] ELSE memory
    BY DEF Finish, Swap
  <1>3. memory'.host = memory.host
    BY <1>1, <1>2 DEF Settings
  <1>4. link2' = IF now.kind = "reconnect" THEN NoFlag ELSE link2
    BY DEF Finish
  <1>. QED BY <1>1, <1>2, <1>3, <1>4 DEF SettingsInv, Reconnecting

LEMMA NextSettings == FlagInv /\ SettingsInv /\ [GuiNext]_window => SettingsInv'
  <1>. SUFFICES ASSUME FlagInv, SettingsInv, [GuiNext]_window PROVE SettingsInv'
    OBVIOUS
  <1>1. CASE Tick \/ PressRefresh \/ Act \/ ChooseModel \/ SendChat \/ Callback
    <2>1. \A i \in DOMAIN queue : i \in DOMAIN queue' /\ queue'[i] = queue[i]
      BY <1>1, HandlersKeep
    <2>2. UNCHANGED <<now, memory, disk2, link2, crossed>>
      BY <1>1 DEF Tick, PressRefresh, Act, ChooseModel, SendChat, Callback
    <2>. QED BY <2>1, <2>2 DEF SettingsInv, Reconnecting
  <1>2. CASE NewChat \/ UNCHANGED window
    BY <1>2 DEF SettingsInv, Reconnecting, NewChat, window
  <1>. QED BY <1>1, <1>2, SaveKeeps, TakeKeeps, FinishKeeps DEF GuiNext

LEMMA SettingsAreKept == FlagInv /\ SettingsInv => SettingsKept
  <1>. SUFFICES ASSUME FlagInv, SettingsInv PROVE SettingsKept
    OBVIOUS
  <1>1. /\ now.flag \in flags \cup {NoFlag} /\ Proper(now)
        /\ \A i \in DOMAIN queue : queue[i].flag \in flags \cup {NoFlag} /\ Proper(queue[i])
    BY DEF FlagInv, GuiType, Held, Raised, Jobs
  <1>2. "_settings_saving" \notin flags => ~Reconnecting(queue, now)
    BY <1>1, GuiAssumption DEF Proper, Flags, Reconnecting
  <1>. QED BY <1>2 DEF SettingsInv, SettingsKept

(* SettingsKept: between two jobs the settings in use are the saved ones, and a  *)
(* connection that outlives the reconnect leads to the host they name.         *)
THEOREM SettingsStayInUse == GuiSpec => []SettingsKept
  <1>1. GuiInit => FlagInv /\ SettingsInv
    BY InitFlags, InitSettings
  <1>2. FlagInv /\ SettingsInv /\ [GuiNext]_window => (FlagInv /\ SettingsInv)'
    BY NextFlags, NextSettings
  <1>3. FlagInv /\ SettingsInv => SettingsKept
    BY SettingsAreKept
  <1>. QED BY <1>1, <1>2, <1>3, PTL DEF GuiSpec

--------------------------------------------------------------------------------
(* The status on view *)

(* A fresh status is on its way, or a callback that will ask for one. *)
Coming(q, n, r) ==
    \/ n.kind = "status"
    \/ \E i \in DOMAIN q : q[i].kind = "status"
    \/ \E i \in DOMAIN r : r[i].kind \in {"status", "action", "reconnect"}

(* A status that was outrun has the callback of what outran it behind it. *)
OutrunIn(r) ==
    \A i \in DOMAIN r : r[i].kind = "status" /\ r[i].data # changes =>
        \E k \in DOMAIN r : k > i /\ r[k].kind \in {"action", "reconnect"}

ShownInv ==
    /\ now.kind = "status" => now.data = changes
    /\ OutrunIn(ready)
    /\ shown.ok /\ shown.of # changes => Coming(queue, now, ready)

LEMMA InitShown == GuiInit => ShownInv
  BY DEF GuiInit, ShownInv, OutrunIn, NoJob, Job

LEMMA TakeShown == FlagInv /\ ShownInv /\ Take2 => ShownInv'
  <1>. SUFFICES ASSUME FlagInv, ShownInv, Take2 PROVE ShownInv'
    OBVIOUS
  <1>. DEFINE j == Head(queue)
  <1>1. /\ queue \in Seq(Jobs) /\ queue # <<>> /\ queue' = Tail(queue)
        /\ UNCHANGED <<ready, changes, shown>>
    BY DEF FlagInv, GuiType, Take2
  <1>2. now.kind = "none"
    BY DEF Take2, NoJob, Job
  <1>3. /\ j \in JobSet /\ 1 \in DOMAIN queue /\ queue[1] = j
        /\ \A i \in DOMAIN queue : i # 1 => i - 1 \in DOMAIN queue' /\ queue'[i - 1] = queue[i]
    BY <1>1, TailFacts DEF Jobs
  <1>4. /\ j.kind = "status" => now' = [j EXCEPT !.data = changes]
        /\ now' \in {j, [j EXCEPT !.ok = FALSE], [j EXCEPT !.data = changes], [j EXCEPT !.data = memory.url]}
    BY DEF Take2
  <1>. HIDE DEF j
  <1>5. now'.kind = j.kind /\ (j.kind = "status" => now'.data = changes)
    BY <1>3, <1>4 DEF JobSet
  <1>6. Coming(queue, now, ready) => Coming(queue', now', ready')
    BY <1>1, <1>2, <1>3, <1>5 DEF Coming
  <1>. QED BY <1>1, <1>5, <1>6 DEF ShownInv, OutrunIn

LEMMA FinishShown == FlagInv /\ ShownInv /\ Finish => ShownInv'
  <1>. SUFFICES ASSUME FlagInv, ShownInv, Finish PROVE ShownInv'
    OBVIOUS
  <1>1. PICK ok \in {now.ok, FALSE} : ready' = Append(ready, [now EXCEPT !.ok = ok])
    BY DEF Finish
  <1>. DEFINE m == [now EXCEPT !.ok = ok]
  <1>2. m.kind = now.kind /\ m.data = now.data
    BY DEF FlagInv, GuiType, Jobs, JobSet
  <1>3. ready' = Append(ready, m)
    BY <1>1
  <1>. HIDE DEF m
  <1>4. /\ \A i \in DOMAIN ready : i \in DOMAIN ready' /\ ready'[i] = ready[i]
        /\ \A i \in DOMAIN ready : Len(ready) + 1 > i
        /\ \A i \in DOMAIN ready' : i \in DOMAIN ready \/ ready'[i] = m
        /\ Len(ready) + 1 \in DOMAIN ready' /\ ready'[Len(ready) + 1] = m
    <2>1. ready \in Seq(Jobs) /\ Len(ready) \in Nat
      BY DEF FlagInv, GuiType
    <2>. QED BY <1>3, <2>1
  <1>5. now'.kind = "none" /\ UNCHANGED <<queue, shown>>
    BY DEF Finish, NoJob, Job
  <1>6. CASE now.kind \in {"action", "reconnect"}
    <2>1. \A i \in DOMAIN ready' : ready'[i].kind = "status" => i \in DOMAIN ready
      BY <1>2, <1>4, <1>6
    <2>2. OutrunIn(ready)'
      BY <1>2, <1>4, <1>6, <2>1 DEF OutrunIn
    <2>3. Coming(queue', now', ready')
      BY <1>2, <1>4, <1>6 DEF Coming
    <2>. QED BY <1>5, <2>2, <2>3 DEF ShownInv
  <1>7. CASE now.kind \notin {"action", "reconnect"}
    <2>1. changes' = changes
      BY <1>7 DEF Finish
    <2>2. now.kind = "status" => m.data = changes
      BY <1>2 DEF ShownInv
    <2>3. OutrunIn(ready)'
      BY <1>2, <1>4, <2>1, <2>2 DEF OutrunIn, ShownInv
    <2>4. Coming(queue, now, ready) => Coming(queue', now', ready')
      BY <1>2, <1>4, <1>5 DEF Coming
    <2>. QED BY <1>5, <2>1, <2>3, <2>4 DEF ShownInv
  <1>. QED BY <1>6, <1>7

LEMMA CallbackShown == FlagInv /\ ShownInv /\ Callback => ShownInv'
  <1>. SUFFICES ASSUME FlagInv, ShownInv, Callback PROVE ShownInv'
    OBVIOUS
  <1>. DEFINE j == Head(ready)  up == flags \ {j.flag}
  <1>1. /\ queue \in Seq(Jobs) /\ now \in Jobs /\ ready \in Seq(Jobs) /\ ready # <<>>
        /\ ready' = Tail(ready) /\ UNCHANGED <<now, changes>>
        /\ Held(queue, now, ready, flags) /\ Submit(up, FollowUp(up, j))
    BY DEF FlagInv, GuiType, Callback
  <1>2. /\ j \in Jobs /\ 1 \in DOMAIN ready /\ ready[1] = j /\ ready' \in Seq(Jobs)
        /\ \A i \in DOMAIN ready' : i + 1 \in DOMAIN ready /\ i + 1 # 1 /\ ready'[i] = ready[i + 1]
        /\ \A i \in DOMAIN ready : i # 1 => i - 1 \in DOMAIN ready' /\ ready'[i - 1] = ready[i]
    BY <1>1, TailFacts
  <1>3. \A i \in DOMAIN queue : i \in DOMAIN queue' /\ queue'[i] = queue[i]
    BY HandlersKeep
  <1>4. /\ j.kind # "status" => shown' = shown
        /\ j.kind = "status" /\ j.ok => shown' = [of |-> j.data, ok |-> TRUE]
        /\ j.kind = "status" /\ ~j.ok => shown' = [shown EXCEPT !.ok = FALSE]
    BY DEF Callback
  <1>5. Held(queue, now, ready', up)
    BY <1>1, CallbackHolds
  <1>6. DOMAIN ready \subseteq Nat /\ DOMAIN ready' \subseteq Nat
    BY <1>1, <1>2
  <1>7. OutrunIn(ready)'
    <2>. SUFFICES ASSUME NEW i \in DOMAIN ready', ready'[i].kind = "status", ready'[i].data # changes
                  PROVE  \E k \in DOMAIN ready' : k > i /\ ready'[k].kind \in {"action", "reconnect"}
      BY <1>1 DEF OutrunIn
    <2>1. PICK k \in DOMAIN ready : k > i + 1 /\ ready[k].kind \in {"action", "reconnect"}
      BY <1>2 DEF ShownInv, OutrunIn
    <2>2. k # 1 /\ k - 1 > i
      BY <1>6, <2>1
    <2>. QED BY <1>2, <2>1, <2>2
  <1>8. shown'.ok /\ shown'.of # changes => Coming(queue', now', ready')
    <2>. SUFFICES ASSUME shown'.ok, shown'.of # changes PROVE Coming(queue', now', ready')
      OBVIOUS
    <2>1. CASE j.kind = "status"
      <3>1. j.ok /\ shown'.of = j.data
        <4>1. shown \in [of : Nat \cup Addresses, ok : BOOLEAN]
          BY DEF FlagInv, GuiType
        <4>. HIDE DEF j
        <4>. QED BY <1>4, <2>1, <4>1
      <3>2. PICK k \in DOMAIN ready : k > 1 /\ ready[k].kind \in {"action", "reconnect"}
        BY <1>2, <2>1, <3>1 DEF ShownInv, OutrunIn
      <3>3. k # 1
        BY <3>2
      <3>. QED BY <1>2, <3>2, <3>3 DEF Coming
    <2>2. CASE j.kind \in {"action", "reconnect"}
      <3>1. CASE "_refreshing" \in up
        <4>1. "_refreshing" # NoFlag
          BY GuiAssumption DEF Flags
        <4>2. \/ now.flag = "_refreshing"
              \/ \E i \in DOMAIN queue : queue[i].flag = "_refreshing"
              \/ \E i \in DOMAIN ready' : ready'[i].flag = "_refreshing"
          BY <1>5, <3>1 DEF Held, Owned
        <4>3. /\ Proper(now) /\ \A i \in DOMAIN queue : Proper(queue[i])
              /\ \A i \in DOMAIN ready' : Proper(ready'[i])
          BY <1>1, <1>2 DEF Jobs
        <4>. QED BY <1>1, <1>3, <4>2, <4>3 DEF Coming, Proper
      <3>2. CASE "_refreshing" \notin up
        <4>1. PICK full \in BOOLEAN, rest \in Seq(Jobs) : FollowUp(up, j) = <<Status(full)>> \o rest
          <5>1. j.ok \in BOOLEAN /\ PageJobs(up) \in Seq(Jobs) /\ <<>> \in Seq(Jobs)
            BY <1>2, PageIsFresh DEF Jobs, JobSet
          <5>2. \A full \in BOOLEAN : RefreshJobs(up, full) = <<Status(full)>>
            BY <3>2 DEF RefreshJobs
          <5>3. \A full \in BOOLEAN : <<Status(full)>> = <<Status(full)>> \o <<>>
            BY JobsAreProper
          <5>. HIDE DEF j, up
          <5>4. \/ FollowUp(up, j) = RefreshJobs(up, j.ok) \o PageJobs(up)
                \/ FollowUp(up, j) = RefreshJobs(up, j.ok) \o <<>>
                \/ FollowUp(up, j) = RefreshJobs(up, TRUE)
            BY <2>2 DEF FollowUp
          <5>5. \/ FollowUp(up, j) = <<Status(j.ok)>> \o PageJobs(up)
                \/ FollowUp(up, j) = <<Status(j.ok)>> \o <<>>
                \/ FollowUp(up, j) = <<Status(TRUE)>> \o <<>>
            BY <5>1, <5>2, <5>3, <5>4
          <5>. QED BY <5>1, <5>5
        <4>2. Status(full) \in Jobs /\ Status(full).kind = "status"
          BY JobsAreProper DEF Status, Job
        <4>. DEFINE s == Status(full)  new == <<s>> \o rest
        <4>3. queue' = queue \o new
          BY <1>1, <4>1 DEF Submit
        <4>. HIDE DEF s
        <4>4. s \in Jobs /\ s.kind = "status"
          BY <4>2 DEF s
        <4>5. new \in Seq(Jobs) /\ 1 \in DOMAIN new /\ new[1] = s
          BY <4>1, <4>4
        <4>. HIDE DEF new
        <4>6. Len(queue) + 1 \in DOMAIN queue' /\ queue'[Len(queue) + 1] = s
          BY <1>1, <4>3, <4>5
        <4>. QED BY <4>4, <4>6 DEF Coming
      <3>. QED BY <3>1, <3>2
    <2>3. CASE j.kind \notin {"status", "action", "reconnect"}
      <3>1. Coming(queue, now, ready)
        BY <1>4, <2>3 DEF ShownInv
      <3>. HIDE DEF j
      <3>. QED BY <1>1, <1>2, <1>3, <2>3, <3>1 DEF Coming
    <2>. HIDE DEF j
    <2>. QED BY <2>1, <2>2, <2>3
  <1>. QED BY <1>1, <1>7, <1>8 DEF ShownInv

LEMMA NextShown == FlagInv /\ ShownInv /\ [GuiNext]_window => ShownInv'
  <1>. SUFFICES ASSUME FlagInv, ShownInv, [GuiNext]_window PROVE ShownInv'
    OBVIOUS
  <1>1. CASE Tick \/ PressRefresh \/ Act \/ SaveSettings \/ ChooseModel \/ SendChat
    <2>1. \A i \in DOMAIN queue : i \in DOMAIN queue' /\ queue'[i] = queue[i]
      BY <1>1, HandlersKeep
    <2>2. UNCHANGED <<now, ready, changes, shown>>
      BY <1>1 DEF Tick, PressRefresh, Act, SaveSettings, ChooseModel, SendChat
    <2>. QED BY <2>1, <2>2 DEF ShownInv, Coming, OutrunIn
  <1>2. CASE NewChat \/ UNCHANGED window
    BY <1>2 DEF ShownInv, Coming, OutrunIn, NewChat, window
  <1>. QED BY <1>1, <1>2, TakeShown, FinishShown, CallbackShown DEF GuiNext

LEMMA ShownWhenIdle == ShownInv => ShownIsFresh
  <1>. SUFFICES ASSUME ShownInv, queue = <<>>, now = NoJob, ready = <<>>, shown.ok, shown.of # changes
                PROVE  FALSE
    BY DEF ShownIsFresh
  <1>1. now.kind = "none"
    BY DEF NoJob, Job
  <1>. QED BY <1>1 DEF ShownInv, Coming

(* ShownIsFresh: when nothing is left to do, the status on view knows of every   *)
(* action and reconnect, or says that it could not be read.                    *)
THEOREM StatusIsFresh == GuiSpec => []ShownIsFresh
  <1>1. GuiInit => FlagInv /\ ShownInv
    BY InitFlags, InitShown
  <1>2. FlagInv /\ ShownInv /\ [GuiNext]_window => (FlagInv /\ ShownInv)'
    BY NextFlags, NextShown
  <1>3. FlagInv /\ ShownInv => ShownIsFresh
    BY ShownWhenIdle
  <1>. QED BY <1>1, <1>2, <1>3, PTL DEF GuiSpec

--------------------------------------------------------------------------------
(* All the front ends' operations *)

(* The one who has the lock is the one locked operation that looks or works;    *)
(* whatever was upset, somebody of the two takes no lock.                      *)
EndsInv ==
    /\ runner \in [Runners -> [op : DOMAIN Operations, at : {"new", "ask", "enter", "look", "work", "done"},
                               upset : DOMAIN Operations \cup {""}]]
    /\ \A r \in Runners : ops = r <=> OpOf(r).lock /\ runner[r].at \in {"look", "work"}
    /\ ops \in Runners \cup {None}
    /\ \A r \in Runners : runner[r].upset # "" => {runner[r].op, runner[r].upset} \cap WithoutLock # {}

(* One runner goes on, without the lock. *)
LEMMA RunnerMoves ==
    ASSUME EndsInv, NEW r \in Runners, NEW l \in {"new", "ask", "enter", "look", "work", "done"},
           Go2(r, l), ops' = ops,
           (ops = r) <=> (OpOf(r).lock /\ l \in {"look", "work"})
    PROVE  EndsInv'
<1> DEFINE places == {"new", "ask", "enter", "look", "work", "done"}
           Rows == [op : DOMAIN Operations, at : places, upset : DOMAIN Operations \cup {""}]
<1>1. runner \in [Runners -> Rows] /\ l \in places  BY DEF EndsInv
<1>2. /\ \A s \in Runners : runner'[s] = IF s = r THEN [runner[r] EXCEPT !.at = l] ELSE runner[s]
      /\ DOMAIN runner' = Runners /\ runner' = [s \in Runners |-> runner'[s]]
  BY <1>1 DEF Go2
<1>3. /\ runner'[r].op = runner[r].op /\ runner'[r].at = l /\ runner'[r].upset = runner[r].upset
      /\ runner'[r] \in Rows
  <2>1. runner[r] \in Rows  BY <1>1
  <2>. QED BY <1>1, <1>2, <2>1
<1>4. runner' \in [Runners -> Rows]  BY <1>1, <1>2, <1>3
<1>5. \A s \in Runners : OpOf(s)' = OpOf(s)  BY <1>2, <1>3 DEF OpOf
<1>6. ASSUME NEW s \in Runners
      PROVE  /\ ops' = s <=> OpOf(s)'.lock /\ runner'[s].at \in {"look", "work"}
             /\ runner'[s].upset # "" => {runner'[s].op, runner'[s].upset} \cap WithoutLock # {}
  <2>1. CASE s = r  BY <1>3, <1>5, <2>1 DEF EndsInv
  <2>2. CASE s # r  BY <1>2, <1>5, <2>2 DEF EndsInv
  <2>. QED BY <2>1, <2>2
<1>. QED BY <1>4, <1>6 DEF EndsInv

(* Two who work at a time do not both have the lock. *)
LEMMA OneIsLockless ==
    ASSUME EndsInv, NEW r \in Runners, NEW s \in Runners, r # s, runner[r].at = "work",
           runner[s].at = "work", Upsets(r, s)
    PROVE  {runner[s].op, runner[r].op} \cap WithoutLock # {}
<1>1. ~(OpOf(r).lock /\ OpOf(s).lock)  BY DEF EndsInv
<1>2. OpOf(r).writes \cap Guarded # {} /\ OpOf(s).writes \cap Guarded # {}  BY DEF Upsets
<1>3. runner[r].op \in DOMAIN Operations /\ runner[s].op \in DOMAIN Operations  BY DEF EndsInv
<1>. QED BY <1>1, <1>2, <1>3, TableAssumption DEF OpOf

LEMMA EndsInductive == EndsInv /\ [EndsNext]_ends => EndsInv'
<1> SUFFICES ASSUME EndsInv, [EndsNext]_ends  PROVE EndsInv'
  OBVIOUS
<1>t. None \notin Runners  BY RunnersAssumption
<1>1. ASSUME NEW r \in Runners, Ask(r)  PROVE EndsInv'
  <2>1. PICK l \in {"ask", "enter"} : Go2(r, l)  BY <1>1 DEF Ask
  <2>2. ops' = ops /\ ops # r  BY <1>1 DEF Ask, EndsInv
  <2>. QED BY <2>1, <2>2, RunnerMoves
<1>2. ASSUME NEW r \in Runners, Answer2(r)  PROVE EndsInv'
  <2>1. PICK l \in {"enter", "done"} : Go2(r, l)  BY <1>2 DEF Answer2
  <2>2. ops' = ops /\ ops # r  BY <1>2 DEF Answer2, EndsInv
  <2>. QED BY <2>1, <2>2, RunnerMoves
<1>3. ASSUME NEW r \in Runners, EnterOps(r)  PROVE EndsInv'
  <2>1. runner[r].at = "enter" /\ ops # r  BY <1>3 DEF EnterOps, EndsInv
  <2>2. CASE OpOf(r).lock /\ ops # None
    BY <1>3, <2>1, <2>2, RunnerMoves DEF EnterOps
  <2>3. CASE ~OpOf(r).lock
    BY <1>3, <2>1, <2>3, RunnerMoves DEF EnterOps
  <2>4. CASE OpOf(r).lock /\ ops = None
    <3>1. runner' = [runner EXCEPT ![r].at = "look"] /\ ops' = r
      BY <1>3, <2>4 DEF EnterOps, Go2
    <3>2. \A s \in Runners :
              /\ runner'[s].op = runner[s].op /\ runner'[s].upset = runner[s].upset
              /\ runner'[s].at = IF s = r THEN "look" ELSE runner[s].at
      BY <3>1 DEF EndsInv
    <3>3. runner' \in [Runners -> [op : DOMAIN Operations,
                                   at : {"new", "ask", "enter", "look", "work", "done"},
                                   upset : DOMAIN Operations \cup {""}]]
      BY <3>1 DEF EndsInv
    <3>4. \A s \in Runners : OpOf(s)' = OpOf(s)  BY <3>2 DEF OpOf
    <3>5. \A s \in Runners : s # r => ~(OpOf(s).lock /\ runner[s].at \in {"look", "work"})
      BY <1>t, <2>4 DEF EndsInv
    <3>6. ASSUME NEW s \in Runners
          PROVE  /\ ops' = s <=> OpOf(s)'.lock /\ runner'[s].at \in {"look", "work"}
                 /\ runner'[s].upset # "" => {runner'[s].op, runner'[s].upset} \cap WithoutLock # {}
      <4>1. CASE s = r  BY <2>4, <3>1, <3>2, <3>4, <4>1 DEF EndsInv
      <4>2. CASE s # r  BY <3>1, <3>2, <3>4, <3>5, <4>2 DEF EndsInv
      <4>. QED BY <4>1, <4>2
    <3>. QED BY <3>1, <3>3, <3>6 DEF EndsInv
  <2>. QED BY <2>2, <2>3, <2>4
<1>4. ASSUME NEW r \in Runners, Observe2(r)  PROVE EndsInv'
  <2>1. runner[r].at = "look" /\ Go2(r, "work") /\ ops' = ops  BY <1>4 DEF Observe2
  <2>2. (ops = r) <=> (OpOf(r).lock /\ "work" \in {"look", "work"})  BY <2>1 DEF EndsInv
  <2>3. "work" \in {"new", "ask", "enter", "look", "work", "done"}  OBVIOUS
  <2>. QED BY <2>1, <2>2, <2>3, RunnerMoves, Zenon
<1>5. ASSUME NEW r \in Runners, Work(r)  PROVE EndsInv'
  <2> DEFINE places == {"new", "ask", "enter", "look", "work", "done"}
             Rows == [op : DOMAIN Operations, at : places, upset : DOMAIN Operations \cup {""}]
             Hit(s) == s # r /\ runner[s].at = "work" /\ Upsets(r, s)
  <2>1. \A s \in Runners :
            runner'[s] = IF s = r THEN [runner[s] EXCEPT !.at = "done"]
                         ELSE IF Hit(s) THEN [runner[s] EXCEPT !.upset = runner[r].op]
                         ELSE runner[s]
    BY <1>5 DEF Work
  <2>2. runner \in [Runners -> Rows] /\ runner[r].at = "work"  BY <1>5 DEF EndsInv, Work
  <2>3. \A s \in Runners :
            /\ runner'[s] \in Rows /\ runner'[s].op = runner[s].op
            /\ runner'[s].at = IF s = r THEN "done" ELSE runner[s].at
            /\ runner'[s].upset = IF Hit(s) THEN runner[r].op ELSE runner[s].upset
    <3>1. SUFFICES ASSUME NEW s \in Runners
                   PROVE  /\ runner'[s] \in Rows /\ runner'[s].op = runner[s].op
                          /\ runner'[s].at = IF s = r THEN "done" ELSE runner[s].at
                          /\ runner'[s].upset = IF Hit(s) THEN runner[r].op ELSE runner[s].upset
      OBVIOUS
    <3>2. runner[s] \in Rows /\ runner[r] \in Rows /\ runner[r].op \in DOMAIN Operations  BY <2>2
    <3> HIDE DEF Hit
    <3>3. ~(Hit(s) /\ s = r)  BY DEF Hit
    <3>. QED BY <2>1, <3>2, <3>3
  <2>4. runner' \in [Runners -> Rows]
    <3>1. runner' = [s \in Runners |-> runner'[s]]  BY <1>5 DEF Work
    <3> HIDE DEF Rows
    <3>. QED BY <2>3, <3>1
  <2>5. \A s \in Runners : OpOf(s)' = OpOf(s)  BY <2>3 DEF OpOf
  <2>6. ops' = IF ops = r THEN None ELSE ops  BY <1>5 DEF Work
  <2>7. ASSUME NEW s \in Runners
        PROVE  /\ ops' = s <=> OpOf(s)'.lock /\ runner'[s].at \in {"look", "work"}
               /\ runner'[s].upset # "" => {runner'[s].op, runner'[s].upset} \cap WithoutLock # {}
    <3>1. ops' = s <=> OpOf(s)'.lock /\ runner'[s].at \in {"look", "work"}
      <4> HIDE DEF Hit
      <4>. QED BY <1>t, <2>3, <2>5, <2>6 DEF EndsInv
    <3>2. CASE Hit(s)
      <4>1. {runner[s].op, runner[r].op} \cap WithoutLock # {}  BY <2>2, <3>2, OneIsLockless
      <4> HIDE DEF Hit
      <4>. QED BY <2>3, <3>1, <3>2, <4>1
    <3>3. CASE ~Hit(s)
      <4> HIDE DEF Hit
      <4>. QED BY <2>3, <3>1, <3>3 DEF EndsInv
    <3>. QED BY <3>2, <3>3
  <2>. QED BY <2>4, <2>6, <2>7 DEF EndsInv
<1>6. CASE UNCHANGED ends
  BY <1>6 DEF ends, EndsInv, OpOf
<1>. QED BY <1>1, <1>2, <1>3, <1>4, <1>5, <1>6 DEF EndsNext

(* However many operations of whatever front ends run at a time, none acts on a   *)
(* server, a world or an archive that another has changed since it looked unless *)
(* one of the two is named in WithoutLock, and nobody is asked while he holds    *)
(* the lock.                                                                 *)
THEOREM LocklessAreNamed == EndsSpec => []OnlyTheLockless
<1>1. EndsInit => EndsInv
  <2> SUFFICES ASSUME EndsInit  PROVE EndsInv
    OBVIOUS
  <2> DEFINE Rows == [op : DOMAIN Operations,
                      at : {"new", "ask", "enter", "look", "work", "done"},
                      upset : DOMAIN Operations \cup {""}]
             Changing == {n \in DOMAIN Operations : Operations[n].writes # {}}
             New == {[op |-> name, at |-> "new", upset |-> ""] : name \in Changing}
  <2>0. \A row \in New : row \in Rows /\ row.at = "new" /\ row.upset = ""
    <3> HIDE DEF Changing
    <3>1. Changing \subseteq DOMAIN Operations  BY DEF Changing
    <3>2. SUFFICES ASSUME NEW name \in Changing
                   PROVE  LET row == [op |-> name, at |-> "new", upset |-> ""]
                          IN  row \in Rows /\ row.at = "new" /\ row.upset = ""
      BY Zenon
    <3>3. name \in DOMAIN Operations  BY <3>1
    <3>. QED BY <3>3
  <2>e. runner \in [Runners -> New]  BY DEF EndsInit
  <2> HIDE DEF New, Rows
  <2>1. runner \in [Runners -> Rows]  BY <2>0, <2>e
  <2>2. \A r \in Runners : runner[r].at = "new" /\ runner[r].upset = ""
    BY <2>0, <2>e
  <2> USE DEF Rows
  <2>. QED BY <2>1, <2>2, RunnersAssumption DEF EndsInit, EndsInv
<1>2. EndsInv => OnlyTheLockless
  BY DEF EndsInv, OnlyTheLockless
<1>. QED BY <1>1, <1>2, EndsInductive, PTL DEF EndsSpec


================================================================================
