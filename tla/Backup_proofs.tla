------------------------------ MODULE Backup_proofs ------------------------------
(***************************************************************************)
(* Theorems about Backup and Rotation: somebody answers for a switched-off    *)
(* autosave; an archive that create returns is the world of one moment; what  *)
(* plan_rotation keeps is the policy; and nobody deletes the archive of a     *)
(* create that is under way.                                                *)
(***************************************************************************)
EXTENDS Backup, DataTheorems, SequenceTheorems, TLAPS

(* What of the types the switch depends on; the server forgets its console   *)
(* when it goes down.                                                        *)
SwitchTypes ==
    /\ up \in BOOLEAN /\ autosave \in BOOLEAN
    /\ unheard \in BOOLEAN /\ abandoned \in BOOLEAN
    /\ inbox \in Seq(Words)
    /\ pc \in [Clients -> Points]
    /\ running \in [Clients -> BOOLEAN]
    /\ up \/ inbox = <<>>

(* Who has begun to pause has seen the server run. *)
PausedSawServer ==
    \A p \in Clients : pc[p] \in {"off", "flush", "wait", "undo"} => running[p]

(* Once the console has executed what it has, autosave will be off. *)
WillBeOff(s, q) ==
    \/ s = FALSE /\ \A i \in 1..Len(q) : q[i] # "save-on"
    \/ \E i \in 1..Len(q) : /\ q[i] = "save-off"
                            /\ \A j \in 1..Len(q) : j > i => q[j] # "save-on"

Answered == up /\ WillBeOff(autosave, inbox) => Pausing \/ unheard \/ abandoned

SwitchInv == SwitchTypes /\ PausedSawServer /\ Answered

--------------------------------------------------------------------------------
Extended(q, r, word) == r = Append(q, word) \/ r = q \o <<word, word>>

(* What send leaves in the queue: the queue as it was, then the command. *)
LEMMA ExtendedQueue ==
    ASSUME NEW q \in Seq(Words), NEW word \in Words, NEW r, Extended(q, r, word)
    PROVE  /\ r \in Seq(Words) /\ Len(q) \in Nat /\ Len(r) \in Nat /\ Len(r) > Len(q)
           /\ \A i \in 1..Len(q) : r[i] = q[i]
           /\ \A i \in 1..Len(r) : i > Len(q) => r[i] = word
<1>1. CASE r = Append(q, word)
  BY <1>1, AppendProperties, LenProperties
<1>2. CASE r = q \o <<word, word>>
  <2> DEFINE pair == <<word, word>>
  <2>1. pair \in Seq(Words) /\ Len(pair) = 2 /\ pair[1] = word /\ pair[2] = word
    OBVIOUS
  <2> HIDE DEF pair
  <2>2. r = q \o pair  BY <1>2 DEF pair
  <2>3. /\ r \in Seq(Words) /\ Len(r) = Len(q) + 2
        /\ \A i \in 1..Len(r) : r[i] = IF i <= Len(q) THEN q[i] ELSE pair[i - Len(q)]
    <3>1. /\ q \o pair \in Seq(Words)
          /\ Len(q \o pair) = Len(q) + Len(pair)
          /\ \A i \in 1..(Len(q) + Len(pair)) :
                (q \o pair)[i] = IF i <= Len(q) THEN q[i] ELSE pair[i - Len(q)]
      <4>1. pair \in Seq(Words)  BY <2>1
      <4>2. QED  BY <4>1, ConcatProperties, Zenon
    <3>2. QED  BY <2>1, <2>2, <3>1, Zenon
  <2>4. QED
    <3>1. Len(q) \in Nat  BY LenProperties
    <3>2. ASSUME NEW i \in 1..Len(r), i > Len(q)  PROVE r[i] = word
      <4>1. i - Len(q) \in {1, 2} /\ ~(i <= Len(q))  BY <2>3, <3>1, <3>2
      <4>2. QED  BY <2>1, <2>3, <4>1
    <3>3. QED  BY <2>3, <3>1, <3>2
<1>3. QED  BY <1>1, <1>2 DEF Extended

(* A save-on at the end of the queue turns autosave on. *)
LEMMA OnAtTheEnd ==
    ASSUME NEW s, NEW q \in Seq(Words), NEW r, Extended(q, r, "save-on")
    PROVE  ~WillBeOff(s, r)
<1>1. "save-on" \in Words  BY DEF Words
<1>2. /\ Len(r) \in Nat /\ Len(q) \in Nat /\ Len(r) > Len(q)
      /\ r[Len(r)] = "save-on"
  BY <1>1, ExtendedQueue
<1>3. QED  BY <1>2 DEF WillBeOff

(* A flush changes nothing of the switch. *)
LEMMA FlushIsNoSwitch ==
    ASSUME NEW s, NEW q \in Seq(Words), NEW r, Extended(q, r, "save-all"),
           WillBeOff(s, r)
    PROVE  WillBeOff(s, q)
<1> "save-all" \in Words  BY DEF Words
<1>0. /\ Len(q) \in Nat /\ Len(r) \in Nat /\ Len(r) > Len(q)
      /\ \A i \in 1..Len(q) : r[i] = q[i]
      /\ \A i \in 1..Len(r) : i > Len(q) => r[i] = "save-all"
  BY ExtendedQueue
<1>1. \A i \in 1..Len(q) : r[i] = q[i] /\ i \in 1..Len(r)  BY <1>0
<1>2. \A i \in 1..Len(r) : r[i] = "save-off" => i \in 1..Len(q)  BY <1>0
<1>3. CASE s = FALSE /\ \A i \in 1..Len(r) : r[i] # "save-on"
  <2>1. \A i \in 1..Len(q) : q[i] # "save-on"  BY <1>1, <1>3
  <2>2. QED  BY <1>3, <2>1 DEF WillBeOff
<1>4. CASE \E i \in 1..Len(r) : /\ r[i] = "save-off"
                                /\ \A j \in 1..Len(r) : j > i => r[j] # "save-on"
  <2>1. PICK i \in 1..Len(r) : /\ r[i] = "save-off"
                               /\ \A j \in 1..Len(r) : j > i => r[j] # "save-on"
    BY <1>4
  <2>2. i \in 1..Len(q)  BY <1>2, <2>1
  <2>3. \A j \in 1..Len(q) : j > i => q[j] # "save-on"  BY <1>1, <2>1
  <2>4. q[i] = "save-off"  BY <1>1, <2>1, <2>2
  <2>5. QED  BY <2>2, <2>3, <2>4 DEF WillBeOff
<1>5. QED  BY <1>3, <1>4 DEF WillBeOff

(* Executing the head of the queue changes nothing of what is to come. *)
LEMMA ExecutionKeepsOutcome ==
    ASSUME NEW s, NEW q \in Seq(Words), q # <<>>,
           NEW t, t = CASE Head(q) = "save-off" -> FALSE
                        [] Head(q) = "save-on" -> TRUE
                        [] OTHER -> s,
           WillBeOff(t, Tail(q))
    PROVE  WillBeOff(s, q)
<1>1. /\ Tail(q) \in Seq(Words) /\ Len(q) \in Nat /\ Len(q) >= 1
      /\ Len(Tail(q)) = Len(q) - 1 /\ Head(q) = q[1] /\ Head(q) \in Words
      /\ \A i \in 1..Len(Tail(q)) : Tail(q)[i] = q[i + 1]
  OBVIOUS
<1>2. CASE t = FALSE /\ \A i \in 1..Len(Tail(q)) : Tail(q)[i] # "save-on"
  <2>1. \A j \in 1..Len(q) : j > 1 => q[j] # "save-on"
    <3>1. TAKE j \in 1..Len(q)
    <3>2. HAVE j > 1
    <3>3. j - 1 \in 1..Len(Tail(q)) /\ (j - 1) + 1 = j  BY <1>1, <3>2
    <3>4. QED  BY <1>1, <1>2, <3>3
  <2>2. CASE Head(q) = "save-off"  BY <1>1, <2>1, <2>2 DEF WillBeOff
  <2>3. CASE Head(q) # "save-off"
    <3>1. s = FALSE /\ q[1] # "save-on"  BY <1>1, <1>2, <2>3
    <3>2. QED  BY <1>1, <2>1, <3>1 DEF WillBeOff
  <2>4. QED  BY <2>2, <2>3
<1>3. CASE \E i \in 1..Len(Tail(q)) :
             /\ Tail(q)[i] = "save-off"
             /\ \A j \in 1..Len(Tail(q)) : j > i => Tail(q)[j] # "save-on"
  <2>1. PICK i \in 1..Len(Tail(q)) :
               /\ Tail(q)[i] = "save-off"
               /\ \A j \in 1..Len(Tail(q)) : j > i => Tail(q)[j] # "save-on"
    BY <1>3
  <2>2. i + 1 \in 1..Len(q) /\ q[i + 1] = "save-off"  BY <1>1, <2>1
  <2>3. \A j \in 1..Len(q) : j > i + 1 => q[j] # "save-on"
    <3>1. TAKE j \in 1..Len(q)
    <3>2. HAVE j > i + 1
    <3>3. j - 1 \in 1..Len(Tail(q)) /\ (j - 1) + 1 = j /\ j - 1 > i  BY <1>1, <3>2
    <3>4. QED  BY <1>1, <2>1, <3>3
  <2>4. QED  BY <2>2, <2>3 DEF WillBeOff
<1>4. QED  BY <1>2, <1>3 DEF WillBeOff

--------------------------------------------------------------------------------
(* What becomes of the queue in one call of send. *)
LEMMA SendTypes ==
    ASSUME SwitchTypes, NEW word \in Words, Delivered(word) \/ Failed(word)
    PROVE  /\ inbox' \in Seq(Words)
           /\ \/ inbox' = inbox
              \/ up /\ Extended(inbox, inbox', word)
<1>1. inbox' = inbox \/ (up /\ Extended(inbox, inbox', word))
  BY DEF Delivered, Failed, Extended
<1>2. CASE inbox' = inbox  BY <1>2 DEF SwitchTypes
<1>3. CASE up /\ Extended(inbox, inbox', word)
  BY <1>3, ExtendedQueue DEF SwitchTypes
<1>4. QED  BY <1>1, <1>2, <1>3

(* Undo and Resume end a pause with a save-on on its way, or a lost one. *)
LEMMA SaveOnAnswers ==
    ASSUME SwitchInv, NEW p \in Clients, SaveOn(p), UNCHANGED <<up, autosave>>
    PROVE  /\ inbox' \in Seq(Words) /\ (up' \/ inbox' = <<>>)
           /\ unheard' \in BOOLEAN /\ abandoned' \in BOOLEAN
           /\ up' /\ WillBeOff(autosave', inbox') => unheard'
<1>1. /\ inbox' \in Seq(Words)
      /\ inbox' = inbox \/ (up /\ Extended(inbox, inbox', "save-on"))
  <2>1. "save-on" \in Words  BY DEF Words
  <2>2. QED  BY <2>1, SendTypes DEF SaveOn, SwitchInv
<1>2. CASE inbox' = inbox  BY <1>1, <1>2 DEF SaveOn, SwitchInv, SwitchTypes
<1>3. CASE up /\ Extended(inbox, inbox', "save-on")
  <2>1. ~WillBeOff(autosave', inbox')  BY <1>3, OnAtTheEnd DEF SwitchInv, SwitchTypes
  <2>2. QED  BY <1>1, <1>3, <2>1 DEF SaveOn, SwitchInv, SwitchTypes
<1>4. QED  BY <1>1, <1>2, <1>3

(* The place of one client changes, nothing else of the switch. *)
LEMMA Moved ==
    ASSUME SwitchInv, NEW p \in Clients, NEW l \in Points,
           pc' = [pc EXCEPT ![p] = l], running' = running,
           UNCHANGED <<up, autosave, unheard, abandoned>>,
           inbox' \in Seq(Words), up' \/ inbox' = <<>>,
           l \in {"off", "flush", "wait", "undo"} => running[p],
           pc[p] \in Paused => l \in Paused,
           \/ WillBeOff(autosave', inbox') => WillBeOff(autosave, inbox)
           \/ running[p] /\ l \in Paused
    PROVE  SwitchInv'
<1>1. SwitchTypes'  BY DEF SwitchInv, SwitchTypes, ghosts, switch
<1>2. PausedSawServer'  BY DEF SwitchInv, SwitchTypes, PausedSawServer
<1>3. Pausing => Pausing'  BY DEF SwitchInv, SwitchTypes, Pausing
<1>4. running[p] /\ l \in Paused => Pausing'  BY DEF SwitchInv, SwitchTypes, Pausing
<1>5. Answered'  BY <1>3, <1>4 DEF SwitchInv, Answered, ghosts, switch
<1>6. QED  BY <1>1, <1>2, <1>5 DEF SwitchInv

(* One client leaves; others that are pausing stay. *)
LEMMA Left ==
    ASSUME SwitchInv, NEW p \in Clients, Leave(p), UNCHANGED <<up, autosave>>,
           unheard' \in BOOLEAN, abandoned' \in BOOLEAN,
           inbox' \in Seq(Words), up' \/ inbox' = <<>>,
           \/ /\ WillBeOff(autosave', inbox') => WillBeOff(autosave, inbox)
              /\ unheard => unheard'
              /\ abandoned => abandoned'
              /\ running[p] /\ pc[p] \in Paused => abandoned'
           \/ up' /\ WillBeOff(autosave', inbox') => unheard'
    PROVE  SwitchInv'
<1>1. SwitchTypes'  BY DEF SwitchInv, SwitchTypes, Leave, Points
<1>2. PausedSawServer'  BY DEF SwitchInv, SwitchTypes, PausedSawServer, Leave
<1>3. Pausing => Pausing' \/ (running[p] /\ pc[p] \in Paused)
  BY DEF SwitchInv, SwitchTypes, Pausing, Leave
<1>4. Answered'  BY <1>3 DEF SwitchInv, Answered
<1>5. QED  BY <1>1, <1>2, <1>4 DEF SwitchInv

--------------------------------------------------------------------------------
(* The invariant of AutosaveBack is kept by every step of a client ... *)
LEMMA ClientKeepsSwitch ==
    ASSUME SwitchInv, NEW p \in Clients, Client(p)
    PROVE  SwitchInv'
<1> USE DEF server, ghosts, switch
<1>t. /\ pc \in [Clients -> Points] /\ inbox \in Seq(Words) /\ (up \/ inbox = <<>>)
      /\ up \in BOOLEAN /\ unheard \in BOOLEAN /\ abandoned \in BOOLEAN
      /\ running \in [Clients -> BOOLEAN]
      /\ pc[p] \in {"off", "flush", "wait", "undo"} => running[p]
  BY DEF SwitchInv, SwitchTypes, PausedSawServer
<1>1. ASSUME NEW c \in UserCommands, Begin(p, c)  PROVE SwitchInv'
  <2>1. FirstPoint(c) \in {"look", "list", "send"}
    BY CommandsAssumption DEF Commands, FirstPoint
  <2>2. QED  BY <1>1, <1>t, <2>1, Moved DEF Begin, Points, Paused
<1>2. CASE Look(p)
  <2>1. CASE Leave(p)
    BY <1>2, <1>t, <2>1, Left DEF Look, ghosts, switch, Paused
  <2>2. CASE ~Leave(p)
    <3>1. /\ running' = [running EXCEPT ![p] = up]
          /\ pc' = [pc EXCEPT ![p] = IF up THEN "off" ELSE "tar"]
          /\ pc[p] = "look" /\ UNCHANGED <<up, autosave, inbox, switch>>
      BY <1>2, <2>2 DEF Look
    <3>2. SwitchTypes'  BY <3>1 DEF SwitchInv, SwitchTypes, ghosts, switch, Points, Paused
    <3>3. PausedSawServer'  BY <3>1 DEF SwitchInv, SwitchTypes, PausedSawServer
    <3>4. Pausing => Pausing'  BY <3>1 DEF SwitchInv, SwitchTypes, Pausing, Paused
    <3>5. Answered'  BY <3>1, <3>4 DEF SwitchInv, Answered, ghosts, switch
    <3>6. QED  BY <3>2, <3>3, <3>5 DEF SwitchInv
  <2>3. QED  BY <2>1, <2>2
<1>3. CASE SaveOff(p)
  <2>1. inbox' \in Seq(Words) /\ (up' \/ inbox' = <<>>)
    <3>1. "save-off" \in Words  BY DEF Words
    <3>2. QED  BY <1>3, <1>t, <3>1, SendTypes DEF SaveOff, SwitchInv
  <2>2. CASE Goto(p, "flush")
    BY <1>3, <1>t, <2>1, <2>2, Moved DEF SaveOff, Goto, local, Points, Paused
  <2>3. CASE Goto(p, "undo")
    BY <1>3, <1>t, <2>1, <2>3, Moved DEF SaveOff, Goto, local, Points, Paused
  <2>4. QED  BY <1>3, <2>2, <2>3 DEF SaveOff
<1>4. CASE Flush(p)
  <2>1. inbox' \in Seq(Words) /\ (up' \/ inbox' = <<>>)
    <3>1. "save-all" \in Words  BY DEF Words
    <3>2. QED  BY <1>4, <1>t, <3>1, SendTypes DEF Flush, SwitchInv
  <2>2. CASE Goto(p, "wait")
    BY <1>4, <1>t, <2>1, <2>2, Moved DEF Flush, Goto, local, Points, Paused
  <2>3. CASE Goto(p, "undo")
    BY <1>4, <1>t, <2>1, <2>3, Moved DEF Flush, Goto, local, Points, Paused
  <2>4. QED  BY <1>4, <2>2, <2>3 DEF Flush
<1>5. CASE Wait(p)
  <2>1. CASE Goto(p, "tar")
    BY <1>5, <1>t, <2>1, Moved DEF Wait, Goto, local, Points, Paused
  <2>2. CASE Goto(p, "undo")
    BY <1>5, <1>t, <2>2, Moved DEF Wait, Goto, local, Points, Paused
  <2>3. QED  BY <1>5, <2>1, <2>2 DEF Wait
<1>6. CASE Undo(p)
  BY <1>6, <1>t, SaveOnAnswers, Left DEF Undo
<1>7. CASE Tar(p)
  BY <1>7, <1>t, Moved DEF Tar, Goto, local, Points, Paused
<1>8. CASE Pack(p)
  <2>1. \E l \in {"on", "rm"} : pc' = [pc EXCEPT ![p] = l]
    BY <1>8 DEF Pack, Goto
  <2>2. /\ pc[p] = "pack" /\ running' = running
        /\ UNCHANGED <<up, autosave, inbox, switch>>
    BY <1>8 DEF Pack, Goto, local
  <2>3. QED  BY <1>t, <2>1, <2>2, Moved DEF Points, Paused
<1>9. CASE Unlink(p)
  BY <1>9, <1>t, Moved DEF Unlink, Goto, local, Points, Paused
<1>10. CASE Resume(p)
  <2>1. /\ inbox' \in Seq(Words) /\ (up' \/ inbox' = <<>>)
        /\ unheard' \in BOOLEAN /\ abandoned' \in BOOLEAN
        /\ UNCHANGED <<up, autosave>>
        /\ \/ running[p] /\ (up' /\ WillBeOff(autosave', inbox') => unheard')
           \/ ~running[p] /\ UNCHANGED <<inbox, switch>>
    BY <1>10, <1>t, SaveOnAnswers DEF Resume, ghosts, switch
  <2>2. CASE Goto(p, "list")
    <3>1. SwitchTypes'  BY <1>t, <2>1, <2>2 DEF SwitchInv, SwitchTypes, Goto, local, Points
    <3>2. PausedSawServer'
      BY <2>2 DEF SwitchInv, SwitchTypes, PausedSawServer, Goto, local
    <3>3. ~running[p] /\ Pausing => Pausing'
      BY <2>2 DEF SwitchInv, SwitchTypes, Pausing, Goto, local
    <3>4. Answered'  BY <2>1, <3>3 DEF SwitchInv, Answered, ghosts, switch
    <3>5. QED  BY <3>1, <3>2, <3>4 DEF SwitchInv
  <2>3. CASE Leave(p)
    BY <1>t, <2>1, <2>3, Left DEF ghosts, switch
  <2>4. QED  BY <1>10, <2>2, <2>3 DEF Resume
<1>11. CASE List(p)
  <2>1. CASE Leave(p)
    BY <1>11, <1>t, <2>1, Left DEF List, ghosts, switch, Paused
  <2>2. CASE ~Leave(p)
    BY <1>11, <1>t, <2>2, Moved DEF List, Points, Paused
  <2>3. QED  BY <2>1, <2>2
<1>12. CASE Delete(p)
  BY <1>12, <1>t, Left DEF Delete, ghosts, switch, Paused
<1>13. CASE Send(p)
  <2>1. /\ inbox' \in Seq(Words)
        /\ inbox' = inbox \/ (up /\ Extended(inbox, inbox', "save-all"))
    <3>1. "save-all" \in Words  BY DEF Words
    <3>2. QED  BY <1>13, <3>1, SendTypes DEF Send, SwitchInv
  <2>2. UNCHANGED <<up, autosave>>  BY <1>13 DEF Send
  <2>3. WillBeOff(autosave', inbox') => WillBeOff(autosave, inbox)
    BY <1>t, <2>1, <2>2, FlushIsNoSwitch
  <2>4. QED  BY <1>13, <1>t, <2>1, <2>2, <2>3, Left DEF Send, ghosts, switch, Paused
<1>14. CASE Interrupt(p)
  <2>1. CASE pc[p] \in {"tar", "pack", "rm"}
    <3>1. /\ Goto(p, "on") /\ abandoned' = abandoned
          /\ UNCHANGED <<up, autosave, inbox, unheard>>
      BY <1>14, <1>t, <2>1 DEF Interrupt
    <3>2. QED  BY <1>t, <2>1, <3>1, Moved DEF Goto, local, ghosts, switch, Points, Paused
  <2>2. CASE pc[p] \notin {"tar", "pack", "rm"}
    <3>1. /\ Leave(p) /\ UNCHANGED <<up, autosave, inbox, unheard>>
          /\ abandoned' = (abandoned \/ (running[p] /\ pc[p] \in {"flush", "wait", "undo", "on"}))
      BY <1>14, <2>2 DEF Interrupt
    <3>2. QED  BY <1>t, <2>2, <3>1, Left DEF Paused
  <2>3. QED  BY <2>1, <2>2
<1>15. QED
  BY <1>1, <1>2, <1>3, <1>4, <1>5, <1>6, <1>7, <1>8, <1>9, <1>10, <1>11, <1>12, <1>13, <1>14
     DEF Client

(* ... and of the host. *)
LEMMA HostKeepsSwitch ==
    ASSUME SwitchInv,
           \/ \E f \in files : Script(f)
           \/ Execute \/ Autosave \/ Crash \/ StopServer \/ StartServer
    PROVE  SwitchInv'
<1> USE DEF local, ghosts, switch, server
<1>1. CASE Autosave \/ \E f \in files : Script(f)
  <2>1. UNCHANGED <<up, autosave, inbox, pc, running, unheard, abandoned>>
    BY <1>1 DEF Autosave, Script
  <2>2. QED
    BY <2>1 DEF SwitchInv, SwitchTypes, PausedSawServer, Answered, WillBeOff, Pausing
<1>2. CASE Execute
  <2>1. /\ inbox # <<>> /\ inbox \in Seq(Words) /\ up /\ up' = up
        /\ inbox' = Tail(inbox) /\ Head(inbox) \in Words /\ inbox' \in Seq(Words)
        /\ UNCHANGED <<pc, running>>
    BY <1>2 DEF Execute, SwitchInv, SwitchTypes
  <2>2. autosave' = CASE Head(inbox) = "save-off" -> FALSE
                      [] Head(inbox) = "save-on" -> TRUE
                      [] OTHER -> autosave
    BY <1>2 DEF Execute
  <2>3. \/ UNCHANGED <<unheard, abandoned>>
        \/ Head(inbox) = "save-on" /\ "save-off" \notin ToSet(Tail(inbox))
    BY <1>2 DEF Execute
  <2>4. unheard' \in BOOLEAN /\ abandoned' \in BOOLEAN
    BY <1>2 DEF Execute, SwitchInv, SwitchTypes
  <2>5. SwitchTypes'
    BY <2>1, <2>2, <2>4 DEF SwitchInv, SwitchTypes
  <2>6. PausedSawServer'  BY <2>1 DEF SwitchInv, PausedSawServer
  <2>7. Pausing' <=> Pausing  BY <2>1 DEF Pausing
  <2>8. WillBeOff(autosave', inbox') => WillBeOff(autosave, inbox)
    BY <2>1, <2>2, ExecutionKeepsOutcome
  <2>9. CASE UNCHANGED <<unheard, abandoned>>
    <3>1. Answered'  BY <2>1, <2>7, <2>8, <2>9 DEF SwitchInv, Answered
    <3>2. QED  BY <2>5, <2>6, <3>1 DEF SwitchInv
  <2>10. CASE Head(inbox) = "save-on" /\ "save-off" \notin ToSet(Tail(inbox))
    <3>1. autosave' = TRUE  BY <2>2, <2>10
    <3>2. \A i \in 1..Len(inbox') : inbox'[i] # "save-off"
      <4>1. DOMAIN inbox' = 1..Len(inbox')  BY <2>1
      <4>2. \A i \in DOMAIN inbox' : inbox'[i] # "save-off"  BY <2>1, <2>10 DEF ToSet
      <4>3. QED  BY <4>1, <4>2
    <3>3. ~WillBeOff(autosave', inbox')  BY <3>1, <3>2 DEF WillBeOff
    <3>4. Answered'  BY <3>3 DEF Answered
    <3>5. QED  BY <2>5, <2>6, <3>4 DEF SwitchInv
  <2>11. QED  BY <2>3, <2>9, <2>10
<1>3. CASE Crash \/ StopServer
  <2>1. up' = FALSE /\ inbox' = <<>> /\ UNCHANGED <<autosave, pc, running, unheard, abandoned>>
    BY <1>3 DEF Crash, StopServer
  <2>2. inbox' \in Seq(Words)  BY <2>1
  <2>3. QED  BY <2>1, <2>2 DEF SwitchInv, SwitchTypes, PausedSawServer, Answered
<1>4. CASE StartServer
  <2>1. /\ inbox = <<>> /\ inbox' = inbox /\ up' = TRUE /\ autosave' = TRUE
        /\ unheard' = FALSE /\ abandoned' = FALSE /\ UNCHANGED <<pc, running>>
    BY <1>4 DEF StartServer, SwitchInv, SwitchTypes
  <2>2. ~WillBeOff(autosave', inbox')  BY <2>1 DEF WillBeOff
  <2>3. QED  BY <2>1, <2>2 DEF SwitchInv, SwitchTypes, PausedSawServer, Answered
<1>5. QED  BY <1>1, <1>2, <1>3, <1>4

(* Autosave is on, and nobody pauses it. *)
LEMMA SwitchInit ==
    ASSUME Init
    PROVE  SwitchInv
<1>1. inbox \in Seq(Words)  BY DEF Init
<1>2. SwitchTypes  BY <1>1 DEF Init, SwitchTypes, Points
<1>3. PausedSawServer  BY DEF Init, PausedSawServer
<1>4. ~WillBeOff(autosave, inbox)
  <2>1. autosave = TRUE /\ 1..Len(inbox) = {}  BY DEF Init
  <2>2. QED  BY <2>1 DEF WillBeOff
<1>5. QED  BY <1>2, <1>3, <1>4 DEF SwitchInv, Answered

(* Whenever autosave is off on a running server, somebody is pausing it, a   *)
(* save-on is on its way or was lost, or a pause was interrupted: however    *)
(* many backups overlap, with or without the lock, and whatever is lost,     *)
(* repeated or late.                                                         *)
THEOREM AutosaveIsAnswered == Spec => []AutosaveBack
<1>1. Init => SwitchInv  BY SwitchInit
<1>2. SwitchInv /\ [Next]_vars => SwitchInv'
  <2> SUFFICES ASSUME SwitchInv, [Next]_vars  PROVE SwitchInv'
    OBVIOUS
  <2>1. ASSUME NEW p \in Clients, Client(p)  PROVE SwitchInv'
    BY <2>1, ClientKeepsSwitch
  <2>2. CASE \/ \E f \in files : Script(f)
             \/ Execute \/ Autosave \/ Crash \/ StopServer \/ StartServer
    BY <2>2, HostKeepsSwitch
  <2>3. CASE UNCHANGED vars
    BY <2>3 DEF vars, server, local, ghosts, switch, SwitchInv, SwitchTypes, PausedSawServer,
                Answered, WillBeOff, Pausing
  <2>4. QED  BY <2>1, <2>2, <2>3 DEF Next
<1>3. SwitchInv => AutosaveBack
  <2>1. ASSUME SwitchInv, up, ~autosave, "save-on" \notin ToSet(inbox)
        PROVE  WillBeOff(autosave, inbox)
    BY <2>1 DEF SwitchInv, SwitchTypes, WillBeOff, ToSet
  <2>2. QED  BY <2>1 DEF SwitchInv, Answered, AutosaveBack
<1>4. QED  BY <1>1, <1>2, <1>3, PTL DEF Spec

--------------------------------------------------------------------------------
(* A create, from its look to its save-on. *)
Making == {"look", "off", "flush", "wait", "undo", "tar", "pack", "rm", "on"}

(* What happens at the host. *)
HostStep ==
    \/ \E f \in files : Script(f)
    \/ Execute \/ Autosave \/ Crash \/ StopServer \/ StartServer

--------------------------------------------------------------------------------
(* Rotation *)

(* The archives of a directory, of which no two have the same time stamp. *)
Dated(S) ==
    /\ IsFiniteSet(S)
    /\ \A e \in S : e.ts \in Times /\ \A f \in S : e.ts = f.ts => e = f

NewestFirst(s, S) ==
    /\ s \in [1..Cardinality(S) -> S]
    /\ \A i, j \in DOMAIN s : i < j => s[i].ts > s[j].ts

(* They can be sorted. *)
LEMMA Sortable ==
    ASSUME NEW S, Dated(S)
    PROVE  \E s : NewestFirst(s, S)
<1> DEFINE Sorts(T) == \E s : NewestFirst(s, T)
           N == {n \in Nat : \A T \in SUBSET S : Cardinality(T) = n => Sorts(T)}
<1>1. \A T \in SUBSET S : IsFiniteSet(T) /\ Cardinality(T) \in Nat
  BY FS_Subset, FS_CardinalityType DEF Dated
<1>2. \A e \in S : e.ts \in Nat  BY TimesAssumption DEF Dated
<1>3. 0 \in N
  <2>1. SUFFICES ASSUME NEW T \in SUBSET S, Cardinality(T) = 0  PROVE Sorts(T)
    OBVIOUS
  <2>2. 1..Cardinality(T) = {}  BY <2>1
  <2>3. NewestFirst([i \in 1..Cardinality(T) |-> i], T)  BY <2>2 DEF NewestFirst
  <2>. QED BY <2>3
<1>4. ASSUME NEW n \in Nat, n \in N  PROVE n + 1 \in N
  <2>1. SUFFICES ASSUME NEW T \in SUBSET S, Cardinality(T) = n + 1  PROVE Sorts(T)
    OBVIOUS
  <2>2. IsFiniteSet(T) /\ T # {}
    <3>1. Cardinality({}) = 0 /\ n + 1 # 0  BY FS_EmptySet
    <3>. QED BY <1>1, <2>1, <3>1
  <2>3. PICK e \in T : \A f \in T : f.ts <= e.ts
    <3> DEFINE w == [f \in T |-> f.ts]
    <3>1. w \in [T -> Nat]  BY <1>2
    <3>2. PICK e \in T : \A f \in T : w[f] <= w[e]
      <4> HIDE DEF w
      <4>. QED BY <2>2, <3>1, Greatest
    <3>. QED BY <3>2
  <2>4. Cardinality(T \ {e}) = n
    <3>1. Cardinality(T \ {e}) = Cardinality(T) - 1  BY <2>2, FS_RemoveElement, Zenon
    <3> HIDE DEF N
    <3>. QED BY <2>1, <3>1
  <2>5. PICK r : NewestFirst(r, T \ {e})  BY <1>4, <2>4
  <2>6. r \in [1..n -> T \ {e}] /\ \A i, j \in 1..n : i < j => r[i].ts > r[j].ts
    BY <2>4, <2>5 DEF NewestFirst
  <2> DEFINE s == [i \in 1..n + 1 |-> IF i = 1 THEN e ELSE r[i - 1]]
  <2>7. s \in [1..n + 1 -> T]
    <3>1. SUFFICES ASSUME NEW i \in 1..n + 1, i # 1  PROVE r[i - 1] \in T
      OBVIOUS
    <3>2. i - 1 \in 1..n  BY <3>1
    <3>. QED BY <2>6, <3>2
  <2>8. ASSUME NEW i \in 1..n + 1, NEW j \in 1..n + 1, i < j  PROVE s[i].ts > s[j].ts
    <3>1. j - 1 \in 1..n /\ s[j] = r[j - 1] /\ r[j - 1] \in T \ {e}  BY <2>6, <2>8
    <3>2. CASE i = 1
      <4>1. s[i] = e /\ r[j - 1].ts <= e.ts /\ r[j - 1].ts # e.ts
        BY <2>3, <3>1, <3>2 DEF Dated
      <4>2. r[j - 1].ts \in Nat /\ e.ts \in Nat  BY <1>2, <3>1
      <4>. QED BY <3>1, <4>1, <4>2
    <3>3. CASE i # 1
      <4>1. i - 1 \in 1..n /\ s[i] = r[i - 1] /\ i - 1 < j - 1  BY <2>8, <3>3
      <4>. QED BY <2>6, <3>1, <4>1
    <3>. QED BY <3>2, <3>3
  <2>9. NewestFirst(s, T)
    <3> HIDE DEF s
    <3>. QED BY <2>1, <2>7, <2>8 DEF NewestFirst
  <2>. QED BY <2>9
<1>5. \A n \in Nat : n \in N
  <2> HIDE DEF N
  <2>. QED BY <1>3, <1>4, Induction
<1>. QED BY <1>1, <1>5

(* Snaps sorts what is no full archive. *)
LEMMA SnapsAreSorted ==
    ASSUME NEW entries, Dated(entries)
    PROVE  /\ Dated({e \in entries : ~e.full})
           /\ NewestFirst(Snaps(entries), {e \in entries : ~e.full})
<1> DEFINE S == {e \in entries : ~e.full}
<1>1. Dated(S)  BY FS_Subset DEF Dated
<1>2. PICK r : NewestFirst(r, S)
  <2> HIDE DEF S
  <2>. QED BY <1>1, Sortable
<1>3. \E s \in [1..Cardinality(S) -> S] : \A i, j \in DOMAIN s : i < j => s[i].ts > s[j].ts
  BY <1>2 DEF NewestFirst
<1>4. NewestFirst(Snaps(entries), S)
  <2>1. Snaps(entries) = CHOOSE s \in [1..Cardinality(S) -> S] :
                            \A i, j \in DOMAIN s : i < j => s[i].ts > s[j].ts
    BY DEF Snaps
  <2> HIDE DEF S
  <2>. QED BY <1>3, <2>1, Zenon DEF NewestFirst
<1>. QED BY <1>1, <1>4

(* Every one of them has its place, and as many are newer as come before. *)
LEMMA Places ==
    ASSUME NEW S, Dated(S), NEW s, NewestFirst(s, S)
    PROVE  /\ Cardinality(S) \in Nat /\ DOMAIN s = 1..Cardinality(S)
           /\ \A e \in S : \E i \in DOMAIN s : s[i] = e
           /\ \A i \in DOMAIN s : s[i] \in S
           /\ \A i, j \in DOMAIN s : s[j].ts > s[i].ts <=> j < i
           /\ \A i \in DOMAIN s : Cardinality({f \in S : f.ts > s[i].ts}) = i - 1
<1>1. /\ IsFiniteSet(S) /\ Cardinality(S) \in Nat
      /\ s \in [1..Cardinality(S) -> S] /\ \A e \in S : e.ts \in Nat
  BY FS_CardinalityType, TimesAssumption DEF Dated, NewestFirst
<1>2. \A i, j \in DOMAIN s : s[j].ts > s[i].ts <=> j < i
  <2>1. SUFFICES ASSUME NEW i \in DOMAIN s, NEW j \in DOMAIN s
                 PROVE  s[j].ts > s[i].ts <=> j < i
    OBVIOUS
  <2>2. s[i].ts \in Nat /\ s[j].ts \in Nat /\ i \in Nat /\ j \in Nat  BY <1>1
  <2>3. j < i => s[j].ts > s[i].ts  BY DEF NewestFirst
  <2>4. i < j => s[i].ts > s[j].ts  BY DEF NewestFirst
  <2>5. i = j => s[i].ts = s[j].ts  OBVIOUS
  <2>. QED BY <2>2, <2>3, <2>4, <2>5
<1>3. \A i, j \in DOMAIN s : s[i] = s[j] => i = j
  <2>1. SUFFICES ASSUME NEW i \in DOMAIN s, NEW j \in DOMAIN s, s[i] = s[j]  PROVE i = j
    OBVIOUS
  <2>2. s[i].ts \in Nat /\ s[j].ts = s[i].ts /\ i \in Nat /\ j \in Nat  BY <1>1, <2>1
  <2>. QED BY <1>2, <2>2
<1>4. \A e \in S : \E i \in DOMAIN s : s[i] = e
  <2>1. s \in Injection(1..Cardinality(S), S)
    BY <1>1, <1>3 DEF Injection, IsInjective
  <2>2. Cardinality(1..Cardinality(S)) = Cardinality(S)  BY <1>1, FS_Interval
  <2>3. s \in Surjection(1..Cardinality(S), S)  BY <1>1, <2>1, <2>2, FS_Injection
  <2>. QED BY <1>1, <2>3 DEF Surjection
<1>5. ASSUME NEW i \in DOMAIN s  PROVE Cardinality({f \in S : f.ts > s[i].ts}) = i - 1
  <2> DEFINE newer == {f \in S : f.ts > s[i].ts}
             r == [j \in 1..i - 1 |-> s[j]]
  <2>1. i \in 1..Cardinality(S)  BY <1>1
  <2>2. \A j \in 1..i - 1 : j \in DOMAIN s /\ j < i  BY <1>1, <2>1
  <2>3. r \in [1..i - 1 -> newer]  BY <1>1, <1>2, <2>2
  <2>4. \A f \in newer : \E j \in 1..i - 1 : r[j] = f
    <3>1. SUFFICES ASSUME NEW f \in newer  PROVE \E j \in 1..i - 1 : r[j] = f
      OBVIOUS
    <3>2. PICK j \in DOMAIN s : s[j] = f  BY <1>4
    <3>3. j < i  BY <1>2, <3>2
    <3>4. j \in 1..i - 1  BY <1>1, <2>1, <3>3
    <3>. QED BY <3>2, <3>4
  <2>5. \A j, k \in 1..i - 1 : r[j] = r[k] => j = k  BY <1>3, <2>2
  <2>6. ExistsBijection(1..i - 1, newer)
    <3> HIDE DEF r, newer
    <3>1. r \in Bijection(1..i - 1, newer)
      BY <2>3, <2>4, <2>5 DEF Bijection, Injection, IsInjective, Surjection
    <3>. QED BY <3>1 DEF ExistsBijection
  <2>7. IsFiniteSet(1..i - 1) /\ Cardinality(1..i - 1) = i - 1
    <3>1. 1 \in Int /\ i - 1 \in Int  BY <2>1
    <3>2. /\ IsFiniteSet(1..i - 1)
          /\ Cardinality(1..i - 1) = IF 1 > i - 1 THEN 0 ELSE (i - 1) - 1 + 1
      <4> DEFINE b == i - 1
      <4>1. b \in Int  BY <3>1
      <4> HIDE DEF b
      <4>2. IsFiniteSet(1..b) /\ Cardinality(1..b) = IF 1 > b THEN 0 ELSE b - 1 + 1
        BY <4>1, FS_Interval
      <4>. QED BY <4>2 DEF b
    <3>. QED BY <2>1, <3>2
  <2>. QED
    <3> HIDE DEF newer
    <3>1. Cardinality(newer) = i - 1  BY <2>6, <2>7, FS_Bijection
    <3>. QED BY <3>1 DEF newer
<1>. QED BY <1>1, <1>2, <1>4, <1>5

(* The first hits are the newest of their day or week. *)
LEMMA FirstHits ==
    ASSUME NEW S, Dated(S), NEW s, NewestFirst(s, S), NEW key \in [Times -> Nat]
    PROVE  /\ DOMAIN FirstHit(key, s) = {key[e.ts] : e \in S}
           /\ \A k \in DOMAIN FirstHit(key, s) :
                 /\ FirstHit(key, s)[k] \in S /\ key[FirstHit(key, s)[k].ts] = k
                 /\ NewestOf(key, FirstHit(key, s)[k], S)
<1> DEFINE keys == {key[e.ts] : e \in S}
           At(k) == {i \in DOMAIN s : key[s[i].ts] = k}
<1>1. /\ DOMAIN s = 1..Cardinality(S) /\ Cardinality(S) \in Nat
      /\ \A e \in S : \E i \in DOMAIN s : s[i] = e
      /\ \A i \in DOMAIN s : s[i] \in S
      /\ \A i, j \in DOMAIN s : s[j].ts > s[i].ts <=> j < i
  BY Places
<1>2. ToSet(s) = S  BY <1>1 DEF ToSet
<1>3. FirstHit(key, s) = [k \in keys |-> s[Min(At(k))]]  BY <1>2 DEF FirstHit
<1>4. ASSUME NEW k \in keys
      PROVE  /\ s[Min(At(k))] \in S /\ key[s[Min(At(k))].ts] = k
             /\ NewestOf(key, s[Min(At(k))], S)
  <2>1. At(k) \in SUBSET Nat /\ At(k) # {}
    <3>1. PICK e \in S : key[e.ts] = k  OBVIOUS
    <3>2. PICK i \in DOMAIN s : s[i] = e  BY <1>1
    <3>. QED BY <1>1, <3>1, <3>2
  <2> DEFINE m == Min(At(k))
  <2>2. m \in At(k) /\ \A i \in At(k) : m <= i
    <3> HIDE DEF At
    <3>. QED BY <2>1, MinIsLeast
  <2> HIDE DEF m
  <2>3. ASSUME NEW f \in S, key[f.ts] = key[s[m].ts]  PROVE f.ts <= s[m].ts
    <3>1. PICK i \in DOMAIN s : s[i] = f  BY <1>1
    <3>2. m \in DOMAIN s /\ i \in At(k) /\ m <= i  BY <2>2, <2>3, <3>1
    <3>3. ~(i < m)  BY <1>1, <3>2
    <3>4. ~(s[i].ts > s[m].ts)  BY <1>1, <3>2, <3>3
    <3>5. f.ts \in Nat /\ s[m].ts \in Nat  BY <1>1, <3>2, TimesAssumption DEF Dated
    <3>. QED BY <3>1, <3>4, <3>5
  <2>4. s[m] \in S /\ key[s[m].ts] = k  BY <1>1, <2>2
  <2>5. NewestOf(key, s[m], S)  BY <2>3 DEF NewestOf
  <2>. QED BY <2>4, <2>5 DEF m
<1>. QED
  <2> HIDE DEF At, keys
  <2>1. \A k \in keys : FirstHit(key, s)[k] = s[Min(At(k))]  BY <1>3
  <2>2. DOMAIN FirstHit(key, s) = keys  BY <1>3
  <2>. QED BY <1>4, <2>1, <2>2 DEF keys

(* Hence what the days or weeks keep is what the policy says. *)
LEMMA PeriodsKept ==
    ASSUME NEW S, Dated(S), NEW s, NewestFirst(s, S), NEW key \in [Times -> Nat], NEW n \in Nat
    PROVE  LET hits == FirstHit(key, s) IN
           {hits[k] : k \in Latest(DOMAIN hits, n)}
              = {e \in S : NewestOf(key, e, S) /\ Cardinality(Later(key, e, S)) < n}
<1> DEFINE hits == FirstHit(key, s)
           Count(e) == Cardinality(Later(key, e, S)) < n
<1>1. /\ DOMAIN hits = {key[e.ts] : e \in S}
      /\ \A k \in DOMAIN hits : hits[k] \in S /\ key[hits[k].ts] = k /\ NewestOf(key, hits[k], S)
  BY FirstHits
<1> HIDE DEF hits
<1>2. ASSUME NEW e \in S
      PROVE  key[e.ts] \in Latest(DOMAIN hits, n) <=> Count(e)
  <2>1. {j \in DOMAIN hits : j > key[e.ts]} = Later(key, e, S)
    BY <1>1 DEF Later
  <2>2. key[e.ts] \in DOMAIN hits  BY <1>1
  <2>. QED BY <2>1, <2>2 DEF Latest
<1> HIDE DEF Count
<1>3. ASSUME NEW k \in Latest(DOMAIN hits, n)
      PROVE  hits[k] \in S /\ NewestOf(key, hits[k], S) /\ Count(hits[k])
  <2>1. k \in DOMAIN hits  BY DEF Latest
  <2>. QED BY <1>1, <1>2, <2>1
<1>4. ASSUME NEW e \in S, NewestOf(key, e, S), Count(e)
      PROVE  key[e.ts] \in Latest(DOMAIN hits, n) /\ hits[key[e.ts]] = e
  <2>1. key[e.ts] \in Latest(DOMAIN hits, n) /\ key[e.ts] \in DOMAIN hits  BY <1>1, <1>2, <1>4
  <2> DEFINE h == hits[key[e.ts]]
  <2>2. h \in S /\ key[h.ts] = key[e.ts] /\ NewestOf(key, h, S)  BY <1>1, <2>1
  <2> HIDE DEF h
  <2>3. h.ts <= e.ts /\ e.ts <= h.ts /\ h.ts \in Nat /\ e.ts \in Nat
    BY <1>4, <2>2, TimesAssumption DEF NewestOf, Dated
  <2>4. h = e  BY <2>2, <2>3 DEF Dated
  <2>. QED BY <2>1, <2>4 DEF h
<1>5. {hits[k] : k \in Latest(DOMAIN hits, n)} = {e \in S : NewestOf(key, e, S) /\ Count(e)}
  BY <1>3, <1>4
<1>. QED BY <1>5 DEF hits, Count

(* plan_rotation keeps what the policy says, and drops nothing that has no      *)
(* newer one.                                                               *)
LEMMA PlanKeepsPolicy ==
    ASSUME NEW entries, Dated(entries)
    PROVE  /\ plan_rotation(entries).kept = Retained(entries)
           /\ plan_rotation(entries).dropped \in SUBSET entries
           /\ \A e \in plan_rotation(entries).dropped : \E f \in entries : f.ts > e.ts
<1> DEFINE S == {e \in entries : ~e.full}
           s == Snaps(entries)
           Periods(key, n) == LET hits == FirstHit(key, s)
                              IN  {hits[k] : k \in Latest(DOMAIN hits, n)}
           recent == {s[i] : i \in DOMAIN s \cap 1..KeepRecent}
           Keeps(key, n) == {e \in S : NewestOf(key, e, S) /\ Cardinality(Later(key, e, S)) < n}
           keep == recent \cup Periods(Day, KeepDaily) \cup Periods(Week, KeepWeekly)
<1>1. Dated(S) /\ NewestFirst(s, S)  BY SnapsAreSorted
<1>2. /\ plan_rotation(entries).kept = {e \in entries : e.full \/ e \in keep}
      /\ plan_rotation(entries).dropped = ToSet(s) \ keep
  BY DEF plan_rotation
<1>3. Retained(entries) =
        {e \in entries : \/ e.full
                         \/ Cardinality({f \in S : f.ts > e.ts}) < KeepRecent
                         \/ NewestOf(Day, e, S) /\ Cardinality(Later(Day, e, S)) < KeepDaily
                         \/ NewestOf(Week, e, S) /\ Cardinality(Later(Week, e, S)) < KeepWeekly}
  BY DEF Retained
<1>s. \A e \in entries : ~e.full <=> e \in S  OBVIOUS
<1>sub. S \subseteq entries  OBVIOUS
<1> HIDE DEF S, s
<1>4. Periods(Day, KeepDaily) = Keeps(Day, KeepDaily)
  BY <1>1, PeriodsKept, CalendarAssumption, KeepAssumption
<1>5. Periods(Week, KeepWeekly) = Keeps(Week, KeepWeekly)
  BY <1>1, PeriodsKept, CalendarAssumption, KeepAssumption
<1> HIDE DEF Periods
<1>6. /\ Cardinality(S) \in Nat /\ DOMAIN s = 1..Cardinality(S)
      /\ \A e \in S : \E i \in DOMAIN s : s[i] = e
      /\ \A i \in DOMAIN s : s[i] \in S
      /\ \A i, j \in DOMAIN s : s[j].ts > s[i].ts <=> j < i
      /\ \A i \in DOMAIN s : Cardinality({f \in S : f.ts > s[i].ts}) = i - 1
  BY <1>1, Places
<1>7. recent \in SUBSET S
  BY <1>6
<1>8. ASSUME NEW e \in S
      PROVE  e \in recent <=> Cardinality({f \in S : f.ts > e.ts}) < KeepRecent
  <2>1. PICK i \in DOMAIN s : s[i] = e  BY <1>6
  <2>2. Cardinality({f \in S : f.ts > e.ts}) = i - 1 /\ i \in Nat \ {0}  BY <1>6, <2>1
  <2>3. \A j \in DOMAIN s : s[j] = e => j = i
    <3>1. SUFFICES ASSUME NEW j \in DOMAIN s, s[j] = e  PROVE j = i
      OBVIOUS
    <3>2. e.ts \in Nat  BY <1>1, TimesAssumption DEF Dated
    <3>3. ~(j < i) /\ ~(i < j)  BY <1>6, <2>1, <3>1, <3>2
    <3>. QED BY <1>6, <3>3
  <2>4. e \in recent <=> i \in 1..KeepRecent  BY <2>1, <2>3
  <2> HIDE DEF recent
  <2>. QED BY <2>2, <2>4, KeepAssumption
<1>9. \A e \in S : e \in keep <=>
        \/ Cardinality({f \in S : f.ts > e.ts}) < KeepRecent
        \/ NewestOf(Day, e, S) /\ Cardinality(Later(Day, e, S)) < KeepDaily
        \/ NewestOf(Week, e, S) /\ Cardinality(Later(Week, e, S)) < KeepWeekly
  <2> HIDE DEF recent
  <2>. QED BY <1>4, <1>5, <1>8
<1>10. keep \subseteq S  BY <1>4, <1>5, <1>7
<1> HIDE DEF keep
<1>11. plan_rotation(entries).kept = Retained(entries)
  BY <1>2, <1>3, <1>9, <1>s
<1>12. ToSet(s) = S  BY <1>6 DEF ToSet
<1>13. ASSUME NEW e \in S, e \notin keep  PROVE \E f \in entries : f.ts > e.ts
  <2>1. PICK i \in DOMAIN s : s[i] = e  BY <1>6
  <2>2. i # 1
    <3>1. SUFFICES ASSUME i = 1  PROVE FALSE
      OBVIOUS
    <3>2. 1 \in 1..KeepRecent  BY KeepAssumption
    <3>. QED BY <1>13, <2>1, <3>1, <3>2 DEF keep
  <2>3. 1 \in DOMAIN s /\ 1 < i  BY <1>6, <2>2
  <2>4. s[1] \in S /\ s[1].ts > s[i].ts  BY <1>6, <2>3
  <2>. QED BY <1>sub, <2>1, <2>4
<1>. QED BY <1>2, <1>11, <1>12, <1>13, <1>sub


--------------------------------------------------------------------------------
(* Names and plans.  For any commands, with or without the lock.               *)

(* Before the script of its archive starts. *)
Before == Making \ {"pack", "rm", "on"}

FilesOK(F) ==
    /\ F \subseteq File /\ IsFiniteSet(F)
    /\ \A f \in F : /\ f.busy => f.tmp
                    /\ f.reported => ~f.tmp
                    /\ \A g \in F : f.ts = g.ts => f = g

(* No two creates have chosen one name, and none has the name of an archive. *)
Names ==
    /\ FilesOK(files)
    /\ \A f \in files : f.ts < clock
    /\ \A p \in Clients : stamp[p] \in Times => stamp[p] < clock
    /\ \A p, q \in Clients : p # q /\ stamp[p] \in Times => stamp[q] # stamp[p]
    /\ \A p \in Clients : /\ pc[p] \in Making => stamp[p] \in Times
                          /\ pc[p] \in Before => \A f \in files : f.ts # stamp[p]
                          /\ ok[p] => stamp[p] \in Times /\ pc[p] \in {"on", "list", "delete"}

(* Whatever is to be deleted, something has been named after it. *)
Spared == \A p \in Clients : \A g \in doomed[p] : g.ts + 1 < clock

(* When every create takes the lock, the one who has it has the last name. *)
OneMaker == "dash-create" \notin UserCommands
LastName == \A p \in Clients : stamp[p] \in Times => lock = p /\ stamp[p] + 1 = clock


(* A file is replaced by one of the same name. *)
LEMMA FileReplaced ==
    ASSUME NEW F, FilesOK(F), NEW f \in F, NEW g \in File, g.ts = f.ts,
           g.busy => g.tmp, g.reported => ~g.tmp
    PROVE  FilesOK((F \ {f}) \cup {g})
<1> DEFINE G == (F \ {f}) \cup {g}
<1>1. IsFiniteSet(G)  BY FS_Subset, FS_AddElement DEF FilesOK
<1>2. G \subseteq File  BY DEF FilesOK
<1>3. ASSUME NEW h \in G, NEW k \in G, h.ts = k.ts  PROVE h = k
  <2>1. CASE h = g /\ k = g  BY <2>1
  <2>2. CASE h = g /\ k # g  BY <1>3, <2>2 DEF FilesOK
  <2>3. CASE h # g /\ k = g  BY <1>3, <2>3 DEF FilesOK
  <2>4. CASE h # g /\ k # g  BY <1>3, <2>4 DEF FilesOK
  <2>. QED BY <2>1, <2>2, <2>3, <2>4
<1>4. \A h \in G : (h.busy => h.tmp) /\ (h.reported => ~h.tmp)  BY DEF FilesOK
<1> HIDE DEF G
<1>5. FilesOK(G)  BY <1>1, <1>2, <1>3, <1>4 DEF FilesOK
<1>. QED BY <1>5 DEF G

(* One with a new name is added. *)
LEMMA FileAdded ==
    ASSUME NEW F, FilesOK(F), NEW g \in File, \A f \in F : f.ts # g.ts,
           g.busy => g.tmp, g.reported => ~g.tmp
    PROVE  FilesOK(F \cup {g})
<1>1. IsFiniteSet(F \cup {g})  BY FS_AddElement DEF FilesOK
<1>. QED BY <1>1 DEF FilesOK

(* Some are gone. *)
LEMMA FilesGone ==
    ASSUME NEW F, FilesOK(F), NEW G \in SUBSET F
    PROVE  FilesOK(G)
<1>1. IsFiniteSet(G)  BY FS_Subset DEF FilesOK
<1>. QED BY <1>1 DEF FilesOK

(* Writing the world changes no name. *)
LEMMA FilesSpoilt ==
    ASSUME FilesOK(files)
    PROVE  /\ FilesOK(Spoilt)
           /\ \A g \in Spoilt : \E f \in files : f.ts = g.ts
           /\ \A f \in files : \E g \in Spoilt : f.ts = g.ts
<1> DEFINE spoilt(f) == IF f.busy THEN [f EXCEPT !.clean = FALSE] ELSE f
<1>1. \A f \in files :
          /\ spoilt(f) \in File /\ spoilt(f).ts = f.ts
          /\ spoilt(f).busy = f.busy /\ spoilt(f).tmp = f.tmp /\ spoilt(f).reported = f.reported
  BY DEF FilesOK, File
<1>2. Spoilt = {spoilt(f) : f \in files}  BY DEF Spoilt
<1> HIDE DEF spoilt
<1>3. IsFiniteSet(Spoilt)
  <2> DEFINE m == [f \in files |-> spoilt(f)]
  <2>1. m \in Surjection(files, Spoilt)  BY <1>2 DEF Surjection
  <2> HIDE DEF m
  <2>. QED BY <2>1, FS_Surjection DEF FilesOK
<1>4. FilesOK(Spoilt)
  <2>1. \A g, h \in Spoilt : g.ts = h.ts => g = h
    <3>1. SUFFICES ASSUME NEW f \in files, NEW k \in files, spoilt(f).ts = spoilt(k).ts
                   PROVE  spoilt(f) = spoilt(k)
      BY <1>2
    <3>2. f = k  BY <1>1, <3>1 DEF FilesOK
    <3>. QED BY <3>2
  <2>2. \A g \in Spoilt : g \in File /\ (g.busy => g.tmp) /\ (g.reported => ~g.tmp)
    <3>1. SUFFICES ASSUME NEW f \in files
                   PROVE  LET g == spoilt(f)
                          IN  g \in File /\ (g.busy => g.tmp) /\ (g.reported => ~g.tmp)
      BY <1>2
    <3>. QED BY <1>1 DEF FilesOK
  <2>. QED BY <1>3, <2>1, <2>2 DEF FilesOK
<1>5. \A g \in Spoilt : \E f \in files : f.ts = g.ts  BY <1>1, <1>2
<1>6. \A f \in files : \E g \in Spoilt : f.ts = g.ts  BY <1>1, <1>2
<1>. QED BY <1>4, <1>5, <1>6

(* The types of everything but the files. *)
Plain ==
    /\ {up, autosave, unheard, abandoned, meddled} \subseteq BOOLEAN
    /\ inbox \in Seq(Words)
    /\ clock \in Nat
    /\ lock \in Clients \cup {None}
    /\ pc \in [Clients -> Points]
    /\ cmd \in [Clients -> Commands \cup {"none"}]
    /\ stamp \in [Clients -> Times \cup {None}]
    /\ {running, ok} \subseteq [Clients -> BOOLEAN]
    /\ doomed \in [Clients -> SUBSET File]

(* What a plan drops is among the files, and something is newer. *)
LEMMA PlanDrops ==
    ASSUME FilesOK(files)
    PROVE  /\ plan_rotation(files).dropped \in SUBSET files
           /\ \A e \in plan_rotation(files).dropped : \E f \in files : f.ts > e.ts
           /\ plan_rotation(files).kept = Retained(files)
<1>1. Dated(files)  BY DEF FilesOK, Dated, File
<1>. QED BY <1>1, PlanKeepsPolicy

(* Whatever is sent, the console holds commands. *)
LEMMA SentWords ==
    ASSUME Plain, NEW word \in Words, Delivered(word) \/ Failed(word)
    PROVE  inbox' \in Seq(Words)
<1>1. \/ inbox' = inbox
      \/ inbox' = Append(inbox, word)
      \/ inbox' = inbox \o <<word, word>>
  BY DEF Delivered, Failed
<1>2. CASE inbox' = inbox \o <<word, word>>
  BY <1>2, ExtendedQueue DEF Plain, Extended
<1>3. CASE inbox' = inbox \/ inbox' = Append(inbox, word)
  BY <1>3 DEF Plain
<1>. QED BY <1>1, <1>2, <1>3

LEMMA ClientKeepsPlain ==
    ASSUME Plain, FilesOK(files), NEW p \in Clients, Client(p)
    PROVE  Plain'
<1>. USE DEF server, disk, local, ghosts, switch
<1>w. Words = {"save-off", "save-all", "save-on"}  BY DEF Words
<1>m. meddled' \in BOOLEAN
  <2>1. meddled \in BOOLEAN  BY DEF Plain
  <2>. QED BY <2>1 DEF Client, Begin, Look, SaveOff, Flush, Wait, Undo, Tar, Pack, Unlink, Resume,
                       List, Delete, Send, Interrupt, SaveOn, Meddle
<1>l. ASSUME Leave(p), inbox' \in Seq(Words), UNCHANGED <<up, autosave, clock>>,
             unheard' \in BOOLEAN, abandoned' \in BOOLEAN
      PROVE  Plain'
  BY <1>l, <1>m DEF Plain, Leave, Points
<1>g. ASSUME NEW l \in Points, pc' = [pc EXCEPT ![p] = l], inbox' \in Seq(Words),
             UNCHANGED <<up, autosave, clock, lock, cmd, stamp, running, doomed>>,
             ok' \in [Clients -> BOOLEAN], unheard' \in BOOLEAN, abandoned' \in BOOLEAN
      PROVE  Plain'
  BY <1>g, <1>m DEF Plain
<1>t. inbox \in Seq(Words) /\ ok \in [Clients -> BOOLEAN] /\ {up, autosave, unheard, abandoned, meddled} \subseteq BOOLEAN
  BY DEF Plain
<1>on. SaveOn(p) => inbox' \in Seq(Words) /\ unheard' \in BOOLEAN /\ abandoned' \in BOOLEAN
  BY <1>w, <1>t, SentWords DEF SaveOn
<1>1. ASSUME NEW c \in UserCommands, Begin(p, c)  PROVE Plain'
  <2>1. FirstPoint(c) \in Points /\ c \in Commands
    BY CommandsAssumption DEF FirstPoint, Commands, Creates, Points
  <2>2. clock' \in Nat /\ stamp' \in [Clients -> Times \cup {None}]
    BY <1>1 DEF Begin, Plain
  <2>. QED BY <1>1, <2>1, <2>2 DEF Begin, Plain
<1>2. CASE Look(p)
  <2>1. CASE Leave(p)  BY <1>2, <1>l, <1>t, <2>1 DEF Look
  <2>2. CASE ~Leave(p)  BY <1>2, <1>m, <1>t, <2>2 DEF Look, Plain, Points, Paused
  <2>. QED BY <2>1, <2>2
<1>3. CASE SaveOff(p)
  BY <1>3, <1>g, <1>t, <1>w, SentWords DEF SaveOff, Goto, Points, Paused
<1>4. CASE Flush(p)
  BY <1>4, <1>g, <1>t, <1>w, SentWords DEF Flush, Goto, Points, Paused
<1>5. CASE Wait(p)
  BY <1>5, <1>g, <1>t DEF Wait, Goto, Points, Paused
<1>6. CASE Undo(p)
  BY <1>6, <1>l, <1>on DEF Undo
<1>7. CASE Tar(p)
  BY <1>7, <1>g, <1>t DEF Tar, Goto, Points, Paused
<1>8. CASE Pack(p)
  BY <1>8, <1>g, <1>t DEF Pack, Goto, Points, Paused
<1>9. CASE Unlink(p)
  BY <1>9, <1>g, <1>t DEF Unlink, Goto, Points, Paused
<1>10. CASE Resume(p)
  <2>1. inbox' \in Seq(Words) /\ unheard' \in BOOLEAN /\ abandoned' \in BOOLEAN
    BY <1>10, <1>on, <1>t DEF Resume
  <2>. QED BY <1>10, <1>l, <1>g, <1>t, <2>1 DEF Resume, Goto, Points
<1>11. CASE List(p)
  <2>1. CASE Leave(p)  BY <1>11, <1>l, <1>t, <2>1 DEF List
  <2>2. CASE ~Leave(p)
    <3> DEFINE dropped == plan_rotation(files).dropped
    <3>1. dropped \in SUBSET File  BY PlanDrops DEF FilesOK
    <3>2. /\ doomed' = [doomed EXCEPT ![p] = dropped]
          /\ pc' = [pc EXCEPT ![p] = "delete"]
          /\ UNCHANGED <<up, autosave, inbox, clock, unheard, abandoned, lock, cmd, stamp, running,
                         ok>>
      BY <1>11, <2>2 DEF List
    <3> HIDE DEF dropped
    <3>. QED BY <1>m, <1>t, <3>1, <3>2 DEF Plain, Points
  <2>. QED BY <2>1, <2>2
<1>12. CASE Delete(p)
  BY <1>12, <1>l, <1>t DEF Delete
<1>13. CASE Send(p)
  BY <1>13, <1>l, <1>t, <1>w, SentWords DEF Send
<1>14. CASE Interrupt(p)
  <2>1. abandoned' \in BOOLEAN /\ unheard' \in BOOLEAN /\ inbox' \in Seq(Words)
    BY <1>14, <1>t DEF Interrupt, Plain
  <2>. QED BY <1>14, <1>l, <1>g, <1>t, <2>1 DEF Interrupt, Goto, Points, Paused
<1>. QED BY <1>1, <1>2, <1>3, <1>4, <1>5, <1>6, <1>7, <1>8, <1>9, <1>10, <1>11, <1>12, <1>13, <1>14
         DEF Client

LEMMA HostKeepsPlain ==
    ASSUME Plain, HostStep
    PROVE  Plain'
<1>. USE DEF server, disk, local, ghosts, switch
<1>1. CASE Execute
  <2>1. inbox # <<>> /\ inbox' = Tail(inbox)  BY <1>1 DEF Execute
  <2>2. inbox' \in Seq(Words)  BY <2>1 DEF Plain
  <2>3. autosave' \in BOOLEAN /\ unheard' \in BOOLEAN /\ abandoned' \in BOOLEAN
    BY <1>1 DEF Execute, Plain
  <2>. QED BY <1>1, <2>2, <2>3 DEF Execute, Plain
<1>2. CASE Crash \/ StopServer
  <2>1. <<>> \in Seq(Words)  OBVIOUS
  <2>. QED BY <1>2, <2>1 DEF Crash, StopServer, Plain
<1>3. CASE StartServer \/ Autosave \/ \E f \in files : Script(f)
  BY <1>3 DEF StartServer, Autosave, Script, Plain
<1>. QED BY <1>1, <1>2, <1>3 DEF HostStep


--------------------------------------------------------------------------------
(* The names *)

NamesInv == Plain /\ Names /\ Spared

(* A client goes on or leaves, and no name is new. *)
LEMMA NamesStay ==
    ASSUME NamesInv, NEW p \in Clients, NEW l \in Points, pc' = [pc EXCEPT ![p] = l],
           stamp' = stamp \/ (stamp' = [stamp EXCEPT ![p] = None] /\ l = "idle"), clock' = clock,
           FilesOK(files'), \A g \in files' : \E f \in files : f.ts = g.ts,
           l \in Making => pc[p] \in Making,
           l \in Before => pc[p] \in Before,
           ok' \in [Clients -> BOOLEAN], \A q \in Clients : q # p => ok'[q] = ok[q],
           ok'[p] => stamp'[p] \in Times /\ l \in {"on", "list", "delete"}
    PROVE  Names'
<1>t. /\ pc \in [Clients -> Points] /\ stamp \in [Clients -> Times \cup {None}] /\ None \notin Times
      /\ clock \in Nat
  BY ClientsAssumption DEF NamesInv, Plain
<1>1. \A g \in files' : g.ts < clock'  BY DEF NamesInv, Names
<1>2. \A q \in Clients : stamp'[q] \in Times => stamp'[q] = stamp[q] /\ stamp[q] < clock'
  BY <1>t DEF NamesInv, Names
<1>3. \A q, r \in Clients : q # r /\ stamp'[q] \in Times => stamp'[r] # stamp'[q]
  <2>1. SUFFICES ASSUME NEW q \in Clients, NEW r \in Clients, q # r, stamp'[q] \in Times
                 PROVE  stamp'[r] # stamp'[q]
    OBVIOUS
  <2>2. stamp'[q] = stamp[q] /\ stamp[r] # stamp[q]  BY <1>2, <2>1 DEF NamesInv, Names
  <2>3. stamp'[r] = stamp[r] \/ stamp'[r] = None  BY <1>t
  <2>. QED BY <1>t, <2>1, <2>2, <2>3
<1>4. ASSUME NEW q \in Clients
      PROVE  /\ pc'[q] \in Making => stamp'[q] \in Times
             /\ pc'[q] \in Before => \A f \in files' : f.ts # stamp'[q]
             /\ ok'[q] => stamp'[q] \in Times /\ pc'[q] \in {"on", "list", "delete"}
  <2>1. CASE q # p
    <3>1. pc'[q] = pc[q] /\ stamp'[q] = stamp[q] /\ ok'[q] = ok[q]  BY <1>t, <2>1
    <3>. QED BY <3>1 DEF NamesInv, Names
  <2>2. CASE q = p
    <3>1. pc'[p] = l  BY <1>t
    <3>2. l \in Making => stamp' = stamp  BY DEF Making
    <3>3. Before \subseteq Making  BY DEF Before
    <3>. QED BY <2>2, <3>1, <3>2, <3>3 DEF NamesInv, Names
  <2>. QED BY <2>1, <2>2
<1>. QED BY <1>1, <1>2, <1>3, <1>4 DEF Names

LEMMA ClientKeepsNames ==
    ASSUME NamesInv, NEW p \in Clients, Client(p)
    PROVE  Names'
<1>. USE DEF server, disk, local, ghosts, switch
<1>t. /\ pc \in [Clients -> Points] /\ stamp \in [Clients -> Times \cup {None}] /\ None \notin Times
      /\ clock \in Nat /\ ok \in [Clients -> BOOLEAN] /\ FilesOK(files)
      /\ ok[p] => stamp[p] \in Times /\ pc[p] \in {"on", "list", "delete"}
      /\ \A f \in files : \E g \in files : g.ts = f.ts
  BY ClientsAssumption DEF NamesInv, Plain, Names
<1>l. ASSUME Leave(p), clock' = clock, files' \in SUBSET files
      PROVE  Names'
  <2>1. FilesOK(files')  BY <1>l, <1>t, FilesGone
  <2>2. \A g \in files' : \E f \in files : f.ts = g.ts  BY <1>l
  <2>. QED BY <1>l, <1>t, <2>1, <2>2, NamesStay DEF Leave, Points, Making, Before
<1>g. ASSUME NEW l \in Points, Goto(p, l), clock' = clock, files' \in SUBSET files,
             l \in Making => pc[p] \in Making, l \in Before => pc[p] \in Before,
             ok[p] => l \in {"on", "list", "delete"}
      PROVE  Names'
  <2>1. FilesOK(files')  BY <1>g, <1>t, FilesGone
  <2>2. \A g \in files' : \E f \in files : f.ts = g.ts  BY <1>g
  <2>. QED BY <1>g, <1>t, <2>1, <2>2, NamesStay DEF Goto
<1>1. ASSUME NEW c \in UserCommands, Begin(p, c)  PROVE Names'
  <2>1. /\ pc[p] = "idle" /\ pc' = [pc EXCEPT ![p] = FirstPoint(c)] /\ ok' = ok /\ files' = files
        /\ ~ok[p]
    BY <1>1, <1>t DEF Begin
  <2>2. CASE c \in Creates
    <3>0. FirstPoint(c) = "look"  BY <2>2 DEF FirstPoint, Creates
    <3>1. /\ clock \in Times /\ stamp' = [stamp EXCEPT ![p] = clock] /\ clock' = clock + 1
          /\ pc' = [pc EXCEPT ![p] = "look"]
      BY <1>1, <2>1, <2>2, <3>0 DEF Begin
    <3>2. \A q \in Clients : stamp[q] # clock /\ \A f \in files : f.ts # clock
      BY <1>t, <3>1 DEF NamesInv, Names
    <3>3. \A f \in files : f.ts \in Nat /\ f.ts < clock'
      <4>1. \A f \in files : f.ts < clock /\ f.ts \in Nat
        BY <1>t, TimesAssumption DEF NamesInv, Names, FilesOK, File
      <4>. QED BY <1>t, <3>1, <4>1
    <3>4. \A q \in Clients : stamp'[q] \in Times => stamp'[q] < clock'
      <4>1. \A q \in Clients : stamp[q] \in Times => stamp[q] \in Nat /\ stamp[q] < clock
        BY TimesAssumption DEF NamesInv, Names
      <4>. QED BY <1>t, <3>1, <4>1
    <3>5. \A q, r \in Clients : q # r /\ stamp'[q] \in Times => stamp'[r] # stamp'[q]
      BY <1>t, <3>1, <3>2 DEF NamesInv, Names
    <3>6. ASSUME NEW q \in Clients
          PROVE  /\ pc'[q] \in Making => stamp'[q] \in Times
                 /\ pc'[q] \in Before => \A f \in files' : f.ts # stamp'[q]
                 /\ ok'[q] => stamp'[q] \in Times /\ pc'[q] \in {"on", "list", "delete"}
      <4>1. CASE q = p  BY <1>t, <2>1, <3>1, <3>2, <4>1
      <4>2. CASE q # p  BY <1>t, <2>1, <3>1, <4>2 DEF NamesInv, Names
      <4>. QED BY <4>1, <4>2
    <3>. QED BY <1>t, <2>1, <3>3, <3>4, <3>5, <3>6 DEF Names
  <2>3. CASE c \notin Creates
    <3>1. /\ UNCHANGED <<stamp, clock>> /\ FirstPoint(c) \in {"list", "send"}
      BY <1>1, <2>3, CommandsAssumption DEF Begin, FirstPoint, Commands
    <3>. QED BY <1>t, <2>1, <3>1, NamesStay DEF Points, Making, Before
  <2>. QED BY <2>2, <2>3
<1>2. CASE Look(p)
  <2>1. CASE Leave(p)  BY <1>2, <1>l, <2>1 DEF Look
  <2>2. CASE ~Leave(p)
    BY <1>2, <1>t, <2>2, NamesStay DEF Look, Points, Paused, Making, Before
  <2>. QED BY <2>1, <2>2
<1>3. CASE SaveOff(p)
  BY <1>3, <1>t, <1>g DEF SaveOff, Making, Before, Points, Paused
<1>4. CASE Flush(p)
  BY <1>4, <1>t, <1>g DEF Flush, Making, Before, Points, Paused
<1>5. CASE Wait(p)
  BY <1>5, <1>t, <1>g DEF Wait, Making, Before, Points, Paused
<1>6. CASE Undo(p)
  BY <1>6, <1>l DEF Undo
<1>7. CASE Tar(p)
  <2>1. PICK full \in BOOLEAN : files' = files \cup {Begun(p, full)}
    BY <1>7 DEF Tar
  <2> DEFINE g == Begun(p, full)
  <2>2. /\ pc[p] = "tar" /\ pc' = [pc EXCEPT ![p] = "pack"]
        /\ UNCHANGED <<clock, stamp, ok>>
    BY <1>7 DEF Tar, Goto
  <2>3. stamp[p] \in Times /\ stamp[p] < clock /\ (\A f \in files : f.ts # stamp[p]) /\ ~ok[p]
    BY <1>t, <2>2 DEF NamesInv, Names, Making, Before
  <2>4. g \in File /\ g.ts = stamp[p] /\ g.busy /\ g.tmp /\ ~g.reported  BY <2>3 DEF File, Begun
  <2>5. files' = files \cup {g}  BY <2>1
  <2> HIDE DEF g
  <2>6. FilesOK(files')  BY <1>t, <2>3, <2>4, <2>5, FileAdded
  <2>7. \A f \in files' : f.ts < clock'  BY <2>2, <2>3, <2>4, <2>5 DEF NamesInv, Names
  <2>8. ASSUME NEW q \in Clients
        PROVE  /\ pc'[q] \in Making => stamp'[q] \in Times
               /\ pc'[q] \in Before => \A f \in files' : f.ts # stamp'[q]
               /\ ok'[q] => stamp'[q] \in Times /\ pc'[q] \in {"on", "list", "delete"}
    <3>1. CASE q = p  BY <1>t, <2>2, <2>3, <3>1 DEF Before
    <3>2. CASE q # p
      <4>1. pc'[q] = pc[q] /\ stamp'[q] = stamp[q] /\ ok'[q] = ok[q]  BY <1>t, <2>2, <3>2
      <4>2. stamp[q] # stamp[p]  BY <2>3, <3>2 DEF NamesInv, Names
      <4>. QED BY <2>4, <2>5, <4>1, <4>2 DEF NamesInv, Names
    <3>. QED BY <3>1, <3>2
  <2>. QED BY <2>2, <2>6, <2>7, <2>8 DEF NamesInv, Names
<1>8. CASE Pack(p)
  <2>1. CASE Goto(p, "rm") /\ UNCHANGED files
    BY <1>8, <1>t, <1>g, <2>1 DEF Pack, Making, Before, Points, Paused
  <2>2. CASE ~(Goto(p, "rm") /\ UNCHANGED files)
    <3>1. PICK f \in Mine(p) : ~f.tmp /\ files' = (files \ {f}) \cup {Returned(f)}
      BY <1>8, <2>2 DEF Pack
    <3>2. /\ pc[p] = "pack" /\ pc' = [pc EXCEPT ![p] = "on"] /\ ok' = [ok EXCEPT ![p] = TRUE]
          /\ UNCHANGED <<clock, stamp>>
      BY <1>8, <2>2 DEF Pack
    <3>3. f \in files /\ f \in File /\ ~f.busy  BY <1>t, <3>1 DEF Mine, FilesOK
    <3> DEFINE g == Returned(f)
    <3>4. g \in File /\ g.ts = f.ts /\ ~g.busy /\ ~g.tmp  BY <3>1, <3>3 DEF File, Returned
    <3>5. files' = (files \ {f}) \cup {g}  BY <3>1
    <3> HIDE DEF g
    <3>6. FilesOK(files')  BY <1>t, <3>3, <3>4, <3>5, FileReplaced
    <3>7. \A h \in files' : \E k \in files : k.ts = h.ts  BY <3>3, <3>4, <3>5
    <3>8. stamp[p] \in Times  BY <3>2 DEF NamesInv, Names, Making
    <3>. QED BY <1>t, <3>2, <3>6, <3>7, <3>8, NamesStay DEF Making, Before, Points, Paused
  <2>. QED BY <2>1, <2>2
<1>9. CASE Unlink(p)
  BY <1>9, <1>t, <1>g DEF Unlink, Making, Before, Points, Paused
<1>10. CASE Resume(p)
  BY <1>10, <1>t, <1>g, <1>l DEF Resume, Making, Before, Points
<1>11. CASE List(p)
  <2>1. CASE Leave(p)  BY <1>11, <1>l, <2>1 DEF List
  <2>2. CASE ~Leave(p)
    <3>1. /\ pc[p] = "list" /\ pc' = [pc EXCEPT ![p] = "delete"]
          /\ UNCHANGED <<files, clock, stamp, ok>>
      BY <1>11, <2>2 DEF List
    <3>. QED BY <1>t, <3>1, NamesStay DEF Making, Before, Points
  <2>. QED BY <2>1, <2>2
<1>12. CASE Delete(p)
  BY <1>12, <1>l DEF Delete
<1>13. CASE Send(p)
  BY <1>13, <1>l DEF Send
<1>14. CASE Interrupt(p)
  BY <1>14, <1>t, <1>g, <1>l DEF Interrupt, Making, Before, Points, Paused
<1>. QED BY <1>1, <1>2, <1>3, <1>4, <1>5, <1>6, <1>7, <1>8, <1>9, <1>10, <1>11, <1>12, <1>13, <1>14
         DEF Client

(* The host renames nothing but what its script has written. *)
LEMMA HostKeepsNames ==
    ASSUME NamesInv, HostStep
    PROVE  /\ Names' /\ UNCHANGED <<clock, doomed>>
           /\ \A f \in files : \E g \in files' : g.ts = f.ts
<1>. USE DEF server, disk, local, ghosts, switch
<1>1. UNCHANGED <<clock, pc, stamp, ok, doomed>>
  BY DEF HostStep, Script, Execute, Autosave, Crash, StopServer, StartServer
<1>2. /\ FilesOK(files')
      /\ \A g \in files' : \E f \in files : f.ts = g.ts
      /\ \A f \in files : \E g \in files' : g.ts = f.ts
  <2>0. FilesOK(files)  BY DEF NamesInv, Names
  <2>1. ASSUME NEW f \in files, Script(f)
        PROVE  /\ FilesOK(files')
               /\ \A g \in files' : \E h \in files : h.ts = g.ts
               /\ \A h \in files : \E g \in files' : g.ts = h.ts
    <3>1. PICK renamed \in BOOLEAN : files' = (files \ {f}) \cup {Ended(f, renamed)}
      BY <2>1 DEF Script
    <3>2. f \in File /\ f.tmp /\ ~f.reported  BY <2>0, <2>1 DEF Script, FilesOK
    <3> DEFINE g == Ended(f, renamed)
    <3>3. g \in File /\ g.ts = f.ts /\ ~g.busy /\ ~g.reported  BY <3>2 DEF File, Ended
    <3>4. files' = (files \ {f}) \cup {g}  BY <3>1
    <3> HIDE DEF g
    <3>5. FilesOK(files')  BY <2>0, <3>3, <3>4, FileReplaced
    <3>. QED BY <3>3, <3>4, <3>5
  <2>2. CASE Execute \/ Autosave \/ Crash \/ StopServer \/ StartServer
    <3>1. files' = Spoilt \/ files' = files
      BY <2>2 DEF Execute, Autosave, Crash, StopServer, StartServer
    <3>. QED BY <2>0, <3>1, FilesSpoilt
  <2>. QED BY <2>1, <2>2 DEF HostStep
<1>. QED BY <1>1, <1>2 DEF NamesInv, Names

(* What is doomed is older than the last name. *)
LEMMA ClientKeepsSpared ==
    ASSUME NamesInv, NEW p \in Clients, Client(p)
    PROVE  Spared'
<1>. USE DEF disk, local
<1>t. /\ doomed \in [Clients -> SUBSET File] /\ clock \in Nat /\ FilesOK(files)
      /\ \A f \in files : f.ts < clock
      /\ \A q \in Clients : \A g \in doomed[q] : g.ts + 1 < clock /\ g.ts \in Nat
  <2>1. \A g \in File : g.ts \in Nat  BY TimesAssumption DEF File
  <2>. QED BY <2>1 DEF NamesInv, Plain, Names, Spared
<1>1. CASE doomed' = doomed /\ clock' \in {clock, clock + 1}
  BY <1>1, <1>t DEF Spared
<1>2. CASE doomed' = [doomed EXCEPT ![p] = {}] /\ clock' = clock
  BY <1>2, <1>t DEF Spared
<1>3. CASE List(p) /\ doomed' # [doomed EXCEPT ![p] = {}]
  <2> DEFINE dropped == plan_rotation(files).dropped
  <2>1. doomed' = [doomed EXCEPT ![p] = dropped] /\ clock' = clock
    BY <1>3 DEF List, Leave
  <2>2. dropped \in SUBSET files /\ \A e \in dropped : \E f \in files : f.ts > e.ts
    BY <1>t, PlanDrops
  <2> HIDE DEF dropped
  <2>3. \A e \in dropped : e.ts + 1 < clock
    <3>1. \A f \in files : f.ts \in Nat  BY <1>t, TimesAssumption DEF FilesOK, File
    <3>. QED BY <1>t, <2>2, <3>1
  <2>. QED BY <1>t, <2>1, <2>3 DEF Spared
<1>4. \/ doomed' = doomed /\ clock' \in {clock, clock + 1}
      \/ doomed' = [doomed EXCEPT ![p] = {}] /\ clock' = clock
      \/ List(p) /\ doomed' # [doomed EXCEPT ![p] = {}]
  BY DEF Client, Begin, Look, SaveOff, Flush, Wait, Undo, Tar, Pack, Unlink, Resume, List,
         Delete, Send, Interrupt, Goto, Leave
<1>. QED BY <1>1, <1>2, <1>3, <1>4


--------------------------------------------------------------------------------
(* Names, types and plans are kept by every step ... *)
LEMMA NamesInductive == NamesInv /\ [Next]_vars => NamesInv'
<1> SUFFICES ASSUME NamesInv, [Next]_vars  PROVE NamesInv'
  OBVIOUS
<1>1. ASSUME NEW p \in Clients, Client(p)  PROVE NamesInv'
  BY <1>1, ClientKeepsPlain, ClientKeepsNames, ClientKeepsSpared DEF NamesInv, Names
<1>2. CASE HostStep
  <2>1. Spared'  BY <1>2, HostKeepsNames DEF NamesInv, Spared
  <2>. QED BY <1>2, <2>1, HostKeepsPlain, HostKeepsNames DEF NamesInv
<1>3. CASE UNCHANGED vars
  BY <1>3 DEF vars, server, disk, local, ghosts, switch, NamesInv, Plain, Names, Spared, FilesOK
<1>. QED BY <1>1, <1>2, <1>3 DEF Next, HostStep

(* ... and hold at the start. *)
LEMMA NamesInit == Init => NamesInv
<1> SUFFICES ASSUME Init  PROVE NamesInv
  OBVIOUS
<1>1. inbox \in Seq(Words) /\ IsFiniteSet(files) /\ files = {}  BY FS_EmptySet DEF Init
<1>2. Plain  BY <1>1 DEF Init, Plain, Points
<1>3. Names
  BY <1>1, ClientsAssumption DEF Init, Names, FilesOK, Making, Before
<1>4. Spared  BY DEF Init, Spared
<1>. QED BY <1>2, <1>3, <1>4 DEF NamesInv

(* Every value has its type, what bears a final name is whole, and no two files  *)
(* have one time: for any commands of any number of clients, with or without    *)
(* the lock.                                                                *)
THEOREM BackupTyped == Spec => []TypeOK
<1>1. NamesInv => TypeOK
  BY DEF NamesInv, Plain, Names, FilesOK, TypeOK
<1>. QED BY <1>1, NamesInit, NamesInductive, PTL DEF Spec

(* Whatever directory the backups of any clients, crashes and interrupts have    *)
(* made, plan_rotation keeps the newest few and the newest of the latest days    *)
(* and weeks, and every full archive: whatever the counts and the calendar.      *)
THEOREM RotationIsPolicy == Spec => []PlanIsPolicy
<1>1. NamesInv => PlanIsPolicy
  BY PlanDrops DEF NamesInv, Names, PlanIsPolicy
<1>. QED BY <1>1, NamesInit, NamesInductive, PTL DEF Spec

--------------------------------------------------------------------------------
(* Archives.  For any number of clients, archives and console commands, with    *)
(* or without the lock; late flushes and repeated commands included.            *)

Locked(p) == cmd[p] \notin Lockless

(* Who makes an archive with the lock holds it from its look to its save-on;     *)
(* and nobody with a lock only saves.                                         *)
Holder == \A p \in Clients : /\ pc[p] \in Making /\ Locked(p) => lock = p
                             /\ pc[p] = "send" => ~Locked(p)

(* Whatever waits at the console, a flush comes last. *)
Tidy(q) == q = <<>> \/ q[Len(q)] = "save-all"

(* Nothing is left that writes the world. *)
Quiet == up => inbox = <<>> /\ ~autosave

(* What the pause has come to on a server that is up, and what it is for.        *)
Stage(p) ==
    /\ up /\ pc[p] = "flush" => WillBeOff(autosave, inbox)
    /\ up /\ pc[p] \in {"wait", "tar"} => WillBeOff(autosave, inbox) /\ Tidy(inbox)
    /\ pc[p] = "pack" => \A f \in Mine(p) : /\ f.busy => f.excuse \/ (f.clean /\ Quiet)
                                            /\ ~f.tmp => f.excuse \/ f.clean

(* Of a client with the lock, unless somebody without it has meddled. *)
Stages == ~meddled => \A p \in Clients : Locked(p) => Stage(p)

(* Nothing is promised of an archive that was begun without the lock. *)
Disclaimed ==
    \A p \in Clients : pc[p] = "pack" /\ ~Locked(p) =>
        \A f \in Mine(p) : f.busy \/ ~f.tmp => f.excuse

ArchiveInv == SwitchInv /\ NamesInv /\ Holder /\ Stages /\ Disclaimed /\ ReportedConsistent

--------------------------------------------------------------------------------
(* The queue *)

(* A save-off at the end of the queue turns autosave off. *)
LEMMA OffAtTheEnd ==
    ASSUME NEW s, NEW q \in Seq(Words), NEW r, Extended(q, r, "save-off")
    PROVE  WillBeOff(s, r)
<1>1. "save-off" \in Words  BY DEF Words
<1>2. /\ Len(r) \in Nat /\ Len(q) \in Nat /\ Len(r) > Len(q)
      /\ r[Len(r)] = "save-off"
  BY <1>1, ExtendedQueue
<1>. QED BY <1>2 DEF WillBeOff

(* A flush at the end leaves the switch as it will be. *)
LEMMA FlushAtTheEnd ==
    ASSUME NEW s, NEW q \in Seq(Words), NEW r, Extended(q, r, "save-all"), WillBeOff(s, q)
    PROVE  WillBeOff(s, r) /\ Tidy(r)
<1>1. "save-all" \in Words  BY DEF Words
<1>2. /\ Len(r) \in Nat /\ Len(q) \in Nat /\ Len(r) > Len(q)
      /\ \A i \in 1..Len(q) : r[i] = q[i]
      /\ \A i \in 1..Len(r) : i > Len(q) => r[i] = "save-all"
  BY <1>1, ExtendedQueue
<1>3. Tidy(r)  BY <1>2 DEF Tidy
<1>4. CASE s = FALSE /\ \A i \in 1..Len(q) : q[i] # "save-on"
  <2>1. \A i \in 1..Len(r) : r[i] # "save-on"
    <3>1. TAKE i \in 1..Len(r)
    <3>2. i \in 1..Len(q) \/ i > Len(q)  BY <1>2
    <3>. QED BY <1>2, <1>4, <3>2
  <2>. QED BY <1>3, <1>4, <2>1 DEF WillBeOff
<1>5. CASE \E i \in 1..Len(q) : /\ q[i] = "save-off"
                                /\ \A j \in 1..Len(q) : j > i => q[j] # "save-on"
  <2>1. PICK i \in 1..Len(q) : /\ q[i] = "save-off"
                               /\ \A j \in 1..Len(q) : j > i => q[j] # "save-on"
    BY <1>5
  <2>2. i \in 1..Len(r) /\ r[i] = "save-off"  BY <1>2, <2>1
  <2>3. \A j \in 1..Len(r) : j > i => r[j] # "save-on"
    <3>1. TAKE j \in 1..Len(r)
    <3>2. j \in 1..Len(q) \/ j > Len(q)  BY <1>2
    <3>. QED BY <1>2, <2>1, <3>2
  <2>. QED BY <1>3, <2>2, <2>3 DEF WillBeOff
<1>. QED BY <1>4, <1>5 DEF WillBeOff

(* The other half of ExecutionKeepsOutcome. *)
LEMMA ExecutionBringsOutcome ==
    ASSUME NEW s, NEW q \in Seq(Words), q # <<>>,
           NEW t, t = CASE Head(q) = "save-off" -> FALSE
                        [] Head(q) = "save-on" -> TRUE
                        [] OTHER -> s,
           WillBeOff(s, q)
    PROVE  WillBeOff(t, Tail(q))
<1>1. /\ Tail(q) \in Seq(Words) /\ Len(q) \in Nat /\ Len(q) >= 1
      /\ Len(Tail(q)) = Len(q) - 1 /\ Head(q) = q[1] /\ Head(q) \in Words
      /\ \A i \in 1..Len(Tail(q)) : Tail(q)[i] = q[i + 1]
  OBVIOUS
<1>2. CASE s = FALSE /\ \A i \in 1..Len(q) : q[i] # "save-on"
  <2>1. t = FALSE  BY <1>1, <1>2
  <2>2. \A i \in 1..Len(Tail(q)) : Tail(q)[i] # "save-on"
    <3>1. TAKE i \in 1..Len(Tail(q))
    <3>2. i + 1 \in 1..Len(q)  BY <1>1
    <3>. QED BY <1>1, <1>2, <3>2
  <2>. QED BY <2>1, <2>2 DEF WillBeOff
<1>3. CASE \E i \in 1..Len(q) : /\ q[i] = "save-off"
                                /\ \A j \in 1..Len(q) : j > i => q[j] # "save-on"
  <2>1. PICK i \in 1..Len(q) : /\ q[i] = "save-off"
                               /\ \A j \in 1..Len(q) : j > i => q[j] # "save-on"
    BY <1>3
  <2>2. \A j \in 1..Len(Tail(q)) : j + 1 > i => Tail(q)[j] # "save-on"
    <3>1. TAKE j \in 1..Len(Tail(q))
    <3>2. j + 1 \in 1..Len(q)  BY <1>1
    <3>. QED BY <1>1, <2>1, <3>2
  <2>3. CASE i = 1
    <3>1. t = FALSE  BY <1>1, <2>1, <2>3
    <3>2. \A j \in 1..Len(Tail(q)) : Tail(q)[j] # "save-on"  BY <1>1, <2>2, <2>3
    <3>. QED BY <3>1, <3>2 DEF WillBeOff
  <2>4. CASE i # 1
    <3>1. i - 1 \in 1..Len(Tail(q)) /\ (i - 1) + 1 = i  BY <1>1, <2>4
    <3>2. Tail(q)[i - 1] = "save-off"  BY <1>1, <2>1, <3>1
    <3>3. \A j \in 1..Len(Tail(q)) : j > i - 1 => Tail(q)[j] # "save-on"  BY <1>1, <2>2
    <3>. QED BY <3>1, <3>2, <3>3 DEF WillBeOff
  <2>. QED BY <2>3, <2>4
<1>. QED BY <1>2, <1>3 DEF WillBeOff

(* What is left of a queue ends as it did. *)
LEMMA ExecutionKeepsTidy ==
    ASSUME NEW q \in Seq(Words), q # <<>>, Tidy(q)
    PROVE  Tidy(Tail(q))
<1> DEFINE r == Tail(q)
<1>1. /\ r \in Seq(Words) /\ Len(q) \in Nat /\ Len(q) >= 1 /\ Len(r) = Len(q) - 1
      /\ \A i \in 1..Len(r) : r[i] = q[i + 1]
  OBVIOUS
<1> HIDE DEF r
<1>2. CASE Len(r) = 0
  <2>1. r = <<>>  BY <1>1, <1>2, EmptySeq
  <2>. QED BY <2>1 DEF Tidy, r
<1>3. CASE Len(r) # 0
  <2>1. r[Len(r)] = q[Len(q)]  BY <1>1, <1>3
  <2>. QED BY <2>1 DEF Tidy, r
<1>. QED BY <1>2, <1>3

(* When a tidy queue holds no flush, it is empty, and the switch is off. *)
LEMMA NothingLeft ==
    ASSUME NEW s, NEW q \in Seq(Words), Tidy(q), WillBeOff(s, q), "save-all" \notin ToSet(q)
    PROVE  q = <<>> /\ s = FALSE
<1>1. q = <<>>
  <2>1. SUFFICES ASSUME q # <<>>  PROVE FALSE
    OBVIOUS
  <2>2. q[Len(q)] = "save-all" /\ Len(q) \in DOMAIN q  BY <2>1 DEF Tidy
  <2>. QED BY <2>2 DEF ToSet
<1>2. Len(q) = 0 /\ 1..0 = {}  BY <1>1
<1>. QED BY <1>1, <1>2 DEF WillBeOff

--------------------------------------------------------------------------------
(* The stages *)

(* A step of one client on the archives of another: none. *)
LEMMA OthersFiles ==
    ASSUME NamesInv, NEW p \in Clients, Client(p), NEW q \in Clients, q # p, pc[q] \in Making
    PROVE  /\ pc'[q] = pc[q] /\ cmd'[q] = cmd[q] /\ stamp'[q] = stamp[q]
           /\ Mine(q)' \subseteq Mine(q)
<1>. USE DEF local, server, disk
<1>1. pc'[q] = pc[q] /\ cmd'[q] = cmd[q] /\ stamp'[q] = stamp[q]
  BY DEF NamesInv, Plain, Client, Begin, Look, SaveOff, Flush, Wait, Undo, Tar, Pack, Unlink,
         Resume, List, Delete, Send, Interrupt, Goto, Leave
<1>2. stamp[q] \in Times /\ stamp[p] # stamp[q]
  BY DEF NamesInv, Names
<1>3. \/ files' \subseteq files
      \/ \E g : files' = files \cup {g} /\ g.ts = stamp[p]
      \/ \E f \in files : \E g : files' = (files \ {f}) \cup {g} /\ g.ts = stamp[p]
  <2>1. CASE Tar(p)
    <3>1. PICK full \in BOOLEAN : files' = files \cup {Begun(p, full)}
      BY <2>1 DEF Tar
    <3>2. Begun(p, full).ts = stamp[p]  BY DEF Begun
    <3>. QED BY <3>1, <3>2
  <2>2. CASE Pack(p)
    <3>1. CASE files' = files  BY <3>1
    <3>2. CASE files' # files
      <4>1. PICK f \in Mine(p) :
               files' = (files \ {f}) \cup {Returned(f)}
        BY <2>2, <3>2 DEF Pack
      <4>2. f \in files /\ f \in File /\ f.ts = stamp[p]  BY DEF Mine, NamesInv, Names, FilesOK
      <4>3. Returned(f).ts = stamp[p]
        BY <4>2 DEF File, Returned
      <4>. QED BY <4>1, <4>2, <4>3
    <3>. QED BY <3>1, <3>2
  <2>3. CASE ~Tar(p) /\ ~Pack(p)
    BY <2>3 DEF Client, Begin, Look, SaveOff, Flush, Wait, Undo, Unlink, Resume, List, Delete, Send,
                Interrupt
  <2>. QED BY <2>1, <2>2, <2>3
<1>4. Mine(q)' \subseteq Mine(q)
  BY <1>1, <1>2, <1>3 DEF Mine
<1>. QED BY <1>1, <1>4

(* Whoever has no lock and uses the console, or has one and makes no archive,    *)
(* leaves a client's stage as it was, or has meddled.                          *)
LEMMA OthersStage ==
    ASSUME ArchiveInv, NEW p \in Clients, Client(p), NEW q \in Clients, q # p,
           ~meddled', (Locked(q))'
    PROVE  Stage(q)'
<1>. USE DEF local, server, disk, ghosts, switch
<1>t. /\ pc \in [Clients -> Points] /\ cmd \in [Clients -> Commands \cup {"none"}]
      /\ meddled \in BOOLEAN
  BY DEF ArchiveInv, NamesInv, Plain
<1>0. pc'[q] = pc[q] /\ cmd'[q] = cmd[q]
  BY <1>t DEF Client, Begin, Look, SaveOff, Flush, Wait, Undo, Tar, Pack, Unlink, Resume, List,
              Delete, Send, Interrupt, Goto, Leave
<1>1. CASE pc[q] \notin {"flush", "wait", "tar", "pack"}
  BY <1>0, <1>1 DEF Stage
<1>2. CASE pc[q] \in {"flush", "wait", "tar", "pack"}
  <2>1. lock = q /\ LockedArchive /\ Locked(q) /\ pc[q] \in Making
    BY <1>0, <1>2 DEF ArchiveInv, Holder, Making, LockedArchive, Locked
  <2>2. Mine(q)' \subseteq Mine(q)
    BY <2>1, OthersFiles DEF ArchiveInv
  <2>3. /\ ~meddled /\ UNCHANGED <<up, inbox, autosave>>
    <3>1. CASE Locked(p)
      <4>1. pc[p] \notin Making /\ pc[p] # "send"
        BY <2>1, <3>1 DEF ArchiveInv, Holder
      <4>. QED BY <4>1 DEF Client, Begin, Look, SaveOff, Flush, Wait, Undo, Tar, Pack, Unlink,
                          Resume, List, Delete, Send, Interrupt, Making
    <3>2. CASE ~Locked(p)
      <4>1. cmd[p] \in Lockless /\ lock # p  BY <2>1, <3>2 DEF Locked
      <4>2. ~Meddle(p)  BY <2>1, <4>1 DEF Meddle
      <4>3. CASE Look(p) \/ Pack(p)
        BY <1>t, <4>1, <4>3 DEF Look, Pack
      <4>4. CASE Resume(p)
        BY <1>t, <4>2, <4>4 DEF Resume, SaveOn
      <4>5. CASE ~(Look(p) \/ Pack(p) \/ Resume(p))
        BY <1>t, <4>2, <4>5 DEF Client, Begin, SaveOff, Flush, Wait, Undo, Tar, Unlink, List, Delete,
                                Send, Interrupt, SaveOn
      <4>. QED BY <4>3, <4>4, <4>5
    <3>. QED BY <3>1, <3>2
  <2>4. Stage(q)  BY <2>1, <2>3 DEF ArchiveInv, Stages
  <2>. QED BY <1>0, <2>2, <2>3, <2>4 DEF Stage, Quiet
<1>. QED BY <1>1, <1>2

(* What a step does to the stage of its own client. *)
LEMMA OwnStage ==
    ASSUME ArchiveInv, NEW p \in Clients, Client(p), ~meddled', (Locked(p))'
    PROVE  Stage(p)'
<1>. USE DEF local, server, disk, ghosts, switch
<1>t. /\ pc \in [Clients -> Points] /\ cmd \in [Clients -> Commands \cup {"none"}]
      /\ stamp \in [Clients -> Times \cup {None}] /\ inbox \in Seq(Words)
      /\ up \in BOOLEAN /\ autosave \in BOOLEAN /\ (up \/ inbox = <<>>) /\ meddled \in BOOLEAN
      /\ ~meddled /\ Locked(p) => Stage(p)
  BY DEF ArchiveInv, NamesInv, Plain, SwitchInv, SwitchTypes, Stages
<1>w. "save-off" \in Words /\ "save-all" \in Words
  BY DEF Words
<1>1. CASE pc'[p] \notin {"flush", "wait", "tar", "pack"}
  BY <1>1 DEF Stage
<1>2. CASE SaveOff(p) /\ pc'[p] = "flush"
  <2>1. Delivered("save-off") /\ up' = up /\ autosave' = autosave
    BY <1>2, <1>t DEF SaveOff, Goto
  <2>2. up => Extended(inbox, inbox', "save-off")  BY <2>1 DEF Delivered, Extended
  <2>3. up => WillBeOff(autosave, inbox')  BY <1>t, <2>2, OffAtTheEnd
  <2>. QED BY <1>2, <2>1, <2>3 DEF Stage
<1>3. CASE Flush(p) /\ pc'[p] = "wait"
  <2>1. /\ Delivered("save-all") /\ up' = up /\ autosave' = autosave /\ pc[p] = "flush"
        /\ cmd' = cmd
    BY <1>3, <1>t DEF Flush, Goto
  <2>2. up => Extended(inbox, inbox', "save-all")  BY <2>1 DEF Delivered, Extended
  <2>3. ~meddled  BY <1>3, <1>t DEF Flush, Meddle
  <2>4. up => WillBeOff(autosave, inbox)  BY <1>t, <2>1, <2>3 DEF Stage, Locked
  <2>5. up => WillBeOff(autosave, inbox') /\ Tidy(inbox')
    BY <1>t, <2>2, <2>4, FlushAtTheEnd
  <2>. QED BY <1>3, <2>1, <2>5 DEF Stage
<1>4. CASE Wait(p) /\ pc'[p] = "tar"
  BY <1>4, <1>t DEF Wait, Goto, Stage, Locked
<1>5. CASE Look(p) /\ pc'[p] = "tar"
  <2>1. ~up /\ up' = up  BY <1>5, <1>t DEF Look, Leave
  <2>. QED BY <1>5, <2>1 DEF Stage
<1>6. CASE Tar(p)
  <2>0. /\ pc[p] = "tar" /\ ~meddled /\ Locked(p)
        /\ UNCHANGED <<up, autosave, inbox, stamp>> /\ pc'[p] = "pack"
    BY <1>6, <1>t DEF Tar, Goto, Locked
  <2>1. \A f \in files : f.ts # stamp[p]
    BY <2>0 DEF ArchiveInv, NamesInv, Names, Before, Making
  <2>2. PICK full \in BOOLEAN : files' = files \cup {Begun(p, full)}
    BY <1>6 DEF Tar
  <2>3. \A f \in Mine(p)' : f.clean /\ f.tmp /\ f.excuse = ("save-all" \in ToSet(inbox))
    BY <2>0, <2>1, <2>2 DEF Mine, Locked, Begun
  <2>4. "save-all" \in ToSet(inbox) \/ Quiet
    BY <1>t, <2>0, NothingLeft DEF Stage, Quiet
  <2>. QED BY <2>0, <2>3, <2>4 DEF Stage, Quiet
<1>7. pc'[p] \in {"flush", "wait", "tar", "pack"} =>
         \/ SaveOff(p) /\ pc'[p] = "flush"
         \/ Flush(p) /\ pc'[p] = "wait"
         \/ Wait(p) /\ pc'[p] = "tar"
         \/ Look(p) /\ pc'[p] = "tar"
         \/ Tar(p)
  <2>1. ASSUME NEW c \in UserCommands, Begin(p, c)  PROVE pc'[p] \in {"look", "list", "send"}
    BY <2>1, <1>t, CommandsAssumption DEF Begin, FirstPoint, Commands
  <2>. QED BY <1>t, <2>1 DEF Client, Look, SaveOff, Flush, Wait, Undo, Pack, Unlink, Resume, List,
                             Delete, Send, Interrupt, Goto, Leave
<1>. QED BY <1>1, <1>2, <1>3, <1>4, <1>5, <1>6, <1>7

(* Who holds the lock, and what is not promised. *)
LEMMA ClientKeepsHolder ==
    ASSUME ArchiveInv, NEW p \in Clients, Client(p)
    PROVE  Holder'
<1>. USE DEF local, server, disk, ghosts, switch
<1>t. /\ pc \in [Clients -> Points] /\ cmd \in [Clients -> Commands \cup {"none"}]
      /\ None \notin Clients
  BY ClientsAssumption DEF ArchiveInv, NamesInv, Plain
<1>h. \A q \in Clients : /\ pc[q] \in Making /\ Locked(q) => lock = q
                         /\ pc[q] = "send" => ~Locked(q)
  BY DEF ArchiveInv, Holder
<1>l. ASSUME Leave(p)  PROVE Holder'
  <2>1. ASSUME NEW q \in Clients
        PROVE  /\ pc'[q] \in Making /\ (Locked(q))' => lock' = q
               /\ pc'[q] = "send" => ~(Locked(q))'
    <3>1. CASE q = p  BY <1>t, <1>l, <3>1 DEF Leave, Making
    <3>2. CASE q # p  BY <1>t, <1>h, <1>l, <3>2 DEF Leave, Locked
    <3>. QED BY <3>1, <3>2
  <2>. QED BY <2>1 DEF Holder
<1>g. ASSUME NEW l \in Points, pc' = [pc EXCEPT ![p] = l], UNCHANGED <<lock, cmd>>,
             l \in Making => pc[p] \in Making, l # "send"
      PROVE  Holder'
  BY <1>t, <1>h, <1>g DEF Holder, Locked
<1>1. ASSUME NEW c \in UserCommands, Begin(p, c)  PROVE Holder'
  <2>1. /\ pc' = [pc EXCEPT ![p] = FirstPoint(c)] /\ cmd' = [cmd EXCEPT ![p] = c]
        /\ lock' = IF NeedsLock(c) THEN p ELSE lock
        /\ NeedsLock(c) => lock = None
    BY <1>1 DEF Begin
  <2>2. FirstPoint(c) = "send" => c \in Lockless
    BY CommandsAssumption DEF FirstPoint, Commands, Creates, Lockless
  <2>3. ASSUME NEW q \in Clients
        PROVE  /\ pc'[q] \in Making /\ (Locked(q))' => lock' = q
               /\ pc'[q] = "send" => ~(Locked(q))'
    <3>1. CASE q = p  BY <1>t, <2>1, <2>2, <3>1 DEF Locked, NeedsLock
    <3>2. CASE q # p  BY <1>t, <1>h, <2>1, <3>2 DEF Locked
    <3>. QED BY <3>1, <3>2
  <2>. QED BY <2>3 DEF Holder
<1>2. CASE Look(p)
  BY <1>2, <1>l, <1>g DEF Look, Points, Paused, Making
<1>3. CASE SaveOff(p) \/ Flush(p) \/ Wait(p) \/ Tar(p) \/ Unlink(p)
  BY <1>3, <1>g DEF SaveOff, Flush, Wait, Tar, Unlink, Goto, Points, Paused, Making
<1>4. CASE Pack(p)
  BY <1>4, <1>g DEF Pack, Goto, Points, Paused, Making
<1>5. CASE Resume(p)
  BY <1>5, <1>l, <1>g DEF Resume, Goto, Points, Making
<1>6. CASE List(p)
  BY <1>6, <1>l, <1>g DEF List, Points, Making
<1>7. CASE Interrupt(p)
  BY <1>7, <1>l, <1>g DEF Interrupt, Goto, Points, Paused, Making
<1>8. CASE Undo(p) \/ Delete(p) \/ Send(p)
  BY <1>8, <1>l DEF Undo, Delete, Send
<1>. QED BY <1>1, <1>2, <1>3, <1>4, <1>5, <1>6, <1>7, <1>8 DEF Client

LEMMA ClientKeepsDisclaimed ==
    ASSUME ArchiveInv, NEW p \in Clients, Client(p)
    PROVE  Disclaimed'
<1>. USE DEF local, server, disk
<1>t. /\ pc \in [Clients -> Points] /\ cmd \in [Clients -> Commands \cup {"none"}]
  BY DEF ArchiveInv, NamesInv, Plain
<1>1. SUFFICES ASSUME NEW q \in Clients, pc'[q] = "pack", ~(Locked(q))', NEW f \in Mine(q)',
                      f.busy \/ ~f.tmp
               PROVE  f.excuse
  BY DEF Disclaimed
<1>2. CASE q # p
  <2>1. pc'[q] = pc[q]
    BY <1>t, <1>2 DEF Client, Begin, Look, SaveOff, Flush, Wait, Undo, Tar, Pack, Unlink, Resume,
                      List, Delete, Send, Interrupt, Goto, Leave
  <2>2. pc[q] = "pack" /\ cmd'[q] = cmd[q] /\ f \in Mine(q)
    BY <1>1, <1>2, <2>1, OthersFiles DEF ArchiveInv, Making
  <2>. QED BY <1>1, <2>2 DEF ArchiveInv, Disclaimed, Locked
<1>3. CASE q = p
  <2>1. ASSUME NEW c \in UserCommands, Begin(p, c)  PROVE pc'[p] \in {"look", "list", "send"}
    BY <2>1, <1>t, CommandsAssumption DEF Begin, FirstPoint, Commands
  <2>2. Tar(p)
    BY <1>t, <1>1, <1>3, <2>1
       DEF Client, Look, SaveOff, Flush, Wait, Undo, Pack, Unlink, Resume, List, Delete, Send,
           Interrupt, Goto, Leave
  <2>3. PICK full \in BOOLEAN : files' = files \cup {Begun(p, full)}
    BY <2>2 DEF Tar
  <2>4. \A h \in files : h.ts # stamp[p]
    BY <2>2 DEF Tar, ArchiveInv, NamesInv, Names, Before, Making
  <2>5. cmd'[p] \in Lockless /\ cmd' = cmd /\ stamp' = stamp
    BY <1>1, <1>3, <2>2 DEF Tar, Goto, Locked
  <2>6. f = Begun(p, full)  BY <1>1, <1>3, <2>3, <2>4, <2>5 DEF Mine
  <2>7. cmd[p] \in Lockless  BY <2>5
  <2>. QED BY <2>6, <2>7 DEF Begun
<1>. QED BY <1>2, <1>3

(* A reported archive was good when it was reported. *)
LEMMA ClientKeepsReported ==
    ASSUME ArchiveInv, NEW p \in Clients, Client(p)
    PROVE  ReportedConsistent'
<1>. USE DEF local, server, disk
<1>r. \A f \in files : f.reported => f.clean \/ f.excuse
  BY DEF ArchiveInv, ReportedConsistent
<1>1. CASE Pack(p) /\ files' # files
  <2>1. PICK f \in Mine(p) :
           /\ ~f.tmp
           /\ files' = (files \ {f}) \cup {Returned(f)}
    BY <1>1 DEF Pack
  <2>2. f \in File /\ f \in files  BY DEF Mine, ArchiveInv, NamesInv, Names, FilesOK
  <2> DEFINE g == Returned(f)
  <2>3. g.clean = f.clean /\ g.excuse = (~f.clean /\ (f.excuse \/ meddled))  BY <2>2 DEF File, Returned
  <2>4. files' = (files \ {f}) \cup {g}  BY <2>1
  <2> HIDE DEF g
  <2>5. f.clean \/ f.excuse \/ meddled
    <3>1. pc[p] = "pack"  BY <1>1 DEF Pack
    <3>2. CASE Locked(p)  BY <2>1, <3>1, <3>2 DEF ArchiveInv, Stages, Stage
    <3>3. CASE ~Locked(p)  BY <2>1, <3>1, <3>3 DEF ArchiveInv, Disclaimed
    <3>. QED BY <3>2, <3>3
  <2>6. f.clean \in BOOLEAN  BY <2>2 DEF File
  <2>7. g.clean \/ g.excuse  BY <2>3, <2>5, <2>6
  <2>. QED BY <1>r, <2>4, <2>7 DEF ReportedConsistent
<1>2. CASE Tar(p)
  <2>1. PICK full \in BOOLEAN : files' = files \cup {Begun(p, full)}
    BY <1>2 DEF Tar
  <2>. QED BY <1>r, <2>1 DEF ReportedConsistent, Begun
<1>3. CASE files' \subseteq files
  BY <1>r, <1>3 DEF ReportedConsistent
<1>4. (Pack(p) /\ files' # files) \/ Tar(p) \/ files' \subseteq files
  BY DEF Client, Begin, Look, SaveOff, Flush, Wait, Undo, Unlink, Resume, List, Delete, Send,
         Interrupt
<1>. QED BY <1>1, <1>2, <1>3, <1>4

--------------------------------------------------------------------------------
(* The host *)

(* What the host does to an archive that bears a name: it may spoil one that is   *)
(* busy, while the server writes, or end the script.                            *)
LEMMA HostOnFiles ==
    ASSUME ArchiveInv, HostStep, NEW g \in files'
    PROVE  \E f \in files : /\ g.ts = f.ts /\ g.reported = f.reported
                            /\ \/ g = f
                               \/ /\ f.busy /\ ~g.busy
                                  /\ ~g.tmp => g.clean = f.clean /\ g.excuse = f.excuse
                                  /\ UNCHANGED server
                               \/ /\ f.busy /\ g.busy /\ g.tmp /\ g.excuse = f.excuse
                                  /\ \/ Execute /\ Head(inbox) = "save-all"
                                     \/ Autosave \/ StopServer \/ StartServer
<1>. USE DEF server
<1>t. \A f \in files : f \in File /\ (f.busy => f.tmp) /\ (f.reported => ~f.tmp)
  BY DEF ArchiveInv, NamesInv, Names, FilesOK
<1>1. ASSUME NEW h \in files, Script(h)
      PROVE  \E f \in files : /\ g.ts = f.ts /\ g.reported = f.reported
                              /\ \/ g = f
                                 \/ /\ f.busy /\ ~g.busy
                                    /\ ~g.tmp => g.clean = f.clean /\ g.excuse = f.excuse
                                    /\ UNCHANGED server
  <2>1. PICK renamed \in BOOLEAN : files' = (files \ {h}) \cup {Ended(h, renamed)}
    BY <1>1 DEF Script
  <2>2. h.busy /\ UNCHANGED server  BY <1>1 DEF Script
  <2> DEFINE k == Ended(h, renamed)
  <2>3. /\ k.ts = h.ts /\ k.reported = h.reported /\ ~k.busy /\ k.tmp = ~renamed
        /\ k.clean = (h.clean /\ renamed) /\ k.excuse = (h.excuse /\ renamed)
    BY <1>t DEF File, Ended
  <2>4. files' = (files \ {h}) \cup {k}  BY <2>1
  <2> HIDE DEF k
  <2>5. h.clean \in BOOLEAN /\ h.excuse \in BOOLEAN  BY <1>t DEF File
  <2>6. ~k.tmp => k.clean = h.clean /\ k.excuse = h.excuse  BY <2>3, <2>5
  <2>7. CASE g = k  BY <2>2, <2>3, <2>6, <2>7
  <2>8. CASE g # k  BY <2>4, <2>8
  <2>. QED BY <2>7, <2>8
<1>2. CASE files' = files
  BY <1>2
<1>3. CASE files' = Spoilt /\ (\/ Execute /\ Head(inbox) = "save-all"
                               \/ Autosave \/ StopServer \/ StartServer)
  <2>1. PICK f \in files : g = IF f.busy THEN [f EXCEPT !.clean = FALSE] ELSE f
    BY <1>3 DEF Spoilt
  <2>2. CASE ~f.busy  BY <2>1, <2>2
  <2>3. CASE f.busy
    <3>1. f \in File /\ f.tmp  BY <1>t, <2>3
    <3>2. /\ g.ts = f.ts /\ g.reported = f.reported /\ g.busy = f.busy /\ g.tmp = f.tmp
          /\ g.excuse = f.excuse
      BY <2>1, <2>3, <3>1 DEF File
    <3>. QED BY <1>3, <2>3, <3>1, <3>2
  <2>. QED BY <2>2, <2>3
<1>4. \/ \E h \in files : Script(h)
      \/ files' = files
      \/ files' = Spoilt /\ (\/ Execute /\ Head(inbox) = "save-all"
                             \/ Autosave \/ StopServer \/ StartServer)
  BY DEF HostStep, Execute, Autosave, Crash, StopServer, StartServer, disk
<1>. QED BY <1>1, <1>2, <1>3, <1>4

(* Nothing writes the world between the flush and the end of the script: the      *)
(* console is empty, autosave is off, and who stops or starts the server waits    *)
(* for the lock or meddles.                                                     *)
LEMMA HostKeepsStage ==
    ASSUME ArchiveInv, HostStep, NEW p \in Clients, ~meddled', (Locked(p))'
    PROVE  Stage(p)'
<1>. USE DEF server, disk, local, ghosts, switch
<1>t. /\ inbox \in Seq(Words) /\ meddled \in BOOLEAN /\ autosave \in BOOLEAN
      /\ pc[p] \in Making /\ Locked(p) => lock = p
      /\ ~meddled /\ Locked(p) => Stage(p)
  BY DEF ArchiveInv, NamesInv, Plain, Holder, Stages
<1>0. UNCHANGED <<pc, cmd, stamp, lock>>
  BY DEF HostStep, Script, Execute, Autosave, Crash, StopServer, StartServer
<1>1. CASE pc[p] \notin {"flush", "wait", "tar", "pack"}
  BY <1>0, <1>1 DEF Stage
<1>2. CASE pc[p] \in {"flush", "wait", "tar", "pack"}
  <2>1. Locked(p) /\ lock = p /\ LockedArchive
    BY <1>0, <1>2, <1>t DEF Making, LockedArchive, Locked
  <2>2. ~StopServer /\ ~StartServer
    BY <2>1 DEF StopServer, StartServer
  <2>3. ~meddled
    BY <2>2 DEF HostStep, Script, Execute, Autosave, Crash
  <2>4. Stage(p)  BY <1>t, <2>1, <2>3
  <2>5. CASE pc[p] \in {"flush", "wait", "tar"}
    <3>1. CASE Execute
      <4>1. /\ up /\ inbox # <<>> /\ inbox' = Tail(inbox)
            /\ autosave' = CASE Head(inbox) = "save-off" -> FALSE
                             [] Head(inbox) = "save-on" -> TRUE
                             [] OTHER -> autosave
        BY <3>1 DEF Execute
      <4>2. WillBeOff(autosave, inbox) /\ (pc[p] \in {"wait", "tar"} => Tidy(inbox))
        BY <2>4, <2>5, <4>1 DEF Stage
      <4>3. WillBeOff(autosave', inbox')  BY <1>t, <4>1, <4>2, ExecutionBringsOutcome
      <4>4. pc[p] \in {"wait", "tar"} => Tidy(inbox')
        BY <1>t, <4>1, <4>2, ExecutionKeepsTidy
      <4>. QED BY <1>0, <2>5, <4>3, <4>4 DEF Stage
    <3>2. CASE Crash
      BY <1>0, <2>5, <3>2 DEF Crash, Stage
    <3>3. CASE Autosave \/ \E f \in files : Script(f)
      <4>1. UNCHANGED server  BY <3>3 DEF Autosave, Script
      <4>. QED BY <1>0, <2>4, <2>5, <4>1 DEF Stage
    <3>. QED BY <2>2, <3>1, <3>2, <3>3 DEF HostStep
  <2>6. CASE pc[p] = "pack"
    <3>1. SUFFICES ASSUME NEW g \in Mine(p)'
                   PROVE  /\ g.busy => g.excuse \/ (g.clean /\ Quiet')
                          /\ ~g.tmp => g.excuse \/ g.clean
      BY <1>0, <2>6 DEF Stage
    <3>2. PICK f \in files : /\ g.ts = f.ts
                             /\ \/ g = f
                                \/ /\ f.busy /\ ~g.busy
                                   /\ ~g.tmp => g.clean = f.clean /\ g.excuse = f.excuse
                                   /\ UNCHANGED server
                                \/ /\ f.busy /\ g.busy /\ g.tmp /\ g.excuse = f.excuse
                                   /\ \/ Execute /\ Head(inbox) = "save-all"
                                      \/ Autosave \/ StopServer \/ StartServer
      BY <3>1, HostOnFiles DEF Mine
    <3>3. f \in Mine(p)  BY <1>0, <3>1, <3>2 DEF Mine
    <3>4. /\ f.busy => f.excuse \/ (f.clean /\ Quiet)
          /\ ~f.tmp => f.excuse \/ f.clean
      BY <2>4, <2>6, <3>3 DEF Stage
    <3>5. Quiet => Quiet' /\ ~Execute /\ ~Autosave
      <4>1. Quiet => ~Execute /\ ~Autosave  BY DEF Quiet, Execute, Autosave
      <4>2. CASE Crash  BY <4>1, <4>2 DEF Quiet, Crash
      <4>3. CASE \E h \in files : Script(h)
        <5>1. UNCHANGED server  BY <4>3 DEF Script
        <5>. QED BY <4>1, <5>1 DEF Quiet
      <4>. QED BY <2>2, <4>1, <4>2, <4>3 DEF HostStep
    <3>. QED BY <2>2, <3>2, <3>4, <3>5
  <2>. QED BY <1>2, <2>5, <2>6
<1>. QED BY <1>1, <1>2

LEMMA HostKeepsPromises ==
    ASSUME ArchiveInv, HostStep
    PROVE  Disclaimed' /\ ReportedConsistent' /\ Holder'
<1>. USE DEF server, disk, local, ghosts, switch
<1>0. UNCHANGED <<pc, cmd, stamp, lock>>
  BY DEF HostStep, Script, Execute, Autosave, Crash, StopServer, StartServer
<1>1. Holder'  BY <1>0 DEF ArchiveInv, Holder, Locked
<1>2. Disclaimed'
  <2>1. SUFFICES ASSUME NEW p \in Clients, pc[p] = "pack", ~Locked(p), NEW g \in Mine(p)',
                        g.busy \/ ~g.tmp
                 PROVE  g.excuse
    BY <1>0 DEF Disclaimed, Locked
  <2>2. PICK f \in files : /\ g.ts = f.ts
                           /\ \/ g = f
                              \/ /\ f.busy /\ ~g.busy
                                 /\ ~g.tmp => g.clean = f.clean /\ g.excuse = f.excuse
                              \/ f.busy /\ g.busy /\ g.excuse = f.excuse
    BY <2>1, HostOnFiles DEF Mine
  <2>3. f \in Mine(p)  BY <1>0, <2>1, <2>2 DEF Mine
  <2>. QED BY <2>1, <2>2, <2>3 DEF ArchiveInv, Disclaimed
<1>3. ReportedConsistent'
  <2>1. SUFFICES ASSUME NEW g \in files', g.reported  PROVE g.clean \/ g.excuse
    BY DEF ReportedConsistent
  <2>2. PICK f \in files : g.reported = f.reported /\ (g = f \/ f.busy)
    BY HostOnFiles
  <2>3. g = f  BY <2>1, <2>2 DEF ArchiveInv, NamesInv, Names, FilesOK
  <2>. QED BY <2>1, <2>3 DEF ArchiveInv, ReportedConsistent
<1>. QED BY <1>1, <1>2, <1>3

--------------------------------------------------------------------------------

(* An archive that create has returned is the world of one moment, or its maker   *)
(* had no lock, did not wait to the end of its flush, or was meddled with by      *)
(* somebody without the lock: for any number of clients, whatever failed,         *)
(* crashed or was interrupted, and whoever else backed up, pruned, stopped or     *)
(* started the server meanwhile (backup.py:3).                                  *)
THEOREM ArchivesAreConsistent == Spec => []ReportedConsistent
<1>1. Init => ArchiveInv
  <2>. SUFFICES ASSUME Init  PROVE ArchiveInv
    OBVIOUS
  <2>1. SwitchInv /\ NamesInv  BY SwitchInit, NamesInit
  <2>2. Holder /\ Stages /\ Disclaimed /\ ReportedConsistent
    BY DEF Init, Holder, Stages, Stage, Disclaimed, ReportedConsistent, Making
  <2>. QED BY <2>1, <2>2 DEF ArchiveInv
<1>2. ArchiveInv /\ [Next]_vars => ArchiveInv'
  <2>. SUFFICES ASSUME ArchiveInv, [Next]_vars  PROVE ArchiveInv'
    OBVIOUS
  <2>1. NamesInv'  BY NamesInductive DEF ArchiveInv
  <2>2. ASSUME NEW p \in Clients, Client(p)  PROVE ArchiveInv'
    <3>1. SwitchInv'  BY <2>2, ClientKeepsSwitch DEF ArchiveInv
    <3>2. Stages'  BY <2>2, OwnStage, OthersStage DEF Stages
    <3>. QED BY <2>1, <2>2, <3>1, <3>2, ClientKeepsHolder, ClientKeepsDisclaimed,
                ClientKeepsReported DEF ArchiveInv
  <2>3. CASE HostStep
    <3>1. SwitchInv'  BY <2>3, HostKeepsSwitch DEF ArchiveInv, HostStep
    <3>2. Stages'  BY <2>3, HostKeepsStage DEF Stages
    <3>. QED BY <2>1, <2>3, <3>1, <3>2, HostKeepsPromises DEF ArchiveInv
  <2>4. CASE UNCHANGED vars
    <3>1. SwitchInv'
      BY <2>4 DEF vars, server, local, ghosts, switch, ArchiveInv, SwitchInv, SwitchTypes,
                  PausedSawServer, Answered, WillBeOff, Pausing
    <3>2. Holder' /\ Stages' /\ Disclaimed' /\ ReportedConsistent'
      BY <2>4 DEF vars, server, disk, local, ghosts, switch, ArchiveInv, Holder, Stages, Stage,
                  Disclaimed, ReportedConsistent, Locked, WillBeOff, Tidy, Quiet, Mine
    <3>. QED BY <2>1, <3>1, <3>2 DEF ArchiveInv
  <2>. QED BY <2>2, <2>3, <2>4 DEF Next, HostStep
<1>3. ArchiveInv => ReportedConsistent
  BY DEF ArchiveInv
<1>. QED BY <1>1, <1>2, <1>3, PTL DEF Spec
--------------------------------------------------------------------------------
(* The last archive *)

(* Whoever chooses the next name has waited for the lock. *)
LEMMA LastKept ==
    ASSUME OneMaker, NamesInv, LastName, [Next]_vars
    PROVE  LastName'
<1>. USE DEF disk, local
<1>t. /\ stamp \in [Clients -> Times \cup {None}] /\ None \notin Times /\ None \notin Clients
  BY ClientsAssumption DEF NamesInv, Plain
<1>1. ASSUME NEW p \in Clients, NEW c \in UserCommands, Begin(p, c)  PROVE LastName'
  <2>1. CASE c \in Creates
    <3>1. NeedsLock(c)
      BY <2>1 DEF OneMaker, Creates, NeedsLock, Lockless
    <3>2. /\ lock = None /\ lock' = p /\ stamp' = [stamp EXCEPT ![p] = clock]
          /\ clock' = clock + 1
      BY <1>1, <2>1, <3>1 DEF Begin
    <3>3. \A q \in Clients : stamp[q] \notin Times  BY <1>t, <3>2 DEF LastName
    <3>. QED BY <1>t, <3>2, <3>3 DEF LastName
  <2>2. CASE c \notin Creates
    <3>1. UNCHANGED <<stamp, clock>> /\ (lock' = lock \/ lock = None)
      BY <1>1, <2>2 DEF Begin
    <3>. QED BY <1>t, <3>1 DEF LastName
  <2>. QED BY <2>1, <2>2
<1>2. ASSUME NEW p \in Clients, stamp' = [stamp EXCEPT ![p] = None], clock' = clock,
             lock' = IF lock = p THEN None ELSE lock
      PROVE  LastName'
  BY <1>2, <1>t DEF LastName
<1>3. CASE UNCHANGED <<stamp, clock, lock>>
  BY <1>3 DEF LastName
<1>4. \/ \E p \in Clients, c \in UserCommands : Begin(p, c)
      \/ \E p \in Clients : /\ stamp' = [stamp EXCEPT ![p] = None] /\ clock' = clock
                            /\ lock' = IF lock = p THEN None ELSE lock
      \/ UNCHANGED <<stamp, clock, lock>>
  BY DEF Next, Client, Look, SaveOff, Flush, Wait, Undo, Tar, Pack, Unlink, Resume, List,
         Delete, Send, Interrupt, Goto, Leave, Script, Execute, Autosave, Crash, StopServer,
         StartServer, vars
<1>. QED BY <1>1, <1>2, <1>3, <1>4

(* No step takes away the archive of a create that is under way. *)
LEMMA StepKeepsMade ==
    ASSUME NamesInv, LastName, [Next]_vars, NEW p \in Clients, ok[p], NEW f \in Mine(p)
    PROVE  \E g \in files' : g.ts = f.ts
<1>. USE DEF disk, local, server
<1>t. /\ f \in files /\ f.ts = stamp[p] /\ stamp[p] \in Times /\ stamp[p] + 1 = clock /\ lock = p
      /\ pc[p] \in {"on", "list", "delete"} /\ clock \in Nat /\ stamp[p] \in Nat
  BY TimesAssumption DEF Mine, NamesInv, Names, Plain, LastName
<1>1. CASE f \in files'
  BY <1>1
<1>2. ASSUME NEW q \in Clients, Client(q), f \notin files'  PROVE \E g \in files' : g.ts = f.ts
  <2>1. Pack(q) \/ Unlink(q) \/ Delete(q)
    BY <1>t, <1>2 DEF Client, Begin, Look, SaveOff, Flush, Wait, Undo, Tar, Resume, List, Send,
                      Interrupt
  <2>2. CASE Pack(q)
    <3>1. PICK h \in Mine(q) : files' = (files \ {h}) \cup {Returned(h)}
      BY <1>t, <1>2, <2>2 DEF Pack
    <3>2. h = f /\ h \in File
      BY <1>t, <1>2, <3>1 DEF Mine, NamesInv, Names, FilesOK
    <3>3. Returned(h).ts = h.ts  BY <3>2 DEF File, Returned
    <3>. QED BY <3>1, <3>2, <3>3
  <2>3. CASE Unlink(q)
    <3>1. pc[q] = "rm" /\ f \in Mine(q)  BY <1>t, <1>2, <2>3 DEF Unlink
    <3>2. q # p /\ stamp[q] = stamp[p]  BY <1>t, <3>1 DEF Mine
    <3>. QED BY <1>t, <3>2 DEF NamesInv, Names
  <2>4. CASE Delete(q)
    <3>1. PICK g \in doomed[q] : f.ts = g.ts  BY <1>t, <1>2, <2>4 DEF Delete
    <3>2. g.ts + 1 < clock  BY <3>1 DEF NamesInv, Spared
    <3>. QED BY <1>t, <3>1, <3>2
  <2>. QED BY <2>1, <2>2, <2>3, <2>4
<1>3. CASE HostStep
  BY <1>3, <1>t, HostKeepsNames
<1>4. CASE UNCHANGED vars
  BY <1>4, <1>t DEF vars
<1>. QED BY <1>1, <1>2, <1>3, <1>4 DEF Next, HostStep

(* When every create takes the lock, no rotation takes away the archive of a     *)
(* create that is under way: not its own, whatever earlier backups have left,    *)
(* and not a prune with a list that is old, which need not take the lock.        *)
THEOREM MadeArchiveIsKept ==
    ASSUME OneMaker
    PROVE  Spec => MadeIsKept
<1>1. Init => LastName
  BY ClientsAssumption DEF Init, LastName
<1>2. NamesInv /\ LastName /\ [Next]_vars => LastName'
  BY LastKept
<1>3. NamesInv /\ LastName /\ [Next]_vars
        => [\A p \in Clients : ok[p] => \A f \in Mine(p) : \E g \in files' : g.ts = f.ts]_vars
  BY StepKeepsMade
<1>. QED BY <1>1, <1>2, <1>3, NamesInit, NamesInductive, PTL DEF Spec, MadeIsKept


================================================================================
