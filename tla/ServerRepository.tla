----------------------------- MODULE ServerRepository -----------------------------
(***************************************************************************)
(* The phone's one repository (ServerRepository.kt): connect and disconnect *)
(* run in the coroutine scope of a screen, and leaving the screen cancels   *)
(* them wherever they wait.  A step here is what such a coroutine does on   *)
(* the main thread between two places where it waits.                       *)
(***************************************************************************)
EXTENDS Naturals, FiniteSets

CONSTANT MaxLinks       \* bound: channels that are opened

ASSUME RepositoryAssumption == MaxLinks \in Nat

VARIABLES
    state,      \* "disconnected", "connecting", "connected" or "failed"
    client,     \* the number of the client's channel, 0 for null
    transport,  \* the same of the transport
    link,       \* every SSH channel opened, "open" or "closed"
    task,       \* the coroutines, at the place where they wait
    lost        \* ghost: the channels that whoever opened them has let go of

repository == <<state, client, transport, link, task, lost>>

(* One coroutine at a time belongs to the screen on view: ConnectViewModel   *)
(* has a flag, and the Disconnect button is on another screen.  Those of     *)
(* screens that were left finish on their own.                              *)
Tasks == {"view", "left"}
NoTask == [job |-> "none", at |-> "done", on |-> 0]

RepositoryInit ==
    /\ state = "disconnected" /\ client = 0 /\ transport = 0
    /\ link = [k \in 1..MaxLinks |-> "none"]
    /\ task = [t \in Tasks |-> NoTask]
    /\ lost = {}

Wait(t, job, place, k) == task' = [task EXCEPT ![t] = [job |-> job, at |-> place, on |-> k]]
Done(t) == task' = [task EXCEPT ![t] = NoTask]

(* The end of onFailure, and of disconnect. *)
Forget(next) == state' = next /\ client' = 0 /\ transport' = 0

(* The coroutine of a screen that was left forgets the repository's channel   *)
(* without closing it.                                                      *)
LetGo(t, ks) == lost' = lost \cup ((IF t = "left" THEN {transport} \cup ks ELSE ks) \ {0})

(* onFailure closes the transport of the repository, which is not that of    *)
(* this attempt until the handshake is over.  In a cancelled scope close      *)
(* throws before it has begun.  Mutant: it closes nothing.                   *)
MutantOnFailure(t) == Forget("failed") /\ Done(t)

OnFailure(t) ==
    IF transport = 0 \/ t = "left"
      THEN Forget("failed") /\ Done(t)
      ELSE state' = "failed" /\ Wait(t, "connect", "close", transport)
           /\ UNCHANGED <<client, transport>>

(* connect begins with a disconnect.  A second tap on Disconnect, which waits *)
(* for the same session to end, is left out.                                *)
Press(job) ==
    /\ task["view"] = NoTask
    /\ job = "disconnect" => state = "connected"
    /\ IF client # 0
         THEN Wait("view", job, "bye", client) /\ UNCHANGED <<state, client, transport>>
       ELSE IF job = "connect"
         THEN Forget("connecting") /\ Wait("view", "connect", "dial", 0)
       ELSE Forget("disconnected") /\ UNCHANGED task
    /\ UNCHANGED <<link, lost>>

At(t, place) == task[t].at = place

(* agent.shutdown has been answered or has failed.  runCatching swallows the *)
(* cancellation too, so that connect goes on and fails at the next wait.     *)
Closed(t) ==
    /\ At(t, "bye")
    /\ link' = IF t = "left" THEN link ELSE [link EXCEPT ![task[t].on] = "closed"]
    /\ CASE task[t].job = "disconnect" -> Forget("disconnected") /\ Done(t)
         [] task[t].job = "connect" /\ t = "view" ->
                Forget("connecting") /\ Wait(t, "connect", "dial", 0)
         [] OTHER -> Forget("failed") /\ Done(t)
    /\ LetGo(t, {})

(* t.connect() goes on to its end when it is cancelled, and throws then.      *)
(* When it fails after the SSH client has connected, in authPublickey,        *)
(* startSession or exec, nobody disconnects that client.                     *)
Dial(t) ==
    /\ At(t, "dial")
    /\ \/ OnFailure(t) /\ UNCHANGED link /\ LetGo(t, {})
       \/ \E k \in 1..MaxLinks :
            /\ link[k] = "none"
            /\ \A j \in 1..MaxLinks : link[j] = "none" => k <= j
            /\ link' = [link EXCEPT ![k] = "open"]
            /\ \/ OnFailure(t) /\ LetGo(t, {k})
               \/ /\ t = "view" /\ Wait(t, "connect", "hello", k)
                  /\ UNCHANGED <<state, client, transport, lost>>

Hello(t) ==
    /\ At(t, "hello")
    /\ \/ /\ t = "view"
          /\ state' = "connected" /\ transport' = task[t].on /\ client' = task[t].on
          /\ Wait(t, "connect", "refresh", task[t].on)
          /\ UNCHANGED lost
       \/ OnFailure(t) /\ LetGo(t, {task[t].on})
    /\ UNCHANGED link

Refresh(t) ==
    /\ At(t, "refresh")
    /\ \/ t = "view" /\ Done(t) /\ UNCHANGED <<state, client, transport>>
       \/ OnFailure(t)
    /\ LetGo(t, {}) /\ UNCHANGED link

CloseFailed(t) ==
    /\ At(t, "close")
    /\ link' = [link EXCEPT ![task[t].on] = "closed"]
    /\ client' = 0 /\ transport' = 0
    /\ Done(t) /\ LetGo(t, {})
    /\ UNCHANGED state

(* The screen is left: its coroutine is cancelled, and another may start.  A   *)
(* channel whose handshake runs is not the repository's yet.                  *)
LeaveScreen ==
    /\ task["view"] # NoTask /\ task["left"] = NoTask
    /\ task' = [view |-> NoTask, left |-> task["view"]]
    /\ LetGo("view", IF At("view", "hello") THEN {task["view"].on} ELSE {})
    /\ UNCHANGED <<state, client, transport, link>>

RepositoryNext ==
    \/ \E job \in {"connect", "disconnect"} : Press(job)
    \/ \E t \in Tasks : Closed(t) \/ Dial(t) \/ Hello(t) \/ Refresh(t) \/ CloseFailed(t)
    \/ LeaveScreen

RepositorySpec == RepositoryInit /\ [][RepositoryNext]_repository

--------------------------------------------------------------------------------

Live == {k \in 1..MaxLinks : link[k] = "open"}

(* Beside the channels that were let go (a dial or a handshake that failed     *)
(* after the SSH client was connected, a screen that was left) there is one    *)
(* live connection at most, however often dialling, a refresh or an old        *)
(* session fails (ServerRepository.kt:87-126).                               *)
OneConnectionAtRest == Cardinality(Live \ lost) <= 1

================================================================================
