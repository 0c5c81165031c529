------------------------------- MODULE Phone_proofs -------------------------------
(***************************************************************************)
(* The phone.  Its client with the agent implements Calls, for any calls and  *)
(* outcomes; its repository has one live connection, for any number dialled.  *)
(***************************************************************************)
EXTENDS AgentClient, ServerRepository, FiniteSetTheorems, TLAPS

Lines == [id : Calls, outcome : Outcomes]

(* The values of the variables the refinement depends on. *)
ClientType ==
    /\ caller \in [Calls -> {"idle", "send", "await"} \cup Finished]
    /\ deferred \in [Calls -> {"none", "closed"} \cup Outcomes]
    /\ outcome \in [Calls -> {"none"} \cup Outcomes]
    /\ wire \in Seq(Calls) /\ lines \in Seq(Lines)
    /\ agent \in {"idle", "busy", "ended"}

(* A deferred, and a reply on its way, hold what the agent computed. *)
Truthful ==
    /\ \A c \in Calls : deferred[c] \in Outcomes => outcome[c] = deferred[c]
    /\ \A i \in 1..Len(lines) : outcome[lines[i].id] = lines[i].outcome

(* A request is on the wire once, after its call was sent and, but for the  *)
(* first, before the agent has seen it.                                     *)
Queued ==
    /\ \A i, j \in 1..Len(wire) : wire[i] = wire[j] => i = j
    /\ \A i \in 1..Len(wire) :
        /\ caller[wire[i]] \notin {"idle", "send"}
        /\ agent = "idle" \/ i # 1 => outcome[wire[i]] = "none"
    /\ \A c \in Calls : caller[c] \in {"idle", "send"} => outcome[c] = "none"
    /\ agent = "busy" => wire # <<>> /\ outcome[wire[1]] \in Outcomes

ClientInv == ClientType /\ Truthful /\ Queued

(* Appending an element to a sequence, place by place. *)
LEMMA AppendFacts ==
    ASSUME NEW S, NEW s \in Seq(S), NEW e \in S
    PROVE  /\ Append(s, e) \in Seq(S)
           /\ Len(Append(s, e)) = Len(s) + 1
           /\ Append(s, e)[Len(s) + 1] = e
           /\ \A i \in 1..Len(s) : Append(s, e)[i] = s[i]
  OBVIOUS

(* What is left of a sequence without its first element. *)
LEMMA TailFacts ==
    ASSUME NEW S, NEW s \in Seq(S), s # <<>>
    PROVE  /\ Tail(s) \in Seq(S)
           /\ Head(s) \in S
           /\ Head(s) = s[1]
           /\ Len(s) \in Nat /\ Len(s) > 0
           /\ Len(Tail(s)) = Len(s) - 1
           /\ \A i \in 1..Len(Tail(s)) : Tail(s)[i] = s[i + 1]
  OBVIOUS

(* The steps that move neither a request nor a reply nor an outcome.        *)
LEMMA CallerMoves ==
    ASSUME ClientInv, UNCHANGED <<deferred, wire, agent, lines, outcome>>,
           NEW c \in Calls,
           NEW v \in {"idle", "send", "await"} \cup Finished,
           caller' = [caller EXCEPT ![c] = v],
           v \in {"idle", "send"} => caller[c] \in {"idle", "send"}
    PROVE  ClientInv'
<1>1. ClientType'
  BY DEF ClientInv, ClientType
<1>2. Truthful'
  BY DEF ClientInv, ClientType, Truthful
<1>3. \A d \in Calls : caller'[d] = IF d = c THEN v ELSE caller[d]
  BY DEF ClientInv, ClientType
<1>4. \A i \in 1..Len(wire) : wire[i] \in Calls
  BY DEF ClientInv, ClientType
<1>5. Queued'
  <2>1. \A i \in 1..Len(wire) : caller'[wire[i]] \notin {"idle", "send"}
    BY <1>3, <1>4 DEF ClientInv, Queued
  <2>2. \A d \in Calls : caller'[d] \in {"idle", "send"} => outcome[d] = "none"
    BY <1>3 DEF ClientInv, Queued
  <2>3. QED
    BY <2>1, <2>2 DEF ClientInv, Queued
<1>6. QED
  BY <1>1, <1>2, <1>5 DEF ClientInv

(* Sending: the call leaves "send" and its request may join the wire.       *)
LEMMA SendKeeps ==
    ASSUME ClientInv, UNCHANGED <<deferred, agent, lines, outcome>>,
           NEW c \in Calls, caller[c] = "send",
           NEW v \in {"await", "failed"}, caller' = [caller EXCEPT ![c] = v],
           wire' \in {wire, Append(wire, c)}
    PROVE  ClientInv'
<1>1. CASE wire' = wire
  BY <1>1, CallerMoves DEF Finished
<1>2. CASE wire' = Append(wire, c)
  <2>1. /\ wire \in Seq(Calls) /\ wire' \in Seq(Calls)
        /\ Len(wire) \in Nat
        /\ Len(wire') = Len(wire) + 1 /\ wire'[Len(wire) + 1] = c
        /\ \A i \in 1..Len(wire) : wire'[i] = wire[i] /\ wire[i] \in Calls
    BY <1>2, AppendFacts DEF ClientInv, ClientType
  <2>2. \A d \in Calls : caller'[d] = IF d = c THEN v ELSE caller[d]
    BY DEF ClientInv, ClientType
  <2>3. \A i \in 1..Len(wire) : wire[i] # c
    BY DEF ClientInv, Queued
  <2>4. outcome[c] = "none"
    BY DEF ClientInv, Queued
  <2>5. ClientType' /\ Truthful'
    BY <2>1 DEF ClientInv, ClientType, Truthful, Finished
  <2>6. \A i, j \in 1..Len(wire') : wire'[i] = wire'[j] => i = j
    <3>1. TAKE i, j \in 1..Len(wire')
    <3>2. CASE i \in 1..Len(wire) /\ j \in 1..Len(wire)
      BY <2>1, <3>2 DEF ClientInv, Queued
    <3>3. CASE i \notin 1..Len(wire) \/ j \notin 1..Len(wire)
      BY <2>1, <2>3, <3>3
    <3>4. QED
      BY <3>2, <3>3
  <2>7. ASSUME NEW i \in 1..Len(wire')
        PROVE  /\ caller'[wire'[i]] \notin {"idle", "send"}
               /\ agent' = "idle" \/ i # 1 => outcome'[wire'[i]] = "none"
    <3>1. CASE i \in 1..Len(wire)
      BY <2>1, <2>2, <3>1 DEF ClientInv, Queued
    <3>2. CASE i = Len(wire) + 1
      BY <2>1, <2>2, <2>4, <3>2
    <3>3. QED
      BY <2>1, <3>1, <3>2
  <2>8. \A d \in Calls : caller'[d] \in {"idle", "send"} => outcome'[d] = "none"
    BY <2>2 DEF ClientInv, Queued
  <2>9. agent' = "busy" => wire' # <<>> /\ outcome'[wire'[1]] \in Outcomes
    BY <2>1 DEF ClientInv, Queued
  <2>10. QED
    BY <2>5, <2>6, <2>7, <2>8, <2>9 DEF ClientInv, Queued
<1>3. QED
  BY <1>1, <1>2

(* The reader completes deferreds: with what a reply holds, or as closed.   *)
LEMMA ReaderKeeps ==
    ASSUME ClientInv, Read \/ ReadEnd
    PROVE  ClientInv'
<1>1. CASE Read
  <2>1. /\ lines' \in Seq(Lines) /\ lines[1] \in Lines /\ Head(lines) = lines[1]
        /\ Len(lines) \in Nat /\ Len(lines) > 0 /\ Len(lines') = Len(lines) - 1
        /\ \A i \in 1..Len(lines') : lines'[i] = lines[i + 1]
    BY <1>1, TailFacts DEF ClientInv, ClientType, Read
  <2>2. outcome[lines[1].id] = lines[1].outcome
    BY <2>1 DEF ClientInv, Truthful
  <2>3. ClientType'
    BY <1>1, <2>1 DEF ClientInv, ClientType, Read, agentSide, Lines
  <2>4. \A c \in Calls : deferred'[c] \in Outcomes => outcome'[c] = deferred'[c]
    BY <1>1, <2>1, <2>2 DEF ClientInv, Truthful, Read, agentSide, Addressee
  <2>5. \A i \in 1..Len(lines') : outcome'[lines'[i].id] = lines'[i].outcome
    BY <1>1, <2>1 DEF ClientInv, Truthful, Read, agentSide
  <2>6. Queued'
    BY <1>1 DEF ClientInv, Queued, Read, agentSide
  <2>7. QED
    BY <2>3, <2>4, <2>5, <2>6 DEF ClientInv, Truthful
<1>2. CASE ReadEnd
  <2>1. ClientType'
    BY <1>2 DEF ClientInv, ClientType, ReadEnd, agentSide
  <2>2. Truthful'
    BY <1>2, CallsAssumption DEF ClientInv, ClientType, Truthful, ReadEnd, agentSide
  <2>3. Queued'
    BY <1>2 DEF ClientInv, Queued, ReadEnd, agentSide
  <2>4. QED
    BY <2>1, <2>2, <2>3 DEF ClientInv
<1>3. QED
  BY <1>1, <1>2

(* The agent executes the first request, which it has not seen.             *)
LEMMA ServeKeeps ==
    ASSUME ClientInv, Serve
    PROVE  ClientInv' /\ outcome[Head(wire)] = "none"
<1>1. /\ Head(wire) \in Calls /\ Head(wire) = wire[1]
      /\ Len(wire) \in Nat /\ Len(wire) > 0
    BY TailFacts DEF ClientInv, ClientType, Serve
<1>2. /\ outcome[wire[1]] = "none" /\ caller[wire[1]] \notin {"idle", "send"}
      /\ \A i \in 1..Len(wire) : wire[i] \in Calls /\ (i # 1 => wire[i] # wire[1])
  BY <1>1 DEF ClientInv, ClientType, Queued, Serve
<1>3. PICK o \in Outcomes : outcome' = [outcome EXCEPT ![wire[1]] = o]
  BY <1>1 DEF Serve
<1>4. \A c \in Calls : outcome'[c] = IF c = wire[1] THEN o ELSE outcome[c]
  BY <1>1, <1>3 DEF ClientInv, ClientType
<1>5. ClientType'
  BY <1>1, <1>3 DEF ClientInv, ClientType, Serve, clientSide
<1>6. Truthful'
  <2>1. \A i \in 1..Len(lines) : lines[i] \in Lines
    BY DEF ClientInv, ClientType
  <2>2. \A i \in 1..Len(lines) : lines[i].id # wire[1]
    BY <1>2, <2>1, CallsAssumption DEF ClientInv, Truthful, Lines
  <2>3. \A c \in Calls : deferred[c] \in Outcomes => c # wire[1]
    BY <1>2, CallsAssumption DEF ClientInv, Truthful
  <2>4. QED
    BY <1>4, <2>1, <2>2, <2>3 DEF ClientInv, Truthful, Serve, clientSide, Lines
<1>7. Queued'
  BY <1>1, <1>2, <1>3, <1>4 DEF ClientInv, Queued, Serve, clientSide
<1>8. QED
  BY <1>1, <1>2, <1>5, <1>6, <1>7 DEF ClientInv

(* The reply says what the agent computed, and the request is done with.    *)
LEMMA ReplyKeeps ==
    ASSUME ClientInv, Reply
    PROVE  ClientInv'
<1>1. /\ wire \in Seq(Calls) /\ wire # <<>>
      /\ wire' \in Seq(Calls) /\ Head(wire) = wire[1] /\ wire[1] \in Calls
      /\ Len(wire) \in Nat /\ Len(wire) > 0 /\ Len(wire') = Len(wire) - 1
      /\ \A i \in 1..Len(wire') : wire'[i] = wire[i + 1]
    BY TailFacts DEF ClientInv, ClientType, Queued, Reply
<1>2. outcome[wire[1]] \in Outcomes
  BY DEF ClientInv, Queued, Reply
<1>3. agent' \in {"idle", "ended"} /\ agent = "busy"
  BY DEF Reply, Ends
<1>4. ClientType' /\ Truthful'
  <2>1. CASE lines' = lines
    BY <1>1, <1>3, <2>1 DEF ClientInv, ClientType, Truthful, Reply, clientSide
  <2>2. CASE lines' = Append(lines, [id |-> wire[1], outcome |-> outcome[wire[1]]])
    <3>1. [id |-> wire[1], outcome |-> outcome[wire[1]]] \in Lines
      BY <1>1, <1>2 DEF Lines
    <3>2. /\ lines' \in Seq(Lines) /\ Len(lines) \in Nat /\ Len(lines') = Len(lines) + 1
          /\ lines'[Len(lines) + 1] = [id |-> wire[1], outcome |-> outcome[wire[1]]]
          /\ \A i \in 1..Len(lines) : lines'[i] = lines[i]
      BY <2>2, <3>1, AppendFacts DEF ClientInv, ClientType
    <3>3. QED
      BY <1>1, <1>3, <3>2 DEF ClientInv, ClientType, Truthful, Reply, clientSide
  <2>3. QED
    BY <1>1, <2>1, <2>2 DEF Reply
<1>5. Queued'
  <2>1. \A i, j \in 1..Len(wire') : wire'[i] = wire'[j] => i = j
    BY <1>1 DEF ClientInv, Queued
  <2>2. \A i \in 1..Len(wire') : i + 1 \in 1..Len(wire) /\ i + 1 # 1
    BY <1>1
  <2>3. \A i \in 1..Len(wire') : caller[wire'[i]] \notin {"idle", "send"}
                                 /\ outcome[wire'[i]] = "none"
    <3>1. TAKE i \in 1..Len(wire')
    <3>2. wire'[i] = wire[i + 1] /\ i + 1 \in 1..Len(wire) /\ i + 1 # 1
      BY <1>1, <2>2
    <3>3. /\ caller[wire[i + 1]] \notin {"idle", "send"}
          /\ outcome[wire[i + 1]] = "none"
      BY <3>2 DEF ClientInv, Queued
    <3>4. QED
      BY <3>2, <3>3
  <2>4. QED
    BY <1>3, <2>1, <2>3 DEF ClientInv, Queued, Reply, clientSide
<1>6. QED
  BY <1>4, <1>5 DEF ClientInv

(* Every step keeps the invariant and is a step of Calls, or changes nothing *)
(* a caller was promised.                                                   *)
LEMMA StepKeeps ==
    ASSUME ClientInv, [ClientNext]_clientVars
    PROVE  /\ ClientInv'
           /\ [Promise!Next]_<<outcome, Result>>
<1> USE DEF clientSide, agentSide
<1>0. ASSUME UNCHANGED <<caller, outcome>>
      PROVE  [Promise!Next]_<<outcome, Result>>
  BY <1>0 DEF Result
<1>1. ASSUME NEW c \in Calls, UNCHANGED outcome,
             NEW v \in {"send", "await"} \cup Finished,
             caller' = [caller EXCEPT ![c] = v], caller[c] \notin Finished,
             caller[c] = "idle" => v = "send", v \in Outcomes => outcome[c] = v
      PROVE  [Promise!Next]_<<outcome, Result>>
  <2>1. Result' = [Result EXCEPT ![c] = IF v \in {"send", "await"} THEN "waiting" ELSE v]
    BY <1>1 DEF Result, ClientInv, ClientType
  <2>2. Result[c] = IF caller[c] \in {"send", "await"} THEN "waiting" ELSE caller[c]
    BY DEF Result
  <2>3. caller[c] \in {"idle", "send", "await"}
    BY <1>1 DEF ClientInv, ClientType
  <2>4. CASE caller[c] = "idle" /\ v \in {"send", "await"}
    <3>1. Promise!Begin(c)
      BY <1>1, <2>1, <2>2, <2>4 DEF Promise!Begin
    <3>2. QED
      BY <3>1 DEF Promise!Next
  <2>5. CASE caller[c] # "idle" /\ v \in {"send", "await"}
    <3>1. Result' = Result
      BY <1>1, <2>1, <2>2, <2>3, <2>5 DEF Result
    <3>2. QED
      BY <1>1, <3>1
  <2>6. CASE caller[c] # "idle" /\ v \in Outcomes
    <3>1. Promise!Answer(c)
      BY <1>1, <2>1, <2>2, <2>3, <2>6, CallsAssumption DEF Promise!Answer
    <3>2. QED
      BY <3>1 DEF Promise!Next
  <2>7. CASE caller[c] # "idle" /\ v \in {"failed", "cancelled"}
    <3>1. Promise!End(c)
      BY <1>1, <2>1, <2>2, <2>3, <2>7 DEF Promise!End
    <3>2. QED
      BY <3>1 DEF Promise!Next
  <2>8. QED
    BY <1>1, <2>4, <2>5, <2>6, <2>7 DEF Finished
<1>2. CASE UNCHANGED clientVars
  BY <1>2 DEF clientVars, ClientInv, ClientType, Truthful, Queued, Result
<1>3. ASSUME NEW c \in Calls, Register(c)
      PROVE  ClientInv' /\ [Promise!Next]_<<outcome, Result>>
  <2>1. ClientInv'
    BY <1>3, CallerMoves DEF Register
  <2>2. [Promise!Next]_<<outcome, Result>>
    BY <1>1, <1>3, CallsAssumption DEF Register, Finished
  <2>3. QED
    BY <2>1, <2>2
<1>4. ASSUME NEW c \in Calls, Send(c) \/ SendFails(c)
      PROVE  ClientInv' /\ [Promise!Next]_<<outcome, Result>>
  <2>1. PICK v \in {"await", "failed"} :
            caller' = [caller EXCEPT ![c] = v] /\ caller[c] = "send"
    BY <1>4 DEF Send, SendFails
  <2>2. ClientInv'
    BY <1>4, <2>1, SendKeeps DEF Send, SendFails, Delivered
  <2>3. v \in {"send", "await"} \cup Finished /\ v \notin Outcomes /\ caller[c] \notin Finished
    BY <2>1, CallsAssumption DEF Finished
  <2>4. [Promise!Next]_<<outcome, Result>>
    BY <1>1, <1>4, <2>1, <2>3 DEF Send, SendFails
  <2>5. QED
    BY <2>2, <2>4
<1>5. ASSUME NEW c \in Calls, Return(c) \/ Cancel(c)
      PROVE  ClientInv' /\ [Promise!Next]_<<outcome, Result>>
  <2>1. PICK v \in Finished :
            /\ caller' = [caller EXCEPT ![c] = v] /\ caller[c] = "await"
            /\ v \in Outcomes => v = deferred[c]
    BY <1>5, CallsAssumption DEF Return, Cancel, Finished, ClientInv, ClientType
  <2>2. ClientInv'
    BY <1>5, <2>1, CallsAssumption, CallerMoves DEF Return, Cancel, Finished
  <2>3. v \in Outcomes => outcome[c] = v
    BY <2>1 DEF ClientInv, Truthful
  <2>4. [Promise!Next]_<<outcome, Result>>
    BY <1>1, <1>5, <2>1, <2>3, CallsAssumption DEF Return, Cancel, Finished
  <2>5. QED
    BY <2>2, <2>4
<1>6. CASE Read \/ ReadEnd
  BY <1>0, <1>6, ReaderKeeps DEF Read, ReadEnd
<1>7. CASE Clear \/ Break \/ StopReading \/ CloseChannel
  <2>1. UNCHANGED <<caller, deferred, wire, agent, lines, outcome>>
    BY <1>7 DEF Clear, Break, StopReading, CloseChannel
  <2>2. QED
    BY <1>0, <2>1 DEF ClientInv, ClientType, Truthful, Queued
<1>8. CASE Serve
  <2>1. ClientInv' /\ outcome[Head(wire)] = "none"
    BY <1>8, ServeKeeps
  <2>2. Head(wire) \in Calls /\ caller[Head(wire)] # "idle"
    BY <1>8, TailFacts DEF Serve, ClientInv, ClientType, Queued
  <2>3. Promise!Execute(Head(wire))
    BY <1>8, <2>1, <2>2 DEF Promise!Execute, Serve, Result
  <2>4. QED
    BY <2>1, <2>2, <2>3 DEF Promise!Next
<1>9. CASE Reply
  BY <1>0, <1>9, ReplyKeeps DEF Reply
<1>10. CASE AgentEnds
  <2>1. ClientInv'
    BY <1>10 DEF AgentEnds, Ends, ClientInv, ClientType, Truthful, Queued
  <2>2. QED
    BY <1>0, <1>10, <2>1 DEF AgentEnds
<1>11. QED
  BY <1>2, <1>3, <1>4, <1>5, <1>6, <1>7, <1>8, <1>9, <1>10, CallsAssumption
  DEF ClientNext, Begin, Shutdown, CallStep, ReaderStep, CloserStep, AgentStep

(* Every answer a caller gets is what the agent made of that very call,     *)
(* which it executed once, whatever is sent, cancelled, swept away or cut    *)
(* off meanwhile: the client implements Calls.                              *)
THEOREM ClientKeepsPromise == ClientSpec => KeepsPromise
<1>1. ClientInit => ClientInv /\ Promise!Init
  BY CallsAssumption
  DEF ClientInit, ClientInv, ClientType, Truthful, Queued, Promise!Init, Result
<1>2. ClientInv /\ [ClientNext]_clientVars => ClientInv' /\ [Promise!Next]_<<outcome, Result>>
  BY StepKeeps
<1>3. QED
  BY <1>1, <1>2, PTL DEF ClientSpec, KeepsPromise, Promise!Spec

--------------------------------------------------------------------------------
(* Connections *)

View == task["view"]

(* The channel somebody answers for: while the handshake runs it is known to    *)
(* its coroutine only, otherwise to the repository.                           *)
Known == IF View.at = "hello" THEN View.on ELSE transport

(* Every open channel that was not let go is known.  The coroutine of a screen  *)
(* that was left can take the repository's channel from the one on view, and    *)
(* lets it go then.                                                          *)
ViewInv ==
    /\ client = transport
    /\ View.at \in {"dial", "hello"} => transport = 0
    /\ View.at \in {"bye", "refresh", "close"} => transport \in {0, View.on}
    /\ Live \ lost \subseteq {Known}

RepositoryType ==
    /\ link \in [1..MaxLinks -> {"none", "open", "closed"}]
    /\ task \in [Tasks -> [job : {"none", "connect", "disconnect"},
                           at : {"done", "bye", "dial", "hello", "refresh", "close"},
                           on : Int]]
    /\ client \in Int /\ transport \in Int

RepositoryInv == RepositoryType /\ ViewInv

LEMMA WaitType ==
  ASSUME RepositoryType, NEW t \in Tasks, NEW job \in {"none", "connect", "disconnect"},
         NEW place \in {"done", "bye", "dial", "hello", "refresh", "close"}, NEW k \in Int,
         Wait(t, job, place, k) \/ Done(t)
  PROVE  task' \in [Tasks -> [job : {"none", "connect", "disconnect"},
                           at : {"done", "bye", "dial", "hello", "refresh", "close"},
                           on : Int]]
  BY DEF RepositoryType, Wait, Done, NoTask, Tasks

LEMMA RepositoryTypes == RepositoryType /\ [RepositoryNext]_repository => RepositoryType'
  <1>. SUFFICES ASSUME RepositoryType, [RepositoryNext]_repository PROVE RepositoryType'
    OBVIOUS
  <1>. DEFINE Jobs == {"none", "connect", "disconnect"}
              Places == {"done", "bye", "dial", "hello", "refresh", "close"}
              Moves(t) == \E job \in Jobs, place \in Places, k \in Int : Wait(t, job, place, k) \/ Done(t)
  <1>0. \A t \in Tasks : task[t].on \in Int /\ task[t].job \in Jobs
    BY DEF RepositoryType
  <1>1. \A t \in Tasks : OnFailure(t) => Moves(t) /\ client' \in Int /\ transport' \in Int
    BY DEF OnFailure, Forget, RepositoryType
  <1>2. \A t \in Tasks : Moves(t) => task' \in [Tasks -> [job : Jobs, at : Places, on : Int]]
    BY WaitType
  <1>3. ASSUME NEW job \in {"connect", "disconnect"}, Press(job) PROVE RepositoryType'
    <2>1. "view" \in Tasks
      BY DEF Tasks
    <2>2. Moves("view") \/ task' = task
      BY <1>3 DEF Press, RepositoryType
    <2>3. client' \in Int /\ transport' \in Int /\ link' = link
      BY <1>3 DEF Press, Forget, RepositoryType
    <2>. HIDE DEF Moves
    <2>. QED BY <1>2, <2>1, <2>2, <2>3 DEF RepositoryType
  <1>4. ASSUME NEW t \in Tasks, Closed(t) \/ Dial(t) \/ Hello(t) \/ Refresh(t) \/ CloseFailed(t)
        PROVE  RepositoryType'
    <2>1. link' \in [1..MaxLinks -> {"none", "open", "closed"}]
      BY <1>4 DEF Closed, Dial, Hello, Refresh, CloseFailed, RepositoryType
    <2>2. \A k \in 1..MaxLinks : k \in Int
      OBVIOUS
    <2>3. ASSUME NEW k \in 1..MaxLinks, Wait(t, "connect", "hello", k), UNCHANGED <<client, transport>>
          PROVE  Moves(t) /\ client' \in Int /\ transport' \in Int
      <3>1. k \in Int /\ "connect" \in Jobs /\ "hello" \in Places
        BY <2>2
      <3>. QED BY <2>3, <3>1 DEF RepositoryType
    <2>4. Moves(t) /\ client' \in Int /\ transport' \in Int
      <3>. HIDE DEF Moves
      <3>1. CASE Dial(t)
        BY <1>1, <2>3, <3>1 DEF Dial
      <3>2. CASE Hello(t)
        <4>1. CASE OnFailure(t)
          BY <1>1, <4>1
        <4>2. CASE ~OnFailure(t)
          BY <1>0, <3>2, <4>2 DEF Hello, Moves
        <4>. QED BY <4>1, <4>2
      <3>3. CASE Refresh(t)
        <4>1. CASE OnFailure(t)
          BY <1>1, <4>1
        <4>2. CASE ~OnFailure(t)
          BY <1>0, <3>3, <4>2 DEF Refresh, Moves, RepositoryType
        <4>. QED BY <4>1, <4>2
      <3>4. CASE Closed(t) \/ CloseFailed(t)
        BY <1>0, <3>4 DEF Closed, CloseFailed, Forget, Moves
      <3>. QED BY <1>4, <3>1, <3>2, <3>3, <3>4
    <2>. HIDE DEF Moves
    <2>. QED BY <1>2, <2>1, <2>4 DEF RepositoryType
  <1>5. CASE LeaveScreen
    BY <1>5 DEF LeaveScreen, RepositoryType, Tasks, NoTask
  <1>6. CASE UNCHANGED repository
    BY <1>6 DEF repository, RepositoryType
  <1>. QED BY <1>3, <1>4, <1>5, <1>6 DEF RepositoryNext

(* A coroutine waits somewhere else, or is done; the other stays. *)
LEMMA TaskMoves ==
  ASSUME RepositoryType
  PROVE  /\ \A job, place, k :
              /\ Wait("view", job, place, k) => View' = [job |-> job, at |-> place, on |-> k]
              /\ Wait("left", job, place, k) => View' = View
         /\ Done("view") => View' = NoTask
         /\ Done("left") => View' = View
  BY DEF RepositoryType, Wait, Done, View, Tasks

(* The coroutine of a screen that was left changes nothing on view but that it *)
(* may forget the repository's channel, which is let go then; it may let go     *)
(* and close more.                                                           *)
LEMMA LeftStep ==
  ASSUME RepositoryInv,
         Closed("left") \/ Dial("left") \/ Hello("left") \/ Refresh("left") \/ CloseFailed("left")
  PROVE  ViewInv'
  <1>. USE DEF RepositoryInv
  <1>1. View' = View
    BY TaskMoves DEF Closed, Dial, Hello, Refresh, CloseFailed, OnFailure
  <1>2. client' = 0 /\ transport' = 0
    BY DEF Closed, Dial, Hello, Refresh, CloseFailed, OnFailure, Forget
  <1>3. lost \subseteq lost' /\ (transport # 0 => transport \in lost')
    BY DEF Closed, Dial, Hello, Refresh, CloseFailed, LetGo
  <1>4. \A k \in 1..MaxLinks : link'[k] = "open" => link[k] = "open" \/ k \in lost'
    <2>1. CASE Dial("left")
      <3>1. link' = link \/ \E k \in 1..MaxLinks : link' = [link EXCEPT ![k] = "open"] /\ LetGo("left", {k})
        BY <2>1 DEF Dial
      <3>2. \A k \in 1..MaxLinks : LetGo("left", {k}) => k \in lost'
        BY RepositoryAssumption DEF LetGo
      <3>. QED BY <3>1, <3>2 DEF RepositoryType
    <2>2. CASE ~Dial("left")
      BY <2>2 DEF Closed, Hello, Refresh, CloseFailed, RepositoryType
    <2>. QED BY <2>1, <2>2
  <1>5. \A k \in Live' \ lost' : k \in Live \ lost /\ k # transport
    BY <1>3, <1>4, RepositoryAssumption DEF Live
  <1>6. Live' \ lost' \subseteq {Known'}
    BY <1>1, <1>5 DEF ViewInv, Known
  <1>. QED BY <1>1, <1>2, <1>6 DEF ViewInv

(* What the coroutine on view does about its channel. *)
LEMMA ViewStep ==
  ASSUME RepositoryInv,
         Closed("view") \/ Dial("view") \/ Hello("view") \/ Refresh("view") \/ CloseFailed("view")
  PROVE  ViewInv'
  <1>. USE DEF RepositoryInv
  <1>0. \A k \in 1..MaxLinks : k # 0
    BY RepositoryAssumption
  <1>1. \A k \in 1..MaxLinks : link[k] = "open" /\ k \notin lost => k = Known
    BY DEF ViewInv, Live
  <1>2. link \in [1..MaxLinks -> {"none", "open", "closed"}]
    BY DEF RepositoryType
  <1>3. OnFailure("view") /\ transport = 0 => View' = NoTask /\ client' = 0 /\ transport' = 0
    BY TaskMoves DEF OnFailure, Forget
  <1>. DEFINE Answered == \A k \in 1..MaxLinks : link'[k] = "open" /\ k \notin lost' => k = Known'
  <1>4. Answered => Live' \ lost' \subseteq {Known'}
    BY DEF Live
  <1>5. CASE Closed("view")
    <2>1. View.at = "bye" /\ link' = [link EXCEPT ![View.on] = "closed"] /\ lost' = lost
      BY <1>5 DEF Closed, At, View, LetGo
    <2>2. client' = 0 /\ transport' = 0 /\ View'.at \in {"done", "dial"}
      BY <1>5, TaskMoves DEF Closed, Forget, NoTask
    <2>3. Answered
      BY <1>0, <1>1, <1>2, <2>1 DEF ViewInv, Known
    <2>. QED BY <1>4, <2>2, <2>3 DEF ViewInv
  <1>6. CASE Dial("view")
    <2>1. View.at = "dial" /\ transport = 0 /\ client = 0
      BY <1>6 DEF Dial, At, View, ViewInv
    <2>2. \A k \in 1..MaxLinks : link[k] = "open" => k \in lost
      BY <1>0, <1>1, <2>1 DEF Known
    <2>3. CASE /\ OnFailure("view")
               /\ \/ link' = link /\ LetGo("view", {})
                  \/ \E k \in 1..MaxLinks : link' = [link EXCEPT ![k] = "open"] /\ LetGo("view", {k})
      <3>1. \A k \in 1..MaxLinks : link'[k] = "open" => k \in lost'
        BY <1>0, <1>2, <2>2, <2>3 DEF LetGo
      <3>. QED BY <1>3, <1>4, <2>1, <2>3, <3>1 DEF ViewInv, NoTask
    <2>4. CASE \E k \in 1..MaxLinks : /\ link' = [link EXCEPT ![k] = "open"]
                                     /\ Wait("view", "connect", "hello", k)
                                     /\ UNCHANGED <<client, transport, lost>>
      <3>1. PICK k \in 1..MaxLinks : /\ link' = [link EXCEPT ![k] = "open"]
                                    /\ Wait("view", "connect", "hello", k)
                                    /\ UNCHANGED <<client, transport, lost>>
        BY <2>4
      <3>2. View' = [job |-> "connect", at |-> "hello", on |-> k]
        BY <3>1, TaskMoves
      <3>3. Answered
        BY <1>2, <2>2, <3>1, <3>2 DEF Known
      <3>. QED BY <1>4, <2>1, <3>1, <3>2, <3>3 DEF ViewInv
    <2>. QED BY <1>6, <2>3, <2>4 DEF Dial
  <1>7. CASE Hello("view")
    <2>1. View.at = "hello" /\ transport = 0 /\ link' = link
      BY <1>7 DEF Hello, At, View, ViewInv
    <2>2. CASE OnFailure("view") /\ LetGo("view", {View.on})
      <3>1. \A k \in 1..MaxLinks : link[k] = "open" => k \in lost'
        BY <1>0, <1>1, <2>1, <2>2 DEF Known, LetGo
      <3>. QED BY <1>3, <1>4, <2>1, <2>2, <3>1 DEF ViewInv, NoTask
    <2>3. CASE /\ transport' = View.on /\ client' = View.on
               /\ Wait("view", "connect", "refresh", View.on) /\ lost' = lost
      <3>1. View' = [job |-> "connect", at |-> "refresh", on |-> View.on]
        BY <2>3, TaskMoves
      <3>2. Answered
        BY <1>1, <2>1, <2>3, <3>1 DEF Known
      <3>. QED BY <1>4, <2>3, <3>1, <3>2 DEF ViewInv
    <2>. QED BY <1>7, <2>2, <2>3 DEF Hello, View
  <1>8. CASE Refresh("view")
    <2>1. View.at = "refresh" /\ link' = link /\ lost' = lost
      BY <1>8 DEF Refresh, At, View, LetGo
    <2>2. \A k \in 1..MaxLinks : link'[k] = "open" /\ k \notin lost' => k = transport
      BY <1>1, <2>1 DEF Known
    <2>3. CASE Done("view") /\ UNCHANGED <<client, transport>>
      <3>1. View' = NoTask
        BY <2>3, TaskMoves
      <3>. QED BY <1>4, <2>2, <2>3, <3>1 DEF ViewInv, Known, NoTask
    <2>4. CASE OnFailure("view") /\ transport = 0
      BY <1>3, <1>4, <2>2, <2>4 DEF ViewInv, Known, NoTask
    <2>5. CASE OnFailure("view") /\ transport # 0
      <3>1. Wait("view", "connect", "close", transport) /\ UNCHANGED <<client, transport>>
        BY <2>5 DEF OnFailure
      <3>2. View' = [job |-> "connect", at |-> "close", on |-> transport]
        BY <3>1, TaskMoves
      <3>. QED BY <1>4, <2>2, <3>1, <3>2 DEF ViewInv, Known
    <2>. QED BY <1>8, <2>3, <2>4, <2>5 DEF Refresh
  <1>9. CASE CloseFailed("view")
    <2>1. View.at = "close" /\ link' = [link EXCEPT ![View.on] = "closed"] /\ lost' = lost
      BY <1>9 DEF CloseFailed, At, View, LetGo
    <2>2. client' = 0 /\ transport' = 0 /\ View' = NoTask
      BY <1>9, TaskMoves DEF CloseFailed
    <2>3. Answered
      BY <1>0, <1>1, <1>2, <2>1 DEF ViewInv, Known
    <2>. QED BY <1>4, <2>2, <2>3 DEF ViewInv, NoTask
  <1>. QED BY <1>5, <1>6, <1>7, <1>8, <1>9

(* A button, and a screen that is left. *)
LEMMA UserStep ==
  ASSUME RepositoryInv, LeaveScreen \/ \E job \in {"connect", "disconnect"} : Press(job)
  PROVE  ViewInv'
  <1>. USE DEF RepositoryInv
  <1>1. CASE LeaveScreen
    <2>1. View' = NoTask /\ UNCHANGED <<client, transport, link>> /\ lost \subseteq lost'
      BY <1>1 DEF LeaveScreen, View, LetGo
    <2>2. View.at = "hello" /\ View.on # 0 => View.on \in lost'
      BY <1>1 DEF LeaveScreen, View, LetGo, At
    <2>3. Live' \ lost' \subseteq {transport}
      BY <2>1, <2>2, RepositoryAssumption DEF ViewInv, Known, Live
    <2>. QED BY <2>1, <2>3 DEF ViewInv, Known, NoTask
  <1>2. ASSUME NEW job \in {"connect", "disconnect"}, Press(job) PROVE ViewInv'
    <2>1. View = NoTask /\ UNCHANGED <<link, lost>>
      BY <1>2 DEF Press, View
    <2>2. Live' \ lost' \subseteq {transport}
      BY <2>1 DEF ViewInv, Known, Live, NoTask
    <2>3. CASE client # 0
      <3>1. View' = [job |-> job, at |-> "bye", on |-> client] /\ UNCHANGED <<client, transport>>
        BY <1>2, <2>3, TaskMoves DEF Press
      <3>. QED BY <2>2, <3>1 DEF ViewInv, Known
    <2>4. CASE client = 0
      <3>0. transport = 0
        BY <2>4 DEF ViewInv
      <3>1. client' = 0 /\ transport' = 0 /\ View'.at \in {"dial", "done"}
        <4>1. CASE job = "connect"
          BY <1>2, <2>4, <4>1, TaskMoves DEF Press, Forget
        <4>2. CASE job # "connect"
          <5>1. client' = 0 /\ transport' = 0 /\ task' = task
            BY <1>2, <2>4, <4>2 DEF Press, Forget
          <5>. QED BY <2>1, <5>1 DEF View, NoTask
        <4>. QED BY <4>1, <4>2
      <3>. QED BY <2>2, <3>0, <3>1 DEF ViewInv, Known
    <2>. QED BY <2>3, <2>4
  <1>. QED BY <1>1, <1>2

LEMMA RepositoryInitial == RepositoryInit => RepositoryInv
  <1>. SUFFICES ASSUME RepositoryInit PROVE RepositoryInv
    OBVIOUS
  <1>1. RepositoryType
    <2>1. NoTask \in [job : {"none", "connect", "disconnect"},
                      at : {"done", "bye", "dial", "hello", "refresh", "close"}, on : Int]
      BY DEF NoTask
    <2>2. task \in [Tasks -> [job : {"none", "connect", "disconnect"},
                             at : {"done", "bye", "dial", "hello", "refresh", "close"}, on : Int]]
      <3>. HIDE DEF NoTask
      <3>. QED BY <2>1 DEF RepositoryInit
    <2>3. link \in [1..MaxLinks -> {"none", "open", "closed"}]
      BY DEF RepositoryInit
    <2>. QED BY <2>2, <2>3 DEF RepositoryInit, RepositoryType
  <1>2. View = NoTask
    BY DEF RepositoryInit, View, Tasks
  <1>3. Live = {}
    BY DEF RepositoryInit, Live
  <1>4. ViewInv
    BY <1>2, <1>3 DEF RepositoryInit, ViewInv, NoTask
  <1>. QED BY <1>1, <1>4 DEF RepositoryInv

(* OneConnectionAtRest: beside the channels that were let go there is one live    *)
(* connection at most, however often dialling, a handshake or a refresh fails   *)
(* and screens are left (ServerRepository.kt:87-126).                         *)
THEOREM OneConnection == RepositorySpec => []OneConnectionAtRest
  <1>1. RepositoryInit => RepositoryInv
    BY RepositoryInitial
  <1>2. RepositoryInv /\ [RepositoryNext]_repository => RepositoryInv'
    <2>. SUFFICES ASSUME RepositoryInv, [RepositoryNext]_repository PROVE RepositoryInv'
      OBVIOUS
    <2>1. CASE UNCHANGED repository
      BY <2>1 DEF repository, RepositoryInv, RepositoryType, ViewInv, View, Known, Live
    <2>2. CASE RepositoryNext
      BY <2>2, RepositoryTypes, LeftStep, ViewStep, UserStep DEF RepositoryNext, RepositoryInv, Tasks
    <2>. QED BY <2>1, <2>2
  <1>3. RepositoryInv => OneConnectionAtRest
    <2>. SUFFICES ASSUME Live \ lost \subseteq {Known} PROVE Cardinality(Live \ lost) <= 1
      BY DEF RepositoryInv, ViewInv, OneConnectionAtRest
    <2>1. IsFiniteSet({Known}) /\ Cardinality({Known}) = 1
      BY FS_Singleton
    <2>. QED BY <2>1, FS_Subset
  <1>. QED BY <1>1, <1>2, <1>3, PTL DEF RepositorySpec

================================================================================
