------------------------------- MODULE AgentClient -------------------------------
(***************************************************************************)
(* The phone's end of an agent session (AgentClient.kt): callers suspend   *)
(* on a deferred each, a reader completes the deferreds as replies come     *)
(* in, and shutdownAndClose ends both.  At the other end the agent handles  *)
(* one request after the other (Agent).                                     *)
(***************************************************************************)
EXTENDS Naturals, Sequences

CONSTANTS
    Calls,      \* the calls made, by id
    Bye,        \* the one shutdownAndClose makes
    Outcomes    \* what an execution can come to: a result, an error

ASSUME CallsAssumption ==
    /\ Bye \in Calls
    /\ Outcomes \cap {"none", "closed", "idle", "send", "await", "failed", "cancelled"} = {}

VARIABLES
    caller,     \* each call: "idle", "send", "await", then an outcome, "failed"
                \* or "cancelled"
    pending,    \* the calls whose deferred the reader can find
    deferred,   \* "none" until it is completed with an outcome or as "closed"
    reader,     \* "reading", "clearing" (between the two steps of the end),
                \* "ended" or "cancelled"
    chan,       \* "open", "eof" when the agent has closed it, "closed" here
    closer,     \* shutdownAndClose: "no", "bye", "closing" or "closed"
    app,        \* "up", or "crashed" by an exception nobody catches
    wire,       \* the requests on their way
    agent,      \* "idle", "busy" with the first request, or "ended"
    lines,      \* the replies on their way
    outcome     \* what the agent made of each call

clientSide == <<caller, pending, deferred, reader, closer, app>>
agentSide == <<agent, outcome>>
clientVars == <<clientSide, chan, wire, agentSide, lines>>

Finished == Outcomes \cup {"failed", "cancelled"}

ClientInit ==
    /\ caller = [c \in Calls |-> "idle"] /\ pending = {}
    /\ deferred = [c \in Calls |-> "none"]
    /\ reader = "reading" /\ chan = "open" /\ closer = "no" /\ app = "up"
    /\ wire = <<>> /\ agent = "idle" /\ lines = <<>>
    /\ outcome = [c \in Calls |-> "none"]

--------------------------------------------------------------------------------
(* callRaw *)

Register(c) ==
    /\ caller[c] = "idle"
    /\ caller' = [caller EXCEPT ![c] = "send"]
    /\ pending' = pending \cup {c}
    /\ UNCHANGED <<deferred, reader, app, chan, wire, agentSide, lines>>

Begin(c) == app = "up" /\ c # Bye /\ Register(c) /\ UNCHANGED closer

(* A request that is written when the agent has closed its end, or is about *)
(* to end, is read by nobody.                                               *)
Delivered(c) == IF chan = "open" THEN Append(wire, c) ELSE wire

Send(c) ==
    /\ app = "up" /\ caller[c] = "send" /\ chan # "closed"
    /\ caller' = [caller EXCEPT ![c] = "await"]
    /\ wire' = Delivered(c)
    /\ UNCHANGED <<pending, deferred, reader, closer, app, chan, agentSide, lines>>

(* A send that fails may have delivered its request.  A caller that is       *)
(* cancelled while it sends ends here too: its catch is for any Throwable.   *)
SendFails(c) ==
    /\ app = "up" /\ caller[c] = "send"
    /\ caller' = [caller EXCEPT ![c] = "failed"]
    /\ pending' = pending \ {c}
    /\ wire' \in {wire, Delivered(c)}
    /\ UNCHANGED <<deferred, reader, closer, app, chan, agentSide, lines>>

(* await has no timeout. *)
Return(c) ==
    /\ app = "up" /\ caller[c] = "await" /\ deferred[c] # "none"
    /\ caller' = [caller EXCEPT ![c] =
                    IF deferred[c] = "closed" THEN "failed" ELSE deferred[c]]
    /\ UNCHANGED <<pending, deferred, reader, closer, app, chan, wire, agentSide, lines>>

(* The caller's scope ends: its screen was left.  The deferred stays. *)
Cancel(c) ==
    /\ app = "up" /\ caller[c] = "await"
    /\ caller' = [caller EXCEPT ![c] = "cancelled"]
    /\ UNCHANGED <<pending, deferred, reader, closer, app, chan, wire, agentSide, lines>>

--------------------------------------------------------------------------------
(* The reader, and shutdownAndClose *)

(* Mutant: a reply is given to whoever waits, not to its id. *)
MutantAddressee(line) == pending

Addressee(line) == {line.id} \cap pending

Read ==
    /\ app = "up" /\ reader = "reading" /\ lines # <<>>
    /\ deferred' = [c \in Calls |-> IF c \in Addressee(Head(lines))
                                    THEN Head(lines).outcome ELSE deferred[c]]
    /\ pending' = pending \ Addressee(Head(lines))
    /\ lines' = Tail(lines)
    /\ UNCHANGED <<caller, reader, closer, app, chan, wire, agentSide>>

(* Mutant: the end of the channel completes nothing. *)
MutantReadEnd ==
    /\ app = "up" /\ reader = "reading" /\ lines = <<>> /\ chan = "eof"
    /\ reader' = "clearing"
    /\ UNCHANGED <<deferred, caller, pending, closer, app, chan, wire, agentSide, lines>>

ReadEnd ==
    /\ app = "up" /\ reader = "reading" /\ lines = <<>> /\ chan = "eof"
    /\ deferred' = [c \in Calls |-> IF c \in pending /\ deferred[c] = "none"
                                    THEN "closed" ELSE deferred[c]]
    /\ reader' = "clearing"
    /\ UNCHANGED <<caller, pending, closer, app, chan, wire, agentSide, lines>>

(* A call registered since then is removed without having been completed. *)
Clear ==
    /\ app = "up" /\ reader = "clearing"
    /\ reader' = "ended" /\ pending' = {}
    /\ UNCHANGED <<caller, deferred, closer, app, chan, wire, agentSide, lines>>

(* A connection that breaks ends readLine with an exception.  The reader's   *)
(* scope has no handler: Android ends the app.                              *)
Break ==
    /\ app = "up" /\ reader = "reading" /\ chan = "open"
    /\ app' = "crashed" /\ chan' = "closed"
    /\ UNCHANGED <<caller, pending, deferred, reader, closer, wire, agentSide, lines>>

Shutdown ==
    /\ app = "up" /\ closer = "no"
    /\ Register(Bye)
    /\ closer' = "bye"

(* Whatever became of agent.shutdown, runCatching goes on. *)
StopReading ==
    /\ app = "up" /\ closer = "bye" /\ caller[Bye] \in Finished
    /\ closer' = "closing"
    /\ reader' = IF reader = "reading" THEN "cancelled" ELSE reader
    /\ UNCHANGED <<caller, pending, deferred, app, chan, wire, agentSide, lines>>

(* In a cancelled scope transport.close throws before it has begun. *)
CloseChannel ==
    /\ app = "up" /\ closer = "closing"
    /\ closer' = "closed"
    /\ chan' = IF caller[Bye] = "cancelled" THEN chan ELSE "closed"
    /\ UNCHANGED <<caller, pending, deferred, reader, app, wire, agentSide, lines>>

--------------------------------------------------------------------------------
(* The agent *)

Serve ==
    /\ agent = "idle" /\ wire # <<>>
    /\ \E o \in Outcomes : outcome' = [outcome EXCEPT ![Head(wire)] = o]
    /\ agent' = "busy"
    /\ UNCHANGED <<clientSide, chan, wire, lines>>

Ends(next) ==
    /\ agent' = next
    /\ chan' = IF next = "ended" /\ chan = "open" THEN "eof" ELSE chan

(* It ends after its reply to agent.shutdown, and when nobody reads it. *)
Reply ==
    /\ agent = "busy"
    /\ Ends(IF Head(wire) = Bye \/ chan = "closed" THEN "ended" ELSE "idle")
    /\ lines' = IF chan = "closed" THEN lines
                ELSE Append(lines, [id |-> Head(wire), outcome |-> outcome[Head(wire)]])
    /\ wire' = Tail(wire)
    /\ UNCHANGED <<clientSide, outcome>>

(* It is killed, or reads the end of its input. *)
AgentEnds ==
    /\ agent # "ended" /\ Ends("ended")
    /\ UNCHANGED <<clientSide, wire, outcome, lines>>

--------------------------------------------------------------------------------

CallStep(c) == Send(c) \/ SendFails(c) \/ Return(c)
ReaderStep == Read \/ ReadEnd \/ Clear
CloserStep == StopReading \/ CloseChannel
AgentStep == Serve \/ Reply

ClientNext ==
    \/ \E c \in Calls : Begin(c) \/ CallStep(c) \/ Cancel(c)
    \/ ReaderStep \/ Break \/ Shutdown \/ CloserStep
    \/ AgentStep \/ AgentEnds

ClientSpec == ClientInit /\ [][ClientNext]_clientVars

(* Coroutines that can go on do, and the agent answers what it reads (Agent, *)
(* AlwaysServes).  Nobody has to call, to leave a screen or to shut down.    *)
ClientFairness ==
    /\ \A c \in Calls : WF_clientVars(CallStep(c))
    /\ WF_clientVars(ReaderStep) /\ WF_clientVars(CloserStep) /\ WF_clientVars(AgentStep)

FairClientSpec == ClientSpec /\ ClientFairness

--------------------------------------------------------------------------------

Result == [c \in Calls |-> IF caller[c] \in {"send", "await"} THEN "waiting" ELSE caller[c]]

Promise == INSTANCE Calls WITH result <- Result

(* The client and the agent together keep the promise of Calls, although     *)
(* replies come in while calls are sent, cancelled and swept away           *)
(* (AgentClient.kt:83-127).                                                 *)
KeepsPromise == Promise!Spec

(* A call that waits while the reader still reads ends, unless somebody      *)
(* shuts the client down or the app crashes (AgentClient.kt:97: "so callers  *)
(* don't hang forever").                                                    *)
CallsEnd ==
    \A c \in Calls :
        caller[c] = "await" /\ reader = "reading"
            ~> caller[c] \in Finished \/ reader = "cancelled" \/ app = "crashed"

(* AgentClient.kt:97 fails what still waits at the end of the channel "so       *)
(* callers don't hang forever".  The code does not see to it: a call that comes  *)
(* between the reader's two last steps, after them, or when shutdownAndClose     *)
(* has cancelled the reader, is completed by nobody.                           *)
NobodyHangs == \A c \in Calls : caller[c] = "await" ~> caller[c] # "await" \/ app = "crashed"

================================================================================
