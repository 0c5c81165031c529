---------------------------------- MODULE Agent ----------------------------------
(***************************************************************************)
(* One agent session (agent.py): the main thread reads a request line,     *)
(* handles it and writes the reply before it reads the next; a stream       *)
(* thread, started by events.subscribe, follows the journal and writes its  *)
(* events on the same channel.  A write can stall for as long as the phone  *)
(* does not read, and it holds the write lock meanwhile.                    *)
(***************************************************************************)
EXTENDS EventJournal, AgentMethods

CONSTANTS
    Requests,       \* the requests the phone may send
    MaxThreads      \* bound: stream threads a session starts

(* `since` is the time stamp a subscriber resumes from, 0 for none. *)
ASSUME RequestsAssumption == \A req \in Requests : req.since \in Nat

VARIABLES
    main,       \* the main thread: "read", "join", "reply" or "ended"
    todo,       \* the request whose handler waits in _stop_events, or Close
    caps,       \* the capabilities of the last agent.hello
    shutdown,   \* agent.shutdown was called
    stop,       \* whether the session's stop event, _ev_stop, is set
    thread,     \* every stream thread started, in order
    stream,     \* _ev_thread, 0 for None
    wlock,      \* the stream thread that is inside _write, 0 if none is
    gone        \* the phone has closed the channel

session == <<main, todo, caps, shutdown, stop, thread, stream, wlock, gone>>
vars == <<journal, session>>

Close == [method |-> "close", since |-> 0, id |-> None]

AgentInit ==
    /\ main = "read" /\ todo = Close /\ caps = {} /\ shutdown = FALSE
    /\ stop = FALSE /\ thread = <<>> /\ stream = 0 /\ wlock = 0
    /\ gone = FALSE

Ended(t) == thread[t].pc \in {"done", "dead"}
Alive == {t \in DOMAIN thread : ~Ended(t)}

--------------------------------------------------------------------------------
(* The main thread. *)

(* _stop_events, up to the join.  Mutant: the event is never set. *)
MutantStopEvents(next) ==
    main' = "join" /\ todo' = next /\ UNCHANGED stop

StopEvents(next) ==
    main' = "join" /\ todo' = next /\ stop' = TRUE

(* Only that there is a reply is kept.  A successful call of a request       *)
(* without an id has none; an error is always answered.                     *)
Answer(req, outcome) ==
    main' = IF outcome = "ok" /\ req.id = None THEN "read" ELSE "reply"

Asked(req) == main = "read" /\ ~gone /\ Gate(req, caps) = "call"

(* serve: a line too long, not JSON or no object; and a request that is      *)
(* turned away.                                                             *)
ReadNoise ==
    /\ main = "read" /\ ~gone /\ main' = "reply"
    /\ UNCHANGED <<journal, todo, caps, shutdown, stop, thread, stream, wlock, gone>>

Refuse(req) == Gate(req, caps) # "call" /\ ReadNoise

(* agent.hello replaces the capabilities by those it names and knows.        *)
(* Mutant: by whatever it names.                                            *)
MutantGranted(want) == want

Granted(want) == want \cap Capabilities

Hello(req) ==
    /\ Asked(req) /\ req.method = "agent.hello"
    /\ caps' = Granted(req.want)
    /\ Answer(req, "ok")
    /\ UNCHANGED <<journal, todo, shutdown, stop, thread, stream, wlock, gone>>

(* The session ends after the reply, or at once if there is none. *)
Shutdown(req) ==
    /\ Asked(req) /\ req.method = "agent.shutdown"
    /\ shutdown' = TRUE
    /\ IF req.id = None THEN StopEvents(Close)
                        ELSE Answer(req, "ok") /\ UNCHANGED <<todo, stop>>
    /\ UNCHANGED <<journal, caps, thread, stream, wlock, gone>>

Subscribe(req) ==
    /\ Asked(req)
    /\ \/ req.method = "events.unsubscribe"
       \/ req.method = "events.subscribe" /\ Len(thread) < MaxThreads
    /\ StopEvents(req)
    /\ UNCHANGED <<journal, caps, shutdown, thread, stream, wlock, gone>>

(* Every other method: it answers or raises; what it does elsewhere is in    *)
(* the modules of the things it touches.                                    *)
Call(req) ==
    /\ Asked(req)
    /\ req.method \notin {"agent.hello", "agent.shutdown",
                          "events.subscribe", "events.unsubscribe"}
    /\ \E outcome \in {"ok"} \cup DOMAIN ErrorCode : Answer(req, outcome)
    /\ UNCHANGED <<journal, todo, caps, shutdown, stop, thread, stream, wlock, gone>>

(* Mutant: the new stream goes by the old stop event, which is set. *)
MutantStart(since) ==
    /\ thread' = Append(thread, [pc |-> "look", since |-> since, last |-> since,
                                 batch |-> <<>>, sent |-> <<>>])
    /\ stream' = Len(thread) + 1
    /\ UNCHANGED stop

(* _start_events, once the old stream has been stopped: a new stop event and *)
(* a new thread.                                                            *)
Start(since) ==
    /\ thread' = Append(thread, [pc |-> "look", since |-> since, last |-> since,
                                 batch |-> <<>>, sent |-> <<>>])
    /\ stream' = Len(thread) + 1
    /\ stop' = FALSE

(* join(timeout=2) returns when the thread has ended or when it has not: the *)
(* main thread goes on without it.                                          *)
Join ==
    /\ main = "join"
    /\ todo' = Close
    /\ CASE todo.method = "events.subscribe" -> Start(todo.since) /\ Answer(todo, "ok")
         [] todo.method = "events.unsubscribe" ->
                Answer(todo, "ok") /\ stream' = 0 /\ UNCHANGED <<stop, thread>>
         [] OTHER -> main' = "ended" /\ stream' = 0 /\ UNCHANGED <<stop, thread>>
    /\ UNCHANGED <<journal, caps, shutdown, wlock, gone>>

(* The reply is written once no stream thread holds the write lock; a write  *)
(* on a closed channel raises and ends the session.                         *)
WriteReply ==
    /\ main = "reply" /\ wlock = 0
    /\ IF gone \/ shutdown THEN StopEvents(Close)
                           ELSE main' = "read" /\ UNCHANGED <<todo, stop>>
    /\ UNCHANGED <<journal, caps, shutdown, thread, stream, wlock, gone>>

Hangup ==
    /\ ~gone /\ main # "ended" /\ gone' = TRUE
    /\ UNCHANGED <<journal, main, todo, caps, shutdown, stop, thread, stream, wlock>>

EndOfInput ==
    /\ main = "read" /\ gone
    /\ StopEvents(Close)
    /\ UNCHANGED <<journal, caps, shutdown, thread, stream, wlock, gone>>

--------------------------------------------------------------------------------
(* A stream thread.  It enters its loop as if it had just found its flag     *)
(* clear: the first replay does not look.  Threads are daemons: they end     *)
(* with the process.                                                        *)

Runs(t, pc) == main # "ended" /\ thread[t].pc = pc

(* The flag is whichever stop event is the session's now, not the one the    *)
(* thread was started with: a thread that a join did not wait for goes on    *)
(* when the phone subscribes again.  read looks for the file first.          *)
Look(t) ==
    /\ Runs(t, "look") \/ Runs(t, "check")
    /\ thread' = [thread EXCEPT ![t].pc =
            IF @ = "check" /\ stop THEN "done"
            ELSE IF live = 0 THEN "check" ELSE "fetch"]
    /\ UNCHANGED <<journal, main, todo, caps, shutdown, stop, stream, wlock, gone>>

(* Moved away since it was looked for, the file ends the thread with a       *)
(* FileNotFoundError nobody catches.                                        *)
Fetch(t) ==
    /\ Runs(t, "fetch")
    /\ thread' = [thread EXCEPT
            ![t].batch = Newer(thread[t].last),
            ![t].pc = IF live = 0 THEN "dead"
                      ELSE IF Newer(thread[t].last) = <<>> THEN "check" ELSE "send"]
    /\ UNCHANGED <<journal, main, todo, caps, shutdown, stop, stream, wlock, gone>>

(* The cursor moves before the event is written. *)
BeginSend(t) ==
    /\ Runs(t, "send") /\ wlock = 0
    /\ wlock' = t
    /\ thread' = [thread EXCEPT ![t].pc = "sending", ![t].last = Head(thread[t].batch).ts]
    /\ UNCHANGED <<journal, main, todo, caps, shutdown, stop, stream, gone>>

(* Mutant: a write that fails keeps the lock. *)
MutantEndSend(t) ==
    /\ Runs(t, "sending")
    /\ wlock' = IF gone THEN t ELSE 0
    /\ thread' = [thread EXCEPT ![t].pc = IF gone THEN "dead" ELSE "check"]
    /\ UNCHANGED <<journal, main, todo, caps, shutdown, stop, stream, gone>>

EndSend(t) ==
    /\ Runs(t, "sending")
    /\ wlock' = 0
    /\ \/ gone /\ thread' = [thread EXCEPT ![t].pc = "dead"]
       \/ /\ ~gone
          /\ thread' = [thread EXCEPT
                  ![t].sent = Append(@, Head(thread[t].batch)),
                  ![t].batch = Tail(thread[t].batch),
                  ![t].pc = IF Len(thread[t].batch) = 1 THEN "check" ELSE "send"]
    /\ UNCHANGED <<journal, main, todo, caps, shutdown, stop, stream, gone>>

--------------------------------------------------------------------------------

MainStep == WriteReply \/ Join \/ EndOfInput
ThreadStep(t) == Look(t) \/ Fetch(t) \/ BeginSend(t) \/ EndSend(t)

AgentNext ==
    \/ ReadNoise \/ MainStep \/ Hangup
    \/ \E req \in Requests : \/ Refuse(req) \/ Hello(req) \/ Shutdown(req)
                             \/ Subscribe(req) \/ Call(req)
    \/ \E t \in DOMAIN thread : ThreadStep(t)

Init == JournalInit /\ AgentInit
(* What is journalled after the session has ended is of no interest here. *)
Next == \/ main # "ended" /\ JournalNext /\ UNCHANGED session
        \/ AgentNext
Spec == Init /\ [][Next]_vars

(* The threads are scheduled, and the phone reads what it is sent in the end; *)
(* nobody has to emit, to ask or to hang up.  Threads share the write lock,   *)
(* so that each needs it again and again: strong fairness.                   *)
Fairness ==
    /\ WF_vars(MainStep) /\ SF_vars(WriteReply)
    /\ \A t \in 1..MaxThreads :
        /\ WF_vars(t \in DOMAIN thread /\ ThreadStep(t))
        /\ SF_vars(t \in DOMAIN thread /\ BeginSend(t))

FairSpec == Spec /\ Fairness

--------------------------------------------------------------------------------

Sinces == {req.since : req \in Requests}

ThreadType ==
    [pc: {"check", "look", "fetch", "send", "sending", "done", "dead"},
     since: Sinces, last: Sinces \cup 1..MaxEvents + 1,
     batch: Seq(Events), sent: Seq(Events)]

TypeOK ==
    /\ live \in 0..Len(file) /\ kept \in 0..Len(file)
    /\ file \in Seq(Seq(Events))
    /\ caps \subseteq Capabilities
    /\ main \in {"read", "join", "reply", "ended"} /\ todo \in Requests \cup {Close}
    /\ stop \in BOOLEAN /\ shutdown \in BOOLEAN /\ gone \in BOOLEAN
    /\ thread \in Seq(ThreadType)
    /\ stream \in 0..Len(thread) /\ wlock \in 0..Len(thread)

(* The journal is in the order of its time stamps. *)
InOrder == \A i, j \in DOMAIN history : i < j => history[i].ev.ts < history[j].ev.ts

(* While the journal is in the order of its stamps, each stream thread sends  *)
(* every event once, in order, and leaves one out only if it was moved away    *)
(* with its file, however often the thread polled and whatever was rotated     *)
(* meanwhile (agent.py:210-219, events.py:70-89).  Two threads of one session   *)
(* that overlap each send their own: the phone tells them apart by the stamp.  *)
FaithfulStream ==
    InOrder => \A t \in DOMAIN thread :
        LET sent == thread[t].sent
            was(ev) == \E i \in DOMAIN sent : sent[i] = ev
        IN  /\ \A i, j \in DOMAIN sent : i < j => sent[i].ts < sent[j].ts
            /\ \A h \in DOMAIN history :
                LET ev == history[h].ev
                IN  /\ ev.ts > thread[t].since
                    /\ sent # <<>> /\ ev.ts < sent[Len(sent)].ts
                    => was(ev) \/ history[h].at # live

(* No stream outlives an unsubscribe, also not one that a join did not wait  *)
(* for, unless the phone subscribes again (agent.py:200-204).               *)
StreamsEnd == (stream = 0) ~> (Alive = {} \/ stream # 0 \/ main = "ended")

(* A stream that is stuck in a write, or will not end, never keeps the       *)
(* session from going on (agent.py:203).                                    *)
AlwaysServes == (main \in {"join", "reply"}) ~> (main \in {"read", "ended"})

(* An event of the journal that the running stream has yet to pass. *)
Unread(n) ==
    /\ stream # 0 /\ live # 0 /\ thread[stream].pc # "dead"
    /\ \E i \in DOMAIN file[live] :
           file[live][i].id = n /\ file[live][i].ts > thread[stream].last

(* What is in the journal of a session with a running stream is passed by    *)
(* the stream's cursor in the end, unless it is moved away first or the       *)
(* stream ends (agent.py:210-219).                                          *)
StreamCatchesUp == \A n \in 1..MaxEvents : Unread(n) ~> ~Unread(n)

================================================================================
