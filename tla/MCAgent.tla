-------------------------------- MODULE MCAgent --------------------------------
(***************************************************************************)
(* A small instance of Agent for TLC, in three parts: two processes append  *)
(* three events to the journal and rotate it while one stream follows; one   *)
(* process appends two events while streams are started and stopped; and,    *)
(* with nobody listening, the processes append five events, which rotate the  *)
(* journal twice.                                                           *)
(***************************************************************************)
EXTENDS Agent

VARIABLE part

Busy == {w \in Writers : writer[w].pc # "idle"}

(* What may be lost when a file is moved does not depend on the stamps. *)
Within ==
    \/ /\ part = "journal" /\ emitted <= 3 /\ ~gone /\ main # "reply"
       /\ main = "join" => todo.method = "events.subscribe" /\ thread = <<>>
    \/ part = "streams" /\ emitted <= 2 /\ Busy \subseteq {CHOOSE w \in Writers : TRUE}
    \/ part = "rotation" /\ main = "read" /\ thread = <<>> /\ caps = {} /\ ~gone
       /\ clock = emitted + 1

Request(id, method, since, want) ==
    [id |-> id, form |-> "good", method |-> method, confirm |-> FALSE,
     since |-> since, want |-> want]

SmallRequests ==
    {Request(1, "agent.hello", 0, {"unknown"}), Request(1, "agent.ping", 0, {}),
     Request(1, "agent.shutdown", 0, {}), Request(1, "save", 0, {}),
     Request(None, "events.subscribe", 0, {}), Request(None, "events.unsubscribe", 0, {})}

MCInit == Init /\ part \in {"journal", "streams", "rotation"}
MCNext == Next /\ UNCHANGED part /\ Within'
MCSpec == MCInit /\ [][MCNext]_<<vars, part>> /\ Fairness

================================================================================
