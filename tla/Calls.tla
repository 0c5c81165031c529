---------------------------------- MODULE Calls ----------------------------------
(***************************************************************************)
(* What a caller of the agent is promised: a call is executed at most      *)
(* once, and is answered, once, with what its own execution came to.  A    *)
(* call that fails or is given up may have been executed or not.           *)
(***************************************************************************)
CONSTANTS Calls, Outcomes

VARIABLES
    outcome,    \* what the agent made of each call, "none" before it has
    result      \* what each caller knows: "idle" before the call, then
                \* "waiting", and in the end an outcome, "failed" or "cancelled"

Init ==
    /\ outcome = [c \in Calls |-> "none"]
    /\ result = [c \in Calls |-> "idle"]

Begin(c) ==
    /\ result[c] = "idle"
    /\ result' = [result EXCEPT ![c] = "waiting"]
    /\ UNCHANGED outcome

Execute(c) ==
    /\ result[c] # "idle" /\ outcome[c] = "none"
    /\ \E o \in Outcomes : outcome' = [outcome EXCEPT ![c] = o]
    /\ UNCHANGED result

Answer(c) ==
    /\ result[c] = "waiting" /\ outcome[c] # "none"
    /\ result' = [result EXCEPT ![c] = outcome[c]]
    /\ UNCHANGED outcome

End(c) ==
    /\ result[c] = "waiting"
    /\ \E r \in {"failed", "cancelled"} : result' = [result EXCEPT ![c] = r]
    /\ UNCHANGED outcome

Next == \E c \in Calls : Begin(c) \/ Execute(c) \/ Answer(c) \/ End(c)
Spec == Init /\ [][Next]_<<outcome, result>>

================================================================================
