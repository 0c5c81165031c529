\* A call and agent.shutdown: a call that waits for ever.
CONSTANTS
    Calls = {c1, bye}
    Bye = bye
    Outcomes = {result}
SPECIFICATION FairClientSpec
PROPERTY
    NobodyHangs
CHECK_DEADLOCK FALSE
