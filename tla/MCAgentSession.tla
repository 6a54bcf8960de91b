---------------------------- MODULE MCAgentSession ----------------------------
(* Sessions of two kinds, with a few calls each and what may go wrong. *)
EXTENDS AgentSession, TLC

Session(type, calls, faults) == [type |-> type, calls |-> calls, faults |-> faults]
Three(first, second, third) == [c1 |-> first, c2 |-> second, c3 |-> third]

Lives == {
    Session("sub", Three("task", "mail", "message"), {"kill", "slow"}),
    Session("sub", Three("task", "edit", "never"), {"abort", "delete"}),
    Session("sub", Three("task", "retry", "compact"), {"compress"}),
    Session("sub", Three("task", "retry", "message"), {"cancel"}),
    Session("main", Three("message", "mail", "edit"), {"kill"}),
    Session("main", Three("message", "compact", "never"), {"crash", "disk"}),
    Session("main", Three("mail", "edit", "never"), {"compress", "abort", "crash"}),
    Session("main", Three("message", "edit", "never"), {"limit", "error"}),
    Session("sub", Three("task", "mail", "never"), {"shutdown", "disk"}),
    Session("main", Three("mail", "mail", "message"), {"kill"}),
    Session("main", Three("mail", "message", "never"), {"shutdown"})}
==============================================================================
