---------------------------- MODULE MCTaskControl ----------------------------
(* Instances of TaskControl. Over two nodes "fork" runs them as the two branches of
   a parallel gateway and "chain" runs a, then b; "branch" is one branch of a, then
   b, which may send the work of a back, then c, which may send back that of b. *)
EXTENDS TaskControl

CONSTANTS a, b, c

TwoNodes == {a, b}
ThreeNodes == {a, b, c}

ForkPred == [n \in {a, b} |-> {}]
ChainPred == [n \in {a, b} |-> IF n = b THEN {a} ELSE {}]
BranchPred == [n \in {a, b, c} |-> CASE n = a -> {} [] n = b -> {a} [] n = c -> {b}]

\* One automatic retry for a, none for b; for the judge b only; or one for each.
RetryA == [n \in {a, b} |-> IF n = a THEN 1 ELSE 0]
RetryJudge == [n \in {a, b, c} |-> IF n = b THEN 1 ELSE 0]
RetryBoth == [n \in {a, b} |-> 1]

\* The outside events of each run. Two crashes and two user requests are the
\* least that lets one meet the traces of another.
NoEvent == [e \in Events |-> 0]
ForkLimit == [NoEvent EXCEPT !["control"] = 2, !["crash"] = 2]
ChainLimit == [NoEvent EXCEPT !["control"] = 1, !["stop"] = 2, !["crash"] = 2,
                              !["setup"] = 1]
AnyLimit == [[e \in Events |-> 1] EXCEPT !["return"] = 2, !["control"] = 0,
                                          !["setup"] = 0]
StopLimit == [NoEvent EXCEPT !["stop"] = 1]
CloseLimit == [NoEvent EXCEPT !["close"] = 1]
SetupLimit == [NoEvent EXCEPT !["setup"] = 1]
=============================================================================
