--------------------------- MODULE MCConversation ---------------------------
(* Instances of Conversation: one browser behind a queue of one or two places. *)
EXTENDS Conversation

Happens(s) == [f \in FaultNames |-> IF f \in s THEN 1 ELSE 0]

\* What meets what. (Two turns and every fault at once are too many states.)
Meetings == {Happens({"send", "disconnect"}),
             Happens({"other", "disconnect", "malformed"}),
             Happens({"send", "other"}),
             Happens({"send", "kill"}),
             Happens({"other", "kill"}),
             Happens({"announce", "other"}),
             Happens({"announce", "disconnect"}),
             Happens({"delete", "send"}),
             Happens({"restart", "other"})}
=============================================================================
