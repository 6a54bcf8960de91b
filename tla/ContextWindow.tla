---------------------------- MODULE ContextWindow ----------------------------
(***************************************************************************)
(* What a session sends to its model, and what is done to it on the way.   *)
(* lc is the list of messages the session remembers (lc_messages),         *)
(* messages the list the graph works on during a turn, sent the list the   *)
(* model was given last, record the history on file.  A message is a       *)
(* record: its role, the calls it makes (an assistant) or answers (a       *)
(* tool), whether it has text, its size in tokens, and a number that says  *)
(* when it was written.                                                    *)
(*                                                                         *)
(* src/core/utils.py, src/compression, src/core/graph_builder.py and the   *)
(* part of src/agent/session.py that calls them.  The reactive strategy    *)
(* is left out: no code asks for it.                                       *)
(***************************************************************************)
EXTENDS Integers, Sequences, FiniteSets, SequencesExt

CONSTANTS
    MaxContext,     \* config.MAX_CONTEXT_TOKENS: where a list is trimmed
    FullAt,         \* compactionThreshold * maxContextTokens of the model
    ToolsAt,        \* toolResultTokenRatio * maxContextTokens
    MaxToolResults, \* microCompact.maxToolResults
    KeepTools,      \* microCompact.keepRecentToolResults
    KeepRecent,     \* fullCompact.keepRecentTokens
    MaxRounds,      \* rounds of tools in one turn
    QuestionSizes, AnswerSizes, ResultSizes, \* tokens of what is written
    MaxMessages,    \* bound: messages ever written
    MaxCompacts     \* bound: compactions asked for by hand

VARIABLES lc, messages, sent, record,
          phase,    \* idle, asked (a question waits), thinking, tools
          rounds,   \* remaining_rounds
          written,  \* messages written so far: numbers them, and the bound
          compacts  \* compactions asked for by hand
vars == <<lc, messages, sent, record, phase, rounds, written, compacts>>

Message(role, calls, text, size, no) ==
    [role |-> role, calls |-> calls, text |-> text, size |-> size, no |-> no]
SystemPrompt == Message("system", {}, TRUE, 1, 0)

\* The elements of s at the positions P, in their order
Rank(P, i) == Cardinality({j \in P : j <= i})
Picked(s, P) == [k \in 1 .. Cardinality(P) |-> s[CHOOSE i \in P : Rank(P, i) = k]]
OfRole(s, role) == Picked(s, {i \in DOMAIN s : s[i].role = role})
Dialogue(s) == Picked(s, {i \in DOMAIN s : s[i].role # "system"})

(* The estimates: the text alone, or with the arguments of the calls an    *)
(* assistant makes (one token each).                                       *)
Total(n, sizes) ==
    LET sum[k \in 0 .. n] == IF k = 0 THEN 0 ELSE sum[k - 1] + sizes[k]
    IN  sum[n]
TextTokens(s) == Total(Len(s), [i \in DOMAIN s |-> s[i].size])
Cost(m) == m.size + (IF m.role = "ai" THEN Cardinality(m.calls) ELSE 0)
AllTokens(s) == Total(Len(s), [i \in DOMAIN s |-> Cost(s[i])])

------------------------------------------------------------------------------
(* Of an assistant whose calls are not all answered its text is left.      *)
WithoutCalls(m) == [m EXCEPT !.calls = {}]
Texts(s) == {i \in DOMAIN s : s[i].text}

(* _sanitize_tool_pairs: calls and results matched by name anywhere in the *)
(* list.                                                                   *)
Answered(s) == UNION {s[i].calls : i \in {j \in DOMAIN s : s[j].role = "tool"}}
Asked(s) == UNION {s[i].calls : i \in {j \in DOMAIN s : s[j].role = "ai"}}
Open(s) == {i \in DOMAIN s : s[i].role = "ai" /\ ~(s[i].calls \subseteq Answered(s))}
Cleared(s, open) == [i \in DOMAIN s |-> IF i \in open THEN WithoutCalls(s[i]) ELSE s[i]]
SanitizePairs(s) ==
    LET kept == Picked(Cleared(s, Open(s)), DOMAIN s \ (Open(s) \ Texts(s)))
    IN  Picked(kept, {i \in DOMAIN kept : kept[i].role = "tool" => kept[i].calls \subseteq Asked(kept)})

(* _sanitize_tool_pairs_strict: the results must follow their assistant    *)
(* with nothing between.                                                   *)
Block(s, i) == {j \in i + 1 .. Len(s) : \A k \in i + 1 .. j : s[k].role = "tool"}
Complete(s, i) == s[i].calls \subseteq UNION {s[j].calls : j \in Block(s, i)}
InBlock(s, j) ==
    \E i \in 1 .. j - 1 : /\ s[i].role = "ai" /\ s[i].calls # {} /\ Complete(s, i)
                          /\ j \in Block(s, i) /\ s[j].calls \subseteq s[i].calls
Unanswered(s) == {i \in DOMAIN s : s[i].role = "ai" /\ ~Complete(s, i)}
Strays(s) == {i \in DOMAIN s : s[i].role = "tool" /\ ~InBlock(s, i)}
\* Mutants: the pairs are matched anywhere; only the first result is kept.
SanitizeLoosely(s) == SanitizePairs(s)
SanitizeFirstOnly(s) ==
    LET further == {i \in DOMAIN s : s[i].role = "tool" /\ (i = 1 \/ s[i - 1].role # "ai")}
    IN  Picked(Cleared(s, Unanswered(s)), DOMAIN s \ (further \cup (Unanswered(s) \ Texts(s))))
SanitizeStrict(s) ==
    Picked(Cleared(s, Unanswered(s)), DOMAIN s \ (Strays(s) \cup (Unanswered(s) \ Texts(s))))

(* trim_langchain_messages: the system messages, and the longest tail that *)
(* fits beside them.                                                       *)
TrimHead(s) ==
    LET system == OfRole(s, "system")
        others == Dialogue(s)
        fits == {n \in 0 .. Len(others) :
                    TextTokens(system) + TextTokens(SubSeq(others, 1, n)) <= MaxContext}
        n == IF fits = {} THEN 0 ELSE CHOOSE n \in fits : \A k \in fits : k <= n
    IN  IF TextTokens(s) <= MaxContext THEN SanitizePairs(s)
        ELSE SanitizePairs(system \o SubSeq(others, 1, n))
Trim(s) ==
    LET system == OfRole(s, "system")
        others == Dialogue(s)
        fits == {n \in 1 .. Len(others) + 1 :
                    TextTokens(system) + TextTokens(SubSeq(others, n, Len(others))) <= MaxContext}
        from == IF fits = {} THEN Len(others) + 1 ELSE CHOOSE n \in fits : \A k \in fits : n <= k
    IN  IF TextTokens(s) <= MaxContext THEN SanitizePairs(s)
        ELSE SanitizePairs(system \o SubSeq(others, from, Len(others)))

------------------------------------------------------------------------------
(* CompressionChecker.pre_check: system messages do not count. *)
Decision(s) ==
    LET results == OfRole(s, "tool")
    IN  CASE AllTokens(Dialogue(s)) > FullAt -> "full"
          [] Len(results) > MaxToolResults /\ TextTokens(results) > ToolsAt -> "micro"
          [] OTHER -> "none"

(* MicroCompactStrategy: the results but the last few become a placeholder *)
Later(s, i) == Cardinality({j \in i + 1 .. Len(s) : s[j].role = "tool"})
Micro(s) ==
    [i \in DOMAIN s |-> IF s[i].role = "tool" /\ Later(s, i) >= KeepTools
                        THEN [s[i] EXCEPT !.size = 1] ELSE s[i]]

(* FullCompactStrategy: everything before a recent part becomes a summary. *)
(* The recent part starts after the first system message; within it and    *)
(* before it system messages are kept, and come first.                     *)
FirstBody(s) ==
    LET system == {i \in DOMAIN s : s[i].role = "system"}
    IN  IF system = {} THEN 1 ELSE 1 + CHOOSE i \in system : \A j \in system : i <= j
Split(s) ==
    LET fits == {i \in FirstBody(s) .. Len(s) + 1 :
                    AllTokens(SubSeq(s, i, Len(s))) <= KeepRecent}
    IN  CHOOSE i \in fits : \A j \in fits : i <= j
Summary(no) == Message("ai", {}, TRUE, 1, no)
Full(s, no) ==
    OfRole(s, "system") \o <<Summary(no)>>
        \o Dialogue(SubSeq(s, Split(s), Len(s)))
Compressible(s) == Split(s) > FirstBody(s)

(* PostProcessor.process: the boundary goes behind the first assistant, or *)
(* before everything; no file is ever registered, so none is attached.     *)
Boundary == Message("system", {}, TRUE, 1, 0)
FirstAi(s) ==
    LET ai == {i \in DOMAIN s : s[i].role = "ai"}
    IN  IF ai = {} THEN 0 ELSE CHOOSE i \in ai : \A j \in ai : i <= j
WithBoundary(s) == InsertAt(s, FirstAi(s) + 1, Boundary)

(* CompressionScheduler.execute: the boundary follows whatever the full    *)
(* strategy returned, the list as it was when there is nothing to          *)
(* summarise or no summary came.                                           *)
Compressed(strategy, s, summarised, no) ==
    CASE strategy = "none" -> s
      [] strategy = "micro" -> IF Len(OfRole(s, "tool")) <= KeepTools THEN s ELSE Micro(s)
      [] strategy = "full" /\ Compressible(s) /\ summarised -> WithBoundary(Full(s, no))
      [] OTHER -> WithBoundary(s)

------------------------------------------------------------------------------
(* A turn of AgentSession._invoke_graph *)

Written(n) == /\ written + n <= MaxMessages
              /\ written' = written + n

Ask ==
    /\ phase = "idle"
    /\ Written(1)
    /\ \E size \in QuestionSizes :
          LET m == Message("user", {}, TRUE, size, written + 1)
          IN  /\ lc' = Append(lc, m)
              /\ record' = Append(record, m)
    /\ phase' = "asked"
    /\ UNCHANGED <<messages, sent, rounds, compacts>>

Prepare ==
    /\ phase = "asked"
    /\ \E summarised \in BOOLEAN :
          lc' = Trim(Compressed(Decision(lc), lc, summarised, 0))
    /\ messages' = lc'
    /\ phase' = "thinking"
    /\ rounds' = MaxRounds
    /\ UNCHANGED <<sent, record, written, compacts>>

(* The model's answer joins the list and the record; without calls it ends *)
(* the turn, and the list becomes the session's memory.                    *)
EndWith(s) ==
    /\ lc' = SanitizePairs(s)
    /\ messages' = <<>>
    /\ phase' = "idle"

Answer ==
    /\ phase = "thinking"
    /\ sent' = SanitizeStrict(messages)
    /\ Written(1)
    /\ \E size \in AnswerSizes :
          LET m == Message("ai", {}, TRUE, size, written + 1)
          IN  /\ record' = Append(record, m)
              /\ EndWith(Append(messages, m))
    /\ UNCHANGED <<rounds, compacts>>

(* Calls in the last round are taken off the answer, which then ends the   *)
(* turn as text; the record keeps it as the model gave it.                 *)
OutOfRounds ==
    /\ phase = "thinking" /\ rounds <= 1
    /\ sent' = SanitizeStrict(messages)
    /\ Written(1)
    /\ \E text \in BOOLEAN :
          LET m == Message("ai", {<<written + 1, 1>>}, text, IF text THEN 1 ELSE 0, written + 1)
          IN  /\ record' = Append(record, m)
              /\ EndWith(Append(messages, Message("ai", {}, TRUE, 1, written + 1)))
    /\ UNCHANGED <<rounds, compacts>>

CallTools ==
    /\ phase = "thinking" /\ rounds > 1
    /\ sent' = SanitizeStrict(messages)
    /\ Written(1)
    /\ \E n \in 1 .. 2, text \in BOOLEAN :
          LET m == Message("ai", {<<written + 1, k>> : k \in 1 .. n}, text,
                           IF text THEN 1 ELSE 0, written + 1)
          IN  /\ messages' = Append(messages, m)
              /\ record' = Append(record, m)
    /\ phase' = "tools"
    /\ rounds' = rounds - 1
    /\ UNCHANGED <<lc, compacts>>

(* The tool node answers every call of the last message, in their order. *)
ToolsAnswer ==
    /\ phase = "tools"
    /\ LET calls == Last(messages).calls
           turn == Last(messages).no
       IN  /\ Written(Cardinality(calls))
           /\ \E size \in ResultSizes :
                 LET results == [k \in 1 .. Cardinality(calls) |->
                                    Message("tool", {<<turn, k>>}, TRUE, size, written + k)]
                 IN  /\ messages' = messages \o results
                     /\ record' = record \o results
    /\ phase' = "thinking"
    /\ UNCHANGED <<lc, sent, rounds, compacts>>

(* _rollback_on_error after an error or an abort: what the graph held is   *)
(* gone, the question is taken back if nothing followed it.                *)
WithoutQuestion(s) == IF s # <<>> /\ Last(s).role = "user" THEN Front(s) ELSE s
FailRecordOnly ==
    /\ phase \in {"thinking", "tools"}
    /\ record' = WithoutQuestion(record)
    /\ EndWith(lc)
    /\ UNCHANGED <<sent, rounds, written, compacts>>
Fail ==
    /\ phase \in {"thinking", "tools"}
    /\ record' = WithoutQuestion(record)
    /\ EndWith(WithoutQuestion(lc))
    /\ UNCHANGED <<sent, rounds, written, compacts>>

(* AgentSession.compress: asked for by a person, always the full strategy. *)
CompactByHand ==
    /\ phase = "idle"
    /\ compacts < MaxCompacts
    /\ \E summarised \in BOOLEAN : lc' = Compressed("full", lc, summarised, 0)
    /\ compacts' = compacts + 1
    /\ UNCHANGED <<messages, sent, record, phase, rounds, written>>

(* A restart: the memory is built again from the record. *)
Restart ==
    /\ lc' = SanitizePairs(<<SystemPrompt>> \o record)
    /\ messages' = <<>>
    /\ phase' = "idle"
    /\ UNCHANGED <<sent, record, rounds, written, compacts>>

Init ==
    /\ lc = <<SystemPrompt>>
    /\ messages = <<>> /\ sent = <<>> /\ record = <<>>
    /\ phase = "idle" /\ rounds = 0
    /\ written = 0 /\ compacts = 0

Next == Ask \/ Prepare \/ Answer \/ CallTools \/ OutOfRounds \/ ToolsAnswer \/ Fail \/ CompactByHand \/ Restart

Spec == Init /\ [][Next]_vars

------------------------------------------------------------------------------
\* What the proofs assume of the constants
SizesAreNumbers ==
    /\ MaxContext \in Nat /\ KeepRecent \in Nat
    /\ QuestionSizes \cup AnswerSizes \cup ResultSizes \subseteq Nat

TypeOK ==
    /\ SizesAreNumbers
    /\ \A s \in {lc, messages, sent, record} : \A i \in DOMAIN s :
          /\ s[i].role \in {"system", "user", "ai", "tool"}
          /\ s[i].size \in 0 .. MaxContext
          /\ s[i].no \in 0 .. MaxMessages
          /\ s[i].role = "tool" => Cardinality(s[i].calls) = 1
    /\ phase \in {"idle", "asked", "thinking", "tools"}
    /\ rounds \in 0 .. MaxRounds
    /\ written \in 0 .. MaxMessages /\ compacts \in 0 .. MaxCompacts

(* The request the model is given is one its interface accepts, whatever   *)
(* trimming, compaction, failed turns and restarts have left in memory:    *)
(* every call is answered in the block behind it, every result answers one *)
(* of the calls before its block (docstring of _sanitize_tool_pairs_strict, *)
(* utils.py:74).                                                           *)
RequestIsWellFormed ==
    \A i \in DOMAIN sent :
        /\ sent[i].role = "ai" => Complete(sent, i)
        /\ sent[i].role = "tool" => InBlock(sent, i)

(* The question asked is in the request that answers it, last but for the  *)
(* exchange of its own turn, if it fits beside the system messages         *)
(* (_split_messages and trim_langchain_messages drop from the front).      *)
Question == Last(OfRole(record, "user"))
QuestionReachesModel ==
    phase = "thinking" /\ Question.size <= KeepRecent
        /\ TextTokens(OfRole(messages, "system")) + Question.size + 1 <= MaxContext
    => \E i \in DOMAIN messages :
          /\ messages[i] = Question
          /\ \A j \in DOMAIN messages : j > i => messages[j].no > Question.no

(* What the tools answered in this turn is all in the next request: no     *)
(* repair of the list takes a result the model is waiting for              *)
(* (_make_llm_node runs the strict repair before every call).              *)
ResultsAreSent ==
    (Answer \/ CallTools \/ OutOfRounds) =>
        \A i \in DOMAIN messages :
            messages[i].role = "tool" /\ messages[i].no > Question.no
                => \E j \in DOMAIN sent' : sent'[j] = messages[i]
ResultsReachModel == [][ResultsAreSent]_vars

(* What a restart brings back contains every question and every text the   *)
(* model still remembers, apart from summaries: memory is never ahead of   *)
(* the record it is restored from (from_dict, _restore_lc_from_record).    *)
RecordCoversMemory ==
    \A i \in DOMAIN lc : lc[i].no > 0 =>
        \E j \in DOMAIN record : record[j].no = lc[i].no /\ record[j].role = lc[i].role
=============================================================================
