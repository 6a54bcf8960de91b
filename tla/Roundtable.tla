------------------------------ MODULE Roundtable ------------------------------
(***************************************************************************)
(* A round-table meeting: a runner takes the seats' turns one after the    *)
(* other, in a fixed order or as a moderator decides, while people speak   *)
(* up, call on a seat, add and remove seats, pause, resume and stop it.    *)
(* The runner lets others act only where it waits: for a model, or for the *)
(* end of a pause.  What people ask for in between is queued.              *)
(*                                                                         *)
(* src/roundtable/runner.py and src/roundtable/models.py; a start beyond   *)
(* the first, the restart of the process and deletion are left out.        *)
(***************************************************************************)
EXTENDS Integers, Sequences, FiniteSets, SequencesExt

CONSTANTS
    Seats,       \* the seats a meeting begins with, in their order
    Guests,      \* the seats that may be added
    MaxRounds,   \* max_rounds
    MaxSeats,    \* config.ROUNDTABLE_MAX_SEATS
    Interval,    \* compressor.summary_interval: 0 for no summaries
    MaxRequests, \* bound: what people ask for, and models' errors
    MaxTokens,   \* bound: tokens of a speech
    MaxSpeeches  \* bound: speakers and summaries a moderator decides on (its index)

VARIABLES
    strategy,   \* round_robin or moderator_decides
    status,     \* waiting, discussing, paused, ended
    seats,      \* session.seats
    turn,       \* the strategy: round, index of the next speaker, finished, pending
    runner,     \* where the runner is, and the interventions it has in hand
    draft,      \* active_turn: seat and tokens, or NoDraft
    transcript, \* who said how much in which round, and as what
    asked,      \* intervention_queue
    requests,   \* requests so far (bound)
    present     \* the seats that have been there since the round began (history)
vars == <<strategy, status, seats, turn, runner, draft, transcript, asked, requests, present>>

NoDraft == [seat |-> "nobody", tokens |-> 0]
Entry(who, round, type, tokens) == [who |-> who, round |-> round, type |-> type, tokens |-> tokens]
Waits(at) == [at |-> at, rest |-> <<>>, called |-> FALSE]
Members(s) == {s[i] : i \in DOMAIN s}

------------------------------------------------------------------------------
(* The seats and the speaking order *)

Least(a, b) == IF a <= b THEN a ELSE b
Greatest(a, b) == IF a <= b THEN b ELSE a
AddSeat(m, seat) == [m EXCEPT !.seats = Append(@, seat)]

(* remove_seat keeps the index on the seat that is next.  Behind the last  *)
(* seat it would start a new round: it is put on the last but one.         *)
IndexUnchanged(index, removed, left) == index
IndexBelow(index, removed, left) == IF removed <= index THEN index - 1 ELSE index
IndexWithout(index, removed, left) ==
    CASE index > 1 /\ removed < index -> index - 1
      [] index > 1 /\ removed = index -> Least(index, Greatest(1, left))
      [] OTHER -> index
RemoveSeat(m, seat) ==
    IF seat \notin Members(m.seats) THEN m
    ELSE LET i == CHOOSE k \in DOMAIN m.seats : m.seats[k] = seat
         IN  [m EXCEPT !.seats = RemoveAt(@, i),
                       !.index = IF strategy = "round_robin"
                                 THEN IndexWithout(@, i, Len(m.seats) - 1) ELSE @]

(* RoundRobinStrategy.next_speaker: the seat, if any, and the strategy     *)
(* after it.                                                               *)
NextInOrder(s) ==
    CASE s = <<>> -> [seat |-> "nobody", turn |-> [turn EXCEPT !.finished = TRUE]]
      [] s # <<>> /\ turn.index <= Len(s) -> [seat |-> s[turn.index], turn |-> turn]
      [] s # <<>> /\ turn.index > Len(s) /\ turn.round >= MaxRounds ->
            [seat |-> "nobody", turn |-> [turn EXCEPT !.finished = TRUE]]
      [] OTHER -> [seat |-> s[1], turn |-> [turn EXCEPT !.round = @ + 1, !.index = 1]]

------------------------------------------------------------------------------
(* RoundtableRunner *)

Begin ==
    /\ runner.at = "started"
    /\ status' = "discussing"
    /\ runner' = Waits("outer")
    /\ UNCHANGED <<strategy, seats, turn, draft, transcript, asked, requests, present>>

Speak(seat, called, rest) ==
    /\ draft' = [seat |-> seat, tokens |-> 0]
    /\ runner' = [at |-> "speaking", rest |-> rest, called |-> called]

(* _process_interventions, up to the first call on a seat that is there:   *)
(* what is said joins the transcript, seats come and go.                   *)
Apply(m, asking) ==
    CASE asking.type = "inject" ->
            [m EXCEPT !.transcript = Append(@, Entry("user", turn.round, "moderator_note", 1))]
      [] asking.type = "add_seat" -> AddSeat(m, asking.seat)
      [] asking.type = "remove_seat" -> RemoveSeat(m, asking.seat)
      [] asking.type = "nominate" /\ asking.with ->
            [m EXCEPT !.transcript = Append(@, Entry("user", turn.round, "moderator_note", 1))]
      [] OTHER -> m
Meeting == [seats |-> seats, index |-> turn.index, transcript |-> transcript]
After(list, n) ==
    LET m[k \in 0 .. n] == IF k = 0 THEN Meeting ELSE Apply(m[k - 1], list[k])
    IN  m[n]
Calls(list) ==
    {n \in DOMAIN list : list[n].type = "nominate" /\ list[n].seat \in Members(After(list, n - 1).seats)}
FirstCall(list) == IF Calls(list) = {} THEN 0 ELSE CHOOSE n \in Calls(list) : \A k \in Calls(list) : n <= k

(* The interventions in hand; the first the runner meets speaks at once,   *)
(* the rest waits until the speech is over.                                *)
Intervene(list, goesOn) ==
    LET n == FirstCall(list)
        m == After(list, IF n = 0 THEN Len(list) ELSE n)
    IN  /\ seats' = m.seats
        /\ transcript' = m.transcript
        /\ present' = present \cap Members(m.seats)
        /\ turn' = [turn EXCEPT !.index = m.index]
        /\ IF n > 0 THEN Speak(list[n].seat, TRUE, SubSeq(list, n + 1, Len(list)))
           ELSE /\ runner' = Waits(goesOn)
                /\ UNCHANGED draft

(* The loops' heads: the runner waits while the meeting is paused.         *)
AtHead ==
    /\ runner.at \in {"outer", "head"} /\ status # "paused"
    /\ Intervene(asked, IF runner.at = "outer" THEN "head" ELSE "next")
    /\ asked' = <<>>
    /\ UNCHANGED <<strategy, status, requests>>

(* The rest of the interventions, after a seat that was called on spoke. *)
MoreInterventions ==
    /\ runner.at = "rest"
    /\ Intervene(runner.rest, "next")
    /\ UNCHANGED <<strategy, status, asked, requests>>

Conclude == runner' = Waits(IF transcript = <<>> THEN "leaving" ELSE "concluding")

NextSpeaker ==
    /\ runner.at = "next" /\ strategy = "round_robin"
    /\ LET next == NextInOrder(seats)
       IN  /\ turn' = next.turn
           /\ present' = IF next.turn.round # turn.round THEN Members(seats) ELSE present
           /\ IF next.seat = "nobody"
              THEN /\ Conclude
                   /\ UNCHANGED draft
              ELSE Speak(next.seat, FALSE, <<>>)
    /\ UNCHANGED <<strategy, status, seats, transcript, asked, requests>>

(* _run_moderator_loop: the moderator's model decides; a seat that has     *)
(* left is no answer, and it is asked again.  Each turn it may decide on a *)
(* speaker, a new round, a summary or the end.                             *)
Decide ==
    /\ runner.at = "next" /\ strategy = "moderator_decides"
    /\ runner' = Waits("deciding")
    /\ UNCHANGED <<strategy, status, seats, turn, draft, transcript, asked, requests, present>>

SelectSpeaker ==
    /\ runner.at = "deciding" /\ turn.index <= MaxSpeeches
    /\ \E new \in BOOLEAN, seat \in Members(Seats) \cup Guests :
          /\ turn' = CASE ~new -> turn
                       [] new /\ turn.round < MaxRounds -> [turn EXCEPT !.round = @ + 1]
                       [] OTHER -> [turn EXCEPT !.finished = TRUE]
          /\ present' = IF turn'.round # turn.round THEN Members(seats) ELSE present
          /\ CASE turn'.finished -> Conclude /\ UNCHANGED draft
               [] ~turn'.finished /\ seat \in Members(seats) -> Speak(seat, FALSE, <<>>)
               [] OTHER -> runner' = Waits("head") /\ UNCHANGED draft
    /\ UNCHANGED <<strategy, status, seats, transcript, asked, requests>>

DecideOtherwise ==
    /\ runner.at = "deciding"
    /\ \/ /\ runner' = Waits("summarising")
          /\ turn.index <= MaxSpeeches
          /\ turn' = [turn EXCEPT !.index = @ + 1]
       \/ /\ turn' = [turn EXCEPT !.finished = TRUE]
          /\ Conclude
    /\ UNCHANGED <<strategy, status, seats, draft, transcript, asked, requests, present>>

(* _speak: tokens are shown as they come. *)
Token ==
    /\ runner.at = "speaking" /\ draft.tokens < MaxTokens
    /\ draft' = [draft EXCEPT !.tokens = @ + 1]
    /\ UNCHANGED <<strategy, status, seats, turn, runner, transcript, asked, requests, present>>

(* The speech joins the transcript; after an error of the model, a notice  *)
(* instead of it.  The last speech of a round may be followed by a summary *)
(* (should_summarize).                                                     *)
Ask == requests < MaxRequests /\ requests' = requests + 1
SummaryDue == Interval > 0 /\ turn.round % Interval = 0
SpeechBecomes(type) ==
    /\ transcript' = Append(transcript, Entry(draft.seat, turn.round, type, draft.tokens))
    /\ draft' = NoDraft
    /\ turn' = IF runner.called THEN turn ELSE [turn EXCEPT !.index = @ + 1]
    /\ runner' = CASE runner.called -> [runner EXCEPT !.at = "rest"]
                   [] ~runner.called /\ strategy = "round_robin" /\ turn'.index > Len(seats)
                        /\ SummaryDue -> Waits("summarising")
                   [] OTHER -> Waits("head")
    /\ UNCHANGED <<strategy, status, seats, asked, present>>

SpeechEnds ==
    /\ runner.at = "speaking" /\ draft.tokens > 0
    /\ SpeechBecomes(IF runner.called THEN "called" ELSE "statement")
    /\ UNCHANGED requests

SpeechFails ==
    /\ runner.at = "speaking"
    /\ Ask
    /\ SpeechBecomes(IF runner.called THEN "called" ELSE "notice")

(* _generate_round_summary: an error leaves no summary. *)
Summarise ==
    /\ runner.at = "summarising"
    /\ \/ /\ Ask \/ (UNCHANGED requests /\ \A i \in DOMAIN transcript : transcript[i].round # turn.round)
          /\ UNCHANGED transcript
       \/ /\ \E i \in DOMAIN transcript : transcript[i].round = turn.round
          /\ transcript' = Append(transcript, Entry("moderator", turn.round, "summary", 1))
          /\ UNCHANGED requests
    /\ runner' = Waits("head")
    /\ UNCHANGED <<strategy, status, seats, turn, draft, asked, present>>

(* The seat's model does not exist: the meeting ends with what was said,   *)
(* the empty draft stays.                                                  *)
SpeechImpossible ==
    /\ runner.at = "speaking" /\ draft.tokens = 0
    /\ Ask
    /\ status' = "ended"
    /\ Conclude
    /\ UNCHANGED <<strategy, seats, turn, draft, transcript, asked, present>>

Concluded ==
    /\ runner.at = "concluding"
    /\ transcript' = Append(transcript, Entry("moderator", turn.round, "conclusion", 1))
    /\ runner' = Waits("leaving")
    /\ UNCHANGED <<strategy, status, seats, turn, draft, asked, requests, present>>

(* Without a model for it _run_session cleans up. *)
ConclusionImpossible ==
    /\ runner.at = "concluding"
    /\ draft' = NoDraft
    /\ status' = "ended"
    /\ runner' = Waits("gone")
    /\ UNCHANGED <<strategy, seats, turn, transcript, asked, requests, present>>

Leave ==
    /\ runner.at = "leaving"
    /\ status' = "ended"
    /\ runner' = Waits("gone")
    /\ UNCHANGED <<strategy, seats, turn, draft, transcript, asked, requests, present>>

------------------------------------------------------------------------------
(* RoundtableManager: what people ask for *)

Going == status \in {"discussing", "paused"}

Start ==
    /\ status = "waiting" /\ runner.at = "none"
    /\ runner' = Waits("started")
    /\ UNCHANGED <<strategy, status, seats, turn, draft, transcript, asked, requests, present>>

(* Accepted on the seats as they are now, done when the runner comes to    *)
(* it; before the meeting and after it, at once.                           *)
Possible(asking) ==
    CASE asking.type = "add_seat" -> Len(seats) < MaxSeats
      [] asking.type = "remove_seat" ->
            Len(seats) > 2 /\ asking.seat \in Members(seats) /\ asking.seat # draft.seat
      [] asking.type = "nominate" -> Going /\ asking.seat \in Members(seats)
      [] asking.type = "inject" -> Going
Wishes ==
    [type: {"inject"}, seat: {"nobody"}, with: {FALSE}]
    \cup [type: {"nominate"}, seat: Members(seats), with: BOOLEAN]
    \cup [type: {"remove_seat"}, seat: Members(seats), with: {FALSE}]
    \cup [type: {"add_seat"}, with: {FALSE},
          seat: {g \in Guests : g \notin Members(seats) /\ \A i \in DOMAIN asked : asked[i].seat # g}]

AskFor ==
    /\ Ask
    /\ \E asking \in Wishes :
          /\ Possible(asking)
          /\ IF Going
             THEN /\ asked' = Append(asked, asking)
                  /\ UNCHANGED <<seats, turn, transcript, present>>
             ELSE LET m == Apply(Meeting, asking)
                  IN  /\ seats' = m.seats /\ turn' = [turn EXCEPT !.index = m.index]
                      /\ transcript' = m.transcript
                      /\ present' = IF status = "waiting" THEN Members(m.seats)
                                    ELSE present \cap Members(m.seats)
                      /\ UNCHANGED asked
    /\ UNCHANGED <<strategy, status, runner, draft>>

Pause ==
    /\ Ask /\ status = "discussing"
    /\ status' = "paused"
    /\ UNCHANGED <<strategy, seats, turn, runner, draft, transcript, asked, present>>

Resume ==
    /\ status = "paused"
    /\ status' = "discussing"
    /\ UNCHANGED <<strategy, seats, turn, runner, draft, transcript, asked, requests, present>>

(* stop: the task is cancelled where it waits; what a seat has said so far *)
(* is kept (_finalize_interrupted_turn).                                   *)
KeepSpeech ==
    IF draft.tokens > 0
    THEN Append(transcript, Entry(draft.seat, turn.round, "interrupted", draft.tokens))
    ELSE transcript
StopForgetting ==
    /\ Ask /\ Going /\ runner.at \notin {"none", "gone"}
    /\ draft' = NoDraft
    /\ runner' = Waits("gone")
    /\ status' = "ended"
    /\ UNCHANGED <<strategy, seats, turn, transcript, asked, present>>
Stop ==
    /\ Ask /\ Going /\ runner.at \notin {"none", "gone"}
    /\ transcript' = KeepSpeech
    /\ draft' = NoDraft
    /\ runner' = Waits("gone")
    /\ status' = "ended"
    /\ UNCHANGED <<strategy, seats, turn, asked, present>>

------------------------------------------------------------------------------
Init ==
    /\ strategy \in {"round_robin", "moderator_decides"}
    /\ status = "waiting"
    /\ seats = Seats
    /\ turn = [round |-> 1, index |-> 1, finished |-> FALSE]
    /\ runner = Waits("none")
    /\ draft = NoDraft
    /\ transcript = <<>> /\ asked = <<>>
    /\ requests = 0
    /\ present = Members(Seats)

Run ==
    \/ Begin \/ AtHead \/ MoreInterventions \/ NextSpeaker
    \/ Decide \/ SelectSpeaker \/ DecideOtherwise
    \/ Token \/ SpeechEnds \/ SpeechFails \/ SpeechImpossible \/ Summarise \/ Concluded
    \/ ConclusionImpossible \/ Leave
People == Start \/ AskFor \/ Pause \/ Resume \/ Stop
Next == Run \/ People

Spec == Init /\ [][Next]_vars

------------------------------------------------------------------------------
TypeOK ==
    /\ status \in {"waiting", "discussing", "paused", "ended"}
    /\ Members(seats) \subseteq Members(Seats) \cup Guests
    /\ turn.round \in 1 .. MaxRounds
    /\ turn.index \in 1 .. MaxSeats + MaxSpeeches + 1
    /\ draft.tokens \in 0 .. MaxTokens
    /\ (runner.at = "speaking" => draft # NoDraft)
    /\ requests \in 0 .. MaxRequests

(* In a fixed order, a round that ends has heard every seat that was there *)
(* all the while, whoever else came or left in the middle of it            *)
(* (remove_seat, models.py:950).                                           *)
Spoke(seat, round) ==
    \E i \in DOMAIN transcript :
        /\ transcript[i].who = seat /\ transcript[i].round = round
        /\ transcript[i].type \in {"statement", "notice"}
RoundHeardAll ==
    strategy = "round_robin" /\ (turn'.round > turn.round \/ (turn'.finished /\ ~turn.finished))
        => \A seat \in present : Spoke(seat, turn.round)
NobodySkipped == [][RoundHeardAll]_vars

(* What people have seen a seat say stays in the transcript, however its   *)
(* speech ends ("so that the history does not go back after a stop",       *)
(* runner.py:1020): apart from a model's error, with all its words.        *)
SpeechIsKept ==
    draft.tokens > 0 /\ draft' # draft /\ ~(draft'.seat = draft.seat /\ draft'.tokens > draft.tokens)
        => /\ Len(transcript') > Len(transcript)
           /\ Last(transcript').tokens = draft.tokens
           /\ Last(transcript').who = draft.seat
SeenIsKept == [][SpeechIsKept]_vars
==============================================================================
