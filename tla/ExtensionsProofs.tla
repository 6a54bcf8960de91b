--------------------------- MODULE ExtensionsProofs ---------------------------
(* Proofs about Extensions, for any extensions that may be installed and depend
   on each other in any way, any order of enabling and any number of failures:
   what failed, or lost a process, takes down with it what needs it, however
   that falls together with the start and the end of the program.

   Nothing of this can be seen in one step.  The exits are handled one extension
   at a time, with waits in between in which start goes on; an extension is
   safe from that because of when its dependencies started, and where in the
   order the handler is. *)
EXTENDS Integers, Extensions, SequenceTheorems, WellFoundedInduction, TLAPS

-----------------------------------------------------------------------------
(* Orders of dependencies, and what block_runtime_dependents goes through *)

\* Sets of numbers have a least one.
LEMMA LeastNumber ==
    ASSUME NEW T \in SUBSET Nat, T # {}
    PROVE  \E x \in T : \A y \in T : x <= y
<1> DEFINE less == {ss \in Nat \X Nat : ss[1] < ss[2]}
<1>1. IsWellFoundedOn(less, Nat)
  BY NatLessThanWellFounded DEF OpToRel
<1>2. \A x, y \in Nat : y < x => <<y, x>> \in less
  OBVIOUS
<1> HIDE DEF less
<1>3. PICK x \in T : \A y \in T : ~(<<y, x>> \in less)
  BY <1>1, WFMin
<1>4. \A y \in T : x <= y
  <2> SUFFICES ASSUME NEW y \in T PROVE x <= y
    OBVIOUS
  <2>1. x \in Nat /\ y \in Nat /\ ~(y < x)
    BY <1>2, <1>3
  <2> QED
    BY <2>1
<1> QED
  BY <1>4

\* The places of the order, counted from 1.
Places == 1 .. Len(order)
\* d has a place in front of one of e's.
Before(d, e) == \E i, j \in Places : i < j /\ order[i] = d /\ order[j] = e
\* No extension has two places: visit passes over what it has visited.
Apart == \A i, j \in Places : order[i] = order[j] => i = j

\* block_runtime_dependents goes once through the order: f lists what is
\* affected after the first n places.
Spreads(f, e, n) ==
    f = [k \in 0 .. n |-> IF k = 0 THEN {e}
                          ELSE IF Deps(order[k]) \cap f[k - 1] # {} THEN f[k - 1] \cup {order[k]} ELSE f[k - 1]]

\* There is such a pass for every number of places, so the recursive
\* function in Affected is one.
LEMMA SpreadsExists ==
    ASSUME NEW e, NEW n \in Nat
    PROVE  \E f : Spreads(f, e, n)
<1> DEFINE T == {k \in Nat : ~\E f : Spreads(f, e, k)}
           Spread(g, k) == IF Deps(order[k]) \cap g[k - 1] # {} THEN g[k - 1] \cup {order[k]} ELSE g[k - 1]
<1> SUFFICES ASSUME T # {} PROVE FALSE
  OBVIOUS
<1>1. PICK k \in T : \A j \in T : k <= j
  BY LeastNumber
<1>2. k # 0
  <2>1. PICK f : f = [j \in 0 .. 0 |-> {e}]
    OBVIOUS
  <2>2. f = [j \in 0 .. 0 |-> IF j = 0 THEN {e} ELSE Spread(f, j)]
    BY <2>1
  <2> QED
    BY <1>1, <2>2 DEF Spreads
<1>3. k - 1 \in Nat /\ k - 1 \notin T
  BY <1>1, <1>2
<1>4. PICK f : Spreads(f, e, k - 1)
  BY <1>3
<1>5. PICK h : h = [j \in 0 .. k |-> IF j = k THEN Spread(f, k) ELSE f[j]]
  OBVIOUS
<1>6. \A j \in 0 .. k : h[j] = IF j = 0 THEN {e} ELSE Spread(h, j)
  <2> SUFFICES ASSUME NEW j \in 0 .. k
               PROVE  h[j] = IF j = 0 THEN {e} ELSE Spread(h, j)
    OBVIOUS
  <2>1. CASE j = k
    <3>1. h[k] = Spread(f, k) /\ h[k - 1] = f[k - 1]
      BY <1>1, <1>3, <1>5
    <3> QED
      BY <1>2, <2>1, <3>1
  <2>2. CASE j # k
    <3>1. j \in 0 .. k - 1
      BY <1>1, <2>2
    <3>2. f[j] = IF j = 0 THEN {e} ELSE Spread(f, j)
      BY <1>4, <3>1 DEF Spreads
    <3>3. h[j] = f[j] /\ (j # 0 => h[j - 1] = f[j - 1])
      BY <1>1, <1>5, <2>2, <3>1
    <3> QED
      BY <3>2, <3>3
  <2> QED
    BY <2>1, <2>2
<1>7. h = [j \in 0 .. k |-> IF j = 0 THEN {e} ELSE Spread(h, j)]
  BY <1>5, <1>6
<1> QED
  BY <1>1, <1>7 DEF Spreads

\* What depends on e: the placed extensions that need it, and those that need
\* one of these which has an earlier place.
Follows(e) ==
    /\ e \notin Dependents(e)
    /\ \A i \in Places : e \in Deps(order[i]) /\ order[i] # e => order[i] \in Dependents(e)
    /\ \A i, j \in Places : /\ i < j /\ order[i] \in Dependents(e)
                            /\ order[i] \in Deps(order[j]) /\ order[j] # e
                            => order[j] \in Dependents(e)
    /\ \A d \in Dependents(e) : \E i \in Places : d = order[i]

\* Dependents(e) is what block_runtime_dependents means it to be.
LEMMA DependentsFollow ==
    ASSUME Len(order) \in Nat, Apart, NEW e
    PROVE  Follows(e)
<1> DEFINE n == Len(order)
<1>1. PICK f : f = (CHOOSE g : Spreads(g, e, n)) /\ Spreads(f, e, n)
  BY SpreadsExists
<1>2. Affected(e) = f[n]
  BY <1>1 DEF Affected, Spreads
<1>3. \A k \in 0 .. n : f[k] = IF k = 0 THEN {e}
                               ELSE IF Deps(order[k]) \cap f[k - 1] # {} THEN f[k - 1] \cup {order[k]} ELSE f[k - 1]
  BY <1>1 DEF Spreads
<1>4. n \in Nat /\ Places = 1 .. n
  BY DEF Places
<1> HIDE DEF n
<1>5. f[0] = {e}
  <2>1. 0 \in 0 .. n
    BY <1>4
  <2> QED
    BY <1>3, <2>1
<1>6. ASSUME NEW k \in 1 .. n
       PROVE  f[k] = IF Deps(order[k]) \cap f[k - 1] # {} THEN f[k - 1] \cup {order[k]} ELSE f[k - 1]
  <2>1. k \in 0 .. n /\ k # 0
    BY <1>4
  <2> QED
    BY <1>3, <2>1
<1>7. \A k \in 1 .. n : k - 1 \in 0 .. n /\ f[k - 1] \subseteq f[k] /\ f[k] \subseteq f[k - 1] \cup {order[k]}
  <2> SUFFICES ASSUME NEW k \in 1 .. n
               PROVE  k - 1 \in 0 .. n /\ f[k - 1] \subseteq f[k] /\ f[k] \subseteq f[k - 1] \cup {order[k]}
    OBVIOUS
  <2>1. k - 1 \in 0 .. n
    BY <1>4
  <2> QED
    BY <1>6, <2>1
<1>8. ASSUME NEW m \in 0 .. n, NEW x \in f[m] PROVE \A k \in m .. n : x \in f[k]
  <2> DEFINE T == {k \in m .. n : x \notin f[k]}
  <2> SUFFICES ASSUME T # {} PROVE FALSE
    OBVIOUS
  <2>1. T \in SUBSET Nat
    BY <1>4
  <2>2. PICK k \in T : \A j \in T : k <= j
    BY <2>1, LeastNumber
  <2>3. k \in Nat /\ k # m /\ k \in m .. n /\ x \notin f[k]
    BY <2>1, <2>2, <1>8
  <2>4. k - 1 \in m .. n /\ ~(k <= k - 1) /\ k \in 1 .. n
    BY <2>3, <1>4
  <2>5. x \in f[k - 1]
    BY <2>2, <2>4
  <2> QED
    BY <1>7, <2>3, <2>4, <2>5
<1>9. ASSUME NEW m \in 0 .. n, NEW x \in f[m], x # e
      PROVE  \E i \in 1 .. m : x = order[i] /\ x \in f[i]
  <2> DEFINE T == {k \in 0 .. m : x \in f[k]}
  <2>1. T \in SUBSET Nat /\ T # {}
    BY <1>4, <1>9
  <2>2. PICK k \in T : \A j \in T : k <= j
    BY <2>1, LeastNumber
  <2>3. k # 0
    BY <1>9, <1>5, <2>2
  <2>4. k \in 1 .. m /\ k \in 1 .. n /\ k - 1 \in 0 .. m /\ ~(k <= k - 1)
    BY <1>4, <2>2, <2>3
  <2>5. x \notin f[k - 1] /\ x \in f[k]
    BY <2>2, <2>4
  <2> QED
    BY <1>7, <2>4, <2>5
<1>10. e \in f[0]
  BY <1>5
<1>11. ASSUME NEW i \in Places, e \in Deps(order[i]), order[i] # e PROVE order[i] \in Dependents(e)
  <2>1. i \in 1 .. n /\ i - 1 \in 0 .. n /\ e \in f[i - 1]
    BY <1>4, <1>8, <1>10
  <2>2. order[i] \in f[i]
    BY <1>11, <1>6, <2>1
  <2> QED
    BY <1>2, <1>4, <1>8, <1>11, <2>1, <2>2 DEF Dependents
<1>12. ASSUME NEW i \in Places, NEW j \in Places, i < j, order[i] \in Dependents(e),
              order[i] \in Deps(order[j]), order[j] # e
       PROVE  order[j] \in Dependents(e)
  <2>1. order[i] \in f[n] /\ order[i] # e /\ n \in 0 .. n
    BY <1>2, <1>4, <1>12 DEF Dependents
  <2>2. PICK k \in 1 .. n : order[i] = order[k] /\ order[i] \in f[k]
    BY <1>9, <2>1
  <2>3. k = i
    BY <1>4, <2>2 DEF Apart
  <2>4. i \in 0 .. n /\ j - 1 \in i .. n /\ j \in 1 .. n
    BY <1>4, <1>12
  <2>5. order[i] \in f[j - 1]
    BY <1>8, <2>2, <2>3, <2>4
  <2>6. order[j] \in f[j]
    BY <1>12, <1>6, <2>4, <2>5
  <2> QED
    BY <1>2, <1>4, <1>8, <1>12, <2>4, <2>6 DEF Dependents
<1>13. \A d \in Dependents(e) : \E i \in Places : d = order[i]
  BY <1>2, <1>4, <1>9 DEF Dependents
<1>14. e \notin Dependents(e)
  BY DEF Dependents
<1> QED
  BY <1>11, <1>12, <1>13, <1>14 DEF Follows

-----------------------------------------------------------------------------
(* The invariant.  Extensions start in an order in which each comes behind what
   it needs, so who is up is rooted in who started before; whoever takes an
   extension down goes through those that need it from the last place to the
   first, so what runs behind the place he is at needs nothing he has stopped. *)

\* The waits of start at which nothing has gone wrong yet ...
InStart == {"lifecycle", "processes", "starting", "health", "tools"}
\* ... before anything is undone ...
AtWork == InStart \cup {"failed", "blocked"}
\* ... and all in which start has taken up an extension.
Busy == AtWork \cup {"degrading", "cleaning"}
\* stop has begun.
StopPhase == {"stop", "stopping", "down"}
\* The states of extensions.
Statuses == {"disabled", "discovered", "loaded", "starting", "running", "degraded", "blocked", "missing"}
\* A call of visit that has not returned: of whom, and whom it has yet to ask.
Calls == [of : Names, todo : SUBSET Names]
\* Where the host is, and at which place: only the order being made has calls.
MainOK ==
    /\ main.at = "resolve" => main \in [at : {"resolve"}, n : Nat \ {0}, calls : Seq(Calls)]
    /\ main.at # "resolve" =>
          main \in [at : {"register", "next", "up"} \cup Busy \cup StopPhase, n : 0 .. Len(order) + 1]
    /\ main.at \in {"register", "next"} => main.n >= 1
    /\ main.at \in Busy \cup {"stopping"} => main.n \in Places
    /\ main.at \in {"up", "stop", "down"} => main.n <= Len(order)
\* A handler that waits for an extension to stop is at the place of one that
\* needs its own.
ExitsOK ==
    /\ exits \in [Names -> [at : {"none", "waiting", "blocking", "stopping", "degrading"}, n : 0 .. Len(order)]]
    /\ \A e \in Names : exits[e].at = "stopping" => exits[e].n \in Places /\ AtHand(e) \in Dependents(e)
\* The types the proof needs.
Types ==
    /\ setup \in Setups /\ \A e \in Names : Deps(e) \subseteq Names
    /\ order \in Seq(Names) /\ Len(order) \in Nat
    /\ status \in [Names -> Statuses]
    /\ process \in [Names -> {"none", "up", "leaving", "gone"}]
    /\ started \cup tools \cup late \subseteq Names
    /\ MainOK /\ ExitsOK

\* While the order is made and while extensions register, nothing starts.
Idle ==
    /\ started = {} /\ tools = {}
    /\ \A e \in Names : exits[e].at = "none" /\ process[e] = "none" /\ status[e] \notin {"starting", "running"}
\* A call of visit is made once, and for who has no place yet.
Resolving ==
    main.at = "resolve" =>
        /\ Idle
        /\ \A e \in Names : status[e] # "loaded"
        /\ \A i, j \in DOMAIN main.calls : main.calls[i].of = main.calls[j].of => i = j
        /\ \A i \in DOMAIN main.calls : main.calls[i].of \notin Visited
\* Those in front of the place the host is at.
Passed == {order[i] : i \in {j \in Places : j < main.n}}
\* Who is loaded has been passed.
Registering ==
    main.at = "register" =>
        /\ Idle
        /\ \A e \in Names : status[e] = "loaded" => e \in Passed
\* e has something to be taken back: tools, a place among the started, a process.
Marked(e) == e \in tools \/ e \in started \/ process[e] = "up"
\* Only what runs has something to be taken back, or what start is at work on.
Supported == \A e \in Names : Marked(e) => status[e] = "running" \/ (main.at \in AtWork /\ e = Current)
\* Only the extension start is at is starting.
OneStarts == \A e \in Names : status[e] = "starting" => main.at \in AtWork \cup {"degrading"} /\ e = Current
\* It is starting, or a handler has blocked it; from its processes on it is
\* among the started.
CurrentStarts ==
    /\ main.at \in Busy => status[Current] \in {"starting", "blocked"}
    /\ main.at \in {"blocked", "cleaning"} => status[Current] = "blocked"
    /\ main.at \in {"starting", "health", "tools"} => Current \in started
\* What runs, starts or may start has its dependencies in front of it: start
\* goes through the order, and loaded extensions were registered in it.
Rooted ==
    \A e \in Names : status[e] \in {"starting", "running"} \/ (status[e] = "loaded" /\ ~Stopping)
                     => \A d \in Deps(e) : Before(d, e)
\* A handler's process is gone; only what start has been at has had one.
Watched ==
    /\ \A e \in Names : exits[e].at # "none" => process[e] = "gone"
    /\ main.at \in Busy \cup {"next"} => \A e \in Names :
          process[e] # "none" =>
              e \in Passed \/ (e = Current /\ main.at \notin {"next", "lifecycle", "processes"})
\* What runs or is being taken down has been passed.
RanBefore ==
    main.at \in Busy \cup {"next"} => \A e \in Names :
        /\ status[e] = "running" \/ Down(e) => e \in Passed
        /\ exits[e].at = "stopping" => AtHand(e) \in Passed
\* Who is being stopped has nothing left to be taken back.
TakenAway ==
    /\ \A e \in Names : exits[e].at = "stopping" => ~Marked(AtHand(e))
    /\ \A e \in Names : exits[e].at = "degrading" => ~Marked(e)
    /\ main.at = "stopping" => ~Marked(Current)
\* x is being taken down: it is running by its state only.
Leaving(x) == \/ Down(x)
              \/ \E e \in Names : exits[e].at = "stopping" /\ AtHand(e) = x
              \/ main.at = "stopping" /\ x = Current
\* What runs is among the started, unless it is being taken down.
RunsStarted == \A e \in Names : status[e] = "running" => e \in started \/ Leaving(e)
\* The handler of e has passed x on its way from the last place to the first.
Behind(x, e) == exits[e].at = "degrading" \/ \E i \in Places : i > exits[e].n /\ order[i] = x
\* Once the handler of e is at work, what needs e is not starting, and does not
\* run any more where it has passed; who starts meanwhile is late.
Handled ==
    \A e \in Names : Down(e) => \A x \in Dependents(e) \ late :
        status[x] # "starting" /\ (Behind(x, e) => status[x] # "running")
\* What runs and is not being taken down depends on what runs, unless it is late.
Kept == \A x \in Names : status[x] = "running" /\ x \notin late /\ ~Leaving(x) => Ready(x, "running")
\* stop too goes from the last place to the first.
StoppedBehind ==
    main.at \in StopPhase => \A i \in Places : i > main.n /\ status[order[i]] = "running" => Leaving(order[i])
\* The invariant of start, exits and stop ...
Late == /\ Supported /\ OneStarts /\ CurrentStarts /\ Watched /\ RanBefore /\ TakenAway
        /\ RunsStarted /\ Handled /\ Kept /\ StoppedBehind
\* ... and of the whole.
Inv == Types /\ Apart /\ Resolving /\ Registering /\ Rooted /\ Late

-----------------------------------------------------------------------------
(* The order is made: _resolve_dependencies *)

\* While nothing has started, none of that can fail.
LEMMA NothingLate ==
    ASSUME Types', Idle', main'.at \in {"resolve", "register", "next"}
    PROVE  Late'
<1>1. Supported' /\ OneStarts'
  BY DEF Idle, Supported, OneStarts, Marked
<1>2. CurrentStarts' /\ StoppedBehind'
  BY DEF CurrentStarts, StoppedBehind, Busy, AtWork, InStart, StopPhase
<1>3. Watched' /\ RanBefore' /\ TakenAway' /\ Handled'
  BY DEF Idle, Watched, RanBefore, TakenAway, Handled, Down
<1>4. RunsStarted' /\ Kept'
  BY DEF Idle, RunsStarted, Kept
<1> QED
  BY <1>1, <1>2, <1>3, <1>4 DEF Late

\* The invariant holds at first.
LEMMA Initially ==
    ASSUME Init, Described
    PROVE  Inv
<1>1. setup \in Setups /\ order = <<>> /\ status = Fresh(setup) /\ main = [at |-> "resolve", n |-> 1, calls |-> <<>>]
  BY DEF Init
<1>2. exits = [e \in Names |-> NoExit] /\ process = [e \in Names |-> "none"]
      /\ started = {} /\ tools = {} /\ late = {}
  BY DEF Init
<1>3. order \in Seq(Names) /\ Len(order) = 0 /\ <<>> \in Seq(Calls)
  BY <1>1
<1>4. status \in [Names -> {"degraded", "disabled", "missing"}]
  BY <1>1 DEF Fresh, Names
<1>5. Idle
  BY <1>2, <1>4 DEF Idle, NoExit
<1>6. Types
  <2>1. MainOK
    BY <1>1, <1>3 DEF MainOK, Busy, AtWork, InStart, StopPhase
  <2>2. ExitsOK
    BY <1>2, <1>3 DEF ExitsOK, NoExit
  <2>3. status \in [Names -> Statuses]
    BY <1>4 DEF Statuses
  <2>4. \A e \in Names : Deps(e) \subseteq Names
    BY <1>1 DEF Described, Names, Deps
  <2> QED
    BY <1>1, <1>2, <1>3, <2>1, <2>2, <2>3, <2>4 DEF Types
<1>7. Apart
  BY <1>3 DEF Apart, Places
<1>8. Resolving
  BY <1>1, <1>4, <1>5 DEF Resolving
<1>9. Registering
  BY <1>1 DEF Registering
<1>10. Rooted
  BY <1>4 DEF Rooted
<1>11. Late
  <2>1. Supported /\ OneStarts
    BY <1>5 DEF Idle, Supported, OneStarts, Marked
  <2>2. CurrentStarts /\ StoppedBehind
    BY <1>1 DEF CurrentStarts, StoppedBehind, Busy, AtWork, InStart, StopPhase
  <2>3. Watched /\ RanBefore /\ TakenAway /\ Handled
    BY <1>1, <1>5 DEF Idle, Watched, RanBefore, TakenAway, Handled, Down
  <2>4. RunsStarted /\ Kept
    BY <1>5 DEF Idle, RunsStarted, Kept
  <2> QED
    BY <2>1, <2>2, <2>3, <2>4 DEF Late
<1> QED
  BY <1>6, <1>7, <1>8, <1>9, <1>10, <1>11 DEF Inv

\* The host making the order, with calls of visit for different extensions.
Resolvers == [at : {"resolve"}, n : Nat \ {0}, calls : Seq(Calls)]
Nested(m) ==
    /\ m \in Resolvers
    /\ \A i, j \in DOMAIN m.calls : m.calls[i].of = m.calls[j].of => i = j

\* A step of the order keeps the invariant if it starts nothing, loads nothing
\* and keeps calls and places apart.
LEMMA StillResolves ==
    ASSUME Inv, main.at = "resolve", UNCHANGED <<setup, exits, started, tools, process, late>>,
           Nested(main'), \A i \in DOMAIN main'.calls : main'.calls[i].of \notin Visited',
           order' \in Seq(Names), Len(order') >= Len(order), Apart',
           status' \in [Names -> Statuses],
           \A e \in Names : status'[e] \notin {"starting", "running", "loaded"}
    PROVE  Inv'
<1>1. Names' = Names
  BY DEF Names
<1>2. main' \in Resolvers /\ Resolvers = Resolvers'
  BY <1>1 DEF Nested, Resolvers, Calls
<1>3. main'.at = "resolve"
  BY <1>2 DEF Resolvers
<1>4. MainOK'
  BY <1>2, <1>3 DEF MainOK, Busy, AtWork, InStart, StopPhase, Resolvers
<1>5. Len(order) \in Nat /\ Len(order') \in Nat
  BY LenProperties DEF Inv, Types
<1>6. Idle
  BY DEF Inv, Resolving
<1>7. Idle'
  BY <1>1, <1>6 DEF Idle
<1>8. ExitsOK'
  <2>1. \A e \in Names : exits[e].n \in 0 .. Len(order) /\ exits[e].at = "none" /\ exits[e] \in [at : {"none", "waiting", "blocking", "stopping", "degrading"}, n : 0 .. Len(order)]
    BY <1>6 DEF Inv, Types, ExitsOK, Idle
  <2>2. 0 .. Len(order) \subseteq 0 .. Len(order')
    BY <1>5
  <2>3. \A e \in Names : exits[e] \in [at : {"none", "waiting", "blocking", "stopping", "degrading"}, n : 0 .. Len(order')]
    BY <2>1, <2>2
  <2>4. exits \in [Names -> [at : {"none", "waiting", "blocking", "stopping", "degrading"}, n : 0 .. Len(order')]]
    BY <2>3 DEF Inv, Types, ExitsOK
  <2> QED
    BY <1>1, <2>1, <2>4 DEF ExitsOK
<1>9. Types'
  BY <1>1, <1>4, <1>5, <1>8 DEF Inv, Types, Deps
<1>10. Resolving'
  BY <1>1, <1>7 DEF Resolving, Nested
<1>11. Registering'
  BY <1>3 DEF Registering
<1>12. Rooted'
  BY <1>1, <1>7 DEF Rooted, Idle
<1>13. Late'
  BY <1>3, <1>7, <1>9, NothingLate
<1> QED
  BY <1>9, <1>10, <1>11, <1>12, <1>13 DEF Inv

\* What was asked for is struck off; the calls stay the same.
LEMMA Answers ==
    ASSUME Inv, NEW e \in Names, Asked(e)
    PROVE  /\ Nested(Answered(e))
           /\ DOMAIN Answered(e).calls = DOMAIN main.calls
           /\ \A i \in DOMAIN main.calls : Answered(e).calls[i].of = main.calls[i].of
<1>1. main \in Resolvers /\ \A i, j \in DOMAIN main.calls : main.calls[i].of = main.calls[j].of => i = j
  BY DEF Asked, Inv, Types, MainOK, Resolvers, Resolving
<1>2. CASE main.calls = <<>>
  <2>1. Answered(e) = [main EXCEPT !.n = @ + 1]
    BY <1>2 DEF Answered
  <2>2. Answered(e) \in Resolvers /\ Answered(e).calls = main.calls
    BY <1>1, <2>1 DEF Resolvers
  <2> QED
    BY <1>1, <2>2 DEF Nested
<1>3. CASE main.calls # <<>>
  <2> DEFINE k == Len(main.calls)
             call == [main.calls[k] EXCEPT !.todo = @ \ {e}]
             calls == [main.calls EXCEPT ![k] = call]
  <2>1. Answered(e) = [main EXCEPT !.calls = calls]
    BY <1>3 DEF Answered
  <2>2. main.calls \in Seq(Calls) /\ k \in Nat /\ DOMAIN main.calls = 1 .. k /\ k \in 1 .. k
    <3>1. main.calls \in Seq(Calls)
      BY <1>1 DEF Resolvers
    <3> QED
      BY <1>3, <3>1, LenProperties, EmptySeq
  <2>3. main.calls[k] \in Calls
    BY <2>2, LenProperties
  <2>4. call \in Calls /\ call.of = main.calls[k].of
    BY <2>3 DEF Calls
  <2> HIDE DEF call
  <2>5. calls \in Seq(Calls) /\ Len(calls) = k /\ \A j \in 1 .. k : calls[j] = IF j = k THEN call ELSE main.calls[j]
    BY <2>2, <2>4, ExceptSeq
  <2> HIDE DEF calls, k
  <2>6. DOMAIN calls = 1 .. k
    BY <2>5, LenProperties
  <2>7. Answered(e) \in Resolvers /\ Answered(e).calls = calls
    BY <1>1, <2>1, <2>5 DEF Resolvers
  <2>8. \A i \in 1 .. k : calls[i].of = main.calls[i].of
    BY <2>4, <2>5
  <2> QED
    BY <1>1, <2>2, <2>6, <2>7, <2>8 DEF Nested
<1> QED
  BY <1>2, <1>3

\* A place more at the end of the order.
LEMMA OnePlaceMore ==
    ASSUME NEW e \in Names, order \in Seq(Names), Apart, e \notin ToSet(order), order' = Append(order, e)
    PROVE  /\ order' \in Seq(Names) /\ Len(order') >= Len(order) /\ Apart'
           /\ ToSet(order') = ToSet(order) \cup {e}
<1>1. /\ order' \in Seq(Names) /\ Len(order') = Len(order) + 1
      /\ \A i \in 1 .. Len(order) : order'[i] = order[i]
      /\ order'[Len(order) + 1] = e
  BY AppendProperties
<1>2. /\ DOMAIN order = 1 .. Len(order) /\ Len(order) \in Nat /\ Len(order') \in Nat
      /\ DOMAIN order' = 1 .. Len(order')
  BY <1>1, LenProperties
<1>3. \A i \in 1 .. Len(order) : order[i] # e
  BY <1>2 DEF ToSet
<1>4. Apart'
  BY <1>1, <1>2, <1>3 DEF Apart, Places
<1>5. ToSet(order') = ToSet(order) \cup {e}
  <2>1. 1 .. Len(order') = (1 .. Len(order)) \cup {Len(order) + 1}
    BY <1>1, <1>2
  <2> QED
    BY <1>1, <1>2, <2>1 DEF ToSet
<1> QED
  BY <1>1, <1>2, <1>4, <1>5

\* Every outcome of visit keeps the invariant ...
LEMMA VisitKeeps ==
    ASSUME Inv, NEW e \in Names, Visit(e)
    PROVE  Inv'
<1>1. /\ main.at = "resolve" /\ Asked(e)
      /\ UNCHANGED <<setup, exits, started, tools, process, late>>
  BY DEF Visit, Asked
<1>2. /\ order \in Seq(Names) /\ Len(order) \in Nat /\ Apart /\ status \in [Names -> Statuses]
      /\ \A x \in Names : status[x] \notin {"starting", "running", "loaded"}
      /\ main \in Resolvers
  BY <1>1 DEF Inv, Types, Resolving, Idle, MainOK, Resolvers
<1>3. \A i \in DOMAIN main.calls : main.calls[i].of \notin Visited /\ main.calls[i].of \in Names
  <2>1. main.calls \in Seq(Calls)
    BY <1>2 DEF Resolvers
  <2>2. \A i \in DOMAIN main.calls : main.calls[i] \in Calls
    BY <2>1, LenProperties
  <2> QED
    BY <1>1, <2>2 DEF Inv, Resolving, Calls
<1>4. DEFINE m == Answered(e)
<1>5. /\ Nested(m) /\ DOMAIN m.calls = DOMAIN main.calls
      /\ \A i \in DOMAIN main.calls : m.calls[i].of = main.calls[i].of
  BY <1>1, Answers
<1> HIDE DEF m
<1>6. Names' = Names /\ Visited = ToSet(order) \cup {x \in Names \ HasManifest : status[x] = "missing"}
      /\ Visited' = ToSet(order') \cup {x \in Names \ HasManifest : status'[x] = "missing"}
  BY <1>1 DEF Names, HasManifest, Visited
<1>7. CASE (e \in Visited \/ NotRequested(e)) /\ main' = m /\ UNCHANGED <<order, status>>
  <2>1. Nested(main')
    BY <1>5, <1>7
  <2>2. \A i \in DOMAIN main'.calls : main'.calls[i].of \notin Visited'
    BY <1>3, <1>5, <1>6, <1>7
  <2>3. Apart'
    BY <1>2, <1>7 DEF Apart, Places
  <2> QED
    BY <1>1, <1>2, <1>7, <2>1, <2>2, <2>3, StillResolves
<1>8. CASE e \in Visiting /\ main' = m /\ status' = [status EXCEPT ![e] = "degraded"] /\ UNCHANGED order
  <2>1. Nested(main')
    BY <1>5, <1>8
  <2>2. status' \in [Names -> Statuses] /\ \A x \in Names : status'[x] = IF x = e THEN "degraded" ELSE status[x]
    BY <1>2, <1>8 DEF Statuses
  <2>3. e \notin Visited
    BY <1>3, <1>8 DEF Visiting
  <2>4. \A i \in DOMAIN main'.calls : main'.calls[i].of \notin Visited'
    BY <1>3, <1>5, <1>6, <1>8, <2>2, <2>3
  <2>5. Apart'
    BY <1>2, <1>8 DEF Apart, Places
  <2> QED
    BY <1>1, <1>2, <1>8, <2>1, <2>2, <2>4, <2>5, StillResolves
<1>9. CASE New(e) /\ main' = m /\ status' = [status EXCEPT ![e] = "missing"] /\ UNCHANGED order
  <2>1. Nested(main')
    BY <1>5, <1>9
  <2>2. status' \in [Names -> Statuses] /\ \A x \in Names : status'[x] = IF x = e THEN "missing" ELSE status[x]
    BY <1>2, <1>9 DEF Statuses
  <2>3. e \notin Visiting
    BY <1>9 DEF New
  <2>4. \A i \in DOMAIN main'.calls : main'.calls[i].of \notin Visited'
    BY <1>3, <1>5, <1>6, <1>9, <2>2, <2>3 DEF Visiting
  <2>5. Apart'
    BY <1>2, <1>9 DEF Apart, Places
  <2> QED
    BY <1>1, <1>2, <1>9, <2>1, <2>2, <2>4, <2>5, StillResolves
<1>10. CASE New(e) /\ main' = m /\ order' = Append(order, e) /\ UNCHANGED status
  <2>1. Nested(main')
    BY <1>5, <1>10
  <2>2. e \notin ToSet(order) /\ e \notin Visiting
    BY <1>6, <1>10 DEF New
  <2>3. order' \in Seq(Names) /\ Len(order') >= Len(order) /\ Apart' /\ ToSet(order') = ToSet(order) \cup {e}
    BY <1>2, <1>10, <2>2, OnePlaceMore
  <2>4. \A i \in DOMAIN main'.calls : main'.calls[i].of \notin Visited'
    BY <1>3, <1>5, <1>6, <1>10, <2>2, <2>3 DEF Visiting
  <2> QED
    BY <1>1, <1>2, <1>10, <2>1, <2>3, <2>4, StillResolves
<1>11. CASE /\ New(e) /\ UNCHANGED <<order, status>>
            /\ main' = [m EXCEPT !.calls = Append(@, [of |-> e, todo |-> Deps(e)])]
  <2> DEFINE call == [of |-> e, todo |-> Deps(e)]
             calls == Append(m.calls, call)
  <2>1. call \in Calls /\ call.of = e
    BY DEF Calls, Inv, Types
  <2>2. m.calls \in Seq(Calls) /\ m \in Resolvers
    BY <1>5 DEF Nested, Resolvers
  <2>3. main' = [m EXCEPT !.calls = calls]
    BY <1>11
  <2> HIDE DEF call
  <2>4. /\ calls \in Seq(Calls) /\ Len(calls) = Len(m.calls) + 1
        /\ \A i \in 1 .. Len(m.calls) : calls[i] = m.calls[i]
        /\ calls[Len(m.calls) + 1] = call
    BY <2>1, <2>2, AppendProperties
  <2>5. Len(m.calls) \in Nat /\ DOMAIN m.calls = 1 .. Len(m.calls) /\ DOMAIN calls = 1 .. Len(calls)
    BY <2>2, <2>4, LenProperties
  <2> HIDE DEF calls
  <2>6. main' \in Resolvers /\ main'.calls = calls
    BY <2>2, <2>4, <2>3 DEF Resolvers
  <2>7. e \notin Visited /\ e \notin Visiting
    BY <1>11 DEF New
  <2>8. \A i \in 1 .. Len(m.calls) : m.calls[i].of # e
    BY <1>5, <2>5, <2>7 DEF Visiting
  <2>9. \A i \in 1 .. Len(calls) : calls[i].of = IF i = Len(m.calls) + 1 THEN e ELSE m.calls[i].of
    BY <2>1, <2>4, <2>5
  <2>10. Nested(main')
    <3>1. \A i, j \in 1 .. Len(m.calls) : m.calls[i].of = m.calls[j].of => i = j
      BY <1>5, <2>5 DEF Nested
    <3>2. 1 .. Len(calls) = (1 .. Len(m.calls)) \cup {Len(m.calls) + 1}
      BY <2>4, <2>5
    <3>3. \A i, j \in 1 .. Len(calls) : calls[i].of = calls[j].of => i = j
      BY <2>5, <2>8, <2>9, <3>1, <3>2
    <3> QED
      BY <2>5, <2>6, <3>3 DEF Nested
  <2>11. \A i \in DOMAIN main'.calls : main'.calls[i].of \notin Visited'
    BY <1>3, <1>5, <1>6, <1>11, <2>4, <2>5, <2>6, <2>7, <2>9
  <2>12. Apart'
    BY <1>2, <1>11 DEF Apart, Places
  <2> QED
    BY <1>1, <1>2, <1>11, <2>10, <2>11, <2>12, StillResolves
<1> QED
  BY <1>7, <1>8, <1>9, <1>10, <1>11 DEF Visit, m

\* ... and so do its return, with a place for who was visited ...
LEMMA VisitReturnsKeeps ==
    ASSUME Inv, VisitReturns
    PROVE  Inv'
<1> DEFINE k == Len(main.calls)
           e == main.calls[k].of
<1>1. /\ main.at = "resolve" /\ main.calls # <<>>
      /\ UNCHANGED <<setup, exits, started, tools, process, late>>
      /\ order' = Append(order, e)
      /\ status' = [status EXCEPT ![e] = IF @ = "disabled" THEN "discovered" ELSE @]
      /\ main' = [main EXCEPT !.calls = SubSeq(@, 1, k - 1)]
  BY DEF VisitReturns, Last, Front
<1>2. /\ order \in Seq(Names) /\ Len(order) \in Nat /\ Apart /\ status \in [Names -> Statuses]
      /\ \A x \in Names : status[x] \notin {"starting", "running", "loaded"}
      /\ main \in Resolvers
      /\ \A i, j \in DOMAIN main.calls : main.calls[i].of = main.calls[j].of => i = j
      /\ \A i \in DOMAIN main.calls : main.calls[i].of \notin Visited
  BY <1>1 DEF Inv, Types, Resolving, Idle, MainOK, Resolvers
<1>3. main.calls \in Seq(Calls) /\ k \in Nat /\ k \in 1 .. k /\ DOMAIN main.calls = 1 .. k
  <2>1. main.calls \in Seq(Calls)
    BY <1>2 DEF Resolvers
  <2> QED
    BY <1>1, <2>1, LenProperties, EmptySeq
<1>4. \A i \in 1 .. k : main.calls[i] \in Calls
  BY <1>3, LenProperties
<1>5. e \in Names /\ e \notin Visited
  BY <1>2, <1>3, <1>4 DEF Calls
<1> DEFINE calls == SubSeq(main.calls, 1, k - 1)
<1>6. calls \in Seq(Calls) /\ Len(calls) = k - 1 /\ \A i \in 1 .. k - 1 : calls[i] = main.calls[i]
  <2>1. k - 1 \in Int /\ \A i \in 1 .. k - 1 : main.calls[i] \in Calls
    BY <1>3, <1>4
  <2>2. /\ calls \in Seq(Calls) /\ Len(calls) = IF 1 <= k - 1 THEN k - 1 - 1 + 1 ELSE 0
        /\ \A i \in 1 .. (k - 1) - 1 + 1 : calls[i] = main.calls[1 + i - 1]
    <3> HIDE DEF k
    <3> QED
      BY <2>1, SubSeqProperties
  <2> HIDE DEF calls, k
  <2> QED
    BY <1>3, <2>2
<1>7. main' = [main EXCEPT !.calls = calls]
  BY <1>1
<1> HIDE DEF calls
<1>8. main' \in Resolvers /\ main'.calls = calls
  BY <1>2, <1>6, <1>7 DEF Resolvers
<1> HIDE DEF k, e
<1>9. DOMAIN calls = 1 .. k - 1
  BY <1>6, LenProperties
<1>10. Nested(main')
  BY <1>2, <1>3, <1>6, <1>8, <1>9 DEF Nested
<1>11. e = main.calls[k].of
  BY DEF e
<1>12. Names' = Names /\ Visited = ToSet(order) \cup {x \in Names \ HasManifest : status[x] = "missing"}
       /\ Visited' = ToSet(order') \cup {x \in Names \ HasManifest : status'[x] = "missing"}
  BY <1>1 DEF Names, HasManifest, Visited
<1>13. order' \in Seq(Names) /\ Len(order') >= Len(order) /\ Apart' /\ ToSet(order') = ToSet(order) \cup {e}
  BY <1>1, <1>2, <1>5, <1>12, OnePlaceMore
<1>14. /\ status' \in [Names -> Statuses]
       /\ \A x \in Names : status'[x] = IF x = e /\ status[x] = "disabled" THEN "discovered" ELSE status[x]
  BY <1>1, <1>2, <1>5 DEF Statuses
<1>15. \A i \in DOMAIN main'.calls : main'.calls[i].of \notin Visited'
  <2> SUFFICES ASSUME NEW i \in 1 .. k - 1 PROVE main.calls[i].of \notin Visited'
    BY <1>6, <1>8, <1>9
  <2>1. i \in 1 .. k /\ i # k
    BY <1>3
  <2>2. main.calls[i].of # e /\ main.calls[i].of \notin Visited
    BY <1>2, <1>3, <1>11, <2>1
  <2> QED
    BY <1>12, <1>13, <1>14, <2>2
<1>16. \A x \in Names : status'[x] \notin {"starting", "running", "loaded"}
  BY <1>2, <1>14
<1> QED
  BY <1>1, <1>10, <1>13, <1>14, <1>15, <1>16, StillResolves

\* ... and the end of it.
LEMMA ResolvedKeeps ==
    ASSUME Inv, Resolved
    PROVE  Inv'
<1>1. /\ main.at = "resolve" /\ main' = [at |-> "register", n |-> 1]
      /\ UNCHANGED <<setup, order, status, exits, started, tools, process, late>>
  BY DEF Resolved
<1>2. Idle /\ \A e \in Names : status[e] # "loaded"
  BY <1>1 DEF Inv, Resolving
<1>3. Names' = Names /\ Places' = Places
  BY <1>1 DEF Names, Places
<1>4. Idle'
  BY <1>1, <1>2, <1>3 DEF Idle
<1>5. Types'
  <2>1. MainOK'
    BY <1>1, <1>3 DEF MainOK, Inv, Types, Busy, AtWork, InStart, StopPhase
  <2>2. ExitsOK'
    BY <1>1, <1>2, <1>3 DEF ExitsOK, Inv, Types, Idle
  <2> QED
    BY <1>1, <1>3, <2>1, <2>2 DEF Inv, Types, Deps
<1>6. Apart'
  BY <1>1, <1>3 DEF Inv, Apart
<1>7. Resolving' /\ Registering' /\ Rooted'
  BY <1>1, <1>2, <1>3, <1>4 DEF Resolving, Registering, Rooted, Idle
<1>8. Late'
  BY <1>1, <1>4, <1>5, NothingLate
<1> QED
  BY <1>5, <1>6, <1>7, <1>8 DEF Inv

-----------------------------------------------------------------------------
(* Registration and start *)

\* Once the order is made it stays, and with it what depends on what.
Framed ==
    /\ setup' = setup /\ order' = order
    /\ Names' = Names /\ Places' = Places /\ Apart'
    /\ \A x : Deps(x)' = Deps(x) /\ Dependents(x)' = Dependents(x)
    /\ \A x, y : Before(x, y)' = Before(x, y)

\* That is so when a step leaves both alone.
LEMMA Frames ==
    ASSUME UNCHANGED <<setup, order>>, Apart
    PROVE  Framed
<1>1. Names' = Names /\ Places' = Places
  BY DEF Names, Places
<1>2. \A x : Deps(x)' = Deps(x)
  BY DEF Deps
<1>3. \A x : Dependents(x)' = Dependents(x)
  <2> SUFFICES ASSUME NEW x PROVE Affected(x)' = Affected(x)
    BY DEF Dependents
  <2> QED
    BY <1>2 DEF Affected
<1>4. Apart' /\ \A x, y : Before(x, y)' = Before(x, y)
  BY <1>1 DEF Apart, Before
<1> QED
  BY <1>1, <1>2, <1>3, <1>4 DEF Framed

\* The order has no extension twice, and what is at a place is an extension.
LEMMA Placed ==
    ASSUME Inv
    PROVE  /\ \A i \in Places : order[i] \in Names
           /\ Places \subseteq Nat /\ Places = 1 .. Len(order) /\ Len(order) \in Nat
           /\ Passed \subseteq Names
           /\ main.n \in Places => Current \notin Passed /\ Current \in Names
           /\ \A x : Follows(x)
<1>1. order \in Seq(Names) /\ Len(order) \in Nat /\ Apart
  BY DEF Inv, Types
<1>2. Places = 1 .. Len(order) /\ Places \subseteq Nat /\ \A i \in Places : order[i] \in Names
  BY <1>1, LenProperties DEF Places
<1>3. Passed \subseteq Names
  BY <1>2 DEF Passed
<1>4. ASSUME main.n \in Places PROVE Current \notin Passed /\ Current \in Names
  BY <1>1, <1>2, <1>4 DEF Passed, Current, Apart
<1>5. \A x : Follows(x)
  BY <1>1, DependentsFollow
<1> QED
  BY <1>1, <1>2, <1>3, <1>4, <1>5

\* Who is loaded has its dependencies loaded, so they were passed before.
LEMMA RegisterKeeps ==
    ASSUME Inv, Register
    PROVE  Inv'
<1>1. main.at = "register" /\ UNCHANGED <<setup, order, exits, started, tools, process, late>>
  BY DEF Register
<1>2. Framed
  BY <1>1, Frames DEF Inv
<1>3. Idle /\ (\A e \in Names : status[e] = "loaded" => e \in Passed) /\ status \in [Names -> Statuses]
  BY <1>1 DEF Inv, Registering, Types
<1>4. main \in [at : {"register", "next", "up"} \cup Busy \cup StopPhase, n : 0 .. Len(order) + 1] /\ main.n >= 1 /\ main.n \in Nat
  BY <1>1, Placed DEF Inv, Types, MainOK
<1>5. CASE main.n > Len(order) /\ main' = [at |-> "next", n |-> 1] /\ status' = status
  <2>1. Idle'
    BY <1>1, <1>2, <1>3, <1>5 DEF Idle, Framed
  <2>2. Types'
    <3>1. MainOK'
      BY <1>2, <1>5, Placed DEF MainOK, Busy, AtWork, InStart, StopPhase, Framed
    <3>2. ExitsOK'
      BY <1>1, <1>2, <1>3 DEF ExitsOK, Framed, Inv, Types, Idle
    <3> QED
      BY <1>1, <1>2, <1>5, <3>1, <3>2 DEF Types, Inv, Framed
  <2>3. Resolving' /\ Registering'
    BY <1>5 DEF Resolving, Registering
  <2>4. Rooted'
    BY <1>1, <1>2, <1>3, <1>5 DEF Inv, Rooted, Framed, Stopping
  <2>5. Late'
    BY <1>5, <2>1, <2>2, NothingLate
  <2> QED
    BY <1>2, <2>2, <2>3, <2>4, <2>5 DEF Inv, Framed
<1>6. CASE /\ main.n <= Len(order) /\ main' = [main EXCEPT !.n = @ + 1]
           /\ \/ status' = status
              \/ \E s \in {"blocked", "loaded", "degraded"} :
                    /\ status' = [status EXCEPT ![Current] = s]
                    /\ s = "loaded" => Ready(Current, "loaded")
  <2>1. main.n \in Places /\ Current \in Names /\ Current \notin Passed
    BY <1>4, <1>6, Placed
  <2>2. status' \in [Names -> Statuses]
    BY <1>3, <1>6 DEF Statuses
  <2>3. \A e \in Names : e # Current => status'[e] = status[e]
    BY <1>3, <1>6
  <2>4. status'[Current] \in {status[Current], "blocked", "loaded", "degraded"}
        /\ (status'[Current] = "loaded" => status[Current] = "loaded" \/ Ready(Current, "loaded"))
    BY <1>3, <1>6, <2>1
  <2>5. Idle'
    BY <1>1, <1>2, <1>3, <2>1, <2>3, <2>4 DEF Idle, Framed
  <2>6. main'.at = "register" /\ main'.n = main.n + 1 /\ main' \in [at : {"register"}, n : 0 .. Len(order) + 1]
    BY <1>1, <1>4, <1>6, Placed
  <2>7. Types'
    <3>1. MainOK'
      BY <1>2, <1>4, <2>6, Placed DEF MainOK, Busy, AtWork, InStart, StopPhase, Framed
    <3>2. ExitsOK'
      BY <1>1, <1>2, <1>3 DEF ExitsOK, Framed, Inv, Types, Idle
    <3> QED
      BY <1>1, <1>2, <2>2, <3>1, <3>2 DEF Types, Inv, Framed
  <2>8. Passed' = Passed \cup {Current}
    BY <1>2, <1>4, <2>1, <2>6, Placed DEF Passed, Framed, Current
  <2>9. Resolving' /\ Registering'
    BY <1>2, <1>3, <2>3, <2>5, <2>6, <2>8 DEF Resolving, Registering, Framed
  <2>10. Rooted'
    <3>1. ASSUME NEW e \in Names, status'[e] = "loaded" PROVE \A d \in Deps(e) : Before(d, e)
      <4>1. CASE status[e] = "loaded"
        BY <1>1, <4>1 DEF Inv, Rooted, Stopping
      <4>2. CASE status[e] # "loaded"
        <5>1. e = Current /\ Ready(Current, "loaded")
          BY <2>3, <2>4, <3>1, <4>2
        <5> SUFFICES ASSUME NEW d \in Deps(e) PROVE Before(d, e)
          OBVIOUS
        <5>2. status[d] = "loaded"
          BY <5>1 DEF Ready
        <5>3. d \in Names
          BY <3>1 DEF Inv, Types
        <5>4. d \in Passed
          BY <1>3, <5>2, <5>3
        <5> QED
          BY <2>1, <5>1, <5>4 DEF Passed, Before, Current
      <4> QED
        BY <4>1, <4>2
    <3> QED
      BY <1>2, <2>5, <3>1 DEF Rooted, Idle, Framed
  <2>11. Late'
    BY <2>5, <2>6, <2>7, NothingLate
  <2> QED
    BY <1>2, <2>7, <2>9, <2>10, <2>11 DEF Inv, Framed
<1> QED
  <2>1. Current = order[main.n]
    BY DEF Current
  <2> QED
    BY <1>4, <1>5, <1>6, <2>1, Placed DEF Register, Fault

\* Once the order is made it is enough to look at what changes ...
LEMMA TypesStay ==
    ASSUME Inv, Framed, ExitsOK', MainOK', status' \in [Names -> Statuses],
           process' \in [Names -> {"none", "up", "leaving", "gone"}],
           started' \cup tools' \cup late' \subseteq Names
    PROVE  Types'
BY DEF Inv, Types, Framed

\* ... and handlers that stay where they are do not count.
LEMMA ExitsStay ==
    ASSUME Inv, Framed, exits' = exits
    PROVE  /\ ExitsOK'
           /\ \A e : Down(e)' = Down(e) /\ AtHand(e)' = AtHand(e)
           /\ \A x, e : Behind(x, e)' = Behind(x, e)
BY DEF Inv, Types, ExitsOK, Framed, Down, AtHand, Behind

\* What is being taken down does not change while main starts and exits stay.
LEMMA LeavingStays ==
    ASSUME Framed, exits' = exits, main.at # "stopping", main'.at # "stopping"
    PROVE  \A x : Leaving(x)' = Leaving(x)
BY DEF Framed, Leaving, Down, AtHand

\* From then on only the invariant of start, exits and stop matters.
LEMMA LateEnough ==
    ASSUME Types', Framed, main'.at \notin {"resolve", "register"}, Rooted', Late'
    PROVE  Inv'
BY DEF Framed, Inv, Resolving, Registering

\* An extension begins its start when its dependencies run; if one of them is
\* being taken down it is late.
LEMMA StartNextKeeps ==
    ASSUME Inv, StartNext
    PROVE  Inv'
<1>1. /\ main.at = "next" /\ main.n <= Len(order)
      /\ UNCHANGED <<setup, order, exits, started, tools, process, faults>>
  BY DEF StartNext
<1>2. Framed
  BY <1>1, Frames DEF Inv
<1>3. main.n \in Places /\ Current \in Names /\ Current \notin Passed /\ main.n \in Nat
      /\ main \in [at : {"register", "next", "up"} \cup Busy \cup StopPhase, n : 0 .. Len(order) + 1]
  BY <1>1, Placed DEF Inv, Types, MainOK
<1>4. \A x \in Names : status[x] # "starting"
  BY <1>1 DEF Inv, Late, OneStarts, AtWork, InStart
<1>5. status \in [Names -> Statuses] /\ late \subseteq Names
  BY DEF Inv, Types
<1>6. \/ main' = NextOne /\ status' = status /\ late' = late
      \/ /\ status[Current] = "loaded"
         /\ status' = [status EXCEPT ![Current] = "blocked"]
         /\ main' = NextOne /\ late' = late
      \/ /\ status[Current] = "loaded"
         /\ status' = [status EXCEPT ![Current] = "starting"]
         /\ main' = [main EXCEPT !.at = "lifecycle"]
         /\ late' = IF \E d \in Names : Down(d) /\ Current \in Dependents(d) THEN late \cup {Current} ELSE late
  BY DEF StartNext
<1>7. /\ status' \in [Names -> Statuses]
      /\ \A x \in Names : x # Current => status'[x] = status[x]
      /\ \/ status'[Current] = status[Current] /\ main'.at = "next"
         \/ status[Current] = "loaded" /\ status'[Current] = "blocked" /\ main'.at = "next"
         \/ status[Current] = "loaded" /\ status'[Current] = "starting" /\ main'.at = "lifecycle"
  BY <1>1, <1>3, <1>5, <1>6 DEF Statuses, NextOne
<1>8. /\ main'.at = "next" => main' = [at |-> "next", n |-> main.n + 1]
      /\ main'.at = "lifecycle" => main' = [at |-> "lifecycle", n |-> main.n]
  BY <1>1, <1>3, <1>6 DEF NextOne
<1>9. late \subseteq late' /\ late' \subseteq Names
      /\ (main'.at = "lifecycle" => \A d \in Names : Down(d) /\ Current \in Dependents(d) => Current \in late')
  BY <1>1, <1>3, <1>5, <1>6 DEF NextOne
<1>10. MainOK'
  BY <1>2, <1>3, <1>7, <1>8, Placed DEF MainOK, Busy, AtWork, InStart, StopPhase, Framed
<1>11. Types'
  BY <1>1, <1>2, <1>7, <1>9, <1>10, ExitsStay, TypesStay DEF Inv, Types
<1>12. main'.at = "lifecycle" => Current' = Current
  BY <1>2, <1>8 DEF Current, Framed
<1>13. Passed \subseteq Passed'
  BY <1>2, <1>3, <1>7, <1>8, Placed DEF Passed, Framed
<1>14. \A x : Leaving(x)' = Leaving(x)
  BY <1>1, <1>2, <1>7, LeavingStays
<1>15. \A x \in Names : status'[x] = "running" <=> status[x] = "running"
  BY <1>7
<1>16. Supported'
  BY <1>1, <1>2, <1>15 DEF Inv, Late, Supported, Marked, AtWork, InStart, Framed
<1>17. OneStarts'
  BY <1>2, <1>4, <1>7, <1>12 DEF OneStarts, AtWork, InStart, Framed
<1>18. CurrentStarts'
  BY <1>7, <1>12 DEF CurrentStarts, Busy, AtWork, InStart
<1>19. Rooted'
  BY <1>1, <1>2, <1>7 DEF Inv, Rooted, Framed, Stopping
<1>20. RanBefore'
  BY <1>1, <1>2, <1>13, <1>15, ExitsStay DEF Inv, Late, RanBefore, Framed
<1>21. TakenAway'
  BY <1>1, <1>2, <1>7, ExitsStay DEF Inv, Late, TakenAway, Marked, Framed
<1>22. RunsStarted'
  BY <1>1, <1>2, <1>14, <1>15 DEF Inv, Late, RunsStarted, Framed
<1>23. Handled'
  <2> SUFFICES ASSUME NEW e \in Names, Down(e), NEW x \in Dependents(e), x \notin late'
               PROVE  status'[x] # "starting" /\ (Behind(x, e) => status'[x] # "running")
    BY <1>1, <1>2, ExitsStay DEF Handled, Framed
  <2>1. x \in Names /\ x \notin late
    BY <1>9, Placed DEF Follows
  <2>2. status[x] # "starting" /\ (Behind(x, e) => status[x] # "running")
    BY <2>1 DEF Inv, Late, Handled
  <2> QED
    BY <1>7, <1>9, <1>15, <2>1, <2>2
<1>24. Kept'
  BY <1>1, <1>2, <1>9, <1>14, <1>15 DEF Inv, Late, Kept, Framed, Ready, Types
<1>25. StoppedBehind'
  BY <1>7 DEF StoppedBehind, StopPhase
<1>26. Watched'
  BY <1>1, <1>2, <1>7, <1>13 DEF Inv, Late, Watched, Framed, Busy
<1>27. Late'
  BY <1>16, <1>26, <1>17, <1>18, <1>20, <1>21, <1>22, <1>23, <1>24, <1>25 DEF Late
<1> QED
  BY <1>2, <1>7, <1>11, <1>19, <1>27, LateEnough

\* The steps of a start, one behind the other ...
LEMMA FollowingIs ==
    /\ Following("lifecycle") = "processes" /\ Following("processes") = "starting"
    /\ Following("starting") = "health" /\ Following("health") = "tools"
<1>1. /\ DOMAIN Steps = 1 .. 5
      /\ Steps[1] = "lifecycle" /\ Steps[2] = "processes" /\ Steps[3] = "starting"
      /\ Steps[4] = "health" /\ Steps[5] = "tools"
  BY DEF Steps
<1>2. \A i \in 1 .. 5 : i = 1 \/ i = 2 \/ i = 3 \/ i = 4 \/ i = 5
  OBVIOUS
<1>3. (CHOOSE i \in DOMAIN Steps : Steps[i] = "lifecycle") = 1
  BY <1>1, <1>2
<1>4. (CHOOSE i \in DOMAIN Steps : Steps[i] = "processes") = 2
  BY <1>1, <1>2
<1>5. (CHOOSE i \in DOMAIN Steps : Steps[i] = "starting") = 3
  BY <1>1, <1>2
<1>6. (CHOOSE i \in DOMAIN Steps : Steps[i] = "health") = 4
  BY <1>1, <1>2
<1> QED
  BY <1>1, <1>3, <1>4, <1>5, <1>6 DEF Following

\* ... and no others.
LEMMA StepsAre == {Steps[i] : i \in DOMAIN Steps} = InStart
<1>1. /\ DOMAIN Steps = 1 .. 5
      /\ Steps[1] = "lifecycle" /\ Steps[2] = "processes" /\ Steps[3] = "starting"
      /\ Steps[4] = "health" /\ Steps[5] = "tools"
  BY DEF Steps
<1>2. 1 .. 5 = {1, 2, 3, 4, 5}
  OBVIOUS
<1> QED
  BY <1>1, <1>2 DEF InStart

\* A step has succeeded: the checkpoint behind it ends the start if a handler
\* has blocked the extension or one of its dependencies does not run any more.
LEMMA StepDoneKeeps ==
    ASSUME Inv, StepDone
    PROVE  Inv'
<1> DEFINE c == Current
<1>1. main.at \in InStart /\ UNCHANGED <<setup, order, exits, late, faults>>
  BY StepsAre DEF StepDone
<1>2. Framed
  BY <1>1, Frames DEF Inv
<1>3. main.n \in Places /\ c \in Names /\ c \notin Passed /\ main.n \in Nat
      /\ main \in [at : {"register", "next", "up"} \cup Busy \cup StopPhase, n : 0 .. Len(order) + 1]
      /\ main.at # "stopping" /\ main.at \in AtWork /\ main.at \in Busy
  BY <1>1, Placed DEF Inv, Types, MainOK, Busy, AtWork, InStart
<1>4. /\ status \in [Names -> Statuses] /\ late \subseteq Names /\ started \subseteq Names /\ tools \subseteq Names
      /\ process \in [Names -> {"none", "up", "leaving", "gone"}]
  BY DEF Inv, Types
<1>5. /\ status[c] \in {"starting", "blocked"}
      /\ main.at \in {"starting", "health", "tools"} => c \in started
  BY <1>3 DEF Inv, Late, CurrentStarts
<1>6. /\ process' = IF main.at = "processes" THEN [process EXCEPT ![c] = "up"] ELSE process
      /\ tools' = IF main.at = "tools" THEN tools \cup {c} ELSE tools
      /\ started' = IF main.at = "processes" /\ ~Checked(c) THEN started \cup {c} ELSE started
  BY DEF StepDone
<1>7. \/ /\ Checked(c) /\ status' = [status EXCEPT ![c] = "blocked"]
         /\ main' = [main EXCEPT !.at = "blocked"]
      \/ /\ ~Checked(c) /\ main.at # "tools" /\ status' = status
         /\ main' = [main EXCEPT !.at = Following(@)]
      \/ /\ ~Checked(c) /\ main.at = "tools" /\ status' = [status EXCEPT ![c] = "running"]
         /\ main' = NextOne
  BY DEF StepDone
<1>8. /\ process' \in [Names -> {"none", "up", "leaving", "gone"}]
      /\ \A x \in Names : x # c => process'[x] = process[x]
      /\ started' \subseteq Names /\ tools' \subseteq Names /\ started \subseteq started'
      /\ \A x \in Names : x # c => (x \in started' <=> x \in started) /\ (x \in tools' <=> x \in tools)
  BY <1>3, <1>4, <1>6
<1>9. /\ status' \in [Names -> Statuses]
      /\ \A x \in Names : x # c => status'[x] = status[x]
  BY <1>3, <1>4, <1>7 DEF Statuses
<1>10. \/ status'[c] = "blocked" /\ main' = [at |-> "blocked", n |-> main.n]
       \/ /\ status'[c] = "starting" /\ status[c] = "starting"
          /\ main'.at \in InStart /\ main' = [at |-> main'.at, n |-> main.n]
          /\ main'.at \in {"starting", "health", "tools"} => c \in started'
       \/ /\ status'[c] = "running" /\ status[c] = "starting" /\ main.at = "tools"
          /\ Ready(c, "running") /\ main' = [at |-> "next", n |-> main.n + 1]
  <2>1. ~Checked(c) => status[c] = "starting" /\ Ready(c, "running")
    BY <1>5 DEF Checked
  <2>2. CASE Checked(c)
    BY <1>3, <1>4, <1>7, <2>2
  <2>3. CASE ~Checked(c) /\ main.at # "tools"
    <3>1. main' = [main EXCEPT !.at = Following(main.at)] /\ status' = status
      BY <1>7, <2>3
    <3>2. main'.at = Following(main.at) /\ main' = [at |-> main'.at, n |-> main.n]
      BY <1>3, <3>1
    <3>3. main.at \in {"lifecycle", "processes", "starting", "health"}
      BY <1>1, <2>3 DEF InStart
    <3>4. main'.at \in InStart
      BY <3>2, <3>3, FollowingIs DEF InStart
    <3>5. main'.at \in {"starting", "health", "tools"} => c \in started'
      BY <1>5, <1>6, <2>3, <3>2, <3>3, FollowingIs
    <3> QED
      BY <2>1, <2>3, <3>1, <3>2, <3>4, <3>5
  <2>4. CASE ~Checked(c) /\ main.at = "tools"
    BY <1>3, <1>4, <1>7, <2>1, <2>4 DEF NextOne
  <2> QED
    BY <2>2, <2>3, <2>4
<1>11. main'.at # "lifecycle" /\ (main.at # "lifecycle" => main'.at # "processes")
       /\ (main'.at # "next" => main'.n = main.n)
  BY <1>1, <1>3, <1>7, FollowingIs DEF InStart, NextOne
<1>12. c = order[main.n]
  BY DEF Current
<1>13. main'.n = main.n => Current' = c
  BY <1>2, <1>12 DEF Current, Framed
<1> HIDE DEF c
<1>14. MainOK'
  BY <1>2, <1>3, <1>10, Placed DEF MainOK, Busy, AtWork, InStart, StopPhase, Framed
<1>15. Types'
  BY <1>1, <1>2, <1>4, <1>8, <1>9, <1>14, ExitsStay, TypesStay
<1>16. Passed \subseteq Passed' /\ (main'.at = "next" => c \in Passed')
  <2>1. CASE main'.n = main.n /\ main'.at # "next"
    BY <1>2, <2>1 DEF Passed, Framed
  <2>2. CASE main'.n = main.n + 1
    <3>1. \A j \in Places : j < main'.n <=> (j < main.n \/ j = main.n)
      BY <1>3, <2>2, Placed
    <3> QED
      BY <1>2, <1>3, <1>12, <3>1 DEF Passed, Framed
  <2> QED
    BY <1>10, <2>1, <2>2 DEF InStart
<1>17. main'.at \notin {"stopping", "resolve", "register"} /\ main'.at \notin StopPhase
       /\ main.at \notin StopPhase /\ main'.n >= main.n /\ main'.n \in Nat
  BY <1>1, <1>3, <1>10 DEF InStart, StopPhase
<1>18. \A x : Leaving(x)' = Leaving(x)
  BY <1>1, <1>2, <1>3, <1>17, LeavingStays
<1>19. \A x \in Names : x # c => (Marked(x)' <=> Marked(x))
  BY <1>8 DEF Marked
<1>20. Supported'
  <2> SUFFICES ASSUME NEW x \in Names, Marked(x)'
               PROVE  status'[x] = "running" \/ (main'.at \in AtWork /\ x = Current')
    BY <1>2 DEF Supported, Framed, AtWork, InStart
  <2>1. CASE x = c
    BY <1>10, <1>13, <2>1 DEF AtWork
  <2>2. CASE x # c
    BY <1>9, <1>19, <2>2 DEF Inv, Late, Supported, c
  <2> QED
    BY <2>1, <2>2
<1>21. OneStarts'
  <2> SUFFICES ASSUME NEW x \in Names, status'[x] = "starting"
               PROVE  main'.at \in AtWork \cup {"degrading"} /\ x = Current'
    BY <1>2 DEF OneStarts, Framed, AtWork, InStart
  <2>1. x = c
    BY <1>9 DEF Inv, Late, OneStarts, c
  <2> QED
    BY <1>10, <1>13, <2>1 DEF AtWork
<1>22. CurrentStarts'
  BY <1>10, <1>13 DEF CurrentStarts, Busy, AtWork, InStart
<1>23. Rooted'
  <2>1. ~Stopping /\ ~Stopping'
    BY <1>17 DEF Stopping, StopPhase
  <2> SUFFICES ASSUME NEW x \in Names, status'[x] \in {"starting", "running", "loaded"}
               PROVE  \A d \in Deps(x) : Before(d, x)
    BY <1>2, <2>1 DEF Rooted, Framed
  <2>2. status[x] \in {"starting", "running", "loaded"}
    BY <1>9, <1>10
  <2> QED
    BY <2>1, <2>2 DEF Inv, Rooted
<1>24. RanBefore'
  <2>1. \A x \in Names : status'[x] = "running" => x \in Passed'
    BY <1>3, <1>9, <1>10, <1>16 DEF Inv, Late, RanBefore
  <2>2. \A x \in Names : (Down(x) => x \in Passed') /\ (exits[x].at = "stopping" => AtHand(x) \in Passed')
    BY <1>3, <1>16 DEF Inv, Late, RanBefore
  <2> QED
    BY <1>1, <1>2, <2>1, <2>2, ExitsStay DEF RanBefore, Framed
<1>25. TakenAway'
  <2> SUFFICES ASSUME NEW x \in Names
               PROVE  /\ exits[x].at = "stopping" => ~Marked(AtHand(x))'
                      /\ exits[x].at = "degrading" => ~Marked(x)'
    BY <1>1, <1>2, <1>17, ExitsStay DEF TakenAway, Framed, Marked
  <2>1. (exits[x].at = "stopping" => AtHand(x) \in Passed) /\ (exits[x].at = "degrading" => x \in Passed)
    BY <1>3 DEF Inv, Late, RanBefore, Down
  <2>2. (exits[x].at = "stopping" => ~Marked(AtHand(x))) /\ (exits[x].at = "degrading" => ~Marked(x))
    BY DEF Inv, Late, TakenAway
  <2>3. AtHand(x)' = AtHand(x)
    BY <1>1, <1>2, ExitsStay
  <2> QED
    BY <1>3, <1>19, <2>1, <2>2, <2>3, Placed DEF Marked
<1>26. RunsStarted'
  <2> SUFFICES ASSUME NEW x \in Names, status'[x] = "running" PROVE x \in started' \/ Leaving(x)
    BY <1>2, <1>18 DEF RunsStarted, Framed
  <2>1. CASE x = c
    BY <1>5, <1>8, <1>10, <2>1
  <2>2. CASE x # c
    BY <1>8, <1>9, <2>2 DEF Inv, Late, RunsStarted
  <2> QED
    BY <2>1, <2>2
<1>27. Handled'
  <2> SUFFICES ASSUME NEW e \in Names, Down(e), NEW x \in Dependents(e), x \notin late
               PROVE  status'[x] # "starting" /\ (Behind(x, e) => status'[x] # "running")
    BY <1>1, <1>2, ExitsStay DEF Handled, Framed
  <2>1. x \in Names
    BY Placed DEF Follows
  <2>2. status[x] # "starting" /\ (Behind(x, e) => status[x] # "running")
    BY <2>1 DEF Inv, Late, Handled
  <2> QED
    BY <1>9, <1>10, <2>1, <2>2
<1>28. Kept'
  <2> SUFFICES ASSUME NEW x \in Names, status'[x] = "running", x \notin late, ~Leaving(x), NEW d \in Deps(x)
               PROVE  status'[d] = "running"
    BY <1>1, <1>2, <1>18 DEF Kept, Framed, Ready
  <2>1. d \in Names
    BY DEF Inv, Types
  <2>2. status[d] = "running"
    <3>1. CASE x = c
      BY <1>10, <3>1 DEF Ready
    <3>2. CASE x # c
      BY <1>9, <3>2 DEF Inv, Late, Kept, Ready
    <3> QED
      BY <3>1, <3>2
  <2> QED
    BY <1>5, <1>9, <2>1, <2>2
<1>29. StoppedBehind'
  BY <1>17 DEF StoppedBehind
<1>30. Watched'
  <2>1. \A x \in Names : exits[x].at # "none" => process'[x] = "gone"
    <3> SUFFICES ASSUME NEW x \in Names, exits[x].at # "none" PROVE process'[x] = "gone"
      OBVIOUS
    <3>1. process[x] = "gone" /\ (x = c => main.at # "processes")
      BY <1>3 DEF Inv, Late, Watched, c
    <3> QED
      BY <1>6, <1>8, <3>1
  <2>2. ASSUME NEW x \in Names, process'[x] # "none"
        PROVE  x \in Passed' \/ (x = Current' /\ main'.at \notin {"next", "lifecycle", "processes"})
    <3>1. CASE x # c
      BY <1>3, <1>8, <1>16, <2>2, <3>1 DEF Inv, Late, Watched, c
    <3>2. CASE x = c
      <4>1. main.at = "lifecycle" => process'[x] = "none"
        BY <1>3, <1>6, <3>2 DEF Inv, Late, Watched, c
      <4>2. main.at # "lifecycle"
        BY <2>2, <4>1
      <4> QED
        BY <1>1, <1>13, <1>16, <1>11, <3>2, <4>2
    <3> QED
      BY <3>1, <3>2
  <2> QED
    <3>1. Names' = Names /\ exits' = exits
      BY <1>1, <1>2 DEF Framed
    <3> QED
      BY <2>1, <2>2, <3>1 DEF Watched
<1>31. Late'
  BY <1>20, <1>30, <1>21, <1>22, <1>24, <1>25, <1>26, <1>27, <1>28, <1>29 DEF Late
<1> QED
  BY <1>2, <1>15, <1>17, <1>23, <1>31, LateEnough

\* What stays when main only moves on and takes nothing up: the parts of the
\* invariant that are not about main.
LEMMA MainMovesOn ==
    ASSUME Inv, Framed, exits' = exits, status' = status, late' = late,
           main.at # "stopping", \A x \in Names : Marked(x)' => Marked(x)
    PROVE  /\ main'.at # "stopping" => TakenAway' /\ Kept'
           /\ Handled'
<1>1. ASSUME main'.at # "stopping" PROVE TakenAway'
  <2>1. \A e \in Names : (exits[e].at = "stopping" => AtHand(e) \in Names)
    BY Placed DEF Inv, Types, ExitsOK, AtHand
  <2>2. \A e : Down(e)' = Down(e) /\ AtHand(e)' = AtHand(e)
    BY ExitsStay
  <2> QED
    BY <1>1, <2>1, <2>2 DEF Inv, Late, TakenAway, Framed, Marked
<1>2. ASSUME main'.at # "stopping" PROVE Kept'
  BY <1>2, LeavingStays DEF Inv, Late, Kept, Framed, Ready
<1>3. Handled'
  BY ExitsStay DEF Inv, Late, Handled, Framed
<1> QED
  BY <1>1, <1>2, <1>3

\* Withdrawn takes one extension back and nothing else.
LEMMA WithdrawnIs ==
    ASSUME Inv, NEW e \in Names, Withdrawn(e)
    PROVE  /\ process' \in [Names -> {"none", "up", "leaving", "gone"}]
           /\ \A x \in Names : Marked(x)' => Marked(x) /\ x # e
           /\ \A x \in Names : Marked(x) /\ x # e => Marked(x)'
           /\ started' = started \ {e} /\ tools' = tools \ {e}
           /\ \A x \in Names : (process[x] = "none" => process'[x] = "none") /\ (process[x] = "gone" => process'[x] = "gone")
<1>1. /\ tools' = tools \ {e} /\ started' = started \ {e}
      /\ process' = IF process[e] = "up" THEN [process EXCEPT ![e] = "leaving"] ELSE process
      /\ process \in [Names -> {"none", "up", "leaving", "gone"}]
  BY DEF Withdrawn, Inv, Types
<1>2. CASE process[e] = "up"
  <2>1. process' = [process EXCEPT ![e] = "leaving"]
    BY <1>1, <1>2
  <2>2. process' \in [Names -> {"none", "up", "leaving", "gone"}] /\ process'[e] # "up"
        /\ \A x \in Names : x # e => process'[x] = process[x]
    BY <1>1, <2>1
  <2> QED
    BY <1>1, <1>2, <2>2 DEF Marked
<1>3. CASE process[e] # "up"
  BY <1>1, <1>3 DEF Marked
<1> QED
  BY <1>2, <1>3

\* A step has failed.
LEMMA StepFailsKeeps ==
    ASSUME Inv, StepFails
    PROVE  Inv'
<1>1. /\ main.at \in InStart /\ main' = [main EXCEPT !.at = "failed"]
      /\ UNCHANGED <<setup, order, status, exits, started, tools, process, late>>
  BY StepsAre DEF StepFails
<1>2. Framed
  BY <1>1, Frames DEF Inv
<1>3. main.n \in Places /\ main.at # "stopping" /\ main.at \in AtWork /\ main.at \in Busy
      /\ main \in [at : {"register", "next", "up"} \cup Busy \cup StopPhase, n : 0 .. Len(order) + 1]
  BY <1>1 DEF Inv, Types, MainOK, Busy, AtWork, InStart
<1>4. main' = [at |-> "failed", n |-> main.n] /\ Current' = Current /\ Passed' = Passed
  BY <1>1, <1>2, <1>3 DEF Current, Passed, Framed
<1>5. MainOK'
  BY <1>2, <1>3, <1>4, Placed DEF MainOK, Busy, AtWork, InStart, StopPhase, Framed
<1>6. Types'
  BY <1>1, <1>2, <1>5, ExitsStay, TypesStay DEF Inv, Types
<1>7. \A x \in Names : Marked(x)' <=> Marked(x)
  BY <1>1 DEF Marked
<1>8. Handled' /\ TakenAway' /\ Kept'
  BY <1>1, <1>2, <1>3, <1>4, <1>7, MainMovesOn
<1>9. Supported' /\ OneStarts' /\ CurrentStarts'
  BY <1>1, <1>2, <1>3, <1>4, <1>7 DEF Inv, Late, Supported, OneStarts, CurrentStarts, Framed, Busy, AtWork
<1>10. Rooted'
  BY <1>1, <1>2, <1>4 DEF Inv, Rooted, Framed, Stopping, InStart
<1>11. RanBefore'
  BY <1>1, <1>2, <1>3, <1>4, ExitsStay DEF Inv, Late, RanBefore, Framed
<1>12. Watched'
  BY <1>1, <1>2, <1>3, <1>4 DEF Inv, Late, Watched, Framed
<1>13. RunsStarted'
  BY <1>1, <1>2, <1>3, <1>4, LeavingStays DEF Inv, Late, RunsStarted, Framed
<1>14. StoppedBehind'
  BY <1>4 DEF StoppedBehind, StopPhase
<1> QED
  BY <1>2, <1>4, <1>6, <1>8, <1>9, <1>10, <1>11, <1>13, <1>14, <1>12, LateEnough DEF Late

\* A start that failed or was blocked takes back what it has made ...
LEMMA StartUndoneKeeps ==
    ASSUME Inv, StartUndone
    PROVE  Inv'
<1>1. /\ main.at \in {"failed", "blocked"} /\ Withdrawn(Current)
      /\ main' = [main EXCEPT !.at = IF @ = "failed" THEN "degrading" ELSE "cleaning"]
      /\ UNCHANGED <<setup, order, status, exits, late, faults>>
  BY DEF StartUndone
<1>2. Framed
  BY <1>1, Frames DEF Inv
<1>3. main.n \in Places /\ Current \in Names /\ main.at # "stopping" /\ main.at \in AtWork /\ main.at \in Busy
      /\ main \in [at : {"register", "next", "up"} \cup Busy \cup StopPhase, n : 0 .. Len(order) + 1]
  BY <1>1, Placed DEF Inv, Types, MainOK, Busy, AtWork
<1>4. /\ main' = [at |-> main'.at, n |-> main.n]
      /\ \/ main.at = "failed" /\ main'.at = "degrading"
         \/ main.at = "blocked" /\ main'.at = "cleaning"
  BY <1>1, <1>3
<1>5. Current' = Current /\ Passed' = Passed
  BY <1>2, <1>4 DEF Current, Passed, Framed
<1>6. MainOK'
  BY <1>2, <1>3, <1>4, Placed DEF MainOK, Busy, AtWork, InStart, StopPhase, Framed
<1>7. /\ process' \in [Names -> {"none", "up", "leaving", "gone"}]
      /\ \A x \in Names : Marked(x)' => Marked(x) /\ x # Current
      /\ started' = started \ {Current} /\ tools' \subseteq tools
      /\ \A x \in Names : (process[x] = "none" => process'[x] = "none") /\ (process[x] = "gone" => process'[x] = "gone")
  BY <1>1, <1>3, WithdrawnIs
<1>8. Types'
  BY <1>1, <1>2, <1>6, <1>7, ExitsStay, TypesStay DEF Inv, Types
<1>9. Handled' /\ TakenAway' /\ Kept'
  BY <1>1, <1>2, <1>3, <1>4, <1>7, MainMovesOn
<1>10. Supported'
  BY <1>1, <1>2, <1>5, <1>7 DEF Inv, Late, Supported, Framed
<1>11. OneStarts' /\ CurrentStarts'
  BY <1>1, <1>2, <1>3, <1>4, <1>5 DEF Inv, Late, OneStarts, CurrentStarts, Framed, Busy
<1>12. Rooted'
  BY <1>1, <1>2, <1>4 DEF Inv, Rooted, Framed, Stopping
<1>13. RanBefore'
  BY <1>1, <1>2, <1>3, <1>5, ExitsStay DEF Inv, Late, RanBefore, Framed
<1>14. RunsStarted'
  BY <1>1, <1>2, <1>3, <1>4, <1>7, LeavingStays DEF Inv, Late, RunsStarted, Framed, CurrentStarts
<1>15. StoppedBehind'
  BY <1>4 DEF StoppedBehind, StopPhase
<1>16. Watched'
  BY <1>1, <1>2, <1>3, <1>4, <1>5, <1>7 DEF Inv, Late, Watched, Framed
<1> QED
  BY <1>2, <1>4, <1>8, <1>9, <1>10, <1>11, <1>12, <1>13, <1>14, <1>15, <1>16, LateEnough DEF Late

\* ... and ends when its process has.
LEMMA StartGivenUpKeeps ==
    ASSUME Inv, StartGivenUp
    PROVE  Inv'
<1> DEFINE c == Current
<1>1. /\ main.at \in {"degrading", "cleaning"} /\ process' = Ended(c)
      /\ status' = IF main.at = "degrading" THEN [status EXCEPT ![c] = "degraded"] ELSE status
      /\ main' = [at |-> "next", n |-> main.n + 1]
      /\ UNCHANGED <<setup, order, exits, started, tools, late, faults>>
  BY DEF StartGivenUp, NextOne
<1>2. Framed
  BY <1>1, Frames DEF Inv
<1>3. main.n \in Places /\ c \in Names /\ main.at # "stopping" /\ main.at \notin AtWork /\ main.at \in Busy
  BY <1>1, Placed DEF Inv, Types, MainOK, Busy, AtWork, InStart
<1>4. MainOK'
  BY <1>1, <1>2, <1>3, Placed DEF MainOK, Busy, AtWork, InStart, StopPhase, Framed
<1>5. /\ process' \in [Names -> {"none", "up", "leaving", "gone"}]
      /\ \A x \in Names : Marked(x)' => Marked(x)
      /\ \A x \in Names : (process[x] = "none" => process'[x] = "none") /\ (process[x] = "gone" => process'[x] = "gone")
  BY <1>1, <1>3 DEF Inv, Types, Ended, Marked
<1>6. /\ status[c] \in {"starting", "blocked"} /\ (main.at = "cleaning" => status[c] = "blocked")
      /\ status \in [Names -> Statuses]
  BY <1>1, <1>3 DEF Inv, Late, CurrentStarts, Types
<1>7. /\ status' \in [Names -> Statuses] /\ status'[c] \in {"blocked", "degraded"}
      /\ \A x \in Names : x # c => status'[x] = status[x]
  BY <1>1, <1>3, <1>6 DEF Statuses
<1>8. Types'
  BY <1>1, <1>2, <1>4, <1>5, <1>7, ExitsStay, TypesStay DEF Inv, Types
<1>9. \A x : Leaving(x)' = Leaving(x)
  BY <1>1, <1>2, <1>3, LeavingStays
<1>10. Passed \subseteq Passed'
  BY <1>1, <1>2, <1>3, Placed DEF Passed, Framed
<1>11. Supported'
  <2> SUFFICES ASSUME NEW x \in Names, Marked(x)' PROVE status'[x] = "running"
    BY <1>2 DEF Supported, Framed
  <2>1. status[x] = "running"
    BY <1>3, <1>5 DEF Inv, Late, Supported
  <2> QED
    BY <1>6, <1>7, <2>1
<1>12. OneStarts'
  <2> SUFFICES ASSUME NEW x \in Names, status'[x] = "starting" PROVE FALSE
    BY <1>2 DEF OneStarts, Framed
  <2> QED
    BY <1>7 DEF Inv, Late, OneStarts, c
<1>13. CurrentStarts' /\ StoppedBehind'
  BY <1>1 DEF CurrentStarts, StoppedBehind, Busy, AtWork, InStart, StopPhase
<1>14. Rooted'
  BY <1>1, <1>2, <1>7 DEF Inv, Rooted, Framed, Stopping
<1>15. RanBefore'
  BY <1>1, <1>2, <1>3, <1>7, <1>10, ExitsStay DEF Inv, Late, RanBefore, Framed
<1>16. TakenAway'
  <2> SUFFICES ASSUME NEW x \in Names
               PROVE  /\ exits[x].at = "stopping" => ~Marked(AtHand(x))'
                      /\ exits[x].at = "degrading" => ~Marked(x)'
    BY <1>1, <1>2, ExitsStay DEF TakenAway, Framed, Marked
  <2>1. (exits[x].at = "stopping" => ~Marked(AtHand(x)) /\ AtHand(x) \in Names) /\ (exits[x].at = "degrading" => ~Marked(x))
    BY Placed DEF Inv, Late, TakenAway, Types, ExitsOK, AtHand
  <2>2. AtHand(x)' = AtHand(x)
    BY <1>1, <1>2, ExitsStay
  <2> QED
    BY <1>5, <2>1, <2>2 DEF Marked
<1>17. RunsStarted'
  BY <1>1, <1>2, <1>7, <1>9 DEF Inv, Late, RunsStarted, Framed
<1>18. Handled'
  <2> SUFFICES ASSUME NEW e \in Names, Down(e), NEW x \in Dependents(e), x \notin late
               PROVE  status'[x] # "starting" /\ (Behind(x, e) => status'[x] # "running")
    BY <1>1, <1>2, ExitsStay DEF Handled, Framed
  <2>1. x \in Names
    BY Placed DEF Follows
  <2>2. status[x] # "starting" /\ (Behind(x, e) => status[x] # "running")
    BY <2>1 DEF Inv, Late, Handled
  <2> QED
    BY <1>7, <2>1, <2>2
<1>19. Kept'
  BY <1>1, <1>2, <1>6, <1>7, <1>9 DEF Inv, Late, Kept, Framed, Ready, Types
<1>20. Watched'
  <2>1. c \in Passed'
    BY <1>1, <1>2, <1>3, Placed DEF Passed, Framed, Current, c
  <2> QED
    <3> SUFFICES ASSUME NEW x \in Names
                 PROVE  (exits[x].at # "none" => process'[x] = "gone") /\ (process'[x] # "none" => x \in Passed')
      BY <1>1, <1>2 DEF Watched, Framed
    <3>1. (exits[x].at # "none" => process[x] = "gone") /\ (process[x] # "none" => x \in Passed \/ x = c)
      BY <1>3 DEF Inv, Late, Watched
    <3> QED
      BY <1>5, <1>10, <2>1, <3>1
<1> QED
  BY <1>20, <1>1, <1>2, <1>8, <1>11, <1>12, <1>13, <1>14, <1>15, <1>16, <1>17, <1>18, <1>19, LateEnough DEF Late

-----------------------------------------------------------------------------
(* stop *)

\* start has come to its end, stop begins, stop ends: only main moves.
LEMMA MainPausesKeeps ==
    ASSUME Inv, Started \/ StopBegins \/ StopEnds
    PROVE  Inv'
<1>1. /\ UNCHANGED <<setup, order, status, exits, started, tools, process, late>>
      /\ \/ main.at = "next" /\ main' = [at |-> "up", n |-> 0]
         \/ main.at = "up" /\ main' = [at |-> "stop", n |-> Len(order)]
         \/ main.at = "stop" /\ main.n = 0 /\ main' = [main EXCEPT !.at = "down"]
  BY DEF Started, StopBegins, StopEnds
<1>2. Framed
  BY <1>1, Frames DEF Inv
<1>3. /\ main \in [at : {"register", "next", "up"} \cup Busy \cup StopPhase, n : 0 .. Len(order) + 1]
      /\ main.at \notin Busy /\ main.at # "stopping"
  BY <1>1 DEF Inv, Types, MainOK, Busy, AtWork, InStart
<1>4. \/ main.at = "next" /\ main' = [at |-> "up", n |-> 0]
      \/ main.at = "up" /\ main' = [at |-> "stop", n |-> Len(order)]
      \/ main.at = "stop" /\ main.n = 0 /\ main' = [at |-> "down", n |-> 0]
  BY <1>1, <1>3
<1>5. MainOK'
  BY <1>2, <1>4, Placed DEF MainOK, Busy, AtWork, InStart, StopPhase, Framed
<1>6. Types'
  BY <1>1, <1>2, <1>5, ExitsStay, TypesStay DEF Inv, Types
<1>7. \A x \in Names : Marked(x)' <=> Marked(x)
  BY <1>1 DEF Marked
<1>8. Handled' /\ TakenAway' /\ Kept'
  BY <1>1, <1>2, <1>3, <1>4, <1>7, MainMovesOn
<1>9. Supported' /\ OneStarts' /\ CurrentStarts'
  BY <1>1, <1>2, <1>3, <1>4, <1>7 DEF Inv, Late, Supported, OneStarts, CurrentStarts, Framed, Busy, AtWork, InStart
<1>10. Rooted'
  BY <1>1, <1>2, <1>4 DEF Inv, Rooted, Framed, Stopping
<1>11. RanBefore' /\ Watched'
  BY <1>1, <1>2, <1>4 DEF Inv, Late, Watched, Framed, RanBefore, Busy, AtWork, InStart
<1>12. RunsStarted'
  BY <1>1, <1>2, <1>3, <1>4, LeavingStays DEF Inv, Late, RunsStarted, Framed
<1>13. StoppedBehind'
  <2>1. CASE main.at = "stop" /\ main.n = 0 /\ main' = [at |-> "down", n |-> 0]
    BY <1>1, <1>2, <2>1, LeavingStays DEF Inv, Late, StoppedBehind, Framed, StopPhase
  <2>2. CASE main' = [at |-> "stop", n |-> Len(order)]
    BY <1>2, <2>2, Placed DEF StoppedBehind, Framed
  <2>3. CASE main'.at = "up"
    BY <2>3 DEF StoppedBehind, StopPhase
  <2> QED
    BY <1>4, <2>1, <2>2, <2>3
<1> QED
  BY <1>2, <1>4, <1>6, <1>8, <1>9, <1>10, <1>11, <1>12, <1>13, LateEnough DEF Late

\* stop takes one extension back, whose dependents it has passed ...
LEMMA StopNextKeeps ==
    ASSUME Inv, StopNext
    PROVE  Inv'
<1> DEFINE c == Current
<1>1. main.at = "stop" /\ main.n > 0 /\ UNCHANGED <<setup, order, exits, late, faults>>
  BY DEF StopNext
<1>2. Framed
  BY <1>1, Frames DEF Inv
<1>3. /\ main \in [at : {"register", "next", "up"} \cup Busy \cup StopPhase, n : 0 .. Len(order) + 1]
      /\ main.at \notin Busy /\ main.at # "stopping" /\ main.n \in Places /\ main.n \in Nat
      /\ c \in Names /\ c = order[main.n]
  BY <1>1, Placed DEF Inv, Types, MainOK, Busy, AtWork, InStart, Current
<1>4. Stopping /\ main.at \in StopPhase
  BY <1>1 DEF Stopping, StopPhase
<1>5. status \in [Names -> Statuses] /\ started \cup tools \cup late \subseteq Names
      /\ process \in [Names -> {"none", "up", "leaving", "gone"}]
  BY DEF Inv, Types
<1>6. CASE /\ Withdrawn(c) /\ main' = [main EXCEPT !.at = "stopping"] /\ status' = status
  <2>1. main' = [at |-> "stopping", n |-> main.n] /\ Current' = c /\ main'.at \in StopPhase
    BY <1>2, <1>3, <1>6 DEF Current, Framed, StopPhase
  <2>2. /\ process' \in [Names -> {"none", "up", "leaving", "gone"}]
        /\ \A x \in Names : Marked(x)' => Marked(x) /\ x # c
        /\ started' = started \ {c} /\ tools' \subseteq tools
        /\ \A x \in Names : process[x] = "gone" => process'[x] = "gone"
    BY <1>3, <1>6, WithdrawnIs
  <2>3. MainOK'
    BY <1>2, <1>3, <2>1, Placed DEF MainOK, Busy, AtWork, InStart, StopPhase, Framed
  <2>4. Types'
    BY <1>1, <1>2, <1>5, <1>6, <2>2, <2>3, ExitsStay, TypesStay
  <2>5. Handled'
    BY <1>1, <1>2, <1>3, <1>6, <2>2, MainMovesOn
  <2>6. \A x : Leaving(x)' <=> Leaving(x) \/ x = c
    BY <1>1, <1>2, <1>3, <2>1, ExitsStay DEF Leaving, Framed
  <2>7. TakenAway'
    <3>1. \A e \in Names : (exits[e].at = "stopping" => AtHand(e) \in Names)
      BY Placed DEF Inv, Types, ExitsOK, AtHand
    <3>2. \A e : Down(e)' = Down(e) /\ AtHand(e)' = AtHand(e)
      BY <1>1, <1>2, ExitsStay
    <3> QED
      BY <1>1, <1>2, <1>3, <2>1, <2>2, <3>1, <3>2 DEF Inv, Late, TakenAway, Framed, Marked
  <2>8. Supported' /\ OneStarts' /\ CurrentStarts'
    BY <1>1, <1>2, <1>3, <1>6, <2>1, <2>2 DEF Inv, Late, Supported, OneStarts, CurrentStarts, Framed, Busy, AtWork, InStart
  <2>9. Rooted'
    BY <1>2, <1>4, <1>6, <2>1 DEF Inv, Rooted, Framed, Stopping
  <2>10. RanBefore' /\ Watched'
    BY <1>1, <1>2, <2>1, <2>2 DEF Inv, Late, Watched, Framed, RanBefore, Busy, AtWork, InStart
  <2>11. RunsStarted'
    BY <1>2, <1>6, <2>2, <2>6 DEF Inv, Late, RunsStarted, Framed
  <2>12. Kept'
    BY <1>1, <1>2, <1>6, <2>6 DEF Inv, Late, Kept, Framed, Ready
  <2>13. StoppedBehind'
    BY <1>2, <1>4, <1>6, <2>1, <2>6 DEF Inv, Late, StoppedBehind, Framed
  <2> QED
    BY <1>2, <2>1, <2>4, <2>5, <2>7, <2>8, <2>9, <2>10, <2>11, <2>12, <2>13, LateEnough DEF Late
<1>7. CASE /\ c \notin started /\ tools' = tools \ {c}
           /\ status' = IF status[c] = "blocked" THEN [status EXCEPT ![c] = "loaded"] ELSE status
           /\ main' = [main EXCEPT !.n = @ - 1] /\ UNCHANGED <<started, process>>
  <2>1. main' = [at |-> "stop", n |-> main.n - 1] /\ main'.at \in StopPhase
    BY <1>1, <1>3, <1>7 DEF StopPhase
  <2>2. /\ status' \in [Names -> Statuses]
        /\ \A x \in Names : status'[x] = status[x] \/ (status[x] = "blocked" /\ status'[x] = "loaded")
    BY <1>5, <1>7 DEF Statuses
  <2>3. MainOK'
    BY <1>2, <1>3, <2>1, Placed DEF MainOK, Busy, AtWork, InStart, StopPhase, Framed
  <2>4. Types'
    BY <1>1, <1>2, <1>5, <1>7, <2>2, <2>3, ExitsStay, TypesStay
  <2>5. \A x \in Names : Marked(x)' => Marked(x)
    BY <1>7 DEF Marked
  <2>6. \A x : Leaving(x)' = Leaving(x)
    BY <1>1, <1>2, <1>3, <2>1, LeavingStays
  <2>7. TakenAway'
    <3>1. \A e \in Names : (exits[e].at = "stopping" => AtHand(e) \in Names)
      BY Placed DEF Inv, Types, ExitsOK, AtHand
    <3>2. \A e : Down(e)' = Down(e) /\ AtHand(e)' = AtHand(e)
      BY <1>1, <1>2, ExitsStay
    <3> QED
      BY <1>1, <1>2, <2>1, <2>5, <3>1, <3>2 DEF Inv, Late, TakenAway, Framed, Marked
  <2>8. Supported'
    BY <1>2, <1>3, <2>2, <2>5 DEF Inv, Late, Supported, Framed, Busy
  <2>9. OneStarts' /\ CurrentStarts'
    BY <1>1, <1>2, <1>3, <2>1, <2>2 DEF Inv, Late, OneStarts, CurrentStarts, Framed, Busy, AtWork, InStart
  <2>10. Rooted'
    BY <1>2, <2>1, <2>2 DEF Inv, Rooted, Framed, Stopping
  <2>11. RanBefore' /\ Watched'
    BY <1>1, <1>2, <1>7, <2>1 DEF Inv, Late, Watched, Framed, RanBefore, Busy, AtWork, InStart
  <2>12. RunsStarted'
    BY <1>2, <1>7, <2>2, <2>6 DEF Inv, Late, RunsStarted, Framed
  <2>13. Handled'
    <3> SUFFICES ASSUME NEW e \in Names, Down(e), NEW x \in Dependents(e), x \notin late
                 PROVE  status'[x] # "starting" /\ (Behind(x, e) => status'[x] # "running")
      BY <1>1, <1>2, ExitsStay DEF Handled, Framed
    <3>1. x \in Names
      BY Placed DEF Follows
    <3>2. status[x] # "starting" /\ (Behind(x, e) => status[x] # "running")
      BY <3>1 DEF Inv, Late, Handled
    <3> QED
      BY <2>2, <3>1, <3>2
  <2>14. Kept'
    <3> SUFFICES ASSUME NEW x \in Names, status'[x] = "running", x \notin late, ~Leaving(x), NEW d \in Deps(x)
                 PROVE  status'[d] = "running"
      BY <1>1, <1>2, <2>6 DEF Kept, Framed, Ready
    <3>1. d \in Names /\ status[x] = "running"
      BY <2>2 DEF Inv, Types
    <3>2. status[d] = "running"
      BY <3>1 DEF Inv, Late, Kept, Ready
    <3> QED
      BY <2>2, <3>1, <3>2
  <2>15. StoppedBehind'
    <3> SUFFICES ASSUME NEW i \in Places, i > main.n - 1, status'[order[i]] = "running"
                 PROVE  Leaving(order[i])
      BY <1>2, <2>1, <2>6 DEF StoppedBehind, Framed
    <3>1. order[i] \in Names /\ status[order[i]] = "running"
      BY <2>2, Placed
    <3>2. CASE i > main.n
      BY <1>4, <3>1, <3>2 DEF Inv, Late, StoppedBehind
    <3>3. CASE i = main.n
      BY <1>3, <1>7, <3>1, <3>3 DEF Inv, Late, RunsStarted
    <3> QED
      BY <1>3, <3>2, <3>3, Placed
  <2> QED
    BY <1>2, <2>1, <2>4, <2>7, <2>8, <2>9, <2>10, <2>11, <2>12, <2>13, <2>14, <2>15, LateEnough DEF Late
<1> QED
  BY <1>6, <1>7 DEF StopNext

\* ... and waits until its process has ended.
LEMMA StoppedKeeps ==
    ASSUME Inv, Stopped
    PROVE  Inv'
<1> DEFINE c == Current
<1>1. /\ main.at = "stopping" /\ process' = Ended(c)
      /\ main' = [at |-> "stop", n |-> main.n - 1]
      /\ UNCHANGED <<setup, order, exits, started, tools, late>>
  BY DEF Stopped
<1>2. Framed
  BY <1>1, Frames DEF Inv
<1>3. main.n \in Places /\ main.n \in Nat /\ c \in Names /\ c = order[main.n] /\ main.at \in StopPhase /\ main.at \notin Busy
  BY <1>1, Placed DEF Inv, Types, MainOK, Busy, AtWork, InStart, StopPhase, Current
<1>4. /\ status \in [Names -> Statuses] /\ started \cup tools \cup late \subseteq Names
      /\ process \in [Names -> {"none", "up", "leaving", "gone"}]
  BY DEF Inv, Types
<1>5. /\ status' \in [Names -> Statuses] /\ status'[c] \in {"loaded", "degraded"}
      /\ \A x \in Names : x # c => status'[x] = status[x]
  <2>1. \E s \in {"loaded", "degraded"} : status' = [status EXCEPT ![c] = s]
    BY DEF Stopped
  <2> QED
    BY <1>3, <1>4, <2>1 DEF Statuses
<1>6. /\ process' \in [Names -> {"none", "up", "leaving", "gone"}]
      /\ \A x \in Names : Marked(x)' => Marked(x)
      /\ \A x \in Names : process[x] = "gone" => process'[x] = "gone"
  BY <1>1, <1>4 DEF Ended, Marked
<1>7. MainOK'
  BY <1>1, <1>2, <1>3, Placed DEF MainOK, Busy, AtWork, InStart, StopPhase, Framed
<1>8. Types'
  BY <1>1, <1>2, <1>4, <1>5, <1>6, <1>7, ExitsStay, TypesStay
<1>9. ~Marked(c)
  BY <1>1 DEF Inv, Late, TakenAway
<1>10. \A x : Leaving(x) => Leaving(x)' \/ x = c
  BY <1>1, <1>2, ExitsStay DEF Leaving, Framed
<1>11. main'.at \in StopPhase
  BY <1>1 DEF StopPhase
<1>12. Supported'
  BY <1>2, <1>3, <1>5, <1>6, <1>9 DEF Inv, Late, Supported, Framed, Busy
<1>13. OneStarts' /\ CurrentStarts' /\ RanBefore' /\ Watched'
  BY <1>1, <1>2, <1>5, <1>6 DEF Watched, Inv, Late, OneStarts, CurrentStarts, RanBefore, Framed, Busy, AtWork, InStart
<1>14. Rooted'
  BY <1>1, <1>2, <1>5 DEF Inv, Rooted, Framed, Stopping
<1>15. TakenAway'
  <2>1. \A e \in Names : (exits[e].at = "stopping" => AtHand(e) \in Names)
    BY Placed DEF Inv, Types, ExitsOK, AtHand
  <2>2. \A e : Down(e)' = Down(e) /\ AtHand(e)' = AtHand(e)
    BY <1>1, <1>2, ExitsStay
  <2> QED
    BY <1>1, <1>2, <1>6, <2>1, <2>2 DEF Inv, Late, TakenAway, Framed, Marked
<1>16. RunsStarted'
  BY <1>1, <1>2, <1>5, <1>10 DEF Inv, Late, RunsStarted, Framed
<1>17. Handled'
  <2> SUFFICES ASSUME NEW e \in Names, Down(e), NEW x \in Dependents(e), x \notin late
               PROVE  status'[x] # "starting" /\ (Behind(x, e) => status'[x] # "running")
    BY <1>1, <1>2, ExitsStay DEF Handled, Framed
  <2>1. x \in Names
    BY Placed DEF Follows
  <2>2. status[x] # "starting" /\ (Behind(x, e) => status[x] # "running")
    BY <2>1 DEF Inv, Late, Handled
  <2> QED
    BY <1>5, <2>1, <2>2
<1>18. Kept'
  <2> SUFFICES ASSUME NEW x \in Names, status'[x] = "running", x \notin late, ~Leaving(x)', NEW d \in Deps(x)
               PROVE  status'[d] = "running"
    BY <1>1, <1>2 DEF Kept, Framed, Ready
  <2>1. d \in Names /\ status[x] = "running" /\ x # c /\ ~Leaving(x)
    BY <1>5, <1>10 DEF Inv, Types
  <2>2. status[d] = "running"
    BY <2>1 DEF Inv, Late, Kept, Ready
  <2>3. d # c
    <3> SUFFICES ASSUME d = c PROVE FALSE
      OBVIOUS
    <3>1. PICK i, j \in Places : i < j /\ order[i] = c /\ order[j] = x
      BY <2>1 DEF Inv, Rooted, Before
    <3>2. i = main.n
      BY <1>3, <3>1 DEF Inv, Apart
    <3> QED
      BY <1>3, <2>1, <3>1, <3>2 DEF Inv, Late, StoppedBehind
  <2> QED
    BY <1>5, <2>1, <2>2, <2>3
<1>19. StoppedBehind'
  <2> SUFFICES ASSUME NEW i \in Places, i > main.n - 1, status'[order[i]] = "running"
               PROVE  Leaving(order[i])'
    BY <1>1, <1>2 DEF StoppedBehind, Framed
  <2>1. order[i] \in Names /\ order[i] # c
    BY <1>5, Placed
  <2>2. i > main.n /\ status[order[i]] = "running"
    BY <1>3, <1>5, <2>1, Placed
  <2>3. Leaving(order[i])
    BY <1>3, <2>2 DEF Inv, Late, StoppedBehind
  <2> QED
    BY <1>2, <1>10, <2>1, <2>3 DEF Framed
<1> QED
  BY <1>1, <1>2, <1>8, <1>12, <1>13, <1>14, <1>15, <1>16, <1>17, <1>18, <1>19, LateEnough DEF Late

-----------------------------------------------------------------------------
(* Exits of processes *)

\* While main stands still, what has passed and what it works on stay.
LEMMA MainStays ==
    ASSUME Inv, Framed, main' = main
    PROVE  MainOK' /\ Passed' = Passed /\ Current' = Current /\ Stopping' = Stopping
<1>1. Passed' = Passed /\ Current' = Current /\ Stopping' = Stopping
  BY DEF Framed, Passed, Current, Stopping
<1>2. MainOK'
  <2>1. MainOK
    BY DEF Inv, Types
  <2>2. Places' = Places /\ order' = order /\ Names' = Names
    BY DEF Framed
  <2>3. Calls' = Calls
    BY <2>2 DEF Calls
  <2> QED
    BY <2>1, <2>2, <2>3 DEF MainOK
<1> QED
  BY <1>1, <1>2

\* Where a process has been, the start has begun.
LEMMA NotEarly ==
    ASSUME Inv, NEW e \in Names, exits[e].at # "none" \/ process[e] # "none"
    PROVE  main.at \notin {"resolve", "register"}
BY DEF Inv, Resolving, Registering, Idle

\* A handler at work is one that ExitsOK knows, and so is the place it is at.
LEMMA HandlersAre ==
    ASSUME Inv, NEW e \in Names
    PROVE  /\ exits[e] = [at |-> exits[e].at, n |-> exits[e].n]
           /\ exits[e].at \in {"none", "waiting", "blocking", "stopping", "degrading"}
           /\ exits[e].n \in 0 .. Len(order) /\ exits[e].n \in Nat /\ Len(order) \in Nat
           /\ exits[e].n > 0 => exits[e].n \in Places /\ AtHand(e) \in Names
           /\ exits[e].at = "stopping" => exits[e].n > 0 /\ AtHand(e) \in Dependents(e)
           /\ Down(e) <=> exits[e].at \in {"blocking", "stopping", "degrading"}
<1>1. exits \in [Names -> [at : {"none", "waiting", "blocking", "stopping", "degrading"}, n : 0 .. Len(order)]]
      /\ (exits[e].at = "stopping" => exits[e].n \in Places /\ AtHand(e) \in Dependents(e))
  BY DEF Inv, Types, ExitsOK
<1>2. exits[e] \in [at : {"none", "waiting", "blocking", "stopping", "degrading"}, n : 0 .. Len(order)]
  BY <1>1
<1>3. exits[e].n \in 0 .. Len(order) /\ Len(order) \in Nat /\ exits[e].n \in Nat
  BY <1>2, Placed
<1>4. exits[e].n > 0 => exits[e].n \in Places /\ AtHand(e) \in Names
  BY <1>3, Placed DEF AtHand
<1>5. exits[e].at = "stopping" => exits[e].n > 0
  BY <1>1, Placed
<1> QED
  BY <1>1, <1>2, <1>3, <1>4, <1>5 DEF Down

\* As long as the handlers that are at work stay where they are.
LEMMA HandlersStay ==
    ASSUME Inv, Framed, main' = main,
           \A e \in Names : (Down(e)' <=> Down(e)) /\ (Down(e) => exits'[e] = exits[e])
    PROVE  /\ \A x \in Names : Leaving(x)' <=> Leaving(x)
           /\ \A e \in Names : (exits'[e].at = "stopping" <=> exits[e].at = "stopping")
                               /\ (exits[e].at = "stopping" => AtHand(e)' = AtHand(e))
                               /\ (exits'[e].at = "degrading" <=> exits[e].at = "degrading")
           /\ \A e \in Names : Down(e) => \A x : Behind(x, e)' <=> Behind(x, e)
<1>1. \A e \in Names : /\ Down(e) <=> exits[e].at \notin {"none", "waiting"}
                       /\ Down(e)' <=> exits'[e].at \notin {"none", "waiting"}
  BY DEF Down
<1>2. ASSUME NEW e \in Names
      PROVE  /\ exits'[e].at = "stopping" <=> exits[e].at = "stopping"
             /\ exits[e].at = "stopping" => AtHand(e)' = AtHand(e)
             /\ exits'[e].at = "degrading" <=> exits[e].at = "degrading"
  BY <1>1 DEF AtHand, Framed
<1>3. ASSUME NEW e \in Names, Down(e), NEW x PROVE Behind(x, e)' <=> Behind(x, e)
  <2>1. exits'[e] = exits[e]
    BY <1>3
  <2> QED
    BY <2>1 DEF Behind, Framed
<1>4. Current' = Current
  BY MainStays
<1>5. ASSUME NEW x \in Names PROVE Leaving(x)' <=> Leaving(x)
  <2>1. Names' = Names
    BY DEF Framed
  <2> QED
    BY <1>2, <1>4, <2>1 DEF Leaving
<1> QED
  BY <1>2, <1>3, <1>5

\* A process exits.
LEMMA ProcessExitsKeeps ==
    ASSUME Inv, NEW e \in Names, ProcessExits(e)
    PROVE  Inv'
<1>1. /\ process[e] \in {"up", "leaving"} /\ process' = [process EXCEPT ![e] = "gone"]
      /\ exits' = IF process[e] = "up" THEN [exits EXCEPT ![e].at = "waiting"] ELSE exits
      /\ UNCHANGED <<setup, order, status, main, started, tools, late>>
  BY DEF ProcessExits
<1>2. Framed
  BY <1>1, Frames DEF Inv
<1>3. /\ status \in [Names -> Statuses] /\ started \cup tools \cup late \subseteq Names
      /\ process \in [Names -> {"none", "up", "leaving", "gone"}]
      /\ exits \in [Names -> [at : {"none", "waiting", "blocking", "stopping", "degrading"}, n : 0 .. Len(order)]]
  BY DEF Inv, Types, ExitsOK
<1>4. /\ process' \in [Names -> {"none", "up", "leaving", "gone"}]
      /\ \A x \in Names : process'[x] = IF x = e THEN "gone" ELSE process[x]
  BY <1>1, <1>3
<1>5. \A x \in Names : Marked(x)' => Marked(x)
  BY <1>1, <1>4 DEF Marked
<1>6. main.at \notin {"resolve", "register"}
  BY <1>1, NotEarly
<1>7. exits[e].at = "none"
  BY <1>1 DEF Inv, Late, Watched
<1>8. \A x \in Names : exits'[x] = IF x = e /\ process[e] = "up" THEN [at |-> "waiting", n |-> exits[e].n] ELSE exits[x]
  BY <1>1, <1>3
<1>9. \A x \in Names : (Down(x)' <=> Down(x)) /\ (Down(x) => exits'[x] = exits[x])
  BY <1>7, <1>8 DEF Down
<1>10. /\ \A x \in Names : Leaving(x)' <=> Leaving(x)
       /\ \A x \in Names : (exits'[x].at = "stopping" <=> exits[x].at = "stopping")
                           /\ (exits[x].at = "stopping" => AtHand(x)' = AtHand(x))
                           /\ (exits'[x].at = "degrading" <=> exits[x].at = "degrading")
       /\ \A x \in Names : Down(x) => \A y : Behind(y, x)' <=> Behind(y, x)
  BY <1>1, <1>2, <1>9, HandlersStay
<1>11. MainOK' /\ Passed' = Passed /\ Current' = Current /\ Stopping' = Stopping
  BY <1>1, <1>2, MainStays
<1>12. ExitsOK'
  <2>1. exits' \in [Names -> [at : {"none", "waiting", "blocking", "stopping", "degrading"}, n : 0 .. Len(order)]]
    BY <1>1, <1>3
  <2>2. \A x \in Names : exits'[x].at = "stopping" => exits'[x].n \in Places /\ AtHand(x)' \in Dependents(x)
    BY <1>7, <1>8, <1>10 DEF Inv, Types, ExitsOK
  <2> QED
    BY <1>2, <2>1, <2>2 DEF ExitsOK, Framed
<1>13. Types'
  BY <1>1, <1>2, <1>3, <1>4, <1>11, <1>12, TypesStay
<1>14. Supported' /\ OneStarts' /\ CurrentStarts' /\ Rooted'
  BY <1>1, <1>2, <1>5, <1>11 DEF Inv, Late, Supported, OneStarts, CurrentStarts, Rooted, Framed
<1>15. Watched'
  BY <1>1, <1>2, <1>4, <1>7, <1>8, <1>11 DEF Inv, Late, Watched, Framed
<1>16. RanBefore'
  BY <1>1, <1>2, <1>9, <1>10, <1>11 DEF Inv, Late, RanBefore, Framed
<1>17. TakenAway'
  <2>1. \A x \in Names : exits[x].at = "stopping" => AtHand(x) \in Names
    BY HandlersAre
  <2>2. main.at = "stopping" => Current \in Names
    BY Placed DEF Inv, Types, MainOK
  <2> QED
    BY <1>1, <1>2, <1>5, <1>10, <1>11, <2>1, <2>2 DEF Inv, Late, TakenAway, Framed, Marked
<1>18. RunsStarted' /\ Kept'
  BY <1>1, <1>2, <1>10 DEF Inv, Late, RunsStarted, Kept, Framed, Ready
<1>19. Handled'
  BY <1>1, <1>2, <1>9, <1>10 DEF Inv, Late, Handled, Framed
<1>20. StoppedBehind'
  BY <1>1, <1>2, <1>10, Placed DEF Inv, Late, StoppedBehind, Framed
<1> QED
  BY <1>1, <1>2, <1>6, <1>13, <1>14, <1>15, <1>16, <1>17, <1>18, <1>19, <1>20, LateEnough DEF Late

\* The handler begins its work: who needs the extension and is starting is
\* blocked at once.
LEMMA ExitHandledKeeps ==
    ASSUME Inv, NEW e \in Names, ExitHandled(e)
    PROVE  Inv'
<1>1. /\ exits[e].at = "waiting" /\ ~IsStarting(e)
      /\ UNCHANGED <<setup, order, main, started, tools, process, late, faults>>
  BY DEF ExitHandled
<1>2. Framed
  BY <1>1, Frames DEF Inv
<1>3. /\ status \in [Names -> Statuses] /\ started \cup tools \cup late \subseteq Names
      /\ process \in [Names -> {"none", "up", "leaving", "gone"}]
      /\ exits \in [Names -> [at : {"none", "waiting", "blocking", "stopping", "degrading"}, n : 0 .. Len(order)]]
  BY DEF Inv, Types, ExitsOK
<1>4. \A x : Marked(x)' <=> Marked(x)
  BY <1>1 DEF Marked
<1>5. main.at \notin {"resolve", "register"}
  BY <1>1, NotEarly
<1>6. MainOK' /\ Passed' = Passed /\ Current' = Current /\ Stopping' = Stopping
  BY <1>1, <1>2, MainStays
<1>7. process[e] = "gone" /\ ~Down(e)
  BY <1>1 DEF Inv, Late, Watched, Down
<1>8. \A x \in Names : exits[x].at = "stopping" => AtHand(x) \in Names
  BY HandlersAre
<1>9. main.at = "stopping" => Current \in Names
  BY Placed DEF Inv, Types, MainOK
<1>10. CASE exits' = [exits EXCEPT ![e] = NoExit] /\ status' = status
  <2>1. /\ exits' \in [Names -> [at : {"none", "waiting", "blocking", "stopping", "degrading"}, n : 0 .. Len(order)]]
        /\ \A x \in Names : exits'[x] = IF x = e THEN NoExit ELSE exits[x]
    BY <1>3, <1>10, Placed DEF NoExit
  <2>2. \A x \in Names : (Down(x)' <=> Down(x)) /\ (Down(x) => exits'[x] = exits[x])
    BY <1>7, <2>1 DEF Down, NoExit
  <2>3. /\ \A x \in Names : Leaving(x)' <=> Leaving(x)
        /\ \A x \in Names : (exits'[x].at = "stopping" <=> exits[x].at = "stopping")
                            /\ (exits[x].at = "stopping" => AtHand(x)' = AtHand(x))
                            /\ (exits'[x].at = "degrading" <=> exits[x].at = "degrading")
        /\ \A x \in Names : Down(x) => \A y : Behind(y, x)' <=> Behind(y, x)
    BY <1>1, <1>2, <2>2, HandlersStay
  <2>4. ExitsOK'
    <3>1. \A x \in Names : exits'[x].at = "stopping" => exits'[x].n \in Places /\ AtHand(x)' \in Dependents(x)
      BY <2>1, <2>3 DEF Inv, Types, ExitsOK, NoExit
    <3> QED
      BY <1>2, <2>1, <3>1 DEF ExitsOK, Framed
  <2>5. Types'
    BY <1>1, <1>2, <1>3, <1>6, <1>10, <2>4, TypesStay
  <2>6. Supported' /\ OneStarts' /\ CurrentStarts' /\ Rooted'
    BY <1>1, <1>2, <1>4, <1>6, <1>10 DEF Inv, Late, Supported, OneStarts, CurrentStarts, Rooted, Framed
  <2>7. Watched'
    BY <1>1, <1>2, <1>6, <2>1 DEF Inv, Late, Watched, Framed, NoExit
  <2>8. RanBefore'
    BY <1>1, <1>2, <1>6, <1>10, <2>2, <2>3 DEF Inv, Late, RanBefore, Framed
  <2>9. TakenAway'
    BY <1>1, <1>2, <1>4, <1>6, <1>8, <1>9, <2>3 DEF Inv, Late, TakenAway, Framed, Marked
  <2>10. RunsStarted' /\ Kept'
    BY <1>1, <1>2, <1>10, <2>3 DEF Inv, Late, RunsStarted, Kept, Framed, Ready
  <2>11. Handled'
    BY <1>1, <1>2, <1>10, <2>2, <2>3 DEF Inv, Late, Handled, Framed
  <2>12. StoppedBehind'
    BY <1>1, <1>2, <1>10, <2>3, Placed DEF Inv, Late, StoppedBehind, Framed
  <2> QED
    BY <1>1, <1>2, <1>5, <2>5, <2>6, <2>7, <2>8, <2>9, <2>10, <2>11, <2>12, LateEnough DEF Late
<1>11. CASE /\ status[e] = "running" /\ ~Stopping
            /\ status' = [d \in Names |-> IF d \in Dependents(e) /\ IsStarting(d) THEN "blocked" ELSE status[d]]
            /\ exits' = [exits EXCEPT ![e] = [at |-> "blocking", n |-> Len(order)]]
  <2>1. /\ exits' \in [Names -> [at : {"none", "waiting", "blocking", "stopping", "degrading"}, n : 0 .. Len(order)]]
        /\ \A x \in Names : exits'[x] = IF x = e THEN [at |-> "blocking", n |-> Len(order)] ELSE exits[x]
    BY <1>3, <1>11, Placed
  <2>2. /\ status' \in [Names -> Statuses]
        /\ \A x \in Names : \/ status'[x] = status[x] /\ ~(x \in Dependents(e) /\ status[x] = "starting")
                            \/ status[x] = "starting" /\ status'[x] = "blocked"
    BY <1>3, <1>11 DEF Statuses, IsStarting
  <2>3. /\ \A x \in Names : Down(x)' <=> Down(x) \/ x = e
        /\ \A x \in Names : (exits'[x].at = "stopping" <=> exits[x].at = "stopping")
                            /\ (exits'[x].at = "degrading" <=> exits[x].at = "degrading")
        /\ \A x \in Names : exits[x].at = "stopping" => AtHand(x)' = AtHand(x)
    BY <1>1, <1>2, <2>1 DEF Down, AtHand, Framed
  <2>4. \A x \in Names : Leaving(x) => Leaving(x)'
    BY <1>1, <1>2, <1>6, <2>3 DEF Leaving, Framed
  <2>5. \A x \in Names : x # e => \A y : Behind(y, x)' <=> Behind(y, x)
    <3> SUFFICES ASSUME NEW x \in Names, x # e, NEW y PROVE Behind(y, x)' <=> Behind(y, x)
      OBVIOUS
    <3>1. exits'[x] = exits[x]
      BY <2>1
    <3> QED
      BY <1>2, <3>1 DEF Behind, Framed
  <2>6. \A y : ~Behind(y, e)'
    BY <1>2, <2>1, Placed DEF Behind, Framed
  <2>7. ExitsOK'
    <3>1. \A x \in Names : exits'[x].at = "stopping" => exits'[x].n \in Places /\ AtHand(x)' \in Dependents(x)
      BY <2>1, <2>3 DEF Inv, Types, ExitsOK
    <3> QED
      BY <1>2, <2>1, <3>1 DEF ExitsOK, Framed
  <2>8. Types'
    BY <1>1, <1>2, <1>3, <1>6, <2>2, <2>7, TypesStay
  <2>9. Supported' /\ OneStarts'
    BY <1>1, <1>2, <1>4, <1>6, <2>2 DEF Inv, Late, Supported, OneStarts, Framed
  <2>10. CurrentStarts'
    <3>1. main.at \in Busy => Current \in Names
      BY Placed DEF Inv, Types, MainOK
    <3> QED
      <4>1. main.at \in {"blocked", "cleaning"} => main.at \in Busy
        BY DEF Busy, AtWork
      <4>2. CurrentStarts
        BY DEF Inv, Late
      <4> QED
        BY <1>1, <1>6, <2>2, <3>1, <4>1, <4>2 DEF CurrentStarts
  <2>11. Rooted'
    BY <1>2, <1>6, <2>2 DEF Inv, Rooted, Framed
  <2>12. Watched'
    BY <1>1, <1>2, <1>6, <1>7, <2>1 DEF Inv, Late, Watched, Framed
  <2>13. RanBefore'
    BY <1>1, <1>2, <1>6, <1>11, <2>2, <2>3 DEF Inv, Late, RanBefore, Framed
  <2>14. TakenAway'
    BY <1>1, <1>2, <1>4, <1>6, <1>8, <1>9, <2>3 DEF Inv, Late, TakenAway, Framed, Marked
  <2>15. RunsStarted'
    BY <1>1, <1>2, <2>2, <2>4 DEF Inv, Late, RunsStarted, Framed
  <2>16. Handled'
    <3> SUFFICES ASSUME NEW x \in Names, Down(x)', NEW y \in Dependents(x), y \notin late
                 PROVE  status'[y] # "starting" /\ (Behind(y, x)' => status'[y] # "running")
      BY <1>1, <1>2 DEF Handled, Framed
    <3>1. y \in Names
      BY Placed DEF Follows
    <3>2. CASE x = e
      BY <2>2, <2>6, <3>1, <3>2
    <3>3. CASE x # e
      <4>1. status[y] # "starting" /\ (Behind(y, x) => status[y] # "running")
        BY <2>3, <3>3 DEF Inv, Late, Handled
      <4> QED
        BY <2>2, <2>5, <3>1, <3>3, <4>1
    <3> QED
      BY <3>2, <3>3
  <2>17. Kept'
    <3> SUFFICES ASSUME NEW x \in Names, status'[x] = "running", x \notin late, ~Leaving(x)', NEW d \in Deps(x)
                 PROVE  status'[d] = "running"
      BY <1>1, <1>2 DEF Kept, Framed, Ready
    <3>1. d \in Names /\ status[x] = "running" /\ ~Leaving(x)
      BY <2>2, <2>4 DEF Inv, Types
    <3>2. status[d] = "running"
      BY <3>1 DEF Inv, Late, Kept, Ready
    <3> QED
      BY <2>2, <3>1, <3>2
  <2>18. StoppedBehind'
    BY <1>1, <1>11 DEF StoppedBehind, Stopping, StopPhase
  <2> QED
    BY <1>1, <1>2, <1>5, <2>8, <2>9, <2>10, <2>11, <2>12, <2>13, <2>14, <2>15, <2>16, <2>17, <2>18, LateEnough DEF Late
<1> QED
  BY <1>10, <1>11 DEF ExitHandled

\* What every action of a handler leaves alone.
Elsewhere ==
    /\ Framed /\ main' = main /\ late' = late
    /\ MainOK' /\ Passed' = Passed /\ Current' = Current /\ Stopping' = Stopping
    /\ main.at \notin {"resolve", "register"}

\* Then the frame stays, and where the host is.
LEMMA HandlersWork ==
    ASSUME Inv, NEW e \in Names, Down(e), UNCHANGED <<setup, order, main, late>>
    PROVE  Elsewhere
<1>1. Framed
  BY Frames DEF Inv
<1>2. exits[e].at # "none"
  BY DEF Down
<1> QED
  BY <1>1, <1>2, MainStays, NotEarly DEF Elsewhere

\* A handler takes an extension back that has run: the one at hand, or its own.
LEMMA WithdrawnKeeps ==
    ASSUME Inv, Elsewhere, NEW e \in Names, Down(e), NEW d \in Names, Withdrawn(d), status' = status,
           d = e \/ (d = AtHand(e) /\ status[d] = "running" /\ d \in Dependents(e)),
           exits' = [exits EXCEPT ![e].at = IF d = e THEN "degrading" ELSE "stopping"],
           exits[e].at = "blocking",
           d # e => exits[e].n > 0,
           d = e => exits[e].n = 0
    PROVE  Inv'
<1>1. /\ status \in [Names -> Statuses] /\ started \cup tools \cup late \subseteq Names
      /\ process \in [Names -> {"none", "up", "leaving", "gone"}]
      /\ exits \in [Names -> [at : {"none", "waiting", "blocking", "stopping", "degrading"}, n : 0 .. Len(order)]]
  BY DEF Inv, Types, ExitsOK
<1> DEFINE at == IF d = e THEN "degrading" ELSE "stopping"
<1>2. /\ exits' \in [Names -> [at : {"none", "waiting", "blocking", "stopping", "degrading"}, n : 0 .. Len(order)]]
      /\ \A x \in Names : exits'[x] = IF x = e THEN [at |-> at, n |-> exits[e].n] ELSE exits[x]
  BY <1>1
<1>3. /\ process' \in [Names -> {"none", "up", "leaving", "gone"}]
      /\ \A x \in Names : Marked(x)' => Marked(x) /\ x # d
      /\ \A x \in Names : Marked(x) /\ x # d => Marked(x)'
      /\ started' = started \ {d} /\ tools' = tools \ {d}
      /\ \A x \in Names : (process[x] = "none" => process'[x] = "none") /\ (process[x] = "gone" => process'[x] = "gone")
  BY WithdrawnIs
<1>4. Framed /\ main' = main /\ late' = late
      /\ MainOK' /\ Passed' = Passed /\ Current' = Current /\ Stopping' = Stopping
      /\ main.at \notin {"resolve", "register"}
  BY DEF Elsewhere
<1>5. \A x \in Names : Down(x)' <=> Down(x)
  BY <1>2 DEF Down
<1>6. \A x \in Names : AtHand(x)' = AtHand(x)
  BY <1>2, <1>4 DEF AtHand, Framed
<1>7. \A x \in Names : Leaving(x)' <=> Leaving(x) \/ x = d
  <2>1. \A x \in Names : (exits'[x].at = "stopping") <=> (exits[x].at = "stopping" \/ (x = e /\ d # e))
    BY <1>2
  <2>2. d = e => Leaving(d)
    BY DEF Leaving
  <2> QED
    BY <1>4, <1>5, <1>6, <2>1, <2>2 DEF Leaving, Framed
<1>8. ExitsOK'
  <2>1. \A x \in Names : exits'[x].at = "stopping" => exits'[x].n \in Places /\ AtHand(x)' \in Dependents(x)
    BY <1>2, <1>6, HandlersAre DEF Inv, Types, ExitsOK
  <2> QED
    BY <1>2, <1>4, <2>1 DEF ExitsOK, Framed
<1>9. Types'
  BY <1>1, <1>3, <1>4, <1>8, TypesStay
<1>10. Supported' /\ OneStarts' /\ Rooted'
  BY <1>3, <1>4 DEF Inv, Late, Supported, OneStarts, Rooted, Framed
<1>11. main.at \in Busy \cup {"next"} => d \in Passed
  BY DEF Inv, Late, RanBefore
<1>12. CurrentStarts'
  <2>1. main.at \in Busy => d # Current
    BY <1>11, Placed DEF Inv, Types, MainOK
  <2>2. main.at \in {"starting", "health", "tools"} => main.at \in Busy
    BY DEF Busy, AtWork, InStart
  <2> QED
    BY <1>3, <1>4, <2>1, <2>2 DEF Inv, Late, CurrentStarts
<1>13. Watched'
  BY <1>2, <1>3, <1>4 DEF Inv, Late, Watched, Framed
<1>14. RanBefore'
  <2> SUFFICES ASSUME main.at \in Busy \cup {"next"}, NEW x \in Names
               PROVE  /\ status[x] = "running" \/ Down(x) => x \in Passed
                      /\ exits'[x].at = "stopping" => AtHand(x) \in Passed
    BY <1>4, <1>5, <1>6 DEF RanBefore, Framed
  <2>1. /\ status[x] = "running" \/ Down(x) => x \in Passed
        /\ exits[x].at = "stopping" => AtHand(x) \in Passed
    BY DEF Inv, Late, RanBefore
  <2> QED
    BY <1>2, <1>11, <2>1
<1>15. TakenAway'
  <2> SUFFICES ASSUME NEW x \in Names
               PROVE  /\ exits'[x].at = "stopping" => ~Marked(AtHand(x))'
                      /\ exits'[x].at = "degrading" => ~Marked(x)'
                      /\ main.at = "stopping" => ~Marked(Current)'
    BY <1>4 DEF TakenAway, Framed, Marked
  <2>1. exits[x].at = "stopping" => AtHand(x) \in Names /\ ~Marked(AtHand(x))
    BY HandlersAre DEF Inv, Late, TakenAway
  <2>2. exits[x].at = "degrading" => ~Marked(x)
    BY DEF Inv, Late, TakenAway
  <2>3. main.at = "stopping" => Current \in Names /\ ~Marked(Current)
    BY Placed DEF Inv, Late, TakenAway, Types, MainOK
  <2>4. CASE x = e
    BY <1>2, <1>3, <1>4, <1>6, <2>3, <2>4
  <2>5. CASE x # e
    BY <1>2, <1>3, <1>4, <1>6, <2>1, <2>2, <2>3, <2>5
  <2> QED
    BY <2>4, <2>5
<1>16. RunsStarted'
  BY <1>3, <1>4, <1>7 DEF Inv, Late, RunsStarted, Framed
<1>17. Kept'
  BY <1>4, <1>7 DEF Inv, Late, Kept, Framed, Ready
<1>18. Handled'
  <2> SUFFICES ASSUME NEW x \in Names, Down(x), NEW y \in Dependents(x), y \notin late
               PROVE  status[y] # "starting" /\ (Behind(y, x)' => status[y] # "running")
    BY <1>4, <1>5 DEF Handled, Framed
  <2>1. status[y] # "starting" /\ (Behind(y, x) => status[y] # "running")
    BY DEF Inv, Late, Handled
  <2>2. PICK i \in Places : y = order[i]
    BY Placed DEF Follows
  <2>3. Behind(y, x)' => Behind(y, x)
    <3>1. CASE x # e
      BY <1>2, <1>4, <3>1 DEF Behind, Framed
    <3>2. CASE x = e /\ d # e
      BY <1>2, <1>4, <3>2 DEF Behind, Framed
    <3>3. CASE x = e /\ d = e
      BY <2>2, <3>3, Placed DEF Behind
    <3> QED
      BY <3>1, <3>2, <3>3
  <2> QED
    BY <2>1, <2>3
<1>19. StoppedBehind'
  BY <1>4, <1>7, Placed DEF Inv, Late, StoppedBehind, Framed
<1> QED
  BY <1>4, <1>9, <1>10, <1>12, <1>13, <1>14, <1>15, <1>16, <1>17, <1>18, <1>19, LateEnough DEF Late

\* The handler passes an extension over, or begins to stop it.
LEMMA BlockNextKeeps ==
    ASSUME Inv, NEW e \in Names, BlockNext(e)
    PROVE  Inv'
<1>1. /\ exits[e].at = "blocking" /\ exits[e].n > 0 /\ Down(e)
      /\ UNCHANGED <<setup, order, status, main, late, faults>>
  BY DEF BlockNext, Down
<1>2. Elsewhere
  BY <1>1, HandlersWork
<1>3. AtHand(e) \in Names /\ exits[e].n \in Places /\ exits[e].n \in Nat
  BY <1>1, HandlersAre
<1>4. CASE /\ AtHand(e) \in Dependents(e) /\ status[AtHand(e)] = "running"
           /\ Withdrawn(AtHand(e)) /\ exits' = [exits EXCEPT ![e].at = "stopping"]
  <2>1. AtHand(e) # e
    BY <1>4, Placed DEF Follows
  <2> QED
    BY <1>1, <1>2, <1>3, <1>4, <2>1, WithdrawnKeeps
<1>5. CASE /\ ~(AtHand(e) \in Dependents(e) /\ status[AtHand(e)] = "running")
           /\ exits' = [exits EXCEPT ![e].n = @ - 1]
           /\ UNCHANGED <<started, tools, process>>
  <2>1. /\ status \in [Names -> Statuses] /\ started \cup tools \cup late \subseteq Names
        /\ process \in [Names -> {"none", "up", "leaving", "gone"}]
        /\ exits \in [Names -> [at : {"none", "waiting", "blocking", "stopping", "degrading"}, n : 0 .. Len(order)]]
    BY DEF Inv, Types, ExitsOK
  <2>2. /\ exits' \in [Names -> [at : {"none", "waiting", "blocking", "stopping", "degrading"}, n : 0 .. Len(order)]]
        /\ \A x \in Names : exits'[x] = IF x = e THEN [at |-> "blocking", n |-> exits[e].n - 1] ELSE exits[x]
    <3>1. exits[e].n - 1 \in 0 .. Len(order)
      <4>1. exits[e].n \in 0 .. Len(order) /\ Len(order) \in Nat
        BY HandlersAre
      <4> QED
        BY <1>1, <4>1
    <3> QED
      BY <1>1, <1>5, <2>1, <3>1
  <2>3. Framed /\ main' = main /\ late' = late
        /\ MainOK' /\ Passed' = Passed /\ Current' = Current /\ Stopping' = Stopping
        /\ main.at \notin {"resolve", "register"}
    BY <1>2 DEF Elsewhere
  <2>4. \A x : Marked(x)' <=> Marked(x)
    BY <1>5 DEF Marked
  <2>5. /\ \A x \in Names : Down(x)' <=> Down(x)
        /\ \A x \in Names : exits'[x].at = exits[x].at
        /\ \A x \in Names : exits[x].at = "stopping" => AtHand(x)' = AtHand(x)
    BY <1>1, <2>2, <2>3 DEF Down, AtHand, Framed
  <2>6. \A x \in Names : Leaving(x)' <=> Leaving(x)
    BY <2>3, <2>5 DEF Leaving, Framed
  <2>7. ExitsOK'
    <3>1. \A x \in Names : exits'[x].at = "stopping" => exits'[x].n \in Places /\ AtHand(x)' \in Dependents(x)
      BY <1>1, <2>2, <2>5 DEF Inv, Types, ExitsOK
    <3> QED
      BY <2>2, <2>3, <3>1 DEF ExitsOK, Framed
  <2>8. Types'
    BY <1>1, <1>5, <2>1, <2>3, <2>7, TypesStay
  <2>9. Supported' /\ OneStarts' /\ CurrentStarts' /\ Rooted'
    BY <1>1, <1>5, <2>3, <2>4 DEF Inv, Late, Supported, OneStarts, CurrentStarts, Rooted, Framed
  <2>10. Watched' /\ RanBefore'
    BY <1>1, <1>5, <2>3, <2>5 DEF Inv, Late, Watched, RanBefore, Framed
  <2>11. TakenAway'
    BY <2>3, <2>4, <2>5 DEF Inv, Late, TakenAway, Framed, Marked
  <2>12. RunsStarted' /\ Kept'
    BY <1>1, <1>5, <2>3, <2>6 DEF Inv, Late, RunsStarted, Kept, Framed, Ready
  <2>13. Handled'
    <3> SUFFICES ASSUME NEW x \in Names, Down(x), NEW y \in Dependents(x), y \notin late
                 PROVE  status[y] # "starting" /\ (Behind(y, x)' => status[y] # "running")
      BY <1>1, <2>3, <2>5 DEF Handled, Framed
    <3>1. status[y] # "starting" /\ (Behind(y, x) => status[y] # "running")
      BY DEF Inv, Late, Handled
    <3>2. CASE x # e
      BY <2>2, <2>3, <3>1, <3>2 DEF Behind, Framed
    <3>3. CASE x = e
      <4>1. Behind(y, e)' => Behind(y, e) \/ y = AtHand(e)
        BY <1>3, <2>2, <2>3, Placed DEF Behind, Framed, AtHand
      <4> QED
        BY <1>5, <3>1, <3>3, <4>1
    <3> QED
      BY <3>2, <3>3
  <2>14. StoppedBehind'
    BY <1>1, <2>3, <2>6, Placed DEF Inv, Late, StoppedBehind, Framed
  <2> QED
    BY <2>3, <2>8, <2>9, <2>10, <2>11, <2>12, <2>13, <2>14, LateEnough DEF Late
<1> QED
  BY <1>4, <1>5 DEF BlockNext

\* What a handler has stopped, the one at hand or its own, runs no longer, and
\* what needs it had been stopped before.
LEMMA EndedKeeps ==
    ASSUME Inv, NEW e \in Names, Down(e), NEW d \in Names, NEW s \in {"blocked", "degraded"},
           UNCHANGED <<setup, order, main, started, tools, late>>,
           process' = Ended(d), status' = [status EXCEPT ![d] = s],
           \/ /\ exits[e].at = "stopping" /\ d = AtHand(e)
              /\ exits' = [exits EXCEPT ![e] = [at |-> "blocking", n |-> @.n - 1]]
           \/ /\ exits[e].at = "degrading" /\ d = e
              /\ exits' = [exits EXCEPT ![e] = NoExit]
    PROVE  Inv'
<1>1. /\ status \in [Names -> Statuses] /\ started \cup tools \cup late \subseteq Names
      /\ process \in [Names -> {"none", "up", "leaving", "gone"}]
      /\ exits \in [Names -> [at : {"none", "waiting", "blocking", "stopping", "degrading"}, n : 0 .. Len(order)]]
  BY DEF Inv, Types, ExitsOK
<1>2. Framed /\ main' = main /\ late' = late
      /\ MainOK' /\ Passed' = Passed /\ Current' = Current /\ Stopping' = Stopping
      /\ main.at \notin {"resolve", "register"}
  BY HandlersWork DEF Elsewhere
<1>3. /\ exits' \in [Names -> [at : {"none", "waiting", "blocking", "stopping", "degrading"}, n : 0 .. Len(order)]]
      /\ \A x \in Names : x # e => exits'[x] = exits[x]
      /\ \/ exits[e].at = "stopping" /\ d = AtHand(e) /\ exits'[e] = [at |-> "blocking", n |-> exits[e].n - 1]
         \/ exits[e].at = "degrading" /\ d = e /\ exits'[e] = NoExit
  <2>1. exits[e].at = "stopping" => exits[e].n > 0
    BY HandlersAre
  <2>2. exits[e].n \in 0 .. Len(order) /\ Len(order) \in Nat /\ exits[e].n \in Nat
    BY HandlersAre
  <2>3. exits[e].at = "stopping" => exits[e].n - 1 \in 0 .. Len(order)
    BY <2>1, <2>2
  <2>4. CASE /\ exits[e].at = "stopping" /\ d = AtHand(e)
             /\ exits' = [exits EXCEPT ![e] = [at |-> "blocking", n |-> @.n - 1]]
    BY <1>1, <2>3, <2>4
  <2>5. CASE exits[e].at = "degrading" /\ d = e /\ exits' = [exits EXCEPT ![e] = NoExit]
    BY <1>1, <2>2, <2>5 DEF NoExit
  <2> QED
    BY <2>4, <2>5
<1>4. /\ status' \in [Names -> Statuses]
      /\ \A x \in Names : status'[x] = IF x = d THEN s ELSE status[x]
  BY <1>1 DEF Statuses
<1>5. /\ process' \in [Names -> {"none", "up", "leaving", "gone"}]
      /\ \A x \in Names : Marked(x)' => Marked(x)
      /\ \A x \in Names : (process[x] = "none" => process'[x] = "none") /\ (process[x] = "gone" => process'[x] = "gone")
  BY <1>1 DEF Ended, Marked
<1>6. ~Marked(d)
  BY <1>3 DEF Inv, Late, TakenAway
<1>7. main.at \in Busy \cup {"next"} => d \in Passed
  BY <1>3 DEF Inv, Late, RanBefore
<1>8. main.at \in Busy => d # Current
  BY <1>7, Placed DEF Inv, Types, MainOK
<1>9. /\ \A x \in Names : Down(x)' => Down(x)
      /\ \A x \in Names : Down(x) => Down(x)' \/ (x = e /\ d = e)
      /\ \A x \in Names : exits'[x].at \in {"stopping", "degrading"} => x # e
      /\ \A x \in Names : x # e => AtHand(x)' = AtHand(x)
  BY <1>2, <1>3 DEF Down, NoExit, AtHand, Framed
<1>10. \A x \in Names : Leaving(x) => Leaving(x)' \/ x = d
  <2> SUFFICES ASSUME NEW x \in Names, Leaving(x), x # d PROVE Leaving(x)'
    OBVIOUS
  <2>1. CASE Down(x)
    BY <1>9, <2>1 DEF Leaving
  <2>2. CASE main.at = "stopping" /\ x = Current
    BY <1>2, <2>2 DEF Leaving
  <2>3. CASE \E y \in Names : exits[y].at = "stopping" /\ AtHand(y) = x
    <3>1. PICK y \in Names : exits[y].at = "stopping" /\ AtHand(y) = x
      BY <2>3
    <3>2. y # e
      BY <1>3, <3>1
    <3>3. exits'[y].at = "stopping" /\ AtHand(y)' = x /\ Names' = Names
      BY <1>2, <1>3, <1>9, <3>1, <3>2 DEF Framed
    <3> QED
      BY <3>3 DEF Leaving
  <2> QED
    BY <2>1, <2>2, <2>3 DEF Leaving
<1>11. ExitsOK'
  <2>1. \A x \in Names : exits'[x].at = "stopping" => exits'[x].n \in Places /\ AtHand(x)' \in Dependents(x)
    BY <1>3, <1>9 DEF Inv, Types, ExitsOK
  <2> QED
    BY <1>2, <1>3, <2>1 DEF ExitsOK, Framed
<1>12. Types'
  BY <1>1, <1>2, <1>4, <1>5, <1>11, TypesStay
<1>13. Supported'
  BY <1>2, <1>4, <1>5, <1>6 DEF Inv, Late, Supported, Framed
<1>14. OneStarts' /\ Rooted'
  BY <1>2, <1>4 DEF Inv, Late, OneStarts, Rooted, Framed
<1>15. CurrentStarts'
  <2>1. main.at \in Busy => Current \in Names
    BY Placed DEF Inv, Types, MainOK
  <2>2. main.at \in {"blocked", "cleaning"} => main.at \in Busy
    BY DEF Busy, AtWork
  <2>3. CurrentStarts
    BY DEF Inv, Late
  <2> QED
    BY <1>2, <1>4, <1>8, <2>1, <2>2, <2>3 DEF CurrentStarts
<1>16. Watched'
  <2>1. \A x \in Names : exits'[x].at # "none" => exits[x].at # "none"
    BY <1>3 DEF NoExit
  <2> QED
    BY <1>2, <1>5, <2>1 DEF Inv, Late, Watched, Framed
<1>17. RanBefore'
  <2> SUFFICES ASSUME main.at \in Busy \cup {"next"}, NEW x \in Names
               PROVE  /\ status'[x] = "running" \/ Down(x)' => x \in Passed
                      /\ exits'[x].at = "stopping" => AtHand(x)' \in Passed
    BY <1>2 DEF RanBefore, Framed
  <2>1. /\ status[x] = "running" \/ Down(x) => x \in Passed
        /\ exits[x].at = "stopping" => AtHand(x) \in Passed
    BY DEF Inv, Late, RanBefore
  <2> QED
    BY <1>3, <1>4, <1>9, <2>1
<1>18. TakenAway'
  <2>1. \A x \in Names : exits[x].at = "stopping" => AtHand(x) \in Names
    BY HandlersAre
  <2>2. main.at = "stopping" => Current \in Names
    BY Placed DEF Inv, Types, MainOK
  <2> QED
    BY <1>2, <1>3, <1>5, <1>9, <2>1, <2>2 DEF Inv, Late, TakenAway, Framed, Marked
<1>19. RunsStarted'
  BY <1>2, <1>4, <1>10 DEF Inv, Late, RunsStarted, Framed
<1>20. Handled'
  <2> SUFFICES ASSUME NEW x \in Names, Down(x)', NEW y \in Dependents(x), y \notin late
               PROVE  status'[y] # "starting" /\ (Behind(y, x)' => status'[y] # "running")
    BY <1>2 DEF Handled, Framed
  <2>1. status[y] # "starting" /\ (Behind(y, x) => status[y] # "running") /\ y \in Names
    BY <1>9, Placed DEF Inv, Late, Handled, Follows
  <2>2. CASE x # e
    BY <1>2, <1>3, <1>4, <2>1, <2>2 DEF Behind, Framed
  <2>3. CASE x = e
    <3>1. exits[e].at = "stopping" /\ d = AtHand(e) /\ exits'[e] = [at |-> "blocking", n |-> exits[e].n - 1]
      BY <1>3, <2>3 DEF Down, NoExit
    <3>2. exits[e].n \in Places
      BY <3>1, HandlersAre
    <3>3. Behind(y, e)' => Behind(y, e) \/ y = d
      BY <1>2, <3>1, <3>2, Placed DEF Behind, Framed, AtHand
    <3> QED
      BY <1>4, <2>1, <2>3, <3>3
  <2> QED
    BY <2>2, <2>3
<1>21. Kept'
  <2> SUFFICES ASSUME NEW x \in Names, status'[x] = "running", x \notin late, ~Leaving(x)', NEW y \in Deps(x)
               PROVE  status'[y] = "running"
    BY <1>2 DEF Kept, Framed, Ready
  <2>1. y \in Names /\ status[x] = "running" /\ x # d /\ ~Leaving(x)
    BY <1>4, <1>10 DEF Inv, Types
  <2>2. status[y] = "running"
    BY <2>1 DEF Inv, Late, Kept, Ready
  <2>3. y # d
    <3> SUFFICES ASSUME y = d PROVE FALSE
      OBVIOUS
    <3>1. PICK i, j \in Places : i < j /\ order[i] = d /\ order[j] = x
      BY <2>1 DEF Inv, Rooted, Before
    <3>2. x # e
      BY <2>1 DEF Leaving
    <3>3. Follows(e)
      BY Placed
    <3>4. CASE exits[e].at = "stopping" /\ d = AtHand(e)
      <4>1. d \in Dependents(e) /\ exits[e].n \in Places
        BY <3>4, HandlersAre
      <4>2. i = exits[e].n
        BY <3>1, <3>4, <4>1 DEF AtHand, Inv, Apart
      <4>3. x \in Dependents(e)
        BY <3>1, <3>2, <3>3, <4>1 DEF Follows
      <4>4. Behind(x, e)
        BY <3>1, <4>2 DEF Behind
      <4> QED
        BY <2>1, <4>3, <4>4 DEF Inv, Late, Handled
    <3>5. CASE exits[e].at = "degrading" /\ d = e
      <4>1. x \in Dependents(e)
        BY <3>1, <3>2, <3>3, <3>5 DEF Follows
      <4>2. Behind(x, e)
        BY <3>5 DEF Behind
      <4> QED
        BY <2>1, <4>1, <4>2 DEF Inv, Late, Handled
    <3> QED
      BY <1>3, <3>4, <3>5
  <2> QED
    BY <1>4, <2>1, <2>2, <2>3
<1>22. StoppedBehind'
  <2> SUFFICES ASSUME main.at \in StopPhase, NEW i \in Places, i > main.n, status'[order[i]] = "running"
               PROVE  Leaving(order[i])'
    BY <1>2 DEF StoppedBehind, Framed
  <2>1. order[i] \in Names /\ order[i] # d /\ status[order[i]] = "running"
    BY <1>4, Placed
  <2>2. Leaving(order[i])
    BY <2>1 DEF Inv, Late, StoppedBehind
  <2> QED
    BY <1>2, <1>10, <2>1, <2>2 DEF Framed
<1> QED
  BY <1>2, <1>12, <1>13, <1>14, <1>15, <1>16, <1>17, <1>18, <1>19, <1>20, <1>21, <1>22, LateEnough DEF Late

\* The other steps of a handler.
LEMMA HandlerKeeps ==
    ASSUME Inv, NEW e \in Names, Blocked(e) \/ OwnerWithdrawn(e) \/ OwnerDegraded(e)
    PROVE  Inv'
<1>1. CASE Blocked(e)
  <2>1. exits[e].at = "stopping" /\ Down(e) /\ AtHand(e) \in Names
    BY <1>1, HandlersAre DEF Blocked
  <2> QED
    BY <1>1, <2>1, EndedKeeps DEF Blocked
<1>2. CASE OwnerDegraded(e)
  <2>1. exits[e].at = "degrading" /\ Down(e)
    BY <1>2, HandlersAre DEF OwnerDegraded
  <2> QED
    BY <1>2, <2>1, EndedKeeps DEF OwnerDegraded
<1>3. CASE OwnerWithdrawn(e)
  <2>1. /\ exits[e].at = "blocking" /\ exits[e].n = 0 /\ Down(e) /\ Withdrawn(e)
        /\ exits' = [exits EXCEPT ![e].at = "degrading"]
        /\ UNCHANGED <<setup, order, status, main, late>>
    BY <1>3, HandlersAre DEF OwnerWithdrawn
  <2>2. Elsewhere
    BY <2>1, HandlersWork
  <2> QED
    BY <2>1, <2>2, WithdrawnKeeps
<1> QED
  BY <1>1, <1>2, <1>3

-----------------------------------------------------------------------------
(* All of it *)

\* Every step keeps the invariant.
LEMMA NextKeeps ==
    ASSUME Inv, [Next]_vars
    PROVE  Inv'
<1>1. CASE Resolve
  BY <1>1, VisitKeeps, VisitReturnsKeeps, ResolvedKeeps DEF Resolve
<1>2. CASE Start
  BY <1>2, RegisterKeeps, StartNextKeeps, StepDoneKeeps, StepFailsKeeps, StartUndoneKeeps, StartGivenUpKeeps,
     MainPausesKeeps DEF Start
<1>3. ASSUME NEW e \in Names, Exit(e) PROVE Inv'
  BY <1>3, ProcessExitsKeeps, ExitHandledKeeps, BlockNextKeeps, HandlerKeeps DEF Exit
<1>4. CASE StopBegins \/ StopNext \/ Stopped \/ StopEnds
  BY <1>4, MainPausesKeeps, StopNextKeeps, StoppedKeeps
<1>5. CASE UNCHANGED vars
  <2>1. Framed
    BY <1>5, Frames DEF vars, Inv
  <2>2. /\ UNCHANGED <<setup, order, status, main, exits, started, tools, process, late>>
        /\ Current' = Current /\ Passed' = Passed
    BY <1>5, <2>1 DEF vars, Current, Passed, Framed
  <2>3. /\ \A x : Marked(x)' = Marked(x) /\ Down(x)' = Down(x) /\ AtHand(x)' = AtHand(x)
        /\ Stopping' = Stopping /\ Visited' = Visited
    BY <2>1, <2>2 DEF Marked, Down, AtHand, Stopping, HasManifest, Visited, Framed
  <2>4. /\ \A x : Leaving(x)' = Leaving(x)
        /\ \A x, y : Behind(x, y)' = Behind(x, y)
    BY <2>1, <2>2, <2>3 DEF Leaving, Behind, Framed
  <2>5. Types'
    <3>1. MainOK' /\ ExitsOK'
      BY <2>1, <2>2, <2>3 DEF Inv, Types, MainOK, ExitsOK, Framed, Calls
    <3> QED
      BY <2>1, <2>2, <3>1 DEF Inv, Types, Framed
  <2>6. Apart' /\ Resolving' /\ Registering' /\ Rooted'
    BY <2>1, <2>2, <2>3 DEF Inv, Resolving, Registering, Rooted, Idle, Framed
  <2>7. Supported' /\ OneStarts' /\ CurrentStarts' /\ Watched' /\ RanBefore' /\ TakenAway'
    BY <2>1, <2>2, <2>3 DEF Inv, Late, Supported, OneStarts, CurrentStarts, Watched, RanBefore, TakenAway, Framed
  <2>8. RunsStarted' /\ StoppedBehind'
    BY <2>1, <2>2, <2>4 DEF Inv, Late, RunsStarted, StoppedBehind, Framed
  <2>9. Handled' /\ Kept'
    BY <2>1, <2>2, <2>3, <2>4 DEF Inv, Late, Handled, Kept, Ready, Framed
  <2> QED
    BY <2>5, <2>6, <2>7, <2>8, <2>9 DEF Inv, Late
<1> QED
  BY <1>1, <1>2, <1>3, <1>4, <1>5 DEF Next

\* When all is settled nobody is being taken down, so that Supported and Kept say
\* what FailuresAreContained does.
LEMMA ContainsFailures ==
    ASSUME Inv
    PROVE  FailuresAreContained
<1> SUFFICES ASSUME Settled, NEW e \in Names
             PROVE  /\ status[e] # "running" => process[e] # "up" /\ e \notin tools \cup started
                    /\ status[e] = "running" /\ e \notin late => Ready(e, "running")
  BY DEF FailuresAreContained
<1>1. main.at \in {"up", "down"} /\ \A x \in Names : exits[x].at = "none"
  BY DEF Settled
<1>2. Marked(e) => status[e] = "running"
  BY <1>1 DEF Inv, Late, Supported, AtWork, InStart
<1>3. ~Leaving(e)
  BY <1>1 DEF Leaving, Down
<1> QED
  BY <1>2, <1>3 DEF Marked, Inv, Late, Kept

\* Whatever fails and exits, and whenever: when all is settled only what runs has
\* a process, tools or a place among the started, and what runs depends on what
\* runs, but for extensions whose start began in the middle of that.  For any
\* extensions, dependencies (also in cycles and missing ones) and orders of
\* enabling, and any number of failures; Described says that dependencies have
\* names.  The code: _resolve_dependencies, _load_and_register, start and stop in
\* manager.py, block_runtime_dependents, ensure_runtime_start_allowed and
\* handle_managed_process_exit in runtime_failure.py.
THEOREM FailuresAreAlwaysContained ==
    ASSUME Described
    PROVE  Spec => []FailuresAreContained
<1> SUFFICES ASSUME Described PROVE Spec => []FailuresAreContained
  OBVIOUS
<1>1. Init => Inv
  BY Initially
<1>2. Inv /\ [Next]_vars => Inv'
  BY NextKeeps
<1>3. Inv => FailuresAreContained
  BY ContainsFailures
<1> QED
  BY <1>1, <1>2, <1>3, PTL DEF Spec
=============================================================================
