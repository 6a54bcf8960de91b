----------------------------- MODULE WorkflowPlan -----------------------------
(***************************************************************************)
(* What the engine makes of a workflow somebody has drawn: whether it is   *)
(* accepted, which converge gateway belongs to which parallel one, and the *)
(* plan of steps that is carried out one after the other.                  *)
(*                                                                         *)
(* src/workflow/definition.py.  A definition is a record: nodes, gate (the *)
(* type of each gateway), gates (their order in the file), adj (where the  *)
(* edges of each place lead, in their order) and default (the edges marked *)
(* as such).  "" is no place; the expressions on edges are left out.       *)
(***************************************************************************)
EXTENDS Naturals, Sequences, FiniteSets, SequencesExt

Places(d) == DOMAIN d.adj
Type(d, x) == IF x \in DOMAIN d.gate THEN d.gate[x] ELSE IF x \in d.nodes THEN "node" ELSE "edge"
OfType(d, type) == {g \in DOMAIN d.gate : d.gate[g] = type}
Next1(d, x) == IF d.adj[x] = <<>> THEN "" ELSE Head(d.adj[x])
Into(d, x) == {y \in Places(d) : Contains(d.adj[y], x)}
Default(d, x) == SelectSeq(d.adj[x], LAMBDA t : <<x, t>> \in d.default)
Other(d, x) == SelectSeq(d.adj[x], LAMBDA t : <<x, t>> \notin d.default)
LastOr(s) == IF s = <<>> THEN "" ELSE Last(s)

(* What can be reached from x without going through the places in stops. *)
Reach(d, x, stops) ==
    LET f[n \in 0 .. Cardinality(Places(d))] ==
            IF n = 0 THEN {x} \ stops
            ELSE LET near == f[n - 1]
                 IN  near \cup (UNION {ToSet(d.adj[y]) : y \in near} \ stops)
    IN  f[Cardinality(Places(d))]

(* The searches and walks below are loops: so many steps are enough, since *)
(* a place is left once and an edge is taken once, and a loop that is over *)
(* changes nothing.                                                        *)
Iterate(n, first, Turn(_)) ==
    LET f[i \in 0 .. n] == IF i = 0 THEN first ELSE Turn(f[i - 1])
    IN  f[n]
Edges(d) == UNION {{x} \X DOMAIN d.adj[x] : x \in Places(d)}

(* Breadth first from x. *)
BreadthTurn(d, s) ==
    LET x == Head(s.queue)
    IN  CASE s.queue = <<>> -> s
          [] s.queue # <<>> /\ Contains(s.seen, x) -> [s EXCEPT !.queue = Tail(@)]
          [] OTHER -> [queue |-> Tail(s.queue) \o SelectSeq(d.adj[x], LAMBDA t : ~Contains(s.seen, t)),
                       seen |-> Append(s.seen, x)]
Breadth(d, x) ==
    Iterate(1 + Cardinality(Edges(d)), [queue |-> <<x>>, seen |-> <<>>], LAMBDA s : BreadthTurn(d, s)).seen

(* The nodes passed from x on when always the first edge is taken, up to a *)
(* stop.                                                                   *)
FollowTurn(d, stops, s) ==
    IF s.at = "" \/ s.at \in s.seen \cup stops THEN s
    ELSE [at |-> Next1(d, s.at), seen |-> s.seen \cup {s.at},
          nodes |-> s.nodes \o (IF s.at \in d.nodes THEN <<s.at>> ELSE <<>>)]
Follow(d, x, stops) ==
    Iterate(Cardinality(Places(d)), [at |-> x, seen |-> {}, nodes |-> <<>>],
          LAMBDA s : FollowTurn(d, stops, s)).nodes

------------------------------------------------------------------------------
(* auto_pair_gateways: of all converge gateways every branch can reach,    *)
(* the one that comes first in the file                                    *)
Common(d, p) == {c \in OfType(d, "converge") : \A t \in ToSet(d.adj[p]) : c \in Reach(d, t, {})}
Pair(d, p) ==
    LET found == SelectSeq(d.gates, LAMBDA g : g \in Common(d, p))
    IN  IF Len(d.adj[p]) < 2 \/ found = <<>> THEN "" ELSE Head(found)

(* _find_convergence_node: of what all branches reach, and is no branch,   *)
(* what comes first from the first one                                     *)
Convergence(d, g) ==
    LET targets == d.adj[g]
        common == {x \in Places(d) : \A t \in ToSet(targets) : x \in Reach(d, t, {})} \ ToSet(targets)
        found == SelectSeq(Breadth(d, Head(targets)), LAMBDA x : x \in common)
    IN  IF Len(targets) < 2 \/ found = <<>> THEN "end" ELSE Head(found)

(* Depth first from x, without the place stop. *)
DepthTurn(d, stop, s) ==
    LET x == Last(s.stack)
    IN  CASE s.stack = <<>> -> s
          [] s.stack # <<>> /\ x \in {stop} \cup ToSet(s.seen) -> [s EXCEPT !.stack = Front(@)]
          [] OTHER -> [stack |-> Front(s.stack) \o d.adj[x], seen |-> Append(s.seen, x)]
Depth(d, x, stop) ==
    Iterate(1 + Cardinality(Edges(d)), [stack |-> <<x>>, seen |-> <<>>],
          LAMBDA s : DepthTurn(d, stop, s)).seen

(* The body of a loop gateway; the edge that is no default leads into it. *)
LoopEntry(d, g) == IF Other(d, g) = <<>> THEN Next1(d, g) ELSE Last(Other(d, g))
LoopBody(d, g) == SelectSeq(Depth(d, LoopEntry(d, g), g), LAMBDA x : x \in d.nodes)

(* _compute_loop_body_node_ids, for validate, keeps nodes only, so that no *)
(* gateway is ever found in it.                                            *)
LoopInside(d, g) ==
    IF Other(d, g) = <<>> THEN {} ELSE Reach(d, Head(Other(d, g)), {g}) \cap d.nodes

------------------------------------------------------------------------------
(* validate *)
GatewaysFit(d) ==
    /\ \A p \in OfType(d, "parallel") :
          /\ Len(d.adj[p]) >= 2
          /\ ToSet(d.adj[p]) \cap OfType(d, "converge") = {}
          /\ Pair(d, p) # ""
          /\ \A t \in ToSet(d.adj[p]) :
                Reach(d, t, OfType(d, "converge")) \cap OfType(d, "parallel") = {}
    /\ \A c \in OfType(d, "converge") : Cardinality(Into(d, c)) >= 2 /\ Len(d.adj[c]) = 1
    /\ \A g \in OfType(d, "condition") : Into(d, g) # {} /\ Len(d.adj[g]) >= 2 /\ Default(d, g) # <<>>
    /\ \A l \in OfType(d, "loop") :
          /\ Into(d, l) # {} /\ Len(d.adj[l]) = 2 /\ Default(d, l) # <<>>
          /\ LoopInside(d, l) \cap OfType(d, "loop") = {}

Connected(d) ==
    /\ \A x \in d.nodes : Len(d.adj[x]) <= 1
    /\ d.nodes \cup {"end"} \subseteq Reach(d, "start", {})

Valid(d) == d.nodes # {} => GatewaysFit(d) /\ Connected(d)

------------------------------------------------------------------------------
(* get_execution_plan: from the start along first edges; each place once. *)
NodeStep(x) == [type |-> "node", node |-> x]

ParallelStep(d, p) ==
    [type |-> "parallel", id |-> p, converge |-> Pair(d, p),
     branches |-> [i \in DOMAIN d.adj[p] |->
                      Follow(d, d.adj[p][i], {Pair(d, p)} \cup OfType(d, "converge"))]]

(* A branch that leads back makes a condition gateway a loop: its body is  *)
(* what was passed since, branches of parallel gateways not counted.       *)
Back(d, g, seen) == LastOr(SelectSeq(d.adj[g], LAMBDA t : t \in seen /\ t # g))
Leave(d, g, back) ==
    LET others == SelectSeq(d.adj[g], LAMBDA t : t # back)
    IN  IF others = <<>> THEN "" ELSE Head(others)
Passed(d, g, back, order) ==
    LET from == SelectInSeq(order, LAMBDA x : x = back)
    IN  IF from = 0 THEN <<>>
        ELSE SelectSeq(SubSeq(order, from, Len(order)), LAMBDA x : x \in d.nodes)

ConditionStep(d, g, seen, order) ==
    LET back == Back(d, g, seen)
        body == Passed(d, g, back, order)
    IN  IF back # "" /\ body # <<>>
        THEN [type |-> "while", id |-> g, body |-> body, exit |-> Leave(d, g, back)]
        ELSE [type |-> "condition", id |-> g, targets |-> d.adj[g],
              stop |-> IF back = "" THEN Convergence(d, g) ELSE ""]

LoopStep(d, l) ==
    [type |-> "loop", id |-> l, body |-> LoopBody(d, l), exit |-> LastOr(Default(d, l))]

(* Where it goes on after a place, what that adds to the plan, and to what *)
(* has been passed: of a block, its end in the order, its nodes besides.   *)
Onward(to, steps, order, besides) == [to |-> to, steps |-> steps, order |-> order, besides |-> besides]
Leads(d, x, seen, order) ==
    CASE Type(d, x) = "parallel" ->
           LET s == ParallelStep(d, x)
           IN  Onward(IF s.converge = "" THEN "" ELSE Next1(d, s.converge), <<s>>, <<s.converge>>,
                      UNION {ToSet(s.branches[i]) : i \in DOMAIN s.branches})
      [] Type(d, x) = "condition" ->
           LET back == Back(d, x, seen)
           IN  Onward(IF back = "" THEN Next1(d, x) ELSE Leave(d, x, back),
                      <<ConditionStep(d, x, seen, order)>>, <<>>, {})
      [] Type(d, x) = "loop" -> Onward(LoopStep(d, x).exit, <<LoopStep(d, x)>>, <<>>, {})
      [] Type(d, x) = "node" -> Onward(Next1(d, x), <<NodeStep(x)>>, <<>>, {})
      [] OTHER -> Onward(Next1(d, x), <<>>, <<>>, {})

WalkTurn(d, s) ==
    IF s.at = "" \/ s.at \in s.seen THEN s
    ELSE LET now == Append(s.order, s.at)
             next == Leads(d, s.at, s.seen \cup {s.at}, now)
         IN  [at |-> next.to, steps |-> s.steps \o next.steps, order |-> now \o next.order,
              seen |-> s.seen \cup {s.at} \cup ToSet(next.order) \cup next.besides]
Plan(d) ==
    Iterate(Cardinality(Places(d)), [at |-> "start", seen |-> {}, order |-> <<>>, steps |-> <<>>],
            LAMBDA s : WalkTurn(d, s)).steps
==============================================================================
