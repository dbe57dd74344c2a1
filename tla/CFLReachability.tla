-------------------------- MODULE CFLReachability --------------------------
(***************************************************************************)
(* Context-free-language reachability over an edge-labelled graph, as the  *)
(* alias and value-flow clients ask for it: starting from the edges of the *)
(* graph, draw the conclusions the productions of the normalised grammar   *)
(* license until there are none left.  An answer is given only then.       *)
(***************************************************************************)
EXTENDS Naturals, FiniteSets

CONSTANTS
    Node,   \* nodes of the graph
    Symbol, \* terminals and nonterminals
    Inputs  \* graphs with their grammar and their indirect calls

(* An edge carries a symbol from a source to a destination.                *)
Edge == Symbol \X Node \X Node

(* Productions X -> epsilon, X -> Y and X -> Y Z; calls holds the edges an *)
(* indirect call adds once the edge that resolves its target is derived.   *)
Input == [nodes : SUBSET Node, graph : SUBSET Edge, eps : SUBSET Symbol,
          single : SUBSET (Symbol \X Symbol),
          pair : SUBSET (Symbol \X Symbol \X Symbol),
          calls : SUBSET (Edge \X Edge)]

ASSUME CFLAssumption ==
    /\ Inputs \subseteq Input
    /\ \A g \in Inputs : \A e \in g.graph : e[2] \in g.nodes /\ e[3] \in g.nodes
    /\ \A g \in Inputs : \A c \in g.calls : c[2][2] \in g.nodes /\ c[2][3] \in g.nodes

VARIABLES
    input,   \* the graph and the grammar, constant after Init
    edges,   \* the edges of the graph so far
    answered \* whether the analysis has finished

EpsEdges == {<<x, i, i>> : x \in input.eps, i \in input.nodes}

SingleEdges(E) ==
    {e \in Edge : \E p \in input.single : p[1] = e[1] /\ <<p[2], e[2], e[3]>> \in E}

PairEdges(E) ==
    {e \in Edge : \E p \in input.pair : \E k \in Node :
        p[1] = e[1] /\ <<p[2], e[2], k>> \in E /\ <<p[3], k, e[3]>> \in E}

CallEdges(E) == {c[2] : c \in {x \in input.calls : x[1] \in E}}

Conclusions(E) == UNION {EpsEdges, SingleEdges(E), PairEdges(E), CallEdges(E)}

Init ==
    /\ input \in Inputs
    /\ edges = input.graph
    /\ answered = FALSE

Derive ==
    /\ ~ answered
    /\ edges \subseteq edges'
    /\ edges' \subseteq edges \cup Conclusions(edges)
    /\ UNCHANGED <<input, answered>>

Answer ==
    /\ Conclusions(edges) \subseteq edges
    /\ answered' = TRUE
    /\ UNCHANGED <<input, edges>>

Spec == Init /\ [][Derive \/ Answer]_<<input, edges, answered>>
=============================================================================
