-------------------------- MODULE ConstraintGraph --------------------------
(***************************************************************************)
(* The constraint graph of inclusion-based pointer analysis: its nodes are *)
(* the top-level pointers and the object nodes of MemObjects, its edges    *)
(* the constraints of the program.  The operators here are the pure part   *)
(* of ConstraintGraph: how merging nodes rewrites the edges, and which     *)
(* strongly connected components the direct edges form.                    *)
(***************************************************************************)
EXTENDS MemObjects, FiniteSets, Sequences

CONSTANTS Val    \* top-level pointers (ValVar nodes)

Node == Val \cup Obj

DirectKind == {"copy", "ngep", "vgep"}
EdgeKind == DirectKind \cup {"load", "store"}

(* off is the constant field index of a normal gep, 0 on other edges.  An  *)
(* address edge is used once, by processAllAddr, and is not kept here.     *)
Edge == [kind : EdgeKind, src : Node, dst : Node, off : Offset]

CopyEdge(s, d) == [kind |-> "copy", src |-> s, dst |-> d, off |-> 0]

(* Not isZeroOffsettedGepCGEdge: the edge may move to another field. *)
Critical(e) == e.kind = "vgep" \/ (e.kind = "ngep" /\ e.off # 0)

(***************************************************************************)
(* Merging.  r maps every node to the node it is merged into (itself for a *)
(* node that stays).  A direct edge whose ends meet in one node is removed *)
(* unless it already was a loop on a node that stays; every other edge is  *)
(* re-targeted, and the set keeps one copy of edges that became equal.     *)
(***************************************************************************)
Removed(e, r) ==
    /\ e.kind \in DirectKind
    /\ r[e.src] = r[e.dst]
    /\ e.src # r[e.src] \/ e.dst # r[e.dst]

(* Variant: the destination of an outgoing edge is not followed. *)
ReTargetSrc(e, r) == [e EXCEPT !.src = r[e.src]]

ReTarget(e, r) == [e EXCEPT !.src = r[e.src], !.dst = r[e.dst]]

MoveEdges(E, r) == {ReTarget(e, r) : e \in {x \in E : ~ Removed(x, r)}}

(* Variant: only variant geps make a positive-weight cycle. *)
GepInsideVariant(E, r) ==
    {r[e.src] : e \in {x \in E : Removed(x, r) /\ x.kind = "vgep"}}

(* Nodes that become PWC nodes: a critical gep was removed inside them. *)
GepInside(E, r) == {r[e.src] : e \in {x \in E : Removed(x, r) /\ Critical(x)}}

(***************************************************************************)
(* Strongly connected components of the direct edges (SCC detection with   *)
(* -pwc, which the wave solver always sets).                               *)
(***************************************************************************)
DirectPairs(E) == {<<e.src, e.dst>> : e \in {x \in E : x.kind \in DirectKind}}

(* Pairs joined by a path of one or more steps in R: the second is in      *)
(* every closed set that has the successors of the first.                  *)
Connected(R) ==
    LET ends == {z[1] : z \in R} \cup {z[2] : z \in R}
        closed == {S \in SUBSET ends : \A z \in R : z[1] \in S => z[2] \in S}
    IN  {x \in ends \X ends : \A S \in closed :
            (\A z \in R : z[1] = x[1] => z[2] \in S) => x[2] \in S}

Components(E) ==
    LET C == Connected(DirectPairs(E))
        ends == {e.src : e \in E} \cup {e.dst : e \in E}
    IN  {{m \in ends : <<n, m>> \in C /\ <<m, n>> \in C} : n \in ends}

(* All ways to pick a representative in every component with several       *)
(* nodes; the code takes the root of its depth-first search.               *)
SCCReps(E) ==
    LET big == {c \in Components(E) : Cardinality(c) > 1}
        reps == {[n \in Node |-> IF \E c \in big : n \in c
                                 THEN root[CHOOSE c \in big : n \in c]
                                 ELSE n] :
                 root \in {f \in [big -> UNION big] : \A c \in big : f[c] \in c}}
    IN  {r \in reps : \A n \in Node : r[r[n]] = r[n]}
=============================================================================
