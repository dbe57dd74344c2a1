---------------------------- MODULE POCRSolver ----------------------------
(***************************************************************************)
(* Class POCRSolver, which keeps the edges a second time in two maps and   *)
(* joins whole rows of them, and class POCRHybridSolver, which sends the   *)
(* productions F -> F F to addArc instead.  The maps are filled from the   *)
(* graph when the solver is built and by the solver itself afterwards.     *)
(***************************************************************************)
EXTENDS CFLSolver

CONSTANT Transitive \* the symbols F handled by addArc; empty for POCRSolver

VARIABLES
    succ, \* succMap, as edges: j is in succMap[i][x]
    pred, \* predMap, as edges: i is in predMap[j][x]
    keys  \* the nodes that have an entry in succMap

dataVars == <<succ, pred, keys>>
pvars == <<vars, dataVars>>

(* buildCFLData *)
POCRInit ==
    /\ SolverInit
    /\ succ = input.graph
    /\ pred = input.graph
    /\ keys = {e[2] : e \in input.graph}

-----------------------------------------------------------------------------
(* The edges addEdge and the two addEdges report as new are added to the   *)
(* graph and pushed.                                                       *)
Report(new) == edges' = edges \cup new /\ worklist' = worklist \cup new

AddEdge(data) ==
    /\ succ' = succ \cup data
    /\ pred' = pred \cup data
    /\ Report(data \ pred)

(* Variant: the predecessor map is only consulted. *)
AddSuccsOnly(data) ==
    /\ succ' = succ \cup data
    /\ UNCHANGED pred
    /\ Report(data \ pred)

(* addEdges(src, dsts): predecessors only if a successor was new. *)
AddSuccs(data) ==
    /\ succ' = succ \cup data
    /\ pred' = IF data \subseteq succ THEN pred ELSE pred \cup data
    /\ Report(IF data \subseteq succ THEN {} ELSE data \ pred)

(* addEdges(srcs, dst): successors only if a predecessor was new. *)
AddPreds(data) ==
    /\ pred' = pred \cup data
    /\ succ' = IF data \subseteq pred THEN succ ELSE succ \cup data
    /\ Report(IF data \subseteq pred THEN {} ELSE data \ succ)

(* addArc returns at once for an edge the maps know. *)
IsArc(p) == p[1] \in Transitive /\ p[2] = p[1] /\ p[3] = p[1]
ArcKnown(e) == e \in succ

FirstRow(e, p) == {<<p[1], e[2], z[3]>> : z \in {x \in succ : x[1] = p[3] /\ x[2] = e[3]}}

(* Variant: the row of the end of the edge. *)
SecondRowDst(e, p) == {<<p[1], z[2], e[3]>> : z \in {x \in pred : x[1] = p[2] /\ x[3] = e[3]}}

SecondRow(e, p) == {<<p[1], z[2], e[3]>> : z \in {x \in pred : x[1] = p[2] /\ x[3] = e[2]}}

-----------------------------------------------------------------------------
(* initialize: epsilon edges for the nodes succMap has. *)
POCRInitialize ==
    LET eps == {<<x, i, i>> : x \in input.eps, i \in keys}
    IN  /\ pc = "init"
        /\ pc' = "solve"
        /\ succ' = succ \cup eps
        /\ pred' = pred \cup eps
        /\ edges' = edges \cup (eps \ pred)
        /\ worklist' = worklist \cup edges \cup (eps \ pred)
        /\ UNCHANGED <<input, answered, cur, singles, firsts, seconds, keys>>

POCRApplySingle(p) ==
    /\ p \in singles
    /\ \E e \in cur : AddEdge(SingleConcl(e, p)) /\ keys' = keys \cup {e[2]}
    /\ singles' = singles \ {p}
    /\ UNCHANGED <<input, answered, pc, cur, firsts, seconds>>

POCRApplyFirst(p) ==
    /\ singles = {}
    /\ p \in firsts
    /\ \E e \in cur :
        IF IsArc(p)
        THEN ArcKnown(e) /\ UNCHANGED <<edges, worklist, dataVars>>
        ELSE AddSuccs(FirstRow(e, p)) /\ keys' = keys \cup {e[3]} \cup {z[2] : z \in FirstRow(e, p)}
    /\ firsts' = firsts \ {p}
    /\ UNCHANGED <<input, answered, pc, cur, singles, seconds>>

POCRApplySecond(p) ==
    /\ singles = {} /\ firsts = {}
    /\ p \in seconds
    /\ \E e \in cur :
        IF IsArc(p)
        THEN ArcKnown(e) /\ UNCHANGED <<edges, worklist, dataVars>>
        ELSE AddPreds(SecondRow(e, p)) /\ keys' = keys \cup {z[2] : z \in SecondRow(e, p)}
    /\ seconds' = seconds \ {p}
    /\ UNCHANGED <<input, answered, pc, cur, singles, firsts>>

POCRNext ==
    \/ POCRInitialize
    \/ \E e \in worklist : PopFromWorklist(e) /\ UNCHANGED dataVars
    \/ \E p \in singles : POCRApplySingle(p)
    \/ \E p \in firsts : POCRApplyFirst(p)
    \/ \E p \in seconds : POCRApplySecond(p)
    \/ UpdateCallGraph /\ UNCHANGED dataVars
    \/ pc = "final" /\ UNCHANGED pvars

POCRSpec == POCRInit /\ [][POCRNext]_pvars

-----------------------------------------------------------------------------
(* The maps are each other's inverse and agree with the graph; otherwise   *)
(* addCFLEdge returns no edge for one they report as new, and the null     *)
(* pointer is pushed into the worklist.                                    *)
MapsMirrorGraph == input.calls = {} => succ = edges /\ pred = edges

(* Joining rows does what the edge-by-edge algorithm does, if every node   *)
(* has an outgoing edge and no call is resolved on the way.                *)
POCRImplements == SolverSpec

(* As TypeOK; the maps only hold edges. *)
POCRTypeOK == TypeOK /\ succ \subseteq Edge /\ pred \subseteq Edge /\ keys \subseteq Node
=============================================================================
