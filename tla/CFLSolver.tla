----------------------------- MODULE CFLSolver -----------------------------
(***************************************************************************)
(* The worklist algorithm of class CFLSolver and the loop of CFLAlias that *)
(* calls it again while the call graph grows.  One edge at a time is taken *)
(* from the worklist and combined, production by production, with the      *)
(* edges that leave its end and enter its start.                           *)
(***************************************************************************)
EXTENDS CFLReachability

VARIABLES
    pc,       \* "init", "solve" or "final"
    worklist, \* edges still to be processed
    cur,      \* the set holding the edge popped last
    singles,  \* its productions X -> Y still to be applied
    firsts,   \* its productions X -> Y Z
    seconds   \* its productions X -> Z Y

local == <<pc, worklist, cur, singles, firsts, seconds>>
vars == <<input, edges, answered, local>>

SolverInit ==
    /\ Init
    /\ pc = "init"
    /\ worklist = {} /\ cur = {}
    /\ singles = {} /\ firsts = {} /\ seconds = {}

-----------------------------------------------------------------------------
Out(j, z) == {e \in edges : e[1] = z /\ e[2] = j}
In(i, z)  == {e \in edges : e[1] = z /\ e[3] = i}

(* addCFLEdge, and pushIntoWorklist for the edges that did not exist. *)
(* Variants: every edge is pushed; none is. *)
AddAlways(new) == edges' = edges \cup new /\ worklist' = worklist \cup new
AddQuiet(new) == edges' = edges \cup new /\ UNCHANGED worklist

Add(new) == edges' = edges \cup new /\ worklist' = worklist \cup (new \ edges)

(* The conclusions of edge e with production p. *)
SingleConcl(e, p) == {<<p[1], e[2], e[3]>>}

(* Variant: the ends of the new edge are swapped. *)
FirstConclSwapped(e, p) == {<<p[1], z[3], e[2]>> : z \in Out(e[3], p[3])}

FirstConcl(e, p) == {<<p[1], e[2], z[3]>> : z \in Out(e[3], p[3])}

(* Variant: the edges that leave the start instead of those that enter it. *)
SecondConclOut(e, p) == {<<p[1], z[2], e[3]>> : z \in Out(e[2], p[2])}

SecondConcl(e, p) == {<<p[1], z[2], e[3]>> : z \in In(e[2], p[2])}

-----------------------------------------------------------------------------
(* initialize: schedule all edges and add those of X -> epsilon. *)
Initialize ==
    /\ pc = "init"
    /\ pc' = "solve"
    /\ edges' = edges \cup EpsEdges
    /\ worklist' = worklist \cup edges \cup EpsEdges
    /\ UNCHANGED <<input, answered, cur, singles, firsts, seconds>>

Idle == singles = {} /\ firsts = {} /\ seconds = {}

PopFromWorklist(e) ==
    /\ pc = "solve" /\ Idle
    /\ e \in worklist
    /\ worklist' = worklist \ {e}
    /\ cur' = {e}
    /\ singles' = {p \in input.single : p[2] = e[1]}
    /\ firsts' = {p \in input.pair : p[2] = e[1]}
    /\ seconds' = {p \in input.pair : p[3] = e[1]}
    /\ UNCHANGED <<input, edges, answered, pc>>

(* processCFLEdge, one production at a time. *)
ApplySingle(p) ==
    /\ p \in singles
    /\ \E e \in cur : Add(SingleConcl(e, p))
    /\ singles' = singles \ {p}
    /\ UNCHANGED <<input, answered, pc, cur, firsts, seconds>>

ApplyFirst(p) ==
    /\ singles = {}
    /\ p \in firsts
    /\ \E e \in cur : Add(FirstConcl(e, p))
    /\ firsts' = firsts \ {p}
    /\ UNCHANGED <<input, answered, pc, cur, singles, seconds>>

ApplySecond(p) ==
    /\ singles = {} /\ firsts = {}
    /\ p \in seconds
    /\ \E e \in cur : Add(SecondConcl(e, p))
    /\ seconds' = seconds \ {p}
    /\ UNCHANGED <<input, answered, pc, cur, singles, firsts>>

(* updateCallGraph: solve again if a new callee added an edge.  An edge is *)
(* pushed if it is new; addCopyEdge would push null for one that is not.   *)
(* Functions that allocate are not called indirectly in the inputs.        *)
UpdateCallGraph ==
    /\ pc = "solve"
    /\ worklist = {} /\ Idle
    /\ Add(CallEdges(edges))
    /\ pc' = IF worklist' = {} THEN "final" ELSE "init"
    /\ answered' = (worklist' = {})
    /\ cur' = {}
    /\ UNCHANGED <<input, singles, firsts, seconds>>

Next ==
    \/ Initialize
    \/ \E e \in worklist : PopFromWorklist(e)
    \/ \E p \in singles : ApplySingle(p)
    \/ \E p \in firsts : ApplyFirst(p)
    \/ \E p \in seconds : ApplySecond(p)
    \/ UpdateCallGraph
    \/ pc = "final" /\ UNCHANGED vars

SolverSpec == SolverInit /\ [][Next]_vars

(* One thread that never waits. *)
FairSpec == SolverSpec /\ WF_vars(Next)

-----------------------------------------------------------------------------
(* Properties.                                                             *)

TypeOK ==
    /\ input \in Inputs
    /\ edges \subseteq Edge
    /\ answered \in BOOLEAN
    /\ pc \in {"init", "solve", "final"}
    /\ worklist \subseteq edges
    /\ cur = {} \/ \E e \in edges : cur = {e}
    /\ singles \subseteq {p \in input.single : \A e \in cur : p[2] = e[1]}
    /\ firsts \subseteq {p \in input.pair : \A e \in cur : p[2] = e[1]}
    /\ seconds \subseteq {p \in input.pair : \A e \in cur : p[3] = e[1]}
    /\ cur = {} => Idle

(* The edges that have been taken from the worklist since initialize. *)
Seen == IF pc = "solve" THEN edges \ worklist ELSE {}
Done == IF Idle THEN Seen ELSE Seen \ cur

(* What has been processed is closed under the productions on its own. *)
DoneClosed == SingleEdges(Done) \subseteq edges /\ PairEdges(Done) \subseteq edges

(* The edge being processed has met every edge that was processed before   *)
(* it in the productions that have been applied to it.                     *)
CurMet ==
    pc = "solve" => \A e \in cur :
        /\ \A p \in input.single :
              p[2] = e[1] /\ p \notin singles => <<p[1], e[2], e[3]>> \in edges
        /\ \A p \in input.pair : \A z \in Seen :
              /\ p[2] = e[1] /\ p \notin firsts /\ z[1] = p[3] /\ z[2] = e[3]
                    => <<p[1], e[2], z[3]>> \in edges
              /\ p[3] = e[1] /\ p \notin seconds /\ z[1] = p[2] /\ z[3] = e[2]
                    => <<p[1], z[2], e[3]>> \in edges

(* The worklist forgets nothing: no conclusion from processed edges is     *)
(* missing, although two edges meet only when the second is processed.     *)
ProcessedClosed ==
    /\ pc = "solve" => EpsEdges \subseteq edges
    /\ DoneClosed
    /\ CurMet

(* When the analysis answers no production and no indirect call has        *)
(* anything to add to the graph.                                           *)
Complete == answered => Conclusions(edges) \subseteq edges

(* processCFLEdge walks the edges that leave j while it adds edges to the  *)
(* graph: it never adds one to the set it walks.                           *)
IterationStable ==
    [][\A e \in cur : \A p \in firsts :
        p \notin firsts' => Out(e[3], p[3])' = Out(e[3], p[3])]_vars

(* The solver only draws conclusions the grammar licenses, and answers     *)
(* when there are none left: with the worklist hidden it is the            *)
(* specification of CFLReachability.                                       *)
ImplementsReachability == Spec

(* The rounds of solve and updateCallGraph end: an edge goes back to the   *)
(* worklist only when the graph did not have it.                           *)
Terminates == <>(pc = "final")
=============================================================================
