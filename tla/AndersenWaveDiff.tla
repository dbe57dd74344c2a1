-------------------------- MODULE AndersenWaveDiff --------------------------
(***************************************************************************)
(* Wave propagation with difference sets (class AndersenWaveDiff), the     *)
(* solver behind every client of the framework.  One iteration merges the  *)
(* strongly connected components, walks the nodes in topological order and *)
(* propagates along copy and gep edges, then resolves the loads and stores *)
(* of the changed nodes into new copy edges, then the indirect calls.      *)
(***************************************************************************)
EXTENDS Andersen

VARIABLES
    pc,      \* "scc", "wave", "pwc", "post", "call", "done" or "final"
    wave,    \* nodes still on the topological stack
    order,   \* the direct edges between them when the stack was built
    cur,     \* the set holding the node popped last
    pending, \* objects collapseNodePts has still to collapse
    copies   \* copy edges the running load/store or call handler will add

vars == <<baseVars, pc, wave, order, cur, pending, copies>>

Init ==
    /\ InitBase
    /\ pc = "scc"
    /\ wave = {} /\ order = {} /\ cur = {} /\ pending = {} /\ copies = {}

-----------------------------------------------------------------------------
(* SCCDetect: merge every component and stack the nodes that remain. *)
SCCDetect ==
    /\ pc = "scc"
    /\ \E r \in SCCReps(edges) : MergeNodes(r, pts)
    /\ wave' = nodes'
    /\ order' = DirectPairs(edges')
    /\ pc' = "wave"
    /\ UNCHANGED <<prog, memVars, worklist, calls, reanalyze, cur, pending, copies>>

(* The wave is between two nodes: no collapse is left to do. *)
Quiet == pc = "wave" /\ pending = {} /\ toCollapse = {}

(* Pop the next node, and let collapsePWCNode collapse its targets. *)
PopNode(n) ==
    /\ Quiet
    /\ n \in wave
    /\ \A m \in wave \ {n} : <<m, n>> \notin order
    /\ wave' = wave \ {n}
    /\ cur' = {n}
    /\ pending' = IF repOf[n] \in pwc THEN GetPts(n) ELSE {}
    /\ pc' = "pwc"
    /\ UNCHANGED <<baseVars, order, copies>>

(* collapseNodePts: one target, skipped if it is field-insensitive by now. *)
CollapseNodePts(o) ==
    /\ pc \in {"pwc", "wave"}
    /\ o \in pending
    /\ IF o[1] \in fi
       THEN /\ pending' = pending \ {o}
            /\ UNCHANGED baseVars
       ELSE /\ CollapseField(o)
            /\ pending' = (pending \ {o}) \cup Nested(o)
            /\ UNCHANGED <<prog, toCollapse, calls>>
    /\ UNCHANGED <<pc, wave, order, cur, copies>>

(* processNode: a node merged meanwhile is left to its representative. *)
ProcessNode ==
    /\ pc = "pwc"
    /\ pending = {}
    /\ \E n \in cur : IF repOf[n] = n THEN HandleCopyGep(n) ELSE UNCHANGED baseVars
    /\ cur' = {}
    /\ pc' = "wave"
    /\ UNCHANGED <<wave, order, pending, copies>>

(* collapseFields: the objects variant geps have made field-insensitive. *)
CollapseFields(o) ==
    /\ pc = "wave"
    /\ pending = {}
    /\ o \in toCollapse
    /\ CollapseField(o)
    /\ toCollapse' = toCollapse \ {o}
    /\ pending' = Nested(o)
    /\ UNCHANGED <<prog, calls, pc, wave, order, cur, copies>>

-----------------------------------------------------------------------------
(* The second phase of solveWorklist runs when the wave is over. *)
Post == (Quiet /\ wave = {}) \/ (pc = "post" /\ copies = {})

(* postProcessNode: the copy edges a changed node's loads and stores need. *)
PostProcessNode(n) ==
    /\ Post
    /\ n \in worklist
    /\ worklist' = worklist \ {n}
    /\ copies' = LoadCopies(repOf[n]) \cup StoreCopies(repOf[n])
    /\ pc' = "post"
    /\ UNCHANGED <<prog, graphVars, pts, propa, memVars, calls, reanalyze, wave,
                   order, cur, pending>>

(* handleLoad and handleStore: one new copy edge asks for another wave. *)
HandleLoadStore(c) ==
    /\ pc = "post"
    /\ c \in copies
    /\ copies' = copies \ {c}
    /\ AddCopyEdge(c[1], c[2])
    /\ reanalyze' = (reanalyze \/ NewCopy(c[1], c[2]))
    /\ UNCHANGED <<prog, nodes, repOf, pwc, pts, memVars, worklist, calls, pc, wave,
                   order, cur, pending>>

(* updateCallGraph: record the new callees, create the dummy heap nodes. *)
UpdateCallGraph ==
    /\ Post
    /\ worklist = {}
    /\ \E new \in NewCalls :
        /\ calls' = calls \cup new
        /\ copies' = UNION {ParamCopies(x[1], x[2]) : x \in new}
        /\ reanalyze' = (reanalyze \/ new # {})
        /\ pts' = [n \in Node |-> pts[n] \cup
                     {DummyObj(c) : c \in {d \in NewHeapSites(new) : d.dummyVal = n}}]
        /\ nodes' = nodes \cup UNION {HeapNodes(c) : c \in NewHeapSites(new)}
    /\ pc' = "call"
    /\ UNCHANGED <<prog, edges, repOf, pwc, propa, memVars, worklist, wave, order, cur,
                   pending>>

(* connectCaller2CalleeParams: the source of a new edge is scheduled. *)
ConnectParam(c) ==
    /\ pc = "call"
    /\ c \in copies
    /\ copies' = copies \ {c}
    /\ AddCopyEdge(c[1], c[2])
    /\ worklist' = IF NewCopy(c[1], c[2]) THEN worklist \cup {repOf[c[1]]} ELSE worklist
    /\ UNCHANGED <<prog, nodes, repOf, pwc, pts, memVars, calls, reanalyze, pc, wave,
                   order, cur, pending>>

(* The loop of solveConstraints. *)
NextIteration ==
    /\ pc = "call"
    /\ copies = {}
    /\ pc' = IF reanalyze THEN "scc" ELSE "done"
    /\ reanalyze' = FALSE
    /\ UNCHANGED <<prog, graphVars, pts, propa, memVars, worklist, calls, wave, order,
                   cur, pending, copies>>

(* normalizePointsTo: the redundant field nodes leave the representative   *)
(* map (cleanConsCG) and the program.                                      *)
Normalize ==
    /\ pc = "done"
    /\ pc' = "final"
    /\ repOf' = [n \in Node |-> IF n \in redundant THEN n ELSE repOf[n]]
    /\ fields' = fields \ redundant
    /\ UNCHANGED <<prog, nodes, edges, pwc, pts, propa, fi, redundant, toCollapse,
                   worklist, calls, reanalyze, wave, order, cur, pending, copies>>

Next ==
    \/ SCCDetect
    \/ \E n \in wave : PopNode(n)
    \/ \E o \in pending : CollapseNodePts(o)
    \/ ProcessNode
    \/ \E o \in toCollapse : CollapseFields(o)
    \/ \E n \in worklist : PostProcessNode(n)
    \/ \E c \in copies : HandleLoadStore(c) \/ ConnectParam(c)
    \/ UpdateCallGraph
    \/ NextIteration
    \/ Normalize
    \/ pc = "final" /\ UNCHANGED vars

Spec == Init /\ [][Next]_vars

(* The solver is one thread that never waits: until it has finished it     *)
(* keeps taking steps.  A step is always possible (deadlock is checked),   *)
(* so this is weak fairness of Next.                                       *)
FairSpec == Spec /\ ([]<>(pc = "final") \/ []<><<TRUE>>_vars)

-----------------------------------------------------------------------------
(* Properties.                                                             *)

TypeOK ==
    /\ TypeOKBase
    /\ pc \in {"scc", "wave", "pwc", "post", "call", "done", "final"}
    /\ wave \subseteq Node
    /\ order \subseteq Node \X Node
    /\ cur \subseteq Node
    /\ pending \subseteq Obj
    /\ copies \subseteq Node \X Node

(* Field nodes of objects that have become field-insensitive. *)
Dead == {o \in FieldObj : o[1] \in fi}

(* The graph only has representatives: merging (updateNodeRepAndSubs,      *)
(* moveEdgesToRepNode, removeConstraintNode) leaves no edge and no mapping *)
(* that leads to a node that was removed.  A gep edge is identified by its *)
(* kind and ends only (hasEdge): merging never makes two geps with         *)
(* different offsets meet, so none is dropped.                             *)
GraphConsistent ==
    /\ \A e \in edges : {e.src, e.dst} \subseteq nodes
    /\ \A e, g \in edges :
          e.kind = "ngep" /\ g.kind = "ngep" /\ e.src = g.src /\ e.dst = g.dst => e = g
    /\ \A n \in Node : repOf[n] # n => n \notin nodes
    /\ pc # "final" => \A n \in Node : repOf[repOf[n]] = repOf[n]

(* What difference propagation skips has really arrived: an object counted *)
(* as propagated from a node is in the points-to set of each of its copy   *)
(* successors, whatever merges, collapses and new edges came in between.   *)
PropagatedArrived ==
    \A e \in edges : e.kind = "copy" => propa[e.src] \ Dead \subseteq pts[e.dst]

(* What PropagatedArrived rests on: representatives represent themselves   *)
(* and are the ends of all edges, and what a node has propagated it still  *)
(* holds, up to the field nodes collapseField has replaced.                *)
RepsStable ==
    pc # "final" =>
        /\ \A n \in Node : repOf[repOf[n]] = repOf[n]
        /\ \A e \in edges : repOf[e.src] = e.src /\ repOf[e.dst] = e.dst

PropaKept == \A n \in Node : propa[n] \ Dead \subseteq pts[n]

IInv == TypeOK /\ RepsStable /\ PropaKept /\ PropagatedArrived

(* Between two nodes of the wave no points-to set holds a field node of a  *)
(* collapsed object: collapseField found them all through getRevPts.  And  *)
(* the assertion of cleanConsCG: a redundant field node was merged away,   *)
(* and nothing that getPts returns refers to it any more.                  *)
CollapsesComplete ==
    /\ Quiet => \A n \in nodes : pts[n] \cap Dead = {}
    /\ pc \in {"done", "final"} =>
          \A f \in redundant : f \notin nodes /\ \A n \in nodes : f \notin pts[n]

Solved == pc \in {"done", "final"}

(* The fixpoint covers the program as it was written, not only the graph   *)
(* that is left of it: every address, copy and gep statement holds between *)
(* the points-to sets of the representatives.                              *)
DirectSolved ==
    Solved =>
        /\ \A a \in prog.addr : FIObjVar(a[1]) \in GetPts(a[2]) \/ a[1] \in GetPts(a[2])
        /\ \A e \in prog.edges : e.kind \in DirectKind =>
               Flow(e, GetPts(e.src)) \subseteq GetPts(e.dst)

(* processLoad: src --load--> dst, node in pts(src) ==> node--copy-->dst. *)
LoadSolved ==
    Solved => \A e \in prog.edges : e.kind = "load" =>
        \A o \in GetPts(e.src) :
            o[1] \notin ConstObj => GetPts(o) \subseteq GetPts(e.dst)

(* processStore: src --store--> dst, node in pts(dst) ==> src--copy-->node; *)
(* and every load.                                                         *)
AccessesSolved ==
    /\ LoadSolved
    /\ Solved => \A e \in prog.edges : e.kind = "store" =>
          \A o \in GetPts(e.dst) :
              o[1] \notin ConstObj => GetPts(e.src) \subseteq GetPts(o)

(* updateCallGraph reached a fixpoint together with the points-to sets:    *)
(* no callee is missing, and arguments and results flow to and from all.   *)
CallsSolved ==
    Solved =>
        /\ Candidates = {} \/ Cardinality(calls) >= IndirectCallLimit
        /\ \A x \in calls : \A c \in ParamCopies(x[1], x[2]) :
               GetPts(c[1]) \subseteq GetPts(c[2])

(* Merged nodes stay merged, and an object stays field-insensitive: no     *)
(* later step may answer for one of them again on its own.                 *)
MergesKept ==
    [][/\ \A v, w \in Val : repOf[v] = repOf[w] => repOf'[v] = repOf'[w]
       /\ fi \subseteq fi']_vars

(* The loop of solveConstraints reaches a fixpoint. *)
Terminates == <>(pc = "final")
=============================================================================
