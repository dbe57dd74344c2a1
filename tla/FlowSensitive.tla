--------------------------- MODULE FlowSensitive ---------------------------
(***************************************************************************)
(* The sparse flow-sensitive analysis of class FlowSensitive.  Points-to   *)
(* sets of top-level variables are global; those of objects are kept at    *)
(* the entry and the exit of the nodes of the value-flow graph, in the     *)
(* incremental data structure IncDFPTData, which marks what changed and    *)
(* moves nothing else.  Indirect calls found between two rounds connect    *)
(* callers with callees, within the calls Andersen's analysis allows.      *)
(***************************************************************************)
EXTENDS ValueFlow

CONSTANT Solution \* any solution of the equations

ASSUME SolutionAssumption == Solution \in Solutions /\ Solves(Solution)

VARIABLES
    pts,       \* the points-to set of each variable
    dfIn,      \* and of each object in front of a node
    dfOut,     \* and behind it (stores only)
    inUpd,     \* the objects whose IN set has news for the node
    outUpd,    \* the objects whose OUT set has news for the successors
    worklist,
    callMap,   \* the indirect calls found so far
    connected, \* those whose edges are in the graph
    phase      \* "solve" or "done"

df == <<pts, dfIn, dfOut, inUpd, outUpd>>
calls == <<callMap, connected>>
vars == <<df, worklist, calls, phase>>

(* initWorklist: every node, in the order of the components; the model     *)
(* takes nodes from the list in any order.                                 *)
Init ==
    /\ pts = [v \in Var |-> {}]
    /\ dfIn = Nothing /\ dfOut = Nothing
    /\ inUpd = [n \in Node |-> {}] /\ outUpd = [n \in Node |-> {}]
    /\ worklist = Node
    /\ callMap = {} /\ connected = {}
    /\ phase = "solve"

-----------------------------------------------------------------------------
(* The graph, and what travels along its edges.                            *)

Dir == DirOf(connected)
Ind == IndOf(connected)

(* What leaves a node: OUT of a store, IN of any other node. *)
Flowing(n, out) == IF IsStore(n) THEN out[n] ELSE dfIn[n]

(* varHasNewDFInPts, varHasNewDFOutPts; the plain structure always says yes. *)
HasNew(upd, n) == IF Incremental THEN upd[n] ELSE Obj

(***************************************************************************)
(* propagate and clearAllDFOutVarFlag, after node n has been processed     *)
(* with the given sets.  propFromSrcToDst always puts the destination of a *)
(* direct edge on the worklist, unless the edge passes a parameter that    *)
(* brings nothing new.                                                     *)
(***************************************************************************)
Finish(n, changed, p, out, iu, ou) ==
    LET news == HasNew(IF IsStore(n) THEN ou ELSE iu, n)
        sent(m, o) == IF changed /\ o \in Carried(Ind, n, m) \cap news
                      THEN Flowing(n, out)[o] ELSE {}
        grown(m) == {o \in Obj : ~ (sent(m, o) \subseteq dfIn[m][o])}
        used == UNION {p[v] : v \in Uses(connected, n)}
        params == IF changed /\ IsParam(n) THEN {m \in Node : <<n, m>> \in Dir} ELSE {}
        late == {m \in params : ~ (used \subseteq p[Def[m]])}
        direct == IF changed /\ ~ IsParam(n) THEN {m \in Node : <<n, m>> \in Dir} ELSE {}
    IN  /\ pts' = [v \in Var |-> p[v] \cup
                      IF \E m \in params : Def[m] = v THEN used ELSE {}]
        /\ dfIn' = [m \in Node |-> [o \in Obj |-> dfIn[m][o] \cup sent(m, o)]]
        /\ inUpd' = [m \in Node |-> iu[m] \cup grown(m)]
        /\ dfOut' = out
        /\ outUpd' = [ou EXCEPT ![n] = {}]
        /\ worklist' = (worklist \ {n}) \cup direct \cup late
                          \cup {m \in Node : grown(m) # {}}
        /\ UNCHANGED <<calls, phase>>

Used(n) == UNION {pts[v] : v \in Uses(connected, n)}

(* unionPts of a top-level variable, then propagate if it grew. *)
(* Variant: propagate whether it grew or not. *)
AssignAlways(n, new, iu) ==
    Finish(n, TRUE, [pts EXCEPT ![Def[n]] = @ \cup new], dfOut, iu, outUpd)

Assign(n, new, iu) ==
    Finish(n, ~ (new \subseteq pts[Def[n]]),
           [pts EXCEPT ![Def[n]] = @ \cup new], dfOut, iu, outUpd)

-----------------------------------------------------------------------------
(* processSVFGNode, by the kind of the node.                               *)

(* A field-insensitive object is its own representative here. *)
ProcessAddr(n) == Kind[n] = "addr" /\ Assign(n, {AddrOf[n]}, inUpd)

ProcessCopy(n) == Kind[n] = "copy" /\ Assign(n, Used(n), inUpd)

ProcessPhi(n) == Kind[n] = "phi" /\ Assign(n, Used(n), inUpd)

(* Variant: a field is made of a field-insensitive object as well. *)
GepField(n) ==
    /\ Kind[n] = "gep"
    /\ Assign(n, {GepObj[n][o] : o \in Used(n)}, inUpd)

(* The objects of a variant gep are those Andersen's analysis has made     *)
(* field-insensitive; setObjFieldInsensitive makes no other so.            *)
ProcessGep(n) ==
    /\ Kind[n] = "gep"
    /\ Assign(n, Fields(n, Used(n)), inUpd)

(* updateTLVPts for every object the pointer has and that has news. *)
ProcessLoad(n) ==
    /\ Kind[n] = "load"
    /\ LET fresh == Read(pts[Ptr[n]]) \cap HasNew(inUpd, n) IN
       Assign(n, UNION {dfIn[n][o] : o \in fresh}, [inUpd EXCEPT ![n] = @ \ fresh])

(***************************************************************************)
(* processStore: updateATVPts for the targets, then updateAllDFOutFromIn,  *)
(* which leaves the mark of the object a strong update kills.              *)
(***************************************************************************)
StoreWith(n, kill, left) ==
    LET into == Written(pts[Ptr[n]])
        pass == HasNew(inUpd, n) \ kill
        new(o) == (IF o \in into THEN Used(n) ELSE {})
                     \cup (IF o \in pass THEN dfIn[n][o] ELSE {})
        grown == {o \in Obj : ~ (new(o) \subseteq dfOut[n][o])}
    IN  Finish(n, grown # {}, pts,
               [dfOut EXCEPT ![n] = [o \in Obj |-> @[o] \cup new(o)]],
               [inUpd EXCEPT ![n] = @ \ left],
               [outUpd EXCEPT ![n] = @ \cup grown])

(* Nothing passes a store whose pointer has no target yet. *)
NoTarget(n) == pts[Ptr[n]] = {} /\ Finish(n, FALSE, pts, dfOut, inUpd, outUpd)

(* Variants: the mark of the killed object is dropped; IN passes a store   *)
(* without targets.                                                        *)
StoreDropsMarks(n) ==
    /\ Kind[n] = "store"
    /\ \/ NoTarget(n)
       \/ pts[Ptr[n]] # {} /\ StoreWith(n, Killed(pts[Ptr[n]]), Obj)
StoreEager(n) ==
    /\ Kind[n] = "store"
    /\ StoreWith(n, Killed(pts[Ptr[n]]), HasNew(inUpd, n) \ Killed(pts[Ptr[n]]))

ProcessStore(n) ==
    /\ Kind[n] = "store"
    /\ \/ NoTarget(n)
       \/ pts[Ptr[n]] # {}
          /\ StoreWith(n, Killed(pts[Ptr[n]]), HasNew(inUpd, n) \ Killed(pts[Ptr[n]]))

(* Memory phis, formal and actual INs and OUTs, parameters, returns. *)
ProcessPass(n) ==
    /\ Kind[n] \in {"mssa", "aparm", "fparm", "fret", "aret"}
    /\ Finish(n, TRUE, pts, dfOut, inUpd, outUpd)

(* Comparisons and arithmetic define no pointer. *)
ProcessOther(n) == Kind[n] = "other" /\ Finish(n, FALSE, pts, dfOut, inUpd, outUpd)

ProcessNode(n) ==
    /\ phase = "solve"
    /\ n \in worklist
    /\ \/ ProcessAddr(n) \/ ProcessCopy(n) \/ ProcessPhi(n) \/ ProcessGep(n)
       \/ ProcessLoad(n) \/ ProcessStore(n) \/ ProcessPass(n) \/ ProcessOther(n)

-----------------------------------------------------------------------------
(* resolveIndCalls for every indirect call site. *)
NewCalls == {c \in Call : c[2] \in pts[FunPtr[c[1]]]} \ callMap

(* updateConnectedNodes: the marks of the source may be long gone, so all  *)
(* it has crosses a new edge.                                              *)
(* Variant: only what the marks announce crosses it.                       *)
BroughtMarked(conn) ==
    LET newInd == UNION {CallInd[c] : c \in conn \ connected}
        marked(n, o) == o \in HasNew(IF IsStore(n) THEN outUpd ELSE inUpd, n)
        sent(n, m, o) == IF o \in Carried(newInd, n, m) /\ marked(n, o)
                         THEN Flowing(n, dfOut)[o] ELSE {}
    IN  [m \in Node |-> [o \in Obj |-> UNION {sent(n, m, o) : n \in Node}]]

Brought(conn) ==
    LET newInd == UNION {CallInd[c] : c \in conn \ connected}
        sent(n, m, o) == IF o \in Carried(newInd, n, m) THEN Flowing(n, dfOut)[o] ELSE {}
    IN  [m \in Node |-> [o \in Obj |-> UNION {sent(n, m, o) : n \in Node}]]

(* The objects for which a new edge brings a node something new. *)
Late(conn) == [m \in Node |-> {o \in Obj : ~ (Brought(conn)[m][o] \subseteq dfIn[m][o])}]

(***************************************************************************)
(* updateCallGraph, when the worklist is empty: the calls found are bound  *)
(* by Andersen's call graph, then their edges are added.  Another round    *)
(* over all nodes follows if any call was found, bound away or not.        *)
(***************************************************************************)
Connect(again) ==
    /\ phase = "solve" /\ worklist = {}
    /\ callMap' = callMap \cup NewCalls
    /\ connected' = connected \cup (NewCalls \cap AndersCalls)
    /\ dfIn' = [m \in Node |-> [o \in Obj |-> dfIn[m][o] \cup Brought(connected')[m][o]]]
    /\ inUpd' = [m \in Node |-> inUpd[m] \cup Late(connected')[m]]
    /\ IF NewCalls = {}
       THEN phase' = "done" /\ UNCHANGED worklist
       ELSE worklist' = again /\ UNCHANGED phase
    /\ UNCHANGED <<pts, dfOut, outUpd>>

(* Variant: only the nodes a new edge brings something. *)
UpdateCallGraphLate ==
    Connect({m \in Node : Late(connected \cup (NewCalls \cap AndersCalls))[m] # {}})

UpdateCallGraph == Connect(Node)

Next ==
    \/ \E n \in worklist : ProcessNode(n)
    \/ UpdateCallGraph
    \/ phase = "done" /\ UNCHANGED vars

Spec == Init /\ [][Next]_vars

-----------------------------------------------------------------------------
(* Properties.                                                             *)

Answer == [pts |-> pts, in |-> dfIn, out |-> dfOut, conn |-> connected]

TypeOK ==
    /\ pts \in [Var -> SUBSET Obj]
    /\ dfIn \in [Node -> [Obj -> SUBSET Obj]]
    /\ dfOut \in [Node -> [Obj -> SUBSET Obj]]
    /\ inUpd \in [Node -> SUBSET Obj]
    /\ outUpd \in [Node -> SUBSET Obj]
    /\ worklist \subseteq Node
    /\ callMap \subseteq Call /\ connected = callMap \cap AndersCalls
    /\ phase \in {"solve", "done"}

(* A variable node n reads has changed, and its definition will say so. *)
Pending(n) ==
    \E m \in worklist : Kind[m] \in {"fparm", "aret"} /\ Def[m] \in Reads(connected, n)

(* The worklist forgets nothing: where an equation does not hold, the node *)
(* or the definition of what it reads is on the list.                      *)
WorklistCovers == \A n \in Node : n \in worklist \/ Pending(n) \/ Holds(Answer, n)

(* What a node has sent along an indirect edge has arrived.  Between two   *)
(* steps a store has nothing left to send; any other node that has is on   *)
(* the worklist.                                                           *)
FlowCovered ==
    /\ \A n \in Node : outUpd[n] = {}
    /\ \A n, m \in Node : \A o \in Carried(Ind, n, m) :
          \/ Flowing(n, dfOut)[o] \subseteq dfIn[m][o]
          \/ ~ IsStore(n) /\ n \in worklist /\ o \in HasNew(inUpd, n)

(* A load has read all that is not marked. *)
LoadCovered(n) ==
    \A o \in Obj \ HasNew(inUpd, n) : dfIn[n][o] \subseteq pts[Def[n]]

(* A store has let pass all that is neither marked nor killed. *)
StoreCovered(n) ==
    \A o \in Obj \ HasNew(inUpd, n) : dfIn[n][o] \subseteq dfOut[n][o]

(* The marks of the incremental structure forget nothing: whatever has not *)
(* been passed on is marked, also the content a strong update held back.   *)
MarksCover ==
    /\ FlowCovered
    /\ \A n \in Node :
          /\ Kind[n] = "load" => LoadCovered(n)
          /\ IsStore(n) => StoreCovered(n)

(* When the analysis ends every equation of the value-flow graph holds, of *)
(* the graph with the calls found on the way.                              *)
SolvedAtEnd == phase = "done" => Solves(Answer)

(* At no time and in no order does the analysis say more than a solution   *)
(* does: a strong update is never taken back for good, nothing is          *)
(* propagated before it is known what a store kills.                       *)
WithinSolution == Within(Answer, Solution)
=============================================================================
