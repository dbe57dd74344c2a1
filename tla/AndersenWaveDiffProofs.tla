----------------------- MODULE AndersenWaveDiffProofs -----------------------
(***************************************************************************)
(* What wave propagation keeps true for every program and every memory     *)
(* layout: its types, that no points-to fact skipped by difference         *)
(* propagation has been lost on the way, what merges and collapses leave   *)
(* of the graph, and in which cases the final sets solve the program.      *)
(***************************************************************************)
EXTENDS AndersenWaveDiff, FiniteSetTheorems, TLAPS

-----------------------------------------------------------------------------
(* The operators the actions are built from.                               *)

(* An object node is the base node or a field of its own object.           *)
LEMMA ObjParts ==
    /\ \A b \in Base : LastField(b) \in 0 .. (U32Half - 1) /\ LastField(b) \in Int
    /\ WholeObj = -1
    /\ \A b \in Base : \A i \in WholeObj .. LastField(b) : <<b, i>> \in Obj
    /\ \A b \in Base : \A i \in 0 .. LastField(b) : <<b, i>> \in FieldObj
    /\ \A o \in Obj : /\ o = <<o[1], o[2]>>
                     /\ o[1] \in Base
                     /\ o[2] \in WholeObj .. LastField(o[1])
    /\ \A o \in FieldObj : /\ o = <<o[1], o[2]>>
                          /\ o[1] \in Base
                          /\ o[2] \in 0 .. LastField(o[1])
<1>1. \A b \in Base : LastField(b) \in 0 .. (U32Half - 1) /\ LastField(b) \in Int
    BY MemObjectsAssumption DEF LastField
<1>2. \A o : o \in Obj <=> \E b \in Base : o \in {b} \X (WholeObj .. LastField(b))
    BY DEF Obj
<1>3. \A o : o \in FieldObj <=> \E b \in Base : o \in {b} \X (0 .. LastField(b))
    BY DEF FieldObj
<1> QED
    BY <1>1, <1>2, <1>3 DEF WholeObj

LEMMA ObjKinds ==
    /\ \A b \in Base : <<b, WholeObj>> \in Obj
    /\ \A o \in FieldObj : o[2] # WholeObj
    /\ \A o \in Obj : o[2] = WholeObj \/ o \in FieldObj
<1>1. ASSUME NEW b \in Base PROVE WholeObj \in WholeObj .. LastField(b)
    <2>1. LastField(b) \in 0 .. (U32Half - 1) /\ LastField(b) \in Int /\ WholeObj = -1
        BY ObjParts
    <2> QED
        BY <2>1
<1>2. \A o \in FieldObj : o[2] # WholeObj
    BY ObjParts
<1>3. ASSUME NEW o \in Obj, o[2] # WholeObj PROVE o \in FieldObj
    <2>1. o[1] \in Base /\ o[2] \in 0 .. LastField(o[1]) /\ o = <<o[1], o[2]>>
        BY <1>3, ObjParts
    <2> QED
        BY <2>1, ObjParts
<1> QED
    BY <1>1, <1>2, <1>3, ObjParts

(* getModulusOffset stays below the number of fields of the object, for    *)
(* offsets below 0 as well, as long as their absolute value fits u32_t.    *)
LEMMA ModulusOffsetType ==
    ASSUME NEW max \in 0 .. U32Half,
           NEW off \in - (2 * U32Half - 1) .. (2 * U32Half - 1)
    PROVE  GetModulusOffset(max, off) \in 0 .. (IF max = 0 THEN 0 ELSE max - 1)
<1> USE MemObjectsAssumption
<1>1. CASE max = 0
    BY <1>1 DEF GetModulusOffset
<1>2. CASE max # 0
    <2> DEFINE offset == Positive(off)
    <2>1. offset \in 0 .. (2 * U32Half - 1)
        BY DEF Positive
    <2> HIDE DEF offset
    <2> DEFINE inside == Rem(offset, max)
    <2>2. inside \in 0 .. (max - 1)
        BY <1>2, <2>1 DEF Rem
    <2>3. offset % (2 * U32Half) = offset
        BY <2>1
    <2>4. GetModulusOffset(max, off) = IF MaxFieldLimit < max THEN inside
                                       ELSE IF offset > max - 1
                                       THEN IF CyclicFldIdx THEN inside ELSE max - 1
                                       ELSE offset
        BY <1>2, <2>3, Zenon DEF GetModulusOffset, offset
    <2> HIDE DEF inside
    <2> QED
        BY <1>2, <2>1, <2>2, <2>4
<1> QED
    BY <1>1, <1>2

(* getGepObjVar returns a node of the same object.                         *)
LEMMA GepObjVarType ==
    ASSUME NEW S \in SUBSET Base, NEW o \in Obj, NEW off \in Offset
    PROVE  GetGepObjVar(S, o, off) \in Obj
<1> DEFINE idx == FieldIdx(o) + off
<1>1. /\ o[1] \in Base
      /\ o[2] \in WholeObj .. LastField(o[1])
      /\ LastField(o[1]) \in 0 .. (U32Half - 1)
      /\ WholeObj = -1
      /\ NumFields[o[1]] \in 0 .. U32Half
      /\ U32Half \in Nat \ {0}
    BY ObjParts, MemObjectsAssumption
<1>2. idx \in - (2 * U32Half - 1) .. (2 * U32Half - 1)
    BY <1>1 DEF FieldIdx, Offset
<1> HIDE DEF idx
<1>3. GetModulusOffset(NumFields[o[1]], idx) \in 0 .. LastField(o[1])
    BY <1>1, <1>2, ModulusOffsetType DEF LastField
<1>4. GetModulusOffset(NumFields[o[1]], idx) \in WholeObj .. LastField(o[1])
    BY <1>1, <1>3
<1>5. WholeObj \in WholeObj .. LastField(o[1])
    BY <1>1
<1> QED
    BY <1>1, <1>4, <1>5, ObjParts DEF GetGepObjVar, FIObjVar, idx

LEMMA FIObjVarType ==
    ASSUME NEW o \in Obj
    PROVE  FIObjVar(o) \in Obj /\ o[1] \in Base
<1>1. o[1] \in Base /\ WholeObj \in WholeObj .. LastField(o[1])
    BY ObjParts
<1> QED
    BY <1>1, ObjParts DEF FIObjVar

LEMMA FieldObjType == FieldObj \subseteq Obj
<1> SUFFICES ASSUME NEW o \in FieldObj PROVE o \in Obj
    OBVIOUS
<1>1. /\ o = <<o[1], o[2]>>
      /\ o[1] \in Base
      /\ o[2] \in WholeObj .. LastField(o[1])
    BY ObjParts
<1> QED
    BY <1>1, ObjParts

(* What flows along a direct edge are objects.                             *)
LEMMA FlowType ==
    ASSUME NEW e \in Edge, NEW S \in SUBSET Obj, fi \in SUBSET Base
    PROVE  Flow(e, S) \subseteq Obj
<1>1. e.off \in Offset
    BY DEF Edge
<1>2. \A o \in S : FIObjVar(o) \in Obj /\ GetGepObjVar(fi, o, e.off) \in Obj
    BY <1>1, FIObjVarType, GepObjVarType
<1>3. GepPts(e, S) \subseteq Obj
    BY <1>2 DEF GepPts
<1> QED
    BY <1>3 DEF Flow

(* A choice of representatives maps nodes to nodes, once and for all, and  *)
(* moves only ends of edges, and those onto ends of edges.                 *)
LEMMA SCCRepsType ==
    ASSUME NEW E \in SUBSET Edge, NEW r \in SCCReps(E)
    PROVE  /\ r \in [Node -> Node]
           /\ \A n \in Node : r[r[n]] = r[n]
           /\ \A n \in Node : r[n] = n \/ \E e \in E : r[n] \in {e.src, e.dst}
           /\ \A n \in Node : r[n] = n \/ \E e \in E : n \in {e.src, e.dst}
<1> DEFINE ends == {e.src : e \in E} \cup {e.dst : e \in E}
           big == {c \in Components(E) : Cardinality(c) > 1}
           Rep(root) == [n \in Node |-> IF \E c \in big : n \in c
                                        THEN root[CHOOSE c \in big : n \in c]
                                        ELSE n]
<1>1. ends \subseteq Node
    BY DEF Edge
<1>2. \A c \in big : c \subseteq ends
    BY DEF Components
<1>3. PICK root \in [big -> UNION big] : (\A c \in big : root[c] \in c) /\ r = Rep(root)
    BY DEF SCCReps
<1>4. \A n \in Node : r[n] = n \/ r[n] \in ends
    <2> SUFFICES ASSUME NEW n \in Node, \E c \in big : n \in c
                 PROVE  r[n] \in ends
        BY <1>3
    <2>1. (CHOOSE c \in big : n \in c) \in big
        OBVIOUS
    <2> HIDE DEF big, ends
    <2> QED
        BY <1>2, <1>3, <2>1
<1>5. r \in [Node -> Node]
    <2>1. r = [n \in Node |-> r[n]]
        BY <1>3
    <2> HIDE DEF ends
    <2> QED
        BY <1>1, <1>4, <2>1
<1>6. \A n \in Node : r[r[n]] = r[n]
    BY DEF SCCReps
<1>7. \A n \in Node : r[n] = n \/ n \in ends
    <2> HIDE DEF ends, big
    <2> QED
        BY <1>2, <1>3
<1> QED
    BY <1>4, <1>5, <1>6, <1>7

-----------------------------------------------------------------------------
(* Types.                                                                  *)

LEMMA MergeNodesType ==
    ASSUME TypeOK, NEW r \in [Node -> Node], NEW Q \in [Node -> SUBSET Obj],
           MergeNodes(r, Q)
    PROVE  /\ nodes' \subseteq Node
           /\ edges' \subseteq Edge
           /\ repOf' \in [Node -> Node]
           /\ pwc' \subseteq Node
           /\ pts' \in [Node -> SUBSET Obj]
           /\ propa' \in [Node -> SUBSET Obj]
<1> USE DEF TypeOK, TypeOKBase
<1>1. nodes' \subseteq Node
    BY DEF MergeNodes
<1>2. \A e \in edges : ReTarget(e, r) \in Edge
    BY DEF ReTarget, Edge
<1>3. edges' \subseteq Edge
    BY <1>2 DEF MergeNodes, MoveEdges
<1>4. repOf' \in [Node -> Node]
    BY DEF MergeNodes, MergedRep
<1>5. pwc' \subseteq Node
    BY DEF MergeNodes, GepInside, Edge
<1>6. pts' \in [Node -> SUBSET Obj]
    BY DEF MergeNodes
<1>7. propa' \in [Node -> SUBSET Obj]
    BY DEF MergeNodes, MergedPropa
<1> QED
    BY <1>1, <1>3, <1>4, <1>5, <1>6, <1>7

(* The merge a collapse asks for, and the sets it starts from.             *)
LEMMA CollapseParts ==
    ASSUME TypeOK, NEW o \in Obj
    PROVE  /\ CollapsedRep(o) \in [Node -> Node]
           /\ CollapsedPts(o) \in [Node -> SUBSET Obj]
           /\ FieldNodes(o) \subseteq FieldObj
           /\ \A n \in Node : CollapsedRep(o)[CollapsedRep(o)[n]] = CollapsedRep(o)[n]
<1>1. FIObjVar(o) \in Obj /\ FIObjVar(o) \in Node
    BY FIObjVarType DEF Node
<1> USE DEF TypeOK, TypeOKBase
<1>2. CollapsedRep(o) \in [Node -> Node]
    BY <1>1 DEF CollapsedRep
<1>3. CollapsedPts(o) \in [Node -> SUBSET Obj]
    BY <1>1 DEF CollapsedPts
<1>4. FieldNodes(o) \subseteq FieldObj
    BY DEF FieldNodes
<1>5. \A n \in Node : CollapsedRep(o)[CollapsedRep(o)[n]] = CollapsedRep(o)[n]
    BY <1>1 DEF CollapsedRep
<1> QED
    BY <1>2, <1>3, <1>4, <1>5

LEMMA CollapseFieldType ==
    ASSUME TypeOK, NEW o \in Obj, CollapseField(o)
    PROVE  /\ nodes' \subseteq Node
           /\ edges' \subseteq Edge
           /\ repOf' \in [Node -> Node]
           /\ pwc' \subseteq Node
           /\ pts' \in [Node -> SUBSET Obj]
           /\ propa' \in [Node -> SUBSET Obj]
           /\ fi' \subseteq Base
           /\ fields' \subseteq FieldObj
           /\ redundant' \subseteq Obj
           /\ worklist' \subseteq Node
           /\ reanalyze' \in BOOLEAN
           /\ Nested(o) \subseteq Obj
<1>1. CASE o[1] \in BlkOrConst
    BY <1>1 DEF CollapseField, graphVars, Nested, TypeOK, TypeOKBase
<1>2. CASE o[1] \notin BlkOrConst
    <2>1. /\ MergeNodes(CollapsedRep(o), CollapsedPts(o))
          /\ CollapsedRep(o) \in [Node -> Node]
          /\ CollapsedPts(o) \in [Node -> SUBSET Obj]
        BY <1>2, CollapseParts DEF CollapseField
    <2>2. /\ nodes' \subseteq Node
          /\ edges' \subseteq Edge
          /\ repOf' \in [Node -> Node]
          /\ pwc' \subseteq Node
          /\ pts' \in [Node -> SUBSET Obj]
          /\ propa' \in [Node -> SUBSET Obj]
        BY <2>1, MergeNodesType
    <2>3. FIObjVar(o) \in Node /\ o[1] \in Base
        BY FIObjVarType DEF Node
    <2>4. fi' \subseteq Base /\ fields' \subseteq FieldObj /\ reanalyze' \in BOOLEAN
        BY <1>2, <2>3 DEF CollapseField, TypeOK, TypeOKBase
    <2>5. redundant' \subseteq Obj
        BY <1>2, CollapseParts, FieldObjType
           DEF CollapseField, RedundantFields, TypeOK, TypeOKBase
    <2>6. worklist' \subseteq Node
        BY <1>2 DEF CollapseField, Hit, TypeOK, TypeOKBase
    <2>7. Nested(o) \subseteq Obj
        BY <2>2, <2>3 DEF Nested
    <2> QED
        BY <2>2, <2>4, <2>5, <2>6, <2>7
<1> QED
    BY <1>1, <1>2

LEMMA HandleCopyGepType ==
    ASSUME TypeOK, NEW n \in Node, HandleCopyGep(n)
    PROVE  TypeOKBase'
<1> DEFINE diff == Diff(n)
           out == {e \in edges : e.kind \in DirectKind /\ e.src = n}
           gained(m) == UNION {Flow(e, diff) : e \in {x \in out : repOf[x.dst] = m}}
           live == {o \in diff : o[1] \notin BlkOrConst \cup fi}
           variant == IF \E e \in out : e.kind = "vgep" THEN live ELSE {}
           created == UNION {GepPts(e, live) : e \in {x \in out : x.kind = "ngep"}}
<1> USE DEF TypeOK, TypeOKBase
<1>1. diff \subseteq Obj /\ live \subseteq Obj /\ variant \subseteq Obj
    BY DEF Diff
<1>2. \A m \in Node : gained(m) \subseteq Obj
    <2> HIDE DEF diff
    <2> QED
        BY <1>1, FlowType
<1>3. created \subseteq Obj
    <2>1. \A e \in out : e.kind = "ngep" => GepPts(e, live) \subseteq Obj
        <3> SUFFICES ASSUME NEW e \in out, e.kind = "ngep"
                     PROVE  GepPts(e, live) \subseteq Obj
            OBVIOUS
        <3>1. Flow(e, live) = GepPts(e, live)
            BY DEF Flow
        <3> HIDE DEF live
        <3> QED
            BY <1>1, <3>1, FlowType
    <2> HIDE DEF live
    <2> QED
        BY <2>1
<1>4. /\ propa' = [propa EXCEPT ![n] = pts[n]]
      /\ pts' = [m \in Node |-> pts[m] \cup gained(m)]
      /\ worklist' = worklist \cup {m \in nodes : ~ gained(m) \subseteq pts[m]}
      /\ fi' = fi \cup {o[1] : o \in variant}
      /\ toCollapse' = toCollapse \cup {FIObjVar(o) : o \in variant}
      /\ fields' = fields \cup {o \in created : o[2] # WholeObj}
      /\ nodes' = nodes \cup (created \ {o \in Node : repOf[o] # o})
      /\ UNCHANGED <<prog, edges, repOf, pwc, redundant, calls, reanalyze>>
    BY DEF HandleCopyGep
<1> HIDE DEF variant, created, gained
<1>5. fi' \subseteq Base /\ toCollapse' \subseteq Obj
    BY <1>1, <1>4, FIObjVarType
<1>6. {o \in created : o[2] # WholeObj} \subseteq FieldObj
    BY <1>3, ObjKinds
<1>7. nodes' \subseteq Node /\ fields' \subseteq FieldObj
    BY <1>3, <1>4, <1>6 DEF Node
<1>8. pts' \in [Node -> SUBSET Obj] /\ propa' \in [Node -> SUBSET Obj]
    BY <1>2, <1>4
<1>9. worklist' \subseteq Node
    BY <1>4
<1> QED
    BY <1>4, <1>5, <1>7, <1>8, <1>9

(* The copy edges a call asks for run between pointers.                    *)
LEMMA ParamCopiesType ==
    ASSUME TypeOK, NEW c \in prog.calls, NEW f \in Fun
    PROVE  ParamCopies(c, f) \subseteq Val \X Val
<1>1. c \in CallSite /\ FunInfo[f] \in Signature
    BY AndersenAssumption DEF TypeOK, TypeOKBase
<1>2. \A i \in DOMAIN c.args : c.args[i] \in Val
    BY <1>1 DEF CallSite
<1>3. \A i \in DOMAIN FunInfo[f].params : FunInfo[f].params[i] \in Val
    BY <1>1 DEF Signature
<1>4. \A j \in DOMAIN c.args : j <= Len(FunInfo[f].params) =>
                                j \in DOMAIN FunInfo[f].params
    BY <1>1 DEF CallSite, Signature
<1>5. c.dummyVal \in Val /\ (c.ret # NoVal => c.ret \in Val)
    BY <1>1 DEF CallSite
<1>6. /\ FunInfo[f].ret # NoVal => FunInfo[f].ret \in Val
      /\ FunInfo[f].vararg # NoVal => FunInfo[f].vararg \in Val
    BY <1>1 DEF Signature
<1>7. {<<c.args[i], FunInfo[f].params[i]>> :
          i \in {j \in DOMAIN c.args : j <= Len(FunInfo[f].params)}} \subseteq Val \X Val
    BY <1>2, <1>3, <1>4
<1>8. FunInfo[f].vararg # NoVal =>
          {<<c.args[i], FunInfo[f].vararg>> :
              i \in {j \in DOMAIN c.args : j > Len(FunInfo[f].params)}} \subseteq Val \X Val
    BY <1>2, <1>6
<1> QED
    BY <1>5, <1>6, <1>7, <1>8 DEF ParamCopies

LEMMA AddCopyEdgeType ==
    ASSUME TypeOK, NEW s \in Node, NEW d \in Node, AddCopyEdge(s, d)
    PROVE  edges' \subseteq Edge /\ propa' \in [Node -> SUBSET Obj]
<1>1. CopyEdge(repOf[s], repOf[d]) \in Edge
    <2>1. 0 \in Offset
        BY MemObjectsAssumption DEF Offset
    <2> QED
        BY <2>1 DEF CopyEdge, Edge, EdgeKind, DirectKind, TypeOK, TypeOKBase
<1> QED
    BY <1>1 DEF AddCopyEdge, TypeOK, TypeOKBase

LEMMA InitType == Init => TypeOK
<1> SUFFICES ASSUME Init PROVE TypeOK
    OBVIOUS
<1> USE DEF Init, InitBase
<1>1. /\ prog.addr \subseteq Obj \X Val
      /\ prog.edges \subseteq Edge
      /\ prog.calls \subseteq CallSite
      /\ prog.fi \subseteq Base
      /\ prog.fields \subseteq FieldObj
    BY AndersenAssumption
<1>2. nodes \subseteq Node
    <2>1. \A a \in prog.addr : {a[1], a[2], FIObjVar(a[1])} \subseteq Node
        BY <1>1, FIObjVarType DEF Node
    <2>2. \A e \in prog.edges : {e.src, e.dst} \subseteq Node
        BY <1>1 DEF Edge
    <2>3. \A c \in prog.calls : CallSiteVals(c) \subseteq Node
        BY <1>1 DEF CallSite, CallSiteVals, Node
    <2>4. \A f \in Fun : FunVals(f) \subseteq Node
        BY AndersenAssumption DEF Signature, FunVals, Node
    <2>5. \A o \in prog.fields : {o, FIObjVar(o)} \subseteq Node
        BY <1>1, FIObjVarType, FieldObjType DEF Node
    <2>6. nodes = ProgramNodes(prog)
        OBVIOUS
    <2> HIDE DEF Init, InitBase
    <2> QED
        BY <2>1, <2>2, <2>3, <2>4, <2>5, <2>6 DEF ProgramNodes
<1>3. pts \in [Node -> SUBSET Obj] /\ propa \in [Node -> SUBSET Obj]
    BY <1>1
<1>4. worklist \subseteq Node
    BY <1>1 DEF Node
<1> QED
    BY <1>1, <1>2, <1>3, <1>4 DEF TypeOK, TypeOKBase

LEMMA SCCDetectType == TypeOK /\ SCCDetect => TypeOK'
<1> SUFFICES ASSUME TypeOK, SCCDetect PROVE TypeOK'
    OBVIOUS
<1>1. PICK r \in SCCReps(edges) : MergeNodes(r, pts)
    BY DEF SCCDetect
<1>2. r \in [Node -> Node]
    BY SCCRepsType DEF TypeOK, TypeOKBase
<1>3. /\ nodes' \subseteq Node
      /\ edges' \subseteq Edge
      /\ repOf' \in [Node -> Node]
      /\ pwc' \subseteq Node
      /\ pts' \in [Node -> SUBSET Obj]
      /\ propa' \in [Node -> SUBSET Obj]
    BY <1>1, <1>2, MergeNodesType DEF TypeOK, TypeOKBase
<1>4. order' \subseteq Node \X Node
    BY <1>3 DEF SCCDetect, DirectPairs, Edge
<1> QED
    BY <1>3, <1>4 DEF SCCDetect, TypeOK, TypeOKBase, memVars

LEMMA CollapseNodePtsType ==
    ASSUME TypeOK, NEW o \in pending, CollapseNodePts(o)
    PROVE  TypeOK'
<1>0. o \in Obj
    BY DEF TypeOK
<1>1. CASE o[1] \in fi
    BY <1>1 DEF CollapseNodePts, TypeOK, TypeOKBase, baseVars, graphVars, memVars
<1>2. CASE o[1] \notin fi
    <2>1. CollapseField(o)
        BY <1>2 DEF CollapseNodePts
    <2> QED
        BY <1>0, <1>2, <2>1, CollapseFieldType DEF CollapseNodePts, TypeOK, TypeOKBase
<1> QED
    BY <1>1, <1>2

LEMMA CollapseFieldsType ==
    ASSUME TypeOK, NEW o \in toCollapse, CollapseFields(o)
    PROVE  TypeOK'
<1>1. o \in Obj /\ CollapseField(o)
    BY DEF TypeOK, TypeOKBase, CollapseFields
<1> QED
    BY <1>1, CollapseFieldType DEF CollapseFields, TypeOK, TypeOKBase

LEMMA ProcessNodeType == TypeOK /\ ProcessNode => TypeOK'
<1> SUFFICES ASSUME TypeOK, ProcessNode PROVE TypeOK'
    OBVIOUS
<1>1. PICK n \in cur : IF repOf[n] = n THEN HandleCopyGep(n) ELSE UNCHANGED baseVars
    BY DEF ProcessNode
<1>2. n \in Node
    BY DEF TypeOK
<1>3. TypeOKBase'
    <2>1. CASE repOf[n] = n
        BY <1>1, <1>2, <2>1, HandleCopyGepType
    <2>2. CASE repOf[n] # n
        BY <1>1, <2>2 DEF TypeOK, TypeOKBase, baseVars, graphVars, memVars
    <2> QED
        BY <2>1, <2>2
<1> QED
    BY <1>3 DEF ProcessNode, TypeOK

LEMMA UpdateCallGraphType == TypeOK /\ UpdateCallGraph => TypeOK'
<1> SUFFICES ASSUME TypeOK, UpdateCallGraph PROVE TypeOK'
    OBVIOUS
<1>1. PICK new \in NewCalls :
          /\ calls' = calls \cup new
          /\ copies' = UNION {ParamCopies(x[1], x[2]) : x \in new}
          /\ reanalyze' = (reanalyze \/ new # {})
          /\ pts' = [n \in Node |-> pts[n] \cup
                       {DummyObj(c) : c \in {d \in NewHeapSites(new) : d.dummyVal = n}}]
          /\ nodes' = nodes \cup UNION {HeapNodes(c) : c \in NewHeapSites(new)}
    BY DEF UpdateCallGraph
<1>2. new \subseteq prog.calls \X Fun
    BY DEF NewCalls, Candidates
<1>3. copies' \subseteq Node \X Node
    <2>1. \A x \in new : ParamCopies(x[1], x[2]) \subseteq Val \X Val
        BY <1>2, ParamCopiesType
    <2> QED
        BY <1>1, <2>1 DEF Node
<1>4. \A c \in NewHeapSites(new) : DummyObj(c) \in Obj /\ HeapNodes(c) \subseteq Node
    BY AndersenAssumption, ObjKinds
       DEF NewHeapSites, CallSite, DummyObj, HeapNodes, Node, TypeOK, TypeOKBase
<1>5. nodes' \subseteq Node /\ pts' \in [Node -> SUBSET Obj]
    BY <1>1, <1>4 DEF TypeOK, TypeOKBase
<1>6. calls' \subseteq prog.calls \X Fun /\ reanalyze' \in BOOLEAN
    BY <1>1, <1>2 DEF TypeOK, TypeOKBase
<1> QED
    BY <1>3, <1>5, <1>6 DEF UpdateCallGraph, TypeOK, TypeOKBase, memVars

(* Every step keeps the types. *)
LEMMA NextType == TypeOK /\ [Next]_vars => TypeOK'
<1> SUFFICES ASSUME TypeOK, [Next]_vars PROVE TypeOK'
    OBVIOUS
<1>1. CASE SCCDetect
    BY <1>1, SCCDetectType
<1>2. ASSUME NEW n \in wave, PopNode(n) PROVE TypeOK'
    <2>1. GetPts(n) \subseteq Obj
        BY DEF TypeOK, TypeOKBase, GetPts
    <2> QED
        BY <1>2, <2>1 DEF PopNode, TypeOK, TypeOKBase, baseVars, graphVars, memVars
<1>3. ASSUME NEW o \in pending, CollapseNodePts(o) PROVE TypeOK'
    BY <1>3, CollapseNodePtsType
<1>4. CASE ProcessNode
    BY <1>4, ProcessNodeType
<1>5. ASSUME NEW o \in toCollapse, CollapseFields(o) PROVE TypeOK'
    BY <1>5, CollapseFieldsType
<1>6. ASSUME NEW n \in worklist, PostProcessNode(n) PROVE TypeOK'
    <2>1. copies' \subseteq Node \X Node
        BY <1>6 DEF PostProcessNode, LoadCopies, StoreCopies, Edge, Node, TypeOK, TypeOKBase
    <2> QED
        BY <1>6, <2>1 DEF PostProcessNode, TypeOK, TypeOKBase, graphVars, memVars
<1>7. ASSUME NEW c \in copies, HandleLoadStore(c) PROVE TypeOK'
    <2>1. edges' \subseteq Edge /\ propa' \in [Node -> SUBSET Obj]
        BY <1>7, AddCopyEdgeType DEF HandleLoadStore, TypeOK
    <2> QED
        BY <1>7, <2>1 DEF HandleLoadStore, NewCopy, TypeOK, TypeOKBase, memVars
<1>8. ASSUME NEW c \in copies, ConnectParam(c) PROVE TypeOK'
    <2>1. edges' \subseteq Edge /\ propa' \in [Node -> SUBSET Obj]
        BY <1>8, AddCopyEdgeType DEF ConnectParam, TypeOK
    <2>2. worklist' \subseteq Node
        BY <1>8 DEF ConnectParam, TypeOK, TypeOKBase
    <2> QED
        BY <1>8, <2>1, <2>2 DEF ConnectParam, TypeOK, TypeOKBase, memVars
<1>9. CASE UpdateCallGraph
    BY <1>9, UpdateCallGraphType
<1>10. CASE NextIteration
    BY <1>10 DEF NextIteration, TypeOK, TypeOKBase, graphVars, memVars
<1>11. CASE Normalize
    BY <1>11 DEF Normalize, TypeOK, TypeOKBase
<1>12. CASE UNCHANGED vars
    BY <1>12 DEF vars, TypeOK, TypeOKBase, baseVars, graphVars, memVars
<1> QED
    BY <1>1, <1>2, <1>3, <1>4, <1>5, <1>6, <1>7, <1>8, <1>9, <1>10, <1>11, <1>12 DEF Next

(* TypeOK, for every program: the nodes, edges and sets of the solver are  *)
(* nodes, edges and sets of the constraint graph, and the offset           *)
(* arithmetic never leaves an object.                                      *)
THEOREM TypeCorrect == Spec => []TypeOK
<1> QED
    BY InitType, NextType, PTL DEF Spec

-----------------------------------------------------------------------------
(* Difference propagation.                                                 *)

(* Merging keeps the invariant, provided the sets it starts from differ    *)
(* from the current ones in dead field nodes only.                         *)
LEMMA MergeKeeps ==
    ASSUME IInv, pc # "final", fi \subseteq fi',
           NEW r \in [Node -> Node],
           \A n \in Node : r[r[n]] = r[n],
           \A n \in Node : r[n] = n \/ repOf[r[n]] = r[n],
           NEW Q \in [Node -> SUBSET Obj],
           \A n \in Node : pts[n] \ Dead' \subseteq Q[n],
           MergeNodes(r, Q)
    PROVE  RepsStable' /\ PropaKept' /\ PropagatedArrived'
<1> USE DEF IInv
<1>1. /\ repOf \in [Node -> Node]
      /\ edges \subseteq Edge
      /\ pts \in [Node -> SUBSET Obj]
      /\ propa \in [Node -> SUBSET Obj]
    BY DEF TypeOK, TypeOKBase
<1>2. \A e \in edges : e.src \in Node /\ e.dst \in Node
    BY <1>1 DEF Edge
<1>3. Dead \subseteq Dead'
    BY DEF Dead
<1>4. repOf' = [n \in Node |-> r[repOf[n]]]
    BY DEF MergeNodes, MergedRep
<1>5. \A x \in Node : repOf[x] = x => repOf'[r[x]] = r[x]
    <2> SUFFICES ASSUME NEW x \in Node, repOf[x] = x
                 PROVE  repOf'[r[x]] = r[x]
        OBVIOUS
    <2>1. repOf[r[x]] = r[x]
        OBVIOUS
    <2> QED
        BY <1>4, <2>1
<1>6. \A n \in Node : repOf'[repOf'[n]] = repOf'[n]
    BY <1>1, <1>4, <1>5 DEF RepsStable
<1>7. \A e \in edges' : \E d \in edges : /\ e.kind = d.kind
                                        /\ e.src = r[d.src]
                                        /\ e.dst = r[d.dst]
    BY <1>1 DEF MergeNodes, MoveEdges, ReTarget, Edge
<1>8. RepsStable'
    BY <1>2, <1>5, <1>6, <1>7 DEF RepsStable
<1>9. \A n \in Node : /\ propa'[n] \subseteq propa[n]
                     /\ propa'[r[n]] \subseteq propa[n]
    BY <1>1 DEF MergeNodes, MergedPropa
<1>10. \A n \in Node : Q[n] \subseteq pts'[n] /\ Q[n] \subseteq pts'[r[n]]
    BY DEF MergeNodes
<1>11. PropaKept'
    BY <1>3, <1>9, <1>10 DEF PropaKept
<1>12. PropagatedArrived'
    <2> SUFFICES ASSUME NEW e \in edges', e.kind = "copy"
                 PROVE  propa'[e.src] \ Dead' \subseteq pts'[e.dst]
        BY DEF PropagatedArrived
    <2>1. PICK d \in edges : d.kind = "copy" /\ e.src = r[d.src] /\ e.dst = r[d.dst]
        BY <1>7
    <2>2. d.src \in Node /\ d.dst \in Node
        BY <1>2
    <2>3. propa'[e.src] \ Dead' \subseteq propa[d.src] \ Dead
        BY <1>3, <1>9, <2>1, <2>2
    <2>4. propa[d.src] \ Dead \subseteq pts[d.dst]
        BY <2>1 DEF PropagatedArrived
    <2>5. pts[d.dst] \ Dead' \subseteq pts'[e.dst]
        BY <1>10, <2>1, <2>2
    <2> QED
        BY <2>3, <2>4, <2>5
<1> QED
    BY <1>8, <1>11, <1>12

LEMMA SCCDetectKeeps ==
    IInv /\ SCCDetect => RepsStable' /\ PropaKept' /\ PropagatedArrived'
<1> SUFFICES ASSUME IInv, SCCDetect
             PROVE  RepsStable' /\ PropaKept' /\ PropagatedArrived'
    OBVIOUS
<1>1. PICK r \in SCCReps(edges) : MergeNodes(r, pts)
    BY DEF SCCDetect
<1>2. edges \subseteq Edge /\ pts \in [Node -> SUBSET Obj]
    BY DEF IInv, TypeOK, TypeOKBase
<1>3. /\ r \in [Node -> Node]
      /\ \A n \in Node : r[r[n]] = r[n]
      /\ \A n \in Node : r[n] = n \/ \E e \in edges : r[n] \in {e.src, e.dst}
    BY <1>2, SCCRepsType
<1>4. pc # "final" /\ fi' = fi
    BY DEF SCCDetect, memVars
<1>5. \A n \in Node : r[n] = n \/ repOf[r[n]] = r[n]
    BY <1>3, <1>4 DEF IInv, RepsStable
<1> QED
    BY <1>1, <1>2, <1>3, <1>4, <1>5, MergeKeeps

LEMMA CollapseKeeps ==
    ASSUME IInv, pc # "final", NEW o \in Obj, CollapseField(o), pc' = pc
    PROVE  RepsStable' /\ PropaKept' /\ PropagatedArrived'
<1>1. CASE o[1] \in BlkOrConst
    BY <1>1 DEF CollapseField, graphVars, IInv, RepsStable, PropaKept, PropagatedArrived, Dead
<1>2. CASE o[1] \notin BlkOrConst
    <2>1. /\ fi' = fi \cup {o[1]}
          /\ MergeNodes(CollapsedRep(o), CollapsedPts(o))
        BY <1>2 DEF CollapseField
    <2>2. /\ CollapsedRep(o) \in [Node -> Node]
          /\ CollapsedPts(o) \in [Node -> SUBSET Obj]
          /\ FieldNodes(o) \subseteq FieldObj
          /\ \A n \in Node : CollapsedRep(o)[CollapsedRep(o)[n]] = CollapsedRep(o)[n]
        BY CollapseParts DEF IInv
    <2>3. FIObjVar(o) \in Node
        BY FIObjVarType DEF Node
    <2>4. \A n \in Node : \/ CollapsedRep(o)[n] = n
                         \/ repOf[CollapsedRep(o)[n]] = CollapsedRep(o)[n]
        BY <2>3 DEF CollapsedRep, IInv, RepsStable
    <2>5. FieldNodes(o) \subseteq Dead'
        BY <2>1, <2>2 DEF FieldNodes, Dead
    <2>6. \A n \in Node : pts[n] \ Dead' \subseteq CollapsedPts(o)[n]
        BY <2>5 DEF CollapsedPts
    <2> QED
        BY <2>1, <2>2, <2>4, <2>6, MergeKeeps
<1> QED
    BY <1>1, <1>2

LEMMA ProcessNodeKeeps ==
    IInv /\ ProcessNode => RepsStable' /\ PropaKept' /\ PropagatedArrived'
<1> SUFFICES ASSUME IInv, ProcessNode
             PROVE  RepsStable' /\ PropaKept' /\ PropagatedArrived'
    OBVIOUS
<1>1. PICK n \in cur : IF repOf[n] = n THEN HandleCopyGep(n) ELSE UNCHANGED baseVars
    BY DEF ProcessNode
<1>2. /\ n \in Node
      /\ edges \subseteq Edge
      /\ pts \in [Node -> SUBSET Obj]
      /\ propa \in [Node -> SUBSET Obj]
      /\ pc # "final"
    BY DEF IInv, TypeOK, TypeOKBase, ProcessNode
<1>3. CASE repOf[n] # n
    BY <1>1, <1>2, <1>3 DEF baseVars, graphVars, memVars, IInv, RepsStable, PropaKept,
                            PropagatedArrived, Dead
<1>4. CASE repOf[n] = n
    <2> DEFINE diff == Diff(n)
               out == {e \in edges : e.kind \in DirectKind /\ e.src = n}
               gained(m) == UNION {Flow(e, diff) : e \in {x \in out : repOf[x.dst] = m}}
    <2>1. /\ propa' = [propa EXCEPT ![n] = pts[n]]
          /\ pts' = [m \in Node |-> pts[m] \cup gained(m)]
          /\ fi \subseteq fi'
          /\ UNCHANGED <<edges, repOf>>
        BY <1>1, <1>4 DEF HandleCopyGep
    <2>2. Dead \subseteq Dead'
        BY <2>1 DEF Dead
    <2>3. RepsStable'
        BY <1>2, <2>1 DEF RepsStable, IInv
    <2>4. \A e \in edges : e.kind = "copy" /\ e.src = n => diff \subseteq pts'[e.dst]
        <3> SUFFICES ASSUME NEW e \in edges, e.kind = "copy", e.src = n
                     PROVE  diff \subseteq pts'[e.dst]
            OBVIOUS
        <3>1. e \in out /\ repOf[e.dst] = e.dst /\ e.dst \in Node
            BY <1>2 DEF DirectKind, IInv, RepsStable, Edge
        <3>2. Flow(e, diff) = diff
            BY DEF Flow
        <3>3. diff \subseteq gained(e.dst)
            BY <3>1, <3>2
        <3> HIDE DEF gained
        <3> QED
            BY <2>1, <3>1, <3>3
    <2> HIDE DEF gained
    <2>5. \A m \in Node : pts[m] \subseteq pts'[m]
        BY <2>1
    <2>6. PropaKept'
        <3> SUFFICES ASSUME NEW m \in Node PROVE propa'[m] \ Dead' \subseteq pts'[m]
            BY DEF PropaKept
        <3>1. CASE m = n
            BY <1>2, <2>1, <2>5, <3>1
        <3>2. CASE m # n
            BY <1>2, <2>1, <2>2, <2>5, <3>2 DEF IInv, PropaKept
        <3> QED
            BY <3>1, <3>2
    <2>7. PropagatedArrived'
        <3> SUFFICES ASSUME NEW e \in edges, e.kind = "copy"
                     PROVE  propa'[e.src] \ Dead' \subseteq pts'[e.dst]
            BY <2>1 DEF PropagatedArrived
        <3>1. e.src \in Node /\ e.dst \in Node
            BY <1>2 DEF Edge
        <3>2. propa[e.src] \ Dead' \subseteq pts'[e.dst]
            BY <2>2, <2>5, <3>1 DEF IInv, PropagatedArrived
        <3>3. CASE e.src # n
            BY <1>2, <2>1, <3>1, <3>2, <3>3
        <3>4. CASE e.src = n
            <4>1. propa'[n] = pts[n]
                BY <1>2, <2>1
            <4> QED
                BY <2>4, <3>2, <3>4, <4>1 DEF Diff
        <3> QED
            BY <3>3, <3>4
    <2> QED
        BY <2>3, <2>6, <2>7
<1> QED
    BY <1>3, <1>4

(* A new copy edge forgets what its source has propagated but its          *)
(* destination has not: the rest has already arrived there.                *)
LEMMA AddCopyEdgeKeeps ==
    ASSUME IInv, NEW s \in Node, NEW d \in Node, AddCopyEdge(s, d),
           pc # "final", UNCHANGED <<repOf, pts, fi>>
    PROVE  RepsStable' /\ PropaKept' /\ PropagatedArrived'
<1>1. /\ repOf \in [Node -> Node]
      /\ edges \subseteq Edge
      /\ pts \in [Node -> SUBSET Obj]
      /\ propa \in [Node -> SUBSET Obj]
    BY DEF IInv, TypeOK, TypeOKBase
<1>2. Dead' = Dead
    BY DEF Dead
<1>3. CASE ~ NewCopy(s, d)
    BY <1>2, <1>3 DEF AddCopyEdge, IInv, RepsStable, PropaKept, PropagatedArrived
<1>4. CASE NewCopy(s, d)
    <2>1. /\ edges' = edges \cup {CopyEdge(repOf[s], repOf[d])}
          /\ propa' = [propa EXCEPT ![repOf[s]] = @ \cap propa[repOf[d]]]
        BY <1>4 DEF AddCopyEdge
    <2>2. RepsStable'
        BY <1>1, <2>1 DEF IInv, RepsStable, CopyEdge
    <2>3. \A n \in Node : propa'[n] \subseteq propa[n]
        BY <1>1, <2>1
    <2>4. PropaKept'
        BY <1>2, <2>3 DEF IInv, PropaKept
    <2>5. ASSUME NEW e \in edges, e.kind = "copy"
          PROVE  propa'[e.src] \ Dead' \subseteq pts'[e.dst]
        BY <1>1, <1>2, <2>3, <2>5 DEF IInv, PropagatedArrived, Edge
    <2>6. propa'[repOf[s]] \ Dead' \subseteq pts'[repOf[d]]
        BY <1>1, <1>2, <2>1 DEF IInv, PropaKept
    <2>7. PropagatedArrived'
        BY <2>1, <2>5, <2>6 DEF PropagatedArrived, CopyEdge
    <2> QED
        BY <2>2, <2>4, <2>7
<1> QED
    BY <1>3, <1>4

LEMMA InitKeeps == Init => IInv
<1> SUFFICES ASSUME Init PROVE IInv
    OBVIOUS
<1>1. TypeOK
    BY InitType
<1>2. repOf = [n \in Node |-> n] /\ propa = [n \in Node |-> {}]
    BY DEF Init, InitBase
<1>3. \A e \in edges : e.src \in Node /\ e.dst \in Node
    BY <1>1 DEF TypeOK, TypeOKBase, Edge
<1> QED
    BY <1>1, <1>2, <1>3 DEF IInv, RepsStable, PropaKept, PropagatedArrived

(* Every step keeps the inductive invariant.                               *)
LEMMA NextKeeps == IInv /\ [Next]_vars => IInv'
<1> SUFFICES ASSUME IInv, [Next]_vars PROVE RepsStable' /\ PropaKept' /\ PropagatedArrived'
    BY NextType DEF IInv
<1>0. TypeOK
    BY DEF IInv
<1>1. CASE SCCDetect
    BY <1>1, SCCDetectKeeps
<1>2. ASSUME NEW n \in wave, PopNode(n)
      PROVE  RepsStable' /\ PropaKept' /\ PropagatedArrived'
    BY <1>2 DEF PopNode, Quiet, baseVars, graphVars, memVars, IInv, RepsStable, PropaKept,
                PropagatedArrived, Dead
<1>3. ASSUME NEW o \in pending, CollapseNodePts(o)
      PROVE  RepsStable' /\ PropaKept' /\ PropagatedArrived'
    <2>1. pc # "final" /\ pc' = pc /\ o \in Obj
        BY <1>0, <1>3 DEF CollapseNodePts, TypeOK
    <2>2. CASE o[1] \in fi
        BY <1>3, <2>1, <2>2 DEF CollapseNodePts, baseVars, graphVars, memVars, IInv,
                                RepsStable, PropaKept, PropagatedArrived, Dead
    <2>3. CASE o[1] \notin fi
        <3>1. CollapseField(o)
            BY <1>3, <2>3 DEF CollapseNodePts
        <3> QED
            BY <2>1, <3>1, CollapseKeeps
    <2> QED
        BY <2>2, <2>3
<1>4. CASE ProcessNode
    BY <1>4, ProcessNodeKeeps
<1>5. ASSUME NEW o \in toCollapse, CollapseFields(o)
      PROVE  RepsStable' /\ PropaKept' /\ PropagatedArrived'
    <2>1. pc # "final" /\ pc' = pc /\ o \in Obj /\ CollapseField(o)
        BY <1>0, <1>5 DEF CollapseFields, TypeOK, TypeOKBase
    <2> QED
        BY <2>1, CollapseKeeps
<1>6. ASSUME NEW n \in worklist, PostProcessNode(n)
      PROVE  RepsStable' /\ PropaKept' /\ PropagatedArrived'
    BY <1>6 DEF PostProcessNode, Post, Quiet, graphVars, memVars, IInv, RepsStable, PropaKept,
                PropagatedArrived, Dead
<1>7. ASSUME NEW c \in copies, HandleLoadStore(c)
      PROVE  RepsStable' /\ PropaKept' /\ PropagatedArrived'
    <2>1. /\ c[1] \in Node /\ c[2] \in Node /\ AddCopyEdge(c[1], c[2])
          /\ pc # "final" /\ UNCHANGED <<repOf, pts, fi>>
        BY <1>0, <1>7 DEF HandleLoadStore, memVars, TypeOK
    <2> QED
        BY <2>1, AddCopyEdgeKeeps
<1>8. ASSUME NEW c \in copies, ConnectParam(c)
      PROVE  RepsStable' /\ PropaKept' /\ PropagatedArrived'
    <2>1. /\ c[1] \in Node /\ c[2] \in Node /\ AddCopyEdge(c[1], c[2])
          /\ pc # "final" /\ UNCHANGED <<repOf, pts, fi>>
        BY <1>0, <1>8 DEF ConnectParam, memVars, TypeOK
    <2> QED
        BY <2>1, AddCopyEdgeKeeps
<1>9. CASE UpdateCallGraph
    <2>1. UNCHANGED <<edges, repOf, propa, fi>> /\ pc # "final"
        BY <1>9 DEF UpdateCallGraph, Post, Quiet, memVars
    <2>2. \A n \in Node : pts[n] \subseteq pts'[n]
        BY <1>9 DEF UpdateCallGraph
    <2>3. \A e \in edges : e.dst \in Node
        BY <1>0 DEF TypeOK, TypeOKBase, Edge
    <2> QED
        BY <2>1, <2>2, <2>3 DEF IInv, RepsStable, PropaKept, PropagatedArrived, Dead
<1>10. CASE NextIteration
    BY <1>10 DEF NextIteration, graphVars, memVars, IInv, RepsStable, PropaKept,
                 PropagatedArrived, Dead
<1>11. CASE Normalize
    BY <1>11 DEF Normalize, IInv, RepsStable, PropaKept, PropagatedArrived, Dead
<1>12. CASE UNCHANGED vars
    BY <1>12 DEF vars, baseVars, graphVars, memVars, IInv, RepsStable, PropaKept,
                 PropagatedArrived, Dead
<1> QED
    BY <1>1, <1>2, <1>3, <1>4, <1>5, <1>6, <1>7, <1>8, <1>9, <1>10, <1>11, <1>12 DEF Next

(* PropagatedArrived, for every program: whatever merging, collapsing and  *)
(* new copy edges do between two visits of a node, the part of its set     *)
(* that handleCopyGep will not look at again is already at every copy      *)
(* successor.                                                              *)
THEOREM DifferencePropagationSound == Spec => []PropagatedArrived
<1>1. Init => IInv
    BY InitKeeps
<1>2. IInv /\ [Next]_vars => IInv'
    BY NextKeeps
<1>3. IInv => PropagatedArrived
    BY DEF IInv
<1> QED
    BY <1>1, <1>2, <1>3, PTL DEF Spec

-----------------------------------------------------------------------------
(* Merging is final.                                                       *)

(* Collapsing merges on top of the representatives there are, and only     *)
(* adds field-insensitive objects.                                         *)
LEMMA CollapseMerges ==
    ASSUME TypeOK, NEW o \in Obj, CollapseField(o)
    PROVE  /\ \A v, w \in Node : repOf[v] = repOf[w] => repOf'[v] = repOf'[w]
           /\ fi \subseteq fi'
BY DEF CollapseField, MergeNodes, MergedRep, graphVars

(* MergesKept, for every program: two pointers that share a representative *)
(* share one for ever, also after normalizePointsTo, which only gives      *)
(* redundant field nodes their own identity back.                          *)
THEOREM MergesAreFinal == Spec => MergesKept
<1> DEFINE Keep == /\ \A v, w \in Val : repOf[v] = repOf[w] => repOf'[v] = repOf'[w]
                   /\ fi \subseteq fi'
<1>1. TypeOK /\ [Next]_vars => [Keep]_vars
    <2> SUFFICES ASSUME TypeOK, Next PROVE Keep
        OBVIOUS
    <2>0. Val \subseteq Node
        BY DEF Node
    <2>1. CASE SCCDetect
        <3>1. PICK r \in SCCReps(edges) : MergeNodes(r, pts)
            BY <2>1 DEF SCCDetect
        <3> QED
            BY <2>0, <2>1, <3>1 DEF MergeNodes, MergedRep, SCCDetect, memVars
    <2>2. CASE \E o \in pending : CollapseNodePts(o)
        <3>1. PICK o \in pending : CollapseNodePts(o)
            BY <2>2
        <3>2. CASE UNCHANGED baseVars
            BY <3>2 DEF baseVars, graphVars, memVars
        <3>3. CASE CollapseField(o)
            BY <2>0, <3>3, CollapseMerges DEF TypeOK
        <3> QED
            BY <3>1, <3>2, <3>3 DEF CollapseNodePts
    <2>3. CASE \E o \in toCollapse : CollapseFields(o)
        <3>1. PICK o \in toCollapse : CollapseField(o) /\ o \in Obj
            BY <2>3 DEF CollapseFields, TypeOK, TypeOKBase
        <3> QED
            BY <2>0, <3>1, CollapseMerges
    <2>4. CASE ProcessNode
        <3>1. PICK n \in cur : HandleCopyGep(n) \/ UNCHANGED baseVars
            BY <2>4 DEF ProcessNode
        <3>2. CASE HandleCopyGep(n)
            BY <3>2 DEF HandleCopyGep
        <3>3. CASE UNCHANGED baseVars
            BY <3>3 DEF baseVars, graphVars, memVars
        <3> QED
            BY <3>1, <3>2, <3>3
    <2>5. CASE Normalize
        <3>1. \A v \in Val : v \notin redundant
            BY AndersenAssumption DEF TypeOK, TypeOKBase
        <3>2. \A v \in Val : repOf'[v] = repOf[v]
            BY <2>0, <2>5, <3>1 DEF Normalize
        <3>3. fi' = fi
            BY <2>5 DEF Normalize
        <3> QED
            BY <3>2, <3>3
    <2>6. CASE /\ ~ SCCDetect
               /\ ~ (\E o \in pending : CollapseNodePts(o))
               /\ ~ (\E o \in toCollapse : CollapseFields(o))
               /\ ~ ProcessNode
               /\ ~ Normalize
        <3>1. UNCHANGED <<repOf, fi>>
            BY <2>6 DEF Next, PopNode, PostProcessNode, HandleLoadStore, ConnectParam,
                        UpdateCallGraph, NextIteration, vars, baseVars, graphVars, memVars
        <3> QED
            BY <3>1
    <2> QED
        BY <2>1, <2>2, <2>3, <2>4, <2>5, <2>6
<1>2. MergesKept <=> [][Keep]_vars
    BY DEF MergesKept
<1> QED
    BY <1>1, <1>2, TypeCorrect, PTL DEF Spec

-----------------------------------------------------------------------------
(* Collapsing.                                                             *)

(* What collapsing keeps true.  A field node in a points-to set is known   *)
(* (memToFieldsMap), and if its object is field-insensitive the object is  *)
(* waiting to be collapsed; the nodes collapsed away are neither in the    *)
(* graph nor their own representatives.                                    *)
CollapseInvariant ==
    /\ pc # "final" => \A n \in Node : pts[n] \cap FieldObj \subseteq fields
    /\ \A n \in Node : \A f \in pts[n] \cap Dead : FIObjVar(f) \in toCollapse
    /\ \A o \in toCollapse : o[1] \notin BlkOrConst
    /\ pc \in {"scc", "post", "call", "done", "final"} => toCollapse = {}
    /\ redundant \subseteq Dead
    /\ redundant \cap nodes = {}
    /\ pc # "final" => /\ \A f \in redundant : repOf[f] # f
                       /\ \A n \in nodes \cap FieldObj : repOf[n] = n

LEMMA FIObjVarWhole ==
    ASSUME NEW o \in Obj
    PROVE  /\ FIObjVar(o) \notin FieldObj
           /\ FIObjVar(o)[1] = o[1]
           /\ FIObjVar(FIObjVar(o)) = FIObjVar(o)
BY ObjKinds DEF FIObjVar

(* Objects with the same base have the same base node.                     *)
LEMMA SameBase ==
    ASSUME NEW o \in Obj, NEW f \in Obj, o[1] = f[1]
    PROVE  FIObjVar(o) = FIObjVar(f)
BY DEF FIObjVar

LEMMA CollapseInit == Init => CollapseInvariant
<1> SUFFICES ASSUME Init PROVE CollapseInvariant
    OBVIOUS
<1>1. prog \in Programs /\ TypeOK
    BY InitType DEF Init, InitBase
<1>2. \A n \in Node : pts[n] \cap FieldObj = {}
    <2> SUFFICES ASSUME NEW n \in Node, NEW a \in prog.addr PROVE a[1] \notin FieldObj
        BY DEF Init, InitBase
    <2>1. a[1] = FIObjVar(a[1]) /\ a[1] \in Obj
        BY <1>1, AndersenAssumption, ProgramsAssumption DEF AddressesWhole
    <2> QED
        BY <2>1, FIObjVarWhole
<1>3. redundant = {} /\ toCollapse = {} /\ repOf = [n \in Node |-> n]
    BY DEF Init, InitBase
<1>4. Dead \subseteq FieldObj
    BY DEF Dead
<1>5. \A n \in nodes \cap FieldObj : repOf[n] = n
    BY <1>1, <1>3 DEF TypeOK, TypeOKBase
<1> QED
    BY <1>2, <1>3, <1>4, <1>5 DEF CollapseInvariant

(* Merging brings no redundant node back: a node is moved onto one that    *)
(* represents itself, which no redundant node does.                        *)
LEMMA MergeDrops ==
    ASSUME TypeOK, CollapseInvariant, pc # "final",
           NEW r \in [Node -> Node],
           \A n \in Node : r[r[n]] = r[n],
           \A n \in Node : r[n] = n \/ repOf[r[n]] = r[n],
           NEW Q, MergeNodes(r, Q)
    PROVE  /\ redundant \cap nodes' = {}
           /\ \A f \in redundant : repOf'[f] # f
           /\ \A n \in nodes' \cap FieldObj : repOf'[n] = n
<1>1. /\ repOf \in [Node -> Node]
      /\ nodes \subseteq Node
      /\ redundant \subseteq Obj
    BY DEF TypeOK, TypeOKBase
<1>2. redundant \subseteq Node /\ redundant \subseteq FieldObj
    BY <1>1 DEF Node, CollapseInvariant, Dead
<1>3. /\ nodes' = {r[n] : n \in nodes}
      /\ repOf' = [n \in Node |-> r[repOf[n]]]
    BY DEF MergeNodes, MergedRep
<1>4. /\ redundant \cap nodes = {}
      /\ \A f \in redundant : repOf[f] # f
      /\ \A n \in nodes \cap FieldObj : repOf[n] = n
    BY DEF CollapseInvariant
<1>5. ASSUME NEW m \in nodes PROVE r[m] \notin redundant
    BY <1>1, <1>4
<1>6. ASSUME NEW f \in redundant PROVE repOf'[f] # f
    <2>1. repOf[f] \in Node /\ repOf'[f] = r[repOf[f]]
        BY <1>1, <1>2, <1>3
    <2>2. CASE r[repOf[f]] = repOf[f]
        BY <1>4, <2>1, <2>2
    <2>3. CASE repOf[r[repOf[f]]] = r[repOf[f]]
        BY <1>4, <2>1, <2>3
    <2> QED
        BY <2>1, <2>2, <2>3
<1>7. ASSUME NEW m \in nodes, r[m] \in FieldObj PROVE repOf'[r[m]] = r[m]
    <2>1. repOf[r[m]] = r[m]
        BY <1>1, <1>4, <1>7
    <2> QED
        BY <1>1, <1>3, <2>1
<1> QED
    BY <1>3, <1>5, <1>6, <1>7

(* collapseField: no field node of the object is left in a points-to set,  *)
(* so what the other sets wait for still covers the rest.                  *)
LEMMA CollapseFieldDrops ==
    ASSUME TypeOK, RepsStable, CollapseInvariant, pc # "final",
           NEW o \in Obj, CollapseField(o), pc' = pc,
           toCollapse' = toCollapse \/ (o \in toCollapse /\ toCollapse' = toCollapse \ {o})
    PROVE  CollapseInvariant'
<1>1. /\ repOf \in [Node -> Node]
      /\ pts \in [Node -> SUBSET Obj]
      /\ fields \subseteq FieldObj
      /\ redundant \subseteq Obj
    BY DEF TypeOK, TypeOKBase
<1>2. \A f \in Obj : f[1] # o[1] => FIObjVar(f) # o
    BY FIObjVarWhole
<1>3. Dead \subseteq Obj /\ FieldObj \subseteq Obj
    BY FieldObjType DEF Dead
<1>4. CASE o[1] \in BlkOrConst
    <2>1. UNCHANGED <<nodes, repOf, pts, fi, fields, redundant>>
        BY <1>4 DEF CollapseField, graphVars
    <2>2. \A n \in Node : \A f \in pts[n] \cap Dead : FIObjVar(f) \in toCollapse'
        <3> SUFFICES ASSUME NEW n \in Node, NEW f \in pts[n] \cap Dead
                     PROVE  FIObjVar(f) \in toCollapse'
            OBVIOUS
        <3>1. FIObjVar(f) \in toCollapse /\ FIObjVar(f)[1] \notin BlkOrConst
            BY DEF CollapseInvariant
        <3> QED
            BY <1>4, <3>1
    <2> QED
        BY <2>1, <2>2 DEF CollapseInvariant, Dead
<1>5. CASE o[1] \notin BlkOrConst
    <2> DEFINE r == CollapsedRep(o)
               Q == CollapsedPts(o)
               base == FIObjVar(o)
    <2>1. /\ fi' = fi \cup {o[1]}
          /\ redundant' = redundant \cup RedundantFields(o)
          /\ fields' = fields
          /\ MergeNodes(r, Q)
        BY <1>5 DEF CollapseField
    <2>2. /\ r \in [Node -> Node]
          /\ \A n \in Node : r[r[n]] = r[n]
          /\ Q \in [Node -> SUBSET Obj]
        BY CollapseParts
    <2>3. base \in Node /\ base \notin FieldObj /\ base \in Obj /\ repOf[base] \in Node
        BY <1>1, FIObjVarType, FIObjVarWhole DEF Node
    <2>4. \A n \in Node : r[n] = n \/ repOf[r[n]] = r[n]
        BY <2>3 DEF CollapsedRep, RepsStable
    <2>5. /\ redundant \cap nodes' = {}
          /\ \A f \in redundant : repOf'[f] # f
          /\ \A n \in nodes' \cap FieldObj : repOf'[n] = n
        <3> HIDE DEF r, Q
        <3> QED
            BY <2>1, <2>2, <2>4, MergeDrops
    <2>6. ASSUME NEW f \in RedundantFields(o)
          PROVE  f \notin nodes' /\ repOf'[f] # f
        <3>1. f \in fields /\ f[1] = o[1] /\ f # repOf[base] /\ f \in Node /\ f \in FieldObj
            BY <1>1, <1>3 DEF RedundantFields, FieldNodes, Node
        <3>2. r[repOf[f]] = repOf[base]
            BY <1>1, <3>1 DEF CollapsedRep, FieldNodes
        <3>3. repOf'[f] # f
            BY <2>1, <3>1, <3>2 DEF MergeNodes, MergedRep
        <3>4. \A m \in nodes : r[m] # f
            <4> SUFFICES ASSUME NEW m \in nodes, r[m] = f PROVE FALSE
                OBVIOUS
            <4>1. m \in Node
                BY DEF TypeOK, TypeOKBase
            <4>2. m = f /\ ~ \E h \in FieldNodes(o) : m = repOf[h]
                BY <3>1, <4>1 DEF CollapsedRep
            <4>3. repOf[f] = f
                BY <3>1, <4>2 DEF CollapseInvariant
            <4> QED
                BY <3>1, <4>2, <4>3 DEF FieldNodes
        <3> QED
            BY <2>1, <3>3, <3>4 DEF MergeNodes
    <2>7. \A n \in Node : \A f \in pts'[n] \cap FieldObj : f[1] # o[1] /\ \E m \in Node : f \in pts[m]
        <3>1. \A m \in Node : \A f \in Q[m] \cap FieldObj : f[1] # o[1] /\ f \in pts[m]
            <4> SUFFICES ASSUME NEW m \in Node, NEW f \in Q[m], f \in FieldObj
                         PROVE  f[1] # o[1] /\ f \in pts[m]
                OBVIOUS
            <4>1. f \in pts[m]
                BY <2>3 DEF CollapsedPts
            <4>2. f \in fields
                BY <4>1 DEF CollapseInvariant
            <4>3. f \notin FieldNodes(o)
                BY <2>3, <4>1 DEF CollapsedPts, Hit
            <4> QED
                BY <4>1, <4>2, <4>3 DEF FieldNodes
        <3>2. pts' = [n \in Node |-> Q[n] \cup UNION {Q[m] : m \in {x \in Node : r[x] = n}}]
            BY <2>1 DEF MergeNodes
        <3> HIDE DEF Q, r
        <3> QED
            BY <3>1, <3>2
    <2>8. \A n \in Node : pts'[n] \cap FieldObj \subseteq fields'
        BY <2>1, <2>7 DEF CollapseInvariant
    <2>9. \A n \in Node : \A f \in pts'[n] \cap Dead' : FIObjVar(f) \in toCollapse'
        <3> SUFFICES ASSUME NEW n \in Node, NEW f \in pts'[n], f \in Dead'
                     PROVE  FIObjVar(f) \in toCollapse'
            OBVIOUS
        <3>1. f \in FieldObj /\ f[1] \in fi'
            BY DEF Dead
        <3>2. PICK m \in Node : f \in pts[m]
            BY <2>7, <3>1
        <3>3. f[1] # o[1] /\ f \in Obj
            BY <1>3, <2>7, <3>1
        <3>4. f \in Dead
            BY <2>1, <3>1, <3>3 DEF Dead
        <3> QED
            BY <1>2, <3>2, <3>3, <3>4 DEF CollapseInvariant
    <2>10. redundant' \subseteq Dead'
        BY <1>1, <2>1 DEF CollapseInvariant, Dead, RedundantFields, FieldNodes
    <2>11. redundant' \cap nodes' = {} /\ \A f \in redundant' : repOf'[f] # f
        BY <2>1, <2>5, <2>6
    <2>12. /\ \A x \in toCollapse' : x[1] \notin BlkOrConst
           /\ pc' \in {"scc", "post", "call", "done", "final"} => toCollapse' = {}
        BY DEF CollapseInvariant
    <2> HIDE DEF r, Q, base
    <2> QED
        BY <2>5, <2>8, <2>9, <2>10, <2>11, <2>12 DEF CollapseInvariant
<1> QED
    BY <1>4, <1>5

(* A gep stays inside the object.                                          *)
LEMMA GepObjVarBase ==
    ASSUME NEW S, NEW o \in Obj, NEW off
    PROVE  GetGepObjVar(S, o, off)[1] = o[1]
BY DEF GetGepObjVar, FIObjVar

(* What flows along a direct edge: the object, its base node, or one of    *)
(* its fields, and the last only if the object is still field-sensitive.   *)
LEMMA FlowParts ==
    ASSUME NEW e, NEW S, NEW x \in Flow(e, S)
    PROVE  \/ x \in S
           \/ \E o \in S : x = FIObjVar(o)
           \/ /\ e.kind \notin {"copy", "vgep"}
              /\ \E o \in S : /\ o[1] \notin BlkOrConst \cup fi
                              /\ x = GetGepObjVar(fi, o, e.off)
BY DEF Flow, GepPts

(* handleCopyGep: field nodes that reach a set are recorded, and an object *)
(* that loses its field sensitivity is put down for collapsing.            *)
LEMMA HandleCopyGepDrops ==
    ASSUME TypeOK, CollapseInvariant, NEW n \in Node, HandleCopyGep(n),
           pc = "pwc", pc' = "wave"
    PROVE  CollapseInvariant'
<1> DEFINE diff == Diff(n)
           out == {e \in edges : e.kind \in DirectKind /\ e.src = n}
           gained(m) == UNION {Flow(e, diff) : e \in {x \in out : repOf[x.dst] = m}}
           live == {o \in diff : o[1] \notin BlkOrConst \cup fi}
           variant == IF \E e \in out : e.kind = "vgep" THEN live ELSE {}
           created == UNION {GepPts(e, live) : e \in {x \in out : x.kind = "ngep"}}
<1>1. /\ pts' = [m \in Node |-> pts[m] \cup gained(m)]
      /\ fi' = fi \cup {o[1] : o \in variant}
      /\ toCollapse' = toCollapse \cup {FIObjVar(o) : o \in variant}
      /\ fields' = fields \cup {o \in created : o[2] # WholeObj}
      /\ nodes' = nodes \cup (created \ {o \in Node : repOf[o] # o})
      /\ UNCHANGED <<edges, repOf, redundant>>
    BY DEF HandleCopyGep
<1>2. /\ diff \subseteq Obj
      /\ diff \subseteq pts[n]
      /\ pts \in [Node -> SUBSET Obj]
      /\ nodes \subseteq Node
      /\ redundant \subseteq Node
      /\ edges \subseteq Edge
    BY DEF Diff, TypeOK, TypeOKBase, Node
<1>3. variant \subseteq live /\ live \subseteq diff /\ \A o \in live : o[1] \notin BlkOrConst
    OBVIOUS
<1>4. ASSUME NEW m \in Node, NEW x \in gained(m), x \in FieldObj
      PROVE  x \in pts[n] \/ (x \in created /\ x \in Obj)
    <2>1. PICK e \in out : x \in Flow(e, diff)
        OBVIOUS
    <2>2. \A o \in diff : x # FIObjVar(o)
        BY <1>2, <1>4, FIObjVarWhole
    <2>3. CASE x \notin diff
        <3>1. PICK o \in diff : /\ e.kind \notin {"copy", "vgep"}
                                /\ o[1] \notin BlkOrConst \cup fi
                                /\ x = GetGepObjVar(fi, o, e.off)
            BY <2>1, <2>2, <2>3, FlowParts
        <3>2. e.kind = "ngep"
            BY <3>1 DEF DirectKind
        <3>3. x \in GepPts(e, live)
            BY <3>1, <3>2 DEF GepPts
        <3>4. x \in Obj
            BY <1>4, FieldObjType
        <3> QED
            BY <3>2, <3>3, <3>4
    <2> QED
        BY <1>2, <2>3
<1> HIDE DEF gained, created, variant, live, diff
<1>5. \A m \in Node : pts'[m] \cap FieldObj \subseteq fields'
    <2> SUFFICES ASSUME NEW m \in Node, NEW x \in pts'[m], x \in FieldObj
                 PROVE  x \in fields'
        OBVIOUS
    <2>1. x[2] # WholeObj
        BY ObjKinds
    <2>2. x \in pts[m] \/ x \in pts[n] \/ x \in created
        BY <1>1, <1>4
    <2>3. pc # "final"
        OBVIOUS
    <2> QED
        BY <1>1, <2>1, <2>2, <2>3 DEF CollapseInvariant
<1>6. ASSUME NEW x \in Obj, x[1] \in fi', x[1] \notin fi
      PROVE  FIObjVar(x) \in toCollapse'
    <2>1. PICK o \in variant : o[1] = x[1]
        BY <1>1, <1>6
    <2> QED
        BY <1>1, <1>2, <1>3, <2>1, SameBase
<1>7. \A m \in Node : \A x \in pts'[m] \cap Dead' : FIObjVar(x) \in toCollapse'
    <2> SUFFICES ASSUME NEW m \in Node, NEW x \in pts'[m], x \in Dead'
                 PROVE  FIObjVar(x) \in toCollapse'
        OBVIOUS
    <2>1. x \in FieldObj /\ x[1] \in fi' /\ x \in Obj
        BY FieldObjType DEF Dead
    <2>2. CASE x[1] \notin fi
        BY <1>6, <2>1, <2>2
    <2>3. CASE x[1] \in fi
        <3>1. x \in Dead
            BY <2>1, <2>3 DEF Dead
        <3>2. CASE x \in pts[m] \/ x \in pts[n]
            BY <1>1, <3>1, <3>2 DEF CollapseInvariant
        <3>3. CASE x \notin pts[m] /\ x \notin pts[n]
            <4>1. x \in created
                BY <1>1, <1>4, <2>1, <3>3
            <4>2. PICK e \in out : e.kind = "ngep" /\ x \in GepPts(e, live)
                BY <4>1 DEF created
            <4>3. PICK o \in live : x = GetGepObjVar(fi, o, e.off) \/ x = o
                BY <4>2 DEF GepPts
            <4>4. x[1] = o[1]
                <5>1. e.off \in Offset /\ o \in Obj
                    BY <1>2, <1>3 DEF Edge
                <5> QED
                    BY <4>3, <5>1, GepObjVarBase
            <4> QED
                BY <2>3, <4>4 DEF live
        <3> QED
            BY <3>2, <3>3
    <2> QED
        BY <2>2, <2>3
<1>8. \A o \in toCollapse' : o[1] \notin BlkOrConst
    <2>1. \A o \in variant : FIObjVar(o)[1] = o[1] /\ o[1] \notin BlkOrConst
        BY <1>2, <1>3, FIObjVarWhole
    <2> QED
        BY <1>1, <2>1 DEF CollapseInvariant
<1>9. redundant' \subseteq Dead' /\ redundant' \cap nodes' = {}
    BY <1>1, <1>2 DEF CollapseInvariant, Dead
<1>10. /\ \A f \in redundant' : repOf'[f] # f
       /\ \A m \in nodes' \cap FieldObj : repOf'[m] = m
    <2>1. \A m \in nodes' \cap FieldObj : m \in Node
        BY FieldObjType DEF Node
    <2> QED
        BY <1>1, <2>1 DEF CollapseInvariant
<1> QED
    BY <1>5, <1>7, <1>8, <1>9, <1>10 DEF CollapseInvariant

LEMMA SCCDetectDrops ==
    ASSUME TypeOK, RepsStable, CollapseInvariant, SCCDetect
    PROVE  CollapseInvariant'
<1>1. PICK r \in SCCReps(edges) : MergeNodes(r, pts)
    BY DEF SCCDetect
<1>2. edges \subseteq Edge /\ pts \in [Node -> SUBSET Obj] /\ pc = "scc" /\ pc' = "wave"
    BY DEF TypeOK, TypeOKBase, SCCDetect
<1>3. /\ r \in [Node -> Node]
      /\ \A n \in Node : r[r[n]] = r[n]
      /\ \A n \in Node : r[n] = n \/ \E e \in edges : r[n] \in {e.src, e.dst}
    BY <1>2, SCCRepsType
<1>4. \A n \in Node : r[n] = n \/ repOf[r[n]] = r[n]
    BY <1>2, <1>3 DEF RepsStable
<1>5. /\ redundant \cap nodes' = {}
      /\ \A f \in redundant : repOf'[f] # f
      /\ \A n \in nodes' \cap FieldObj : repOf'[n] = n
    BY <1>1, <1>2, <1>3, <1>4, MergeDrops
<1>6. UNCHANGED <<fi, fields, redundant, toCollapse>>
    BY DEF SCCDetect, memVars
<1>7. \A n \in Node : \A o \in pts'[n] : \E m \in Node : o \in pts[m]
    BY <1>1 DEF MergeNodes
<1>8. /\ \A n \in Node : pts'[n] \cap FieldObj \subseteq fields'
      /\ \A n \in Node : \A f \in pts'[n] \cap Dead' : FIObjVar(f) \in toCollapse'
    BY <1>2, <1>6, <1>7 DEF CollapseInvariant, Dead
<1> QED
    BY <1>2, <1>5, <1>6, <1>8 DEF CollapseInvariant, Dead

(* The dummy objects of allocator calls are whole objects.                 *)
LEMMA HeapNodesWhole ==
    ASSUME TypeOK, NEW c \in prog.calls
    PROVE  /\ DummyObj(c) \in Obj
           /\ c.dummyVal \in Val
           /\ DummyObj(c) \notin FieldObj
           /\ c.dummyVal \notin FieldObj
           /\ FIObjVar(DummyObj(c)) = DummyObj(c)
<1>1. c.dummyVal \in Val /\ c.dummyObj \in Base
    BY AndersenAssumption DEF CallSite, TypeOK, TypeOKBase
<1>2. DummyObj(c) \in Obj
    BY <1>1, ObjKinds DEF DummyObj
<1>3. DummyObj(c) = FIObjVar(DummyObj(c))
    BY DEF DummyObj, FIObjVar
<1>4. c.dummyVal \notin FieldObj
    BY <1>1, AndersenAssumption, FieldObjType
<1> QED
    BY <1>1, <1>2, <1>3, <1>4, FIObjVarWhole

LEMMA UpdateCallGraphDrops ==
    ASSUME TypeOK, CollapseInvariant, UpdateCallGraph
    PROVE  CollapseInvariant'
<1>1. PICK new :
          /\ pts' = [n \in Node |-> pts[n] \cup
                       {DummyObj(c) : c \in {d \in NewHeapSites(new) : d.dummyVal = n}}]
          /\ nodes' = nodes \cup UNION {HeapNodes(c) : c \in NewHeapSites(new)}
    BY DEF UpdateCallGraph
<1>2. /\ UNCHANGED <<repOf, fi, fields, redundant, toCollapse>>
      /\ pc # "final" /\ toCollapse = {}
    BY DEF UpdateCallGraph, memVars, Post, Quiet, CollapseInvariant
<1>3. \A c \in NewHeapSites(new) : DummyObj(c) \notin FieldObj /\ HeapNodes(c) \cap FieldObj = {}
    BY HeapNodesWhole DEF NewHeapSites, HeapNodes
<1>4. \A n \in Node : pts'[n] \cap FieldObj = pts[n] \cap FieldObj
    BY <1>1, <1>3
<1>5. nodes' \cap FieldObj = nodes \cap FieldObj
    BY <1>1, <1>3
<1>6. Dead' = Dead /\ Dead \subseteq FieldObj
    BY <1>2 DEF Dead
<1>7. /\ \A n \in Node : pts'[n] \cap FieldObj \subseteq fields'
      /\ \A n \in Node : \A f \in pts'[n] \cap Dead' : FIObjVar(f) \in toCollapse'
    BY <1>2, <1>4, <1>6 DEF CollapseInvariant
<1>8. redundant' \cap nodes' = {}
    BY <1>2, <1>5, <1>6 DEF CollapseInvariant
<1> QED
    BY <1>2, <1>5, <1>6, <1>7, <1>8 DEF CollapseInvariant

LEMMA CollapseNext ==
    ASSUME TypeOK, RepsStable, CollapseInvariant, [Next]_vars
    PROVE  CollapseInvariant'
<1>1. CASE SCCDetect
    BY <1>1, SCCDetectDrops
<1>2. ASSUME NEW n \in wave, PopNode(n) PROVE CollapseInvariant'
    BY <1>2 DEF PopNode, Quiet, baseVars, graphVars, memVars, CollapseInvariant, Dead
<1>3. ASSUME NEW o \in pending, CollapseNodePts(o) PROVE CollapseInvariant'
    <2>1. pc # "final" /\ pc' = pc /\ o \in Obj
        BY <1>3 DEF CollapseNodePts, TypeOK
    <2>2. CASE o[1] \in fi
        BY <1>3, <2>1, <2>2 DEF CollapseNodePts, baseVars, graphVars, memVars,
                                CollapseInvariant, Dead
    <2>3. CASE o[1] \notin fi
        <3>1. CollapseField(o) /\ toCollapse' = toCollapse
            BY <1>3, <2>3 DEF CollapseNodePts
        <3> QED
            BY <2>1, <3>1, CollapseFieldDrops
    <2> QED
        BY <2>2, <2>3
<1>4. CASE ProcessNode
    <2>1. PICK n \in cur : IF repOf[n] = n THEN HandleCopyGep(n) ELSE UNCHANGED baseVars
        BY <1>4 DEF ProcessNode
    <2>2. n \in Node /\ pc = "pwc" /\ pc' = "wave"
        BY <1>4 DEF ProcessNode, TypeOK
    <2>3. CASE repOf[n] = n
        BY <2>1, <2>2, <2>3, HandleCopyGepDrops
    <2>4. CASE repOf[n] # n
        BY <2>1, <2>2, <2>4 DEF baseVars, graphVars, memVars, CollapseInvariant, Dead
    <2> QED
        BY <2>3, <2>4
<1>5. ASSUME NEW o \in toCollapse, CollapseFields(o) PROVE CollapseInvariant'
    <2>1. /\ pc # "final" /\ pc' = pc /\ o \in Obj /\ CollapseField(o)
          /\ toCollapse' = toCollapse \ {o}
        BY <1>5 DEF CollapseFields, TypeOK, TypeOKBase
    <2> QED
        BY <2>1, CollapseFieldDrops
<1>6. ASSUME NEW n \in worklist, PostProcessNode(n) PROVE CollapseInvariant'
    BY <1>6 DEF PostProcessNode, Post, Quiet, graphVars, memVars, CollapseInvariant, Dead
<1>7. ASSUME NEW c \in copies, HandleLoadStore(c) \/ ConnectParam(c) PROVE CollapseInvariant'
    BY <1>7 DEF HandleLoadStore, ConnectParam, memVars, CollapseInvariant, Dead
<1>8. CASE UpdateCallGraph
    BY <1>8, UpdateCallGraphDrops
<1>9. CASE NextIteration
    BY <1>9 DEF NextIteration, graphVars, memVars, CollapseInvariant, Dead
<1>10. CASE Normalize
    BY <1>10 DEF Normalize, CollapseInvariant, Dead
<1>11. CASE UNCHANGED vars
    BY <1>11 DEF vars, baseVars, graphVars, memVars, CollapseInvariant, Dead
<1> QED
    BY <1>1, <1>2, <1>3, <1>4, <1>5, <1>6, <1>7, <1>8, <1>9, <1>10, <1>11 DEF Next

(* CollapsesComplete, for every program: when collapseField has worked off *)
(* what variant geps and positive-weight cycles ask for, no points-to set  *)
(* holds a field node of a field-insensitive object, and in the answer the *)
(* nodes collapsed away are neither in the graph nor in any set, which     *)
(* cleanConsCG asserts.                                                    *)
THEOREM CollapsingComplete == Spec => []CollapsesComplete
<1>1. Init => CollapseInvariant
    BY CollapseInit
<1>2. IInv /\ CollapseInvariant /\ [Next]_vars => CollapseInvariant'
    BY CollapseNext DEF IInv
<1>3. Init => IInv
    BY InitKeeps
<1>4. IInv /\ [Next]_vars => IInv'
    BY NextKeeps
<1>5. TypeOK /\ CollapseInvariant => CollapsesComplete
    <2> SUFFICES ASSUME TypeOK, CollapseInvariant PROVE CollapsesComplete
        OBVIOUS
    <2>1. nodes \subseteq Node
        BY DEF TypeOK, TypeOKBase
    <2>2. Quiet => \A n \in nodes : pts[n] \cap Dead = {}
        BY <2>1 DEF Quiet, CollapseInvariant
    <2>3. pc \in {"done", "final"} =>
              \A f \in redundant : f \notin nodes /\ \A n \in nodes : f \notin pts[n]
        BY <2>1 DEF CollapseInvariant
    <2> QED
        BY <2>2, <2>3 DEF CollapsesComplete
<1>6. IInv => TypeOK
    BY DEF IInv
<1> QED
    BY <1>1, <1>2, <1>3, <1>4, <1>5, <1>6, PTL DEF Spec

-----------------------------------------------------------------------------
(* The graph.                                                              *)

(* Being joined by a path is transitive and contains the edges.            *)
LEMMA ConnectedSteps ==
    ASSUME NEW R
    PROVE  /\ \A x, y : <<x, y>> \in R => <<x, y>> \in Connected(R)
           /\ \A x, y, z : <<x, y>> \in Connected(R) /\ <<y, z>> \in Connected(R)
                              => <<x, z>> \in Connected(R)
<1> DEFINE ends == {z[1] : z \in R} \cup {z[2] : z \in R}
           closed == {S \in SUBSET ends : \A z \in R : z[1] \in S => z[2] \in S}
           from(x, S) == \A z \in R : z[1] = x => z[2] \in S
<1>1. \A x, y : <<x, y>> \in Connected(R) <=>
                  /\ x \in ends /\ y \in ends
                  /\ \A S \in closed : from(x, S) => y \in S
    BY DEF Connected
<1>2. ASSUME NEW x, NEW y, <<x, y>> \in R PROVE <<x, y>> \in Connected(R)
    <2>1. x \in ends /\ y \in ends
        BY <1>2
    <2>2. \A S : from(x, S) => y \in S
        BY <1>2
    <2> HIDE DEF ends, closed, from
    <2> QED
        BY <1>1, <2>1, <2>2
<1>3. ASSUME NEW x, NEW y, NEW z, <<x, y>> \in Connected(R), <<y, z>> \in Connected(R)
      PROVE  <<x, z>> \in Connected(R)
    <2>1. \A S \in closed : y \in S => from(y, S)
        OBVIOUS
    <2> HIDE DEF ends, closed, from
    <2> QED
        BY <1>1, <1>3, <2>1
<1> QED
    BY <1>2, <1>3

(* If all edges to m come from s, every path to m that starts elsewhere    *)
(* goes through s.                                                         *)
LEMMA LastStep ==
    ASSUME NEW R, NEW x, NEW m, NEW s, x # m,
           \A z \in R : z[2] = m => z[1] = s,
           <<x, m>> \in Connected(R)
    PROVE  s # m /\ (s = x \/ <<x, s>> \in Connected(R))
<1> DEFINE ends == {z[1] : z \in R} \cup {z[2] : z \in R}
           closed == {S \in SUBSET ends : \A z \in R : z[1] \in S => z[2] \in S}
           from(y, S) == \A z \in R : z[1] = y => z[2] \in S
           reach == {y \in ends : \A S \in closed : from(x, S) => y \in S}
<1>1. \A y : <<x, y>> \in Connected(R) <=> x \in ends /\ y \in reach
    BY DEF Connected
<1>2. reach \subseteq ends
    OBVIOUS
<1>3. \A z \in R : z[2] \in ends
    OBVIOUS
<1>4. \A S \in closed : \A z \in R : z[1] \in S => z[2] \in S
    OBVIOUS
<1>5. \A z \in R : z[1] = x \/ z[1] \in reach => z[2] \in reach
    BY <1>3, <1>4
<1>6. m \in reach /\ x \in ends
    BY <1>1
<1>7. CASE s = x \/ s \notin reach \/ s = m
    <2>1. ASSUME s # x, s \notin reach \/ s = m PROVE FALSE
        <3> DEFINE T == reach \ {m}
        <3>1. \A z \in R : z[1] \in T => z[2] \in T
            BY <1>5, <2>1
        <3>2. from(x, T)
            BY <1>5, <2>1
        <3>3. T \in closed
            BY <1>2, <3>1
        <3>4. m \in T
            <4> HIDE DEF closed, from, T, ends
            <4> QED
                BY <1>6, <3>2, <3>3 DEF reach
        <3> QED
            BY <3>4
    <2> QED
        BY <1>7, <2>1
<1>8. CASE s # x /\ s \in reach /\ s # m
    BY <1>1, <1>6, <1>8
<1> QED
    BY <1>7, <1>8

(* A node with one direct predecessor keeps its edge only if it is merged  *)
(* with nothing: a component that has other nodes has the predecessor too. *)
LEMMA OneDefinition ==
    ASSUME NEW E \in SUBSET Edge, NEW r \in SCCReps(E), NEW e \in E, e.kind \in DirectKind,
           \A x \in E : x.kind \in DirectKind /\ x.dst = e.dst => x = e,
           ~ Removed(e, r)
    PROVE  r[e.dst] = e.dst /\ \A n \in Node : r[n] = e.dst => n = e.dst
<1> DEFINE C == Connected(DirectPairs(E))
           ends == {x.src : x \in E} \cup {x.dst : x \in E}
           comp(n) == {m \in ends : <<n, m>> \in C /\ <<m, n>> \in C}
           big == {c \in Components(E) : Cardinality(c) > 1}
           v == e.dst
           s == e.src
<1>1. \A c \in big : \E n \in ends : c = comp(n)
    BY DEF Components
<1>2. PICK root \in [big -> UNION big] :
          /\ \A c \in big : root[c] \in c
          /\ r = [n \in Node |-> IF \E c \in big : n \in c
                                 THEN root[CHOOSE c \in big : n \in c]
                                 ELSE n]
    BY DEF SCCReps
<1>3. s \in ends /\ v \in ends /\ s \in Node /\ v \in Node
    BY DEF Edge
<1>4. /\ <<s, v>> \in C
      /\ \A z \in DirectPairs(E) : z[2] = v => z[1] = s
    <2>1. <<s, v>> \in DirectPairs(E)
        BY DEF DirectPairs
    <2>2. \A z \in DirectPairs(E) : z[2] = v => z[1] = s
        BY DEF DirectPairs
    <2> QED
        BY <2>1, <2>2, ConnectedSteps
<1>5. \A x, y, z : <<x, y>> \in C /\ <<y, z>> \in C => <<x, z>> \in C
    BY ConnectedSteps
<1>6. CASE \E c \in big : v \in c
    <2>1. PICK c \in big : v \in c
        BY <1>6
    <2>2. PICK n \in ends : c = comp(n)
        BY <1>1, <2>1
    <2>3. PICK w \in c : w # v
        <3> SUFFICES ASSUME c \subseteq {v} PROVE FALSE
            OBVIOUS
        <3>1. c = {v}
            BY <2>1
        <3>2. Cardinality(c) = 1
            BY <3>1, FS_Singleton
        <3> QED
            BY <3>2
    <2>4. <<w, v>> \in C /\ <<v, w>> \in C
        <3>1. <<n, w>> \in C /\ <<w, n>> \in C /\ <<n, v>> \in C /\ <<v, n>> \in C
            BY <2>1, <2>2, <2>3
        <3> HIDE DEF C
        <3> QED
            BY <1>5, <3>1
    <2>5. s # v /\ (s = w \/ <<w, s>> \in C)
        BY <1>4, <2>3, <2>4, LastStep
    <2>6. <<v, s>> \in C
        <3> HIDE DEF C
        <3> QED
            BY <1>5, <2>4, <2>5
    <2>7. \A b \in big : s \in b <=> v \in b
        <3> SUFFICES ASSUME NEW b \in big PROVE s \in b <=> v \in b
            OBVIOUS
        <3>1. PICK k \in ends : b = comp(k)
            BY <1>1
        <3>2. <<k, s>> \in C /\ <<s, k>> \in C <=> <<k, v>> \in C /\ <<v, k>> \in C
            <4> HIDE DEF C
            <4> QED
                BY <1>4, <1>5, <2>6
        <3> HIDE DEF C, ends
        <3> QED
            BY <1>3, <3>1, <3>2
    <2>8. (CHOOSE b \in big : s \in b) = (CHOOSE b \in big : v \in b)
        <3> HIDE DEF big
        <3> QED
            BY <2>7
    <2>9. r[s] = r[v]
        <3> HIDE DEF big
        <3> QED
            BY <1>2, <1>3, <2>1, <2>7, <2>8
    <2> QED
        BY <2>5, <2>9 DEF Removed
<1>7. CASE ~ \E c \in big : v \in c
    <2> HIDE DEF big
    <2>1. r[v] = v
        BY <1>2, <1>3, <1>7
    <2>2. ASSUME NEW n \in Node, r[n] = v PROVE n = v
        <3>1. CASE \E c \in big : n \in c
            <4>1. (CHOOSE c \in big : n \in c) \in big
                BY <3>1
            <4>2. r[n] = root[CHOOSE c \in big : n \in c]
                BY <1>2, <3>1
            <4> QED
                BY <1>2, <1>7, <2>2, <4>1, <4>2
        <3>2. CASE ~ \E c \in big : n \in c
            BY <1>2, <2>2, <3>2
        <3> QED
            BY <3>1, <3>2
    <2> QED
        BY <2>1, <2>2
<1> QED
    BY <1>6, <1>7

(* A node that is in the graph or was merged into one that is.             *)
Present(n) == repOf[n] \in nodes

(* All a points-to set needs of the graph to hold o.                       *)
ObjectPresent(o) ==
    /\ Present(o) /\ Present(FIObjVar(o))
    /\ o[1] \in Fun => \A v \in FunVals(o[1]) : Present(v)

(* The call sites whose dummy heap nodes a set of calls needs.             *)
HeapSites(C) ==
    {c \in prog.calls : c.ret # NoVal /\ \E f \in Fun : <<c, f>> \in C /\ FunInfo[f].alloc}

(* The ends of the edges, the representatives and the program.             *)
RepsInGraph ==
    /\ \A e \in edges : e.src \in nodes /\ e.dst \in nodes
    /\ \A n \in nodes : repOf[n] = n
    /\ pc # "final" => /\ \A n \in Node : repOf[n] = n \/ Present(n)
                       /\ \A n \in ProgramNodes(prog) : Present(n)

(* What points-to sets hold and what is waiting to be collapsed.           *)
ObjectsInGraph ==
    pc # "final" => /\ \A n \in Node : \A o \in pts[n] : ObjectPresent(o)
                    /\ \A o \in toCollapse \cup pending : Present(FIObjVar(o))

(* The copies to come, and the heap nodes of calls resolved and not.       *)
CallsInGraph ==
    pc # "final" =>
        /\ \A c \in copies : Present(c[1]) /\ Present(c[2])
        /\ \A c \in HeapSites(calls) : \A h \in HeapNodes(c) : Present(h)
        /\ \A c \in prog.calls : c.ret # NoVal /\ c \notin HeapSites(calls) =>
               \A h \in HeapNodes(c) : h \notin nodes /\ repOf[h] = h

(* A normal gep edge defines a pointer that represents only itself, and    *)
(* that no other edge and no copy to come defines.                         *)
GepsDefineOnce ==
    \A e \in {x \in edges : x.kind = "ngep"} :
        /\ e.dst \in GepResults(prog)
        /\ \A x \in edges : x.kind \in DirectKind \cup {"load"} /\ x.dst = e.dst => x = e
        /\ pc # "final" => /\ \A n \in Node : repOf[n] = e.dst => n = e.dst
                           /\ \A c \in copies : repOf[c[2]] # e.dst

GraphInvariant == RepsInGraph /\ ObjectsInGraph /\ CallsInGraph /\ GepsDefineOnce

LEMMA ObjectPresentKept ==
    ASSUME TypeOK, NEW o \in Obj, ObjectPresent(o),
           \A n \in Node : repOf[n] \in nodes => repOf'[n] \in nodes'
    PROVE  ObjectPresent(o)'
<1>1. o \in Node /\ FIObjVar(o) \in Node
    BY FIObjVarType DEF Node
<1>2. o[1] \in Fun => FunVals(o[1]) \subseteq Node
    BY AndersenAssumption DEF Signature, FunVals, Node
<1> QED
    BY <1>1, <1>2 DEF ObjectPresent, Present

(* The base node of an object in a points-to set may be put there.         *)
LEMMA BasePresent ==
    ASSUME NEW o \in Obj, Present(FIObjVar(o)),
           o[1] \in Fun => \A v \in FunVals(o[1]) : Present(v)
    PROVE  ObjectPresent(FIObjVar(o))
BY FIObjVarWhole DEF ObjectPresent

LEMMA ProgramNodesType ==
    ASSUME NEW p \in Programs
    PROVE  ProgramNodes(p) \subseteq Node
<1>1. /\ p.addr \subseteq Obj \X Val
      /\ p.edges \subseteq Edge
      /\ p.calls \subseteq CallSite
      /\ p.fields \subseteq FieldObj
    BY AndersenAssumption
<1>2. \A a \in p.addr : {a[1], a[2], FIObjVar(a[1])} \subseteq Node
    BY <1>1, FIObjVarType DEF Node
<1>3. \A e \in p.edges : {e.src, e.dst} \subseteq Node
    BY <1>1 DEF Edge
<1>4. \A c \in p.calls : CallSiteVals(c) \subseteq Node
    BY <1>1 DEF CallSite, CallSiteVals, Node
<1>5. \A f \in Fun : FunVals(f) \subseteq Node
    BY AndersenAssumption DEF Signature, FunVals, Node
<1>6. \A o \in p.fields : {o, FIObjVar(o)} \subseteq Node
    BY <1>1, FIObjVarType, FieldObjType DEF Node
<1> QED
    BY <1>2, <1>3, <1>4, <1>5, <1>6 DEF ProgramNodes

(* The program's statements, calls and addressed functions are in it.      *)
LEMMA ProgramNodesHave ==
    ASSUME NEW p
    PROVE  /\ \A a \in p.addr : a[1] \in ProgramNodes(p) /\ FIObjVar(a[1]) \in ProgramNodes(p)
           /\ \A e \in p.edges : e.src \in ProgramNodes(p) /\ e.dst \in ProgramNodes(p)
           /\ \A c \in p.calls : CallSiteVals(c) \subseteq ProgramNodes(p)
           /\ \A a \in p.addr : a[1][1] \in Fun => FunVals(a[1][1]) \subseteq ProgramNodes(p)
<1> DEFINE A == {{a[1], a[2], FIObjVar(a[1])} : a \in p.addr}
           E == {{e.src, e.dst} : e \in p.edges}
           C == {CallSiteVals(c) : c \in p.calls}
           F == {FunVals(f) : f \in {g \in Fun : \E a \in p.addr : a[1][1] = g}}
           O == {{o, FIObjVar(o)} : o \in p.fields}
<1>1. ProgramNodes(p) = UNION (A \cup E \cup C \cup F \cup O)
    BY DEF ProgramNodes
<1>2. \A a \in p.addr : {a[1], a[2], FIObjVar(a[1])} \in A
    OBVIOUS
<1>3. \A e \in p.edges : {e.src, e.dst} \in E
    OBVIOUS
<1>4. \A c \in p.calls : CallSiteVals(c) \in C
    OBVIOUS
<1>5. \A a \in p.addr : a[1][1] \in Fun => FunVals(a[1][1]) \in F
    OBVIOUS
<1> HIDE DEF A, E, C, F, O
<1>6. \A S \in A \cup E \cup C \cup F : S \subseteq ProgramNodes(p)
    BY <1>1
<1>7. \A a \in p.addr : a[1] \in ProgramNodes(p) /\ FIObjVar(a[1]) \in ProgramNodes(p)
    <2> SUFFICES ASSUME NEW a \in p.addr
                 PROVE  a[1] \in ProgramNodes(p) /\ FIObjVar(a[1]) \in ProgramNodes(p)
        OBVIOUS
    <2>1. {a[1], a[2], FIObjVar(a[1])} \subseteq ProgramNodes(p)
        BY <1>2, <1>6
    <2> QED
        BY <2>1
<1>8. \A e \in p.edges : e.src \in ProgramNodes(p) /\ e.dst \in ProgramNodes(p)
    <2> SUFFICES ASSUME NEW e \in p.edges
                 PROVE  e.src \in ProgramNodes(p) /\ e.dst \in ProgramNodes(p)
        OBVIOUS
    <2>1. {e.src, e.dst} \subseteq ProgramNodes(p)
        BY <1>3, <1>6
    <2> QED
        BY <2>1
<1>9. \A c \in p.calls : CallSiteVals(c) \subseteq ProgramNodes(p)
    BY <1>4, <1>6
<1>10. \A a \in p.addr : a[1][1] \in Fun => FunVals(a[1][1]) \subseteq ProgramNodes(p)
    BY <1>5, <1>6
<1> QED
    BY <1>7, <1>8, <1>9, <1>10

LEMMA GraphInit == Init => GraphInvariant
<1> SUFFICES ASSUME Init PROVE GraphInvariant
    OBVIOUS
<1>1. /\ prog \in Programs
      /\ nodes = ProgramNodes(prog)
      /\ edges \subseteq prog.edges
      /\ repOf = [n \in Node |-> n]
      /\ pts = [n \in Node |-> {a[1] : a \in {x \in prog.addr : x[2] = n}}]
      /\ toCollapse = {} /\ pending = {} /\ copies = {} /\ calls = {}
      /\ nodes \subseteq Node
      /\ edges \subseteq Edge
    BY InitType DEF Init, InitBase, TypeOK, TypeOKBase
<1>2. \A e \in edges : e.src \in nodes /\ e.dst \in nodes
    BY <1>1, ProgramNodesHave
<1>3. RepsInGraph
    BY <1>1, <1>2 DEF RepsInGraph, Present
<1>4. ObjectsInGraph
    <2> SUFFICES ASSUME NEW n \in Node, NEW o \in pts[n] PROVE ObjectPresent(o)
        BY <1>1 DEF ObjectsInGraph
    <2>1. PICK a \in prog.addr : o = a[1]
        BY <1>1
    <2>2. o \in nodes /\ FIObjVar(o) \in nodes
        BY <1>1, <2>1, ProgramNodesHave
    <2>3. o[1] \in Fun => FunVals(o[1]) \subseteq nodes
        BY <1>1, <2>1, ProgramNodesHave
    <2> QED
        BY <1>1, <2>2, <2>3 DEF ObjectPresent, Present
<1>5. CallsInGraph
    <2>1. HeapSites(calls) = {}
        BY <1>1 DEF HeapSites
    <2>2. \A c \in prog.calls : HeapNodes(c) \cap nodes = {} /\ HeapNodes(c) \subseteq Node
        BY <1>1, InitType, HeapNodesWhole, ProgramsAssumption DEF HeapNodesNew, HeapNodes, Node
    <2> QED
        BY <1>1, <2>1, <2>2 DEF CallsInGraph
<1>6. GepsDefineOnce
    <2>1. SingleAssignment(prog)
        BY <1>1, ProgramsAssumption
    <2> QED
        BY <1>1, <2>1 DEF GepsDefineOnce, SingleAssignment, GepResults
<1> QED
    BY <1>3, <1>4, <1>5, <1>6 DEF GraphInvariant

(* Merging keeps the graph among representatives, and what was present     *)
(* stays present.                                                          *)
LEMMA MergeGraph ==
    ASSUME TypeOK, RepsInGraph, pc # "final",
           NEW r \in [Node -> Node],
           \A n \in Node : r[r[n]] = r[n],
           \A n \in Node : r[n] = n \/ r[n] \in nodes,
           NEW Q, MergeNodes(r, Q), prog' = prog
    PROVE  /\ RepsInGraph'
           /\ \A n \in Node : repOf[n] \in nodes => repOf'[n] \in nodes'
           /\ nodes' \subseteq nodes
<1>1. /\ repOf \in [Node -> Node]
      /\ nodes \subseteq Node
      /\ edges \subseteq Edge
      /\ prog \in Programs
    BY DEF TypeOK, TypeOKBase
<1>2. /\ nodes' = {r[n] : n \in nodes}
      /\ repOf' = [n \in Node |-> r[repOf[n]]]
    BY DEF MergeNodes, MergedRep
<1>3. \A n \in Node : repOf[n] \in nodes => repOf'[n] \in nodes'
    BY <1>1, <1>2
<1>4. \A n \in nodes : r[n] \in nodes
    BY <1>1
<1>5. nodes' \subseteq nodes
    BY <1>2, <1>4
<1>6. \A n \in nodes' : repOf'[n] = n
    <2> SUFFICES ASSUME NEW m \in nodes PROVE repOf'[r[m]] = r[m]
        BY <1>2
    <2>1. r[m] \in nodes /\ repOf[r[m]] = r[m]
        BY <1>4 DEF RepsInGraph
    <2> QED
        BY <1>1, <1>2, <2>1
<1>7. \A n \in Node : repOf'[n] = n \/ repOf'[n] \in nodes'
    <2> SUFFICES ASSUME NEW n \in Node PROVE repOf'[n] = n \/ repOf'[n] \in nodes'
        OBVIOUS
    <2>1. CASE repOf[n] \in nodes
        BY <1>3, <2>1
    <2>2. CASE repOf[n] = n
        <3>1. repOf'[n] = r[n]
            BY <1>2, <2>2
        <3>2. CASE r[n] \in nodes
            BY <1>2, <3>1, <3>2
        <3> QED
            BY <3>1, <3>2
    <2> QED
        BY <2>1, <2>2 DEF RepsInGraph, Present
<1>8. \A e \in edges' : e.src \in nodes' /\ e.dst \in nodes'
    <2> SUFFICES ASSUME NEW e \in edges' PROVE e.src \in nodes' /\ e.dst \in nodes'
        OBVIOUS
    <2>1. PICK d \in edges : e = ReTarget(d, r)
        BY DEF MergeNodes, MoveEdges
    <2>2. e.src = r[d.src] /\ e.dst = r[d.dst]
        BY <1>1, <2>1 DEF ReTarget, Edge
    <2> QED
        BY <1>2, <2>2 DEF RepsInGraph
<1>9. \A n \in ProgramNodes(prog) : repOf'[n] \in nodes'
    BY <1>1, <1>3, ProgramNodesType DEF RepsInGraph, Present
<1> QED
    BY <1>3, <1>5, <1>6, <1>7, <1>8, <1>9 DEF RepsInGraph, Present

(* What calls need is kept by every step that resolves none.               *)
LEMMA CallsKept ==
    ASSUME TypeOK, CallsInGraph, pc # "final",
           \A n \in Node : repOf[n] \in nodes => repOf'[n] \in nodes',
           \A c \in prog.calls : \A h \in HeapNodes(c) :
               h \notin nodes /\ repOf[h] = h => h \notin nodes' /\ repOf'[h] = h,
           UNCHANGED <<prog, calls, copies>>
    PROVE  CallsInGraph'
<1>1. copies \subseteq Node \X Node
    BY DEF TypeOK
<1>2. \A c \in prog.calls : HeapNodes(c) \subseteq Node
    BY HeapNodesWhole DEF HeapNodes, Node
<1>3. HeapSites(calls)' = HeapSites(calls) /\ HeapSites(calls) \subseteq prog.calls
    BY DEF HeapSites
<1>4. \A c \in copies' : Present(c[1])' /\ Present(c[2])'
    BY <1>1 DEF CallsInGraph, Present
<1>5. \A c \in HeapSites(calls)' : \A h \in HeapNodes(c) : Present(h)'
    BY <1>2, <1>3 DEF CallsInGraph, Present
<1>6. \A c \in prog'.calls : c.ret # NoVal /\ c \notin HeapSites(calls)' =>
          \A h \in HeapNodes(c) : h \notin nodes' /\ repOf'[h] = h
    BY <1>3 DEF CallsInGraph
<1> QED
    BY <1>4, <1>5, <1>6 DEF CallsInGraph

LEMMA SCCDetectGraph ==
    ASSUME TypeOK, RepsInGraph, ObjectsInGraph, CallsInGraph, SCCDetect
    PROVE  RepsInGraph' /\ ObjectsInGraph' /\ CallsInGraph'
<1>1. PICK r \in SCCReps(edges) : MergeNodes(r, pts)
    BY DEF SCCDetect
<1>2. /\ edges \subseteq Edge
      /\ pts \in [Node -> SUBSET Obj]
      /\ toCollapse \cup pending \subseteq Obj
      /\ pc = "scc" /\ pc' = "wave"
      /\ UNCHANGED <<prog, toCollapse, pending, calls, copies>>
    BY DEF TypeOK, TypeOKBase, SCCDetect, memVars
<1>3. /\ r \in [Node -> Node]
      /\ \A n \in Node : r[r[n]] = r[n]
      /\ \A n \in Node : r[n] = n \/ \E e \in edges : r[n] \in {e.src, e.dst}
      /\ \A n \in Node : r[n] = n \/ \E e \in edges : n \in {e.src, e.dst}
    BY <1>2, SCCRepsType
<1>4. /\ \A n \in Node : r[n] = n \/ r[n] \in nodes
      /\ \A n \in Node : r[n] = n \/ n \in nodes
    BY <1>3 DEF RepsInGraph
<1>5. /\ RepsInGraph'
      /\ \A n \in Node : repOf[n] \in nodes => repOf'[n] \in nodes'
      /\ nodes' \subseteq nodes
    BY <1>1, <1>2, <1>3, <1>4, MergeGraph
<1>6. ObjectsInGraph'
    <2>1. ASSUME NEW n \in Node, NEW o \in pts'[n] PROVE ObjectPresent(o)'
        <3>1. PICK m \in Node : o \in pts[m]
            BY <1>1 DEF MergeNodes
        <3>2. ObjectPresent(o) /\ o \in Obj
            BY <1>2, <3>1 DEF ObjectsInGraph
        <3> QED
            BY <1>5, <3>2, ObjectPresentKept
    <2>2. \A o \in toCollapse \cup pending : FIObjVar(o) \in Node
        BY <1>2, FIObjVarType DEF Node
    <2> QED
        BY <1>2, <1>5, <2>1, <2>2 DEF ObjectsInGraph, Present
<1>7. CallsInGraph'
    <2>1. \A c \in prog.calls : HeapNodes(c) \subseteq Node
        BY HeapNodesWhole DEF HeapNodes, Node
    <2>2. \A h \in Node : h \notin nodes /\ repOf[h] = h => h \notin nodes' /\ repOf'[h] = h
        BY <1>1, <1>4, <1>5 DEF MergeNodes, MergedRep
    <2> QED
        BY <1>2, <1>5, <2>1, <2>2, CallsKept
<1> QED
    BY <1>5, <1>6, <1>7

(* collapseField: the base node is in the graph, because a pointer to the  *)
(* object or to one of its fields was found.                               *)
LEMMA CollapseGraph ==
    ASSUME TypeOK, RepsInGraph, ObjectsInGraph, CallsInGraph, RepsStable, pc # "final",
           NEW o \in toCollapse \cup pending, CollapseField(o),
           toCollapse' \subseteq toCollapse,
           pending' \subseteq pending \cup Nested(o),
           UNCHANGED <<prog, calls, copies, pc>>
    PROVE  RepsInGraph' /\ ObjectsInGraph' /\ CallsInGraph'
<1>1. /\ repOf \in [Node -> Node]
      /\ pts \in [Node -> SUBSET Obj]
      /\ toCollapse \cup pending \subseteq Obj
      /\ FieldObj \subseteq Node /\ Obj \subseteq Node
    BY FieldObjType DEF TypeOK, TypeOKBase, Node
<1>2. \A x \in toCollapse \cup pending : FIObjVar(x) \in Node /\ Present(FIObjVar(x))
    BY <1>1, FIObjVarType DEF ObjectsInGraph
<1>3. CASE o[1] \in BlkOrConst
    <2>1. UNCHANGED <<nodes, edges, repOf, pts>> /\ Nested(o) = {}
        BY <1>3 DEF CollapseField, graphVars, Nested
    <2> QED
        BY <2>1 DEF RepsInGraph, ObjectsInGraph, CallsInGraph, Present, ObjectPresent, HeapSites
<1>4. CASE o[1] \notin BlkOrConst
    <2> DEFINE r == CollapsedRep(o)
               Q == CollapsedPts(o)
               base == FIObjVar(o)
    <2>1. MergeNodes(r, Q)
        BY <1>4 DEF CollapseField
    <2>2. /\ r \in [Node -> Node]
          /\ \A n \in Node : r[r[n]] = r[n]
          /\ FieldNodes(o) \subseteq FieldObj
        BY <1>1, CollapseParts
    <2>3. base \in Node /\ repOf[base] \in nodes
        BY <1>2 DEF Present
    <2>4. \A n \in Node : r[n] = n \/ (r[n] \in nodes /\ \E f \in FieldNodes(o) : n = repOf[f])
        BY <2>3 DEF CollapsedRep
    <2>5. /\ RepsInGraph'
          /\ \A n \in Node : repOf[n] \in nodes => repOf'[n] \in nodes'
          /\ nodes' \subseteq nodes
        <3> HIDE DEF r, Q, base
        <3> QED
            BY <2>1, <2>2, <2>4, MergeGraph
    <2>6. ASSUME NEW n \in Node, NEW x \in Q[n] PROVE ObjectPresent(x)'
        <3>1. CASE x \in pts[n]
            BY <1>1, <2>5, <3>1, ObjectPresentKept DEF ObjectsInGraph
        <3>2. CASE x \notin pts[n]
            <4>1. x = base /\ n \in Hit(o)
                BY <3>2 DEF CollapsedPts
            <4>2. PICK f \in pts[n] : f[1] = o[1]
                BY <4>1 DEF Hit, FieldNodes
            <4>3. ObjectPresent(f)
                BY DEF ObjectsInGraph
            <4>4. ObjectPresent(base) /\ base \in Obj /\ o \in Obj
                BY <1>1, <2>3, <4>2, <4>3, BasePresent, FIObjVarType DEF ObjectPresent, Present
            <4> HIDE DEF base
            <4> QED
                BY <2>5, <4>1, <4>4, ObjectPresentKept
        <3> QED
            BY <3>1, <3>2
    <2>7. \A n \in Node : \A x \in pts'[n] : ObjectPresent(x)'
        <3>1. pts' = [n \in Node |-> Q[n] \cup UNION {Q[m] : m \in {x \in Node : r[x] = n}}]
            BY <2>1 DEF MergeNodes
        <3> HIDE DEF Q, r
        <3> QED
            BY <2>6, <3>1
    <2>8. \A x \in toCollapse' \cup pending' : Present(FIObjVar(x))'
        <3> SUFFICES ASSUME NEW x \in toCollapse' \cup pending' PROVE Present(FIObjVar(x))'
            OBVIOUS
        <3>1. CASE x \in toCollapse \cup pending
            BY <1>2, <2>5, <3>1 DEF Present
        <3>2. CASE x \in Nested(o)
            <4>1. repOf'[base] \in Node
                BY <2>3, <2>5 DEF TypeOK, TypeOKBase
            <4>2. \E n \in Node : x \in pts'[n]
                BY <3>2, <4>1 DEF Nested
            <4> QED
                BY <2>7, <4>2 DEF ObjectPresent
        <3> QED
            BY <3>1, <3>2
    <2>9. CallsInGraph'
        <3>1. ASSUME NEW c \in prog.calls, NEW h \in HeapNodes(c), h \notin nodes, repOf[h] = h
              PROVE  h \notin nodes' /\ repOf'[h] = h
            <4>1. h \in Node /\ h \notin FieldObj
                BY HeapNodesWhole DEF HeapNodes, Node
            <4>2. \A f \in FieldNodes(o) : repOf[f] # h
                BY <1>1, <2>2, <3>1, <4>1 DEF RepsInGraph, Present
            <4>3. r[h] = h
                BY <2>4, <4>1, <4>2
            <4> QED
                BY <2>1, <2>5, <3>1, <4>1, <4>3 DEF MergeNodes, MergedRep
        <3> QED
            BY <2>5, <3>1, CallsKept
    <2> QED
        BY <2>5, <2>7, <2>8, <2>9 DEF ObjectsInGraph
<1> QED
    BY <1>3, <1>4

LEMMA HandleCopyGepGraph ==
    ASSUME TypeOK, RepsInGraph, ObjectsInGraph, CallsInGraph, NEW n \in Node,
           HandleCopyGep(n), pc # "final", pc' = "wave", pending = {}, UNCHANGED <<pending, copies>>
    PROVE  RepsInGraph' /\ ObjectsInGraph' /\ CallsInGraph'
<1> DEFINE diff == Diff(n)
           out == {e \in edges : e.kind \in DirectKind /\ e.src = n}
           gained(m) == UNION {Flow(e, diff) : e \in {x \in out : repOf[x.dst] = m}}
           live == {o \in diff : o[1] \notin BlkOrConst \cup fi}
           variant == IF \E e \in out : e.kind = "vgep" THEN live ELSE {}
           created == UNION {GepPts(e, live) : e \in {x \in out : x.kind = "ngep"}}
<1>1. /\ pts' = [m \in Node |-> pts[m] \cup gained(m)]
      /\ toCollapse' = toCollapse \cup {FIObjVar(o) : o \in variant}
      /\ nodes' = nodes \cup (created \ {o \in Node : repOf[o] # o})
      /\ UNCHANGED <<prog, edges, repOf, calls>>
    BY DEF HandleCopyGep
<1>2. /\ diff \subseteq Obj
      /\ diff \subseteq pts[n]
      /\ pts \in [Node -> SUBSET Obj]
      /\ edges \subseteq Edge
      /\ repOf \in [Node -> Node]
      /\ nodes \subseteq Node
      /\ toCollapse \subseteq Obj
    BY DEF Diff, TypeOK, TypeOKBase
<1>3. variant \subseteq live /\ live \subseteq diff /\ \A o \in live : o[1] \notin BlkOrConst \cup fi
    OBVIOUS
<1>4. \A o \in diff : ObjectPresent(o)
    BY <1>2 DEF ObjectsInGraph
<1>5. ASSUME NEW x \in created
      PROVE  x \in Obj /\ x \in Node /\ \E o \in live : x[1] = o[1] /\ FIObjVar(x) = FIObjVar(o)
    <2>1. PICK e \in out : e.kind = "ngep" /\ x \in GepPts(e, live)
        OBVIOUS
    <2>2. PICK o \in live : x = GetGepObjVar(fi, o, e.off)
        BY <1>3, <2>1 DEF GepPts
    <2>3. e.off \in Offset /\ o \in Obj
        BY <1>2, <1>3 DEF Edge
    <2>4. x \in Obj
        BY <2>2, <2>3, GepObjVarType DEF TypeOK, TypeOKBase
    <2>5. x[1] = o[1]
        BY <2>2, <2>3, GepObjVarBase
    <2>6. FIObjVar(x) = FIObjVar(o)
        BY <2>3, <2>4, <2>5, SameBase
    <2> QED
        BY <2>4, <2>5, <2>6 DEF Node
<1>6. ASSUME NEW m \in Node, NEW x \in gained(m)
      PROVE  x \in diff \/ (\E o \in diff : x = FIObjVar(o)) \/ x \in created
    <2>1. PICK e \in out : x \in Flow(e, diff)
        OBVIOUS
    <2>2. ASSUME NEW o \in diff, e.kind \notin {"copy", "vgep"}, o[1] \notin BlkOrConst \cup fi,
                 x = GetGepObjVar(fi, o, e.off)
          PROVE  x \in created
        <3>1. e.kind = "ngep"
            BY <2>2 DEF DirectKind
        <3>2. x \in GepPts(e, live)
            BY <2>2, <3>1 DEF GepPts
        <3> QED
            BY <3>1, <3>2
    <2> HIDE DEF created, out, diff
    <2> QED
        BY <2>1, <2>2, FlowParts
<1> HIDE DEF gained, created, variant, live, diff
<1>7. \A m \in Node : repOf[m] \in nodes => repOf'[m] \in nodes'
    BY <1>1
<1>8. RepsInGraph'
    <2>1. \A m \in nodes' : repOf'[m] = m
        BY <1>1, <1>5 DEF RepsInGraph
    <2> QED
        BY <1>1, <1>7, <2>1 DEF RepsInGraph, Present
<1>9. ASSUME NEW x \in created PROVE ObjectPresent(x)'
    <2>1. PICK o \in live : x[1] = o[1] /\ FIObjVar(x) = FIObjVar(o)
        BY <1>5
    <2>2. ObjectPresent(o)' /\ x \in Node
        BY <1>2, <1>3, <1>4, <1>5, <1>7, ObjectPresentKept
    <2>3. repOf'[x] \in nodes'
        BY <1>1, <1>9, <2>2 DEF RepsInGraph, Present
    <2> QED
        BY <2>1, <2>2, <2>3 DEF ObjectPresent, Present
<1>10. \A m \in Node : \A x \in pts'[m] : ObjectPresent(x)'
    <2> SUFFICES ASSUME NEW m \in Node, NEW x \in pts'[m] PROVE ObjectPresent(x)'
        OBVIOUS
    <2>1. CASE x \in pts[m]
        BY <1>2, <1>7, <2>1, ObjectPresentKept DEF ObjectsInGraph
    <2>2. CASE x \in diff
        BY <1>2, <1>4, <1>7, <2>2, ObjectPresentKept
    <2>3. ASSUME NEW o \in diff, x = FIObjVar(o) PROVE ObjectPresent(x)'
        <3>1. ObjectPresent(FIObjVar(o)) /\ FIObjVar(o) \in Obj
            BY <1>2, <1>4, BasePresent, FIObjVarType DEF ObjectPresent
        <3> QED
            BY <1>7, <2>3, <3>1, ObjectPresentKept
    <2>4. CASE x \in created
        BY <1>9, <2>4
    <2> QED
        BY <1>1, <1>6, <2>1, <2>2, <2>3, <2>4
<1>11. \A o \in toCollapse' \cup pending' : Present(FIObjVar(o))'
    <2> SUFFICES ASSUME NEW o \in toCollapse' PROVE Present(FIObjVar(o))'
        OBVIOUS
    <2>1. CASE o \in toCollapse
        <3>1. FIObjVar(o) \in Node
            BY <1>2, <2>1, FIObjVarType DEF Node
        <3> QED
            BY <1>7, <2>1, <3>1 DEF ObjectsInGraph, Present
    <2>2. ASSUME NEW x \in variant, o = FIObjVar(x) PROVE Present(FIObjVar(o))'
        <3>1. x \in Obj /\ ObjectPresent(x)'
            BY <1>2, <1>3, <1>4, <1>7, ObjectPresentKept
        <3> QED
            BY <2>2, <3>1, FIObjVarWhole DEF ObjectPresent
    <2> QED
        BY <1>1, <2>1, <2>2
<1>12. CallsInGraph'
    <2>1. ASSUME NEW c \in prog.calls, NEW h \in HeapNodes(c), h \notin nodes, repOf[h] = h
          PROVE  h \notin nodes' /\ repOf'[h] = h
        <3>1. ASSUME h \in created PROVE FALSE
            <4>1. PICK o \in live : FIObjVar(h) = FIObjVar(o)
                BY <1>5, <3>1
            <4>2. h = FIObjVar(h)
                <5>1. h = c.dummyVal \/ h = DummyObj(c)
                    BY DEF HeapNodes
                <5>2. h # c.dummyVal
                    BY <1>5, <3>1, HeapNodesWhole, AndersenAssumption
                <5> QED
                    BY <5>1, <5>2, HeapNodesWhole
            <4>3. Present(FIObjVar(o))
                BY <1>3, <1>4 DEF ObjectPresent
            <4> QED
                BY <2>1, <4>1, <4>2, <4>3 DEF Present
        <3> QED
            BY <1>1, <2>1, <3>1
    <2> QED
        BY <1>1, <1>7, <2>1, CallsKept
<1> QED
    BY <1>8, <1>10, <1>11, <1>12 DEF ObjectsInGraph

(* The ends of the copies a resolved call asks for: values of the call     *)
(* site, of the callee, and the dummy value of an allocator call.          *)
LEMMA ParamCopiesEnds ==
    ASSUME TypeOK, NEW c \in prog.calls, NEW f \in Fun, NEW w \in ParamCopies(c, f)
    PROVE  /\ w[1] \in CallSiteVals(c) \cup FunVals(f)
              \/ (w[1] = c.dummyVal /\ c.ret # NoVal /\ FunInfo[f].alloc)
           /\ w[2] \in CallSiteVals(c) \cup FunVals(f)
           /\ w[2] \in Defined(prog)
<1> DEFINE F == FunInfo[f]
           n == Len(F.params)
<1>1. c \in CallSite /\ F \in Signature
    BY AndersenAssumption DEF TypeOK, TypeOKBase
<1>2. /\ \A i \in DOMAIN c.args : c.args[i] \in Val
      /\ \A i \in DOMAIN F.params : F.params[i] \in Val
      /\ \A j \in DOMAIN c.args : j <= n => j \in DOMAIN F.params
    BY <1>1 DEF CallSite, Signature
<1>3. NoVal \notin Val
    BY AndersenAssumption
<1>4. /\ \A i \in DOMAIN c.args : c.args[i] \in CallSiteVals(c)
      /\ c.ret # NoVal => c.ret \in CallSiteVals(c)
    BY <1>2, <1>3 DEF CallSiteVals
<1>5. /\ \A i \in DOMAIN F.params : F.params[i] \in FunVals(f)
      /\ F.ret # NoVal => F.ret \in FunVals(f)
      /\ F.vararg # NoVal => F.vararg \in FunVals(f)
    BY <1>2, <1>3 DEF FunVals
<1>6. /\ c.ret \in Defined(prog)
      /\ F.vararg \in Defined(prog)
      /\ \A i \in DOMAIN F.params : F.params[i] \in Defined(prog)
    BY DEF Defined
<1>7. \/ w = <<c.dummyVal, c.ret>> /\ F.alloc /\ c.ret # NoVal
      \/ w = <<F.ret, c.ret>> /\ F.ret # NoVal /\ c.ret # NoVal
      \/ \E i \in DOMAIN c.args : i <= n /\ w = <<c.args[i], F.params[i]>>
      \/ F.vararg # NoVal /\ \E i \in DOMAIN c.args : w = <<c.args[i], F.vararg>>
    BY DEF ParamCopies
<1> HIDE DEF F, n
<1>8. CASE w = <<c.dummyVal, c.ret>> /\ F.alloc /\ c.ret # NoVal
    BY <1>4, <1>6, <1>8 DEF F
<1>9. CASE w = <<F.ret, c.ret>> /\ F.ret # NoVal /\ c.ret # NoVal
    BY <1>4, <1>5, <1>6, <1>9
<1>10. CASE \E i \in DOMAIN c.args : i <= n /\ w = <<c.args[i], F.params[i]>>
    BY <1>2, <1>4, <1>5, <1>6, <1>10
<1>11. CASE F.vararg # NoVal /\ \E i \in DOMAIN c.args : w = <<c.args[i], F.vararg>>
    BY <1>4, <1>5, <1>6, <1>11
<1> QED
    BY <1>7, <1>8, <1>9, <1>10, <1>11

LEMMA UpdateCallGraphGraph ==
    ASSUME TypeOK, RepsInGraph, ObjectsInGraph, CallsInGraph, UpdateCallGraph
    PROVE  RepsInGraph' /\ ObjectsInGraph' /\ CallsInGraph'
<1>1. PICK new \in NewCalls :
          /\ calls' = calls \cup new
          /\ copies' = UNION {ParamCopies(x[1], x[2]) : x \in new}
          /\ pts' = [n \in Node |-> pts[n] \cup
                       {DummyObj(c) : c \in {d \in NewHeapSites(new) : d.dummyVal = n}}]
          /\ nodes' = nodes \cup UNION {HeapNodes(c) : c \in NewHeapSites(new)}
    BY DEF UpdateCallGraph
<1>2. /\ UNCHANGED <<prog, edges, repOf, toCollapse, pending>>
      /\ pc # "final"
    BY DEF UpdateCallGraph, memVars, Post, Quiet
<1>3. /\ pts \in [Node -> SUBSET Obj]
      /\ repOf \in [Node -> Node]
      /\ toCollapse \cup pending \subseteq Obj
      /\ prog \in Programs
    BY DEF TypeOK, TypeOKBase
<1>4. \A x \in new : /\ x[1] \in prog.calls /\ x[2] \in Fun /\ x = <<x[1], x[2]>>
                    /\ \E o \in pts[repOf[x[1].fp]] : o[1] = x[2]
    BY DEF NewCalls, Candidates, GetPts
<1>5. NewHeapSites(new) = HeapSites(new) \ HeapSites(calls)
    BY DEF NewHeapSites, HeapSites
<1>6. \A c \in NewHeapSites(new) :
          /\ c \in prog.calls
          /\ \A h \in HeapNodes(c) : h \notin nodes /\ repOf[h] = h
    BY <1>2, <1>5 DEF CallsInGraph, HeapSites
<1>7. \A n \in Node : repOf[n] \in nodes => repOf'[n] \in nodes'
    BY <1>1, <1>2
<1>8. \A c \in NewHeapSites(new) : \A h \in HeapNodes(c) : h \in nodes' /\ repOf'[h] = h
    BY <1>1, <1>2, <1>6
<1>9. RepsInGraph'
    <2>1. \A n \in nodes' : repOf'[n] = n
        BY <1>1, <1>2, <1>6 DEF RepsInGraph
    <2>2. ProgramNodes(prog) \subseteq Node
        BY <1>3, ProgramNodesType
    <2> QED
        BY <1>1, <1>2, <1>7, <2>1, <2>2 DEF RepsInGraph, Present
<1>10. \A n \in Node : \A o \in pts'[n] : ObjectPresent(o)'
    <2> SUFFICES ASSUME NEW n \in Node, NEW o \in pts'[n] PROVE ObjectPresent(o)'
        OBVIOUS
    <2>1. CASE o \in pts[n]
        BY <1>2, <1>3, <1>7, <2>1, ObjectPresentKept DEF ObjectsInGraph
    <2>2. CASE o \notin pts[n]
        <3>1. PICK c \in NewHeapSites(new) : o = DummyObj(c)
            BY <1>1, <2>2
        <3>2. FIObjVar(o) = o /\ o \in HeapNodes(c)
            BY <1>6, <3>1, HeapNodesWhole DEF HeapNodes
        <3>3. o[1] \notin Fun
            BY <1>3, <1>6, <3>1, ProgramsAssumption DEF HeapNodesNew, DummyObj
        <3> QED
            BY <1>8, <3>2, <3>3 DEF ObjectPresent, Present
    <2> QED
        BY <2>1, <2>2
<1>11. ObjectsInGraph'
    <2>1. \A o \in toCollapse \cup pending : FIObjVar(o) \in Node
        BY <1>3, FIObjVarType DEF Node
    <2> QED
        BY <1>2, <1>7, <1>10, <2>1 DEF ObjectsInGraph, Present
<1>12. \A c \in prog.calls : c \in HeapSites(calls)' <=> c \in HeapSites(calls) \cup NewHeapSites(new)
    BY <1>1, <1>2, <1>5 DEF HeapSites
<1>13. \A c \in HeapSites(calls)' : \A h \in HeapNodes(c) : Present(h)'
    <2> SUFFICES ASSUME NEW c \in HeapSites(calls)', NEW h \in HeapNodes(c) PROVE Present(h)'
        OBVIOUS
    <2>1. c \in prog.calls
        BY <1>2 DEF HeapSites
    <2>2. h \in Node
        BY <2>1, HeapNodesWhole DEF HeapNodes, Node
    <2>3. CASE c \in HeapSites(calls)
        BY <1>2, <1>7, <2>2, <2>3 DEF CallsInGraph, Present
    <2>4. CASE c \in NewHeapSites(new)
        BY <1>8, <2>4 DEF Present
    <2> QED
        BY <1>12, <2>1, <2>3, <2>4
<1>14. \A c \in copies' : Present(c[1])' /\ Present(c[2])'
    <2> SUFFICES ASSUME NEW x \in new, NEW w \in ParamCopies(x[1], x[2])
                 PROVE  Present(w[1])' /\ Present(w[2])'
        BY <1>1
    <2>1. x[1] \in prog.calls /\ x[2] \in Fun
        BY <1>4
    <2>2. \A v \in CallSiteVals(x[1]) : Present(v)'
        <3>1. CallSiteVals(x[1]) \subseteq ProgramNodes(prog)
            BY <2>1, ProgramNodesHave
        <3> QED
            BY <1>2, <1>9, <3>1 DEF RepsInGraph, UpdateCallGraph
    <2>3. \A v \in FunVals(x[2]) : Present(v)'
        <3>1. PICK o \in pts[repOf[x[1].fp]] : o[1] = x[2]
            BY <1>4
        <3>2. repOf[x[1].fp] \in Node
            <4>1. x[1].fp \in Node
                BY <1>3, <2>1, AndersenAssumption DEF CallSite, Node
            <4> QED
                BY <1>3, <4>1
        <3>3. ObjectPresent(o)' /\ o[1] \in Fun
            BY <1>2, <1>3, <1>7, <2>1, <3>1, <3>2, ObjectPresentKept DEF ObjectsInGraph
        <3> QED
            BY <3>1, <3>3 DEF ObjectPresent
    <2>4. ASSUME w[1] = x[1].dummyVal, x[1].ret # NoVal, FunInfo[x[2]].alloc
          PROVE  Present(w[1])'
        <3>1. x[1] \in HeapSites(calls)'
            BY <1>1, <1>2, <1>4, <2>1, <2>4 DEF HeapSites
        <3> QED
            BY <1>13, <2>4, <3>1 DEF HeapNodes
    <2> QED
        BY <2>1, <2>2, <2>3, <2>4, ParamCopiesEnds
<1>15. ASSUME NEW c \in prog.calls, c.ret # NoVal, c \notin HeapSites(calls)', NEW h \in HeapNodes(c)
       PROVE  h \notin nodes' /\ repOf'[h] = h
    <2>1. c \notin HeapSites(calls) /\ c \notin NewHeapSites(new)
        BY <1>12, <1>15
    <2>2. h \notin nodes /\ repOf[h] = h
        BY <1>2, <1>15, <2>1 DEF CallsInGraph
    <2>3. \A d \in NewHeapSites(new) : h \notin HeapNodes(d)
        BY <1>3, <1>6, <2>1, ProgramsAssumption DEF HeapNodesNew
    <2> QED
        BY <1>1, <1>2, <2>2, <2>3
<1> QED
    BY <1>2, <1>9, <1>11, <1>13, <1>14, <1>15 DEF CallsInGraph

(* Merging keeps GepsDefineOnce if it merges nothing into the pointer a    *)
(* remaining gep defines.                                                  *)
LEMMA MergeGeps ==
    ASSUME TypeOK, GepsDefineOnce, pc # "final", NEW r \in [Node -> Node],
           \A e \in {x \in edges : x.kind = "ngep"} : ~ Removed(e, r) =>
               r[e.dst] = e.dst /\ \A n \in Node : r[n] = e.dst => n = e.dst,
           NEW Q, MergeNodes(r, Q), UNCHANGED <<prog, copies>>
    PROVE  GepsDefineOnce'
<1>1. /\ repOf \in [Node -> Node]
      /\ edges \subseteq Edge
      /\ copies \subseteq Node \X Node
    BY DEF TypeOK, TypeOKBase
<1>2. repOf' = [n \in Node |-> r[repOf[n]]]
    BY DEF MergeNodes, MergedRep
<1>3. ASSUME NEW e \in edges'
      PROVE  \E d \in edges : /\ ~ Removed(d, r) /\ e = ReTarget(d, r) /\ e.kind = d.kind
                              /\ e.dst = r[d.dst] /\ d.dst \in Node
    <2>1. PICK d \in edges : ~ Removed(d, r) /\ e = ReTarget(d, r)
        BY DEF MergeNodes, MoveEdges
    <2> QED
        BY <1>1, <2>1 DEF ReTarget, Edge
<1> SUFFICES ASSUME NEW e \in edges', e.kind = "ngep"
             PROVE  /\ e.dst \in GepResults(prog')
                    /\ \A x \in edges' : x.kind \in DirectKind \cup {"load"} /\ x.dst = e.dst
                                            => x = e
                    /\ \A n \in Node : repOf'[n] = e.dst => n = e.dst
                    /\ \A c \in copies' : repOf'[c[2]] # e.dst
    BY DEF GepsDefineOnce
<1>4. PICK d \in edges : /\ ~ Removed(d, r) /\ e = ReTarget(d, r) /\ d.kind = "ngep"
                         /\ e.dst = r[d.dst]
    BY <1>3
<1>5. e.dst = d.dst /\ \A n \in Node : r[n] = d.dst => n = d.dst
    BY <1>4
<1>6. /\ d.dst \in GepResults(prog)
      /\ \A x \in edges : x.kind \in DirectKind \cup {"load"} /\ x.dst = d.dst => x = d
      /\ \A n \in Node : repOf[n] = d.dst => n = d.dst
      /\ \A c \in copies : repOf[c[2]] # d.dst
    BY <1>4 DEF GepsDefineOnce
<1>7. ASSUME NEW x \in edges', x.kind \in DirectKind \cup {"load"}, x.dst = e.dst PROVE x = e
    <2>1. PICK y \in edges : /\ x = ReTarget(y, r) /\ x.kind = y.kind
                             /\ x.dst = r[y.dst] /\ y.dst \in Node
        BY <1>3
    <2>2. y.dst = d.dst
        BY <1>5, <1>7, <2>1
    <2> QED
        BY <1>4, <1>6, <1>7, <2>1, <2>2
<1>8. \A n \in Node : repOf'[n] = e.dst => n = e.dst
    BY <1>1, <1>2, <1>5, <1>6
<1>9. \A c \in copies' : repOf'[c[2]] # e.dst
    BY <1>1, <1>2, <1>5, <1>6
<1> QED
    BY <1>5, <1>6, <1>7, <1>8, <1>9

LEMMA SCCDetectGeps ==
    ASSUME TypeOK, GepsDefineOnce, SCCDetect
    PROVE  GepsDefineOnce'
<1>1. PICK r \in SCCReps(edges) : MergeNodes(r, pts)
    BY DEF SCCDetect
<1>2. edges \subseteq Edge /\ pc = "scc" /\ UNCHANGED <<prog, copies>>
    BY DEF TypeOK, TypeOKBase, SCCDetect
<1>3. r \in [Node -> Node]
    BY <1>2, SCCRepsType
<1>4. \A e \in {x \in edges : x.kind = "ngep"} : ~ Removed(e, r) =>
          r[e.dst] = e.dst /\ \A n \in Node : r[n] = e.dst => n = e.dst
    <2> SUFFICES ASSUME NEW e \in edges, e.kind = "ngep", ~ Removed(e, r)
                 PROVE  r[e.dst] = e.dst /\ \A n \in Node : r[n] = e.dst => n = e.dst
        OBVIOUS
    <2>1. \A x \in edges : x.kind \in DirectKind /\ x.dst = e.dst => x = e
        BY DEF GepsDefineOnce
    <2>2. e.kind \in DirectKind
        BY DEF DirectKind
    <2> QED
        BY <1>2, <2>1, <2>2, OneDefinition
<1> QED
    BY <1>1, <1>2, <1>3, <1>4, MergeGeps

LEMMA CollapseGeps ==
    ASSUME TypeOK, GepsDefineOnce, pc # "final", NEW o \in Obj, CollapseField(o),
           UNCHANGED <<prog, copies, pc>>
    PROVE  GepsDefineOnce'
<1>1. CASE o[1] \in BlkOrConst
    BY <1>1 DEF CollapseField, graphVars, GepsDefineOnce
<1>2. CASE o[1] \notin BlkOrConst
    <2>1. MergeNodes(CollapsedRep(o), CollapsedPts(o))
        BY <1>2 DEF CollapseField
    <2>2. CollapsedRep(o) \in [Node -> Node] /\ FieldNodes(o) \subseteq Node
        BY CollapseParts, FieldObjType DEF Node
    <2>3. FIObjVar(o) \in Obj /\ FIObjVar(o) \in Node
        BY FIObjVarType DEF Node
    <2>4. \A e \in {x \in edges : x.kind = "ngep"} : ~ Removed(e, CollapsedRep(o)) =>
              /\ CollapsedRep(o)[e.dst] = e.dst
              /\ \A n \in Node : CollapsedRep(o)[n] = e.dst => n = e.dst
        <3> SUFFICES ASSUME NEW e \in edges, e.kind = "ngep"
                     PROVE  /\ CollapsedRep(o)[e.dst] = e.dst
                            /\ \A n \in Node : CollapsedRep(o)[n] = e.dst => n = e.dst
            OBVIOUS
        <3>1. e.dst \in Val /\ e.dst \notin Obj /\ e.dst \in Node
            <4>1. e.dst \in GepResults(prog) /\ prog \in Programs
                BY DEF GepsDefineOnce, TypeOK, TypeOKBase
            <4> QED
                BY <4>1, ProgramsAssumption, AndersenAssumption DEF SingleAssignment, Node
        <3>2. \A n \in Node : repOf[n] = e.dst => n = e.dst
            BY DEF GepsDefineOnce
        <3>3. repOf[FIObjVar(o)] # e.dst /\ \A f \in FieldNodes(o) : repOf[f] # e.dst
            BY <2>2, <2>3, <3>1, <3>2, CollapseParts, FieldObjType
        <3> QED
            BY <3>1, <3>3 DEF CollapsedRep
    <2> QED
        BY <2>1, <2>2, <2>4, MergeGeps
<1> QED
    BY <1>1, <1>2

(* A copy to come does not lead to a gep result.                           *)
LEMMA NewCopiesGeps ==
    ASSUME TypeOK, GepsDefineOnce, pc # "final", UNCHANGED <<prog, edges, repOf>>,
           \A c \in copies' : c[2] \in Node /\
               (\/ c[2] \in Obj \cup Defined(prog)
                \/ \E x \in edges : x.kind = "load" /\ x.dst = c[2] /\ repOf[x.dst] = x.dst)
    PROVE  GepsDefineOnce'
<1> SUFFICES ASSUME NEW e \in edges, e.kind = "ngep", NEW c \in copies', repOf[c[2]] = e.dst
             PROVE  FALSE
    BY DEF GepsDefineOnce
<1>1. e.dst \in GepResults(prog) /\ prog \in Programs
    BY DEF GepsDefineOnce, TypeOK, TypeOKBase
<1>2. e.dst \in Val /\ e.dst \notin Obj /\ e.dst \notin Defined(prog)
    BY <1>1, ProgramsAssumption, AndersenAssumption DEF SingleAssignment
<1>3. c[2] = e.dst
    BY DEF GepsDefineOnce
<1>4. \A x \in edges : x.kind = "load" => x.dst # e.dst
    <2> SUFFICES ASSUME NEW x \in edges, x.kind = "load", x.dst = e.dst PROVE FALSE
        OBVIOUS
    <2>1. x = e
        BY DEF GepsDefineOnce
    <2> QED
        BY <2>1
<1> QED
    BY <1>2, <1>3, <1>4

LEMMA AddCopyEdgeGraph ==
    ASSUME TypeOK, GraphInvariant, pc # "final", NEW c \in copies, AddCopyEdge(c[1], c[2]),
           copies' \subseteq copies, UNCHANGED <<prog, nodes, repOf, pts, toCollapse, pending, calls>>
    PROVE  GraphInvariant'
<1> USE DEF GraphInvariant
<1>1. /\ repOf[c[1]] \in nodes /\ repOf[c[2]] \in nodes
      /\ c[1] \in Node /\ c[2] \in Node
    BY DEF CallsInGraph, Present, TypeOK
<1>2. \A e \in edges' : e \in edges \/ e = CopyEdge(repOf[c[1]], repOf[c[2]])
    BY DEF AddCopyEdge
<1>3. edges \subseteq edges'
    BY DEF AddCopyEdge
<1>4. \A n : Present(n)' <=> Present(n)
    BY DEF Present
<1>5. RepsInGraph'
    <2>1. \A e \in edges' : e.src \in nodes /\ e.dst \in nodes
        BY <1>1, <1>2 DEF RepsInGraph, CopyEdge
    <2> QED
        BY <2>1 DEF RepsInGraph, Present
<1>6. ObjectsInGraph'
    BY DEF ObjectsInGraph, ObjectPresent, Present
<1>7. CallsInGraph'
    BY DEF CallsInGraph, HeapSites, Present
<1>8. GepsDefineOnce'
    <2> SUFFICES ASSUME NEW e \in edges', e.kind = "ngep"
                 PROVE  /\ e.dst \in GepResults(prog)
                        /\ \A x \in edges' : x.kind \in DirectKind \cup {"load"}
                                                /\ x.dst = e.dst => x = e
                        /\ \A n \in Node : repOf[n] = e.dst => n = e.dst
                        /\ \A w \in copies' : repOf[w[2]] # e.dst
        BY DEF GepsDefineOnce
    <2>1. e \in edges
        BY <1>2 DEF CopyEdge
    <2>2. repOf[c[2]] # e.dst
        BY <2>1 DEF GepsDefineOnce
    <2>3. \A x \in edges' : x.dst = e.dst => x \in edges
        BY <1>2, <2>2 DEF CopyEdge
    <2> QED
        BY <2>1, <2>3 DEF GepsDefineOnce
<1> QED
    BY <1>5, <1>6, <1>7, <1>8

LEMMA PostProcessNodeGraph ==
    ASSUME TypeOK, RepsStable, GraphInvariant, NEW n \in worklist, PostProcessNode(n)
    PROVE  GraphInvariant'
<1> USE DEF GraphInvariant
<1>1. /\ repOf \in [Node -> Node]
      /\ pts \in [Node -> SUBSET Obj]
      /\ edges \subseteq Edge
      /\ nodes \subseteq Node
      /\ n \in Node
    BY DEF TypeOK, TypeOKBase
<1>2. /\ UNCHANGED <<prog, nodes, edges, repOf, pts, toCollapse, pending, calls>>
      /\ pc # "final" /\ pc' # "final"
      /\ copies' = LoadCopies(repOf[n]) \cup StoreCopies(repOf[n])
    BY DEF PostProcessNode, Post, Quiet, graphVars, memVars
<1>3. \A o \in pts[repOf[n]] : Present(o) /\ o \in Obj
    BY <1>1, <1>2 DEF ObjectsInGraph, ObjectPresent
<1>4. \A e \in edges : Present(e.src) /\ Present(e.dst)
    BY DEF RepsInGraph, Present
<1>5. ASSUME NEW c \in copies'
      PROVE  /\ Present(c[1]) /\ Present(c[2]) /\ c[2] \in Node
             /\ \/ c[2] \in Obj \cup Defined(prog)
                \/ \E x \in edges : x.kind = "load" /\ x.dst = c[2] /\ repOf[x.dst] = x.dst
    <2>1. CASE c \in LoadCopies(repOf[n])
        <3>1. PICK o \in pts[repOf[n]], e \in edges : e.kind = "load" /\ c = <<o, e.dst>>
            BY <2>1 DEF LoadCopies
        <3> QED
            BY <1>1, <1>2, <1>3, <1>4, <3>1 DEF RepsStable, Edge
    <2>2. CASE c \in StoreCopies(repOf[n])
        <3>1. PICK o \in pts[repOf[n]], e \in edges : c = <<e.src, o>>
            BY <2>2 DEF StoreCopies
        <3> QED
            BY <1>3, <1>4, <3>1 DEF Node
    <2> QED
        BY <1>2, <2>1, <2>2
<1>6. GepsDefineOnce'
    BY <1>2, <1>5, NewCopiesGeps
<1>7. RepsInGraph' /\ ObjectsInGraph'
    BY <1>2 DEF RepsInGraph, ObjectsInGraph, ObjectPresent, Present
<1>8. CallsInGraph'
    BY <1>2, <1>5 DEF CallsInGraph, HeapSites, Present
<1> QED
    BY <1>6, <1>7, <1>8

LEMMA UpdateCallGraphGeps ==
    ASSUME TypeOK, GepsDefineOnce, UpdateCallGraph
    PROVE  GepsDefineOnce'
<1>1. UNCHANGED <<prog, edges, repOf>> /\ pc # "final"
    BY DEF UpdateCallGraph, Post, Quiet
<1>2. PICK new \in NewCalls : copies' = UNION {ParamCopies(x[1], x[2]) : x \in new}
    BY DEF UpdateCallGraph
<1>3. \A x \in new : x[1] \in prog.calls /\ x[2] \in Fun
    BY DEF NewCalls, Candidates
<1>4. \A c \in copies' : c[2] \in Node /\ c[2] \in Defined(prog)
    <2> SUFFICES ASSUME NEW x \in new, NEW c \in ParamCopies(x[1], x[2])
                 PROVE  c[2] \in Node /\ c[2] \in Defined(prog)
        BY <1>2
    <2>1. c \in Val \X Val
        BY <1>3, ParamCopiesType
    <2> QED
        BY <1>3, <2>1, ParamCopiesEnds DEF Node
<1> QED
    BY <1>1, <1>4, NewCopiesGeps

LEMMA GraphNext ==
    ASSUME TypeOK, RepsStable, GraphInvariant, [Next]_vars
    PROVE  GraphInvariant'
<1> USE DEF GraphInvariant
<1> DEFINE Same == /\ UNCHANGED <<prog, nodes, edges, repOf, pts, calls>>
                   /\ toCollapse' = toCollapse
                   /\ copies' = copies
<1>1. CASE SCCDetect
    BY <1>1, SCCDetectGraph, SCCDetectGeps
<1>2. ASSUME NEW n \in wave, PopNode(n) PROVE GraphInvariant'
    <2>1. /\ Same /\ pc = "wave" /\ pc' = "pwc"
          /\ pending' \subseteq GetPts(n)
        BY <1>2 DEF PopNode, Quiet, baseVars, graphVars, memVars
    <2>2. repOf[n] \in Node
        BY DEF TypeOK, TypeOKBase
    <2>3. \A o \in pending' : Present(FIObjVar(o))
        BY <2>1, <2>2 DEF GetPts, ObjectsInGraph, ObjectPresent
    <2>4. RepsInGraph' /\ CallsInGraph' /\ GepsDefineOnce'
        BY <2>1 DEF RepsInGraph, CallsInGraph, GepsDefineOnce, HeapSites, Present
    <2>5. ObjectsInGraph'
        BY <2>1, <2>3 DEF ObjectsInGraph, ObjectPresent, Present
    <2> QED
        BY <2>4, <2>5
<1>3. ASSUME NEW o \in pending, CollapseNodePts(o) PROVE GraphInvariant'
    <2>1. pc # "final" /\ pc' = pc /\ o \in Obj /\ UNCHANGED copies
        BY <1>3 DEF CollapseNodePts, TypeOK
    <2>2. CASE o[1] \in fi
        <3>1. Same /\ pending' \subseteq pending
            BY <1>3, <2>2 DEF CollapseNodePts, baseVars, graphVars, memVars
        <3> QED
            BY <2>1, <3>1 DEF RepsInGraph, ObjectsInGraph, ObjectPresent, CallsInGraph,
                              GepsDefineOnce, HeapSites, Present
    <2>3. CASE o[1] \notin fi
        <3>1. /\ CollapseField(o) /\ UNCHANGED <<prog, calls, toCollapse>>
              /\ pending' \subseteq pending \cup Nested(o)
            BY <1>3, <2>3 DEF CollapseNodePts
        <3> QED
            BY <2>1, <3>1, CollapseGraph, CollapseGeps
    <2> QED
        BY <2>2, <2>3
<1>4. CASE ProcessNode
    <2>1. PICK n \in cur : IF repOf[n] = n THEN HandleCopyGep(n) ELSE UNCHANGED baseVars
        BY <1>4 DEF ProcessNode
    <2>2. /\ n \in Node /\ pc = "pwc" /\ pc' = "wave" /\ pending = {}
          /\ UNCHANGED <<pending, copies>>
        BY <1>4 DEF ProcessNode, TypeOK
    <2>3. CASE repOf[n] = n
        <3>1. HandleCopyGep(n)
            BY <2>1, <2>3
        <3>2. UNCHANGED <<prog, edges, repOf>>
            BY <3>1 DEF HandleCopyGep
        <3>3. GepsDefineOnce'
            BY <2>2, <3>2 DEF GepsDefineOnce
        <3> QED
            BY <2>2, <3>1, <3>3, HandleCopyGepGraph
    <2>4. CASE repOf[n] # n
        BY <2>1, <2>2, <2>4 DEF baseVars, graphVars, memVars, RepsInGraph, ObjectsInGraph,
                                ObjectPresent, CallsInGraph, GepsDefineOnce, HeapSites, Present
    <2> QED
        BY <2>3, <2>4
<1>5. ASSUME NEW o \in toCollapse, CollapseFields(o) PROVE GraphInvariant'
    <2>1. /\ pc # "final" /\ o \in Obj /\ CollapseField(o)
          /\ toCollapse' \subseteq toCollapse /\ pending' = Nested(o)
          /\ UNCHANGED <<prog, calls, copies, pc>>
        BY <1>5 DEF CollapseFields, TypeOK, TypeOKBase
    <2> QED
        BY <2>1, CollapseGraph, CollapseGeps
<1>6. ASSUME NEW n \in worklist, PostProcessNode(n) PROVE GraphInvariant'
    BY <1>6, PostProcessNodeGraph
<1>7. ASSUME NEW c \in copies, HandleLoadStore(c) \/ ConnectParam(c) PROVE GraphInvariant'
    <2>1. /\ pc # "final" /\ AddCopyEdge(c[1], c[2]) /\ copies' \subseteq copies
          /\ UNCHANGED <<prog, nodes, repOf, pts, toCollapse, pending, calls>>
        BY <1>7 DEF HandleLoadStore, ConnectParam, memVars
    <2> QED
        BY <2>1, AddCopyEdgeGraph
<1>8. CASE UpdateCallGraph
    BY <1>8, UpdateCallGraphGraph, UpdateCallGraphGeps
<1>9. CASE NextIteration
    <2>1. Same /\ pending' = pending /\ pc # "final"
        BY <1>9 DEF NextIteration, graphVars, memVars
    <2> QED
        BY <2>1 DEF RepsInGraph, ObjectsInGraph, ObjectPresent, CallsInGraph, GepsDefineOnce,
                    HeapSites, Present
<1>10. CASE Normalize
    <2>1. \A n \in nodes : repOf'[n] = n
        BY <1>10 DEF Normalize, RepsInGraph, TypeOK, TypeOKBase
    <2> QED
        BY <1>10, <2>1 DEF Normalize, RepsInGraph, ObjectsInGraph, CallsInGraph, GepsDefineOnce
<1>11. CASE UNCHANGED vars
    BY <1>11 DEF vars, baseVars, graphVars, memVars, RepsInGraph, ObjectsInGraph,
                 ObjectPresent, CallsInGraph, GepsDefineOnce, HeapSites, Present
<1> QED
    BY <1>1, <1>2, <1>3, <1>4, <1>5, <1>6, <1>7, <1>8, <1>9, <1>10, <1>11 DEF Next

(* GraphConsistent, for every program: however merges, collapses, new      *)
(* copy edges and resolved calls follow each other, no edge is left on a   *)
(* node that updateNodeRepAndSubs has merged away, and no two geps with    *)
(* different offsets ever join the same two nodes, so hasEdge, which       *)
(* compares kind and ends only, drops none.                                *)
THEOREM GraphStaysConsistent == Spec => []GraphConsistent
<1>1. Init => IInv /\ GraphInvariant
    BY InitKeeps, GraphInit
<1>2. IInv /\ GraphInvariant /\ [Next]_vars => GraphInvariant'
    BY GraphNext DEF IInv
<1>3. IInv /\ [Next]_vars => IInv'
    BY NextKeeps
<1>4. IInv /\ GraphInvariant => GraphConsistent
    <2> SUFFICES ASSUME IInv, GraphInvariant PROVE GraphConsistent
        OBVIOUS
    <2>1. \A e \in edges : {e.src, e.dst} \subseteq nodes
        BY DEF GraphInvariant, RepsInGraph
    <2>2. \A e, g \in edges :
              e.kind = "ngep" /\ g.kind = "ngep" /\ e.src = g.src /\ e.dst = g.dst => e = g
        BY DEF GraphInvariant, GepsDefineOnce, DirectKind
    <2>3. \A n \in Node : repOf[n] # n => n \notin nodes
        BY DEF GraphInvariant, RepsInGraph
    <2>4. pc # "final" => \A n \in Node : repOf[repOf[n]] = repOf[n]
        BY DEF IInv, RepsStable
    <2> QED
        BY <2>1, <2>2, <2>3, <2>4 DEF GraphConsistent
<1> QED
    BY <1>1, <1>2, <1>3, <1>4, PTL DEF Spec

-----------------------------------------------------------------------------
(* The fixpoint of the direct edges.                                       *)

(* Between two steps of the solver: what each phase leaves behind.         *)
Phases ==
    /\ pc \notin {"wave", "pwc"} => wave = {} /\ toCollapse = {} /\ pending = {}
    /\ pc # "pwc" => cur = {}
    /\ pc = "pwc" => toCollapse = {} /\ \E n \in Node : cur = {n}
    /\ pc \notin {"post", "call"} => copies = {}
    /\ pc = "call" /\ copies # {} => reanalyze
    /\ pc \in {"done", "final"} \/ (pc = "call" /\ ~ reanalyze) => worklist = {}
    /\ \A o \in toCollapse : o = FIObjVar(o) /\ o[1] \in fi

LEMMA PhasesInit == Init => Phases
BY DEF Init, InitBase, Phases

(* One object is collapsed: by collapseNodePts or by collapseFields.       *)
CollapseStep(o) ==
    /\ o \in Obj
    /\ CollapseField(o)
    /\ UNCHANGED <<prog, calls, copies, pc, wave, order, cur>>
    /\ pc \in {"wave", "pwc"}
    /\ \/ o[1] \notin fi /\ toCollapse' = toCollapse
       \/ /\ o \in toCollapse /\ toCollapse' = toCollapse \ {o}
          /\ pc = "wave"

(* Both callers of collapseField, collapseNodePts and collapseFields, are  *)
(* such steps.                                                             *)
LEMMA CollapseSteps ==
    ASSUME TypeOK, NEW o,
           \/ o \in pending /\ CollapseNodePts(o) /\ o[1] \notin fi
           \/ o \in toCollapse /\ CollapseFields(o)
    PROVE  CollapseStep(o)
BY DEF CollapseStep, CollapseNodePts, CollapseFields, TypeOK, TypeOKBase

LEMMA HandleCopyGepPhases ==
    ASSUME TypeOK, Phases, NEW n \in Node, HandleCopyGep(n)
    PROVE  \A o \in toCollapse' : o = FIObjVar(o) /\ o[1] \in fi'
<1> DEFINE out == {e \in edges : e.kind \in DirectKind /\ e.src = n}
           variant == IF \E e \in out : e.kind = "vgep"
                      THEN {o \in Diff(n) : o[1] \notin BlkOrConst \cup fi} ELSE {}
<1>1. /\ fi' = fi \cup {o[1] : o \in variant}
      /\ toCollapse' = toCollapse \cup {FIObjVar(o) : o \in variant}
    BY DEF HandleCopyGep
<1>2. variant \subseteq Obj
    BY DEF Diff, TypeOK, TypeOKBase
<1> HIDE DEF variant
<1>3. \A o \in variant : FIObjVar(o)[1] = o[1] /\ FIObjVar(FIObjVar(o)) = FIObjVar(o)
    BY <1>2, FIObjVarWhole
<1> QED
    BY <1>1, <1>3 DEF Phases

(* Every step of solveConstraints keeps what the phases leave behind.      *)
LEMMA PhasesNext ==
    ASSUME TypeOK, Phases, [Next]_vars
    PROVE  Phases'
<1>1. CASE SCCDetect
    BY <1>1 DEF SCCDetect, memVars, Phases
<1>2. ASSUME NEW n \in wave, PopNode(n) PROVE Phases'
    <2>1. n \in Node
        BY DEF TypeOK
    <2> QED
        BY <1>2, <2>1 DEF PopNode, Quiet, baseVars, memVars, Phases
<1>3. ASSUME NEW o, CollapseStep(o) PROVE Phases'
    <2>1. fi \subseteq fi'
        BY <1>3 DEF CollapseStep, CollapseField
    <2>2. toCollapse' \subseteq toCollapse /\ pc' = pc /\ pc \in {"wave", "pwc"}
          /\ UNCHANGED <<cur, copies>>
        BY <1>3 DEF CollapseStep
    <2> QED
        BY <2>1, <2>2 DEF Phases
<1>4. ASSUME NEW o \in pending, CollapseNodePts(o) PROVE Phases'
    <2>1. CASE o[1] \in fi
        BY <1>4, <2>1 DEF CollapseNodePts, baseVars, memVars, Phases
    <2>2. CASE o[1] \notin fi
        BY <1>3, <1>4, <2>2, CollapseSteps
    <2> QED
        BY <2>1, <2>2
<1>5. ASSUME NEW o \in toCollapse, CollapseFields(o) PROVE Phases'
    BY <1>3, <1>5, CollapseSteps
<1>6. CASE ProcessNode
    <2>1. PICK n \in cur : IF repOf[n] = n THEN HandleCopyGep(n) ELSE UNCHANGED baseVars
        BY <1>6 DEF ProcessNode
    <2>2. \A o \in toCollapse' : o = FIObjVar(o) /\ o[1] \in fi'
        <3>1. n \in Node
            BY DEF TypeOK
        <3> QED
            BY <2>1, <3>1, HandleCopyGepPhases DEF Phases, baseVars, memVars
    <2> QED
        BY <1>6, <2>2 DEF ProcessNode, Phases
<1>7. ASSUME NEW n \in worklist, PostProcessNode(n) PROVE Phases'
    BY <1>7 DEF PostProcessNode, Post, Quiet, memVars, Phases
<1>8. ASSUME NEW c \in copies, HandleLoadStore(c) \/ ConnectParam(c) PROVE Phases'
    BY <1>8 DEF HandleLoadStore, ConnectParam, memVars, Phases
<1>9. CASE UpdateCallGraph
    <2>1. PICK new \in NewCalls :
            /\ copies' = UNION {ParamCopies(x[1], x[2]) : x \in new}
            /\ reanalyze' = (reanalyze \/ new # {})
        BY <1>9 DEF UpdateCallGraph
    <2>2. copies' # {} => reanalyze'
        BY <2>1
    <2> QED
        BY <1>9, <2>2 DEF UpdateCallGraph, Post, Quiet, memVars, Phases
<1>10. CASE NextIteration
    BY <1>10 DEF NextIteration, memVars, Phases
<1>11. CASE Normalize
    BY <1>11 DEF Normalize, Phases
<1>12. CASE UNCHANGED vars
    BY <1>12 DEF vars, baseVars, memVars, Phases
<1> QED
    BY <1>1, <1>2, <1>4, <1>5, <1>6, <1>7, <1>8, <1>9, <1>10, <1>11, <1>12 DEF Next

(* The statements of the program are still in the graph, between the       *)
(* representatives of their ends; only a direct edge inside a merged       *)
(* component has gone, and then the component is flagged, or the edge is a *)
(* copy or a gep of offset zero.                                           *)
Inside(e) ==
    /\ e.kind \in DirectKind
    /\ repOf[e.src] = repOf[e.dst]
    /\ e.kind = "copy" \/ repOf[e.src] \in pwc \/ (e.kind = "ngep" /\ e.off = 0)

StatementsKept == \A e \in prog.edges : ReTarget(e, repOf) \in edges \/ Inside(e)

AddressesKept == \A a \in prog.addr : a[1] \in pts[repOf[a[2]]]

ProgramKept == StatementsKept /\ AddressesKept /\ pwc \subseteq nodes

(* The statements of the program are typed and about values.               *)
LEMMA ProgramTypes ==
    ASSUME TypeOK
    PROVE  /\ \A e \in prog.edges : e \in Edge /\ e.src \in Val /\ e.dst \in Val
           /\ \A a \in prog.addr : a[1] \in Obj /\ a[2] \in Val /\ a[1] \notin FieldObj
           /\ Val \subseteq Node /\ Obj \subseteq Node /\ Val \cap Obj = {}
<1>1. prog \in Programs
    BY DEF TypeOK, TypeOKBase
<1>2. /\ prog.edges \subseteq Edge /\ StatementsOfValues(prog)
      /\ prog.addr \subseteq Obj \X Val /\ AddressesWhole(prog)
      /\ Val \cap Obj = {}
    BY <1>1, AndersenAssumption, ProgramsAssumption
<1>3. \A a \in prog.addr : a[1] \in Obj /\ a[2] \in Val
    BY <1>2
<1>4. \A a \in prog.addr : a[1] \notin FieldObj
    BY <1>2, <1>3, FIObjVarWhole DEF AddressesWhole
<1> QED
    BY <1>2, <1>3, <1>4 DEF StatementsOfValues, Node

LEMMA ProgramInit == Init => ProgramKept
<1> SUFFICES ASSUME Init PROVE ProgramKept
    OBVIOUS
<1>1. TypeOK
    BY InitType
<1>2. /\ repOf = [n \in Node |-> n] /\ pwc = {}
      /\ edges = {e \in prog.edges : e.kind = "copy" => e.src # e.dst}
      /\ pts = [n \in Node |-> {a[1] : a \in {x \in prog.addr : x[2] = n}}]
    BY DEF Init, InitBase
<1>3. ASSUME NEW e \in prog.edges PROVE ReTarget(e, repOf) = e /\ e \in Edge
    <2>1. e \in Edge /\ repOf[e.src] = e.src /\ repOf[e.dst] = e.dst
        BY <1>1, <1>2, ProgramTypes
    <2> QED
        BY <2>1 DEF ReTarget, Edge
<1>4. StatementsKept
    BY <1>2, <1>3, ProgramTypes, <1>1 DEF StatementsKept, Inside, DirectKind
<1>5. AddressesKept
    BY <1>1, <1>2, ProgramTypes DEF AddressesKept
<1> QED
    BY <1>2, <1>4, <1>5 DEF ProgramKept

(* mergeSrcToTgt moves each edge to the representatives, or finds it       *)
(* inside.                                                                 *)
LEMMA MergeProgram ==
    ASSUME TypeOK, RepsInGraph, ProgramKept, NEW r \in [Node -> Node],
           NEW Q \in [Node -> SUBSET Obj], MergeNodes(r, Q), prog' = prog,
           \A n \in Node : pts[n] \ FieldObj \subseteq Q[n]
    PROVE  ProgramKept'
<1>1. /\ repOf \in [Node -> Node] /\ edges \subseteq Edge /\ pwc \subseteq Node
      /\ repOf' = [n \in Node |-> r[repOf[n]]]
      /\ edges' = MoveEdges(edges, r)
      /\ pwc' = {r[n] : n \in pwc} \cup GepInside(edges, r)
      /\ nodes' = {r[n] : n \in nodes}
    BY DEF TypeOK, TypeOKBase, MergeNodes, MergedRep
<1>2. ASSUME NEW e \in prog.edges PROVE ReTarget(e, repOf') \in edges' \/ Inside(e)'
    <2> DEFINE g == ReTarget(e, repOf)
    <2>1. /\ e \in Edge /\ e.src \in Node /\ e.dst \in Node
          /\ repOf'[e.src] = r[repOf[e.src]]
          /\ repOf'[e.dst] = r[repOf[e.dst]]
        BY <1>1, ProgramTypes
    <2>2. /\ g.kind = e.kind /\ g.off = e.off
          /\ g.src = repOf[e.src] /\ g.dst = repOf[e.dst]
          /\ ReTarget(g, r) = ReTarget(e, repOf')
        BY <2>1 DEF ReTarget, Edge
    <2>3. CASE Inside(e)
        BY <1>1, <2>1, <2>3 DEF Inside
    <2>4. CASE g \in edges /\ Removed(g, r)
        <3>1. e.kind \in DirectKind /\ repOf'[e.src] = repOf'[e.dst]
            BY <2>1, <2>2, <2>4 DEF Removed
        <3>2. Critical(g) => repOf'[e.src] \in pwc'
            BY <1>1, <2>1, <2>2, <2>4 DEF GepInside
        <3> QED
            BY <2>2, <3>1, <3>2 DEF Critical, Inside, DirectKind
    <2>5. CASE g \in edges /\ ~ Removed(g, r)
        <3>1. ReTarget(g, r) \in edges'
            BY <1>1, <2>5 DEF MoveEdges
        <3> QED
            BY <2>2, <3>1
    <2> QED
        BY <2>3, <2>4, <2>5 DEF ProgramKept, StatementsKept
<1>3. ASSUME NEW a \in prog.addr PROVE a[1] \in pts'[repOf'[a[2]]]
    <2>1. /\ a[2] \in Node /\ a[1] \notin FieldObj /\ repOf[a[2]] \in Node
          /\ repOf'[a[2]] = r[repOf[a[2]]]
        BY <1>1, ProgramTypes
    <2>2. a[1] \in Q[repOf[a[2]]]
        BY <2>1 DEF ProgramKept, AddressesKept
    <2>3. Q[repOf[a[2]]] \subseteq pts'[r[repOf[a[2]]]]
        BY <2>1 DEF MergeNodes
    <2> QED
        BY <2>1, <2>2, <2>3
<1>4. pwc' \subseteq nodes'
    BY <1>1 DEF ProgramKept, GepInside, RepsInGraph
<1> QED
    BY <1>2, <1>3, <1>4 DEF ProgramKept, StatementsKept, AddressesKept

(* Steps that keep the representatives and add to the rest.                *)
LEMMA ProgramGrows ==
    ASSUME TypeOK, ProgramKept, UNCHANGED <<prog, pwc>>,
           \A v \in Val : repOf'[v] = repOf[v],
           nodes \subseteq nodes', edges \subseteq edges',
           \A n \in Node : pts[n] \subseteq pts'[n]
    PROVE  ProgramKept'
<1>1. ASSUME NEW e \in prog.edges PROVE ReTarget(e, repOf') \in edges' \/ Inside(e)'
    <2>1. e \in Edge /\ repOf'[e.src] = repOf[e.src] /\ repOf'[e.dst] = repOf[e.dst]
        BY ProgramTypes
    <2>2. ReTarget(e, repOf') = ReTarget(e, repOf)
        BY <2>1 DEF ReTarget
    <2> QED
        BY <2>1, <2>2 DEF ProgramKept, StatementsKept, Inside
<1>2. ASSUME NEW a \in prog.addr PROVE a[1] \in pts'[repOf'[a[2]]]
    <2>1. a[2] \in Val /\ repOf[a[2]] \in Node
        BY ProgramTypes DEF TypeOK, TypeOKBase
    <2> QED
        BY <2>1 DEF ProgramKept, AddressesKept
<1> QED
    BY <1>1, <1>2 DEF ProgramKept, StatementsKept, AddressesKept

(* Every step keeps each statement an edge between the representatives.    *)
LEMMA ProgramNext ==
    ASSUME TypeOK, RepsInGraph, ProgramKept, [Next]_vars
    PROVE  ProgramKept'
<1>0. pts \in [Node -> SUBSET Obj]
    BY DEF TypeOK, TypeOKBase
<1>1. CASE SCCDetect
    <2>1. PICK r \in SCCReps(edges) : MergeNodes(r, pts)
        BY <1>1 DEF SCCDetect
    <2>2. r \in [Node -> Node]
        BY SCCRepsType DEF TypeOK, TypeOKBase
    <2> QED
        BY <1>0, <1>1, <2>1, <2>2, MergeProgram DEF SCCDetect
<1>2. ASSUME UNCHANGED <<prog, nodes, edges, repOf, pwc, pts>> PROVE ProgramKept'
    BY <1>2 DEF ProgramKept, StatementsKept, AddressesKept, Inside
<1>3. ASSUME NEW o, CollapseStep(o) PROVE ProgramKept'
    <2>1. o \in Obj /\ CollapseField(o) /\ prog' = prog
        BY <1>3 DEF CollapseStep
    <2>2. CASE o[1] \in BlkOrConst
        BY <1>2, <2>1, <2>2 DEF CollapseField, graphVars
    <2>3. CASE o[1] \notin BlkOrConst
        <3>1. /\ MergeNodes(CollapsedRep(o), CollapsedPts(o))
              /\ CollapsedRep(o) \in [Node -> Node]
              /\ CollapsedPts(o) \in [Node -> SUBSET Obj]
              /\ FieldNodes(o) \subseteq FieldObj
            BY <2>1, <2>3, CollapseParts DEF CollapseField
        <3>2. \A n \in Node : pts[n] \ FieldObj \subseteq CollapsedPts(o)[n]
            BY <3>1 DEF CollapsedPts
        <3> QED
            BY <2>1, <3>1, <3>2, MergeProgram
    <2> QED
        BY <2>2, <2>3
<1>4. ASSUME NEW o \in pending, CollapseNodePts(o) PROVE ProgramKept'
    <2>1. CASE o[1] \in fi
        BY <1>2, <1>4, <2>1 DEF CollapseNodePts, baseVars, graphVars
    <2> QED
        BY <1>3, <1>4, <2>1, CollapseSteps
<1>5. ASSUME NEW o \in toCollapse, CollapseFields(o) PROVE ProgramKept'
    BY <1>3, <1>5, CollapseSteps
<1>6. CASE ProcessNode
    <2>1. PICK n \in cur : HandleCopyGep(n) \/ UNCHANGED baseVars
        BY <1>6 DEF ProcessNode
    <2>2. CASE HandleCopyGep(n)
        <3>1. UNCHANGED <<prog, edges, repOf, pwc>> /\ nodes \subseteq nodes'
            BY <2>2 DEF HandleCopyGep
        <3>2. \A m \in Node : pts[m] \subseteq pts'[m]
            BY <2>2 DEF HandleCopyGep
        <3> QED
            BY <3>1, <3>2, ProgramGrows
    <2>3. CASE UNCHANGED baseVars
        BY <1>2, <2>3 DEF baseVars, graphVars
    <2> QED
        BY <2>1, <2>2, <2>3
<1>7. ASSUME NEW c \in copies, HandleLoadStore(c) \/ ConnectParam(c) PROVE ProgramKept'
    <2>1. UNCHANGED <<prog, nodes, repOf, pwc, pts>> /\ edges \subseteq edges'
        BY <1>7 DEF HandleLoadStore, ConnectParam, AddCopyEdge
    <2> QED
        BY <2>1, ProgramGrows
<1>8. CASE UpdateCallGraph
    <2>1. UNCHANGED <<prog, edges, repOf, pwc>> /\ nodes \subseteq nodes'
        BY <1>8 DEF UpdateCallGraph
    <2>2. \A m \in Node : pts[m] \subseteq pts'[m]
        BY <1>8 DEF UpdateCallGraph
    <2> QED
        BY <2>1, <2>2, ProgramGrows
<1>9. CASE Normalize
    <2>1. \A v \in Val : repOf'[v] = repOf[v]
        BY <1>9, ProgramTypes DEF Normalize, TypeOK, TypeOKBase
    <2> QED
        BY <1>9, <2>1, ProgramGrows DEF Normalize
<1>10. CASE \/ \E n \in wave : PopNode(n)
            \/ \E n \in worklist : PostProcessNode(n)
            \/ NextIteration
            \/ UNCHANGED vars
    <2>1. UNCHANGED <<prog, nodes, edges, repOf, pwc, pts>>
        BY <1>10 DEF PopNode, PostProcessNode, NextIteration, vars, baseVars, graphVars
    <2> QED
        BY <1>2, <2>1
<1> QED
    BY <1>1, <1>4, <1>5, <1>6, <1>7, <1>8, <1>9, <1>10 DEF Next

-----------------------------------------------------------------------------
(* No direct edge of the graph leads from a node to itself, if no gep of   *)
(* the program does.                                                       *)
GepsAcross(p) == \A e \in p.edges : e.kind \in {"ngep", "vgep"} => e.src # e.dst

NoLoops == \A e \in edges : e.kind \in DirectKind => e.src # e.dst

LEMMA NoLoopsInit == Init /\ GepsAcross(prog) => NoLoops
BY DEF Init, InitBase, GepsAcross, NoLoops, DirectKind

(* A merge drops the direct edges it turns into loops.                     *)
LEMMA MergeNoLoops ==
    ASSUME TypeOK, NoLoops, NEW r \in [Node -> Node], NEW Q, MergeNodes(r, Q)
    PROVE  NoLoops'
<1> SUFFICES ASSUME NEW e \in edges', e.kind \in DirectKind PROVE e.src # e.dst
    BY DEF NoLoops
<1>1. PICK g \in edges : ~ Removed(g, r) /\ e = ReTarget(g, r)
    BY DEF MergeNodes, MoveEdges
<1>2. g \in Edge /\ g.kind = e.kind /\ e.src = r[g.src] /\ e.dst = r[g.dst]
    BY <1>1 DEF ReTarget, Edge, TypeOK, TypeOKBase
<1> QED
    BY <1>1, <1>2 DEF Removed, NoLoops

(* Every step keeps the graph without direct loops.                        *)
LEMMA NoLoopsNext ==
    ASSUME TypeOK, NoLoops, [Next]_vars
    PROVE  NoLoops'
<1>1. CASE SCCDetect
    <2>1. PICK r \in SCCReps(edges) : MergeNodes(r, pts)
        BY <1>1 DEF SCCDetect
    <2>2. r \in [Node -> Node]
        BY SCCRepsType DEF TypeOK, TypeOKBase
    <2> QED
        BY <2>1, <2>2, MergeNoLoops
<1>2. ASSUME UNCHANGED edges PROVE NoLoops'
    BY <1>2 DEF NoLoops
<1>3. ASSUME NEW o, CollapseStep(o) PROVE NoLoops'
    <2>1. o \in Obj /\ CollapseField(o)
        BY <1>3 DEF CollapseStep
    <2>2. CASE o[1] \in BlkOrConst
        BY <1>2, <2>1, <2>2 DEF CollapseField, graphVars
    <2>3. CASE o[1] \notin BlkOrConst
        BY <2>1, <2>3, CollapseParts, MergeNoLoops DEF CollapseField
    <2> QED
        BY <2>2, <2>3
<1>4. ASSUME NEW o \in pending, CollapseNodePts(o) PROVE NoLoops'
    <2>1. CASE o[1] \in fi
        BY <1>2, <1>4, <2>1 DEF CollapseNodePts, baseVars, graphVars
    <2> QED
        BY <1>3, <1>4, <2>1, CollapseSteps
<1>5. ASSUME NEW o \in toCollapse, CollapseFields(o) PROVE NoLoops'
    BY <1>3, <1>5, CollapseSteps
<1>6. ASSUME NEW c \in copies, HandleLoadStore(c) \/ ConnectParam(c) PROVE NoLoops'
    <2>1. AddCopyEdge(c[1], c[2])
        BY <1>6 DEF HandleLoadStore, ConnectParam
    <2>2. CASE NewCopy(c[1], c[2])
        BY <2>1, <2>2 DEF AddCopyEdge, NewCopy, CopyEdge, NoLoops
    <2>3. CASE ~ NewCopy(c[1], c[2])
        BY <1>2, <2>1, <2>3 DEF AddCopyEdge
    <2> QED
        BY <2>2, <2>3
<1>7. CASE ProcessNode
    BY <1>2, <1>7 DEF ProcessNode, HandleCopyGep, baseVars, graphVars
<1>8. CASE \/ \E n \in wave : PopNode(n)
           \/ \E n \in worklist : PostProcessNode(n)
           \/ UpdateCallGraph
           \/ NextIteration
           \/ Normalize
           \/ UNCHANGED vars
    <2>1. UNCHANGED edges
        BY <1>8 DEF PopNode, PostProcessNode, UpdateCallGraph, NextIteration, Normalize,
                    vars, baseVars, graphVars
    <2> QED
        BY <1>2, <2>1
<1> QED
    BY <1>1, <1>4, <1>5, <1>6, <1>7, <1>8 DEF Next

-----------------------------------------------------------------------------
(* A field node that no points-to set holds, of an object that has not     *)
(* been collapsed, takes no part in the analysis.                          *)

(* The field-insensitive objects collapseField has worked off.             *)
Collapsed == {b \in fi : \A o \in toCollapse : o[1] # b}

Isolated(f) ==
    /\ \A n \in Node : repOf[n] = f <=> n = f
    /\ pts[f] = {}
    /\ f \notin pwc
    /\ \A e \in edges : e.src # f /\ e.dst # f
    /\ \A c \in copies : c[1] # f /\ c[2] # f

Pointed(f) == \E n \in Node : f \in pts[n]

FieldsIsolated ==
    pc # "final" =>
        \A f \in FieldObj : ~ Pointed(f) /\ f[1] \notin Collapsed => Isolated(f)

(* collapseField replaces every pointer to a field of the object, and the  *)
(* object is collapsed.                                                    *)
LEMMA CollapsedGrows ==
    ASSUME TypeOK, Phases, CollapseInvariant, NEW o, CollapseStep(o)
    PROVE  /\ o[1] \notin Collapsed
           /\ o[1] \in BlkOrConst => Collapsed' = Collapsed /\ toCollapse' = toCollapse
           /\ o[1] \notin BlkOrConst => Collapsed' = Collapsed \cup {o[1]}
<1>1. o \in Obj /\ CollapseField(o)
    BY DEF CollapseStep
<1>2. CASE o[1] \notin fi /\ toCollapse' = toCollapse
    <2>1. \A t \in toCollapse : t[1] # o[1]
        BY <1>2 DEF Phases
    <2>2. /\ o[1] \in BlkOrConst => fi' = fi
          /\ o[1] \notin BlkOrConst => fi' = fi \cup {o[1]}
        BY <1>1 DEF CollapseField
    <2> QED
        BY <1>2, <2>1, <2>2 DEF Collapsed
<1>3. CASE o \in toCollapse /\ toCollapse' = toCollapse \ {o}
    <2>1. o[1] \notin BlkOrConst /\ o[1] \in fi /\ o = FIObjVar(o)
        BY <1>3 DEF CollapseInvariant, Phases
    <2>2. fi' = fi
        BY <1>1, <2>1 DEF CollapseField
    <2>3. \A t \in toCollapse : t[1] = o[1] => t = o
        BY <1>1, <1>3, <2>1, SameBase DEF Phases, TypeOK, TypeOKBase
    <2> QED
        BY <1>3, <2>1, <2>2, <2>3 DEF Collapsed
<1> QED
    BY <1>2, <1>3 DEF CollapseStep

(* A merge of other nodes leaves an isolated field node isolated.          *)
LEMMA MergeIsolated ==
    ASSUME TypeOK, NEW f \in Node, Isolated(f),
           NEW r \in [Node -> Node], NEW Q \in [Node -> SUBSET Obj], MergeNodes(r, Q),
           \A n \in Node : r[n] = f <=> n = f,
           Q[f] = {}, copies' = copies
    PROVE  Isolated(f)'
<1>1. /\ repOf \in [Node -> Node] /\ edges \subseteq Edge /\ pwc \subseteq Node
      /\ repOf' = [n \in Node |-> r[repOf[n]]]
      /\ edges' = MoveEdges(edges, r)
      /\ pwc' = {r[n] : n \in pwc} \cup GepInside(edges, r)
      /\ pts' = [n \in Node |-> Q[n] \cup UNION {Q[m] : m \in {x \in Node : r[x] = n}}]
    BY DEF TypeOK, TypeOKBase, MergeNodes, MergedRep
<1>2. \A n \in Node : repOf'[n] = f <=> n = f
    BY <1>1 DEF Isolated
<1>3. pts'[f] = {}
    <2>1. \A m \in Node : r[m] = f => Q[m] = {}
        OBVIOUS
    <2> QED
        BY <1>1, <2>1
<1>4. \A e \in edges : e.src \in Node /\ e.dst \in Node /\ e.src # f /\ e.dst # f
    BY <1>1 DEF Isolated, Edge
<1>5. f \notin pwc'
    BY <1>1, <1>4 DEF Isolated, GepInside
<1>6. ASSUME NEW e \in edges' PROVE e.src # f /\ e.dst # f
    <2>1. PICK g \in edges : e = ReTarget(g, r)
        BY <1>1 DEF MoveEdges
    <2>2. e.src = r[g.src] /\ e.dst = r[g.dst]
        BY <1>1, <2>1 DEF ReTarget, Edge
    <2> QED
        BY <1>4, <2>2
<1> QED
    BY <1>2, <1>3, <1>5, <1>6 DEF Isolated

LEMMA IsolatedInit == Init => FieldsIsolated
<1> SUFFICES ASSUME Init, NEW f \in FieldObj PROVE Isolated(f)
    BY DEF FieldsIsolated
<1>1. TypeOK /\ f \in Node /\ f \notin Val
    BY InitType, ProgramTypes, FieldObjType
<1>2. /\ repOf = [n \in Node |-> n] /\ pwc = {} /\ copies = {}
      /\ edges \subseteq prog.edges
      /\ pts = [n \in Node |-> {a[1] : a \in {x \in prog.addr : x[2] = n}}]
    BY DEF Init, InitBase
<1>3. pts[f] = {}
    BY <1>1, <1>2, ProgramTypes
<1> QED
    BY <1>1, <1>2, <1>3, ProgramTypes DEF Isolated

(* No component contains an isolated field node.                           *)
LEMMA SCCDetectIsolated ==
    ASSUME TypeOK, FieldsIsolated, SCCDetect
    PROVE  FieldsIsolated'
<1> SUFFICES ASSUME NEW f \in FieldObj, ~ Pointed(f)', f[1] \notin Collapsed'
             PROVE  Isolated(f)'
    BY DEF FieldsIsolated
<1>1. PICK r \in SCCReps(edges) : MergeNodes(r, pts)
    BY DEF SCCDetect
<1>2. edges \subseteq Edge /\ pts \in [Node -> SUBSET Obj] /\ f \in Node
    BY FieldObjType DEF TypeOK, TypeOKBase, Node
<1>3. /\ r \in [Node -> Node]
      /\ \A n \in Node : r[n] = n \/ \E e \in edges : r[n] \in {e.src, e.dst}
      /\ \A n \in Node : r[n] = n \/ \E e \in edges : n \in {e.src, e.dst}
    BY <1>2, SCCRepsType
<1>4. pc # "final" /\ UNCHANGED <<fi, toCollapse, copies>>
    BY DEF SCCDetect, memVars
<1>5. \A n \in Node : pts[n] \subseteq pts'[n]
    BY <1>1 DEF MergeNodes
<1>6. Isolated(f)
    BY <1>4, <1>5 DEF FieldsIsolated, Pointed, Collapsed
<1>7. \A n \in Node : r[n] = f <=> n = f
    BY <1>2, <1>3, <1>6 DEF Isolated
<1>8. pts[f] = {}
    BY <1>6 DEF Isolated
<1> QED
    BY <1>1, <1>2, <1>3, <1>4, <1>6, <1>7, <1>8, MergeIsolated

(* collapseField merges only the fields of the object it collapses.        *)
LEMMA CollapseIsolated ==
    ASSUME TypeOK, Phases, CollapseInvariant, FieldsIsolated, NEW o, CollapseStep(o)
    PROVE  FieldsIsolated'
<1> SUFFICES ASSUME NEW f \in FieldObj, ~ Pointed(f)', f[1] \notin Collapsed'
             PROVE  Isolated(f)'
    BY DEF FieldsIsolated
<1>1. o \in Obj /\ CollapseField(o) /\ copies' = copies /\ pc # "final"
    BY DEF CollapseStep
<1>2. f \in Node /\ f \in Obj
    BY FieldObjType DEF Node
<1>3. CASE o[1] \in BlkOrConst
    <2>1. UNCHANGED <<edges, repOf, pwc, pts, copies>> /\ Collapsed' = Collapsed
        BY <1>1, <1>3, CollapsedGrows DEF CollapseField, graphVars
    <2> QED
        BY <1>1, <2>1 DEF FieldsIsolated, Isolated, Pointed
<1>4. CASE o[1] \notin BlkOrConst
    <2> DEFINE r == CollapsedRep(o)
               Q == CollapsedPts(o)
    <2>1. /\ MergeNodes(r, Q)
          /\ r \in [Node -> Node]
          /\ Q \in [Node -> SUBSET Obj]
        BY <1>1, <1>4, CollapseParts DEF CollapseField
    <2>2. f[1] # o[1] /\ f[1] \notin Collapsed
        BY <1>4, CollapsedGrows
    <2>3. f \notin FieldNodes(o) /\ f # FIObjVar(o)
        BY <1>1, <2>2, FIObjVarWhole DEF FieldNodes
    <2>4. \A n \in Node : Q[n] \subseteq pts'[n]
        BY <2>1 DEF MergeNodes
    <2>5. \A n \in Node : f \in pts[n] => f \in Q[n]
        BY <2>3 DEF CollapsedPts
    <2>6. Isolated(f)
        BY <1>1, <2>2, <2>4, <2>5 DEF FieldsIsolated, Pointed
    <2>7. \A n \in Node : r[n] = f <=> n = f
        <3>1. \A h \in FieldNodes(o) : h \in Node
            BY CollapseParts, <1>1, FieldObjType DEF Node
        <3>2. FIObjVar(o) \in Node
            BY <1>1, FIObjVarType DEF Node
        <3>3. \A h \in FieldNodes(o) : repOf[h] # f
            BY <2>3, <2>6, <3>1 DEF Isolated
        <3>4. repOf[FIObjVar(o)] # f
            BY <2>3, <2>6, <3>2 DEF Isolated
        <3> QED
            BY <1>2, <3>3, <3>4 DEF CollapsedRep
    <2>8. Q[f] = {}
        BY <1>2, <2>6 DEF Isolated, CollapsedPts, Hit
    <2> HIDE DEF r, Q
    <2> QED
        BY <1>1, <1>2, <2>1, <2>6, <2>7, <2>8, MergeIsolated
<1> QED
    BY <1>3, <1>4

(* Variant geps only put objects down: none is collapsed on the way.       *)
LEMMA HandleCopyGepCollapsed ==
    ASSUME TypeOK, toCollapse = {}, NEW n \in Node, HandleCopyGep(n)
    PROVE  Collapsed = fi /\ Collapsed' = fi
<1> DEFINE out == {e \in edges : e.kind \in DirectKind /\ e.src = n}
           variant == IF \E e \in out : e.kind = "vgep"
                      THEN {o \in Diff(n) : o[1] \notin BlkOrConst \cup fi} ELSE {}
<1>1. /\ fi' = fi \cup {o[1] : o \in variant}
      /\ toCollapse' = {FIObjVar(o) : o \in variant}
    BY DEF HandleCopyGep
<1>2. variant \subseteq Obj /\ \A o \in variant : o[1] \notin fi
    BY DEF Diff, TypeOK, TypeOKBase
<1> HIDE DEF variant
<1>3. \A o \in variant : FIObjVar(o)[1] = o[1]
    BY <1>2, FIObjVarWhole
<1> QED
    BY <1>1, <1>2, <1>3 DEF Collapsed

(* A field node that processGepPts makes up is isolated until it is used.  *)
LEMMA ProcessNodeIsolated ==
    ASSUME TypeOK, RepsStable, Phases, FieldsIsolated, ProcessNode
    PROVE  FieldsIsolated'
<1>1. PICK n \in cur : IF repOf[n] = n THEN HandleCopyGep(n) ELSE UNCHANGED baseVars
    BY DEF ProcessNode
<1>2. /\ n \in Node /\ pc = "pwc" /\ copies' = copies /\ toCollapse = {}
      /\ edges \subseteq Edge
    BY DEF ProcessNode, TypeOK, TypeOKBase, Phases
<1>3. CASE repOf[n] # n
    BY <1>1, <1>2, <1>3 DEF baseVars, graphVars, memVars, FieldsIsolated, Isolated, Pointed,
                            Collapsed
<1>4. CASE repOf[n] = n
    <2> SUFFICES ASSUME NEW f \in FieldObj, ~ Pointed(f)', f[1] \notin Collapsed'
                 PROVE  Isolated(f)'
        BY DEF FieldsIsolated
    <2>0. HandleCopyGep(n) /\ f \in Node
        BY <1>1, <1>4, FieldObjType DEF Node
    <2>1. Collapsed' = Collapsed
        BY <1>2, <2>0, HandleCopyGepCollapsed
    <2>2. UNCHANGED <<edges, repOf, pwc>>
        BY <2>0 DEF HandleCopyGep
    <2>3. \A m \in Node : pts[m] \subseteq pts'[m]
        BY <2>0 DEF HandleCopyGep
    <2>4. Isolated(f)
        BY <1>2, <2>1, <2>3 DEF FieldsIsolated, Pointed
    <2>5. \A e \in edges : repOf[e.dst] # f
        BY <1>2, <2>4 DEF Isolated, Edge
    <2>6. pts'[f] = pts[f]
        BY <2>0, <2>5 DEF HandleCopyGep
    <2> QED
        BY <1>2, <2>2, <2>4, <2>6 DEF Isolated
<1> QED
    BY <1>3, <1>4

(* Copies to come and new heap nodes leave the isolated nodes alone.       *)
LEMMA CopiesIsolated ==
    ASSUME TypeOK, FieldsIsolated, pc # "final",
           UNCHANGED <<edges, repOf, pwc, fi, toCollapse>>,
           \A n \in Node : pts[n] \subseteq pts'[n],
           \A n \in Obj : pts'[n] = pts[n],
           \A c \in copies' : \A f \in FieldObj : f \in {c[1], c[2]} =>
               Pointed(f) \/ \E e \in edges : f \in {e.src, e.dst}
    PROVE  FieldsIsolated'
<1> SUFFICES ASSUME NEW f \in FieldObj, ~ Pointed(f)', f[1] \notin Collapsed'
             PROVE  Isolated(f)'
    BY DEF FieldsIsolated
<1>1. ~ Pointed(f) /\ Isolated(f)
    BY DEF FieldsIsolated, Pointed, Collapsed
<1>2. pts'[f] = pts[f]
    BY FieldObjType
<1>3. \A c \in copies' : c[1] # f /\ c[2] # f
    BY <1>1 DEF Isolated
<1> QED
    BY <1>1, <1>2, <1>3 DEF Isolated

LEMMA AddCopyIsolated ==
    ASSUME TypeOK, FieldsIsolated, pc # "final", NEW c \in copies, AddCopyEdge(c[1], c[2]),
           copies' = copies \ {c}, UNCHANGED <<repOf, pwc, pts, fi, toCollapse>>
    PROVE  FieldsIsolated'
<1> SUFFICES ASSUME NEW f \in FieldObj, ~ Pointed(f)', f[1] \notin Collapsed'
             PROVE  Isolated(f)'
    BY DEF FieldsIsolated
<1>1. Isolated(f)
    BY DEF FieldsIsolated, Pointed, Collapsed
<1>2. c[1] \in Node /\ c[2] \in Node
    BY DEF TypeOK
<1>3. repOf[c[1]] # f /\ repOf[c[2]] # f
    BY <1>1, <1>2 DEF Isolated
<1>4. \A e \in edges' : e.src # f /\ e.dst # f
    BY <1>1, <1>3 DEF AddCopyEdge, CopyEdge, Isolated
<1> QED
    BY <1>1, <1>4 DEF Isolated

(* Every step keeps the fields that nothing points to isolated.            *)
LEMMA IsolatedNext ==
    ASSUME TypeOK, RepsStable, Phases, CollapseInvariant, FieldsIsolated, [Next]_vars
    PROVE  FieldsIsolated'
<1>1. CASE SCCDetect
    BY <1>1, SCCDetectIsolated
<1>2. ASSUME UNCHANGED <<edges, repOf, pwc, pts, fi, toCollapse, copies>>, pc # "final" \/ pc' = pc
      PROVE  FieldsIsolated'
    BY <1>2 DEF FieldsIsolated, Isolated, Pointed, Collapsed
<1>3. ASSUME NEW o \in pending, CollapseNodePts(o) PROVE FieldsIsolated'
    <2>1. CASE o[1] \in fi
        BY <1>2, <1>3, <2>1 DEF CollapseNodePts, baseVars, graphVars, memVars
    <2> QED
        BY <1>3, <2>1, CollapseSteps, CollapseIsolated
<1>4. ASSUME NEW o \in toCollapse, CollapseFields(o) PROVE FieldsIsolated'
    BY <1>4, CollapseSteps, CollapseIsolated
<1>5. CASE ProcessNode
    BY <1>5, ProcessNodeIsolated
<1>6. ASSUME NEW n \in worklist, PostProcessNode(n) PROVE FieldsIsolated'
    <2>1. /\ pc # "final" /\ copies' = LoadCopies(repOf[n]) \cup StoreCopies(repOf[n])
          /\ UNCHANGED <<edges, repOf, pwc, pts, fi, toCollapse>>
          /\ repOf[n] \in Node
        BY <1>6 DEF PostProcessNode, Post, Quiet, graphVars, memVars, TypeOK, TypeOKBase
    <2>2. ASSUME NEW c \in copies', NEW f \in {c[1], c[2]}
          PROVE  Pointed(f) \/ \E e \in edges : f \in {e.src, e.dst}
        BY <2>1, <2>2 DEF LoadCopies, StoreCopies, Pointed
    <2> QED
        BY <2>1, <2>2, CopiesIsolated
<1>7. ASSUME NEW c \in copies, HandleLoadStore(c) \/ ConnectParam(c) PROVE FieldsIsolated'
    BY <1>7, AddCopyIsolated DEF HandleLoadStore, ConnectParam, memVars
<1>8. CASE UpdateCallGraph
    <2>1. /\ pc # "final"
          /\ UNCHANGED <<edges, repOf, pwc, fi, toCollapse>>
        BY <1>8 DEF UpdateCallGraph, Post, Quiet, memVars
    <2>2. PICK new \in NewCalls :
            /\ copies' = UNION {ParamCopies(x[1], x[2]) : x \in new}
            /\ pts' = [n \in Node |-> pts[n] \cup
                        {DummyObj(c) : c \in {d \in NewHeapSites(new) : d.dummyVal = n}}]
        BY <1>8 DEF UpdateCallGraph
    <2>3. \A x \in new : x[1] \in prog.calls /\ x[2] \in Fun
        BY DEF NewCalls, Candidates
    <2>4. \A c \in copies' : c[1] \in Val /\ c[2] \in Val
        BY <2>2, <2>3, ParamCopiesType
    <2>5. \A n \in Node : pts[n] \subseteq pts'[n]
        BY <2>2
    <2>6. \A n \in Obj : pts'[n] = pts[n]
        BY <2>2, ProgramTypes, HeapNodesWhole DEF NewHeapSites
    <2> QED
        BY <2>1, <2>4, <2>5, <2>6, ProgramTypes, FieldObjType, CopiesIsolated
<1>9. CASE Normalize
    BY <1>9 DEF Normalize, FieldsIsolated
<1>10. CASE (\E n \in wave : PopNode(n)) \/ NextIteration \/ UNCHANGED vars
    BY <1>2, <1>10 DEF PopNode, Quiet, NextIteration, vars, baseVars, graphVars, memVars
<1> QED
    BY <1>1, <1>3, <1>4, <1>5, <1>6, <1>7, <1>8, <1>9, <1>10 DEF Next

(* A collapse that finds no pointer to a field asks for no other wave, and *)
(* changes nothing but the representatives of isolated field nodes.        *)
LEMMA QuietCollapse ==
    ASSUME TypeOK, Phases, CollapseInvariant, FieldsIsolated, NEW o, CollapseStep(o),
           ~ reanalyze'
    PROVE  /\ UNCHANGED <<edges, pwc, pts>>
           /\ ~ reanalyze
           /\ o[1] \notin BlkOrConst => \A n \in Node : pts[n] \cap FieldNodes(o) = {}
           /\ \A n \in Node \ FieldObj : repOf'[n] = repOf[n]
<1>1. o \in Obj /\ CollapseField(o) /\ pc # "final"
    BY DEF CollapseStep
<1>2. CASE o[1] \in BlkOrConst
    BY <1>1, <1>2 DEF CollapseField, graphVars
<1>3. CASE o[1] \notin BlkOrConst
    <2> DEFINE r == CollapsedRep(o)
               Q == CollapsedPts(o)
    <2>1. /\ MergeNodes(r, Q)
          /\ r \in [Node -> Node]
          /\ FieldNodes(o) \subseteq FieldObj
          /\ ~ reanalyze
          /\ Hit(o) = {}
        BY <1>1, <1>3, CollapseParts DEF CollapseField
    <2>2. /\ pts \in [Node -> SUBSET Obj] /\ repOf \in [Node -> Node]
          /\ edges \subseteq Edge /\ pwc \subseteq Node
        BY DEF TypeOK, TypeOKBase
    <2>3. \A n \in Node : pts[n] \cap FieldNodes(o) = {}
        BY <2>1 DEF Hit
    <2>4. ASSUME NEW f \in FieldNodes(o) PROVE Isolated(f) /\ f \in Node
        <3>1. f \in FieldObj /\ f[1] = o[1] /\ ~ Pointed(f)
            BY <2>1, <2>3 DEF FieldNodes, Pointed
        <3>2. f[1] \notin Collapsed
            BY <3>1, CollapsedGrows
        <3> QED
            BY <1>1, <3>1, <3>2, FieldObjType DEF FieldsIsolated, Node
    <2>5. \A n \in Node : r[n] # n => n \in FieldNodes(o)
        BY <2>4 DEF CollapsedRep, Isolated
    <2>6. Q = pts
        BY <2>1, <2>2 DEF CollapsedPts
    <2>7. /\ repOf' = [n \in Node |-> r[repOf[n]]]
          /\ edges' = MoveEdges(edges, r)
          /\ pwc' = {r[n] : n \in pwc} \cup GepInside(edges, r)
          /\ pts' = [n \in Node |-> Q[n] \cup UNION {Q[m] : m \in {x \in Node : r[x] = n}}]
        BY <2>1 DEF MergeNodes, MergedRep
    <2> HIDE DEF r, Q
    <2>8. \A e \in edges : r[e.src] = e.src /\ r[e.dst] = e.dst
        BY <2>2, <2>4, <2>5 DEF Isolated, Edge
    <2>9. \A e \in edges : ~ Removed(e, r) /\ ReTarget(e, r) = e
        <3>1. \A e \in edges : ~ Removed(e, r)
            BY <2>8 DEF Removed
        <3>2. ASSUME NEW e \in edges PROVE ReTarget(e, r) = e
            BY <2>2, <2>8 DEF ReTarget, Edge
        <3> QED
            BY <3>1, <3>2
    <2>10. edges' = edges
        BY <2>7, <2>9 DEF MoveEdges
    <2>11. pwc' = pwc
        <3>1. GepInside(edges, r) = {}
            BY <2>9 DEF GepInside
        <3>2. \A n \in pwc : r[n] = n
            BY <2>2, <2>4, <2>5 DEF Isolated
        <3> QED
            BY <2>7, <3>1, <3>2
    <2>12. pts' = pts
        <3>1. \A m \in Node : r[m] # m => pts[m] = {}
            BY <2>4, <2>5 DEF Isolated
        <3>2. ASSUME NEW n \in Node PROVE pts'[n] = pts[n]
            BY <2>6, <2>7, <3>1
        <3>3. pts' = [n \in Node |-> pts'[n]]
            BY <2>7
        <3> QED
            BY <2>2, <3>2, <3>3
    <2>13. ASSUME NEW n \in Node, n \notin FieldObj PROVE repOf'[n] = repOf[n]
        <3>1. repOf'[n] = r[repOf[n]] /\ repOf[n] \in Node
            BY <2>2, <2>7
        <3>2. repOf[n] \notin FieldNodes(o)
            BY <2>1, <2>4, <2>13 DEF Isolated
        <3> QED
            BY <2>5, <3>1, <3>2
    <2> QED
        BY <2>1, <2>3, <2>10, <2>11, <2>12, <2>13
<1> QED
    BY <1>2, <1>3

-----------------------------------------------------------------------------
(* What flows of one object along a direct edge, the objects in F being    *)
(* field-insensitive.                                                      *)
GepOf(F, e, o) ==
    IF e.kind = "vgep" THEN IF o[1] \in BlkOrConst THEN o ELSE FIObjVar(o)
    ELSE IF o[1] \in BlkOrConst \cup F THEN o ELSE GetGepObjVar(F, o, e.off)

FlowOf(F, e, o) == IF e.kind = "copy" THEN o ELSE GepOf(F, e, o)

(* Flow, taken object by object.                                           *)
LEMMA FlowElements ==
    ASSUME NEW e, NEW S
    PROVE  Flow(e, S) = {FlowOf(fi, e, o) : o \in S}
BY DEF Flow, GepPts, FlowOf, GepOf

LEMMA WholeOrField ==
    ASSUME NEW o \in Obj
    PROVE  o \in FieldObj \/ o = FIObjVar(o)
BY ObjParts, ObjKinds DEF FIObjVar

LEMMA FlowOfType ==
    ASSUME NEW F \in SUBSET Base, NEW e \in Edge, NEW o \in Obj
    PROVE  FlowOf(F, e, o) \in Obj /\ FlowOf(F, e, o)[1] = o[1]
<1>1. e.off \in Offset
    BY DEF Edge
<1> QED
    BY <1>1, GepObjVarType, GepObjVarBase, FIObjVarType, FIObjVarWhole DEF FlowOf, GepOf

(* One more object is collapsed, and none of its fields flows any more.    *)
LEMMA CollapseFlow ==
    ASSUME TypeOK, NEW o \in Obj, o[1] \notin BlkOrConst, NEW F \in SUBSET Base,
           NEW e \in Edge, NEW x \in Obj, x[1] = o[1] => x \notin FieldObj,
           NEW P \in SUBSET Obj, P \cap FieldObj \subseteq fields, FlowOf(F, e, x) \in P
    PROVE  \/ FlowOf(F \cup {o[1]}, e, x) \in P \ FieldNodes(o)
           \/ /\ FlowOf(F \cup {o[1]}, e, x) = FIObjVar(o)
              /\ P \cap FieldNodes(o) # {}
<1> DEFINE g == FlowOf(F, e, x)
<1>1. g \in Obj /\ g[1] = x[1]
    BY FlowOfType
<1>2. CASE x[1] # o[1]
    <2>1. FlowOf(F \cup {o[1]}, e, x) = g
        BY <1>2 DEF FlowOf, GepOf, GetGepObjVar
    <2>2. g \notin FieldNodes(o)
        BY <1>1, <1>2 DEF FieldNodes
    <2> QED
        BY <2>1, <2>2
<1>3. CASE x[1] = o[1]
    <2>1. x = FIObjVar(o) /\ x \notin FieldObj /\ x[1] = o[1]
        BY <1>3, WholeOrField, SameBase
    <2>2. FlowOf(F \cup {o[1]}, e, x) = x
        BY <2>1, FIObjVarWhole DEF FlowOf, GepOf
    <2>3. CASE g = x
        <3>1. x \notin FieldNodes(o)
            BY <2>1 DEF FieldNodes, TypeOK, TypeOKBase
        <3> QED
            BY <2>2, <2>3, <3>1
    <2>4. CASE g # x
        <3>1. g \in FieldObj
            BY <1>1, <1>3, <2>1, <2>4, WholeOrField, SameBase
        <3>2. g \in FieldNodes(o)
            BY <1>1, <1>3, <3>1 DEF FieldNodes
        <3> QED
            BY <2>1, <2>2, <3>2
    <2> QED
        BY <2>3, <2>4
<1> QED
    BY <1>2, <1>3

(* What difference propagation skips has arrived, along geps too.          *)
FlowsArrived ==
    \A e \in edges : e.kind \in DirectKind =>
        \A o \in propa[e.src] \ Dead : FlowOf(Collapsed, e, o) \in pts[e.dst]

(* What a merge does to the edges and the propagated sets.                 *)
LEMMA MergeEdges ==
    ASSUME TypeOK, NEW r \in [Node -> Node], NEW Q \in [Node -> SUBSET Obj], MergeNodes(r, Q)
    PROVE  /\ \A n \in Node : propa'[r[n]] \subseteq propa[n] /\ Q[n] \subseteq pts'[r[n]]
           /\ \A e \in edges' : \E d \in edges :
                /\ e.kind = d.kind /\ e.off = d.off /\ e.src = r[d.src] /\ e.dst = r[d.dst]
                /\ d \in Edge /\ d.src \in Node /\ d.dst \in Node
<1>1. /\ edges \subseteq Edge /\ edges' = MoveEdges(edges, r)
      /\ pts' = [n \in Node |-> Q[n] \cup UNION {Q[m] : m \in {x \in Node : r[x] = n}}]
      /\ propa' = MergedPropa(r)
    BY DEF TypeOK, TypeOKBase, MergeNodes
<1>2. \A n \in Node : propa'[r[n]] \subseteq propa[n]
    BY <1>1 DEF MergedPropa
<1>3. \A n \in Node : Q[n] \subseteq pts'[r[n]]
    BY <1>1
<1>4. ASSUME NEW e \in edges'
      PROVE  \E d \in edges :
                /\ e.kind = d.kind /\ e.off = d.off /\ e.src = r[d.src] /\ e.dst = r[d.dst]
                /\ d \in Edge /\ d.src \in Node /\ d.dst \in Node
    <2>1. PICK d \in edges : e = ReTarget(d, r)
        BY <1>1 DEF MoveEdges
    <2>2. d \in Edge
        BY <1>1
    <2>3. e.kind = d.kind /\ e.off = d.off /\ e.src = r[d.src] /\ e.dst = r[d.dst]
        BY <2>1, <2>2 DEF ReTarget, Edge
    <2> QED
        BY <2>2, <2>3 DEF Edge
<1> QED
    BY <1>2, <1>3, <1>4

(* Only the kind and the offset of an edge decide what flows along it.     *)
LEMMA SameFlow ==
    ASSUME NEW F, NEW e, NEW d, e.kind = d.kind, e.off = d.off, NEW o
    PROVE  FlowOf(F, e, o) = FlowOf(F, d, o)
BY DEF FlowOf, GepOf

(* A merge keeps what had flowed along the edges that stay.                *)
LEMMA SCCDetectFlows ==
    ASSUME TypeOK, FlowsArrived, SCCDetect
    PROVE  FlowsArrived'
<1>1. PICK r \in SCCReps(edges) : MergeNodes(r, pts)
    BY DEF SCCDetect
<1>2. r \in [Node -> Node] /\ pts \in [Node -> SUBSET Obj]
    BY SCCRepsType DEF TypeOK, TypeOKBase
<1>3. Collapsed' = Collapsed /\ Dead' = Dead
    BY DEF SCCDetect, memVars, Collapsed, Dead
<1> SUFFICES ASSUME NEW e \in edges', e.kind \in DirectKind, NEW o \in propa'[e.src], o \notin Dead
             PROVE  FlowOf(Collapsed, e, o) \in pts'[e.dst]
    BY <1>3 DEF FlowsArrived
<1>4. PICK d \in edges :
          /\ e.kind = d.kind /\ e.off = d.off /\ e.src = r[d.src] /\ e.dst = r[d.dst]
          /\ d.src \in Node /\ d.dst \in Node
    BY <1>1, <1>2, MergeEdges
<1>5. propa'[r[d.src]] \subseteq propa[d.src] /\ pts[d.dst] \subseteq pts'[r[d.dst]]
    BY <1>1, <1>2, <1>4, MergeEdges
<1>6. FlowOf(Collapsed, d, o) \in pts[d.dst]
    BY <1>4, <1>5 DEF FlowsArrived
<1> QED
    BY <1>4, <1>5, <1>6, SameFlow

(* A collapse keeps what had flowed, fields giving way to their object.    *)
LEMMA CollapseFlows ==
    ASSUME TypeOK, Phases, CollapseInvariant, FlowsArrived, NEW o, CollapseStep(o)
    PROVE  FlowsArrived'
<1>1. o \in Obj /\ CollapseField(o) /\ pc # "final"
    BY DEF CollapseStep
<1>2. CASE o[1] \in BlkOrConst
    <2>1. UNCHANGED <<edges, pts, propa, fi>> /\ Collapsed' = Collapsed
        BY <1>1, <1>2, CollapsedGrows DEF CollapseField, graphVars
    <2> QED
        BY <2>1 DEF FlowsArrived, Dead
<1>3. CASE o[1] \notin BlkOrConst
    <2> DEFINE r == CollapsedRep(o)
               Q == CollapsedPts(o)
    <2>1. /\ MergeNodes(r, Q)
          /\ r \in [Node -> Node]
          /\ Q \in [Node -> SUBSET Obj]
          /\ fi' = fi \cup {o[1]}
        BY <1>1, <1>3, CollapseParts DEF CollapseField
    <2>2. /\ Collapsed' = Collapsed \cup {o[1]}
          /\ Collapsed \in SUBSET Base
          /\ propa \in [Node -> SUBSET Obj] /\ pts \in [Node -> SUBSET Obj]
        BY <1>3, CollapsedGrows DEF Collapsed, TypeOK, TypeOKBase
    <2> SUFFICES ASSUME NEW e \in edges', e.kind \in DirectKind, NEW x \in propa'[e.src], x \notin Dead'
                 PROVE  FlowOf(Collapsed', e, x) \in pts'[e.dst]
        BY DEF FlowsArrived
    <2>3. PICK d \in edges :
              /\ e.kind = d.kind /\ e.off = d.off /\ e.src = r[d.src] /\ e.dst = r[d.dst]
              /\ d \in Edge /\ d.src \in Node /\ d.dst \in Node
        <3> HIDE DEF r, Q
        <3> QED
            BY <2>1, MergeEdges
    <2>4. propa'[r[d.src]] \subseteq propa[d.src] /\ Q[d.dst] \subseteq pts'[r[d.dst]]
        <3> HIDE DEF r, Q
        <3> QED
            BY <2>1, <2>3, MergeEdges
    <2>5. /\ x \in Obj /\ x \in propa[d.src] /\ x \notin Dead
          /\ x[1] = o[1] => x \notin FieldObj
        BY <2>1, <2>2, <2>3, <2>4 DEF Dead
    <2>6. FlowOf(Collapsed, d, x) \in pts[d.dst]
        BY <2>3, <2>5 DEF FlowsArrived
    <2>7. pts[d.dst] \cap FieldObj \subseteq fields /\ pts[d.dst] \in SUBSET Obj
        BY <1>1, <2>2, <2>3 DEF CollapseInvariant
    <2>8. \/ FlowOf(Collapsed', d, x) \in pts[d.dst] \ FieldNodes(o)
          \/ /\ FlowOf(Collapsed', d, x) = FIObjVar(o)
             /\ pts[d.dst] \cap FieldNodes(o) # {}
        <3> DEFINE P == pts[d.dst]
                   F == Collapsed
        <3>1. /\ o \in Obj /\ o[1] \notin BlkOrConst /\ F \in SUBSET Base
              /\ d \in Edge /\ x \in Obj /\ (x[1] = o[1] => x \notin FieldObj)
              /\ P \in SUBSET Obj /\ P \cap FieldObj \subseteq fields /\ FlowOf(F, d, x) \in P
            BY <1>1, <1>3, <2>2, <2>3, <2>5, <2>6, <2>7
        <3>2. Collapsed' = F \cup {o[1]}
            BY <2>2
        <3> HIDE DEF r, Q, P, F
        <3>3. \/ FlowOf(F \cup {o[1]}, d, x) \in P \ FieldNodes(o)
              \/ FlowOf(F \cup {o[1]}, d, x) = FIObjVar(o) /\ P \cap FieldNodes(o) # {}
            BY <3>1, CollapseFlow
        <3> QED
            BY <3>2, <3>3 DEF P
    <2>9. FlowOf(Collapsed', d, x) \in Q[d.dst]
        BY <2>3, <2>8 DEF CollapsedPts, Hit
    <2>10. FlowOf(Collapsed', e, x) = FlowOf(Collapsed', d, x)
        BY <2>3, SameFlow
    <2> HIDE DEF r, Q
    <2> QED
        BY <2>3, <2>4, <2>9, <2>10
<1> QED
    BY <1>2, <1>3

(* processNode: everything a node points to has flowed along its edges.    *)
LEMMA HandleCopyGepFlows ==
    ASSUME TypeOK, RepsStable, FlowsArrived, toCollapse = {}, pc # "final",
           NEW n \in Node, HandleCopyGep(n)
    PROVE  /\ FlowsArrived'
           /\ \A e \in edges : e.kind \in DirectKind /\ e.src = n =>
                  \A o \in pts[n] \ Dead : FlowOf(Collapsed, e, o) \in pts'[e.dst]
<1> DEFINE gained(m) == UNION {Flow(e, Diff(n)) :
                e \in {x \in {e \in edges : e.kind \in DirectKind /\ e.src = n} : repOf[x.dst] = m}}
<1>1. /\ propa' = [propa EXCEPT ![n] = pts[n]]
      /\ pts' = [m \in Node |-> pts[m] \cup gained(m)]
      /\ fi \subseteq fi'
      /\ edges' = edges
    BY DEF HandleCopyGep
<1>2. /\ Collapsed = fi /\ Collapsed' = fi /\ Dead \subseteq Dead'
    BY <1>1, HandleCopyGepCollapsed DEF Dead
<1>3. /\ edges \subseteq Edge /\ propa \in [Node -> SUBSET Obj]
      /\ pts \in [Node -> SUBSET Obj]
      /\ \A e \in edges : e.src \in Node /\ e.dst \in Node /\ repOf[e.dst] = e.dst
    BY DEF TypeOK, TypeOKBase, RepsStable, Edge
<1>4. ASSUME NEW e \in edges, e.kind \in DirectKind, e.src = n, NEW o \in Diff(n)
      PROVE  FlowOf(fi, e, o) \in gained(e.dst)
    <2>1. FlowOf(fi, e, o) \in Flow(e, Diff(n))
        BY FlowElements
    <2> QED
        BY <1>3, <1>4, <2>1
<1> HIDE DEF gained
<1>5. \A m \in Node : pts[m] \subseteq pts'[m] /\ gained(m) \subseteq pts'[m]
    BY <1>1
<1>6. ASSUME NEW e \in edges, e.kind \in DirectKind, e.src = n, NEW o \in pts[n], o \notin Dead
      PROVE  FlowOf(Collapsed, e, o) \in pts'[e.dst]
    <2>1. CASE o \in Diff(n)
        BY <1>2, <1>3, <1>4, <1>5, <1>6, <2>1
    <2>2. CASE o \notin Diff(n)
        <3>1. o \in propa[n] \ Dead
            BY <1>6, <2>2 DEF Diff
        <3>2. FlowOf(Collapsed, e, o) \in pts[e.dst]
            BY <1>6, <3>1 DEF FlowsArrived
        <3> QED
            BY <1>3, <1>5, <3>2
    <2> QED
        BY <2>1, <2>2
<1>7. ASSUME NEW e \in edges, e.kind \in DirectKind, NEW o \in propa'[e.src], o \notin Dead
      PROVE  FlowOf(Collapsed, e, o) \in pts'[e.dst]
    <2>1. CASE e.src = n
        BY <1>1, <1>3, <1>6, <1>7, <2>1
    <2>2. CASE e.src # n
        <3>1. FlowOf(Collapsed, e, o) \in pts[e.dst]
            BY <1>1, <1>3, <1>7, <2>2 DEF FlowsArrived
        <3> QED
            BY <1>3, <1>5, <3>1
    <2> QED
        BY <2>1, <2>2
<1>8. FlowsArrived'
    BY <1>1, <1>2, <1>7 DEF FlowsArrived
<1> QED
    BY <1>6, <1>8

(* A new copy edge comes with a cut of what its source has propagated.     *)
LEMMA AddCopyFlows ==
    ASSUME TypeOK, PropaKept, FlowsArrived, NEW s \in Node, NEW d \in Node, AddCopyEdge(s, d),
           UNCHANGED <<repOf, pts, fi, toCollapse>>
    PROVE  FlowsArrived'
<1>1. /\ repOf \in [Node -> Node] /\ propa \in [Node -> SUBSET Obj]
      /\ Collapsed' = Collapsed /\ Dead' = Dead
    BY DEF TypeOK, TypeOKBase, Collapsed, Dead
<1>2. CASE ~ NewCopy(s, d)
    BY <1>1, <1>2 DEF AddCopyEdge, FlowsArrived
<1>3. CASE NewCopy(s, d)
    <2>1. /\ edges' = edges \cup {CopyEdge(repOf[s], repOf[d])}
          /\ propa' = [propa EXCEPT ![repOf[s]] = @ \cap propa[repOf[d]]]
        BY <1>3 DEF AddCopyEdge
    <2>2. \A n \in Node : propa'[n] \subseteq propa[n]
        BY <1>1, <2>1
    <2>3. ASSUME NEW e \in edges, e.kind \in DirectKind, NEW o \in propa'[e.src], o \notin Dead
          PROVE  FlowOf(Collapsed, e, o) \in pts[e.dst]
        <3>1. e.src \in Node
            BY DEF TypeOK, TypeOKBase, Edge
        <3> QED
            BY <2>2, <2>3, <3>1 DEF FlowsArrived
    <2>4. ASSUME NEW o \in propa'[repOf[s]], o \notin Dead
          PROVE  FlowOf(Collapsed, CopyEdge(repOf[s], repOf[d]), o) \in pts[repOf[d]]
        <3>1. o \in propa[repOf[d]]
            BY <1>1, <2>1, <2>4
        <3> QED
            BY <1>1, <2>4, <3>1 DEF PropaKept, FlowOf, CopyEdge
    <2> QED
        BY <1>1, <2>1, <2>3, <2>4 DEF FlowsArrived, CopyEdge
<1> QED
    BY <1>2, <1>3

(* Every step keeps what was propagated arrived, along geps too.           *)
LEMMA FlowsNext ==
    ASSUME TypeOK, RepsStable, PropaKept, Phases, CollapseInvariant, FlowsArrived, [Next]_vars
    PROVE  FlowsArrived'
<1>1. CASE SCCDetect
    BY <1>1, SCCDetectFlows
<1>2. ASSUME UNCHANGED <<edges, pts, propa, fi, toCollapse>> PROVE FlowsArrived'
    BY <1>2 DEF FlowsArrived, Collapsed, Dead
<1>3. ASSUME NEW o \in pending, CollapseNodePts(o) PROVE FlowsArrived'
    <2>1. CASE o[1] \in fi
        BY <1>2, <1>3, <2>1 DEF CollapseNodePts, baseVars, graphVars, memVars
    <2> QED
        BY <1>3, <2>1, CollapseSteps, CollapseFlows
<1>4. ASSUME NEW o \in toCollapse, CollapseFields(o) PROVE FlowsArrived'
    BY <1>4, CollapseSteps, CollapseFlows
<1>5. CASE ProcessNode
    <2>1. PICK n \in cur : IF repOf[n] = n THEN HandleCopyGep(n) ELSE UNCHANGED baseVars
        BY <1>5 DEF ProcessNode
    <2>2. n \in Node /\ toCollapse = {} /\ pc # "final"
        BY <1>5 DEF ProcessNode, TypeOK, Phases
    <2> QED
        BY <1>2, <2>1, <2>2, HandleCopyGepFlows DEF baseVars, graphVars, memVars
<1>6. ASSUME NEW c \in copies, HandleLoadStore(c) \/ ConnectParam(c) PROVE FlowsArrived'
    <2>1. c[1] \in Node /\ c[2] \in Node
        BY DEF TypeOK
    <2> QED
        BY <1>6, <2>1, AddCopyFlows DEF HandleLoadStore, ConnectParam, memVars
<1>7. CASE UpdateCallGraph
    <2>1. UNCHANGED <<edges, propa, fi, toCollapse>>
        BY <1>7 DEF UpdateCallGraph, memVars
    <2>2. \A n \in Node : pts[n] \subseteq pts'[n]
        BY <1>7 DEF UpdateCallGraph
    <2>3. \A e \in edges : e.dst \in Node
        BY DEF TypeOK, TypeOKBase, Edge
    <2> QED
        BY <2>1, <2>2, <2>3 DEF FlowsArrived, Collapsed, Dead
<1>8. CASE \/ \E n \in wave : PopNode(n)
           \/ \E n \in worklist : PostProcessNode(n)
           \/ NextIteration
           \/ Normalize
           \/ UNCHANGED vars
    <2>1. UNCHANGED <<edges, pts, propa, fi, toCollapse>>
        BY <1>8 DEF PopNode, PostProcessNode, NextIteration, Normalize, vars, baseVars,
                    graphVars, memVars
    <2> QED
        BY <1>2, <2>1
<1> QED
    BY <1>1, <1>3, <1>4, <1>5, <1>6, <1>7, <1>8 DEF Next

-----------------------------------------------------------------------------
(* The wave.  While nothing asks for another iteration, the nodes behind   *)
(* the wave have nothing left to propagate.                                *)
Working == pc \in {"wave", "pwc", "post", "call"} /\ ~ reanalyze

Behind ==
    IF Working THEN Node \ (wave \cup cur)
    ELSE IF pc \in {"done", "final"} THEN Node ELSE {}

(* Direct edges lead ahead, in the order the nodes are popped.             *)
InOrder ==
    Working => \A e \in edges : e.kind \in DirectKind /\ e.src \in wave \cup cur =>
                   e.dst \in wave /\ (e.src \in wave => <<e.src, e.dst>> \in order)

EdgesSolved ==
    \A e \in edges : e.kind \in DirectKind /\ e.src \in Behind =>
        \A o \in pts[e.src] : FlowOf(Collapsed, e, o) \in pts[e.dst]

(* The targets of a PWC node are collapsed, or collapsePWCNode is at it.   *)
Settled(o) == o[1] \in Collapsed \cup BlkOrConst

CyclesCollapsed ==
    /\ \A n \in pwc \cap Behind : \A o \in pts[n] : Settled(o)
    /\ Working => \A n \in pwc \cap cur : \A o \in pts[n] : o \in pending \/ Settled(o)

WaveInvariant == InOrder /\ EdgesSolved /\ CyclesCollapsed

(* Outside an iteration, or once another one is due, there is nothing to   *)
(* keep.                                                                   *)
LEMMA NoWave ==
    ASSUME ~ Working, pc \notin {"done", "final"}
    PROVE  WaveInvariant
BY DEF Behind, InOrder, EdgesSolved, CyclesCollapsed, WaveInvariant

LEMMA NoWaveNext ==
    ASSUME ~ Working', pc' \notin {"done", "final"}
    PROVE  WaveInvariant'
BY DEF Behind, InOrder, EdgesSolved, CyclesCollapsed, WaveInvariant

(* The order SCCDetect leaves is topological for the direct edges.         *)
LEMMA SCCDetectWave ==
    ASSUME TypeOK, Phases, RepsInGraph', ProgramKept', SCCDetect
    PROVE  WaveInvariant'
<1>1. /\ wave' = nodes' /\ order' = DirectPairs(edges') /\ cur' = {}
      /\ pc' = "wave" /\ \A e \in edges' : e.src \in nodes' /\ e.dst \in nodes'
      /\ pwc' \subseteq nodes'
    BY DEF SCCDetect, RepsInGraph, Phases, ProgramKept
<1>2. \A e \in edges' : e.kind \in DirectKind => <<e.src, e.dst>> \in order'
    BY <1>1 DEF DirectPairs
<1>3. Behind' \cap nodes' = {}
    BY <1>1 DEF Behind
<1> QED
    BY <1>1, <1>2, <1>3 DEF WaveInvariant, InOrder, EdgesSolved, CyclesCollapsed

(* The node popped is the first of those left: no edge leads back to it.   *)
LEMMA PopNodeWave ==
    ASSUME TypeOK, Phases, RepsInGraph, ProgramKept, NoLoops, WaveInvariant,
           NEW n \in wave, PopNode(n)
    PROVE  WaveInvariant'
<1>1. /\ wave' = wave \ {n} /\ cur' = {n} /\ cur = {} /\ pc = "wave" /\ pc' = "pwc"
      /\ \A m \in wave \ {n} : <<m, n>> \notin order
      /\ pending' = IF repOf[n] \in pwc THEN GetPts(n) ELSE {}
      /\ UNCHANGED <<edges, pwc, pts, fi, toCollapse, reanalyze, order>>
    BY DEF PopNode, Quiet, Phases, baseVars, graphVars, memVars
<1>2. /\ Working' = Working
      /\ Behind' = Behind
      /\ Collapsed' = Collapsed
    BY <1>1 DEF Working, Behind, Collapsed
<1>3. InOrder'
    BY <1>1, <1>2 DEF WaveInvariant, InOrder, NoLoops
<1>4. EdgesSolved'
    BY <1>1, <1>2 DEF WaveInvariant, EdgesSolved
<1>5. n \in pwc => pending' = pts[n]
    BY <1>1 DEF ProgramKept, RepsInGraph, GetPts
<1>6. CyclesCollapsed'
    BY <1>1, <1>2, <1>5 DEF WaveInvariant, CyclesCollapsed, Settled
<1> QED
    BY <1>3, <1>4, <1>6 DEF WaveInvariant

(* A collapse with no hit leaves the nodes behind the wave solved; one     *)
(* with a hit asks for another iteration.                                  *)
LEMMA CollapseWave ==
    ASSUME TypeOK, Phases, CollapseInvariant, FieldsIsolated, WaveInvariant,
           NEW o, CollapseStep(o),
           \A x \in pending : x \in pending' \/ x = o
    PROVE  WaveInvariant'
<1>1. /\ o \in Obj /\ CollapseField(o) /\ pc \in {"wave", "pwc"}
      /\ UNCHANGED <<pc, wave, order, cur>>
    BY DEF CollapseStep
<1>2. CASE reanalyze'
    BY <1>1, <1>2, NoWaveNext DEF Working
<1>3. CASE ~ reanalyze'
    <2>1. /\ UNCHANGED <<edges, pwc, pts>> /\ ~ reanalyze
          /\ o[1] \notin BlkOrConst => \A n \in Node : pts[n] \cap FieldNodes(o) = {}
        BY <1>3, QuietCollapse
    <2>2. /\ Working /\ Working' /\ Behind' = Behind
        BY <1>1, <1>3, <2>1 DEF Working, Behind
    <2>3. /\ o[1] \in BlkOrConst => Collapsed' = Collapsed
          /\ o[1] \notin BlkOrConst => Collapsed' = Collapsed \cup {o[1]}
        BY CollapsedGrows
    <2>4. InOrder'
        BY <1>1, <2>1, <2>2 DEF WaveInvariant, InOrder
    <2>5. CyclesCollapsed'
        BY <1>1, <2>1, <2>2, <2>3 DEF WaveInvariant, CyclesCollapsed, Settled
    <2>6. CASE o[1] \in BlkOrConst
        BY <2>1, <2>2, <2>3, <2>4, <2>5, <2>6 DEF WaveInvariant, EdgesSolved
    <2>7. CASE o[1] \notin BlkOrConst
        <3> SUFFICES ASSUME NEW e \in edges, e.kind \in DirectKind, e.src \in Behind,
                            NEW x \in pts[e.src]
                     PROVE  FlowOf(Collapsed', e, x) \in pts[e.dst]
            BY <2>1, <2>2, <2>4, <2>5 DEF WaveInvariant, EdgesSolved
        <3>1. /\ e \in Edge /\ e.src \in Node /\ e.dst \in Node
              /\ pts[e.src] \in SUBSET Obj /\ pts[e.dst] \in SUBSET Obj
              /\ Collapsed \in SUBSET Base
            BY DEF TypeOK, TypeOKBase, Edge, Collapsed
        <3>2. /\ pts[e.dst] \cap FieldObj \subseteq fields
              /\ pts[e.src] \cap FieldObj \subseteq fields
            BY <1>1, <3>1 DEF CollapseInvariant
        <3>3. x[1] = o[1] => x \notin FieldObj
            BY <2>1, <2>7, <3>1, <3>2 DEF FieldNodes
        <3>4. FlowOf(Collapsed, e, x) \in pts[e.dst]
            BY DEF WaveInvariant, EdgesSolved
        <3>5. pts[e.dst] \cap FieldNodes(o) = {}
            BY <2>1, <2>7, <3>1
        <3> QED
            BY <1>1, <2>3, <2>7, <3>1, <3>2, <3>3, <3>4, <3>5, CollapseFlow
    <2> QED
        BY <2>6, <2>7
<1> QED
    BY <1>2, <1>3

(* processNode: the node joins those behind the wave, and what it passes   *)
(* on goes to nodes ahead only.                                            *)
LEMMA ProcessNodeWave ==
    ASSUME TypeOK, RepsStable, Phases, CollapseInvariant, NoLoops, FlowsArrived, WaveInvariant,
           ProcessNode
    PROVE  WaveInvariant'
<1>1. PICK n \in cur : IF repOf[n] = n THEN HandleCopyGep(n) ELSE UNCHANGED baseVars
    BY DEF ProcessNode
<1>2. /\ n \in Node /\ pc = "pwc" /\ pc' = "wave" /\ pending = {} /\ cur = {n} /\ cur' = {}
      /\ toCollapse = {}
      /\ UNCHANGED <<wave, order, pending>>
    BY DEF ProcessNode, TypeOK, Phases
<1>3. UNCHANGED <<edges, repOf, pwc, reanalyze>>
    BY <1>1 DEF HandleCopyGep, baseVars, graphVars
<1>4. CASE reanalyze
    BY <1>2, <1>3, <1>4, NoWaveNext DEF Working
<1>5. CASE ~ reanalyze
    <2>1. /\ Working /\ Working'
          /\ Behind = Node \ (wave \cup {n}) /\ Behind' = Node \ wave
        BY <1>2, <1>3, <1>5 DEF Working, Behind
    <2>2. \A e \in edges : e.src \in Node /\ e.dst \in Node /\ repOf[e.src] = e.src /\ repOf[e.dst] = e.dst
        BY <1>2 DEF TypeOK, TypeOKBase, RepsStable, Edge
    <2>3. InOrder'
        BY <1>2, <1>3, <2>1 DEF WaveInvariant, InOrder
    <2>4. \A e \in edges : e.kind \in DirectKind /\ e.src = n => e.dst \in wave /\ e.dst # n
        BY <1>2, <2>1 DEF WaveInvariant, InOrder, NoLoops
    <2>5. Collapsed = fi /\ Collapsed' = fi
        <3>1. CASE repOf[n] = n
            BY <1>1, <1>2, <3>1, HandleCopyGepCollapsed
        <3>2. CASE repOf[n] # n
            BY <1>1, <1>2, <3>2 DEF Collapsed, baseVars, memVars
        <3> QED
            BY <3>1, <3>2
    <2>6. /\ \A m \in Node : pts[m] \subseteq pts'[m]
          /\ \A m \in Behind' : pts'[m] = pts[m]
        <3>1. CASE repOf[n] = n
            <4> DEFINE out == {e \in edges : e.kind \in DirectKind /\ e.src = n}
                       gained(m) == UNION {Flow(e, Diff(n)) : e \in {x \in out : repOf[x.dst] = m}}
            <4>1. pts' = [m \in Node |-> pts[m] \cup gained(m)]
                BY <1>1, <3>1 DEF HandleCopyGep
            <4>2. \A m \in Behind' : m \in Node /\ \A x \in out : repOf[x.dst] # m
                BY <2>1, <2>2, <2>4
            <4>3. \A m \in Behind' : gained(m) = {}
                BY <4>2
            <4> HIDE DEF gained
            <4> QED
                BY <2>1, <4>1, <4>3
        <3>2. CASE repOf[n] # n
            BY <1>1, <3>2 DEF baseVars
        <3> QED
            BY <3>1, <3>2
    <2>7. ASSUME NEW e \in edges, e.kind \in DirectKind, e.src = n, NEW o \in pts[n]
          PROVE  FlowOf(Collapsed, e, o) \in pts'[e.dst]
        <3>1. HandleCopyGep(n)
            BY <1>1, <2>2, <2>7
        <3>2. o \notin Dead
            BY <1>2, <2>7 DEF CollapseInvariant
        <3> QED
            BY <1>2, <2>7, <3>1, <3>2, HandleCopyGepFlows
    <2>8. EdgesSolved'
        <3> SUFFICES ASSUME NEW e \in edges, e.kind \in DirectKind, e.src \in Behind',
                            NEW o \in pts'[e.src]
                     PROVE  FlowOf(Collapsed', e, o) \in pts'[e.dst]
            BY <1>3 DEF EdgesSolved
        <3>1. o \in pts[e.src]
            BY <2>6
        <3>2. CASE e.src = n
            BY <2>5, <2>7, <3>1, <3>2
        <3>3. CASE e.src # n
            <4>1. e.src \in Behind
                BY <2>1, <3>3
            <4>2. FlowOf(Collapsed, e, o) \in pts[e.dst]
                BY <3>1, <4>1 DEF WaveInvariant, EdgesSolved
            <4> QED
                BY <2>2, <2>5, <2>6, <4>2
        <3> QED
            BY <3>2, <3>3
    <2>9. CyclesCollapsed'
        <3>1. \A m \in Behind' : m \in Behind \/ m \in cur
            BY <1>2, <2>1
        <3> QED
            BY <1>2, <1>3, <2>1, <2>5, <2>6, <3>1 DEF WaveInvariant, CyclesCollapsed, Settled
    <2> QED
        BY <2>3, <2>8, <2>9 DEF WaveInvariant
<1> QED
    BY <1>4, <1>5

(* Every step keeps the nodes behind the wave solved.                      *)
LEMMA WaveNext ==
    ASSUME TypeOK, RepsStable, Phases, CollapseInvariant, RepsInGraph, ProgramKept,
           NoLoops, FieldsIsolated, FlowsArrived, WaveInvariant,
           RepsInGraph', ProgramKept', [Next]_vars
    PROVE  WaveInvariant'
<1>1. CASE SCCDetect
    BY <1>1, SCCDetectWave
<1>2. ASSUME NEW n \in wave, PopNode(n) PROVE WaveInvariant'
    BY <1>2, PopNodeWave
<1>3. ASSUME NEW o \in pending, CollapseNodePts(o) PROVE WaveInvariant'
    <2>1. CASE o[1] \in fi
        <3>1. /\ UNCHANGED <<edges, pwc, pts, fi, toCollapse, reanalyze, pc, wave, order, cur>>
              /\ pending' = pending \ {o}
            BY <1>3, <2>1 DEF CollapseNodePts, baseVars, graphVars, memVars
        <3>2. Working' = Working /\ Behind' = Behind /\ Collapsed' = Collapsed
            BY <3>1 DEF Working, Behind, Collapsed
        <3>3. cur # {} => Settled(o)
            BY <2>1 DEF Phases, Settled, Collapsed
        <3>4. CyclesCollapsed'
            BY <3>1, <3>2, <3>3 DEF WaveInvariant, CyclesCollapsed, Settled
        <3> QED
            BY <3>1, <3>2, <3>4 DEF WaveInvariant, InOrder, EdgesSolved
    <2>2. CASE o[1] \notin fi
        <3>1. pending' = (pending \ {o}) \cup Nested(o)
            BY <1>3, <2>2 DEF CollapseNodePts
        <3>2. CollapseStep(o)
            BY <1>3, <2>2, CollapseSteps
        <3> QED
            BY <3>1, <3>2, CollapseWave
    <2> QED
        BY <2>1, <2>2
<1>4. ASSUME NEW o \in toCollapse, CollapseFields(o) PROVE WaveInvariant'
    <2>1. pending = {}
        BY <1>4 DEF CollapseFields
    <2>2. CollapseStep(o)
        BY <1>4, CollapseSteps
    <2> QED
        BY <2>1, <2>2, CollapseWave
<1>5. CASE ProcessNode
    BY <1>5, ProcessNodeWave
<1>6. ASSUME /\ UNCHANGED <<edges, pwc, pts, fi, toCollapse>>
             /\ Behind' = Behind /\ cur' = {} /\ wave' = {}
      PROVE  WaveInvariant'
    BY <1>6 DEF WaveInvariant, InOrder, EdgesSolved, CyclesCollapsed, Settled, Collapsed
<1>7. ASSUME NEW n \in worklist, PostProcessNode(n) PROVE WaveInvariant'
    BY <1>6, <1>7 DEF PostProcessNode, Post, Quiet, Phases, Working, Behind, graphVars, memVars
<1>8. ASSUME NEW c \in copies, HandleLoadStore(c) PROVE WaveInvariant'
    <2>1. /\ pc = "post" /\ pc' = "post" /\ UNCHANGED <<pwc, pts, fi, toCollapse, wave, cur>>
          /\ AddCopyEdge(c[1], c[2])
          /\ reanalyze' = (reanalyze \/ NewCopy(c[1], c[2]))
        BY <1>8 DEF HandleLoadStore, memVars
    <2>2. CASE reanalyze'
        BY <2>1, <2>2, NoWaveNext DEF Working
    <2>3. CASE ~ reanalyze'
        BY <1>6, <2>1, <2>3 DEF AddCopyEdge, Phases, Working, Behind
    <2> QED
        BY <2>2, <2>3
<1>9. ASSUME NEW c \in copies, ConnectParam(c) PROVE WaveInvariant'
    BY <1>9, NoWaveNext DEF ConnectParam, Phases, Working
<1>10. CASE UpdateCallGraph
    <2>1. PICK new \in NewCalls :
            /\ reanalyze' = (reanalyze \/ new # {})
            /\ pts' = [n \in Node |-> pts[n] \cup
                        {DummyObj(c) : c \in {d \in NewHeapSites(new) : d.dummyVal = n}}]
        BY <1>10 DEF UpdateCallGraph
    <2>2. /\ pc \in {"wave", "post"} /\ pc' = "call" /\ wave = {} /\ cur = {}
          /\ UNCHANGED <<edges, pwc, fi, toCollapse, wave, cur>>
        BY <1>10 DEF UpdateCallGraph, Post, Quiet, Phases, memVars
    <2>3. CASE reanalyze'
        BY <2>2, <2>3, NoWaveNext DEF Working
    <2>4. CASE ~ reanalyze'
        <3>1. NewHeapSites(new) = {}
            BY <2>1, <2>4 DEF NewHeapSites
        <3>2. pts' = pts
            BY <2>1, <3>1 DEF TypeOK, TypeOKBase
        <3>3. Behind' = Behind
            BY <2>1, <2>2, <2>4 DEF Behind, Working
        <3> QED
            BY <1>6, <2>2, <3>2, <3>3
    <2> QED
        BY <2>3, <2>4
<1>11. CASE NextIteration
    <2>1. /\ pc = "call" /\ wave = {} /\ cur = {}
          /\ pc' = IF reanalyze THEN "scc" ELSE "done"
          /\ UNCHANGED <<edges, pwc, pts, fi, toCollapse, wave, cur>>
        BY <1>11 DEF NextIteration, Phases, graphVars, memVars
    <2>2. CASE reanalyze
        BY <2>1, <2>2, NoWaveNext DEF Working
    <2>3. CASE ~ reanalyze
        BY <1>6, <2>1, <2>3 DEF Working, Behind
    <2> QED
        BY <2>2, <2>3
<1>12. CASE Normalize
    BY <1>6, <1>12 DEF Normalize, Phases, Working, Behind
<1>13. CASE UNCHANGED vars
    BY <1>13 DEF vars, baseVars, graphVars, memVars, WaveInvariant, InOrder, EdgesSolved,
                 CyclesCollapsed, Settled, Collapsed, Behind, Working
<1> QED
    BY <1>1, <1>2, <1>3, <1>4, <1>5, <1>7, <1>8, <1>9, <1>10, <1>11, <1>12, <1>13 DEF Next

LEMMA WaveInit == Init => WaveInvariant
<1> SUFFICES ASSUME Init PROVE WaveInvariant
    OBVIOUS
<1>1. pc = "scc"
    BY DEF Init
<1> QED
    BY <1>1, NoWave DEF Working

(* The inductive invariant of the direct edges.                            *)
DirectInvariant ==
    /\ Phases /\ ProgramKept /\ FieldsIsolated /\ FlowsArrived
    /\ GepsAcross(prog) => NoLoops /\ WaveInvariant

LEMMA DirectInit == Init => DirectInvariant
<1> SUFFICES ASSUME Init PROVE DirectInvariant
    OBVIOUS
<1>1. \A n \in Node : propa[n] = {}
    BY DEF Init, InitBase
<1>2. \A e \in edges : e.src \in Node
    BY InitType DEF TypeOK, TypeOKBase, Edge
<1>3. FlowsArrived
    BY <1>1, <1>2 DEF FlowsArrived
<1> QED
    BY <1>3, PhasesInit, ProgramInit, IsolatedInit, NoLoopsInit, WaveInit DEF DirectInvariant

(* Every step keeps the invariant of the direct edges.                     *)
LEMMA DirectNext ==
    ASSUME IInv, CollapseInvariant, RepsInGraph, RepsInGraph', DirectInvariant, [Next]_vars
    PROVE  DirectInvariant'
<1> USE DEF IInv
<1>1. Phases'
    BY PhasesNext DEF DirectInvariant
<1>2. ProgramKept'
    BY ProgramNext DEF DirectInvariant
<1>3. FieldsIsolated'
    BY IsolatedNext DEF DirectInvariant
<1>4. FlowsArrived'
    BY FlowsNext DEF DirectInvariant
<1>5. ASSUME GepsAcross(prog)' PROVE NoLoops' /\ WaveInvariant'
    <2>1. prog' = prog
        BY DEF Next, SCCDetect, PopNode, CollapseNodePts, ProcessNode, HandleCopyGep,
               CollapseFields, PostProcessNode, HandleLoadStore, ConnectParam, UpdateCallGraph,
               NextIteration, Normalize, vars, baseVars
    <2>2. NoLoops /\ WaveInvariant
        BY <1>5, <2>1 DEF DirectInvariant, GepsAcross
    <2> QED
        BY <1>2, <2>2, NoLoopsNext, WaveNext DEF DirectInvariant
<1> QED
    BY <1>1, <1>2, <1>3, <1>4, <1>5 DEF DirectInvariant

(* Every gep of offset zero inside a merged component lies in one that     *)
(* moveInEdgesToRepNode has flagged as a positive-weight cycle: it forgets *)
(* such a gep without flagging it (isZeroOffsettedGepCGEdge).              *)
ZeroOffsetsFlagged ==
    \A e \in prog.edges :
        e.kind = "ngep" /\ e.off = 0 /\ repOf[e.src] = repOf[e.dst] => repOf[e.src] \in pwc

(* At the end the whole graph is behind the wave, and so are the           *)
(* statements.                                                             *)
LEMMA DirectAnswer ==
    ASSUME TypeOK, CollapseInvariant, DirectInvariant, GepsAcross(prog), ZeroOffsetsFlagged
    PROVE  DirectSolved
<1> SUFFICES ASSUME Solved PROVE DirectSolved
    BY DEF DirectSolved
<1>1. /\ Behind = Node /\ toCollapse = {} /\ Collapsed = fi
      /\ repOf \in [Node -> Node] /\ pts \in [Node -> SUBSET Obj]
    BY DEF DirectInvariant, Phases, Solved, Behind, Working, Collapsed, TypeOK, TypeOKBase
<1>2. \A a \in prog.addr : a[1] \in GetPts(a[2])
    BY DEF DirectInvariant, ProgramKept, AddressesKept, GetPts
<1>3. ASSUME NEW e \in prog.edges, e.kind \in DirectKind, NEW o \in GetPts(e.src)
      PROVE  FlowOf(fi, e, o) \in GetPts(e.dst)
    <2> DEFINE g == ReTarget(e, repOf)
    <2>1. e \in Edge /\ repOf[e.src] \in Node /\ repOf[e.dst] \in Node
        BY <1>1, ProgramTypes
    <2>2. CASE g \in edges
        <3>1. g.kind = e.kind /\ g.off = e.off /\ g.src = repOf[e.src] /\ g.dst = repOf[e.dst]
            BY <2>1 DEF ReTarget, Edge
        <3>2. FlowOf(fi, g, o) \in pts[g.dst]
            BY <1>1, <1>3, <2>1, <2>2, <3>1
               DEF DirectInvariant, WaveInvariant, EdgesSolved, GetPts
        <3>3. FlowOf(fi, g, o) = FlowOf(fi, e, o)
            BY <3>1, SameFlow
        <3> QED
            BY <3>1, <3>2, <3>3 DEF GetPts
    <2>3. CASE Inside(e) /\ e.kind = "copy"
        BY <1>3, <2>3 DEF Inside, FlowOf, GetPts
    <2>4. CASE Inside(e) /\ repOf[e.src] \in pwc
        <3>1. o \in pts[repOf[e.src]] /\ o \in Obj /\ pts[repOf[e.src]] = GetPts(e.dst)
            BY <1>1, <1>3, <2>1, <2>4 DEF Inside, GetPts
        <3>2. o[1] \in fi \cup BlkOrConst
            BY <1>1, <2>1, <2>4, <3>1
               DEF DirectInvariant, WaveInvariant, CyclesCollapsed, Settled
        <3>3. o[1] \in fi => o = FIObjVar(o)
            BY <1>1, <2>1, <3>1, WholeOrField DEF CollapseInvariant, Dead
        <3> QED
            BY <3>1, <3>2, <3>3 DEF FlowOf, GepOf
    <2>5. CASE Inside(e) /\ e.kind = "ngep" /\ e.off = 0
        BY <2>4, <2>5 DEF Inside, ZeroOffsetsFlagged
    <2> QED
        BY <2>2, <2>3, <2>4, <2>5 DEF DirectInvariant, ProgramKept, StatementsKept, Inside
<1>4. ASSUME NEW e \in prog.edges, e.kind \in DirectKind
      PROVE  Flow(e, GetPts(e.src)) \subseteq GetPts(e.dst)
    BY <1>3, <1>4, FlowElements
<1> QED
    BY <1>2, <1>4 DEF DirectSolved

(* DirectSolved, for every program without a gep into its own base: when   *)
(* solveConstraints ends, every address, copy and gep statement of the     *)
(* program holds between the sets of the representatives, provided every   *)
(* gep of offset zero in a merged component is in a flagged one.           *)
THEOREM DirectEdgesSolved == Spec => [](GepsAcross(prog) /\ ZeroOffsetsFlagged => DirectSolved)
<1>1. Init => IInv /\ CollapseInvariant /\ GraphInvariant /\ DirectInvariant
    BY InitKeeps, CollapseInit, GraphInit, DirectInit
<1>2. IInv /\ [Next]_vars => IInv'
    BY NextKeeps
<1>3. IInv /\ CollapseInvariant /\ [Next]_vars => CollapseInvariant'
    BY CollapseNext DEF IInv
<1>4. IInv /\ GraphInvariant /\ [Next]_vars => GraphInvariant'
    BY GraphNext DEF IInv
<1>5. /\ IInv /\ CollapseInvariant /\ GraphInvariant /\ GraphInvariant'
      /\ DirectInvariant /\ [Next]_vars
      => DirectInvariant'
    BY DirectNext DEF GraphInvariant
<1>6. IInv /\ CollapseInvariant /\ DirectInvariant
          => (GepsAcross(prog) /\ ZeroOffsetsFlagged => DirectSolved)
    BY DirectAnswer DEF IInv
<1> QED
    BY <1>1, <1>2, <1>3, <1>4, <1>5, <1>6, PTL DEF Spec

-----------------------------------------------------------------------------
(* Copies that were asked for.                                             *)

(* The ends of c are merged or joined by a copy edge.                      *)
Joined(c) ==
    \/ repOf[c[1]] = repOf[c[2]]
    \/ CopyEdge(repOf[c[1]], repOf[c[2]]) \in edges

LEMMA ReTargetCopy ==
    ASSUME NEW s, NEW d, NEW r
    PROVE  ReTarget(CopyEdge(s, d), r) = CopyEdge(r[s], r[d])
<1> DEFINE g == CopyEdge(s, d)
<1>1. g.kind = "copy" /\ g.src = s /\ g.dst = d /\ g.off = 0
    BY DEF CopyEdge
<1>2. ReTarget(g, r) = [[g EXCEPT !.src = r[s]] EXCEPT !.dst = r[d]]
    BY <1>1 DEF ReTarget
<1>3. [g EXCEPT !.src = r[s]] = CopyEdge(r[s], d)
    BY DEF CopyEdge
<1>4. [CopyEdge(r[s], d) EXCEPT !.dst = r[d]] = CopyEdge(r[s], r[d])
    BY DEF CopyEdge
<1> QED
    BY <1>2, <1>3, <1>4

(* What is joined stays joined when its ends are merged.                   *)
LEMMA MergeJoined ==
    ASSUME TypeOK, NEW r \in [Node -> Node], NEW Q, MergeNodes(r, Q),
           NEW c \in Node \X Node, Joined(c)
    PROVE  Joined(c)'
<1> DEFINE g == CopyEdge(repOf[c[1]], repOf[c[2]])
<1>1. /\ repOf \in [Node -> Node]
      /\ repOf' = [n \in Node |-> r[repOf[n]]]
      /\ edges' = MoveEdges(edges, r)
    BY DEF TypeOK, TypeOKBase, MergeNodes, MergedRep
<1>2. repOf'[c[1]] = r[repOf[c[1]]] /\ repOf'[c[2]] = r[repOf[c[2]]]
    BY <1>1
<1>3. CASE g \in edges /\ ~ Removed(g, r)
    <2>1. ReTarget(g, r) \in edges'
        BY <1>1, <1>3 DEF MoveEdges
    <2>2. ReTarget(g, r) = CopyEdge(repOf'[c[1]], repOf'[c[2]])
        BY <1>2, ReTargetCopy
    <2> QED
        BY <2>1, <2>2 DEF Joined
<1>4. CASE g \in edges /\ Removed(g, r)
    BY <1>2, <1>4 DEF Removed, CopyEdge, Joined
<1>5. CASE repOf[c[1]] = repOf[c[2]]
    BY <1>2, <1>5 DEF Joined
<1> QED
    BY <1>3, <1>4, <1>5 DEF Joined

(* No step but normalizePointsTo takes a copy back, and that one only from *)
(* the redundant field nodes.                                              *)
LEMMA JoinedKept ==
    ASSUME TypeOK, [Next]_vars, NEW c \in Node \X Node, Joined(c),
           pc = "done" => c[1] \notin redundant /\ c[2] \notin redundant
    PROVE  Joined(c)'
<1>1. CASE SCCDetect
    <2>1. PICK r \in SCCReps(edges) : MergeNodes(r, pts)
        BY <1>1 DEF SCCDetect
    <2>2. r \in [Node -> Node]
        BY SCCRepsType DEF TypeOK, TypeOKBase
    <2> QED
        BY <2>1, <2>2, MergeJoined
<1>2. ASSUME UNCHANGED <<repOf, edges>> PROVE Joined(c)'
    BY <1>2 DEF Joined
<1>3. ASSUME NEW o, CollapseStep(o) PROVE Joined(c)'
    <2>1. o \in Obj /\ CollapseField(o)
        BY <1>3 DEF CollapseStep
    <2>2. CASE o[1] \in BlkOrConst
        BY <1>2, <2>1, <2>2 DEF CollapseField, graphVars
    <2>3. CASE o[1] \notin BlkOrConst
        BY <2>1, <2>3, CollapseParts, MergeJoined DEF CollapseField
    <2> QED
        BY <2>2, <2>3
<1>4. ASSUME NEW o \in pending, CollapseNodePts(o) PROVE Joined(c)'
    <2>1. CASE o[1] \in fi
        BY <1>2, <1>4, <2>1 DEF CollapseNodePts, baseVars, graphVars
    <2> QED
        BY <1>3, <1>4, <2>1, CollapseSteps
<1>5. ASSUME NEW o \in toCollapse, CollapseFields(o) PROVE Joined(c)'
    BY <1>3, <1>5, CollapseSteps
<1>6. ASSUME NEW d \in copies, HandleLoadStore(d) \/ ConnectParam(d) PROVE Joined(c)'
    <2>1. UNCHANGED repOf /\ edges \subseteq edges'
        BY <1>6 DEF HandleLoadStore, ConnectParam, AddCopyEdge
    <2> QED
        BY <2>1 DEF Joined
<1>7. CASE ProcessNode
    BY <1>2, <1>7 DEF ProcessNode, HandleCopyGep, baseVars, graphVars
<1>8. CASE Normalize
    <2>1. repOf'[c[1]] = repOf[c[1]] /\ repOf'[c[2]] = repOf[c[2]] /\ edges' = edges
        BY <1>8 DEF Normalize
    <2> QED
        BY <2>1 DEF Joined
<1>9. CASE \/ \E n \in wave : PopNode(n)
           \/ \E n \in worklist : PostProcessNode(n)
           \/ UpdateCallGraph
           \/ NextIteration
           \/ UNCHANGED vars
    <2>1. UNCHANGED <<repOf, edges>>
        BY <1>9 DEF PopNode, PostProcessNode, UpdateCallGraph, NextIteration,
                    vars, baseVars, graphVars
    <2> QED
        BY <1>2, <2>1
<1> QED
    BY <1>1, <1>4, <1>5, <1>6, <1>7, <1>8, <1>9 DEF Next

(* addCopyEdge joins the ends.                                             *)
LEMMA AddCopyJoins ==
    ASSUME NEW c, AddCopyEdge(c[1], c[2]), repOf' = repOf
    PROVE  Joined(c)'
BY DEF AddCopyEdge, NewCopy, Joined

-----------------------------------------------------------------------------
(* Indirect calls.                                                         *)

(* Arguments and results of the resolved calls are joined, or will be.     *)
ParamsJoined ==
    \A x \in calls : \A c \in ParamCopies(x[1], x[2]) :
        Joined(c) \/ (pc = "call" /\ c \in copies)

CalleesFound ==
    (pc = "call" /\ ~ reanalyze) \/ Solved =>
        Candidates = {} \/ Cardinality(calls) >= IndirectCallLimit

CallInvariant == ParamsJoined /\ CalleesFound

LEMMA CallInit == Init => CallInvariant
BY DEF Init, InitBase, CallInvariant, ParamsJoined, CalleesFound, Solved

LEMMA ParamNodes ==
    ASSUME TypeOK, NEW x \in prog.calls \X Fun, NEW c \in ParamCopies(x[1], x[2])
    PROVE  c \in Val \X Val /\ c \in Node \X Node
BY ParamCopiesType, ProgramTypes

LEMMA RedundantFieldsOnly ==
    ASSUME TypeOK
    PROVE  \A v \in Val : v \notin redundant
BY ProgramTypes DEF TypeOK, TypeOKBase

(* The candidates depend on the pointers' sets and the calls resolved.     *)
LEMMA CandidatesSame ==
    ASSUME TypeOK, UNCHANGED <<prog, calls, pts>>, \A v \in Val : repOf'[v] = repOf[v]
    PROVE  Candidates' = Candidates
<1>1. \A x \in prog.calls \X Fun : x[1].fp \in Val
    BY AndersenAssumption DEF TypeOK, TypeOKBase, CallSite
<1>2. \A x \in prog.calls \X Fun : GetPts(x[1].fp)' = GetPts(x[1].fp)
    BY <1>1 DEF GetPts
<1> QED
    BY <1>2 DEF Candidates, MatchArgs

(* The limit is reached when a call that is found is not resolved.         *)
LEMMA NoNewCalls ==
    ASSUME TypeOK, {} \in NewCalls
    PROVE  Candidates = {} \/ Cardinality(calls) >= IndirectCallLimit
<1>1. /\ IsFiniteSet(prog.calls) /\ IsFiniteSet(Fun) /\ calls \subseteq prog.calls \X Fun
      /\ IndirectCallLimit \in Nat
    BY AndersenAssumption DEF TypeOK, TypeOKBase
<1>2. IsFiniteSet(calls)
    BY <1>1, FS_Product, FS_Subset
<1>3. Cardinality(calls) \in Nat
    BY <1>2, FS_CardinalityType
<1>4. Cardinality({}) = 0
    BY FS_EmptySet
<1> QED
    BY <1>1, <1>3, <1>4 DEF NewCalls

(* Every step keeps the arguments and results of resolved calls joined.    *)
LEMMA ParamsNext ==
    ASSUME TypeOK, Phases, ParamsJoined, [Next]_vars
    PROVE  ParamsJoined'
<1>1. calls \subseteq prog.calls \X Fun
    BY DEF TypeOK, TypeOKBase
<1>2. ASSUME NEW x \in calls, NEW c \in ParamCopies(x[1], x[2]), Joined(c)
      PROVE  Joined(c)'
    BY <1>1, <1>2, ParamNodes, RedundantFieldsOnly, JoinedKept
<1>3. ASSUME NEW c \in copies, ConnectParam(c) PROVE ParamsJoined'
    <2>1. /\ calls' = calls /\ copies' = copies \ {c} /\ pc' = pc
          /\ AddCopyEdge(c[1], c[2]) /\ repOf' = repOf
        BY <1>3 DEF ConnectParam
    <2> QED
        BY <1>2, <2>1, AddCopyJoins DEF ParamsJoined
<1>4. CASE UpdateCallGraph
    <2>1. PICK new \in NewCalls :
            /\ calls' = calls \cup new
            /\ copies' = UNION {ParamCopies(x[1], x[2]) : x \in new}
        BY <1>4 DEF UpdateCallGraph
    <2>2. pc # "call" /\ pc' = "call"
        BY <1>4 DEF UpdateCallGraph, Post, Quiet
    <2> QED
        BY <1>2, <2>1, <2>2 DEF ParamsJoined
<1>5. CASE NextIteration
    <2>1. calls' = calls /\ copies = {}
        BY <1>5 DEF NextIteration
    <2> QED
        BY <1>2, <2>1 DEF ParamsJoined
<1>6. CASE UNCHANGED <<calls, copies, pc>>
    BY <1>2, <1>6 DEF ParamsJoined
<1>7. CASE pc # "call" /\ calls' = calls
    BY <1>2, <1>7 DEF ParamsJoined
<1>8. \/ pc # "call" /\ calls' = calls
      \/ UNCHANGED <<calls, copies, pc>>
      \/ UpdateCallGraph
      \/ NextIteration
      \/ \E c \in copies : ConnectParam(c)
    BY DEF Next, SCCDetect, PopNode, Quiet, CollapseNodePts, ProcessNode, HandleCopyGep,
           CollapseFields, PostProcessNode, Post, HandleLoadStore, Normalize, vars, baseVars
<1> QED
    BY <1>3, <1>4, <1>5, <1>6, <1>7, <1>8

(* Every step keeps the analysis going while a callee is missing.          *)
LEMMA CalleesNext ==
    ASSUME TypeOK, Phases, CalleesFound, [Next]_vars
    PROVE  CalleesFound'
<1>1. CASE UpdateCallGraph
    <2>1. PICK new \in NewCalls :
            /\ calls' = calls \cup new
            /\ reanalyze' = (reanalyze \/ new # {})
            /\ pts' = [n \in Node |-> pts[n] \cup
                        {DummyObj(c) : c \in {d \in NewHeapSites(new) : d.dummyVal = n}}]
        BY <1>1 DEF UpdateCallGraph
    <2>2. pc' = "call" /\ UNCHANGED <<prog, repOf>>
        BY <1>1 DEF UpdateCallGraph
    <2>3. CASE reanalyze'
        BY <2>2, <2>3 DEF CalleesFound, Solved
    <2>4. CASE ~ reanalyze'
        <3>1. new = {}
            BY <2>1, <2>4
        <3>2. NewHeapSites(new) = {}
            BY <3>1 DEF NewHeapSites
        <3>3. pts' = pts /\ calls' = calls
            BY <2>1, <3>1, <3>2 DEF TypeOK, TypeOKBase
        <3>4. Candidates' = Candidates
            BY <2>2, <3>3, CandidatesSame
        <3>5. Candidates = {} \/ Cardinality(calls) >= IndirectCallLimit
            BY <2>1, <3>1, NoNewCalls
        <3> QED
            BY <3>3, <3>4, <3>5 DEF CalleesFound
    <2> QED
        BY <2>3, <2>4
<1>2. ASSUME UNCHANGED <<prog, calls, pts>>, \A v \in Val : repOf'[v] = repOf[v],
             (pc' = "call" /\ ~ reanalyze') \/ Solved' => (pc = "call" /\ ~ reanalyze) \/ Solved
      PROVE  CalleesFound'
    BY <1>2, CandidatesSame DEF CalleesFound
<1>3. CASE NextIteration
    BY <1>2, <1>3 DEF NextIteration, Solved, graphVars
<1>4. CASE Normalize
    BY <1>2, <1>4, RedundantFieldsOnly, ProgramTypes DEF Normalize, Solved
<1>5. CASE UNCHANGED vars
    BY <1>2, <1>5 DEF vars, baseVars, graphVars, Solved
<1>6. ASSUME NEW c \in copies, ConnectParam(c) PROVE CalleesFound'
    BY <1>6 DEF ConnectParam, Phases, CalleesFound, Solved
<1>7. CASE pc' \notin {"call", "done", "final"}
    BY <1>7 DEF CalleesFound, Solved
<1>8. \/ pc' \notin {"call", "done", "final"}
      \/ UNCHANGED vars
      \/ NextIteration
      \/ Normalize
      \/ UpdateCallGraph
      \/ \E c \in copies : ConnectParam(c)
    BY DEF Next, SCCDetect, PopNode, Quiet, CollapseNodePts, ProcessNode, CollapseFields,
           PostProcessNode, HandleLoadStore
<1> QED
    BY <1>1, <1>3, <1>4, <1>5, <1>6, <1>7, <1>8

(* The sets along a copy that was made, when the fixpoint is reached.      *)
LEMMA JoinedSolved ==
    ASSUME TypeOK, DirectInvariant, GepsAcross(prog), Solved,
           NEW c \in Node \X Node, Joined(c)
    PROVE  GetPts(c[1]) \subseteq GetPts(c[2])
<1> DEFINE g == CopyEdge(repOf[c[1]], repOf[c[2]])
<1>1. Behind = Node /\ repOf[c[1]] \in Node
    BY DEF Solved, Behind, Working, TypeOK, TypeOKBase
<1>2. CASE g \in edges
    <2>1. g.kind = "copy" /\ g.src = repOf[c[1]] /\ g.dst = repOf[c[2]]
        BY DEF CopyEdge
    <2>2. \A o \in pts[g.src] : FlowOf(Collapsed, g, o) \in pts[g.dst]
        BY <1>1, <1>2, <2>1 DEF DirectInvariant, WaveInvariant, EdgesSolved, DirectKind
    <2> QED
        BY <2>1, <2>2 DEF FlowOf, GetPts
<1>3. CASE repOf[c[1]] = repOf[c[2]]
    BY <1>3 DEF GetPts
<1> QED
    BY <1>2, <1>3 DEF Joined

(* At the end joined means that the sets are contained.                    *)
LEMMA CallAnswer ==
    ASSUME TypeOK, DirectInvariant, CallInvariant, GepsAcross(prog)
    PROVE  CallsSolved
<1> SUFFICES ASSUME Solved PROVE CallsSolved
    BY DEF CallsSolved
<1>1. Candidates = {} \/ Cardinality(calls) >= IndirectCallLimit
    BY DEF CallInvariant, CalleesFound
<1>2. ASSUME NEW x \in calls, NEW c \in ParamCopies(x[1], x[2])
      PROVE  GetPts(c[1]) \subseteq GetPts(c[2])
    <2>1. x \in prog.calls \X Fun
        BY DEF TypeOK, TypeOKBase
    <2>2. c \in Node \X Node
        BY <2>1, ParamNodes
    <2>3. Joined(c)
        BY DEF CallInvariant, ParamsJoined, Solved
    <2> QED
        BY <2>2, <2>3, JoinedSolved
<1> QED
    BY <1>1, <1>2 DEF CallsSolved

(* CallsSolved, for every program without a gep into its own base: when    *)
(* solveConstraints ends no callee of an indirect call is missing, unless  *)
(* the limit is reached, and the sets of arguments and results flow along  *)
(* all the copies connectCaller2CalleeParams asks for.                     *)
THEOREM CallsAreSolved == Spec => [](GepsAcross(prog) => CallsSolved)
<1>1. Init => IInv /\ CollapseInvariant /\ GraphInvariant /\ DirectInvariant /\ CallInvariant
    BY InitKeeps, CollapseInit, GraphInit, DirectInit, CallInit
<1>2. IInv /\ [Next]_vars => IInv'
    BY NextKeeps
<1>3. IInv /\ CollapseInvariant /\ [Next]_vars => CollapseInvariant'
    BY CollapseNext DEF IInv
<1>4. IInv /\ GraphInvariant /\ [Next]_vars => GraphInvariant'
    BY GraphNext DEF IInv
<1>5. /\ IInv /\ CollapseInvariant /\ GraphInvariant /\ GraphInvariant'
      /\ DirectInvariant /\ [Next]_vars
      => DirectInvariant'
    BY DirectNext DEF GraphInvariant
<1>6. IInv /\ DirectInvariant /\ CallInvariant /\ [Next]_vars => CallInvariant'
    BY ParamsNext, CalleesNext DEF IInv, DirectInvariant, CallInvariant
<1>7. IInv /\ DirectInvariant /\ CallInvariant => (GepsAcross(prog) => CallsSolved)
    BY CallAnswer DEF IInv
<1> QED
    BY <1>1, <1>2, <1>3, <1>4, <1>5, <1>6, <1>7, PTL DEF Spec

-----------------------------------------------------------------------------
(* Loads and stores.                                                       *)

(* The pointer a load or store goes through, and the copy an object it     *)
(* points to asks for.                                                     *)
Accesses == {e \in prog.edges : e.kind \in {"load", "store"}}
Through(e) == IF e.kind = "load" THEN e.src ELSE e.dst
CopyFor(e, o) == IF e.kind = "load" THEN <<o, e.dst>> ELSE <<e.src, o>>

(* No pointer a load or store goes through is merged with another node.    *)
PointersUnmerged ==
    \A e \in Accesses : \A n \in Node : repOf[n] = repOf[Through(e)] => n = Through(e)

Requested(c) == \E d \in copies : repOf[d[1]] = repOf[c[1]] /\ repOf[d[2]] = repOf[c[2]]

(* A pointer that postProcessNode need not look at again has its copies.   *)
AccessesJoined ==
    \A e \in Accesses : Through(e) \notin worklist =>
        \A o \in pts[Through(e)] : o[1] \notin ConstObj =>
            Joined(CopyFor(e, o)) \/ Requested(CopyFor(e, o))

LEMMA AccessTypes ==
    ASSUME TypeOK, NEW e \in Accesses
    PROVE  /\ e \in prog.edges /\ e \in Edge
           /\ Through(e) \in Val /\ Through(e) \in Node
           /\ \A o \in Obj : CopyFor(e, o) \in Node \X Node
           /\ \A o \in Obj : o \notin redundant =>
                  CopyFor(e, o)[1] \notin redundant /\ CopyFor(e, o)[2] \notin redundant
<1>1. /\ e \in prog.edges /\ e \in Edge /\ e.src \in Val /\ e.dst \in Val
      /\ Val \subseteq Node /\ Obj \subseteq Node
    BY ProgramTypes DEF Accesses
<1>2. e.src \notin redundant /\ e.dst \notin redundant
    BY <1>1, RedundantFieldsOnly
<1> QED
    BY <1>1, <1>2 DEF Through, CopyFor

(* The pointer of a load or store represents itself and is in the graph.   *)
LEMMA AccessInGraph ==
    ASSUME TypeOK, RepsStable, RepsInGraph, ProgramKept, PointersUnmerged, pc # "final",
           NEW e \in Accesses
    PROVE  /\ repOf[Through(e)] = Through(e)
           /\ Through(e) \in nodes
           /\ ReTarget(e, repOf) \in edges
<1>1. /\ e \in prog.edges /\ e \in Edge /\ Through(e) \in Node /\ e.kind \in {"load", "store"}
      /\ repOf \in [Node -> Node]
    BY AccessTypes DEF Accesses, TypeOK, TypeOKBase
<1>2. repOf[Through(e)] = Through(e)
    BY <1>1 DEF RepsStable, PointersUnmerged
<1>3. ~ Inside(e)
    BY <1>1 DEF Inside, DirectKind
<1>4. ReTarget(e, repOf) \in edges
    BY <1>1, <1>3 DEF ProgramKept, StatementsKept
<1>5. Through(e) \in {ReTarget(e, repOf).src, ReTarget(e, repOf).dst}
    BY <1>1, <1>2 DEF ReTarget, Edge, Through
<1>6. Through(e) \in nodes
    BY <1>4, <1>5 DEF RepsInGraph
<1> QED
    BY <1>2, <1>4, <1>6

LEMMA AccessInit == Init => AccessesJoined
<1> SUFFICES ASSUME Init, NEW e \in Accesses, Through(e) \notin worklist,
                    NEW o \in pts[Through(e)]
             PROVE  FALSE
    BY DEF AccessesJoined
<1>1. Through(e) \in Node
    BY InitType, AccessTypes
<1>2. /\ pts = [n \in Node |-> {a[1] : a \in {x \in prog.addr : x[2] = n}}]
      /\ worklist = {a[2] : a \in prog.addr}
    BY DEF Init, InitBase
<1> QED
    BY <1>1, <1>2

(* What is joined stays joined when no set and no list grows.              *)
LEMMA AccessesStay ==
    ASSUME TypeOK, CollapseInvariant, AccessesJoined, [Next]_vars, prog' = prog,
           \A e \in Accesses : Through(e) \notin worklist' =>
               /\ pts'[Through(e)] \subseteq pts[Through(e)]
               /\ Through(e) \notin worklist,
           \A c \in Node \X Node : Requested(c) => Requested(c)' \/ Joined(c)'
    PROVE  AccessesJoined'
<1> SUFFICES ASSUME NEW e \in Accesses, Through(e) \notin worklist',
                    NEW o \in pts'[Through(e)], o[1] \notin ConstObj
             PROVE  Joined(CopyFor(e, o))' \/ Requested(CopyFor(e, o))'
    BY DEF AccessesJoined, Accesses
<1>1. /\ Through(e) \in Node /\ o \in pts[Through(e)] /\ o \in Obj
      /\ CopyFor(e, o) \in Node \X Node
    BY AccessTypes DEF TypeOK, TypeOKBase
<1>2. pc = "done" => o \notin redundant
    BY <1>1 DEF CollapseInvariant
<1>3. pc = "done" => CopyFor(e, o)[1] \notin redundant /\ CopyFor(e, o)[2] \notin redundant
    BY <1>1, <1>2, AccessTypes
<1>4. Joined(CopyFor(e, o)) \/ Requested(CopyFor(e, o))
    BY <1>1 DEF AccessesJoined
<1> QED
    BY <1>1, <1>3, <1>4, JoinedKept

(* A merge that leaves the pointers alone leaves their sets as they were.  *)
LEMMA MergeAlone ==
    ASSUME TypeOK, RepsStable, RepsStable', PointersUnmerged, PointersUnmerged', prog' = prog,
           pc # "final", pc' # "final",
           NEW r \in [Node -> Node], NEW Q \in [Node -> SUBSET Obj], MergeNodes(r, Q),
           \A n \in Node : r[n] # n => repOf[n] = n,
           NEW e \in Accesses
    PROVE  pts'[Through(e)] = Q[Through(e)]
<1> DEFINE p == Through(e)
<1>1. /\ p \in Node /\ repOf \in [Node -> Node]
      /\ repOf' = [n \in Node |-> r[repOf[n]]]
      /\ pts' = [n \in Node |-> Q[n] \cup UNION {Q[m] : m \in {x \in Node : r[x] = n}}]
    BY AccessTypes DEF TypeOK, TypeOKBase, MergeNodes, MergedRep
<1>2. \A n \in Node : (repOf[n] = repOf[p] => n = p) /\ (repOf'[n] = repOf'[p] => n = p)
    BY DEF PointersUnmerged, Accesses
<1>3. repOf[p] = p /\ repOf'[p] = p
    <2>1. repOf[repOf[p]] = repOf[p] /\ repOf'[repOf'[p]] = repOf'[p]
        BY <1>1 DEF RepsStable
    <2>2. repOf[p] \in Node /\ repOf'[p] \in Node
        BY <1>1
    <2> HIDE DEF p
    <2> QED
        BY <1>2, <2>1, <2>2
<1> HIDE DEF p
<1>4. ASSUME NEW m \in Node, r[m] = p PROVE m = p
    <2>1. CASE repOf[m] = m
        <3>1. repOf'[m] = p
            BY <1>1, <1>4, <2>1
        <3> QED
            BY <1>2, <1>3, <3>1
    <2>2. CASE repOf[m] # m
        BY <1>4, <2>2
    <2> QED
        BY <2>1, <2>2
<1>5. UNION {Q[m] : m \in {x \in Node : r[x] = p}} \subseteq Q[p]
    BY <1>4
<1>6. pts'[p] = Q[p]
    BY <1>1, <1>5
<1> QED
    BY <1>6 DEF p

(* postProcessNode: what the node's loads and stores need is on its way.   *)
LEMMA PostProcessAccesses ==
    ASSUME TypeOK, RepsStable, RepsInGraph, ProgramKept, Phases, PointersUnmerged,
           AccessesJoined, NEW n \in worklist, PostProcessNode(n)
    PROVE  AccessesJoined'
<1>1. /\ worklist' = worklist \ {n} /\ copies = {} /\ pc # "final"
      /\ copies' = LoadCopies(repOf[n]) \cup StoreCopies(repOf[n])
      /\ UNCHANGED <<prog, edges, repOf, pts>>
    BY DEF PostProcessNode, Post, Quiet, Phases, graphVars
<1> SUFFICES ASSUME NEW e \in Accesses, Through(e) \notin worklist',
                    NEW o \in pts[Through(e)], o[1] \notin ConstObj
             PROVE  Joined(CopyFor(e, o)) \/ Requested(CopyFor(e, o))'
    BY <1>1 DEF AccessesJoined, Accesses, Joined
<1>2. CASE Through(e) # n
    <2>1. Through(e) \notin worklist
        BY <1>1, <1>2
    <2>2. ~ Requested(CopyFor(e, o))
        BY <1>1 DEF Requested
    <2> QED
        BY <2>1, <2>2 DEF AccessesJoined
<1>3. CASE Through(e) = n
    <2> DEFINE g == ReTarget(e, repOf)
    <2>1. /\ e \in Edge /\ n \in Node /\ e.kind \in {"load", "store"}
          /\ e.src \in Node /\ e.dst \in Node /\ repOf \in [Node -> Node]
        BY <1>3, AccessTypes DEF Accesses, TypeOK, TypeOKBase, Edge
    <2>2. repOf[n] = n /\ g \in edges
        BY <1>1, <1>3, AccessInGraph
    <2>3. g.kind = e.kind /\ g.src = repOf[e.src] /\ g.dst = repOf[e.dst]
        BY <2>1 DEF ReTarget, Edge
    <2> HIDE DEF g
    <2>4. CASE e.kind = "load"
        <3>1. e.src = n
            BY <1>3, <2>4 DEF Through
        <3>2. <<o, g.dst>> \in copies'
            BY <1>1, <1>3, <2>2, <2>3, <2>4, <3>1 DEF LoadCopies
        <3>3. repOf'[g.dst] = repOf'[e.dst]
            BY <1>1, <2>1, <2>3 DEF RepsStable
        <3> QED
            BY <2>4, <3>2, <3>3 DEF Requested, CopyFor
    <2>5. CASE e.kind = "store"
        <3>1. e.dst = n
            BY <1>3, <2>5 DEF Through
        <3>2. <<g.src, o>> \in copies'
            BY <1>1, <1>3, <2>2, <2>3, <2>5, <3>1 DEF StoreCopies
        <3>3. repOf'[g.src] = repOf'[e.src]
            BY <1>1, <2>1, <2>3 DEF RepsStable
        <3> QED
            BY <2>5, <3>2, <3>3 DEF Requested, CopyFor
    <2> QED
        BY <2>1, <2>4, <2>5
<1> QED
    BY <1>2, <1>3

(* Every step keeps the copies of a pointer that is off the worklist       *)
(* joined.                                                                 *)
LEMMA AccessNext ==
    ASSUME TypeOK, RepsStable, RepsStable', CollapseInvariant, RepsInGraph, ProgramKept,
           Phases, Phases', PointersUnmerged, PointersUnmerged', AccessesJoined, [Next]_vars
    PROVE  AccessesJoined'
<1>0. pts \in [Node -> SUBSET Obj] /\ worklist \subseteq Node /\ repOf \in [Node -> Node]
    BY DEF TypeOK, TypeOKBase
<1>1. CASE SCCDetect
    <2>1. PICK r \in SCCReps(edges) : MergeNodes(r, pts)
        BY <1>1 DEF SCCDetect
    <2>2. edges \subseteq Edge
        BY DEF TypeOK, TypeOKBase
    <2>3. /\ r \in [Node -> Node]
          /\ \A n \in Node : r[n] = n \/ \E e \in edges : n \in {e.src, e.dst}
        BY <2>2, SCCRepsType
    <2>4. /\ pc = "scc" /\ pc' = "wave" /\ UNCHANGED <<prog, worklist, copies>> /\ copies = {}
        BY <1>1 DEF SCCDetect, Phases
    <2>5. \A n \in Node : r[n] # n => repOf[n] = n
        BY <2>3, <2>4 DEF RepsStable
    <2>6. \A e \in Accesses : pts'[Through(e)] = pts[Through(e)]
        BY <1>0, <2>1, <2>3, <2>4, <2>5, MergeAlone
    <2>7. \A c \in Node \X Node : ~ Requested(c)
        BY <2>4 DEF Requested
    <2> QED
        BY <2>4, <2>6, <2>7, AccessesStay
<1>2. ASSUME UNCHANGED <<prog, repOf, pts, worklist, copies>> PROVE AccessesJoined'
    <2>1. \A c : Requested(c)' <=> Requested(c)
        BY <1>2 DEF Requested
    <2> QED
        BY <1>2, <2>1, AccessesStay
<1>3. ASSUME NEW o, CollapseStep(o) PROVE AccessesJoined'
    <2>1. /\ o \in Obj /\ CollapseField(o) /\ prog' = prog /\ copies' = copies /\ copies = {}
          /\ pc # "final" /\ pc' # "final"
        BY <1>3 DEF CollapseStep, Phases
    <2>2. CASE o[1] \in BlkOrConst
        BY <1>2, <2>1, <2>2 DEF CollapseField, graphVars
    <2>3. CASE o[1] \notin BlkOrConst
        <3> DEFINE r == CollapsedRep(o)
                   Q == CollapsedPts(o)
        <3>1. /\ MergeNodes(r, Q)
              /\ r \in [Node -> Node]
              /\ Q \in [Node -> SUBSET Obj]
              /\ worklist' = worklist \cup {repOf[n] : n \in Hit(o)}
            BY <2>1, <2>3, CollapseParts DEF CollapseField
        <3>2. \A n \in Node : r[n] # n => repOf[n] = n
            <4>1. \A f \in FieldNodes(o) : f \in Node
                BY <2>1, CollapseParts, FieldObjType DEF Node
            <4> QED
                BY <2>1, <4>1 DEF CollapsedRep, RepsStable
        <3>3. ASSUME NEW e \in Accesses, Through(e) \notin worklist'
              PROVE  pts'[Through(e)] = pts[Through(e)] /\ Through(e) \notin worklist
            <4>1. pts'[Through(e)] = Q[Through(e)]
                <5> HIDE DEF r, Q
                <5> QED
                    BY <2>1, <3>1, <3>2, MergeAlone
            <4>2. Through(e) \in Node /\ repOf[Through(e)] = Through(e)
                BY <2>1, AccessTypes, AccessInGraph
            <4>3. Through(e) \notin Hit(o)
                BY <3>1, <3>3, <4>2
            <4> QED
                BY <3>1, <3>3, <4>1, <4>2, <4>3 DEF CollapsedPts
        <3>4. \A c \in Node \X Node : ~ Requested(c)
            BY <2>1 DEF Requested
        <3> QED
            BY <2>1, <3>3, <3>4, AccessesStay
    <2> QED
        BY <2>2, <2>3
<1>4. ASSUME NEW o \in pending, CollapseNodePts(o) PROVE AccessesJoined'
    <2>1. CASE o[1] \in fi
        BY <1>2, <1>4, <2>1 DEF CollapseNodePts, baseVars, graphVars
    <2> QED
        BY <1>3, <1>4, <2>1, CollapseSteps
<1>5. ASSUME NEW o \in toCollapse, CollapseFields(o) PROVE AccessesJoined'
    BY <1>3, <1>5, CollapseSteps
<1>6. CASE ProcessNode
    <2>1. PICK n \in cur : HandleCopyGep(n) \/ UNCHANGED baseVars
        BY <1>6 DEF ProcessNode
    <2>2. copies' = copies /\ copies = {} /\ pc # "final"
        BY <1>6 DEF ProcessNode, Phases
    <2>3. CASE UNCHANGED baseVars
        BY <1>2, <2>2, <2>3 DEF baseVars, graphVars
    <2>4. CASE HandleCopyGep(n)
        <3> DEFINE gained(m) == UNION {Flow(e, Diff(n)) :
                e \in {x \in {e \in edges : e.kind \in DirectKind /\ e.src = n} : repOf[x.dst] = m}}
        <3>1. /\ pts' = [m \in Node |-> pts[m] \cup gained(m)]
              /\ worklist' = worklist \cup {m \in nodes : ~ gained(m) \subseteq pts[m]}
              /\ prog' = prog
            BY <2>4 DEF HandleCopyGep
        <3> HIDE DEF gained
        <3>2. ASSUME NEW e \in Accesses, Through(e) \notin worklist'
              PROVE  pts'[Through(e)] \subseteq pts[Through(e)] /\ Through(e) \notin worklist
            <4>1. Through(e) \in Node /\ Through(e) \in nodes
                BY <2>2, AccessTypes, AccessInGraph
            <4> QED
                BY <3>1, <3>2, <4>1
        <3>3. \A c \in Node \X Node : ~ Requested(c)
            BY <2>2 DEF Requested
        <3> QED
            BY <3>1, <3>2, <3>3, AccessesStay
    <2> QED
        BY <2>1, <2>3, <2>4
<1>7. ASSUME NEW n \in worklist, PostProcessNode(n) PROVE AccessesJoined'
    BY <1>7, PostProcessAccesses
<1>8. ASSUME NEW c \in copies, HandleLoadStore(c) \/ ConnectParam(c) PROVE AccessesJoined'
    <2>1. /\ copies' = copies \ {c} /\ AddCopyEdge(c[1], c[2]) /\ UNCHANGED <<prog, repOf, pts>>
          /\ worklist \subseteq worklist'
        BY <1>8 DEF HandleLoadStore, ConnectParam
    <2>2. Joined(c)'
        BY <2>1, AddCopyJoins
    <2>3. ASSUME NEW d \in Node \X Node, Requested(d) PROVE Requested(d)' \/ Joined(d)'
        <3>1. PICK h \in copies : repOf[h[1]] = repOf[d[1]] /\ repOf[h[2]] = repOf[d[2]]
            BY <2>3 DEF Requested
        <3>2. CASE h = c
            BY <2>1, <2>2, <3>1, <3>2 DEF Joined
        <3>3. CASE h # c
            BY <2>1, <3>1, <3>3 DEF Requested
        <3> QED
            BY <3>2, <3>3
    <2> QED
        BY <2>1, <2>3, AccessesStay
<1>9. CASE UpdateCallGraph
    <2>1. /\ copies = {} /\ UNCHANGED <<prog, worklist>>
        BY <1>9 DEF UpdateCallGraph, Post, Quiet, Phases
    <2>2. PICK new \in NewCalls :
            pts' = [n \in Node |-> pts[n] \cup
                        {DummyObj(c) : c \in {d \in NewHeapSites(new) : d.dummyVal = n}}]
        BY <1>9 DEF UpdateCallGraph
    <2>3. ASSUME NEW e \in Accesses PROVE pts'[Through(e)] = pts[Through(e)]
        <3>1. Through(e) \in Node /\ Through(e) \in ProgramNodes(prog)
            BY AccessTypes, ProgramNodesHave DEF Through
        <3>2. \A c \in prog.calls : c.dummyVal # Through(e)
            BY <3>1, ProgramsAssumption DEF HeapNodesNew, HeapNodes, TypeOK, TypeOKBase
        <3> QED
            BY <2>2, <3>1, <3>2 DEF NewHeapSites
    <2>4. \A c \in Node \X Node : ~ Requested(c)
        BY <2>1 DEF Requested
    <2> QED
        BY <2>1, <2>3, <2>4, AccessesStay
<1>10. CASE Normalize
    <2>1. copies = {} /\ UNCHANGED <<prog, pts, worklist>>
        BY <1>10 DEF Normalize, Phases
    <2>2. \A c \in Node \X Node : ~ Requested(c)
        BY <2>1 DEF Requested
    <2> QED
        BY <2>1, <2>2, AccessesStay
<1>11. CASE (\E n \in wave : PopNode(n)) \/ NextIteration \/ UNCHANGED vars
    BY <1>2, <1>11 DEF PopNode, NextIteration, vars, baseVars, graphVars
<1> QED
    BY <1>1, <1>4, <1>5, <1>6, <1>7, <1>8, <1>9, <1>10, <1>11 DEF Next

(* At the end the worklist is empty, and joined means contained.           *)
LEMMA AccessAnswer ==
    ASSUME TypeOK, Phases, DirectInvariant, GepsAcross(prog), AccessesJoined,
           \A e \in Accesses : repOf[Through(e)] = Through(e)
    PROVE  AccessesSolved
<1> SUFFICES ASSUME Solved PROVE AccessesSolved
    BY DEF AccessesSolved, LoadSolved
<1>1. worklist = {} /\ copies = {}
    BY DEF Solved, Phases
<1>2. ASSUME NEW e \in Accesses, NEW o \in GetPts(Through(e)), o[1] \notin ConstObj
      PROVE  GetPts(CopyFor(e, o)[1]) \subseteq GetPts(CopyFor(e, o)[2])
    <2>1. o \in pts[Through(e)] /\ o \in Obj /\ CopyFor(e, o) \in Node \X Node
        BY <1>2, AccessTypes DEF GetPts, TypeOK, TypeOKBase
    <2>2. Joined(CopyFor(e, o))
        BY <1>1, <1>2, <2>1 DEF AccessesJoined, Requested
    <2> QED
        BY <2>1, <2>2, JoinedSolved
<1>3. ASSUME NEW e \in prog.edges, e.kind = "load", NEW o \in GetPts(e.src), o[1] \notin ConstObj
      PROVE  GetPts(o) \subseteq GetPts(e.dst)
    <2>1. e \in Accesses /\ Through(e) = e.src /\ CopyFor(e, o) = <<o, e.dst>>
        BY <1>3 DEF Accesses, Through, CopyFor
    <2> QED
        BY <1>2, <1>3, <2>1
<1>4. ASSUME NEW e \in prog.edges, e.kind = "store", NEW o \in GetPts(e.dst), o[1] \notin ConstObj
      PROVE  GetPts(e.src) \subseteq GetPts(o)
    <2>1. e \in Accesses /\ Through(e) = e.dst /\ CopyFor(e, o) = <<e.src, o>>
        BY <1>4 DEF Accesses, Through, CopyFor
    <2> QED
        BY <1>2, <1>4, <2>1
<1> QED
    BY <1>3, <1>4 DEF AccessesSolved, LoadSolved

(* Such a pointer is its own representative, at the end too.               *)
AccessReps == \A e \in Accesses : repOf[Through(e)] = Through(e)

(* Such a pointer is never merged, and normalizePointsTo leaves it alone.  *)
LEMMA AccessRepsNext ==
    ASSUME TypeOK, RepsStable', Phases, Phases', PointersUnmerged', TypeOK', AccessReps, [Next]_vars
    PROVE  AccessReps'
<1>0. prog' = prog
    BY DEF Next, SCCDetect, PopNode, CollapseNodePts, ProcessNode, HandleCopyGep,
           CollapseFields, PostProcessNode, HandleLoadStore, ConnectParam, UpdateCallGraph,
           NextIteration, Normalize, vars, baseVars
<1> SUFFICES ASSUME NEW e \in Accesses PROVE repOf'[Through(e)] = Through(e)
    BY <1>0 DEF AccessReps, Accesses
<1>1. /\ Through(e) \in Node /\ repOf' \in [Node -> Node]
      /\ \A n \in Node : repOf'[n] = repOf'[Through(e)] => n = Through(e)
    BY <1>0, AccessTypes DEF TypeOK, TypeOKBase, PointersUnmerged, Accesses
<1>2. CASE pc' # "final"
    BY <1>1, <1>2 DEF RepsStable
<1>3. CASE pc' = "final"
    <2>1. Normalize \/ UNCHANGED vars
        BY <1>3 DEF Phases, Next, SCCDetect, PopNode, CollapseNodePts, ProcessNode,
               HandleCopyGep, CollapseFields, PostProcessNode, HandleLoadStore, ConnectParam,
               UpdateCallGraph, NextIteration
    <2>2. repOf[Through(e)] = Through(e)
        BY DEF AccessReps
    <2> QED
        BY <1>1, <2>1, <2>2 DEF Normalize, vars, baseVars, graphVars
<1> QED
    BY <1>2, <1>3

(* AccessesSolved, for every program without a gep into its own base and   *)
(* every run that merges no dereferenced pointer with another node: when   *)
(* solveConstraints ends, each object a load or store can reach has passed *)
(* its set on, or taken the stored one.  mergeSrcToTgt needs the premise:  *)
(* a representative that takes over the loads of a merged node is not put  *)
(* on the worklist, and postProcessNode may never look at them again.      *)
THEOREM AccessesAreSolved ==
    Spec /\ []PointersUnmerged => [](GepsAcross(prog) => AccessesSolved)
<1>1. Init => /\ IInv /\ CollapseInvariant /\ GraphInvariant /\ DirectInvariant
              /\ AccessesJoined
    BY InitKeeps, CollapseInit, GraphInit, DirectInit, AccessInit
<1>2. Init => AccessReps
    <2> SUFFICES ASSUME Init, NEW e \in Accesses PROVE repOf[Through(e)] = Through(e)
        BY DEF AccessReps
    <2> QED
        BY InitType, AccessTypes DEF Init, InitBase
<1>3. IInv /\ [Next]_vars => IInv'
    BY NextKeeps
<1>4. IInv /\ CollapseInvariant /\ [Next]_vars => CollapseInvariant'
    BY CollapseNext DEF IInv
<1>5. IInv /\ GraphInvariant /\ [Next]_vars => GraphInvariant'
    BY GraphNext DEF IInv
<1>6. /\ IInv /\ CollapseInvariant /\ GraphInvariant /\ GraphInvariant'
      /\ DirectInvariant /\ [Next]_vars
      => DirectInvariant'
    BY DirectNext DEF GraphInvariant
<1>7. /\ IInv /\ IInv' /\ CollapseInvariant /\ GraphInvariant
      /\ DirectInvariant /\ DirectInvariant'
      /\ PointersUnmerged /\ PointersUnmerged' /\ AccessesJoined /\ [Next]_vars
      => AccessesJoined'
    BY AccessNext DEF IInv, GraphInvariant, DirectInvariant
<1>8. /\ IInv /\ IInv' /\ DirectInvariant /\ DirectInvariant'
      /\ PointersUnmerged' /\ AccessReps /\ [Next]_vars
      => AccessReps'
    BY AccessRepsNext DEF IInv, DirectInvariant
<1>9. IInv /\ DirectInvariant /\ AccessesJoined /\ AccessReps
          => (GepsAcross(prog) => AccessesSolved)
    BY AccessAnswer DEF IInv, AccessReps, DirectInvariant
<1> QED
    BY <1>1, <1>2, <1>3, <1>4, <1>5, <1>6, <1>7, <1>8, <1>9, PTL DEF Spec
=============================================================================
