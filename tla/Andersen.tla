------------------------------ MODULE Andersen ------------------------------
(***************************************************************************)
(* The state and the operations that the inclusion-based solvers share     *)
(* (class Andersen): points-to sets with difference propagation, the       *)
(* constraint graph whose nodes are merged while it is solved, the memory  *)
(* objects that lose their field sensitivity on the way and the indirect   *)
(* calls that are resolved on the fly.  A solver module says in which      *)
(* order the operations run.                                               *)
(***************************************************************************)
EXTENDS ConstraintGraph

CONSTANTS
    Fun,               \* the objects that are functions
    FunInfo,           \* their signature: [params, ret, vararg, alloc]
    NoVal,             \* "has no return value", "has no vararg node"
    IndirectCallLimit, \* Options::IndirectCallLimit
    Programs           \* the inputs: [addr, edges, calls, fi, fields]

Signature == [params : Seq(Val), ret : Val \cup {NoVal},
              vararg : Val \cup {NoVal}, alloc : BOOLEAN]

(* An indirect call site: the function pointer, the actuals, the result,   *)
(* and the dummy value and object it gets if it may call an allocator.     *)
CallSite == [fp : Val, args : Seq(Val), ret : Val \cup {NoVal},
             dummyVal : Val, dummyObj : Base]

ASSUME AndersenAssumption ==
    /\ Fun \subseteq Base
    /\ IsFiniteSet(Fun)
    /\ FunInfo \in [Fun -> Signature]
    /\ NoVal \notin Val
    /\ Val \cap Obj = {}
    /\ IndirectCallLimit \in Nat
    /\ \A p \in Programs :
        /\ p.addr \subseteq Obj \X Val
        /\ p.edges \subseteq Edge
        /\ p.calls \subseteq CallSite
        /\ IsFiniteSet(p.calls)
        /\ p.fi \subseteq Base
        /\ p.fields \subseteq FieldObj

VARIABLES
    prog,       \* the program being analysed, constant after Init
    nodes,      \* nodes of the constraint graph
    edges,      \* its edges, between representatives
    repOf,      \* nodeToRepMap
    pwc,        \* nodes whose isPWCNode flag is set
    pts,        \* points-to sets
    propa,      \* the part of pts already propagated (propaPtsMap)
    fi,         \* field-insensitive objects
    fields,     \* field nodes created so far (memToFieldsMap)
    redundant,  \* redundantGepNodes
    toCollapse, \* nodesToBeCollapsed
    worklist,   \* WPASolver::worklist
    calls,      \* resolved indirect calls (getIndCallMap)
    reanalyze   \* WPASolver::reanalyze

graphVars == <<nodes, edges, repOf, pwc>>
memVars   == <<fi, fields, redundant, toCollapse>>
baseVars  == <<prog, graphVars, pts, propa, memVars, worklist, calls, reanalyze>>

TypeOKBase ==
    /\ prog \in Programs
    /\ nodes \subseteq Node
    /\ edges \subseteq Edge
    /\ repOf \in [Node -> Node]
    /\ pwc \subseteq Node
    /\ pts \in [Node -> SUBSET Obj]
    /\ propa \in [Node -> SUBSET Obj]
    /\ fi \subseteq Base
    /\ fields \subseteq FieldObj
    /\ redundant \subseteq Obj
    /\ toCollapse \subseteq Obj
    /\ worklist \subseteq Node
    /\ calls \subseteq prog.calls \X Fun
    /\ reanalyze \in BOOLEAN

GetPts(n) == pts[repOf[n]]

CallSiteVals(c) ==
    ({c.fp, c.ret} \cup {c.args[i] : i \in DOMAIN c.args}) \ {NoVal}

FunVals(f) ==
    LET F == FunInfo[f]
    IN  ({F.ret, F.vararg} \cup {F.params[i] : i \in DOMAIN F.params}) \ {NoVal}

(* Nodes of a program: every variable and object a statement mentions. *)
ProgramNodes(p) ==
    UNION ({{a[1], a[2], FIObjVar(a[1])} : a \in p.addr}
           \cup {{e.src, e.dst} : e \in p.edges}
           \cup {CallSiteVals(c) : c \in p.calls}
           \cup {FunVals(f) : f \in {g \in Fun : \E a \in p.addr : a[1][1] = g}}
           \cup {{o, FIObjVar(o)} : o \in p.fields})

(* buildCG followed by processAllAddr. *)
InitBase ==
    /\ prog \in Programs
    /\ nodes = ProgramNodes(prog)
    /\ edges = {e \in prog.edges : e.kind = "copy" => e.src # e.dst}
    /\ repOf = [n \in Node |-> n]
    /\ pwc = {}
    /\ pts = [n \in Node |-> {a[1] : a \in {x \in prog.addr : x[2] = n}}]
    /\ propa = [n \in Node |-> {}]
    /\ fi = prog.fi
    /\ fields = prog.fields
    /\ redundant = {}
    /\ toCollapse = {}
    /\ worklist = {a[2] : a \in prog.addr}
    /\ calls = {}
    /\ reanalyze = FALSE

-----------------------------------------------------------------------------
(* Merging: mergeSrcToTgt and mergeNodeToRep for every node that r moves,  *)
(* starting from the points-to sets P.  The sets of a merged node stay     *)
(* where they are, but getPts no longer reaches them.                      *)

(* Variant: the nodes merged earlier keep their old representative. *)
MergedRepOne(r) == [n \in Node |-> IF n \in nodes THEN r[n] ELSE repOf[n]]

(* updateNodeRepAndSubs *)
MergedRep(r) == [n \in Node |-> r[repOf[n]]]

(* updatePropaPts: only what all of them have propagated. *)
MergedPropa(r) ==
    [n \in Node |-> {o \in propa[n] : \A m \in Node : r[m] = n => o \in propa[m]}]

MergeNodes(r, P) ==
    /\ nodes' = {r[n] : n \in nodes}
    /\ edges' = MoveEdges(edges, r)
    /\ repOf' = MergedRep(r)
    /\ pwc' = {r[n] : n \in pwc} \cup GepInside(edges, r)
    /\ pts' = [n \in Node |-> P[n] \cup UNION {P[m] : m \in {x \in Node : r[x] = n}}]
    /\ propa' = MergedPropa(r)

-----------------------------------------------------------------------------
(* handleCopyGep: propagate what is new in pts along copy and gep edges.   *)
Diff(n) == pts[n] \ propa[n]

GepPts(e, S) ==
    IF e.kind = "vgep"
    THEN {IF o[1] \in BlkOrConst THEN o ELSE FIObjVar(o) : o \in S}
    ELSE {IF o[1] \in BlkOrConst \cup fi THEN o ELSE GetGepObjVar(fi, o, e.off) :
          o \in S}

Flow(e, S) == IF e.kind = "copy" THEN S ELSE GepPts(e, S)

HandleCopyGep(n) ==
    LET diff == Diff(n)
        out == {e \in edges : e.kind \in DirectKind /\ e.src = n}
        gained(m) == UNION {Flow(e, diff) : e \in {x \in out : repOf[x.dst] = m}}
        variant == IF \E e \in out : e.kind = "vgep"
                   THEN {o \in diff : o[1] \notin BlkOrConst \cup fi} ELSE {}
        created == UNION {GepPts(e, {o \in diff : o[1] \notin BlkOrConst \cup fi}) :
                          e \in {x \in out : x.kind = "ngep"}}
    IN  /\ propa' = [propa EXCEPT ![n] = pts[n]]
        /\ pts' = [m \in Node |-> pts[m] \cup gained(m)]
        /\ worklist' = worklist \cup {m \in nodes : ~ gained(m) \subseteq pts[m]}
        /\ fi' = fi \cup {o[1] : o \in variant}
        /\ toCollapse' = toCollapse \cup {FIObjVar(o) : o \in variant}
        /\ fields' = fields \cup {o \in created : o[2] # WholeObj}
        /\ nodes' = nodes \cup (created \ {o \in Node : repOf[o] # o})
        /\ UNCHANGED <<prog, edges, repOf, pwc, redundant, calls, reanalyze>>

-----------------------------------------------------------------------------
(* collapseField: the object of o becomes field-insensitive, its base node *)
(* replaces its field nodes in every points-to set, and their graph nodes  *)
(* are merged into the one of the base.                                    *)
FieldNodes(o) == {f \in fields : f[1] = o[1]}

(* Variant: the pointers to the base node instead of those to its fields. *)
HitBase(o) == {n \in Node : FIObjVar(o) \in pts[n]}

Hit(o) == {n \in Node : pts[n] \cap FieldNodes(o) # {}}

(* Variant: the field nodes are cleared, the base node is not added. *)
CollapsedPtsDrop(o) == [n \in Node |-> pts[n] \ FieldNodes(o)]

CollapsedPts(o) ==
    [n \in Node |-> IF n \in Hit(o) THEN (pts[n] \ FieldNodes(o)) \cup {FIObjVar(o)}
                    ELSE pts[n]]

CollapsedRep(o) ==
    [n \in Node |-> IF \E f \in FieldNodes(o) : n = repOf[f] THEN repOf[FIObjVar(o)] ELSE n]

(* A field node that represents the base stays. *)
RedundantFields(o) == {f \in FieldNodes(o) : f # repOf[FIObjVar(o)]}

CollapseField(o) ==
    IF o[1] \in BlkOrConst
    THEN UNCHANGED <<graphVars, pts, propa, fi, fields, redundant, worklist, reanalyze>>
    ELSE /\ fi' = fi \cup {o[1]}
         /\ MergeNodes(CollapsedRep(o), CollapsedPts(o))
         /\ worklist' = worklist \cup {repOf[n] : n \in Hit(o)}
         /\ redundant' = redundant \cup RedundantFields(o)
         /\ reanalyze' = (reanalyze \/ Hit(o) # {})
         /\ UNCHANGED fields

(* What collapseField goes on to collapse: the targets of the base node,   *)
(* if it has become a PWC node.                                            *)
Nested(o) ==
    LET rep == repOf'[FIObjVar(o)]
    IN  IF o[1] \notin BlkOrConst /\ rep \in pwc' THEN pts'[rep] ELSE {}

-----------------------------------------------------------------------------
(* processLoad and processStore: the copy edges node n calls for. *)
(* Variant: only what has not been propagated yet is considered. *)
LoadCopiesNew(n) ==
    {<<o, e.dst>> : o \in Diff(n), e \in {x \in edges : x.kind = "load" /\ x.src = n}}

LoadCopies(n) ==
    {<<o, e.dst>> : o \in {x \in pts[n] : x[1] \notin ConstObj},
                    e \in {x \in edges : x.kind = "load" /\ x.src = n}}

StoreCopies(n) ==
    {<<e.src, o>> : o \in {x \in pts[n] : x[1] \notin ConstObj},
                    e \in {x \in edges : x.kind = "store" /\ x.dst = n}}

(* addCopyEdge between the representatives of s and d: TRUE of it returns. *)
NewCopy(s, d) == repOf[s] # repOf[d] /\ CopyEdge(repOf[s], repOf[d]) \notin edges

(* Variant: the propagated set of the source is kept (no updatePropaPts). *)
AddCopyEdgeKeep(s, d) ==
    /\ edges' = IF NewCopy(s, d) THEN edges \cup {CopyEdge(repOf[s], repOf[d])} ELSE edges
    /\ UNCHANGED propa

AddCopyEdge(s, d) ==
    IF NewCopy(s, d)
    THEN /\ edges' = edges \cup {CopyEdge(repOf[s], repOf[d])}
         /\ propa' = [propa EXCEPT ![repOf[s]] = @ \cap propa[repOf[d]]]
    ELSE UNCHANGED <<edges, propa>>

-----------------------------------------------------------------------------
(* updateCallGraph: the callees the points-to set of a call site's         *)
(* function pointer adds, within the limit on resolved calls.              *)
MatchArgs(c, f) ==
    IF FunInfo[f].vararg # NoVal THEN Len(c.args) >= Len(FunInfo[f].params)
    ELSE Len(c.args) = Len(FunInfo[f].params)

(* Variant: callees found before are reported again. *)
CandidatesAgain ==
    {x \in prog.calls \X Fun :
        (\E o \in GetPts(x[1].fp) : o[1] = x[2]) /\ MatchArgs(x[1], x[2])}

Candidates ==
    {x \in prog.calls \X Fun :
        /\ \E o \in GetPts(x[1].fp) : o[1] = x[2]
        /\ MatchArgs(x[1], x[2])
        /\ x \notin calls}

(* Variant: one callee per update. *)
NewCallsOne == {{x} : x \in Candidates} \cup {{}}

NewCalls ==
    LET room == IF Cardinality(calls) < IndirectCallLimit
                THEN IndirectCallLimit - Cardinality(calls) ELSE 0
    IN  IF Cardinality(Candidates) <= room THEN {Candidates}
        ELSE {S \in SUBSET Candidates : Cardinality(S) = room}

(* The copy edges connectCaller2CalleeParams asks for. *)
ParamCopies(c, f) ==
    LET F == FunInfo[f]
        n == Len(F.params)
    IN  (IF F.alloc /\ c.ret # NoVal THEN {<<c.dummyVal, c.ret>>} ELSE {})
        \cup (IF F.ret # NoVal /\ c.ret # NoVal THEN {<<F.ret, c.ret>>} ELSE {})
        \cup {<<c.args[i], F.params[i]>> : i \in {j \in DOMAIN c.args : j <= n}}
        \cup (IF F.vararg # NoVal
              THEN {<<c.args[i], F.vararg>> : i \in {j \in DOMAIN c.args : j > n}} ELSE {})

(* The dummy object and the nodes of a call site that may allocate. *)
DummyObj(c) == <<c.dummyObj, WholeObj>>
HeapNodes(c) == {c.dummyVal, DummyObj(c)}

(* What the SVFIR guarantees of the programs.  An address is the address   *)
(* of an object, not of a field (AddrStmt).                                *)
AddressesWhole(p) == \A a \in p.addr : a[1] = FIObjVar(a[1])

(* The nodes heapAllocatorViaIndCall will create for a call site are new.  *)
HeapNodesNew(p) ==
    /\ \A c \in p.calls : c.dummyObj \notin Fun /\ HeapNodes(c) \cap ProgramNodes(p) = {}
    /\ \A c, e \in p.calls : c # e => HeapNodes(c) \cap HeapNodes(e) = {}

(* The result of a gep instruction is a value with no other definition.    *)
GepResults(p) == {e.dst : e \in {x \in p.edges : x.kind = "ngep"}}

Defined(p) ==
    {c.ret : c \in p.calls}
    \cup UNION {{FunInfo[f].vararg} \cup {FunInfo[f].params[i] : i \in DOMAIN FunInfo[f].params} :
                f \in Fun}

SingleAssignment(p) ==
    /\ GepResults(p) \subseteq Val \ Defined(p)
    /\ \A e, x \in p.edges :
          e.kind = "ngep" /\ x.kind \in DirectKind \cup {"load"} /\ x.dst = e.dst => x = e

(* Only an address edge mentions an object, every other statement is about *)
(* values.                                                                 *)
StatementsOfValues(p) == \A e \in p.edges : e.src \in Val /\ e.dst \in Val

ASSUME ProgramsAssumption ==
    \A p \in Programs :
        AddressesWhole(p) /\ HeapNodesNew(p) /\ SingleAssignment(p) /\ StatementsOfValues(p)

(* Call sites for which heapAllocatorViaIndCall creates the dummy nodes. *)
NewHeapSites(new) ==
    LET alloc(C) == {c \in prog.calls : \E f \in Fun : <<c, f>> \in C /\ FunInfo[f].alloc}
    IN  {c \in alloc(new) \ alloc(calls) : c.ret # NoVal}
=============================================================================
