----------------------------- MODULE ValueFlow -----------------------------
(***************************************************************************)
(* The sparse value-flow graph (SVFG) the flow-sensitive analysis works    *)
(* on, and the equations its answer has to solve.  A node stands for one   *)
(* statement or one definition of memory SSA; a direct edge leads from the *)
(* definition of a top-level variable to a use, an indirect edge carries   *)
(* the contents of some objects.  The least solution is the reference the  *)
(* solver is measured against: it has no worklist and no marks.            *)
(***************************************************************************)
EXTENDS Naturals, FiniteSets

CONSTANTS
    Var, Obj, Node,
    Kind,        \* the kind of each node
    Def,         \* the variable it defines (not "store", "mssa", "use")
    Ptr,         \* the variable a "load" or "store" dereferences
    Use,         \* the variables whose sets it reads
    AddrOf,      \* the object of an "addr"
    GepObj,      \* the object a "gep" makes of each object
    DirEdges,    \* <<n, m>>: from the definition to a use of a variable
    IndEdges,    \* <<n, m, o>>: the value of object o flows from n to m
    ConstantObj, \* objects whose content is not tracked
    Shared,      \* heap objects, arrays, locals of recursive functions
    Insensitive, \* field-insensitive objects
    AllFields,   \* the nodes of the fields of each object
    CallSite, FunPtr, Callee,
    AndersCalls, \* the indirect calls <<cs, f>> of Andersen's analysis
    CallDir, CallInd, \* the edges each of them adds
    CallUse,     \* and the operands of phis, in the optimised graph
    Incremental  \* option -inc-data

Kinds == {"addr", "copy", "phi", "gep", "load", "store", "mssa",
          "aparm", "fret", "fparm", "aret", "other"}
Call == CallSite \X Callee

ASSUME TypeAssumption ==
    /\ Kind \in [Node -> Kinds]
    /\ Def \in [Node -> Var] /\ Ptr \in [Node -> Var]
    /\ Use \in [Node -> SUBSET Var]
    /\ AddrOf \in [Node -> Obj] /\ GepObj \in [Node -> [Obj -> Obj]]
    /\ DirEdges \subseteq Node \X Node
    /\ IndEdges \subseteq Node \X Node \X Obj
    /\ ConstantObj \subseteq Obj /\ Shared \subseteq Obj
    /\ Insensitive \subseteq Obj /\ AllFields \in [Obj -> SUBSET Obj]
    /\ Callee \subseteq Obj /\ FunPtr \in [CallSite -> Var]
    /\ AndersCalls \subseteq Call
    /\ CallDir \in [Call -> SUBSET (Node \X Node)]
    /\ CallInd \in [Call -> SUBSET (Node \X Node \X Obj)]
    /\ CallUse \in [Call -> [Node -> SUBSET Var]]
    /\ Incremental \in BOOLEAN
DirOf(conn) == DirEdges \cup UNION {CallDir[c] : c \in conn}
IndOf(conn) == IndEdges \cup UNION {CallInd[c] : c \in conn}
Uses(conn, n) == Use[n] \cup UNION {CallUse[c][n] : c \in conn}

(* The variables whose sets the processing of a node looks at. *)
Reads(conn, n) ==
    (IF Kind[n] \in {"copy", "phi", "gep", "aparm", "fret", "store"} THEN Uses(conn, n) ELSE {})
       \cup (IF Kind[n] \in {"load", "store"} THEN {Ptr[n]} ELSE {})

(* connectDirectVFGEdges, and connectAParamAndFParam of the optimised      *)
(* graph: the definition of a variable leads to every use.                 *)
Definers == {"addr", "copy", "phi", "gep", "load", "fparm", "aret"}

ASSUME DefUseAssumption ==
    /\ \A n, m \in Node : Kind[n] \in Definers /\ Def[n] \in Reads({}, m) => <<n, m>> \in DirEdges
    /\ \A c \in Call, n, m \in Node :
          /\ CallUse[c][m] # {} => Kind[m] = "phi"
          /\ Kind[n] \in Definers /\ Def[n] \in CallUse[c][m] => <<n, m>> \in CallDir[c]

(* The casts of propagateFromAPToFP and propagateFromFRToAR: parameters    *)
(* and results lead to their counterparts.  Contents flow from stores and  *)
(* from the nodes of memory SSA.                                           *)
ASSUME EdgeAssumption ==
    /\ \A e \in DirEdges \cup UNION {CallDir[c] : c \in Call} :
          Kind[e[1]] \in {"aparm", "fret"} => Kind[e[2]] \in {"fparm", "aret"}
    /\ \A e \in IndEdges \cup UNION {CallInd[c] : c \in Call} :
          Kind[e[1]] \in {"store", "mssa"}

-----------------------------------------------------------------------------
(* An object and, if it is field-insensitive, its fields. *)
Expand(O) == O \cup UNION {AllFields[o] : o \in O \cap Insensitive}

(* propAlongIndirectEdge: the objects of an edge, with their fields. *)
Carried(edges, n, m) == Expand({e[3] : e \in {e \in edges : e[1] = n /\ e[2] = m}})

IsStore(n) == Kind[n] = "store"
IsParam(n) == Kind[n] \in {"aparm", "fret"}

(* The objects a load or store reads or writes if its pointer has targets P. *)
Written(P) == P \ ConstantObj
Read(P) == Expand(P \ ConstantObj)

(* isStrongUpdate: the pointer has one target, which stands for one cell. *)
Killed(P) == IF \E o \in P : P = {o} THEN P \ (Shared \cup Insensitive) ELSE {}

(* processGep for the targets P of the base pointer. *)
Fields(n, P) == {IF o \in ConstantObj \cup Insensitive THEN o ELSE GepObj[n][o] : o \in P}

-----------------------------------------------------------------------------
(* A solution: sets of variables, of objects in front of and behind a      *)
(* node, and the calls that are connected.                                 *)

Solutions ==
    [pts : [Var -> SUBSET Obj], in : [Node -> [Obj -> SUBSET Obj]],
     out : [Node -> [Obj -> SUBSET Obj]], conn : SUBSET Call]

Nothing == [n \in Node |-> [o \in Obj |-> {}]]
Bottom == [pts |-> [v \in Var |-> {}], in |-> Nothing, out |-> Nothing, conn |-> {}]

UseOf(s, n) == UNION {s.pts[v] : v \in Uses(s.conn, n)}

Defined(s, n) ==
    IF Kind[n] = "addr" THEN {AddrOf[n]}
    ELSE IF Kind[n] \in {"copy", "phi"} THEN UseOf(s, n)
    ELSE IF Kind[n] = "gep" THEN Fields(n, UseOf(s, n))
    ELSE IF Kind[n] = "load" THEN UNION {s.in[n][o] : o \in Read(s.pts[Ptr[n]])}
    ELSE IF Kind[n] \in {"fparm", "aret"}
    THEN UNION {UseOf(s, m) : m \in {m \in Node : IsParam(m) /\ <<m, n>> \in DirOf(s.conn)}}
    ELSE {}

(* Behind a store: what it writes, and what it lets pass.  Nothing passes  *)
(* while the pointer has no target: it is not known yet what is killed.    *)
Behind(s, n, o) ==
    LET P == s.pts[Ptr[n]] IN
    (IF o \in Written(P) THEN UseOf(s, n) ELSE {})
       \cup (IF P = {} \/ o \in Killed(P) THEN {} ELSE s.in[n][o])

InFront(s, m, o) ==
    UNION {IF IsStore(n) THEN s.out[n][o] ELSE s.in[n][o] :
             n \in {n \in Node : o \in Carried(IndOf(s.conn), n, m)}}

(* The indirect calls Andersen's analysis allows and the sets ask for. *)
Called(s) == {c \in AndersCalls : c[2] \in s.pts[FunPtr[c[1]]]}

Apply(s) ==
    [pts |-> [v \in Var |-> s.pts[v] \cup UNION {Defined(s, n) : n \in {n \in Node : Def[n] = v}}],
     in  |-> [n \in Node |-> [o \in Obj |-> s.in[n][o] \cup InFront(s, n, o)]],
     out |-> [n \in Node |-> [o \in Obj |-> s.out[n][o] \cup
                  IF IsStore(n) THEN Behind(s, n, o) ELSE {}]],
     conn |-> s.conn \cup Called(s)]

Within(s, t) ==
    /\ \A v \in Var : s.pts[v] \subseteq t.pts[v]
    /\ \A n \in Node, o \in Obj :
          s.in[n][o] \subseteq t.in[n][o] /\ s.out[n][o] \subseteq t.out[n][o]
    /\ s.conn \subseteq t.conn

(* The equation a node is processed for holds: what it writes is there. *)
Holds(s, n) ==
    /\ Kind[n] \in {"addr", "copy", "phi", "gep", "load"} =>
          Defined(s, n) \subseteq s.pts[Def[n]]
    /\ IsStore(n) => \A o \in Obj : Behind(s, n, o) \subseteq s.out[n][o]
    /\ IsParam(n) => \A m \in Node :
          <<n, m>> \in DirOf(s.conn) => UseOf(s, n) \subseteq s.pts[Def[m]]

(* Every equation holds. *)
Solves(s) == Within(Apply(s), s)
=============================================================================
