-------------------------- MODULE MCFlowSensitive --------------------------
(***************************************************************************)
(* A program with an indirect call whose effects turn a strong update into *)
(* a weak one:                                                             *)
(*                                                                         *)
(*    p = &a; x = &c; q = &s; fp = &f;      s is field-insensitive         *)
(*    do { r = phi(q, w); w = &r->g; } while (..);                         *)
(*    L0: *x = p;  L1: *p = x;                                             *)
(*    if (..) fp(p);                        f(u) { *u = q; }               *)
(*    L2: z = *p;  L3: *z = x;  L4: t = *x;  L5: v = *r;  y = t;           *)
(***************************************************************************)
EXTENDS FlowSensitiveFIFO

MCVar == {"p", "x", "q", "fp", "r", "w", "u", "z", "t", "v", "y", "none"}
MCObj == {"a", "c", "s", "g", "f"}
MCNode == {"p", "x", "q", "fp", "r", "w", "y", "cmp", "L0", "L1", "ap", "u", "ain", "fin",
           "Lf", "fout", "aout", "mphi", "L2", "L3", "L4", "L5"}

Of(n, kinds, default) ==
    IF \E k \in kinds : n \in k[1] THEN (CHOOSE k \in kinds : n \in k[1])[2] ELSE default

MCKind == [n \in MCNode |-> Of(n, {<<{"p", "x", "q", "fp"}, "addr">>, <<{"r"}, "phi">>,
    <<{"w"}, "gep">>, <<{"y"}, "copy">>, <<{"cmp"}, "other">>, <<{"L0", "L1", "Lf", "L3"}, "store">>,
    <<{"L2", "L4", "L5"}, "load">>, <<{"ap"}, "aparm">>, <<{"u"}, "fparm">>}, "mssa")]
MCDef == [n \in MCNode |-> Of(n, {<<{"L2"}, "z">>, <<{"L4"}, "t">>, <<{"L5"}, "v">>},
                                 IF n \in MCVar THEN n ELSE "none")]
MCPtr == [n \in MCNode |-> Of(n, {<<{"L0", "L4"}, "x">>, <<{"L1", "L2"}, "p">>, <<{"Lf"}, "u">>,
                                 <<{"L3"}, "z">>, <<{"L5"}, "r">>}, "none")]
MCUse == [n \in MCNode |-> Of(n, {<<{"r"}, {"q", "w"}>>, <<{"w", "cmp"}, {"r"}>>, <<{"y"}, {"t"}>>,
    <<{"L0", "ap"}, {"p"}>>, <<{"L1", "L3"}, {"x"}>>, <<{"Lf"}, {"q"}>>}, {})]
MCAddrOf == [n \in MCNode |-> Of(n, {<<{"p"}, "a">>, <<{"x"}, "c">>, <<{"q"}, "s">>}, "f")]
MCGepObj == [n \in MCNode |-> [o \in MCObj |-> IF o = "s" THEN "g" ELSE o]]

Defs(v) == {n \in MCNode : MCDef[n] = v /\ v # "none"}
MCDirEdges == {e \in MCNode \X MCNode :
                 MCDef[e[1]] # "none" /\ MCDef[e[1]] \in MCUse[e[2]] \cup {MCPtr[e[2]]}}
MCIndEdges == {<<"L1", "mphi", "a">>, <<"L1", "ain", "a">>, <<"aout", "mphi", "a">>,
               <<"mphi", "L2", "a">>, <<"fin", "Lf", "a">>, <<"Lf", "fout", "a">>,
               <<"L0", "L3", "c">>, <<"L3", "L4", "c">>, <<"L3", "L5", "s">>}
MCAllFields == [o \in MCObj |-> IF o = "s" THEN {"s", "g"} ELSE {o}]
MCFunPtr == [cs \in {"cs"} |-> "fp"]
MCCallDir == [c \in {<<"cs", "f">>} |-> {<<"ap", "u">>}]
MCCallUse == [c \in {<<"cs", "f">>} |-> [n \in MCNode |-> {}]]
MCCallInd == [c \in {<<"cs", "f">>} |-> {<<"ain", "fin", "a">>, <<"fout", "aout", "a">>}]

O1 == <<"p", "x", "q", "fp", "r", "w", "cmp", "L0", "L1", "ap", "ain", "u", "fin", "Lf", "fout",
        "aout", "mphi", "L2", "L3", "L4", "y", "L5">>
O2 == Reverse(O1)
O3 == <<"L3", "L1", "x", "w", "mphi", "L2", "L0", "p", "L4", "q", "r", "fp", "ap", "Lf", "aout",
        "fout", "ain", "fin", "u", "cmp", "y", "L5">>
MCOrders == {O1, O2, O3}

(* The solution one expects; it is the least one. *)
At(s) == [n \in MCNode |-> [o \in MCObj |->
            IF \E e \in s : e[1] = n /\ e[2] = o THEN (CHOOSE e \in s : e[1] = n /\ e[2] = o)[3] ELSE {}]]
MCSolution ==
    [pts |-> [v \in MCVar |-> Of(v, {<<{"p", "u"}, {"a"}>>, <<{"x", "v"}, {"c"}>>, <<{"z"}, {"c", "s"}>>,
                <<{"q", "r", "w"}, {"s"}>>, <<{"fp"}, {"f"}>>, <<{"t", "y"}, {"a", "c"}>>}, {})],
     in  |-> At({<<"ain", "a", {"c"}>>, <<"fin", "a", {"c"}>>, <<"Lf", "a", {"c"}>>,
                 <<"fout", "a", {"s"}>>, <<"aout", "a", {"s"}>>, <<"mphi", "a", {"c", "s"}>>,
                 <<"L2", "a", {"c", "s"}>>, <<"L3", "c", {"a"}>>, <<"L4", "c", {"a", "c"}>>,
                 <<"L5", "s", {"c"}>>}),
     out |-> At({<<"L0", "c", {"a"}>>, <<"L1", "a", {"c"}>>, <<"Lf", "a", {"s"}>>,
                 <<"L3", "c", {"a", "c"}>>, <<"L3", "s", {"c"}>>}),
     conn |-> {<<"cs", "f">>}]

RECURSIVE LeastFrom(_)
LeastFrom(s) == LET t == Apply(s) IN IF t = s THEN s ELSE LeastFrom(t)
ASSUME MCSolutionIsLeast == LeastFrom(Bottom) = Solution

-----------------------------------------------------------------------------
(* The answer of Andersen's analysis: one set for every object, no order.  *)

MCCallAll == MCCallDir[<<"cs", "f">>]

AndersApply(g) ==
    LET use(n) == UNION {g[v] : v \in MCUse[n]}
        new(n) == CASE MCKind[n] = "addr" -> {MCAddrOf[n]}
                    [] MCKind[n] \in {"copy", "phi"} -> use(n)
                    [] MCKind[n] = "gep" -> Fields(n, use(n))
                    [] MCKind[n] = "load" -> UNION {g[o] : o \in Read(g[MCPtr[n]])}
                    [] MCKind[n] = "fparm" ->
                          IF "f" \in g["fp"] THEN UNION {use(e[1]) : e \in MCCallAll} ELSE {}
                    [] OTHER -> {}
        stored(o) == {n \in MCNode : MCKind[n] = "store" /\ o \in g[MCPtr[n]]}
    IN  [k \in MCVar \cup MCObj |-> g[k] \cup
            IF k \in MCObj THEN UNION {use(n) : n \in stored(k)}
            ELSE UNION {new(n) : n \in {n \in MCNode : MCDef[n] = k}}]

RECURSIVE AndersFrom(_)
AndersFrom(g) == LET h == AndersApply(g) IN IF h = g THEN g ELSE AndersFrom(h)
Anders == AndersFrom([k \in MCVar \cup MCObj |-> {}])
AndersSets == [v \in MCVar |-> Anders[v]]

MCCalls == {<<"cs", "f">>}
ASSUME MCCallsAssumption == MCCalls = {c \in Call : c[2] \in Anders[FunPtr[c[1]]]}

(* The flow-sensitive answer only grows, stays within that of Andersen's   *)
(* analysis, and is final when the analysis ends.                          *)
PointsTo == INSTANCE PointsToSpec WITH
    Object <- Obj, bound <- AndersSets, sol <- pts,
    solved <- (phase = "done")
RefinesAndersen == PointsTo!Spec
-----------------------------------------------------------------------------
(* The same program on the graph SVFGOPT makes of it: the parameter is a   *)
(* phi with the actual as operand, and the contents cross the call from    *)
(* store to store; the nodes between them are gone.                        *)

OptNode == MCNode \ {"ap", "ain", "fout"}
OptOf(f) == [n \in OptNode |-> f[n]]

OptKind == [OptOf(MCKind) EXCEPT !["u"] = "phi"]
OptDef == OptOf(MCDef)
OptPtr == OptOf(MCPtr)
OptUse == OptOf(MCUse)
OptAddrOf == OptOf(MCAddrOf)
OptGepObj == OptOf(MCGepObj)
OptDirEdges == MCDirEdges \cap (OptNode \X OptNode)
OptIndEdges == {e \in MCIndEdges : e[1] \in OptNode /\ e[2] \in OptNode}
OptCallDir == [c \in MCCalls |-> {<<"p", "u">>}]
OptCallInd == [c \in MCCalls |-> {<<"L1", "fin", "a">>, <<"Lf", "aout", "a">>}]
OptCallUse == [c \in MCCalls |-> [n \in OptNode |-> IF n = "u" THEN {"p"} ELSE {}]]
OptOrders == {SelectSeq(q, LAMBDA n : n \in OptNode) : q \in MCOrders}
OptSolution == [MCSolution EXCEPT !.in = OptOf(@), !.out = OptOf(@)]
=============================================================================
