------------------------------ MODULE MCDemand ------------------------------
(***************************************************************************)
(* A program with a loop through memory and an indirect call behind it:    *)
(*                                                                         *)
(*    p = &a; q = &b; g = &f;                                              *)
(*    I0: *p = g;  I1: *p = p;              strong: the first is lost      *)
(*    do { r = phi(p, t);  S: *r = q;  L: t = *r; } while (..);            *)
(*    g(r);                                 f(u) { F: *u = g; }            *)
(*    M: y = *p;  h = phi(y, t);                                           *)
(*                                                                         *)
(* The store S kills what a holds until r is known to point to b as well.  *)
(***************************************************************************)
EXTENDS DemandDriven, SequencesExt

Of(n, kinds, default) ==
    IF \E k \in kinds : n \in k[1] THEN (CHOOSE k \in kinds : n \in k[1])[2] ELSE default

MCVar == {"p", "q", "g", "r", "t", "u", "y", "h", "none"}
MCObj == {"a", "b", "f"}
MCNode == {"p", "q", "g", "I0", "I1", "m", "r", "S", "L", "ap", "u", "ain", "fin", "F", "fout",
           "aout", "M", "h", "null"}
MCKind == [n \in MCNode |-> Of(n, {<<{"p", "q", "g"}, "addr">>, <<{"r", "h"}, "phi">>,
    <<{"I0", "I1", "S", "F"}, "store">>, <<{"L", "M"}, "load">>, <<{"ap"}, "aparm">>,
    <<{"u"}, "fparm">>, <<{"null"}, "other">>}, "mssa")]
MCDef == [n \in MCNode |-> Of(n, {<<{"L"}, "t">>, <<{"M"}, "y">>}, IF n \in MCVar THEN n ELSE "none")]
MCPtr == [n \in MCNode |-> Of(n, {<<{"I0", "I1", "M"}, "p">>, <<{"S", "L"}, "r">>, <<{"F"}, "u">>}, "none")]
MCUse == [n \in MCNode |-> Of(n, {<<{"I0", "F"}, {"g"}>>, <<{"I1"}, {"p"}>>, <<{"r"}, {"p", "t"}>>,
    <<{"S"}, {"q"}>>, <<{"ap"}, {"r"}>>, <<{"h"}, {"y", "t"}>>}, {})]
MCAddrOf == [n \in MCNode |-> Of(n, {<<{"p"}, "a">>, <<{"q"}, "b">>}, "f")]
MCGepObj == [n \in MCNode |-> [o \in MCObj |-> o]]
MCDirEdges == {e \in MCNode \X MCNode :
                 MCDef[e[1]] # "none" /\ MCDef[e[1]] \in MCUse[e[2]] \cup {MCPtr[e[2]]}}
MCIndEdges == {<<"I0", "I1", "a">>, <<"I1", "m", "a">>, <<"S", "m", "a">>, <<"S", "m", "b">>,
    <<"m", "S", "a">>, <<"m", "S", "b">>, <<"S", "L", "a">>, <<"S", "L", "b">>,
    <<"S", "ain", "a">>, <<"S", "ain", "b">>, <<"fin", "F", "a">>, <<"fin", "F", "b">>,
    <<"F", "fout", "a">>, <<"F", "fout", "b">>, <<"aout", "M", "a">>}
MCAllFields == [o \in MCObj |-> {o}]
MCFunPtr == [cs \in {"cs"} |-> "g"]
MCCalls == {<<"cs", "f">>}
MCCallDir == [c \in MCCalls |-> {<<"ap", "u">>}]
MCCallInd == [c \in MCCalls |-> {<<"ain", "fin", "a">>, <<"ain", "fin", "b">>,
                                <<"fout", "aout", "a">>, <<"fout", "aout", "b">>}]
MCCallUse == [c \in MCCalls |-> [n \in MCNode |-> {}]]

MCDefNode == [v \in MCVar |-> Of(v, {<<{"t"}, "L">>, <<{"y"}, "M">>}, IF v = "none" THEN "null" ELSE v)]
MCResolveAt == [n \in MCNode |-> IF n \in {"u", "fin", "aout"} THEN {"cs"} ELSE {}]
MCConservative == [v \in MCVar |-> Of(v, {<<{"p"}, {"a"}>>, <<{"q"}, {"b"}>>, <<{"g"}, {"f"}>>,
                                         <<{"none"}, {}>>}, {"a", "b", "f"})]

(* Orders of the nodes: as the program, reversed, and two others. *)
O1 == <<"p", "q", "g", "I0", "I1", "m", "r", "S", "L", "ap", "ain", "u", "fin", "F", "fout",
        "aout", "M", "h", "null">>
O2 == <<"L", "r", "aout", "F", "S", "ap", "M", "m", "p", "fin", "u", "q", "h", "ain", "I1", "fout",
        "I0", "g", "null">>
O3 == <<"m", "h", "M", "S", "F", "u", "L", "fin", "g", "r", "aout", "fout", "p", "I1", "q", "ap",
        "ain", "I0", "null">>
Place(q) == [n \in MCNode |-> CHOOSE i \in DOMAIN q : q[i] = n]
MCOrders == {Place(q) : q \in {O1, Reverse(O1), O2, Reverse(O2), O3, Reverse(O3)}}

At(s) == [n \in MCNode |-> [o \in MCObj |->
            IF \E e \in s : n \in e[1] /\ e[2] = o
            THEN (CHOOSE e \in s : n \in e[1] /\ e[2] = o)[3] ELSE {}]]
MCSolution ==
    [pts |-> [v \in MCVar |-> Of(v, {<<{"p"}, {"a"}>>, <<{"q"}, {"b"}>>, <<{"g"}, {"f"}>>,
                <<{"r", "t", "u"}, {"a", "b"}>>, <<{"y", "h"}, {"a", "b", "f"}>>}, {})],
     in  |-> At({<<{"I1"}, "a", {"f"}>>, <<{"m", "S", "L", "ain", "fin", "F"}, "a", {"a", "b"}>>,
                 <<{"m", "S", "L", "ain", "fin", "F"}, "b", {"b"}>>,
                 <<{"fout", "aout", "M"}, "a", {"a", "b", "f"}>>, <<{"fout", "aout"}, "b", {"b", "f"}>>}),
     out |-> At({<<{"I0"}, "a", {"f"}>>, <<{"I1"}, "a", {"a"}>>, <<{"S"}, "a", {"a", "b"}>>,
                 <<{"S"}, "b", {"b"}>>, <<{"F"}, "a", {"a", "b", "f"}>>, <<{"F"}, "b", {"b", "f"}>>}),
     conn |-> MCCalls]

RECURSIVE LeastFrom(_)
LeastFrom(s) == LET t == Apply(s) IN IF t = s THEN s ELSE LeastFrom(t)
ASSUME MCSolutionIsLeast == LeastFrom(Bottom) = Solution

-----------------------------------------------------------------------------
(* A cycle through a parameter:  e = &a;  r = phi(e, y);  y = id(r).       *)
CycleVar == {"e", "r", "u", "y", "none"}
CycleNode == {"null", "e", "r", "ap", "u", "fr", "y"}
CycleKind == [n \in CycleNode |-> Of(n, {<<{"e"}, "addr">>, <<{"r"}, "phi">>, <<{"ap"}, "aparm">>,
                                        <<{"u"}, "fparm">>, <<{"fr"}, "fret">>, <<{"null"}, "other">>}, "aret")]
CycleDef == [n \in CycleNode |-> IF n \in CycleVar THEN n ELSE "none"]
CyclePtr == [n \in CycleNode |-> "none"]
CycleUse == [n \in CycleNode |-> Of(n, {<<{"r"}, {"e", "y"}>>, <<{"ap"}, {"r"}>>, <<{"fr"}, {"u"}>>}, {})]
CycleAddrOf == [n \in CycleNode |-> "a"]
CycleGepObj == [n \in CycleNode |-> [o \in {"a"} |-> o]]
CycleDirEdges == {<<"e", "r">>, <<"y", "r">>, <<"r", "ap">>, <<"ap", "u">>, <<"u", "fr">>, <<"fr", "y">>}
CycleAllFields == [o \in {"a"} |-> {o}]
NoCalls == <<>>
CycleDefNode == [v \in CycleVar |-> IF v = "none" THEN "null" ELSE v]
CycleResolveAt == [n \in CycleNode |-> {}]
CycleConservative == [v \in CycleVar |-> {"a"} \ (IF v = "none" THEN {"a"} ELSE {})]
CycleOrders == {[n \in CycleNode |-> 0]}
CycleSolution == [Bottom EXCEPT !.pts = CycleConservative]
=============================================================================
