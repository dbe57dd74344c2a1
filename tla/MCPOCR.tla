------------------------------ MODULE MCPOCR ------------------------------
(* Small graphs and grammars for POCRSolver. *)
EXTENDS POCRSolver

CONSTANTS n1, n2, n3

MCNode == {n1, n2, n3}
MCSymbol == {"A", "a", "abar", "copy", "copybar", "F", "V"}
None == {}
OnlyF == {"F"}

Graph(nodes, E, grammar, C) ==
    [nodes |-> nodes, graph |-> E, eps |-> grammar.eps, single |-> grammar.single,
     pair |-> grammar.pair, calls |-> C]

Both(sym, bar, i, j) == {<<sym, i, j>>, <<bar, j, i>>}

(* A -> A A | a | epsilon of VFGGrammar.txt. *)
ValueFlow == [eps |-> {"A"}, single |-> {<<"A", "a">>}, pair |-> {<<"A", "A", "A">>}]
(* F -> epsilon | F copy of PAGGrammar.txt. *)
FlowsTo == [eps |-> {"F"}, single |-> {}, pair |-> {<<"F", "F", "copy">>}]
(* F -> copy | F F. *)
FlowsToTransitive == [eps |-> {}, single |-> {<<"F", "copy">>}, pair |-> {<<"F", "F", "F">>}]

Chain(sym, bar) == Both(sym, bar, n1, n2) \cup Both(sym, bar, n2, n3)

MCInputs ==
    {Graph(MCNode, Chain("a", "abar"), ValueFlow, {}),
     Graph({n1, n2}, Both("a", "abar", n1, n2) \cup Both("a", "abar", n2, n1), ValueFlow, {}),
     Graph(MCNode, Chain("copy", "copybar"), FlowsTo, {}),
     Graph(MCNode, Chain("copy", "copybar"), FlowsToTransitive, {})}

(* n3 has no edge at all, or only an incoming one. *)
IsolatedInputs == {Graph(MCNode, Both("copy", "copybar", n1, n2), FlowsTo, {})}

(* n3 flows to n2 and n2 to n1; the call found through n1 closes both cycles. *)
CallInputs ==
    {Graph(MCNode, Both("copy", "copybar", n3, n2) \cup Both("copy", "copybar", n2, n1), FlowsTo,
           {<<<<"F", n1, n1>>, e>> :
                e \in Both("copy", "copybar", n1, n2) \cup Both("copy", "copybar", n2, n3)})}

HybridInputs == {Graph(MCNode, Chain("copy", "copybar"), FlowsToTransitive, {})}

OtherInputs == IsolatedInputs \cup CallInputs \cup HybridInputs
=============================================================================
