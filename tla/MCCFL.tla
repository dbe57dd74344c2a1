------------------------------- MODULE MCCFL -------------------------------
(* Small graphs and grammars for CFLSolver. *)
EXTENDS CFLSolver

CONSTANTS n1, n2, n3

MCNode == {n1, n2, n3}
MCSymbol == {"A", "a", "call_1", "ret_1", "ret_2", "X_1", "X_2",
             "copy", "copybar", "addr", "addrbar", "F", "V"}

Graph(nodes, E, grammar, C) ==
    [nodes |-> nodes, graph |-> E, eps |-> grammar.eps, single |-> grammar.single,
     pair |-> grammar.pair, calls |-> C]

(* VFGGrammar.txt: A -> A A | a | call_i A ret_i | epsilon, normalised. *)
ValueFlow ==
    [eps |-> {"A"}, single |-> {<<"A", "a">>},
     pair |-> {<<"A", "A", "A">>, <<"A", "call_1", "X_1">>, <<"X_1", "A", "ret_1">>,
               <<"X_2", "A", "ret_2">>}]

(* The forward half of PAGGrammar.txt: F -> epsilon | F copy,              *)
(* V -> V F | addrbar addr.                                                *)
Alias ==
    [eps |-> {"F"}, single |-> {},
     pair |-> {<<"F", "F", "copy">>, <<"V", "V", "F">>, <<"V", "addrbar", "addr">>}]

Both(sym, bar, i, j) == {<<sym, i, j>>, <<bar, j, i>>}

(* A call that returns to its own call site, and one that does not. *)
MatchedCall ==
    Graph({n1, n2, n3}, {<<"call_1", n1, n2>>, <<"ret_1", n2, n3>>, <<"ret_2", n2, n1>>},
          ValueFlow, {})
Cycle == Graph({n1, n2}, {<<"a", n1, n2>>, <<"a", n2, n1>>}, ValueFlow, {})
(* n1 is an object, n2 and n3 copy its address. *)
Address == Both("addr", "addrbar", n1, n2)
CopyChain == Graph({n1, n2, n3}, Address \cup Both("copy", "copybar", n2, n3), Alias, {})
(* The copies into n3 and back belong to a callee found through n2. *)
IndirectCall ==
    Graph({n1, n2, n3}, Address, Alias,
          {<<<<"V", n2, n2>>, e>> : e \in Both("copy", "copybar", n2, n3)}
          \cup {<<<<"V", n2, n3>>, <<"copy", n3, n2>>>>, <<<<"V", n2, n3>>, <<"copybar", n2, n3>>>>})

MCInputs == {MatchedCall, Cycle, CopyChain, IndirectCall}
=============================================================================
