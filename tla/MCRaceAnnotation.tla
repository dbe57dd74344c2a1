-------------------------- MODULE MCRaceAnnotation --------------------------
(* Small programs with locks. *)
EXTENDS RaceAnnotation

MCInst == {"m0", "m1", "m2", "m3", "f0", "f1", "f2", "f3", "f4", "f5", "f6",
           "g0", "g1", "g2", "g3", "g4", "h0", "h1", "k0", "k1", "k2"}
MCFun == {"main", "f", "g", "h", "k"}
MCMem == {"a", "b", "x"}

FirstInst == [n \in MCFun |->
    CASE n = "main" -> "m0" [] n = "f" -> "f0" [] n = "g" -> "g0" [] n = "h" -> "h0"
      [] OTHER -> "k0"]
FunOf == [i \in MCInst |->
    CASE i \in {"m0", "m1", "m2", "m3"} -> "main"
      [] i \in {"f0", "f1", "f2", "f3", "f4", "f5", "f6"} -> "f"
      [] i \in {"g0", "g1", "g2", "g3", "g4"} -> "g"
      [] i \in {"h0", "h1"} -> "h" [] OTHER -> "k"]

(* Instructions follow each other, the last of a function returns. *)
Line(ins) == {<<ins[n], ins[n + 1]>> : n \in 1..(Len(ins) - 1)}
M == <<"m0", "m1", "m2", "m3">>
F(n) == SubSeq(<<"f0", "f1", "f2", "f3", "f4", "f5", "f6">>, 1, n)
G(n) == SubSeq(<<"g0", "g1", "g2", "g3", "g4">>, 1, n)
H == <<"h0", "h1">>
K(n) == SubSeq(<<"k0", "k1", "k2">>, 1, n)

(* funs: the functions but main, in a row of instructions each, with an    *)
(* entry block that ends at ends[f]; more and less change the control flow.*)
Prog(funs, ends, more, less, calls, forks, locks, unlocks, loads, stores) ==
    LET rows == funs \cup {M}
    IN  [main |-> "main", fun |-> {FunOf[r[1]] : r \in rows}, entry |-> FirstInst,
         entryEnd |-> [n \in MCFun |->
             IF n \in DOMAIN ends THEN ends[n]
             ELSE IF \E r \in rows : FunOf[r[1]] = n
                  THEN Last(CHOOSE r \in rows : FunOf[r[1]] = n) ELSE FirstInst[n]],
         fn |-> FunOf, next |-> (UNION {Line(r) : r \in rows} \cup more) \ less, exits |-> {},
         calls |-> calls, forks |-> forks, joins |-> {}, joined |-> {},
         rets |-> {Last(r) : r \in rows},
         loops |-> UNION {{e[1], e[2]} : e \in {x \in more : <<x[2], x[1]>> \in Line(M)}},
         locks |-> locks, unlocks |-> unlocks, loads |-> loads, stores |-> stores]

Whole == [n \in {} |-> "m0"]
OneThreadEach == {<<"m0", "f">>, <<"m1", "g">>}

(* f and g call h with the same mutex and store to x again without it.     *)
Shared == Prog({F(5), G(5), H}, Whole, {}, {}, {<<"f1", "h">>, <<"g1", "h">>}, OneThreadEach,
               {<<"f0", "a">>, <<"g0", "a">>}, {<<"f2", "a">>, <<"g2", "a">>},
               {<<"m2", "x">>}, {<<"h0", "x">>, <<"f3", "x">>, <<"g3", "x">>})

(* Two threads run f, which locks in k and unlocks in h. *)
Wrapped == Prog({F(4), H, K(2)}, Whole, {}, {}, {<<"f0", "k">>, <<"f2", "h">>},
                {<<"m0", "f">>, <<"m1", "f">>}, {<<"k0", "a">>}, {<<"h0", "a">>},
                {}, {<<"f1", "x">>})

(* f stores to x behind two paths, the shorter of which locks in k.        *)
OnePath == Prog({F(7), G(4), H, K(2)}, [n \in {"f"} |-> "f0"], {<<"f0", "f2">>, <<"f1", "f4">>},
                {<<"f1", "f2">>}, {<<"f1", "k">>, <<"f2", "h">>}, OneThreadEach,
                {<<"k0", "a">>, <<"g0", "a">>}, {<<"f5", "a">>, <<"g2", "a">>},
                {}, {<<"f4", "x">>, <<"g1", "x">>})

(* f may jump over two instructions, the second of which locks.            *)
Conditional == Prog({F(6), G(4)}, [n \in {"f"} |-> "f0"], {<<"f0", "f3">>}, {}, {}, OneThreadEach,
                    {<<"f2", "a">>, <<"g0", "a">>}, {<<"f4", "a">>, <<"g2", "a">>},
                    {}, {<<"f3", "x">>, <<"g1", "x">>})

(* Threads created in a loop take b again and again inside a.              *)
Nested == Prog({F(6), G(4)}, [n \in {"f"} |-> "f0"], {<<"m1", "m0">>, <<"f3", "f1">>}, {}, {},
               {<<"m0", "f">>, <<"m2", "g">>},
               {<<"f0", "a">>, <<"f1", "b">>, <<"g0", "b">>},
               {<<"f3", "b">>, <<"f4", "a">>, <<"g2", "b">>},
               {<<"g1", "x">>}, {<<"f2", "x">>})

(* f and g call the recursive k with the same mutex. *)
Recursive == Prog({F(4), G(4), K(3)}, [n \in {"k"} |-> "k0"], {<<"k0", "k2">>}, {},
                  {<<"f1", "k">>, <<"g1", "k">>, <<"k1", "k">>}, OneThreadEach,
                  {<<"f0", "a">>, <<"g0", "a">>}, {<<"f2", "a">>, <<"g2", "a">>},
                  {}, {<<"k0", "x">>})

(* f calls h with a mutex, g without. *)
OneCaller == Prog({F(4), G(2), H}, Whole, {}, {}, {<<"f1", "h">>, <<"g0", "h">>}, OneThreadEach,
                  {<<"f0", "a">>}, {<<"f2", "a">>}, {}, {<<"h0", "x">>})

MCPrograms == {Shared, Wrapped, OnePath, Conditional, Nested, Recursive, OneCaller}

(* A loop creates threads that store to x; main uses a mutex elsewhere.    *)
OnlySelf == {Prog({F(2)}, Whole, {<<"m1", "m0">>}, {}, {}, {<<"m0", "f">>},
                  {<<"m2", "a">>}, {}, {}, {<<"f0", "x">>})}

(* f calls h with the mutex and then without it. *)
OnlyAgain == {Prog({F(5), G(4), H}, Whole, {}, {},
                   {<<"f1", "h">>, <<"f3", "h">>, <<"g1", "h">>}, OneThreadEach,
                   {<<"f0", "a">>, <<"g0", "a">>}, {<<"f2", "a">>, <<"g2", "a">>},
                   {}, {<<"h0", "x">>})}

(* main forks f while it holds the mutex. *)
OnlyForkHolding == {Prog({F(2)}, Whole, {}, {}, {}, {<<"m1", "f">>},
                         {<<"m0", "a">>}, {}, {<<"m2", "x">>}, {<<"f0", "x">>})}

(* f stores to x behind a lock it may jump over, in one step.              *)
OnlyJump == {Prog({F(4), G(4)}, [n \in {"f"} |-> "f0"], {<<"f0", "f2">>}, {}, {}, OneThreadEach,
                  {<<"f1", "a">>, <<"g0", "a">>}, {<<"g2", "a">>},
                  {}, {<<"f2", "x">>, <<"g1", "x">>})}

Others == OnlySelf \cup OnlyAgain \cup OnlyForkHolding \cup OnlyJump
=============================================================================
