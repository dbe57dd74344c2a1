------------------------------- MODULE MCMHP -------------------------------
(* Small multithreaded programs for MHP. *)
EXTENDS MHPSoundness

MCInst == {"m0", "m1", "m2", "m3", "f0", "f1", "f2", "g0", "g1", "g2", "h0", "h1", "k0"}
MCFun == {"main", "f", "g", "h", "k"}

FirstInst == [x \in MCFun |->
    CASE x = "main" -> "m0" [] x = "f" -> "f0" [] x = "g" -> "g0" [] x = "h" -> "h0"
      [] OTHER -> "k0"]
FunOf == [i \in MCInst |->
    CASE i \in {"m0", "m1", "m2", "m3"} -> "main" [] i \in {"f0", "f1", "f2"} -> "f"
      [] i \in {"g0", "g1", "g2"} -> "g" [] i \in {"h0", "h1"} -> "h" [] OTHER -> "k"]

(* The instructions of every function follow each other. *)
Straight == {<<"m0", "m1">>, <<"m1", "m2">>, <<"m2", "m3">>, <<"f0", "f1">>, <<"f1", "f2">>,
             <<"g0", "g1">>, <<"g1", "g2">>, <<"h0", "h1">>}
Rets == {"m3", "f2", "g2", "h1", "k0"}

Prog(funs, back, calls, forks, joined) ==
    [main |-> "main", fun |-> funs, entry |-> FirstInst, entryEnd |-> FirstInst, fn |-> FunOf,
     next |-> {e \in Straight \cup back : FunOf[e[1]] \in funs},
     exits |-> LET looping == UNION {{e[1], e[2]} : e \in back}
               IN  {<<e[1], x[2]>> : e \in {j \in joined : j[1] \in looping},
                                     x \in {n \in Straight : n[1] \in looping /\ n[2] \notin looping}},
     calls |-> calls, forks |-> forks,
     joins |-> {e[1] : e \in joined}, joined |-> joined,
     rets |-> {i \in Rets : FunOf[i] \in funs},
     loops |-> UNION {{e[1], e[2]} : e \in back},
     locks |-> {}, unlocks |-> {}, loads |-> {}, stores |-> {}]

(* Two children of main, the second of which has a child; h calls k, which *)
(* forks nothing.                                                          *)
Family == Prog(MCFun, {}, {<<"h0", "k">>},
               {<<"m0", "g">>, <<"m1", "f">>, <<"f0", "h">>}, {<<"m2", "m1">>})
(* A loop creates threads that have a child each, and joins in its next    *)
(* iteration.                                                              *)
Loop == Prog({"main", "f", "g"}, {<<"m1", "m0">>}, {}, {<<"m1", "f">>, <<"f1", "g">>},
             {<<"m0", "m1">>})
(* f is called twice and forks g; the second time nothing else follows.    *)
TwoCalls == Prog({"main", "f", "g"}, {}, {<<"m0", "f">>, <<"m1", "f">>}, {<<"f1", "g">>}, {})
(* f is called in a loop and forks g. *)
CallLoop == Prog({"main", "f", "g"}, {<<"m1", "m0">>}, {<<"m0", "f">>}, {<<"f0", "g">>}, {<<"m2", "f0">>})
(* f forks itself and g. *)
Recursive == Prog({"main", "f", "g"}, {}, {}, {<<"m0", "f">>, <<"f0", "f">>, <<"f1", "g">>}, {})
(* f and g fork each other, g forks h. *)
Mutual == Prog({"main", "f", "g", "h"}, {}, {},
               {<<"m1", "f">>, <<"f0", "g">>, <<"g0", "f">>, <<"g1", "h">>}, {})
(* The same fork site runs f or g. *)
Either == Prog({"main", "f", "g"}, {}, {<<"g0", "f">>}, {<<"m1", "f">>, <<"m1", "g">>}, {})

MCPrograms == {Family, Loop, TwoCalls, CallLoop, Recursive, Mutual, Either}

(* h is never called and forks k. *)
OnlyTwoEntries == {Prog({"main", "f", "h", "k"}, {}, {}, {<<"m0", "f">>, <<"h0", "k">>}, {})}

(* main joins the thread it has forked. *)
OnlyJoin == {Prog({"main", "f"}, {}, {}, {<<"m0", "f">>}, {<<"m1", "m0">>})}

(* A call leads to f, which forks h, or to k, which forks nothing; f does  *)
(* not return and main forks h behind the call.                            *)
OnlyMixedCall ==
    {[Prog({"main", "f", "h", "k"}, {<<"f0", "f0">>}, {<<"m0", "f">>, <<"m0", "k">>},
           {<<"f1", "h">>, <<"m1", "h">>}, {}) EXCEPT !.next = @ \ {<<"f0", "f1">>}]}

(* A fork in a cycle of calls runs one of two routines; g stops where it   *)
(* starts, and would have forked f.                                        *)
OnlyRecursiveFork ==
    {[Prog({"main", "f", "g", "h"}, {}, {},
           {<<"m0", "f">>, <<"f0", "f">>, <<"f0", "g">>, <<"g1", "f">>, <<"f1", "h">>}, {})
      EXCEPT !.next = @ \ {<<"g0", "g1">>}]}

Others == OnlyTwoEntries \cup OnlyJoin \cup OnlyMixedCall \cup OnlyRecursiveFork
=============================================================================
