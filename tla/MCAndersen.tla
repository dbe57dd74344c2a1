----------------------------- MODULE MCAndersen -----------------------------
(***************************************************************************)
(* Small programs for AndersenWaveDiff, the field-insensitive solution of  *)
(* each, computed from its statements alone, and the claim that the        *)
(* detailed analysis implements PointsToSpec: field nodes, representatives,*)
(* difference sets and the rebuilding of points-to sets by collapseField   *)
(* are details of it.                                                      *)
(***************************************************************************)
EXTENDS AndersenWaveDiff, TLC

CONSTANTS a, b, c, f, g, m,                      \* memory objects
          p, q, r, s, t, u, x, y, fp, d, none    \* top-level variables

MCVal == {p, q, r, s, t, u, x, y, fp, d}
MCBase == {a, b, c, f, g, m}
MCNumFields == (a :> 2) @@ (b :> 3) @@ (c :> 1) @@ (f :> 1) @@ (g :> 1) @@ (m :> 1)
MCFun == {f, g}
MCFunInfo ==
    (f :> [params |-> <<x>>, ret |-> x, vararg |-> none, alloc |-> FALSE]) @@
    (g :> [params |-> <<>>, ret |-> none, vararg |-> y, alloc |-> TRUE])

Whole(o) == <<o, WholeObj>>
Copy(from, to) == CopyEdge(from, to)
Gep(from, off, to) == [kind |-> "ngep", src |-> from, dst |-> to, off |-> off]
VGep(from, to) == [kind |-> "vgep", src |-> from, dst |-> to, off |-> 0]
Load(from, to) == [kind |-> "load", src |-> from, dst |-> to, off |-> 0]
Store(from, to) == [kind |-> "store", src |-> from, dst |-> to, off |-> 0]
Program(addr, E, C, F) ==
    [addr |-> {<<Whole(z[1]), z[2]>> : z \in addr}, edges |-> E, calls |-> C,
     fi |-> F, fields |-> {}]

(* p and q copy to each other; *p = r; s = *q. *)
CopyCycle ==
    Program({<<a, p>>, <<b, r>>}, {Copy(p, q), Copy(q, p), Store(r, p), Load(q, s)}, {}, {})
(* p = phi(r, q); q = gep p, 1; *q = s; t = *r. *)
PositiveWeightCycle ==
    Program({<<a, r>>, <<b, s>>},
            {Copy(r, p), Copy(q, p), Gep(p, 1, q), Store(s, q), Load(r, t)}, {}, {})
(* q = gep p, 1; *q = s; r = p + i; t = *r. *)
VariantGep ==
    Program({<<a, p>>, <<b, s>>}, {Gep(p, 1, q), Store(s, q), VGep(p, r), Load(r, t)}, {}, {})
(* p holds r, r holds the fields of a: a collapse behind the wave. *)
CollapseInMemory ==
    Program({<<a, q>>, <<c, p>>, <<b, u>>},
            {Gep(q, 1, r), Store(r, p), Load(p, s), Store(u, s), VGep(s, t), Load(q, y)},
            {}, {})
(* *p = fp's callee; a call through a loaded pointer. *)
IndirectCall ==
    Program({<<f, q>>, <<c, p>>, <<a, r>>}, {Store(q, p), Load(p, fp)},
            {[fp |-> fp, args |-> <<r>>, ret |-> t, dummyVal |-> d, dummyObj |-> m]}, {})
(* Two callees, one an allocator with variable arguments. *)
AllocatorCall ==
    Program({<<f, fp>>, <<g, fp>>, <<b, r>>}, {Store(r, t), Load(t, u)},
            {[fp |-> fp, args |-> <<r>>, ret |-> t, dummyVal |-> d, dummyObj |-> m]}, {})
(* *q = p; r = *q; p = r: the cycle goes through memory. *)
MemoryCycle ==
    Program({<<c, q>>, <<b, s>>}, {Copy(s, p), Store(p, q), Load(q, r), Copy(r, p)}, {}, {})

(* As MemoryCycle, with a cycle t = p; p = t that is merged earlier. *)
NestedCycles ==
    Program({<<c, q>>, <<b, s>>},
            {Copy(s, p), Copy(p, t), Copy(t, p), Store(p, q), Load(q, r), Copy(r, p)}, {}, {})
(* p = phi(r, q, t); q = gep p, 0; t = gep p, 1. *)
TwoGeps ==
    Program({<<a, r>>}, {Copy(r, p), Copy(q, p), Copy(t, p), Gep(p, 0, q), Gep(p, 1, t)},
            {}, {})
(* u = gep r, 1; p = gep u, 1 is out of range; *p = s; t = *u. *)
GepChain ==
    Program({<<a, r>>, <<b, s>>}, {Gep(r, 1, u), Gep(u, 1, p), Store(s, p), Load(u, t)}, {}, {})

(* u = gep r, -2; p = gep u, -3; *p = s; t = *u. *)
NegativeOffsets ==
    Program({<<a, r>>, <<b, r>>, <<c, s>>},
            {Gep(r, -2, u), Gep(u, -3, p), Store(s, p), Load(u, t)}, {}, {})

MCPrograms == {NegativeOffsets, NestedCycles, TwoGeps, GepChain, CopyCycle, PositiveWeightCycle,
               VariantGep, CollapseInMemory, IndirectCall, AllocatorCall, MemoryCycle}

(* As MemoryCycle, and r is dereferenced: u = *r with *s = x. *)
LoadInMemoryCycle ==
    Program({<<c, q>>, <<b, s>>, <<a, x>>},
            {Copy(s, p), Store(p, q), Load(q, r), Copy(r, p), Store(x, s), Load(r, u)}, {}, {})
LoadInMemoryCyclePrograms == {LoadInMemoryCycle}

(* p = phi(r, q); q = gep p, 0. *)
ZeroOffsetCycle ==
    Program({<<a, r>>}, {Copy(r, p), Copy(q, p), Gep(p, 0, q)}, {}, {})
ZeroOffsetCyclePrograms == {ZeroOffsetCycle}

-----------------------------------------------------------------------------
FICallees(S, cs) == {fun \in Fun : fun \in S[cs.fp] /\ MatchArgs(cs, fun)}

(* One round of the inclusion constraints over variables and objects. *)
FIStep(P, S) ==
    LET into(K, n) == {e \in P.edges : e.kind \in K /\ e.dst = n}
        allocates(cs, n) == \E fun \in FICallees(S, cs) : FunInfo[fun].alloc /\ cs.dummyVal = n
        pairs == {z \in P.calls \X Fun : z[2] \in FICallees(S, z[1])}
        params(n) == {w \in UNION {ParamCopies(z[1], z[2]) : z \in pairs} : w[2] = n}
    IN  [n \in Val \cup Base |->
            UNION ({S[n], {w[1][1] : w \in {z \in P.addr : z[2] = n}}}
                   \cup {S[e.src] : e \in into(DirectKind, n)}
                   \cup {UNION {S[o] : o \in S[e.src] \ ConstObj} : e \in into({"load"}, n)}
                   \cup {S[e.src] : e \in {z \in P.edges : /\ z.kind = "store"
                                                        /\ n \in S[z.dst] \ ConstObj}}
                   \cup {S[w[1]] : w \in params(n)}
                   \cup {{cs.dummyObj : cs \in {z \in P.calls : allocates(z, n)}}})]

RECURSIVE FIFix(_, _)
FIFix(P, S) == LET T == FIStep(P, S) IN IF T = S THEN S ELSE FIFix(P, T)

FISolution == [P \in Programs |-> FIFix(P, [n \in Val \cup Base |-> {}])]

Bases(n) == {o[1] : o \in GetPts(n)}

Abstract == INSTANCE PointsToSpec WITH
    Var <- Val, Object <- Base,
    bound <- [v \in Val |-> FISolution[prog][v]],
    sol <- [v \in Val |-> Bases(v)],
    solved <- Solved

(* Wave propagation implements PointsToSpec: no step takes an object from  *)
(* a variable, none adds one that the field-insensitive analysis excludes, *)
(* and normalizePointsTo changes nothing a client sees.                    *)
ImplementsPointsTo == Abstract!Spec
=============================================================================
