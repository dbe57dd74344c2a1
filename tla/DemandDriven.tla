---------------------------- MODULE DemandDriven ----------------------------
(***************************************************************************)
(* FlowDDA: points-to sets on demand.  A query walks the value-flow graph  *)
(* backwards, item by item; an item is a variable, or an object, at a      *)
(* node.  Items in progress answer with what they have so far, and an item *)
(* whose set grows has those behind it done again.  Answers stay cached    *)
(* from query to query.  The stack of the recursion is explicit here.      *)
(***************************************************************************)
EXTENDS ValueFlow, Sequences

CONSTANTS
    DefNode,      \* the node that defines a variable
    ResolveAt,    \* the indirect calls that lead into or back to a node
    Conservative, \* the answer of Andersen's analysis
    Budgets,      \* values of option -flow-bg
    Orders,       \* the numbers nodes may have; sets of edges are ordered by them
    Queries, NoVar,
    Solution      \* a solution of the equations

VARIABLES
    budget, order,
    pts,       \* cached sets of variables,
    ad,        \* and of objects at stores and nodes of memory SSA
    connected, \* the indirect calls found
    visited,   \* items that answer from the cache
    located,   \* those the current query has walked to
    spent, over,
    overItems, \* queries that were answered by Andersen's analysis
    stack,     \* the calls of findPT in progress, the latest first
    query,     \* the variable asked for, or NoVar
    asked

vars == <<budget, order, pts, ad, connected, visited, located, spent, over, overItems, stack, query, asked>>

TopLevel(n) == Kind[n] \notin {"store", "mssa"}

(* The operand of a store or parameter; parameters define what they use. *)
Operand(n) == CHOOSE v \in Var : Use[n] = {v}
LHS(n) == IF IsParam(n) THEN Operand(n) ELSE Def[n]

Item == Node \X (Var \cup Obj)
DefItem(v) == <<DefNode[v], v>>
Cached(i) == IF TopLevel(i[1]) THEN pts[i[2]] ELSE ad[i[1]][i[2]]

ASSUME DemandAssumption ==
    /\ DefNode \in [Var -> Node] /\ ResolveAt \in [Node -> SUBSET CallSite]
    /\ Conservative \in [Var -> SUBSET Obj]
    /\ Budgets \subseteq Nat /\ Orders \subseteq [Node -> Nat]
    /\ Queries \subseteq Var /\ NoVar \notin Var /\ Var \cap Obj = {}
    /\ \A v \in Var : LET n == DefNode[v] IN
          Kind[n] = "other" \/ (Kind[n] \in Definers /\ Def[n] = v)
    /\ \A n \in Node : IsParam(n) \/ IsStore(n) => \E v \in Var : Use[n] = {v}

(* A direct edge comes from the definition of an operand, or a parameter. *)
ASSUME SourceAssumption ==
    /\ \A e \in DirEdges :
          ~ IsParam(e[1]) => TopLevel(e[1]) /\ Def[e[1]] \in Reads({}, e[2])
    /\ \A c \in Call : \A e \in CallDir[c] :
          ~ IsParam(e[1]) => TopLevel(e[1]) /\ Def[e[1]] \in CallUse[c][e[2]]

ASSUME SolutionAssumption ==
    /\ Solution \in Solutions /\ Solves(Solution)
    /\ \A c \in Call : c[2] \in Solution.pts[FunPtr[c[1]]] => c \in AndersCalls

-----------------------------------------------------------------------------
(* Where an item looks for its set. *)
DirectSources(n) == {<<m, LHS(m)>> : m \in {m \in Node : <<m, n>> \in DirOf(connected)}}

IndirectSources(n, o) ==
    IF o \in ConstantObj THEN {}
    ELSE {<<m, o>> : m \in {m \in Node : <<m, n, o>> \in IndOf(connected)}}

(* The sources of item <<n, x>> for the target o of the pointer, which has *)
(* the targets P.                                                          *)
SourcesViaWeak(n, x, P, o) ==
    IF ~ IsStore(n) THEN IndirectSources(n, o)
    ELSE IndirectSources(n, x) \cup IF o = x THEN {DefItem(Operand(n))} ELSE {}

SourcesVia(n, x, P, o) ==
    IF ~ IsStore(n) THEN IndirectSources(n, o)
    ELSE IF o # x THEN IndirectSources(n, x)
    ELSE {DefItem(Operand(n))} \cup IF o \in Killed(P) THEN {} ELSE IndirectSources(n, x)

(* What depends on a node: the destination, and whether all its items do   *)
(* or only those with the same object.                                     *)
OutEdges(n) ==
    {<<m, TRUE>> : m \in {m \in Node : <<n, m>> \in DirOf(connected)}}
       \cup {<<e[2], Kind[e[2]] = "load">> : e \in {e \in IndOf(connected) : e[1] = n}}

(* A call of findPT: what is still to be asked for, in step "calls" for    *)
(* the functions called here, in "ptr" for the pointer of a load or store, *)
(* in "src" for the sources; then the edges to what must be done again, in *)
(* step "new" those of calls just found, in "out" those of the node.  The  *)
(* last frame is the query itself.                                         *)
Frame(i, step, todo) ==
    [item |-> i, step |-> step, todo |-> todo, ptr |-> {}, left |-> {}, got |-> {}, edges |-> {}]

Fresh(i) == Frame(i, "calls", {DefItem(FunPtr[cs]) : cs \in ResolveAt[i[1]]})

Top == stack[1]
On(s, f) == [s EXCEPT ![1] = f]

(* A call returns: the one that waits for it uses the answer. *)
Resume(s, answer) ==
    IF s = <<>> THEN s
    ELSE IF s[1].step = "ptr" THEN On(s, [s[1] EXCEPT !.ptr = @ \cup answer])
    ELSE IF s[1].step = "src" THEN On(s, [s[1] EXCEPT !.got = @ \cup answer])
    ELSE s

(* findPT, with testOutOfBudget. *)
FindPT(i, seen, s) ==
    /\ visited' = seen \cup {i}
    /\ IF i \in seen
       THEN /\ stack' = Resume(s, Cached(i))
            /\ UNCHANGED <<located, spent, over>>
       ELSE /\ located' = located \cup {i}
            /\ spent' = IF over THEN spent ELSE spent + 1
            /\ over' = (over \/ spent + 1 > budget)
            /\ stack' = IF over' \/ i \in overItems THEN Resume(s, Cached(i)) ELSE <<Fresh(i)>> \o s

-----------------------------------------------------------------------------
Init ==
    /\ budget \in Budgets /\ order \in Orders
    /\ pts = [v \in Var |-> {}] /\ ad = [n \in Node |-> [o \in Obj |-> {}]]
    /\ connected = {} /\ visited = {} /\ located = {} /\ spent = 0 /\ over = FALSE
    /\ overItems = {} /\ stack = <<>> /\ query = NoVar /\ asked = {}

(* Behind a query that used up its budget, items it was not asked for are  *)
(* forgotten to have been visited.                                         *)
ClearedNothing == visited

Cleared == IF over THEN visited \ (located \ overItems) ELSE visited

(* computeDDAPts, resetQuery. *)
Ask(v) ==
    /\ query = NoVar
    /\ query' = v
    /\ visited' = Cleared
    /\ located' = {} /\ spent' = 0 /\ over' = FALSE
    /\ stack' = <<Frame(DefItem(v), "query", {DefItem(v)})>>
    /\ UNCHANGED <<budget, order, pts, ad, connected, overItems, asked>>

(* What a store writes is asked for before what it lets pass. *)
IsNext(j) ==
    /\ j \in Top.todo
    /\ \A x \in Top.todo :
          IF TopLevel(x[1]) = TopLevel(j[1]) THEN order[j[1]] <= order[x[1]] ELSE TopLevel(j[1])

(* The next item of the list at hand; one that is done again is first      *)
(* forgotten to have been visited.                                         *)
Follow(j) ==
    /\ stack # <<>>
    /\ IsNext(j)
    /\ FindPT(j, IF Top.step \in {"new", "out"} THEN visited \ {j} ELSE visited,
              On(stack, [Top EXCEPT !.todo = @ \ {j}]))
    /\ UNCHANGED <<budget, order, pts, ad, connected, overItems, query, asked>>

AtEnd(step) == stack # <<>> /\ Top.step = step /\ Top.todo = {}

Move(f) ==
    /\ stack' = On(stack, f)
    /\ UNCHANGED <<budget, order, pts, ad, connected, visited, located, spent, over, overItems, query, asked>>

(* handleSingleStatement, by the kind of the node. *)
HandleStatement ==
    LET n == Top.item[1] IN
    /\ AtEnd("calls")
    /\ Move(IF Kind[n] \in {"load", "store"}
            THEN [Top EXCEPT !.step = "ptr", !.todo = {DefItem(Ptr[n])}]
            ELSE IF Kind[n] = "addr" THEN [Top EXCEPT !.step = "src", !.got = {AddrOf[n]}]
            ELSE IF Kind[n] = "mssa"
            THEN [Top EXCEPT !.step = "src", !.todo = IndirectSources(n, Top.item[2])]
            ELSE [Top EXCEPT !.step = "src", !.todo = DirectSources(n)])

HandleTargets == AtEnd("ptr") /\ Move([Top EXCEPT !.step = "src", !.left = Top.ptr])

HandleTarget(o) ==
    /\ AtEnd("src")
    /\ o \in Top.left
    /\ Move([Top EXCEPT !.left = @ \ {o},
                        !.todo = SourcesVia(Top.item[1], Top.item[2], Top.ptr, o)])

(* unionDDAPts: the set of item i grows. *)
Union(i, new) ==
    /\ pts' = IF TopLevel(i[1]) THEN [pts EXCEPT ![i[2]] = @ \cup new] ELSE pts
    /\ ad' = IF TopLevel(i[1]) THEN ad ELSE [ad EXCEPT ![i[1]][i[2]] = @ \cup new]

(* updateCallGraphAndSVFG: the calls through the variable of item i. *)
Found(i, answer) == {c \in Call : FunPtr[c[1]] = i[2] /\ c[2] \in answer} \ connected

(* reCompute, up to its first list of edges. *)
ReCompute(i, answer, s) ==
    /\ connected' = connected \cup Found(i, answer)
    /\ stack' = <<[Frame(i, "new", {}) EXCEPT !.edges =
                     {<<e[2], TRUE>> : e \in UNION {CallDir[c] \cup CallInd[c] : c \in Found(i, answer)}}]>> \o s

(* updateCachedPointsTo. *)
Update(i, new, s) ==
    IF new \subseteq Cached(i)
    THEN stack' = Resume(s, Cached(i)) /\ UNCHANGED <<pts, ad, connected>>
    ELSE Union(i, new) /\ ReCompute(i, Cached(i) \cup new, s)

FinishStatement ==
    /\ AtEnd("src")
    /\ Top.left = {}
    /\ Update(Top.item, IF Kind[Top.item[1]] = "gep" THEN Fields(Top.item[1], Top.got) ELSE Top.got,
              Tail(stack))
    /\ UNCHANGED <<budget, order, visited, located, spent, over, overItems, query, asked>>

IsNextEdge(e) == e \in Top.edges /\ \A d \in Top.edges : order[e[1]] <= order[d[1]]

(* reComputeForEdges: an edge, with the items at its destination. *)
NextEdgeAgain(e) ==
    /\ AtEnd("new") \/ AtEnd("out")
    /\ IsNextEdge(e)
    /\ Move([Top EXCEPT !.todo = {j \in located : j[1] = e[1]}])

NextEdge(e) ==
    /\ AtEnd("new") \/ AtEnd("out")
    /\ IsNextEdge(e)
    /\ Move([Top EXCEPT !.edges = @ \ {e},
                        !.todo = {j \in located : j[1] = e[1] /\ (e[2] \/ j[2] = Top.item[2])}])

TransitiveClosure ==
    /\ AtEnd("new") /\ Top.edges = {}
    /\ Move([Top EXCEPT !.step = "out", !.edges = OutEdges(Top.item[1])])

FinishReCompute ==
    /\ AtEnd("out") /\ Top.edges = {}
    /\ stack' = Resume(Tail(stack), Cached(Top.item))
    /\ UNCHANGED <<budget, order, pts, ad, connected, visited, located, spent, over, overItems, query, asked>>

(* handleOutOfBudgetDpm. *)
Downgrade ==
    /\ AtEnd("query") /\ over /\ Top.item \notin overItems
    /\ overItems' = overItems \cup {Top.item}
    /\ Update(Top.item, Conservative[Top.item[2]], stack)
    /\ UNCHANGED <<budget, order, visited, located, spent, over, query, asked>>

Answer ==
    /\ AtEnd("query")
    /\ over => Top.item \in overItems
    /\ stack' = <<>> /\ query' = NoVar
    /\ asked' = asked \cup {query}
    /\ UNCHANGED <<budget, order, pts, ad, connected, visited, located, spent, over, overItems>>

Step ==
    \/ \E j \in Item : Follow(j)
    \/ HandleStatement
    \/ HandleTargets
    \/ \E o \in Obj : HandleTarget(o)
    \/ FinishStatement
    \/ \E e \in Node \X BOOLEAN : NextEdge(e)
    \/ TransitiveClosure
    \/ FinishReCompute
    \/ Downgrade
    \/ Answer

Next == Step \/ \E v \in Queries : Ask(v)

Spec == Init /\ [][Next]_vars /\ WF_vars(Step)

-----------------------------------------------------------------------------
(* Once a query has been answered, the answer is complete: it has what the *)
(* least solution of the equations has, whatever was cached before, found  *)
(* in cycles, cut short by the budget or decided before a call was found.  *)
(* Which objects are Shared is settled at the start: of a call found later *)
(* that makes a function recursive, whose locals isStrongUpdate then takes *)
(* for shared, it says nothing.                                            *)
AnswersComplete ==
    query = NoVar => \A v \in asked : Solution.pts[v] \subseteq pts[v]

(* No query was answered with more than the solution has. *)
NothingAdded == \A i \in overItems : Conservative[i[2]] \subseteq Solution.pts[i[2]]

Right(i) ==
    IF TopLevel(i[1]) THEN Solution.pts[i[2]]
    ELSE IF IsStore(i[1]) THEN Solution.out[i[1]][i[2]] ELSE Solution.in[i[1]][i[2]]

(* No cached set has more than the solution as long as no answer was taken *)
(* from Andersen's analysis that has more: strong updates decided from     *)
(* partial sets and items done again never add what has to be taken back.  *)
WithinSolution ==
    NothingAdded =>
       /\ \A v \in Var : pts[v] \subseteq Solution.pts[v]
       /\ \A n \in Node, o \in Obj : ~ TopLevel(n) => ad[n][o] \subseteq Right(<<n, o>>)

(* Every query is answered: the items that are done again when a set grows *)
(* inside a cycle come to an end, and so does the walk.                    *)
QueriesEnd == query # NoVar ~> query = NoVar
=============================================================================
