------------------------- MODULE FlowSensitiveFIFO -------------------------
(***************************************************************************)
(* FlowSensitive with the worklist as it is, a first-in first-out queue    *)
(* without duplicates that initWorklist fills in the order of the strongly *)
(* connected components and propagate extends.                             *)
(***************************************************************************)
EXTENDS FlowSensitive, Sequences, SequencesExt

CONSTANT Orders \* the orders of the nodes initWorklist may find

ASSUME OrdersAssumption ==
    \A q \in Orders : ToSet(q) = Node /\ Len(q) = Cardinality(Node)

VARIABLE queue

FIFOInit == Init /\ queue \in Orders

(* The edges of a node are a set; its successors are pushed in any order. *)
ProcessHead ==
    /\ queue # << >>
    /\ ProcessNode(Head(queue))
    /\ \E pushed \in SetToSeqs(worklist' \ ToSet(Tail(queue))) :
          queue' = Tail(queue) \o pushed

(* The phis a new edge leads to, and what it brought something, come first. *)
NextRound ==
    /\ queue = << >>
    /\ UpdateCallGraph
    /\ LET dirs == UNION {CallDir[c] : c \in connected' \ connected}
           late == {m \in Node : \/ Late(connected')[m] # {}
                                 \/ Kind[m] = "phi" /\ \E n \in Node : <<n, m>> \in dirs}
       IN
       IF worklist' = {} THEN UNCHANGED queue
       ELSE \E first \in SetToSeqs(late), q \in Orders :
              queue' = first \o SelectSeq(q, LAMBDA n : n \notin late)

FIFONext ==
    \/ ProcessHead
    \/ NextRound
    \/ phase = "done" /\ UNCHANGED <<vars, queue>>

(* One thread that never waits. *)
FIFOSpec ==
    FIFOInit /\ [][FIFONext]_<<vars, queue>> /\ WF_<<vars, queue>>(FIFONext)

(* The rounds end: a node is pushed only when something grew. *)
Terminates == <>(phase = "done")
=============================================================================
