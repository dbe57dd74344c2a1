------------------------ MODULE FlowSensitiveProofs ------------------------
(***************************************************************************)
(* Proofs about FlowSensitive, for every value-flow graph.                 *)
(***************************************************************************)
EXTENDS FlowSensitive, TLAPS

(* What the edges of the graph carry is made of objects. *)
LEMMA GraphTypes ==
    ASSUME NEW conn \in SUBSET AndersCalls
    PROVE  /\ DirOf(conn) \subseteq Node \X Node
           /\ IndOf(conn) \subseteq Node \X Node \X Obj
           /\ \A n, m \in Node : Carried(IndOf(conn), n, m) \subseteq Obj
<1>1. DirOf(conn) \subseteq Node \X Node
  BY TypeAssumption DEF DirOf
<1>2. IndOf(conn) \subseteq Node \X Node \X Obj
  BY TypeAssumption DEF IndOf
<1>3. \A O \in SUBSET Obj : Expand(O) \subseteq Obj
  BY TypeAssumption DEF Expand
<1>4. ASSUME NEW n \in Node, NEW m \in Node
      PROVE  Carried(IndOf(conn), n, m) \subseteq Obj
  <2>1. {e[3] : e \in {e \in IndOf(conn) : e[1] = n /\ e[2] = m}} \subseteq Obj
    BY <1>2
  <2> QED BY <2>1, <1>3 DEF Carried
<1> QED BY <1>1, <1>2, <1>4

(* The operands of a node are variables. *)
LEMMA UsesTyped ==
    ASSUME NEW conn \in SUBSET Call, NEW n \in Node
    PROVE  Uses(conn, n) \subseteq Var /\ Reads(conn, n) \subseteq Var
BY TypeAssumption DEF Uses, Reads

(* What propagate and clearAllDFOutVarFlag have done when they return. *)
Finished(n, changed, p, out, iu, ou) ==
    /\ pts' \in [Var -> SUBSET Obj] /\ dfIn' \in [Node -> [Obj -> SUBSET Obj]]
    /\ inUpd' \in [Node -> SUBSET Obj] /\ worklist' \subseteq Node
    /\ dfOut' = out /\ outUpd' = [ou EXCEPT ![n] = {}]
    /\ UNCHANGED <<callMap, connected, phase>>
    /\ worklist \ {n} \subseteq worklist'
    /\ \A v \in Var : p[v] \subseteq pts'[v]
    /\ \A v \in Var : pts'[v] # p[v] =>
          \E m \in worklist' : IsParam(n) /\ <<n, m>> \in Dir /\ Def[m] = v
    /\ changed /\ IsParam(n) => \A m \in Node : <<n, m>> \in Dir =>
          UNION {p[v] : v \in Uses(connected, n)} \subseteq pts'[Def[m]]
    /\ changed /\ ~ IsParam(n) => \A m \in Node : <<n, m>> \in Dir => m \in worklist'
    /\ \A m \in Node, o \in Obj : dfIn[m][o] \subseteq dfIn'[m][o]
    /\ \A m \in Node, o \in Obj : dfIn'[m][o] # dfIn[m][o] =>
          m \in worklist' /\ o \in inUpd'[m]
    /\ \A m \in Node : iu[m] \subseteq inUpd'[m]
    /\ \A m \in Node, o \in Obj :
          /\ changed
          /\ o \in Carried(Ind, n, m)
          /\ o \in HasNew(IF IsStore(n) THEN ou ELSE iu, n)
          => Flowing(n, out)[o] \subseteq dfIn'[m][o]
    /\ ~ IsStore(n) => \A o \in Obj : dfIn'[n][o] = dfIn[n][o]
    /\ \A m \in Node, o \in Obj : dfIn'[m][o] \subseteq dfIn[m][o] \cup
          (IF o \in Carried(Ind, n, m) THEN Flowing(n, out)[o] ELSE {})
    /\ \A v \in Var : pts'[v] \subseteq p[v] \cup
          (IF \E m \in Node : IsParam(n) /\ <<n, m>> \in Dir /\ Def[m] = v
           THEN UNION {p[w] : w \in Uses(connected, n)} ELSE {})

(* propagate and clearAllDFOutVarFlag: what they change, and what the      *)
(* worklist and the marks say about it.                                    *)
LEMMA FinishFacts ==
    ASSUME TypeOK, NEW n \in Node, NEW changed \in BOOLEAN,
           NEW p \in [Var -> SUBSET Obj], NEW out \in [Node -> [Obj -> SUBSET Obj]],
           NEW iu \in [Node -> SUBSET Obj], NEW ou \in [Node -> SUBSET Obj],
           Finish(n, changed, p, out, iu, ou)
    PROVE  Finished(n, changed, p, out, iu, ou)
<1> DEFINE news == HasNew(IF IsStore(n) THEN ou ELSE iu, n)
           sent(m, o) == IF changed /\ o \in Carried(Ind, n, m) \cap news
                         THEN Flowing(n, out)[o] ELSE {}
           grown(m) == {o \in Obj : ~ (sent(m, o) \subseteq dfIn[m][o])}
           used == UNION {p[v] : v \in Uses(connected, n)}
           params == IF changed /\ IsParam(n) THEN {m \in Node : <<n, m>> \in Dir} ELSE {}
           late == {m \in params : ~ (used \subseteq p[Def[m]])}
           direct == IF changed /\ ~ IsParam(n) THEN {m \in Node : <<n, m>> \in Dir} ELSE {}
<1>1. /\ pts' = [v \in Var |-> p[v] \cup IF \E m \in params : Def[m] = v THEN used ELSE {}]
      /\ dfIn' = [m \in Node |-> [o \in Obj |-> dfIn[m][o] \cup sent(m, o)]]
      /\ inUpd' = [m \in Node |-> iu[m] \cup grown(m)]
      /\ dfOut' = out /\ outUpd' = [ou EXCEPT ![n] = {}]
      /\ worklist' = (worklist \ {n}) \cup direct \cup late
                        \cup {m \in Node : grown(m) # {}}
      /\ UNCHANGED <<callMap, connected, phase>>
  BY DEF Finish, calls
<1>2. used \in SUBSET Obj /\ Uses(connected, n) \subseteq Var /\ Def \in [Node -> Var]
  <2>1. Uses(connected, n) \subseteq Var
    BY TypeAssumption, UsesTyped DEF TypeOK
  <2> QED BY <2>1, TypeAssumption
<1>3. \A o \in Obj : Flowing(n, out)[o] \in SUBSET Obj
  BY DEF Flowing, TypeOK
<1>4. \A m \in Node, o \in Obj : sent(m, o) \in SUBSET Obj
  BY <1>3
<1> HIDE DEF sent, used
<1>5. pts' \in [Var -> SUBSET Obj] /\ dfIn' \in [Node -> [Obj -> SUBSET Obj]]
  BY <1>1, <1>2, <1>4 DEF TypeOK
<1>6. inUpd' \in [Node -> SUBSET Obj] /\ worklist' \subseteq Node
  BY <1>1 DEF TypeOK
<1>7. \A v \in Var : pts'[v] # p[v] =>
         \E m \in worklist' : IsParam(n) /\ <<n, m>> \in Dir /\ Def[m] = v
  <2> SUFFICES ASSUME NEW v \in Var, pts'[v] # p[v]
               PROVE  \E m \in worklist' : IsParam(n) /\ <<n, m>> \in Dir /\ Def[m] = v
    OBVIOUS
  <2>1. pts'[v] = p[v] \cup IF \E m \in params : Def[m] = v THEN used ELSE {}
    BY <1>1
  <2>2. PICK m \in params : Def[m] = v
    BY <2>1
  <2>3. ~ (used \subseteq p[v])
    BY <2>1, <2>2
  <2>4. m \in late
    BY <2>2, <2>3
  <2> QED BY <2>4, <2>2, <1>1
<1>8. changed /\ IsParam(n) => \A m \in Node : <<n, m>> \in Dir => used \subseteq pts'[Def[m]]
  BY <1>1, <1>2
<1>9. \A m \in Node, o \in Obj : dfIn[m][o] \subseteq dfIn'[m][o]
  BY <1>1
<1>10. \A m \in Node, o \in Obj : dfIn'[m][o] # dfIn[m][o] => m \in worklist' /\ o \in inUpd'[m]
  <2> SUFFICES ASSUME NEW m \in Node, NEW o \in Obj, dfIn'[m][o] # dfIn[m][o]
               PROVE  m \in worklist' /\ o \in inUpd'[m]
    OBVIOUS
  <2>1. dfIn'[m][o] = dfIn[m][o] \cup sent(m, o)
    BY <1>1
  <2>2. o \in grown(m)
    BY <2>1
  <2> QED BY <2>2, <1>1
<1>11. \A m \in Node, o \in Obj :
          changed /\ o \in Carried(Ind, n, m) /\ o \in news
             => Flowing(n, out)[o] \subseteq dfIn'[m][o]
  BY <1>1 DEF sent
<1>12. \A m \in Node, o \in Obj : dfIn'[m][o] \subseteq dfIn[m][o] \cup
          (IF o \in Carried(Ind, n, m) THEN Flowing(n, out)[o] ELSE {})
  BY <1>1 DEF sent
<1>13. ~ IsStore(n) => \A o \in Obj : dfIn'[n][o] = dfIn[n][o]
  BY <1>12, <1>9 DEF Flowing
<1>14. \A v \in Var : pts'[v] \subseteq p[v] \cup
          (IF \E m \in Node : IsParam(n) /\ <<n, m>> \in Dir /\ Def[m] = v THEN used ELSE {})
  BY <1>1
<1>15. changed /\ ~ IsParam(n) => \A m \in Node : <<n, m>> \in Dir => m \in worklist'
  BY <1>1
<1>16. (\A v \in Var : p[v] \subseteq pts'[v]) /\ (\A m \in Node : iu[m] \subseteq inUpd'[m])
  BY <1>1
<1>17. worklist \ {n} \subseteq worklist'
  BY <1>1
<1> QED BY <1>1, <1>5, <1>6, <1>7, <1>8, <1>9, <1>10, <1>11, <1>12, <1>13, <1>14, <1>15,
           <1>16, <1>17 DEF used, Finished

-----------------------------------------------------------------------------
(* An equation stays true while what it reads does not change and what it  *)
(* writes grows.                                                           *)
LEMMA HoldsKept ==
    ASSUME NEW s \in Solutions, NEW t \in Solutions, NEW k \in Node, Holds(s, k),
           \A v \in Reads(s.conn, k) : t.pts[v] = s.pts[v],
           \A o \in Obj : t.in[k][o] = s.in[k][o],
           \A v \in Var : s.pts[v] \subseteq t.pts[v],
           \A o \in Obj : s.out[k][o] \subseteq t.out[k][o],
           t.conn = s.conn
    PROVE  Holds(t, k)
<1>1. Def[k] \in Var /\ Ptr[k] \in Var /\ \A m \in Node : Def[m] \in Var
  BY TypeAssumption
<1>2. Kind[k] \in {"copy", "phi", "gep", "aparm", "fret", "store"} => UseOf(t, k) = UseOf(s, k)
  BY DEF UseOf, Reads
<1>3. Kind[k] \in {"load", "store"} => t.pts[Ptr[k]] = s.pts[Ptr[k]]
  BY DEF Reads
<1>4. Read(s.pts[Ptr[k]]) \subseteq Obj
  BY <1>1, TypeAssumption DEF Read, Expand, Solutions
<1>5. Kind[k] = "load" =>
         UNION {t.in[k][o] : o \in Read(t.pts[Ptr[k]])} = UNION {s.in[k][o] : o \in Read(s.pts[Ptr[k]])}
  BY <1>3, <1>4
<1>6. Kind[k] \in {"addr", "copy", "phi", "gep", "load"} => Defined(t, k) \subseteq t.pts[Def[k]]
  <2>1. Kind[k] \in {"addr", "copy", "phi", "gep", "load"} => Defined(t, k) = Defined(s, k)
    BY <1>2, <1>5 DEF Defined
  <2> QED BY <2>1, <1>1 DEF Holds
<1>7. IsStore(k) => \A o \in Obj : Behind(t, k, o) \subseteq t.out[k][o]
  <2>1. IsStore(k) => \A o \in Obj : Behind(t, k, o) = Behind(s, k, o)
    BY <1>2, <1>3 DEF Behind, IsStore
  <2> QED BY <2>1 DEF Holds
<1>8. IsParam(k) => \A m \in Node : <<k, m>> \in DirOf(t.conn) => UseOf(t, k) \subseteq t.pts[Def[m]]
  BY <1>1, <1>2 DEF Holds, IsParam
<1> QED BY <1>6, <1>7, <1>8 DEF Holds

LEMMA AnswerTyped == ASSUME TypeOK PROVE Answer \in Solutions
BY DEF TypeOK, Answer, Solutions

-----------------------------------------------------------------------------
(* What the processing of node n hands to propagate: sets that grew only   *)
(* where n writes, with the marks and the flag that tell, and marks taken  *)
(* away only for what n has passed on.                                     *)
Proper(n, changed, p, out, iu, ou) ==
    /\ \A v \in Var : /\ pts[v] \subseteq p[v]
                      /\ p[v] # pts[v] =>
                            v = Def[n] /\ changed /\ Kind[n] \in {"addr", "copy", "phi", "gep", "load"}
    /\ \A m \in Node, o \in Obj :
          /\ dfOut[m][o] \subseteq out[m][o]
          /\ out[m][o] # dfOut[m][o] => m = n /\ IsStore(n) /\ changed /\ o \in ou[n]
    /\ \A m \in Node : m # n => iu[m] = inUpd[m] /\ ou[m] = {}
    /\ iu[n] \subseteq inUpd[n]
    /\ iu[n] # inUpd[n] => Kind[n] \in {"load", "store"}
    /\ \A o \in Obj : o \notin HasNew(iu, n) =>
          /\ Kind[n] = "load" => dfIn[n][o] \subseteq p[Def[n]]
          /\ IsStore(n) => dfIn[n][o] \subseteq out[n][o]
    /\ Kind[n] \in {"mssa", "aparm", "fret", "fparm", "aret"} => changed
    /\ (\A v \in Reads(connected, n) : p[v] = pts[v]) /\ ~ IsParam(n) =>
          Holds([pts |-> p, in |-> dfIn, out |-> out, conn |-> connected], n)

(* The definition of a variable leads to its readers. *)
LEMMA ReadersLinked ==
    ASSUME NEW conn \in SUBSET Call, NEW n \in Node, NEW m \in Node,
           Kind[n] \in Definers, Def[n] \in Reads(conn, m)
    PROVE  <<n, m>> \in DirOf(conn)
<1>1. CASE Def[n] \in Reads({}, m)
  BY <1>1, DefUseAssumption DEF DirOf
<1>2. CASE Def[n] \notin Reads({}, m)
  <2>1. PICK c \in conn : Def[n] \in CallUse[c][m]
    BY <1>2 DEF Reads, Uses
  <2> QED BY <2>1, DefUseAssumption DEF DirOf
<1> QED BY <1>1, <1>2

LEMMA HasNewFacts ==
    ASSUME NEW a \in [Node -> SUBSET Obj], NEW k \in Node
    PROVE  /\ a[k] \subseteq HasNew(a, k)
           /\ \A b \in [Node -> SUBSET Obj] : a[k] \subseteq b[k] => HasNew(a, k) \subseteq HasNew(b, k)
BY TypeAssumption DEF HasNew

LEMMA FinishMarks ==
    ASSUME TypeOK, MarksCover, NEW n \in Node, NEW changed \in BOOLEAN,
           NEW p \in [Var -> SUBSET Obj], NEW out \in [Node -> [Obj -> SUBSET Obj]],
           NEW iu \in [Node -> SUBSET Obj], NEW ou \in [Node -> SUBSET Obj],
           Proper(n, changed, p, out, iu, ou), Finish(n, changed, p, out, iu, ou)
    PROVE  MarksCover'
<1>0. Finished(n, changed, p, out, iu, ou)
  BY FinishFacts
<1>1. \A v \in Var : pts[v] \subseteq pts'[v]
  BY <1>0 DEF Proper, Finished
<1>2. Ind' = Ind
  BY <1>0 DEF Ind, Finished
<1>3. outUpd' = [k \in Node |-> {}]
  <2>1. outUpd' = [ou EXCEPT ![n] = {}] /\ \A m \in Node : m # n => ou[m] = {}
    BY <1>0 DEF Proper, Finished
  <2> QED BY <2>1
<1>4. \A k \in Node, o \in Obj : o \notin HasNew(inUpd', k) =>
         dfIn'[k][o] = dfIn[k][o] /\ o \notin HasNew(iu, k)
  BY <1>0, HasNewFacts DEF Finished
<1>5. \A k \in Node : iu[k] = inUpd[k] => HasNew(iu, k) = HasNew(inUpd, k)
  BY DEF HasNew
<1>6. ASSUME NEW k \in Node, NEW m \in Node, NEW o \in Carried(Ind, k, m)
      PROVE  \/ Flowing(k, dfOut)'[o] \subseteq dfIn'[m][o]
             \/ ~ IsStore(k) /\ k \in worklist' /\ o \in HasNew(inUpd', k)
  <2>1. o \in Obj
    BY GraphTypes DEF Ind, TypeOK
  <2>2. dfIn[m][o] \subseteq dfIn'[m][o]
    BY <2>1, <1>0 DEF Finished
  <2>3. \/ Flowing(k, dfOut)[o] \subseteq dfIn[m][o]
        \/ ~ IsStore(k) /\ k \in worklist /\ o \in HasNew(inUpd, k)
    BY DEF MarksCover, FlowCovered
  <2>4. CASE IsStore(k)
    <3>1. dfOut' = out /\ Flowing(k, dfOut)' = out[k] /\ Flowing(k, dfOut) = dfOut[k]
      BY <2>4, <1>0 DEF Flowing, Finished
    <3>2. CASE out[k][o] = dfOut[k][o]
      BY <3>1, <3>2, <2>2, <2>3, <2>4
    <3>3. CASE out[k][o] # dfOut[k][o]
      <4>1. k = n /\ changed /\ o \in HasNew(ou, n)
        BY <3>3, <2>1, HasNewFacts DEF Proper
      <4>2. Flowing(n, out)[o] \subseteq dfIn'[m][o]
        BY <4>1, <2>1, <2>4, <1>0 DEF Finished
      <4> QED BY <4>1, <4>2, <3>1, <2>4 DEF Flowing
    <3> QED BY <3>2, <3>3
  <2>5. CASE ~ IsStore(k)
    <3>1. Flowing(k, dfOut)' = dfIn'[k] /\ Flowing(k, dfOut) = dfIn[k] /\ Flowing(k, out) = dfIn[k]
      BY <2>5 DEF Flowing
    <3>2. CASE dfIn'[k][o] # dfIn[k][o]
      BY <3>2, <2>1, <2>5, <1>0, HasNewFacts DEF Finished
    <3>3. CASE dfIn'[k][o] = dfIn[k][o] /\ dfIn[k][o] \subseteq dfIn[m][o]
      BY <3>1, <3>3, <2>2
    <3>4. CASE dfIn'[k][o] = dfIn[k][o] /\ k \in worklist /\ o \in HasNew(inUpd, k) /\ k # n
      <4>1. iu[k] = inUpd[k] /\ iu[k] \subseteq inUpd'[k] /\ k \in worklist'
        BY <3>4, <1>0 DEF Proper, Finished
      <4>2. HasNew(inUpd, k) \subseteq HasNew(inUpd', k)
        BY <4>1, <1>0, HasNewFacts DEF Finished, TypeOK
      <4> QED BY <4>1, <4>2, <3>4, <2>5
    <3>5. CASE dfIn'[k][o] = dfIn[k][o] /\ o \in HasNew(inUpd, k) /\ k = n
      <4>1. Kind[k] \in {"store", "mssa"}
        <5>1. PICK e \in Ind : e[1] = k
          BY DEF Carried, Expand
        <5> QED BY <5>1, EdgeAssumption DEF Ind, IndOf, TypeOK
      <4>2. changed /\ iu[n] = inUpd[n]
        BY <4>1, <3>5, <2>5 DEF Proper, IsStore
      <4>3. Flowing(n, out)[o] \subseteq dfIn'[m][o]
        BY <4>2, <3>5, <2>1, <2>5, <1>0, <1>5 DEF Finished
      <4> QED BY <4>3, <3>1, <3>5
    <3> QED BY <3>1, <3>2, <3>3, <3>4, <3>5, <2>3
  <2> QED BY <2>4, <2>5
<1>7. FlowCovered'
  BY <1>2, <1>3, <1>6 DEF FlowCovered
<1>8. ASSUME NEW k \in Node, Kind[k] = "load" PROVE LoadCovered(k)'
  <2> SUFFICES ASSUME NEW o \in Obj, o \notin HasNew(inUpd', k)
               PROVE  dfIn'[k][o] \subseteq pts'[Def[k]]
    BY DEF LoadCovered
  <2>1. Def[k] \in Var /\ dfIn'[k][o] = dfIn[k][o] /\ o \notin HasNew(iu, k)
    BY <1>4, TypeAssumption
  <2>2. CASE k = n
    <3>1. p[Def[k]] \subseteq pts'[Def[k]]
      BY <2>1, <1>0 DEF Finished
    <3> QED BY <3>1, <2>1, <2>2, <1>8 DEF Proper
  <2>3. CASE k # n
    BY <2>1, <2>3, <1>1, <1>8, <1>5 DEF Proper, MarksCover, LoadCovered
  <2> QED BY <2>2, <2>3
<1>9. ASSUME NEW k \in Node, IsStore(k) PROVE StoreCovered(k)'
  <2> SUFFICES ASSUME NEW o \in Obj, o \notin HasNew(inUpd', k)
               PROVE  dfIn'[k][o] \subseteq out[k][o]
    BY <1>0 DEF StoreCovered, Finished
  <2>1. dfIn'[k][o] = dfIn[k][o] /\ o \notin HasNew(iu, k)
    BY <1>4
  <2>2. CASE k = n
    BY <2>1, <2>2, <1>9 DEF Proper
  <2>3. CASE k # n
    BY <2>1, <2>3, <1>9, <1>5 DEF Proper, MarksCover, StoreCovered
  <2> QED BY <2>2, <2>3
<1> QED BY <1>7, <1>8, <1>9 DEF MarksCover

LEMMA FinishWorklist ==
    ASSUME TypeOK, WorklistCovers, NEW n \in Node, NEW changed \in BOOLEAN,
           NEW p \in [Var -> SUBSET Obj], NEW out \in [Node -> [Obj -> SUBSET Obj]],
           NEW iu \in [Node -> SUBSET Obj], NEW ou \in [Node -> SUBSET Obj],
           Proper(n, changed, p, out, iu, ou), Finish(n, changed, p, out, iu, ou)
    PROVE  WorklistCovers'
<1> DEFINE mid == [pts |-> p, in |-> dfIn, out |-> out, conn |-> connected]
<1>1. Finished(n, changed, p, out, iu, ou)
  BY FinishFacts
<1>2. connected' = connected /\ Dir' = Dir /\ \A k \in Node : Reads(connected', k) = Reads(connected, k)
  BY <1>1 DEF Finished, Dir
<1>3. Answer \in Solutions /\ mid \in Solutions /\ Answer' \in Solutions
  BY <1>1, AnswerTyped DEF Finished, TypeOK, Solutions, Answer
<1>4. \A m \in worklist' : <<n, m>> \in Dir /\ IsParam(n) => Kind[m] \in {"fparm", "aret"}
  <2>1. Dir \subseteq DirEdges \cup UNION {CallDir[c] : c \in Call}
    BY TypeAssumption DEF Dir, DirOf, TypeOK
  <2> QED BY <2>1, EdgeAssumption DEF IsParam
<1>5. ASSUME NEW k \in Node, NEW v \in Reads(connected, k), pts'[v] # p[v]
      PROVE  Pending(k)'
  <2>1. v \in Var
    BY UsesTyped DEF TypeOK
  <2>2. PICK m \in worklist' : IsParam(n) /\ <<n, m>> \in Dir /\ Def[m] = v
    BY <2>1, <1>5, <1>1 DEF Finished
  <2> QED BY <2>2, <1>2, <1>4 DEF Pending
<1>6. ASSUME NEW k \in Node, NEW v \in Reads(connected, k), p[v] # pts[v]
      PROVE  k \in worklist'
  <2>1. v \in Var
    BY UsesTyped DEF TypeOK
  <2>2. v = Def[n] /\ changed /\ Kind[n] \in {"addr", "copy", "phi", "gep", "load"}
    BY <2>1, <1>6 DEF Proper
  <2>3. <<n, k>> \in Dir
    BY <2>2, <1>6, ReadersLinked DEF TypeOK, Dir, Definers
  <2> QED BY <2>2, <2>3, <1>1 DEF Finished, IsParam
<1>7. ASSUME NEW k \in Node, Pending(k) PROVE k \in worklist' \/ Pending(k)'
  <2>1. PICK m \in worklist : Kind[m] \in {"fparm", "aret"} /\ Def[m] \in Reads(connected, k)
    BY <1>7 DEF Pending
  <2>2. CASE m # n
    BY <2>1, <2>2, <1>1, <1>2 DEF Finished, Pending
  <2>3. CASE m = n
    <3>1. <<n, k>> \in Dir
      BY <2>1, <2>3, ReadersLinked DEF TypeOK, Dir, Definers
    <3> QED BY <3>1, <2>1, <2>3, <1>1 DEF Proper, Finished, IsParam
  <2> QED BY <2>2, <2>3
<1>8. ASSUME NEW s \in {Answer, mid}, NEW k \in Node, Holds(s, k),
             k \notin worklist', ~ Pending(k)'
      PROVE  Holds(Answer', k)
  <2>1. \A v \in Reads(connected, k) : pts'[v] = pts[v] /\ p[v] = pts[v]
    BY <1>5, <1>6, <1>8
  <2>2. \A o \in Obj : dfIn'[k][o] = dfIn[k][o]
    BY <1>1, <1>8 DEF Finished
  <2>3. \A v \in Var : pts[v] \subseteq pts'[v] /\ p[v] \subseteq pts'[v]
    BY <1>1 DEF Finished, Proper
  <2>4. \A o \in Obj : dfOut[k][o] \subseteq out[k][o] /\ dfOut' = out
    BY <1>1 DEF Finished, Proper
  <2>5. /\ s \in Solutions /\ s.conn = connected /\ s.in = dfIn
        /\ (s.pts = pts /\ s.out = dfOut) \/ (s.pts = p /\ s.out = out)
    BY <1>3, <1>8 DEF Answer
  <2>6. /\ Answer'.conn = connected /\ Answer'.pts = pts'
        /\ Answer'.in = dfIn' /\ Answer'.out = dfOut'
    BY <1>2 DEF Answer
  <2>7. /\ \A v \in Reads(s.conn, k) : Answer'.pts[v] = s.pts[v]
        /\ \A o \in Obj : Answer'.in[k][o] = s.in[k][o]
        /\ \A v \in Var : s.pts[v] \subseteq Answer'.pts[v]
        /\ \A o \in Obj : s.out[k][o] \subseteq Answer'.out[k][o]
        /\ Answer'.conn = s.conn
    BY <2>1, <2>2, <2>3, <2>4, <2>5, <2>6
  <2> HIDE DEF mid
  <2> QED BY <2>5, <2>7, <1>3, <1>8, HoldsKept
<1>9. ASSUME IsParam(n), n \notin worklist', ~ Pending(n)' PROVE Holds(Answer', n)
  <2>1. \A v \in Uses(connected, n) : pts'[v] = p[v]
    BY <1>5, <1>9 DEF Reads, IsParam
  <2>2. UseOf(Answer', n) = UNION {p[v] : v \in Uses(connected, n)}
    <3>1. Answer'.pts = pts' /\ Answer'.conn = connected
      BY <1>2 DEF Answer
    <3>2. UNION {pts'[v] : v \in Uses(connected, n)} = UNION {p[v] : v \in Uses(connected, n)}
      BY <2>1, SMT
    <3> QED BY <3>1, <3>2, Zenon DEF UseOf
  <2>3. changed
    BY <1>9 DEF Proper, IsParam
  <2>4. \A m \in Node : <<n, m>> \in Dir => UseOf(Answer', n) \subseteq pts'[Def[m]]
    BY <2>2, <2>3, <1>1, <1>9 DEF Finished
  <2> QED BY <2>4, <1>2, <1>9 DEF Holds, IsParam, IsStore, Answer, Dir
<1>10. ASSUME NEW k \in Node PROVE k \in worklist' \/ Pending(k)' \/ Holds(Answer', k)
  <2>1. CASE k = n /\ ~ IsParam(n)
    <3>1. CASE \A v \in Reads(connected, n) : p[v] = pts[v]
      <4>1. Holds(mid, n)
        BY <3>1, <2>1 DEF Proper
      <4> QED BY <4>1, <2>1, <1>8
    <3> QED BY <3>1, <2>1, <1>6
  <2>2. CASE k = n /\ IsParam(n)
    BY <2>2, <1>9
  <2>3. CASE k # n
    <3>1. k \in worklist => k \in worklist'
      BY <2>3, <1>1 DEF Finished
    <3>2. CASE Holds(Answer, k)
      BY <3>2, <1>8
    <3> QED BY <3>1, <3>2, <1>7 DEF WorklistCovers
  <2> QED BY <2>1, <2>2, <2>3
<1>11. \A k \in Node : Holds(Answer, k)' <=> Holds(Answer', k)
  BY DEF Holds, Defined, UseOf, Behind
<1> QED BY <1>10, <1>11 DEF WorklistCovers

-----------------------------------------------------------------------------
(* Nothing is written that the equation of the node does not ask for. *)
Justified(n, p, out) ==
    /\ \A v \in Var : p[v] \subseteq pts[v] \cup
          (IF v = Def[n] /\ Kind[n] \in {"addr", "copy", "phi", "gep", "load"}
           THEN Defined(Answer, n) ELSE {})
    /\ \A m \in Node, o \in Obj : out[m][o] \subseteq dfOut[m][o] \cup
          (IF m = n /\ IsStore(n) THEN Behind(Answer, n, o) ELSE {})

(* A node has been processed as it should. *)
Processed(n) ==
    \E changed \in BOOLEAN, p \in [Var -> SUBSET Obj], out \in [Node -> [Obj -> SUBSET Obj]],
       iu \in [Node -> SUBSET Obj], ou \in [Node -> SUBSET Obj] :
          /\ Proper(n, changed, p, out, iu, ou)
          /\ Justified(n, p, out)
          /\ Finish(n, changed, p, out, iu, ou)

LEMMA UseTyped ==
    ASSUME TypeOK, NEW n \in Node
    PROVE  UseOf(Answer, n) \in SUBSET Obj /\ UseOf(Answer, n) = Used(n)
<1>1. UseOf(Answer, n) = UNION {pts[v] : v \in Uses(connected, n)}
  BY DEF UseOf, Answer
<1>2. Uses(connected, n) \subseteq Var
  BY UsesTyped DEF TypeOK
<1>3. \A v \in Uses(connected, n) : pts[v] \subseteq Obj
  BY <1>2 DEF TypeOK
<1>4. UNION {pts[v] : v \in Uses(connected, n)} \subseteq Obj
  BY <1>3
<1> QED BY <1>1, <1>4 DEF Used

LEMMA AssignProper ==
    ASSUME TypeOK, MarksCover, NEW n \in Node, NEW new \in SUBSET Obj,
           NEW iu \in [Node -> SUBSET Obj],
           Kind[n] \in {"addr", "copy", "phi", "gep", "load"},
           new \subseteq Defined(Answer, n), Defined(Answer, n) \subseteq pts[Def[n]] \cup new,
           \A m \in Node : m # n => iu[m] = inUpd[m],
           iu[n] \subseteq inUpd[n], iu[n] # inUpd[n] => Kind[n] = "load",
           Kind[n] = "load" => \A o \in Obj : o \notin HasNew(iu, n) =>
              dfIn[n][o] \subseteq pts[Def[n]] \cup new,
           Assign(n, new, iu)
    PROVE  Processed(n)
<1> DEFINE changed == ~ (new \subseteq pts[Def[n]])
           p == [pts EXCEPT ![Def[n]] = @ \cup new]
           mid == [pts |-> p, in |-> dfIn, out |-> dfOut, conn |-> connected]
<1>1. Def[n] \in Var /\ Ptr[n] \in Var
  BY TypeAssumption
<1>2. p \in [Var -> SUBSET Obj] /\ p[Def[n]] = pts[Def[n]] \cup new
      /\ \A v \in Var : v # Def[n] => p[v] = pts[v]
  BY <1>1 DEF TypeOK
<1>3. \A v \in Var : p[v] # pts[v] => v = Def[n] /\ changed
  BY <1>2
<1>4. \A m \in Node : outUpd[m] = {}
  BY DEF MarksCover, FlowCovered
<1> HIDE DEF p
<1>5. ASSUME \A v \in Reads(connected, n) : p[v] = pts[v] PROVE Holds(mid, n)
  <2>1. Kind[n] \in {"copy", "phi", "gep"} => UseOf(mid, n) = UseOf(Answer, n)
    BY <1>5 DEF UseOf, Answer, Reads
  <2>2. Kind[n] = "load" => p[Ptr[n]] = pts[Ptr[n]]
    BY <1>5 DEF Reads
  <2>3. Defined(mid, n) = Defined(Answer, n)
    <3>1. CASE Kind[n] = "load"
      BY <3>1, <2>2 DEF Defined, Answer
    <3>2. CASE Kind[n] # "load"
      <4>1. UseOf(mid, n) = UseOf(Answer, n) \/ Kind[n] = "addr"
        BY <2>1, <3>2
      <4> QED BY <4>1, <3>2 DEF Defined
    <3> QED BY <3>1, <3>2
  <2>4. Defined(mid, n) \subseteq p[Def[n]]
    BY <2>3, <1>2
  <2> QED BY <2>4 DEF Holds, IsStore, IsParam
<1>6. Proper(n, changed, p, dfOut, iu, outUpd)
  BY <1>2, <1>3, <1>4, <1>5 DEF Proper, IsStore, IsParam
<1>7. Justified(n, p, dfOut)
  BY <1>2 DEF Justified, IsStore
<1>8. Finish(n, changed, p, dfOut, iu, outUpd)
  BY DEF Assign, p
<1>9. changed \in BOOLEAN /\ outUpd \in [Node -> SUBSET Obj] /\ dfOut \in [Node -> [Obj -> SUBSET Obj]]
  BY DEF TypeOK
<1> QED BY <1>2, <1>6, <1>7, <1>8, <1>9 DEF Processed

(* Copies, phis, fields and allocations. *)
LEMMA CopyProper ==
    ASSUME TypeOK, MarksCover, NEW n \in Node,
           ProcessAddr(n) \/ ProcessCopy(n) \/ ProcessPhi(n) \/ ProcessGep(n)
    PROVE  Processed(n)
<1>1. Kind[n] \in {"addr", "copy", "phi", "gep"} /\ Assign(n, Defined(Answer, n), inUpd)
  BY DEF ProcessAddr, ProcessCopy, ProcessPhi, ProcessGep, Defined, UseOf, Used, Answer
<1>2. UseOf(Answer, n) \in SUBSET Obj
  BY UseTyped
<1>3. Fields(n, UseOf(Answer, n)) \subseteq Obj
  BY <1>2, TypeAssumption DEF Fields
<1>4. Defined(Answer, n) \in SUBSET Obj
  BY <1>1, <1>2, <1>3, TypeAssumption DEF Defined
<1>5. inUpd \in [Node -> SUBSET Obj]
  BY DEF TypeOK
<1> QED BY <1>1, <1>4, <1>5, AssignProper

LEMMA LoadProper ==
    ASSUME TypeOK, MarksCover, NEW n \in Node, ProcessLoad(n)
    PROVE  Processed(n)
<1> DEFINE fresh == Read(pts[Ptr[n]]) \cap HasNew(inUpd, n)
           new == UNION {dfIn[n][o] : o \in fresh}
           iu == [inUpd EXCEPT ![n] = @ \ fresh]
<1>1. Kind[n] = "load" /\ Assign(n, new, iu)
  BY DEF ProcessLoad
<1>2. Read(pts[Ptr[n]]) \subseteq Obj
  BY TypeAssumption DEF Read, Expand, TypeOK
<1>3. new \in SUBSET Obj /\ iu \in [Node -> SUBSET Obj] /\ iu[n] = inUpd[n] \ fresh
      /\ \A m \in Node : m # n => iu[m] = inUpd[m]
  BY <1>2 DEF TypeOK
<1>4. Defined(Answer, n) = UNION {dfIn[n][o] : o \in Read(pts[Ptr[n]])}
  BY <1>1 DEF Defined, Answer
<1>5. \A o \in Obj : o \notin HasNew(inUpd, n) => dfIn[n][o] \subseteq pts[Def[n]]
  BY <1>1 DEF MarksCover, LoadCovered
<1>6. \A o \in fresh : dfIn[n][o] \subseteq new
  OBVIOUS
<1>7. new \subseteq Defined(Answer, n)
  BY <1>4
<1>8. Defined(Answer, n) \subseteq pts[Def[n]] \cup new
  BY <1>2, <1>4, <1>5
<1>9. \A o \in Obj : o \notin HasNew(iu, n) => o \notin HasNew(inUpd, n) \/ o \in fresh
  BY <1>3 DEF HasNew
<1> HIDE DEF new, iu
<1> QED BY <1>1, <1>3, <1>5, <1>6, <1>7, <1>8, <1>9, AssignProper

(* A node that writes nothing itself and takes no mark away. *)
LEMMA IdleProper ==
    ASSUME TypeOK, MarksCover, NEW n \in Node, NEW changed \in BOOLEAN,
           Kind[n] \in {"mssa", "aparm", "fret", "fparm", "aret"} => changed,
           IsParam(n) \/ Holds(Answer, n),
           Finish(n, changed, pts, dfOut, inUpd, outUpd)
    PROVE  Processed(n)
<1>1. \A m \in Node : outUpd[m] = {}
  BY DEF MarksCover, FlowCovered
<1>2. \A o \in Obj : o \notin HasNew(inUpd, n) =>
          /\ Kind[n] = "load" => dfIn[n][o] \subseteq pts[Def[n]]
          /\ IsStore(n) => dfIn[n][o] \subseteq dfOut[n][o]
  BY DEF MarksCover, LoadCovered, StoreCovered
<1>3. Proper(n, changed, pts, dfOut, inUpd, outUpd)
  BY <1>1, <1>2 DEF Proper, Answer
<1>4. Justified(n, pts, dfOut)
  BY DEF Justified
<1> QED BY <1>3, <1>4 DEF Processed, TypeOK

LEMMA StoreProper ==
    ASSUME TypeOK, MarksCover, NEW n \in Node, ProcessStore(n)
    PROVE  Processed(n)
<1> DEFINE P == pts[Ptr[n]]
           kill == Killed(P)
           pass == HasNew(inUpd, n) \ kill
           new(o) == (IF o \in Written(P) THEN Used(n) ELSE {})
                        \cup (IF o \in pass THEN dfIn[n][o] ELSE {})
           grown == {o \in Obj : ~ (new(o) \subseteq dfOut[n][o])}
           out == [dfOut EXCEPT ![n] = [o \in Obj |-> @[o] \cup new(o)]]
           iu == [inUpd EXCEPT ![n] = @ \ pass]
           ou == [outUpd EXCEPT ![n] = @ \cup grown]
<1>1. IsStore(n) /\ Kind[n] = "store"
  BY DEF ProcessStore, IsStore
<1>2. \A o \in Obj : o \notin HasNew(inUpd, n) => dfIn[n][o] \subseteq dfOut[n][o]
  BY <1>1 DEF MarksCover, StoreCovered
<1>3. \A o \in Obj : Behind(Answer, n, o) =
         (IF o \in Written(P) THEN Used(n) ELSE {})
            \cup (IF P = {} \/ o \in kill THEN {} ELSE dfIn[n][o])
  BY UseTyped DEF Behind, Answer
<1>4. CASE NoTarget(n)
  <2>1. P = {} /\ Finish(n, FALSE, pts, dfOut, inUpd, outUpd)
    BY <1>4 DEF NoTarget
  <2>2. \A o \in Obj : Behind(Answer, n, o) = {}
    BY <1>3, <2>1 DEF Written
  <2>3. Holds(Answer, n)
    BY <2>2, <1>1 DEF Holds, IsParam
  <2> QED BY <2>1, <2>3, <1>1, IdleProper
<1>5. CASE P # {} /\ StoreWith(n, kill, pass)
  <2>1. Finish(n, grown # {}, pts, out, iu, ou)
    BY <1>5 DEF StoreWith
  <2>2. \A o \in Obj : new(o) \in SUBSET Obj
    BY UseTyped DEF TypeOK
  <2>3. /\ out \in [Node -> [Obj -> SUBSET Obj]]
        /\ \A o \in Obj : out[n][o] = dfOut[n][o] \cup new(o)
        /\ \A m \in Node : m # n => out[m] = dfOut[m]
    BY <2>2 DEF TypeOK
  <2>4. /\ iu \in [Node -> SUBSET Obj] /\ iu[n] = inUpd[n] \ pass
        /\ \A m \in Node : m # n => iu[m] = inUpd[m]
    BY DEF TypeOK
  <2>5. /\ ou \in [Node -> SUBSET Obj] /\ ou[n] = outUpd[n] \cup grown
        /\ \A m \in Node : m # n => ou[m] = {}
    BY DEF TypeOK, MarksCover, FlowCovered
  <2>6. \A o \in Obj : o \in pass => dfIn[n][o] \subseteq new(o)
    OBVIOUS
  <2>7. \A o \in Obj : o \notin HasNew(iu, n) => o \notin HasNew(inUpd, n) \/ o \in pass
    BY <2>4 DEF HasNew
  <2>8. \A o \in Obj : o \notin HasNew(iu, n) => dfIn[n][o] \subseteq out[n][o]
    BY <2>3, <2>6, <2>7, <1>2
  <2>9. \A o \in Obj : Behind(Answer, n, o) \subseteq dfOut[n][o] \cup new(o)
    BY <1>2, <1>3
  <2>10. \A o \in Obj : new(o) \subseteq Behind(Answer, n, o)
    BY <1>3, <1>5
  <2>11. \A o \in Obj : out[n][o] # dfOut[n][o] => o \in grown
    BY <2>3
  <2> HIDE DEF new, grown, out, iu, ou
  <2>12. Holds([pts |-> pts, in |-> dfIn, out |-> out, conn |-> connected], n)
    <3> DEFINE mid == [pts |-> pts, in |-> dfIn, out |-> out, conn |-> connected]
    <3>1. \A o \in Obj : Behind(mid, n, o) = Behind(Answer, n, o)
      BY DEF Behind, UseOf, Answer
    <3>2. \A o \in Obj : Behind(mid, n, o) \subseteq out[n][o]
      BY <3>1, <2>3, <2>9
    <3> QED BY <3>2, <1>1 DEF Holds, IsParam
  <2>13. Proper(n, grown # {}, pts, out, iu, ou)
    BY <2>3, <2>4, <2>5, <2>8, <2>11, <2>12, <1>1 DEF Proper
  <2>14. Justified(n, pts, out)
    BY <2>3, <2>10, <1>1 DEF Justified
  <2> QED BY <2>1, <2>3, <2>4, <2>5, <2>13, <2>14 DEF Processed, TypeOK
<1> QED BY <1>4, <1>5 DEF ProcessStore

LEMMA NodeProper ==
    ASSUME TypeOK, MarksCover, NEW n \in Node, ProcessNode(n)
    PROVE  Processed(n)
<1>1. CASE ProcessPass(n)
  <2>1. IsParam(n) \/ Holds(Answer, n)
    BY <1>1 DEF ProcessPass, Holds, IsParam, IsStore
  <2> QED BY <2>1, <1>1, IdleProper DEF ProcessPass
<1>2. CASE ProcessOther(n)
  <2>1. Holds(Answer, n)
    BY <1>2 DEF ProcessOther, Holds, IsParam, IsStore
  <2> QED BY <2>1, <1>2, IdleProper DEF ProcessOther
<1> QED BY <1>1, <1>2, CopyProper, LoadProper, StoreProper DEF ProcessNode

-----------------------------------------------------------------------------
(* The inductive invariant. *)
IInv ==
    /\ TypeOK
    /\ MarksCover
    /\ WorklistCovers
    /\ phase = "done" => worklist = {} /\ NewCalls = {}

LEMMA InitInv == Init => IInv
<1> SUFFICES ASSUME Init PROVE IInv
  OBVIOUS
<1>1. TypeOK
  BY DEF Init, TypeOK, Nothing
<1>2. FlowCovered
  <2>1. ASSUME NEW n \in Node, NEW m \in Node, NEW o \in Carried(Ind, n, m)
        PROVE  Flowing(n, dfOut)[o] = {}
    <3>1. o \in Obj
      BY <1>1, GraphTypes DEF TypeOK, Ind
    <3> QED BY <3>1 DEF Init, Nothing, Flowing
  <2> QED BY <2>1 DEF FlowCovered, Init
<1>3. MarksCover
  BY <1>2 DEF MarksCover, LoadCovered, StoreCovered, Init, Nothing
<1>4. WorklistCovers /\ phase # "done"
  BY DEF WorklistCovers, Init
<1> QED BY <1>1, <1>3, <1>4 DEF IInv

LEMMA NodeInv ==
    ASSUME IInv, NEW n \in worklist, ProcessNode(n)
    PROVE  IInv'
<1>1. n \in Node /\ TypeOK /\ MarksCover /\ WorklistCovers /\ phase = "solve"
  BY DEF IInv, TypeOK, ProcessNode
<1>2. PICK changed \in BOOLEAN, p \in [Var -> SUBSET Obj], out \in [Node -> [Obj -> SUBSET Obj]],
           iu \in [Node -> SUBSET Obj], ou \in [Node -> SUBSET Obj] :
              Proper(n, changed, p, out, iu, ou) /\ Finish(n, changed, p, out, iu, ou)
  BY <1>1, NodeProper DEF Processed
<1>3. Finished(n, changed, p, out, iu, ou)
  BY <1>1, <1>2, FinishFacts
<1>4. TypeOK' /\ phase' = "solve"
  BY <1>1, <1>3 DEF Finished, TypeOK
<1>5. MarksCover' /\ WorklistCovers'
  BY <1>1, <1>2, FinishMarks, FinishWorklist
<1> QED BY <1>4, <1>5 DEF IInv

(* What new edges carry, and what they bring. *)
LEMMA ConnectFacts ==
    ASSUME TypeOK, UpdateCallGraph
    PROVE  /\ connected' \in SUBSET Call /\ connected \subseteq connected'
           /\ \A m \in Node, o \in Obj :
                 dfIn'[m][o] = dfIn[m][o] \cup Brought(connected')[m][o]
           /\ dfIn' \in [Node -> [Obj -> SUBSET Obj]]
           /\ \A m \in Node, o \in Obj :
                 /\ inUpd[m] \subseteq inUpd'[m]
                 /\ dfIn'[m][o] # dfIn[m][o] => o \in inUpd'[m]
           /\ inUpd' \in [Node -> SUBSET Obj]
           /\ NewCalls = {} => connected' = connected /\ dfIn' = dfIn /\ inUpd' = inUpd
           /\ \A n, m \in Node : \A o \in Carried(IndOf(connected'), n, m) :
                 o \in Carried(Ind, n, m) \/ Flowing(n, dfOut)[o] \subseteq Brought(connected')[m][o]
           /\ \A m \in Node, o \in Obj : \A x \in Brought(connected')[m][o] :
                 \E n \in Node : o \in Carried(IndOf(connected'), n, m) /\ x \in Flowing(n, dfOut)[o]
<1> DEFINE newInd == UNION {CallInd[c] : c \in connected' \ connected}
           sent(n, m, o) == IF o \in Carried(newInd, n, m) THEN Flowing(n, dfOut)[o] ELSE {}
           B == Brought(connected')
           L == Late(connected')
<1>1. /\ callMap' = callMap \cup NewCalls
      /\ connected' = connected \cup (NewCalls \cap AndersCalls)
      /\ dfIn' = [m \in Node |-> [o \in Obj |-> dfIn[m][o] \cup B[m][o]]]
      /\ inUpd' = [m \in Node |-> inUpd[m] \cup L[m]]
  BY DEF UpdateCallGraph, Connect
<1>2. connected' \in SUBSET Call /\ connected' \in SUBSET AndersCalls /\ connected \subseteq connected'
  BY <1>1, TypeAssumption DEF TypeOK
<1>3. B = [m \in Node |-> [o \in Obj |-> UNION {sent(n, m, o) : n \in Node}]]
  BY DEF Brought
<1>4. L = [m \in Node |-> {o \in Obj : ~ (B[m][o] \subseteq dfIn[m][o])}]
  BY DEF Late
<1> HIDE DEF B, L, newInd
<1>5. \A n, m \in Node, o \in Obj : sent(n, m, o) \in SUBSET Obj
  BY DEF Flowing, TypeOK
<1>6. \A m \in Node, o \in Obj : UNION {sent(n, m, o) : n \in Node} \in SUBSET Obj
  BY <1>5
<1> HIDE DEF sent
<1>7. B \in [Node -> [Obj -> SUBSET Obj]]
  BY <1>3, <1>6
<1>8. \A m \in Node, o \in Obj : dfIn'[m][o] = dfIn[m][o] \cup B[m][o]
  BY <1>1
<1>9. dfIn' \in [Node -> [Obj -> SUBSET Obj]]
  BY <1>1, <1>7 DEF TypeOK
<1>10. \A m \in Node : inUpd'[m] = inUpd[m] \cup L[m]
  BY <1>1
<1>11. inUpd' \in [Node -> SUBSET Obj]
  BY <1>1, <1>4 DEF TypeOK
<1>12. \A m \in Node, o \in Obj : dfIn'[m][o] # dfIn[m][o] => o \in inUpd'[m]
  <2> SUFFICES ASSUME NEW m \in Node, NEW o \in Obj, dfIn'[m][o] # dfIn[m][o]
               PROVE  o \in inUpd'[m]
    OBVIOUS
  <2>1. ~ (B[m][o] \subseteq dfIn[m][o])
    BY <1>8
  <2> QED BY <2>1, <1>4, <1>10
<1>13. IndOf(connected') = Ind \cup newInd
  BY <1>2 DEF Ind, IndOf, newInd
<1>14. \A n, m \in Node : Carried(IndOf(connected'), n, m) = Carried(Ind, n, m) \cup Carried(newInd, n, m)
  <2> SUFFICES ASSUME NEW n \in Node, NEW m \in Node
               PROVE  Carried(IndOf(connected'), n, m) = Carried(Ind, n, m) \cup Carried(newInd, n, m)
    OBVIOUS
  <2> DEFINE on(E) == {e[3] : e \in {e \in E : e[1] = n /\ e[2] = m}}
  <2>1. on(IndOf(connected')) = on(Ind) \cup on(newInd)
    BY <1>13
  <2>2. \A X, Y : Expand(X \cup Y) = Expand(X) \cup Expand(Y)
    BY DEF Expand
  <2>3. \A E : Carried(E, n, m) = Expand(on(E))
    BY DEF Carried
  <2> HIDE DEF on, newInd
  <2> QED BY <2>1, <2>2, <2>3
<1>15. \A n, m \in Node : \A o \in Carried(IndOf(connected'), n, m) : o \in Obj
  BY <1>2, GraphTypes
<1>16. \A n, m \in Node : \A o \in Carried(IndOf(connected'), n, m) :
          o \in Carried(Ind, n, m) \/ Flowing(n, dfOut)[o] \subseteq B[m][o]
  <2> SUFFICES ASSUME NEW n \in Node, NEW m \in Node, NEW o \in Carried(newInd, n, m)
               PROVE  Flowing(n, dfOut)[o] \subseteq B[m][o]
    BY <1>14
  <2>1. sent(n, m, o) \subseteq B[m][o]
    BY <1>3, <1>14, <1>15
  <2> QED BY <2>1, <1>14 DEF sent
<1>17. \A m \in Node, o \in Obj : \A x \in B[m][o] :
          \E n \in Node : o \in Carried(IndOf(connected'), n, m) /\ x \in Flowing(n, dfOut)[o]
  BY <1>3, <1>14 DEF sent
<1>18. NewCalls = {} => connected' = connected /\ dfIn' = dfIn /\ inUpd' = inUpd
  <2> SUFFICES ASSUME NewCalls = {} PROVE connected' = connected /\ dfIn' = dfIn /\ inUpd' = inUpd
    OBVIOUS
  <2>1. newInd = {} /\ connected' = connected
    BY <1>1 DEF newInd
  <2>2. \A n, m \in Node : Carried(newInd, n, m) = {}
    BY <2>1 DEF Carried, Expand
  <2>3. \A m \in Node, o \in Obj : B[m][o] = {}
    BY <1>3, <2>2 DEF sent
  <2>4. \A m \in Node : L[m] = {}
    BY <1>4, <2>3
  <2>5. ASSUME NEW m \in Node, NEW o \in Obj PROVE dfIn'[m][o] = dfIn[m][o]
    <3>1. dfIn'[m][o] = dfIn[m][o] \cup B[m][o] /\ B[m][o] = {}
      BY <1>8, <2>3
    <3> QED BY <3>1
  <2>6. dfIn' = dfIn
    <3>1. ASSUME NEW m \in Node PROVE dfIn'[m] = dfIn[m]
      <4>1. dfIn'[m] \in [Obj -> SUBSET Obj] /\ dfIn[m] \in [Obj -> SUBSET Obj]
        BY <1>9 DEF TypeOK
      <4> QED BY <4>1, <2>5
    <3>2. dfIn' \in [Node -> [Obj -> SUBSET Obj]] /\ dfIn \in [Node -> [Obj -> SUBSET Obj]]
      BY <1>9 DEF TypeOK
    <3> QED BY <3>1, <3>2
  <2>7. inUpd' = inUpd
    <3>1. ASSUME NEW m \in Node PROVE inUpd'[m] = inUpd[m]
      BY <1>10, <2>4
    <3>2. inUpd' \in [Node -> SUBSET Obj] /\ inUpd \in [Node -> SUBSET Obj]
      BY <1>11 DEF TypeOK
    <3> QED BY <3>1, <3>2
  <2> QED BY <2>1, <2>6, <2>7
<1> QED BY <1>2, <1>8, <1>9, <1>10, <1>11, <1>12, <1>16, <1>17, <1>18 DEF B

LEMMA ConnectInv == ASSUME IInv, UpdateCallGraph PROVE IInv'
<1>1. TypeOK /\ MarksCover /\ phase = "solve" /\ worklist = {}
  BY DEF IInv, UpdateCallGraph, Connect
<1>2. /\ callMap' = callMap \cup NewCalls
      /\ connected' = connected \cup (NewCalls \cap AndersCalls)
      /\ IF NewCalls = {} THEN phase' = "done" /\ UNCHANGED worklist
                         ELSE worklist' = Node /\ UNCHANGED phase
      /\ UNCHANGED <<pts, dfOut, outUpd>>
  BY DEF UpdateCallGraph, Connect
<1>3. TypeOK'
  <2>1. callMap' \subseteq Call /\ connected' = callMap' \cap AndersCalls
    BY <1>1, <1>2 DEF TypeOK, NewCalls
  <2>2. worklist' \subseteq Node /\ phase' \in {"solve", "done"}
    BY <1>1, <1>2
  <2>3. dfIn' \in [Node -> [Obj -> SUBSET Obj]] /\ inUpd' \in [Node -> SUBSET Obj]
    BY <1>1, ConnectFacts
  <2> QED BY <1>1, <1>2, <2>1, <2>2, <2>3 DEF TypeOK
<1>4. CASE NewCalls = {}
  <2>1. UNCHANGED <<df, worklist, connected>> /\ callMap' = callMap
    BY <1>1, <1>2, <1>4, ConnectFacts DEF df
  <2>2. MarksCover'
    BY <2>1, <1>1 DEF MarksCover, FlowCovered, LoadCovered, StoreCovered, df, Ind, Flowing, HasNew
  <2>3. Answer' = Answer /\ NewCalls' = {}
    BY <2>1, <1>4 DEF Answer, df, NewCalls
  <2>4. \A n \in Node : Holds(Answer, n)' <=> Holds(Answer', n)
    BY DEF Holds, Defined, UseOf, Behind
  <2>5. WorklistCovers'
    BY <2>1, <2>3, <2>4 DEF IInv, WorklistCovers, Pending
  <2> QED BY <1>1, <1>3, <2>1, <2>2, <2>3, <2>5 DEF IInv
<1>5. CASE NewCalls # {}
  <2>1. worklist' = Node /\ phase' = "solve"
    BY <1>1, <1>2, <1>5
  <2>2. \A k \in Node, o \in Obj : o \notin HasNew(inUpd', k) =>
           dfIn'[k][o] = dfIn[k][o] /\ o \notin HasNew(inUpd, k)
    <3>1. \A k \in Node, o \in Obj :
             inUpd[k] \subseteq inUpd'[k] /\ (dfIn'[k][o] # dfIn[k][o] => o \in inUpd'[k])
      BY <1>1, ConnectFacts
    <3> QED BY <3>1 DEF HasNew
  <2>3. ASSUME NEW n \in Node, NEW m \in Node, NEW o \in Carried(Ind, n, m)'
        PROVE  \/ Flowing(n, dfOut)'[o] \subseteq dfIn'[m][o]
               \/ ~ IsStore(n) /\ n \in worklist' /\ o \in HasNew(inUpd', n)
    <3>1. o \in Carried(IndOf(connected'), n, m) /\ connected' \in SUBSET AndersCalls
      BY <1>3 DEF Ind, TypeOK
    <3>2. o \in Obj
      BY <3>1, GraphTypes
    <3>3. /\ dfIn'[m][o] = dfIn[m][o] \cup Brought(connected')[m][o]
          /\ o \in Carried(Ind, n, m) \/ Flowing(n, dfOut)[o] \subseteq Brought(connected')[m][o]
      BY <1>1, <3>1, <3>2, ConnectFacts
    <3>4. o \in Carried(Ind, n, m) => Flowing(n, dfOut)[o] \subseteq dfIn[m][o]
      BY <1>1 DEF MarksCover, FlowCovered
    <3>5. Flowing(n, dfOut)[o] \subseteq dfIn'[m][o]
      BY <3>3, <3>4
    <3>6. CASE Flowing(n, dfOut)'[o] = Flowing(n, dfOut)[o]
      BY <3>5, <3>6
    <3>7. CASE Flowing(n, dfOut)'[o] # Flowing(n, dfOut)[o]
      <4>1. ~ IsStore(n) /\ dfIn'[n][o] # dfIn[n][o]
        BY <3>7, <1>2 DEF Flowing
      <4> QED BY <4>1, <2>1, <2>2, <3>2
    <3> QED BY <3>6, <3>7
  <2>4. MarksCover'
    <3>1. FlowCovered'
      BY <2>3, <1>1, <1>2 DEF FlowCovered, MarksCover
    <3>2. \A n \in Node : Kind[n] = "load" => LoadCovered(n)'
      BY <2>2, <1>1, <1>2 DEF MarksCover, LoadCovered
    <3>3. \A n \in Node : IsStore(n) => StoreCovered(n)'
      BY <2>2, <1>1, <1>2 DEF MarksCover, StoreCovered
    <3> QED BY <3>1, <3>2, <3>3 DEF MarksCover
  <2> QED BY <1>3, <2>1, <2>4 DEF IInv, WorklistCovers
<1> QED BY <1>4, <1>5

LEMMA StutterInv == ASSUME IInv, UNCHANGED vars PROVE IInv'
<1> USE DEF vars, df, calls
<1>1. Answer' = Answer /\ Ind' = Ind /\ Dir' = Dir /\ NewCalls' = NewCalls
  BY DEF Answer, Ind, Dir, NewCalls
<1>2. TypeOK'
  BY DEF IInv, TypeOK
<1>3. MarksCover'
  BY DEF IInv, MarksCover, FlowCovered, LoadCovered, StoreCovered, Ind, Flowing, HasNew
<1>4. \A n \in Node : Holds(Answer, n)' <=> Holds(Answer', n)
  BY DEF Holds, Defined, UseOf, Behind
<1>5. WorklistCovers'
  BY <1>1, <1>4 DEF IInv, WorklistCovers, Pending
<1> QED BY <1>1, <1>2, <1>3, <1>5 DEF IInv

THEOREM Invariant == Spec => []IInv
<1>1. IInv /\ [Next]_vars => IInv'
  BY NodeInv, ConnectInv, StutterInv DEF Next
<1> QED BY <1>1, InitInv, PTL DEF Spec

(* The variables keep their types; the edges in the graph are those of the *)
(* calls found that Andersen's analysis allows (updateCallGraph).          *)
THEOREM TypeCorrect == Spec => []TypeOK
<1>1. IInv => TypeOK
  BY DEF IInv
<1> QED BY <1>1, Invariant, PTL

(* The marks of IncDFPTData forget nothing that has not been passed on,    *)
(* also what a strong update held back.                                    *)
THEOREM MarksForgetNothing == Spec => []MarksCover
<1>1. IInv => MarksCover
  BY DEF IInv
<1> QED BY <1>1, Invariant, PTL

(* A node whose equation does not hold is on the worklist, or the          *)
(* definition of what it reads is (propFromSrcToDst).                      *)
THEOREM WorklistForgetsNothing == Spec => []WorklistCovers
<1>1. IInv => WorklistCovers
  BY DEF IInv
<1> QED BY <1>1, Invariant, PTL

(* When solveConstraints returns, every equation of the value-flow graph   *)
(* holds, whatever the graph, the worklist's order and the incremental     *)
(* option.                                                                 *)
THEOREM Solved == Spec => []SolvedAtEnd
<1>1. IInv => SolvedAtEnd
  <2> SUFFICES ASSUME IInv, phase = "done" PROVE Solves(Answer)
    BY DEF SolvedAtEnd
  <2>1. TypeOK /\ MarksCover /\ worklist = {} /\ NewCalls = {}
    BY DEF IInv
  <2>2. \A n \in Node : Holds(Answer, n)
    BY <2>1 DEF IInv, WorklistCovers, Pending
  <2>3. ASSUME NEW n \in Node PROVE Defined(Answer, n) \subseteq pts[Def[n]]
    <3>1. CASE Kind[n] \in {"addr", "copy", "phi", "gep", "load"}
      BY <3>1, <2>2 DEF Holds, Answer
    <3>2. CASE Kind[n] \in {"fparm", "aret"}
      <4>1. \A m \in Node : IsParam(m) /\ <<m, n>> \in DirOf(connected) =>
               UseOf(Answer, m) \subseteq pts[Def[n]]
        BY <2>2 DEF Holds, Answer
      <4>2. Defined(Answer, n) =
               UNION {UseOf(Answer, m) : m \in {m \in Node : IsParam(m) /\ <<m, n>> \in DirOf(connected)}}
        BY <3>2 DEF Defined, Answer
      <4> QED BY <4>1, <4>2
    <3>3. CASE Kind[n] \in {"store", "mssa", "aparm", "fret", "other"}
      BY <3>3 DEF Defined
    <3> QED BY <3>1, <3>2, <3>3, TypeAssumption DEF Kinds
  <2>4. ASSUME NEW m \in Node, NEW o \in Obj PROVE InFront(Answer, m, o) \subseteq dfIn[m][o]
    <3>1. \A n \in Node : o \in Carried(IndOf(connected), n, m) => Flowing(n, dfOut)[o] \subseteq dfIn[m][o]
      BY <2>1 DEF MarksCover, FlowCovered, Ind
    <3> QED BY <3>1 DEF InFront, Flowing, Answer
  <2>5. \A n \in Node, o \in Obj : IsStore(n) => Behind(Answer, n, o) \subseteq dfOut[n][o]
    BY <2>2 DEF Holds, Answer
  <2>6. Called(Answer) \subseteq connected
    BY <2>1, TypeAssumption DEF Called, NewCalls, Answer, TypeOK
  <2>7. \A v \in Var : Apply(Answer).pts[v] \subseteq pts[v]
    BY <2>3 DEF Apply, Answer
  <2>8. \A n \in Node, o \in Obj : Apply(Answer).in[n][o] \subseteq dfIn[n][o]
    BY <2>4 DEF Apply, Answer
  <2>9. \A n \in Node, o \in Obj : Apply(Answer).out[n][o] \subseteq dfOut[n][o]
    BY <2>5 DEF Apply, Answer
  <2>10. Apply(Answer).conn \subseteq connected
    BY <2>6 DEF Apply, Answer
  <2> QED BY <2>7, <2>8, <2>9, <2>10 DEF Solves, Within, Answer
<1> QED BY <1>1, Invariant, PTL

-----------------------------------------------------------------------------
LEMMA UseGrows ==
    ASSUME NEW s \in Solutions, NEW t \in Solutions, Within(s, t), NEW n \in Node
    PROVE  UseOf(s, n) \subseteq UseOf(t, n)
<1>1. Uses(s.conn, n) \subseteq Uses(t.conn, n)
  BY DEF Uses, Within
<1>2. Uses(s.conn, n) \subseteq Var
  BY UsesTyped DEF Solutions
<1>3. \A v \in Var : s.pts[v] \subseteq t.pts[v]
  BY DEF Within
<1> QED BY <1>1, <1>2, <1>3 DEF UseOf

LEMMA EdgesGrow ==
    ASSUME NEW c \in SUBSET Call, NEW d \in SUBSET Call, c \subseteq d
    PROVE  /\ DirOf(c) \subseteq DirOf(d)
           /\ \A n, m \in Node : Carried(IndOf(c), n, m) \subseteq Carried(IndOf(d), n, m)
<1>1. DirOf(c) \subseteq DirOf(d) /\ IndOf(c) \subseteq IndOf(d)
  BY DEF DirOf, IndOf
<1>2. ASSUME NEW n \in Node, NEW m \in Node
      PROVE  Carried(IndOf(c), n, m) \subseteq Carried(IndOf(d), n, m)
  <2> DEFINE on(E) == {e[3] : e \in {e \in E : e[1] = n /\ e[2] = m}}
  <2>1. on(IndOf(c)) \subseteq on(IndOf(d))
    BY <1>1
  <2>2. \A A, B : A \subseteq B => Expand(A) \subseteq Expand(B)
    BY DEF Expand
  <2> QED BY <2>1, <2>2 DEF Carried
<1> QED BY <1>1, <1>2

(* What a node asks for grows with the sets: nothing that was right is     *)
(* wrong later.  A store kills less when its pointer has more targets, and *)
(* lets nothing pass while it has none.                                    *)
LEMMA DefinedGrows ==
    ASSUME NEW s \in Solutions, NEW t \in Solutions, Within(s, t), NEW n \in Node,
           Kind[n] \in {"addr", "copy", "phi", "gep", "load"}
    PROVE  Defined(s, n) \subseteq Defined(t, n)
<1>1. CASE Kind[n] = "addr"
  BY <1>1 DEF Defined
<1>2. UseOf(s, n) \subseteq UseOf(t, n)
  BY UseGrows
<1>3. CASE Kind[n] \in {"copy", "phi"}
  BY <1>2, <1>3 DEF Defined
<1>4. CASE Kind[n] = "gep"
  <2>1. Fields(n, UseOf(s, n)) \subseteq Fields(n, UseOf(t, n))
    BY <1>2 DEF Fields
  <2> QED BY <2>1, <1>4 DEF Defined
<1>5. CASE Kind[n] = "load"
  <2>1. Ptr[n] \in Var /\ s.pts[Ptr[n]] \subseteq t.pts[Ptr[n]] /\ t.pts[Ptr[n]] \subseteq Obj
    BY TypeAssumption DEF Within, Solutions
  <2>2. Read(s.pts[Ptr[n]]) \subseteq Read(t.pts[Ptr[n]]) /\ Read(t.pts[Ptr[n]]) \subseteq Obj
    BY <2>1, TypeAssumption DEF Read, Expand
  <2>3. \A o \in Obj : s.in[n][o] \subseteq t.in[n][o]
    BY DEF Within
  <2>4. UNION {s.in[n][o] : o \in Read(s.pts[Ptr[n]])} \subseteq UNION {t.in[n][o] : o \in Read(t.pts[Ptr[n]])}
    BY <2>2, <2>3
  <2> QED BY <2>4, <1>5 DEF Defined
<1> QED BY <1>1, <1>3, <1>4, <1>5

LEMMA BehindGrows ==
    ASSUME NEW s \in Solutions, NEW t \in Solutions, Within(s, t), NEW n \in Node, NEW o \in Obj
    PROVE  Behind(s, n, o) \subseteq Behind(t, n, o)
<1> DEFINE P == s.pts[Ptr[n]]
           Q == t.pts[Ptr[n]]
<1>1. P \subseteq Q
  BY TypeAssumption DEF Within
<1>2. UseOf(s, n) \subseteq UseOf(t, n)
  BY UseGrows
<1>3. o \in Written(P) => o \in Written(Q)
  BY <1>1 DEF Written
<1>4. P # {} /\ o \in Killed(Q) => o \in Killed(P)
  <2> SUFFICES ASSUME P # {}, o \in Killed(Q) PROVE o \in Killed(P)
    OBVIOUS
  <2>1. PICK x \in Q : Q = {x}
    BY DEF Killed
  <2>2. P = {x}
    BY <1>1, <2>1
  <2> QED BY <2>1, <2>2
<1>5. s.in[n][o] \subseteq t.in[n][o]
  BY DEF Within
<1>6. Q = {} => P = {}
  BY <1>1
<1>7. (IF P = {} \/ o \in Killed(P) THEN {} ELSE s.in[n][o])
         \subseteq (IF Q = {} \/ o \in Killed(Q) THEN {} ELSE t.in[n][o])
  BY <1>4, <1>5, <1>6
<1>8. (IF o \in Written(P) THEN UseOf(s, n) ELSE {}) \subseteq (IF o \in Written(Q) THEN UseOf(t, n) ELSE {})
  BY <1>2, <1>3
<1> QED BY <1>7, <1>8 DEF Behind

(* What the assumed solution contains because it solves the equations. *)
LEMMA SolvesFacts ==
    /\ \A n \in Node : Defined(Solution, n) \subseteq Solution.pts[Def[n]]
    /\ \A n \in Node, o \in Obj : IsStore(n) => Behind(Solution, n, o) \subseteq Solution.out[n][o]
    /\ \A n, m \in Node, o \in Obj : o \in Carried(IndOf(Solution.conn), n, m) =>
          (IF IsStore(n) THEN Solution.out[n][o] ELSE Solution.in[n][o]) \subseteq Solution.in[m][o]
    /\ \A n, m \in Node : IsParam(n) /\ <<n, m>> \in DirOf(Solution.conn) =>
          UseOf(Solution, n) \subseteq Solution.pts[Def[m]]
    /\ Called(Solution) \subseteq Solution.conn
<1> DEFINE S == Solution
<1>1. /\ \A v \in Var : Apply(S).pts[v] \subseteq S.pts[v]
      /\ \A n \in Node, o \in Obj : Apply(S).in[n][o] \subseteq S.in[n][o]
      /\ \A n \in Node, o \in Obj : Apply(S).out[n][o] \subseteq S.out[n][o]
      /\ Apply(S).conn \subseteq S.conn
  BY SolutionAssumption DEF Solves, Within
<1>2. ASSUME NEW n \in Node PROVE Defined(S, n) \subseteq S.pts[Def[n]]
  <2>1. Def[n] \in Var
    BY TypeAssumption
  <2>2. Defined(S, n) \subseteq Apply(S).pts[Def[n]]
    BY <2>1 DEF Apply
  <2> QED BY <2>1, <2>2, <1>1
<1>3. \A n \in Node, o \in Obj : IsStore(n) => Behind(S, n, o) \subseteq S.out[n][o]
  <2>1. \A n \in Node, o \in Obj : IsStore(n) => Behind(S, n, o) \subseteq Apply(S).out[n][o]
    BY DEF Apply
  <2> QED BY <2>1, <1>1
<1>4. ASSUME NEW n \in Node, NEW m \in Node, NEW o \in Obj, o \in Carried(IndOf(S.conn), n, m)
      PROVE  (IF IsStore(n) THEN S.out[n][o] ELSE S.in[n][o]) \subseteq S.in[m][o]
  <2>1. (IF IsStore(n) THEN S.out[n][o] ELSE S.in[n][o]) \subseteq InFront(S, m, o)
    BY <1>4 DEF InFront
  <2>2. InFront(S, m, o) \subseteq Apply(S).in[m][o]
    BY DEF Apply
  <2> QED BY <2>1, <2>2, <1>1
<1>5. ASSUME NEW n \in Node, NEW m \in Node, IsParam(n), <<n, m>> \in DirOf(S.conn)
      PROVE  UseOf(S, n) \subseteq S.pts[Def[m]]
  <2>1. DirOf(S.conn) \subseteq DirEdges \cup UNION {CallDir[c] : c \in Call}
    BY SolutionAssumption DEF DirOf, Solutions
  <2>2. Kind[m] \in {"fparm", "aret"}
    BY <2>1, <1>5, EdgeAssumption DEF IsParam
  <2>3. UseOf(S, n) \subseteq Defined(S, m)
    BY <2>2, <1>5 DEF Defined
  <2> QED BY <2>3, <1>2
<1>6. Called(S) \subseteq S.conn
  BY <1>1 DEF Apply
<1> QED BY <1>2, <1>3, <1>4, <1>5, <1>6

LEMMA NodeWithin ==
    ASSUME IInv, WithinSolution, NEW n \in worklist, ProcessNode(n)
    PROVE  WithinSolution'
<1>1. n \in Node /\ TypeOK /\ MarksCover /\ Answer \in Solutions
  BY AnswerTyped DEF IInv, TypeOK
<1>2. PICK changed \in BOOLEAN, p \in [Var -> SUBSET Obj], out \in [Node -> [Obj -> SUBSET Obj]],
           iu \in [Node -> SUBSET Obj], ou \in [Node -> SUBSET Obj] :
              Justified(n, p, out) /\ Finish(n, changed, p, out, iu, ou)
  BY <1>1, NodeProper DEF Processed
<1>3. Finished(n, changed, p, out, iu, ou)
  BY <1>1, <1>2, FinishFacts
<1>4. /\ \A v \in Var : pts[v] \subseteq Solution.pts[v]
      /\ \A m \in Node, o \in Obj : dfIn[m][o] \subseteq Solution.in[m][o]
      /\ \A m \in Node, o \in Obj : dfOut[m][o] \subseteq Solution.out[m][o]
      /\ connected \subseteq Solution.conn
  BY DEF WithinSolution, Within, Answer
<1>5. Solution \in Solutions /\ Within(Answer, Solution)
  BY SolutionAssumption DEF WithinSolution
<1>6. \A v \in Var : p[v] \subseteq Solution.pts[v]
  <2> SUFFICES ASSUME NEW v \in Var, v = Def[n], Kind[n] \in {"addr", "copy", "phi", "gep", "load"}
               PROVE  Defined(Answer, n) \subseteq Solution.pts[v]
    BY <1>2, <1>4 DEF Justified
  <2>1. Defined(Answer, n) \subseteq Defined(Solution, n)
    BY <1>1, <1>5, DefinedGrows
  <2> QED BY <2>1, <1>1, SolvesFacts
<1>7. \A m \in Node, o \in Obj : out[m][o] \subseteq Solution.out[m][o]
  <2> SUFFICES ASSUME NEW o \in Obj, IsStore(n) PROVE Behind(Answer, n, o) \subseteq Solution.out[n][o]
    BY <1>2, <1>4 DEF Justified
  <2>1. Behind(Answer, n, o) \subseteq Behind(Solution, n, o)
    BY <1>1, <1>5, BehindGrows
  <2> QED BY <2>1, <1>1, SolvesFacts
<1>8. /\ Dir \subseteq DirOf(Solution.conn)
      /\ \A m \in Node : Carried(Ind, n, m) \subseteq Carried(IndOf(Solution.conn), n, m)
  BY <1>1, <1>4, <1>5, EdgesGrow DEF Dir, Ind, Solutions, TypeOK
<1>9. \A m \in Node, o \in Obj : dfIn'[m][o] \subseteq Solution.in[m][o]
  <2> SUFFICES ASSUME NEW m \in Node, NEW o \in Obj, o \in Carried(Ind, n, m)
               PROVE  Flowing(n, out)[o] \subseteq Solution.in[m][o]
    BY <1>3, <1>4 DEF Finished
  <2>1. Flowing(n, out)[o] \subseteq IF IsStore(n) THEN Solution.out[n][o] ELSE Solution.in[n][o]
    BY <1>1, <1>4, <1>7 DEF Flowing
  <2> QED BY <2>1, <1>1, <1>8, SolvesFacts
<1>10. \A v \in Var : pts'[v] \subseteq Solution.pts[v]
  <2> SUFFICES ASSUME NEW v \in Var, NEW m \in Node, IsParam(n), <<n, m>> \in Dir, Def[m] = v
               PROVE  UNION {p[w] : w \in Uses(connected, n)} \subseteq Solution.pts[v]
    BY <1>3, <1>6 DEF Finished
  <2>1. Uses(connected, n) \subseteq Uses(Solution.conn, n)
    BY <1>4 DEF Uses
  <2>2. Uses(connected, n) \subseteq Var
    BY <1>1, UsesTyped DEF TypeOK
  <2>3. UNION {p[w] : w \in Uses(connected, n)} \subseteq UseOf(Solution, n)
    BY <2>1, <2>2, <1>6 DEF UseOf
  <2> QED BY <2>3, <1>1, <1>8, SolvesFacts
<1> QED BY <1>3, <1>4, <1>7, <1>9, <1>10 DEF Finished, WithinSolution, Within, Answer

LEMMA ConnectWithin ==
    ASSUME IInv, WithinSolution, UpdateCallGraph
    PROVE  WithinSolution'
<1>1. TypeOK
  BY DEF IInv
<1>2. /\ connected' = connected \cup (NewCalls \cap AndersCalls)
      /\ UNCHANGED <<pts, dfOut>>
  BY DEF UpdateCallGraph, Connect
<1>3. /\ \A v \in Var : pts[v] \subseteq Solution.pts[v]
      /\ \A m \in Node, o \in Obj : dfIn[m][o] \subseteq Solution.in[m][o]
      /\ \A m \in Node, o \in Obj : dfOut[m][o] \subseteq Solution.out[m][o]
      /\ connected \subseteq Solution.conn
  BY DEF WithinSolution, Within, Answer
<1>4. connected' \subseteq Solution.conn
  <2>1. ASSUME NEW c \in NewCalls \cap AndersCalls PROVE c \in Solution.conn
    <3>1. c \in Call /\ c[2] \in pts[FunPtr[c[1]]] /\ FunPtr[c[1]] \in Var
      BY TypeAssumption DEF NewCalls, Call
    <3> QED BY <3>1, <1>3, SolvesFacts DEF Called
  <2> QED BY <2>1, <1>2, <1>3
<1>5. /\ connected' \in SUBSET Call
      /\ \A m \in Node, o \in Obj : dfIn'[m][o] = dfIn[m][o] \cup Brought(connected')[m][o]
      /\ \A m \in Node, o \in Obj : \A x \in Brought(connected')[m][o] :
            \E n \in Node : o \in Carried(IndOf(connected'), n, m) /\ x \in Flowing(n, dfOut)[o]
  BY <1>1, ConnectFacts
<1>6. \A n, m \in Node : Carried(IndOf(connected'), n, m) \subseteq Carried(IndOf(Solution.conn), n, m)
  BY <1>4, <1>5, EdgesGrow, SolutionAssumption DEF Solutions
<1>7. \A m \in Node, o \in Obj : dfIn'[m][o] \subseteq Solution.in[m][o]
  <2> SUFFICES ASSUME NEW m \in Node, NEW o \in Obj, NEW x \in Brought(connected')[m][o]
               PROVE  x \in Solution.in[m][o]
    BY <1>3, <1>5
  <2>1. PICK n \in Node : o \in Carried(IndOf(connected'), n, m) /\ x \in Flowing(n, dfOut)[o]
    BY <1>5
  <2>2. x \in IF IsStore(n) THEN Solution.out[n][o] ELSE Solution.in[n][o]
    BY <2>1, <1>3 DEF Flowing
  <2> QED BY <2>1, <2>2, <1>6, SolvesFacts
<1> QED BY <1>2, <1>3, <1>4, <1>7 DEF WithinSolution, Within, Answer

(* In whatever order the nodes are processed, the analysis never says more *)
(* than a solution of the equations does (isStrongUpdate, processStore):   *)
(* with Solved, it ends with the least one.                                *)
THEOREM NeverTooMuch == Spec => []WithinSolution
<1>1. Init => WithinSolution
  <2>1. Init => \A v \in Var : pts[v] = {}
    BY DEF Init
  <2>2. Init => \A n \in Node, o \in Obj : dfIn[n][o] = {} /\ dfOut[n][o] = {}
    BY DEF Init, Nothing
  <2>3. Init => connected = {}
    BY DEF Init
  <2> QED BY <2>1, <2>2, <2>3 DEF WithinSolution, Within, Answer
<1>2. IInv /\ WithinSolution /\ [Next]_vars => WithinSolution'
  <2>1. UNCHANGED vars /\ WithinSolution => WithinSolution'
    BY DEF vars, df, calls, WithinSolution, Answer
  <2> QED BY <2>1, NodeWithin, ConnectWithin DEF Next
<1> QED BY <1>1, <1>2, Invariant, PTL DEF Spec
=============================================================================
