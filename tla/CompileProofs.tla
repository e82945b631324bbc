--------------------------- MODULE CompileProofs ---------------------------
(***************************************************************************)
(* Proofs about Compile, for every list of specs, every registry and every *)
(* registration that comes in between.                                     *)
(***************************************************************************)
EXTENDS Compile, TLAPS, SequenceTheorems, WellFoundedInduction

\* The key of the i-th call on the stack, and of the j-th dependency it visits.
StackKey(i) == String(stack[i].id)
DepKey(i, j) == String(DepsOf(stack[i].id)[j])

\* The search has not begun, or is over.
PhaseOK ==
  /\ pc \in {"scan", "edges"} =>
       stack = <<>> /\ topo = <<>> /\ mark = [k \in Keys |-> "new"]
  /\ pc = "done" => stack = <<>> /\ at > Len(order)

\* order has the IDs of all nodes.
OrderOK == DOMAIN nodes = {String(order[i]) : i \in 1 .. Len(order)}

\* All dependencies of k are nodes.
Closed(k) == \A d \in DOMAIN nodes[k].deps : String(nodes[k].deps[d]) \in DOMAIN nodes

ClosedOK ==
  /\ pc = "edges" => \A i \in 1 .. Len(order) : i < at => Closed(String(order[i]))
  /\ pc \in {"sort", "done"} => \A k \in DOMAIN nodes : Closed(k)

\* The marks say where a node is.
MarksOK ==
  /\ \A k \in Keys : mark[k] = "done" <=> \E i \in 1 .. Len(topo) : KeyAt(i) = k
  /\ \A k \in Keys : mark[k] = "visiting" <=> \E i \in 1 .. Len(stack) : StackKey(i) = k

\* The calls on the stack follow dependencies, each from the place its caller
\* has come to; the dependencies in front of that place are done.
StackOK ==
  /\ \A i, j \in 1 .. Len(stack) : StackKey(i) = StackKey(j) => i = j
  /\ \A i \in 1 .. Len(stack) : \A j \in DOMAIN DepsOf(stack[i].id) :
       j < stack[i].next => mark[DepKey(i, j)] = "done"
  /\ \A i \in 1 .. Len(stack) - 1 :
       /\ stack[i].next \in DOMAIN DepsOf(stack[i].id)
       /\ stack[i + 1].id = DepsOf(stack[i].id)[stack[i].next]

\* The roots in front of at have been visited.
RootsOK ==
  pc \in {"sort", "done"} =>
    \A i \in 1 .. Len(order) : i < at => mark[String(order[i])] # "new"

SearchOK == MarksOK /\ StackOK /\ TopoOrdered

IndInv == TypeOK /\ PhaseOK /\ OrderOK /\ ClosedOK /\ RootsOK /\ SearchOK

-----------------------------------------------------------------------------
LEMMA KeyOfID == ASSUME NEW id \in IDs PROVE String(id) \in Keys
  BY DEF Keys

LEMMA DepsType ==
  ASSUME TypeOK, NEW id, String(id) \in DOMAIN nodes
  PROVE  DepsOf(id) \in Seq(IDs)
  BY DEF TypeOK, NodeType, DepsOf

\* The call that is running.
LEMMA TopCall ==
  ASSUME TypeOK, stack # <<>>
  PROVE  /\ Len(stack) \in Nat \ {0}
         /\ Top \in CallType /\ Top = stack[Len(stack)]
         /\ String(Top.id) \in DOMAIN nodes /\ String(Top.id) \in Keys
         /\ DepsOf(Top.id) \in Seq(IDs)
  <1>1. stack \in Seq(CallType) /\ Len(stack) \in Nat \ {0}
    BY EmptySeq DEF TypeOK
  <1>2. Top \in CallType /\ Top = stack[Len(stack)]
    BY <1>1 DEF Top
  <1>3. String(Top.id) \in DOMAIN nodes
    BY <1>1, <1>2 DEF TypeOK
  <1> QED
    BY <1>1, <1>2, <1>3, DepsType, KeyOfID DEF CallType

\* The dependency it looks at is a node.
LEMMA NextDep ==
  ASSUME TypeOK, ClosedOK, InLoop
  PROVE  /\ Top.next \in DOMAIN DepsOf(Top.id)
         /\ TopDep \in IDs /\ String(TopDep) \in DOMAIN nodes
         /\ String(TopDep) \in Keys
  <1>1. Top.next \in DOMAIN DepsOf(Top.id) /\ TopDep \in IDs
    BY TopCall DEF InLoop, TopDep, CallType
  <1>2. Closed(String(Top.id))
    BY TopCall DEF InLoop, ClosedOK
  <1>3. String(TopDep) \in DOMAIN nodes
    BY <1>1, <1>2 DEF Closed, TopDep, DepsOf
  <1> QED
    BY <1>1, <1>3, KeyOfID

\* Nothing is being visited between two roots.
LEMMA EmptyStack ==
  ASSUME TypeOK, MarksOK, stack = <<>>, NEW k \in Keys
  PROVE  mark[k] = "new" \/ mark[k] = "done"
  <1>1. Len(stack) = 0
    OBVIOUS
  <1>2. mark[k] # "visiting"
    BY <1>1 DEF MarksOK
  <1> QED
    BY <1>2 DEF TypeOK, Marks

-----------------------------------------------------------------------------
LEMMA InitIndInv == Init => IndInv
  <1> SUFFICES ASSUME Init PROVE IndInv
    OBVIOUS
  <1>1. /\ specs \in Seq(SpecType) /\ pc = "scan" /\ at = 1
        /\ DOMAIN nodes = {} /\ order = <<>> /\ edges = <<>> /\ stack = <<>> /\ topo = <<>>
        /\ mark = [k \in Keys |-> "new"]
        /\ \A k \in DOMAIN defs : defs[k] \in Definitions
    BY SpecListsAssumption, DefinitionsAssumption DEF Init
  <1>2. TypeOK
    BY <1>1 DEF TypeOK, Marks
  <1>3. PhaseOK /\ OrderOK /\ ClosedOK /\ RootsOK
    BY <1>1 DEF PhaseOK, OrderOK, ClosedOK, RootsOK
  <1>4. MarksOK /\ StackOK /\ TopoOrdered
    BY <1>1 DEF MarksOK, StackOK, TopoOrdered
  <1> QED
    BY <1>2, <1>3, <1>4 DEF IndInv, SearchOK

\* Steps outside the search do not disturb what is known about it.
LEMMA SameSearch ==
  ASSUME SearchOK, UNCHANGED <<nodes, mark, stack, topo>>
  PROVE  SearchOK'
  <1>1. MarksOK'
    BY DEF SearchOK, MarksOK, KeyAt, StackKey
  <1>2. StackOK'
    BY DEF SearchOK, StackOK, StackKey, DepKey, DepsOf
  <1>3. TopoOrdered'
    BY DEF SearchOK, TopoOrdered, KeyAt, DepsOf
  <1> QED
    BY <1>1, <1>2, <1>3 DEF SearchOK

LEMMA StepRegister ==
  ASSUME IndInv, NEW r \in Registrations, Register(r[1], r[2], r[3])
  PROVE  IndInv'
  <1>1. UNCHANGED <<specs, pc, at, nodes, order, edges, mark, stack, topo>>
    BY DEF Register
  <1>2. \A k \in DOMAIN defs' : defs'[k] \in Definitions
    BY DefinitionsAssumption DEF IndInv, TypeOK, Register
  <1>3. TypeOK'
    BY <1>1, <1>2 DEF IndInv, TypeOK
  <1>4. PhaseOK' /\ OrderOK' /\ RootsOK'
    BY <1>1 DEF IndInv, PhaseOK, OrderOK, RootsOK
  <1>5. ClosedOK'
    BY <1>1 DEF IndInv, ClosedOK, Closed
  <1> QED
    BY <1>1, <1>3, <1>4, <1>5, SameSearch DEF IndInv

\* A step that rejects the specs.
LEMMA StepReject ==
  ASSUME IndInv, NEW e, Reject(e)
  PROVE  IndInv'
  <1>1. /\ UNCHANGED <<defs, specs, at, nodes, order, edges, mark, stack, topo>>
        /\ pc' = "error"
    BY DEF Reject
  <1>2. TypeOK'
    BY <1>1 DEF IndInv, TypeOK
  <1>3. PhaseOK' /\ OrderOK' /\ ClosedOK' /\ RootsOK'
    BY <1>1 DEF IndInv, PhaseOK, OrderOK, ClosedOK, Closed, RootsOK
  <1> QED
    BY <1>1, <1>2, <1>3, SameSearch DEF IndInv

LEMMA StepAcceptSpec ==
  ASSUME IndInv, AcceptSpec
  PROVE  IndInv'
  <1> DEFINE s == specs[at]
             node == [id |-> s.id, driver |-> s.driver, deps |-> s.deps,
                      def |-> defs[<<s.id.kind, s.driver>>]]
  <1>1. s \in SpecType /\ at \in Nat \ {0}
    BY DEF IndInv, TypeOK, AcceptSpec
  <1>2. String(s.id) \in Keys
    BY <1>1, KeyOfID DEF SpecType
  <1>3. <<s.id.kind, s.driver>> \in DOMAIN defs
    <2>1. 4 \in DOMAIN Checks(s)
      BY DEF Checks
    <2>2. Checks(s)[4].ok
      BY <2>1 DEF AcceptSpec, Failing
    <2> QED
      BY <2>2 DEF Checks
  <1>4. node \in NodeType
    BY <1>1, <1>3 DEF NodeType, SpecType, IndInv, TypeOK
  <1>5. /\ UNCHANGED <<defs, specs, pc, edges, mark, stack, topo>>
        /\ at' = at + 1 /\ pc = "scan" /\ order' = Append(order, s.id)
    BY DEF AcceptSpec
  <1>6. /\ DOMAIN nodes' = DOMAIN nodes \union {String(s.id)}
        /\ \A k \in DOMAIN nodes' :
             nodes'[k] = IF k = String(s.id) THEN node ELSE nodes[k]
    BY DEF AcceptSpec
  <1>7. stack = <<>> /\ topo = <<>> /\ mark = [k \in Keys |-> "new"]
    BY <1>5 DEF IndInv, PhaseOK
  <1> HIDE DEF node, s
  <1>8. order \in Seq(IDs) /\ order' \in Seq(IDs) /\ Len(order') = Len(order) + 1
        /\ order'[Len(order) + 1] = s.id
        /\ \A i \in 1 .. Len(order) : order'[i] = order[i]
    BY <1>1, <1>5, AppendProperties DEF IndInv, TypeOK, SpecType
  <1>9. TypeOK'
    <2>1. DOMAIN nodes' \subseteq Keys /\ \A k \in DOMAIN nodes' : nodes'[k] \in NodeType
      BY <1>2, <1>4, <1>6 DEF IndInv, TypeOK
    <2> QED
      BY <2>1, <1>1, <1>5, <1>7, <1>8 DEF IndInv, TypeOK
  <1>10. OrderOK'
    BY <1>6, <1>8 DEF IndInv, OrderOK
  <1>11. PhaseOK' /\ ClosedOK' /\ RootsOK'
    BY <1>5, <1>7 DEF PhaseOK, ClosedOK, RootsOK
  <1>12. SearchOK'
    BY <1>5, <1>7 DEF SearchOK, MarksOK, StackOK, TopoOrdered
  <1> QED
    BY <1>9, <1>10, <1>11, <1>12 DEF IndInv

LEMMA StepEndScan ==
  ASSUME IndInv, EndScan
  PROVE  IndInv'
  <1>1. /\ UNCHANGED <<defs, specs, nodes, order, edges, mark, stack, topo>>
        /\ pc = "scan" /\ pc' = "edges" /\ at' = 1
    BY DEF EndScan
  <1>2. TypeOK'
    BY <1>1 DEF IndInv, TypeOK
  <1>3. PhaseOK' /\ OrderOK' /\ ClosedOK' /\ RootsOK'
    BY <1>1 DEF IndInv, PhaseOK, OrderOK, ClosedOK, RootsOK
  <1> QED
    BY <1>1, <1>2, <1>3, SameSearch DEF IndInv

LEMMA StepAcceptNode ==
  ASSUME IndInv, AcceptNode
  PROVE  IndInv'
  <1> DEFINE id == order[at]
  <1>1. /\ UNCHANGED <<defs, specs, pc, nodes, order, mark, stack, topo>>
        /\ pc = "edges" /\ at' = at + 1 /\ at <= Len(order)
        /\ edges' = edges \o EdgesFrom(id)
    BY DEF AcceptNode
  <1>2. at \in 1 .. Len(order) /\ id \in IDs
    BY <1>1 DEF IndInv, TypeOK
  <1>3. String(id) \in DOMAIN nodes
    BY <1>2 DEF IndInv, OrderOK
  <1>4. DepsOf(id) \in Seq(IDs)
    BY <1>3, DepsType DEF IndInv
  <1>5. edges' \in Seq(IDs \X IDs)
    <2>1. EdgesFrom(id) \in Seq(IDs \X IDs)
      BY <1>2, <1>4 DEF EdgesFrom
    <2> QED
      BY <2>1, <1>1 DEF IndInv, TypeOK
  <1>6. TypeOK'
    BY <1>1, <1>2, <1>5 DEF IndInv, TypeOK
  <1>7. Closed(String(id))
    BY DEF AcceptNode, MissingDeps, Closed, DepsOf
  <1>8. ClosedOK'
    <2> SUFFICES ASSUME NEW i \in 1 .. Len(order), i < at + 1
                 PROVE  Closed(String(order[i]))'
      BY <1>1 DEF ClosedOK
    <2>1. CASE i = at
      BY <1>1, <1>7, <2>1 DEF Closed
    <2>2. CASE i < at
      BY <1>1, <2>2 DEF IndInv, ClosedOK, Closed
    <2> QED
      BY <2>1, <2>2, <1>2
  <1>9. PhaseOK' /\ OrderOK' /\ RootsOK'
    BY <1>1 DEF IndInv, PhaseOK, OrderOK, RootsOK
  <1> QED
    BY <1>1, <1>6, <1>8, <1>9, SameSearch DEF IndInv

LEMMA StepEndEdges ==
  ASSUME IndInv, EndEdges
  PROVE  IndInv'
  <1>1. /\ UNCHANGED <<defs, specs, nodes, order, edges, mark, stack, topo>>
        /\ pc = "edges" /\ pc' = "sort" /\ at' = 1 /\ at > Len(order)
    BY DEF EndEdges
  <1>2. TypeOK'
    BY <1>1 DEF IndInv, TypeOK
  <1>3. \A k \in DOMAIN nodes : Closed(k)
    <2> SUFFICES ASSUME NEW k \in DOMAIN nodes PROVE Closed(k)
      OBVIOUS
    <2>1. PICK i \in 1 .. Len(order) : k = String(order[i])
      BY DEF IndInv, OrderOK
    <2>2. i < at
      BY <1>1 DEF IndInv, TypeOK
    <2> QED
      BY <1>1, <2>1, <2>2 DEF IndInv, ClosedOK
  <1>4. PhaseOK' /\ OrderOK' /\ RootsOK'
    BY <1>1 DEF IndInv, TypeOK, PhaseOK, OrderOK, RootsOK
  <1>5. ClosedOK'
    BY <1>1, <1>3 DEF ClosedOK, Closed
  <1> QED
    BY <1>1, <1>2, <1>4, <1>5, SameSearch DEF IndInv

-----------------------------------------------------------------------------
\* The steps of the search leave the compiled graph alone.
LEMMA SameGraph ==
  ASSUME IndInv, UNCHANGED <<defs, specs, pc, nodes, order, edges>>,
         at' \in Nat \ {0}, pc = "sort",
         mark' \in [Keys -> Marks],
         stack' \in Seq(CallType),
         \A i \in DOMAIN stack' : String(stack'[i].id) \in DOMAIN nodes,
         topo' \in Seq(IDs),
         \A i \in DOMAIN topo' : String(topo'[i]) \in DOMAIN nodes
  PROVE  TypeOK' /\ PhaseOK' /\ OrderOK' /\ ClosedOK'
  <1>1. TypeOK'
    BY DEF IndInv, TypeOK
  <1>2. PhaseOK' /\ OrderOK'
    BY DEF IndInv, PhaseOK, OrderOK
  <1>3. ClosedOK'
    BY DEF IndInv, ClosedOK, Closed
  <1> QED
    BY <1>1, <1>2, <1>3

LEMMA RootKey ==
  ASSUME IndInv, NEW i \in 1 .. Len(order)
  PROVE  /\ order[i] \in IDs /\ String(order[i]) \in Keys
         /\ String(order[i]) \in DOMAIN nodes
  <1>1. order[i] \in IDs
    BY DEF IndInv, TypeOK
  <1> QED
    BY <1>1, KeyOfID DEF IndInv, OrderOK

\* Once a node has been visited it stays so.
LEMMA RootsStay ==
  ASSUME IndInv, UNCHANGED <<pc, order>>,
         \A k \in Keys : mark[k] # "new" => mark'[k] # "new",
         at' = at \/ (at' = at + 1 /\ (at <= Len(order) => mark'[String(order[at])] # "new"))
  PROVE  RootsOK'
  <1> SUFFICES ASSUME pc \in {"sort", "done"}, NEW i \in 1 .. Len(order), i < at'
               PROVE  mark'[String(order[i])] # "new"
    BY DEF RootsOK
  <1>1. String(order[i]) \in Keys
    BY RootKey
  <1>2. CASE i < at
    BY <1>1, <1>2 DEF IndInv, RootsOK
  <1>3. CASE ~(i < at)
    <2>1. i = at /\ at <= Len(order)
      BY <1>3 DEF IndInv, TypeOK
    <2> QED
      BY <1>3, <2>1
  <1> QED
    BY <1>2, <1>3

LEMMA StepSkipRoot ==
  ASSUME IndInv, SkipRoot
  PROVE  IndInv'
  <1>1. /\ UNCHANGED <<defs, specs, pc, nodes, order, edges, mark, stack, topo>>
        /\ pc = "sort" /\ at' = at + 1 /\ at <= Len(order)
        /\ mark[String(order[at])] = "done"
    BY DEF SkipRoot
  <1>2. TypeOK' /\ PhaseOK' /\ OrderOK' /\ ClosedOK'
    BY <1>1, SameGraph DEF IndInv, TypeOK
  <1>3. RootsOK'
    BY <1>1, RootsStay
  <1> QED
    BY <1>1, <1>2, <1>3, SameSearch DEF IndInv

-----------------------------------------------------------------------------
\* A call of dfs on a node that is new.
LEMMA StepVisit ==
  ASSUME IndInv, pc = "sort", NEW id \in IDs, String(id) \in DOMAIN nodes,
         mark[String(id)] = "new", Visit(id),
         stack = <<>> \/ (InLoop /\ id = TopDep),
         at' = at \/ (at' = at + 1 /\ id = order[at])
  PROVE  IndInv'
  <1> DEFINE n == Len(stack)
  <1>1. /\ UNCHANGED <<defs, specs, pc, nodes, order, edges, topo>>
        /\ stack' = Append(stack, Call(id))
        /\ mark' = [mark EXCEPT ![String(id)] = "visiting"]
    BY DEF Visit
  <1>2. String(id) \in Keys
    BY KeyOfID
  <1>3. Call(id) \in CallType
    BY DEF Call, CallType
  <1>4. /\ stack \in Seq(CallType) /\ stack' \in Seq(CallType)
        /\ n \in Nat /\ Len(stack') = n + 1
        /\ stack'[n + 1] = Call(id) /\ \A i \in 1 .. n : stack'[i] = stack[i]
    BY <1>1, <1>3, AppendProperties DEF IndInv, TypeOK
  <1>5. \A k \in Keys : mark'[k] = IF k = String(id) THEN "visiting" ELSE mark[k]
    BY <1>1 DEF IndInv, TypeOK
  <1>6. TypeOK' /\ PhaseOK' /\ OrderOK' /\ ClosedOK'
    <2>1. \A i \in DOMAIN stack' : String(stack'[i].id) \in DOMAIN nodes
      <3>1. DOMAIN stack' = 1 .. n + 1 /\ stack'[n + 1].id = id
        BY <1>4 DEF Call
      <3>2. \A i \in 1 .. n : String(stack[i].id) \in DOMAIN nodes
        BY <1>4 DEF IndInv, TypeOK
      <3> QED
        BY <1>4, <3>1, <3>2
    <2>2. mark' \in [Keys -> Marks]
      BY <1>1 DEF IndInv, TypeOK, Marks
    <2>3. at' \in Nat \ {0}
      BY DEF IndInv, TypeOK
    <2> QED
      BY <1>1, <1>4, <2>1, <2>2, <2>3, SameGraph DEF IndInv, TypeOK
  <1>7. RootsOK'
    BY <1>1, <1>2, <1>5, RootsStay
  <1>8. /\ String(stack'[n + 1].id) = String(id)
        /\ \A i \in 1 .. n : StackKey(i)' = StackKey(i) /\ StackKey(i) \in Keys
        /\ \A i : StackKey(i)' = String(stack'[i].id)
    <2>1. Call(id).id = id
      BY DEF Call
    <2>2. \A i : StackKey(i)' = String(stack'[i].id)
      BY DEF StackKey
    <2>3. \A i \in 1 .. n : stack[i].id \in IDs
      <3>1. \A i \in 1 .. n : stack[i] \in CallType
        BY <1>4
      <3> QED
        BY <3>1 DEF CallType
    <2> QED
      BY <1>4, <2>1, <2>2, <2>3, KeyOfID DEF StackKey
  <1>9. \A i \in 1 .. n : StackKey(i) # String(id)
    BY <1>8 DEF IndInv, SearchOK, MarksOK
  <1>10. MarksOK'
    <2>1. \A k \in Keys : mark'[k] = "done" <=> mark[k] = "done"
      BY <1>5
    <2>2. \A k \in Keys : (mark[k] = "done" <=> \E i \in 1 .. Len(topo) : KeyAt(i) = k)'
      BY <1>1, <2>1 DEF IndInv, SearchOK, MarksOK, KeyAt
    <2>3. ASSUME NEW k \in Keys
          PROVE  mark'[k] = "visiting" <=> \E i \in 1 .. n + 1 : StackKey(i)' = k
      <3>1. CASE k = String(id)
        BY <1>4, <1>5, <1>8, <3>1
      <3>2. CASE k # String(id)
        <4>1. mark'[k] = "visiting" <=> \E i \in 1 .. n : StackKey(i) = k
          BY <1>5, <3>2 DEF IndInv, SearchOK, MarksOK
        <4> QED
          BY <1>4, <1>8, <3>2, <4>1
      <3> QED
        BY <3>1, <3>2
    <2> QED
      BY <1>4, <2>2, <2>3 DEF MarksOK
  <1>11. StackOK'
    <2>1. \A i, j \in 1 .. n + 1 : StackKey(i)' = StackKey(j)' => i = j
      <3>1. \A i, j \in 1 .. n : StackKey(i) = StackKey(j) => i = j
        BY DEF IndInv, SearchOK, StackOK
      <3>2. \A i \in 1 .. n + 1 : i \in 1 .. n \/ (i = n + 1 /\ StackKey(i)' = String(id))
        BY <1>4, <1>8
      <3> QED
        BY <1>8, <1>9, <3>1, <3>2
    <2>2. ASSUME NEW i \in 1 .. n + 1, NEW j \in DOMAIN DepsOf(stack[i].id)',
                 j < stack'[i].next
          PROVE  mark'[DepKey(i, j)'] = "done"
      <3>1. i # n + 1
        <4> SUFFICES ASSUME i = n + 1 PROVE FALSE
          OBVIOUS
        <4>1. stack'[i].next = 1 /\ stack'[i].id = id
          BY <1>4 DEF Call
        <4>2. DepsOf(id) \in Seq(IDs) /\ DepsOf(id)' = DepsOf(id)
          BY <1>1, DepsType DEF IndInv, DepsOf
        <4> QED
          BY <2>2, <4>1, <4>2
      <3>2. i \in 1 .. n /\ stack'[i] = stack[i]
        BY <1>4, <3>1
      <3>3. DepKey(i, j)' = DepKey(i, j) /\ DepsOf(stack[i].id)' = DepsOf(stack[i].id)
        BY <1>1, <3>2 DEF DepKey, DepsOf
      <3>4. mark[DepKey(i, j)] = "done"
        BY <2>2, <3>2, <3>3 DEF IndInv, SearchOK, StackOK
      <3>5. DepKey(i, j) \in Keys
        <4>1. DepsOf(stack[i].id) \in Seq(IDs)
          BY <3>2, DepsType DEF IndInv, TypeOK
        <4> QED
          BY <2>2, <3>3, <4>1, KeyOfID DEF DepKey
      <3> QED
        BY <1>5, <3>3, <3>4, <3>5
    <2>3. ASSUME NEW i \in 1 .. n
          PROVE  /\ stack'[i].next \in DOMAIN DepsOf(stack[i].id)'
                 /\ stack'[i + 1].id = DepsOf(stack[i].id)'[stack'[i].next]
      <3>1. DepsOf(stack[i].id)' = DepsOf(stack[i].id) /\ stack'[i] = stack[i]
        BY <1>1, <1>4 DEF DepsOf
      <3>2. CASE i < n
        BY <1>4, <3>1, <3>2 DEF IndInv, SearchOK, StackOK
      <3>3. CASE i = n
        <4>1. stack # <<>>
          BY <1>4, <3>3
        <4>2. InLoop /\ id = TopDep /\ stack[i] = Top
          BY <4>1, <3>3, TopCall DEF IndInv
        <4>3. Top.next \in DOMAIN DepsOf(Top.id)
          BY <4>2, NextDep DEF IndInv
        <4>4. stack'[i + 1].id = id
          BY <1>4, <3>3 DEF Call
        <4> QED
          BY <3>1, <4>2, <4>3, <4>4 DEF TopDep
      <3> QED
        BY <1>4, <3>2, <3>3
    <2>4. Len(stack') = n + 1 /\ Len(stack') - 1 = n
      BY <1>4
    <2>5. (\A i, j \in 1 .. Len(stack) : StackKey(i) = StackKey(j) => i = j)'
      BY <2>1, <2>4
    <2>6. (\A i \in 1 .. Len(stack) : \A j \in DOMAIN DepsOf(stack[i].id) :
             j < stack[i].next => mark[DepKey(i, j)] = "done")'
      BY <2>2, <2>4
    <2>7. (\A i \in 1 .. Len(stack) - 1 :
             /\ stack[i].next \in DOMAIN DepsOf(stack[i].id)
             /\ stack[i + 1].id = DepsOf(stack[i].id)[stack[i].next])'
      BY <2>3, <2>4
    <2> QED
      BY <2>5, <2>6, <2>7 DEF StackOK
  <1>12. TopoOrdered'
    BY <1>1 DEF IndInv, SearchOK, TopoOrdered, KeyAt, DepsOf
  <1> QED
    BY <1>6, <1>7, <1>10, <1>11, <1>12 DEF IndInv, SearchOK

LEMMA StepVisitRoot ==
  ASSUME IndInv, VisitRoot
  PROVE  IndInv'
  <1>1. at \in 1 .. Len(order) /\ pc = "sort" /\ stack = <<>> /\ at' = at + 1
    BY DEF IndInv, TypeOK, VisitRoot
  <1>2. order[at] \in IDs /\ String(order[at]) \in DOMAIN nodes /\ String(order[at]) \in Keys
    BY <1>1, RootKey
  <1>3. mark[String(order[at])] = "new"
    BY <1>1, <1>2, EmptyStack DEF IndInv, SearchOK, VisitRoot
  <1>4. Visit(order[at])
    BY DEF VisitRoot
  <1> QED
    BY <1>1, <1>2, <1>3, <1>4, StepVisit

LEMMA StepVisitDep ==
  ASSUME IndInv, VisitDep
  PROVE  IndInv'
  <1>1. InLoop /\ mark[String(TopDep)] = "new" /\ Visit(TopDep) /\ at' = at
    BY DEF VisitDep
  <1>2. TopDep \in IDs /\ String(TopDep) \in DOMAIN nodes
    BY <1>1, NextDep DEF IndInv
  <1>3. pc = "sort"
    BY <1>1 DEF InLoop
  <1> QED
    BY <1>1, <1>2, <1>3, StepVisit

-----------------------------------------------------------------------------
LEMMA StepSkipDone ==
  ASSUME IndInv, SkipDone
  PROVE  IndInv'
  <1> DEFINE n == Len(stack)
  <1>1. /\ UNCHANGED <<defs, specs, pc, at, nodes, order, edges, mark, topo>>
        /\ stack' = [stack EXCEPT ![n].next = @ + 1]
        /\ pc = "sort" /\ stack # <<>> /\ InLoop /\ mark[String(TopDep)] = "done"
    BY DEF SkipDone, InLoop
  <1>2. /\ n \in Nat \ {0} /\ Top \in CallType /\ Top = stack[n]
        /\ stack \in Seq(CallType)
    BY <1>1, TopCall DEF IndInv, TypeOK
  <1>3. [Top EXCEPT !.next = @ + 1] \in CallType
    BY <1>2 DEF CallType
  <1>4. /\ stack' \in Seq(CallType) /\ Len(stack') = n
        /\ \A i \in 1 .. n : i # n => stack'[i] = stack[i]
        /\ stack'[n] = [Top EXCEPT !.next = @ + 1]
    BY <1>1, <1>2, <1>3, ExceptSeq
  <1>5. \A i \in 1 .. n : stack'[i].id = stack[i].id
    BY <1>2, <1>4 DEF CallType
  <1>6. /\ stack'[n].next = Top.next + 1
        /\ \A i \in 1 .. n : i # n => stack'[i].next = stack[i].next
    BY <1>2, <1>4 DEF CallType
  <1>7. TypeOK' /\ PhaseOK' /\ OrderOK' /\ ClosedOK'
    <2>1. \A i \in DOMAIN stack' : String(stack'[i].id) \in DOMAIN nodes
      <3>1. DOMAIN stack' = 1 .. n /\ DOMAIN stack = 1 .. n
        BY <1>2, <1>4
      <3> QED
        BY <1>5, <3>1 DEF IndInv, TypeOK
    <2> QED
      BY <1>1, <1>4, <2>1, SameGraph DEF IndInv, TypeOK
  <1>8. RootsOK'
    BY <1>1, RootsStay
  <1>9. \A i \in 1 .. n : StackKey(i)' = StackKey(i)
    BY <1>5 DEF StackKey
  <1>10. MarksOK'
    <2>1. \A k \in Keys : (mark[k] = "done" <=> \E i \in 1 .. Len(topo) : KeyAt(i) = k)'
      BY <1>1 DEF IndInv, SearchOK, MarksOK, KeyAt
    <2>2. \A k \in Keys : mark'[k] = "visiting" <=> \E i \in 1 .. n : StackKey(i)' = k
      BY <1>1, <1>9 DEF IndInv, SearchOK, MarksOK
    <2> QED
      BY <1>4, <2>1, <2>2 DEF MarksOK
  <1>11. StackOK'
    <2>1. \A i, j \in 1 .. n : StackKey(i)' = StackKey(j)' => i = j
      BY <1>9 DEF IndInv, SearchOK, StackOK
    <2>2. ASSUME NEW i \in 1 .. n, NEW j \in DOMAIN DepsOf(stack[i].id),
                 j < stack'[i].next
          PROVE  mark[DepKey(i, j)] = "done"
      <3>1. CASE j < stack[i].next
        BY <3>1 DEF IndInv, SearchOK, StackOK
      <3>2. CASE ~(j < stack[i].next)
        <4>1. i = n
          BY <2>2, <1>6, <3>2
        <4>2. DepsOf(Top.id) \in Seq(IDs)
          BY <1>1, TopCall DEF IndInv
        <4>3. j = Top.next
          BY <2>2, <1>2, <1>6, <3>2, <4>1, <4>2 DEF CallType
        <4> QED
          BY <1>1, <1>2, <4>1, <4>3 DEF DepKey, TopDep
      <3> QED
        BY <3>1, <3>2
    <2>3. \A i \in 1 .. n : /\ DepsOf(stack[i].id)' = DepsOf(stack[i].id)
                            /\ \A j : DepKey(i, j)' = DepKey(i, j)
      BY <1>1, <1>5 DEF DepsOf, DepKey
    <2>4. ASSUME NEW i \in 1 .. n - 1
          PROVE  /\ stack'[i].next \in DOMAIN DepsOf(stack[i].id)
                 /\ stack'[i + 1].id = DepsOf(stack[i].id)[stack'[i].next]
      BY <1>2, <1>5, <1>6 DEF IndInv, SearchOK, StackOK
    <2> QED
      BY <1>1, <1>2, <1>4, <2>1, <2>2, <2>3, <2>4 DEF StackOK
  <1>12. TopoOrdered'
    BY <1>1 DEF IndInv, SearchOK, TopoOrdered, KeyAt, DepsOf
  <1> QED
    BY <1>7, <1>8, <1>10, <1>11, <1>12 DEF IndInv, SearchOK

\* What is left of the stack when the innermost call returns.
LEMMA ResumedStack ==
  ASSUME IndInv, stack # <<>>, stack' = Resumed(Front(stack)), NEW m, m = Len(stack) - 1
  PROVE  /\ m \in Nat /\ stack' \in Seq(CallType) /\ Len(stack') = m
         /\ \A i \in 1 .. m : stack'[i].id = stack[i].id
         /\ \A i \in 1 .. m - 1 : stack'[i].next = stack[i].next
         /\ m > 0 => stack'[m].next = stack[m].next + 1
  <1> DEFINE s == Front(stack)
  <1>1. stack \in Seq(CallType) /\ m \in Nat
    BY TopCall DEF IndInv, TypeOK
  <1>2. s \in Seq(CallType) /\ Len(s) = m /\ \A i \in 1 .. m : s[i] = stack[i]
    BY <1>1, SubSeqProperties DEF Front
  <1> HIDE DEF s
  <1>3. stack' = IF s = <<>> THEN s ELSE [s EXCEPT ![Len(s)].next = @ + 1]
    BY DEF Resumed, s
  <1>4. CASE m = 0
    <2>1. s = <<>>
      BY <1>2, <1>4, EmptySeq
    <2> QED
      BY <1>2, <1>3, <1>4, <2>1
  <1>5. CASE m > 0
    <2> DEFINE c == [s[m] EXCEPT !.next = @ + 1]
    <2>1. s # <<>> /\ m \in 1 .. Len(s) /\ s[m] \in CallType
      BY <1>1, <1>2, <1>5
    <2>2. c \in CallType /\ c.id = s[m].id /\ c.next = s[m].next + 1
      BY <2>1 DEF CallType
    <2>3. stack' = [s EXCEPT ![m] = c]
      BY <1>2, <1>3, <2>1
    <2> HIDE DEF c
    <2>4. /\ stack' \in Seq(CallType) /\ Len(stack') = m /\ stack'[m] = c
          /\ \A i \in 1 .. m : i # m => stack'[i] = s[i]
      BY <1>2, <2>1, <2>2, <2>3, ExceptSeq
    <2>5. \A i \in 1 .. m : stack'[i].id = stack[i].id
      BY <1>2, <2>2, <2>4
    <2>6. ASSUME NEW i \in 1 .. m - 1 PROVE stack'[i].next = stack[i].next
      <3>1. i \in 1 .. m /\ i # m
        BY <1>1
      <3>2. stack'[i] = s[i] /\ s[i] = stack[i]
        BY <3>1, <1>2, <2>4
      <3> QED
        BY <3>2
    <2>7. stack'[m].next = stack[m].next + 1
      BY <1>1, <1>2, <1>5, <2>2, <2>4
    <2> QED
      BY <1>1, <2>4, <2>5, <2>6, <2>7
  <1>6. m = 0 \/ m > 0
    BY <1>1
  <1> QED
    BY <1>4, <1>5, <1>6

-----------------------------------------------------------------------------
\* The innermost call has seen all its dependencies and returns.
LEMMA StepLeaveNode ==
  ASSUME IndInv, LeaveNode
  PROVE  IndInv'
  <1>1. /\ UNCHANGED <<defs, specs, pc, at, nodes, order, edges>>
        /\ stack' = Resumed(Front(stack))
        /\ mark' = [mark EXCEPT ![String(Top.id)] = "done"]
        /\ topo' = Append(topo, Top.id)
        /\ pc = "sort" /\ stack # <<>> /\ Top.next > Len(DepsOf(Top.id))
    BY DEF LeaveNode
  <1>2. PICK m : m = Len(stack) - 1
    OBVIOUS
  <1>3. PICK k \in Keys : k = String(Top.id)
    BY <1>1, TopCall DEF IndInv
  <1>4. PICK top \in CallType : top = Top /\ top = stack[m + 1]
    BY <1>1, <1>2, TopCall DEF IndInv
  <1>5. /\ m \in Nat /\ Len(stack) = m + 1 /\ k \in DOMAIN nodes
        /\ DepsOf(top.id) \in Seq(IDs) /\ top.id \in IDs /\ k = String(top.id)
    BY <1>1, <1>2, <1>3, <1>4, TopCall DEF IndInv, CallType
  <1>6. /\ stack' \in Seq(CallType) /\ Len(stack') = m
        /\ \A i \in 1 .. m : stack'[i].id = stack[i].id
        /\ \A i \in 1 .. m - 1 : stack'[i].next = stack[i].next
        /\ m > 0 => stack'[m].next = stack[m].next + 1
    BY <1>1, <1>2, ResumedStack
  <1>7. \A j \in Keys : mark'[j] = IF j = k THEN "done" ELSE mark[j]
    BY <1>1, <1>3 DEF IndInv, TypeOK
  <1>8. /\ topo \in Seq(IDs) /\ topo' \in Seq(IDs)
        /\ Len(topo) \in Nat /\ Len(topo') = Len(topo) + 1
        /\ topo'[Len(topo) + 1] = top.id
        /\ \A i \in 1 .. Len(topo) : topo'[i] = topo[i]
    BY <1>1, <1>4, <1>5, AppendProperties DEF IndInv, TypeOK
  <1>9. PICK l \in Nat : l = Len(topo)
    BY <1>8
  <1>10. TypeOK' /\ PhaseOK' /\ OrderOK' /\ ClosedOK'
    <2>1. \A i \in DOMAIN stack' : String(stack'[i].id) \in DOMAIN nodes
      <3>1. DOMAIN stack' = 1 .. m /\ 1 .. m \subseteq DOMAIN stack
        BY <1>5, <1>6 DEF IndInv, TypeOK
      <3> QED
        BY <1>6, <3>1 DEF IndInv, TypeOK
    <2>2. \A i \in DOMAIN topo' : String(topo'[i]) \in DOMAIN nodes
      <3>1. DOMAIN topo' = 1 .. l + 1 /\ DOMAIN topo = 1 .. l
        BY <1>8, <1>9
      <3>2. \A i \in 1 .. l : String(topo'[i]) \in DOMAIN nodes
        BY <1>8, <1>9, <3>1 DEF IndInv, TypeOK
      <3> QED
        BY <1>5, <1>8, <1>9, <3>1, <3>2
    <2>3. mark' \in [Keys -> Marks]
      BY <1>1 DEF IndInv, TypeOK, Marks
    <2> QED
      BY <1>1, <1>6, <1>8, <2>1, <2>2, <2>3, SameGraph DEF IndInv, TypeOK
  <1>11. RootsOK'
    BY <1>1, <1>7, RootsStay
  <1>12. /\ \A i \in 1 .. m : StackKey(i)' = StackKey(i) /\ StackKey(i) \in Keys
         /\ StackKey(m + 1) = k
         /\ \A i \in 1 .. m : StackKey(i) # k
    <2>1. \A i \in 1 .. m : StackKey(i)' = StackKey(i)
      BY <1>6 DEF StackKey
    <2>2. StackKey(m + 1) = k
      BY <1>4, <1>5 DEF StackKey
    <2>3. \A i \in 1 .. m : StackKey(i) # k
      BY <1>5, <2>2 DEF IndInv, SearchOK, StackOK
    <2>4. \A i \in 1 .. m : StackKey(i) \in Keys
      <3>1. \A i \in 1 .. m : stack[i] \in CallType
        BY <1>5 DEF IndInv, TypeOK
      <3> QED
        BY <3>1, KeyOfID DEF CallType, StackKey
    <2> QED
      BY <2>1, <2>2, <2>3, <2>4
  <1>13. /\ \A i \in 1 .. l : KeyAt(i)' = KeyAt(i) /\ KeyAt(i) \in Keys
         /\ KeyAt(l + 1)' = k
         /\ \A i \in 1 .. l : KeyAt(i) # k
    <2>1. \A i \in 1 .. l : KeyAt(i)' = KeyAt(i)
      BY <1>8, <1>9 DEF KeyAt
    <2>2. KeyAt(l + 1)' = k
      BY <1>5, <1>8, <1>9 DEF KeyAt
    <2>3. mark[k] = "visiting"
      BY <1>5, <1>12 DEF IndInv, SearchOK, MarksOK
    <2>4. \A i \in 1 .. l : KeyAt(i) # k
      BY <1>9, <2>3 DEF IndInv, SearchOK, MarksOK
    <2>5. \A i \in 1 .. l : KeyAt(i) \in Keys
      BY <1>9 DEF IndInv, TypeOK, KeyAt
    <2> QED
      BY <2>1, <2>2, <2>4, <2>5
  <1>14. MarksOK'
    <2>1. ASSUME NEW j \in Keys
          PROVE  mark'[j] = "done" <=> \E i \in 1 .. l + 1 : KeyAt(i)' = j
      <3>1. CASE j = k
        BY <1>7, <1>13, <3>1
      <3>2. CASE j # k
        <4>1. mark'[j] = "done" <=> \E i \in 1 .. l : KeyAt(i) = j
          BY <1>7, <1>9, <3>2 DEF IndInv, SearchOK, MarksOK
        <4>2. \A i \in 1 .. l + 1 : i \in 1 .. l \/ i = l + 1
          OBVIOUS
        <4> QED
          BY <1>13, <3>2, <4>1, <4>2
      <3> QED
        BY <3>1, <3>2
    <2>2. ASSUME NEW j \in Keys
          PROVE  mark'[j] = "visiting" <=> \E i \in 1 .. m : StackKey(i)' = j
      <3>1. CASE j = k
        BY <1>7, <1>12, <3>1
      <3>2. CASE j # k
        <4>1. mark'[j] = "visiting" <=> \E i \in 1 .. m + 1 : StackKey(i) = j
          BY <1>5, <1>7, <3>2 DEF IndInv, SearchOK, MarksOK
        <4>2. \A i \in 1 .. m + 1 : i \in 1 .. m \/ i = m + 1
          BY <1>5
        <4> QED
          BY <1>5, <1>12, <3>2, <4>1, <4>2
      <3> QED
        BY <3>1, <3>2
    <2> QED
      BY <1>6, <1>8, <1>9, <2>1, <2>2 DEF MarksOK
  <1>15. StackOK'
    <2>1. \A i, j \in 1 .. m : StackKey(i)' = StackKey(j)' => i = j
      BY <1>5, <1>12 DEF IndInv, SearchOK, StackOK
    <2>2. \A i \in 1 .. m : /\ DepsOf(stack[i].id)' = DepsOf(stack[i].id)
                            /\ \A j : DepKey(i, j)' = DepKey(i, j)
      BY <1>1, <1>6 DEF DepsOf, DepKey
    <2>3. \A i \in 1 .. m : DepsOf(stack[i].id) \in Seq(IDs)
      BY <1>5, DepsType DEF IndInv, TypeOK
    <2>4. \A i \in 1 .. m : /\ stack[i].next \in DOMAIN DepsOf(stack[i].id)
                            /\ stack[i + 1].id = DepsOf(stack[i].id)[stack[i].next]
      BY <1>5 DEF IndInv, SearchOK, StackOK
    <2>5. ASSUME NEW i \in 1 .. m, NEW j \in DOMAIN DepsOf(stack[i].id), j < stack'[i].next
          PROVE  mark'[DepKey(i, j)] = "done"
      <3>1. DepKey(i, j) \in Keys
        BY <2>3, KeyOfID DEF DepKey
      <3>2. CASE j < stack[i].next
        BY <1>5, <1>7, <3>1, <3>2 DEF IndInv, SearchOK, StackOK
      <3>3. CASE ~(j < stack[i].next)
        <4>1. i = m /\ stack'[m].next = stack[m].next + 1
          BY <2>5, <1>5, <1>6, <3>3
        <4>2. j = stack[i].next
          BY <2>3, <2>4, <2>5, <3>3, <4>1
        <4>3. DepKey(i, j) = k
          BY <1>4, <1>5, <2>4, <4>1, <4>2 DEF DepKey
        <4> QED
          BY <1>7, <4>3
      <3> QED
        BY <3>2, <3>3
    <2>6. ASSUME NEW i \in 1 .. m - 1
          PROVE  /\ stack'[i].next \in DOMAIN DepsOf(stack[i].id)
                 /\ stack'[i + 1].id = DepsOf(stack[i].id)[stack'[i].next]
      <3>1. i \in 1 .. m /\ i + 1 \in 1 .. m
        BY <1>5
      <3> QED
        BY <1>6, <2>4, <3>1
    <2> QED
      BY <1>6, <2>1, <2>2, <2>5, <2>6 DEF StackOK
  <1>16. TopoOrdered'
    <2>1. \A i, j \in 1 .. l + 1 : KeyAt(i)' = KeyAt(j)' => i = j
      <3>1. \A i, j \in 1 .. l : KeyAt(i) = KeyAt(j) => i = j
        BY <1>9 DEF IndInv, SearchOK, TopoOrdered
      <3>2. \A i \in 1 .. l + 1 : i \in 1 .. l \/ i = l + 1
        OBVIOUS
      <3> QED
        BY <1>13, <3>1, <3>2
    <2>2. ASSUME NEW i \in 1 .. l + 1, NEW d \in ToSet(DepsOf(topo'[i]))
          PROVE  \E j \in 1 .. i - 1 : KeyAt(j)' = String(d)
      <3>1. CASE i \in 1 .. l
        <4>1. topo'[i] = topo[i]
          BY <1>8, <1>9, <3>1
        <4>2. PICK j \in 1 .. i - 1 : KeyAt(j) = String(d)
          BY <1>9, <2>2, <3>1, <4>1 DEF IndInv, SearchOK, TopoOrdered
        <4>3. j \in 1 .. l
          BY <3>1
        <4> QED
          BY <1>13, <4>2, <4>3
      <3>2. CASE i = l + 1
        <4>1. PICK j \in DOMAIN DepsOf(top.id) : d = DepsOf(top.id)[j]
          BY <1>8, <1>9, <2>2, <3>2 DEF ToSet
        <4>2. j < stack[m + 1].next
          BY <1>1, <1>4, <1>5 DEF CallType
        <4>3. mark[DepKey(m + 1, j)] = "done"
          BY <1>4, <1>5, <4>2 DEF IndInv, SearchOK, StackOK
        <4>4. DepKey(m + 1, j) = String(d) /\ d \in IDs
          BY <1>4, <1>5, <4>1 DEF DepKey
        <4>5. \E q \in 1 .. l : KeyAt(q) = String(d)
          BY <1>9, <4>3, <4>4, KeyOfID DEF IndInv, SearchOK, MarksOK
        <4> QED
          BY <1>13, <3>2, <4>5
      <3> QED
        BY <3>1, <3>2
    <2>3. \A i : DepsOf(topo[i])' = DepsOf(topo'[i])
      BY <1>1 DEF DepsOf
    <2> QED
      BY <1>8, <1>9, <2>1, <2>2, <2>3 DEF TopoOrdered
  <1> QED
    BY <1>10, <1>11, <1>14, <1>15, <1>16 DEF IndInv, SearchOK

LEMMA StepEndSort ==
  ASSUME IndInv, EndSort
  PROVE  IndInv'
  <1>1. /\ UNCHANGED <<defs, specs, at, nodes, order, edges, mark, stack, topo>>
        /\ pc = "sort" /\ pc' = "done" /\ stack = <<>> /\ at > Len(order)
    BY DEF EndSort
  <1>2. TypeOK'
    BY <1>1 DEF IndInv, TypeOK
  <1>3. PhaseOK' /\ OrderOK' /\ RootsOK'
    BY <1>1 DEF IndInv, PhaseOK, OrderOK, RootsOK
  <1>4. ClosedOK'
    BY <1>1 DEF IndInv, ClosedOK, Closed
  <1> QED
    BY <1>1, <1>2, <1>3, <1>4, SameSearch DEF IndInv

-----------------------------------------------------------------------------
LEMMA IndInvStep == IndInv /\ [Next]_vars => IndInv'
  <1> SUFFICES ASSUME IndInv, [Next]_vars PROVE IndInv'
    OBVIOUS
  <1>1. CASE RejectSpec
    BY <1>1, StepReject DEF RejectSpec
  <1>2. CASE AcceptSpec
    BY <1>2, StepAcceptSpec
  <1>3. CASE EndScan
    BY <1>3, StepEndScan
  <1>4. CASE RejectNode
    BY <1>4, StepReject DEF RejectNode
  <1>5. CASE AcceptNode
    BY <1>5, StepAcceptNode
  <1>6. CASE EndEdges
    BY <1>6, StepEndEdges
  <1>7. CASE SkipRoot
    BY <1>7, StepSkipRoot
  <1>8. CASE VisitRoot
    BY <1>8, StepVisitRoot
  <1>9. CASE FoundCycle
    BY <1>9, StepReject DEF FoundCycle
  <1>10. CASE SkipDone
    BY <1>10, StepSkipDone
  <1>11. CASE VisitDep
    BY <1>11, StepVisitDep
  <1>12. CASE LeaveNode
    BY <1>12, StepLeaveNode
  <1>13. CASE EndSort
    BY <1>13, StepEndSort
  <1>14. CASE \E r \in Registrations : Register(r[1], r[2], r[3])
    BY <1>14, StepRegister
  <1>15. CASE UNCHANGED vars
    <2>1. UNCHANGED <<nodes, mark, stack, topo>>
      BY <1>15 DEF vars
    <2>2. TypeOK' /\ PhaseOK' /\ OrderOK' /\ RootsOK'
      BY <1>15 DEF IndInv, vars, TypeOK, PhaseOK, OrderOK, RootsOK
    <2>3. ClosedOK'
      BY <1>15 DEF IndInv, vars, ClosedOK, Closed
    <2> QED
      BY <2>1, <2>2, <2>3, SameSearch DEF IndInv
  <1> QED
    BY <1>1, <1>2, <1>3, <1>4, <1>5, <1>6, <1>7, <1>8, <1>9, <1>10, <1>11, <1>12,
       <1>13, <1>14, <1>15 DEF Next, CompileStep, Returned

LEMMA Invariance == Spec => []IndInv
  BY InitIndInv, IndInvStep, PTL DEF Spec

-----------------------------------------------------------------------------
\* Whatever the specs, c.nodes holds compiled specs and the search only ever
\* looks at nodes that exist: c.nodes[key] of container.go:377 is never nil.
THEOREM CompileTypeCorrect == Spec => []TypeOK
  <1>1. IndInv => TypeOK
    BY DEF IndInv
  <1> QED
    BY <1>1, Invariance, PTL

\* topoSort lists every node once and after all it depends on, for every graph,
\* at every moment of the search (container.go:345-407).
THEOREM TopoSorted == Spec => []TopoOrdered
  <1>1. IndInv => TopoOrdered
    BY DEF IndInv, SearchOK
  <1> QED
    BY <1>1, Invariance, PTL

\* A container that is returned has all its nodes in its topological order.
LEMMA Complete ==
  ASSUME IndInv, pc = "done"
  PROVE  DOMAIN nodes = {KeyAt(i) : i \in 1 .. Len(topo)}
  <1>1. stack = <<>> /\ at > Len(order)
    BY DEF IndInv, PhaseOK
  <1>2. ASSUME NEW k \in DOMAIN nodes
        PROVE  \E i \in 1 .. Len(topo) : KeyAt(i) = k
    <2>1. PICK i \in 1 .. Len(order) : k = String(order[i])
      BY DEF IndInv, OrderOK
    <2>2. mark[k] # "new"
      BY <1>1, <2>1 DEF IndInv, TypeOK, RootsOK
    <2>3. k \in Keys
      BY <2>1, RootKey
    <2> QED
      BY <1>1, <2>2, <2>3, EmptyStack DEF IndInv, SearchOK, MarksOK
  <1>3. ASSUME NEW i \in 1 .. Len(topo)
        PROVE  KeyAt(i) \in DOMAIN nodes
    BY DEF IndInv, TypeOK, KeyAt
  <1> QED
    BY <1>2, <1>3

\* A container that NewContainer returns has every node in the topological order
\* that Close walks (container.go:219, 325).
THEOREM TopoIsComplete == Spec => []TopoComplete
  <1>1. IndInv => TopoComplete
    BY Complete DEF TopoComplete
  <1> QED
    BY <1>1, Invariance, PTL

-----------------------------------------------------------------------------
\* There is an error only at the end.
ErrOK == pc # "error" => err.kind = "none"

\* A path of a CycleDetectedError, taken from the stack.
LEMMA StackCycle ==
  ASSUME IndInv, FoundCycle
  PROVE  CycleIsReal'
  <1> DEFINE d == TopDep
             s == StackPos(String(d))
             p == Append(IDsFrom(s), d)
  <1>1. /\ InLoop /\ mark[String(d)] = "visiting" /\ UNCHANGED nodes
        /\ err' = [kind |-> "CycleDetected", path |-> p]
    BY DEF FoundCycle, Reject, Error
  <1>2. /\ stack # <<>> /\ stack \in Seq(CallType) /\ d \in IDs
        /\ String(d) \in Keys /\ Top.next \in DOMAIN DepsOf(Top.id)
    BY <1>1, NextDep DEF IndInv, InLoop, TypeOK
  <1>3. PICK n \in Nat \ {0} : n = Len(stack) /\ Top = stack[n]
    BY <1>2, TopCall DEF IndInv
  <1>4. \E i \in DOMAIN stack : String(stack[i].id) = String(d)
    BY <1>1, <1>2 DEF IndInv, SearchOK, MarksOK, StackKey
  <1>5. s \in DOMAIN stack /\ String(stack[s].id) = String(d)
    BY <1>4 DEF StackPos
  <1>6. PICK f \in 1 .. n : f = s
    BY <1>2, <1>3, <1>5
  <1>7. \A i \in 1 .. n : stack[i].id \in IDs
    <2>1. \A i \in 1 .. n : stack[i] \in CallType
      BY <1>2, <1>3
    <2> QED
      BY <2>1 DEF CallType
  <1>8. /\ IDsFrom(s) \in Seq(IDs) /\ Len(IDsFrom(s)) = n - f + 1
        /\ \A i \in 1 .. n - f + 1 : IDsFrom(s)[i] = stack[f + i - 1].id
    BY <1>3, <1>6, <1>7 DEF IDsFrom
  <1>9. PICK path : path = p
    OBVIOUS
  <1>10. /\ Len(path) = n - f + 2
         /\ path[n - f + 2] = d
         /\ \A i \in 1 .. n - f + 1 : path[i] = stack[f + i - 1].id
    BY <1>2, <1>8, <1>9, AppendProperties
  <1>11. String(path[1]) = String(path[n - f + 2])
    BY <1>5, <1>6, <1>10
  <1>12. ASSUME NEW i \in 1 .. n - f + 1
         PROVE  path[i + 1] \in ToSet(DepsOf(path[i]))
    <2>1. path[i] = stack[f + i - 1].id
      BY <1>10
    <2>2. CASE i = n - f + 1
      <3>1. path[i + 1] = d /\ path[i] = Top.id
        BY <1>3, <1>10, <2>1, <2>2
      <3> QED
        BY <1>2, <3>1 DEF ToSet, TopDep
    <2>3. CASE i < n - f + 1
      <3>1. f + i - 1 \in 1 .. n - 1
        BY <2>3
      <3>2. PICK j \in 1 .. n - 1 : j = f + i - 1
        BY <3>1
      <3>3. path[i + 1] = stack[j + 1].id /\ path[i] = stack[j].id
        <4>1. i + 1 \in 1 .. n - f + 1 /\ f + (i + 1) - 1 = j + 1
          BY <2>3, <3>2
        <4>2. path[i + 1] = stack[f + (i + 1) - 1].id
          BY <1>10, <4>1
        <4> QED
          BY <2>1, <3>2, <4>1, <4>2
      <3>4. /\ stack[j].next \in DOMAIN DepsOf(stack[j].id)
            /\ stack[j + 1].id = DepsOf(stack[j].id)[stack[j].next]
        BY <1>3 DEF IndInv, SearchOK, StackOK
      <3> QED
        BY <3>3, <3>4 DEF ToSet
    <2> QED
      BY <2>2, <2>3
  <1>13. \A i, j \in 1 .. n - f + 1 : String(path[i]) = String(path[j]) => i = j
    <2> SUFFICES ASSUME NEW i \in 1 .. n - f + 1, NEW j \in 1 .. n - f + 1,
                        String(path[i]) = String(path[j])
                 PROVE  i = j
      OBVIOUS
    <2>1. f + i - 1 \in 1 .. n /\ f + j - 1 \in 1 .. n
      OBVIOUS
    <2>2. StackKey(f + i - 1) = StackKey(f + j - 1)
      BY <1>10 DEF StackKey
    <2>3. f + i - 1 = f + j - 1
      BY <1>3, <2>1, <2>2 DEF IndInv, SearchOK, StackOK
    <2> QED
      BY <2>3
  <1>14. \A i \in 1 .. n - f + 1 : DepsOf(path[i])' = DepsOf(path[i])
    BY <1>1 DEF DepsOf
  <1>15. err'.path = path
    BY <1>1, <1>9
  <1>16. Len(path) - 1 = n - f + 1 /\ Len(path) >= 2
    BY <1>10
  <1>17. \A i \in 1 .. n - f + 1 : path[i + 1] \in ToSet(DepsOf(path[i]))'
    BY <1>12, <1>14 DEF ToSet
  <1> HIDE DEF p
  <1> QED
    BY <1>10, <1>11, <1>13, <1>15, <1>16, <1>17 DEF CycleIsReal

LEMMA CheckKinds ==
  ASSUME NEW s, NEW i \in DOMAIN Checks(s)
  PROVE  Checks(s)[i].kind # "CycleDetected"
  <1>1. ASSUME NEW c1, NEW c2, NEW c3, NEW c4, NEW c5, NEW c6, NEW c7
        PROVE  DOMAIN <<c1, c2, c3, c4, c5, c6, c7>> = 1 .. 7
    OBVIOUS
  <1>2. DOMAIN Checks(s) = 1 .. 7
    BY <1>1 DEF Checks
  <1>3. i = 1 \/ i = 2 \/ i = 3 \/ i = 4 \/ i = 5 \/ i = 6 \/ i = 7
    BY <1>2
  <1>4. /\ Checks(s)[1].kind = "InvalidID" /\ Checks(s)[2].kind = "EmptyDriver"
        /\ Checks(s)[3].kind = "DuplicateNode" /\ Checks(s)[4].kind = "DefinitionNotFound"
        /\ Checks(s)[5].kind = "DecodeFailed" /\ Checks(s)[6].kind = "DepsFailed"
        /\ Checks(s)[7].kind = "InvalidDependency"
    BY DEF Checks
  <1> QED
    BY <1>3, <1>4

LEMMA CycleStep ==
  ASSUME IndInv, ErrOK, CycleIsReal, [Next]_vars
  PROVE  ErrOK' /\ CycleIsReal'
  <1>1. CASE FoundCycle
    <2>1. ErrOK'
      BY <1>1 DEF FoundCycle, Reject, ErrOK
    <2> QED
      BY <1>1, <2>1, StackCycle
  <1>2. CASE RejectSpec
    <2>1. PICK i \in Failing(specs[at]) :
            Reject(Error(Checks(specs[at])[i].kind, <<specs[at].id>>))
      BY <1>2 DEF RejectSpec
    <2>2. Checks(specs[at])[i].kind # "CycleDetected"
      BY <2>1, CheckKinds DEF Failing
    <2> QED
      BY <2>1, <2>2 DEF Reject, Error, ErrOK, CycleIsReal
  <1>3. CASE RejectNode
    BY <1>3 DEF RejectNode, Reject, Error, ErrOK, CycleIsReal
  <1>4. CASE err' = err /\ (pc' = pc \/ pc # "error") /\ (nodes' = nodes \/ pc # "error") /\ pc' # "error"
    BY <1>4 DEF ErrOK, CycleIsReal
  <1>5. CASE UNCHANGED <<pc, err, nodes>>
    BY <1>5 DEF ErrOK, CycleIsReal, DepsOf
  <1> QED
    BY <1>1, <1>2, <1>3, <1>4, <1>5
    DEF Next, CompileStep, Returned, vars, Register, AcceptSpec, EndScan, AcceptNode,
        EndEdges, SkipRoot, VisitRoot, SkipDone, VisitDep, Visit, LeaveNode, EndSort, InLoop

\* The path of a CycleDetectedError is a cycle of dependencies, whatever order
\* the specs and dependencies come in (container.go:380-385).
THEOREM CyclesAreReal == Spec => []CycleIsReal
  <1>1. Init => ErrOK /\ CycleIsReal
    BY DEF Init, NoError, ErrOK, CycleIsReal
  <1>2. IndInv /\ ErrOK /\ CycleIsReal /\ [Next]_vars => ErrOK' /\ CycleIsReal'
    BY CycleStep
  <1> QED
    BY <1>1, <1>2, Invariance, PTL DEF Spec

-----------------------------------------------------------------------------
\* The definition of every node is in the registry.
DefsOK ==
  \A k \in DOMAIN nodes :
    LET slot == <<nodes[k].id.kind, nodes[k].driver>>
    IN slot \in DOMAIN defs /\ nodes[k].def = defs[slot]

LEMMA DefsStep == DefsOK /\ [Next]_vars => DefsOK'
  <1> SUFFICES ASSUME DefsOK, [Next]_vars PROVE DefsOK'
    OBVIOUS
  <1>1. CASE AcceptSpec
    <2> DEFINE s == specs[at]
    <2>1. <<s.id.kind, s.driver>> \in DOMAIN defs
      <3>1. 4 \in DOMAIN Checks(s)
        BY DEF Checks
      <3>2. Checks(s)[4].ok
        BY <1>1, <3>1 DEF AcceptSpec, Failing
      <3> QED
        BY <3>2 DEF Checks
    <2> QED
      BY <1>1, <2>1 DEF AcceptSpec, DefsOK
  <1>2. CASE \E r \in Registrations : Register(r[1], r[2], r[3])
    <2>1. PICK r \in Registrations : Register(r[1], r[2], r[3])
      BY <1>2
    <2>2. nodes' = nodes
      BY <2>1 DEF Register
    <2>3. \A k \in DOMAIN defs : k \in DOMAIN defs' /\ defs'[k] = defs[k]
      BY <2>1 DEF Register
    <2> QED
      BY <2>2, <2>3 DEF DefsOK
  <1>3. CASE UNCHANGED <<defs, nodes>>
    BY <1>3 DEF DefsOK
  <1> QED
    BY <1>1, <1>2, <1>3
    DEF Next, CompileStep, Returned, vars, RejectSpec, RejectNode, FoundCycle, Reject,
        EndScan, AcceptNode, EndEdges, SkipRoot, VisitRoot, SkipDone, VisitDep, Visit,
        LeaveNode, EndSort

\* What a node was compiled with is what the registry has, then and ever after,
\* whoever registers meanwhile (registry.go:92-100, container.go:281).
THEOREM DefinitionsStay == Spec => []DefinitionKept
  <1>1. Init => DefsOK
    BY DEF Init, DefsOK
  <1>2. DefsOK => DefinitionKept
    BY DEF DefsOK, DefinitionKept
  <1> QED
    BY <1>1, <1>2, DefsStep, PTL DEF Spec

-----------------------------------------------------------------------------
\* What is accepted, and what rejected.

\* A set of numbers has a least one.
LEMMA LeastOf ==
  ASSUME NEW T, T \subseteq Nat, T # {}
  PROVE  \E x \in T : \A y \in T : x <= y
  <1>. DEFINE R == OpToRel(<, Nat)
  <1>1. IsWellFoundedOn(R, Nat)
    BY NatLessThanWellFounded
  <1>2. \A y \in Nat, x \in Nat : y < x => <<y, x>> \in R
    BY DEF OpToRel
  <1>. HIDE DEF R
  <1>3. PICK x \in T : \A y \in T : ~(<<y, x>> \in R)
    BY <1>1, WFMin
  <1>4. ASSUME NEW y \in T PROVE x <= y
    <2>1. x \in Nat /\ y \in Nat /\ ~(y < x)
      BY <1>2, <1>3
    <2>. QED
      BY <2>1
  <1>. QED
    BY <1>4

\* What was read of the i-th spec.
ReadAt(i) ==
  LET s == specs[i]
  IN /\ order[i] = s.id /\ nodes[String(s.id)].deps = s.deps
     /\ WellFormed(s) /\ Defined(s)

\* What was read of the specs, and that it was not read twice.
ReadOK ==
  /\ Len(order) <= Len(specs)
  /\ pc = "scan" => at = Len(order) + 1
  /\ pc \in {"edges", "sort", "done"} => Len(order) = Len(specs)
  /\ \A i \in 1 .. Len(order) : ReadAt(i)
  /\ \A i, j \in 1 .. Len(order) : String(order[i]) = String(order[j]) => i = j

\* What is rejected is not valid, or its definition is not registered.
CauseOK == pc = "error" => ~Valid(specs) \/ err.kind = "DefinitionNotFound"

\* No two IDs are written the same.
KeysDiffer == \A a, b \in IDs : String(a) = String(b) => a = b

\* What compile asks of a spec, one check at a time.
LEMMA ChecksAre ==
  ASSUME NEW s
  PROVE  /\ \A i \in DOMAIN Checks(s) : \/ i = 1 \/ i = 2 \/ i = 3 \/ i = 4
                                        \/ i = 5 \/ i = 6 \/ i = 7
         /\ \A i \in 1 .. 7 : i \in DOMAIN Checks(s)
         /\ Checks(s)[1].ok <=> ValidID(s.id)
         /\ Checks(s)[2].ok <=> s.driver # ""
         /\ Checks(s)[3].ok <=> String(s.id) \notin DOMAIN nodes
         /\ Checks(s)[4].ok <=> Defined(s)
         /\ Checks(s)[4].kind = "DefinitionNotFound"
         /\ Checks(s)[5].ok <=> s.decodes
         /\ Checks(s)[6].ok <=> s.lists
         /\ Checks(s)[7].ok <=> \A d \in ToSet(s.deps) : ValidID(d)
  <1>1. ASSUME NEW c1, NEW c2, NEW c3, NEW c4, NEW c5, NEW c6, NEW c7
        PROVE  DOMAIN <<c1, c2, c3, c4, c5, c6, c7>> = 1 .. 7
    OBVIOUS
  <1>2. DOMAIN Checks(s) = 1 .. 7
    BY <1>1 DEF Checks
  <1>3. /\ Checks(s)[1].ok = ValidID(s.id)
        /\ Checks(s)[2].ok = (s.driver # "")
        /\ Checks(s)[3].ok = (String(s.id) \notin DOMAIN nodes)
        /\ Checks(s)[4].ok = (<<s.id.kind, s.driver>> \in DOMAIN defs)
        /\ Checks(s)[4].kind = "DefinitionNotFound"
        /\ Checks(s)[5].ok = s.decodes
        /\ Checks(s)[6].ok = s.lists
        /\ Checks(s)[7].ok = (\A d \in ToSet(s.deps) : ValidID(d))
    BY DEF Checks
  <1>4. 1 .. 7 = {1, 2, 3, 4, 5, 6, 7}
    OBVIOUS
  <1>. QED
    BY <1>2, <1>3, <1>4 DEF Defined

LEMMA NothingFails ==
  ASSUME NEW s, Failing(s) = {}
  PROVE  WellFormed(s) /\ Defined(s) /\ String(s.id) \notin DOMAIN nodes
  <1>1. \A i \in 1 .. 7 : Checks(s)[i].ok
    BY ChecksAre DEF Failing
  <1>2. /\ 1 \in 1 .. 7 /\ 2 \in 1 .. 7 /\ 3 \in 1 .. 7 /\ 4 \in 1 .. 7
        /\ 5 \in 1 .. 7 /\ 6 \in 1 .. 7 /\ 7 \in 1 .. 7
    OBVIOUS
  <1>3. /\ Checks(s)[1].ok /\ Checks(s)[2].ok /\ Checks(s)[3].ok /\ Checks(s)[4].ok
        /\ Checks(s)[5].ok /\ Checks(s)[6].ok /\ Checks(s)[7].ok
    BY <1>1, <1>2
  <1>. QED
    BY <1>3, ChecksAre DEF WellFormed

LEMMA SomethingFails ==
  ASSUME NEW s, NEW i \in Failing(s)
  PROVE  \/ Checks(s)[i].kind = "DefinitionNotFound"
         \/ ~WellFormed(s)
         \/ String(s.id) \in DOMAIN nodes
  <1>1. i \in DOMAIN Checks(s) /\ ~Checks(s)[i].ok
    BY DEF Failing
  <1>2. i = 1 \/ i = 2 \/ i = 3 \/ i = 4 \/ i = 5 \/ i = 6 \/ i = 7
    BY <1>1, ChecksAre
  <1>. QED
    BY <1>1, <1>2, ChecksAre DEF WellFormed

\* Steps that read no spec.
LEMMA ReadSame ==
  ASSUME ReadOK, UNCHANGED <<specs, nodes, order>>, DOMAIN defs \subseteq DOMAIN defs',
         pc' = "scan" => pc = "scan" /\ at' = at,
         pc' \in {"edges", "sort", "done"} => Len(order) = Len(specs)
  PROVE  ReadOK'
  <1>1. \A i \in 1 .. Len(order) : ReadAt(i)'
    BY DEF ReadOK, ReadAt, Defined
  <1>. QED
    BY <1>1 DEF ReadOK

\* One more spec is read, under a key that no other has.
LEMMA ReadAccept ==
  ASSUME IndInv, ReadOK, AcceptSpec
  PROVE  ReadOK'
  <1>1. PICK n, s : n = Len(order) /\ s = specs[at]
    OBVIOUS
  <1>2. /\ pc = "scan" /\ at = n + 1 /\ n \in Nat /\ at <= Len(specs)
        /\ UNCHANGED <<defs, specs, pc>> /\ at' = at + 1
    BY <1>1 DEF AcceptSpec, ReadOK, IndInv, TypeOK
  <1>2a. s.id \in IDs
    <2>1. at \in 1 .. Len(specs) /\ specs \in Seq(SpecType)
      BY <1>2 DEF IndInv, TypeOK
    <2>2. s \in SpecType
      BY <1>1, <2>1
    <2>. QED
      BY <2>2 DEF SpecType
  <1>3. WellFormed(s) /\ Defined(s) /\ String(s.id) \notin DOMAIN nodes
    BY <1>1, NothingFails DEF AcceptSpec
  <1>4. /\ Len(order') = n + 1 /\ order'[n + 1] = s.id
        /\ \A i \in 1 .. n : order'[i] = order[i]
    BY <1>1, <1>2, <1>2a, AppendProperties DEF AcceptSpec, IndInv, TypeOK
  <1>5. /\ nodes'[String(s.id)].deps = s.deps
        /\ \A k \in DOMAIN nodes : nodes'[k] = nodes[k]
    BY <1>1, <1>3 DEF AcceptSpec
  <1>6. \A i \in 1 .. n : String(order[i]) \in DOMAIN nodes
    BY <1>1 DEF IndInv, OrderOK
  <1>7. ASSUME NEW i \in 1 .. n + 1 PROVE ReadAt(i)'
    <2>1. CASE i \in 1 .. n
      <3>1. ReadAt(i)
        BY <1>1, <2>1 DEF ReadOK
      <3>. QED
        BY <1>2, <1>4, <1>5, <1>6, <2>1, <3>1 DEF ReadAt, Defined
    <2>2. CASE i = n + 1
      BY <1>1, <1>2, <1>3, <1>4, <1>5, <2>2 DEF ReadAt, Defined
    <2>. QED
      BY <1>2, <2>1, <2>2
  <1>8. ASSUME NEW i \in 1 .. n + 1, NEW j \in 1 .. n + 1,
               String(order'[i]) = String(order'[j])
        PROVE  i = j
    <2>1. \A m \in 1 .. n + 1 : m \in 1 .. n \/ m = n + 1
      BY <1>2
    <2>2. \A m \in 1 .. n : String(order'[m]) # String(order'[n + 1])
      BY <1>3, <1>4, <1>6
    <2>3. CASE i \in 1 .. n /\ j \in 1 .. n
      BY <1>1, <1>4, <1>8, <2>3 DEF ReadOK
    <2>. QED
      BY <1>8, <2>1, <2>2, <2>3
  <1>9. at' = n + 1 + 1 /\ n + 1 <= Len(specs)
    BY <1>2
  <1>. QED
    BY <1>2, <1>4, <1>7, <1>8, <1>9 DEF ReadOK

LEMMA ReadStep ==
  ASSUME IndInv, ReadOK, [Next]_vars
  PROVE  ReadOK'
  <1>1. CASE AcceptSpec
    BY <1>1, ReadAccept
  <1>2. CASE EndScan
    <2>1. Len(order) = Len(specs)
      <3>1. Len(order) \in Nat /\ Len(specs) \in Nat
        BY DEF IndInv, TypeOK
      <3>. QED
        BY <1>2, <3>1 DEF EndScan, ReadOK
    <2>. QED
      BY <1>2, <2>1, ReadSame DEF EndScan
  <1>3. CASE \E r \in Registrations : Register(r[1], r[2], r[3])
    <2>1. /\ UNCHANGED <<specs, pc, at, nodes, order>>
          /\ DOMAIN defs \subseteq DOMAIN defs'
      BY <1>3 DEF Register
    <2>. QED
      BY <2>1, ReadSame DEF ReadOK
  <1>4. CASE UNCHANGED vars
    BY <1>4, ReadSame DEF vars, ReadOK
  <1>5. CASE RejectSpec \/ RejectNode \/ FoundCycle
    <2>1. UNCHANGED <<defs, specs, nodes, order>> /\ pc' = "error"
      BY <1>5 DEF RejectSpec, RejectNode, FoundCycle, Reject
    <2>. QED
      BY <2>1, ReadSame
  <1>6. CASE AcceptNode \/ EndEdges \/ SkipRoot \/ VisitRoot \/ SkipDone \/ VisitDep
             \/ LeaveNode \/ EndSort
    <2>1. /\ UNCHANGED <<defs, specs, nodes, order>>
          /\ pc \in {"edges", "sort"} /\ pc' \in {"edges", "sort", "done"}
      BY <1>6 DEF AcceptNode, EndEdges, SkipRoot, VisitRoot, SkipDone, VisitDep, Visit,
                  LeaveNode, EndSort, InLoop
    <2>. QED
      BY <2>1, ReadSame DEF ReadOK
  <1>. QED
    BY <1>1, <1>2, <1>3, <1>4, <1>5, <1>6 DEF Next, CompileStep, Returned

\* Facts about specs that are all read.
LEMMA SpecTyped ==
  ASSUME IndInv, NEW i \in DOMAIN specs
  PROVE  /\ i \in 1 .. Len(specs) /\ specs[i].id \in IDs /\ specs[i].deps \in Seq(IDs)
         /\ \A d \in ToSet(specs[i].deps) : d \in IDs
  <1>1. specs \in Seq(SpecType)
    BY DEF IndInv, TypeOK
  <1>2. i \in 1 .. Len(specs) /\ specs[i] \in SpecType
    BY <1>1
  <1>3. specs[i].id \in IDs /\ specs[i].deps \in Seq(IDs)
    BY <1>2 DEF SpecType
  <1>. QED
    BY <1>2, <1>3 DEF ToSet

\* A node is a spec's, once the specs are all read.
LEMMA NodeIsSpec ==
  ASSUME IndInv, ReadOK, KeysDiffer, pc \in {"edges", "sort", "done"}, NEW d \in IDs
  PROVE  String(d) \in DOMAIN nodes <=> IsSpecID(specs, d)
  <1>1. Len(order) = Len(specs) /\ specs \in Seq(SpecType) /\ DOMAIN specs = 1 .. Len(specs)
    BY DEF ReadOK, IndInv, TypeOK
  <1>2. \A i \in DOMAIN specs : order[i] = specs[i].id
    BY <1>1 DEF ReadOK, ReadAt
  <1>3. ASSUME String(d) \in DOMAIN nodes PROVE IsSpecID(specs, d)
    <2>1. PICK i \in DOMAIN specs : String(d) = String(order[i])
      BY <1>1, <1>3 DEF IndInv, OrderOK
    <2>2. specs[i].id \in IDs
      BY SpecTyped
    <2>. QED
      BY <1>2, <2>1, <2>2 DEF KeysDiffer, IsSpecID
  <1>4. ASSUME IsSpecID(specs, d) PROVE String(d) \in DOMAIN nodes
    BY <1>1, <1>2, <1>4 DEF IsSpecID, IndInv, OrderOK
  <1>. QED
    BY <1>3, <1>4

\* The deps of a node are its spec's.
LEMMA DepsAsRead ==
  ASSUME IndInv, ReadOK, pc \in {"edges", "sort", "done"}, NEW i \in DOMAIN specs
  PROVE  /\ order[i] = specs[i].id /\ DepsOf(specs[i].id) = specs[i].deps
         /\ WellFormed(specs[i]) /\ Defined(specs[i])
         /\ String(specs[i].id) \in DOMAIN nodes
  <1>1. Len(order) = Len(specs) /\ i \in 1 .. Len(specs)
    BY SpecTyped DEF ReadOK
  <1>2. ReadAt(i)
    BY <1>1 DEF ReadOK
  <1>3. String(order[i]) \in DOMAIN nodes
    BY <1>1, RootKey
  <1>. QED
    BY <1>2, <1>3 DEF ReadAt, DepsOf

\* A list that compile is through with is valid: of the nodes of a set, the one
\* that topoSort lists first depends on no other.
LEMMA ValidDone ==
  ASSUME IndInv, ReadOK, KeysDiffer, pc = "done"
  PROVE  Valid(specs) /\ \A i \in DOMAIN specs : Defined(specs[i])
  <1>1. \A i \in DOMAIN specs : WellFormed(specs[i]) /\ Defined(specs[i])
    BY DepsAsRead
  <1>2. ASSUME NEW i \in DOMAIN specs, NEW j \in DOMAIN specs, specs[i].id = specs[j].id
        PROVE  i = j
    <2>1. i \in 1 .. Len(order) /\ j \in 1 .. Len(order)
      BY SpecTyped DEF ReadOK
    <2>2. order[i] = order[j]
      BY <1>2, DepsAsRead
    <2>. QED
      BY <2>1, <2>2 DEF ReadOK
  <1>3. ASSUME NEW i \in DOMAIN specs, NEW d \in ToSet(specs[i].deps)
        PROVE  IsSpecID(specs, d)
    <2>1. Closed(String(specs[i].id))
      BY DepsAsRead DEF IndInv, ClosedOK
    <2>2. PICK m \in DOMAIN DepsOf(specs[i].id) : d = DepsOf(specs[i].id)[m]
      BY DepsAsRead DEF ToSet
    <2>3. String(d) \in DOMAIN nodes /\ d \in IDs
      BY <2>1, <2>2, SpecTyped DEF Closed, DepsOf
    <2>. QED
      BY <2>3, NodeIsSpec
  <1>4. ASSUME NEW S \in SUBSET DOMAIN specs, S # {}
        PROVE  \E i \in S : \A j \in S : specs[j].id \notin ToSet(specs[i].deps)
    <2>. DEFINE P == {p \in 1 .. Len(topo) : \E i \in S : KeyAt(p) = String(specs[i].id)}
    <2>1. \A i \in S : \E p \in 1 .. Len(topo) : KeyAt(p) = String(specs[i].id)
      BY Complete, DepsAsRead
    <2>2. P # {} /\ P \subseteq Nat
      BY <1>4, <2>1
    <2>3. PICK p \in P : \A q \in P : p <= q
      BY <2>2, LeastOf
    <2>4. PICK i \in S : KeyAt(p) = String(specs[i].id)
      OBVIOUS
    <2>5. DepsOf(topo[p]) = specs[i].deps
      BY <2>4, DepsAsRead DEF KeyAt, DepsOf
    <2>6. ASSUME NEW j \in S, specs[j].id \in ToSet(specs[i].deps) PROVE FALSE
      <3>1. PICK q \in 1 .. p - 1 : KeyAt(q) = String(specs[j].id)
        BY <2>5, <2>6 DEF IndInv, SearchOK, TopoOrdered
      <3>2. Len(topo) \in Nat /\ p \in 1 .. Len(topo)
        BY DEF IndInv, TypeOK
      <3>3. q \in P /\ ~(p <= q)
        BY <3>1, <3>2
      <3>. QED
        BY <2>3, <3>3
    <2>. QED
      BY <2>6
  <1>. QED
    BY <1>1, <1>2, <1>3, <1>4 DEF Valid, Acyclic

\* A spec that is rejected is wrong, or has the ID of an earlier one, or no
\* definition.
LEMMA SpecHasCause ==
  ASSUME IndInv, ReadOK, KeysDiffer, RejectSpec
  PROVE  CauseOK'
  <1>1. PICK s : s = specs[at]
    OBVIOUS
  <1>2. PICK i \in Failing(s) : Reject(Error(Checks(s)[i].kind, <<s.id>>))
    BY <1>1 DEF RejectSpec
  <1>3. UNCHANGED specs /\ err'.kind = Checks(s)[i].kind
    BY <1>2 DEF Reject, Error
  <1>4. at \in DOMAIN specs /\ at = Len(order) + 1 /\ Len(order) \in Nat
        /\ Len(order) <= Len(specs) /\ DOMAIN specs = 1 .. Len(specs) /\ Len(specs) \in Nat
    BY DEF RejectSpec, ReadOK, IndInv, TypeOK
  <1>5. CASE ~WellFormed(s)
    BY <1>1, <1>3, <1>4, <1>5 DEF CauseOK, Valid
  <1>6. CASE String(s.id) \in DOMAIN nodes
    <2>1. PICK j \in 1 .. Len(order) : String(order[j]) = String(s.id)
      BY <1>6 DEF IndInv, OrderOK
    <2>2. j \in DOMAIN specs /\ j # at
      BY <1>4
    <2>3. order[j] = specs[j].id
      BY DEF ReadOK, ReadAt
    <2>4. specs[j].id = specs[at].id
      BY <1>1, <1>4, <2>1, <2>2, <2>3, SpecTyped DEF KeysDiffer
    <2>5. ~Valid(specs)
      BY <1>4, <2>2, <2>4 DEF Valid
    <2>. QED
      BY <1>3, <2>5 DEF CauseOK
  <1>. QED
    BY <1>2, <1>3, <1>5, <1>6, SomethingFails DEF CauseOK

\* A dependency that is not found is in no spec.
LEMMA NodeHasCause ==
  ASSUME IndInv, ReadOK, KeysDiffer, RejectNode
  PROVE  CauseOK'
  <1>1. PICK m \in MissingDeps(order[at]) : TRUE
    BY DEF RejectNode
  <1>2. at \in DOMAIN specs /\ pc = "edges" /\ UNCHANGED specs
    BY DEF RejectNode, Reject, ReadOK, IndInv, TypeOK
  <1>3. order[at] = specs[at].id /\ DepsOf(order[at]) = specs[at].deps
    BY <1>2, DepsAsRead
  <1>4. PICK d : d = specs[at].deps[m]
    OBVIOUS
  <1>5. d \in ToSet(specs[at].deps) /\ String(d) \notin DOMAIN nodes
    BY <1>1, <1>3, <1>4 DEF MissingDeps, ToSet
  <1>6. d \in IDs
    BY <1>2, <1>5, SpecTyped
  <1>7. ~IsSpecID(specs, d)
    BY <1>2, <1>5, <1>6, NodeIsSpec
  <1>8. ~Valid(specs)
    BY <1>2, <1>5, <1>7 DEF Valid
  <1>. QED
    BY <1>2, <1>8 DEF CauseOK

\* Every call on the stack depends on a node that is on the stack, once the
\* innermost one has met a node that is being visited.
LEMMA StackHasCycle ==
  ASSUME IndInv, KeysDiffer, InLoop, mark[String(TopDep)] = "visiting",
         NEW m \in 1 .. Len(stack)
  PROVE  \E q \in 1 .. Len(stack) : stack[q].id \in ToSet(DepsOf(stack[m].id))
  <1>1. stack # <<>> /\ stack \in Seq(CallType)
    BY DEF InLoop, IndInv, TypeOK
  <1>2. PICK n \in Nat \ {0} : n = Len(stack) /\ Top = stack[n]
    BY <1>1, TopCall DEF IndInv
  <1>3. CASE m < n
    <2>1. m \in 1 .. n - 1 /\ m + 1 \in 1 .. n
      BY <1>2, <1>3
    <2>2. /\ stack[m].next \in DOMAIN DepsOf(stack[m].id)
          /\ stack[m + 1].id = DepsOf(stack[m].id)[stack[m].next]
      BY <1>2, <2>1 DEF IndInv, SearchOK, StackOK
    <2>. QED
      BY <1>2, <2>1, <2>2 DEF ToSet
  <1>4. CASE m = n
    <2>1. /\ Top.next \in DOMAIN DepsOf(Top.id) /\ TopDep \in IDs /\ String(TopDep) \in Keys
      BY NextDep DEF IndInv
    <2>2. PICK q \in 1 .. n : StackKey(q) = String(TopDep)
      BY <1>2, <2>1 DEF IndInv, SearchOK, MarksOK
    <2>3. stack[q].id \in IDs
      <3>1. stack[q] \in CallType
        BY <1>1, <1>2
      <3>. QED
        BY <3>1 DEF CallType
    <2>4. stack[q].id = TopDep
      BY <2>1, <2>2, <2>3 DEF KeysDiffer, StackKey
    <2>5. TopDep \in ToSet(DepsOf(Top.id))
      BY <2>1 DEF ToSet, TopDep
    <2>. QED
      BY <1>2, <1>4, <2>4, <2>5
  <1>. QED
    BY <1>2, <1>3, <1>4

\* The nodes on the stack of a cycle each depend on another of them.
LEMMA CycleHasCause ==
  ASSUME IndInv, ReadOK, KeysDiffer, FoundCycle
  PROVE  CauseOK'
  <1>1. /\ InLoop /\ mark[String(TopDep)] = "visiting" /\ pc = "sort" /\ stack # <<>>
        /\ UNCHANGED specs
    BY DEF FoundCycle, Reject, InLoop
  <1>2. Len(stack) \in Nat \ {0} /\ stack \in Seq(CallType)
    BY <1>1, TopCall DEF IndInv, TypeOK
  <1>3. ASSUME NEW m \in 1 .. Len(stack)
        PROVE  \E i \in DOMAIN specs : specs[i].id = stack[m].id
    <2>1. m \in DOMAIN stack /\ stack[m] \in CallType
      BY <1>2
    <2>2. stack[m].id \in IDs /\ String(stack[m].id) \in DOMAIN nodes
      BY <2>1 DEF CallType, IndInv, TypeOK
    <2>. QED
      BY <1>1, <2>2, NodeIsSpec DEF IsSpecID
  <1>. DEFINE S == {i \in DOMAIN specs : \E m \in 1 .. Len(stack) : stack[m].id = specs[i].id}
  <1>4. S # {}
    <2>1. 1 \in 1 .. Len(stack)
      BY <1>2
    <2>. QED
      BY <1>3, <2>1
  <1>5. ASSUME NEW i \in S PROVE \E j \in S : specs[j].id \in ToSet(specs[i].deps)
    <2>1. PICK m \in 1 .. Len(stack) : stack[m].id = specs[i].id
      OBVIOUS
    <2>2. PICK q \in 1 .. Len(stack) : stack[q].id \in ToSet(DepsOf(stack[m].id))
      BY <1>1, StackHasCycle
    <2>3. PICK j \in DOMAIN specs : specs[j].id = stack[q].id
      BY <1>3
    <2>4. DepsOf(specs[i].id) = specs[i].deps
      BY <1>1, DepsAsRead
    <2>. QED
      BY <2>1, <2>2, <2>3, <2>4
  <1>6. ~Acyclic(specs)
    BY <1>4, <1>5 DEF Acyclic
  <1>. QED
    BY <1>1, <1>6 DEF CauseOK, Valid

LEMMA CauseStep ==
  ASSUME IndInv, ReadOK, CauseOK, KeysDiffer, [Next]_vars
  PROVE  CauseOK'
  <1>1. CASE RejectSpec
    BY <1>1, SpecHasCause
  <1>2. CASE RejectNode
    BY <1>2, NodeHasCause
  <1>3. CASE FoundCycle
    BY <1>3, CycleHasCause
  <1>4. CASE UNCHANGED <<specs, pc, err>>
    BY <1>4 DEF CauseOK
  <1>5. CASE pc' # "error"
    BY <1>5 DEF CauseOK
  <1>6. \/ RejectSpec \/ RejectNode \/ FoundCycle
        \/ UNCHANGED <<specs, pc, err>> \/ pc' # "error"
    BY DEF Next, CompileStep, Returned, vars, Register, AcceptSpec, EndScan, AcceptNode,
           EndEdges, SkipRoot, VisitRoot, SkipDone, VisitDep, Visit, LeaveNode, EndSort, InLoop
  <1>. QED
    BY <1>1, <1>2, <1>3, <1>4, <1>5, <1>6

\* NewContainer accepts exactly the lists that are valid and whose definitions
\* were registered in time (README.md:41), for every list, registry and
\* registration, when no two IDs are written the same (types.go:16-18).  When
\* two are, a list of both is valid and rejected as a duplicate.
THEOREM AcceptsExactlyTheValid ==
  ASSUME KeysDiffer
  PROVE  Spec => []AcceptsTheValid
  <1>1. Init => ReadOK /\ CauseOK
    <2>1. SUFFICES ASSUME Init PROVE ReadOK /\ CauseOK
      OBVIOUS
    <2>2. Len(order) = 0 /\ pc = "scan" /\ at = 1 /\ Len(specs) \in Nat
      BY <2>1, InitIndInv DEF Init, IndInv, TypeOK
    <2>. QED
      BY <2>2 DEF ReadOK, CauseOK
  <1>2. IndInv /\ ReadOK /\ CauseOK /\ [Next]_vars => ReadOK' /\ CauseOK'
    BY ReadStep, CauseStep
  <1>3. IndInv /\ ReadOK /\ CauseOK => AcceptsTheValid
    BY ValidDone DEF CauseOK, AcceptsTheValid
  <1>. QED
    BY <1>1, <1>2, <1>3, Invariance, PTL DEF Spec

=============================================================================
