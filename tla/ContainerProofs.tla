-------------------------- MODULE ContainerProofs --------------------------
(***************************************************************************)
(* Proofs about Container, for every set of nodes and threads, every graph *)
(* and every bound: its types, singleflight, and closing.                  *)
(***************************************************************************)
EXTENDS Container, TLAPS, SequenceTheorems, FiniteSetTheorems

Positions(s) == 1 .. Len(s)

LEMMA InitTypeOK == Init => TypeOK
  <1> SUFFICES ASSUME Init PROVE TypeOK
    OBVIOUS
  <1>1. g \in GraphType
    BY GraphsAssumption DEF Init
  <1>2. built \in Seq(InstanceType) /\ Instances = {}
    BY DEF Init, Instances
  <1>3. NoFrame \in FrameType
    BY <1>2 DEF NoFrame, FrameType, FramePCs, Results, NoInst
  <1>4. NoClose \in ClosingType
    BY <1>2 DEF NoClose, ClosingType, NoInst
  <1> QED
    BY <1>1, <1>2, <1>3, <1>4 DEF Init, TypeOK, Results, NoInst

-----------------------------------------------------------------------------
\* A leader that is about to store has an instance of its own node in hand.
HandOK ==
  \A t \in Threads, n \in Nodes :
    frame[t][n].pc = "store" => /\ frame[t][n].out \in Instances
                                /\ built[frame[t][n].out].node = n

\* The frames of a thread are the nodes of its resolve stack, each once, and
\* all but the innermost are in the middle of their work.
PathOK ==
  \A t \in Threads :
    /\ path[t] # <<>> => batch[t] # <<>>
    /\ \A n \in Nodes : n \in ToSet(path[t]) <=> frame[t][n].pc # "none"
    /\ \A i, j \in Positions(path[t]) : path[t][i] = path[t][j] => i = j
    /\ \A i \in Positions(path[t]) :
         i < Len(path[t]) => frame[t][path[t][i]].pc = "work"

\* Steps that leave the instances alone keep TypeOK if what they change keeps
\* its type.
LEMMA SameInstances ==
  ASSUME TypeOK, UNCHANGED <<g, built>>,
         cache' \in [Nodes -> Instances \union {NoInst}],
         flight' \in [Nodes -> Threads \union {None}],
         path' \in [Threads -> Seq(Nodes)],
         frame' \in [Threads -> [Nodes -> FrameType]],
         batch' \in [Threads -> Seq(Nodes)],
         ret' \in [Threads -> Results],
         calls' \in [Threads -> Nat],
         closing' \in [Threads -> ClosingType]
  PROVE  TypeOK'
  BY DEF TypeOK, InstanceType, FrameType, ClosingType, Results, Instances

\* The thread and node of a step inside a Resolve call.
LEMMA TopOfPath ==
  ASSUME TypeOK, NEW t \in Threads, NEW n \in Nodes, NEW p, At(t, n, p)
  PROVE  /\ Len(path[t]) \in Nat \ {0}
         /\ n = path[t][Len(path[t])]
         /\ frame[t][n] \in FrameType
         /\ frame[t][n].pc = p
         /\ Front(path[t]) \in Seq(Nodes)
  <1>1. path[t] \in Seq(Nodes) /\ path[t] # <<>>
    BY DEF TypeOK, At
  <1>2. Len(path[t]) \in Nat \ {0}
    BY <1>1
  <1>3. Front(path[t]) \in Seq(Nodes)
    BY <1>1, <1>2 DEF Front
  <1> QED
    BY <1>1, <1>2, <1>3 DEF TypeOK, At, Last

LEMMA TypeLookup ==
  ASSUME TypeOK, NEW t \in Threads, NEW n \in Nodes, Lookup(t, n)
  PROVE  TypeOK'
  <1>1. frame[t][n] \in FrameType /\ cache[n] \in Results
    BY DEF TypeOK, Results
  <1>2. frame' \in [Threads -> [Nodes -> FrameType]]
    BY <1>1 DEF Lookup, TypeOK, FrameType, FramePCs
  <1> QED
    BY <1>2, SameInstances DEF Lookup, TypeOK

LEMMA TypeCallResolve ==
  ASSUME TypeOK, NEW t \in Threads, NEW ids \in Batches, CallResolve(t, ids)
  PROVE  TypeOK'
  BY InputsAssumption, SameInstances DEF CallResolve, TypeOK

LEMMA TypeBegin ==
  ASSUME TypeOK, NEW t \in Threads, Begin(t)
  PROVE  TypeOK'
  <1> DEFINE n == Head(batch[t])
  <1>1. n \in Nodes
    BY DEF TypeOK, Begin
  <1>2. Entered \in FrameType
    BY DEF Entered, NoFrame, FrameType, FramePCs, Results
  <1>3. frame' \in [Threads -> [Nodes -> FrameType]]
    BY <1>1, <1>2 DEF Begin, TypeOK
  <1>4. path' \in [Threads -> Seq(Nodes)]
    BY <1>1 DEF Begin, TypeOK
  <1> QED
    BY <1>3, <1>4, SameInstances DEF Begin, TypeOK

LEMMA TypeLead ==
  ASSUME TypeOK, NEW t \in Threads, NEW n \in Nodes, Lead(t, n)
  PROVE  TypeOK'
  <1>1. frame[t][n] \in FrameType
    BY DEF TypeOK
  <1>2. frame' \in [Threads -> [Nodes -> FrameType]]
    BY <1>1 DEF Lead, TypeOK, FrameType, LeaderPCs, FramePCs
  <1> QED
    BY <1>2, SameInstances DEF Lead, TypeOK

LEMMA TypeFollow ==
  ASSUME TypeOK, NEW t \in Threads, NEW n \in Nodes, Follow(t, n)
  PROVE  TypeOK'
  <1>1. frame[t][n] \in FrameType
    BY DEF TypeOK
  <1>2. frame' \in [Threads -> [Nodes -> FrameType]]
    BY <1>1 DEF Follow, TypeOK, FrameType, LeaderPCs, FramePCs
  <1> QED
    BY <1>2, SameInstances DEF Follow, TypeOK

LEMMA TypeFail ==
  ASSUME TypeOK, NEW t \in Threads, NEW n \in Nodes, Fail(t, n)
  PROVE  TypeOK'
  <1>1. frame[t][n] \in FrameType
    BY DEF TypeOK
  <1>2. frame' \in [Threads -> [Nodes -> FrameType]]
    BY <1>1 DEF Fail, TypeOK, FrameType, LeaderPCs, FramePCs, Results
  <1> QED
    BY <1>2, SameInstances DEF Fail, TypeOK

LEMMA TypeRecheck ==
  ASSUME TypeOK, NEW t \in Threads, NEW n \in Nodes, Recheck(t, n)
  PROVE  TypeOK'
  <1>1. frame[t][n] \in FrameType /\ cache[n] \in Results
    BY DEF TypeOK, Results
  <1>2. frame' \in [Threads -> [Nodes -> FrameType]]
    BY <1>1 DEF Recheck, TypeOK, FrameType, LeaderPCs, FramePCs, Results
  <1> QED
    BY <1>2, SameInstances DEF Recheck, TypeOK

LEMMA WorkType ==
  ASSUME TypeOK, NEW n \in Nodes
  PROVE  Work(n) \in Seq(Nodes)
  BY DEF TypeOK, GraphType, Work

LEMMA TypeDescend ==
  ASSUME TypeOK, NEW t \in Threads, NEW n \in Nodes, Descend(t, n)
  PROVE  TypeOK'
  <1> DEFINE child == Work(n)[frame[t][n].i]
  <1>1. frame[t][n] \in FrameType
    BY DEF TypeOK
  <1>2. child \in Nodes
    BY <1>1, WorkType DEF Descend, FrameType
  <1>3. Entered \in FrameType
    BY DEF Entered, NoFrame, FrameType, FramePCs, Results
  <1>4. CASE child \in ToSet(path[t])
    <2>1. /\ path' = path
          /\ frame' = [frame EXCEPT ![t][n].pc = "leave", ![t][n].out = ErrResult]
      BY <1>4 DEF Descend
    <2>2. frame' \in [Threads -> [Nodes -> FrameType]]
      BY <1>1, <2>1 DEF TypeOK, FrameType, LeaderPCs, FramePCs, Results
    <2> QED
      BY <2>1, <2>2, SameInstances DEF Descend, TypeOK
  <1>5. CASE child \notin ToSet(path[t])
    <2>1. /\ path' = [path EXCEPT ![t] = Append(@, child)]
          /\ frame' = [frame EXCEPT ![t][child] = Entered]
      BY <1>5 DEF Descend
    <2> HIDE DEF child
    <2>2. frame' \in [Threads -> [Nodes -> FrameType]]
      BY <1>2, <1>3, <2>1 DEF TypeOK
    <2>3. path' \in [Threads -> Seq(Nodes)]
      BY <1>2, <2>1 DEF TypeOK
    <2> QED
      BY <2>2, <2>3, SameInstances DEF Descend, TypeOK
  <1> QED
    BY <1>4, <1>5

\* A new instance only adds to what the rest of the state may refer to.
LEMMA NewInstance ==
  ASSUME TypeOK, NEW e \in InstanceType, built' = Append(built, e)
  PROVE  /\ built' \in Seq(InstanceType')
         /\ Instances \subseteq Instances'
         /\ Len(built) + 1 \in Instances'
         /\ Instances' = Instances \union {Len(built) + 1}
  <1>1. built \in Seq(InstanceType) /\ Len(built) \in Nat
    BY DEF TypeOK
  <1>2. Len(built') = Len(built) + 1
    BY <1>1
  <1>3. Instances' = Instances \union {Len(built) + 1} /\ Len(built) + 1 \in Instances'
    BY <1>1, <1>2 DEF Instances
  <1>4. InstanceType \subseteq InstanceType'
    BY <1>3 DEF InstanceType
  <1>5. built' \in Seq(InstanceType')
    BY <1>1, <1>4, AppendProperties
  <1> QED
    BY <1>3, <1>5

LEMMA TypeConstruct ==
  ASSUME TypeOK, NEW t \in Threads, NEW n \in Nodes, Construct(t, n)
  PROVE  TypeOK'
  <1> DEFINE e == [node |-> n, uses |-> frame[t][n].got, given |-> FALSE, closed |-> 0]
  <1>1. frame[t][n] \in FrameType
    BY DEF TypeOK
  <1>2. e \in InstanceType /\ built' = Append(built, e)
    BY <1>1 DEF Construct, InstanceType, FrameType
  <1>3. /\ built' \in Seq(InstanceType')
        /\ Instances \subseteq Instances'
        /\ Len(built) + 1 \in Instances'
    BY <1>2, NewInstance
  <1>4. FrameType \subseteq FrameType' /\ ClosingType \subseteq ClosingType'
        /\ Results \subseteq Results'
    BY <1>3 DEF FrameType, ClosingType, Results
  <1>5. frame' \in [Threads -> [Nodes -> FrameType']]
    <2>1. frame \in [Threads -> [Nodes -> FrameType']]
      BY <1>4 DEF TypeOK
    <2>2. [[frame[t][n] EXCEPT !.pc = "store"] EXCEPT !.out = Len(built) + 1] \in FrameType'
      BY <1>1, <1>3 DEF FrameType, LeaderPCs, FramePCs, Results
    <2> QED
      BY <2>1, <2>2 DEF Construct
  <1> QED
    BY <1>3, <1>4, <1>5 DEF Construct, TypeOK, GraphType

LEMMA TypeInject ==
  ASSUME TypeOK, NEW t \in Threads, NEW n \in Nodes, Inject(t, n)
  PROVE  TypeOK'
  <1>1. calls' \in [Threads -> Nat] /\ NoInst \in Results /\ ErrResult \in Results
    BY DEF Inject, TypeOK, Results
  <1>2. CASE n \notin Declared
    BY <1>1, <1>2, SameInstances DEF Inject, TypeOK
  <1>3. CASE n \in Declared
    <2> DEFINE e == [node |-> n, uses |-> {}, given |-> TRUE, closed |-> 0]
    <2>1. e \in InstanceType /\ built' = Append(built, e)
      BY <1>3 DEF Inject, InstanceType
    <2>2. /\ built' \in Seq(InstanceType')
          /\ Instances \subseteq Instances'
          /\ Len(built) + 1 \in Instances'
      BY <2>1, NewInstance
    <2>3. FrameType \subseteq FrameType' /\ ClosingType \subseteq ClosingType'
          /\ Results \subseteq Results'
      BY <2>2 DEF FrameType, ClosingType, Results
    <2>4. cache' \in [Nodes -> Instances' \union {NoInst}]
      BY <1>3, <2>2 DEF Inject, TypeOK
    <2>5. /\ frame' \in [Threads -> [Nodes -> FrameType']]
          /\ closing' \in [Threads -> ClosingType']
      BY <2>3 DEF Inject, TypeOK
    <2>6. ret' \in [Threads -> Results']
      BY <1>1, <1>3, <2>3 DEF Inject, TypeOK
    <2>7. g' = g /\ UNCHANGED <<flight, path, batch>>
      BY DEF Inject
    <2> QED
      BY <1>1, <2>2, <2>4, <2>5, <2>6, <2>7 DEF TypeOK
  <1> QED
    BY <1>2, <1>3

LEMMA TypeStore ==
  ASSUME TypeOK, HandOK, NEW t \in Threads, NEW n \in Nodes, Store(t, n)
  PROVE  TypeOK'
  <1>1. frame[t][n] \in FrameType
    BY DEF TypeOK
  <1>2. frame' \in [Threads -> [Nodes -> FrameType]]
    BY <1>1 DEF Store, TypeOK, FrameType, LeaderPCs, FramePCs
  <1>3. cache' \in [Nodes -> Instances \union {NoInst}]
    BY DEF Store, At, HandOK, TypeOK
  <1> QED
    BY <1>2, <1>3, SameInstances DEF Store, TypeOK

LEMMA TypeLeave ==
  ASSUME TypeOK, NEW t \in Threads, NEW n \in Nodes, Leave(t, n)
  PROVE  TypeOK'
  <1>1. frame[t][n].out \in Results
    BY DEF TypeOK, FrameType
  <1>2. ASSUME NEW u \in Threads PROVE frame'[u] \in [Nodes -> FrameType]
    <2>1. frame[u] \in [Nodes -> FrameType] /\ frame[u][n] \in FrameType
      BY DEF TypeOK
    <2> DEFINE f == [frame[u][n] EXCEPT !.pc = "return", !.out = frame[t][n].out]
    <2>2. f \in FrameType
      BY <1>1, <2>1 DEF FrameType, FramePCs
    <2>3. frame'[u] = [frame[u] EXCEPT ![n] = f] \/ frame'[u] = frame[u]
      BY <2>1 DEF Leave
    <2> HIDE DEF f
    <2> QED
      BY <2>1, <2>2, <2>3
  <1>3. frame' \in [Threads -> [Nodes -> FrameType]]
    BY <1>2 DEF Leave
  <1> QED
    BY <1>3, SameInstances DEF Leave, TypeOK

LEMMA TypeReturnToParent ==
  ASSUME TypeOK, NEW t \in Threads, NEW n \in Nodes, ReturnToParent(t, n)
  PROVE  TypeOK'
  <1> DEFINE p == path[t][Len(path[t]) - 1]
             r == frame[t][n].out
  <1>1. p \in Nodes /\ Front(path[t]) \in Seq(Nodes)
    BY TopOfPath DEF ReturnToParent, TypeOK
  <1>2. frame[t][p] \in FrameType /\ r \in Results
    BY <1>1 DEF TypeOK, FrameType
  <1>3. IsInst(r) => r \in Instances
    BY <1>2 DEF IsInst, Results, ErrResult, NoInst
  <1>4. NoFrame \in FrameType
    BY DEF NoFrame, FrameType, FramePCs, Results
  <1>5. frame' \in [Threads -> [Nodes -> FrameType]]
    <2>1. CASE IsInst(r)
      <3> DEFINE got == IF frame[t][p].i > Len(g.deps[p])
                          THEN frame[t][p].got \union {r} ELSE frame[t][p].got
                 f == [frame[t][p] EXCEPT !.i = @ + 1, !.got = got]
      <3>0. got \in SUBSET Instances
        BY <1>2, <1>3, <2>1 DEF FrameType
      <3>1. f \in FrameType
        <4> HIDE DEF got, p
        <4>1. frame[t][p].i + 1 \in Nat \ {0}
          BY <1>2 DEF FrameType
        <4> QED
          BY <1>2, <3>0, <4>1 DEF FrameType
      <3>2. frame' = [frame EXCEPT ![t][n] = NoFrame, ![t][p] = f]
        BY <2>1 DEF ReturnToParent
      <3> HIDE DEF f
      <3> QED
        BY <1>4, <3>1, <3>2 DEF TypeOK
    <2>2. CASE ~IsInst(r)
      <3> DEFINE f == [frame[t][p] EXCEPT !.pc = "leave", !.out = ErrResult]
      <3>1. f \in FrameType
        BY <1>2 DEF FrameType, LeaderPCs, FramePCs, Results
      <3>2. frame' = [frame EXCEPT ![t][n] = NoFrame, ![t][p] = f]
        BY <2>2 DEF ReturnToParent
      <3> HIDE DEF f
      <3> QED
        BY <1>4, <3>1, <3>2 DEF TypeOK
    <2> QED
      BY <2>1, <2>2
  <1>6. path' \in [Threads -> Seq(Nodes)]
    BY <1>1 DEF ReturnToParent, TypeOK
  <1> QED
    BY <1>5, <1>6, SameInstances DEF ReturnToParent, TypeOK

LEMMA TypeReturnToCaller ==
  ASSUME TypeOK, PathOK, NEW t \in Threads, NEW n \in Nodes, ReturnToCaller(t, n)
  PROVE  TypeOK'
  <1>1. frame[t][n].out \in Results
    BY DEF TypeOK, FrameType
  <1>2. NoFrame \in FrameType
    BY DEF NoFrame, FrameType, FramePCs, Results
  <1>3. Tail(batch[t]) \in Seq(Nodes)
    BY DEF ReturnToCaller, At, PathOK, TypeOK
  <1>4. path' \in [Threads -> Seq(Nodes)]
    BY DEF ReturnToCaller, TypeOK
  <1>5. frame' \in [Threads -> [Nodes -> FrameType]]
    BY <1>2 DEF ReturnToCaller, TypeOK
  <1>6. batch' \in [Threads -> Seq(Nodes)]
    BY <1>3 DEF ReturnToCaller, TypeOK
  <1>7. ret' \in [Threads -> Results]
    BY <1>1 DEF ReturnToCaller, TypeOK
  <1>8. UNCHANGED <<g, cache, flight, built, calls, closing>>
    BY DEF ReturnToCaller
  <1> QED
    BY <1>4, <1>5, <1>6, <1>7, <1>8, SameInstances DEF TypeOK

LEMMA TypeCloseWithKeys ==
  ASSUME TypeOK, NEW t \in Threads, NEW keys \in SUBSET Nodes,
         CloseWithKeys(t, Nodes, keys)
  PROVE  closing' \in [Threads -> ClosingType]
  BY DEF CloseWithKeys, ClosingType, TypeOK

LEMMA TypeClose ==
  ASSUME TypeOK, NEW t \in Threads, Close(t)
  PROVE  TypeOK'
  BY TypeCloseWithKeys, SameInstances DEF Close, TypeOK

LEMMA TypeCloseIDs ==
  ASSUME TypeOK, NEW t \in Threads, NEW ids \in CloseSets, CloseIDs(t, ids)
  PROVE  TypeOK'
  <1>1. ids \in SUBSET Nodes
    BY InputsAssumption
  <1>2. closing' \in [Threads -> ClosingType]
    BY <1>1, TypeCloseWithKeys DEF CloseIDs, TypeOK
  <1>3. ret' \in [Threads -> Results]
    BY DEF CloseIDs, TypeOK, Results
  <1>4. calls' \in [Threads -> Nat]
    BY DEF CloseIDs, TypeOK
  <1>5. UNCHANGED <<g, cache, flight, path, frame, built, batch>>
    BY DEF CloseIDs
  <1> QED
    BY <1>2, <1>3, <1>4, <1>5, SameInstances DEF TypeOK

LEMMA TypeCloseOne ==
  ASSUME TypeOK, NEW t \in Threads, NEW n \in Nodes, CloseOne(t, n)
  PROVE  TypeOK'
  <1> DEFINE i == closing[t].todo[n]
             e == [built[i] EXCEPT !.closed = @ + 1]
  <1>1. i \in Instances
    BY DEF CloseOne, Pending, TypeOK, ClosingType
  <1>2. built[i] \in InstanceType /\ e \in InstanceType
    <2>1. built[i] \in InstanceType
      BY <1>1 DEF TypeOK, Instances
    <2> HIDE DEF i
    <2> QED
      BY <2>1 DEF InstanceType
  <1>3. built' = [built EXCEPT ![i] = e]
    BY DEF CloseOne
  <1>4. built' \in Seq(InstanceType) /\ Len(built') = Len(built)
    <2> HIDE DEF i, e
    <2> QED
      BY <1>1, <1>2, <1>3, ExceptSeq DEF TypeOK, Instances
  <1>5. Instances' = Instances
    BY <1>4 DEF Instances
  <1>6. closing' \in [Threads -> ClosingType]
    <2>1. PICK failed \in SUBSET {n} :
            closing' = [closing EXCEPT ![t].done = @ \union {n},
                                       ![t].errs = @ \union failed]
      BY DEF CloseOne
    <2> DEFINE c == [closing[t] EXCEPT !.done = @ \union {n}, !.errs = @ \union failed]
    <2>2. closing[t] \in ClosingType
      BY DEF TypeOK
    <2>3. c \in ClosingType
      BY <2>2 DEF ClosingType
    <2>4. closing' = [closing EXCEPT ![t] = c]
      BY <2>1
    <2> HIDE DEF c
    <2> QED
      BY <2>3, <2>4 DEF TypeOK
  <1> QED
    BY <1>4, <1>5, <1>6 DEF CloseOne, TypeOK, InstanceType, FrameType, ClosingType, Results

LEMMA TypeCloseFinish ==
  ASSUME TypeOK, NEW t \in Threads, CloseFinish(t)
  PROVE  TypeOK'
  <1>1. NoClose \in ClosingType
    BY DEF NoClose, ClosingType
  <1>2. cache' \in [Nodes -> Instances \union {NoInst}]
    BY DEF CloseFinish, TypeOK
  <1>3. ret' \in [Threads -> Results]
    BY DEF CloseFinish, TypeOK, Results
  <1> QED
    BY <1>1, <1>2, <1>3, SameInstances DEF CloseFinish, TypeOK

-----------------------------------------------------------------------------
(***************************************************************************)
(* singleflight: the inductive invariant.                                  *)
(***************************************************************************)

\* A goroutine waits only while the group knows a leader.
FollowersLed == \A t \in Threads, n \in Nodes : Waits(t, n) => flight[n] # None

IndInv == TypeOK /\ PathOK /\ HandOK /\ FlightOwner /\ FollowersLed

\* What IndInv says of the frames.
FramesOK == PathOK /\ HandOK /\ FlightOwner /\ FollowersLed

\* Resolve stacks, as sequences without repetition.
LEMMA PushPath ==
  ASSUME NEW s \in Seq(Nodes), NEW n \in Nodes, n \notin ToSet(s),
         \A i, j \in Positions(s) : s[i] = s[j] => i = j
  PROVE  LET r == Append(s, n)
         IN /\ r # <<>> /\ Len(r) = Len(s) + 1
            /\ \A i \in Positions(s) : r[i] = s[i]
            /\ r[Len(s) + 1] = n
            /\ ToSet(r) = ToSet(s) \union {n}
            /\ \A i, j \in Positions(r) : r[i] = r[j] => i = j
  <1> DEFINE r == Append(s, n)
  <1>1. /\ Len(s) \in Nat /\ Len(r) = Len(s) + 1 /\ DOMAIN s = Positions(s)
        /\ r \in Seq(Nodes) /\ DOMAIN r = Positions(r)
        /\ \A i \in Positions(s) : r[i] = s[i]
        /\ r[Len(s) + 1] = n
    BY DEF Positions
  <1> HIDE DEF r
  <1>2. Positions(r) = Positions(s) \union {Len(s) + 1}
    BY <1>1 DEF Positions
  <1>3. ToSet(r) = ToSet(s) \union {n}
    BY <1>1, <1>2 DEF ToSet
  <1>4. \A i, j \in Positions(r) : r[i] = r[j] => i = j
    BY <1>1, <1>2 DEF ToSet
  <1> QED
    BY <1>1, <1>3, <1>4 DEF r

LEMMA PopPath ==
  ASSUME NEW s \in Seq(Nodes), s # <<>>,
         \A i, j \in Positions(s) : s[i] = s[j] => i = j
  PROVE  LET r == Front(s)
         IN /\ Len(s) \in Nat \ {0} /\ Len(r) = Len(s) - 1
            /\ \A i \in Positions(r) : r[i] = s[i]
            /\ ToSet(r) = ToSet(s) \ {Last(s)}
            /\ \A i, j \in Positions(r) : r[i] = r[j] => i = j
  <1> DEFINE r == Front(s)
  <1>1. /\ Len(s) \in Nat \ {0} /\ DOMAIN s = Positions(s)
        /\ r \in Seq(Nodes) /\ DOMAIN r = Positions(r) /\ Len(r) = Len(s) - 1
        /\ \A i \in Positions(r) : r[i] = s[i]
    <2>1. Len(s) \in Nat \ {0} /\ DOMAIN s = Positions(s)
      BY DEF Positions
    <2>2. r = SubSeq(s, 1, Len(s) - 1)
      BY DEF Front
    <2>3. r \in Seq(Nodes) /\ Len(r) = Len(s) - 1
      BY <2>1, <2>2, SubSeqProperties
    <2>4. \A i \in 1 .. Len(s) - 1 : r[i] = s[i]
      BY <2>1, <2>2, SubSeqProperties
    <2> HIDE DEF r
    <2> QED
      BY <2>1, <2>3, <2>4 DEF Positions
  <1> HIDE DEF r
  <1>2. Positions(s) = Positions(r) \union {Len(s)} /\ Len(s) \notin Positions(r)
    BY <1>1 DEF Positions
  <1>3. ToSet(r) = ToSet(s) \ {Last(s)}
    <2>1. ToSet(r) = {s[i] : i \in Positions(r)}
      BY <1>1 DEF ToSet
    <2>2. \A i \in Positions(r) : s[i] # s[Len(s)]
      BY <1>1, <1>2
    <2>3. ToSet(s) = {s[i] : i \in Positions(s)}
      BY <1>1 DEF ToSet
    <2>4. ToSet(s) = {s[i] : i \in Positions(r)} \union {s[Len(s)]}
      BY <1>2, <2>3
    <2> QED
      BY <2>1, <2>2, <2>4 DEF Last
  <1>4. \A i, j \in Positions(r) : r[i] = r[j] => i = j
    BY <1>1, <1>2
  <1> QED
    BY <1>1, <1>3, <1>4 DEF r

\* A step that changes only the innermost frame of one thread.
LEMMA TopStep ==
  ASSUME IndInv, NEW t \in Threads, NEW n \in Nodes, NEW p, p # "none", At(t, n, p),
         UNCHANGED <<path, batch, flight>>,
         NEW f, frame' = [frame EXCEPT ![t][n] = f], f.pc # "none",
         f.pc \in LeaderPCs <=> p \in LeaderPCs,
         f.pc = "wait" => flight[n] # None,
         f.pc = "store" => f.out \in Instances' /\ built'[f.out].node = n,
         \A i \in Instances : i \in Instances' /\ built'[i].node = built[i].node
  PROVE  FramesOK'
  <1>1. /\ frame'[t][n] = f
        /\ \A u \in Threads, m \in Nodes : <<u, m>> # <<t, n>> => frame'[u][m] = frame[u][m]
        /\ frame[t][n].pc = p
    BY DEF IndInv, TypeOK, At
  <1>2. path[t] \in Seq(Nodes) /\ n = path[t][Len(path[t])] /\ Len(path[t]) \in Nat \ {0}
    BY TopOfPath DEF IndInv, TypeOK
  <1>3. PathOK'
    <2>1. ASSUME NEW u \in Threads, NEW m \in Nodes
          PROVE  frame'[u][m].pc # "none" <=> frame[u][m].pc # "none"
      BY <1>1
    <2>2. ASSUME NEW u \in Threads, NEW i \in Positions(path[u]), i < Len(path[u])
          PROVE  frame'[u][path[u][i]].pc = "work"
      <3>1. path[u][i] \in Nodes /\ frame[u][path[u][i]].pc = "work"
        BY <2>2 DEF IndInv, PathOK, TypeOK, Positions
      <3>2. <<u, path[u][i]>> # <<t, n>>
        BY <1>2, <2>2 DEF IndInv, PathOK, Positions
      <3> QED
        BY <1>1, <3>1, <3>2
    <2> QED
      BY <2>1, <2>2 DEF IndInv, PathOK
  <1>4. HandOK'
    BY <1>1 DEF IndInv, HandOK
  <1>5. FlightOwner' /\ FollowersLed'
    BY <1>1 DEF IndInv, FlightOwner, FollowersLed, Leads, Waits
  <1> QED
    BY <1>3, <1>4, <1>5 DEF FramesOK

\* A step that touches no frame.
LEMMA NoFrameStep ==
  ASSUME IndInv, UNCHANGED <<path, frame, flight>>,
         \A t \in Threads : path[t] # <<>> => batch'[t] = batch[t],
         \A i \in Instances : i \in Instances' /\ built'[i].node = built[i].node
  PROVE  FramesOK'
  <1>1. PathOK'
    BY DEF IndInv, PathOK
  <1>2. HandOK'
    BY DEF IndInv, HandOK
  <1>3. FlightOwner' /\ FollowersLed'
    BY DEF IndInv, FlightOwner, FollowersLed, Leads, Waits
  <1> QED
    BY <1>1, <1>2, <1>3 DEF FramesOK

LEMMA FramesLookup ==
  ASSUME IndInv, NEW t \in Threads, NEW n \in Nodes, Lookup(t, n)
  PROVE  FramesOK'
  <1> DEFINE f == IF cache[n] # NoInst
                    THEN [frame[t][n] EXCEPT !.pc = "return", !.out = cache[n]]
                    ELSE [frame[t][n] EXCEPT !.pc = "enter"]
  <1>1. frame[t][n] \in FrameType /\ cache[n] \in Instances \union {NoInst}
    BY DEF IndInv, TypeOK
  <1>2. /\ At(t, n, "lookup") /\ UNCHANGED <<path, batch, flight, built>>
        /\ frame' = [frame EXCEPT ![t][n] = f]
    BY DEF Lookup
  <1>3. f.pc # "none" /\ f.pc # "store" /\ f.pc \in {"return", "enter"}
    BY <1>1 DEF FrameType
  <1>4. Instances' = Instances
    BY <1>2 DEF Instances
  <1>5. (f.pc \in LeaderPCs <=> "lookup" \in LeaderPCs) /\ (f.pc = "wait" => flight[n] # None)
    BY <1>3 DEF LeaderPCs
  <1> HIDE DEF f
  <1> QED
    BY <1>2, <1>3, <1>4, <1>5, TopStep

LEMMA FramesFollow ==
  ASSUME IndInv, NEW t \in Threads, NEW n \in Nodes, Follow(t, n)
  PROVE  FramesOK'
  <1> DEFINE f == [frame[t][n] EXCEPT !.pc = "wait"]
  <1>1. frame[t][n] \in FrameType /\ cache[n] \in Instances \union {NoInst}
    BY DEF IndInv, TypeOK
  <1>2. /\ At(t, n, "enter") /\ UNCHANGED <<path, batch, flight, built>>
        /\ frame' = [frame EXCEPT ![t][n] = f]
    BY DEF Follow
  <1>3. f.pc # "none" /\ f.pc # "store" /\ f.pc \in {"wait"}
    BY <1>1 DEF FrameType
  <1>4. Instances' = Instances
    BY <1>2 DEF Instances
  <1>5. (f.pc \in LeaderPCs <=> "enter" \in LeaderPCs) /\ (f.pc = "wait" => flight[n] # None)
    BY <1>3 DEF LeaderPCs, Follow
  <1> HIDE DEF f
  <1> QED
    BY <1>2, <1>3, <1>4, <1>5, TopStep

LEMMA FramesRecheck ==
  ASSUME IndInv, NEW t \in Threads, NEW n \in Nodes, Recheck(t, n)
  PROVE  FramesOK'
  <1> DEFINE f == IF cache[n] # NoInst
                    THEN [frame[t][n] EXCEPT !.pc = "leave", !.out = cache[n]]
                    ELSE IF n \in Declared
                      THEN [frame[t][n] EXCEPT !.pc = "work"]
                      ELSE [frame[t][n] EXCEPT !.pc = "leave", !.out = ErrResult]
  <1>1. frame[t][n] \in FrameType /\ cache[n] \in Instances \union {NoInst}
    BY DEF IndInv, TypeOK
  <1>2. /\ At(t, n, "recheck") /\ UNCHANGED <<path, batch, flight, built>>
        /\ frame' = [frame EXCEPT ![t][n] = f]
    BY DEF Recheck
  <1>3. f.pc # "none" /\ f.pc # "store" /\ f.pc \in {"leave", "work"}
    BY <1>1 DEF FrameType
  <1>4. Instances' = Instances
    BY <1>2 DEF Instances
  <1>5. (f.pc \in LeaderPCs <=> "recheck" \in LeaderPCs) /\ (f.pc = "wait" => flight[n] # None)
    BY <1>3 DEF LeaderPCs
  <1> HIDE DEF f
  <1> QED
    BY <1>2, <1>3, <1>4, <1>5, TopStep

LEMMA FramesFail ==
  ASSUME IndInv, NEW t \in Threads, NEW n \in Nodes, Fail(t, n)
  PROVE  FramesOK'
  <1> DEFINE f == [frame[t][n] EXCEPT !.pc = "leave", !.out = ErrResult]
  <1>1. frame[t][n] \in FrameType /\ cache[n] \in Instances \union {NoInst}
    BY DEF IndInv, TypeOK
  <1>2. /\ At(t, n, "work") /\ UNCHANGED <<path, batch, flight, built>>
        /\ frame' = [frame EXCEPT ![t][n] = f]
    BY DEF Fail
  <1>3. f.pc # "none" /\ f.pc # "store" /\ f.pc \in {"leave"}
    BY <1>1 DEF FrameType
  <1>4. Instances' = Instances
    BY <1>2 DEF Instances
  <1>5. (f.pc \in LeaderPCs <=> "work" \in LeaderPCs) /\ (f.pc = "wait" => flight[n] # None)
    BY <1>3 DEF LeaderPCs
  <1> HIDE DEF f
  <1> QED
    BY <1>2, <1>3, <1>4, <1>5, TopStep

LEMMA FramesStore ==
  ASSUME IndInv, NEW t \in Threads, NEW n \in Nodes, Store(t, n)
  PROVE  FramesOK'
  <1> DEFINE f == [frame[t][n] EXCEPT !.pc = "leave"]
  <1>1. frame[t][n] \in FrameType /\ cache[n] \in Instances \union {NoInst}
    BY DEF IndInv, TypeOK
  <1>2. /\ At(t, n, "store") /\ UNCHANGED <<path, batch, flight, built>>
        /\ frame' = [frame EXCEPT ![t][n] = f]
    BY DEF Store
  <1>3. f.pc # "none" /\ f.pc # "store" /\ f.pc \in {"leave"}
    BY <1>1 DEF FrameType
  <1>4. Instances' = Instances
    BY <1>2 DEF Instances
  <1>5. (f.pc \in LeaderPCs <=> "store" \in LeaderPCs) /\ (f.pc = "wait" => flight[n] # None)
    BY <1>3 DEF LeaderPCs
  <1> HIDE DEF f
  <1> QED
    BY <1>2, <1>3, <1>4, <1>5, TopStep

LEMMA FramesConstruct ==
  ASSUME IndInv, NEW t \in Threads, NEW n \in Nodes, Construct(t, n)
  PROVE  FramesOK'
  <1> DEFINE e == [node |-> n, uses |-> frame[t][n].got, given |-> FALSE, closed |-> 0]
             f == [frame[t][n] EXCEPT !.pc = "store", !.out = Len(built) + 1]
  <1>1. frame[t][n] \in FrameType /\ built \in Seq(InstanceType)
    BY DEF IndInv, TypeOK
  <1>2. /\ At(t, n, "work") /\ UNCHANGED <<path, batch, flight>>
        /\ frame' = [frame EXCEPT ![t][n] = f] /\ built' = Append(built, e)
    BY DEF Construct
  <1>3. f.pc = "store" /\ f.out = Len(built) + 1
    BY <1>1 DEF FrameType
  <1>4. e \in InstanceType /\ e.node = n
    BY <1>1 DEF InstanceType, FrameType
  <1> HIDE DEF e, f
  <1>5. Instances \subseteq Instances' /\ Len(built) + 1 \in Instances'
    BY <1>2, <1>4, NewInstance DEF IndInv
  <1>6. built'[Len(built) + 1].node = n
    BY <1>1, <1>2, <1>4
  <1>7. \A i \in Instances : built'[i] = built[i]
    BY <1>1, <1>2 DEF Instances
  <1>8. f.pc \in LeaderPCs <=> "work" \in LeaderPCs
    BY <1>3 DEF LeaderPCs
  <1>9. \A i \in Instances : i \in Instances' /\ built'[i].node = built[i].node
    BY <1>5, <1>7
  <1>10. /\ f.pc # "none" /\ f.pc # "wait"
         /\ f.out \in Instances' /\ built'[f.out].node = n
    BY <1>3, <1>5, <1>6
  <1> QED
    BY <1>2, <1>8, <1>9, <1>10, TopStep

LEMMA FramesLead ==
  ASSUME IndInv, NEW t \in Threads, NEW n \in Nodes, Lead(t, n)
  PROVE  FramesOK'
  <1> DEFINE f == [frame[t][n] EXCEPT !.pc = "recheck"]
  <1>1. /\ At(t, n, "enter") /\ UNCHANGED <<path, batch, built>>
        /\ frame' = [frame EXCEPT ![t][n] = f]
        /\ flight[n] = None /\ flight' = [flight EXCEPT ![n] = t]
    BY DEF Lead
  <1>2. f.pc = "recheck" /\ frame[t][n].pc = "enter"
    BY <1>1 DEF IndInv, TypeOK, FrameType, At
  <1> HIDE DEF f
  <1>3. /\ frame'[t][n] = f
        /\ \A u \in Threads, m \in Nodes : <<u, m>> # <<t, n>> => frame'[u][m] = frame[u][m]
        /\ flight'[n] = t
        /\ \A m \in Nodes \ {n} : flight'[m] = flight[m]
    BY <1>1 DEF IndInv, TypeOK
  <1>4. path[t] \in Seq(Nodes) /\ n = path[t][Len(path[t])] /\ Len(path[t]) \in Nat \ {0}
    BY <1>1, TopOfPath DEF IndInv, TypeOK
  <1>5. PathOK'
    <2>1. ASSUME NEW u \in Threads, NEW m \in Nodes
          PROVE  frame'[u][m].pc # "none" <=> frame[u][m].pc # "none"
      BY <1>2, <1>3
    <2>2. ASSUME NEW u \in Threads, NEW i \in Positions(path[u]), i < Len(path[u])
          PROVE  frame'[u][path[u][i]].pc = "work"
      <3>1. path[u][i] \in Nodes /\ frame[u][path[u][i]].pc = "work"
        BY <2>2 DEF IndInv, PathOK, TypeOK, Positions
      <3> QED
        BY <1>2, <1>3, <3>1
    <2> QED
      BY <1>1, <2>1, <2>2 DEF IndInv, PathOK
  <1>6. HandOK'
    BY <1>1, <1>2, <1>3 DEF IndInv, HandOK, Instances
  <1>7. FlightOwner'
    <2>1. \A u \in Threads : ~Leads(u, n)
      BY <1>1, RolesAssumption DEF IndInv, FlightOwner
    <2>2. ASSUME NEW u \in Threads, NEW m \in Nodes
          PROVE  (frame'[u][m].pc \in LeaderPCs) <=> (flight'[m] = u)
      <3>1. CASE m # n
        BY <1>3, <3>1 DEF IndInv, FlightOwner, Leads
      <3>2. CASE m = n /\ u # t
        BY <1>3, <2>1, <3>2 DEF Leads
      <3>3. CASE m = n /\ u = t
        BY <1>2, <1>3, <3>3 DEF LeaderPCs
      <3> QED
        BY <3>1, <3>2, <3>3
    <2> QED
      BY <2>2 DEF FlightOwner, Leads
  <1>8. FollowersLed'
    BY <1>2, <1>3, RolesAssumption DEF IndInv, FollowersLed, Waits
  <1> QED
    BY <1>5, <1>6, <1>7, <1>8 DEF FramesOK

LEMMA FramesBegin ==
  ASSUME IndInv, NEW t \in Threads, Begin(t)
  PROVE  FramesOK'
  <1> DEFINE n == Head(batch[t])
  <1>1. /\ n \in Nodes /\ batch' = batch /\ batch[t] # <<>>
        /\ path[t] = <<>> /\ path' = [path EXCEPT ![t] = <<n>>]
        /\ frame' = [frame EXCEPT ![t][n] = Entered]
        /\ UNCHANGED <<flight, built>>
    BY DEF Begin, IndInv, TypeOK
  <1> HIDE DEF n
  <1>2. /\ frame'[t][n] = Entered /\ Entered.pc = "lookup"
        /\ \A u \in Threads, m \in Nodes : <<u, m>> # <<t, n>> => frame'[u][m] = frame[u][m]
        /\ path'[t] = <<n>>
        /\ \A u \in Threads \ {t} : path'[u] = path[u]
    BY <1>1 DEF IndInv, TypeOK, Entered, NoFrame
  <1>3. ToSet(path[t]) = {} /\ ToSet(<<n>>) = {n}
    BY <1>1 DEF ToSet
  <1>4. frame[t][n].pc = "none" /\ \A m \in Nodes : frame[t][m].pc = "none"
    BY <1>1, <1>3 DEF IndInv, PathOK
  <1>5. PathOK'
    <2>1. ASSUME NEW u \in Threads, NEW m \in Nodes
          PROVE  m \in ToSet(path'[u]) <=> frame'[u][m].pc # "none"
      BY <1>2, <1>3, <1>4 DEF IndInv, PathOK
    <2>2. ASSUME NEW u \in Threads, NEW i \in Positions(path'[u]), i < Len(path'[u])
          PROVE  frame'[u][path'[u][i]].pc = "work"
      <3>1. u # t
        <4>1. Len(path'[t]) = 1
          BY <1>2
        <4>2. u = t => i \in 1 .. 1 /\ i < 1
          BY <2>2, <4>1 DEF Positions
        <4> QED
          BY <4>2
      <3>2. path[u] \in Seq(Nodes) /\ i \in Positions(path[u]) /\ i < Len(path[u])
        BY <1>2, <2>2, <3>1 DEF IndInv, TypeOK
      <3>3. path[u][i] \in Nodes /\ frame[u][path[u][i]].pc = "work"
        BY <3>2 DEF IndInv, PathOK, Positions
      <3> QED
        BY <1>2, <3>1, <3>3
    <2>3. ASSUME NEW u \in Threads, NEW i \in Positions(path'[u]), NEW j \in Positions(path'[u]),
                 path'[u][i] = path'[u][j]
          PROVE  i = j
      BY <1>2, <2>3 DEF Positions, IndInv, PathOK
    <2>4. \A u \in Threads : path'[u] # <<>> => batch'[u] # <<>>
      BY <1>1, <1>2 DEF IndInv, PathOK
    <2> QED
      BY <2>1, <2>2, <2>3, <2>4 DEF PathOK
  <1>6. HandOK'
    BY <1>1, <1>2 DEF IndInv, HandOK, Instances
  <1>7. FlightOwner' /\ FollowersLed'
    BY <1>1, <1>2, <1>4 DEF IndInv, FlightOwner, FollowersLed, Leads, Waits, LeaderPCs
  <1> QED
    BY <1>5, <1>6, <1>7 DEF FramesOK

\* A node that is on the stack is refused.
LEMMA DescendRefuses ==
  ASSUME TypeOK, NEW t \in Threads, NEW n \in Nodes, Descend(t, n),
         Work(n)[frame[t][n].i] \in ToSet(path[t])
  PROVE  /\ path' = path
         /\ frame' = [frame EXCEPT
                        ![t][n] = [frame[t][n] EXCEPT !.pc = "leave", !.out = ErrResult]]
  <1>1. /\ path' = path
        /\ frame' = [frame EXCEPT ![t][n].pc = "leave", ![t][n].out = ErrResult]
    BY DEF Descend
  <1> QED
    BY <1>1 DEF TypeOK

LEMMA FramesDescend ==
  ASSUME IndInv, NEW t \in Threads, NEW n \in Nodes, Descend(t, n)
  PROVE  FramesOK'
  <1> DEFINE child == Work(n)[frame[t][n].i]
  <1>1. /\ At(t, n, "work") /\ child \in Nodes
        /\ UNCHANGED <<batch, flight, built>>
    BY WorkType DEF Descend, IndInv, TypeOK, FrameType
  <1>2. CASE child \in ToSet(path[t])
    <2> DEFINE f == [frame[t][n] EXCEPT !.pc = "leave", !.out = ErrResult]
    <2>1. path' = path /\ frame' = [frame EXCEPT ![t][n] = f]
      BY <1>2, DescendRefuses DEF IndInv
    <2>2. f.pc = "leave"
      BY DEF IndInv, TypeOK, FrameType
    <2>3. (f.pc \in LeaderPCs <=> "work" \in LeaderPCs) /\ Instances' = Instances
      BY <1>1, <2>2 DEF LeaderPCs, Instances
    <2> HIDE DEF f, child
    <2> QED
      BY <1>1, <2>1, <2>2, <2>3, TopStep
  <1>3. CASE child \notin ToSet(path[t])
    <2>1. /\ path' = [path EXCEPT ![t] = Append(path[t], child)]
          /\ frame' = [frame EXCEPT ![t][child] = Entered]
      BY <1>3 DEF Descend
    <2> HIDE DEF child
    <2> DEFINE s == path[t]
               r == Append(path[t], child)
    <2>2. /\ frame'[t][child] = Entered /\ Entered.pc = "lookup"
          /\ \A u \in Threads, m \in Nodes :
               <<u, m>> # <<t, child>> => frame'[u][m] = frame[u][m]
          /\ path'[t] = r
          /\ \A u \in Threads \ {t} : path'[u] = path[u]
      BY <1>1, <2>1 DEF IndInv, TypeOK, Entered, NoFrame
    <2>3. /\ r # <<>> /\ Len(r) = Len(s) + 1
          /\ \A i \in Positions(s) : r[i] = s[i]
          /\ r[Len(s) + 1] = child
          /\ ToSet(r) = ToSet(s) \union {child}
          /\ \A i, j \in Positions(r) : r[i] = r[j] => i = j
      <3>1. s \in Seq(Nodes) /\ \A i, j \in Positions(s) : s[i] = s[j] => i = j
        BY DEF IndInv, TypeOK, PathOK
      <3> QED
        BY <1>1, <1>3, <3>1, PushPath
    <2>4. s \in Seq(Nodes) /\ n = s[Len(s)] /\ Len(s) \in Nat \ {0}
          /\ frame[t][n].pc = "work" /\ s # <<>>
      BY <1>1, TopOfPath DEF IndInv, TypeOK, At
    <2>5. frame[t][child].pc = "none"
      BY <1>1, <1>3 DEF IndInv, PathOK
    <2> HIDE DEF r, s
    <2>6. PathOK'
      <3>1. ASSUME NEW u \in Threads, NEW m \in Nodes
            PROVE  m \in ToSet(path'[u]) <=> frame'[u][m].pc # "none"
        BY <2>2, <2>3 DEF IndInv, PathOK, s
      <3>2. ASSUME NEW u \in Threads, NEW i \in Positions(path'[u]), i < Len(path'[u])
            PROVE  frame'[u][path'[u][i]].pc = "work"
        <4>1. CASE u # t
          <5>1. path[u][i] \in Nodes /\ frame[u][path[u][i]].pc = "work"
            BY <2>2, <3>2, <4>1 DEF IndInv, PathOK, TypeOK, Positions
          <5> QED
            BY <2>2, <4>1, <5>1
        <4>2. CASE u = t
          <5>1. i \in Positions(s) /\ r[i] = s[i]
            BY <2>2, <2>3, <2>4, <3>2, <4>2 DEF Positions
          <5>2. s[i] \in Nodes /\ frame[t][s[i]].pc = "work"
            BY <2>4, <5>1 DEF IndInv, PathOK, Positions, s
          <5> QED
            BY <2>2, <2>5, <4>2, <5>1, <5>2
        <4> QED
          BY <4>1, <4>2
      <3>3. ASSUME NEW u \in Threads,
                   NEW i \in Positions(path'[u]), NEW j \in Positions(path'[u]),
                   path'[u][i] = path'[u][j]
            PROVE  i = j
        BY <2>2, <2>3, <3>3 DEF IndInv, PathOK
      <3>4. \A u \in Threads : path'[u] # <<>> => batch'[u] # <<>>
        BY <1>1, <2>2, <2>4 DEF IndInv, PathOK, s
      <3> QED
        BY <3>1, <3>2, <3>3, <3>4 DEF PathOK
    <2>7. HandOK'
      BY <1>1, <2>2 DEF IndInv, HandOK, Instances
    <2>8. FlightOwner' /\ FollowersLed'
      BY <1>1, <2>2, <2>5 DEF IndInv, FlightOwner, FollowersLed, Leads, Waits, LeaderPCs
    <2> QED
      BY <2>6, <2>7, <2>8 DEF FramesOK
  <1> QED
    BY <1>2, <1>3

LEMMA FramesLeave ==
  ASSUME IndInv, NEW t \in Threads, NEW n \in Nodes, Leave(t, n)
  PROVE  FramesOK'
  <1>1. /\ At(t, n, "leave") /\ UNCHANGED <<path, batch, built>>
        /\ flight' = [flight EXCEPT ![n] = None]
    BY DEF Leave
  <1>2. frame[t][n].pc = "leave" /\ flight[n] = t
    BY <1>1 DEF At, IndInv, FlightOwner, Leads, LeaderPCs
  <1>3. ASSUME NEW u \in Threads, NEW m \in Nodes
        PROVE  /\ m = n /\ (u = t \/ frame[u][n].pc = "wait")
                    => frame'[u][m].pc = "return"
               /\ ~(m = n /\ (u = t \/ frame[u][n].pc = "wait"))
                    => frame'[u][m] = frame[u][m]
    <2>1. frame[u] \in [Nodes -> FrameType] /\ frame[u][n] \in FrameType
      BY DEF IndInv, TypeOK
    <2> DEFINE f == [frame[u][n] EXCEPT !.pc = "return", !.out = frame[t][n].out]
    <2>2. f.pc = "return"
      BY <2>1 DEF FrameType
    <2>3. frame'[u] = IF u = t \/ frame[u][n].pc = "wait"
                        THEN [frame[u] EXCEPT ![n] = f] ELSE frame[u]
      BY DEF Leave, Waits
    <2> HIDE DEF f
    <2> QED
      BY <2>1, <2>2, <2>3
  <1>4. PathOK'
    <2>1. ASSUME NEW u \in Threads, NEW m \in Nodes
          PROVE  frame'[u][m].pc # "none" <=> frame[u][m].pc # "none"
      BY <1>2, <1>3
    <2>2. ASSUME NEW u \in Threads, NEW i \in Positions(path[u]), i < Len(path[u])
          PROVE  frame'[u][path[u][i]].pc = "work"
      <3>1. path[u][i] \in Nodes /\ frame[u][path[u][i]].pc = "work"
        BY <2>2 DEF IndInv, PathOK, TypeOK, Positions
      <3> QED
        BY <1>2, <1>3, <3>1
    <2> QED
      BY <1>1, <2>1, <2>2 DEF IndInv, PathOK
  <1>5. HandOK'
    BY <1>1, <1>3 DEF IndInv, HandOK, Instances
  <1>6. FlightOwner' /\ FollowersLed'
    <2>1. ASSUME NEW u \in Threads, NEW m \in Nodes
          PROVE  /\ (frame'[u][m].pc \in LeaderPCs) <=> (flight'[m] = u)
                 /\ frame'[u][m].pc = "wait" => flight'[m] # None
      <3>1. CASE m # n
        <4>1. frame'[u][m] = frame[u][m] /\ flight'[m] = flight[m]
          BY <1>1, <1>3, <3>1 DEF IndInv, TypeOK
        <4> QED
          BY <4>1 DEF IndInv, FlightOwner, FollowersLed, Leads, Waits
      <3>2. CASE m = n
        <4>1. flight'[n] = None /\ None # u
          BY <1>1, RolesAssumption DEF IndInv, TypeOK
        <4>2. u # t => frame[u][n].pc \notin LeaderPCs
          BY <1>2 DEF IndInv, FlightOwner, Leads
        <4>3. frame'[u][n].pc \notin LeaderPCs /\ frame'[u][n].pc # "wait"
          BY <1>3, <4>2 DEF LeaderPCs
        <4> QED
          BY <3>2, <4>1, <4>3
      <3> QED
        BY <3>1, <3>2
    <2> QED
      BY <2>1 DEF FlightOwner, FollowersLed, Leads, Waits
  <1> QED
    BY <1>4, <1>5, <1>6 DEF FramesOK

\* Popping a frame: the one that returns goes, the one below it may change.
LEMMA FramesReturnToParent ==
  ASSUME IndInv, NEW t \in Threads, NEW n \in Nodes, ReturnToParent(t, n)
  PROVE  FramesOK'
  <1> DEFINE s == path[t]
             r == Front(path[t])
             p == path[t][Len(path[t]) - 1]
             f == frame'[t][p]
  <1>1. /\ At(t, n, "return") /\ Len(s) > 1
        /\ UNCHANGED <<batch, flight, built>>
        /\ path' = [path EXCEPT ![t] = r]
    BY DEF ReturnToParent
  <1>2. /\ s \in Seq(Nodes) /\ s # <<>> /\ Last(s) = n /\ n = s[Len(s)]
        /\ Len(s) \in Nat \ {0} /\ frame[t][n].pc = "return"
        /\ \A i, j \in Positions(s) : s[i] = s[j] => i = j
    BY <1>1, TopOfPath DEF IndInv, TypeOK, PathOK, At
  <1>3. /\ Len(r) = Len(s) - 1
        /\ \A i \in Positions(r) : r[i] = s[i]
        /\ ToSet(r) = ToSet(s) \ {n}
        /\ \A i, j \in Positions(r) : r[i] = r[j] => i = j
    BY <1>2, PopPath
  <1>4. p \in Nodes /\ p # n /\ frame[t][p].pc = "work" /\ p = s[Len(s) - 1]
    <2>1. Len(s) - 1 \in Positions(s) /\ Len(s) \in Positions(s)
      BY <1>1, <1>2 DEF Positions
    <2>2. p \in Nodes /\ p = s[Len(s) - 1] /\ frame[t][p].pc = "work"
      <3>1. p = s[Len(s) - 1] /\ Len(s) - 1 < Len(s)
        BY <1>2
      <3>2. p \in Nodes
        BY <1>2, <2>1, <3>1 DEF Positions
      <3>3. frame[t][p].pc = "work"
        BY <2>1, <3>1 DEF IndInv, PathOK
      <3> QED
        BY <3>1, <3>2, <3>3
    <2>3. p # n
      BY <1>2, <2>1
    <2> QED
      BY <2>2, <2>3
  <1>5. /\ frame'[t][n].pc = "none"
        /\ frame'[t][p].pc \in {"work", "leave"}
        /\ \A u \in Threads, m \in Nodes :
             <<u, m>> # <<t, n>> /\ <<u, m>> # <<t, p>> => frame'[u][m] = frame[u][m]
    <2> DEFINE new == IF IsInst(frame[t][n].out)
          THEN [frame[t][p] EXCEPT !.i = @ + 1,
                  !.got = IF frame[t][p].i > Len(g.deps[p])
                            THEN @ \union {frame[t][n].out} ELSE @]
          ELSE [frame[t][p] EXCEPT !.pc = "leave", !.out = ErrResult]
    <2>1. frame' = [frame EXCEPT ![t][n] = NoFrame, ![t][p] = new]
      BY DEF ReturnToParent
    <2>2. frame[t][p] \in FrameType
      BY <1>4 DEF IndInv, TypeOK
    <2>3. new.pc \in {"work", "leave"}
      <3>1. CASE IsInst(frame[t][n].out)
        <4>1. new.pc = frame[t][p].pc
          BY <2>2, <3>1 DEF FrameType
        <4> QED
          BY <1>4, <4>1
      <3>2. CASE ~IsInst(frame[t][n].out)
        BY <2>2, <3>2 DEF FrameType
      <3> QED
        BY <3>1, <3>2
    <2> HIDE DEF new, p
    <2> QED
      BY <1>4, <2>1, <2>3 DEF IndInv, TypeOK, NoFrame
  <1>6. path'[t] = r /\ \A u \in Threads \ {t} : path'[u] = path[u]
    BY <1>1 DEF IndInv, TypeOK
  <1> HIDE DEF r, p, f
  <1>7. PathOK'
    <2>1. ASSUME NEW u \in Threads, NEW m \in Nodes
          PROVE  m \in ToSet(path'[u]) <=> frame'[u][m].pc # "none"
      BY <1>3, <1>4, <1>5, <1>6 DEF IndInv, PathOK
    <2>2. ASSUME NEW u \in Threads, NEW i \in Positions(path'[u]), i < Len(path'[u])
          PROVE  frame'[u][path'[u][i]].pc = "work"
      <3>1. CASE u # t
        <4>1. i \in Positions(path[u]) /\ i < Len(path[u]) /\ path[u] \in Seq(Nodes)
          BY <1>6, <2>2, <3>1 DEF IndInv, TypeOK
        <4>2. path[u][i] \in Nodes /\ frame[u][path[u][i]].pc = "work"
          BY <4>1 DEF IndInv, PathOK, Positions
        <4> QED
          BY <1>5, <1>6, <3>1, <4>2
      <3>2. CASE u = t
        <4>1. i \in Positions(r) /\ i < Len(s) - 1 /\ r[i] = s[i] /\ i \in Positions(s)
          BY <1>2, <1>3, <1>6, <2>2, <3>2 DEF Positions
        <4>2. Len(s) - 1 \in Positions(s) /\ Len(s) \in Positions(s)
          BY <1>1, <1>2 DEF Positions
        <4>3. s[i] # p /\ s[i] # n
          BY <1>2, <1>4, <4>1, <4>2
        <4>4. s[i] \in Nodes /\ frame[t][s[i]].pc = "work"
          BY <1>2, <4>1 DEF IndInv, PathOK, Positions
        <4> QED
          BY <1>5, <1>6, <3>2, <4>1, <4>3, <4>4
      <3> QED
        BY <3>1, <3>2
    <2>3. ASSUME NEW u \in Threads,
                 NEW i \in Positions(path'[u]), NEW j \in Positions(path'[u]),
                 path'[u][i] = path'[u][j]
          PROVE  i = j
      BY <1>3, <1>6, <2>3 DEF IndInv, PathOK
    <2>4. \A u \in Threads : path'[u] # <<>> => batch'[u] # <<>>
      BY <1>1, <1>2, <1>6 DEF IndInv, PathOK
    <2> QED
      BY <2>1, <2>2, <2>3, <2>4 DEF PathOK
  <1>8. HandOK'
    BY <1>1, <1>5 DEF IndInv, HandOK, Instances
  <1>9. FlightOwner' /\ FollowersLed'
    BY <1>1, <1>2, <1>4, <1>5 DEF IndInv, FlightOwner, FollowersLed, Leads, Waits, LeaderPCs
  <1> QED
    BY <1>7, <1>8, <1>9 DEF FramesOK

LEMMA FramesReturnToCaller ==
  ASSUME IndInv, NEW t \in Threads, NEW n \in Nodes, ReturnToCaller(t, n)
  PROVE  FramesOK'
  <1>1. /\ At(t, n, "return") /\ Len(path[t]) = 1
        /\ UNCHANGED <<flight, built>>
        /\ path' = [path EXCEPT ![t] = <<>>]
        /\ frame' = [frame EXCEPT ![t][n] = NoFrame]
        /\ \A u \in Threads \ {t} : batch'[u] = batch[u]
    BY DEF ReturnToCaller, IndInv, TypeOK
  <1>2. path[t] \in Seq(Nodes) /\ n = path[t][1] /\ frame[t][n].pc = "return"
    <2>1. path[t] \in Seq(Nodes)
      BY DEF IndInv, TypeOK
    <2>2. n = path[t][Len(path[t])] /\ frame[t][n].pc = "return"
      BY <1>1, TopOfPath DEF IndInv, At
    <2> QED
      BY <1>1, <2>1, <2>2
  <1>3. ToSet(path[t]) = {n} /\ ToSet(<<>>) = {}
    BY <1>1, <1>2 DEF ToSet
  <1>4. /\ frame'[t][n].pc = "none"
        /\ \A u \in Threads, m \in Nodes : <<u, m>> # <<t, n>> => frame'[u][m] = frame[u][m]
        /\ path'[t] = <<>>
        /\ \A u \in Threads \ {t} : path'[u] = path[u]
    BY <1>1 DEF IndInv, TypeOK, NoFrame
  <1>5. PathOK'
    <2>1. ASSUME NEW u \in Threads, NEW m \in Nodes
          PROVE  m \in ToSet(path'[u]) <=> frame'[u][m].pc # "none"
      BY <1>3, <1>4 DEF IndInv, PathOK
    <2>2. Positions(<<>>) = {}
      BY DEF Positions
    <2>3. ASSUME NEW u \in Threads, NEW i \in Positions(path'[u]), i < Len(path'[u])
          PROVE  frame'[u][path'[u][i]].pc = "work"
      <3>1. u # t
        BY <1>4, <2>2, <2>3
      <3>2. i \in Positions(path[u]) /\ i < Len(path[u]) /\ path[u] \in Seq(Nodes)
        BY <1>4, <2>3, <3>1 DEF IndInv, TypeOK
      <3>3. path[u][i] \in Nodes /\ frame[u][path[u][i]].pc = "work"
        BY <3>2 DEF IndInv, PathOK, Positions
      <3> QED
        BY <1>4, <3>1, <3>3
    <2>4. ASSUME NEW u \in Threads,
                 NEW i \in Positions(path'[u]), NEW j \in Positions(path'[u]),
                 path'[u][i] = path'[u][j]
          PROVE  i = j
      BY <1>4, <2>2, <2>4 DEF IndInv, PathOK
    <2>5. \A u \in Threads : path'[u] # <<>> => batch'[u] # <<>>
      BY <1>1, <1>4 DEF IndInv, PathOK
    <2> QED
      BY <2>1, <2>3, <2>4, <2>5 DEF PathOK
  <1>6. HandOK'
    BY <1>1, <1>4 DEF IndInv, HandOK, Instances
  <1>7. FlightOwner' /\ FollowersLed'
    BY <1>1, <1>2, <1>4 DEF IndInv, FlightOwner, FollowersLed, Leads, Waits, LeaderPCs
  <1> QED
    BY <1>5, <1>6, <1>7 DEF FramesOK

-----------------------------------------------------------------------------
LEMMA InitIndInv == Init => IndInv
  <1> SUFFICES ASSUME Init PROVE IndInv
    OBVIOUS
  <1>1. TypeOK
    BY InitTypeOK
  <1>2. /\ \A t \in Threads, n \in Nodes : frame[t][n].pc = "none"
        /\ \A t \in Threads : path[t] = <<>>
        /\ \A n \in Nodes : flight[n] = None
    BY DEF Init, NoFrame
  <1>3. PathOK
    <2>1. ToSet(<<>>) = {} /\ Positions(<<>>) = {}
      BY DEF ToSet, Positions
    <2> QED
      BY <1>2, <2>1 DEF PathOK
  <1>4. HandOK /\ FlightOwner /\ FollowersLed
    BY <1>2, RolesAssumption
    DEF HandOK, FlightOwner, FollowersLed, Leads, Waits, LeaderPCs
  <1> QED
    BY <1>1, <1>3, <1>4 DEF IndInv

LEMMA CloseOneInstances ==
  ASSUME TypeOK, NEW t \in Threads, NEW n \in Nodes, CloseOne(t, n)
  PROVE  /\ Instances' = Instances
         /\ \A i \in Instances : built'[i].node = built[i].node
  <1>1. built \in Seq(InstanceType) /\ Len(built') = Len(built)
    BY DEF CloseOne, TypeOK
  <1>2. ASSUME NEW i \in Instances PROVE built'[i].node = built[i].node
    <2>1. built[i] \in InstanceType
      BY <1>1 DEF Instances
    <2> DEFINE e == [built[i] EXCEPT !.closed = @ + 1]
    <2>2. e.node = built[i].node
      BY <2>1 DEF InstanceType
    <2>3. built'[i] = built[i] \/ built'[i] = e
      BY <1>1 DEF CloseOne, Instances
    <2> QED
      BY <2>2, <2>3
  <1> QED
    BY <1>1, <1>2 DEF Instances

LEMMA InjectInstances ==
  ASSUME TypeOK, NEW t \in Threads, NEW n \in Nodes, Inject(t, n)
  PROVE  \A i \in Instances : i \in Instances' /\ built'[i].node = built[i].node
  <1>1. CASE n \notin Declared
    BY <1>1 DEF Inject, Instances
  <1>2. CASE n \in Declared
    <2> DEFINE e == [node |-> n, uses |-> {}, given |-> TRUE, closed |-> 0]
    <2>1. built' = Append(built, e) /\ built \in Seq(InstanceType)
      BY <1>2 DEF Inject, TypeOK
    <2> HIDE DEF e
    <2> QED
      BY <2>1 DEF Instances
  <1> QED
    BY <1>1, <1>2

LEMMA IndInvStep == IndInv /\ [Next]_vars => IndInv'
  <1> SUFFICES ASSUME IndInv, [Next]_vars PROVE TypeOK' /\ FramesOK'
    BY DEF IndInv, FramesOK
  <1> USE DEF IndInv
  <1>1. ASSUME NEW t \in Threads, NEW ids \in Batches, CallResolve(t, ids)
        PROVE  TypeOK' /\ FramesOK'
    <2>1. /\ UNCHANGED <<path, frame, flight, built>>
          /\ \A u \in Threads : path[u] # <<>> => batch'[u] = batch[u]
      BY <1>1 DEF CallResolve, Idle, TypeOK
    <2> QED
      BY <1>1, <2>1, TypeCallResolve, NoFrameStep DEF Instances
  <1>2. ASSUME NEW t \in Threads, Begin(t)
        PROVE  TypeOK' /\ FramesOK'
    BY <1>2, TypeBegin, FramesBegin
  <1>3. ASSUME NEW t \in Threads, NEW n \in Nodes, ResolveStep(t, n)
        PROVE  TypeOK' /\ FramesOK'
    <2>1. CASE Lookup(t, n)
      BY <2>1, TypeLookup, FramesLookup
    <2>2. CASE Lead(t, n)
      BY <2>2, TypeLead, FramesLead
    <2>3. CASE Follow(t, n)
      BY <2>3, TypeFollow, FramesFollow
    <2>4. CASE Recheck(t, n)
      BY <2>4, TypeRecheck, FramesRecheck
    <2>5. CASE Descend(t, n)
      BY <2>5, TypeDescend, FramesDescend
    <2>6. CASE Construct(t, n)
      BY <2>6, TypeConstruct, FramesConstruct
    <2>7. CASE Fail(t, n)
      BY <2>7, TypeFail, FramesFail
    <2>8. CASE Store(t, n)
      BY <2>8, TypeStore, FramesStore
    <2>9. CASE Leave(t, n)
      BY <2>9, TypeLeave, FramesLeave
    <2>10. CASE ReturnToParent(t, n)
      BY <2>10, TypeReturnToParent, FramesReturnToParent
    <2>11. CASE ReturnToCaller(t, n)
      BY <2>11, TypeReturnToCaller, FramesReturnToCaller
    <2> QED
      BY <1>3, <2>1, <2>2, <2>3, <2>4, <2>5, <2>6, <2>7, <2>8, <2>9, <2>10, <2>11
      DEF ResolveStep
  <1>4. ASSUME NEW t \in Threads, NEW n \in Nodes, CloseOne(t, n)
        PROVE  TypeOK' /\ FramesOK'
    <2>1. UNCHANGED <<path, frame, flight, batch>>
      BY <1>4 DEF CloseOne
    <2> QED
      BY <1>4, <2>1, TypeCloseOne, CloseOneInstances, NoFrameStep
  <1>5. ASSUME NEW t \in Threads, CloseFinish(t)
        PROVE  TypeOK' /\ FramesOK'
    <2>1. UNCHANGED <<path, frame, flight, batch, built>>
      BY <1>5 DEF CloseFinish
    <2> QED
      BY <1>5, <2>1, TypeCloseFinish, NoFrameStep DEF Instances
  <1>6. ASSUME NEW t \in Threads, NEW n \in Nodes, Inject(t, n)
        PROVE  TypeOK' /\ FramesOK'
    <2>1. UNCHANGED <<path, frame, flight, batch>>
      BY <1>6 DEF Inject
    <2> QED
      BY <1>6, <2>1, TypeInject, InjectInstances, NoFrameStep
  <1>7. ASSUME NEW t \in Threads, Close(t)
        PROVE  TypeOK' /\ FramesOK'
    <2>1. UNCHANGED <<path, frame, flight, batch, built>>
      BY <1>7 DEF Close
    <2> QED
      BY <1>7, <2>1, TypeClose, NoFrameStep DEF Instances
  <1>8. ASSUME NEW t \in Threads, NEW ids \in CloseSets, CloseIDs(t, ids)
        PROVE  TypeOK' /\ FramesOK'
    <2>1. UNCHANGED <<path, frame, flight, batch, built>>
      BY <1>8 DEF CloseIDs
    <2> QED
      BY <1>8, <2>1, TypeCloseIDs, NoFrameStep DEF Instances
  <1>9. CASE UNCHANGED vars
    <2>1. TypeOK'
      BY <1>9, SameInstances DEF TypeOK, vars
    <2>2. UNCHANGED <<path, frame, flight, batch, built>>
      BY <1>9 DEF vars
    <2> QED
      BY <2>1, <2>2, NoFrameStep DEF Instances
  <1> QED
    BY <1>1, <1>2, <1>3, <1>4, <1>5, <1>6, <1>7, <1>8, <1>9
    DEF Next, Inside, Calls, Finished

\* Every reachable state satisfies the inductive invariant.
LEMMA Invariance == Spec => []IndInv
  BY InitIndInv, IndInvStep, PTL DEF Spec

\* The state keeps its type: every reference to an instance is to one that
\* exists, whatever is resolved, injected and closed concurrently.
THEOREM TypeCorrect == Spec => []TypeOK
  <1>1. IndInv => TypeOK
    BY DEF IndInv
  <1> QED
    BY <1>1, Invariance, PTL

\* singleflight.Do (container.go:90) admits one closure per resource at a time,
\* for any number of goroutines and any nesting of Resolve calls.
THEOREM OneLeader == Spec => []FlightOwner
  <1>1. IndInv => FlightOwner
    BY DEF IndInv
  <1> QED
    BY <1>1, Invariance, PTL

\* No follower of a flight is forgotten: its leader is another goroutine that
\* is still running the closure.
THEOREM FollowersAreWoken == Spec => []NoLostWakeup
  <1>1. IndInv => NoLostWakeup
    <2> SUFFICES ASSUME IndInv, NEW t \in Threads, NEW n \in Nodes, Waits(t, n)
                 PROVE  \E u \in Threads \ {t} : Leads(u, n)
      BY DEF NoLostWakeup
    <2>1. flight[n] \in Threads
      BY DEF IndInv, TypeOK, FollowersLed
    <2>2. Leads(flight[n], n)
      BY <2>1 DEF IndInv, FlightOwner
    <2>3. ~Leads(t, n)
      BY DEF Leads, Waits, LeaderPCs
    <2> QED
      BY <2>1, <2>2, <2>3
  <1> QED
    BY <1>1, Invariance, PTL

-----------------------------------------------------------------------------
(***************************************************************************)
(* Closing, while other goroutines go on resolving: the order and the      *)
(* completeness of every close; when one goroutine closes and selects what *)
(* it closes, that no instance is closed twice or lost; and, when one      *)
(* goroutine does everything, that nothing live is wired to something      *)
(* closed.                                                                 *)
(***************************************************************************)

\* A leader that got past its second look at the cache is still right.
MissOK ==
  \A t \in Threads, n \in Nodes :
    frame[t][n].pc \in {"work", "store"} => cache[n] = NoInst

LEMMA InstanceNode ==
  ASSUME TypeOK, NEW i \in Instances
  PROVE  built[i] \in InstanceType /\ built[i].node \in Nodes /\ i # NoInst
  <1>1. built[i] \in InstanceType /\ i # NoInst
    BY DEF TypeOK, Instances, NoInst
  <1> QED
    BY <1>1 DEF InstanceType

\* A step of a resolve that neither builds nor stores.
QuietStep ==
  /\ UNCHANGED <<g, cache, built, closing>>
  /\ \A u \in Threads, m \in Nodes :
       /\ frame'[u][m].pc = "store" => frame[u][m].pc = "store"
       /\ frame[u][m].pc = "store" => frame'[u][m] = frame[u][m]
       /\ frame'[u][m].pc = "work" =>
            frame[u][m].pc = "work" \/ (cache[m] = NoInst /\ m \in Declared)

LEMMA QuietTop ==
  ASSUME TypeOK, NEW t \in Threads, NEW n \in Nodes, UNCHANGED <<g, cache, built, closing>>,
         NEW f, frame' = [frame EXCEPT ![t][n] = f],
         f.pc # "store", frame[t][n].pc # "store",
         f.pc = "work" => cache[n] = NoInst /\ n \in Declared
  PROVE  QuietStep
  <1>1. \A u \in Threads, m \in Nodes :
          frame'[u][m] = IF u = t /\ m = n THEN f ELSE frame[u][m]
    BY DEF TypeOK
  <1> QED
    BY <1>1 DEF QuietStep

LEMMA QuietEntered ==
  ASSUME IndInv, NEW t \in Threads, NEW n \in Nodes, UNCHANGED <<g, cache, built, closing>>,
         n \notin ToSet(path[t]), frame' = [frame EXCEPT ![t][n] = Entered]
  PROVE  QuietStep
  <1>1. Entered.pc = "lookup" /\ frame[t][n].pc = "none"
    BY DEF Entered, NoFrame, IndInv, PathOK
  <1> QED
    BY <1>1, QuietTop DEF IndInv

LEMMA QuietLookup ==
  ASSUME TypeOK, NEW t \in Threads, NEW n \in Nodes, Lookup(t, n)
  PROVE  QuietStep
  <1> DEFINE f == IF cache[n] # NoInst
                    THEN [frame[t][n] EXCEPT !.pc = "return", !.out = cache[n]]
                    ELSE [frame[t][n] EXCEPT !.pc = "enter"]
  <1>1. /\ frame[t][n] \in FrameType /\ frame[t][n].pc = "lookup"
        /\ frame' = [frame EXCEPT ![t][n] = f] /\ UNCHANGED <<g, cache, built, closing>>
    BY DEF TypeOK, Lookup, At
  <1>2. f.pc \in {"return", "enter"}
    BY <1>1 DEF FrameType
  <1> HIDE DEF f
  <1> QED
    BY <1>1, <1>2, QuietTop

LEMMA QuietEnter ==
  ASSUME TypeOK, NEW t \in Threads, NEW n \in Nodes, Lead(t, n) \/ Follow(t, n)
  PROVE  QuietStep
  <1>1. PICK pc \in {"recheck", "wait"} :
          /\ frame[t][n].pc = "enter" /\ UNCHANGED <<g, cache, built, closing>>
          /\ frame' = [frame EXCEPT ![t][n].pc = pc]
    BY DEF Lead, Follow, At
  <1> DEFINE f == [frame[t][n] EXCEPT !.pc = pc]
  <1>2. f.pc = pc
    BY DEF TypeOK, FrameType
  <1>3. frame' = [frame EXCEPT ![t][n] = f]
    BY <1>1
  <1> HIDE DEF f
  <1> QED
    BY <1>1, <1>2, <1>3, QuietTop

LEMMA QuietRecheck ==
  ASSUME TypeOK, NEW t \in Threads, NEW n \in Nodes, Recheck(t, n)
  PROVE  QuietStep
  <1> DEFINE f == IF cache[n] # NoInst
                    THEN [frame[t][n] EXCEPT !.pc = "leave", !.out = cache[n]]
                    ELSE IF n \in Declared
                      THEN [frame[t][n] EXCEPT !.pc = "work"]
                      ELSE [frame[t][n] EXCEPT !.pc = "leave", !.out = ErrResult]
  <1>1. /\ frame[t][n] \in FrameType /\ frame[t][n].pc = "recheck"
        /\ frame' = [frame EXCEPT ![t][n] = f] /\ UNCHANGED <<g, cache, built, closing>>
    BY DEF TypeOK, Recheck, At
  <1>2. f.pc = "leave" \/ (f.pc = "work" /\ cache[n] = NoInst /\ n \in Declared)
    BY <1>1 DEF FrameType
  <1> HIDE DEF f
  <1> QED
    BY <1>1, <1>2, QuietTop

LEMMA QuietEnd ==
  ASSUME TypeOK, NEW t \in Threads, NEW n \in Nodes, frame[t][n].pc = "work",
         UNCHANGED <<g, cache, built, closing>>,
         frame' = [frame EXCEPT ![t][n].pc = "leave", ![t][n].out = ErrResult]
  PROVE  QuietStep
  <1> DEFINE f == [frame[t][n] EXCEPT !.pc = "leave", !.out = ErrResult]
  <1>1. frame' = [frame EXCEPT ![t][n] = f] /\ frame[t][n] \in FrameType
    BY DEF TypeOK
  <1>2. f.pc = "leave"
    BY <1>1 DEF FrameType
  <1> HIDE DEF f
  <1> QED
    BY <1>1, <1>2, QuietTop

LEMMA QuietDescend ==
  ASSUME IndInv, NEW t \in Threads, NEW n \in Nodes, Descend(t, n)
  PROVE  QuietStep
  <1> DEFINE child == Work(n)[frame[t][n].i]
  <1>1. /\ frame[t][n] \in FrameType /\ UNCHANGED <<g, cache, built, closing>>
        /\ frame[t][n].pc = "work"
    BY DEF Descend, At, IndInv, TypeOK
  <1>2. child \in Nodes
    BY <1>1, WorkType DEF Descend, IndInv, FrameType
  <1>3. CASE child \in ToSet(path[t])
    BY <1>1, <1>3, QuietEnd DEF Descend, IndInv
  <1>4. CASE child \notin ToSet(path[t])
    <2>1. frame' = [frame EXCEPT ![t][child] = Entered]
      BY <1>4 DEF Descend
    <2> HIDE DEF child
    <2> QED
      BY <1>1, <1>2, <1>4, <2>1, QuietEntered
  <1> QED
    BY <1>3, <1>4

LEMMA QuietLeave ==
  ASSUME TypeOK, NEW t \in Threads, NEW n \in Nodes, Leave(t, n)
  PROVE  QuietStep
  <1>1. frame[t][n].pc = "leave" /\ UNCHANGED <<g, cache, built, closing>>
    BY DEF Leave, At
  <1>2. ASSUME NEW u \in Threads, NEW m \in Nodes
        PROVE  \/ frame'[u][m] = frame[u][m]
               \/ frame'[u][m].pc = "return" /\ frame[u][m].pc # "store"
    <2>1. frame[u] \in [Nodes -> FrameType] /\ frame[u][n] \in FrameType
      BY DEF TypeOK
    <2> DEFINE f == [frame[u][n] EXCEPT !.pc = "return", !.out = frame[t][n].out]
    <2>2. f.pc = "return"
      BY <2>1 DEF FrameType
    <2>3. frame'[u] = IF u = t \/ frame[u][n].pc = "wait"
                        THEN [frame[u] EXCEPT ![n] = f] ELSE frame[u]
      BY DEF Leave, Waits
    <2> HIDE DEF f
    <2> QED
      BY <1>1, <2>1, <2>2, <2>3
  <1> QED
    BY <1>1, <1>2 DEF QuietStep

LEMMA QuietReturnToParent ==
  ASSUME IndInv, NEW t \in Threads, NEW n \in Nodes, ReturnToParent(t, n)
  PROVE  QuietStep
  <1> DEFINE p == path[t][Len(path[t]) - 1]
             got == IF frame[t][p].i > Len(g.deps[p])
                      THEN frame[t][p].got \union {frame[t][n].out} ELSE frame[t][p].got
             f == IF IsInst(frame[t][n].out)
                    THEN [frame[t][p] EXCEPT !.i = @ + 1, !.got = got]
                    ELSE [frame[t][p] EXCEPT !.pc = "leave", !.out = ErrResult]
  <1>1. /\ frame[t][n].pc = "return" /\ UNCHANGED <<g, cache, built, closing>>
        /\ frame' = [frame EXCEPT ![t][n] = NoFrame, ![t][p] = f]
    BY DEF ReturnToParent, At
  <1>2. /\ path[t] \in Seq(Nodes) /\ Len(path[t]) > 1 /\ Len(path[t]) \in Nat
    BY DEF ReturnToParent, IndInv, TypeOK
  <1>3. Len(path[t]) - 1 \in Positions(path[t])
    BY <1>2 DEF Positions
  <1>4. p \in Nodes /\ frame[t][p].pc = "work" /\ frame[t][p] \in FrameType
    <2>1. p \in Nodes /\ frame[t][p].pc = "work"
      BY <1>2, <1>3 DEF IndInv, PathOK, Positions
    <2> QED
      BY <2>1 DEF IndInv, TypeOK
  <1>5. f.pc \in {"work", "leave"}
    <2> HIDE DEF got, p
    <2> QED
      BY <1>4 DEF FrameType
  <1> HIDE DEF f, p
  <1>6. \A u \in Threads, m \in Nodes :
          frame'[u][m] = IF u = t /\ m = p THEN f
                         ELSE IF u = t /\ m = n THEN NoFrame ELSE frame[u][m]
    BY <1>1, <1>4 DEF IndInv, TypeOK
  <1>7. NoFrame.pc = "none"
    BY DEF NoFrame
  <1>8. ASSUME NEW u \in Threads, NEW m \in Nodes
        PROVE  /\ frame'[u][m].pc = "store" => frame[u][m].pc = "store"
               /\ frame[u][m].pc = "store" => frame'[u][m] = frame[u][m]
               /\ frame'[u][m].pc = "work" => frame[u][m].pc = "work"
    <2>1. CASE u = t /\ m = p
      BY <1>4, <1>5, <1>6, <2>1
    <2>2. CASE u = t /\ m = n /\ m # p
      BY <1>1, <1>6, <1>7, <2>2
    <2>3. CASE ~(u = t /\ m \in {n, p})
      BY <1>6, <2>3
    <2> QED
      BY <2>1, <2>2, <2>3
  <1> QED
    BY <1>1, <1>8 DEF QuietStep

LEMMA QuietReturnToCaller ==
  ASSUME TypeOK, NEW t \in Threads, NEW n \in Nodes, ReturnToCaller(t, n)
  PROVE  QuietStep
  <1>1. NoFrame.pc = "none" /\ frame[t][n].pc = "return"
    BY DEF NoFrame, ReturnToCaller, At
  <1> QED
    BY <1>1, QuietTop DEF ReturnToCaller

\* What the steps of a resolve do to the instances.
LEMMA ResolveEffect ==
  ASSUME IndInv, NEW t \in Threads, NEW n \in Nodes, ResolveStep(t, n)
  PROVE  Construct(t, n) \/ Store(t, n) \/ QuietStep
  <1>1. Fail(t, n) => QuietStep
    BY QuietEnd DEF Fail, At, IndInv
  <1> QED
    BY <1>1, QuietLookup, QuietEnter, QuietRecheck, QuietDescend, QuietLeave,
       QuietReturnToParent, QuietReturnToCaller
    DEF ResolveStep, IndInv

LEMMA BeginEffect ==
  ASSUME IndInv, NEW t \in Threads, Begin(t)
  PROVE  QuietStep
  <1>1. Head(batch[t]) \in Nodes /\ ToSet(path[t]) = {}
    BY DEF Begin, IndInv, TypeOK, ToSet
  <1> QED
    BY <1>1, QuietEntered DEF Begin

\* What a construct does to instances.
LEMMA ConstructEffect ==
  ASSUME TypeOK, NEW t \in Threads, NEW n \in Nodes, Construct(t, n)
  PROVE  /\ UNCHANGED <<g, cache, closing>> /\ frame[t][n].pc = "work"
         /\ Instances' = Instances \union {Len(built) + 1} /\ Len(built) + 1 \notin Instances
         /\ \A i \in Instances : built'[i] = built[i]
         /\ built'[Len(built) + 1].node = n /\ built'[Len(built) + 1].closed = 0
         /\ built'[Len(built) + 1].uses = frame[t][n].got
         /\ frame'[t][n].pc = "store" /\ frame'[t][n].out = Len(built) + 1
         /\ \A u \in Threads, m \in Nodes : <<u, m>> # <<t, n>> => frame'[u][m] = frame[u][m]
  <1> DEFINE e == [node |-> n, uses |-> frame[t][n].got, given |-> FALSE, closed |-> 0]
             f == [frame[t][n] EXCEPT !.pc = "store", !.out = Len(built) + 1]
  <1>1. /\ frame[t][n] \in FrameType /\ built \in Seq(InstanceType) /\ Len(built) \in Nat
        /\ frame[t][n].pc = "work" /\ UNCHANGED <<g, cache, closing>>
    BY DEF TypeOK, Construct, At
  <1>2. frame' = [frame EXCEPT ![t][n] = f] /\ built' = Append(built, e)
    BY DEF Construct
  <1>3. /\ f.pc = "store" /\ f.out = Len(built) + 1
        /\ e.node = n /\ e.closed = 0 /\ e.uses = frame[t][n].got /\ e \in InstanceType
    BY <1>1 DEF FrameType, InstanceType
  <1> HIDE DEF e, f
  <1>4. /\ frame'[t][n] = f
        /\ \A u \in Threads, m \in Nodes : <<u, m>> # <<t, n>> => frame'[u][m] = frame[u][m]
    BY <1>2 DEF TypeOK
  <1>5. /\ Instances' = Instances \union {Len(built) + 1}
        /\ \A i \in Instances : built'[i] = built[i]
        /\ built'[Len(built) + 1] = e
        /\ Len(built) + 1 \notin Instances
    BY <1>1, <1>2, <1>3, NewInstance DEF Instances
  <1> QED
    BY <1>1, <1>3, <1>4, <1>5

\* What a store does to the cache.
LEMMA StoreEffect ==
  ASSUME IndInv, NEW t \in Threads, NEW n \in Nodes, Store(t, n)
  PROVE  /\ UNCHANGED <<g, built, closing>> /\ frame[t][n].pc = "store"
         /\ frame[t][n].out \in Instances /\ built[frame[t][n].out].node = n
         /\ frame'[t][n].pc = "leave"
         /\ \A u \in Threads, m \in Nodes : <<u, m>> # <<t, n>> => frame'[u][m] = frame[u][m]
         /\ \A m \in Nodes : cache'[m] = IF m = n THEN frame[t][n].out ELSE cache[m]
  <1> DEFINE f == [frame[t][n] EXCEPT !.pc = "leave"]
  <1>1. /\ frame[t][n] \in FrameType /\ frame[t][n].pc = "store" /\ UNCHANGED <<g, built, closing>>
        /\ cache' = [cache EXCEPT ![n] = frame[t][n].out]
        /\ frame' = [frame EXCEPT ![t][n] = f]
    BY DEF IndInv, TypeOK, Store, At
  <1>2. f.pc = "leave"
    BY <1>1 DEF FrameType
  <1> HIDE DEF f
  <1>3. /\ frame'[t][n] = f
        /\ \A u \in Threads, m \in Nodes : <<u, m>> # <<t, n>> => frame'[u][m] = frame[u][m]
        /\ \A m \in Nodes : cache'[m] = IF m = n THEN frame[t][n].out ELSE cache[m]
    BY <1>1 DEF IndInv, TypeOK
  <1> QED
    BY <1>1, <1>2, <1>3 DEF IndInv, HandOK

\* What one turn of the loop of closeWithKeys does.
LEMMA CloseOneEffect ==
  ASSUME TypeOK, NEW t \in Threads, NEW n \in Nodes, CloseOne(t, n)
  PROVE  /\ UNCHANGED <<g, cache, frame>> /\ closing[t].active
         /\ n \in Pending(t) /\ \A m \in Pending(t) : TopoPos(m) <= TopoPos(n)
         /\ closing[t].todo[n] \in Instances /\ closing[t].todo[n] # NoInst
         /\ Instances' = Instances
         /\ \A i \in Instances : built'[i].node = built[i].node
         /\ \A i \in Instances : built'[i].closed =
              IF i = closing[t].todo[n] THEN built[i].closed + 1 ELSE built[i].closed
         /\ \A i \in Instances : built'[i].given = built[i].given
         /\ \A i \in Instances : built'[i].uses = built[i].uses
         /\ \A u \in Threads : closing'[u].todo = closing[u].todo
                            /\ closing'[u].active = closing[u].active
                            /\ closing'[u].keys = closing[u].keys
                            /\ closing'[u].scope = closing[u].scope
         /\ closing'[t].done = closing[t].done \union {n}
         /\ \A u \in Threads \ {t} : closing'[u] = closing[u]
  <1> DEFINE i == closing[t].todo[n]
             e == [built[i] EXCEPT !.closed = @ + 1]
  <1>1. i \in Instances /\ i # NoInst /\ built \in Seq(InstanceType)
    BY DEF CloseOne, Pending, TypeOK, ClosingType
  <1>2. built[i] \in InstanceType
    BY <1>1 DEF Instances
  <1>3. built' = [built EXCEPT ![i] = e]
    BY DEF CloseOne
  <1>4. e.node = built[i].node /\ e.closed = built[i].closed + 1 /\ e.given = built[i].given
        /\ e.uses = built[i].uses
    <2> HIDE DEF i
    <2> QED
      BY <1>2 DEF InstanceType
  <1>5. Instances' = Instances
    BY CloseOneInstances
  <1> HIDE DEF e, i
  <1>6. \A j \in Instances : built'[j] = IF j = i THEN e ELSE built[j]
    BY <1>1, <1>3 DEF Instances
  <1>7. PICK failed :
          closing' = [closing EXCEPT ![t].done = @ \union {n}, ![t].errs = @ \union failed]
    BY DEF CloseOne
  <1> DEFINE c == [closing[t] EXCEPT !.done = @ \union {n}, !.errs = @ \union failed]
  <1>8. closing' = [closing EXCEPT ![t] = c] /\ closing[t] \in ClosingType
    BY <1>7 DEF TypeOK
  <1>9. /\ c.todo = closing[t].todo /\ c.active = closing[t].active /\ c.keys = closing[t].keys
        /\ c.scope = closing[t].scope /\ c.done = closing[t].done \union {n}
    BY <1>8 DEF ClosingType
  <1> HIDE DEF c
  <1>10. \A u \in Threads : closing'[u] = IF u = t THEN c ELSE closing[u]
    BY <1>8 DEF TypeOK
  <1>11. \A j \in Instances : /\ built'[j].node = built[j].node
                              /\ built'[j].given = built[j].given
                              /\ built'[j].uses = built[j].uses
                              /\ built'[j].closed = IF j = i THEN built[j].closed + 1
                                                             ELSE built[j].closed
    BY <1>4, <1>6
  <1>12. /\ UNCHANGED <<g, cache, frame>> /\ closing[t].active
         /\ n \in Pending(t) /\ \A m \in Pending(t) : TopoPos(m) <= TopoPos(n)
    BY DEF CloseOne
  <1> QED
    BY <1>1, <1>5, <1>9, <1>10, <1>11, <1>12 DEF i

-----------------------------------------------------------------------------
(***************************************************************************)
(* The order of every close, and what it has done when it is over.         *)
(***************************************************************************)

\* Only declared nodes are built, and only what is built is cached.
OnlyDeclared ==
  /\ \A n \in Nodes : cache[n] # NoInst => n \in Declared
  /\ \A t \in Threads, n \in Nodes :
       frame[t][n].pc \in {"work", "store"} => n \in Declared

LEMMA ClosedIsNat ==
  ASSUME TypeOK, NEW i \in Instances
  PROVE  built[i].closed \in Nat
  <1>1. built[i] \in InstanceType
    BY DEF TypeOK, Instances
  <1> QED
    BY <1>1 DEF InstanceType

\* What a close has done is closed, and was in front of what it has to do.
LoopOK ==
  \A t \in Threads : closing[t].active =>
    /\ closing[t].scope = Nodes
    /\ \A n \in Nodes : closing[t].todo[n] # NoInst =>
         n \in Declared /\ (closing[t].keys # {} => n \in closing[t].keys)
    /\ \A n \in closing[t].done :
         /\ closing[t].todo[n] # NoInst
         /\ built[closing[t].todo[n]].closed > 0
         /\ \A m \in Pending(t) : TopoPos(m) <= TopoPos(n)

LoopInv == OnlyDeclared /\ LoopOK /\ g \in Graphs

\* A step that closes nothing keeps every loop as it is.
LEMMA LoopStays ==
  ASSUME TypeOK, LoopOK, UNCHANGED <<g, closing>>,
         \A i \in Instances : built'[i].closed = built[i].closed
  PROVE  LoopOK'
  <1> SUFFICES ASSUME NEW t \in Threads, closing[t].active
               PROVE  /\ closing[t].scope = Nodes
                      /\ \A n \in Nodes : closing[t].todo[n] # NoInst =>
                           n \in Declared /\ (closing[t].keys # {} => n \in closing[t].keys)
                      /\ \A n \in closing[t].done :
                           /\ closing[t].todo[n] # NoInst
                           /\ built'[closing[t].todo[n]].closed > 0
                           /\ \A m \in Pending(t) : TopoPos(m) <= TopoPos(n)
    BY DEF LoopOK, Pending, TopoPos, Declared
  <1>1. closing[t] \in ClosingType
    BY DEF TypeOK
  <1>2. \A n \in closing[t].done : closing[t].todo[n] \in Instances \union {NoInst}
    BY <1>1 DEF ClosingType
  <1> QED
    BY <1>2 DEF LoopOK

LEMMA LoopQuiet ==
  ASSUME TypeOK, LoopInv, QuietStep
  PROVE  LoopInv'
  <1>1. LoopOK'
    BY LoopStays DEF LoopInv, QuietStep
  <1>2. OnlyDeclared'
    BY DEF QuietStep, LoopInv, OnlyDeclared, Declared
  <1> QED
    BY <1>1, <1>2 DEF LoopInv, QuietStep

LEMMA LoopConstruct ==
  ASSUME TypeOK, LoopInv, NEW t \in Threads, NEW n \in Nodes, Construct(t, n)
  PROVE  LoopInv'
  <1>1. LoopOK'
    BY LoopStays, ConstructEffect DEF LoopInv
  <1>2. \A u \in Threads, m \in Nodes :
          frame'[u][m].pc \in {"work", "store"} => frame[u][m].pc \in {"work", "store"}
    BY ConstructEffect
  <1>3. UNCHANGED <<g, cache>>
    BY ConstructEffect
  <1> QED
    BY <1>1, <1>2, <1>3 DEF LoopInv, OnlyDeclared, Declared

LEMMA LoopStore ==
  ASSUME IndInv, LoopInv, NEW t \in Threads, NEW n \in Nodes, Store(t, n)
  PROVE  LoopInv'
  <1>1. LoopOK'
    BY LoopStays, StoreEffect DEF LoopInv, IndInv
  <1>2. OnlyDeclared'
    BY StoreEffect DEF LoopInv, OnlyDeclared, Declared
  <1> QED
    BY <1>1, <1>2, StoreEffect DEF LoopInv

LEMMA LoopInject ==
  ASSUME TypeOK, LoopInv, NEW t \in Threads, NEW n \in Nodes, Inject(t, n)
  PROVE  LoopInv'
  <1>1. UNCHANGED <<g, frame, closing>>
    BY DEF Inject
  <1>2. \A i \in Instances : built'[i] = built[i]
    <2> DEFINE e == [node |-> n, uses |-> {}, given |-> TRUE, closed |-> 0]
    <2>1. built \in Seq(InstanceType) /\ Len(built) \in Nat
      BY DEF TypeOK
    <2>2. built' = built \/ built' = Append(built, e)
      BY DEF Inject
    <2> HIDE DEF e
    <2> QED
      BY <2>1, <2>2 DEF Instances
  <1>3. \A m \in Nodes : cache'[m] # NoInst => cache[m] # NoInst \/ m \in Declared
    BY DEF Inject, TypeOK
  <1>4. LoopOK'
    BY <1>1, <1>2, LoopStays DEF LoopInv
  <1>5. OnlyDeclared'
    BY <1>1, <1>3 DEF LoopInv, OnlyDeclared, Declared
  <1> QED
    BY <1>1, <1>4, <1>5 DEF LoopInv

\* A close begins with nothing done, and with what is cached.
LEMMA LoopBegin ==
  ASSUME TypeOK, LoopInv, NEW t \in Threads, NEW keys \in SUBSET Nodes,
         CloseWithKeys(t, Nodes, keys), UNCHANGED <<g, cache, frame, built>>
  PROVE  LoopInv'
  <1> DEFINE c == [active |-> TRUE, scope |-> Nodes, keys |-> keys, errs |-> {}, done |-> {},
                   todo |-> [n \in Nodes |-> IF n \in Nodes /\ Selected(keys, n)
                                               THEN cache[n] ELSE NoInst]]
  <1>1. \A u \in Threads : closing'[u] = IF u = t THEN c ELSE closing[u]
    BY DEF CloseWithKeys, TypeOK
  <1>2. /\ c.scope = Nodes /\ c.done = {} /\ c.keys = keys
        /\ \A n \in Nodes : c.todo[n] # NoInst => c.todo[n] = cache[n] /\ Selected(keys, n)
    OBVIOUS
  <1> HIDE DEF c
  <1>3. LoopOK'
    <2> SUFFICES ASSUME NEW u \in Threads, closing'[u].active
                 PROVE  /\ closing'[u].scope = Nodes
                        /\ \A n \in Nodes : closing'[u].todo[n] # NoInst =>
                             /\ n \in Declared
                             /\ (closing'[u].keys # {} => n \in closing'[u].keys)
                        /\ \A n \in closing'[u].done :
                             /\ closing'[u].todo[n] # NoInst
                             /\ built[closing'[u].todo[n]].closed > 0
                             /\ \A m \in Pending(u)' : TopoPos(m) <= TopoPos(n)
      BY DEF LoopOK, Declared, TopoPos
    <2>1. CASE u = t
      BY <1>1, <1>2, <2>1 DEF LoopInv, OnlyDeclared, Selected
    <2>2. CASE u # t
      <3>1. closing'[u] = closing[u] /\ Pending(u)' = Pending(u)
        BY <1>1, <2>2 DEF Pending, Declared
      <3> QED
        BY <3>1 DEF LoopInv, LoopOK
    <2> QED
      BY <2>1, <2>2
  <1> QED
    BY <1>3 DEF LoopInv, OnlyDeclared, Declared

LEMMA LoopCloseOne ==
  ASSUME TypeOK, LoopInv, NEW t \in Threads, NEW n \in Nodes, CloseOne(t, n)
  PROVE  LoopInv'
  <1>1. UNCHANGED <<g, cache, frame>>
    BY CloseOneEffect
  <1>2. \A i \in Instances : built'[i].closed >= built[i].closed
    <2>1. \A i \in Instances : built[i].closed \in Nat
      BY ClosedIsNat
    <2> QED
      BY <2>1, CloseOneEffect
  <1>3. built'[closing[t].todo[n]].closed > 0
    <2>1. built[closing[t].todo[n]].closed \in Nat
      BY CloseOneEffect, ClosedIsNat
    <2> QED
      BY <2>1, CloseOneEffect
  <1>4. LoopOK'
    <2> SUFFICES ASSUME NEW u \in Threads, closing[u].active
                 PROVE  /\ closing[u].scope = Nodes
                        /\ \A m \in Nodes : closing[u].todo[m] # NoInst =>
                             m \in Declared /\ (closing[u].keys # {} => m \in closing[u].keys)
                        /\ \A m \in closing'[u].done :
                             /\ closing[u].todo[m] # NoInst
                             /\ built'[closing[u].todo[m]].closed > 0
                             /\ \A k \in Pending(u)' : TopoPos(k) <= TopoPos(m)
      BY <1>1, CloseOneEffect DEF LoopOK, Declared, TopoPos
    <2>1. closing[u] \in ClosingType
      BY DEF TypeOK
    <2>2. ASSUME NEW m \in closing[u].done, closing[u].todo[m] # NoInst
          PROVE  built[closing[u].todo[m]].closed > 0 => built'[closing[u].todo[m]].closed > 0
      <3>1. PICK i : i = closing[u].todo[m]
        OBVIOUS
      <3>2. i \in Instances
        BY <2>1, <2>2, <3>1 DEF ClosingType
      <3>3. built[i].closed \in Nat
        BY <3>2, ClosedIsNat
      <3>4. built'[i].closed = built[i].closed \/ built'[i].closed = built[i].closed + 1
        BY <3>2, CloseOneEffect
      <3> QED
        BY <3>1, <3>3, <3>4
    <2>3. Pending(u)' \subseteq Pending(u)
      BY <1>1, CloseOneEffect DEF Pending, Declared
    <2>4. /\ closing[u].scope = Nodes
          /\ \A m \in Nodes : closing[u].todo[m] # NoInst =>
               m \in Declared /\ (closing[u].keys # {} => m \in closing[u].keys)
          /\ \A m \in closing[u].done :
               /\ closing[u].todo[m] # NoInst
               /\ built[closing[u].todo[m]].closed > 0
               /\ \A k \in Pending(u) : TopoPos(k) <= TopoPos(m)
      BY DEF LoopInv, LoopOK
    <2>5. CASE u = t
      <3>1. closing'[t].done = closing[t].done \union {n}
        BY CloseOneEffect
      <3>2. closing[t].todo[n] # NoInst /\ \A k \in Pending(t) : TopoPos(k) <= TopoPos(n)
        BY CloseOneEffect
      <3> QED
        BY <1>3, <2>2, <2>3, <2>4, <2>5, <3>1, <3>2
    <2>6. CASE u # t
      <3>1. closing'[u].done = closing[u].done
        BY <2>6, CloseOneEffect
      <3> QED
        BY <2>2, <2>3, <2>4, <3>1
    <2> QED
      BY <2>5, <2>6
  <1> QED
    BY <1>1, <1>4 DEF LoopInv, OnlyDeclared, Declared

LEMMA LoopFinish ==
  ASSUME TypeOK, LoopInv, NEW t \in Threads, CloseFinish(t)
  PROVE  LoopInv'
  <1>1. /\ UNCHANGED <<g, frame, built>> /\ \A m \in Nodes : cache'[m] # NoInst => cache[m] # NoInst
        /\ \A u \in Threads : closing'[u] = IF u = t THEN NoClose ELSE closing[u]
    BY DEF CloseFinish, TypeOK
  <1>2. ~NoClose.active
    BY DEF NoClose
  <1>3. LoopOK'
    <2> SUFFICES ASSUME NEW u \in Threads \ {t}, closing[u].active
                 PROVE  /\ closing[u].scope = Nodes
                        /\ \A n \in Nodes : closing[u].todo[n] # NoInst =>
                             n \in Declared /\ (closing[u].keys # {} => n \in closing[u].keys)
                        /\ \A n \in closing[u].done :
                             /\ closing[u].todo[n] # NoInst
                             /\ built[closing[u].todo[n]].closed > 0
                             /\ \A m \in Pending(u) : TopoPos(m) <= TopoPos(n)
      BY <1>1, <1>2 DEF LoopOK, Pending, TopoPos, Declared
    <2> QED
      BY DEF LoopInv, LoopOK
  <1> QED
    BY <1>1, <1>3 DEF LoopInv, OnlyDeclared, Declared

LEMMA LoopStep ==
  ASSUME IndInv, LoopInv, [Next]_vars
  PROVE  LoopInv'
  <1>1. ASSUME UNCHANGED <<g, cache, frame, built, closing>> PROVE LoopInv'
    BY <1>1, LoopQuiet DEF IndInv, QuietStep
  <1>2. ASSUME NEW t \in Threads, NEW n \in Nodes, ResolveStep(t, n) PROVE LoopInv'
    BY <1>2, ResolveEffect, LoopConstruct, LoopStore, LoopQuiet DEF IndInv
  <1>3. ASSUME NEW t \in Threads, Inside(t) PROVE LoopInv'
    BY <1>2, <1>3, BeginEffect, LoopQuiet, LoopCloseOne, LoopFinish DEF Inside, IndInv
  <1>4. ASSUME NEW t \in Threads, Close(t) PROVE LoopInv'
    BY <1>4, LoopBegin DEF Close, IndInv
  <1>5. ASSUME NEW t \in Threads, NEW ids \in CloseSets, CloseIDs(t, ids) PROVE LoopInv'
    <2>1. ids \in SUBSET Nodes
      BY InputsAssumption
    <2>2. CASE ids = {}
      BY <1>1, <1>5, <2>2 DEF CloseIDs
    <2>3. CASE ids # {}
      BY <1>5, <2>1, <2>3, LoopBegin DEF CloseIDs, IndInv
    <2> QED
      BY <2>2, <2>3
  <1>6. ASSUME NEW t \in Threads, Calls(t) PROVE LoopInv'
    BY <1>1, <1>4, <1>5, <1>6, LoopInject DEF Calls, CallResolve, IndInv
  <1> QED
    BY <1>1, <1>3, <1>6 DEF Next, Finished, vars

LEMMA InitLoopInv == Init => LoopInv
  <1> SUFFICES ASSUME Init PROVE LoopInv
    OBVIOUS
  <1>1. OnlyDeclared
    BY DEF Init, OnlyDeclared, NoFrame
  <1>2. LoopOK
    BY DEF Init, LoopOK, NoClose
  <1> QED
    BY <1>1, <1>2 DEF Init, LoopInv

LEMMA LoopInvariance == Spec => [](IndInv /\ LoopInv)
  <1>1. Init => IndInv /\ LoopInv
    BY InitIndInv, InitLoopInv
  <1>2. IndInv /\ LoopInv /\ [Next]_vars => (IndInv /\ LoopInv)'
    BY IndInvStep, LoopStep
  <1> QED
    BY <1>1, <1>2, PTL DEF Spec

\* A goroutine that closes nothing has closed nothing.
IdleOK == \A t \in Threads : closing[t].active \/ closing[t].done = {}

LEMMA IdleBegin ==
  ASSUME TypeOK, IdleOK, NEW t \in Threads, NEW keys, CloseWithKeys(t, Nodes, keys)
  PROVE  IdleOK'
  BY DEF CloseWithKeys, IdleOK, TypeOK

LEMMA IdleStep ==
  ASSUME TypeOK, IdleOK, [Next]_vars
  PROVE  IdleOK'
  <1>1. ASSUME UNCHANGED closing PROVE IdleOK'
    BY <1>1 DEF IdleOK
  <1>2. ASSUME NEW t \in Threads, NEW n \in Nodes, CloseOne(t, n) PROVE IdleOK'
    BY <1>2, CloseOneEffect DEF IdleOK
  <1>3. ASSUME NEW t \in Threads, CloseFinish(t) PROVE IdleOK'
    BY <1>3 DEF CloseFinish, NoClose, IdleOK, TypeOK
  <1>4. ASSUME NEW t \in Threads, NEW n \in Nodes, ResolveStep(t, n) PROVE UNCHANGED closing
    BY <1>4 DEF ResolveStep, Lookup, Lead, Follow, Recheck, Descend, Construct, Fail,
                Store, Leave, ReturnToParent, ReturnToCaller
  <1>5. ASSUME NEW t \in Threads, Inside(t) PROVE IdleOK'
    BY <1>1, <1>2, <1>3, <1>4, <1>5 DEF Inside, Begin
  <1>6. ASSUME NEW t \in Threads, Calls(t) PROVE IdleOK'
    BY <1>1, <1>6, IdleBegin DEF Calls, CallResolve, Inject, Close, CloseIDs
  <1> QED
    BY <1>1, <1>5, <1>6 DEF Next, Finished, vars

\* What NewContainer hands to a container: topoSort lists every node once, and
\* after all that it depends on.
Sorted(graph) ==
  /\ \A j, k \in DOMAIN graph.topo : graph.topo[j] = graph.topo[k] => j = k
  /\ \A k \in DOMAIN graph.topo : \A d \in ToSet(graph.deps[graph.topo[k]]) :
       \E j \in DOMAIN graph.topo : j < k /\ graph.topo[j] = d

LEMMA TopoPosition ==
  ASSUME g \in GraphType, NEW n \in Declared
  PROVE  TopoPos(n) \in DOMAIN g.topo /\ g.topo[TopoPos(n)] = n
  BY DEF TopoPos, Declared, ToSet

\* In a sorted graph a node stands after all that it depends on, at any depth:
\* the nodes that do not come after it contain their own dependencies.
LEMMA DependencyIsEarlier ==
  ASSUME g \in GraphType, Sorted(g), NEW m \in Declared, NEW n \in Nodes, DependsOn(m, n)
  PROVE  n \in Declared /\ TopoPos(n) < TopoPos(m)
  <1> DEFINE S == {k \in Declared : TopoPos(k) <= TopoPos(m)}
  <1>1. g.topo \in Seq(Nodes) /\ DOMAIN g.topo \subseteq Nat /\ Declared \subseteq Nodes
    BY DEF GraphType, Declared, ToSet
  <1>2. m \in S /\ S \in SUBSET Nodes
    BY <1>1, TopoPosition
  <1>3. ASSUME NEW k \in S, NEW d \in ToSet(g.deps[k])
        PROVE  d \in S
    <2>1. TopoPos(k) \in DOMAIN g.topo /\ g.topo[TopoPos(k)] = k
      BY TopoPosition
    <2>2. PICK j \in DOMAIN g.topo : j < TopoPos(k) /\ g.topo[j] = d
      BY <2>1 DEF Sorted
    <2>3. d \in Declared
      BY <2>2 DEF Declared, ToSet
    <2>4. TopoPos(d) = j
      BY <2>2, <2>3, TopoPosition DEF Sorted
    <2>5. TopoPos(m) \in Nat /\ TopoPos(k) \in Nat /\ j \in Nat
      BY <1>1, <2>1, <2>2, TopoPosition
    <2> QED
      BY <2>2, <2>3, <2>4, <2>5
  <1>4. n \in S /\ m # n
    <2> HIDE DEF S
    <2> QED
      BY <1>2, <1>3 DEF DependsOn
  <1>5. TopoPos(m) \in Nat /\ TopoPos(n) \in Nat /\ TopoPos(m) # TopoPos(n)
    BY <1>1, <1>4, TopoPosition
  <1> QED
    BY <1>4, <1>5

\* Every close, of everything or of some, closes in reverse topological order
\* (container.go:180, 185), whatever the other goroutines resolve, inject or
\* close at the same time; it rests only on the order that topoSort computes.
THEOREM ClosesInOrder ==
  ASSUME \A graph \in Graphs : Sorted(graph)
  PROVE  Spec => []ReverseTopological
  <1>1. ASSUME IndInv, LoopInv, IdleOK
        PROVE  ReverseTopological
    <2> SUFFICES ASSUME NEW t \in Threads, NEW n \in closing[t].done, NEW m \in Pending(t),
                        DependsOn(m, n)
                 PROVE  FALSE
      BY DEF ReverseTopological
    <2>1. g \in GraphType /\ Sorted(g) /\ closing[t] \in ClosingType
      BY <1>1 DEF LoopInv, IndInv, TypeOK
    <2>2. n \in Nodes /\ m \in Declared
      BY <2>1 DEF ClosingType, Pending
    <2>3. TopoPos(m) <= TopoPos(n)
      BY <1>1 DEF IdleOK, LoopInv, LoopOK
    <2>4. n \in Declared /\ TopoPos(n) < TopoPos(m)
      BY <2>1, <2>2, DependencyIsEarlier
    <2>5. TopoPos(n) \in Nat /\ TopoPos(m) \in Nat
      BY <2>1, <2>2, <2>4, TopoPosition DEF GraphType
    <2> QED
      BY <2>3, <2>4, <2>5
  <1>2. Init => IdleOK
    BY DEF Init, IdleOK, NoClose
  <1>3. IndInv /\ IdleOK /\ [Next]_vars => IdleOK'
    BY IdleStep DEF IndInv
  <1> QED
    BY <1>1, <1>2, <1>3, LoopInvariance, PTL DEF Spec

\* A finished close.
LEMMA FinishedClose ==
  ASSUME IndInv, LoopInv, NEW t \in Threads, CloseFinish(t), NEW n \in Nodes,
         closing[t].todo[n] # NoInst
  PROVE  built[closing[t].todo[n]].closed > 0 /\ cache'[n] # closing[t].todo[n]
  <1>1. closing[t].active /\ Pending(t) = {}
    BY DEF CloseFinish
  <1>2. n \in closing[t].done
    BY <1>1 DEF LoopInv, LoopOK, Pending
  <1>3. n \in Forgotten(closing[t])
    BY <1>1, <1>2 DEF LoopInv, LoopOK, Forgotten
  <1>4. cache'[n] = NoInst
    BY <1>3 DEF CloseFinish
  <1> QED
    BY <1>1, <1>2, <1>4 DEF LoopInv, LoopOK

\* Only CloseFinish ends a close.
LEMMA OnlyFinishEnds ==
  ASSUME IndInv, [Next]_vars, NEW t \in Threads, closing[t].active, ~closing'[t].active
  PROVE  CloseFinish(t)
  <1>1. closing' # closing
    OBVIOUS
  <1>2. ASSUME NEW u \in Threads, NEW keys, CloseWithKeys(u, Nodes, keys) PROVE FALSE
    BY <1>2 DEF CloseWithKeys, IndInv, TypeOK
  <1>3. ASSUME NEW u \in Threads, NEW n \in Nodes, CloseOne(u, n) PROVE FALSE
    BY <1>3, CloseOneEffect DEF IndInv
  <1>4. ASSUME NEW u \in Threads, NEW n \in Nodes, ResolveStep(u, n) PROVE UNCHANGED closing
    BY <1>4 DEF ResolveStep, Lookup, Lead, Follow, Recheck, Descend, Construct, Fail,
                Store, Leave, ReturnToParent, ReturnToCaller
  <1>5. ASSUME NEW u \in Threads, CloseFinish(u) PROVE u = t
    BY <1>5 DEF CloseFinish, IndInv, TypeOK
  <1>6. ASSUME NEW u \in Threads, Inside(u) PROVE CloseFinish(t)
    BY <1>1, <1>3, <1>4, <1>5, <1>6 DEF Inside, Begin
  <1>7. ASSUME NEW u \in Threads, Calls(u) PROVE FALSE
    BY <1>1, <1>2, <1>7 DEF Calls, CallResolve, Inject, Close, CloseIDs
  <1> QED
    BY <1>1, <1>6, <1>7 DEF Next, Finished, vars

\* When a close is over, all that it saw is closed and out of the cache
\* (container.go:232-255), although hooks fail and others resolve meanwhile.
THEOREM ClosesCompletely == Spec => CloseIsComplete
  <1>1. ASSUME IndInv, LoopInv, [Next]_vars, NEW t \in Threads,
               closing[t].active, ~closing'[t].active
        PROVE  \A n \in Nodes : closing[t].todo[n] # NoInst =>
                 /\ built[closing[t].todo[n]].closed > 0
                 /\ cache'[n] # closing[t].todo[n]
    BY <1>1, OnlyFinishEnds, FinishedClose
  <1>2. IndInv /\ LoopInv /\ [Next]_vars =>
          [\A t \in Threads :
             closing[t].active /\ ~closing'[t].active =>
               \A n \in Nodes : LET i == closing[t].todo[n]
                 IN i # NoInst => built[i].closed > 0 /\ cache'[n] # i]_vars
    BY <1>1
  <1> QED
    BY <1>2, LoopInvariance, PTL DEF Spec, CloseIsComplete

-----------------------------------------------------------------------------
(***************************************************************************)
(* One goroutine closes, and selects what it closes.  Two would close the  *)
(* same instance twice, and Close forgets what was stored while it ran.    *)
(***************************************************************************)
OneSelects ==
  /\ \A t, u \in Closers : t = u
  /\ MayClose = FALSE
  /\ Injectors = {}

\* What is cached is of its node, and open but for what a close has done.
CachedOK ==
  \A n \in Nodes : cache[n] # NoInst =>
    /\ built[cache[n]].node = n
    /\ \/ Open(cache[n])
       \/ \E t \in Threads : closing[t].active /\ n \in closing[t].done

\* What a leader is about to store is open.
HandOpen ==
  \A t \in Threads, n \in Nodes : frame[t][n].pc = "store" => Open(frame[t][n].out)

\* What a close saw in the cache stays there until it is over.
SeenOK ==
  \A t \in Threads : closing[t].active =>
    /\ t \in Closers /\ closing[t].keys # {}
    /\ \A n \in Nodes : closing[t].todo[n] # NoInst => cache[n] = closing[t].todo[n]

Handed(i, n) == \E t \in Threads : frame[t][n].pc = "store" /\ frame[t][n].out = i

\* What is open is cached, or about to be.
NoneLost ==
  \A i \in Instances : Open(i) => cache[built[i].node] = i \/ Handed(i, built[i].node)

KeepInv == MissOK /\ CachedOK /\ HandOpen /\ SeenOK /\ NoneLost /\ ClosedOnce

LEMMA CachedInstance ==
  ASSUME TypeOK, NEW n \in Nodes, cache[n] # NoInst
  PROVE  cache[n] \in Instances
  BY DEF TypeOK

LEMMA KeepQuiet ==
  ASSUME TypeOK, KeepInv, QuietStep
  PROVE  KeepInv'
  <1>1. UNCHANGED <<cache, built, closing>> /\ Instances' = Instances
    BY DEF QuietStep, Instances
  <1>2. MissOK'
    BY DEF QuietStep, KeepInv, MissOK
  <1>3. CachedOK' /\ SeenOK' /\ ClosedOnce'
    BY <1>1 DEF KeepInv, CachedOK, SeenOK, ClosedOnce, Open
  <1>4. HandOpen'
    BY DEF QuietStep, KeepInv, HandOpen, Open
  <1>5. ASSUME NEW i \in Instances, NEW n \in Nodes, Handed(i, n) PROVE Handed(i, n)'
    BY <1>5 DEF QuietStep, Handed
  <1>6. NoneLost'
    BY <1>1, <1>5, InstanceNode DEF KeepInv, NoneLost, Open
  <1> QED
    BY <1>2, <1>3, <1>4, <1>6 DEF KeepInv

LEMMA KeepConstruct ==
  ASSUME IndInv, KeepInv, NEW t \in Threads, NEW n \in Nodes, Construct(t, n)
  PROVE  KeepInv'
  <1>0. PICK new : new = Len(built) + 1
    OBVIOUS
  <1>1. /\ UNCHANGED <<g, cache, closing>> /\ frame[t][n].pc = "work"
        /\ Instances' = Instances \union {new} /\ new \notin Instances
        /\ \A i \in Instances : built'[i] = built[i]
        /\ built'[new].node = n /\ built'[new].closed = 0
        /\ frame'[t][n].pc = "store" /\ frame'[t][n].out = new
        /\ \A u \in Threads, m \in Nodes : <<u, m>> # <<t, n>> => frame'[u][m] = frame[u][m]
    BY <1>0, ConstructEffect DEF IndInv
  <1>2. MissOK'
    BY <1>1 DEF KeepInv, MissOK
  <1>3. ASSUME NEW i \in Instances PROVE Open(i)' <=> Open(i)
    BY <1>1 DEF Open
  <1>4. CachedOK'
    BY <1>1, <1>3, CachedInstance DEF KeepInv, CachedOK, Open, IndInv
  <1>5. HandOpen'
    <2> SUFFICES ASSUME NEW u \in Threads, NEW m \in Nodes, frame'[u][m].pc = "store"
                 PROVE  built'[frame'[u][m].out].closed = 0
      BY DEF HandOpen, Open
    <2>1. CASE <<u, m>> = <<t, n>>
      BY <1>1, <2>1
    <2>2. CASE <<u, m>> # <<t, n>>
      <3>1. frame'[u][m] = frame[u][m] /\ frame[u][m].out \in Instances
        BY <1>1, <2>2 DEF IndInv, HandOK
      <3> QED
        BY <1>1, <3>1 DEF KeepInv, HandOpen, Open
    <2> QED
      BY <2>1, <2>2
  <1>6. SeenOK'
    BY <1>1 DEF KeepInv, SeenOK
  <1>7. ASSUME NEW i, NEW m \in Nodes, Handed(i, m) PROVE Handed(i, m)'
    BY <1>1, <1>7 DEF Handed
  <1>8. NoneLost'
    <2> SUFFICES ASSUME NEW i \in Instances', Open(i)'
                 PROVE  \/ cache[built'[i].node] = i
                        \/ \E u \in Threads : /\ frame'[u][built'[i].node].pc = "store"
                                              /\ frame'[u][built'[i].node].out = i
      BY <1>1 DEF NoneLost, Handed
    <2>1. CASE i = new
      BY <1>1, <2>1
    <2>2. CASE i \in Instances
      <3>1. built'[i] = built[i] /\ built[i].node \in Nodes
        BY <1>1, <2>2, InstanceNode DEF IndInv
      <3> QED
        BY <1>1, <1>3, <1>7, <2>2, <3>1 DEF KeepInv, NoneLost, Handed
    <2> QED
      BY <1>1, <2>1, <2>2
  <1>9. ClosedOnce'
    BY <1>1 DEF KeepInv, ClosedOnce
  <1> QED
    BY <1>2, <1>4, <1>5, <1>6, <1>8, <1>9 DEF KeepInv

LEMMA KeepStore ==
  ASSUME IndInv, KeepInv, NEW t \in Threads, NEW n \in Nodes, Store(t, n)
  PROVE  KeepInv'
  <1> DEFINE new == frame[t][n].out
  <1>1. /\ UNCHANGED <<g, built, closing>> /\ frame[t][n].pc = "store"
        /\ new \in Instances /\ built[new].node = n /\ frame'[t][n].pc = "leave"
        /\ \A u \in Threads, m \in Nodes : <<u, m>> # <<t, n>> => frame'[u][m] = frame[u][m]
        /\ \A m \in Nodes : cache'[m] = IF m = n THEN new ELSE cache[m]
    BY StoreEffect
  <1>2. cache[n] = NoInst /\ Open(new)
    BY <1>1 DEF KeepInv, MissOK, HandOpen
  <1>3. Instances' = Instances
    BY <1>1 DEF Instances
  <1>4. MissOK'
    <2> SUFFICES ASSUME NEW u \in Threads, NEW m \in Nodes,
                        frame'[u][m].pc \in {"work", "store"}
                 PROVE  cache'[m] = NoInst
      BY DEF MissOK
    <2>1. <<u, m>> # <<t, n>>
      BY <1>1
    <2>2. frame[u][m].pc \in {"work", "store"}
      BY <1>1, <2>1
    <2>3. m # n
      BY <1>1, <2>1, <2>2 DEF IndInv, FlightOwner, Leads, LeaderPCs
    <2> QED
      BY <1>1, <2>2, <2>3 DEF KeepInv, MissOK
  <1> HIDE DEF new
  <1>5. CachedOK'
    BY <1>1, <1>2 DEF KeepInv, CachedOK, Open
  <1>6. HandOpen'
    BY <1>1 DEF KeepInv, HandOpen, Open
  <1>7. SeenOK'
    BY <1>1, <1>2 DEF KeepInv, SeenOK
  <1>8. ASSUME NEW i \in Instances, NEW m \in Nodes, Handed(i, m), m # n \/ i # new
        PROVE  Handed(i, m)'
    <2>1. PICK u \in Threads : frame[u][m].pc = "store" /\ frame[u][m].out = i
      BY <1>8 DEF Handed
    <2>2. <<u, m>> # <<t, n>>
      BY <1>8, <2>1 DEF new
    <2> QED
      BY <1>1, <2>1, <2>2 DEF Handed
  <1>9. NoneLost'
    <2> SUFFICES ASSUME NEW i \in Instances, Open(i)
                 PROVE  cache'[built[i].node] = i \/ Handed(i, built[i].node)'
      BY <1>1, <1>3 DEF NoneLost, Open, Handed
    <2>1. built[i].node \in Nodes /\ i # NoInst
      BY InstanceNode DEF IndInv
    <2>2. cache[built[i].node] = i \/ Handed(i, built[i].node)
      BY DEF KeepInv, NoneLost
    <2>3. CASE i = new
      BY <1>1, <2>3
    <2>4. CASE i # new
      BY <1>1, <1>2, <1>8, <2>1, <2>2, <2>4
    <2> QED
      BY <2>3, <2>4
  <1>10. ClosedOnce'
    BY <1>1, <1>3 DEF KeepInv, ClosedOnce
  <1> QED
    BY <1>4, <1>5, <1>6, <1>7, <1>9, <1>10 DEF KeepInv

\* A close finds open what it is about to close.
LEMMA PendingIsOpen ==
  ASSUME OneSelects, TypeOK, KeepInv, NEW t \in Threads, closing[t].active,
         NEW n \in Pending(t)
  PROVE  /\ n \in Nodes /\ cache[n] = closing[t].todo[n] /\ cache[n] # NoInst
         /\ built[cache[n]].node = n /\ Open(cache[n])
  <1>1. n \in Nodes /\ closing[t].todo[n] # NoInst /\ n \notin closing[t].done
    BY DEF Pending, Declared, TypeOK, GraphType, ToSet
  <1>2. cache[n] = closing[t].todo[n]
    BY <1>1 DEF KeepInv, SeenOK
  <1>3. \A u \in Threads : closing[u].active => u = t
    BY DEF OneSelects, KeepInv, SeenOK
  <1> QED
    BY <1>1, <1>2, <1>3 DEF KeepInv, CachedOK

LEMMA KeepCloseOne ==
  ASSUME OneSelects, IndInv, KeepInv, NEW t \in Threads, NEW n \in Nodes, CloseOne(t, n)
  PROVE  KeepInv'
  <1> DEFINE old == closing[t].todo[n]
  <1>1. /\ UNCHANGED <<g, cache, frame>> /\ closing[t].active /\ n \in Pending(t)
        /\ old \in Instances /\ old # NoInst /\ Instances' = Instances
        /\ \A i \in Instances : built'[i].node = built[i].node
        /\ \A i \in Instances : built'[i].closed =
             IF i = old THEN built[i].closed + 1 ELSE built[i].closed
        /\ \A u \in Threads : closing'[u].todo = closing[u].todo
                           /\ closing'[u].active = closing[u].active
                           /\ closing'[u].keys = closing[u].keys
        /\ closing'[t].done = closing[t].done \union {n}
        /\ \A u \in Threads \ {t} : closing'[u] = closing[u]
    BY CloseOneEffect DEF IndInv
  <1>2. cache[n] = old /\ built[old].node = n /\ Open(old)
    BY <1>1, PendingIsOpen DEF IndInv
  <1> HIDE DEF old
  <1>3. MissOK'
    BY <1>1 DEF KeepInv, MissOK
  <1>4. \A u \in Threads : closing[u].done \subseteq closing'[u].done
    BY <1>1
  <1>5. CachedOK'
    <2> SUFFICES ASSUME NEW m \in Nodes, cache[m] # NoInst
                 PROVE  /\ built'[cache[m]].node = m
                        /\ \/ Open(cache[m])'
                           \/ \E u \in Threads : closing'[u].active /\ m \in closing'[u].done
      BY <1>1 DEF CachedOK, Open
    <2>1. cache[m] \in Instances
      BY CachedInstance DEF IndInv
    <2>2. built[cache[m]].node = m /\ built'[cache[m]].node = m
      BY <1>1, <2>1 DEF KeepInv, CachedOK
    <2>3. CASE m = n
      BY <1>1, <2>2, <2>3
    <2>4. CASE m # n
      <3>1. cache[m] # old
        BY <1>2, <2>2, <2>4
      <3>2. Open(cache[m]) => Open(cache[m])'
        BY <1>1, <2>1, <3>1 DEF Open
      <3> QED
        BY <1>1, <1>4, <2>2, <3>2 DEF KeepInv, CachedOK
    <2> QED
      BY <2>3, <2>4
  <1>6. HandOpen'
    <2> SUFFICES ASSUME NEW u \in Threads, NEW m \in Nodes, frame[u][m].pc = "store"
                 PROVE  built'[frame[u][m].out].closed = 0
      BY <1>1 DEF HandOpen, Open
    <2>1. /\ frame[u][m].out \in Instances /\ built[frame[u][m].out].node = m
          /\ built[frame[u][m].out].closed = 0 /\ cache[m] = NoInst
      BY DEF IndInv, HandOK, KeepInv, HandOpen, Open, MissOK
    <2>2. frame[u][m].out # old
      BY <1>1, <1>2, <2>1
    <2> QED
      BY <1>1, <2>1, <2>2
  <1>7. SeenOK'
    BY <1>1 DEF KeepInv, SeenOK
  <1>8. \A i \in Instances : built[i].closed \in Nat
    BY ClosedIsNat DEF IndInv
  <1>9. NoneLost'
    <2>1. ASSUME NEW i \in Instances, Open(i)' PROVE Open(i)
      BY <1>1, <1>2, <1>8, <2>1 DEF Open
    <2> QED
      BY <1>1, <2>1 DEF KeepInv, NoneLost, Handed
  <1>10. ClosedOnce'
    BY <1>1, <1>2 DEF KeepInv, ClosedOnce, Open
  <1> QED
    BY <1>3, <1>5, <1>6, <1>7, <1>9, <1>10 DEF KeepInv

LEMMA KeepFinish ==
  ASSUME OneSelects, IndInv, LoopInv, KeepInv, NEW t \in Threads, CloseFinish(t)
  PROVE  KeepInv'
  <1>1. /\ UNCHANGED <<g, frame, built>> /\ Instances' = Instances /\ closing[t].active
        /\ \A u \in Threads : closing'[u] = IF u = t THEN NoClose ELSE closing[u]
    BY DEF CloseFinish, Instances, IndInv, TypeOK
  <1>2. /\ closing[t].keys # {} /\ closing[t] \in ClosingType
        /\ \A u \in Threads : closing[u].active => u = t
    BY <1>1 DEF OneSelects, KeepInv, SeenOK, IndInv, TypeOK
  <1>3. \A m \in Nodes : cache'[m] = IF m \in closing[t].done THEN NoInst ELSE cache[m]
    BY <1>2 DEF CloseFinish, Forgotten
  <1>4. ~NoClose.active
    BY DEF NoClose
  <1>5. MissOK'
    BY <1>1, <1>3 DEF KeepInv, MissOK
  <1>6. CachedOK'
    <2> SUFFICES ASSUME NEW m \in Nodes, m \notin closing[t].done, cache[m] # NoInst
                 PROVE  built[cache[m]].node = m /\ Open(cache[m])
      BY <1>1, <1>3 DEF CachedOK, Open
    <2> QED
      BY <1>2 DEF KeepInv, CachedOK
  <1>7. HandOpen'
    BY <1>1 DEF KeepInv, HandOpen, Open
  <1>8. SeenOK'
    BY <1>1, <1>2, <1>4 DEF SeenOK
  <1>9. NoneLost'
    <2> SUFFICES ASSUME NEW i \in Instances, Open(i)
                 PROVE  cache'[built[i].node] = i \/ Handed(i, built[i].node)
      BY <1>1 DEF NoneLost, Open, Handed
    <2>1. built[i].node \in Nodes
      BY InstanceNode DEF IndInv
    <2>2. cache[built[i].node] = i \/ Handed(i, built[i].node)
      BY DEF KeepInv, NoneLost
    <2>3. CASE cache[built[i].node] = i /\ built[i].node \in closing[t].done
      <3>1. /\ closing[t].todo[built[i].node] # NoInst
            /\ built[closing[t].todo[built[i].node]].closed > 0
        BY <1>1, <2>3 DEF LoopInv, LoopOK
      <3>2. cache[built[i].node] = closing[t].todo[built[i].node]
        BY <1>1, <2>1, <3>1 DEF KeepInv, SeenOK
      <3>3. built[i].closed > 0
        BY <2>3, <3>1, <3>2
      <3> QED
        BY <3>3 DEF Open
    <2> QED
      BY <1>3, <2>1, <2>2, <2>3
  <1>10. ClosedOnce'
    BY <1>1 DEF KeepInv, ClosedOnce
  <1> QED
    BY <1>5, <1>6, <1>7, <1>8, <1>9, <1>10 DEF KeepInv

LEMMA KeepBegin ==
  ASSUME OneSelects, TypeOK, KeepInv, NEW t \in Closers, NEW keys \in SUBSET Nodes, keys # {},
         ~closing[t].active, CloseWithKeys(t, Nodes, keys), UNCHANGED <<g, cache, frame, built>>
  PROVE  KeepInv'
  <1> DEFINE todo == [n \in Nodes |-> IF n \in Nodes /\ Selected(keys, n)
                                        THEN cache[n] ELSE NoInst]
             c == [active |-> TRUE, scope |-> Nodes, keys |-> keys, errs |-> {},
                   done |-> {}, todo |-> todo]
  <1>1. /\ t \in Threads /\ \A u \in Threads : closing'[u] = IF u = t THEN c ELSE closing[u]
        /\ Instances' = Instances
    BY RolesAssumption DEF CloseWithKeys, TypeOK, Instances
  <1>2. /\ c.keys # {}
        /\ \A n \in Nodes : c.todo[n] # NoInst => c.todo[n] = cache[n]
    OBVIOUS
  <1> HIDE DEF c
  <1>3. \A u \in Threads : ~closing[u].active
    BY DEF OneSelects, KeepInv, SeenOK
  <1>4. MissOK' /\ HandOpen'
    BY DEF KeepInv, MissOK, HandOpen, Open
  <1>5. CachedOK'
    BY <1>3 DEF KeepInv, CachedOK, Open
  <1>6. SeenOK'
    BY <1>1, <1>2, <1>3 DEF SeenOK
  <1>7. NoneLost' /\ ClosedOnce'
    BY <1>1 DEF KeepInv, NoneLost, ClosedOnce, Open, Handed
  <1> QED
    BY <1>4, <1>5, <1>6, <1>7 DEF KeepInv

LEMMA KeepStep ==
  ASSUME OneSelects, IndInv, LoopInv, KeepInv, [Next]_vars
  PROVE  KeepInv'
  <1>1. ASSUME UNCHANGED <<g, cache, frame, built, closing>> PROVE KeepInv'
    BY <1>1, KeepQuiet DEF IndInv, QuietStep
  <1>2. ASSUME NEW t \in Threads, NEW n \in Nodes, ResolveStep(t, n) PROVE KeepInv'
    BY <1>2, ResolveEffect, KeepConstruct, KeepStore, KeepQuiet DEF IndInv
  <1>3. ASSUME NEW t \in Threads, Inside(t) PROVE KeepInv'
    BY <1>2, <1>3, BeginEffect, KeepQuiet, KeepCloseOne, KeepFinish DEF Inside, IndInv
  <1>4. ASSUME NEW t \in Threads, NEW ids \in CloseSets, CloseIDs(t, ids) PROVE KeepInv'
    <2>1. ids \in SUBSET Nodes /\ t \in Closers /\ ~closing[t].active
      BY <1>4, InputsAssumption DEF CloseIDs, Idle
    <2>2. CASE ids = {}
      BY <1>1, <1>4, <2>2 DEF CloseIDs
    <2>3. CASE ids # {}
      BY <1>4, <2>1, <2>3, KeepBegin DEF CloseIDs, IndInv
    <2> QED
      BY <2>2, <2>3
  <1>5. ASSUME NEW t \in Threads, Calls(t) PROVE KeepInv'
    BY <1>1, <1>4, <1>5 DEF Calls, CallResolve, Inject, Close, OneSelects
  <1> QED
    BY <1>1, <1>3, <1>5 DEF Next, Finished, vars

LEMMA InitKeepInv == Init => KeepInv
  <1> SUFFICES ASSUME Init PROVE KeepInv
    OBVIOUS
  <1>1. Instances = {} /\ \A t \in Threads : ~closing[t].active
    BY DEF Init, Instances, NoClose
  <1>2. \A n \in Nodes : cache[n] = NoInst /\ \A t \in Threads : frame[t][n].pc = "none"
    BY DEF Init, NoFrame
  <1> QED
    BY <1>1, <1>2 DEF KeepInv, MissOK, CachedOK, HandOpen, SeenOK, NoneLost, ClosedOnce

LEMMA KeepInvariance ==
  ASSUME OneSelects
  PROVE  Spec => [](IndInv /\ KeepInv)
  <1>1. Init => KeepInv
    BY InitKeepInv
  <1>2. IndInv /\ LoopInv /\ KeepInv /\ [Next]_vars => KeepInv'
    BY KeepStep
  <1> QED
    BY <1>1, <1>2, LoopInvariance, PTL DEF Spec

\* Closing selected resources while others are resolved loses no instance
\* (container.go:205-255): one that is open is in the cache, or about to be.
THEOREM ClosingLosesNothing ==
  ASSUME OneSelects
  PROVE  Spec => []NothingLost
  <1>1. NoneLost => NothingLost
    BY DEF NoneLost, NothingLost, Held, InHand, Handed
  <1> QED
    BY <1>1, KeepInvariance, PTL DEF KeepInv

\* And no close hook runs twice on one instance (container.go:219-245).
THEOREM HooksRunOnce ==
  ASSUME OneSelects
  PROVE  Spec => []ClosedOnce
  BY KeepInvariance, PTL DEF KeepInv

\* And a resource that is resolved while it is being closed never has two
\* open instances (container.go:24-25).
THEOREM OneIsOpen ==
  ASSUME OneSelects
  PROVE  Spec => []AtMostOneOpen
  <1>1. ASSUME IndInv, KeepInv PROVE AtMostOneOpen
    <2> SUFFICES ASSUME NEW n \in Nodes
                 PROVE  Cardinality(OpenInstances(n)) <= 1
      BY DEF AtMostOneOpen
    <2>1. ASSUME NEW i \in OpenInstances(n), NEW j \in OpenInstances(n) PROVE i = j
      <3>1. /\ i \in Instances /\ j \in Instances /\ i # NoInst /\ j # NoInst
            /\ cache[n] = i \/ Handed(i, n)
            /\ cache[n] = j \/ Handed(j, n)
        BY <1>1, InstanceNode DEF OpenInstances, KeepInv, NoneLost, IndInv
      <3>2. CASE cache[n] = i \/ cache[n] = j
        BY <1>1, <3>1, <3>2 DEF KeepInv, MissOK, Handed
      <3>3. CASE Handed(i, n) /\ Handed(j, n)
        BY <1>1, <3>3 DEF Handed, IndInv, FlightOwner, Leads, LeaderPCs
      <3> QED
        BY <3>1, <3>2, <3>3
    <2>2. CASE OpenInstances(n) = {}
      BY <2>2, FS_EmptySet
    <2>3. CASE OpenInstances(n) # {}
      <3>1. PICK i : i \in OpenInstances(n)
        BY <2>3
      <3>2. OpenInstances(n) = {i}
        BY <2>1, <3>1
      <3> QED
        BY <3>2, FS_Singleton
    <2> QED
      BY <2>2, <2>3
  <1> QED
    BY <1>1, KeepInvariance, PTL

-----------------------------------------------------------------------------
(***************************************************************************)
(* One goroutine resolves, injects and closes in turn.  A second one could *)
(* wire what it has read from the cache into a new resource after a close  *)
(* has closed it, and nothing in container.go prevents that.               *)
(***************************************************************************)

\* One goroutine makes all the calls.
OneThread == \A t, u \in Threads : t = u

\* A Build resolves no more than its definition declares, the order is that of
\* topoSort, and who closes a resource closes what is wired to it as well.
OneCaller ==
  /\ OneThread
  /\ \A graph \in Graphs :
       /\ Sorted(graph)
       /\ \A n \in ToSet(graph.topo) : ToSet(graph.uses[n]) \subseteq ToSet(graph.deps[n])
       /\ \A ids \in CloseSets : \A m \in ToSet(graph.topo) :
            ToSet(graph.uses[m]) \intersect ids # {} => m \in ids

\* A close is alone, and selects from what is cached.
AloneOK ==
  \A t \in Threads : closing[t].active =>
    /\ batch[t] = <<>>
    /\ closing[t].keys # {} => closing[t].keys \in CloseSets
    /\ \A n \in Nodes : Selected(closing[t].keys, n) => closing[t].todo[n] = cache[n]

\* Nobody closes while a call runs.
LEMMA CallIsAlone ==
  ASSUME OneThread, AloneOK, NEW t \in Threads, batch[t] # <<>>
  PROVE  \A u \in Threads : ~closing[u].active
  BY DEF OneThread, AloneOK

LEMMA CloseIsAlone ==
  ASSUME OneThread, IndInv, AloneOK, NEW t \in Threads, closing[t].active
  PROVE  \A u \in Threads, n \in Nodes : path[u] = <<>> /\ frame[u][n].pc = "none"
  <1>1. path[t] = <<>> /\ ToSet(path[t]) = {}
    BY DEF AloneOK, IndInv, PathOK, ToSet
  <1>2. \A n \in Nodes : frame[t][n].pc = "none"
    BY <1>1 DEF IndInv, PathOK
  <1> QED
    BY <1>1, <1>2 DEF OneThread

\* A thread that is idle is all there is.
LEMMA IdleIsAlone ==
  ASSUME OneThread, NEW t \in Threads, Idle(t)
  PROVE  \A u \in Threads : ~closing[u].active /\ batch[u] = <<>>
  BY DEF OneThread, Idle

LEMMA AloneCall ==
  ASSUME OneThread, IndInv, NEW t \in Threads, Begin(t) \/ \E n \in Nodes : ResolveStep(t, n)
  PROVE  batch[t] # <<>> /\ closing' = closing
  <1>1. CASE Begin(t)
    BY <1>1 DEF Begin
  <1>2. CASE \E n \in Nodes : ResolveStep(t, n)
    <2>1. path[t] # <<>> /\ closing' = closing
      BY <1>2 DEF ResolveStep, Lookup, Lead, Follow, Recheck, Descend, Construct, Fail,
                  Store, Leave, ReturnToParent, ReturnToCaller, At
    <2> QED
      BY <2>1 DEF IndInv, PathOK
  <1> QED
    BY <1>1, <1>2

LEMMA AloneBeginClose ==
  ASSUME OneThread, IndInv, NEW t \in Threads, Idle(t), NEW keys \in SUBSET Nodes,
         keys # {} => keys \in CloseSets, CloseWithKeys(t, Nodes, keys),
         UNCHANGED <<cache, batch>>
  PROVE  AloneOK'
  <1>1. PICK todo : todo = [n \in Nodes |-> IF n \in Nodes /\ Selected(keys, n)
                                              THEN cache[n] ELSE NoInst]
    OBVIOUS
  <1>2. PICK c : c = [active |-> TRUE, scope |-> Nodes, keys |-> keys, errs |-> {},
                      done |-> {}, todo |-> todo]
    OBVIOUS
  <1>3. \A u \in Threads : closing'[u] = IF u = t THEN c ELSE closing[u]
    BY <1>1, <1>2 DEF CloseWithKeys, IndInv, TypeOK
  <1>4. c.keys = keys /\ \A n \in Nodes : Selected(keys, n) => c.todo[n] = cache[n]
    BY <1>1, <1>2
  <1>5. \A u \in Threads : u = t /\ batch[u] = <<>>
    BY IdleIsAlone DEF OneThread
  <1> QED
    BY <1>3, <1>4, <1>5 DEF AloneOK, Selected

LEMMA AloneStep ==
  ASSUME OneThread, IndInv, AloneOK, [Next]_vars
  PROVE  AloneOK'
  <1>1. ASSUME UNCHANGED <<cache, batch, closing>> PROVE AloneOK'
    BY <1>1 DEF AloneOK
  <1>2. ASSUME NEW t \in Threads, Idle(t) \/ batch[t] # <<>>, closing' = closing
        PROVE  AloneOK'
    BY <1>2, CallIsAlone, IdleIsAlone DEF AloneOK
  <1>3. ASSUME NEW t \in Threads, NEW n \in Nodes, CloseOne(t, n) PROVE AloneOK'
    <2>1. /\ UNCHANGED <<cache, batch>>
          /\ \A u \in Threads : closing'[u].todo = closing[u].todo
                             /\ closing'[u].active = closing[u].active
                             /\ closing'[u].keys = closing[u].keys
      BY <1>3, CloseOneEffect DEF CloseOne, IndInv
    <2> QED
      BY <2>1 DEF AloneOK
  <1>4. ASSUME NEW t \in Threads, CloseFinish(t) PROVE AloneOK'
    <2>1. \A u \in Threads : u = t /\ closing'[u] = NoClose
      BY <1>4 DEF CloseFinish, IndInv, TypeOK, OneThread
    <2> QED
      BY <2>1 DEF AloneOK, NoClose
  <1>5. ASSUME NEW t \in Threads, Inside(t) PROVE AloneOK'
    BY <1>2, <1>3, <1>4, <1>5, AloneCall DEF Inside
  <1>6. ASSUME NEW t \in Threads, Close(t) PROVE AloneOK'
    <2>1. PICK keys \in SUBSET Nodes : keys = {}
      OBVIOUS
    <2>2. CloseWithKeys(t, Nodes, keys) /\ Idle(t) /\ UNCHANGED <<cache, batch>>
      BY <1>6, <2>1 DEF Close
    <2> QED
      BY <2>1, <2>2, AloneBeginClose
  <1>7. ASSUME NEW t \in Threads, NEW ids \in CloseSets, CloseIDs(t, ids) PROVE AloneOK'
    <2>1. ids \in SUBSET Nodes /\ Idle(t) /\ UNCHANGED <<cache, batch>>
      BY <1>7, InputsAssumption DEF CloseIDs
    <2>2. closing' = closing \/ CloseWithKeys(t, Nodes, ids)
      BY <1>7 DEF CloseIDs
    <2> QED
      BY <1>1, <2>1, <2>2, AloneBeginClose
  <1>8. ASSUME NEW t \in Threads, Calls(t) PROVE AloneOK'
    BY <1>2, <1>6, <1>7, <1>8 DEF Calls, CallResolve, Inject
  <1> QED
    BY <1>1, <1>5, <1>8 DEF Next, Finished, vars

LEMMA InitAloneOK == Init => AloneOK
  BY DEF Init, AloneOK, NoClose

-----------------------------------------------------------------------------
\* An instance that InjectResolved has put another in the place of.
Replaced(i) ==
  \E j \in Instances : j > i /\ built[j].given /\ built[j].node = built[i].node

\* What is open is cached, or about to be, or replaced.
LostOK ==
  \A i \in Instances : Open(i) =>
    cache[built[i].node] = i \/ Handed(i, built[i].node) \/ Replaced(i)

LostInv == AloneOK /\ MissOK /\ LostOK

\* What is replaced stays so.
LEMMA ReplacedStays ==
  ASSUME TypeOK, Instances \subseteq Instances',
         \A i \in Instances : built'[i].node = built[i].node /\ built'[i].given = built[i].given,
         NEW i \in Instances, Replaced(i)
  PROVE  Replaced(i)'
  BY DEF Replaced

LEMMA LostQuiet ==
  ASSUME TypeOK, MissOK, LostOK, QuietStep
  PROVE  MissOK' /\ LostOK'
  <1>1. UNCHANGED <<cache, built>> /\ Instances' = Instances
    BY DEF QuietStep, Instances
  <1>2. MissOK'
    BY DEF QuietStep, MissOK
  <1>3. ASSUME NEW i \in Instances, NEW n \in Nodes, Handed(i, n) PROVE Handed(i, n)'
    BY <1>3 DEF QuietStep, Handed
  <1>4. LostOK'
    BY <1>1, <1>3, InstanceNode DEF LostOK, Open, Replaced
  <1> QED
    BY <1>2, <1>4

LEMMA LostConstruct ==
  ASSUME IndInv, MissOK, LostOK, NEW t \in Threads, NEW n \in Nodes, Construct(t, n)
  PROVE  MissOK' /\ LostOK'
  <1>0. PICK new : new = Len(built) + 1
    OBVIOUS
  <1>1. /\ UNCHANGED <<g, cache, closing>> /\ frame[t][n].pc = "work"
        /\ Instances' = Instances \union {new}
        /\ \A i \in Instances : built'[i] = built[i]
        /\ built'[new].node = n
        /\ frame'[t][n].pc = "store" /\ frame'[t][n].out = new
        /\ \A u \in Threads, m \in Nodes : <<u, m>> # <<t, n>> => frame'[u][m] = frame[u][m]
    BY <1>0, ConstructEffect DEF IndInv
  <1>2. MissOK'
    BY <1>1 DEF MissOK
  <1>3. ASSUME NEW i, NEW m \in Nodes, Handed(i, m) PROVE Handed(i, m)'
    BY <1>1, <1>3 DEF Handed
  <1>4. LostOK'
    <2> SUFFICES ASSUME NEW i \in Instances', Open(i)'
                 PROVE  \/ cache[built'[i].node] = i
                        \/ \E u \in Threads : /\ frame'[u][built'[i].node].pc = "store"
                                              /\ frame'[u][built'[i].node].out = i
                        \/ Replaced(i)'
      BY <1>1 DEF LostOK, Handed
    <2>1. CASE i = new
      BY <1>1, <2>1
    <2>2. CASE i \in Instances
      <3>1. built'[i] = built[i] /\ built[i].node \in Nodes
        BY <1>1, <2>2, InstanceNode DEF IndInv
      <3>2. cache[built[i].node] = i \/ Handed(i, built[i].node) \/ Replaced(i)
        BY <2>2, <3>1 DEF LostOK, Open
      <3>3. Replaced(i) => Replaced(i)'
        BY <1>1, <2>2, ReplacedStays DEF IndInv
      <3> QED
        BY <1>3, <3>1, <3>2, <3>3 DEF Handed
    <2> QED
      BY <1>1, <2>1, <2>2
  <1> QED
    BY <1>2, <1>4

LEMMA LostStore ==
  ASSUME IndInv, MissOK, LostOK, NEW t \in Threads, NEW n \in Nodes, Store(t, n)
  PROVE  MissOK' /\ LostOK'
  <1>0. PICK new : new = frame[t][n].out
    OBVIOUS
  <1>1. /\ built' = built /\ frame[t][n].pc = "store" /\ frame'[t][n].pc = "leave"
        /\ built[new].node = n /\ Instances' = Instances
        /\ \A u \in Threads, m \in Nodes : <<u, m>> # <<t, n>> => frame'[u][m] = frame[u][m]
        /\ \A m \in Nodes : cache'[m] = IF m = n THEN new ELSE cache[m]
    BY <1>0, StoreEffect DEF Instances
  <1>2. cache[n] = NoInst
    BY <1>1 DEF MissOK
  <1>3. MissOK'
    <2> SUFFICES ASSUME NEW u \in Threads, NEW m \in Nodes,
                        frame'[u][m].pc \in {"work", "store"}
                 PROVE  cache'[m] = NoInst
      BY DEF MissOK
    <2>1. frame[u][m].pc \in {"work", "store"} /\ <<u, m>> # <<t, n>>
      BY <1>1
    <2>2. m # n
      BY <1>1, <2>1 DEF IndInv, FlightOwner, Leads, LeaderPCs
    <2> QED
      BY <1>1, <2>1, <2>2 DEF MissOK
  <1>4. ASSUME NEW i \in Instances, NEW m \in Nodes, Handed(i, m), m # n \/ i # new
        PROVE  Handed(i, m)'
    <2>1. PICK u \in Threads : frame[u][m].pc = "store" /\ frame[u][m].out = i
      BY <1>4 DEF Handed
    <2>2. <<u, m>> # <<t, n>>
      BY <1>0, <1>4, <2>1
    <2> QED
      BY <1>1, <2>1, <2>2 DEF Handed
  <1>5. LostOK'
    <2> SUFFICES ASSUME NEW i \in Instances, Open(i)
                 PROVE  cache'[built[i].node] = i \/ Handed(i, built[i].node)' \/ Replaced(i)
      BY <1>1 DEF LostOK, Open, Handed, Replaced
    <2>1. built[i].node \in Nodes /\ i # NoInst
      BY InstanceNode DEF IndInv
    <2>2. cache[built[i].node] = i \/ Handed(i, built[i].node) \/ Replaced(i)
      BY DEF LostOK
    <2>3. CASE i = new
      BY <1>1, <2>3
    <2>4. CASE i # new
      BY <1>1, <1>2, <1>4, <2>1, <2>2, <2>4
    <2> QED
      BY <2>3, <2>4
  <1> QED
    BY <1>3, <1>5

\* The instance that is injected takes the place of an earlier one.
LEMMA LostInject ==
  ASSUME OneThread, IndInv, MissOK, LostOK, NEW t \in Threads, NEW n \in Nodes, Inject(t, n)
  PROVE  MissOK' /\ LostOK'
  <1>0. PICK new, e : /\ new = Len(built) + 1
                      /\ e = [node |-> n, uses |-> {}, given |-> TRUE, closed |-> 0]
    OBVIOUS
  <1>1. frame' = frame /\ path[t] = <<>> /\ ToSet(path[t]) = {}
    BY DEF Inject, Idle, ToSet
  <1>2. \A u \in Threads, m \in Nodes : frame[u][m].pc = "none"
    BY <1>1 DEF IndInv, PathOK, OneThread
  <1>3. MissOK'
    BY <1>1, <1>2 DEF MissOK
  <1>4. CASE UNCHANGED <<built, cache>>
    BY <1>1, <1>3, <1>4 DEF LostOK, Open, Handed, Replaced, Instances
  <1>5. CASE /\ built' = Append(built, e)
             /\ cache' = [cache EXCEPT ![n] = new]
    <2>1. built \in Seq(InstanceType) /\ e \in InstanceType /\ e.node = n /\ e.given
      BY <1>0 DEF IndInv, TypeOK, InstanceType
    <2>2. /\ Instances' = Instances \union {new} /\ new \notin Instances
          /\ \A i \in Instances : built'[i] = built[i] /\ new > i
          /\ built'[new] = e
      BY <1>0, <1>5, <2>1, NewInstance DEF Instances
    <2>3. \A m \in Nodes : cache'[m] = IF m = n THEN new ELSE cache[m]
      BY <1>5 DEF IndInv, TypeOK
    <2>4. ASSUME NEW i \in Instances', Open(i)'
          PROVE  cache'[built'[i].node] = i \/ Replaced(i)'
      <3>1. CASE i = new
        BY <2>1, <2>2, <2>3, <3>1
      <3>2. CASE i \in Instances
        <4>1. built'[i] = built[i] /\ built[i].node \in Nodes
          BY <2>2, <3>2, InstanceNode DEF IndInv
        <4>2. cache[built[i].node] = i \/ Replaced(i)
          BY <1>2, <2>4, <3>2, <4>1 DEF LostOK, Open, Handed
        <4>3. Replaced(i) => Replaced(i)'
          BY <2>2, <3>2, ReplacedStays DEF IndInv
        <4>4. CASE built[i].node = n
          BY <2>1, <2>2, <3>2, <4>1, <4>4 DEF Replaced
        <4> QED
          BY <2>3, <4>1, <4>2, <4>3, <4>4
      <3> QED
        BY <2>2, <3>1, <3>2
    <2> QED
      BY <1>3, <2>4 DEF LostOK
  <1> QED
    BY <1>0, <1>4, <1>5 DEF Inject

LEMMA LostCloseOne ==
  ASSUME IndInv, MissOK, LostOK, NEW t \in Threads, NEW n \in Nodes, CloseOne(t, n)
  PROVE  MissOK' /\ LostOK'
  <1>1. /\ UNCHANGED <<cache, frame>> /\ Instances' = Instances
        /\ \A i \in Instances : built'[i].node = built[i].node /\ built'[i].given = built[i].given
        /\ \A i \in Instances : built'[i].closed \in {built[i].closed, built[i].closed + 1}
    BY CloseOneEffect DEF IndInv
  <1>2. \A i \in Instances : built[i].closed \in Nat
    BY ClosedIsNat DEF IndInv
  <1>3. ASSUME NEW i \in Instances, Open(i)' PROVE Open(i)
    BY <1>1, <1>2, <1>3 DEF Open
  <1>4. LostOK'
    BY <1>1, <1>3, ReplacedStays DEF LostOK, Handed, IndInv
  <1>5. MissOK'
    BY <1>1 DEF MissOK
  <1> QED
    BY <1>4, <1>5

\* What a close drops from the cache it has closed.
LEMMA LostFinish ==
  ASSUME IndInv, LoopInv, LostInv, NEW t \in Threads, CloseFinish(t)
  PROVE  MissOK' /\ LostOK'
  <1>1. /\ UNCHANGED <<g, frame, built>> /\ Instances' = Instances /\ closing[t].active
        /\ Pending(t) = {}
    BY DEF CloseFinish, Instances
  <1>2. /\ closing[t] \in ClosingType /\ closing[t].scope = Nodes
        /\ \A m \in Nodes : cache'[m] = IF m \in Forgotten(closing[t]) THEN NoInst ELSE cache[m]
    BY <1>1 DEF CloseFinish, IndInv, TypeOK, LoopInv, LoopOK
  <1>3. MissOK'
    BY <1>1, <1>2 DEF LostInv, MissOK
  <1>4. ASSUME NEW i \in Instances, Open(i), NEW m \in Nodes, cache[m] = i PROVE cache'[m] = i
    <2> SUFFICES ASSUME m \in Forgotten(closing[t]) PROVE FALSE
      BY <1>2, <1>4
    <2>1. i # NoInst
      BY InstanceNode DEF IndInv
    <2>2. closing[t].keys # {} => m \in closing[t].keys /\ m \in closing[t].done
      BY <1>1 DEF Forgotten, LoopInv, LoopOK
    <2>3. closing[t].todo[m] = i
      BY <1>1, <1>4, <2>2 DEF LostInv, AloneOK, Selected
    <2>4. m \in Declared
      BY <1>4, <2>1 DEF LoopInv, OnlyDeclared
    <2>5. m \in closing[t].done
      BY <1>1, <2>1, <2>3, <2>4 DEF Pending
    <2>6. built[i].closed > 0
      BY <1>1, <2>3, <2>5 DEF LoopInv, LoopOK
    <2> QED
      BY <1>4, <2>6 DEF Open
  <1>5. LostOK'
    BY <1>1, <1>4, InstanceNode DEF LostInv, LostOK, Open, Handed, Replaced, IndInv
  <1> QED
    BY <1>3, <1>5

LEMMA LostStep ==
  ASSUME OneThread, IndInv, LoopInv, LostInv, [Next]_vars
  PROVE  LostInv'
  <1>1. AloneOK'
    BY AloneStep DEF LostInv
  <1>2. ASSUME UNCHANGED <<g, cache, frame, built>> PROVE MissOK' /\ LostOK'
    BY <1>2 DEF LostInv, MissOK, LostOK, Open, Handed, Replaced, Instances
  <1>3. ASSUME NEW t \in Threads, NEW n \in Nodes, ResolveStep(t, n) PROVE MissOK' /\ LostOK'
    BY <1>3, ResolveEffect, LostConstruct, LostStore, LostQuiet DEF IndInv, LostInv
  <1>4. ASSUME NEW t \in Threads, Inside(t) PROVE MissOK' /\ LostOK'
    BY <1>3, <1>4, BeginEffect, LostQuiet, LostCloseOne, LostFinish DEF Inside, IndInv, LostInv
  <1>5. ASSUME NEW t \in Threads, Calls(t) PROVE MissOK' /\ LostOK'
    BY <1>2, <1>5, LostInject DEF Calls, CallResolve, Close, CloseIDs, LostInv
  <1> QED
    BY <1>1, <1>2, <1>4, <1>5 DEF LostInv, Next, Finished, vars

LEMMA InitLostInv == Init => LostInv
  <1> SUFFICES ASSUME Init PROVE LostInv
    OBVIOUS
  <1>1. Instances = {} /\ \A n \in Nodes : cache[n] = NoInst
    BY DEF Init, Instances
  <1> QED
    BY <1>1, InitAloneOK DEF LostInv, MissOK, LostOK

\* When one goroutine resolves, injects and closes in turn no instance is lost
\* (container.go:205-255): what a Close or a CloseIDs drops from the cache it
\* has closed, and only InjectResolved puts an open one out of reach.
THEOREM OneThreadLosesNothing ==
  ASSUME OneThread
  PROVE  Spec => []NothingLost
  <1>1. Init => LostInv
    BY InitLostInv
  <1>2. IndInv /\ LoopInv /\ LostInv /\ [Next]_vars => LostInv'
    BY LostStep
  <1>3. LostInv => NothingLost
    BY DEF LostInv, LostOK, NothingLost, Held, InHand, Handed, Replaced
  <1> QED
    BY <1>1, <1>2, <1>3, LoopInvariance, PTL DEF Spec

-----------------------------------------------------------------------------
\* Each call on a stack was made for the resolve that its caller is at.
CallOK(t) ==
  \A k \in 1 .. Len(path[t]) - 1 :
    LET i == frame[t][path[t][k]].i
    IN i <= Len(Work(path[t][k])) /\ Work(path[t][k])[i] = path[t][k + 1]

CallsOK == \A t \in Threads : CallOK(t)

\* What a call has in hand is open, and of the nodes it may have it of.
FitIn(b, n, f) ==
  f.pc # "none" =>
    /\ \A j \in f.got : b[j].closed = 0 /\ b[j].node \in ToSet(g.uses[n])
    /\ IsInst(f.out) => b[f.out].closed = 0 /\ b[f.out].node = n

FramesFit == \A t \in Threads, n \in Nodes : FitIn(built, n, frame[t][n])

\* An instance is wired to those of the nodes that its Build resolves.
UsesFit ==
  \A i \in Instances : \A j \in built[i].uses : built[j].node \in ToSet(g.uses[built[i].node])

-----------------------------------------------------------------------------
\* Stacks, as in a step that leaves all calls where they are.
LEMMA CallsStay ==
  ASSUME TypeOK, CallsOK, UNCHANGED <<g, path>>,
         \A u \in Threads, m \in Nodes : frame'[u][m].i = frame[u][m].i
  PROVE  CallsOK'
  <1> SUFFICES ASSUME NEW u \in Threads PROVE CallOK(u)'
    BY DEF CallsOK
  <1>1. CallOK(u) /\ path[u] \in Seq(Nodes)
    BY DEF CallsOK, TypeOK
  <1>2. \A k \in 1 .. Len(path[u]) - 1 : path[u][k] \in Nodes
    BY <1>1
  <1>3. \A m \in Nodes : Work(m)' = Work(m)
    BY DEF Work
  <1> QED
    BY <1>1, <1>2, <1>3 DEF CallOK

LEMMA OtherCalls ==
  ASSUME CallsOK, g' = g, NEW u \in Threads, path'[u] = path[u], frame'[u] = frame[u]
  PROVE  CallOK(u)'
  <1>1. \A m : Work(m)' = Work(m)
    BY DEF Work
  <1> QED
    BY <1>1 DEF CallsOK, CallOK

\* The call that is pushed is the one its caller asks for.
LEMMA CallsPush ==
  ASSUME IndInv, CallsOK, NEW t \in Threads, NEW n \in Nodes, At(t, n, "work"), g' = g,
         NEW child \in Nodes, child \notin ToSet(path[t]),
         frame[t][n].i <= Len(Work(n)), Work(n)[frame[t][n].i] = child,
         path' = [path EXCEPT ![t] = Append(@, child)],
         frame' = [frame EXCEPT ![t][child] = Entered]
  PROVE  CallsOK'
  <1>1. PICK s : s = path[t]
    OBVIOUS
  <1>2. /\ s \in Seq(Nodes) /\ Len(s) \in Nat \ {0} /\ n = s[Len(s)]
    BY <1>1, TopOfPath DEF IndInv, TypeOK
  <1>3. PICK r : r = Append(s, child)
    OBVIOUS
  <1>4. /\ path'[t] = r
        /\ \A u \in Threads \ {t} : path'[u] = path[u] /\ frame'[u] = frame[u]
        /\ \A m \in Nodes : m # child => frame'[t][m] = frame[t][m]
    BY <1>1, <1>3 DEF IndInv, TypeOK
  <1>5. /\ Len(r) = Len(s) + 1 /\ r[Len(s) + 1] = child
        /\ \A k \in 1 .. Len(s) : r[k] = s[k]
    BY <1>2, <1>3
  <1>6. \A m : Work(m)' = Work(m)
    BY DEF Work
  <1>7. ASSUME NEW k \in 1 .. Len(s)
        PROVE  LET j == frame'[t][r[k]].i
               IN j <= Len(Work(r[k])) /\ Work(r[k])[j] = r[k + 1]
    <2>1. s[k] \in Nodes /\ r[k] = s[k] /\ s[k] # child
      BY <1>1, <1>2, <1>5 DEF ToSet
    <2>2. frame'[t][s[k]] = frame[t][s[k]]
      BY <1>4, <2>1
    <2>3. CASE k = Len(s)
      BY <1>2, <1>5, <2>1, <2>2, <2>3
    <2>4. CASE k # Len(s)
      <3>1. k \in 1 .. Len(s) - 1 /\ k + 1 \in 1 .. Len(s)
        BY <1>2, <2>4
      <3>2. r[k + 1] = s[k + 1]
        BY <1>5, <3>1
      <3>3. /\ frame[t][s[k]].i <= Len(Work(s[k]))
            /\ Work(s[k])[frame[t][s[k]].i] = s[k + 1]
        BY <1>1, <3>1 DEF CallsOK, CallOK
      <3> QED
        BY <2>1, <2>2, <3>2, <3>3
    <2> QED
      BY <2>3, <2>4
  <1>8. 1 .. Len(r) - 1 = 1 .. Len(s)
    BY <1>2, <1>5
  <1>9. CallOK(t)'
    BY <1>4, <1>6, <1>7, <1>8 DEF CallOK
  <1> QED
    BY <1>4, <1>9, OtherCalls DEF CallsOK

\* The caller of the innermost call.
LEMMA Caller ==
  ASSUME IndInv, CallsOK, NEW t \in Threads, NEW n \in Nodes, At(t, n, "return"),
         Len(path[t]) > 1, NEW p, p = path[t][Len(path[t]) - 1]
  PROVE  /\ p \in Nodes /\ p # n /\ frame[t][p].pc = "work" /\ frame[t][p] \in FrameType
         /\ frame[t][p].i \in 1 .. Len(Work(p)) /\ Work(p)[frame[t][p].i] = n
         /\ \A k \in 1 .. Len(path[t]) - 2 : path[t][k] \in Nodes \ {n, p}
  <1>1. PICK s : s = path[t]
    OBVIOUS
  <1>2. /\ s \in Seq(Nodes) /\ Len(s) \in Nat /\ Len(s) > 1 /\ n = s[Len(s)]
        /\ DOMAIN s = Positions(s)
        /\ \A a, b \in Positions(s) : s[a] = s[b] => a = b
    BY <1>1, TopOfPath DEF IndInv, TypeOK, PathOK, Positions
  <1>3. /\ Len(s) - 1 \in Positions(s) /\ Len(s) \in Positions(s)
        /\ Len(s) - 1 \in 1 .. Len(s) - 1 /\ (Len(s) - 1) + 1 = Len(s)
    BY <1>2 DEF Positions
  <1>4. p \in Nodes /\ p # n /\ frame[t][p].pc = "work" /\ frame[t][p] \in FrameType
    <2>1. p \in Nodes /\ p # n
      BY <1>1, <1>2, <1>3
    <2>2. frame[t][p].pc = "work"
      BY <1>1, <1>2, <1>3 DEF IndInv, PathOK
    <2> QED
      BY <2>1, <2>2 DEF IndInv, TypeOK
  <1>5. frame[t][p].i <= Len(Work(p)) /\ Work(p)[frame[t][p].i] = n
    <2>1. \A k \in 1 .. Len(s) - 1 :
            /\ frame[t][s[k]].i <= Len(Work(s[k]))
            /\ Work(s[k])[frame[t][s[k]].i] = s[k + 1]
      BY <1>1 DEF CallsOK, CallOK
    <2>2. /\ frame[t][s[Len(s) - 1]].i <= Len(Work(s[Len(s) - 1]))
          /\ Work(s[Len(s) - 1])[frame[t][s[Len(s) - 1]].i] = s[(Len(s) - 1) + 1]
      BY <1>3, <2>1
    <2> QED
      BY <1>1, <1>2, <1>3, <2>2
  <1>6. frame[t][p].i \in Nat \ {0} /\ Work(p) \in Seq(Nodes)
    BY <1>4, WorkType DEF FrameType, IndInv
  <1>7. ASSUME NEW k \in 1 .. Len(s) - 2 PROVE s[k] \in Nodes \ {n, p}
    <2>1. PICK l \in Nat : l = Len(s)
      BY <1>2
    <2>2. k \in 1 .. l /\ k # l /\ k # l - 1
      BY <2>1
    <2> QED
      BY <1>1, <1>2, <1>3, <2>1, <2>2 DEF Positions
  <1> QED
    BY <1>1, <1>4, <1>5, <1>6, <1>7

LEMMA CallsPop ==
  ASSUME IndInv, CallsOK, NEW t \in Threads, NEW n \in Nodes, ReturnToParent(t, n)
  PROVE  CallsOK'
  <1>1. PICK s, p : s = path[t] /\ p = s[Len(s) - 1]
    OBVIOUS
  <1>2. PICK f : frame' = [frame EXCEPT ![t][n] = NoFrame, ![t][p] = f]
    BY <1>1 DEF ReturnToParent
  <1>3. /\ At(t, n, "return") /\ g' = g /\ Len(s) > 1
        /\ path' = [path EXCEPT ![t] = Front(s)]
    BY <1>1 DEF ReturnToParent
  <1>4. /\ s \in Seq(Nodes) /\ Len(s) \in Nat /\ s # <<>>
        /\ \A a, b \in Positions(s) : s[a] = s[b] => a = b
    BY <1>1, <1>3 DEF IndInv, TypeOK, PathOK
  <1>5. PICK q : q = Front(s) /\ Len(q) = Len(s) - 1 /\ \A k \in Positions(q) : q[k] = s[k]
    BY <1>4, PopPath
  <1>6. p \in Nodes /\ \A k \in 1 .. Len(s) - 2 : s[k] \in Nodes \ {n, p}
    BY <1>1, <1>3, Caller
  <1>7. /\ path'[t] = q
        /\ \A u \in Threads \ {t} : path'[u] = path[u] /\ frame'[u] = frame[u]
        /\ \A m \in Nodes \ {n, p} : frame'[t][m] = frame[t][m]
    BY <1>2, <1>3, <1>5, <1>6 DEF IndInv, TypeOK
  <1>8. \A m : Work(m)' = Work(m)
    BY <1>3 DEF Work
  <1>9. ASSUME NEW k \in 1 .. Len(q) - 1
        PROVE  LET j == frame'[t][q[k]].i
               IN j <= Len(Work(q[k])) /\ Work(q[k])[j] = q[k + 1]
    <2>1. /\ k \in 1 .. Len(s) - 1 /\ k \in Positions(q) /\ k + 1 \in Positions(q)
          /\ k \in 1 .. Len(s) - 2
      BY <1>4, <1>5 DEF Positions
    <2>2. q[k] = s[k] /\ q[k + 1] = s[k + 1]
      BY <1>5, <2>1
    <2>3. frame'[t][s[k]] = frame[t][s[k]]
      BY <1>6, <1>7, <2>1
    <2>4. /\ frame[t][s[k]].i <= Len(Work(s[k]))
          /\ Work(s[k])[frame[t][s[k]].i] = s[k + 1]
      BY <1>1, <2>1 DEF CallsOK, CallOK
    <2> QED
      BY <2>2, <2>3, <2>4
  <1>10. CallOK(t)'
    BY <1>7, <1>8, <1>9 DEF CallOK
  <1> QED
    BY <1>3, <1>7, <1>10, OtherCalls DEF CallsOK

-----------------------------------------------------------------------------
\* What fits stays so when nothing is closed.
LEMMA FitStays ==
  ASSUME TypeOK, FramesFit, g' = g,
         \A i \in Instances : built'[i].node = built[i].node /\ built'[i].closed = built[i].closed,
         \A u \in Threads, m \in Nodes :
           frame'[u][m] = frame[u][m] \/ FitIn(built', m, frame'[u][m])
  PROVE  FramesFit'
  <1> SUFFICES ASSUME NEW u \in Threads, NEW m \in Nodes, frame'[u][m] = frame[u][m]
               PROVE  FitIn(built', m, frame[u][m])
    BY DEF FramesFit, FitIn
  <1>1. PICK f \in FrameType : f = frame[u][m]
    BY DEF TypeOK
  <1>2. f.got \subseteq Instances /\ (IsInst(f.out) => f.out \in Instances)
    BY <1>1 DEF FrameType, Results, IsInst, ErrResult, NoInst
  <1>3. FitIn(built, m, f)
    BY <1>1 DEF FramesFit
  <1> QED
    BY <1>1, <1>2, <1>3 DEF FitIn

\* A step of the innermost call that leaves it where it is in its work.
LEMMA FitTop ==
  ASSUME TypeOK, CallsOK, FramesFit, NEW t \in Threads, NEW n \in Nodes,
         UNCHANGED <<g, path>>,
         \A i \in Instances : built'[i].node = built[i].node /\ built'[i].closed = built[i].closed,
         NEW f, frame' = [frame EXCEPT ![t][n] = f],
         f.i = frame[t][n].i, FitIn(built', n, f)
  PROVE  CallsOK' /\ FramesFit'
  <1>1. \A u \in Threads, m \in Nodes :
          frame'[u][m] = IF u = t /\ m = n THEN f ELSE frame[u][m]
    BY DEF TypeOK
  <1>2. FramesFit'
    BY <1>1, FitStays
  <1>3. CallsOK'
    BY <1>1, CallsStay
  <1> QED
    BY <1>2, <1>3

LEMMA FitSame ==
  ASSUME FramesFit, NEW t \in Threads, NEW n \in Nodes, frame[t][n].pc # "none", built' = built,
         NEW f, f.got = frame[t][n].got,
         \/ f.out = frame[t][n].out
         \/ ~IsInst(f.out)
         \/ built[f.out].closed = 0 /\ built[f.out].node = n
  PROVE  FitIn(built', n, f)
  BY DEF FramesFit, FitIn

\* Nothing that is cached is closed.
CacheIsOpen ==
  \A n \in Nodes : cache[n] # NoInst =>
    built[cache[n]].closed = 0 /\ built[cache[n]].node = n

LEMMA FitLookup ==
  ASSUME TypeOK, CallsOK, FramesFit, CacheIsOpen, NEW t \in Threads, NEW n \in Nodes, Lookup(t, n)
  PROVE  CallsOK' /\ FramesFit'
  <1>1. PICK f : f = IF cache[n] # NoInst
                       THEN [frame[t][n] EXCEPT !.pc = "return", !.out = cache[n]]
                       ELSE [frame[t][n] EXCEPT !.pc = "enter"]
    OBVIOUS
  <1>2. /\ frame[t][n] \in FrameType /\ frame[t][n].pc = "lookup"
        /\ frame' = [frame EXCEPT ![t][n] = f] /\ UNCHANGED <<g, path, built>>
    BY <1>1 DEF TypeOK, Lookup, At
  <1>3. /\ f.i = frame[t][n].i /\ f.got = frame[t][n].got
        /\ \/ f.out = frame[t][n].out
           \/ cache[n] # NoInst /\ f.out = cache[n]
    BY <1>1, <1>2 DEF FrameType
  <1>4. FitIn(built', n, f)
    BY <1>2, <1>3, FitSame DEF CacheIsOpen
  <1> QED
    BY <1>2, <1>3, <1>4, FitTop

LEMMA FitEnter ==
  ASSUME TypeOK, CallsOK, FramesFit, NEW t \in Threads, NEW n \in Nodes,
         Lead(t, n) \/ Follow(t, n) \/ Store(t, n)
  PROVE  CallsOK' /\ FramesFit'
  <1>1. PICK pc : frame' = [frame EXCEPT ![t][n].pc = pc]
    BY DEF Lead, Follow, Store
  <1>2. /\ frame[t][n] \in FrameType /\ frame[t][n].pc # "none"
        /\ UNCHANGED <<g, path, built>>
    BY DEF TypeOK, Lead, Follow, Store, At
  <1>3. PICK f : f = [frame[t][n] EXCEPT !.pc = pc]
    OBVIOUS
  <1>4. frame' = [frame EXCEPT ![t][n] = f]
    BY <1>1, <1>3
  <1>5. f.i = frame[t][n].i /\ f.got = frame[t][n].got /\ f.out = frame[t][n].out
    BY <1>2, <1>3 DEF FrameType
  <1>6. FitIn(built', n, f)
    BY <1>2, <1>5, FitSame
  <1> QED
    BY <1>2, <1>4, <1>5, <1>6, FitTop

LEMMA FitRecheck ==
  ASSUME TypeOK, CallsOK, FramesFit, CacheIsOpen, NEW t \in Threads, NEW n \in Nodes, Recheck(t, n)
  PROVE  CallsOK' /\ FramesFit'
  <1>1. PICK f : f = IF cache[n] # NoInst
                       THEN [frame[t][n] EXCEPT !.pc = "leave", !.out = cache[n]]
                       ELSE IF n \in Declared
                         THEN [frame[t][n] EXCEPT !.pc = "work"]
                         ELSE [frame[t][n] EXCEPT !.pc = "leave", !.out = ErrResult]
    OBVIOUS
  <1>2. /\ frame[t][n] \in FrameType /\ frame[t][n].pc = "recheck"
        /\ frame' = [frame EXCEPT ![t][n] = f] /\ UNCHANGED <<g, path, built>>
    BY <1>1 DEF TypeOK, Recheck, At
  <1>3. /\ f.i = frame[t][n].i /\ f.got = frame[t][n].got
        /\ \/ f.out = frame[t][n].out
           \/ f.out = ErrResult
           \/ cache[n] # NoInst /\ f.out = cache[n]
    BY <1>1, <1>2 DEF FrameType
  <1>4. FitIn(built', n, f)
    BY <1>2, <1>3, FitSame DEF CacheIsOpen, IsInst, ErrResult
  <1> QED
    BY <1>2, <1>3, <1>4, FitTop

\* A closure that ends with an error.
LEMMA FitEnd ==
  ASSUME TypeOK, CallsOK, FramesFit, NEW t \in Threads, NEW n \in Nodes, At(t, n, "work"),
         UNCHANGED <<g, path, built>>,
         frame' = [frame EXCEPT ![t][n].pc = "leave", ![t][n].out = ErrResult]
  PROVE  CallsOK' /\ FramesFit'
  <1>1. PICK f : f = [frame[t][n] EXCEPT !.pc = "leave", !.out = ErrResult]
    OBVIOUS
  <1>2. frame[t][n] \in FrameType /\ frame[t][n].pc = "work" /\ frame' = [frame EXCEPT ![t][n] = f]
    BY <1>1 DEF TypeOK, At
  <1>3. f.i = frame[t][n].i /\ f.got = frame[t][n].got /\ f.out = ErrResult
    BY <1>1, <1>2 DEF FrameType
  <1>4. FitIn(built', n, f)
    BY <1>2, <1>3, FitSame DEF IsInst, ErrResult
  <1> QED
    BY <1>2, <1>3, <1>4, FitTop

LEMMA FitEntered == ASSUME NEW n, NEW b PROVE FitIn(b, n, Entered) /\ FitIn(b, n, NoFrame)
  BY DEF FitIn, Entered, NoFrame, IsInst, NoInst

LEMMA FitDescend ==
  ASSUME IndInv, CallsOK, FramesFit, NEW t \in Threads, NEW n \in Nodes, Descend(t, n)
  PROVE  CallsOK' /\ FramesFit'
  <1>1. PICK child : child = Work(n)[frame[t][n].i]
    OBVIOUS
  <1>2. /\ At(t, n, "work") /\ frame[t][n].i <= Len(Work(n)) /\ UNCHANGED <<g, built>>
        /\ frame[t][n] \in FrameType
    BY DEF Descend, IndInv, TypeOK
  <1>3. child \in Nodes
    BY <1>1, <1>2, WorkType DEF IndInv, FrameType
  <1>4. CASE child \in ToSet(path[t])
    BY <1>1, <1>2, <1>4, FitEnd DEF Descend, IndInv
  <1>5. CASE child \notin ToSet(path[t])
    <2>1. /\ path' = [path EXCEPT ![t] = Append(@, child)]
          /\ frame' = [frame EXCEPT ![t][child] = Entered]
      BY <1>1, <1>5 DEF Descend
    <2>2. CallsOK'
      BY <1>1, <1>2, <1>3, <1>5, <2>1, CallsPush
    <2>3. \A u \in Threads, m \in Nodes :
            frame'[u][m] = IF u = t /\ m = child THEN Entered ELSE frame[u][m]
      BY <2>1 DEF IndInv, TypeOK
    <2>4. FramesFit'
      BY <1>2, <2>3, FitEntered, FitStays DEF IndInv
    <2> QED
      BY <2>2, <2>4
  <1> QED
    BY <1>4, <1>5

LEMMA FitConstruct ==
  ASSUME TypeOK, CallsOK, FramesFit, NEW t \in Threads, NEW n \in Nodes, Construct(t, n)
  PROVE  CallsOK' /\ FramesFit'
  <1>1. PICK new : new = Len(built) + 1
    OBVIOUS
  <1>2. PICK f : f = [frame[t][n] EXCEPT !.pc = "store", !.out = new]
    OBVIOUS
  <1>3. /\ frame[t][n] \in FrameType /\ frame[t][n].pc = "work" /\ UNCHANGED <<g, path>>
        /\ frame' = [frame EXCEPT ![t][n] = f]
    BY <1>1, <1>2 DEF TypeOK, Construct, At
  <1>4. f.i = frame[t][n].i /\ f.got = frame[t][n].got /\ f.out = new /\ f.got \subseteq Instances
    BY <1>2, <1>3 DEF FrameType
  <1>5. /\ \A i \in Instances : built'[i] = built[i]
        /\ built'[new].node = n /\ built'[new].closed = 0
    BY <1>1, ConstructEffect
  <1>6. FitIn(built', n, f)
    <2>1. FitIn(built, n, frame[t][n])
      BY DEF FramesFit
    <2> QED
      BY <1>3, <1>4, <1>5, <2>1 DEF FitIn
  <1> QED
    BY <1>3, <1>4, <1>5, <1>6, FitTop

LEMMA FitLeave ==
  ASSUME TypeOK, CallsOK, FramesFit, NEW t \in Threads, NEW n \in Nodes, Leave(t, n)
  PROVE  CallsOK' /\ FramesFit'
  <1>1. frame[t][n].pc = "leave" /\ UNCHANGED <<g, path, built>>
    BY DEF Leave, At
  <1>2. ASSUME NEW u \in Threads, NEW m \in Nodes
        PROVE  /\ frame'[u][m].i = frame[u][m].i
               /\ frame'[u][m] = frame[u][m] \/ FitIn(built', m, frame'[u][m])
    <2>1. frame[u] \in [Nodes -> FrameType] /\ frame[u][n] \in FrameType
      BY DEF TypeOK
    <2>2. PICK f : f = [frame[u][n] EXCEPT !.pc = "return", !.out = frame[t][n].out]
      OBVIOUS
    <2>3. f.i = frame[u][n].i /\ f.got = frame[u][n].got /\ f.out = frame[t][n].out
      BY <2>1, <2>2 DEF FrameType
    <2>4. frame'[u] = IF u = t \/ frame[u][n].pc = "wait"
                        THEN [frame[u] EXCEPT ![n] = f] ELSE frame[u]
      BY <2>2 DEF Leave, Waits
    <2>5. CASE m = n /\ (u = t \/ frame[u][n].pc = "wait")
      <3>1. frame'[u][m] = f
        BY <2>1, <2>4, <2>5
      <3>2. FitIn(built, n, frame[t][n]) /\ FitIn(built, n, frame[u][n])
        BY DEF FramesFit
      <3>3. FitIn(built', n, f)
        BY <1>1, <2>3, <2>5, <3>2 DEF FitIn
      <3> QED
        BY <2>3, <2>5, <3>1, <3>3
    <2>6. CASE ~(m = n /\ (u = t \/ frame[u][n].pc = "wait"))
      <3>1. frame'[u][m] = frame[u][m]
        BY <2>1, <2>4, <2>6
      <3> QED
        BY <3>1
    <2> QED
      BY <2>5, <2>6
  <1>3. FramesFit'
    BY <1>1, <1>2, FitStays
  <1>4. CallsOK'
    BY <1>1, <1>2, CallsStay
  <1> QED
    BY <1>3, <1>4

\* What Build is handed is of a node that it asked for.
LEMMA FitReturnToParent ==
  ASSUME IndInv, CallsOK, FramesFit, NEW t \in Threads, NEW n \in Nodes, ReturnToParent(t, n)
  PROVE  CallsOK' /\ FramesFit'
  <1>1. PICK p : p = path[t][Len(path[t]) - 1]
    OBVIOUS
  <1>2. PICK r : r = frame[t][n].out
    OBVIOUS
  <1>3. PICK i : i = frame[t][p].i
    OBVIOUS
  <1>4. PICK f : f = IF IsInst(r)
                       THEN [frame[t][p] EXCEPT
                               !.i = @ + 1,
                               !.got = IF i > Len(g.deps[p]) THEN @ \union {r} ELSE @]
                       ELSE [frame[t][p] EXCEPT !.pc = "leave", !.out = ErrResult]
    OBVIOUS
  <1>5. /\ At(t, n, "return") /\ Len(path[t]) > 1 /\ UNCHANGED <<g, built>>
        /\ frame' = [frame EXCEPT ![t][n] = NoFrame, ![t][p] = f]
    BY <1>1, <1>2, <1>3, <1>4 DEF ReturnToParent
  <1>6. /\ p \in Nodes /\ p # n /\ frame[t][p].pc = "work" /\ frame[t][p] \in FrameType
        /\ i \in 1 .. Len(Work(p)) /\ Work(p)[i] = n
    BY <1>1, <1>3, <1>5, Caller
  <1>7. i > Len(g.deps[p]) => n \in ToSet(g.uses[p])
    <2>1. g.deps[p] \in Seq(Nodes) /\ g.uses[p] \in Seq(Nodes)
      BY <1>6 DEF IndInv, TypeOK, GraphType
    <2>2. PICK D \in Seq(Nodes) : D = g.deps[p]
      BY <2>1
    <2>3. PICK U \in Seq(Nodes) : U = g.uses[p]
      BY <2>1
    <2>4. Work(p) = D \o U
      BY <2>2, <2>3 DEF Work
    <2>5. ASSUME i > Len(D) PROVE n \in ToSet(U)
      <3>1. Len(D) \in Nat /\ Len(U) \in Nat /\ i \in 1 .. Len(D) + Len(U)
        BY <1>6, <2>4
      <3>2. (D \o U)[i] = U[i - Len(D)] /\ i - Len(D) \in 1 .. Len(U)
        BY <2>5, <3>1
      <3> QED
        BY <1>6, <2>4, <3>2 DEF ToSet
    <2> QED
      BY <2>2, <2>3, <2>5
  <1>8. FitIn(built, p, frame[t][p]) /\ FitIn(built, n, frame[t][n]) /\ frame[t][n].pc = "return"
    BY <1>5, <1>6 DEF FramesFit, At
  <1>9. FitIn(built', p, f)
    <2>1. CASE IsInst(r)
      <3>1. /\ f.out = frame[t][p].out
            /\ f.got = IF i > Len(g.deps[p]) THEN frame[t][p].got \union {r} ELSE frame[t][p].got
        BY <1>4, <1>6, <2>1 DEF FrameType
      <3>2. built[r].closed = 0 /\ built[r].node = n
        BY <1>2, <1>8, <2>1 DEF FitIn
      <3> QED
        BY <1>5, <1>6, <1>7, <1>8, <3>1, <3>2 DEF FitIn
    <2>2. CASE ~IsInst(r)
      <3>1. f.out = ErrResult /\ f.got = frame[t][p].got
        BY <1>4, <1>6, <2>2 DEF FrameType
      <3> QED
        BY <1>5, <1>6, <1>8, <3>1 DEF FitIn, IsInst, ErrResult
    <2> QED
      BY <2>1, <2>2
  <1>10. \A u \in Threads, m \in Nodes :
           frame'[u][m] = IF u = t /\ m = p THEN f
                          ELSE IF u = t /\ m = n THEN NoFrame ELSE frame[u][m]
    BY <1>5, <1>6 DEF IndInv, TypeOK
  <1>11. \A u \in Threads, m \in Nodes :
           frame'[u][m] = frame[u][m] \/ FitIn(built', m, frame'[u][m])
    BY <1>9, <1>10, FitEntered
  <1>12. FramesFit'
    BY <1>5, <1>11, FitStays DEF IndInv
  <1> QED
    BY <1>12, CallsPop

\* A stack of one call, or of none.
LEMMA FitOutermost ==
  ASSUME IndInv, CallsOK, FramesFit, NEW t \in Threads, NEW n \in Nodes, UNCHANGED <<g, built>>,
         NEW s \in Seq(Nodes), Len(s) <= 1, path' = [path EXCEPT ![t] = s],
         NEW f, f \in {Entered, NoFrame}, frame' = [frame EXCEPT ![t][n] = f]
  PROVE  CallsOK' /\ FramesFit'
  <1>1. /\ path'[t] = s
        /\ \A u \in Threads \ {t} : path'[u] = path[u] /\ frame'[u] = frame[u]
        /\ \A u \in Threads, m \in Nodes :
             frame'[u][m] = IF u = t /\ m = n THEN f ELSE frame[u][m]
    BY DEF IndInv, TypeOK
  <1>2. FramesFit'
    BY <1>1, FitEntered, FitStays DEF IndInv
  <1>3. CallOK(t)'
    <2>1. Len(s) \in Nat
      OBVIOUS
    <2>2. 1 .. Len(s) - 1 = {}
      BY <2>1
    <2> QED
      BY <1>1, <2>2 DEF CallOK
  <1>4. CallsOK'
    BY <1>1, <1>3, OtherCalls DEF CallsOK
  <1> QED
    BY <1>2, <1>4

LEMMA FitResolve ==
  ASSUME IndInv, CallsOK, FramesFit, CacheIsOpen, NEW t \in Threads, NEW n \in Nodes,
         ResolveStep(t, n)
  PROVE  CallsOK' /\ FramesFit'
  <1>1. CASE ReturnToCaller(t, n)
    <2>1. /\ UNCHANGED <<g, built>> /\ path' = [path EXCEPT ![t] = <<>>]
          /\ frame' = [frame EXCEPT ![t][n] = NoFrame]
      BY <1>1 DEF ReturnToCaller
    <2>2. PICK s : s = <<>>
      OBVIOUS
    <2>3. s \in Seq(Nodes) /\ Len(s) <= 1
      BY <2>2
    <2> QED
      BY <2>1, <2>2, <2>3, FitOutermost
  <1>2. CASE Fail(t, n)
    BY <1>2, FitEnd DEF Fail, IndInv
  <1> QED
    BY <1>1, <1>2, FitLookup, FitEnter, FitRecheck, FitDescend, FitConstruct, FitLeave,
       FitReturnToParent DEF ResolveStep, IndInv

LEMMA FitBegin ==
  ASSUME IndInv, CallsOK, FramesFit, NEW t \in Threads, Begin(t)
  PROVE  CallsOK' /\ FramesFit'
  <1>1. PICK n \in Nodes : n = Head(batch[t])
    BY DEF Begin, IndInv, TypeOK
  <1>2. PICK s : s = <<n>>
    OBVIOUS
  <1>3. s \in Seq(Nodes) /\ Len(s) <= 1
    BY <1>2
  <1>4. /\ UNCHANGED <<g, built>> /\ path' = [path EXCEPT ![t] = s]
        /\ frame' = [frame EXCEPT ![t][n] = Entered]
    BY <1>1, <1>2 DEF Begin
  <1> QED
    BY <1>2, <1>3, <1>4, FitOutermost

-----------------------------------------------------------------------------
\* What is held is cached, or about to be.
LEMMA HeldIs ==
  ASSUME NEW i
  PROVE  Held(i) <=> cache[built[i].node] = i \/ Handed(i, built[i].node)
  BY DEF Held, InHand, Handed

LEMMA UsesAreInstances ==
  ASSUME TypeOK, NEW i \in Instances
  PROVE  built[i].uses \subseteq Instances
  <1>1. built[i] \in InstanceType
    BY DEF TypeOK, Instances
  <1> QED
    BY <1>1 DEF InstanceType

\* Instances: what is cached, and what they are wired to.
WiresOK == CachedOK /\ UsesFit /\ NoDanglingWire

\* NoDanglingWire with what makes it inductive.
FitInv == CallsOK /\ FramesFit /\ WiresOK /\ AloneOK

LEMMA WiresQuiet ==
  ASSUME TypeOK, WiresOK, QuietStep
  PROVE  WiresOK'
  <1>1. UNCHANGED <<g, cache, built, closing>> /\ Instances' = Instances
    BY DEF QuietStep, Instances
  <1>2. CachedOK' /\ UsesFit'
    BY <1>1 DEF WiresOK, CachedOK, UsesFit, Open
  <1>3. ASSUME NEW i \in Instances, Held(i)' PROVE Held(i)
    <2>1. cache[built[i].node] = i \/ \E t \in Threads : frame'[t][built[i].node].pc = "store"
                                                      /\ frame'[t][built[i].node].out = i
      BY <1>1, <1>3 DEF Held, InHand
    <2>2. built[i].node \in Nodes
      BY InstanceNode
    <2>3. cache[built[i].node] = i \/ Handed(i, built[i].node)
      BY <2>1, <2>2 DEF QuietStep, Handed
    <2> QED
      BY <2>3, HeldIs
  <1>4. NoDanglingWire'
    BY <1>1, <1>3 DEF WiresOK, NoDanglingWire, Open
  <1> QED
    BY <1>2, <1>4 DEF WiresOK

LEMMA WiresConstruct ==
  ASSUME IndInv, WiresOK, FramesFit, NEW t \in Threads, NEW n \in Nodes, Construct(t, n)
  PROVE  WiresOK'
  <1>0. PICK new : new = Len(built) + 1
    OBVIOUS
  <1>1. /\ UNCHANGED <<g, cache, closing>> /\ frame[t][n].pc = "work"
        /\ Instances' = Instances \union {new} /\ new \notin Instances
        /\ \A i \in Instances : built'[i] = built[i]
        /\ built'[new].node = n /\ built'[new].closed = 0 /\ built'[new].uses = frame[t][n].got
        /\ frame'[t][n].pc = "store" /\ frame'[t][n].out = new
        /\ \A u \in Threads, m \in Nodes : <<u, m>> # <<t, n>> => frame'[u][m] = frame[u][m]
    BY <1>0, ConstructEffect DEF IndInv
  <1>2. ASSUME NEW i \in Instances PROVE Open(i)' <=> Open(i)
    BY <1>1 DEF Open
  <1>3. CachedOK'
    BY <1>1, <1>2, CachedInstance DEF WiresOK, CachedOK, Open, IndInv
  <1>4. /\ frame[t][n].got \subseteq Instances
        /\ \A j \in frame[t][n].got : Open(j) /\ built[j].node \in ToSet(g.uses[n])
    <2>1. frame[t][n] \in FrameType
      BY DEF IndInv, TypeOK
    <2> QED
      BY <1>1, <2>1 DEF FramesFit, FitIn, FrameType, Open
  <1>5. \A i \in Instances : built[i].uses \subseteq Instances
    BY UsesAreInstances DEF IndInv
  <1>6. UsesFit'
    BY <1>1, <1>4, <1>5 DEF WiresOK, UsesFit
  <1>7. ASSUME NEW i \in Instances, Held(i)' PROVE Held(i)
    <2>1. built[i].node \in Nodes /\ built'[i].node = built[i].node
      BY <1>1, InstanceNode DEF IndInv
    <2>2. cache'[built[i].node] = i \/ Handed(i, built[i].node)'
      BY <1>7, <2>1 DEF Held, InHand, Handed
    <2>3. cache[built[i].node] = i \/ Handed(i, built[i].node)
      BY <1>1, <2>1, <2>2 DEF Handed
    <2> QED
      BY <2>3, HeldIs
  <1>8. NoDanglingWire'
    <2>1. ASSUME NEW i \in Instances, Open(i)', Held(i)'
          PROVE  \A j \in built[i].uses : Open(j)'
      BY <1>2, <1>5, <1>7, <2>1 DEF WiresOK, NoDanglingWire
    <2>2. \A j \in built'[new].uses : Open(j)'
      BY <1>1, <1>2, <1>4
    <2> QED
      BY <1>1, <2>1, <2>2 DEF NoDanglingWire
  <1> QED
    BY <1>3, <1>6, <1>8 DEF WiresOK

LEMMA WiresStore ==
  ASSUME IndInv, WiresOK, FramesFit, NEW t \in Threads, NEW n \in Nodes, Store(t, n)
  PROVE  WiresOK'
  <1>1. PICK new : new = frame[t][n].out
    OBVIOUS
  <1>2. /\ UNCHANGED <<g, built, closing>> /\ frame[t][n].pc = "store"
        /\ new \in Instances /\ built[new].node = n /\ frame'[t][n].pc = "leave"
        /\ \A u \in Threads, m \in Nodes : <<u, m>> # <<t, n>> => frame'[u][m] = frame[u][m]
        /\ \A m \in Nodes : cache'[m] = IF m = n THEN new ELSE cache[m]
    BY <1>1, StoreEffect
  <1>3. Open(new)
    <2>1. IsInst(new)
      BY <1>2 DEF IsInst, Instances
    <2> QED
      BY <1>1, <1>2, <2>1 DEF FramesFit, FitIn, Open
  <1>4. Instances' = Instances
    BY <1>2 DEF Instances
  <1>5. CachedOK'
    BY <1>2, <1>3 DEF WiresOK, CachedOK, Open
  <1>6. UsesFit'
    BY <1>2, <1>4 DEF WiresOK, UsesFit
  <1>7. ASSUME NEW i \in Instances, Held(i)' PROVE Held(i)
    <2>1. built[i].node \in Nodes
      BY InstanceNode DEF IndInv
    <2>2. cache'[built[i].node] = i \/ Handed(i, built[i].node)'
      BY <1>2, <1>7 DEF Held, InHand, Handed
    <2>3. Handed(new, n)
      BY <1>1, <1>2 DEF Handed
    <2>4. Handed(i, built[i].node)' => Handed(i, built[i].node)
      BY <1>2, <2>1 DEF Handed
    <2>5. cache[built[i].node] = i \/ Handed(i, built[i].node)
      BY <1>2, <2>1, <2>2, <2>3, <2>4
    <2> QED
      BY <2>5, HeldIs
  <1>8. NoDanglingWire'
    BY <1>2, <1>4, <1>7 DEF WiresOK, NoDanglingWire, Open
  <1> QED
    BY <1>5, <1>6, <1>8 DEF WiresOK

\* What is given is wired to nothing.
LEMMA WiresInject ==
  ASSUME IndInv, WiresOK, NEW t \in Threads, NEW n \in Nodes, Inject(t, n)
  PROVE  WiresOK'
  <1>1. CASE UNCHANGED <<built, cache>>
    <2>1. QuietStep
      BY <1>1 DEF QuietStep, Inject
    <2> QED
      BY <2>1, WiresQuiet DEF IndInv
  <1>2. CASE ~(UNCHANGED <<built, cache>>)
    <2>1. PICK e : e = [node |-> n, uses |-> {}, given |-> TRUE, closed |-> 0]
      OBVIOUS
    <2>2. PICK new : new = Len(built) + 1
      OBVIOUS
    <2>3. /\ UNCHANGED <<g, frame, closing>> /\ built' = Append(built, e)
          /\ cache' = [cache EXCEPT ![n] = new]
      BY <1>2, <2>1, <2>2 DEF Inject
    <2>4. /\ built \in Seq(InstanceType) /\ e \in InstanceType
          /\ e.node = n /\ e.uses = {} /\ e.closed = 0
      BY <2>1 DEF IndInv, TypeOK, InstanceType
    <2>5. /\ Instances' = Instances \union {new} /\ new \notin Instances
          /\ \A i \in Instances : built'[i] = built[i]
          /\ built'[new] = e
      BY <2>2, <2>3, <2>4, NewInstance DEF Instances
    <2>6. \A m \in Nodes : cache'[m] = IF m = n THEN new ELSE cache[m]
      BY <2>3 DEF IndInv, TypeOK
    <2>7. \A i \in Instances : (Open(i)' <=> Open(i)) /\ i # new
      BY <2>5 DEF Open
    <2>8. \A i \in Instances : built[i].uses \subseteq Instances
      BY UsesAreInstances DEF IndInv
    <2>9. CachedOK'
      <3> SUFFICES ASSUME NEW m \in Nodes, cache'[m] # NoInst
                   PROVE  /\ built'[cache'[m]].node = m
                          /\ \/ built'[cache'[m]].closed = 0
                             \/ \E u \in Threads : closing[u].active /\ m \in closing[u].done
        BY <2>3 DEF CachedOK, Open
      <3>1. CASE m = n
        BY <2>4, <2>5, <2>6, <3>1
      <3>2. CASE m # n
        <4>1. PICK i : i = cache[m]
          OBVIOUS
        <4>2. cache'[m] = i /\ i # NoInst
          BY <2>6, <3>2, <4>1
        <4>3. i \in Instances
          BY <4>1, <4>2, CachedInstance DEF IndInv
        <4>4. built'[i] = built[i]
          BY <2>5, <4>3
        <4>5. /\ built[i].node = m
              /\ \/ built[i].closed = 0
                 \/ \E u \in Threads : closing[u].active /\ m \in closing[u].done
          BY <4>1, <4>2 DEF WiresOK, CachedOK, Open
        <4> QED
          BY <4>2, <4>4, <4>5
      <3> QED
        BY <3>1, <3>2
    <2>10. UsesFit'
      BY <2>3, <2>4, <2>5, <2>8 DEF WiresOK, UsesFit
    <2>11. ASSUME NEW i \in Instances, Held(i)' PROVE Held(i)
      <3>1. built[i].node \in Nodes /\ built'[i].node = built[i].node
        BY <2>5, InstanceNode DEF IndInv
      <3>2. cache'[built[i].node] = i \/ Handed(i, built[i].node)
        BY <2>3, <2>11, <3>1 DEF Held, InHand, Handed
      <3> QED
        BY <2>6, <2>7, <3>1, <3>2, HeldIs
    <2>12. NoDanglingWire'
      <3>1. ASSUME NEW i \in Instances, Open(i)', Held(i)'
            PROVE  \A j \in built[i].uses : Open(j)'
        BY <2>7, <2>8, <2>11, <3>1 DEF WiresOK, NoDanglingWire
      <3> QED
        BY <2>4, <2>5, <3>1 DEF NoDanglingWire
    <2> QED
      BY <2>9, <2>10, <2>12 DEF WiresOK
  <1> QED
    BY <1>1, <1>2

-----------------------------------------------------------------------------
LEMMA FitQuiet ==
  ASSUME IndInv, FitInv, UNCHANGED <<g, cache, path, frame, built, closing>>
  PROVE  (CallsOK /\ FramesFit /\ WiresOK)'
  <1>1. QuietStep
    BY DEF QuietStep
  <1>2. CallsOK' /\ FramesFit'
    BY CallsStay, FitStays DEF FitInv, IndInv
  <1> QED
    BY <1>1, <1>2, WiresQuiet DEF FitInv, IndInv

\* While a call runs nobody closes, and so all that is cached is open.
LEMMA CallSeesOpen ==
  ASSUME OneCaller, FitInv, NEW t \in Threads, batch[t] # <<>>
  PROVE  CacheIsOpen /\ \A u \in Threads : ~closing[u].active
  BY CallIsAlone DEF OneCaller, FitInv, WiresOK, CachedOK, CacheIsOpen, Open

LEMMA FitCall ==
  ASSUME OneCaller, IndInv, FitInv, NEW t \in Threads,
         Begin(t) \/ \E n \in Nodes : ResolveStep(t, n)
  PROVE  (CallsOK /\ FramesFit /\ WiresOK)'
  <1>1. CacheIsOpen /\ \A u \in Threads : ~closing[u].active
    BY AloneCall, CallSeesOpen DEF OneCaller
  <1>2. CallsOK' /\ FramesFit'
    BY <1>1, FitBegin, FitResolve DEF FitInv
  <1>3. WiresOK'
    BY BeginEffect, ResolveEffect, WiresQuiet, WiresConstruct, WiresStore DEF FitInv, IndInv
  <1> QED
    BY <1>2, <1>3

LEMMA FitInject ==
  ASSUME OneCaller, IndInv, FitInv, NEW t \in Threads, NEW n \in Nodes, Inject(t, n)
  PROVE  (CallsOK /\ FramesFit /\ WiresOK)'
  <1>1. UNCHANGED <<g, path, frame, closing>> /\ Idle(t)
    BY DEF Inject
  <1>2. \A i \in Instances : built'[i] = built[i]
    <2>1. PICK e : e = [node |-> n, uses |-> {}, given |-> TRUE, closed |-> 0]
      OBVIOUS
    <2>2. built \in Seq(InstanceType) /\ Len(built) \in Nat
      BY DEF IndInv, TypeOK
    <2>3. built' = built \/ built' = Append(built, e)
      BY <2>1 DEF Inject
    <2> QED
      BY <2>2, <2>3 DEF Instances
  <1>3. CallsOK' /\ FramesFit'
    BY <1>1, <1>2, CallsStay, FitStays DEF FitInv, IndInv
  <1> QED
    BY <1>3, WiresInject DEF FitInv

LEMMA FitBeginClose ==
  ASSUME OneCaller, IndInv, FitInv, NEW t \in Threads, Idle(t),
         UNCHANGED <<g, cache, path, frame, built>>
  PROVE  (CallsOK /\ FramesFit /\ WiresOK)'
  <1>1. \A u \in Threads : ~closing[u].active
    BY IdleIsAlone DEF OneCaller
  <1>2. CallsOK' /\ FramesFit'
    BY CallsStay, FitStays DEF FitInv, IndInv
  <1>3. Instances' = Instances
    BY DEF Instances
  <1>4. CachedOK'
    BY <1>1 DEF FitInv, WiresOK, CachedOK, Open
  <1>5. UsesFit' /\ NoDanglingWire'
    BY <1>3 DEF FitInv, WiresOK, UsesFit, NoDanglingWire, Held, InHand, Open
  <1> QED
    BY <1>2, <1>4, <1>5 DEF WiresOK

\* What a resource is wired to is closed after it.
LEMMA WiredIsLater ==
  ASSUME OneCaller, IndInv, LoopInv, FitInv, NEW t \in Threads, NEW n \in Nodes,
         closing[t].active, n \in Pending(t), \A m \in Pending(t) : TopoPos(m) <= TopoPos(n),
         NEW i \in Instances, Open(i), Held(i)
  PROVE  closing[t].todo[n] \notin built[i].uses
  <1>1. PICK old : old = closing[t].todo[n]
    OBVIOUS
  <1>2. PICK m \in Nodes : m = built[i].node
    BY InstanceNode DEF IndInv
  <1>3. cache[m] = i /\ i # NoInst
    <2>1. ~Handed(i, m)
      BY CloseIsAlone DEF OneCaller, FitInv, Handed
    <2> QED
      BY <1>2, <2>1, HeldIs, InstanceNode DEF IndInv
  <1>4. n \in Declared /\ old # NoInst /\ n \in Nodes
    BY <1>1 DEF Pending
  <1>5. closing[t].keys # {} => n \in closing[t].keys
    BY <1>1, <1>4 DEF LoopInv, LoopOK
  <1>6. cache[n] = old
    BY <1>1, <1>5 DEF FitInv, AloneOK, Selected
  <1>7. built[old].node = n
    BY <1>4, <1>6 DEF FitInv, WiresOK, CachedOK
  <1> SUFFICES ASSUME old \in built[i].uses PROVE FALSE
    BY <1>1
  <1>8. n \in ToSet(g.uses[m])
    BY <1>2, <1>7 DEF FitInv, WiresOK, UsesFit
  <1>9. m \in Declared
    BY <1>3 DEF LoopInv, OnlyDeclared
  <1>10. g \in GraphType /\ g \in Graphs /\ g.topo \in Seq(Nodes)
    BY DEF LoopInv, IndInv, TypeOK, GraphType
  <1>11. TopoPos(n) < TopoPos(m) /\ TopoPos(n) \in Nat /\ TopoPos(m) \in Nat
    <2>1. Sorted(g) /\ n \in ToSet(g.deps[m])
      BY <1>8, <1>9, <1>10 DEF OneCaller, Declared
    <2>2. /\ TopoPos(m) \in DOMAIN g.topo /\ g.topo[TopoPos(m)] = m
          /\ TopoPos(n) \in DOMAIN g.topo /\ g.topo[TopoPos(n)] = n
      BY <1>4, <1>9, <1>10, TopoPosition
    <2>3. PICK j \in DOMAIN g.topo : j < TopoPos(m) /\ g.topo[j] = n
      BY <2>1, <2>2 DEF Sorted
    <2>4. TopoPos(n) = j
      BY <2>1, <2>2, <2>3 DEF Sorted
    <2> QED
      BY <1>10, <2>2, <2>3, <2>4
  <1>12. closing[t].keys # {} => m \in closing[t].keys
    <2> SUFFICES ASSUME closing[t].keys # {} PROVE m \in closing[t].keys
      OBVIOUS
    <2>1. n \in ToSet(g.uses[m]) \intersect closing[t].keys /\ closing[t].keys \in CloseSets
      BY <1>5, <1>8 DEF FitInv, AloneOK
    <2> QED
      BY <1>9, <1>10, <2>1 DEF OneCaller, Declared
  <1>13. closing[t].todo[m] = i
    BY <1>3, <1>12 DEF FitInv, AloneOK, Selected
  <1>14. m \notin closing[t].done
    BY <1>13 DEF LoopInv, LoopOK, Open
  <1>15. TopoPos(m) <= TopoPos(n)
    BY <1>3, <1>9, <1>13, <1>14 DEF Pending
  <1> QED
    BY <1>11, <1>15

LEMMA FitCloseOne ==
  ASSUME OneCaller, IndInv, LoopInv, FitInv, NEW t \in Threads, NEW n \in Nodes, CloseOne(t, n)
  PROVE  (CallsOK /\ FramesFit /\ WiresOK)'
  <1>1. PICK old : old = closing[t].todo[n]
    OBVIOUS
  <1>2. /\ UNCHANGED <<g, cache, frame>> /\ closing[t].active /\ n \in Pending(t)
        /\ \A m \in Pending(t) : TopoPos(m) <= TopoPos(n)
        /\ old \in Instances /\ old # NoInst /\ Instances' = Instances
        /\ \A i \in Instances : built'[i].node = built[i].node /\ built'[i].uses = built[i].uses
        /\ \A i \in Instances : built'[i].closed =
             IF i = old THEN built[i].closed + 1 ELSE built[i].closed
        /\ \A u \in Threads : closing'[u].todo = closing[u].todo
                           /\ closing'[u].active = closing[u].active
                           /\ closing'[u].keys = closing[u].keys
        /\ closing'[t].done = closing[t].done \union {n}
        /\ \A u \in Threads \ {t} : closing'[u] = closing[u]
    BY <1>1, CloseOneEffect DEF IndInv
  <1>3. UNCHANGED <<path, batch>>
    BY DEF CloseOne
  <1>5. \A u \in Threads, m \in Nodes : frame[u][m].pc = "none"
    BY <1>2, CloseIsAlone DEF OneCaller, FitInv
  <1>6. FramesFit'
    BY <1>2, <1>5 DEF FramesFit, FitIn
  <1>7. CallsOK'
    BY <1>2, <1>3, CallsStay DEF FitInv, IndInv
  <1>8. UsesFit'
    <2>1. \A i \in Instances : built[i].uses \subseteq Instances
      BY UsesAreInstances DEF IndInv
    <2> QED
      BY <1>2, <2>1 DEF FitInv, WiresOK, UsesFit
  <1>9. CachedOK'
    <2> SUFFICES ASSUME NEW m \in Nodes, cache[m] # NoInst
                 PROVE  /\ built'[cache[m]].node = m
                        /\ \/ Open(cache[m])'
                           \/ \E u \in Threads : closing'[u].active /\ m \in closing'[u].done
      BY <1>2 DEF CachedOK, Open
    <2>1. PICK i \in Instances : i = cache[m]
      BY CachedInstance DEF IndInv
    <2>2. built[i].node = m /\ built'[i].node = m
      BY <1>2, <2>1 DEF FitInv, WiresOK, CachedOK
    <2>3. CASE i = old
      <3>1. closing[t].keys # {} => n \in closing[t].keys
        BY <1>1, <1>2 DEF LoopInv, LoopOK
      <3>2. cache[n] = i
        BY <1>1, <1>2, <2>3, <3>1 DEF FitInv, AloneOK, Selected
      <3>3. m = n
        BY <1>2, <2>1, <2>2, <2>3, <3>2 DEF FitInv, WiresOK, CachedOK
      <3> QED
        BY <1>2, <2>1, <2>2, <3>3
    <2>4. CASE i # old
      <3>1. built'[i].closed = built[i].closed
        BY <1>2, <2>4
      <3>2. \A u \in Threads : closing[u].done \subseteq closing'[u].done
        BY <1>2
      <3> QED
        BY <1>2, <2>1, <2>2, <3>1, <3>2 DEF FitInv, WiresOK, CachedOK, Open
    <2> QED
      BY <2>3, <2>4
  <1>10. NoDanglingWire'
    <2> SUFFICES ASSUME NEW i \in Instances, Open(i)', Held(i)', NEW j \in built[i].uses
                 PROVE  built'[j].closed = 0
      BY <1>2 DEF NoDanglingWire, Open
    <2>1. Open(i)
      <3>1. built[i].closed \in Nat
        BY ClosedIsNat DEF IndInv
      <3> QED
        BY <1>2, <3>1 DEF Open
    <2>2. Held(i)
      BY <1>2 DEF Held, InHand
    <2>3. j \in Instances
      BY UsesAreInstances DEF IndInv
    <2>4. j # old
      BY <1>1, <1>2, <2>1, <2>2, WiredIsLater
    <2>5. built[j].closed = 0
      BY <2>1, <2>2 DEF FitInv, WiresOK, NoDanglingWire, Open
    <2> QED
      BY <1>2, <2>3, <2>4, <2>5
  <1> QED
    BY <1>6, <1>7, <1>8, <1>9, <1>10 DEF WiresOK

\* What a close leaves in the cache it has not closed.
LEMMA FitFinish ==
  ASSUME OneCaller, IndInv, LoopInv, FitInv, NEW t \in Threads, CloseFinish(t)
  PROVE  (CallsOK /\ FramesFit /\ WiresOK)'
  <1>1. /\ UNCHANGED <<g, path, frame, built, batch>> /\ Instances' = Instances
        /\ closing[t].active
        /\ \A u \in Threads : closing'[u] = IF u = t THEN NoClose ELSE closing[u]
    BY DEF CloseFinish, Instances, IndInv, TypeOK
  <1>2. \A u \in Threads : u = t
    BY DEF OneCaller, OneThread
  <1>4. CallsOK' /\ FramesFit'
    BY <1>1, CallsStay, FitStays DEF FitInv, IndInv
  <1>5. UsesFit'
    BY <1>1 DEF FitInv, WiresOK, UsesFit
  <1>6. \A m \in Nodes : cache'[m] = NoInst \/ (cache'[m] = cache[m] /\ m \notin closing[t].done)
    <2>1. closing[t].scope = Nodes
      BY <1>1 DEF LoopInv, LoopOK
    <2> QED
      BY <2>1 DEF CloseFinish, Forgotten
  <1>7. CachedOK'
    BY <1>1, <1>2, <1>6 DEF FitInv, WiresOK, CachedOK, Open
  <1>8. ASSUME NEW i \in Instances, Held(i)' PROVE Held(i)
    BY <1>1, <1>6, <1>8, InstanceNode DEF Held, InHand, IndInv
  <1>9. NoDanglingWire'
    BY <1>1, <1>8 DEF FitInv, WiresOK, NoDanglingWire, Open
  <1> QED
    BY <1>4, <1>5, <1>7, <1>9 DEF WiresOK

LEMMA FitStep ==
  ASSUME OneCaller, IndInv, LoopInv, FitInv, [Next]_vars
  PROVE  FitInv'
  <1>1. AloneOK'
    BY AloneStep DEF OneCaller, FitInv
  <1>2. ASSUME UNCHANGED <<g, cache, path, frame, built, closing>>
        PROVE  (CallsOK /\ FramesFit /\ WiresOK)'
    BY <1>2, FitQuiet
  <1>3. ASSUME NEW t \in Threads, Inside(t) PROVE (CallsOK /\ FramesFit /\ WiresOK)'
    BY <1>3, FitCall, FitCloseOne, FitFinish DEF Inside
  <1>4. ASSUME NEW t \in Threads, Calls(t) PROVE (CallsOK /\ FramesFit /\ WiresOK)'
    BY <1>2, <1>4, FitInject, FitBeginClose DEF Calls, CallResolve, Close, CloseIDs
  <1> QED
    BY <1>1, <1>2, <1>3, <1>4 DEF FitInv, Next, Finished, vars

LEMMA InitFitInv == Init => FitInv
  <1> SUFFICES ASSUME Init PROVE FitInv
    OBVIOUS
  <1>1. Instances = {} /\ \A t \in Threads : ~closing[t].active /\ path[t] = <<>>
    BY DEF Init, Instances, NoClose
  <1>2. \A n \in Nodes : cache[n] = NoInst /\ \A t \in Threads : frame[t][n].pc = "none"
    BY DEF Init, NoFrame
  <1>3. CallsOK
    <2>1. Len(<<>>) = 0 /\ 1 .. 0 - 1 = {}
      OBVIOUS
    <2> QED
      BY <1>1, <2>1 DEF CallsOK, CallOK
  <1>4. FramesFit
    BY <1>2 DEF FramesFit, FitIn
  <1> QED
    BY <1>1, <1>2, <1>3, <1>4 DEF FitInv, WiresOK, AloneOK, CachedOK, UsesFit, NoDanglingWire

\* What reverse topological order is for (container.go:26): when one goroutine
\* resolves and closes in turn, no resource that can still be used is wired to
\* a closed one, at any moment of any Close or CloseIDs that spares no
\* dependent of what it closes.
THEOREM NoneHoldsClosed ==
  ASSUME OneCaller
  PROVE  Spec => []NoDanglingWire
  <1>1. Init => FitInv
    BY InitFitInv
  <1>2. IndInv /\ LoopInv /\ FitInv /\ [Next]_vars => FitInv'
    BY FitStep
  <1>3. FitInv => NoDanglingWire
    BY DEF FitInv, WiresOK
  <1> QED
    BY <1>1, <1>2, <1>3, LoopInvariance, PTL DEF Spec

=============================================================================
