----------------------------- MODULE DiffProofs -----------------------------
(***************************************************************************)
(* One pass over the new topological order rebuilds what must be rebuilt   *)
(* and nothing else, for every pair of compiled containers.  Where options *)
(* take one line and survive float64, what it leaves is just what is       *)
(* unchanged down to the leaves.                                           *)
(***************************************************************************)
EXTENDS Diff, SnapshotProofs

\* Every node of the new container above i has been looked at.
Passed(n, R, k) ==
  \A j \in 1 .. k - 1 : NewSnap[n[j]].deps \intersect R # {} => n[j] \in R

\* R is in every set that has the seeds and all that needs one of its members.
NoMoreThanNeeded(R) ==
  \A S \in SUBSET DOMAIN NewSnap :
    Seeds(OldSnap, NewSnap) \subseteq S /\ ClosedUpward(S, NewSnap) => R \subseteq S

\* The invariant of the loop.
IndInv ==
  /\ old \in Containers /\ new \in Containers
  /\ phase \in {"compare", "propagate", "done"}
  /\ i \in 1 .. Len(new.topo) + 1
  /\ result \in ResultType
  /\ phase = "compare" => i = 1 /\ rebuild = {}
  /\ phase # "compare" =>
       /\ Seeds(OldSnap, NewSnap) \subseteq rebuild
       /\ rebuild \subseteq DOMAIN NewSnap
       /\ NoMoreThanNeeded(rebuild)
       /\ Passed(new.topo, rebuild, i)
  /\ phase = "done" =>
       /\ i = Len(new.topo) + 1
       /\ result = Lists(OldSnap, NewSnap, old.topo, new.topo, rebuild)

\* The containers have an order each.
LEMMA NewOrderIs ==
  ASSUME IndInv
  PROVE  /\ IsCompiled(old) /\ IsCompiled(new)
         /\ Len(old.topo) \in Nat /\ Len(new.topo) \in Nat
         /\ old.topo \in Seq(Keys) /\ new.topo \in Seq(Keys)
         /\ \A j \in 1 .. Len(new.topo) : new.topo[j] \in DOMAIN new.spec
<1>1. IsCompiled(old) /\ IsCompiled(new)
  BY ContainersAssumption DEF IndInv
<1> QED
  BY <1>1, OrderIs

\* A set that is closed for the whole order is closed upward.
LEMMA WholeOrderPassed ==
  ASSUME IsCompiled(new), NEW R, Passed(new.topo, R, Len(new.topo) + 1)
  PROVE  ClosedUpward(R, NewSnap)
<1> SUFFICES ASSUME NEW k \in DOMAIN NewSnap, NewSnap[k].deps \intersect R # {}
             PROVE  k \in R
  BY DEF ClosedUpward
<1>1. k \in DOMAIN new.spec
  BY SnapshotIs DEF NewSnap
<1>2. PICK j \in 1 .. Len(new.topo) : new.topo[j] = k
  BY <1>1, OrderIs
<1>3. Len(new.topo) \in Nat
  BY OrderIs
<1>4. j \in 1 .. (Len(new.topo) + 1) - 1
  BY <1>3
<1> QED
  BY <1>2, <1>4 DEF Passed

\* Init begins with no node looked at.
LEMMA InitIndInv == Init => IndInv
<1> SUFFICES ASSUME Init PROVE IndInv
  OBVIOUS
<1>1. IsCompiled(new)
  BY ContainersAssumption DEF Init
<1>2. Len(new.topo) \in Nat
  BY <1>1, OrderIs
<1>3. <<>> \in Seq(Keys)
  OBVIOUS
<1>4. result \in ResultType
  <2>1. result = Lists(<<>>, <<>>, <<>>, <<>>, {})
    BY DEF Init, NoResult
  <2>2. result = [added |-> result.added, removed |-> result.removed, reused |-> result.reused,
                  rebuilt |-> result.rebuilt, closedOld |-> result.closedOld]
    BY <2>1 DEF Lists
  <2>3. /\ result.added \in Seq(Keys) /\ result.removed \in Seq(Keys)
        /\ result.reused \in Seq(Keys) /\ result.rebuilt \in Seq(Keys)
        /\ result.closedOld \in Seq(Keys)
    BY <1>3, <2>1, ListsTyped
  <2> QED
    BY <2>2, <2>3 DEF ResultType
<1> QED
  BY <1>2, <1>4 DEF Init, IndInv

\* The comparison puts in the seeds, and those are in every such set.
LEMMA CompareStep ==
  ASSUME IndInv, Compare
  PROVE  IndInv'
<1> USE DEF Compare
<1>1. UNCHANGED <<OldSnap, NewSnap>> /\ i = 1 /\ i' = 1
  BY DEF OldSnap, NewSnap, IndInv
<1>2. NoMoreThanNeeded(rebuild)'
  BY <1>1 DEF NoMoreThanNeeded
<1>3. Passed(new.topo, rebuild, i)'
  BY <1>1 DEF Passed
<1>4. (Seeds(OldSnap, NewSnap) \subseteq rebuild /\ rebuild \subseteq DOMAIN NewSnap)'
  BY <1>1 DEF Seeds, Added, Changed
<1> QED
  BY <1>1, <1>2, <1>3, <1>4 DEF IndInv

\* A turn of the loop adds a node only if it needs a rebuilt one.  No node in
\* front of it needs it, since the order is topological.
LEMMA PropagateStep ==
  ASSUME IndInv, Propagate
  PROVE  IndInv'
<1> USE DEF Propagate
<1> DEFINE k == new.topo[i]
           more == {m \in {k} : NewSnap[m].deps \intersect rebuild # {}}
<1>1. UNCHANGED <<OldSnap, NewSnap, new, old, phase>> /\ rebuild' = rebuild \union more
  BY DEF OldSnap, NewSnap
<1>2. /\ IsCompiled(new) /\ i \in 1 .. Len(new.topo) /\ i' = i + 1
      /\ Len(new.topo) \in Nat
  BY NewOrderIs DEF IndInv
<1>3. k \in DOMAIN NewSnap
  BY <1>2, OrderIs, SnapshotIs DEF NewSnap
<1>4. /\ Seeds(OldSnap, NewSnap) \subseteq rebuild
      /\ rebuild \subseteq DOMAIN NewSnap
      /\ NoMoreThanNeeded(rebuild)
      /\ Passed(new.topo, rebuild, i)
  BY DEF IndInv
<1>5. NoMoreThanNeeded(rebuild)'
  <2> SUFFICES ASSUME NEW S \in SUBSET DOMAIN NewSnap,
                      Seeds(OldSnap, NewSnap) \subseteq S, ClosedUpward(S, NewSnap)
               PROVE  rebuild \union more \subseteq S
    BY <1>1 DEF NoMoreThanNeeded
  <2>1. rebuild \subseteq S
    BY <1>4 DEF NoMoreThanNeeded
  <2>2. more \subseteq S
    BY <2>1, <1>3 DEF ClosedUpward
  <2> QED
    BY <2>1, <2>2
<1>6. Passed(new.topo, rebuild, i)'
  <2> SUFFICES ASSUME NEW j \in 1 .. i,
                      NewSnap[new.topo[j]].deps \intersect (rebuild \union more) # {}
               PROVE  new.topo[j] \in rebuild \union more
    BY <1>1, <1>2 DEF Passed
  <2> HIDE DEF k, more
  <2> HIDE DEF Propagate
  <2>0. j \in 1 .. Len(new.topo) /\ new.topo[j] \in DOMAIN new.spec
    <3>1. j \in 1 .. Len(new.topo)
      BY <1>2
    <3> QED
      BY <3>1, <1>2, OrderIs
  <2>1. NewSnap[new.topo[j]].deps = ToSet(new.spec[new.topo[j]].deps)
    BY <2>0, SnapshotIs DEF NewSnap
  <2>2. k \notin NewSnap[new.topo[j]].deps
    <3>1. SUFFICES ASSUME k \in ToSet(new.spec[new.topo[j]].deps) PROVE FALSE
      BY <2>1
    <3>2. \A d \in ToSet(new.spec[new.topo[j]].deps) :
            \E m \in 1 .. j - 1 : new.topo[m] = d
      BY <2>0, <1>2, OrderIs
    <3>3. PICK m \in 1 .. j - 1 : new.topo[m] = k
      BY <3>1, <3>2
    <3>4. m \in 1 .. Len(new.topo) /\ i \in 1 .. Len(new.topo)
      BY <1>2, <2>0
    <3>5. \A p, q \in 1 .. Len(new.topo) : new.topo[p] = new.topo[q] => p = q
      BY <1>2, OrderIs
    <3>6. new.topo[m] = new.topo[i]
      BY <3>3 DEF k
    <3>7. m = i
      BY <3>4, <3>5, <3>6
    <3> QED
      BY <3>7, <1>2
  <2>3. NewSnap[new.topo[j]].deps \intersect rebuild # {}
    BY <2>2 DEF more
  <2>4. CASE j = i
    BY <2>3, <2>4 DEF k, more
  <2>5. CASE j # i
    <3>1. j \in 1 .. i - 1
      BY <2>5, <1>2
    <3> QED
      BY <3>1, <2>3, <1>4 DEF Passed
  <2> QED
    BY <2>4, <2>5
<1>7. (Seeds(OldSnap, NewSnap) \subseteq rebuild /\ rebuild \subseteq DOMAIN NewSnap)'
  BY <1>1, <1>3, <1>4
<1>8. (i \in 1 .. Len(new.topo) + 1)' /\ phase' = "propagate"
  BY <1>1, <1>2
<1> HIDE DEF k, more
<1> QED
  BY <1>1, <1>2, <1>5, <1>6, <1>7, <1>8 DEF IndInv

\* Every step keeps the invariant of the loop.
LEMMA IndInvStep ==
  ASSUME IndInv, [Next]_vars
  PROVE  IndInv'
<1>1. CASE Compare
  BY <1>1, CompareStep
<1>2. CASE Propagate
  BY <1>2, PropagateStep
<1>3. CASE Collect
  <2>1. UNCHANGED <<old, new, rebuild, i, OldSnap, NewSnap>> /\ phase = "propagate"
    BY <1>3 DEF Collect, OldSnap, NewSnap
  <2>2. i = Len(new.topo) + 1 /\ i' = Len(new'.topo) + 1
    BY <1>3, <2>1, NewOrderIs DEF Collect, IndInv
  <2>3. /\ phase' = "done"
        /\ result' = Lists(OldSnap, NewSnap, old.topo, new.topo, rebuild)
    BY <1>3 DEF Collect
  <2>4. result' \in ResultType
    <3>1. result' = [added |-> result'.added, removed |-> result'.removed,
                     reused |-> result'.reused, rebuilt |-> result'.rebuilt,
                     closedOld |-> result'.closedOld]
      BY <2>3 DEF Lists
    <3>2. /\ result'.added \in Seq(Keys) /\ result'.removed \in Seq(Keys)
          /\ result'.reused \in Seq(Keys) /\ result'.rebuilt \in Seq(Keys)
          /\ result'.closedOld \in Seq(Keys)
      BY <2>3, NewOrderIs, ListsTyped
    <3> QED
      BY <3>1, <3>2 DEF ResultType
  <2>5. /\ (Seeds(OldSnap, NewSnap) \subseteq rebuild)'
        /\ (rebuild \subseteq DOMAIN NewSnap)'
        /\ NoMoreThanNeeded(rebuild)'
        /\ Passed(new.topo, rebuild, i)'
    BY <2>1 DEF IndInv, NoMoreThanNeeded, Passed
  <2>6. (result = Lists(OldSnap, NewSnap, old.topo, new.topo, rebuild))'
    BY <2>1, <2>3
  <2>7. /\ old' \in Containers /\ new' \in Containers
        /\ i' \in 1 .. Len(new'.topo) + 1
    BY <2>1 DEF IndInv
  <2> QED
    BY <2>2, <2>3, <2>4, <2>5, <2>6, <2>7 DEF IndInv
<1>4. CASE UNCHANGED vars
  BY <1>4 DEF vars, IndInv, NoMoreThanNeeded, Passed, OldSnap, NewSnap
<1> QED
  BY <1>1, <1>2, <1>3, <1>4 DEF Next, Finished

\* When the loop is over nothing above a rebuilt node is left.
LEMMA LoopIsEnough ==
  ASSUME IndInv
  PROVE  RebuiltIsLeast
<1> SUFFICES ASSUME phase = "done" PROVE rebuild = MustRebuild(OldSnap, NewSnap)
  BY DEF RebuiltIsLeast
<1>1. ClosedUpward(rebuild, NewSnap)
  BY WholeOrderPassed, NewOrderIs DEF IndInv
<1>2. /\ Seeds(OldSnap, NewSnap) \subseteq rebuild
      /\ rebuild \in SUBSET DOMAIN NewSnap
      /\ NoMoreThanNeeded(rebuild)
  BY DEF IndInv
<1>3. MustRebuild(OldSnap, NewSnap) \subseteq rebuild
  BY <1>1, <1>2 DEF MustRebuild
<1>4. rebuild \subseteq MustRebuild(OldSnap, NewSnap)
  BY <1>2 DEF MustRebuild, NoMoreThanNeeded
<1> QED
  BY <1>3, <1>4

\* The rebuild set of diffSnapshots (reconciler.go:242-262) is the least set
\* that has the added and the changed nodes and all that needs one of it, for
\* all specs, all hashes and every topological order of the new nodes.
THEOREM RebuildsLeast == Spec => []RebuiltIsLeast
<1>1. Init => IndInv
  BY InitIndInv
<1>2. IndInv /\ [Next]_vars => IndInv'
  BY IndInvStep
<1>3. IndInv => RebuiltIsLeast
  BY LoopIsEnough
<1> QED
  BY <1>1, <1>2, <1>3, PTL DEF Spec

-----------------------------------------------------------------------------
(***************************************************************************)
(* What the Result lists.                                                  *)
(***************************************************************************)
\* The locals of diffSnapshots have their types in every reachable state.
THEOREM DiffTyped == Spec => []TypeOK
<1>1. IndInv => TypeOK
  <2> SUFFICES ASSUME IndInv PROVE TypeOK
    OBVIOUS
  <2>1. DOMAIN NewSnap = DOMAIN new.spec
    BY SnapshotIs DEF NewSnap
  <2>2. rebuild \subseteq DOMAIN new.spec
    BY <2>1 DEF IndInv
  <2> QED
    BY <2>2 DEF IndInv, TypeOK
<1> QED
  BY <1>1, InitIndInv, IndInvStep, PTL DEF Spec

\* The lists at the end, and what their nodes stand on.
LEMMA ResultIs ==
  ASSUME IndInv, phase = "done"
  PROVE  /\ ToSet(result.reused) = DOMAIN new.spec \ rebuild
         /\ ToSet(result.rebuilt) = rebuild
         /\ ToSet(result.closedOld) = DOMAIN old.spec \ ToSet(result.reused)
         /\ rebuild \subseteq DOMAIN new.spec
         /\ \A k \in ToSet(result.reused) :
              /\ k \in DOMAIN old.spec
              /\ HashSpec(old.spec[k]) = HashSpec(new.spec[k])
              /\ ToSet(new.spec[k].deps) \subseteq ToSet(result.reused)
<1>1. /\ Seeds(OldSnap, NewSnap) \subseteq rebuild
      /\ ClosedUpward(rebuild, NewSnap)
      /\ IsCompiled(old) /\ IsCompiled(new)
  BY WholeOrderPassed, NewOrderIs DEF IndInv
<1>2. rebuild \subseteq DOMAIN new.spec
  <2>1. DOMAIN NewSnap = DOMAIN new.spec
    BY SnapshotIs DEF NewSnap
  <2> QED
    BY <2>1 DEF IndInv
<1>3. result = Lists(Snapshot(old), Snapshot(new), old.topo, new.topo, rebuild)
  BY DEF IndInv, OldSnap, NewSnap
<1>4. /\ ToSet(result.reused) = DOMAIN new.spec \ rebuild
      /\ ToSet(result.rebuilt) = rebuild
      /\ ToSet(result.closedOld) = DOMAIN old.spec \ (DOMAIN new.spec \ rebuild)
  BY <1>1, <1>2, <1>3, ListsAre
<1>5. \A k \in DOMAIN new.spec \ rebuild :
        /\ k \in DOMAIN old.spec
        /\ HashSpec(old.spec[k]) = HashSpec(new.spec[k])
        /\ ToSet(new.spec[k].deps) \subseteq DOMAIN new.spec \ rebuild
  BY <1>1, KeptStandsOnKept DEF OldSnap, NewSnap
<1> QED
  BY <1>2, <1>4, <1>5

\* Every old instance is carried over or closed and never both, and every new
\* node is reused or rebuilt (reconciler.go:284-297), for all specs.
THEOREM AccountsForOld == Spec => []OldIsAccountedFor
<1>1. IndInv => OldIsAccountedFor
  <2> SUFFICES ASSUME IndInv, phase = "done" PROVE OldIsAccountedFor
    BY DEF OldIsAccountedFor
  <2> QED
    BY ResultIs DEF OldIsAccountedFor
<1> QED
  BY <1>1, InitIndInv, IndInvStep, PTL DEF Spec

\* Where options take one line, nodes with one hash declare the same.
LEMMA SameWhenOneLine ==
  ASSUME IndInv, OneLineSpecs, NEW k \in DOMAIN old.spec, k \in DOMAIN new.spec,
         HashSpec(old.spec[k]) = HashSpec(new.spec[k])
  PROVE  /\ old.spec[k].driver = new.spec[k].driver
         /\ NormalizeJSON(old.spec[k].options) = NormalizeJSON(new.spec[k].options)
         /\ SortedDeps(old.spec[k].deps) = SortedDeps(new.spec[k].deps)
         /\ ToSet(old.spec[k].deps) = ToSet(new.spec[k].deps)
<1>1. OneLine(old.spec[k]) /\ OneLine(new.spec[k])
  BY DEF OneLineSpecs
<1>2. old.spec[k].deps \in Seq(Keys) /\ new.spec[k].deps \in Seq(Keys)
  BY NewOrderIs DEF IsCompiled
<1> QED
  BY <1>1, <1>2, SameHash

\* A reused instance stands on reused instances, none of which ClosedOld lists
\* (reconciler.go:98-105, 119), for all specs whose options take one line.
\* Without the dependencies in the hash, line 177, this would not follow.
THEOREM ReuseIsClosed == Spec => []ReusedStandsOnReused
<1>1. IndInv => ReusedStandsOnReused
  <2> SUFFICES ASSUME IndInv, phase = "done", OneLineSpecs,
                      NEW k \in ToSet(result.reused), NEW d \in ToSet(old.spec[k].deps)
               PROVE  d \in ToSet(result.reused) /\ d \notin ToSet(result.closedOld)
    BY DEF ReusedStandsOnReused
  <2>1. k \in DOMAIN old.spec /\ k \in DOMAIN new.spec
    BY ResultIs
  <2>2. ToSet(old.spec[k].deps) = ToSet(new.spec[k].deps)
    BY <2>1, ResultIs, SameWhenOneLine
  <2> QED
    BY <2>2, ResultIs
<1> QED
  BY <1>1, InitIndInv, IndInvStep, PTL DEF Spec

\* What a dependency stands on, the node stands on.
LEMMA BelowDependency ==
  ASSUME NEW spec, NEW k \in DOMAIN spec, NEW d \in ToSet(spec[k].deps)
  PROVE  /\ k \in Below(k, spec)
         /\ Below(d, spec) \subseteq Below(k, spec)
<1>1. k \in Below(k, spec)
  BY DEF Below
<1>2. ASSUME NEW m \in Below(d, spec)
      PROVE  m \in Below(k, spec)
  <2> SUFFICES ASSUME NEW S \in SUBSET DOMAIN spec, k \in S,
                      \A n \in S : ToSet(spec[n].deps) \subseteq S
               PROVE  m \in S
    BY <1>2 DEF Below
  <2>1. d \in S
    OBVIOUS
  <2> QED
    BY <1>2, <2>1 DEF Below
<1> QED
  BY <1>1, <1>2

\* Where options take one line and survive float64, a node is reused just when
\* nothing that its hooks could see of it changed, nor of anything it stands
\* on (reconciler.go:27, 242-262).
THEOREM ReusesUnchanged == Spec => []ReusesTheUnchanged
<1>1. ASSUME IndInv, phase = "done", OneLineSpecs, LosslessSpecs, NEW k \in ToSet(result.reused),
             NEW m \in Below(k, new.spec)
      PROVE  Unchanged(m)
  <2>1. ToSet(result.reused) \in SUBSET DOMAIN new.spec
    BY <1>1, ResultIs
  <2>2. \A n \in ToSet(result.reused) : ToSet(new.spec[n].deps) \subseteq ToSet(result.reused)
    BY <1>1, ResultIs
  <2>3. m \in ToSet(result.reused)
    BY <1>1, <2>1, <2>2 DEF Below
  <2>4. /\ m \in DOMAIN old.spec /\ m \in DOMAIN new.spec
        /\ HashSpec(old.spec[m]) = HashSpec(new.spec[m])
    BY <1>1, <2>1, <2>3, ResultIs
  <2>5. Lossless(old.spec[m]) /\ Lossless(new.spec[m])
    BY <1>1, <2>4 DEF LosslessSpecs
  <2> QED
    BY <1>1, <2>4, <2>5, SameWhenOneLine DEF Unchanged, Lossless
<1>2. ASSUME IndInv, phase = "done", LosslessSpecs, NEW k \in DOMAIN new.spec,
             \A m \in Below(k, new.spec) : Unchanged(m)
      PROVE  k \in ToSet(result.reused)
  <2> DEFINE T == {n \in DOMAIN new.spec : \E m \in Below(n, new.spec) : ~Unchanged(m)}
  <2>1. DOMAIN OldSnap = DOMAIN old.spec /\ DOMAIN NewSnap = DOMAIN new.spec
    BY SnapshotIs DEF OldSnap, NewSnap
  <2>2. ASSUME NEW n \in DOMAIN new.spec, Unchanged(n)
        PROVE  n \notin Seeds(OldSnap, NewSnap)
    <3>1. n \in DOMAIN old.spec /\ HashSpec(old.spec[n]) = HashSpec(new.spec[n])
      <4>1. Lossless(old.spec[n]) /\ Lossless(new.spec[n])
        BY <1>2, <2>2 DEF LosslessSpecs, Unchanged
      <4>2. NormalizeJSON(old.spec[n].options) = NormalizeJSON(new.spec[n].options)
        BY <2>2, <4>1 DEF Unchanged, Lossless
      <4> QED
        BY <2>2, <4>2 DEF Unchanged, HashSpec
    <3>2. OldSnap[n].hash = NewSnap[n].hash
      BY <3>1, SnapshotIs DEF OldSnap, NewSnap
    <3> QED
      BY <2>1, <3>1, <3>2 DEF Seeds, Added, Changed
  <2>3. \A n \in DOMAIN new.spec : n \in Below(n, new.spec)
    BY DEF Below
  <2>4. Seeds(OldSnap, NewSnap) \subseteq T
    <3>1. Seeds(OldSnap, NewSnap) \subseteq DOMAIN new.spec
      BY <2>1 DEF Seeds, Added, Changed
    <3> QED
      BY <2>2, <2>3, <3>1
  <2>5. ClosedUpward(T, NewSnap)
    <3> SUFFICES ASSUME NEW n \in DOMAIN new.spec, NewSnap[n].deps \intersect T # {}
                 PROVE  n \in T
      BY <2>1 DEF ClosedUpward
    <3>1. NewSnap[n].deps = ToSet(new.spec[n].deps)
      BY SnapshotIs DEF NewSnap
    <3>2. PICK d \in ToSet(new.spec[n].deps) : d \in T
      BY <3>1
    <3>3. Below(d, new.spec) \subseteq Below(n, new.spec)
      BY BelowDependency
    <3> QED
      BY <3>2, <3>3
  <2>6. T \in SUBSET DOMAIN NewSnap
    BY <2>1
  <2>7. NoMoreThanNeeded(rebuild)
    BY <1>2 DEF IndInv
  <2> HIDE DEF T
  <2>8. rebuild \subseteq T
    BY <2>4, <2>5, <2>6, <2>7 DEF NoMoreThanNeeded
  <2>9. k \notin T
    BY <1>2 DEF T
  <2> QED
    BY <1>2, <2>8, <2>9, ResultIs
<1>3. IndInv => ReusesTheUnchanged
  <2> SUFFICES ASSUME IndInv, phase = "done", OneLineSpecs, LosslessSpecs
               PROVE  ReusesTheUnchanged
    BY DEF ReusesTheUnchanged
  <2> QED
    BY <1>1, <1>2 DEF ReusesTheUnchanged
<1> QED
  BY <1>3, InitIndInv, IndInvStep, PTL DEF Spec

=============================================================================
