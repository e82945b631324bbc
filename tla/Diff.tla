-------------------------------- MODULE Diff --------------------------------
(***************************************************************************)
(* diffSnapshots of exp/reload/reconciler.go, with the loop that carries a *)
(* rebuild up to the dependents as it runs: once over the new topological  *)
(* order.  Reconciler.tla uses what this module shows it to compute.       *)
(***************************************************************************)
EXTENDS Snapshots

CONSTANT Containers   \* the compiled containers to compare

ASSUME ContainersAssumption == \A c \in Containers : IsCompiled(c)

VARIABLES
  old, new,   \* the containers
  phase,      \* how far diffSnapshots has come
  rebuild,    \* rebuildSet
  i,          \* the next place of the loop over newTopo
  result      \* the Result

vars == <<old, new, phase, rebuild, i, result>>

OldSnap == Snapshot(old)
NewSnap == Snapshot(new)

NoResult == Lists(<<>>, <<>>, <<>>, <<>>, {})

Init ==
  /\ old \in Containers /\ new \in Containers
  /\ phase = "compare" /\ rebuild = {} /\ i = 1 /\ result = NoResult

Compare ==
  /\ phase = "compare"
  /\ rebuild' = Seeds(OldSnap, NewSnap)
  /\ phase' = "propagate"
  /\ UNCHANGED <<old, new, i, result>>

\* Faulty: only what needs an added or changed node itself is rebuilt.
PropagateOneLevel ==
  /\ phase = "propagate" /\ i <= Len(new.topo)
  /\ rebuild' = rebuild \union
       {k \in {new.topo[i]} : NewSnap[k].deps \intersect Seeds(OldSnap, NewSnap) # {}}
  /\ i' = i + 1
  /\ UNCHANGED <<old, new, phase, result>>

\* One turn of the loop: a node with a rebuilt dependency is rebuilt.
Propagate ==
  /\ phase = "propagate" /\ i <= Len(new.topo)
  /\ rebuild' = rebuild \union
       {k \in {new.topo[i]} : NewSnap[k].deps \intersect rebuild # {}}
  /\ i' = i + 1
  /\ UNCHANGED <<old, new, phase, result>>

Collect ==
  /\ phase = "propagate" /\ i > Len(new.topo)
  /\ result' = Lists(OldSnap, NewSnap, old.topo, new.topo, rebuild)
  /\ phase' = "done"
  /\ UNCHANGED <<old, new, rebuild, i>>

Finished == phase = "done" /\ UNCHANGED vars

Next == Compare \/ Propagate \/ Collect \/ Finished

Spec == Init /\ [][Next]_vars

-----------------------------------------------------------------------------
(***************************************************************************)
(* Properties.                                                             *)
(***************************************************************************)

ResultType == [added : Seq(Keys), removed : Seq(Keys), reused : Seq(Keys),
               rebuilt : Seq(Keys), closedOld : Seq(Keys)]

\* The locals of diffSnapshots: only nodes of the new container are rebuilt.
TypeOK ==
  /\ phase \in {"compare", "propagate", "done"}
  /\ rebuild \subseteq DOMAIN new.spec
  /\ i \in 1 .. Len(new.topo) + 1
  /\ result \in ResultType

\* One pass over newTopo is enough (reconciler.go:242-262): it rebuilds the
\* added and changed nodes and everything above them, however far, and
\* nothing else.
RebuiltIsLeast == phase = "done" => rebuild = MustRebuild(OldSnap, NewSnap)

\* Every old instance is carried over or closed, and never both
\* (reconciler.go:284-297); every new node is reused or rebuilt.
OldIsAccountedFor ==
  phase = "done" =>
    /\ ToSet(result.closedOld) = DOMAIN old.spec \ ToSet(result.reused)
    /\ ToSet(result.reused) \subseteq DOMAIN old.spec
    /\ ToSet(result.rebuilt) = DOMAIN new.spec \ ToSet(result.reused)

OneLineSpecs == \A c \in {old, new} : \A k \in DOMAIN c.spec : OneLine(c.spec[k])

\* A reused instance keeps the instances it was built with: what it declared
\* in the old container is reused too, and none of it is in ClosedOld
\* (reconciler.go:98, 119).  This needs the dependencies in the hash, and
\* options of one line: a second line of the options may read like a dependency
\* (reconciler.go:175-180).
ReusedStandsOnReused ==
  phase = "done" /\ OneLineSpecs =>
    \A k \in ToSet(result.reused) : \A d \in ToSet(old.spec[k].deps) :
      d \in ToSet(result.reused) /\ d \notin ToSet(result.closedOld)

\* Nothing that its hooks could see of k changed: its driver, its options and
\* the dependencies it declares, in whatever order.
Unchanged(k) ==
  /\ k \in DOMAIN old.spec
  /\ old.spec[k].driver = new.spec[k].driver
  /\ Decoded(old.spec[k].options) = Decoded(new.spec[k].options)
  /\ SortedDeps(old.spec[k].deps) = SortedDeps(new.spec[k].deps)

\* "Node is reused (unchanged and deps not rebuilt)" (reconciler.go:27).
ReusedIsUnchanged ==
  phase = "done" =>
    \A k \in ToSet(result.reused) : \A m \in Below(k, new.spec) : Unchanged(m)

LosslessSpecs == \A c \in {old, new} : \A k \in DOMAIN c.spec : Lossless(c.spec[k])

\* What there is of that sentence, in both directions: as long as options take
\* one line and survive float64, reused are just the nodes that are unchanged
\* down to the leaves they stand on (reconciler.go:168-201, 242-262).
ReusesTheUnchanged ==
  phase = "done" /\ OneLineSpecs /\ LosslessSpecs =>
    \A k \in DOMAIN new.spec :
      k \in ToSet(result.reused) <=> \A m \in Below(k, new.spec) : Unchanged(m)

=============================================================================
