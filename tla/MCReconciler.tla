---------------------------- MODULE MCReconciler ----------------------------
(* Small instances of Reconciler for TLC. *)
EXTENDS Reconciler

CONSTANTS a, b, c, r1, r2, u1

MCKeys == {a, b, c}
MCPlace == a :> 1 @@ b :> 2 @@ c :> 3
MCNodes == Made \X MCKeys

S(v, deps) == [driver |-> "d", options |-> JSON(v, FALSE), deps |-> deps]

Compiled(spec, topo) == [spec |-> spec, topo |-> topo]

\* b and c need a.  Then b changes; or a changes and c goes.
Base == Compiled(a :> S(1, <<>>) @@ b :> S(1, <<a>>) @@ c :> S(1, <<a>>), <<a, b, c>>)
TopNew == Compiled(a :> S(1, <<>>) @@ b :> S(2, <<a>>) @@ c :> S(1, <<a>>), <<a, b, c>>)
LeafNew == Compiled(a :> S(2, <<>>) @@ b :> S(1, <<a>>), <<a, b>>)

MCConfigs == {TopNew, LeafNew}

\* New with initial specs and without.
MCInitials == {<<Base>>, <<>>}
MCGraphs == {GraphOf(cs) : cs \in MCInitials}

MCCanFail == {<<2, b>>, <<3, a>>}

OneCall == [t \in Threads |-> 1]

\* The two threads that reconcile are interchangeable.
ReconcilerSymmetry == Permutations(Reconcilers)
=============================================================================
