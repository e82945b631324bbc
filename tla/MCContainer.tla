---------------------------- MODULE MCContainer ----------------------------
(* Small instances of Container for TLC. *)
EXTENDS ContainerPool

CONSTANTS a, b, c, t1, t2, t3

MCNodes == {a, b, c}

Graph(deps, uses, topo) == [deps |-> deps, uses |-> uses, topo |-> topo]

OnNodes(da, db, dc) == a :> da @@ b :> db @@ c :> dc

\* c needs b and a, b needs a; the Build of c keeps only a.
Triangle == Graph(OnNodes(<<>>, <<a>>, <<b, a>>), OnNodes(<<>>, <<a>>, <<a>>),
                  <<a, b, c>>)

\* b and c need a.
Fork == LET d == OnNodes(<<>>, <<a>>, <<a>>) IN Graph(d, d, <<a, b, c>>)

\* c needs b, b needs a.
Chain == LET d == OnNodes(<<>>, <<a>>, <<b>>) IN Graph(d, d, <<a, b, c>>)

\* c resolves a from its Build without declaring it and b is no node.
Undeclared == Graph(OnNodes(<<>>, <<>>, <<>>), OnNodes(<<>>, <<>>, <<a>>), <<a, c>>)

\* a's Build resolves a itself, undeclared.
Selfish == Graph(OnNodes(<<>>, <<a>>, <<b>>), OnNodes(<<a>>, <<a>>, <<b>>), <<a, b, c>>)

\* a and b resolve each other from their Builds, undeclared.
Mutual == Graph(OnNodes(<<>>, <<>>, <<>>), OnNodes(<<b>>, <<a>>, <<>>), <<a, b, c>>)

ResolveGraphs == {Triangle, Undeclared, Selfish}
ShutdownGraphs == {Fork, Chain}
ChainOnly == {Chain}
MutualOnly == {Mutual}

AllSingles == {<<a>>, <<b>>, <<c>>}
ResolveBatches == {<<b>>, <<c>>, <<a, c>>}
TwoBatches == {<<b>>, <<a, c>>}

AnyIDs == SUBSET MCNodes

\* Sets that hold every node that needs one of theirs, and the empty list.
UpperIDs == {{}, {c}, {b, c}, {a, b, c}}

\* Bounds: one call each, four each, and two for a closer.
OneCall == [t \in Threads |-> 1]
FourCalls == [t \in Threads |-> 4]
CloserTwice == [t \in Threads |-> IF t \in Closers THEN 2 ELSE 1]

\* The threads with the same role are interchangeable.
ResolverSymmetry == Permutations(Resolvers)
=============================================================================
