------------------------------- MODULE MCDiff -------------------------------
(* Pairs of small compiled containers for Diff. *)
EXTENDS Diff

CONSTANTS a, b, c, w

MCKeys == {a, b, c}
MCPlace == a :> 1 @@ b :> 2 @@ c :> 3

S(driver, options, deps) == [driver |-> driver, options |-> options, deps |-> deps]

\* The specs a key may have, or none.  The float64 of 5 is that of 4 here, and
\* the Deps hook of b lists a for 5 only.  The options of one line w and a
\* dependency a read like the options of two lines, w and a.
LeafSpecs == {S("d", Blank, <<>>), S("d", JSON(Null, FALSE), <<>>),
              S("e", JSON(Null, FALSE), <<>>),
              S("d", JSON(1, FALSE), <<>>), S("d", JSON(1, TRUE), <<>>),
              S("d", JSON(7, FALSE), <<>>), S("d", Bytes(<<w>>, TRUE), <<>>)}
MiddleSpecs == {S("d", JSON(4, FALSE), <<>>), S("d", JSON(5, FALSE), <<a>>),
                S("d", JSON(1, FALSE), <<a>>),
                S("d", Bytes(<<w>>, FALSE), <<a>>), S("d", Bytes(<<w, a>>, FALSE), <<>>)}
TopSpecs == {S("d", JSON(Null, FALSE), <<b>>), S("d", Blank, <<b>>),
             S("d", JSON(1, TRUE), <<a, b>>),
             S("d", JSON(1, FALSE), <<b, a>>), S("d", JSON(Null, FALSE), <<a, a>>)}

SpecChoices == a :> LeafSpecs @@ b :> MiddleSpecs @@ c :> TopSpecs

Valid(spec) == \A k \in DOMAIN spec : ToSet(spec[k].deps) \subseteq DOMAIN spec

SpecsOn(D) == {s \in [D -> UNION {SpecChoices[k] : k \in D}] :
                 (\A k \in D : s[k] \in SpecChoices[k]) /\ Valid(s)}

\* The other way round: a needs b, so that c, b, a is an order.
Reversed == c :> S("d", Blank, <<>>) @@ b :> S("d", JSON(4, FALSE), <<>>)
              @@ a :> S("d", Blank, <<b, c>>)

\* Every topological order of every graph.
MCContainers ==
  {x \in {[spec |-> s, topo |-> o] :
            s \in UNION {SpecsOn(D) : D \in SUBSET MCKeys} \union {Reversed},
            o \in UNION {{t \in [1 .. Cardinality(D) -> D] : ToSet(t) = D} : D \in SUBSET MCKeys}}
     : IsTopo(x.topo, x.spec)}

\* Two containers whose specs differ in what the hash cannot tell apart: where
\* the options of b end, and integers of c with one float64.
MCCollisions ==
  {[spec |-> a :> S("d", Blank, <<>>) @@ b :> S("d", Bytes(<<w>>, FALSE), <<a>>)
               @@ c :> S("d", JSON(4, FALSE), <<>>),
    topo |-> <<a, b, c>>],
   [spec |-> b :> S("d", Bytes(<<w, a>>, FALSE), <<>>) @@ c :> S("d", JSON(5, FALSE), <<>>),
    topo |-> <<b, c>>]}

=============================================================================
