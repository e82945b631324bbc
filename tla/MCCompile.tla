----------------------------- MODULE MCCompile -----------------------------
(* Small instances of Compile for TLC. *)
EXTENDS Compile

ID(kind, name) == [kind |-> kind, name |-> name]

n1 == ID("n", "1")
n2 == ID("n", "2")
n3 == ID("n", "3")
ghost == ID("n", "4")

\* The keys of these two are the same string.
folder == ID("a", "b/c")
file == ID("a/b", "c")

MCIDs == {n1, n2, n3, ghost, ID("", "1"), ID("n", "")}
AliasIDs == {folder, file, n1}

MCDrivers == {"", "d", "e"}
MCDefinitions == {"first", "second", "third"}

Good(id, deps) ==
  [id |-> id, driver |-> "d", decodes |-> TRUE, lists |-> TRUE, deps |-> deps]

ListsUpTo(S, n) == UNION {[1 .. k -> S] : k \in 0 .. n}

\* Every graph on three nodes, with up to two dependencies each, declared or not.
GraphLists ==
  LET D == ListsUpTo({n1, n2, n3, ghost}, 2)
  IN {<<Good(n1, d1), Good(n2, d2), Good(n3, d3)>> : d1 \in D, d2 \in D, d3 \in D}

\* Specs with one thing wrong, and some with nothing wrong.
OddSpecs ==
  {Good(n1, <<>>), Good(n2, <<n1>>), Good(n1, <<n2>>),
   Good(ID("", "1"), <<>>), Good(ID("n", ""), <<>>), Good(n3, <<ID("", "1")>>),
   [Good(n3, <<>>) EXCEPT !.driver = ""], [Good(n3, <<n1>>) EXCEPT !.driver = "e"],
   [Good(n3, <<>>) EXCEPT !.decodes = FALSE], [Good(n3, <<>>) EXCEPT !.lists = FALSE]}

MCSpecLists == GraphLists \union ListsUpTo(OddSpecs, 3)

\* Both lists name two different resources.
AliasLists == {<<Good(folder, <<>>), Good(file, <<>>)>>,
               <<Good(folder, <<>>), Good(n1, <<>>)>>}

Registered == (<<"n", "d">> :> "first") @@ (<<"a", "d">> :> "first") @@ (<<"a/b", "d">> :> "first")

MCInitialDefs == {Registered}

MCRegistrations == {<<"n", "e", "second">>, <<"n", "d", "third">>}

=============================================================================
