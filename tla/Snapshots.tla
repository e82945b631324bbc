----------------------------- MODULE Snapshots -----------------------------
(***************************************************************************)
(* What exp/reload/reconciler.go computes from two lists of specs: the     *)
(* snapshot of a compiled container (buildSnapshot, hashSpec,              *)
(* normalizeJSON) and the parts of diffSnapshots that are no loop.         *)
(*                                                                         *)
(* A compiled container is [spec, topo]: its nodes are the domain of spec, *)
(* with their driver, raw options and declared dependencies; topo is the   *)
(* order that Compile.tla shows to be topological.                         *)
(***************************************************************************)
EXTENDS Integers, FiniteSets, SequencesExt

CONSTANTS
  Keys,    \* what ID.String can be
  Place,   \* where a key stands in the order of strings
  Exact    \* the integers up to here have a float64 each: 2^53

ASSUME PlaceAssumption ==
  Place \in [Keys -> Nat] /\ \A k, m \in Keys : Place[k] = Place[m] => k = m

ASSUME ExactAssumption == Exact \in Nat \ {0}

\* A text is a sequence of lines.  Of a JSON document the integer in it is kept,
\* which stands for the one line that json.Marshal makes of it.
Null == -1

\* Raw options: white space only, a JSON document, or bytes that are not JSON,
\* of one line or more, among which may be one that reads like a key or like
\* a number.  The text is without the white space around it.
Blank == [form |-> "blank", text |-> <<>>, padded |-> TRUE]
JSON(v, padded) == [form |-> "json", text |-> <<v>>, padded |-> padded]
Bytes(lines, padded) == [form |-> "bytes", text |-> lines, padded |-> padded]

\* json.Unmarshal into any: the nearest float64, ties to the even significand.
\* Bound: between Exact and twice that the floats are two apart.
Float(v) ==
  CASE v <= Exact \/ v % 2 = 0 -> v
    [] v > Exact /\ v % 4 = 1 -> v - 1
    [] v > Exact /\ v % 4 = 3 -> v + 1

\* normalizeJSON: trimmed; blank is null; JSON is decoded and encoded again;
\* what does not decode stays as it is.
NormalizeJSON(raw) ==
  CASE raw.form = "blank" -> <<Null>>
    [] raw.form = "json"  -> <<Float(raw.text[1])>>
    [] raw.form = "bytes" -> raw.text

\* What the Decode of a definition can see, white space apart: defaultDecode
\* unmarshals into the typed option, where an int64 stays the integer it is.
Decoded(raw) == IF raw.form = "blank" THEN <<Null>> ELSE raw.text

\* Where the i-th dependency comes when they are sorted by String.
SortedAt(deps, i) ==
  Cardinality({j \in DOMAIN deps : \/ Place[deps[j]] < Place[deps[i]]
                                   \/ deps[j] = deps[i] /\ j <= i})

SortedDeps(deps) ==
  [p \in DOMAIN deps |-> deps[CHOOSE i \in DOMAIN deps : SortedAt(deps, i) = p]]

\* Faulty: the dependencies are left out.
HashWithoutDeps(s) == <<s.driver>> \o NormalizeJSON(s.options)

\* Faulty: the driver is left out.
HashWithoutDriver(s) == NormalizeJSON(s.options) \o SortedDeps(s.deps)

\* The text that hashSpec hashes, without the kind and the name, which are the
\* key of the node: the driver, the options and each dependency end with a line
\* break, and nothing says where the options end.
HashSpec(s) == <<s.driver>> \o NormalizeJSON(s.options) \o SortedDeps(s.deps)

\* The options take one line, as every JSON document does.
OneLine(s) == LET lines == NormalizeJSON(s.options) IN lines = <<lines[1]>>

\* The options are the same after the trip through float64.
Lossless(s) == NormalizeJSON(s.options) = Decoded(s.options)

\* buildSnapshot.
Snapshot(c) ==
  [k \in DOMAIN c.spec |-> [hash |-> HashSpec(c.spec[k]),
                            deps |-> ToSet(c.spec[k].deps)]]

\* What Compile.tla shows of a topological order.
IsTopo(topo, spec) ==
  /\ topo \in Seq(DOMAIN spec)
  /\ ToSet(topo) = DOMAIN spec
  /\ \A i, j \in DOMAIN topo : topo[i] = topo[j] => i = j
  /\ \A i \in DOMAIN topo : \A d \in ToSet(spec[topo[i]].deps) :
       \E j \in 1 .. i - 1 : topo[j] = d

\* A container that NewContainer has compiled.
IsCompiled(c) ==
  /\ DOMAIN c.spec \subseteq Keys
  /\ \A k \in DOMAIN c.spec : c.spec[k].deps \in Seq(Keys)
  /\ IsTopo(c.topo, c.spec)

\* What k stands on in a container: k, and all that it needs.
Below(k, spec) ==
  {m \in DOMAIN spec : \A S \in SUBSET DOMAIN spec :
     k \in S /\ (\A n \in S : ToSet(spec[n].deps) \subseteq S) => m \in S}

-----------------------------------------------------------------------------
(***************************************************************************)
(* diffSnapshots, from two snapshots.                                      *)
(***************************************************************************)
Added(old, new) == DOMAIN new \ DOMAIN old

Removed(old, new) == DOMAIN old \ DOMAIN new

Changed(old, new) ==
  {k \in DOMAIN new \intersect DOMAIN old : new[k].hash # old[k].hash}

\* Faulty: the set is filled from the old snapshot.
SeedsOfBoth(old, new) == Removed(old, new) \union Changed(old, new)

\* Faulty: a node that was there is not looked at again.
SeedsAddedOnly(old, new) == Added(old, new)

\* The nodes to rebuild for their own sake.
Seeds(old, new) == Added(old, new) \union Changed(old, new)

\* The places up to i where s has a member of S.
Places(s, S, i) == {j \in 1 .. i : s[j] \in S}

\* s without what is not in S: its k-th member is at the k-th of those places.
Only(s, S) ==
  LET places == Places(s, S, Len(s))
  IN [k \in 1 .. Cardinality(places) |->
        s[CHOOSE i \in places : Cardinality(Places(s, S, i)) = k]]

\* Faulty: only what the new specs leave out is closed.
ListsClosingRemoved(old, new, oldTopo, newTopo, rebuild) ==
  [added     |-> Only(newTopo, Added(old, new)),
   removed   |-> Only(oldTopo, Removed(old, new)),
   reused    |-> Only(newTopo, Keys \ rebuild),
   rebuilt   |-> Only(newTopo, rebuild),
   closedOld |-> Only(oldTopo, Removed(old, new))]

\* The Result: new nodes in the new order, old nodes in the old one.
Lists(old, new, oldTopo, newTopo, rebuild) ==
  [added     |-> Only(newTopo, Added(old, new)),
   removed   |-> Only(oldTopo, Removed(old, new)),
   reused    |-> Only(newTopo, Keys \ rebuild),
   rebuilt   |-> Only(newTopo, rebuild),
   closedOld |-> Only(oldTopo, Removed(old, new) \union rebuild)]

\* S has every node of snap that needs one of S.
ClosedUpward(S, snap) == \A k \in DOMAIN snap : snap[k].deps \intersect S # {} => k \in S

\* What must be rebuilt, without saying how it is found: what is in every set
\* that has the seeds and all that needs one of its members.
MustRebuild(old, new) ==
  {k \in DOMAIN new : \A S \in SUBSET DOMAIN new :
     Seeds(old, new) \subseteq S /\ ClosedUpward(S, new) => k \in S}

=============================================================================
