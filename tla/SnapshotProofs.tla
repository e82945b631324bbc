--------------------------- MODULE SnapshotProofs ---------------------------
(***************************************************************************)
(* Facts about what exp/reload computes from two lists of specs, for every *)
(* list: what filtering keeps, what a hash says, and that a node which     *)
(* need not be rebuilt stands on such nodes only.                          *)
(***************************************************************************)
EXTENDS Snapshots, TLAPS, FiniteSetTheorems, SequenceTheorems

-----------------------------------------------------------------------------
(***************************************************************************)
(* Only.                                                                   *)
(***************************************************************************)
LEMMA PlacesFinite ==
  ASSUME NEW s, NEW S, NEW i \in Nat
  PROVE  /\ IsFiniteSet(Places(s, S, i))
         /\ Cardinality(Places(s, S, i)) \in Nat
  <1>1. IsFiniteSet(1 .. i)
    BY FS_Interval
  <1>2. Places(s, S, i) \in SUBSET (1 .. i)
    BY DEF Places
  <1>3. IsFiniteSet(Places(s, S, i))
    BY <1>1, <1>2, FS_Subset
  <1>. QED
    BY <1>3, FS_CardinalityType

\* The number of a place among the places up to n.
LEMMA PlacesNumbered ==
  ASSUME NEW s, NEW S, NEW n \in Nat
  PROVE  /\ \A i \in Places(s, S, n) :
              Cardinality(Places(s, S, i)) \in 1 .. Cardinality(Places(s, S, n))
         /\ \A i, j \in Places(s, S, n) :
              Cardinality(Places(s, S, i)) = Cardinality(Places(s, S, j)) => i = j
         /\ \A k \in 1 .. Cardinality(Places(s, S, n)) :
              \E i \in Places(s, S, n) : Cardinality(Places(s, S, i)) = k
  <1>. DEFINE I == Places(s, S, n)
              m == Cardinality(I)
              rank == [i \in I |-> Cardinality(Places(s, S, i))]
  <1>1. IsFiniteSet(I) /\ m \in Nat
    BY PlacesFinite
  <1>2. I \subseteq 1 .. n /\ \A i \in I : i \in Places(s, S, i)
    BY DEF Places
  <1>3. ASSUME NEW i \in I
        PROVE  /\ rank[i] \in 1 .. m
               /\ \A j \in I : i < j => rank[i] < rank[j]
    <2>1. i \in Nat /\ i <= n
      BY <1>2
    <2>2. Places(s, S, i) \in SUBSET I
      BY <2>1 DEF Places
    <2>3. IsFiniteSet(Places(s, S, i)) /\ rank[i] \in Nat
      BY <2>1, PlacesFinite
    <2>4. rank[i] <= m
      BY <1>1, <2>2, FS_Subset
    <2>5. rank[i] # 0
      BY <1>2, <2>3, FS_EmptySet
    <2>6. ASSUME NEW j \in I, i < j
          PROVE  rank[i] < rank[j]
      <3>1. j \in Nat
        BY <1>2
      <3>2. Places(s, S, i) \in SUBSET Places(s, S, j)
        BY <2>1, <2>6, <3>1 DEF Places
      <3>3. j \in Places(s, S, j) /\ j \notin Places(s, S, i)
        BY <1>2, <2>1, <2>6, <3>1 DEF Places
      <3>4. IsFiniteSet(Places(s, S, j)) /\ rank[j] \in Nat
        BY <3>1, PlacesFinite
      <3>5. rank[i] <= rank[j] /\ rank[i] # rank[j]
        BY <3>2, <3>3, <3>4, FS_Subset
      <3>. QED
        BY <2>3, <3>4, <3>5
    <2>. QED
      BY <1>1, <2>3, <2>4, <2>5, <2>6
  <1>8. ASSUME NEW i \in I, NEW j \in I, rank[i] = rank[j]
        PROVE  i = j
    <2>1. i \in Nat /\ j \in Nat /\ rank[i] \in Nat /\ rank[j] \in Nat
      BY <1>2, <1>3
    <2>2. ~(i < j) /\ ~(j < i)
      BY <1>3, <1>8, <2>1
    <2>. QED
      BY <2>1, <2>2
  <1>4. rank \in Injection(I, 1 .. m)
    <2>1. rank \in [I -> 1 .. m]
      BY <1>3
    <2>. HIDE DEF rank
    <2>. QED
      BY <1>8, <2>1 DEF Injection, IsInjective
  <1>5. IsFiniteSet(1 .. m) /\ Cardinality(1 .. m) = m
    BY <1>1, FS_Interval
  <1>6. rank \in Surjection(I, 1 .. m)
    BY <1>4, <1>5, FS_Injection
  <1>7. \A k \in 1 .. m : \E i \in I : rank[i] = k
    BY <1>6 DEF Surjection
  <1>. QED
    BY <1>3, <1>7, <1>8

\* Only keeps just the members of S that s has.
LEMMA OnlyIs ==
  ASSUME NEW T, NEW s \in Seq(T), NEW S
  PROVE  /\ Only(s, S) \in Seq(T)
         /\ ToSet(Only(s, S)) = ToSet(s) \intersect S
  <1>. DEFINE I == Places(s, S, Len(s))
              m == Cardinality(I)
              at(k) == CHOOSE i \in I : Cardinality(Places(s, S, i)) = k
  <1>1. Len(s) \in Nat /\ m \in Nat
    BY PlacesFinite
  <1>2. \A i \in I : i \in 1 .. Len(s) /\ s[i] \in S
    BY DEF Places
  <1>3. \A k \in 1 .. m : at(k) \in I /\ Cardinality(Places(s, S, at(k))) = k
    BY <1>1, PlacesNumbered
  <1>4. Only(s, S) = [k \in 1 .. m |-> s[at(k)]]
    BY DEF Only
  <1>. HIDE DEF at
  <1>5. \A k \in 1 .. m : s[at(k)] \in T /\ s[at(k)] \in S /\ s[at(k)] \in ToSet(s)
    BY <1>2, <1>3 DEF ToSet
  <1>6. Only(s, S) \in Seq(T)
    BY <1>1, <1>4, <1>5
  <1>7. ToSet(Only(s, S)) \subseteq ToSet(s) \intersect S
    BY <1>4, <1>5 DEF ToSet
  <1>8. ASSUME NEW x \in ToSet(s) \intersect S
        PROVE  x \in ToSet(Only(s, S))
    <2>1. PICK i \in 1 .. Len(s) : s[i] = x
      BY DEF ToSet
    <2>2. i \in I
      BY <2>1 DEF Places
    <2>. DEFINE k == Cardinality(Places(s, S, i))
    <2>3. k \in 1 .. m
      BY <1>1, <2>2, PlacesNumbered
    <2>4. at(k) = i
      BY <1>1, <1>3, <2>2, <2>3, PlacesNumbered
    <2>. QED
      BY <1>4, <2>1, <2>3, <2>4 DEF ToSet
  <1>. QED
    BY <1>6, <1>7, <1>8

-----------------------------------------------------------------------------
(***************************************************************************)
(* Snapshots and hashes.                                                   *)
(***************************************************************************)
\* A snapshot has the nodes of its container, each with what it declared.
LEMMA SnapshotIs ==
  ASSUME NEW c
  PROVE  /\ DOMAIN Snapshot(c) = DOMAIN c.spec
         /\ \A k \in DOMAIN c.spec : /\ Snapshot(c)[k].deps = ToSet(c.spec[k].deps)
                                     /\ Snapshot(c)[k].hash = HashSpec(c.spec[k])
  BY DEF Snapshot

\* A compiled container has its nodes in an order, each once.
LEMMA OrderIs ==
  ASSUME NEW c, IsCompiled(c)
  PROVE  /\ c.topo \in Seq(DOMAIN c.spec)
         /\ c.topo \in Seq(Keys)
         /\ ToSet(c.topo) = DOMAIN c.spec
         /\ \A k \in DOMAIN c.spec : \E j \in 1 .. Len(c.topo) : c.topo[j] = k
         /\ \A j \in 1 .. Len(c.topo) : c.topo[j] \in DOMAIN c.spec
         /\ \A j, m \in 1 .. Len(c.topo) : c.topo[j] = c.topo[m] => j = m
         /\ \A j \in 1 .. Len(c.topo) : \A d \in ToSet(c.spec[c.topo[j]].deps) :
              \E m \in 1 .. j - 1 : c.topo[m] = d
  <1>1. IsTopo(c.topo, c.spec) /\ DOMAIN c.spec \subseteq Keys
    BY DEF IsCompiled
  <1>2. /\ c.topo \in Seq(DOMAIN c.spec) /\ DOMAIN c.topo = 1 .. Len(c.topo)
        /\ ToSet(c.topo) = DOMAIN c.spec
    BY <1>1 DEF IsTopo
  <1>3. \A k \in DOMAIN c.spec : \E j \in 1 .. Len(c.topo) : c.topo[j] = k
    BY <1>2 DEF ToSet
  <1>4. \A j \in 1 .. Len(c.topo) : c.topo[j] \in DOMAIN c.spec
    BY <1>2
  <1>5. \A j, m \in DOMAIN c.topo : c.topo[j] = c.topo[m] => j = m
    BY <1>1 DEF IsTopo
  <1>6. \A j \in DOMAIN c.topo : \A d \in ToSet(c.spec[c.topo[j]].deps) :
          \E m \in 1 .. j - 1 : c.topo[m] = d
    BY <1>1 DEF IsTopo
  <1>7. c.topo \in Seq(Keys)
    BY <1>1, <1>2, <1>4
  <1>. QED
    BY <1>2, <1>3, <1>4, <1>5, <1>6, <1>7

\* What a node declares is a node.
LEMMA DependenciesAreNodes ==
  ASSUME NEW c, IsCompiled(c), NEW k \in DOMAIN c.spec
  PROVE  ToSet(c.spec[k].deps) \subseteq DOMAIN c.spec
  <1>1. PICK j \in 1 .. Len(c.topo) : c.topo[j] = k
    BY OrderIs
  <1>2. \A d \in ToSet(c.spec[k].deps) : \E m \in 1 .. j - 1 : c.topo[m] = d
    BY <1>1, OrderIs
  <1>3. \A m \in 1 .. j - 1 : m \in 1 .. Len(c.topo)
    BY OrderIs
  <1>4. \A m \in 1..Len(c.topo) : c.topo[m] \in DOMAIN c.spec
    BY OrderIs
  <1>. QED
    BY <1>2, <1>3, <1>4

\* Sorting keeps what is in a list: it numbers the places of the list by how
\* many come before each, which are all different.
LEMMA SortedIs ==
  ASSUME NEW s \in Seq(Keys)
  PROVE  /\ SortedDeps(s) \in Seq(Keys)
         /\ ToSet(SortedDeps(s)) = ToSet(s)
  <1>. DEFINE n == Len(s)
              D == 1 .. n
              Before(i) == {j \in D : \/ Place[s[j]] < Place[s[i]]
                                      \/ s[j] = s[i] /\ j <= i}
              rank == [i \in D |-> Cardinality(Before(i))]
  <1>1. n \in Nat /\ DOMAIN s = D /\ IsFiniteSet(D) /\ Cardinality(D) = n
    <2>1. n \in Nat /\ DOMAIN s = D
      OBVIOUS
    <2>. QED
      BY <2>1, FS_Interval
  <1>2. \A i \in D : i \in Nat /\ s[i] \in Keys /\ Place[s[i]] \in Nat
    BY <1>1, PlaceAssumption
  <1>3. ASSUME NEW i \in D
        PROVE  SortedAt(s, i) = rank[i]
    <2>1. SortedAt(s, i) = Cardinality(Before(i))
      BY <1>1 DEF SortedAt
    <2>. HIDE DEF Before
    <2>. QED
      BY <2>1
  <1>4. \A i \in D : Before(i) \in SUBSET D /\ i \in Before(i)
    BY <1>2
  <1>. HIDE DEF rank
  <1>5. ASSUME NEW i \in D
        PROVE  /\ IsFiniteSet(Before(i))
               /\ rank[i] = Cardinality(Before(i)) /\ rank[i] \in 1 .. n
    <2>1. IsFiniteSet(Before(i)) /\ Cardinality(Before(i)) <= n
      BY <1>1, <1>4, FS_Subset
    <2>2. Cardinality(Before(i)) \in Nat /\ Cardinality(Before(i)) # 0
      BY <2>1, <1>4, FS_CardinalityType, FS_EmptySet
    <2>3. rank[i] = Cardinality(Before(i))
      BY DEF rank
    <2>. HIDE DEF Before
    <2>. QED
      BY <1>1, <2>1, <2>2, <2>3
  <1>6. ASSUME NEW i \in D, NEW j \in D,
               Place[s[i]] < Place[s[j]] \/ (s[i] = s[j] /\ i < j)
        PROVE  rank[i] # rank[j]
    <2>1. /\ Place[s[i]] \in Nat /\ Place[s[j]] \in Nat /\ i \in Nat /\ j \in Nat
          /\ \A m \in D : Place[s[m]] \in Nat /\ m \in Nat
      BY <1>2
    <2>2. j \notin Before(i)
      BY <1>6, <2>1
    <2>3. ASSUME NEW m \in Before(i) PROVE m \in Before(j)
      <3>1. m \in D /\ Place[s[m]] \in Nat /\ m \in Nat
        BY <2>1
      <3>2. Place[s[m]] < Place[s[i]] \/ (s[m] = s[i] /\ m <= i)
        OBVIOUS
      <3>. QED
        BY <1>6, <2>1, <3>1, <3>2
    <2>4. j \in Before(j)
      BY <1>4
    <2>5. IsFiniteSet(Before(j)) /\ Before(i) \in SUBSET Before(j) /\ Before(i) # Before(j)
      BY <1>5, <2>2, <2>3, <2>4
    <2>6. Cardinality(Before(i)) # Cardinality(Before(j))
      BY <2>5, FS_Subset
    <2>. QED
      BY <1>5, <2>6
  <1>7. ASSUME NEW i \in D, NEW j \in D, rank[i] = rank[j]
        PROVE  i = j
    <2>1. /\ i \in Nat /\ j \in Nat /\ Place[s[i]] \in Nat /\ Place[s[j]] \in Nat
          /\ s[i] \in Keys /\ s[j] \in Keys
      BY <1>2
    <2>2. /\ Place[s[i]] < Place[s[j]] => rank[i] # rank[j]
          /\ Place[s[j]] < Place[s[i]] => rank[j] # rank[i]
      BY <1>6
    <2>3. s[i] = s[j]
      BY <1>7, <2>1, <2>2, PlaceAssumption
    <2>4. ~(i < j) /\ ~(j < i)
      BY <1>6, <1>7, <2>3
    <2>. QED
      BY <2>1, <2>4
  <1>8. rank \in Injection(D, D)
    <2>1. rank \in [D -> D]
      BY <1>5 DEF rank
    <2>. QED
      BY <1>7, <2>1 DEF Injection, IsInjective
  <1>9. rank \in Surjection(D, D)
    BY <1>1, <1>8, FS_Injection
  <1>10. \A p \in D : \E i \in D : rank[i] = p
    BY <1>9 DEF Surjection
  <1>. DEFINE at(p) == CHOOSE i \in D : SortedAt(s, i) = p
  <1>. HIDE DEF Before
  <1>11. \A p \in D : at(p) \in D /\ rank[at(p)] = p
    BY <1>3, <1>10
  <1>12. SortedDeps(s) = [p \in D |-> s[at(p)]]
    BY <1>1 DEF SortedDeps
  <1>. HIDE DEF at
  <1>13. SortedDeps(s) \in Seq(Keys)
    BY <1>1, <1>2, <1>11, <1>12
  <1>14. ToSet(SortedDeps(s)) \subseteq ToSet(s)
    BY <1>1, <1>11, <1>12 DEF ToSet
  <1>15. ASSUME NEW x \in ToSet(s)
         PROVE  x \in ToSet(SortedDeps(s))
    <2>1. PICK i \in D : s[i] = x
      BY <1>1 DEF ToSet
    <2>2. rank[i] \in D
      BY <1>5
    <2>3. at(rank[i]) = i
      BY <1>7, <1>11, <2>2
    <2>. QED
      BY <1>12, <2>1, <2>2, <2>3 DEF ToSet
  <1>. QED
    BY <1>13, <1>14, <1>15

\* What follows beginnings of one length is the same when the whole is.
LEMMA SameLength ==
  ASSUME NEW S, NEW h \in Seq(S), NEW k \in Seq(S), NEW s \in Seq(S), NEW u \in Seq(S),
         Len(h) = Len(k), h \o s = k \o u
  PROVE  h = k /\ s = u
  <1>. DEFINE x == h \o s
              y == k \o u
              n == Len(h)
  <1>1. x = y /\ n \in Nat /\ Len(s) \in Nat /\ Len(u) \in Nat
    OBVIOUS
  <1>2. /\ Len(x) = n + Len(s)
        /\ \A i \in 1 .. n + Len(s) : x[i] = IF i <= n THEN h[i] ELSE s[i - n]
    BY ConcatProperties
  <1>3. /\ Len(y) = n + Len(u)
        /\ \A i \in 1 .. n + Len(u) : y[i] = IF i <= n THEN k[i] ELSE u[i - n]
    BY ConcatProperties
  <1>. HIDE DEF x, y
  <1>4. Len(s) = Len(u)
    BY <1>1, <1>2, <1>3
  <1>5. \A i \in 1 .. n : h[i] = k[i]
    BY <1>1, <1>2, <1>3
  <1>6. \A i \in 1 .. Len(s) : s[i] = u[i]
    <2> TAKE i \in 1 .. Len(s)
    <2>1. i + n \in 1 .. n + Len(s) /\ ~(i + n <= n) /\ (i + n) - n = i
      BY <1>1
    <2>. HIDE DEF n
    <2>2. x[i + n] = s[i]
      BY <1>2, <2>1
    <2>3. y[i + n] = u[i]
      BY <1>3, <1>4, <2>1
    <2>. QED
      BY <1>1, <2>2, <2>3
  <1>. QED
    BY <1>4, <1>5, <1>6, SeqEqual

\* Nodes with one hash have one driver, the same options as encoding/json reads
\* them, and the same dependencies, if their options take one line.
LEMMA SameHash ==
  ASSUME NEW p, NEW q, HashSpec(p) = HashSpec(q), OneLine(p), OneLine(q),
         p.deps \in Seq(Keys), q.deps \in Seq(Keys)
  PROVE  /\ p.driver = q.driver
         /\ NormalizeJSON(p.options) = NormalizeJSON(q.options)
         /\ SortedDeps(p.deps) = SortedDeps(q.deps)
         /\ ToSet(p.deps) = ToSet(q.deps)
  <1>1. PICK l, m : NormalizeJSON(p.options) = <<l>> /\ NormalizeJSON(q.options) = <<m>>
    BY DEF OneLine
  <1>2. PICK d, e, x, y : /\ d = p.driver /\ x = SortedDeps(p.deps)
                          /\ e = q.driver /\ y = SortedDeps(q.deps)
    OBVIOUS
  <1>. DEFINE W == Keys \union {d, l, e, m}
  <1>3. <<d>> \o <<l>> \o x = <<e>> \o <<m>> \o y
    BY <1>1, <1>2 DEF HashSpec
  <1>4. d = e /\ l = m /\ x = y
    <2>1. /\ d \in W /\ l \in W /\ e \in W /\ m \in W
          /\ x \in Seq(W) /\ y \in Seq(W)
      BY <1>2, SortedIs, SeqMonotonic
    <2>. HIDE DEF W
    <2>2. ASSUME NEW v \in W, NEW w \in W
          PROVE  <<v>> \o <<w>> \in Seq(W) /\ Len(<<v>> \o <<w>>) = 2
                 /\ (<<v>> \o <<w>>)[1] = v /\ (<<v>> \o <<w>>)[2] = w
      <3>1. <<v>> \in Seq(W) /\ <<w>> \in Seq(W) /\ Len(<<v>>) = 1 /\ Len(<<w>>) = 1
        OBVIOUS
      <3>. QED
        BY <3>1, ConcatProperties
    <2>3. PICK h, k : h = <<d>> \o <<l>> /\ k = <<e>> \o <<m>>
      OBVIOUS
    <2>4. /\ h \in Seq(W) /\ Len(h) = 2 /\ h[1] = d /\ h[2] = l
          /\ k \in Seq(W) /\ Len(k) = 2 /\ k[1] = e /\ k[2] = m
      BY <2>1, <2>2, <2>3
    <2>5. h \o x = k \o y
      BY <1>3, <2>3
    <2>6. h = k /\ x = y
      BY <2>1, <2>4, <2>5, SameLength
    <2>. QED
      BY <2>4, <2>6
  <1>5. ToSet(SortedDeps(p.deps)) = ToSet(p.deps) /\ ToSet(SortedDeps(q.deps)) = ToSet(q.deps)
    BY SortedIs
  <1>. QED
    BY <1>1, <1>2, <1>4, <1>5

-----------------------------------------------------------------------------
(***************************************************************************)
(* What need not be rebuilt.                                               *)
(***************************************************************************)
\* A set R of nodes that has the seeds and all that needs one of R leaves only
\* nodes that were there, with the same hash, standing on such nodes.
LEMMA KeptStandsOnKept ==
  ASSUME NEW o, NEW n, IsCompiled(o), IsCompiled(n), NEW R,
         Seeds(Snapshot(o), Snapshot(n)) \subseteq R, ClosedUpward(R, Snapshot(n)),
         NEW k \in DOMAIN n.spec \ R
  PROVE  /\ k \in DOMAIN o.spec
         /\ HashSpec(o.spec[k]) = HashSpec(n.spec[k])
         /\ ToSet(n.spec[k].deps) \subseteq DOMAIN n.spec \ R
  <1>1. DOMAIN Snapshot(o) = DOMAIN o.spec /\ DOMAIN Snapshot(n) = DOMAIN n.spec
    BY SnapshotIs
  <1>2. k \in DOMAIN o.spec /\ Snapshot(n)[k].hash = Snapshot(o)[k].hash
    BY <1>1 DEF Seeds, Added, Changed
  <1>3. HashSpec(o.spec[k]) = HashSpec(n.spec[k])
    BY <1>2, SnapshotIs
  <1>4. Snapshot(n)[k].deps = ToSet(n.spec[k].deps)
    BY SnapshotIs
  <1>5. ToSet(n.spec[k].deps) \intersect R = {}
    BY <1>1, <1>4 DEF ClosedUpward
  <1>6. ToSet(n.spec[k].deps) \subseteq DOMAIN n.spec
    BY DependenciesAreNodes
  <1>. QED
    BY <1>2, <1>3, <1>5, <1>6

\* MustRebuild is such a set.
LEMMA MustRebuildIs ==
  ASSUME NEW old, NEW new
  PROVE  /\ MustRebuild(old, new) \subseteq DOMAIN new
         /\ Seeds(old, new) \subseteq MustRebuild(old, new)
         /\ ClosedUpward(MustRebuild(old, new), new)
  <1>1. MustRebuild(old, new) \subseteq DOMAIN new
    BY DEF MustRebuild
  <1>2. Seeds(old, new) \subseteq DOMAIN new
    BY DEF Seeds, Added, Changed
  <1>3. Seeds(old, new) \subseteq MustRebuild(old, new)
    BY <1>2 DEF MustRebuild
  <1>4. ASSUME NEW k \in DOMAIN new, new[k].deps \intersect MustRebuild(old, new) # {}
        PROVE  k \in MustRebuild(old, new)
    <2> SUFFICES ASSUME NEW S \in SUBSET DOMAIN new, Seeds(old, new) \subseteq S,
                        ClosedUpward(S, new)
                 PROVE  k \in S
      BY DEF MustRebuild
    <2>1. MustRebuild(old, new) \subseteq S
      BY DEF MustRebuild
    <2>. QED
      BY <1>4, <2>1 DEF ClosedUpward
  <1>. QED
    BY <1>1, <1>3, <1>4 DEF ClosedUpward

-----------------------------------------------------------------------------
(***************************************************************************)
(* The lists of a Result.                                                  *)
(***************************************************************************)
LEMMA ListsTyped ==
  ASSUME NEW o, NEW n, NEW s \in Seq(Keys), NEW u \in Seq(Keys), NEW R
  PROVE  /\ Lists(o, n, s, u, R).added \in Seq(Keys)
         /\ Lists(o, n, s, u, R).removed \in Seq(Keys)
         /\ Lists(o, n, s, u, R).reused \in Seq(Keys)
         /\ Lists(o, n, s, u, R).rebuilt \in Seq(Keys)
         /\ Lists(o, n, s, u, R).closedOld \in Seq(Keys)
  BY OnlyIs DEF Lists

\* Which nodes a Result lists, when R is what is rebuilt.
LEMMA ListsAre ==
  ASSUME NEW o, NEW n, IsCompiled(o), IsCompiled(n), NEW R, R \subseteq DOMAIN n.spec,
         NEW L, L = Lists(Snapshot(o), Snapshot(n), o.topo, n.topo, R)
  PROVE  /\ L.reused \in Seq(Keys) /\ L.rebuilt \in Seq(Keys) /\ L.closedOld \in Seq(Keys)
         /\ ToSet(L.reused) = DOMAIN n.spec \ R
         /\ ToSet(L.rebuilt) = R
         /\ ToSet(L.closedOld) = DOMAIN o.spec \ (DOMAIN n.spec \ R)
  <1>1. /\ o.topo \in Seq(Keys) /\ ToSet(o.topo) = DOMAIN o.spec
        /\ n.topo \in Seq(Keys) /\ ToSet(n.topo) = DOMAIN n.spec
    BY OrderIs
  <1>2. DOMAIN n.spec \subseteq Keys
    BY DEF IsCompiled
  <1>3. L.reused \in Seq(Keys) /\ L.rebuilt \in Seq(Keys) /\ L.closedOld \in Seq(Keys)
    BY <1>1, ListsTyped
  <1>4. ToSet(L.reused) = ToSet(n.topo) \intersect (Keys \ R)
    BY <1>1, OnlyIs DEF Lists
  <1>5. ToSet(L.rebuilt) = ToSet(n.topo) \intersect R
    BY <1>1, OnlyIs DEF Lists
  <1>6. ToSet(L.closedOld)
          = ToSet(o.topo) \intersect (Removed(Snapshot(o), Snapshot(n)) \union R)
    BY <1>1, OnlyIs DEF Lists
  <1>7. Removed(Snapshot(o), Snapshot(n)) = DOMAIN o.spec \ DOMAIN n.spec
    BY SnapshotIs DEF Removed
  <1>. QED
    BY <1>1, <1>2, <1>3, <1>4, <1>5, <1>6, <1>7

=============================================================================
