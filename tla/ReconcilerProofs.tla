-------------------------- MODULE ReconcilerProofs --------------------------
(***************************************************************************)
(* Proofs about Reconciler, for every list of specs, every number of       *)
(* goroutines that reconcile and resolve, and every number of containers.  *)
(*                                                                         *)
(* The invariant has layers: who may be where (Control), which container a *)
(* goroutine works in (WhereOK), where instances come from (OriginOK),     *)
(* what a prewarm has made (WarmOK and MadeOK), what every close is still  *)
(* going to close (DoomOK), that no two closes are going to close the same *)
(* (OnceOK), what a call has of what it resolved (WiredOK), and where what *)
(* a new container has comes from (CarriedOK).                             *)
(***************************************************************************)
EXTENDS Reconciler, ContainerProofs, SnapshotProofs

\* The containers there may be: what New or a Reconcile is given.
Sources == Configs \union {cs[1] : cs \in Initials \ {<<>>}}

\* No options are of more than one line: what is not JSON is hashed as it is
\* (reconciler.go:178, 191-194).
OneLineSources == \A c \in Sources : \A k \in DOMAIN c.spec : OneLine(c.spec[k])

DiffType == [added : Seq(Keys), removed : Seq(Keys), reused : Seq(Keys),
             rebuilt : Seq(Keys), closedOld : Seq(Keys)]

RecPCs == {"idle", "lock", "inject", "warm", "expire", "closing", "rollback", "undo",
           "done", "failed"}

RecType == [pc : RecPCs, next : Nat, old : Nat, diff : DiffType, todo : Seq(Keys)]

\* Nobody but the thread itself has ever had its new container.
Unseen(t) == rec[t].pc \in {"lock", "inject", "warm", "rollback", "undo", "failed"}

\* Thread t has compared its new container with an old one.
Compared(t) ==
  rec[t].pc \in {"inject", "warm", "expire", "closing", "rollback", "undo", "failed"}

\* The Result for two containers.
DiffOf(o, n) == Lists(Snapshot(o), Snapshot(n), o.topo, n.topo,
                      MustRebuild(Snapshot(o), Snapshot(n)))

RecOK(t) ==
  /\ rec[t].pc \in {"inject", "warm"} <=> mu = t
  /\ t \notin Reconcilers => rec[t].pc = "idle"
  /\ rec[t].old <= Len(conf)
  /\ rec[t].pc # "idle" => rec[t].next \in 1 .. Len(conf)
  /\ Compared(t) =>
       /\ rec[t].old \in 1 .. Len(conf) /\ rec[t].old # rec[t].next
       /\ rec[t].diff = DiffOf(conf[rec[t].old], conf[rec[t].next])
  /\ rec[t].pc \in {"inject", "warm"} => rec[t].old = current
  /\ rec[t].pc \in {"expire", "closing"} => rec[t].old # current
  /\ rec[t].pc = "inject" => ToSet(rec[t].todo) \subseteq ToSet(rec[t].diff.reused)
  /\ Unseen(t) => /\ rec[t].next # current
                  /\ \A u \in Threads : held[u] # rec[t].next /\ rec[u].old # rec[t].next
  /\ \A u \in Threads \ {t} :
       rec[t].pc # "idle" /\ rec[u].pc # "idle" => rec[u].next # rec[t].next

\* The reconciler's fields, and the locals of every Reconcile.
Control ==
  /\ conf \in Seq(Sources) /\ Len(conf) <= MaxMade
  /\ current \in 0 .. Len(conf)
  /\ mu \in Threads \union {None}
  /\ held \in [Threads -> 0 .. Len(conf)]
  /\ rec \in [Threads -> RecType]
  /\ current # Nil => snapshot = Snapshot(conf[current])
  /\ \A t \in Threads : RecOK(t)

-----------------------------------------------------------------------------
\* Node n is in the specs of its container.
Specified(n) == n[1] \in 1 .. Len(conf) /\ n[2] \in DOMAIN conf[n[1]].spec

SpecOf(n) == conf[n[1]].spec[n[2]]

\* The graph is that of the containers, next to each other.
GraphOK ==
  /\ \A n \in Nodes :
       LET edges == IF Specified(n) THEN In(n[1], SpecOf(n).deps) ELSE <<>>
       IN g.deps[n] = edges /\ g.uses[n] = edges
  /\ \A n \in Nodes : n \in Declared <=> Specified(n)

\* The container that a thread works in.
Home(t) == IF t \in Reconcilers THEN rec[t].next ELSE held[t]

AtHome(t) ==
  /\ batch[t] # <<>> => IF t \in Reconcilers THEN rec[t].pc = "warm" ELSE held[t] # Nil
  /\ \A n \in ToSet(batch[t]) \union ToSet(path[t]) : n[1] = Home(t)
  /\ \A j \in 1 .. Len(path[t]) - 1 : path[t][j + 1] \in ToSet(Work(path[t][j]))
  /\ path[t] # <<>> => path[t][1] = Head(batch[t])
  /\ closing[t].active =>
       \/ /\ rec[t].pc = "closing"
          /\ closing[t].scope = {rec[t].old} \X Keys
          /\ closing[t].keys = ToSet(In(rec[t].old, rec[t].diff.closedOld))
       \/ /\ rec[t].pc = "undo"
          /\ closing[t].scope = {rec[t].next} \X Keys
          /\ closing[t].keys = ToSet(In(rec[t].next, rec[t].diff.rebuilt))
  /\ closing[t].active =>
       /\ closing[t].keys # {}
       /\ closing[t].done \subseteq closing[t].keys
       /\ \A n \in Nodes : closing[t].todo[n] # NoInst => n \in closing[t].keys

HomeOK == \A t \in Threads : AtHome(t)

WhereOK == GraphOK /\ OnlyDeclared /\ HomeOK

-----------------------------------------------------------------------------
\* Instance i may stand for n: it was built for a node of that name, from a spec
\* with the same hash.
From(i, n) ==
  /\ Specified(n)
  /\ \E m \in Nodes : /\ built[i].node = m /\ Specified(m)
                      /\ m[2] = n[2] /\ HashSpec(SpecOf(m)) = HashSpec(SpecOf(n))

\* Instance i is of a resource that n depends on.
For(i, n) == Specified(n) /\ built[i].node[2] \in ToSet(SpecOf(n).deps)

OriginOK ==
  /\ \A n \in Nodes, i \in Instances : cache[n] = i => From(i, n)
  /\ \A t \in Threads, n \in Nodes, i \in Instances :
       /\ frame[t][n].out = i => From(i, n)
       /\ i \in frame[t][n].got => For(i, n)
  /\ \A i \in Instances, n \in Nodes : built[i].node = n =>
       /\ Specified(n)
       /\ \A j \in Instances : j \in built[i].uses => For(j, n)

-----------------------------------------------------------------------------
\* What a call is about to return it has: an instance or an error.
OutOK ==
  \A t \in Threads, n \in Nodes :
    frame[t][n].pc \in {"leave", "return"} => frame[t][n].out # NoInst

\* While a new container is prewarmed what is resolved stays.
WarmAt(t) ==
  rec[t].pc = "warm" =>
    /\ \A n \in Nodes : n[1] = rec[t].next =>
         /\ frame[t][n].pc \in {"leave", "return"} /\ IsInst(frame[t][n].out) =>
              cache[n] # NoInst
         /\ frame[t][n].pc \in {"work", "store"} => cache[n] = NoInst
    /\ ret[t] = ErrResult => batch[t] = <<>>
    /\ ret[t] # ErrResult =>
         \A id \in ToSet(rec[t].diff.rebuilt) :
           cache[<<rec[t].next, id>>] # NoInst \/ <<rec[t].next, id>> \in ToSet(batch[t])

WarmOK == \A t \in Threads : WarmAt(t)

\* What speaks for an instance i of node n that thread t has made, may have to undo
\* and has not closed.
Excused(t, i, n) ==
  \/ Compared(t) /\ n[2] \in ToSet(rec[t].diff.reused)
  \/ rec[t].pc \in {"warm", "rollback"} /\ cache[n] = i
  \/ rec[t].pc = "warm" /\ frame[t][n].pc = "store" /\ frame[t][n].out = i
  \/ rec[t].pc = "undo" /\ closing[t].active
       /\ closing[t].todo[n] = i /\ n \notin closing[t].done

MadeAt(t) ==
  Unseen(t) =>
    \A i \in Instances, n \in Nodes :
      built[i].node = n /\ n[1] = rec[t].next /\ Open(i) => Excused(t, i, n)

MadeOK == \A t \in Threads : MadeAt(t)

-----------------------------------------------------------------------------
\* Container k has instance i: in its cache or on the way to it or from it.
Near(k, i) ==
  \/ \E n \in Nodes : n[1] = k /\ cache[n] = i
  \/ \E t \in Threads, n \in Nodes :
       n[1] = k /\ (frame[t][n].out = i \/ i \in frame[t][n].got)

\* Container k has instance i, or one that holds it.
Known(k, i) ==
  Near(k, i) \/ \E j \in Instances : Near(k, j) /\ i \in built[j].uses

\* The containers that nobody is to close: the current one, and the one that is
\* being filled to replace it.
Kept(k) == (k = current /\ current # Nil) \/ \E t \in Threads : rec[t].next = k /\ mu = t

\* A close by thread t that is under way or certain to come has still to close
\* instance i.
DoomedBy(t, i) ==
  \/ closing[t].active /\ \E n \in Nodes \ closing[t].done : closing[t].todo[n] = i
  \/ /\ rec[t].pc = "expire"
     /\ \E id \in ToSet(rec[t].diff.closedOld) : cache[<<rec[t].old, id>>] = i
  \/ /\ rec[t].pc = "rollback"
     /\ \E id \in ToSet(rec[t].diff.rebuilt) : cache[<<rec[t].next, id>>] = i

Doomed(i) == \E t \in Threads : DoomedBy(t, i)

\* What a kept container has is open and stays so.
KeptOK == \A k \in Made, i \in Instances : Kept(k) /\ Known(k, i) => Open(i) /\ ~Doomed(i)

\* What was built in a container that nobody has seen is in no other, and what
\* it has of the nodes to rebuild was built in it.
OwnAt(t) ==
  /\ Unseen(t) => \A k \in Made, i \in Instances :
                    Known(k, i) /\ built[i].node[1] = rec[t].next => k = rec[t].next
  /\ rec[t].pc \in {"inject", "warm", "rollback"} =>
       \A k \in Made, i \in Instances :
         k = rec[t].next /\ Known(k, i) /\ built[i].node[2] \in ToSet(rec[t].diff.rebuilt) =>
           built[i].node[1] = k

OwnOK == \A t \in Threads : OwnAt(t)

\* Nobody but thread t, in its call for n, has instance x.
Alone(t, n, x) ==
  /\ \A m \in Nodes : cache[m] # x
  /\ \A u \in Threads, m \in Nodes :
       /\ <<u, m>> # <<t, n>> => frame[u][m].out # x
       /\ x \notin frame[u][m].got
  /\ \A i \in Instances : x \notin built[i].uses

\* Nobody else has an instance that is still to be stored.
HandAlone ==
  \A t \in Threads, n \in Nodes, x \in Instances :
    frame[t][n].pc = "store" /\ frame[t][n].out = x => Alone(t, n, x)

\* Before a container is compared with an old one nothing is in it.
Fresh(k) == k > Len(conf) \/ \E t \in Threads : rec[t].pc = "lock" /\ rec[t].next = k

FreshOK == \A k \in Made, i \in Instances : Fresh(k) => ~Near(k, i)

\* No call, no result.
BlankOK == \A t \in Threads, n \in Nodes :
             frame[t][n].pc = "none" => frame[t][n].out = NoInst /\ frame[t][n].got = {}

DoomOK == FreshOK /\ BlankOK /\ HandAlone /\ OwnOK /\ KeptOK

-----------------------------------------------------------------------------
(***************************************************************************)
(* Control.                                                                *)
(***************************************************************************)
LEMMA SourcesCompiled == \A c \in Sources : IsCompiled(c)
  BY ReconcilersAssumption DEF Sources

\* What the comparison of two compiled containers lists.
LEMMA DiffIs ==
  ASSUME NEW o, NEW n, IsCompiled(o), IsCompiled(n)
  PROVE  LET d == DiffOf(o, n) IN
         /\ d \in DiffType
         /\ ToSet(d.reused) \union ToSet(d.rebuilt) = DOMAIN n.spec
         /\ ToSet(d.reused) \intersect ToSet(d.rebuilt) = {}
         /\ ToSet(d.closedOld) = DOMAIN o.spec \ ToSet(d.reused)
         /\ \A k \in ToSet(d.reused) :
              /\ k \in DOMAIN o.spec /\ k \in DOMAIN n.spec
              /\ HashSpec(o.spec[k]) = HashSpec(n.spec[k])
              /\ ToSet(n.spec[k].deps) \subseteq ToSet(d.reused)
  <1>. DEFINE R == MustRebuild(Snapshot(o), Snapshot(n))
              d == DiffOf(o, n)
  <1>1. o.topo \in Seq(Keys) /\ n.topo \in Seq(Keys)
    BY OrderIs
  <1>2. /\ R \subseteq DOMAIN n.spec
        /\ Seeds(Snapshot(o), Snapshot(n)) \subseteq R
        /\ ClosedUpward(R, Snapshot(n))
    BY MustRebuildIs, SnapshotIs
  <1>3. d = Lists(Snapshot(o), Snapshot(n), o.topo, n.topo, R)
    BY DEF DiffOf
  <1>. HIDE DEF R, d
  <1>4. /\ ToSet(d.reused) = DOMAIN n.spec \ R
        /\ ToSet(d.rebuilt) = R
        /\ ToSet(d.closedOld) = DOMAIN o.spec \ (DOMAIN n.spec \ R)
    BY <1>2, <1>3, ListsAre
  <1>5. d \in DiffType
    <2>1. d = [added |-> d.added, removed |-> d.removed, reused |-> d.reused,
               rebuilt |-> d.rebuilt, closedOld |-> d.closedOld]
      BY <1>3 DEF Lists
    <2>2. /\ d.added \in Seq(Keys) /\ d.removed \in Seq(Keys) /\ d.reused \in Seq(Keys)
          /\ d.rebuilt \in Seq(Keys) /\ d.closedOld \in Seq(Keys)
      BY <1>1, <1>3, ListsTyped
    <2>. QED
      BY <2>1, <2>2 DEF DiffType
  <1>6. \A k \in DOMAIN n.spec \ R :
          /\ k \in DOMAIN o.spec
          /\ HashSpec(o.spec[k]) = HashSpec(n.spec[k])
          /\ ToSet(n.spec[k].deps) \subseteq DOMAIN n.spec \ R
    BY <1>2, KeptStandsOnKept
  <1>7. \A k \in ToSet(d.reused) :
              /\ k \in DOMAIN o.spec /\ k \in DOMAIN n.spec
              /\ HashSpec(o.spec[k]) = HashSpec(n.spec[k])
              /\ ToSet(n.spec[k].deps) \subseteq ToSet(d.reused)
    BY <1>4, <1>6
  <1>8. /\ ToSet(d.reused) \union ToSet(d.rebuilt) = DOMAIN n.spec
        /\ ToSet(d.reused) \intersect ToSet(d.rebuilt) = {}
        /\ ToSet(d.closedOld) = DOMAIN o.spec \ ToSet(d.reused)
    BY <1>2, <1>4
  <1>. QED
    BY <1>5, <1>7, <1>8 DEF d

LEMMA NoDiffTyped == NoDiff \in DiffType
  <1>1. NoDiff = [added |-> NoDiff.added, removed |-> NoDiff.removed, reused |-> NoDiff.reused,
                  rebuilt |-> NoDiff.rebuilt, closedOld |-> NoDiff.closedOld]
    BY DEF NoDiff, Lists
  <1>2. <<>> \in Seq(Keys)
    OBVIOUS
  <1>3. /\ NoDiff.added \in Seq(Keys) /\ NoDiff.removed \in Seq(Keys)
        /\ NoDiff.reused \in Seq(Keys) /\ NoDiff.rebuilt \in Seq(Keys)
        /\ NoDiff.closedOld \in Seq(Keys)
    BY <1>2, ListsTyped DEF NoDiff
  <1>. QED
    BY <1>1, <1>3 DEF DiffType

\* What Control says of a thread that has compared containers.
LEMMA ComparedIs ==
  ASSUME Control, NEW t \in Threads, Compared(t)
  PROVE  LET o == rec[t].old
             n == rec[t].next
             d == rec[t].diff
         IN /\ o \in 1 .. Len(conf) /\ n \in 1 .. Len(conf) /\ o # n
            /\ IsCompiled(conf[o]) /\ IsCompiled(conf[n])
            /\ d \in DiffType
            /\ ToSet(d.reused) \union ToSet(d.rebuilt) = DOMAIN conf[n].spec
            /\ ToSet(d.reused) \intersect ToSet(d.rebuilt) = {}
            /\ ToSet(d.closedOld) = DOMAIN conf[o].spec \ ToSet(d.reused)
            /\ \A k \in ToSet(d.reused) :
                 /\ k \in DOMAIN conf[o].spec /\ k \in DOMAIN conf[n].spec
                 /\ HashSpec(conf[o].spec[k]) = HashSpec(conf[n].spec[k])
                 /\ ToSet(conf[n].spec[k].deps) \subseteq ToSet(d.reused)
  <1>1. /\ rec[t].old \in 1 .. Len(conf) /\ rec[t].next \in 1 .. Len(conf)
        /\ rec[t].old # rec[t].next
        /\ rec[t].diff = DiffOf(conf[rec[t].old], conf[rec[t].next])
    BY DEF Control, RecOK, Compared
  <1>2. conf[rec[t].old] \in Sources /\ conf[rec[t].next] \in Sources
    BY <1>1 DEF Control
  <1>3. IsCompiled(conf[rec[t].old]) /\ IsCompiled(conf[rec[t].next])
    BY <1>2, SourcesCompiled
  <1>4. PICK o, n, d : o = conf[rec[t].old] /\ n = conf[rec[t].next] /\ d = DiffOf(o, n)
    OBVIOUS
  <1>5. IsCompiled(o) /\ IsCompiled(n)
    BY <1>3, <1>4
  <1>6. /\ d \in DiffType
        /\ ToSet(d.reused) \union ToSet(d.rebuilt) = DOMAIN n.spec
        /\ ToSet(d.reused) \intersect ToSet(d.rebuilt) = {}
        /\ ToSet(d.closedOld) = DOMAIN o.spec \ ToSet(d.reused)
        /\ \A k \in ToSet(d.reused) :
             /\ k \in DOMAIN o.spec /\ k \in DOMAIN n.spec
             /\ HashSpec(o.spec[k]) = HashSpec(n.spec[k])
             /\ ToSet(n.spec[k].deps) \subseteq ToSet(d.reused)
    <2>1. d = DiffOf(o, n)
      BY <1>4
    <2>. QED
      BY <1>5, <2>1, DiffIs
  <1>. QED
    BY <1>1, <1>3, <1>4, <1>6

\* A node that is reused has the same spec in both containers.
LEMMA ReusedSpecs ==
  ASSUME Control, NEW t \in Threads, Compared(t), NEW id \in ToSet(rec[t].diff.reused)
  PROVE  /\ rec[t].old \in 1 .. Len(conf) /\ rec[t].next \in 1 .. Len(conf)
         /\ id \in DOMAIN conf[rec[t].old].spec /\ id \in DOMAIN conf[rec[t].next].spec
         /\ HashSpec(conf[rec[t].old].spec[id]) = HashSpec(conf[rec[t].next].spec[id])
         /\ ToSet(conf[rec[t].next].spec[id].deps) \subseteq ToSet(rec[t].diff.reused)
  BY ComparedIs

LEMMA ListsAreKeys ==
  ASSUME Control, NEW t \in Threads, Compared(t)
  PROVE  /\ ToSet(rec[t].diff.closedOld) \subseteq Keys
         /\ ToSet(rec[t].diff.rebuilt) \subseteq Keys
  <1>1. rec[t].diff \in DiffType
    BY ComparedIs
  <1>2. rec[t].diff.closedOld \in Seq(Keys) /\ rec[t].diff.rebuilt \in Seq(Keys)
    BY <1>1 DEF DiffType
  <1>. QED
    BY <1>2 DEF ToSet

LEMMA InitControl == RInit => Control
  <1> SUFFICES ASSUME RInit PROVE Control
    OBVIOUS
  <1>1. conf = <<>> \/ (conf = <<conf[1]>> /\ conf[1] \in Sources /\ conf # <<>>)
    BY ReconcilersAssumption DEF RInit, Sources
  <1>2. conf \in Seq(Sources) /\ Len(conf) \in {0, 1}
    <2>1. CASE conf = <<>>
      BY <2>1
    <2>2. CASE conf = <<conf[1]>> /\ conf[1] \in Sources
      <3>. DEFINE c == conf[1]
      <3>1. conf = <<c>> /\ c \in Sources
        BY <2>2
      <3>. HIDE DEF c
      <3>. QED
        BY <3>1
    <2>. QED
      BY <1>1, <2>1, <2>2
  <1>3. Resting \in RecType
    BY NoDiffTyped DEF Resting, RecType, RecPCs, Nil
  <1>4. /\ rec \in [Threads -> RecType] /\ held \in [Threads -> 0 .. Len(conf)]
        /\ \A t \in Threads : rec[t].pc = "idle" /\ rec[t].old = 0
        /\ mu = None /\ current = Len(conf)
    BY <1>2, <1>3 DEF RInit, Resting, Nil
  <1>5. current # Nil => snapshot = Snapshot(conf[current])
    BY <1>1, <1>4 DEF RInit, Nil
  <1>6. Len(conf) <= MaxMade
    BY <1>2, ReconcilersAssumption
  <1>7. \A t \in Threads : RecOK(t)
    BY <1>2, <1>4, RolesAssumption DEF RecOK, Compared, Unseen
  <1>. QED
    BY <1>2, <1>4, <1>5, <1>6, <1>7 DEF Control

\* A change of the locals of one thread.
LEMMA OneRec ==
  ASSUME Control, NEW t \in Threads, NEW r \in RecType, rec' = [rec EXCEPT ![t] = r]
  PROVE  /\ rec' \in [Threads -> RecType]
         /\ rec'[t] = r
         /\ \A u \in Threads \ {t} : rec'[u] = rec[u]
  BY DEF Control

LEMMA OnePC ==
  ASSUME Control, NEW t \in Threads, NEW p \in RecPCs, rec' = [rec EXCEPT ![t].pc = p]
  PROVE  /\ rec' \in [Threads -> RecType]
         /\ rec'[t].pc = p /\ rec'[t].next = rec[t].next /\ rec'[t].old = rec[t].old
         /\ rec'[t].diff = rec[t].diff /\ rec'[t].todo = rec[t].todo
         /\ \A u \in Threads \ {t} : rec'[u] = rec[u]
  <1>. DEFINE r == [rec[t] EXCEPT !.pc = p]
  <1>1. rec[t] \in RecType
    BY DEF Control
  <1>2. /\ r \in RecType /\ r.pc = p /\ r.next = rec[t].next /\ r.old = rec[t].old
        /\ r.diff = rec[t].diff /\ r.todo = rec[t].todo
    BY <1>1 DEF RecType
  <1>3. rec' = [rec EXCEPT ![t] = r]
    OBVIOUS
  <1>. HIDE DEF r
  <1>. QED
    BY <1>2, <1>3, OneRec

LEMMA ControlSame ==
  ASSUME Control, UNCHANGED rvars
  PROVE  Control'
  <1>1. \A t \in Threads : RecOK(t)'
    BY DEF Control, RecOK, Compared, Unseen, rvars
  <1>. QED
    BY <1>1 DEF Control, rvars

LEMMA ControlCurrent ==
  ASSUME Control, NEW t \in Threads, Current(t)
  PROVE  Control'
  <1>1. UNCHANGED <<conf, current, snapshot, mu, rec>> /\ held' = [held EXCEPT ![t] = current]
    BY DEF Current
  <1>2. held' \in [Threads -> 0 .. Len(conf)]
        /\ \A u \in Threads : held'[u] = held[u] \/ held'[u] = current
    BY <1>1 DEF Control
  <1>3. \A u \in Threads : (Compared(u)' <=> Compared(u)) /\ (Unseen(u)' <=> Unseen(u))
    BY <1>1 DEF Compared, Unseen
  <1>4. \A u \in Threads : Unseen(u) => \A v \in Threads : held'[v] # rec[u].next
    BY <1>2 DEF Control, RecOK
  <1>5. \A u \in Threads : RecOK(u)'
    BY <1>1, <1>3, <1>4 DEF Control, RecOK
  <1>. QED
    BY <1>1, <1>2, <1>5 DEF Control

\* What making a container does to the containers.
LEMMA Appended ==
  ASSUME Control, NEW t \in Threads, NEW c \in Configs, NewContainer(t, c)
  PROVE  /\ conf' \in Seq(Sources)
         /\ Len(conf) \in Nat /\ Len(conf') = Len(conf) + 1 /\ Len(conf') <= MaxMade
         /\ \A k \in 1 .. Len(conf) : conf'[k] = conf[k]
         /\ conf'[Len(conf) + 1] = c
         /\ rec' \in [Threads -> RecType]
         /\ rec'[t].pc = "lock" /\ rec'[t].next = Len(conf) + 1 /\ rec'[t].old = 0
         /\ \A u \in Threads \ {t} : rec'[u] = rec[u]
         /\ t \in Reconcilers /\ rec[t].pc \in {"idle", "done", "failed"}
  <1>1. conf \in Seq(Sources) /\ Len(conf) \in Nat /\ c \in Sources
    BY DEF Control, Sources
  <1>2. /\ t \in Reconcilers /\ rec[t].pc \in {"idle", "done", "failed"}
        /\ Len(conf) < MaxMade /\ conf' = Append(conf, c)
        /\ rec' = [rec EXCEPT ![t] = [Resting EXCEPT !.pc = "lock", !.next = Len(conf')]]
    BY DEF NewContainer
  <1>3. /\ conf' \in Seq(Sources) /\ Len(conf') = Len(conf) + 1
        /\ \A k \in 1 .. Len(conf) : conf'[k] = conf[k]
        /\ conf'[Len(conf) + 1] = c
    BY <1>1, <1>2
  <1>. DEFINE r == [Resting EXCEPT !.pc = "lock", !.next = Len(conf) + 1]
  <1>4. Resting \in RecType
    BY NoDiffTyped DEF Resting, RecType, RecPCs, Nil
  <1>5. r \in RecType /\ r.pc = "lock" /\ r.next = Len(conf) + 1 /\ r.old = Resting.old
    <2>1. "lock" \in RecPCs /\ Len(conf) + 1 \in Nat
      BY <1>1 DEF RecPCs
    <2>2. Resting = [pc |-> Resting.pc, next |-> Resting.next, old |-> Resting.old,
                     diff |-> Resting.diff, todo |-> Resting.todo]
      BY DEF Resting
    <2>. QED
      BY <1>4, <2>1, <2>2 DEF RecType
  <1>6. Resting.old = 0
    BY DEF Resting, Nil
  <1>7. rec' = [rec EXCEPT ![t] = r]
    BY <1>2, <1>3
  <1>. HIDE DEF r
  <1>8. /\ rec' \in [Threads -> RecType] /\ rec'[t] = r
        /\ \A u \in Threads \ {t} : rec'[u] = rec[u]
    BY <1>5, <1>7, OneRec
  <1>9. Len(conf') <= MaxMade
    BY <1>1, <1>2, <1>3, ReconcilersAssumption
  <1>. QED
    BY <1>1, <1>2, <1>3, <1>5, <1>6, <1>8, <1>9

LEMMA ControlNewContainer ==
  ASSUME Control, NEW t \in Threads, NEW c \in Configs, NewContainer(t, c)
  PROVE  Control'
  <1>1. UNCHANGED <<current, snapshot, mu, held>>
    BY DEF NewContainer
  <1>2. /\ conf' \in Seq(Sources)
        /\ Len(conf) \in Nat /\ Len(conf') = Len(conf) + 1 /\ Len(conf') <= MaxMade
        /\ \A k \in 1 .. Len(conf) : conf'[k] = conf[k]
        /\ rec' \in [Threads -> RecType]
        /\ rec'[t].pc = "lock" /\ rec'[t].next = Len(conf) + 1 /\ rec'[t].old = 0
        /\ \A u \in Threads \ {t} : rec'[u] = rec[u]
        /\ t \in Reconcilers /\ rec[t].pc \in {"idle", "done", "failed"}
    BY Appended
  <1>3. /\ current \in 0 .. Len(conf) /\ held \in [Threads -> 0 .. Len(conf)]
        /\ \A u \in Threads : /\ RecOK(u) /\ rec[u].old \in Nat /\ rec[u].old <= Len(conf)
                              /\ held[u] <= Len(conf) /\ held[u] \in Nat
    <2>1. \A u \in Threads : RecOK(u) /\ rec[u] \in RecType /\ held[u] \in 0 .. Len(conf)
      BY DEF Control
    <2>2. \A u \in Threads : rec[u].old \in Nat /\ rec[u].old <= Len(conf)
      BY <2>1 DEF RecOK, RecType
    <2>. QED
      BY <1>2, <2>1, <2>2 DEF Control
  <1>4. RecOK(t)'
    <2>1. \A u \in Threads \ {t} : rec[u].pc # "idle" => rec[u].next # Len(conf) + 1
      BY <1>2, <1>3 DEF RecOK
    <2>2. \A u \in Threads : held[u] # Len(conf) + 1 /\ rec'[u].old # Len(conf) + 1
      BY <1>2, <1>3
    <2>3. mu # t
      BY <1>2, <1>3 DEF RecOK
    <2>4. current # Len(conf) + 1
      BY <1>2, <1>3
    <2>. QED
      BY <1>1, <1>2, <2>1, <2>2, <2>3, <2>4 DEF RecOK, Compared, Unseen
  <1>5. ASSUME NEW u \in Threads \ {t} PROVE RecOK(u)'
    <2>1. RecOK(u) /\ rec'[u] = rec[u]
      BY <1>2, <1>3
    <2>2. Compared(u) => conf'[rec[u].old] = conf[rec[u].old] /\ conf'[rec[u].next] = conf[rec[u].next]
      <3>1. Compared(u) => rec[u].old \in 1 .. Len(conf) /\ rec[u].next \in 1 .. Len(conf)
        BY <2>1 DEF RecOK, Compared
      <3>. QED
        BY <1>2, <3>1
    <2>3. rec[u].pc # "idle" => rec[u].next \in 1 .. Len(conf') /\ rec[u].next # Len(conf) + 1
                                /\ rec[u].next # 0
      BY <1>2, <2>1 DEF RecOK
    <2>4. Compared(u) => rec[u].old \in 1 .. Len(conf')
      BY <1>2, <2>1 DEF RecOK
    <2>5. rec[u].old <= Len(conf')
      BY <1>2, <1>3
    <2>6. Unseen(u) => rec[u].pc # "idle"
      BY DEF Unseen
    <2>7. Compared(u)' <=> Compared(u)
      BY <2>1 DEF Compared
    <2>8. Unseen(u)' <=> Unseen(u)
      BY <2>1 DEF Unseen
    <2>. QED
      BY <1>1, <1>2, <2>1, <2>2, <2>3, <2>4, <2>5, <2>6, <2>7, <2>8 DEF RecOK
  <1>6. current' # Nil => snapshot' = Snapshot(conf'[current'])
    BY <1>1, <1>2, <1>3 DEF Control, Nil
  <1>7. held' \in [Threads -> 0 .. Len(conf')] /\ current' \in 0 .. Len(conf')
    BY <1>1, <1>2, <1>3
  <1>. QED
    BY <1>1, <1>2, <1>4, <1>5, <1>6, <1>7 DEF Control

\* A step of t that only moves it on.
LEMMA ControlMove ==
  ASSUME Control, NEW t \in Threads, NEW p \in RecPCs, rec' = [rec EXCEPT ![t].pc = p],
         UNCHANGED <<conf, current, snapshot, mu, held>>,
         <<rec[t].pc, p>> \in {<<"inject", "warm">>, <<"expire", "closing">>,
                               <<"rollback", "undo">>, <<"closing", "done">>,
                               <<"undo", "failed">>}
  PROVE  Control'
  <1>1. /\ rec' \in [Threads -> RecType]
        /\ rec'[t].pc = p /\ rec'[t].next = rec[t].next /\ rec'[t].old = rec[t].old
        /\ rec'[t].diff = rec[t].diff /\ rec'[t].todo = rec[t].todo
        /\ \A u \in Threads \ {t} : rec'[u] = rec[u]
    BY OnePC
  <1>2. \A u \in Threads : rec'[u].next = rec[u].next /\ rec'[u].old = rec[u].old
    BY <1>1
  <1>3. RecOK(t)'
    BY <1>1, <1>2 DEF Control, RecOK, Compared, Unseen
  <1>4. ASSUME NEW u \in Threads \ {t} PROVE RecOK(u)'
    <2>1. RecOK(u) /\ rec'[u] = rec[u]
      BY <1>1 DEF Control
    <2>2. \A v \in Threads : rec'[v].pc # "idle" => rec[v].pc # "idle"
      BY <1>1
    <2>. QED
      BY <1>2, <2>1, <2>2 DEF RecOK, Compared, Unseen
  <1>. QED
    BY <1>1, <1>3, <1>4 DEF Control

LEMMA ControlInstall ==
  ASSUME Control, NEW t \in Threads, Install(t)
  PROVE  Control'
  <1>1. /\ rec[t].pc = "lock" /\ mu = None /\ current = Nil /\ current' = rec[t].next
        /\ snapshot' = Snapshot(conf[rec[t].next])
        /\ rec' = [rec EXCEPT ![t].pc = "done"]
        /\ UNCHANGED <<conf, mu, held>> /\ "done" \in RecPCs
    BY DEF Install, RecPCs
  <1>2. /\ rec' \in [Threads -> RecType]
        /\ rec'[t].pc = "done" /\ rec'[t].next = rec[t].next /\ rec'[t].old = rec[t].old
        /\ \A u \in Threads \ {t} : rec'[u] = rec[u]
    BY <1>1, OnePC
  <1>3. \A u \in Threads : rec'[u].next = rec[u].next /\ rec'[u].old = rec[u].old
    BY <1>2
  <1>4. RecOK(t)'
    BY <1>1, <1>2, <1>3, RolesAssumption DEF Control, RecOK, Compared, Unseen
  <1>5. ASSUME NEW u \in Threads \ {t} PROVE RecOK(u)'
    <2>1. /\ RecOK(u) /\ RecOK(t) /\ rec'[u] = rec[u]
      BY <1>2 DEF Control
    <2>2. Unseen(u) => rec[u].pc # "idle"
      BY DEF Unseen
    <2>3. rec[u].pc \notin {"inject", "warm"}
      BY <1>1, <2>1, RolesAssumption DEF RecOK
    <2>4. rec[u].old # rec[t].next
      BY <1>1, <2>1 DEF RecOK, Unseen
    <2>. QED
      BY <1>1, <1>2, <1>3, <2>1, <2>2, <2>3, <2>4 DEF RecOK, Compared, Unseen
  <1>6. current' \in 0 .. Len(conf)
    BY <1>1 DEF Control, RecOK
  <1>. QED
    BY <1>1, <1>2, <1>4, <1>5, <1>6 DEF Control

LEMMA ControlLockAndDiff ==
  ASSUME Control, NEW t \in Threads, LockAndDiff(t)
  PROVE  Control'
  <1>. DEFINE o == conf[current]
              n == conf[rec[t].next]
              diff == DiffOf(o, n)
              r == [rec[t] EXCEPT !.pc = "inject", !.old = current,
                                  !.diff = diff, !.todo = diff.reused]
  <1>1. rec[t].pc = "lock" /\ mu = None /\ current # Nil /\ mu' = t
        /\ UNCHANGED <<conf, current, snapshot, held>>
    BY DEF LockAndDiff
  <1>2. /\ snapshot = Snapshot(o) /\ current \in 1 .. Len(conf)
        /\ rec[t].next \in 1 .. Len(conf) /\ rec[t] \in RecType /\ RecOK(t)
        /\ o \in Sources /\ n \in Sources /\ current \in Nat
    BY <1>1 DEF Control, RecOK, Nil
  <1>3. rec' = [rec EXCEPT ![t] = r]
    BY <1>2 DEF LockAndDiff, DiffOf
  <1>4. diff \in DiffType
    BY <1>2, SourcesCompiled, DiffIs
  <1>5. /\ r \in RecType /\ r.pc = "inject" /\ r.old = current /\ r.next = rec[t].next
        /\ r.diff = diff /\ r.todo = diff.reused
    <2>1. diff.reused \in Seq(Keys)
      BY <1>4 DEF DiffType
    <2>. HIDE DEF diff
    <2>. QED
      BY <1>2, <1>4, <2>1 DEF RecType, RecPCs
  <1>. HIDE DEF r
  <1>6. /\ rec' \in [Threads -> RecType] /\ rec'[t] = r
        /\ \A u \in Threads \ {t} : rec'[u] = rec[u]
    BY <1>3, <1>5, OneRec
  <1>7. rec[t].next # current /\ \A u \in Threads : rec[u].pc \notin {"inject", "warm"}
    BY <1>1, <1>2, RolesAssumption DEF Control, RecOK, Unseen
  <1>8. RecOK(t)'
    <2>1. \A u \in Threads : held[u] # rec[t].next /\ rec[u].old # rec[t].next
      BY <1>1, <1>2 DEF RecOK, Unseen
    <2>2. \A u \in Threads \ {t} : rec[u].pc # "idle" => rec[u].next # rec[t].next
      BY <1>1, <1>2 DEF RecOK
    <2>3. t \in Reconcilers /\ current <= Len(conf)
      BY <1>1, <1>2 DEF RecOK
    <2>4. /\ r.diff = DiffOf(conf[r.old], conf[r.next])
          /\ ToSet(r.todo) \subseteq ToSet(r.diff.reused)
      BY <1>5
    <2>. HIDE DEF diff, o, n
    <2>. QED
      BY <1>1, <1>2, <1>5, <1>6, <1>7, <2>1, <2>2, <2>3, <2>4 DEF RecOK, Compared, Unseen
  <1>. HIDE DEF diff, o, n
  <1>9. ASSUME NEW u \in Threads \ {t} PROVE RecOK(u)'
    <2>1. RecOK(u) /\ rec'[u] = rec[u] /\ mu' # u
      BY <1>1, <1>6 DEF Control
    <2>2. Unseen(u) => rec[u].next # current /\ rec[u].pc # "idle"
      BY <2>1 DEF RecOK, Unseen
    <2>3. \A v \in Threads : rec'[v].old = rec[v].old \/ rec'[v].old = current
      BY <1>5, <1>6
    <2>4. \A v \in Threads : rec'[v].next = rec[v].next /\ (rec'[v].pc # "idle" => rec[v].pc # "idle")
      BY <1>1, <1>5, <1>6
    <2>. QED
      BY <1>1, <1>7, <2>1, <2>2, <2>3, <2>4 DEF RecOK, Compared, Unseen
  <1>. QED
    BY <1>1, <1>6, <1>8, <1>9 DEF Control

LEMMA ControlReuse ==
  ASSUME Control, NEW t \in Threads, Reuse(t)
  PROVE  Control'
  <1>. DEFINE r == [rec[t] EXCEPT !.todo = Tail(rec[t].todo)]
  <1>1. /\ rec[t].pc = "inject" /\ rec[t].todo # <<>>
        /\ UNCHANGED <<conf, current, snapshot, mu, held>>
        /\ rec' = [rec EXCEPT ![t] = r]
    BY DEF Reuse
  <1>2. rec[t] \in RecType /\ rec[t].todo \in Seq(Keys)
    BY DEF Control, RecType
  <1>3. /\ Tail(rec[t].todo) \in Seq(Keys)
        /\ ToSet(Tail(rec[t].todo)) \subseteq ToSet(rec[t].todo)
    BY <1>1, <1>2 DEF ToSet
  <1>4. /\ r \in RecType /\ r.pc = "inject" /\ r.next = rec[t].next /\ r.old = rec[t].old
        /\ r.diff = rec[t].diff /\ r.todo = Tail(rec[t].todo)
    BY <1>1, <1>2, <1>3 DEF RecType
  <1>. HIDE DEF r
  <1>5. /\ rec' \in [Threads -> RecType] /\ rec'[t] = r
        /\ \A u \in Threads \ {t} : rec'[u] = rec[u]
    BY <1>1, <1>4, OneRec
  <1>6. \A u \in Threads : rec'[u].next = rec[u].next /\ rec'[u].old = rec[u].old
                           /\ rec'[u].pc = rec[u].pc /\ rec'[u].diff = rec[u].diff
    BY <1>1, <1>4, <1>5
  <1>7. \A u \in Threads : RecOK(u)'
    <2>. SUFFICES ASSUME NEW u \in Threads PROVE RecOK(u)'
      OBVIOUS
    <2>1. rec[u].pc = "inject" => ToSet(rec'[u].todo) \subseteq ToSet(rec[u].diff.reused)
      BY <1>3, <1>4, <1>5 DEF Control, RecOK
    <2>. QED
      BY <1>1, <1>6, <2>1 DEF Control, RecOK, Compared, Unseen
  <1>. QED
    BY <1>1, <1>5, <1>7 DEF Control

LEMMA ControlSwitch ==
  ASSUME Control, NEW t \in Threads, Switch(t)
  PROVE  Control'
  <1>1. /\ rec[t].pc = "warm" /\ mu' = None /\ current' = rec[t].next
        /\ snapshot' = Snapshot(conf[rec[t].next])
        /\ rec' = [rec EXCEPT ![t].pc = "expire"]
        /\ UNCHANGED <<conf, held>> /\ "expire" \in RecPCs
    BY DEF Switch, Warmed, RecPCs
  <1>2. /\ rec' \in [Threads -> RecType]
        /\ rec'[t].pc = "expire" /\ rec'[t].next = rec[t].next /\ rec'[t].old = rec[t].old
        /\ rec'[t].diff = rec[t].diff
        /\ \A u \in Threads \ {t} : rec'[u] = rec[u]
    BY <1>1, OnePC
  <1>3. \A u \in Threads : rec'[u].next = rec[u].next /\ rec'[u].old = rec[u].old
    BY <1>2
  <1>4. RecOK(t) /\ mu = t
    BY <1>1 DEF Control, RecOK
  <1>5. RecOK(t)'
    BY <1>1, <1>2, <1>3, <1>4, RolesAssumption DEF RecOK, Compared, Unseen
  <1>6. ASSUME NEW u \in Threads \ {t} PROVE RecOK(u)'
    <2>1. /\ RecOK(u) /\ rec'[u] = rec[u]
      BY <1>2 DEF Control
    <2>2. Unseen(u) => rec[u].pc # "idle"
      BY DEF Unseen
    <2>3. rec[u].pc \notin {"inject", "warm"} /\ mu' # u
      BY <1>1, <1>4, <2>1, RolesAssumption DEF RecOK
    <2>4. rec[u].old # rec[t].next
      BY <1>1, <1>4 DEF RecOK, Unseen
    <2>. QED
      BY <1>1, <1>2, <1>3, <2>1, <2>2, <2>3, <2>4 DEF RecOK, Compared, Unseen
  <1>7. current' \in 0 .. Len(conf)
    BY <1>1, <1>4 DEF RecOK
  <1>. QED
    BY <1>1, <1>2, <1>5, <1>6, <1>7 DEF Control

LEMMA ControlUnlock ==
  ASSUME Control, NEW t \in Threads, Unlock(t)
  PROVE  Control'
  <1>1. /\ rec[t].pc = "warm" /\ mu' = None
        /\ rec' = [rec EXCEPT ![t].pc = "rollback"]
        /\ UNCHANGED <<conf, current, snapshot, held>> /\ "rollback" \in RecPCs
    BY DEF Unlock, Warmed, RecPCs
  <1>2. /\ rec' \in [Threads -> RecType]
        /\ rec'[t].pc = "rollback" /\ rec'[t].next = rec[t].next /\ rec'[t].old = rec[t].old
        /\ rec'[t].diff = rec[t].diff
        /\ \A u \in Threads \ {t} : rec'[u] = rec[u]
    BY <1>1, OnePC
  <1>3. \A u \in Threads : rec'[u].next = rec[u].next /\ rec'[u].old = rec[u].old
    BY <1>2
  <1>4. RecOK(t) /\ mu = t
    BY <1>1 DEF Control, RecOK
  <1>5. RecOK(t)'
    BY <1>1, <1>2, <1>3, <1>4, RolesAssumption DEF RecOK, Compared, Unseen
  <1>6. ASSUME NEW u \in Threads \ {t} PROVE RecOK(u)'
    <2>1. /\ RecOK(u) /\ rec'[u] = rec[u] /\ mu' # u /\ mu # u
      BY <1>1, <1>2, <1>4, RolesAssumption DEF Control
    <2>. QED
      BY <1>1, <1>2, <1>3, <2>1 DEF RecOK, Compared, Unseen
  <1>. QED
    BY <1>1, <1>2, <1>5, <1>6 DEF Control

\* Every step keeps Control, whatever the containers do.
LEMMA ControlStep ==
  ASSUME Control, [RNext]_allVars
  PROVE  Control'
  <1>1. ASSUME NEW t \in Threads, Step(t) PROVE Control'
    <2>1. CASE Inside(t) /\ UNCHANGED rvars
      BY <2>1, ControlSame
    <2>2. CASE Prewarm(t)
      BY <2>2, ControlMove DEF Prewarm, RecPCs
    <2>3. CASE Expire(t)
      BY <2>3, ControlMove DEF Expire, RecPCs
    <2>4. CASE Undo(t)
      BY <2>4, ControlMove DEF Undo, RecPCs
    <2>5. CASE Return(t)
      <3>1. CASE rec[t].pc = "closing"
        BY <2>5, <3>1, ControlMove DEF Return, RecPCs
      <3>2. CASE rec[t].pc = "undo"
        BY <2>5, <3>2, ControlMove DEF Return, RecPCs
      <3>. QED
        BY <2>5, <3>1, <3>2 DEF Return
    <2>. QED
      BY <1>1, <2>1, <2>2, <2>3, <2>4, <2>5, ControlInstall, ControlLockAndDiff, ControlReuse,
         ControlSwitch, ControlUnlock DEF Step
  <1>2. ASSUME NEW t \in Threads, Call(t) PROVE Control'
    <2>1. ASSUME NEW id \in Asked, Use(t, id) PROVE Control'
      BY <2>1, ControlSame DEF Use
    <2>. QED
      BY <1>2, <2>1, ControlCurrent, ControlNewContainer DEF Call
  <1>3. CASE UNCHANGED allVars
    BY <1>3, ControlSame DEF allVars
  <1>. QED
    BY <1>1, <1>2, <1>3 DEF RNext, Quiet

\* The fields of the reconciler and the locals of every Reconcile have their
\* types, and the write lock is held by just the thread between its diff and
\* the end of its prewarm (reconciler.go:82-117), for any specs, any number of
\* goroutines and any number of containers.
THEOREM ReconcilerTyped == RSpec => []RTypeOK
  <1>1. Control => RTypeOK
    <2> SUFFICES ASSUME Control PROVE RTypeOK
      OBVIOUS
    <2>1. DOMAIN conf = 1 .. Len(conf) /\ Len(conf) \in Nat
      BY DEF Control
    <2>2. 0 .. Len(conf) = {0} \union 1 .. Len(conf)
      BY <2>1
    <2>3. \A t \in Threads : rec[t].todo \in Seq(Keys)
      BY DEF Control, RecType
    <2>. QED
      BY <2>1, <2>2, <2>3 DEF Control, RecOK, RTypeOK, Nil
  <1>2. Control /\ [RNext]_allVars => Control'
    BY ControlStep
  <1>. QED
    BY <1>1, <1>2, InitControl, PTL DEF RSpec

-----------------------------------------------------------------------------
(***************************************************************************)
(* The containers: the invariant of ContainerProofs.                       *)
(***************************************************************************)
LEMMA InIs ==
  ASSUME NEW k \in Made, NEW ids \in Seq(Keys)
  PROVE  /\ In(k, ids) \in Seq(Nodes)
         /\ Len(In(k, ids)) = Len(ids)
         /\ ToSet(In(k, ids)) = {<<k, id>> : id \in ToSet(ids)}
  <1>1. Nodes = Made \X Keys
    BY ReconcilersAssumption
  <1>2. DOMAIN ids = 1 .. Len(ids) /\ Len(ids) \in Nat
    OBVIOUS
  <1>3. In(k, ids) = [j \in 1 .. Len(ids) |-> <<k, ids[j]>>]
    BY <1>2 DEF In
  <1>4. \A j \in 1 .. Len(ids) : <<k, ids[j]>> \in Nodes
    BY <1>1
  <1>5. In(k, ids) \in Seq(Nodes) /\ Len(In(k, ids)) = Len(ids)
    BY <1>2, <1>3, <1>4
  <1>6. ToSet(In(k, ids)) = {<<k, id>> : id \in ToSet(ids)}
    BY <1>2, <1>3 DEF ToSet
  <1>. QED
    BY <1>5, <1>6

LEMMA MadeIs ==
  ASSUME Control
  PROVE  /\ 1 .. Len(conf) \subseteq Made /\ Len(conf) \in Nat
         /\ Nodes = Made \X Keys
         /\ \A n \in Nodes : n = <<n[1], n[2]>> /\ n[1] \in Made /\ n[2] \in Keys
         /\ \A k \in 1 .. Len(conf) : IsCompiled(conf[k])
  <1>1. conf \in Seq(Sources) /\ Len(conf) \in Nat /\ Len(conf) <= MaxMade
    BY DEF Control
  <1>2. \A k \in 1 .. Len(conf) : IsCompiled(conf[k])
    BY <1>1, SourcesCompiled
  <1>3. 1 .. Len(conf) \subseteq Made
    BY <1>1, ReconcilersAssumption DEF Made
  <1>. QED
    BY <1>1, <1>2, <1>3, ReconcilersAssumption

\* The graph with another container.
LEMMA WithContainerIs ==
  ASSUME NEW graph \in GraphType, NEW k \in Made, NEW c, IsCompiled(c)
  PROVE  LET w == WithContainer(graph, k, c) IN
         /\ w \in GraphType
         /\ \A n \in Nodes : n[1] # k => w.deps[n] = graph.deps[n] /\ w.uses[n] = graph.deps[n]
         /\ \A n \in Nodes : n[1] = k /\ n[2] \in DOMAIN c.spec =>
              /\ w.deps[n] = In(k, c.spec[n[2]].deps)
              /\ w.uses[n] = In(k, c.spec[n[2]].deps)
         /\ \A n \in Nodes : n[1] = k /\ n[2] \notin DOMAIN c.spec =>
              w.deps[n] = <<>> /\ w.uses[n] = <<>>
         /\ ToSet(w.topo) = ToSet(graph.topo) \union {<<k, id>> : id \in DOMAIN c.spec}
  <1>. DEFINE edges == [n \in Nodes |-> IF n[1] # k THEN graph.deps[n]
                                ELSE IF n[2] \in DOMAIN c.spec
                                  THEN In(k, c.spec[n[2]].deps) ELSE <<>>]
              topo == graph.topo \o In(k, c.topo)
              w == WithContainer(graph, k, c)
  <1>1. w = [deps |-> edges, uses |-> edges, topo |-> topo]
    BY DEF WithContainer
  <1>2. \A id \in DOMAIN c.spec : c.spec[id].deps \in Seq(Keys)
    BY DEF IsCompiled
  <1>3. edges \in [Nodes -> Seq(Nodes)]
    <2>. SUFFICES ASSUME NEW n \in Nodes PROVE edges[n] \in Seq(Nodes)
      OBVIOUS
    <2>1. graph.deps[n] \in Seq(Nodes)
      BY DEF GraphType
    <2>2. n[2] \in DOMAIN c.spec => In(k, c.spec[n[2]].deps) \in Seq(Nodes)
      BY <1>2, InIs
    <2>3. <<>> \in Seq(Nodes)
      OBVIOUS
    <2>. QED
      BY <2>1, <2>2, <2>3
  <1>4. graph.topo \in Seq(Nodes) /\ c.topo \in Seq(Keys) /\ ToSet(c.topo) = DOMAIN c.spec
    BY OrderIs DEF GraphType
  <1>5. In(k, c.topo) \in Seq(Nodes) /\ ToSet(In(k, c.topo)) = {<<k, id>> : id \in DOMAIN c.spec}
    BY <1>4, InIs
  <1>6. topo \in Seq(Nodes) /\ ToSet(topo) = ToSet(graph.topo) \union ToSet(In(k, c.topo))
    <2>. DEFINE a == graph.topo
                b == In(k, c.topo)
    <2>1. a \in Seq(Nodes) /\ b \in Seq(Nodes) /\ topo = a \o b
      BY <1>4, <1>5
    <2>. HIDE DEF a, b, topo
    <2>2. /\ topo \in Seq(Nodes) /\ Len(topo) = Len(a) + Len(b)
          /\ Len(a) \in Nat /\ Len(b) \in Nat
          /\ \A i \in 1 .. Len(a) : topo[i] = a[i]
          /\ \A i \in 1 .. Len(b) : topo[Len(a) + i] = b[i]
      BY <2>1
    <2>3. DOMAIN topo = 1 .. Len(topo) /\ DOMAIN a = 1 .. Len(a) /\ DOMAIN b = 1 .. Len(b)
      BY <2>1, <2>2
    <2>4. \A i \in 1 .. Len(a) : i \in 1 .. Len(topo)
      BY <2>2
    <2>5. \A i \in 1 .. Len(b) : Len(a) + i \in 1 .. Len(topo)
      BY <2>2
    <2>6. \A j \in 1 .. Len(topo) : j \in 1 .. Len(a) \/ (j - Len(a) \in 1 .. Len(b)
                                                      /\ j = Len(a) + (j - Len(a)))
      BY <2>2
    <2>7. ToSet(a) \union ToSet(b) \subseteq ToSet(topo)
      BY <2>2, <2>3, <2>4, <2>5 DEF ToSet
    <2>8. ASSUME NEW j \in 1 .. Len(topo) PROVE topo[j] \in ToSet(a) \union ToSet(b)
      <3>1. CASE j \in 1 .. Len(a)
        BY <2>2, <2>3, <3>1 DEF ToSet
      <3>2. CASE j - Len(a) \in 1 .. Len(b) /\ j = Len(a) + (j - Len(a))
        <4>1. PICK i \in 1 .. Len(b) : j = Len(a) + i
          BY <3>2
        <4>. QED
          BY <2>2, <2>3, <4>1 DEF ToSet
      <3>. QED
        BY <2>6, <3>1, <3>2
    <2>9. ToSet(topo) = ToSet(a) \union ToSet(b)
      BY <2>3, <2>7, <2>8 DEF ToSet
    <2>. QED
      BY <2>2, <2>9 DEF a, b
  <1>7. w \in GraphType
    BY <1>1, <1>3, <1>6 DEF GraphType
  <1>8. \A n \in Nodes : n[1] # k => edges[n] = graph.deps[n]
    OBVIOUS
  <1>9. \A n \in Nodes : n[1] = k /\ n[2] \in DOMAIN c.spec => edges[n] = In(k, c.spec[n[2]].deps)
    OBVIOUS
  <1>10. \A n \in Nodes : n[1] = k /\ n[2] \notin DOMAIN c.spec => edges[n] = <<>>
    OBVIOUS
  <1>. HIDE DEF edges, topo
  <1>. QED
    BY <1>1, <1>5, <1>6, <1>7, <1>8, <1>9, <1>10

\* A close of some nodes of one container.
LEMMA TypeCloseIDsOf ==
  ASSUME TypeOK, NEW t \in Threads, NEW k \in Made, NEW ids \in Seq(Keys), CloseIDsOf(t, k, ids)
  PROVE  closing' \in [Threads -> ClosingType]
  <1>1. CASE ids = <<>>
    BY <1>1 DEF CloseIDsOf, TypeOK
  <1>2. CASE ids # <<>>
    <2>1. CloseWithKeys(t, {k} \X Keys, ToSet(In(k, ids)))
      BY <1>2 DEF CloseIDsOf
    <2>2. ToSet(In(k, ids)) \in SUBSET Nodes
      BY InIs DEF ToSet
    <2>3. {k} \X Keys \in SUBSET Nodes
      BY ReconcilersAssumption
    <2>. DEFINE keys == ToSet(In(k, ids))
                scope == {k} \X Keys
                c == [active |-> TRUE, scope |-> scope, keys |-> keys, errs |-> {}, done |-> {},
                      todo |-> [n \in Nodes |-> IF n \in scope /\ Selected(keys, n)
                                                  THEN cache[n] ELSE NoInst]]
    <2>4. closing' = [closing EXCEPT ![t] = c]
      BY <2>1 DEF CloseWithKeys
    <2>. HIDE DEF keys, scope
    <2>5. c \in ClosingType
      <3>1. cache \in [Nodes -> Instances \union {NoInst}]
        BY DEF TypeOK
      <3>2. keys \in SUBSET Nodes /\ scope \in SUBSET Nodes
        BY <2>2, <2>3 DEF keys, scope
      <3>3. [n \in Nodes |-> IF n \in scope /\ Selected(keys, n) THEN cache[n] ELSE NoInst]
              \in [Nodes -> Instances \union {NoInst}]
        BY <3>1
      <3>. QED
        BY <3>2, <3>3 DEF ClosingType
    <2>. HIDE DEF c
    <2>. QED
      BY <2>4, <2>5 DEF TypeOK
  <1>. QED
    BY <1>1, <1>2

\* A step of Reconcile that only touches a cache, a list, a result or a close.
LEMMA BaseQuiet ==
  ASSUME IndInv, UNCHANGED <<g, flight, path, frame, built>>,
         cache' \in [Nodes -> Instances \union {NoInst}],
         batch' \in [Threads -> Seq(Nodes)],
         \A t \in Threads : path[t] # <<>> => batch'[t] = batch[t],
         ret' \in [Threads -> Results],
         calls' \in [Threads -> Nat],
         closing' \in [Threads -> ClosingType]
  PROVE  IndInv'
  <1>1. TypeOK'
    BY SameInstances DEF IndInv, TypeOK
  <1>2. FramesOK'
    BY NoFrameStep DEF Instances
  <1>. QED
    BY <1>1, <1>2 DEF IndInv, FramesOK

LEMMA BaseNewContainer ==
  ASSUME IndInv, Control, NEW t \in Threads, NEW c \in Configs, NewContainer(t, c)
  PROVE  IndInv'
  <1>1. /\ UNCHANGED <<cache, flight, path, frame, built, batch, ret, closing>>
        /\ g' = WithContainer(g, Len(conf'), c)
        /\ calls' = [calls EXCEPT ![t] = @ + 1]
    BY DEF NewContainer
  <1>2. Len(conf') \in Made
    BY Appended, ReconcilersAssumption DEF Made
  <1>3. g' \in GraphType
    BY <1>1, <1>2, WithContainerIs, ReconcilersAssumption DEF IndInv, TypeOK
  <1>4. calls' \in [Threads -> Nat]
    BY <1>1 DEF IndInv, TypeOK
  <1>5. TypeOK'
    BY <1>1, <1>3, <1>4 DEF IndInv, TypeOK, Instances, InstanceType, FrameType, ClosingType, Results
  <1>6. FramesOK'
    BY <1>1, NoFrameStep DEF Instances
  <1>. QED
    BY <1>5, <1>6 DEF IndInv, FramesOK

LEMMA BaseStep ==
  ASSUME IndInv, Control, HomeOK, [RNext]_allVars
  PROVE  IndInv'
  <1>1. ASSUME UNCHANGED vars PROVE IndInv'
    BY <1>1, IndInvStep
  <1>2. ASSUME NEW t \in Threads, Step(t) PROVE IndInv'
    <2>1. CASE Inside(t)
      BY <2>1, IndInvStep DEF Next
    <2>2. CASE Reuse(t)
      <3>1. /\ UNCHANGED <<g, flight, path, frame, built, batch, ret, calls, closing>>
            /\ cache' = cache \/ cache' = [cache EXCEPT ![<<rec[t].next, Head(rec[t].todo)>>]
                                             = cache[<<rec[t].old, Head(rec[t].todo)>>]]
            /\ rec[t].pc = "inject" /\ rec[t].todo # <<>>
        BY <2>2 DEF Reuse
      <3>2. rec[t].old \in 1 .. Len(conf) /\ rec[t].todo \in Seq(Keys)
        BY <3>1 DEF Control, RecOK, Compared, RecType
      <3>3. <<rec[t].old, Head(rec[t].todo)>> \in Nodes
        BY <3>1, <3>2, MadeIs
      <3>4. cache' \in [Nodes -> Instances \union {NoInst}]
        BY <3>1, <3>3 DEF IndInv, TypeOK
      <3>. QED
        BY <3>1, <3>4, BaseQuiet DEF IndInv, TypeOK
    <2>3. CASE Prewarm(t)
      <3>1. /\ UNCHANGED <<g, cache, flight, path, frame, built, calls, closing>>
            /\ batch' = [batch EXCEPT ![t] = In(rec[t].next, rec[t].diff.rebuilt)]
            /\ ret' = [ret EXCEPT ![t] = NoInst] /\ rec[t].pc = "inject"
        BY <2>3 DEF Prewarm
      <3>2. rec[t].next \in 1 .. Len(conf) /\ rec[t].diff \in DiffType
        BY <3>1, ComparedIs DEF Compared
      <3>3. In(rec[t].next, rec[t].diff.rebuilt) \in Seq(Nodes)
        BY <3>2, InIs, MadeIs DEF DiffType
      <3>4. path[t] = <<>>
        BY <3>1 DEF Control, RecOK, HomeOK, AtHome, IndInv, PathOK
      <3>5. /\ batch' \in [Threads -> Seq(Nodes)] /\ ret' \in [Threads -> Results]
            /\ \A u \in Threads : path[u] # <<>> => batch'[u] = batch[u]
        BY <3>1, <3>3, <3>4 DEF IndInv, TypeOK, Results
      <3>. QED
        BY <3>1, <3>5, BaseQuiet DEF IndInv, TypeOK
    <2>4. CASE Expire(t)
      <3>1. /\ UNCHANGED <<g, cache, flight, path, frame, built, batch, ret, calls>>
            /\ CloseIDsOf(t, rec[t].old, rec[t].diff.closedOld) /\ rec[t].pc = "expire"
        BY <2>4 DEF Expire
      <3>2. rec[t].old \in Made /\ rec[t].diff.closedOld \in Seq(Keys)
        BY <3>1, ComparedIs, MadeIs DEF Compared, DiffType
      <3>. QED
        BY <3>1, <3>2, TypeCloseIDsOf, BaseQuiet DEF IndInv, TypeOK
    <2>5. CASE Undo(t)
      <3>1. /\ UNCHANGED <<g, cache, flight, path, frame, built, batch, ret, calls>>
            /\ CloseIDsOf(t, rec[t].next, rec[t].diff.rebuilt) /\ rec[t].pc = "rollback"
        BY <2>5 DEF Undo
      <3>2. rec[t].next \in Made /\ rec[t].diff.rebuilt \in Seq(Keys)
        BY <3>1, ComparedIs, MadeIs DEF Compared, DiffType
      <3>. QED
        BY <3>1, <3>2, TypeCloseIDsOf, BaseQuiet DEF IndInv, TypeOK
    <2>. QED
      BY <1>1, <1>2, <2>1, <2>2, <2>3, <2>4, <2>5
      DEF Step, Install, LockAndDiff, Switch, Unlock, Return
  <1>3. ASSUME NEW t \in Threads, NEW id \in Asked, Use(t, id) PROVE IndInv'
    <2>1. /\ held[t] # Nil /\ Idle(t)
          /\ batch' = [batch EXCEPT ![t] = <<<<held[t], id>>>>]
          /\ calls' = [calls EXCEPT ![t] = @ + 1]
          /\ UNCHANGED <<g, cache, flight, path, frame, built, ret, closing>>
      BY <1>3 DEF Use, CallResolve
    <2>2. <<held[t], id>> \in Nodes
      <3>1. held[t] \in 1 .. Len(conf)
        BY <2>1, MadeIs DEF Control, Nil
      <3>. QED
        BY <3>1, MadeIs, ReconcilersAssumption
    <2>3. <<<<held[t], id>>>> \in Seq(Nodes)
      BY <2>2
    <2>4. path[t] = <<>>
      BY <2>1 DEF Idle
    <2>5. batch' \in [Threads -> Seq(Nodes)] /\ calls' \in [Threads -> Nat]
      BY <2>1, <2>3 DEF IndInv, TypeOK
    <2>6. \A u \in Threads : path[u] # <<>> => batch'[u] = batch[u]
      BY <2>1, <2>4 DEF IndInv, TypeOK
    <2>. QED
      BY <2>1, <2>5, <2>6, BaseQuiet DEF IndInv, TypeOK
  <1>4. ASSUME NEW t \in Threads, Call(t) PROVE IndInv'
    BY <1>1, <1>3, <1>4, BaseNewContainer DEF Call, Current
  <1>. QED
    BY <1>1, <1>2, <1>4 DEF RNext, Quiet, allVars

-----------------------------------------------------------------------------
(***************************************************************************)
(* Where a thread works.                                                   *)
(***************************************************************************)
LEMMA SameHome ==
  ASSUME NEW u, AtHome(u), rec'[u] = rec[u], held'[u] = held[u], batch'[u] = batch[u],
         path'[u] = path[u], closing'[u] = closing[u], g' = g
  PROVE  AtHome(u)'
  BY DEF AtHome, Home, Work

LEMMA IdleHome ==
  ASSUME NEW u, batch'[u] = <<>>, path'[u] = <<>>, ~closing'[u].active
  PROVE  AtHome(u)'
  <1>1. ToSet(<<>>) = {} /\ 1 .. Len(<<>>) - 1 = {}
    BY DEF ToSet
  <1>. QED
    BY <1>1 DEF AtHome

\* A thread is busy only where its Reconcile is.
LEMMA IdleIs ==
  ASSUME IndInv, Control, HomeOK, NEW t \in Threads, t \in Reconcilers,
         rec[t].pc \notin {"warm", "closing", "undo"}
  PROVE  Idle(t) /\ path[t] = <<>> /\ batch[t] = <<>> /\ ~closing[t].active
  BY DEF HomeOK, AtHome, Idle, IndInv, PathOK

\* The container that a busy thread works in has been made.
LEMMA HomeIsMade ==
  ASSUME Control, HomeOK, NEW t \in Threads, batch[t] # <<>>
  PROVE  Home(t) \in 1 .. Len(conf)
  <1>1. held[t] \in 0 .. Len(conf) /\ RecOK(t)
    BY DEF Control
  <1>2. 0 .. Len(conf) = {0} \union 1 .. Len(conf)
    BY MadeIs
  <1>. QED
    BY <1>1, <1>2 DEF HomeOK, AtHome, Home, RecOK, Nil

\* What the steps of a call do to the stacks and the lists of IDs.
LEMMA PathEffect ==
  ASSUME IndInv, NEW t \in Threads, Inside(t)
  PROVE  /\ \A u \in Threads \ {t} : path'[u] = path[u] /\ batch'[u] = batch[u]
         /\ \/ path'[t] = path[t] /\ batch'[t] = batch[t]
            \/ /\ path[t] = <<>> /\ batch[t] # <<>>
               /\ path'[t] = <<Head(batch[t])>> /\ batch'[t] = batch[t]
            \/ /\ path[t] # <<>> /\ batch'[t] = batch[t]
               /\ \E m \in ToSet(Work(Last(path[t]))) : path'[t] = Append(path[t], m)
            \/ Len(path[t]) > 1 /\ path'[t] = Front(path[t]) /\ batch'[t] = batch[t]
            \/ /\ path[t] # <<>> /\ path'[t] = <<>>
               /\ batch'[t] = Tail(batch[t]) \/ batch'[t] = <<>>
  <1>1. CASE Begin(t)
    BY <1>1 DEF Begin, IndInv, TypeOK
  <1>2. ASSUME NEW n \in Nodes, Descend(t, n)
        PROVE  /\ \A u \in Threads \ {t} : path'[u] = path[u]
               /\ batch' = batch
               /\ \/ path'[t] = path[t]
                  \/ /\ path[t] # <<>>
                     /\ \E m \in ToSet(Work(Last(path[t]))) : path'[t] = Append(path[t], m)
    <2>. DEFINE child == Work(n)[frame[t][n].i]
    <2>1. /\ At(t, n, "work") /\ frame[t][n].i <= Len(Work(n)) /\ batch' = batch
          /\ path' = path \/ path' = [path EXCEPT ![t] = Append(path[t], child)]
      BY <1>2 DEF Descend
    <2>2. frame[t][n] \in FrameType /\ n = Last(path[t]) /\ path[t] # <<>>
      BY <2>1 DEF IndInv, TypeOK, At
    <2>3. Work(n) \in Seq(Nodes)
      BY WorkType DEF IndInv
    <2>4. child \in ToSet(Work(n))
      BY <2>1, <2>2, <2>3 DEF FrameType, ToSet
    <2>. HIDE DEF child
    <2>. QED
      BY <2>1, <2>2, <2>4 DEF IndInv, TypeOK
  <1>3. ASSUME NEW n \in Nodes, ReturnToParent(t, n)
        PROVE  /\ \A u \in Threads \ {t} : path'[u] = path[u]
               /\ batch' = batch /\ Len(path[t]) > 1 /\ path'[t] = Front(path[t])
    BY <1>3 DEF ReturnToParent, IndInv, TypeOK
  <1>4. ASSUME NEW n \in Nodes, ReturnToCaller(t, n)
        PROVE  /\ \A u \in Threads \ {t} : path'[u] = path[u] /\ batch'[u] = batch[u]
               /\ path[t] # <<>> /\ path'[t] = <<>>
               /\ batch'[t] = Tail(batch[t]) \/ batch'[t] = <<>>
    BY <1>4 DEF ReturnToCaller, At, IndInv, TypeOK
  <1>5. ASSUME NEW n \in Nodes,
               Lookup(t, n) \/ Lead(t, n) \/ Follow(t, n) \/ Recheck(t, n) \/ Construct(t, n)
                 \/ Fail(t, n) \/ Store(t, n) \/ Leave(t, n) \/ CloseOne(t, n) \/ CloseFinish(t)
        PROVE  path' = path /\ batch' = batch
    BY <1>5 DEF Lookup, Lead, Follow, Recheck, Construct, Fail, Store, Leave, CloseOne, CloseFinish
  <1>6. CASE CloseFinish(t)
    BY <1>6 DEF CloseFinish
  <1>7. ASSUME NEW n \in Nodes, ResolveStep(t, n) \/ CloseOne(t, n)
        PROVE  \/ Descend(t, n) \/ ReturnToParent(t, n) \/ ReturnToCaller(t, n)
               \/ path' = path /\ batch' = batch
    BY <1>5, <1>7 DEF ResolveStep
  <1>8. ASSUME NEW n \in Nodes, ResolveStep(t, n) \/ CloseOne(t, n)
        PROVE  /\ \A u \in Threads \ {t} : path'[u] = path[u] /\ batch'[u] = batch[u]
               /\ \/ path'[t] = path[t] /\ batch'[t] = batch[t]
                  \/ /\ path[t] # <<>> /\ batch'[t] = batch[t]
                     /\ \E m \in ToSet(Work(Last(path[t]))) : path'[t] = Append(path[t], m)
                  \/ Len(path[t]) > 1 /\ path'[t] = Front(path[t]) /\ batch'[t] = batch[t]
                  \/ /\ path[t] # <<>> /\ path'[t] = <<>>
                     /\ batch'[t] = Tail(batch[t]) \/ batch'[t] = <<>>
    BY <1>2, <1>3, <1>4, <1>7, <1>8
  <1>. QED
    BY <1>1, <1>6, <1>8 DEF Inside

\* What the steps of a call do to the close of their own thread.
LEMMA ClosingEffect ==
  ASSUME IndInv, NEW t \in Threads, Inside(t)
  PROVE  /\ \A u \in Threads \ {t} : closing'[u] = closing[u]
         /\ \/ closing'[t] = closing[t]
            \/ ~closing'[t].active
            \/ /\ closing[t].active /\ closing'[t].active
               /\ closing'[t].scope = closing[t].scope /\ closing'[t].keys = closing[t].keys
               /\ closing'[t].todo = closing[t].todo
               /\ \E n \in Nodes : closing[t].todo[n] # NoInst
                                   /\ closing'[t].done = closing[t].done \union {n}
  <1>1. ASSUME NEW n \in Nodes, ResolveStep(t, n) PROVE closing' = closing
    BY <1>1, ResolveEffect DEF Construct, Store, QuietStep
  <1>2. CASE Begin(t)
    BY <1>2 DEF Begin
  <1>3. CASE CloseFinish(t)
    <2>1. closing' = [closing EXCEPT ![t] = NoClose]
      BY <1>3 DEF CloseFinish
    <2>2. ~NoClose.active
      BY DEF NoClose
    <2>. QED
      BY <2>1, <2>2 DEF IndInv, TypeOK
  <1>4. ASSUME NEW n \in Nodes, CloseOne(t, n)
        PROVE  /\ \A u \in Threads \ {t} : closing'[u] = closing[u]
               /\ closing[t].active /\ closing'[t].active
               /\ closing'[t].scope = closing[t].scope /\ closing'[t].keys = closing[t].keys
               /\ closing'[t].todo = closing[t].todo /\ closing[t].todo[n] # NoInst
               /\ closing'[t].done = closing[t].done \union {n}
    BY <1>4, CloseOneEffect DEF IndInv
  <1>. QED
    BY <1>1, <1>2, <1>3, <1>4 DEF Inside

\* The chain of a stack stays a chain.
LEMMA HomeInside ==
  ASSUME IndInv, Control, GraphOK, HomeOK, NEW t \in Threads, Inside(t), UNCHANGED rvars, g' = g
  PROVE  HomeOK'
  <1>. SUFFICES ASSUME NEW u \in Threads PROVE AtHome(u)'
    BY DEF HomeOK
  <1>1. AtHome(u) /\ UNCHANGED <<rec, held>>
    BY DEF HomeOK, rvars
  <1>2. CASE u # t
    BY <1>1, <1>2, PathEffect, ClosingEffect, SameHome
  <1>3. CASE u = t
    <2>1. path[t] \in Seq(Nodes) /\ batch[t] \in Seq(Nodes) /\ Len(path[t]) \in Nat
      BY DEF IndInv, TypeOK
    <2>2. path[t] # <<>> => batch[t] # <<>> /\ path[t][1] = Head(batch[t])
      BY <1>1, <1>3 DEF AtHome, IndInv, PathOK
    <2>3. /\ \A n \in ToSet(batch[t]) \union ToSet(path[t]) : n[1] = Home(t)
          /\ \A j \in 1 .. Len(path[t]) - 1 : path[t][j + 1] \in ToSet(Work(path[t][j]))
      BY <1>1, <1>3 DEF AtHome
    <2>4. /\ batch'[t] # <<>> => batch[t] # <<>>
          /\ \A n \in ToSet(batch'[t]) \union ToSet(path'[t]) : n[1] = Home(t)
          /\ \A j \in 1 .. Len(path'[t]) - 1 : path'[t][j + 1] \in ToSet(Work(path'[t][j]))
          /\ path'[t] # <<>> => path'[t][1] = Head(batch'[t])
      <3>1. CASE path'[t] = path[t] /\ batch'[t] = batch[t]
        BY <2>2, <2>3, <3>1
      <3>2. CASE /\ path[t] = <<>> /\ batch[t] # <<>>
                 /\ path'[t] = <<Head(batch[t])>> /\ batch'[t] = batch[t]
        <4>1. Len(path'[t]) = 1 /\ path'[t][1] = Head(batch[t])
          BY <3>2
        <4>2. Head(batch[t]) \in ToSet(batch[t]) /\ ToSet(path'[t]) = {Head(batch[t])}
          BY <2>1, <3>2 DEF ToSet
        <4>. QED
          BY <2>3, <3>2, <4>1, <4>2
      <3>3. ASSUME path[t] # <<>>, batch'[t] = batch[t],
                   NEW m \in ToSet(Work(Last(path[t]))), path'[t] = Append(path[t], m)
            PROVE  /\ batch'[t] # <<>> => batch[t] # <<>>
                   /\ \A n \in ToSet(batch'[t]) \union ToSet(path'[t]) : n[1] = Home(t)
                   /\ \A j \in 1 .. Len(path'[t]) - 1 :
                        path'[t][j + 1] \in ToSet(Work(path'[t][j]))
                   /\ path'[t] # <<>> => path'[t][1] = Head(batch'[t])
        <4>. DEFINE s == path[t]
                    n == Last(path[t])
        <4>1. /\ Len(s) \in Nat \ {0} /\ n = s[Len(s)] /\ n \in Nodes /\ n \in ToSet(s)
          BY <2>1, <3>3 DEF Last, ToSet
        <4>2. m[1] = n[1] /\ m \in Nodes
          <5>1. g.deps[n] = g.uses[n] /\ g.deps[n] \in Seq(Nodes)
                /\ \/ g.deps[n] = In(n[1], SpecOf(n).deps) /\ Specified(n)
                   \/ g.deps[n] = <<>>
            BY <4>1 DEF GraphOK, IndInv, TypeOK, GraphType
          <5>2. ToSet(Work(n)) = ToSet(g.deps[n])
            <6>. DEFINE d == g.deps[n]
            <6>1. d \in Seq(Nodes) /\ Work(n) = d \o d
              BY <5>1 DEF Work
            <6>. HIDE DEF d
            <6>2. ToSet(d \o d) = ToSet(d)
              <7>1. /\ Len(d) \in Nat /\ DOMAIN d = 1 .. Len(d)
                    /\ Len(d \o d) = Len(d) + Len(d) /\ DOMAIN (d \o d) = 1 .. Len(d) + Len(d)
                    /\ \A i \in 1 .. Len(d) : (d \o d)[i] = d[i]
                    /\ \A i \in 1 .. Len(d) + Len(d) : i > Len(d) => (d \o d)[i] = d[i - Len(d)]
                BY <6>1
              <7>2. \A i \in 1 .. Len(d) + Len(d) : (d \o d)[i] \in ToSet(d)
                BY <7>1 DEF ToSet
              <7>3. \A i \in 1 .. Len(d) : d[i] \in ToSet(d \o d)
                BY <7>1 DEF ToSet
              <7>. QED
                BY <7>1, <7>2, <7>3 DEF ToSet
            <6>. QED
              BY <6>1, <6>2 DEF d
          <5>3. CASE g.deps[n] = <<>>
            BY <3>3, <5>2, <5>3 DEF ToSet
          <5>4. CASE g.deps[n] = In(n[1], SpecOf(n).deps) /\ Specified(n)
            <6>1. SpecOf(n).deps \in Seq(Keys) /\ n[1] \in Made
              BY <5>4, MadeIs DEF Specified, SpecOf, IsCompiled
            <6>2. m \in ToSet(In(n[1], SpecOf(n).deps))
              BY <3>3, <5>2, <5>4
            <6>. QED
              BY <6>1, <6>2, InIs DEF ToSet
          <5>. QED
            BY <5>1, <5>3, <5>4
        <4>3. /\ Len(path'[t]) = Len(s) + 1 /\ \A j \in 1 .. Len(s) : path'[t][j] = s[j]
              /\ path'[t][Len(s) + 1] = m
          BY <2>1, <3>3, <4>2
        <4>4. \A k \in 1 .. Len(path'[t]) : k \in 1 .. Len(s) \/ k = Len(s) + 1
          BY <4>1, <4>3
        <4>5. path'[t] \in Seq(Nodes)
          BY <2>1, <3>3, <4>2
        <4>6. ToSet(path'[t]) \subseteq ToSet(s) \union {m}
          BY <2>1, <4>3, <4>4, <4>5 DEF ToSet
        <4>7. m[1] = Home(t)
          BY <2>3, <4>1, <4>2
        <4>8. \A j \in 1 .. Len(path'[t]) - 1 : path'[t][j + 1] \in ToSet(Work(path'[t][j]))
          <5>. SUFFICES ASSUME NEW j \in 1 .. Len(s)
                        PROVE  path'[t][j + 1] \in ToSet(Work(path'[t][j]))
            BY <4>1, <4>3
          <5>1. CASE j = Len(s)
            BY <3>3, <4>1, <4>3, <5>1
          <5>2. CASE j # Len(s)
            <6>1. j \in 1 .. Len(s) - 1 /\ j + 1 \in 1 .. Len(s)
              BY <4>1, <5>2
            <6>. QED
              BY <2>3, <4>3, <6>1
          <5>. QED
            BY <5>1, <5>2
        <4>9. path'[t][1] = s[1]
          BY <4>1, <4>3
        <4>. QED
          BY <2>2, <2>3, <3>3, <4>6, <4>7, <4>8, <4>9
      <3>4. CASE Len(path[t]) > 1 /\ path'[t] = Front(path[t]) /\ batch'[t] = batch[t]
        <4>1. /\ Len(path'[t]) = Len(path[t]) - 1 /\ path[t] # <<>>
              /\ \A i \in Positions(path'[t]) : path'[t][i] = path[t][i]
              /\ ToSet(path'[t]) \subseteq ToSet(path[t])
          BY <2>1, <3>4, PopPath DEF IndInv, PathOK
        <4>2. ASSUME NEW j \in 1 .. Len(path'[t]) - 1
              PROVE  path'[t][j] = path[t][j] /\ path'[t][j + 1] = path[t][j + 1]
                     /\ j \in 1 .. Len(path[t]) - 1
          <5>1. PICK l \in Nat : l = Len(path[t])
            BY <2>1
          <5>2. Len(path'[t]) = l - 1 /\ j \in 1 .. l - 2
            BY <4>1, <5>1
          <5>3. j \in 1 .. l - 1 /\ j + 1 \in 1 .. l - 1
            BY <5>2
          <5>. QED
            BY <4>1, <5>1, <5>2, <5>3 DEF Positions
        <4>3. path'[t][1] = path[t][1]
          BY <2>1, <3>4, <4>1 DEF Positions
        <4>. QED
          BY <2>2, <2>3, <3>4, <4>1, <4>2, <4>3
      <3>5. CASE /\ path[t] # <<>> /\ path'[t] = <<>>
                 /\ batch'[t] = Tail(batch[t]) \/ batch'[t] = <<>>
        <4>1. batch[t] # <<>> /\ ToSet(<<>>) = {} /\ Len(<<>>) = 0
          BY <2>2, <3>5 DEF ToSet
        <4>2. ToSet(Tail(batch[t])) \subseteq ToSet(batch[t])
          BY <2>1, <4>1 DEF ToSet
        <4>. QED
          BY <2>3, <3>5, <4>1, <4>2
      <3>. QED
        BY <3>1, <3>2, <3>3, <3>4, <3>5, PathEffect
    <2>5. UNCHANGED <<Home(t), rec, held, g>> /\ \A n : Work(n)' = Work(n)
      BY <1>1 DEF Home, Work
    <2>6. closing'[t].active =>
             /\ closing[t].active
             /\ closing'[t].scope = closing[t].scope /\ closing'[t].keys = closing[t].keys
             /\ closing'[t].todo = closing[t].todo
             /\ closing'[t].done \subseteq closing[t].keys
      <3>1. closing[t].active => /\ closing[t].done \subseteq closing[t].keys
                                 /\ \A n \in Nodes : closing[t].todo[n] # NoInst => n \in closing[t].keys
        BY <1>1, <1>3 DEF AtHome
      <3>. QED
        BY <3>1, ClosingEffect
    <2>. QED
      BY <1>1, <1>3, <2>4, <2>5, <2>6 DEF AtHome
  <1>. QED
    BY <1>2, <1>3

\* What making a container does to the graph.
LEMMA GraphNewContainer ==
  ASSUME IndInv, Control, GraphOK, NEW t \in Threads, NEW c \in Configs, NewContainer(t, c)
  PROVE  /\ GraphOK'
         /\ Declared \subseteq Declared'
         /\ \A n \in Nodes : n[1] \in 1 .. Len(conf) =>
              /\ g'.deps[n] = g.deps[n] /\ g'.uses[n] = g.uses[n]
              /\ Specified(n)' <=> Specified(n)
              /\ SpecOf(n)' = SpecOf(n)
  <1>. DEFINE k == Len(conf) + 1
  <1>1. /\ Len(conf) \in Nat /\ Len(conf') = k /\ Len(conf') <= MaxMade
        /\ \A j \in 1 .. Len(conf) : conf'[j] = conf[j]
        /\ conf'[k] = c
    BY Appended
  <1>2. k \in Made /\ IsCompiled(c) /\ g \in GraphType
    BY <1>1, ReconcilersAssumption DEF Made, IndInv, TypeOK
  <1>3. g' = WithContainer(g, k, c)
    BY <1>1 DEF NewContainer
  <1>4. /\ \A n \in Nodes : n[1] # k => g'.deps[n] = g.deps[n] /\ g'.uses[n] = g.deps[n]
        /\ \A n \in Nodes : n[1] = k /\ n[2] \in DOMAIN c.spec =>
              /\ g'.deps[n] = In(k, c.spec[n[2]].deps)
              /\ g'.uses[n] = In(k, c.spec[n[2]].deps)
        /\ \A n \in Nodes : n[1] = k /\ n[2] \notin DOMAIN c.spec =>
              g'.deps[n] = <<>> /\ g'.uses[n] = <<>>
        /\ ToSet(g'.topo) = ToSet(g.topo) \union {<<k, id>> : id \in DOMAIN c.spec}
    BY <1>2, <1>3, WithContainerIs
  <1>5. 1 .. Len(conf') = 1 .. Len(conf) \union {k} /\ k \notin 1 .. Len(conf)
    BY <1>1
  <1>6. \A n \in Nodes : n = <<n[1], n[2]>> /\ n[1] \in Made
    BY MadeIs
  <1>. HIDE DEF k
  <1>7. \A n \in Nodes : n[1] # k =>
          /\ Specified(n)' <=> Specified(n)
          /\ n[1] \in 1 .. Len(conf) => SpecOf(n)' = SpecOf(n)
    BY <1>1, <1>5 DEF Specified, SpecOf
  <1>8. \A n \in Nodes : n[1] = k =>
          /\ Specified(n)' <=> n[2] \in DOMAIN c.spec
          /\ ~Specified(n)
          /\ SpecOf(n)' = c.spec[n[2]]
    BY <1>1, <1>5 DEF Specified, SpecOf
  <1>9. \A n \in Nodes : g.deps[n] = g.uses[n]
    BY DEF GraphOK
  <1>10. ASSUME NEW n \in Nodes
         PROVE  /\ g'.deps[n] = IF Specified(n)' THEN In(n[1], SpecOf(n)'.deps) ELSE <<>>
                /\ g'.uses[n] = g'.deps[n]
                /\ n \in Declared' <=> Specified(n)'
    <2>1. CASE n[1] # k
      <3>1. /\ g.deps[n] = IF Specified(n) THEN In(n[1], SpecOf(n).deps) ELSE <<>>
            /\ n \in Declared <=> Specified(n)
        BY DEF GraphOK
      <3>2. Specified(n) => SpecOf(n)' = SpecOf(n)
        BY <1>7, <2>1 DEF Specified
      <3>3. n \notin {<<k, id>> : id \in DOMAIN c.spec}
        BY <1>6, <2>1
      <3>. QED
        BY <1>4, <1>7, <2>1, <3>1, <3>2, <3>3 DEF Declared
    <2>2. CASE n[1] = k
      <3>1. n \notin Declared
        BY <1>8, <2>2 DEF GraphOK
      <3>2. n \in {<<k, id>> : id \in DOMAIN c.spec} <=> n[2] \in DOMAIN c.spec
        BY <1>6, <2>2
      <3>. QED
        BY <1>4, <1>8, <2>2, <3>1, <3>2 DEF Declared
    <2>. QED
      BY <2>1, <2>2
  <1>11. GraphOK'
    BY <1>10 DEF GraphOK
  <1>12. \A n \in Nodes : n[1] \in 1 .. Len(conf) =>
           g'.deps[n] = g.deps[n] /\ g'.uses[n] = g.uses[n]
    BY <1>4, <1>5, <1>9
  <1>. QED
    BY <1>4, <1>5, <1>7, <1>11, <1>12 DEF Declared

\* What a node declares is in the specs of its container, and its closure asks
\* for nothing else.
LEMMA WorkIs ==
  ASSUME IndInv, Control, GraphOK, NEW n \in Nodes
  PROVE  /\ ToSet(Work(n)) = IF Specified(n) THEN {<<n[1], d>> : d \in ToSet(SpecOf(n).deps)}
                                             ELSE {}
         /\ ToSet(g.uses[n]) = ToSet(Work(n))
         /\ Specified(n) => SpecOf(n).deps \in Seq(Keys)
  <1>1. g.deps[n] = g.uses[n] /\ g.deps[n] \in Seq(Nodes)
        /\ g.deps[n] = IF Specified(n) THEN In(n[1], SpecOf(n).deps) ELSE <<>>
    BY DEF GraphOK, IndInv, TypeOK, GraphType
  <1>2. ToSet(Work(n)) = ToSet(g.deps[n])
    <2>. DEFINE d == g.deps[n]
    <2>1. d \in Seq(Nodes) /\ Work(n) = d \o d
      BY <1>1 DEF Work
    <2>. HIDE DEF d
    <2>2. ToSet(d \o d) = ToSet(d)
      <3>1. /\ Len(d) \in Nat /\ DOMAIN d = 1 .. Len(d)
            /\ Len(d \o d) = Len(d) + Len(d) /\ DOMAIN (d \o d) = 1 .. Len(d) + Len(d)
            /\ \A i \in 1 .. Len(d) : (d \o d)[i] = d[i]
            /\ \A i \in 1 .. Len(d) + Len(d) : i > Len(d) => (d \o d)[i] = d[i - Len(d)]
        BY <2>1
      <3>2. \A i \in 1 .. Len(d) + Len(d) : (d \o d)[i] \in ToSet(d)
        BY <3>1 DEF ToSet
      <3>3. \A i \in 1 .. Len(d) : d[i] \in ToSet(d \o d)
        BY <3>1 DEF ToSet
      <3>. QED
        BY <3>1, <3>2, <3>3 DEF ToSet
    <2>. QED
      BY <2>1, <2>2 DEF d
  <1>3. Specified(n) => SpecOf(n).deps \in Seq(Keys) /\ n[1] \in Made
    BY MadeIs DEF Specified, SpecOf, IsCompiled
  <1>4. Specified(n) => ToSet(In(n[1], SpecOf(n).deps))
                          = {<<n[1], d>> : d \in ToSet(SpecOf(n).deps)}
    BY <1>3, InIs
  <1>5. ToSet(<<>>) = {}
    BY DEF ToSet
  <1>. QED
    BY <1>1, <1>2, <1>3, <1>4, <1>5

-----------------------------------------------------------------------------
\* The graph stays, and so does what is known to be declared.
LEMMA SameGraph ==
  ASSUME GraphOK, UNCHANGED <<g, conf>>
  PROVE  GraphOK'
  BY DEF GraphOK, Specified, SpecOf, Declared

LEMMA DeclaredInside ==
  ASSUME IndInv, OnlyDeclared, NEW t \in Threads, Inside(t)
  PROVE  OnlyDeclared' /\ g' = g
  <1>1. CASE QuietStep
    BY <1>1 DEF QuietStep, OnlyDeclared, Declared
  <1>2. ASSUME NEW n \in Nodes, Construct(t, n) PROVE OnlyDeclared' /\ g' = g
    <2>1. \A u \in Threads, m \in Nodes :
            frame'[u][m].pc \in {"work", "store"} => frame[u][m].pc \in {"work", "store"}
      BY <1>2, ConstructEffect DEF IndInv
    <2>2. UNCHANGED <<g, cache>>
      BY <1>2, ConstructEffect DEF IndInv
    <2>. QED
      BY <2>1, <2>2 DEF OnlyDeclared, Declared
  <1>3. ASSUME NEW n \in Nodes, Store(t, n) PROVE OnlyDeclared' /\ g' = g
    BY <1>3, StoreEffect DEF OnlyDeclared, Declared
  <1>4. ASSUME NEW n \in Nodes, CloseOne(t, n) PROVE OnlyDeclared' /\ g' = g
    BY <1>4, CloseOneEffect DEF IndInv, OnlyDeclared, Declared
  <1>5. CASE CloseFinish(t)
    <2>1. UNCHANGED <<g, frame>> /\ \A n \in Nodes : cache'[n] = NoInst \/ cache'[n] = cache[n]
      BY <1>5 DEF CloseFinish
    <2>. QED
      BY <2>1 DEF OnlyDeclared, Declared
  <1>6. ASSUME NEW n \in Nodes, ResolveStep(t, n) PROVE OnlyDeclared' /\ g' = g
    <2>1. QuietStep \/ Construct(t, n) \/ Store(t, n)
      BY <1>6, ResolveEffect
    <2>. QED
      BY <1>1, <1>2, <1>3, <2>1
  <1>7. Begin(t) => QuietStep
    BY BeginEffect
  <1>. QED
    BY <1>1, <1>4, <1>5, <1>6, <1>7 DEF Inside

\* What a turn of the loop over the reused nodes does to the caches.
LEMMA ReuseEffect ==
  ASSUME IndInv, Control, NEW t \in Threads, Reuse(t)
  PROVE  LET o == rec[t].old
             k == rec[t].next
             id == Head(rec[t].todo)
         IN /\ UNCHANGED <<g, flight, path, frame, built, batch, ret, calls, closing,
                           conf, current, snapshot, mu, held>>
            /\ rec[t].pc = "inject" /\ Compared(t)
            /\ id \in ToSet(rec[t].diff.reused) /\ <<o, id>> \in Nodes /\ <<k, id>> \in Nodes
            /\ \A n \in Nodes : cache'[n] = IF n = <<k, id>> /\ cache[<<o, id>>] # NoInst
                                              THEN cache[<<o, id>>] ELSE cache[n]
            /\ rec'[t].pc = "inject" /\ rec'[t].next = rec[t].next /\ rec'[t].old = rec[t].old
            /\ rec'[t].diff = rec[t].diff /\ rec'[t].todo = Tail(rec[t].todo)
            /\ \A u \in Threads \ {t} : rec'[u] = rec[u]
  <1>1. /\ UNCHANGED <<g, flight, path, frame, built, batch, ret, calls, closing,
                       conf, current, snapshot, mu, held>>
        /\ rec[t].pc = "inject" /\ rec[t].todo # <<>>
        /\ rec' = [rec EXCEPT ![t].todo = Tail(@)]
        /\ cache' = IF cache[<<rec[t].old, Head(rec[t].todo)>>] = NoInst THEN cache
                    ELSE [cache EXCEPT ![<<rec[t].next, Head(rec[t].todo)>>]
                            = cache[<<rec[t].old, Head(rec[t].todo)>>]]
    BY DEF Reuse
  <1>2. /\ rec[t] \in RecType /\ rec[t].todo \in Seq(Keys) /\ Compared(t)
        /\ rec[t].old \in 1 .. Len(conf) /\ rec[t].next \in 1 .. Len(conf)
        /\ ToSet(rec[t].todo) \subseteq ToSet(rec[t].diff.reused)
    BY <1>1 DEF Control, RecOK, Compared, RecType
  <1>3. Head(rec[t].todo) \in ToSet(rec[t].todo) /\ Head(rec[t].todo) \in Keys
    BY <1>1, <1>2 DEF ToSet
  <1>4. <<rec[t].old, Head(rec[t].todo)>> \in Nodes /\ <<rec[t].next, Head(rec[t].todo)>> \in Nodes
    BY <1>2, <1>3, MadeIs
  <1>5. /\ rec'[t].pc = "inject" /\ rec'[t].next = rec[t].next /\ rec'[t].old = rec[t].old
        /\ rec'[t].diff = rec[t].diff /\ rec'[t].todo = Tail(rec[t].todo)
        /\ \A u \in Threads \ {t} : rec'[u] = rec[u]
    <2>. DEFINE r == [rec[t] EXCEPT !.todo = Tail(rec[t].todo)]
    <2>1. /\ r.pc = rec[t].pc /\ r.next = rec[t].next /\ r.old = rec[t].old
          /\ r.diff = rec[t].diff /\ r.todo = Tail(rec[t].todo)
      BY <1>2 DEF RecType
    <2>2. rec' = [rec EXCEPT ![t] = r]
      BY <1>1
    <2>. HIDE DEF r
    <2>. QED
      BY <1>1, <2>1, <2>2 DEF Control
  <1>6. \A n \in Nodes :
          cache'[n] = IF n = <<rec[t].next, Head(rec[t].todo)>>
                         /\ cache[<<rec[t].old, Head(rec[t].todo)>>] # NoInst
                        THEN cache[<<rec[t].old, Head(rec[t].todo)>>] ELSE cache[n]
    BY <1>1 DEF IndInv, TypeOK
  <1>. QED
    BY <1>1, <1>2, <1>3, <1>4, <1>5, <1>6

\* What a reconciler begins to close.
LEMMA CloseIDsOfEffect ==
  ASSUME IndInv, NEW t \in Threads, NEW k \in Made, NEW ids \in Seq(Keys),
         CloseIDsOf(t, k, ids)
  PROVE  /\ \A u \in Threads \ {t} : closing'[u] = closing[u]
         /\ ids = <<>> => closing'[t] = closing[t]
         /\ ids # <<>> =>
              /\ closing'[t].active /\ closing'[t].done = {}
              /\ closing'[t].scope = {k} \X Keys
              /\ closing'[t].keys = ToSet(In(k, ids)) /\ closing'[t].keys # {}
              /\ \A n \in Nodes : closing'[t].todo[n] =
                   IF n[1] = k /\ n[2] \in ToSet(ids) THEN cache[n] ELSE NoInst
  <1>1. CASE ids = <<>>
    BY <1>1 DEF CloseIDsOf
  <1>2. CASE ids # <<>>
    <2>. DEFINE keys == ToSet(In(k, ids))
                scope == {k} \X Keys
                c == [active |-> TRUE, scope |-> scope, keys |-> keys, errs |-> {}, done |-> {},
                      todo |-> [n \in Nodes |-> IF n \in scope /\ Selected(keys, n)
                                                  THEN cache[n] ELSE NoInst]]
    <2>1. closing' = [closing EXCEPT ![t] = c]
      BY <1>2 DEF CloseIDsOf, CloseWithKeys
    <2>2. keys = {<<k, id>> : id \in ToSet(ids)} /\ Nodes = Made \X Keys
      BY InIs, ReconcilersAssumption
    <2>3. keys # {}
      <3>1. Head(ids) \in ToSet(ids)
        BY <1>2 DEF ToSet
      <3>. QED
        BY <2>2, <3>1
    <2>. HIDE DEF keys
    <2>4. \A n \in Nodes : n \in scope /\ Selected(keys, n)
                             <=> n[1] = k /\ n[2] \in ToSet(ids)
      <3>1. ToSet(ids) \subseteq Keys
        BY DEF ToSet
      <3>2. \A n \in Nodes : n = <<n[1], n[2]>> /\ n[2] \in Keys
        BY <2>2
      <3>3. \A n \in Nodes : n \in keys <=> n[1] = k /\ n[2] \in ToSet(ids)
        BY <2>2, <3>2
      <3>. QED
        BY <2>3, <3>2, <3>3 DEF Selected
    <2>5. /\ c.active = TRUE /\ c.scope = scope /\ c.keys = keys /\ c.done = {}
          /\ \A n \in Nodes : c.todo[n] = IF n \in scope /\ Selected(keys, n)
                                            THEN cache[n] ELSE NoInst
      OBVIOUS
    <2>. HIDE DEF c, scope
    <2>6. closing'[t] = c /\ \A u \in Threads \ {t} : closing'[u] = closing[u]
      BY <2>1 DEF IndInv, TypeOK
    <2>. QED
      BY <1>2, <2>3, <2>4, <2>5, <2>6 DEF keys, scope
  <1>. QED
    BY <1>1, <1>2

\* A step of one thread leaves the locals of the others alone.
LEMMA OthersLocals ==
  ASSUME Control, NEW t \in Threads, Step(t) \/ Call(t)
  PROVE  \A u \in Threads \ {t} : rec'[u] = rec[u] /\ held'[u] = held[u]
  <1>1. rec \in [Threads -> RecType] /\ held \in [Threads -> 0 .. Len(conf)]
    BY DEF Control
  <1>2. CASE Inside(t) /\ UNCHANGED rvars
    BY <1>2 DEF rvars
  <1>3. CASE Install(t) \/ LockAndDiff(t)
    BY <1>1, <1>3 DEF Install, LockAndDiff
  <1>4. CASE Reuse(t) \/ Prewarm(t) \/ Expire(t) \/ Undo(t)
    BY <1>1, <1>4 DEF Reuse, Prewarm, Expire, Undo
  <1>5. CASE Switch(t) \/ Unlock(t) \/ Return(t)
    BY <1>1, <1>5 DEF Switch, Unlock, Return
  <1>6. CASE Current(t)
    BY <1>1, <1>6 DEF Current
  <1>7. ASSUME NEW id \in Asked, Use(t, id)
        PROVE  \A u \in Threads \ {t} : rec'[u] = rec[u] /\ held'[u] = held[u]
    BY <1>7 DEF Use, rvars
  <1>8. ASSUME NEW c \in Configs, NewContainer(t, c)
        PROVE  \A u \in Threads \ {t} : rec'[u] = rec[u] /\ held'[u] = held[u]
    BY <1>1, <1>8 DEF NewContainer
  <1>. QED
    BY <1>2, <1>3, <1>4, <1>5, <1>6, <1>7, <1>8 DEF Step, Call

\* A thread that another one's step leaves alone.
LEMMA OtherHome ==
  ASSUME Control, HomeOK, NEW t \in Threads, Step(t) \/ Call(t), NEW u \in Threads \ {t},
         batch'[u] = batch[u], path'[u] = path[u], closing'[u] = closing[u], g' = g
  PROVE  AtHome(u)'
  BY OthersLocals, SameHome DEF HomeOK

LEMMA HomeIdle ==
  ASSUME Control, HomeOK, NEW t \in Threads, Idle(t), Step(t) \/ Call(t),
         UNCHANGED <<batch, path, closing, g>>
  PROVE  HomeOK'
  <1>1. AtHome(t)'
    BY IdleHome DEF Idle
  <1>. QED
    BY <1>1, OtherHome DEF HomeOK

LEMMA HomeNewContainer ==
  ASSUME IndInv, Control, WhereOK, NEW t \in Threads, NEW c \in Configs, NewContainer(t, c)
  PROVE  HomeOK'
  <1>1. UNCHANGED <<batch, path, closing, held>> /\ (Step(t) \/ Call(t))
    BY DEF NewContainer, Call
  <1>2. Idle(t)
    BY Appended, IdleIs DEF WhereOK
  <1>3. AtHome(t)'
    BY <1>1, <1>2, IdleHome DEF Idle
  <1>4. ASSUME NEW u \in Threads \ {t} PROVE AtHome(u)'
    <2>1. rec'[u] = rec[u] /\ AtHome(u)
      BY <1>1, OthersLocals DEF WhereOK, HomeOK
    <2>2. CASE path[u] = <<>>
      <3>1. 1 .. Len(path[u]) - 1 = {}
        BY <2>2
      <3>. QED
        BY <1>1, <2>1, <2>2, <3>1 DEF AtHome, Home
    <2>3. CASE path[u] # <<>>
      <3>1. Home(u) \in 1 .. Len(conf) /\ path[u] \in Seq(Nodes)
        BY <2>3, HomeIsMade DEF WhereOK, IndInv, PathOK, TypeOK
      <3>2. \A j \in 1 .. Len(path[u]) : path[u][j] \in Nodes /\ path[u][j] \in ToSet(path[u])
        BY <3>1 DEF ToSet
      <3>3. \A n \in Nodes : n[1] \in 1 .. Len(conf) =>
              g'.deps[n] = g.deps[n] /\ g'.uses[n] = g.uses[n]
        BY GraphNewContainer DEF WhereOK
      <3>4. \A j \in 1 .. Len(path[u]) - 1 : j \in 1 .. Len(path[u])
        BY <3>1
      <3>5. ASSUME NEW j \in 1 .. Len(path[u]) - 1
            PROVE  /\ g'.deps[path[u][j]] = g.deps[path[u][j]]
                   /\ g'.uses[path[u][j]] = g.uses[path[u][j]]
        <4>1. PICK n \in Nodes : n = path[u][j]
          BY <3>2, <3>4
        <4>2. n[1] = Home(u)
          BY <2>1, <3>2, <3>4, <4>1 DEF AtHome
        <4>. QED
          BY <3>1, <3>3, <4>1, <4>2
      <3>6. \A j \in 1 .. Len(path'[u]) - 1 : LET n == path'[u][j] IN
              path'[u][j + 1] \in ToSet(g'.deps[n] \o g'.uses[n])
        BY <1>1, <2>1, <3>5 DEF AtHome, Work
      <3>. QED
        BY <1>1, <2>1, <3>6 DEF AtHome, Home, Work
    <2>. QED
      BY <2>2, <2>3
  <1>. QED
    BY <1>3, <1>4 DEF HomeOK

LEMMA HomeUse ==
  ASSUME IndInv, Control, HomeOK, NEW t \in Threads, NEW id \in Asked, Use(t, id)
  PROVE  HomeOK'
  <1>1. /\ held[t] # Nil /\ Idle(t) /\ t \in Resolvers
        /\ batch' = [batch EXCEPT ![t] = <<<<held[t], id>>>>]
        /\ UNCHANGED <<g, path, closing, rec, held>> /\ (Step(t) \/ Call(t))
    BY DEF Use, CallResolve, rvars, Call
  <1>2. /\ batch'[t] = <<<<held[t], id>>>> /\ path'[t] = <<>> /\ ~closing'[t].active
        /\ \A u \in Threads \ {t} : batch'[u] = batch[u]
    BY <1>1 DEF Idle, IndInv, TypeOK
  <1>3. ToSet(batch'[t]) = {<<held[t], id>>} /\ ToSet(path'[t]) = {} /\ 1 .. Len(path'[t]) - 1 = {}
    BY <1>2 DEF ToSet
  <1>4. t \notin Reconcilers
    BY <1>1, ReconcilersAssumption
  <1>5. AtHome(t)'
    BY <1>1, <1>2, <1>3, <1>4 DEF AtHome, Home
  <1>. QED
    BY <1>1, <1>2, <1>5, OtherHome DEF HomeOK

\* The nodes to rebuild are handed to ResolveIDs.
LEMMA PrewarmEffect ==
  ASSUME IndInv, Control, HomeOK, NEW t \in Threads, Prewarm(t)
  PROVE  /\ UNCHANGED <<g, cache, flight, path, frame, built, calls, closing,
                        conf, current, snapshot, mu, held>>
         /\ rec[t].pc = "inject" /\ Compared(t) /\ t \in Reconcilers /\ Idle(t)
         /\ batch'[t] = In(rec[t].next, rec[t].diff.rebuilt)
         /\ ToSet(batch'[t]) = {<<rec[t].next, id>> : id \in ToSet(rec[t].diff.rebuilt)}
         /\ ret'[t] = NoInst
         /\ rec'[t].pc = "warm" /\ rec'[t].next = rec[t].next /\ rec'[t].old = rec[t].old
         /\ rec'[t].diff = rec[t].diff /\ rec[t].todo = <<>>
         /\ \A u \in Threads \ {t} : rec'[u] = rec[u] /\ batch'[u] = batch[u] /\ ret'[u] = ret[u]
  <1>1. /\ UNCHANGED <<g, cache, flight, path, frame, built, calls, closing,
                        conf, current, snapshot, mu, held>>
        /\ rec[t].pc = "inject" /\ rec[t].todo = <<>> /\ "warm" \in RecPCs
        /\ batch' = [batch EXCEPT ![t] = In(rec[t].next, rec[t].diff.rebuilt)]
        /\ ret' = [ret EXCEPT ![t] = NoInst]
        /\ rec' = [rec EXCEPT ![t].pc = "warm"]
    BY DEF Prewarm, RecPCs
  <1>2. Compared(t) /\ t \in Reconcilers
    BY <1>1 DEF Control, RecOK, Compared
  <1>3. rec[t].next \in Made /\ rec[t].diff.rebuilt \in Seq(Keys)
    BY <1>2, ComparedIs, MadeIs DEF DiffType
  <1>4. ToSet(In(rec[t].next, rec[t].diff.rebuilt))
          = {<<rec[t].next, id>> : id \in ToSet(rec[t].diff.rebuilt)}
    BY <1>3, InIs
  <1>5. /\ rec'[t].pc = "warm" /\ rec'[t].next = rec[t].next /\ rec'[t].old = rec[t].old
        /\ rec'[t].diff = rec[t].diff /\ \A u \in Threads \ {t} : rec'[u] = rec[u]
    BY <1>1, OnePC
  <1>6. Idle(t)
    BY <1>1, <1>2, IdleIs
  <1>. QED
    BY <1>1, <1>2, <1>4, <1>5, <1>6 DEF IndInv, TypeOK

LEMMA HomePrewarm ==
  ASSUME IndInv, Control, HomeOK, NEW t \in Threads, Prewarm(t)
  PROVE  HomeOK'
  <1>1. /\ UNCHANGED <<g, path, closing>> /\ t \in Reconcilers /\ Idle(t)
        /\ ToSet(batch'[t]) = {<<rec[t].next, id>> : id \in ToSet(rec[t].diff.rebuilt)}
        /\ rec'[t].pc = "warm" /\ rec'[t].next = rec[t].next
        /\ \A u \in Threads \ {t} : batch'[u] = batch[u]
    BY PrewarmEffect
  <1>2. path'[t] = <<>> /\ ~closing'[t].active
    BY <1>1 DEF Idle
  <1>3. ToSet(path'[t]) = {} /\ 1 .. Len(path'[t]) - 1 = {}
    BY <1>2 DEF ToSet
  <1>4. AtHome(t)'
    BY <1>1, <1>2, <1>3 DEF AtHome, Home
  <1>. QED
    BY <1>1, <1>4, OtherHome DEF HomeOK, Step

\* The closes of Reconcile.
LEMMA CloseEffect ==
  ASSUME IndInv, Control, HomeOK, NEW t \in Threads, NEW k, NEW ids,
         \/ Expire(t) /\ k = rec[t].old /\ ids = rec[t].diff.closedOld
         \/ Undo(t) /\ k = rec[t].next /\ ids = rec[t].diff.rebuilt
  PROVE  /\ UNCHANGED <<g, cache, flight, path, frame, built, batch, ret, calls,
                        conf, current, snapshot, mu, held>>
         /\ Compared(t) /\ t \in Reconcilers /\ Idle(t) /\ k \in Made /\ ids \in Seq(Keys)
         /\ \/ Expire(t) /\ rec[t].pc = "expire" /\ rec'[t].pc = "closing"
            \/ Undo(t) /\ rec[t].pc = "rollback" /\ rec'[t].pc = "undo"
         /\ rec'[t].next = rec[t].next /\ rec'[t].old = rec[t].old
         /\ rec'[t].diff = rec[t].diff
         /\ \A u \in Threads \ {t} : rec'[u] = rec[u] /\ closing'[u] = closing[u]
         /\ ids = <<>> => closing'[t] = closing[t]
         /\ ids # <<>> =>
              /\ closing'[t].active /\ closing'[t].done = {}
              /\ closing'[t].scope = {k} \X Keys
              /\ closing'[t].keys = ToSet(In(k, ids)) /\ closing'[t].keys # {}
              /\ \A n \in Nodes : closing'[t].todo[n] =
                   IF n[1] = k /\ n[2] \in ToSet(ids) THEN cache[n] ELSE NoInst
  <1>1. PICK p \in {"closing", "undo"} :
          /\ UNCHANGED <<g, cache, flight, path, frame, built, batch, ret, calls,
                        conf, current, snapshot, mu, held>>
          /\ CloseIDsOf(t, k, ids) /\ rec' = [rec EXCEPT ![t].pc = p]
          /\ \/ Expire(t) /\ rec[t].pc = "expire" /\ p = "closing"
             \/ Undo(t) /\ rec[t].pc = "rollback" /\ p = "undo"
    BY DEF Expire, Undo
  <1>2. Compared(t) /\ t \in Reconcilers
    BY <1>1 DEF Control, RecOK, Compared
  <1>3. k \in Made /\ ids \in Seq(Keys)
    BY <1>2, ComparedIs, MadeIs DEF DiffType
  <1>4. /\ \A u \in Threads \ {t} : closing'[u] = closing[u]
        /\ ids = <<>> => closing'[t] = closing[t]
        /\ ids # <<>> =>
              /\ closing'[t].active /\ closing'[t].done = {}
              /\ closing'[t].scope = {k} \X Keys
              /\ closing'[t].keys = ToSet(In(k, ids)) /\ closing'[t].keys # {}
              /\ \A n \in Nodes : closing'[t].todo[n] =
                   IF n[1] = k /\ n[2] \in ToSet(ids) THEN cache[n] ELSE NoInst
    BY <1>1, <1>3, CloseIDsOfEffect
  <1>5. p \in RecPCs
    BY DEF RecPCs
  <1>6. /\ rec'[t].pc = p /\ rec'[t].next = rec[t].next /\ rec'[t].old = rec[t].old
        /\ rec'[t].diff = rec[t].diff /\ \A u \in Threads \ {t} : rec'[u] = rec[u]
    BY <1>1, <1>5, OnePC
  <1>7. Idle(t)
    BY <1>1, <1>2, IdleIs
  <1>. QED
    BY <1>1, <1>2, <1>3, <1>4, <1>6, <1>7

LEMMA HomeClose ==
  ASSUME IndInv, Control, HomeOK, NEW t \in Threads, Expire(t) \/ Undo(t)
  PROVE  HomeOK'
  <1>1. PICK k, ids :
          \/ Expire(t) /\ k = rec[t].old /\ ids = rec[t].diff.closedOld
          \/ Undo(t) /\ k = rec[t].next /\ ids = rec[t].diff.rebuilt
    OBVIOUS
  <1>2. /\ UNCHANGED <<g, path, batch, held>> /\ Idle(t) /\ k \in Made /\ ids \in Seq(Keys)
        /\ rec'[t].next = rec[t].next /\ rec'[t].old = rec[t].old
        /\ rec'[t].diff = rec[t].diff
        /\ \/ Expire(t) /\ rec'[t].pc = "closing" /\ rec[t].pc = "expire"
           \/ Undo(t) /\ rec'[t].pc = "undo" /\ rec[t].pc = "rollback"
        /\ \A u \in Threads \ {t} : closing'[u] = closing[u]
        /\ ids = <<>> => closing'[t] = closing[t]
        /\ ids # <<>> =>
              /\ closing'[t].done = {}
              /\ closing'[t].scope = {k} \X Keys
              /\ closing'[t].keys = ToSet(In(k, ids)) /\ closing'[t].keys # {}
              /\ \A n \in Nodes : closing'[t].todo[n] =
                   IF n[1] = k /\ n[2] \in ToSet(ids) THEN cache[n] ELSE NoInst
    BY <1>1, CloseEffect
  <1>3. batch'[t] = <<>> /\ path'[t] = <<>>
    BY <1>2 DEF Idle
  <1>4. CASE ids = <<>>
    BY <1>2, <1>3, <1>4, IdleHome, OtherHome DEF HomeOK, Step, Idle
  <1>5. CASE ids # <<>>
    <2>1. ToSet(<<>>) = {} /\ 1 .. Len(<<>>) - 1 = {}
      BY DEF ToSet
    <2>2. ToSet(In(k, ids)) = {<<k, id>> : id \in ToSet(ids)} /\ Nodes = Made \X Keys
      BY <1>2, InIs, ReconcilersAssumption
    <2>3. \A n \in Nodes : closing'[t].todo[n] # NoInst => n \in closing'[t].keys
      BY <1>2, <1>5, <2>2
    <2>4. \/ /\ rec'[t].pc = "closing"
             /\ closing'[t].scope = {rec'[t].old} \X Keys
             /\ closing'[t].keys = ToSet(In(rec'[t].old, rec'[t].diff.closedOld))
          \/ /\ rec'[t].pc = "undo"
             /\ closing'[t].scope = {rec'[t].next} \X Keys
             /\ closing'[t].keys = ToSet(In(rec'[t].next, rec'[t].diff.rebuilt))
      <3>1. CASE Expire(t) /\ rec[t].pc = "expire" /\ rec'[t].pc = "closing"
        <4>1. k = rec[t].old /\ ids = rec[t].diff.closedOld
          BY <1>1, <3>1 DEF Undo
        <4>. QED
          BY <1>2, <1>5, <3>1, <4>1
      <3>2. CASE Undo(t) /\ rec[t].pc = "rollback" /\ rec'[t].pc = "undo"
        <4>1. k = rec[t].next /\ ids = rec[t].diff.rebuilt
          BY <1>1, <3>2 DEF Expire
        <4>. QED
          BY <1>2, <1>5, <3>2, <4>1
      <3>. QED
        BY <1>2, <3>1, <3>2
    <2>5. AtHome(t)'
      BY <1>2, <1>3, <1>5, <2>1, <2>3, <2>4 DEF AtHome
    <2>. QED
      BY <1>2, <2>5, OtherHome DEF HomeOK, Step
  <1>. QED
    BY <1>4, <1>5

\* What a step of Reconcile between its calls leaves alone.
LEMMA WhereStep ==
  ASSUME IndInv, Control, WhereOK, [RNext]_allVars
  PROVE  WhereOK'
  <1>1. ASSUME NEW t \in Threads, Step(t) \/ Call(t), Idle(t),
               UNCHANGED <<g, conf, cache, frame, batch, path, closing>>
        PROVE  WhereOK'
    BY <1>1, SameGraph, HomeIdle DEF WhereOK, OnlyDeclared, Declared
  <1>2. ASSUME NEW t \in Threads, Step(t) PROVE WhereOK'
    <2>1. CASE Inside(t) /\ UNCHANGED rvars
      <3>1. OnlyDeclared' /\ g' = g
        BY <2>1, DeclaredInside DEF WhereOK
      <3>. QED
        BY <2>1, <3>1, HomeInside, SameGraph DEF WhereOK, rvars
    <2>2. CASE Install(t) \/ LockAndDiff(t)
      <3>1. rec[t].pc = "lock" /\ UNCHANGED vars /\ conf' = conf
        BY <2>2 DEF Install, LockAndDiff
      <3>2. t \in Reconcilers
        BY <3>1 DEF Control, RecOK
      <3>. QED
        BY <1>1, <1>2, <3>1, <3>2, IdleIs DEF WhereOK, vars
    <2>3. CASE Switch(t) \/ Unlock(t) \/ Return(t)
      BY <1>1, <1>2, <2>3 DEF Switch, Unlock, Return, Warmed, vars
    <2>4. CASE Reuse(t)
      <3>1. /\ rec[t].pc = "inject" /\ UNCHANGED <<g, conf, frame, batch, path, closing>>
            /\ t \in Reconcilers /\ Compared(t)
            /\ Head(rec[t].todo) \in ToSet(rec[t].diff.reused)
            /\ \A n \in Nodes : cache'[n] = cache[n] \/ n = <<rec[t].next, Head(rec[t].todo)>>
        <4>1. rec[t].pc = "inject" /\ t \in Reconcilers
          BY <2>4 DEF Reuse, Control, RecOK
        <4>. QED
          BY <2>4, <4>1, ReuseEffect
      <3>2. Specified(<<rec[t].next, Head(rec[t].todo)>>)
        BY <3>1, ComparedIs DEF Specified
      <3>3. OnlyDeclared'
        BY <3>1, <3>2 DEF WhereOK, GraphOK, OnlyDeclared, Declared
      <3>. QED
        BY <1>2, <3>1, <3>3, IdleIs, HomeIdle, SameGraph DEF WhereOK
    <2>5. CASE Prewarm(t)
      BY <2>5, HomePrewarm, SameGraph DEF WhereOK, OnlyDeclared, Declared, Prewarm
    <2>6. CASE Expire(t) \/ Undo(t)
      BY <2>6, HomeClose, SameGraph DEF WhereOK, OnlyDeclared, Declared, Expire, Undo
    <2>. QED
      BY <1>2, <2>1, <2>2, <2>3, <2>4, <2>5, <2>6 DEF Step
  <1>3. ASSUME NEW t \in Threads, Call(t) PROVE WhereOK'
    <2>1. ASSUME NEW c \in Configs, NewContainer(t, c) PROVE WhereOK'
      <3>1. UNCHANGED <<cache, frame>>
        BY <2>1 DEF NewContainer
      <3>2. GraphOK' /\ Declared \subseteq Declared'
        BY <2>1, GraphNewContainer DEF WhereOK
      <3>. QED
        BY <2>1, <3>1, <3>2, HomeNewContainer DEF WhereOK, OnlyDeclared
    <2>2. ASSUME NEW id \in Asked, Use(t, id) PROVE WhereOK'
      <3>1. UNCHANGED <<g, conf, cache, frame>>
        BY <2>2 DEF Use, CallResolve, rvars
      <3>. QED
        BY <2>2, <3>1, HomeUse, SameGraph DEF WhereOK, OnlyDeclared, Declared
    <2>3. CASE Current(t)
      BY <1>1, <1>3, <2>3 DEF Current, vars
    <2>. QED
      BY <1>3, <2>1, <2>2, <2>3 DEF Call
  <1>4. CASE UNCHANGED allVars
    <2>1. \A t \in Threads : AtHome(t)'
      BY <1>4, SameHome DEF allVars, vars, rvars, WhereOK, HomeOK
    <2>. QED
      BY <1>4, <2>1, SameGraph DEF allVars, vars, rvars, WhereOK, HomeOK, OnlyDeclared, Declared
  <1>. QED
    BY <1>2, <1>3, <1>4 DEF RNext, Quiet

LEMMA InitWhere == RInit => WhereOK /\ IndInv
  <1> SUFFICES ASSUME RInit PROVE WhereOK /\ IndInv
    OBVIOUS
  <1>1. IndInv /\ Control
    BY InitIndInv, InitControl DEF RInit
  <1>2. HomeOK
    <2>1. \A t \in Threads : batch[t] = <<>> /\ path[t] = <<>> /\ ~closing[t].active
      BY DEF RInit, Init, NoClose
    <2>2. ToSet(<<>>) = {} /\ 1 .. Len(<<>>) - 1 = {}
      BY DEF ToSet
    <2>. QED
      BY <2>1, <2>2 DEF HomeOK, AtHome
  <1>3. OnlyDeclared
    BY DEF RInit, Init, OnlyDeclared, NoFrame
  <1>4. GraphOK
    <2>1. /\ NoGraph \in GraphType
          /\ \A n \in Nodes : NoGraph.deps[n] = <<>> /\ NoGraph.uses[n] = <<>>
          /\ ToSet(NoGraph.topo) = {}
      <3>. DEFINE e == [n \in Nodes |-> <<>>]
      <3>1. NoGraph = [deps |-> e, uses |-> e, topo |-> <<>>] /\ e \in [Nodes -> Seq(Nodes)]
        BY DEF NoGraph
      <3>2. \A n \in Nodes : e[n] = <<>>
        OBVIOUS
      <3>. HIDE DEF e
      <3>. QED
        BY <3>1, <3>2 DEF GraphType, ToSet
    <2>2. CASE conf = <<>>
      <3>1. g = NoGraph /\ 1 .. Len(conf) = {}
        BY <2>2 DEF RInit, GraphOf
      <3>. QED
        BY <2>1, <3>1 DEF GraphOK, Specified, Declared
    <2>3. CASE conf # <<>>
      <3>. DEFINE c == conf[1]
      <3>1. conf = <<c>> /\ IsCompiled(c)
        BY <2>3, ReconcilersAssumption DEF RInit
      <3>2. g = WithContainer(NoGraph, 1, c) /\ 1 \in Made
        BY <2>3, ReconcilersAssumption DEF RInit, GraphOf, Made
      <3>. HIDE DEF c
      <3>3. 1 .. Len(conf) = {1} /\ conf[1] = c
        BY <3>1
      <3>4. /\ \A n \in Nodes : n[1] # 1 => g.deps[n] = <<>> /\ g.uses[n] = <<>>
            /\ \A n \in Nodes : n[1] = 1 /\ n[2] \in DOMAIN c.spec =>
                 /\ g.deps[n] = In(1, c.spec[n[2]].deps)
                 /\ g.uses[n] = In(1, c.spec[n[2]].deps)
            /\ \A n \in Nodes : n[1] = 1 /\ n[2] \notin DOMAIN c.spec =>
                 g.deps[n] = <<>> /\ g.uses[n] = <<>>
            /\ ToSet(g.topo) = {<<1, id>> : id \in DOMAIN c.spec}
        BY <2>1, <3>1, <3>2, WithContainerIs
      <3>5. \A n \in Nodes : n = <<n[1], n[2]>>
        BY <1>1, MadeIs
      <3>6. \A n \in Nodes : Specified(n) <=> n[1] = 1 /\ n[2] \in DOMAIN c.spec
        BY <3>3 DEF Specified
      <3>7. \A n \in Nodes : n \in Declared <=> Specified(n)
        BY <3>4, <3>5, <3>6 DEF Declared
      <3>8. \A n \in Nodes : Specified(n) => SpecOf(n) = c.spec[n[2]] /\ n[1] = 1
        BY <3>3, <3>6 DEF SpecOf
      <3>9. \A n \in Nodes : LET e == IF Specified(n) THEN In(n[1], SpecOf(n).deps) ELSE <<>>
                             IN g.deps[n] = e /\ g.uses[n] = e
        BY <3>4, <3>6, <3>8
      <3>. QED
        BY <3>7, <3>9 DEF GraphOK
    <2>. QED
      BY <2>2, <2>3
  <1>. QED
    BY <1>1, <1>2, <1>3, <1>4 DEF WhereOK

-----------------------------------------------------------------------------
(***************************************************************************)
(* What a resolve does with the instances there are.                       *)
(***************************************************************************)
\* What a call is about to return it had, or has from the cache or from the
\* leader of its flight; Build gets what the nested resolves return.
SoftFrame(u, m) ==
  LET f == frame[u][m]
      h == frame'[u][m]
  IN /\ \/ h.out = f.out /\ (h.pc \in {"leave", "return"} => f.pc \in {"leave", "return"})
        \/ h.out = ErrResult
        \/ h.out = NoInst /\ h.pc \notin {"leave", "return"}
        \/ h.out = cache[m] /\ cache[m] # NoInst
        \/ \E v \in Threads : h.out = frame[v][m].out /\ frame[v][m].pc = "leave"
     /\ \A i \in h.got :
          \/ i \in f.got
          \/ IsInst(i) /\ \E n \in ToSet(Work(m)) : i = frame[u][n].out /\ frame[u][n].pc = "return"
     /\ h.pc = "none" => h = f \/ (h.out = NoInst /\ h.got = {})

SoftStep == QuietStep /\ \A u \in Threads, m \in Nodes : SoftFrame(u, m)

LEMMA SoftSame ==
  ASSUME NEW u, NEW m, frame'[u][m] = frame[u][m]
  PROVE  SoftFrame(u, m)
  BY DEF SoftFrame

\* A step that changes one frame.
LEMMA SoftTop ==
  ASSUME TypeOK, QuietStep, NEW t \in Threads, NEW n \in Nodes, NEW f,
         frame' = [frame EXCEPT ![t][n] = f],
         f.got \subseteq frame[t][n].got,
         \/ f.out = frame[t][n].out /\ f.pc \notin {"leave", "return"}
         \/ f.out = ErrResult
         \/ f.out = NoInst /\ f.pc \notin {"leave", "return"}
         \/ f.out = cache[n] /\ cache[n] # NoInst,
         f.pc = "none" => f.out = NoInst /\ f.got = {}
  PROVE  SoftStep
  <1>1. frame'[t][n] = f
    BY DEF TypeOK
  <1>2. SoftFrame(t, n)
    BY <1>1 DEF SoftFrame
  <1>3. \A u \in Threads, m \in Nodes : <<u, m>> # <<t, n>> => frame'[u][m] = frame[u][m]
    BY DEF TypeOK
  <1>. QED
    BY <1>2, <1>3, SoftSame DEF SoftStep

LEMMA EnteredIs == /\ Entered.out = NoInst /\ Entered.got = {} /\ Entered.pc = "lookup"
                   /\ NoFrame.out = NoInst /\ NoFrame.got = {} /\ NoFrame.pc = "none"
  BY DEF Entered, NoFrame

LEMMA SoftLookup ==
  ASSUME TypeOK, NEW t \in Threads, NEW n \in Nodes, Lookup(t, n)
  PROVE  SoftStep
  <1>. DEFINE f == IF cache[n] # NoInst
                     THEN [frame[t][n] EXCEPT !.pc = "return", !.out = cache[n]]
                     ELSE [frame[t][n] EXCEPT !.pc = "enter"]
  <1>1. frame[t][n] \in FrameType /\ frame' = [frame EXCEPT ![t][n] = f]
    BY DEF TypeOK, Lookup
  <1>2. /\ f.got = frame[t][n].got
        /\ IF cache[n] # NoInst THEN f.out = cache[n] ELSE f.out = frame[t][n].out /\ f.pc = "enter"
        /\ f.pc # "none"
    BY <1>1 DEF FrameType
  <1>. HIDE DEF f
  <1>. QED
    BY <1>1, <1>2, SoftTop, QuietLookup

LEMMA SoftEnter ==
  ASSUME TypeOK, NEW t \in Threads, NEW n \in Nodes, Lead(t, n) \/ Follow(t, n)
  PROVE  SoftStep
  <1>1. PICK pc \in {"recheck", "wait"} : frame' = [frame EXCEPT ![t][n].pc = pc]
    BY DEF Lead, Follow
  <1>. DEFINE f == [frame[t][n] EXCEPT !.pc = pc]
  <1>2. f.pc = pc /\ f.out = frame[t][n].out /\ f.got = frame[t][n].got
    BY DEF TypeOK, FrameType
  <1>3. frame' = [frame EXCEPT ![t][n] = f]
    BY <1>1
  <1>. HIDE DEF f
  <1>. QED
    BY <1>2, <1>3, SoftTop, QuietEnter

LEMMA SoftRecheck ==
  ASSUME TypeOK, NEW t \in Threads, NEW n \in Nodes, Recheck(t, n)
  PROVE  SoftStep
  <1>. DEFINE f == IF cache[n] # NoInst
                     THEN [frame[t][n] EXCEPT !.pc = "leave", !.out = cache[n]]
                     ELSE IF n \in Declared
                       THEN [frame[t][n] EXCEPT !.pc = "work"]
                       ELSE [frame[t][n] EXCEPT !.pc = "leave", !.out = ErrResult]
  <1>1. frame[t][n] \in FrameType /\ frame' = [frame EXCEPT ![t][n] = f]
    BY DEF TypeOK, Recheck
  <1>2. /\ f.got = frame[t][n].got
        /\ \/ cache[n] # NoInst /\ f.out = cache[n]
           \/ f.out = frame[t][n].out /\ f.pc = "work"
           \/ f.out = ErrResult
        /\ f.pc # "none"
    BY <1>1 DEF FrameType
  <1>. HIDE DEF f
  <1>. QED
    BY <1>1, <1>2, SoftTop, QuietRecheck

\* The closure ends with an error.
Ends(t, n) == frame' = [frame EXCEPT ![t][n].pc = "leave", ![t][n].out = ErrResult]

LEMMA EndedFrame ==
  ASSUME TypeOK, NEW t \in Threads, NEW n \in Nodes, Ends(t, n)
  PROVE  \E f : /\ frame' = [frame EXCEPT ![t][n] = f]
                /\ f.pc = "leave" /\ f.out = ErrResult
                /\ f.i = frame[t][n].i /\ f.got = frame[t][n].got
  <1>. DEFINE f == [frame[t][n] EXCEPT !.pc = "leave", !.out = ErrResult]
  <1>1. frame' = [frame EXCEPT ![t][n] = f] /\ frame[t][n] \in FrameType
    BY DEF TypeOK, Ends
  <1>2. f.pc = "leave" /\ f.out = ErrResult /\ f.i = frame[t][n].i /\ f.got = frame[t][n].got
    BY <1>1 DEF FrameType
  <1>. HIDE DEF f
  <1>. QED
    BY <1>1, <1>2

LEMMA SoftEnd ==
  ASSUME TypeOK, QuietStep, NEW t \in Threads, NEW n \in Nodes, NEW f,
         frame' = [frame EXCEPT ![t][n] = f],
         f.pc = "leave", f.out = ErrResult, f.got = frame[t][n].got
  PROVE  SoftStep
  BY SoftTop

LEMMA SoftDescend ==
  ASSUME IndInv, NEW t \in Threads, NEW n \in Nodes, Descend(t, n)
  PROVE  SoftStep
  <1>. DEFINE child == Work(n)[frame[t][n].i]
  <1>1. /\ frame[t][n] \in FrameType /\ UNCHANGED <<g, cache, built, closing>>
        /\ frame[t][n].pc = "work"
    BY DEF Descend, At, IndInv, TypeOK
  <1>2. child \in Nodes
    BY <1>1, WorkType DEF Descend, IndInv, FrameType
  <1>3. CASE child \in ToSet(path[t])
    <2>1. Ends(t, n)
      BY <1>3 DEF Descend, Ends
    <2>. HIDE DEF child
    <2>. QED
      BY <2>1, QuietDescend, EndedFrame, SoftEnd DEF IndInv
  <1>4. CASE child \notin ToSet(path[t])
    <2>1. frame' = [frame EXCEPT ![t][child] = Entered] /\ QuietStep
      BY <1>4, QuietDescend DEF Descend
    <2>. HIDE DEF child
    <2>. QED
      BY <1>2, <2>1, SoftTop, EnteredIs DEF IndInv
  <1>. QED
    BY <1>3, <1>4

LEMMA SoftBegin ==
  ASSUME IndInv, NEW t \in Threads, Begin(t)
  PROVE  SoftStep
  <1>1. Head(batch[t]) \in Nodes
    BY DEF Begin, IndInv, TypeOK
  <1>2. frame' = [frame EXCEPT ![t][Head(batch[t])] = Entered]
    BY DEF Begin
  <1>. QED
    BY <1>1, <1>2, SoftTop, BeginEffect, EnteredIs DEF IndInv

LEMMA SoftReturnToCaller ==
  ASSUME TypeOK, NEW t \in Threads, NEW n \in Nodes, ReturnToCaller(t, n)
  PROVE  SoftStep
  <1>1. frame' = [frame EXCEPT ![t][n] = NoFrame]
    BY DEF ReturnToCaller
  <1>. QED
    BY <1>1, SoftTop, QuietReturnToCaller, EnteredIs

LEMMA SoftLeave ==
  ASSUME TypeOK, NEW t \in Threads, NEW n \in Nodes, Leave(t, n)
  PROVE  SoftStep
  <1>1. frame[t][n].pc = "leave"
    BY DEF Leave, At
  <1>2. ASSUME NEW u \in Threads, NEW m \in Nodes PROVE SoftFrame(u, m)
    <2>1. frame[u] \in [Nodes -> FrameType] /\ frame[u][n] \in FrameType
      BY DEF TypeOK
    <2>. DEFINE f == [frame[u][n] EXCEPT !.pc = "return", !.out = frame[t][n].out]
    <2>2. f.out = frame[t][n].out /\ f.got = frame[u][n].got /\ f.pc = "return"
      BY <2>1 DEF FrameType
    <2>3. frame'[u] = IF u = t \/ frame[u][n].pc = "wait"
                        THEN [frame[u] EXCEPT ![n] = f] ELSE frame[u]
      BY DEF Leave, Waits
    <2>. HIDE DEF f
    <2>4. frame'[u][m] = frame[u][m] \/ (m = n /\ frame'[u][m] = f)
      BY <2>1, <2>3
    <2>. QED
      BY <1>1, <2>2, <2>4, SoftSame DEF SoftFrame
  <1>. QED
    BY <1>2, QuietLeave DEF SoftStep

LEMMA SoftReturnToParent ==
  ASSUME IndInv, HomeOK, NEW t \in Threads, NEW n \in Nodes, ReturnToParent(t, n)
  PROVE  SoftStep
  <1>. DEFINE p == path[t][Len(path[t]) - 1]
              got == IF frame[t][p].i > Len(g.deps[p])
                       THEN frame[t][p].got \union {frame[t][n].out} ELSE frame[t][p].got
              f == IF IsInst(frame[t][n].out)
                     THEN [frame[t][p] EXCEPT !.i = @ + 1, !.got = got]
                     ELSE [frame[t][p] EXCEPT !.pc = "leave", !.out = ErrResult]
  <1>1. /\ frame[t][n].pc = "return" /\ n = Last(path[t])
        /\ frame' = [frame EXCEPT ![t][n] = NoFrame, ![t][p] = f]
    BY DEF ReturnToParent, At
  <1>2. /\ path[t] \in Seq(Nodes) /\ Len(path[t]) > 1 /\ Len(path[t]) \in Nat
    BY DEF ReturnToParent, IndInv, TypeOK
  <1>3. Len(path[t]) - 1 \in Positions(path[t])
    BY <1>2 DEF Positions
  <1>4. p \in Nodes /\ frame[t][p].pc = "work" /\ frame[t][p] \in FrameType
    <2>1. p \in Nodes /\ frame[t][p].pc = "work"
      BY <1>2, <1>3 DEF IndInv, PathOK, Positions
    <2>. QED
      BY <2>1 DEF IndInv, TypeOK
  <1>5. n \in ToSet(Work(p))
    <2>1. n = path[t][(Len(path[t]) - 1) + 1] /\ Len(path[t]) - 1 \in 1 .. Len(path[t]) - 1
      BY <1>1, <1>2 DEF Last
    <2>. QED
      BY <2>1 DEF HomeOK, AtHome
  <1>6. got \subseteq frame[t][p].got \union {frame[t][n].out}
    OBVIOUS
  <1>7. /\ \/ f.out = frame[t][p].out /\ f.pc = "work" /\ f.got = got /\ IsInst(frame[t][n].out)
           \/ f.out = ErrResult /\ f.got = frame[t][p].got /\ f.pc = "leave"
    <2>. HIDE DEF got, p
    <2>. QED
      BY <1>4 DEF FrameType
  <1>. HIDE DEF f, p, got
  <1>8. \A u \in Threads, m \in Nodes :
          frame'[u][m] = IF u = t /\ m = p THEN f
                         ELSE IF u = t /\ m = n THEN NoFrame ELSE frame[u][m]
    BY <1>1, <1>4 DEF IndInv, TypeOK
  <1>9. ASSUME NEW u \in Threads, NEW m \in Nodes PROVE SoftFrame(u, m)
    <2>1. CASE u = t /\ m = p
      <3>1. frame'[u][m] = f /\ f.pc # "none" /\ (f.out = frame[t][p].out \/ f.out = ErrResult)
            /\ (f.pc \in {"leave", "return"} => f.out = ErrResult)
        BY <1>7, <1>8, <2>1
      <3>2. \A i \in f.got : i \in frame[t][p].got \/ (i = frame[t][n].out /\ IsInst(i))
        BY <1>6, <1>7
      <3>. QED
        BY <1>1, <1>5, <2>1, <3>1, <3>2 DEF SoftFrame
    <2>2. CASE u = t /\ m = n /\ m # p
      BY <1>8, <2>2, EnteredIs DEF SoftFrame
    <2>3. CASE ~(u = t /\ m \in {n, p})
      BY <1>8, <2>3, SoftSame
    <2>. QED
      BY <2>1, <2>2, <2>3
  <1>. QED
    BY <1>9, QuietReturnToParent DEF SoftStep

LEMMA SoftFail ==
  ASSUME TypeOK, NEW t \in Threads, NEW n \in Nodes, Fail(t, n)
  PROVE  SoftStep
  <1>1. Ends(t, n)
    BY DEF Fail, Ends
  <1>2. QuietStep
    BY QuietEnd DEF Fail, At
  <1>. QED
    BY <1>1, <1>2, EndedFrame, SoftEnd

\* Every step of a call is soft, or it builds, stores, closes or empties a cache.
LEMMA InsideEffect ==
  ASSUME IndInv, HomeOK, NEW t \in Threads, Inside(t)
  PROVE  \/ SoftStep
         \/ \E n \in Nodes : Construct(t, n) \/ Store(t, n) \/ CloseOne(t, n)
         \/ CloseFinish(t)
  <1>1. ASSUME NEW n \in Nodes, Fail(t, n) PROVE SoftStep
    BY <1>1, SoftFail DEF IndInv
  <1>2. ASSUME NEW n \in Nodes, ResolveStep(t, n)
        PROVE  SoftStep \/ Construct(t, n) \/ Store(t, n)
    BY <1>1, <1>2, SoftLookup, SoftEnter, SoftRecheck, SoftDescend, SoftLeave,
       SoftReturnToParent, SoftReturnToCaller
    DEF ResolveStep, IndInv
  <1>. QED
    BY <1>2, SoftBegin DEF Inside

\* What Construct makes of what the nested resolves returned.
LEMMA ConstructUses ==
  ASSUME TypeOK, NEW t \in Threads, NEW n \in Nodes, Construct(t, n)
  PROVE  /\ built'[Len(built) + 1].uses = frame[t][n].got
         /\ \A u \in Threads, m \in Nodes : frame'[u][m].got = frame[u][m].got
  <1>. DEFINE e == [node |-> n, uses |-> frame[t][n].got, given |-> FALSE, closed |-> 0]
              f == [frame[t][n] EXCEPT !.pc = "store", !.out = Len(built) + 1]
  <1>1. frame[t][n] \in FrameType /\ built \in Seq(InstanceType) /\ Len(built) \in Nat
    BY DEF TypeOK
  <1>2. frame' = [frame EXCEPT ![t][n] = f] /\ built' = Append(built, e)
    BY DEF Construct
  <1>3. f.got = frame[t][n].got /\ e.uses = frame[t][n].got
    BY <1>1 DEF FrameType
  <1>. HIDE DEF e, f
  <1>4. \A u \in Threads, m \in Nodes :
          frame'[u][m] = IF u = t /\ m = n THEN f ELSE frame[u][m]
    BY <1>2 DEF TypeOK
  <1>5. built'[Len(built) + 1] = e
    BY <1>1, <1>2
  <1>. QED
    BY <1>3, <1>4, <1>5

LEMMA StoreKeeps ==
  ASSUME TypeOK, NEW t \in Threads, NEW n \in Nodes, Store(t, n)
  PROVE  \A u \in Threads, m \in Nodes :
           frame'[u][m].got = frame[u][m].got /\ frame'[u][m].out = frame[u][m].out
  <1>. DEFINE f == [frame[t][n] EXCEPT !.pc = "leave"]
  <1>1. frame[t][n] \in FrameType /\ frame' = [frame EXCEPT ![t][n] = f]
    BY DEF TypeOK, Store
  <1>2. f.got = frame[t][n].got /\ f.out = frame[t][n].out
    BY <1>1 DEF FrameType
  <1>. HIDE DEF f
  <1>3. \A u \in Threads, m \in Nodes :
          frame'[u][m] = IF u = t /\ m = n THEN f ELSE frame[u][m]
    BY <1>1 DEF TypeOK
  <1>. QED
    BY <1>2, <1>3

LEMMA CloseOneKeeps ==
  ASSUME TypeOK, NEW t \in Threads, NEW n \in Nodes, CloseOne(t, n)
  PROVE  \A i \in Instances : built'[i].uses = built[i].uses
  <1>. DEFINE j == closing[t].todo[n]
              e == [built[j] EXCEPT !.closed = @ + 1]
  <1>1. j \in Instances /\ built \in Seq(InstanceType)
    BY DEF CloseOne, Pending, TypeOK, ClosingType
  <1>2. built[j] \in InstanceType
    BY <1>1 DEF Instances
  <1>3. built' = [built EXCEPT ![j] = e]
    BY DEF CloseOne
  <1>4. e.uses = built[j].uses
    <2>. HIDE DEF j
    <2>. QED
      BY <1>2 DEF InstanceType
  <1>. HIDE DEF e, j
  <1>. QED
    BY <1>1, <1>3, <1>4 DEF Instances

-----------------------------------------------------------------------------
(***************************************************************************)
(* Where instances come from.                                              *)
(***************************************************************************)
\* Nothing is ever taken out of the specs.
SpecsKept == \A m \in Nodes : Specified(m) => Specified(m)' /\ SpecOf(m)' = SpecOf(m)

LEMMA SpecsKeep ==
  ASSUME conf' = conf
  PROVE  SpecsKept
  BY DEF SpecsKept, Specified, SpecOf

LEMMA SpecsNewContainer ==
  ASSUME IndInv, Control, GraphOK, NEW t \in Threads, NEW c \in Configs, NewContainer(t, c)
  PROVE  SpecsKept
  BY GraphNewContainer DEF SpecsKept, Specified

LEMMA FromStays ==
  ASSUME SpecsKept, NEW i, NEW n \in Nodes, From(i, n), built'[i].node = built[i].node
  PROVE  From(i, n)'
  BY DEF SpecsKept, From

LEMMA ForStays ==
  ASSUME SpecsKept, NEW i, NEW n \in Nodes, For(i, n), built'[i].node = built[i].node
  PROVE  For(i, n)'
  BY DEF SpecsKept, For

\* What instances are and hold.
LEMMA InstanceIs ==
  ASSUME TypeOK, NEW i \in Instances
  PROVE  built[i].node \in Nodes /\ built[i].uses \subseteq Instances
         /\ built[i].closed \in Nat /\ i \in Nat /\ i # NoInst /\ i # ErrResult /\ IsInst(i)
  <1>1. built[i] \in InstanceType /\ i \in Nat /\ i > 0
    BY DEF TypeOK, Instances
  <1>. QED
    BY <1>1 DEF InstanceType, NoInst, ErrResult, IsInst

\* Steps that build nothing.
LEMMA OriginSame ==
  ASSUME IndInv, OriginOK, SpecsKept, Instances' = Instances,
         \A i \in Instances : built'[i].node = built[i].node /\ built'[i].uses = built[i].uses,
         \A n \in Nodes, i \in Instances : cache'[n] = i => From(i, n),
         \A t \in Threads, n \in Nodes, i \in Instances :
           /\ frame'[t][n].out = i => From(i, n)
           /\ i \in frame'[t][n].got => For(i, n)
  PROVE  OriginOK'
  <1>1. ASSUME NEW n \in Nodes, NEW i \in Instances, cache'[n] = i PROVE From(i, n)'
    BY <1>1, FromStays
  <1>2. ASSUME NEW t \in Threads, NEW n \in Nodes, NEW i \in Instances
        PROVE  /\ frame'[t][n].out = i => From(i, n)'
               /\ i \in frame'[t][n].got => For(i, n)'
    BY <1>2, FromStays, ForStays
  <1>3. ASSUME NEW i \in Instances, NEW n \in Nodes, built'[i].node = n
        PROVE  /\ Specified(n)'
               /\ \A j \in Instances : j \in built'[i].uses => For(j, n)'
    <2>1. /\ Specified(n) /\ built'[i].uses = built[i].uses
          /\ \A j \in Instances : j \in built[i].uses => For(j, n)
      BY <1>3 DEF OriginOK
    <2>2. \A j \in Instances : j \in built[i].uses => For(j, n)'
      BY <2>1, ForStays
    <2>. QED
      BY <2>1, <2>2 DEF SpecsKept
  <1>. QED
    BY <1>1, <1>2, <1>3 DEF OriginOK

\* Steps that leave the instances and who has them alone.
LEMMA OriginQuiet ==
  ASSUME IndInv, OriginOK, SpecsKept, UNCHANGED <<built, frame>>,
         \A n \in Nodes : cache'[n] = cache[n] \/ cache'[n] = NoInst
  PROVE  OriginOK'
  <1>1. Instances' = Instances
    BY DEF Instances
  <1>2. \A n \in Nodes, i \in Instances : cache'[n] = i => From(i, n)
    BY InstanceIs DEF OriginOK, IndInv
  <1>. QED
    BY <1>1, <1>2, OriginSame DEF OriginOK

LEMMA OriginSoft ==
  ASSUME IndInv, Control, WhereOK, OriginOK, SoftStep, UNCHANGED rvars
  PROVE  OriginOK'
  <1>1. UNCHANGED <<cache, built>> /\ Instances' = Instances /\ SpecsKept
    BY SpecsKeep DEF SoftStep, QuietStep, Instances, rvars
  <1>2. ASSUME NEW t \in Threads, NEW n \in Nodes, NEW i \in Instances, frame'[t][n].out = i
        PROVE  From(i, n)
    <2>1. i # NoInst /\ i # ErrResult
      BY InstanceIs DEF IndInv
    <2>2. \/ frame[t][n].out = i \/ cache[n] = i
          \/ \E v \in Threads : frame[v][n].out = i
      BY <1>2, <2>1 DEF SoftStep, SoftFrame
    <2>. QED
      BY <2>2 DEF OriginOK
  <1>3. ASSUME NEW t \in Threads, NEW n \in Nodes, NEW i \in Instances, i \in frame'[t][n].got
        PROVE  For(i, n)
    <2>1. CASE i \in frame[t][n].got
      BY <2>1 DEF OriginOK
    <2>2. ASSUME NEW m \in ToSet(Work(n)), i = frame[t][m].out PROVE For(i, n)
      <3>1. Specified(n) /\ ToSet(Work(n)) = {<<n[1], d>> : d \in ToSet(SpecOf(n).deps)}
            /\ SpecOf(n).deps \in Seq(Keys)
        BY <2>2, WorkIs DEF WhereOK
      <3>2. PICK d \in ToSet(SpecOf(n).deps) : m = <<n[1], d>>
        BY <2>2, <3>1
      <3>3. n[1] \in Made /\ d \in Keys
        BY <3>1, <3>2, MadeIs DEF ToSet
      <3>4. m \in Nodes /\ m[2] = d
        BY <3>2, <3>3, MadeIs
      <3>5. From(i, m)
        BY <2>2, <3>4 DEF OriginOK
      <3>. QED
        BY <3>1, <3>4, <3>5 DEF From, For
    <2>. QED
      BY <1>3, <2>1, <2>2 DEF SoftStep, SoftFrame
  <1>. QED
    BY <1>1, <1>2, <1>3, OriginSame DEF OriginOK

LEMMA OriginConstruct ==
  ASSUME IndInv, Control, WhereOK, OriginOK, UNCHANGED rvars,
         NEW t \in Threads, NEW n \in Nodes, Construct(t, n)
  PROVE  OriginOK'
  <1>0. PICK new : new = Len(built) + 1
    OBVIOUS
  <1>1. /\ UNCHANGED <<g, cache, closing>> /\ frame[t][n].pc = "work"
        /\ Instances' = Instances \union {new} /\ new \notin Instances
        /\ \A i \in Instances : built'[i] = built[i]
        /\ built'[new].node = n
        /\ frame'[t][n].pc = "store" /\ frame'[t][n].out = new
        /\ \A u \in Threads, m \in Nodes : <<u, m>> # <<t, n>> => frame'[u][m] = frame[u][m]
    BY <1>0, ConstructEffect DEF IndInv
  <1>2. /\ built'[new].uses = frame[t][n].got
        /\ \A u \in Threads, m \in Nodes : frame'[u][m].got = frame[u][m].got
    BY <1>0, ConstructUses DEF IndInv
  <1>3. SpecsKept
    BY SpecsKeep DEF rvars
  <1>4. new \in Nat \ {0}
    BY <1>0 DEF IndInv, TypeOK
  <1>5. \A m \in Nodes : cache[m] # new
    BY <1>1, <1>4 DEF IndInv, TypeOK, NoInst
  <1>6. \A u \in Threads, m \in Nodes : /\ frame[u][m].out # new
                                        /\ frame[u][m].got \subseteq Instances
    <2>1. \A u \in Threads, m \in Nodes : frame[u][m] \in FrameType
      BY DEF IndInv, TypeOK
    <2>. QED
      BY <1>1, <1>4, <2>1 DEF FrameType, Results, NoInst, ErrResult
  <1>7. Specified(n)
    BY <1>1 DEF WhereOK, OnlyDeclared, GraphOK
  <1>8. From(new, n)'
    BY <1>1, <1>3, <1>7 DEF From, SpecsKept
  <1>9. ASSUME NEW m \in Nodes, NEW i \in Instances', cache'[m] = i PROVE From(i, m)'
    BY <1>1, <1>3, <1>5, <1>9, FromStays DEF OriginOK
  <1>10. ASSUME NEW u \in Threads, NEW m \in Nodes, NEW i \in Instances'
         PROVE  /\ frame'[u][m].out = i => From(i, m)'
                /\ i \in frame'[u][m].got => For(i, m)'
    <2>1. frame'[u][m].out = i => From(i, m)'
      <3>1. CASE <<u, m>> = <<t, n>>
        BY <1>1, <1>8, <3>1
      <3>2. CASE <<u, m>> # <<t, n>>
        BY <1>1, <1>3, <1>6, <3>2, FromStays DEF OriginOK
      <3>. QED
        BY <3>1, <3>2
    <2>2. i \in frame'[u][m].got => For(i, m)'
      BY <1>1, <1>2, <1>3, <1>6, ForStays DEF OriginOK
    <2>. QED
      BY <2>1, <2>2
  <1>11. ASSUME NEW i \in Instances', NEW m \in Nodes, built'[i].node = m
         PROVE  /\ Specified(m)'
                /\ \A j \in Instances' : j \in built'[i].uses => For(j, m)'
    <2>1. CASE i = new
      <3>1. m = n /\ built'[i].uses = frame[t][n].got
        BY <1>1, <1>2, <1>11, <2>1
      <3>2. \A j \in frame[t][n].got : For(j, n)'
        BY <1>1, <1>3, <1>6, ForStays DEF OriginOK
      <3>. QED
        BY <1>3, <1>7, <3>1, <3>2 DEF SpecsKept
    <2>2. CASE i \in Instances
      <3>1. /\ Specified(m) /\ built'[i].uses = built[i].uses
            /\ built[i].uses \subseteq Instances
            /\ \A j \in Instances : j \in built[i].uses => For(j, m)
        BY <1>1, <1>11, <2>2, InstanceIs DEF OriginOK, IndInv
      <3>2. \A j \in built[i].uses : For(j, m)'
        BY <1>1, <1>3, <3>1, ForStays
      <3>. QED
        BY <1>3, <3>1, <3>2 DEF SpecsKept
    <2>. QED
      BY <1>1, <2>1, <2>2
  <1>. QED
    BY <1>9, <1>10, <1>11 DEF OriginOK

LEMMA OriginReuse ==
  ASSUME IndInv, Control, OriginOK, NEW t \in Threads, Reuse(t)
  PROVE  OriginOK'
  <1>. DEFINE o == rec[t].old
              k == rec[t].next
              id == Head(rec[t].todo)
  <1>1. /\ UNCHANGED <<frame, built, conf>> /\ Compared(t)
        /\ id \in ToSet(rec[t].diff.reused) /\ <<o, id>> \in Nodes /\ <<k, id>> \in Nodes
        /\ \A n \in Nodes : cache'[n] = IF n = <<k, id>> /\ cache[<<o, id>>] # NoInst
                                          THEN cache[<<o, id>>] ELSE cache[n]
    BY ReuseEffect
  <1>2. /\ o \in 1 .. Len(conf) /\ k \in 1 .. Len(conf)
        /\ id \in DOMAIN conf[o].spec /\ id \in DOMAIN conf[k].spec
        /\ HashSpec(conf[o].spec[id]) = HashSpec(conf[k].spec[id])
    BY <1>1, ReusedSpecs
  <1>. HIDE DEF o, k, id
  <1>3. Specified(<<k, id>>) /\ HashSpec(SpecOf(<<o, id>>)) = HashSpec(SpecOf(<<k, id>>))
    BY <1>2 DEF Specified, SpecOf
  <1>4. ASSUME NEW i \in Instances, From(i, <<o, id>>) PROVE From(i, <<k, id>>)
    BY <1>3, <1>4 DEF From
  <1>5. \A n \in Nodes, i \in Instances : cache'[n] = i => From(i, n)
    BY <1>1, <1>4 DEF OriginOK
  <1>6. SpecsKept /\ Instances' = Instances
    BY <1>1, SpecsKeep DEF Instances
  <1>. QED
    BY <1>1, <1>5, <1>6, OriginSame DEF OriginOK

LEMMA OriginStep ==
  ASSUME IndInv, Control, WhereOK, OriginOK, [RNext]_allVars
  PROVE  OriginOK'
  <1>1. ASSUME UNCHANGED <<built, frame, cache, conf>> PROVE OriginOK'
    BY <1>1, OriginQuiet, SpecsKeep
  <1>2. ASSUME NEW t \in Threads, Inside(t), UNCHANGED rvars PROVE OriginOK'
    <2>1. SpecsKept
      BY <1>2, SpecsKeep DEF rvars
    <2>2. ASSUME NEW n \in Nodes, Store(t, n) PROVE OriginOK'
      <3>1. /\ built' = built /\ frame[t][n].out \in Instances
            /\ \A m \in Nodes : cache'[m] = IF m = n THEN frame[t][n].out ELSE cache[m]
            /\ \A u \in Threads, m \in Nodes :
                 frame'[u][m].got = frame[u][m].got /\ frame'[u][m].out = frame[u][m].out
        BY <2>2, StoreEffect, StoreKeeps DEF IndInv
      <3>2. Instances' = Instances
        BY <3>1 DEF Instances
      <3>. QED
        BY <2>1, <3>1, <3>2, OriginSame DEF OriginOK
    <2>3. ASSUME NEW n \in Nodes, CloseOne(t, n) PROVE OriginOK'
      <3>1. /\ UNCHANGED <<cache, frame>> /\ Instances' = Instances
            /\ \A i \in Instances : built'[i].node = built[i].node
                                    /\ built'[i].uses = built[i].uses
        BY <2>3, CloseOneEffect, CloseOneKeeps DEF IndInv
      <3>. QED
        BY <2>1, <3>1, OriginSame DEF OriginOK
    <2>4. CASE CloseFinish(t)
      <3>1. UNCHANGED <<built, frame>>
            /\ \A n \in Nodes : cache'[n] = cache[n] \/ cache'[n] = NoInst
        BY <2>4 DEF CloseFinish
      <3>. QED
        BY <2>1, <3>1, OriginQuiet
    <2>. QED
      BY <1>2, <2>2, <2>3, <2>4, InsideEffect, OriginSoft, OriginConstruct DEF WhereOK
  <1>3. ASSUME NEW t \in Threads, Step(t) PROVE OriginOK'
    BY <1>1, <1>2, <1>3, OriginReuse
    DEF Step, Install, LockAndDiff, Prewarm, Switch, Unlock, Expire, Undo, Return, vars
  <1>4. ASSUME NEW t \in Threads, Call(t) PROVE OriginOK'
    <2>1. ASSUME NEW c \in Configs, NewContainer(t, c) PROVE OriginOK'
      <3>1. UNCHANGED <<built, frame, cache>> /\ SpecsKept
        BY <2>1, SpecsNewContainer DEF NewContainer, WhereOK
      <3>. QED
        BY <3>1, OriginQuiet
    <2>2. ASSUME NEW id \in Asked, Use(t, id) PROVE OriginOK'
      BY <1>1, <2>2 DEF Use, CallResolve, rvars
    <2>. QED
      BY <1>1, <1>4, <2>1, <2>2 DEF Call, Current, vars
  <1>. QED
    BY <1>1, <1>3, <1>4 DEF RNext, Quiet, allVars, vars, rvars

LEMMA InitOrigin == RInit => OriginOK
  <1> SUFFICES ASSUME RInit PROVE OriginOK
    OBVIOUS
  <1>1. Instances = {}
    BY DEF RInit, Init, Instances
  <1>. QED
    BY <1>1 DEF OriginOK

\* Who is where, and where the instances come from.
Reached == IndInv /\ Control /\ WhereOK /\ OriginOK

LEMMA ReachedStep == Reached /\ [RNext]_allVars => Reached'
  BY BaseStep, ControlStep, WhereStep, OriginStep DEF Reached, WhereOK

LEMMA InitReached == RInit => Reached
  BY InitControl, InitWhere, InitOrigin DEF Reached

\* However often an instance has been carried from one container to the next,
\* and whatever else was rebuilt, rolled back or expired on the way: what the
\* current container has of a node was built from a spec with the hash of its
\* current one (reconciler.go:96-107, 115-116).
THEOREM CarriesOnlyTheSame == RSpec => []BuiltFromItsSpec
  <1>1. Reached => BuiltFromItsSpec
    <2> SUFFICES ASSUME Reached, current # Nil, NEW id \in Keys,
                        cache[<<current, id>>] # NoInst
                 PROVE  HashSpec(conf[built[cache[<<current, id>>]].node[1]].spec[id])
                          = HashSpec(conf[current].spec[id])
      BY DEF BuiltFromItsSpec
    <2>. DEFINE n == <<current, id>>
                i == cache[n]
    <2>1. n \in Nodes
      BY MadeIs DEF Reached, Control, Nil
    <2>2. i \in Instances /\ From(i, n)
      BY <2>1 DEF Reached, IndInv, TypeOK, OriginOK
    <2>. QED
      BY <2>2 DEF From, SpecOf
  <1>. QED
    BY <1>1, InitReached, ReachedStep, PTL DEF RSpec

-----------------------------------------------------------------------------
(***************************************************************************)
(* Whom the steps of a call touch.                                         *)
(***************************************************************************)
LEMMA InPath ==
  ASSUME TypeOK, NEW t \in Threads, path[t] # <<>>
  PROVE  Last(path[t]) \in ToSet(path[t]) /\ Last(path[t]) \in Nodes
  <1>1. path[t] \in Seq(Nodes) /\ Len(path[t]) \in Nat \ {0}
    BY DEF TypeOK
  <1>. QED
    BY <1>1 DEF Last, ToSet

\* Only frames of nodes on the stack of the thread, or the one it pushes.
LEMMA FrameEffect ==
  ASSUME IndInv, NEW t \in Threads, Inside(t), NEW u \in Threads, NEW m \in Nodes,
         frame'[u][m] # frame[u][m]
  PROVE  m \in ToSet(path[t]) \/ m \in ToSet(path'[t])
  <1>1. CASE Begin(t)
    <2>1. /\ Head(batch[t]) \in Nodes
          /\ path' = [path EXCEPT ![t] = <<Head(batch[t])>>]
          /\ frame' = [frame EXCEPT ![t][Head(batch[t])] = Entered]
      BY <1>1 DEF Begin, IndInv, TypeOK
    <2>2. m = Head(batch[t]) /\ path'[t] = <<Head(batch[t])>>
      BY <2>1 DEF IndInv, TypeOK
    <2>. QED
      BY <2>2 DEF ToSet
  <1>2. ASSUME NEW n \in Nodes, Descend(t, n)
        PROVE  m \in ToSet(path[t]) \/ m \in ToSet(path'[t])
    <2>. DEFINE child == Work(n)[frame[t][n].i]
    <2>1. n = Last(path[t]) /\ path[t] # <<>> /\ frame[t][n] \in FrameType
      BY <1>2 DEF Descend, At, IndInv, TypeOK
    <2>2. child \in Nodes
      <3>1. frame[t][n].i \in Nat \ {0} /\ frame[t][n].i <= Len(Work(n))
        BY <1>2, <2>1 DEF Descend, FrameType
      <3>2. Work(n) \in Seq(Nodes)
        BY WorkType DEF IndInv
      <3>3. \A j \in 1 .. Len(Work(n)) : Work(n)[j] \in Nodes
        BY <3>2
      <3>4. Len(Work(n)) \in Nat
        BY <3>2
      <3>. QED
        BY <3>1, <3>3, <3>4
    <2>3. \/ frame' = [frame EXCEPT ![t][n].pc = "leave", ![t][n].out = ErrResult]
          \/ /\ frame' = [frame EXCEPT ![t][child] = Entered]
             /\ path' = [path EXCEPT ![t] = Append(path[t], child)]
      BY <1>2 DEF Descend
    <2>. HIDE DEF child
    <2>4. CASE frame' = [frame EXCEPT ![t][n].pc = "leave", ![t][n].out = ErrResult]
      <3>. DEFINE f == [frame[t][n] EXCEPT !.pc = "leave", !.out = ErrResult]
      <3>1. frame' = [frame EXCEPT ![t][n] = f]
        BY <2>4 DEF IndInv, TypeOK
      <3>. HIDE DEF f
      <3>2. m = n
        BY <3>1 DEF IndInv, TypeOK
      <3>. QED
        BY <2>1, <3>2, InPath DEF IndInv
    <2>5. CASE /\ frame' = [frame EXCEPT ![t][child] = Entered]
               /\ path' = [path EXCEPT ![t] = Append(path[t], child)]
      <3>1. m = child /\ path'[t] = Append(path[t], child)
        BY <2>2, <2>5 DEF IndInv, TypeOK
      <3>2. path[t] \in Seq(Nodes) /\ Len(path[t]) \in Nat
        BY DEF IndInv, TypeOK
      <3>3. path'[t] \in Seq(Nodes) /\ Len(path'[t]) = Len(path[t]) + 1
            /\ path'[t][Len(path[t]) + 1] = child
        BY <2>2, <3>1, <3>2
      <3>. QED
        BY <3>1, <3>2, <3>3 DEF ToSet
    <2>. QED
      BY <2>3, <2>4, <2>5
  <1>3. ASSUME NEW n \in Nodes, ReturnToParent(t, n)
        PROVE  m \in ToSet(path[t])
    <2>. DEFINE p == path[t][Len(path[t]) - 1]
                got == IF frame[t][p].i > Len(g.deps[p])
                         THEN frame[t][p].got \union {frame[t][n].out} ELSE frame[t][p].got
                f == IF IsInst(frame[t][n].out)
                       THEN [frame[t][p] EXCEPT !.i = @ + 1, !.got = got]
                       ELSE [frame[t][p] EXCEPT !.pc = "leave", !.out = ErrResult]
    <2>1. /\ n = Last(path[t]) /\ path[t] # <<>>
          /\ frame' = [frame EXCEPT ![t][n] = NoFrame, ![t][p] = f]
      BY <1>3 DEF ReturnToParent, At
    <2>2. path[t] \in Seq(Nodes) /\ Len(path[t]) > 1 /\ Len(path[t]) \in Nat
      BY <1>3 DEF ReturnToParent, IndInv, TypeOK
    <2>3. p \in ToSet(path[t]) /\ p \in Nodes
      BY <2>2 DEF ToSet
    <2>. HIDE DEF f, p, got
    <2>4. m = p \/ m = n
      BY <2>1, <2>3 DEF IndInv, TypeOK
    <2>. QED
      BY <2>1, <2>3, <2>4, InPath DEF IndInv
  <1>4. ASSUME NEW n \in Nodes, ResolveStep(t, n), ~Descend(t, n), ~ReturnToParent(t, n)
        PROVE  m \in ToSet(path[t])
    <2>1. n = Last(path[t]) /\ path[t] # <<>>
      BY <1>4 DEF ResolveStep, Lookup, Lead, Follow, Recheck, Construct, Fail, Store, Leave,
                  ReturnToCaller, At
    <2>2. CASE Leave(t, n)
      <3>1. m = n
        <4>1. frame[u] \in [Nodes -> FrameType]
          BY DEF IndInv, TypeOK
        <4>2. PICK f : frame'[u] = frame[u] \/ frame'[u] = [frame[u] EXCEPT ![n] = f]
          <5>. DEFINE f == [frame[u][n] EXCEPT !.pc = "return", !.out = frame[t][n].out]
          <5>1. frame'[u] = IF u = t \/ Waits(u, n) THEN [frame[u] EXCEPT ![n] = f] ELSE frame[u]
            BY <2>2 DEF Leave
          <5>. HIDE DEF f
          <5>. QED
            BY <5>1
        <4>. QED
          BY <4>1, <4>2
      <3>. QED
        BY <2>1, <3>1, InPath DEF IndInv
    <2>3. CASE ~Leave(t, n)
      <3>1. \A f : frame' = [frame EXCEPT ![t][n] = f] => m = n
        BY DEF IndInv, TypeOK
      <3>2. CASE Lookup(t, n) \/ Recheck(t, n) \/ ReturnToCaller(t, n)
        BY <3>1, <3>2, <2>1, InPath DEF Lookup, Recheck, ReturnToCaller, IndInv
      <3>3. CASE Lead(t, n) \/ Follow(t, n) \/ Store(t, n)
        <4>1. PICK p : frame' = [frame EXCEPT ![t][n].pc = p]
          BY <3>3 DEF Lead, Follow, Store
        <4>2. PICK f : f = [frame[t][n] EXCEPT !.pc = p]
          OBVIOUS
        <4>3. frame' = [frame EXCEPT ![t][n] = f]
          BY <4>1, <4>2
        <4>. QED
          BY <2>1, <3>1, <4>3, InPath DEF IndInv
      <3>4. CASE Construct(t, n) \/ Fail(t, n)
        <4>1. PICK p, r : frame' = [frame EXCEPT ![t][n].pc = p, ![t][n].out = r]
          BY <3>4 DEF Construct, Fail
        <4>2. PICK f : f = [frame[t][n] EXCEPT !.pc = p, !.out = r]
          OBVIOUS
        <4>3. frame' = [frame EXCEPT ![t][n] = f]
          BY <4>1, <4>2 DEF IndInv, TypeOK
        <4>. QED
          BY <2>1, <3>1, <4>3, InPath DEF IndInv
      <3>. QED
        BY <1>4, <2>3, <3>2, <3>3, <3>4 DEF ResolveStep
    <2>. QED
      BY <2>2, <2>3
  <1>5. ASSUME NEW n \in Nodes, CloseOne(t, n) PROVE FALSE
    BY <1>5 DEF CloseOne
  <1>6. CASE CloseFinish(t)
    BY <1>6 DEF CloseFinish
  <1>. QED
    BY <1>1, <1>2, <1>3, <1>4, <1>5, <1>6 DEF Inside

\* Only the cache of a node on the stack, or of one that the thread has closed.
LEMMA CacheEffect ==
  ASSUME IndInv, NEW t \in Threads, Inside(t), NEW m \in Nodes, cache'[m] # cache[m]
  PROVE  m \in ToSet(path[t]) \/ (closing[t].active /\ m \in Forgotten(closing[t]))
  <1>1. CASE QuietStep
    BY <1>1 DEF QuietStep
  <1>2. ASSUME NEW n \in Nodes, Store(t, n) PROVE m \in ToSet(path[t])
    <2>1. m = n
      BY <1>2, StoreEffect
    <2>2. n = Last(path[t]) /\ path[t] # <<>>
      BY <1>2 DEF Store, At
    <2>. QED
      BY <2>1, <2>2, InPath DEF IndInv
  <1>3. ASSUME NEW n \in Nodes, Construct(t, n) \/ CloseOne(t, n) PROVE FALSE
    BY <1>3 DEF Construct, CloseOne
  <1>4. CASE CloseFinish(t)
    BY <1>4 DEF CloseFinish
  <1>5. Begin(t) => QuietStep
    BY BeginEffect
  <1>6. \A n \in Nodes : ResolveStep(t, n) => Construct(t, n) \/ Store(t, n) \/ QuietStep
    BY ResolveEffect
  <1>. QED
    BY <1>1, <1>2, <1>3, <1>4, <1>5, <1>6 DEF Inside

\* A result is the caller's own.
LEMMA RetEffect ==
  ASSUME IndInv, NEW t \in Threads, Inside(t)
  PROVE  /\ \A u \in Threads \ {t} : ret'[u] = ret[u]
         /\ \/ ret'[t] = ret[t] /\ batch'[t] = batch[t]
            \/ \E n \in Nodes : ReturnToCaller(t, n)
            \/ closing[t].active
  <1>1. CASE Begin(t)
    BY <1>1 DEF Begin
  <1>2. ASSUME NEW n \in Nodes, ReturnToCaller(t, n)
        PROVE  \A u \in Threads \ {t} : ret'[u] = ret[u]
    BY <1>2 DEF ReturnToCaller, IndInv, TypeOK
  <1>3. ASSUME NEW n \in Nodes,
               Lookup(t, n) \/ Lead(t, n) \/ Follow(t, n) \/ Recheck(t, n) \/ Construct(t, n)
                 \/ Fail(t, n) \/ Store(t, n) \/ Leave(t, n) \/ CloseOne(t, n)
                 \/ Descend(t, n) \/ ReturnToParent(t, n)
        PROVE  ret' = ret /\ batch' = batch
    BY <1>3 DEF Lookup, Lead, Follow, Recheck, Construct, Fail, Store, Leave, CloseOne, Descend,
                ReturnToParent
  <1>4. CASE CloseFinish(t)
    BY <1>4 DEF CloseFinish, IndInv, TypeOK
  <1>. QED
    BY <1>1, <1>2, <1>3, <1>4 DEF Inside, ResolveStep

\* An idle thread is inside nothing.
LEMMA IdleIsOutside ==
  ASSUME NEW t \in Threads, Idle(t), Inside(t)
  PROVE  FALSE
  BY DEF Idle, Inside, Begin, ResolveStep, CloseOne, CloseFinish, Lookup, Lead, Follow, Recheck,
         Descend, Construct, Fail, Store, Leave, ReturnToParent, ReturnToCaller, At

-----------------------------------------------------------------------------
\* Nobody but its maker works in a container that nobody has seen.
LEMMA Elsewhere ==
  ASSUME Control, HomeOK, NEW t \in Threads, Unseen(t), NEW u \in Threads \ {t}, batch[u] # <<>>
  PROVE  Home(u) # rec[t].next
  <1>1. RecOK(t) /\ rec[t].pc # "idle"
    BY DEF Control, Unseen
  <1>2. IF u \in Reconcilers THEN rec[u].pc = "warm" ELSE held[u] # Nil
    BY DEF HomeOK, AtHome
  <1>. QED
    BY <1>1, <1>2 DEF RecOK, Home

\* What a thread has closed and takes out of a cache.
LEMMA ForgottenIs ==
  ASSUME IndInv, Control, HomeOK, NEW t \in Threads, closing[t].active,
         NEW m \in Forgotten(closing[t])
  PROVE  /\ m \in closing[t].keys
         /\ \/ rec[t].pc = "closing" /\ m[1] = rec[t].old /\ m[2] \in ToSet(rec[t].diff.closedOld)
            \/ rec[t].pc = "undo" /\ m[1] = rec[t].next /\ m[2] \in ToSet(rec[t].diff.rebuilt)
  <1>1. m \in closing[t].keys
    BY DEF HomeOK, AtHome, Forgotten
  <1>2. \/ /\ rec[t].pc = "closing"
           /\ closing[t].keys = ToSet(In(rec[t].old, rec[t].diff.closedOld))
        \/ /\ rec[t].pc = "undo"
           /\ closing[t].keys = ToSet(In(rec[t].next, rec[t].diff.rebuilt))
    BY DEF HomeOK, AtHome
  <1>3. Compared(t)
    <2>1. CASE rec[t].pc = "closing"
      BY <2>1 DEF Compared
    <2>2. CASE rec[t].pc = "undo"
      BY <2>2 DEF Compared
    <2>. QED
      BY <1>2, <2>1, <2>2
  <1>4. /\ rec[t].old \in Made /\ rec[t].next \in Made
        /\ rec[t].diff.closedOld \in Seq(Keys) /\ rec[t].diff.rebuilt \in Seq(Keys)
    BY <1>3, ComparedIs, MadeIs DEF DiffType
  <1>5. /\ ToSet(In(rec[t].old, rec[t].diff.closedOld))
             = {<<rec[t].old, id>> : id \in ToSet(rec[t].diff.closedOld)}
        /\ ToSet(In(rec[t].next, rec[t].diff.rebuilt))
             = {<<rec[t].next, id>> : id \in ToSet(rec[t].diff.rebuilt)}
    BY <1>4, InIs
  <1>. QED
    BY <1>1, <1>2, <1>5

\* A step of another thread does not touch a container that nobody has seen.
LEMMA OtherInside ==
  ASSUME IndInv, Control, WhereOK, HomeOK', NEW t \in Threads, Unseen(t),
         NEW u \in Threads \ {t}, Inside(u), UNCHANGED rvars
  PROVE  /\ \A n \in Nodes : n[1] = rec[t].next =>
              /\ cache'[n] = cache[n]
              /\ \A v \in Threads : frame'[v][n] = frame[v][n]
         /\ batch'[t] = batch[t] /\ path'[t] = path[t] /\ ret'[t] = ret[t]
         /\ closing'[t] = closing[t]
  <1>1. Home(u)' = Home(u)
    BY DEF Home, rvars
  <1>2. /\ path[u] # <<>> => batch[u] # <<>>
        /\ path'[u] # <<>> => batch[u] # <<>>
    <2>1. path[u] # <<>> => batch[u] # <<>>
      BY DEF IndInv, PathOK
    <2>. QED
      BY <2>1, PathEffect
  <1>3. /\ \A n \in ToSet(path[u]) : path[u] # <<>> /\ n[1] = Home(u)
        /\ \A n \in ToSet(path'[u]) : path'[u] # <<>> /\ n[1] = Home(u)
    BY <1>1 DEF WhereOK, HomeOK, AtHome, ToSet
  <1>4. \A n \in ToSet(path[u]) \union ToSet(path'[u]) : n[1] # rec[t].next
    BY <1>2, <1>3, Elsewhere DEF WhereOK
  <1>5. ASSUME NEW n \in Nodes, n[1] = rec[t].next, NEW v \in Threads
        PROVE  frame'[v][n] = frame[v][n]
    BY <1>4, <1>5, FrameEffect
  <1>6. ASSUME NEW n \in Nodes, n[1] = rec[t].next PROVE cache'[n] = cache[n]
    <2>1. ASSUME closing[u].active, n \in Forgotten(closing[u]) PROVE n[1] # rec[t].next
      <3>1. n[1] = rec[u].old \/ (n[1] = rec[u].next /\ rec[u].pc = "undo")
        BY <2>1, ForgottenIs DEF WhereOK
      <3>2. RecOK(t) /\ rec[t].pc # "idle"
        BY DEF Control, Unseen
      <3>. QED
        BY <3>1, <3>2 DEF RecOK
    <2>. QED
      BY <1>4, <1>6, <2>1, CacheEffect
  <1>. QED
    BY <1>5, <1>6, PathEffect, ClosingEffect, RetEffect

\* In such a container only its maker has frames.
LEMMA OnlyOwnFrames ==
  ASSUME IndInv, Control, HomeOK, NEW t \in Threads, Unseen(t), NEW u \in Threads,
         NEW n \in Nodes, n[1] = rec[t].next, frame[u][n].pc # "none"
  PROVE  u = t /\ rec[t].pc = "warm"
  <1>1. n \in ToSet(path[u]) /\ path[u] # <<>> /\ batch[u] # <<>> /\ n[1] = Home(u)
    BY DEF IndInv, PathOK, HomeOK, AtHome, ToSet
  <1>2. u = t
    BY <1>1, Elsewhere
  <1>3. t \in Reconcilers
    BY DEF Control, RecOK, Unseen
  <1>. QED
    BY <1>1, <1>2, <1>3 DEF HomeOK, AtHome

-----------------------------------------------------------------------------
(***************************************************************************)
(* What a prewarm leaves in the new container.                             *)
(***************************************************************************)
LEMMA OutInside ==
  ASSUME IndInv, HomeOK, OutOK, NEW t \in Threads, Inside(t)
  PROVE  OutOK'
  <1>1. CASE SoftStep
    <2>1. ErrResult # NoInst
      BY DEF ErrResult, NoInst
    <2>. QED
      BY <1>1, <2>1 DEF SoftStep, SoftFrame, OutOK
  <1>2. ASSUME NEW n \in Nodes, Construct(t, n) PROVE OutOK'
    BY <1>2, ConstructEffect DEF IndInv, OutOK
  <1>3. ASSUME NEW n \in Nodes, Store(t, n) PROVE OutOK'
    <2>1. frame'[t][n].out = frame[t][n].out /\ frame[t][n].out # NoInst
      BY <1>3, StoreEffect, StoreKeeps, InstanceIs DEF IndInv
    <2>2. \A u \in Threads, m \in Nodes : <<u, m>> # <<t, n>> => frame'[u][m] = frame[u][m]
      BY <1>3, StoreEffect
    <2>. QED
      BY <2>1, <2>2 DEF OutOK
  <1>4. ASSUME NEW n \in Nodes, CloseOne(t, n) PROVE OutOK'
    BY <1>4 DEF CloseOne, OutOK
  <1>5. CASE CloseFinish(t)
    BY <1>5 DEF CloseFinish, OutOK
  <1>. QED
    BY <1>1, <1>2, <1>3, <1>4, <1>5, InsideEffect

\* Outside of calls no frame changes.
LEMMA FramesChangeInside ==
  ASSUME [RNext]_allVars
  PROVE  UNCHANGED <<frame, built>> \/ \E t \in Threads : Inside(t) /\ UNCHANGED rvars
  <1>1. ASSUME NEW t \in Threads, Call(t) PROVE UNCHANGED <<frame, built>>
    BY <1>1 DEF Call, Current, Use, CallResolve, NewContainer, vars
  <1>2. ASSUME NEW t \in Threads, Step(t), ~(Inside(t) /\ UNCHANGED rvars)
        PROVE  UNCHANGED <<frame, built>>
    <2>1. CASE Install(t) \/ LockAndDiff(t) \/ Reuse(t) \/ Prewarm(t)
      BY <2>1 DEF Install, LockAndDiff, Reuse, Prewarm, vars
    <2>2. CASE Switch(t) \/ Unlock(t) \/ Expire(t) \/ Undo(t) \/ Return(t)
      BY <2>2 DEF Switch, Unlock, Expire, Undo, Return, vars
    <2>. QED
      BY <1>2, <2>1, <2>2 DEF Step
  <1>3. allVars' = allVars => UNCHANGED <<frame, built>>
    BY DEF allVars, vars
  <1>. QED
    BY <1>1, <1>2, <1>3 DEF RNext, Quiet

LEMMA OutStep ==
  ASSUME IndInv, HomeOK, OutOK, [RNext]_allVars
  PROVE  OutOK'
  <1>1. UNCHANGED frame => OutOK'
    BY DEF OutOK
  <1>. QED
    BY <1>1, OutInside, FramesChangeInside

\* In a warm container what is to be rebuilt are nodes.
LEMMA RebuiltIsNodes ==
  ASSUME Control, NEW t \in Threads, Compared(t), NEW id \in ToSet(rec[t].diff.rebuilt)
  PROVE  <<rec[t].next, id>> \in Nodes
  <1>1. rec[t].next \in Made /\ rec[t].diff.rebuilt \in Seq(Keys)
    BY ComparedIs, MadeIs DEF DiffType
  <1>2. id \in Keys
    BY <1>1 DEF ToSet
  <1>. QED
    BY <1>1, <1>2, MadeIs

\* The frames and caches of the prewarm.
LEMMA WarmFrames ==
  ASSUME IndInv, Control, WhereOK, OutOK, NEW t \in Threads, WarmAt(t), rec[t].pc = "warm",
         Inside(t), NEW n \in Nodes, n[1] = rec[t].next
  PROVE  /\ frame'[t][n].pc \in {"leave", "return"} /\ IsInst(frame'[t][n].out) =>
              cache'[n] # NoInst
         /\ frame'[t][n].pc \in {"work", "store"} => cache'[n] = NoInst
         /\ cache[n] # NoInst => cache'[n] = cache[n]
  <1>1. /\ frame[t][n].pc \in {"leave", "return"} /\ IsInst(frame[t][n].out) => cache[n] # NoInst
        /\ frame[t][n].pc \in {"work", "store"} => cache[n] = NoInst
    BY DEF WarmAt
  <1>2. ~closing[t].active
    BY DEF WhereOK, HomeOK, AtHome
  <1>3. CASE SoftStep
    <2>1. cache' = cache /\ ~IsInst(ErrResult) /\ ~IsInst(NoInst)
      BY <1>3 DEF SoftStep, QuietStep, IsInst, ErrResult, NoInst
    <2>2. Unseen(t)
      BY DEF Unseen
    <2>3. \A v \in Threads : frame[v][n].pc = "leave" => v = t
      BY <2>2, OnlyOwnFrames DEF WhereOK
    <2>4. frame'[t][n].pc \in {"leave", "return"} /\ IsInst(frame'[t][n].out) => cache[n] # NoInst
      BY <1>1, <1>3, <2>1, <2>3 DEF SoftStep, SoftFrame
    <2>5. frame'[t][n].pc \in {"work", "store"} => cache[n] = NoInst
      BY <1>1, <1>3 DEF SoftStep, QuietStep
    <2>. QED
      BY <2>1, <2>4, <2>5
  <1>4. ASSUME NEW m \in Nodes, Construct(t, m)
        PROVE  /\ frame'[t][n].pc \in {"leave", "return"} => frame'[t][n] = frame[t][n]
               /\ frame'[t][n].pc \in {"work", "store"} => frame[t][n].pc \in {"work", "store"}
               /\ cache' = cache
    BY <1>4, ConstructEffect DEF IndInv
  <1>5. ASSUME NEW m \in Nodes, Store(t, m)
        PROVE  /\ frame'[t][n].pc \in {"leave", "return"} => frame'[t][n] = frame[t][n] \/ n = m
               /\ frame'[t][n].pc \in {"work", "store"} => frame'[t][n] = frame[t][n] /\ n # m
               /\ cache'[n] = IF n = m THEN frame[t][n].out ELSE cache[n]
               /\ n = m => cache'[n] # NoInst /\ cache[n] = NoInst
    <2>1. /\ frame[t][m].pc = "store" /\ frame[t][m].out \in Instances
          /\ frame'[t][m].pc = "leave"
          /\ \A u \in Threads, k \in Nodes : <<u, k>> # <<t, m>> => frame'[u][k] = frame[u][k]
          /\ \A k \in Nodes : cache'[k] = IF k = m THEN frame[t][m].out ELSE cache[k]
      BY <1>5, StoreEffect
    <2>2. frame[t][m].out # NoInst
      BY <2>1, InstanceIs DEF IndInv
    <2>. QED
      BY <1>1, <2>1, <2>2
  <1>6. ASSUME NEW m \in Nodes, CloseOne(t, m) PROVE FALSE
    BY <1>2, <1>6 DEF CloseOne
  <1>7. ~CloseFinish(t)
    BY <1>2 DEF CloseFinish
  <1>. QED
    BY <1>1, <1>3, <1>4, <1>5, <1>6, <1>7, InsideEffect DEF WhereOK

LEMMA WarmInside ==
  ASSUME IndInv, Control, WhereOK, OutOK, NEW t \in Threads, WarmAt(t), rec[t].pc = "warm",
         Inside(t), UNCHANGED rvars
  PROVE  WarmAt(t)'
  <1>1. Compared(t) /\ ~closing[t].active
    BY DEF Compared, WhereOK, HomeOK, AtHome
  <1>2. ASSUME ret'[t] # ErrResult, NEW id \in ToSet(rec[t].diff.rebuilt)
        PROVE  cache'[<<rec[t].next, id>>] # NoInst \/ <<rec[t].next, id>> \in ToSet(batch'[t])
    <2>. DEFINE n == <<rec[t].next, id>>
    <2>1. n \in Nodes /\ n[1] = rec[t].next
      BY <1>1, RebuiltIsNodes
    <2>2. cache[n] # NoInst => cache'[n] # NoInst
      BY <2>1, WarmFrames
    <2>. HIDE DEF n
    <2>3. CASE ret'[t] = ret[t] /\ batch'[t] = batch[t]
      BY <1>2, <2>2, <2>3 DEF WarmAt, n
    <2>4. ASSUME NEW m \in Nodes, ReturnToCaller(t, m)
          PROVE  cache'[n] # NoInst \/ n \in ToSet(batch'[t])
      <3>1. /\ frame[t][m].pc = "return" /\ m = Last(path[t]) /\ Len(path[t]) = 1
            /\ path[t] # <<>> /\ ret'[t] = frame[t][m].out
            /\ batch'[t] = IF IsInst(frame[t][m].out) THEN Tail(batch[t]) ELSE <<>>
            /\ UNCHANGED cache
        BY <2>4 DEF ReturnToCaller, At, IndInv, TypeOK
      <3>2. m = Head(batch[t]) /\ batch[t] # <<>> /\ m[1] = rec[t].next
        <4>1. m = path[t][1] /\ m \in ToSet(path[t])
          BY <3>1, InPath DEF Last, IndInv
        <4>2. path[t][1] = Head(batch[t]) /\ batch[t] # <<>> /\ \A k \in ToSet(path[t]) : k[1] = Home(t)
          BY <3>1 DEF WhereOK, HomeOK, AtHome, IndInv, PathOK
        <4>3. Home(t) = rec[t].next
          BY DEF Home, Control, RecOK
        <4>. QED
          BY <4>1, <4>2, <4>3
      <3>3. IsInst(frame[t][m].out)
        <4>1. frame[t][m].out \in Results /\ frame[t][m].out # NoInst
          BY <3>1 DEF IndInv, TypeOK, FrameType, OutOK
        <4>. QED
          BY <1>2, <3>1, <4>1 DEF Results, IsInst, Instances
      <3>4. cache[m] # NoInst
        BY <3>1, <3>2, <3>3 DEF WarmAt
      <3>5. ret[t] # ErrResult
        BY <3>2 DEF WarmAt
      <3>6. cache[n] # NoInst \/ n \in ToSet(batch[t])
        BY <1>2, <3>5 DEF WarmAt, n
      <3>7. n \in ToSet(batch[t]) => n = m \/ n \in ToSet(Tail(batch[t]))
        <4>. DEFINE b == batch[t]
        <4>1. b \in Seq(Nodes) /\ b # <<>> /\ m = b[1]
          BY <3>2 DEF IndInv, TypeOK
        <4>. HIDE DEF b
        <4>2. /\ Len(b) \in Nat \ {0} /\ Len(Tail(b)) = Len(b) - 1 /\ Tail(b) \in Seq(Nodes)
              /\ \A j \in 1 .. Len(b) - 1 : Tail(b)[j] = b[j + 1]
              /\ DOMAIN Tail(b) = 1 .. Len(b) - 1
          BY <4>1
        <4>3. ASSUME NEW j \in 1 .. Len(b), j # 1 PROVE b[j] \in ToSet(Tail(b))
          <5>1. j - 1 \in 1 .. Len(b) - 1 /\ Tail(b)[j - 1] = b[j]
            BY <4>2, <4>3
          <5>. QED
            BY <4>2, <5>1 DEF ToSet
        <4>. QED
          BY <4>1, <4>3 DEF ToSet, b
      <3>. QED
        BY <3>1, <3>3, <3>4, <3>6, <3>7
    <2>. QED
      BY <1>1, <2>3, <2>4, RetEffect DEF n
  <1>3. \A n \in Nodes : n[1] = rec[t].next =>
         /\ frame'[t][n].pc \in {"leave", "return"} /\ IsInst(frame'[t][n].out) => cache'[n] # NoInst
         /\ frame'[t][n].pc \in {"work", "store"} => cache'[n] = NoInst
    BY WarmFrames
  <1>4. ret'[t] = ErrResult => batch'[t] = <<>>
    <2>1. ASSUME NEW m \in Nodes, ReturnToCaller(t, m)
          PROVE  ret'[t] = ErrResult => batch'[t] = <<>>
      BY <2>1 DEF ReturnToCaller, IndInv, TypeOK, IsInst, ErrResult
    <2>. QED
      BY <1>1, <2>1, RetEffect DEF WarmAt
  <1>. QED
    BY <1>2, <1>3, <1>4 DEF WarmAt, rvars

\* No step of another thread touches a container that nobody has seen.
LEMMA OtherStep ==
  ASSUME IndInv, Control, WhereOK, HomeOK', NEW t \in Threads, Unseen(t),
         NEW u \in Threads \ {t}, Step(u) \/ Call(u)
  PROVE  /\ rec'[t] = rec[t]
         /\ \A n \in Nodes : n[1] = rec[t].next =>
              /\ cache'[n] = cache[n]
              /\ \A v \in Threads : frame'[v][n] = frame[v][n]
         /\ batch'[t] = batch[t] /\ path'[t] = path[t] /\ ret'[t] = ret[t]
         /\ closing'[t] = closing[t]
  <1>1. rec'[t] = rec[t]
    BY OthersLocals
  <1>2. CASE Inside(u) /\ UNCHANGED rvars
    BY <1>1, <1>2, OtherInside
  <1>3. CASE Install(u) \/ LockAndDiff(u) \/ Switch(u) \/ Unlock(u) \/ Return(u) \/ Current(u)
    BY <1>1, <1>3 DEF Install, LockAndDiff, Switch, Unlock, Return, Current, vars
  <1>4. CASE Reuse(u)
    <2>1. /\ UNCHANGED <<frame, batch, path, ret, closing>> /\ rec[u].pc = "inject"
          /\ \A n \in Nodes : n # <<rec[u].next, Head(rec[u].todo)>> => cache'[n] = cache[n]
      BY <1>4, ReuseEffect
    <2>2. rec[u].next # rec[t].next
      BY <2>1 DEF Control, RecOK, Unseen
    <2>. QED
      BY <1>1, <2>1, <2>2
  <1>5. CASE Prewarm(u)
    BY <1>1, <1>5, PrewarmEffect DEF WhereOK
  <1>6. CASE Expire(u) \/ Undo(u)
    BY <1>1, <1>6, CloseEffect DEF WhereOK
  <1>7. ASSUME NEW id \in Asked, Use(u, id)
        PROVE  UNCHANGED <<cache, frame, path, ret, closing>> /\ batch'[t] = batch[t]
    BY <1>7 DEF Use, CallResolve, IndInv, TypeOK
  <1>8. ASSUME NEW c \in Configs, NewContainer(u, c)
        PROVE  UNCHANGED <<cache, frame, path, ret, closing, batch>>
    BY <1>8 DEF NewContainer
  <1>. QED
    BY <1>1, <1>2, <1>3, <1>4, <1>5, <1>6, <1>7, <1>8 DEF Step, Call

\* Thread t makes a container.
NewTo(t) == \E c \in Configs : NewContainer(t, c)

\* How the locals of a Reconcile move on.
LEMMA NextPC ==
  ASSUME Control, NEW t \in Threads, Step(t) \/ Call(t), t \in Reconcilers
  PROVE  \/ Inside(t) /\ UNCHANGED rvars
         \/ NewTo(t) /\ rec[t].pc \in {"idle", "done", "failed"} /\ rec'[t].pc = "lock"
         \/ /\ rec'[t].next = rec[t].next
            /\ \/ Install(t) /\ rec[t].pc = "lock" /\ rec'[t].pc = "done"
               \/ LockAndDiff(t) /\ rec[t].pc = "lock" /\ rec'[t].pc = "inject"
               \/ /\ rec'[t].diff = rec[t].diff /\ rec'[t].old = rec[t].old
                  /\ \/ Reuse(t) /\ rec[t].pc = "inject" /\ rec'[t].pc = "inject"
                     \/ Prewarm(t) /\ rec[t].pc = "inject" /\ rec'[t].pc = "warm"
                     \/ Switch(t) /\ rec[t].pc = "warm" /\ rec'[t].pc = "expire"
                     \/ Unlock(t) /\ rec[t].pc = "warm" /\ rec'[t].pc = "rollback"
                     \/ Expire(t) /\ rec[t].pc = "expire" /\ rec'[t].pc = "closing"
                     \/ Undo(t) /\ rec[t].pc = "rollback" /\ rec'[t].pc = "undo"
                     \/ Return(t) /\ rec[t].pc = "closing" /\ rec'[t].pc = "done"
                     \/ Return(t) /\ rec[t].pc = "undo" /\ rec'[t].pc = "failed"
  <1>1. rec[t] \in RecType /\ t \notin Resolvers
    BY ReconcilersAssumption DEF Control
  <1>2. \A p \in RecPCs : rec' = [rec EXCEPT ![t].pc = p] =>
          /\ rec'[t].pc = p /\ rec'[t].next = rec[t].next
          /\ rec'[t].diff = rec[t].diff /\ rec'[t].old = rec[t].old
    BY OnePC
  <1>3. {"warm", "expire", "rollback", "closing", "undo", "done", "failed"} \subseteq RecPCs
    BY DEF RecPCs
  <1>4. ASSUME Install(t) PROVE /\ rec'[t].next = rec[t].next
                                /\ rec[t].pc = "lock" /\ rec'[t].pc = "done"
    BY <1>2, <1>3, <1>4 DEF Install
  <1>5. ASSUME LockAndDiff(t) PROVE /\ rec'[t].next = rec[t].next
                                    /\ rec[t].pc = "lock" /\ rec'[t].pc = "inject"
    <2>1. PICK d, o, q : rec' = [rec EXCEPT ![t] = [@ EXCEPT !.pc = "inject", !.old = o,
                                                             !.diff = d, !.todo = q]]
      BY <1>5 DEF LockAndDiff
    <2>. DEFINE r == [rec[t] EXCEPT !.pc = "inject", !.old = o, !.diff = d, !.todo = q]
    <2>2. rec' = [rec EXCEPT ![t] = r]
      BY <2>1
    <2>3. r.pc = "inject" /\ r.next = rec[t].next
      BY <1>1 DEF RecType
    <2>. HIDE DEF r
    <2>4. rec'[t] = r
      BY <2>2 DEF Control
    <2>. QED
      BY <1>5, <2>3, <2>4 DEF LockAndDiff
  <1>6. ASSUME Reuse(t) PROVE /\ rec'[t].next = rec[t].next /\ rec'[t].diff = rec[t].diff
                              /\ rec'[t].old = rec[t].old
                              /\ rec[t].pc = "inject" /\ rec'[t].pc = "inject"
    <2>. DEFINE r == [rec[t] EXCEPT !.todo = Tail(rec[t].todo)]
    <2>1. rec' = [rec EXCEPT ![t] = r]
      BY <1>6 DEF Reuse
    <2>2. /\ r.pc = rec[t].pc /\ r.next = rec[t].next /\ r.diff = rec[t].diff
          /\ r.old = rec[t].old
      BY <1>1 DEF RecType
    <2>. HIDE DEF r
    <2>3. rec'[t] = r
      BY <2>1 DEF Control
    <2>. QED
      BY <1>6, <2>2, <2>3 DEF Reuse
  <1>7. ASSUME Prewarm(t) \/ Switch(t) \/ Unlock(t) \/ Expire(t) \/ Undo(t) \/ Return(t)
        PROVE  /\ rec'[t].next = rec[t].next
               /\ rec'[t].diff = rec[t].diff /\ rec'[t].old = rec[t].old
               /\ \/ Prewarm(t) /\ rec[t].pc = "inject" /\ rec'[t].pc = "warm"
                  \/ Switch(t) /\ rec[t].pc = "warm" /\ rec'[t].pc = "expire"
                  \/ Unlock(t) /\ rec[t].pc = "warm" /\ rec'[t].pc = "rollback"
                  \/ Expire(t) /\ rec[t].pc = "expire" /\ rec'[t].pc = "closing"
                  \/ Undo(t) /\ rec[t].pc = "rollback" /\ rec'[t].pc = "undo"
                  \/ Return(t) /\ rec[t].pc = "closing" /\ rec'[t].pc = "done"
                  \/ Return(t) /\ rec[t].pc = "undo" /\ rec'[t].pc = "failed"
    <2>1. CASE Prewarm(t)
      BY <1>2, <1>3, <2>1 DEF Prewarm
    <2>2. CASE Switch(t)
      BY <1>2, <1>3, <2>2 DEF Switch, Warmed
    <2>3. CASE Unlock(t)
      BY <1>2, <1>3, <2>3 DEF Unlock, Warmed
    <2>4. CASE Expire(t)
      BY <1>2, <1>3, <2>4 DEF Expire
    <2>5. CASE Undo(t)
      BY <1>2, <1>3, <2>5 DEF Undo
    <2>6. CASE Return(t)
      <3>1. \/ rec[t].pc = "closing" /\ rec' = [rec EXCEPT ![t].pc = "done"]
            \/ rec[t].pc = "undo" /\ rec' = [rec EXCEPT ![t].pc = "failed"]
        BY <2>6 DEF Return
      <3>. QED
        BY <1>2, <1>3, <2>6, <3>1
    <2>. QED
      BY <1>7, <2>1, <2>2, <2>3, <2>4, <2>5, <2>6
  <1>8. ~Current(t) /\ \A id \in Asked : ~Use(t, id)
    BY <1>1 DEF Current, Use, CallResolve
  <1>9. \A c \in Configs : NewContainer(t, c) =>
          /\ rec[t].pc \in {"idle", "done", "failed"} /\ rec'[t].pc = "lock"
    BY Appended
  <1>. QED
    BY <1>4, <1>5, <1>6, <1>7, <1>8, <1>9 DEF Step, Call, NewTo

\* A thread that does not reconcile keeps its locals.
LEMMA NotReconciling ==
  ASSUME Control, NEW t \in Threads, t \notin Reconcilers
  PROVE  rec[t].pc = "idle"
  BY DEF Control, RecOK

\* Nothing becomes warm but by Prewarm.
LEMMA BecomesWarm ==
  ASSUME Control, Control', NEW t \in Threads, Step(t) \/ Call(t), rec'[t].pc = "warm"
  PROVE  (Inside(t) /\ UNCHANGED rvars) \/ Prewarm(t)
  <1>1. t \in Reconcilers
    BY DEF Control, RecOK
  <1>. QED
    BY <1>1, NextPC

LEMMA WarmStep ==
  ASSUME IndInv, Control, WhereOK, OutOK, WarmOK, Control', HomeOK', [RNext]_allVars
  PROVE  WarmOK'
  <1>. SUFFICES ASSUME NEW t \in Threads, rec'[t].pc = "warm" PROVE WarmAt(t)'
    BY DEF WarmOK, WarmAt
  <1>0. WarmAt(t)
    BY DEF WarmOK
  <1>1. ASSUME rec'[t] = rec[t], batch'[t] = batch[t], ret'[t] = ret[t],
               \A n \in Nodes : n[1] = rec[t].next =>
                 cache'[n] = cache[n] /\ frame'[t][n] = frame[t][n]
        PROVE  WarmAt(t)'
    <2>1. rec[t].pc = "warm" /\ Compared(t)
      BY <1>1 DEF Compared
    <2>2. \A id \in ToSet(rec[t].diff.rebuilt) :
            cache'[<<rec[t].next, id>>] = cache[<<rec[t].next, id>>]
      BY <1>1, <2>1, RebuiltIsNodes
    <2>3. \A n \in Nodes : n[1] = rec[t].next =>
         /\ frame'[t][n].pc \in {"leave", "return"} /\ IsInst(frame'[t][n].out) => cache'[n] # NoInst
         /\ frame'[t][n].pc \in {"work", "store"} => cache'[n] = NoInst
      BY <1>0, <1>1, <2>1 DEF WarmAt
    <2>. QED
      BY <1>0, <1>1, <2>1, <2>2, <2>3 DEF WarmAt
  <1>2. ASSUME NEW u \in Threads \ {t}, Step(u) \/ Call(u) PROVE WarmAt(t)'
    <2>1. rec'[t] = rec[t]
      BY <1>2, OthersLocals
    <2>2. Unseen(t)
      BY <2>1 DEF Unseen
    <2>. QED
      BY <1>1, <1>2, <2>1, <2>2, OtherStep
  <1>3. ASSUME Inside(t), UNCHANGED rvars PROVE WarmAt(t)'
    BY <1>0, <1>3, WarmInside DEF rvars
  <1>4. CASE Prewarm(t)
    <2>1. /\ UNCHANGED <<cache, frame>> /\ Idle(t) /\ Compared(t)
          /\ ToSet(batch'[t]) = {<<rec[t].next, id>> : id \in ToSet(rec[t].diff.rebuilt)}
          /\ ret'[t] = NoInst /\ rec'[t].next = rec[t].next /\ rec'[t].diff = rec[t].diff
      BY <1>4, PrewarmEffect DEF WhereOK
    <2>2. ToSet(path[t]) = {}
      BY <2>1 DEF Idle, ToSet
    <2>3. \A n \in Nodes : frame'[t][n].pc = "none"
      BY <2>1, <2>2 DEF IndInv, PathOK
    <2>4. ret'[t] # ErrResult
      BY <2>1 DEF NoInst, ErrResult
    <2>. QED
      BY <2>1, <2>3, <2>4 DEF WarmAt
  <1>5. CASE UNCHANGED allVars
    BY <1>1, <1>5 DEF allVars, vars, rvars
  <1>6. ASSUME Step(t) \/ Call(t) PROVE WarmAt(t)'
    BY <1>3, <1>4, <1>6, BecomesWarm
  <1>. QED
    BY <1>2, <1>5, <1>6 DEF RNext, Quiet


\* What a prewarm has found and made.
Warmth == Reached /\ OutOK /\ WarmOK

LEMMA WarmthStep == Warmth /\ [RNext]_allVars => Warmth'
  <1> SUFFICES ASSUME Warmth, [RNext]_allVars PROVE Warmth'
    OBVIOUS
  <1>1. Reached'
    BY ReachedStep DEF Warmth
  <1>2. OutOK'
    BY OutStep DEF Warmth, Reached, WhereOK
  <1>3. Control' /\ HomeOK'
    BY <1>1 DEF Reached, WhereOK
  <1>4. WarmOK'
    BY <1>3, WarmStep DEF Warmth, Reached
  <1>. QED
    BY <1>1, <1>2, <1>4 DEF Warmth

LEMMA InitWarmth == RInit => Warmth
  <1> SUFFICES ASSUME RInit PROVE Warmth
    OBVIOUS
  <1>1. \A t \in Threads, n \in Nodes : frame[t][n].pc = "none"
    BY DEF RInit, Init, NoFrame
  <1>2. \A t \in Threads : rec[t].pc = "idle"
    BY DEF RInit, Resting
  <1>. QED
    BY <1>1, <1>2, InitReached DEF Warmth, OutOK, WarmOK, WarmAt

\* Current changes from one container to another by a switch.
LEMMA OnlySwitches ==
  ASSUME [RNext]_allVars, current # Nil, current' # current
  PROVE  \E t \in Threads : Switch(t)
  <1>1. \A t \in Threads : Step(t) => Switch(t)
    BY DEF Step, Install, LockAndDiff, Reuse, Prewarm, Unlock, Expire, Undo, Return, rvars
  <1>2. \A t \in Threads : ~Call(t)
    BY DEF Call, Current, Use, NewContainer, rvars
  <1>. QED
    BY <1>1, <1>2 DEF RNext, Quiet, allVars, rvars

-----------------------------------------------------------------------------
(***************************************************************************)
(* What a prewarm has made, and a rollback closes.                         *)
(***************************************************************************)
\* Instances are what they were, or new ones of what the thread resolves.
LEMMA BuiltEffect ==
  ASSUME IndInv, HomeOK, NEW t \in Threads, Inside(t)
  PROVE  /\ Instances \subseteq Instances'
         /\ \A i \in Instances : /\ built'[i].node = built[i].node
                                 /\ Open(i)' => Open(i)
                                 /\ built'[i].uses = built[i].uses
         /\ \A i \in Instances' \ Instances : \E n \in Nodes :
              Construct(t, n) /\ i = Len(built) + 1 /\ built'[i].node = n
  <1>1. CASE built' = built
    BY <1>1 DEF Instances, Open
  <1>2. ASSUME NEW n \in Nodes, Construct(t, n)
        PROVE  /\ Instances' = Instances \union {Len(built) + 1}
               /\ \A i \in Instances : built'[i] = built[i]
               /\ built'[Len(built) + 1].node = n
    BY <1>2, ConstructEffect DEF IndInv
  <1>3. ASSUME NEW n \in Nodes, CloseOne(t, n)
        PROVE  /\ Instances' = Instances
               /\ \A i \in Instances : /\ built'[i].node = built[i].node
                                       /\ Open(i)' => Open(i)
                                       /\ built'[i].uses = built[i].uses
    <2>1. /\ Instances' = Instances
          /\ \A i \in Instances : built'[i].closed =
               IF i = closing[t].todo[n] THEN built[i].closed + 1 ELSE built[i].closed
          /\ \A i \in Instances : built'[i].node = built[i].node
          /\ \A i \in Instances : built'[i].uses = built[i].uses
      BY <1>3, CloseOneEffect, CloseOneKeeps DEF IndInv
    <2>2. \A i \in Instances : built[i].closed \in Nat
      BY InstanceIs DEF IndInv
    <2>. QED
      BY <2>1, <2>2 DEF Open
  <1>4. SoftStep => built' = built
    BY DEF SoftStep, QuietStep
  <1>5. \A n \in Nodes : Store(t, n) => built' = built
    BY DEF Store
  <1>6. CloseFinish(t) => built' = built
    BY DEF CloseFinish
  <1>. QED
    BY <1>1, <1>2, <1>3, <1>4, <1>5, <1>6, InsideEffect DEF Open

\* Where a thread builds.
LEMMA BuildsAtHome ==
  ASSUME IndInv, HomeOK, NEW t \in Threads, NEW n \in Nodes, Construct(t, n)
  PROVE  n[1] = Home(t) /\ batch[t] # <<>>
  <1>1. n = Last(path[t]) /\ path[t] # <<>>
    BY DEF Construct, At
  <1>2. n \in ToSet(path[t]) /\ batch[t] # <<>>
    BY <1>1, InPath DEF IndInv, PathOK
  <1>. QED
    BY <1>2 DEF HomeOK, AtHome

LEMMA MadeOther ==
  ASSUME IndInv, Control, WhereOK, HomeOK', NEW t \in Threads, MadeAt(t), Unseen(t),
         NEW u \in Threads \ {t}, Step(u) \/ Call(u)
  PROVE  MadeAt(t)'
  <1>1. /\ rec'[t] = rec[t] /\ closing'[t] = closing[t]
        /\ \A n \in Nodes : n[1] = rec[t].next =>
             cache'[n] = cache[n] /\ frame'[t][n] = frame[t][n]
    BY OtherStep
  <1>2. \A i \in Instances' : built'[i].node[1] = rec[t].next /\ Open(i)' =>
          i \in Instances /\ built'[i].node = built[i].node /\ Open(i)
    <2>1. CASE built' = built
      BY <2>1 DEF Instances, Open
    <2>2. CASE Inside(u)
      <3>1. \A n \in Nodes : Construct(u, n) => n[1] # rec[t].next
        BY BuildsAtHome, Elsewhere DEF WhereOK
      <3>. QED
        BY <2>2, <3>1, BuiltEffect DEF WhereOK
    <2>3. Inside(u) \/ built' = built
      BY DEF Step, Call, Install, LockAndDiff, Reuse, Prewarm, Switch, Unlock, Expire,
             Undo, Return, Current, Use, CallResolve, NewContainer, vars
    <2>. QED
      BY <2>1, <2>2, <2>3
  <1>3. ASSUME NEW i \in Instances', NEW n \in Nodes,
               built'[i].node = n, n[1] = rec'[t].next, Open(i)'
        PROVE  Excused(t, i, n)'
    <2>1. Excused(t, i, n)
      BY <1>1, <1>2, <1>3 DEF MadeAt
    <2>2. cache'[n] = cache[n] /\ frame'[t][n] = frame[t][n]
      BY <1>1, <1>3
    <2>. QED
      BY <1>1, <2>1, <2>2 DEF Excused, Compared
  <1>. QED
    BY <1>3 DEF MadeAt

\* The steps of the prewarm.
LEMMA MadeWarm ==
  ASSUME IndInv, Control, WhereOK, OutOK, NEW t \in Threads, MadeAt(t), WarmAt(t),
         rec[t].pc = "warm", Inside(t), UNCHANGED rvars
  PROVE  MadeAt(t)'
  <1>1. Compared(t) /\ Unseen(t) /\ ~closing[t].active /\ rec' = rec
    BY DEF Compared, Unseen, WhereOK, HomeOK, AtHome, rvars
  <1>2. ASSUME NEW i \in Instances, NEW n \in Nodes, built[i].node = n, n[1] = rec[t].next,
               Open(i)
        PROVE  Excused(t, i, n)'
    <2>1. CASE n[2] \in ToSet(rec[t].diff.reused)
      BY <1>1, <2>1 DEF Excused, Compared
    <2>2. CASE cache[n] = i
      <3>1. i # NoInst
        BY InstanceIs DEF IndInv
      <3>2. cache'[n] = i
        BY <1>2, <2>2, <3>1, WarmFrames
      <3>. QED
        BY <1>1, <3>2 DEF Excused
    <2>3. CASE frame[t][n].pc = "store" /\ frame[t][n].out = i
      <3>1. CASE frame'[t][n] = frame[t][n]
        BY <1>1, <2>3, <3>1 DEF Excused
      <3>2. CASE Store(t, n)
        <4>1. cache'[n] = i
          BY <2>3, <3>2, StoreEffect
        <4>. QED
          BY <1>1, <4>1 DEF Excused
      <3>3. SoftStep => frame'[t][n] = frame[t][n]
        BY <2>3 DEF SoftStep, QuietStep
      <3>4. ASSUME NEW m \in Nodes, Construct(t, m) PROVE frame'[t][n] = frame[t][n]
        BY <2>3, <3>4, ConstructEffect DEF IndInv
      <3>5. ASSUME NEW m \in Nodes, Store(t, m), m # n PROVE frame'[t][n] = frame[t][n]
        BY <3>5, StoreEffect
      <3>. QED
        BY <1>1, <3>1, <3>2, <3>3, <3>4, <3>5, InsideEffect DEF WhereOK, CloseOne, CloseFinish
    <2>. QED
      BY <1>1, <1>2, <2>1, <2>2, <2>3 DEF MadeAt, Excused
  <1>3. ASSUME NEW n \in Nodes, Construct(t, n), NEW i, i = Len(built) + 1
        PROVE  Excused(t, i, n)'
    BY <1>1, <1>3, ConstructEffect DEF IndInv, Excused
  <1>4. ASSUME NEW i \in Instances', NEW n \in Nodes,
               built'[i].node = n, n[1] = rec[t].next, Open(i)'
        PROVE  Excused(t, i, n)'
    <2>1. CASE i \in Instances
      BY <1>2, <1>4, <2>1, BuiltEffect DEF WhereOK
    <2>2. CASE i \notin Instances
      BY <1>3, <1>4, <2>2, BuiltEffect DEF WhereOK
    <2>. QED
      BY <2>1, <2>2
  <1>. QED
    BY <1>1, <1>4 DEF MadeAt

\* The steps of the rollback's close.
LEMMA MadeUndo ==
  ASSUME IndInv, Control, WhereOK, OriginOK, NEW t \in Threads, MadeAt(t),
         rec[t].pc = "undo", Inside(t), UNCHANGED rvars
  PROVE  MadeAt(t)'
  <1>1. Compared(t) /\ Unseen(t) /\ rec' = rec /\ t \in Reconcilers
    BY DEF Compared, Unseen, Control, RecOK, rvars
  <1>2. batch[t] = <<>> /\ path[t] = <<>>
    BY <1>1 DEF WhereOK, HomeOK, AtHome, IndInv, PathOK
  <1>3. (\E m \in Nodes : CloseOne(t, m)) \/ CloseFinish(t)
    BY <1>2 DEF Inside, Begin, ResolveStep, Lookup, Lead, Follow, Recheck,
         Descend, Construct, Fail, Store, Leave, ReturnToParent, ReturnToCaller, At
  <1>4. ASSUME NEW i \in Instances, NEW n \in Nodes, built[i].node = n, n[1] = rec[t].next,
               Open(i), Open(i)'
        PROVE  Excused(t, i, n)'
    <2>1. CASE n[2] \in ToSet(rec[t].diff.reused)
      BY <1>1, <2>1 DEF Excused, Compared
    <2>2. CASE closing[t].active /\ closing[t].todo[n] = i /\ n \notin closing[t].done
      <3>1. ASSUME NEW m \in Nodes, CloseOne(t, m) PROVE Excused(t, i, n)'
        <4>1. /\ closing'[t].todo = closing[t].todo /\ closing'[t].active = closing[t].active
              /\ closing'[t].done = closing[t].done \union {m}
              /\ built'[i].closed = IF i = closing[t].todo[m]
                                      THEN built[i].closed + 1 ELSE built[i].closed
          BY <3>1, CloseOneEffect DEF IndInv
        <4>2. m # n
          BY <1>4, <2>2, <4>1 DEF Open
        <4>. QED
          BY <1>1, <2>2, <4>1, <4>2 DEF Excused
      <3>2. ~CloseFinish(t)
        <4>1. n \in Declared
          BY <1>4 DEF OriginOK, WhereOK, GraphOK
        <4>2. i # NoInst
          BY InstanceIs DEF IndInv
        <4>. QED
          BY <2>2, <4>1, <4>2 DEF CloseFinish, Pending
      <3>. QED
        BY <1>3, <3>1, <3>2
    <2>. QED
      BY <1>1, <1>4, <2>1, <2>2 DEF MadeAt, Excused
  <1>5. ASSUME NEW i \in Instances', NEW n \in Nodes,
               built'[i].node = n, n[1] = rec[t].next, Open(i)'
        PROVE  Excused(t, i, n)'
    <2>1. \A m \in Nodes : ~Construct(t, m)
      BY <1>2 DEF Construct, At
    <2>. QED
      BY <1>4, <1>5, <2>1, BuiltEffect DEF WhereOK
  <1>. QED
    BY <1>1, <1>5 DEF MadeAt

\* Nothing is in the container that a Reconcile has just made.
LEMMA MadeNew ==
  ASSUME IndInv, Control, OriginOK, NEW t \in Threads, NEW c \in Configs, NewContainer(t, c)
  PROVE  MadeAt(t)'
  <1>1. built' = built /\ rec'[t].next = Len(conf) + 1 /\ Len(conf) \in Nat
    BY Appended DEF NewContainer
  <1>2. Instances' = Instances /\ \A i \in Instances : built[i].node[1] \in 1 .. Len(conf)
    <2>1. \A i \in Instances : Specified(built[i].node)
      BY InstanceIs DEF OriginOK, IndInv
    <2>. QED
      BY <1>1, <2>1 DEF Specified, Instances
  <1>. QED
    BY <1>1, <1>2 DEF MadeAt

\* The steps of Reconcile between its calls.
LEMMA MadeMoves ==
  ASSUME IndInv, Control, WhereOK, OriginOK, NEW t \in Threads, MadeAt(t), t \in Reconcilers,
         Step(t) \/ Call(t), ~(Inside(t) /\ UNCHANGED rvars), ~NewTo(t)
  PROVE  MadeAt(t)'
  <1>1. /\ rec'[t].next = rec[t].next
        /\ \/ Install(t) /\ rec[t].pc = "lock" /\ rec'[t].pc = "done"
           \/ LockAndDiff(t) /\ rec[t].pc = "lock" /\ rec'[t].pc = "inject"
           \/ /\ rec'[t].diff = rec[t].diff /\ rec'[t].old = rec[t].old
              /\ \/ Reuse(t) /\ rec[t].pc = "inject" /\ rec'[t].pc = "inject"
                 \/ Prewarm(t) /\ rec[t].pc = "inject" /\ rec'[t].pc = "warm"
                 \/ Switch(t) /\ rec[t].pc = "warm" /\ rec'[t].pc = "expire"
                 \/ Unlock(t) /\ rec[t].pc = "warm" /\ rec'[t].pc = "rollback"
                 \/ Expire(t) /\ rec[t].pc = "expire" /\ rec'[t].pc = "closing"
                 \/ Undo(t) /\ rec[t].pc = "rollback" /\ rec'[t].pc = "undo"
                 \/ Return(t) /\ rec[t].pc = "closing" /\ rec'[t].pc = "done"
                 \/ Return(t) /\ rec[t].pc = "undo" /\ rec'[t].pc = "failed"
    BY NextPC
  <1>2. built' = built /\ Instances' = Instances /\ \A i \in Instances : Open(i)' <=> Open(i)
    <2>1. built' = built
      BY <1>1 DEF Install, LockAndDiff, Reuse, Prewarm, Switch, Unlock, Expire, Undo, Return, vars
    <2>. QED
      BY <2>1 DEF Instances, Open
  <1>3. CASE rec'[t].pc \in {"done", "expire", "closing"}
    BY <1>3 DEF MadeAt, Unseen
  <1>. SUFFICES ASSUME Unseen(t), NEW i \in Instances, NEW n \in Nodes, built[i].node = n,
                       n[1] = rec[t].next, Open(i), Excused(t, i, n),
                       rec'[t].pc \notin {"done", "expire", "closing"}
                PROVE  Excused(t, i, n)'
    <2>1. Unseen(t)' /\ rec'[t].pc \notin {"done", "expire", "closing"} => Unseen(t)
      BY <1>1 DEF Unseen
    <2>. QED
      BY <1>1, <1>2, <1>3, <2>1 DEF MadeAt
  <1>4. rec[t].pc # "lock"
    BY DEF Excused, Compared
  <1>5. CASE n[2] \in ToSet(rec[t].diff.reused)
    BY <1>1, <1>4, <1>5 DEF Excused, Compared
  <1>6. CASE n[2] \notin ToSet(rec[t].diff.reused)
    <2>1. rec[t].pc \in {"warm", "rollback", "undo"}
      BY <1>1, <1>6 DEF Excused
    <2>2. CASE rec[t].pc = "warm"
      <3>1. Unlock(t) /\ rec'[t].pc = "rollback" /\ Idle(t) /\ cache' = cache
        BY <1>1, <2>2 DEF Unlock, Warmed, vars
      <3>2. frame[t][n].pc = "none"
        BY <3>1 DEF Idle, IndInv, PathOK, ToSet
      <3>3. cache[n] = i
        BY <1>6, <2>2, <3>2 DEF Excused
      <3>. QED
        BY <3>1, <3>3 DEF Excused
    <2>3. CASE rec[t].pc = "rollback"
      <3>1. Undo(t) /\ rec'[t].pc = "undo"
        BY <1>1, <2>3
      <3>2. cache[n] = i /\ Compared(t)
        BY <1>6, <2>3 DEF Excused, Compared
      <3>3. n[2] \in ToSet(rec[t].diff.rebuilt)
        <4>1. Specified(n)
          BY DEF OriginOK
        <4>. QED
          BY <1>6, <3>2, <4>1, ComparedIs DEF Specified
      <3>4. rec[t].diff.rebuilt # <<>>
        BY <3>3 DEF ToSet
      <3>5. /\ closing'[t].active /\ closing'[t].done = {}
            /\ \A m \in Nodes : closing'[t].todo[m] =
                 IF m[1] = rec[t].next /\ m[2] \in ToSet(rec[t].diff.rebuilt)
                   THEN cache[m] ELSE NoInst
        <4>1. CloseIDsOf(t, rec[t].next, rec[t].diff.rebuilt)
          BY <3>1 DEF Undo
        <4>2. rec[t].next \in Made /\ rec[t].diff.rebuilt \in Seq(Keys)
          BY <3>2, ComparedIs, MadeIs DEF DiffType
        <4>. QED
          BY <3>4, <4>1, <4>2, CloseIDsOfEffect
      <3>. QED
        BY <3>1, <3>2, <3>3, <3>5 DEF Excused
    <2>4. CASE rec[t].pc = "undo"
      <3>1. Return(t) /\ ~closing[t].active
        BY <1>1, <2>4 DEF Return, Idle
      <3>. QED
        BY <1>6, <2>4, <3>1 DEF Excused
    <2>. QED
      BY <2>1, <2>2, <2>3, <2>4
  <1>. QED
    BY <1>5, <1>6

LEMMA MadeStep ==
  ASSUME Warmth, MadeOK, Control', HomeOK', [RNext]_allVars
  PROVE  MadeOK'
  <1>. SUFFICES ASSUME NEW t \in Threads PROVE MadeAt(t)'
    BY DEF MadeOK
  <1>0. IndInv /\ Control /\ WhereOK /\ OriginOK /\ OutOK /\ WarmAt(t) /\ MadeAt(t)
    BY DEF Warmth, Reached, WarmOK, MadeOK
  <1>1. CASE t \notin Reconcilers
    BY <1>1, NotReconciling DEF Control, RecOK, MadeAt, Unseen
  <1>2. CASE UNCHANGED allVars
    BY <1>0, <1>2 DEF allVars, vars, rvars, MadeAt, Unseen, Excused, Compared, Instances, Open
  <1>3. ASSUME NEW u \in Threads \ {t}, Step(u) \/ Call(u) PROVE MadeAt(t)'
    <2>1. rec'[t] = rec[t]
      BY <1>0, <1>3, OthersLocals
    <2>2. CASE Unseen(t)
      BY <1>0, <1>3, <2>2, MadeOther
    <2>3. CASE ~Unseen(t)
      BY <2>1, <2>3 DEF MadeAt, Unseen
    <2>. QED
      BY <2>2, <2>3
  <1>4. ASSUME t \in Reconcilers, Step(t) \/ Call(t) PROVE MadeAt(t)'
    <2>1. CASE Inside(t) /\ UNCHANGED rvars
      <3>1. rec[t].pc \in {"warm", "closing", "undo"}
        <4>1. ~Idle(t)
          BY <2>1, IdleIsOutside
        <4>. QED
          BY <1>0, <1>4, <4>1 DEF Idle, WhereOK, HomeOK, AtHome, IndInv, PathOK
      <3>2. CASE rec[t].pc = "closing"
        BY <2>1, <3>2 DEF MadeAt, Unseen, rvars
      <3>. QED
        BY <1>0, <2>1, <3>1, <3>2, MadeWarm, MadeUndo
    <2>2. ASSUME NEW c \in Configs, NewContainer(t, c) PROVE MadeAt(t)'
      BY <1>0, <2>2, MadeNew
    <2>. QED
      BY <1>0, <1>4, <2>1, <2>2, MadeMoves DEF NewTo
  <1>. QED
    BY <1>1, <1>2, <1>3, <1>4 DEF RNext, Quiet

\* A Reconcile whose prewarm failed leaves nothing open that it rebuilt: what it
\* had made of those nodes is in the cache of its container, and all of it is
\* closed (reconciler.go:109-113).  An instance of a reused node, built because
\* the old container had none, is not listed and may stay open.
THEOREM UndoesItsOwn == RSpec => []UndoneIsClosed
  <1>. DEFINE Inv == Warmth /\ MadeOK
  <1>1. RInit => Inv
    <2> SUFFICES ASSUME RInit PROVE MadeOK
      BY InitWarmth
    <2>. QED
      BY DEF RInit, Init, Instances, MadeOK, MadeAt
  <1>2. Inv /\ [RNext]_allVars => Inv'
    <2> SUFFICES ASSUME Warmth, MadeOK, [RNext]_allVars PROVE Warmth' /\ MadeOK'
      OBVIOUS
    <2>1. Warmth'
      BY WarmthStep
    <2>2. Control' /\ HomeOK'
      BY <2>1 DEF Warmth, Reached, WhereOK
    <2>. QED
      BY <2>1, <2>2, MadeStep
  <1>3. Inv => UndoneIsClosed
    <2> SUFFICES ASSUME Inv, NEW t \in Threads, rec[t].pc = "failed", NEW i \in Instances,
                        built[i].node[1] = rec[t].next, Open(i)
                 PROVE  built[i].node[2] \in ToSet(rec[t].diff.reused)
      BY DEF UndoneIsClosed
    <2>1. built[i].node \in Nodes
      BY InstanceIs DEF Warmth, Reached, IndInv
    <2>. QED
      BY <2>1 DEF MadeOK, MadeAt, Excused, Unseen
  <1>. QED
    BY <1>1, <1>2, <1>3, PTL DEF RSpec

-----------------------------------------------------------------------------
(***************************************************************************)
(* Which container has which instances.                                    *)
(***************************************************************************)
LEMMA BlankStep ==
  ASSUME IndInv, HomeOK, BlankOK, [RNext]_allVars
  PROVE  BlankOK'
  <1>1. CASE frame' = frame
    BY <1>1 DEF BlankOK
  <1>2. ASSUME NEW t \in Threads, Inside(t) PROVE BlankOK'
    <2>1. SoftStep => BlankOK'
      BY DEF SoftStep, SoftFrame, BlankOK
    <2>2. ASSUME NEW n \in Nodes, Construct(t, n) \/ Store(t, n) PROVE BlankOK'
      <3>1. /\ frame'[t][n].pc # "none"
            /\ \A u \in Threads, m \in Nodes : <<u, m>> # <<t, n>> => frame'[u][m] = frame[u][m]
        BY <2>2, ConstructEffect, StoreEffect DEF IndInv
      <3>. QED
        BY <3>1 DEF BlankOK
    <2>3. \A n \in Nodes : CloseOne(t, n) => frame' = frame
      BY DEF CloseOne
    <2>4. CloseFinish(t) => frame' = frame
      BY DEF CloseFinish
    <2>. QED
      BY <1>1, <1>2, <2>1, <2>2, <2>3, <2>4, InsideEffect
  <1>. QED
    BY <1>1, <1>2, FramesChangeInside

\* No container gets an instance, and none gets another node or other uses.
Quieter ==
  /\ Instances' = Instances
  /\ \A i \in Instances : built'[i].node = built[i].node /\ built'[i].uses = built[i].uses
  /\ \A k \in Made, i \in Instances : Near(k, i)' => Near(k, i)

LEMMA KnownQuieter ==
  ASSUME Quieter
  PROVE  \A k \in Made, i \in Instances : Known(k, i)' => Known(k, i)
  BY DEF Quieter, Known

\* What a container has by its caches and what it has by its calls.
LEMMA NearFrom ==
  ASSUME NEW k \in Made, NEW i,
         \A n \in Nodes : n[1] = k => (cache'[n] = i => Near(k, i)),
         \A t \in Threads, n \in Nodes : n[1] = k =>
           /\ frame'[t][n].out = i => Near(k, i)
           /\ i \in frame'[t][n].got => Near(k, i)
  PROVE  Near(k, i)' => Near(k, i)
  BY DEF Near

LEMMA NearSoft ==
  ASSUME IndInv, Control, WhereOK, SoftStep
  PROVE  Quieter
  <1>1. UNCHANGED <<cache, built>> /\ Instances' = Instances
    BY DEF SoftStep, QuietStep, Instances
  <1>2. ASSUME NEW k \in Made, NEW i \in Instances PROVE Near(k, i)' => Near(k, i)
    <2>1. i # NoInst /\ i # ErrResult
      BY InstanceIs DEF IndInv
    <2>2. \A n \in Nodes : n[1] = k => (cache'[n] = i => Near(k, i))
      BY <1>1 DEF Near
    <2>3. ASSUME NEW t \in Threads, NEW n \in Nodes, n[1] = k
          PROVE  /\ frame'[t][n].out = i => Near(k, i)
                 /\ i \in frame'[t][n].got => Near(k, i)
      <3>1. SoftFrame(t, n)
        BY DEF SoftStep
      <3>2. frame'[t][n].out = i => Near(k, i)
        BY <2>1, <2>3, <3>1 DEF SoftFrame, Near
      <3>3. \A m \in ToSet(Work(n)) : m \in Nodes /\ m[1] = k
        <4>1. ToSet(Work(n)) \subseteq Nodes
          BY WorkType DEF IndInv, ToSet
        <4>2. \A m \in ToSet(Work(n)) : m[1] = n[1]
          BY WorkIs DEF WhereOK
        <4>. QED
          BY <2>3, <4>1, <4>2
      <3>4. i \in frame'[t][n].got => Near(k, i)
        BY <2>3, <3>1, <3>3 DEF SoftFrame, Near
      <3>. QED
        BY <3>2, <3>4
    <2>. QED
      BY <2>2, <2>3, NearFrom
  <1>. QED
    BY <1>1, <1>2 DEF Quieter

\* Steps that leave the calls alone and put nothing into a cache.
LEMMA NearEmptied ==
  ASSUME IndInv, frame' = frame, Instances' = Instances,
         \A n \in Nodes : cache'[n] \in {cache[n], NoInst},
         \A i \in Instances : built'[i].node = built[i].node /\ built'[i].uses = built[i].uses
  PROVE  Quieter
  <1>1. ASSUME NEW k \in Made, NEW i \in Instances PROVE Near(k, i)' => Near(k, i)
    <2>1. i # NoInst
      BY InstanceIs DEF IndInv
    <2>. QED
      BY <2>1, NearFrom DEF Near
  <1>. QED
    BY <1>1 DEF Quieter

LEMMA NearStore ==
  ASSUME IndInv, NEW t \in Threads, NEW n \in Nodes, Store(t, n)
  PROVE  Quieter
  <1>1. /\ built' = built /\ Instances' = Instances
        /\ \A u \in Threads, m \in Nodes :
             frame'[u][m].got = frame[u][m].got /\ frame'[u][m].out = frame[u][m].out
        /\ \A m \in Nodes : cache'[m] = IF m = n THEN frame[t][n].out ELSE cache[m]
    BY StoreEffect, StoreKeeps DEF IndInv, Instances
  <1>2. ASSUME NEW k \in Made, NEW i \in Instances PROVE Near(k, i)' => Near(k, i)
    BY <1>1, NearFrom DEF Near
  <1>. QED
    BY <1>1, <1>2 DEF Quieter

LEMMA NearInside ==
  ASSUME IndInv, Control, WhereOK, NEW t \in Threads, Inside(t)
  PROVE  Quieter \/ \E n \in Nodes : Construct(t, n)
  <1>1. ASSUME NEW n \in Nodes, CloseOne(t, n) PROVE Quieter
    <2>1. /\ UNCHANGED <<cache, frame>> /\ Instances' = Instances
          /\ \A i \in Instances : built'[i].node = built[i].node /\ built'[i].uses = built[i].uses
      BY <1>1, CloseOneEffect, CloseOneKeeps DEF IndInv
    <2>. QED
      BY <2>1, NearEmptied
  <1>2. CASE CloseFinish(t)
    <2>1. /\ UNCHANGED <<built, frame>> /\ Instances' = Instances
          /\ \A n \in Nodes : cache'[n] \in {cache[n], NoInst}
      BY <1>2 DEF CloseFinish, Instances
    <2>. QED
      BY <2>1, NearEmptied
  <1>. QED
    BY <1>1, <1>2, NearSoft, NearStore, InsideEffect DEF WhereOK

\* Nobody has what there is not yet.
LEMMA NewIsNowhere ==
  ASSUME IndInv, NEW new \in Nat \ Instances, new # NoInst, new # ErrResult
  PROVE  /\ \A m \in Nodes : cache[m] # new
         /\ \A u \in Threads, m \in Nodes : /\ frame[u][m].out # new
                                            /\ frame[u][m].got \subseteq Instances
         /\ \A i \in Instances : built[i].uses \subseteq Instances
  <1>1. \A u \in Threads, m \in Nodes : frame[u][m] \in FrameType
    BY DEF IndInv, TypeOK
  <1>2. \A u \in Threads, m \in Nodes : /\ frame[u][m].out # new
                                         /\ frame[u][m].got \subseteq Instances
    BY <1>1 DEF FrameType, Results
  <1>3. \A m \in Nodes : cache[m] # new
    BY DEF IndInv, TypeOK
  <1>4. \A i \in Instances : built[i].uses \subseteq Instances
    BY InstanceIs DEF IndInv
  <1>. QED
    BY <1>2, <1>3, <1>4

\* What Build adds.
LEMMA NearConstruct ==
  ASSUME IndInv, NEW t \in Threads, NEW n \in Nodes, Construct(t, n),
         NEW new, new = Len(built) + 1
  PROVE  /\ Instances' = Instances \union {new} /\ new \notin Instances /\ new \in Nat
         /\ \A k \in Made, i \in Instances : Near(k, i)' => Near(k, i)
         /\ \A k \in Made : Near(k, new)' => k = n[1]
         /\ \A k \in Made, i \in Instances : Known(k, i)' => Known(k, i)
         /\ \A k \in Made : Known(k, new)' => k = n[1]
  <1>1. /\ cache' = cache
        /\ Instances' = Instances \union {new} /\ new \notin Instances
        /\ \A i \in Instances : built'[i] = built[i]
        /\ frame'[t][n].out = new /\ built'[new].uses = frame[t][n].got
        /\ \A u \in Threads, m \in Nodes : <<u, m>> # <<t, n>> => frame'[u][m] = frame[u][m]
        /\ \A u \in Threads, m \in Nodes : frame'[u][m].got = frame[u][m].got
    BY ConstructEffect, ConstructUses DEF IndInv
  <1>2. new \in Nat /\ new # NoInst /\ new # ErrResult
    BY DEF IndInv, TypeOK, NoInst, ErrResult
  <1>3. /\ \A m \in Nodes : cache[m] # new
        /\ \A u \in Threads, m \in Nodes : /\ frame[u][m].out # new
                                           /\ frame[u][m].got \subseteq Instances
        /\ \A i \in Instances : built[i].uses \subseteq Instances
    BY <1>1, <1>2, NewIsNowhere
  <1>4. ASSUME NEW k \in Made, NEW i \in Instances PROVE Near(k, i)' => Near(k, i)
    <2>1. \A u \in Threads, m \in Nodes : frame'[u][m].out = i => frame[u][m].out = i
      BY <1>1
    <2>. QED
      BY <1>1, <2>1, NearFrom DEF Near
  <1>5. ASSUME NEW k \in Made, Near(k, new)' PROVE k = n[1]
    <2>1. \A m \in Nodes : cache'[m] # new
      BY <1>1, <1>3
    <2>2. \A u \in Threads, m \in Nodes : new \notin frame'[u][m].got
      BY <1>1, <1>3
    <2>3. \A u \in Threads, m \in Nodes : frame'[u][m].out = new => m = n
      BY <1>1, <1>3
    <2>. QED
      BY <1>5, <2>1, <2>2, <2>3 DEF Near
  <1>6. ASSUME NEW k \in Made, NEW i \in Instances, Known(k, i)' PROVE Known(k, i)
    <2>1. CASE Near(k, i)'
      BY <1>4, <2>1 DEF Known
    <2>2. ASSUME NEW j \in Instances', Near(k, j)', i \in built'[j].uses PROVE Known(k, i)
      <3>1. CASE j = new
        <4>1. k = n[1] /\ i \in frame[t][n].got
          BY <1>1, <1>5, <2>2, <3>1
        <4>. QED
          BY <4>1 DEF Known, Near
      <3>2. CASE j \in Instances
        BY <1>1, <1>4, <2>2, <3>2 DEF Known
      <3>. QED
        BY <1>1, <3>1, <3>2
    <2>. QED
      BY <1>6, <2>1, <2>2 DEF Known
  <1>7. ASSUME NEW k \in Made, Known(k, new)' PROVE k = n[1]
    <2>1. \A j \in Instances' : new \notin built'[j].uses
      BY <1>1, <1>3
    <2>. QED
      BY <1>5, <1>7, <2>1 DEF Known
  <1>. QED
    BY <1>1, <1>2, <1>4, <1>5, <1>6, <1>7

\* What a turn of the loop over the reused nodes adds.
LEMMA NearReuse ==
  ASSUME IndInv, Control, NEW t \in Threads, Reuse(t),
         NEW k0, k0 = rec[t].next, NEW j, j = cache[<<rec[t].old, Head(rec[t].todo)>>]
  PROVE  /\ Instances' = Instances /\ built' = built
         /\ \A k \in Made, i \in Instances : Near(k, i)' => Near(k, i) \/ (k = k0 /\ i = j)
         /\ \A k \in Made, i \in Instances :
              Known(k, i)' => \/ Known(k, i)
                              \/ k = k0 /\ j \in Instances /\ (i = j \/ i \in built[j].uses)
  <1>0. /\ UNCHANGED <<built, frame>>
        /\ \A n \in Nodes : cache'[n] = IF n = <<k0, Head(rec[t].todo)>> /\ j # NoInst
                                          THEN j ELSE cache[n]
    BY ReuseEffect
  <1>1. /\ UNCHANGED <<built, frame>>
        /\ \A n \in Nodes : n[1] = k0 \/ cache'[n] = cache[n]
        /\ \A n \in Nodes : cache'[n] = cache[n] \/ cache'[n] = j
    BY <1>0
  <1>2. Instances' = Instances
    BY <1>1 DEF Instances
  <1>3. ASSUME NEW k \in Made, NEW i \in Instances, Near(k, i)'
        PROVE  Near(k, i) \/ (k = k0 /\ i = j)
    BY <1>1, <1>3 DEF Near
  <1>4. ASSUME NEW k \in Made, NEW i \in Instances, Known(k, i)'
        PROVE  \/ Known(k, i)
               \/ k = k0 /\ j \in Instances /\ (i = j \/ i \in built[j].uses)
    <2>1. CASE Near(k, i)'
      BY <1>3, <2>1 DEF Known
    <2>2. ASSUME NEW h \in Instances', Near(k, h)', i \in built'[h].uses
          PROVE  Known(k, i) \/ (k = k0 /\ j \in Instances /\ i \in built[j].uses)
      BY <1>1, <1>2, <1>3, <2>2 DEF Known
    <2>. QED
      BY <1>4, <2>1, <2>2 DEF Known
  <1>. QED
    BY <1>1, <1>2, <1>3, <1>4

\* Only Build and the loop over the reused nodes give a container anything.
LEMMA NearStep ==
  ASSUME IndInv, Control, WhereOK, [RNext]_allVars
  PROVE  \/ Quieter
         \/ \E t \in Threads, n \in Nodes : Construct(t, n) /\ UNCHANGED rvars
         \/ \E t \in Threads : Reuse(t)
  <1>1. ASSUME UNCHANGED <<cache, frame, built>> PROVE Quieter
    <2>1. Instances' = Instances
      BY <1>1 DEF Instances
    <2>. QED
      BY <1>1, <2>1, NearEmptied
  <1>2. ASSUME NEW t \in Threads, Step(t)
        PROVE  \/ UNCHANGED <<cache, frame, built>>
               \/ Inside(t) /\ UNCHANGED rvars
               \/ Reuse(t)
    BY <1>2 DEF Step, Install, LockAndDiff, Prewarm, Switch, Unlock, Expire, Undo, Return, vars
  <1>3. ASSUME NEW t \in Threads, Call(t) PROVE UNCHANGED <<cache, frame, built>>
    BY <1>3 DEF Call, Current, Use, CallResolve, NewContainer, vars
  <1>4. UNCHANGED allVars => UNCHANGED <<cache, frame, built>>
    BY DEF allVars, vars
  <1>. QED
    BY <1>1, <1>2, <1>3, <1>4, NearInside DEF RNext, Quiet

-----------------------------------------------------------------------------
(***************************************************************************)
(* A new container has nothing, and what is built in it is its own.        *)
(***************************************************************************)
\* How the locals of each thread move, whoever takes the step.
LEMMA LocalsMove ==
  ASSUME Control, Control', NEW u \in Threads, Step(u) \/ Call(u), NEW t \in Threads
  PROVE  \/ rec'[t] = rec[t]
         \/ rec'[t].pc = "idle"
         \/ NewTo(t) /\ rec[t].pc \in {"idle", "done", "failed"} /\ rec'[t].pc = "lock"
         \/ /\ rec'[t].next = rec[t].next
            /\ \/ rec[t].pc = "lock" /\ rec'[t].pc = "done"
               \/ LockAndDiff(t) /\ rec[t].pc = "lock" /\ rec'[t].pc = "inject"
               \/ /\ rec'[t].diff = rec[t].diff /\ rec'[t].old = rec[t].old
                  /\ \/ rec[t].pc = "inject" /\ rec'[t].pc = "inject"
                     \/ rec[t].pc = "inject" /\ rec'[t].pc = "warm"
                     \/ Switch(t) /\ rec[t].pc = "warm" /\ rec'[t].pc = "expire"
                     \/ Unlock(t) /\ rec[t].pc = "warm" /\ rec'[t].pc = "rollback"
                     \/ Expire(t) /\ rec[t].pc = "expire" /\ rec'[t].pc = "closing"
                     \/ Undo(t) /\ rec[t].pc = "rollback" /\ rec'[t].pc = "undo"
                     \/ rec[t].pc = "closing" /\ rec'[t].pc = "done"
                     \/ rec[t].pc = "undo" /\ rec'[t].pc = "failed"
  <1>1. CASE t # u
    BY <1>1, OthersLocals
  <1>2. CASE t \notin Reconcilers
    BY <1>2 DEF Control, RecOK
  <1>3. CASE t = u /\ t \in Reconcilers
    <2>1. CASE Inside(t) /\ UNCHANGED rvars
      BY <2>1 DEF rvars
    <2>. QED
      BY <1>3, <2>1, NextPC
  <1>. QED
    BY <1>1, <1>2, <1>3

LEMMA FreshStays ==
  ASSUME Control, Control', [RNext]_allVars, NEW k \in Made, Fresh(k)'
  PROVE  Fresh(k)
  <1>1. CASE UNCHANGED allVars
    BY <1>1 DEF Fresh, allVars, rvars
  <1>2. ASSUME NEW u \in Threads, Step(u) \/ Call(u) PROVE Fresh(k)
    <2>1. Len(conf) \in Nat /\ Len(conf') \in Nat
      BY DEF Control
    <2>2. Len(conf') >= Len(conf) /\ \A t \in Threads : NewTo(t) => rec'[t].next = Len(conf) + 1
      <3>1. \A c \in Configs : NewContainer(u, c) => Len(conf') >= Len(conf)
        BY <2>1, Appended
      <3>2. conf' = conf \/ \E c \in Configs : NewContainer(u, c)
        BY <1>2 DEF Step, Call, Install, LockAndDiff, Reuse, Prewarm, Switch, Unlock, Expire,
                    Undo, Return, Current, Use, rvars
      <3>. QED
        BY <2>1, <3>1, <3>2, Appended DEF NewTo
    <2>3. CASE k > Len(conf')
      BY <2>1, <2>2, <2>3 DEF Fresh, Made
    <2>4. ASSUME NEW t \in Threads, rec'[t].pc = "lock", rec'[t].next = k PROVE Fresh(k)
      <3>1. rec'[t] = rec[t] \/ NewTo(t)
        BY <1>2, <2>4, LocalsMove
      <3>. QED
        BY <2>1, <2>2, <2>4, <3>1 DEF Fresh
    <2>. QED
      BY <2>3, <2>4 DEF Fresh
  <1>. QED
    BY <1>1, <1>2 DEF RNext, Quiet

\* What is declared or being filled is not fresh.
LEMMA NotFresh ==
  ASSUME Control, NEW k \in 1 .. Len(conf),
         \A t \in Threads : rec[t].pc = "lock" => rec[t].next # k
  PROVE  ~Fresh(k)
  BY DEF Control, Fresh

LEMMA FreshStep ==
  ASSUME IndInv, Control, WhereOK, FreshOK, Control', [RNext]_allVars
  PROVE  FreshOK'
  <1>1. CASE Quieter
    BY <1>1, FreshStays DEF FreshOK, Quieter
  <1>2. ASSUME NEW t \in Threads, NEW n \in Nodes, Construct(t, n) PROVE FreshOK'
    <2>0. PICK new : new = Len(built) + 1
      OBVIOUS
    <2>1. /\ Instances' = Instances \union {new}
          /\ \A k \in Made, i \in Instances : Near(k, i)' => Near(k, i)
          /\ \A k \in Made : Near(k, new)' => k = n[1]
      BY <1>2, <2>0, NearConstruct
    <2>2. ~Fresh(n[1])
      <3>1. frame[t][n].pc = "work" /\ Specified(n)
        BY <1>2, ConstructEffect DEF IndInv, WhereOK, OnlyDeclared, GraphOK
      <3>2. \A u \in Threads : rec[u].pc = "lock" => rec[u].next # n[1]
        BY <3>1, OnlyOwnFrames DEF WhereOK, Unseen
      <3>. QED
        BY <3>1, <3>2, NotFresh DEF Specified
    <2>3. ASSUME NEW k \in Made, NEW i \in Instances', Fresh(k)', Near(k, i)' PROVE FALSE
      <3>1. Fresh(k)
        BY <2>3, FreshStays
      <3>. QED
        BY <2>1, <2>2, <2>3, <3>1 DEF FreshOK
    <2>. QED
      BY <2>3 DEF FreshOK
  <1>3. ASSUME NEW t \in Threads, Reuse(t) PROVE FreshOK'
    <2>1. PICK k0, j : k0 = rec[t].next /\ j = cache[<<rec[t].old, Head(rec[t].todo)>>]
      OBVIOUS
    <2>2. /\ Instances' = Instances
          /\ \A k \in Made, i \in Instances : Near(k, i)' => Near(k, i) \/ (k = k0 /\ i = j)
      BY <1>3, <2>1, NearReuse
    <2>3. ~Fresh(k0)
      <3>1. rec[t].pc = "inject" /\ k0 \in 1 .. Len(conf)
        BY <1>3, <2>1, ReuseEffect, ComparedIs
      <3>2. \A u \in Threads : rec[u].pc = "lock" => rec[u].next # k0
        BY <2>1, <3>1 DEF Control, RecOK
      <3>. QED
        BY <3>1, <3>2, NotFresh
    <2>. QED
      BY <2>2, <2>3, FreshStays DEF FreshOK
  <1>. QED
    BY <1>1, <1>2, <1>3, NearStep

LEMMA FreshKnowsNone ==
  ASSUME FreshOK, NEW k \in Made, Fresh(k), NEW i \in Instances
  PROVE  ~Known(k, i)
  BY DEF FreshOK, Known

\* What a node that is there is specified as.
LEMMA SpecIs ==
  ASSUME OneLineSources, Control, NEW n, Specified(n)
  PROVE  /\ IsCompiled(conf[n[1]])
         /\ SpecOf(n).deps \in Seq(Keys)
         /\ OneLine(SpecOf(n))
  <1>1. conf[n[1]] \in Sources /\ n[2] \in DOMAIN conf[n[1]].spec
    BY DEF Specified, Control
  <1>2. IsCompiled(conf[n[1]])
    BY <1>1, SourcesCompiled
  <1>. QED
    BY <1>1, <1>2 DEF SpecOf, IsCompiled, OneLineSources

\* What comes of a reused node, and what that holds, is of reused nodes.
LEMMA ReusedIs ==
  ASSUME OneLineSources, IndInv, Control, OriginOK, NEW t \in Threads, Reuse(t),
         NEW j \in Instances, j = cache[<<rec[t].old, Head(rec[t].todo)>>],
         NEW i \in Instances, i = j \/ i \in built[j].uses
  PROVE  built[i].node[2] \in ToSet(rec[t].diff.reused)
  <1>. DEFINE id == Head(rec[t].todo)
              o == rec[t].old
  <1>1. Compared(t) /\ id \in ToSet(rec[t].diff.reused) /\ <<o, id>> \in Nodes
    BY ReuseEffect
  <1>2. /\ HashSpec(conf[o].spec[id]) = HashSpec(conf[rec[t].next].spec[id])
        /\ ToSet(conf[rec[t].next].spec[id].deps) \subseteq ToSet(rec[t].diff.reused)
    BY <1>1, ReusedSpecs
  <1>3. From(j, <<o, id>>)
    BY <1>1 DEF OriginOK
  <1>. HIDE DEF o, id
  <1>4. CASE i = j
    BY <1>1, <1>3, <1>4 DEF From
  <1>5. CASE i \in built[j].uses
    <2>1. PICK m \in Nodes : /\ built[j].node = m /\ Specified(m)
                             /\ HashSpec(SpecOf(m)) = HashSpec(conf[o].spec[id])
      BY <1>3 DEF From, SpecOf
    <2>4. SpecOf(m).deps \in Seq(Keys) /\ OneLine(SpecOf(m))
      BY <2>1, SpecIs
    <2>5. /\ conf[rec[t].next].spec[id].deps \in Seq(Keys)
          /\ OneLine(conf[rec[t].next].spec[id])
      <3>1. /\ rec[t].next \in 1 .. Len(conf) /\ id \in DOMAIN conf[rec[t].next].spec
            /\ conf[rec[t].next].spec[id].deps \in Seq(Keys)
        BY <1>1, ComparedIs DEF IsCompiled
      <3>2. conf[rec[t].next] \in Sources
        BY <3>1 DEF Control
      <3>. QED
        BY <3>1, <3>2 DEF OneLineSources
    <2>2. For(i, m)
      BY <1>5, <2>1 DEF OriginOK
    <2>3. ToSet(SpecOf(m).deps) = ToSet(conf[rec[t].next].spec[id].deps)
      BY <1>2, <2>1, <2>4, <2>5, SameHash
    <2>. QED
      BY <1>2, <2>2, <2>3 DEF For
  <1>. QED
    BY <1>4, <1>5

LEMMA OwnQuieter ==
  ASSUME OwnOK, FreshOK, Quieter, NEW t \in Threads,
         \/ ~Unseen(t)'
         \/ Unseen(t) /\ rec'[t].next = rec[t].next
         \/ \A i \in Instances : built[i].node[1] # rec'[t].next,
         \/ rec'[t].pc \notin {"inject", "warm", "rollback"}
         \/ /\ rec[t].pc \in {"inject", "warm", "rollback"}
            /\ rec'[t].next = rec[t].next /\ rec'[t].diff = rec[t].diff
         \/ Fresh(rec'[t].next)
  PROVE  OwnAt(t)'
  <1>1. \A k \in Made, i \in Instances : Known(k, i)' => Known(k, i)
    BY KnownQuieter
  <1>2. OwnAt(t)
    BY DEF OwnOK
  <1>3. Unseen(t)' => \A k \in Made, i \in Instances' :
                       Known(k, i)' /\ built'[i].node[1] = rec'[t].next => k = rec'[t].next
    BY <1>1, <1>2 DEF OwnAt, Quieter
  <1>4. rec'[t].pc \in {"inject", "warm", "rollback"} =>
          \A k \in Made, i \in Instances' :
            k = rec'[t].next /\ Known(k, i)' /\ built'[i].node[2] \in ToSet(rec'[t].diff.rebuilt) =>
              built'[i].node[1] = k
    BY <1>1, <1>2, FreshKnowsNone DEF OwnAt, Quieter
  <1>. QED
    BY <1>3, <1>4 DEF OwnAt

LEMMA OwnStep ==
  ASSUME OneLineSources, IndInv, Control, WhereOK, OriginOK, FreshOK, OwnOK, Control',
         [RNext]_allVars
  PROVE  OwnOK'
  <1>. SUFFICES ASSUME NEW t \in Threads PROVE OwnAt(t)'
    BY DEF OwnOK
  <1>0. OwnAt(t)
    BY DEF OwnOK
  <1>1. CASE Quieter /\ rec' = rec
    BY <1>1, OwnQuieter DEF Unseen
  <1>2. ASSUME Quieter, NEW u \in Threads, Step(u) \/ Call(u) PROVE OwnAt(t)'
    <2>1. ASSUME NewTo(t) PROVE \A i \in Instances : built[i].node[1] # rec'[t].next
      <3>1. rec'[t].next = Len(conf) + 1 /\ Len(conf) \in Nat
        BY <2>1, Appended DEF NewTo
      <3>2. \A i \in Instances : Specified(built[i].node)
        BY InstanceIs DEF OriginOK, IndInv
      <3>. QED
        BY <3>1, <3>2 DEF Specified
    <2>2. rec[t].pc = "lock" => Fresh(rec[t].next)
      BY DEF Fresh
    <2>3. /\ \/ ~Unseen(t)'
             \/ Unseen(t) /\ rec'[t].next = rec[t].next
             \/ \A i \in Instances : built[i].node[1] # rec'[t].next
          /\ \/ rec'[t].pc \notin {"inject", "warm", "rollback"}
             \/ /\ rec[t].pc \in {"inject", "warm", "rollback"}
                /\ rec'[t].next = rec[t].next /\ rec'[t].diff = rec[t].diff
             \/ Fresh(rec'[t].next)
      BY <1>2, <2>1, <2>2, LocalsMove DEF Unseen
    <2>. QED
      BY <1>2, <2>3, OwnQuieter
  <1>3. ASSUME NEW u \in Threads, NEW n \in Nodes, Construct(u, n), UNCHANGED rvars
        PROVE  OwnAt(t)'
    <2>1. PICK new : new = Len(built) + 1
      OBVIOUS
    <2>2. /\ Instances' = Instances \union {new}
          /\ \A i \in Instances : built'[i] = built[i]
          /\ built'[new].node = n /\ rec' = rec
      BY <1>3, <2>1, ConstructEffect DEF IndInv, rvars
    <2>3. /\ \A k \in Made, i \in Instances : Known(k, i)' => Known(k, i)
          /\ \A k \in Made : Known(k, new)' => k = n[1]
      BY <1>3, <2>1, NearConstruct
    <2>4. Unseen(t)' => \A k \in Made, i \in Instances' :
                         Known(k, i)' /\ built'[i].node[1] = rec'[t].next => k = rec'[t].next
      BY <1>0, <2>2, <2>3 DEF OwnAt, Unseen
    <2>5. rec'[t].pc \in {"inject", "warm", "rollback"} =>
            \A k \in Made, i \in Instances' :
              k = rec'[t].next /\ Known(k, i)' /\ built'[i].node[2] \in ToSet(rec'[t].diff.rebuilt) =>
                built'[i].node[1] = k
      BY <1>0, <2>2, <2>3 DEF OwnAt
    <2>. QED
      BY <2>4, <2>5 DEF OwnAt
  <1>4. ASSUME NEW u \in Threads, Reuse(u) PROVE OwnAt(t)'
    <2>1. PICK k0, j : k0 = rec[u].next /\ j = cache[<<rec[u].old, Head(rec[u].todo)>>]
      OBVIOUS
    <2>2. /\ Instances' = Instances /\ built' = built
          /\ \A k \in Made, i \in Instances :
              Known(k, i)' => \/ Known(k, i)
                              \/ k = k0 /\ j \in Instances /\ (i = j \/ i \in built[j].uses)
      BY <1>4, <2>1, NearReuse
    <2>3. /\ rec[u].pc = "inject" /\ Compared(u) /\ <<rec[u].old, Head(rec[u].todo)>> \in Nodes
          /\ rec'[u].pc = rec[u].pc /\ rec'[u].next = rec[u].next /\ rec'[u].diff = rec[u].diff
          /\ \A v \in Threads \ {u} : rec'[v] = rec[v]
      BY <1>4, ReuseEffect
    <2>4. /\ rec'[t].pc = rec[t].pc /\ rec'[t].next = rec[t].next /\ rec'[t].diff = rec[t].diff
      BY <2>3
    <2>12. PICK o : o = rec[u].old
      OBVIOUS
    <2>5. o = rec[u].old /\ o \in Made /\ o = current
      <3>1. o \in Made
        BY <2>3, <2>12, ComparedIs, MadeIs
      <3>2. o = current
        BY <2>3, <2>12 DEF Control, RecOK
      <3>. QED
        BY <2>12, <3>1, <3>2
    <2>6. \A i \in Instances : j \in Instances /\ (i = j \/ i \in built[j].uses) => Known(o, i)
      BY <2>1, <2>3, <2>5 DEF Known, Near
    <2>7. ASSUME Unseen(t), NEW k \in Made, NEW i \in Instances, Known(k, i)',
                 built[i].node[1] = rec[t].next
          PROVE  k = rec[t].next
      <3>1. rec[t].next # current
        BY <2>7 DEF Control, RecOK
      <3>2. ~Known(o, i)
        BY <1>0, <2>5, <2>7, <3>1 DEF OwnAt
      <3>. QED
        BY <1>0, <2>2, <2>6, <2>7, <3>2 DEF OwnAt
    <2>8. ASSUME rec[t].pc \in {"inject", "warm", "rollback"}, NEW k \in Made, NEW i \in Instances,
                 k = rec[t].next, Known(k, i)', built[i].node[2] \in ToSet(rec[t].diff.rebuilt)
          PROVE  built[i].node[1] = k
      <3>1. CASE Known(k, i)
        BY <1>0, <2>8, <3>1 DEF OwnAt
      <3>2. CASE k = k0 /\ j \in Instances /\ (i = j \/ i \in built[j].uses)
        <4>1. t = u
          <5>1. rec[t].pc # "idle" /\ rec[u].pc # "idle" /\ rec[t].next = rec[u].next
            BY <2>1, <2>3, <2>8, <3>2
          <5>. QED
            BY <5>1 DEF Control, RecOK
        <4>2. built[i].node[2] \in ToSet(rec[u].diff.reused)
          BY <1>4, <2>1, <3>2, ReusedIs
        <4>3. ToSet(rec[u].diff.reused) \intersect ToSet(rec[u].diff.rebuilt) = {}
          BY <2>3, ComparedIs
        <4>. QED
          BY <2>8, <4>1, <4>2, <4>3
      <3>. QED
        BY <2>2, <2>8, <3>1, <3>2
    <2>9. Unseen(t)' => Unseen(t)
      BY <2>4 DEF Unseen
    <2>10. Unseen(t)' => \A k \in Made, i \in Instances' :
                         Known(k, i)' /\ built'[i].node[1] = rec'[t].next => k = rec'[t].next
      BY <2>2, <2>4, <2>7, <2>9
    <2>11. rec'[t].pc \in {"inject", "warm", "rollback"} =>
            \A k \in Made, i \in Instances' :
              k = rec'[t].next /\ Known(k, i)' /\ built'[i].node[2] \in ToSet(rec'[t].diff.rebuilt) =>
                built'[i].node[1] = k
      BY <2>2, <2>4, <2>8
    <2>. QED
      BY <2>10, <2>11 DEF OwnAt
  <1>5. UNCHANGED allVars => rec' = rec
    BY DEF allVars, rvars
  <1>6. Quieter => OwnAt(t)'
    BY <1>1, <1>2, <1>5 DEF RNext, Quiet
  <1>. QED
    BY <1>3, <1>4, <1>6, NearStep

-----------------------------------------------------------------------------
(***************************************************************************)
(* What is built and not stored is in one pair of hands.                   *)
(***************************************************************************)
LEMMA HandSoft ==
  ASSUME IndInv, HandAlone, SoftStep
  PROVE  HandAlone'
  <1>0. UNCHANGED <<g, cache, built>> /\ Instances' = Instances
    BY DEF SoftStep, QuietStep, Instances
  <1>. SUFFICES ASSUME NEW t \in Threads, NEW n \in Nodes, NEW x \in Instances,
                       frame'[t][n].pc = "store", frame'[t][n].out = x
                PROVE  Alone(t, n, x)'
    BY <1>0 DEF HandAlone
  <1>1. frame[t][n].pc = "store" /\ frame[t][n].out = x
    BY DEF SoftStep, QuietStep
  <1>2. Alone(t, n, x)
    BY <1>1 DEF HandAlone
  <1>3. x # NoInst /\ x # ErrResult
    BY InstanceIs DEF IndInv
  <1>4. \A u \in Threads, m \in Nodes :
          frame[u][m].out = x => frame[u][m].pc \notin {"leave", "return"}
    BY <1>1, <1>2 DEF Alone
  <1>5. ASSUME NEW u \in Threads, NEW m \in Nodes PROVE x \notin frame'[u][m].got
    <2>1. ToSet(Work(m)) \subseteq Nodes
      BY WorkType DEF IndInv, ToSet
    <2>2. SoftFrame(u, m)
      BY DEF SoftStep
    <2>. QED
      BY <1>2, <1>4, <2>1, <2>2 DEF SoftFrame, Alone
  <1>6. ASSUME NEW u \in Threads, NEW m \in Nodes, <<u, m>> # <<t, n>>
        PROVE  frame'[u][m].out # x
    <2>1. SoftFrame(u, m)
      BY DEF SoftStep
    <2>2. frame[u][m].out # x /\ cache[m] # x
      BY <1>2, <1>6 DEF Alone
    <2>. QED
      BY <1>3, <1>4, <2>1, <2>2 DEF SoftFrame
  <1>. QED
    BY <1>0, <1>2, <1>5, <1>6 DEF Alone

\* Steps that leave the calls alone and make the caches of what is in caches.
LEMMA HandSame ==
  ASSUME IndInv, HandAlone, frame' = frame, Instances' = Instances,
         \A i \in Instances : built'[i].uses = built[i].uses,
         \A n \in Nodes : cache'[n] = NoInst \/ \E m \in Nodes : cache'[n] = cache[m]
  PROVE  HandAlone'
  <1>1. \A x \in Instances : x # NoInst
    BY InstanceIs DEF IndInv
  <1>2. ASSUME NEW t \in Threads, NEW n \in Nodes, NEW x \in Instances, Alone(t, n, x)
        PROVE  Alone(t, n, x)'
    BY <1>1, <1>2 DEF Alone
  <1>. QED
    BY <1>2 DEF HandAlone

LEMMA HandConstruct ==
  ASSUME IndInv, HandAlone, NEW u \in Threads, NEW m \in Nodes, Construct(u, m)
  PROVE  HandAlone'
  <1>0. PICK new : new = Len(built) + 1
    OBVIOUS
  <1>1. /\ cache' = cache
        /\ Instances' = Instances \union {new} /\ new \notin Instances
        /\ \A i \in Instances : built'[i] = built[i]
        /\ frame'[u][m].out = new /\ built'[new].uses = frame[u][m].got
        /\ \A v \in Threads, k \in Nodes : <<v, k>> # <<u, m>> => frame'[v][k] = frame[v][k]
        /\ \A v \in Threads, k \in Nodes : frame'[v][k].got = frame[v][k].got
    BY <1>0, ConstructEffect, ConstructUses DEF IndInv
  <1>2. new \in Nat \ Instances /\ new # NoInst /\ new # ErrResult
    BY <1>0, <1>1 DEF IndInv, TypeOK, NoInst, ErrResult
  <1>3. /\ \A k \in Nodes : cache[k] # new
        /\ \A v \in Threads, k \in Nodes : /\ frame[v][k].out # new
                                           /\ frame[v][k].got \subseteq Instances
        /\ \A i \in Instances : built[i].uses \subseteq Instances
    BY <1>2, NewIsNowhere
  <1>. SUFFICES ASSUME NEW t \in Threads, NEW n \in Nodes, NEW x \in Instances',
                       frame'[t][n].pc = "store", frame'[t][n].out = x
                PROVE  Alone(t, n, x)'
    BY DEF HandAlone
  <1>4. CASE <<t, n>> = <<u, m>>
    <2>1. x = new
      BY <1>1, <1>4
    <2>2. \A i \in Instances' : x \notin built'[i].uses
      BY <1>1, <1>2, <1>3, <2>1
    <2>3. \A v \in Threads, k \in Nodes : <<v, k>> # <<t, n>> => frame'[v][k].out # x
      BY <1>1, <1>3, <1>4, <2>1
    <2>4. \A v \in Threads, k \in Nodes : x \notin frame'[v][k].got
      BY <1>1, <1>2, <1>3, <2>1
    <2>5. \A k \in Nodes : cache'[k] # x
      BY <1>1, <1>3, <2>1
    <2>. QED
      BY <2>2, <2>3, <2>4, <2>5 DEF Alone
  <1>5. CASE <<t, n>> # <<u, m>>
    <2>1. frame[t][n].pc = "store" /\ frame[t][n].out = x
      BY <1>1, <1>5
    <2>2. x \in Instances /\ x # new
      BY <1>1, <1>3, <2>1
    <2>3. Alone(t, n, x)
      BY <2>1, <2>2 DEF HandAlone
    <2>4. \A i \in Instances' : x \notin built'[i].uses
      BY <1>1, <2>3 DEF Alone
    <2>5. ASSUME NEW v \in Threads, NEW k \in Nodes, <<v, k>> # <<t, n>>
          PROVE  frame'[v][k].out # x
      <3>1. CASE <<v, k>> = <<u, m>>
        BY <1>1, <2>2, <3>1
      <3>2. CASE <<v, k>> # <<u, m>>
        BY <1>1, <2>3, <2>5, <3>2 DEF Alone
      <3>. QED
        BY <3>1, <3>2
    <2>6. /\ \A v \in Threads, k \in Nodes : x \notin frame'[v][k].got
          /\ \A k \in Nodes : cache'[k] # x
      BY <1>1, <2>3 DEF Alone
    <2>. QED
      BY <2>4, <2>5, <2>6 DEF Alone
  <1>. QED
    BY <1>4, <1>5

LEMMA HandStore ==
  ASSUME IndInv, HandAlone, NEW u \in Threads, NEW m \in Nodes, Store(u, m)
  PROVE  HandAlone'
  <1>1. /\ built' = built /\ Instances' = Instances
        /\ frame'[u][m].pc = "leave"
        /\ \A v \in Threads, k \in Nodes : <<v, k>> # <<u, m>> => frame'[v][k] = frame[v][k]
        /\ \A v \in Threads, k \in Nodes :
             frame'[v][k].got = frame[v][k].got /\ frame'[v][k].out = frame[v][k].out
        /\ \A k \in Nodes : cache'[k] = IF k = m THEN frame[u][m].out ELSE cache[k]
    BY StoreEffect, StoreKeeps DEF IndInv, Instances
  <1>2. ASSUME NEW t \in Threads, NEW n \in Nodes, NEW x \in Instances,
               frame'[t][n].pc = "store", frame'[t][n].out = x
        PROVE  Alone(t, n, x)'
    <2>1. <<t, n>> # <<u, m>>
      BY <1>1, <1>2
    <2>2. frame[t][n].pc = "store" /\ frame[t][n].out = x
      BY <1>1, <1>2, <2>1
    <2>3. Alone(t, n, x) /\ frame[u][m].out # x
      BY <2>1, <2>2 DEF HandAlone, Alone
    <2>. QED
      BY <1>1, <2>3 DEF Alone
  <1>. QED
    BY <1>1, <1>2 DEF HandAlone

LEMMA HandStep ==
  ASSUME IndInv, Control, WhereOK, HandAlone, [RNext]_allVars
  PROVE  HandAlone'
  <1>1. ASSUME UNCHANGED <<cache, frame, built>> PROVE HandAlone'
    <2>1. Instances' = Instances
      BY <1>1 DEF Instances
    <2>. QED
      BY <1>1, <2>1, HandSame
  <1>2. ASSUME NEW t \in Threads, Inside(t) PROVE HandAlone'
    <2>1. ASSUME NEW n \in Nodes, CloseOne(t, n) PROVE HandAlone'
      <3>1. /\ UNCHANGED <<cache, frame>> /\ Instances' = Instances
            /\ \A i \in Instances : built'[i].uses = built[i].uses
        BY <2>1, CloseOneEffect, CloseOneKeeps DEF IndInv
      <3>. QED
        BY <3>1, HandSame
    <2>2. CASE CloseFinish(t)
      <3>1. /\ UNCHANGED <<built, frame>> /\ Instances' = Instances
            /\ \A n \in Nodes : cache'[n] \in {cache[n], NoInst}
        BY <2>2 DEF CloseFinish, Instances
      <3>. QED
        BY <3>1, HandSame
    <2>. QED
      BY <1>2, <2>1, <2>2, HandSoft, HandConstruct, HandStore, InsideEffect DEF WhereOK
  <1>3. ASSUME NEW t \in Threads, Reuse(t) PROVE HandAlone'
    <2>1. PICK n0, n1 : n0 = <<rec[t].next, Head(rec[t].todo)>>
                          /\ n1 = <<rec[t].old, Head(rec[t].todo)>>
      OBVIOUS
    <2>2. /\ UNCHANGED <<built, frame>> /\ n1 \in Nodes
          /\ \A n \in Nodes : cache'[n] = IF n = n0 /\ cache[n1] # NoInst THEN cache[n1] ELSE cache[n]
      BY <1>3, <2>1, ReuseEffect
    <2>3. \A n \in Nodes : \E m \in Nodes : cache'[n] = cache[m]
      BY <2>2
    <2>4. Instances' = Instances
      BY <2>2 DEF Instances
    <2>. QED
      BY <2>2, <2>3, <2>4, HandSame
  <1>4. ASSUME NEW t \in Threads, Step(t)
        PROVE  UNCHANGED <<cache, frame, built>> \/ Inside(t) \/ Reuse(t)
    BY <1>4 DEF Step, Install, LockAndDiff, Prewarm, Switch, Unlock, Expire, Undo, Return, vars
  <1>5. ASSUME NEW t \in Threads, Call(t) PROVE UNCHANGED <<cache, frame, built>>
    BY <1>5 DEF Call, Current, Use, CallResolve, NewContainer, vars
  <1>6. UNCHANGED allVars => UNCHANGED <<cache, frame, built>>
    BY DEF allVars, vars
  <1>. QED
    BY <1>1, <1>2, <1>3, <1>4, <1>5, <1>6 DEF RNext, Quiet

-----------------------------------------------------------------------------
(***************************************************************************)
(* What the current container has nobody closes.                           *)
(***************************************************************************)
\* What a close goes through was in the cache that it was given.
LEMMA DoomClosing ==
  ASSUME IndInv, Control, NEW u \in Threads, Step(u) \/ Call(u),
         NEW t \in Threads, NEW i \in Instances, NEW n \in Nodes,
         closing'[t].active, n \notin closing'[t].done, closing'[t].todo[n] = i
  PROVE  DoomedBy(t, i)
  <1>1. ASSUME closing'[t].active = closing[t].active, closing'[t].todo = closing[t].todo,
               closing[t].done \subseteq closing'[t].done
        PROVE  DoomedBy(t, i)
    BY <1>1 DEF DoomedBy
  <1>2. CASE closing'[t] = closing[t]
    BY <1>1, <1>2
  <1>3. ASSUME u = t, NEW k, NEW ids, CloseIDsOf(t, k, ids), k \in Made, ids \in Seq(Keys),
               \/ rec[t].pc = "expire" /\ k = rec[t].old /\ ids = rec[t].diff.closedOld
               \/ rec[t].pc = "rollback" /\ k = rec[t].next /\ ids = rec[t].diff.rebuilt
        PROVE  DoomedBy(t, i)
    <2>1. CASE ids = <<>>
      BY <1>2, <1>3, <2>1, CloseIDsOfEffect
    <2>2. CASE ids # <<>>
      <3>1. closing'[t].todo[n] = IF n[1] = k /\ n[2] \in ToSet(ids) THEN cache[n] ELSE NoInst
        BY <1>3, <2>2, CloseIDsOfEffect
      <3>2. i # NoInst /\ n = <<n[1], n[2]>>
        BY InstanceIs, MadeIs DEF IndInv
      <3>3. n[1] = k /\ n[2] \in ToSet(ids) /\ cache[<<k, n[2]>>] = i
        BY <3>1, <3>2
      <3>. QED
        BY <1>3, <3>3 DEF DoomedBy
    <2>. QED
      BY <2>1, <2>2
  <1>4. ASSUME u = t, Expire(t) \/ Undo(t) PROVE DoomedBy(t, i)
    <2>1. rec[t].pc = "expire" \/ rec[t].pc = "rollback"
      BY <1>4 DEF Expire, Undo
    <2>2. /\ rec[t].old \in Made /\ rec[t].next \in Made
          /\ rec[t].diff.closedOld \in Seq(Keys) /\ rec[t].diff.rebuilt \in Seq(Keys)
      BY <2>1, ComparedIs, MadeIs DEF Compared, DiffType
    <2>. QED
      BY <1>3, <1>4, <2>2 DEF Expire, Undo
  <1>5. CASE Inside(u)
    <2>1. CASE u = t
      <3>1. closing'[t] = closing[t]
              \/ /\ closing'[t].active = closing[t].active /\ closing'[t].todo = closing[t].todo
                 /\ closing[t].done \subseteq closing'[t].done
        BY <1>5, <2>1, ClosingEffect
      <3>. QED
        BY <1>1, <1>2, <3>1
    <2>2. CASE u # t
      BY <1>2, <1>5, <2>2, ClosingEffect
    <2>. QED
      BY <2>1, <2>2
  <1>6. ASSUME u # t, Expire(u) \/ Undo(u) PROVE closing'[t] = closing[t]
    <2>1. rec[u].pc = "expire" \/ rec[u].pc = "rollback"
      BY <1>6 DEF Expire, Undo
    <2>2. /\ rec[u].old \in Made /\ rec[u].next \in Made
          /\ rec[u].diff.closedOld \in Seq(Keys) /\ rec[u].diff.rebuilt \in Seq(Keys)
      BY <2>1, ComparedIs, MadeIs DEF Compared, DiffType
    <2>3. CASE Expire(u)
      BY <1>6, <2>2, <2>3, CloseIDsOfEffect DEF Expire
    <2>4. CASE Undo(u)
      BY <1>6, <2>2, <2>4, CloseIDsOfEffect DEF Undo
    <2>. QED
      BY <1>6, <2>3, <2>4
  <1>7. Inside(u) \/ Expire(u) \/ Undo(u) \/ closing' = closing
    BY DEF Step, Call, Install, LockAndDiff, Reuse, Prewarm, Switch, Unlock, Return, Current, Use,
           CallResolve, NewContainer, vars
  <1>. QED
    BY <1>2, <1>4, <1>5, <1>6, <1>7

\* Steps that put nothing into a cache doom nothing, but for the ends of a prewarm.
LEMMA DoomMoves ==
  ASSUME IndInv, Control, Control', NEW u \in Threads, Step(u) \/ Call(u),
         NEW t \in Threads, NEW i \in Instances, DoomedBy(t, i)',
         ~Switch(t), ~Unlock(t),
         \A id \in Keys :
           /\ rec[t].pc = "expire" /\ cache'[<<rec[t].old, id>>] = i
                => cache[<<rec[t].old, id>>] = i
           /\ rec[t].pc = "rollback" /\ cache'[<<rec[t].next, id>>] = i
                => cache[<<rec[t].next, id>>] = i
  PROVE  DoomedBy(t, i)
  <1>1. ASSUME NEW n \in Nodes \ closing'[t].done, closing'[t].active, closing'[t].todo[n] = i
        PROVE  DoomedBy(t, i)
    BY <1>1, DoomClosing
  <1>2. ASSUME rec'[t].pc = "expire", NEW id \in ToSet(rec'[t].diff.closedOld),
               cache'[<<rec'[t].old, id>>] = i
        PROVE  DoomedBy(t, i)
    <2>1. rec[t].pc = "expire" /\ rec'[t].old = rec[t].old /\ rec'[t].diff = rec[t].diff
      BY <1>2, LocalsMove
    <2>2. id \in Keys
      BY <1>2, <2>1, ListsAreKeys DEF Compared
    <2>3. cache[<<rec[t].old, id>>] = i
      BY <1>2, <2>1, <2>2
    <2>. QED
      BY <1>2, <2>1, <2>3 DEF DoomedBy
  <1>3. ASSUME rec'[t].pc = "rollback", NEW id \in ToSet(rec'[t].diff.rebuilt),
               cache'[<<rec'[t].next, id>>] = i
        PROVE  DoomedBy(t, i)
    <2>1. rec[t].pc = "rollback" /\ rec'[t].next = rec[t].next /\ rec'[t].diff = rec[t].diff
      BY <1>3, LocalsMove
    <2>2. id \in Keys
      BY <1>3, <2>1, ListsAreKeys DEF Compared
    <2>3. cache[<<rec[t].next, id>>] = i
      BY <1>3, <2>1, <2>2
    <2>. QED
      BY <1>3, <2>1, <2>3 DEF DoomedBy
  <1>. QED
    BY <1>1, <1>2, <1>3 DEF DoomedBy

\* Another container is kept only before anything is in it.
LEMMA KeptMoves ==
  ASSUME Control, Control', [RNext]_allVars, NEW k \in Made, Kept(k)'
  PROVE  Kept(k) \/ Fresh(k)
  <1>1. CASE UNCHANGED allVars
    BY <1>1 DEF Kept, allVars, rvars
  <1>2. ASSUME NEW u \in Threads, Step(u) \/ Call(u) PROVE Kept(k) \/ Fresh(k)
    <2>1. ASSUME k = current', current' # Nil PROVE Kept(k) \/ Fresh(k)
      <3>1. current' = current \/ Install(u) \/ Switch(u)
        BY <1>2 DEF Step, Call, LockAndDiff, Reuse, Prewarm, Unlock, Expire, Undo, Return,
                    Current, Use, NewContainer, rvars
      <3>2. CASE Install(u)
        BY <2>1, <3>2 DEF Install, Fresh
      <3>3. CASE Switch(u)
        <4>1. rec[u].pc = "warm" /\ current' = rec[u].next
          BY <3>3 DEF Switch, Warmed
        <4>2. mu = u
          BY <4>1 DEF Control, RecOK
        <4>. QED
          BY <2>1, <4>1, <4>2 DEF Kept
      <3>. QED
        BY <2>1, <3>1, <3>2, <3>3 DEF Kept
    <2>2. ASSUME NEW t \in Threads, rec'[t].next = k, mu' = t PROVE Kept(k) \/ Fresh(k)
      <3>1. rec'[t].pc \in {"inject", "warm"}
        BY <2>2 DEF Control, RecOK
      <3>2. rec[t].pc \in {"inject", "warm", "lock"} /\ rec[t].next = k
        BY <1>2, <2>2, <3>1, LocalsMove
      <3>3. rec[t].pc \in {"inject", "warm"} => mu = t
        BY DEF Control, RecOK
      <3>. QED
        BY <3>2, <3>3 DEF Kept, Fresh
    <2>. QED
      BY <1>2, <2>1, <2>2 DEF Kept
  <1>. QED
    BY <1>1, <1>2 DEF RNext, Quiet

LEMMA KeptFrom ==
  ASSUME Control, Control', [RNext]_allVars, FreshOK, KeptOK, Quieter,
         \A i \in Instances : Open(i) /\ ~Doomed(i) => Open(i)',
         \A t \in Threads, k \in Made, i \in Instances :
           Kept(k) /\ Kept(k)' /\ Known(k, i) /\ DoomedBy(t, i)' => Doomed(i)
  PROVE  KeptOK'
  <1>1. ASSUME NEW k \in Made, NEW i \in Instances, Kept(k)', Known(k, i)'
        PROVE  Open(i)' /\ ~Doomed(i)'
    <2>1. Known(k, i)
      BY <1>1, KnownQuieter
    <2>2. Kept(k)
      BY <1>1, <2>1, KeptMoves, FreshKnowsNone
    <2>3. Open(i) /\ ~Doomed(i)
      BY <2>1, <2>2 DEF KeptOK
    <2>4. \A t \in Threads : ~DoomedBy(t, i)'
      BY <1>1, <2>1, <2>2, <2>3
    <2>. QED
      BY <2>3, <2>4 DEF Doomed
  <1>. QED
    BY <1>1 DEF KeptOK, Quieter

\* No close is about to go through a container that is kept.
LEMMA KeptIsNot ==
  ASSUME Control, NEW k \in Made, Kept(k), NEW t \in Threads
  PROVE  /\ rec[t].pc = "expire" => rec[t].old # k
         /\ rec[t].pc = "rollback" => rec[t].next # k
  <1>1. CASE k = current
    BY <1>1 DEF Control, RecOK, Unseen
  <1>2. ASSUME NEW u \in Threads, rec[u].next = k, mu = u
        PROVE  /\ rec[t].pc = "expire" => rec[t].old # k
               /\ rec[t].pc = "rollback" => rec[t].next # k
    <2>1. rec[u].pc \in {"inject", "warm"} /\ RecOK(u)
      BY <1>2 DEF Control, RecOK
    <2>2. rec[t].old # k
      BY <1>2, <2>1 DEF RecOK, Unseen
    <2>3. rec[t].pc = "rollback" => rec[t].next # k
      BY <1>2, <2>1 DEF RecOK
    <2>. QED
      BY <2>2, <2>3
  <1>. QED
    BY <1>1, <1>2 DEF Kept

LEMMA AloneIs ==
  ASSUME NEW t \in Threads, NEW n \in Nodes, NEW x \in Instances, Alone(t, n, x),
         NEW k \in Made, Known(k, x)
  PROVE  k = n[1]
  <1>1. \A j \in Instances : x \notin built[j].uses
    BY DEF Alone
  <1>2. Near(k, x)
    BY <1>1 DEF Known
  <1>. QED
    BY <1>2 DEF Near, Alone

LEMMA KeptStore ==
  ASSUME IndInv, Control, HandAlone, NEW u \in Threads, NEW m \in Nodes, Store(u, m),
         NEW t \in Threads, NEW i \in Instances, NEW k \in Made, Kept(k), Known(k, i),
         NEW id \in Keys
  PROVE  /\ rec[t].pc = "expire" /\ cache'[<<rec[t].old, id>>] = i
              => cache[<<rec[t].old, id>>] = i
         /\ rec[t].pc = "rollback" /\ cache'[<<rec[t].next, id>>] = i
              => cache[<<rec[t].next, id>>] = i
  <1>1. PICK x : x = frame[u][m].out
    OBVIOUS
  <1>2. /\ frame[u][m].pc = "store" /\ x \in Instances
        /\ \A n \in Nodes : cache'[n] = IF n = m THEN x ELSE cache[n]
    BY <1>1, StoreEffect
  <1>3. Alone(u, m, x)
    BY <1>1, <1>2 DEF HandAlone
  <1>4. i = x => k = m[1]
    BY <1>3, AloneIs
  <1>5. /\ rec[t].pc = "expire" => rec[t].old \in Made /\ rec[t].old # k
        /\ rec[t].pc = "rollback" => rec[t].next \in Made /\ rec[t].next # k
    BY KeptIsNot, ComparedIs, MadeIs DEF Compared
  <1>6. \A c \in Made : c # k /\ cache'[<<c, id>>] = i => cache[<<c, id>>] = i
    <2>1. \A c \in Made : <<c, id>> \in Nodes /\ <<c, id>>[1] = c
      BY MadeIs
    <2>. QED
      BY <1>2, <1>4, <2>1
  <1>. QED
    BY <1>5, <1>6

LEMMA KeptInside ==
  ASSUME IndInv, Control, Control', WhereOK, FreshOK, HandAlone, KeptOK, [RNext]_allVars, Quieter,
         NEW u \in Threads, Inside(u), UNCHANGED rvars
  PROVE  KeptOK'
  <1>1. \A t \in Threads : ~Switch(t) /\ ~Unlock(t)
    <2>1. \A t \in Threads : Switch(t) => rec[t].pc = "warm" /\ rec'[t].pc = "expire"
      BY OnePC DEF Switch, Warmed, RecPCs
    <2>2. \A t \in Threads : Unlock(t) => rec[t].pc = "warm" /\ rec'[t].pc = "rollback"
      BY OnePC DEF Unlock, Warmed, RecPCs
    <2>. QED
      BY <2>1, <2>2 DEF rvars
  <1>2. ASSUME NEW i \in Instances, Open(i), ~Doomed(i) PROVE Open(i)'
    <2>1. ASSUME NEW n \in Nodes, CloseOne(u, n) PROVE Open(i)'
      <3>1. /\ closing[u].active /\ n \notin closing[u].done
            /\ built'[i].closed =
                 IF i = closing[u].todo[n] THEN built[i].closed + 1 ELSE built[i].closed
        BY <2>1, CloseOneEffect DEF IndInv, Pending
      <3>2. i # closing[u].todo[n]
        BY <1>2, <3>1 DEF Doomed, DoomedBy
      <3>. QED
        BY <1>2, <3>1, <3>2 DEF Open
    <2>2. ASSUME NEW n \in Nodes, Construct(u, n) PROVE Open(i)'
      BY <1>2, <2>2, ConstructEffect DEF IndInv, Open
    <2>3. SoftStep => built' = built
      BY DEF SoftStep, QuietStep
    <2>4. \A n \in Nodes : Store(u, n) => built' = built
      BY DEF Store
    <2>5. CloseFinish(u) => built' = built
      BY DEF CloseFinish
    <2>. QED
      BY <1>2, <2>1, <2>2, <2>3, <2>4, <2>5, InsideEffect DEF Open, WhereOK
  <1>3. ASSUME NEW t \in Threads, NEW k \in Made, NEW i \in Instances, Kept(k), Known(k, i),
               DoomedBy(t, i)'
        PROVE  Doomed(i)
    <2>1. ASSUME NEW id \in Keys
          PROVE  /\ rec[t].pc = "expire" /\ cache'[<<rec[t].old, id>>] = i
                      => cache[<<rec[t].old, id>>] = i
                 /\ rec[t].pc = "rollback" /\ cache'[<<rec[t].next, id>>] = i
                      => cache[<<rec[t].next, id>>] = i
      <3>1. CASE \E n \in Nodes : Store(u, n)
        BY <1>3, <3>1, KeptStore
      <3>2. CASE \A n \in Nodes : cache'[n] \in {cache[n], NoInst}
        <4>1. /\ rec[t].pc = "expire" => <<rec[t].old, id>> \in Nodes
              /\ rec[t].pc = "rollback" => <<rec[t].next, id>> \in Nodes
          BY ComparedIs, MadeIs DEF Compared
        <4>2. i # NoInst
          BY InstanceIs DEF IndInv
        <4>. QED
          BY <3>2, <4>1, <4>2
      <3>3. SoftStep => cache' = cache
        BY DEF SoftStep, QuietStep
      <3>4. \A n \in Nodes : Construct(u, n) \/ CloseOne(u, n) => cache' = cache
        BY DEF Construct, CloseOne
      <3>5. CloseFinish(u) => \A n \in Nodes : cache'[n] \in {cache[n], NoInst}
        BY DEF CloseFinish
      <3>. QED
        BY <3>1, <3>2, <3>3, <3>4, <3>5, InsideEffect DEF WhereOK
    <2>2. Step(u)
      BY DEF Step
    <2>3. DoomedBy(t, i)
      BY <1>1, <1>3, <2>1, <2>2, DoomMoves
    <2>. QED
      BY <2>3 DEF Doomed
  <1>. QED
    BY <1>2, <1>3, KeptFrom

\* What has just been built nobody can be closing.
LEMMA DoomConstruct ==
  ASSUME IndInv, Control, NEW u \in Threads, NEW m \in Nodes, Construct(u, m), UNCHANGED rvars,
         NEW t \in Threads
  PROVE  /\ \A i : DoomedBy(t, i)' => DoomedBy(t, i)
         /\ ~DoomedBy(t, Len(built) + 1)
  <1>0. PICK new : new = Len(built) + 1
    OBVIOUS
  <1>1. UNCHANGED <<cache, closing, rec>> /\ new \in Nat \ Instances /\ new # NoInst /\ new # ErrResult
    <2>1. UNCHANGED <<cache, closing, rec>> /\ new \notin Instances
      BY <1>0, ConstructEffect DEF IndInv, rvars
    <2>. QED
      BY <1>0, <2>1 DEF IndInv, TypeOK, NoInst, ErrResult
  <1>2. ASSUME NEW i, DoomedBy(t, i)' PROVE DoomedBy(t, i)
    BY <1>1, <1>2 DEF DoomedBy
  <1>3. \A n \in Nodes : closing[t].todo[n] # new
    <2>1. closing[t] \in ClosingType
      BY DEF IndInv, TypeOK
    <2>. QED
      BY <1>1, <2>1 DEF ClosingType
  <1>4. \A n \in Nodes : cache[n] # new
    BY <1>1, NewIsNowhere
  <1>5. /\ rec[t].pc = "expire" => \A id \in ToSet(rec[t].diff.closedOld) :
                                     <<rec[t].old, id>> \in Nodes
        /\ rec[t].pc = "rollback" => \A id \in ToSet(rec[t].diff.rebuilt) :
                                       <<rec[t].next, id>> \in Nodes
    BY ComparedIs, MadeIs DEF Compared, DiffType, ToSet
  <1>6. ~DoomedBy(t, new)
    BY <1>3, <1>4, <1>5 DEF DoomedBy
  <1>. QED
    BY <1>0, <1>2, <1>6

LEMMA KeptConstruct ==
  ASSUME IndInv, Control, Control', WhereOK, KeptOK, NEW u \in Threads, NEW m \in Nodes,
         Construct(u, m), UNCHANGED rvars
  PROVE  KeptOK'
  <1>0. PICK new : new = Len(built) + 1
    OBVIOUS
  <1>1. /\ UNCHANGED cache /\ mu' = mu /\ current' = current /\ rec' = rec
        /\ Instances' = Instances \union {new} /\ new \notin Instances
        /\ \A i \in Instances : built'[i] = built[i]
        /\ built'[new].closed = 0
    BY <1>0, ConstructEffect DEF IndInv, rvars
  <1>2. \A k \in Made, i \in Instances : Known(k, i)' => Known(k, i)
    BY <1>0, <1>1, NearConstruct DEF IndInv, TypeOK, NoInst, ErrResult
  <1>3. \A k : Kept(k)' => Kept(k)
    BY <1>1 DEF Kept
  <1>4. \A t \in Threads : ~DoomedBy(t, new) /\ \A i : DoomedBy(t, i)' => DoomedBy(t, i)
    BY <1>0, DoomConstruct
  <1>5. ASSUME NEW k \in Made, NEW i \in Instances', Kept(k)', Known(k, i)'
        PROVE  Open(i)' /\ ~Doomed(i)'
    <2>1. CASE i = new
      BY <1>1, <1>4, <2>1 DEF Open, Doomed
    <2>2. CASE i \in Instances
      <3>1. Open(i) /\ ~Doomed(i)
        BY <1>2, <1>3, <1>5, <2>2 DEF KeptOK
      <3>. QED
        BY <1>1, <1>4, <2>2, <3>1 DEF Open, Doomed
    <2>. QED
      BY <1>1, <2>1, <2>2
  <1>. QED
    BY <1>5 DEF KeptOK

\* What is reused is the current container's, and so open.
LEMMA KeptReuse ==
  ASSUME IndInv, Control, Control', KeptOK, NEW u \in Threads, Reuse(u)
  PROVE  KeptOK'
  <1>0. PICK k0, j, o : /\ k0 = rec[u].next /\ o = rec[u].old
                        /\ j = cache[<<rec[u].old, Head(rec[u].todo)>>]
    OBVIOUS
  <1>1. /\ UNCHANGED <<built, closing, mu, current>> /\ Instances' = Instances
        /\ rec[u].pc = "inject" /\ Compared(u) /\ <<o, Head(rec[u].todo)>> \in Nodes
        /\ \A n \in Nodes : n[1] # k0 => cache'[n] = cache[n]
        /\ rec'[u].pc = "inject" /\ rec'[u].next = rec[u].next
        /\ \A v \in Threads \ {u} : rec'[v] = rec[v]
    <2>1. /\ UNCHANGED <<built, closing, mu, current>>
          /\ rec[u].pc = "inject" /\ Compared(u) /\ <<o, Head(rec[u].todo)>> \in Nodes
          /\ \A n \in Nodes : cache'[n] = IF n = <<k0, Head(rec[u].todo)>> /\ j # NoInst
                                            THEN j ELSE cache[n]
          /\ rec'[u].pc = "inject" /\ rec'[u].next = rec[u].next
          /\ \A v \in Threads \ {u} : rec'[v] = rec[v]
      BY <1>0, ReuseEffect
    <2>2. \A n \in Nodes : n[1] # k0 => cache'[n] = cache[n]
      BY <2>1
    <2>3. Instances' = Instances
      BY <2>1 DEF Instances
    <2>. QED
      BY <2>1, <2>2, <2>3
  <1>2. \A k \in Made, i \in Instances :
          Known(k, i)' => \/ Known(k, i)
                          \/ k = k0 /\ j \in Instances /\ (i = j \/ i \in built[j].uses)
    BY <1>0, NearReuse
  <1>3. \A k : Kept(k)' => Kept(k)
    BY <1>1 DEF Kept
  <1>4. o \in Made /\ o = current /\ current # Nil
    <2>1. o \in Made /\ o \in 1 .. Len(conf)
      BY <1>0, <1>1, ComparedIs, MadeIs
    <2>2. o = current
      BY <1>0, <1>1 DEF Control, RecOK
    <2>. QED
      BY <2>1, <2>2 DEF Nil
  <1>5. \A i \in Instances : j \in Instances /\ (i = j \/ i \in built[j].uses) => Known(o, i)
    BY <1>0, <1>1 DEF Known, Near
  <1>6. ASSUME NEW k \in Made, NEW i \in Instances, Kept(k)', Known(k, i)'
        PROVE  Open(i) /\ ~Doomed(i)
    BY <1>2, <1>3, <1>4, <1>5, <1>6 DEF KeptOK, Kept
  <1>7. ASSUME NEW t \in Threads, NEW i \in Instances, DoomedBy(t, i)' PROVE DoomedBy(t, i)
    <2>1. ~Switch(t) /\ ~Unlock(t)
      <3>1. Switch(t) \/ Unlock(t) => rec[t].pc = "warm"
        BY DEF Switch, Unlock, Warmed
      <3>2. rec[t].pc = "warm" => mu = t
        BY DEF Control, RecOK
      <3>3. mu = u
        BY <1>1 DEF Control, RecOK
      <3>. QED
        BY <1>1, <3>1, <3>2, <3>3
    <2>2. Unseen(u)
      BY <1>1 DEF Unseen
    <2>3. /\ rec[t].pc = "expire" => rec[t].old \in Made /\ rec[t].old # k0
          /\ rec[t].pc = "rollback" => rec[t].next \in Made /\ rec[t].next # k0
      <3>1. rec[t].old # k0
        BY <1>0, <2>2 DEF Control, RecOK
      <3>2. rec[t].pc = "rollback" => rec[t].next # k0
        BY <1>0, <1>1 DEF Control, RecOK
      <3>3. rec[t].pc \in {"expire", "rollback"} => rec[t].old \in Made /\ rec[t].next \in Made
        BY ComparedIs, MadeIs DEF Compared
      <3>. QED
        BY <3>1, <3>2, <3>3
    <2>4. \A c \in Made, id \in Keys : c # k0 => cache'[<<c, id>>] = cache[<<c, id>>]
      <3>1. \A c \in Made, id \in Keys : <<c, id>> \in Nodes /\ <<c, id>>[1] = c
        BY MadeIs
      <3>. QED
        BY <1>1, <3>1
    <2>5. Step(u)
      BY DEF Step
    <2>. QED
      BY <1>7, <2>1, <2>3, <2>4, <2>5, DoomMoves
  <1>. QED
    BY <1>1, <1>6, <1>7 DEF KeptOK, Open, Doomed

\* What a container that nobody works in has is named in its specs.
LEMMA NamedIs ==
  ASSUME OneLineSources, IndInv, Control, OriginOK, BlankOK, NEW k \in Made, k \in 1 .. Len(conf),
         \A t \in Threads, n \in Nodes : n[1] = k => frame[t][n].pc = "none",
         NEW i \in Instances, Known(k, i)
  PROVE  built[i].node[2] \in DOMAIN conf[k].spec
  <1>1. ASSUME NEW j \in Instances, Near(k, j)
        PROVE  \E n \in Nodes : n[1] = k /\ From(j, n)
    <2>1. \A t \in Threads, n \in Nodes : n[1] = k => frame[t][n].out # j /\ j \notin frame[t][n].got
      BY InstanceIs DEF BlankOK, IndInv
    <2>2. PICK n \in Nodes : n[1] = k /\ cache[n] = j
      BY <1>1, <2>1 DEF Near
    <2>. QED
      BY <2>2 DEF OriginOK
  <1>2. CASE Near(k, i)
    BY <1>1, <1>2 DEF From, Specified
  <1>3. ASSUME NEW j \in Instances, Near(k, j), i \in built[j].uses
        PROVE  built[i].node[2] \in DOMAIN conf[k].spec
    <2>1. PICK n \in Nodes : n[1] = k /\ From(j, n)
      BY <1>1, <1>3
    <2>2. PICK m \in Nodes : /\ built[j].node = m /\ Specified(m) /\ Specified(n)
                             /\ HashSpec(SpecOf(m)) = HashSpec(SpecOf(n))
      BY <2>1 DEF From
    <2>3. built[i].node[2] \in ToSet(SpecOf(m).deps)
      BY <1>3, <2>2 DEF OriginOK, For
    <2>4. \A x \in Nodes : Specified(x) => /\ IsCompiled(conf[x[1]])
                                           /\ SpecOf(x).deps \in Seq(Keys)
                                           /\ OneLine(SpecOf(x))
      BY SpecIs
    <2>5. ToSet(SpecOf(m).deps) = ToSet(SpecOf(n).deps)
      BY <2>2, <2>4, SameHash
    <2>6. ToSet(SpecOf(n).deps) \subseteq DOMAIN conf[n[1]].spec
      BY <2>2, <2>4, DependenciesAreNodes DEF Specified, SpecOf
    <2>. QED
      BY <2>1, <2>3, <2>5, <2>6
  <1>. QED
    BY <1>2, <1>3 DEF Known

\* What is closed in the old container the new one does not have: the new one has
\* its own of what is rebuilt, and what is not rebuilt is reused or not its own.
LEMMA NotExpired ==
  ASSUME OneLineSources, IndInv, Control, HomeOK, OriginOK, BlankOK, OwnOK,
         NEW t \in Threads, rec[t].pc = "warm", Idle(t), NEW i \in Instances, Known(rec[t].next, i),
         NEW id \in ToSet(rec[t].diff.closedOld), cache[<<rec[t].old, id>>] = i
  PROVE  FALSE
  <1>1. PICK k, o, R : k = rec[t].next /\ o = rec[t].old /\ R = ToSet(rec[t].diff.rebuilt)
    OBVIOUS
  <1>2. Compared(t) /\ Unseen(t)
    BY DEF Compared, Unseen
  <1>3. /\ k \in 1 .. Len(conf) /\ o \in 1 .. Len(conf) /\ k # o /\ k \in Made /\ o \in Made
        /\ id \in Keys /\ id \notin ToSet(rec[t].diff.reused)
        /\ DOMAIN conf[k].spec \subseteq R \union ToSet(rec[t].diff.reused)
    <2>1. k \in Made /\ o \in Made
      BY <1>1, <1>2, ComparedIs, MadeIs
    <2>2. id \in Keys
      BY <1>2, ListsAreKeys
    <2>3. /\ k \in 1 .. Len(conf) /\ o \in 1 .. Len(conf) /\ k # o
          /\ R \union ToSet(rec[t].diff.reused) = DOMAIN conf[k].spec
          /\ ToSet(rec[t].diff.closedOld) = DOMAIN conf[o].spec \ ToSet(rec[t].diff.reused)
      BY <1>1, <1>2, ComparedIs
    <2>. QED
      BY <2>1, <2>2, <2>3
  <1>4. <<o, id>> \in Nodes
    BY <1>3, MadeIs
  <1>5. built[i].node[2] = id
    BY <1>1, <1>4 DEF OriginOK, From
  <1>6. \A u \in Threads, n \in Nodes : n[1] = k => frame[u][n].pc = "none"
    <2>1. \A n \in Nodes : frame[t][n].pc = "none"
      BY DEF Idle, IndInv, PathOK, ToSet
    <2>. QED
      BY <1>1, <1>2, <2>1, OnlyOwnFrames
  <1>7. id \in DOMAIN conf[k].spec
    BY <1>1, <1>3, <1>5, <1>6, NamedIs
  <1>8. id \in R
    BY <1>3, <1>7
  <1>9. built[i].node[1] = k
    BY <1>1, <1>3, <1>5, <1>8 DEF OwnOK, OwnAt
  <1>10. Known(o, i)
    BY <1>1, <1>4 DEF Known, Near
  <1>. QED
    BY <1>1, <1>2, <1>3, <1>9, <1>10 DEF OwnOK, OwnAt

\* What a rollback closes the current container does not have.
LEMMA NotUndone ==
  ASSUME Control, OriginOK, OwnOK, NEW t \in Threads, rec[t].pc = "warm", current # Nil,
         NEW i \in Instances, Known(current, i),
         NEW id \in ToSet(rec[t].diff.rebuilt), cache[<<rec[t].next, id>>] = i
  PROVE  FALSE
  <1>1. PICK k : k = rec[t].next
    OBVIOUS
  <1>2. Compared(t) /\ Unseen(t)
    BY DEF Compared, Unseen
  <1>3. k \in Made /\ current \in Made /\ k # current
    <2>1. k \in Made
      BY <1>1, <1>2, ComparedIs, MadeIs
    <2>2. current \in Made
      BY MadeIs DEF Control, Nil
    <2>. QED
      BY <1>1, <1>2, <2>1, <2>2 DEF Control, RecOK
  <1>4. <<k, id>> \in Nodes
    BY <1>1, <1>2, RebuiltIsNodes
  <1>5. built[i].node[2] = id
    BY <1>1, <1>4 DEF OriginOK, From
  <1>6. Known(k, i)
    BY <1>1, <1>4 DEF Known, Near
  <1>7. built[i].node[1] = k
    BY <1>1, <1>3, <1>5, <1>6 DEF OwnOK, OwnAt
  <1>. QED
    BY <1>1, <1>2, <1>3, <1>7 DEF OwnOK, OwnAt

\* The ends of a prewarm, which leave the containers as they are.
LEMMA KeptEnd ==
  ASSUME OneLineSources, IndInv, Control, Control', HomeOK, OriginOK, BlankOK, OwnOK,
         FreshOK, KeptOK, [RNext]_allVars, NEW u \in Threads, Switch(u) \/ Unlock(u)
  PROVE  KeptOK'
  <1>1. /\ UNCHANGED <<cache, frame, built, closing>> /\ Instances' = Instances
        /\ rec[u].pc = "warm" /\ Idle(u) /\ mu = u /\ mu' = None
        /\ rec'[u].next = rec[u].next /\ rec'[u].old = rec[u].old /\ rec'[u].diff = rec[u].diff
        /\ \/ Switch(u) /\ rec'[u].pc = "expire" /\ current' = rec[u].next
           \/ Unlock(u) /\ rec'[u].pc = "rollback" /\ current' = current
    <2>1. /\ UNCHANGED <<cache, frame, built, closing>>
          /\ rec[u].pc = "warm" /\ Idle(u) /\ mu' = None
      BY DEF Switch, Unlock, Warmed, vars
    <2>2. mu = u
      BY <2>1 DEF Control, RecOK
    <2>3. \E p \in {"expire", "rollback"} :
            /\ rec' = [rec EXCEPT ![u].pc = p]
            /\ \/ Switch(u) /\ p = "expire" /\ current' = rec[u].next
               \/ Unlock(u) /\ p = "rollback" /\ current' = current
      BY DEF Switch, Unlock
    <2>4. {"expire", "rollback"} \subseteq RecPCs
      BY DEF RecPCs
    <2>. QED
      BY <2>1, <2>2, <2>3, <2>4, OnePC DEF Instances
  <1>2. Quieter
    BY <1>1, NearEmptied
  <1>3. \A i \in Instances : Open(i) => Open(i)'
    BY <1>1 DEF Open
  <1>4. None \notin Threads
    BY RolesAssumption
  <1>5. ASSUME NEW t \in Threads, NEW k \in Made, NEW i \in Instances, Kept(k)', Known(k, i),
               DoomedBy(t, i)'
        PROVE  Doomed(i)
    <2>1. k = current' /\ current' # Nil
      BY <1>1, <1>4, <1>5 DEF Kept
    <2>2. CASE t # u
      <3>1. ~Switch(t) /\ ~Unlock(t)
        <4>1. Switch(t) \/ Unlock(t) => rec[t].pc = "warm"
          BY DEF Switch, Unlock, Warmed
        <4>2. rec[t].pc = "warm" => mu = t
          BY DEF Control, RecOK
        <4>. QED
          BY <1>1, <2>2, <4>1, <4>2
      <3>2. Step(u)
        BY DEF Step
      <3>3. DoomedBy(t, i)
        BY <1>1, <1>5, <3>1, <3>2, DoomMoves
      <3>. QED
        BY <3>3 DEF Doomed
    <2>3. ASSUME t = u, NEW n \in Nodes \ closing'[t].done, closing'[t].active,
                 closing'[t].todo[n] = i
          PROVE  Doomed(i)
      <3>1. closing[t].active /\ closing[t].todo[n] = i /\ n \notin closing[t].done
        BY <1>1, <2>3
      <3>. QED
        BY <3>1 DEF Doomed, DoomedBy
    <2>4. ASSUME t = u, rec'[t].pc = "expire", NEW id \in ToSet(rec'[t].diff.closedOld),
                 cache'[<<rec'[t].old, id>>] = i
          PROVE  FALSE
      <3>1. k = rec[u].next
        BY <1>1, <2>1, <2>4
      <3>2. id \in ToSet(rec[u].diff.closedOld) /\ cache[<<rec[u].old, id>>] = i
        BY <1>1, <2>4
      <3>. QED
        BY <1>1, <1>5, <3>1, <3>2, NotExpired
    <2>5. ASSUME t = u, rec'[t].pc = "rollback", NEW id \in ToSet(rec'[t].diff.rebuilt),
                 cache'[<<rec'[t].next, id>>] = i
          PROVE  FALSE
      <3>1. k = current /\ current # Nil
        BY <1>1, <2>1, <2>5
      <3>2. id \in ToSet(rec[u].diff.rebuilt) /\ cache[<<rec[u].next, id>>] = i
        BY <1>1, <2>5
      <3>. QED
        BY <1>1, <1>5, <3>1, <3>2, NotUndone
    <2>. QED
      BY <1>5, <2>2, <2>3, <2>4, <2>5 DEF DoomedBy
  <1>. QED
    BY <1>2, <1>3, <1>5, KeptFrom

LEMMA KeptStep ==
  ASSUME OneLineSources, Reached, DoomOK, Control', [RNext]_allVars
  PROVE  KeptOK'
  <1>0. /\ IndInv /\ Control /\ WhereOK /\ HomeOK /\ OriginOK
        /\ FreshOK /\ BlankOK /\ HandAlone /\ OwnOK /\ KeptOK
    BY DEF Reached, WhereOK, DoomOK
  <1>1. ASSUME NEW u \in Threads, Step(u) \/ Call(u), UNCHANGED <<cache, frame, built>>,
               ~Switch(u), ~Unlock(u)
        PROVE  KeptOK'
    <2>1. Instances' = Instances
      BY <1>1 DEF Instances
    <2>2. Quieter
      BY <1>0, <1>1, <2>1, NearEmptied
    <2>3. ASSUME NEW t \in Threads, NEW i \in Instances, DoomedBy(t, i)' PROVE Doomed(i)
      <3>1. CASE Switch(t) \/ Unlock(t)
        <4>1. rec[t].pc = "warm" /\ rec'[t].pc # "warm"
          BY <1>0, <3>1, OnePC DEF Switch, Unlock, Warmed, RecPCs
        <4>2. u = t
          BY <1>0, <1>1, <4>1, OthersLocals
        <4>. QED
          BY <1>1, <3>1, <4>2
      <3>2. CASE ~Switch(t) /\ ~Unlock(t)
        <4>1. DoomedBy(t, i)
          BY <1>0, <1>1, <2>3, <3>2, DoomMoves
        <4>. QED
          BY <4>1 DEF Doomed
      <3>. QED
        BY <3>1, <3>2
    <2>4. \A i \in Instances : Open(i) => Open(i)'
      BY <1>1 DEF Open
    <2>. QED
      BY <1>0, <2>2, <2>3, <2>4, KeptFrom
  <1>2. CASE UNCHANGED allVars
    <2>1. UNCHANGED <<cache, frame, built, closing, rec>> /\ Instances' = Instances
      BY <1>2 DEF allVars, vars, rvars, Instances
    <2>2. Quieter
      BY <1>0, <2>1, NearEmptied
    <2>3. \A t \in Threads, i \in Instances : DoomedBy(t, i)' => DoomedBy(t, i)
      BY <2>1 DEF DoomedBy
    <2>4. \A i \in Instances : Open(i) => Open(i)'
      BY <2>1 DEF Open
    <2>. QED
      BY <1>0, <2>2, <2>3, <2>4, KeptFrom DEF Doomed
  <1>3. ASSUME NEW u \in Threads, Step(u) PROVE KeptOK'
    <2>1. CASE Inside(u) /\ UNCHANGED rvars
      <3>1. ASSUME NEW n \in Nodes, Construct(u, n) PROVE KeptOK'
        BY <1>0, <2>1, <3>1, KeptConstruct
      <3>2. CASE Quieter
        BY <1>0, <2>1, <3>2, KeptInside
      <3>. QED
        BY <1>0, <2>1, <3>1, <3>2, NearInside
    <2>2. CASE Reuse(u)
      BY <1>0, <2>2, KeptReuse
    <2>3. CASE Switch(u) \/ Unlock(u)
      BY <1>0, <2>3, KeptEnd
    <2>4. CASE /\ Install(u) \/ LockAndDiff(u) \/ Prewarm(u) \/ Expire(u) \/ Undo(u) \/ Return(u)
               /\ ~Switch(u) /\ ~Unlock(u)
      <3>1. UNCHANGED <<cache, frame, built>>
        BY <2>4 DEF Install, LockAndDiff, Prewarm, Expire, Undo, Return, vars
      <3>. QED
        BY <1>1, <1>3, <2>4, <3>1
    <2>. QED
      BY <1>3, <2>1, <2>2, <2>3, <2>4 DEF Step
  <1>4. ASSUME NEW u \in Threads, Call(u) PROVE KeptOK'
    <2>1. UNCHANGED <<cache, frame, built>>
      BY <1>4 DEF Call, Current, Use, CallResolve, NewContainer, vars
    <2>2. CASE Switch(u) \/ Unlock(u)
      BY <1>0, <2>2, KeptEnd
    <2>. QED
      BY <1>1, <1>4, <2>1, <2>2
  <1>. QED
    BY <1>2, <1>3, <1>4 DEF RNext, Quiet

LEMMA DoomStep ==
  ASSUME OneLineSources
  PROVE  Reached /\ DoomOK /\ [RNext]_allVars => Reached' /\ DoomOK'
  <1>. SUFFICES ASSUME Reached, DoomOK, [RNext]_allVars PROVE Reached' /\ DoomOK'
    OBVIOUS
  <1>1. Reached' /\ Control'
    BY ReachedStep DEF Reached
  <1>2. /\ IndInv /\ Control /\ WhereOK /\ HomeOK /\ OriginOK
        /\ FreshOK /\ BlankOK /\ HandAlone /\ OwnOK
    BY DEF Reached, WhereOK, DoomOK
  <1>3. FreshOK' /\ BlankOK' /\ HandAlone' /\ OwnOK'
    BY <1>1, <1>2, FreshStep, BlankStep, HandStep, OwnStep
  <1>4. KeptOK'
    BY <1>1, KeptStep
  <1>. QED
    BY <1>1, <1>3, <1>4 DEF DoomOK

LEMMA InitDoom == RInit => DoomOK
  <1>. SUFFICES ASSUME RInit PROVE DoomOK
    OBVIOUS
  <1>1. Instances = {}
    BY DEF RInit, Init, Instances
  <1>2. BlankOK
    BY EnteredIs DEF RInit, Init, BlankOK
  <1>. QED
    BY <1>1, <1>2 DEF DoomOK, FreshOK, HandAlone, OwnOK, OwnAt, KeptOK

\* Whatever is reused, rolled back or expired around it, and by however many
\* goroutines at a time: what the current container has, or is about to return, is
\* open, and so is what that holds (reconciler.go:98-119).  No close under way or
\* certain to come goes through an instance that the current container knows.  That
\* the dependencies of a reused node are reused too needs options of one line: a
\* second line may pass for a dependency in the hash (reconciler.go:178-180).
THEOREM CurrentStaysLive ==
  ASSUME OneLineSources
  PROVE  RSpec => []CurrentIsLive
  <1>1. Reached /\ DoomOK => CurrentIsLive
    <2> SUFFICES ASSUME Reached, DoomOK, current # Nil, NEW id \in Keys
                 PROVE  LET n == <<current, id>> IN
                        /\ cache[n] # NoInst => Live(cache[n])
                        /\ \A t \in Threads :
                             frame[t][n].pc = "return" /\ IsInst(frame[t][n].out)
                               => Live(frame[t][n].out)
      BY DEF CurrentIsLive
    <2>1. PICK n : n = <<current, id>>
      OBVIOUS
    <2>2. n \in Nodes /\ n[1] = current /\ current \in Made
      BY <2>1, MadeIs DEF Reached, Control, Nil
    <2>3. ASSUME NEW i \in Instances, Near(current, i) PROVE Live(i)
      <3>1. built[i].uses \subseteq Instances
        BY InstanceIs DEF Reached, IndInv
      <3>2. Known(current, i) /\ \A j \in built[i].uses : j \in Instances /\ Known(current, j)
        BY <2>3, <3>1 DEF Known
      <3>3. Kept(current)
        BY DEF Kept
      <3>. QED
        BY <2>2, <3>2, <3>3 DEF DoomOK, KeptOK, Live
    <2>4. cache[n] # NoInst => cache[n] \in Instances
      BY <2>2 DEF Reached, IndInv, TypeOK
    <2>5. \A t \in Threads : IsInst(frame[t][n].out) => frame[t][n].out \in Instances
      <3>1. \A t \in Threads : frame[t][n] \in FrameType
        BY <2>2 DEF Reached, IndInv, TypeOK
      <3>. QED
        BY <3>1 DEF FrameType, Results, IsInst, NoInst, ErrResult
    <2>6. /\ cache[n] # NoInst => Live(cache[n])
          /\ \A t \in Threads : IsInst(frame[t][n].out) => Live(frame[t][n].out)
      BY <2>2, <2>3, <2>4, <2>5 DEF Near
    <2>. QED
      BY <2>1, <2>6
  <1>2. Reached /\ DoomOK /\ [RNext]_allVars => Reached' /\ DoomOK'
    BY DoomStep
  <1>. QED
    BY <1>1, <1>2, InitReached, InitDoom, PTL DEF RSpec

-----------------------------------------------------------------------------
(***************************************************************************)
(* No close hook runs twice on one instance.                               *)
(***************************************************************************)
\* Two closes of old containers are of different ones.
ApartOK ==
  \A t, u \in Threads :
    t # u /\ {rec[t].pc, rec[u].pc} \subseteq {"expire", "closing"} => rec[t].old # rec[u].old

\* Nobody is about to store instance i.
Stored(i) == \A t \in Threads, n \in Nodes : frame[t][n].pc = "store" => frame[t][n].out # i

\* What a close goes through was stored, and in the place of a node of its name.
TodoOK ==
  \A t \in Threads, n \in Nodes, i \in Instances :
    closing[t].active /\ closing[t].todo[n] = i => built[i].node[2] = n[2] /\ Stored(i)

\* What is still to be closed is open, and one thread is to close it.
DueOK ==
  /\ \A t \in Threads, i \in Instances : DoomedBy(t, i) => Open(i)
  /\ \A t, u \in Threads, i \in Instances : DoomedBy(t, i) /\ DoomedBy(u, i) => t = u

OnceOK == ApartOK /\ TodoOK /\ HandOpen /\ DueOK /\ ClosedOnce

LEMMA ApartStep ==
  ASSUME Control, Control', ApartOK, [RNext]_allVars
  PROVE  ApartOK'
  <1>1. CASE UNCHANGED allVars
    BY <1>1 DEF ApartOK, allVars, rvars
  <1>2. ASSUME NEW v \in Threads, Step(v) \/ Call(v) PROVE ApartOK'
    <2>1. ASSUME NEW t \in Threads, rec'[t].pc \in {"expire", "closing"}
          PROVE  rec'[t].old = rec[t].old /\ rec[t].pc \in {"warm", "expire", "closing"}
      BY <1>2, <2>1, LocalsMove DEF Expire
    <2>2. \A t \in Threads : rec[t].pc = "warm" => mu = t /\ rec[t].old = current
      BY DEF Control, RecOK
    <2>3. \A t \in Threads : rec[t].pc \in {"expire", "closing"} => rec[t].old # current
      BY DEF Control, RecOK
    <2>4. ASSUME NEW t \in Threads, NEW u \in Threads, t # u,
                 rec'[t].pc \in {"expire", "closing"}, rec'[u].pc \in {"expire", "closing"}
          PROVE  rec'[t].old # rec'[u].old
      <3>1. /\ rec'[t].old = rec[t].old /\ rec[t].pc \in {"warm", "expire", "closing"}
            /\ rec'[u].old = rec[u].old /\ rec[u].pc \in {"warm", "expire", "closing"}
        BY <2>1, <2>4
      <3>2. CASE rec[t].pc = "warm" \/ rec[u].pc = "warm"
        BY <2>2, <2>3, <2>4, <3>1, <3>2
      <3>3. CASE rec[t].pc # "warm" /\ rec[u].pc # "warm"
        <4>1. {rec[t].pc, rec[u].pc} \subseteq {"expire", "closing"}
          BY <3>1, <3>3
        <4>. QED
          BY <2>4, <3>1, <4>1 DEF ApartOK
      <3>. QED
        BY <3>2, <3>3
    <2>. QED
      BY <2>4 DEF ApartOK
  <1>. QED
    BY <1>1, <1>2 DEF RNext, Quiet

\* What is about to be stored has just been built, or was about to be stored.
LEMMA HandsMove ==
  ASSUME IndInv, HomeOK, NEW u \in Threads, Step(u) \/ Call(u) \/ UNCHANGED allVars,
         NEW t \in Threads, NEW n \in Nodes, frame'[t][n].pc = "store"
  PROVE  \/ frame[t][n].pc = "store" /\ frame'[t][n].out = frame[t][n].out
         \/ Construct(u, n) /\ frame'[t][n].out = Len(built) + 1
  <1>1. CASE frame' = frame
    BY <1>1
  <1>2. CASE SoftStep
    BY <1>2 DEF SoftStep, QuietStep
  <1>3. ASSUME NEW m \in Nodes, Construct(u, m)
        PROVE  \/ frame[t][n].pc = "store" /\ frame'[t][n].out = frame[t][n].out
               \/ Construct(u, n) /\ frame'[t][n].out = Len(built) + 1
    <2>1. CASE <<t, n>> = <<u, m>>
      BY <1>3, <2>1, ConstructEffect DEF IndInv
    <2>2. CASE <<t, n>> # <<u, m>>
      <3>1. frame'[t][n] = frame[t][n]
        BY <1>3, <2>2, ConstructEffect DEF IndInv
      <3>. QED
        BY <3>1
    <2>. QED
      BY <2>1, <2>2
  <1>4. ASSUME NEW m \in Nodes, Store(u, m)
        PROVE  frame[t][n].pc = "store" /\ frame'[t][n].out = frame[t][n].out
    <2>1. <<t, n>> # <<u, m>>
      BY <1>4, StoreEffect
    <2>2. frame'[t][n] = frame[t][n]
      BY <1>4, <2>1, StoreEffect
    <2>. QED
      BY <2>2
  <1>5. \A m \in Nodes : CloseOne(u, m) => frame' = frame
    BY DEF CloseOne
  <1>6. CloseFinish(u) => frame' = frame
    BY DEF CloseFinish
  <1>7. Inside(u) \/ frame' = frame
    BY DEF Step, Call, Install, LockAndDiff, Reuse, Prewarm, Switch, Unlock, Expire, Undo, Return,
           Current, Use, CallResolve, NewContainer, vars, allVars
  <1>. QED
    BY <1>1, <1>2, <1>3, <1>4, <1>5, <1>6, <1>7, InsideEffect

\* What a close goes through it went through before, or it is in the cache.
LEMMA TodoFrom ==
  ASSUME IndInv, Control, NEW u \in Threads, Step(u) \/ Call(u) \/ UNCHANGED allVars,
         NEW t \in Threads, NEW n \in Nodes, closing'[t].active, closing'[t].todo[n] # NoInst
  PROVE  \/ closing[t].active /\ closing[t].todo[n] = closing'[t].todo[n]
         \/ cache[n] = closing'[t].todo[n]
  <1>1. CASE closing'[t] = closing[t]
    BY <1>1
  <1>2. CASE Inside(u)
    <2>1. CASE u # t
      BY <1>1, <1>2, <2>1, ClosingEffect
    <2>2. CASE u = t
      BY <1>2, <2>2, ClosingEffect
    <2>. QED
      BY <2>1, <2>2
  <1>3. CASE Expire(u) \/ Undo(u)
    <2>1. rec[u].pc = "expire" \/ rec[u].pc = "rollback"
      BY <1>3 DEF Expire, Undo
    <2>2. /\ rec[u].old \in Made /\ rec[u].next \in Made
          /\ rec[u].diff.closedOld \in Seq(Keys) /\ rec[u].diff.rebuilt \in Seq(Keys)
      BY <2>1, ComparedIs, MadeIs DEF Compared, DiffType
    <2>3. PICK k \in Made, ids \in Seq(Keys) : CloseIDsOf(u, k, ids)
      BY <1>3, <2>2 DEF Expire, Undo
    <2>4. CASE u = t
      <3>1. CASE ids = <<>>
        BY <1>1, <2>3, <2>4, <3>1, CloseIDsOfEffect
      <3>2. CASE ids # <<>>
        <4>1. closing'[t].todo[n] = IF n[1] = k /\ n[2] \in ToSet(ids) THEN cache[n] ELSE NoInst
          BY <2>3, <2>4, <3>2, CloseIDsOfEffect
        <4>. QED
          BY <4>1
      <3>. QED
        BY <3>1, <3>2
    <2>5. CASE u # t
      BY <1>1, <2>3, <2>5, CloseIDsOfEffect
    <2>. QED
      BY <2>4, <2>5
  <1>4. Inside(u) \/ Expire(u) \/ Undo(u) \/ closing' = closing
    BY DEF Step, Call, Install, LockAndDiff, Reuse, Prewarm, Switch, Unlock, Return, Current, Use,
           CallResolve, NewContainer, vars, allVars
  <1>. QED
    BY <1>1, <1>2, <1>3, <1>4

\* Instances keep their nodes, and there are more of them only after a Construct.
LEMMA NodesKeep ==
  ASSUME IndInv, HomeOK, NEW u \in Threads, Step(u) \/ Call(u) \/ UNCHANGED allVars
  PROVE  /\ Instances \subseteq Instances'
         /\ \A i \in Instances : built'[i].node = built[i].node
         /\ \A i \in Instances' \ Instances : i = Len(built) + 1 /\ \E n \in Nodes : Construct(u, n)
  <1>1. CASE built' = built
    BY <1>1 DEF Instances
  <1>2. CASE Inside(u)
    BY <1>2, BuiltEffect
  <1>3. Inside(u) \/ built' = built
    BY DEF Step, Call, Install, LockAndDiff, Reuse, Prewarm, Switch, Unlock, Expire, Undo, Return,
           Current, Use, CallResolve, NewContainer, vars, allVars
  <1>. QED
    BY <1>1, <1>2, <1>3

LEMMA TodoStep ==
  ASSUME Reached, HandAlone, TodoOK, NEW u \in Threads, Step(u) \/ Call(u) \/ UNCHANGED allVars
  PROVE  TodoOK'
  <1>0. IndInv /\ Control /\ HomeOK /\ OriginOK
    BY DEF Reached, WhereOK
  <1>. SUFFICES ASSUME NEW t \in Threads, NEW n \in Nodes, NEW i \in Instances',
                       closing'[t].active, closing'[t].todo[n] = i
                PROVE  built'[i].node[2] = n[2] /\ Stored(i)'
    BY DEF TodoOK
  <1>1. i \in Nat /\ i # NoInst
    BY DEF Instances, NoInst
  <1>2. \/ closing[t].active /\ closing[t].todo[n] = i
        \/ cache[n] = i
    BY <1>0, <1>1, TodoFrom
  <1>3. i \in Instances
    <2>1. closing[t] \in ClosingType /\ cache[n] \in Instances \union {NoInst}
      BY <1>0 DEF IndInv, TypeOK
    <2>2. closing[t].todo[n] \in Instances \union {NoInst}
      BY <2>1 DEF ClosingType
    <2>. QED
      BY <1>1, <1>2, <2>1, <2>2
  <1>4. built[i].node[2] = n[2] /\ Stored(i)
    <2>1. CASE closing[t].active /\ closing[t].todo[n] = i
      BY <1>3, <2>1 DEF TodoOK
    <2>2. CASE cache[n] = i
      <3>1. From(i, n)
        BY <1>0, <1>3, <2>2 DEF OriginOK
      <3>2. Stored(i)
        BY <1>3, <2>2 DEF Stored, HandAlone, Alone
      <3>. QED
        BY <3>1, <3>2 DEF From
    <2>. QED
      BY <1>2, <2>1, <2>2
  <1>5. Len(built) + 1 # i
    <2>1. Len(built) \in Nat
      BY <1>0 DEF IndInv, TypeOK
    <2>. QED
      BY <1>3, <2>1 DEF Instances
  <1>6. ASSUME NEW v \in Threads, NEW m \in Nodes, frame'[v][m].pc = "store"
        PROVE  frame'[v][m].out # i
    BY <1>0, <1>4, <1>5, <1>6, HandsMove DEF Stored
  <1>. QED
    BY <1>0, <1>3, <1>4, <1>6, NodesKeep DEF Stored

\* A turn of a close: what is closed was open, and nobody else is to close it.
LEMMA OnceCloseOne ==
  ASSUME Reached, OnceOK, NEW u \in Threads, NEW n \in Nodes, CloseOne(u, n), UNCHANGED rvars
  PROVE  HandOpen' /\ DueOK' /\ ClosedOnce'
  <1>0. IndInv /\ Control /\ HomeOK /\ OriginOK /\ TodoOK /\ HandOpen /\ DueOK /\ ClosedOnce
    BY DEF Reached, WhereOK, OnceOK
  <1>1. PICK i : i = closing[u].todo[n]
    OBVIOUS
  <1>2. /\ UNCHANGED <<cache, frame, rec>> /\ Instances' = Instances
        /\ closing[u].active /\ n \notin closing[u].done
        /\ i \in Instances /\ i # NoInst
        /\ \A j \in Instances : built'[j].closed =
             IF j = i THEN built[j].closed + 1 ELSE built[j].closed
        /\ \A t \in Threads : /\ closing'[t].active = closing[t].active
                              /\ closing'[t].todo = closing[t].todo
        /\ closing'[u].done = closing[u].done \union {n}
        /\ \A t \in Threads \ {u} : closing'[t].done = closing[t].done
    BY <1>0, <1>1, CloseOneEffect DEF IndInv, Pending, rvars
  <1>3. DoomedBy(u, i)
    BY <1>1, <1>2 DEF DoomedBy
  <1>4. Open(i)
    BY <1>0, <1>2, <1>3 DEF DueOK
  <1>5. ASSUME NEW t \in Threads, NEW j \in Instances, DoomedBy(t, j)' PROVE DoomedBy(t, j)
    <2>1. closing[t].done \subseteq closing'[t].done
      BY <1>2
    <2>. QED
      BY <1>2, <1>5, <2>1 DEF DoomedBy
  <1>6. ~DoomedBy(u, i)'
    <2>1. /\ rec[u].pc \in {"closing", "undo"}
          /\ \E k : \A m \in Nodes : closing[u].todo[m] # NoInst => m[1] = k
      <3>1. Compared(u) /\ rec[u].pc \in {"closing", "undo"}
        BY <1>0, <1>2 DEF HomeOK, AtHome, Compared
      <3>2. /\ rec[u].old \in Made /\ rec[u].next \in Made
            /\ rec[u].diff.closedOld \in Seq(Keys) /\ rec[u].diff.rebuilt \in Seq(Keys)
        BY <1>0, <3>1, ComparedIs, MadeIs DEF DiffType
      <3>3. \E k \in Made, ids \in Seq(Keys) : closing[u].keys = ToSet(In(k, ids))
        BY <1>0, <1>2, <3>2 DEF HomeOK, AtHome
      <3>4. PICK k \in Made, ids \in Seq(Keys) : closing[u].keys = ToSet(In(k, ids))
        BY <3>3
      <3>5. ToSet(In(k, ids)) = {<<k, id>> : id \in ToSet(ids)}
        BY InIs
      <3>6. \A m \in closing[u].keys : m[1] = k
        BY <3>4, <3>5
      <3>7. \A m \in Nodes : closing[u].todo[m] # NoInst => m \in closing[u].keys
        BY <1>0, <1>2 DEF HomeOK, AtHome
      <3>8. \A m \in Nodes : closing[u].todo[m] # NoInst => m[1] = k
        BY <3>6, <3>7
      <3>. QED
        BY <3>1, <3>8
    <2>2. ASSUME NEW m \in Nodes, closing[u].todo[m] = i PROVE m = n
      <3>1. m[2] = n[2]
        BY <1>0, <1>1, <1>2, <2>2 DEF TodoOK
      <3>2. m[1] = n[1]
        BY <1>1, <1>2, <2>1, <2>2
      <3>3. m = <<m[1], m[2]>> /\ n = <<n[1], n[2]>>
        BY <1>0, MadeIs
      <3>. QED
        BY <3>1, <3>2, <3>3
    <2>. QED
      BY <1>2, <2>1, <2>2 DEF DoomedBy
  <1>7. DueOK'
    <2>1. ASSUME NEW t \in Threads, NEW j \in Instances, DoomedBy(t, j)' PROVE Open(j)'
      <3>1. DoomedBy(t, j) /\ Open(j)
        BY <1>0, <1>5, <2>1 DEF DueOK
      <3>2. j # i
        BY <1>0, <1>2, <1>3, <1>6, <2>1, <3>1 DEF DueOK
      <3>. QED
        BY <1>2, <3>1, <3>2 DEF Open
    <2>2. ASSUME NEW t \in Threads, NEW v \in Threads, NEW j \in Instances,
                 DoomedBy(t, j)', DoomedBy(v, j)'
          PROVE  t = v
      BY <1>0, <1>5, <2>2 DEF DueOK
    <2>. QED
      BY <1>2, <2>1, <2>2 DEF DueOK
  <1>8. ClosedOnce'
    BY <1>0, <1>2, <1>4 DEF ClosedOnce, Open
  <1>9. HandOpen'
    <2>1. ASSUME NEW t \in Threads, NEW m \in Nodes, frame[t][m].pc = "store"
          PROVE  built'[frame[t][m].out].closed = 0
      <3>1. frame[t][m].out \in Instances /\ Open(frame[t][m].out)
        BY <1>0, <2>1 DEF IndInv, HandOK, HandOpen
      <3>2. frame[t][m].out # i
        BY <1>0, <1>1, <1>2, <2>1 DEF TodoOK, Stored
      <3>. QED
        BY <1>2, <3>1, <3>2 DEF Open
    <2>. QED
      BY <1>2, <2>1 DEF HandOpen, Open
  <1>. QED
    BY <1>7, <1>8, <1>9

\* Where a cache gains an instance: a Store by the thread that built it.
LEMMA CacheGains ==
  ASSUME IndInv, Control, HomeOK, NEW u \in Threads, Step(u) \/ Call(u),
         NEW k \in Made, \A t \in Threads : Unseen(t) => rec[t].next # k \/ rec[t].pc = "rollback",
         NEW i \in Instances, NEW n \in Nodes, n[1] = k, cache'[n] = i, cache[n] # i
  PROVE  Store(u, n) /\ frame[u][n].out = i
  <1>1. i # NoInst
    BY InstanceIs DEF IndInv
  <1>2. ASSUME NEW m \in Nodes, Store(u, m) PROVE Store(u, n) /\ frame[u][n].out = i
    BY <1>2, StoreEffect
  <1>3. ~CloseFinish(u)
    BY <1>1 DEF CloseFinish
  <1>4. ~Reuse(u)
    <2> SUFFICES ASSUME Reuse(u) PROVE FALSE
      OBVIOUS
    <2>1. Unseen(u) /\ rec[u].pc # "rollback"
      BY DEF Reuse, Unseen
    <2>2. PICK n0, j : n0 = <<rec[u].next, Head(rec[u].todo)>>
                       /\ j = cache[<<rec[u].old, Head(rec[u].todo)>>]
      OBVIOUS
    <2>3. \A m \in Nodes : cache'[m] = IF m = n0 /\ j # NoInst THEN j ELSE cache[m]
      BY <2>2, ReuseEffect
    <2>4. n0[1] = rec[u].next
      BY <2>2
    <2>5. n = n0
      BY <2>3
    <2>. QED
      BY <2>1, <2>4, <2>5
  <1>5. ~SoftStep
    BY DEF SoftStep, QuietStep
  <1>6. \A m \in Nodes : ~Construct(u, m) /\ ~CloseOne(u, m)
    BY DEF Construct, CloseOne
  <1>7. Inside(u) \/ Reuse(u) \/ cache' = cache
    BY DEF Step, Call, Install, LockAndDiff, Prewarm, Switch, Unlock, Expire, Undo, Return,
           Current, Use, CallResolve, NewContainer, vars
  <1>. QED
    BY <1>2, <1>3, <1>4, <1>5, <1>6, <1>7, InsideEffect

\* How an instance comes to be doomed: at the end of a prewarm, when it is in a
\* container that was kept until then, or by being stored where a close is to come.
LEMMA DoomedFrom ==
  ASSUME Reached, Control', NEW u \in Threads, Step(u) \/ Call(u),
         NEW t \in Threads, NEW i \in Instances, DoomedBy(t, i)', ~DoomedBy(t, i)
  PROVE  \/ /\ t = u /\ UNCHANGED <<built, frame>>
            /\ \E k \in Made : Kept(k) /\ Known(k, i)
         \/ \E n \in Nodes :
              /\ Store(u, n) /\ frame[u][n].out = i
              /\ \/ rec[t].pc = "expire" /\ n[1] = rec[t].old
                 \/ rec[t].pc = "rollback" /\ n[1] = rec[t].next
  <1>0. IndInv /\ Control /\ HomeOK
    BY DEF Reached, WhereOK
  <1>1. CASE Switch(t) \/ Unlock(t)
    <2>1. rec[t].pc = "warm" /\ UNCHANGED <<built, frame, cache, closing>> /\ Compared(t)
      BY <1>1 DEF Switch, Unlock, Warmed, vars, Compared
    <2>2. /\ rec'[t].pc \in {"expire", "rollback"} /\ rec'[t].old = rec[t].old
          /\ rec'[t].next = rec[t].next /\ rec'[t].diff = rec[t].diff
      BY <1>0, <1>1, OnePC DEF Switch, Unlock, RecPCs
    <2>3. t = u
      BY <1>0, <2>1, <2>2, OthersLocals
    <2>4. rec[t].old = current /\ mu = t
      BY <1>0, <2>1 DEF Control, RecOK
    <2>5. /\ rec[t].old \in Made /\ rec[t].next \in Made /\ rec[t].old # Nil
          /\ ToSet(rec[t].diff.closedOld) \subseteq Keys /\ ToSet(rec[t].diff.rebuilt) \subseteq Keys
      BY <1>0, <2>1, ComparedIs, MadeIs, ListsAreKeys DEF Nil
    <2>6. Kept(rec[t].old) /\ Kept(rec[t].next)
      BY <2>4, <2>5 DEF Kept
    <2>7. \E k \in {rec[t].old, rec[t].next} : \E id \in Keys : cache[<<k, id>>] = i
      BY <2>1, <2>2, <2>5 DEF DoomedBy
    <2>8. PICK k \in {rec[t].old, rec[t].next}, id \in Keys : cache[<<k, id>>] = i
      BY <2>7
    <2>9. k \in Made /\ <<k, id>> \in Nodes /\ <<k, id>>[1] = k
      BY <1>0, <2>5, MadeIs
    <2>10. Known(k, i)
      BY <2>8, <2>9 DEF Known, Near
    <2>. QED
      BY <2>1, <2>3, <2>6, <2>9, <2>10
  <1>2. CASE ~Switch(t) /\ ~Unlock(t)
    <2>1. PICK id \in Keys :
            \/ /\ rec[t].pc = "expire" /\ cache'[<<rec[t].old, id>>] = i
               /\ cache[<<rec[t].old, id>>] # i
            \/ /\ rec[t].pc = "rollback" /\ cache'[<<rec[t].next, id>>] = i
               /\ cache[<<rec[t].next, id>>] # i
      BY <1>0, <1>2, DoomMoves
    <2>2. PICK k : /\ cache'[<<k, id>>] = i /\ cache[<<k, id>>] # i
                   /\ \/ rec[t].pc = "expire" /\ k = rec[t].old
                      \/ rec[t].pc = "rollback" /\ k = rec[t].next
      BY <2>1
    <2>3. k \in Made /\ <<k, id>> \in Nodes /\ <<k, id>>[1] = k
      BY <1>0, <2>2, ComparedIs, MadeIs DEF Compared
    <2>4. ASSUME NEW v \in Threads, Unseen(v) PROVE rec[v].next # k \/ rec[v].pc = "rollback"
      <3>1. CASE rec[t].pc = "expire" /\ k = rec[t].old
        BY <1>0, <2>4, <3>1 DEF Control, RecOK
      <3>2. CASE rec[t].pc = "rollback" /\ k = rec[t].next
        BY <1>0, <2>4, <3>2 DEF Control, RecOK, Unseen
      <3>. QED
        BY <2>2, <3>1, <3>2
    <2>5. Store(u, <<k, id>>) /\ frame[u][<<k, id>>].out = i
      BY <1>0, <2>2, <2>3, <2>4, CacheGains
    <2>. QED
      BY <2>2, <2>3, <2>5
  <1>. QED
    BY <1>1, <1>2

\* What is in somebody's hand is in nobody's list.
LEMMA HandNotDoomed ==
  ASSUME Reached, HandAlone, TodoOK, NEW u \in Threads, NEW n \in Nodes, NEW i \in Instances,
         frame[u][n].pc = "store", frame[u][n].out = i, NEW t \in Threads
  PROVE  ~DoomedBy(t, i)
  <1>1. Alone(u, n, i)
    BY DEF HandAlone
  <1>2. closing[t].active => \A m \in Nodes : closing[t].todo[m] # i
    BY DEF TodoOK, Stored
  <1>3. /\ rec[t].pc = "expire" => \A id \in ToSet(rec[t].diff.closedOld) :
                                     <<rec[t].old, id>> \in Nodes
        /\ rec[t].pc = "rollback" => \A id \in ToSet(rec[t].diff.rebuilt) :
                                       <<rec[t].next, id>> \in Nodes
    <2>1. Control
      BY DEF Reached
    <2>2. CASE Compared(t)
      <3>1. rec[t].old \in Made /\ rec[t].next \in Made
        BY <2>1, <2>2, ComparedIs, MadeIs
      <3>2. Nodes = Made \X Keys
        BY <2>1, MadeIs
      <3>. QED
        BY <2>1, <2>2, <3>1, <3>2, ListsAreKeys
    <2>. QED
      BY <2>2 DEF Compared
  <1>4. \A m \in Nodes : cache[m] # i
    BY <1>1 DEF Alone
  <1>. QED
    BY <1>2, <1>3, <1>4 DEF DoomedBy

\* Steps that close nothing.
LEMMA DueOther ==
  ASSUME Reached, Control', DoomOK, OnceOK, NEW u \in Threads, Step(u) \/ Call(u),
         \A i \in Instances : built'[i].closed = built[i].closed,
         \A t \in Threads, i \in Instances' \ Instances : ~DoomedBy(t, i)'
  PROVE  DueOK'
  <1>0. /\ Control /\ IndInv /\ HomeOK /\ HandAlone /\ KeptOK
        /\ ApartOK /\ TodoOK /\ HandOpen /\ DueOK
    BY DEF Reached, WhereOK, DoomOK, OnceOK
  <1>. DEFINE Ended(t, i) == /\ t = u /\ UNCHANGED <<built, frame>>
                             /\ \E k \in Made : Kept(k) /\ Known(k, i)
              Put(t, i, n) == /\ Store(u, n) /\ frame[u][n].out = i
                              /\ \/ rec[t].pc = "expire" /\ n[1] = rec[t].old
                                 \/ rec[t].pc = "rollback" /\ n[1] = rec[t].next
  <1>1. ASSUME NEW t \in Threads, NEW i \in Instances, DoomedBy(t, i)'
        PROVE  DoomedBy(t, i) \/ Ended(t, i) \/ \E n \in Nodes : Put(t, i, n)
    BY <1>1, DoomedFrom
  <1>2. ASSUME NEW t \in Threads, NEW i \in Instances, Ended(t, i)
        PROVE  Open(i) /\ \A v \in Threads : ~DoomedBy(v, i)
    BY <1>0, <1>2 DEF KeptOK, Doomed
  <1>3. ASSUME NEW t \in Threads, NEW i \in Instances, NEW n \in Nodes, Put(t, i, n)
        PROVE  /\ Open(i) /\ \A v \in Threads : ~DoomedBy(v, i)
               /\ frame[u][n].pc = "store" /\ frame'[u][n].pc = "leave" /\ frame[u][n].out = i
               /\ Alone(u, n, i)
    <2>1. frame[u][n].pc = "store" /\ frame'[u][n].pc = "leave" /\ frame[u][n].out = i
      BY <1>0, <1>3, StoreEffect
    <2>. QED
      BY <1>0, <2>1, HandNotDoomed DEF HandOpen, HandAlone
  <1>4. ASSUME NEW t \in Threads, NEW i \in Instances', DoomedBy(t, i)'
        PROVE  i \in Instances /\ Open(i)'
    <2>1. i \in Instances
      BY <1>4
    <2>2. Open(i)
      BY <1>0, <1>1, <1>2, <1>3, <1>4, <2>1 DEF DueOK
    <2>. QED
      BY <2>1, <2>2 DEF Open
  <1>5. ASSUME NEW t \in Threads, NEW v \in Threads, NEW i \in Instances,
               NEW n \in Nodes, NEW m \in Nodes, Put(t, i, n), Put(v, i, m)
        PROVE  t = v
    <2>1. n = m
      BY <1>3, <1>5 DEF Alone
    <2>2. CASE rec[t].pc = "expire" /\ n[1] = rec[t].old
      <3>1. CASE rec[v].pc = "expire" /\ m[1] = rec[v].old
        BY <1>0, <2>1, <2>2, <3>1 DEF ApartOK
      <3>2. CASE rec[v].pc = "rollback" /\ m[1] = rec[v].next
        BY <1>0, <2>1, <2>2, <3>2 DEF Control, RecOK, Unseen
      <3>. QED
        BY <1>5, <3>1, <3>2
    <2>3. CASE rec[t].pc = "rollback" /\ n[1] = rec[t].next
      <3>1. CASE rec[v].pc = "expire" /\ m[1] = rec[v].old
        BY <1>0, <2>1, <2>3, <3>1 DEF Control, RecOK, Unseen
      <3>2. CASE rec[v].pc = "rollback" /\ m[1] = rec[v].next
        BY <1>0, <2>1, <2>3, <3>2 DEF Control, RecOK
      <3>. QED
        BY <1>5, <3>1, <3>2
    <2>. QED
      BY <1>5, <2>2, <2>3
  <1>6. ASSUME NEW t \in Threads, NEW v \in Threads, NEW i \in Instances,
               DoomedBy(t, i)', DoomedBy(v, i)'
        PROVE  t = v
    <2>1. /\ DoomedBy(t, i) \/ Ended(t, i) \/ \E n \in Nodes : Put(t, i, n)
          /\ DoomedBy(v, i) \/ Ended(v, i) \/ \E n \in Nodes : Put(v, i, n)
      BY <1>1, <1>6
    <2>2. CASE DoomedBy(t, i) \/ DoomedBy(v, i)
      <3>1. DoomedBy(t, i) /\ DoomedBy(v, i)
        BY <1>2, <1>3, <2>1, <2>2
      <3>. QED
        BY <1>0, <3>1 DEF DueOK
    <2>3. CASE Ended(t, i) \/ Ended(v, i)
      <3>1. frame' = frame
        BY <2>3
      <3>2. \A w \in Threads, n \in Nodes : ~Put(w, i, n)
        BY <1>3, <3>1
      <3>. QED
        BY <2>1, <2>2, <3>2
    <2>4. CASE \E n, m \in Nodes : Put(t, i, n) /\ Put(v, i, m)
      BY <1>5, <2>4
    <2>. QED
      BY <2>1, <2>2, <2>3, <2>4
  <1>. QED
    BY <1>4, <1>6 DEF DueOK

LEMMA OnceStep ==
  ASSUME Reached, Reached', DoomOK, OnceOK, [RNext]_allVars
  PROVE  OnceOK'
  <1>0. /\ Control /\ IndInv /\ HomeOK /\ Control' /\ IndInv' /\ HandAlone
        /\ ApartOK /\ TodoOK /\ HandOpen /\ DueOK /\ ClosedOnce
    BY DEF Reached, WhereOK, DoomOK, OnceOK
  <1>1. ApartOK'
    BY <1>0, ApartStep
  <1>2. CASE UNCHANGED allVars
    <2>1. UNCHANGED <<cache, frame, built, closing, rec>> /\ Instances' = Instances
      BY <1>2 DEF allVars, vars, rvars, Instances
    <2>2. TodoOK'
      BY <1>0, <2>1 DEF TodoOK, Stored
    <2>3. HandOpen' /\ ClosedOnce'
      BY <1>0, <2>1 DEF HandOpen, ClosedOnce, Open
    <2>4. ASSUME NEW t \in Threads, NEW i \in Instances PROVE DoomedBy(t, i)' <=> DoomedBy(t, i)
      BY <2>1 DEF DoomedBy
    <2>5. ASSUME NEW i \in Instances PROVE Open(i)' <=> Open(i)
      BY <2>1 DEF Open
    <2>6. DueOK'
      BY <1>0, <2>1, <2>4, <2>5 DEF DueOK
    <2>. QED
      BY <1>1, <2>2, <2>3, <2>6 DEF OnceOK
  <1>3. ASSUME NEW u \in Threads, Step(u) \/ Call(u) PROVE OnceOK'
    <2>1. TodoOK'
      BY <1>0, <1>3, TodoStep
    <2>2. ASSUME NEW n \in Nodes, CloseOne(u, n), UNCHANGED rvars PROVE OnceOK'
      BY <1>1, <2>1, <2>2, OnceCloseOne DEF OnceOK
    <2>3. ASSUME /\ \A i \in Instances : built'[i].closed = built[i].closed
                 /\ \A i \in Instances' \ Instances : built'[i].closed = 0
                 /\ \A t \in Threads, i \in Instances' \ Instances : ~DoomedBy(t, i)'
          PROVE  OnceOK'
      <3>1. DueOK'
        BY <1>0, <1>3, <2>3, DueOther
      <3>2. ClosedOnce'
        BY <1>0, <2>3 DEF ClosedOnce
      <3>3. HandOpen'
        <4>1. ASSUME NEW t \in Threads, NEW m \in Nodes, frame'[t][m].pc = "store"
              PROVE  built'[frame'[t][m].out].closed = 0
          <5>1. frame'[t][m].out \in Instances'
            BY <1>0, <4>1 DEF IndInv, HandOK
          <5>2. CASE frame'[t][m].out \in Instances
            <6>1. Len(built) + 1 \notin Instances
              <7>1. Len(built) \in Nat
                BY <1>0 DEF IndInv, TypeOK
              <7>. QED
                BY <7>1 DEF Instances
            <6>2. frame[t][m].pc = "store" /\ frame'[t][m].out = frame[t][m].out
              BY <1>0, <1>3, <4>1, <5>2, <6>1, HandsMove
            <6>. QED
              BY <1>0, <2>3, <5>2, <6>2 DEF HandOpen, Open
          <5>. QED
            BY <2>3, <5>1, <5>2
        <4>. QED
          BY <4>1 DEF HandOpen, Open
      <3>. QED
        BY <1>1, <2>1, <3>1, <3>2, <3>3 DEF OnceOK
    <2>4. ASSUME NEW n \in Nodes, Construct(u, n), UNCHANGED rvars PROVE OnceOK'
      <3>1. PICK new : new = Len(built) + 1
        OBVIOUS
      <3>2. /\ Instances' = Instances \union {new} /\ new \notin Instances
            /\ \A i \in Instances : built'[i] = built[i]
            /\ built'[new].closed = 0
        BY <1>0, <2>4, <3>1, ConstructEffect DEF IndInv
      <3>3. \A t \in Threads : ~DoomedBy(t, new)'
        BY <1>0, <2>4, <3>1, DoomConstruct
      <3>. QED
        BY <2>3, <3>2, <3>3
    <2>5. CASE built' = built
      BY <2>3, <2>5 DEF Instances
    <2>6. SoftStep => built' = built
      BY DEF SoftStep, QuietStep
    <2>7. \A n \in Nodes : Store(u, n) => built' = built
      BY DEF Store
    <2>8. CloseFinish(u) => built' = built
      BY DEF CloseFinish
    <2>9. (Inside(u) /\ UNCHANGED rvars) \/ built' = built
      BY <1>3 DEF Step, Call, Install, LockAndDiff, Reuse, Prewarm, Switch, Unlock, Expire, Undo,
                  Return, Current, Use, CallResolve, NewContainer, vars
    <2>. QED
      BY <1>0, <2>2, <2>4, <2>5, <2>6, <2>7, <2>8, <2>9, InsideEffect
  <1>. QED
    BY <1>2, <1>3 DEF RNext, Quiet

LEMMA InitOnce == RInit => OnceOK
  <1>. SUFFICES ASSUME RInit PROVE OnceOK
    OBVIOUS
  <1>1. Instances = {} /\ \A t \in Threads : rec[t].pc = "idle"
    BY DEF RInit, Init, Instances, Resting
  <1>2. \A t \in Threads, n \in Nodes : frame[t][n].pc = "none"
    BY DEF RInit, Init, NoFrame
  <1>. QED
    BY <1>1, <1>2 DEF OnceOK, ApartOK, TodoOK, HandOpen, DueOK, ClosedOnce

\* However many goroutines switch, roll back and expire, and whatever others still
\* resolve on the old containers meanwhile: no close hook runs twice on an
\* instance (container.go:219-245; reconciler.go:109-119), carried over or not, as
\* long as options are of one line.
THEOREM ReconcilesCloseOnce ==
  ASSUME OneLineSources
  PROVE  RSpec => []ClosedOnce
  <1>1. Reached /\ DoomOK /\ OnceOK /\ [RNext]_allVars => OnceOK'
    BY ReachedStep, OnceStep
  <1>2. OnceOK => ClosedOnce
    BY DEF OnceOK
  <1>3. Reached /\ DoomOK /\ [RNext]_allVars => Reached' /\ DoomOK'
    BY DoomStep
  <1>. QED
    BY <1>1, <1>2, <1>3, InitReached, InitDoom, InitOnce, PTL DEF RSpec

-----------------------------------------------------------------------------
(***************************************************************************)
(* What a kept container built itself is wired to what it has.             *)
(***************************************************************************)
\* What the Build of n has resolved before it comes to place i of its work.
Given(n, i) == {Work(n)[j] : j \in Len(g.deps[n]) + 1 .. i - 1}

\* insts is what is cached for the nodes of D.
WiredTo(D, insts) ==
  /\ \A d \in D : cache[d] # NoInst
  /\ insts = {cache[d] : d \in D}

\* Each call on a stack was made for the resolve that its caller is at.
ChainAt(t) ==
  \A j \in 1 .. Len(path[t]) - 1 :
    LET i == frame[t][path[t][j]].i
    IN i <= Len(Work(path[t][j])) /\ Work(path[t][j])[i] = path[t][j + 1]

ChainOK == \A t \in Threads : ChainAt(t)

\* A call of Resolve for n in a container that is kept.
CallWired(t, n) ==
  LET f == frame[t][n]
  IN /\ f.pc \in {"lookup", "enter", "recheck"} => f.i = 1 /\ f.got = {}
     /\ f.pc = "work" => f.i <= Len(Work(n)) + 1 /\ WiredTo(Given(n, f.i), f.got)
     /\ f.pc = "store" => WiredTo(ToSet(g.uses[n]), built[f.out].uses)
     /\ f.pc \in {"work", "store"} => cache[n] = NoInst
     /\ f.pc \in {"leave", "return"} /\ IsInst(f.out) => f.out = cache[n]

\* What container k has built itself is wired to what it has.
WiredAt(k) ==
  \A n \in Nodes : n[1] = k =>
    /\ cache[n] # NoInst /\ built[cache[n]].node[1] = k =>
         WiredTo(ToSet(g.uses[n]), built[cache[n]].uses)
    /\ \A t \in Threads : CallWired(t, n)

\* Nothing was built in a container that is not prewarmed yet.
BareOK ==
  \A t \in Threads, i \in Instances :
    rec[t].pc \in {"lock", "inject"} => built[i].node[1] # rec[t].next

WiredOK == ChainOK /\ BareOK /\ \A k \in Made : Kept(k) => WiredAt(k)
-----------------------------------------------------------------------------
\* How a step of a call may change the place that a call is at.
Turn(u, m) ==
  LET f == frame[u][m]
      h == frame'[u][m]
      c == Work(m)[f.i]
  IN \/ h = f
     \/ h = Entered
     \/ h.pc = "none"
     \/ /\ h.i = f.i /\ h.got = f.got
        /\ \/ h.pc \in {"wait", "leave", "return"}
           \/ f.pc \in {"lookup", "enter"} /\ h.pc \in {"enter", "recheck"}
           \/ f.pc = "recheck" /\ h.pc = "work" /\ cache[m] = NoInst
     \/ /\ f.pc = "work" /\ h.pc = "work" /\ f.i \in 1 .. Len(Work(m)) /\ h.i = f.i + 1
        /\ frame[u][c].pc = "return" /\ IsInst(frame[u][c].out)
        /\ h.got = IF f.i > Len(g.deps[m]) THEN f.got \union {frame[u][c].out} ELSE f.got

Turning == \A u \in Threads, m \in Nodes : Turn(u, m)

\* No call begins or ends.
Steady == path' = path /\ \A u \in Threads, m \in Nodes : frame'[u][m].i = frame[u][m].i

LEMMA TurnTop ==
  ASSUME TypeOK, NEW t \in Threads, NEW n \in Nodes, NEW f,
         frame' = [frame EXCEPT ![t][n] = f],
         \/ f = Entered
         \/ f.pc = "none"
         \/ /\ f.i = frame[t][n].i /\ f.got = frame[t][n].got
            /\ \/ f.pc \in {"wait", "leave", "return"}
               \/ frame[t][n].pc \in {"lookup", "enter"} /\ f.pc \in {"enter", "recheck"}
               \/ frame[t][n].pc = "recheck" /\ f.pc = "work" /\ cache[n] = NoInst
  PROVE  /\ Turning
         /\ path' = path /\ f.i = frame[t][n].i => Steady
  <1>1. /\ frame'[t][n] = f
        /\ \A u \in Threads, m \in Nodes : <<u, m>> # <<t, n>> => frame'[u][m] = frame[u][m]
    BY DEF TypeOK
  <1>2. Turn(t, n)
    BY <1>1 DEF Turn
  <1>3. \A u \in Threads, m \in Nodes : <<u, m>> # <<t, n>> => Turn(u, m)
    BY <1>1 DEF Turn
  <1>. QED
    BY <1>1, <1>2, <1>3 DEF Turning, Steady

LEMMA TurnLookup ==
  ASSUME TypeOK, NEW t \in Threads, NEW n \in Nodes, Lookup(t, n)
  PROVE  Turning /\ Steady
  <1>. DEFINE f == IF cache[n] # NoInst
                     THEN [frame[t][n] EXCEPT !.pc = "return", !.out = cache[n]]
                     ELSE [frame[t][n] EXCEPT !.pc = "enter"]
  <1>1. /\ frame[t][n] \in FrameType /\ frame' = [frame EXCEPT ![t][n] = f] /\ path' = path
        /\ frame[t][n].pc = "lookup"
    BY DEF TypeOK, Lookup, At
  <1>2. f.i = frame[t][n].i /\ f.got = frame[t][n].got /\ f.pc \in {"return", "enter"}
    BY <1>1 DEF FrameType
  <1>. HIDE DEF f
  <1>. QED
    BY <1>1, <1>2, TurnTop

LEMMA TurnEnter ==
  ASSUME TypeOK, NEW t \in Threads, NEW n \in Nodes, Lead(t, n) \/ Follow(t, n)
  PROVE  Turning /\ Steady
  <1>1. PICK pc \in {"recheck", "wait"} : frame' = [frame EXCEPT ![t][n].pc = pc]
    BY DEF Lead, Follow
  <1>. DEFINE f == [frame[t][n] EXCEPT !.pc = pc]
  <1>2. f.pc = pc /\ f.i = frame[t][n].i /\ f.got = frame[t][n].got
    BY DEF TypeOK, FrameType
  <1>3. frame' = [frame EXCEPT ![t][n] = f] /\ path' = path /\ frame[t][n].pc = "enter"
    BY <1>1 DEF Lead, Follow, At
  <1>. HIDE DEF f
  <1>. QED
    BY <1>2, <1>3, TurnTop

LEMMA TurnRecheck ==
  ASSUME TypeOK, NEW t \in Threads, NEW n \in Nodes, Recheck(t, n)
  PROVE  Turning /\ Steady
  <1>. DEFINE f == IF cache[n] # NoInst
                     THEN [frame[t][n] EXCEPT !.pc = "leave", !.out = cache[n]]
                     ELSE IF n \in Declared
                       THEN [frame[t][n] EXCEPT !.pc = "work"]
                       ELSE [frame[t][n] EXCEPT !.pc = "leave", !.out = ErrResult]
  <1>1. /\ frame[t][n] \in FrameType /\ frame' = [frame EXCEPT ![t][n] = f] /\ path' = path
        /\ frame[t][n].pc = "recheck"
    BY DEF TypeOK, Recheck, At
  <1>2. /\ f.i = frame[t][n].i /\ f.got = frame[t][n].got
        /\ f.pc = "leave" \/ (f.pc = "work" /\ cache[n] = NoInst)
    BY <1>1 DEF FrameType
  <1>. HIDE DEF f
  <1>. QED
    BY <1>1, <1>2, TurnTop

LEMMA TurnEnd ==
  ASSUME TypeOK, NEW t \in Threads, NEW n \in Nodes, path' = path, Ends(t, n)
  PROVE  Turning /\ Steady
  <1>1. PICK f : /\ frame' = [frame EXCEPT ![t][n] = f]
                 /\ f.pc = "leave" /\ f.i = frame[t][n].i /\ f.got = frame[t][n].got
    BY EndedFrame
  <1>2. f.pc \in {"wait", "leave", "return"}
    BY <1>1
  <1>. QED
    BY <1>1, <1>2, TurnTop

LEMMA TurnLeave ==
  ASSUME TypeOK, NEW t \in Threads, NEW n \in Nodes, Leave(t, n)
  PROVE  Turning /\ Steady
  <1>1. ASSUME NEW u \in Threads, NEW m \in Nodes
        PROVE  Turn(u, m) /\ frame'[u][m].i = frame[u][m].i
    <2>1. frame[u] \in [Nodes -> FrameType] /\ frame[u][n] \in FrameType
      BY DEF TypeOK
    <2>. DEFINE f == [frame[u][n] EXCEPT !.pc = "return", !.out = frame[t][n].out]
    <2>2. f.i = frame[u][n].i /\ f.got = frame[u][n].got /\ f.pc = "return"
      BY <2>1 DEF FrameType
    <2>3. frame'[u] = IF u = t \/ frame[u][n].pc = "wait"
                        THEN [frame[u] EXCEPT ![n] = f] ELSE frame[u]
      BY DEF Leave, Waits
    <2>. HIDE DEF f
    <2>4. frame'[u][m] = frame[u][m] \/ (m = n /\ frame'[u][m] = f)
      BY <2>1, <2>3
    <2>. QED
      BY <2>2, <2>4 DEF Turn
  <1>2. path' = path
    BY DEF Leave
  <1>. QED
    BY <1>1, <1>2 DEF Turning, Steady

\* The stack and the frames of the threads that do nothing.
OthersStay(t) == \A u \in Threads \ {t} : path'[u] = path[u] /\ frame'[u] = frame[u]

LEMMA ChainOther ==
  ASSUME NEW t \in Threads, ChainOK, OthersStay(t), g' = g, NEW u \in Threads \ {t}
  PROVE  ChainAt(u)'
  <1>1. \A m : Work(m)' = Work(m)
    BY DEF Work
  <1>2. path'[u] = path[u] /\ frame'[u] = frame[u]
    BY DEF OthersStay
  <1>3. ChainAt(u)
    BY DEF ChainOK
  <1>. QED
    BY <1>1, <1>2, <1>3 DEF ChainAt

LEMMA ChainSteady ==
  ASSUME TypeOK, ChainOK, Steady, g' = g
  PROVE  ChainOK'
  <1> SUFFICES ASSUME NEW t \in Threads PROVE ChainAt(t)'
    BY DEF ChainOK
  <1>1. \A m : Work(m)' = Work(m)
    BY DEF Work
  <1>2. path[t] \in Seq(Nodes) /\ path'[t] = path[t]
    BY DEF TypeOK, Steady
  <1>3. ASSUME NEW j \in 1 .. Len(path[t]) - 1
        PROVE  frame'[t][path[t][j]].i = frame[t][path[t][j]].i
    <2>1. path[t][j] \in Nodes
      BY <1>2
    <2>. QED
      BY <2>1 DEF Steady
  <1>. QED
    BY <1>1, <1>2, <1>3 DEF ChainOK, ChainAt

LEMMA TurnBegin ==
  ASSUME IndInv, ChainOK, NEW t \in Threads, Begin(t)
  PROVE  Turning /\ ChainOK'
  <1>. DEFINE n == Head(batch[t])
  <1>1. n \in Nodes
    BY DEF Begin, IndInv, TypeOK
  <1>2. /\ g' = g /\ frame' = [frame EXCEPT ![t][n] = Entered]
        /\ path' = [path EXCEPT ![t] = <<n>>]
    BY DEF Begin
  <1>. HIDE DEF n
  <1>3. Turning
    BY <1>1, <1>2, TurnTop DEF IndInv
  <1>4. path'[t] = <<n>> /\ OthersStay(t)
    BY <1>1, <1>2 DEF IndInv, TypeOK, OthersStay
  <1>5. ChainAt(t)'
    <2>1. Len(path'[t]) = 1
      BY <1>4
    <2>2. 1 .. Len(path'[t]) - 1 = {}
      BY <2>1
    <2>. QED
      BY <2>2 DEF ChainAt
  <1>. QED
    BY <1>2, <1>3, <1>4, <1>5, ChainOther DEF ChainOK

LEMMA TurnReturnToCaller ==
  ASSUME IndInv, ChainOK, NEW t \in Threads, NEW n \in Nodes, ReturnToCaller(t, n)
  PROVE  Turning /\ ChainOK'
  <1>1. /\ g' = g /\ frame' = [frame EXCEPT ![t][n] = NoFrame]
        /\ path' = [path EXCEPT ![t] = <<>>]
    BY DEF ReturnToCaller
  <1>2. Turning
    BY <1>1, TurnTop, EnteredIs DEF IndInv
  <1>3. path'[t] = <<>> /\ OthersStay(t)
    BY <1>1 DEF IndInv, TypeOK, OthersStay
  <1>4. ChainAt(t)'
    <2>1. 1 .. Len(path'[t]) - 1 = {}
      BY <1>3
    <2>. QED
      BY <2>1 DEF ChainAt
  <1>. QED
    BY <1>1, <1>2, <1>3, <1>4, ChainOther DEF ChainOK

LEMMA TurnDescend ==
  ASSUME IndInv, ChainOK, NEW t \in Threads, NEW n \in Nodes, Descend(t, n)
  PROVE  Turning /\ ChainOK'
  <1>. DEFINE i == frame[t][n].i
              child == Work(n)[i]
              s == path[t]
  <1>1. /\ At(t, n, "work") /\ g' = g /\ frame[t][n] \in FrameType
        /\ s \in Seq(Nodes) /\ Len(s) \in Nat \ {0} /\ n = s[Len(s)]
    BY TopOfPath DEF Descend, IndInv, TypeOK
  <1>2. i \in 1 .. Len(Work(n))
    BY WorkType DEF Descend, IndInv, TypeOK, FrameType
  <1>3. child \in Nodes
    BY <1>2, WorkType DEF IndInv
  <1>4. CASE child \in ToSet(s)
    <2>1. path' = path /\ Ends(t, n)
      BY <1>4 DEF Descend, Ends
    <2>. HIDE DEF child, i, s
    <2>. QED
      BY <1>1, <2>1, TurnEnd, ChainSteady DEF IndInv
  <1>5. CASE child \notin ToSet(s)
    <2>1. /\ frame' = [frame EXCEPT ![t][child] = Entered]
          /\ path' = [path EXCEPT ![t] = Append(s, child)]
      BY <1>5 DEF Descend
    <2>2. \A m : Work(m)' = Work(m)
      BY <1>1 DEF Work
    <2>3. ASSUME NEW k \in 1 .. Len(s) PROVE s[k] \in Nodes /\ s[k] # child
      BY <1>1, <1>5 DEF ToSet
    <2>4. Work(s[Len(s)])[frame[t][s[Len(s)]].i] = child
          /\ frame[t][s[Len(s)]].i <= Len(Work(s[Len(s)]))
      BY <1>1, <1>2
    <2>. HIDE DEF child
    <2>5. Turning
      BY <1>3, <2>1, TurnTop DEF IndInv
    <2>6. /\ path'[t] = Append(s, child) /\ OthersStay(t)
          /\ \A m \in Nodes : m # child => frame'[t][m] = frame[t][m]
      BY <1>1, <1>3, <2>1 DEF IndInv, TypeOK, OthersStay
    <2>7. ChainAt(t)'
      <3>. DEFINE r == path'[t]
      <3>1. /\ Len(r) = Len(s) + 1 /\ r[Len(s) + 1] = child
            /\ \A k \in 1 .. Len(s) : r[k] = s[k]
        BY <1>1, <1>3, <2>6
      <3>2. ASSUME NEW k \in 1 .. Len(s)
            PROVE  LET j == frame'[t][r[k]].i
                   IN j <= Len(Work(r[k])) /\ Work(r[k])[j] = r[k + 1]
        <4>1. r[k] = s[k] /\ frame'[t][s[k]] = frame[t][s[k]]
          BY <2>3, <2>6, <3>1
        <4>2. CASE k = Len(s)
          BY <2>4, <3>1, <4>1, <4>2
        <4>3. CASE k # Len(s)
          <5>1. k \in 1 .. Len(s) - 1 /\ k + 1 \in 1 .. Len(s)
            BY <1>1, <4>3
          <5>2. r[k + 1] = s[k + 1]
            BY <3>1, <5>1
          <5>3. /\ frame[t][s[k]].i <= Len(Work(s[k]))
                /\ Work(s[k])[frame[t][s[k]].i] = s[k + 1]
            BY <5>1 DEF ChainOK, ChainAt
          <5>. HIDE DEF r, s
          <5>. QED
            BY <4>1, <5>2, <5>3
        <4>. QED
          BY <4>2, <4>3
      <3>3. 1 .. Len(r) - 1 = 1 .. Len(s)
        BY <1>1, <3>1
      <3>. HIDE DEF s
      <3>. QED
        BY <2>2, <3>2, <3>3 DEF ChainAt, r
    <2>. QED
      BY <1>1, <2>5, <2>6, <2>7, ChainOther DEF ChainOK
  <1>. QED
    BY <1>4, <1>5

LEMMA TurnReturnToParent ==
  ASSUME IndInv, ChainOK, NEW t \in Threads, NEW n \in Nodes, ReturnToParent(t, n)
  PROVE  Turning /\ ChainOK'
  <1>. DEFINE s == path[t]
              p == s[Len(s) - 1]
              r == frame[t][n].out
              i == frame[t][p].i
              got == IF i > Len(g.deps[p]) THEN frame[t][p].got \union {r} ELSE frame[t][p].got
              f == IF IsInst(r) THEN [frame[t][p] EXCEPT !.i = @ + 1, !.got = got]
                                ELSE [frame[t][p] EXCEPT !.pc = "leave", !.out = ErrResult]
  <1>1. /\ At(t, n, "return") /\ g' = g
        /\ path' = [path EXCEPT ![t] = Front(s)]
        /\ frame' = [frame EXCEPT ![t][n] = NoFrame, ![t][p] = f]
    BY DEF ReturnToParent
  <1>2. /\ s \in Seq(Nodes) /\ Len(s) \in Nat /\ Len(s) > 1 /\ n = s[Len(s)]
        /\ s # <<>> /\ frame[t][n].pc = "return"
        /\ \A a, b \in Positions(s) : s[a] = s[b] => a = b
    BY <1>1, TopOfPath DEF ReturnToParent, IndInv, TypeOK, PathOK
  <1>3. Len(s) - 1 \in Positions(s) /\ Len(s) \in Positions(s)
    BY <1>2 DEF Positions
  <1>4. /\ p \in Nodes /\ p # n /\ frame[t][p].pc = "work" /\ frame[t][p] \in FrameType
    <2>1. p \in Nodes /\ p # n
      BY <1>2, <1>3 DEF Positions
    <2>2. frame[t][p].pc = "work"
      BY <1>2, <1>3 DEF IndInv, PathOK
    <2>. QED
      BY <2>1, <2>2 DEF IndInv, TypeOK
  <1>5. i \in 1 .. Len(Work(p)) /\ Work(p)[i] = n
    <2>1. Len(s) - 1 \in 1 .. Len(s) - 1 /\ (Len(s) - 1) + 1 = Len(s)
      BY <1>2
    <2>2. \A k \in 1 .. Len(s) - 1 : /\ frame[t][s[k]].i <= Len(Work(s[k]))
                                     /\ Work(s[k])[frame[t][s[k]].i] = s[k + 1]
      BY DEF ChainOK, ChainAt
    <2>3. i <= Len(Work(p)) /\ Work(p)[i] = s[(Len(s) - 1) + 1]
      BY <2>1, <2>2
    <2>4. i \in Nat \ {0} /\ Work(p) \in Seq(Nodes)
      BY <1>4, WorkType DEF FrameType, IndInv
    <2>. HIDE DEF i, p
    <2>. QED
      BY <1>2, <2>1, <2>3, <2>4
  <1>6. \/ IsInst(r) /\ f.pc = "work" /\ f.i = i + 1 /\ f.got = got
        \/ f.pc = "leave" /\ f.i = i /\ f.got = frame[t][p].got
    <2>. HIDE DEF got, p
    <2>. QED
      BY <1>4 DEF FrameType
  <1>7. /\ path'[t] = Front(s) /\ OthersStay(t)
        /\ \A m \in Nodes : frame'[t][m] = IF m = p THEN f
                                           ELSE IF m = n THEN NoFrame ELSE frame[t][m]
    <2>. HIDE DEF p, s, f
    <2>. QED
      BY <1>1, <1>4 DEF IndInv, TypeOK, OthersStay
  <1>8. Turn(t, p)
    <2>. HIDE DEF f
    <2>1. frame'[t][p] = f
      BY <1>4, <1>7
    <2>. QED
      BY <1>2, <1>4, <1>5, <1>6, <2>1 DEF Turn
  <1>9. ASSUME NEW u \in Threads, NEW m \in Nodes PROVE Turn(u, m)
    <2>. HIDE DEF p, f, s
    <2>1. CASE u = t /\ m = p
      BY <1>8, <2>1
    <2>2. CASE u = t /\ m = n /\ m # p
      BY <1>7, <2>2, EnteredIs DEF Turn
    <2>3. CASE ~(u = t /\ m \in {n, p})
      BY <1>7, <2>3 DEF Turn, OthersStay
    <2>. QED
      BY <2>1, <2>2, <2>3
  <1>10. ChainAt(t)'
    <2>. DEFINE q == Front(s)
    <2>1. Len(q) = Len(s) - 1 /\ \A k \in Positions(q) : q[k] = s[k]
      BY <1>2, PopPath
    <2>. HIDE DEF q, f
    <2>2. \A m : Work(m)' = Work(m)
      BY <1>1 DEF Work
    <2>3. ASSUME NEW k \in 1 .. Len(q) - 1
          PROVE  LET j == frame'[t][q[k]].i
                 IN j <= Len(Work(q[k])) /\ Work(q[k])[j] = q[k + 1]
      <3>1. /\ k \in 1 .. Len(s) - 1 /\ k \in Positions(q) /\ k + 1 \in Positions(q)
            /\ k \in Positions(s) /\ k # Len(s) - 1 /\ k # Len(s)
        BY <1>2, <2>1 DEF Positions
      <3>2. q[k] = s[k] /\ q[k + 1] = s[k + 1]
        BY <2>1, <3>1
      <3>3. s[k] \in Nodes /\ s[k] # p /\ s[k] # n
        BY <1>2, <1>3, <3>1 DEF Positions
      <3>4. frame'[t][s[k]] = frame[t][s[k]]
        BY <1>7, <3>3
      <3>5. /\ frame[t][s[k]].i <= Len(Work(s[k]))
            /\ Work(s[k])[frame[t][s[k]].i] = s[k + 1]
        BY <3>1 DEF ChainOK, ChainAt
      <3>. HIDE DEF s, p
      <3>. QED
        BY <3>2, <3>4, <3>5
    <2>4. path'[t] = q
      BY <1>7 DEF q
    <2>. HIDE DEF s, p
    <2>. QED
      BY <2>2, <2>3, <2>4 DEF ChainAt
  <1>. QED
    BY <1>1, <1>7, <1>9, <1>10, ChainOther DEF Turning, ChainOK

\* Every step of a call either changes places, or it builds, stores, closes or
\* empties a cache.
LEMMA TurnInside ==
  ASSUME IndInv, HomeOK, ChainOK, NEW t \in Threads, Inside(t), g' = g
  PROVE  /\ ChainOK'
         /\ \/ Turning /\ SoftStep
            \/ \E n \in Nodes : Construct(t, n) \/ Store(t, n) \/ CloseOne(t, n)
            \/ CloseFinish(t)
  <1>1. Begin(t) => Turning /\ SoftStep /\ ChainOK'
    BY TurnBegin, SoftBegin
  <1>2. ASSUME NEW n \in Nodes, ResolveStep(t, n)
        PROVE  /\ ChainOK'
               /\ (Turning /\ SoftStep) \/ Construct(t, n) \/ Store(t, n)
    <2>1. CASE Lookup(t, n) \/ Lead(t, n) \/ Follow(t, n) \/ Recheck(t, n) \/ Leave(t, n)
      BY <2>1, TurnLookup, TurnEnter, TurnRecheck, TurnLeave, SoftLookup, SoftEnter,
         SoftRecheck, SoftLeave, ChainSteady DEF IndInv
    <2>2. CASE Fail(t, n)
      BY <2>2, TurnEnd, SoftFail, ChainSteady DEF Fail, Ends, IndInv
    <2>3. CASE Descend(t, n) \/ ReturnToParent(t, n) \/ ReturnToCaller(t, n)
      BY <2>3, TurnDescend, TurnReturnToParent, TurnReturnToCaller, SoftDescend,
         SoftReturnToParent, SoftReturnToCaller DEF IndInv
    <2>4. CASE Construct(t, n)
      <3>. DEFINE f == [frame[t][n] EXCEPT !.pc = "store", !.out = Len(built) + 1]
      <3>1. frame' = [frame EXCEPT ![t][n] = f] /\ path' = path
        BY <2>4 DEF Construct
      <3>2. f.i = frame[t][n].i
        BY DEF IndInv, TypeOK, FrameType
      <3>. HIDE DEF f
      <3>3. Steady
        BY <3>1, <3>2 DEF IndInv, TypeOK, Steady
      <3>. QED
        BY <2>4, <3>3, ChainSteady DEF IndInv
    <2>5. CASE Store(t, n)
      <3>. DEFINE f == [frame[t][n] EXCEPT !.pc = "leave"]
      <3>1. frame' = [frame EXCEPT ![t][n] = f] /\ path' = path
        BY <2>5 DEF Store
      <3>2. f.i = frame[t][n].i
        BY DEF IndInv, TypeOK, FrameType
      <3>. HIDE DEF f
      <3>3. Steady
        BY <3>1, <3>2 DEF IndInv, TypeOK, Steady
      <3>. QED
        BY <2>5, <3>3, ChainSteady DEF IndInv
    <2>. QED
      BY <1>2, <2>1, <2>2, <2>3, <2>4, <2>5 DEF ResolveStep
  <1>3. ASSUME NEW n \in Nodes, CloseOne(t, n) PROVE ChainOK'
    <2>1. Steady
      BY <1>3 DEF CloseOne, Steady
    <2>. QED
      BY <2>1, ChainSteady DEF IndInv
  <1>4. CloseFinish(t) => ChainOK'
    <2>1. CloseFinish(t) => Steady
      BY DEF CloseFinish, Steady
    <2>. QED
      BY <2>1, ChainSteady DEF IndInv
  <1>. QED
    BY <1>1, <1>2, <1>3, <1>4 DEF Inside

LEMMA ChainStep ==
  ASSUME IndInv, Control, WhereOK, ChainOK, [RNext]_allVars
  PROVE  ChainOK'
  <1>1. ASSUME NEW t \in Threads, Inside(t) PROVE ChainOK'
    BY <1>1, TurnInside, DeclaredInside DEF WhereOK
  <1>2. ASSUME NEW t \in Threads, NEW c \in Configs, NewContainer(t, c) PROVE ChainOK'
    <2>1. UNCHANGED <<path, frame>>
      BY <1>2 DEF NewContainer
    <2>2. ASSUME NEW u \in Threads, NEW j \in 1 .. Len(path[u])
          PROVE  Work(path[u][j])' = Work(path[u][j])
      <3>1. path[u] \in Seq(Nodes) /\ path[u] # <<>>
        BY DEF IndInv, TypeOK
      <3>2. batch[u] # <<>>
        BY <3>1 DEF IndInv, PathOK
      <3>3. path[u][j] \in Nodes /\ path[u][j] \in ToSet(path[u])
        BY <3>1 DEF ToSet
      <3>4. path[u][j][1] \in 1 .. Len(conf)
        BY <3>2, <3>3, HomeIsMade DEF WhereOK, HomeOK, AtHome
      <3>5. /\ g'.deps[path[u][j]] = g.deps[path[u][j]]
            /\ g'.uses[path[u][j]] = g.uses[path[u][j]]
        BY <1>2, <3>3, <3>4, GraphNewContainer DEF WhereOK
      <3>. QED
        BY <2>1, <3>5 DEF Work
    <2>3. \A u \in Threads : path[u] \in Seq(Nodes)
      BY DEF IndInv, TypeOK
    <2>4. ASSUME NEW u \in Threads PROVE ChainAt(u)'
      <3>1. \A j \in 1 .. Len(path[u]) - 1 : j \in 1 .. Len(path[u])
        BY <2>3
      <3>2. \A j \in 1 .. Len(path[u]) - 1 : Work(path[u][j])' = Work(path[u][j])
        BY <2>2, <3>1
      <3>. QED
        BY <2>1, <3>2 DEF ChainAt, ChainOK
    <2>. QED
      BY <2>4 DEF ChainOK
  <1>3. CASE UNCHANGED <<g, path, frame>>
    <2>1. Steady
      BY <1>3 DEF Steady
    <2>. QED
      BY <1>3, <2>1, ChainSteady DEF IndInv
  <1>4. ASSUME NEW t \in Threads, Step(t) \/ Call(t), ~Inside(t),
               ~\E c \in Configs : NewContainer(t, c)
        PROVE  UNCHANGED <<g, path, frame>>
    BY <1>4 DEF Step, Call, Install, LockAndDiff, Reuse, Prewarm, Switch, Unlock, Expire, Undo,
       Return, Current, Use, CallResolve, vars
  <1>5. UNCHANGED allVars \/ Quiet => UNCHANGED <<g, path, frame>>
    BY DEF Quiet, allVars, vars
  <1>. QED
    BY <1>1, <1>2, <1>3, <1>4, <1>5 DEF RNext

\* Who is not prewarmed yet builds nothing, and nobody else builds there.
LEMMA BareStep ==
  ASSUME IndInv, Control, WhereOK, OriginOK, BareOK, Control', [RNext]_allVars
  PROVE  BareOK'
  <1>1. ASSUME NEW u \in Threads, Inside(u), UNCHANGED rvars,
               NEW t \in Threads, rec[t].pc \in {"lock", "inject"}, NEW i \in Instances'
        PROVE  built'[i].node[1] # rec[t].next
    <2>1. CASE i \in Instances
      BY <1>1, <2>1, BuiltEffect DEF BareOK, WhereOK
    <2>2. CASE i \notin Instances
      <3>1. PICK n \in Nodes : Construct(u, n) /\ built'[i].node = n
        BY <1>1, <2>2, BuiltEffect DEF WhereOK
      <3>2. n[1] = Home(u) /\ batch[u] # <<>>
        BY <3>1, BuildsAtHome DEF WhereOK
      <3>3. t \in Reconcilers
        BY <1>1 DEF Control, RecOK
      <3>4. u # t
        BY <1>1, <3>2, <3>3, IdleIs DEF WhereOK
      <3>5. Home(u) # rec[t].next
        BY <1>1, <3>2, <3>4, Elsewhere DEF WhereOK, Unseen
      <3>. QED
        BY <3>1, <3>2, <3>5
    <2>. QED
      BY <2>1, <2>2
  <1>2. ASSUME NEW u \in Threads, Step(u) \/ Call(u), UNCHANGED built,
               NEW t \in Threads, rec'[t].pc \in {"lock", "inject"}, NEW i \in Instances
        PROVE  built'[i].node[1] # rec'[t].next
    <2>1. CASE NewTo(t)
      <3>1. PICK c \in Configs : NewContainer(t, c)
        BY <2>1 DEF NewTo
      <3>2. rec'[t].next = Len(conf) + 1 /\ Len(conf) \in Nat
        BY <3>1, Appended
      <3>3. built[i].node \in Nodes
        BY InstanceIs DEF IndInv
      <3>4. built[i].node[1] \in 1 .. Len(conf)
        BY <3>3 DEF OriginOK, Specified
      <3>. QED
        BY <1>2, <3>2, <3>4
    <2>2. CASE rec[t].pc \in {"lock", "inject"} /\ rec'[t].next = rec[t].next
      BY <1>2, <2>2 DEF BareOK
    <2>. QED
      BY <1>2, <2>1, <2>2, LocalsMove
  <1>3. CASE UNCHANGED allVars
    BY <1>3 DEF BareOK, Instances, allVars, vars, rvars
  <1>4. CASE UNCHANGED built /\ \E u \in Threads : Step(u) \/ Call(u)
    <2>1. Instances' = Instances
      BY <1>4 DEF Instances
    <2>. QED
      BY <1>2, <1>4, <2>1 DEF BareOK
  <1>5. CASE \E u \in Threads : Inside(u) /\ UNCHANGED rvars
    <2>1. rec' = rec
      BY <1>5 DEF rvars
    <2>. QED
      BY <1>1, <1>5, <2>1 DEF BareOK
  <1>. QED
    BY <1>3, <1>4, <1>5, FramesChangeInside DEF RNext, Quiet

LEMMA GivenIs ==
  ASSUME IndInv, Control, GraphOK, NEW n \in Nodes
  PROVE  /\ Len(Work(n)) = Len(g.deps[n]) + Len(g.uses[n])
         /\ Len(g.deps[n]) \in Nat /\ Len(g.uses[n]) \in Nat
         /\ Given(n, 1) = {}
         /\ Given(n, Len(Work(n)) + 1) = ToSet(g.uses[n])
         /\ \A i \in 1 .. Len(Work(n)) :
              Given(n, i + 1) = IF i > Len(g.deps[n]) THEN Given(n, i) \union {Work(n)[i]}
                                                      ELSE Given(n, i)
         /\ \A i \in 1 .. Len(Work(n)) + 1 : \A d \in Given(n, i) : d \in Nodes /\ d[1] = n[1]
         /\ \A d \in ToSet(g.uses[n]) : d \in Nodes /\ d[1] = n[1]
         /\ \A i \in 1 .. Len(Work(n)) : Work(n)[i] \in Nodes /\ Work(n)[i][1] = n[1]
  <1>1. PICK a, b : a = g.deps[n] /\ b = g.uses[n]
    OBVIOUS
  <1>. DEFINE w == a \o b
  <1>2. /\ a \in Seq(Nodes) /\ b \in Seq(Nodes) /\ Work(n) = w
    BY <1>1 DEF IndInv, TypeOK, GraphType, Work
  <1>3. /\ Len(a) \in Nat /\ Len(b) \in Nat /\ Len(w) = Len(a) + Len(b) /\ w \in Seq(Nodes)
        /\ \A i \in 1 .. Len(b) : w[Len(a) + i] = b[i]
    BY <1>2
  <1>. HIDE DEF w
  <1>4. ToSet(b) = {b[i] : i \in 1 .. Len(b)} /\ ToSet(w) = {w[i] : i \in 1 .. Len(w)}
    <2>1. DOMAIN b = 1 .. Len(b) /\ DOMAIN w = 1 .. Len(w)
      BY <1>2, <1>3
    <2>. QED
      BY <2>1 DEF ToSet
  <1>5. \A i \in 1 .. Len(w) : w[i] \in Nodes /\ w[i][1] = n[1]
    <2>1. ToSet(w) = {} \/ ToSet(w) = {<<n[1], d>> : d \in ToSet(SpecOf(n).deps)}
      BY <1>2, WorkIs
    <2>2. \A d \in ToSet(w) : d[1] = n[1]
      BY <2>1
    <2>. QED
      BY <1>3, <1>4, <2>2
  <1>6. \A i : Given(n, i) = {w[j] : j \in Len(a) + 1 .. i - 1}
    BY <1>1, <1>2 DEF Given
  <1>7. Given(n, 1) = {}
    <2>1. Len(a) + 1 .. 1 - 1 = {}
      BY <1>3
    <2>. QED
      BY <1>6, <2>1
  <1>8. Given(n, Len(w) + 1) = ToSet(b)
    <2>1. Len(w) + 1 - 1 = Len(a) + Len(b)
      BY <1>3
    <2>2. Given(n, Len(w) + 1) = {w[j] : j \in Len(a) + 1 .. Len(a) + Len(b)}
      BY <1>6, <2>1
    <2>3. ASSUME NEW j \in Len(a) + 1 .. Len(a) + Len(b) PROVE w[j] \in ToSet(b)
      <3>1. j - Len(a) \in 1 .. Len(b) /\ Len(a) + (j - Len(a)) = j
        BY <1>3
      <3>. QED
        BY <1>3, <1>4, <3>1
    <2>4. ASSUME NEW i \in 1 .. Len(b) PROVE b[i] \in Given(n, Len(w) + 1)
      <3>1. Len(a) + i \in Len(a) + 1 .. Len(a) + Len(b)
        BY <1>3
      <3>. QED
        BY <1>3, <2>2, <3>1
    <2>. QED
      BY <1>4, <2>2, <2>3, <2>4
  <1>9. ASSUME NEW i \in 1 .. Len(w)
        PROVE  Given(n, i + 1) = IF i > Len(a) THEN Given(n, i) \union {w[i]} ELSE Given(n, i)
    <2>1. CASE i > Len(a)
      <3>1. Len(a) + 1 .. (i + 1) - 1 = (Len(a) + 1 .. i - 1) \union {i}
        BY <1>3, <2>1
      <3>. QED
        BY <1>6, <2>1, <3>1
    <2>2. CASE ~(i > Len(a))
      <3>1. Len(a) + 1 .. (i + 1) - 1 = {} /\ Len(a) + 1 .. i - 1 = {}
        BY <1>3, <2>2
      <3>. QED
        BY <1>6, <2>2, <3>1
    <2>. QED
      BY <2>1, <2>2
  <1>10. ASSUME NEW i \in 1 .. Len(w) + 1, NEW d \in Given(n, i)
         PROVE  d \in Nodes /\ d[1] = n[1]
    <2>1. PICK j \in Len(a) + 1 .. i - 1 : d = w[j]
      BY <1>6
    <2>2. j \in 1 .. Len(w)
      BY <1>3
    <2>. QED
      BY <1>5, <2>1, <2>2
  <1>11. \A d \in ToSet(b) : d \in Nodes /\ d[1] = n[1]
    <2>1. Len(w) + 1 \in 1 .. Len(w) + 1
      BY <1>3
    <2>. QED
      BY <1>8, <1>10, <2>1
  <1>. QED
    BY <1>1, <1>2, <1>3, <1>5, <1>7, <1>8, <1>9, <1>10, <1>11

LEMMA WiredToStays ==
  ASSUME NEW D, NEW insts, WiredTo(D, insts), \A d \in D : cache[d] # NoInst => cache'[d] = cache[d]
  PROVE  WiredTo(D, insts)'
  <1>1. \A d \in D : cache'[d] = cache[d]
    BY DEF WiredTo
  <1>. QED
    BY <1>1 DEF WiredTo

\* What has to be shown of a call after a step.
LEMMA CallWiredNext ==
  ASSUME g' = g, NEW t \in Threads, NEW n \in Nodes, NEW h, h = frame'[t][n],
         h.pc \in {"lookup", "enter", "recheck"} => h.i = 1 /\ h.got = {},
         h.pc = "work" => /\ h.i <= Len(Work(n)) + 1
                          /\ \E D : D = Given(n, h.i) /\ WiredTo(D, h.got)',
         h.pc = "store" => \E D, insts : /\ D = ToSet(g.uses[n]) /\ insts = built'[h.out].uses
                                         /\ WiredTo(D, insts)',
         h.pc \in {"work", "store"} => cache'[n] = NoInst,
         h.pc \in {"leave", "return"} /\ IsInst(h.out) => h.out = cache'[n]
  PROVE  CallWired(t, n)'
  <1>1. ASSUME h.pc = "work"
        PROVE  (frame[t][n].i <= Len(Work(n)) + 1
                 /\ WiredTo(Given(n, frame[t][n].i), frame[t][n].got))'
    <2>1. PICK D : D = Given(n, h.i) /\ WiredTo(D, h.got)'
      BY <1>1
    <2>2. \A d \in D : cache'[d] # NoInst
      BY <2>1 DEF WiredTo
    <2>3. h.got = {cache'[d] : d \in D}
      BY <2>1 DEF WiredTo
    <2>4. Given(n, frame[t][n].i)' = D
      BY <2>1 DEF Given, Work
    <2>5. (frame[t][n].i <= Len(Work(n)) + 1)'
      BY <1>1 DEF Work
    <2>6. WiredTo(Given(n, frame[t][n].i), frame[t][n].got)'
      BY <2>2, <2>3, <2>4 DEF WiredTo
    <2>. QED
      BY <2>5, <2>6
  <1>2. ASSUME h.pc = "store"
        PROVE  WiredTo(ToSet(g.uses[n]), built[frame[t][n].out].uses)'
    <2>1. PICK D, insts : D = ToSet(g.uses[n]) /\ insts = built'[h.out].uses
                          /\ WiredTo(D, insts)'
      BY <1>2
    <2>. QED
      BY <2>1 DEF WiredTo
  <1>3. /\ (frame[t][n].pc \in {"lookup", "enter", "recheck"} =>
              frame[t][n].i = 1 /\ frame[t][n].got = {})'
        /\ (frame[t][n].pc \in {"work", "store"} => cache[n] = NoInst)'
        /\ (frame[t][n].pc \in {"leave", "return"} /\ IsInst(frame[t][n].out) =>
              frame[t][n].out = cache[n])'
    BY DEF IsInst
  <1>. QED
    BY <1>1, <1>2, <1>3 DEF CallWired

\* Container k may fill and its instances may be closed; what changes has to be
\* wired.
LEMMA WiredStays ==
  ASSUME IndInv, Control, GraphOK, NEW k \in Made, WiredAt(k), g' = g,
         Instances \subseteq Instances',
         \A i \in Instances : built'[i].node = built[i].node /\ built'[i].uses = built[i].uses,
         \A n \in Nodes : n[1] = k /\ cache[n] # NoInst => cache'[n] = cache[n],
         \A n \in Nodes : n[1] = k /\ cache'[n] # cache[n] =>
            cache'[n] \in Instances /\ WiredTo(ToSet(g.uses[n]), built[cache'[n]].uses),
         \A t \in Threads, n \in Nodes : n[1] = k =>
            \/ /\ frame'[t][n] = frame[t][n]
               /\ frame[t][n].pc \in {"work", "store"} => cache'[n] = NoInst
            \/ CallWired(t, n)'
  PROVE  WiredAt(k)'
  <1>1. ASSUME NEW n \in Nodes, n[1] = k, NEW D, NEW insts, WiredTo(D, insts),
               \A d \in D : d \in Nodes /\ d[1] = n[1]
        PROVE  WiredTo(D, insts)'
    BY <1>1, WiredToStays
  <1>2. ASSUME NEW n \in Nodes, n[1] = k, cache'[n] # NoInst, built'[cache'[n]].node[1] = k
        PROVE  WiredTo(ToSet(g.uses[n]), built[cache[n]].uses)'
    <2>1. PICK j : j = cache'[n]
      OBVIOUS
    <2>2. j \in Instances /\ WiredTo(ToSet(g.uses[n]), built[j].uses)
      <3>1. CASE cache[n] = j
        <4>1. j \in Instances
          BY <1>2, <2>1, <3>1 DEF IndInv, TypeOK
        <4>. QED
          BY <1>2, <2>1, <3>1, <4>1 DEF WiredAt
      <3>2. CASE cache[n] # j
        BY <1>2, <2>1, <3>2
      <3>. QED
        BY <3>1, <3>2
    <2>3. PICK D, insts : D = ToSet(g.uses[n]) /\ insts = built[j].uses
      OBVIOUS
    <2>4. \A d \in D : d \in Nodes /\ d[1] = n[1]
      BY <2>3, GivenIs
    <2>5. WiredTo(D, insts)'
      BY <1>1, <1>2, <2>2, <2>3, <2>4
    <2>6. built'[cache'[n]].uses = insts
      BY <2>1, <2>2, <2>3
    <2>. QED
      BY <2>3, <2>5, <2>6 DEF WiredTo
  <1>3. ASSUME NEW t \in Threads, NEW n \in Nodes, n[1] = k, NEW h, h = frame'[t][n],
               h = frame[t][n], h.pc \in {"work", "store"} => cache'[n] = NoInst
        PROVE  CallWired(t, n)'
    <2>1. CallWired(t, n)
      BY <1>3 DEF WiredAt
    <2>2. h \in FrameType
      BY <1>3 DEF IndInv, TypeOK
    <2>3. ASSUME h.pc = "work"
          PROVE  /\ h.i <= Len(Work(n)) + 1
                 /\ \E D : D = Given(n, h.i) /\ WiredTo(D, h.got)'
      <3>1. PICK D : D = Given(n, h.i)
        OBVIOUS
      <3>2. WiredTo(D, h.got) /\ h.i <= Len(Work(n)) + 1
        BY <1>3, <2>1, <2>3, <3>1 DEF CallWired
      <3>3. h.i \in 1 .. Len(Work(n)) + 1
        <4>1. h.i \in Nat \ {0} /\ Len(Work(n)) \in Nat
          BY <2>2, GivenIs DEF FrameType
        <4>. QED
          BY <3>2, <4>1
      <3>4. \A d \in D : d \in Nodes /\ d[1] = n[1]
        BY <3>1, <3>3, GivenIs
      <3>5. WiredTo(D, h.got)'
        BY <1>1, <1>3, <3>2, <3>4
      <3>. QED
        BY <3>1, <3>2, <3>5
    <2>4. ASSUME h.pc = "store"
          PROVE  \E D, insts : /\ D = ToSet(g.uses[n]) /\ insts = built'[h.out].uses
                               /\ WiredTo(D, insts)'
      <3>1. h.out \in Instances
        BY <1>3, <2>4 DEF IndInv, HandOK
      <3>2. PICK D, insts : D = ToSet(g.uses[n]) /\ insts = built[h.out].uses
        OBVIOUS
      <3>3. WiredTo(D, insts)
        BY <1>3, <2>1, <2>4, <3>2 DEF CallWired
      <3>4. \A d \in D : d \in Nodes /\ d[1] = n[1]
        BY <3>2, GivenIs
      <3>5. WiredTo(D, insts)'
        BY <1>1, <1>3, <3>3, <3>4
      <3>6. built'[h.out].uses = insts
        BY <3>1, <3>2
      <3>. QED
        BY <3>2, <3>5, <3>6
    <2>5. h.pc \in {"leave", "return"} /\ IsInst(h.out) => h.out = cache'[n]
      <3>1. SUFFICES ASSUME h.pc \in {"leave", "return"}, IsInst(h.out) PROVE h.out = cache'[n]
        OBVIOUS
      <3>2. h.out = cache[n] /\ h.out # NoInst
        BY <1>3, <2>1, <3>1 DEF CallWired, IsInst, NoInst
      <3>. QED
        BY <1>3, <3>2
    <2>6. h.pc \in {"lookup", "enter", "recheck"} => h.i = 1 /\ h.got = {}
      BY <1>3, <2>1 DEF CallWired
    <2>. QED
      BY <1>3, <2>3, <2>4, <2>5, <2>6, CallWiredNext
  <1>4. ASSUME NEW t \in Threads, NEW n \in Nodes, n[1] = k PROVE CallWired(t, n)'
    BY <1>3, <1>4
  <1>. QED
    BY <1>2, <1>4 DEF WiredAt

LEMMA WiredToOne ==
  ASSUME NEW D, NEW insts, WiredTo(D, insts), NEW c, cache[c] # NoInst
  PROVE  WiredTo(D \union {c}, insts \union {cache[c]})
  BY DEF WiredTo

LEMMA WiredTurn ==
  ASSUME IndInv, Control, GraphOK, NEW k \in Made, WiredAt(k), QuietStep,
         NEW u \in Threads, NEW n \in Nodes, n[1] = k, Turn(u, n), SoftFrame(u, n)
  PROVE  frame'[u][n] = frame[u][n] \/ CallWired(u, n)'
  <1>1. PICK f, h : f = frame[u][n] /\ h = frame'[u][n]
    OBVIOUS
  <1>2. /\ g' = g /\ cache' = cache /\ built' = built
        /\ CallWired(u, n) /\ f \in FrameType
    BY <1>1 DEF QuietStep, WiredAt, IndInv, TypeOK
  <1>3. h.pc \in {"leave", "return"} /\ IsInst(h.out) => h.out = cache'[n]
    <2>. SUFFICES ASSUME h.pc \in {"leave", "return"}, IsInst(h.out) PROVE h.out = cache[n]
      BY <1>2
    <2>1. CASE h.out = f.out /\ f.pc \in {"leave", "return"}
      BY <1>1, <1>2, <2>1 DEF CallWired
    <2>2. CASE \E v \in Threads : h.out = frame[v][n].out /\ frame[v][n].pc = "leave"
      <3>1. PICK v \in Threads : h.out = frame[v][n].out /\ frame[v][n].pc = "leave"
        BY <2>2
      <3>2. CallWired(v, n)
        BY DEF WiredAt
      <3>. QED
        BY <3>1, <3>2 DEF CallWired
    <2>3. h.out # ErrResult
      BY DEF IsInst, ErrResult
    <2>. QED
      BY <1>1, <2>1, <2>2, <2>3 DEF SoftFrame
  <1>4. \A D, insts : WiredTo(D, insts) => WiredTo(D, insts)'
    BY <1>2, WiredToStays
  <1>5. CASE h = Entered
    <2>1. h.pc = "lookup" /\ h.i = 1 /\ h.got = {}
      BY <1>5 DEF Entered, NoFrame
    <2>. QED
      BY <1>1, <1>2, <2>1, CallWiredNext
  <1>6. CASE h.pc \in {"none", "wait", "leave", "return"}
    BY <1>1, <1>2, <1>3, <1>6, CallWiredNext
  <1>7. CASE /\ h.i = f.i /\ h.got = f.got
             /\ f.pc \in {"lookup", "enter"} /\ h.pc \in {"enter", "recheck"}
    <2>1. h.i = 1 /\ h.got = {}
      BY <1>1, <1>2, <1>7 DEF CallWired
    <2>. QED
      BY <1>1, <1>2, <1>7, <2>1, CallWiredNext
  <1>8. CASE /\ h.i = f.i /\ h.got = f.got
             /\ f.pc = "recheck" /\ h.pc = "work" /\ cache[n] = NoInst
    <2>1. h.i = 1 /\ h.got = {}
      BY <1>1, <1>2, <1>8 DEF CallWired
    <2>2. Len(Work(n)) \in Nat
      BY GivenIs
    <2>6. PICK D : D = Given(n, 1)
      OBVIOUS
    <2>7. D = {}
      BY <2>6, GivenIs
    <2>3. WiredTo({}, {})
      BY DEF WiredTo
    <2>4. h.i <= Len(Work(n)) + 1 /\ \E E : E = Given(n, h.i) /\ WiredTo(E, h.got)'
      <3>1. D = Given(n, h.i) /\ WiredTo(D, h.got)'
        BY <1>4, <2>1, <2>3, <2>6, <2>7
      <3>. QED
        BY <2>1, <2>2, <3>1
    <2>5. cache'[n] = NoInst
      BY <1>2, <1>8
    <2>. QED
      BY <1>1, <1>2, <1>8, <2>4, <2>5, CallWiredNext
  <1>9. ASSUME NEW i, i = f.i, NEW c, c = Work(n)[i],
               f.pc = "work", h.pc = "work", i \in 1 .. Len(Work(n)), h.i = i + 1,
               frame[u][c].pc = "return", IsInst(frame[u][c].out),
               h.got = IF i > Len(g.deps[n]) THEN f.got \union {frame[u][c].out} ELSE f.got
        PROVE  CallWired(u, n)'
    <2>1. c \in Nodes /\ c[1] = k
      BY <1>9, GivenIs
    <2>2. frame[u][c].out = cache[c] /\ cache[c] # NoInst
      BY <1>9, <2>1 DEF WiredAt, CallWired, IsInst, NoInst
    <2>3. WiredTo(Given(n, i), f.got) /\ cache[n] = NoInst
      BY <1>1, <1>2, <1>9 DEF CallWired
    <2>4. PICK D : D = Given(n, i)
      OBVIOUS
    <2>5. PICK E : E = Given(n, h.i)
      OBVIOUS
    <2>6. E = IF i > Len(g.deps[n]) THEN D \union {c} ELSE D
      BY <1>9, <2>4, <2>5, GivenIs
    <2>7. WiredTo(E, h.got)
      <3>1. WiredTo(D, f.got)
        BY <2>3, <2>4
      <3>2. WiredTo(D \union {c}, f.got \union {cache[c]})
        BY <2>2, <3>1, WiredToOne
      <3>. QED
        BY <1>9, <2>2, <2>6, <3>1, <3>2
    <2>8. Len(Work(n)) \in Nat
      BY GivenIs
    <2>9. h.i <= Len(Work(n)) + 1
      BY <1>9, <2>8
    <2>10. cache'[n] = NoInst
      BY <1>2, <2>3
    <2>. QED
      BY <1>1, <1>2, <1>4, <1>9, <2>5, <2>7, <2>9, <2>10, CallWiredNext
  <1>. QED
    BY <1>1, <1>5, <1>6, <1>7, <1>8, <1>9 DEF Turn

LEMMA WiredSoft ==
  ASSUME IndInv, Control, GraphOK, NEW k \in Made, WiredAt(k), Turning, SoftStep
  PROVE  WiredAt(k)'
  <1>1. QuietStep /\ g' = g /\ cache' = cache /\ built' = built /\ Instances' = Instances
    BY DEF SoftStep, QuietStep, Instances
  <1>2. ASSUME NEW u \in Threads, NEW n \in Nodes, n[1] = k
        PROVE  \/ /\ frame'[u][n] = frame[u][n]
                  /\ frame[u][n].pc \in {"work", "store"} => cache'[n] = NoInst
               \/ CallWired(u, n)'
    <2>1. frame'[u][n] = frame[u][n] \/ CallWired(u, n)'
      BY <1>1, <1>2, WiredTurn DEF Turning, SoftStep
    <2>2. frame[u][n].pc \in {"work", "store"} => cache[n] = NoInst
      BY <1>2 DEF WiredAt, CallWired
    <2>. QED
      BY <1>1, <2>1, <2>2
  <1>. QED
    BY <1>1, <1>2, WiredStays

LEMMA WiredConstruct ==
  ASSUME IndInv, Control, GraphOK, NEW k \in Made, WiredAt(k),
         NEW t \in Threads, NEW m \in Nodes, Construct(t, m)
  PROVE  WiredAt(k)'
  <1>. DEFINE new == Len(built) + 1
  <1>1. /\ g' = g /\ cache' = cache /\ frame[t][m].pc = "work"
        /\ Instances' = Instances \union {new}
        /\ \A i \in Instances : built'[i] = built[i]
        /\ frame'[t][m].pc = "store" /\ frame'[t][m].out = new
        /\ \A u \in Threads, n \in Nodes : <<u, n>> # <<t, m>> => frame'[u][n] = frame[u][n]
        /\ built'[new].uses = frame[t][m].got
    BY ConstructEffect, ConstructUses DEF IndInv
  <1>. HIDE DEF new
  <1>2. frame[t][m].i = Len(Work(m)) + 1
    BY DEF Construct
  <1>3. ASSUME m[1] = k PROVE CallWired(t, m)'
    <2>1. PICK h, insts, D : /\ h = frame'[t][m] /\ insts = frame[t][m].got
                             /\ D = ToSet(g.uses[m])
      OBVIOUS
    <2>2. CallWired(t, m)
      BY <1>3 DEF WiredAt
    <2>3. WiredTo(Given(m, frame[t][m].i), insts) /\ cache[m] = NoInst
      BY <1>1, <2>1, <2>2 DEF CallWired
    <2>4. Given(m, Len(Work(m)) + 1) = D
      BY <2>1, GivenIs
    <2>5. WiredTo(D, insts)'
      BY <1>1, <1>2, <2>3, <2>4, WiredToStays
    <2>6. insts = built'[h.out].uses /\ h.pc = "store"
      BY <1>1, <2>1
    <2>7. \E E, is : E = ToSet(g.uses[m]) /\ is = built'[h.out].uses /\ WiredTo(E, is)'
      BY <2>1, <2>5, <2>6
    <2>. QED
      BY <1>1, <2>1, <2>3, <2>6, <2>7, CallWiredNext
  <1>4. ASSUME NEW u \in Threads, NEW n \in Nodes, n[1] = k
        PROVE  \/ /\ frame'[u][n] = frame[u][n]
                  /\ frame[u][n].pc \in {"work", "store"} => cache'[n] = NoInst
               \/ CallWired(u, n)'
    <2>1. CallWired(u, n)
      BY <1>4 DEF WiredAt
    <2>2. CASE <<u, n>> = <<t, m>>
      BY <1>3, <1>4, <2>2
    <2>3. CASE <<u, n>> # <<t, m>>
      BY <1>1, <2>1, <2>3 DEF CallWired
    <2>. QED
      BY <2>2, <2>3
  <1>. QED
    BY <1>1, <1>4, WiredStays

LEMMA WiredStore ==
  ASSUME IndInv, Control, GraphOK, NEW k \in Made, WiredAt(k),
         NEW t \in Threads, NEW m \in Nodes, Store(t, m)
  PROVE  WiredAt(k)'
  <1>1. PICK x : x = frame[t][m].out
    OBVIOUS
  <1>2. /\ g' = g /\ built' = built /\ Instances' = Instances /\ x \in Instances
        /\ frame[t][m].pc = "store" /\ frame'[t][m].pc = "leave" /\ frame'[t][m].out = x
        /\ \A u \in Threads, n \in Nodes : <<u, n>> # <<t, m>> => frame'[u][n] = frame[u][n]
        /\ \A n \in Nodes : cache'[n] = IF n = m THEN x ELSE cache[n]
    BY <1>1, StoreEffect, StoreKeeps DEF IndInv, Instances
  <1>3. m[1] = k => cache[m] = NoInst /\ WiredTo(ToSet(g.uses[m]), built[x].uses)
    BY <1>1, <1>2 DEF WiredAt, CallWired
  <1>4. CallWired(t, m)'
    BY <1>2, CallWiredNext
  <1>5. ASSUME NEW u \in Threads, NEW n \in Nodes, n[1] = k
        PROVE  \/ /\ frame'[u][n] = frame[u][n]
                  /\ frame[u][n].pc \in {"work", "store"} => cache'[n] = NoInst
               \/ CallWired(u, n)'
    <2>1. CallWired(u, n)
      BY <1>5 DEF WiredAt
    <2>2. CASE u = t /\ n = m
      BY <1>4, <2>2
    <2>3. CASE n # m
      BY <1>2, <2>1, <2>3 DEF CallWired
    <2>4. CASE n = m /\ u # t
      <3>1. frame[u][m].pc \notin {"work", "store"}
        BY <1>2, <2>4 DEF IndInv, FlightOwner, Leads, LeaderPCs
      <3>. QED
        BY <1>2, <2>4, <3>1
    <2>. QED
      BY <2>2, <2>3, <2>4
  <1>6. \A n \in Nodes : n[1] = k /\ cache[n] # NoInst => cache'[n] = cache[n]
    BY <1>2, <1>3
  <1>7. \A n \in Nodes : n[1] = k /\ cache'[n] # cache[n] =>
          cache'[n] \in Instances /\ WiredTo(ToSet(g.uses[n]), built[cache'[n]].uses)
    BY <1>2, <1>3
  <1>. QED
    BY <1>2, <1>5, <1>6, <1>7, WiredStays

\* Nothing of container k changes but that instances are closed.
LEMMA WiredSame ==
  ASSUME IndInv, Control, GraphOK, NEW k \in Made, WiredAt(k), g' = g, frame' = frame,
         Instances' = Instances,
         \A i \in Instances : built'[i].node = built[i].node /\ built'[i].uses = built[i].uses,
         \A n \in Nodes : n[1] = k => cache'[n] = cache[n]
  PROVE  WiredAt(k)'
  <1>1. \A u \in Threads, n \in Nodes : n[1] = k =>
           (frame[u][n].pc \in {"work", "store"} => cache'[n] = NoInst)
    BY DEF WiredAt, CallWired
  <1>. QED
    BY <1>1, WiredStays

\* No close goes through a container that is kept.
LEMMA KeptStaysFull ==
  ASSUME IndInv, Control, HomeOK, NEW k \in Made, Kept(k), NEW t \in Threads,
         closing[t].active, NEW m \in Forgotten(closing[t])
  PROVE  m[1] # k
  <1>1. \/ rec[t].pc = "closing" /\ m[1] = rec[t].old
        \/ rec[t].pc = "undo" /\ m[1] = rec[t].next
    BY ForgottenIs
  <1>2. CASE k = current
    BY <1>1, <1>2 DEF Control, RecOK, Unseen
  <1>3. ASSUME NEW u \in Threads, rec[u].next = k, mu = u
        PROVE  m[1] # k
    <2>1. rec[u].pc \in {"inject", "warm"} /\ RecOK(u)
      BY <1>3 DEF Control, RecOK
    <2>2. rec[t].old # k
      BY <1>3, <2>1 DEF RecOK, Unseen
    <2>3. rec[t].pc = "undo" => rec[t].next # k
      BY <1>3, <2>1 DEF RecOK
    <2>. QED
      BY <1>1, <2>2, <2>3
  <1>. QED
    BY <1>2, <1>3 DEF Kept

LEMMA WiredInside ==
  ASSUME IndInv, Control, WhereOK, ChainOK, NEW k \in Made, Kept(k), WiredAt(k),
         NEW t \in Threads, Inside(t)
  PROVE  WiredAt(k)'
  <1>1. g' = g /\ GraphOK /\ HomeOK
    BY DeclaredInside DEF WhereOK
  <1>2. ASSUME NEW n \in Nodes, CloseOne(t, n) PROVE WiredAt(k)'
    <2>1. /\ cache' = cache /\ frame' = frame /\ Instances' = Instances
          /\ \A i \in Instances : built'[i].node = built[i].node
          /\ \A i \in Instances : built'[i].uses = built[i].uses
      BY <1>2, CloseOneEffect, CloseOneKeeps DEF IndInv
    <2>. QED
      BY <1>1, <2>1, WiredSame
  <1>3. CASE CloseFinish(t)
    <2>1. /\ frame' = frame /\ built' = built /\ closing[t].active
          /\ \A n \in Nodes : n \notin Forgotten(closing[t]) => cache'[n] = cache[n]
      BY <1>3 DEF CloseFinish
    <2>2. Instances' = Instances
      BY <2>1 DEF Instances
    <2>3. \A n \in Nodes : n[1] = k => cache'[n] = cache[n]
      BY <1>1, <2>1, KeptStaysFull
    <2>. QED
      BY <1>1, <2>1, <2>2, <2>3, WiredSame
  <1>4. CASE Turning /\ SoftStep
    BY <1>1, <1>4, WiredSoft
  <1>5. CASE \E n \in Nodes : Construct(t, n) \/ Store(t, n)
    BY <1>1, <1>5, WiredConstruct, WiredStore
  <1>. QED
    BY <1>1, <1>2, <1>3, <1>4, <1>5, TurnInside

\* Nothing was built in container k, and nobody works in it.
LEMMA WiredBare ==
  ASSUME NEW k, \A n \in Nodes : n[1] = k =>
           /\ cache[n] # NoInst => built[cache[n]].node[1] # k
           /\ \A t \in Threads : frame[t][n].pc = "none"
  PROVE  WiredAt(k)
  BY DEF WiredAt, CallWired

LEMMA FreshIsEmpty ==
  ASSUME IndInv, Control, HomeOK, FreshOK, NEW k \in Made, Fresh(k), NEW n \in Nodes, n[1] = k
  PROVE  cache[n] = NoInst /\ \A t \in Threads : frame[t][n].pc = "none"
  <1>1. cache[n] = NoInst
    <2>. SUFFICES ASSUME cache[n] # NoInst PROVE FALSE
      OBVIOUS
    <2>1. cache[n] \in Instances
      BY DEF IndInv, TypeOK
    <2>. QED
      BY <2>1 DEF FreshOK, Near
  <1>2. ASSUME NEW u \in Threads, frame[u][n].pc # "none" PROVE FALSE
    <2>1. ASSUME NEW t \in Threads, rec[t].pc = "lock", rec[t].next = k PROVE FALSE
      BY <1>2, <2>1, OnlyOwnFrames DEF Unseen
    <2>2. n \in ToSet(path[u]) /\ path[u] # <<>> /\ batch[u] # <<>>
      <3>1. n \in ToSet(path[u])
        BY <1>2 DEF IndInv, PathOK
      <3>2. path[u] # <<>>
        BY <3>1 DEF ToSet
      <3>. QED
        BY <3>1, <3>2 DEF IndInv, PathOK
    <2>3. n[1] = Home(u)
      BY <2>2 DEF HomeOK, AtHome
    <2>4. Home(u) \in 1 .. Len(conf)
      BY <2>2, HomeIsMade
    <2>. QED
      BY <2>1, <2>3, <2>4, MadeIs DEF Fresh
  <1>. QED
    BY <1>1, <1>2

LEMMA WiredBefore ==
  ASSUME IndInv, Control, Control', HomeOK, FreshOK, WiredOK, [RNext]_allVars,
         NEW k \in Made, Kept(k)'
  PROVE  WiredAt(k)
  <1>1. CASE Kept(k)
    BY <1>1 DEF WiredOK
  <1>2. CASE Fresh(k)
    BY <1>2, FreshIsEmpty, WiredBare
  <1>. QED
    BY <1>1, <1>2, KeptMoves

LEMMA WiredReuse ==
  ASSUME IndInv, Control, WhereOK, BareOK, NEW k \in Made, WiredAt(k),
         NEW t \in Threads, Reuse(t)
  PROVE  WiredAt(k)'
  <1>1. PICK o, k0, id : o = rec[t].old /\ k0 = rec[t].next /\ id = Head(rec[t].todo)
    OBVIOUS
  <1>2. /\ g' = g /\ frame' = frame /\ built' = built /\ rec[t].pc = "inject"
        /\ <<o, id>> \in Nodes /\ <<k0, id>> \in Nodes
        /\ \A n \in Nodes : cache'[n] = IF n = <<k0, id>> /\ cache[<<o, id>>] # NoInst
                                          THEN cache[<<o, id>>] ELSE cache[n]
    BY <1>1, ReuseEffect
  <1>3. Instances' = Instances /\ GraphOK /\ HomeOK
    BY <1>2 DEF Instances, WhereOK
  <1>4. CASE k # k0
    <2>1. \A n \in Nodes : n[1] = k => cache'[n] = cache[n]
      BY <1>2, <1>4
    <2>. QED
      BY <1>2, <1>3, <2>1, WiredSame
  <1>5. CASE k = k0
    <2>1. ASSUME NEW n \in Nodes, n[1] = k, NEW u \in Threads PROVE frame'[u][n].pc = "none"
      <3>1. Unseen(t) /\ rec[t].pc # "warm"
        BY <1>2 DEF Unseen
      <3>. QED
        BY <1>1, <1>2, <1>3, <1>5, <2>1, <3>1, OnlyOwnFrames
    <2>2. \A i \in Instances : built[i].node[1] # k
      BY <1>1, <1>2, <1>5 DEF BareOK
    <2>3. \A n \in Nodes : cache[n] \in Instances \union {NoInst}
      BY DEF IndInv, TypeOK
    <2>4. \A n \in Nodes : cache'[n] # NoInst => cache'[n] \in Instances
      BY <1>2, <2>3
    <2>5. \A n \in Nodes : n[1] = k =>
            /\ cache'[n] # NoInst => built'[cache'[n]].node[1] # k
            /\ \A u \in Threads : frame'[u][n].pc = "none"
      BY <1>2, <2>1, <2>2, <2>4
    <2>. QED
      BY <2>5, WiredBare DEF WiredAt, CallWired
  <1>. QED
    BY <1>4, <1>5

LEMMA WiredNewContainer ==
  ASSUME IndInv, Control, Control', WhereOK, FreshOK, NEW k \in Made, WiredAt(k),
         Kept(k) \/ Fresh(k), NEW t \in Threads, NEW c \in Configs, NewContainer(t, c)
  PROVE  WiredAt(k)'
  <1>1. cache' = cache /\ frame' = frame /\ built' = built
    BY DEF NewContainer
  <1>2. CASE Fresh(k)
    <2>1. \A n \in Nodes : n[1] = k =>
            cache'[n] = NoInst /\ \A u \in Threads : frame'[u][n].pc = "none"
      BY <1>1, <1>2, FreshIsEmpty DEF WhereOK
    <2>. QED
      BY <2>1 DEF WiredAt, CallWired
  <1>3. CASE Kept(k)
    <2>1. k \in 1 .. Len(conf)
      <3>1. current \in 0 .. Len(conf)
        BY DEF Control
      <3>2. \A u \in Threads : mu = u => rec[u].next \in 1 .. Len(conf)
        BY DEF Control, RecOK
      <3>. QED
        BY <1>3, <3>1, <3>2, MadeIs DEF Kept, Nil
    <2>2. \A n \in Nodes : n[1] = k => g'.deps[n] = g.deps[n] /\ g'.uses[n] = g.uses[n]
      BY <2>1, GraphNewContainer DEF WhereOK
    <2>3. ASSUME NEW n \in Nodes, n[1] = k, NEW u \in Threads PROVE CallWired(u, n)'
      <3>1. CallWired(u, n)
        BY <2>3 DEF WiredAt
      <3>2. PICK h, D : h = frame[u][n] /\ D = Given(n, h.i)
        OBVIOUS
      <3>3. Given(n, frame[u][n].i)' = D /\ Work(n)' = Work(n)
        <4>1. g'.deps[n] = g.deps[n] /\ Work(n)' = Work(n) /\ frame' = frame
          BY <1>1, <2>2, <2>3 DEF Work
        <4>2. D = {Work(n)[j] : j \in Len(g.deps[n]) + 1 .. frame[u][n].i - 1}
          BY <3>2 DEF Given
        <4>. QED
          BY <4>1, <4>2 DEF Given
      <3>4. h.pc = "work" => h.i <= Len(Work(n)) + 1 /\ WiredTo(D, h.got)
        BY <3>1, <3>2 DEF CallWired
      <3>5. h.pc = "work" => (/\ frame[u][n].i <= Len(Work(n)) + 1
                              /\ WiredTo(Given(n, frame[u][n].i), frame[u][n].got))'
        BY <1>1, <3>2, <3>3, <3>4 DEF WiredTo
      <3>6. h.pc = "store" => WiredTo(ToSet(g.uses[n]), built[frame[u][n].out].uses)'
        BY <1>1, <2>2, <2>3, <3>1, <3>2 DEF CallWired, WiredTo
      <3>. QED
        BY <1>1, <3>1, <3>2, <3>5, <3>6 DEF CallWired, IsInst
    <2>4. ASSUME NEW n \in Nodes, n[1] = k, cache[n] # NoInst, built[cache[n]].node[1] = k
          PROVE  WiredTo(ToSet(g.uses[n]), built[cache[n]].uses)'
      <3>1. WiredTo(ToSet(g.uses[n]), built[cache[n]].uses)
        BY <2>4 DEF WiredAt
      <3>. QED
        BY <1>1, <2>2, <2>4, <3>1 DEF WiredTo
    <2>. QED
      BY <1>1, <2>3, <2>4 DEF WiredAt
  <1>. QED
    BY <1>2, <1>3

LEMMA WiredStep ==
  ASSUME Reached, FreshOK, WiredOK, Control', [RNext]_allVars
  PROVE  WiredOK'
  <1>1. /\ IndInv /\ Control /\ WhereOK /\ HomeOK /\ GraphOK /\ OriginOK /\ FreshOK
        /\ ChainOK /\ BareOK
    BY DEF Reached, WhereOK, WiredOK
  <1>2. ChainOK' /\ BareOK'
    BY <1>1, ChainStep, BareStep
  <1>3. ASSUME NEW k \in Made, Kept(k)' PROVE WiredAt(k)'
    <2>1. WiredAt(k) /\ (Kept(k) \/ Fresh(k))
      BY <1>1, <1>3, WiredBefore, KeptMoves
    <2>2. ASSUME UNCHANGED <<g, cache, frame, built>> PROVE WiredAt(k)'
      <3>1. Instances' = Instances
        BY <2>2 DEF Instances
      <3>. QED
        BY <1>1, <2>1, <2>2, <3>1, WiredSame
    <2>3. CASE UNCHANGED allVars
      BY <2>2, <2>3 DEF allVars, vars
    <2>4. ASSUME NEW t \in Threads, Step(t) PROVE WiredAt(k)'
      <3>1. CASE Inside(t) /\ UNCHANGED rvars
        <4>1. Kept(k)
          BY <1>3, <3>1 DEF Kept, rvars
        <4>. QED
          BY <1>1, <2>1, <3>1, <4>1, WiredInside
      <3>2. CASE Reuse(t)
        BY <1>1, <2>1, <3>2, WiredReuse
      <3>3. CASE Install(t) \/ LockAndDiff(t) \/ Prewarm(t) \/ Switch(t) \/ Unlock(t)
                 \/ Expire(t) \/ Undo(t) \/ Return(t)
        BY <2>2, <3>3 DEF Install, LockAndDiff, Prewarm, Switch, Unlock, Expire, Undo, Return,
                          vars
      <3>. QED
        BY <2>4, <3>1, <3>2, <3>3 DEF Step
    <2>5. ASSUME NEW t \in Threads, Call(t) PROVE WiredAt(k)'
      <3>1. CASE \E c \in Configs : NewContainer(t, c)
        BY <1>1, <2>1, <3>1, WiredNewContainer
      <3>2. CASE Current(t) \/ \E id \in Asked : Use(t, id)
        BY <2>2, <3>2 DEF Current, Use, CallResolve, vars
      <3>. QED
        BY <2>5, <3>1, <3>2 DEF Call
    <2>. QED
      BY <2>3, <2>4, <2>5 DEF RNext, Quiet
  <1>. QED
    BY <1>2, <1>3 DEF WiredOK

LEMMA InitWired == RInit => WiredOK
  <1>. SUFFICES ASSUME RInit PROVE WiredOK
    OBVIOUS
  <1>1. /\ Instances = {} /\ \A n \in Nodes : cache[n] = NoInst
        /\ \A t \in Threads : path[t] = <<>> /\ \A n \in Nodes : frame[t][n].pc = "none"
    BY DEF RInit, Init, Instances, NoFrame
  <1>2. ChainOK
    <2>1. \A t \in Threads : Len(path[t]) = 0
      BY <1>1
    <2>2. \A t \in Threads : 1 .. Len(path[t]) - 1 = {}
      BY <2>1
    <2>. QED
      BY <2>2 DEF ChainOK, ChainAt
  <1>3. \A k \in Made : WiredAt(k)
    BY <1>1, WiredBare
  <1>. QED
    BY <1>1, <1>2, <1>3 DEF WiredOK, BareOK

\* What the current container built itself is wired to the instances that it hands
\* out, those it was given included: nobody replaces or removes one of them between
\* the resolve that a Build made and its end, or afterwards (reconciler.go:98-109,
\* container.go:103-118).
THEOREM RebuildsWired == RSpec => []RebuiltIsWired
  <1>1. Control /\ WiredOK => RebuiltIsWired
    <2>. SUFFICES ASSUME Control, WiredOK, current # Nil, NEW id \in Keys,
                         NEW n, n = <<current, id>>,
                         cache[n] # NoInst, built[cache[n]].node[1] = current
                  PROVE  built[cache[n]].uses = {cache[d] : d \in ToSet(g.uses[n])}
      BY DEF RebuiltIsWired
    <2>1. n \in Nodes /\ n[1] = current /\ current \in Made /\ Kept(current)
      BY MadeIs DEF Control, Nil, Kept
    <2>2. WiredAt(current)
      BY <2>1 DEF WiredOK
    <2>. QED
      BY <2>1, <2>2 DEF WiredAt, WiredTo
  <1>2. Reached => Control
    BY DEF Reached
  <1>3. Reached /\ FreshOK /\ WiredOK /\ [RNext]_allVars => Reached' /\ FreshOK' /\ WiredOK'
    BY <1>2, FreshStep, ReachedStep, WiredStep DEF Reached
  <1>4. RInit => Reached /\ FreshOK /\ WiredOK
    BY InitReached, InitDoom, InitWired DEF DoomOK
  <1>. QED
    BY <1>1, <1>2, <1>3, <1>4, PTL DEF RSpec

-----------------------------------------------------------------------------
(***************************************************************************)
(* What a new container has before it is current.                          *)
(***************************************************************************)
\* What the new container of t has it has built, or the old one has it as well.
CarriedAt(t) ==
  rec[t].pc \in {"inject", "warm"} =>
    \A n \in Nodes : n[1] = rec[t].next /\ cache[n] # NoInst =>
      \/ built[cache[n]].node[1] = n[1]
      \/ n[2] \in ToSet(rec[t].diff.reused) /\ cache[n] = cache[<<rec[t].old, n[2]>>]

CarriedOK == \A t \in Threads : CarriedAt(t)

\* No step takes from the old container what the new one has of it.
LEMMA CarriedStays ==
  ASSUME IndInv, Control, WhereOK, WiredOK, NEW t \in Threads, CarriedAt(t),
         rec[t].pc \in {"inject", "warm"}, [RNext]_allVars,
         NEW n \in Nodes, n[1] = rec[t].next, cache'[n] # NoInst
  PROVE  \/ built'[cache'[n]].node[1] = n[1]
         \/ n[2] \in ToSet(rec[t].diff.reused) /\ cache'[n] = cache'[<<rec[t].old, n[2]>>]
  <1>1. PICK k, o, m : k = rec[t].next /\ o = rec[t].old /\ m = <<o, n[2]>>
    OBVIOUS
  <1>2. /\ k \in Made /\ o \in Made /\ o # k /\ Kept(k) /\ Kept(o) /\ mu = t
        /\ n = <<k, n[2]>> /\ m \in Nodes /\ m[1] = o /\ m # n
    <2>1. Compared(t)
      BY DEF Compared
    <2>2. k \in Made /\ o \in Made /\ o # k
      BY <1>1, <2>1, ComparedIs, MadeIs
    <2>3. mu = t /\ o = current
      BY <1>1 DEF Control, RecOK
    <2>4. n = <<k, n[2]>> /\ m \in Nodes /\ m[1] = o
      BY <1>1, <2>2, MadeIs, ReconcilersAssumption
    <2>5. o # Nil
      BY <2>2 DEF Made, Nil
    <2>. QED
      BY <1>1, <2>2, <2>3, <2>4, <2>5 DEF Kept
  <1>3. cache[n] # NoInst => \/ built[cache[n]].node[1] = n[1]
                             \/ n[2] \in ToSet(rec[t].diff.reused) /\ cache[n] = cache[m]
    BY <1>1 DEF CarriedAt
  <1>4. \A x \in Nodes : cache[x] # NoInst => cache[x] \in Instances
    BY DEF IndInv, TypeOK
  <1>5. ASSUME cache'[n] = cache[n], cache'[m] = cache[m],
               \A i \in Instances : built'[i].node = built[i].node
        PROVE  \/ built'[cache'[n]].node[1] = n[1]
               \/ n[2] \in ToSet(rec[t].diff.reused) /\ cache'[n] = cache'[m]
    BY <1>3, <1>4, <1>5
  <1>6. ASSUME UNCHANGED <<cache, built>>
        PROVE  \/ built'[cache'[n]].node[1] = n[1]
               \/ n[2] \in ToSet(rec[t].diff.reused) /\ cache'[n] = cache'[m]
    BY <1>5, <1>6
  <1>7. ASSUME NEW u \in Threads, Inside(u)
        PROVE  \/ built'[cache'[n]].node[1] = n[1]
               \/ n[2] \in ToSet(rec[t].diff.reused) /\ cache'[n] = cache'[m]
    <2>1. CASE SoftStep
      BY <1>6, <2>1 DEF SoftStep, QuietStep
    <2>2. ASSUME NEW x \in Nodes, Construct(u, x)
          PROVE  cache' = cache /\ \A i \in Instances : built'[i].node = built[i].node
      BY <2>2, ConstructEffect DEF IndInv
    <2>3. ASSUME NEW x \in Nodes, CloseOne(u, x)
          PROVE  cache' = cache /\ \A i \in Instances : built'[i].node = built[i].node
      BY <2>3, CloseOneEffect DEF IndInv
    <2>4. ASSUME NEW x \in Nodes, Store(u, x)
          PROVE  \/ built'[cache'[n]].node[1] = n[1]
                 \/ n[2] \in ToSet(rec[t].diff.reused) /\ cache'[n] = cache'[m]
      <3>1. /\ built' = built /\ frame[u][x].pc = "store" /\ built[frame[u][x].out].node = x
            /\ \A y \in Nodes : cache'[y] = IF y = x THEN frame[u][x].out ELSE cache[y]
        BY <2>4, StoreEffect
      <3>2. CASE x = n
        BY <3>1, <3>2
      <3>3. CASE x = m
        <4>1. WiredAt(o)
          BY <1>2 DEF WiredOK
        <4>2. cache[m] = NoInst
          BY <1>2, <3>1, <3>3, <4>1 DEF WiredAt, CallWired
        <4>3. cache'[n] = cache[n]
          BY <1>2, <3>1, <3>3
        <4>. QED
          BY <1>3, <3>1, <4>2, <4>3
      <3>4. CASE x # n /\ x # m
        BY <1>2, <1>5, <3>1, <3>4
      <3>. QED
        BY <3>2, <3>3, <3>4
    <2>5. CASE CloseFinish(u)
      <3>1. /\ built' = built /\ closing[u].active
            /\ \A y \in Nodes : y \notin Forgotten(closing[u]) => cache'[y] = cache[y]
        BY <2>5 DEF CloseFinish
      <3>2. n \notin Forgotten(closing[u]) /\ m \notin Forgotten(closing[u])
        BY <1>1, <1>2, <3>1, KeptStaysFull DEF WhereOK
      <3>. QED
        BY <1>2, <1>5, <3>1, <3>2
    <2>. QED
      BY <1>5, <1>7, <2>1, <2>2, <2>3, <2>4, <2>5, InsideEffect DEF WhereOK
  <1>8. ASSUME NEW u \in Threads, Reuse(u)
        PROVE  \/ built'[cache'[n]].node[1] = n[1]
               \/ n[2] \in ToSet(rec[t].diff.reused) /\ cache'[n] = cache'[m]
    <2>1. PICK id : id = Head(rec[u].todo)
      OBVIOUS
    <2>2. u = t
      BY <1>2, <1>8, ReuseEffect DEF Control, RecOK
    <2>3. /\ built' = built /\ id \in ToSet(rec[t].diff.reused)
          /\ <<o, id>> \in Nodes /\ <<k, id>> \in Nodes
          /\ \A y \in Nodes : cache'[y] = IF y = <<k, id>> /\ cache[<<o, id>>] # NoInst
                                            THEN cache[<<o, id>>] ELSE cache[y]
      BY <1>1, <1>8, <2>1, <2>2, ReuseEffect
    <2>4. cache'[m] = cache[m]
      BY <1>2, <2>3
    <2>5. CASE n = <<k, id>> /\ cache[<<o, id>>] # NoInst
      <3>1. n[2] = id /\ m = <<o, id>>
        BY <1>1, <2>5
      <3>. QED
        BY <2>3, <2>4, <2>5, <3>1
    <2>6. CASE ~(n = <<k, id>> /\ cache[<<o, id>>] # NoInst)
      BY <1>5, <2>3, <2>4, <2>6
    <2>. QED
      BY <2>5, <2>6
  <1>9. ASSUME NEW u \in Threads, Step(u)
        PROVE  Inside(u) \/ Reuse(u) \/ UNCHANGED <<cache, built>>
    BY <1>9 DEF Step, Install, LockAndDiff, Prewarm, Switch, Unlock, Expire, Undo, Return, vars
  <1>10. ASSUME NEW u \in Threads, Call(u) PROVE UNCHANGED <<cache, built>>
    BY <1>10 DEF Call, Current, Use, CallResolve, NewContainer, vars
  <1>11. UNCHANGED allVars => UNCHANGED <<cache, built>>
    BY DEF allVars, vars
  <1>. QED
    BY <1>1, <1>6, <1>7, <1>8, <1>9, <1>10, <1>11 DEF RNext, Quiet

LEMMA CarriedStep ==
  ASSUME IndInv, Control, Control', WhereOK, FreshOK, WiredOK, CarriedOK, [RNext]_allVars
  PROVE  CarriedOK'
  <1>. SUFFICES ASSUME NEW t \in Threads, rec'[t].pc \in {"inject", "warm"},
                       NEW n \in Nodes, n[1] = rec'[t].next, cache'[n] # NoInst
                PROVE  \/ built'[cache'[n]].node[1] = n[1]
                       \/ /\ n[2] \in ToSet(rec'[t].diff.reused)
                          /\ cache'[n] = cache'[<<rec'[t].old, n[2]>>]
    BY DEF CarriedOK, CarriedAt
  <1>1. CarriedAt(t)
    BY DEF CarriedOK
  <1>2. CASE /\ rec[t].pc \in {"inject", "warm"}
             /\ rec'[t].next = rec[t].next /\ rec'[t].old = rec[t].old /\ rec'[t].diff = rec[t].diff
    BY <1>1, <1>2, CarriedStays
  <1>3. ASSUME LockAndDiff(t), rec[t].pc = "lock", rec'[t].next = rec[t].next PROVE FALSE
    <2>1. PICK k : k = rec[t].next
      OBVIOUS
    <2>2. cache' = cache
      BY <1>3 DEF LockAndDiff, vars
    <2>3. Fresh(k)
      BY <1>3, <2>1 DEF Fresh
    <2>4. k \in Made
      <3>1. k \in 1 .. Len(conf)
        BY <1>3, <2>1 DEF Control, RecOK
      <3>. QED
        BY <3>1, MadeIs
    <2>5. cache[n] = NoInst
      BY <1>3, <2>1, <2>3, <2>4, FreshIsEmpty DEF WhereOK
    <2>. QED
      BY <2>2, <2>5
  <1>4. CASE UNCHANGED allVars
    <2>1. rec' = rec
      BY <1>4 DEF allVars, rvars
    <2>. QED
      BY <1>2, <2>1
  <1>5. ASSUME NEW u \in Threads, Step(u) \/ Call(u)
        PROVE  \/ LockAndDiff(t) /\ rec[t].pc = "lock" /\ rec'[t].next = rec[t].next
               \/ /\ rec[t].pc \in {"inject", "warm"}
                  /\ rec'[t].next = rec[t].next /\ rec'[t].old = rec[t].old
                  /\ rec'[t].diff = rec[t].diff
    BY <1>5, LocalsMove
  <1>. QED
    BY <1>2, <1>3, <1>4, <1>5 DEF RNext, Quiet

\* What a reused node stands on has the same hashes in both containers.
LEMMA ReusedBelow ==
  ASSUME Control, NEW t \in Threads, Compared(t), NEW id \in ToSet(rec[t].diff.reused)
  PROVE  SameBelow(id, rec[t].old, rec[t].next)
  <1>1. PICK R, spec : R = ToSet(rec[t].diff.reused) /\ spec = conf[rec[t].next].spec
    OBVIOUS
  <1>2. R \in SUBSET DOMAIN spec /\ \A k \in R : ToSet(spec[k].deps) \subseteq R
    BY <1>1, ComparedIs
  <1>3. Below(id, spec) \subseteq R
    BY <1>1, <1>2 DEF Below
  <1>. QED
    BY <1>1, <1>3, ReusedSpecs DEF SameBelow

\* At every switch, what the new container lacks has the hashes it had all the way
\* down, so that nothing which must be rebuilt is missing, a node above a changed
\* one included; what it has it built itself, or is the very instance of the old
\* container for a node with the hashes it had all the way down
\* (reconciler.go:36-37, 98-115).
THEOREM SwitchesWarm == RSpec => SwitchedWarm
  <1>. DEFINE Inv == Warmth /\ FreshOK /\ WiredOK /\ CarriedOK
  <1>1. ASSUME Warmth, CarriedOK, [RNext]_allVars, current # Nil, current' # current,
               NEW k, k = current', NEW id \in DOMAIN conf[k].spec
        PROVE  \/ cache[<<k, id>>] # NoInst /\ built[cache[<<k, id>>]].node[1] = k
               \/ /\ SameBelow(id, current, k)
                  /\ cache[<<k, id>>] = NoInst \/ cache[<<k, id>>] = cache[<<current, id>>]
    <2>1. PICK t \in Threads : Switch(t)
      BY <1>1, OnlySwitches
    <2>2. /\ rec[t].pc = "warm" /\ Idle(t) /\ ret[t] # ErrResult
          /\ k = rec[t].next
      BY <1>1, <2>1 DEF Switch, Warmed
    <2>3. Compared(t) /\ rec[t].old = current /\ WarmAt(t) /\ Control /\ CarriedAt(t)
      BY <1>1, <2>2 DEF Compared, Warmth, Reached, Control, RecOK, WarmOK, CarriedOK
    <2>4. PICK n : n = <<k, id>>
      OBVIOUS
    <2>5. n \in Nodes /\ n[1] = k /\ n[2] = id
      <3>1. k \in 1 .. Len(conf) /\ IsCompiled(conf[k])
        BY <2>2, <2>3, ComparedIs
      <3>2. id \in Keys
        BY <1>1, <3>1 DEF IsCompiled
      <3>. QED
        BY <2>3, <2>4, <3>1, <3>2, MadeIs
    <2>6. \A x \in ToSet(rec[t].diff.rebuilt) : cache[<<rec[t].next, x>>] # NoInst
      <3>1. ToSet(batch[t]) = {}
        BY <2>2 DEF Idle, ToSet
      <3>. QED
        BY <2>2, <2>3, <3>1 DEF WarmAt
    <2>7. cache[n] = NoInst => id \in ToSet(rec[t].diff.reused)
      BY <1>1, <2>2, <2>3, <2>4, <2>6, ComparedIs
    <2>8. cache[n] # NoInst => \/ built[cache[n]].node[1] = k
                               \/ /\ id \in ToSet(rec[t].diff.reused)
                                  /\ cache[n] = cache[<<current, id>>]
      BY <2>2, <2>3, <2>5 DEF CarriedAt
    <2>9. id \in ToSet(rec[t].diff.reused) => SameBelow(id, current, k)
      BY <2>2, <2>3, ReusedBelow
    <2>. QED
      BY <2>4, <2>7, <2>8, <2>9
  <1>2. Inv /\ [RNext]_allVars =>
          [current # Nil /\ current' # current =>
             \A id \in DOMAIN conf[current'].spec :
               LET i == cache[<<current', id>>] IN
               \/ i # NoInst /\ built[i].node[1] = current'
               \/ /\ SameBelow(id, current, current')
                  /\ i = NoInst \/ i = cache[<<current, id>>]]_allVars
    BY <1>1
  <1>3. RInit => Inv
    <2>. SUFFICES ASSUME RInit PROVE Inv
      OBVIOUS
    <2>1. \A t \in Threads : rec[t].pc = "idle"
      BY DEF RInit, Resting
    <2>. QED
      BY <2>1, InitWarmth, InitDoom, InitWired DEF DoomOK, CarriedOK, CarriedAt
  <1>4. Inv /\ [RNext]_allVars => Inv'
    <2>. SUFFICES ASSUME Inv, [RNext]_allVars PROVE Inv'
      OBVIOUS
    <2>1. Warmth' /\ Control'
      BY WarmthStep DEF Warmth, Reached
    <2>2. FreshOK' /\ WiredOK' /\ CarriedOK'
      BY <2>1, FreshStep, WiredStep, CarriedStep DEF Warmth, Reached
    <2>. QED
      BY <2>1, <2>2
  <1>. QED
    BY <1>2, <1>3, <1>4, PTL DEF RSpec, SwitchedWarm

=============================================================================
