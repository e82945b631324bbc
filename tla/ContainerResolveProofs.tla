----------------------- MODULE ContainerResolveProofs -----------------------
(***************************************************************************)
(* Proofs about a container that is only resolved: closing and injecting   *)
(* are what else writes the cache, so both are assumed away.  In three     *)
(* parts: each resource is built at most once and every caller gets the    *)
(* same instance; the container implements Pool; what is cached is wired   *)
(* to what is cached.                                                      *)
(***************************************************************************)
EXTENDS ContainerPool, ContainerProofs

-----------------------------------------------------------------------------
(***************************************************************************)
(* Proofs that a container which is only resolved builds each resource at  *)
(* most once and hands every caller the same instance.  Closing and        *)
(* injecting are what else writes the cache, so both are assumed away.     *)
(***************************************************************************)

\* No one closes, and what the cache holds under n is an instance of n.
CacheOK ==
  /\ \A t \in Threads : ~closing[t].active
  /\ \A n \in Nodes : cache[n] # NoInst => built[cache[n]].node = n

\* Every instance is in the cache, or its leader is about to put it there.
StoredOK ==
  \A i \in Instances :
    \/ cache[built[i].node] = i
    \/ \E t \in Threads : /\ frame[t][built[i].node].pc = "store"
                          /\ frame[t][built[i].node].out = i

\* An instance on its way to a caller is the cached one.
CarriedOK ==
  \A t \in Threads, n \in Nodes :
    frame[t][n].pc \in {"leave", "return"} /\ IsInst(frame[t][n].out)
      => cache[n] = frame[t][n].out

ReturnedOK == \A t \in Threads : IsInst(ret[t]) => cache[built[ret[t]].node] = ret[t]

OnceInv == CacheOK /\ MissOK /\ StoredOK /\ CarriedOK /\ ReturnedOK

LEMMA InstanceResult ==
  ASSUME TypeOK, NEW r \in Results, IsInst(r)
  PROVE  r \in Instances
  BY DEF Results, IsInst, ErrResult, NoInst

\* A step that neither builds nor stores.
LEMMA SameCache ==
  ASSUME IndInv, OnceInv, UNCHANGED <<cache, built, closing>>, ReturnedOK',
         \A u \in Threads, m \in Nodes :
           /\ frame'[u][m].pc \in {"work", "store"} => cache[m] = NoInst
           /\ frame[u][m].pc = "store" => frame'[u][m] = frame[u][m]
           /\ frame'[u][m].pc \in {"leave", "return"} /\ IsInst(frame'[u][m].out)
                => cache[m] = frame'[u][m].out
  PROVE  OnceInv'
  <1>1. CacheOK'
    BY DEF OnceInv, CacheOK
  <1>2. MissOK' /\ CarriedOK'
    BY DEF MissOK, CarriedOK
  <1>3. StoredOK'
    <2> SUFFICES ASSUME NEW i \in Instances, cache[built[i].node] # i
                 PROVE  \E t \in Threads : /\ frame'[t][built[i].node].pc = "store"
                                           /\ frame'[t][built[i].node].out = i
      BY DEF StoredOK, Instances
    <2>1. built[i].node \in Nodes
      BY InstanceNode DEF IndInv
    <2> QED
      BY <2>1 DEF OnceInv, StoredOK
  <1> QED
    BY <1>1, <1>2, <1>3 DEF OnceInv

LEMMA OnceLookup ==
  ASSUME IndInv, OnceInv, NEW t \in Threads, NEW n \in Nodes, Lookup(t, n)
  PROVE  OnceInv'
  <1> DEFINE f == IF cache[n] # NoInst
                    THEN [frame[t][n] EXCEPT !.pc = "return", !.out = cache[n]]
                    ELSE [frame[t][n] EXCEPT !.pc = "enter"]
  <1>1. frame[t][n] \in FrameType /\ frame[t][n].pc = "lookup"
    BY DEF IndInv, TypeOK, Lookup, At
  <1>2. frame' = [frame EXCEPT ![t][n] = f] /\ UNCHANGED <<cache, built, ret, closing>>
    BY DEF Lookup
  <1>3. (f.pc = "return" /\ f.out = cache[n]) \/ f.pc = "enter"
    BY <1>1 DEF FrameType, IsInst, ErrResult
  <1>4. f.pc \in {"work", "store"} => cache[n] = NoInst
    BY <1>1, <1>3 DEF OnceInv, MissOK
  <1> HIDE DEF f
  <1>5. /\ frame'[t][n] = f
        /\ \A u \in Threads, m \in Nodes : <<u, m>> # <<t, n>> => frame'[u][m] = frame[u][m]
    BY <1>2 DEF IndInv, TypeOK
  <1>6. ReturnedOK'
    BY <1>2 DEF OnceInv, ReturnedOK
  <1> QED
    BY <1>1, <1>2, <1>3, <1>4, <1>5, <1>6, SameCache DEF OnceInv, MissOK, CarriedOK

LEMMA OnceLead ==
  ASSUME IndInv, OnceInv, NEW t \in Threads, NEW n \in Nodes, Lead(t, n)
  PROVE  OnceInv'
  <1> DEFINE f == [frame[t][n] EXCEPT !.pc = "recheck"]
  <1>1. frame[t][n] \in FrameType /\ frame[t][n].pc = "enter"
    BY DEF IndInv, TypeOK, Lead, At
  <1>2. frame' = [frame EXCEPT ![t][n] = f] /\ UNCHANGED <<cache, built, ret, closing>>
    BY DEF Lead
  <1>3. f.pc = "recheck"
    BY <1>1 DEF FrameType, IsInst, ErrResult
  <1>4. f.pc \in {"work", "store"} => cache[n] = NoInst
    BY <1>1, <1>3 DEF OnceInv, MissOK
  <1> HIDE DEF f
  <1>5. /\ frame'[t][n] = f
        /\ \A u \in Threads, m \in Nodes : <<u, m>> # <<t, n>> => frame'[u][m] = frame[u][m]
    BY <1>2 DEF IndInv, TypeOK
  <1>6. ReturnedOK'
    BY <1>2 DEF OnceInv, ReturnedOK
  <1> QED
    BY <1>1, <1>2, <1>3, <1>4, <1>5, <1>6, SameCache DEF OnceInv, MissOK, CarriedOK

LEMMA OnceFollow ==
  ASSUME IndInv, OnceInv, NEW t \in Threads, NEW n \in Nodes, Follow(t, n)
  PROVE  OnceInv'
  <1> DEFINE f == [frame[t][n] EXCEPT !.pc = "wait"]
  <1>1. frame[t][n] \in FrameType /\ frame[t][n].pc = "enter"
    BY DEF IndInv, TypeOK, Follow, At
  <1>2. frame' = [frame EXCEPT ![t][n] = f] /\ UNCHANGED <<cache, built, ret, closing>>
    BY DEF Follow
  <1>3. f.pc = "wait"
    BY <1>1 DEF FrameType, IsInst, ErrResult
  <1>4. f.pc \in {"work", "store"} => cache[n] = NoInst
    BY <1>1, <1>3 DEF OnceInv, MissOK
  <1> HIDE DEF f
  <1>5. /\ frame'[t][n] = f
        /\ \A u \in Threads, m \in Nodes : <<u, m>> # <<t, n>> => frame'[u][m] = frame[u][m]
    BY <1>2 DEF IndInv, TypeOK
  <1>6. ReturnedOK'
    BY <1>2 DEF OnceInv, ReturnedOK
  <1> QED
    BY <1>1, <1>2, <1>3, <1>4, <1>5, <1>6, SameCache DEF OnceInv, MissOK, CarriedOK

LEMMA OnceRecheck ==
  ASSUME IndInv, OnceInv, NEW t \in Threads, NEW n \in Nodes, Recheck(t, n)
  PROVE  OnceInv'
  <1> DEFINE f == IF cache[n] # NoInst
                    THEN [frame[t][n] EXCEPT !.pc = "leave", !.out = cache[n]]
                    ELSE IF n \in Declared
                      THEN [frame[t][n] EXCEPT !.pc = "work"]
                      ELSE [frame[t][n] EXCEPT !.pc = "leave", !.out = ErrResult]
  <1>1. frame[t][n] \in FrameType /\ frame[t][n].pc = "recheck"
    BY DEF IndInv, TypeOK, Recheck, At
  <1>2. frame' = [frame EXCEPT ![t][n] = f] /\ UNCHANGED <<cache, built, ret, closing>>
    BY DEF Recheck
  <1>3. \/ f.pc = "leave" /\ f.out = cache[n]
        \/ f.pc = "leave" /\ ~IsInst(f.out)
        \/ f.pc = "work" /\ cache[n] = NoInst
    BY <1>1 DEF FrameType, IsInst, ErrResult
  <1>4. f.pc \in {"work", "store"} => cache[n] = NoInst
    BY <1>1, <1>3 DEF OnceInv, MissOK
  <1> HIDE DEF f
  <1>5. /\ frame'[t][n] = f
        /\ \A u \in Threads, m \in Nodes : <<u, m>> # <<t, n>> => frame'[u][m] = frame[u][m]
    BY <1>2 DEF IndInv, TypeOK
  <1>6. ReturnedOK'
    BY <1>2 DEF OnceInv, ReturnedOK
  <1> QED
    BY <1>1, <1>2, <1>3, <1>4, <1>5, <1>6, SameCache DEF OnceInv, MissOK, CarriedOK

LEMMA OnceFail ==
  ASSUME IndInv, OnceInv, NEW t \in Threads, NEW n \in Nodes, Fail(t, n)
  PROVE  OnceInv'
  <1> DEFINE f == [frame[t][n] EXCEPT !.pc = "leave", !.out = ErrResult]
  <1>1. frame[t][n] \in FrameType /\ frame[t][n].pc = "work"
    BY DEF IndInv, TypeOK, Fail, At
  <1>2. frame' = [frame EXCEPT ![t][n] = f] /\ UNCHANGED <<cache, built, ret, closing>>
    BY DEF Fail
  <1>3. f.pc = "leave" /\ ~IsInst(f.out)
    BY <1>1 DEF FrameType, IsInst, ErrResult
  <1>4. f.pc \in {"work", "store"} => cache[n] = NoInst
    BY <1>1, <1>3 DEF OnceInv, MissOK
  <1> HIDE DEF f
  <1>5. /\ frame'[t][n] = f
        /\ \A u \in Threads, m \in Nodes : <<u, m>> # <<t, n>> => frame'[u][m] = frame[u][m]
    BY <1>2 DEF IndInv, TypeOK
  <1>6. ReturnedOK'
    BY <1>2 DEF OnceInv, ReturnedOK
  <1> QED
    BY <1>1, <1>2, <1>3, <1>4, <1>5, <1>6, SameCache DEF OnceInv, MissOK, CarriedOK

LEMMA OnceBegin ==
  ASSUME IndInv, OnceInv, NEW t \in Threads, Begin(t)
  PROVE  OnceInv'
  <1> DEFINE n == Head(batch[t])
  <1>1. n \in Nodes /\ Entered.pc = "lookup"
    BY DEF Begin, IndInv, TypeOK, Entered, NoFrame
  <1>2. frame[t][n].pc = "none"
    <2>1. ToSet(path[t]) = {}
      BY DEF Begin, ToSet
    <2> QED
      BY <1>1, <2>1 DEF IndInv, PathOK
  <1>3. frame' = [frame EXCEPT ![t][n] = Entered] /\ UNCHANGED <<cache, built, ret, closing>>
    BY DEF Begin
  <1> HIDE DEF n
  <1>4. /\ frame'[t][n] = Entered
        /\ \A u \in Threads, m \in Nodes : <<u, m>> # <<t, n>> => frame'[u][m] = frame[u][m]
    BY <1>1, <1>3 DEF IndInv, TypeOK
  <1>5. ReturnedOK'
    BY <1>3 DEF OnceInv, ReturnedOK
  <1> QED
    BY <1>1, <1>2, <1>3, <1>4, <1>5, SameCache DEF OnceInv, MissOK, CarriedOK

LEMMA OnceDescend ==
  ASSUME IndInv, OnceInv, NEW t \in Threads, NEW n \in Nodes, Descend(t, n)
  PROVE  OnceInv'
  <1> DEFINE child == Work(n)[frame[t][n].i]
  <1>1. /\ child \in Nodes /\ frame[t][n].pc = "work"
        /\ UNCHANGED <<cache, built, ret, closing>>
    BY WorkType DEF Descend, At, IndInv, TypeOK, FrameType
  <1>2. ReturnedOK'
    BY <1>1 DEF OnceInv, ReturnedOK
  <1>3. CASE child \in ToSet(path[t])
    <2> DEFINE f == [frame[t][n] EXCEPT !.pc = "leave", !.out = ErrResult]
    <2>1. path' = path /\ frame' = [frame EXCEPT ![t][n] = f]
      BY <1>3, DescendRefuses DEF IndInv
    <2>2. f.pc = "leave" /\ ~IsInst(f.out)
      BY DEF IndInv, TypeOK, FrameType, IsInst, ErrResult
    <2> HIDE DEF f, child
    <2>3. /\ frame'[t][n] = f
          /\ \A u \in Threads, m \in Nodes : <<u, m>> # <<t, n>> => frame'[u][m] = frame[u][m]
      BY <2>1 DEF IndInv, TypeOK
    <2> QED
      BY <1>1, <1>2, <2>2, <2>3, SameCache DEF OnceInv, MissOK, CarriedOK
  <1>4. CASE child \notin ToSet(path[t])
    <2>1. frame' = [frame EXCEPT ![t][child] = Entered]
      BY <1>4 DEF Descend
    <2>2. frame[t][child].pc = "none" /\ Entered.pc = "lookup"
      BY <1>1, <1>4 DEF IndInv, PathOK, Entered, NoFrame
    <2> HIDE DEF child
    <2>3. /\ frame'[t][child] = Entered
          /\ \A u \in Threads, m \in Nodes :
               <<u, m>> # <<t, child>> => frame'[u][m] = frame[u][m]
      BY <1>1, <2>1 DEF IndInv, TypeOK
    <2> QED
      BY <1>1, <1>2, <2>2, <2>3, SameCache DEF OnceInv, MissOK, CarriedOK
  <1> QED
    BY <1>3, <1>4

\* At "work" the leader knows that no instance of its node exists.
LEMMA OnceConstruct ==
  ASSUME IndInv, OnceInv, NEW t \in Threads, NEW n \in Nodes, Construct(t, n)
  PROVE  OnceInv'
  <1> DEFINE e == [node |-> n, uses |-> frame[t][n].got, given |-> FALSE, closed |-> 0]
             f == [frame[t][n] EXCEPT !.pc = "store", !.out = Len(built) + 1]
  <1>1. /\ frame[t][n] \in FrameType /\ built \in Seq(InstanceType) /\ Len(built) \in Nat
        /\ frame[t][n].pc = "work"
    BY DEF IndInv, TypeOK, Construct, At
  <1>2. /\ UNCHANGED <<cache, ret, closing>>
        /\ frame' = [frame EXCEPT ![t][n] = f] /\ built' = Append(built, e)
    BY DEF Construct
  <1>3. f.pc = "store" /\ f.out = Len(built) + 1 /\ e.node = n /\ e \in InstanceType
    BY <1>1 DEF FrameType, InstanceType
  <1> HIDE DEF e, f
  <1>4. /\ frame'[t][n] = f
        /\ \A u \in Threads, m \in Nodes : <<u, m>> # <<t, n>> => frame'[u][m] = frame[u][m]
    BY <1>2 DEF IndInv, TypeOK
  <1>5. /\ Instances' = Instances \union {Len(built) + 1}
        /\ \A i \in Instances : built'[i] = built[i]
        /\ built'[Len(built) + 1] = e
    BY <1>1, <1>2, <1>3, NewInstance DEF IndInv, Instances
  <1>6. \A m \in Nodes : cache[m] \in Instances \union {NoInst}
    BY DEF IndInv, TypeOK
  <1>7. CacheOK'
    BY <1>2, <1>5, <1>6 DEF OnceInv, CacheOK
  <1>8. MissOK'
    BY <1>1, <1>2, <1>4 DEF OnceInv, MissOK
  <1>9. StoredOK'
    <2>1. ASSUME NEW i \in Instances
          PROVE  \/ cache[built[i].node] = i
                 \/ \E u \in Threads : /\ frame'[u][built[i].node].pc = "store"
                                       /\ frame'[u][built[i].node].out = i
      <3>1. built[i].node \in Nodes
        BY InstanceNode DEF IndInv
      <3> QED
        BY <1>1, <1>4, <3>1 DEF OnceInv, StoredOK
    <2>2. /\ frame'[t][built'[Len(built) + 1].node].pc = "store"
          /\ frame'[t][built'[Len(built) + 1].node].out = Len(built) + 1
      BY <1>3, <1>4, <1>5
    <2>3. \A i \in Instances : built'[i].node = built[i].node /\ cache' = cache
      BY <1>2, <1>5
    <2> QED
      BY <1>5, <2>1, <2>2, <2>3 DEF StoredOK
  <1>10. CarriedOK'
    BY <1>2, <1>3, <1>4 DEF OnceInv, CarriedOK
  <1>11. ReturnedOK'
    <2>1. \A u \in Threads : IsInst(ret[u]) => ret[u] \in Instances
      BY InstanceResult DEF IndInv, TypeOK
    <2> QED
      BY <1>2, <1>5, <2>1 DEF OnceInv, ReturnedOK
  <1> QED
    BY <1>7, <1>8, <1>9, <1>10, <1>11 DEF OnceInv

\* The store fills an empty place of the cache: nothing that refers to it is
\* overtaken, and no other leader of the node is past its second look.
LEMMA OnceStore ==
  ASSUME IndInv, OnceInv, NEW t \in Threads, NEW n \in Nodes, Store(t, n)
  PROVE  OnceInv'
  <1> DEFINE f == [frame[t][n] EXCEPT !.pc = "leave"]
             i == frame[t][n].out
  <1>1. frame[t][n] \in FrameType /\ frame[t][n].pc = "store" /\ cache[n] = NoInst
    BY DEF IndInv, TypeOK, Store, At, OnceInv, MissOK
  <1>2. /\ UNCHANGED <<built, ret, closing>> /\ cache' = [cache EXCEPT ![n] = i]
        /\ frame' = [frame EXCEPT ![t][n] = f]
    BY DEF Store
  <1>3. f.pc = "leave" /\ f.out = i /\ i \in Instances /\ built[i].node = n /\ i # NoInst
    BY <1>1 DEF FrameType, IndInv, HandOK, Instances, NoInst
  <1>4. \A u \in Threads \ {t} : frame[u][n].pc \notin {"work", "store"}
    BY <1>1 DEF IndInv, FlightOwner, Leads, LeaderPCs
  <1> HIDE DEF f, i
  <1>5. /\ frame'[t][n] = f
        /\ \A u \in Threads, m \in Nodes : <<u, m>> # <<t, n>> => frame'[u][m] = frame[u][m]
        /\ cache'[n] = i
        /\ \A m \in Nodes \ {n} : cache'[m] = cache[m]
    BY <1>2 DEF IndInv, TypeOK
  <1>6. CacheOK'
    BY <1>2, <1>3, <1>5 DEF OnceInv, CacheOK
  <1>7. MissOK'
    BY <1>3, <1>4, <1>5 DEF OnceInv, MissOK
  <1>8. StoredOK'
    <2> SUFFICES ASSUME NEW j \in Instances, cache'[built[j].node] # j
                 PROVE  \E u \in Threads : /\ frame'[u][built[j].node].pc = "store"
                                           /\ frame'[u][built[j].node].out = j
      BY <1>2 DEF StoredOK, Instances
    <2>1. built[j].node \in Nodes /\ j # NoInst
      BY InstanceNode DEF IndInv
    <2>2. cache[built[j].node] # j
      BY <1>1, <1>5, <2>1
    <2>3. PICK u \in Threads : /\ frame[u][built[j].node].pc = "store"
                               /\ frame[u][built[j].node].out = j
      BY <2>2 DEF OnceInv, StoredOK
    <2>4. <<u, built[j].node>> # <<t, n>>
      BY <1>5, <2>3 DEF i
    <2> QED
      BY <1>5, <2>1, <2>3, <2>4
  <1>9. CarriedOK'
    <2> SUFFICES ASSUME NEW u \in Threads, NEW m \in Nodes, <<u, m>> # <<t, n>>,
                        frame[u][m].pc \in {"leave", "return"}, IsInst(frame[u][m].out)
                 PROVE  cache'[m] = frame[u][m].out
      BY <1>3, <1>5 DEF CarriedOK
    <2>1. cache[m] = frame[u][m].out
      BY DEF OnceInv, CarriedOK
    <2>2. m # n
      BY <1>1, <2>1 DEF IsInst, NoInst
    <2> QED
      BY <1>5, <2>1, <2>2
  <1>10. ReturnedOK'
    <2> SUFFICES ASSUME NEW u \in Threads, IsInst(ret[u])
                 PROVE  cache'[built[ret[u]].node] = ret[u]
      BY <1>2 DEF ReturnedOK
    <2>1. cache[built[ret[u]].node] = ret[u] /\ ret[u] # NoInst
      BY DEF OnceInv, ReturnedOK, IsInst, NoInst
    <2>2. built[ret[u]].node \in Nodes
      BY InstanceResult, InstanceNode DEF IndInv, TypeOK
    <2> QED
      BY <1>1, <1>5, <2>1, <2>2
  <1> QED
    BY <1>6, <1>7, <1>8, <1>9, <1>10 DEF OnceInv

LEMMA OnceLeave ==
  ASSUME IndInv, OnceInv, NEW t \in Threads, NEW n \in Nodes, Leave(t, n)
  PROVE  OnceInv'
  <1>1. /\ frame[t][n].pc = "leave" /\ UNCHANGED <<cache, built, ret, closing>>
        /\ IsInst(frame[t][n].out) => cache[n] = frame[t][n].out
    BY DEF Leave, At, OnceInv, CarriedOK
  <1>2. ASSUME NEW u \in Threads, NEW m \in Nodes
        PROVE  \/ frame'[u][m] = frame[u][m]
               \/ /\ m = n /\ frame[u][m].pc # "store"
                  /\ frame'[u][m].pc = "return"
                  /\ frame'[u][m].out = frame[t][n].out
    <2>1. frame[u] \in [Nodes -> FrameType] /\ frame[u][n] \in FrameType
      BY DEF IndInv, TypeOK
    <2> DEFINE f == [frame[u][n] EXCEPT !.pc = "return", !.out = frame[t][n].out]
    <2>2. f.pc = "return" /\ f.out = frame[t][n].out
      BY <2>1 DEF FrameType
    <2>3. frame'[u] = IF u = t \/ frame[u][n].pc = "wait"
                        THEN [frame[u] EXCEPT ![n] = f] ELSE frame[u]
      BY DEF Leave, Waits
    <2> HIDE DEF f
    <2> QED
      BY <1>1, <2>1, <2>2, <2>3
  <1>3. ReturnedOK'
    BY <1>1 DEF OnceInv, ReturnedOK
  <1> QED
    BY <1>1, <1>2, <1>3, SameCache DEF OnceInv, MissOK, CarriedOK

LEMMA OnceReturnToParent ==
  ASSUME IndInv, OnceInv, NEW t \in Threads, NEW n \in Nodes, ReturnToParent(t, n)
  PROVE  OnceInv'
  <1> DEFINE p == path[t][Len(path[t]) - 1]
             new == IF IsInst(frame[t][n].out)
               THEN [frame[t][p] EXCEPT !.i = @ + 1,
                       !.got = IF frame[t][p].i > Len(g.deps[p])
                                 THEN @ \union {frame[t][n].out} ELSE @]
               ELSE [frame[t][p] EXCEPT !.pc = "leave", !.out = ErrResult]
  <1>1. /\ At(t, n, "return") /\ UNCHANGED <<cache, built, ret, closing>>
        /\ frame' = [frame EXCEPT ![t][n] = NoFrame, ![t][p] = new]
    BY DEF ReturnToParent
  <1>2. p \in Nodes /\ frame[t][p] \in FrameType /\ frame[t][p].pc = "work"
    <2>1. /\ path[t] \in Seq(Nodes) /\ Len(path[t]) > 1 /\ Len(path[t]) \in Nat
      BY DEF ReturnToParent, IndInv, TypeOK
    <2>2. Len(path[t]) - 1 \in Positions(path[t])
      BY <2>1 DEF Positions
    <2>3. p \in Nodes /\ frame[t][p].pc = "work"
      BY <2>1, <2>2 DEF IndInv, PathOK, Positions
    <2> QED
      BY <2>3 DEF IndInv, TypeOK
  <1>3. new.pc = "work" \/ (new.pc = "leave" /\ ~IsInst(new.out))
    <2>1. CASE IsInst(frame[t][n].out)
      <3>1. new.pc = frame[t][p].pc
        BY <1>2, <2>1 DEF FrameType
      <3> QED
        BY <1>2, <3>1
    <2>2. CASE ~IsInst(frame[t][n].out)
      BY <1>2, <2>2 DEF FrameType, IsInst, ErrResult
    <2> QED
      BY <2>1, <2>2
  <1> HIDE DEF new, p
  <1>4. frame[t][n].pc = "return" /\ p # n
    BY <1>1, <1>2 DEF At
  <1>5. /\ frame'[t][n].pc = "none" /\ frame'[t][p] = new
        /\ \A u \in Threads, m \in Nodes :
             <<u, m>> # <<t, n>> /\ <<u, m>> # <<t, p>> => frame'[u][m] = frame[u][m]
    BY <1>1, <1>2, <1>4 DEF IndInv, TypeOK, NoFrame
  <1>6. ReturnedOK'
    BY <1>1 DEF OnceInv, ReturnedOK
  <1>7. ASSUME NEW u \in Threads, NEW m \in Nodes
        PROVE  /\ frame'[u][m].pc \in {"work", "store"} => cache[m] = NoInst
               /\ frame[u][m].pc = "store" => frame'[u][m] = frame[u][m]
               /\ frame'[u][m].pc \in {"leave", "return"} /\ IsInst(frame'[u][m].out)
                    => cache[m] = frame'[u][m].out
    <2>1. CASE u = t /\ m = n
      BY <1>4, <1>5, <2>1
    <2>2. CASE u = t /\ m = p
      BY <1>2, <1>3, <1>5, <2>2 DEF OnceInv, MissOK
    <2>3. CASE <<u, m>> # <<t, n>> /\ <<u, m>> # <<t, p>>
      BY <1>5, <2>3 DEF OnceInv, MissOK, CarriedOK
    <2> QED
      BY <2>1, <2>2, <2>3
  <1> QED
    BY <1>1, <1>6, <1>7, SameCache

LEMMA OnceReturnToCaller ==
  ASSUME IndInv, OnceInv, NEW t \in Threads, NEW n \in Nodes, ReturnToCaller(t, n)
  PROVE  OnceInv'
  <1> DEFINE r == frame[t][n].out
  <1>1. /\ frame[t][n].pc = "return" /\ UNCHANGED <<cache, built, closing>>
        /\ frame' = [frame EXCEPT ![t][n] = NoFrame]
        /\ ret' = [ret EXCEPT ![t] = r]
    BY DEF ReturnToCaller, At
  <1>2. /\ frame'[t][n].pc = "none"
        /\ \A u \in Threads, m \in Nodes : <<u, m>> # <<t, n>> => frame'[u][m] = frame[u][m]
    BY <1>1 DEF IndInv, TypeOK, NoFrame
  <1>3. IsInst(r) => cache[n] = r /\ built[r].node = n
    BY <1>1 DEF OnceInv, CarriedOK, CacheOK, IsInst, NoInst
  <1> HIDE DEF r
  <1>4. ReturnedOK'
    BY <1>1, <1>3 DEF OnceInv, ReturnedOK, IndInv, TypeOK
  <1> QED
    BY <1>1, <1>2, <1>4, SameCache DEF OnceInv, MissOK, CarriedOK

LEMMA OnceResolveStep ==
  ASSUME IndInv, OnceInv, NEW t \in Threads, NEW n \in Nodes, ResolveStep(t, n)
  PROVE  OnceInv'
  BY OnceLookup, OnceLead, OnceFollow, OnceRecheck, OnceDescend, OnceConstruct, OnceFail,
     OnceStore, OnceLeave, OnceReturnToParent, OnceReturnToCaller
  DEF ResolveStep

LEMMA OnceStep ==
  ASSUME Closers = {}, Injectors = {}, IndInv, OnceInv, [Next]_vars
  PROVE  OnceInv'
  <1>1. ASSUME NEW t \in Threads, NEW ids \in Batches, CallResolve(t, ids)
        PROVE  OnceInv'
    <2>1. UNCHANGED <<cache, built, closing, frame, ret>>
      BY <1>1 DEF CallResolve
    <2> QED
      BY <2>1, SameCache DEF OnceInv, MissOK, CarriedOK, ReturnedOK
  <1>2. ASSUME NEW t \in Threads, NEW n \in Nodes, CloseOne(t, n)
        PROVE  FALSE
    BY <1>2 DEF CloseOne, OnceInv, CacheOK
  <1>3. ASSUME NEW t \in Threads, CloseFinish(t)
        PROVE  FALSE
    BY <1>3 DEF CloseFinish, OnceInv, CacheOK
  <1>4. CASE UNCHANGED vars
    <2>1. UNCHANGED <<cache, built, closing, frame, ret>>
      BY <1>4 DEF vars
    <2> QED
      BY <2>1, SameCache DEF OnceInv, MissOK, CarriedOK, ReturnedOK
  <1> QED
    BY <1>1, <1>2, <1>3, <1>4, OnceBegin, OnceResolveStep
    DEF Next, Inside, Calls, Finished, Inject, Close, CloseIDs

LEMMA InitOnceInv == Init => OnceInv
  <1> SUFFICES ASSUME Init PROVE OnceInv
    OBVIOUS
  <1>1. Instances = {} /\ \A t \in Threads : ~closing[t].active /\ ~IsInst(ret[t])
    BY DEF Init, Instances, NoClose, IsInst, NoInst
  <1>2. /\ \A n \in Nodes : cache[n] = NoInst
        /\ \A t \in Threads, n \in Nodes : frame[t][n].pc = "none"
    BY DEF Init, NoFrame
  <1>3. CacheOK /\ MissOK
    BY <1>1, <1>2 DEF CacheOK, MissOK
  <1>4. CarriedOK
    BY <1>2 DEF CarriedOK
  <1>5. StoredOK /\ ReturnedOK
    BY <1>1 DEF StoredOK, ReturnedOK
  <1> QED
    BY <1>3, <1>4, <1>5 DEF OnceInv

LEMMA OnceInvariance ==
  ASSUME Closers = {}, Injectors = {}
  PROVE  Spec => [](IndInv /\ OnceInv)
  <1>1. Init => IndInv /\ OnceInv
    BY InitIndInv, InitOnceInv
  <1>2. IndInv /\ OnceInv /\ [Next]_vars => (IndInv /\ OnceInv)'
    BY IndInvStep, OnceStep
  <1> QED
    BY <1>1, <1>2, PTL DEF Spec

\* The Build hook of a resource succeeds at most once, for any graph, any
\* number of goroutines and any failures in between (container.go:83-117).
THEOREM BuildsOnce ==
  ASSUME Closers = {}, Injectors = {}
  PROVE  Spec => []BuiltOnce
  <1>1. IndInv /\ OnceInv => BuiltOnce
    <2> SUFFICES ASSUME IndInv, OnceInv, NEW i \in Instances, NEW j \in Instances,
                        built[i].node = built[j].node
                 PROVE  i = j
      BY DEF BuiltOnce
    <2> DEFINE n == built[i].node
               storing(k) == \E t \in Threads : /\ frame[t][n].pc = "store"
                                                /\ frame[t][n].out = k
    <2>1. n \in Nodes /\ i # NoInst /\ j # NoInst
      BY InstanceNode DEF IndInv
    <2>2. (cache[n] = i \/ storing(i)) /\ (cache[n] = j \/ storing(j))
      BY DEF OnceInv, StoredOK
    <2>3. CASE cache[n] = i \/ cache[n] = j
      BY <2>1, <2>2, <2>3 DEF OnceInv, MissOK
    <2>4. CASE storing(i) /\ storing(j)
      <3>1. PICK t \in Threads : frame[t][n].pc = "store" /\ frame[t][n].out = i
        BY <2>4
      <3>2. PICK u \in Threads : frame[u][n].pc = "store" /\ frame[u][n].out = j
        BY <2>4
      <3>3. t = u
        BY <2>1, <3>1, <3>2 DEF IndInv, FlightOwner, Leads, LeaderPCs
      <3> QED
        BY <3>1, <3>2, <3>3
    <2> QED
      BY <2>2, <2>3, <2>4
  <1> QED
    BY <1>1, OnceInvariance, PTL

\* All callers share one instance (resorch_test.go:128-131): what a Resolve
\* returns is what the cache holds, then and ever after.
THEOREM CallersShare ==
  ASSUME Closers = {}, Injectors = {}
  PROVE  Spec => []SharedInstance
  <1>1. OnceInv => SharedInstance
    BY DEF OnceInv, CarriedOK, ReturnedOK, SharedInstance
  <1> QED
    BY <1>1, OnceInvariance, PTL

-----------------------------------------------------------------------------
(***************************************************************************)
(* Proof that a container which is only resolved implements Pool, for      *)
(* every graph, declared cycles or not, and any number of goroutines.      *)
(***************************************************************************)

\* A frame that has not begun its work is at the first resolve; the declared
\* dependencies in front of where it has come to are cached; what it is about
\* to return is an instance, or an error that Pool allows.
FrameGood(n, f) ==
  /\ f.pc \in {"lookup", "enter", "recheck"} => f.i = 1
  /\ f.pc = "work" => \A j \in 1 .. Len(g.deps[n]) :
                        j < f.i => cache[g.deps[n][j]] # NoInst
  /\ f.pc = "store" => \A j \in 1 .. Len(g.deps[n]) : cache[g.deps[n][j]] # NoInst
  /\ f.pc \in {"leave", "return"} =>
       IsInst(f.out) \/ (f.out = ErrResult /\ ~P!Sound(n))

FramesGood == \A t \in Threads, n \in Nodes : FrameGood(n, frame[t][n])

\* A stack begins with what its thread asked for, and each call on it was made
\* for the resolve that its caller is at.
StackGood(t) ==
  /\ path[t] # <<>> => path[t][1] = Head(batch[t])
  /\ \A k \in 1 .. Len(path[t]) - 1 :
       LET i == frame[t][path[t][k]].i
       IN i <= Len(Work(path[t][k])) /\ Work(path[t][k])[i] = path[t][k + 1]

StacksGood == \A t \in Threads : StackGood(t)

PoolInv == FramesGood /\ StacksGood

-----------------------------------------------------------------------------
\* What Pool makes of the graph.
LEMMA NeedsIs ==
  ASSUME NEW n
  PROVE  P!Needs(n) = ToSet(g.deps[n]) \union ToSet(g.uses[n])
  BY DEF P!Needs, P!ToSet, ToSet

\* A resolve of n's closure is one that n needs, and the declared ones are first.
LEMMA WorkIsNeeded ==
  ASSUME TypeOK, NEW n \in Nodes, NEW i \in 1 .. Len(Work(n))
  PROVE  /\ Work(n)[i] \in P!Needs(n)
         /\ i <= Len(g.deps[n]) => Work(n)[i] = g.deps[n][i]
  <1>1. g.deps[n] \in Seq(Nodes) /\ g.uses[n] \in Seq(Nodes)
    BY DEF TypeOK, GraphType
  <1>2. Work(n)[i] = IF i <= Len(g.deps[n]) THEN g.deps[n][i]
                                            ELSE g.uses[n][i - Len(g.deps[n])]
    BY <1>1 DEF Work
  <1>3. i > Len(g.deps[n]) => i - Len(g.deps[n]) \in 1 .. Len(g.uses[n])
    <2> DEFINE d == Len(g.deps[n])
               u == Len(g.uses[n])
    <2>1. Len(Work(n)) = d + u /\ d \in Nat /\ u \in Nat
      BY <1>1 DEF Work
    <2> HIDE DEF d, u
    <2>2. i \in 1 .. d + u
      BY <2>1
    <2>3. i > d => i - d \in 1 .. u
      BY <2>1, <2>2
    <2> QED
      BY <2>3 DEF d, u
  <1> QED
    BY <1>1, <1>2, <1>3, NeedsIs DEF ToSet

\* What is sound is declared, cannot fail, and needs only what is sound.
LEMMA SoundNeeds ==
  ASSUME NEW n, P!Sound(n)
  PROVE  /\ n \in Declared /\ n \notin CanFail
         /\ \A m \in P!Needs(n) : P!Sound(m)
  <1>1. PICK S \in SUBSET (ToSet(g.topo) \ CanFail) :
          /\ n \in S
          /\ \A m \in S : P!Needs(m) \subseteq S
          /\ \A T \in SUBSET S \ {{}} : \E m \in T : P!Needs(m) \intersect T = {}
    BY DEF P!Sound, P!ToSet, ToSet
  <1>2. \A m \in S : P!Sound(m)
    BY <1>1 DEF P!Sound, P!ToSet, ToSet
  <1> QED
    BY <1>1, <1>2 DEF Declared

\* A set in which everything needs a member of the set has nothing sound.
LEMMA CyclesAreUnsound ==
  ASSUME NEW C, \A m \in C : P!Needs(m) \intersect C # {}, NEW n \in C
  PROVE  ~P!Sound(n)
  <1> SUFFICES ASSUME P!Sound(n) PROVE FALSE
    OBVIOUS
  <1>1. PICK S \in SUBSET (ToSet(g.topo) \ CanFail) :
          /\ n \in S
          /\ \A m \in S : P!Needs(m) \subseteq S
          /\ \A T \in SUBSET S \ {{}} : \E m \in T : P!Needs(m) \intersect T = {}
    BY DEF P!Sound, P!ToSet, ToSet
  <1>2. S \intersect C \in SUBSET S \ {{}}
    BY <1>1
  <1>3. PICK m \in S \intersect C : P!Needs(m) \intersect (S \intersect C) = {}
    BY <1>1, <1>2
  <1> QED
    BY <1>1, <1>3

\* A node on the stack that is needed again closes a cycle with all that is
\* above it: nothing in it can be had.
LEMMA StackCycle ==
  ASSUME IndInv, StacksGood, NEW t \in Threads, NEW n \in Nodes, At(t, n, "work"),
         NEW child \in P!Needs(n), child \in ToSet(path[t])
  PROVE  ~P!Sound(n)
  <1> DEFINE s == path[t]
  <1>1. s \in Seq(Nodes) /\ Len(s) \in Nat \ {0} /\ n = s[Len(s)]
    BY TopOfPath DEF IndInv, TypeOK
  <1>2. PICK a \in 1 .. Len(s) : s[a] = child
    BY <1>1 DEF ToSet
  <1> DEFINE C == {s[k] : k \in a .. Len(s)}
  <1>3. ASSUME NEW k \in a .. Len(s) PROVE P!Needs(s[k]) \intersect C # {}
    <2>1. CASE k = Len(s)
      <3>1. child \in C
        BY <1>2
      <3> QED
        BY <1>1, <2>1, <3>1
    <2>2. CASE k # Len(s)
      <3>1. k \in 1 .. Len(s) - 1 /\ k + 1 \in a .. Len(s)
        BY <1>1, <1>2, <2>2
      <3>2. s[k] \in Nodes /\ s[k + 1] \in C
        BY <1>1, <1>2, <3>1
      <3> DEFINE i == frame[t][s[k]].i
      <3>3. i <= Len(Work(s[k])) /\ Work(s[k])[i] = s[k + 1]
        BY <3>1 DEF StacksGood, StackGood
      <3>4. i \in Nat \ {0}
        BY <3>2 DEF IndInv, TypeOK, FrameType
      <3>5. Work(s[k]) \in Seq(Nodes)
        BY <3>2, WorkType DEF IndInv
      <3> HIDE DEF C, i, s
      <3>6. i \in 1 .. Len(Work(s[k]))
        BY <3>3, <3>4, <3>5
      <3>7. s[k + 1] \in P!Needs(s[k])
        BY <3>2, <3>3, <3>6, WorkIsNeeded DEF IndInv
      <3> QED
        BY <3>2, <3>7
    <2> QED
      BY <2>1, <2>2
  <1>4. n \in C
    BY <1>1, <1>2
  <1>5. \A m \in C : P!Needs(m) \intersect C # {}
    BY <1>3
  <1> HIDE DEF C
  <1> QED
    BY <1>4, <1>5, CyclesAreUnsound

-----------------------------------------------------------------------------
\* What is good stays good while the cache only grows.
LEMMA FramesStayGood ==
  ASSUME TypeOK, FramesGood, g' = g,
         \A m \in Nodes : cache[m] # NoInst => cache'[m] # NoInst,
         \A u \in Threads, m \in Nodes :
           frame'[u][m] = frame[u][m] \/ FrameGood(m, frame'[u][m])
  PROVE  FramesGood'
  <1> SUFFICES ASSUME NEW u \in Threads, NEW m \in Nodes
               PROVE  FrameGood(m, frame[u][m])'
    BY DEF FramesGood
  <1>1. FrameGood(m, frame'[u][m])
    BY DEF FramesGood
  <1>2. P!Sound(m)' <=> P!Sound(m)
    BY DEF P!Sound, P!Needs, P!ToSet
  <1>3. \A j \in 1 .. Len(g.deps[m]) : g.deps[m][j] \in Nodes
    BY DEF TypeOK, GraphType
  <1> QED
    BY <1>1, <1>2, <1>3 DEF FrameGood

\* Stacks stay good while no frame goes on to its next resolve.
LEMMA StacksStayGood ==
  ASSUME TypeOK, StacksGood, UNCHANGED <<g, path>>,
         \A u \in Threads : path[u] # <<>> => batch'[u] = batch[u],
         \A u \in Threads, m \in Nodes : frame'[u][m].i = frame[u][m].i
  PROVE  StacksGood'
  <1> SUFFICES ASSUME NEW u \in Threads PROVE StackGood(u)'
    BY DEF StacksGood
  <1>1. StackGood(u) /\ path[u] \in Seq(Nodes)
    BY DEF StacksGood, TypeOK
  <1>2. \A k \in 1 .. Len(path[u]) - 1 : path[u][k] \in Nodes
    BY <1>1
  <1>3. \A m \in Nodes : Work(m)' = Work(m)
    BY DEF Work
  <1> QED
    BY <1>1, <1>2, <1>3 DEF StackGood

\* A step of the innermost call of t that leaves it where it is in its work.
LEMMA GoodTopStep ==
  ASSUME IndInv, PoolInv, NEW t \in Threads, NEW n \in Nodes,
         UNCHANGED <<g, path, batch>>,
         \A m \in Nodes : cache[m] # NoInst => cache'[m] # NoInst,
         NEW f, frame' = [frame EXCEPT ![t][n] = f],
         f.i = frame[t][n].i, FrameGood(n, f)
  PROVE  PoolInv'
  <1>1. \A u \in Threads, m \in Nodes :
          frame'[u][m] = IF u = t /\ m = n THEN f ELSE frame[u][m]
    BY DEF IndInv, TypeOK
  <1>2. FramesGood'
    BY <1>1, FramesStayGood DEF IndInv, PoolInv
  <1>3. StacksGood'
    BY <1>1, StacksStayGood DEF IndInv, PoolInv
  <1> QED
    BY <1>2, <1>3 DEF PoolInv

-----------------------------------------------------------------------------
(***************************************************************************)
(* The steps that keep PoolInv.                                            *)
(***************************************************************************)
LEMMA GoodLookup ==
  ASSUME IndInv, PoolInv, NEW t \in Threads, NEW n \in Nodes, Lookup(t, n)
  PROVE  PoolInv'
  <1> DEFINE f == IF cache[n] # NoInst
                    THEN [frame[t][n] EXCEPT !.pc = "return", !.out = cache[n]]
                    ELSE [frame[t][n] EXCEPT !.pc = "enter"]
  <1>1. /\ frame[t][n] \in FrameType /\ frame[t][n].pc = "lookup"
        /\ cache[n] \in Instances \union {NoInst} /\ FrameGood(n, frame[t][n])
    BY DEF IndInv, TypeOK, Lookup, At, PoolInv, FramesGood
  <1>2. frame' = [frame EXCEPT ![t][n] = f] /\ UNCHANGED <<g, path, batch, cache>>
    BY DEF Lookup
  <1>3. /\ f.i = frame[t][n].i
        /\ \/ f.pc = "return" /\ IsInst(f.out)
           \/ f.pc = "enter"
    BY <1>1 DEF FrameType, IsInst, Instances
  <1> HIDE DEF f
  <1>4. FrameGood(n, f)
    BY <1>1, <1>3 DEF FrameGood
  <1> QED
    BY <1>2, <1>3, <1>4, GoodTopStep

LEMMA GoodLead ==
  ASSUME IndInv, PoolInv, NEW t \in Threads, NEW n \in Nodes, Lead(t, n)
  PROVE  PoolInv'
  <1> DEFINE f == [frame[t][n] EXCEPT !.pc = "recheck"]
  <1>1. /\ frame[t][n] \in FrameType /\ frame[t][n].pc = "enter"
        /\ FrameGood(n, frame[t][n])
    BY DEF IndInv, TypeOK, Lead, At, PoolInv, FramesGood
  <1>2. frame' = [frame EXCEPT ![t][n] = f] /\ UNCHANGED <<g, path, batch, cache>>
    BY DEF Lead
  <1>3. f.i = frame[t][n].i /\ f.pc = "recheck"
    BY <1>1 DEF FrameType
  <1> HIDE DEF f
  <1>4. FrameGood(n, f)
    BY <1>1, <1>3 DEF FrameGood
  <1> QED
    BY <1>2, <1>3, <1>4, GoodTopStep

LEMMA GoodFollow ==
  ASSUME IndInv, PoolInv, NEW t \in Threads, NEW n \in Nodes, Follow(t, n)
  PROVE  PoolInv'
  <1> DEFINE f == [frame[t][n] EXCEPT !.pc = "wait"]
  <1>1. frame[t][n] \in FrameType
    BY DEF IndInv, TypeOK
  <1>2. frame' = [frame EXCEPT ![t][n] = f] /\ UNCHANGED <<g, path, batch, cache>>
    BY DEF Follow
  <1>3. f.i = frame[t][n].i /\ f.pc = "wait"
    BY <1>1 DEF FrameType
  <1> HIDE DEF f
  <1>4. FrameGood(n, f)
    BY <1>3 DEF FrameGood
  <1> QED
    BY <1>2, <1>3, <1>4, GoodTopStep

\* A node that is not declared is not sound.
LEMMA GoodRecheck ==
  ASSUME IndInv, PoolInv, NEW t \in Threads, NEW n \in Nodes, Recheck(t, n)
  PROVE  PoolInv'
  <1> DEFINE f == IF cache[n] # NoInst
                    THEN [frame[t][n] EXCEPT !.pc = "leave", !.out = cache[n]]
                    ELSE IF n \in Declared
                      THEN [frame[t][n] EXCEPT !.pc = "work"]
                      ELSE [frame[t][n] EXCEPT !.pc = "leave", !.out = ErrResult]
  <1>1. /\ frame[t][n] \in FrameType /\ frame[t][n].pc = "recheck"
        /\ cache[n] \in Instances \union {NoInst} /\ FrameGood(n, frame[t][n])
    BY DEF IndInv, TypeOK, Recheck, At, PoolInv, FramesGood
  <1>2. frame' = [frame EXCEPT ![t][n] = f] /\ UNCHANGED <<g, path, batch, cache>>
    BY DEF Recheck
  <1>3. /\ f.i = frame[t][n].i
        /\ \/ f.pc = "leave" /\ IsInst(f.out)
           \/ f.pc = "leave" /\ f.out = ErrResult /\ n \notin Declared
           \/ f.pc = "work"
    BY <1>1 DEF FrameType, IsInst, Instances
  <1>4. n \notin Declared => ~P!Sound(n)
    BY SoundNeeds
  <1>5. frame[t][n].i = 1
    BY <1>1 DEF FrameGood
  <1> HIDE DEF f
  <1>6. FrameGood(n, f)
    BY <1>3, <1>4, <1>5 DEF FrameGood
  <1> QED
    BY <1>2, <1>3, <1>6, GoodTopStep

LEMMA GoodFail ==
  ASSUME IndInv, PoolInv, NEW t \in Threads, NEW n \in Nodes, Fail(t, n)
  PROVE  PoolInv'
  <1> DEFINE f == [frame[t][n] EXCEPT !.pc = "leave", !.out = ErrResult]
  <1>1. frame[t][n] \in FrameType /\ n \in CanFail
    BY DEF IndInv, TypeOK, Fail
  <1>2. frame' = [frame EXCEPT ![t][n] = f] /\ UNCHANGED <<g, path, batch, cache>>
    BY DEF Fail
  <1>3. f.i = frame[t][n].i /\ f.pc = "leave" /\ f.out = ErrResult
    BY <1>1 DEF FrameType
  <1>4. ~P!Sound(n)
    BY <1>1, SoundNeeds
  <1> HIDE DEF f
  <1>5. FrameGood(n, f)
    BY <1>3, <1>4 DEF FrameGood
  <1> QED
    BY <1>2, <1>3, <1>5, GoodTopStep

\* When Build is done with its resolves all declared dependencies are cached.
LEMMA GoodConstruct ==
  ASSUME IndInv, PoolInv, NEW t \in Threads, NEW n \in Nodes, Construct(t, n)
  PROVE  PoolInv'
  <1> DEFINE f == [frame[t][n] EXCEPT !.pc = "store", !.out = Len(built) + 1]
  <1>1. /\ frame[t][n] \in FrameType /\ frame[t][n].pc = "work"
        /\ FrameGood(n, frame[t][n]) /\ frame[t][n].i = Len(Work(n)) + 1
    BY DEF IndInv, TypeOK, Construct, At, PoolInv, FramesGood
  <1>2. frame' = [frame EXCEPT ![t][n] = f] /\ UNCHANGED <<g, path, batch, cache>>
    BY DEF Construct
  <1>3. f.i = frame[t][n].i /\ f.pc = "store"
    BY <1>1 DEF FrameType
  <1>4. \A j \in 1 .. Len(g.deps[n]) : j < frame[t][n].i
    <2>1. g.deps[n] \in Seq(Nodes) /\ g.uses[n] \in Seq(Nodes)
      BY DEF IndInv, TypeOK, GraphType
    <2> DEFINE d == Len(g.deps[n])
               u == Len(g.uses[n])
    <2>2. Len(Work(n)) = d + u /\ d \in Nat /\ u \in Nat
      BY <2>1 DEF Work
    <2> HIDE DEF d, u
    <2>3. \A j \in 1 .. d : j < frame[t][n].i
      BY <1>1, <2>2
    <2> QED
      BY <2>3 DEF d
  <1> HIDE DEF f
  <1>5. FrameGood(n, f)
    BY <1>1, <1>3, <1>4 DEF FrameGood
  <1> QED
    BY <1>2, <1>3, <1>5, GoodTopStep

LEMMA GoodStore ==
  ASSUME IndInv, PoolInv, NEW t \in Threads, NEW n \in Nodes, Store(t, n)
  PROVE  PoolInv'
  <1> DEFINE f == [frame[t][n] EXCEPT !.pc = "leave"]
  <1>1. /\ frame[t][n] \in FrameType
        /\ frame[t][n].out \in Instances /\ cache \in [Nodes -> Instances \union {NoInst}]
    BY DEF IndInv, TypeOK, Store, At, HandOK
  <1>2. /\ frame' = [frame EXCEPT ![t][n] = f] /\ UNCHANGED <<g, path, batch>>
        /\ cache' = [cache EXCEPT ![n] = frame[t][n].out]
    BY DEF Store
  <1>3. /\ f.i = frame[t][n].i /\ f.pc = "leave" /\ IsInst(f.out)
        /\ frame[t][n].out # NoInst
    BY <1>1 DEF FrameType, IsInst, Instances, NoInst
  <1>4. \A m \in Nodes : cache[m] # NoInst => cache'[m] # NoInst
    BY <1>1, <1>2, <1>3
  <1> HIDE DEF f
  <1>5. FrameGood(n, f)
    BY <1>3 DEF FrameGood
  <1> QED
    BY <1>2, <1>3, <1>4, <1>5, GoodTopStep

\* Followers get the leader's result, for the same node.
LEMMA GoodLeave ==
  ASSUME IndInv, PoolInv, NEW t \in Threads, NEW n \in Nodes, Leave(t, n)
  PROVE  PoolInv'
  <1>1. /\ frame[t][n].pc = "leave" /\ UNCHANGED <<g, cache, path, batch>>
        /\ FrameGood(n, frame[t][n])
    BY DEF Leave, At, PoolInv, FramesGood
  <1>2. IsInst(frame[t][n].out) \/ (frame[t][n].out = ErrResult /\ ~P!Sound(n))
    BY <1>1 DEF FrameGood
  <1>3. ASSUME NEW u \in Threads, NEW m \in Nodes
        PROVE  \/ frame'[u][m] = frame[u][m]
               \/ /\ m = n
                  /\ frame'[u][m].pc = "return"
                  /\ frame'[u][m].out = frame[t][n].out
                  /\ frame'[u][m].i = frame[u][m].i
    <2>1. frame[u] \in [Nodes -> FrameType] /\ frame[u][n] \in FrameType
      BY DEF IndInv, TypeOK
    <2> DEFINE f == [frame[u][n] EXCEPT !.pc = "return", !.out = frame[t][n].out]
    <2>2. f.pc = "return" /\ f.out = frame[t][n].out /\ f.i = frame[u][n].i
      BY <2>1 DEF FrameType
    <2>3. frame'[u] = IF u = t \/ frame[u][n].pc = "wait"
                        THEN [frame[u] EXCEPT ![n] = f] ELSE frame[u]
      BY DEF Leave, Waits
    <2> HIDE DEF f
    <2> QED
      BY <2>1, <2>2, <2>3
  <1>4. \A u \in Threads, m \in Nodes :
          frame'[u][m] = frame[u][m] \/ FrameGood(m, frame'[u][m])
    BY <1>2, <1>3 DEF FrameGood
  <1>5. FramesGood'
    BY <1>1, <1>4, FramesStayGood DEF IndInv, PoolInv
  <1>6. StacksGood'
    BY <1>1, <1>3, StacksStayGood DEF IndInv, PoolInv
  <1> QED
    BY <1>5, <1>6 DEF PoolInv

LEMMA GoodCallResolve ==
  ASSUME IndInv, PoolInv, NEW t \in Threads, NEW ids \in Batches, CallResolve(t, ids)
  PROVE  PoolInv'
  <1>1. /\ UNCHANGED <<g, cache, path, frame>>
        /\ \A u \in Threads : path[u] # <<>> => batch'[u] = batch[u]
    BY DEF CallResolve, Idle, IndInv, TypeOK
  <1> QED
    BY <1>1, FramesStayGood, StacksStayGood DEF IndInv, PoolInv

\* The stack of a thread that does nothing.
LEMMA OtherStack ==
  ASSUME TypeOK, g' = g, NEW u \in Threads, StackGood(u),
         path'[u] = path[u], batch'[u] = batch[u], frame'[u] = frame[u]
  PROVE  StackGood(u)'
  <1>1. \A m : Work(m)' = Work(m)
    BY DEF Work
  <1> QED
    BY <1>1 DEF StackGood

LEMMA GoodBegin ==
  ASSUME IndInv, PoolInv, NEW t \in Threads, Begin(t)
  PROVE  PoolInv'
  <1> DEFINE n == Head(batch[t])
  <1>1. n \in Nodes
    BY DEF Begin, IndInv, TypeOK
  <1>2. /\ UNCHANGED <<g, cache, batch>>
        /\ frame' = [frame EXCEPT ![t][n] = Entered]
        /\ path' = [path EXCEPT ![t] = <<n>>]
    BY DEF Begin
  <1>3. FrameGood(n, Entered)
    BY DEF FrameGood, Entered, NoFrame
  <1> HIDE DEF n
  <1>4. /\ path'[t] = <<n>>
        /\ \A u \in Threads \ {t} :
             path'[u] = path[u] /\ batch'[u] = batch[u] /\ frame'[u] = frame[u]
        /\ \A u \in Threads, m \in Nodes :
             frame'[u][m] = IF u = t /\ m = n THEN Entered ELSE frame[u][m]
    BY <1>1, <1>2 DEF IndInv, TypeOK
  <1>5. FramesGood'
    BY <1>2, <1>3, <1>4, FramesStayGood DEF IndInv, PoolInv
  <1>6. StackGood(t)'
    <2>1. path'[t][1] = n /\ Len(path'[t]) = 1
      BY <1>4
    <2>2. batch'[t] = batch[t]
      BY <1>2
    <2>3. 1 .. Len(path'[t]) - 1 = {}
      BY <2>1
    <2> QED
      BY <2>1, <2>2, <2>3 DEF StackGood, n
  <1>7. ASSUME NEW u \in Threads \ {t} PROVE StackGood(u)'
    BY <1>2, <1>4, OtherStack DEF IndInv, PoolInv, StacksGood
  <1> QED
    BY <1>5, <1>6, <1>7 DEF PoolInv, StacksGood

LEMMA GoodDescend ==
  ASSUME IndInv, PoolInv, NEW t \in Threads, NEW n \in Nodes, Descend(t, n)
  PROVE  PoolInv'
  <1> DEFINE i == frame[t][n].i
             child == Work(n)[i]
             s == path[t]
  <1>1. /\ At(t, n, "work") /\ UNCHANGED <<g, cache, batch>> /\ frame[t][n] \in FrameType
        /\ s \in Seq(Nodes) /\ Len(s) \in Nat \ {0} /\ n = s[Len(s)]
    BY TopOfPath DEF Descend, IndInv, TypeOK
  <1>2. i \in 1 .. Len(Work(n))
    BY WorkType DEF Descend, IndInv, TypeOK, FrameType
  <1>3. child \in Nodes /\ child \in P!Needs(n)
    BY <1>2, WorkType, WorkIsNeeded DEF IndInv
  <1>4. CASE child \in ToSet(s)
    <2> DEFINE f == [frame[t][n] EXCEPT !.pc = "leave", !.out = ErrResult]
    <2>1. path' = path /\ frame' = [frame EXCEPT ![t][n] = f]
      BY <1>4, DescendRefuses DEF IndInv
    <2>2. f.i = frame[t][n].i /\ f.pc = "leave" /\ f.out = ErrResult
      BY <1>1 DEF FrameType
    <2>3. ~P!Sound(n)
      BY <1>1, <1>3, <1>4, StackCycle DEF PoolInv
    <2> HIDE DEF f, child
    <2>4. FrameGood(n, f)
      BY <2>2, <2>3 DEF FrameGood
    <2> QED
      BY <1>1, <2>1, <2>2, <2>4, GoodTopStep
  <1>5. CASE child \notin ToSet(s)
    <2>1. /\ frame' = [frame EXCEPT ![t][child] = Entered]
          /\ path' = [path EXCEPT ![t] = Append(s, child)]
      BY <1>5 DEF Descend
    <2>2. FrameGood(child, Entered)
      BY DEF FrameGood, Entered, NoFrame
    <2>3. child # n
      BY <1>1, <1>5 DEF ToSet
    <2> HIDE DEF child
    <2>4. /\ path'[t] = Append(s, child) /\ batch'[t] = batch[t]
          /\ \A u \in Threads \ {t} :
               path'[u] = path[u] /\ batch'[u] = batch[u] /\ frame'[u] = frame[u]
          /\ \A u \in Threads, m \in Nodes :
               frame'[u][m] = IF u = t /\ m = child THEN Entered ELSE frame[u][m]
      BY <1>1, <1>3, <2>1 DEF IndInv, TypeOK
    <2>5. FramesGood'
      BY <1>1, <2>2, <2>4, FramesStayGood DEF IndInv, PoolInv
    <2>6. StackGood(t)'
      <3> DEFINE r == path'[t]
      <3>1. /\ Len(r) = Len(s) + 1 /\ r[Len(s) + 1] = child
            /\ \A k \in 1 .. Len(s) : r[k] = s[k]
        BY <1>1, <1>3, <2>4
      <3>2. r[1] = Head(batch'[t])
        BY <1>1, <2>4, <3>1 DEF PoolInv, StacksGood, StackGood
      <3>3. \A m : Work(m)' = Work(m)
        BY <1>1 DEF Work
      <3>4. ASSUME NEW k \in 1 .. Len(s)
            PROVE  LET j == frame'[t][r[k]].i
                   IN j <= Len(Work(r[k])) /\ Work(r[k])[j] = r[k + 1]
        <4>1. s[k] \in Nodes /\ r[k] = s[k] /\ s[k] # child
          BY <1>1, <1>5, <3>1 DEF ToSet
        <4>2. frame'[t][s[k]] = frame[t][s[k]]
          BY <2>4, <4>1
        <4>3. CASE k = Len(s)
          BY <1>1, <1>2, <3>1, <4>1, <4>2, <4>3 DEF child
        <4>4. CASE k # Len(s)
          <5>1. k \in 1 .. Len(s) - 1 /\ k + 1 \in 1 .. Len(s)
            BY <1>1, <4>4
          <5>2. r[k + 1] = s[k + 1]
            BY <3>1, <5>1
          <5>3. /\ frame[t][s[k]].i <= Len(Work(s[k]))
                /\ Work(s[k])[frame[t][s[k]].i] = s[k + 1]
            BY <5>1 DEF PoolInv, StacksGood, StackGood
          <5> HIDE DEF r, s
          <5> QED
            BY <4>1, <4>2, <5>2, <5>3
        <4> QED
          BY <4>3, <4>4
      <3>5. 1 .. Len(r) - 1 = 1 .. Len(s)
        BY <1>1, <3>1
      <3> HIDE DEF s
      <3> QED
        BY <3>2, <3>3, <3>4, <3>5 DEF StackGood, r
    <2>7. ASSUME NEW u \in Threads \ {t} PROVE StackGood(u)'
      BY <1>1, <2>4, OtherStack DEF IndInv, PoolInv, StacksGood
    <2> QED
      BY <2>5, <2>6, <2>7 DEF PoolInv, StacksGood
  <1> QED
    BY <1>4, <1>5

LEMMA GoodReturnToCaller ==
  ASSUME IndInv, PoolInv, NEW t \in Threads, NEW n \in Nodes, ReturnToCaller(t, n)
  PROVE  PoolInv'
  <1>1. /\ UNCHANGED <<g, cache>>
        /\ frame' = [frame EXCEPT ![t][n] = NoFrame]
        /\ path' = [path EXCEPT ![t] = <<>>]
        /\ \A u \in Threads \ {t} : batch'[u] = batch[u]
    BY DEF ReturnToCaller, IndInv, TypeOK
  <1>2. /\ path'[t] = <<>>
        /\ \A u \in Threads \ {t} :
             path'[u] = path[u] /\ batch'[u] = batch[u] /\ frame'[u] = frame[u]
        /\ \A u \in Threads, m \in Nodes :
             frame'[u][m] = IF u = t /\ m = n THEN NoFrame ELSE frame[u][m]
    BY <1>1 DEF IndInv, TypeOK
  <1>3. FrameGood(n, NoFrame)
    BY DEF FrameGood, NoFrame
  <1>4. FramesGood'
    BY <1>1, <1>2, <1>3, FramesStayGood DEF IndInv, PoolInv
  <1>5. StackGood(t)'
    BY <1>2 DEF StackGood
  <1>6. ASSUME NEW u \in Threads \ {t} PROVE StackGood(u)'
    BY <1>1, <1>2, OtherStack DEF IndInv, PoolInv, StacksGood
  <1> QED
    BY <1>4, <1>5, <1>6 DEF PoolInv, StacksGood

\* A parent goes on only with an instance, which is the cached one; the error of
\* what it needs is its own.
LEMMA GoodReturnToParent ==
  ASSUME IndInv, OnceInv, PoolInv, NEW t \in Threads, NEW n \in Nodes,
         ReturnToParent(t, n)
  PROVE  PoolInv'
  <1> DEFINE s == path[t]
             p == s[Len(s) - 1]
             r == frame[t][n].out
             i == frame[t][p].i
             resumed == [frame[t][p] EXCEPT
                           !.i = @ + 1,
                           !.got = IF i > Len(g.deps[p]) THEN @ \union {r} ELSE @]
             ended == [frame[t][p] EXCEPT !.pc = "leave", !.out = ErrResult]
             f == IF IsInst(r) THEN resumed ELSE ended
  <1>1. /\ At(t, n, "return") /\ UNCHANGED <<g, cache, batch>>
        /\ path' = [path EXCEPT ![t] = Front(s)]
        /\ frame' = [frame EXCEPT ![t][n] = NoFrame, ![t][p] = f]
    BY DEF ReturnToParent
  <1>2. /\ s \in Seq(Nodes) /\ Len(s) \in Nat /\ Len(s) > 1 /\ n = s[Len(s)]
        /\ s # <<>> /\ DOMAIN s = Positions(s)
        /\ \A a, b \in Positions(s) : s[a] = s[b] => a = b
    BY <1>1, TopOfPath DEF ReturnToParent, IndInv, TypeOK, PathOK, Positions
  <1>3. Len(s) - 1 \in Positions(s) /\ Len(s) \in Positions(s)
    BY <1>2 DEF Positions
  <1>4. /\ p \in Nodes /\ p # n /\ frame[t][p].pc = "work"
        /\ frame[t][p] \in FrameType /\ frame[t][n] \in FrameType
    <2>1. p \in Nodes /\ p # n
      BY <1>2, <1>3
    <2>2. frame[t][p].pc = "work"
      BY <1>2, <1>3 DEF IndInv, PathOK
    <2> QED
      BY <2>1, <2>2 DEF IndInv, TypeOK
  <1>5. i \in 1 .. Len(Work(p)) /\ Work(p)[i] = n
    <2>1. Len(s) - 1 \in 1 .. Len(s) - 1 /\ (Len(s) - 1) + 1 = Len(s)
      BY <1>2
    <2>2. i <= Len(Work(p)) /\ Work(p)[i] = n
      <3>1. \A k \in 1 .. Len(s) - 1 :
              /\ frame[t][s[k]].i <= Len(Work(s[k]))
              /\ Work(s[k])[frame[t][s[k]].i] = s[k + 1]
        BY DEF PoolInv, StacksGood, StackGood
      <3>2. /\ frame[t][s[Len(s) - 1]].i <= Len(Work(s[Len(s) - 1]))
            /\ Work(s[Len(s) - 1])[frame[t][s[Len(s) - 1]].i] = s[(Len(s) - 1) + 1]
        BY <2>1, <3>1
      <3> QED
        BY <1>2, <2>1, <3>2
    <2>3. i \in Nat \ {0} /\ Work(p) \in Seq(Nodes)
      BY <1>4, WorkType DEF FrameType, IndInv
    <2> HIDE DEF i, p
    <2> QED
      BY <2>2, <2>3
  <1>6. n \in P!Needs(p) /\ (i <= Len(g.deps[p]) => g.deps[p][i] = n)
    BY <1>4, <1>5, WorkIsNeeded DEF IndInv
  <1>7. /\ IsInst(r) => cache[n] # NoInst
        /\ ~IsInst(r) => ~P!Sound(n)
    BY <1>1 DEF At, OnceInv, CarriedOK, PoolInv, FramesGood, FrameGood, IsInst, NoInst
  <1>8. FrameGood(p, f)
    <2>1. CASE IsInst(r)
      <3>1. resumed.pc = "work" /\ resumed.i = i + 1
        BY <1>4 DEF FrameType
      <3>2. FrameGood(p, frame[t][p]) /\ i \in Nat
        BY <1>4, <1>5 DEF PoolInv, FramesGood
      <3> HIDE DEF resumed, i, p, r
      <3>3. f = resumed
        BY <2>1
      <3>4. ASSUME NEW j \in 1 .. Len(g.deps[p]), j < i + 1
            PROVE  cache[g.deps[p][j]] # NoInst
        <4>1. CASE j = i
          BY <1>6, <1>7, <2>1, <4>1
        <4>2. CASE j # i
          <5>1. j < i
            BY <3>2, <3>4, <4>2
          <5> QED
            BY <1>4, <3>2, <5>1 DEF FrameGood, i
        <4> QED
          BY <4>1, <4>2
      <3> QED
        BY <3>1, <3>3, <3>4 DEF FrameGood
    <2>2. CASE ~IsInst(r)
      <3>1. ended.pc = "leave" /\ ended.out = ErrResult
        BY <1>4 DEF FrameType
      <3>2. ~P!Sound(p)
        BY <1>6, <1>7, <2>2, SoundNeeds
      <3> HIDE DEF ended, p, r
      <3> QED
        BY <2>2, <3>1, <3>2 DEF FrameGood
    <2> QED
      BY <2>1, <2>2
  <1> HIDE DEF f, i, r
  <1>9. /\ path'[t] = Front(s)
        /\ \A u \in Threads \ {t} :
             path'[u] = path[u] /\ batch'[u] = batch[u] /\ frame'[u] = frame[u]
        /\ \A u \in Threads, m \in Nodes :
             frame'[u][m] = IF u = t /\ m = p THEN f
                            ELSE IF u = t /\ m = n THEN NoFrame ELSE frame[u][m]
    <2> HIDE DEF p, s
    <2> QED
      BY <1>1, <1>4 DEF IndInv, TypeOK
  <1>10. FramesGood'
    <2>1. FrameGood(n, NoFrame)
      BY DEF FrameGood, NoFrame
    <2> HIDE DEF p, s
    <2>2. \A u \in Threads, m \in Nodes :
            frame'[u][m] = frame[u][m] \/ FrameGood(m, frame'[u][m])
      BY <1>8, <1>9, <2>1
    <2> QED
      BY <1>1, <2>2, FramesStayGood DEF IndInv, PoolInv
  <1>11. StackGood(t)'
    <2> DEFINE q == Front(s)
    <2>1. Len(q) = Len(s) - 1 /\ \A k \in Positions(q) : q[k] = s[k]
      BY <1>2, PopPath
    <2> HIDE DEF q
    <2>2. q[1] = Head(batch'[t])
      <3>1. s[1] = Head(batch[t])
        BY <1>2 DEF PoolInv, StacksGood, StackGood
      <3>2. q[1] = s[1]
        BY <1>2, <2>1 DEF Positions
      <3> QED
        BY <1>1, <3>1, <3>2
    <2>3. \A m : Work(m)' = Work(m)
      BY <1>1 DEF Work
    <2>4. ASSUME NEW k \in 1 .. Len(q) - 1
          PROVE  LET j == frame'[t][q[k]].i
                 IN j <= Len(Work(q[k])) /\ Work(q[k])[j] = q[k + 1]
      <3>1. /\ k \in 1 .. Len(s) - 1 /\ k \in Positions(q) /\ k + 1 \in Positions(q)
            /\ k \in Positions(s) /\ k # Len(s) - 1 /\ k # Len(s)
        BY <1>2, <2>1 DEF Positions
      <3>2. q[k] = s[k] /\ q[k + 1] = s[k + 1]
        BY <2>1, <3>1
      <3>3. s[k] \in Nodes /\ s[k] # p /\ s[k] # n
        BY <1>2, <1>3, <3>1
      <3>4. frame'[t][s[k]] = frame[t][s[k]]
        BY <1>9, <3>3
      <3>5. /\ frame[t][s[k]].i <= Len(Work(s[k]))
            /\ Work(s[k])[frame[t][s[k]].i] = s[k + 1]
        BY <3>1 DEF PoolInv, StacksGood, StackGood
      <3> HIDE DEF s
      <3> QED
        BY <3>2, <3>4, <3>5
    <2>5. path'[t] = q
      BY <1>9 DEF q
    <2> HIDE DEF s, p
    <2> QED
      BY <2>2, <2>3, <2>4, <2>5 DEF StackGood
  <1>12. ASSUME NEW u \in Threads \ {t} PROVE StackGood(u)'
    BY <1>1, <1>9, OtherStack DEF IndInv, PoolInv, StacksGood
  <1> QED
    BY <1>10, <1>11, <1>12 DEF PoolInv, StacksGood

LEMMA GoodResolveStep ==
  ASSUME IndInv, OnceInv, PoolInv, NEW t \in Threads, NEW n \in Nodes, ResolveStep(t, n)
  PROVE  PoolInv'
  BY GoodLookup, GoodLead, GoodFollow, GoodRecheck, GoodDescend, GoodConstruct, GoodFail,
     GoodStore, GoodLeave, GoodReturnToParent, GoodReturnToCaller
  DEF ResolveStep

\* No close is under way, and none begins.
LEMMA NobodyCloses ==
  ASSUME Closers = {}, Injectors = {}, OnceInv, NEW t \in Threads
  PROVE  /\ \A n \in Nodes : ~CloseOne(t, n) /\ ~Inject(t, n)
         /\ ~CloseFinish(t) /\ ~Close(t) /\ \A ids : ~CloseIDs(t, ids)
  BY DEF OnceInv, CacheOK, CloseOne, CloseFinish, Inject, Close, CloseIDs

LEMMA PoolInvStep ==
  ASSUME Closers = {}, Injectors = {}, IndInv, OnceInv, PoolInv, [Next]_vars
  PROVE  PoolInv'
  <1>1. CASE UNCHANGED vars
    <2>1. UNCHANGED <<g, cache, path, batch, frame>>
      BY <1>1 DEF vars
    <2> QED
      BY <2>1, FramesStayGood, StacksStayGood DEF IndInv, PoolInv
  <1>2. ASSUME NEW t \in Threads, Inside(t) \/ Calls(t) PROVE PoolInv'
    BY <1>2, NobodyCloses, GoodBegin, GoodResolveStep, GoodCallResolve DEF Inside, Calls
  <1> QED
    BY <1>1, <1>2 DEF Next, Finished

LEMMA InitPoolInv == Init => PoolInv
  <1> SUFFICES ASSUME Init PROVE PoolInv
    OBVIOUS
  <1>1. FramesGood
    BY DEF Init, FramesGood, FrameGood, NoFrame
  <1>2. ASSUME NEW t \in Threads PROVE StackGood(t)
    BY DEF Init, StackGood
  <1> QED
    BY <1>1, <1>2 DEF PoolInv, StacksGood

-----------------------------------------------------------------------------
(***************************************************************************)
(* The steps of Pool that the steps of Container are.                      *)
(***************************************************************************)
Inv == IndInv /\ OnceInv /\ PoolInv

\* The store is a Put: of a new instance, into an empty slot, when the slots of
\* the declared dependencies are full.
LEMMA StoreIsPut ==
  ASSUME Inv, NEW t \in Threads, NEW n \in Nodes, Store(t, n)
  PROVE  P!Put(n)
  <1> DEFINE i == frame[t][n].out
  <1>1. /\ frame[t][n].pc = "store" /\ cache' = [cache EXCEPT ![n] = i]
        /\ UNCHANGED <<g, batch, ret>> /\ cache \in [Nodes -> Instances \union {NoInst}]
    BY DEF Store, At, Inv, IndInv, TypeOK
  <1>2. i \in Instances /\ built[i].node = n /\ i # NoInst
    BY <1>1 DEF Inv, IndInv, HandOK, Instances, NoInst
  <1>3. cache[n] = NoInst
    BY <1>1 DEF Inv, OnceInv, MissOK
  <1>4. \A d \in P!ToSet(g.deps[n]) : cache[d] # NoInst
    <2>1. \A j \in 1 .. Len(g.deps[n]) : cache[g.deps[n][j]] # NoInst
      BY <1>1 DEF Inv, PoolInv, FramesGood, FrameGood
    <2>2. DOMAIN g.deps[n] = 1 .. Len(g.deps[n])
      BY DEF Inv, IndInv, TypeOK, GraphType
    <2> QED
      BY <2>1, <2>2 DEF P!ToSet
  <1> HIDE DEF i
  <1>5. cache'[n] = i /\ cache' = [cache EXCEPT ![n] = cache'[n]]
    BY <1>1
  <1>6. \A m \in Nodes : i # cache[m]
    BY <1>2, <1>3 DEF Inv, OnceInv, CacheOK
  <1> QED
    BY <1>1, <1>3, <1>4, <1>5, <1>6 DEF P!Put

\* The return of the outermost call is an Answer or a Refuse.
LEMMA ReturnIsAnswer ==
  ASSUME Inv, NEW t \in Threads, NEW n \in Nodes, ReturnToCaller(t, n)
  PROVE  P!Answer(t) \/ P!Refuse(t)
  <1> DEFINE r == frame[t][n].out
  <1>1. /\ At(t, n, "return") /\ Len(path[t]) = 1 /\ UNCHANGED <<g, cache>>
        /\ ret' = [ret EXCEPT ![t] = r]
        /\ batch' = [batch EXCEPT ![t] = IF IsInst(r) THEN Tail(@) ELSE <<>>]
    BY DEF ReturnToCaller
  <1>2. n = Head(batch[t]) /\ batch[t] # <<>>
    BY <1>1 DEF At, Last, Inv, IndInv, PathOK, PoolInv, StacksGood, StackGood
  <1>3. /\ IsInst(r) => cache[n] = r /\ r # NoInst
        /\ ~IsInst(r) => r = ErrResult /\ ~P!Sound(n)
    BY <1>1 DEF At, Inv, OnceInv, CarriedOK, PoolInv, FramesGood, FrameGood, IsInst, NoInst
  <1> HIDE DEF r
  <1>4. CASE IsInst(r)
    BY <1>1, <1>2, <1>3, <1>4 DEF P!Answer
  <1>5. CASE ~IsInst(r)
    BY <1>1, <1>2, <1>3, <1>5 DEF P!Refuse
  <1> QED
    BY <1>4, <1>5

LEMMA CallIsAsk ==
  ASSUME NEW t \in Threads, NEW ids \in Batches, CallResolve(t, ids)
  PROVE  P!Ask(t, ids)
  BY DEF CallResolve, Idle, P!Ask

\* Everything else happens inside the container.
LEMMA RestIsHidden ==
  ASSUME NEW t \in Threads, NEW n \in Nodes, ResolveStep(t, n)
  PROVE  Store(t, n) \/ ReturnToCaller(t, n) \/ UNCHANGED P!vars
  BY DEF ResolveStep, Lookup, Lead, Follow, Recheck, Descend, Construct, Fail, Leave,
         ReturnToParent, P!vars

LEMMA StepIsPoolStep ==
  ASSUME Closers = {}, Injectors = {}, Inv, [Next]_vars
  PROVE  [P!Next]_(P!vars)
  <1>1. CASE UNCHANGED vars
    BY <1>1 DEF vars, P!vars
  <1>2. ASSUME NEW t \in Threads, Inside(t) \/ Calls(t)
        PROVE  P!Next \/ UNCHANGED P!vars
    <2>1. CASE Begin(t)
      BY <2>1 DEF Begin, P!vars
    <2>2. ASSUME NEW n \in Nodes, ResolveStep(t, n)
          PROVE  P!Next \/ UNCHANGED P!vars
      <3>1. CASE Store(t, n)
        BY <3>1, StoreIsPut DEF P!Next
      <3>2. CASE ReturnToCaller(t, n)
        BY <3>2, ReturnIsAnswer DEF P!Next
      <3> QED
        BY <2>2, <3>1, <3>2, RestIsHidden
    <2>3. ASSUME NEW ids \in Batches, CallResolve(t, ids)
          PROVE  P!Next
      BY <2>3, CallIsAsk DEF P!Next
    <2> QED
      BY <1>2, <2>1, <2>2, <2>3, NobodyCloses DEF Inside, Calls, Inv
  <1> QED
    BY <1>1, <1>2 DEF Next, Finished

\* To goroutines that only resolve, the container is a pool of instances: for
\* every graph and every number of goroutines, and whatever Build resolves
\* (container.go:68-134).
THEOREM ImplementsThePool ==
  ASSUME Closers = {}, Injectors = {}
  PROVE  Spec => ImplementsPool
  <1>1. Init => Inv
    BY InitIndInv, InitOnceInv, InitPoolInv DEF Inv
  <1>2. Inv /\ [Next]_vars => Inv'
    BY IndInvStep, OnceStep, PoolInvStep DEF Inv
  <1>3. Init => P!Init
    BY DEF Init, P!Init
  <1>4. Inv /\ [Next]_vars => [P!Next]_(P!vars)
    BY StepIsPoolStep
  <1> QED
    BY <1>1, <1>2, <1>3, <1>4, PTL DEF Spec, ImplementsPool, P!Spec

-----------------------------------------------------------------------------
(***************************************************************************)
(* Proof that, in a container which is only resolved, what is cached is    *)
(* wired to what is cached.                                                *)
(***************************************************************************)

\* The first k nodes that the Build of n resolves are cached, and S has just
\* their instances.
Wired(n, k, S) ==
  /\ \A j \in 1 .. k : cache[g.uses[n][j]] # NoInst
  /\ S = {cache[g.uses[n][j]] : j \in 1 .. k}

WiredInst(n, r) == Wired(n, Len(g.uses[n]), built[r].uses)

\* What Build has been handed so far, and what it wired its instance to.
FrameWired(n, f) ==
  /\ f.pc \in {"lookup", "enter", "recheck"} => f.got = {}
  /\ f.pc = "work" => /\ f.i <= Len(g.deps[n]) + Len(g.uses[n]) + 1
                      /\ Wired(n, f.i - 1 - Len(g.deps[n]), f.got)
  /\ f.pc = "store" => WiredInst(n, f.out)

FramesWired == \A t \in Threads, n \in Nodes : FrameWired(n, frame[t][n])

CacheWired ==
  \A n \in Nodes : cache[n] # NoInst =>
    /\ \A j \in 1 .. Len(g.deps[n]) : cache[g.deps[n][j]] # NoInst
    /\ WiredInst(n, cache[n])

WireInv == FramesWired /\ CacheWired

\* A step that overwrites nothing: the cache and the instances only grow.
Grows ==
  /\ g' = g
  /\ \A m \in Nodes : cache[m] # NoInst => cache'[m] = cache[m]
  /\ \A i \in Instances : built'[i] = built[i]

-----------------------------------------------------------------------------
LEMMA GraphLists ==
  ASSUME TypeOK, NEW n \in Nodes
  PROVE  /\ g.deps[n] \in Seq(Nodes) /\ Len(g.deps[n]) \in Nat
         /\ g.uses[n] \in Seq(Nodes) /\ Len(g.uses[n]) \in Nat
         /\ \A j \in 1 .. Len(g.deps[n]) : g.deps[n][j] \in Nodes
         /\ \A j \in 1 .. Len(g.uses[n]) : g.uses[n][j] \in Nodes
         /\ Len(Work(n)) = Len(g.deps[n]) + Len(g.uses[n])
  <1>1. g.deps[n] \in Seq(Nodes) /\ g.uses[n] \in Seq(Nodes)
    BY DEF TypeOK, GraphType
  <1> QED
    BY <1>1 DEF Work

LEMMA WiredStays ==
  ASSUME TypeOK, Grows, NEW n \in Nodes, NEW k \in Int, k <= Len(g.uses[n]),
         NEW S, Wired(n, k, S)
  PROVE  Wired(n, k, S)'
  <1>0. PICK u : u = Len(g.uses[n])
    OBVIOUS
  <1>1. \A j \in 1 .. k : g.uses[n][j] \in Nodes
    <2>1. u \in Nat /\ k <= u /\ \A j \in 1 .. u : g.uses[n][j] \in Nodes
      BY <1>0, GraphLists
    <2> QED
      BY <2>1
  <1>2. \A j \in 1 .. k : cache'[g.uses[n][j]] = cache[g.uses[n][j]]
    BY <1>1 DEF Wired, Grows
  <1> QED
    BY <1>2 DEF Wired, Grows

LEMMA WiredInstStays ==
  ASSUME TypeOK, Grows, NEW n \in Nodes, NEW r \in Instances, WiredInst(n, r)
  PROVE  WiredInst(n, r)'
  <1>1. Len(g.uses[n]) \in Int
    BY GraphLists
  <1>2. built'[r].uses = built[r].uses /\ Len(g'.uses[n]) = Len(g.uses[n])
    BY DEF Grows
  <1>3. Wired(n, Len(g.uses[n]), built[r].uses)
    BY DEF WiredInst
  <1> DEFINE S == built[r].uses
             k == Len(g.uses[n])
  <1>4. PICK c, j : c = S /\ j = k
    OBVIOUS
  <1> HIDE DEF S, k
  <1>5. Wired(n, j, c)'
    BY <1>1, <1>3, <1>4, WiredStays DEF S, k
  <1> QED
    BY <1>2, <1>4, <1>5 DEF WiredInst, Wired, S, k

\* A frame that is left alone stays wired.
LEMMA FrameWiredStays ==
  ASSUME IndInv, Grows, NEW t \in Threads, NEW n \in Nodes,
         FrameWired(n, frame[t][n]), frame'[t][n] = frame[t][n]
  PROVE  FrameWired(n, frame[t][n])'
  <1>1. frame[t][n] \in FrameType
    BY DEF IndInv, TypeOK
  <1>2. PICK f : f = frame[t][n]
    OBVIOUS
  <1>3. f.pc = "store" => WiredInst(n, f.out)'
    BY <1>2, WiredInstStays DEF FrameWired, IndInv, HandOK
  <1>4. ASSUME f.pc = "work"
        PROVE  (/\ f.i <= Len(g.deps[n]) + Len(g.uses[n]) + 1
                /\ Wired(n, f.i - 1 - Len(g.deps[n]), f.got))'
    <2> DEFINE k == f.i - 1 - Len(g.deps[n])
    <2>1. /\ f.i <= Len(g.deps[n]) + Len(g.uses[n]) + 1 /\ Wired(n, k, f.got)
          /\ f.i \in Nat
      BY <1>1, <1>2, <1>4 DEF FrameWired, FrameType
    <2>2. PICK j : j = k
      OBVIOUS
    <2>3. j \in Int /\ j <= Len(g.uses[n])
      <3>1. PICK d, u : d = Len(g.deps[n]) /\ u = Len(g.uses[n])
        OBVIOUS
      <3>2. /\ d \in Nat /\ u \in Nat /\ f.i \in Nat
            /\ f.i <= d + u + 1 /\ j = f.i - 1 - d
        BY <2>1, <2>2, <3>1, GraphLists DEF IndInv
      <3> HIDE DEF k
      <3>3. j \in Int /\ j <= u
        BY <3>2
      <3> QED
        BY <3>1, <3>3
    <2>4. Wired(n, j, f.got)'
      BY <2>1, <2>2, <2>3, WiredStays DEF IndInv
    <2>5. g' = g
      BY DEF Grows
    <2> QED
      BY <2>1, <2>2, <2>4, <2>5
  <1> QED
    BY <1>2, <1>3, <1>4 DEF FrameWired

LEMMA CacheWiredStays ==
  ASSUME IndInv, CacheWired, Grows, cache' = cache
  PROVE  CacheWired'
  <1> SUFFICES ASSUME NEW n \in Nodes, cache[n] # NoInst
               PROVE  /\ \A j \in 1 .. Len(g.deps[n]) : cache[g.deps[n][j]] # NoInst
                      /\ WiredInst(n, cache[n])'
    BY DEF CacheWired, Grows
  <1>1. PICK r : r = cache[n]
    OBVIOUS
  <1>2. r \in Instances
    BY <1>1 DEF IndInv, TypeOK
  <1>3. WiredInst(n, r)'
    BY <1>1, <1>2, WiredInstStays DEF IndInv, CacheWired
  <1> QED
    BY <1>1, <1>3 DEF CacheWired

\* A step that changes frames of one thread to what is wired.
LEMMA WireStep ==
  ASSUME IndInv, WireInv, Grows, cache' = cache,
         \A u \in Threads, m \in Nodes :
           frame'[u][m] = frame[u][m] \/ FrameWired(m, frame[u][m])'
  PROVE  WireInv'
  <1>1. FramesWired'
    BY FrameWiredStays DEF WireInv, FramesWired
  <1>2. CacheWired'
    BY CacheWiredStays DEF WireInv
  <1> QED
    BY <1>1, <1>2 DEF WireInv

\* A frame that is not at work or at its store says nothing of the cache.
LEMMA WireTopStep ==
  ASSUME IndInv, WireInv, NEW t \in Threads, NEW n \in Nodes,
         UNCHANGED <<g, cache, built>>,
         NEW f, frame' = [frame EXCEPT ![t][n] = f],
         f.pc \notin {"work", "store"},
         f.pc \in {"lookup", "enter", "recheck"} => f.got = {}
  PROVE  WireInv'
  <1>1. Grows
    BY DEF Grows
  <1>2. \A u \in Threads, m \in Nodes :
          frame'[u][m] = IF u = t /\ m = n THEN f ELSE frame[u][m]
    BY DEF IndInv, TypeOK
  <1>3. FrameWired(n, frame[t][n])'
    BY <1>2 DEF FrameWired
  <1> QED
    BY <1>1, <1>2, <1>3, WireStep

-----------------------------------------------------------------------------
(***************************************************************************)
(* The steps.                                                              *)
(***************************************************************************)
LEMMA WireLookup ==
  ASSUME IndInv, WireInv, NEW t \in Threads, NEW n \in Nodes, Lookup(t, n)
  PROVE  WireInv'
  <1> DEFINE f == IF cache[n] # NoInst
                    THEN [frame[t][n] EXCEPT !.pc = "return", !.out = cache[n]]
                    ELSE [frame[t][n] EXCEPT !.pc = "enter"]
  <1>1. /\ frame[t][n] \in FrameType /\ frame[t][n].got = {}
        /\ frame' = [frame EXCEPT ![t][n] = f] /\ UNCHANGED <<g, cache, built>>
    BY DEF IndInv, TypeOK, Lookup, At, WireInv, FramesWired, FrameWired
  <1>2. f.pc = "return" \/ (f.pc = "enter" /\ f.got = {})
    BY <1>1 DEF FrameType
  <1> HIDE DEF f
  <1> QED
    BY <1>1, <1>2, WireTopStep

LEMMA WireLead ==
  ASSUME IndInv, WireInv, NEW t \in Threads, NEW n \in Nodes, Lead(t, n)
  PROVE  WireInv'
  <1> DEFINE f == [frame[t][n] EXCEPT !.pc = "recheck"]
  <1>1. /\ frame[t][n] \in FrameType /\ frame[t][n].got = {}
        /\ frame' = [frame EXCEPT ![t][n] = f] /\ UNCHANGED <<g, cache, built>>
    BY DEF IndInv, TypeOK, Lead, At, WireInv, FramesWired, FrameWired
  <1>2. f.pc = "recheck" /\ f.got = {}
    BY <1>1 DEF FrameType
  <1> HIDE DEF f
  <1> QED
    BY <1>1, <1>2, WireTopStep

LEMMA WireFollow ==
  ASSUME IndInv, WireInv, NEW t \in Threads, NEW n \in Nodes, Follow(t, n)
  PROVE  WireInv'
  <1> DEFINE f == [frame[t][n] EXCEPT !.pc = "wait"]
  <1>1. /\ frame[t][n] \in FrameType
        /\ frame' = [frame EXCEPT ![t][n] = f] /\ UNCHANGED <<g, cache, built>>
    BY DEF IndInv, TypeOK, Follow
  <1>2. f.pc = "wait"
    BY <1>1 DEF FrameType
  <1> HIDE DEF f
  <1> QED
    BY <1>1, <1>2, WireTopStep

LEMMA WireFail ==
  ASSUME IndInv, WireInv, NEW t \in Threads, NEW n \in Nodes, Fail(t, n)
  PROVE  WireInv'
  <1> DEFINE f == [frame[t][n] EXCEPT !.pc = "leave", !.out = ErrResult]
  <1>1. /\ frame[t][n] \in FrameType
        /\ frame' = [frame EXCEPT ![t][n] = f] /\ UNCHANGED <<g, cache, built>>
    BY DEF IndInv, TypeOK, Fail
  <1>2. f.pc = "leave"
    BY <1>1 DEF FrameType
  <1> HIDE DEF f
  <1> QED
    BY <1>1, <1>2, WireTopStep

\* Work begins with nothing resolved.
LEMMA WireRecheck ==
  ASSUME IndInv, PoolInv, WireInv, NEW t \in Threads, NEW n \in Nodes, Recheck(t, n)
  PROVE  WireInv'
  <1> DEFINE f == IF cache[n] # NoInst
                    THEN [frame[t][n] EXCEPT !.pc = "leave", !.out = cache[n]]
                    ELSE IF n \in Declared
                      THEN [frame[t][n] EXCEPT !.pc = "work"]
                      ELSE [frame[t][n] EXCEPT !.pc = "leave", !.out = ErrResult]
  <1>1. /\ frame[t][n] \in FrameType /\ frame[t][n].got = {} /\ frame[t][n].i = 1
        /\ frame' = [frame EXCEPT ![t][n] = f] /\ UNCHANGED <<g, cache, built>>
    BY DEF IndInv, TypeOK, Recheck, At, WireInv, FramesWired, FrameWired,
           PoolInv, FramesGood, FrameGood
  <1>2. f.pc = "leave" \/ (f.pc = "work" /\ f.got = {} /\ f.i = 1)
    BY <1>1 DEF FrameType
  <1> HIDE DEF f
  <1>3. \A u \in Threads, m \in Nodes :
          frame'[u][m] = IF u = t /\ m = n THEN f ELSE frame[u][m]
    BY <1>1 DEF IndInv, TypeOK
  <1>4. FrameWired(n, frame[t][n])'
    <2>1. PICK d, u : d = Len(g.deps[n]) /\ u = Len(g.uses[n])
      OBVIOUS
    <2>2. d \in Nat /\ u \in Nat
      BY <2>1, GraphLists DEF IndInv
    <2>3. f.pc = "work" => f.i <= d + u + 1 /\ 1 .. f.i - 1 - d = {}
      BY <1>2, <2>2
    <2> QED
      BY <1>1, <1>2, <1>3, <2>1, <2>3 DEF FrameWired, Wired
  <1>5. Grows
    BY <1>1 DEF Grows
  <1> QED
    BY <1>1, <1>3, <1>4, <1>5, WireStep

LEMMA WireEntered ==
  ASSUME IndInv, WireInv, NEW t \in Threads, NEW n \in Nodes,
         UNCHANGED <<g, cache, built>>, frame' = [frame EXCEPT ![t][n] = Entered]
  PROVE  WireInv'
  <1>1. Entered.pc = "lookup" /\ Entered.got = {}
    BY DEF Entered, NoFrame
  <1> QED
    BY <1>1, WireTopStep

LEMMA WireBegin ==
  ASSUME IndInv, WireInv, NEW t \in Threads, Begin(t)
  PROVE  WireInv'
  <1>1. Head(batch[t]) \in Nodes
    BY DEF Begin, IndInv, TypeOK
  <1> QED
    BY <1>1, WireEntered DEF Begin

LEMMA WireDescend ==
  ASSUME IndInv, WireInv, NEW t \in Threads, NEW n \in Nodes, Descend(t, n)
  PROVE  WireInv'
  <1> DEFINE child == Work(n)[frame[t][n].i]
             f == [frame[t][n] EXCEPT !.pc = "leave", !.out = ErrResult]
  <1>1. frame[t][n] \in FrameType /\ UNCHANGED <<g, cache, built>>
    BY DEF Descend, IndInv, TypeOK
  <1>2. child \in Nodes
    BY <1>1, WorkType DEF Descend, IndInv, FrameType
  <1>3. f.pc = "leave"
    BY <1>1 DEF FrameType
  <1>4. CASE child \in ToSet(path[t])
    <2>1. path' = path /\ frame' = [frame EXCEPT ![t][n] = f]
      BY <1>4, DescendRefuses DEF IndInv
    <2> HIDE DEF f, child
    <2> QED
      BY <1>1, <1>3, <2>1, WireTopStep
  <1>5. CASE child \notin ToSet(path[t])
    <2>1. frame' = [frame EXCEPT ![t][child] = Entered]
      BY <1>5 DEF Descend
    <2> HIDE DEF child
    <2> QED
      BY <1>1, <1>2, <2>1, WireEntered
  <1> QED
    BY <1>4, <1>5

LEMMA WireReturnToCaller ==
  ASSUME IndInv, WireInv, NEW t \in Threads, NEW n \in Nodes, ReturnToCaller(t, n)
  PROVE  WireInv'
  <1>1. NoFrame.pc = "none"
    BY DEF NoFrame
  <1> QED
    BY <1>1, WireTopStep DEF ReturnToCaller

LEMMA WireLeave ==
  ASSUME IndInv, WireInv, NEW t \in Threads, NEW n \in Nodes, Leave(t, n)
  PROVE  WireInv'
  <1>1. UNCHANGED <<g, cache, built>>
    BY DEF Leave
  <1>2. ASSUME NEW u \in Threads, NEW m \in Nodes
        PROVE  frame'[u][m] = frame[u][m] \/ frame'[u][m].pc = "return"
    <2>1. frame[u] \in [Nodes -> FrameType] /\ frame[u][n] \in FrameType
      BY DEF IndInv, TypeOK
    <2> DEFINE f == [frame[u][n] EXCEPT !.pc = "return", !.out = frame[t][n].out]
    <2>2. f.pc = "return"
      BY <2>1 DEF FrameType
    <2>3. frame'[u] = IF u = t \/ frame[u][n].pc = "wait"
                        THEN [frame[u] EXCEPT ![n] = f] ELSE frame[u]
      BY DEF Leave, Waits
    <2> HIDE DEF f
    <2> QED
      BY <2>1, <2>2, <2>3
  <1>3. \A u \in Threads, m \in Nodes :
          frame'[u][m].pc = "return" => FrameWired(m, frame[u][m])'
    BY DEF FrameWired
  <1>4. Grows
    BY <1>1 DEF Grows
  <1> QED
    BY <1>1, <1>2, <1>3, <1>4, WireStep

\* The new instance is wired to what Build was handed, which is all it resolves.
LEMMA WireConstruct ==
  ASSUME IndInv, WireInv, NEW t \in Threads, NEW n \in Nodes, Construct(t, n)
  PROVE  WireInv'
  <1> DEFINE e == [node |-> n, uses |-> frame[t][n].got, given |-> FALSE, closed |-> 0]
             f == [frame[t][n] EXCEPT !.pc = "store", !.out = Len(built) + 1]
  <1>1. /\ frame[t][n] \in FrameType /\ built \in Seq(InstanceType) /\ Len(built) \in Nat
        /\ frame[t][n].pc = "work" /\ frame[t][n].i = Len(Work(n)) + 1
        /\ UNCHANGED <<g, cache>>
    BY DEF IndInv, TypeOK, Construct, At
  <1>2. frame' = [frame EXCEPT ![t][n] = f] /\ built' = Append(built, e)
    BY DEF Construct
  <1>3. f.pc = "store" /\ f.out = Len(built) + 1 /\ e.uses = frame[t][n].got
    BY <1>1 DEF FrameType
  <1>4. Wired(n, Len(g.uses[n]), frame[t][n].got)
    <2>1. PICK d, u : d = Len(g.deps[n]) /\ u = Len(g.uses[n])
      OBVIOUS
    <2>2. d \in Nat /\ u \in Nat /\ frame[t][n].i = d + u + 1
      BY <1>1, <2>1, GraphLists DEF IndInv
    <2>3. frame[t][n].i - 1 - d = u
      BY <2>2
    <2>4. Wired(n, frame[t][n].i - 1 - d, frame[t][n].got)
      BY <1>1, <2>1 DEF WireInv, FramesWired, FrameWired
    <2> QED
      BY <2>1, <2>3, <2>4
  <1> HIDE DEF e, f
  <1>5. \A u \in Threads, m \in Nodes :
          frame'[u][m] = IF u = t /\ m = n THEN f ELSE frame[u][m]
    BY <1>2 DEF IndInv, TypeOK
  <1>6. built'[Len(built) + 1] = e /\ \A i \in Instances : built'[i] = built[i]
    BY <1>1, <1>2 DEF Instances
  <1>7. Grows
    BY <1>1, <1>6 DEF Grows
  <1>8. FrameWired(n, frame[t][n])'
    <2>1. PICK r : r = Len(built) + 1
      OBVIOUS
    <2>2. frame'[t][n].pc = "store" /\ frame'[t][n].out = r
      BY <1>3, <1>5, <2>1
    <2>3. built'[r].uses = frame[t][n].got
      BY <1>3, <1>6, <2>1
    <2>4. WiredInst(n, r)'
      BY <1>1, <1>4, <2>3 DEF WiredInst, Wired
    <2> QED
      BY <2>2, <2>4 DEF FrameWired
  <1> QED
    BY <1>1, <1>5, <1>7, <1>8, WireStep

\* What is stored was wired when it was built, and its declared dependencies
\* are cached.
LEMMA WireStore ==
  ASSUME IndInv, OnceInv, PoolInv, WireInv, NEW t \in Threads, NEW n \in Nodes, Store(t, n)
  PROVE  WireInv'
  <1> DEFINE f == [frame[t][n] EXCEPT !.pc = "leave"]
  <1>1. PICK r : r = frame[t][n].out
    OBVIOUS
  <1>2. /\ frame[t][n] \in FrameType /\ frame[t][n].pc = "store" /\ UNCHANGED <<g, built>>
        /\ cache \in [Nodes -> Instances \union {NoInst}]
        /\ cache' = [cache EXCEPT ![n] = r] /\ frame' = [frame EXCEPT ![t][n] = f]
    BY <1>1 DEF IndInv, TypeOK, Store, At
  <1>3. f.pc = "leave"
    BY <1>2 DEF FrameType
  <1>4. cache[n] = NoInst /\ r \in Instances
    BY <1>1, <1>2 DEF OnceInv, MissOK, IndInv, HandOK
  <1>5. \A m \in Nodes : cache'[m] = IF m = n THEN r ELSE cache[m]
    BY <1>2
  <1>6. Grows
    BY <1>2, <1>4, <1>5 DEF Grows
  <1>7. WiredInst(n, r)'
    BY <1>1, <1>2, <1>4, <1>6, WiredInstStays
    DEF IndInv, WireInv, FramesWired, FrameWired
  <1> HIDE DEF f
  <1>8. FramesWired'
    <2>1. \A u \in Threads, m \in Nodes :
            frame'[u][m] = IF u = t /\ m = n THEN f ELSE frame[u][m]
      BY <1>2 DEF IndInv, TypeOK
    <2>2. FrameWired(n, frame[t][n])'
      BY <1>3, <2>1 DEF FrameWired
    <2> QED
      BY <1>6, <2>1, <2>2, FrameWiredStays DEF WireInv, FramesWired
  <1>9. CacheWired'
    <2> SUFFICES ASSUME NEW m \in Nodes, cache'[m] # NoInst
                 PROVE  /\ \A j \in 1 .. Len(g.deps[m]) : cache'[g.deps[m][j]] # NoInst
                        /\ WiredInst(m, cache[m])'
      BY <1>2 DEF CacheWired
    <2>1. \A j \in 1 .. Len(g.deps[m]) : cache[g.deps[m][j]] # NoInst
      <3>1. CASE m = n
        BY <1>2, <3>1 DEF PoolInv, FramesGood, FrameGood
      <3>2. CASE m # n
        BY <1>5, <3>2 DEF WireInv, CacheWired
      <3> QED
        BY <3>1, <3>2
    <2>2. \A j \in 1 .. Len(g.deps[m]) : cache'[g.deps[m][j]] # NoInst
      BY <1>6, <2>1, GraphLists DEF Grows, IndInv
    <2>3. WiredInst(m, cache[m])'
      <3>1. CASE m = n
        BY <1>5, <1>7, <3>1
      <3>2. CASE m # n
        <4>1. PICK q : q = cache[m]
          OBVIOUS
        <4>2. cache'[m] = q /\ q \in Instances
          BY <1>2, <1>5, <3>2, <4>1
        <4>3. WiredInst(m, q)'
          BY <1>5, <1>6, <3>2, <4>1, <4>2, WiredInstStays DEF IndInv, WireInv, CacheWired
        <4> QED
          BY <4>2, <4>3
      <3> QED
        BY <3>1, <3>2
    <2> QED
      BY <2>2, <2>3
  <1> QED
    BY <1>8, <1>9 DEF WireInv

\* One more resolve of Build: it is handed the cached instance.
LEMMA WiredOneMore ==
  ASSUME TypeOK, NEW n \in Nodes, NEW k \in Nat, NEW S, Wired(n, k, S),
         NEW m, m = g.uses[n][k + 1], cache[m] # NoInst
  PROVE  Wired(n, k + 1, S \union {cache[m]})
  <1>1. 1 .. k + 1 = 1 .. k \union {k + 1}
    OBVIOUS
  <1> QED
    BY <1>1 DEF Wired

LEMMA WireReturnToParent ==
  ASSUME IndInv, OnceInv, PoolInv, WireInv, NEW t \in Threads, NEW n \in Nodes,
         ReturnToParent(t, n)
  PROVE  WireInv'
  <1> DEFINE s == path[t]
             p == s[Len(s) - 1]
             r == frame[t][n].out
             i == frame[t][p].i
             got == IF i > Len(g.deps[p]) THEN frame[t][p].got \union {r}
                                          ELSE frame[t][p].got
             resumed == [frame[t][p] EXCEPT !.i = @ + 1, !.got = got]
             ended == [frame[t][p] EXCEPT !.pc = "leave", !.out = ErrResult]
             f == IF IsInst(r) THEN resumed ELSE ended
  <1>1. /\ At(t, n, "return") /\ UNCHANGED <<g, cache, built>>
        /\ frame' = [frame EXCEPT ![t][n] = NoFrame, ![t][p] = f]
    BY DEF ReturnToParent
  <1>2. /\ s \in Seq(Nodes) /\ Len(s) \in Nat /\ Len(s) > 1 /\ n = s[Len(s)]
        /\ DOMAIN s = Positions(s)
        /\ \A a, b \in Positions(s) : s[a] = s[b] => a = b
    BY <1>1, TopOfPath DEF ReturnToParent, IndInv, TypeOK, PathOK, Positions
  <1>3. Len(s) - 1 \in Positions(s) /\ Len(s) \in Positions(s)
    BY <1>2 DEF Positions
  <1>4. p \in Nodes /\ p # n /\ frame[t][p].pc = "work" /\ frame[t][p] \in FrameType
    <2>1. p \in Nodes /\ p # n
      BY <1>2, <1>3
    <2>2. frame[t][p].pc = "work"
      BY <1>2, <1>3 DEF IndInv, PathOK
    <2> QED
      BY <2>1, <2>2 DEF IndInv, TypeOK
  <1>5. i \in Nat \ {0} /\ i <= Len(Work(p)) /\ Work(p)[i] = n
    <2>1. Len(s) - 1 \in 1 .. Len(s) - 1 /\ (Len(s) - 1) + 1 = Len(s)
      BY <1>2
    <2>2. \A k \in 1 .. Len(s) - 1 :
            /\ frame[t][s[k]].i <= Len(Work(s[k]))
            /\ Work(s[k])[frame[t][s[k]].i] = s[k + 1]
      BY DEF PoolInv, StacksGood, StackGood
    <2>3. /\ frame[t][s[Len(s) - 1]].i <= Len(Work(s[Len(s) - 1]))
          /\ Work(s[Len(s) - 1])[frame[t][s[Len(s) - 1]].i] = s[(Len(s) - 1) + 1]
      BY <2>1, <2>2
    <2>4. i <= Len(Work(p)) /\ Work(p)[i] = n
      BY <1>2, <2>1, <2>3
    <2>5. i \in Nat \ {0}
      BY <1>4 DEF FrameType
    <2> QED
      BY <2>4, <2>5
  <1>6. IsInst(r) => cache[n] = r /\ r # NoInst
    BY <1>1 DEF At, OnceInv, CarriedOK, IsInst, NoInst
  <1>7. Grows
    BY <1>1 DEF Grows
  <1>8. PICK q, x, w, d, u : /\ q = p /\ x = i /\ w = got
                             /\ d = Len(g.deps[q]) /\ u = Len(g.uses[q])
    OBVIOUS
  <1>9. /\ q \in Nodes /\ q # n /\ frame[t][q] \in FrameType
        /\ frame[t][q].pc = "work" /\ frame[t][q].i = x
    BY <1>4, <1>8
  <1>10. /\ d \in Nat /\ u \in Nat /\ x \in Nat \ {0} /\ x <= d + u /\ Work(q)[x] = n
         /\ w = IF x > d THEN frame[t][q].got \union {r} ELSE frame[t][q].got
    <2> HIDE DEF p, i
    <2> QED
      BY <1>5, <1>8, <1>9, GraphLists DEF IndInv
  <1>11. f = IF IsInst(r) THEN [frame[t][q] EXCEPT !.i = @ + 1, !.got = w]
                          ELSE [frame[t][q] EXCEPT !.pc = "leave", !.out = ErrResult]
    <2> HIDE DEF p, got
    <2> QED
      BY <1>8
  <1>12. \A v \in Threads, m \in Nodes :
           frame'[v][m] = IF v = t /\ m = q THEN f
                          ELSE IF v = t /\ m = n THEN NoFrame ELSE frame[v][m]
    <2> HIDE DEF p, s, f
    <2> QED
      BY <1>1, <1>8, <1>9 DEF IndInv, TypeOK
  <1> HIDE DEF p, i, got, s
  <1>13. Wired(q, x - 1 - d, frame[t][q].got)
    BY <1>8, <1>9 DEF WireInv, FramesWired, FrameWired
  <1>14. x > d => g.uses[q][x - d] = n
    <2>1. PICK e, v : e = g.deps[q] /\ v = g.uses[q]
      OBVIOUS
    <2>2. e \in Seq(Nodes) /\ v \in Seq(Nodes) /\ Len(e) = d /\ Len(v) = u
          /\ Work(q) = e \o v
      BY <1>8, <1>9, <2>1, GraphLists DEF IndInv, Work
    <2>3. (e \o v)[x] = IF x <= Len(e) THEN e[x] ELSE v[x - Len(e)]
      BY <1>10, <2>2
    <2>4. x > d => v[x - d] = n
      BY <1>10, <2>2, <2>3
    <2> QED
      BY <2>1, <2>4
  <1>15. IsInst(r) => Wired(q, x - d, w)
    <2> SUFFICES ASSUME IsInst(r) PROVE Wired(q, x - d, w)
      OBVIOUS
    <2>1. CASE x > d
      <3>1. PICK k : k = x - 1 - d
        OBVIOUS
      <3>2. k \in Nat /\ k + 1 = x - d
        BY <1>10, <2>1, <3>1
      <3>3. Wired(q, k, frame[t][q].got) /\ g.uses[q][k + 1] = n /\ cache[n] # NoInst
        BY <1>6, <1>13, <1>14, <2>1, <3>1, <3>2
      <3>4. Wired(q, k + 1, frame[t][q].got \union {cache[n]})
        BY <1>9, <3>2, <3>3, WiredOneMore DEF IndInv
      <3>5. w = frame[t][q].got \union {cache[n]}
        BY <1>6, <1>10, <2>1
      <3> QED
        BY <3>2, <3>4, <3>5
    <2>2. CASE ~(x > d)
      <3>1. 1 .. x - d = {} /\ 1 .. x - 1 - d = {}
        BY <1>10, <2>2
      <3>2. w = frame[t][q].got
        BY <1>10, <2>2
      <3> QED
        BY <1>13, <3>1, <3>2 DEF Wired
    <2> QED
      BY <2>1, <2>2
  <1>16. FrameWired(n, frame[t][n])'
    <2>1. frame'[t][n] = NoFrame
      BY <1>9, <1>12
    <2> QED
      BY <2>1 DEF FrameWired, NoFrame
  <1>17. FrameWired(q, frame[t][q])'
    <2>1. frame'[t][q] = f
      BY <1>9, <1>12
    <2>2. CASE IsInst(r)
      <3>1. frame'[t][q].pc = "work" /\ frame'[t][q].i = x + 1 /\ frame'[t][q].got = w
        BY <1>9, <1>11, <2>1, <2>2 DEF FrameType
      <3>2. x + 1 <= d + u + 1 /\ (x + 1) - 1 - d = x - d /\ x - d \in Int /\ x - d <= u
        BY <1>10
      <3>3. Wired(q, x - d, w)'
        BY <1>7, <1>8, <1>9, <1>15, <2>2, <3>2, WiredStays DEF IndInv
      <3>4. Len(g'.deps[q]) = d /\ Len(g'.uses[q]) = u
        BY <1>1, <1>8
      <3> QED
        BY <3>1, <3>2, <3>3, <3>4 DEF FrameWired
    <2>3. CASE ~IsInst(r)
      <3>1. frame'[t][q].pc = "leave"
        BY <1>9, <1>11, <2>1, <2>3 DEF FrameType
      <3> QED
        BY <3>1 DEF FrameWired
    <2> QED
      BY <2>2, <2>3
  <1> HIDE DEF f, r
  <1>18. ASSUME NEW v \in Threads, NEW m \in Nodes
         PROVE  frame'[v][m] = frame[v][m] \/ FrameWired(m, frame[v][m])'
    BY <1>12, <1>16, <1>17
  <1>19. cache' = cache
    BY <1>1
  <1> QED
    BY <1>7, <1>18, <1>19, WireStep

LEMMA WireInvStep ==
  ASSUME Closers = {}, Injectors = {}, IndInv, OnceInv, PoolInv, WireInv, [Next]_vars
  PROVE  WireInv'
  <1>1. ASSUME UNCHANGED <<g, cache, built, frame>> PROVE WireInv'
    BY <1>1, WireStep DEF Grows
  <1>2. ASSUME NEW t \in Threads, NEW n \in Nodes, ResolveStep(t, n) PROVE WireInv'
    BY <1>2, WireLookup, WireLead, WireFollow, WireRecheck, WireDescend, WireConstruct,
       WireFail, WireStore, WireLeave, WireReturnToParent, WireReturnToCaller
    DEF ResolveStep
  <1>3. ASSUME NEW t \in Threads, NEW ids, CallResolve(t, ids) PROVE WireInv'
    BY <1>1, <1>3 DEF CallResolve
  <1>4. ASSUME NEW t \in Threads, Inside(t) \/ Calls(t) PROVE WireInv'
    BY <1>2, <1>3, <1>4, NobodyCloses, WireBegin DEF Inside, Calls
  <1> QED
    BY <1>1, <1>4 DEF Next, Finished, vars

LEMMA InitWireInv == Init => WireInv
  <1> SUFFICES ASSUME Init PROVE WireInv
    OBVIOUS
  <1>1. FramesWired
    BY DEF Init, FramesWired, FrameWired, NoFrame
  <1>2. CacheWired
    BY DEF Init, CacheWired
  <1> QED
    BY <1>1, <1>2 DEF WireInv

\* A cached resource has its declared dependencies cached and is wired to the
\* instances that everybody resolves (container.go:103-117), whatever fails
\* and whoever waits for whom.
THEOREM WiredToTheCache ==
  ASSUME Closers = {}, Injectors = {}
  PROVE  Spec => []WiredToCache
  <1>1. ASSUME TypeOK, CacheWired PROVE WiredToCache
    <2> SUFFICES ASSUME NEW n \in Nodes, cache[n] # NoInst
                 PROVE  /\ \A d \in ToSet(g.deps[n]) : cache[d] # NoInst
                        /\ built[cache[n]].uses = {cache[d] : d \in ToSet(g.uses[n])}
      BY DEF WiredToCache
    <2>1. /\ ToSet(g.deps[n]) = {g.deps[n][j] : j \in 1 .. Len(g.deps[n])}
          /\ ToSet(g.uses[n]) = {g.uses[n][j] : j \in 1 .. Len(g.uses[n])}
      <3>1. g.deps[n] \in Seq(Nodes) /\ g.uses[n] \in Seq(Nodes)
        BY <1>1, GraphLists
      <3>2. DOMAIN g.deps[n] = 1 .. Len(g.deps[n]) /\ DOMAIN g.uses[n] = 1 .. Len(g.uses[n])
        BY <3>1
      <3> QED
        BY <3>2 DEF ToSet
    <2>2. /\ \A j \in 1 .. Len(g.deps[n]) : cache[g.deps[n][j]] # NoInst
          /\ built[cache[n]].uses = {cache[g.uses[n][j]] : j \in 1 .. Len(g.uses[n])}
      BY <1>1 DEF CacheWired, WiredInst, Wired
    <2> QED
      BY <2>1, <2>2
  <1>2. Init => Inv /\ WireInv
    BY InitIndInv, InitOnceInv, InitPoolInv, InitWireInv DEF Inv
  <1>3. Inv /\ WireInv /\ [Next]_vars => (Inv /\ WireInv)'
    BY IndInvStep, OnceStep, PoolInvStep, WireInvStep DEF Inv
  <1>4. Inv /\ WireInv => WiredToCache
    BY <1>1 DEF Inv, IndInv, WireInv
  <1> QED
    BY <1>2, <1>3, <1>4, PTL DEF Spec

=============================================================================
