----------------------------- MODULE Container -----------------------------
(***************************************************************************)
(* The runtime half of container.go: a compiled Container whose goroutines *)
(* resolve, inject and close resource instances concurrently.              *)
(*                                                                         *)
(* A resolve is a stack of frames, one per nested Resolve call.  A frame   *)
(* moves through the places where another goroutine can run:               *)
(*                                                                         *)
(*   lookup -> enter -> recheck -> work -> store -> leave -> return        *)
(*                  \-> wait ---------------------------------^            *)
(*                                                                         *)
(* lookup   the cache read under RLock                (container.go:83-85) *)
(* enter    singleflight.Do, at its mutex             (container.go:90)    *)
(* wait     a follower of somebody else's flight      (container.go:90)    *)
(* recheck  the leader's second cache read            (container.go:91-101)*)
(* work     dependencies, then Build's own resolves   (container.go:103-12)*)
(* store    the write under Lock                      (container.go:114-17)*)
(* leave    the closure has returned to singleflight  (container.go:118)   *)
(* return   Resolve is about to return                (container.go:119-22)*)
(*                                                                         *)
(* A definition whose comment begins with "Faulty:" is not part of the     *)
(* specification: it is the definition after it with a bug, and shows that *)
(* the properties tell the two apart.                                      *)
(***************************************************************************)
EXTENDS Integers, FiniteSets, SequencesExt

CONSTANTS
  Nodes,       \* resource IDs; those in no topological order are undeclared
  Threads,     \* goroutines that hold the container
  None,        \* the leader of a node nobody is resolving
  Resolvers,   \* the threads that call Resolve and ResolveIDs
  Closers,     \* the threads that call Close and CloseIDs
  Injectors,   \* the threads that call InjectResolved
  Graphs,      \* the compiled graphs a behaviour may start with
  Batches,     \* the lists a caller hands to ResolveIDs
  CloseSets,   \* the sets a caller hands to CloseIDs
  MayClose,    \* whether callers use Close as well as CloseIDs
  CanFail,     \* nodes whose Build may return an error
  CloseFails,  \* nodes whose close hook may return an error
  MaxCalls     \* bound: for each thread, the calls it makes

ASSUME RolesAssumption ==
  /\ Resolvers \subseteq Threads
  /\ Closers \subseteq Threads
  /\ Injectors \subseteq Threads
  /\ None \notin Threads

ASSUME InputsAssumption ==
  /\ Batches \subseteq Seq(Nodes)
  /\ CloseSets \subseteq SUBSET Nodes
  /\ MayClose \in BOOLEAN
  /\ CanFail \subseteq Nodes
  /\ CloseFails \subseteq Nodes
  /\ MaxCalls \in [Threads -> Nat]

\* uses[n] is what the Build hook of n resolves through its context, in order.
GraphType == [deps : [Nodes -> Seq(Nodes)],
              uses : [Nodes -> Seq(Nodes)],
              topo : Seq(Nodes)]

ASSUME GraphsAssumption == Graphs \subseteq GraphType

VARIABLES
  g,         \* the compiled graph: c.nodes and c.topo, never written again
  cache,     \* c.instances
  flight,    \* c.sf: the thread whose closure runs for a node, or None
  path,      \* per thread, the nodes on its resolve stack, outermost first
  frame,     \* per thread and node, the state of that Resolve call
  built,     \* every instance there has been; an instance is its index here
  batch,     \* per thread, what is left of the list given to ResolveIDs
  ret,       \* per thread, the result of its last call
  calls,     \* per thread, the number of calls it has made
  closing    \* per thread, the local variables of closeWithKeys

vars == <<g, cache, flight, path, frame, built, batch, ret, calls, closing>>

-----------------------------------------------------------------------------
(***************************************************************************)
(* Values.                                                                 *)
(***************************************************************************)
NoInst == 0
ErrResult == -1

IsInst(r) == r > 0

Instances == 1 .. Len(built)

Open(i) == built[i].closed = 0

\* A result of Resolve: an instance, an error, or nothing yet.
Results == {ErrResult, NoInst} \union Instances

Declared == ToSet(g.topo)

\* Faulty: the closure calls Build without resolving the declared dependencies.
WorkOfBuildOnly(n) == g.uses[n]

\* What a leader resolves for n: first the declared dependencies
\* (container.go:103), then whatever Build asks for (container.go:109).
Work(n) == g.deps[n] \o g.uses[n]

NoFrame == [pc |-> "none", i |-> 1, got |-> {}, out |-> NoInst]

Entered == [NoFrame EXCEPT !.pc = "lookup"]

LeaderPCs == {"recheck", "work", "store", "leave"}
FramePCs == {"none", "lookup", "enter", "wait", "return"} \union LeaderPCs

Leads(t, n) == frame[t][n].pc \in LeaderPCs

Waits(t, n) == frame[t][n].pc = "wait"

NoClose == [active |-> FALSE, scope |-> {}, keys |-> {}, errs |-> {},
            todo |-> [n \in Nodes |-> NoInst], done |-> {}]

Idle(t) == batch[t] = <<>> /\ path[t] = <<>> /\ ~closing[t].active

\* Thread t is inside Resolve(n), at place p, with nothing called from it.
At(t, n, p) == /\ path[t] # <<>>
               /\ n = Last(path[t])
               /\ frame[t][n].pc = p

-----------------------------------------------------------------------------
Init ==
  /\ g \in Graphs
  /\ cache = [n \in Nodes |-> NoInst]
  /\ flight = [n \in Nodes |-> None]
  /\ path = [t \in Threads |-> <<>>]
  /\ frame = [t \in Threads |-> [n \in Nodes |-> NoFrame]]
  /\ built = <<>>
  /\ batch = [t \in Threads |-> <<>>]
  /\ ret = [t \in Threads |-> NoInst]
  /\ calls = [t \in Threads |-> 0]
  /\ closing = [t \in Threads |-> NoClose]

-----------------------------------------------------------------------------
(***************************************************************************)
(* Resolve and ResolveIDs.  Resolve(ctx, id) is ResolveIDs(ctx, {id}) that *)
(* keeps the value.                                                        *)
(***************************************************************************)
CallResolve(t, ids) ==
  /\ t \in Resolvers /\ Idle(t) /\ calls[t] < MaxCalls[t]
  /\ batch' = [batch EXCEPT ![t] = ids]
  /\ calls' = [calls EXCEPT ![t] = @ + 1]
  /\ UNCHANGED <<g, cache, flight, path, frame, built, ret, closing>>

\* The caller's context carries no stack, so the push cannot find a cycle.
Begin(t) ==
  /\ batch[t] # <<>> /\ path[t] = <<>>
  /\ path' = [path EXCEPT ![t] = <<Head(batch[t])>>]
  /\ frame' = [frame EXCEPT ![t][Head(batch[t])] = Entered]
  /\ UNCHANGED <<g, cache, flight, built, batch, ret, calls, closing>>

Lookup(t, n) ==
  /\ At(t, n, "lookup")
  /\ frame' = [frame EXCEPT ![t][n] =
                 IF cache[n] # NoInst
                   THEN [@ EXCEPT !.pc = "return", !.out = cache[n]]
                   ELSE [@ EXCEPT !.pc = "enter"]]
  /\ UNCHANGED <<g, cache, flight, path, built, batch, ret, calls, closing>>

\* singleflight: the first caller leads, later ones wait for its result.
Lead(t, n) ==
  /\ At(t, n, "enter") /\ flight[n] = None
  /\ flight' = [flight EXCEPT ![n] = t]
  /\ frame' = [frame EXCEPT ![t][n].pc = "recheck"]
  /\ UNCHANGED <<g, cache, path, built, batch, ret, calls, closing>>

Follow(t, n) ==
  /\ At(t, n, "enter") /\ flight[n] # None
  /\ frame' = [frame EXCEPT ![t][n].pc = "wait"]
  /\ UNCHANGED <<g, cache, flight, path, built, batch, ret, calls, closing>>

\* Faulty: the closure does not read the cache again.
RecheckNothing(t, n) ==
  /\ At(t, n, "recheck")
  /\ frame' = [frame EXCEPT ![t][n] =
                 IF n \in Declared
                   THEN [@ EXCEPT !.pc = "work"]
                   ELSE [@ EXCEPT !.pc = "leave", !.out = ErrResult]]
  /\ UNCHANGED <<g, cache, flight, path, built, batch, ret, calls, closing>>

Recheck(t, n) ==
  /\ At(t, n, "recheck")
  /\ frame' = [frame EXCEPT ![t][n] =
                 IF cache[n] # NoInst
                   THEN [@ EXCEPT !.pc = "leave", !.out = cache[n]]
                   ELSE IF n \in Declared
                     THEN [@ EXCEPT !.pc = "work"]
                     ELSE [@ EXCEPT !.pc = "leave", !.out = ErrResult]]
  /\ UNCHANGED <<g, cache, flight, path, built, batch, ret, calls, closing>>

\* Faulty: the stack is pushed without looking for the node on it.
DescendUnchecked(t, n) ==
  LET f == frame[t][n]
      child == Work(n)[f.i]
  IN /\ At(t, n, "work") /\ f.i <= Len(Work(n))
     /\ frame' = [frame EXCEPT ![t][child] = Entered]
     /\ path' = [path EXCEPT ![t] = Append(@, child)]
     /\ UNCHANGED <<g, cache, flight, built, batch, ret, calls, closing>>

\* Faulty: a node that anybody is building counts as a cycle.
DescendIfIdle(t, n) ==
  LET f == frame[t][n]
      child == Work(n)[f.i]
  IN /\ At(t, n, "work") /\ f.i <= Len(Work(n))
     /\ \/ /\ flight[child] # None
           /\ frame' = [frame EXCEPT ![t][n].pc = "leave", ![t][n].out = ErrResult]
           /\ path' = path
        \/ /\ flight[child] = None
           /\ frame' = [frame EXCEPT ![t][child] = Entered]
           /\ path' = [path EXCEPT ![t] = Append(@, child)]
     /\ UNCHANGED <<g, cache, flight, built, batch, ret, calls, closing>>

\* The next nested Resolve of n's closure.  pushResolveStack refuses a node
\* that is already on the stack: CycleDetectedError (container.go:421-434).
Descend(t, n) ==
  LET f == frame[t][n]
      child == Work(n)[f.i]
  IN /\ At(t, n, "work") /\ f.i <= Len(Work(n))
     /\ \/ /\ child \in ToSet(path[t])
           /\ frame' = [frame EXCEPT ![t][n].pc = "leave", ![t][n].out = ErrResult]
           /\ path' = path
        \/ /\ child \notin ToSet(path[t])
           /\ frame' = [frame EXCEPT ![t][child] = Entered]
           /\ path' = [path EXCEPT ![t] = Append(@, child)]
     /\ UNCHANGED <<g, cache, flight, built, batch, ret, calls, closing>>

\* Build has everything it asked for and returns a new instance that keeps
\* the ones it was handed.
Construct(t, n) ==
  LET f == frame[t][n]
  IN /\ At(t, n, "work") /\ f.i = Len(Work(n)) + 1
     /\ built' = Append(built, [node |-> n, uses |-> f.got,
                                given |-> FALSE, closed |-> 0])
     /\ frame' = [frame EXCEPT ![t][n].pc = "store", ![t][n].out = Len(built) + 1]
     /\ UNCHANGED <<g, cache, flight, path, batch, ret, calls, closing>>

\* Build returns an error of its own, after any number of its resolves.
Fail(t, n) ==
  /\ At(t, n, "work") /\ n \in CanFail
  /\ frame[t][n].i > Len(g.deps[n])
  /\ frame' = [frame EXCEPT ![t][n].pc = "leave", ![t][n].out = ErrResult]
  /\ UNCHANGED <<g, cache, flight, path, built, batch, ret, calls, closing>>

\* Faulty: the closure returns the instance without storing it.
StoreNothing(t, n) ==
  /\ At(t, n, "store")
  /\ frame' = [frame EXCEPT ![t][n].pc = "leave"]
  /\ UNCHANGED <<g, cache, flight, path, built, batch, ret, calls, closing>>

\* Faulty: the closure calls Forget on its own flight once it has stored.
StoreAndForget(t, n) ==
  /\ At(t, n, "store")
  /\ cache' = [cache EXCEPT ![n] = frame[t][n].out]
  /\ frame' = [frame EXCEPT ![t][n].pc = "leave"]
  /\ flight' = [flight EXCEPT ![n] = None]
  /\ UNCHANGED <<g, path, built, batch, ret, calls, closing>>

Store(t, n) ==
  /\ At(t, n, "store")
  /\ cache' = [cache EXCEPT ![n] = frame[t][n].out]
  /\ frame' = [frame EXCEPT ![t][n].pc = "leave"]
  /\ UNCHANGED <<g, flight, path, built, batch, ret, calls, closing>>

\* singleflight's exit, under its mutex: the flight is forgotten and every
\* follower has the leader's result, its error included.
Leave(t, n) ==
  /\ At(t, n, "leave")
  /\ flight' = [flight EXCEPT ![n] = None]
  /\ frame' = [u \in Threads |->
                 IF u = t \/ Waits(u, n)
                   THEN [frame[u] EXCEPT ![n].pc = "return",
                                         ![n].out = frame[t][n].out]
                   ELSE frame[u]]
  /\ UNCHANGED <<g, cache, path, built, batch, ret, calls, closing>>

\* Faulty: the closure goes on with whatever its nested Resolve returned.
ReturnUnchecked(t, n) ==
  LET p == path[t][Len(path[t]) - 1]
      f == frame[t][p]
  IN /\ At(t, n, "return") /\ Len(path[t]) > 1
     /\ path' = [path EXCEPT ![t] = Front(@)]
     /\ frame' = [frame EXCEPT
          ![t][n] = NoFrame,
          ![t][p].i = @ + 1,
          ![t][p].got = IF f.i > Len(g.deps[p]) THEN @ \union {frame[t][n].out} ELSE @]
     /\ UNCHANGED <<g, cache, flight, built, batch, ret, calls, closing>>

\* A nested call returns into the closure that made it.  Build keeps what it
\* resolved itself; an error ends the closure.
ReturnToParent(t, n) ==
  LET r == frame[t][n].out
      p == path[t][Len(path[t]) - 1]
      f == frame[t][p]
      resumed == [f EXCEPT !.i = @ + 1,
                           !.got = IF f.i > Len(g.deps[p]) THEN @ \union {r} ELSE @]
  IN /\ At(t, n, "return") /\ Len(path[t]) > 1
     /\ path' = [path EXCEPT ![t] = Front(@)]
     /\ frame' = [frame EXCEPT
                    ![t][n] = NoFrame,
                    ![t][p] = IF IsInst(r) THEN resumed
                              ELSE [f EXCEPT !.pc = "leave", !.out = ErrResult]]
     /\ UNCHANGED <<g, cache, flight, built, batch, ret, calls, closing>>

\* The outermost call returns; ResolveIDs goes on to its next ID unless it
\* got an error (container.go:126-133).
ReturnToCaller(t, n) ==
  LET r == frame[t][n].out
  IN /\ At(t, n, "return") /\ Len(path[t]) = 1
     /\ path' = [path EXCEPT ![t] = <<>>]
     /\ frame' = [frame EXCEPT ![t][n] = NoFrame]
     /\ ret' = [ret EXCEPT ![t] = r]
     /\ batch' = [batch EXCEPT ![t] = IF IsInst(r) THEN Tail(@) ELSE <<>>]
     /\ UNCHANGED <<g, cache, flight, built, calls, closing>>

-----------------------------------------------------------------------------
(***************************************************************************)
(* InjectResolved: an instance made elsewhere replaces what the cache has. *)
(***************************************************************************)
Inject(t, n) ==
  /\ t \in Injectors /\ Idle(t) /\ calls[t] < MaxCalls[t]
  /\ calls' = [calls EXCEPT ![t] = @ + 1]
  /\ \/ /\ n \in Declared
        /\ built' = Append(built, [node |-> n, uses |-> {},
                                   given |-> TRUE, closed |-> 0])
        /\ cache' = [cache EXCEPT ![n] = Len(built) + 1]
        /\ ret' = [ret EXCEPT ![t] = NoInst]
     \/ /\ n \notin Declared
        /\ ret' = [ret EXCEPT ![t] = ErrResult]
        /\ UNCHANGED <<built, cache>>
  /\ UNCHANGED <<g, flight, path, frame, batch, closing>>

-----------------------------------------------------------------------------
(***************************************************************************)
(* closeWithKeys: a snapshot under RLock, the close hooks outside any lock *)
(* from the end of the topological order, the cache update under Lock.     *)
(***************************************************************************)
TopoPos(n) == CHOOSE k \in DOMAIN g.topo : g.topo[k] = n

Pending(t) == {n \in Declared : closing[t].todo[n] # NoInst} \ closing[t].done

Selected(keys, n) == keys # {} => n \in keys

CloseWithKeys(t, scope, keys) ==
  closing' = [closing EXCEPT ![t] =
    [active |-> TRUE, scope |-> scope, keys |-> keys, errs |-> {}, done |-> {},
     todo |-> [n \in Nodes |-> IF n \in scope /\ Selected(keys, n)
                                 THEN cache[n] ELSE NoInst]]]

Close(t) ==
  /\ t \in Closers /\ MayClose /\ Idle(t) /\ calls[t] < MaxCalls[t]
  /\ CloseWithKeys(t, Nodes, {})
  /\ calls' = [calls EXCEPT ![t] = @ + 1]
  /\ UNCHANGED <<g, cache, flight, path, frame, built, batch, ret>>

\* Faulty: the selected keys are deleted before their instances are closed.
CloseIDsForgetFirst(t, ids) ==
  /\ t \in Closers /\ Idle(t) /\ calls[t] < MaxCalls[t]
  /\ CloseWithKeys(t, Nodes, ids)
  /\ cache' = [n \in Nodes |-> IF n \in ids THEN NoInst ELSE cache[n]]
  /\ calls' = [calls EXCEPT ![t] = @ + 1]
  /\ UNCHANGED <<g, flight, path, frame, built, batch, ret>>

CloseIDs(t, ids) ==
  /\ t \in Closers /\ Idle(t) /\ calls[t] < MaxCalls[t]
  /\ \/ ids = {} /\ ret' = [ret EXCEPT ![t] = NoInst] /\ closing' = closing
     \/ ids # {} /\ CloseWithKeys(t, Nodes, ids) /\ ret' = ret
  /\ calls' = [calls EXCEPT ![t] = @ + 1]
  /\ UNCHANGED <<g, cache, flight, path, frame, built, batch>>

\* Faulty: the loop runs from the start of the topological order.
CloseOneForward(t, n) ==
  /\ closing[t].active
  /\ n \in Pending(t)
  /\ \A m \in Pending(t) : TopoPos(n) <= TopoPos(m)
  /\ built' = [built EXCEPT ![closing[t].todo[n]].closed = @ + 1]
  /\ closing' = [closing EXCEPT ![t].done = @ \union {n}]
  /\ UNCHANGED <<g, cache, flight, path, frame, batch, ret, calls>>

\* Faulty: the loop ranges over the snapshot's map, in no order.
CloseOneUnordered(t, n) ==
  /\ closing[t].active
  /\ n \in Pending(t)
  /\ built' = [built EXCEPT ![closing[t].todo[n]].closed = @ + 1]
  /\ closing' = [closing EXCEPT ![t].done = @ \union {n}]
  /\ UNCHANGED <<g, cache, flight, path, frame, batch, ret, calls>>

\* Faulty: the loop ends at the first close hook that fails.
CloseOneOrGiveUp(t, n) ==
  /\ closing[t].active
  /\ n \in Pending(t)
  /\ \A m \in Pending(t) : TopoPos(m) <= TopoPos(n)
  /\ built' = [built EXCEPT ![closing[t].todo[n]].closed = @ + 1]
  /\ closing' = [closing EXCEPT
       ![t].done = IF n \in CloseFails THEN Declared ELSE @ \union {n}]
  /\ UNCHANGED <<g, cache, flight, path, frame, batch, ret, calls>>

\* One turn of the loop.  A close hook that fails is counted as closed.
CloseOne(t, n) ==
  /\ closing[t].active
  /\ n \in Pending(t)
  /\ \A m \in Pending(t) : TopoPos(m) <= TopoPos(n)
  /\ built' = [built EXCEPT ![closing[t].todo[n]].closed = @ + 1]
  /\ \E failed \in SUBSET ({n} \intersect CloseFails) :
       closing' = [closing EXCEPT ![t].done = @ \union {n},
                                  ![t].errs = @ \union failed]
  /\ UNCHANGED <<g, cache, flight, path, frame, batch, ret, calls>>

\* Faulty: the keys that were asked for are deleted, closed or not.
ForgottenAsked(c) == IF c.keys = {} THEN c.scope ELSE c.keys

\* Faulty: a resource whose close hook failed is kept, to be closed again.
ForgottenSucceeded(c) == IF c.keys = {} THEN c.scope ELSE c.done \ c.errs

\* Faulty: only a whole Close empties the cache.
ForgottenByClose(c) == IF c.keys = {} THEN c.scope ELSE {}

\* The keys that closeWithKeys removes from the cache (container.go:248-254).
Forgotten(c) == IF c.keys = {} THEN c.scope ELSE c.done

CloseFinish(t) ==
  /\ closing[t].active /\ Pending(t) = {}
  /\ cache' = [n \in Nodes |-> IF n \in Forgotten(closing[t])
                                 THEN NoInst ELSE cache[n]]
  /\ ret' = [ret EXCEPT ![t] = IF closing[t].errs = {} THEN NoInst ELSE ErrResult]
  /\ closing' = [closing EXCEPT ![t] = NoClose]
  /\ UNCHANGED <<g, flight, path, frame, built, batch, calls>>

-----------------------------------------------------------------------------
ResolveStep(t, n) ==
  \/ Lookup(t, n) \/ Lead(t, n) \/ Follow(t, n) \/ Recheck(t, n)
  \/ Descend(t, n) \/ Construct(t, n) \/ Fail(t, n) \/ Store(t, n)
  \/ Leave(t, n) \/ ReturnToParent(t, n) \/ ReturnToCaller(t, n)

\* What a goroutine does once it is inside a call.
Inside(t) ==
  \/ Begin(t)
  \/ \E n \in Nodes : ResolveStep(t, n) \/ CloseOne(t, n)
  \/ CloseFinish(t)

\* The calls that its owner may make or not.
Calls(t) ==
  \/ \E ids \in Batches : CallResolve(t, ids)
  \/ \E n \in Nodes : Inject(t, n)
  \/ Close(t)
  \/ \E ids \in CloseSets : CloseIDs(t, ids)

\* All threads have made their calls: the system may stop only here.
Finished ==
  /\ \A t \in Threads : Idle(t)
  /\ UNCHANGED vars

Next == (\E t \in Threads : Inside(t) \/ Calls(t)) \/ Finished

Spec == Init /\ [][Next]_vars

\* The Go scheduler runs every goroutine that can run, and the hooks return;
\* nobody is obliged to make a call.
FairSpec == Spec /\ \A t \in Threads : WF_vars(Inside(t))

-----------------------------------------------------------------------------
(***************************************************************************)
(* Properties.                                                             *)
(***************************************************************************)

InstanceType == [node : Nodes, uses : SUBSET Instances,
                 given : BOOLEAN, closed : Nat]

FrameType == [pc : FramePCs, i : Nat \ {0}, got : SUBSET Instances, out : Results]

ClosingType == [active : BOOLEAN, scope : SUBSET Nodes, keys : SUBSET Nodes,
                errs : SUBSET Nodes, done : SUBSET Nodes,
                todo : [Nodes -> Instances \union {NoInst}]]

\* The shape of the state: what c.instances, the singleflight group, the
\* resolve stacks and the locals of closeWithKeys may hold.
TypeOK ==
  /\ g \in GraphType
  /\ cache \in [Nodes -> Instances \union {NoInst}]
  /\ flight \in [Nodes -> Threads \union {None}]
  /\ path \in [Threads -> Seq(Nodes)]
  /\ frame \in [Threads -> [Nodes -> FrameType]]
  /\ built \in Seq(InstanceType)
  /\ batch \in [Threads -> Seq(Nodes)]
  /\ ret \in [Threads -> Results]
  /\ calls \in [Threads -> Nat]
  /\ closing \in [Threads -> ClosingType]

\* singleflight (container.go:90): at most one goroutine runs the closure of
\* a node, and the group remembers exactly the nodes whose closure is running.
FlightOwner ==
  \A t \in Threads, n \in Nodes : Leads(t, n) <=> flight[n] = t

\* A follower of container.go:90 always has somebody to wake it: another
\* goroutine leads the flight it joined, however the flights before ended.
NoLostWakeup ==
  \A t \in Threads, n \in Nodes :
    Waits(t, n) => \E u \in Threads \ {t} : Leads(u, n)

OpenInstances(n) == {i \in Instances : built[i].node = n /\ Open(i)}

\* Never two live instances of one resource (container.go:24-25, "lazy build,
\* caching, and singleflight deduplication"), whatever misses the cache while
\* another flight for the node ends, and whatever is closed meanwhile.
AtMostOneOpen == \A n \in Nodes : Cardinality(OpenInstances(n)) <= 1

\* Build runs once per resource, even for a goroutine that read the cache
\* before the store and reached singleflight after the flight was over
\* (container.go:83-94); failed builds do not count.
BuiltOnce == \A i, j \in Instances : built[i].node = built[j].node => i = j

\* Dependencies come first (container.go:103-107): a resource that is cached
\* has all its declared dependencies cached, and is wired to exactly those
\* instances that everybody else resolves.
WiredToCache ==
  \A n \in Nodes : cache[n] # NoInst =>
    /\ \A d \in ToSet(g.deps[n]) : cache[d] # NoInst
    /\ built[cache[n]].uses = {cache[d] : d \in ToSet(g.uses[n])}

\* All callers share one instance (resorch_test.go:128-131): what any call is
\* about to return or has returned is what the cache holds.
SharedInstance ==
  /\ \A t \in Threads : IsInst(ret[t]) => cache[built[ret[t]].node] = ret[t]
  /\ \A t \in Threads, n \in Nodes :
       frame[t][n].pc = "return" /\ IsInst(frame[t][n].out)
         => cache[n] = frame[t][n].out

\* m cannot do without n: n is in every set of nodes that holds m and the
\* declared dependencies of its members.
DependsOn(m, n) ==
  /\ m # n
  /\ \A S \in SUBSET Nodes :
       m \in S /\ (\A k \in S : ToSet(g.deps[k]) \subseteq S) => n \in S

\* Reverse topological order (container.go:180, 185): no resource is closed
\* while one that depends on it, directly or not, is still to be closed, also
\* when only some of the nodes between them were built or selected.
ReverseTopological ==
  \A t \in Threads : \A n \in closing[t].done, m \in Pending(t) :
    ~DependsOn(m, n)

\* No close hook runs twice on one instance (container.go:219-245), whoever
\* resolves the node while it is being closed.
ClosedOnce == \A i \in Instances : built[i].closed <= 1

\* The instance that n's leader has built and is about to store.
InHand(n) == {frame[t][n].out : t \in {u \in Threads : frame[u][n].pc = "store"}}

\* Instance i is reachable through the container, or will be.
Held(i) == cache[built[i].node] = i \/ i \in InHand(built[i].node)

\* No instance is lost (container.go:205-255): while it is open the cache has
\* it, its leader is about to store it, or InjectResolved put another in its
\* place.  A lost instance is one that no Close will ever reach.
NothingLost ==
  \A i \in Instances : Open(i) =>
    \/ Held(i)
    \/ \E j \in Instances : /\ j > i /\ built[j].given
                            /\ built[j].node = built[i].node

\* When a Close is over nothing that it saw is left open or in the cache, a
\* failing close hook notwithstanding (container.go:232-245).
CloseIsComplete ==
  [][\A t \in Threads :
       closing[t].active /\ ~closing'[t].active =>
         \A n \in Nodes : LET i == closing[t].todo[n]
           IN i # NoInst => built[i].closed > 0 /\ cache'[n] # i]_vars

\* No live resource holds a closed one, at any moment of a shutdown: the
\* reason for closing in reverse topological order (container.go:26).
NoDanglingWire ==
  \A i \in Instances : Open(i) /\ Held(i) => \A j \in built[i].uses : Open(j)

\* Resolve builds or returns a cached instance (container.go:68): every call
\* comes back, whatever its goroutine waits for.
EveryCallReturns == \A t \in Threads : ~Idle(t) ~> Idle(t)

=============================================================================
