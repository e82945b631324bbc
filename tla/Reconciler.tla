---------------------------- MODULE Reconciler ----------------------------
(***************************************************************************)
(* The Reconciler of exp/reload: goroutines that switch the active         *)
(* container to new specs while others resolve on the container that       *)
(* Current gave them, which may be an old one by then.                     *)
(*                                                                         *)
(* The containers are those of Container.tla, all at once: a node is a     *)
(* pair <<k, id>> of a container and an ID, so that the caches, flights    *)
(* and close loops of different containers have nothing in common but the  *)
(* instances that InjectResolved shares.  A Reconcile goes through         *)
(*                                                                         *)
(*   lock -> inject -> warm -> expire -> closing -> done                   *)
(*                       \---> rollback -> undo -> failed                  *)
(*                                                                         *)
(* and holds r.mu at inject and warm.  The prewarm, and every close, are   *)
(* runs of the resolve and close actions of Container by its goroutine.    *)
(***************************************************************************)
EXTENDS Container, Snapshots

CONSTANTS
  Reconcilers,   \* the threads that call Reconcile
  Initials,      \* what New may be given: a compiled spec list, or none
  Asked,         \* the IDs that users resolve
  Configs,       \* the compiled spec lists a Reconcile may be called with
  MaxMade        \* bound: the containers that are ever made

\* The container nobody has made: Current's nil.
Nil == 0

Made == 1 .. MaxMade

ASSUME ReconcilersAssumption ==
  /\ Reconcilers \subseteq Threads \ (Resolvers \union Closers \union Injectors)
  /\ Asked \subseteq Keys
  /\ \A c \in Configs : IsCompiled(c)
  /\ \A cs \in Initials : cs = <<>> \/ (cs = <<cs[1]>> /\ IsCompiled(cs[1]))
  /\ MaxMade \in Nat \ {0}
  /\ Nodes = Made \X Keys

VARIABLES
  conf,       \* the containers made so far: what each was compiled from
  current,    \* r.current
  snapshot,   \* r.snapshot
  mu,         \* r.mu: the thread that holds the write lock, or None
  rec,        \* per thread, the locals of its Reconcile
  held        \* per thread, the container that Current last gave it

rvars == <<conf, current, snapshot, mu, rec, held>>
allVars == <<vars, rvars>>

In(k, ids) == [j \in DOMAIN ids |-> <<k, ids[j]>>]

NoDiff == Lists(<<>>, <<>>, <<>>, <<>>, {})

Resting == [pc |-> "idle", next |-> Nil, old |-> Nil, diff |-> NoDiff, todo |-> <<>>]

NoGraph == [deps |-> [n \in Nodes |-> <<>>], uses |-> [n \in Nodes |-> <<>>], topo |-> <<>>]

\* The graph with container k, compiled from c, next to the others.
WithContainer(graph, k, c) ==
  LET edges == [n \in Nodes |-> IF n[1] # k THEN graph.deps[n]
                                ELSE IF n[2] \in DOMAIN c.spec
                                  THEN In(k, c.spec[n[2]].deps) ELSE <<>>]
  IN [deps |-> edges, uses |-> edges, topo |-> graph.topo \o In(k, c.topo)]

\* The graph of what New was given.
GraphOf(cs) == IF cs = <<>> THEN NoGraph ELSE WithContainer(NoGraph, 1, cs[1])

\* New: nothing is installed without initial specs; else its Reconcile is over
\* before anybody else knows the reconciler.
RInit ==
  /\ Init
  /\ conf \in Initials /\ g = GraphOf(conf)
  /\ current = Len(conf)
  /\ snapshot = IF conf = <<>> THEN <<>> ELSE Snapshot(conf[1])
  /\ mu = None
  /\ rec = [t \in Threads |-> Resting]
  /\ held = [t \in Threads |-> Nil]

-----------------------------------------------------------------------------
(***************************************************************************)
(* What users of the reconciler do: read Current, and resolve on whatever  *)
(* container they still hold.                                              *)
(***************************************************************************)
Current(t) ==
  /\ t \in Resolvers /\ Idle(t) /\ mu = None
  /\ held[t] # current
  /\ held' = [held EXCEPT ![t] = current]
  /\ UNCHANGED <<vars, conf, current, snapshot, mu, rec>>

Use(t, id) ==
  /\ held[t] # Nil /\ id \in DOMAIN conf[held[t]].spec
  /\ CallResolve(t, <<<<held[t], id>>>>)
  /\ UNCHANGED rvars

-----------------------------------------------------------------------------
(***************************************************************************)
(* Reconcile.                                                              *)
(***************************************************************************)
\* NewContainer and buildSnapshot, before the lock.  Specs that do not compile
\* end the call here and change nothing.
NewContainer(t, c) ==
  /\ t \in Reconcilers /\ rec[t].pc \in {"idle", "done", "failed"}
  /\ calls[t] < MaxCalls[t] /\ Len(conf) < MaxMade
  /\ calls' = [calls EXCEPT ![t] = @ + 1]
  /\ conf' = Append(conf, c)
  /\ g' = WithContainer(g, Len(conf'), c)
  /\ rec' = [rec EXCEPT ![t] = [Resting EXCEPT !.pc = "lock", !.next = Len(conf')]]
  /\ UNCHANGED <<cache, flight, path, frame, built, batch, ret, closing,
                 current, snapshot, mu, held>>

\* The first container is installed as it is, not prewarmed.
Install(t) ==
  /\ rec[t].pc = "lock" /\ mu = None /\ current = Nil
  /\ current' = rec[t].next
  /\ snapshot' = Snapshot(conf[rec[t].next])
  /\ rec' = [rec EXCEPT ![t].pc = "done"]
  /\ UNCHANGED <<vars, conf, mu, held>>

LockAndDiff(t) ==
  LET next == Snapshot(conf[rec[t].next])
      diff == Lists(snapshot, next, conf[current].topo, conf[rec[t].next].topo,
                    MustRebuild(snapshot, next))
  IN /\ rec[t].pc = "lock" /\ mu = None /\ current # Nil
     /\ mu' = t
     /\ rec' = [rec EXCEPT ![t] = [@ EXCEPT !.pc = "inject", !.old = current,
                                            !.diff = diff, !.todo = diff.reused]]
     /\ UNCHANGED <<vars, conf, current, snapshot, held>>

\* One turn of the loop over diff.Reused: old.Resolved, then InjectResolved.
Reuse(t) ==
  LET r == rec[t]
      i == cache[<<r.old, Head(r.todo)>>]
  IN /\ r.pc = "inject" /\ r.todo # <<>>
     /\ rec' = [rec EXCEPT ![t].todo = Tail(@)]
     /\ cache' = IF i = NoInst THEN cache
                 ELSE [cache EXCEPT ![<<r.next, Head(r.todo)>>] = i]
     /\ UNCHANGED <<g, flight, path, frame, built, batch, ret, calls, closing,
                    conf, current, snapshot, mu, held>>

\* Faulty: only what was added or changed itself is resolved.
PrewarmChanged(t) ==
  LET seeds == Seeds(Snapshot(conf[rec[t].old]), Snapshot(conf[rec[t].next]))
  IN /\ rec[t].pc = "inject" /\ rec[t].todo = <<>>
     /\ batch' = [batch EXCEPT ![t] = In(rec[t].next, Only(conf[rec[t].next].topo, seeds))]
     /\ ret' = [ret EXCEPT ![t] = NoInst]
     /\ rec' = [rec EXCEPT ![t].pc = "warm"]
     /\ UNCHANGED <<g, cache, flight, path, frame, built, calls, closing,
                    conf, current, snapshot, mu, held>>

\* next.ResolveIDs(ctx, diff.Rebuilt), under the lock.
Prewarm(t) ==
  /\ rec[t].pc = "inject" /\ rec[t].todo = <<>>
  /\ batch' = [batch EXCEPT ![t] = In(rec[t].next, rec[t].diff.rebuilt)]
  /\ ret' = [ret EXCEPT ![t] = NoInst]
  /\ rec' = [rec EXCEPT ![t].pc = "warm"]
  /\ UNCHANGED <<g, cache, flight, path, frame, built, calls, closing,
                 conf, current, snapshot, mu, held>>

Warmed(t) == rec[t].pc = "warm" /\ Idle(t)

\* Faulty: the snapshot is not replaced.
SwitchKeepingSnapshot(t) ==
  /\ Warmed(t) /\ ret[t] # ErrResult
  /\ current' = rec[t].next
  /\ mu' = None
  /\ rec' = [rec EXCEPT ![t].pc = "expire"]
  /\ UNCHANGED <<vars, conf, snapshot, held>>

\* Faulty: what the old container resolved meanwhile is injected as well.
SwitchReusingAgain(t) ==
  /\ Warmed(t) /\ ret[t] # ErrResult
  /\ current' = rec[t].next
  /\ snapshot' = Snapshot(conf[rec[t].next])
  /\ mu' = None
  /\ rec' = [rec EXCEPT ![t].pc = "expire"]
  /\ cache' = [n \in Nodes |->
       IF n[1] = rec[t].next /\ n[2] \in ToSet(rec[t].diff.reused)
          /\ cache[<<rec[t].old, n[2]>>] # NoInst
         THEN cache[<<rec[t].old, n[2]>>] ELSE cache[n]]
  /\ UNCHANGED <<g, flight, path, frame, built, batch, ret, calls, closing, conf, held>>

Switch(t) ==
  /\ Warmed(t) /\ ret[t] # ErrResult
  /\ current' = rec[t].next
  /\ snapshot' = Snapshot(conf[rec[t].next])
  /\ mu' = None
  /\ rec' = [rec EXCEPT ![t].pc = "expire"]
  /\ UNCHANGED <<vars, conf, held>>

\* Faulty: the error path returns without unlocking.
UnlockNever(t) ==
  /\ Warmed(t) /\ ret[t] = ErrResult
  /\ rec' = [rec EXCEPT ![t].pc = "rollback"]
  /\ UNCHANGED <<vars, conf, current, snapshot, mu, held>>

\* The prewarm failed: unlock, then clean up.
Unlock(t) ==
  /\ Warmed(t) /\ ret[t] = ErrResult
  /\ mu' = None
  /\ rec' = [rec EXCEPT ![t].pc = "rollback"]
  /\ UNCHANGED <<vars, conf, current, snapshot, held>>

\* CloseIDs(ids) of container k by thread t: nothing for an empty list.
CloseIDsOf(t, k, ids) ==
  IF ids = <<>> THEN UNCHANGED closing
                ELSE CloseWithKeys(t, {k} \X Keys, ToSet(In(k, ids)))

\* Faulty: the whole old container is closed.
ExpireAll(t) ==
  /\ rec[t].pc = "expire"
  /\ CloseWithKeys(t, {rec[t].old} \X Keys, {})
  /\ rec' = [rec EXCEPT ![t].pc = "closing"]
  /\ UNCHANGED <<g, cache, flight, path, frame, built, batch, ret, calls,
                 conf, current, snapshot, mu, held>>

\* old.CloseIDs(ctx, diff.ClosedOld), after the lock.
Expire(t) ==
  /\ rec[t].pc = "expire"
  /\ CloseIDsOf(t, rec[t].old, rec[t].diff.closedOld)
  /\ rec' = [rec EXCEPT ![t].pc = "closing"]
  /\ UNCHANGED <<g, cache, flight, path, frame, built, batch, ret, calls,
                 conf, current, snapshot, mu, held>>

\* Faulty: the whole next container is closed.
UndoAll(t) ==
  /\ rec[t].pc = "rollback"
  /\ CloseWithKeys(t, {rec[t].next} \X Keys, {})
  /\ rec' = [rec EXCEPT ![t].pc = "undo"]
  /\ UNCHANGED <<g, cache, flight, path, frame, built, batch, ret, calls,
                 conf, current, snapshot, mu, held>>

\* Faulty: only what is new is closed.
UndoAdded(t) ==
  /\ rec[t].pc = "rollback"
  /\ CloseIDsOf(t, rec[t].next, rec[t].diff.added)
  /\ rec' = [rec EXCEPT ![t].pc = "undo"]
  /\ UNCHANGED <<g, cache, flight, path, frame, built, batch, ret, calls,
                 conf, current, snapshot, mu, held>>

\* next.CloseIDs(diff.Rebuilt), after the lock.
Undo(t) ==
  /\ rec[t].pc = "rollback"
  /\ CloseIDsOf(t, rec[t].next, rec[t].diff.rebuilt)
  /\ rec' = [rec EXCEPT ![t].pc = "undo"]
  /\ UNCHANGED <<g, cache, flight, path, frame, built, batch, ret, calls,
                 conf, current, snapshot, mu, held>>

Return(t) ==
  /\ rec[t].pc \in {"closing", "undo"} /\ Idle(t)
  /\ rec' = [rec EXCEPT ![t].pc = IF @ = "closing" THEN "done" ELSE "failed"]
  /\ UNCHANGED <<vars, conf, current, snapshot, mu, held>>

-----------------------------------------------------------------------------
\* What a goroutine does once it is inside a call of either kind.
Step(t) ==
  \/ Inside(t) /\ UNCHANGED rvars
  \/ Install(t) \/ LockAndDiff(t) \/ Reuse(t) \/ Prewarm(t) \/ Switch(t)
  \/ Unlock(t) \/ Expire(t) \/ Undo(t) \/ Return(t)

Call(t) ==
  \/ Current(t)
  \/ \E id \in Asked : Use(t, id)
  \/ \E c \in Configs : NewContainer(t, c)

Quiet ==
  /\ \A t \in Threads : Idle(t) /\ rec[t].pc \in {"idle", "done", "failed"}
  /\ UNCHANGED allVars

RNext == (\E t \in Threads : Step(t) \/ Call(t)) \/ Quiet

RSpec == RInit /\ [][RNext]_allVars

-----------------------------------------------------------------------------
(***************************************************************************)
(* Properties.                                                             *)
(***************************************************************************)

\* The reconciler's fields and the locals of Reconcile.  The lock is held from
\* the diff to the end of the prewarm, by one thread (reconciler.go:82-117).
RTypeOK ==
  /\ current \in {Nil} \union DOMAIN conf
  /\ mu \in Threads \union {None}
  /\ held \in [Threads -> {Nil} \union DOMAIN conf]
  /\ \A t \in Threads :
       /\ rec[t].todo \in Seq(Keys)
       /\ rec[t].pc \in {"inject", "warm"} <=> mu = t

Live(i) == Open(i) /\ \A j \in built[i].uses : Open(j)

\* Whoever resolves on the current container gets a live resource that holds
\* live ones, whatever is reused, rolled back or expired around it
\* (reconciler.go:98-119; reconciler_test.go:148 "old instances stay alive").
CurrentIsLive ==
  current # Nil =>
    \A id \in Keys : LET n == <<current, id>> IN
      /\ cache[n] # NoInst => Live(cache[n])
      /\ \A t \in Threads :
           frame[t][n].pc = "return" /\ IsInst(frame[t][n].out) => Live(frame[t][n].out)

\* An instance that was carried along, however often, was built from a spec
\* with the hash of the current one (reconciler.go:96-107, 115-116).
BuiltFromItsSpec ==
  current # Nil =>
    \A id \in Keys : LET i == cache[<<current, id>>] IN
      i # NoInst => HashSpec(conf[built[i].node[1]].spec[id])
                      = HashSpec(conf[current].spec[id])

\* What the current container built itself is wired to the instances that it
\* hands out, the reused ones included (reconciler.go:98-109).
RebuiltIsWired ==
  current # Nil =>
    \A id \in Keys : LET i == cache[<<current, id>>] IN
      i # NoInst /\ built[i].node[1] = current =>
        built[i].uses = {cache[d] : d \in ToSet(g.uses[<<current, id>>])}

\* A failed prewarm leaves nothing open that it rebuilt (reconciler.go:109-113).
\* A reused node that the old container had not resolved may be left open: it
\* is built for a rebuilt one and is not in diff.Rebuilt.
UndoneIsClosed ==
  \A t \in Threads : rec[t].pc = "failed" =>
    \A i \in Instances :
      built[i].node[1] = rec[t].next /\ Open(i) =>
        built[i].node[2] \in ToSet(rec[t].diff.reused)

\* What id stands on in the containers o and n has one hash in both.
SameBelow(id, o, n) ==
  \A m \in Below(id, conf[n].spec) :
    m \in DOMAIN conf[o].spec /\ HashSpec(conf[o].spec[m]) = HashSpec(conf[n].spec[m])

\* At a switch, what the new container has not resolved has the hashes it had
\* all the way down: a node whose dependency changed is there.  What is there
\* was built for the new container, or is the very instance of the old one for
\* a node with the hashes it had all the way down (reconciler.go:36-37,
\* 98-115).  That all the old container had is carried over is not said: users
\* go on resolving on it during the prewarm, and its share stays its own.
SwitchedWarm ==
  [][current # Nil /\ current' # current =>
       \A id \in DOMAIN conf[current'].spec :
         LET i == cache[<<current', id>>] IN
         \/ i # NoInst /\ built[i].node[1] = current'
         \/ /\ SameBelow(id, current, current')
            /\ i = NoInst \/ i = cache[<<current, id>>]]_allVars

=============================================================================
