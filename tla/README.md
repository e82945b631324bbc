# resorch in TLA+

`resorch` is a Go library that builds resources (clients, caches, repositories)
from a list of specs: definitions are registered per kind and driver, a
container is compiled from specs, resources are resolved lazily and shared, and
closed in reverse topological order. `exp/reload` switches a running program
from one container to the next, and the later examples are small services built
with the library. This directory holds TLA+ models of that code,
TLC configurations that check them on small instances, and theorems about them
that TLAPS checks for every instance.

    tlc -workers 2 -config MCContainer_resolve.cfg MCContainer
    tlapm ContainerProofs.tla

`PROJECT.json` lists the runs, the lines of source each definition models, the
hazards and the theorems.

## 1. Inventory

| Component | Source | State | Operations |
|---|---|---|---|
| Registry | `registry.go` | `defs`, a map from kind and driver to hooks, under an RWMutex | `Register`, `get` |
| Compilation | `container.go:40-66, 272-343` | the container being built: `nodes`, `order`, the edge list | `NewContainer`, `compile` |
| Topological sort | `container.go:345-407` | three colours per node, the stack, the output | `topoSort`, `dfs` |
| Container runtime | `container.go:68-178` | `instances` under an RWMutex, a singleflight group | `Resolve`, `ResolveIDs`, `ResolveAs`, `Resolved`, `InjectResolved` |
| Shutdown | `container.go:180-265` | locals of `closeWithKeys` | `Close`, `CloseIDs` |
| Resolve stack | `container.go:409-434` | an immutable list of keys carried in the context | `pushResolveStack` |
| singleflight | `golang.org/x/sync` | one call in flight per key | `Do` |
| Graph | `graph.go` | a copy of nodes, order and edges | `Graph`, `DOT`, `Mermaid` |
| Snapshot and diff | `exp/reload/reconciler.go:126-300` | one hash and one dependency list per node | `buildSnapshot`, `hashSpec`, `diffSnapshots` |
| Reconciler | `exp/reload/reconciler.go:17-124` | `current`, `snapshot` under an RWMutex | `New`, `Current`, `Reconcile` |
| Recommendation pipeline | `examples/09_production_like_sanitized/app.go` | one `pipelineState` per request, the database, the copies in layered caches | the logics of the configured stages |
| Life of the services | `examples/08_*/main.go`, `examples/09_*/app.go`, `main.go` | open clients, pools and listeners, requests in progress, what Redis and memory keep | start, serve, `Shutdown`, `Close`, crash and restart |
| Demo store | `examples/internal/demo/store.go` | tables and Redis databases | schema, seed, recall, get, set, flush |
| Other examples | `examples/01_*` to `07_*` | none that outlives a call | straight-line programs that use the library |

### How they interact

`NewContainer` reads the registry while other goroutines may register, compiles
the specs and fixes `nodes` and `topo` for good; from then on they are read
without a lock. `Resolve` reads the cache, enters singleflight, and from inside
the flight calls itself for the declared dependencies and then the user's
`Build` hook, which calls `Resolve` again through the same container and, by
convention, the same context. The context carries the resolve stack, which is
the only way a cycle of resolves is noticed. `closeWithKeys` copies the cache
under a read lock, runs the user's close hooks without a lock, and takes the
write lock to update the cache. `Reconcile` compiles a second container, injects
instances of the first, resolves what has to be rebuilt while it holds its own
lock, swaps the containers and closes what has expired in the old one. Users
that called `Current` before keep resolving on the old container all the while.
The services of the examples compile one container, resolve `api` from it and
close it when a signal comes; `api`'s close hook is the `Shutdown` of the server,
the stores' hooks close what its requests read from.

### What is hard, and what makes each part correct

- **Resolve.** Any number of goroutines, in any order, over overlapping parts of
  the graph, with builds that fail. The hard moment is a goroutine that misses
  the cache, is delayed, and reaches singleflight when the flight that filled
  the cache has ended. Correct: one instance per resource (`BuiltOnce`), the same
  for everybody (`SharedInstance`) and for its parents (`WiredToCache`); flights
  have one owner (`FlightOwner`); nobody waits for a flight that nobody runs
  (`NoLostWakeup`); every call returns (`EveryCallReturns`).
- **Shutdown.** Close hooks run unlocked, over a copy that ages. Correct: the
  order respects indirect dependencies, also when only some of the nodes are
  selected (`ReverseTopological`, `NoDanglingWire`); no hook runs twice on an
  instance (`ClosedOnce`); a failing hook stops nothing (`CloseIsComplete`); no
  open instance falls out of the container (`NothingLost`) and there are never
  two for a resource (`AtMostOneOpen`).
- **Compilation.** Early returns in a fixed order, a recursive search with three
  colours, keys made by joining strings. Correct: accepted are exactly the
  lists that can be orchestrated (`AcceptsTheValid`); the order is topological
  (`TopoOrdered`) and complete (`TopoComplete`); a reported cycle is a cycle
  (`CycleIsReal`).
- **Registry.** The check and the write of `Register` are one step, so a compiled
  node has the definition that the registry has (`DefinitionKept`).
- **Diff.** Rebuilding propagates upward through unchanged nodes, in one pass that
  relies on the topological order; what is compared is the hash of a text of lines,
  in which numbers are float64 and nothing says where the options end. Correct: what is
  rebuilt is the least that must be (`RebuiltIsLeast`); every old instance is carried
  over or closed and never both (`OldIsAccountedFor`); what is reused stands on reused
  instances only (`ReusedStandsOnReused`) and is unchanged all the way down
  (`ReusedIsUnchanged`). The last does not hold, finding 3; `ReusesTheUnchanged` is what
  does, in both directions, for options that the hash tells apart.
- **Reconciler.** Reuse while the old container is in use, clean-up after a prewarm
  that failed half way, closing after the lock is released, two reconciliations at
  once. Correct: the current container hands out live instances that hold live
  ones (`CurrentIsLive`), built from the current specs (`BuiltFromItsSpec`) and wired
  to each other (`RebuiltIsWired`); no hook runs twice (`ClosedOnce`, across
  containers that share instances); a failed prewarm leaves nothing open that it
  rebuilt (`UndoneIsClosed`); at a switch all that must be rebuilt is there, the dependents
  of a changed node too, and the rest is the old container's own (`SwitchedWarm`); the lock is
  released on every way out (`RTypeOK` and the deadlock check).
- **Recommendation pipeline.** Four logics read the same facts at different times
  and from different copies. Correct: a response is allowed (`PolicyHolds`) and
  ranked (`RankedAsShown`) by what it shows, whatever the copies disagree about.
- **Life of the services.** A start that fails at any step, a shutdown that races
  the requests' deadline, copies that outlive the process. Correct: requests that were
  running at the signal keep their stores until their time is over
  (`RunningRequestsFinish`), the process ends
  (`SignalEndsProcess`) and leaves nothing open (`NothingLeftOpen`), and no copy of an
  earlier process is served (`FreshSinceStart`).

## 2. Modules

| Module | Content |
|---|---|
| `Container` | the compiled container at run time: resolve, inject, close, with singleflight and the resolve stack |
| `MCContainer` | small graphs, inputs and bounds for it |
| `ContainerProofs` | type correctness, one leader per flight, no lost wakeup; closes are ordered and complete; closing loses nothing, twice closes nothing, doubles nothing, leaves nothing live wired to something closed |
| `Pool` | what a container promises to those who only resolve, without how |
| `ContainerPool` | the refinement mapping from `Container` to `Pool` |
| `ContainerResolveProofs` | one build per resource, one instance for all callers, wired to the cached ones; `Container` implements `Pool` |
| `Compile` | registry, compilation and topological sort |
| `MCCompile` | small spec lists for it |
| `CompileProofs` | exactly the valid lists are accepted, the order is topological and complete, reported cycles are cycles, definitions stay |
| `Snapshots` | `buildSnapshot`, `hashSpec`, `normalizeJSON` and the lists of a `Result`, as operators |
| `Diff` | `diffSnapshots` with its loop turn by turn, against a definition of what must be rebuilt |
| `MCDiff` | pairs of small compiled containers for it |
| `SnapshotProofs` | what filtering keeps, what a hash says, what need not be rebuilt: the lemmas of the next two |
| `DiffProofs` | one pass rebuilds the least set; every old instance is accounted for; what is reused is unchanged down to the leaves |
| `Reconciler` | `New`, `Current` and `Reconcile` over the actions of `Container`; extends `Container` and `Snapshots` |
| `MCReconciler` | three small spec lists for it |
| `ReconcilerProofs` | the current container stays live, what it has is built from its specs and wired to it, a failed prewarm is undone |
| `Recommend` | the pipeline of example 09 over an ageing view of the database |
| `MCRecommend` | a catalogue of three articles for it |
| `RecommendProofs` | what sorting returns; a response is allowed and ranked by what it shows |
| `Service` | start, requests, shutdown, crash and restart of examples 08 and 09 |
| `MCService` | two connections for it |
| `ServiceProofs` | what a shutdown leaves to running requests, what an end leaves open, what a restart forgets |

A definition whose comment begins with "Faulty:" is a plausible bug of the
definition after it. It takes no part in the specification; putting it in the
place of the original must break the property that the mutant list pairs it with.

### `Container`

| Variable | In the code |
|---|---|
| `g` | `c.nodes`, `c.topo`, and what each `Build` resolves (`uses`) |
| `cache` | `c.instances` |
| `flight` | the calls of `c.sf`: the thread that runs the closure of a node |
| `path[t]` | the stack that `pushResolveStack` carries, outermost node first |
| `frame[t][n]` | the locals and program counter of thread t's call `Resolve(n)` |
| `built` | every instance there has ever been, with what it was wired to and how often it was closed; an instance is its index |
| `batch[t]`, `ret[t]`, `calls[t]` | the caller's loop in `ResolveIDs`, the last result, the calls made |
| `closing[t]` | the locals of `closeWithKeys` |

A thread is never twice inside `Resolve(n)`, because `pushResolveStack` refuses
a node that is on the stack; so one frame per thread and node is enough. A frame
goes through the places where another goroutine can run:

| Place | Action | Code |
|---|---|---|
| lookup | `Lookup` | the read under RLock, 83-88 |
| enter | `Lead`, `Follow` | `sf.Do` at its mutex, 90 |
| wait | released by the leader's `Leave` | a follower inside `sf.Do` |
| recheck | `Recheck` | the second read and the node lookup, 91-101 |
| work | `Descend`, `Construct`, `Fail` | the dependencies and `Build`, 103-112 |
| store | `Store` | the write under Lock, 114-116 |
| leave | `Leave` | the closure has returned, singleflight forgets the flight |
| return | `ReturnToParent`, `ReturnToCaller` | `Resolve` returns into a closure or to the caller |

`Inject`, `Close`, `CloseIDs` are the calls; `CloseOne` is one turn of the loop
of `closeWithKeys`, `CloseFinish` its last block. `Build` is what the code
allows it to be: a list of resolves followed by a new instance, or by an error
after any of them for the nodes in `CanFail`. It passes its context on, and
it does not go on when a resolve of its own fails. A close
hook takes its instance, closes it and may return an error.

### `Pool` and `ContainerPool`

`Pool` has one slot per resource. `Put` fills an empty slot with an instance of
its own once the slots of the declared dependencies are full; `Answer` serves the
next ID of a list from its slot; `Refuse` ends the list with an error, but only for a
resource that is not `Sound`: one that cannot be had without a Build that may fail,
an undeclared node or a cycle. There are no locks, flights, stacks or frames.
`ContainerPool` maps `cache` to the slots, `batch` to what is still asked for and
`ret` to the answer. A `Store` is a `Put`, `ReturnToCaller` is an `Answer` or a
`Refuse`, `CallResolve` is an `Ask`, and everything else is a stutter. The mapping
needs that nobody closes or injects: `Pool` says that slots are filled once.

### `Compile`

One action per turn of each loop and one per way out of it. `Checks` is the list
of questions `compile` asks of a spec, in order, and `RejectSpec` answers with
the first that fails. The recursion of `dfs` is the variable `stack`: a call is a
node and the index of the dependency it looks at. `ID.String` stays the
concatenation it is, because two IDs may be written the same. `Decode` and `Deps`
are hooks: a spec carries what they answer. `Register` may interleave with every
turn of the loop.

### `Snapshots` and `Diff`

A compiled container is `[spec, topo]`. Raw options are white space, a JSON document
of which one integer is kept, or bytes that are no JSON, each padded or not;
`NormalizeJSON` trims, turns blanks into null, rounds the integer to the nearest
float64 and leaves other bytes alone. `Exact` is 2^53. A text is a sequence of lines.
`HashSpec` is the text that the code hashes, because sha256 is taken to be injective: the
lines of the driver, of the normalised options and of the dependencies in the order of
strings, with nothing between them, so that options that are not JSON may read like
dependencies. `OneLine` says of options that they do not, `Lossless` that the trip
through float64 leaves them as they are. `Decoded` is what `Decode` gives a `Build`: the
typed option, in which an int64 is not rounded. `Unchanged` compares that, never the hash. `old`, `new`, `rebuild`, `i` and
`result` of `Diff` are the parameters and locals of `diffSnapshots`: `Compare` is the
first three loops, `Propagate` one turn of the loop over `newTopo`, `Collect` the
lists, each of which is one of the orders with `Only` the keys of a set left. `IsCompiled` is
what `CompileProofs` proves of a compiled container. `MustRebuild` says without a loop what must come out; `Reconciler` uses it
where the code calls `diffSnapshots`, which `RebuiltIsLeast` and its proof justify.

### `Reconciler`

| Variable | In the code |
|---|---|
| `conf` | the spec list of every container made so far; container k is `conf[k]` |
| `current`, `snapshot`, `mu` | the fields of `Reconciler`; 0 is no container |
| `rec[t]` | the locals and program counter of t's `Reconcile`: `next`, `old`, `diff`, the reused IDs still to inject |
| `held[t]` | the container that `Current` last returned to t |

All containers are one `Container` whose nodes are pairs of a container and an ID:
caches, flights and close loops of different containers touch nothing in common
except the instances that are injected. `CloseWithKeys` takes the scope of the
container it runs on for that reason.

| Place | Action | Code |
|---|---|---|
| idle | `NewContainer` | compile and snapshot, 73-80; a list that does not compile changes nothing |
| lock | `Install`, `LockAndDiff` | 82-96: the first container is installed, later ones are compared |
| inject | `Reuse`, one ID at a time, then `Prewarm` | 98-109: `Resolved` on the old container, `InjectResolved` into the next |
| warm | the steps of `Container`, then `Switch` or `Unlock` | 109-117: `ResolveIDs(diff.Rebuilt)` under the lock |
| rollback, undo | `Undo`, the close loop, `Return` | 110-113 |
| expire, closing | `Expire`, the close loop, `Return` | 119-123 |

### `Recommend`

`row` is the database, `copies` what a layered KV may answer for a key: a row it
saw at any time, since every layer expires on its own. `req[r]` is the `pipelineState`
and the place in `Logics`, which is `Stages` flattened: `Stage.Run` never looks at
`ExecMode`. One action per logic; the feature logic reads one article per step, and
`Edit` changes, adds or deletes a row between any two steps. Scores are hundredths
and boosts whole percents, so products are integers and nothing is rounded. `Ranked` is
both the sort of `ListTopArticles` and that of `Pipeline.Run`.
`Fail` is a store error, a deadline or a missing article.

### `Service`

`app` chooses between example 08 and 09, which differ in the path of a request, the
order of closing, the deadline of a request and whether a failed start releases what
was built. `BuildStep` and `BuildFails` go through every step of every `Build` that
opens something; `Signal`, `Drained`, `CloseNext` and `Exit` are the signal handler and
the container's `Close`; `Crash` may happen at any time and leaves what is in Redis. A
request takes its rows from memory, Redis or the database and leaves copies behind.
A read of a cache is a call to Redis between `AskRedis` and `InRedis` or `Miss`; a miss
takes a connection of the pool; what comes back fills the two layers one after the
other, `FillRedis` and `FillMemory`. `Tick` is a second: it counts down the limit of
`Shutdown` and the deadlines. It waits for nobody: a request whose time is over begins
no call (`InTime`), and a query of PostgreSQL ends then (`TimeOut`), but a call to Redis
goes on, since the client is made without `ContextTimeoutEnabled` (`app.go:322`) and reads and
writes by time limits of its own.

## 3. Runs

| Run | Instance | Shows |
|---|---|---|
| `resolve` | 3 goroutines, one `ResolveIDs` each, 3 graphs on 3 nodes, a build of b that may fail | the type invariant, `FlightOwner`, `NoLostWakeup`, `BuiltOnce`, `WiredToCache`, `SharedInstance`; `ImplementsPool`, the refinement; `EveryCallReturns`, also after flights that failed |
| `close_ids` | 2 resolvers, one closer that calls `CloseIDs` twice with any set | `AtMostOneOpen`, `ClosedOnce`, `NothingLost`, `ReverseTopological` |
| `shutdown` | one caller, four calls of any kind | `NothingLost`, `NoDanglingWire`, `CloseIsComplete` |
| `compile` | every graph on 3 nodes with up to 2 dependencies each; every list of up to 3 specs out of 10, with errors; 2 late registrations | the properties of compilation |
| `diff` | all pairs out of every compiled container on up to 3 keys, with 17 specs between them | the properties of the diff |
| `reconcile` | 2 reconcilers, 1 user, from no container or from a first one; two prewarms may fail | the properties of the reconciler |
| `recommend` | 2 requests, 3 articles, limit 2, 2 edits | `TypeOK`, `PolicyHolds`, `RankedAsShown` |
| `serve` | 2 connections for each process, any number of starts, both services | the properties of the services |
| `close_leak` | one resolver, one `Close` | finding 1 |
| `undeclared_deadlock` | two goroutines, two builds that resolve each other | finding 2 |
| `reuse_collision` | two containers whose specs differ in what the hash does not tell apart | finding 3 |
| `id_collision` | two IDs with one key | finding 4 |

**Bounds.** Three nodes are the least that have a shared dependency, an indirect
one, and one that is both (`Triangle`: c needs b and a, b needs a). `Undeclared`
adds a build that resolves what it did not declare and an ID that is no node,
`Selfish` a build that resolves itself, which only the resolve stack stops.
Three goroutines are the least with a leader, a follower and a latecomer that
misses the cache; the latecomer also starts a flight anew after one that failed.
Two `CloseIDs` calls let a resource be closed, built again and closed again.
Four calls by one caller are enough to build, inject, close a part and close the
rest. `MaxCalls` is the only bound of `Container`; `Compile` has none but its
inputs. `diff` sets `Exact` to 4, so that 5 and 4 are one float and rounding happens;
its specs differ in layout, value, driver, dependencies and their order, each alone
at least once, and in what the hash does not tell apart (a second line of options and
a dependency), every topological order of every graph is used, and one graph has
its arrows the other way round. `reconcile` needs three
containers for a reconciliation to follow another or to overtake it; one changed
list changes a node on top, the other a leaf and drops a node, so that injected,
rebuilt and expired nodes all occur, and `CanFail` makes a prewarm fail at its only
node or at its first. In `recommend` three articles with two scores make ties, and
the limit cuts one off; one edit makes the copies disagree with the recall and a
second deletes or restores. `serve` bounds nothing but the connections, two of them for one
that holds the pool while the other is served, and the row, which has two values; `Keeping` lets one cache keep nothing, as a layer that has just
expired. The resolvers of `close_ids` and the reconcilers of `reconcile` are
interchangeable, so TLC uses symmetry there; runs with liveness use none.

**What the calls are limited to, and why.** `shutdown` checks `NoDanglingWire`
with sets that hold every node that needs one of theirs, as the reconciler's do:
`CloseIDs` of a dependency alone leaves its users wired to a closed instance, by
design. With several goroutines `NoDanglingWire` does not hold either, as a
`Resolve` may have read the cache before the close; no document promises it.
`close_ids` has one closer: two would close an instance twice.
`close_ids` leaves out `Close`, which loses instances: finding 1.
`UndoneIsClosed` excepts the nodes that are reused: one that the old container
had not resolved is built for a rebuilt node by the prewarm, and no list names it when
the prewarm fails. `ReusedStandsOnReused` speaks of options of one line and `ReusesTheUnchanged` of options that
survive float64 besides; the rest is finding 3. The specs of `reconcile` are of that kind, and the
theorems about it say where they need it. `RunningRequestsFinish` ends with a request's
time: past its deadline, a request may still wait for Redis when `Shutdown` gives up
after three seconds and `Close` takes its stores. `RunningRequestsFinish`, `NothingLeftOpen` and
`SignalEndsProcess` speak of example 09: the requests of 08 have no deadline, so its
shutdown may close stores under them or wait for ever, and a failed start of 08 is a
panic. `RebuiltIsWired` speaks of what the current container built itself: when a user of the
old container resolves a parent between the two reads of lines 98-107, the parent is
carried over and its dependency is not, and the next resolve builds the dependency
again; both instances are live, so `CurrentIsLive` holds. What a late user builds on an
old container after it has expired is closed by nobody, and no property says otherwise.

**Deadlock** is checked in all passing runs: `Finished` of `Container` is enabled only
when no thread is inside a call, so a state in which a goroutine is stuck is an error.

**Fairness.** `FairSpec` is weak fairness of `Inside(t)` for every thread: the Go
scheduler runs a goroutine that can run, its mutexes do not starve a waiter, and
hooks return. No call is fair: nobody is obliged to resolve or to close. A
follower is not runnable until its leader is done, so weak fairness does not
hide a deadlock; finding 2 is found under it. `FairSpec` of `Service` is weak fairness of
the passing of time, of the end of queries whose time is over (pgx heeds its context, and only
connections of its pool block `Close`) and of the one goroutine that runs `Close`; a store
may never answer, a request may never be handled, and no start, signal or edit is owed. `Reconciler` states no
liveness: that nobody is left waiting for its lock or a flight is the deadlock check of
`reconcile`, in which only `Quiet` may stop.

**Assumptions about what is outside.** sha256 does not collide. `http.Server.Shutdown`
closes the listener first and returns when no connection is active or its context is
over; pgx ends a query whose context is over, go-redis as it is configured here need not; the `Close` of a pgxpool refuses new connections and waits for those in use; Redis
keeps its data when the service crashes.

## 4. Findings

1. **`Close` drops instances that were stored while it ran** (`container.go:249`,
   run `close_leak`). Its snapshot is taken before the hooks run and its last
   step replaces the whole map. What a concurrent `Resolve` stored in between is
   open, in no cache, and out of reach of every later `Close`. `CloseIDs` deletes
   only the keys it closed and does not have the problem (run `close_ids`).
2. **Undeclared mutual resolves deadlock** (`container.go:90`, run
   `undeclared_deadlock`). The resolve stack finds a cycle only for a goroutine that
   goes all the way round. Two goroutines that enter the cycle at different nodes
   lead one flight each and wait for the other's for ever. Dependencies that are
   declared cannot do this: they are acyclic.
3. **Nodes that changed are reused** (`reconciler.go:168`, run `reuse_collision`). `Reused` is
   documented as "unchanged and deps not rebuilt" (`reconciler.go:27`). The text that is
   hashed does not say where the options end, and options that are not JSON may hold line
   breaks: in the run, b moves its dependency a into a second line of its options, is reused with
   the instance that holds a, and a is removed and closed. And integers are compared as
   float64, while a `Build` gets the integer itself: c goes from 2^53 to 2^53 + 1 and
   is reused with the old one.
4. **Two IDs may share a key** (`container.go:275`, run `id_collision`). Kind and
   name are joined with a slash and either may hold one, so different IDs
   are reported as one given twice.

## 5. Proofs

All theorems hold for every set of nodes and threads, every set of graphs and
every bound, from the assumptions named in the modules: roles are sets of threads,
`None` is no thread, inputs have their types.

**`TypeCorrect`** (`Spec => []TypeOK`). The type invariant is not a formality
here: instances are indices into `built`, so it says that no cache entry, frame or
closer ever refers to an instance that does not exist. It is not inductive: that
the result of a nested call is an instance when its parent goes on, and that a
stored result belongs to the node it is stored for, depends on the shape of the stacks.

**`OneLeader`**, **`FollowersAreWoken`**. The inductive invariant `IndInv` is
`TypeOK` and four facts:

- `PathOK`: the frames of a thread are the nodes on its stack, each once, and all
  but the innermost are at `work`. Without it a step of the innermost call could
  be a step of another frame of the same node.
- `HandOK`: a leader at `store` holds an instance of its own node.
- `FlightOwner` itself.
- `FollowersLed`: a follower's flight is in the group.

`NoLostWakeup` follows: the flight has a leader by `FlightOwner`, which is another
thread because a thread has one frame per node and a follower does not lead.
Each action has a lemma for its types and one for its frames; `PushPath`,
`PopPath`, `TopStep` and `NoFrameStep` are what they share.

**`BuildsOnce`**, **`CallersShare`**. When nobody closes or injects, `OnceInv` adds:
a node in the cache has its own instance (`CacheOK`); a leader that is past the
second look and has not stored yet leads a node that is not in the cache
(`MissOK`), which is the double check of `container.go:91` and would not be
inductive without `FlightOwner`; every instance is the cached one or in the hand of
its leader (`StoredOK`); every result on its way is the cached one (`CarriedOK`,
`ReturnedOK`). The assumption `Closers = {}`, `Injectors = {}` is in the theorems.

**`TopoSorted`**, **`TopoIsComplete`**, **`CyclesAreReal`**, **`CompileTypeCorrect`**. For
every list of specs, from the assumptions that the lists are lists of specs and the
registered definitions are definitions. The order alone is not inductive: that a
node is listed after its dependencies needs to know where each suspended `dfs` call
has come to. `IndInv` (of `CompileProofs`) says that before the search nothing is marked
(`PhaseOK`), `order` has the keys of all nodes (`OrderOK`), their dependencies are nodes
once the edges have been looked at (`ClosedOK`), a mark says whether a node is in the
output or on the stack (`MarksOK`), and the stack is a path: each call was made for
the dependency its caller looks at, and those in front of it are done (`StackOK`).
`RootsOK` (roots that were passed have been visited) gives completeness; the path in
`StackOK` is the path of the reported cycle. Keys are opaque in these four proofs, so they
hold also when two IDs share one.

**`AcceptsExactlyTheValid`**: every list, registry and later registration, from one more
assumption, `KeysDiffer`: no two IDs are written the same. Without it the theorem is false,
and the run `id_collision` shows the list of two different IDs that is rejected as a duplicate.
`ReadOK` says that what was read of a spec is what the spec says, and that no key was read
twice. With it, acceptance follows from the final state: dependencies are specs by `ClosedOK`, and
in every set of specs the one whose node `topo` lists first depends on no other
(`TopoOrdered`, `TopoComplete`), which is `Acyclic`. `CauseOK` says the converse, one
rejecting step at a time: a check that fails (`SomethingFails`), a dependency that is no
spec's, and for a cycle the set of specs on the stack, of which each depends on another
(`StackHasCycle`); this set has no member to start from, so the list is not `Acyclic`.

**`DefinitionsStay`** follows from `DefsOK`: a node's definition is in the registry.

**`WiredToTheCache`** (same assumption). `WireInv` adds to `OnceInv` what a frame in
the middle of its work has seen: what its Build has asked for so far is cached, and
`got` is exactly those instances (`FramesWired`); so a cached node has its dependencies cached and `uses` is what is
cached for them (`CacheWired`). It rests on the cache only growing, which is why closing is
assumed away.

**`ImplementsThePool`** (same assumption). The hard case is `Refuse`: an error that a caller
gets must be for an unsound node. `PoolInv` says of every frame that the nodes it has
passed are cached and that an error in it belongs to an unsound node (`FramesGood`),
and of every stack that it begins with what the caller asked for and that each call was
made for the resolve its caller is at (`StacksGood`). Then an
undeclared node is in no set of declared nodes, a failing one is in `CanFail`, a child
that is unsound makes its parent unsound, and a child that is found on the stack closes a
cycle of needs, which no `Sound` set contains. `StoreIsPut` needs `MissOK` for the
empty slot and `FramesGood` for the full ones.

**`ClosesInOrder`**, **`ClosesCompletely`**: any number of closers, injectors and
resolvers. `LoopInv` says that only declared nodes are built and cached (`OnlyDeclared`)
and, of every close that runs, that what it has done is closed and stands after all that
it has still to do (`LoopOK`). `ClosesInOrder` assumes of the graphs that
their order is topological, which is what `TopoSorted` and `TopoIsComplete` prove of
`compile`; `DependencyIsEarlier` turns the definition of `DependsOn` by sets into an
order of places: the nodes that do not come after m contain their own dependencies.

**`ClosingLosesNothing`**, **`HooksRunOnce`**, **`OneIsOpen`** assume `OneSelects`: one
goroutine closes, with `CloseIDs`, and nobody injects. These are the conditions under
which they are true: findings 1 and the second closer break them. `KeepInv`
says that a leader past its second look leads a node that is not cached (`MissOK`), which
a close cannot break as it only empties slots; that what is cached is open but for what
the close has done (`CachedOK`); that what the close saw is still cached (`SeenOK`), since
nobody stores over a full slot; and that what is open is cached or in hand (`NoneLost`).

**`OneThreadLosesNothing`** assumes `OneThread`: one goroutine resolves, injects and closes
in turn, which is what the run `shutdown` has. `LostInv` says that no call is
under way while a close runs, and that a close selected from what is still cached (`AloneOK`,
with `MissOK`); and that what is open is cached, in the hand of the leader that stores
it, or replaced by an instance that was injected later in its place (`LostOK`). A close that
ends then drops nothing that it has not closed.

**`NoneHoldsClosed`** assumes `OneCaller`, which the run `shutdown` has as well: `OneThread`,
and that no Build resolves what its definition does not declare, that the order is topological, and that
a set given to `CloseIDs` holds the resources wired to its members. Section 3
says why each is needed. `FitInv` says that what a call has in hand is
open and of a node that its Build asked for (`FramesFit`, which needs the stack of calls,
`CallsOK`), so that an instance is wired to the nodes that its Build resolves (`UsesFit`);
and that a close is alone and selects from what is cached (`AloneOK`). `WiredIsLater` is
the point: if the instance about to be closed is wired into a live one, that one is
selected as well, comes later in the order and was not closed, so the loop would
have taken it first.

**`DiffTyped`**, **`RebuildsLeast`**, **`AccountsForOld`**, **`ReuseIsClosed`**,
**`ReusesUnchanged`**: every pair of compiled containers, from the assumption that their
orders are topological, which is what `TopoSorted` and `TopoIsComplete` prove of `compile`.
The invariant of the loop has two halves: the rebuild set has the seeds and lies in every
set that has them and all above (`NoMoreThanNeeded`), and every node that was passed and
needs a rebuilt one is rebuilt (`Passed`). `Passed` survives a turn because what is added
at i is not needed by anything before i; that is where one pass is enough. The lists of a
`Result` are filters of the two orders, so `OnlyIs` of `SnapshotProofs` says what filtering
keeps: it numbers the places that are kept by how many there are up to each. `SameHash`
says that two specs with one hash whose options take one line each have the same driver, the same
options after rounding and the same dependencies when sorted: then the second line is
where the options end. Two lists that are sorted alike have the same members
(`SortedIs`), so the dependencies of a reused node are what they were. `ReuseIsClosed`
and `ReusesUnchanged` are under that hypothesis, as their properties are, and
`ReusesUnchanged` also under `Lossless`. It goes down from a reused node: the nodes
below it that are reused contain their dependencies (`KeptStandsOnKept`), so they
contain all of `Below`. The other way round, the nodes that something changed stands under
are a set with all seeds that is closed upward, so that the least such set lies in it.

**`ReconcilerTyped`**, **`CarriesOnlyTheSame`**, **`SwitchesWarm`**, **`UndoesItsOwn`**,
**`CurrentStaysLive`**, **`ReconcilesCloseOnce`**, **`RebuildsWired`**: every number of containers, reconcilers and users, from
the assumptions that the lists compile, that reconcilers are not users, and that a node is
a container and an ID. The invariant has layers, each of which uses the ones before it:

- `Control`: who may be where. A goroutine at `inject` or `warm` has the lock, the old
  container of its comparison is the current one until it switches, and its new container
  is nobody else's (`RecOK`). After the comparison `diff` is that of its two containers.
- `WhereOK`: the graph is that of the containers next to each other (`GraphOK`), and a
  goroutine has calls in one container only, closes only what its lists name there, and
  made each call for a dependency of its caller (`HomeOK`). This is what keeps a step in
  one container from being a step in another.
- `OriginOK`: an instance in a slot, in a result or in `uses` was built for a node of the same
  name from a spec with the same hash. `BuiltFromItsSpec` follows.
- `OutOK`, `WarmOK`: while a prewarm runs, what it has resolved is cached and what it has not
  is still in its list. Nothing else may close in the new container then. So all that is
  not reused is there at a switch; and all that a reused node stands on is reused, so it has
  the hash it had (`ReusedBelow`).
- `CarriedOK`: until the switch, what the new container has of a node it did not build itself is what
  the old one has of it. No other step takes that from the old one, which is current,
  or puts something else in the new one. With it, `SwitchedWarm` follows.
- `MadeOK`: an open instance built in a container that nobody has seen yet is reused,
  cached there, in the hand of the call that stores it, or what the undoing has still to
  close (`Excused`). `UndoneIsClosed` follows.
- `DoomOK`, for `CurrentIsLive`. A container is kept if it is current or is being filled to
  replace the current one; an instance is doomed if a close by anybody, one that runs or one that is
  certain to come, has still to close it. `KeptOK`: what a kept container has or holds is open and not
  doomed. That it stays so when a list of instances becomes doomed needs to know who
  else may have them: before the comparison nothing is in a new container
  (`FreshOK`, `BlankOK`), what is built there is in no other container before
  the switch and what it has of the nodes to rebuild was built there (`OwnOK`), and what
  was built but not stored is known to its builder only (`HandAlone`). The hard
  cases are the switch, after which the closing list of the old container is
  certain to be closed and disjoint from what the new one was given, and the failed
  prewarm, which closes what it rebuilt and never what it took over. A user that
  resolves on the old container meanwhile builds instances that are only there.
- `OnceOK`, for `ClosedOnce`, which has no assumption on who closes: any number of goroutines
  expire old containers while others still build in them. `DueOK` says that what is
  doomed is open and doomed by one goroutine. It becomes so when a prewarm ends, out of a
  container that was kept until then (`KeptOK` says it was neither closed nor doomed), or
  when a late user stores it in a container about to be closed; then only its builder had it
  (`HandAlone`). Two goroutines never have to close the same old container (`ApartOK`),
  since each took it when it was current and nobody takes it again. What a close goes through is in the
  slot of its own name (`TodoOK`), so that the instance it closes is not in another slot of
  the same close; and nothing in a builder's hand is closed (`HandOpen`).
- `WiredOK`, for `RebuiltIsWired`: the argument of `WireInv`, for containers that are closed and
  given instances. A kept container is not closed (`KeptStaysFull`), so that its cache only grows; it is
  given instances only while nothing was built in it (`BareOK`) and nobody works in it. A call in it has,
  in `got`, exactly what is cached for the part of its work that it has done (`CallWired`),
  because each call on a stack was made for the resolve that its caller is at (`ChainOK`).

`CurrentStaysLive` and `ReconcilesCloseOnce` assume `OneLineSources`: no spec has options of more than one
line. Without it they are false, for the reason of finding 3. The layers from `OwnOK` on
that know what a reused instance holds rest on it; the other five theorems hold of any specs.

**`ShutdownWaitsForRunning`**, **`EndsClosed`**, **`CachesAreFresh`**: every number of
requests, connections and starts. `OpenOK` ties what is open to the place the start or
the end has come to. `RequestsOK` says that only a whole service has requests, and that
one which ran before the signal and has time left has no more of it than `Shutdown`
(`EarlyOK`). For this `ShutdownWaitsForRunning` assumes that the timeout of the pipeline is set
and not beyond the limit of `Shutdown`, `Timeout \in 1 .. ShutdownLimit`; its configuration has
two seconds of three. The other two hold for any timeout. `FreshOK`
follows a row on its way from the database through a request into a copy, and says of
every cache that the start has flushed that it keeps only rows of this process's time.

**`RecommendTyped`**, **`ShowsWhatIsAllowed`**, **`RanksByWhatItShows`**: every catalogue and
number of requests and edits, from the assumptions that the rows and scores have their
types, that the articles are finitely many and that none has the user's key. `RankedIs` says
what a sort returns: it numbers the IDs by how many are before each, which are all
different because the order is total. The three properties are not inductive, since they
say nothing of a request on its way. `Progress` says, by its place in `Logics`, what the logics
before it have established: the affinity is that of the tier (`KnowsUser`), the candidates
were recalled (`KeepsRecalled`), those whose feature was read are lifted once and the others
not yet (`LiftsOnce`), all are allowed (`AllAllowed`) and scored for the category they have by
then (`IsRanked`). The edits and the copies never enter: after the feature logic a request
reads nothing but its own state. That is what the order of the stages is for, and both faulty
orders of `Stages` break the proof where they break the property.

**Only model-checked:** `EveryCallReturns` and `SignalEndsProcess` (liveness is out of the
prover's reach). Every other property of a passing run is stated by a theorem, under the
hypotheses named above, which the constants of the run satisfy.

## 6. Not modelled

- A `Build` or close hook that panics; singleflight passes the panic on.
- A `Build` that resolves with a context other than its own. The stack is then lost
  and a cycle of such resolves waits for itself.
- Cancellation of a context, except as a `Build` that fails. A follower does get the
  error of its leader's context; `Leave` models that.
- An ID that is not valid, given to `CloseIDs` or `InjectResolved`: the call returns its error before it
  has changed anything.
- `ResolveAs` (a type assertion on the result) and `Resolved` (a read).
- The text of errors and of `DOT` and `Mermaid`.
- A `Build` that calls `Current` or `Reconcile` of the reconciler that prewarms it: it waits
  for a lock its own goroutine holds. A `Build` that panics there leaves the lock held.
- `Set` and `Del` of the demo's database stores: no service calls them.
- Examples 01 to 07: straight-line programs that call the library once each and print.
  What they call is modelled; 07 measures combinations of layers of an external library.
- Reading YAML, parsing requests and encoding responses.

## 7. Plan

1. `Container`, `Compile`, their runs and proofs. Done.
2. `Diff`, `Reconciler`, `Pool` and its refinement, `Recommend`, `Service`. Done.
3. Proofs of `Container`: wiring, refinement, order and completeness of closing, and what
   one selecting closer keeps. Done.
4. Proofs of `Diff`, `Service` and `Reconciler`. Done.
5. `AcceptsTheValid`: accepted lists are valid, and rejections have a cause. Done.
6. `NoDanglingWire`, with the assumption on the sets that are closed. Done.
7. The three invariants of `Recommend`. Done.
8. That the wait-for relation of declared dependencies has no cycle, which is what
   stands behind `EveryCallReturns`.
