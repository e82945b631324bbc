------------------------------ MODULE Service ------------------------------
(***************************************************************************)
(* The life of the two HTTP services among the examples,                   *)
(* 08_http_user_article_kv and 09_production_like_sanitized: a start that  *)
(* builds clients and may fail at every step, requests that read through   *)
(* memory, Redis and PostgreSQL, a shutdown with a time limit, crashes and *)
(* restarts.                                                               *)
(*                                                                         *)
(* Resources without state of their own (KVs, services, logics, stages,    *)
(* the pipeline) are left out of the order in which they are built.  One   *)
(* row stands for all: it is 0 as it was seeded, or 1 as others change it. *)
(***************************************************************************)
EXTENDS Integers, Sequences

CONSTANTS
  Requests,   \* the connections that a process gets
  None,       \* no copy
  Timeout,    \* the timeout of the pipeline of 09, in seconds; 0 is none
  Keeping     \* bound: the caches that keep a copy for any time

UserCache == "user-cache"
ArticleCache == "article-cache"
Main == "main"
API == "api"

Caches == {UserCache, ArticleCache}
Stores == Caches \union {Main}

\* No deadline.
Never == -1

\* Faulty: the pipeline has no timeout.
DeadlineNever == Never

\* Run's deadline, from when the handler starts.
Deadline == IF Timeout > 0 THEN Timeout ELSE Never

\* The time limit of Shutdown in seconds, the same in both.
ShutdownLimit == 3

\* What a request of 08 reads, in order.
SummaryPath == <<UserCache, ArticleCache>>

\* The reverse topological order of 08, without what has no close hook: it
\* follows from the order of the specs.
SummaryClosing == <<API, ArticleCache, UserCache, Main>>

\* In 08 a failed start is a panic.
Summary ==
  [name |-> "summary", path |-> SummaryPath, closing |-> SummaryClosing,
   deadline |-> Never, releases |-> FALSE]

\* The logics of 09 that read: the recall does so past the caches.
RecommendationPath == <<UserCache, Main, ArticleCache>>

RecommendationClosing == <<API, Main, ArticleCache, UserCache>>

Recommendation ==
  [name |-> "recommendation", path |-> RecommendationPath,
   closing |-> RecommendationClosing, deadline |-> Deadline, releases |-> TRUE]

\* In both, resolving api builds what it stands on in this order.
BuildOrder == <<UserCache, Main, ArticleCache, API>>

\* The steps of a Build: Client, Pool or Listener first, and then
BuildSteps(x) ==
  CASE x \in Caches -> <<"new", "ping", "flush">>
    [] x = Main     -> <<"new", "ping", "schema", "seed">>
    [] x = API      -> <<"listen">>

ASSUME TimeoutAssumption == Timeout \in Nat

ASSUME KeepingAssumption == Keeping \subseteq Caches

VARIABLES
  app,     \* which of the two services it is
  phase,   \* of the process
  next,    \* the place in BuildOrder
  step,    \* the place in BuildSteps of it
  open,    \* clients, pools and listeners that are open
  left,    \* what Close has still to close
  limit,   \* what is left of Shutdown's time
  req,     \* per connection, its request
  memory,  \* per cache, the copy in the process
  redis,   \* per cache, the copy in Redis
  db,      \* the row
  since    \* history: the rows there have been since the process started

process == <<phase, next, step, open, left, limit>>
data == <<memory, redis, db, since>>
vars == <<app, process, req, data>>

NoRequest == [pc |-> "none", i |-> 1, place |-> "get", row |-> None,
              timer |-> Never, early |-> FALSE]

Init ==
  /\ app \in {Summary, Recommendation}
  /\ phase = "down" /\ next = 1 /\ step = 1 /\ open = {} /\ left = {} /\ limit = Never
  /\ req = [r \in Requests |-> NoRequest]
  /\ memory = [c \in Caches |-> None] /\ redis = [c \in Caches |-> None]
  /\ db = 0 /\ since = {}

-----------------------------------------------------------------------------
(***************************************************************************)
(* The start.                                                              *)
(***************************************************************************)
Start ==
  /\ phase = "down"
  /\ phase' = "starting" /\ next' = 1 /\ step' = 1
  /\ open' = {} /\ left' = {} /\ limit' = Never
  /\ since' = {db}
  /\ UNCHANGED <<app, req, memory, redis, db>>

Building == BuildOrder[next]

\* Faulty: a restart leaves what is in Redis.
EffectWithoutFlush(what) ==
  CASE what = "seed" -> /\ db' = 0 /\ since' = since \union {0}
                        /\ UNCHANGED <<memory, redis>>
    [] OTHER -> UNCHANGED data

\* FlushDB empties the cache; SeedDemoData puts the row back.
Effect(what) ==
  CASE what = "flush" -> /\ redis' = [redis EXCEPT ![Building] = None]
                         /\ UNCHANGED <<memory, db, since>>
    [] what = "seed" -> /\ db' = 0 /\ since' = since \union {0}
                        /\ UNCHANGED <<memory, redis>>
    [] OTHER -> UNCHANGED data

BuildStep ==
  LET steps == BuildSteps(Building)
  IN /\ phase = "starting" /\ next <= Len(BuildOrder)
     /\ open' = open \union {Building}
     /\ Effect(steps[step])
     /\ IF step = Len(steps) THEN next' = next + 1 /\ step' = 1
                             ELSE next' = next /\ step' = step + 1
     /\ UNCHANGED <<app, phase, left, limit, req>>

Serve ==
  /\ phase = "starting" /\ next > Len(BuildOrder)
  /\ phase' = "serving"
  /\ UNCHANGED <<app, next, step, open, left, limit, req, data>>

\* What was built and Close has to close.
Built == {BuildOrder[k] : k \in 1 .. next - 1}

\* Faulty: Build returns the error and nothing else.
BuildFailsOpen ==
  /\ phase = "starting" /\ next <= Len(BuildOrder)
  /\ Building \in Caches => step > 1
  /\ phase' = IF app.releases THEN "closing" ELSE "down"
  /\ left' = IF app.releases THEN Built ELSE {}
  /\ UNCHANGED <<app, next, step, open, limit, req, data>>

\* A step of Build fails: Build closes its own handle.  resolveResources closes
\* the container in 09, and the process ends.
BuildFails ==
  /\ phase = "starting" /\ next <= Len(BuildOrder)
  /\ Building \in Caches => step > 1
  /\ open' = open \ {Building}
  /\ phase' = IF app.releases THEN "closing" ELSE "down"
  /\ left' = IF app.releases THEN Built ELSE {}
  /\ UNCHANGED <<app, next, step, limit, req, data>>

-----------------------------------------------------------------------------
(***************************************************************************)
(* The end.                                                                *)
(***************************************************************************)
Active(r) == req[r].pc \in {"accepted", "running"}

\* A request that has a connection of the pool.
Reading(r) == req[r].pc = "running" /\ req[r].place = "row"

\* The signal: Close begins with the Shutdown of the server, which closes the
\* listener.
Signal ==
  /\ phase = "serving"
  /\ phase' = "draining" /\ limit' = ShutdownLimit
  /\ open' = open \ {API} /\ left' = Built
  /\ UNCHANGED <<app, next, step, req, data>>

\* Shutdown returns when every connection is idle, or its time is over; Close
\* goes on either way.
Drained ==
  /\ phase = "draining"
  /\ limit = 0 \/ \A r \in Requests : ~Active(r)
  /\ phase' = "closing" /\ left' = left \ {API} /\ limit' = Never
  /\ UNCHANGED <<app, next, step, open, req, data>>

Place(x) == CHOOSE k \in DOMAIN app.closing : app.closing[k] = x

\* Close has come to x.
Closing(x) == phase = "closing" /\ x \in left /\ \A y \in left : Place(x) <= Place(y)

\* pgxpool's Close waits until all connections are back.
CloseNext(x) ==
  /\ Closing(x)
  /\ x = Main => \A r \in Requests : ~Reading(r)
  /\ open' = open \ {x} /\ left' = left \ {x}
  /\ UNCHANGED <<app, phase, next, step, limit, req, data>>

\* The process is gone, and what it had in memory.
Gone ==
  /\ phase' = "down" /\ left' = {} /\ limit' = Never
  /\ req' = [r \in Requests |-> NoRequest]
  /\ memory' = [c \in Caches |-> None]
  /\ UNCHANGED <<app, next, step, redis, db, since>>

Exit == phase = "closing" /\ left = {} /\ Gone /\ UNCHANGED open

Crash == phase # "down" /\ Gone /\ open' = {}

-----------------------------------------------------------------------------
(***************************************************************************)
(* Requests.                                                               *)
(***************************************************************************)
Accept(r) ==
  /\ API \in open /\ req[r].pc = "none"
  /\ req' = [req EXCEPT ![r].pc = "accepted"]
  /\ UNCHANGED <<app, process, data>>

\* The handler starts: maybe late, on a connection from before the Shutdown.
Handle(r) ==
  /\ req[r].pc = "accepted"
  /\ req' = [req EXCEPT ![r].pc = "running", ![r].timer = app.deadline,
                        ![r].early = API \in open]
  /\ UNCHANGED <<app, process, data>>

Running(r) == req[r].pc = "running" /\ req[r].i <= Len(app.path)

Store(r) == app.path[req[r].i]

At(r, place) == Running(r) /\ req[r].place = place

\* The context is not done: where it is, no call to a store is begun.
InTime(r) == req[r].timer # 0

\* The pool refuses connections from the moment its Close begins.
PoolServes == Main \in open /\ ~Closing(Main)

Advance(r) == [req EXCEPT ![r].i = @ + 1, ![r].place = "get", ![r].row = None]

InMemory(r) ==
  /\ At(r, "get") /\ Store(r) \in Caches /\ memory[Store(r)] # None
  /\ req' = Advance(r)
  /\ UNCHANGED <<app, process, data>>

AskRedis(r) ==
  /\ At(r, "get") /\ Store(r) \in Caches /\ memory[Store(r)] = None
  /\ Store(r) \in open /\ InTime(r)
  /\ req' = [req EXCEPT ![r].place = "redis"]
  /\ UNCHANGED <<app, process, data>>

InRedis(r) ==
  /\ At(r, "redis") /\ Store(r) \in Caches \intersect open /\ redis[Store(r)] # None
  /\ req' = [req EXCEPT ![r].place = "keep", ![r].row = redis[Store(r)]]
  /\ UNCHANGED <<app, process, data>>

\* Nowhere: the request takes a connection of the pool.  The recall does so
\* without looking.
Miss(r) ==
  /\ Running(r)
  /\ IF Store(r) = Main THEN At(r, "get")
     ELSE At(r, "redis") /\ Store(r) \in open /\ redis[Store(r)] = None
  /\ PoolServes /\ InTime(r)
  /\ req' = [req EXCEPT ![r].place = "row"]
  /\ UNCHANGED <<app, process, data>>

ReadRow(r) ==
  /\ At(r, "row")
  /\ req' = IF Store(r) = Main THEN Advance(r)
            ELSE [req EXCEPT ![r].place = "fill", ![r].row = db]
  /\ UNCHANGED <<app, process, data>>

Kept(copies, r) ==
  [c \in Caches |-> IF c = Store(r) /\ c \in Keeping THEN req[r].row ELSE copies[c]]

\* Either layer keeps what was read, however long ago that was: first Redis.
FillRedis(r) ==
  /\ At(r, "fill") /\ Store(r) \in open
  /\ redis' = Kept(redis, r)
  /\ req' = [req EXCEPT ![r].place = "keep"]
  /\ UNCHANGED <<app, process, memory, db, since>>

FillMemory(r) ==
  /\ At(r, "keep")
  /\ memory' = Kept(memory, r)
  /\ req' = Advance(r)
  /\ UNCHANGED <<app, process, redis, db, since>>

Done(r) ==
  /\ req' = [req EXCEPT ![r] = [NoRequest EXCEPT !.pc = "done"]]
  /\ UNCHANGED <<app, process, data>>

Respond(r) == req[r].pc = "running" /\ req[r].i > Len(app.path) /\ Done(r)

\* The store is closed or fails, the context is done, or the client goes away.
Fail(r) == (Running(r) \/ req[r].pc = "accepted") /\ Done(r)

\* pgx heeds the deadline.  A call to Redis need not: the client is made without
\* ContextTimeoutEnabled, and its reads and writes have time limits of their own.
TimeOut(r) == At(r, "row") /\ ~InTime(r) /\ Done(r)

-----------------------------------------------------------------------------
(***************************************************************************)
(* The world.                                                              *)
(***************************************************************************)
Expire(c) ==
  /\ \/ memory[c] # None /\ memory' = [memory EXCEPT ![c] = None] /\ UNCHANGED redis
     \/ redis[c] # None /\ redis' = [redis EXCEPT ![c] = None] /\ UNCHANGED memory
  /\ UNCHANGED <<app, process, req, db, since>>

\* Others change the row, also while the service is down.
Edit ==
  /\ db' = 1 - db
  /\ since' = since \union {db'}
  /\ UNCHANGED <<app, process, req, memory, redis>>

Less(n) == IF n > 0 THEN n - 1 ELSE n

\* A second passes.
Tick ==
  /\ limit > 0 \/ \E r \in Requests : Running(r) /\ req[r].timer > 0
  /\ limit' = Less(limit)
  /\ req' = [r \in Requests |-> [req[r] EXCEPT !.timer = Less(@)]]
  /\ UNCHANGED <<app, phase, next, step, open, left, data>>

Request(r) ==
  \/ Accept(r) \/ Handle(r) \/ InMemory(r) \/ AskRedis(r) \/ InRedis(r) \/ Miss(r)
  \/ ReadRow(r) \/ FillRedis(r) \/ FillMemory(r) \/ Respond(r) \/ Fail(r) \/ TimeOut(r)

Next ==
  \/ Start \/ BuildStep \/ BuildFails \/ Serve \/ Signal \/ Drained
  \/ (\E x \in Stores : CloseNext(x))
  \/ Exit \/ Crash \/ (\E r \in Requests : Request(r))
  \/ (\E c \in Caches : Expire(c)) \/ Edit \/ Tick

Spec == Init /\ [][Next]_vars

\* Time passes, a query whose time is over ends, and Close does not pause.
\* Nothing says that a store ever answers.
FairSpec ==
  /\ Spec
  /\ WF_vars(Tick)
  /\ WF_vars(Drained \/ (\E x \in Stores : CloseNext(x)) \/ Exit)
  /\ WF_vars(\E r \in Requests : TimeOut(r))

-----------------------------------------------------------------------------
(***************************************************************************)
(* Properties.                                                             *)
(***************************************************************************)

\* A request that was running when the signal came has its stores open as long
\* as it has time: the pipeline's deadline is not beyond the limit of Shutdown,
\* after which the stores are closed (09: app.go:182-186, 634).  A request that
\* is over its time, in a call to Redis, may lose them.  08 has no deadline.
RunningRequestsFinish ==
  app = Recommendation =>
    \A r \in Requests :
      Running(r) /\ req[r].early /\ InTime(r) => Stores \subseteq open

\* A process that is not killed leaves nothing open, wherever its start failed
\* (09: app.go:296-330, 277-280).
NothingLeftOpen == phase = "down" /\ app = Recommendation => open = {}

\* What a cache may answer is a row that the database had since the process
\* started, whatever processes before it left in Redis (app.go:327).
FreshSinceStart ==
  phase \in {"serving", "draining"} =>
    \A c \in Caches : {memory[c], redis[c]} \subseteq since \union {None}

\* The signal ends the process, though a store may never answer a request
\* that holds a connection of the pool (app.go:182-186, 290, 314).
SignalEndsProcess ==
  phase = "draining" /\ app = Recommendation ~> phase = "down"

=============================================================================
