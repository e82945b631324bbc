--------------------------- MODULE ServiceProofs ---------------------------
(***************************************************************************)
(* Proofs about the life of the services: what a shutdown leaves to the    *)
(* requests that run, what an end leaves open, what a restart forgets.     *)
(***************************************************************************)
EXTENDS Service, TLAPS

RequestType ==
  [pc : {"none", "accepted", "running", "done"}, i : Nat \ {0},
   place : {"get", "redis", "row", "fill", "keep"}, row : {0, 1, None},
   timer : Int, early : BOOLEAN]

TypeInv ==
  /\ app \in {Summary, Recommendation}
  /\ phase \in {"down", "starting", "serving", "draining", "closing"}
  /\ next \in 1 .. 5
  /\ step \in 1 .. 4
  /\ limit \in Int
  /\ req \in [Requests -> RequestType]
  /\ memory \in [Caches -> {0, 1, None}]
  /\ redis \in [Caches -> {0, 1, None}]
  /\ db \in {0, 1}

\* What is open is what the start has come to, and what the end has not.
OpenOK ==
  /\ phase = "starting" =>
       /\ next = 5 \/ step \in DOMAIN BuildSteps(Building)
       /\ open = Built \union (IF step > 1 THEN {Building} ELSE {})
       /\ next = 5 => step = 1
  /\ phase = "serving" => next = 5 /\ open = Built
  /\ phase = "draining" => next = 5 /\ open = Stores /\ left = Built
  /\ phase = "closing" => API \notin open /\ open \subseteq left
  /\ phase = "down" => API \notin open /\ (app = Recommendation => open = {})

\* The pipeline has a deadline, and not beyond the limit of Shutdown.
Within == Timeout \in 1 .. ShutdownLimit

\* Where a request stands that ran before the signal and has time left.
EarlyOK(r) ==
  /\ phase \in {"starting", "serving", "draining"}
  /\ req[r].timer \in 1 .. Timeout
  /\ phase = "draining" => req[r].timer <= limit

\* Only a whole service has requests.  One of 09 that ran before the signal has
\* no more time than Shutdown.
RequestsOK ==
  \A r \in Requests :
    /\ req[r].pc # "none" => phase # "down" /\ next = 5
    /\ Within /\ Running(r) /\ req[r].early /\ InTime(r) /\ app = Recommendation => EarlyOK(r)

\* What a request holds a row for.
Holding == {"fill", "keep"}

\* What is in memory, in a cache that was flushed, or on its way there is a row
\* of the process's time.
FreshOK ==
  /\ phase # "down" =>
       /\ db \in since
       /\ \A c \in Caches : c \in Built => redis[c] \in since \union {None}
  /\ \A c \in Caches : memory[c] # None => phase # "down" /\ next = 5 /\ memory[c] \in since
  /\ \A r \in Requests : req[r].place \in Holding =>
       req[r].pc # "none" /\ req[r].row \in since

IInv == TypeInv /\ OpenOK /\ RequestsOK /\ FreshOK

-----------------------------------------------------------------------------
LEMMA Order ==
  /\ Len(BuildOrder) = 4
  /\ DOMAIN BuildOrder = 1 .. 4
  /\ BuildOrder[1] = UserCache /\ BuildOrder[2] = Main
  /\ BuildOrder[3] = ArticleCache /\ BuildOrder[4] = API
  BY DEF BuildOrder

LEMMA Names ==
  /\ UserCache # ArticleCache /\ UserCache # Main /\ UserCache # API
  /\ ArticleCache # Main /\ ArticleCache # API /\ Main # API
  /\ Caches = {UserCache, ArticleCache} /\ Stores = {UserCache, ArticleCache, Main}
  BY DEF UserCache, ArticleCache, Main, API, Caches, Stores

\* What has been built at each place of the order.
LEMMA BuiltAt ==
  ASSUME NEW k, NEW B, B = {BuildOrder[j] : j \in 1 .. k - 1}
  PROVE  /\ k = 1 => B = {}
         /\ k = 2 => B = {UserCache}
         /\ k = 3 => B = {UserCache, Main}
         /\ k = 4 => B = {UserCache, Main, ArticleCache}
         /\ k = 5 => B = {UserCache, Main, ArticleCache, API}
  <1>1. k = 1 => B = {}
    OBVIOUS
  <1>2. k = 2 => B = {BuildOrder[1]}
    OBVIOUS
  <1>3. k = 3 => B = {BuildOrder[1], BuildOrder[2]}
    OBVIOUS
  <1>4. k = 4 => B = {BuildOrder[1], BuildOrder[2], BuildOrder[3]}
    OBVIOUS
  <1>5. k = 5 => B = {BuildOrder[1], BuildOrder[2], BuildOrder[3], BuildOrder[4]}
    OBVIOUS
  <1>. QED
    BY <1>1, <1>2, <1>3, <1>4, <1>5, Order

LEMMA Steps ==
  ASSUME NEW x
  PROVE  /\ x \in Caches => /\ Len(BuildSteps(x)) = 3 /\ DOMAIN BuildSteps(x) = 1 .. 3
                            /\ BuildSteps(x)[1] = "new" /\ BuildSteps(x)[2] = "ping"
                            /\ BuildSteps(x)[3] = "flush"
         /\ x = Main => /\ Len(BuildSteps(x)) = 4 /\ DOMAIN BuildSteps(x) = 1 .. 4
                        /\ BuildSteps(x)[1] = "new" /\ BuildSteps(x)[2] = "ping"
                        /\ BuildSteps(x)[3] = "schema" /\ BuildSteps(x)[4] = "seed"
         /\ x = API => /\ Len(BuildSteps(x)) = 1 /\ DOMAIN BuildSteps(x) = 1 .. 1
                       /\ BuildSteps(x)[1] = "listen"
  <1>1. CASE x \in Caches
    <2>1. BuildSteps(x) = <<"new", "ping", "flush">>
      BY <1>1, Names DEF BuildSteps
    <2>. QED
      BY <1>1, <2>1, Names
  <1>2. CASE x = Main
    <2>1. BuildSteps(x) = <<"new", "ping", "schema", "seed">>
      BY <1>2, Names DEF BuildSteps
    <2>. QED
      BY <1>2, <2>1, Names
  <1>3. CASE x = API
    <2>1. BuildSteps(x) = <<"listen">>
      BY <1>3, Names DEF BuildSteps
    <2>. QED
      BY <1>3, <2>1, Names
  <1>. QED
    BY <1>1, <1>2, <1>3

LEMMA Apps ==
  /\ Summary # Recommendation
  /\ ~Summary.releases /\ Recommendation.releases
  /\ Summary.deadline = -1 /\ Recommendation.deadline = Deadline /\ Deadline \in Int
  /\ Summary.path = SummaryPath /\ Recommendation.path = RecommendationPath
  /\ Len(SummaryPath) = 2 /\ Len(RecommendationPath) = 3
  <1>1. ~Summary.releases /\ Recommendation.releases
    BY DEF Summary, Recommendation
  <1>2. Summary.deadline = -1 /\ Recommendation.deadline = Deadline /\ Deadline \in Int
    BY TimeoutAssumption DEF Summary, Recommendation, Never, Deadline
  <1>3. Summary.path = SummaryPath /\ Recommendation.path = RecommendationPath
    BY DEF Summary, Recommendation
  <1>4. Len(SummaryPath) = 2 /\ Len(RecommendationPath) = 3
    BY DEF SummaryPath, RecommendationPath
  <1>. QED
    BY <1>1, <1>2, <1>3, <1>4

\* What a request reads next is a store.
LEMMA StoreType ==
  ASSUME TypeInv, NEW r \in Requests, Running(r)
  PROVE  Store(r) \in Stores
  <1>1. req[r] \in RequestType
    BY DEF TypeInv
  <1>2. req[r].i \in Nat \ {0}
    BY <1>1 DEF RequestType
  <1>3. CASE app = Summary
    <2>1. req[r].i \in 1 .. 2
      BY <1>2, <1>3, Apps DEF Running
    <2>2. SummaryPath[1] \in Stores /\ SummaryPath[2] \in Stores
      BY Names DEF SummaryPath
    <2>. QED
      BY <1>3, <2>1, <2>2, Apps DEF Store
  <1>4. CASE app = Recommendation
    <2>1. req[r].i \in 1 .. 3
      BY <1>2, <1>4, Apps DEF Running
    <2>2. /\ RecommendationPath[1] \in Stores /\ RecommendationPath[2] \in Stores
          /\ RecommendationPath[3] \in Stores
      BY Names DEF RecommendationPath
    <2>. QED
      BY <1>4, <2>1, <2>2, Apps DEF Store
  <1>. QED
    BY <1>3, <1>4 DEF TypeInv

\* The place that the start has come to.
LEMMA BuildingIs ==
  ASSUME TypeInv, next <= Len(BuildOrder)
  PROVE  /\ next \in 1 .. 4
         /\ Building \in {UserCache, Main, ArticleCache, API}
         /\ Building \notin Built
         /\ Building = API <=> next = 4
         /\ next' = next => Built' = Built /\ Building' = Building
         /\ next' = next + 1 => Built' = Built \union {Building}
  <1>1. next \in 1 .. 4
    BY Order DEF TypeInv
  <1>2. /\ next = 1 => Building = UserCache
        /\ next = 2 => Building = Main
        /\ next = 3 => Building = ArticleCache
        /\ next = 4 => Building = API
    BY Order DEF Building
  <1>3. /\ next = 1 => Built = {}
        /\ next = 2 => Built = {UserCache}
        /\ next = 3 => Built = {UserCache, Main}
        /\ next = 4 => Built = {UserCache, Main, ArticleCache}
    BY BuiltAt DEF Built
  <1>4. /\ next' = 2 => Built' = {UserCache}
        /\ next' = 3 => Built' = {UserCache, Main}
        /\ next' = 4 => Built' = {UserCache, Main, ArticleCache}
        /\ next' = 5 => Built' = {UserCache, Main, ArticleCache, API}
    BY BuiltAt DEF Built
  <1>5. next' = next => Built' = Built /\ Building' = Building
    BY DEF Built, Building
  <1>6. next' = next + 1 => Built' = Built \union {Building}
    BY <1>1, <1>2, <1>3, <1>4
  <1>. QED
    BY <1>1, <1>2, <1>3, <1>5, <1>6, Names

-----------------------------------------------------------------------------
(***************************************************************************)
(* The start.                                                              *)
(***************************************************************************)
LEMMA InitInv == Init => IInv
  <1> SUFFICES ASSUME Init PROVE IInv
    OBVIOUS
  <1>1. NoRequest \in RequestType
    BY DEF NoRequest, RequestType, Never
  <1>2. TypeInv
    BY <1>1 DEF Init, TypeInv, Never
  <1>3. OpenOK
    BY DEF Init, OpenOK
  <1>4. RequestsOK
    BY DEF Init, RequestsOK, Active, Running, NoRequest
  <1>5. FreshOK
    BY DEF Init, FreshOK, Holding, NoRequest
  <1>. QED
    BY <1>2, <1>3, <1>4, <1>5 DEF IInv

LEMMA StartStep ==
  ASSUME IInv, Start
  PROVE  IInv'
  <1>1. TypeInv'
    BY DEF IInv, TypeInv, Start, Never
  <1>2. Built' = {}
    BY BuiltAt DEF Built, Start
  <1>3. Building' = UserCache
    BY Order DEF Building, Start
  <1>4. OpenOK'
    BY <1>2, <1>3, Steps, Names DEF OpenOK, Start
  <1>5. RequestsOK'
    BY DEF IInv, RequestsOK, Start, Active, Running, NoRequest
  <1>6. FreshOK'
    BY <1>2 DEF IInv, FreshOK, RequestsOK, Start
  <1>. QED
    BY <1>1, <1>4, <1>5, <1>6 DEF IInv

LEMMA EffectType ==
  ASSUME IInv, NEW what, Effect(what), Building \in Caches \/ what # "flush"
  PROVE  /\ memory' = memory
         /\ redis' \in [Caches -> {0, 1, None}]
         /\ \A c \in Caches : redis'[c] = redis[c] \/ (c = Building /\ redis'[c] = None)
         /\ what = "flush" => redis'[Building] = None
         /\ db' \in {0, 1}
         /\ since \subseteq since'
         /\ db' = db \/ db' \in since'
  <1>1. CASE what = "flush"
    BY <1>1 DEF IInv, TypeInv, Effect
  <1>2. CASE what = "seed"
    BY <1>2 DEF IInv, TypeInv, Effect
  <1>3. CASE what # "flush" /\ what # "seed"
    BY <1>3 DEF IInv, TypeInv, Effect, data
  <1>. QED
    BY <1>1, <1>2, <1>3

LEMMA BuildStepStep ==
  ASSUME IInv, BuildStep
  PROVE  IInv'
  <1>. DEFINE steps == BuildSteps(Building)
  <1>1. /\ next \in 1 .. 4
        /\ Building \in {UserCache, Main, ArticleCache, API}
        /\ Building = API <=> next = 4
    BY BuildingIs DEF IInv, BuildStep
  <1>2. step \in DOMAIN steps
    BY <1>1 DEF IInv, OpenOK, BuildStep
  <1>3. /\ Effect(steps[step])
        /\ UNCHANGED <<app, phase, left, limit, req>>
        /\ open' = open \union {Building}
        /\ phase = "starting"
    BY DEF BuildStep
  <1>4. Building \in Caches \/ steps[step] # "flush"
    BY <1>1, <1>2, Steps, Names
  <1>5. \/ step = Len(steps) /\ next' = next + 1 /\ step' = 1
        \/ step # Len(steps) /\ next' = next /\ step' = step + 1
    BY DEF BuildStep
  <1>6. Building \in Caches /\ step = Len(steps) => steps[step] = "flush"
    BY Steps
  <1>7. /\ memory' = memory
        /\ redis' \in [Caches -> {0, 1, None}]
        /\ \A c \in Caches : redis'[c] = redis[c] \/ (c = Building /\ redis'[c] = None)
        /\ steps[step] = "flush" => redis'[Building] = None
        /\ db' \in {0, 1}
        /\ since \subseteq since'
        /\ db' = db \/ db' \in since'
    BY <1>3, <1>4, EffectType
  <1>8. step' \in DOMAIN steps
    <2>1. DOMAIN steps = 1 .. Len(steps) /\ Len(steps) \in 1 .. 4
      BY <1>1, Steps, Names
    <2>. HIDE DEF steps
    <2>. QED
      BY <1>2, <1>5, <2>1
  <1>9. TypeInv'
    <2>1. step' \in 1 .. 4
      BY <1>1, <1>8, Steps, Names
    <2>. QED
      BY <1>1, <1>3, <1>5, <1>7, <2>1 DEF IInv, TypeInv
  <1>10. /\ next' = next => Built' = Built /\ Building' = Building
         /\ next' = next + 1 => Built' = Built \union {Building}
    BY BuildingIs DEF IInv, BuildStep
  <1>11. open \union {Building} = Built \union {Building}
    BY <1>3 DEF IInv, OpenOK
  <1>12. OpenOK'
    <2>1. CASE step = Len(steps) /\ next' = next + 1 /\ step' = 1
      <3>1. next' # 5 => 1 \in DOMAIN BuildSteps(Building)'
        <4>1. next' = 2 => Building' = Main
          BY Order DEF Building
        <4>2. next' = 3 => Building' = ArticleCache
          BY Order DEF Building
        <4>3. next' = 4 => Building' = API
          BY Order DEF Building
        <4>. QED
          BY <1>1, <2>1, <4>1, <4>2, <4>3, Steps, Names
      <3>. QED
        BY <1>1, <1>3, <1>10, <1>11, <2>1, <3>1 DEF OpenOK
    <2>2. CASE step # Len(steps) /\ next' = next /\ step' = step + 1
      <3>1. step' > 1
        BY <2>2 DEF IInv, TypeInv
      <3>2. BuildSteps(Building)' = steps /\ next' # 5
        BY <1>1, <1>10, <2>2
      <3>. QED
        BY <1>3, <1>8, <1>10, <1>11, <2>2, <3>1, <3>2 DEF OpenOK
    <2>. QED
      BY <1>5, <2>1, <2>2
  <1>13. RequestsOK'
    BY <1>1, <1>3 DEF IInv, RequestsOK, EarlyOK, InTime, Running
  <1>14. FreshOK'
    <2>1. \A c \in Caches : c \in Built' => redis'[c] \in since' \union {None}
      <3> SUFFICES ASSUME NEW c \in Caches, c \in Built'
                   PROVE  redis'[c] \in since' \union {None}
        OBVIOUS
      <3>1. CASE c \in Built
        BY <1>3, <1>7, <3>1 DEF IInv, FreshOK
      <3>2. CASE c \notin Built
        <4>1. c = Building /\ step = Len(steps)
          BY <1>5, <1>10, <3>2
        <4>. QED
          BY <1>6, <1>7, <4>1
      <3>. QED
        BY <3>1, <3>2
    <2>2. \A c \in Caches : memory[c] = None
      BY <1>1 DEF IInv, FreshOK
    <2>. QED
      BY <1>3, <1>7, <2>1, <2>2 DEF IInv, FreshOK, Running
  <1>. QED
    BY <1>9, <1>12, <1>13, <1>14 DEF IInv

LEMMA ServeStep ==
  ASSUME IInv, Serve
  PROVE  IInv'
  <1>1. next = 5
    BY Order DEF IInv, TypeInv, Serve
  <1>2. Built' = Built /\ Building' = Building
    BY DEF Serve, Built, Building
  <1>3. TypeInv'
    BY DEF IInv, TypeInv, Serve, data
  <1>7. phase = "starting" /\ phase' = "serving" /\ open' = open /\ next' = next
    BY DEF Serve
  <1>8. open = Built
    BY <1>1, <1>7 DEF IInv, OpenOK
  <1>4. OpenOK'
    BY <1>1, <1>2, <1>7, <1>8 DEF OpenOK
  <1>5. RequestsOK'
    BY DEF IInv, RequestsOK, EarlyOK, InTime, Serve, Running
  <1>6. FreshOK'
    BY <1>2 DEF IInv, FreshOK, Serve, data, Running
  <1>. QED
    BY <1>3, <1>4, <1>5, <1>6 DEF IInv

LEMMA BuildFailsStep ==
  ASSUME IInv, BuildFails
  PROVE  IInv'
  <1>1. next \in 1 .. 4 /\ Building \notin Built /\ (Building = API <=> next = 4)
    BY BuildingIs DEF IInv, BuildFails
  <1>2. /\ phase = "starting" /\ open' = open \ {Building}
        /\ app' = app /\ next' = next /\ step' = step /\ limit' = limit /\ req' = req
        /\ memory' = memory /\ redis' = redis /\ db' = db /\ since' = since
        /\ \/ app.releases /\ phase' = "closing" /\ left' = Built
           \/ ~app.releases /\ phase' = "down" /\ left' = {}
    BY DEF BuildFails, data
  <1>3. app' = Recommendation => phase' = "closing"
    BY <1>2, Apps
  <1>4. TypeInv'
    BY <1>2 DEF IInv, TypeInv
  <1>5. open' = Built
    BY <1>1, <1>2 DEF IInv, OpenOK
  <1>6. API \notin Built
    <2>1. Built = {BuildOrder[j] : j \in 1 .. next - 1}
      BY DEF Built
    <2>3. next = 1 \/ next = 2 \/ next = 3 \/ next = 4
      BY <1>1
    <2>2. \/ Built = {} \/ Built = {UserCache} \/ Built = {UserCache, Main}
          \/ Built = {UserCache, Main, ArticleCache}
      BY <2>1, <2>3, BuiltAt
    <2>. QED
      BY <2>2, Names
  <1>7. OpenOK'
    BY <1>2, <1>3, <1>5, <1>6 DEF OpenOK
  <1>12. next # 5
    BY <1>1
  <1>8. \A r \in Requests : req[r].pc = "none"
    BY <1>12 DEF IInv, RequestsOK
  <1>13. \A r \in Requests : ~Running(r)'
    BY <1>2, <1>8 DEF Running
  <1>9. RequestsOK'
    BY <1>2, <1>8, <1>13 DEF RequestsOK
  <1>10. Built' = Built
    BY <1>2 DEF Built
  <1>11. FreshOK'
    BY <1>1, <1>2, <1>8, <1>10 DEF IInv, FreshOK
  <1>. QED
    BY <1>4, <1>7, <1>9, <1>11 DEF IInv

-----------------------------------------------------------------------------
(***************************************************************************)
(* The end.                                                                *)
(***************************************************************************)
\* All four places are built when the service serves.
LEMMA AllBuilt ==
  ASSUME next = 5
  PROVE  Built = Stores \union {API}
  <1>1. Built = {UserCache, Main, ArticleCache, API}
    BY BuiltAt DEF Built
  <1>. QED
    BY <1>1, Names

LEMMA SignalStep ==
  ASSUME IInv, Signal
  PROVE  IInv'
  <1>1. /\ phase = "serving" /\ phase' = "draining" /\ limit' = 3
        /\ open' = open \ {API} /\ left' = Built
        /\ app' = app /\ next' = next /\ step' = step /\ req' = req
        /\ memory' = memory /\ redis' = redis /\ db' = db /\ since' = since
    BY DEF Signal, data, ShutdownLimit
  <1>2. TypeInv'
    BY <1>1 DEF IInv, TypeInv
  <1>3. Built' = Built
    BY <1>1 DEF Built
  <1>4. next = 5 /\ open = Built
    BY <1>1 DEF IInv, OpenOK
  <1>5. OpenOK'
    BY <1>1, <1>3, <1>4, AllBuilt, Names DEF OpenOK
  <1>6. RequestsOK'
    BY <1>1, <1>4 DEF IInv, TypeInv, RequestsOK, EarlyOK, InTime, Running, Within, ShutdownLimit
  <1>7. FreshOK'
    BY <1>1, <1>3 DEF IInv, FreshOK, Running
  <1>. QED
    BY <1>2, <1>5, <1>6, <1>7 DEF IInv

\* Shutdown is over: no request that was running before it is running now.
LEMMA DrainedStep ==
  ASSUME IInv, Drained
  PROVE  IInv'
  <1>1. /\ phase = "draining" /\ phase' = "closing" /\ limit' = -1
        /\ left' = left \ {API} /\ open' = open
        /\ app' = app /\ next' = next /\ step' = step /\ req' = req
        /\ memory' = memory /\ redis' = redis /\ db' = db /\ since' = since
        /\ limit = 0 \/ \A r \in Requests : ~Active(r)
    BY DEF Drained, data, Never
  <1>2. TypeInv'
    BY <1>1 DEF IInv, TypeInv
  <1>3. Built' = Built
    BY <1>1 DEF Built
  <1>4. next = 5 /\ open = Stores /\ left = Built
    BY <1>1 DEF IInv, OpenOK
  <1>5. OpenOK'
    BY <1>1, <1>4, AllBuilt, Names DEF OpenOK
  <1>6. \A r \in Requests :
          ~(Within /\ Running(r) /\ req[r].early /\ InTime(r) /\ app = Recommendation)
    <2>1. CASE limit = 0
      BY <1>1, <2>1, TimeoutAssumption DEF IInv, RequestsOK, EarlyOK
    <2>2. CASE \A r \in Requests : ~Active(r)
      BY <2>2 DEF Active, Running
    <2>. QED
      BY <1>1, <2>1, <2>2
  <1>7. RequestsOK'
    BY <1>1, <1>6 DEF IInv, RequestsOK, InTime, Running
  <1>8. FreshOK'
    BY <1>1, <1>3 DEF IInv, FreshOK, Running
  <1>. QED
    BY <1>2, <1>5, <1>7, <1>8 DEF IInv

LEMMA CloseNextStep ==
  ASSUME IInv, NEW x \in Stores, CloseNext(x)
  PROVE  IInv'
  <1>1. /\ phase = "closing" /\ phase' = "closing"
        /\ open' = open \ {x} /\ left' = left \ {x} /\ limit' = limit
        /\ app' = app /\ next' = next /\ step' = step /\ req' = req
        /\ memory' = memory /\ redis' = redis /\ db' = db /\ since' = since
    BY DEF CloseNext, Closing, data
  <1>2. TypeInv'
    BY <1>1 DEF IInv, TypeInv
  <1>3. Built' = Built
    BY <1>1 DEF Built
  <1>4. OpenOK'
    BY <1>1 DEF IInv, OpenOK
  <1>5. RequestsOK'
    BY <1>1 DEF IInv, RequestsOK, EarlyOK, InTime, Running
  <1>6. FreshOK'
    BY <1>1, <1>3 DEF IInv, FreshOK, Running
  <1>. QED
    BY <1>2, <1>4, <1>5, <1>6 DEF IInv

\* However the process ends, with what it still had open.
LEMMA GoneStep ==
  ASSUME IInv, Gone, API \notin open', app = Recommendation => open' = {}
  PROVE  IInv'
  <1>1. NoRequest \in RequestType
    BY DEF NoRequest, RequestType, Never
  <1>2. TypeInv'
    BY <1>1 DEF IInv, TypeInv, Gone, Never
  <1>3. OpenOK'
    BY DEF Gone, OpenOK
  <1>4. RequestsOK'
    BY DEF Gone, RequestsOK, Running, NoRequest
  <1>5. FreshOK'
    BY DEF Gone, FreshOK, Holding, NoRequest
  <1>. QED
    BY <1>2, <1>3, <1>4, <1>5 DEF IInv

LEMMA ExitStep ==
  ASSUME IInv, Exit
  PROVE  IInv'
  BY GoneStep DEF Exit, IInv, OpenOK

LEMMA CrashStep ==
  ASSUME IInv, Crash
  PROVE  IInv'
  BY GoneStep DEF Crash

-----------------------------------------------------------------------------
(***************************************************************************)
(* Requests.                                                               *)
(***************************************************************************)
\* A request runs on, with the time that it had.
SameTime(r) ==
  /\ req'[r].pc \in {"running", "done"} /\ req'[r].i >= req[r].i
  /\ req[r].pc = "running" \/ req'[r].pc = "done"
  /\ req'[r].timer = req[r].timer /\ req'[r].early = req[r].early

\* A step of one request: it changes itself and what the caches keep.
LEMMA RequestKeeps ==
  ASSUME IInv, NEW r \in Requests,
         UNCHANGED <<app, process, db, since>>,
         phase # "down", next = 5,
         req' \in [Requests -> RequestType],
         \A s \in Requests \ {r} : req'[s] = req[s],
         Within /\ Running(r)' /\ req'[r].early /\ InTime(r)' /\ app = Recommendation =>
           EarlyOK(r)',
         req'[r].place \in Holding => req'[r].pc # "none" /\ req'[r].row \in since,
         memory' \in [Caches -> {0, 1, None}],
         redis' \in [Caches -> {0, 1, None}],
         \A c \in Caches : memory'[c] \in {memory[c], None} \union since,
         \A c \in Caches : redis'[c] \in {redis[c], None} \union since
  PROVE  IInv'
  <1>1. /\ app' = app /\ phase' = phase /\ next' = next /\ step' = step /\ open' = open
        /\ left' = left /\ limit' = limit /\ db' = db /\ since' = since
    BY DEF process
  <1>2. TypeInv'
    BY <1>1 DEF IInv, TypeInv
  <1>3. Built' = Built /\ Building' = Building
    BY <1>1 DEF Built, Building
  <1>4. OpenOK'
    BY <1>1, <1>3 DEF IInv, OpenOK
  <1>5. \A s \in Requests \ {r} :
          /\ Running(s)' <=> Running(s)
          /\ InTime(s)' <=> InTime(s)
          /\ EarlyOK(s)' <=> EarlyOK(s)
    BY <1>1 DEF Running, InTime, EarlyOK
  <1>6. RequestsOK'
    <2> SUFFICES ASSUME NEW s \in Requests
                 PROVE  /\ req'[s].pc # "none" => phase' # "down" /\ next' = 5
                        /\ (/\ Within /\ Running(s)' /\ req'[s].early /\ InTime(s)'
                            /\ app' = Recommendation) => EarlyOK(s)'
      BY DEF RequestsOK, Within
    <2>1. CASE s = r
      BY <1>1, <2>1
    <2>2. CASE s # r
      BY <1>1, <1>5, <2>2 DEF IInv, RequestsOK
    <2>. QED
      BY <2>1, <2>2
  <1>7. FreshOK'
    <2>1. \A c \in Caches : c \in Built' => redis'[c] \in since' \union {None}
      BY <1>1, <1>3 DEF IInv, FreshOK
    <2>2. \A c \in Caches : memory'[c] # None => memory'[c] \in since'
      BY <1>1 DEF IInv, FreshOK
    <2>3. \A s \in Requests : req'[s].place \in Holding =>
            req'[s].pc # "none" /\ req'[s].row \in since'
      BY <1>1, <1>5 DEF IInv, FreshOK
    <2>. QED
      BY <1>1, <2>1, <2>2, <2>3 DEF IInv, FreshOK, Holding
  <1>. QED
    BY <1>2, <1>4, <1>6, <1>7 DEF IInv

\* A request whose connection was accepted has a whole service around it.
LEMMA Served ==
  ASSUME IInv, NEW r \in Requests, req[r].pc # "none"
  PROVE  phase # "down" /\ next = 5
  BY DEF IInv, RequestsOK

LEMMA RequestTyped ==
  ASSUME TypeInv, NEW r \in Requests
  PROVE  /\ req[r] \in RequestType
         /\ req[r].pc \in {"none", "accepted", "running", "done"}
         /\ req[r].i \in Nat \ {0}
         /\ req[r].place \in {"get", "redis", "row", "fill", "keep"}
         /\ req[r].row \in {0, 1, None}
         /\ req[r].timer \in Int
         /\ req[r].early \in BOOLEAN
  <1>1. req[r] \in RequestType
    BY DEF TypeInv
  <1>. QED
    BY <1>1 DEF RequestType

\* A request goes on with the time that it had.
LEMMA RunsOn ==
  ASSUME IInv, NEW r \in Requests, Running(r),
         app' = app, phase' = phase, limit' = limit,
         req'[r].timer = req[r].timer,
         req'[r].early = req[r].early
  PROVE  Within /\ req'[r].early /\ InTime(r)' /\ app = Recommendation => EarlyOK(r)'
  BY DEF IInv, RequestsOK, EarlyOK, InTime

LEMMA AcceptStep ==
  ASSUME IInv, NEW r \in Requests, Accept(r)
  PROVE  IInv'
  <1>. DEFINE q == [req[r] EXCEPT !.pc = "accepted"]
  <1>1. UNCHANGED <<app, process, db, since>> /\ memory' = memory /\ redis' = redis
    BY DEF Accept, data
  <1>2. phase # "down" /\ next = 5
    <2>1. API \in open
      BY DEF Accept
    <2>2. phase \in {"starting", "serving"}
      BY <2>1, Names DEF IInv, TypeInv, OpenOK
    <2>3. CASE phase = "starting" /\ next # 5
      <3>1. next \in 1 .. 4 /\ (Building = API <=> next = 4)
        BY <2>3, BuildingIs, Order DEF IInv, TypeInv
      <3>2. API \notin Built
        <4>1. next = 1 \/ next = 2 \/ next = 3 \/ next = 4
          BY <3>1
        <4>2. \/ Built = {} \/ Built = {UserCache} \/ Built = {UserCache, Main}
              \/ Built = {UserCache, Main, ArticleCache}
          BY <4>1, BuiltAt DEF Built
        <4>. QED
          BY <4>2, Names
      <3>3. step > 1 /\ Building = API
        BY <2>1, <2>3, <3>2 DEF IInv, TypeInv, OpenOK
      <3>4. step \in DOMAIN BuildSteps(Building)
        BY <2>3 DEF IInv, OpenOK
      <3>. QED
        BY <3>3, <3>4, Steps
    <2>. QED
      BY <2>2, <2>3 DEF IInv, OpenOK
  <1>3. q \in RequestType
    BY RequestTyped DEF IInv, RequestType
  <1>4. req' = [req EXCEPT ![r] = q]
    BY DEF Accept
  <1>5. q.pc = "accepted" /\ q.place = req[r].place /\ q.row = req[r].row
    BY RequestTyped DEF IInv, RequestType
  <1>. HIDE DEF q
  <1>6. req' \in [Requests -> RequestType] /\ req'[r] = q
    BY <1>3, <1>4 DEF IInv, TypeInv
  <1>7. \A s \in Requests \ {r} : req'[s] = req[s]
    BY <1>4 DEF IInv, TypeInv
  <1>8. ~Running(r)'
    BY <1>5, <1>6 DEF Running
  <1>9. memory' \in [Caches -> {0, 1, None}] /\ redis' \in [Caches -> {0, 1, None}]
    BY <1>1 DEF IInv, TypeInv
  <1>10. q.place \in Holding => q.pc # "none" /\ q.row \in since
    BY <1>5 DEF IInv, FreshOK
  <1>. QED
    BY <1>1, <1>2, <1>6, <1>7, <1>8, <1>9, <1>10, RequestKeeps

LEMMA DoneStep ==
  ASSUME IInv, NEW r \in Requests, Done(r), req[r].pc # "none"
  PROVE  IInv'
  <1>. DEFINE q == [NoRequest EXCEPT !.pc = "done"]
  <1>1. UNCHANGED <<app, process, db, since>> /\ memory' = memory /\ redis' = redis
    BY DEF Done, data
  <1>2. phase # "down" /\ next = 5
    BY Served
  <1>3. q \in RequestType /\ q.pc = "done" /\ q.place \notin Holding
    <2>1. NoRequest \in RequestType /\ NoRequest.place = "get"
      BY DEF NoRequest, RequestType, Never
    <2>. QED
      BY <2>1 DEF RequestType, Holding
  <1>4. req' = [req EXCEPT ![r] = q]
    BY DEF Done
  <1>. HIDE DEF q
  <1>6. req' \in [Requests -> RequestType] /\ req'[r] = q
    BY <1>3, <1>4 DEF IInv, TypeInv
  <1>7. \A s \in Requests \ {r} : req'[s] = req[s]
    BY <1>4 DEF IInv, TypeInv
  <1>8. ~Running(r)'
    BY <1>3, <1>6 DEF Running
  <1>9. memory' \in [Caches -> {0, 1, None}] /\ redis' \in [Caches -> {0, 1, None}]
    BY <1>1 DEF IInv, TypeInv
  <1>. QED
    BY <1>1, <1>2, <1>3, <1>6, <1>7, <1>8, <1>9, RequestKeeps

\* The handler of a request that came before the signal starts with a deadline
\* within the limit of Shutdown; one that starts later is not counted.
LEMMA HandleStep ==
  ASSUME IInv, NEW r \in Requests, Handle(r)
  PROVE  IInv'
  <1>. DEFINE q == [req[r] EXCEPT !.pc = "running", !.timer = app.deadline,
                                  !.early = API \in open]
  <1>1. UNCHANGED <<app, process, db, since>> /\ memory' = memory /\ redis' = redis
    BY DEF Handle, data
  <1>2. phase # "down" /\ next = 5
    BY Served DEF Handle
  <1>3. q \in RequestType
    <2>1. app.deadline \in Int
      BY Apps DEF IInv, TypeInv
    <2>2. req[r] \in RequestType
      BY RequestTyped DEF IInv
    <2>3. (API \in open) \in BOOLEAN
      OBVIOUS
    <2>. QED
      BY <2>1, <2>2, <2>3 DEF RequestType
  <1>4. req' = [req EXCEPT ![r] = q]
    BY DEF Handle
  <1>5. /\ q.pc = "running"
        /\ q.early <=> API \in open
        /\ q.timer = app.deadline /\ q.place = req[r].place /\ q.row = req[r].row
    BY RequestTyped DEF IInv, RequestType
  <1>. HIDE DEF q
  <1>6. req' \in [Requests -> RequestType] /\ req'[r] = q
    BY <1>3, <1>4 DEF IInv, TypeInv
  <1>7. \A s \in Requests \ {r} : req'[s] = req[s]
    BY <1>4 DEF IInv, TypeInv
  <1>9. memory' \in [Caches -> {0, 1, None}] /\ redis' \in [Caches -> {0, 1, None}]
    BY <1>1 DEF IInv, TypeInv
  <1>10. Within /\ q.early /\ app = Recommendation =>
           phase \in {"starting", "serving"} /\ q.timer \in 1 .. Timeout
    <2>1. API \notin Stores
      BY Names
    <2>2. API \in open => phase \in {"starting", "serving"}
      BY <1>2, <2>1 DEF IInv, TypeInv, OpenOK
    <2>3. Within => Deadline = Timeout /\ Timeout \in 1 .. Timeout
      BY TimeoutAssumption DEF Within, ShutdownLimit, Deadline
    <2>. QED
      BY <1>5, <2>2, <2>3, Apps
  <1>11. q.place \in Holding => q.pc # "none" /\ q.row \in since
    BY <1>5 DEF IInv, FreshOK
  <1>12. phase' = phase
    BY <1>1 DEF process
  <1>13. Within /\ Running(r)' /\ req'[r].early /\ InTime(r)' /\ app = Recommendation => EarlyOK(r)'
    BY <1>6, <1>10, <1>12 DEF EarlyOK
  <1>. QED
    BY <1>1, <1>2, <1>6, <1>7, <1>9, <1>11, <1>13, RequestKeeps

\* A step of a running request that leads to q and leaves the caches alone, or
\* puts in them what is fresh.
LEMMA ReadStep ==
  ASSUME IInv, NEW r \in Requests, Running(r),
         UNCHANGED <<app, process, db, since>>,
         NEW q \in RequestType, req' = [req EXCEPT ![r] = q],
         q.timer = req[r].timer, q.early = req[r].early,
         q.place \in Holding => q.pc # "none" /\ q.row \in since,
         memory' \in [Caches -> {0, 1, None}],
         redis' \in [Caches -> {0, 1, None}],
         \A c \in Caches : memory'[c] \in {memory[c], None} \union since,
         \A c \in Caches : redis'[c] \in {redis[c], None} \union since
  PROVE  IInv'
  <1>1. phase # "down" /\ next = 5
    BY Served DEF Running
  <1>2. req' \in [Requests -> RequestType] /\ req'[r] = q
    BY DEF IInv, TypeInv
  <1>3. \A s \in Requests \ {r} : req'[s] = req[s]
    BY DEF IInv, TypeInv
  <1>4. phase' = phase /\ limit' = limit
    BY DEF process
  <1>5. Within /\ Running(r)' /\ req'[r].early /\ InTime(r)' /\ app = Recommendation => EarlyOK(r)'
    BY <1>2, <1>4, RunsOn
  <1>. QED
    BY <1>1, <1>2, <1>3, <1>5, RequestKeeps

\* Advance(r), as a record.
LEMMA AdvanceIs ==
  ASSUME TypeInv, NEW r \in Requests
  PROVE  \E q \in RequestType :
           /\ Advance(r) = [req EXCEPT ![r] = q]
           /\ q.timer = req[r].timer /\ q.early = req[r].early
           /\ q.place \notin Holding
  <1>. DEFINE q == [req[r] EXCEPT !.i = req[r].i + 1, !.place = "get", !.row = None]
  <1>1. req[r] \in RequestType /\ req[r].i \in Nat /\ req[r].i + 1 \in Nat \ {0}
    BY RequestTyped
  <1>2. q \in RequestType
    BY <1>1 DEF RequestType
  <1>3. /\ q.timer = req[r].timer /\ q.early = req[r].early
        /\ q.place \notin Holding
    BY <1>1 DEF RequestType, Holding
  <1>4. Advance(r) = [req EXCEPT ![r] = q]
    BY DEF Advance
  <1>. HIDE DEF q
  <1>. QED
    BY <1>2, <1>3, <1>4

LEMMA InMemoryStep ==
  ASSUME IInv, NEW r \in Requests, InMemory(r)
  PROVE  IInv'
  <1>1. UNCHANGED <<app, process, db, since>> /\ memory' = memory /\ redis' = redis
    BY DEF InMemory, data
  <1>2. Running(r) /\ req' = Advance(r)
    BY DEF InMemory, At
  <1>3. PICK q \in RequestType :
          /\ Advance(r) = [req EXCEPT ![r] = q]
          /\ q.timer = req[r].timer /\ q.early = req[r].early
          /\ q.place \notin Holding
    BY AdvanceIs DEF IInv
  <1>4. memory' \in [Caches -> {0, 1, None}] /\ redis' \in [Caches -> {0, 1, None}]
    BY <1>1 DEF IInv, TypeInv
  <1>. QED
    BY <1>1, <1>2, <1>3, <1>4, ReadStep

\* A step that takes a request to where it holds no row: to Redis, to the pool.
LEMMA AsksStep ==
  ASSUME IInv, NEW r \in Requests, Running(r), NEW place \in {"redis", "row"},
         req' = [req EXCEPT ![r].place = place],
         UNCHANGED <<app, process, data>>
  PROVE  IInv'
  <1>. DEFINE q == [req[r] EXCEPT !.place = place]
  <1>1. UNCHANGED <<app, process, db, since>> /\ memory' = memory /\ redis' = redis
    BY DEF data
  <1>2. req' = [req EXCEPT ![r] = q]
    OBVIOUS
  <1>3. req[r] \in RequestType
    BY RequestTyped DEF IInv
  <1>4. q \in RequestType
    BY <1>3 DEF RequestType
  <1>5. q.timer = req[r].timer /\ q.early = req[r].early /\ q.place \notin Holding
    BY <1>3 DEF RequestType, Holding
  <1>6. memory' \in [Caches -> {0, 1, None}] /\ redis' \in [Caches -> {0, 1, None}]
    BY <1>1 DEF IInv, TypeInv
  <1>. HIDE DEF q
  <1>. QED
    BY <1>1, <1>2, <1>4, <1>5, <1>6, ReadStep

\* A step that gives a request a row, fresh if it is one.
LEMMA TakesStep ==
  ASSUME IInv, NEW r \in Requests, Running(r), NEW place \in Holding,
         NEW row \in {0, 1}, row \in since,
         req' = [req EXCEPT ![r].place = place, ![r].row = row],
         UNCHANGED <<app, process, data>>
  PROVE  IInv'
  <1>. DEFINE q == [req[r] EXCEPT !.place = place, !.row = row]
  <1>1. UNCHANGED <<app, process, db, since>> /\ memory' = memory /\ redis' = redis
    BY DEF data
  <1>2. req' = [req EXCEPT ![r] = q]
    OBVIOUS
  <1>3. req[r] \in RequestType
    BY RequestTyped DEF IInv
  <1>4. q \in RequestType
    BY <1>3 DEF RequestType, Holding
  <1>5. /\ q.timer = req[r].timer /\ q.early = req[r].early
        /\ q.row = row /\ q.pc = "running"
    BY <1>3 DEF RequestType, Running
  <1>6. memory' \in [Caches -> {0, 1, None}] /\ redis' \in [Caches -> {0, 1, None}]
    BY <1>1 DEF IInv, TypeInv
  <1>. HIDE DEF q
  <1>. QED
    BY <1>1, <1>2, <1>4, <1>5, <1>6, ReadStep

LEMMA AskRedisStep ==
  ASSUME IInv, NEW r \in Requests, AskRedis(r)
  PROVE  IInv'
  BY AsksStep DEF AskRedis, At

\* Redis was flushed when its client was built, so what it has is fresh.
LEMMA InRedisStep ==
  ASSUME IInv, NEW r \in Requests, InRedis(r)
  PROVE  IInv'
  <1>1. /\ Running(r) /\ UNCHANGED <<app, process, data>>
        /\ Store(r) \in Caches /\ redis[Store(r)] # None
    BY DEF InRedis, At
  <1>2. phase # "down" /\ next = 5
    BY <1>1, Served DEF Running
  <1>3. Store(r) \in Built
    BY <1>1, <1>2, AllBuilt DEF Stores
  <1>4. redis[Store(r)] \in since /\ redis[Store(r)] \in {0, 1}
    BY <1>1, <1>2, <1>3 DEF IInv, TypeInv, FreshOK
  <1>5. req' = [req EXCEPT ![r].place = "keep", ![r].row = redis[Store(r)]]
    BY DEF InRedis
  <1>6. "keep" \in Holding
    BY DEF Holding
  <1>. QED
    BY <1>1, <1>4, <1>5, <1>6, TakesStep

LEMMA MissStep ==
  ASSUME IInv, NEW r \in Requests, Miss(r)
  PROVE  IInv'
  BY AsksStep DEF Miss

LEMMA ReadRowStep ==
  ASSUME IInv, NEW r \in Requests, ReadRow(r)
  PROVE  IInv'
  <1>1. UNCHANGED <<app, process, data>>
    BY DEF ReadRow
  <1>2. Running(r)
    BY DEF ReadRow, At
  <1>3. memory' \in [Caches -> {0, 1, None}] /\ redis' \in [Caches -> {0, 1, None}]
    BY <1>1 DEF IInv, TypeInv, data
  <1>4. CASE req' = Advance(r)
    <2>1. PICK q \in RequestType :
            /\ Advance(r) = [req EXCEPT ![r] = q]
            /\ q.timer = req[r].timer /\ q.early = req[r].early
            /\ q.place \notin Holding
      BY AdvanceIs DEF IInv
    <2>2. UNCHANGED <<app, process, db, since>> /\ memory' = memory /\ redis' = redis
      BY <1>1 DEF data
    <2>. QED
      BY <1>2, <1>3, <1>4, <2>1, <2>2, ReadStep
  <1>5. CASE req' = [req EXCEPT ![r].place = "fill", ![r].row = db]
    <2>1. db \in {0, 1} /\ db \in since
      BY <1>2, Served DEF Running, IInv, TypeInv, FreshOK
    <2>2. "fill" \in Holding
      BY DEF Holding
    <2>. QED
      BY <1>1, <1>2, <1>5, <2>1, <2>2, TakesStep
  <1>. QED
    BY <1>4, <1>5 DEF ReadRow

\* What a layer keeps was read in the process's time.
LEMMA KeptIs ==
  ASSUME IInv, NEW r \in Requests, req[r].place \in Holding,
         NEW f \in [Caches -> {0, 1, None}]
  PROVE  /\ Kept(f, r) \in [Caches -> {0, 1, None}]
         /\ \A c \in Caches : Kept(f, r)[c] \in {f[c], None} \union since
  <1>1. req[r].row \in since /\ req[r].row \in {0, 1, None}
    BY RequestTyped DEF IInv, FreshOK
  <1>. QED
    BY <1>1 DEF Kept

LEMMA FillRedisStep ==
  ASSUME IInv, NEW r \in Requests, FillRedis(r)
  PROVE  IInv'
  <1>. DEFINE q == [req[r] EXCEPT !.place = "keep"]
  <1>1. UNCHANGED <<app, process, db, since>> /\ memory' = memory /\ redis' = Kept(redis, r)
    BY DEF FillRedis
  <1>2. Running(r) /\ req' = [req EXCEPT ![r] = q]
    BY DEF FillRedis, At
  <1>3. req[r].place \in Holding
    BY DEF FillRedis, At, Holding
  <1>4. req[r] \in RequestType
    BY RequestTyped DEF IInv
  <1>5. q \in RequestType
    BY <1>4 DEF RequestType
  <1>6. /\ q.timer = req[r].timer /\ q.early = req[r].early
        /\ q.row = req[r].row /\ q.pc = "running"
    BY <1>2, <1>4 DEF RequestType, Running
  <1>7. req[r].row \in since
    BY <1>3 DEF IInv, FreshOK
  <1>8. memory \in [Caches -> {0, 1, None}] /\ redis \in [Caches -> {0, 1, None}]
    BY DEF IInv, TypeInv
  <1>9. /\ redis' \in [Caches -> {0, 1, None}]
        /\ \A c \in Caches : redis'[c] \in {redis[c], None} \union since
    BY <1>1, <1>3, <1>8, KeptIs
  <1>. HIDE DEF q
  <1>. QED
    BY <1>1, <1>2, <1>5, <1>6, <1>7, <1>8, <1>9, ReadStep

LEMMA FillMemoryStep ==
  ASSUME IInv, NEW r \in Requests, FillMemory(r)
  PROVE  IInv'
  <1>1. UNCHANGED <<app, process, db, since>> /\ redis' = redis /\ memory' = Kept(memory, r)
    BY DEF FillMemory
  <1>2. Running(r) /\ req' = Advance(r) /\ req[r].place \in Holding
    BY DEF FillMemory, At, Holding
  <1>3. PICK q \in RequestType :
          /\ Advance(r) = [req EXCEPT ![r] = q]
          /\ q.timer = req[r].timer /\ q.early = req[r].early
          /\ q.place \notin Holding
    BY AdvanceIs DEF IInv
  <1>4. memory \in [Caches -> {0, 1, None}] /\ redis \in [Caches -> {0, 1, None}]
    BY DEF IInv, TypeInv
  <1>5. /\ memory' \in [Caches -> {0, 1, None}]
        /\ \A c \in Caches : memory'[c] \in {memory[c], None} \union since
    BY <1>1, <1>2, <1>4, KeptIs
  <1>. QED
    BY <1>1, <1>2, <1>3, <1>4, <1>5, ReadStep

LEMMA RequestStep ==
  ASSUME IInv, NEW r \in Requests, Request(r)
  PROVE  IInv'
  <1>1. CASE Accept(r)
    BY <1>1, AcceptStep
  <1>2. CASE Handle(r)
    BY <1>2, HandleStep
  <1>3. CASE InMemory(r)
    BY <1>3, InMemoryStep
  <1>4. CASE AskRedis(r) \/ InRedis(r)
    BY <1>4, AskRedisStep, InRedisStep
  <1>5. CASE Miss(r)
    BY <1>5, MissStep
  <1>6. CASE ReadRow(r)
    BY <1>6, ReadRowStep
  <1>7. CASE FillRedis(r) \/ FillMemory(r)
    BY <1>7, FillRedisStep, FillMemoryStep
  <1>8. CASE Respond(r) \/ Fail(r) \/ TimeOut(r)
    BY <1>8, DoneStep DEF Respond, Fail, TimeOut, At, Running
  <1>. QED
    BY <1>1, <1>2, <1>3, <1>4, <1>5, <1>6, <1>7, <1>8 DEF Request

-----------------------------------------------------------------------------
(***************************************************************************)
(* The world.                                                              *)
(***************************************************************************)
LEMMA ExpireStep ==
  ASSUME IInv, NEW c \in Caches, Expire(c)
  PROVE  IInv'
  <1>1. /\ app' = app /\ phase' = phase /\ next' = next /\ step' = step /\ open' = open
        /\ left' = left /\ limit' = limit /\ req' = req /\ db' = db /\ since' = since
    BY DEF Expire, process
  <1>2. /\ memory' = memory \/ memory' = [memory EXCEPT ![c] = None]
        /\ redis' = redis \/ redis' = [redis EXCEPT ![c] = None]
    BY DEF Expire
  <1>3. TypeInv'
    BY <1>1, <1>2 DEF IInv, TypeInv
  <1>4. Built' = Built /\ Building' = Building
    BY <1>1 DEF Built, Building
  <1>5. OpenOK'
    BY <1>1, <1>4 DEF IInv, OpenOK
  <1>6. RequestsOK'
    BY <1>1 DEF IInv, RequestsOK, EarlyOK, InTime, Running
  <1>7. FreshOK'
    <2>1. \A d \in Caches : memory'[d] \in {memory[d], None} /\ redis'[d] \in {redis[d], None}
      BY <1>2 DEF IInv, TypeInv
    <2>. QED
      BY <1>1, <1>4, <2>1 DEF IInv, FreshOK
  <1>. QED
    BY <1>3, <1>5, <1>6, <1>7 DEF IInv

LEMMA EditStep ==
  ASSUME IInv, Edit
  PROVE  IInv'
  <1>1. /\ app' = app /\ phase' = phase /\ next' = next /\ step' = step /\ open' = open
        /\ left' = left /\ limit' = limit /\ req' = req /\ memory' = memory
        /\ redis' = redis /\ db' = 1 - db /\ since' = since \union {db'}
    BY DEF Edit, process
  <1>2. TypeInv'
    BY <1>1 DEF IInv, TypeInv
  <1>3. Built' = Built /\ Building' = Building
    BY <1>1 DEF Built, Building
  <1>4. OpenOK'
    BY <1>1, <1>3 DEF IInv, OpenOK
  <1>5. RequestsOK'
    BY <1>1 DEF IInv, RequestsOK, EarlyOK, InTime, Running
  <1>6. FreshOK'
    BY <1>1, <1>3 DEF IInv, FreshOK
  <1>. QED
    BY <1>2, <1>4, <1>5, <1>6 DEF IInv

\* A second less for Shutdown is a second less for every request.
LEMMA TickStep ==
  ASSUME IInv, Tick
  PROVE  IInv'
  <1>1. /\ app' = app /\ phase' = phase /\ next' = next /\ step' = step /\ open' = open
        /\ left' = left /\ memory' = memory /\ redis' = redis /\ db' = db /\ since' = since
        /\ limit' = Less(limit)
        /\ req' = [r \in Requests |-> [req[r] EXCEPT !.timer = Less(@)]]
    BY DEF Tick, data
  <1>2. \A n \in Int : Less(n) \in Int
    BY DEF Less
  <1>3. ASSUME NEW r \in Requests
        PROVE  /\ req'[r] \in RequestType
               /\ req'[r].timer = Less(req[r].timer)
               /\ req'[r].pc = req[r].pc /\ req'[r].i = req[r].i
               /\ req'[r].early = req[r].early
               /\ req'[r].place = req[r].place /\ req'[r].row = req[r].row
    <2>1. req[r] \in RequestType /\ Less(req[r].timer) \in Int
      BY <1>2, RequestTyped DEF IInv
    <2>2. req'[r] = [req[r] EXCEPT !.timer = Less(req[r].timer)]
      BY <1>1
    <2>. QED
      BY <2>1, <2>2 DEF RequestType
  <1>4. TypeInv'
    <2>1. req' \in [Requests -> RequestType]
      BY <1>1, <1>3
    <2>2. limit' \in Int
      BY <1>1, <1>2 DEF IInv, TypeInv
    <2>. QED
      BY <1>1, <2>1, <2>2 DEF IInv, TypeInv
  <1>5. Built' = Built /\ Building' = Building
    BY <1>1 DEF Built, Building
  <1>6. OpenOK'
    BY <1>1, <1>5 DEF IInv, OpenOK
  <1>7. RequestsOK'
    <2> SUFFICES ASSUME NEW r \in Requests
                 PROVE  /\ req'[r].pc # "none" => phase' # "down" /\ next' = 5
                        /\ (/\ Within /\ Running(r)' /\ req'[r].early /\ InTime(r)'
                            /\ app' = Recommendation) => EarlyOK(r)'
      BY DEF RequestsOK, Within
    <2>1. Running(r)' => Running(r)
      BY <1>1, <1>3 DEF Running
    <2>2. req[r].timer \in Int /\ limit \in Int
      BY RequestTyped DEF IInv, TypeInv
    <2>3. InTime(r)' => InTime(r)
      BY <1>3, <2>2 DEF InTime, Less
    <2>4. ASSUME EarlyOK(r), InTime(r)'
          PROVE  EarlyOK(r)'
      <3>1. req[r].timer \in 1 .. Timeout /\ req'[r].timer # 0
        BY <2>4 DEF EarlyOK, InTime
      <3>2. req'[r].timer = req[r].timer - 1 /\ req'[r].timer \in 1 .. Timeout
        BY <1>3, <3>1, TimeoutAssumption DEF Less
      <3>3. req[r].timer <= limit => req'[r].timer <= limit'
        BY <1>1, <2>2, <3>1, <3>2 DEF Less
      <3>. QED
        BY <1>1, <2>4, <3>2, <3>3 DEF EarlyOK
    <2>. QED
      BY <1>1, <1>3, <2>1, <2>3, <2>4 DEF IInv, RequestsOK
  <1>8. FreshOK'
    <2>1. \A r \in Requests : req'[r].place \in Holding =>
            req'[r].pc # "none" /\ req'[r].row \in since'
      BY <1>1, <1>3 DEF IInv, FreshOK
    <2>2. \A c \in Caches : c \in Built' => redis'[c] = redis[c] /\ c \in Built
      BY <1>1, <1>5
    <2>. QED
      BY <1>1, <2>1, <2>2 DEF IInv, FreshOK, Holding
  <1>. QED
    BY <1>4, <1>6, <1>7, <1>8 DEF IInv

LEMMA StutterStep ==
  ASSUME IInv, UNCHANGED vars
  PROVE  IInv'
  <1>1. /\ app' = app /\ phase' = phase /\ next' = next /\ step' = step /\ open' = open
        /\ left' = left /\ limit' = limit /\ req' = req /\ memory' = memory
        /\ redis' = redis /\ db' = db /\ since' = since
    BY DEF vars, process, data
  <1>2. TypeInv'
    BY <1>1 DEF IInv, TypeInv
  <1>3. Built' = Built /\ Building' = Building
    BY <1>1 DEF Built, Building
  <1>4. OpenOK'
    BY <1>1, <1>3 DEF IInv, OpenOK
  <1>5. RequestsOK'
    BY <1>1 DEF IInv, RequestsOK, EarlyOK, InTime, Running
  <1>6. FreshOK'
    BY <1>1, <1>3 DEF IInv, FreshOK
  <1>. QED
    BY <1>2, <1>4, <1>5, <1>6 DEF IInv

LEMMA Invariance == Spec => []IInv
  <1>1. IInv /\ [Next]_vars => IInv'
    <2> SUFFICES ASSUME IInv, [Next]_vars PROVE IInv'
      OBVIOUS
    <2>1. CASE Start \/ BuildStep \/ BuildFails \/ Serve
      BY <2>1, StartStep, BuildStepStep, BuildFailsStep, ServeStep
    <2>2. CASE Signal \/ Drained \/ (\E x \in Stores : CloseNext(x)) \/ Exit \/ Crash
      BY <2>2, SignalStep, DrainedStep, CloseNextStep, ExitStep, CrashStep
    <2>3. CASE \E r \in Requests : Request(r)
      BY <2>3, RequestStep
    <2>4. CASE (\E c \in Caches : Expire(c)) \/ Edit \/ Tick
      BY <2>4, ExpireStep, EditStep, TickStep
    <2>5. CASE UNCHANGED vars
      BY <2>5, StutterStep
    <2>. QED
      BY <2>1, <2>2, <2>3, <2>4, <2>5 DEF Next
  <1>. QED
    BY <1>1, InitInv, PTL DEF Spec

-----------------------------------------------------------------------------
(***************************************************************************)
(* The theorems.                                                           *)
(***************************************************************************)

\* A request of example 09 that ran before the signal has its stores open as long
\* as it has time, for any number of connections and any timeout of the pipeline
\* up to the limit of Shutdown: its time is over no later than Shutdown's.
THEOREM ShutdownWaitsForRunning ==
  ASSUME Timeout \in 1 .. ShutdownLimit
  PROVE  Spec => []RunningRequestsFinish
  <1>1. IInv => RunningRequestsFinish
    <2> SUFFICES ASSUME IInv, app = Recommendation,
                        NEW r \in Requests, Running(r), req[r].early, InTime(r)
                 PROVE  Stores \subseteq open
      BY DEF RunningRequestsFinish
    <2>1. req[r].pc # "none"
      BY DEF Running
    <2>2. next = 5
      BY <2>1, Served
    <2>3. phase \in {"starting", "serving", "draining"}
      BY DEF IInv, RequestsOK, Within, EarlyOK
    <2>. QED
      BY <2>2, <2>3, AllBuilt DEF IInv, OpenOK
  <1>. QED
    BY <1>1, Invariance, PTL

\* Wherever the start of example 09 fails, whenever the signal comes and whatever
\* Close waits for: when the process is gone, nothing of it is open.
THEOREM EndsClosed == Spec => []NothingLeftOpen
  <1>1. IInv => NothingLeftOpen
    BY DEF IInv, OpenOK, NothingLeftOpen
  <1>. QED
    BY <1>1, Invariance, PTL

\* However many processes there were and wherever they crashed, the caches of
\* one that serves have rows of its own time only.
THEOREM CachesAreFresh == Spec => []FreshSinceStart
  <1>1. IInv => FreshSinceStart
    <2> SUFFICES ASSUME IInv, phase \in {"serving", "draining"}, NEW c \in Caches
                 PROVE  {memory[c], redis[c]} \subseteq since \union {None}
      BY DEF FreshSinceStart
    <2>1. next = 5
      BY DEF IInv, OpenOK
    <2>2. c \in Built
      BY <2>1, AllBuilt DEF Stores
    <2>. QED
      BY <2>2 DEF IInv, FreshOK
  <1>. QED
    BY <1>1, Invariance, PTL

=============================================================================
