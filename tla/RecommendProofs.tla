--------------------------- MODULE RecommendProofs ---------------------------
(***************************************************************************)
(* What a response of the recommendation pipeline shows is allowed, and    *)
(* ranked by what it shows, for every catalogue, limit and set of          *)
(* requests, whatever others edit and however old the copies are.          *)
(***************************************************************************)
EXTENDS Recommend, TLAPS, FiniteSetTheorems

-----------------------------------------------------------------------------
(***************************************************************************)
(* Ranked.                                                                 *)
(***************************************************************************)
IsScoring(score) ==
  /\ IsFiniteSet(DOMAIN score) /\ DOMAIN score \subseteq Int
  /\ \A a \in DOMAIN score : score[a] \in Int

Ahead(score, a) == {b \in DOMAIN score : Before(score, b, a)}

\* Of two IDs one is before the other, and who is before it is before both.
LEMMA BeforeOrders ==
  ASSUME NEW score, IsScoring(score), NEW a \in DOMAIN score, NEW b \in DOMAIN score
  PROVE  /\ ~Before(score, a, a)
         /\ a # b => Before(score, a, b) \/ Before(score, b, a)
         /\ Before(score, a, b) => ~Before(score, b, a)
         /\ Before(score, a, b) => Ahead(score, a) \subseteq Ahead(score, b)
  <1>1. /\ a \in Int /\ b \in Int /\ score[a] \in Int /\ score[b] \in Int
        /\ \A c \in DOMAIN score : c \in Int /\ score[c] \in Int
    BY DEF IsScoring
  <1>2. ASSUME NEW c \in DOMAIN score, Before(score, c, a), Before(score, a, b)
        PROVE  Before(score, c, b)
    BY <1>1, <1>2 DEF Before
  <1>3. Before(score, a, b) => Ahead(score, a) \subseteq Ahead(score, b)
    BY <1>2 DEF Ahead
  <1>4. /\ ~Before(score, a, a)
        /\ a # b => Before(score, a, b) \/ Before(score, b, a)
        /\ Before(score, a, b) => ~Before(score, b, a)
    BY <1>1 DEF Before
  <1>. QED
    BY <1>3, <1>4

\* Every ID has a place of its own, those before it have earlier ones, and
\* every place is taken.
LEMMA PlacesTaken ==
  ASSUME NEW score, IsScoring(score)
  PROVE  /\ Cardinality(DOMAIN score) \in Nat
         /\ \A a \in DOMAIN score :
              Cardinality(Ahead(score, a)) + 1 \in 1 .. Cardinality(DOMAIN score)
         /\ \A a, b \in DOMAIN score : Before(score, a, b) =>
              Cardinality(Ahead(score, a)) + 1 < Cardinality(Ahead(score, b)) + 1
         /\ \A k \in 1 .. Cardinality(DOMAIN score) :
              \E a \in DOMAIN score : Cardinality(Ahead(score, a)) + 1 = k
  <1>. DEFINE ids == DOMAIN score
              m == Cardinality(ids)
              place == [a \in ids |-> Cardinality(Ahead(score, a)) + 1]
  <1>1. IsFiniteSet(ids) /\ m \in Nat
    BY FS_CardinalityType DEF IsScoring
  <1>2. ASSUME NEW a \in ids
        PROVE  /\ IsFiniteSet(Ahead(score, a)) /\ Cardinality(Ahead(score, a)) \in Nat
               /\ Cardinality(Ahead(score, a)) < m
    <2>1. Ahead(score, a) \in SUBSET ids /\ a \notin Ahead(score, a)
      BY BeforeOrders DEF Ahead
    <2>2. IsFiniteSet(Ahead(score, a))
      BY <1>1, <2>1, FS_Subset
    <2>3. Cardinality(Ahead(score, a)) \in Nat
      BY <2>2, FS_CardinalityType
    <2>4. Cardinality(Ahead(score, a)) <= m /\ Cardinality(Ahead(score, a)) # m
      BY <1>1, <2>1, FS_Subset
    <2>. QED
      BY <1>1, <2>2, <2>3, <2>4
  <1>3. ASSUME NEW a \in ids, NEW b \in ids, Before(score, a, b)
        PROVE  Cardinality(Ahead(score, a)) < Cardinality(Ahead(score, b))
    <2>1. Ahead(score, a) \in SUBSET Ahead(score, b)
      BY <1>3, BeforeOrders
    <2>2. a \in Ahead(score, b) /\ a \notin Ahead(score, a)
      BY <1>3, BeforeOrders DEF Ahead
    <2>3. /\ Cardinality(Ahead(score, a)) <= Cardinality(Ahead(score, b))
          /\ Cardinality(Ahead(score, a)) # Cardinality(Ahead(score, b))
      BY <1>2, <2>1, <2>2, FS_Subset
    <2>. QED
      BY <1>2, <2>3
  <1>4. \A a \in ids : Cardinality(Ahead(score, a)) + 1 \in 1 .. m
    BY <1>1, <1>2
  <1>5. \A a, b \in ids : Before(score, a, b) =>
          Cardinality(Ahead(score, a)) + 1 < Cardinality(Ahead(score, b)) + 1
    BY <1>2, <1>3
  <1>6. ASSUME NEW a \in ids, NEW b \in ids, place[a] = place[b]
        PROVE  a = b
    <2>1. place[a] \in Int /\ place[b] \in Int
      BY <1>2
    <2>2. ~Before(score, a, b) /\ ~Before(score, b, a)
      BY <1>5, <1>6, <2>1
    <2>. QED
      BY <2>2, BeforeOrders
  <1>7. place \in Injection(ids, 1 .. m)
    <2>1. place \in [ids -> 1 .. m]
      BY <1>4
    <2>. HIDE DEF place
    <2>. QED
      BY <1>6, <2>1 DEF Injection, IsInjective
  <1>8. IsFiniteSet(1 .. m) /\ Cardinality(1 .. m) = m
    BY <1>1, FS_Interval
  <1>9. place \in Surjection(ids, 1 .. m)
    BY <1>7, <1>8, FS_Injection
  <1>10. \A k \in 1 .. m : \E a \in ids : place[a] = k
    BY <1>9 DEF Surjection
  <1>. QED
    BY <1>1, <1>4, <1>5, <1>10

\* Ranked has every ID once, each after those that are before it.
LEMMA RankedIs ==
  ASSUME NEW score, IsScoring(score)
  PROVE  /\ Cardinality(DOMAIN score) \in Nat
         /\ Len(Ranked(score)) = Cardinality(DOMAIN score)
         /\ Ranked(score) \in Seq(DOMAIN score)
         /\ \A a \in DOMAIN score : \E k \in DOMAIN Ranked(score) : Ranked(score)[k] = a
         /\ \A j, k \in DOMAIN Ranked(score) :
              j < k => Before(score, Ranked(score)[j], Ranked(score)[k])
         /\ \A j, k \in DOMAIN Ranked(score) :
              Ranked(score)[j] = Ranked(score)[k] => j = k
  <1>. DEFINE ids == DOMAIN score
              m == Cardinality(ids)
              at(k) == CHOOSE a \in ids : Cardinality(Ahead(score, a)) + 1 = k
  <1>1. m \in Nat
    BY PlacesTaken
  <1>2. \A k \in 1 .. m : at(k) \in ids /\ Cardinality(Ahead(score, at(k))) + 1 = k
    BY PlacesTaken
  <1>3. Ranked(score) = [k \in 1 .. m |-> at(k)]
    BY DEF Ranked, Ahead
  <1>. HIDE DEF at
  <1>4. Ranked(score) \in Seq(ids) /\ Len(Ranked(score)) = m /\ DOMAIN Ranked(score) = 1 .. m
    BY <1>1, <1>2, <1>3
  <1>5. ASSUME NEW j \in 1 .. m, NEW k \in 1 .. m, j < k
        PROVE  Before(score, at(j), at(k))
    <2>1. ~Before(score, at(k), at(j))
      BY <1>2, <1>5, PlacesTaken
    <2>2. at(j) # at(k)
      BY <1>2, <1>5
    <2>. QED
      BY <1>2, <2>1, <2>2, BeforeOrders
  <1>6. \A j, k \in 1 .. m : at(j) = at(k) => j = k
    BY <1>2
  <1>7. ASSUME NEW a \in ids
        PROVE  \E k \in 1 .. m : at(k) = a
    <2>1. PICK k \in 1 .. m : k = Cardinality(Ahead(score, a)) + 1
      BY PlacesTaken
    <2>2. at(k) \in ids /\ Cardinality(Ahead(score, at(k))) + 1 = Cardinality(Ahead(score, a)) + 1
      BY <1>2, <2>1
    <2>3. ~Before(score, at(k), a) /\ ~Before(score, a, at(k))
      BY <2>1, <2>2, PlacesTaken
    <2>. QED
      BY <2>2, <2>3, BeforeOrders
  <1>. QED
    BY <1>1, <1>3, <1>4, <1>5, <1>6, <1>7


-----------------------------------------------------------------------------
(***************************************************************************)
(* The inductive invariant.                                                *)
(***************************************************************************)
Users == Tiers \union {"guest", Absent}
Candidate == [id : Articles, category : Categories]
Scorings == UNION {[S -> Int] : S \in SUBSET Articles}

\* What a request can be, with its places 1 to 7 in Logics and 8 after them.
Pending == [at : 0 .. 8, i : Nat \ {0}, user : Users, affinity : Int,
            candidates : Seq(Candidate), scores : Scorings, recalled : Scorings]

\* What an answer can be.
Shown == [id : Articles, category : Categories, score : Int]
Answers == [status : {"none", "ok", "error"}, user : Users, articles : Seq(Shown)]

Distinct(s) ==
  \A j, k \in DOMAIN s.candidates : s.candidates[j].id = s.candidates[k].id => j = k

\* At every place of the pipeline each candidate is there once, with a score.
Sound(s) == s \in Pending /\ Distinct(s) /\ DOMAIN s.scores = CandidateIDs(s)

\* What the logics before a place have established.
KnowsUser(s) ==
  s.at \in 3 .. 8 => s.user \in Tiers \union {"guest"} /\ s.affinity = Affinity(s.user)

KeepsRecalled(s) == s.at \in 4 .. 8 => CandidateIDs(s) \subseteq DOMAIN s.recalled

LiftsOnce(s) ==
  /\ s.at = 4 => \A j \in DOMAIN s.candidates :
       s.scores[s.candidates[j].id] =
         s.recalled[s.candidates[j].id] + (IF j < s.i THEN 2 ELSE 0)
  /\ s.at \in 5 .. 6 => \A a \in CandidateIDs(s) : s.scores[a] = s.recalled[a] + 2

AllAllowed(s) ==
  s.at \in 6 .. 8 => \A c \in ToSet(s.candidates) : Allow(s.user, c.category)

IsRanked(s) ==
  s.at \in 7 .. 8 => \A c \in ToSet(s.candidates) :
    s.scores[c.id] = Score(s.user, c.category, s.recalled[c.id] + 2, s.affinity)

Progress(s) ==
  KnowsUser(s) /\ KeepsRecalled(s) /\ LiftsOnce(s) /\ AllAllowed(s) /\ IsRanked(s)

\* What an answer o shows of the request s.
ShowsAllowed(o) == \A a \in ToSet(o.articles) : Allow(o.user, a.category)

ShowsScores(s, o) ==
  \A a \in ToSet(o.articles) :
    a.score = Score(o.user, a.category, s.recalled[a.id] + 2, Affinity(o.user))

ShowsInOrder(o) ==
  \A i, j \in DOMAIN o.articles : i < j =>
    \/ o.articles[i].score > o.articles[j].score
    \/ o.articles[i].score = o.articles[j].score /\ o.articles[i].id < o.articles[j].id

Answered(s, o) ==
  /\ o.status # "ok" => o.articles = <<>>
  /\ o.status = "ok" =>
       s.at = 8 /\ ShowsAllowed(o) /\ ShowsScores(s, o) /\ ShowsInOrder(o)

\* The stores have rows of their tables, and the copies are such rows.
Kind(k) == IF k = User THEN Tiers ELSE Rows

StoreInv ==
  /\ DOMAIN row = {User} \union Articles
  /\ \A k \in DOMAIN row : row[k] \in Kind(k) \union {Absent}
  /\ DOMAIN copies = DOMAIN row
  /\ \A k \in DOMAIN row : copies[k] \subseteq Kind(k)

RequestInv ==
  /\ DOMAIN req = Requests
  /\ \A r \in Requests : Sound(req[r]) /\ Progress(req[r])

AnswerInv ==
  /\ out \in [Requests -> Answers]
  /\ \A r \in Requests : Answered(req[r], out[r])

PipelineInv == StoreInv /\ RequestInv /\ AnswerInv

-----------------------------------------------------------------------------
(***************************************************************************)
(* The order of the logics, the candidates and the scores.                 *)
(***************************************************************************)
LEMMA LogicsAre ==
  /\ Len(Logics) = 7 /\ DOMAIN Logics = 1 .. 7
  /\ Logics[1] = "noop" /\ Logics[2] = "user-feature" /\ Logics[3] = "recall"
  /\ Logics[4] = "article-feature" /\ Logics[5] = "rule-filter" /\ Logics[6] = "rank"
  /\ Logics[7] = "noop"
  <1>1. /\ Stages[1] = <<"noop", "user-feature">> /\ Stages[2] = <<"recall">>
        /\ Stages[3] = <<"article-feature">> /\ Stages[4] = <<"rule-filter">>
        /\ Stages[5] = <<"rank">> /\ Stages[6] = <<"noop">>
    BY DEF Stages
  <1>2. Logics = <<"noop", "user-feature">> \o <<"recall">> \o <<"article-feature">>
                   \o <<"rule-filter">> \o <<"rank">> \o <<"noop">>
    BY <1>1 DEF Logics
  <1>3. Len(Logics) = 7 /\ DOMAIN Logics = 1 .. 7
    BY <1>2
  <1>4. Logics[1] = "noop" /\ Logics[2] = "user-feature" /\ Logics[3] = "recall"
    BY <1>2
  <1>5. Logics[4] = "article-feature" /\ Logics[5] = "rule-filter"
    BY <1>2
  <1>6. Logics[6] = "rank" /\ Logics[7] = "noop"
    BY <1>2
  <1>. QED
    BY <1>3, <1>4, <1>5, <1>6

LEMMA AtIs ==
  ASSUME NEW r, NEW logic, At(r, logic), req[r].at \in Int
  PROVE  /\ logic = "noop" => req[r].at \in {1, 7}
         /\ logic = "user-feature" => req[r].at = 2
         /\ logic = "recall" => req[r].at = 3
         /\ logic = "article-feature" => req[r].at = 4
         /\ logic = "rule-filter" => req[r].at = 5
         /\ logic = "rank" => req[r].at = 6
         /\ req[r].at \in 1 .. 7
  BY LogicsAre DEF At

LEMMA ScoreIsInt ==
  ASSUME NEW tier, NEW category, NEW base \in Int, NEW affinity \in Int
  PROVE  Score(tier, category, base, affinity) \in Int
  <1>1. PICK t \in Int : t = (IF tier = "premium" THEN 108 ELSE 100)
    OBVIOUS
  <1>2. PICK c \in Int : c = (IF category = "operations" THEN 103 ELSE 100)
    OBVIOUS
  <1>3. Score(tier, category, base, affinity) = base * t * c * affinity
    BY <1>1, <1>2 DEF Score
  <1>4. base * t \in Int
    OBVIOUS
  <1>5. (base * t) * c \in Int
    BY <1>4
  <1>6. ((base * t) * c) * affinity \in Int
    BY <1>5
  <1>. QED
    BY <1>3, <1>6

LEMMA AffinityIsInt == \A tier : Affinity(tier) \in Int
  BY DEF Affinity

\* Articles are numbers, none of them the user's key.
LEMMA ArticlesAreInts ==
  Articles \subseteq Int /\ User \notin Articles /\ IsFiniteSet(Articles)
  <1>1. Articles \subseteq Nat \ {User}
    BY SeedAssumption
  <1>2. User \notin Articles
    BY <1>1
  <1>3. Articles \subseteq Int
    BY <1>1 DEF User
  <1>. QED
    BY <1>2, <1>3, DataAssumption

LEMMA ScoringIs ==
  ASSUME NEW f \in Scorings
  PROVE  DOMAIN f \subseteq Articles /\ f \in [DOMAIN f -> Int]
         /\ \A a \in DOMAIN f : f[a] \in Int
  BY DEF Scorings

LEMMA IsAScoring ==
  ASSUME NEW S \in SUBSET Articles, NEW f \in [S -> Int]
  PROVE  f \in Scorings /\ IsScoring(f)
  <1>1. f \in Scorings
    BY DEF Scorings
  <1>2. DOMAIN f = S /\ \A a \in S : f[a] \in Int
    OBVIOUS
  <1>3. IsFiniteSet(S) /\ S \subseteq Int
    BY ArticlesAreInts, FS_Subset
  <1>. QED
    BY <1>1, <1>2, <1>3 DEF IsScoring

\* The candidates of a sound request, by place and by ID.
LEMMA CandidatesAre ==
  ASSUME NEW s, Sound(s)
  PROVE  /\ s.candidates \in Seq(Candidate) /\ Len(s.candidates) \in Nat
         /\ DOMAIN s.candidates = 1 .. Len(s.candidates)
         /\ \A j \in DOMAIN s.candidates : /\ s.candidates[j] \in Candidate
                                           /\ s.candidates[j].id \in Articles
                                           /\ s.candidates[j].category \in Categories
                                           /\ s.candidates[j].id \in CandidateIDs(s)
                                           /\ s.candidates[j] \in ToSet(s.candidates)
         /\ \A a \in CandidateIDs(s) : \E j \in DOMAIN s.candidates : s.candidates[j].id = a
         /\ \A c \in ToSet(s.candidates) : \E j \in DOMAIN s.candidates : s.candidates[j] = c
         /\ CandidateIDs(s) \subseteq Articles
  <1>1. s.candidates \in Seq(Candidate)
    BY DEF Sound, Pending
  <1>2. DOMAIN s.candidates = 1 .. Len(s.candidates) /\ Len(s.candidates) \in Nat
        /\ \A j \in DOMAIN s.candidates : s.candidates[j] \in Candidate
    BY <1>1
  <1>3. \A j \in DOMAIN s.candidates : /\ s.candidates[j].id \in Articles
                                       /\ s.candidates[j].category \in Categories
    BY <1>2 DEF Candidate
  <1>4. /\ \A j \in DOMAIN s.candidates : s.candidates[j] \in ToSet(s.candidates)
        /\ \A c \in ToSet(s.candidates) : \E j \in DOMAIN s.candidates : s.candidates[j] = c
    BY DEF ToSet
  <1>5. /\ \A j \in DOMAIN s.candidates : s.candidates[j].id \in CandidateIDs(s)
        /\ \A a \in CandidateIDs(s) : \E j \in DOMAIN s.candidates : s.candidates[j].id = a
    BY <1>4 DEF CandidateIDs
  <1>6. CandidateIDs(s) \subseteq Articles
    BY <1>3, <1>5
  <1>. QED
    BY <1>1, <1>2, <1>3, <1>4, <1>5, <1>6

\* A candidate has the category that its place says.
LEMMA CategoryIs ==
  ASSUME NEW s, Sound(s), NEW c \in ToSet(s.candidates)
  PROVE  Category(s, c.id) = c.category
  <1>1. ASSUME NEW d \in ToSet(s.candidates), d.id = c.id
        PROVE  d = c
    <2>1. PICK j \in DOMAIN s.candidates : s.candidates[j] = d
      BY CandidatesAre
    <2>2. PICK k \in DOMAIN s.candidates : s.candidates[k] = c
      BY CandidatesAre
    <2>. QED
      BY <1>1, <2>1, <2>2 DEF Sound, Distinct
  <1>. DEFINE d == CHOOSE e \in ToSet(s.candidates) : e.id = c.id
  <1>2. d \in ToSet(s.candidates) /\ d.id = c.id
    OBVIOUS
  <1>3. d = c
    BY <1>1, <1>2
  <1>. QED
    BY <1>3 DEF Category

\* As many IDs as candidates.
LEMMA EachOnce ==
  ASSUME NEW s, Sound(s)
  PROVE  Cardinality(CandidateIDs(s)) = Len(s.candidates)
  <1>. DEFINE n == Len(s.candidates)
              id == [j \in 1 .. n |-> s.candidates[j].id]
  <1>1. n \in Nat /\ DOMAIN s.candidates = 1 .. n
    BY CandidatesAre
  <1>2. id \in [1 .. n -> CandidateIDs(s)]
    BY <1>1, CandidatesAre
  <1>3. \A j, k \in 1 .. n : id[j] = id[k] => j = k
    BY <1>1 DEF Sound, Distinct
  <1>4. \A a \in CandidateIDs(s) : \E j \in 1 .. n : id[j] = a
    BY <1>1, CandidatesAre
  <1>. HIDE DEF id
  <1>5. id \in Injection(1 .. n, CandidateIDs(s))
    BY <1>2, <1>3 DEF Injection, IsInjective
  <1>6. id \in Surjection(1 .. n, CandidateIDs(s))
    BY <1>2, <1>4 DEF Surjection
  <1>7. IsFiniteSet(1 .. n) /\ Cardinality(1 .. n) = n
    BY <1>1, FS_Interval
  <1>. QED
    BY <1>5, <1>6, <1>7, FS_Surjection

-----------------------------------------------------------------------------
(***************************************************************************)
(* What one step of a request leaves.                                      *)
(***************************************************************************)
\* The next logic begins with the state that the last one left.
LEMMA MovesOn ==
  ASSUME NEW s, Sound(s), s.at < 8, NEW t, t = [s EXCEPT !.at = @ + 1, !.i = 1]
  PROVE  /\ Sound(t) /\ t.at = s.at + 1 /\ t.i = 1
         /\ t.user = s.user /\ t.affinity = s.affinity /\ t.candidates = s.candidates
         /\ t.scores = s.scores /\ t.recalled = s.recalled
         /\ CandidateIDs(t) = CandidateIDs(s)
  <1>1. s \in Pending /\ s.at \in 0 .. 7
    BY DEF Sound, Pending
  <1>2. /\ t.at = s.at + 1 /\ t.i = 1 /\ t.user = s.user /\ t.affinity = s.affinity
        /\ t.candidates = s.candidates /\ t.scores = s.scores /\ t.recalled = s.recalled
    BY <1>1 DEF Pending
  <1>3. t \in Pending
    <2>1. s.at + 1 \in 0 .. 8 /\ 1 \in Nat \ {0}
      BY <1>1
    <2>2. t = [at |-> s.at + 1, i |-> 1, user |-> s.user, affinity |-> s.affinity,
               candidates |-> s.candidates, scores |-> s.scores, recalled |-> s.recalled]
      BY <1>1 DEF Pending
    <2>. QED
      BY <1>1, <2>1, <2>2 DEF Pending
  <1>4. CandidateIDs(t) = CandidateIDs(s)
    BY <1>2 DEF CandidateIDs
  <1>5. Distinct(t)
    BY <1>2 DEF Sound, Distinct
  <1>. QED
    BY <1>2, <1>3, <1>4, <1>5 DEF Sound

\* Who has not come to the end has no answer.
LEMMA NotYet ==
  ASSUME PipelineInv, NEW r \in Requests
  PROVE  /\ Sound(req[r]) /\ Progress(req[r]) /\ req[r].at \in 0 .. 8
         /\ req[r].at # 8 => out[r].status # "ok"
  BY DEF PipelineInv, RequestInv, AnswerInv, Answered, Sound, Pending

\* Only the state of the request r changes.
LEMMA OnlyRequest ==
  ASSUME PipelineInv, NEW r \in Requests, NEW t, req' = [req EXCEPT ![r] = t],
         Sound(t), Progress(t), out' = out, out[r].status # "ok"
  PROVE  RequestInv' /\ AnswerInv'
  <1>1. DOMAIN req = Requests
    BY DEF PipelineInv, RequestInv
  <1>2. DOMAIN req' = Requests /\ req'[r] = t /\ \A q \in Requests \ {r} : req'[q] = req[q]
    BY <1>1
  <1>3. RequestInv'
    <2>1. \A q \in Requests : Sound(req'[q]) /\ Progress(req'[q])
      BY <1>2 DEF PipelineInv, RequestInv
    <2>. QED
      BY <1>2, <2>1 DEF RequestInv
  <1>4. \A q \in Requests : Answered(req'[q], out[q])
    <2>1. ASSUME NEW q \in Requests \ {r}
          PROVE  Answered(req'[q], out[q])
      BY <1>2 DEF PipelineInv, AnswerInv
    <2>2. Answered(t, out[r])
      BY DEF PipelineInv, AnswerInv, Answered
    <2>. QED
      BY <1>2, <2>1, <2>2
  <1>5. AnswerInv'
    BY <1>4 DEF PipelineInv, AnswerInv
  <1>. QED
    BY <1>3, <1>5

\* A copy of a row, or the row.
LEMMA FoundIs ==
  ASSUME StoreInv, NEW k \in {User} \union Articles, NEW v \in Found(k)
  PROVE  v \in Kind(k)
  BY DEF StoreInv, Found

LEMMA Filled ==
  ASSUME StoreInv, row' = row, NEW k \in {User} \union Articles, NEW v \in Kind(k), Fill(k, v)
  PROVE  StoreInv'
  <1>1. DOMAIN copies' = DOMAIN row
    BY DEF StoreInv, Fill
  <1>2. \A m \in DOMAIN row : copies'[m] \subseteq Kind(m)
    BY DEF StoreInv, Fill
  <1>. QED
    BY <1>1, <1>2 DEF StoreInv

LEMMA StoresStay ==
  ASSUME StoreInv, row' = row, copies' = copies
  PROVE  StoreInv'
  BY DEF StoreInv

\* Begin, a logic that does nothing, and the end of the enriching.
LEMMA IdleStep ==
  ASSUME PipelineInv, NEW r \in Requests, Begin(r) \/ Noop(r) \/ Enriched(r)
  PROVE  PipelineInv'
  <1>. DEFINE s == req[r]
  <1>1. PICK t : t = [s EXCEPT !.at = @ + 1, !.i = 1]
    OBVIOUS
  <1>2. Sound(s) /\ Progress(s) /\ s.at \in {0, 1, 4, 7} /\ out[r].status # "ok"
        /\ (s.at = 4 => s.i > Len(s.candidates))
    BY NotYet, AtIs DEF Begin, Noop, Enriched
  <1>3. /\ req' = [req EXCEPT ![r] = t] /\ out' = out /\ row' = row /\ copies' = copies
    BY <1>1 DEF Begin, Noop, Enriched, Continue
  <1>. HIDE DEF s
  <1>4. /\ Sound(t) /\ t.at = s.at + 1
        /\ t.user = s.user /\ t.affinity = s.affinity /\ t.candidates = s.candidates
        /\ t.scores = s.scores /\ t.recalled = s.recalled
        /\ CandidateIDs(t) = CandidateIDs(s)
    <2>1. s.at < 8
      BY <1>2
    <2>. QED
      BY <1>1, <1>2, <2>1, MovesOn
  <1>5. Progress(t)
    <2>1. KnowsUser(t)
      BY <1>2, <1>4 DEF Progress, KnowsUser
    <2>2. KeepsRecalled(t)
      BY <1>2, <1>4 DEF Progress, KeepsRecalled
    <2>3. LiftsOnce(t)
      <3>1. CASE s.at = 4
        <4>1. s.i \in Nat /\ Len(s.candidates) \in Nat /\ s.i > Len(s.candidates)
          BY <1>2, <3>1, CandidatesAre DEF Sound, Pending
        <4>2. \A j \in DOMAIN s.candidates : j < s.i
          BY <1>2, <4>1, CandidatesAre
        <4>3. \A j \in DOMAIN s.candidates :
                s.scores[s.candidates[j].id] = s.recalled[s.candidates[j].id] + 2
          BY <1>2, <3>1, <4>2 DEF Progress, LiftsOnce
        <4>4. \A a \in CandidateIDs(s) : s.scores[a] = s.recalled[a] + 2
          BY <1>2, <4>3, CandidatesAre
        <4>. QED
          BY <1>4, <3>1, <4>4 DEF LiftsOnce
      <3>2. CASE s.at # 4
        BY <1>2, <1>4, <3>2 DEF LiftsOnce
      <3>. QED
        BY <3>1, <3>2
    <2>4. AllAllowed(t)
      BY <1>2, <1>4 DEF Progress, AllAllowed
    <2>5. IsRanked(t)
      BY <1>2, <1>4 DEF Progress, IsRanked
    <2>. QED
      BY <2>1, <2>2, <2>3, <2>4, <2>5 DEF Progress
  <1>6. RequestInv' /\ AnswerInv'
    BY <1>2, <1>3, <1>4, <1>5, OnlyRequest
  <1>7. StoreInv'
    BY <1>3, StoresStay DEF PipelineInv
  <1>. QED
    BY <1>6, <1>7 DEF PipelineInv

LEMMA UserFeatureStep ==
  ASSUME PipelineInv, NEW r \in Requests, UserFeature(r)
  PROVE  PipelineInv'
  <1>. DEFINE s == req[r]
  <1>1. /\ Sound(s) /\ Progress(s) /\ s.at = 2 /\ out[r].status # "ok"
        /\ out' = out /\ row' = row
    <2>1. Sound(s) /\ Progress(s) /\ s.at \in 0 .. 8 /\ (s.at # 8 => out[r].status # "ok")
      BY NotYet
    <2>2. At(r, "user-feature") /\ out' = out /\ row' = row
      BY DEF UserFeature
    <2>3. s.at = 2
      BY <2>1, <2>2, AtIs
    <2>. QED
      BY <2>1, <2>2, <2>3
  <1>2. \/ \E tier \in Found(User) :
             /\ Continue(r, [s EXCEPT !.user = tier, !.affinity = Affinity(tier)])
             /\ Fill(User, tier)
        \/ /\ Continue(r, [s EXCEPT !.user = "guest", !.affinity = Affinity("guest")])
           /\ copies' = copies
    BY DEF UserFeature
  <1>3. PICK tier \in Tiers \union {"guest"} :
          /\ Continue(r, [s EXCEPT !.user = tier, !.affinity = Affinity(tier)])
          /\ (tier \in Tiers /\ Fill(User, tier)) \/ copies' = copies
    <2>1. \A v \in Found(User) : v \in Tiers
      BY FoundIs DEF PipelineInv, Kind
    <2>. QED
      BY <1>2, <2>1
  <1>4. StoreInv'
    <2>1. CASE copies' = copies
      BY <1>1, <2>1, StoresStay DEF PipelineInv
    <2>2. CASE tier \in Tiers /\ Fill(User, tier)
      BY <1>1, <2>2, Filled DEF PipelineInv, Kind
    <2>. QED
      BY <1>3, <2>1, <2>2
  <1>5. PICK u : u = [s EXCEPT !.user = tier, !.affinity = Affinity(tier)]
    OBVIOUS
  <1>6. PICK t : t = [u EXCEPT !.at = @ + 1, !.i = 1]
    OBVIOUS
  <1>7. req' = [req EXCEPT ![r] = t]
    BY <1>3, <1>5, <1>6 DEF Continue
  <1>. HIDE DEF s
  <1>8. /\ s \in Pending /\ u.at = 2 /\ u.user = tier /\ u.affinity = Affinity(tier)
        /\ u.candidates = s.candidates /\ u.scores = s.scores /\ u.recalled = s.recalled
    BY <1>1, <1>5 DEF Sound, Pending
  <1>9. Sound(u)
    <2>1. tier \in Users /\ Affinity(tier) \in Int
      BY AffinityIsInt DEF Users
    <2>2. u \in Pending
      BY <1>5, <1>8, <2>1 DEF Pending
    <2>. QED
      BY <1>1, <1>8, <2>2 DEF Sound, Distinct, CandidateIDs
  <1>10. Sound(t) /\ t.at = 3 /\ t.user = tier /\ t.affinity = Affinity(tier)
    <2>1. u.at < 8
      BY <1>8
    <2>2. Sound(t) /\ t.at = u.at + 1 /\ t.user = u.user /\ t.affinity = u.affinity
      BY <1>6, <1>9, <2>1, MovesOn
    <2>. QED
      BY <1>8, <2>2
  <1>11. Progress(t)
    BY <1>10 DEF Progress, KnowsUser, KeepsRecalled, LiftsOnce, AllAllowed, IsRanked
  <1>12. RequestInv' /\ AnswerInv'
    BY <1>1, <1>7, <1>10, <1>11, OnlyRequest
  <1>. QED
    BY <1>4, <1>12 DEF PipelineInv

\* The recall lists articles that have a row, each once.
LEMMA TopIs ==
  ASSUME StoreInv
  PROVE  /\ Top \in Seq(Articles)
         /\ \A j \in DOMAIN Top : Top[j] \in Articles /\ row[Top[j]] \in Rows
         /\ \A j, k \in DOMAIN Top : Top[j] = Top[k] => j = k
  <1>1. PICK E : E = {b \in Articles : row[b] # Absent}
    OBVIOUS
  <1>2. E \in SUBSET Articles /\ \A a \in E : row[a] \in Rows
    BY <1>1, ArticlesAreInts DEF StoreInv, Kind
  <1>3. PICK f : f = [a \in E |-> row[a].score]
    OBVIOUS
  <1>4. f \in [E -> Int] /\ DOMAIN f = E
    BY <1>2, <1>3, DataAssumption DEF Rows
  <1>5. IsScoring(f)
    BY <1>2, <1>4, IsAScoring
  <1>6. PICK all : all = Ranked(f)
    OBVIOUS
  <1>7. /\ all \in Seq(E) /\ Len(all) \in Nat
        /\ \A j, k \in DOMAIN all : all[j] = all[k] => j = k
    BY <1>4, <1>5, <1>6, RankedIs
  <1>8. PICK limit \in Int : limit = IF Limit <= 0 THEN 10 ELSE Limit
    BY DataAssumption
  <1>9. limit > 0
    BY <1>8, DataAssumption
  <1>10. PICK n : n = IF Len(all) < limit THEN Len(all) ELSE limit
    OBVIOUS
  <1>11. n \in Nat /\ 1 .. n \subseteq DOMAIN all
    BY <1>7, <1>9, <1>10
  <1>12. Top = [k \in 1 .. n |-> all[k]]
    BY <1>1, <1>3, <1>6, <1>8, <1>10 DEF Top
  <1>13. \A k \in 1 .. n : all[k] \in E
    BY <1>7, <1>11
  <1>. QED
    BY <1>2, <1>7, <1>11, <1>12, <1>13

LEMMA RecallStep ==
  ASSUME PipelineInv, NEW r \in Requests, Recall(r)
  PROVE  PipelineInv'
  <1>. DEFINE s == req[r]
  <1>1. Sound(s) /\ Progress(s) /\ s.at = 3 /\ out[r].status # "ok"
    <2>1. Sound(s) /\ Progress(s) /\ s.at \in 0 .. 8 /\ (s.at # 8 => out[r].status # "ok")
      BY NotYet
    <2>2. At(r, "recall")
      BY DEF Recall
    <2>3. s.at = 3
      BY <2>1, <2>2, AtIs
    <2>. QED
      BY <2>1, <2>3
  <1>2. PICK top : top = Top
    OBVIOUS
  <1>3. /\ top \in Seq(Articles) /\ DOMAIN top = 1 .. Len(top) /\ Len(top) \in Nat
        /\ \A j \in DOMAIN top : top[j] \in Articles /\ row[top[j]] \in Rows
        /\ \A j, k \in DOMAIN top : top[j] = top[k] => j = k
    BY <1>2, TopIs DEF PipelineInv
  <1>4. PICK f : f = [a \in ToSet(top) |-> row[a].score]
    OBVIOUS
  <1>5. PICK c : c = [j \in DOMAIN top |-> [id |-> top[j], category |-> row[top[j]].category]]
    OBVIOUS
  <1>6. PICK u : u = [s EXCEPT !.candidates = c, !.scores = f, !.recalled = f]
    OBVIOUS
  <1>7. PICK t : t = [u EXCEPT !.at = @ + 1, !.i = 1]
    OBVIOUS
  <1>8. /\ req' = [req EXCEPT ![r] = t] /\ out' = out /\ row' = row /\ copies' = copies
    BY <1>2, <1>4, <1>5, <1>6, <1>7 DEF Recall, Continue
  <1>. HIDE DEF s
  <1>9. f \in Scorings /\ DOMAIN f = ToSet(top) /\ \A a \in ToSet(top) : f[a] \in Int
    <2>1. ToSet(top) \in SUBSET Articles /\ \A a \in ToSet(top) : row[a] \in Rows
      BY <1>3 DEF ToSet
    <2>2. \A a \in ToSet(top) : row[a].score \in Int
      BY <2>1, DataAssumption DEF Rows
    <2>3. f \in [ToSet(top) -> Int]
      BY <1>4, <2>2
    <2>. QED
      BY <2>1, <2>3, IsAScoring
  <1>10. /\ c \in Seq(Candidate) /\ DOMAIN c = DOMAIN top
         /\ \A j \in DOMAIN top : c[j].id = top[j]
    <2>1. \A j \in DOMAIN top :
            [id |-> top[j], category |-> row[top[j]].category] \in Candidate
      BY <1>3 DEF Rows, Candidate
    <2>. QED
      BY <1>3, <1>5, <2>1
  <1>11. /\ s \in Pending /\ u.at = 3 /\ u.user = s.user /\ u.affinity = s.affinity
         /\ u.candidates = c /\ u.scores = f /\ u.recalled = f
    BY <1>1, <1>6 DEF Sound, Pending
  <1>12. CandidateIDs(u) = ToSet(top)
    <2>1. CandidateIDs(u) = {c[j].id : j \in DOMAIN top}
      BY <1>10, <1>11 DEF CandidateIDs, ToSet
    <2>. QED
      BY <1>10, <2>1 DEF ToSet
  <1>13. Sound(u)
    <2>1. u \in Pending
      BY <1>6, <1>9, <1>10, <1>11 DEF Pending
    <2>2. Distinct(u)
      BY <1>3, <1>10, <1>11 DEF Distinct
    <2>. QED
      BY <1>9, <1>11, <1>12, <2>1, <2>2 DEF Sound
  <1>14. /\ Sound(t) /\ t.at = 4 /\ t.i = 1 /\ t.user = s.user /\ t.affinity = s.affinity
         /\ t.candidates = c /\ t.scores = f /\ t.recalled = f /\ CandidateIDs(t) = ToSet(top)
    <2>1. u.at < 8
      BY <1>11
    <2>2. /\ Sound(t) /\ t.at = u.at + 1 /\ t.i = 1 /\ t.user = u.user
          /\ t.affinity = u.affinity /\ t.candidates = u.candidates
          /\ t.scores = u.scores /\ t.recalled = u.recalled
          /\ CandidateIDs(t) = CandidateIDs(u)
      BY <1>7, <1>13, <2>1, MovesOn
    <2>. QED
      BY <1>11, <1>12, <2>2
  <1>15. Progress(t)
    <2>1. KnowsUser(t)
      BY <1>1, <1>14 DEF Progress, KnowsUser
    <2>2. KeepsRecalled(t)
      BY <1>9, <1>14 DEF KeepsRecalled
    <2>3. \A j \in DOMAIN c : f[c[j].id] = f[c[j].id] + (IF j < 1 THEN 2 ELSE 0)
      BY <1>3, <1>9, <1>10 DEF ToSet
    <2>4. LiftsOnce(t)
      BY <1>14, <2>3 DEF LiftsOnce
    <2>5. AllAllowed(t) /\ IsRanked(t)
      BY <1>14 DEF AllAllowed, IsRanked
    <2>. QED
      BY <2>1, <2>2, <2>4, <2>5 DEF Progress
  <1>16. RequestInv' /\ AnswerInv'
    BY <1>1, <1>8, <1>14, <1>15, OnlyRequest
  <1>17. StoreInv'
    BY <1>8, StoresStay DEF PipelineInv
  <1>. QED
    BY <1>16, <1>17 DEF PipelineInv

LEMMA ArticleFeatureStep ==
  ASSUME PipelineInv, NEW r \in Requests, ArticleFeature(r)
  PROVE  PipelineInv'
  <1>. DEFINE s == req[r]
              id == s.candidates[s.i].id
  <1>1. Sound(s) /\ Progress(s) /\ s.at = 4 /\ s.i <= Len(s.candidates) /\ out[r].status # "ok"
    <2>1. Sound(s) /\ Progress(s) /\ s.at \in 0 .. 8 /\ (s.at # 8 => out[r].status # "ok")
      BY NotYet
    <2>2. At(r, "article-feature") /\ s.i <= Len(s.candidates)
      BY DEF ArticleFeature
    <2>3. s.at = 4
      BY <2>1, <2>2, AtIs
    <2>. QED
      BY <2>1, <2>2, <2>3
  <1>2. PICK v \in Found(id) :
          /\ req' = [req EXCEPT ![r].i = @ + 1,
                                ![r].candidates[s.i].category = v.category,
                                ![r].scores[id] = @ + 2]
          /\ Fill(id, v) /\ out' = out /\ row' = row
    BY DEF ArticleFeature
  <1>3. PICK t : t = [s EXCEPT !.i = @ + 1,
                               !.candidates[s.i].category = v.category,
                               !.scores[id] = @ + 2]
    OBVIOUS
  <1>4. req' = [req EXCEPT ![r] = t]
    BY <1>2, <1>3 DEF PipelineInv, RequestInv
  <1>5. /\ s \in Pending /\ s.i \in DOMAIN s.candidates /\ s.i \in Nat
        /\ id \in Articles /\ id \in CandidateIDs(s) /\ id \in DOMAIN s.scores
        /\ s.candidates \in Seq(Candidate) /\ s.candidates[s.i] \in Candidate
    <2>1. s \in Pending /\ s.i \in Nat /\ s.i > 0 /\ DOMAIN s.scores = CandidateIDs(s)
      BY <1>1 DEF Sound, Pending
    <2>2. s.i \in DOMAIN s.candidates
      BY <1>1, <2>1, CandidatesAre
    <2>. QED
      BY <1>1, <2>1, <2>2, CandidatesAre
  <1>6. v \in Rows
    BY <1>2, <1>5, FoundIs, ArticlesAreInts DEF PipelineInv, Kind
  <1>7. StoreInv'
    <2>1. v \in Kind(id)
      BY <1>5, <1>6, ArticlesAreInts DEF Kind
    <2>. QED
      BY <1>2, <1>5, <2>1, Filled DEF PipelineInv
  <1>. HIDE DEF s
  <1>8. PICK c : c = [s.candidates EXCEPT ![s.i].category = v.category]
    OBVIOUS
  <1>9. PICK f : f = [s.scores EXCEPT ![id] = @ + 2]
    OBVIOUS
  <1>10. /\ t.at = 4 /\ t.i = s.i + 1 /\ t.user = s.user /\ t.affinity = s.affinity
         /\ t.candidates = c /\ t.scores = f /\ t.recalled = s.recalled
    BY <1>1, <1>3, <1>5, <1>8, <1>9 DEF Pending
  <1>11. /\ c \in Seq(Candidate) /\ DOMAIN c = DOMAIN s.candidates
         /\ \A j \in DOMAIN c : c[j].id = s.candidates[j].id
    <2>1. [s.candidates[s.i] EXCEPT !.category = v.category] \in Candidate
          /\ [s.candidates[s.i] EXCEPT !.category = v.category].id = id
      BY <1>5, <1>6 DEF Candidate, Rows
    <2>2. c = [s.candidates EXCEPT ![s.i] = [s.candidates[s.i] EXCEPT !.category = v.category]]
      BY <1>5, <1>8
    <2>. QED
      BY <1>5, <2>1, <2>2
  <1>12. CandidateIDs(t) = CandidateIDs(s)
    <2>1. CandidateIDs(t) = {c[j].id : j \in DOMAIN c}
      BY <1>10 DEF CandidateIDs, ToSet
    <2>2. CandidateIDs(s) = {s.candidates[j].id : j \in DOMAIN s.candidates}
      BY DEF CandidateIDs, ToSet
    <2>. QED
      BY <1>11, <2>1, <2>2
  <1>13. /\ f \in Scorings /\ DOMAIN f = DOMAIN s.scores
         /\ f[id] = s.scores[id] + 2
         /\ \A a \in DOMAIN s.scores : a # id => f[a] = s.scores[a]
    <2>1. /\ s.scores \in [DOMAIN s.scores -> Int] /\ DOMAIN s.scores \in SUBSET Articles
          /\ s.scores[id] \in Int
      BY <1>5, ScoringIs DEF Pending
    <2>2. PICK g : g = s.scores
      OBVIOUS
    <2>3. PICK D : D = DOMAIN g
      OBVIOUS
    <2>4. g \in [D -> Int] /\ D \in SUBSET Articles /\ g[id] + 2 \in Int /\ id \in D
      BY <1>5, <2>1, <2>2, <2>3
    <2>5. f = [g EXCEPT ![id] = g[id] + 2]
      BY <1>9, <2>2
    <2>. HIDE DEF id
    <2>6. f \in [D -> Int] /\ f[id] = g[id] + 2 /\ \A a \in D : a # id => f[a] = g[a]
      BY <2>4, <2>5
    <2>7. f \in Scorings /\ DOMAIN f = D
      BY <2>4, <2>6, IsAScoring
    <2>. QED
      BY <2>2, <2>3, <2>6, <2>7
  <1>14. Sound(t)
    <2>1. t = [at |-> 4, i |-> s.i + 1, user |-> s.user, affinity |-> s.affinity,
               candidates |-> c, scores |-> f, recalled |-> s.recalled]
      BY <1>1, <1>3, <1>5, <1>8, <1>9 DEF Pending
    <2>2. t \in Pending
      BY <1>5, <1>11, <1>13, <2>1 DEF Pending
    <2>3. Distinct(t)
      BY <1>1, <1>10, <1>11 DEF Sound, Distinct
    <2>. QED
      BY <1>1, <1>10, <1>12, <1>13, <2>2, <2>3 DEF Sound
  <1>15. Progress(t)
    <2>1. KnowsUser(t)
      BY <1>1, <1>10 DEF Progress, KnowsUser
    <2>2. KeepsRecalled(t)
      BY <1>1, <1>10, <1>12 DEF Progress, KeepsRecalled
    <2>3. ASSUME NEW j \in DOMAIN c
          PROVE  f[c[j].id] = s.recalled[c[j].id] + (IF j < s.i + 1 THEN 2 ELSE 0)
      <3>1. /\ j \in Nat /\ c[j].id = s.candidates[j].id /\ c[j].id \in CandidateIDs(s)
            /\ s.scores[c[j].id] = s.recalled[c[j].id] + (IF j < s.i THEN 2 ELSE 0)
        BY <1>1, <1>11, CandidatesAre DEF Progress, LiftsOnce
      <3>2. c[j].id \in DOMAIN s.scores /\ s.recalled[c[j].id] \in Int
        <4>1. c[j].id \in DOMAIN s.recalled
          BY <1>1, <3>1 DEF Progress, KeepsRecalled
        <4>. QED
          BY <1>1, <1>5, <3>1, <4>1, ScoringIs DEF Sound, Pending
      <3>3. CASE j = s.i
        BY <1>5, <1>13, <3>1, <3>2, <3>3
      <3>4. CASE j # s.i
        <4>1. c[j].id # id
          BY <1>1, <1>5, <1>11, <3>1, <3>4 DEF Sound, Distinct
        <4>2. j < s.i + 1 <=> j < s.i
          BY <1>5, <3>1, <3>4
        <4>3. f[c[j].id] = s.scores[c[j].id]
          BY <1>13, <3>2, <4>1
        <4>. QED
          BY <3>1, <4>2, <4>3
      <3>. QED
        BY <3>3, <3>4
    <2>4. LiftsOnce(t)
      BY <1>10, <2>3 DEF LiftsOnce
    <2>5. AllAllowed(t) /\ IsRanked(t)
      BY <1>10 DEF AllAllowed, IsRanked
    <2>. QED
      BY <2>1, <2>2, <2>4, <2>5 DEF Progress
  <1>16. RequestInv' /\ AnswerInv'
    BY <1>1, <1>2, <1>4, <1>14, <1>15, OnlyRequest
  <1>. QED
    BY <1>7, <1>16 DEF PipelineInv

\* The filter keeps candidates that the user may see, each once.
LEMMA KeptIs ==
  ASSUME NEW s, Sound(s)
  PROVE  /\ Kept(s) \in Seq(Candidate)
         /\ \A k \in DOMAIN Kept(s) : /\ Kept(s)[k] \in ToSet(s.candidates)
                                      /\ Allow(s.user, Kept(s)[k].category)
         /\ \A j, k \in DOMAIN Kept(s) : Kept(s)[j].id = Kept(s)[k].id => j = k
  <1>1. PICK P : P = {j \in DOMAIN s.candidates : Allow(s.user, s.candidates[j].category)}
    OBVIOUS
  <1>2. P \in SUBSET (1 .. Len(s.candidates)) /\ IsFiniteSet(P)
    <2>1. Len(s.candidates) \in Nat /\ P \in SUBSET (1 .. Len(s.candidates))
      BY <1>1, CandidatesAre
    <2>2. IsFiniteSet(1 .. Len(s.candidates))
      BY <2>1, FS_Interval
    <2>. QED
      BY <2>1, <2>2, FS_Subset
  <1>3. PICK f : f = [j \in P |-> 0]
    OBVIOUS
  <1>4. IsScoring(f) /\ DOMAIN f = P
    BY <1>2, <1>3 DEF IsScoring
  <1>5. PICK places : places = Ranked(f)
    OBVIOUS
  <1>6. /\ places \in Seq(P) /\ DOMAIN places = 1 .. Len(places)
        /\ \A j, k \in DOMAIN places : places[j] = places[k] => j = k
    BY <1>4, <1>5, RankedIs
  <1>7. Kept(s) = [k \in DOMAIN places |-> s.candidates[places[k]]]
    BY <1>1, <1>3, <1>5 DEF Kept
  <1>8. ASSUME NEW k \in DOMAIN places
        PROVE  /\ places[k] \in P /\ places[k] \in DOMAIN s.candidates
               /\ s.candidates[places[k]] \in Candidate
               /\ s.candidates[places[k]] \in ToSet(s.candidates)
               /\ Allow(s.user, s.candidates[places[k]].category)
    <2>1. places[k] \in P
      BY <1>6
    <2>2. places[k] \in DOMAIN s.candidates /\ Allow(s.user, s.candidates[places[k]].category)
      BY <1>1, <2>1
    <2>. QED
      BY <2>1, <2>2, CandidatesAre
  <1>9. Kept(s) \in Seq(Candidate) /\ DOMAIN Kept(s) = DOMAIN places
    BY <1>6, <1>7, <1>8
  <1>10. ASSUME NEW j \in DOMAIN places, NEW k \in DOMAIN places,
                s.candidates[places[j]].id = s.candidates[places[k]].id
         PROVE  j = k
    BY <1>6, <1>8, <1>10 DEF Sound, Distinct
  <1>. QED
    BY <1>7, <1>8, <1>9, <1>10

LEMMA RuleFilterStep ==
  ASSUME PipelineInv, NEW r \in Requests, RuleFilter(r)
  PROVE  PipelineInv'
  <1>. DEFINE s == req[r]
  <1>1. Sound(s) /\ Progress(s) /\ s.at = 5 /\ out[r].status # "ok"
    <2>1. Sound(s) /\ Progress(s) /\ s.at \in 0 .. 8 /\ (s.at # 8 => out[r].status # "ok")
      BY NotYet
    <2>2. At(r, "rule-filter")
      BY DEF RuleFilter
    <2>3. s.at = 5
      BY <2>1, <2>2, AtIs
    <2>. QED
      BY <2>1, <2>3
  <1>2. PICK kept : kept = Kept(s)
    OBVIOUS
  <1>3. PICK ids : ids = {c.id : c \in ToSet(kept)}
    OBVIOUS
  <1>4. PICK f : f = [a \in ids |-> s.scores[a]]
    OBVIOUS
  <1>5. PICK u : u = [s EXCEPT !.candidates = kept, !.scores = f]
    OBVIOUS
  <1>6. PICK t : t = [u EXCEPT !.at = @ + 1, !.i = 1]
    OBVIOUS
  <1>7. /\ req' = [req EXCEPT ![r] = t] /\ out' = out /\ row' = row /\ copies' = copies
    BY <1>2, <1>3, <1>4, <1>5, <1>6 DEF RuleFilter, Continue
  <1>. HIDE DEF s
  <1>8. /\ kept \in Seq(Candidate)
        /\ \A k \in DOMAIN kept : kept[k] \in ToSet(s.candidates) /\ Allow(s.user, kept[k].category)
        /\ \A j, k \in DOMAIN kept : kept[j].id = kept[k].id => j = k
    BY <1>1, <1>2, KeptIs
  <1>9. \A c \in ToSet(kept) : c \in ToSet(s.candidates) /\ Allow(s.user, c.category)
    BY <1>8 DEF ToSet
  <1>10. ids \subseteq CandidateIDs(s) /\ CandidateIDs(s) \subseteq Articles
    BY <1>1, <1>3, <1>9, CandidatesAre DEF CandidateIDs
  <1>11. f \in Scorings /\ DOMAIN f = ids
    <2>1. \A a \in ids : s.scores[a] \in Int
      BY <1>1, <1>10, ScoringIs DEF Sound, Pending
    <2>2. f \in [ids -> Int] /\ ids \in SUBSET Articles
      BY <1>4, <1>10, <2>1
    <2>. QED
      BY <2>2, IsAScoring
  <1>12. /\ s \in Pending /\ u.at = 5 /\ u.user = s.user /\ u.affinity = s.affinity
         /\ u.candidates = kept /\ u.scores = f /\ u.recalled = s.recalled
    BY <1>1, <1>5 DEF Sound, Pending
  <1>13. CandidateIDs(u) = ids
    BY <1>3, <1>12 DEF CandidateIDs
  <1>14. Sound(u)
    <2>1. u \in Pending
      BY <1>5, <1>8, <1>11, <1>12 DEF Pending
    <2>2. Distinct(u)
      BY <1>8, <1>12 DEF Distinct
    <2>. QED
      BY <1>11, <1>12, <1>13, <2>1, <2>2 DEF Sound
  <1>15. /\ Sound(t) /\ t.at = 6 /\ t.user = s.user /\ t.affinity = s.affinity
         /\ t.candidates = kept /\ t.scores = f /\ t.recalled = s.recalled
         /\ CandidateIDs(t) = ids
    <2>1. u.at < 8
      BY <1>12
    <2>2. /\ Sound(t) /\ t.at = u.at + 1 /\ t.user = u.user
          /\ t.affinity = u.affinity /\ t.candidates = u.candidates
          /\ t.scores = u.scores /\ t.recalled = u.recalled
          /\ CandidateIDs(t) = CandidateIDs(u)
      BY <1>6, <1>14, <2>1, MovesOn
    <2>. QED
      BY <1>12, <1>13, <2>2
  <1>16. Progress(t)
    <2>1. KnowsUser(t)
      BY <1>1, <1>15 DEF Progress, KnowsUser
    <2>2. KeepsRecalled(t)
      BY <1>1, <1>10, <1>15 DEF Progress, KeepsRecalled
    <2>3. \A a \in ids : f[a] = s.recalled[a] + 2
      BY <1>1, <1>4, <1>10 DEF Progress, LiftsOnce
    <2>4. LiftsOnce(t)
      BY <1>15, <2>3 DEF LiftsOnce
    <2>5. AllAllowed(t)
      BY <1>9, <1>15 DEF AllAllowed
    <2>6. IsRanked(t)
      BY <1>15 DEF IsRanked
    <2>. QED
      BY <2>1, <2>2, <2>4, <2>5, <2>6 DEF Progress
  <1>17. RequestInv' /\ AnswerInv'
    BY <1>1, <1>7, <1>15, <1>16, OnlyRequest
  <1>18. StoreInv'
    BY <1>7, StoresStay DEF PipelineInv
  <1>. QED
    BY <1>17, <1>18 DEF PipelineInv

LEMMA RankStep ==
  ASSUME PipelineInv, NEW r \in Requests, Rank(r)
  PROVE  PipelineInv'
  <1>. DEFINE s == req[r]
  <1>1. Sound(s) /\ Progress(s) /\ s.at = 6 /\ out[r].status # "ok"
    <2>1. Sound(s) /\ Progress(s) /\ s.at \in 0 .. 8 /\ (s.at # 8 => out[r].status # "ok")
      BY NotYet
    <2>2. At(r, "rank")
      BY DEF Rank
    <2>3. s.at = 6
      BY <2>1, <2>2, AtIs
    <2>. QED
      BY <2>1, <2>3
  <1>2. PICK f : f = [a \in DOMAIN s.scores |->
                        Score(s.user, Category(s, a), s.scores[a], s.affinity)]
    OBVIOUS
  <1>3. PICK u : u = [s EXCEPT !.scores = f]
    OBVIOUS
  <1>4. PICK t : t = [u EXCEPT !.at = @ + 1, !.i = 1]
    OBVIOUS
  <1>5. /\ req' = [req EXCEPT ![r] = t] /\ out' = out /\ row' = row /\ copies' = copies
    BY <1>2, <1>3, <1>4 DEF Rank, Continue
  <1>. HIDE DEF s
  <1>6. /\ s \in Pending /\ s.affinity \in Int /\ DOMAIN s.scores = CandidateIDs(s)
        /\ s.scores \in Scorings
    BY <1>1 DEF Sound, Pending
  <1>7. f \in Scorings /\ DOMAIN f = DOMAIN s.scores
    <2>1. \A a \in DOMAIN s.scores : s.scores[a] \in Int
      BY <1>6, ScoringIs
    <2>2. f \in [DOMAIN s.scores -> Int]
      BY <1>2, <1>6, <2>1, ScoreIsInt
    <2>3. DOMAIN s.scores \in SUBSET Articles
      BY <1>6, ScoringIs
    <2>. QED
      BY <2>2, <2>3, IsAScoring
  <1>8. /\ u.at = 6 /\ u.user = s.user /\ u.affinity = s.affinity
        /\ u.candidates = s.candidates /\ u.scores = f /\ u.recalled = s.recalled
    BY <1>1, <1>3, <1>6 DEF Pending
  <1>9. Sound(u)
    <2>1. u \in Pending
      BY <1>3, <1>6, <1>7, <1>8 DEF Pending
    <2>2. Distinct(u)
      BY <1>1, <1>8 DEF Sound, Distinct
    <2>3. CandidateIDs(u) = CandidateIDs(s)
      BY <1>8 DEF CandidateIDs
    <2>. QED
      BY <1>6, <1>7, <1>8, <2>1, <2>2, <2>3 DEF Sound
  <1>10. /\ Sound(t) /\ t.at = 7 /\ t.user = s.user /\ t.affinity = s.affinity
         /\ t.candidates = s.candidates /\ t.scores = f /\ t.recalled = s.recalled
         /\ CandidateIDs(t) = CandidateIDs(s)
    <2>1. u.at < 8 /\ CandidateIDs(u) = CandidateIDs(s)
      BY <1>8 DEF CandidateIDs
    <2>2. /\ Sound(t) /\ t.at = u.at + 1 /\ t.user = u.user
          /\ t.affinity = u.affinity /\ t.candidates = u.candidates
          /\ t.scores = u.scores /\ t.recalled = u.recalled
          /\ CandidateIDs(t) = CandidateIDs(u)
      BY <1>4, <1>9, <2>1, MovesOn
    <2>. QED
      BY <1>8, <2>1, <2>2
  <1>11. Progress(t)
    <2>1. KnowsUser(t)
      BY <1>1, <1>10 DEF Progress, KnowsUser
    <2>2. KeepsRecalled(t)
      BY <1>1, <1>10 DEF Progress, KeepsRecalled
    <2>3. LiftsOnce(t)
      BY <1>10 DEF LiftsOnce
    <2>4. AllAllowed(t)
      BY <1>1, <1>10 DEF Progress, AllAllowed
    <2>5. ASSUME NEW c \in ToSet(s.candidates)
          PROVE  f[c.id] = Score(s.user, c.category, s.recalled[c.id] + 2, s.affinity)
      <3>1. c.id \in CandidateIDs(s)
        BY DEF CandidateIDs
      <3>2. f[c.id] = Score(s.user, Category(s, c.id), s.scores[c.id], s.affinity)
        BY <1>2, <1>6, <3>1
      <3>3. Category(s, c.id) = c.category
        BY <1>1, CategoryIs
      <3>4. s.scores[c.id] = s.recalled[c.id] + 2
        BY <1>1, <3>1 DEF Progress, LiftsOnce
      <3>. QED
        BY <3>2, <3>3, <3>4
    <2>6. IsRanked(t)
      BY <1>10, <2>5 DEF IsRanked
    <2>. QED
      BY <2>1, <2>2, <2>3, <2>4, <2>6 DEF Progress
  <1>12. RequestInv' /\ AnswerInv'
    BY <1>1, <1>5, <1>10, <1>11, OnlyRequest
  <1>13. StoreInv'
    BY <1>5, StoresStay DEF PipelineInv
  <1>. QED
    BY <1>12, <1>13 DEF PipelineInv

\* The response lists the candidates by the scores that the ranking left.
LEMMA RespondStep ==
  ASSUME PipelineInv, NEW r \in Requests, Respond(r)
  PROVE  PipelineInv'
  <1>. DEFINE s == req[r]
  <1>1. Sound(s) /\ Progress(s) /\ s.at = 8 /\ req' = req /\ row' = row /\ copies' = copies
    <2>1. s.at = Len(Logics) + 1 /\ req' = req /\ row' = row /\ copies' = copies
      BY DEF Respond
    <2>. QED
      BY <2>1, NotYet, LogicsAre
  <1>2. PICK f : f = [a \in CandidateIDs(s) |-> s.scores[a]]
    OBVIOUS
  <1>3. PICK sorted : sorted = Ranked(f)
    OBVIOUS
  <1>4. PICK list : list = [j \in DOMAIN sorted |->
                              [id |-> sorted[j], category |-> Category(s, sorted[j]),
                               score |-> s.scores[sorted[j]]]]
    OBVIOUS
  <1>5. PICK o : o = [status |-> "ok", user |-> s.user, articles |-> list]
    OBVIOUS
  <1>6. out' = [out EXCEPT ![r] = o]
    BY <1>2, <1>3, <1>4, <1>5 DEF Respond
  <1>. HIDE DEF s
  <1>7. /\ s.scores \in Scorings /\ DOMAIN s.scores = CandidateIDs(s)
        /\ CandidateIDs(s) \subseteq Articles /\ s.user \in Users
        /\ s.user \in Tiers \union {"guest"} /\ s.affinity = Affinity(s.user)
    BY <1>1, CandidatesAre DEF Sound, Pending, Progress, KnowsUser
  <1>8. f \in [CandidateIDs(s) -> Int] /\ IsScoring(f) /\ DOMAIN f = CandidateIDs(s)
    <2>1. \A a \in CandidateIDs(s) : s.scores[a] \in Int
      BY <1>7, ScoringIs
    <2>2. f \in [CandidateIDs(s) -> Int]
      BY <1>2, <2>1
    <2>. QED
      BY <1>7, <2>2, IsAScoring
  <1>9. /\ sorted \in Seq(CandidateIDs(s)) /\ DOMAIN sorted = 1 .. Len(sorted)
        /\ \A j \in DOMAIN sorted : sorted[j] \in CandidateIDs(s)
        /\ \A i, j \in DOMAIN sorted : i < j => Before(f, sorted[i], sorted[j])
    BY <1>3, <1>8, RankedIs
  <1>10. ASSUME NEW a \in CandidateIDs(s)
         PROVE  /\ a \in Articles /\ Category(s, a) \in Categories /\ s.scores[a] \in Int
                /\ f[a] = s.scores[a] /\ Allow(s.user, Category(s, a))
                /\ s.scores[a] = Score(s.user, Category(s, a), s.recalled[a] + 2, Affinity(s.user))
    <2>1. PICK c \in ToSet(s.candidates) : c.id = a
      BY DEF CandidateIDs
    <2>2. Category(s, a) = c.category
      BY <1>1, <2>1, CategoryIs
    <2>3. c.category \in Categories
      BY <1>1, <2>1, CandidatesAre
    <2>4. Allow(s.user, c.category)
      BY <1>1, <2>1 DEF Progress, AllAllowed
    <2>5. s.scores[c.id] = Score(s.user, c.category, s.recalled[c.id] + 2, s.affinity)
      BY <1>1, <2>1 DEF Progress, IsRanked
    <2>6. a \in Articles /\ s.scores[a] \in Int
      BY <1>7, ScoringIs
    <2>7. f[a] = s.scores[a]
      BY <1>2
    <2>. QED
      BY <1>7, <2>1, <2>2, <2>3, <2>4, <2>5, <2>6, <2>7
  <1>11. /\ list \in Seq(Shown) /\ DOMAIN list = DOMAIN sorted
         /\ \A j \in DOMAIN sorted : /\ list[j].id = sorted[j]
                                     /\ list[j].category = Category(s, sorted[j])
                                     /\ list[j].score = s.scores[sorted[j]]
    <2>1. \A j \in DOMAIN sorted :
            [id |-> sorted[j], category |-> Category(s, sorted[j]),
             score |-> s.scores[sorted[j]]] \in Shown
      BY <1>9, <1>10 DEF Shown
    <2>2. list \in Seq(Shown)
      BY <1>4, <1>9, <2>1
    <2>. QED
      BY <1>4, <2>2
  <1>12. o \in Answers /\ o.status = "ok" /\ o.user = s.user /\ o.articles = list
    BY <1>5, <1>7, <1>11 DEF Answers
  <1>13. ShowsAllowed(o)
    <2>1. \A j \in DOMAIN list : Allow(s.user, list[j].category)
      BY <1>9, <1>10, <1>11
    <2>. QED
      BY <1>12, <2>1 DEF ShowsAllowed, ToSet
  <1>14. ShowsScores(s, o)
    <2>1. \A j \in DOMAIN list :
            list[j].score = Score(s.user, list[j].category, s.recalled[list[j].id] + 2,
                                  Affinity(s.user))
      BY <1>9, <1>10, <1>11
    <2>. QED
      BY <1>12, <2>1 DEF ShowsScores, ToSet
  <1>15. ShowsInOrder(o)
    <2>1. ASSUME NEW i \in DOMAIN list, NEW j \in DOMAIN list, i < j
          PROVE  \/ list[i].score > list[j].score
                 \/ list[i].score = list[j].score /\ list[i].id < list[j].id
      <3>1. Before(f, sorted[i], sorted[j])
        BY <1>9, <1>11, <2>1
      <3>2. f[sorted[i]] = list[i].score /\ f[sorted[j]] = list[j].score
        BY <1>9, <1>10, <1>11
      <3>. QED
        BY <1>11, <3>1, <3>2 DEF Before
    <2>. QED
      BY <1>12, <2>1 DEF ShowsInOrder
  <1>16. RequestInv'
    BY <1>1 DEF PipelineInv, RequestInv
  <1>17. AnswerInv'
    <2>1. /\ out' \in [Requests -> Answers] /\ out'[r] = o
          /\ \A q \in Requests \ {r} : out'[q] = out[q]
      BY <1>6, <1>12 DEF PipelineInv, AnswerInv
    <2>2. Answered(req[r], out'[r])
      BY <1>1, <1>12, <1>13, <1>14, <1>15, <2>1 DEF Answered, s
    <2>3. \A q \in Requests \ {r} : Answered(req[q], out'[q])
      BY <2>1 DEF PipelineInv, AnswerInv
    <2>. QED
      BY <1>1, <2>1, <2>2, <2>3 DEF AnswerInv
  <1>. QED
    BY <1>1, <1>16, <1>17, StoresStay DEF PipelineInv

LEMMA FailStep ==
  ASSUME PipelineInv, NEW r \in Requests, Fail(r)
  PROVE  PipelineInv'
  <1>. DEFINE s == req[r]
  <1>1. Sound(s) /\ out[r].status = "none"
    BY NotYet DEF Fail
  <1>2. PICK t : t = [s EXCEPT !.at = 0]
    OBVIOUS
  <1>3. PICK o : o = [out[r] EXCEPT !.status = "error"]
    OBVIOUS
  <1>4. /\ req' = [req EXCEPT ![r] = t] /\ out' = [out EXCEPT ![r] = o]
        /\ row' = row /\ copies' = copies
    BY <1>2, <1>3 DEF Fail, PipelineInv, RequestInv, AnswerInv
  <1>. HIDE DEF s
  <1>5. /\ s \in Pending /\ t.at = 0 /\ t.candidates = s.candidates /\ t.scores = s.scores
    BY <1>1, <1>2 DEF Sound, Pending
  <1>6. Sound(t)
    <2>1. t \in Pending
      BY <1>2, <1>5 DEF Pending
    <2>. QED
      BY <1>1, <1>5, <2>1 DEF Sound, Distinct, CandidateIDs
  <1>7. Progress(t)
    BY <1>5 DEF Progress, KnowsUser, KeepsRecalled, LiftsOnce, AllAllowed, IsRanked
  <1>8. o \in Answers /\ o.status = "error" /\ o.articles = <<>>
    <2>1. out[r] \in Answers /\ out[r].articles = <<>>
      BY <1>1 DEF PipelineInv, AnswerInv, Answered
    <2>. QED
      BY <1>3, <2>1 DEF Answers
  <1>9. RequestInv'
    <2>1. /\ DOMAIN req' = Requests /\ req'[r] = t
          /\ \A q \in Requests \ {r} : req'[q] = req[q]
      BY <1>4 DEF PipelineInv, RequestInv
    <2>2. \A q \in Requests : Sound(req'[q]) /\ Progress(req'[q])
      BY <1>6, <1>7, <2>1 DEF PipelineInv, RequestInv
    <2>. QED
      BY <2>1, <2>2 DEF RequestInv
  <1>10. AnswerInv'
    <2>1. /\ out' \in [Requests -> Answers] /\ out'[r] = o
          /\ \A q \in Requests \ {r} : out'[q] = out[q] /\ req'[q] = req[q]
      BY <1>4, <1>8 DEF PipelineInv, AnswerInv, RequestInv
    <2>2. Answered(req'[r], out'[r])
      BY <1>8, <2>1 DEF Answered
    <2>3. \A q \in Requests \ {r} : Answered(req'[q], out'[q])
      BY <2>1 DEF PipelineInv, AnswerInv
    <2>. QED
      BY <2>1, <2>2, <2>3 DEF AnswerInv
  <1>. QED
    BY <1>4, <1>9, <1>10, StoresStay DEF PipelineInv

LEMMA EditStep ==
  ASSUME PipelineInv, NEW k \in DOMAIN row, Edit(k)
  PROVE  PipelineInv'
  <1>1. PICK v \in Kind(k) \union {Absent} : row' = [row EXCEPT ![k] = v]
    BY DEF Edit, Kind
  <1>2. copies' = copies /\ req' = req /\ out' = out
    BY DEF Edit
  <1>3. StoreInv'
    <2>1. DOMAIN row' = DOMAIN row
      BY <1>1
    <2>2. \A m \in DOMAIN row : row'[m] \in Kind(m) \union {Absent}
      BY <1>1 DEF PipelineInv, StoreInv
    <2>. QED
      BY <1>2, <2>1, <2>2 DEF PipelineInv, StoreInv
  <1>. QED
    BY <1>2, <1>3 DEF PipelineInv, RequestInv, AnswerInv

-----------------------------------------------------------------------------
(***************************************************************************)
(* The invariant and what follows from it.                                 *)
(***************************************************************************)
LEMMA InitHolds == Init => PipelineInv
  <1>. SUFFICES ASSUME Init PROVE PipelineInv
    OBVIOUS
  <1>1. StoreInv
    BY SeedAssumption DEF Init, StoreInv, Kind
  <1>2. Sound(Waiting) /\ Progress(Waiting)
    <2>1. ToSet(<<>>) = {} /\ DOMAIN <<>> = {}
      BY DEF ToSet
    <2>2. CandidateIDs(Waiting) = {}
      BY <2>1 DEF Waiting, CandidateIDs
    <2>3. <<>> \in Scorings
      BY DEF Scorings
    <2>4. Waiting \in Pending
      BY <2>3 DEF Waiting, Pending, Users
    <2>5. Sound(Waiting)
      BY <2>1, <2>2, <2>4 DEF Sound, Distinct, Waiting
    <2>6. Progress(Waiting)
      BY DEF Waiting, Progress, KnowsUser, KeepsRecalled, LiftsOnce, AllAllowed, IsRanked
    <2>. QED
      BY <2>5, <2>6
  <1>3. RequestInv
    BY <1>2 DEF Init, RequestInv
  <1>4. AnswerInv
    <2>1. NoResponse \in Answers
      BY DEF NoResponse, Answers, Users
    <2>2. \A s : Answered(s, NoResponse)
      BY DEF NoResponse, Answered
    <2>. QED
      BY <2>1, <2>2 DEF Init, AnswerInv
  <1>. QED
    BY <1>1, <1>3, <1>4 DEF PipelineInv

LEMMA NextHolds == PipelineInv /\ [Next]_vars => PipelineInv'
  <1>. SUFFICES ASSUME PipelineInv, [Next]_vars PROVE PipelineInv'
    OBVIOUS
  <1>1. CASE UNCHANGED vars
    BY <1>1 DEF vars, PipelineInv, StoreInv, RequestInv, AnswerInv
  <1>2. ASSUME NEW r \in Requests, Run(r)
        PROVE  PipelineInv'
    BY <1>2, IdleStep, UserFeatureStep, RecallStep, ArticleFeatureStep, RuleFilterStep,
       RankStep, RespondStep, FailStep DEF Run
  <1>3. ASSUME NEW k \in DOMAIN row, Edit(k)
        PROVE  PipelineInv'
    BY <1>3, EditStep
  <1>. QED
    BY <1>1, <1>2, <1>3 DEF Next, Finished

LEMMA PipelineAlways == Spec => []PipelineInv
  BY InitHolds, NextHolds, PTL DEF Spec

\* Copies are rows of their table, and each candidate of a request is there
\* once, with a score of its own and no other scores (app.go:161-218).
THEOREM RecommendTyped == Spec => []TypeOK
  <1>1. PipelineInv => TypeOK
    <2>. SUFFICES ASSUME PipelineInv PROVE TypeOK
      OBVIOUS
    <2>1. \A k \in DOMAIN row : copies[k] \subseteq (IF k = User THEN Tiers ELSE Rows)
      BY DEF PipelineInv, StoreInv, Kind
    <2>2. ASSUME NEW r \in Requests
          PROVE  /\ req[r].at \in 0 .. Len(Logics) + 1
                 /\ req[r].user \in Tiers \union {"guest", Absent}
                 /\ Cardinality(CandidateIDs(req[r])) = Len(req[r].candidates)
                 /\ DOMAIN req[r].scores = CandidateIDs(req[r])
      <3>1. Sound(req[r]) /\ req[r].at \in 0 .. 8
        BY NotYet
      <3>2. req[r].user \in Users /\ DOMAIN req[r].scores = CandidateIDs(req[r])
        BY <3>1 DEF Sound, Pending
      <3>3. Cardinality(CandidateIDs(req[r])) = Len(req[r].candidates)
        BY <3>1, EachOnce
      <3>. QED
        BY <3>1, <3>2, <3>3, LogicsAre DEF Users
    <2>. QED
      BY <2>1, <2>2 DEF TypeOK
  <1>. QED
    BY <1>1, PipelineAlways, PTL

\* Whatever the recall, the two caches and the edits of others disagree about,
\* a response shows nothing that its shown user may not see (app.go:503-513).
THEOREM ShowsWhatIsAllowed == Spec => []PolicyHolds
  <1>1. PipelineInv => PolicyHolds
    <2>1. ASSUME PipelineInv, NEW r \in Requests
          PROVE  ShowsAllowed(out[r])
      <3>1. CASE out[r].status = "ok"
        BY <2>1, <3>1 DEF PipelineInv, AnswerInv, Answered
      <3>2. CASE out[r].status # "ok"
        BY <2>1, <3>2 DEF PipelineInv, AnswerInv, Answered, ShowsAllowed, ToSet
      <3>. QED
        BY <3>1, <3>2
    <2>. QED
      BY <2>1 DEF PolicyHolds, ShowsAllowed
  <1>. QED
    BY <1>1, PipelineAlways, PTL

\* A response is ordered by scores that follow from what it shows: the recalled
\* score, lifted once, boosted for the shown tier and category (app.go:193-210,
\* 486, 528-532).
THEOREM RanksByWhatItShows == Spec => []RankedAsShown
  <1>1. PipelineInv => RankedAsShown
    <2>1. ASSUME PipelineInv, NEW r \in Requests
          PROVE  ShowsScores(req[r], out[r]) /\ ShowsInOrder(out[r])
      <3>1. CASE out[r].status = "ok"
        BY <2>1, <3>1 DEF PipelineInv, AnswerInv, Answered
      <3>2. CASE out[r].status # "ok"
        BY <2>1, <3>2 DEF PipelineInv, AnswerInv, Answered, ShowsScores, ShowsInOrder, ToSet
      <3>. QED
        BY <3>1, <3>2
    <2>. QED
      BY <2>1 DEF RankedAsShown, ShowsScores, ShowsInOrder
  <1>. QED
    BY <1>1, PipelineAlways, PTL

=============================================================================
