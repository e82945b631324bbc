----------------------------- MODULE Recommend -----------------------------
(***************************************************************************)
(* The recommendation pipeline of examples/09_production_like_sanitized:   *)
(* each request runs the logics of all stages one after the other, over a  *)
(* database that others edit and caches that nothing invalidates.          *)
(*                                                                         *)
(* Stage.Run never looks at ExecMode, so a "concurrent" stage of the       *)
(* config runs in order too.  Scores are hundredths, and the boosts whole  *)
(* percents, so that no score is rounded.                                  *)
(***************************************************************************)
EXTENDS Integers, FiniteSets, SequencesExt

CONSTANTS
  Requests,    \* the requests, all for one user
  Articles,    \* article IDs
  Categories,  \* what an article's category can be
  Scores,      \* what an article's score can be
  Seed,        \* the rows in the beginning
  Absent,      \* no row
  Limit,       \* the recall's limit
  MaxEdits     \* bound: the rows that others change

User == 0
Tiers == {"basic", "premium"}
Rows == [category : Categories, score : Scores]

ASSUME SeedAssumption ==
  /\ Articles \subseteq Nat \ {User}
  /\ DOMAIN Seed = {User} \union Articles
  /\ Seed[User] \in Tiers \union {Absent}
  /\ \A a \in Articles : Seed[a] \in Rows \union {Absent}

ASSUME DataAssumption == IsFiniteSet(Articles) /\ Scores \subseteq Int /\ Limit \in Int

VARIABLES
  row,     \* the database
  edits,   \* how many rows others have changed
  copies,  \* per key, the rows that a layered KV may have in memory or Redis
  req,     \* per request, its pipelineState and its place in the pipeline
  out      \* per request, its response

vars == <<row, edits, copies, req, out>>

\* Faulty: the policy is applied to what the recall found.
StagesFilterFirst ==
  <<<<"noop", "user-feature">>, <<"recall">>, <<"rule-filter">>, <<"article-feature">>,
    <<"rank">>, <<"noop">>>>

\* Faulty: what the recall found is ranked.
StagesRankFirst ==
  <<<<"noop", "user-feature">>, <<"recall">>, <<"rank">>, <<"article-feature">>,
    <<"rule-filter">>, <<"noop">>>>

\* The stages of the pipeline with their logics, by driver.
Stages ==
  <<<<"noop", "user-feature">>, <<"recall">>, <<"article-feature">>, <<"rule-filter">>,
    <<"rank">>, <<"noop">>>>

\* The order in which Pipeline.Run and Stage.Run run them.
Logics == Stages[1] \o Stages[2] \o Stages[3] \o Stages[4] \o Stages[5] \o Stages[6]

Waiting == [at |-> 0, i |-> 1, user |-> Absent, affinity |-> 0, candidates |-> <<>>,
            scores |-> <<>>, recalled |-> <<>>]

CandidateIDs(s) == {c.id : c \in ToSet(s.candidates)}

NoResponse == [status |-> "none", user |-> Absent, articles |-> <<>>]

Init ==
  /\ row = Seed /\ edits = 0
  /\ copies = [k \in DOMAIN Seed |-> {}]
  /\ req = [r \in Requests |-> Waiting]
  /\ out = [r \in Requests |-> NoResponse]

-----------------------------------------------------------------------------
(***************************************************************************)
(* The services and the stores.                                            *)
(***************************************************************************)
\* The order that the store and the pipeline sort by: score, then ID.
Before(score, a, b) == score[a] > score[b] \/ (score[a] = score[b] /\ a < b)

\* The IDs that have a score, in that order.
Ranked(score) ==
  LET ids == DOMAIN score
      Place(a) == Cardinality({b \in ids : Before(score, b, a)}) + 1
  IN [k \in 1 .. Cardinality(ids) |-> CHOOSE a \in ids : Place(a) = k]

Affinity(tier) ==
  CASE tier = "premium" -> 115
    [] tier = "basic"   -> 100
    [] OTHER            -> 95

Allow(tier, category) == ~(tier = "basic" /\ category = "premium")

Score(tier, category, base, affinity) ==
  base * (IF tier = "premium" THEN 108 ELSE 100)
       * (IF category = "operations" THEN 103 ELSE 100) * affinity

\* ListTopArticles: the best, no more than the limit.
Top ==
  LET all == Ranked([a \in {b \in Articles : row[b] # Absent} |-> row[a].score])
      limit == IF Limit <= 0 THEN 10 ELSE Limit
  IN [k \in 1 .. (IF Len(all) < limit THEN Len(all) ELSE limit) |-> all[k]]

\* Get of a layered KV: a copy of whatever age, for each expires in its own
\* time, or the row, of which it leaves a copy.  With no copy and no row it is
\* ErrNotFound.
Found(k) == copies[k] \union ({row[k]} \ {Absent})

NotFound(k) == row[k] = Absent

Fill(k, v) == copies' = [copies EXCEPT ![k] = @ \union {v}]

-----------------------------------------------------------------------------
(***************************************************************************)
(* A request.                                                              *)
(***************************************************************************)
At(r, logic) ==
  /\ req[r].at \in DOMAIN Logics
  /\ Logics[req[r].at] = logic

\* The logic is done, and leaves the state s.
Continue(r, s) == req' = [req EXCEPT ![r] = [s EXCEPT !.at = @ + 1, !.i = 1]]

Begin(r) ==
  /\ req[r].at = 0 /\ out[r].status = "none"
  /\ Continue(r, req[r])
  /\ UNCHANGED <<row, edits, copies, out>>

Noop(r) ==
  /\ At(r, "noop")
  /\ Continue(r, req[r])
  /\ UNCHANGED <<row, edits, copies, out>>

\* A user the stores do not know is a guest.
UserFeature(r) ==
  LET Prepared(tier) ==
        Continue(r, [req[r] EXCEPT !.user = tier, !.affinity = Affinity(tier)])
  IN /\ At(r, "user-feature")
     /\ \/ \E tier \in Found(User) : Prepared(tier) /\ Fill(User, tier)
        \/ NotFound(User) /\ Prepared("guest") /\ UNCHANGED copies
     /\ UNCHANGED <<row, edits, out>>

Recall(r) ==
  LET scores == [a \in ToSet(Top) |-> row[a].score]
  IN /\ At(r, "recall")
     /\ Continue(r, [req[r] EXCEPT
          !.candidates = [j \in DOMAIN Top |-> [id |-> Top[j], category |-> row[Top[j]].category]],
          !.scores = scores, !.recalled = scores])
     /\ UNCHANGED <<row, edits, copies, out>>

\* The candidates are read one by one; one that is gone ends the request.
ArticleFeature(r) ==
  LET s == req[r]
      id == s.candidates[s.i].id
  IN /\ At(r, "article-feature") /\ s.i <= Len(s.candidates)
     /\ \E v \in Found(id) :
          /\ req' = [req EXCEPT ![r].i = @ + 1,
                                ![r].candidates[s.i].category = v.category,
                                ![r].scores[id] = @ + 2]
          /\ Fill(id, v)
     /\ UNCHANGED <<row, edits, out>>

Enriched(r) ==
  /\ At(r, "article-feature") /\ req[r].i > Len(req[r].candidates)
  /\ Continue(r, req[r])
  /\ UNCHANGED <<row, edits, copies, out>>

\* The candidates that the user may see, in their order.
Kept(s) ==
  LET allowed == {j \in DOMAIN s.candidates : Allow(s.user, s.candidates[j].category)}
      places == Ranked([j \in allowed |-> 0])
  IN [k \in DOMAIN places |-> s.candidates[places[k]]]

\* Faulty: the scores of what is filtered out stay.
RuleFilterKeepingScores(r) ==
  /\ At(r, "rule-filter")
  /\ Continue(r, [req[r] EXCEPT !.candidates = Kept(req[r])])
  /\ UNCHANGED <<row, edits, copies, out>>

RuleFilter(r) ==
  LET kept == Kept(req[r])
  IN /\ At(r, "rule-filter")
     /\ Continue(r, [req[r] EXCEPT !.candidates = kept,
                                   !.scores = [a \in {c.id : c \in ToSet(kept)} |-> @[a]]])
     /\ UNCHANGED <<row, edits, copies, out>>

\* The category that the candidate a has by now.
Category(s, a) == (CHOOSE c \in ToSet(s.candidates) : c.id = a).category

Rank(r) ==
  LET s == req[r]
  IN /\ At(r, "rank")
     /\ Continue(r, [s EXCEPT !.scores = [a \in DOMAIN @ |->
                               Score(s.user, Category(s, a), @[a], s.affinity)]])
     /\ UNCHANGED <<row, edits, copies, out>>

\* The end of Pipeline.Run: sorted by score, then ID.
Respond(r) ==
  LET s == req[r]
      sorted == Ranked([a \in CandidateIDs(s) |-> s.scores[a]])
  IN /\ s.at = Len(Logics) + 1 /\ out[r].status = "none"
     /\ out' = [out EXCEPT ![r] =
          [status |-> "ok", user |-> s.user,
           articles |-> [j \in DOMAIN sorted |->
             [id |-> sorted[j], category |-> Category(s, sorted[j]),
              score |-> s.scores[sorted[j]]]]]]
     /\ UNCHANGED <<row, edits, copies, req>>

\* A store fails, the deadline passes, or a candidate has been deleted: the
\* response is an error and nothing else.
Fail(r) ==
  /\ out[r].status = "none"
  /\ \E io \in {"user-feature", "recall", "article-feature"} : At(r, io)
  /\ out' = [out EXCEPT ![r].status = "error"]
  /\ req' = [req EXCEPT ![r].at = 0]
  /\ UNCHANGED <<row, edits, copies>>

\* Somebody else changes, adds or deletes a row.
Edit(k) ==
  /\ edits < MaxEdits
  /\ \E v \in (IF k = User THEN Tiers ELSE Rows) \union {Absent} :
       v # row[k] /\ row' = [row EXCEPT ![k] = v]
  /\ edits' = edits + 1
  /\ UNCHANGED <<copies, req, out>>

Run(r) ==
  \/ Begin(r) \/ Noop(r) \/ UserFeature(r) \/ Recall(r) \/ ArticleFeature(r)
  \/ Enriched(r) \/ RuleFilter(r) \/ Rank(r) \/ Respond(r) \/ Fail(r)

Finished == (\A r \in Requests : out[r].status # "none") /\ UNCHANGED vars

Next == (\E r \in Requests : Run(r)) \/ (\E k \in DOMAIN row : Edit(k)) \/ Finished

Spec == Init /\ [][Next]_vars

-----------------------------------------------------------------------------
(***************************************************************************)
(* Properties.                                                             *)
(***************************************************************************)

\* The pipelineState: after each logic ScoreByID has the scores of the
\* candidates, each of them once, and no others (app.go:161-218).
TypeOK ==
  /\ \A k \in DOMAIN row : copies[k] \subseteq (IF k = User THEN Tiers ELSE Rows)
  /\ \A r \in Requests : LET s == req[r] IN
       /\ s.at \in 0 .. Len(Logics) + 1
       /\ s.user \in Tiers \union {"guest", Absent}
       /\ Cardinality(CandidateIDs(s)) = Len(s.candidates)
       /\ DOMAIN s.scores = CandidateIDs(s)

\* A response shows no article whose shown category its shown user may not
\* see (app.go:235-240, 503-513), though the recall, the two caches and the
\* edits of others may disagree about both while the request runs.
PolicyHolds ==
  \A r \in Requests : \A a \in ToSet(out[r].articles) : Allow(out[r].user, a.category)

\* The order of a response follows from what it shows: every score is the
\* recalled one, lifted once and boosted for the shown tier and category
\* (app.go:193-210, 486, 528-532).
RankedAsShown ==
  \A r \in Requests : LET shown == out[r].articles IN
    /\ \A a \in ToSet(shown) :
         a.score = Score(out[r].user, a.category, req[r].recalled[a.id] + 2,
                         Affinity(out[r].user))
    /\ \A i, j \in DOMAIN shown : i < j =>
         \/ shown[i].score > shown[j].score
         \/ shown[i].score = shown[j].score /\ shown[i].id < shown[j].id

=============================================================================
