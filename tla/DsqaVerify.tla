------------------------------ MODULE DsqaVerify ------------------------------
(***************************************************************************)
(* The F1 verifier of DeepSearchQA runs (recipe/web_search/eval/           *)
(* dsqa_utils.py), which run_eval_config.py has make a pass over every run *)
(* directory after the ordinary judge: a pool of threads asks a judge to   *)
(* grade every row, again if its reply is of no use; replies are kept on   *)
(* disk under a hash of the question and taken from there by later passes. *)
(* Between passes the run may be resumed and a prediction change.          *)
(*                                                                         *)
(* A prediction is the number of its version.  A reply is what grading can *)
(* tell of it: no content, content that is not the JSON asked for, or the  *)
(* grades - whether some expected answers were found, some missed, and     *)
(* whether there were answers nobody expected.                             *)
(***************************************************************************)
EXTENDS Integers, FiniteSets

CONSTANTS
  DsqaRows,      \* the tasks of the run
  GraderWorkers, \* dsqa_f1_verify.workers; a single one takes the rows in turn, without a pool
  GraderRetries, \* dsqa_f1_verify.retries
  Grades,        \* grades a judge may give: records [found, missed, extra] of Booleans
  MaxVersions,   \* bound on the predictions of a row
  MaxPasses      \* bound on the passes

ASSUME DsqaAssumption ==
  /\ IsFiniteSet(DsqaRows)
  /\ GraderWorkers \in Nat \ {0, 1} /\ {GraderRetries, MaxVersions} \subseteq Nat \ {0} /\ MaxPasses \in Nat
  /\ Grades \subseteq [found : BOOLEAN, missed : BOOLEAN, extra : BOOLEAN]

VARIABLES
  prediction,  \* per row, the version of its prediction; 0 is an empty one
  replies,     \* dsqa_f1_raw/responses, per row and version
  pass,        \* the number of the pass
  grading,     \* per row, where _process_row is
  verified     \* the artifacts of the latest complete pass: ratings and project_rating

dsqaVars == <<prediction, replies, pass, grading, verified>>

NoContent == [kind |-> "empty"]
NotJson == [kind |-> "malformed"]
Graded(grades) == [kind |-> "graded", grades |-> grades]
Replies == {NoContent, NotJson} \cup {Graded(g) : g \in Grades}

NoFile == [kind |-> "none"]
TornFile == [kind |-> "torn"]
Versions == 0..MaxVersions

-----------------------------------------------------------------------------
(***************************************************************************)
(* The rating of a row, filled in by reduce_response as replies come.      *)
(***************************************************************************)
NoGrades == [found |-> FALSE, missed |-> FALSE, extra |-> FALSE]
NewRating == [emptyModel |-> FALSE, emptyRater |-> FALSE, invalid |-> FALSE, grades |-> NoGrades]

\* Each flag is raised where its error is noticed, and lowered nowhere.
Reduced(rating, version, reply) ==
  IF version = 0 THEN [rating EXCEPT !.emptyModel = TRUE]
  ELSE IF reply = NoContent THEN [rating EXCEPT !.emptyRater = TRUE]
  ELSE IF reply = NotJson THEN [rating EXCEPT !.invalid = TRUE]
  ELSE [rating EXCEPT !.grades = reply.grades]

Usable(rating) == ~rating.invalid /\ ~rating.emptyRater

\* aggregate_ratings: every rating is counted in one class, the first that fits.
ClassOf(rating) ==
  IF rating.invalid THEN "invalid"
  ELSE IF rating.emptyRater THEN "empty_rater"
  ELSE IF rating.emptyModel THEN "empty_model"
  ELSE "valid"

Expected(g) == g.found \/ g.missed
Complete(g) == ~g.missed
ScoreOf(g) ==
  IF Expected(g) /\ ~g.found THEN "fully_incorrect"
  ELSE IF Complete(g) /\ g.extra THEN "correct_with_excessive"
  ELSE IF Complete(g) THEN "all_correct"
  ELSE "partly"

Tally(ratings) ==
  LET In(class) == {r \in DsqaRows : ClassOf(ratings[r].rating) = class}
      Scored(score) == Cardinality({r \in In("valid") : ScoreOf(ratings[r].rating.grades) = score})
  IN  [total |-> Cardinality(DsqaRows), valid |-> Cardinality(In("valid")),
       unusable |-> Cardinality(In("invalid") \cup In("empty_rater")), blank |-> Cardinality(In("empty_model")),
       correct |-> Scored("all_correct"), incorrect |-> Scored("fully_incorrect"),
       excessive |-> Scored("correct_with_excessive")]

-----------------------------------------------------------------------------
NotSubmitted == [at |-> "waiting", attempt |-> 0, unused |-> FALSE, rating |-> NewRating]
NoArtifacts == [ratings |-> <<>>, project |-> <<>>]

DsqaInit ==
  /\ prediction = [r \in DsqaRows |-> 0]
  /\ replies = [r \in DsqaRows |-> [v \in Versions |-> NoFile]]
  /\ pass = 0
  /\ grading = [r \in DsqaRows |-> NotSubmitted]
  /\ verified = NoArtifacts

Idle == \A r \in DsqaRows : grading[r].at = "waiting"
InPass == ~Idle

\* run_dsqa_f1_verify: the rows of the run are submitted to the pool.
BeginGrading ==
  /\ Idle /\ pass < MaxPasses
  /\ pass' = pass + 1
  /\ grading' = [r \in DsqaRows |-> [NotSubmitted EXCEPT !.at = "submitted"]]
  /\ UNCHANGED <<prediction, replies, verified>>

\* Defect in the operator below: the file is named after the task alone.
FileOfTask(r) == 0

\* The stem hashes the prompt, and with it the prediction.
FileOf(r) == prediction[r]

\* _process_row up to the retries: a reply on disk that is of use is the row's.
TakeRow(r) ==
  /\ grading[r].at = "submitted"
  /\ Cardinality({q \in DsqaRows : grading[q].at = "asking"}) < GraderWorkers
  /\ LET kept == replies[r][FileOf(r)]
         cached == Reduced(NewRating, prediction[r], kept)
     IN  grading' = [grading EXCEPT ![r] =
           IF kept \in Replies /\ Usable(cached) THEN [@ EXCEPT !.at = "rated", !.rating = cached]
                                                ELSE [@ EXCEPT !.at = "asking"]]
  /\ UNCHANGED <<prediction, replies, pass, verified>>

\* A use of the last attempt that gave a reply, else a rating without one.
RetriesSpent(row) ==
  IF row.unused THEN [row EXCEPT !.at = "rated"] ELSE [row EXCEPT !.at = "rated", !.rating.emptyRater = TRUE]

AfterUse(row) == IF row.attempt = GraderRetries THEN RetriesSpent(row) ELSE row

\* The judge replied: the reply is on disk before it is looked at.
Reply(r) ==
  /\ grading[r].at = "asking"
  /\ \E reply \in Replies :
       LET rating == Reduced(grading[r].rating, prediction[r], reply)
           row == [grading[r] EXCEPT !.attempt = @ + 1, !.rating = rating]
       IN  /\ replies' = [replies EXCEPT ![r][FileOf(r)] = reply]
           /\ grading' = [grading EXCEPT ![r] =
                IF Usable(rating) THEN [row EXCEPT !.at = "rated"] ELSE AfterUse([row EXCEPT !.unused = TRUE])]
  /\ UNCHANGED <<prediction, pass, verified>>

\* The call failed in a way that is retried.
CallFailed(r) ==
  /\ grading[r].at = "asking"
  /\ grading' = [grading EXCEPT ![r] = AfterUse([grading[r] EXCEPT !.attempt = @ + 1])]
  /\ UNCHANGED <<prediction, replies, pass, verified>>

\* Or in another: the row's thread is gone, and the pass will be without artifacts.
CallRaised(r) ==
  /\ grading[r].at = "asking"
  /\ grading' = [grading EXCEPT ![r].at = "raised"]
  /\ UNCHANGED <<prediction, replies, pass, verified>>

GradingOver == InPass /\ \A r \in DsqaRows : grading[r].at \in {"rated", "raised"}

\* The ratings in the order of the rows, and what they add up to.
Publish ==
  /\ GradingOver /\ \A r \in DsqaRows : grading[r].at = "rated"
  /\ LET ratings == [r \in DsqaRows |-> [rating |-> grading[r].rating, version |-> prediction[r]]]
     IN  verified' = [ratings |-> ratings, project |-> Tally(ratings)]
  /\ grading' = [r \in DsqaRows |-> NotSubmitted]
  /\ UNCHANGED <<prediction, replies, pass>>

\* _run_dsqa_f1_verify_pass goes on with the next directory.
Abandon ==
  /\ GradingOver /\ \E r \in DsqaRows : grading[r].at = "raised"
  /\ grading' = [r \in DsqaRows |-> NotSubmitted]
  /\ UNCHANGED <<prediction, replies, pass, verified>>

\* The process dies; a reply that was being written is cut short.
VerifierDies ==
  /\ InPass
  /\ replies' \in {replies} \cup
       {[replies EXCEPT ![r][FileOf(r)] = TornFile] : r \in {q \in DsqaRows : grading[q].at = "asking"}}
  /\ grading' = [r \in DsqaRows |-> NotSubmitted]
  /\ UNCHANGED <<prediction, pass, verified>>

\* The run is resumed between passes; the artifacts stay until they are written anew.
PredictAnew(r) ==
  /\ Idle /\ prediction[r] < MaxVersions
  /\ prediction' = [prediction EXCEPT ![r] = @ + 1]
  /\ UNCHANGED <<replies, pass, grading, verified>>

DsqaNext ==
  \/ BeginGrading \/ Publish \/ Abandon \/ VerifierDies
  \/ \E r \in DsqaRows : TakeRow(r) \/ Reply(r) \/ CallFailed(r) \/ CallRaised(r) \/ PredictAnew(r)

DsqaSpec == DsqaInit /\ [][DsqaNext]_dsqaVars

-----------------------------------------------------------------------------
(***************************************************************************)
(* Properties.                                                             *)
(***************************************************************************)
Published == verified # NoArtifacts
KeptFor(r) == replies[r][verified.ratings[r].version]

\* What a pass publishes can be accounted for afterwards, whatever threads, retries,
\* deaths and new predictions there were: every row is in one class, the outcomes of
\* valid ones do not overlap, and the grades of a valid row are those of the reply
\* kept for the very prediction it had, so that a later pass would find them again.
RatingsFounded ==
  Published =>
    /\ verified.project.total = verified.project.valid + verified.project.unusable + verified.project.blank
    /\ verified.project.correct + verified.project.incorrect + verified.project.excessive <= verified.project.valid
    /\ \A r \in DsqaRows :
         ClassOf(verified.ratings[r].rating) = "valid" =>
           KeptFor(r) \in {TornFile, Graded(verified.ratings[r].rating.grades)}
=============================================================================
