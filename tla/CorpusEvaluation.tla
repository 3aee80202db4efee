-------------------------- MODULE CorpusEvaluation --------------------------
(***************************************************************************)
(* Evaluating a corpus: runTutorResponseCorpus, runTutorEval and            *)
(* prepareTutorResponseCorpusResume of src/src/runner under the command     *)
(* tutorbench-evaluate, on a corpus that is collected further in between.   *)
(*                                                                         *)
(* An evaluation reads the corpus, has every selected case-run judged once, *)
(* and writes its result at the end.  A case-run that ends in an error is   *)
(* judged again when the result is given back with --resume-evaluation; the *)
(* others are reused, if everything that gave them a meaning is the same.   *)
(*                                                                         *)
(* Scores are abstracted to whether there is one; what an errored case-run  *)
(* keeps for diagnosis is left out.  The judge, the scoring and the         *)
(* response behind a verdict are a history, the code stores them only once, *)
(* for the whole result.                                                    *)
(***************************************************************************)
EXTENDS CorpusCollection

CONSTANTS
  Judges,       (* semantic identities of the judges                        *)
  NoJudge,      (* no judge is configured                                   *)
  JudgedCases,  (* the cases with a rubric that needs a judge               *)
  Scorings,     (* identities of the scoring configurations                 *)
  Unweighted,   (* pairs <<scoring, case>>: no category of it has a weight  *)
  Limits,       (* values of --limit                                        *)
  NoLimit,      (* no --limit                                               *)
  Paths,        (* where results are written                                *)
  Nothing       (* no --resume-evaluation                                   *)

ASSUME EvaluationAssumption ==
  /\ JudgedCases \subseteq Cases
  /\ Unweighted \subseteq Scorings \X Cases
  /\ Limits \subseteq Nat \ {0}

VARIABLES
  evaluations   (* the file at each path                                    *)

vars == <<collectionVars, evaluations>>

JudgeOptions == Judges \cup {NoJudge}
LimitOptions == Limits \cup {NoLimit}

-----------------------------------------------------------------------------
(* Selection: the requested cases, or all with a response, cut by the limit. *)

CasesIn(c) == {k[1] : k \in DOMAIN c.responses}
FirstCases(cases, limit) ==
  IF limit = NoLimit THEN cases
  ELSE {i \in cases : Cardinality({j \in cases : j < i}) < limit}
SelectedCases(c, requested, limit) ==
  FirstCases(IF requested = {} THEN CasesIn(c) ELSE requested, limit)

-----------------------------------------------------------------------------
(* One case-run: runCase with executeTutorEvalJudge. *)

Errored == [status |-> "error"]
Complete(result) == result.status # "error"

Verdict(k, response, judge, scoring, status) ==
  [status |-> status, scored |-> <<scoring, k[1]>> \notin Unweighted,
   response |-> response, judge |-> judge, scoring |-> scoring]

(* What a case-run may come to: an error when its response is missing, when  *)
(* it needs a judge and there is none, and whenever a rubric cannot be       *)
(* evaluated; only a case with a score can pass.                             *)
Outcomes(k, c, judge, scoring) ==
  IF k \notin DOMAIN c.responses \/ (k[1] \in JudgedCases /\ judge = NoJudge)
  THEN {Errored}
  ELSE {Errored, Verdict(k, c.responses[k], judge, scoring, "failed")} \cup
       {v \in {Verdict(k, c.responses[k], judge, scoring, "passed")} : v.scored}

-----------------------------------------------------------------------------
(* The result of a run, and who accepts it. *)

WithStatus(results, status) ==
  Cardinality({k \in DOMAIN results : results[k].status = status})

(* overallScore is the mean of the scores there are, unless one errored. *)
HasOverallScore(results) ==
  /\ \A k \in DOMAIN results : Complete(results[k])
  /\ \E k \in DOMAIN results : results[k].scored

(* A mutant of Result: all responses are counted as selected. *)
ResultCountingAll(e, c) ==
  [tutor |-> c.tutor, coverage |-> c.coverage,
   availableResponses |-> Cardinality(DOMAIN c.responses),
   missingCases |-> Cardinality(Cases \ CasesIn(c)),
   requested |-> e.requested, limit |-> e.limit, selected |-> e.selected,
   selectedResponses |-> Cardinality(DOMAIN c.responses),
   judge |-> e.judge, scoring |-> e.scoring, results |-> e.results,
   passed |-> WithStatus(e.results, "passed"), failed |-> WithStatus(e.results, "failed"),
   errors |-> WithStatus(e.results, "error"), overall |-> HasOverallScore(e.results)]

(* What runTutorResponseCorpus returns. *)
Result(e, c) ==
  [tutor |-> c.tutor, coverage |-> c.coverage,
   availableResponses |-> Cardinality(DOMAIN c.responses),
   missingCases |-> Cardinality(Cases \ CasesIn(c)),
   requested |-> e.requested, limit |-> e.limit, selected |-> e.selected,
   selectedResponses |-> Cardinality(DOMAIN c.responses \cap RunsOf(e.selected)),
   judge |-> e.judge, scoring |-> e.scoring, results |-> e.results,
   passed |-> WithStatus(e.results, "passed"), failed |-> WithStatus(e.results, "failed"),
   errors |-> WithStatus(e.results, "error"), overall |-> HasOverallScore(e.results)]

(* assertValidTutorEvalRunResult: the result is consistent with itself. *)
ReaderAccepts(r) ==
  /\ r.passed = WithStatus(r.results, "passed")
  /\ r.failed = WithStatus(r.results, "failed")
  /\ r.errors = WithStatus(r.results, "error")
  /\ \A k \in DOMAIN r.results : r.results[k].status = "passed" => r.results[k].scored
  /\ r.overall = HasOverallScore(r.results)

(* validateIdentity *)
SameIdentity(r, c, judge, scoring) ==
  /\ r.tutor = c.tutor /\ r.coverage = c.coverage
  /\ r.availableResponses = Cardinality(DOMAIN c.responses)
  /\ r.missingCases = Cardinality(Cases \ CasesIn(c))
  /\ r.judge = judge /\ r.scoring = scoring

(* validatePreviousSelection *)
SameSelection(r, c) ==
  /\ r.requested \subseteq CasesIn(c)
  /\ r.selected = SelectedCases(c, r.requested, r.limit)
  /\ r.selected \subseteq CasesIn(c)
  /\ r.selectedResponses = Cardinality(DOMAIN c.responses \cap RunsOf(r.selected))

(* A mutant of SameCaseRuns: the text that was judged is not compared. *)
SameCaseRunsAnyText(r, c) ==
  /\ DOMAIN r.results = RunsOf(r.selected)
  /\ \A k \in DOMAIN r.results : Complete(r.results[k]) =>
       r.results[k].scored /\ k \in DOMAIN c.responses

(* validatePreviousCaseRuns *)
SameCaseRuns(r, c) ==
  /\ DOMAIN r.results = RunsOf(r.selected)
  /\ \A k \in DOMAIN r.results : Complete(r.results[k]) =>
       /\ r.results[k].scored
       /\ k \in DOMAIN c.responses
       /\ r.results[k].response.text = c.responses[k].text

Resumable(r, c, judge, scoring) ==
  /\ ReaderAccepts(r)
  /\ SameIdentity(r, c, judge, scoring)
  /\ SameSelection(r, c)
  /\ SameCaseRuns(r, c)

(* A mutant of Reusable: only what passed is reused. *)
ReusablePassed(results, selected) ==
  [k \in {l \in DOMAIN results \cap RunsOf(selected) : results[l].status = "passed"}
     |-> results[k]]

Reusable(results, selected) ==
  [k \in {l \in DOMAIN results \cap RunsOf(selected) : Complete(results[l])} |-> results[k]]

-----------------------------------------------------------------------------
Evaluating == command # Idle /\ command.stage \in {"judging", "writing"}

Init ==
  /\ corpus = NoFile
  /\ evaluations = [p \in Paths |-> NoFile]
  /\ command = Idle

(* Everything up to the loop over the cases. *)
StartEvaluation(requested, limit, judge, scoring, previous, output) ==
  /\ command = Idle
  /\ Readable(corpus)
  /\ requested \subseteq CasesIn(corpus)
  /\ previous # Nothing =>
       /\ Readable(evaluations[previous])
       /\ Resumable(evaluations[previous], corpus, judge, scoring)
  /\ LET selected == SelectedCases(corpus, requested, limit) IN
       command' =
         [stage |-> "judging", requested |-> requested, limit |-> limit,
          selected |-> selected, judge |-> judge, scoring |-> scoring,
          previous |-> previous, output |-> output,
          results |-> IF previous = Nothing THEN [k \in {} |-> k]
                      ELSE Reusable(evaluations[previous].results, selected)]
  /\ UNCHANGED <<corpus, evaluations>>

RunsToJudge == RunsOf(command.selected) \ DOMAIN command.results

RunCase ==
  /\ Evaluating /\ command.stage = "judging" /\ RunsToJudge # {}
  /\ LET k == NextOf(RunsToJudge) IN
       \E result \in Outcomes(k, corpus, command.judge, command.scoring) :
         command' = [command EXCEPT !.results = Answered(@, k, result)]
  /\ UNCHANGED <<corpus, evaluations>>

(* writeTutorCliJson: the file is truncated, then written. *)
WriteResult ==
  /\ Evaluating /\ command.stage = "judging" /\ RunsToJudge = {}
  /\ command' = [command EXCEPT !.stage = "writing"]
  /\ evaluations' = [evaluations EXCEPT ![command.output] = Torn]
  /\ UNCHANGED corpus

ResultWritten ==
  /\ Evaluating /\ command.stage = "writing"
  /\ evaluations' = [evaluations EXCEPT ![command.output] = Result(command, corpus)]
  /\ command' = Idle
  /\ UNCHANGED corpus

Next ==
  \/ CollectionStep /\ UNCHANGED evaluations
  \/ \E requested \in SUBSET Cases, limit \in LimitOptions, judge \in JudgeOptions,
        scoring \in Scorings, previous \in Paths \cup {Nothing}, output \in Paths :
       StartEvaluation(requested, limit, judge, scoring, previous, output)
  \/ RunCase
  \/ WriteResult
  \/ ResultWritten

Spec == Init /\ [][Next]_vars

-----------------------------------------------------------------------------
(* A resumed evaluation is indistinguishable from one that was never        *)
(* interrupted: whatever was killed, resumed, narrowed, collected further   *)
(* or collected anew in between, every case-run of a result in the making   *)
(* is one that this judge, under this scoring, could have returned for the  *)
(* response the evaluation has read.                                        *)
AsIfUninterrupted ==
  Evaluating =>
    \A k \in DOMAIN command.results :
      command.results[k] \in
        Outcomes(k, corpus, command.judge, command.scoring)

(* No case-run is paid for twice: an evaluation that resumes a result has   *)
(* all its complete case-runs of the selection from the start and keeps     *)
(* them to the end.                                                         *)
NothingIsJudgedTwice ==
  Evaluating /\ command.previous # Nothing =>
    LET r == evaluations[command.previous] IN
      Readable(r) => \A k \in DOMAIN r.results \cap RunsOf(command.selected) :
        Complete(r.results[k]) =>
          k \in DOMAIN command.results /\ command.results[k] = r.results[k]

(* docs/first-real-baseline.md: "Valid passed and failed case-runs are       *)
(* reused".  Every result an evaluation is about to write will be accepted   *)
(* by the reader, and by a resume that changes nothing.                      *)
EveryResultCanBeResumed ==
  Evaluating /\ command.stage = "writing" =>
    Resumable(Result(command, corpus), corpus, command.judge, command.scoring)

(* A corpus is called full only when it has a response to every case-run of  *)
(* the dataset, from one tutor; and an overall score stands on a verdict for *)
(* every case-run of the selection, for all cases of a full corpus that were *)
(* not narrowed down.                                                        *)
FullMeansEverything ==
  /\ Readable(corpus) =>
       /\ corpus.coverage = "full" => DOMAIN corpus.responses = CaseRuns
       /\ \A k \in DOMAIN corpus.responses : corpus.responses[k].from = corpus.tutor
  /\ \A p \in Paths : Readable(evaluations[p]) /\ evaluations[p].overall =>
       LET r == evaluations[p] IN
         /\ \A k \in RunsOf(r.selected) : k \in DOMAIN r.results /\ Complete(r.results[k])
         /\ r.coverage = "full" /\ r.requested = {} /\ r.limit = NoLimit =>
              DOMAIN r.results = CaseRuns

(* A resumed collection loses and replaces none of the responses on disk.    *)
CollectionKeepsResponses ==
  Collecting /\ Readable(corpus) =>
    /\ command.tutor = corpus.tutor
    /\ \A k \in DOMAIN corpus.responses :
         k \in DOMAIN command.responses /\ command.responses[k] = corpus.responses[k]

(* What a resumed command has on disk, responses or verdicts, it neither     *)
(* asks for again nor loses, whichever of the two resumes is under way.      *)
ResumesKeepWhatIsDone == CollectionKeepsResponses /\ NothingIsJudgedTwice
=============================================================================
