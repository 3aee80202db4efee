----------------------- MODULE CorpusEvaluationProofs -----------------------
(***************************************************************************)
(* Theorems about CorpusEvaluation, for any cases, runs per case, tutors,   *)
(* judges, scorings and answers.                                           *)
(***************************************************************************)
EXTENDS CorpusEvaluation, WellFoundedInduction, TLAPS

(* What a corpus may hold: responses to case-runs, all of its own tutor,     *)
(* and to every case-run when it is called full.                            *)
CorpusInv ==
  Readable(corpus) =>
    /\ DOMAIN corpus.responses \subseteq CaseRuns
    /\ \A k \in DOMAIN corpus.responses :
         corpus.responses[k] =
           [text |-> corpus.responses[k].text, from |-> corpus.tutor]
    /\ corpus.coverage = "full" => DOMAIN corpus.responses = CaseRuns

CollectShape ==
  command = [stage |-> command.stage, tutor |-> command.tutor,
             selected |-> command.selected, responses |-> command.responses,
             failed |-> command.failed]

(* A collection in the making; what it was resumed from is still there.      *)
CollectInv ==
  Collecting =>
    /\ CollectShape
    /\ command.selected \subseteq Cases
    /\ DOMAIN command.responses \subseteq CaseRuns
    /\ \A k \in DOMAIN command.responses :
         command.responses[k] =
           [text |-> command.responses[k].text, from |-> command.tutor]
    /\ command.stage = "storing" => MissingRuns = {}

EvaluateShape ==
  command = [stage |-> command.stage, requested |-> command.requested,
             limit |-> command.limit, selected |-> command.selected,
             judge |-> command.judge, scoring |-> command.scoring,
             previous |-> command.previous, output |-> command.output,
             results |-> command.results]

(* An evaluation in the making: the corpus it has read does not change under *)
(* it, its selection is that of its options, its results are of its runs.    *)
EvaluateInv ==
  Evaluating =>
    /\ EvaluateShape
    /\ command.previous \in Paths \cup {Nothing}
    /\ Readable(corpus)
    /\ command.requested \subseteq CasesIn(corpus)
    /\ command.selected = SelectedCases(corpus, command.requested, command.limit)
    /\ DOMAIN command.results \subseteq RunsOf(command.selected)
    /\ command.stage = "writing" => RunsToJudge = {}

(* A verdict on file was returned by the judge and scoring the file names,   *)
(* for a response of the tutor the file names.                               *)
Earned(r, k) ==
  /\ r.results[k] =
       Verdict(k, r.results[k].response, r.judge, r.scoring, r.results[k].status)
  /\ r.results[k].response = [text |-> r.results[k].response.text, from |-> r.tutor]
  /\ r.results[k].status \in {"passed", "failed"}
  /\ r.results[k].status = "passed" => r.results[k].scored
  /\ k[1] \in JudgedCases => r.judge # NoJudge

ResultInv(r) ==
  /\ \A k \in DOMAIN r.results : Complete(r.results[k]) => Earned(r, k)
  /\ DOMAIN r.results = RunsOf(r.selected)
  /\ r.overall => \A k \in DOMAIN r.results : Complete(r.results[k])
  /\ r.coverage = "full" /\ r.requested = {} /\ r.limit = NoLimit =>
       DOMAIN r.results = CaseRuns

FilesInv ==
  /\ evaluations = [p \in Paths |-> evaluations[p]]
  /\ \A p \in Paths : Readable(evaluations[p]) => ResultInv(evaluations[p])

IInv ==
  /\ CorpusInv
  /\ CollectInv
  /\ CollectionKeepsResponses
  /\ EvaluateInv
  /\ AsIfUninterrupted
  /\ NothingIsJudgedTwice
  /\ FilesInv

-----------------------------------------------------------------------------
(* A set of case-runs that is not empty has a first one, so every loop takes *)
(* one of the runs it has left.                                             *)
LEMMA FirstNatural ==
  ASSUME NEW S \in SUBSET Nat, S # {}
  PROVE  \E n \in S : \A m \in S : n <= m
<1>1. \E n \in S : \A m \in S : ~(<<m, n>> \in OpToRel(<, Nat))
  BY NatLessThanWellFounded, WFMin
<1>2. PICK n \in S : \A m \in S : ~(<<m, n>> \in OpToRel(<, Nat))
  BY <1>1
<1>3. \A m \in S : ~(m < n)
  BY <1>2 DEF OpToRel
<1> QED
  BY <1>3

LEMMA NextIsOneOfThem ==
  ASSUME NEW S \in SUBSET CaseRuns, S # {}
  PROVE  NextOf(S) \in S
<1> DEFINE Firsts == {k[1] : k \in S}
<1>1. Firsts \in SUBSET Nat /\ Firsts # {}
  BY CollectionAssumption DEF CaseRuns
<1>2. PICK i \in Firsts : \A j \in Firsts : i <= j
  BY <1>1, FirstNatural
<1> DEFINE Seconds == {k[2] : k \in {l \in S : l[1] = i}}
<1>3. Seconds \in SUBSET Nat /\ Seconds # {}
  BY <1>2, CollectionAssumption DEF CaseRuns
<1>4. PICK j \in Seconds : \A m \in Seconds : j <= m
  BY <1>3, FirstNatural
<1>5. PICK k \in S : k[1] = i /\ k[2] = j
  BY <1>4
<1>6. \A l \in S \ {k} : Before(k, l)
  <2> TAKE l \in S \ {k}
  <2>1. i <= l[1] /\ i \in Nat /\ l[1] \in Nat
    BY <1>1, <1>2
  <2>2. CASE i < l[1]
    BY <2>2, <1>5 DEF Before
  <2>3. CASE l[1] = i
    <3>1. l[2] \in Seconds
      BY <2>3
    <3>2. j <= l[2] /\ j \in Nat /\ l[2] \in Nat
      BY <3>1, <1>3, <1>4
    <3>3. l[2] # j
      BY <2>3, <1>5 DEF CaseRuns
    <3> QED
      BY <2>3, <3>2, <3>3, <1>5 DEF Before
  <2> QED
    BY <2>1, <2>2, <2>3
<1>7. \E l \in S : \A m \in S \ {l} : Before(l, m)
  BY <1>6
<1> QED
  BY <1>7 DEF NextOf

LEMMA RunsAreCaseRuns ==
  ASSUME NEW cases \in SUBSET Cases
  PROVE  RunsOf(cases) \subseteq CaseRuns
BY DEF RunsOf, CaseRuns

LEMMA SelectionIsOfCases ==
  ASSUME NEW requested, NEW limit, requested \subseteq CasesIn(corpus),
         Readable(corpus), CorpusInv
  PROVE  /\ CasesIn(corpus) \subseteq Cases
         /\ SelectedCases(corpus, requested, limit) \subseteq CasesIn(corpus)
BY DEF CasesIn, CorpusInv, CaseRuns, SelectedCases, FirstCases

LEMMA EveryCaseHasRuns ==
  ASSUME DOMAIN corpus.responses = CaseRuns
  PROVE  CasesIn(corpus) = Cases
<1>1. 1 \in 1..RunsPerCase
  BY CollectionAssumption
<1>2. ASSUME NEW i \in Cases PROVE i \in CasesIn(corpus)
  <2>1. <<i, 1>> \in CaseRuns
    BY <1>1 DEF CaseRuns
  <2>2. <<i, 1>>[1] = i
    OBVIOUS
  <2> QED
    BY <2>1, <2>2 DEF CasesIn
<1>3. CasesIn(corpus) \subseteq Cases
  BY DEF CasesIn, CaseRuns
<1> QED
  BY <1>2, <1>3

LEMMA InitEstablishesIInv == Init => IInv
BY DEF Init, IInv, CorpusInv, CollectInv, CollectionKeepsResponses, EvaluateInv,
       AsIfUninterrupted, NothingIsJudgedTwice, FilesInv, Readable, Collecting,
       Evaluating

-----------------------------------------------------------------------------
(* Collection.                                                             *)

LEMMA CollectPreserves ==
  ASSUME IInv, NEW tutor, NEW selected \in SUBSET Cases, NEW responses,
         Collect(tutor, selected, responses), UNCHANGED evaluations,
         DOMAIN responses \subseteq CaseRuns,
         \A k \in DOMAIN responses :
           responses[k] = [text |-> responses[k].text, from |-> tutor],
         Readable(corpus) => corpus.tutor = tutor /\ responses = corpus.responses
  PROVE  IInv'
<1>1. /\ corpus' = corpus
      /\ command' = [stage |-> "calling", tutor |-> tutor, selected |-> selected,
                     responses |-> responses, failed |-> {}]
  BY DEF Collect
<1>2. CorpusInv' /\ FilesInv'
  BY <1>1 DEF IInv, CorpusInv, FilesInv, Readable, ResultInv, Earned
<1>3. CollectInv'
  BY <1>1 DEF CollectInv, CollectShape, Collecting
<1>4. CollectionKeepsResponses'
  BY <1>1 DEF CollectionKeepsResponses, Collecting, Readable
<1>5. ~Evaluating'
  BY <1>1 DEF Evaluating
<1> QED
  BY <1>2, <1>3, <1>4, <1>5 DEF IInv, EvaluateInv, AsIfUninterrupted, NothingIsJudgedTwice

LEMMA StartCollectionPreserves ==
  ASSUME IInv, NEW tutor \in Tutors, NEW selected \in SUBSET Cases \ {{}},
         StartCollection(tutor, selected), UNCHANGED evaluations
  PROVE  IInv'
<1> DEFINE none == [k \in {} |-> k]
<1>1. DOMAIN none = {}
  OBVIOUS
<1>2. ~Readable(corpus)
  BY DEF StartCollection, Readable
<1>3. Collect(tutor, selected, none)
  BY DEF StartCollection
<1> HIDE DEF none
<1> QED
  BY <1>1, <1>2, <1>3, CollectPreserves

LEMMA ResumeCollectionPreserves ==
  ASSUME IInv, NEW tutor \in Tutors, NEW selected \in SUBSET Cases \ {{}},
         ResumeCollection(tutor, selected), UNCHANGED evaluations
  PROVE  IInv'
<1>1. /\ Readable(corpus) /\ corpus.tutor = tutor
      /\ Collect(tutor, selected, corpus.responses)
  BY DEF ResumeCollection
<1>2. CorpusInv
  BY DEF IInv
<1> QED
  BY <1>1, <1>2, CollectPreserves DEF CorpusInv

(* A call adds one response to a missing case-run, or none.                  *)
LEMMA CallTutorPreserves ==
  ASSUME IInv, CallTutor, UNCHANGED evaluations
  PROVE  IInv'
<1> DEFINE k == NextOf(MissingRuns)
<1>1. /\ Collecting /\ command.stage = "calling" /\ CollectInv /\ CollectShape
      /\ corpus' = corpus /\ MissingRuns # {}
  BY DEF CallTutor, IInv, CollectInv
<1>2. k \in CaseRuns /\ k \notin DOMAIN command.responses
  <2>1. MissingRuns \subseteq CaseRuns
    BY <1>1, RunsAreCaseRuns DEF CollectInv, MissingRuns
  <2>2. k \in MissingRuns
    BY <1>1, <2>1, NextIsOneOfThem
  <2> QED
    BY <2>1, <2>2 DEF MissingRuns
<1>3. /\ command'.stage = "calling" /\ command'.tutor = command.tutor
      /\ command'.selected = command.selected /\ CollectShape'
      /\ \/ \E text \in Texts[k] : command'.responses =
              Answered(command.responses, k, [text |-> text, from |-> command.tutor])
         \/ command'.responses = command.responses
  <2>1. CASE \E text \in Texts[k] :
             command' = [command EXCEPT
               !.responses = Answered(@, k, [text |-> text, from |-> command.tutor])]
    BY <1>1, <2>1 DEF CollectShape
  <2>2. CASE command' = [command EXCEPT !.failed = @ \cup {k}]
    BY <1>1, <2>2 DEF CollectShape
  <2> QED
    BY <2>1, <2>2 DEF CallTutor
<1> HIDE DEF k
<1>4. /\ DOMAIN command'.responses \subseteq CaseRuns
      /\ \A l \in DOMAIN command'.responses : command'.responses[l] =
           [text |-> command'.responses[l].text, from |-> command.tutor]
      /\ \A l \in DOMAIN command.responses :
           l \in DOMAIN command'.responses /\ command'.responses[l] = command.responses[l]
  <2>1. CASE command'.responses = command.responses
    BY <1>1, <2>1 DEF CollectInv
  <2>2. ASSUME NEW text \in Texts[k], command'.responses =
                 Answered(command.responses, k, [text |-> text, from |-> command.tutor])
        PROVE  <1>4!:
    BY <1>1, <1>2, <2>2 DEF CollectInv, Answered
  <2> QED
    BY <1>3, <2>1, <2>2
<1>5. CorpusInv' /\ FilesInv'
  BY <1>1 DEF IInv, CorpusInv, FilesInv, Readable, ResultInv, Earned
<1>6. CollectInv'
  BY <1>1, <1>3, <1>4 DEF CollectInv, Collecting
<1>7. CollectionKeepsResponses'
  BY <1>1, <1>3, <1>4 DEF IInv, CollectionKeepsResponses, Collecting, Readable
<1>8. ~Evaluating'
  BY <1>3 DEF Evaluating
<1> QED
  BY <1>5, <1>6, <1>7, <1>8 DEF IInv, EvaluateInv, AsIfUninterrupted, NothingIsJudgedTwice

LEMMA WriteCorpusPreserves ==
  ASSUME IInv, WriteCorpus, UNCHANGED evaluations
  PROVE  IInv'
<1>1. /\ Collecting /\ command.stage = "calling" /\ CollectInv /\ CollectShape
      /\ MissingRuns = {}
  BY DEF WriteCorpus, IInv, CollectInv
<1>2. CASE command' = Idle /\ corpus' = corpus
  BY <1>2 DEF IInv, CorpusInv, FilesInv, Readable, ResultInv, Earned, CollectInv,
    CollectionKeepsResponses, Collecting, EvaluateInv, Evaluating, AsIfUninterrupted,
    NothingIsJudgedTwice
<1>3. CASE command' = [command EXCEPT !.stage = "storing"] /\ corpus' = Torn
  <2>1. /\ command'.stage = "storing" /\ command'.tutor = command.tutor
        /\ command'.selected = command.selected /\ command'.failed = command.failed
        /\ command'.responses = command.responses /\ CollectShape'
    BY <1>1, <1>3 DEF CollectShape
  <2>2. CorpusInv' /\ FilesInv' /\ CollectionKeepsResponses'
    BY <1>3 DEF IInv, CorpusInv, FilesInv, Readable, ResultInv, Earned,
      CollectionKeepsResponses
  <2>3. CollectInv'
    BY <1>1, <2>1 DEF CollectInv, MissingRuns, RunsOf
  <2>4. ~Evaluating'
    BY <2>1 DEF Evaluating
  <2> QED
    BY <2>2, <2>3, <2>4 DEF IInv, EvaluateInv, AsIfUninterrupted, NothingIsJudgedTwice
<1> QED
  BY <1>2, <1>3 DEF WriteCorpus

(* What is written is full only when nothing failed and nothing is missing.  *)
LEMMA CorpusWrittenPreserves ==
  ASSUME IInv, CorpusWritten, UNCHANGED evaluations
  PROVE  IInv'
<1>1. /\ Collecting /\ command.stage = "storing" /\ CollectInv
      /\ corpus' = [tutor |-> command.tutor, coverage |-> Coverage,
                    responses |-> command.responses]
      /\ command' = Idle
  BY DEF CorpusWritten, IInv
<1>2. Coverage = "full" => DOMAIN command.responses = CaseRuns
  <2>1. SUFFICES ASSUME Coverage = "full" PROVE DOMAIN command.responses = CaseRuns
    OBVIOUS
  <2>2. command.failed = {} /\ command.selected = Cases
    BY <2>1 DEF Coverage
  <2>3. RunsOf(command.selected) \subseteq DOMAIN command.responses
    BY <1>1, <2>2 DEF CollectInv, MissingRuns
  <2> QED
    BY <1>1, <2>2, <2>3 DEF CollectInv, RunsOf, CaseRuns
<1> HIDE DEF Coverage
<1>3. CorpusInv'
  BY <1>1, <1>2 DEF CorpusInv, CollectInv
<1> QED
  BY <1>1, <1>3 DEF IInv, FilesInv, Readable, ResultInv, Earned, CollectInv,
    CollectionKeepsResponses, Collecting, EvaluateInv, Evaluating, AsIfUninterrupted,
    NothingIsJudgedTwice

LEMMA NothingRunsPreserves ==
  ASSUME IInv, UNCHANGED evaluations, command' = Idle,
         corpus' = corpus \/ corpus' = NoFile
  PROVE  IInv'
BY DEF IInv, CorpusInv, FilesInv, Readable, ResultInv, Earned, CollectInv,
  CollectionKeepsResponses, Collecting, EvaluateInv, Evaluating, AsIfUninterrupted,
  NothingIsJudgedTwice

LEMMA CollectionPreserves ==
  ASSUME IInv, CollectionStep, UNCHANGED evaluations
  PROVE  IInv'
<1>1. CASE \E tutor \in Tutors, selected \in SUBSET Cases \ {{}} :
             StartCollection(tutor, selected) \/ ResumeCollection(tutor, selected)
  BY <1>1, StartCollectionPreserves, ResumeCollectionPreserves
<1>2. CASE CommandDies \/ RemoveCorpus
  BY <1>2, NothingRunsPreserves DEF CommandDies, RemoveCorpus
<1> QED
  BY <1>1, <1>2, CallTutorPreserves, WriteCorpusPreserves, CorpusWrittenPreserves
     DEF CollectionStep

-----------------------------------------------------------------------------
(* Evaluation.                                                             *)

(* What a resume takes over is what this evaluation could have returned.     *)
LEMMA ReusedIsReal ==
  ASSUME CorpusInv, Readable(corpus), NEW r, ResultInv(r), NEW judge, NEW scoring,
         Resumable(r, corpus, judge, scoring), NEW k \in DOMAIN r.results,
         Complete(r.results[k])
  PROVE  r.results[k] \in Outcomes(k, corpus, judge, scoring)
<1>1. Earned(r, k)
  BY DEF ResultInv
<1>2. r.tutor = corpus.tutor /\ r.judge = judge /\ r.scoring = scoring
  BY DEF Resumable, SameIdentity
<1>3. /\ k \in DOMAIN corpus.responses
      /\ r.results[k].response.text = corpus.responses[k].text
  BY DEF Resumable, SameCaseRuns
<1>4. r.results[k].response = corpus.responses[k]
  BY <1>1, <1>2, <1>3 DEF Earned, CorpusInv
<1>5. r.results[k] = Verdict(k, corpus.responses[k], judge, scoring, r.results[k].status)
  BY <1>1, <1>2, <1>4 DEF Earned
<1>6. ~(k[1] \in JudgedCases /\ judge = NoJudge)
  BY <1>1, <1>2 DEF Earned
<1>7. CASE r.results[k].status = "failed"
  BY <1>3, <1>5, <1>6, <1>7 DEF Outcomes
<1>8. CASE r.results[k].status = "passed"
  BY <1>1, <1>3, <1>5, <1>6, <1>8 DEF Outcomes, Earned
<1> QED
  BY <1>1, <1>7, <1>8 DEF Earned

LEMMA StartEvaluationPreserves ==
  ASSUME IInv, NEW requested \in SUBSET Cases, NEW limit \in LimitOptions,
         NEW judge \in JudgeOptions, NEW scoring \in Scorings,
         NEW previous \in Paths \cup {Nothing}, NEW output \in Paths,
         StartEvaluation(requested, limit, judge, scoring, previous, output)
  PROVE  IInv'
<1> DEFINE selected == SelectedCases(corpus, requested, limit)
           results == IF previous = Nothing THEN [k \in {} |-> k]
                      ELSE Reusable(evaluations[previous].results, selected)
<1>1. /\ corpus' = corpus /\ evaluations' = evaluations /\ Readable(corpus)
      /\ requested \subseteq CasesIn(corpus)
      /\ command' =
           [stage |-> "judging", requested |-> requested, limit |-> limit,
            selected |-> selected, judge |-> judge, scoring |-> scoring,
            previous |-> previous, output |-> output, results |-> results]
  BY DEF StartEvaluation
<1>2. previous # Nothing =>
        /\ previous \in Paths /\ Readable(evaluations[previous])
        /\ Resumable(evaluations[previous], corpus, judge, scoring)
        /\ ResultInv(evaluations[previous])
  BY DEF StartEvaluation, IInv, FilesInv
<1>3. /\ DOMAIN results \subseteq RunsOf(selected)
      /\ \A k \in DOMAIN results :
           results[k] \in Outcomes(k, corpus, judge, scoring)
  <2>1. CASE previous = Nothing
    BY <2>1
  <2>2. CASE previous # Nothing
    BY <1>1, <1>2, <2>2, ReusedIsReal DEF Reusable, IInv
  <2> QED
    BY <2>1, <2>2
<1>4. previous # Nothing => LET r == evaluations[previous] IN
        \A k \in DOMAIN r.results \cap RunsOf(selected) :
          Complete(r.results[k]) => k \in DOMAIN results /\ results[k] = r.results[k]
  BY DEF Reusable
<1> HIDE DEF selected, results
<1>5. CorpusInv' /\ FilesInv'
  BY <1>1 DEF IInv, CorpusInv, FilesInv, Readable, ResultInv, Earned
<1>6. EvaluateInv'
  BY <1>1, <1>3 DEF EvaluateInv, EvaluateShape, Evaluating, Readable, CasesIn, selected
<1>7. AsIfUninterrupted'
  BY <1>1, <1>3 DEF AsIfUninterrupted
<1>8. NothingIsJudgedTwice'
  BY <1>1, <1>4 DEF NothingIsJudgedTwice
<1>9. ~Collecting'
  BY <1>1 DEF Collecting
<1> QED
  BY <1>5, <1>6, <1>7, <1>8, <1>9 DEF IInv, CollectInv, CollectionKeepsResponses

LEMMA RunCasePreserves ==
  ASSUME IInv, RunCase
  PROVE  IInv'
<1> DEFINE k == NextOf(RunsToJudge)
<1>1. /\ Evaluating /\ command.stage = "judging" /\ RunsToJudge # {}
      /\ corpus' = corpus /\ evaluations' = evaluations
      /\ EvaluateInv /\ EvaluateShape /\ CorpusInv /\ Readable(corpus)
  BY DEF RunCase, IInv, EvaluateInv
<1>2. k \in RunsOf(command.selected) /\ k \notin DOMAIN command.results
  <2>1. command.selected \subseteq Cases
    BY <1>1, SelectionIsOfCases DEF EvaluateInv
  <2>2. RunsToJudge \subseteq CaseRuns
    BY <2>1, RunsAreCaseRuns DEF RunsToJudge
  <2>3. k \in RunsToJudge
    BY <1>1, <2>2, NextIsOneOfThem
  <2> QED
    BY <2>3 DEF RunsToJudge
<1>3. PICK result \in Outcomes(k, corpus, command.judge, command.scoring) :
        command' = [command EXCEPT !.results = Answered(@, k, result)]
  BY DEF RunCase
<1> HIDE DEF k
<1>4. /\ command'.stage = "judging" /\ EvaluateShape'
      /\ command'.requested = command.requested /\ command'.limit = command.limit
      /\ command'.selected = command.selected /\ command'.judge = command.judge
      /\ command'.scoring = command.scoring /\ command'.previous = command.previous
      /\ command'.results = Answered(command.results, k, result)
  BY <1>1, <1>3 DEF EvaluateShape
<1>5. /\ DOMAIN command'.results = DOMAIN command.results \cup {k}
      /\ command'.results[k] = result
      /\ \A l \in DOMAIN command.results :
           command'.results[l] = command.results[l]
  BY <1>2, <1>4 DEF Answered
<1>6. CorpusInv' /\ FilesInv'
  BY <1>1 DEF IInv, CorpusInv, FilesInv, Readable, ResultInv, Earned
<1>7. EvaluateInv'
  BY <1>1, <1>2, <1>4, <1>5 DEF EvaluateInv, Readable, CasesIn, SelectedCases
<1>8. AsIfUninterrupted'
  BY <1>1, <1>3, <1>4, <1>5 DEF IInv, AsIfUninterrupted
<1>9. NothingIsJudgedTwice'
  BY <1>1, <1>4, <1>5 DEF IInv, NothingIsJudgedTwice
<1>10. ~Collecting'
  BY <1>4 DEF Collecting
<1> QED
  BY <1>6, <1>7, <1>8, <1>9, <1>10 DEF IInv, CollectInv, CollectionKeepsResponses

LEMMA WriteResultPreserves ==
  ASSUME IInv, WriteResult
  PROVE  IInv'
<1>1. /\ Evaluating /\ command.stage = "judging" /\ RunsToJudge = {}
      /\ corpus' = corpus /\ evaluations' = [evaluations EXCEPT ![command.output] = Torn]
      /\ EvaluateInv /\ EvaluateShape /\ FilesInv
      /\ command' = [command EXCEPT !.stage = "writing"]
  BY DEF WriteResult, IInv, EvaluateInv
<1>2. /\ command'.stage = "writing" /\ EvaluateShape'
      /\ command'.requested = command.requested /\ command'.limit = command.limit
      /\ command'.selected = command.selected /\ command'.judge = command.judge
      /\ command'.scoring = command.scoring /\ command'.previous = command.previous
      /\ command'.results = command.results
  BY <1>1 DEF EvaluateShape
<1>3. /\ evaluations' = [p \in Paths |-> evaluations'[p]]
      /\ \A p \in Paths : evaluations'[p] = evaluations[p] \/ ~Readable(evaluations'[p])
  BY <1>1 DEF FilesInv, Readable
<1>4. CorpusInv' /\ FilesInv'
  BY <1>1, <1>3 DEF IInv, CorpusInv, FilesInv, Readable, ResultInv, Earned
<1>5. EvaluateInv'
  BY <1>1, <1>2 DEF EvaluateInv, Readable, CasesIn, SelectedCases, RunsToJudge
<1>6. AsIfUninterrupted'
  BY <1>1, <1>2 DEF IInv, AsIfUninterrupted
<1>7. NothingIsJudgedTwice'
  BY <1>1, <1>2, <1>3 DEF IInv, EvaluateInv, NothingIsJudgedTwice, Readable
<1>8. ~Collecting'
  BY <1>2 DEF Collecting
<1> QED
  BY <1>4, <1>5, <1>6, <1>7, <1>8 DEF IInv, CollectInv, CollectionKeepsResponses

(* A complete result of an evaluation has earned its verdict.               *)
LEMMA OutcomesAreEarned ==
  ASSUME CorpusInv, Readable(corpus), NEW k, NEW judge, NEW scoring,
         NEW result \in Outcomes(k, corpus, judge, scoring), Complete(result)
  PROVE  /\ k \in DOMAIN corpus.responses
         /\ result = Verdict(k, corpus.responses[k], judge, scoring, result.status)
         /\ result.response = [text |-> result.response.text, from |-> corpus.tutor]
         /\ result.status \in {"passed", "failed"}
         /\ result.status = "passed" => result.scored
         /\ k[1] \in JudgedCases => judge # NoJudge
<1>1. result # Errored
  BY DEF Complete, Errored
<1>2. k \in DOMAIN corpus.responses /\ ~(k[1] \in JudgedCases /\ judge = NoJudge)
  BY <1>1 DEF Outcomes
<1>3. \/ result = Verdict(k, corpus.responses[k], judge, scoring, "failed")
      \/ result = Verdict(k, corpus.responses[k], judge, scoring, "passed") /\ result.scored
  BY <1>1, <1>2 DEF Outcomes
<1>4. \A status : Verdict(k, corpus.responses[k], judge, scoring, status).status = status
  BY DEF Verdict
<1>5. result = Verdict(k, corpus.responses[k], judge, scoring, result.status)
  BY <1>3, <1>4
<1>6. result.response = corpus.responses[k]
  BY <1>3 DEF Verdict
<1>7. result.response = [text |-> result.response.text, from |-> corpus.tutor]
  BY <1>2, <1>6 DEF CorpusInv
<1> QED
  BY <1>2, <1>3, <1>4, <1>5, <1>7

LEMMA WrittenResultIsSound ==
  ASSUME IInv, Evaluating, command.stage = "writing"
  PROVE  ResultInv(Result(command, corpus))
<1> DEFINE r == Result(command, corpus)
<1>1. /\ r.results = command.results /\ r.judge = command.judge
      /\ r.scoring = command.scoring /\ r.tutor = corpus.tutor
      /\ r.selected = command.selected /\ r.requested = command.requested
      /\ r.limit = command.limit /\ r.coverage = corpus.coverage
      /\ r.overall = HasOverallScore(command.results)
  BY DEF Result
<1> HIDE DEF r
<1>2. EvaluateInv /\ AsIfUninterrupted /\ CorpusInv /\ Readable(corpus)
  BY DEF IInv, EvaluateInv
<1>3. ASSUME NEW k \in DOMAIN command.results, Complete(command.results[k])
      PROVE  Earned(r, k)
  <2>1. command.results[k] \in Outcomes(k, corpus, command.judge, command.scoring)
    BY <1>2 DEF AsIfUninterrupted
  <2> DEFINE v == command.results[k]
  <2>2. /\ v = Verdict(k, corpus.responses[k], command.judge, command.scoring, v.status)
        /\ v.response = [text |-> v.response.text, from |-> corpus.tutor]
        /\ v.status \in {"passed", "failed"}
        /\ v.status = "passed" => v.scored
        /\ k[1] \in JudgedCases => command.judge # NoJudge
    BY <1>2, <1>3, <2>1, OutcomesAreEarned
  <2>3. v.response = corpus.responses[k]
    BY <2>2 DEF Verdict
  <2>4. v = Verdict(k, v.response, command.judge, command.scoring, v.status)
    BY <2>2, <2>3
  <2>5. r.results[k] = v
    BY <1>1
  <2> HIDE DEF v
  <2> QED
    BY <1>1, <2>2, <2>4, <2>5 DEF Earned
<1>4. DOMAIN command.results = RunsOf(command.selected)
  BY <1>2 DEF EvaluateInv, RunsToJudge
<1>5. HasOverallScore(command.results) =>
        \A k \in DOMAIN command.results : Complete(command.results[k])
  BY DEF HasOverallScore
<1>6. ASSUME corpus.coverage = "full", command.requested = {}, command.limit = NoLimit
      PROVE  RunsOf(command.selected) = CaseRuns
  <2>1. CasesIn(corpus) = Cases
    BY <1>2, <1>6, EveryCaseHasRuns DEF CorpusInv
  <2>2. command.selected = Cases
    BY <1>2, <1>6, <2>1 DEF EvaluateInv, SelectedCases, FirstCases
  <2> QED
    BY <2>2 DEF RunsOf, CaseRuns
<1>7. ResultInv(r)
  BY <1>1, <1>3, <1>4, <1>5, <1>6 DEF ResultInv
<1> QED
  BY <1>7 DEF r

LEMMA ResultWrittenPreserves ==
  ASSUME IInv, ResultWritten
  PROVE  IInv'
<1> DEFINE r == Result(command, corpus)
<1>1. /\ ResultInv(r) /\ FilesInv
      /\ evaluations' = [evaluations EXCEPT ![command.output] = r]
      /\ command' = Idle /\ corpus' = corpus
  BY WrittenResultIsSound DEF ResultWritten, IInv
<1> HIDE DEF r
<1>2. /\ evaluations' = [p \in Paths |-> evaluations'[p]]
      /\ \A p \in Paths : evaluations'[p] = evaluations[p] \/ evaluations'[p] = r
  BY <1>1 DEF FilesInv
<1>3. \A p \in Paths : Readable(evaluations'[p]) => ResultInv(evaluations'[p])
  BY <1>1, <1>2 DEF FilesInv
<1>4. CorpusInv' /\ FilesInv'
  BY <1>1, <1>2, <1>3 DEF IInv, CorpusInv, FilesInv, Readable, ResultInv, Earned
<1> QED
  BY <1>1, <1>4 DEF IInv, CollectInv, CollectionKeepsResponses, Collecting, EvaluateInv,
    Evaluating, AsIfUninterrupted, NothingIsJudgedTwice

LEMMA StutterPreserves ==
  ASSUME IInv, UNCHANGED vars
  PROVE  IInv'
BY DEF vars, collectionVars, IInv, CorpusInv, FilesInv, Readable, ResultInv, Earned,
  CollectInv, CollectShape, CollectionKeepsResponses, Collecting, MissingRuns,
  EvaluateInv, EvaluateShape, Evaluating, CasesIn, SelectedCases, RunsToJudge,
  AsIfUninterrupted, NothingIsJudgedTwice

LEMMA NextPreservesIInv == IInv /\ [Next]_vars => IInv'
<1> SUFFICES ASSUME IInv, [Next]_vars PROVE IInv'
  OBVIOUS
<1>1. CASE CollectionStep /\ UNCHANGED evaluations
  BY <1>1, CollectionPreserves
<1>2. CASE \E requested \in SUBSET Cases, limit \in LimitOptions, judge \in JudgeOptions,
             scoring \in Scorings, previous \in Paths \cup {Nothing}, output \in Paths :
             StartEvaluation(requested, limit, judge, scoring, previous, output)
  BY <1>2, StartEvaluationPreserves
<1> QED
  BY <1>1, <1>2, RunCasePreserves, WriteResultPreserves, ResultWrittenPreserves,
     StutterPreserves DEF Next

-----------------------------------------------------------------------------
THEOREM Invariance == Spec => []IInv
  BY InitEstablishesIInv, NextPreservesIInv, PTL DEF Spec

(* However often an evaluation is killed, resumed, narrowed or its corpus   *)
(* replaced in between, every case-run it holds is one that its judge and   *)
(* scoring could have returned for the response it has read: no verdict on  *)
(* another text, of another judge or under another scoring is ever reused.  *)
THEOREM ResumedEqualsFresh == Spec => []AsIfUninterrupted
<1>1. IInv => AsIfUninterrupted
  BY DEF IInv
<1> QED
  BY <1>1, Invariance, PTL

(* A resumed evaluation starts with every complete case-run of what it       *)
(* resumes and judges none of them again; a resumed collection keeps every   *)
(* response on disk, whatever it selects.                                    *)
THEOREM ResumesLoseNothing == Spec => []ResumesKeepWhatIsDone
<1>1. IInv => ResumesKeepWhatIsDone
  BY DEF IInv, ResumesKeepWhatIsDone
<1> QED
  BY <1>1, Invariance, PTL

(* The label "full" and an overall score stand for complete evidence.        *)
THEOREM FullIsFull == Spec => []FullMeansEverything
<1>1. ASSUME IInv PROVE FullMeansEverything
  <2>1. CorpusInv /\ FilesInv
    BY <1>1 DEF IInv
  <2>2. Readable(corpus) =>
          /\ corpus.coverage = "full" => DOMAIN corpus.responses = CaseRuns
          /\ \A k \in DOMAIN corpus.responses : corpus.responses[k].from = corpus.tutor
    <3>1. ASSUME Readable(corpus), NEW k \in DOMAIN corpus.responses
          PROVE  corpus.responses[k].from = corpus.tutor
      <4> DEFINE response == corpus.responses[k]
      <4>1. response = [text |-> response.text, from |-> corpus.tutor]
        BY <2>1, <3>1 DEF CorpusInv
      <4> HIDE DEF response
      <4>2. response.from = corpus.tutor
        BY <4>1
      <4> QED
        BY <4>2 DEF response
    <3> QED
      BY <2>1, <3>1 DEF CorpusInv
  <2>3. ASSUME NEW p \in Paths, Readable(evaluations[p]), evaluations[p].overall
        PROVE  LET r == evaluations[p] IN
          /\ \A k \in RunsOf(r.selected) : k \in DOMAIN r.results /\ Complete(r.results[k])
          /\ r.coverage = "full" /\ r.requested = {} /\ r.limit = NoLimit =>
               DOMAIN r.results = CaseRuns
    BY <2>1, <2>3 DEF FilesInv, ResultInv
  <2> QED
    BY <2>2, <2>3 DEF FullMeansEverything
<1> QED
  BY <1>1, Invariance, PTL

(* When every case has a category with a weight, what an evaluation writes   *)
(* is accepted by the reader and by a resume that changes nothing.           *)
THEOREM ResultsCanBeResumed ==
  ASSUME Unweighted = {}
  PROVE  Spec => []EveryResultCanBeResumed
<1>1. ASSUME IInv PROVE EveryResultCanBeResumed
  <2> SUFFICES ASSUME Evaluating, command.stage = "writing"
               PROVE  Resumable(Result(command, corpus), corpus, command.judge,
                                command.scoring)
    BY DEF EveryResultCanBeResumed
  <2> DEFINE r == Result(command, corpus)
  <2>1. /\ r.results = command.results /\ r.judge = command.judge
        /\ r.scoring = command.scoring /\ r.tutor = corpus.tutor
        /\ r.selected = command.selected /\ r.requested = command.requested
        /\ r.limit = command.limit /\ r.coverage = corpus.coverage
        /\ r.overall = HasOverallScore(command.results)
        /\ r.availableResponses = Cardinality(DOMAIN corpus.responses)
        /\ r.missingCases = Cardinality(Cases \ CasesIn(corpus))
        /\ r.selectedResponses =
             Cardinality(DOMAIN corpus.responses \cap RunsOf(command.selected))
        /\ r.passed = WithStatus(command.results, "passed")
        /\ r.failed = WithStatus(command.results, "failed")
        /\ r.errors = WithStatus(command.results, "error")
    BY DEF Result
  <2>2. ResultInv(r)
    BY <1>1, WrittenResultIsSound
  <2> HIDE DEF r
  <2>3. EvaluateInv /\ AsIfUninterrupted /\ CorpusInv /\ Readable(corpus)
    BY <1>1 DEF IInv, EvaluateInv
  <2>4. ASSUME NEW k \in DOMAIN command.results, Complete(command.results[k])
        PROVE  /\ command.results[k].scored
               /\ k \in DOMAIN corpus.responses
               /\ command.results[k].response.text = corpus.responses[k].text
    <3>1. command.results[k] \in Outcomes(k, corpus, command.judge, command.scoring)
      BY <2>3 DEF AsIfUninterrupted
    <3>2. /\ k \in DOMAIN corpus.responses
          /\ command.results[k] = Verdict(k, corpus.responses[k], command.judge,
                                          command.scoring, command.results[k].status)
      BY <2>3, <2>4, <3>1, OutcomesAreEarned
    <3>3. \A status, response :
            LET v == Verdict(k, response, command.judge, command.scoring, status) IN
              v.scored /\ v.response = response
      BY DEF Verdict
    <3>4. command.results[k].scored /\ command.results[k].response = corpus.responses[k]
      BY <3>2, <3>3
    <3> QED
      BY <3>2, <3>4
  <2>5. \A k \in DOMAIN command.results :
          command.results[k].status = "passed" => command.results[k].scored
    BY <2>4 DEF Complete
  <2>6. ReaderAccepts(r)
    BY <2>1, <2>5 DEF ReaderAccepts
  <2>7. SameIdentity(r, corpus, command.judge, command.scoring)
    BY <2>1 DEF SameIdentity
  <2>8. SameSelection(r, corpus)
    BY <2>1, <2>3, SelectionIsOfCases DEF SameSelection, EvaluateInv
  <2>9. SameCaseRuns(r, corpus)
    BY <2>1, <2>2, <2>4 DEF SameCaseRuns, ResultInv
  <2>10. Resumable(r, corpus, command.judge, command.scoring)
    BY <2>6, <2>7, <2>8, <2>9 DEF Resumable
  <2> QED
    BY <2>10 DEF r
<1> QED
  BY <1>1, Invariance, PTL
=============================================================================
