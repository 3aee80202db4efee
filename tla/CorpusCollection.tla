-------------------------- MODULE CorpusCollection --------------------------
(***************************************************************************)
(* Collecting the responses of a tutor into a corpus: collectTutorEvidence  *)
(* of src/src/collection/baseline.ts under the command                      *)
(* tutorbench-collect-model.  A collection asks the tutor once for every    *)
(* case-run it has no response to, in order; a failed call is reported and  *)
(* left for a later --resume.  The corpus is written once, at the end, over *)
(* the file it was resumed from; a process that dies before has written     *)
(* nothing, one that dies while it writes leaves a file nobody can read.    *)
(*                                                                         *)
(* The module has no specification: CorpusEvaluation composes its steps     *)
(* with the evaluation of the corpus.  Corpus identity, generation          *)
(* specification and dataset are those of one experiment and never change;  *)
(* a response is a model value, the tutor that gave it is a history.        *)
(*                                                                         *)
(* A command reads its files before its loop and shares nothing else with   *)
(* another, so the commands of an experiment are modelled one at a time.    *)
(***************************************************************************)
EXTENDS Naturals, FiniteSets

CONSTANTS
  Cases,        (* the cases of the dataset, in the order of their ids      *)
  RunsPerCase,  (* runsPerCase of the corpus                                *)
  Tutors,       (* tutor descriptors a collection can be started with       *)
  Texts,        (* Texts[k]: what a tutor may answer in case-run k           *)
  NoFile,       (* nothing at a path                                        *)
  Torn,         (* a file whose writing was cut short: no JSON              *)
  Idle          (* no command is running                                    *)

ASSUME CollectionAssumption ==
  /\ Cases \subseteq Nat
  /\ RunsPerCase \in Nat \ {0}

VARIABLES
  corpus,       (* the file of the corpus                                   *)
  command       (* the command that is running                              *)

collectionVars == <<corpus, command>>

CaseRuns == Cases \X (1..RunsPerCase)
RunsOf(cases) == cases \X (1..RunsPerCase)
Readable(file) == file \notin {NoFile, Torn}

(* The order of cases and runs in every loop. *)
Before(k, l) == k[1] < l[1] \/ (k[1] = l[1] /\ k[2] < l[2])
NextOf(runs) == CHOOSE k \in runs : \A l \in runs \ {k} : Before(k, l)

Collecting == command # Idle /\ command.stage \in {"calling", "storing"}

-----------------------------------------------------------------------------
Collect(tutor, selected, responses) ==
  /\ command' = [stage |-> "calling", tutor |-> tutor, selected |-> selected,
                    responses |-> responses, failed |-> {}]
  /\ UNCHANGED corpus

(* A new collection refuses a path where there is a file. *)
StartCollection(tutor, selected) ==
  /\ command = Idle
  /\ corpus = NoFile
  /\ Collect(tutor, selected, [k \in {} |-> k])

(* assertResumeCorpusMatchesCollection: the same tutor, or nothing. *)
ResumeCollection(tutor, selected) ==
  /\ command = Idle
  /\ Readable(corpus) /\ corpus.tutor = tutor
  /\ Collect(tutor, selected, corpus.responses)

MissingRuns ==
  RunsOf(command.selected) \ (DOMAIN command.responses \cup command.failed)

Answered(responses, k, response) ==
  [l \in DOMAIN responses \cup {k} |-> IF l = k THEN response ELSE responses[l]]

(* One call: an answer, or a failure of whatever kind. *)
CallTutor ==
  /\ Collecting /\ command.stage = "calling" /\ MissingRuns # {}
  /\ LET k == NextOf(MissingRuns) IN
       \/ \E text \in Texts[k] :
            command' = [command EXCEPT
              !.responses = Answered(@, k, [text |-> text, from |-> command.tutor])]
       \/ command' = [command EXCEPT !.failed = @ \cup {k}]
  /\ UNCHANGED corpus

(* A mutant of Coverage: nothing failed and nothing is missing. *)
CoverageOfSelection == IF command.failed = {} THEN "full" ELSE "partial"

Coverage ==
  IF /\ command.failed = {}
     /\ Cardinality(DOMAIN command.responses) = Cardinality(RunsOf(command.selected))
     /\ command.selected = Cases
  THEN "full" ELSE "partial"

(* The end of a collection: writeFile first truncates; without a single      *)
(* response no corpus is written.                                            *)
WriteCorpus ==
  /\ Collecting /\ command.stage = "calling" /\ MissingRuns = {}
  /\ IF DOMAIN command.responses = {}
     THEN command' = Idle /\ UNCHANGED corpus
     ELSE command' = [command EXCEPT !.stage = "storing"] /\ corpus' = Torn

CorpusWritten ==
  /\ Collecting /\ command.stage = "storing"
  /\ corpus' = [tutor |-> command.tutor, coverage |-> Coverage,
                responses |-> command.responses]
  /\ command' = Idle

(* The process is killed, at any point. *)
CommandDies == command # Idle /\ command' = Idle /\ UNCHANGED corpus

(* The operator puts a corpus aside, to collect anew under the same id. *)
RemoveCorpus == command = Idle /\ corpus # NoFile /\ corpus' = NoFile /\ UNCHANGED command

CollectionStep ==
  \/ \E tutor \in Tutors, selected \in SUBSET Cases \ {{}} :
       StartCollection(tutor, selected) \/ ResumeCollection(tutor, selected)
  \/ CallTutor
  \/ WriteCorpus
  \/ CorpusWritten
  \/ CommandDies
  \/ RemoveCorpus
=============================================================================
