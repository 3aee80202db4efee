---------------------------- MODULE ExpertReview ----------------------------
(***************************************************************************)
(* Independent expert review of the evaluator-stress fixtures:              *)
(* src/src/case-system-vnext/expert-review*.ts under its five commands.     *)
(*                                                                         *)
(* Two reviewers compare the two responses of every fixture, each in an     *)
(* order of their own; their answers are merged to evidence; what they do   *)
(* not agree on goes to an adjudicator; and what all that settles becomes a *)
(* reference candidate.  Everything between two commands is a file that a   *)
(* person has for weeks, while the operator may edit the fixtures, export   *)
(* again, import a revised answer, or have a command killed.                *)
(*                                                                         *)
(* A person reads a packet and fills the template that lies beside it,      *)
(* which is a file of its own; only the template is sent back.              *)
(*                                                                         *)
(* A fingerprint is what it is the hash of.  The notes of an answer, which  *)
(* every step carries along unread, say here what the person looked at and  *)
(* meant, so that the properties can compare it with what is made of it.    *)
(***************************************************************************)
EXTENDS Naturals, FiniteSets

CONSTANTS
  People,       (* opaque ids of reviewers and adjudicators                 *)
  Panels,       (* the pairs of reviewers that an export may be for         *)
  Fixtures,     (* fixtures, numbered in the order of their ids             *)
  DomainOf,     (* the domain of a fixture's archetype                      *)
  Suites,       (* what the fixture file may say: a version, and the text   *)
                (* of each fixture in it                                    *)
  Answers,      (* what a person may think of a fixture                     *)
  Unreadable,   (* no file, or one whose writing was cut off                *)
  Limits        (* bounds, of which a behaviour keeps to one: how often     *)
                (* each thing may happen                                    *)

(* What happens; a command that is killed while it writes is counted apart,  *)
(* exports to the reviewers and all the others.                              *)
Kill == [export |-> "killed export", import |-> "killed", adjudication |-> "killed",
         output |-> "killed"]
Kills == {Kill[command] : command \in DOMAIN Kill}
Things == DOMAIN Kill \cup Kills \cup {"edit", "review", "ruling", "any"}
Kinds == {"EQUIVALENT", "NON_DOMINATED", "INSUFFICIENT_EVIDENCE"}

ASSUME ReviewAssumption ==
  /\ Panels \subseteq People \X People
  /\ Fixtures \subseteq Nat /\ IsFiniteSet(Fixtures)
  /\ \A s \in Suites : DOMAIN s.text \subseteq Fixtures
  /\ \A f \in Fixtures : Answers[f] \subseteq
       [view : {"left", "right"} \cup Kinds, clear : BOOLEAN]
  /\ Limits \subseteq [Things -> Nat]

VARIABLES
  suite,        (* the fixture file of the repository                       *)
  directory,    (* the manifest and the two packets of the last exports     *)
  templates,    (* the templates that lie beside the two packets            *)
  returned,     (* the submission sent last under each reviewer's id        *)
  evidence,     (* the two submissions merged                               *)
  adjudication, (* manifest, packet and template of the adjudicator         *)
  ruling,       (* the submission of the adjudicator                        *)
  resolution,   (* evidence and ruling merged                               *)
  candidate,    (* the reference candidate                                  *)
  used          (* how often each thing has happened                        *)

vars == <<suite, directory, templates, returned, evidence, adjudication, ruling,
          resolution, candidate, used>>

(* One thing more happens, and perhaps the command that does it is killed;   *)
(* all that has happened stays within one of the bounds.                     *)
Happens(thing, killed) ==
  LET things == IF killed THEN {thing, Kill[thing], "any"} ELSE {thing, "any"}
  IN  /\ used' = [t \in Things |-> IF t \in things THEN used[t] + 1 ELSE used[t]]
      /\ \E limit \in Limits : \A t \in Things : used'[t] <= limit[t]

(* The same before anything is done.                                         *)
May(thing) ==
  \E limit \in Limits : /\ used[thing] < limit[thing]
                       /\ used["any"] < limit["any"]
                       /\ \A t \in Things : used[t] <= limit[t]

(* What a command leaves of a file that it writes over an old one: killed, it *)
(* may leave the file unwritten or cut off.                                  *)
Written(old, new, killed) == IF killed THEN {old, new, Unreadable} ELSE {new}

-----------------------------------------------------------------------------
(* The tasks, and the order in which a packet shows their responses.         *)

Domains == {DomainOf[f] : f \in Fixtures}
Selected(domains) == {f \in DOMAIN suite.text : DomainOf[f] \in domains}

(* The number of a task: the selected fixtures are sorted by their ids.      *)
Number(f, fixtures) == Cardinality({g \in fixtures : g <= f})

(* The tasks of an export.                                                   *)
TaskSet(domains) ==
  LET fixtures == Selected(domains)
      Fixture(i) == CHOOSE f \in fixtures : Number(f, fixtures) = i
  IN  [version |-> suite.version,
       tasks |-> [i \in {Number(f, fixtures) : f \in fixtures} |->
                    [fixture |-> Fixture(i), text |-> suite.text[Fixture(i)]]]]

DomainsIn(taskSet) == {DomainOf[taskSet.tasks[i].fixture] : i \in DOMAIN taskSet.tasks}

(* buildPresentation: the response behind each label.                        *)
Presentation(ordinal) ==
  IF ordinal = 1 THEN [A |-> "left", B |-> "right"] ELSE [A |-> "right", B |-> "left"]

(* The outcome that a person writes down for a view of a task so presented.  *)
Label(view, shown) ==
  IF view = shown.A THEN "A_BETTER" ELSE IF view = shown.B THEN "B_BETTER" ELSE view

(* The manifest's record of the order that reviewer index has.               *)
Assignment(index) == Presentation(index)

(* What a person may think of some of the tasks.                             *)
AnswersTo(tasks, asked) ==
  {a \in [asked -> UNION {Answers[f] : f \in Fixtures}] :
     \A i \in asked : a[i] \in Answers[tasks[i].fixture]}

NormalizeOutcome(outcome, assignment) ==
  CASE outcome = "A_BETTER" -> assignment.A
    [] outcome = "B_BETTER" -> assignment.B
    [] OTHER -> outcome

Manifest(taskSet, reviewerIds) == [taskSet |-> taskSet, reviewerIds |-> reviewerIds]
Packet(taskSet, reviewerId, ordinal) ==
  [taskSet |-> taskSet, reviewerId |-> reviewerId, ordinal |-> ordinal]

(* The template of a packet: its fingerprint, and its tasks to be answered.  *)
Template(packet) ==
  [packetFingerprint |-> packet, tasks |-> DOMAIN packet.taskSet.tasks]

(* buildCaseSystemVNextExpertReviewExport                                    *)
ExportOf(taskSet, reviewerIds) ==
  [manifest |-> Manifest(taskSet, reviewerIds),
   packets |-> <<Packet(taskSet, reviewerIds[1], 1), Packet(taskSet, reviewerIds[2], 2)>>]

-----------------------------------------------------------------------------
(* Who accepts what.                                                         *)

(* A mutant of SourceLoads: the directory is only compared with itself.      *)
SourceLoadsAsItIs ==
  LET first == directory.packets[1]
      second == directory.packets[2]
  IN  /\ Unreadable \notin {directory.manifest, first, second}
      /\ first.reviewerId # second.reviewerId
      /\ LET taskSet == first.taskSet IN
           directory = ExportOf(taskSet, <<first.reviewerId, second.reviewerId>>)

(* loadCaseSystemVNextExpertReviewSourceExport: the export is built again    *)
(* from the fixture file, for the domains of the packets.                    *)
SourceLoads ==
  LET first == directory.packets[1]
      second == directory.packets[2]
  IN  /\ Unreadable \notin {directory.manifest, first, second}
      /\ first.reviewerId # second.reviewerId
      /\ DomainsIn(first.taskSet) = DomainsIn(second.taskSet)
      /\ Selected(DomainsIn(first.taskSet)) # {}
      /\ LET taskSet == TaskSet(DomainsIn(first.taskSet)) IN
           directory = ExportOf(taskSet, <<first.reviewerId, second.reviewerId>>)

(* A mutant of Parses: an answer to any packet with these tasks will do.     *)
ParsesByTasks(submission, packet) ==
  DOMAIN submission.reviews = DOMAIN packet.taskSet.tasks

(* parseCaseSystemVNextExpertReviewSubmission                                *)
Parses(submission, packet) ==
  /\ submission.packetFingerprint = packet
  /\ DOMAIN submission.reviews = DOMAIN packet.taskSet.tasks

Agreement(results) ==
  IF \E k \in {1, 2} : ~results[k].sufficientlyClear THEN "packet_ambiguity"
  ELSE IF results[1].normalizedOutcome = results[2].normalizedOutcome THEN "agreement"
  ELSE "disagreement"

(* mergeCaseSystemVNextExpertReviewSubmissions, of submissions that parse    *)
Merged(packets, submissions) ==
  LET Result(i, k) ==
        LET review == submissions[k].reviews[i]
        IN  [sufficientlyClear |-> review.sufficientlyClear, outcome |-> review.outcome,
             normalizedOutcome |-> NormalizeOutcome(review.outcome, Assignment(k)),
             notes |-> review.notes]
  IN  [sourcePackets |-> packets,
       reviews |-> [i \in DOMAIN packets[1].taskSet.tasks |->
         LET results == <<Result(i, 1), Result(i, 2)>>
         IN  [results |-> results, agreement |-> Agreement(results)]]]

(* validateEvidenceAgainstExport                                             *)
ValidEvidence(e, packets) ==
  /\ e.sourcePackets = packets
  /\ DOMAIN e.reviews = DOMAIN packets[1].taskSet.tasks
  /\ \A i \in DOMAIN e.reviews :
       LET review == e.reviews[i] IN
         /\ \A k \in {1, 2} : review.results[k].normalizedOutcome =
              NormalizeOutcome(review.results[k].outcome, Assignment(k))
         /\ review.agreement = Agreement(review.results)

ReviewersOf(e) == {e.sourcePackets[1].reviewerId, e.sourcePackets[2].reviewerId}
TasksOf(e) == e.sourcePackets[1].taskSet.tasks

Usable(e) == SourceLoads /\ e # Unreadable /\ ValidEvidence(e, directory.packets)

(* The tasks that need an adjudicator.                                       *)
Queue(e) == {i \in DOMAIN e.reviews : e.reviews[i].agreement # "agreement"}

MayAdjudicate(e, person) ==
  /\ Usable(e)
  /\ person \notin ReviewersOf(e)
  /\ Queue(e) # {}

(* What the manifest and the packet of an adjudication say is determined by  *)
(* the evidence and the adjudicator.                                         *)
AdjudicationOf(e, person) == [sourceEvidence |-> e, adjudicatorId |-> person]

(* The template of an adjudicator's packet.                                  *)
RulingTemplate(packet) ==
  [packetFingerprint |-> packet, tasks |-> Queue(packet.sourceEvidence)]

(* parseCaseSystemVNextExpertReviewAdjudicationSubmission                    *)
RulingParses(r, packet) ==
  /\ r.packetFingerprint = packet
  /\ DOMAIN r.adjudications = Queue(packet.sourceEvidence)

(* The adjudication of evidence e can be resolved by the ruling on disk; the *)
(* template must be there, but is not looked at.                             *)
Replays(e) ==
  /\ Unreadable \notin {adjudication.manifest, adjudication.packet, adjudication.template, ruling}
  /\ MayAdjudicate(e, adjudication.manifest.adjudicatorId)
  /\ \A file \in {adjudication.manifest, adjudication.packet} :
       file = AdjudicationOf(e, adjudication.manifest.adjudicatorId)
  /\ RulingParses(ruling, adjudication.packet)

-----------------------------------------------------------------------------
(* Resolutions and candidates.                                               *)

Consensus(review) ==
  [status |-> "reviewer_consensus", resolution |-> review.results[1].normalizedOutcome]

(* A mutant of Adjudicated: an unclear ruling counts as well.                *)
AdjudicatedAnyway(item) ==
  [status |-> "adjudicated", ruling |-> item, resolution |-> item.normalizedOutcome]

Adjudicated(item) ==
  IF item.sufficientlyClear
  THEN [status |-> "adjudicated", ruling |-> item, resolution |-> item.normalizedOutcome]
  ELSE [status |-> "unresolved", ruling |-> item]

(* A mutant of AdjudicatorResult: the order of the second reviewer.          *)
AdjudicatorResultInTheOther(item) ==
  [sufficientlyClear |-> item.sufficientlyClear, outcome |-> item.outcome,
   normalizedOutcome |-> NormalizeOutcome(item.outcome, Assignment(2)),
   notes |-> item.notes]

(* The adjudicator has the order of the first reviewer.                      *)
AdjudicatorResult(item) ==
  [sufficientlyClear |-> item.sufficientlyClear, outcome |-> item.outcome,
   normalizedOutcome |-> NormalizeOutcome(item.outcome, Assignment(1)),
   notes |-> item.notes]

(* buildCaseSystemVNextExpertReviewConsensusResolution                       *)
ConsensusResolution(e) ==
  [evidence |-> e, adjudicatorIds |-> {},
   tasks |-> [i \in DOMAIN e.reviews |-> Consensus(e.reviews[i])]]

(* buildCaseSystemVNextExpertReviewResolution                                *)
AdjudicatedResolution(e, r) ==
  [evidence |-> e, adjudicatorIds |-> {r.packetFingerprint.adjudicatorId},
   tasks |-> [i \in DOMAIN e.reviews |->
                IF i \in Queue(e) THEN Adjudicated(AdjudicatorResult(r.adjudications[i]))
                ELSE Consensus(e.reviews[i])]]

OutcomeFits(item) ==
  IF item.outcome \in {"A_BETTER", "B_BETTER"} THEN item.normalizedOutcome \in {"left", "right"}
  ELSE item.normalizedOutcome = item.outcome

(* parseCaseSystemVNextExpertReviewResolution                                *)
ResolutionParses(r) ==
  /\ Cardinality(ReviewersOf(r.evidence)) = 2
  /\ r.adjudicatorIds \cap ReviewersOf(r.evidence) = {}
  /\ DOMAIN r.tasks # {}
  /\ \A i, j \in DOMAIN r.tasks :
       TasksOf(r.evidence)[i].fixture = TasksOf(r.evidence)[j].fixture => i = j
  /\ (r.adjudicatorIds # {}) <=>
       (\E i \in DOMAIN r.tasks : r.tasks[i].status # "reviewer_consensus")
  /\ \A i \in DOMAIN r.tasks :
       LET task == r.tasks[i]
           review == r.evidence.reviews[i]
       IN  /\ \A k \in {1, 2} : OutcomeFits(review.results[k])
           /\ review.agreement = Agreement(review.results)
           /\ \/ /\ task.status = "reviewer_consensus"
                 /\ review.agreement = "agreement"
                 /\ task.resolution = review.results[1].normalizedOutcome
              \/ /\ task.status = "adjudicated"
                 /\ review.agreement # "agreement"
                 /\ OutcomeFits(task.ruling) /\ task.ruling.sufficientlyClear
                 /\ task.resolution = task.ruling.normalizedOutcome
              \/ /\ task.status = "unresolved"
                 /\ review.agreement # "agreement"
                 /\ OutcomeFits(task.ruling) /\ ~task.ruling.sufficientlyClear

CandidateTask(task) ==
  IF task.status = "unresolved" THEN [status |-> "blocked_unresolved"]
  ELSE IF task.resolution = "INSUFFICIENT_EVIDENCE"
  THEN [status |-> "blocked_insufficient_evidence"]
  ELSE [status |-> "candidate_ready", outcome |-> task.resolution,
        provenance |-> IF task.status = "reviewer_consensus" THEN "human_consensus"
                       ELSE "human_adjudicated"]

(* projectCaseSystemVNextExpertReviewReferenceCandidate                      *)
CandidateOf(r) ==
  LET tasks == [i \in DOMAIN r.tasks |-> CandidateTask(r.tasks[i])]
  IN  [source |-> r, tasks |-> tasks,
       gate |-> IF \A i \in DOMAIN tasks : tasks[i].status = "candidate_ready"
                THEN "eligible_for_manual_promotion" ELSE "blocked"]

-----------------------------------------------------------------------------
(* The commands and the people.                                              *)

NoFiles == [manifest |-> Unreadable, packets |-> <<Unreadable, Unreadable>>]

Init ==
  /\ suite \in Suites
  /\ directory = NoFiles
  /\ templates = <<Unreadable, Unreadable>>
  /\ returned = [p \in People |-> Unreadable]
  /\ evidence = Unreadable
  /\ adjudication = [manifest |-> Unreadable, packet |-> Unreadable, template |-> Unreadable]
  /\ ruling = Unreadable
  /\ resolution = Unreadable
  /\ candidate = Unreadable
  /\ used = [t \in Things |-> 0]

(* The fixture file is edited, or checked out at another commit.             *)
EditSuite ==
  /\ May("edit")
  /\ suite' \in Suites \ {suite}
  /\ Happens("edit", FALSE)
  /\ UNCHANGED <<directory, templates, returned, evidence, adjudication, ruling, resolution,
                 candidate>>

(* case-system-vnext-expert-review-export                                    *)
Export(reviewerIds, domains) ==
  /\ May("export")
  /\ reviewerIds[1] # reviewerIds[2]
  /\ Selected(domains) # {}
  /\ \E killed \in BOOLEAN, new \in {ExportOf(TaskSet(domains), reviewerIds)} :
       /\ Happens("export", killed)
       /\ \E m \in Written(directory.manifest, new.manifest, killed),
            first \in Written(directory.packets[1], new.packets[1], killed),
            second \in Written(directory.packets[2], new.packets[2], killed) :
              directory' = [manifest |-> m, packets |-> <<first, second>>]
       /\ \E first \in Written(templates[1], Template(new.packets[1]), killed),
            second \in Written(templates[2], Template(new.packets[2]), killed) :
              templates' = <<first, second>>
  /\ UNCHANGED <<suite, returned, evidence, adjudication, ruling, resolution, candidate>>

(* What a person answers, who reads task i of a packet presented so.         *)
Answer(answer, packet, task, shown) ==
  [outcome |-> Label(answer.view, shown), sufficientlyClear |-> answer.clear,
   notes |-> [packet |-> packet, task |-> task, view |-> answer.view]]

(* A reviewer reads a packet, fills the template that lies beside it, where  *)
(* it asks for nothing that the packet does not show, and sends it.          *)
Review(k) ==
  /\ May("review")
  /\ Unreadable \notin {directory.packets[k], templates[k]}
  /\ LET packet == directory.packets[k]
         tasks == packet.taskSet.tasks
         template == templates[k]
     IN  /\ template.tasks \subseteq DOMAIN tasks
         /\ \E answers \in AnswersTo(tasks, template.tasks) :
              returned' = [returned EXCEPT ![template.packetFingerprint.reviewerId] =
                [packetFingerprint |-> template.packetFingerprint,
                 reviews |-> [i \in template.tasks |->
                   Answer(answers[i], packet, tasks[i], Presentation(packet.ordinal))]]]
  /\ Happens("review", FALSE)
  /\ UNCHANGED <<suite, directory, templates, evidence, adjudication, ruling, resolution, candidate>>

(* case-system-vnext-expert-review-import, of the files of two people        *)
Import(one, other) ==
  /\ May("import")
  /\ Unreadable \notin {returned[one], returned[other]}
  /\ SourceLoads
  /\ {one, other} = {directory.packets[k].reviewerId : k \in {1, 2}}
  /\ \A k \in {1, 2} : Parses(returned[directory.packets[k].reviewerId], directory.packets[k])
  /\ LET new == Merged(directory.packets,
                       [k \in {1, 2} |-> returned[directory.packets[k].reviewerId]])
     IN  \E killed \in BOOLEAN :
           /\ Happens("import", killed)
           /\ evidence' \in Written(evidence, new, killed)
  /\ UNCHANGED <<suite, directory, templates, returned, adjudication, ruling, resolution, candidate>>

(* case-system-vnext-expert-review-adjudication-export                       *)
AdjudicationExport(person) ==
  /\ May("adjudication")
  /\ MayAdjudicate(evidence, person)
  /\ \E killed \in BOOLEAN, new \in {AdjudicationOf(evidence, person)} :
       /\ Happens("adjudication", killed)
       /\ \E m \in Written(adjudication.manifest, new, killed),
            p \in Written(adjudication.packet, new, killed),
            t \in Written(adjudication.template, RulingTemplate(new), killed) :
              adjudication' = [manifest |-> m, packet |-> p, template |-> t]
  /\ UNCHANGED <<suite, directory, templates, returned, evidence, ruling, resolution, candidate>>

(* The adjudicator does the same; an unclear task needs notes, and here      *)
(* every answer has them.                                                    *)
Adjudicate ==
  /\ May("ruling")
  /\ Unreadable \notin {adjudication.packet, adjudication.template}
  /\ LET packet == adjudication.packet
         tasks == TasksOf(packet.sourceEvidence)
         template == adjudication.template
     IN  /\ template.tasks \subseteq Queue(packet.sourceEvidence)
         /\ \E answers \in AnswersTo(tasks, template.tasks) :
              ruling' = [packetFingerprint |-> template.packetFingerprint,
                adjudications |-> [i \in template.tasks |->
                  Answer(answers[i], packet, tasks[i], Presentation(1))]]
  /\ Happens("ruling", FALSE)
  /\ UNCHANGED <<suite, directory, templates, returned, evidence, adjudication, resolution, candidate>>

(* case-system-vnext-expert-review-adjudication-import                       *)
AdjudicationImport ==
  /\ May("output")
  /\ Replays(evidence)
  /\ \E killed \in BOOLEAN :
       /\ Happens("output", killed)
       /\ resolution' \in Written(resolution, AdjudicatedResolution(evidence, ruling), killed)
  /\ UNCHANGED <<suite, directory, templates, returned, evidence, adjudication, ruling, candidate>>

WriteCandidate(r) ==
  /\ ResolutionParses(r)
  /\ \E killed \in BOOLEAN :
       /\ Happens("output", killed)
       /\ candidate' \in Written(candidate, CandidateOf(r), killed)
  /\ UNCHANGED <<suite, directory, templates, returned, evidence, adjudication, ruling, resolution>>

(* case-system-vnext-expert-review-reference-candidate, without adjudication *)
ConsensusCandidate ==
  /\ May("output")
  /\ Usable(evidence)
  /\ Queue(evidence) = {}
  /\ WriteCandidate(ConsensusResolution(evidence))

(* The same with the adjudication's directory and submission.                *)
AdjudicatedCandidate ==
  /\ May("output")
  /\ Replays(evidence)
  /\ WriteCandidate(AdjudicatedResolution(evidence, ruling))

Next ==
  \/ EditSuite
  \/ \E reviewerIds \in Panels, domains \in SUBSET Domains :
       Export(reviewerIds, domains)
  \/ \E k \in {1, 2} : Review(k)
  \/ \E one, other \in People : Import(one, other)
  \/ \E person \in People : AdjudicationExport(person)
  \/ Adjudicate
  \/ AdjudicationImport
  \/ ConsensusCandidate
  \/ AdjudicatedCandidate

Spec == Init /\ [][Next]_vars

-----------------------------------------------------------------------------
(* Properties.                                                               *)

Killed == \E kill \in Kills : used[kill] > 0

(* An answer was given on this text, or a killed command had left another    *)
(* packet beside the template that was filled.                               *)
OnItsText(notes, packet, task, killed) ==
  notes.task = task \/ (killed /\ notes.packet # packet)

(* Evidence calls a task agreed exactly when both reviewers found the task   *)
(* clear and meant the same relation, whatever order each of them saw the    *)
(* responses in, and however often the packets were exported, edited and     *)
(* sent back in between; and both meant it of the two responses that the     *)
(* packets show which the evidence names, unless a killed export had left    *)
(* the template of another packet beside the one a reviewer read.            *)
AgreementIsMeant ==
  evidence # Unreadable =>
    \A i \in DOMAIN evidence.reviews :
      LET review == evidence.reviews[i]
          results == review.results
          clear == results[1].sufficientlyClear /\ results[2].sufficientlyClear
          same == results[1].notes.view = results[2].notes.view
      IN  /\ \A k \in {1, 2} :
               OnItsText(results[k].notes, evidence.sourcePackets[k], TasksOf(evidence)[i], Killed)
          /\ (review.agreement = "agreement") <=> (clear /\ same)
          /\ (review.agreement = "packet_ambiguity") <=> ~clear

(* A task of a candidate is ready only with the relation that people meant   *)
(* for it: both reviewers, or a third person where the reviewers did not     *)
(* agree, each on the text of the task unless a killed command had left      *)
(* another packet beside the template; and a candidate is eligible only when *)
(* every task is ready.                                                      *)
ReadyIsWhatWasMeant ==
  candidate # Unreadable =>
    LET source == candidate.source
        e == source.evidence
    IN  /\ DOMAIN candidate.tasks = DOMAIN TasksOf(e)
        /\ candidate.gate = "eligible_for_manual_promotion" =>
             \A i \in DOMAIN candidate.tasks : candidate.tasks[i].status = "candidate_ready"
        /\ \A i \in DOMAIN candidate.tasks :
             LET task == candidate.tasks[i]
                 Said(answer, packet) ==
                   /\ answer.notes.view = task.outcome
                   /\ answer.sufficientlyClear
                   /\ OnItsText(answer.notes, packet, TasksOf(e)[i], Killed)
             IN  task.status = "candidate_ready" =>
                   /\ task.outcome # "INSUFFICIENT_EVIDENCE"
                   /\ IF task.provenance = "human_consensus"
                      THEN \A k \in {1, 2} : Said(e.reviews[i].results[k], e.sourcePackets[k])
                      ELSE \E person \in source.adjudicatorIds \ ReviewersOf(e) :
                             Said(source.tasks[i].ruling, AdjudicationOf(e, person))

(* A candidate is written only for reviews of the text that every fixture of *)
(* its domains has at that moment, and for all of these fixtures.            *)
CandidatesAreCurrent ==
  [][candidate' \notin {candidate, Unreadable} =>
       LET tasks == TasksOf(candidate'.source.evidence) IN
         /\ \A i \in DOMAIN tasks : /\ tasks[i].fixture \in DOMAIN suite.text
                                     /\ tasks[i].text = suite.text[tasks[i].fixture]
         /\ {tasks[i].fixture : i \in DOMAIN tasks} =
              Selected({DomainOf[tasks[i].fixture] : i \in DOMAIN tasks})]_vars

(* A complete review is never stuck: evidence that replays, with the ruling  *)
(* on it or without need of one, makes a resolution that the strict parser   *)
(* in front of the candidate accepts, whatever the people answered.          *)
NothingCompleteIsRefused ==
  /\ Replays(evidence) => ResolutionParses(AdjudicatedResolution(evidence, ruling))
  /\ Usable(evidence) /\ Queue(evidence) = {} =>
       ResolutionParses(ConsensusResolution(evidence))

(* Evidence names the packets that its reviewers saw ("Merged evidence also   *)
(* records the exact source packet fingerprint for each reviewer",           *)
(* docs/case-system-vnext-expert-review.md:151): what they answered to is    *)
(* what these packets show.                                                  *)
EvidenceIsOnItsPackets ==
  evidence # Unreadable =>
    \A i \in DOMAIN evidence.reviews, k \in {1, 2} :
      evidence.reviews[i].results[k].notes.task = evidence.sourcePackets[k].taskSet.tasks[i]
=============================================================================
