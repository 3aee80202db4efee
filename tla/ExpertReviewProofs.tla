------------------------- MODULE ExpertReviewProofs -------------------------
(***************************************************************************)
(* Proofs about ExpertReview, for any people, fixtures and editions of the  *)
(* fixture file, and however often anything happens.                        *)
(*                                                                         *)
(* The invariant says of every file that a person's answer reached that the *)
(* person meant it: a submission and a ruling hold the labels of what was   *)
(* meant in the order of their packets, and evidence holds what was meant.  *)
(* What they were meant of is the text of the packet that they name only    *)
(* while no killed command has left another packet beside the template: so  *)
(* the invariant says of the files that a person works from that, as long   *)
(* as nothing was killed, each template is that of its packet.  Of the rest *)
(* of the directory nothing need be known: each command builds the export   *)
(* again and compares, and SourceIsAnExport says what that gives.           *)
(***************************************************************************)
EXTENDS ExpertReview, FiniteSetTheorems, TLAPS

Views == {"left", "right"} \cup Kinds

(* An answer to a task of a packet, written down for the order in which its *)
(* responses were shown.                                                    *)
Faithful(item, packet, task, shown, killed) ==
  /\ OnItsText(item.notes, packet, task, killed)
  /\ item.notes.view \in Views
  /\ item.sufficientlyClear \in BOOLEAN
  /\ item.outcome = Label(item.notes.view, shown)

FaithfulSubmission(s, killed) ==
  LET packet == s.packetFingerprint IN
    \A i \in DOMAIN packet.taskSet.tasks :
      Faithful(s.reviews[i], packet, packet.taskSet.tasks[i], Presentation(packet.ordinal), killed)

FaithfulRuling(r, killed) ==
  LET packet == r.packetFingerprint IN
    \A i \in Queue(packet.sourceEvidence) :
      Faithful(r.adjudications[i], packet, TasksOf(packet.sourceEvidence)[i], Presentation(1), killed)

(* An answer whose label has been turned into what it says.                 *)
Understood(result, packet, task, killed) ==
  /\ OnItsText(result.notes, packet, task, killed)
  /\ result.normalizedOutcome = result.notes.view
  /\ result.sufficientlyClear \in BOOLEAN
  /\ OutcomeFits(result)

UnderstoodEvidence(e, killed) ==
  /\ DOMAIN e.reviews = DOMAIN TasksOf(e)
  /\ \A i \in DOMAIN TasksOf(e) :
       /\ \A k \in {1, 2} :
            Understood(e.reviews[i].results[k], e.sourcePackets[k], TasksOf(e)[i], killed)
       /\ e.reviews[i].agreement = Agreement(e.reviews[i].results)

(* The files that a person works from.                                      *)
PacketsInv ==
  \A k \in {1, 2} :
    /\ directory.packets[k] # Unreadable => directory.packets[k].ordinal = k
    /\ templates[k] # Unreadable =>
         /\ templates[k] = Template(templates[k].packetFingerprint)
         /\ templates[k].packetFingerprint.ordinal = k
    /\ ~Killed /\ directory.packets[k] # Unreadable /\ templates[k] # Unreadable =>
         templates[k].packetFingerprint = directory.packets[k]

AdjudicationInv ==
  LET packet == adjudication.packet
      template == adjudication.template
  IN  /\ template # Unreadable => template = RulingTemplate(template.packetFingerprint)
      /\ ~Killed /\ packet # Unreadable /\ template # Unreadable =>
           template.packetFingerprint = packet

UsedInv == used \in [Things -> Nat]

ReturnedInv ==
  /\ returned = [p \in People |-> returned[p]]
  /\ \A p \in People : returned[p] # Unreadable => FaithfulSubmission(returned[p], Killed)
EvidenceInv == evidence # Unreadable => UnderstoodEvidence(evidence, Killed)
RulingInv == ruling # Unreadable => FaithfulRuling(ruling, Killed)

SuitesInv == DOMAIN suite.text \subseteq Fixtures

IInv ==
  /\ UsedInv
  /\ PacketsInv
  /\ AdjudicationInv
  /\ ReturnedInv
  /\ EvidenceInv
  /\ RulingInv
  /\ ReadyIsWhatWasMeant

-----------------------------------------------------------------------------
(* Labels.                                                                  *)

(* The label of a view, read in the order in which it was written, is the   *)
(* view; and its kind is that of the view.                                  *)
LEMMA LabelsAreReadAsMeant ==
  ASSUME NEW item, NEW k \in {1, 2}, item.notes.view \in Views,
         item.outcome = Label(item.notes.view, Presentation(k))
  PROVE  /\ NormalizeOutcome(item.outcome, Assignment(k)) = item.notes.view
         /\ IF item.outcome \in {"A_BETTER", "B_BETTER"}
            THEN item.notes.view \in {"left", "right"}
            ELSE item.notes.view = item.outcome
  <1> DEFINE view == item.notes.view
             shown == Presentation(k)
  <1>1. view \in {"left", "right"} \cup {"EQUIVALENT", "NON_DOMINATED", "INSUFFICIENT_EVIDENCE"}
    BY DEF Views, Kinds
  <1>2. \/ shown = [A |-> "left", B |-> "right"]
        \/ shown = [A |-> "right", B |-> "left"]
    BY DEF Presentation
  <1>3. Assignment(k) = shown
    BY DEF Assignment
  <1>4. item.outcome = IF view = shown.A THEN "A_BETTER" ELSE IF view = shown.B THEN "B_BETTER" ELSE view
    BY DEF Label
  <1> HIDE DEF view, shown
  <1>5. NormalizeOutcome(item.outcome, shown) = view
    BY <1>1, <1>2, <1>4 DEF NormalizeOutcome
  <1>6. IF item.outcome \in {"A_BETTER", "B_BETTER"} THEN view \in {"left", "right"}
        ELSE view = item.outcome
    BY <1>1, <1>2, <1>4
  <1> QED
    BY <1>3, <1>5, <1>6 DEF view

-----------------------------------------------------------------------------
(* Exports.                                                                 *)

(* The tasks of an export are the selected fixtures, each with its text and *)
(* under one number only.                                                   *)
LEMMA TasksAreTheSelection ==
  ASSUME NEW domains, Selected(domains) # {}
  PROVE  LET tasks == TaskSet(domains).tasks IN
           /\ DOMAIN tasks # {}
           /\ \A i \in DOMAIN tasks :
                /\ tasks[i].fixture \in Selected(domains)
                /\ tasks[i].text = suite.text[tasks[i].fixture]
                /\ Number(tasks[i].fixture, Selected(domains)) = i
  <1> DEFINE fixtures == Selected(domains)
             Fixture(i) == CHOOSE f \in fixtures : Number(f, fixtures) = i
             numbers == {Number(f, fixtures) : f \in fixtures}
             tasks == [i \in numbers |-> [fixture |-> Fixture(i), text |-> suite.text[Fixture(i)]]]
  <1>1. TaskSet(domains).tasks = tasks
    BY DEF TaskSet
  <1>2. numbers # {}
    OBVIOUS
  <1>3. ASSUME NEW i \in numbers PROVE Fixture(i) \in fixtures /\ Number(Fixture(i), fixtures) = i
    <2>1. PICK f \in fixtures : Number(f, fixtures) = i
      OBVIOUS
    <2> QED
      BY <2>1
  <1>4. DOMAIN tasks = numbers
    OBVIOUS
  <1>5. ASSUME NEW i \in numbers
        PROVE  tasks[i].fixture = Fixture(i) /\ tasks[i].text = suite.text[Fixture(i)]
    OBVIOUS
  <1> HIDE DEF tasks, Fixture, numbers
  <1> QED
    BY <1>1, <1>2, <1>3, <1>4, <1>5

(* No two of some fixtures have one number.                                 *)
LEMMA NumbersAreDistinct ==
  ASSUME NEW fixtures \in SUBSET Fixtures, NEW f \in fixtures, NEW g \in fixtures,
         Number(f, fixtures) = Number(g, fixtures)
  PROVE  f = g
  <1>1. IsFiniteSet(fixtures) /\ fixtures \subseteq Nat
    BY ReviewAssumption, FS_Subset
  <1>2. ASSUME NEW x \in fixtures, NEW y \in fixtures, x < y
        PROVE  Number(x, fixtures) # Number(y, fixtures)
    <2> DEFINE upto(z) == {h \in fixtures : h <= z}
    <2>1. IsFiniteSet(upto(x)) /\ IsFiniteSet(upto(y))
      BY <1>1, FS_Subset
    <2>2. ASSUME NEW h \in upto(x) PROVE h \in upto(y)
      <3>1. h \in Nat /\ x \in Nat /\ y \in Nat /\ h <= x
        BY <1>1
      <3> QED
        BY <1>2, <3>1
    <2>3. y \in upto(y) /\ y \notin upto(x)
      BY <1>1, <1>2
    <2> HIDE DEF upto
    <2>4. Cardinality(upto(x)) # Cardinality(upto(y))
      BY <2>1, <2>2, <2>3, FS_Subset
    <2> QED
      BY <2>4 DEF Number, upto
  <1>3. f \in Nat /\ g \in Nat
    BY <1>1
  <1> QED
    BY <1>2, <1>3

(* What a command knows of the directory when it loads it: it is the export *)
(* of the fixtures as they are now, for two reviewers.                      *)
LEMMA SourceIsAnExport ==
  ASSUME SourceLoads
  PROVE  \E domains, one, other :
           /\ one # other
           /\ Selected(domains) # {}
           /\ directory = ExportOf(TaskSet(domains), <<one, other>>)
  <1> DEFINE domains == DomainsIn(directory.packets[1].taskSet)
             one == directory.packets[1].reviewerId
             other == directory.packets[2].reviewerId
  <1>1. /\ one # other
        /\ Selected(domains) # {}
        /\ directory = ExportOf(TaskSet(domains), <<one, other>>)
    BY DEF SourceLoads
  <1> QED
    BY <1>1

(* The same for the fields that the other lemmas need.                      *)
LEMMA ExportFields ==
  ASSUME NEW taskSet, NEW one, NEW other, directory = ExportOf(taskSet, <<one, other>>)
  PROVE  /\ directory.packets[1].taskSet = taskSet /\ directory.packets[2].taskSet = taskSet
         /\ directory.packets[1].ordinal = 1 /\ directory.packets[2].ordinal = 2
         /\ directory.packets[1].reviewerId = one /\ directory.packets[2].reviewerId = other
  BY DEF ExportOf, Packet

-----------------------------------------------------------------------------
(* Evidence.                                                                *)

(* Two submissions that parse are merged to what their authors meant.       *)
LEMMA MergedIsUnderstood ==
  ASSUME SourceLoads, NEW submissions, NEW killed \in BOOLEAN,
         \A k \in {1, 2} : /\ FaithfulSubmission(submissions[k], killed)
                           /\ Parses(submissions[k], directory.packets[k])
  PROVE  UnderstoodEvidence(Merged(directory.packets, submissions), killed)
  <1>1. PICK domains, one, other : directory = ExportOf(TaskSet(domains), <<one, other>>)
    BY SourceIsAnExport
  <1> DEFINE taskSet == TaskSet(domains)
             tasks == directory.packets[1].taskSet.tasks
             Result(i, k) ==
               LET review == submissions[k].reviews[i]
               IN  [sufficientlyClear |-> review.sufficientlyClear, outcome |-> review.outcome,
                    normalizedOutcome |-> NormalizeOutcome(review.outcome, Assignment(k)),
                    notes |-> review.notes]
             e == Merged(directory.packets, submissions)
  <1>2. \A k \in {1, 2} : directory.packets[k].taskSet.tasks = tasks /\ directory.packets[k].ordinal = k
    BY <1>1, ExportFields
  <1>3. e = [sourcePackets |-> directory.packets,
             reviews |-> [i \in DOMAIN tasks |->
               [results |-> <<Result(i, 1), Result(i, 2)>>,
                agreement |-> Agreement(<<Result(i, 1), Result(i, 2)>>)]]]
    BY DEF Merged
  <1>4. ASSUME NEW i \in DOMAIN tasks, NEW k \in {1, 2}
        PROVE  Understood(Result(i, k), directory.packets[k], tasks[i], killed)
    <2> DEFINE item == submissions[k].reviews[i]
    <2>1. Faithful(item, directory.packets[k], tasks[i], Presentation(k), killed)
      BY <1>2 DEF FaithfulSubmission, Parses
    <2>2. /\ NormalizeOutcome(item.outcome, Assignment(k)) = item.notes.view
          /\ IF item.outcome \in {"A_BETTER", "B_BETTER"}
             THEN item.notes.view \in {"left", "right"}
             ELSE item.notes.view = item.outcome
      BY <2>1, LabelsAreReadAsMeant DEF Faithful
    <2>3. /\ OnItsText(item.notes, directory.packets[k], tasks[i], killed)
          /\ item.sufficientlyClear \in BOOLEAN
      BY <2>1 DEF Faithful
    <2>4. Result(i, k) = [sufficientlyClear |-> item.sufficientlyClear, outcome |-> item.outcome,
                          normalizedOutcome |-> item.notes.view, notes |-> item.notes]
      BY <2>2
    <2> HIDE DEF item, Result, tasks
    <2> QED
      BY <2>2, <2>3, <2>4 DEF Understood, OutcomeFits
  <1>5. TasksOf(e) = tasks /\ e.sourcePackets = directory.packets
    BY <1>3 DEF TasksOf
  <1> HIDE DEF Result, e, tasks
  <1>6. DOMAIN e.reviews = DOMAIN TasksOf(e)
    BY <1>3, <1>5
  <1>7. ASSUME NEW i \in DOMAIN tasks
        PROVE  /\ \A k \in {1, 2} :
                    Understood(e.reviews[i].results[k], directory.packets[k], tasks[i], killed)
               /\ e.reviews[i].agreement = Agreement(e.reviews[i].results)
    <2>1. e.reviews[i] = [results |-> <<Result(i, 1), Result(i, 2)>>,
                          agreement |-> Agreement(<<Result(i, 1), Result(i, 2)>>)]
      BY <1>3
    <2>2. \A k \in {1, 2} : e.reviews[i].results[k] = Result(i, k)
      BY <2>1
    <2> QED
      BY <1>4, <2>1, <2>2
  <1> QED
    BY <1>5, <1>6, <1>7 DEF UnderstoodEvidence, e

(* What a command knows of evidence that it can use.                        *)
LEMMA UsableEvidence ==
  ASSUME Usable(evidence)
  PROVE  /\ evidence # Unreadable
         /\ evidence.sourcePackets[1].reviewerId # evidence.sourcePackets[2].reviewerId
         /\ DOMAIN evidence.reviews = DOMAIN TasksOf(evidence)
         /\ DOMAIN evidence.reviews # {}
         /\ \A i, j \in DOMAIN evidence.reviews :
              TasksOf(evidence)[i].fixture = TasksOf(evidence)[j].fixture => i = j
         /\ \A i \in DOMAIN evidence.reviews :
              evidence.reviews[i].agreement = Agreement(evidence.reviews[i].results)
  <1>1. /\ SourceLoads /\ evidence # Unreadable
        /\ evidence.sourcePackets = directory.packets
        /\ DOMAIN evidence.reviews = DOMAIN directory.packets[1].taskSet.tasks
        /\ \A i \in DOMAIN evidence.reviews :
             evidence.reviews[i].agreement = Agreement(evidence.reviews[i].results)
    BY DEF Usable, ValidEvidence
  <1>2. PICK domains, one, other :
          /\ one # other
          /\ Selected(domains) # {}
          /\ directory = ExportOf(TaskSet(domains), <<one, other>>)
    BY <1>1, SourceIsAnExport
  <1>3. /\ TasksOf(evidence) = TaskSet(domains).tasks
        /\ directory.packets[1].taskSet.tasks = TaskSet(domains).tasks
        /\ evidence.sourcePackets[1].reviewerId = one
        /\ evidence.sourcePackets[2].reviewerId = other
    BY <1>1, <1>2, ExportFields DEF TasksOf
  <1> DEFINE tasks == TaskSet(domains).tasks
  <1>4. /\ DOMAIN tasks # {}
        /\ \A i \in DOMAIN tasks : Number(tasks[i].fixture, Selected(domains)) = i
    BY <1>2, TasksAreTheSelection
  <1> HIDE DEF tasks
  <1>5. \A i, j \in DOMAIN tasks : tasks[i].fixture = tasks[j].fixture => i = j
    BY <1>4
  <1> QED
    BY <1>1, <1>2, <1>3, <1>4, <1>5 DEF tasks

-----------------------------------------------------------------------------
(* Candidates.                                                              *)

TaskIsMeant(c, i, killed) ==
  LET source == c.source
      e == source.evidence
      task == c.tasks[i]
      Said(answer, packet) ==
        /\ answer.notes.view = task.outcome
        /\ answer.sufficientlyClear
        /\ OnItsText(answer.notes, packet, TasksOf(e)[i], killed)
  IN  task.status = "candidate_ready" =>
        /\ task.outcome # "INSUFFICIENT_EVIDENCE"
        /\ IF task.provenance = "human_consensus"
           THEN \A k \in {1, 2} : Said(e.reviews[i].results[k], e.sourcePackets[k])
           ELSE \E person \in source.adjudicatorIds \ ReviewersOf(e) :
                  Said(source.tasks[i].ruling, AdjudicationOf(e, person))

Meant(c, killed) ==
  /\ DOMAIN c.tasks = DOMAIN TasksOf(c.source.evidence)
  /\ c.gate = "eligible_for_manual_promotion" =>
       \A i \in DOMAIN c.tasks : c.tasks[i].status = "candidate_ready"
  /\ \A i \in DOMAIN c.tasks : TaskIsMeant(c, i, killed)

(* A task on which the reviewers agree.                                     *)
LEMMA ConsensusTask ==
  ASSUME NEW review,
         \A k \in {1, 2} : review.results[k].normalizedOutcome = review.results[k].notes.view,
         review.agreement = "agreement", review.agreement = Agreement(review.results),
         NEW c, c = CandidateTask(Consensus(review)), c.status = "candidate_ready"
  PROVE  /\ c.outcome # "INSUFFICIENT_EVIDENCE" /\ c.provenance = "human_consensus"
         /\ \A k \in {1, 2} : /\ review.results[k].notes.view = c.outcome
                              /\ review.results[k].sufficientlyClear
  <1> DEFINE first == review.results[1]
             second == review.results[2]
  <1>1. /\ first.sufficientlyClear /\ second.sufficientlyClear
        /\ first.normalizedOutcome = second.normalizedOutcome
    BY DEF Agreement
  <1>2. first.normalizedOutcome = first.notes.view /\ second.normalizedOutcome = second.notes.view
    OBVIOUS
  <1>3. /\ c.outcome # "INSUFFICIENT_EVIDENCE" /\ c.provenance = "human_consensus"
        /\ c.outcome = first.normalizedOutcome
    <2>1. Consensus(review) = [status |-> "reviewer_consensus", resolution |-> first.normalizedOutcome]
      BY DEF Consensus
    <2> HIDE DEF first
    <2>2. CASE first.normalizedOutcome = "INSUFFICIENT_EVIDENCE"
      <3>1. c = [status |-> "blocked_insufficient_evidence"]
        BY <2>1, <2>2 DEF CandidateTask
      <3> QED
        BY <3>1
    <2>3. CASE first.normalizedOutcome # "INSUFFICIENT_EVIDENCE"
      <3>1. c = [status |-> "candidate_ready", outcome |-> first.normalizedOutcome,
                 provenance |-> "human_consensus"]
        BY <2>1, <2>3 DEF CandidateTask
      <3> QED
        BY <2>3, <3>1
    <2> QED
      BY <2>2, <2>3
  <1> QED
    BY <1>1, <1>2, <1>3

(* A task that an adjudicator decided.                                      *)
LEMMA AdjudicatedTask ==
  ASSUME NEW item, NEW packet, NEW task, NEW killed \in BOOLEAN,
         Faithful(item, packet, task, Presentation(1), killed),
         NEW t, t = Adjudicated(AdjudicatorResult(item)),
         NEW c, c = CandidateTask(t), c.status = "candidate_ready"
  PROVE  /\ c.outcome # "INSUFFICIENT_EVIDENCE" /\ c.provenance = "human_adjudicated"
         /\ t.ruling.notes.view = c.outcome
         /\ t.ruling.sufficientlyClear
         /\ OnItsText(t.ruling.notes, packet, task, killed)
  <1> DEFINE ruled == AdjudicatorResult(item)
  <1>1. /\ ruled.normalizedOutcome = item.notes.view
        /\ ruled.notes = item.notes
        /\ OnItsText(item.notes, packet, task, killed)
    BY LabelsAreReadAsMeant DEF AdjudicatorResult, Faithful
  <1> HIDE DEF ruled
  <1>2. CASE ~ruled.sufficientlyClear
    <2>1. t = [status |-> "unresolved", ruling |-> ruled]
      BY <1>2 DEF Adjudicated, ruled
    <2>2. c = [status |-> "blocked_unresolved"]
      BY <2>1 DEF CandidateTask
    <2> QED
      BY <2>2
  <1>3. CASE ruled.sufficientlyClear
    <2>1. t = [status |-> "adjudicated", ruling |-> ruled, resolution |-> ruled.normalizedOutcome]
      BY <1>3 DEF Adjudicated, ruled
    <2>2. CASE ruled.normalizedOutcome = "INSUFFICIENT_EVIDENCE"
      <3>1. c = [status |-> "blocked_insufficient_evidence"]
        BY <2>1, <2>2 DEF CandidateTask
      <3> QED
        BY <3>1
    <2>3. CASE ruled.normalizedOutcome # "INSUFFICIENT_EVIDENCE"
      <3>1. c = [status |-> "candidate_ready", outcome |-> ruled.normalizedOutcome,
                 provenance |-> "human_adjudicated"]
        BY <2>1, <2>3 DEF CandidateTask
      <3> QED
        BY <1>1, <1>3, <2>1, <2>3, <3>1
    <2> QED
      BY <2>2, <2>3
  <1> QED
    BY <1>2, <1>3

LEMMA CandidateFields ==
  ASSUME NEW r, NEW c, c = CandidateOf(r)
  PROVE  /\ c.source = r
         /\ DOMAIN c.tasks = DOMAIN r.tasks
         /\ \A i \in DOMAIN r.tasks : c.tasks[i] = CandidateTask(r.tasks[i])
         /\ c.gate = "eligible_for_manual_promotion" =>
              \A i \in DOMAIN r.tasks : c.tasks[i].status = "candidate_ready"
  <1> DEFINE tasks == [i \in DOMAIN r.tasks |-> CandidateTask(r.tasks[i])]
             ready == \A i \in DOMAIN tasks : tasks[i].status = "candidate_ready"
  <1>1. c = [source |-> r, tasks |-> tasks,
             gate |-> IF ready THEN "eligible_for_manual_promotion" ELSE "blocked"]
    BY DEF CandidateOf
  <1>2. /\ DOMAIN tasks = DOMAIN r.tasks
        /\ \A i \in DOMAIN r.tasks : tasks[i] = CandidateTask(r.tasks[i])
    OBVIOUS
  <1>3. c.source = r /\ c.tasks = tasks
    BY <1>1
  <1>4. c.gate = "eligible_for_manual_promotion" => ready
    BY <1>1
  <1> HIDE DEF tasks
  <1> QED
    BY <1>2, <1>3, <1>4

(* Without a queue, a candidate says what both reviewers meant.             *)
LEMMA ConsensusIsMeant ==
  ASSUME NEW killed \in BOOLEAN,
         Usable(evidence), Queue(evidence) = {}, UnderstoodEvidence(evidence, killed)
  PROVE  Meant(CandidateOf(ConsensusResolution(evidence)), killed)
  <1> DEFINE r == ConsensusResolution(evidence)
             c == CandidateOf(r)
             reviews == evidence.reviews
  <1>1. /\ r.evidence = evidence
        /\ DOMAIN r.tasks = DOMAIN reviews
        /\ \A i \in DOMAIN reviews : r.tasks[i] = Consensus(reviews[i])
    BY DEF ConsensusResolution
  <1> HIDE DEF r
  <1>2. /\ c.source = r
        /\ DOMAIN c.tasks = DOMAIN reviews
        /\ \A i \in DOMAIN reviews : c.tasks[i] = CandidateTask(r.tasks[i])
        /\ c.gate = "eligible_for_manual_promotion" =>
             \A i \in DOMAIN reviews : c.tasks[i].status = "candidate_ready"
    BY <1>1, CandidateFields
  <1>3. DOMAIN reviews = DOMAIN TasksOf(evidence)
    BY UsableEvidence
  <1> HIDE DEF c
  <1>4. ASSUME NEW i \in DOMAIN reviews, c.tasks[i].status = "candidate_ready"
        PROVE  /\ c.tasks[i].outcome # "INSUFFICIENT_EVIDENCE"
               /\ c.tasks[i].provenance = "human_consensus"
               /\ \A k \in {1, 2} :
                    /\ reviews[i].results[k].notes.view = c.tasks[i].outcome
                    /\ reviews[i].results[k].sufficientlyClear
                    /\ OnItsText(reviews[i].results[k].notes, evidence.sourcePackets[k],
                                 TasksOf(evidence)[i], killed)
    <2>1. c.tasks[i] = CandidateTask(Consensus(reviews[i]))
      BY <1>1, <1>2
    <2>2. /\ \A k \in {1, 2} :
               Understood(reviews[i].results[k], evidence.sourcePackets[k], TasksOf(evidence)[i], killed)
          /\ reviews[i].agreement = Agreement(reviews[i].results)
      BY <1>3 DEF UnderstoodEvidence
    <2>3. reviews[i].agreement = "agreement"
      BY DEF Queue
    <2>4. \A k \in {1, 2} :
            /\ reviews[i].results[k].normalizedOutcome = reviews[i].results[k].notes.view
            /\ OnItsText(reviews[i].results[k].notes, evidence.sourcePackets[k],
                         TasksOf(evidence)[i], killed)
      BY <2>2 DEF Understood
    <2> QED
      BY <1>4, <2>1, <2>2, <2>3, <2>4, ConsensusTask
  <1>5. ASSUME NEW i \in DOMAIN reviews PROVE TaskIsMeant(c, i, killed)
    BY <1>1, <1>2, <1>4 DEF TaskIsMeant
  <1>6. Meant(c, killed)
    BY <1>1, <1>2, <1>3, <1>5 DEF Meant
  <1> QED
    BY <1>6 DEF c, r

(* With a queue, it says of a queued task what the adjudicator meant.       *)
LEMMA AdjudicatedIsMeant ==
  ASSUME NEW killed \in BOOLEAN,
         Replays(evidence), UnderstoodEvidence(evidence, killed), FaithfulRuling(ruling, killed)
  PROVE  Meant(CandidateOf(AdjudicatedResolution(evidence, ruling)), killed)
  <1> DEFINE r == AdjudicatedResolution(evidence, ruling)
             c == CandidateOf(r)
             reviews == evidence.reviews
             person == adjudication.manifest.adjudicatorId
  <1>0. /\ Usable(evidence) /\ person \notin ReviewersOf(evidence)
        /\ adjudication.packet = AdjudicationOf(evidence, person)
        /\ ruling.packetFingerprint = adjudication.packet
    BY DEF Replays, MayAdjudicate, RulingParses
  <1>1. /\ r.evidence = evidence
        /\ DOMAIN r.tasks = DOMAIN reviews
        /\ \A i \in DOMAIN reviews :
             r.tasks[i] = IF i \in Queue(evidence)
                          THEN Adjudicated(AdjudicatorResult(ruling.adjudications[i]))
                          ELSE Consensus(reviews[i])
    BY DEF AdjudicatedResolution
  <1>2. r.adjudicatorIds = {person} /\ ruling.packetFingerprint.sourceEvidence = evidence
    BY <1>0 DEF AdjudicatedResolution, AdjudicationOf
  <1> HIDE DEF r
  <1>3. /\ c.source = r
        /\ DOMAIN c.tasks = DOMAIN reviews
        /\ \A i \in DOMAIN reviews : c.tasks[i] = CandidateTask(r.tasks[i])
        /\ c.gate = "eligible_for_manual_promotion" =>
             \A i \in DOMAIN reviews : c.tasks[i].status = "candidate_ready"
    BY <1>1, CandidateFields
  <1>4. DOMAIN reviews = DOMAIN TasksOf(evidence)
    BY <1>0, UsableEvidence
  <1> HIDE DEF c, person
  <1>5. ASSUME NEW i \in DOMAIN reviews, i \notin Queue(evidence),
               c.tasks[i].status = "candidate_ready"
        PROVE  /\ c.tasks[i].outcome # "INSUFFICIENT_EVIDENCE"
               /\ c.tasks[i].provenance = "human_consensus"
               /\ \A k \in {1, 2} :
                    /\ reviews[i].results[k].notes.view = c.tasks[i].outcome
                    /\ reviews[i].results[k].sufficientlyClear
                    /\ OnItsText(reviews[i].results[k].notes, evidence.sourcePackets[k],
                                 TasksOf(evidence)[i], killed)
    <2>1. c.tasks[i] = CandidateTask(Consensus(reviews[i]))
      BY <1>1, <1>3, <1>5
    <2>2. /\ \A k \in {1, 2} :
               Understood(reviews[i].results[k], evidence.sourcePackets[k], TasksOf(evidence)[i], killed)
          /\ reviews[i].agreement = Agreement(reviews[i].results)
      BY <1>4 DEF UnderstoodEvidence
    <2>3. reviews[i].agreement = "agreement"
      BY <1>5 DEF Queue
    <2>4. \A k \in {1, 2} :
            /\ reviews[i].results[k].normalizedOutcome = reviews[i].results[k].notes.view
            /\ OnItsText(reviews[i].results[k].notes, evidence.sourcePackets[k],
                         TasksOf(evidence)[i], killed)
      BY <2>2 DEF Understood
    <2> QED
      BY <1>5, <2>1, <2>2, <2>3, <2>4, ConsensusTask
  <1>6. ASSUME NEW i \in DOMAIN reviews, i \in Queue(evidence),
               c.tasks[i].status = "candidate_ready"
        PROVE  /\ c.tasks[i].outcome # "INSUFFICIENT_EVIDENCE"
               /\ c.tasks[i].provenance = "human_adjudicated"
               /\ r.tasks[i].ruling.notes.view = c.tasks[i].outcome
               /\ r.tasks[i].ruling.sufficientlyClear
               /\ OnItsText(r.tasks[i].ruling.notes, AdjudicationOf(evidence, person),
                            TasksOf(evidence)[i], killed)
    <2>1. r.tasks[i] = Adjudicated(AdjudicatorResult(ruling.adjudications[i]))
      BY <1>1, <1>6
    <2>2. Faithful(ruling.adjudications[i], AdjudicationOf(evidence, person),
                   TasksOf(evidence)[i], Presentation(1), killed)
      BY <1>0, <1>2, <1>6 DEF FaithfulRuling
    <2>3. c.tasks[i] = CandidateTask(r.tasks[i])
      BY <1>3
    <2> QED
      BY <1>6, <2>1, <2>2, <2>3, AdjudicatedTask
  <1>7. person \in r.adjudicatorIds \ ReviewersOf(evidence)
    BY <1>0, <1>2
  <1>8. ASSUME NEW i \in DOMAIN reviews PROVE TaskIsMeant(c, i, killed)
    <2>1. CASE i \in Queue(evidence)
      BY <1>1, <1>3, <1>6, <1>7, <2>1 DEF TaskIsMeant
    <2>2. CASE i \notin Queue(evidence)
      BY <1>1, <1>3, <1>5, <2>2 DEF TaskIsMeant
    <2> QED
      BY <2>1, <2>2
  <1>9. Meant(c, killed)
    BY <1>1, <1>3, <1>4, <1>8 DEF Meant
  <1> QED
    BY <1>9 DEF c, r

-----------------------------------------------------------------------------
(* The invariant.                                                           *)

(* Nothing happens less often than before, and what is killed is counted.   *)
LEMMA HappeningsAreCounted ==
  ASSUME UsedInv, NEW thing \in Things, NEW killed \in BOOLEAN,
         killed => thing \in DOMAIN Kill, Happens(thing, killed)
  PROVE  UsedInv' /\ (Killed => Killed') /\ (killed => Killed')
  <1> DEFINE things == IF killed THEN {thing, Kill[thing], "any"} ELSE {thing, "any"}
  <1>1. used' = [t \in Things |-> IF t \in things THEN used[t] + 1 ELSE used[t]]
    BY DEF Happens
  <1>2. killed => Kill[thing] \in Kills /\ Kill[thing] \in things
    BY DEF Kills
  <1> HIDE DEF things
  <1>3. \A t \in Things : /\ used[t] \in Nat /\ used'[t] \in Nat /\ used'[t] >= used[t]
                          /\ t \in things => used'[t] > 0
    BY <1>1 DEF UsedInv
  <1>4. UsedInv'
    BY <1>1, <1>3 DEF UsedInv
  <1>5. Kills \subseteq Things
    BY DEF Things
  <1>6. Killed => Killed'
    BY <1>3, <1>5 DEF Killed
  <1>7. killed => Killed'
    BY <1>2, <1>3, <1>5 DEF Killed
  <1> QED
    BY <1>4, <1>6, <1>7

(* Once a command was killed, one was killed.                               *)
LEMMA KilledForGood ==
  ASSUME UsedInv, [Next]_vars
  PROVE  UsedInv' /\ (Killed => Killed')
  <1>1. ASSUME NEW thing \in Things, NEW killed \in BOOLEAN,
               killed => thing \in DOMAIN Kill, Happens(thing, killed)
        PROVE  UsedInv' /\ (Killed => Killed')
    BY <1>1, HappeningsAreCounted
  <1>2. CASE EditSuite
    <2>1. Happens("edit", FALSE)
      BY <1>2 DEF EditSuite
    <2> QED
      BY <1>1, <2>1 DEF Things
  <1>3. ASSUME NEW reviewerIds \in Panels, NEW domains \in SUBSET Domains,
               Export(reviewerIds, domains)
        PROVE  UsedInv' /\ (Killed => Killed')
    <2>1. "export" \in DOMAIN Kill /\ \E killed \in BOOLEAN : Happens("export", killed)
      BY <1>3 DEF Export, Kill
    <2> QED
      BY <1>1, <2>1 DEF Things
  <1>4. ASSUME NEW k \in {1, 2}, Review(k)
        PROVE  UsedInv' /\ (Killed => Killed')
    <2>1. Happens("review", FALSE)
      BY <1>4 DEF Review
    <2> QED
      BY <1>1, <2>1 DEF Things
  <1>5. ASSUME NEW one \in People, NEW other \in People, Import(one, other)
        PROVE  UsedInv' /\ (Killed => Killed')
    <2>1. "import" \in DOMAIN Kill /\ \E killed \in BOOLEAN : Happens("import", killed)
      BY <1>5 DEF Import, Kill
    <2> QED
      BY <1>1, <2>1 DEF Things
  <1>6. ASSUME NEW person \in People, AdjudicationExport(person)
        PROVE  UsedInv' /\ (Killed => Killed')
    <2>1. "adjudication" \in DOMAIN Kill /\ \E killed \in BOOLEAN : Happens("adjudication", killed)
      BY <1>6 DEF AdjudicationExport, Kill
    <2> QED
      BY <1>1, <2>1 DEF Things
  <1>7. CASE Adjudicate
    <2>1. Happens("ruling", FALSE)
      BY <1>7 DEF Adjudicate
    <2> QED
      BY <1>1, <2>1 DEF Things
  <1>8. CASE AdjudicationImport \/ ConsensusCandidate \/ AdjudicatedCandidate
    <2>1. "output" \in DOMAIN Kill /\ \E killed \in BOOLEAN : Happens("output", killed)
      BY <1>8 DEF AdjudicationImport, ConsensusCandidate, AdjudicatedCandidate, WriteCandidate, Kill
    <2> QED
      BY <1>1, <2>1 DEF Things
  <1>9. CASE UNCHANGED vars
    BY <1>9 DEF vars, UsedInv, Killed
  <1> QED
    BY <1>2, <1>3, <1>4, <1>5, <1>6, <1>7, <1>8, <1>9 DEF Next

(* What was faithful is so after a command was killed.                      *)
LEMMA KillingForgives ==
  ASSUME NEW before \in BOOLEAN, NEW after \in BOOLEAN, before => after
  PROVE  /\ \A s : FaithfulSubmission(s, before) => FaithfulSubmission(s, after)
         /\ \A r : FaithfulRuling(r, before) => FaithfulRuling(r, after)
         /\ \A e : UnderstoodEvidence(e, before) => UnderstoodEvidence(e, after)
         /\ \A c : Meant(c, before) => Meant(c, after)
  <1>0. \A notes, packet, task :
          OnItsText(notes, packet, task, before) => OnItsText(notes, packet, task, after)
    BY DEF OnItsText
  <1>1. \A item, packet, task, shown :
          Faithful(item, packet, task, shown, before) => Faithful(item, packet, task, shown, after)
    BY <1>0 DEF Faithful
  <1>2. \A s : FaithfulSubmission(s, before) => FaithfulSubmission(s, after)
    BY <1>1 DEF FaithfulSubmission
  <1>3. \A r : FaithfulRuling(r, before) => FaithfulRuling(r, after)
    BY <1>1 DEF FaithfulRuling
  <1>4. \A e : UnderstoodEvidence(e, before) => UnderstoodEvidence(e, after)
    <2>1. \A result, packet, task :
            Understood(result, packet, task, before) => Understood(result, packet, task, after)
      BY <1>0 DEF Understood
    <2> QED
      BY <2>1 DEF UnderstoodEvidence
  <1>5. \A c : Meant(c, before) => Meant(c, after)
    <2>1. \A c, i : TaskIsMeant(c, i, before) => TaskIsMeant(c, i, after)
      BY <1>0 DEF TaskIsMeant
    <2> QED
      BY <2>1 DEF Meant
  <1> QED
    BY <1>2, <1>3, <1>4, <1>5

LEMMA PacketsStep ==
  ASSUME UsedInv, PacketsInv, [Next]_vars
  PROVE  PacketsInv'
  <1>1. ASSUME NEW reviewerIds \in Panels, NEW domains \in SUBSET Domains,
               Export(reviewerIds, domains)
        PROVE  PacketsInv'
    <2> DEFINE new == ExportOf(TaskSet(domains), reviewerIds)
               beside == <<Template(new.packets[1]), Template(new.packets[2])>>
    <2>1. PICK killed \in BOOLEAN, made \in {new} :
            /\ Happens("export", killed)
            /\ \E m \in Written(directory.manifest, made.manifest, killed),
                 first \in Written(directory.packets[1], made.packets[1], killed),
                 second \in Written(directory.packets[2], made.packets[2], killed) :
                   directory' = [manifest |-> m, packets |-> <<first, second>>]
            /\ \E first \in Written(templates[1], Template(made.packets[1]), killed),
                 second \in Written(templates[2], Template(made.packets[2]), killed) :
                   templates' = <<first, second>>
      BY <1>1 DEF Export
    <2>0. /\ made = new
          /\ \A k \in {1, 2} :
               /\ directory'.packets[k] \in Written(directory.packets[k], made.packets[k], killed)
               /\ templates'[k] \in Written(templates[k], Template(made.packets[k]), killed)
      <3> HIDE DEF new, beside
      <3> QED
        BY <2>1
    <2>2. ASSUME NEW k \in {1, 2}
          PROVE  /\ new.packets[k].ordinal = k
                 /\ beside[k] = Template(new.packets[k])
                 /\ beside[k].packetFingerprint = new.packets[k]
      <3>1. beside[k] = Template(new.packets[k])
        OBVIOUS
      <3>2. Template(new.packets[k]).packetFingerprint = new.packets[k]
        BY DEF Template
      <3>3. new.packets[k].ordinal = k
        BY DEF ExportOf, Packet
      <3> HIDE DEF new, beside
      <3> QED
        BY <3>1, <3>2, <3>3
    <2>3. (Killed => Killed') /\ (killed => Killed')
      <3>1. "export" \in DOMAIN Kill
        BY DEF Kill
      <3> QED
        BY <2>1, <3>1, HappeningsAreCounted DEF Things
    <2> HIDE DEF new, beside
    <2>5. ASSUME NEW k \in {1, 2}
          PROVE  /\ directory'.packets[k] # Unreadable => directory'.packets[k].ordinal = k
                 /\ templates'[k] # Unreadable =>
                      /\ templates'[k] = Template(templates'[k].packetFingerprint)
                      /\ templates'[k].packetFingerprint.ordinal = k
                 /\ ~Killed' => templates'[k].packetFingerprint = directory'.packets[k]
      <3>1. /\ directory'.packets[k] \in {directory.packets[k], new.packets[k], Unreadable}
            /\ templates'[k] \in {templates[k], beside[k], Unreadable}
        BY <2>0, <2>2 DEF Written
      <3>2. ~killed => directory'.packets[k] = new.packets[k] /\ templates'[k] = beside[k]
        BY <2>0, <2>2 DEF Written
      <3>3. ~Killed' => templates'[k].packetFingerprint = directory'.packets[k]
        BY <2>2, <2>3, <3>2
      <3> QED
        BY <2>2, <3>1, <3>3 DEF PacketsInv
    <2> QED
      BY <2>5 DEF PacketsInv
  <1>2. CASE UNCHANGED <<directory, templates>>
    BY <1>2, KilledForGood DEF PacketsInv
  <1>3. \/ \E reviewerIds \in Panels, domains \in SUBSET Domains : Export(reviewerIds, domains)
        \/ UNCHANGED <<directory, templates>>
    BY DEF Next, vars, EditSuite, Review, Import, AdjudicationExport, Adjudicate,
           AdjudicationImport, ConsensusCandidate, AdjudicatedCandidate, WriteCandidate
  <1> QED
    BY <1>1, <1>2, <1>3

LEMMA AdjudicationStep ==
  ASSUME UsedInv, AdjudicationInv, [Next]_vars
  PROVE  AdjudicationInv'
  <1>1. ASSUME NEW person \in People, AdjudicationExport(person)
        PROVE  AdjudicationInv'
    <2> DEFINE new == AdjudicationOf(evidence, person)
    <2>1. PICK killed \in BOOLEAN, made \in {new} :
            /\ Happens("adjudication", killed)
            /\ \E m \in Written(adjudication.manifest, made, killed),
                 p \in Written(adjudication.packet, made, killed),
                 t \in Written(adjudication.template, RulingTemplate(made), killed) :
                   adjudication' = [manifest |-> m, packet |-> p, template |-> t]
      BY <1>1 DEF AdjudicationExport
    <2>0. /\ made = new
          /\ adjudication'.packet \in Written(adjudication.packet, new, killed)
          /\ adjudication'.template \in Written(adjudication.template, RulingTemplate(new), killed)
      <3> HIDE DEF new
      <3> QED
        BY <2>1
    <2>2. RulingTemplate(new).packetFingerprint = new
      BY DEF RulingTemplate
    <2>3. (Killed => Killed') /\ (killed => Killed')
      <3>1. "adjudication" \in DOMAIN Kill
        BY DEF Kill
      <3> QED
        BY <2>1, <3>1, HappeningsAreCounted DEF Things
    <2>4. /\ adjudication'.template \in {adjudication.template, RulingTemplate(new), Unreadable}
          /\ ~killed => adjudication'.packet = new /\ adjudication'.template = RulingTemplate(new)
      BY <2>0 DEF Written
    <2> HIDE DEF new
    <2> QED
      BY <2>2, <2>3, <2>4 DEF AdjudicationInv
  <1>2. CASE UNCHANGED adjudication
    BY <1>2, KilledForGood DEF AdjudicationInv
  <1>3. (\E person \in People : AdjudicationExport(person)) \/ UNCHANGED adjudication
    BY DEF Next, vars, EditSuite, Export, Review, Import, Adjudicate,
           AdjudicationImport, ConsensusCandidate, AdjudicatedCandidate, WriteCandidate
  <1> QED
    BY <1>1, <1>2, <1>3

(* What a person writes down who reads a task of one packet is faithful to  *)
(* the view as an answer to a task of another, if it is on its text.        *)
LEMMA AnswersAreFaithful ==
  ASSUME NEW tasks, NEW asked, NEW answers \in AnswersTo(tasks, asked), NEW i \in asked,
         NEW packet, NEW shown, NEW named, NEW task, NEW killed \in BOOLEAN,
         tasks[i] = task \/ (killed /\ packet # named)
  PROVE  Faithful(Answer(answers[i], packet, tasks[i], shown), named, task, shown, killed)
  <1>1. PICK f \in Fixtures : answers[i] \in Answers[f]
    BY DEF AnswersTo
  <1>2. answers[i] \in [view : {"left", "right"} \cup Kinds, clear : BOOLEAN]
    BY <1>1, ReviewAssumption
  <1>3. answers[i].view \in Views /\ answers[i].clear \in BOOLEAN
    BY <1>2 DEF Views
  <1> DEFINE item == Answer(answers[i], packet, tasks[i], shown)
  <1>4. /\ item.notes.view = answers[i].view
        /\ item.notes.packet = packet
        /\ item.notes.task = tasks[i]
        /\ item.outcome = Label(answers[i].view, shown)
        /\ item.sufficientlyClear = answers[i].clear
    BY DEF Answer
  <1> HIDE DEF item
  <1>5. OnItsText(item.notes, named, task, killed)
    BY <1>4 DEF OnItsText
  <1>6. Faithful(item, named, task, shown, killed)
    BY <1>3, <1>4, <1>5 DEF Faithful
  <1> QED
    BY <1>6 DEF item

LEMMA ReturnedStep ==
  ASSUME UsedInv, PacketsInv, ReturnedInv, [Next]_vars
  PROVE  ReturnedInv'
  <1>0. Killed \in BOOLEAN /\ Killed' \in BOOLEAN /\ (Killed => Killed')
    BY KilledForGood DEF Killed
  <1>f. \A s : FaithfulSubmission(s, Killed) => FaithfulSubmission(s, Killed')
    BY <1>0, KillingForgives
  <1>1. ASSUME NEW k \in {1, 2}, Review(k) PROVE ReturnedInv'
    <2> DEFINE packet == directory.packets[k]
               tasks == packet.taskSet.tasks
               template == templates[k]
               named == template.packetFingerprint
    <2>0. packet # Unreadable /\ template # Unreadable
      BY <1>1 DEF Review
    <2>1. PICK answers \in AnswersTo(tasks, template.tasks) :
            returned' = [returned EXCEPT ![named.reviewerId] =
              [packetFingerprint |-> named,
               reviews |-> [i \in template.tasks |->
                 Answer(answers[i], packet, tasks[i], Presentation(packet.ordinal))]]]
      BY <1>1 DEF Review
    <2> DEFINE item(i) == Answer(answers[i], packet, tasks[i], Presentation(packet.ordinal))
               new == [packetFingerprint |-> named, reviews |-> [i \in template.tasks |-> item(i)]]
    <2>2. /\ packet.ordinal = k /\ named.ordinal = k
          /\ template = Template(named)
          /\ packet = named \/ Killed
      BY <2>0 DEF PacketsInv
    <2>3. template.tasks = DOMAIN named.taskSet.tasks
      <3>1. Template(named).tasks = DOMAIN named.taskSet.tasks
        BY DEF Template
      <3> HIDE DEF template, named
      <3> QED
        BY <2>2, <3>1
    <2>4. FaithfulSubmission(new, Killed)
      <3>1. new.packetFingerprint = named /\ \A i \in template.tasks : new.reviews[i] = item(i)
        OBVIOUS
      <3>2. ASSUME NEW i \in template.tasks
            PROVE  Faithful(item(i), named, named.taskSet.tasks[i], Presentation(named.ordinal), Killed)
        <4>1. tasks[i] = named.taskSet.tasks[i] \/ (Killed /\ packet # named)
          BY <2>2
        <4> HIDE DEF packet, template, named
        <4>2. Faithful(item(i), named, named.taskSet.tasks[i], Presentation(packet.ordinal), Killed)
          <5> HIDE DEF tasks
          <5> QED
            BY <1>0, <4>1, AnswersAreFaithful
        <4> QED
          BY <2>2, <4>2
      <3> HIDE DEF new, item, packet, template, named
      <3> QED
        BY <2>3, <3>1, <3>2 DEF FaithfulSubmission
    <2>5. returned' = [returned EXCEPT ![named.reviewerId] = new]
      BY <2>1
    <2> HIDE DEF new, packet, template, named
    <2>6. \A p \in People : returned'[p] \in {returned[p], new}
      BY <2>5 DEF ReturnedInv
    <2>7. returned' = [p \in People |-> returned'[p]]
      BY <2>5 DEF ReturnedInv
    <2>8. \A p \in People : returned'[p] # Unreadable => FaithfulSubmission(returned'[p], Killed)
      BY <2>4, <2>6 DEF ReturnedInv
    <2>9. \A p \in People : returned'[p] # Unreadable => FaithfulSubmission(returned'[p], Killed')
      BY <1>f, <2>8
    <2> QED
      BY <2>7, <2>9 DEF ReturnedInv
  <1>2. CASE UNCHANGED returned
    <2>1. \A p \in People : returned[p] # Unreadable => FaithfulSubmission(returned[p], Killed')
      BY <1>f DEF ReturnedInv
    <2> QED
      BY <1>2, <2>1 DEF ReturnedInv
  <1>3. (\E k \in {1, 2} : Review(k)) \/ UNCHANGED returned
    BY DEF Next, vars, EditSuite, Export, Import, AdjudicationExport, Adjudicate,
           AdjudicationImport, ConsensusCandidate, AdjudicatedCandidate, WriteCandidate
  <1> QED
    BY <1>1, <1>2, <1>3

LEMMA EvidenceStep ==
  ASSUME UsedInv, ReturnedInv, EvidenceInv, [Next]_vars
  PROVE  EvidenceInv'
  <1>0. Killed \in BOOLEAN /\ Killed' \in BOOLEAN /\ (Killed => Killed')
    BY KilledForGood DEF Killed
  <1>f. \A e : UnderstoodEvidence(e, Killed) => UnderstoodEvidence(e, Killed')
    BY <1>0, KillingForgives
  <1>1. ASSUME NEW one \in People, NEW other \in People, Import(one, other)
        PROVE  EvidenceInv'
    <2> DEFINE submissions == [k \in {1, 2} |-> returned[directory.packets[k].reviewerId]]
               new == Merged(directory.packets, submissions)
    <2>1. /\ SourceLoads
          /\ Unreadable \notin {returned[one], returned[other]}
          /\ {one, other} = {directory.packets[k].reviewerId : k \in {1, 2}}
          /\ \A k \in {1, 2} : Parses(returned[directory.packets[k].reviewerId], directory.packets[k])
          /\ evidence' \in {evidence, new, Unreadable}
      BY <1>1 DEF Import, Written
    <2>2. ASSUME NEW k \in {1, 2}
          PROVE  FaithfulSubmission(submissions[k], Killed) /\ Parses(submissions[k], directory.packets[k])
      <3>1. directory.packets[k].reviewerId \in {one, other}
        BY <2>1
      <3>2. submissions[k] = returned[directory.packets[k].reviewerId]
        OBVIOUS
      <3> QED
        BY <2>1, <3>1, <3>2 DEF ReturnedInv
    <2>3. UnderstoodEvidence(new, Killed)
      BY <1>0, <2>1, <2>2, MergedIsUnderstood
    <2> HIDE DEF new
    <2> QED
      BY <1>f, <2>1, <2>3 DEF EvidenceInv
  <1>2. CASE UNCHANGED evidence
    BY <1>f, <1>2 DEF EvidenceInv
  <1>3. (\E one, other \in People : Import(one, other)) \/ UNCHANGED evidence
    BY DEF Next, vars, EditSuite, Export, Review, AdjudicationExport, Adjudicate,
           AdjudicationImport, ConsensusCandidate, AdjudicatedCandidate, WriteCandidate
  <1> QED
    BY <1>1, <1>2, <1>3

LEMMA RulingStep ==
  ASSUME UsedInv, AdjudicationInv, RulingInv, [Next]_vars
  PROVE  RulingInv'
  <1>0. Killed \in BOOLEAN /\ Killed' \in BOOLEAN /\ (Killed => Killed')
    BY KilledForGood DEF Killed
  <1>f. \A r : FaithfulRuling(r, Killed) => FaithfulRuling(r, Killed')
    BY <1>0, KillingForgives
  <1>1. ASSUME Adjudicate PROVE RulingInv'
    <2> DEFINE packet == adjudication.packet
               tasks == TasksOf(packet.sourceEvidence)
               template == adjudication.template
               named == template.packetFingerprint
    <2>0. packet # Unreadable /\ template # Unreadable
      BY <1>1 DEF Adjudicate
    <2>1. PICK answers \in AnswersTo(tasks, template.tasks) :
            ruling' = [packetFingerprint |-> named,
              adjudications |-> [i \in template.tasks |->
                Answer(answers[i], packet, tasks[i], Presentation(1))]]
      BY <1>1 DEF Adjudicate
    <2> DEFINE item(i) == Answer(answers[i], packet, tasks[i], Presentation(1))
               new == [packetFingerprint |-> named, adjudications |-> [i \in template.tasks |-> item(i)]]
    <2>2. template = RulingTemplate(named) /\ (packet = named \/ Killed)
      BY <2>0 DEF AdjudicationInv
    <2>3. template.tasks = Queue(named.sourceEvidence)
      <3>1. RulingTemplate(named).tasks = Queue(named.sourceEvidence)
        BY DEF RulingTemplate
      <3> HIDE DEF template, named
      <3> QED
        BY <2>2, <3>1
    <2>4. FaithfulRuling(new, Killed)
      <3>1. new.packetFingerprint = named /\ \A i \in template.tasks : new.adjudications[i] = item(i)
        OBVIOUS
      <3>2. ASSUME NEW i \in template.tasks
            PROVE  Faithful(item(i), named, TasksOf(named.sourceEvidence)[i], Presentation(1), Killed)
        <4>1. tasks[i] = TasksOf(named.sourceEvidence)[i] \/ (Killed /\ packet # named)
          BY <2>2
        <4> HIDE DEF packet, template, named, tasks
        <4> QED
          BY <1>0, <4>1, AnswersAreFaithful
      <3> HIDE DEF new, item, packet, template, named
      <3> QED
        BY <2>3, <3>1, <3>2 DEF FaithfulRuling
    <2> HIDE DEF new
    <2>5. ruling' = new
      BY <2>1 DEF new
    <2> QED
      BY <1>f, <2>4, <2>5 DEF RulingInv
  <1>2. CASE UNCHANGED ruling
    BY <1>f, <1>2 DEF RulingInv
  <1>3. Adjudicate \/ UNCHANGED ruling
    BY DEF Next, vars, EditSuite, Export, Review, Import, AdjudicationExport,
           AdjudicationImport, ConsensusCandidate, AdjudicatedCandidate, WriteCandidate
  <1> QED
    BY <1>1, <1>2, <1>3

LEMMA CandidateStep ==
  ASSUME UsedInv, EvidenceInv, RulingInv, ReadyIsWhatWasMeant, [Next]_vars
  PROVE  ReadyIsWhatWasMeant'
  <1>0. Killed \in BOOLEAN /\ Killed' \in BOOLEAN /\ (Killed => Killed')
    BY KilledForGood DEF Killed
  <1>f. \A c : Meant(c, Killed) => Meant(c, Killed')
    BY <1>0, KillingForgives
  <1>m. ReadyIsWhatWasMeant' <=> (candidate' # Unreadable => Meant(candidate', Killed'))
    BY DEF ReadyIsWhatWasMeant, Meant, TaskIsMeant
  <1>n. candidate # Unreadable => Meant(candidate, Killed)
    BY DEF ReadyIsWhatWasMeant, Meant, TaskIsMeant
  <1>1. CASE ConsensusCandidate
    <2>1. /\ Usable(evidence) /\ Queue(evidence) = {}
          /\ candidate' \in {candidate, CandidateOf(ConsensusResolution(evidence)), Unreadable}
      BY <1>1 DEF ConsensusCandidate, WriteCandidate, Written
    <2>2. Meant(CandidateOf(ConsensusResolution(evidence)), Killed)
      BY <1>0, <2>1, ConsensusIsMeant, UsableEvidence DEF EvidenceInv
    <2> QED
      BY <1>f, <1>m, <1>n, <2>1, <2>2
  <1>2. CASE AdjudicatedCandidate
    <2>1. /\ Replays(evidence)
          /\ candidate' \in {candidate, CandidateOf(AdjudicatedResolution(evidence, ruling)), Unreadable}
      BY <1>2 DEF AdjudicatedCandidate, WriteCandidate, Written
    <2>2. Usable(evidence) /\ ruling # Unreadable
      BY <2>1 DEF Replays, MayAdjudicate
    <2>3. Meant(CandidateOf(AdjudicatedResolution(evidence, ruling)), Killed)
      BY <1>0, <2>1, <2>2, AdjudicatedIsMeant, UsableEvidence DEF EvidenceInv, RulingInv
    <2> QED
      BY <1>f, <1>m, <1>n, <2>1, <2>3
  <1>3. CASE UNCHANGED candidate
    BY <1>3, <1>f, <1>m, <1>n
  <1>4. ConsensusCandidate \/ AdjudicatedCandidate \/ UNCHANGED candidate
    BY DEF Next, vars, EditSuite, Export, Review, Import, AdjudicationExport, Adjudicate,
           AdjudicationImport
  <1> QED
    BY <1>1, <1>2, <1>3, <1>4

(* The invariant holds in every reachable state.                            *)
THEOREM SpecIInv == Spec => []IInv
  <1>1. Init => IInv
    BY DEF Init, IInv, UsedInv, PacketsInv, AdjudicationInv, ReturnedInv, EvidenceInv, RulingInv,
           ReadyIsWhatWasMeant, NoFiles
  <1>2. IInv /\ [Next]_vars => IInv'
    BY KilledForGood, PacketsStep, AdjudicationStep, ReturnedStep, EvidenceStep, RulingStep,
       CandidateStep DEF IInv
  <1> QED
    BY <1>1, <1>2, PTL DEF Spec

-----------------------------------------------------------------------------
(* The properties.                                                          *)

(* Evidence calls agreed what both reviewers meant alike and found clear,   *)
(* and each of them answered on the text of the packet that it names, unless *)
(* a killed command had left another packet beside the template.            *)
THEOREM AgreementsAreMeant == Spec => []AgreementIsMeant
  <1>1. IInv => AgreementIsMeant
    <2> SUFFICES ASSUME IInv, evidence # Unreadable, NEW i \in DOMAIN evidence.reviews
                 PROVE  LET review == evidence.reviews[i]
                            results == review.results
                            clear == results[1].sufficientlyClear /\ results[2].sufficientlyClear
                            same == results[1].notes.view = results[2].notes.view
                        IN  /\ \A k \in {1, 2} :
                                 OnItsText(results[k].notes, evidence.sourcePackets[k],
                                           TasksOf(evidence)[i], Killed)
                            /\ (review.agreement = "agreement") <=> (clear /\ same)
                            /\ (review.agreement = "packet_ambiguity") <=> ~clear
      BY DEF AgreementIsMeant
    <2> DEFINE review == evidence.reviews[i]
               results == review.results
    <2>1. /\ \A k \in {1, 2} :
               Understood(results[k], evidence.sourcePackets[k], TasksOf(evidence)[i], Killed)
          /\ review.agreement = Agreement(results)
      BY DEF IInv, EvidenceInv, UnderstoodEvidence
    <2> HIDE DEF review, results
    <2>2. \A k \in {1, 2} :
            OnItsText(results[k].notes, evidence.sourcePackets[k], TasksOf(evidence)[i], Killed)
      BY <2>1 DEF Understood
    <2>3. results[1].normalizedOutcome = results[1].notes.view
      BY <2>1 DEF Understood
    <2>4. results[2].normalizedOutcome = results[2].notes.view
      BY <2>1 DEF Understood
    <2>5. /\ (review.agreement = "agreement") <=>
               /\ results[1].sufficientlyClear /\ results[2].sufficientlyClear
               /\ results[1].normalizedOutcome = results[2].normalizedOutcome
          /\ (review.agreement = "packet_ambiguity") <=>
               ~(results[1].sufficientlyClear /\ results[2].sufficientlyClear)
      BY <2>1 DEF Agreement
    <2> QED
      BY <2>2, <2>3, <2>4, <2>5 DEF review, results
  <1> QED
    BY <1>1, SpecIInv, PTL

(* What is ready in a candidate is what people meant, with the same          *)
(* exception for the text they meant it of.                                  *)
THEOREM ReadyIsMeant == Spec => []ReadyIsWhatWasMeant
  <1>1. IInv => ReadyIsWhatWasMeant
    BY DEF IInv
  <1> QED
    BY <1>1, SpecIInv, PTL

(* The two reviewers of usable evidence are two.                            *)
LEMMA TwoReviewers ==
  ASSUME Usable(evidence)
  PROVE  Cardinality(ReviewersOf(evidence)) = 2
  <1> DEFINE one == evidence.sourcePackets[1].reviewerId
             other == evidence.sourcePackets[2].reviewerId
  <1>1. one # other
    BY UsableEvidence
  <1> HIDE DEF one, other
  <1>2. IsFiniteSet({one}) /\ Cardinality({one}) = 1
    BY FS_Singleton
  <1>3. Cardinality({one} \cup {other}) = 2
    BY <1>1, <1>2, FS_AddElement
  <1>4. {one, other} = {one} \cup {other}
    OBVIOUS
  <1> QED
    BY <1>3, <1>4 DEF ReviewersOf, one, other

(* Complete evidence without a queue makes a resolution that parses.        *)
LEMMA ConsensusParses ==
  ASSUME NEW killed \in BOOLEAN,
         Usable(evidence), UnderstoodEvidence(evidence, killed), Queue(evidence) = {}
  PROVE  ResolutionParses(ConsensusResolution(evidence))
  <1> DEFINE r == ConsensusResolution(evidence)
             reviews == evidence.reviews
  <1>1. /\ r.evidence = evidence /\ r.adjudicatorIds = {}
        /\ DOMAIN r.tasks = DOMAIN reviews
        /\ \A i \in DOMAIN reviews : r.tasks[i] = Consensus(reviews[i])
    BY DEF ConsensusResolution
  <1> HIDE DEF r
  <1>2. ASSUME NEW i \in DOMAIN reviews
        PROVE  /\ r.tasks[i].status = "reviewer_consensus"
               /\ r.tasks[i].resolution = reviews[i].results[1].normalizedOutcome
               /\ reviews[i].agreement = "agreement"
    <2>1. reviews[i].agreement = "agreement"
      BY DEF Queue
    <2>2. r.tasks[i] = [status |-> "reviewer_consensus",
                        resolution |-> reviews[i].results[1].normalizedOutcome]
      BY <1>1 DEF Consensus
    <2> QED
      BY <2>1, <2>2
  <1>3. ASSUME NEW i \in DOMAIN reviews
        PROVE  /\ \A k \in {1, 2} : OutcomeFits(reviews[i].results[k])
               /\ reviews[i].agreement = Agreement(reviews[i].results)
    BY DEF UnderstoodEvidence, Understood
  <1>4. /\ DOMAIN reviews # {}
        /\ \A i, j \in DOMAIN reviews :
             TasksOf(evidence)[i].fixture = TasksOf(evidence)[j].fixture => i = j
    BY UsableEvidence
  <1>5. ResolutionParses(r)
    BY <1>1, <1>2, <1>3, <1>4, TwoReviewers DEF ResolutionParses
  <1> QED
    BY <1>5 DEF r

(* So does complete evidence with a ruling on its queue.                    *)
LEMMA AdjudicatedParses ==
  ASSUME NEW killed \in BOOLEAN,
         Replays(evidence), UnderstoodEvidence(evidence, killed), FaithfulRuling(ruling, killed)
  PROVE  ResolutionParses(AdjudicatedResolution(evidence, ruling))
  <1> DEFINE r == AdjudicatedResolution(evidence, ruling)
             reviews == evidence.reviews
             person == adjudication.manifest.adjudicatorId
             Ruled(i) == AdjudicatorResult(ruling.adjudications[i])
  <1>0. /\ Usable(evidence) /\ person \notin ReviewersOf(evidence) /\ Queue(evidence) # {}
        /\ adjudication.packet = AdjudicationOf(evidence, person)
        /\ ruling.packetFingerprint = adjudication.packet
    BY DEF Replays, MayAdjudicate, RulingParses
  <1>1. /\ r.evidence = evidence
        /\ DOMAIN r.tasks = DOMAIN reviews
        /\ \A i \in DOMAIN reviews :
             r.tasks[i] = IF i \in Queue(evidence) THEN Adjudicated(Ruled(i))
                          ELSE Consensus(reviews[i])
    BY DEF AdjudicatedResolution
  <1>2. r.adjudicatorIds = {person} /\ ruling.packetFingerprint.sourceEvidence = evidence
    BY <1>0 DEF AdjudicatedResolution, AdjudicationOf
  <1> HIDE DEF r, person
  <1>3. ASSUME NEW i \in DOMAIN reviews, i \notin Queue(evidence)
        PROVE  /\ r.tasks[i].status = "reviewer_consensus"
               /\ r.tasks[i].resolution = reviews[i].results[1].normalizedOutcome
               /\ reviews[i].agreement = "agreement"
    <2>1. reviews[i].agreement = "agreement"
      BY <1>3 DEF Queue
    <2>2. r.tasks[i] = [status |-> "reviewer_consensus",
                        resolution |-> reviews[i].results[1].normalizedOutcome]
      BY <1>1, <1>3 DEF Consensus
    <2> QED
      BY <2>1, <2>2
  <1>4. ASSUME NEW i \in DOMAIN reviews, i \in Queue(evidence)
        PROVE  OutcomeFits(Ruled(i))
    <2> DEFINE item == ruling.adjudications[i]
    <2>1. Faithful(item, ruling.packetFingerprint, TasksOf(evidence)[i], Presentation(1), killed)
      BY <1>2, <1>4 DEF FaithfulRuling
    <2>2. /\ NormalizeOutcome(item.outcome, Assignment(1)) = item.notes.view
          /\ IF item.outcome \in {"A_BETTER", "B_BETTER"}
             THEN item.notes.view \in {"left", "right"}
             ELSE item.notes.view = item.outcome
      BY <2>1, LabelsAreReadAsMeant DEF Faithful
    <2>3. Ruled(i).outcome = item.outcome /\ Ruled(i).normalizedOutcome = item.notes.view
      BY <2>2 DEF AdjudicatorResult
    <2> QED
      BY <2>2, <2>3 DEF OutcomeFits
  <1>5. ASSUME NEW i \in DOMAIN reviews, i \in Queue(evidence)
        PROVE  /\ reviews[i].agreement # "agreement"
               /\ r.tasks[i].status # "reviewer_consensus"
               /\ \/ /\ r.tasks[i].status = "adjudicated"
                     /\ OutcomeFits(r.tasks[i].ruling) /\ r.tasks[i].ruling.sufficientlyClear
                     /\ r.tasks[i].resolution = r.tasks[i].ruling.normalizedOutcome
                  \/ /\ r.tasks[i].status = "unresolved"
                     /\ OutcomeFits(r.tasks[i].ruling) /\ ~r.tasks[i].ruling.sufficientlyClear
    <2>1. OutcomeFits(Ruled(i)) /\ r.tasks[i] = Adjudicated(Ruled(i))
      BY <1>1, <1>4, <1>5
    <2>2. reviews[i].agreement # "agreement"
      BY <1>5 DEF Queue
    <2> HIDE DEF Ruled
    <2> QED
      BY <2>1, <2>2 DEF Adjudicated
  <1>6. ASSUME NEW i \in DOMAIN reviews
        PROVE  /\ \A k \in {1, 2} : OutcomeFits(reviews[i].results[k])
               /\ reviews[i].agreement = Agreement(reviews[i].results)
    BY <1>0, UsableEvidence DEF UnderstoodEvidence, Understood
  <1>7. /\ DOMAIN reviews # {}
        /\ \A i, j \in DOMAIN reviews :
             TasksOf(evidence)[i].fixture = TasksOf(evidence)[j].fixture => i = j
    BY <1>0, UsableEvidence
  <1>8. /\ r.adjudicatorIds \cap ReviewersOf(evidence) = {} /\ r.adjudicatorIds # {}
        /\ \E i \in DOMAIN reviews : r.tasks[i].status # "reviewer_consensus"
    BY <1>0, <1>2, <1>5 DEF Queue
  <1>9. Cardinality(ReviewersOf(evidence)) = 2
    BY <1>0, TwoReviewers
  <1> HIDE DEF Ruled
  <1>10. ResolutionParses(r)
    BY <1>1, <1>3, <1>5, <1>6, <1>7, <1>8, <1>9 DEF ResolutionParses
  <1> QED
    BY <1>10 DEF r

(* No complete review is refused by the parser in front of the candidate.   *)
THEOREM CompleteIsAccepted == Spec => []NothingCompleteIsRefused
  <1>1. IInv => NothingCompleteIsRefused
    <2>0. Killed \in BOOLEAN
      BY DEF Killed
    <2>1. IInv /\ Replays(evidence) => ResolutionParses(AdjudicatedResolution(evidence, ruling))
      <3>1. Replays(evidence) => evidence # Unreadable /\ ruling # Unreadable
        BY DEF Replays, MayAdjudicate, Usable
      <3> QED
        BY <3>1, <2>0, AdjudicatedParses DEF IInv, EvidenceInv, RulingInv
    <2>2. IInv /\ Usable(evidence) /\ Queue(evidence) = {} =>
            ResolutionParses(ConsensusResolution(evidence))
      BY <2>0, UsableEvidence, ConsensusParses DEF IInv, EvidenceInv
    <2> QED
      BY <2>1, <2>2 DEF NothingCompleteIsRefused
  <1> QED
    BY <1>1, SpecIInv, PTL

(* A candidate is only written for the fixtures as they are.                *)
THEOREM CandidatesAreOfToday == Spec => CandidatesAreCurrent
  <1> DEFINE Current ==
        candidate' \notin {candidate, Unreadable} =>
          LET tasks == TasksOf(candidate'.source.evidence) IN
            /\ \A i \in DOMAIN tasks : /\ tasks[i].fixture \in DOMAIN suite.text
                                        /\ tasks[i].text = suite.text[tasks[i].fixture]
            /\ {tasks[i].fixture : i \in DOMAIN tasks} =
                 Selected({DomainOf[tasks[i].fixture] : i \in DOMAIN tasks})
  <1>1. ASSUME SuitesInv, Usable(evidence), NEW r, r.evidence = evidence,
               candidate' \in {candidate, CandidateOf(r), Unreadable}
        PROVE  Current
    <2> SUFFICES ASSUME candidate' \notin {candidate, Unreadable} PROVE Current
      OBVIOUS
    <2>1. candidate'.source.evidence = evidence
      BY <1>1, CandidateFields
    <2>2. SourceLoads /\ evidence.sourcePackets = directory.packets
      BY <1>1 DEF Usable, ValidEvidence
    <2>3. PICK domains, one, other :
            /\ Selected(domains) # {}
            /\ directory = ExportOf(TaskSet(domains), <<one, other>>)
      BY <2>2, SourceIsAnExport
    <2> DEFINE tasks == TaskSet(domains).tasks
               fixtures == Selected(domains)
    <2>4. TasksOf(evidence) = tasks
      BY <2>2, <2>3, ExportFields DEF TasksOf
    <2>5. \A i \in DOMAIN tasks :
            /\ tasks[i].fixture \in fixtures
            /\ tasks[i].text = suite.text[tasks[i].fixture]
            /\ Number(tasks[i].fixture, fixtures) = i
      BY <2>3, TasksAreTheSelection
    <2>6. DOMAIN tasks = {Number(f, fixtures) : f \in fixtures}
      BY DEF TaskSet
    <2>7. fixtures \subseteq Fixtures /\ fixtures \subseteq DOMAIN suite.text
      BY <1>1 DEF SuitesInv, Selected
    <2>8. \A f \in fixtures : tasks[Number(f, fixtures)].fixture = f
      <3> SUFFICES ASSUME NEW f \in fixtures PROVE tasks[Number(f, fixtures)].fixture = f
        OBVIOUS
      <3> DEFINE g == tasks[Number(f, fixtures)].fixture
      <3>1. g \in fixtures /\ Number(g, fixtures) = Number(f, fixtures)
        BY <2>5, <2>6
      <3> HIDE DEF g
      <3> QED
        BY <2>7, <3>1, NumbersAreDistinct DEF g
    <2> HIDE DEF tasks
    <2>9. {tasks[i].fixture : i \in DOMAIN tasks} = fixtures
      BY <2>5, <2>6, <2>8
    <2>10. {DomainOf[tasks[i].fixture] : i \in DOMAIN tasks} = {DomainOf[f] : f \in fixtures}
      BY <2>5, <2>6, <2>8
    <2>11. Selected({DomainOf[f] : f \in fixtures}) = fixtures
      BY DEF Selected
    <2>12. TasksOf(candidate'.source.evidence) = tasks
      BY <2>1, <2>4 DEF TasksOf
    <2>13. \A i \in DOMAIN tasks : /\ tasks[i].fixture \in DOMAIN suite.text
                                   /\ tasks[i].text = suite.text[tasks[i].fixture]
      BY <2>5, <2>7
    <2>14. {tasks[i].fixture : i \in DOMAIN tasks} =
             Selected({DomainOf[tasks[i].fixture] : i \in DOMAIN tasks})
      <3> HIDE DEF fixtures
      <3> QED
        BY <2>9, <2>10, <2>11
    <2> QED
      BY <2>12, <2>13, <2>14
  <1>2. SuitesInv /\ [Next]_vars => Current
    <2> SUFFICES ASSUME SuitesInv, [Next]_vars PROVE Current
      OBVIOUS
    <2>1. CASE ConsensusCandidate
      <3>1. /\ Usable(evidence)
            /\ candidate' \in {candidate, CandidateOf(ConsensusResolution(evidence)), Unreadable}
        BY <2>1 DEF ConsensusCandidate, WriteCandidate, Written
      <3>2. ConsensusResolution(evidence).evidence = evidence
        BY DEF ConsensusResolution
      <3> HIDE DEF Current
      <3> QED
        BY <1>1, <3>1, <3>2
    <2>2. CASE AdjudicatedCandidate
      <3>1. /\ Replays(evidence)
            /\ candidate' \in {candidate, CandidateOf(AdjudicatedResolution(evidence, ruling)), Unreadable}
        BY <2>2 DEF AdjudicatedCandidate, WriteCandidate, Written
      <3>2. AdjudicatedResolution(evidence, ruling).evidence = evidence
        BY DEF AdjudicatedResolution
      <3>3. Usable(evidence)
        BY <3>1 DEF Replays, MayAdjudicate
      <3> HIDE DEF Current
      <3> QED
        BY <1>1, <3>1, <3>2, <3>3
    <2>3. CASE UNCHANGED candidate
      BY <2>3
    <2>4. ConsensusCandidate \/ AdjudicatedCandidate \/ UNCHANGED candidate
      BY DEF Next, vars, EditSuite, Export, Review, Import, AdjudicationExport, Adjudicate,
             AdjudicationImport
    <2> QED
      BY <2>1, <2>2, <2>3, <2>4
  <1>3. Init => SuitesInv
    BY ReviewAssumption DEF Init, SuitesInv
  <1>4. SuitesInv /\ [Next]_vars => SuitesInv'
    <2> SUFFICES ASSUME SuitesInv, [Next]_vars PROVE SuitesInv'
      OBVIOUS
    <2>1. CASE EditSuite
      BY <2>1, ReviewAssumption DEF EditSuite, SuitesInv
    <2>2. CASE UNCHANGED suite
      BY <2>2 DEF SuitesInv
    <2> QED
      BY <2>1, <2>2 DEF Next, vars, Export, Review, Import, AdjudicationExport, Adjudicate,
         AdjudicationImport, ConsensusCandidate, AdjudicatedCandidate, WriteCandidate
  <1>5. CandidatesAreCurrent <=> [][Current]_vars
    BY DEF CandidatesAreCurrent
  <1> HIDE DEF Current
  <1> QED
    BY <1>2, <1>3, <1>4, <1>5, PTL DEF Spec
=============================================================================
