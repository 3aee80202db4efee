SPECIFICATION Spec
CONSTANTS
  Cases = {1, 2}
  RunsPerCase = 2
  Tutors = {m1}
  Texts <- TwoAnswers
  NoFile = NoFile
  Torn = Torn
  Idle = Idle
  Judges = {j1}
  NoJudge = NoJudge
  JudgedCases = {1}
  Scorings = {"s1"}
  Unweighted = {}
  Limits = {1}
  NoLimit = NoLimit
  Paths = {e1}
  Nothing = Nothing
INVARIANTS
  AsIfUninterrupted
  ResumesKeepWhatIsDone
  EveryResultCanBeResumed
  FullMeansEverything
