\* Two requests in flight, a deadline, an edit of the questions and three attempts.
SPECIFICATION Spec
CONSTANTS
  MaxAttempts = 3
  Requests = {r1, r2}
  Questions = {q1, q2, q3, q4}
  Responses = {a, b}
  Papers <- MCPapers
  Inputs <- MCInputs
  MaxNow = 2
  None = None
  Budgets = {1}
  Durations = {1}
  PassScores = {60}
  MaxEdits = 1
  EXAM_DOMAINS <- MCDomains
  Modules <- MCModules
  Levels = {"absoluteBeginner"}
  Thresholds = {60}
  EXAM_DURATION = 2
  MaxExams = 2
  MaxBankEdits = 1
  r1 = r1
  r2 = r2
  q1 = q1
  q2 = q2
  q3 = q3
  q4 = q4
  a = a
  b = b
INVARIANTS
  GradedWithinBudget
  Inv
  FailedIsCovered
  RoadmapKeepsModules
  FailureHasRefresher
PROPERTIES
  ImplementsContract
  LeavesGradedOnlyByStaleRead
  ExpiredIsFinal
  
SYMMETRY Symmetry
CHECK_DEADLOCK FALSE
