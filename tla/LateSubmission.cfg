\* One request at a time, one attempt: the deadline passes, then it is submitted.
SPECIFICATION Spec
CONSTANTS
  MaxAttempts = 1
  Requests = {r1}
  Questions = {q1, q2, q3, q4}
  Responses = {a, b}
  Papers <- MCPapers
  Inputs <- MCInputs
  MaxNow = 2
  None = None
  Budgets = {1}
  Durations = {1}
  PassScores = {60}
  MaxEdits = 0
  EXAM_DOMAINS <- MCDomains
  Modules <- MCModules
  Levels = {"absoluteBeginner"}
  Thresholds = {60}
  EXAM_DURATION = 2
  MaxExams = 1
  MaxBankEdits = 0
  r1 = r1
  q1 = q1
  q2 = q2
  q3 = q3
  q4 = q4
  a = a
  b = b
PROPERTIES
  LateIsRejected
CHECK_DEADLOCK FALSE
