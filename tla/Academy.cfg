\* Two requests in flight on one service at a time.
SPECIFICATION Spec
CONSTANTS
  Requests = {r1, r2}
  None = None
  Tabs = {t1, t2}
  Browsers = {browser}
  BrowserOf <- MCBrowserOf
  t1 = t1
  t2 = t2
  browser = browser
  u1 = u1
  u2 = u2
  MaxTokens = 3
  MaxRevocations = 1
  OTP_TTL = 1
  OTP_MAX_ATTEMPTS = 1
  OTP_PHONE_WINDOW = 2
  OTP_MAX_PER_PHONE = 2
  RESET_TOKEN_TTL = 2
  RESET_EMAIL_WINDOW = 2
  RESET_EMAIL_MAX = 3
  MaxSent = 4
  MaxNow = 3
  MaxSecrets = 3
  MaxBatches = 3
  Users = {u1, u2, u3}
  FirstSuperAdmins = {u1, u2}
  CustomRoles = {assistant}
  Learners = {u1, u2}
  Scores = {50, 75, 100}
  UnlockScore = 75
  MaxVideos = 3
  Answers = {a1, a2}
INVARIANTS
  RotationOnce
  RevokedForGood
  CookieIsLive
  LosesOnlyToOthers
  NewestOnly
  AttemptsBounded
  CodesBounded
  UsedOnce
  CapNeverReached
  EnabledIsConfirmed
  RecoveryOnce
  RolesExist
  TopIsRewarded
  LearnerIsHeard
  
  SavedIsStored
PROPERTIES
  LastSuperAdmin
SYMMETRY Symmetry
CHECK_DEADLOCK FALSE
