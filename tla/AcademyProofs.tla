--------------------------- MODULE AcademyProofs ----------------------------
(***************************************************************************)
(* The properties of the services of Academy, for any number of requests,  *)
(* tokens, accounts and uploads. A behaviour follows one service: its      *)
(* invariant holds there, and elsewhere its variables stay as they began.  *)
(***************************************************************************)
EXTENDS Academy, SessionsProofs, CodesProofs, FiniteSetTheorems, WellFoundedInduction

-----------------------------------------------------------------------------
(* What each service leaves to the others *)

LEMMA ServiceSteps ==
  ASSUME Next
  PROVE  /\ service' = service
         /\ IF service = "sessions" THEN SessionsNext ELSE UNCHANGED sessionVars
         /\ IF service = "codes" THEN CodesNext
            ELSE IF service = "links" THEN LinksNext ELSE UNCHANGED codeVars
         /\ IF service = "twoFactor" THEN TwoFactorNext ELSE UNCHANGED twoFactorVars
         /\ IF service = "staff" THEN StaffNext ELSE UNCHANGED staffVars
         /\ IF service = "challenges" THEN ChallengesNext ELSE UNCHANGED challengeVars
         /\ IF service = "tickets" THEN TicketsNext ELSE UNCHANGED ticketVars
         /\ IF service = "videos" THEN VideosNext ELSE UNCHANGED videoVars
         /\ IF service = "examPages" THEN ExamPagesNext ELSE UNCHANGED examPageVars
BY DEF Next, Sessions, Codes, SecondFactor, Staff, Bootcamp, Support, Media, Exam

-----------------------------------------------------------------------------
(* Support tickets: a reply that was let in has seen a ticket that was not *)
(* closed, and one that will not reopen it has seen one that was not       *)
(* resolved either.                                                        *)

TicketsInv ==
  /\ Slotted
  /\ ticket \in TicketStatus /\ missed \in BOOLEAN /\ waiting \in BOOLEAN
  /\ \A r \in Requests :
       /\ At(r, "createReply") => req[r] \in [pc : {"createReply"}, seen : TicketStatus \ {"CLOSED"}]
       /\ At(r, "createStaffReply") => req[r] \in [pc : {"createStaffReply"}, seen : TicketStatus]
  /\ LearnerIsHeard

LEMMA TicketsStart == InitSlots /\ TicketsInit => TicketsInv
BY AllIdle DEF TicketsInit, TicketsInv, TicketStatus, At, LearnerIsHeard

LEMMA TicketsStep == TicketsInv /\ TicketsNext => TicketsInv'
<1>. SUFFICES ASSUME TicketsInv, TicketsNext  PROVE TicketsInv'
  OBVIOUS
<1>. USE DEF TicketsInv
<1>1. ASSUME NEW r \in Requests, Reply(r) \/ ReplyToTicket(r)
      PROVE  TicketsInv'
  <2>. PICK pc : pc = IF Reply(r) THEN "createReply" ELSE "createStaffReply"
    OBVIOUS
  <2>. PICK q : q = [pc |-> pc, seen |-> ticket]
    OBVIOUS
  <2>1. /\ req' = [req EXCEPT ![r] = q] /\ At(r, "idle") /\ UNCHANGED <<ticket, waiting, missed>>
        /\ pc = "createReply" => ticket # "CLOSED"
    BY <1>1 DEF Reply, ReplyToTicket, ReadTicket, Become, ticketVars
  <2>2. /\ Slotted' /\ req'[r] = q /\ \A s \in Requests : s # r => req'[s] = req[s]
    BY <2>1, Written
  <2>3. /\ q.pc = pc /\ pc \in {"createReply", "createStaffReply"}
        /\ pc = "createReply" => q \in [pc : {"createReply"}, seen : TicketStatus \ {"CLOSED"}]
        /\ pc = "createStaffReply" => q \in [pc : {"createStaffReply"}, seen : TicketStatus]
    BY <2>1
  <2>4. \A s \in Requests : At(s, "reopen") => At(s, "reopen")'
    BY <2>1, <2>2 DEF At
  <2>5. LearnerIsHeard'
    BY <2>1, <2>4 DEF LearnerIsHeard
  <2>6. \A s \in Requests :
          /\ At(s, "createReply")' =>
               req'[s] \in [pc : {"createReply"}, seen : TicketStatus \ {"CLOSED"}]
          /\ At(s, "createStaffReply")' =>
               req'[s] \in [pc : {"createStaffReply"}, seen : TicketStatus]
    BY <2>2, <2>3 DEF At
  <2>. QED  BY <2>1, <2>2, <2>5, <2>6 DEF TicketStatus
<1>2. ASSUME NEW r \in Requests, CreateReply(r)
      PROVE  TicketsInv'
  <2>1. /\ req[r] \in [pc : {"createReply"}, seen : TicketStatus \ {"CLOSED"}]
        /\ waiting' = TRUE /\ missed' = (missed \/ ticket # req[r].seen) /\ UNCHANGED ticket
    BY <1>2 DEF CreateReply, NextOfReply, At
  <2>2. CASE req[r].seen = "RESOLVED"
    <3>. PICK q : q = [req[r] EXCEPT !.pc = "reopen"]
      OBVIOUS
    <3>1. req' = [req EXCEPT ![r] = q]
      BY <1>2, <2>2 DEF CreateReply, NextOfReply, Goto
    <3>2. q.pc = "reopen"
      BY <2>1
    <3>3. /\ Slotted' /\ req'[r] = q /\ \A s \in Requests : s # r => req'[s] = req[s]
      BY <3>1, Written
    <3>4. At(r, "reopen")' /\ LearnerIsHeard'
      BY <3>2, <3>3 DEF At, LearnerIsHeard
    <3>. QED  BY <2>1, <3>2, <3>3, <3>4 DEF At, TicketStatus
  <2>3. CASE req[r].seen # "RESOLVED"
    <3>1. Finish(r)
      BY <1>2, <2>3 DEF CreateReply, NextOfReply
    <3>2. /\ Slotted' /\ req'[r].pc = "idle" /\ \A s \in Requests : s # r => req'[s] = req[s]
      BY <3>1, Gone
    <3>3. ticket \in {"RESOLVED", "CLOSED"} => missed'
      BY <2>1, <2>3 DEF TicketStatus
    <3>4. LearnerIsHeard'
      BY <2>1, <3>3 DEF LearnerIsHeard
    <3>. QED  BY <2>1, <3>2, <3>4 DEF At, TicketStatus
  <2>. QED  BY <2>2, <2>3
<1>3. ASSUME NEW r \in Requests, Reopen(r) \/ Progress(r)
      PROVE  TicketsInv'
  <2>1. /\ ticket' \in {"OPEN", "IN_PROGRESS"} /\ UNCHANGED <<waiting, missed>> /\ Finish(r)
    BY <1>3 DEF Reopen, Progress
  <2>2. /\ Slotted' /\ req'[r].pc = "idle" /\ \A s \in Requests : s # r => req'[s] = req[s]
    BY <2>1, Gone
  <2>3. LearnerIsHeard'
    BY <2>1 DEF LearnerIsHeard
  <2>. QED  BY <2>1, <2>2, <2>3 DEF At, TicketStatus
<1>4. ASSUME NEW r \in Requests, CreateStaffReply(r)
      PROVE  TicketsInv'
  <2>1. waiting' = FALSE /\ missed' = FALSE /\ UNCHANGED ticket
    BY <1>4 DEF CreateStaffReply, Acted
  <2>2. /\ Slotted' /\ req'[r].pc \in {"idle", "progress"}
        /\ \A s \in Requests : s # r => req'[s] = req[s]
    <3>1. CASE Finish(r)
      BY <3>1, Gone
    <3>2. CASE Goto(r, "progress")
      <4>. PICK q : q = [req[r] EXCEPT !.pc = "progress"]
        OBVIOUS
      <4>1. req' = [req EXCEPT ![r] = q]
        BY <3>2 DEF Goto
      <4>2. q.pc = "progress"
        <5>1. req[r] \in [pc : {"createStaffReply"}, seen : TicketStatus]
          BY <1>4 DEF CreateStaffReply, At
        <5>. QED  BY <5>1
      <4>. QED  BY <4>1, <4>2, Written
    <3>. QED  BY <1>4, <3>1, <3>2 DEF CreateStaffReply
  <2>3. LearnerIsHeard'
    BY <2>1 DEF LearnerIsHeard
  <2>. QED  BY <2>1, <2>2, <2>3 DEF At
<1>5. ASSUME NEW r \in Requests, LoseRequest(r)
      PROVE  TicketsInv'
  <2>1. /\ Finish(r) /\ missed' = (missed \/ At(r, "reopen")) /\ UNCHANGED <<ticket, waiting>>
    BY <1>5 DEF LoseRequest, Die
  <2>2. /\ Slotted' /\ req'[r].pc = "idle" /\ \A s \in Requests : s # r => req'[s] = req[s]
    BY <2>1, Gone
  <2>3. LearnerIsHeard'
    <3>1. \A s \in Requests : At(s, "reopen") => At(s, "reopen")' \/ missed'
      BY <2>1, <2>2 DEF At
    <3>. QED  BY <2>1, <3>1 DEF LearnerIsHeard
  <2>. QED  BY <2>1, <2>2, <2>3 DEF At
<1>6. ASSUME UpdateTicket
      PROVE  TicketsInv'
  <2>1. ticket' \in TicketStatus /\ waiting' = FALSE /\ missed' = FALSE /\ UNCHANGED req
    BY <1>6 DEF UpdateTicket, Acted
  <2>2. LearnerIsHeard'
    BY <2>1 DEF LearnerIsHeard
  <2>. QED  BY <2>1, <2>2 DEF At, Slotted, TicketStatus
<1>. QED  BY <1>1, <1>2, <1>3, <1>4, <1>5, <1>6 DEF TicketsNext

TicketsService == IF service = "tickets" THEN TicketsInv ELSE TicketsInit

\* A learner who wrote last does not wait on a ticket that is resolved or
\* closed (TicketsService.reply), but for the named races.
THEOREM TicketsHeard == Spec => []LearnerIsHeard
<1>1. Init => TicketsService
  BY TicketsStart DEF Init, TicketsService
<1>2. TicketsService /\ [Next]_vars => TicketsService'
  <2>. SUFFICES ASSUME TicketsService, [Next]_vars  PROVE TicketsService'
    OBVIOUS
  <2>1. CASE Next
    BY <2>1, ServiceSteps, TicketsStep DEF TicketsService, TicketsInit, ticketVars
  <2>2. CASE UNCHANGED vars
    <3>1. UNCHANGED <<req, ticket, waiting, missed, service>>
      BY <2>2 DEF vars, ticketVars
    <3>. QED
      BY <3>1 DEF TicketsService, TicketsInv, TicketsInit, Slotted, LearnerIsHeard, At, TicketStatus
  <2>. QED  BY <2>1, <2>2
<1>3. TicketsService => LearnerIsHeard
  BY DEF TicketsService, TicketsInv, TicketsInit, LearnerIsHeard
<1>. QED  BY <1>1, <1>2, <1>3, PTL DEF Spec
-----------------------------------------------------------------------------
(* Lesson videos: while nothing is torn, one request at most is between the *)
(* files and the row, and the files are what it is about to write.          *)

WritesWhat(q) ==
  \/ q.pc = "writeUrl" /\ q = [pc |-> "writeUrl", video |-> q.video] /\ files = {q.video}
  \/ q.pc \in {"clearUrl", "deleteRow"} /\ files = {}

VideosInv ==
  /\ Slotted
  /\ torn \in BOOLEAN
  /\ lesson = [exists |-> lesson.exists, video |-> lesson.video] /\ lesson.exists \in BOOLEAN
  /\ ~torn =>
       /\ \A r, s \in Requests : req[r].pc \in RowSteps /\ req[s].pc \in RowSteps => r = s
       /\ \A r \in Requests : req[r].pc \in RowSteps => WritesWhat(req[r])
  /\ FilesMatchRow

LEMMA VideosStart == InitSlots /\ VideosInit => VideosInv
<1>. SUFFICES ASSUME InitSlots, VideosInit  PROVE VideosInv
  OBVIOUS
<1>1. Slotted /\ \A r \in Requests : req[r].pc \notin RowSteps
  BY AllIdle DEF RowSteps
<1>. QED  BY <1>1 DEF VideosInit, VideosInv, FilesMatchRow

LEMMA VideosStep == VideosInv /\ VideosNext => VideosInv'
<1>. SUFFICES ASSUME VideosInv, NEW r \in Requests,
                     \/ UploadLessonVideo(r) \/ SaveLessonVideo(r) \/ WriteUrl(r)
                     \/ DeleteLessonVideo(r) \/ ClearForUrl(r) \/ ClearUrl(r)
                     \/ DeleteLesson(r) \/ ClearForRow(r) \/ DeleteRow(r) \/ LoseUpload(r)
              PROVE  VideosInv'
  BY DEF VideosNext
<1>. USE DEF VideosInv
<1>1. ASSUME NEW pc, pc \notin RowSteps, ReadLesson(r, pc)
      PROVE  VideosInv'
  <2>. PICK q : q = [pc |-> pc]
    OBVIOUS
  <2>1. req' = [req EXCEPT ![r] = q] /\ q.pc = pc /\ At(r, "idle")
        /\ UNCHANGED <<lesson, files, torn>>
    BY <1>1 DEF ReadLesson, Become, videoVars
  <2>2. Slotted' /\ req'[r] = q /\ \A s \in Requests : s # r => req'[s] = req[s]
    BY <2>1, Written
  <2>3. \A s \in Requests : req'[s].pc \in RowSteps <=> req[s].pc \in RowSteps
    BY <1>1, <2>1, <2>2 DEF At, RowSteps
  <2>4. \A s \in Requests : req'[s].pc \in RowSteps => req'[s] = req[s]
    BY <1>1, <2>1, <2>2
  <2>5. Between' <=> Between
    BY <2>3 DEF Between
  <2>. QED  BY <2>1, <2>2, <2>3, <2>4, <2>5 DEF FilesMatchRow, WritesWhat, RowSteps
<1>2. ASSUME NEW q, NEW kept, Touch(r, q, kept), req[r].pc \in {"save", "clear", "clearAll"},
             \/ q.pc = "writeUrl" /\ q = [pc |-> "writeUrl", video |-> q.video] /\ kept = {q.video}
             \/ q.pc \in {"clearUrl", "deleteRow"} /\ kept = {}
      PROVE  VideosInv'
  <2>1. /\ req' = [req EXCEPT ![r] = q] /\ files' = kept /\ UNCHANGED lesson
        /\ torn' = Between /\ q.pc \in RowSteps
    BY <1>2 DEF Touch, Become, RowSteps
  <2>2. Slotted' /\ req'[r] = q /\ \A s \in Requests : s # r => req'[s] = req[s]
    BY <2>1, Written
  <2>3. Between'
    BY <2>1, <2>2 DEF Between, RowSteps
  <2>4. ASSUME ~torn'
        PROVE  \A s \in Requests : req'[s].pc \in RowSteps => s = r
    BY <2>1, <2>2, <2>4 DEF Between
  <2>5. WritesWhat(req[r])'
    BY <1>2, <2>1, <2>2 DEF WritesWhat
  <2>6. torn' \in BOOLEAN
    BY <2>1 DEF Between
  <2>7. FilesMatchRow'
    BY <2>3 DEF FilesMatchRow
  <2>8. ~torn' =>
          /\ \A s, u \in Requests : req'[s].pc \in RowSteps' /\ req'[u].pc \in RowSteps' => s = u
          /\ \A s \in Requests : req'[s].pc \in RowSteps' => WritesWhat(req[s])'
    BY <2>4, <2>5 DEF RowSteps
  <2>. QED  BY <2>1, <2>2, <2>6, <2>7, <2>8
<1>3. ASSUME NEW row, WriteRow(r, row), row = [exists |-> row.exists, video |-> row.video],
             row.exists \in BOOLEAN, req[r].pc \in RowSteps,
             ~torn /\ lesson.exists => files = row.video
      PROVE  VideosInv'
  <2>1. /\ Finish(r) /\ torn' = (torn \/ ~lesson.exists) /\ UNCHANGED files
        /\ lesson' = IF lesson.exists THEN row ELSE lesson
    BY <1>3 DEF WriteRow
  <2>2. /\ Slotted' /\ req'[r].pc = "idle" /\ \A s \in Requests : s # r => req'[s] = req[s]
    BY <2>1, Gone
  <2>3. ASSUME ~torn'
        PROVE  /\ ~torn /\ lesson.exists /\ lesson' = row
               /\ \A s \in Requests : req'[s].pc \notin RowSteps
    BY <1>3, <2>1, <2>2, <2>3 DEF RowSteps
  <2>4. FilesMatchRow'
    BY <1>3, <2>1, <2>3 DEF FilesMatchRow
  <2>5. /\ torn' \in BOOLEAN /\ lesson'.exists \in BOOLEAN
        /\ lesson' = [exists |-> lesson'.exists, video |-> lesson'.video]
    BY <1>3, <2>1
  <2>. QED  BY <2>2, <2>3, <2>4, <2>5 DEF RowSteps
<1>4. CASE UploadLessonVideo(r)
  BY <1>1, <1>4 DEF UploadLessonVideo, RowSteps
<1>5. CASE DeleteLessonVideo(r)
  BY <1>1, <1>5 DEF DeleteLessonVideo, RowSteps
<1>6. CASE DeleteLesson(r)
  BY <1>1, <1>6 DEF DeleteLesson, RowSteps
<1>7. CASE SaveLessonVideo(r)
  <2>. PICK kept : kept = {uploads'}
    OBVIOUS
  <2>. PICK q : q = [pc |-> "writeUrl", video |-> uploads']
    OBVIOUS
  <2>1. Touch(r, q, kept) /\ req[r].pc = "save"
    BY <1>7 DEF SaveLessonVideo, At
  <2>2. q.pc = "writeUrl" /\ q = [pc |-> "writeUrl", video |-> q.video] /\ kept = {q.video}
    OBVIOUS
  <2>. QED  BY <1>2, <2>1, <2>2
<1>8. CASE ClearForUrl(r)
  <2>. PICK q : q = [pc |-> "clearUrl"]
    OBVIOUS
  <2>1. Touch(r, q, {}) /\ req[r].pc = "clear" /\ q.pc = "clearUrl"
    BY <1>8 DEF ClearForUrl, At
  <2>. QED  BY <1>2, <2>1
<1>9. CASE ClearForRow(r)
  <2>. PICK q : q = [pc |-> "deleteRow"]
    OBVIOUS
  <2>1. Touch(r, q, {}) /\ req[r].pc = "clearAll" /\ q.pc = "deleteRow"
    BY <1>9 DEF ClearForRow, At
  <2>. QED  BY <1>2, <2>1
<1>10. CASE WriteUrl(r)
  <2>. PICK row : row = [lesson EXCEPT !.video = {req[r].video}]
    OBVIOUS
  <2>1. WriteRow(r, row) /\ req[r].pc = "writeUrl"
    BY <1>10 DEF WriteUrl, At
  <2>2. /\ row = [exists |-> lesson.exists, video |-> {req[r].video}]
        /\ row.exists = lesson.exists /\ row.video = {req[r].video}
    <3>1. lesson = [exists |-> lesson.exists, video |-> lesson.video]
      OBVIOUS
    <3>. QED  BY <3>1
  <2>3. ~torn => files = {req[r].video}
    BY <2>1 DEF WritesWhat, RowSteps
  <2>. QED  BY <1>3, <2>1, <2>2, <2>3 DEF RowSteps
<1>11. CASE ClearUrl(r)
  <2>. PICK row : row = [lesson EXCEPT !.video = {}]
    OBVIOUS
  <2>1. WriteRow(r, row) /\ req[r].pc = "clearUrl"
    BY <1>11 DEF ClearUrl, At
  <2>2. /\ row = [exists |-> lesson.exists, video |-> {}]
        /\ row.exists = lesson.exists /\ row.video = {}
    <3>1. lesson = [exists |-> lesson.exists, video |-> lesson.video]
      OBVIOUS
    <3>. QED  BY <3>1
  <2>3. ~torn => files = {}
    BY <2>1 DEF WritesWhat, RowSteps
  <2>. QED  BY <1>3, <2>1, <2>2, <2>3 DEF RowSteps
<1>12. CASE DeleteRow(r)
  <2>. PICK row : row = [exists |-> FALSE, video |-> {}]
    OBVIOUS
  <2>1. WriteRow(r, row) /\ req[r].pc = "deleteRow" /\ row.exists = FALSE /\ row.video = {}
    BY <1>12 DEF DeleteRow, At
  <2>2. ~torn => files = {}
    BY <2>1 DEF WritesWhat, RowSteps
  <2>. QED  BY <1>3, <2>1, <2>2 DEF RowSteps
<1>13. CASE LoseUpload(r)
  <2>1. /\ Finish(r) /\ torn' = (torn \/ req[r].pc \in RowSteps) /\ UNCHANGED <<lesson, files>>
    BY <1>13 DEF LoseUpload, Die
  <2>2. /\ Slotted' /\ req'[r].pc = "idle" /\ \A s \in Requests : s # r => req'[s] = req[s]
    BY <2>1, Gone
  <2>3. ASSUME ~torn'
        PROVE  /\ ~torn /\ \A s \in Requests : req'[s].pc \in RowSteps <=> req[s].pc \in RowSteps
               /\ \A s \in Requests : req'[s].pc \in RowSteps => req'[s] = req[s]
    BY <2>1, <2>2, <2>3 DEF RowSteps
  <2>4. FilesMatchRow'
    BY <2>1, <2>3 DEF FilesMatchRow, Between, RowSteps
  <2>5. ~torn' =>
          /\ \A s, u \in Requests : req'[s].pc \in RowSteps' /\ req'[u].pc \in RowSteps' => s = u
          /\ \A s \in Requests : req'[s].pc \in RowSteps' => WritesWhat(req[s])'
    BY <2>1, <2>3 DEF WritesWhat, RowSteps
  <2>. QED  BY <2>1, <2>2, <2>4, <2>5
<1>. QED  BY <1>4, <1>5, <1>6, <1>7, <1>8, <1>9, <1>10, <1>11, <1>12, <1>13

VideosService == IF service = "videos" THEN VideosInv ELSE VideosInit

\* With no request between the two, the files of a lesson are the one its row
\* names (AdminService.uploadLessonVideo and the deletions), but for the named
\* overlaps.
THEOREM FilesKept == Spec => []FilesMatchRow
<1>1. Init => VideosService
  BY VideosStart DEF Init, VideosService
<1>2. VideosService /\ [Next]_vars => VideosService'
  <2>. SUFFICES ASSUME VideosService, [Next]_vars  PROVE VideosService'
    OBVIOUS
  <2>1. CASE Next
    BY <2>1, ServiceSteps, VideosStep DEF VideosService, VideosInit, videoVars
  <2>2. CASE UNCHANGED vars
    <3>1. UNCHANGED <<req, lesson, files, uploads, torn, service>>
      BY <2>2 DEF vars, videoVars
    <3>2. VideosInv' <=> VideosInv
      BY <3>1 DEF VideosInv, Slotted, FilesMatchRow, Between, RowSteps, WritesWhat
    <3>. QED  BY <3>1, <3>2 DEF VideosService, VideosInit
  <2>. QED  BY <2>1, <2>2
<1>3. VideosService => FilesMatchRow
  BY DEF VideosService, VideosInv, VideosInit, FilesMatchRow
<1>. QED  BY <1>1, <1>2, <1>3, PTL DEF Spec

-----------------------------------------------------------------------------
(* Two-factor: a confirmation on its way has the secret that is stored, or  *)
(* was overtaken; a recovery code is used with its first use.               *)

RecoveryInv ==
  \A b \in Batches :
    /\ recovery[b] = [state |-> recovery[b].state, uses |-> recovery[b].uses]
    /\ recovery[b].uses = IF recovery[b].state = "used" THEN 1 ELSE 0

TwoFactorInv ==
  /\ Slotted
  /\ twoFactor \in [enabled : BOOLEAN, secret : Nat \cup {None}, confirmed : Nat \cup {None},
                    overtaken : BOOLEAN]
  /\ recovery = [b \in Batches |-> recovery[b]] /\ RecoveryInv
  /\ lastSecret \in Nat
  /\ \A r \in Requests :
       At(r, "enable") =>
         /\ req[r] \in [pc : {"enable"}, secret : Nat \cup {None}, overtaken : BOOLEAN]
         /\ req[r].secret = twoFactor.secret \/ req[r].overtaken
  /\ EnabledIsConfirmed

LEMMA TwoFactorStart == InitSlots /\ TwoFactorInit => TwoFactorInv
<1>. SUFFICES ASSUME InitSlots, TwoFactorInit  PROVE TwoFactorInv
  OBVIOUS
<1>1. Slotted /\ \A r \in Requests : ~At(r, "enable")
  BY AllIdle DEF At
<1>2. recovery = [b \in Batches |-> recovery[b]] /\ RecoveryInv
  BY DEF TwoFactorInit, RecoveryInv
<1>. QED  BY <1>1, <1>2 DEF TwoFactorInit, TwoFactorInv, NoFactor, EnabledIsConfirmed

\* What becomes of the codes
LEMMA CodesDeleted ==
  ASSUME RecoveryInv, NEW gone, NEW rows, rows = Deleted(gone)
  PROVE  /\ rows = [b \in Batches |-> rows[b]]
         /\ \A b \in Batches :
              /\ rows[b] = [state |-> rows[b].state, uses |-> rows[b].uses]
              /\ rows[b].uses = IF rows[b].state = "used" THEN 1 ELSE 0
              /\ recovery[b].state = "none" => rows[b] = recovery[b]
<1>1. rows = [b \in Batches |-> IF b \in gone /\ LiveBatch(b)
                                THEN [recovery[b] EXCEPT !.state = "deleted"] ELSE recovery[b]]
  BY DEF Deleted
<1>2. ASSUME NEW b \in Batches
      PROVE  /\ rows[b] = [state |-> rows[b].state, uses |-> rows[b].uses]
             /\ rows[b].uses = IF rows[b].state = "used" THEN 1 ELSE 0
             /\ recovery[b].state = "none" => rows[b] = recovery[b]
  <2>1. /\ recovery[b] = [state |-> recovery[b].state, uses |-> recovery[b].uses]
        /\ recovery[b].uses = IF recovery[b].state = "used" THEN 1 ELSE 0
    BY DEF RecoveryInv
  <2>2. CASE b \in gone /\ LiveBatch(b)
    <3>. PICK row : row = [recovery[b] EXCEPT !.state = "deleted"]
      OBVIOUS
    <3>1. row = [state |-> "deleted", uses |-> recovery[b].uses]
      BY <2>1
    <3>2. recovery[b].state = "live" /\ rows[b] = row
      BY <1>1, <2>2 DEF LiveBatch
    <3>. QED  BY <2>1, <3>1, <3>2
  <2>3. CASE ~(b \in gone /\ LiveBatch(b))
    <3>1. rows[b] = recovery[b]
      BY <1>1, <2>3
    <3>. QED  BY <2>1, <3>1
  <2>. QED  BY <2>2, <2>3
<1>. QED  BY <1>1, <1>2

LEMMA BatchMade ==
  ASSUME RecoveryInv, NEW gone, NewBatch(gone)
  PROVE  recovery' = [b \in Batches |-> recovery'[b]] /\ RecoveryInv'
<1>. PICK rows : rows = Deleted(gone)
  OBVIOUS
<1>. PICK b \in Batches : b \notin LastBatch /\ recovery' = [rows EXCEPT ![b].state = "live"]
  BY DEF NewBatch
<1>1. /\ rows = [c \in Batches |-> rows[c]]
      /\ \A c \in Batches :
           /\ rows[c] = [state |-> rows[c].state, uses |-> rows[c].uses]
           /\ rows[c].uses = IF rows[c].state = "used" THEN 1 ELSE 0
           /\ recovery[c].state = "none" => rows[c] = recovery[c]
  BY CodesDeleted
<1>2. rows[b].state = "none" /\ rows[b].uses = 0
  BY <1>1 DEF LastBatch
<1>. PICK row : row = [rows[b] EXCEPT !.state = "live"]
  OBVIOUS
<1>3. row = [state |-> "live", uses |-> 0]
  <2>1. rows[b] = [state |-> rows[b].state, uses |-> rows[b].uses]
    BY <1>1
  <2>2. rows[b] = [state |-> "none", uses |-> 0]
    BY <1>2, <2>1
  <2>. QED  BY <2>2
<1>4. recovery' = [rows EXCEPT ![b] = row]
  OBVIOUS
<1>5. recovery'[b] = row /\ \A c \in Batches : c # b => recovery'[c] = rows[c]
  BY <1>1, <1>4
<1>6. ASSUME NEW c \in Batches
      PROVE  /\ recovery'[c] = [state |-> recovery'[c].state, uses |-> recovery'[c].uses]
             /\ recovery'[c].uses = IF recovery'[c].state = "used" THEN 1 ELSE 0
  <2>1. CASE c = b
    BY <1>3, <1>5, <2>1
  <2>2. CASE c # b
    <3>1. recovery'[c] = rows[c]
      BY <1>5, <2>2
    <3>. QED  BY <1>1, <3>1
  <2>. QED  BY <2>1, <2>2
<1>7. recovery' = [c \in Batches |-> recovery'[c]]
  BY <1>1, <1>4
<1>. QED  BY <1>6, <1>7 DEF RecoveryInv, Batches

\* Whoever is enabling is overtaken.
LEMMA Overtaken ==
  ASSUME TwoFactorInv, NEW r \in Requests, ~At(r, "enable"), req' = Overtake(r, Idle)
  PROVE  /\ Slotted'
         /\ \A s \in Requests :
              At(s, "enable")' =>
                /\ req'[s] \in [pc : {"enable"}, secret : Nat \cup {None}, overtaken : BOOLEAN]
                /\ req'[s].overtaken
<1>1. /\ req' = [[s \in Requests |-> IF At(s, "enable") THEN [req[s] EXCEPT !.overtaken = TRUE]
                                     ELSE req[s]] EXCEPT ![r] = Idle]
      /\ Idle.pc = "idle"
  BY DEF Overtake, Idle
<1>2. /\ Slotted' /\ req'[r].pc = "idle"
      /\ \A s \in Requests :
           s # r => req'[s] = IF At(s, "enable") THEN [req[s] EXCEPT !.overtaken = TRUE] ELSE req[s]
  BY <1>1 DEF Slotted
<1>3. ASSUME NEW s \in Requests, At(s, "enable")'
      PROVE  /\ req'[s] \in [pc : {"enable"}, secret : Nat \cup {None}, overtaken : BOOLEAN]
             /\ req'[s].overtaken
  <2>1. s # r /\ req'[s].pc = "enable"
    BY <1>2, <1>3 DEF At
  <2>2. CASE At(s, "enable")
    <3>. PICK q : q = [req[s] EXCEPT !.overtaken = TRUE]
      OBVIOUS
    <3>1. req[s] \in [pc : {"enable"}, secret : Nat \cup {None}, overtaken : BOOLEAN]
      BY <2>2 DEF TwoFactorInv
    <3>2. /\ q \in [pc : {"enable"}, secret : Nat \cup {None}, overtaken : BOOLEAN]
          /\ q.overtaken
      BY <3>1
    <3>3. req'[s] = q
      BY <1>2, <2>1, <2>2
    <3>. QED  BY <3>2, <3>3
  <2>3. CASE ~At(s, "enable")
    BY <1>2, <2>1, <2>3 DEF At
  <2>. QED  BY <2>2, <2>3
<1>. QED  BY <1>2, <1>3

\* A request begins or ends, and the columns and codes stay.
LEMMA FactorStays ==
  ASSUME TwoFactorInv, NEW r \in Requests, NEW q, req' = [req EXCEPT ![r] = q],
         UNCHANGED <<twoFactor, lastSecret>>,
         recovery' = [b \in Batches |-> recovery'[b]], RecoveryInv',
         q.pc = "enable" => /\ q \in [pc : {"enable"}, secret : Nat \cup {None}, overtaken : BOOLEAN]
                            /\ q.secret = twoFactor.secret
  PROVE  TwoFactorInv'
<1>1. Slotted' /\ req'[r] = q /\ \A s \in Requests : s # r => req'[s] = req[s]
  BY Written DEF TwoFactorInv
<1>2. \A s \in Requests :
        req'[s].pc = "enable" =>
          /\ req'[s] \in [pc : {"enable"}, secret : Nat \cup {None}, overtaken : BOOLEAN]
          /\ req'[s].secret = twoFactor.secret \/ req'[s].overtaken
  BY <1>1 DEF TwoFactorInv, At
<1>3. EnabledIsConfirmed'
  BY DEF TwoFactorInv, EnabledIsConfirmed
<1>. QED  BY <1>1, <1>2, <1>3 DEF TwoFactorInv, At, Batches

LEMMA TwoFactorStep == TwoFactorInv /\ TwoFactorNext => TwoFactorInv'
<1>. SUFFICES ASSUME TwoFactorInv, NEW r \in Requests,
                     \/ Setup(r) \/ StoreSecret(r) \/ Confirm(r) \/ Enable(r)
                     \/ RegenerateRecoveryCodes(r) \/ ReplaceCodes(r)
                     \/ Disable(r) \/ ClearFactor(r) \/ DisableForUser(r)
                     \/ VerifyTwoFactorLogin(r) \/ ClaimCode(r)
                     \/ Die(r) /\ UNCHANGED twoFactorVars
              PROVE  TwoFactorInv'
  BY DEF TwoFactorNext
<1>0. /\ RecoveryInv /\ Slotted /\ recovery = [b \in Batches |-> recovery[b]]
      /\ UNCHANGED recovery => recovery' = [b \in Batches |-> recovery'[b]] /\ RecoveryInv'
  BY DEF TwoFactorInv, RecoveryInv, Batches
<1>1. ASSUME NEW q, req' = [req EXCEPT ![r] = q], q.pc # "enable", UNCHANGED twoFactorVars
      PROVE  TwoFactorInv'
  BY <1>0, <1>1, FactorStays DEF twoFactorVars
<1>2. CASE Setup(r)
  <2>. PICK q : q = [pc |-> "storeSecret"]
    OBVIOUS
  <2>1. req' = [req EXCEPT ![r] = q] /\ q.pc = "storeSecret" /\ UNCHANGED twoFactorVars
    BY <1>2 DEF Setup, Become
  <2>. QED  BY <1>1, <2>1
<1>3. CASE Disable(r)
  <2>. PICK q : q = [pc |-> "disable"]
    OBVIOUS
  <2>1. req' = [req EXCEPT ![r] = q] /\ q.pc = "disable" /\ UNCHANGED twoFactorVars
    BY <1>3 DEF Disable, Become
  <2>. QED  BY <1>1, <2>1
<1>4. CASE RegenerateRecoveryCodes(r)
  <2>. PICK q : q = [pc |-> "replaceCodes", seen |-> LastBatch]
    OBVIOUS
  <2>1. req' = [req EXCEPT ![r] = q] /\ q.pc = "replaceCodes" /\ UNCHANGED twoFactorVars
    BY <1>4 DEF RegenerateRecoveryCodes, Become
  <2>. QED  BY <1>1, <2>1
<1>5. CASE VerifyTwoFactorLogin(r)
  <2>. PICK b \in Batches : /\ Become(r, [pc |-> "claimCode", code |-> b])
                            /\ UNCHANGED twoFactorVars
    BY <1>5 DEF VerifyTwoFactorLogin
  <2>. PICK q : q = [pc |-> "claimCode", code |-> b]
    OBVIOUS
  <2>1. req' = [req EXCEPT ![r] = q] /\ q.pc = "claimCode"
    BY DEF Become
  <2>. QED  BY <1>1, <2>1
<1>6. CASE Die(r) /\ UNCHANGED twoFactorVars
  <2>1. req' = [req EXCEPT ![r] = Idle] /\ Idle.pc = "idle"
    BY <1>6 DEF Die, Finish, Become, Idle
  <2>. QED  BY <1>1, <1>6, <2>1
<1>7. CASE Confirm(r)
  <2>. PICK secret : secret = twoFactor.secret
    OBVIOUS
  <2>. PICK q : q = [pc |-> "enable", secret |-> secret, overtaken |-> FALSE]
    OBVIOUS
  <2>1. req' = [req EXCEPT ![r] = q] /\ UNCHANGED twoFactorVars
    BY <1>7 DEF Confirm, Become
  <2>2. secret \in Nat \cup {None}
    BY DEF TwoFactorInv
  <2>3. q \in [pc : {"enable"}, secret : Nat \cup {None}, overtaken : BOOLEAN]
        /\ q.secret = twoFactor.secret
    BY <2>2
  <2>. QED  BY <1>0, <2>1, <2>3, FactorStays DEF twoFactorVars
<1>8. CASE ReplaceCodes(r)
  <2>1. /\ req' = [req EXCEPT ![r] = Idle] /\ Idle.pc = "idle"
        /\ UNCHANGED <<twoFactor, lastSecret>>
    BY <1>8 DEF ReplaceCodes, Finish, Become, Idle
  <2>2. recovery' = [b \in Batches |-> recovery'[b]] /\ RecoveryInv'
    BY <1>0, <1>8, BatchMade DEF ReplaceCodes
  <2>. QED  BY <2>1, <2>2, FactorStays
<1>9. CASE ClaimCode(r)
  <2>. PICK b : b = req[r].code
    OBVIOUS
  <2>1. /\ req' = [req EXCEPT ![r] = Idle] /\ Idle.pc = "idle"
        /\ UNCHANGED <<twoFactor, lastSecret>>
    BY <1>9 DEF ClaimCode, Finish, Become, Idle
  <2>2. CASE ~LiveBatch(b) \/ b \notin Batches
    <3>1. UNCHANGED recovery
      <4>1. CASE ~LiveBatch(b)
        BY <1>9, <4>1 DEF ClaimCode
      <4>2. CASE LiveBatch(b) /\ b \notin Batches
        BY <1>0, <1>9, <4>2 DEF ClaimCode, Burn
      <4>. QED  BY <2>2, <4>1, <4>2
    <3>. QED  BY <1>0, <2>1, <3>1, FactorStays
  <2>3. CASE LiveBatch(b) /\ b \in Batches
    <3>. PICK row : row = [state |-> "used", uses |-> 1]
      OBVIOUS
    <3>1. recovery[b] = [state |-> "live", uses |-> 0]
      <4>1. recovery[b].state = "live" /\ recovery[b].uses = 0
        BY <1>0, <2>3 DEF RecoveryInv, LiveBatch
      <4>2. recovery[b] = [state |-> recovery[b].state, uses |-> recovery[b].uses]
        BY <1>0, <2>3 DEF RecoveryInv
      <4>. QED  BY <4>1, <4>2
    <3>2. row.state = "used" /\ row.uses = 1 /\ row = [state |-> row.state, uses |-> row.uses]
      OBVIOUS
    <3>3. recovery' = [recovery EXCEPT ![b] = row]
      <4>. PICK burnt : burnt = [recovery[b] EXCEPT !.state = "used", !.uses = @ + 1]
        OBVIOUS
      <4>. PICK used : used = [recovery[b] EXCEPT !.state = "used"]
        OBVIOUS
      <4>1. used = [state |-> "used", uses |-> 0]
        BY <3>1
      <4>2. burnt = [used EXCEPT !.uses = used.uses + 1]
        BY <3>1
      <4>3. used.uses + 1 = 1
        BY <4>1
      <4>4. burnt = [used EXCEPT !.uses = 1]
        BY <4>2, <4>3
      <4>5. burnt = row
        BY <4>1, <4>4
      <4>6. recovery' = [recovery EXCEPT ![b] = burnt]
        BY <1>9, <2>3 DEF ClaimCode, Burn
      <4>. QED  BY <4>5, <4>6
    <3>4. recovery'[b] = row /\ \A c \in Batches : c # b => recovery'[c] = recovery[c]
      BY <1>0, <2>3, <3>3
    <3>5. recovery' = [c \in Batches |-> recovery'[c]]
      BY <1>0, <3>3
    <3>6. ASSUME NEW c \in Batches
          PROVE  /\ recovery'[c] = [state |-> recovery'[c].state, uses |-> recovery'[c].uses]
                 /\ recovery'[c].uses = IF recovery'[c].state = "used" THEN 1 ELSE 0
      <4>1. CASE c = b
        <5>1. recovery'[c] = row
          BY <3>4, <4>1
        <5>. QED  BY <3>2, <5>1
      <4>2. CASE c # b
        <5>1. recovery'[c] = recovery[c]
          BY <3>4, <4>2
        <5>. QED  BY <1>0, <5>1 DEF RecoveryInv
      <4>. QED  BY <4>1, <4>2
    <3>7. RecoveryInv'
      BY <3>6 DEF RecoveryInv, Batches
    <3>. QED  BY <2>1, <3>5, <3>7, FactorStays
  <2>. QED  BY <2>2, <2>3
<1>10. CASE Enable(r)
  <2>1. /\ Finish(r) /\ UNCHANGED lastSecret
        /\ twoFactor' = [twoFactor EXCEPT !.enabled = TRUE, !.confirmed = req[r].secret,
                                          !.overtaken = req[r].overtaken]
        /\ req[r] \in [pc : {"enable"}, secret : Nat \cup {None}, overtaken : BOOLEAN]
        /\ req[r].secret = twoFactor.secret \/ req[r].overtaken
        /\ twoFactor \in [enabled : BOOLEAN, secret : Nat \cup {None},
                          confirmed : Nat \cup {None}, overtaken : BOOLEAN]
    BY <1>10 DEF Enable, TwoFactorInv
  <2>2. /\ Slotted' /\ req'[r].pc = "idle" /\ \A s \in Requests : s # r => req'[s] = req[s]
    BY <1>0, <2>1, Gone
  <2>3. recovery' = [b \in Batches |-> recovery'[b]] /\ RecoveryInv'
    BY <1>0, <1>10, BatchMade DEF Enable
  <2>4. /\ twoFactor' \in [enabled : BOOLEAN, secret : Nat \cup {None},
                           confirmed : Nat \cup {None}, overtaken : BOOLEAN]
        /\ twoFactor'.secret = twoFactor.secret
        /\ twoFactor'.secret = twoFactor'.confirmed \/ twoFactor'.overtaken
    BY <2>1
  <2>5. \A s \in Requests :
          At(s, "enable")' =>
            /\ req'[s] \in [pc : {"enable"}, secret : Nat \cup {None}, overtaken : BOOLEAN]
            /\ req'[s].secret = twoFactor'.secret \/ req'[s].overtaken
    BY <2>2, <2>4 DEF TwoFactorInv, At
  <2>6. EnabledIsConfirmed'
    BY <2>4 DEF EnabledIsConfirmed
  <2>. QED  BY <2>1, <2>2, <2>3, <2>4, <2>5, <2>6 DEF TwoFactorInv, Batches
<1>11. ASSUME ~At(r, "enable"), req' = Overtake(r, Idle), twoFactor'.enabled = FALSE,
              twoFactor' \in [enabled : BOOLEAN, secret : Nat \cup {None},
                              confirmed : Nat \cup {None}, overtaken : BOOLEAN],
              lastSecret' \in Nat, recovery' = [b \in Batches |-> recovery'[b]], RecoveryInv'
       PROVE  TwoFactorInv'
  <2>1. EnabledIsConfirmed'
    BY <1>11 DEF EnabledIsConfirmed
  <2>. QED  BY <1>11, <2>1, Overtaken DEF TwoFactorInv, At, Batches
<1>12. CASE StoreSecret(r)
  <2>1. /\ lastSecret' = lastSecret + 1 /\ lastSecret \in Nat
        /\ twoFactor' = [twoFactor EXCEPT !.secret = lastSecret', !.enabled = FALSE]
        /\ twoFactor \in [enabled : BOOLEAN, secret : Nat \cup {None},
                          confirmed : Nat \cup {None}, overtaken : BOOLEAN]
        /\ req' = Overtake(r, Idle) /\ UNCHANGED recovery /\ ~At(r, "enable")
    BY <1>12 DEF StoreSecret, Store, At, TwoFactorInv
  <2>. PICK secret : secret = lastSecret'
    OBVIOUS
  <2>2. secret \in Nat /\ twoFactor' = [twoFactor EXCEPT !.secret = secret, !.enabled = FALSE]
    BY <2>1
  <2>3. /\ twoFactor' \in [enabled : BOOLEAN, secret : Nat \cup {None},
                           confirmed : Nat \cup {None}, overtaken : BOOLEAN]
        /\ twoFactor'.enabled = FALSE
    BY <2>1, <2>2
  <2>. QED  BY <1>0, <1>11, <2>1, <2>2, <2>3
<1>13. CASE ClearFactor(r) \/ DisableForUser(r)
  <2>1. /\ twoFactor' = [twoFactor EXCEPT !.enabled = FALSE, !.secret = None]
        /\ twoFactor \in [enabled : BOOLEAN, secret : Nat \cup {None},
                          confirmed : Nat \cup {None}, overtaken : BOOLEAN]
        /\ recovery' = Deleted(Batches) /\ lastSecret' = lastSecret /\ lastSecret \in Nat
        /\ req' = Overtake(r, Idle) /\ ~At(r, "enable")
    BY <1>13 DEF ClearFactor, DisableForUser, Clear, At, TwoFactorInv
  <2>2. /\ twoFactor' \in [enabled : BOOLEAN, secret : Nat \cup {None},
                           confirmed : Nat \cup {None}, overtaken : BOOLEAN]
        /\ twoFactor'.enabled = FALSE
    BY <2>1
  <2>3. recovery' = [b \in Batches |-> recovery'[b]] /\ RecoveryInv'
    <3>. PICK rows : rows = Deleted(Batches)
      OBVIOUS
    <3>1. /\ rows = [b \in Batches |-> rows[b]]
          /\ \A b \in Batches :
               /\ rows[b] = [state |-> rows[b].state, uses |-> rows[b].uses]
               /\ rows[b].uses = IF rows[b].state = "used" THEN 1 ELSE 0
      BY <1>0, CodesDeleted
    <3>. QED  BY <2>1, <3>1 DEF RecoveryInv, Batches
  <2>. QED  BY <1>11, <2>1, <2>2, <2>3
<1>. QED
  BY <1>2, <1>3, <1>4, <1>5, <1>6, <1>7, <1>8, <1>9, <1>10, <1>12, <1>13

TwoFactorService == IF service = "twoFactor" THEN TwoFactorInv ELSE TwoFactorInit

LEMMA TwoFactorKept == Spec => []TwoFactorService
<1>1. Init => TwoFactorService
  BY TwoFactorStart DEF Init, TwoFactorService
<1>2. TwoFactorService /\ [Next]_vars => TwoFactorService'
  <2>. SUFFICES ASSUME TwoFactorService, [Next]_vars  PROVE TwoFactorService'
    OBVIOUS
  <2>1. CASE Next
    BY <2>1, ServiceSteps, TwoFactorStep
       DEF TwoFactorService, TwoFactorInit, twoFactorVars, NoFactor, Batches
  <2>2. CASE UNCHANGED vars
    <3>1. UNCHANGED <<req, twoFactor, recovery, lastSecret, service>>
      BY <2>2 DEF vars, twoFactorVars
    <3>2. TwoFactorInv' <=> TwoFactorInv
      BY <3>1 DEF TwoFactorInv, RecoveryInv, Slotted, EnabledIsConfirmed, At, Batches
    <3>. QED  BY <3>1, <3>2 DEF TwoFactorService, TwoFactorInit, NoFactor, Batches
  <2>. QED  BY <2>1, <2>2
<1>. QED  BY <1>1, <1>2, PTL DEF Spec

\* A recovery code signs in once, however many requests present it
\* (TwoFactorService.verifyTwoFactorLogin).
THEOREM RecoveryCodesOnce == Spec => []RecoveryOnce
<1>1. TwoFactorService => RecoveryOnce
  <2>1. TwoFactorInv => RecoveryOnce
    BY DEF TwoFactorInv, RecoveryInv, RecoveryOnce, Batches
  <2>2. TwoFactorInit => RecoveryOnce
    BY DEF TwoFactorInit, RecoveryOnce, Batches
  <2>. QED  BY <2>1, <2>2 DEF TwoFactorService
<1>. QED  BY <1>1, TwoFactorKept, PTL

\* An enabled second factor asks for codes of the secret that was confirmed
\* (TwoFactorService.confirm), but for the named races.
THEOREM FactorIsConfirmed == Spec => []EnabledIsConfirmed
<1>1. TwoFactorService => EnabledIsConfirmed
  BY DEF TwoFactorService, TwoFactorInv, TwoFactorInit, NoFactor, EnabledIsConfirmed
<1>. QED  BY <1>1, TwoFactorKept, PTL

-----------------------------------------------------------------------------
(* Staff accounts: a role that is assigned exists, or was deleted beside    *)
(* the assignment; whoever was counted was more than one.                   *)

Known == SystemRoles \cup roles \cup raced

StaffRequestOK(q) ==
  /\ q.pc \in {"createUser", "setRole"} => q.user \in Users /\ q.role \in Known
  /\ q.pc \in {"softDelete", "restore"} => q.user \in Users /\ users[q.user].role \in Known
  /\ q.pc \in {"setRole", "softDelete"} => (q.counted # None => Cardinality(q.counted) > 1)
  /\ q.pc = "deleteRole" => \A u \in Users : users[u].role = q.role => q.role \in raced

StaffInv ==
  /\ Slotted
  /\ users = [u \in Users |-> users[u]]
  /\ \A u \in Users : /\ users[u] = [role |-> users[u].role, deleted |-> users[u].deleted]
                      /\ users[u].deleted \in BOOLEAN
  /\ \A r \in Requests : StaffRequestOK(req[r])
  /\ RolesExist

LEMMA StaffStart == InitSlots /\ StaffInit => StaffInv
<1>. SUFFICES ASSUME InitSlots, StaffInit  PROVE StaffInv
  OBVIOUS
<1>. PICK super : super = [NoUser EXCEPT !.role = "SUPER_ADMIN"]
  OBVIOUS
<1>1. super = [role |-> "SUPER_ADMIN", deleted |-> FALSE] /\ NoUser = [role |-> None, deleted |-> FALSE]
  BY DEF NoUser
<1>2. /\ users = [u \in Users |-> users[u]]
      /\ \A u \in Users : users[u] = super \/ users[u] = NoUser
  BY DEF StaffInit
<1>3. /\ super.role = "SUPER_ADMIN" /\ super = [role |-> super.role, deleted |-> super.deleted]
      /\ super.deleted = FALSE
      /\ NoUser = [role |-> NoUser.role, deleted |-> NoUser.deleted] /\ NoUser.deleted = FALSE
  BY <1>1
<1>4. RolesExist
  BY <1>2, <1>3 DEF RolesExist, IsUser, SystemRoles
<1>5. \A u \in Users : /\ users[u] = [role |-> users[u].role, deleted |-> users[u].deleted]
                       /\ users[u].deleted \in BOOLEAN
  BY <1>2, <1>3
<1>6. Slotted /\ \A r \in Requests : StaffRequestOK(req[r])
  BY AllIdle DEF StaffRequestOK
<1>. QED  BY <1>2, <1>4, <1>5, <1>6 DEF StaffInv

\* A request begins or ends, and the accounts and roles stay.
LEMMA StaffStays ==
  ASSUME StaffInv, NEW r \in Requests, NEW q, req' = [req EXCEPT ![r] = q],
         UNCHANGED staffVars, StaffRequestOK(q)
  PROVE  StaffInv'
<1>1. Slotted' /\ req'[r] = q /\ \A s \in Requests : s # r => req'[s] = req[s]
  BY Written DEF StaffInv
<1>2. UNCHANGED <<users, roles, raced>>
  BY DEF staffVars
<1>3. ASSUME NEW s \in Requests  PROVE StaffRequestOK(req[s])'
  <2>1. StaffRequestOK(req'[s])
    BY <1>1 DEF StaffInv
  <2>. QED  BY <1>2, <2>1 DEF StaffRequestOK, Known, SystemRoles
<1>. QED  BY <1>1, <1>2, <1>3 DEF StaffInv, RolesExist, IsUser, SystemRoles

\* The request is answered; what the others rely on holds for what it leaves.
LEMMA StaffWrites ==
  ASSUME StaffInv, NEW r \in Requests, Finish(r),
         users' = [u \in Users |-> users'[u]],
         \A u \in Users : /\ users'[u] = [role |-> users'[u].role, deleted |-> users'[u].deleted]
                          /\ users'[u].deleted \in BOOLEAN,
         \A u \in Users : users'[u].role = users[u].role \/ users'[u].role \in Known',
         \A u \in Users : IsUser(u)' => IsUser(u) \/ users'[u].role \in Known',
         raced \subseteq raced',
         \A u \in Users : users[u].role \in Known => users[u].role \in Known',
         \A s \in Requests : /\ req[s].pc \in {"createUser", "setRole"} /\ s # r /\ req[s].role \in Known
                                  => req[s].role \in Known'
                             /\ req[s].pc = "deleteRole" /\ s # r =>
                                  \A u \in Users :
                                    users'[u].role = req[s].role =>
                                      users[u].role = req[s].role \/ req[s].role \in raced'
  PROVE  StaffInv'
<1>1. Slotted' /\ req'[r].pc = "idle" /\ \A s \in Requests : s # r => req'[s] = req[s]
  BY Gone DEF StaffInv
<1>2. ASSUME NEW s \in Requests  PROVE StaffRequestOK(req[s])'
  <2>1. CASE s = r
    BY <1>1, <2>1 DEF StaffRequestOK
  <2>2. CASE s # r
    <3>1. req'[s] = req[s] /\ StaffRequestOK(req[s])
      BY <1>1, <2>2 DEF StaffInv
    <3>2. req[s].pc \in {"createUser", "setRole"} => req[s].user \in Users /\ req[s].role \in Known'
      BY <2>2, <3>1 DEF StaffRequestOK
    <3>3. req[s].pc \in {"softDelete", "restore"} =>
            req[s].user \in Users /\ users'[req[s].user].role \in Known'
      BY <3>1 DEF StaffRequestOK
    <3>4. req[s].pc \in {"setRole", "softDelete"} =>
            (req[s].counted # None => Cardinality(req[s].counted) > 1)
      BY <3>1 DEF StaffRequestOK
    <3>5. req[s].pc = "deleteRole" =>
            \A u \in Users : users'[u].role = req[s].role => req[s].role \in raced'
      BY <2>2, <3>1 DEF StaffRequestOK
    <3>. QED  BY <3>1, <3>2, <3>3, <3>4, <3>5 DEF StaffRequestOK
  <2>. QED  BY <2>1, <2>2
<1>3. RolesExist'
  <2>1. ASSUME NEW u \in Users, IsUser(u)'  PROVE users'[u].role \in Known'
    BY <2>1 DEF StaffInv, RolesExist, Known
  <2>. QED  BY <2>1 DEF RolesExist, Known, SystemRoles
<1>. QED  BY <1>1, <1>2, <1>3 DEF StaffInv

\* One account gets a role.
LEMMA RoleAssigned ==
  ASSUME StaffInv, NEW r \in Requests, req[r].pc \in {"createUser", "setRole"},
         NEW row, AssignRole(r, row), row = [role |-> req[r].role, deleted |-> row.deleted],
         row.deleted \in BOOLEAN
  PROVE  StaffInv'
<1>. PICK v : v = req[r].user
  OBVIOUS
<1>. PICK role : role = req[r].role
  OBVIOUS
<1>1. /\ v \in Users /\ role \in Known /\ Finish(r) /\ UNCHANGED roles
      /\ users' = [users EXCEPT ![v] = row]
      /\ raced' = IF Deleting(role) THEN raced \cup {role} ELSE raced
      /\ row.role = role /\ row = [role |-> row.role, deleted |-> row.deleted]
  BY DEF AssignRole, StaffInv, StaffRequestOK
<1>2. /\ users' = [u \in Users |-> users'[u]]
      /\ users'[v] = row /\ \A u \in Users : u # v => users'[u] = users[u]
  BY <1>1 DEF StaffInv
<1>3. raced \subseteq raced' /\ Known \subseteq Known'
  BY <1>1 DEF Known, SystemRoles
<1>4. \A u \in Users : /\ users'[u] = [role |-> users'[u].role, deleted |-> users'[u].deleted]
                       /\ users'[u].deleted \in BOOLEAN
  <2>1. ASSUME NEW u \in Users
        PROVE  /\ users'[u] = [role |-> users'[u].role, deleted |-> users'[u].deleted]
               /\ users'[u].deleted \in BOOLEAN
    <3>1. CASE u = v
      BY <1>1, <1>2, <3>1
    <3>2. CASE u # v
      <4>1. users'[u] = users[u]
        BY <1>2, <3>2
      <4>. QED  BY <4>1 DEF StaffInv
    <3>. QED  BY <3>1, <3>2
  <2>. QED  BY <2>1
<1>5. ASSUME NEW u \in Users
      PROVE  /\ users'[u].role = users[u].role \/ users'[u].role \in Known'
             /\ IsUser(u)' => IsUser(u) \/ users'[u].role \in Known'
  <2>1. CASE u = v
    BY <1>1, <1>2, <1>3, <2>1
  <2>2. CASE u # v
    BY <1>2, <2>2 DEF IsUser, NoUser
  <2>. QED  BY <2>1, <2>2
<1>6. ASSUME NEW s \in Requests, req[s].pc = "deleteRole", NEW u \in Users,
             users'[u].role = req[s].role
      PROVE  users[u].role = req[s].role \/ req[s].role \in raced'
  <2>1. CASE u = v
    <3>1. req[s].role = role
      BY <1>1, <1>2, <1>6, <2>1
    <3>2. Deleting(role)
      BY <1>6, <3>1 DEF Deleting, At
    <3>. QED  BY <1>1, <3>1, <3>2
  <2>2. CASE u # v
    BY <1>2, <1>6, <2>2
  <2>. QED  BY <2>1, <2>2
<1>. QED  BY <1>1, <1>2, <1>3, <1>4, <1>5, <1>6, StaffWrites

\* One account is deleted or restored.
LEMMA Marked ==
  ASSUME StaffInv, NEW r \in Requests, req[r].pc \in {"softDelete", "restore"},
         NEW deleted \in BOOLEAN,
         users' = [users EXCEPT ![req[r].user].deleted = deleted],
         Finish(r), UNCHANGED <<roles, raced>>
  PROVE  StaffInv'
<1>. PICK v : v = req[r].user
  OBVIOUS
<1>. PICK row : row = [users[v] EXCEPT !.deleted = deleted]
  OBVIOUS
<1>1. v \in Users /\ users[v].role \in Known /\ users' = [users EXCEPT ![v] = row]
  BY DEF StaffInv, StaffRequestOK
<1>2. row = [role |-> users[v].role, deleted |-> deleted]
  <2>1. users[v] = [role |-> users[v].role, deleted |-> users[v].deleted]
    BY <1>1 DEF StaffInv
  <2>. QED  BY <2>1
<1>3. /\ row.role = users[v].role /\ row.deleted = deleted
      /\ row = [role |-> row.role, deleted |-> row.deleted]
  BY <1>2
<1>4. /\ users' = [u \in Users |-> users'[u]]
      /\ users'[v] = row /\ \A u \in Users : u # v => users'[u] = users[u]
  BY <1>1 DEF StaffInv
<1>5. Known' = Known
  BY DEF Known, SystemRoles
<1>6. ASSUME NEW u \in Users
      PROVE  /\ users'[u] = [role |-> users'[u].role, deleted |-> users'[u].deleted]
             /\ users'[u].deleted \in BOOLEAN
             /\ users'[u].role = users[u].role
             /\ IsUser(u)' => IsUser(u) \/ users'[u].role \in Known'
  <2>1. CASE u = v
    BY <1>1, <1>3, <1>4, <1>5, <2>1
  <2>2. CASE u # v
    <3>1. users'[u] = users[u]
      BY <1>4, <2>2
    <3>2. IsUser(u)' => IsUser(u)
      BY <3>1 DEF IsUser, NoUser
    <3>. QED  BY <3>1, <3>2 DEF StaffInv
  <2>. QED  BY <2>1, <2>2
<1>. QED  BY <1>4, <1>5, <1>6, StaffWrites

LEMMA RoleRemoved ==
  ASSUME StaffInv, NEW r \in Requests, RemoveRole(r)
  PROVE  StaffInv'
<1>. PICK role : role = req[r].role
  OBVIOUS
<1>1. /\ Finish(r) /\ UNCHANGED users /\ roles' = roles \ {role}
      /\ raced' = IF Assigning(role) THEN raced \cup {role} ELSE raced
      /\ \A u \in Users : users[u].role = role => role \in raced
  BY DEF RemoveRole, StaffInv, StaffRequestOK, At
<1>2. raced \subseteq raced' /\ \A x \in Known : x # role => x \in Known'
  BY <1>1 DEF Known, SystemRoles
<1>3. ASSUME NEW u \in Users
      PROVE  users[u].role \in Known => users[u].role \in Known'
  BY <1>1, <1>2 DEF Known
<1>4. ASSUME NEW s \in Requests, req[s].pc \in {"createUser", "setRole"}, req[s].role \in Known
      PROVE  req[s].role \in Known'
  <2>1. CASE req[s].role = role
    <3>1. Assigning(role)
      BY <1>4, <2>1 DEF Assigning
    <3>. QED  BY <1>1, <2>1, <3>1 DEF Known
  <2>2. CASE req[s].role # role
    BY <1>2, <1>4, <2>2
  <2>. QED  BY <2>1, <2>2
<1>5. \A u \in Users :
        /\ users'[u] = [role |-> users'[u].role, deleted |-> users'[u].deleted]
        /\ users'[u].deleted \in BOOLEAN
        /\ users'[u].role = users[u].role
        /\ IsUser(u)' => IsUser(u)
  BY <1>1 DEF StaffInv, IsUser, NoUser
<1>6. users' = [u \in Users |-> users'[u]]
  BY <1>1 DEF StaffInv
<1>. QED  BY <1>1, <1>2, <1>3, <1>4, <1>5, <1>6, StaffWrites

\* The role a request may assign is known.
LEMMA MayAssignKnown ==
  ASSUME NEW role, MayAssign(role)
  PROVE  role \in Known
BY DEF MayAssign, Known

LEMMA RoleUpdateStarts ==
  ASSUME StaffInv, NEW r \in Requests, NEW u \in Users, NEW role, NEW counted,
         UpdateRole(r, counted, u, role), counted # None => Cardinality(counted) > 1
  PROVE  StaffInv'
<1>. PICK q : q = [pc |-> "setRole", user |-> u, role |-> role, counted |-> counted]
  OBVIOUS
<1>1. req' = [req EXCEPT ![r] = q] /\ UNCHANGED staffVars /\ role \in Known
  BY MayAssignKnown DEF UpdateRole, Become
<1>2. q.pc = "setRole" /\ q.user = u /\ q.role = role /\ q.counted = counted
  OBVIOUS
<1>3. StaffRequestOK(q)
  BY <1>1, <1>2 DEF StaffRequestOK
<1>. QED  BY <1>1, <1>3, StaffStays

LEMMA SoftDeleteStarts ==
  ASSUME StaffInv, NEW r \in Requests, NEW u \in Users, IsUser(u), NEW counted,
         Become(r, [pc |-> "softDelete", user |-> u, counted |-> counted]),
         UNCHANGED staffVars, counted # None => Cardinality(counted) > 1
  PROVE  StaffInv'
<1>. PICK q : q = [pc |-> "softDelete", user |-> u, counted |-> counted]
  OBVIOUS
<1>1. req' = [req EXCEPT ![r] = q]
  BY DEF Become
<1>2. q.pc = "softDelete" /\ q.user = u /\ q.counted = counted
  OBVIOUS
<1>3. users[u].role \in Known
  BY DEF StaffInv, RolesExist, Known
<1>4. StaffRequestOK(q)
  BY <1>2, <1>3 DEF StaffRequestOK
<1>. QED  BY <1>1, <1>4, StaffStays

LEMMA StaffStep == StaffInv /\ StaffNext => StaffInv'
<1>. SUFFICES ASSUME StaffInv, StaffNext  PROVE StaffInv'
  OBVIOUS
<1>1. ASSUME NEW r \in Requests, CreateUser(r)
      PROVE  StaffInv'
  <2>. PICK u \in Users, role \in SystemRoles \cup CustomRoles :
         /\ MayAssign(role)
         /\ Become(r, [pc |-> "createUser", user |-> u, role |-> role])
         /\ UNCHANGED staffVars
    BY <1>1 DEF CreateUser
  <2>. PICK q : q = [pc |-> "createUser", user |-> u, role |-> role]
    OBVIOUS
  <2>1. req' = [req EXCEPT ![r] = q]
    BY DEF Become
  <2>2. q.pc = "createUser" /\ q.user = u /\ q.role = role
    OBVIOUS
  <2>3. StaffRequestOK(q)
    BY <2>2, MayAssignKnown DEF StaffRequestOK
  <2>. QED  BY <2>1, <2>3, StaffStays
<1>2. ASSUME NEW r \in Requests, UpdateUserRole(r)
      PROVE  StaffInv'
  <2>. PICK u \in Users, role \in SystemRoles \cup CustomRoles :
         IF Demotes(u, role)
         THEN Cardinality(SuperAdmins) > 1 /\ UpdateRole(r, SuperAdmins, u, role)
         ELSE UpdateRole(r, None, u, role)
    BY <1>2 DEF UpdateUserRole
  <2>1. CASE Demotes(u, role)
    <3>. PICK counted : counted = SuperAdmins
      OBVIOUS
    <3>1. UpdateRole(r, counted, u, role) /\ Cardinality(counted) > 1
      BY <2>1
    <3>. QED  BY <3>1, RoleUpdateStarts
  <2>2. CASE ~Demotes(u, role)
    BY <2>2, RoleUpdateStarts
  <2>. QED  BY <2>1, <2>2
<1>3. ASSUME NEW r \in Requests, SoftDeleteUser(r)
      PROVE  StaffInv'
  <2>. PICK u \in Users :
         /\ IsUser(u)
         /\ IF u \in SuperAdmins
            THEN /\ Cardinality(LiveSuperAdmins) > 1
                 /\ Become(r, [pc |-> "softDelete", user |-> u, counted |-> LiveSuperAdmins])
            ELSE Become(r, [pc |-> "softDelete", user |-> u, counted |-> None])
         /\ UNCHANGED staffVars
    BY <1>3 DEF SoftDeleteUser
  <2>1. CASE u \in SuperAdmins
    <3>. PICK counted : counted = LiveSuperAdmins
      OBVIOUS
    <3>1. /\ Become(r, [pc |-> "softDelete", user |-> u, counted |-> counted])
          /\ Cardinality(counted) > 1
      BY <2>1
    <3>. QED  BY <3>1, SoftDeleteStarts
  <2>2. CASE u \notin SuperAdmins
    BY <2>2, SoftDeleteStarts
  <2>. QED  BY <2>1, <2>2
<1>4. ASSUME NEW r \in Requests, RestoreUser(r)
      PROVE  StaffInv'
  <2>. PICK u \in Users : /\ users[u].deleted
                          /\ Become(r, [pc |-> "restore", user |-> u])
                          /\ UNCHANGED staffVars
    BY <1>4 DEF RestoreUser
  <2>. PICK q : q = [pc |-> "restore", user |-> u]
    OBVIOUS
  <2>1. req' = [req EXCEPT ![r] = q]
    BY DEF Become
  <2>2. q.pc = "restore" /\ q.user = u
    OBVIOUS
  <2>3. users[u].role \in Known
    <3>1. IsUser(u)
      BY DEF IsUser, NoUser
    <3>. QED  BY <3>1 DEF StaffInv, RolesExist, Known
  <2>4. StaffRequestOK(q)
    BY <2>2, <2>3 DEF StaffRequestOK
  <2>. QED  BY <2>1, <2>4, StaffStays
<1>5. ASSUME NEW r \in Requests, DeleteRole(r)
      PROVE  StaffInv'
  <2>. PICK role \in CustomRoles :
         /\ {u \in Users : users[u].role = role} = {}
         /\ Become(r, [pc |-> "deleteRole", role |-> role])
         /\ UNCHANGED staffVars
    BY <1>5 DEF DeleteRole, MayDelete
  <2>. PICK q : q = [pc |-> "deleteRole", role |-> role]
    OBVIOUS
  <2>1. req' = [req EXCEPT ![r] = q]
    BY DEF Become
  <2>2. q.pc = "deleteRole" /\ q.role = role
    OBVIOUS
  <2>3. StaffRequestOK(q)
    BY <2>2 DEF StaffRequestOK
  <2>. QED  BY <2>1, <2>3, StaffStays
<1>6. ASSUME NEW r \in Requests, InsertUser(r)
      PROVE  StaffInv'
  <2>1. CASE IsUser(req[r].user)
    <3>1. req' = [req EXCEPT ![r] = Idle] /\ UNCHANGED staffVars /\ Idle.pc = "idle"
      BY <1>6, <2>1 DEF InsertUser, Finish, Become, Idle
    <3>2. StaffRequestOK(Idle)
      BY <3>1 DEF StaffRequestOK
    <3>. QED  BY <3>1, <3>2, StaffStays
  <2>2. CASE ~IsUser(req[r].user)
    <3>. PICK role : role = req[r].role
      OBVIOUS
    <3>. PICK row : row = [NoUser EXCEPT !.role = role]
      OBVIOUS
    <3>1. AssignRole(r, row) /\ req[r].pc = "createUser"
      BY <1>6, <2>2 DEF InsertUser, At
    <3>2. row = [role |-> role, deleted |-> FALSE]
      BY DEF NoUser
    <3>3. row.deleted = FALSE
      BY <3>2
    <3>. QED  BY <3>1, <3>2, <3>3, RoleAssigned
  <2>. QED  BY <2>1, <2>2
<1>7. ASSUME NEW r \in Requests, SetRole(r)
      PROVE  StaffInv'
  <2>. PICK v : v = req[r].user
    OBVIOUS
  <2>. PICK role : role = req[r].role
    OBVIOUS
  <2>. PICK row : row = [users[v] EXCEPT !.role = role]
    OBVIOUS
  <2>1. AssignRole(r, row) /\ req[r].pc = "setRole" /\ v \in Users
    BY <1>7 DEF SetRole, At, StaffInv, StaffRequestOK
  <2>2. /\ users[v] = [role |-> users[v].role, deleted |-> users[v].deleted]
        /\ users[v].deleted \in BOOLEAN
    BY <2>1 DEF StaffInv
  <2>3. row = [role |-> role, deleted |-> users[v].deleted]
    BY <2>2
  <2>4. row.deleted = users[v].deleted
    BY <2>3
  <2>. QED  BY <2>1, <2>2, <2>3, <2>4, RoleAssigned
<1>8. ASSUME NEW r \in Requests, SoftDelete(r) \/ Restore(r)
      PROVE  StaffInv'
  <2>1. CASE SoftDelete(r)
    BY <2>1, Marked DEF SoftDelete, At
  <2>2. CASE Restore(r)
    BY <2>2, Marked DEF Restore, At
  <2>. QED  BY <1>8, <2>1, <2>2
<1>9. ASSUME NEW r \in Requests, Die(r), UNCHANGED staffVars
      PROVE  StaffInv'
  <2>1. req' = [req EXCEPT ![r] = Idle] /\ Idle.pc = "idle"
    BY <1>9 DEF Die, Finish, Become, Idle
  <2>2. StaffRequestOK(Idle)
    BY <2>1 DEF StaffRequestOK
  <2>. QED  BY <1>9, <2>1, <2>2, StaffStays
<1>10. ASSUME CreateRole  PROVE StaffInv'
  <2>1. roles \subseteq roles' /\ UNCHANGED <<users, raced, req>>
    BY <1>10 DEF CreateRole
  <2>2. Known \subseteq Known'
    BY <2>1 DEF Known, SystemRoles
  <2>3. \A r \in Requests : StaffRequestOK(req[r])'
    BY <2>1, <2>2 DEF StaffInv, StaffRequestOK
  <2>4. RolesExist'
    BY <2>1 DEF StaffInv, RolesExist, IsUser, SystemRoles
  <2>. QED  BY <2>1, <2>3, <2>4 DEF StaffInv, Slotted
<1>. QED
  BY <1>1, <1>2, <1>3, <1>4, <1>5, <1>6, <1>7, <1>8, <1>9, <1>10, RoleRemoved DEF StaffNext

\* What the last super admin goes under
LastGoes ==
  LiveSuperAdmins # {} /\ LiveSuperAdmins' = {} =>
    \E r \in Requests :
      /\ req'[r] # req[r] /\ req[r].pc \in {"setRole", "softDelete"}
      /\ req[r].counted # None => ~(req[r].counted \subseteq LiveSuperAdmins)

\* One account is written, by a request that had counted more than one.
LEMMA OneGoes ==
  ASSUME StaffInv, NEW r \in Requests, req[r].pc \in {"setRole", "softDelete"}, Finish(r),
         \A u \in Users : u # req[r].user => users'[u] = users[u]
  PROVE  LastGoes
<1>. PICK v : v = req[r].user
  OBVIOUS
<1>. PICK counted : counted = req[r].counted
  OBVIOUS
<1>. PICK live : live = LiveSuperAdmins
  OBVIOUS
<1>1. /\ counted # None => Cardinality(counted) > 1
      /\ req'[r] # req[r]
  BY Gone DEF StaffInv, StaffRequestOK
<1>2. ASSUME LiveSuperAdmins' = {}
      PROVE  live \subseteq {v}
  <2>1. ASSUME NEW u \in live, u # v  PROVE u \in LiveSuperAdmins'
    <3>1. u \in Users /\ users'[u] = users[u]
      BY <2>1 DEF LiveSuperAdmins, SuperAdmins
    <3>. QED  BY <2>1, <3>1 DEF LiveSuperAdmins, SuperAdmins
  <2>. QED  BY <1>2, <2>1
<1>3. ASSUME counted \subseteq {v}  PROVE ~(Cardinality(counted) > 1)
  <2>1. counted = {} \/ counted = {v}
    BY <1>3
  <2>2. Cardinality({}) = 0 /\ Cardinality({v}) = 1
    BY FS_EmptySet, FS_Singleton
  <2>. QED  BY <2>1, <2>2
<1>4. LiveSuperAdmins' = {} => (counted # None => ~(counted \subseteq live))
  BY <1>1, <1>2, <1>3
<1>. QED  BY <1>1, <1>4 DEF LastGoes

\* Whoever stays a live super admin keeps the formula.
LEMMA LiveStay ==
  ASSUME \A u \in LiveSuperAdmins : users'[u] = users[u] \/
                                    (users'[u].role = users[u].role /\ ~users'[u].deleted)
  PROVE  LastGoes
<1>1. LiveSuperAdmins \subseteq LiveSuperAdmins'
  BY DEF LiveSuperAdmins, SuperAdmins
<1>. QED  BY <1>1 DEF LastGoes

LEMMA StaffStepKeepsLast == StaffInv /\ StaffNext => LastGoes
<1>. SUFFICES ASSUME StaffInv, StaffNext  PROVE LastGoes
  OBVIOUS
<1>1. ASSUME UNCHANGED users  PROVE LastGoes
  BY <1>1, LiveStay
<1>2. ASSUME NEW r \in Requests, SetRole(r)  PROVE LastGoes
  <2>1. /\ req[r].pc = "setRole" /\ Finish(r)
        /\ users' = [users EXCEPT ![req[r].user] = [users[req[r].user] EXCEPT !.role = req[r].role]]
    BY <1>2 DEF SetRole, AssignRole, At
  <2>2. \A u \in Users : u # req[r].user => users'[u] = users[u]
    BY <2>1 DEF StaffInv
  <2>. QED  BY <2>1, <2>2, OneGoes
<1>3. ASSUME NEW r \in Requests, SoftDelete(r)  PROVE LastGoes
  <2>1. /\ req[r].pc = "softDelete" /\ Finish(r)
        /\ users' = [users EXCEPT ![req[r].user].deleted = TRUE]
    BY <1>3 DEF SoftDelete, At
  <2>2. \A u \in Users : u # req[r].user => users'[u] = users[u]
    BY <2>1 DEF StaffInv
  <2>. QED  BY <2>1, <2>2, OneGoes
<1>4. ASSUME NEW r \in Requests, InsertUser(r)  PROVE LastGoes
  <2>1. CASE IsUser(req[r].user)
    BY <1>1, <1>4, <2>1 DEF InsertUser, staffVars
  <2>2. CASE ~IsUser(req[r].user)
    <3>. PICK row : row = [NoUser EXCEPT !.role = req[r].role]
      OBVIOUS
    <3>1. users' = [users EXCEPT ![req[r].user] = row]
      BY <1>4, <2>2 DEF InsertUser, AssignRole
    <3>2. req[r].user \notin LiveSuperAdmins
      <4>1. NoUser.role = None
        BY DEF NoUser
      <4>. QED  BY <2>2, <4>1, StaffAssumption DEF IsUser, LiveSuperAdmins, SuperAdmins
    <3>3. \A u \in LiveSuperAdmins : users'[u] = users[u]
      BY <3>1, <3>2 DEF StaffInv, LiveSuperAdmins, SuperAdmins
    <3>. QED  BY <3>3, LiveStay
  <2>. QED  BY <2>1, <2>2
<1>5. ASSUME NEW r \in Requests, Restore(r)  PROVE LastGoes
  <2>. PICK v : v = req[r].user
    OBVIOUS
  <2>. PICK row : row = [users[v] EXCEPT !.deleted = FALSE]
    OBVIOUS
  <2>1. v \in Users /\ users' = [users EXCEPT ![v] = row]
    BY <1>5 DEF Restore, At, StaffInv, StaffRequestOK
  <2>2. row.role = users[v].role /\ ~row.deleted
    <3>1. users[v] = [role |-> users[v].role, deleted |-> users[v].deleted]
      BY <2>1 DEF StaffInv
    <3>2. row = [role |-> users[v].role, deleted |-> FALSE]
      BY <3>1
    <3>. QED  BY <3>2
  <2>3. \A u \in Users : users'[u] = IF u = v THEN row ELSE users[u]
    BY <2>1 DEF StaffInv
  <2>4. \A u \in LiveSuperAdmins : users'[u] = users[u] \/
                                   (users'[u].role = users[u].role /\ ~users'[u].deleted)
    BY <2>2, <2>3 DEF LiveSuperAdmins, SuperAdmins
  <2>. QED  BY <2>4, LiveStay
<1>6. ASSUME NEW r \in Requests,
             \/ CreateUser(r) \/ UpdateUserRole(r) \/ SoftDeleteUser(r) \/ RestoreUser(r)
             \/ DeleteRole(r) \/ RemoveRole(r) \/ UNCHANGED staffVars
      PROVE  UNCHANGED users
  BY <1>6 DEF CreateUser, UpdateUserRole, UpdateRole, SoftDeleteUser, RestoreUser, DeleteRole,
              MayDelete, RemoveRole, staffVars
<1>7. CASE CreateRole
  BY <1>1, <1>7 DEF CreateRole
<1>. QED  BY <1>1, <1>2, <1>3, <1>4, <1>5, <1>6, <1>7 DEF StaffNext

StaffService == IF service = "staff" THEN StaffInv ELSE StaffInit

LEMMA StaffSettles == StaffService /\ [Next]_vars => StaffService'
<1>. SUFFICES ASSUME StaffService, [Next]_vars  PROVE StaffService'
  OBVIOUS
<1>1. CASE Next
  BY <1>1, ServiceSteps, StaffStep DEF StaffService, StaffInit, staffVars, NoUser
<1>2. CASE UNCHANGED vars
  <2>1. UNCHANGED <<req, users, roles, raced, service>>
    BY <1>2 DEF vars, staffVars
  <2>2. StaffInv' <=> StaffInv
    BY <2>1 DEF StaffInv, StaffRequestOK, Known, SystemRoles, Slotted, RolesExist, IsUser, NoUser
  <2>. QED  BY <2>1, <2>2 DEF StaffService, StaffInit, NoUser
<1>. QED  BY <1>1, <1>2

LEMMA StaffKept == Spec => []StaffService
<1>1. Init => StaffService
  BY StaffStart DEF Init, StaffService
<1>. QED  BY <1>1, StaffSettles, PTL DEF Spec

\* Every account has a role that exists (AdminService.deleteRole,
\* updateUserRole, createUser), but for the named race.
THEOREM RolesStay == Spec => []RolesExist
<1>1. StaffService => RolesExist
  <2>1. StaffInit => \A u \in Users : users[u].role = "SUPER_ADMIN" \/ ~IsUser(u)
    <3>1. [NoUser EXCEPT !.role = "SUPER_ADMIN"].role = "SUPER_ADMIN"
      BY DEF NoUser
    <3>. QED  BY <3>1 DEF StaffInit, IsUser
  <2>2. StaffInit => RolesExist
    BY <2>1 DEF RolesExist, SystemRoles
  <2>. QED  BY <2>2 DEF StaffService, StaffInv
<1>. QED  BY <1>1, StaffKept, PTL

\* The last super admin goes only under a request that did not count, or
\* counted somebody who is not there (AdminService.updateUserRole,
\* softDeleteUser).
THEOREM LastSuperAdminStays == Spec => LastSuperAdmin
<1>1. StaffService /\ [Next]_vars => [LastGoes]_<<users, req>>
  <2>. SUFFICES ASSUME StaffService, [Next]_vars  PROVE LastGoes
    OBVIOUS
  <2>1. CASE Next /\ service = "staff"
    BY <2>1, ServiceSteps, StaffStepKeepsLast DEF StaffService
  <2>2. CASE Next /\ service # "staff"
    BY <2>2, ServiceSteps, LiveStay DEF staffVars
  <2>3. CASE UNCHANGED vars
    BY <2>3, LiveStay DEF vars, staffVars
  <2>. QED  BY <2>1, <2>2, <2>3
<1>. QED  BY <1>1, StaffKept, PTL DEF Spec, LastSuperAdmin, LastGoes

-----------------------------------------------------------------------------
(* Sessions *)

SessionsService == IF service = "sessions" THEN BrowsersInv ELSE SessionsInit

LEMMA SessionsKept == Spec => []SessionsService
<1>1. Init => SessionsService
  BY BrowsersStart DEF Init, SessionsService
<1>2. SessionsService /\ [Next]_vars => SessionsService'
  <2>. SUFFICES ASSUME SessionsService, [Next]_vars  PROVE SessionsService'
    OBVIOUS
  <2>1. CASE Next
    <3>1. SessionsInit /\ UNCHANGED sessionVars => SessionsInit'
      BY DEF SessionsInit, sessionVars, Tokens, NoToken
    <3>. QED  BY <2>1, <3>1, ServiceSteps, BrowsersStep DEF SessionsService
  <2>2. CASE UNCHANGED vars
    <3>1. UNCHANGED <<req, tokens, cookie, access, accountStatus, revocations, service>>
      BY <2>2 DEF vars, sessionVars
    <3>2. SessionsInit => SessionsInit'
      BY <3>1 DEF SessionsInit, Tokens, NoToken
    <3>3. BrowsersInv => BrowsersInv'
      <4>1. SessionsInv => SessionsInv'
        BY <3>1 DEF SessionsInv, SessionTypeOK, TokenRow, SessionRequestOK, ExchangeOK, Issuing,
                    CheckedOK, RotationOnce, RevokedForGood, Live, At, Tokens, Idle
      <4>2. LosersInv => LosersInv'
        BY <3>1, <4>1 DEF LosersInv, SingleFlight, RefreshingIn, InFlight, ByOK,
                          LosesOnlyToOthers, At, Tokens, Idle
      <4>3. CookieInv => CookieInv'
        BY <3>1, <4>1 DEF CookieInv, HoldersOK, Presented, FreshOK, CookieIsLive, At, Tokens
      <4>. QED  BY <4>2, <4>3 DEF BrowsersInv
    <3>. QED  BY <3>1, <3>2, <3>3 DEF SessionsService
  <2>. QED  BY <2>1, <2>2
<1>. QED  BY <1>1, <1>2, PTL DEF Spec

\* What the rows say before the first session
LEMMA NoSessions ==
  ASSUME SessionsInit
  PROVE  /\ \A n \in Tokens : tokens[n].state = "none" /\ tokens[n].parent = None
         /\ \A b \in Browsers : cookie[b] = None
BY DEF SessionsInit, NoToken

\* A refresh token is exchanged for one other (AuthService.refresh).
THEOREM RotatedOnce == Spec => []RotationOnce
<1>1. SessionsService => RotationOnce
  BY NoSessions DEF SessionsService, BrowsersInv, LosersInv, SessionsInv, RotationOnce
<1>. QED  BY <1>1, SessionsKept, PTL

\* A session does not survive the revocation of all of them (updateUserStatus,
\* updateUserRole, resetPassword, changePassword), but across it.
THEOREM RevokedStaysRevoked == Spec => []RevokedForGood
<1>1. SessionsService => RevokedForGood
  BY NoSessions DEF SessionsService, BrowsersInv, LosersInv, SessionsInv, RevokedForGood, Live
<1>. QED  BY <1>1, SessionsKept, PTL

\* A browser is left with a used token only while the answer that replaces it
\* is on its way, or when it is lost (AuthService.refresh).
THEOREM CookieStaysLive == Spec => []CookieIsLive
<1>1. SessionsService => CookieIsLive
  BY NoSessions DEF SessionsService, BrowsersInv, CookieInv, CookieIsLive
<1>. QED  BY <1>1, SessionsKept, PTL

\* The shared refresh of a tab does not lose against another of that tab
\* (refreshPromise of apps/web).
THEOREM NeverLosesToItself == Spec => [](service = "sessions" => LosesOnlyToOthers)
<1>1. SessionsService => (service = "sessions" => LosesOnlyToOthers)
  BY DEF SessionsService, BrowsersInv, LosersInv
<1>. QED  BY <1>1, SessionsKept, PTL

-----------------------------------------------------------------------------
(* Challenges: a reward on its way has seen the submission it is for, and   *)
(* no score above the best it will write.                                   *)

\* A finite set of numbers has a greatest: the one below the fewest others.
LEMMA GreatestOf ==
  ASSUME NEW S, S \subseteq Nat, S # {}, IsFiniteSet(S)
  PROVE  Max(S) \in S /\ \A y \in S : Max(S) >= y
<1>. PICK above : above = [x \in S |-> {y \in S : y > x}]
  OBVIOUS
<1>. PICK T : T = {above[x] : x \in S}
  OBVIOUS
<1>1. T \subseteq SUBSET S /\ T # {}
  OBVIOUS
<1>2. \E U \in T : \A V \in T : ~(<<V, U>> \in StrictSubsetOrdering(S))
  <2>1. T \subseteq FiniteSubsetsOf(S)
    BY <1>1, FS_FiniteSubsetsOfFinite
  <2>. QED  BY <1>1, <2>1, FS_StrictSubsetOrderingWellFounded, WFMin
<1>3. PICK U \in T : \A V \in T : V \subseteq U => V = U
  BY <1>1, <1>2 DEF StrictSubsetOrdering
<1>4. PICK m \in S : U = above[m]
  OBVIOUS
<1>5. ASSUME NEW y \in S, y > m  PROVE FALSE
  <2>1. \A z \in S : z > y => z > m
    BY <1>5
  <2>2. above[y] \subseteq above[m]
    BY <2>1
  <2>3. y \in above[m] /\ y \notin above[y]
    BY <1>5
  <2>. QED  BY <1>3, <1>4, <2>2, <2>3
<1>6. \E x \in S : \A y \in S : x >= y
  BY <1>5
<1>. QED  BY <1>6 DEF Max

\* _max of the scores
LEMMA BestIsBest ==
  ASSUME NEW rows, rows \subseteq Learners \X Scores, rows # {}
  PROVE  BestOf(rows) \in Nat /\ \A row \in rows : row[2] <= BestOf(rows)
<1>. PICK S : S = {s[2] : s \in rows}
  OBVIOUS
<1>1. S \subseteq Scores /\ S # {} /\ \A row \in rows : row[2] \in S
  OBVIOUS
<1>2. S \subseteq Nat /\ IsFiniteSet(S)
  BY <1>1, ChallengeAssumption, FS_Subset
<1>3. Max(S) \in S /\ \A y \in S : Max(S) >= y
  BY <1>1, <1>2, GreatestOf
<1>4. BestOf(rows) = Max(S)
  BY DEF BestOf
<1>. QED  BY <1>1, <1>2, <1>3, <1>4

ChallengeRequestOK(q) ==
  \/ q = Idle
  \/ q.pc = "aggregate" /\ q.user \in Learners /\ <<q.user, q.score>> \in submissions
  \/ /\ q.pc = "reward" /\ q.user \in Learners /\ q.best \in Nat
     /\ q.seen \subseteq submissions /\ \A row \in q.seen : row[2] <= q.best

ChallengesInv ==
  /\ Slotted
  /\ submissions \subseteq Learners \X Scores
  /\ points \in [Learners -> Nat]
  /\ \A r \in Requests : ChallengeRequestOK(req[r])
  /\ TopIsRewarded

LEMMA ChallengesStart == InitSlots /\ ChallengesInit => ChallengesInv
BY AllIdle DEF ChallengesInit, ChallengesInv, ChallengeRequestOK, TopIsRewarded

LEMMA ChallengesStep == ChallengesInv /\ ChallengesNext => ChallengesInv'
<1>. SUFFICES ASSUME ChallengesInv, NEW r \in Requests,
                     CreateSubmission(r) \/ AggregateBest(r) \/ Reward(r) \/ LoseReward(r)
              PROVE  ChallengesInv'
  BY DEF ChallengesNext
<1>0. Slotted /\ ChallengeRequestOK(req[r]) /\ Idle.pc = "idle"
  BY DEF ChallengesInv, Idle
<1>1. CASE CreateSubmission(r)
  <2>. PICK u \in Learners, score \in Scores :
         /\ At(r, "idle")
         /\ submissions' = submissions \cup {<<u, score>>}
         /\ IF score >= UnlockScore
            THEN Become(r, [pc |-> "aggregate", user |-> u, score |-> score])
            ELSE UNCHANGED req
         /\ UNCHANGED <<points, entitled, unrewarded>>
    BY <1>1 DEF CreateSubmission
  <2>1. req[r] = Idle
    BY <1>0 DEF ChallengeRequestOK, At
  <2>2. ASSUME NEW q, ChallengeRequestOK(q)  PROVE ChallengeRequestOK(q)'
    BY <2>2 DEF ChallengeRequestOK, Idle
  <2>3. CASE score >= UnlockScore
    <3>. PICK q : q = [pc |-> "aggregate", user |-> u, score |-> score]
      OBVIOUS
    <3>1. req' = [req EXCEPT ![r] = q] /\ q.pc = "aggregate" /\ q.user = u /\ q.score = score
      BY <2>3 DEF Become
    <3>2. Slotted' /\ req'[r] = q /\ \A s \in Requests : s # r => req'[s] = req[s]
      BY <1>0, <3>1, Written
    <3>3. InFlight(r)' /\ \A s \in Requests : InFlight(s) => s # r /\ req'[s] = req[s] /\ InFlight(s)'
      BY <1>0, <2>1, <3>1, <3>2 DEF InFlight, Idle
    <3>4. TopIsRewarded'
      <4>1. ASSUME NEW row \in submissions', row[2] >= UnlockScore
            PROVE  \/ row[1] \in entitled' /\ points'[row[1]] >= row[2]
                   \/ row[1] \in unrewarded'
                   \/ \E s \in Requests : InFlight(s)' /\ req'[s].user = row[1]
        <5>1. CASE row \in submissions
          BY <3>3, <4>1, <5>1 DEF ChallengesInv, TopIsRewarded
        <5>2. CASE row = <<u, score>>
          BY <3>1, <3>2, <3>3, <5>2
        <5>. QED  BY <4>1, <5>1, <5>2
      <4>. QED  BY <4>1 DEF TopIsRewarded
    <3>5. ASSUME NEW s \in Requests  PROVE ChallengeRequestOK(req[s])'
      <4>1. CASE s = r
        BY <3>1, <3>2, <4>1 DEF ChallengeRequestOK
      <4>2. CASE s # r
        <5>. PICK p : p = req[s]
          OBVIOUS
        <5>1. ChallengeRequestOK(p) /\ req'[s] = p
          BY <3>2, <4>2 DEF ChallengesInv
        <5>2. ChallengeRequestOK(p)'
          BY <2>2, <5>1
        <5>. QED  BY <5>1, <5>2 DEF ChallengeRequestOK, Idle
      <4>. QED  BY <4>1, <4>2
    <3>. QED  BY <3>2, <3>4, <3>5 DEF ChallengesInv
  <2>4. CASE ~(score >= UnlockScore)
    <3>1. UNCHANGED req
      BY <2>4
    <3>2. TopIsRewarded'
      <4>1. ASSUME NEW row \in submissions', row[2] >= UnlockScore  PROVE row \in submissions
        BY <2>4, <4>1
      <4>. QED  BY <3>1, <4>1 DEF ChallengesInv, TopIsRewarded, InFlight
    <3>3. \A s \in Requests : ChallengeRequestOK(req[s])'
      BY <3>1 DEF ChallengesInv, ChallengeRequestOK, Idle
    <3>. QED  BY <3>1, <3>2, <3>3 DEF ChallengesInv, Slotted
  <2>. QED  BY <2>3, <2>4
<1>2. CASE AggregateBest(r)
  <2>. PICK best : best = BestOf(submissions)
    OBVIOUS
  <2>. PICK u : u = req[r].user
    OBVIOUS
  <2>. PICK q : q = [pc |-> "reward", user |-> u, score |-> req[r].score, best |-> best,
                     seen |-> submissions]
    OBVIOUS
  <2>1. req' = [req EXCEPT ![r] = q] /\ At(r, "aggregate")
        /\ UNCHANGED <<submissions, points, entitled, unrewarded>>
    BY <1>2 DEF AggregateBest, Found, Become, challengeVars
  <2>2. u \in Learners /\ submissions # {} /\ InFlight(r)
    BY <1>0, <2>1 DEF ChallengeRequestOK, At, InFlight
  <2>3. best \in Nat /\ \A row \in submissions : row[2] <= best
    BY <2>2, BestIsBest DEF ChallengesInv
  <2>4. q.pc = "reward" /\ q.user = u /\ q.best = best /\ q.seen = submissions /\ q # Idle
    BY <1>0
  <2>5. Slotted' /\ req'[r] = q /\ \A s \in Requests : s # r => req'[s] = req[s]
    BY <1>0, <2>1, Written
  <2>6. \A s \in Requests : InFlight(s) => InFlight(s)' /\ req'[s].user = req[s].user
    BY <2>4, <2>5 DEF InFlight, Idle
  <2>7. TopIsRewarded'
    BY <2>1, <2>6 DEF ChallengesInv, TopIsRewarded
  <2>8. ASSUME NEW s \in Requests  PROVE ChallengeRequestOK(req[s])'
    <3>1. ChallengeRequestOK(q)
      BY <2>2, <2>3, <2>4 DEF ChallengeRequestOK
    <3>2. ChallengeRequestOK(req'[s])
      BY <2>5, <3>1 DEF ChallengesInv
    <3>. QED  BY <2>1, <3>2 DEF ChallengeRequestOK, Idle
  <2>. QED  BY <2>1, <2>5, <2>7, <2>8 DEF ChallengesInv
<1>3. CASE Reward(r)
  <2>. PICK u : u = req[r].user
    OBVIOUS
  <2>. PICK best : best = req[r].best
    OBVIOUS
  <2>1. /\ points' = [points EXCEPT ![u] = best] /\ entitled' = entitled \cup {u}
        /\ unrewarded' = IF \E row \in submissions \ req[r].seen : row[1] = u /\ row[2] > best
                         THEN unrewarded \cup {u} ELSE unrewarded \ {u}
        /\ Finish(r) /\ UNCHANGED submissions /\ At(r, "reward")
    BY <1>3 DEF Reward
  <2>2. u \in Learners /\ best \in Nat /\ \A row \in req[r].seen : row[2] <= best
    BY <1>0, <2>1 DEF ChallengeRequestOK, At
  <2>3. /\ Slotted' /\ req'[r] = Idle /\ \A s \in Requests : s # r => req'[s] = req[s]
    BY <1>0, <2>1, Gone
  <2>4. points' \in [Learners -> Nat] /\ points'[u] = best
        /\ \A v \in Learners : v # u => points'[v] = points[v]
    BY <2>1, <2>2 DEF ChallengesInv
  <2>5. TopIsRewarded'
    <3>1. ASSUME NEW row \in submissions, row[2] >= UnlockScore
          PROVE  \/ row[1] \in entitled' /\ points'[row[1]] >= row[2]
                 \/ row[1] \in unrewarded'
                 \/ \E s \in Requests : InFlight(s)' /\ req'[s].user = row[1]
      <4>1. row[1] \in Learners /\ row[2] \in Nat
        BY ChallengeAssumption DEF ChallengesInv
      <4>2. CASE row[1] = u
        <5>1. CASE row[2] <= best
          BY <2>1, <2>2, <2>4, <4>1, <4>2, <5>1
        <5>2. CASE row[2] > best
          <6>1. row \in submissions \ req[r].seen
            BY <2>2, <4>1, <5>2
          <6>. QED  BY <2>1, <4>2, <5>2, <6>1
        <5>. QED  BY <2>2, <4>1, <5>1, <5>2
      <4>3. CASE row[1] # u
        <5>1. \/ row[1] \in entitled /\ points[row[1]] >= row[2]
              \/ row[1] \in unrewarded
              \/ \E s \in Requests : InFlight(s) /\ req[s].user = row[1]
          BY <3>1 DEF ChallengesInv, TopIsRewarded
        <5>2. \A s \in Requests : req[s].user = row[1] => s # r /\ req'[s] = req[s]
          BY <2>3, <4>3
        <5>3. \A s \in Requests : InFlight(s) /\ req[s].user = row[1] => InFlight(s)'
          BY <5>2 DEF InFlight, Idle
        <5>4. row[1] \in unrewarded => row[1] \in unrewarded'
          BY <2>1, <4>3
        <5>5. row[1] \in entitled => row[1] \in entitled'
          BY <2>1
        <5>6. points'[row[1]] = points[row[1]]
          BY <2>4, <4>1, <4>3
        <5>. QED  BY <5>1, <5>2, <5>3, <5>4, <5>5, <5>6
      <4>. QED  BY <4>2, <4>3
    <3>. QED  BY <2>1, <3>1 DEF TopIsRewarded
  <2>6. ASSUME NEW s \in Requests  PROVE ChallengeRequestOK(req[s])'
    <3>1. ChallengeRequestOK(req'[s])
      BY <2>3 DEF ChallengesInv, ChallengeRequestOK
    <3>. QED  BY <2>1, <3>1 DEF ChallengeRequestOK, Idle
  <2>. QED  BY <2>1, <2>3, <2>4, <2>5, <2>6 DEF ChallengesInv
<1>4. CASE LoseReward(r)
  <2>1. /\ Finish(r) /\ unrewarded' = unrewarded \cup {req[r].user}
        /\ UNCHANGED <<submissions, points, entitled>>
    BY <1>4 DEF LoseReward, Die
  <2>2. /\ Slotted' /\ req'[r] = Idle /\ \A s \in Requests : s # r => req'[s] = req[s]
    BY <1>0, <2>1, Gone
  <2>3. TopIsRewarded'
    <3>1. \A s \in Requests : InFlight(s) => req[s].user \in unrewarded' \/
                                             (InFlight(s)' /\ req'[s].user = req[s].user)
      BY <2>1, <2>2 DEF InFlight, Idle
    <3>. QED  BY <2>1, <3>1 DEF ChallengesInv, TopIsRewarded
  <2>4. ASSUME NEW s \in Requests  PROVE ChallengeRequestOK(req[s])'
    <3>1. ChallengeRequestOK(req'[s])
      BY <2>2 DEF ChallengesInv, ChallengeRequestOK
    <3>. QED  BY <2>1, <3>1 DEF ChallengeRequestOK, Idle
  <2>. QED  BY <2>1, <2>2, <2>3, <2>4 DEF ChallengesInv
<1>. QED  BY <1>1, <1>2, <1>3, <1>4

ChallengesService == IF service = "challenges" THEN ChallengesInv ELSE ChallengesInit

\* Whoever reached the unlock score has the course, and points no lower than
\* any such score (ChallengesService.submit), but for the named races.
THEOREM TopStaysRewarded == Spec => []TopIsRewarded
<1>1. Init => ChallengesService
  BY ChallengesStart DEF Init, ChallengesService
<1>2. ChallengesService /\ [Next]_vars => ChallengesService'
  <2>. SUFFICES ASSUME ChallengesService, [Next]_vars  PROVE ChallengesService'
    OBVIOUS
  <2>1. CASE Next
    BY <2>1, ServiceSteps, ChallengesStep DEF ChallengesService, ChallengesInit, challengeVars
  <2>2. CASE UNCHANGED vars
    <3>1. UNCHANGED <<req, submissions, points, entitled, unrewarded, service>>
      BY <2>2 DEF vars, challengeVars
    <3>2. ChallengesInv' <=> ChallengesInv
      BY <3>1 DEF ChallengesInv, ChallengeRequestOK, Slotted, TopIsRewarded, InFlight, Idle
    <3>. QED  BY <3>1, <3>2 DEF ChallengesService, ChallengesInit
  <2>. QED  BY <2>1, <2>2
<1>3. ChallengesService => TopIsRewarded
  BY DEF ChallengesService, ChallengesInv, ChallengesInit, TopIsRewarded
<1>. QED  BY <1>1, <1>2, <1>3, PTL DEF Spec


-----------------------------------------------------------------------------
(* Codes and links *)

CodesService ==
  CASE service = "codes" -> PhoneInv
    [] service = "links" -> LinksInv
    [] OTHER -> CodesInit

LEMMA CodesKept == Spec => []CodesService
<1>1. Init => CodesService
  BY PhoneStart, LinksStart DEF Init, CodesService
<1>2. CodesService /\ [Next]_vars => CodesService'
  <2>1. ASSUME CodesService, Next  PROVE CodesService'
    <3>1. /\ service' = service
          /\ IF service = "codes" THEN CodesNext
             ELSE IF service = "links" THEN LinksNext ELSE UNCHANGED codeVars
      BY <2>1, ServiceSteps
    <3>2. CASE service = "codes"
      BY <2>1, <3>1, <3>2, PhoneStep DEF CodesService
    <3>3. CASE service = "links"
      BY <2>1, <3>1, <3>3, LinksStep DEF CodesService
    <3>4. CASE service \notin {"codes", "links"}
      <4>1. UNCHANGED <<sent, registered, clock>> /\ CodesInit
        BY <2>1, <3>1, <3>4 DEF CodesService, codeVars
      <4>2. CodesInit'
        BY <4>1 DEF CodesInit
      <4>. QED  BY <3>1, <3>4, <4>2 DEF CodesService
    <3>. QED  BY <3>2, <3>3, <3>4
  <2>2. ASSUME CodesService, UNCHANGED vars  PROVE CodesService'
    <3>1. UNCHANGED <<req, sent, registered, clock, service>>
      BY <2>2 DEF vars, codeVars
    <3>2. /\ PhoneInv => PhoneInv'
          /\ LinksInv => LinksInv'
          /\ CodesInit => CodesInit'
      <4>1. SecretsOK => SecretsOK'
        BY <3>1 DEF SecretsOK, Slotted, RowsOK, RequestOK, Created, Over, Valid, NewestOnly
      <4>2. /\ Recent' = Recent /\ Coming' = Coming /\ CodeRows' = CodeRows
            /\ Replacing' = Replacing
            /\ \A c : /\ Waiting("increment", c)' = Waiting("increment", c)
                      /\ Waiting("consume", c)' = Waiting("consume", c)
                      /\ WindowBounded(c)' <=> WindowBounded(c)
        BY <3>1 DEF Recent, Coming, CodeRows, Replacing, Requesting, Waiting, At, Created, Within,
                    WindowBounded, SentInWindow
      <4>3. PhoneInv => PhoneInv'
        BY <3>1, <4>1, <4>2 DEF PhoneInv, Created
      <4>4. LinksInv => LinksInv'
        BY <3>1, <4>1, <4>2 DEF LinksInv
      <4>5. CodesInit => CodesInit'
        BY <3>1 DEF CodesInit
      <4>. QED  BY <4>3, <4>4, <4>5
    <3>. QED  BY <2>2, <3>1, <3>2 DEF CodesService
  <2>. QED  BY <2>1, <2>2
<1>. QED  BY <1>1, <1>2, PTL DEF Spec

LEMMA NoSecrets ==
  ASSUME CodesInit
  PROVE  \A c \in Secrets : sent[c].state = "none" /\ sent[c].attempts = 0 /\ sent[c].uses = 0
BY DEF CodesInit, Unsent

\* Of two valid codes or links the older was created under the request for the
\* newer (AuthService.requestOtp, forgotPassword).
THEOREM NewestStays == Spec => []NewestOnly
<1>1. CodesService => NewestOnly
  <2>1. (PhoneInv \/ LinksInv) => NewestOnly
    BY DEF PhoneInv, LinksInv, SecretsOK, RowsOK
  <2>2. CodesInit => NewestOnly
    BY NoSecrets DEF NewestOnly, Valid
  <2>. QED  BY <2>1, <2>2 DEF CodesService
<1>. QED  BY <1>1, CodesKept, PTL

\* A code is guessed at no oftener than the limit and the requests in flight
\* together allow (AuthService.verifyOtp).
THEOREM GuessesEnd == Spec => []AttemptsBounded
<1>1. CodesService => AttemptsBounded
  <2>. SUFFICES ASSUME CodesService, NEW c \in Secrets
                PROVE  sent[c].attempts <= OTP_MAX_ATTEMPTS + Most - 1
    BY DEF AttemptsBounded, Most
  <2>1. CASE PhoneInv
    <3>1. sent[c].attempts + Cardinality(Waiting("increment", c)) <= OTP_MAX_ATTEMPTS + Most - 1
      BY <2>1 DEF PhoneInv
    <3>2. sent[c].attempts \in Nat
      BY <2>1, FieldTypes DEF PhoneInv
    <3>. QED  BY <3>1, <3>2, WaitingFinite, SomeRequests, CodeAssumption
  <2>2. CASE LinksInv \/ CodesInit
    <3>1. sent[c].attempts = 0
      BY <2>2, NoSecrets DEF LinksInv
    <3>. QED  BY <3>1, SomeRequests, CodeAssumption
  <2>. QED  BY <2>1, <2>2 DEF CodesService
<1>. QED  BY <1>1, CodesKept, PTL

\* No window holds more codes of a phone than the cap and the requests in
\* flight together allow (AuthService.requestOtp).
THEOREM CodesCapped == Spec => []CodesBounded
<1>1. CodesService => CodesBounded
  BY DEF CodesService, PhoneInv, CodesBounded, Created
<1>. QED  BY <1>1, CodesKept, PTL

\* A link resets the password once; a code signs in at most once for each
\* request in flight (AuthService.resetPassword, verifyOtp).
THEOREM SecretsUsedOnce == Spec => []UsedOnce
<1>1. CodesService => UsedOnce
  <2>. SUFFICES ASSUME CodesService, NEW c \in Secrets
                PROVE  sent[c].uses <= IF service = "links" THEN 1 ELSE Most
    BY DEF UsedOnce, Most
  <2>1. CASE service = "codes"
    <3>1. sent[c].uses + Cardinality(Waiting("consume", c)) <= Most /\ sent[c].uses \in Nat
      BY <2>1, FieldTypes DEF CodesService, PhoneInv
    <3>. QED  BY <2>1, <3>1, WaitingFinite, SomeRequests
  <2>2. CASE service = "links"
    BY <2>2 DEF CodesService, LinksInv
  <2>3. CASE service \notin {"codes", "links"}
    <3>1. sent[c].uses = 0
      BY <2>3, NoSecrets DEF CodesService
    <3>. QED  BY <2>3, <3>1, SomeRequests
  <2>. QED  BY <2>1, <2>2, <2>3
<1>. QED  BY <1>1, CodesKept, PTL

\* With fewer requests in flight than the cap on links, the cap is never
\* reached (AuthService.forgotPassword deletes the rows it counts).
THEOREM CapStaysIdle ==
  ASSUME Cardinality(Requests) < RESET_EMAIL_MAX
  PROVE  Spec => []CapNeverReached
<1>1. CodesService => CapNeverReached
  <2>. SUFFICES ASSUME CodesService, service = "links"
                PROVE  Cardinality({c \in CodeRows : Within(c, RESET_EMAIL_WINDOW)})
                         < RESET_EMAIL_MAX
    BY DEF CapNeverReached
  <2>1. Cardinality(CodeRows) + Cardinality(Replacing) <= Most /\ Cardinality(Replacing) \in Nat
    BY RequestingFinite DEF CodesService, LinksInv, Replacing
  <2>. PICK counted : counted = {c \in CodeRows : Within(c, RESET_EMAIL_WINDOW)}
    OBVIOUS
  <2>2. Cardinality(counted) \in Nat /\ Cardinality(counted) <= Cardinality(CodeRows)
    BY CodeRowsFinite, Fewer
  <2>3. Most < RESET_EMAIL_MAX
    BY DEF Most
  <2>. QED  BY <2>1, <2>2, <2>3, CodeRowsFinite, SomeRequests, CodeAssumption
<1>. QED  BY <1>1, CodesKept, PTL
-----------------------------------------------------------------------------
(* The pages of the exams: when no save was on its way at the last change of *)
(* the page, every save on its way since then carries what the page shows.   *)

ExamPagesInv ==
  /\ Slotted
  /\ crossed \in BOOLEAN
  /\ \A r \in Requests :
       req[r].pc \in Saves =>
         /\ req[r] = [pc |-> req[r].pc, answers |-> req[r].answers, open |-> req[r].open]
         /\ crossed \/ req[r].answers = seen
         /\ At(r, "ok") => crossed \/ stored = seen
  /\ saveState = "saved" => crossed \/ stored = seen

LEMMA ExamPagesStart == InitSlots /\ ExamPagesInit => ExamPagesInv
BY AllIdle DEF ExamPagesInit, ExamPagesInv, Saves

LEMMA SaveWritten ==
  ASSUME NEW s, NEW pc, NEW open, s = [pc |-> s.pc, answers |-> s.answers, open |-> s.open]
  PROVE  /\ [s EXCEPT !.pc = pc] = [pc |-> pc, answers |-> s.answers, open |-> s.open]
         /\ [s EXCEPT !.open = open] = [pc |-> s.pc, answers |-> s.answers, open |-> open]
<1>. PICK p, a, o : p = s.pc /\ a = s.answers /\ o = s.open
  OBVIOUS
<1>1. s = [pc |-> p, answers |-> a, open |-> o]
  OBVIOUS
<1>2. [s EXCEPT !.pc = pc] = [pc |-> pc, answers |-> a, open |-> o]
  BY <1>1
<1>3. [s EXCEPT !.open = open] = [pc |-> p, answers |-> a, open |-> open]
  BY <1>1
<1>. QED  BY <1>2, <1>3

\* Slots whose saves stay, or go.
LEMMA SavesStay ==
  ASSUME ExamPagesInv, NEW r \in Requests, Slotted', \A s \in Requests : s # r => req'[s] = req[s],
         req'[r].pc \notin Saves, UNCHANGED <<seen, stored, crossed>>,
         saveState' = "saved" => crossed \/ stored = seen
  PROVE  ExamPagesInv'
BY DEF ExamPagesInv, At

LEMMA ExamPagesStep == ExamPagesInv /\ ExamPagesNext => ExamPagesInv'
<1>. SUFFICES ASSUME ExamPagesInv, ExamPagesNext  PROVE ExamPagesInv'
  OBVIOUS
<1>. USE DEF ExamPagesInv
<1>1. ASSUME NEW r \in Requests, Persist(r)  PROVE ExamPagesInv'
  <2>. PICK q : q = [pc |-> "save", answers |-> seen, open |-> TRUE]
    OBVIOUS
  <2>1. req' = [req EXCEPT ![r] = q] /\ UNCHANGED <<seen, stored, crossed, saveState>>
    BY <1>1 DEF Persist, Send, Become
  <2>2. Slotted' /\ req'[r] = q /\ \A s \in Requests : s # r => req'[s] = req[s]
    BY <2>1, Written
  <2>3. q = [pc |-> q.pc, answers |-> q.answers, open |-> q.open] /\ q.answers = seen /\ q.pc # "ok"
    OBVIOUS
  <2>. QED  BY <2>1, <2>2, <2>3 DEF At
<1>2. ASSUME NEW r \in Requests, Saved(r)  PROVE ExamPagesInv'
  <2>1. Finish(r) /\ At(r, "ok") /\ UNCHANGED <<seen, stored, crossed>>
        /\ saveState' \in {"saved", saveState}
    BY <1>2 DEF Saved
  <2>2. crossed \/ stored = seen
    BY <2>1 DEF At, Saves
  <2>. QED  BY <2>1, <2>2, Gone, SavesStay DEF Saves
<1>3. ASSUME NEW r \in Requests, LoseSave(r)  PROVE ExamPagesInv'
  <2>1. UNCHANGED <<seen, stored, crossed>> /\ saveState' \in {"idle", saveState} /\ req[r].pc \in Saves
    BY <1>3 DEF LoseSave
  <2>2. CASE Finish(r)
    BY <2>1, <2>2, Gone, SavesStay DEF Saves
  <2>3. CASE Become(r, [req[r] EXCEPT !.open = FALSE])
    <3>. PICK q : q = [req[r] EXCEPT !.open = FALSE]
      OBVIOUS
    <3>1. req' = [req EXCEPT ![r] = q]
      BY <2>3 DEF Become
    <3>2. Slotted' /\ req'[r] = q /\ \A s \in Requests : s # r => req'[s] = req[s]
      BY <3>1, Written
    <3>3. q = [pc |-> req[r].pc, answers |-> req[r].answers, open |-> FALSE]
      BY <2>1, SaveWritten
    <3>4. q.pc = req[r].pc /\ q.answers = req[r].answers
          /\ q = [pc |-> q.pc, answers |-> q.answers, open |-> q.open]
      BY <3>3
    <3>. QED  BY <2>1, <3>2, <3>4 DEF At
  <2>. QED  BY <1>3, <2>2, <2>3 DEF LoseSave
<1>4. ASSUME NEW r \in Requests, ReadAttempt(r)  PROVE ExamPagesInv'
  <2>. PICK q : q = [req[r] EXCEPT !.pc = "update"]
    OBVIOUS
  <2>1. /\ req' = [req EXCEPT ![r].pc = "update"] /\ req[r].pc \in Saves
        /\ UNCHANGED <<seen, stored, crossed, saveState>>
    BY <1>4 DEF ReadAttempt, Goto, At, Saves, examPageVars
  <2>2. req' = [req EXCEPT ![r] = q]
    BY <2>1
  <2>3. Slotted' /\ req'[r] = q /\ \A s \in Requests : s # r => req'[s] = req[s]
    BY <2>2, Written
  <2>4. q = [pc |-> "update", answers |-> req[r].answers, open |-> req[r].open]
    BY <2>1, SaveWritten
  <2>5. q.pc # "ok" /\ q.answers = req[r].answers
        /\ q = [pc |-> q.pc, answers |-> q.answers, open |-> q.open]
    BY <2>4
  <2>. QED  BY <2>1, <2>3, <2>5 DEF At
<1>5. ASSUME NEW r \in Requests, UpdateAnswers(r)  PROVE ExamPagesInv'
  <2>. PICK q : q = [req[r] EXCEPT !.pc = "ok"]
    OBVIOUS
  <2>1. /\ req' = [req EXCEPT ![r].pc = "ok"] /\ req[r].pc \in Saves
        /\ stored' = req[r].answers /\ UNCHANGED <<seen, crossed, saveState>>
    BY <1>5 DEF UpdateAnswers, Goto, At, Saves
  <2>2. req' = [req EXCEPT ![r] = q]
    BY <2>1
  <2>3. Slotted' /\ req'[r] = q /\ \A s \in Requests : s # r => req'[s] = req[s]
    BY <2>2, Written
  <2>4. q = [pc |-> "ok", answers |-> req[r].answers, open |-> req[r].open]
    BY <2>1, SaveWritten
  <2>5. q.answers = req[r].answers /\ q = [pc |-> q.pc, answers |-> q.answers, open |-> q.open]
    BY <2>4
  <2>6. crossed \/ stored' = seen
    BY <2>1
  <2>. QED  BY <2>1, <2>3, <2>5, <2>6 DEF At
<1>6. CASE SetAnswer
  <2>1. UNCHANGED req /\ crossed' = Saving /\ saveState' = "saving"
    BY <1>6 DEF SetAnswer
  <2>. QED  BY <2>1 DEF Saving, At, Slotted
<1>7. CASE OpenAgain
  <2>1. /\ req' = [r \in Requests |->
                     IF req[r].pc \in Saves THEN [req[r] EXCEPT !.open = FALSE] ELSE req[r]]
        /\ seen' = stored /\ stored' = stored /\ crossed' = Saving
    BY <1>7 DEF OpenAgain
  <2>2. Slotted' /\ crossed' \in BOOLEAN /\ (crossed \/ stored = seen)'
    BY <2>1 DEF Slotted, Saving
  <2>3. ASSUME NEW r \in Requests, req'[r].pc \in Saves
        PROVE  /\ req'[r] = [pc |-> req'[r].pc, answers |-> req'[r].answers, open |-> req'[r].open]
               /\ crossed'
    <3>1. req[r].pc \in Saves
      BY <2>1, <2>3
    <3>2. req'[r] = [pc |-> req[r].pc, answers |-> req[r].answers, open |-> FALSE]
      BY <2>1, <3>1, SaveWritten
    <3>. QED  BY <2>1, <3>1, <3>2 DEF Saving
  <2>. QED  BY <2>2, <2>3
<1>8. CASE Close
  BY <1>8 DEF Close, Slotted, At
<1>. QED  BY <1>1, <1>2, <1>3, <1>4, <1>5, <1>6, <1>7, <1>8 DEF ExamPagesNext

ExamPagesService == IF service = "examPages" THEN ExamPagesInv ELSE ExamPagesInit

\* What a page shows as saved is stored, unless it was changed or opened while an
\* earlier save was on its way.
THEOREM SavedStaysStored == Spec => []SavedIsStored
<1>1. Init => ExamPagesService
  BY ExamPagesStart DEF Init, ExamPagesService
<1>2. ExamPagesService /\ [Next]_vars => ExamPagesService'
  <2>. SUFFICES ASSUME ExamPagesService, [Next]_vars  PROVE ExamPagesService'
    OBVIOUS
  <2>1. CASE Next
    BY <2>1, ServiceSteps, ExamPagesStep DEF ExamPagesService, ExamPagesInit, examPageVars, Opened
  <2>2. CASE UNCHANGED vars
    <3>1. UNCHANGED <<req, player, seen, stored, inProgress, timer, saveState, crossed, service>>
      BY <2>2 DEF vars, examPageVars
    <3>. QED
      BY <3>1 DEF ExamPagesService, ExamPagesInv, ExamPagesInit, Slotted, At, Opened
  <2>. QED  BY <2>1, <2>2
<1>3. ExamPagesService => SavedIsStored
  BY DEF ExamPagesService, ExamPagesInv, ExamPagesInit, SavedIsStored
<1>. QED  BY <1>1, <1>2, <1>3, PTL DEF Spec
=============================================================================
