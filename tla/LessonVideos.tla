---------------------------- MODULE LessonVideos ----------------------------
(***************************************************************************)
(* The video of one lesson, a file and a column that names it:             *)
(* apps/api/src/admin/admin.service.ts over                                *)
(* apps/api/src/media/media-storage.service.ts. What a request does to the *)
(* files is synchronous and one step; the row is another.                  *)
(***************************************************************************)
EXTENDS Slots

CONSTANT MaxVideos      \* bound on the uploads

ASSUME VideoAssumption == MaxVideos \in Nat

VARIABLES
  lesson,           \* the Lesson row: whether it exists, what its videoUrl names
  files,            \* the files in the directory of the lesson
  uploads,
  torn              \* whether the last to touch the files overlapped another
                    \* between file and row, died there, or found no row

videoVars == <<lesson, files, uploads, torn>>

\* A lesson without a video
VideosInit == lesson = [exists |-> TRUE, video |-> {}] /\ files = {} /\ uploads = 0 /\ torn = FALSE

RowSteps == {"writeUrl", "clearUrl", "deleteRow"}
Between == \E r \in Requests : req[r].pc \in RowSteps

-----------------------------------------------------------------------------
(* The lesson is read; its files are removed; the row is written.           *)

ReadLesson(r, pc) ==
  /\ At(r, "idle")
  /\ lesson.exists
  /\ Become(r, [pc |-> pc])
  /\ UNCHANGED videoVars

UploadLessonVideo(r) == ReadLesson(r, "save")
DeleteLessonVideo(r) == ReadLesson(r, "clear")
DeleteLesson(r) == ReadLesson(r, "clearAll")     \* deleteLesson, deleteCourse

Touch(r, q, kept) ==
  /\ files' = kept
  /\ torn' = Between
  /\ Become(r, q)
  /\ UNCHANGED lesson

\* Slip: the directory is cleared after the file is written.
SaveThenClear(r) ==
  /\ At(r, "save")
  /\ uploads < MaxVideos /\ uploads' = uploads + 1
  /\ Touch(r, [pc |-> "writeUrl", video |-> uploads'], {})

\* deleteByPublicUrl, saveLessonVideo: one file is left.
SaveLessonVideo(r) ==
  /\ At(r, "save")
  /\ uploads < MaxVideos /\ uploads' = uploads + 1
  /\ Touch(r, [pc |-> "writeUrl", video |-> uploads'], {uploads'})

ClearForUrl(r) == At(r, "clear") /\ Touch(r, [pc |-> "clearUrl"], {}) /\ UNCHANGED uploads
ClearForRow(r) == At(r, "clearAll") /\ Touch(r, [pc |-> "deleteRow"], {}) /\ UNCHANGED uploads

\* The row may be gone: the update fails, and the file stays.
WriteRow(r, row) ==
  /\ lesson' = IF lesson.exists THEN row ELSE lesson
  /\ torn' = (torn \/ ~lesson.exists)
  /\ Finish(r)
  /\ UNCHANGED <<files, uploads>>

WriteUrl(r) == At(r, "writeUrl") /\ WriteRow(r, [lesson EXCEPT !.video = {req[r].video}])
ClearUrl(r) == At(r, "clearUrl") /\ WriteRow(r, [lesson EXCEPT !.video = {}])
DeleteRow(r) == At(r, "deleteRow") /\ WriteRow(r, [exists |-> FALSE, video |-> {}])

LoseUpload(r) ==
  /\ Die(r)
  /\ torn' = (torn \/ req[r].pc \in RowSteps)
  /\ UNCHANGED <<lesson, files, uploads>>

VideosNext ==
  \E r \in Requests :
    \/ UploadLessonVideo(r) \/ SaveLessonVideo(r) \/ WriteUrl(r)
    \/ DeleteLessonVideo(r) \/ ClearForUrl(r) \/ ClearUrl(r)
    \/ DeleteLesson(r) \/ ClearForRow(r) \/ DeleteRow(r) \/ LoseUpload(r)

-----------------------------------------------------------------------------
(* Property *)

\* With no request between them, the files are the one the row names: nothing is
\* left behind and nothing is missing, unless the last two requests on them
\* overlapped, one died there, or an upload outlived the lesson.
FilesMatchRow ==
  ~Between /\ ~torn => files = lesson.video
=============================================================================
