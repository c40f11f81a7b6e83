------------------------------- MODULE DriveReader -------------------------------
(***************************************************************************)
(* Making an ISO image of a disc: the thread that reads the disc           *)
(* (VirtualCDCtl/DriveReadingThread.cpp) and the thread that shows the     *)
(* progress dialog (vmnt/ISOProgressDialog.cpp, vmnt/vmnt.cpp).            *)
(*                                                                         *)
(* The reader reads blocks of several sectors until one cannot be read,    *)
(* then goes on sector by sector; a sector that cannot be read becomes     *)
(* zeros in the image and an entry in the list of bad sectors, which may   *)
(* be read again at the end.  It asks its questions by sending messages    *)
(* to the dialog and holds m_MainMutex meanwhile; the other thread takes   *)
(* that mutex when the dialog is closed.                                   *)
(*                                                                         *)
(* Sizes and offsets are counted in sectors.                               *)
(***************************************************************************)
EXTENDS Integers, BadSectors

CONSTANTS
    VolumeSize,         \* sectors on the disc
    BufferSize,         \* sectors read at once
    PartialReads,       \* may a block be read in part?
    PartialWrites,      \* may a block be written in part?
    Zeros, Unwritten    \* contents of a sector of the image

ASSUME ReaderAssumption ==
    /\ VolumeSize \in Nat \ {0}
    /\ BufferSize \in Nat \ {0}
    /\ PartialReads \in BOOLEAN
    /\ PartialWrites \in BOOLEAN
    /\ Zeros # Unwritten /\ {Zeros, Unwritten} \cap Nat = {}

Sector == 0 .. VolumeSize - 1

VARIABLES
    pc,         \* where the reader is
    status,     \* m_FinalStatus
    done, todo, \* m_BytesDone, and what the current read asked for
    perSector, endOfFailedBlock,
    buf,        \* what was read: the contents of consecutive sectors
    discPos,    \* file pointer of m_File
    filePos,    \* file pointer of m_pTargetFile
    file,       \* the image
    bad,        \* m_BadSectors
    action,     \* the user's last decision about bad sectors
    work,       \* the part of the detached list that is still to be read again
    queued,     \* m_QueuedBadSectors
    abort,      \* m_bAbort
    cancelled,  \* m_bCancelBadSectorReReading
    paused,     \* m_bPaused, and m_ContinueEvent is not signalled
    handler,    \* m_pErrorHandler is set
    message,    \* the message sent to the dialog and not answered yet
    main,       \* where the thread of the dialog is
    told        \* what the user was told about the outcome

progress == <<done, todo, perSector, endOfFailedBlock>>
disc     == <<buf, discPos>>
image    == <<filePos, file>>
badness  == <<bad, action, work, queued>>
reader   == <<pc, status, progress, disc, image, badness>>
shared   == <<abort, cancelled, paused, handler, message>>
dialog   == <<main, told>>
vars     == <<reader, shared, dialog>>

SectorRange == [first : Sector, count : 1 .. VolumeSize]

TypeOK ==
    /\ pc \in {"loop", "got", "write", "failed", "asking", "asked", "paused",
               "found", "decide", "reread", "closing", "dead"}
    /\ status \in {"pending", "success", "aborted", "error"}
    /\ {done, endOfFailedBlock, discPos, filePos, queued} \subseteq 0 .. VolumeSize
    /\ todo \in 0 .. BufferSize
    /\ buf \in Seq(Sector \cup {Zeros})
    /\ file \in [Sector -> Sector \cup {Zeros, Unwritten}]
    /\ bad \in Seq(SectorRange) /\ work \in Seq(SectorRange)
    /\ action \in {"Ignore", "RereadOnce", "RereadContinuous"}
    /\ {perSector, abort, cancelled, paused, handler} \subseteq BOOLEAN
    /\ message \in {"none", "retry", "bad"}
    /\ main \in {"starting", "creating", "dialog", "detaching", "aborting",
                 "closing", "joining", "ended"}
    /\ told \in {"nothing", "asked", "error", "success"}

(* The thread has been started; the error handler comes later. *)
Init ==
    /\ pc = "loop" /\ status = "pending"
    /\ done = 0 /\ todo = 0 /\ perSector = FALSE /\ endOfFailedBlock = 0
    /\ buf = <<>> /\ discPos = 0
    /\ filePos = 0 /\ file = [s \in Sector |-> Unwritten]
    /\ bad = <<>> /\ action = "Ignore" /\ work = <<>> /\ queued = 0
    /\ abort = FALSE /\ cancelled = FALSE /\ paused = FALSE
    /\ handler = FALSE /\ message = "none"
    /\ main = "starting" /\ told = "nothing"

(* m_MainMutex is held by the reader while it waits for an answer, and by   *)
(* the other thread while it closes the files.                              *)
MutexFree == message = "none" /\ main # "closing"

(* AbortIfStillRunning has closed both files. *)
FilesClosed == main = "joining"

Finish(st) == status' = st /\ pc' = "closing"

--------------------------------------------------------------------------------
(* DoMainReadLoop: reading.                                                  *)

(* m_bAbort is seen before a read, after it, or after a failed write. *)
Aborted ==
    /\ pc \in {"loop", "got", "failed"}
    /\ abort
    /\ Finish("aborted")
    /\ UNCHANGED <<progress, disc, image, badness, shared, dialog>>

AllDone ==
    /\ pc = "loop" /\ ~abort
    /\ done = VolumeSize
    /\ status' = "success"
    /\ pc' = IF bad = <<>> THEN "closing" ELSE "found"
    /\ UNCHANGED <<progress, disc, image, badness, shared, dialog>>

(* Variant: the end of the disc is not looked at. *)
TodoPastEnd == IF perSector THEN 1 ELSE BufferSize

Todo ==
    LET left == VolumeSize - done
        most == IF perSector THEN 1 ELSE BufferSize
    IN IF left < most THEN left ELSE most

(* How many sectors a read may return. *)
Returned == IF PartialReads THEN 0 .. Todo ELSE {0, Todo}

(* For a single sector the file pointer is set first. *)
ReadFrom == IF perSector THEN done ELSE discPos

Read ==
    /\ pc = "loop" /\ ~abort
    /\ done < VolumeSize
    /\ todo' = Todo
    /\ \E n \in Returned :
        /\ buf' = [i \in 1 .. n |-> ReadFrom + i - 1]
        /\ discPos' = ReadFrom + n
    /\ pc' = "got"
    /\ UNCHANGED <<status, done, perSector, endOfFailedBlock, image, badness,
                   shared, dialog>>

(* Past the block that failed, whole blocks are read again. *)
ReadAll ==
    /\ pc = "got" /\ ~abort
    /\ Len(buf) = todo
    /\ perSector' = (perSector /\ done < endOfFailedBlock)
    /\ pc' = "write"
    /\ UNCHANGED <<status, done, todo, endOfFailedBlock, disc, image, badness,
                   shared, dialog>>

(* A block failed: if nothing of it was read, it is read sector by sector. *)
BlockFailed ==
    /\ pc = "got" /\ ~abort
    /\ Len(buf) < todo /\ ~perSector
    /\ perSector' = TRUE
    /\ endOfFailedBlock' = done + todo
    /\ pc' = IF buf = <<>> THEN "loop" ELSE "write"
    /\ UNCHANGED <<status, done, todo, disc, image, badness, shared, dialog>>

(* A sector failed.  The first one ends everything; others become zeros. *)
SectorFailed ==
    /\ pc = "got" /\ ~abort
    /\ Len(buf) < todo /\ perSector
    /\ IF done = 0
       THEN Finish("error") /\ UNCHANGED <<disc, bad>>
       ELSE /\ discPos' = done + 1
            /\ buf' = <<Zeros>>
            /\ bad' = AddSector(bad, done)
            /\ pc' = "write"
            /\ UNCHANGED status
    /\ UNCHANGED <<progress, image, action, work, queued, shared, dialog>>

--------------------------------------------------------------------------------
(* DoMainReadLoop: writing.                                                  *)

Stored(contents) ==
    [s \in Sector |->
        IF s - filePos \in 0 .. Len(contents) - 1
        THEN contents[s - filePos + 1]
        ELSE file[s]]

(* How many sectors a write may take. *)
Accepted ==
    IF FilesClosed THEN {0}
    ELSE IF PartialWrites THEN 0 .. Len(buf)
    ELSE {0, Len(buf)}

(* The loop around the write is left as soon as anything was written, and   *)
(* what counts as done is what was asked of the read.                       *)
Write ==
    /\ pc = "write"
    /\ \E n \in Accepted :
        /\ file' = Stored(SubSeq(buf, 1, n))
        /\ filePos' = filePos + n
        /\ done' = IF n = 0 THEN done ELSE done + todo
        /\ pc' = IF n = 0 THEN "failed" ELSE IF paused THEN "paused" ELSE "loop"
    /\ UNCHANGED <<status, todo, perSector, endOfFailedBlock, disc, badness,
                   shared, dialog>>

Continue ==
    /\ pc = "paused" /\ ~paused
    /\ pc' = "loop"
    /\ UNCHANGED <<status, progress, disc, image, badness, shared, dialog>>

WriteFailed ==
    /\ pc = "failed" /\ ~abort
    /\ pc' = "asking"
    /\ UNCHANGED <<status, progress, disc, image, badness, shared, dialog>>

(* The user is asked whether to try again.  Without a handler the error is  *)
(* final; a message to a window that does not exist returns zero.           *)
AskRetry ==
    /\ pc = "asking"
    /\ MutexFree
    /\ IF ~handler THEN Finish("error") /\ UNCHANGED message
       ELSE IF main # "dialog" THEN Finish("aborted") /\ UNCHANGED message
       ELSE message' = "retry" /\ pc' = "asked" /\ UNCHANGED status
    /\ UNCHANGED <<progress, disc, image, badness, abort, cancelled, paused,
                   handler, dialog>>

--------------------------------------------------------------------------------
(* ThreadBody and ReReadBadSectors.                                          *)

(* The user decides about the bad sectors.  Without a handler, or when they *)
(* are to be read over and over, the last decision holds.                   *)
AskBad ==
    /\ pc = "found"
    /\ action # "RereadContinuous"
    /\ MutexFree
    /\ IF handler /\ main = "dialog"
       THEN message' = "bad" /\ pc' = "asked" /\ UNCHANGED action
       ELSE /\ action' = IF handler THEN "Ignore" ELSE action
            /\ pc' = "decide"
            /\ UNCHANGED message
    /\ UNCHANGED <<status, progress, disc, image, bad, work, queued, abort,
                   cancelled, paused, handler, dialog>>

Ignored ==
    /\ pc = "decide" /\ action = "Ignore"
    /\ pc' = "closing"
    /\ UNCHANGED <<status, progress, disc, image, badness, shared, dialog>>

DetachedCopy == bad         \* Variant: the list is copied

(* The list is detached: sectors that fail again start a new one. *)
Detached == <<>>

RereadStart ==
    /\ \/ pc = "decide" /\ action # "Ignore"
       \/ pc = "found" /\ action = "RereadContinuous"
    /\ queued' = GetTotalCount(bad)
    /\ work' = bad
    /\ bad' = Detached
    /\ pc' = "reread"
    /\ UNCHANGED <<status, progress, disc, image, action, shared, dialog>>

(* Seeking, or writing, fails; it always does once the files are closed. *)
RereadFails ==
    /\ pc = "reread" /\ work # <<>>
    /\ Finish(IF abort THEN "aborted" ELSE "error")
    /\ work' = <<>>
    /\ UNCHANGED <<progress, disc, image, bad, action, queued, shared, dialog>>

(* Variant: the file pointer of the image is not set. *)
RewrittenUnsought(s) == IF filePos \in Sector THEN [file EXCEPT ![filePos] = s] ELSE file

Rewritten(s) == [file EXCEPT ![s] = s]

(* Variant: the request to stop is not looked at. *)
CancelSeenNever == FALSE

CancelSeen == cancelled

(* One sector, which can be read by now or not, and whether to go on. *)
RereadSector ==
    /\ pc = "reread" /\ work # <<>>
    /\ ~FilesClosed
    /\ LET s == FirstSector(work)
       IN \/ /\ discPos' = s + 1 /\ filePos' = s + 1
             /\ file' = Rewritten(s)
             /\ UNCHANGED bad
          \/ /\ discPos' = s /\ filePos' = s
             /\ bad' = AddSector(bad, s)
             /\ UNCHANGED file
    /\ IF abort THEN Finish("aborted") /\ work' = <<>>
       ELSE IF CancelSeen THEN Finish("success") /\ work' = <<>>
       ELSE work' = OtherSectors(work) /\ UNCHANGED <<pc, status>>
    /\ UNCHANGED <<progress, buf, action, queued, shared, dialog>>

RereadDone ==
    /\ pc = "reread" /\ work = <<>>
    /\ status' = "success"
    /\ pc' = IF CancelSeen \/ bad = <<>> THEN "closing" ELSE "found"
    /\ UNCHANGED <<progress, disc, image, badness, shared, dialog>>

Close ==
    /\ pc = "closing"
    /\ MutexFree
    /\ queued' = 0
    /\ pc' = "dead"
    /\ UNCHANGED <<status, progress, disc, image, bad, action, work, shared, dialog>>

--------------------------------------------------------------------------------
(* The thread of the dialog.                                                 *)

SetErrorHandler ==
    /\ main = "starting"
    /\ MutexFree
    /\ handler' = TRUE
    /\ main' = "creating"
    /\ UNCHANGED <<reader, abort, cancelled, paused, message, told>>

OnInitDialog ==
    /\ main = "creating"
    /\ main' = "dialog"
    /\ UNCHANGED <<reader, shared, told>>

(* Pause or Resume. *)
OnBnClickedPause ==
    /\ main = "dialog" /\ pc # "dead"
    /\ paused' = ~paused
    /\ UNCHANGED <<reader, abort, cancelled, handler, message, dialog>>

(* While bad sectors are read again, the button stops that only.  They are  *)
(* counted only after the question about them.                              *)
OnBnClickedCancel ==
    /\ main = "dialog"
    /\ IF queued # 0
       THEN cancelled' = TRUE /\ UNCHANGED main
       ELSE main' = "detaching" /\ UNCHANGED cancelled
    /\ UNCHANGED <<reader, abort, paused, handler, message, told>>

OnClose ==
    /\ main = "dialog"
    /\ main' = "detaching"
    /\ UNCHANGED <<reader, shared, told>>

(* The outcome is shown once; then the timer is gone.  After a failure the   *)
(* image is deleted as well, which is left out: the file is not looked at    *)
(* any more.                                                                 *)
OnTimer ==
    /\ main = "dialog" /\ pc = "dead" /\ told # "success"
    /\ \/ /\ status = "success"
          /\ \/ told' = "success" /\ UNCHANGED main
             \/ main' = "detaching" /\ UNCHANGED told
       \/ /\ status # "success"
          /\ told' = IF status = "error" THEN "error" ELSE told
          /\ main' = "ended"
    /\ UNCHANGED <<reader, shared>>

OnRetryCancel ==
    /\ main = "dialog" /\ message = "retry"
    /\ message' = "none"
    /\ told' = "asked"
    /\ \/ pc' = "write" /\ UNCHANGED status
       \/ Finish("aborted")
    /\ UNCHANGED <<progress, disc, image, badness, abort, cancelled, paused,
                   handler, main>>

OnBadSectors ==
    /\ main = "dialog" /\ message = "bad"
    /\ message' = "none"
    /\ action' \in {"Ignore", "RereadOnce", "RereadContinuous"}
    /\ pc' = "decide"
    /\ UNCHANGED <<status, progress, disc, image, bad, work, queued, abort,
                   cancelled, paused, handler, dialog>>

(* The window is gone before it has got the message: the answer is zero. *)
Unheard ==
    /\ main # "dialog" /\ message # "none"
    /\ message' = "none"
    /\ IF message = "retry"
       THEN Finish("aborted") /\ UNCHANGED action
       ELSE pc' = "decide" /\ action' = "Ignore" /\ UNCHANGED status
    /\ UNCHANGED <<progress, disc, image, bad, work, queued, abort, cancelled,
                   paused, handler, dialog>>

ClearErrorHandler ==
    /\ main = "detaching"
    /\ MutexFree
    /\ handler' = FALSE
    /\ main' = "aborting"
    /\ UNCHANGED <<reader, abort, cancelled, paused, message, told>>

(* AbortIfStillRunning, under m_MainMutex: m_bAbort and Resume ... *)
ResumedNot == paused        \* Variant: the reader is not resumed

Resumed == FALSE

Abort ==
    /\ main = "aborting"
    /\ MutexFree
    /\ abort' = TRUE
    /\ paused' = Resumed
    /\ main' = IF pc = "dead" THEN "ended" ELSE "closing"
    /\ UNCHANGED <<reader, cancelled, handler, message, told>>

(* ... then the files, even while the reader uses them. *)
CloseFiles ==
    /\ main = "closing"
    /\ main' = "joining"
    /\ UNCHANGED <<reader, shared, told>>

Join ==
    /\ main = "joining" /\ pc = "dead"
    /\ main' = "ended"
    /\ UNCHANGED <<reader, shared, told>>

--------------------------------------------------------------------------------
ReaderStep ==
    \/ Aborted \/ AllDone \/ Read \/ ReadAll \/ BlockFailed \/ SectorFailed
    \/ Write \/ Continue \/ WriteFailed \/ AskRetry
    \/ AskBad \/ Ignored \/ RereadStart \/ RereadFails \/ RereadSector
    \/ RereadDone \/ Close

(* What the thread of the dialog does by itself, and what the user does. *)
MainStep ==
    \/ SetErrorHandler \/ OnInitDialog \/ OnTimer \/ Unheard
    \/ ClearErrorHandler \/ Abort \/ CloseFiles \/ Join

UserStep ==
    \/ OnBnClickedPause \/ OnBnClickedCancel \/ OnClose
    \/ OnRetryCancel \/ OnBadSectors

(* CreateISO has returned. *)
Ended == main = "ended" /\ pc = "dead" /\ UNCHANGED vars

Next == ReaderStep \/ MainStep \/ UserStep \/ Ended

Spec == Init /\ [][Next]_vars

(* Both threads run; nobody makes the user do anything. *)
Fairness == WF_vars(ReaderStep) /\ WF_vars(MainStep)

LiveSpec == Spec /\ Fairness

--------------------------------------------------------------------------------
(* Reading that counts as successful leaves every sector in the image at    *)
(* its own place, or zeros where the sector could not be read: then it is   *)
(* still listed, or was given up with the button (CreateISO's promise,      *)
(* kept across two file pointers, two sizes of reads, a list that is        *)
(* replaced while it is read again, and files closed underneath).           *)
ImageIsComplete ==
    status = "success" =>
        \A s \in Sector :
            \/ file[s] = s
            \/ /\ file[s] = Zeros
               /\ cancelled \/ s \in SectorsOf(bad) \cup SectorsOf(work)

(* The ranges never overlap or touch, so the numbers shown to the user      *)
(* (GetTotalCount) count sectors; nothing is listed that is still to be     *)
(* read again.                                                              *)
ListIsASet ==
    /\ Ascending(bad) /\ Ascending(work)
    /\ SectorsOf(bad) \cap SectorsOf(work) = {}

(* Once the dialog is closed, CreateISO returns: whether the reader is      *)
(* paused, in the middle of a question, or holds the mutex.                 *)
ClosingEnds == (main = "detaching") ~> (main = "ended")

(* Giving up the bad sectors ends the reader, unless it asks first. *)
CancelEnds == cancelled ~> (message = "bad" \/ (pc = "dead" /\ queued = 0))

================================================================================
