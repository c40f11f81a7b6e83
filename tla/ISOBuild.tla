--------------------------------- MODULE ISOBuild ---------------------------------
(***************************************************************************)
(* vmnt /isofromfolder: mkisofs writes an image of a folder, and the       *)
(* dialog (CISOBuildProgressDialog) reads its output through a pipe, looks *)
(* ten times a second whether it has ended, and mounts what it made.  The  *)
(* user may cancel whenever the dialog's thread handles messages, which it *)
(* also does under a message box that does not belong to the dialog.       *)
(***************************************************************************)
EXTENDS Naturals

CONSTANTS
    Parts,      \* parts of the image; mkisofs reports each
    PipeRoom    \* reports that the pipe holds

ASSUME BuildAssumption == Parts \in Nat \ {0} /\ PipeRoom \in Nat \ {0}

VARIABLES
    mkisofs,    \* the process
    written,    \* parts it has written
    pipe,       \* reports not yet read
    image,      \* what the file of the chosen name holds
    dialog,     \* where the dialog's thread is
    succeeded,  \* m_Succeeded
    mounted,    \* what a new drive was given
    told,       \* history: the user was told that the image is there
    overdue     \* history: mkisofs outlived the wait after it was terminated

vars == <<mkisofs, written, pipe, image, dialog, succeeded, mounted, told, overdue>>

Contents == {"none", "old", "partial", "complete"}

TypeOK ==
    /\ mkisofs \in {"none", "unstarted", "running", "succeeded", "failed",
                    "dying", "killed"}
    /\ written \in 0 .. Parts
    /\ pipe \in 0 .. PipeRoom
    /\ image \in Contents
    /\ mounted \in Contents
    /\ dialog \in {"start", "open", "looking", "mounting", "asking", "ending", "kept",
                   "closed"}
    /\ succeeded \in BOOLEAN /\ told \in BOOLEAN /\ overdue \in BOOLEAN

\* The user may choose the name of a file that exists, and be asked about it.
Init ==
    /\ mkisofs = "none" /\ written = 0 /\ pipe = 0
    /\ image \in {"none", "old"}
    /\ dialog = "start" /\ mounted = "none"
    /\ succeeded = FALSE /\ told = FALSE /\ overdue = FALSE

--------------------------------------------------------------------------------

\* The old file is deleted, if nobody has it open, and mkisofs started.
Begin ==
    /\ dialog = "start"
    /\ dialog' = "open"
    /\ image' \in {"none", image}
    /\ mkisofs' \in {"running", "unstarted"}
    /\ UNCHANGED <<written, pipe, succeeded, mounted, told, overdue>>

\* mkisofs waits while the pipe is full.
WritePart ==
    /\ mkisofs = "running" /\ image # "old"
    /\ written < Parts /\ pipe < PipeRoom
    /\ written' = written + 1 /\ pipe' = pipe + 1
    /\ image' = "partial"
    /\ UNCHANGED <<mkisofs, dialog, succeeded, mounted, told, overdue>>

Finish ==
    /\ mkisofs = "running" /\ written = Parts
    /\ mkisofs' = "succeeded"
    /\ image' = "complete"
    /\ UNCHANGED <<written, pipe, dialog, succeeded, mounted, told, overdue>>

\* It tells why, and leaves the file as it is.
Fail ==
    /\ mkisofs = "running" /\ pipe < PipeRoom
    /\ mkisofs' = "failed"
    /\ pipe' = pipe + 1
    /\ UNCHANGED <<written, image, dialog, succeeded, mounted, told, overdue>>

Die ==
    /\ mkisofs = "dying"
    /\ mkisofs' = "killed"
    /\ UNCHANGED <<written, pipe, image, dialog, succeeded, mounted, told, overdue>>

--------------------------------------------------------------------------------

\* Variant: the output is read when mkisofs has ended.
ReadOutputAtEnd ==
    /\ dialog = "open"
    /\ dialog' = "looking"
    /\ pipe' = IF mkisofs = "running" THEN pipe ELSE 0
    /\ UNCHANGED <<mkisofs, written, image, succeeded, mounted, told, overdue>>

\* Variant: as much is read as the pipe can hold.
ReadOutputWhole ==
    /\ dialog = "open"
    /\ dialog' = "looking"
    /\ pipe' = pipe - PipeRoom
    /\ UNCHANGED <<mkisofs, written, image, succeeded, mounted, told, overdue>>

\* OnTimer reads until the pipe is empty ...
ReadOutput ==
    /\ dialog = "open"
    /\ dialog' = "looking"
    /\ pipe' = 0
    /\ UNCHANGED <<mkisofs, written, image, succeeded, mounted, told, overdue>>

\* Variant: the flag is forgotten.
MadeUnmarked ==
    \E closeWindow, mountISO \in BOOLEAN :
        /\ told' = ~closeWindow
        /\ succeeded' = FALSE
        /\ dialog' = IF mountISO THEN "mounting" ELSE IF closeWindow THEN "closed" ELSE "kept"

\* What comes after mkisofs has ended well, by two boxes on the dialog.  The message
\* disables the dialog, and the image is to stay.
Made ==
    \E closeWindow, mountISO \in BOOLEAN :
        /\ told' = ~closeWindow
        /\ succeeded' = ~closeWindow
        /\ dialog' = IF mountISO THEN "mounting" ELSE IF closeWindow THEN "closed" ELSE "kept"

Untold == UNCHANGED <<told, succeeded>>

\* Variant: mkisofs failed, and what comes after it goes on.
LookGoingOn ==
    /\ dialog = "looking"
    /\ \/ mkisofs = "running" /\ dialog' = "open" /\ Untold
       \/ mkisofs = "unstarted" /\ dialog' = "closed" /\ Untold
       \/ mkisofs = "failed" /\ dialog' = "mounting" /\ succeeded' = TRUE /\ UNCHANGED told
       \/ mkisofs = "succeeded" /\ Made
    /\ UNCHANGED <<mkisofs, written, pipe, image, mounted, overdue>>

\* ... and looks at the process, which may have written more meanwhile.  Once it has
\* ended the timer is stopped.
Look ==
    /\ dialog = "looking"
    /\ \/ mkisofs = "running" /\ dialog' = "open" /\ Untold
       \/ mkisofs = "unstarted" /\ dialog' = "closed" /\ Untold
       \/ mkisofs = "failed" /\ dialog' = "kept" /\ Untold
       \/ mkisofs = "succeeded" /\ Made
    /\ UNCHANGED <<mkisofs, written, pipe, image, mounted, overdue>>

\* The autorun monitor is started first; when it fails, a message box of its own asks
\* whether to mount the image all the same.
AskAboutAutorun ==
    /\ dialog = "mounting"
    /\ dialog' = "asking"
    /\ UNCHANGED <<mkisofs, written, pipe, image, succeeded, mounted, told, overdue>>

\* OnTimer ends: the dialog stays if the user was told, and if it was not cancelled.
AfterMount == dialog' = IF succeeded /\ dialog # "ending" THEN "kept" ELSE "closed"

\* The driver opens the file, if it is still there.
Mount ==
    /\ dialog \in {"mounting", "asking", "ending"}
    /\ mounted' = image
    /\ AfterMount
    /\ UNCHANGED <<mkisofs, written, pipe, image, succeeded, told, overdue>>

MountFails ==
    /\ dialog \in {"mounting", "asking", "ending"}
    /\ AfterMount
    /\ UNCHANGED <<mkisofs, written, pipe, image, succeeded, mounted, told, overdue>>

--------------------------------------------------------------------------------

CancelledDialog == dialog' = IF dialog = "asking" THEN "ending" ELSE "closed"

\* Variant: the file is deleted if mkisofs has to be terminated.
CancelRunningOnly ==
    /\ dialog \in {"open", "asking", "kept"}
    /\ CancelledDialog
    /\ \/ (succeeded \/ mkisofs # "running") /\ UNCHANGED <<mkisofs, image, overdue>>
       \/ /\ ~succeeded /\ mkisofs = "running"
          /\ mkisofs' = "killed" /\ image' \in {"none"} \cup ({image} \cap {"old"})
          /\ UNCHANGED overdue
    /\ UNCHANGED <<written, pipe, succeeded, mounted, told>>

\* Unless the user was told that the image is there, mkisofs is terminated, waited for,
\* and the file deleted.  An old file that could not be deleted before may still be
\* open; a process that does not go in time keeps its file.
Cancel ==
    /\ dialog \in {"open", "asking", "kept"}
    /\ CancelledDialog
    /\ \/ succeeded /\ UNCHANGED <<mkisofs, image, overdue>>
       \/ /\ ~succeeded
          /\ mkisofs' = IF mkisofs = "running" THEN "killed" ELSE mkisofs
          /\ image' \in {"none"} \cup ({image} \cap {"old"})
          /\ UNCHANGED overdue
       \/ /\ ~succeeded /\ mkisofs = "running"
          /\ mkisofs' = "dying"
          /\ overdue' = TRUE
          /\ UNCHANGED image
    /\ UNCHANGED <<written, pipe, succeeded, mounted, told>>

Process == WritePart \/ Finish \/ Fail \/ Die
OnTimer == ReadOutput \/ Look

Next ==
    \/ Begin \/ Process \/ OnTimer
    \/ AskAboutAutorun \/ Mount \/ MountFails \/ Cancel

\* mkisofs goes on while it can; the timer ticks, and its handler returns.
Fairness == WF_vars(Begin) /\ WF_vars(Process) /\ WF_vars(OnTimer) /\ WF_vars(Mount)

Spec == Init /\ [][Next]_vars /\ Fairness

--------------------------------------------------------------------------------
(* Properties.                                                               *)

\* "The ISO image has been created successfully" (ISOBuildProgressDialog.cpp:155):
\* once the user has read that, closing the window with the button that was Cancel, at
\* any moment and under any message box, leaves the image alone.
ReportedImageStays == told => image = "complete"

\* What is mounted when all is done is the whole image, also when mkisofs failed in the
\* middle or the user cancelled under the question about autorun.
MountedImageIsWhole == mounted \in {"none", "complete"}

\* When the dialog has closed, no part of an image is left behind: the file is the whole
\* image or gone (or the old one, if it was in use), unless the terminated mkisofs had
\* it open for longer than the dialog waited.
NothingHalfDone ==
    (dialog = "closed" /\ ~overdue) => /\ mkisofs # "running"
                                       /\ image # "partial"

\* mkisofs is never left waiting for somebody to read its output: it ends, and then the
\* dialog tells or acts.
BuildEnds ==
    /\ (mkisofs = "running") ~> (mkisofs # "running")
    /\ (mkisofs \in {"succeeded", "failed", "unstarted"}) ~> (dialog \in {"kept", "closed"})

================================================================================
