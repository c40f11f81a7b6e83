------------------------------ MODULE ISOBuild_proofs ------------------------------
(* Proofs about ISOBuild, for any number of parts and any room in the pipe. *)
EXTENDS ISOBuild, TLAPS

(* The inductive invariant.  The parts after TypeOK say what the file holds  *)
(* as long as it has not been deleted, and where the dialog can be after     *)
(* mkisofs has ended.                                                        *)
NotBegun ==
    /\ dialog = "start" => mkisofs = "none"
    /\ mkisofs \in {"none", "unstarted"} => image \in {"none", "old"}

Begun == dialog # "start" => mkisofs # "none"

SucceededWhole == succeeded => mkisofs = "succeeded" /\ image = "complete"

ToldIsMarked == told => succeeded

\* A good end leaves the image until a cancellation deletes it.
WholeOrDeleted ==
    mkisofs = "succeeded" =>
        image = "complete" \/ (image = "none" /\ dialog \in {"ending", "closed"})

\* The image is mounted, or the question asked, after a good end only.
MountingMade == dialog \in {"mounting", "asking", "ending"} => mkisofs = "succeeded"

\* The dialog stays open after its handler when mkisofs failed or the user was told.
KeptBecause == dialog = "kept" => mkisofs = "failed" \/ succeeded

IInv ==
    /\ TypeOK
    /\ NotBegun /\ Begun /\ SucceededWhole /\ ToldIsMarked /\ WholeOrDeleted
    /\ MountingMade /\ KeptBecause
    /\ MountedImageIsWhole /\ NothingHalfDone

--------------------------------------------------------------------------------

\* The dialog starts with no process and no half-written file.
LEMMA InitIInv == Init => IInv
<1> SUFFICES ASSUME Init PROVE IInv
  OBVIOUS
<1>1. TypeOK
  <2>1. written \in 0 .. Parts /\ pipe \in 0 .. PipeRoom
    BY BuildAssumption DEF BuildAssumption, Init
  <2>2. succeeded \in BOOLEAN /\ told \in BOOLEAN /\ overdue \in BOOLEAN
    BY Zenon DEF Init
  <2>3. /\ image \in Contents /\ mounted \in Contents
        /\ mkisofs = "none" /\ dialog = "start"
    BY DEF Init, Contents
  <2>4. QED
    BY <2>1, <2>2, <2>3 DEF TypeOK
<1>2. /\ NotBegun /\ Begun /\ SucceededWhole /\ ToldIsMarked /\ WholeOrDeleted
      /\ MountingMade /\ KeptBecause /\ MountedImageIsWhole /\ NothingHalfDone
  BY DEF Init, NotBegun, Begun, SucceededWhole, ToldIsMarked, WholeOrDeleted,
     MountingMade, KeptBecause, MountedImageIsWhole, NothingHalfDone
<1>3. QED
  BY <1>1, <1>2 DEF IInv

\* Every step keeps the types.
LEMMA StepType == IInv /\ [Next]_vars => TypeOK'
<1> SUFFICES ASSUME IInv, [Next]_vars PROVE TypeOK'
  OBVIOUS
<1> USE BuildAssumption DEF BuildAssumption, IInv, TypeOK, Contents
<1>1. CASE Begin
  BY <1>1 DEF Begin
<1>2. CASE Process
  BY <1>2 DEF Process, WritePart, Finish, Fail, Die
<1>3. CASE ReadOutput
  BY <1>3 DEF ReadOutput
<1>4. CASE Look
  BY <1>4 DEF Look, Made, Untold
<1>5. CASE AskAboutAutorun
  BY <1>5 DEF AskAboutAutorun
<1>6. CASE Mount \/ MountFails
  BY <1>6 DEF Mount, MountFails, AfterMount
<1>7. CASE Cancel
  BY <1>7 DEF Cancel, CancelledDialog
<1>8. CASE UNCHANGED vars
  BY <1>8 DEF vars
<1>9. QED
  BY <1>1, <1>2, <1>3, <1>4, <1>5, <1>6, <1>7, <1>8 DEF Next, OnTimer

\* Every step keeps what the file holds.
LEMMA StepFile ==
    IInv /\ [Next]_vars =>
      (NotBegun /\ Begun /\ SucceededWhole /\ ToldIsMarked /\ WholeOrDeleted)'
<1> SUFFICES ASSUME IInv, [Next]_vars
             PROVE  (NotBegun /\ Begun /\ SucceededWhole /\ ToldIsMarked /\ WholeOrDeleted)'
  OBVIOUS
<1> USE DEF IInv, TypeOK, Contents, NotBegun, Begun, SucceededWhole, ToldIsMarked,
            WholeOrDeleted, MountingMade, KeptBecause
<1>1. CASE Begin
  BY <1>1 DEF Begin
<1>2. CASE Process
  BY <1>2 DEF Process, WritePart, Finish, Fail, Die
<1>3. CASE ReadOutput
  BY <1>3 DEF ReadOutput
<1>4. CASE Look
  BY <1>4 DEF Look, Made, Untold
<1>5. CASE AskAboutAutorun
  BY <1>5 DEF AskAboutAutorun
<1>6. CASE Mount \/ MountFails
  BY <1>6 DEF Mount, MountFails, AfterMount
<1>7. CASE Cancel
  BY <1>7 DEF Cancel, CancelledDialog
<1>8. CASE UNCHANGED vars
  BY <1>8 DEF vars
<1>9. QED
  BY <1>1, <1>2, <1>3, <1>4, <1>5, <1>6, <1>7, <1>8 DEF Next, OnTimer

\* Every step keeps where the dialog can be, and what it mounts and leaves.
LEMMA StepDialog ==
    IInv /\ [Next]_vars =>
      (MountingMade /\ KeptBecause /\ MountedImageIsWhole /\ NothingHalfDone)'
<1> SUFFICES ASSUME IInv, [Next]_vars
             PROVE  (MountingMade /\ KeptBecause /\ MountedImageIsWhole
                       /\ NothingHalfDone)'
  OBVIOUS
<1> USE DEF IInv, TypeOK, Contents, Begun, NotBegun, SucceededWhole, WholeOrDeleted,
            MountingMade, KeptBecause, MountedImageIsWhole, NothingHalfDone
<1>1. CASE Begin
  BY <1>1 DEF Begin
<1>2. CASE Process
  BY <1>2 DEF Process, WritePart, Finish, Fail, Die
<1>3. CASE ReadOutput
  BY <1>3 DEF ReadOutput
<1>4. CASE Look
  BY <1>4 DEF Look, Made, Untold
<1>5. CASE AskAboutAutorun
  BY <1>5 DEF AskAboutAutorun
<1>6. CASE Mount \/ MountFails
  BY <1>6 DEF Mount, MountFails, AfterMount
<1>7. CASE Cancel
  BY <1>7 DEF Cancel, CancelledDialog
<1>8. CASE UNCHANGED vars
  BY <1>8 DEF vars
<1>9. QED
  BY <1>1, <1>2, <1>3, <1>4, <1>5, <1>6, <1>7, <1>8 DEF Next, OnTimer

\* The invariant holds throughout.
LEMMA Invariant == Spec => []IInv
<1>1. Init => IInv
  BY InitIInv
<1>2. IInv /\ [Next]_vars => IInv'
  BY StepType, StepFile, StepDialog DEF IInv
<1>3. QED
  BY <1>1, <1>2, PTL DEF Spec

--------------------------------------------------------------------------------

(* Type correctness of the dialog, the process and the pipe.                 *)
THEOREM BuildTypeCorrect == Spec => []TypeOK
  BY Invariant, PTL DEF IInv

(* An image that the user was told of stays, whatever is clicked, for any    *)
(* size of the image and of the pipe (OnBnClickedCancel).                    *)
THEOREM ReportedStays == Spec => []ReportedImageStays
<1>1. IInv => ReportedImageStays
  BY DEF IInv, ToldIsMarked, SucceededWhole, ReportedImageStays
<1>2. QED
  BY Invariant, <1>1, PTL

(* Only a whole image is mounted (OnTimer).                                  *)
THEOREM MountedIsWhole == Spec => []MountedImageIsWhole
  BY Invariant, PTL DEF IInv

(* A dialog that has closed leaves no part of an image behind.               *)
THEOREM NothingIsHalfDone == Spec => []NothingHalfDone
  BY Invariant, PTL DEF IInv

================================================================================
