------------------------- MODULE VirtualCDDevice_proofs -------------------------
(***************************************************************************)
(* Proofs about one virtual drive, for any number of images, clients and   *)
(* SCSI threads and any two thresholds.                                    *)
(***************************************************************************)
EXTENDS VirtualCDDevice, TLAPS

(* Every step of the drive, as the cases the proofs go through. *)
LEMMA StepCases ==
    ASSUME [Next]_vars
    PROVE  \/ \E c \in Client :
                 \/ \E i \in Passed : Call(c, i)
                 \/ Post(c) \/ TakeOut(c) \/ WaitDone(c) \/ WaitTimeout(c)
           \/ \E s \in Scsi :
                 \/ TurStart(s) \/ TurReply(s) \/ TurAttach(s) \/ TurFault(s)
                 \/ TurRekey(s) \/ TurFinish(s)
                 \/ EjectStart(s) \/ EjectFinish(s)
           \/ ScanStart \/ ScanImage \/ ScanRequest \/ Decide
           \/ Unplug \/ Plugout \/ Elapse
           \/ \E i \in Image : Plugin(i)
           \/ UNCHANGED vars
  BY DEF Next, ClientStep, ScsiStep, TurCount, Scan

--------------------------------------------------------------------------------
(* Type correctness. *)

LEMMA BumpType == \A n \in 0 .. CountCap : Bump(n) \in 0 .. CountCap
  BY CountAssumption DEF Bump, CountCap

LEMMA BumpMonotone ==
    \A m, n \in 0 .. CountCap : m <= n => Bump(m) <= Bump(n)
  BY CountAssumption DEF Bump, CountCap

LEMMA PassedIsImage == Passed \subseteq Image \cup {NoImage}
  BY DEF Passed

LEMMA CapType == CountCap \in Nat
  BY CountAssumption DEF CountCap

LEMMA NoneIsSignalled == [c \in Client |-> FALSE] \in [Client -> BOOLEAN]
  OBVIOUS

LEMMA DeletedType ==
    ASSUME event \in [Client -> BOOLEAN], NEW r
    PROVE  Deleted(r) \in [Client -> BOOLEAN]
  BY DEF Deleted

LEMMA ResetType ==
    ASSUME NEW f \in [Client -> BOOLEAN], NEW c \in Client
    PROVE  [f EXCEPT ![c] = FALSE] \in [Client -> BOOLEAN]
  OBVIOUS

(* The machine after a fault, and a drive that is plugged in, start alike. *)
LEMMA QuietType ==
    ASSUME AllQuiet, plugged' \in BOOLEAN, bugcheck' \in BOOLEAN,
           imagePtr' \in Image \cup {NoImage}
    PROVE  TypeOK'
PROOF
  <1>1. event' \in [Client -> BOOLEAN]
    BY NoneIsSignalled, Zenon DEF AllQuiet
  <1>2. turCalls' \in 0 .. CountCap /\ absent' \in 0 .. CountCap
    BY CapType DEF AllQuiet
  <1>3. client' \in [Client -> [pc : {"idle", "called", "posted", "waiting"},
                                image : Image \cup {NoImage}]]
    BY DEF AllQuiet
  <1> QED
    BY <1>1, <1>2, <1>3 DEF AllQuiet, TypeOK, Scanning

LEMMA TypeStep ==
    ASSUME TypeOK, [Next]_vars
    PROVE  TypeOK'
PROOF
  <1> USE DEF TypeOK
  <1>1. ASSUME NEW c \in Client, NEW i \in Passed, Call(c, i)
        PROVE  TypeOK'
    BY <1>1, PassedIsImage DEF Call, history
  <1>2. ASSUME NEW c \in Client, Post(c)
        PROVE  TypeOK'
    <2>1. event' \in [Client -> BOOLEAN]
      BY <1>2, DeletedType, ResetType, Zenon DEF Post
    <2>2. pending' \in Request
      BY <1>2 DEF Post, Request
    <2>3. turCalls' \in 0 .. CountCap
      BY <1>2, CapType DEF Post
    <2> QED
      BY <1>2, <2>1, <2>2, <2>3 DEF Post, history
  <1>3. ASSUME NEW c \in Client, TakeOut(c)
        PROVE  TypeOK'
    BY <1>3 DEF TakeOut, history
  <1>4. ASSUME NEW c \in Client, WaitDone(c)
        PROVE  TypeOK'
    BY <1>4 DEF WaitDone, device, history
  <1>5. ASSUME NEW c \in Client, WaitTimeout(c)
        PROVE  TypeOK'
    BY <1>5 DEF WaitTimeout, device, history
  <1>6. ASSUME NEW s \in Scsi, TurStart(s)
        PROVE  TypeOK'
    BY <1>6 DEF TurStart, device, history
  <1>7. ASSUME NEW s \in Scsi, TurReply(s)
        PROVE  TypeOK'
    BY <1>7, BumpType DEF TurReply
  <1>8. ASSUME NEW s \in Scsi, TurAttach(s)
        PROVE  TypeOK'
    BY <1>8, BumpType DEF TurAttach, Completes, Request
  <1>9. ASSUME NEW s \in Scsi, TurFault(s)
        PROVE  TypeOK'
    BY <1>9, QuietType DEF TurFault
  <1>10. ASSUME NEW s \in Scsi, TurRekey(s)
        PROVE  TypeOK'
    BY <1>10 DEF TurRekey, device, history
  <1>11. ASSUME NEW s \in Scsi, TurFinish(s)
        PROVE  TypeOK'
    BY <1>11, DeletedType, CapType DEF TurFinish
  <1>12. ASSUME NEW s \in Scsi, EjectStart(s)
        PROVE  TypeOK'
    BY <1>12 DEF EjectStart, history
  <1>13. ASSUME NEW s \in Scsi, EjectFinish(s)
        PROVE  TypeOK'
    BY <1>13 DEF EjectFinish
  <1>14. ASSUME ScanStart
        PROVE  TypeOK'
    BY <1>14 DEF ScanStart, Scanning, device, history
  <1>15. ASSUME ScanImage
        PROVE  TypeOK'
    BY <1>15 DEF ScanImage, Scanning, device, history
  <1>16. ASSUME ScanRequest
        PROVE  TypeOK'
    BY <1>16 DEF ScanRequest, Scanning, device, history
  <1>17. ASSUME Decide
        PROVE  TypeOK'
    BY <1>17 DEF Decide, Scanning, device, history
  <1>18. ASSUME Unplug
        PROVE  TypeOK'
    BY <1>18 DEF Unplug, history
  <1>19. ASSUME Plugout
        PROVE  TypeOK'
    BY <1>19 DEF Plugout, history
  <1>20. ASSUME Elapse
        PROVE  TypeOK'
    BY <1>20 DEF Elapse, history
  <1>21. ASSUME NEW i \in Image, Plugin(i)
        PROVE  TypeOK'
    BY <1>21, QuietType DEF Plugin
  <1>22. ASSUME UNCHANGED vars
        PROVE  TypeOK'
    BY <1>22 DEF vars, device, history
  <1> QED
    BY StepCases, <1>1, <1>2, <1>3, <1>4, <1>5, <1>6, <1>7, <1>8, <1>9, <1>10, <1>11, <1>12, <1>13, <1>14, <1>15, <1>16, <1>17, <1>18, <1>19, <1>20, <1>21, <1>22

(* Every variable of the drive keeps its type, whichever of the unlocked reads *)
(* and writes of VirtualCDDevice.cpp come between each other.                   *)
THEOREM TypeCorrect == Spec => []TypeOK
PROOF
  <1>1. Init => TypeOK
    <2> SUFFICES ASSUME Init PROVE TypeOK
      OBVIOUS
    <2>1. event \in [Client -> BOOLEAN]
      BY NoneIsSignalled, Zenon DEF Init
    <2>2. client \in [Client -> [pc : {"idle", "called", "posted", "waiting"},
                                 image : Image \cup {NoImage}]]
      BY DEF Init
    <2>3. turCalls \in 0 .. CountCap /\ absent \in 0 .. CountCap
      BY CapType DEF Init
    <2>4. scsi \in [Scsi -> {"idle", "noMedium", "attached", "keyed", "ejecting"}]
      BY DEF Init
    <2> QED
      BY <2>1, <2>2, <2>3, <2>4 DEF Init, TypeOK, Scanning
  <1>2. TypeOK /\ [Next]_vars => TypeOK'
    BY TypeStep
  <1> QED
    BY <1>1, <1>2, PTL DEF Spec

--------------------------------------------------------------------------------
(* The mutex and the slot. *)

(* The thread that completes a replacement holds the mutex, from the moment *)
(* it attaches the image to the moment it deletes the request; so there is  *)
(* one at most, and a request for it to complete.                           *)
Completing == {"attached", "keyed"}

LockDiscipline ==
    /\ \A s \in Scsi : scsi[s] \in Completing <=> mutex = s
    /\ mutex # NoThread => pending # None

LEMMA RequestIsNotNone ==
    \A c \in Client : \A i : [client |-> c, image |-> i] # None
  BY SentinelAssumption DEF None

LEMMA LockStep ==
    ASSUME TypeOK, LockDiscipline, [Next]_vars
    PROVE  LockDiscipline'
PROOF
  <1> USE SentinelAssumption DEF TypeOK, LockDiscipline, Completing
  <1>1. ASSUME NEW c \in Client, NEW i \in Passed, Call(c, i)
        PROVE  LockDiscipline'
    BY <1>1 DEF Call, history
  <1>2. ASSUME NEW c \in Client, Post(c)
        PROVE  LockDiscipline'
    BY <1>2, RequestIsNotNone DEF Post, history
  <1>3. ASSUME NEW c \in Client, TakeOut(c)
        PROVE  LockDiscipline'
    BY <1>3 DEF TakeOut, history
  <1>4. ASSUME NEW c \in Client, WaitDone(c)
        PROVE  LockDiscipline'
    BY <1>4 DEF WaitDone, device, history
  <1>5. ASSUME NEW c \in Client, WaitTimeout(c)
        PROVE  LockDiscipline'
    BY <1>5 DEF WaitTimeout, device, history
  <1>6. ASSUME NEW s \in Scsi, TurStart(s)
        PROVE  LockDiscipline'
    BY <1>6 DEF TurStart, device, history
  <1>7. ASSUME NEW s \in Scsi, TurReply(s)
        PROVE  LockDiscipline'
    BY <1>7 DEF TurReply
  <1>8. ASSUME NEW s \in Scsi, TurAttach(s)
        PROVE  LockDiscipline'
    BY <1>8 DEF TurAttach, Completes
  <1>9. ASSUME NEW s \in Scsi, TurFault(s)
        PROVE  LockDiscipline'
    BY <1>9 DEF TurFault, AllQuiet
  <1>10. ASSUME NEW s \in Scsi, TurRekey(s)
        PROVE  LockDiscipline'
    BY <1>10 DEF TurRekey, device, history
  <1>11. ASSUME NEW s \in Scsi, TurFinish(s)
        PROVE  LockDiscipline'
    BY <1>11 DEF TurFinish
  <1>12. ASSUME NEW s \in Scsi, EjectStart(s)
        PROVE  LockDiscipline'
    BY <1>12 DEF EjectStart, history
  <1>13. ASSUME NEW s \in Scsi, EjectFinish(s)
        PROVE  LockDiscipline'
    BY <1>13 DEF EjectFinish
  <1>14. ASSUME ScanStart
        PROVE  LockDiscipline'
    BY <1>14 DEF ScanStart, device, history
  <1>15. ASSUME ScanImage
        PROVE  LockDiscipline'
    BY <1>15 DEF ScanImage, device, history
  <1>16. ASSUME ScanRequest
        PROVE  LockDiscipline'
    BY <1>16 DEF ScanRequest, device, history
  <1>17. ASSUME Decide
        PROVE  LockDiscipline'
    BY <1>17 DEF Decide, device, history
  <1>18. ASSUME Unplug
        PROVE  LockDiscipline'
    BY <1>18 DEF Unplug, history
  <1>19. ASSUME Plugout
        PROVE  LockDiscipline'
    BY <1>19 DEF Plugout, history
  <1>20. ASSUME Elapse
        PROVE  LockDiscipline'
    BY <1>20 DEF Elapse, history
  <1>21. ASSUME NEW i \in Image, Plugin(i)
        PROVE  LockDiscipline'
    BY <1>21 DEF Plugin, AllQuiet
  <1>22. ASSUME UNCHANGED vars
        PROVE  LockDiscipline'
    BY <1>22 DEF vars, device, history
  <1> QED
    BY StepCases, <1>1, <1>2, <1>3, <1>4, <1>5, <1>6, <1>7, <1>8, <1>9, <1>10, <1>11,
       <1>12, <1>13, <1>14, <1>15, <1>16, <1>17, <1>18, <1>19, <1>20, <1>21, <1>22

(* OnTestUnitReady: a thread that completes a replacement holds the mutex from *)
(* attaching the image to deleting the request, alone, with the request there. *)
THEOREM LocksHeld == Spec => []LockDiscipline
PROOF
  <1>1. Init => LockDiscipline
    BY SentinelAssumption DEF Init, LockDiscipline, Completing
  <1>2. TypeOK /\ LockDiscipline /\ [Next]_vars => LockDiscipline'
    BY LockStep
  <1> QED
    BY <1>1, <1>2, TypeCorrect, PTL DEF Spec

--------------------------------------------------------------------------------
(* The verdict of the cleanup thread. *)

(* While a replacement is about to drop its request, the cleanup thread is  *)
(* past an image it found missing only if the image is missing: it cannot   *)
(* have looked before the drive was renamed, for it held the map then.      *)
RekeyedSound ==
    \A s \in Scsi :
        (scsi[s] = "keyed" /\ cleaner = "sawNoImage") => imagePtr = NoImage

VerdictInv == RekeyedSound /\ VerdictSound

LEMMA VerdictStep ==
    ASSUME TypeOK, LockDiscipline, VerdictInv, [Next]_vars
    PROVE  VerdictInv'
PROOF
  <1> USE SentinelAssumption
      DEF TypeOK, LockDiscipline, Completing, VerdictInv, RekeyedSound, VerdictSound
  <1>1. ASSUME NEW c \in Client, NEW i \in Passed, Call(c, i)
        PROVE  VerdictInv'
    BY <1>1 DEF Call, history
  <1>2. ASSUME NEW c \in Client, Post(c)
        PROVE  VerdictInv'
    BY <1>2, RequestIsNotNone DEF Post, history
  <1>3. ASSUME NEW c \in Client, TakeOut(c)
        PROVE  VerdictInv'
    BY <1>3 DEF TakeOut, history
  <1>4. ASSUME NEW c \in Client, WaitDone(c)
        PROVE  VerdictInv'
    BY <1>4 DEF WaitDone, device, history
  <1>5. ASSUME NEW c \in Client, WaitTimeout(c)
        PROVE  VerdictInv'
    BY <1>5 DEF WaitTimeout, device, history
  <1>6. ASSUME NEW s \in Scsi, TurStart(s)
        PROVE  VerdictInv'
    BY <1>6 DEF TurStart, device, history
  <1>7. ASSUME NEW s \in Scsi, TurReply(s)
        PROVE  VerdictInv'
    BY <1>7 DEF TurReply
  <1>8. ASSUME NEW s \in Scsi, TurAttach(s)
        PROVE  VerdictInv'
    BY <1>8 DEF TurAttach, Completes
  <1>9. ASSUME NEW s \in Scsi, TurFault(s)
        PROVE  VerdictInv'
    BY <1>9 DEF TurFault, AllQuiet
  <1>10. ASSUME NEW s \in Scsi, TurRekey(s)
        PROVE  VerdictInv'
    BY <1>10 DEF TurRekey, device, history, MapLockFree, Scanning
  <1>11. ASSUME NEW s \in Scsi, TurFinish(s)
        PROVE  VerdictInv'
    BY <1>11 DEF TurFinish
  <1>12. ASSUME NEW s \in Scsi, EjectStart(s)
        PROVE  VerdictInv'
    BY <1>12 DEF EjectStart, history
  <1>13. ASSUME NEW s \in Scsi, EjectFinish(s)
        PROVE  VerdictInv'
    BY <1>13 DEF EjectFinish
  <1>14. ASSUME ScanStart
        PROVE  VerdictInv'
    BY <1>14 DEF ScanStart, device, history
  <1>15. ASSUME ScanImage
        PROVE  VerdictInv'
    BY <1>15 DEF ScanImage, device, history
  <1>16. ASSUME ScanRequest
        PROVE  VerdictInv'
    BY <1>16 DEF ScanRequest, device, history
  <1>17. ASSUME Decide
        PROVE  VerdictInv'
    BY <1>17 DEF Decide, device, history
  <1>18. ASSUME Unplug
        PROVE  VerdictInv'
    BY <1>18 DEF Unplug, history
  <1>19. ASSUME Plugout
        PROVE  VerdictInv'
    BY <1>19 DEF Plugout, history
  <1>20. ASSUME Elapse
        PROVE  VerdictInv'
    BY <1>20 DEF Elapse, history
  <1>21. ASSUME NEW i \in Image, Plugin(i)
        PROVE  VerdictInv'
    BY <1>21 DEF Plugin, AllQuiet
  <1>22. ASSUME UNCHANGED vars
        PROVE  VerdictInv'
    BY <1>22 DEF vars, device, history
  <1> QED
    BY StepCases, <1>1, <1>2, <1>3, <1>4, <1>5, <1>6, <1>7, <1>8, <1>9, <1>10, <1>11,
       <1>12, <1>13, <1>14, <1>15, <1>16, <1>17, <1>18, <1>19, <1>20, <1>21, <1>22

(* For every number of clients and threads, the cleanup thread never finds  *)
(* a drive without a request that it saw without an image and that has one. *)
THEOREM VerdictIsSound == Spec => []VerdictSound
PROOF
  <1>1. Init => VerdictInv
    BY DEF Init, VerdictInv, RekeyedSound, VerdictSound
  <1>2. TypeOK /\ LockDiscipline /\ VerdictInv /\ [Next]_vars => VerdictInv'
    BY VerdictStep
  <1>3. VerdictInv => VerdictSound
    BY DEF VerdictInv
  <1> QED
    BY <1>1, <1>2, <1>3, TypeCorrect, LocksHeld, PTL DEF Spec

--------------------------------------------------------------------------------
(* The clients that wait. *)

LEMMA WaiterStep ==
    ASSUME TypeOK, NoLostWaiter, [Next]_vars
    PROVE  NoLostWaiter'
PROOF
  <1> USE DEF TypeOK, NoLostWaiter
  <1>1. ASSUME NEW c \in Client, NEW i \in Passed, Call(c, i)
        PROVE  NoLostWaiter'
    BY <1>1 DEF Call, history
  <1>2. ASSUME NEW c \in Client, Post(c)
        PROVE  NoLostWaiter'
    BY <1>2 DEF Post, history, Deleted
  <1>3. ASSUME NEW c \in Client, TakeOut(c)
        PROVE  NoLostWaiter'
    BY <1>3 DEF TakeOut, history
  <1>4. ASSUME NEW c \in Client, WaitDone(c)
        PROVE  NoLostWaiter'
    BY <1>4 DEF WaitDone, device, history
  <1>5. ASSUME NEW c \in Client, WaitTimeout(c)
        PROVE  NoLostWaiter'
    BY <1>5 DEF WaitTimeout, device, history
  <1>6. ASSUME NEW s \in Scsi, TurStart(s)
        PROVE  NoLostWaiter'
    BY <1>6 DEF TurStart, device, history
  <1>7. ASSUME NEW s \in Scsi, TurReply(s)
        PROVE  NoLostWaiter'
    BY <1>7 DEF TurReply
  <1>8. ASSUME NEW s \in Scsi, TurAttach(s)
        PROVE  NoLostWaiter'
    BY <1>8 DEF TurAttach
  <1>9. ASSUME NEW s \in Scsi, TurFault(s)
        PROVE  NoLostWaiter'
    BY <1>9 DEF TurFault, AllQuiet
  <1>10. ASSUME NEW s \in Scsi, TurRekey(s)
        PROVE  NoLostWaiter'
    BY <1>10 DEF TurRekey, device, history
  <1>11. ASSUME NEW s \in Scsi, TurFinish(s)
        PROVE  NoLostWaiter'
    BY <1>11 DEF TurFinish, Deleted
  <1>12. ASSUME NEW s \in Scsi, EjectStart(s)
        PROVE  NoLostWaiter'
    BY <1>12 DEF EjectStart, history
  <1>13. ASSUME NEW s \in Scsi, EjectFinish(s)
        PROVE  NoLostWaiter'
    BY <1>13 DEF EjectFinish
  <1>14. ASSUME ScanStart
        PROVE  NoLostWaiter'
    BY <1>14 DEF ScanStart, device, history
  <1>15. ASSUME ScanImage
        PROVE  NoLostWaiter'
    BY <1>15 DEF ScanImage, device, history
  <1>16. ASSUME ScanRequest
        PROVE  NoLostWaiter'
    BY <1>16 DEF ScanRequest, device, history
  <1>17. ASSUME Decide
        PROVE  NoLostWaiter'
    BY <1>17 DEF Decide, device, history
  <1>18. ASSUME Unplug
        PROVE  NoLostWaiter'
    BY <1>18 DEF Unplug, history
  <1>19. ASSUME Plugout
        PROVE  NoLostWaiter'
    BY <1>19 DEF Plugout, history
  <1>20. ASSUME Elapse
        PROVE  NoLostWaiter'
    BY <1>20 DEF Elapse, history
  <1>21. ASSUME NEW i \in Image, Plugin(i)
        PROVE  NoLostWaiter'
    BY <1>21 DEF Plugin, AllQuiet
  <1>22. ASSUME UNCHANGED vars
        PROVE  NoLostWaiter'
    BY <1>22 DEF vars, device, history
  <1> QED
    BY StepCases, <1>1, <1>2, <1>3, <1>4, <1>5, <1>6, <1>7, <1>8, <1>9, <1>10, <1>11,
       <1>12, <1>13, <1>14, <1>15, <1>16, <1>17, <1>18, <1>19, <1>20, <1>21, <1>22

(* However many replacements overlap, a client that still waits for an      *)
(* event nobody has signalled has its request in the slot.                  *)
THEOREM NoWaiterIsLost == Spec => []NoLostWaiter
PROOF
  <1>1. Init => NoLostWaiter
    BY DEF Init, NoLostWaiter
  <1>2. TypeOK /\ NoLostWaiter /\ [Next]_vars => NoLostWaiter'
    BY WaiterStep
  <1> QED
    BY <1>1, <1>2, TypeCorrect, PTL DEF Spec

LEMMA OldImageStep ==
    ASSUME TypeOK, OldImageGone, [Next]_vars
    PROVE  OldImageGone'
PROOF
  <1> USE SentinelAssumption DEF TypeOK, OldImageGone
  <1>1. ASSUME NEW c \in Client, NEW i \in Passed, Call(c, i)
        PROVE  OldImageGone'
    BY <1>1 DEF Call, history
  <1>2. ASSUME NEW c \in Client, Post(c)
        PROVE  OldImageGone'
    BY <1>2 DEF Post, history
  <1>3. ASSUME NEW c \in Client, TakeOut(c)
        PROVE  OldImageGone'
    BY <1>3 DEF TakeOut, history
  <1>4. ASSUME NEW c \in Client, WaitDone(c)
        PROVE  OldImageGone'
    BY <1>4 DEF WaitDone, device, history
  <1>5. ASSUME NEW c \in Client, WaitTimeout(c)
        PROVE  OldImageGone'
    BY <1>5 DEF WaitTimeout, device, history
  <1>6. ASSUME NEW s \in Scsi, TurStart(s)
        PROVE  OldImageGone'
    BY <1>6 DEF TurStart, device, history
  <1>7. ASSUME NEW s \in Scsi, TurReply(s)
        PROVE  OldImageGone'
    BY <1>7 DEF TurReply
  <1>8. ASSUME NEW s \in Scsi, TurAttach(s)
        PROVE  OldImageGone'
    BY <1>8 DEF TurAttach, Completes
  <1>9. ASSUME NEW s \in Scsi, TurFault(s)
        PROVE  OldImageGone'
    BY <1>9 DEF TurFault, AllQuiet
  <1>10. ASSUME NEW s \in Scsi, TurRekey(s)
        PROVE  OldImageGone'
    BY <1>10 DEF TurRekey, device, history
  <1>11. ASSUME NEW s \in Scsi, TurFinish(s)
        PROVE  OldImageGone'
    BY <1>11 DEF TurFinish, None
  <1>12. ASSUME NEW s \in Scsi, EjectStart(s)
        PROVE  OldImageGone'
    BY <1>12 DEF EjectStart, history
  <1>13. ASSUME NEW s \in Scsi, EjectFinish(s)
        PROVE  OldImageGone'
    BY <1>13 DEF EjectFinish
  <1>14. ASSUME ScanStart
        PROVE  OldImageGone'
    BY <1>14 DEF ScanStart, device, history
  <1>15. ASSUME ScanImage
        PROVE  OldImageGone'
    BY <1>15 DEF ScanImage, device, history
  <1>16. ASSUME ScanRequest
        PROVE  OldImageGone'
    BY <1>16 DEF ScanRequest, device, history
  <1>17. ASSUME Decide
        PROVE  OldImageGone'
    BY <1>17 DEF Decide, device, history
  <1>18. ASSUME Unplug
        PROVE  OldImageGone'
    BY <1>18 DEF Unplug, history
  <1>19. ASSUME Plugout
        PROVE  OldImageGone'
    BY <1>19 DEF Plugout, history
  <1>20. ASSUME Elapse
        PROVE  OldImageGone'
    BY <1>20 DEF Elapse, history
  <1>21. ASSUME NEW i \in Image, Plugin(i)
        PROVE  OldImageGone'
    BY <1>21 DEF Plugin, AllQuiet
  <1>22. ASSUME UNCHANGED vars
        PROVE  OldImageGone'
    BY <1>22 DEF vars, device, history
  <1> QED
    BY StepCases, <1>1, <1>2, <1>3, <1>4, <1>5, <1>6, <1>7, <1>8, <1>9, <1>10, <1>11,
       <1>12, <1>13, <1>14, <1>15, <1>16, <1>17, <1>18, <1>19, <1>20, <1>21, <1>22

(* A client that was told its replacement is under way never sees an image  *)
(* other than its own in the drive while its request is the pending one.    *)
THEOREM OldImageIsGone == Spec => []OldImageGone
PROOF
  <1>1. Init => OldImageGone
    BY DEF Init, OldImageGone
  <1>2. TypeOK /\ OldImageGone /\ [Next]_vars => OldImageGone'
    BY OldImageStep
  <1> QED
    BY <1>1, <1>2, TypeCorrect, PTL DEF Spec

--------------------------------------------------------------------------------
(* The medium change the system sees. *)

(* While a replacement is pending, no more calls were counted than the      *)
(* system was told about since the last image: the count was restarted when *)
(* the request was made, though not when the image before it was attached.  *)
CountsAgree == pending # None => turCalls <= absent

LEMMA CountsStep ==
    ASSUME TypeOK, CountsAgree, [Next]_vars
    PROVE  CountsAgree'
PROOF
  <1> USE DEF TypeOK, CountsAgree
  <1>1. ASSUME NEW c \in Client, NEW i \in Passed, Call(c, i)
        PROVE  CountsAgree'
    BY <1>1 DEF Call, history
  <1>2. ASSUME NEW c \in Client, Post(c)
        PROVE  CountsAgree'
    BY <1>2, CapType DEF Post, history
  <1>3. ASSUME NEW c \in Client, TakeOut(c)
        PROVE  CountsAgree'
    BY <1>3 DEF TakeOut, history
  <1>4. ASSUME NEW c \in Client, WaitDone(c)
        PROVE  CountsAgree'
    BY <1>4 DEF WaitDone, device, history
  <1>5. ASSUME NEW c \in Client, WaitTimeout(c)
        PROVE  CountsAgree'
    BY <1>5 DEF WaitTimeout, device, history
  <1>6. ASSUME NEW s \in Scsi, TurStart(s)
        PROVE  CountsAgree'
    BY <1>6 DEF TurStart, device, history
  <1>7. ASSUME NEW s \in Scsi, TurReply(s)
        PROVE  CountsAgree'
    BY <1>7, BumpMonotone DEF TurReply
  <1>8. ASSUME NEW s \in Scsi, TurAttach(s)
        PROVE  CountsAgree'
    BY <1>8, BumpMonotone DEF TurAttach
  <1>9. ASSUME NEW s \in Scsi, TurFault(s)
        PROVE  CountsAgree'
    BY <1>9 DEF TurFault, AllQuiet
  <1>10. ASSUME NEW s \in Scsi, TurRekey(s)
        PROVE  CountsAgree'
    BY <1>10 DEF TurRekey, device, history
  <1>11. ASSUME NEW s \in Scsi, TurFinish(s)
        PROVE  CountsAgree'
    BY <1>11 DEF TurFinish
  <1>12. ASSUME NEW s \in Scsi, EjectStart(s)
        PROVE  CountsAgree'
    BY <1>12 DEF EjectStart, history
  <1>13. ASSUME NEW s \in Scsi, EjectFinish(s)
        PROVE  CountsAgree'
    BY <1>13 DEF EjectFinish
  <1>14. ASSUME ScanStart
        PROVE  CountsAgree'
    BY <1>14 DEF ScanStart, device, history
  <1>15. ASSUME ScanImage
        PROVE  CountsAgree'
    BY <1>15 DEF ScanImage, device, history
  <1>16. ASSUME ScanRequest
        PROVE  CountsAgree'
    BY <1>16 DEF ScanRequest, device, history
  <1>17. ASSUME Decide
        PROVE  CountsAgree'
    BY <1>17 DEF Decide, device, history
  <1>18. ASSUME Unplug
        PROVE  CountsAgree'
    BY <1>18 DEF Unplug, history
  <1>19. ASSUME Plugout
        PROVE  CountsAgree'
    BY <1>19 DEF Plugout, history
  <1>20. ASSUME Elapse
        PROVE  CountsAgree'
    BY <1>20 DEF Elapse, history
  <1>21. ASSUME NEW i \in Image, Plugin(i)
        PROVE  CountsAgree'
    BY <1>21 DEF Plugin, AllQuiet
  <1>22. ASSUME UNCHANGED vars
        PROVE  CountsAgree'
    BY <1>22 DEF vars, device, history
  <1> QED
    BY StepCases, <1>1, <1>2, <1>3, <1>4, <1>5, <1>6, <1>7, <1>8, <1>9, <1>10, <1>11,
       <1>12, <1>13, <1>14, <1>15, <1>16, <1>17, <1>18, <1>19, <1>20, <1>21, <1>22

(* While a request is pending, the system was given at least as many answers   *)
(* "no medium" as calls were counted (m_TestUnitReadyCallsSinceUnmount).        *)
THEOREM CountsAlwaysAgree == Spec => []CountsAgree
PROOF
  <1>1. Init => CountsAgree
    BY DEF Init, CountsAgree
  <1>2. TypeOK /\ CountsAgree /\ [Next]_vars => CountsAgree'
    BY CountsStep
  <1> QED
    BY <1>1, <1>2, TypeCorrect, PTL DEF Spec

(* An image comes into the drive in one way only: TEST UNIT READY.          *)
LEMMA OnlyAttachBringsImage ==
    ASSUME [Next]_vars, plugged, imagePtr' \notin {imagePtr, NoImage}
    PROVE  \E s \in Scsi : TurAttach(s)
PROOF
  <1> SUFFICES ASSUME ~ \E s \in Scsi : TurAttach(s)
               PROVE  imagePtr' \in {imagePtr, NoImage}
    OBVIOUS
  <1>1. ASSUME NEW c \in Client, NEW i \in Passed, Call(c, i)
        PROVE  imagePtr' \in {imagePtr, NoImage}
    BY <1>1 DEF Call, history
  <1>2. ASSUME NEW c \in Client, Post(c)
        PROVE  imagePtr' \in {imagePtr, NoImage}
    BY <1>2 DEF Post, history
  <1>3. ASSUME NEW c \in Client, TakeOut(c)
        PROVE  imagePtr' \in {imagePtr, NoImage}
    BY <1>3 DEF TakeOut, history
  <1>4. ASSUME NEW c \in Client, WaitDone(c)
        PROVE  imagePtr' \in {imagePtr, NoImage}
    BY <1>4 DEF WaitDone, device, history
  <1>5. ASSUME NEW c \in Client, WaitTimeout(c)
        PROVE  imagePtr' \in {imagePtr, NoImage}
    BY <1>5 DEF WaitTimeout, device, history
  <1>6. ASSUME NEW s \in Scsi, TurStart(s)
        PROVE  imagePtr' \in {imagePtr, NoImage}
    BY <1>6 DEF TurStart, device, history
  <1>7. ASSUME NEW s \in Scsi, TurReply(s)
        PROVE  imagePtr' \in {imagePtr, NoImage}
    BY <1>7 DEF TurReply
  <1>8. ASSUME NEW s \in Scsi, TurAttach(s)
        PROVE  imagePtr' \in {imagePtr, NoImage}
    BY <1>8 DEF TurAttach
  <1>9. ASSUME NEW s \in Scsi, TurFault(s)
        PROVE  imagePtr' \in {imagePtr, NoImage}
    BY <1>9 DEF TurFault, AllQuiet
  <1>10. ASSUME NEW s \in Scsi, TurRekey(s)
        PROVE  imagePtr' \in {imagePtr, NoImage}
    BY <1>10 DEF TurRekey, device, history
  <1>11. ASSUME NEW s \in Scsi, TurFinish(s)
        PROVE  imagePtr' \in {imagePtr, NoImage}
    BY <1>11 DEF TurFinish
  <1>12. ASSUME NEW s \in Scsi, EjectStart(s)
        PROVE  imagePtr' \in {imagePtr, NoImage}
    BY <1>12 DEF EjectStart, history
  <1>13. ASSUME NEW s \in Scsi, EjectFinish(s)
        PROVE  imagePtr' \in {imagePtr, NoImage}
    BY <1>13 DEF EjectFinish
  <1>14. ASSUME ScanStart
        PROVE  imagePtr' \in {imagePtr, NoImage}
    BY <1>14 DEF ScanStart, device, history
  <1>15. ASSUME ScanImage
        PROVE  imagePtr' \in {imagePtr, NoImage}
    BY <1>15 DEF ScanImage, device, history
  <1>16. ASSUME ScanRequest
        PROVE  imagePtr' \in {imagePtr, NoImage}
    BY <1>16 DEF ScanRequest, device, history
  <1>17. ASSUME Decide
        PROVE  imagePtr' \in {imagePtr, NoImage}
    BY <1>17 DEF Decide, device, history
  <1>18. ASSUME Unplug
        PROVE  imagePtr' \in {imagePtr, NoImage}
    BY <1>18 DEF Unplug, history
  <1>19. ASSUME Plugout
        PROVE  imagePtr' \in {imagePtr, NoImage}
    BY <1>19 DEF Plugout, history
  <1>20. ASSUME Elapse
        PROVE  imagePtr' \in {imagePtr, NoImage}
    BY <1>20 DEF Elapse, history
  <1>21. ASSUME NEW i \in Image, Plugin(i)
        PROVE  imagePtr' \in {imagePtr, NoImage}
    BY <1>21 DEF Plugin, AllQuiet
  <1>22. ASSUME UNCHANGED vars
        PROVE  imagePtr' \in {imagePtr, NoImage}
    BY <1>22 DEF vars, device, history
  <1> QED
    BY StepCases, <1>1, <1>2, <1>3, <1>4, <1>5, <1>6, <1>7, <1>8, <1>9, <1>10, <1>11,
       <1>12, <1>13, <1>14, <1>15, <1>16, <1>17, <1>18, <1>19, <1>20, <1>21, <1>22

LEMMA AttachIsLate ==
    ASSUME TypeOK, CountsAgree, NEW s \in Scsi, TurAttach(s)
    PROVE  absent' >= CallsToComplete
PROOF
  <1>1. Bump(turCalls) >= CallsToComplete /\ turCalls <= absent
    BY DEF TurAttach, Completes, CountsAgree
  <1>2. Bump(turCalls) <= Bump(absent) /\ Bump(absent) \in Nat /\ Bump(turCalls) \in Nat
    BY <1>1, BumpMonotone, BumpType, CapType DEF TypeOK
  <1> QED
    BY <1>1, <1>2, CountAssumption DEF TurAttach

(* Whatever the two thresholds are, the system is told CallsToComplete      *)
(* times that there is no medium before it sees another image.              *)
THEOREM MediumChangeIsVisible == Spec => MediumChangeVisible
PROOF
  <1>1. ASSUME TypeOK, CountsAgree, [Next]_vars
        PROVE  (plugged /\ imagePtr' \notin {imagePtr, NoImage})
                   => absent' >= CallsToComplete
    BY <1>1, OnlyAttachBringsImage, AttachIsLate
  <1>2. TypeOK /\ CountsAgree /\ [Next]_vars
            => [(plugged /\ imagePtr' \notin {imagePtr, NoImage})
                    => absent' >= CallsToComplete]_vars
    BY <1>1
  <1> QED
    BY <1>2, TypeCorrect, CountsAlwaysAgree, PTL DEF Spec, MediumChangeVisible

--------------------------------------------------------------------------------
(* The drive implements RemountSlot. *)

SlotMap == [c \in Client |-> SlotOf(c)]

LEMMA SlotInitial ==
    ASSUME Init
    PROVE  Slot!SlotInit
PROOF
  <1>1. \A c \in Client : SlotOf(c) = "none"
    BY SentinelAssumption DEF Init, SlotOf, None
  <1> QED
    BY <1>1 DEF Slot!SlotInit

(* A step that leaves the slot and the events alone. *)
LEMMA SlotUntouched ==
    ASSUME UNCHANGED <<pending, event>>
    PROVE  UNCHANGED SlotMap
  BY DEF SlotMap, SlotOf

(* A drive without a request and without a signalled event. *)
LEMMA SlotForgotten ==
    ASSUME AllQuiet
    PROVE  Slot!Forget
PROOF
  <1>1. \A c \in Client : SlotOf(c)' = "none"
    BY SentinelAssumption DEF AllQuiet, SlotOf, None
  <1> QED
    BY <1>1 DEF Slot!Forget

(* The new request supersedes the one in the slot, whose client is told.    *)
LEMMA PostSubmits ==
    ASSUME TypeOK, NEW c \in Client, Post(c)
    PROVE  Slot!Submit(c)
PROOF
  <1>1. SlotOf(c)' = "outstanding"
    BY DEF Post, SlotOf
  <1>2. ASSUME NEW x \in Client, x # c
        PROVE  SlotOf(x)' = IF SlotOf(x) = "outstanding" THEN "told" ELSE SlotOf(x)
    <2>1. pending'.client # x
      BY <1>2 DEF Post
    <2>2. event'[x] = Deleted(pending)[x]
      BY <1>2, DeletedType DEF Post, TypeOK
    <2>3. Deleted(pending)[x] = IF x = pending.client THEN TRUE ELSE event[x]
      BY DEF Deleted
    <2> QED
      BY <2>1, <2>2, <2>3 DEF SlotOf
  <1> QED
    BY <1>1, <1>2 DEF Slot!Submit

(* The request that is deleted is the one in the slot.                      *)
LEMMA FinishCompletes ==
    ASSUME TypeOK, LockDiscipline, NEW s \in Scsi, TurFinish(s)
    PROVE  \E c \in Client : Slot!Complete(c)
PROOF
  <1>1. pending.client \in Client
    BY SentinelAssumption
       DEF TurFinish, LockDiscipline, Completing, TypeOK, Request, None
  <1>2. PICK c \in Client : c = pending.client
    BY <1>1
  <1>3. SlotOf(c) = "outstanding"
    BY <1>2 DEF SlotOf
  <1>4. SlotOf(c)' = "told"
    BY <1>2, SentinelAssumption DEF TurFinish, Deleted, SlotOf, None
  <1>5. ASSUME NEW x \in Client, x # c
        PROVE  SlotOf(x)' = SlotOf(x)
    BY <1>2, <1>5, SentinelAssumption DEF TurFinish, Deleted, SlotOf, None
  <1> QED
    BY <1>3, <1>4, <1>5 DEF Slot!Complete

LEMMA SlotStep ==
    ASSUME TypeOK, LockDiscipline, [Next]_vars
    PROVE  [Slot!SlotNext]_SlotMap
PROOF
  <1> USE DEF Slot!SlotNext
  <1>1. ASSUME NEW c \in Client, NEW i \in Passed, Call(c, i)
        PROVE  [Slot!SlotNext]_SlotMap
    BY <1>1, SlotUntouched DEF Call, history
  <1>2. ASSUME NEW c \in Client, Post(c)
        PROVE  [Slot!SlotNext]_SlotMap
    BY <1>2, PostSubmits
  <1>3. ASSUME NEW c \in Client, TakeOut(c)
        PROVE  [Slot!SlotNext]_SlotMap
    BY <1>3, SlotUntouched DEF TakeOut, history
  <1>4. ASSUME NEW c \in Client, WaitDone(c)
        PROVE  [Slot!SlotNext]_SlotMap
    BY <1>4, SlotUntouched DEF WaitDone, device, history
  <1>5. ASSUME NEW c \in Client, WaitTimeout(c)
        PROVE  [Slot!SlotNext]_SlotMap
    BY <1>5, SlotUntouched DEF WaitTimeout, device, history
  <1>6. ASSUME NEW s \in Scsi, TurStart(s)
        PROVE  [Slot!SlotNext]_SlotMap
    BY <1>6, SlotUntouched DEF TurStart, device, history
  <1>7. ASSUME NEW s \in Scsi, TurReply(s)
        PROVE  [Slot!SlotNext]_SlotMap
    BY <1>7, SlotUntouched DEF TurReply
  <1>8. ASSUME NEW s \in Scsi, TurAttach(s)
        PROVE  [Slot!SlotNext]_SlotMap
    BY <1>8, SlotUntouched DEF TurAttach
  <1>9. ASSUME NEW s \in Scsi, TurFault(s)
        PROVE  [Slot!SlotNext]_SlotMap
    BY <1>9, SlotForgotten DEF TurFault
  <1>10. ASSUME NEW s \in Scsi, TurRekey(s)
        PROVE  [Slot!SlotNext]_SlotMap
    BY <1>10, SlotUntouched DEF TurRekey, device, history
  <1>11. ASSUME NEW s \in Scsi, TurFinish(s)
        PROVE  [Slot!SlotNext]_SlotMap
    BY <1>11, FinishCompletes
  <1>12. ASSUME NEW s \in Scsi, EjectStart(s)
        PROVE  [Slot!SlotNext]_SlotMap
    BY <1>12, SlotUntouched DEF EjectStart, history
  <1>13. ASSUME NEW s \in Scsi, EjectFinish(s)
        PROVE  [Slot!SlotNext]_SlotMap
    BY <1>13, SlotUntouched DEF EjectFinish
  <1>14. ASSUME ScanStart
        PROVE  [Slot!SlotNext]_SlotMap
    BY <1>14, SlotUntouched DEF ScanStart, device, history
  <1>15. ASSUME ScanImage
        PROVE  [Slot!SlotNext]_SlotMap
    BY <1>15, SlotUntouched DEF ScanImage, device, history
  <1>16. ASSUME ScanRequest
        PROVE  [Slot!SlotNext]_SlotMap
    BY <1>16, SlotUntouched DEF ScanRequest, device, history
  <1>17. ASSUME Decide
        PROVE  [Slot!SlotNext]_SlotMap
    BY <1>17, SlotUntouched DEF Decide, device, history
  <1>18. ASSUME Unplug
        PROVE  [Slot!SlotNext]_SlotMap
    BY <1>18, SlotUntouched DEF Unplug, history
  <1>19. ASSUME Plugout
        PROVE  [Slot!SlotNext]_SlotMap
    BY <1>19, SlotUntouched DEF Plugout, history
  <1>20. ASSUME Elapse
        PROVE  [Slot!SlotNext]_SlotMap
    BY <1>20, SlotUntouched DEF Elapse, history
  <1>21. ASSUME NEW i \in Image, Plugin(i)
        PROVE  [Slot!SlotNext]_SlotMap
    BY <1>21, SlotForgotten DEF Plugin
  <1>22. ASSUME UNCHANGED vars
        PROVE  [Slot!SlotNext]_SlotMap
    BY <1>22, SlotUntouched DEF vars, device, history
  <1> QED
    BY StepCases, <1>1, <1>2, <1>3, <1>4, <1>5, <1>6, <1>7, <1>8, <1>9, <1>10, <1>11,
       <1>12, <1>13, <1>14, <1>15, <1>16, <1>17, <1>18, <1>19, <1>20, <1>21, <1>22

(* For every number of clients and threads, each request for another image  *)
(* stays outstanding until it is completed or superseded, and its client is *)
(* told in both cases.                                                      *)
THEOREM DriveImplementsSlot == Spec => ImplementsSlot
PROOF
  <1>1. Init => Slot!SlotInit
    BY SlotInitial
  <1>2. TypeOK /\ LockDiscipline /\ [Next]_vars => [Slot!SlotNext]_SlotMap
    BY SlotStep
  <1> QED
    BY <1>1, <1>2, TypeCorrect, LocksHeld, PTL
       DEF Spec, ImplementsSlot, Slot!SlotSpec, SlotMap

================================================================================
