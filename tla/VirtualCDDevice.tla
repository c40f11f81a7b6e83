---------------------------- MODULE VirtualCDDevice ----------------------------
(***************************************************************************)
(* One virtual drive of the bus driver (BazisVirtualCDBus/                 *)
(* VirtualCDDevice.cpp): how the image in it is ejected, replaced and      *)
(* given up, with the threads that do so at the same time.                 *)
(*                                                                         *)
(*   - client threads inside IOCTL_VDEV_MOUNT_IMAGE (AttachDiscImage with  *)
(*     attachImmediately = false), which then wait for the "attach         *)
(*     complete" event;                                                    *)
(*   - threads that execute SCSI requests: TEST UNIT READY, which          *)
(*     completes a pending replacement, and LOAD/UNLOAD, which ejects;     *)
(*   - the cleanup thread of the bus, which looks at the drive without     *)
(*     taking its mutex (IsUnplugPending) and unplugs it.                  *)
(*                                                                         *)
(* A step is what a thread does between two points where another thread    *)
(* can see or change the drive.  Operators under "Variant" are not part of *)
(* the drive: each is a slip that a property below excludes.               *)
(***************************************************************************)
EXTENDS Naturals

CONSTANTS
    Image,              \* parsed images a drive can hold
    Client,             \* threads that call IOCTL_VDEV_MOUNT_IMAGE
    Scsi,               \* threads that execute SCSI requests
    NoImage,            \* the null image pointer
    NoClient,           \* stands for "no request" in the pending slot
    NoThread,           \* nobody holds m_UnmountStateMutex
    CallsToComplete,    \* m_TestUnitReadyRequestsBeforeCompletingUnmount
    CallsToCleanup,     \* m_SufficientTestUnitReadyRequestsToCleanup
    EmptyPath           \* do clients also pass the empty path?

ASSUME SentinelAssumption ==
    /\ NoImage \notin Image
    /\ NoClient \notin Client
    /\ NoThread \notin Scsi

ASSUME CountAssumption ==
    /\ CallsToComplete \in Nat \ {0}
    /\ CallsToCleanup \in Nat \ {0}
    /\ EmptyPath \in BOOLEAN

VARIABLES
    plugged,        \* the drive's PDO is in the bus's map
    imagePtr,       \* m_pUnsynchronizedImagePtr
    pending,        \* m_pPendingRemountRequest and the client that made it
    turCalls,       \* m_TestUnitReadyCallsSinceUnmount
    suppress,       \* m_SuppressUnusedDriveCleanup
    timedOut,       \* CleanupTimeout has passed since m_DisposeTime
    mutex,          \* owner of m_UnmountStateMutex, where it is kept over steps
    client,         \* per client: where it is in the call, and the image it passes
    event,          \* per client: the event of its latest request is signalled
    scsi,           \* per SCSI thread: where it is in the request
    cleaner,        \* where the cleanup thread is
    bugcheck,       \* a null pointer was followed: the machine is down
    ejected,        \* history: the drive was ejected since it was mounted
    absent          \* history: "no medium" replies since the last attach

device  == <<plugged, imagePtr, pending, turCalls, suppress, timedOut, mutex>>
history == <<ejected, absent>>
vars    == <<device, client, event, scsi, cleaner, bugcheck, history>>

--------------------------------------------------------------------------------

None == [client |-> NoClient, image |-> NoImage]

Request == [client : Client, image : Image \cup {NoImage}]

(* The counter is only ever compared with the two thresholds: it stops at   *)
(* CountCap, past both, instead of running to 2^32.                         *)
CountCap == CallsToComplete + CallsToCleanup

BumpUncapped(n) == n + 1                          \* Variant
Bump(n) == IF n < CountCap THEN n + 1 ELSE n

(* The map of drives is locked by the cleanup thread during its scan. *)
Scanning == {"scanning", "sawNoImage", "sawNoRequest"}
MapLockFreeAlways == TRUE                         \* Variant
MapLockFree == cleaner \notin Scanning

(* Images a client may pass: an image, or none for the empty path. *)
Passed == IF EmptyPath THEN Image \cup {NoImage} ELSE Image

TypeOK ==
    /\ plugged \in BOOLEAN
    /\ imagePtr \in Image \cup {NoImage}
    /\ pending \in Request \cup {None}
    /\ turCalls \in 0 .. CountCap
    /\ suppress \in BOOLEAN
    /\ timedOut \in BOOLEAN
    /\ mutex \in Scsi \cup {NoThread}
    /\ client \in [Client -> [pc : {"idle", "called", "posted", "waiting"},
                              image : Image \cup {NoImage}]]
    /\ event \in [Client -> BOOLEAN]
    /\ scsi \in [Scsi -> {"idle", "noMedium", "attached", "keyed", "ejecting"}]
    /\ cleaner \in {"asleep", "condemned"} \cup Scanning
    /\ bugcheck \in BOOLEAN
    /\ ejected \in BOOLEAN
    /\ absent \in 0 .. CountCap

(* Nobody is inside the driver and nothing is pending. *)
AllQuiet ==
    /\ pending' = None
    /\ turCalls' = 0
    /\ suppress' = FALSE
    /\ timedOut' = TRUE
    /\ mutex' = NoThread
    /\ client' = [c \in Client |-> [pc |-> "idle", image |-> NoImage]]
    /\ event' = [c \in Client |-> FALSE]
    /\ scsi' = [s \in Scsi |-> "idle"]
    /\ cleaner' = "asleep"
    /\ ejected' = FALSE
    /\ absent' = 0

(* A drive as its constructor leaves it: the image is attached at once, and *)
(* m_DisposeTime is a zero time stamp, so the timeout has long passed.      *)
Init ==
    /\ plugged = TRUE
    /\ imagePtr \in Image
    /\ pending = None
    /\ turCalls = 0
    /\ suppress = FALSE
    /\ timedOut = TRUE
    /\ mutex = NoThread
    /\ client = [c \in Client |-> [pc |-> "idle", image |-> NoImage]]
    /\ event = [c \in Client |-> FALSE]
    /\ scsi = [s \in Scsi |-> "idle"]
    /\ cleaner = "asleep"
    /\ bugcheck = FALSE
    /\ ejected = FALSE
    /\ absent = 0

--------------------------------------------------------------------------------
(* IOCTL_VDEV_MOUNT_IMAGE: AttachDiscImage(image, path, false, &event).      *)

(* The image has been opened and parsed; for the empty path there is none   *)
(* and the drive is marked so that the cleanup thread leaves it alone.      *)
(* (A file that cannot be opened or parsed ends the call here.)             *)
Call(c, i) ==
    /\ plugged
    /\ client[c].pc = "idle"
    /\ client' = [client EXCEPT ![c] = [pc |-> "called", image |-> i]]
    /\ suppress' = (suppress \/ i = NoImage)
    /\ UNCHANGED <<plugged, imagePtr, pending, turCalls, timedOut, mutex,
                   event, scsi, cleaner, bugcheck, history>>

(* Deleting a request signals its event (~RemountRequest). *)
DeletedSilently(r) == event                       \* Variant
Deleted(r) ==
    [x \in Client |-> IF x = r.client THEN TRUE ELSE event[x]]

(* Variant: the count runs on. *)
PostKeepingCount(c) ==
    /\ client[c].pc = "called"
    /\ mutex = NoThread
    /\ pending' = [client |-> c, image |-> client[c].image]
    /\ event' = [Deleted(pending) EXCEPT ![c] = FALSE]
    /\ client' = [client EXCEPT ![c].pc = "posted"]
    /\ UNCHANGED <<plugged, imagePtr, turCalls, suppress, timedOut, mutex, scsi,
                   cleaner, bugcheck, history>>

(* Variant: the image is taken out before the request is made. *)
ClearFirst(c) ==
    /\ client[c].pc = "called"
    /\ imagePtr' = NoImage
    /\ client' = [client EXCEPT ![c].pc = "posted"]
    /\ UNCHANGED <<plugged, pending, turCalls, suppress, timedOut, mutex,
                   event, scsi, cleaner, bugcheck, history>>

PostAfterClearing(c) ==
    /\ client[c].pc = "posted"
    /\ mutex = NoThread
    /\ turCalls' = 0
    /\ pending' = [client |-> c, image |-> client[c].image]
    /\ event' = [Deleted(pending) EXCEPT ![c] = FALSE]
    /\ client' = [client EXCEPT ![c].pc = "waiting"]
    /\ UNCHANGED <<plugged, imagePtr, suppress, timedOut, mutex, scsi,
                   cleaner, bugcheck, history>>

(* Under the mutex: the count restarts and the request takes the slot, and  *)
(* the request that was there is deleted.                                   *)
Post(c) ==
    /\ client[c].pc = "called"
    /\ mutex = NoThread
    /\ turCalls' = 0
    /\ pending' = [client |-> c, image |-> client[c].image]
    /\ event' = [Deleted(pending) EXCEPT ![c] = FALSE]
    /\ client' = [client EXCEPT ![c].pc = "posted"]
    /\ UNCHANGED <<plugged, imagePtr, suppress, timedOut, mutex, scsi,
                   cleaner, bugcheck, history>>

(* Variant: the drive keeps its image. *)
TakeOutForgotten(c) ==
    /\ client[c].pc = "posted"
    /\ client' = [client EXCEPT ![c].pc = "waiting"]
    /\ UNCHANGED <<device, event, scsi, cleaner, bugcheck, history>>

(* After the mutex is released, the image is taken out of the drive. *)
TakeOut(c) ==
    /\ client[c].pc = "posted"
    /\ imagePtr' = NoImage
    /\ client' = [client EXCEPT ![c].pc = "waiting"]
    /\ UNCHANGED <<plugged, pending, turCalls, suppress, timedOut, mutex,
                   event, scsi, cleaner, bugcheck, history>>

(* The caller waits for the event, with a timeout.  One that did not ask    *)
(* for the event does not wait at all: the same as a timeout at once.       *)
WaitDone(c) ==
    /\ client[c].pc = "waiting"
    /\ event[c]
    /\ client' = [client EXCEPT ![c].pc = "idle"]
    /\ UNCHANGED <<device, event, scsi, cleaner, bugcheck, history>>

WaitTimeout(c) ==
    /\ client[c].pc = "waiting"
    /\ ~event[c]
    /\ client' = [client EXCEPT ![c].pc = "idle"]
    /\ UNCHANGED <<device, event, scsi, cleaner, bugcheck, history>>

--------------------------------------------------------------------------------
(* SCSI requests: DoExecuteSCSIRequest.                                      *)

(* TEST UNIT READY takes its copy of the image pointer first.  Found        *)
(* non-null, the request goes on to the base class and changes nothing.     *)
TurStart(s) ==
    /\ plugged
    /\ scsi[s] = "idle"
    /\ imagePtr = NoImage
    /\ scsi' = [scsi EXCEPT ![s] = "noMedium"]
    /\ UNCHANGED <<device, client, event, cleaner, bugcheck, history>>

(* Is this call the one that completes the pending replacement? *)
Completes == Bump(turCalls) >= CallsToComplete /\ pending # None

(* Variant: only calls made while a request is pending are counted. *)
TurReplyForgetful(s) ==
    /\ scsi[s] = "noMedium"
    /\ mutex = NoThread
    /\ ~Completes
    /\ turCalls' = IF pending # None THEN Bump(turCalls) ELSE turCalls
    /\ absent' = Bump(absent)
    /\ scsi' = [scsi EXCEPT ![s] = "idle"]
    /\ UNCHANGED <<plugged, imagePtr, pending, suppress, timedOut, mutex,
                   client, event, cleaner, bugcheck, ejected>>

(* Under the mutex, an ordinary call is only counted.  The reply to every   *)
(* call that found no image is "no medium", the completing one included.    *)
TurReply(s) ==
    /\ scsi[s] = "noMedium"
    /\ mutex = NoThread
    /\ ~Completes
    /\ turCalls' = Bump(turCalls)
    /\ absent' = Bump(absent)
    /\ scsi' = [scsi EXCEPT ![s] = "idle"]
    /\ UNCHANGED <<plugged, imagePtr, pending, suppress, timedOut, mutex,
                   client, event, cleaner, bugcheck, ejected>>

(* The completing call stores the sector count and the image pointer        *)
(* (AttachDiscImage with attachImmediately = true) and keeps the mutex.     *)
TurAttach(s) ==
    /\ scsi[s] = "noMedium"
    /\ mutex = NoThread
    /\ Completes
    /\ pending.image # NoImage
    /\ turCalls' = Bump(turCalls)
    /\ absent' = Bump(absent)
    /\ imagePtr' = pending.image
    /\ mutex' = s
    /\ scsi' = [scsi EXCEPT ![s] = "attached"]
    /\ UNCHANGED <<plugged, pending, suppress, timedOut, client, event,
                   cleaner, bugcheck, ejected>>

(* A request made with the empty path carries no image: reading its sector  *)
(* count follows a null pointer.  The machine stops, and its threads and    *)
(* the drive are gone until it is started again.                            *)
TurFault(s) ==
    /\ scsi[s] = "noMedium"
    /\ mutex = NoThread
    /\ Completes
    /\ pending.image = NoImage
    /\ bugcheck' = TRUE
    /\ plugged' = FALSE
    /\ imagePtr' = NoImage
    /\ AllQuiet

(* The bus replaces the drive's key in its map, under the lock of the map   *)
(* (OnImagePathUpdated, ReplacePDOKey).                                     *)
TurRekey(s) ==
    /\ scsi[s] = "attached"
    /\ MapLockFree
    /\ scsi' = [scsi EXCEPT ![s] = "keyed"]
    /\ UNCHANGED <<device, client, event, cleaner, bugcheck, history>>

(* Variant: the slot is emptied and nobody is told. *)
TurFinishSilently(s) ==
    /\ scsi[s] = "keyed"
    /\ pending' = None
    /\ mutex' = NoThread
    /\ scsi' = [scsi EXCEPT ![s] = "idle"]
    /\ absent' = 0
    /\ UNCHANGED <<plugged, imagePtr, turCalls, suppress, timedOut, client,
                   event, cleaner, bugcheck, ejected>>

(* The request is deleted, which signals its event, and the mutex released. *)
TurFinish(s) ==
    /\ scsi[s] = "keyed"
    /\ pending' = None
    /\ event' = Deleted(pending)
    /\ mutex' = NoThread
    /\ scsi' = [scsi EXCEPT ![s] = "idle"]
    /\ absent' = 0
    /\ UNCHANGED <<plugged, imagePtr, turCalls, suppress, timedOut, client,
                   cleaner, bugcheck, ejected>>

(* LOAD/UNLOAD: Dispose() notes the time, then clears the image pointer. *)
EjectStart(s) ==
    /\ plugged
    /\ scsi[s] = "idle"
    /\ timedOut' = FALSE
    /\ scsi' = [scsi EXCEPT ![s] = "ejecting"]
    /\ UNCHANGED <<plugged, imagePtr, pending, turCalls, suppress, mutex,
                   client, event, cleaner, bugcheck, history>>

EjectFinish(s) ==
    /\ scsi[s] = "ejecting"
    /\ imagePtr' = NoImage
    /\ ejected' = TRUE
    /\ scsi' = [scsi EXCEPT ![s] = "idle"]
    /\ UNCHANGED <<plugged, pending, turCalls, suppress, timedOut, mutex,
                   client, event, cleaner, bugcheck, absent>>

(* CleanupTimeout milliseconds have passed since m_DisposeTime. *)
Elapse ==
    /\ ~timedOut
    /\ timedOut' = TRUE
    /\ UNCHANGED <<plugged, imagePtr, pending, turCalls, suppress, mutex,
                   client, event, scsi, cleaner, bugcheck, history>>

--------------------------------------------------------------------------------
(* The cleanup thread: VirtualDriveCleanupThread and IsUnplugPending.        *)

ScanStart ==
    /\ cleaner = "asleep"
    /\ plugged
    /\ cleaner' = "scanning"
    /\ UNCHANGED <<device, client, event, scsi, bugcheck, history>>

(* IsUnplugPending reads the image pointer ... *)
ScanImage ==
    /\ cleaner = "scanning"
    /\ cleaner' = IF imagePtr = NoImage THEN "sawNoImage" ELSE "asleep"
    /\ UNCHANGED <<device, client, event, scsi, bugcheck, history>>

(* ... then the pending request ... *)
ScanRequest ==
    /\ cleaner = "sawNoImage"
    /\ cleaner' = IF pending = None THEN "sawNoRequest" ELSE "asleep"
    /\ UNCHANGED <<device, client, event, scsi, bugcheck, history>>

(* ... then decides.  Leaving the scan releases the lock of the map. *)
UnplugPending == ~suppress /\ (turCalls >= CallsToCleanup \/ timedOut)

Decide ==
    /\ cleaner = "sawNoRequest"
    /\ cleaner' = IF UnplugPending THEN "condemned" ELSE "asleep"
    /\ UNCHANGED <<device, client, event, scsi, bugcheck, history>>

(* PlugoutPDO takes the drive out of the map and shuts the device down,     *)
(* which disposes of the image; a drive already gone is not found.          *)
Unplug ==
    /\ cleaner = "condemned"
    /\ cleaner' = "asleep"
    /\ plugged' = FALSE
    /\ imagePtr' = NoImage
    /\ UNCHANGED <<pending, turCalls, suppress, timedOut, mutex, client, event,
                   scsi, bugcheck, history>>

(* IOCTL_PLUGOUT_DEVICE on the bus does the same for a user. *)
Plugout ==
    /\ plugged
    /\ MapLockFree
    /\ plugged' = FALSE
    /\ imagePtr' = NoImage
    /\ UNCHANGED <<pending, turCalls, suppress, timedOut, mutex, client, event,
                   scsi, cleaner, bugcheck, history>>

--------------------------------------------------------------------------------

(* Every handle to an unplugged drive is closed and its device deleted, or  *)
(* the machine was started again: then another drive is mounted.            *)
Quiet ==
    /\ \A c \in Client : client[c].pc = "idle"
    /\ \A s \in Scsi : scsi[s] = "idle"
    /\ cleaner = "asleep"

Plugin(i) ==
    /\ ~plugged
    /\ Quiet
    /\ plugged' = TRUE
    /\ imagePtr' = i
    /\ bugcheck' = FALSE
    /\ AllQuiet

(* Variant: see ClearFirst. *)
SwappedClientStep(c) ==
    \/ \E i \in Passed : Call(c, i)
    \/ ClearFirst(c)
    \/ PostAfterClearing(c)
    \/ WaitDone(c)
    \/ WaitTimeout(c)

ClientStep(c) ==
    \/ \E i \in Passed : Call(c, i)
    \/ Post(c)
    \/ TakeOut(c)
    \/ WaitDone(c)
    \/ WaitTimeout(c)

(* The three outcomes of the part of TEST UNIT READY under the mutex. *)
TurCount(s) == TurReply(s) \/ TurAttach(s) \/ TurFault(s)

ScsiStep(s) ==
    \/ TurStart(s)
    \/ TurCount(s)
    \/ TurRekey(s)
    \/ TurFinish(s)
    \/ EjectStart(s)
    \/ EjectFinish(s)

Scan == ScanStart \/ ScanImage \/ ScanRequest \/ Decide

Next ==
    \/ \E c \in Client : ClientStep(c)
    \/ \E s \in Scsi : ScsiStep(s)
    \/ Scan
    \/ Unplug
    \/ Plugout
    \/ Elapse
    \/ \E i \in Image : Plugin(i)

Spec == Init /\ [][Next]_vars

(* The operating system keeps polling a drive, whatever else it asks of it  *)
(* (strong fairness of TurStart); threads inside the driver run on; the     *)
(* cleanup thread wakes up every second; time passes.  Nothing obliges a    *)
(* client to call, a user to eject or a wait to time out.                   *)
Fairness ==
    /\ \A c \in Client : /\ WF_vars(Post(c))
                         /\ WF_vars(TakeOut(c))
                         /\ WF_vars(WaitDone(c))
    /\ \A s \in Scsi : /\ SF_vars(TurStart(s))
                       /\ SF_vars(TurCount(s))
                       /\ SF_vars(TurRekey(s))
                       /\ WF_vars(TurFinish(s))
                       /\ WF_vars(EjectFinish(s))
    /\ WF_vars(Scan)
    /\ WF_vars(Unplug)
    /\ WF_vars(Elapse)

LiveSpec == Spec /\ Fairness

--------------------------------------------------------------------------------
(* Properties.                                                               *)

(* The cleanup thread reads the image pointer and the pending request one   *)
(* after the other and without the drive's mutex, yet the pair it sees is   *)
(* one the drive was really in: when it finds no request after it found no  *)
(* image, there still is no image.  What saves it is the lock of the map,   *)
(* which the completing TEST UNIT READY needs before it drops the request.  *)
VerdictSound ==
    (cleaner = "sawNoImage" /\ pending = None) => imagePtr = NoImage

(* A client that still waits for an event nobody has signalled has its      *)
(* request in the slot: replacing a request wakes the one who made it.      *)
NoLostWaiter ==
    \A c \in Client :
        (client[c].pc \in {"posted", "waiting"} /\ ~event[c])
            => pending.client = c

(* Once the call that asks for a replacement has returned, the drive never  *)
(* shows another image than the requested one while the request is pending. *)
OldImageGone ==
    \A c \in Client :
        (client[c].pc = "waiting" /\ pending.client = c)
            => imagePtr \in {NoImage, pending.image}

(* An image appears in a plugged drive only after the system was told       *)
(* CallsToComplete times, since the image before it, that there is no       *)
(* medium: otherwise Windows would not notice that the disc was changed.    *)
MediumChangeVisible ==
    [][(plugged /\ imagePtr' \notin {imagePtr, NoImage})
            => absent' >= CallsToComplete]_vars

(* The requests of the clients behave as RemountSlot says. *)
SlotOf(c) ==
    IF pending.client = c THEN "outstanding"
    ELSE IF event[c] THEN "told"
    ELSE "none"

Slot == INSTANCE RemountSlot WITH slot <- [c \in Client |-> SlotOf(c)]

ImplementsSlot == Slot!SlotSpec

(* A client that keeps waiting is told in the end, unless the drive goes.   *)
RemountCompletes ==
    \A c \in Client :
        (plugged /\ client[c].pc = "waiting")
            ~> (event[c] \/ client[c].pc # "waiting" \/ ~plugged)

(* An empty drive goes away by itself, unless a replacement is asked for or *)
(* an unmount has marked it to be kept.                                     *)
UnusedDriveGoes ==
    (plugged /\ imagePtr = NoImage /\ ~suppress)
        ~> (~plugged \/ imagePtr # NoImage \/ pending # None \/ suppress)

(* "/empty string to unmount the image": an unmount leaves an empty drive,  *)
(* it does not bring the machine down (DeviceControl.h:21).                 *)
UnmountIsSafe == ~bugcheck

(* "Can now replace a mounted image without removing the drive": the        *)
(* cleanup thread gives up no drive that nobody ejected.                    *)
ReplaceKeepsDrive == cleaner = "condemned" => ejected

================================================================================
