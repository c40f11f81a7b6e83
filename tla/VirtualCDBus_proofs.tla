--------------------------- MODULE VirtualCDBus_proofs ---------------------------
(***************************************************************************)
(* Proofs about the bus driver, for any number of files, device objects,   *)
(* identifiers, callers and records.                                       *)
(***************************************************************************)
EXTENDS VirtualCDBus, TLAPS, WellFoundedInduction, NaturalsInduction

--------------------------------------------------------------------------------
(* The database. *)

LEMMA LeastIsMember ==
    ASSUME NEW S \in SUBSET Nat, S # {}
    PROVE  Least(S) \in S /\ \A j \in S : Least(S) <= j
PROOF
  <1> DEFINE Before == {ss \in Nat \X Nat : ss[1] < ss[2]}
  <1>1. IsWellFoundedOn(Before, Nat)
    BY NatLessThanWellFounded DEF OpToRel
  <1> HIDE DEF Before
  <1>2. PICK x \in S : \A y \in S : <<y, x>> \notin Before
    BY <1>1, WFMin
  <1>3. ASSUME NEW y \in S
        PROVE  x <= y
    <2>1. x \in Nat /\ y \in Nat
      OBVIOUS
    <2>2. ~ (y < x)
      BY <1>2, <2>1, Zenon DEF Before
    <2> QED
      BY <2>1, <2>2
  <1> QED
    BY <1>2, <1>3 DEF Least

LEMMA KeyForIsKey ==
    ASSUME NEW d \in Database, NEW p \in Path
    PROVE  KeyFor(d, p) \in DBKey
PROOF
  <1>1. KeysOf(d, p) \in SUBSET Nat /\ FreeKeys(d) \in SUBSET Nat /\ KeyLimit - 1 \in DBKey
    BY KeyLimitAssumption DEF KeysOf, FreeKeys, DBKey
  <1> QED
    BY <1>1, LeastIsMember DEF KeyFor, KeysOf, FreeKeys

(* A record that names the image already is the one that is written. *)
LEMMA KeyForFindsRecord ==
    ASSUME NEW d \in Database, NEW p \in Path, KeysOf(d, p) # {}
    PROVE  KeyFor(d, p) \in KeysOf(d, p)
PROOF
  <1>1. KeysOf(d, p) \in SUBSET Nat
    BY KeyLimitAssumption DEF KeysOf, DBKey
  <1> QED
    BY <1>1, LeastIsMember DEF KeyFor

LEMMA AddImageType ==
    ASSUME NEW d \in Database, NEW p \in Path
    PROVE  AddImage(d, p) \in Database
  BY KeyForIsKey DEF AddImage, Database

LEMMA AddImageKeepsOneRecord ==
    ASSUME NEW d \in Database, NEW p \in Path, OneRecordEach(d)
    PROVE  OneRecordEach(AddImage(d, p))
PROOF
  <1>1. ASSUME NEW j \in DBKey, d[j] = p
        PROVE  j = KeyFor(d, p)
    <2>1. j \in KeysOf(d, p)
      BY <1>1 DEF KeysOf
    <2>2. KeyFor(d, p) \in DBKey /\ d[KeyFor(d, p)] = p
      BY <2>1, KeyForFindsRecord DEF KeysOf
    <2> QED
      BY <1>1, <2>2 DEF OneRecordEach
  <1> QED
    BY <1>1, KeyForIsKey DEF OneRecordEach, AddImage, Database

LEMMA RemovalKeepsOneRecord ==
    ASSUME NEW d \in Database, NEW k \in DBKey, OneRecordEach(d)
    PROVE  /\ RemoveImageByKey(d, k) \in Database
           /\ OneRecordEach(RemoveImageByKey(d, k))
  BY RecordAssumption DEF OneRecordEach, RemoveImageByKey, Database

LEMMA StatusKeepsOneRecord ==
    ASSUME NEW d \in Database, NEW k, OneRecordEach(d)
    PROVE  /\ ReportMountStatus(d, k) \in Database
           /\ OneRecordEach(ReportMountStatus(d, k))
PROOF
  <1>1. CASE k \in DBKey
    BY <1>1, RecordAssumption DEF OneRecordEach, ReportMountStatus, Database
  <1>2. CASE k \notin DBKey
    <2>1. ReportMountStatus(d, k) = d
      BY <1>2 DEF ReportMountStatus, Database
    <2> QED
      BY <2>1
  <1> QED
    BY <1>1, <1>2
--------------------------------------------------------------------------------
(* Every step of the bus, as the cases the proofs go through. *)

LEMMA BusStepCases ==
    ASSUME [Next]_vars
    PROVE  \/ \E c \in Caller :
                 \/ \E p \in Path, keep \in BOOLEAN : PluginCheck(c, p, keep)
                 \/ \E p \in Path : Plugout(c, p)
           \/ \E t \in Caller \cup {Starter} :
                 \/ OpenFails(t)
                 \/ \E d \in Drive, id \in ID : Prepare(t, d, id)
                 \/ Insert(t)
           \/ \E t \in Caller \cup {Cleaner} : ReleaseID(t) \/ Shutdown(t)
           \/ \E d \in Drive : Eject(d) \/ Attach(d) \/ \E p \in Path : Replace(d, p)
           \/ Collect \/ \E p \in Path : CleanNext(p)
           \/ \E r \in todo : StartNext(r)
           \/ Report \/ Restart
           \/ UNCHANGED vars
  BY DEF Next, CallerStep, Mount, Unplug, DriveStep

--------------------------------------------------------------------------------
(* Type correctness. *)

(* A device that exists knows its file and its identifier. *)
Named ==
    \A d \in Drive : dev[d].state # "none" => dev[d].path \in Path /\ dev[d].id \in ID

(* What a thread in the middle of an operation says of its device; and two  *)
(* threads are never in the middle of one with the same device.             *)
Busy == {"prepared", "unlinked", "released"}

StateOf(pc) ==
    CASE pc = "prepared" -> "building"
      [] pc = "unlinked" -> "dying"
      [] pc = "released" -> "released"

Owned ==
    \A t \in Thread : op[t].pc \in Busy =>
        /\ op[t].drive \in Drive
        /\ dev[op[t].drive].state = StateOf(op[t].pc)
        /\ \A u \in Thread :
              (op[u].pc \in Busy /\ op[u].drive = op[t].drive) => u = t

(* A device whose identifier has gone back is one that a thread is in the    *)
(* middle of shutting down.                                                  *)
ReleasedOwned == \A d \in Drive : dev[d].state = "released" => BeingShutDown(d)

(* Devices that have not given their identifier back.                        *)
Holds(d) == dev[d].state \in {"building", "plugged", "dying"}

DistinctIDs ==
    \A d \in Drive : Holds(d) =>
        /\ dev[d].id \in ID \ freeIDs
        /\ \A e \in Drive : (Holds(e) /\ dev[e].id = dev[d].id) => e = d

BusInv ==
    TypeOK /\ Named /\ Owned /\ OneNamePerDrive /\ ReleasedOwned /\ DistinctIDs

LEMMA IdleType == Idle \in Operation
  BY DEF Idle, Operation

LEMMA NoDeviceType == NoDevice \in Device
  BY DEF NoDevice, Device

LEMMA DeviceUpdate ==
    ASSUME dev \in [Drive -> Device], NEW d \in Drive, NEW x \in Device
    PROVE  [dev EXCEPT ![d] = x] \in [Drive -> Device]
  OBVIOUS

LEMMA StateUpdate ==
    ASSUME dev \in [Drive -> Device], NEW d \in Drive,
           NEW st \in {"none", "building", "plugged", "dying", "released"}
    PROVE  [dev EXCEPT ![d].state = st] \in [Drive -> Device]
  BY DEF Device

LEMMA DoneType ==
    ASSUME op \in [Thread -> Operation], NEW t \in Thread
    PROVE  Done(t) \in [Thread -> Operation]
  BY IdleType DEF Done, Operation

LEMMA ForgottenType ==
    ASSUME TypeOK, NEW d \in Drive
    PROVE  Forgotten(d) \in Database
PROOF
  <1>1. dev[d].key \in DBKey \cup {NoKey}
    BY DEF TypeOK, Device
  <1> QED
    BY <1>1 DEF Forgotten, TypeOK, RemoveImageByKey, Database

(* The entry that Unlink takes out of the map. *)
LEMMA LinkedDrive ==
    ASSUME BusInv, NEW p \in Path, map[p] # NoDrive
    PROVE  map[p] \in Drive /\ dev[map[p]].state = "plugged"
  BY DEF BusInv, TypeOK, OneNamePerDrive

(* The device of a thread in the middle of an operation. *)
LEMMA OwnDrive ==
    ASSUME BusInv, NEW t \in Thread, op[t].pc \in Busy
    PROVE  /\ op[t].drive \in Drive
           /\ op[t].pc = "prepared" => dev[op[t].drive].state = "building"
           /\ op[t].pc = "unlinked" => dev[op[t].drive].state = "dying"
           /\ op[t].pc = "released" => dev[op[t].drive].state = "released"
           /\ dev[op[t].drive].id \in ID
           /\ dev[op[t].drive].path \in Path
PROOF
  <1>1. /\ op[t].drive \in Drive
        /\ dev[op[t].drive].state = StateOf(op[t].pc)
    BY DEF BusInv, Owned
  <1>2. dev[op[t].drive].state # "none"
    BY <1>1 DEF StateOf, Busy
  <1> QED
    BY <1>1, <1>2 DEF StateOf, BusInv, Named

LEMMA UnlinkType ==
    ASSUME BusInv, NEW t \in Thread, NEW p \in Path, Unlink(t, p)
    PROVE  /\ map' \in [Path -> Drive \cup {NoDrive}]
           /\ dev' \in [Drive -> Device]
           /\ op' \in [Thread -> Operation]
PROOF
  <1>1. map[p] \in Drive
    BY LinkedDrive DEF Unlink
  <1>2. dev' \in [Drive -> Device]
    BY <1>1, StateUpdate DEF Unlink, BusInv, TypeOK
  <1>3. op' \in [Thread -> Operation]
    BY <1>1 DEF Unlink, BusInv, TypeOK, Operation, Idle
  <1> QED
    BY <1>1, <1>2, <1>3 DEF Unlink, BusInv, TypeOK

LEMMA BusTypeStep ==
    ASSUME BusInv, [Next]_vars
    PROVE  TypeOK'
PROOF
  <1> USE DEF BusInv, TypeOK, Thread
  <1>1. ASSUME NEW c \in Caller, NEW p \in Path, NEW keep \in BOOLEAN, PluginCheck(c, p, keep)
        PROVE  TypeOK'
    BY <1>1, IdleType DEF PluginCheck, Operation, Idle
  <1>2. ASSUME NEW c \in Caller, NEW p \in Path, Plugout(c, p)
        PROVE  TypeOK'
    BY <1>2, UnlinkType DEF Plugout, Unlink
  <1>3. ASSUME NEW t \in Caller \cup {Starter}, OpenFails(t)
        PROVE  TypeOK'
    BY <1>3, DoneType DEF OpenFails
  <1>4. ASSUME NEW t \in Caller \cup {Starter}, NEW d \in Drive, NEW id \in ID, Prepare(t, d, id)
        PROVE  TypeOK'
    <2>1. KeyGiven(t) \in DBKey \cup {NoKey} /\ db' \in Database
      BY <1>4, KeyForIsKey, AddImageType DEF Prepare, KeyGiven, Operation
    <2>2. dev' \in [Drive -> Device]
      BY <1>4, <2>1 DEF Prepare, Device
    <2>3. op' \in [Thread -> Operation]
      BY <1>4 DEF Prepare, Operation, Idle
    <2> QED
      BY <1>4, <2>1, <2>2, <2>3 DEF Prepare
  <1>5. ASSUME NEW t \in Caller \cup {Starter}, Insert(t)
        PROVE  TypeOK'
    <2>1. op[t].drive \in Drive /\ dev[op[t].drive].path \in Path
      BY <1>5, OwnDrive DEF Insert, Busy
    <2>5. [dev EXCEPT ![op[t].drive].state = "plugged"] \in [Drive -> Device]
      BY <2>1, StateUpdate
    <2>6. [dev EXCEPT ![op[t].drive] = NoDevice] \in [Drive -> Device]
      BY <2>1, NoDeviceType, DeviceUpdate
    <2>2. dev' \in [Drive -> Device]
      BY <1>5, <2>5, <2>6 DEF Insert
    <2>3. op' \in [Thread -> Operation]
      BY <1>5, DoneType DEF Insert
    <2>4. map' \in [Path -> Drive \cup {NoDrive}]
      BY <1>5, <2>1 DEF Insert
    <2> QED
      BY <1>5, <2>2, <2>3, <2>4 DEF Insert
  <1>6. ASSUME NEW t \in Caller \cup {Cleaner}, ReleaseID(t)
        PROVE  TypeOK'
    <2>1. op[t].drive \in Drive /\ dev[op[t].drive].id \in ID
      BY <1>6, OwnDrive DEF ReleaseID, Busy
    <2>2. dev' \in [Drive -> Device]
      BY <1>6, <2>1, StateUpdate DEF ReleaseID
    <2>3. op' \in [Thread -> Operation]
      BY <1>6 DEF ReleaseID, Operation
    <2>4. freeIDs' \in SUBSET ID
      BY <1>6, <2>1 DEF ReleaseID
    <2> QED
      BY <1>6, <2>2, <2>3, <2>4 DEF ReleaseID
  <1>7. ASSUME NEW t \in Caller \cup {Cleaner}, Shutdown(t)
        PROVE  TypeOK'
    <2>1. op[t].drive \in Drive
      BY <1>7, OwnDrive DEF Shutdown, Busy
    <2>2. dev' \in [Drive -> Device]
      BY <1>7, <2>1, NoDeviceType, DeviceUpdate DEF Shutdown
    <2>3. db' \in Database
      BY <1>7, <2>1, ForgottenType DEF Shutdown
    <2>4. op' \in [Thread -> Operation]
      BY <1>7, DoneType DEF Shutdown
    <2> QED
      BY <1>7, <2>2, <2>3, <2>4 DEF Shutdown
  <1>8. ASSUME NEW d \in Drive, Eject(d)
        PROVE  TypeOK'
    <2>1. dev' \in [Drive -> Device]
      <3> DEFINE x == [dev[d] EXCEPT !.image = FALSE]
      <3>1. x \in Device
        BY DEF Device
      <3>2. dev' = [dev EXCEPT ![d] = x]
        BY <1>8 DEF Eject
      <3> HIDE DEF x
      <3> QED
        BY <3>1, <3>2
    <2>2. db' \in Database
      BY <1>8, ForgottenType DEF Eject
    <2> QED
      BY <1>8, <2>1, <2>2 DEF Eject
  <1>9. ASSUME NEW d \in Drive, NEW p \in Path, Replace(d, p)
        PROVE  TypeOK'
    <2>1. [dev[d] EXCEPT !.image = FALSE, !.next = p] \in Device
      BY <1>9 DEF Replace, Device
    <2>2. dev' \in [Drive -> Device]
      BY <1>9, <2>1 DEF Replace
    <2> QED
      BY <1>9, <2>2 DEF Replace
  <1>10. ASSUME NEW d \in Drive, Attach(d)
        PROVE  TypeOK'
    <2>1. dev[d].path \in Path /\ dev[d].next \in Path
      BY <1>10 DEF Attach, Device, Named
    <2>2. dev' \in [Drive -> Device]
      BY <1>10, <2>1 DEF Attach, Device
    <2>3. map' \in [Path -> Drive \cup {NoDrive}]
      BY <1>10, <2>1 DEF Attach, Rekeyed
    <2> QED
      BY <1>10, <2>2, <2>3 DEF Attach
  <1>11. ASSUME Collect
        PROVE  TypeOK'
    BY <1>11 DEF Collect
  <1>12. ASSUME NEW p \in Path, CleanNext(p)
        PROVE  TypeOK'
    <2>1. CASE map[p] # NoDrive
      BY <1>12, <2>1, UnlinkType DEF CleanNext, Unlink
    <2>2. CASE map[p] = NoDrive
      BY <1>12, <2>2 DEF CleanNext
    <2> QED
      BY <2>1, <2>2
  <1>13. ASSUME NEW r \in todo, StartNext(r)
        PROVE  TypeOK'
    <2>1. r \in DBKey \X (Path \cup {Blank})
      BY <1>13
    <2>2. op' \in [Thread -> Operation]
      BY <1>13, <2>1 DEF StartNext, Operation
    <2> QED
      BY <1>13, <2>2 DEF StartNext
  <1>14. ASSUME Report
        PROVE  TypeOK'
    <2>1. db' \in Database
      BY <1>14 DEF Report, ReportMountStatus, Database
    <2>2. op' \in [Thread -> Operation]
      BY <1>14, IdleType DEF Report
    <2> QED
      BY <1>14, <2>1, <2>2 DEF Report
  <1>15. ASSUME Restart
        PROVE  TypeOK'
    <2>1. todo' \in SUBSET (DBKey \X (Path \cup {Blank}))
      BY <1>15 DEF Restart, LoadImageList
    <2>2. dev' \in [Drive -> Device]
      BY <1>15, NoDeviceType DEF Restart
    <2>3. op' \in [Thread -> Operation]
      BY <1>15, IdleType DEF Restart
    <2> QED
      BY <1>15, <2>1, <2>2, <2>3 DEF Restart
  <1>16. ASSUME UNCHANGED vars
        PROVE  TypeOK'
    BY <1>16 DEF vars
  <1> QED
    BY BusStepCases, <1>1, <1>2, <1>3, <1>4, <1>5, <1>6, <1>7, <1>8, <1>9, <1>10,
       <1>11, <1>12, <1>13, <1>14, <1>15, <1>16

--------------------------------------------------------------------------------
(* Devices keep their names. *)

LEMMA NamedStep ==
    ASSUME BusInv, [Next]_vars
    PROVE  Named'
PROOF
  <1> USE DEF BusInv, TypeOK, Named, Thread
  <1>1. ASSUME NEW c \in Caller, NEW p \in Path, NEW keep \in BOOLEAN, PluginCheck(c, p, keep)
        PROVE  Named'
    BY <1>1 DEF PluginCheck
  <1>2. ASSUME NEW c \in Caller, NEW p \in Path, Plugout(c, p)
        PROVE  Named'
    BY <1>2, LinkedDrive DEF Plugout, Unlink
  <1>3. ASSUME NEW t \in Caller \cup {Starter}, OpenFails(t)
        PROVE  Named'
    BY <1>3 DEF OpenFails
  <1>4. ASSUME NEW t \in Caller \cup {Starter}, NEW d \in Drive, NEW id \in ID, Prepare(t, d, id)
        PROVE  Named'
    BY <1>4 DEF Prepare
  <1>5. ASSUME NEW t \in Caller \cup {Starter}, Insert(t)
        PROVE  Named'
    <2>1. op[t].drive \in Drive /\ dev[op[t].drive].state = "building"
      BY <1>5, OwnDrive DEF Insert, Busy
    <2>2. dev[op[t].drive].path \in Path /\ dev[op[t].drive].id \in ID
      BY <1>5, OwnDrive DEF Insert, Busy
    <2>3. CASE map[dev[op[t].drive].path] = NoDrive
      <3>1. dev' = [dev EXCEPT ![op[t].drive].state = "plugged"]
        BY <1>5, <2>3 DEF Insert
      <3>2. map' = [map EXCEPT ![dev[op[t].drive].path] = op[t].drive]
        BY <1>5, <2>3 DEF Insert
      <3>3. freeIDs' = freeIDs
        BY <1>5 DEF Insert
      <3> QED
        BY <2>1, <2>2, <3>1, <3>2, <3>3
    <2>4. CASE map[dev[op[t].drive].path] # NoDrive
      BY <1>5, <2>1, <2>2, <2>4 DEF Insert, NoDevice
    <2> QED
      BY <2>3, <2>4
  <1>6. ASSUME NEW t \in Caller \cup {Cleaner}, ReleaseID(t)
        PROVE  Named'
    BY <1>6, OwnDrive DEF ReleaseID, Busy
  <1>7. ASSUME NEW t \in Caller \cup {Cleaner}, Shutdown(t)
        PROVE  Named'
    BY <1>7, OwnDrive DEF Shutdown, Busy, NoDevice
  <1>8. ASSUME NEW d \in Drive, Eject(d)
        PROVE  Named'
    BY <1>8 DEF Eject
  <1>9. ASSUME NEW d \in Drive, NEW p \in Path, Replace(d, p)
        PROVE  Named'
    BY <1>9 DEF Replace
  <1>10. ASSUME NEW d \in Drive, Attach(d)
        PROVE  Named'
    BY <1>10 DEF Attach, Device
  <1>11. ASSUME Collect
        PROVE  Named'
    BY <1>11 DEF Collect
  <1>12. ASSUME NEW p \in Path, CleanNext(p)
        PROVE  Named'
    <2>1. CASE map[p] # NoDrive
      <3>1. map[p] \in Drive /\ dev[map[p]].state = "plugged"
        BY <2>1, LinkedDrive
      <3>2. dev' = [dev EXCEPT ![map[p]].state = "dying"]
        BY <1>12, <2>1 DEF CleanNext, Unlink
      <3> QED
        BY <3>1, <3>2
    <2>2. CASE map[p] = NoDrive
      BY <1>12, <2>2 DEF CleanNext
    <2> QED
      BY <2>1, <2>2
  <1>13. ASSUME NEW r \in todo, StartNext(r)
        PROVE  Named'
    BY <1>13 DEF StartNext
  <1>14. ASSUME Report
        PROVE  Named'
    BY <1>14 DEF Report
  <1>15. ASSUME Restart
        PROVE  Named'
    <2>1. dev' = [d \in Drive |-> NoDevice] /\ NoDevice.state = "none"
      BY <1>15 DEF Restart, NoDevice
    <2> QED
      BY <2>1 DEF Named
  <1>16. ASSUME UNCHANGED vars
        PROVE  Named'
    BY <1>16 DEF vars
  <1> HIDE DEF BusInv, TypeOK, Named, Thread
  <1> QED
    BY BusStepCases, <1>1, <1>2, <1>3, <1>4, <1>5, <1>6, <1>7, <1>8, <1>9, <1>10,
       <1>11, <1>12, <1>13, <1>14, <1>15, <1>16

--------------------------------------------------------------------------------
(* A thread in the middle of an operation has its device to itself. *)

LEMMA UnlinkOwned ==
    ASSUME BusInv, NEW t \in Thread, NEW p \in Path, Unlink(t, p)
    PROVE  Owned'
PROOF
  <1>1. map[p] \in Drive /\ dev[map[p]].state = "plugged"
    BY LinkedDrive DEF Unlink
  <1>2. \A u \in Thread : op[u].pc \in Busy => op[u].drive # map[p]
    BY <1>1, OwnDrive DEF Busy
  <1> QED
    BY <1>1, <1>2 DEF Unlink, BusInv, TypeOK, Owned, Busy, StateOf, Idle

LEMMA OwnedStep ==
    ASSUME BusInv, [Next]_vars
    PROVE  Owned'
PROOF
  <1> USE DEF BusInv, TypeOK, Owned, Thread
  <1>1. ASSUME NEW c \in Caller, NEW p \in Path, NEW keep \in BOOLEAN, PluginCheck(c, p, keep)
        PROVE  Owned'
    BY <1>1 DEF PluginCheck, Busy, Idle
  <1>2. ASSUME NEW c \in Caller, NEW p \in Path, Plugout(c, p)
        PROVE  Owned'
    BY <1>2, UnlinkOwned DEF Plugout
  <1>3. ASSUME NEW t \in Caller \cup {Starter}, OpenFails(t)
        PROVE  Owned'
    BY <1>3 DEF OpenFails, Done, Busy, Idle
  <1>4. ASSUME NEW t \in Caller \cup {Starter}, NEW d \in Drive, NEW id \in ID, Prepare(t, d, id)
        PROVE  Owned'
    BY <1>4, OwnDrive DEF Prepare, Busy, StateOf, Idle
  <1>5. ASSUME NEW t \in Caller \cup {Starter}, Insert(t)
        PROVE  Owned'
    BY <1>5, OwnDrive DEF Insert, Done, Busy, StateOf, Idle
  <1>6. ASSUME NEW t \in Caller \cup {Cleaner}, ReleaseID(t)
        PROVE  Owned'
    BY <1>6, OwnDrive DEF ReleaseID, Busy, StateOf
  <1>7. ASSUME NEW t \in Caller \cup {Cleaner}, Shutdown(t)
        PROVE  Owned'
    BY <1>7, OwnDrive DEF Shutdown, Done, Busy, StateOf, Idle
  <1>8. ASSUME NEW d \in Drive, Eject(d)
        PROVE  Owned'
    BY <1>8 DEF Eject
  <1>9. ASSUME NEW d \in Drive, NEW p \in Path, Replace(d, p)
        PROVE  Owned'
    BY <1>9 DEF Replace
  <1>10. ASSUME NEW d \in Drive, Attach(d)
        PROVE  Owned'
    BY <1>10 DEF Attach
  <1>11. ASSUME Collect
        PROVE  Owned'
    BY <1>11 DEF Collect
  <1>12. ASSUME NEW p \in Path, CleanNext(p)
        PROVE  Owned'
    BY <1>12, UnlinkOwned DEF CleanNext
  <1>13. ASSUME NEW r \in todo, StartNext(r)
        PROVE  Owned'
    BY <1>13 DEF StartNext, Busy
  <1>14. ASSUME Report
        PROVE  Owned'
    BY <1>14 DEF Report, Busy, Idle
  <1>15. ASSUME Restart
        PROVE  Owned'
    BY <1>15 DEF Restart, Busy, Idle
  <1>16. ASSUME UNCHANGED vars
        PROVE  Owned'
    BY <1>16 DEF vars
  <1> QED
    BY BusStepCases, <1>1, <1>2, <1>3, <1>4, <1>5, <1>6, <1>7, <1>8, <1>9, <1>10,
       <1>11, <1>12, <1>13, <1>14, <1>15, <1>16

--------------------------------------------------------------------------------
(* Devices that are being shut down. *)

LEMMA UnlinkReleased ==
    ASSUME BusInv, NEW t \in Thread, NEW p \in Path, Unlink(t, p)
    PROVE  ReleasedOwned'
  BY LinkedDrive DEF Unlink, BusInv, TypeOK, ReleasedOwned, BeingShutDown, Thread

LEMMA ReleasedStep ==
    ASSUME BusInv, [Next]_vars
    PROVE  ReleasedOwned'
PROOF
  <1> USE DEF BusInv, TypeOK, ReleasedOwned, BeingShutDown, Thread
  <1>1. ASSUME NEW c \in Caller, NEW p \in Path, NEW keep \in BOOLEAN, PluginCheck(c, p, keep)
        PROVE  ReleasedOwned'
    BY <1>1 DEF PluginCheck, Busy, Idle
  <1>2. ASSUME NEW c \in Caller, NEW p \in Path, Plugout(c, p)
        PROVE  ReleasedOwned'
    BY <1>2, UnlinkReleased DEF Plugout
  <1>3. ASSUME NEW t \in Caller \cup {Starter}, OpenFails(t)
        PROVE  ReleasedOwned'
    BY <1>3 DEF OpenFails, Done, Busy, Idle
  <1>4. ASSUME NEW t \in Caller \cup {Starter}, NEW d \in Drive, NEW id \in ID, Prepare(t, d, id)
        PROVE  ReleasedOwned'
    BY <1>4, OwnDrive DEF Prepare, Busy
  <1>5. ASSUME NEW t \in Caller \cup {Starter}, Insert(t)
        PROVE  ReleasedOwned'
    <2>1. op[t].drive \in Drive /\ op[t].pc = "prepared"
      BY <1>5, OwnDrive DEF Insert, Busy
    <2>2. \A d \in Drive : dev'[d].state = "released" => dev[d].state = "released"
      <3>1. \/ dev' = [dev EXCEPT ![op[t].drive].state = "plugged"]
            \/ dev' = [dev EXCEPT ![op[t].drive] = NoDevice]
        BY <1>5 DEF Insert
      <3>2. ASSUME NEW d \in Drive, dev'[d].state = "released"
            PROVE  dev[d].state = "released"
        <4>1. CASE d = op[t].drive
          BY <2>1, <3>1, <3>2, <4>1 DEF NoDevice, Device
        <4>2. CASE d # op[t].drive
          BY <2>1, <3>1, <3>2, <4>2
        <4> QED
          BY <4>1, <4>2
      <3> QED
        BY <3>2
    <2>3. \A u \in Thread : op[u].pc = "released" => op'[u] = op[u]
      BY <1>5, <2>1 DEF Insert, Done
    <2> QED
      BY <2>2, <2>3
  <1>6. ASSUME NEW t \in Caller \cup {Cleaner}, ReleaseID(t)
        PROVE  ReleasedOwned'
    BY <1>6, OwnDrive DEF ReleaseID, Busy, Owned
  <1>7. ASSUME NEW t \in Caller \cup {Cleaner}, Shutdown(t)
        PROVE  ReleasedOwned'
    BY <1>7, OwnDrive DEF Shutdown, Done, Busy, NoDevice, Owned
  <1>8. ASSUME NEW d \in Drive, Eject(d)
        PROVE  ReleasedOwned'
    BY <1>8 DEF Eject
  <1>9. ASSUME NEW d \in Drive, NEW p \in Path, Replace(d, p)
        PROVE  ReleasedOwned'
    BY <1>9 DEF Replace
  <1>10. ASSUME NEW d \in Drive, Attach(d)
        PROVE  ReleasedOwned'
    BY <1>10 DEF Attach
  <1>11. ASSUME Collect
        PROVE  ReleasedOwned'
    BY <1>11 DEF Collect
  <1>12. ASSUME NEW p \in Path, CleanNext(p)
        PROVE  ReleasedOwned'
    BY <1>12, UnlinkReleased DEF CleanNext
  <1>13. ASSUME NEW r \in todo, StartNext(r)
        PROVE  ReleasedOwned'
    BY <1>13 DEF StartNext, Busy
  <1>14. ASSUME Report
        PROVE  ReleasedOwned'
    BY <1>14 DEF Report, Busy, Idle
  <1>15. ASSUME Restart
        PROVE  ReleasedOwned'
    BY <1>15 DEF Restart, NoDevice
  <1>16. ASSUME UNCHANGED vars
        PROVE  ReleasedOwned'
    BY <1>16 DEF vars
  <1> QED
    BY BusStepCases, <1>1, <1>2, <1>3, <1>4, <1>5, <1>6, <1>7, <1>8, <1>9, <1>10,
       <1>11, <1>12, <1>13, <1>14, <1>15, <1>16

--------------------------------------------------------------------------------
(* Names of the drives in the map. *)

LEMMA NamesStep ==
    ASSUME BusInv, [Next]_vars
    PROVE  OneNamePerDrive'
PROOF
  <1> USE DEF BusInv, TypeOK, OneNamePerDrive, Thread
  <1>1. ASSUME NEW c \in Caller, NEW p \in Path, NEW keep \in BOOLEAN, PluginCheck(c, p, keep)
        PROVE  OneNamePerDrive'
    BY <1>1 DEF PluginCheck
  <1>2. ASSUME NEW c \in Caller, NEW p \in Path, Plugout(c, p)
        PROVE  OneNamePerDrive'
    BY <1>2, LinkedDrive DEF Plugout, Unlink
  <1>3. ASSUME NEW t \in Caller \cup {Starter}, OpenFails(t)
        PROVE  OneNamePerDrive'
    BY <1>3 DEF OpenFails
  <1>4. ASSUME NEW t \in Caller \cup {Starter}, NEW d \in Drive, NEW id \in ID, Prepare(t, d, id)
        PROVE  OneNamePerDrive'
    BY <1>4 DEF Prepare
  <1>5. ASSUME NEW t \in Caller \cup {Starter}, Insert(t)
        PROVE  OneNamePerDrive'
    <2>1. op[t].drive \in Drive /\ dev[op[t].drive].state = "building"
      BY <1>5, OwnDrive DEF Insert, Busy
    <2>2. dev[op[t].drive].path \in Path /\ dev[op[t].drive].id \in ID
      BY <1>5, OwnDrive DEF Insert, Busy
    <2>3. CASE map[dev[op[t].drive].path] = NoDrive
      <3>1. dev' = [dev EXCEPT ![op[t].drive].state = "plugged"]
        BY <1>5, <2>3 DEF Insert
      <3>2. map' = [map EXCEPT ![dev[op[t].drive].path] = op[t].drive]
        BY <1>5, <2>3 DEF Insert
      <3>3. freeIDs' = freeIDs
        BY <1>5 DEF Insert
      <3> QED
        BY <2>1, <2>2, <3>1, <3>2, <3>3
    <2>4. CASE map[dev[op[t].drive].path] # NoDrive
      BY <1>5, <2>1, <2>2, <2>4 DEF Insert, NoDevice
    <2> QED
      BY <2>3, <2>4
  <1>6. ASSUME NEW t \in Caller \cup {Cleaner}, ReleaseID(t)
        PROVE  OneNamePerDrive'
    BY <1>6, OwnDrive DEF ReleaseID, Busy
  <1>7. ASSUME NEW t \in Caller \cup {Cleaner}, Shutdown(t)
        PROVE  OneNamePerDrive'
    BY <1>7, OwnDrive DEF Shutdown, Busy
  <1>8. ASSUME NEW d \in Drive, Eject(d)
        PROVE  OneNamePerDrive'
    BY <1>8 DEF Eject
  <1>9. ASSUME NEW d \in Drive, NEW p \in Path, Replace(d, p)
        PROVE  OneNamePerDrive'
    BY <1>9 DEF Replace
  <1>10. ASSUME NEW d \in Drive, Attach(d)
        PROVE  OneNamePerDrive'
    <2>1. dev[d].path \in Path /\ dev[d].next \in Path
      BY <1>10 DEF Attach, Device, Named
    <2>2. \A q \in Path : map'[q] # NoDrive => dev'[map'[q]].state = "plugged"
      <3>1. \A q \in Path : map'[q] # NoDrive => \E e \in Path : map'[q] = map[e]
        BY <1>10, <2>1 DEF Attach, Rekeyed
      <3>2. \A e \in Drive : dev'[e].state = dev[e].state
        BY <1>10 DEF Attach
      <3> QED
        BY <3>1, <3>2
    <2>3. \A q, r \in Path : (map'[q] # NoDrive /\ map'[q] = map'[r]) => q = r
      <3>1. CASE map' = map
        BY <3>1
      <3>2. CASE map' # map
        <4>1. map' = [map EXCEPT ![dev[d].path] = NoDrive,
                                 ![dev[d].next] = map[dev[d].path]]
          BY <1>10, <3>2 DEF Attach, Rekeyed
        <4> QED
          BY <2>1, <4>1
      <3> QED
        BY <3>1, <3>2
    <2> QED
      BY <2>2, <2>3
  <1>11. ASSUME Collect
        PROVE  OneNamePerDrive'
    BY <1>11 DEF Collect
  <1>12. ASSUME NEW p \in Path, CleanNext(p)
        PROVE  OneNamePerDrive'
    BY <1>12, LinkedDrive DEF CleanNext, Unlink
  <1>13. ASSUME NEW r \in todo, StartNext(r)
        PROVE  OneNamePerDrive'
    BY <1>13 DEF StartNext
  <1>14. ASSUME Report
        PROVE  OneNamePerDrive'
    BY <1>14 DEF Report
  <1>15. ASSUME Restart
        PROVE  OneNamePerDrive'
    BY <1>15 DEF Restart
  <1>16. ASSUME UNCHANGED vars
        PROVE  OneNamePerDrive'
    BY <1>16 DEF vars
  <1> QED
    BY BusStepCases, <1>1, <1>2, <1>3, <1>4, <1>5, <1>6, <1>7, <1>8, <1>9, <1>10,
       <1>11, <1>12, <1>13, <1>14, <1>15, <1>16

--------------------------------------------------------------------------------
(* Identifiers. *)

LEMMA UnlinkKeepsIDs ==
    ASSUME BusInv, NEW t \in Thread, NEW p \in Path, Unlink(t, p)
    PROVE  DistinctIDs'
  BY LinkedDrive DEF Unlink, BusInv, TypeOK, DistinctIDs, Holds

LEMMA IDsStep ==
    ASSUME BusInv, [Next]_vars
    PROVE  DistinctIDs'
PROOF
  <1> USE DEF BusInv, TypeOK, DistinctIDs, Holds, Thread
  <1>1. ASSUME NEW c \in Caller, NEW p \in Path, NEW keep \in BOOLEAN, PluginCheck(c, p, keep)
        PROVE  DistinctIDs'
    BY <1>1 DEF PluginCheck
  <1>2. ASSUME NEW c \in Caller, NEW p \in Path, Plugout(c, p)
        PROVE  DistinctIDs'
    BY <1>2, UnlinkKeepsIDs DEF Plugout
  <1>3. ASSUME NEW t \in Caller \cup {Starter}, OpenFails(t)
        PROVE  DistinctIDs'
    BY <1>3 DEF OpenFails
  <1>4. ASSUME NEW t \in Caller \cup {Starter}, NEW d \in Drive, NEW id \in ID, Prepare(t, d, id)
        PROVE  DistinctIDs'
    BY <1>4 DEF Prepare
  <1>5. ASSUME NEW t \in Caller \cup {Starter}, Insert(t)
        PROVE  DistinctIDs'
    <2>1. op[t].drive \in Drive /\ dev[op[t].drive].state = "building"
      BY <1>5, OwnDrive DEF Insert, Busy
    <2>2. dev[op[t].drive].path \in Path /\ dev[op[t].drive].id \in ID
      BY <1>5, OwnDrive DEF Insert, Busy
    <2>3. CASE map[dev[op[t].drive].path] = NoDrive
      <3>1. dev' = [dev EXCEPT ![op[t].drive].state = "plugged"]
        BY <1>5, <2>3 DEF Insert
      <3>2. map' = [map EXCEPT ![dev[op[t].drive].path] = op[t].drive]
        BY <1>5, <2>3 DEF Insert
      <3>3. freeIDs' = freeIDs
        BY <1>5 DEF Insert
      <3> QED
        BY <2>1, <2>2, <3>1, <3>2, <3>3
    <2>4. CASE map[dev[op[t].drive].path] # NoDrive
      BY <1>5, <2>1, <2>2, <2>4 DEF Insert, NoDevice
    <2> QED
      BY <2>3, <2>4
  <1>6. ASSUME NEW t \in Caller \cup {Cleaner}, ReleaseID(t)
        PROVE  DistinctIDs'
    BY <1>6, OwnDrive DEF ReleaseID, Busy
  <1>7. ASSUME NEW t \in Caller \cup {Cleaner}, Shutdown(t)
        PROVE  DistinctIDs'
    BY <1>7, OwnDrive DEF Shutdown, Busy, NoDevice
  <1>8. ASSUME NEW d \in Drive, Eject(d)
        PROVE  DistinctIDs'
    BY <1>8 DEF Eject
  <1>9. ASSUME NEW d \in Drive, NEW p \in Path, Replace(d, p)
        PROVE  DistinctIDs'
    BY <1>9 DEF Replace
  <1>10. ASSUME NEW d \in Drive, Attach(d)
        PROVE  DistinctIDs'
    BY <1>10 DEF Attach
  <1>11. ASSUME Collect
        PROVE  DistinctIDs'
    BY <1>11 DEF Collect
  <1>12. ASSUME NEW p \in Path, CleanNext(p)
        PROVE  DistinctIDs'
    BY <1>12, UnlinkKeepsIDs DEF CleanNext
  <1>13. ASSUME NEW r \in todo, StartNext(r)
        PROVE  DistinctIDs'
    BY <1>13 DEF StartNext
  <1>14. ASSUME Report
        PROVE  DistinctIDs'
    BY <1>14 DEF Report
  <1>15. ASSUME Restart
        PROVE  DistinctIDs'
    BY <1>15 DEF Restart, NoDevice
  <1>16. ASSUME UNCHANGED vars
        PROVE  DistinctIDs'
    BY <1>16 DEF vars
  <1> HIDE DEF DistinctIDs, Holds
  <1> QED
    BY BusStepCases, <1>1, <1>2, <1>3, <1>4, <1>5, <1>6, <1>7, <1>8, <1>9, <1>10,
       <1>11, <1>12, <1>13, <1>14, <1>15, <1>16

--------------------------------------------------------------------------------
(* Records. *)

LEMMA ForgottenKeepsOneRecord ==
    ASSUME TypeOK, OneRecordPerImage, NEW d \in Drive
    PROVE  OneRecordEach(Forgotten(d))
PROOF
  <1>1. db \in Database /\ dev[d].key \in DBKey \cup {NoKey}
    BY DEF TypeOK, Device
  <1> QED
    BY <1>1, RemovalKeepsOneRecord DEF Forgotten, OneRecordPerImage

LEMMA RecordsStep ==
    ASSUME BusInv, OneRecordPerImage, [Next]_vars
    PROVE  OneRecordPerImage'
PROOF
  <1>0. db \in Database /\ TypeOK
    BY DEF BusInv, TypeOK
  <1> USE DEF OneRecordPerImage, Thread
  <1>1. ASSUME NEW c \in Caller, NEW p \in Path, NEW keep \in BOOLEAN, PluginCheck(c, p, keep)
        PROVE  OneRecordPerImage'
    BY <1>1 DEF PluginCheck
  <1>2. ASSUME NEW c \in Caller, NEW p \in Path, Plugout(c, p)
        PROVE  OneRecordPerImage'
    BY <1>2 DEF Plugout, Unlink
  <1>3. ASSUME NEW t \in Caller \cup {Starter}, OpenFails(t)
        PROVE  OneRecordPerImage'
    BY <1>3 DEF OpenFails
  <1>4. ASSUME NEW t \in Caller \cup {Starter}, NEW d \in Drive, NEW id \in ID, Prepare(t, d, id)
        PROVE  OneRecordPerImage'
    <2>1. CASE Recording(t)
      <3>1. db' = AddImage(db, op[t].path)
        BY <1>4, <2>1 DEF Prepare
      <3>2. op[t].path \in Path
        BY <1>4 DEF Prepare
      <3>3. OneRecordEach(AddImage(db, op[t].path))
        BY <1>0, <3>2, AddImageKeepsOneRecord
      <3> QED
        BY <3>1, <3>3
    <2>2. CASE ~Recording(t)
      BY <1>4, <2>2 DEF Prepare
    <2> QED
      BY <2>1, <2>2
  <1>5. ASSUME NEW t \in Caller \cup {Starter}, Insert(t)
        PROVE  OneRecordPerImage'
    BY <1>5 DEF Insert
  <1>6. ASSUME NEW t \in Caller \cup {Cleaner}, ReleaseID(t)
        PROVE  OneRecordPerImage'
    BY <1>6 DEF ReleaseID
  <1>7. ASSUME NEW t \in Caller \cup {Cleaner}, Shutdown(t)
        PROVE  OneRecordPerImage'
    <2>1. op[t].drive \in Drive
      BY <1>7, OwnDrive DEF Shutdown, Busy
    <2> QED
      BY <1>7, <1>0, <2>1, ForgottenKeepsOneRecord DEF Shutdown
  <1>8. ASSUME NEW d \in Drive, Eject(d)
        PROVE  OneRecordPerImage'
    BY <1>8, <1>0, ForgottenKeepsOneRecord DEF Eject
  <1>9. ASSUME NEW d \in Drive, NEW p \in Path, Replace(d, p)
        PROVE  OneRecordPerImage'
    BY <1>9 DEF Replace
  <1>10. ASSUME NEW d \in Drive, Attach(d)
        PROVE  OneRecordPerImage'
    BY <1>10 DEF Attach
  <1>11. ASSUME Collect
        PROVE  OneRecordPerImage'
    BY <1>11 DEF Collect
  <1>12. ASSUME NEW p \in Path, CleanNext(p)
        PROVE  OneRecordPerImage'
    BY <1>12 DEF CleanNext, Unlink
  <1>13. ASSUME NEW r \in todo, StartNext(r)
        PROVE  OneRecordPerImage'
    BY <1>13 DEF StartNext
  <1>14. ASSUME Report
        PROVE  OneRecordPerImage'
    BY <1>14, <1>0, StatusKeepsOneRecord DEF Report
  <1>15. ASSUME Restart
        PROVE  OneRecordPerImage'
    BY <1>15 DEF Restart
  <1>16. ASSUME UNCHANGED vars
        PROVE  OneRecordPerImage'
    BY <1>16 DEF vars
  <1> QED
    BY BusStepCases, <1>1, <1>2, <1>3, <1>4, <1>5, <1>6, <1>7, <1>8, <1>9, <1>10,
       <1>11, <1>12, <1>13, <1>14, <1>15, <1>16

--------------------------------------------------------------------------------
(* The theorems. *)

LEMMA BusInvHolds == Spec => []BusInv
PROOF
  <1>1. Init => BusInv
    <2> SUFFICES ASSUME Init
                 PROVE  BusInv
      OBVIOUS
    <2>1. TypeOK
      BY NoDeviceType, IdleType, KeyLimitAssumption
         DEF Init, TypeOK, EmptyDatabase, Database
    <2>2. Named /\ Owned
      BY DEF Init, Named, Owned, NoDevice, Idle, Busy
    <2>3. OneNamePerDrive /\ ReleasedOwned /\ DistinctIDs
      BY DEF Init, OneNamePerDrive, ReleasedOwned, DistinctIDs, Holds, NoDevice
    <2> QED
      BY <2>1, <2>2, <2>3 DEF BusInv
  <1>2. BusInv /\ [Next]_vars => BusInv'
    BY BusTypeStep, NamedStep, OwnedStep, NamesStep, ReleasedStep, IDsStep DEF BusInv
  <1> QED
    BY <1>1, <1>2, PTL DEF Spec

(* The bus's state has the type its classes give it, whichever way mounts,  *)
(* removals, renamings, start-ups and restarts interleave.                  *)
THEOREM BusTypeCorrect == Spec => []TypeOK
PROOF
  <1>1. BusInv => TypeOK
    BY DEF BusInv
  <1> QED
    BY <1>1, BusInvHolds, PTL

(* ShutdownPDO returns the identifier to the pool while the device is there. *)
(* From then on AllocateID may give a new device its name, however many      *)
(* threads mount and unplug; but only until that thread has shut the old one *)
(* down, and the old one is already out of the map.  All other devices have  *)
(* names of their own.                                                       *)
THEOREM NamesClashOnlyThen == Spec => []NamesClashOnlyInShutdown
PROOF
  <1>1. BusInv => NamesClashOnlyInShutdown
    <2> SUFFICES ASSUME BusInv, NEW d \in Drive, Exists(d)
                 PROVE  \/ /\ dev[d].id \in ID \ freeIDs
                           /\ \A e \in Drive \ {d} :
                                 (Exists(e) /\ dev[e].id = dev[d].id) => BeingShutDown(e)
                        \/ /\ BeingShutDown(d)
                           /\ \A p \in Path : map[p] # d
      BY DEF NamesClashOnlyInShutdown
    <2>1. \A e \in Drive : Exists(e) => Holds(e) \/ dev[e].state = "released"
      BY DEF BusInv, TypeOK, Device, Exists, Holds
    <2>2. \A e \in Drive : dev[e].state = "released" => BeingShutDown(e)
      BY DEF BusInv, ReleasedOwned
    <2>3. CASE Holds(d)
      BY <2>1, <2>2, <2>3 DEF BusInv, DistinctIDs
    <2>4. CASE dev[d].state = "released"
      <3>1. \A p \in Path : map[p] # d
        BY <2>4, BusAssumption DEF BusInv, OneNamePerDrive
      <3> QED
        BY <2>2, <2>4, <3>1
    <2> QED
      BY <2>1, <2>3, <2>4
  <1> QED
    BY <1>1, BusInvHolds, PTL

(* Each entry of the bus's map is a plugged drive with a single name, for   *)
(* either outcome of a ReplacePDOKey whose new name is taken.               *)
THEOREM NamesAreUnique == Spec => []OneNamePerDrive
PROOF
  <1>1. BusInv => OneNamePerDrive
    BY DEF BusInv
  <1> QED
    BY <1>1, BusInvHolds, PTL

(* AddImage, RemoveImageByKey and ReportMountStatus, called in any order by *)
(* any threads and across restarts, give no image two records.              *)
THEOREM RecordsAreUnique == Spec => []OneRecordPerImage
PROOF
  <1>1. Init => OneRecordPerImage
    BY RecordAssumption DEF Init, OneRecordPerImage, OneRecordEach, EmptyDatabase
  <1>2. BusInv /\ OneRecordPerImage /\ [Next]_vars => OneRecordPerImage'
    BY RecordsStep
  <1> QED
    BY <1>1, <1>2, BusInvHolds, PTL DEF Spec

================================================================================
