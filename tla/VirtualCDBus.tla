------------------------------ MODULE VirtualCDBus ------------------------------
(***************************************************************************)
(* The bus driver (BazisVirtualCDBus/BazisVirtualCDBus.cpp) with several   *)
(* virtual drives and the database of images to be kept.  It composes      *)
(* PersistentImageDatabase with the drives; a drive is coarser here than   *)
(* in VirtualCDDevice: a replacement is asked for in one step and          *)
(* completed in another.                                                   *)
(*                                                                         *)
(* Threads: callers of the bus's IOCTLs, the cleanup thread, and the       *)
(* thread that mounts the kept images when the bus starts.  The map of     *)
(* drives, the pool of identifiers and the database each have a lock of    *)
(* their own, so a step is one visit to one of them.                       *)
(***************************************************************************)
EXTENDS PersistentImageDatabase

CONSTANTS
    Drive,      \* device objects: bounds how many exist at a time
    ID,         \* identifiers of the pool: bounds how many are handed out
    Caller,     \* threads that call the bus's IOCTLs
    Cleaner,    \* the cleanup thread
    Starter,    \* the thread that runs OnDeviceStarted
    Replacing,  \* the drives whose image is also replaced (IOCTL_VDEV_MOUNT_IMAGE)
    NoDrive, NoID, NoKey, NoPath

ASSUME BusAssumption ==
    /\ NoDrive \notin Drive
    /\ NoID \notin ID
    /\ NoKey \notin DBKey
    /\ NoPath \notin Path \cup {Free, Blank}
    /\ Cleaner \notin Caller
    /\ Starter \notin Caller
    /\ Cleaner # Starter
    /\ Replacing \subseteq Drive

Thread == Caller \cup {Cleaner, Starter}

VARIABLES
    map,        \* the bus's map from file name to PDO
    dev,        \* the devices
    freeIDs,    \* identifiers in the pool
    db,         \* the database; the only thing that survives a restart
    op,         \* per thread: the operation it is in
    list,       \* devicesToDelete of the cleanup thread
    todo        \* the records OnDeviceStarted still has to mount

vars == <<map, dev, freeIDs, db, op, list, todo>>

NoDevice ==
    [state |-> "none", id |-> NoID, path |-> NoPath, image |-> FALSE,
     key |-> NoKey, next |-> NoPath]

Idle ==
    [pc |-> "idle", path |-> NoPath, keep |-> FALSE, key |-> NoKey,
     drive |-> NoDrive]

Device ==
    [state : {"none", "building", "plugged", "dying", "released"},
     id : ID \cup {NoID}, path : Path \cup {NoPath}, image : BOOLEAN,
     key : DBKey \cup {NoKey}, next : Path \cup {NoPath}]

Operation ==
    [pc : {"idle", "checked", "prepared", "report", "unlinked", "released"},
     path : Path \cup {NoPath}, keep : BOOLEAN, key : DBKey \cup {NoKey},
     drive : Drive \cup {NoDrive}]

TypeOK ==
    /\ map \in [Path -> Drive \cup {NoDrive}]
    /\ dev \in [Drive -> Device]
    /\ freeIDs \in SUBSET ID
    /\ db \in Database
    /\ op \in [Thread -> Operation]
    /\ list \in SUBSET Path
    /\ todo \in SUBSET (DBKey \X (Path \cup {Blank}))

(* The bus as it starts: no drives, and the kept images still to be mounted. *)
Init ==
    /\ map = [p \in Path |-> NoDrive]
    /\ dev = [d \in Drive |-> NoDevice]
    /\ freeIDs = ID
    /\ db = EmptyDatabase
    /\ op = [t \in Thread |-> Idle]
    /\ list = {}
    /\ todo = {}

(* What a thread does once its operation is over: the starter goes on to    *)
(* report the status of the record, everyone else returns.                  *)
Done(t) ==
    IF t = Starter
    THEN [op EXCEPT ![t] = [Idle EXCEPT !.pc = "report", !.key = op[t].key]]
    ELSE [op EXCEPT ![t] = Idle]

--------------------------------------------------------------------------------
(* Mounting: IOCTL_PLUGIN_DEVICE and DoMountImage.                           *)

(* The name is looked up first; it may be taken by the time it is used. *)
PluginCheck(c, p, keep) ==
    /\ op[c].pc = "idle"
    /\ map[p] = NoDrive
    /\ op' = [op EXCEPT ![c] = [Idle EXCEPT !.pc = "checked", !.path = p,
                                            !.keep = keep]]
    /\ UNCHANGED <<map, dev, freeIDs, db, list, todo>>

(* The file cannot be opened, or no format recognises it. *)
OpenFails(t) ==
    /\ op[t].pc = "checked"
    /\ op' = Done(t)
    /\ UNCHANGED <<map, dev, freeIDs, db, list, todo>>

(* The database is asked for a record unless the image comes from one. *)
Recording(t) == op[t].keep /\ op[t].key = NoKey

KeyGiven(t) ==
    IF Recording(t) THEN KeyFor(db, op[t].path) ELSE op[t].key

(* The image is parsed, an identifier allocated, the record made and the    *)
(* device constructed: one step for two locks, since nobody sees the device *)
(* between them, and another thread that comes in between could as well     *)
(* have come before or after.                                               *)
Prepare(t, d, id) ==
    /\ op[t].pc = "checked"
    /\ op[t].path \in Path
    /\ dev[d].state = "none"
    /\ id \in freeIDs
    /\ freeIDs' = freeIDs \ {id}
    /\ db' = IF Recording(t) THEN AddImage(db, op[t].path) ELSE db
    /\ dev' = [dev EXCEPT ![d] =
                 [state |-> "building", id |-> id, path |-> op[t].path,
                  image |-> TRUE, key |-> KeyGiven(t), next |-> NoPath]]
    /\ op' = [op EXCEPT ![t] = [Idle EXCEPT !.pc = "prepared", !.drive = d,
                                            !.key = op[t].key]]
    /\ UNCHANGED <<map, list, todo>>

(* InsertPDO refuses a name that is taken.  The device is deleted then, but *)
(* its identifier does not go back to the pool, and its record stays.       *)
Insert(t) ==
    /\ op[t].pc = "prepared"
    /\ LET d == op[t].drive
           p == dev[d].path
       IN IF map[p] = NoDrive
          THEN /\ map' = [map EXCEPT ![p] = d]
               /\ dev' = [dev EXCEPT ![d].state = "plugged"]
          ELSE /\ dev' = [dev EXCEPT ![d] = NoDevice]
               /\ UNCHANGED map
    /\ op' = Done(t)
    /\ UNCHANGED <<freeIDs, db, list, todo>>

--------------------------------------------------------------------------------
(* Unplugging: IOCTL_PLUGOUT_DEVICE, IOCTL_EJECT_DEVICE,                     *)
(* IOCTL_SOFT_PLUGOUT_DEVICE, and ShutdownPDO.                               *)

(* PlugoutPDO takes the PDO that has the name out of the map ... *)
Unlink(t, p) ==
    /\ op[t].pc = "idle"
    /\ map[p] # NoDrive
    /\ map' = [map EXCEPT ![p] = NoDrive]
    /\ dev' = [dev EXCEPT ![map[p]].state = "dying"]
    /\ op' = [op EXCEPT ![t] = [Idle EXCEPT !.pc = "unlinked", !.drive = map[p]]]
    /\ UNCHANGED <<freeIDs, db>>

(* A caller asks for it.  The soft variant first looks the name up to see   *)
(* whether that drive may be unplugged when its disc is ejected; what it    *)
(* unplugs is what has the name later on, so it is no different.            *)
Plugout(c, p) ==
    /\ Unlink(c, p)
    /\ UNCHANGED <<list, todo>>

(* ... then ShutdownPDO gives the identifier back ... *)
ReleaseID(t) ==
    /\ op[t].pc = "unlinked"
    /\ freeIDs' = freeIDs \cup {dev[op[t].drive].id}
    /\ dev' = [dev EXCEPT ![op[t].drive].state = "released"]
    /\ op' = [op EXCEPT ![t].pc = "released"]
    /\ UNCHANGED <<map, db, list, todo>>

(* Dispose() deletes the record whose key the device was made with,         *)
(* whatever has become of that record since.                                *)
Forgotten(d) ==
    IF dev[d].key = NoKey THEN db ELSE RemoveImageByKey(db, dev[d].key)

(* Variant: the identifier is given back once more. *)
ShutdownReleasing(t) ==
    /\ op[t].pc = "released"
    /\ freeIDs' = freeIDs \cup {dev[op[t].drive].id}
    /\ db' = Forgotten(op[t].drive)
    /\ dev' = [dev EXCEPT ![op[t].drive] = NoDevice]
    /\ op' = Done(t)
    /\ UNCHANGED <<map, list, todo>>

(* ... and shuts the device down, which disposes of its image. *)
Shutdown(t) ==
    /\ op[t].pc = "released"
    /\ db' = Forgotten(op[t].drive)
    /\ dev' = [dev EXCEPT ![op[t].drive] = NoDevice]
    /\ op' = Done(t)
    /\ UNCHANGED <<map, freeIDs, list, todo>>

--------------------------------------------------------------------------------
(* The drives: LOAD/UNLOAD and IOCTL_VDEV_MOUNT_IMAGE.                       *)

Eject(d) ==
    /\ dev[d].state = "plugged"
    /\ db' = Forgotten(d)
    /\ dev' = [dev EXCEPT ![d].image = FALSE]
    /\ UNCHANGED <<map, freeIDs, op, list, todo>>

Replace(d, p) ==
    /\ d \in Replacing
    /\ dev[d].state = "plugged"
    /\ dev' = [dev EXCEPT ![d].image = FALSE, ![d].next = p]
    /\ UNCHANGED <<map, freeIDs, db, op, list, todo>>

(* Variant: the old name is not given up. *)
RekeyedKeepingOld(old, new) ==
    IF map[old] = NoDrive THEN {map} ELSE {[map EXCEPT ![new] = map[old]]}

(* The maps ReplacePDOKey may leave behind (the class is outside src/).  An *)
(* unknown name changes nothing.  When the new name is taken, the entry is  *)
(* either overwritten or left alone.                                        *)
Rekeyed(old, new) ==
    LET moved == [map EXCEPT ![old] = NoDrive, ![new] = map[old]]
    IN IF map[old] = NoDrive THEN {map}
       ELSE IF map[new] = NoDrive \/ old = new THEN {moved}
       ELSE {map, moved}

(* The completing TEST UNIT READY; it may still be under way when its drive *)
(* is taken out of the map.                                                 *)
Attach(d) ==
    /\ dev[d].state \in {"plugged", "dying", "released"}
    /\ dev[d].next # NoPath
    /\ map' \in Rekeyed(dev[d].path, dev[d].next)
    /\ dev' = [dev EXCEPT ![d].image = TRUE, ![d].path = dev[d].next,
                          ![d].next = NoPath]
    /\ UNCHANGED <<freeIDs, db, op, list, todo>>

--------------------------------------------------------------------------------
(* The cleanup thread: VirtualDriveCleanupThread.                            *)

Unused(p) ==
    /\ map[p] # NoDrive
    /\ ~dev[map[p]].image
    /\ dev[map[p]].next = NoPath

(* Under the lock of the map, the names of the drives to unplug are noted   *)
(* (each drive has its own clock and counter, so any of them may be due).   *)
Collect ==
    /\ op[Cleaner].pc = "idle"
    /\ list = {}
    /\ \E due \in SUBSET {p \in Path : Unused(p)} : due # {} /\ list' = due
    /\ UNCHANGED <<map, dev, freeIDs, db, op, todo>>

(* After the lock is released, each name is unplugged like a caller would,  *)
(* whichever drive has it by then, if any.                                  *)
CleanNext(p) ==
    /\ op[Cleaner].pc = "idle"
    /\ p \in list
    /\ list' = list \ {p}
    /\ IF map[p] # NoDrive THEN Unlink(Cleaner, p)
       ELSE UNCHANGED <<map, dev, freeIDs, db, op>>
    /\ UNCHANGED todo

--------------------------------------------------------------------------------
(* Start-up: OnDeviceStarted.                                                *)

(* The next record is mounted under its own key, with no look at the map. *)
StartNext(r) ==
    /\ op[Starter].pc = "idle"
    /\ r \in todo
    /\ todo' = todo \ {r}
    /\ op' = [op EXCEPT ![Starter] =
                [pc |-> "checked", path |-> IF r[2] = Blank THEN NoPath ELSE r[2],
                 keep |-> TRUE, key |-> r[1], drive |-> NoDrive]]
    /\ UNCHANGED <<map, dev, freeIDs, db, list>>

Report ==
    /\ op[Starter].pc = "report"
    /\ db' = ReportMountStatus(db, op[Starter].key)
    /\ op' = [op EXCEPT ![Starter] = Idle]
    /\ UNCHANGED <<map, dev, freeIDs, list, todo>>

(* The machine stops at any moment; only the database is there afterwards. *)
Restart ==
    /\ map' = [p \in Path |-> NoDrive]
    /\ dev' = [d \in Drive |-> NoDevice]
    /\ freeIDs' = ID
    /\ op' = [t \in Thread |-> Idle]
    /\ list' = {}
    /\ todo' = LoadImageList(db)
    /\ UNCHANGED db

--------------------------------------------------------------------------------

Mount(t) ==
    \/ OpenFails(t)
    \/ \E d \in Drive, id \in ID : Prepare(t, d, id)
    \/ Insert(t)

Unplug(t) == ReleaseID(t) \/ Shutdown(t)

CallerStep(c) ==
    \/ \E p \in Path, keep \in BOOLEAN : PluginCheck(c, p, keep)
    \/ \E p \in Path : Plugout(c, p)

DriveStep(d) ==
    \/ Eject(d)
    \/ \E p \in Path : Replace(d, p)
    \/ Attach(d)

Next ==
    \/ \E c \in Caller : CallerStep(c)
    \/ \E t \in Caller \cup {Starter} : Mount(t)
    \/ \E t \in Caller \cup {Cleaner} : Unplug(t)
    \/ \E d \in Drive : DriveStep(d)
    \/ Collect
    \/ \E p \in Path : CleanNext(p)
    \/ \E r \in todo : StartNext(r)
    \/ Report
    \/ Restart

Spec == Init /\ [][Next]_vars

--------------------------------------------------------------------------------
(* Properties.                                                               *)

(* A device exists from the mount that makes it to the end of its shutdown. *)
Exists(d) == dev[d].state # "none"

(* Some thread has given its identifier back and not shut it down yet. *)
BeingShutDown(d) == \E t \in Thread : op[t].pc = "released" /\ op[t].drive = d

(* The device names VirtualCD_%04X are made from the identifiers.  Nobody   *)
(* can come to have the name of a device that exists, nor does anybody have *)
(* it, but for devices that ShutdownPDO is in the middle of, and these no   *)
(* longer have an entry in the map.                                         *)
NamesClashOnlyInShutdown ==
    \A d \in Drive : Exists(d) =>
        \/ /\ dev[d].id \in ID \ freeIDs
           /\ \A e \in Drive \ {d} :
                 (Exists(e) /\ dev[e].id = dev[d].id) => BeingShutDown(e)
        \/ /\ BeingShutDown(d)
           /\ \A p \in Path : map[p] # d

(* "Fixed bug with creating new devices while previous are held by OS": the *)
(* name of a device that a mount makes is not that of an earlier device     *)
(* that is still there.                                                     *)
NewNamesAreUnused ==
    \A d, e \in Drive :
        (dev[d].state \in {"building", "plugged"} /\ Exists(e) /\ dev[e].id = dev[d].id)
            => e = d

(* Every entry of the map is a drive that is plugged in, under one name     *)
(* only, however names are replaced, looked up again and reused.            *)
OneNamePerDrive ==
    \A p \in Path : map[p] # NoDrive =>
        /\ dev[map[p]].state = "plugged"
        /\ \A q \in Path : map[q] = map[p] => p = q

(* However mounts, ejects, start-ups and crashes interleave, no image has   *)
(* two records, so none is mounted twice by the next start-up.              *)
OneRecordPerImage == OneRecordEach(db)

(* "Added an option for keeping mounted images after restart": the image in *)
(* a drive that was mounted to be kept is in the database.                  *)
KeptImageRecorded ==
    \A p \in Path :
        (map[p] # NoDrive /\ dev[map[p]].image /\ dev[map[p]].key # NoKey)
            => db[dev[map[p]].key] = dev[map[p]].path

================================================================================
