# WinCDEmu in TLA+

WinCDEmu mounts disc images as virtual drives on Windows. This directory holds
TLA+ models of its core, the TLC configurations that check them, and theorems
checked by TLAPS. Paths are relative to the repository's root; `VirtualCDDevice.cpp:825`
means line 825 of `src/BazisVirtualCDBus/VirtualCDDevice.cpp`.

1. [The system](#the-system)
2. [Modules](#modules)
3. [Runs](#runs)
4. [Proofs](#proofs)
5. [Findings](#findings)
6. [Not modelled](#not-modelled)
7. [Plan](#plan)

## The system

| Component | State | Operations | Hard parts |
|---|---|---|---|
| **Virtual drive** (`BazisVirtualCDBus/VirtualCDDevice.*`) | image pointer, sector count, pending replacement, counter of TEST UNIT READY calls, time of the eject, mount event and drive letter | execute SCSI requests, `IOCTL_VDEV_MOUNT_IMAGE`, wait for the mount, set a letter, dispose | replacing the image while SCSI threads, clients and the cleanup thread look at it; several of those looks take no lock |
| **Bus driver** (`BazisVirtualCDBus/BazisVirtualCDBus.*`) | map from file names to drives, pool of identifiers, cleanup thread | plug in, plug out, soft plug-out, eject by name, list drives, start-up, rename a drive | a name is looked up, released and used later; identifier, name and device have different lifetimes |
| **Image database** (`PersistentImageDatabase.*`) | a registry key with one subkey per kept image | add, remove, load, report a status | survives restarts; its keys are reused while drives still remember them |
| **Portable bus** (`BazisPortableCDBus/`) | the same bus, started as a service | start, stop | driver start and stop |
| **Control library** (`VirtualCDCtl/VirtualCDClient.*`, `VirtualDriveClient.*`) | none | connect, disconnect with three fallbacks, mount a new image and wait, restart the driver | each fallback is a new look at the bus |
| **ISO reader** (`VirtualCDCtl/DriveReadingThread.*`, `BadSectorDatabase.h`) | position, list of bad sectors, pause event, abort flag, files | read a disc into a file, retry bad sectors, pause, resume, abort | short reads, partial writes, errors answered by another thread under a mutex |
| **ISO progress dialog** (`vmnt/ISOProgressDialog.*`) | the reader's thread, answers of the user | start, pause, cancel, answer | messages between the two threads |
| **ISO build dialog** (`vmnt/ISOBuildProgressDialog.*`) | the mkisofs process, its pipe, `m_Succeeded` | start, timer, cancel, mount what was made | the pipe fills; the user clicks while a handler is in the middle |
| **Autorun monitor** (`VirtualAutorunDisabler/`) | server state, watchdog, timeout | initialise, allow or refuse autoplay, terminate | watchdog against a late client; shutdown against a new request |
| **Image formats** (`ImageFormats/`) | parsed track table | recognise a format, parse, read sectors across tracks | order of the parsers, arithmetic at track borders |
| **UDF reader** (`ImageFormats/Filesystems/`) | none | find a directory in an image | chains of structures, sectors mapped through extents |
| **MMC replies and disc questions** (`VirtualCDDevice.cpp`, `CDSpeed.cpp`, `DriveReadingThread.cpp`) | profile and size of the image | features, mode pages, disc information; speeds and table of contents | lengths and offsets of replies |
| **Tools** (`vmnt/`, `batchmnt/`, `VirtualDriveManager/`, `WinCDEmuContextMenu/`) | none beyond a dialog | mount, unmount, list, replace, restart the driver | every decision rests on what the bus said some calls ago |
| **Installer** (`InstallerStub/`, `Uninstall/`) | files, registry, services | install, uninstall | a step fails half-way |

How they interact. A tool (`vmnt`, `batchmnt`, the drive manager) calls the
control library, which sends IOCTLs to the bus or to one drive. The bus makes
drives, enters them in its map and records in the database which images to mount
again after a restart. Windows sends SCSI requests to each drive. A drive calls
the bus back when its image was replaced (`OnImagePathUpdated`) and reaches the
database when it is disposed of. The cleanup thread of the bus polls its drives
every second and unplugs those whose disc was ejected. Shared state is therefore:
the map (its own lock), the pool of identifiers and the database (a lock each),
and in every drive a mutex that protects *some* of its fields.

What makes the components correct:

- *drive*: a replacement is completed and its caller told; the old image does
  not come back; Windows notices the change of medium; a drive goes away when,
  and only when, its disc was ejected;
- *bus*: a name in the map is one plugged drive's, and a new drive does not take the
  device name of one that exists; an image that was
  mounted to be kept is mounted again after a restart, once;
- *reader*: what is written to the file is what was read, at its place; a
  sector that could not be read is remembered; a cancellation ends;
- *build dialog*: an image the user was told of stays, and a half-made one goes;
- *autorun monitor*: it does not end while it is used, and ends when it is not;
- *tools and control library*: a program does what it was run for, to no other
  drive, and what it reports is what happened;
- *formats, UDF*: a sector number leads to the right place of the right file;
  nothing that is not on the disc is found;
- *replies*: what one command answers agrees with what another does.

`PROJECT.json` lists the hazards of this code, each at its line, with the
properties that cover it, or why none does.

## Modules

| Module | Models |
|---|---|
| `RemountSlot` | what a caller of `IOCTL_VDEV_MOUNT_IMAGE` is promised: no threads, no locks, no SCSI |
| `VirtualCDDevice` | one drive at the grain of single reads and writes of its shared fields; implements `RemountSlot` |
| `PersistentImageDatabase` | the registry key and its methods, as operators |
| `VirtualCDBus` | the bus with several drives, the database, start-up and restarts |
| `BadSectors` | the list of bad ranges and its methods, as operators |
| `DriveReader` | the thread that reads a disc into a file, and the thread of its dialog |
| `ISOBuild` | mkisofs, its pipe, and the dialog that waits for it |
| `AutorunMonitor` | the processes of the COM server, their watchdogs, and the clients that start them |
| `DriveTools` | `vmnt`, `batchmnt`, the drive manager and their library, over the drives of one bus |
| `MultiTrackImage` | track tables, raw images, and the reads of a drive, as operators |
| `TrackParsers` | how CUE, CCD, MDS and NRG descriptions become track tables, as operators |
| `FormatDetection` | the choice of a parser and the guess of a raw layout, as operators |
| `MiniUDF` | the search for a directory in a UDF image, as operators |
| `MMCReplies` | MMC commands of a drive, and the speeds it is asked for before a copy, as operators |
| `DiscData` | the shapes of the inputs of the modules of operators, and what is asked of their results |
| `MCDiscData` | the inputs for TLC |
| `MCVirtualCDDevice`, `MCVirtualCDBus`, `MCDriveTools` | symmetry sets and commands for TLC |
| `VirtualCDDevice_proofs`, `VirtualCDBus_proofs`, `DriveReader_proofs`, `DriveTools_proofs`, `ISOBuild_proofs`, `AutorunMonitor_proofs` | theorems about each of these modules, and their proofs |
| `DiscData_proofs` | theorems about `TrackParsers`, `MultiTrackImage`, `FormatDetection`, `MiniUDF` and `MMCReplies` |
| `IntervalFacts` | lemmas about numbers and recursive functions, for the last and for `DriveReader_proofs` |

Some modules hold operators marked *Variant*. They are no part of the system:
each is a slip one could make at that place of the code, and one of the
properties excludes it. The specifications do not use them.

### VirtualCDDevice

| Model | Code |
|---|---|
| `imagePtr` | `m_pUnsynchronizedImagePtr` |
| `pending` | `m_pPendingRemountRequest`, with the client whose event it carries |
| `turCalls` | `m_TestUnitReadyCallsSinceUnmount`, stopped at `CountCap` |
| `suppress` | `m_SuppressUnusedDriveCleanup` |
| `timedOut` | the comparison of the time since `m_DisposeTime` with `CleanupTimeout` |
| `mutex` | `m_UnmountStateMutex`, where it is held over several steps |
| `Call`, `Post`, `TakeOut` | `DeviceControl` 204-241, then `AttachDiscImage` with `attachImmediately` false: lines 807-823 under the mutex, 825 after it |
| `WaitDone`, `WaitTimeout` | the caller's wait for its event |
| `TurStart` .. `TurFinish` | TEST UNIT READY (349-374): the copy of the pointer, the count under the mutex, and for the call that completes a replacement the attach, the renaming in the bus's map, and the deletion of the request |
| `EjectStart`, `EjectFinish` | LOAD/UNLOAD: the two assignments of `Dispose()` |
| `ScanStart` .. `Decide`, `Unplug` | `VirtualDriveCleanupThread` and the three unlocked reads of `IsUnplugPending` |
| `Plugout` | `IOCTL_PLUGOUT_DEVICE` on this drive |
| `TurFault` | the null pointer at 829 (see [Findings](#findings)): the machine stops |

A thread's step ends wherever another thread can see the drive. What happens
under the mutex is one step unless another lock is taken inside it: the thread
that completes a replacement keeps the mutex from `TurAttach` to `TurFinish`
while it waits for the lock of the map, and there the cleanup thread interleaves.
The lock of the map is not a variable: the cleanup thread holds it exactly while
it is in `Scanning`.

`ejected` and `absent` are history variables, used only by properties.

### VirtualCDBus

| Model | Code |
|---|---|
| `map` | the map of the indexed bus, from file names to PDOs |
| `dev` | the device objects with their identifier, path, database key, and whether they hold an image |
| `freeIDs` | `m_Pool` (`AllocateID`, `ReleaseID`) |
| `db` | the registry key; the only variable that survives `Restart` |
| `op` | what each thread is in the middle of |
| `list` | `devicesToDelete` of the cleanup thread |
| `todo` | the records `OnDeviceStarted` has loaded and not mounted yet |
| `PluginCheck`, `Prepare`, `Insert`, `OpenFails` | `IOCTL_PLUGIN_DEVICE` and `DoMountImage`: the test whether the name is taken, the mount, and `InsertPDO` are three visits to shared state |
| `Unlink`, `ReleaseID`, `Shutdown` | `PlugoutPDO` and `ShutdownPDO` |
| `Eject`, `Replace`, `Attach` | what a drive does that the bus can see |
| `Collect`, `CleanNext` | the cleanup thread: names noted under the lock, used after it |
| `StartNext`, `Report`, `Restart` | `OnDeviceStarted`, and the end of the machine at any moment |

The drive's detail is in `VirtualCDDevice` and is not repeated: there a
replacement has eight steps, here it has two (`Replace`, `Attach`).

File names stand for all their spellings, since the code compares them without
case. The classes of BazisLib that the bus is built on are outside `src/`. They
are modelled from their use, and where the use leaves a choice the model has
both outcomes: `Rekeyed` either overwrites a name that is taken or leaves the map
alone.

### DriveReader

| Model | Code |
|---|---|
| `pc`, `status` | where `ThreadBody` is, `m_FinalStatus` |
| `done`, `todo`, `perSector`, `endOfFailedBlock` | the locals of `DoMainReadLoop` and `m_BytesDone` |
| `buf`, `discPos`, `filePos`, `file` | the buffer, the file pointers of disc and image, the image |
| `bad`, `work` | `m_BadSectors`; the rest of the detached list in `ReReadBadSectors` |
| `queued`, `abort`, `cancelled`, `handler` | `m_QueuedBadSectors`, `m_bAbort`, `m_bCancelBadSectorReReading`, `m_pErrorHandler` |
| `paused` | `m_bPaused` together with `m_ContinueEvent`, which always change together and in the dialog's thread only |
| `message` | a message the reader has sent and not got an answer to; the reader holds `m_MainMutex` just then |
| `main`, `told` | where `CreateISOFile` and the dialog are; what the user was shown about the outcome |
| `Aborted` .. `AskRetry` | `DoMainReadLoop`: checks of the abort flag, reading, writing, the question after a failed write |
| `AskBad` .. `RereadDone`, `Close` | the rest of `ThreadBody` and `ReReadBadSectors` |
| `SetErrorHandler` .. `OnTimer` | `CreateISOFile` and the handlers of the dialog |
| `Unheard` | `SendMessage` to a window that is gone or not made yet: it returns zero |
| `ClearErrorHandler` .. `Join` | the end of `CreateISOFile`: `SetErrorHandler(NULL)`, `AbortIfStillRunning` |

Positions count sectors. A sector of the disc has its own number as contents, so
that a sector that is written to the wrong place shows. Reads and writes fail at
will; with `PartialReads` and `PartialWrites` they may also do a part of what
they were asked. `m_bBadSectorDialogInvoked` is no variable, because bad sectors
are counted only after the question about them: `queued # 0` implies it. While a
message is outstanding, the user may answer it or close the dialog.

After a failure `OnTimer` also deletes the image (`ISOProgressDialog.cpp:226`), which is
left out: nothing looks at the file any more.

### ISOBuild

| Model | Code |
|---|---|
| `mkisofs`, `written` | the process and how far it is |
| `pipe` | lines in the pipe that the dialog has not read |
| `image` | what the file of the chosen name holds |
| `dialog` | where the dialog's thread is: `open` when it handles messages, `asking` when it does so under the question about autorun, `ending` when it was cancelled there and the handler has not returned |
| `succeeded` | `m_Succeeded` |
| `mounted` | what a drive was given |
| `Begin` | `BuildISOFromFolder` and the dialog's constructor: the old file is deleted and mkisofs started |
| `ReadOutput`, `Look` | `OnTimer` in two steps, since mkisofs runs between them: the pipe is emptied, then the process is looked at |
| `Made` | what the two check boxes say is to be done with the image |
| `AskAboutAutorun`, `Mount`, `MountFails` | `MountImage` and the message box of `AutorunErrorHandler`, which has no parent |
| `Cancel` | `OnBnClickedCancel`: terminate, wait, delete |
| `WritePart`, `Finish`, `Fail`, `Die` | mkisofs (external) |

`told` and `overdue` are histories: the user has read that the image was made;
the terminated process outlived the wait of ten seconds.

### AutorunMonitor

| Model | Code |
|---|---|
| `proc` | a server process: its message loop runs, has a quit message before it, or has ended |
| `state`, `idle` | `m_CurrentState`, the time since `ResetTimeout` |
| `registered` | `m_ROTRegisterResult` |
| `watchdog`, `watched` | where the watchdog thread is, its `pMonitor` |
| `client`, `held` | where a caller of `StartAutorunDisablingMonitor` is, its `pMonitor` |
| `AllowAutoPlay` | the shell's question |
| `WatchdogCreate`, `WatchdogCheck` | one look of the watchdog: get the object through COM, call `CheckForTimeout` |
| `MessageLoopEnds`, `FinalRelease` | the end of a process |
| `Begin`, `Loop` .. `Restart` | the client's loop; `Restart` is its call of `TerminateServer` |
| `Tick` | a polling period |

COM is external: `CoCreateInstance` gives the object of the process that has the
class registered, or starts one, or fails. `Server` is the set of processes that
may exist at a time; a new one may be started while another one ends. `unused` is
a history.

### DriveTools

A drive is a record: `here` (it exists), `name` (in the bus's map), `image` and
`loaded` (what it has, and whether it shows it), `next` (a pending replacement),
`soft` (it may be plugged out without an eject: it has no MMC profile), `letter`.
A program is a record too, with what it was run for and the step it is at.

| Model | Code |
|---|---|
| `Start`, `StartFails` | `AppMain`, `BatchMounterMain` and the dialog's buttons up to the first I/O control |
| `Present` | `IsDiskConnected` |
| `Cancelled` | the dialog of `vmnt` that asks for a letter |
| `Plugin`, `Linked`, `LinkTimeout` | `ConnectDisk` and its wait for the event |
| `OpenDrive`, `Replace` | `VirtualDriveClient` and `IOCTL_VDEV_MOUNT_IMAGE` |
| `Attached`, `AttachedToNothing`, `AttachTimeout` | how `MountNewImage` ends |
| `Find` | `DoUnmount` by letter |
| `Soft`, `ListOne`, `Compare`, `Eject`, `Plugout` | `DisconnectDisk`: soft plug-out, eject by the drive's letter, plug-out |
| `NextName` | the drive manager's loop over all drives |
| `Bounce` | `RestartDriver` |
| `LinkCreated`, `LinkDeleted` | the mount manager's requests (`DeviceControl` 136-161) |
| `Ejected`, `CleanedUp`, `Replaced` | the user, the cleanup thread, and the completed replacement, which are detailed in `VirtualCDDevice` and `VirtualCDBus` |

Each I/O control is a step. `calm` remembers the drives as a program found them,
as long as no other program, Windows or user has changed anything; `late` holds
the programs whose drive changed after they compared its image.

### The modules of operators

`MultiTrackImage`, `TrackParsers`, `FormatDetection`, `MiniUDF` and `MMCReplies`
have no variables: this code computes a result from a file or a request. Their
operators carry the names of the functions. A file is what the code looks at: a
track table has offsets, a CUE sheet is a sequence of lines with their keywords,
a UDF sector is a record with its tag or the cells of a directory, a partition is a
range of sectors with the files that are nested in it, a reply is a sequence of
features with a length. The contents of a file are its own offsets, so that a sector read from the
wrong place shows. Differences of unsigned numbers are taken modulo `Width`.
`DriveRead` is the drive's `Read`, with its three looks at `m_SectorCount` as an
argument, so that a replacement can come between any two of them.
In `DiscData` a behaviour takes one input, from the constant `Inputs`, and ends; the
definitions its result is compared with are there too. `InputsAssumption` says of `Inputs`
what the theorems need, for each kind of input: a disc has at most two data tracks, each
track has a sector, and its file is smaller than `Width`; the lines of a sheet are of the kinds
the parsers look at, files have some number of sectors, a descriptor is found no earlier than
`DetectRawCDFormat` starts to search, an entry of a UDF directory takes some cells and has a
name in one of its two encodings, and the numbers of a command are natural numbers.
`SectorCells`, the cells in a sector of a UDF directory, is positive: a cell is what the
shortest entry takes, and longer ones may cross the end of a sector.
`MCDiscData` lists the inputs that TLC takes.

## Runs

| Run | Configuration | Shows |
|---|---|---|
| `drive_safety` | 2 images, 2 clients, 2 SCSI threads, thresholds 2 and 2, with the empty path | `TypeOK`, `VerdictSound`, `NoLostWaiter`, `OldImageGone`, `MediumChangeVisible`, `ImplementsSlot` |
| `drive_liveness` | 1 image, 2 clients, 1 SCSI thread, fair | `RemountCompletes`, `UnusedDriveGoes` |
| `drive_unmount` | as `drive_safety`, 1 image | violates `UnmountIsSafe` |
| `drive_replace` | as `drive_safety`, 1 image, without the empty path | violates `ReplaceKeepsDrive` |
| `bus` | 2 files, 2 device objects, 2 identifiers, 2 records, a caller, cleanup thread, start-up, restarts; replacements in one drive | `TypeOK`, `NamesClashOnlyInShutdown`, `OneNamePerDrive`, `OneRecordPerImage` |
| `bus_keep` | as `bus`, without replacements | violates `KeptImageRecorded` |
| `bus_names` | as `bus_keep`, 1 file, 1 record | violates `NewNamesAreUnused` |
| `reader` | a disc of 5 sectors, 2 at a time, no partial reads or writes, fair | `TypeOK`, `ImageIsComplete`, `ListIsASet`, `ClosingEnds`, `CancelEnds` |
| `iso_build` | an image of 6 parts, a pipe that holds 3 reports | `TypeOK`, `ReportedImageStays`, `MountedImageIsWhole`, `NothingHalfDone`, `BuildEnds` |
| `autorun` | 2 processes, 2 clients, a timeout of 2 periods | `TypeOK`, `WatchdogIsPatient`, `UnusedServersEnd` |
| `tools` | 2 images, 1 letter; a user who clicks on an image and unmounts the letter, a script that mounts, replaces, unmounts all and restarts the driver | `TypeOK`, `UndisturbedEffect`, `UnmountsWhatWasAsked`, `ProgramsEnd` |
| `disc_data` | 32320 inputs | `ReadsAreRight`, `StraddlingReadsRight`, `RawImagesRight`, `RightParser`, `RawLayoutRight`, `UDFRight`, `RepliesAgree` |

- `VerdictSound`: `IsUnplugPending` reads the image pointer and the pending
  request one after the other without the drive's mutex. If it sees no image and
  then no request, there is no image at that moment either: the completing TEST
  UNIT READY has to pass the lock of the map, which the scan holds, between
  attaching the image and dropping the request.
- `NoLostWaiter`: whoever waits and has not been told owns the pending request.
- `OldImageGone`: after a client's call returned, its drive shows no image or the
  requested one, even though the pointer is cleared outside the mutex.
- `MediumChangeVisible`: an image appears only after enough "no medium" replies.
- `ImplementsSlot`: the drive's steps are those of `RemountSlot` or stutter.
- `RemountCompletes`, `UnusedDriveGoes`: a waiting client is told; an empty drive goes.
- `NamesClashOnlyInShutdown`: how far the device names `VirtualCD_%04X`, which are
  made from the identifiers, can be relied on. Of every device that exists, from
  `Prepare` to the end of `Shutdown`, one of two things holds. Either nobody can be given
  its identifier, and another device has it only while a thread is between
  `ReleaseID` and `Shutdown` of that other one; or a thread is there with the device
  itself, and the device has no entry in the map any more. So the names clash in that
  one place only.
- `NewNamesAreUnused`: the name of a device that a mount makes is not that of any other
  device that exists. This is violated in exactly that place; see [Findings](#findings).
- `OneNamePerDrive`: each entry of the map is a plugged drive under one name.
- `OneRecordPerImage`: no image is mounted twice by the next start-up.
- `ImageIsComplete`: when reading counts as successful, each sector of the image
  holds the disc's sector of that number, or zeros if it is still listed or was
  given up by the user.
- `ListIsASet`: the ranges never overlap or touch, and nothing is in the list that
  is still to be read again: the counts shown are counts of sectors.
- `ClosingEnds`: once the dialog is closed `CreateISOFile` returns, whether the
  reader is paused, asking or in the middle of a read.
- `CancelEnds`: giving up the bad sectors ends the reader, unless it asks first.
- `ReportedImageStays`: the dialog's Cancel button, which closes the window at the
  end, never deletes an image the user has been told of.
- `MountedImageIsWhole`: a cancellation under the question about autorun, in the
  middle of `OnTimer`, does not get a deleted or half-made image mounted. (The
  driver opens the file after the question, and the file is then gone.)
- `NothingHalfDone`: a closed dialog leaves neither a running mkisofs nor a part of
  an image, unless the process outlived the wait.
- `BuildEnds`: mkisofs is never left blocked on a full pipe, and its end is noticed.
- `WatchdogIsPatient`: a server is terminated only when nobody used it for two
  timeouts, whatever calls come between the watchdog's looks.
- `UnusedServersEnd`: when nobody uses the servers any more, the last process ends;
  no watchdog keeps its own process alive or goes on starting others.
- `UndisturbedEffect`: a program whose steps nobody comes between does what its
  command says to the drive it was given, and to no other; if it fails, all is as
  it was, unless it gave up waiting for a replacement that may still come.
- `UnmountsWhatWasAsked`: with everybody interleaving, a program that unmounts
  one image touches only drives that have this image or name, and reports success
  only if the disc has gone. The exception is a drive that changed
  between the comparison of its path and the second opening of its letter.
- `ProgramsEnd`: every program ends, except one that waits without a limit for a
  drive that has gone.
- `ReadsAreRight`: with up to two data tracks, any read gives the sectors of these
  tracks in order, from the right offsets, also across the border of two tracks.
- `StraddlingReadsRight`: a read inside the disc that overlaps a replacement gives a
  beginning of what was asked for, and nothing of another image or another part of the
  file. A read past the end is covered only when no replacement comes in between: it
  is cut at the end of the disc then (see [Observations](#observations) for the rest).
- `RawImagesRight`: an image described by CUE or CCD has all whole sectors of its
  file, with the data after the header where there is one.
- `RightParser`: a file that a parser with a strict format recognises goes to one
  that does, and to that of its extension if it is one of them.
- `RawLayoutRight`: a volume descriptor in its place decides on the layout, against
  others; without one only a unique best fit is taken.
- `UDFRight`: neither of the two names of video discs is found where it is not on the
  disc, damaged or not; on an intact disc it is found, if the directory it is in lies in one
  extent.
- `RepliesAgree`: one feature asked for alone is what the list of all has; a short
  buffer gets the beginning of the reply and its full length.

Bounds. Two clients are needed for one replacement to supersede another, and two
SCSI threads for one to eject while the other completes; a third of either only
repeats what two do, and the proofs do not depend on the number. With a threshold
of 2 there is a counted call that does not complete and one that does; the
counter is only compared with the thresholds, so that stopping it at their sum
loses nothing. In the bus, two drives and two files are what a confusion of names
or identifiers needs; two records are what a reuse of a key needs, and with two
records and two files the database is also full. The caller, the cleanup thread and
the start-up are three threads that mount or unplug. That one drive is renamed in `bus` is
enough for a name to be taken, given up and given to the other one; that both are, and any
number, is proved.
Five sectors in twos give the reader a first block, a middle one and a short last
one, a failed block whose sectors fail singly or together, and two ranges of bad
sectors with a good one between them.
Six parts and a pipe of three make mkisofs wait for the dialog more than once, or
not at all, depending on when it looks.
Two processes let a server start while another one ends, which is as many as can
overlap, since one is only started when none answers; with a timeout of two
periods there is a look of the watchdog before it, and the history counts to two
timeouts, which is what the property asks for.
Two programs show every disturbance of one by the other; one that is run again
meets its own former effects. With two images and three drives there is always
one that a program refers to although it has gone, and with one letter a letter
always moves to the drive that was meant least.
`disc_data`: discs of one to three tracks, data or audio, of one or two sectors,
in three formats; CUE sheets of up to three lines; every set of parsers that
recognise a file; one or two volume descriptors at places where they are and
places where they are not; directories of up to three entries with each structure
damaged in turn. With two cells in a sector, an entry of three always crosses the
end of one, and one of two does when an entry of one is before it.

Deadlock is checked in every passing run but three. In `disc_data` a behaviour takes one
input and ends. In `iso_build` the program ends. In `tools` both programs may wait
for ever for drives that have gone (`Stuck`), with no drive left for anybody to do
anything to.

Fairness (`LiveSpec`, `Fairness`). Windows polls a removable drive as long as it exists, so
TEST UNIT READY is strongly fair even though other requests keep a SCSI thread
busy. The mutexes are kernel mutexes, whose waiters are served in turn: strong
fairness of the steps that take one (`TurCount`, `TurRekey`). A thread that is
inside the driver and waits for nothing runs on (weak fairness). The cleanup
thread wakes up every second, and time passes. No fairness is assumed for
calls of clients, ejects, plug-outs or timeouts. `drive_liveness` leaves the
empty path out, since it stops the machine.

In `DriveReader` both threads run on when nothing stops them (weak fairness of
each): a thread blocked on the mutex is
served because the other one holds it for a bounded time. No user has to click
or answer.

In `ISOBuild` mkisofs goes on as long as the pipe has room, the timer ticks, and a
handler that has begun returns, the message box in it included (`Mount`: somebody
answers the question). Nobody has to cancel.

In `AutorunMonitor` time passes, the watchdogs run, and a process that was told to
quit ends. Nothing is assumed of clients and of the shell, nor that ATL ends a
process nobody refers to.

In `DriveTools` a program runs on and its user answers; a timeout elapses; the
mount manager names a new volume (with or without a letter), and an empty drive
that has a request is polled until it is replaced, which is what
`RemountCompletes` shows of `VirtualCDDevice`. A set event wakes its waiter even if
it is cleared soon after (`Linked` is strongly fair), because Windows satisfies
waits when an event is set.

## Proofs

All theorems hold for any sets of images, clients, threads, files, drives and
identifiers, any programs and commands, and any thresholds and sizes. Those about a
module with variables assume only the `ASSUME`s of the modules:
the sentinels (`NoImage`, `NoDrive`, ...) are not members of the sets they
complement, thresholds, sizes and `KeyLimit` are positive numbers, the threads are distinct, and there are finitely many programs,
images and letters. Theorems about operators name their own assumptions.

`VirtualCDDevice_proofs`:

- `TypeCorrect`. Every later argument uses it.
- `LocksHeld`: `LockDiscipline` says that a thread is between `TurAttach` and
  `TurFinish` exactly when it holds the mutex, and that a request is pending
  while anybody holds it.
- `VerdictIsSound` is not inductive by itself: `TurFinish` drops the request
  while the scan may be between its two reads. `RekeyedSound` closes the gap: a
  thread cannot have passed the lock of the map and find the scan at
  `sawNoImage` with an image in the drive.
- `NoWaiterIsLost` and `OldImageIsGone` follow from the type, the lock discipline
  and themselves.
- `MediumChangeIsVisible` rests on `CountsAgree`: while a request is pending,
  at least as many "no medium" replies were given as calls were counted. The
  image pointer becomes an image only in `TurAttach`, which requires the count to
  reach the threshold, and in `Plugin`, which is not a step of a plugged drive.
- `DriveImplementsSlot`: `Post` is a `Submit`, `TurFinish` a `Complete`,
  `Plugin` and `TurFault` are `Forget`, every other step is a stutter. The step of
  `TurFinish` needs the lock discipline: the request it deletes is still there.

`VirtualCDBus_proofs`:

- `LeastIsMember`, from the well-foundedness of the naturals, gives the result
  of the `CHOOSE` in `AddImage`: the key that is written is a key of the
  database, and the record that names the image when there is one.
- One inductive invariant, `BusInv`, carries `BusTypeCorrect`, `NamesClashOnlyThen`
  and `NamesAreUnique` together. Besides the type and the map it says that devices whose
  identifier was not given back differ in it, and that it is not in the pool
  (`DistinctIDs`); that an existing device has a name and an identifier (`Named`); that a
  thread in the middle of an operation has its device to itself, in the state its own step
  says (`Owned`); and that a device whose identifier was given back is one a thread is
  shutting down (`ReleasedOwned`). `NamesClashOnlyThen` follows from these: a device has
  given its identifier back or not, and the map has only plugged ones. Neither the type (the identifier that `ReleaseID` returns to the
  pool) nor the names (the device that `Insert` enters) can be shown without them.
- `RecordsAreUnique` adds one lemma per method of the database.

`DriveReader_proofs`:

- `AddSectorFacts` and `OtherSectorsFacts` say what `BadSectorDatabase::AddSector`
  does to a sorted list of disjoint ranges: the new sector is in it, the others are
  as they were, and the list is again sorted, disjoint and without ranges that touch.
- `ListStaysASet`, by `ListInv`: the list ends before the sector that is read next,
  and, while it is read again, before everything that is still on the detached one
  (`ListBehind`), so that a sector is only ever added at the end. This needs that a
  read asks for sectors of the disc only (`Asked`) and that a failed block is
  followed sector by sector. It holds for partial reads and writes too.
- `SuccessIsComplete`, by `DataInv`: every sector before the position is good
  (`GoodSoFar`), the pointers of disc and file stand where the position and the
  sizes of the pending block say (`DiscBehind`), and the buffer holds the sectors
  of its place (`BufferRight`). Its assumption `Whole` says that a read or write
  is done in whole or not at all; without it the statement is false (see
  [Observations](#observations)).
- `TypeCorrect` makes no such assumption: however much of a block is read or written,
  nothing is read or written past the end of the disc. What the types of the variables
  (`Control`, `Data`) need besides is `Positions`: neither file pointer is ever ahead of
  what counts as done, together with the block that is being read or written. They
  may fall behind, which is what the incomplete images are made of.
- `TotalCountsSectors`: the sum over the ranges that `GetTotalCount` makes is the
  number of sectors on the list, for a list of any length without overlaps. With
  `ListStaysASet` it follows that the count shown never exceeds the size of the disc.

`DriveTools_proofs`: one inductive invariant, `IInv`. Drives that exist have an image,
and no two of them a name or a letter in common (`Sound`); a program at a step has
what the steps before it have left there, and only some programs can refer to a
drive (`Fits`); one that is to eject a drive has seen the image in it (`Compared`),
unless the drive has changed since.

- `TypeCorrect` is hard at one place: `Plugin` takes the first number that neither a
  drive nor a program uses. `SomeDriveIsFree` counts: the drives have different names,
  of which the one to be mounted is not in use, and a program refers to one
  drive, so that there is a number left.
- `AskedOnly`: the three steps that take a disc away, one lemma for each
  (`SoftAsked`, `EjectAsked`, `PlugoutAsked`). The one for the eject rests on `Compared`.
- `Undisturbed` needs a second invariant, `Calm`: as long as nobody came between,
  the drives are those the program found, but for the one it has mounted or
  replaced, or those it has unmounted so far. The lemmas `...Followed` show that each
  step keeps it, the lemmas `...Effect` what it makes of the last step of a program.

`IntervalFacts`. The prover has no induction, but it has well-founded sets: a set that has 0 and
with each number the next one has all numbers, since it has no least
missing one (`UpTo`). In the same way `Recursion` shows that there is a function that
fulfils a recursive definition; without that, nothing is known of one. Each definition that a
theorem is about is therefore a recursive function.

`DiscData_proofs` is about tables of any length and files of any size:

- `ParsersBuildTables`, `TablesAreComplete`: what `AddDataTrack` makes of the tracks of
  an MDS or NRG description is a `Table`: its tracks begin where the ones before them end, and
  all of them are in the file. It has the data tracks of the description in
  their order, and all of them unless one was refused; each has the sectors of its
  range that are in the file. Assumed is that a data track is `Described`:
  its range is not reversed, its data does not begin after the end of the file, and
  sizes are below `Width`. Otherwise the difference of the ends
  wraps around, in the code as in the model.
- `ReadsEverySector`: from a table, `ReadSectors` gives each sector asked for, from its
  place. The loop is followed from the last round backwards: `RoundIsRight` says that a round is
  right when all later ones are. A read has to be `Straight`: every track that it
  leaves begins the disc. In a later track the code takes more to be left than there
  is (`LeftInTrack`, see [Observations](#observations)), and the statement
  is false.
- `PlacesAreRight`: that place is in the one track that has the sector, and
  in the file.
- `DiscIsRead` puts these together: any description of which at most two data
  tracks are in the table is read right by every read, since only a third data track can make a
  read not `Straight`.
- `ReadsAreRightAlways` is `ReadsAreRight` of every disc that `InputsAssumption` admits. What
  is to be read, `SectorsOf`, is defined by the description alone: the data of its tracks one
  after the other. `MDSIsParsed` and `NRGIsParsed` follow the two parsers from block to block to the
  track that each gives (`IsParsed`). Then the list of sectors and the table of tracks grow
  together: `Presents` says that the list has the places of the table, and `TrackIsListed` that
  both still agree after one more track, of either kind; `TableOfDisc` is the end of it, for
  any number of tracks. With `DiscIsRead` that is what every read gives.
- `ReplacedWhileReading`, `ReadsAreCut`: what `VirtualCDDevice::Read` makes of it when
  the number of sectors changes at any of its three looks, and when the request
  goes past the end of the disc. `StraddlingReadsAreRight` is `StraddlingReadsRight` of all
  discs as above, from these two.
- `RawImageIsRead`: the same for an image without a table, with 150 sectors counted
  past the end of the file: every read from a sector of the file, of any length, gives what the
  file has.
- `RawImagesAreRight`: sheets of any length. `DataIn` and `SheetIsRight` say which
  line decides, the first TRACK line with number 1 after a FILE line, and what it decides;
  the data then begins far enough from the end of a sector for `RawImageIsRead`.
- `ParserIsRight`: `BestFacts` is about one pass over the parsers, for any scores: what it gives
  has the highest score, and comes first among those that have it. What the scores are is looked up
  for the five parsers (`ProbeType`, `ScoreType`, `FoundProbe`), and `Chosen` puts the two passes
  together: the first one goes by the name, the second one by the contents.
- `RawLayoutIsRight`: the descriptors may be anywhere from `SearchedFrom` on. `ExactDecides` and
  `SomeFits` are the two cases with a descriptor. In the second, the size of a sector is
  computed from the place of the descriptor and rounded down, and what remains becomes the offset of
  the data: `SameRemainder` says that together they give the place again. `OneFits` is the case without: a score of two, and no second one.
- `RepliesDoAgree`: `Lists`, kept over the features that are looked at one after the other
  (`OneMoreFeature`), says which of them a reply has and that they ascend, for any
  set of numbers asked for; `Gives` adds the header and the end of the buffer.
- `FoundIsThere`: whatever a disc has in its descriptors, its extents and its directories
  (`Readings` asks only that the lengths in them are numbers),
  and whichever of them cannot be read, a name is found only if an intact entry has it, in
  a readable sector that is a directory's. `SearchFacts` gives the rounds of the search, each from the
  place that the one before went on to; what they look at is a cell that `CellsAreRead`
  traces back to its sector.
- `VideoDiscsAreRight` is `UDFRight` of directories of any entries, with sectors of any
  size. One half is `FoundIsThere`, and that a name can be read out of both encodings
  (`NameIsRead`) and stands in no cell where no entry begins. The other half follows an intact disc:
  `MappedOnDisc` says that through a partition, a metadata file in it and the directory in that, each
  sector is mapped to itself; `VolumeIsFound` and `DirectoryIs` go from the anchor to the
  root directory, `DirectoryIsRead` says that its cells are read to its end, and `NamedIsFound`
  that the search steps from entry to entry (`EntryIsThere`) until the first with the name.

`ISOBuild_proofs`: one invariant, `IInv`, for the four theorems. The heart of it is
`WholeOrDeleted` and `KeptBecause`: after mkisofs has ended well the file is whole
unless a cancellation deleted it, and then `m_Succeeded` was not set;
`SucceededWhole` and `ToldIsMarked` make the flag and what the user knows agree.

`AutorunMonitor_proofs`: `WatchdogIsPatient` is about two clocks, the one the
server resets in the middle of the countdown, and the time it was not used.
`ClocksAgree` says that in `SoftTermination` the second is ahead of the first by
at least a timeout. `NoticedInTime` keeps both in their ranges: no clock passes the
timeout without the watchdog having looked, which needs `OwnWatchdog` (a running
server's own watchdog looks at that server) and `OneAnswers` (there is at most one
that answers).

Only model-checked:

- the liveness properties, and `ProgramsEnd` among them, which are out of the prover's reach;
- the four violated properties, which need no proof.

How the texts of CUE and CCD and the blocks of MDS and NRG become lines and tracks is
neither checked nor proved: lines and tracks are the inputs.

## Findings

- `drive_unmount`: `DeviceControl.h:21` documents the empty path as a way to
  unmount. The request it makes has no image; the TEST UNIT READY that completes it
  reads the image's sector count (`VirtualCDDevice.cpp:829`).
- `drive_replace`: the image pointer is cleared after the mutex is released
  (`VirtualCDDevice.cpp:825`). If a second replacement's clearing comes after the
  completing call has attached its image, the drive has neither image nor request,
  and the cleanup thread unplugs it.
- `bus_keep`: `Dispose()` runs on every eject and deletes the record under the key
  the drive was made with (`VirtualCDDevice.h:152`). If that key has been given to
  another image in the meantime, the other image's record is lost.
- `bus_names`: `ShutdownPDO` gives the identifier back (`BazisVirtualCDBus.h:71`) and then
  shuts the device down. A mount in between is given the same identifier, and makes its
  device, and the letter it registers for it, under the name of one that is still there. `readme.txt:63` lists that as
  fixed: "Fixed bug with creating new devices while previous are held by OS".

### Observations

Met while modelling. They contradict no statement of the repository, or one that
no run is about.

*Drive and bus.* `Dispose()` does not reset the count of TEST UNIT READY calls, so
that after a replacement an ejected drive goes at the next scan instead of after
the timeout. A mount that `InsertPDO` refuses never gives its identifier back.
`AccessSetter::Run` never clears `m_bStop` (`BazisVirtualCDBus.h:118`): after a
second start of the device the access rights are not set. A read past the end of a disc
that is being replaced asks the old image, whose pointer was copied before
(`VirtualCDDevice.cpp:101`), for a number of sectors computed from the new disc's count
(lines 110 and 111): for more than the old disc has when the new one is longer, and, when
it ends before the read begins, for a number that has wrapped around.
The cleanup thread unplugs by a name it noted before, and a completed replacement renames
by the old path: either may meet another drive that has the name by then, which is
unplugged or renamed in place of the one that was meant (`BazisVirtualCDBus.cpp:435`, `:447`).
A replacement leaves the drive's record as it is, so that a restart brings the old
image back. `ReportMountStatus` after an eject makes a record without an image, which is mounted
in vain at every start.

*Reader.* The loop that would write the rest of a block after a partial write is
left by `break` as soon as anything was written (`DriveReadingThread.cpp:281`), and
line 288 counts the block as done, also after a short read: with `PartialReads` or
`PartialWrites` true, `ImageIsComplete` is violated. A write error before
the dialog has a window is answered with zero, which is Cancel (`Unheard`). The reader then
ends as aborted, `OnTimer` shows nothing, and `CreateISOFile` returns to the comment
"The error message has been displayed by the dialog" (`vmnt.cpp:222`).

*Build dialog.* With automatic closing `m_Succeeded` is not set
(`ISOBuildProgressDialog.cpp:153`), so that Cancel under the question about autorun
deletes the finished image, of which the user has not been told; so does a Cancel
between the end of mkisofs and the next tick of the timer. What mkisofs wrote
between the last read and its end is never shown, although the message says to
examine the log.

*Autorun monitor.* `AllowAutoPlay` sets the state to running even after
`TerminateServer`, against the comment at `VirtualAutorunDisablingMonitor.cpp:39`. The
watchdog of a dying process may start a new server.
`StartAutorunDisablingMonitor` returns success after its 300 ms whatever happened.

*Tools.* Between the comparison of a drive's image and the second opening of its
letter (`VirtualCDClient.cpp:329`) the letter or the image may change: another
image is ejected then and success reported. `batchmnt /wait` hangs when the drive
goes before it has a letter, or while its handle is open for a replacement.
`ConnectDisk` ignores why its wait ended, and `MountNewImage` reports a timeout
although the image still comes. `RestartDriver` with `unmountAllDrives` passes names
without the kernel's prefix and so unmounts nothing (`VirtualCDClient.cpp:273`);
disabling the device does it. A click on an image that was ejected, but whose drive
is not yet cleaned up, unmounts it again. `batchmnt /unmount` exits with zero always.

*Images.* A third or later data track is read past its end
(`MultiTrackImage.h:100`). The last raw sector of a file is lost when its bytes,
counted from its data, do not fit. MODE2/2336 gets the offset of a raw sector.
`RawCDFormats.cpp:213` keeps the offset found before instead of the one tried, and
line 224 resets the totals, so that only a unique full score counts. UDF
directories in several extents, or longer than their control block says, are not
found (`miniudf.h:206`, `miniudf.cpp:299`). When the first sector of a directory is mapped
nowhere, it matches the empty cache, whose uninitialised buffer is then searched
(`miniudf.cpp:343`); in `CellsOf` such a sector cannot be read.

*Replies.* READ DISC INFORMATION (read, not modelled) puts the last track in the high byte
(`VirtualCDDevice.cpp:670`); the current flag is set for every feature (456); the
high byte of the starting feature is shifted too far (402).

*Installation* (read, not modelled). The loop of `/install` has no exit after
success, so that the driver is installed twice (`VirtualDriveManager.cpp:60`). The
uninstaller passes a null directory on when it could not copy or start itself
(`uninstall.cpp:260`).

## Not modelled

- Windows itself: PnP, the class driver, the SCSI port, COM, the service control
  manager. What they do to the modelled parts is in the steps of these parts.
- mkisofs and the Explorer, but for what the dialog and the drives see of them.
- Replies to the standard SCSI commands (INQUIRY, READ CAPACITY, READ TOC are built by BazisLib).
- READ DISC INFORMATION, setting a read speed, the look at the table of contents before a
  copy, and the test of a file name's extension alone: each is one formula that no
  property would use.
- Reads of a description that come short (`MDSParser.cpp:69`, `:171`), and files shorter than the
  offset of their data (`IMGParser.h:14`).
- The splitting of text files into lines, and finding the blocks of MDS and NRG
  files by their offsets: the inputs of `TrackParsers` are what these give.
- `AccessSetter`: a thread that sets rights on the device object, on which nothing
  else depends.
- The portable bus: the same bus loaded as a service; its own part is one call each
  for start and stop.
- Installation of the driver, installer, uninstaller: sequences of calls to the
  service control manager and the registry without state of their own; what is
  left after a step fails is decided there.
- The context menu, menus, dialogs' layout, languages, log tools: output without
  state.

## Plan

1. The bus's drives shown to be those of `VirtualCDDevice`.
2. The installation of the driver, as far as its order does not depend on the
   service control manager.
