-------------------------------- MODULE DriveTools --------------------------------
(***************************************************************************)
(* The programs that mount and unmount images: vmnt (what a click on an    *)
(* image runs), batchmnt, the portable drive manager, and the client       *)
(* library they share (VirtualCDClient, VirtualDriveClient).  Each runs on *)
(* its own, and talks to the bus and to the drives one I/O control at a    *)
(* time, so what it learned may be stale when it is used.                  *)
(*                                                                         *)
(* A drive is coarser here than in VirtualCDDevice and VirtualCDBus: its   *)
(* name in the bus's map, the image it has or waits for, and its letter.   *)
(* Windows gives and moves letters, and the user ejects discs and answers  *)
(* dialogs.                                                                *)
(***************************************************************************)
EXTENDS Naturals, FiniteSets

CONSTANTS
    Tool,       \* running programs
    Image,      \* image files
    Letter,     \* drive letters that Windows may give to the drives
    Commands,   \* what each program is run for
    Profiled,   \* images that vmnt gives an MMC profile: a DVD, a BD, several tracks
    NoImage, NoLetter,
    AllImages   \* the name "*"

\* A drive that exists has a name, and a program that was given a letter or a wait for
\* what it mounts may refer to another one: there is always a slot for a new drive.
Referring ==
    {t \in Tool : \E c \in Commands[t] :
        c.do \in {"remount", "mount"} /\ (c.letter # NoLetter \/ c.wait # "no")}
Drive == 1 .. Cardinality(Image) + Cardinality(Referring)
NoDrive == 0

\* How long a program waits for Windows to see what it did.
Wait == {"no", "limit", "forever"}

\* What the programs can be run for: vmnt is given a letter to remount one only, and
\* asks, or takes from the settings, the letter of a new drive.
Command ==
    {c \in [do : {"click", "remount", "mount", "unmount", "unmountLetter", "unmountAll",
                  "unmountEach", "restart"},
            image : Image \cup {NoImage, AllImages},
            letter : Letter \cup {NoLetter}, wait : Wait] :
       /\ c.do \in {"click", "remount", "mount", "unmount"} => c.image \in Image
       /\ c.do = "unmountAll" => c.image = AllImages
       /\ c.do = "click" => c.letter = NoLetter /\ c.wait = "no"
       /\ c.do = "remount" => c.letter # NoLetter}

ASSUME ToolsAssumption ==
    /\ IsFiniteSet(Image) /\ IsFiniteSet(Tool)
    /\ {NoImage, AllImages} \cap Image = {} /\ NoImage # AllImages
    /\ NoLetter \notin Letter
    /\ Profiled \subseteq Image
    /\ Commands \in [Tool -> SUBSET Command]

\* The list of drives is made for people: the kernel's prefix is taken off the names.
Shown(i) == <<i>>
KernelName(shown) == shown[1]

VARIABLES
    drive,      \* the drives
    tool,       \* the programs
    calm,       \* history: the drives as a program that runs alone and undisturbed found them
    late        \* history: programs whose comparison of a drive's image is out of date

vars == <<drive, tool, calm, late>>

NoSuchDrive ==
    [here |-> FALSE, name |-> NoImage, image |-> NoImage, loaded |-> FALSE,
     next |-> NoImage, soft |-> FALSE, letter |-> NoLetter]

Idle ==
    [pc |-> "idle", do |-> "none", image |-> NoImage, letter |-> NoLetter,
     wait |-> "no", drive |-> NoDrive, todo |-> {}, result |-> "ok"]

Steps == {"idle", "present", "drive", "replace", "attached",
          "serviced", "plugin", "linked", "named", "find", "soft", "list", "compare",
          "eject", "plugout", "next", "bounce"}

TypeOK ==
    /\ drive \in [Drive ->
         [here : BOOLEAN, name : Image \cup {NoImage}, image : Image \cup {NoImage},
          loaded : BOOLEAN, next : Image \cup {NoImage}, soft : BOOLEAN,
          letter : Letter \cup {NoLetter}]]
    /\ tool \in [Tool ->
         [pc : Steps, do : {c.do : c \in Command} \cup {"none"},
          image : Image \cup {NoImage, AllImages},
          letter : Letter \cup {NoLetter}, wait : Wait,
          drive : Drive \cup {NoDrive}, todo : SUBSET {Shown(i) : i \in Image},
          result : {"ok", "failed"}]]

Lost == <<>>

Init ==
    /\ drive = [d \in Drive |-> NoSuchDrive]
    /\ tool = [t \in Tool |-> Idle]
    /\ calm = [t \in Tool |-> Lost]
    /\ late = {}

--------------------------------------------------------------------------------
(* What the bus and the drives answer.                                       *)

FindPDO(name) == {d \in Drive : drive[d].here /\ drive[d].name = name}

\* "*" stands for all of them when drives are plugged out.
Matching(name) ==
    IF name = AllImages THEN {d \in Drive : drive[d].here} ELSE FindPDO(name)

\* Opening \\.\X: and asking for the image's path (VirtualDriveClient).
DriveAt(letter) ==
    {d \in Drive : letter # NoLetter /\ drive[d].here /\ drive[d].letter = letter}

FreeLetters == {l \in Letter : DriveAt(l) = {}}

Removed(ds) == [d \in Drive |-> IF d \in ds THEN NoSuchDrive ELSE drive[d]]

Fresh ==
    CHOOSE d \in Drive :
        /\ ~drive[d].here /\ \A t \in Tool : tool[t].drive # d
        /\ \A e \in 1 .. d - 1 : drive[e].here \/ \E t \in Tool : tool[t].drive = e

--------------------------------------------------------------------------------
(* The programs, one I/O control at a time.                                  *)

At(t, step) == tool[t].pc = step

Go(t, step) == tool' = [tool EXCEPT ![t].pc = step]

Finish(t, result) == tool' = [tool EXCEPT ![t] = [Idle EXCEPT !.result = result]]

\* Where a program that has opened the bus begins.
FirstStep(do) ==
    CASE do \in {"click", "remount", "mount"} -> "present"
      [] do \in {"unmount", "unmountAll"}     -> "soft"
      [] do = "unmountLetter"                 -> "find"
      [] do = "unmountEach"                   -> "next"
      [] do = "restart"                       -> "bounce"

\* GetVirtualDiskList.
ListedNames == {Shown(drive[d].name) : d \in {e \in Drive : drive[e].here}}

Start(t) ==
    /\ At(t, "idle")
    /\ \E c \in Commands[t] :
         tool' = [tool EXCEPT ![t] =
                    [Idle EXCEPT !.pc = FirstStep(c.do), !.do = c.do, !.image = c.image,
                                 !.letter = c.letter, !.wait = c.wait,
                                 !.todo = IF c.do = "unmountEach" THEN ListedNames ELSE {}]]
    /\ UNCHANGED drive

\* What the program is given is no image, the driver is not there, or the user does not
\* let it run elevated.  (An elevated copy does what the program would have done.)
StartFails(t) ==
    /\ At(t, "idle")
    /\ Finish(t, "failed")
    /\ UNCHANGED drive

\* IsDiskConnected: a click on an image that is mounted unmounts it, the other
\* programs refuse it.
Present(t) ==
    /\ At(t, "present")
    /\ IF FindPDO(tool[t].image) # {}
       THEN IF tool[t].do = "click" THEN Go(t, "soft") ELSE Finish(t, "failed")
       ELSE Go(t, IF tool[t].letter # NoLetter THEN "drive" ELSE "plugin")
    /\ UNCHANGED drive

\* A click on an image to be mounted takes a free letter from the dialog or from the
\* settings, which is no more than a suggestion to Windows.  The user may cancel, or
\* refuse to mount when the autorun monitor does not start.
Cancelled(t) ==
    /\ At(t, "plugin")
    /\ tool[t].do = "click"
    /\ Finish(t, "failed")
    /\ UNCHANGED drive

\* IOCTL_PLUGIN_DEVICE with or without a handle to wait for.  A drive without an MMC
\* profile may be unplugged right away, and only a click tells the profile of the disc.
Plugin(t) ==
    /\ At(t, "plugin")
    /\ \/ /\ FindPDO(tool[t].image) = {}
          /\ drive' = [drive EXCEPT ![Fresh] =
               [NoSuchDrive EXCEPT !.here = TRUE, !.name = tool[t].image,
                  !.image = tool[t].image, !.loaded = TRUE,
                  !.soft = ~(tool[t].do = "click" /\ tool[t].image \in Profiled)]]
          /\ IF tool[t].wait = "no" THEN Finish(t, "ok")
             ELSE tool' = [tool EXCEPT ![t].pc = "linked", ![t].drive = Fresh]
       \/ Finish(t, "failed") /\ UNCHANGED drive

\* ConnectDisk does not look at why the wait ended.
Linked(t) ==
    /\ At(t, "named")
    /\ Finish(t, "ok")
    /\ UNCHANGED drive

LinkTimeout(t) ==
    /\ At(t, "linked")
    /\ tool[t].wait = "limit"
    /\ Finish(t, "ok")
    /\ UNCHANGED drive

\* A letter that is not one of our drives': batchmnt suggests it for a new drive, the
\* others give up.
OpenDrive(t) ==
    /\ At(t, "drive")
    /\ IF DriveAt(tool[t].letter) = {}
       THEN IF tool[t].do = "mount" THEN Go(t, "plugin") ELSE Finish(t, "failed")
       ELSE \E d \in DriveAt(tool[t].letter) :
              tool' = [tool EXCEPT ![t].pc = "replace", ![t].drive = d]
    /\ UNCHANGED drive

\* The programs that wait for drive d at a step go on to another: an event is set (or
\* cleared before they began to wait).
Signalled(d, step, next) ==
    [t \in Tool |-> IF tool[t].pc = step /\ tool[t].drive = d
                    THEN [tool[t] EXCEPT !.pc = next] ELSE tool[t]]

\* IOCTL_VDEV_MOUNT_IMAGE on the handle, whatever has become of the letter.  A request
\* that was there is deleted, which signals its event.
Replace(t) ==
    /\ At(t, "replace")
    /\ \/ LET d == tool[t].drive IN
          /\ drive[d].here
          /\ drive' = [drive EXCEPT ![d].loaded = FALSE, ![d].next = tool[t].image]
          /\ tool' = [Signalled(d, "attached", "serviced") EXCEPT
                        ![t] = IF @.wait = "no" THEN Idle ELSE [@ EXCEPT !.pc = "attached"]]
       \/ Finish(t, "failed") /\ UNCHANGED drive

Attached(t) ==
    /\ At(t, "serviced")
    /\ Finish(t, "ok")
    /\ UNCHANGED drive

\* The request of a drive that has gone is deleted once nobody has the drive open.
AttachedToNothing(t) ==
    /\ At(t, "attached")
    /\ ~drive[tool[t].drive].here
    /\ Finish(t, "ok")
    /\ UNCHANGED drive

AttachTimeout(t) ==
    /\ At(t, "attached")
    /\ tool[t].wait = "limit"
    /\ Finish(t, "failed")
    /\ UNCHANGED drive

--------------------------------------------------------------------------------
(* DisconnectDisk, and the programs around it.                               *)

\* Variant: the drive manager ends with the first drive.
DisconnectedOnce(t, result) == Finish(t, result)

\* A program that was asked for one drive ends with what DisconnectDisk returned; the
\* drive manager goes on to the next one as long as nothing fails.
Disconnected(t, result) ==
    IF tool[t].do = "unmountEach" /\ result = "ok"
    THEN tool' = [tool EXCEPT ![t].pc = "next", ![t].image = NoImage, ![t].letter = NoLetter]
    ELSE Finish(t, result)

\* batchmnt /unmount X: asks for the first drive in the list that has the letter.
Find(t) ==
    /\ At(t, "find")
    /\ IF DriveAt(tool[t].letter) = {} THEN Finish(t, "failed")
       ELSE \E d \in DriveAt(tool[t].letter) :
              tool' = [tool EXCEPT ![t].pc = "soft",
                                   ![t].image = KernelName(Shown(drive[d].name))]
    /\ UNCHANGED drive

\* IOCTL_SOFT_PLUGOUT_DEVICE.
Soft(t) ==
    /\ At(t, "soft")
    /\ LET found == {d \in FindPDO(tool[t].image) : drive[d].soft} IN
       IF found # {}
       THEN drive' = Removed(found) /\ Disconnected(t, "ok")
       ELSE Go(t, "list") /\ UNCHANGED drive

\* Unmounting by a letter has failed: the drive is to be plugged out.
GoPlugout(t) == tool' = [tool EXCEPT ![t].pc = "plugout", ![t].letter = NoLetter]

\* IOCTL_LIST_DEVICES for the name ("*" is taken for a letter): if there is one record,
\* and it has a letter, the letter is opened.
ListOne(t) ==
    /\ At(t, "list")
    /\ LET letters == {drive[d].letter : d \in FindPDO(tool[t].image)} IN
       IF letters \subseteq {NoLetter} THEN GoPlugout(t)
       ELSE \E l \in letters :
              tool' = [tool EXCEPT ![t].pc = "compare", ![t].letter = l]
    /\ UNCHANGED drive

\* Variant: the drive that has the letter is ejected whatever image it has.
CompareNothing(t) ==
    /\ At(t, "compare")
    /\ IF DriveAt(tool[t].letter) = {} THEN GoPlugout(t) ELSE Go(t, "eject")
    /\ UNCHANGED drive

\* The drive that has the letter by now is asked for its image.
Compare(t) ==
    /\ At(t, "compare")
    /\ IF \A d \in DriveAt(tool[t].letter) : drive[d].image # tool[t].image
       THEN GoPlugout(t)
       ELSE Go(t, "eject")
    /\ UNCHANGED drive

\* The letter is opened once more, and what has it is ejected, unless it is in use.
Eject(t) ==
    /\ At(t, "eject")
    /\ \/ \E d \in DriveAt(tool[t].letter) :
            /\ drive' = [drive EXCEPT ![d].loaded = FALSE]
            /\ Disconnected(t, "ok")
       \/ GoPlugout(t) /\ UNCHANGED drive

\* IOCTL_PLUGOUT_DEVICE.
Plugout(t) ==
    /\ At(t, "plugout")
    /\ drive' = Removed(Matching(tool[t].image))
    /\ Disconnected(t, IF Matching(tool[t].image) = {} /\ tool[t].image # AllImages
                       THEN "failed" ELSE "ok")

\* Variant: the name is handed on as it is shown.
NextNameAsShown(t) ==
    /\ At(t, "next")
    /\ IF tool[t].todo = {} THEN Finish(t, "ok")
       ELSE \E shown \in tool[t].todo :
              tool' = [tool EXCEPT ![t].pc = "soft", ![t].todo = @ \ {shown},
                                   ![t].image = shown]
    /\ UNCHANGED drive

\* The drive manager makes the shown name a kernel name again.
NextName(t) ==
    /\ At(t, "next")
    /\ IF tool[t].todo = {} THEN Finish(t, "ok")
       ELSE \E shown \in tool[t].todo :
              tool' = [tool EXCEPT ![t].pc = "soft", ![t].todo = @ \ {shown},
                                   ![t].image = KernelName(shown)]
    /\ UNCHANGED drive

\* RestartDriver asks for every drive in the list to be disconnected, by its shown name;
\* then the bus device is disabled, which takes its drives away, and enabled again.
\* Windows may refuse to.
Bounce(t) ==
    /\ At(t, "bounce")
    /\ Finish(t, "ok")
    /\ \/ drive' = Removed(UNION {Matching(shown) : shown \in ListedNames})
       \/ drive' = Removed(Drive)

--------------------------------------------------------------------------------
(* Windows and the user.                                                     *)

\* Variant: only a letter sets the event.
LettersOnly(d) ==
    /\ drive[d].here
    /\ drive[d].letter = NoLetter
    /\ \E l \in FreeLetters \cup {NoLetter} :
         /\ drive' = [drive EXCEPT ![d].letter = l]
         /\ tool' = IF l = NoLetter THEN tool ELSE Signalled(d, "linked", "named")

\* The mount manager gives a letter, or only a volume name; both set the event.
LinkCreated(d) ==
    /\ drive[d].here
    /\ drive[d].letter = NoLetter
    /\ \E l \in FreeLetters \cup {NoLetter} : drive' = [drive EXCEPT ![d].letter = l]
    /\ tool' = Signalled(d, "linked", "named")

\* The event is cleared, which matters to a program that has not begun to wait.
LinkDeleted(d) ==
    /\ drive[d].here
    /\ drive[d].letter # NoLetter
    /\ drive' = [drive EXCEPT ![d].letter = NoLetter]
    /\ tool' = Signalled(d, "named", "linked")

\* The disc is ejected in the Explorer ...
Ejected(d) ==
    /\ drive[d].here /\ drive[d].loaded
    /\ drive' = [drive EXCEPT ![d].loaded = FALSE]
    /\ UNCHANGED tool

\* ... and the cleanup thread unplugs a drive that stays empty.
CleanedUp(d) ==
    /\ drive[d].here /\ ~drive[d].loaded /\ drive[d].next = NoImage
    /\ drive' = Removed({d})
    /\ UNCHANGED tool

\* The new image is in the drive, which takes its name unless another drive has it.
Replaced(d) ==
    /\ drive[d].here /\ drive[d].next # NoImage
    /\ drive' = [drive EXCEPT
         ![d].loaded = TRUE, ![d].image = drive[d].next, ![d].next = NoImage,
         ![d].name = IF FindPDO(drive[d].next) = {} THEN drive[d].next ELSE @]
    /\ tool' = Signalled(d, "attached", "serviced")

--------------------------------------------------------------------------------

Run(t) ==
    \/ Present(t) \/ Cancelled(t) \/ Plugin(t) \/ LinkTimeout(t)
    \/ OpenDrive(t) \/ Replace(t) \/ Attached(t) \/ AttachTimeout(t)
    \/ Find(t) \/ Soft(t) \/ ListOne(t) \/ Compare(t) \/ Eject(t) \/ Plugout(t)
    \/ NextName(t) \/ Bounce(t)

Alone(t) == \A u \in Tool \ {t} : tool'[u].pc = "idle"

\* The first step of program t, or a later one; or a step of Windows or of the user that
\* programs ts do not take as a disturbance, because they wait for it.
Watched(ts) ==
    /\ calm' = [t \in Tool |->
                  IF tool'[t].pc = "idle" \/ ~Alone(t) THEN Lost
                  ELSE IF tool[t].pc = "idle" THEN drive
                  ELSE IF t \in ts \/ drive' = drive THEN calm[t] ELSE Lost]
    /\ late' = {t \in Tool : /\ tool[t].pc = "eject" /\ tool'[t].pc = "eject"
                             /\ t \in late \/ drive' # drive}

Waiting(d) == {t \in Tool : tool[t].pc \in {"linked", "attached"} /\ tool[t].drive = d}

ToolStep(t) ==
    /\ Start(t) \/ StartFails(t) \/ Run(t) \/ Linked(t) \/ AttachedToNothing(t)
    /\ Watched({t})

WindowsStep(d) ==
    \/ (LinkCreated(d) \/ Replaced(d)) /\ Watched(Waiting(d))
    \/ (LinkDeleted(d) \/ Ejected(d) \/ CleanedUp(d)) /\ Watched({})

Next ==
    \/ \E t \in Tool : ToolStep(t)
    \/ \E d \in Drive : WindowsStep(d)

\* Programs run on, users answer, timeouts elapse, Windows names new volumes and polls
\* empty drives.  An event wakes who waits for it when it is set, even if it is cleared
\* soon after.
Fairness ==
    /\ \A t \in Tool : WF_tool(Run(t)) /\ SF_tool(Linked(t))
    /\ \A d \in Drive : WF_<<drive, tool>>(LinkCreated(d)) /\ WF_drive(Replaced(d))

Spec == Init /\ [][Next]_vars /\ Fairness

--------------------------------------------------------------------------------
(* Properties.                                                               *)

\* From b to a: only the drive named image lost its disc, or all of that drive.
Unmounted(b, a, image) ==
    \A d \in Drive : IF b[d].here /\ b[d].name = image THEN ~a[d].loaded ELSE a[d] = b[d]

Mounted(b, a, image) ==
    \E d \in Drive :
        /\ ~b[d].here /\ a[d].here /\ a[d].image = image /\ a[d].loaded
        /\ \A e \in Drive \ {d} : a[e] = b[e]

InPlace(b, a, letter, image) ==
    \E d \in Drive :
        /\ b[d].letter = letter /\ image \in {a[d].image, a[d].next}
        /\ \A e \in Drive \ {d} : a[e] = b[e]

Has(b, image) == \E d \in Drive : b[d].here /\ b[d].name = image
Lettered(b, letter) ==
    {d \in Drive : letter # NoLetter /\ b[d].here /\ b[d].letter = letter}

DidIt(c, b, a) ==
    CASE c.do = "click" ->
            IF Has(b, c.image) THEN Unmounted(b, a, c.image) ELSE Mounted(b, a, c.image)
      [] c.do \in {"remount", "mount"} ->
            IF Lettered(b, c.letter) # {} THEN InPlace(b, a, c.letter, c.image)
            ELSE c.do = "mount" /\ Mounted(b, a, c.image)
      [] c.do = "unmount"       -> Unmounted(b, a, c.image)
      [] c.do = "unmountLetter" ->
            /\ Unmounted(b, a, c.image)
            /\ \E d \in Drive : b[d].here /\ b[d].name = c.image
                              /\ c.letter \in {b[d].letter, NoLetter}
      [] c.do = "unmountAll"    -> \A d \in Drive : ~a[d].here
      [] c.do = "unmountEach"   -> \A d \in Drive : ~a[d].loaded
      [] c.do = "restart"       -> TRUE

(* "To unmount an image, double-click on an image file again" (readme.txt), *)
(* "mount image file", "unmount image file", "unmount all images" (help of  *)
(* batchmnt): a program that nobody disturbs does what it was run for, to   *)
(* the drive it was run for and to no other; and when it fails, the drives  *)
(* are as they were, unless it gave up waiting for a replacement.           *)
UndisturbedEffect ==
    [][\A t \in Tool : (tool[t].pc # "idle" /\ tool'[t].pc = "idle" /\ calm[t] # Lost) =>
         /\ tool'[t].result = "ok" => DidIt(tool[t], calm[t], drive')
         /\ (tool'[t].result = "failed" /\ ~At(t, "attached")) => drive' = calm[t]]_vars

(* However programs, Windows and the user interleave, a program that        *)
(* unmounts one image takes away that image, and reports success only if it *)
(* did (or found its drive ejected).  The exception is a drive that changed *)
(* between the comparison of its image's path and the second opening of its *)
(* letter (VirtualCDClient.cpp:329-334): another drive may have the letter  *)
(* by then, or another image may be in the drive.                           *)
UnmountsWhatWasAsked ==
    [][\A t \in Tool :
         (/\ tool'[t] # tool[t]
          /\ tool[t].pc \in {"soft", "eject", "plugout"}
          /\ tool[t].image # AllImages /\ t \notin late)
         => LET asked == {d \in Drive : drive[d].here
                            /\ tool[t].image \in {drive[d].name, drive[d].image}}
            IN /\ \A d \in Drive : drive'[d] # drive[d] => d \in asked
               /\ tool'[t].pc \in {"next", "idle"} /\ tool'[t].result = "ok"
                    => \E d \in asked : ~drive'[d].loaded]_vars

(* Every program ends, even though others unmount what it waits for, except *)
(* one that waits without a limit for a drive that has gone.                *)
Stuck(t) ==
    /\ tool[t].pc \in {"linked", "attached"}
    /\ tool[t].wait = "forever"
    /\ ~drive[tool[t].drive].here

ProgramsEnd ==
    \A t \in Tool : (tool[t].pc # "idle") ~> (tool[t].pc = "idle" \/ Stuck(t))

================================================================================
