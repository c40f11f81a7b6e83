----------------------------- MODULE DriveTools_proofs -----------------------------
(***************************************************************************)
(* Proofs about DriveTools, for any programs, commands, images and         *)
(* letters.                                                                *)
(***************************************************************************)
EXTENDS DriveTools, TLAPS, FiniteSetTheorems, WellFoundedInduction, NaturalsInduction

DriveRecord ==
    [here : BOOLEAN, name : Image \cup {NoImage}, image : Image \cup {NoImage},
     loaded : BOOLEAN, next : Image \cup {NoImage}, soft : BOOLEAN,
     letter : Letter \cup {NoLetter}]

ToolRecord ==
    [pc : Steps, do : {c.do : c \in Command} \cup {"none"},
     image : Image \cup {NoImage, AllImages}, letter : Letter \cup {NoLetter}, wait : Wait,
     drive : Drive \cup {NoDrive}, todo : SUBSET {Shown(i) : i \in Image},
     result : {"ok", "failed"}]

(* Drives that are there have an image and a name; no two of them have the same    *)
(* name or letter.                                                                 *)
Named(ds) ==
    \A d \in Drive :
        /\ ds[d].here => ds[d].name \in Image /\ ds[d].image \in Image
        /\ ~ds[d].here => ds[d] = NoSuchDrive

OneDrivePerName(ds) ==
    \A d, e \in Drive : ds[d].here /\ ds[e].here /\ ds[d].name = ds[e].name => d = e

OneDrivePerLetter(ds) ==
    \A d, e \in Drive :
        ds[d].here /\ ds[e].here /\ ds[d].letter = ds[e].letter /\ ds[d].letter # NoLetter
            => d = e

Sound(ds) ==
    ds \in [Drive -> DriveRecord] /\ Named(ds) /\ OneDrivePerName(ds) /\ OneDrivePerLetter(ds)

(* The steps that programs of each kind come to. *)
Mounting      == {"present", "drive", "plugin", "replace"}
Awaiting      == {"linked", "named", "attached", "serviced"}
Disconnecting == {"soft", "list", "compare", "eject", "plugout"}

InItsSteps(p) ==
    /\ p.pc \in Mounting \cup Awaiting => p.image \in Image /\ p.do \in {"click", "remount", "mount"}
    /\ p.pc \in {"present", "plugin"} /\ p.do = "click" => p.letter = NoLetter /\ p.wait = "no"
    /\ p.pc = "present" /\ p.do = "remount" => p.letter # NoLetter
    /\ p.pc \in {"drive", "replace", "attached", "serviced"} =>
          p.do \in {"remount", "mount"} /\ p.letter # NoLetter
    /\ p.pc = "plugin" => p.do \in {"click", "mount"}
    /\ p.pc \in {"linked", "named"} => p.do = "mount"
    /\ p.pc \in {"replace"} \cup Awaiting => p.drive # NoDrive
    /\ p.pc = "find" => p.do = "unmountLetter"
    /\ p.pc = "next" => p.do = "unmountEach"
    /\ p.pc = "bounce" => p.do = "restart"
    /\ p.pc \in Disconnecting =>
          \/ p.do = "unmountAll" /\ p.image = AllImages
          \/ p.do \in {"click", "unmount", "unmountLetter", "unmountEach"} /\ p.image \in Image

(* Drives are counted for every program that may come to refer to one. *)
Counted(t, p) ==
    /\ p.pc \in Mounting /\ p.do # "click" /\ (p.letter # NoLetter \/ p.wait # "no")
          => t \in Referring
    /\ p.drive # NoDrive => t \in Referring

Fits(t, p) == p \in ToolRecord /\ InItsSteps(p) /\ Counted(t, p)

(* A program that is to eject a drive has seen the image in it, unless it is late. *)
Compared(t) ==
    tool[t].pc = "eject" /\ t \notin late =>
        \E d \in DriveAt(tool[t].letter) : drive[d].image = tool[t].image

IInv ==
    /\ Sound(drive)
    /\ tool \in [Tool -> ToolRecord]
    /\ \A t \in Tool : Fits(t, tool[t]) /\ Compared(t)


--------------------------------------------------------------------------------
(* Constants. *)

LEMMA Numbers ==
    /\ IsFiniteSet(Referring) /\ Cardinality(Referring) \in Nat
    /\ Cardinality(Image) \in Nat
    /\ Drive = 1 .. Cardinality(Image) + Cardinality(Referring)
    /\ Drive \subseteq Nat /\ NoDrive \notin Drive
PROOF
  <1>1. Referring \in SUBSET Tool
    BY DEF Referring
  <1>2. IsFiniteSet(Referring)
    BY <1>1, ToolsAssumption, FS_Subset
  <1>3. Cardinality(Referring) \in Nat /\ Cardinality(Image) \in Nat
    BY <1>2, ToolsAssumption, FS_CardinalityType
  <1> QED
    BY <1>2, <1>3 DEF Drive, NoDrive

LEMMA KernelNames ==
    ASSUME NEW i
    PROVE  KernelName(Shown(i)) = i
  BY DEF KernelName, Shown

LEMMA NoSuchDriveType == NoSuchDrive \in DriveRecord
  BY DEF NoSuchDrive, DriveRecord

LEMMA IdleFits ==
    ASSUME NEW t, NEW r \in {"ok", "failed"}
    PROVE  Fits(t, [Idle EXCEPT !.result = r])
  BY DEF Fits, ToolRecord, InItsSteps, Counted, Idle, Steps, Wait, Mounting, Awaiting,
     Disconnecting

--------------------------------------------------------------------------------
(* The bus finds a number for a new drive. *)

\* The drives that are there have different names, and programs refer to one each.
LEMMA SomeDriveIsFree ==
    ASSUME IInv, NEW i \in Image, FindPDO(i) = {}
    PROVE  \E d \in Drive : ~drive[d].here /\ \A t \in Tool : tool[t].drive # d
PROOF
  <1> DEFINE Here == {d \in Drive : drive[d].here}
             Used == {tool[t].drive : t \in Referring}
             nameOf == [d \in Here |-> drive[d].name]
             driveOf == [t \in Referring |-> tool[t].drive]
  <1>1. IsFiniteSet(Here) /\ Cardinality(Here) <= Cardinality(Image) - 1
    <2>1. \A d \in Here : drive[d].name \in Image \ {i}
      BY DEF IInv, Sound, Named, FindPDO
    <2>2. nameOf \in Injection(Here, Image \ {i})
      <3>1. \A d, e \in Here : nameOf[d] = nameOf[e] => d = e
        BY DEF IInv, Sound, OneDrivePerName
      <3>2. nameOf \in [Here -> Image \ {i}]
        BY <2>1
      <3> QED
        BY <3>1, <3>2 DEF Injection, IsInjective
    <2>3. IsFiniteSet(Image \ {i}) /\ Cardinality(Image \ {i}) = Cardinality(Image) - 1
      BY ToolsAssumption, FS_RemoveElement
    <2> HIDE DEF Here, nameOf
    <2> QED
      BY <2>2, <2>3, FS_Injection
  <1>2. IsFiniteSet(Used) /\ Cardinality(Used) <= Cardinality(Referring)
    <2>1. driveOf \in Surjection(Referring, Used)
      BY DEF Surjection
    <2> HIDE DEF driveOf, Used
    <2> QED
      BY <2>1, Numbers, FS_Surjection
  <1>3. IsFiniteSet(Here \cup Used)
        /\ Cardinality(Here \cup Used) < Cardinality(Image) + Cardinality(Referring)
    <2> HIDE DEF Here, Used
    <2>1. IsFiniteSet(Here \cap Used)
      BY <1>1, FS_Intersection
    <2>2. Cardinality(Here) \in Nat /\ Cardinality(Used) \in Nat
          /\ Cardinality(Here \cap Used) \in Nat
      BY <1>1, <1>2, <2>1, FS_CardinalityType
    <2>3. IsFiniteSet(Here \cup Used)
          /\ Cardinality(Here \cup Used)
                = Cardinality(Here) + Cardinality(Used) - Cardinality(Here \cap Used)
      BY <1>1, <1>2, FS_Union
    <2> QED
      BY <1>1, <1>2, <2>2, <2>3, Numbers
  <1>4. Cardinality(Drive) = Cardinality(Image) + Cardinality(Referring)
    <2>1. Cardinality(Image) + Cardinality(Referring) \in Nat
      BY Numbers
    <2> QED
      BY <2>1, FS_Interval DEF Drive
  <1>5. PICK d \in Drive : d \notin Here \cup Used
    <2> HIDE DEF Here, Used
    <2>1. CASE Drive \subseteq Here \cup Used
      <3>1. Cardinality(Drive) <= Cardinality(Here \cup Used)
        BY <1>3, <2>1, FS_Subset
      <3>2. Cardinality(Here \cup Used) \in Nat
        BY <1>3, FS_CardinalityType
      <3> QED
        BY <1>3, <1>4, <3>1, <3>2, Numbers
    <2> QED
      BY <2>1
  <1>6. ASSUME NEW t \in Tool, tool[t].drive = d
        PROVE  FALSE
    <2>1. t \in Referring
      BY <1>6, Numbers DEF IInv, Fits, Counted
    <2> QED
      BY <1>5, <1>6, <2>1
  <1> QED
    BY <1>5, <1>6

LEMMA FreshIsFree ==
    ASSUME IInv, NEW i \in Image, FindPDO(i) = {}
    PROVE  /\ Fresh \in Drive /\ ~drive[Fresh].here
           /\ \A t \in Tool : tool[t].drive # Fresh
PROOF
  <1> DEFINE Free == {d \in Drive : ~drive[d].here /\ \A t \in Tool : tool[t].drive # d}
             Before == {ss \in Nat \X Nat : ss[1] < ss[2]}
  <1>1. IsWellFoundedOn(Before, Nat)
    BY NatLessThanWellFounded DEF OpToRel
  <1>2. Free # {} /\ Free \in SUBSET Nat
    BY SomeDriveIsFree, Numbers
  <1> HIDE DEF Before, Free
  <1>3. PICK d \in Free : \A e \in Free : <<e, d>> \notin Before
    BY <1>1, <1>2, WFMin
  <1>4. ASSUME NEW e \in 1 .. d - 1
        PROVE  drive[e].here \/ \E t \in Tool : tool[t].drive = e
    <2>1. d \in Drive /\ d \in Nat
      BY <1>3, Numbers DEF Free
    <2>2. e \in Drive /\ e \in Nat /\ e < d
      BY <2>1, Numbers
    <2>3. e \notin Free
      BY <1>3, <2>1, <2>2, Zenon DEF Before
    <2> QED
      BY <2>2, <2>3 DEF Free
  <1> QED
    BY <1>3, <1>4 DEF Fresh, Free

--------------------------------------------------------------------------------
(* What keeps the drives sound. *)

LEMMA RemovalKeepsSound ==
    ASSUME Sound(drive), NEW ds
    PROVE  Sound(Removed(ds))
PROOF
  <1>1. Removed(ds) \in [Drive -> DriveRecord] /\ Named(Removed(ds))
    BY NoSuchDriveType DEF Sound, Named, Removed, NoSuchDrive
  <1>2. \A d \in Drive : Removed(ds)[d].here => Removed(ds)[d] = drive[d]
    BY DEF Removed, NoSuchDrive
  <1> QED
    BY <1>1, <1>2 DEF Sound, OneDrivePerName, OneDrivePerLetter

\* A drive becomes r: no other one has that name or that letter.
LEMMA ChangeKeepsSound ==
    ASSUME Sound(drive), NEW d \in Drive, NEW r \in DriveRecord,
           r.here /\ r.name \in Image /\ r.image \in Image,
           \A e \in Drive \ {d} : drive[e].here =>
              drive[e].name # r.name /\ (r.letter # NoLetter => drive[e].letter # r.letter)
    PROVE  Sound([drive EXCEPT ![d] = r])
  BY DEF Sound, Named, OneDrivePerName, OneDrivePerLetter

\* The drive keeps its name and its letter.
LEMMA DiscChangeKeepsSound ==
    ASSUME Sound(drive), NEW d \in Drive, drive[d].here, NEW r \in DriveRecord,
           r.here, r.image \in Image, r.name = drive[d].name, r.letter = drive[d].letter
    PROVE  Sound([drive EXCEPT ![d] = r])
PROOF
  <1>1. r.name \in Image
    BY DEF Sound, Named
  <1>2. \A e \in Drive \ {d} : drive[e].here =>
          drive[e].name # r.name /\ (r.letter # NoLetter => drive[e].letter # r.letter)
    BY DEF Sound, OneDrivePerName, OneDrivePerLetter
  <1> QED
    BY <1>1, <1>2, ChangeKeepsSound

--------------------------------------------------------------------------------
(* Steps: who is to eject a drive has just compared its image, or stays where it is. *)

LEMMA StepKeeps ==
    ASSUME IInv, NEW ts, Watched(ts), Sound(drive'),
           tool' \in [Tool -> ToolRecord], \A u \in Tool : Fits(u, tool'[u]),
           \A u \in Tool :
              tool'[u].pc = "eject" =>
                  \/ tool'[u] = tool[u]
                  \/ /\ drive' = drive
                     /\ \E d \in DriveAt(tool'[u].letter) : drive[d].image = tool'[u].image
    PROVE  IInv'
PROOF
  <1>1. ASSUME NEW u \in Tool
        PROVE  Compared(u)'
    <2> SUFFICES ASSUME tool'[u].pc = "eject", u \notin late'
                 PROVE  (\E d \in DriveAt(tool[u].letter) : drive[d].image = tool[u].image)'
      BY DEF Compared
    <2>1. CASE tool'[u] = tool[u]
      <3>1. drive' = drive /\ u \notin late
        BY <2>1 DEF Watched
      <3> QED
        BY <2>1, <3>1 DEF IInv, Compared, DriveAt
    <2>2. CASE tool'[u] # tool[u]
      BY <2>2 DEF DriveAt
    <2> QED
      BY <2>1, <2>2
  <1> QED
    BY <1>1 DEF IInv

(* A step of a program: it becomes p. *)

LEMMA ToolStepKeeps ==
    ASSUME IInv, NEW t \in Tool, NEW p, Watched({t}),
           Sound(drive'), Fits(t, p), tool' = [tool EXCEPT ![t] = p],
           p.pc = "eject" => /\ drive' = drive
                             /\ \E d \in DriveAt(p.letter) : drive[d].image = p.image
    PROVE  IInv'
PROOF
  <1>1. tool' \in [Tool -> ToolRecord] /\ \A u \in Tool : Fits(u, tool'[u])
    BY DEF IInv, Fits
  <1>2. tool'[t] = p /\ \A u \in Tool \ {t} : tool'[u] = tool[u]
    BY DEF IInv
  <1> QED
    BY <1>1, <1>2, StepKeeps

\* It ends.
LEMMA FinishKeeps ==
    ASSUME IInv, NEW t \in Tool, NEW r \in {"ok", "failed"}, Watched({t}),
           Sound(drive'), Finish(t, r)
    PROVE  IInv'
  BY ToolStepKeeps, IdleFits DEF Finish, Idle

\* It goes on, as it is.
LEMMA GoKeeps ==
    ASSUME IInv, NEW t \in Tool, NEW s \in Steps \ {"eject"}, Watched({t}),
           Sound(drive'), Go(t, s), Fits(t, [tool[t] EXCEPT !.pc = s])
    PROVE  IInv'
PROOF
  <1> DEFINE p == [tool[t] EXCEPT !.pc = s]
  <1>1. tool' = [tool EXCEPT ![t] = p]
    BY DEF Go
  <1>2. p.pc # "eject"
    BY DEF IInv, ToolRecord
  <1> HIDE DEF p
  <1> QED
    BY <1>1, <1>2, ToolStepKeeps DEF p

--------------------------------------------------------------------------------

LEMMA StartKeeps ==
    ASSUME IInv, NEW t \in Tool, Start(t), Watched({t})
    PROVE  IInv'
PROOF
  <1>1. PICK c \in Commands[t] :
          tool' = [tool EXCEPT ![t] =
                    [Idle EXCEPT !.pc = FirstStep(c.do), !.do = c.do, !.image = c.image,
                                 !.letter = c.letter, !.wait = c.wait,
                                 !.todo = IF c.do = "unmountEach" THEN ListedNames ELSE {}]]
    BY DEF Start
  <1> DEFINE p == [Idle EXCEPT !.pc = FirstStep(c.do), !.do = c.do, !.image = c.image,
                               !.letter = c.letter, !.wait = c.wait,
                               !.todo = IF c.do = "unmountEach" THEN ListedNames ELSE {}]
  <1>2. c \in Command
    BY ToolsAssumption
  <1>3. ListedNames \subseteq {Shown(i) : i \in Image}
    BY DEF IInv, Sound, Named, ListedNames
  <1>4. p \in ToolRecord /\ p.pc = FirstStep(c.do) /\ p.do = c.do /\ p.image = c.image
        /\ p.letter = c.letter /\ p.wait = c.wait /\ p.drive = NoDrive
    BY <1>2, <1>3 DEF ToolRecord, Idle, FirstStep, Steps, Command
  <1> HIDE DEF p
  <1>5. InItsSteps(p)
    BY <1>2, <1>4 DEF InItsSteps, Command, FirstStep, Mounting, Awaiting, Disconnecting
  <1>6. Counted(t, p)
    BY <1>2, <1>4 DEF Counted, Command, Referring, FirstStep, Mounting, Awaiting
  <1>7. p.pc # "eject"
    BY <1>2, <1>4 DEF Command, FirstStep
  <1>8. Sound(drive')
    BY DEF Start, IInv
  <1>9. tool' = [tool EXCEPT ![t] = p]
    BY <1>1 DEF p
  <1> QED
    BY <1>4, <1>5, <1>6, <1>7, <1>8, <1>9, ToolStepKeeps DEF Fits

LEMMA PresentKeeps ==
    ASSUME IInv, NEW t \in Tool, Present(t), Watched({t})
    PROVE  IInv'
PROOF
  <1>1. Sound(drive') /\ Fits(t, tool[t]) /\ tool[t].pc = "present"
    BY DEF IInv, Present, At
  <1>2. CASE Go(t, "soft") /\ tool[t].do = "click"
    <2>1. Fits(t, [tool[t] EXCEPT !.pc = "soft"])
      BY <1>1, <1>2
         DEF Fits, ToolRecord, InItsSteps, Counted, Mounting, Awaiting, Disconnecting,
             Steps
    <2> QED
      BY <1>1, <1>2, <2>1, GoKeeps DEF Steps
  <1>3. CASE Finish(t, "failed")
    BY <1>1, <1>3, FinishKeeps
  <1>4. CASE Go(t, "drive") /\ tool[t].letter # NoLetter
    <2>1. Fits(t, [tool[t] EXCEPT !.pc = "drive"])
      BY <1>1, <1>4
         DEF Fits, ToolRecord, InItsSteps, Counted, Mounting, Awaiting, Disconnecting,
             Steps
    <2> QED
      BY <1>1, <1>4, <2>1, GoKeeps DEF Steps
  <1>5. CASE Go(t, "plugin") /\ tool[t].letter = NoLetter
    <2>1. Fits(t, [tool[t] EXCEPT !.pc = "plugin"])
      BY <1>1, <1>5
         DEF Fits, ToolRecord, InItsSteps, Counted, Mounting, Awaiting, Disconnecting,
             Steps
    <2> QED
      BY <1>1, <1>5, <2>1, GoKeeps DEF Steps
  <1> QED
    BY <1>2, <1>3, <1>4, <1>5 DEF Present

LEMMA PluginKeeps ==
    ASSUME IInv, NEW t \in Tool, Plugin(t), Watched({t})
    PROVE  IInv'
PROOF
  <1>1. Fits(t, tool[t]) /\ tool[t].pc = "plugin" /\ tool[t].image \in Image
    BY DEF IInv, Fits, InItsSteps, Mounting, Awaiting, Plugin, At
  <1>2. CASE Finish(t, "failed") /\ UNCHANGED drive
    BY <1>2, FinishKeeps DEF IInv
  <1>3. CASE ~(Finish(t, "failed") /\ UNCHANGED drive)
    <2> DEFINE r == [NoSuchDrive EXCEPT !.here = TRUE, !.name = tool[t].image,
                       !.image = tool[t].image, !.loaded = TRUE,
                       !.soft = ~(tool[t].do = "click" /\ tool[t].image \in Profiled)]
    <2>0. FindPDO(tool[t].image) = {}
      BY <1>3 DEF Plugin
    <2>1. Fresh \in Drive
      BY <1>1, <2>0, FreshIsFree
    <2>2. /\ r \in DriveRecord /\ r.here /\ r.name = tool[t].image
          /\ r.image = tool[t].image /\ r.letter = NoLetter
      BY <1>1 DEF DriveRecord, NoSuchDrive
    <2>3. drive' = [drive EXCEPT ![Fresh] = r]
      BY <1>3 DEF Plugin
    <2> HIDE DEF r
    <2>4. Sound([drive EXCEPT ![Fresh] = r])
      <3>1. \A e \in Drive \ {Fresh} : drive[e].here => drive[e].name # r.name
        BY <2>0, <2>2 DEF FindPDO
      <3> HIDE DEF Fresh
      <3> QED
        BY <1>1, <2>1, <2>2, <3>1, ChangeKeepsSound DEF IInv
    <2>5. CASE tool[t].wait = "no"
      BY <1>3, <2>3, <2>4, <2>5, FinishKeeps DEF Plugin
    <2>6. CASE tool[t].wait # "no"
      <3> DEFINE p == [tool[t] EXCEPT !.pc = "linked", !.drive = Fresh]
      <3>1. tool' = [tool EXCEPT ![t] = p]
        BY <1>3, <2>6 DEF Plugin, Finish
      <3>2. tool[t].do # "click" /\ t \in Referring /\ tool[t].do = "mount"
        BY <1>1, <2>6 DEF Fits, InItsSteps, Counted, Mounting, Awaiting
      <3>3. Fits(t, p)
        BY <1>1, <2>1, <3>2, Numbers
           DEF Fits, ToolRecord, InItsSteps, Counted, Mounting, Awaiting, Disconnecting,
               Steps
      <3>4. p.pc = "linked"
        BY DEF IInv, ToolRecord
      <3> HIDE DEF p
      <3> QED
        BY <2>3, <2>4, <3>1, <3>3, <3>4, ToolStepKeeps
    <2> QED
      BY <2>5, <2>6
  <1> QED
    BY <1>2, <1>3 DEF Plugin

LEMMA OpenDriveKeeps ==
    ASSUME IInv, NEW t \in Tool, OpenDrive(t), Watched({t})
    PROVE  IInv'
PROOF
  <1>1. Sound(drive') /\ Fits(t, tool[t]) /\ tool[t].pc = "drive"
    BY DEF IInv, OpenDrive, At
  <1>2. CASE Finish(t, "failed")
    BY <1>1, <1>2, FinishKeeps
  <1>3. CASE Go(t, "plugin") /\ tool[t].do = "mount"
    <2>1. Fits(t, [tool[t] EXCEPT !.pc = "plugin"])
      BY <1>1, <1>3
         DEF Fits, ToolRecord, InItsSteps, Counted, Mounting, Awaiting, Disconnecting,
             Steps
    <2> QED
      BY <1>1, <1>3, <2>1, GoKeeps DEF Steps
  <1>4. ASSUME NEW d \in DriveAt(tool[t].letter),
               tool' = [tool EXCEPT ![t].pc = "replace", ![t].drive = d]
        PROVE  IInv'
    <2> DEFINE p == [tool[t] EXCEPT !.pc = "replace", !.drive = d]
    <2>1. tool' = [tool EXCEPT ![t] = p]
      BY <1>4
    <2>2. d \in Drive /\ d # NoDrive
      BY Numbers DEF DriveAt
    <2>3. t \in Referring
      BY <1>1 DEF Fits, InItsSteps, Counted, Mounting, Awaiting
    <2>4. Fits(t, p)
      BY <1>1, <2>2, <2>3
         DEF Fits, ToolRecord, InItsSteps, Counted, Mounting, Awaiting, Disconnecting,
             Steps
    <2>5. p.pc = "replace"
      BY DEF IInv, ToolRecord
    <2> HIDE DEF p
    <2> QED
      BY <1>1, <2>1, <2>4, <2>5, ToolStepKeeps
  <1> QED
    BY <1>2, <1>3, <1>4 DEF OpenDrive

\* What becomes of programs that wait for a drive.
LEMMA SignalledFits ==
    ASSUME IInv, NEW d,
           NEW s \in {"attached", "linked", "named"},
           NEW n \in {"serviced", "linked", "named"}, s = "attached" <=> n = "serviced"
    PROVE  /\ Signalled(d, s, n) \in [Tool -> ToolRecord]
           /\ \A u \in Tool : /\ Fits(u, Signalled(d, s, n)[u])
                              /\ Signalled(d, s, n)[u].pc = "eject"
                                    => Signalled(d, s, n)[u] = tool[u]
PROOF
  <1>1. ASSUME NEW u \in Tool
        PROVE  /\ Fits(u, Signalled(d, s, n)[u])
               /\ Signalled(d, s, n)[u].pc = "eject" => Signalled(d, s, n)[u] = tool[u]
    <2>1. Fits(u, tool[u])
      BY DEF IInv
    <2>2. CASE tool[u].pc = s /\ tool[u].drive = d
      <3> DEFINE p == [tool[u] EXCEPT !.pc = n]
      <3>1. Signalled(d, s, n)[u] = p
        BY <2>2 DEF Signalled
      <3>2. Fits(u, p) /\ p.pc # "eject"
        BY <2>1, <2>2
           DEF Fits, ToolRecord, InItsSteps, Counted, Mounting, Awaiting, Disconnecting,
               Steps
      <3> QED
        BY <3>1, <3>2
    <2>3. CASE ~(tool[u].pc = s /\ tool[u].drive = d)
      BY <2>1, <2>3 DEF Signalled
    <2> QED
      BY <2>2, <2>3
  <1>2. DOMAIN Signalled(d, s, n) = Tool
    BY DEF Signalled
  <1> QED
    BY <1>1 DEF Fits, Signalled

LEMMA ReplaceKeeps ==
    ASSUME IInv, NEW t \in Tool, Replace(t), Watched({t})
    PROVE  IInv'
PROOF
  <1>1. Fits(t, tool[t]) /\ tool[t].pc = "replace" /\ tool[t].image \in Image
    BY DEF IInv, Fits, InItsSteps, Mounting, Awaiting, Replace, At
  <1>2. CASE Finish(t, "failed") /\ UNCHANGED drive
    BY <1>2, FinishKeeps DEF IInv
  <1>3. CASE ~(Finish(t, "failed") /\ UNCHANGED drive)
    <2> DEFINE d == tool[t].drive
               r == [drive[d] EXCEPT !.loaded = FALSE, !.next = tool[t].image]
               p == IF tool[t].wait = "no" THEN Idle ELSE [tool[t] EXCEPT !.pc = "attached"]
               s == Signalled(d, "attached", "serviced")
    <2>1. d \in Drive /\ drive[d].here
      BY <1>1, <1>3 DEF Replace, Fits, ToolRecord, InItsSteps
    <2>2. drive' = [drive EXCEPT ![d] = r]
      BY <1>3, <2>1 DEF Replace, IInv, Sound
    <2>3. /\ r \in DriveRecord /\ r.here /\ r.image \in Image
          /\ r.name = drive[d].name /\ r.letter = drive[d].letter
      BY <1>1, <2>1 DEF IInv, Sound, Named, DriveRecord
    <2>4. Sound(drive')
      <3> HIDE DEF r, d
      <3> QED
        BY <2>1, <2>2, <2>3, DiscChangeKeepsSound DEF IInv
    <2>5. s \in [Tool -> ToolRecord]
          /\ \A u \in Tool : Fits(u, s[u]) /\ (s[u].pc = "eject" => s[u] = tool[u])
      BY SignalledFits
    <2>6. s[t] = tool[t]
      BY <1>1 DEF Signalled
    <2>7. tool' = [s EXCEPT ![t] = p]
      BY <1>3, <2>6 DEF Replace
    <2>8. Fits(t, p) /\ p.pc # "eject"
      <3>1. Fits(t, Idle) /\ Idle.pc # "eject"
        BY DEF Fits, ToolRecord, InItsSteps, Counted, Idle, Steps, Wait, Mounting,
           Awaiting, Disconnecting
      <3>2. Fits(t, [tool[t] EXCEPT !.pc = "attached"])
            /\ [tool[t] EXCEPT !.pc = "attached"].pc # "eject"
        BY <1>1, <2>1
           DEF Fits, ToolRecord, InItsSteps, Counted, Mounting, Awaiting, Disconnecting,
               Steps
      <3> QED
        BY <3>1, <3>2
    <2> HIDE DEF p, s
    <2>9. tool'[t] = p /\ \A u \in Tool \ {t} : tool'[u] = s[u]
      BY <2>5, <2>7
    <2>10. tool' \in [Tool -> ToolRecord]
      BY <2>5, <2>7, <2>8 DEF Fits
    <2> QED
      BY <2>4, <2>5, <2>8, <2>9, <2>10, StepKeeps
  <1> QED
    BY <1>2, <1>3

LEMMA FindKeeps ==
    ASSUME IInv, NEW t \in Tool, Find(t), Watched({t})
    PROVE  IInv'
PROOF
  <1>1. Sound(drive') /\ Fits(t, tool[t]) /\ tool[t].pc = "find"
    BY DEF IInv, Find, At
  <1>2. CASE Finish(t, "failed")
    BY <1>1, <1>2, FinishKeeps
  <1>3. ASSUME NEW d \in DriveAt(tool[t].letter),
               tool' = [tool EXCEPT ![t].pc = "soft",
                                    ![t].image = KernelName(Shown(drive[d].name))]
        PROVE  IInv'
    <2> DEFINE p == [tool[t] EXCEPT !.pc = "soft", !.image = drive[d].name]
    <2>1. tool' = [tool EXCEPT ![t] = p]
      BY <1>3, KernelNames
    <2>2. drive[d].name \in Image
      BY DEF IInv, Sound, Named, DriveAt
    <2>3. Fits(t, p) /\ p.pc # "eject"
      BY <1>1, <2>2
         DEF Fits, ToolRecord, InItsSteps, Counted, Mounting, Awaiting, Disconnecting,
             Steps
    <2> HIDE DEF p
    <2> QED
      BY <1>1, <2>1, <2>3, ToolStepKeeps
  <1> QED
    BY <1>2, <1>3 DEF Find

LEMMA DisconnectedKeeps ==
    ASSUME IInv, NEW t \in Tool, NEW r \in {"ok", "failed"}, Watched({t}),
           Sound(drive'), Disconnected(t, r), tool[t].pc \in Disconnecting
    PROVE  IInv'
PROOF
  <1>1. CASE ~(tool[t].do = "unmountEach" /\ r = "ok")
    BY <1>1, FinishKeeps DEF Disconnected
  <1>2. CASE tool[t].do = "unmountEach" /\ r = "ok"
    <2> DEFINE p == [tool[t] EXCEPT !.pc = "next", !.image = NoImage, !.letter = NoLetter]
    <2>1. tool' = [tool EXCEPT ![t] = p]
      BY <1>2 DEF Disconnected
    <2>2. tool[t] \in ToolRecord /\ Counted(t, tool[t])
      BY DEF IInv, Fits
    <2>3. /\ p \in ToolRecord /\ p.pc = "next" /\ p.do = "unmountEach"
          /\ p.drive = tool[t].drive
      BY <1>2, <2>2 DEF ToolRecord, Steps
    <2> HIDE DEF p
    <2>4. InItsSteps(p)
      BY <2>3 DEF InItsSteps, Mounting, Awaiting, Disconnecting
    <2>5. Counted(t, p)
      BY <2>2, <2>3 DEF Counted, Mounting
    <2> QED
      BY <2>1, <2>3, <2>4, <2>5, ToolStepKeeps DEF Fits
  <1> QED
    BY <1>1, <1>2

LEMMA GoPlugoutKeeps ==
    ASSUME IInv, NEW t \in Tool, Watched({t}),
           UNCHANGED drive, GoPlugout(t), tool[t].pc \in Disconnecting
    PROVE  IInv'
PROOF
  <1> DEFINE p == [tool[t] EXCEPT !.pc = "plugout", !.letter = NoLetter]
  <1>1. tool' = [tool EXCEPT ![t] = p]
    BY DEF GoPlugout
  <1>2. tool[t] \in ToolRecord /\ InItsSteps(tool[t]) /\ Counted(t, tool[t])
    BY DEF IInv, Fits
  <1>3. /\ p \in ToolRecord /\ p.pc = "plugout" /\ p.do = tool[t].do
        /\ p.image = tool[t].image /\ p.drive = tool[t].drive
    BY <1>2 DEF ToolRecord, Steps
  <1>4. Sound(drive')
    BY DEF IInv
  <1> HIDE DEF p
  <1>5. InItsSteps(p)
    BY <1>2, <1>3 DEF InItsSteps, Mounting, Awaiting, Disconnecting
  <1>6. Counted(t, p)
    BY <1>2, <1>3 DEF Counted, Mounting
  <1> QED
    BY <1>1, <1>3, <1>4, <1>5, <1>6, ToolStepKeeps DEF Fits

LEMMA SoftKeeps ==
    ASSUME IInv, NEW t \in Tool, Soft(t), Watched({t})
    PROVE  IInv'
PROOF
  <1> DEFINE found == {d \in FindPDO(tool[t].image) : drive[d].soft}
  <1>1. Fits(t, tool[t]) /\ tool[t].pc = "soft"
    BY DEF IInv, Soft, At
  <1>2. CASE found # {}
    <2>1. drive' = Removed(found) /\ Disconnected(t, "ok")
      BY <1>2 DEF Soft
    <2> HIDE DEF found
    <2>2. Sound(drive')
      BY <2>1, RemovalKeepsSound DEF IInv
    <2> QED
      BY <1>1, <2>1, <2>2, DisconnectedKeeps DEF Disconnecting
  <1>3. CASE found = {}
    <2>1. Go(t, "list") /\ Sound(drive')
      BY <1>3 DEF Soft, IInv
    <2>2. Fits(t, [tool[t] EXCEPT !.pc = "list"])
      BY <1>1
         DEF Fits, ToolRecord, InItsSteps, Counted, Mounting, Awaiting, Disconnecting,
             Steps
    <2> QED
      BY <2>1, <2>2, GoKeeps DEF Steps
  <1> QED
    BY <1>2, <1>3

LEMMA ListOneKeeps ==
    ASSUME IInv, NEW t \in Tool, ListOne(t), Watched({t})
    PROVE  IInv'
PROOF
  <1>1. Fits(t, tool[t]) /\ tool[t].pc = "list" /\ UNCHANGED drive /\ Sound(drive')
    BY DEF IInv, ListOne, At
  <1>2. CASE GoPlugout(t)
    BY <1>1, <1>2, GoPlugoutKeeps DEF Disconnecting
  <1>3. ASSUME NEW l \in {drive[d].letter : d \in FindPDO(tool[t].image)},
               tool' = [tool EXCEPT ![t].pc = "compare", ![t].letter = l]
        PROVE  IInv'
    <2> DEFINE p == [tool[t] EXCEPT !.pc = "compare", !.letter = l]
    <2>1. tool' = [tool EXCEPT ![t] = p]
      BY <1>3
    <2>2. l \in Letter \cup {NoLetter}
      BY DEF IInv, Sound, DriveRecord, FindPDO
    <2>3. Fits(t, p) /\ p.pc # "eject"
      BY <1>1, <2>2
         DEF Fits, ToolRecord, InItsSteps, Counted, Mounting, Awaiting, Disconnecting,
             Steps
    <2> HIDE DEF p
    <2> QED
      BY <1>1, <2>1, <2>3, ToolStepKeeps
  <1> QED
    BY <1>2, <1>3 DEF ListOne

LEMMA CompareKeeps ==
    ASSUME IInv, NEW t \in Tool, Compare(t), Watched({t})
    PROVE  IInv'
PROOF
  <1>1. Fits(t, tool[t]) /\ tool[t].pc = "compare" /\ UNCHANGED drive /\ Sound(drive')
    BY DEF IInv, Compare, At
  <1>2. CASE GoPlugout(t)
    BY <1>1, <1>2, GoPlugoutKeeps DEF Disconnecting
  <1>3. CASE Go(t, "eject") /\ \E d \in DriveAt(tool[t].letter) : drive[d].image = tool[t].image
    <2> DEFINE p == [tool[t] EXCEPT !.pc = "eject"]
    <2>1. tool' = [tool EXCEPT ![t] = p]
      BY <1>3 DEF Go
    <2>2. Fits(t, p) /\ p.letter = tool[t].letter /\ p.image = tool[t].image
      BY <1>1
         DEF Fits, ToolRecord, InItsSteps, Counted, Mounting, Awaiting, Disconnecting,
             Steps
    <2> HIDE DEF p
    <2> QED
      BY <1>1, <1>3, <2>1, <2>2, ToolStepKeeps
  <1> QED
    BY <1>2, <1>3 DEF Compare

LEMMA EjectKeeps ==
    ASSUME IInv, NEW t \in Tool, Eject(t), Watched({t})
    PROVE  IInv'
PROOF
  <1>1. tool[t].pc = "eject"
    BY DEF Eject, At
  <1>2. CASE GoPlugout(t) /\ UNCHANGED drive
    BY <1>1, <1>2, GoPlugoutKeeps DEF Disconnecting
  <1>3. ASSUME NEW d \in DriveAt(tool[t].letter),
               drive' = [drive EXCEPT ![d].loaded = FALSE], Disconnected(t, "ok")
        PROVE  IInv'
    <2> DEFINE r == [drive[d] EXCEPT !.loaded = FALSE]
    <2>1. d \in Drive /\ drive[d].here
      BY DEF DriveAt
    <2>2. drive' = [drive EXCEPT ![d] = r]
      BY <1>3
    <2>3. /\ r \in DriveRecord /\ r.here /\ r.image \in Image
          /\ r.name = drive[d].name /\ r.letter = drive[d].letter
      BY <2>1 DEF IInv, Sound, Named, DriveRecord
    <2> HIDE DEF r
    <2>4. Sound(drive')
      BY <2>1, <2>2, <2>3, DiscChangeKeepsSound DEF IInv
    <2> QED
      BY <1>1, <1>3, <2>4, DisconnectedKeeps DEF Disconnecting
  <1> QED
    BY <1>2, <1>3 DEF Eject

LEMMA PlugoutKeeps ==
    ASSUME IInv, NEW t \in Tool, Plugout(t), Watched({t})
    PROVE  IInv'
PROOF
  <1>1. Sound(drive') /\ tool[t].pc = "plugout"
    BY RemovalKeepsSound DEF Plugout, At, IInv
  <1>2. Disconnected(t, "ok") \/ Disconnected(t, "failed")
    BY DEF Plugout
  <1> QED
    BY <1>1, <1>2, DisconnectedKeeps DEF Disconnecting

LEMMA NextNameKeeps ==
    ASSUME IInv, NEW t \in Tool, NextName(t), Watched({t})
    PROVE  IInv'
PROOF
  <1>1. Fits(t, tool[t]) /\ tool[t].pc = "next" /\ Sound(drive')
    BY DEF IInv, NextName, At
  <1>2. CASE Finish(t, "ok")
    BY <1>1, <1>2, FinishKeeps
  <1>3. ASSUME NEW shown \in tool[t].todo,
               tool' = [tool EXCEPT ![t].pc = "soft", ![t].todo = @ \ {shown},
                                    ![t].image = KernelName(shown)]
        PROVE  IInv'
    <2> DEFINE p == [tool[t] EXCEPT !.pc = "soft", !.todo = @ \ {shown},
                                    !.image = KernelName(shown)]
    <2>1. tool' = [tool EXCEPT ![t] = p]
      BY <1>3
    <2>2. KernelName(shown) \in Image
      BY <1>1, KernelNames DEF Fits, ToolRecord
    <2>3. Fits(t, p) /\ p.pc # "eject"
      BY <1>1, <2>2
         DEF Fits, ToolRecord, InItsSteps, Counted, Mounting, Awaiting, Disconnecting,
             Steps
    <2> HIDE DEF p
    <2> QED
      BY <1>1, <2>1, <2>3, ToolStepKeeps
  <1> QED
    BY <1>2, <1>3 DEF NextName

LEMMA OtherEndsKeep ==
    ASSUME IInv, NEW t \in Tool, Watched({t}),
           \/ StartFails(t) \/ Cancelled(t) \/ Linked(t) \/ LinkTimeout(t) \/ Attached(t)
           \/ AttachedToNothing(t) \/ AttachTimeout(t) \/ Bounce(t)
    PROVE  IInv'
PROOF
  <1>1. Sound(drive')
    BY RemovalKeepsSound
       DEF StartFails, Cancelled, Linked, LinkTimeout, Attached, AttachedToNothing,
           AttachTimeout, Bounce, IInv
  <1>2. Finish(t, "ok") \/ Finish(t, "failed")
    BY DEF StartFails, Cancelled, Linked, LinkTimeout, Attached, AttachedToNothing,
           AttachTimeout, Bounce
  <1> QED
    BY <1>1, <1>2, FinishKeeps

--------------------------------------------------------------------------------
(* Windows and the user. *)

LEMMA LinkKeeps ==
    ASSUME IInv, NEW d \in Drive, NEW ts, Watched(ts), LinkCreated(d) \/ LinkDeleted(d)
    PROVE  IInv'
PROOF
  <1>1. PICK l \in FreeLetters \cup {NoLetter} : drive' = [drive EXCEPT ![d].letter = l]
    BY DEF LinkCreated, LinkDeleted
  <1> DEFINE r == [drive[d] EXCEPT !.letter = l]
  <1>2. drive[d].here
    BY DEF LinkCreated, LinkDeleted
  <1>3. /\ r \in DriveRecord /\ r.here /\ r.image \in Image /\ r.name \in Image
        /\ r.name = drive[d].name /\ r.letter = l
    BY <1>2 DEF IInv, Sound, Named, DriveRecord, FreeLetters
  <1>4. drive' = [drive EXCEPT ![d] = r]
    BY <1>1
  <1> HIDE DEF r
  <1>5. \A e \in Drive \ {d} : drive[e].here =>
          drive[e].name # r.name /\ (r.letter # NoLetter => drive[e].letter # r.letter)
    BY <1>2, <1>3 DEF IInv, Sound, OneDrivePerName, FreeLetters, DriveAt
  <1>6. Sound(drive')
    BY <1>3, <1>4, <1>5, ChangeKeepsSound DEF IInv
  <1>7. tool' = Signalled(d, "linked", "named") \/ tool' = Signalled(d, "named", "linked")
    BY DEF LinkCreated, LinkDeleted
  <1>8. tool' \in [Tool -> ToolRecord]
        /\ \A u \in Tool : Fits(u, tool'[u]) /\ (tool'[u].pc = "eject" => tool'[u] = tool[u])
    BY <1>7, SignalledFits
  <1> QED
    BY <1>6, <1>8, StepKeeps

LEMMA EmptiedKeeps ==
    ASSUME IInv, NEW d \in Drive, NEW ts, Watched(ts), Ejected(d) \/ CleanedUp(d)
    PROVE  IInv'
PROOF
  <1>1. Sound(drive')
    <2> DEFINE r == [drive[d] EXCEPT !.loaded = FALSE]
    <2>1. CASE Ejected(d)
      <3>1. drive[d].here /\ drive' = [drive EXCEPT ![d] = r]
        BY <2>1 DEF Ejected
      <3>2. /\ r \in DriveRecord /\ r.here /\ r.image \in Image
            /\ r.name = drive[d].name /\ r.letter = drive[d].letter
        BY <3>1 DEF IInv, Sound, Named, DriveRecord
      <3> HIDE DEF r
      <3> QED
        BY <3>1, <3>2, DiscChangeKeepsSound DEF IInv
    <2>2. CASE CleanedUp(d)
      BY <2>2, RemovalKeepsSound DEF CleanedUp, IInv
    <2> QED
      BY <2>1, <2>2
  <1>2. tool' = tool
    BY DEF Ejected, CleanedUp
  <1> QED
    BY <1>1, <1>2, StepKeeps DEF IInv

\* The drive takes the name of the image only if no other drive has it.
LEMMA ReplacedKeeps ==
    ASSUME IInv, NEW d \in Drive, NEW ts, Watched(ts), Replaced(d)
    PROVE  IInv'
PROOF
  <1> DEFINE n == IF FindPDO(drive[d].next) = {} THEN drive[d].next ELSE drive[d].name
             r == [drive[d] EXCEPT !.loaded = TRUE, !.image = drive[d].next,
                                   !.next = NoImage, !.name = n]
  <1>1. drive[d].here /\ drive[d].next \in Image /\ drive[d].name \in Image
    BY DEF Replaced, IInv, Sound, Named, DriveRecord
  <1>2. drive' = [drive EXCEPT ![d] = r]
    BY DEF Replaced
  <1>3. n \in Image /\ \A e \in Drive \ {d} : drive[e].here => drive[e].name # n
    BY <1>1 DEF IInv, Sound, OneDrivePerName, FindPDO
  <1> HIDE DEF n
  <1>4. /\ r \in DriveRecord /\ r.here /\ r.image \in Image /\ r.name = n
        /\ r.letter = drive[d].letter
    BY <1>1, <1>3 DEF IInv, Sound, DriveRecord
  <1> HIDE DEF r
  <1>5. \A e \in Drive \ {d} : drive[e].here =>
          drive[e].name # r.name /\ (r.letter # NoLetter => drive[e].letter # r.letter)
    BY <1>1, <1>3, <1>4 DEF IInv, Sound, OneDrivePerLetter
  <1>6. Sound(drive')
    BY <1>2, <1>3, <1>4, <1>5, ChangeKeepsSound DEF IInv
  <1>7. tool' = Signalled(d, "attached", "serviced")
    BY DEF Replaced
  <1>8. tool' \in [Tool -> ToolRecord]
        /\ \A u \in Tool : Fits(u, tool'[u]) /\ (tool'[u].pc = "eject" => tool'[u] = tool[u])
    BY <1>7, SignalledFits
  <1> QED
    BY <1>6, <1>8, StepKeeps

--------------------------------------------------------------------------------
(* The invariant. *)

LEMMA InitSound == Init => IInv
PROOF
  <1> SUFFICES ASSUME Init
               PROVE  IInv
    OBVIOUS
  <1>1. Sound(drive)
    BY NoSuchDriveType
       DEF Init, Sound, Named, OneDrivePerName, OneDrivePerLetter, NoSuchDrive
  <1>2. \A t \in Tool : tool[t] = Idle /\ Fits(t, Idle)
    BY DEF Init, Fits, ToolRecord, InItsSteps, Counted, Idle, Steps, Wait, Mounting,
       Awaiting,
           Disconnecting
  <1> QED
    BY <1>1, <1>2 DEF Init, IInv, Fits, Compared, Idle

LEMMA NextSound == IInv /\ [Next]_vars => IInv'
PROOF
  <1> SUFFICES ASSUME IInv, [Next]_vars
               PROVE  IInv'
    OBVIOUS
  <1>1. ASSUME NEW t \in Tool, ToolStep(t)
        PROVE  IInv'
    BY <1>1, StartKeeps, PresentKeeps, PluginKeeps, OpenDriveKeeps, ReplaceKeeps,
       FindKeeps,
       SoftKeeps, ListOneKeeps, CompareKeeps, EjectKeeps, PlugoutKeeps, NextNameKeeps,
       OtherEndsKeep
       DEF ToolStep, Run
  <1>2. ASSUME NEW d \in Drive, WindowsStep(d)
        PROVE  IInv'
    BY <1>2, LinkKeeps, EmptiedKeeps, ReplacedKeeps DEF WindowsStep
  <1>3. CASE UNCHANGED vars
    BY <1>3 DEF vars, IInv, Compared, DriveAt
  <1> QED
    BY <1>1, <1>2, <1>3 DEF Next

(* The inductive invariant: no two drives share a name or a letter, and a program   *)
(* has, at each of its steps, what the calls before it have left.                   *)
THEOREM Soundness == Spec => []IInv
  BY InitSound, NextSound, PTL DEF Spec

(* The values that programs and drives have are of their types: the bus never runs  *)
(* out of numbers for drives, and what is handed on between the steps of a program  *)
(* is what the next step needs.                                                     *)
THEOREM TypeCorrect == Spec => []TypeOK
PROOF
  <1>1. IInv => TypeOK
    BY DEF IInv, Sound, DriveRecord, ToolRecord, TypeOK
  <1> QED
    BY <1>1, Soundness, PTL

--------------------------------------------------------------------------------
(* Others do not move a program that does not wait. *)

\* A program that waits is moved from one of two steps to the other.
Moved(u) ==
    \/ tool'[u] = tool[u]
    \/ \E s, n \in {"linked", "named"} :
          tool[u].pc = s /\ tool'[u] = [tool[u] EXCEPT !.pc = n]
    \/ tool[u].pc = "attached" /\ tool'[u] = [tool[u] EXCEPT !.pc = "serviced"]

LEMMA SignalMoves ==
    ASSUME IInv, NEW d, NEW u \in Tool,
           \/ tool'[u] = Signalled(d, "attached", "serviced")[u]
           \/ tool'[u] = Signalled(d, "linked", "named")[u]
           \/ tool'[u] = Signalled(d, "named", "linked")[u]
    PROVE  Moved(u)
  BY DEF Moved, Signalled

LEMMA OthersMove ==
    ASSUME IInv, NEW t \in Tool, ToolStep(t), NEW u \in Tool \ {t}
    PROVE  Moved(u)
PROOF
  <1>1. CASE Replace(t)
    <2>1. tool'[u] = Signalled(tool[t].drive, "attached", "serviced")[u] \/ tool'[u] = tool[u]
      BY <1>1 DEF Replace, Finish, Signalled, IInv
    <2> QED
      BY <2>1, SignalMoves DEF Moved
  <1>2. CASE ~Replace(t)
    <2>1. ASSUME NEW p, tool' = [tool EXCEPT ![t] = p]
          PROVE  tool'[u] = tool[u]
      BY <2>1 DEF IInv
    <2> QED
      BY <1>2, <2>1
         DEF Moved, ToolStep, Run, Start, StartFails, Present, Cancelled, Plugin, Linked,
             LinkTimeout, OpenDrive, Attached, AttachedToNothing, AttachTimeout, Find,
             Soft, ListOne, Compare, Eject, Plugout, NextName, Bounce, Go, Finish,
             Disconnected, GoPlugout
  <1> QED
    BY <1>1, <1>2

LEMMA WindowsMoves ==
    ASSUME IInv, NEW d \in Drive, WindowsStep(d), NEW u \in Tool
    PROVE  Moved(u)
PROOF
  <1>1. CASE Ejected(d) \/ CleanedUp(d)
    BY <1>1 DEF Ejected, CleanedUp, Moved
  <1>2. CASE LinkCreated(d) \/ LinkDeleted(d) \/ Replaced(d)
    BY <1>2, SignalMoves DEF LinkCreated, LinkDeleted, Replaced
  <1> QED
    BY <1>1, <1>2 DEF WindowsStep

LEMMA MovedIdle ==
    ASSUME IInv, NEW u \in Tool, Moved(u)
    PROVE  /\ tool[u].pc = "idle" <=> tool'[u].pc = "idle"
           /\ tool[u].pc \notin {"linked", "named", "attached"} => tool'[u] = tool[u]
  BY DEF IInv, ToolRecord, Moved

LEMMA OwnStep ==
    ASSUME IInv, Next, NEW t \in Tool, tool'[t] # tool[t],
           tool[t].pc \notin {"attached", "linked", "named"}
    PROVE  ToolStep(t)
  BY OthersMove, WindowsMoves, MovedIdle DEF Next

--------------------------------------------------------------------------------
(* Nobody takes away what was not asked for. *)

\* The drives that program t may change, and what it may report.
OnlyWhatWasAsked(t) ==
    LET asked == {d \in Drive : drive[d].here
                    /\ tool[t].image \in {drive[d].name, drive[d].image}}
    IN /\ \A d \in Drive : drive'[d] # drive[d] => d \in asked
       /\ tool'[t].pc \in {"next", "idle"} /\ tool'[t].result = "ok"
            => \E d \in asked : ~drive'[d].loaded

LEMMA SoftAsked ==
    ASSUME IInv, NEW t \in Tool, Soft(t)
    PROVE  OnlyWhatWasAsked(t)
PROOF
  <1> DEFINE found == {d \in FindPDO(tool[t].image) : drive[d].soft}
  <1>1. CASE found # {}
    <2>1. drive' = Removed(found)
      BY <1>1 DEF Soft
    <2>2. \A d \in Drive : drive'[d] # drive[d] => d \in FindPDO(tool[t].image)
      BY <2>1 DEF Removed
    <2>3. PICK d \in found : TRUE
      BY <1>1
    <2>4. d \in FindPDO(tool[t].image) /\ ~drive'[d].loaded
      BY <2>1, <2>3 DEF Removed, NoSuchDrive, FindPDO
    <2> QED
      BY <2>2, <2>4 DEF OnlyWhatWasAsked, FindPDO
  <1>2. CASE found = {}
    <2>1. drive' = drive /\ tool'[t].pc = "list"
      BY <1>2 DEF Soft, Go, IInv, ToolRecord
    <2> QED
      BY <2>1 DEF OnlyWhatWasAsked
  <1> QED
    BY <1>1, <1>2

\* One drive has the letter, and it had the image when it was compared.
LEMMA EjectAsked ==
    ASSUME IInv, NEW t \in Tool, Eject(t), t \notin late
    PROVE  OnlyWhatWasAsked(t)
PROOF
  <1>1. CASE GoPlugout(t) /\ UNCHANGED drive
    <2>1. tool'[t].pc = "plugout"
      BY <1>1 DEF GoPlugout, IInv, ToolRecord
    <2> QED
      BY <1>1, <2>1 DEF OnlyWhatWasAsked
  <1>2. ASSUME NEW d \in DriveAt(tool[t].letter), drive' = [drive EXCEPT ![d].loaded = FALSE]
        PROVE  OnlyWhatWasAsked(t)
    <2>1. PICK e \in DriveAt(tool[t].letter) : drive[e].image = tool[t].image
      BY DEF Eject, At, IInv, Compared
    <2>2. d = e /\ d \in Drive /\ drive[d].here
      BY DEF DriveAt, IInv, Sound, OneDrivePerLetter
    <2>3. ~drive'[d].loaded /\ \A x \in Drive : drive'[x] # drive[x] => x = d
      BY <1>2, <2>2 DEF IInv, Sound, DriveRecord
    <2> QED
      BY <2>1, <2>2, <2>3 DEF OnlyWhatWasAsked
  <1> QED
    BY <1>1, <1>2 DEF Eject

LEMMA PlugoutAsked ==
    ASSUME IInv, NEW t \in Tool, Plugout(t), tool[t].image # AllImages
    PROVE  OnlyWhatWasAsked(t)
PROOF
  <1>1. drive' = Removed(FindPDO(tool[t].image))
    BY DEF Plugout, Matching
  <1>2. \A d \in Drive : drive'[d] # drive[d] => d \in FindPDO(tool[t].image)
    BY <1>1 DEF Removed
  <1>3. CASE FindPDO(tool[t].image) = {}
    <2>1. Finish(t, "failed")
      BY <1>3 DEF Plugout, Matching, Disconnected
    <2>2. tool'[t].result = "failed"
      BY <2>1 DEF Finish, IInv, Idle
    <2> QED
      BY <1>2, <2>2 DEF OnlyWhatWasAsked, FindPDO
  <1>4. CASE FindPDO(tool[t].image) # {}
    <2>1. \E d \in FindPDO(tool[t].image) : ~drive'[d].loaded
      BY <1>1, <1>4 DEF Removed, NoSuchDrive, FindPDO
    <2> QED
      BY <1>2, <2>1 DEF OnlyWhatWasAsked, FindPDO
  <1> QED
    BY <1>3, <1>4

(* A program that unmounts one image takes away that image and no other, and        *)
(* reports success only if it did: for any number of programs, whatever they are    *)
(* run for, and however they, Windows and the user interleave (except between the   *)
(* comparison of an image and the second opening of its letter).                    *)
THEOREM AskedOnly == Spec => UnmountsWhatWasAsked
PROOF
  <1>1. ASSUME IInv, [Next]_vars, NEW t \in Tool, tool'[t] # tool[t],
               tool[t].pc \in {"soft", "eject", "plugout"}, tool[t].image # AllImages,
               t \notin late
        PROVE  OnlyWhatWasAsked(t)
    <2>1. Next
      BY <1>1 DEF vars
    <2>2. ToolStep(t)
      BY <1>1, <2>1, OwnStep
    <2>3. Soft(t) \/ Eject(t) \/ Plugout(t)
      BY <1>1, <2>2
         DEF ToolStep, Run, At, Start, StartFails, Present, Cancelled, Plugin, Linked,
             LinkTimeout, OpenDrive, Replace, Attached, AttachedToNothing, AttachTimeout,
             Find, ListOne, Compare, NextName, Bounce
    <2> QED
      BY <1>1, <2>3, SoftAsked, EjectAsked, PlugoutAsked
  <1>2. IInv /\ [Next]_vars =>
          [\A t \in Tool :
             (/\ tool'[t] # tool[t]
              /\ tool[t].pc \in {"soft", "eject", "plugout"}
              /\ tool[t].image # AllImages /\ t \notin late)
             => OnlyWhatWasAsked(t)]_vars
    BY <1>1
  <1> QED
    BY <1>2, Soundness, PTL DEF Spec, UnmountsWhatWasAsked, OnlyWhatWasAsked

--------------------------------------------------------------------------------
(* What a program that nobody disturbs has done so far, to the drives as it found  *)
(* them.                                                                           *)

\* The drive that it waits for is new, or is the one that had the letter.
Waits(b, p) ==
    /\ p.pc \in {"linked", "named"} =>
          /\ p.drive \in Drive /\ ~b[p.drive].here
          /\ drive[p.drive].here /\ drive[p.drive].image = p.image /\ drive[p.drive].loaded
          /\ drive[p.drive].next = NoImage
          /\ Lettered(b, p.letter) = {}
    /\ p.pc \in {"attached", "serviced"} =>
          /\ p.drive \in Lettered(b, p.letter)
          /\ p.image = IF drive[p.drive].next = NoImage THEN drive[p.drive].image
                       ELSE drive[p.drive].next
    /\ p.pc \in Awaiting =>
          \A e \in Drive \ {p.drive} : drive[e] = b[e]

\* It has found what it is to disconnect.
Found(b, p) ==
    /\ p.pc = "plugin" => DriveAt(p.letter) = {}
    /\ p.pc = "replace" => p.drive \in DriveAt(p.letter)
    /\ p.pc \in Disconnecting /\ p.do = "click" => FindPDO(p.image) # {}
    /\ p.pc \in Disconnecting /\ p.do = "unmountLetter" =>
          \E d \in FindPDO(p.image) : p.letter \in {drive[d].letter, NoLetter}
    /\ p.pc \in {"compare", "eject"} => FindPDO(p.image) \cap DriveAt(p.letter) # {}

\* One drive after the other has lost its disc.
EachSoFar(p) ==
    /\ p.pc \in Disconnecting \cup {"next"}
    /\ \A shown \in p.todo : FindPDO(KernelName(shown)) # {}
    /\ p.pc = "next" => \A d \in Drive : drive[d].loaded => Shown(drive[d].name) \in p.todo
    /\ p.pc # "next" =>
          /\ FindPDO(p.image) # {} /\ Shown(p.image) \notin p.todo
          /\ \A d \in Drive : drive[d].loaded =>
                drive[d].name = p.image \/ Shown(drive[d].name) \in p.todo

Followed(t) ==
    LET b == calm[t]
        p == tool[t]
    IN b # Lost =>
         /\ p.pc # "idle" /\ Sound(b)
         /\ p.pc \in Awaiting \/ p.do = "unmountEach" \/ drive = b
         /\ Waits(b, p) /\ Found(b, p)
         /\ p.do = "unmountEach" => EachSoFar(p)

Calm == \A t \in Tool : Followed(t)

--------------------------------------------------------------------------------
(* What others do to a program that is followed. *)

LEMMA MovedFollowed ==
    ASSUME IInv, NEW u \in Tool, Moved(u), Followed(u),
           UNCHANGED drive, calm'[u] = calm[u]
    PROVE  Followed(u)'
PROOF
  <1> SUFFICES ASSUME calm[u] # Lost
               PROVE  Followed(u)'
    BY DEF Followed
  <1>1. CASE tool'[u] = tool[u]
    BY <1>1 DEF Followed, Waits, Found, EachSoFar, FindPDO, DriveAt
  <1>2. CASE tool'[u] # tool[u]
    <2>1. /\ tool'[u].pc \in {"linked", "named", "attached", "serviced"}
          /\ tool[u].pc \in {"linked", "named"} <=> tool'[u].pc \in {"linked", "named"}
          /\ tool[u].pc \in {"attached", "serviced"} <=> tool'[u].pc \in {"attached", "serviced"}
          /\ tool'[u].do = tool[u].do /\ tool'[u].image = tool[u].image
          /\ tool'[u].letter = tool[u].letter /\ tool'[u].drive = tool[u].drive
      BY <1>2 DEF IInv, ToolRecord, Moved
    <2>2. tool[u].do \in {"mount", "remount"} /\ Sound(calm[u])
      BY <2>1 DEF IInv, Fits, InItsSteps, Followed, Awaiting, Mounting
    <2>3. Waits(calm[u], tool[u])'
      BY <2>1 DEF Followed, Waits, Awaiting
    <2>4. Found(calm[u], tool[u])'
      BY <2>1 DEF Found, Disconnecting
    <2> QED
      BY <2>1, <2>2, <2>3, <2>4 DEF Followed, Awaiting
  <1> QED
    BY <1>1, <1>2

\* After a step of program t, or of Windows, u is followed only if it was before.
LEMMA StillWatched ==
    ASSUME IInv, NEW u \in Tool, Moved(u), NEW ts, Watched(ts), calm'[u] # Lost
    PROVE  calm'[u] = calm[u] /\ (u \in ts \/ UNCHANGED drive)
PROOF
  <1>1. tool[u].pc # "idle"
    BY MovedIdle DEF Watched
  <1> QED
    BY <1>1 DEF Watched

LEMMA OthersFollowed ==
    ASSUME IInv, Calm, NEW t \in Tool, ToolStep(t), NEW u \in Tool \ {t}
    PROVE  Followed(u)'
PROOF
  <1> SUFFICES ASSUME calm'[u] # Lost
               PROVE  Followed(u)'
    BY DEF Followed
  <1>1. Moved(u)
    BY OthersMove
  <1>2. calm'[u] = calm[u] /\ UNCHANGED drive
    BY <1>1, StillWatched DEF ToolStep
  <1> QED
    BY <1>1, <1>2, MovedFollowed DEF Calm

LEMMA WaitingFollowed ==
    ASSUME IInv, Calm, NEW d \in Drive, LinkCreated(d) \/ Replaced(d),
           NEW u \in Waiting(d), calm'[u] = calm[u]
    PROVE  Followed(u)'
PROOF
  <1> SUFFICES ASSUME calm[u] # Lost
               PROVE  Followed(u)'
    BY DEF Followed
  <1> DEFINE b == calm[u]
             p == tool[u]
  <1>1. u \in Tool /\ p.pc \in {"linked", "attached"} /\ p.drive = d /\ Fits(u, p)
    BY DEF Waiting, IInv
  <1>2. /\ p.do \in {"mount", "remount"} /\ p.image \in Image /\ p.image # NoImage
        /\ Sound(b) /\ Waits(b, p)
    BY <1>1, ToolsAssumption DEF Fits, InItsSteps, Followed, Calm, Awaiting, Mounting
  <1>3. Moved(u)
    BY <1>1, SignalMoves DEF LinkCreated, Replaced
  <1>4. /\ tool'[u].pc \in {"linked", "named", "attached", "serviced"}
        /\ p.pc = "linked" <=> tool'[u].pc \in {"linked", "named"}
        /\ p.pc = "attached" <=> tool'[u].pc \in {"attached", "serviced"}
        /\ tool'[u].do = p.do /\ tool'[u].image = p.image
        /\ tool'[u].letter = p.letter /\ tool'[u].drive = p.drive
    BY <1>1, <1>3 DEF IInv, ToolRecord, Moved
  <1>5. /\ drive'[d].here
        /\ p.pc = "linked" => drive'[d].image = p.image /\ drive'[d].loaded
                              /\ drive'[d].next = NoImage
        /\ p.pc = "attached" => p.image = IF drive'[d].next = NoImage THEN drive'[d].image
                                          ELSE drive'[d].next
        /\ \A e \in Drive \ {d} : drive'[e] = drive[e]
    <2>1. CASE LinkCreated(d)
      <3>1. PICK l : drive' = [drive EXCEPT ![d].letter = l]
        BY <2>1 DEF LinkCreated
      <3> QED
        BY <1>1, <1>2, <2>1, <3>1 DEF LinkCreated, Waits, IInv, Sound, DriveRecord
    <2>2. CASE Replaced(d)
      <3>1. p.pc # "linked"
        BY <1>1, <1>2, <2>2 DEF Replaced, Waits
      <3> QED
        BY <1>1, <1>2, <2>2, <3>1 DEF Replaced, Waits, IInv, Sound, DriveRecord
    <2> QED
      BY <2>1, <2>2
  <1>6. Waits(calm[u], tool[u])'
    BY <1>1, <1>2, <1>4, <1>5 DEF Waits, Awaiting
  <1>7. Found(calm[u], tool[u])'
    BY <1>4 DEF Found, Disconnecting
  <1> QED
    BY <1>2, <1>4, <1>6, <1>7 DEF Followed, Awaiting

LEMMA WindowsFollowed ==
    ASSUME IInv, Calm, NEW d \in Drive, WindowsStep(d), NEW u \in Tool
    PROVE  Followed(u)'
PROOF
  <1> SUFFICES ASSUME calm'[u] # Lost
               PROVE  Followed(u)'
    BY DEF Followed
  <1>1. Moved(u)
    BY WindowsMoves
  <1>2. CASE UNCHANGED drive
    <2>1. calm'[u] = calm[u]
      BY <1>1, StillWatched DEF WindowsStep
    <2> QED
      BY <1>1, <1>2, <2>1, MovedFollowed DEF Calm
  <1>3. CASE ~UNCHANGED drive
    <2>1. CASE (LinkCreated(d) \/ Replaced(d)) /\ Watched(Waiting(d))
      <3>1. calm'[u] = calm[u] /\ u \in Waiting(d)
        BY <1>1, <1>3, <2>1, StillWatched
      <3> QED
        BY <2>1, <3>1, WaitingFollowed
    <2>2. CASE (LinkDeleted(d) \/ Ejected(d) \/ CleanedUp(d)) /\ Watched({})
      BY <1>1, <1>3, <2>2, StillWatched
    <2> QED
      BY <2>1, <2>2 DEF WindowsStep
  <1> QED
    BY <1>2, <1>3

--------------------------------------------------------------------------------
(* The program itself goes on. *)

\* What is known before a step of a followed program, which began with drives b.
LEMMA BeforeStep ==
    ASSUME IInv, Calm, NEW t \in Tool, calm[t] # Lost
    PROVE  /\ tool[t].pc # "idle" /\ Sound(calm[t]) /\ Sound(drive)
           /\ tool[t] \in ToolRecord /\ InItsSteps(tool[t])
           /\ tool[t].pc \notin Awaiting /\ tool[t].do # "unmountEach" => drive = calm[t]
           /\ Waits(calm[t], tool[t]) /\ Found(calm[t], tool[t])
           /\ tool[t].do = "unmountEach" => EachSoFar(tool[t])
  BY DEF IInv, Fits, Calm, Followed

LEMMA StartFollowed ==
    ASSUME IInv, NEW t \in Tool, Start(t), calm'[t] = drive
    PROVE  Followed(t)'
PROOF
  <1>1. PICK c \in Commands[t] :
          tool' = [tool EXCEPT ![t] =
                    [Idle EXCEPT !.pc = FirstStep(c.do), !.do = c.do, !.image = c.image,
                                 !.letter = c.letter, !.wait = c.wait,
                                 !.todo = IF c.do = "unmountEach" THEN ListedNames ELSE {}]]
    BY DEF Start
  <1>2. c \in Command
    BY ToolsAssumption
  <1>3. /\ tool'[t].pc = FirstStep(c.do) /\ tool'[t].do = c.do
        /\ c.do = "unmountEach" => tool'[t].todo = ListedNames
    BY <1>1, <1>2 DEF Idle, IInv, ToolRecord
  <1>4. /\ tool'[t].pc \in {"present", "soft", "find", "next", "bounce"}
        /\ tool'[t].do = "unmountEach" <=> tool'[t].pc = "next"
        /\ tool'[t].pc = "soft" => tool'[t].do \in {"unmount", "unmountAll"}
    BY <1>2, <1>3 DEF FirstStep, Command
  <1>5. drive' = drive /\ Sound(drive)
    BY DEF Start, IInv
  <1>6. Waits(calm[t], tool[t])' /\ Found(calm[t], tool[t])'
    BY <1>4 DEF Waits, Found, Awaiting, Disconnecting
  <1>7. ASSUME tool'[t].do = "unmountEach"
        PROVE  EachSoFar(tool[t])'
    <2>1. tool'[t].pc = "next" /\ tool'[t].todo = ListedNames
      BY <1>3, <1>4, <1>7
    <2>2. \A shown \in ListedNames : FindPDO(KernelName(shown)) # {}
      BY KernelNames DEF ListedNames, FindPDO
    <2>3. \A d \in Drive : drive[d].loaded => Shown(drive[d].name) \in ListedNames
      BY <1>5 DEF Sound, Named, ListedNames, NoSuchDrive
    <2> QED
      BY <1>5, <2>1, <2>2, <2>3 DEF EachSoFar, FindPDO
  <1> QED
    BY <1>4, <1>5, <1>6, <1>7 DEF Followed

LEMMA PresentFollowed ==
    ASSUME IInv, Calm, NEW t \in Tool, Present(t), calm[t] # Lost,
           calm'[t] = calm[t], tool'[t].pc # "idle"
    PROVE  Followed(t)'
PROOF
  <1>1. tool[t].pc = "present" /\ drive' = drive
    BY DEF Present, At
  <1>2. /\ tool[t].do \in {"click", "remount", "mount"}
        /\ drive = calm[t] /\ Sound(calm[t]) /\ tool[t] \in ToolRecord
    BY <1>1, BeforeStep DEF InItsSteps, Mounting, Awaiting
  <1>3. \E s \in {"soft", "drive", "plugin"} :
           /\ tool' = [tool EXCEPT ![t].pc = s]
           /\ s = "soft" => FindPDO(tool[t].image) # {}
           /\ s = "plugin" => tool[t].letter = NoLetter
    BY DEF Present, Finish, Go, Idle, IInv
  <1>4. /\ tool'[t].pc \in {"soft", "drive", "plugin"}
        /\ tool'[t].do = tool[t].do
        /\ tool'[t].pc = "soft" => FindPDO(tool'[t].image) # {}
        /\ tool'[t].pc = "plugin" => tool'[t].letter = NoLetter
    BY <1>2, <1>3 DEF IInv, ToolRecord
  <1>5. Waits(calm[t], tool[t])'
    BY <1>4 DEF Waits, Awaiting
  <1>6. Found(calm[t], tool[t])'
    BY <1>1, <1>2, <1>4 DEF Found, Disconnecting, FindPDO, DriveAt
  <1> QED
    BY <1>1, <1>2, <1>4, <1>5, <1>6 DEF Followed

\* The new drive has no letter that the program was run for.
LEMMA PluginFollowed ==
    ASSUME IInv, Calm, NEW t \in Tool, Plugin(t), calm[t] # Lost,
           calm'[t] = calm[t], tool'[t].pc # "idle"
    PROVE  Followed(t)'
PROOF
  <1>1. tool[t].pc = "plugin"
    BY DEF Plugin, At
  <1>2. /\ tool[t].do \in {"click", "mount"} /\ tool[t].image \in Image
        /\ drive = calm[t] /\ Sound(calm[t]) /\ tool[t] \in ToolRecord
        /\ Lettered(calm[t], tool[t].letter) = {}
    BY <1>1, BeforeStep DEF InItsSteps, Mounting, Awaiting, Found, DriveAt, Lettered
  <1>3. ~(Finish(t, "failed") \/ Finish(t, "ok"))
    BY DEF Finish, Idle, IInv
  <1>4. /\ FindPDO(tool[t].image) = {}
        /\ drive' = [drive EXCEPT ![Fresh] =
             [NoSuchDrive EXCEPT !.here = TRUE, !.name = tool[t].image,
                !.image = tool[t].image, !.loaded = TRUE,
                !.soft = ~(tool[t].do = "click" /\ tool[t].image \in Profiled)]]
        /\ tool' = [tool EXCEPT ![t].pc = "linked", ![t].drive = Fresh]
    BY <1>3 DEF Plugin
  <1>5. Fresh \in Drive /\ ~drive[Fresh].here
    BY <1>2, <1>4, FreshIsFree
  <1> DEFINE f == Fresh
  <1>6. /\ drive'[f].here /\ drive'[f].image = tool[t].image /\ drive'[f].loaded
        /\ drive'[f].next = NoImage /\ \A e \in Drive \ {f} : drive'[e] = drive[e]
    BY <1>4, <1>5 DEF NoSuchDrive, IInv, Sound
  <1>7. /\ tool'[t].pc = "linked" /\ tool'[t].drive = f /\ tool'[t].do = tool[t].do
        /\ tool'[t].image = tool[t].image /\ tool'[t].letter = tool[t].letter
    BY <1>2, <1>4 DEF IInv, ToolRecord
  <1> HIDE DEF f
  <1>8. Waits(calm[t], tool[t])'
    BY <1>2, <1>5, <1>6, <1>7 DEF Waits, f
  <1>9. Found(calm[t], tool[t])'
    BY <1>7 DEF Found, Disconnecting
  <1> QED
    BY <1>2, <1>7, <1>8, <1>9 DEF Followed, Awaiting

LEMMA OpenDriveFollowed ==
    ASSUME IInv, Calm, NEW t \in Tool, OpenDrive(t), calm[t] # Lost,
           calm'[t] = calm[t], tool'[t].pc # "idle"
    PROVE  Followed(t)'
PROOF
  <1>1. tool[t].pc = "drive" /\ drive' = drive
    BY DEF OpenDrive, At
  <1>2. /\ tool[t].do \in {"remount", "mount"}
        /\ drive = calm[t] /\ Sound(calm[t]) /\ tool[t] \in ToolRecord
    BY <1>1, BeforeStep DEF InItsSteps, Mounting, Awaiting
  <1>3. \/ /\ DriveAt(tool[t].letter) = {}
           /\ tool' = [tool EXCEPT ![t].pc = "plugin"]
        \/ \E d \in DriveAt(tool[t].letter) :
              tool' = [tool EXCEPT ![t].pc = "replace", ![t].drive = d]
    BY DEF OpenDrive, Finish, Go, Idle, IInv
  <1>4. /\ tool'[t].do = tool[t].do /\ tool'[t].letter = tool[t].letter
        /\ \/ tool'[t].pc = "plugin" /\ DriveAt(tool[t].letter) = {}
           \/ tool'[t].pc = "replace" /\ tool'[t].drive \in DriveAt(tool[t].letter)
    BY <1>2, <1>3 DEF IInv, ToolRecord
  <1>5. Waits(calm[t], tool[t])'
    BY <1>4 DEF Waits, Awaiting
  <1>6. Found(calm[t], tool[t])'
    BY <1>1, <1>2, <1>4 DEF Found, Disconnecting, DriveAt
  <1> QED
    BY <1>1, <1>2, <1>4, <1>5, <1>6 DEF Followed

LEMMA ReplaceFollowed ==
    ASSUME IInv, Calm, NEW t \in Tool, Replace(t), calm[t] # Lost,
           calm'[t] = calm[t], tool'[t].pc # "idle"
    PROVE  Followed(t)'
PROOF
  <1>1. tool[t].pc = "replace"
    BY DEF Replace, At
  <1> DEFINE d == tool[t].drive
  <1>2. /\ tool[t].do \in {"remount", "mount"} /\ tool[t].image \in Image
        /\ tool[t].image # NoImage
        /\ drive = calm[t] /\ Sound(calm[t]) /\ tool[t] \in ToolRecord
        /\ d \in Lettered(calm[t], tool[t].letter) /\ d \in Drive
    BY <1>1, BeforeStep, ToolsAssumption
       DEF InItsSteps, Mounting, Awaiting, Found, DriveAt, Lettered
  <1>3. ~Finish(t, "failed")
    BY DEF Finish, Idle, IInv
  <1>4. drive' = [drive EXCEPT ![d].loaded = FALSE, ![d].next = tool[t].image]
    BY <1>3 DEF Replace
  <1>5. drive'[d].next = tool[t].image /\ \A e \in Drive \ {d} : drive'[e] = drive[e]
    BY <1>2, <1>4 DEF IInv, Sound, DriveRecord
  <1>6. tool'[t] = [tool[t] EXCEPT !.pc = "attached"]
    <2>1. Signalled(d, "attached", "serviced")[t] = tool[t]
      BY <1>1 DEF Signalled
    <2>2. tool'[t] = IF tool[t].wait = "no" THEN Idle ELSE [tool[t] EXCEPT !.pc = "attached"]
      BY <1>3, <2>1 DEF Replace, Signalled
    <2> QED
      BY <2>2 DEF Idle
  <1>7. /\ tool'[t].pc = "attached" /\ tool'[t].drive = d /\ tool'[t].do = tool[t].do
        /\ tool'[t].image = tool[t].image /\ tool'[t].letter = tool[t].letter
    BY <1>2, <1>6 DEF ToolRecord
  <1> HIDE DEF d
  <1>8. Waits(calm[t], tool[t])'
    BY <1>2, <1>5, <1>7 DEF Waits
  <1>9. Found(calm[t], tool[t])'
    BY <1>7 DEF Found, Disconnecting
  <1> QED
    BY <1>2, <1>7, <1>8, <1>9 DEF Followed, Awaiting

LEMMA FindFollowed ==
    ASSUME IInv, Calm, NEW t \in Tool, Find(t), calm[t] # Lost,
           calm'[t] = calm[t], tool'[t].pc # "idle"
    PROVE  Followed(t)'
PROOF
  <1>1. tool[t].pc = "find" /\ drive' = drive
    BY DEF Find, At
  <1>2. /\ tool[t].do = "unmountLetter"
        /\ drive = calm[t] /\ Sound(calm[t]) /\ tool[t] \in ToolRecord
    BY <1>1, BeforeStep DEF InItsSteps, Awaiting
  <1>3. PICK d \in DriveAt(tool[t].letter) :
           tool' = [tool EXCEPT ![t].pc = "soft", ![t].image = drive[d].name]
    BY KernelNames DEF Find, Finish, Idle, IInv
  <1>4. /\ tool'[t].pc = "soft" /\ tool'[t].do = tool[t].do
        /\ tool'[t].letter = tool[t].letter /\ tool'[t].image = drive[d].name
    BY <1>2, <1>3 DEF IInv, ToolRecord
  <1>5. Waits(calm[t], tool[t])'
    BY <1>4 DEF Waits, Awaiting
  <1>6. Found(calm[t], tool[t])'
    <2>1. (\E e \in FindPDO(tool[t].image) : tool[t].letter \in {drive[e].letter, NoLetter})'
      BY <1>1, <1>4 DEF DriveAt, FindPDO
    <2> QED
      BY <1>2, <1>4, <2>1 DEF Found
  <1> QED
    BY <1>1, <1>2, <1>4, <1>5, <1>6 DEF Followed

--------------------------------------------------------------------------------
(* Unmounting: the drive of that name loses its disc, and no other drive changes. *)

LEMMA SoftUnmounts ==
    ASSUME IInv, NEW t \in Tool, Soft(t), tool'[t].pc # "list"
    PROVE  /\ Unmounted(drive, drive', tool[t].image)
           /\ FindPDO(tool[t].image) # {} /\ Disconnected(t, "ok")
PROOF
  <1> DEFINE found == {d \in FindPDO(tool[t].image) : drive[d].soft}
  <1>1. found # {} /\ drive' = Removed(found) /\ Disconnected(t, "ok")
    BY DEF Soft, Go, IInv, ToolRecord
  <1>2. found = FindPDO(tool[t].image)
    BY <1>1 DEF FindPDO, IInv, Sound, OneDrivePerName
  <1> QED
    BY <1>1, <1>2 DEF Unmounted, Removed, FindPDO, NoSuchDrive

LEMMA EjectUnmounts ==
    ASSUME IInv, NEW t \in Tool, Eject(t), tool'[t].pc # "plugout",
           FindPDO(tool[t].image) \cap DriveAt(tool[t].letter) # {}
    PROVE  Unmounted(drive, drive', tool[t].image) /\ Disconnected(t, "ok")
PROOF
  <1>1. ~GoPlugout(t)
    BY DEF GoPlugout, IInv, ToolRecord
  <1>2. PICK d \in DriveAt(tool[t].letter) :
          drive' = [drive EXCEPT ![d].loaded = FALSE] /\ Disconnected(t, "ok")
    BY <1>1 DEF Eject
  <1>3. PICK e \in FindPDO(tool[t].image) : e \in DriveAt(tool[t].letter)
    OBVIOUS
  <1>4. d = e /\ d \in Drive /\ drive[d].here /\ drive[d].name = tool[t].image
    BY <1>3 DEF DriveAt, FindPDO, IInv, Sound, OneDrivePerLetter
  <1>5. ~drive'[d].loaded /\ \A x \in Drive \ {d} : drive'[x] = drive[x]
    BY <1>2, <1>4 DEF IInv, Sound, DriveRecord
  <1>6. \A x \in Drive : drive[x].here /\ drive[x].name = tool[t].image => x = d
    BY <1>4 DEF IInv, Sound, OneDrivePerName
  <1> QED
    BY <1>2, <1>4, <1>5, <1>6 DEF Unmounted

LEMMA PlugoutUnmounts ==
    ASSUME IInv, NEW t \in Tool, Plugout(t), tool[t].image # AllImages
    PROVE  /\ Unmounted(drive, drive', tool[t].image)
           /\ Disconnected(t, IF FindPDO(tool[t].image) = {} THEN "failed" ELSE "ok")
PROOF
  <1>1. drive' = Removed(FindPDO(tool[t].image))
    BY DEF Plugout, Matching
  <1>2. Disconnected(t, IF FindPDO(tool[t].image) = {} THEN "failed" ELSE "ok")
    BY DEF Plugout, Matching
  <1> QED
    BY <1>1, <1>2 DEF Unmounted, Removed, FindPDO, NoSuchDrive

\* The drive manager goes on to the next drive.
LEMMA DisconnectedFollowed ==
    ASSUME IInv, Calm, NEW t \in Tool, tool[t].pc \in Disconnecting,
           NEW r, Disconnected(t, r), Unmounted(drive, drive', tool[t].image),
           calm[t] # Lost, calm'[t] = calm[t], tool'[t].pc # "idle"
    PROVE  Followed(t)'
PROOF
  <1>1. /\ tool[t].do = "unmountEach"
        /\ tool' = [tool EXCEPT ![t].pc = "next", ![t].image = NoImage,
                                ![t].letter = NoLetter]
    BY DEF Disconnected, Finish, Idle, IInv
  <1>2. /\ tool'[t].pc = "next" /\ tool'[t].do = "unmountEach"
        /\ tool'[t].todo = tool[t].todo
    BY <1>1 DEF IInv, ToolRecord
  <1>3. /\ Sound(calm[t]) /\ Sound(drive) /\ EachSoFar(tool[t]) /\ tool[t].pc # "next"
        /\ tool[t].todo \subseteq {Shown(i) : i \in Image}
    BY <1>1, BeforeStep DEF ToolRecord, Disconnecting
  <1>4. ASSUME NEW shown \in tool[t].todo
        PROVE  \E d \in Drive : drive'[d].here /\ drive'[d].name = KernelName(shown)
    <2>1. PICK d \in Drive : drive[d].here /\ drive[d].name = KernelName(shown)
      BY <1>3 DEF EachSoFar, FindPDO
    <2>2. KernelName(shown) # tool[t].image
      BY <1>3, KernelNames DEF EachSoFar
    <2> QED
      BY <2>1, <2>2 DEF Unmounted
  <1>5. ASSUME NEW d \in Drive, drive'[d].loaded
        PROVE  Shown(drive'[d].name) \in tool[t].todo
    <2>1. drive'[d] = drive[d]
      BY <1>5 DEF Unmounted
    <2>2. drive[d].here
      BY <1>3, <1>5, <2>1 DEF Sound, Named, NoSuchDrive
    <2>3. drive[d].name # tool[t].image
      BY <1>5, <2>2 DEF Unmounted
    <2> QED
      BY <1>3, <1>5, <2>1, <2>3 DEF EachSoFar
  <1>6. EachSoFar(tool[t])'
    BY <1>2, <1>4, <1>5 DEF EachSoFar, FindPDO
  <1>7. Waits(calm[t], tool[t])' /\ Found(calm[t], tool[t])'
    BY <1>2 DEF Waits, Found, Awaiting, Disconnecting
  <1> QED
    BY <1>2, <1>3, <1>6, <1>7 DEF Followed

\* From one step of a disconnection to the next, nothing changes.
LEMMA DisconnectingFollowed ==
    ASSUME IInv, Calm, NEW t \in Tool, tool[t].pc \in Disconnecting,
           NEW s \in Disconnecting, NEW l,
           tool' = [tool EXCEPT ![t].pc = s, ![t].letter = l], UNCHANGED drive,
           tool[t].do = "unmountLetter" =>
              \E d \in FindPDO(tool[t].image) : l \in {drive[d].letter, NoLetter},
           s \in {"compare", "eject"} => FindPDO(tool[t].image) \cap DriveAt(l) # {},
           calm[t] # Lost, calm'[t] = calm[t]
    PROVE  Followed(t)'
PROOF
  <1>1. /\ tool'[t].pc = s /\ tool'[t].do = tool[t].do /\ tool'[t].image = tool[t].image
        /\ tool'[t].letter = l /\ tool'[t].todo = tool[t].todo
        /\ s # "idle" /\ s \notin Awaiting \cup {"plugin", "replace", "next"}
    BY DEF IInv, ToolRecord, Disconnecting, Awaiting
  <1>2. /\ Sound(calm[t]) /\ tool[t].pc \notin Awaiting \cup {"next"}
        /\ tool[t].do # "unmountEach" => drive = calm[t]
        /\ Found(calm[t], tool[t])
        /\ tool[t].do = "unmountEach" => EachSoFar(tool[t])
    BY BeforeStep DEF Disconnecting, Awaiting
  <1>3. Waits(calm[t], tool[t])'
    BY <1>1 DEF Waits, Awaiting
  <1>4. \A i : FindPDO(i)' = FindPDO(i) /\ DriveAt(i)' = DriveAt(i)
    BY DEF FindPDO, DriveAt
  <1>5. Found(calm[t], tool[t])'
    BY <1>1, <1>2, <1>4 DEF Found
  <1>6. tool[t].do = "unmountEach" => EachSoFar(tool[t])'
    BY <1>1, <1>2, <1>4 DEF EachSoFar
  <1> QED
    BY <1>1, <1>2, <1>3, <1>5, <1>6 DEF Followed

LEMMA SoftFollowed ==
    ASSUME IInv, Calm, NEW t \in Tool, Soft(t), calm[t] # Lost,
           calm'[t] = calm[t], tool'[t].pc # "idle"
    PROVE  Followed(t)'
PROOF
  <1>1. tool[t].pc = "soft" /\ tool[t] \in ToolRecord /\ Found(calm[t], tool[t])
    BY BeforeStep DEF Soft, At
  <1>2. CASE tool'[t].pc = "list"
    <2>0. ~Disconnected(t, "ok")
      BY <1>2 DEF Disconnected, Finish, Idle, IInv, ToolRecord
    <2>1. drive' = drive /\ tool' = [tool EXCEPT ![t].pc = "list"]
      BY <2>0 DEF Soft, Go
    <2>2. tool' = [tool EXCEPT ![t].pc = "list", ![t].letter = tool[t].letter]
      BY <1>1, <2>1 DEF IInv, ToolRecord
    <2> QED
      BY <1>1, <2>1, <2>2, DisconnectingFollowed DEF Found, Disconnecting
  <1>3. CASE tool'[t].pc # "list"
    BY <1>1, <1>3, SoftUnmounts, DisconnectedFollowed DEF Disconnecting
  <1> QED
    BY <1>2, <1>3

\* The drive of that name has one letter.
LEMMA ListOneFollowed ==
    ASSUME IInv, Calm, NEW t \in Tool, ListOne(t), calm[t] # Lost,
           calm'[t] = calm[t], tool'[t].pc # "idle"
    PROVE  Followed(t)'
PROOF
  <1> DEFINE letters == {drive[d].letter : d \in FindPDO(tool[t].image)}
  <1>1. /\ tool[t].pc = "list" /\ tool[t] \in ToolRecord /\ Found(calm[t], tool[t])
        /\ drive' = drive
    BY BeforeStep DEF ListOne, At
  <1>2. CASE GoPlugout(t)
    <2>1. tool[t].do = "unmountLetter" => FindPDO(tool[t].image) # {}
      BY <1>1 DEF Found, Disconnecting
    <2> QED
      BY <1>1, <1>2, <2>1, DisconnectingFollowed DEF GoPlugout, Disconnecting
  <1>3. ASSUME NEW l \in letters, ~(letters \subseteq {NoLetter}),
               tool' = [tool EXCEPT ![t].pc = "compare", ![t].letter = l]
        PROVE  Followed(t)'
    <2>1. PICK d \in FindPDO(tool[t].image) : drive[d].letter = l
      OBVIOUS
    <2>2. \A e \in FindPDO(tool[t].image) : e = d
      BY <2>1 DEF FindPDO, IInv, Sound, OneDrivePerName
    <2>3. l # NoLetter
      BY <1>3, <2>1, <2>2
    <2>4. d \in FindPDO(tool[t].image) \cap DriveAt(l)
      BY <2>1, <2>3 DEF FindPDO, DriveAt
    <2> HIDE DEF letters
    <2> QED
      BY <1>1, <1>3, <2>1, <2>4, DisconnectingFollowed DEF Disconnecting
  <1> QED
    BY <1>2, <1>3 DEF ListOne

LEMMA CompareFollowed ==
    ASSUME IInv, Calm, NEW t \in Tool, Compare(t), calm[t] # Lost,
           calm'[t] = calm[t], tool'[t].pc # "idle"
    PROVE  Followed(t)'
PROOF
  <1>1. /\ tool[t].pc = "compare" /\ tool[t] \in ToolRecord /\ Found(calm[t], tool[t])
        /\ drive' = drive
    BY BeforeStep DEF Compare, At
  <1>2. FindPDO(tool[t].image) # {}
    BY <1>1 DEF Found
  <1>3. CASE GoPlugout(t)
    BY <1>1, <1>2, <1>3, DisconnectingFollowed DEF GoPlugout, Disconnecting
  <1>4. CASE Go(t, "eject")
    <2>1. tool' = [tool EXCEPT ![t].pc = "eject", ![t].letter = tool[t].letter]
      BY <1>1, <1>4 DEF Go, IInv, ToolRecord
    <2> QED
      BY <1>1, <2>1, DisconnectingFollowed DEF Found, Disconnecting
  <1> QED
    BY <1>3, <1>4 DEF Compare

LEMMA EjectFollowed ==
    ASSUME IInv, Calm, NEW t \in Tool, Eject(t), calm[t] # Lost,
           calm'[t] = calm[t], tool'[t].pc # "idle"
    PROVE  Followed(t)'
PROOF
  <1>1. tool[t].pc = "eject" /\ tool[t] \in ToolRecord /\ Found(calm[t], tool[t])
    BY BeforeStep DEF Eject, At
  <1>2. FindPDO(tool[t].image) \cap DriveAt(tool[t].letter) # {}
    BY <1>1 DEF Found
  <1>3. CASE tool'[t].pc = "plugout"
    <2>1. GoPlugout(t) /\ drive' = drive
      BY <1>1, <1>3 DEF Eject, Disconnected, Finish, Idle, IInv, ToolRecord
    <2> QED
      BY <1>1, <1>2, <2>1, DisconnectingFollowed DEF GoPlugout, Disconnecting
  <1>4. CASE tool'[t].pc # "plugout"
    BY <1>1, <1>2, <1>4, EjectUnmounts, DisconnectedFollowed DEF Disconnecting
  <1> QED
    BY <1>3, <1>4

LEMMA PlugoutFollowed ==
    ASSUME IInv, Calm, NEW t \in Tool, Plugout(t), calm[t] # Lost,
           calm'[t] = calm[t], tool'[t].pc # "idle"
    PROVE  Followed(t)'
PROOF
  <1>1. tool[t].pc = "plugout"
    BY DEF Plugout, At
  <1>2. tool[t].do = "unmountEach"
    BY DEF Plugout, Disconnected, Finish, Idle, IInv
  <1>3. tool[t].image # AllImages
    BY <1>1, <1>2, BeforeStep, ToolsAssumption DEF InItsSteps, Disconnecting
  <1> QED
    BY <1>1, <1>3, PlugoutUnmounts, DisconnectedFollowed DEF Disconnecting

LEMMA NextNameFollowed ==
    ASSUME IInv, Calm, NEW t \in Tool, NextName(t), calm[t] # Lost,
           calm'[t] = calm[t], tool'[t].pc # "idle"
    PROVE  Followed(t)'
PROOF
  <1>1. tool[t].pc = "next" /\ drive' = drive
    BY DEF NextName, At
  <1>2. /\ tool[t].do = "unmountEach" /\ EachSoFar(tool[t])
        /\ Sound(calm[t]) /\ tool[t] \in ToolRecord
    BY <1>1, BeforeStep DEF InItsSteps
  <1>3. PICK shown \in tool[t].todo :
          tool' = [tool EXCEPT ![t].pc = "soft", ![t].todo = @ \ {shown},
                               ![t].image = KernelName(shown)]
    BY DEF NextName, Finish, Idle, IInv
  <1>4. Shown(KernelName(shown)) = shown
    BY <1>2, KernelNames DEF ToolRecord
  <1>5. /\ tool'[t].pc = "soft" /\ tool'[t].do = "unmountEach"
        /\ tool'[t].image = KernelName(shown) /\ tool'[t].todo = tool[t].todo \ {shown}
    BY <1>2, <1>3 DEF IInv, ToolRecord
  <1>6. ASSUME NEW d \in Drive, drive[d].loaded
        PROVE  drive[d].name = KernelName(shown) \/ Shown(drive[d].name) \in tool[t].todo \ {shown}
    <2>1. Shown(drive[d].name) \in tool[t].todo
      BY <1>1, <1>2, <1>6 DEF EachSoFar
    <2> QED
      BY <2>1, KernelNames
  <1>7. EachSoFar(tool[t])'
    BY <1>1, <1>2, <1>4, <1>5, <1>6 DEF EachSoFar, FindPDO, Disconnecting
  <1>8. Waits(calm[t], tool[t])' /\ Found(calm[t], tool[t])'
    BY <1>5 DEF Waits, Found, Awaiting
  <1> QED
    BY <1>2, <1>5, <1>7, <1>8 DEF Followed

LEMMA OwnStepFollowed ==
    ASSUME IInv, Calm, NEW t \in Tool, ToolStep(t)
    PROVE  Followed(t)'
PROOF
  <1> SUFFICES ASSUME calm'[t] # Lost
               PROVE  Followed(t)'
    BY DEF Followed
  <1>1. /\ tool'[t].pc # "idle"
        /\ calm'[t] = IF tool[t].pc = "idle" THEN drive ELSE calm[t]
    BY DEF ToolStep, Watched
  <1>2. ~(Finish(t, "ok") \/ Finish(t, "failed"))
    BY <1>1 DEF Finish, Idle, IInv
  <1>3. Start(t) \/ (Run(t) /\ ~LinkTimeout(t) /\ ~Bounce(t))
    BY <1>2 DEF ToolStep, StartFails, Linked, AttachedToNothing, LinkTimeout, Bounce
  <1>4. CASE Start(t)
    BY <1>1, <1>4, StartFollowed DEF Start, At
  <1>5. CASE Run(t) /\ ~LinkTimeout(t) /\ ~Bounce(t)
    <2>1. tool[t].pc # "idle"
      BY <1>5 DEF Run, At, Present, Cancelled, Plugin, OpenDrive, Replace, Attached,
                  AttachTimeout, Find, Soft, ListOne, Compare, Eject, Plugout, NextName
    <2>2. ~Cancelled(t) /\ ~Attached(t) /\ ~AttachTimeout(t)
      BY <1>2 DEF Cancelled, Attached, AttachTimeout
    <2> QED
      BY <1>1, <1>5, <2>1, <2>2, PresentFollowed, PluginFollowed, OpenDriveFollowed,
         ReplaceFollowed, FindFollowed, SoftFollowed, ListOneFollowed, CompareFollowed,
         EjectFollowed, PlugoutFollowed, NextNameFollowed
         DEF Run
  <1> QED
    BY <1>3, <1>4, <1>5

LEMMA InitCalm == Init => Calm
  BY DEF Init, Calm, Followed

LEMMA NextCalm == IInv /\ Calm /\ [Next]_vars => Calm'
PROOF
  <1> SUFFICES ASSUME IInv, Calm, [Next]_vars
               PROVE  Calm'
    OBVIOUS
  <1>1. ASSUME NEW t \in Tool, ToolStep(t)
        PROVE  Calm'
    BY <1>1, OwnStepFollowed, OthersFollowed DEF Calm
  <1>2. ASSUME NEW d \in Drive, WindowsStep(d)
        PROVE  Calm'
    BY <1>2, WindowsFollowed DEF Calm
  <1>3. CASE UNCHANGED vars
    BY <1>3, MovedFollowed DEF vars, Calm, Moved
  <1> QED
    BY <1>1, <1>2, <1>3 DEF Next

--------------------------------------------------------------------------------
(* What a program that nobody disturbs has done when it ends. *)

Effect(t) ==
    /\ tool'[t].result = "ok" => DidIt(tool[t], calm[t], drive')
    /\ (tool'[t].result = "failed" /\ ~At(t, "attached")) => drive' = calm[t]

LEMMA FinishResult ==
    ASSUME IInv, NEW t \in Tool, NEW r, Finish(t, r)
    PROVE  tool'[t].result = r
  BY DEF Finish, IInv, Idle

LEMMA FailedEffect ==
    ASSUME IInv, Calm, NEW t \in Tool, calm[t] # Lost, UNCHANGED drive, Finish(t, "failed"),
           tool[t].pc \notin Awaiting \/ tool[t].pc = "attached", tool[t].do # "unmountEach"
    PROVE  Effect(t)
  BY FinishResult, BeforeStep DEF Effect, At

LEMMA MountedDid ==
    ASSUME NEW c, NEW b, NEW a, c.do \in {"click", "mount"}, Mounted(b, a, c.image),
           IF c.do = "click" THEN ~Has(b, c.image) ELSE Lettered(b, c.letter) = {}
    PROVE  DidIt(c, b, a)
  BY DEF DidIt

LEMMA InPlaceDid ==
    ASSUME NEW c, NEW b, NEW a, c.do \in {"remount", "mount"},
           InPlace(b, a, c.letter, c.image), Lettered(b, c.letter) # {}
    PROVE  DidIt(c, b, a)
  BY DEF DidIt

LEMMA PluginEffect ==
    ASSUME IInv, Calm, NEW t \in Tool, Plugin(t), calm[t] # Lost, tool'[t].pc = "idle"
    PROVE  Effect(t)
PROOF
  <1>1. tool[t].pc = "plugin"
    BY DEF Plugin, At
  <1>2. /\ tool[t].do \in {"click", "mount"} /\ tool[t].image \in Image
        /\ drive = calm[t] /\ tool[t] \in ToolRecord
        /\ Lettered(calm[t], tool[t].letter) = {}
    BY <1>1, BeforeStep DEF InItsSteps, Mounting, Awaiting, Found, DriveAt, Lettered
  <1>3. CASE Finish(t, "failed") /\ UNCHANGED drive
    BY <1>1, <1>2, <1>3, FailedEffect DEF Awaiting
  <1>4. CASE ~(Finish(t, "failed") /\ UNCHANGED drive)
    <2> DEFINE f == Fresh
               r == [NoSuchDrive EXCEPT !.here = TRUE, !.name = tool[t].image,
                       !.image = tool[t].image, !.loaded = TRUE,
                       !.soft = ~(tool[t].do = "click" /\ tool[t].image \in Profiled)]
    <2>1. FindPDO(tool[t].image) = {} /\ drive' = [drive EXCEPT ![f] = r]
      BY <1>4 DEF Plugin
    <2>2. tool[t].wait = "no" /\ Finish(t, "ok")
      BY <1>1, <1>2, <1>4 DEF Plugin, IInv, ToolRecord
    <2>3. f \in Drive /\ ~drive[f].here
      BY <1>2, <2>1, FreshIsFree
    <2>4. /\ drive'[f].here /\ drive'[f].image = tool[t].image /\ drive'[f].loaded
          /\ \A e \in Drive \ {f} : drive'[e] = drive[e]
      BY <2>1, <2>3 DEF NoSuchDrive, IInv, Sound
    <2> HIDE DEF f
    <2>5. Mounted(calm[t], drive', tool[t].image)
      BY <1>2, <2>3, <2>4 DEF Mounted
    <2>6. ~Has(calm[t], tool[t].image)
      BY <1>2, <2>1 DEF Has, FindPDO
    <2> QED
      BY <1>2, <2>2, <2>5, <2>6, FinishResult, MountedDid DEF Effect
  <1> QED
    BY <1>3, <1>4

\* It waited for Windows to see the new drive.
LEMMA LinkedEffect ==
    ASSUME IInv, Calm, NEW t \in Tool, Linked(t) \/ LinkTimeout(t), calm[t] # Lost
    PROVE  Effect(t)
PROOF
  <1>1. tool[t].pc \in {"linked", "named"} /\ Finish(t, "ok") /\ drive' = drive
    BY DEF Linked, LinkTimeout, At
  <1>2. tool[t].do = "mount" /\ Waits(calm[t], tool[t])
    BY <1>1, BeforeStep DEF InItsSteps
  <1>3. /\ Mounted(calm[t], drive', tool[t].image)
        /\ Lettered(calm[t], tool[t].letter) = {}
    BY <1>1, <1>2 DEF Waits, Mounted, Awaiting
  <1> QED
    BY <1>1, <1>2, <1>3, FinishResult, MountedDid DEF Effect

LEMMA ReplaceEffect ==
    ASSUME IInv, Calm, NEW t \in Tool, Replace(t), calm[t] # Lost, tool'[t].pc = "idle"
    PROVE  Effect(t)
PROOF
  <1>1. tool[t].pc = "replace"
    BY DEF Replace, At
  <1> DEFINE d == tool[t].drive
  <1>2. /\ tool[t].do \in {"remount", "mount"}
        /\ drive = calm[t] /\ tool[t] \in ToolRecord
        /\ d \in Lettered(calm[t], tool[t].letter) /\ d \in Drive
    BY <1>1, BeforeStep DEF InItsSteps, Mounting, Awaiting, Found, DriveAt, Lettered
  <1>3. CASE Finish(t, "failed") /\ UNCHANGED drive
    BY <1>1, <1>2, <1>3, FailedEffect DEF Awaiting
  <1>4. CASE ~(Finish(t, "failed") /\ UNCHANGED drive)
    <2>1. drive' = [drive EXCEPT ![d].loaded = FALSE, ![d].next = tool[t].image]
      BY <1>4 DEF Replace
    <2>2. drive'[d].next = tool[t].image /\ \A e \in Drive \ {d} : drive'[e] = drive[e]
      BY <1>2, <2>1 DEF IInv, Sound, DriveRecord
    <2>3. tool'[t].result = "ok"
      <3>1. Signalled(d, "attached", "serviced")[t] = tool[t]
        BY <1>1 DEF Signalled
      <3>2. tool'[t] = IF tool[t].wait = "no" THEN Idle ELSE [tool[t] EXCEPT !.pc = "attached"]
        BY <1>4, <3>1 DEF Replace, Signalled
      <3>3. tool[t].wait = "no"
        BY <1>2, <3>2 DEF ToolRecord
      <3> QED
        BY <3>2, <3>3 DEF Idle
    <2> HIDE DEF d
    <2>4. InPlace(calm[t], drive', tool[t].letter, tool[t].image)
      BY <1>2, <2>2 DEF InPlace, Lettered
    <2> QED
      BY <1>2, <2>3, <2>4, InPlaceDid DEF Effect
  <1> QED
    BY <1>3, <1>4

\* It waited for the new image to be in the drive.
LEMMA AttachedEffect ==
    ASSUME IInv, Calm, NEW t \in Tool, Attached(t) \/ AttachedToNothing(t), calm[t] # Lost
    PROVE  Effect(t)
PROOF
  <1>1. tool[t].pc \in {"attached", "serviced"} /\ Finish(t, "ok") /\ drive' = drive
    BY DEF Attached, AttachedToNothing, At
  <1>2. tool[t].do \in {"remount", "mount"} /\ Waits(calm[t], tool[t])
    BY <1>1, BeforeStep DEF InItsSteps, Awaiting
  <1>3. /\ InPlace(calm[t], drive', tool[t].letter, tool[t].image)
        /\ Lettered(calm[t], tool[t].letter) # {}
    BY <1>1, <1>2 DEF Waits, InPlace, Lettered, Awaiting
  <1> QED
    BY <1>1, <1>2, <1>3, FinishResult, InPlaceDid DEF Effect

\* It unmounted the image that it was to unmount.
LEMMA UnmountedEffect ==
    ASSUME IInv, Calm, NEW t \in Tool, tool[t].pc \in Disconnecting,
           tool[t].do \notin {"unmountEach", "unmountAll"}, calm[t] # Lost,
           Unmounted(drive, drive', tool[t].image), Finish(t, "ok")
    PROVE  Effect(t)
PROOF
  <1>1. /\ tool[t].do \in {"click", "unmount", "unmountLetter"}
        /\ drive = calm[t] /\ Found(calm[t], tool[t])
    BY BeforeStep DEF InItsSteps, Disconnecting, Awaiting
  <1>2. CASE tool[t].do = "click"
    <2>1. Has(calm[t], tool[t].image)
      BY <1>1, <1>2 DEF Found, FindPDO, Has
    <2> QED
      BY <1>1, <1>2, <2>1, FinishResult DEF Effect, DidIt
  <1>3. CASE tool[t].do = "unmount"
    BY <1>1, <1>3, FinishResult DEF Effect, DidIt
  <1>4. CASE tool[t].do = "unmountLetter"
    <2>1. \E d \in Drive : /\ calm[t][d].here /\ calm[t][d].name = tool[t].image
                           /\ tool[t].letter \in {calm[t][d].letter, NoLetter}
      BY <1>1, <1>4 DEF Found, FindPDO
    <2> QED
      BY <1>1, <1>4, <2>1, FinishResult DEF Effect, DidIt
  <1> QED
    BY <1>1, <1>2, <1>3, <1>4

\* What it disconnects with ends it, unless it disconnects one drive after the other.
LEMMA DisconnectedEnds ==
    ASSUME IInv, NEW t \in Tool, NEW r \in {"ok", "failed"}, Disconnected(t, r),
           tool'[t].pc = "idle"
    PROVE  Finish(t, r) /\ (r = "ok" => tool[t].do # "unmountEach")
  BY DEF Disconnected, IInv, ToolRecord

\* No drive has the name "*", which is what a program that unmounts all asks for.
LEMMA AllIsNoName ==
    ASSUME IInv
    PROVE  FindPDO(AllImages) = {}
  BY ToolsAssumption DEF IInv, Sound, Named, FindPDO

LEMMA SoftEffect ==
    ASSUME IInv, Calm, NEW t \in Tool, Soft(t), calm[t] # Lost, tool'[t].pc = "idle"
    PROVE  Effect(t)
PROOF
  <1>1. tool[t].pc = "soft"
    BY DEF Soft, At
  <1>2. /\ Unmounted(drive, drive', tool[t].image) /\ FindPDO(tool[t].image) # {}
        /\ Disconnected(t, "ok")
    BY SoftUnmounts
  <1>3. tool[t].do # "unmountAll"
    BY <1>1, <1>2, AllIsNoName, BeforeStep DEF InItsSteps, Disconnecting
  <1> QED
    BY <1>1, <1>2, <1>3, DisconnectedEnds, UnmountedEffect DEF Disconnecting

LEMMA EjectEffect ==
    ASSUME IInv, Calm, NEW t \in Tool, Eject(t), calm[t] # Lost, tool'[t].pc = "idle"
    PROVE  Effect(t)
PROOF
  <1>1. tool[t].pc = "eject" /\ FindPDO(tool[t].image) \cap DriveAt(tool[t].letter) # {}
    BY BeforeStep DEF Eject, At, Found
  <1>2. Unmounted(drive, drive', tool[t].image) /\ Disconnected(t, "ok")
    BY <1>1, EjectUnmounts
  <1>3. tool[t].do # "unmountAll"
    BY <1>1, AllIsNoName, BeforeStep DEF InItsSteps, Disconnecting
  <1> QED
    BY <1>1, <1>2, <1>3, DisconnectedEnds, UnmountedEffect DEF Disconnecting

LEMMA PlugoutEffect ==
    ASSUME IInv, Calm, NEW t \in Tool, Plugout(t), calm[t] # Lost, tool'[t].pc = "idle"
    PROVE  Effect(t)
PROOF
  <1>1. tool[t].pc = "plugout"
    BY DEF Plugout, At
  <1>2. CASE tool[t].do = "unmountAll"
    <2>1. tool[t].image = AllImages
      BY <1>1, <1>2, BeforeStep DEF InItsSteps, Disconnecting
    <2>2. drive' = Removed({d \in Drive : drive[d].here}) /\ Finish(t, "ok")
      BY <1>2, <2>1 DEF Plugout, Matching, Disconnected
    <2>3. \A d \in Drive : ~drive'[d].here
      BY <2>2 DEF Removed, NoSuchDrive
    <2> QED
      BY <1>2, <2>2, <2>3, FinishResult DEF Effect, DidIt
  <1>3. CASE tool[t].do # "unmountAll"
    <2>1. tool[t].image # AllImages
      BY <1>1, <1>3, BeforeStep, ToolsAssumption DEF InItsSteps, Disconnecting
    <2>2. /\ Unmounted(drive, drive', tool[t].image)
          /\ Disconnected(t, IF FindPDO(tool[t].image) = {} THEN "failed" ELSE "ok")
      BY <2>1, PlugoutUnmounts
    <2>3. CASE FindPDO(tool[t].image) # {}
      BY <1>1, <1>3, <2>2, <2>3, DisconnectedEnds, UnmountedEffect DEF Disconnecting
    <2>4. CASE FindPDO(tool[t].image) = {}
      <3>1. tool[t].do # "unmountEach"
        BY <1>1, <2>4, BeforeStep DEF EachSoFar
      <3>2. Finish(t, "failed")
        BY <2>2, <2>4, DisconnectedEnds
      <3>3. drive' = drive
        BY <2>1, <2>4 DEF Plugout, Matching, Removed, IInv, Sound
      <3> QED
        BY <1>1, <3>1, <3>2, <3>3, FailedEffect DEF Awaiting
    <2> QED
      BY <2>3, <2>4
  <1> QED
    BY <1>2, <1>3

LEMMA NextNameEffect ==
    ASSUME IInv, Calm, NEW t \in Tool, NextName(t), calm[t] # Lost, tool'[t].pc = "idle"
    PROVE  Effect(t)
PROOF
  <1>1. tool[t].pc = "next" /\ drive' = drive
    BY DEF NextName, At
  <1>2. tool[t].do = "unmountEach" /\ EachSoFar(tool[t])
    BY <1>1, BeforeStep DEF InItsSteps
  <1>3. tool[t].todo = {} /\ Finish(t, "ok")
    <2>1. ASSUME NEW shown, NEW todo,
                 tool' = [tool EXCEPT ![t].pc = "soft", ![t].todo = todo,
                                      ![t].image = KernelName(shown)]
          PROVE  FALSE
      BY <2>1 DEF IInv, ToolRecord
    <2> QED
      BY <2>1 DEF NextName
  <1>4. \A d \in Drive : ~drive'[d].loaded
    BY <1>1, <1>2, <1>3 DEF EachSoFar
  <1> QED
    BY <1>2, <1>3, <1>4, FinishResult DEF Effect, DidIt

\* The others end where they have not changed anything, or may do anything.
LEMMA OtherEffects ==
    ASSUME IInv, Calm, NEW t \in Tool, calm[t] # Lost, tool'[t].pc = "idle",
           \/ Present(t) \/ Cancelled(t) \/ OpenDrive(t) \/ Find(t) \/ AttachTimeout(t)
           \/ Bounce(t)
    PROVE  Effect(t)
PROOF
  <1>1. CASE Bounce(t)
    <2>1. tool[t].do = "restart" /\ Finish(t, "ok")
      BY <1>1, BeforeStep DEF Bounce, At, InItsSteps
    <2> QED
      BY <2>1, FinishResult DEF Effect, DidIt
  <1>2. CASE AttachTimeout(t)
    BY <1>2, FinishResult DEF Effect, AttachTimeout
  <1>3. CASE Present(t) \/ Cancelled(t) \/ OpenDrive(t) \/ Find(t)
    <2>1. /\ tool[t].pc \in {"present", "plugin", "drive", "find"}
          /\ tool[t].do # "unmountEach"
      BY <1>3, BeforeStep
         DEF Present, Cancelled, OpenDrive, Find, At, InItsSteps, Mounting, Awaiting
    <2>2. Finish(t, "failed") /\ UNCHANGED drive
      BY <1>3 DEF Present, Cancelled, OpenDrive, Find, Go, IInv, ToolRecord
    <2> QED
      BY <2>1, <2>2, FailedEffect DEF Awaiting
  <1> QED
    BY <1>1, <1>2, <1>3

LEMMA EndOfUndisturbed ==
    ASSUME IInv, Calm, [Next]_vars, NEW t \in Tool, tool[t].pc # "idle",
           tool'[t].pc = "idle", calm[t] # Lost
    PROVE  Effect(t)
PROOF
  <1>1. Next
    BY DEF vars
  <1>2. ToolStep(t)
    BY <1>1, OthersMove, WindowsMoves, MovedIdle DEF Next
  <1>3. ~Start(t) /\ ~StartFails(t)
    BY DEF Start, StartFails, At
  <1>4. ~ListOne(t) /\ ~Compare(t)
    BY DEF ListOne, Compare, GoPlugout, Go, IInv, ToolRecord
  <1> QED
    BY <1>2, <1>3, <1>4, OtherEffects, PluginEffect, LinkedEffect, ReplaceEffect,
       AttachedEffect, SoftEffect, EjectEffect, PlugoutEffect, NextNameEffect
       DEF ToolStep, Run

(* A program that nobody disturbs does what it was run for, to the drive it was run *)
(* for and to no other, and when it fails the drives are as they were: for any      *)
(* commands, images and letters, and however many drives there were when it began.  *)
THEOREM Undisturbed == Spec => UndisturbedEffect
PROOF
  <1>1. Spec => [](IInv /\ Calm)
    BY InitSound, NextSound, InitCalm, NextCalm, PTL DEF Spec
  <1>2. IInv /\ Calm /\ [Next]_vars =>
          [\A t \in Tool :
             (tool[t].pc # "idle" /\ tool'[t].pc = "idle" /\ calm[t] # Lost) => Effect(t)]_vars
    BY EndOfUndisturbed
  <1> QED
    BY <1>1, <1>2, PTL DEF Spec, UndisturbedEffect, Effect

================================================================================
