------------------------------- MODULE MMCReplies -------------------------------
(***************************************************************************)
(* What a drive says about itself: the MMC commands that VirtualCDDevice   *)
(* answers (BazisVirtualCDBus/VirtualCDDevice.cpp), and the speeds that    *)
(* are asked for before a disc is copied (VirtualCDCtl/CDSpeed.cpp).  A    *)
(* drive is a record of its type and the profile of its disc.  A reply is  *)
(* a record of the header's fields, the sequence of its parts, and "done", *)
(* the bytes that fit the buffer.                                          *)
(***************************************************************************)
EXTENDS Integers, SequencesExt

\* MMCDeviceType, in its order
DeviceTypes == [Default |-> 0, NonMMC |-> 1, CDROM |-> 2, DVDROM |-> 3, BDROM |-> 4]

ProfileList     == 0      \* FEATURE_NUMBER
Core            == 1
Morphing        == 2
RemovableMedium == 3
MultiRead       == 29
CdRead          == 30
DvdRead         == 31
BDRead          == 64
MaxFeature      == 272    \* kMaxFeatureNumber, FeatureVCPS

\* supportedProfiles
SupportedProfiles == <<64, 65, 66, 67, 26, 27, 42, 43, 16, 17, 18, 19, 20,
                       80, 81, 82, 83, 88, 90, 8, 9, 10, 2>>

Capabilities == 42        \* MODE_PAGE_CAPABILITIES
ReturnAll    == 63        \* MODE_SENSE_RETURN_ALL

\* Commands that look at the MMC profile are answered here only by a drive that has
\* one; the others are answered by the base class.
AnswersMMC(drive) == drive.profile # 0 /\ drive.type # DeviceTypes.NonMMC

--------------------------------------------------------------------------------
(* GET CONFIGURATION *)

\* GetFeatureDescriptor: the features a drive has, and the bytes each has after its
\* header.  Those of discs it cannot read at all are missing.
HasFeature(drive, feature) ==
    \/ feature \in {ProfileList, Core, Morphing, RemovableMedium, MultiRead, CdRead}
    \/ feature = DvdRead /\ drive.type >= DeviceTypes.DVDROM
    \/ feature = BDRead /\ drive.type >= DeviceTypes.BDROM

FeatureSize(feature) ==
    CASE feature = ProfileList -> 4 * Len(SupportedProfiles)
      [] feature = Core        -> 8
      [] feature = MultiRead   -> 0
      [] feature = BDRead      -> 28
      [] OTHER                 -> 4

\* GetProfileList: the profile of the disc is marked.
GetProfileList(drive) ==
    [i \in DOMAIN SupportedProfiles |->
        [profile |-> SupportedProfiles[i], current |-> SupportedProfiles[i] = drive.profile]]

\* Variant: a request for one feature is answered with all that follow.
EndingFeatureAlways(request, start) == MaxFeature

EndingFeature(request, start) == IF request = 2 THEN start ELSE MaxFeature

\* The first feature that is asked for, whose high byte is shifted too far.
StartingFeature(high, low) == high * 65536 + low

\* The numbers that stand for a feature of some drive, in ascending order.
KnownFeatures == <<ProfileList, Core, Morphing, RemovableMedium, MultiRead, CdRead, DvdRead, BDRead>>

\* A feature that is asked for and that the drive has goes after the ones before it,
\* with its header.
WithFeature(drive, reply, feature, asked) ==
    IF feature \notin asked \/ ~HasFeature(drive, feature) THEN reply
    ELSE [parts |-> Append(reply.parts, feature), full |-> reply.full + 4 + FeatureSize(feature)]

\* OnGetConfiguration.  Whether a feature is current is not looked at: all of them
\* are marked so, and are in the reply that is to have only the current ones.  For a
\* number that no drive has a feature for, the loop goes on without a change.
OnGetConfiguration(drive, request, high, low, size) ==
    LET start == StartingFeature(high, low)
        asked == start .. EndingFeature(request, start)
        reply[n \in 0 .. Len(KnownFeatures)] ==
            IF n = 0 THEN [parts |-> <<>>, full |-> 8]
            ELSE WithFeature(drive, reply[n - 1], KnownFeatures[n], asked)
        last  == reply[Len(KnownFeatures)]
    IN [length |-> last.full - 4, profile |-> drive.profile,
        parts |-> last.parts, done |-> Min({size, last.full})]

--------------------------------------------------------------------------------
(* MODE SENSE *)

\* OnModeSense10 with GetModePage: the page of capabilities, if it is among those
\* that are asked for.
OnModeSense10(drive, page, size) ==
    LET pages == IF page \in {Capabilities, ReturnAll} THEN <<Capabilities>> ELSE <<>>
        full  == 8 + 32 * Len(pages)
    IN [length |-> full - 2, parts |-> pages, done |-> Min({size, full})]

--------------------------------------------------------------------------------
(* The speeds a drive can read at *)

\* QueryAvailableReadSpeeds of another drive's page ("speeds" after the words that
\* count them), or of none; whether the disc is a DVD follows from its profile.
QueryAvailableReadSpeeds(page, profile) ==
    LET asked == page.code = Capabilities /\ page.done >= 32 IN
    [speeds |-> IF asked THEN page.speeds ELSE <<>>, dvd |-> asked /\ profile >= 16]

\* The page of a virtual drive counts no speeds.
OwnPage(drive) ==
    LET reply == OnModeSense10(drive, Capabilities, 32768) IN
    [code |-> Head(reply.parts), done |-> reply.done, speeds |-> <<>>]
================================================================================
