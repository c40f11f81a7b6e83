-------------------------------- MODULE DiscData --------------------------------
(***************************************************************************)
(* What the algorithms on disc data promise, for any inputs of the shapes  *)
(* they are given: a behaviour takes one input and ends.                   *)
(***************************************************************************)
EXTENDS TrackParsers

CONSTANTS
    Inputs,
    SectorCells     \* the parts of a UDF sector that its directories are counted in

FD  == INSTANCE FormatDetection
MMC == INSTANCE MMCReplies
UDF == INSTANCE MiniUDF

ASSUME SectorCellsAssumption == SectorCells \in Nat \ {0}

TrackModes == {<<"MODE1", 2048>>, <<"MODE1", 2352>>, <<"MODE2", 2352>>, <<"AUDIO">>}
Line == [kind : {"FILE"}, binary : BOOLEAN]
        \cup [kind : {"TRACK"}, number : Nat, mode : TrackModes]
CCDLine == [section : {"Track", "Entry"}, key : {"mode", "index"}, track : Nat]
Headers == {"mode1", "mode2", "other"}
SearchedFrom == 32768
Descriptors == [sig : {"CD001", "CDROM", "BEA01"}, at : {n \in Nat : n >= SearchedFrom}]

\* A disc has tracks one after the other in its file: what a track is, its sectors in
\* the file, and their number.
Track == {"plain", "raw", "audio"} \X (Nat \ {0})
IsAudio(track)  == track[1] = "audio"
SizeOf(track)   == IF track[1] = "plain" THEN 2048 ELSE 2352
OffsetOf(track) == IF track[1] = "raw" THEN 16 ELSE 0
StartOf(tracks, i) ==
    LET end[n \in 0 .. Len(tracks)] ==
            IF n = 0 THEN 0 ELSE end[n - 1] + SizeOf(tracks[n]) * tracks[n][2]
    IN end[i - 1]
FileSizeOf(in) == StartOf(in.tracks, Len(in.tracks) + 1) + in.after

\* An entry of a UDF directory: the cells it takes, and its name, with 8 or 16 bits for
\* a character.
Entry == {e \in [cells : Nat \ {0}, coding : {8, 16}, chars : Seq(Nat \ {0})] :
             \A i \in DOMAIN e.chars : e.chars[i] < 2 ^ e.coding}

\* Of the inputs of each kind: discs have at most two data tracks, texts the lines that
\* are looked at, files so many whole sectors, and signatures stand where they are
\* searched for.
ASSUME InputsAssumption ==
    \A in \in Inputs :
        /\ in.kind = "disc" =>
              /\ in.format \in {"mds", "nrgDAO", "nrgETN"}
              /\ in.tracks \in Seq(Track) /\ in.tracks # <<>> /\ in.after \in Nat
              /\ \E i, j \in DOMAIN in.tracks : \A k \in DOMAIN in.tracks :
                    IsAudio(in.tracks[k]) \/ k \in {i, j}
              /\ FileSizeOf(in) < Width
        /\ in.kind = "cue" => /\ in.lines \in Seq(Line) /\ in.header \in Headers
                             /\ in.whole \in Nat
        /\ in.kind = "ccd" => /\ in.lines \in Seq(CCDLine) /\ in.header \in Headers
                             /\ in.found \in BOOLEAN /\ in.whole \in Nat
        /\ in.kind = "raw" => /\ in.found \subseteq Descriptors
                             /\ in.zero \in Nat \cup {FD!NoOffset}
        /\ in.kind = "udf" => /\ in.entries \in Seq(Entry) /\ in.icb \in Nat
                             /\ in.metadata \in BOOLEAN
        /\ in.kind = "mmc" => /\ in.profile \in Nat
                             /\ in.high \in Nat /\ in.low \in Nat /\ in.size \in Nat

VARIABLE input

Init  == input = [kind |-> "none"]
Given == input.kind = "none" /\ input' \in Inputs
Next  == Given
Spec  == Init /\ [][Next]_input

--------------------------------------------------------------------------------
(* Discs of data and audio tracks *)

MDSDiscOf(tracks) ==
    [dvd |-> FALSE,
     sessions |-> << [i \in DOMAIN tracks |->
        [extra |-> 1, length |-> tracks[i][2], footer |-> "file", subchannel |-> 0,
         mode |-> IF IsAudio(tracks[i]) THEN 1 ELSE 2, sector |-> SizeOf(tracks[i]),
         header |-> IF tracks[i][1] = "raw" THEN "mode1" ELSE "other",
         start |-> StartOf(tracks, i)]] >>]

NeroCode(track) ==
    CASE track[1] = "plain" -> 0
      [] track[1] = "raw" -> 5
      [] OTHER -> 7

NRGDiscOf(tracks, block) ==
    LET dao == [i \in DOMAIN tracks |->
                  [code |-> NeroCode(tracks[i]), sector |-> SizeOf(tracks[i]),
                   start |-> StartOf(tracks, i), end |-> StartOf(tracks, i + 1)]]
        etn == [i \in DOMAIN tracks |->
                  [code |-> NeroCode(tracks[i]), start |-> StartOf(tracks, i),
                   size |-> StartOf(tracks, i + 1) - StartOf(tracks, i)]]
    IN [dao |-> IF block = "nrgDAO" THEN dao ELSE <<>>,
        etn |-> IF block = "nrgETN" THEN etn ELSE <<>>]

Opened(in) ==
    IF in.format = "mds" THEN OpenMDS(MDSDiscOf(in.tracks), FileSizeOf(in))
    ELSE OpenNRG(NRGDiscOf(in.tracks, in.format), FileSizeOf(in))

\* The sectors of a track, but for one whose bytes, counted from its data, do not fit
\* the file.
SectorsOfTrack(in, i) ==
    LET t     == in.tracks[i]
        at(k) == StartOf(in.tracks, i) + OffsetOf(t) + (k - 1) * SizeOf(t)
        there == {k \in 1 .. t[2] : at(k) + SizeOf(t) <= FileSizeOf(in)}
    IN IF IsAudio(t) THEN <<>> ELSE [k \in 1 .. Max({0} \cup there) |-> at(k)]

SectorsOf(in) ==
    LET first[n \in 0 .. Len(in.tracks)] ==
            IF n = 0 THEN <<>> ELSE first[n - 1] \o SectorsOfTrack(in, n)
    IN first[Len(in.tracks)]

\* MDS and NRG (MDSParser.cpp, NRGParser.cpp, MultiTrackImage.h): a disc with at most
\* two data tracks has all their sectors, wherever the audio tracks are, and a read of
\* any of them, inside a track or across two, gives these and no other.
ReadsAreRight ==
    input.kind = "disc" =>
        LET image   == Opened(input)
            sectors == SectorsOf(input)
        IN /\ GetSectorCount(image) = Len(sectors)
           /\ \A first \in 0 .. Len(sectors) - 1 : \A count \in 1 .. Len(sectors) - first :
                ReadSectors(image, first, count) =
                    [data |-> SubSeq(sectors, first + 1, first + count), reported |-> count]

\* VirtualCDDevice::Read while another image replaces this one, with a number of sectors
\* that is seen at the second or third look, at all of them or at none: a request inside
\* this disc gives a beginning of the sectors asked for, in their order, and nothing of
\* the other disc or of the file; when no replacement comes in between it gives all that
\* the disc has of them.
StraddlingReadsRight ==
    input.kind = "disc" /\ input.format = "mds" =>
        LET image   == Opened(input)
            sectors == SectorsOf(input)
            size    == Len(sectors)
            Got(looks, other, first, count) ==
                DriveRead(image, [i \in 1 .. 3 |-> IF i <= looks THEN size ELSE other], first, count)
        IN \A first \in 0 .. size + 1, count \in 1 .. 3 :
              /\ Got(3, size, first, count) = SubSeq(sectors, first + 1, Min({first + count, size}))
              /\ first + count <= size =>
                    \A looks \in 0 .. 2, other \in 0 .. 5 :
                        IsPrefix(Got(looks, other, first, count),
                                 SubSeq(sectors, first + 1, first + count))

--------------------------------------------------------------------------------
(* Raw images that are described by a CUE sheet *)

\* The mode of the first track with number 1 after the file's name, if there is one.
FirstTrackMode(lines) ==
    LET files == {i \in DOMAIN lines : lines[i].kind = "FILE"}
        first == {i \in DOMAIN lines : i > Min(files) /\ lines[i].kind = "TRACK"
                                       /\ lines[i].number = 1}
    IN IF files = {} \/ first = {} THEN <<>> ELSE lines[Min(first)].mode

\* All whole sectors of the file are read in their order, and none after them.
ReadsAll(image, whole, sector, data) ==
    /\ RawSectorCount(image) >= whole
    /\ \A first \in 0 .. whole : \A count \in 1 .. whole + 1 :
          RawRead(image, first, count) =
              [i \in 1 .. Min({count, whole - first}) |-> data + (first + i - 1) * sector]

\* CUE sheets and CCD (CUEParser.cpp, CCDParser.cpp, IMGParser.h): an image that is
\* opened has the sectors of its track 1, whatever stands before it; where a raw sector
\* begins with a header, the data comes after it; and no image is opened without its
\* file.
RawImagesRight ==
    /\ input.kind = "cue" =>
        LET mode  == FirstTrackMode(input.lines)
            image == OpenCUE(input.lines, input.found, input.header, input.whole * mode[2])
            data  == CASE mode[2] = 2048 -> 0
                       [] mode[2] = 2352 /\ input.header = "mode1" -> 16
                       [] mode[2] = 2352 /\ input.header = "mode2" -> 24
                       [] OTHER -> IF mode[1] = "MODE1" THEN 16 ELSE 24
        IN Len(mode) = 2 /\ "sector" \in DOMAIN image =>
              input.found # {} /\ ReadsAll(image, input.whole, mode[2], data)
    /\ input.kind = "ccd" =>
        LET image == OpenCCD(input.lines, input.found, input.header, input.whole * 2352) IN
        "sector" \in DOMAIN image =>
              input.found /\ ReadsAll(image, input.whole, 2352, IF input.header = "mode2" THEN 24 ELSE 16)

--------------------------------------------------------------------------------
(* The choice of a parser, and the layout of a raw image without description *)

StrictParsers == {"ccd", "cue", "mds", "nrg"}

\* OpenCDImage (ImageFormats.cpp): a file that a strict parser recognises is given to
\* one that does, whatever its name, and to the parser of its own extension when that
\* is one of them; only what no parser recognises is tried by its name.
RightParser ==
    input.kind = "name" =>
        LET chosen == FD!ChosenParser(input.ext, input.recognised) IN
        /\ input.recognised \cap StrictParsers # {} => chosen \in input.recognised \cap StrictParsers
        /\ input.ext \in input.recognised \cap StrictParsers => chosen = input.ext
        /\ input.recognised \cap StrictParsers = {} =>
              chosen \in {"img"} \cup ({input.ext} \cap StrictParsers)

Scores(in) == [l \in FD!Layouts |-> FD!ProbeSectorFormat(in.zeros, in.marked, l)]

\* DetectRawCDFormat (RawCDFormats.cpp): a descriptor that stands where one does in
\* some layout decides, also against others that are found before it; without a
\* descriptor a layout is only taken when it is the one layout that fits fully, and
\* the offset is its own where the first zeros told it.
RawLayoutRight ==
    input.kind = "raw" =>
        LET layout == FD!DetectRawCDFormat(input.found, input.zero, Scores(input))
            exact  == UNION {FD!Exact(input.found, s) : s \in {"CD001", "CDROM", "BEA01"}}
            base   == FD!BaseOffset(input.zero)
            full   == {l \in ToSet(FD!Tried(base)) : Scores(input)[l] = 2}
        IN /\ exact # {} => layout \in exact
           /\ exact = {} /\ input.found # {} =>
                \E f \in input.found :
                    FD!DescriptorAt(layout) = f.at - FD!SignatureOffset[f.sig]
           /\ input.found = {} /\ layout # FD!NoLayout =>
                \E l \in full : /\ full = {l} /\ layout.sector = l.sector
                                /\ base \notin {FD!NoOffset, 0} => layout = l

--------------------------------------------------------------------------------
(* Video discs *)

BDMV     == <<66, 68, 77, 86>>
VIDEO_TS == <<86, 73, 68, 69, 79, 95, 84, 83>>

\* In letters of either case.
IsNamed(entry, name) ==
    /\ Len(entry.chars) = Len(name)
    /\ \A i \in DOMAIN name :
          \/ entry.chars[i] = name[i]
          \/ name[i] \in 65 .. 90 /\ entry.chars[i] = name[i] + 32

Encoded(entry) ==
    IF entry.coding = 8 THEN <<8>> \o entry.chars
    ELSE [i \in 1 .. 2 * Len(entry.chars) + 1 |->
             IF i = 1 THEN 16
             ELSE IF i % 2 = 0 THEN entry.chars[i \div 2] \div 256
             ELSE entry.chars[i \div 2] % 256]

CellsBefore(entries, i) ==
    LET end[n \in 0 .. Len(entries)] == IF n = 0 THEN 0 ELSE end[n - 1] + entries[n].cells
    IN end[i - 1]
DirectorySize(in) == CellsBefore(in.entries, Len(in.entries) + 1)

\* A cell where no entry begins is zeros, which is a valid entry without a name.
ZeroCell == [cells |-> 1, name |-> <<8>>, icb |-> [partition |-> 0, lba |-> 0, length |-> 0]]
Cell(entries, n) ==
    LET begun == {i \in DOMAIN entries : CellsBefore(entries, i) + 1 = n} IN
    IF begun = {} THEN ZeroCell
    ELSE LET e == entries[CHOOSE i \in begun : TRUE] IN
         [cells |-> e.cells, name |-> Encoded(e),
          icb |-> [partition |-> 0, lba |-> 9, length |-> SectorCells]]

\* The only partition, from sector 300 on: a metadata file that begins at its sector 2,
\* and in this file, or in the partition itself, the file set, the root directory, in
\* one extent or two, and its contents.
PartitionMaps ==
    << [type |-> 1, number |-> 0, volume |-> 1, metadata |-> FALSE, file |-> 0],
       [type |-> 2, number |-> 0, volume |-> 1, metadata |-> TRUE, file |-> 0] >>

UDFSector(in, sector) ==
    LET p      == IF in.metadata THEN 1 ELSE 0
        origin == IF in.metadata THEN 302 ELSE 300
        size   == DirectorySize(in)
        begin  == [position |-> 304 - origin, length |-> IF in.split THEN SectorCells ELSE size]
        rest   == [position |-> 305 - origin, length |-> Max({size - SectorCells, 0})]
    IN CASE sector = 256 -> [tag |-> "anchor", first |-> 20, length |-> 3 * SectorCells]
         [] sector = 20  -> [tag |-> "primary"]
         [] sector = 21  -> [tag |-> "logical", plainBlocks |-> TRUE, maps |-> PartitionMaps,
                             fileSet |-> [partition |-> p, lba |-> 302 - origin,
                                          length |-> SectorCells]]
         [] sector = 22  -> [tag |-> "partition", number |-> 0, first |-> 300,
                             count |-> size + 8]
         [] sector = 300 -> [tag |-> "file",
                             extents |-> <<[position |-> 2, length |-> SectorCells * (size + 8)]>>]
         [] sector = 302 -> [tag |-> "fileset",
                             root |-> [partition |-> p, lba |-> 303 - origin, length |-> in.icb]]
         [] sector = 303 -> [tag |-> "file",
                             extents |-> IF in.split THEN <<begin, rest>> ELSE <<begin>>]
         [] OTHER        -> [tag |-> "directory",
                             cells |-> [n \in 1 .. SectorCells |->
                                           Cell(in.entries, (sector - 304) * SectorCells + n)]]

DiscOf(in) ==
    [end     |-> DirectorySize(in) + 306,
     sectors |-> [s \in {20, 21, 22, 256, 300} \cup 302 .. DirectorySize(in) + 304 |->
                     IF s = in.damaged THEN [tag |-> "damaged"] ELSE UDFSector(in, s)]]

\* AnalyzeUDFImage (UDFAnalyzer.cpp, miniudf.cpp): a directory that is not there is
\* never found, whatever is damaged; and on an intact disc, with a root directory in
\* one extent that is not longer than its control block says, it is found when it
\* is there, in either encoding of its name and with or without metadata partition.
UDFRight ==
    input.kind = "udf" => \A name \in {BDMV, VIDEO_TS} :
        LET result  == UDF!AnalyzeUDFImage(DiscOf(input), name)
            present == \E i \in DOMAIN input.entries : IsNamed(input.entries[i], name)
        IN /\ result.found => present
           /\ (input.damaged = 0 /\ ~input.split /\ DirectorySize(input) <= input.icb) =>
                 result.isUDF /\ result.found = present

--------------------------------------------------------------------------------
(* Commands to a drive *)

\* OnGetConfiguration, OnModeSense10 (VirtualCDDevice.cpp): a request for one feature
\* gives what the list of all of them has, a short buffer gives the beginning of the
\* same reply and its full length, and one profile of the list is the disc's, as in
\* the header; asked for its speeds, a virtual drive names none.
RepliesAgree ==
    input.kind = "mmc" /\ MMC!AnswersMMC(input) =>
        LET start == MMC!StartingFeature(input.high, input.low)
            reply == MMC!OnGetConfiguration(input, input.request, input.high, input.low, input.size)
            all   == MMC!OnGetConfiguration(input, 0, 0, 0, 1000)
        IN /\ ToSet(reply.parts) =
                 {f \in ToSet(all.parts) : f >= start /\ (input.request = 2 => f = start)}
           /\ \A i, j \in DOMAIN reply.parts : i < j => reply.parts[i] < reply.parts[j]
           /\ reply.done = Min({input.size, reply.length + 4})
           /\ {i \in DOMAIN MMC!GetProfileList(input) : MMC!GetProfileList(input)[i].current}
                 = {i \in DOMAIN MMC!SupportedProfiles : MMC!SupportedProfiles[i] = reply.profile}
           /\ MMC!QueryAvailableReadSpeeds(MMC!OwnPage(input), input.profile) =
                 [speeds |-> <<>>, dvd |-> reply.profile >= 16]
================================================================================
