------------------------------ MODULE TrackParsers ------------------------------
(***************************************************************************)
(* The formats that come with a description of the disc: CUE sheets, CCD,  *)
(* MDS and NRG (ImageFormats/CUEParser.cpp, CCDParser.cpp,                 *)
(* MDS/MDSParser.cpp, NRG/NRGParser.cpp).  A description is the sequence   *)
(* of its lines, sections or blocks with what the parsers look at; an      *)
(* image they refuse is Refused.                                           *)
(***************************************************************************)
EXTENDS MultiTrackImage

Refused == [refused |-> TRUE]

\* DetectDataOffsetInSector: the data offset from the header of a sector, which
\* is a raw header of mode 1, 2 or another, zeros, or anything else.
DetectDataOffsetInSector(header, sectorSize, default) ==
    CASE sectorSize = CDSectorSize -> default
      [] sectorSize # CDSectorSize /\ header = "mode1" -> 16
      [] sectorSize # CDSectorSize /\ header = "mode2" -> 24
      [] sectorSize # CDSectorSize /\ header = "zeros" -> 0
      [] OTHER -> default

--------------------------------------------------------------------------------
(* CUE sheets *)

\* The first existing of: the named file, its name in the sheet's directory, the
\* sheet's name with its extension, any large file with the sheet's name.
BinaryCandidates == <<"named", "local", "renamed", "similar">>
NoFile == "none"
BinaryFile(existing) ==
    LET there == {i \in DOMAIN BinaryCandidates : BinaryCandidates[i] \in existing}
    IN IF there = {} THEN NoFile ELSE BinaryCandidates[Min(there)]

\* What follows the slash is the size of a sector.
CUEOffset(mode) ==
    CASE mode = <<"MODE1", 2352>> -> 16
      [] mode = <<"MODE2", 2352>> -> 24
      [] mode = <<"MODE2", 2336>> -> 16
      [] OTHER -> 0

\* Variant: the first track line counts, whatever its number.
IsFirstTrackAny(line) == line.kind = "TRACK"

IsFirstTrack(line) == line.kind = "TRACK" /\ line.number = 1

\* ParseCUEFile: the first FILE line must name a binary file that is found, and
\* the first line of track 1 after it gives the layout of the whole file.
ParseCUEFile(lines, existing) ==
    LET files  == {i \in DOMAIN lines : lines[i].kind = "FILE"}
        tracks == {i \in DOMAIN lines : i > Min(files) /\ IsFirstTrack(lines[i])}
        mode   == lines[Min(tracks)].mode
    IN IF \/ files = {} \/ ~lines[Min(files)].binary
          \/ BinaryFile(existing) = NoFile
          \/ tracks = {} \/ Len(mode) # 2
       THEN Refused
       ELSE [refused |-> FALSE, sector |-> mode[2], offset |-> CUEOffset(mode),
             file |-> BinaryFile(existing)]

\* CUEParser::OpenImage
OpenCUE(lines, existing, header, fileSize) ==
    LET desc == ParseCUEFile(lines, existing) IN
    IF desc.refused THEN Refused
    ELSE RawImage(fileSize, desc.sector,
                  DetectDataOffsetInSector(header, desc.sector, desc.offset))

--------------------------------------------------------------------------------
(* CCD: a text of sections, of at most 16 KiB, beside an .img file *)

\* ParsedCCDFile: the numbers of tracks with a mode, in place 1 to 100; number 0
\* wraps around and takes the last place.
CCDTracks(lines) ==
    {IF l.track = 0 THEN 100 ELSE Min({l.track, 100}) :
        l \in {m \in ToSet(lines) : m.section = "Track" /\ m.key = "mode"}}

\* The whole file is one track of raw sectors.
OpenCCD(lines, imgExists, header, fileSize) ==
    IF ~imgExists \/ CCDTracks(lines) = {} THEN Refused
    ELSE RawImage(fileSize, 2352, DetectDataOffsetInSector(header, 2352, 16))

--------------------------------------------------------------------------------
(* MDS: sessions of track blocks, with the names of the data files *)

\* s_MDSTrackModeTypes, by the low three bits of the mode
MDSModeType(code) ==
    <<"mode2", "audio", "mode1", "mode2", "form1", "form2", "unknown", "mode2">>[code + 1]

NewMDSSession == [outcome |-> "successful", files |-> <<>>, tracks |-> <<>>]

\* A block without extra block, without sectors, or with a footer that has no name
\* is skipped; an empty name ends the session; a block without a footer, before
\* any name, makes the parser use the first name of an empty list.  The blocks are all
\* there: that a read of one comes short, which gives the session up, is left out.
MDSBlock(session, block, dvd) ==
    LET files == IF block.footer = "none" \/ block.footer \in ToSet(session.files)
                 THEN session.files ELSE Append(session.files, block.footer)
        file  == IF block.footer = "none" THEN 1
                 ELSE CHOOSE i \in DOMAIN files : files[i] = block.footer
        count == IF dvd THEN block.extra ELSE block.length
        sub   == IF block.subchannel = 8 THEN 96 ELSE 0
        mode  == Mode(MDSModeType(block.mode % 8), block.sector - sub, sub,
                      DetectDataOffsetInSector(block.header, block.sector, 0))
    IN CASE \/ session.outcome # "successful"
            \/ block.extra = 0 \/ count = 0 \/ block.footer = "nameless" -> session
         [] block.footer = "empty" -> [session EXCEPT !.outcome = "failed"]
         [] files = <<>> -> [session EXCEPT !.outcome = "crashed"]
         [] OTHER -> [session EXCEPT
                !.files = files,
                !.tracks = Append(@, [mode |-> mode, start |-> block.start,
                                      end |-> block.start + block.sector * count,
                                      file |-> file])]

MDSSession(blocks, dvd) ==
    LET after[n \in 0 .. Len(blocks)] ==
            IF n = 0 THEN NewMDSSession ELSE MDSBlock(after[n - 1], blocks[n], dvd)
    IN after[Len(blocks)]

\* ParsedMDSFile: of the sessions, those that were successful; the first one counts.
\* As with the blocks, no read of a session comes short, which would refuse the disc.
MDSSessions(disc) ==
    {i \in DOMAIN disc.sessions : MDSSession(disc.sessions[i], disc.dvd).outcome = "successful"}
FirstSession(disc) == MDSSession(disc.sessions[Min(MDSSessions(disc))], disc.dvd)

\* A track that is not audio, and in the file that was opened: the first of an MDS
\* session, the only one of an NRG disc.
IsDataTrack(track) == track.mode.type # "audio" /\ track.file = 1

\* Data tracks are added until one cannot be.
AddTrack(acc, t) ==
    IF ~IsDataTrack(t) THEN acc
    ELSE IF acc.failed \/ ~CanAddDataTrack(t.mode, t.start, t.end)
    THEN [acc EXCEPT !.failed = TRUE]
    ELSE [acc EXCEPT !.image = AddDataTrack(@, t.mode, t.start, t.end)]

AddTracks(fileSize, tracks) ==
    LET added[n \in 0 .. Len(tracks)] ==
            IF n = 0 THEN [failed |-> FALSE, image |-> EmptyImage(fileSize)]
            ELSE AddTrack(added[n - 1], tracks[n])
    IN added[Len(tracks)]

OpenMDS(disc, fileSize) ==
    IF MDSSessions(disc) = {} \/ FirstSession(disc).files = <<>> THEN Refused
    ELSE AddTracks(fileSize, FirstSession(disc).tracks).image

--------------------------------------------------------------------------------
(* NRG: blocks of records at the end of the data file *)

\* s_NeroTrackModes
NeroMode(code) ==
    CASE code = 0  -> Mode("mode1", 2048, 0, 0)
      [] code = 2  -> Mode("form1", 2048, 0, 0)
      [] code = 3  -> Mode("form2", 2336, 0, 0)
      [] code = 5  -> Mode("mode1", 2352, 0, 16)
      [] code = 6  -> Mode("mixed", 2352, 0, 24)
      [] code = 7  -> Mode("audio", 2352, 0, 0)
      [] code = 15 -> Mode("mode1", 2352, 96, 16)
      [] code = 16 -> Mode("audio", 2352, 96, 0)
      [] code = 17 -> Mode("mixed", 2352, 96, 24)
      [] OTHER     -> Mode("unknown", 0, 0, 0)

\* The entries before the first one with a code outside of the table; a block that
\* has such an entry, or none at all, is not valid.
KnownCode(entry) == entry.code < 18
ValidBlock(entries) == entries # <<>> /\ \A i \in DOMAIN entries : KnownCode(entries[i])
KnownEntries(entries) ==
    SubSeq(entries, 1, Min({i \in DOMAIN entries : ~KnownCode(entries[i])}
                           \cup {Len(entries) + 1}) - 1)

\* An entry whose size of a sector contradicts its code overrides it.
DAOTrack(entry) ==
    LET mode == NeroMode(entry.code) IN
    [mode  |-> IF ImageSectorSize(mode) = entry.sector THEN mode
               ELSE Mode(mode.type, entry.sector, 0, IF entry.sector = 2352 THEN 16 ELSE 0),
     start |-> entry.start, end |-> entry.end, file |-> 1]

ETNTrack(entry) ==
    [mode |-> NeroMode(entry.code), start |-> entry.start, end |-> entry.start + entry.size,
     file |-> 1]

\* NRGSession: the ETN block is parsed when the DAO block is missing or not valid,
\* and comes after what the latter gave.
NRGTracks(disc) ==
    LET dao == KnownEntries(disc.dao)
        etn == KnownEntries(disc.etn)
    IN [i \in DOMAIN dao |-> DAOTrack(dao[i])]
       \o IF ValidBlock(disc.dao) THEN <<>> ELSE [i \in DOMAIN etn |-> ETNTrack(etn[i])]

OpenNRG(disc, fileSize) ==
    LET added == AddTracks(fileSize, NRGTracks(disc)) IN
    IF ~(ValidBlock(disc.dao) \/ ValidBlock(disc.etn)) \/ added.failed THEN Refused
    ELSE added.image
================================================================================
