---------------------------- MODULE MultiTrackImage ----------------------------
(***************************************************************************)
(* Parsed disc images: the table of data tracks that the format parsers    *)
(* build (ImageFormats/MultiTrackImage.h), the single track of a raw image *)
(* (ImageFormats/IMGParser.h), and reading sectors from both.              *)
(*                                                                         *)
(* A drive reads from the image that it holds (VirtualCDDevice::Read).     *)
(*                                                                         *)
(* The contents of a file are its offsets: a sector that was read is named *)
(* by the offset in the file where its data begins.                        *)
(***************************************************************************)
EXTENDS Integers, SequencesExt

CONSTANT Width      \* differences of offsets and of counts are taken modulo this

ASSUME WidthAssumption == Width \in Nat \ {0}

CDSectorSize == 2048

\* CDTrackMode: bytes of a sector in the file, and where its data begins.
Mode(type, main, sub, offset) ==
    [type |-> type, main |-> main, sub |-> sub, offset |-> offset]
ImageSectorSize(mode) == mode.main + mode.sub

--------------------------------------------------------------------------------
(* Tables of tracks *)

EmptyImage(fileSize) == [size |-> fileSize, tracks |-> <<>>]

GetSectorCount(img) == IF img.tracks = <<>> THEN 0 ELSE Last(img.tracks).end
GetTrackEndSector(img, track) ==
    IF track < Len(img.tracks) THEN img.tracks[track + 1].end ELSE 0

CanAddDataTrack(mode, start, end) ==
    /\ ImageSectorSize(mode) # 0
    /\ ((end - start) % Width) % ImageSectorSize(mode) = 0

\* Variant: the range is cut at the end of the file before it is moved to the
\* data of the first sector.
AddDataTrackUncut(img, mode, start, end) ==
    LET count == ((end - start) % Width) \div ImageSectorSize(mode) IN
    [img EXCEPT !.tracks = Append(@, [offset |-> start + mode.offset,
                                      size   |-> ImageSectorSize(mode),
                                      start  |-> GetSectorCount(img),
                                      end    |-> GetSectorCount(img) + count])]

\* Both ends of the range move to the data of a sector, and the end is cut at the
\* end of the file: then the last sector of the file is not counted.  Width stands
\* for the width of the difference, 64 bits, and for that of the count, 32 bits.
AddDataTrack(img, mode, start, end) ==
    LET first == start + mode.offset
        last  == Min({end + mode.offset, img.size})
        count == ((last - first) % Width) \div ImageSectorSize(mode)
    IN [img EXCEPT !.tracks = Append(@, [offset |-> first,
                                         size   |-> ImageSectorSize(mode),
                                         start  |-> GetSectorCount(img),
                                         end    |-> GetSectorCount(img) + count])]

\* The map from first sectors to tracks: a track replaces an empty one before it.
TrackOf(img, sector) ==
    Max({1} \cup {i \in DOMAIN img.tracks : img.tracks[i].start <= sector})

\* The sectors that one read from the file gives, up to "todo".
FromFile(img, offset, size, todo) ==
    LET there == {i \in 0 .. todo : offset + i * size <= img.size}
    IN [i \in 1 .. Max({0} \cup there) |-> offset + (i - 1) * size]

\* Past the end of the disc this may be negative, which ends a read; the code's
\* unsigned difference wraps around there, and the end of the file ends the read.
LeftInTrack(track, sector) == track.end - (sector - track.start)

\* ReadSectorsBoundsChecked: the sectors read and the number of sectors it reports,
\* which is more than was read when a block of plain sectors is short.
ReadSectors(img, first, count) ==
    LET Read[done \in 0 .. count] ==
        LET sector == first + done
            track  == img.tracks[TrackOf(img, sector)]
            todo   == Min({LeftInTrack(track, sector), count - done})
            got    == FromFile(img, track.offset + track.size * (sector - track.start),
                               track.size, todo)
        IN IF done = count \/ todo <= 0
           THEN [data |-> <<>>, reported |-> done]
           ELSE IF Len(got) < todo
           THEN [data |-> got,
                 reported |-> IF track.size = CDSectorSize THEN done + todo ELSE done]
           ELSE [data |-> got \o Read[done + todo].data,
                 reported |-> Read[done + todo].reported]
    IN IF img.tracks = <<>> THEN [data |-> <<>>, reported |-> 0] ELSE Read[0]

\* Variant: the request is not cut at the end of the disc.
DriveReadUncut(img, seen, first, count) ==
    IF first > seen[1] THEN <<>> ELSE ReadSectors(img, first, count).data

\* VirtualCDDevice::Read, once it has the image: "seen" is what m_SectorCount holds at
\* each of its three looks, as a replacement may change it in between.  A count before
\* "first" wraps around.
DriveRead(img, seen, first, count) ==
    LET todo == IF count > (seen[2] - first) % Width THEN (seen[3] - first) % Width ELSE count
    IN IF first > seen[1] THEN <<>> ELSE ReadSectors(img, first, todo).data

--------------------------------------------------------------------------------
(* Raw images: one track to the end of the file *)

\* RawCDFormatDescriptor
RawImage(fileSize, sectorSize, initialOffset) ==
    [size |-> fileSize, sector |-> sectorSize, offset |-> initialOffset]

\* The offset is inside the file; else the code's unsigned difference wraps around.
RawSectorCount(img) == (img.size - img.offset) \div img.sector + 150

\* ReadSectorsBoundsChecked of IMGImage: what is read stops at the end of the file.
RawRead(img, first, count) ==
    LET at(i) == img.offset + (first + i - 1) * img.sector
        there == {i \in 1 .. count : at(i) + CDSectorSize <= img.size}
    IN [i \in 1 .. Max({0} \cup there) |-> at(i)]
================================================================================
