-------------------------------- MODULE MiniUDF --------------------------------
(***************************************************************************)
(* The UDF reader that tells video discs from others                       *)
(* (ImageFormats/Filesystems/miniudf.cpp, miniudf.h, UDFHelpers.cpp and    *)
(* UDFAnalyzer.cpp).                                                       *)
(*                                                                         *)
(* A disc is a record: "end" is the end of its first track, "sectors" maps *)
(* the sectors that can be read to a descriptor, a record with a tag and   *)
(* the fields the reader looks at, or to the cells of a directory.         *)
(* A damaged sector has the tag "damaged": its checksum is wrong.  Lengths *)
(* are counted in cells, the part of a sector that the shortest directory  *)
(* entry takes; an entry may take several and cross a sector's end.        *)
(***************************************************************************)
EXTENDS Integers, SequencesExt

CONSTANT SectorCells    \* cells in a sector (kSectorSize)

InvalidSector  == -1    \* kInvalidSector, an unsigned -1
AnchorLocation == 256   \* kAnchorVolumeDescriptorPointerLocation
MaxPartitions  == 100   \* kMaxVolumesAndPartitions

SectorsFor(cells) == (cells + SectorCells - 1) \div SectorCells

\* ParsedImageWrapper::ReadSector: the first track, and no sector past its end.
Readable(disc, sector) == sector < disc.end /\ sector \in DOMAIN disc.sectors

\* ReadAndCheckDescriptor with ValidateUDFDescriptor: a descriptor whose checksums
\* are right, else one with the tag "none".
Descriptor(disc, sector) ==
    IF Readable(disc, sector) /\ disc.sectors[sector].tag # "damaged"
    THEN disc.sectors[sector] ELSE [tag |-> "none"]

--------------------------------------------------------------------------------
(* Partitions *)

\* A part of the disc, or a file in one, or a file in such a file: "files" has the
\* extents of each file, the innermost partition's last.
NormalPartition(first, count) == [first |-> first, count |-> count, files |-> <<>>]
InvalidPartition              == NormalPartition(0, 0)

\* FragmentedFile.  Each extent is entered at the sum of the lengths before it.
FragmentedFile(under, extents) == [under EXCEPT !.files = <<extents>> \o @]

\* Variant: an extent covers as many whole sectors as fit in its length.
ExtentCountInSectors(extent) == extent.length \div SectorCells

\* AppendExtent: the length of an extent is taken as its number of sectors.
ExtentCount(extent) == extent.length

End(extents) ==
    LET end[n \in 0 .. Len(extents)] ==
            IF n = 0 THEN 0 ELSE end[n - 1] + ExtentCount(extents[n])
    IN end
Total(extents)  == End(extents)[Len(extents)]
Key(extents, i) == End(extents)[i - 1]

\* The extent that lower_bound finds: the first that is entered at the sector or
\* after it, or the last one.  An extent replaces an empty one before it.
ExtentFor(extents, sector) ==
    LET after == {i \in DOMAIN extents : Key(extents, i) >= sector} IN
    IF after = {} THEN Len(extents)
    ELSE Max({i \in after : Key(extents, i) = Key(extents, Min(after))})

\* FragmentedFile::MapSector, in the partition that the file is in.
InFile(extents, sector) ==
    LET i == ExtentFor(extents, sector) IN
    IF sector \in 0 .. Total(extents) - 1
    THEN extents[i].position + (sector - Key(extents, i)) ELSE InvalidSector

\* MapSector; a sector before the first wraps around to one past every end.
MapSector(partition, sector) ==
    LET through[n \in 0 .. Len(partition.files)] ==
            IF n = 0 THEN sector ELSE InFile(partition.files[n], through[n - 1])
        last == through[Len(partition.files)]
    IN IF last \in 0 .. partition.count - 1 THEN partition.first + last ELSE InvalidSector

\* VirtualDataBlock: a place in a partition.
NoBlock                    == [valid |-> FALSE, size |-> 0]
Block(partition, lba, size) ==
    [valid |-> TRUE, partition |-> partition, lba |-> lba, size |-> size]
FirstPhysicalSector(block) ==
    IF block.valid THEN MapSector(block.partition, block.lba) ELSE InvalidSector

\* LongADToDataBlock
DataBlock(partitions, ad) ==
    IF ad.partition < Len(partitions)
    THEN Block(partitions[ad.partition + 1], ad.lba, ad.length) ELSE NoBlock

\* CreateFileFromICB: a file entry's extents, in the partition of the entry.
CreateFileFromICB(disc, icb) ==
    LET entry == Descriptor(disc, FirstPhysicalSector(icb)) IN
    IF entry.tag = "file" THEN FragmentedFile(icb.partition, entry.extents)
    ELSE InvalidPartition

--------------------------------------------------------------------------------
(* Volumes *)

\* The descriptors of the main volume descriptor sequence.
VolumeSequence(disc, anchor) ==
    [i \in 1 .. SectorsFor(anchor.length) |-> Descriptor(disc, anchor.first + i - 1)]

\* ParsePartitionDescriptors: by number, a later one replaces an earlier one.
NumberedPartition(sequence, number) ==
    LET there == {i \in DOMAIN sequence :
                    sequence[i].tag = "partition" /\ sequence[i].number = number}
    IN IF number >= MaxPartitions \/ there = {} THEN InvalidPartition
       ELSE LET last == sequence[Max(there)] IN NormalPartition(last.first, last.count)

\* What a partition map stands for: a partition, or its metadata file.
MappedPartition(disc, sequence, map) ==
    LET under == NumberedPartition(sequence, map.number) IN
    CASE map.type = 1 -> under
      [] map.type = 2 /\ map.metadata ->
            CreateFileFromICB(disc, Block(under, map.file, SectorCells))
      [] OTHER -> InvalidPartition

\* ParseLVDInSectorBuffer: no volume unless its file set and root directory are
\* found.  The number of the last map that has one counts.
NoVolume == [number |-> 0, root |-> NoBlock, partitions |-> <<>>]
Volume(lvd, partitions, fileSet) ==
    LET numbered == {i \in DOMAIN lvd.maps : lvd.maps[i].type \in {1, 2}} IN
    IF fileSet.tag # "fileset" THEN NoVolume
    ELSE [number     |-> IF numbered = {} THEN 0 ELSE lvd.maps[Max(numbered)].volume,
          root       |-> DataBlock(partitions, fileSet.root),
          partitions |-> partitions]

FileSet(disc, lvd, partitions) ==
    Descriptor(disc, FirstPhysicalSector(DataBlock(partitions, lvd.fileSet)))

LogicalVolume(disc, sequence, lvd) ==
    LET partitions == [i \in DOMAIN lvd.maps |-> MappedPartition(disc, sequence, lvd.maps[i])]
    IN IF lvd.plainBlocks THEN Volume(lvd, partitions, FileSet(disc, lvd, partitions))
       ELSE NoVolume

\* ParseUDFHeaders: the volumes whose root directory was found, by the place of their
\* descriptor.
LogicalVolumes(disc, sequence) ==
    LET Read(i) == LogicalVolume(disc, sequence, sequence[i])
        there   == {i \in DOMAIN sequence : sequence[i].tag = "logical" /\ Read(i).root.valid}
    IN [i \in there |-> Read(i)]

\* The descriptor at the anchor's place is not asked for its tag.
ParseUDFHeaders(disc) ==
    LET anchor == Descriptor(disc, AnchorLocation) IN
    IF anchor.tag # "none" THEN LogicalVolumes(disc, VolumeSequence(disc, anchor)) ELSE <<>>

\* The first of those with the highest number.
FindLastVolume(volumes) ==
    LET last == {i \in DOMAIN volumes :
                    \A j \in DOMAIN volumes : volumes[i].number >= volumes[j].number}
    IN IF last = {} THEN NoVolume ELSE volumes[Min(last)]

--------------------------------------------------------------------------------
(* Directories *)

Wide(high, low) == high * 256 + low

\* UncompressUnicode: a byte or two per character, up to a zero.
Uncompress(name) ==
    LET bytes == Tail(name)
        chars == IF Head(name) = 8 THEN bytes
                 ELSE [i \in 1 .. (Len(bytes) + 1) \div 2 |->
                        IF 2 * i > Len(bytes) THEN Wide(bytes[2 * i - 1], 0)
                        ELSE Wide(bytes[2 * i - 1], bytes[2 * i])]
        zeros == {i \in DOMAIN chars : chars[i] = 0}
    IN IF name = <<>> \/ Head(name) \notin {8, 16} THEN <<>>
       ELSE SubSeq(chars, 1, Min(zeros \cup {Len(chars) + 1}) - 1)

Upper(char) == IF char \in 97 .. 122 THEN char - 32 ELSE char
SameName(a, b) ==
    /\ Len(a) = Len(b)
    /\ \A i \in DOMAIN a : Upper(a[i]) = Upper(b[i])

\* ReadStructureCached: the cells of a file, up to the first that cannot be read.
\* In the code a first sector that is mapped nowhere matches the cache while it is
\* empty, and its uninitialised buffer is taken for the sector.  Here such a sector
\* cannot be read: the definition says nothing about what the buffer may hold.
CellsOf(disc, file, count) ==
    LET sector(i)  == MapSector(file, (i - 1) \div SectorCells)
        unreadable == {i \in 1 .. count : ~Readable(disc, sector(i))}
        cell(i)    ==
            LET s == disc.sectors[sector(i)]
                n == ((i - 1) % SectorCells) + 1
            IN IF s.tag = "directory" THEN s.cells[n] ELSE [cells |-> 0]
    IN [i \in 1 .. Min(unreadable \cup {count + 1}) - 1 |-> cell(i)]

\* An entry is intact when all its cells are there and none is damaged.
Intact(cells, i) ==
    /\ cells[i].cells > 0
    /\ i + cells[i].cells - 1 <= Len(cells)
    /\ \A j \in i .. i + cells[i].cells - 1 : cells[j].cells > 0

\* The search goes as far as the size of the directory's own control block, and ends
\* at the first entry that is not intact.
Search(cells, volume, name) ==
    LET Here(i)  == i <= volume.root.size /\ i <= Len(cells) /\ Intact(cells, i)
        Found(i) == Here(i) /\ SameName(Uncompress(cells[i].name), name)
        at[n \in 0 .. volume.root.size] ==
            IF n = 0 THEN 1
            ELSE LET i == at[n - 1] IN IF Here(i) /\ ~Found(i) THEN i + cells[i].cells ELSE i
        last == at[volume.root.size]
    IN IF Found(last) THEN DataBlock(volume.partitions, cells[last].icb) ELSE NoBlock

\* The last entry may begin before the limit and end after it.
FindFileInDirectory(disc, volume, file, name) ==
    IF file = InvalidPartition THEN NoBlock
    ELSE Search(CellsOf(disc, file, volume.root.size + SectorCells), volume, name)

\* AnalyzeUDFImage, for one of the two names it looks for.
Analysis(disc, volume, name) ==
    [isUDF |-> volume.root.valid,
     found |-> /\ volume.root.valid
               /\ FindFileInDirectory(disc, volume, CreateFileFromICB(disc, volume.root), name).valid]

AnalyzeUDFImage(disc, name) == Analysis(disc, FindLastVolume(ParseUDFHeaders(disc)), name)
================================================================================
