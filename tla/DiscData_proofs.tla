---------------------------- MODULE DiscData_proofs ----------------------------
(* Proofs about disc data: how the tracks of an image are found and read,     *)
(* for tables of any length and files of any size; which parser and which     *)
(* layout an image is given; what a drive replies to its host; that the discs *)
(* of the mounted formats are read right; and which discs are video discs.    *)
EXTENDS DiscData, IntervalFacts

--------------------------------------------------------------------------------
(* Tables of tracks. *)

TrackRecord == [offset : Nat, size : Nat \ {0}, start : Nat, end : Nat]

(* The tracks follow each other, without gaps, and are inside the file. *)
Follow(tracks) ==
    /\ \A i \in DOMAIN tracks : tracks[i].start <= tracks[i].end
    /\ \A i \in DOMAIN tracks : tracks[i].start = IF i = 1 THEN 0 ELSE tracks[i - 1].end
    /\ \A i, j \in DOMAIN tracks : i < j => tracks[i].end <= tracks[j].start

Inside(track, size) == track.offset + (track.end - track.start) * track.size <= size

Table(img) ==
    /\ img \in [size : Nat, tracks : Seq(TrackRecord)]
    /\ Follow(img.tracks)
    /\ \A i \in DOMAIN img.tracks : Inside(img.tracks[i], img.size)

(* Sector n of the disc is in this track. *)
Has(track, n) == track.start <= n /\ n < track.end

(* Where sector n of the disc is in the file when it is in this track. *)
PlaceIn(track, n) == track.offset + track.size * (n - track.start)

LEMMA TableFacts ==
    ASSUME NEW img, Table(img)
    PROVE  /\ Len(img.tracks) \in Nat /\ DOMAIN img.tracks = 1 .. Len(img.tracks)
           /\ img.size \in Nat
           /\ \A i \in DOMAIN img.tracks :
                 /\ img.tracks[i].offset \in Nat /\ img.tracks[i].size \in Nat \ {0}
                 /\ img.tracks[i].start \in Nat /\ img.tracks[i].end \in Nat
                 /\ img.tracks[i].start <= img.tracks[i].end
           /\ GetSectorCount(img) \in Nat
           /\ img.tracks # <<>> =>
                 /\ Len(img.tracks) \in DOMAIN img.tracks
                 /\ GetSectorCount(img) = img.tracks[Len(img.tracks)].end
<1>1. img.tracks \in Seq(TrackRecord) /\ img.size \in Nat
  BY DEF Table
<1>2. /\ Len(img.tracks) \in Nat /\ DOMAIN img.tracks = 1 .. Len(img.tracks)
      /\ \A i \in DOMAIN img.tracks : img.tracks[i] \in TrackRecord
  BY <1>1
<1>3. img.tracks # <<>> => /\ Len(img.tracks) \in DOMAIN img.tracks
                           /\ GetSectorCount(img) = img.tracks[Len(img.tracks)].end
  BY <1>1 DEF GetSectorCount, Last
<1>4. GetSectorCount(img) \in Nat
  BY <1>2, <1>3 DEF GetSectorCount, TrackRecord
<1>5. \A i \in DOMAIN img.tracks : img.tracks[i].start <= img.tracks[i].end
  BY DEF Table, Follow
<1>6. QED
  BY <1>1, <1>2, <1>3, <1>4, <1>5 DEF TrackRecord

(* The map finds the track of a sector, and there is one. *)
LEMMA TrackFound ==
    ASSUME NEW img, Table(img), NEW n \in Nat, n < GetSectorCount(img)
    PROVE  /\ TrackOf(img, n) \in DOMAIN img.tracks
           /\ Has(img.tracks[TrackOf(img, n)], n)
           /\ \A i \in DOMAIN img.tracks : Has(img.tracks[i], n) => i = TrackOf(img, n)
<1> DEFINE tracks == img.tracks
           size == Len(tracks)
           S == {1} \cup {i \in DOMAIN tracks : tracks[i].start <= n}
           k == TrackOf(img, n)
<1>1. /\ size \in Nat /\ DOMAIN tracks = 1 .. size
      /\ \A i \in DOMAIN tracks : tracks[i].start \in Nat /\ tracks[i].end \in Nat
      /\ GetSectorCount(img) \in Nat
  BY TableFacts
<1>2. tracks # <<>>
  BY DEF GetSectorCount
<1>3. size \in DOMAIN tracks /\ GetSectorCount(img) = tracks[size].end
  BY <1>2, TableFacts
<1>4. 1 \in DOMAIN tracks /\ tracks[1].start = 0
  BY <1>1, <1>3 DEF Table, Follow
<1>5. S \in SUBSET (0 .. size) /\ S # {} /\ S \subseteq DOMAIN tracks
  BY <1>1, <1>4
<1>6. k = Max(S)
  BY DEF TrackOf
<1>7. k \in S /\ \A i \in S : i <= k
  BY <1>1, <1>5, <1>6, MaxFacts
<1>8. k \in DOMAIN tracks /\ tracks[k].start <= n
  BY <1>4, <1>5, <1>7
<1> HIDE DEF k
<1>9. n < tracks[k].end
  <2>1. CASE k = size
    BY <1>3, <2>1
  <2>2. CASE k # size
    <3>1. k + 1 \in DOMAIN tracks /\ k + 1 # 1 /\ (k + 1) - 1 = k /\ ~(k + 1 <= k)
      BY <1>1, <1>8, <2>2
    <3>2. tracks[k + 1].start = tracks[k].end
      BY <3>1 DEF Table, Follow
    <3>3. k + 1 \notin S
      BY <1>7, <3>1
    <3>4. ~(tracks[k + 1].start <= n)
      BY <3>1, <3>3
    <3>5. QED
      BY <1>1, <1>8, <3>2, <3>4
  <2>3. QED
    BY <2>1, <2>2
<1>10. ASSUME NEW i \in DOMAIN tracks, Has(tracks[i], n)
       PROVE  i = k
  <2>1. i \in S /\ i <= k
    BY <1>7, <1>10 DEF Has
  <2>2. CASE i < k
    <3>1. tracks[i].end <= tracks[k].start
      BY <1>8, <2>2 DEF Table, Follow
    <3>2. QED
      BY <1>1, <1>8, <1>10, <3>1 DEF Has
  <2>3. QED
    BY <1>1, <1>8, <2>1, <2>2
<1>11. QED
  BY <1>8, <1>9, <1>10 DEF Has, k

--------------------------------------------------------------------------------
(* Reading. *)

(* The place of a sector in the file. *)
Place(img, n) == PlaceIn(img.tracks[TrackOf(img, n)], n)

(* One round of the loop of ReadSectorsBoundsChecked, given what the next     *)
(* rounds give.                                                               *)
Round(img, first, count, read, done) ==
    LET sector == first + done
        track  == img.tracks[TrackOf(img, sector)]
        todo   == Min({LeftInTrack(track, sector), count - done})
        got    == FromFile(img, track.offset + track.size * (sector - track.start),
                           track.size, todo)
    IN IF done = count \/ todo <= 0
       THEN [data |-> <<>>, reported |-> done]
       ELSE IF Len(got) < todo
       THEN [data |-> got,
             reported |-> IF track.size = CDSectorSize THEN done + todo ELSE done]
       ELSE [data |-> got \o read[done + todo].data,
             reported |-> read[done + todo].reported]

(* What the loop is to give from here on. *)
Right(img, first, count, done) ==
    [data |-> [i \in 1 .. count - done |-> Place(img, first + done + i - 1)],
     reported |-> count]

(* Every track that such a read enters begins the disc, or the read does not  *)
(* leave it: what the loop takes to be left in a track is too much otherwise. *)
Straight(img, first, count) ==
    \A i \in DOMAIN img.tracks :
        LET t == img.tracks[i] IN
        t.start = 0 \/ first + count <= t.end \/ t.end <= first

(* What one read from the file gives when all of it is there. *)
LEMMA AllFromFile ==
    ASSUME NEW img, img.size \in Nat, NEW offset \in Nat, NEW size \in Nat, NEW todo \in Nat,
           offset + todo * size <= img.size
    PROVE  FromFile(img, offset, size, todo) = [i \in 1 .. todo |-> offset + (i - 1) * size]
<1> DEFINE there == {i \in 0 .. todo : offset + i * size <= img.size}
<1>1. todo \in there
  OBVIOUS
<1>2. {0} \cup there \in SUBSET (0 .. todo) /\ {0} \cup there # {}
  OBVIOUS
<1>3. Max({0} \cup there) \in 0 .. todo /\ todo <= Max({0} \cup there)
  <2> HIDE DEF there
  <2>1. Max({0} \cup there) \in {0} \cup there /\ \A m \in {0} \cup there : m <= Max({0} \cup there)
    BY <1>2, MaxFacts
  <2>2. QED
    BY <1>1, <1>2, <2>1
<1>4. Max({0} \cup there) = todo
  BY <1>3
<1>5. QED
  BY <1>4 DEF FromFile

(* One round goes to the end of its track, or to the end of the read. *)
LEMMA RoundIsRight ==
    ASSUME NEW img, Table(img), NEW first \in Nat, NEW count \in Nat,
           first + count <= GetSectorCount(img), Straight(img, first, count),
           NEW done \in 0 .. count,
           NEW read, \A d \in 0 .. count : d > done => read[d] = Right(img, first, count, d)
    PROVE  Round(img, first, count, read, done) = Right(img, first, count, done)
<1> DEFINE sector == first + done
           k      == TrackOf(img, sector)
           track  == img.tracks[k]
           todo   == Min({LeftInTrack(track, sector), count - done})
           got    == FromFile(img, track.offset + track.size * (sector - track.start),
                              track.size, todo)
<1>1. CASE done = count
  <2>1. Round(img, first, count, read, done) = [data |-> <<>>, reported |-> done]
    BY <1>1 DEF Round
  <2>2. [i \in 1 .. count - done |-> Place(img, first + done + i - 1)] = <<>>
    BY <1>1
  <2>3. QED
    BY <1>1, <2>1, <2>2 DEF Right
<1>2. CASE done # count
  <2>1. /\ count - done \in Nat /\ count - done >= 1 /\ sector \in Nat
        /\ sector + (count - done) = first + count
        /\ sector < GetSectorCount(img)
        /\ GetSectorCount(img) \in Nat
    BY <1>2, TableFacts
  <2>2. /\ k \in DOMAIN img.tracks /\ Has(track, sector)
    BY <2>1, TrackFound
  <2>3. /\ track.offset \in Nat /\ track.size \in Nat /\ track.start \in Nat /\ track.end \in Nat
    BY <2>2, TableFacts
  <2>4. track.start <= sector /\ sector < track.end
    BY <2>2 DEF Has
  <2>5. track.start = 0 \/ first + count <= track.end
    <3>1. track.start = 0 \/ first + count <= track.end \/ track.end <= first
      BY <2>2 DEF Straight
    <3>2. first <= sector
      OBVIOUS
    <3>3. QED
      BY <2>3, <2>4, <3>1, <3>2
  <2> HIDE DEF k, track, sector
  <2>6. LeftInTrack(track, sector) \in Nat /\ LeftInTrack(track, sector) = track.end - sector + track.start
    BY <2>1, <2>3, <2>4 DEF LeftInTrack
  <2>7. /\ todo \in 1 .. count - done /\ sector + todo <= track.end
    <3>1. todo = IF LeftInTrack(track, sector) <= count - done
                 THEN LeftInTrack(track, sector) ELSE count - done
      BY <2>1, <2>6, MinOfTwo
    <3> HIDE DEF todo
    <3>2. QED
      BY <2>1, <2>3, <2>4, <2>5, <2>6, <3>1
  <2> HIDE DEF todo
  <2>8. /\ sector - track.start \in Nat
        /\ (sector - track.start) + todo <= track.end - track.start
        /\ track.end - track.start \in Nat
    BY <2>1, <2>3, <2>4, <2>7
  <2>9. /\ track.size * (sector - track.start) \in Nat
        /\ track.offset + track.size * (sector - track.start) + todo * track.size <= img.size
    <3> DEFINE before == sector - track.start
               all    == track.end - track.start
    <3>1. track.offset + all * track.size <= img.size /\ img.size \in Nat
      BY <2>2, TableFacts DEF Table, Inside, track
    <3>2. /\ (before + todo) * track.size <= all * track.size
          /\ all * track.size \in Int
      BY <2>3, <2>7, <2>8, Multiples
    <3>3. (before + todo) * track.size = track.size * before + todo * track.size
      BY <2>3, <2>7, <2>8
    <3>4. track.size * before \in Nat /\ todo * track.size \in Nat
      BY <2>3, <2>7, <2>8
    <3> HIDE DEF before, all
    <3>5. track.offset + (track.size * before + todo * track.size) <= img.size
      BY <2>3, <3>1, <3>2, <3>3, <3>4
    <3>6. QED
      BY <2>3, <3>4, <3>5 DEF before
  <2>10. got = [i \in 1 .. todo |->
                   track.offset + track.size * (sector - track.start) + (i - 1) * track.size]
    <3> DEFINE at == track.offset + track.size * (sector - track.start)
               size == track.size
    <3>1. at \in Nat /\ size \in Nat /\ todo \in Nat /\ img.size \in Nat
      BY <2>3, <2>7, <2>9, TableFacts
    <3>2. at + todo * size <= img.size
      BY <2>9
    <3> HIDE DEF at, size, got
    <3>3. FromFile(img, at, size, todo) = [i \in 1 .. todo |-> at + (i - 1) * size]
      BY <3>1, <3>2, AllFromFile
    <3>4. QED
      BY <3>3 DEF at, size, got
  <2>11. ASSUME NEW i \in 1 .. todo
         PROVE  Place(img, sector + i - 1) = got[i]
    <3>1. /\ sector + i - 1 \in Nat /\ sector + i - 1 < track.end
          /\ track.start <= sector + i - 1
      BY <2>1, <2>3, <2>4, <2>7
    <3>2. Has(track, sector + i - 1)
      BY <3>1 DEF Has
    <3>3. sector + i - 1 < GetSectorCount(img)
      BY <2>1, <2>7
    <3>4. TrackOf(img, sector + i - 1) = k
      BY <2>2, <3>1, <3>2, <3>3, TrackFound DEF track
    <3>5. Place(img, sector + i - 1) = track.offset + track.size * ((sector + i - 1) - track.start)
      <4>1. Place(img, sector + i - 1) = PlaceIn(track, sector + i - 1)
        BY <3>4, Zenon DEF Place, track
      <4>2. QED
        BY <4>1, Zenon DEF PlaceIn
    <3>6. track.size * ((sector + i - 1) - track.start)
            = track.size * (sector - track.start) + (i - 1) * track.size
      BY <2>1, <2>3, <2>7
    <3>7. track.size * (sector - track.start) \in Nat /\ (i - 1) * track.size \in Nat
      BY <2>3, <2>7, <2>9
    <3>8. got[i] = track.offset + track.size * (sector - track.start) + (i - 1) * track.size
      BY <2>10
    <3>9. QED
      BY <2>3, <3>5, <3>6, <3>7, <3>8
  <2>12. Len(got) = todo /\ DOMAIN got = 1 .. todo
    BY <2>7, <2>10
  <2>13. Round(img, first, count, read, done)
           = [data |-> got \o read[done + todo].data, reported |-> read[done + todo].reported]
    <3>1. ~(done = count \/ todo <= 0) /\ ~(Len(got) < todo)
      BY <1>2, <2>7, <2>12
    <3>2. QED
      BY <3>1 DEF Round, todo, track, k, sector
  <2>14. /\ done + todo \in 0 .. count /\ done + todo > done
         /\ count - (done + todo) = (count - done) - todo
    BY <2>1, <2>7
  <2>15. read[done + todo] = Right(img, first, count, done + todo)
    BY <2>14
  <2> DEFINE rest == [i \in 1 .. (count - done) - todo |-> Place(img, first + (done + todo) + i - 1)]
  <2>16. read[done + todo].data = rest /\ read[done + todo].reported = count
    BY <2>14, <2>15 DEF Right
  <2>17. got \o rest = [i \in 1 .. count - done |-> Place(img, first + done + i - 1)]
    <3>1. \A i \in 1 .. todo : got[i] = Place(img, first + done + i - 1)
      BY <2>11 DEF sector
    <3>2. (count - done) - todo \in Nat /\ todo \in Nat /\ count - done \in Nat
      BY <2>1, <2>7
    <3> DEFINE at(i) == Place(img, first + done + i - 1)
               more == (count - done) - todo
    <3>3. ASSUME NEW i \in 1 .. more
          PROVE  rest[i] = at(todo + i)
      <4>1. first + (done + todo) + i - 1 = first + done + (todo + i) - 1
        BY <3>2
      <4>2. QED
        BY <4>1
    <3>4. rest = [i \in 1 .. more |-> at(todo + i)]
      BY <3>3
    <3>5. got = [i \in 1 .. todo |-> at(i)]
      BY <2>10, <3>1
    <3>6. todo + more = count - done
      BY <3>2
    <3> HIDE DEF at, rest, got, more
    <3>7. [i \in 1 .. todo |-> at(i)] \o [i \in 1 .. more |-> at(todo + i)]
            = [i \in 1 .. todo + more |-> at(i)]
      <4>1. more \in Nat
        BY <3>2 DEF more
      <4>2. QED
        BY <3>2, <4>1
    <3>8. QED
      BY <3>4, <3>5, <3>6, <3>7 DEF at
  <2>18. QED
    BY <2>13, <2>16, <2>17 DEF Right
<1>3. QED
  BY <1>1, <1>2

(* The loop is the only function that its rounds define: from the end of the  *)
(* read backwards.                                                            *)
LEMMA LoopIsRight ==
    ASSUME NEW img, Table(img), NEW first \in Nat, NEW count \in Nat,
           first + count <= GetSectorCount(img), Straight(img, first, count),
           NEW read, read = [d \in 0 .. count |-> Round(img, first, count, read, d)]
    PROVE  read[0] = Right(img, first, count, 0)
<1> DEFINE Good == {n \in 0 .. count :
                       \A d \in 0 .. count : d >= count - n =>
                           read[d] = Right(img, first, count, d)}
<1>1. ASSUME NEW d \in 0 .. count,
             \A e \in 0 .. count : e > d => read[e] = Right(img, first, count, e)
      PROVE  read[d] = Right(img, first, count, d)
  <2>1. Round(img, first, count, read, d) = Right(img, first, count, d)
    BY <1>1, RoundIsRight
  <2>2. QED
    BY <2>1
<1>2. 0 \in Good
  <2>1. read[count] = Right(img, first, count, count)
    <3>1. count \in 0 .. count /\ \A e \in 0 .. count : ~(e > count)
      OBVIOUS
    <3>2. QED
      BY <1>1, <3>1
  <2>2. \A d \in 0 .. count : d >= count - 0 => d = count
    OBVIOUS
  <2>3. QED
    BY <2>1, <2>2
<1>3. ASSUME NEW n \in 0 .. count - 1, n \in Good
      PROVE  n + 1 \in Good
  <2>1. n + 1 \in 0 .. count
    OBVIOUS
  <2>2. ASSUME NEW d \in 0 .. count, d >= count - (n + 1)
        PROVE  read[d] = Right(img, first, count, d)
    <3>1. CASE d >= count - n
      BY <1>3, <3>1
    <3>2. CASE ~(d >= count - n)
      <4>1. ASSUME NEW e \in 0 .. count, e > d
            PROVE  read[e] = Right(img, first, count, e)
        <5>1. e >= count - n
          BY <2>2, <4>1
        <5>2. QED
          BY <1>3, <5>1
      <4>2. QED
        BY <1>1, <4>1
    <3>3. QED
      BY <3>1, <3>2
  <2>3. QED
    BY <2>1, <2>2
<1> HIDE DEF Good
<1>4. count \in Good
  <2>1. \A n \in 0 .. count : n \in Good
    BY <1>2, <1>3, UpTo
  <2>2. QED
    BY <2>1
<1>5. QED
  BY <1>4 DEF Good

(* MultiTrackImage.h, ReadSectorsBoundsChecked: for every table of tracks, a   *)
(* read inside the disc that ends in the track where it began, or that goes on *)
(* from a track at the beginning of the disc, reports all its sectors and      *)
(* gives each of them, from its own place in its own track.                    *)
THEOREM ReadsEverySector ==
    ASSUME NEW img, Table(img), NEW first \in Nat, NEW count \in Nat,
           first + count <= GetSectorCount(img), Straight(img, first, count)
    PROVE  ReadSectors(img, first, count) =
               [data |-> [i \in 1 .. count |-> Place(img, first + i - 1)], reported |-> count]
<1> DEFINE Loop(read) == read = [d \in 0 .. count |-> Round(img, first, count, read, d)]
           right == [d \in 0 .. count |-> Right(img, first, count, d)]
           loop == CHOOSE read : Loop(read)
<1>1. CASE img.tracks = <<>>
  <2>1. count = 0
    BY <1>1 DEF GetSectorCount
  <2>2. ReadSectors(img, first, count) = [data |-> <<>>, reported |-> 0]
    BY <1>1 DEF ReadSectors
  <2>3. [i \in 1 .. count |-> Place(img, first + i - 1)] = <<>>
    BY <2>1
  <2>4. QED
    BY <2>1, <2>2, <2>3
<1>2. CASE img.tracks # <<>>
  <2>1. \A d \in 0 .. count : Round(img, first, count, right, d) = Right(img, first, count, d)
    BY RoundIsRight
  <2>2. Loop(right)
    BY <2>1
  <2>3. Loop(loop)
    <3> HIDE DEF Loop, right
    <3>1. QED
      BY <2>2
  <2>4. ReadSectors(img, first, count) = loop[0]
    BY <1>2, Zenon DEF ReadSectors, Round
  <2> HIDE DEF loop
  <2>5. loop[0] = Right(img, first, count, 0)
    BY <2>3, LoopIsRight
  <2>6. Right(img, first, count, 0)
          = [data |-> [i \in 1 .. count |-> Place(img, first + i - 1)], reported |-> count]
    <3>1. count - 0 = count /\ \A i \in 1 .. count : first + 0 + i - 1 = first + i - 1
      OBVIOUS
    <3>2. QED
      BY <3>1 DEF Right
  <2>7. QED
    BY <2>4, <2>5, <2>6
<1>3. QED
  BY <1>1, <1>2

(* A place that is read is the sector's own, and the whole sector is in the    *)
(* file.                                                                       *)
THEOREM PlacesAreRight ==
    ASSUME NEW img, Table(img), NEW n \in Nat, n < GetSectorCount(img)
    PROVE  \E i \in DOMAIN img.tracks :
              LET t == img.tracks[i] IN
              /\ Has(t, n) /\ \A j \in DOMAIN img.tracks : Has(img.tracks[j], n) => j = i
              /\ Place(img, n) = PlaceIn(t, n)
              /\ PlaceIn(t, n) + t.size <= img.size
<1> DEFINE k == TrackOf(img, n)
           t == img.tracks[k]
<1>1. /\ k \in DOMAIN img.tracks /\ Has(t, n)
      /\ \A j \in DOMAIN img.tracks : Has(img.tracks[j], n) => j = k
  BY TrackFound
<1>2. /\ t.offset \in Nat /\ t.size \in Nat /\ t.start \in Nat /\ t.end \in Nat
      /\ img.size \in Nat
  BY <1>1, TableFacts
<1>3. Place(img, n) = PlaceIn(t, n)
  BY DEF Place
<1> HIDE DEF k
<1>4. PlaceIn(t, n) + t.size <= img.size
  <2> DEFINE before == n - t.start
             all    == t.end - t.start
  <2>1. before \in Nat /\ all \in Nat /\ before + 1 <= all
    BY <1>1, <1>2 DEF Has
  <2>2. t.offset + all * t.size <= img.size
    BY <1>1 DEF Table, Inside
  <2>3. PlaceIn(t, n) = t.offset + t.size * before
    BY DEF PlaceIn
  <2> HIDE DEF t, before, all
  <2>4. (before + 1) * t.size <= all * t.size /\ all * t.size \in Int
    BY <1>2, <2>1, Multiples
  <2>5. (before + 1) * t.size = t.size * before + t.size /\ t.size * before \in Nat
    BY <1>2, <2>1
  <2>6. QED
    BY <1>2, <2>2, <2>3, <2>4, <2>5
<1>5. QED
  BY <1>1, <1>3, <1>4 DEF t

--------------------------------------------------------------------------------
(* The tables that the parsers build. *)

(* A track of the description: whole sectors somewhere in the file, whose data *)
(* does not begin after the end of the file.                                   *)
Described(t, fileSize) ==
    /\ t.start \in Nat /\ t.end \in Nat /\ t.start <= t.end /\ t.end < Width
    /\ t.mode.main \in Nat /\ t.mode.sub \in Nat /\ t.mode.offset \in Nat
    /\ t.start + t.mode.offset <= fileSize

(* A track of the table stands for a track of the description: its sectors are *)
(* those between the data of the first one and the end of the file, or that of *)
(* the range, which has moved as far.                                          *)
StandsFor(new, t, fileSize) ==
    /\ new.offset = t.start + t.mode.offset
    /\ new.size = ImageSectorSize(t.mode)
    /\ new.end - new.start =
          ((IF t.end + t.mode.offset <= fileSize THEN t.end + t.mode.offset ELSE fileSize)
              - new.offset) \div new.size

(* The sectors of a described track that are in the file: both ends of the     *)
(* range move to the data of a sector, and the end is cut.                     *)
LEMMA NewTrack ==
    ASSUME NEW img, Table(img), img.size < Width, NEW t, Described(t, img.size),
           ImageSectorSize(t.mode) # 0
    PROVE  LET size == ImageSectorSize(t.mode)
               from == t.start + t.mode.offset
               last == IF t.end + t.mode.offset <= img.size
                       THEN t.end + t.mode.offset ELSE img.size
               new  == [offset |-> from, size |-> size, start |-> GetSectorCount(img),
                        end |-> GetSectorCount(img) + (last - from) \div size]
           IN /\ AddDataTrack(img, t.mode, t.start, t.end)
                    = [img EXCEPT !.tracks = Append(@, new)]
              /\ new \in TrackRecord /\ new.start <= new.end
              /\ Inside(new, img.size) /\ StandsFor(new, t, img.size)
<1> DEFINE size == ImageSectorSize(t.mode)
           from == t.start + t.mode.offset
           last == IF t.end + t.mode.offset <= img.size
                   THEN t.end + t.mode.offset ELSE img.size
           new  == [offset |-> from, size |-> size, start |-> GetSectorCount(img),
                    end |-> GetSectorCount(img) + (last - from) \div size]
<1>1. /\ img.size \in Nat /\ GetSectorCount(img) \in Nat /\ Width \in Nat \ {0}
  BY TableFacts, WidthAssumption DEF WidthAssumption
<1>2. size \in Nat \ {0} /\ from \in Nat /\ t.end + t.mode.offset \in Nat
  BY DEF Described, ImageSectorSize
<1>3. last = Min({t.end + t.mode.offset, img.size})
  BY <1>1, <1>2, MinOfTwo
<1>4. last - from \in 0 .. Width - 1 /\ last \in Nat /\ last <= img.size
  BY <1>1, <1>2 DEF Described
<1> HIDE DEF size, from, last
<1>5. (last - from) % Width = last - from
  BY <1>1, <1>4
<1>6. /\ (last - from) \div size \in Nat
      /\ ((last - from) \div size) * size <= last - from
  <2> DEFINE left == last - from
  <2>1. left \in Nat
    BY <1>4
  <2> HIDE DEF left
  <2>2. left \div size \in Nat /\ (left \div size) * size <= left
    BY <1>2, <2>1
  <2>3. QED
    BY <2>2 DEF left
<1>7. AddDataTrack(img, t.mode, t.start, t.end) = [img EXCEPT !.tracks = Append(@, new)]
  BY <1>3, <1>5 DEF AddDataTrack, size, from
<1>8. new \in TrackRecord /\ new.start <= new.end
  BY <1>1, <1>2, <1>6 DEF TrackRecord
<1>9. Inside(new, img.size)
  <2> DEFINE sectors == (last - from) \div size
  <2>1. new.end - new.start = sectors /\ new.offset = from /\ new.size = size
    BY <1>1, <1>6
  <2>2. sectors * size \in Nat
    BY <1>2, <1>6
  <2> HIDE DEF new, sectors
  <2>3. from + sectors * size <= img.size
    BY <1>1, <1>2, <1>4, <1>6, <2>2 DEF sectors
  <2>4. QED
    BY <2>1, <2>3 DEF Inside
<1>10. StandsFor(new, t, img.size)
  <2>1. new.end - new.start = (last - from) \div size /\ new.offset = from /\ new.size = size
    BY <1>1, <1>6
  <2> HIDE DEF new
  <2>2. QED
    BY <2>1 DEF StandsFor, size, from, last
<1>11. QED
  BY <1>7, <1>8, <1>9, <1>10 DEF size, from, last

LEMMA TrackAdded ==
    ASSUME NEW img, Table(img), img.size < Width, NEW t, Described(t, img.size),
           ImageSectorSize(t.mode) # 0
    PROVE  LET more == AddDataTrack(img, t.mode, t.start, t.end) IN
           /\ Table(more) /\ more.size = img.size
           /\ \E new : /\ more.tracks = Append(img.tracks, new)
                      /\ StandsFor(new, t, img.size)
<1> DEFINE more == AddDataTrack(img, t.mode, t.start, t.end)
           size == Len(img.tracks)
<1>1. PICK new \in TrackRecord :
        /\ more = [img EXCEPT !.tracks = Append(@, new)]
        /\ new.start = GetSectorCount(img) /\ new.start <= new.end
        /\ Inside(new, img.size) /\ StandsFor(new, t, img.size)
  BY NewTrack
<1> HIDE DEF more
<1>2. /\ img \in [size : Nat, tracks : Seq(TrackRecord)]
      /\ Follow(img.tracks) /\ \A i \in DOMAIN img.tracks : Inside(img.tracks[i], img.size)
  BY DEF Table
<1>3. /\ more \in [size : Nat, tracks : Seq(TrackRecord)]
      /\ more.size = img.size /\ more.tracks = Append(img.tracks, new)
  <2>1. Append(img.tracks, new) \in Seq(TrackRecord)
    BY <1>2
  <2>2. QED
    BY <1>1, <1>2, <2>1
<1>4. /\ size \in Nat /\ DOMAIN img.tracks = 1 .. size /\ DOMAIN more.tracks = 1 .. size + 1
      /\ more.tracks[size + 1] = new
      /\ \A i \in 1 .. size : more.tracks[i] = img.tracks[i]
  BY <1>2, <1>3
<1>5. /\ \A i \in 1 .. size : img.tracks[i].end \in Nat /\ img.tracks[i].start \in Nat
      /\ \A i \in 1 .. size : img.tracks[i].start <= img.tracks[i].end
      /\ size # 0 => GetSectorCount(img) = img.tracks[size].end
      /\ size = 0 => GetSectorCount(img) = 0
      /\ GetSectorCount(img) \in Nat
  <2>1. size # 0 => img.tracks # <<>>
    BY <1>2
  <2>2. size = 0 => img.tracks = <<>>
    BY <1>2
  <2>3. QED
    BY <1>4, <2>1, <2>2, TableFacts DEF GetSectorCount
<1>6. \A i \in 1 .. size : img.tracks[i].end <= new.start
  <2> SUFFICES ASSUME NEW i \in 1 .. size PROVE img.tracks[i].end <= new.start
    OBVIOUS
  <2>1. new.start = img.tracks[size].end /\ size \in 1 .. size
    BY <1>1, <1>4, <1>5
  <2>2. CASE i = size
    BY <1>5, <2>1, <2>2
  <2>3. CASE i # size
    <3>1. img.tracks[i].end <= img.tracks[size].start
      BY <1>2, <1>4, <2>1, <2>3 DEF Follow
    <3>2. QED
      BY <1>5, <2>1, <3>1
  <2>4. QED
    BY <2>2, <2>3
<1>7. \A i \in DOMAIN more.tracks : i \in 1 .. size \/ i = size + 1
  BY <1>4
<1>8. Follow(more.tracks)
  <2>1. \A i \in DOMAIN more.tracks : more.tracks[i].start <= more.tracks[i].end
    BY <1>1, <1>4, <1>5, <1>7
  <2>2. ASSUME NEW i \in DOMAIN more.tracks
        PROVE  more.tracks[i].start = IF i = 1 THEN 0 ELSE more.tracks[i - 1].end
    <3>1. CASE i \in 1 .. size
      <4>1. i # 1 => i - 1 \in 1 .. size
        BY <1>4, <3>1
      <4>2. img.tracks[i].start = IF i = 1 THEN 0 ELSE img.tracks[i - 1].end
        BY <1>2, <1>4, <3>1 DEF Follow
      <4>3. QED
        BY <1>4, <3>1, <4>1, <4>2
    <3>2. CASE i = size + 1
      <4>1. i = 1 <=> size = 0
        BY <1>4, <3>2
      <4>2. size # 0 => i - 1 = size /\ size \in 1 .. size
        BY <1>4, <3>2
      <4>3. QED
        BY <1>1, <1>4, <1>5, <3>2, <4>1, <4>2
    <3>3. QED
      BY <1>7, <3>1, <3>2
  <2>3. ASSUME NEW i \in DOMAIN more.tracks, NEW j \in DOMAIN more.tracks, i < j
        PROVE  more.tracks[i].end <= more.tracks[j].start
    <3>1. i \in 1 .. size
      BY <1>4, <2>3
    <3>2. CASE j \in 1 .. size
      BY <1>2, <1>4, <2>3, <3>1, <3>2 DEF Follow
    <3>3. CASE j = size + 1
      BY <1>4, <1>6, <3>1, <3>3
    <3>4. QED
      BY <1>7, <3>2, <3>3
  <2>4. QED
    BY <2>1, <2>2, <2>3 DEF Follow
<1>9. \A i \in DOMAIN more.tracks : Inside(more.tracks[i], more.size)
  BY <1>1, <1>2, <1>3, <1>4, <1>7
<1>10. QED
  BY <1>1, <1>3, <1>8, <1>9 DEF Table, more

Image(fileSize) ==
    {img \in [size : Nat, tracks : Seq(TrackRecord)] : Table(img) /\ img.size = fileSize}

Adding(fileSize) == [failed : BOOLEAN, image : Image(fileSize)]

LEMMA OneMore ==
    ASSUME NEW fileSize \in Nat, fileSize < Width,
           NEW acc \in Adding(fileSize),
           NEW t, IsDataTrack(t) => Described(t, fileSize)
    PROVE  AddTrack(acc, t) \in Adding(fileSize)
<1>1. CASE ~IsDataTrack(t)
  BY <1>1 DEF AddTrack
<1>2. CASE IsDataTrack(t) /\ (acc.failed \/ ~CanAddDataTrack(t.mode, t.start, t.end))
  BY <1>2 DEF AddTrack, Adding
<1>3. CASE IsDataTrack(t) /\ ~acc.failed /\ CanAddDataTrack(t.mode, t.start, t.end)
  <2> DEFINE more == AddDataTrack(acc.image, t.mode, t.start, t.end)
  <2>1. Table(acc.image) /\ acc.image.size = fileSize
    BY DEF Adding, Image
  <2>2. ImageSectorSize(t.mode) # 0
    BY <1>3 DEF CanAddDataTrack
  <2>3. Table(more) /\ more.size = fileSize
    BY <1>3, <2>1, <2>2, TrackAdded
  <2>4. more \in Image(fileSize)
    BY <2>3 DEF Image, Table
  <2>5. AddTrack(acc, t) = [acc EXCEPT !.image = more]
    BY <1>3 DEF AddTrack
  <2> HIDE DEF more
  <2>6. QED
    BY <2>4, <2>5 DEF Adding
<1>4. QED
  BY <1>1, <1>2, <1>3

(* The rounds of the parser's loop over the tracks. *)
Rounds(added, fileSize, tracks) ==
    added = [i \in 0 .. Len(tracks) |->
                IF i = 0 THEN [failed |-> FALSE, image |-> EmptyImage(fileSize)]
                ELSE AddTrack(added[i - 1], tracks[i])]

LEMMA AddedFacts ==
    ASSUME NEW fileSize \in Nat, fileSize < Width, NEW tracks, Len(tracks) \in Nat,
           \A i \in 1 .. Len(tracks) : IsDataTrack(tracks[i]) => Described(tracks[i], fileSize)
    PROVE  \E added : /\ Rounds(added, fileSize, tracks)
                      /\ AddTracks(fileSize, tracks) = added[Len(tracks)]
                      /\ \A i \in 0 .. Len(tracks) : added[i] \in Adding(fileSize)
<1> DEFINE n == Len(tracks)
           S == Adding(fileSize)
           base == [failed |-> FALSE, image |-> EmptyImage(fileSize)]
           step == [i \in 1 .. n |-> [acc \in S |-> AddTrack(acc, tracks[i])]]
           Added(f) == Rounds(f, fileSize, tracks)
           added == CHOOSE f : Added(f)
<1>1. base \in S
  <2>1. <<>> \in Seq(TrackRecord) /\ DOMAIN <<>> = {}
    OBVIOUS
  <2>2. EmptyImage(fileSize) \in Image(fileSize)
    BY <2>1 DEF Image, EmptyImage, Table, Follow
  <2>3. QED
    BY <2>2 DEF Adding
<1>2. \A i \in 1 .. n, acc \in S : AddTrack(acc, tracks[i]) \in S
  BY OneMore
<1> HIDE DEF S
<1>3. step \in [1 .. n -> [S -> S]]
  BY <1>2
<1>4. \A i \in 1 .. n, acc \in S : step[i][acc] = AddTrack(acc, tracks[i])
  OBVIOUS
<1> HIDE DEF step
<1>5. \E f : Added(f)
  <2>1. PICK f : Recursive(f, n, S, base, step)
    <3> HIDE DEF n, Added, base
    <3>1. n \in Nat
      BY DEF n
    <3>2. QED
      BY <1>1, <1>3, <3>1, Recursion
  <2>2. ASSUME NEW i \in 0 .. n, i # 0
        PROVE  step[i][f[i - 1]] = AddTrack(f[i - 1], tracks[i])
    <3>1. i \in 1 .. n /\ i - 1 \in 0 .. n
      BY <2>2
    <3>2. f[i - 1] \in S
      BY <2>1, <3>1 DEF Recursive
    <3>3. QED
      BY <1>4, <3>1, <3>2
  <2>3. f = [i \in 0 .. n |-> IF i = 0 THEN base ELSE AddTrack(f[i - 1], tracks[i])]
    BY <2>1, <2>2 DEF Recursive
  <2>4. QED
    BY <2>3 DEF Rounds
<1>6. Added(added)
  <2> HIDE DEF Added
  <2>1. QED
    BY <1>5
<1>7. AddTracks(fileSize, tracks) = added[n]
  BY DEF AddTracks, Rounds
<1> HIDE DEF added
<1> DEFINE Good == {i \in 0 .. n : added[i] \in S}
<1>8. 0 \in Good
  <2>1. 0 \in 0 .. n /\ added[0] = base
    BY <1>6 DEF Rounds
  <2> HIDE DEF base
  <2>2. QED
    BY <1>1, <2>1
<1>9. ASSUME NEW i \in 0 .. n - 1, i \in Good
      PROVE  i + 1 \in Good
  <2>1. i + 1 \in 0 .. n /\ i + 1 \in 1 .. n /\ i + 1 # 0 /\ (i + 1) - 1 = i
    OBVIOUS
  <2>2. added[i + 1] = AddTrack(added[i], tracks[i + 1])
    BY <1>6, <2>1 DEF Rounds
  <2>3. QED
    BY <1>2, <1>9, <2>1, <2>2
<1> HIDE DEF Good
<1>10. \A i \in 0 .. n : i \in Good
  BY <1>8, <1>9, UpTo
<1>11. QED
  BY <1>6, <1>7, <1>10 DEF Good, S

(* MDSParser.cpp, NRGParser.cpp: whatever tracks a description has, as long as *)
(* its data tracks are in the file, their table follows the disc from its      *)
(* first sector to its last without gaps and never leads past the end of the   *)
(* file; also when a track in the middle is refused.                           *)
THEOREM ParsersBuildTables ==
    ASSUME NEW fileSize \in Nat, fileSize < Width, NEW tracks, Len(tracks) \in Nat,
           \A i \in 1 .. Len(tracks) : IsDataTrack(tracks[i]) => Described(tracks[i], fileSize)
    PROVE  LET img == AddTracks(fileSize, tracks).image IN
           Table(img) /\ img.size = fileSize
<1>1. PICK added : /\ AddTracks(fileSize, tracks) = added[Len(tracks)]
                   /\ \A i \in 0 .. Len(tracks) : added[i] \in Adding(fileSize)
  BY AddedFacts
<1>2. added[Len(tracks)] \in Adding(fileSize)
  BY <1>1
<1>3. QED
  BY <1>1, <1>2 DEF Adding, Image

(* The tracks of the table are data tracks of the first n of the description,  *)
(* in their order: track k of the table is track at[k].                        *)
Represents(img, tracks, n, at) ==
    /\ at \in Seq(1 .. n) /\ Len(at) = Len(img.tracks)
    /\ \A j, k \in DOMAIN at : j < k => at[j] < at[k]
    /\ \A k \in DOMAIN at : /\ IsDataTrack(tracks[at[k]])
                            /\ StandsFor(img.tracks[k], tracks[at[k]], img.size)

(* None of them is missing. *)
AllAre(tracks, n, at) ==
    \A i \in 1 .. n : IsDataTrack(tracks[i]) => \E k \in DOMAIN at : at[k] = i

LEMMA OneMoreRepresented ==
    ASSUME NEW fileSize \in Nat, fileSize < Width, NEW acc \in Adding(fileSize),
           NEW tracks, NEW n \in Nat,
           IsDataTrack(tracks[n + 1]) => Described(tracks[n + 1], fileSize),
           NEW at, Represents(acc.image, tracks, n, at),
           ~acc.failed => AllAre(tracks, n, at)
    PROVE  LET next == AddTrack(acc, tracks[n + 1]) IN
           \E more : /\ Represents(next.image, tracks, n + 1, more)
                     /\ ~next.failed => AllAre(tracks, n + 1, more)
<1> DEFINE t == tracks[n + 1]
           next == AddTrack(acc, t)
<1>1. /\ at \in Seq(1 .. n) /\ Len(at) = Len(acc.image.tracks)
      /\ \A j, k \in DOMAIN at : j < k => at[j] < at[k]
      /\ \A k \in DOMAIN at : /\ IsDataTrack(tracks[at[k]])
                              /\ StandsFor(acc.image.tracks[k], tracks[at[k]], acc.image.size)
  BY DEF Represents
<1>2. at \in Seq(1 .. n + 1) /\ \A i \in 1 .. n + 1 : i \in 1 .. n \/ i = n + 1
  <2>1. 1 .. n \subseteq 1 .. n + 1
    OBVIOUS
  <2>2. \A i \in 1 .. n + 1 : i \in 1 .. n \/ i = n + 1
    OBVIOUS
  <2>3. at \in Seq(1 .. n + 1)
    BY <1>1, <2>1
  <2>4. QED
    BY <2>2, <2>3
<1>3. Represents(acc.image, tracks, n + 1, at)
  BY <1>1, <1>2 DEF Represents
<1>4. CASE ~IsDataTrack(t)
  <2>1. next = acc
    BY <1>4 DEF AddTrack
  <2>2. ~acc.failed => AllAre(tracks, n + 1, at)
    BY <1>2, <1>4 DEF AllAre
  <2>3. QED
    BY <1>3, <2>1, <2>2
<1>5. CASE IsDataTrack(t) /\ (acc.failed \/ ~CanAddDataTrack(t.mode, t.start, t.end))
  <2>1. next.failed /\ next.image = acc.image
    BY <1>5 DEF AddTrack, Adding
  <2>2. QED
    BY <1>3, <2>1
<1>6. CASE IsDataTrack(t) /\ ~acc.failed /\ CanAddDataTrack(t.mode, t.start, t.end)
  <2> DEFINE img == acc.image
             size == Len(at)
             more == Append(at, n + 1)
  <2>1. Table(img) /\ img.size = fileSize
    BY DEF Adding, Image
  <2>2. next.image = AddDataTrack(img, t.mode, t.start, t.end)
    BY <1>6 DEF AddTrack, Adding
  <2>3. ImageSectorSize(t.mode) # 0 /\ Described(t, fileSize)
    BY <1>6 DEF CanAddDataTrack
  <2> HIDE DEF t, next
  <2>4. PICK new : /\ next.image.tracks = Append(img.tracks, new)
                   /\ StandsFor(new, t, fileSize) /\ next.image.size = fileSize
    BY <2>1, <2>2, <2>3, TrackAdded
  <2>5. img.tracks \in Seq(TrackRecord)
    BY <2>1 DEF Table
  <2>6. /\ size \in Nat /\ DOMAIN at = 1 .. size /\ DOMAIN more = 1 .. size + 1
        /\ more \in Seq(1 .. n + 1) /\ Len(more) = Len(next.image.tracks)
        /\ more[size + 1] = n + 1 /\ next.image.tracks[size + 1] = new
        /\ \A k \in 1 .. size : at[k] \in 1 .. n /\ more[k] = at[k]
    <3>1. n + 1 \in 1 .. n + 1
      OBVIOUS
    <3>2. size \in Nat /\ DOMAIN at = 1 .. size /\ \A k \in 1 .. size : at[k] \in 1 .. n
      BY <1>1
    <3>3. more \in Seq(1 .. n + 1) /\ DOMAIN more = 1 .. size + 1 /\ Len(more) = size + 1
          /\ more[size + 1] = n + 1 /\ \A k \in 1 .. size : more[k] = at[k]
      BY <1>2, <3>1
    <3>4. Len(next.image.tracks) = size + 1 /\ next.image.tracks[size + 1] = new
      BY <1>1, <2>4, <2>5
    <3>5. QED
      BY <3>2, <3>3, <3>4
  <2>7. \A k \in 1 .. size : next.image.tracks[k] = img.tracks[k]
    BY <1>1, <2>4, <2>5
  <2> HIDE DEF more, size, img
  <2>8. \A k \in 1 .. size + 1 : k \in 1 .. size \/ k = size + 1
    BY <2>6
  <2>9. \A j, k \in DOMAIN more : j < k => more[j] < more[k]
    <3> SUFFICES ASSUME NEW j \in 1 .. size + 1, NEW k \in 1 .. size + 1, j < k
                 PROVE  more[j] < more[k]
      BY <2>6
    <3>1. j \in 1 .. size
      BY <2>6
    <3>2. CASE k \in 1 .. size
      BY <1>1, <2>6, <3>1, <3>2
    <3>3. CASE k = size + 1
      BY <2>6, <3>1, <3>3
    <3>4. QED
      BY <2>8, <3>2, <3>3
  <2>10. \A k \in DOMAIN more : /\ IsDataTrack(tracks[more[k]])
                                /\ StandsFor(next.image.tracks[k], tracks[more[k]], next.image.size)
    <3> SUFFICES ASSUME NEW k \in 1 .. size + 1
                 PROVE  /\ IsDataTrack(tracks[more[k]])
                        /\ StandsFor(next.image.tracks[k], tracks[more[k]], next.image.size)
      BY <2>6
    <3>1. CASE k \in 1 .. size
      BY <1>1, <2>1, <2>4, <2>6, <2>7, <3>1 DEF img
    <3>2. CASE k = size + 1
      BY <1>6, <2>4, <2>6, <3>2 DEF t
    <3>3. QED
      BY <2>8, <3>1, <3>2
  <2>11. Represents(next.image, tracks, n + 1, more)
    BY <2>6, <2>9, <2>10 DEF Represents
  <2>12. AllAre(tracks, n + 1, more)
    <3> SUFFICES ASSUME NEW i \in 1 .. n + 1, IsDataTrack(tracks[i])
                 PROVE  \E k \in DOMAIN more : more[k] = i
      BY DEF AllAre
    <3>1. CASE i \in 1 .. n
      <4>1. PICK k \in DOMAIN at : at[k] = i
        BY <1>6, <3>1 DEF AllAre
      <4>2. k \in DOMAIN more /\ more[k] = i
        BY <2>6, <4>1
      <4>3. QED
        BY <4>2
    <3>2. CASE i = n + 1
      <4>1. size + 1 \in DOMAIN more
        BY <2>6
      <4>2. QED
        BY <2>6, <3>2, <4>1
    <3>3. QED
      BY <1>2, <3>1, <3>2
  <2>13. QED
    BY <2>11, <2>12 DEF next, t
<1>7. QED
  BY <1>4, <1>5, <1>6

(* MDSParser.cpp, NRGParser.cpp: the table has only data tracks of the         *)
(* description, each once and in their order, with the sectors of its range    *)
(* that are in the file; and when none is refused, it has all of them.         *)
THEOREM TablesAreComplete ==
    ASSUME NEW fileSize \in Nat, fileSize < Width, NEW tracks, Len(tracks) \in Nat,
           \A i \in 1 .. Len(tracks) : IsDataTrack(tracks[i]) => Described(tracks[i], fileSize)
    PROVE  LET result == AddTracks(fileSize, tracks) IN
           \E at : /\ Represents(result.image, tracks, Len(tracks), at)
                   /\ ~result.failed => AllAre(tracks, Len(tracks), at)
<1> DEFINE n == Len(tracks)
<1>1. PICK added : /\ Rounds(added, fileSize, tracks)
                   /\ AddTracks(fileSize, tracks) = added[n]
                   /\ \A i \in 0 .. n : added[i] \in Adding(fileSize)
  BY AddedFacts
<1> DEFINE Fine(i, at) == /\ Represents(added[i].image, tracks, i, at)
                          /\ ~added[i].failed => AllAre(tracks, i, at)
           Good == {i \in 0 .. n : \E at : Fine(i, at)}
<1>2. 0 \in Good
  <2>1. added[0] = [failed |-> FALSE, image |-> EmptyImage(fileSize)]
    BY <1>1 DEF Rounds
  <2>2. <<>> \in Seq(1 .. 0) /\ Len(<<>>) = 0 /\ DOMAIN <<>> = {}
    OBVIOUS
  <2>3. Fine(0, <<>>)
    BY <2>1, <2>2 DEF Represents, AllAre, EmptyImage
  <2>4. 0 \in 0 .. n
    OBVIOUS
  <2> HIDE DEF Fine
  <2>5. QED
    BY <2>3, <2>4
<1>3. ASSUME NEW i \in 0 .. n - 1, i \in Good
      PROVE  i + 1 \in Good
  <2>1. /\ i \in Nat /\ i \in 0 .. n /\ i + 1 \in 0 .. n /\ i + 1 \in 1 .. n
        /\ i + 1 # 0 /\ (i + 1) - 1 = i
    OBVIOUS
  <2>2. added[i + 1] = AddTrack(added[i], tracks[i + 1])
    BY <1>1, <2>1 DEF Rounds
  <2>3. PICK at : Fine(i, at)
    BY <1>3
  <2>4. added[i] \in Adding(fileSize)
    BY <1>1, <2>1
  <2>5. \E more : /\ Represents(AddTrack(added[i], tracks[i + 1]).image, tracks, i + 1, more)
                  /\ ~AddTrack(added[i], tracks[i + 1]).failed => AllAre(tracks, i + 1, more)
    BY <2>1, <2>3, <2>4, OneMoreRepresented
  <2>6. \E more : Fine(i + 1, more)
    BY <2>2, <2>5
  <2> HIDE DEF Fine
  <2>7. QED
    BY <2>1, <2>6
<1> HIDE DEF Good, Fine
<1>4. n \in Good
  <2>1. \A i \in 0 .. n : i \in Good
    BY <1>2, <1>3, UpTo
  <2>2. QED
    BY <2>1
<1>5. QED
  BY <1>1, <1>4 DEF Good, Fine

(* With at most two tracks of data, one begins the disc and the other ends it. *)
LEMMA TwoTracks ==
    ASSUME NEW img, Table(img), Len(img.tracks) <= 2, NEW first \in Nat, NEW count \in Nat,
           first + count <= GetSectorCount(img)
    PROVE  Straight(img, first, count)
<1> SUFFICES ASSUME NEW i \in DOMAIN img.tracks
             PROVE  \/ img.tracks[i].start = 0
                    \/ first + count <= img.tracks[i].end
  BY DEF Straight
<1>1. /\ Len(img.tracks) \in Nat /\ DOMAIN img.tracks = 1 .. Len(img.tracks)
      /\ img.tracks # <<>> => GetSectorCount(img) = img.tracks[Len(img.tracks)].end
  BY TableFacts
<1>2. CASE i = 1
  BY <1>2 DEF Table, Follow
<1>3. CASE i # 1
  <2>1. i = Len(img.tracks)
    BY <1>1, <1>3
  <2>2. img.tracks # <<>>
    BY <1>1
  <2>3. QED
    BY <1>1, <2>1, <2>2
<1>4. QED
  BY <1>2, <1>3

(* OpenMDS and OpenNRG with ReadSectorsBoundsChecked: a disc with at most two   *)
(* data tracks, of any layouts and lengths, is read right wherever a read       *)
(* inside the disc begins and ends, also across the two tracks; every sector is *)
(* in one track, and comes from its place in it.                                *)
THEOREM DiscIsRead ==
    ASSUME NEW fileSize \in Nat, fileSize < Width, NEW tracks, Len(tracks) \in Nat,
           \A i \in 1 .. Len(tracks) : IsDataTrack(tracks[i]) => Described(tracks[i], fileSize),
           NEW img, img = AddTracks(fileSize, tracks).image, Len(img.tracks) <= 2,
           NEW first \in Nat, NEW count \in Nat, first + count <= GetSectorCount(img)
    PROVE  LET read == ReadSectors(img, first, count) IN
           /\ read.reported = count /\ Len(read.data) = count
           /\ \A i \in 1 .. count : \E k \in DOMAIN img.tracks :
                 LET t == img.tracks[k] IN
                 /\ Has(t, first + i - 1) /\ read.data[i] = PlaceIn(t, first + i - 1)
                 /\ read.data[i] + t.size <= fileSize
<1>1. Table(img) /\ img.size = fileSize
  BY ParsersBuildTables
<1>2. Straight(img, first, count)
  BY <1>1, TwoTracks
<1>3. ReadSectors(img, first, count) =
          [data |-> [i \in 1 .. count |-> Place(img, first + i - 1)], reported |-> count]
  BY <1>1, <1>2, ReadsEverySector
<1>4. ASSUME NEW i \in 1 .. count
      PROVE  \E k \in DOMAIN img.tracks :
                LET t == img.tracks[k] IN
                /\ Has(t, first + i - 1) /\ Place(img, first + i - 1) = PlaceIn(t, first + i - 1)
                /\ Place(img, first + i - 1) + t.size <= fileSize
  <2> DEFINE n == first + i - 1
  <2>1. n \in Nat /\ n < GetSectorCount(img)
    BY <1>1, TableFacts
  <2> HIDE DEF n
  <2>2. \E k \in DOMAIN img.tracks :
           LET t == img.tracks[k] IN
           /\ Has(t, n) /\ Place(img, n) = PlaceIn(t, n) /\ Place(img, n) + t.size <= fileSize
    BY <1>1, <2>1, PlacesAreRight
  <2>3. QED
    BY <2>2 DEF n
<1>5. QED
  BY <1>3, <1>4

--------------------------------------------------------------------------------
(* Reading from the drive, while another image may take the place of this one. *)

LEMMA PartIsStraight ==
    ASSUME NEW img, Table(img), NEW first \in Nat, NEW count \in Nat,
           Straight(img, first, count), NEW less \in 0 .. count
    PROVE  Straight(img, first, less)
<1> SUFFICES ASSUME NEW i \in DOMAIN img.tracks
             PROVE  LET t == img.tracks[i] IN
                    t.start = 0 \/ first + less <= t.end \/ t.end <= first
  BY DEF Straight
<1>1. img.tracks[i].end \in Nat
  BY TableFacts
<1>2. \/ img.tracks[i].start = 0 \/ first + count <= img.tracks[i].end
      \/ img.tracks[i].end <= first
  BY DEF Straight
<1>3. QED
  BY <1>1, <1>2

(* What the three looks at the number of sectors find: this disc's at the first *)
(* ones, another one's at those that are left.                                  *)
Looks(looks, img, other) == [i \in 1 .. 3 |-> IF i <= looks THEN GetSectorCount(img) ELSE other]

(* The read gives a beginning of the sectors asked for, each from its own place, *)
(* and all of them when the first two looks found this disc.                     *)
Begun(img, looks, other, first, count) ==
    \E n \in 0 .. count :
        /\ DriveRead(img, Looks(looks, img, other), first, count)
              = [i \in 1 .. n |-> Place(img, first + i - 1)]
        /\ looks >= 2 => n = count

(* VirtualCDDevice::Read: the number of sectors changes from this disc's to     *)
(* another one at any of its three looks.  A request inside this disc gives a   *)
(* beginning of the sectors asked for, each from its own place, and all of them *)
(* when the change comes after the second look.                                 *)
THEOREM ReplacedWhileReading ==
    ASSUME NEW img, Table(img), NEW first \in Nat, NEW count \in Nat,
           first + count <= GetSectorCount(img), Straight(img, first, count),
           GetSectorCount(img) < Width,
           NEW looks \in 0 .. 3, NEW other \in Nat
    PROVE  Begun(img, looks, other, first, count)
<1> DEFINE seen == Looks(looks, img, other)
<1> SUFFICES \E n \in 0 .. count :
                /\ DriveRead(img, seen, first, count)
                      = [i \in 1 .. n |-> Place(img, first + i - 1)]
                /\ looks >= 2 => n = count
  BY DEF Begun
<1> DEFINE size == GetSectorCount(img)
           todo == IF count > (seen[2] - first) % Width THEN (seen[3] - first) % Width ELSE count
<1>1. size \in Nat /\ Width \in Nat \ {0}
  BY TableFacts, WidthAssumption DEF WidthAssumption
<1>2. /\ seen[1] = IF looks >= 1 THEN size ELSE other
      /\ seen[2] = IF looks >= 2 THEN size ELSE other
      /\ seen[3] = IF looks >= 3 THEN size ELSE other
  BY DEF Looks
<1> HIDE DEF size, seen
<1>3. first + count <= size /\ size < Width
  BY DEF size
<1>4. todo \in 0 .. count /\ (looks >= 2 => todo = count)
  <2>1. CASE looks >= 2
    <3>1. seen[2] - first \in 0 .. Width - 1 /\ ~(count > seen[2] - first)
      BY <1>1, <1>2, <1>3, <2>1
    <3>2. (seen[2] - first) % Width = seen[2] - first
      BY <1>1, <3>1
    <3>3. QED
      BY <3>1, <3>2
  <2>2. CASE ~(looks >= 2)
    <3>1. seen[2] = other /\ seen[3] = other
      BY <1>2, <2>2
    <3>2. (other - first) % Width \in 0 .. Width - 1
      BY <1>1
    <3>3. QED
      BY <2>2, <3>1, <3>2
  <2>3. QED
    BY <2>1, <2>2
<1>5. DriveRead(img, seen, first, count) =
          IF first > seen[1] THEN <<>> ELSE ReadSectors(img, first, todo).data
  BY DEF DriveRead
<1> HIDE DEF todo
<1>6. ReadSectors(img, first, todo).data = [i \in 1 .. todo |-> Place(img, first + i - 1)]
  <2>1. todo \in Nat /\ first + todo <= GetSectorCount(img)
    BY <1>1, <1>3, <1>4 DEF size
  <2>2. Straight(img, first, todo)
    BY <1>4, PartIsStraight
  <2>3. QED
    BY <2>1, <2>2, ReadsEverySector
<1>7. CASE first > seen[1]
  <2>1. ~(looks >= 2) /\ DriveRead(img, seen, first, count) = <<>>
    BY <1>1, <1>2, <1>3, <1>5, <1>7
  <2>2. [i \in 1 .. 0 |-> Place(img, first + i - 1)] = <<>> /\ 0 \in 0 .. count
    OBVIOUS
  <2>3. QED
    BY <2>1, <2>2
<1>8. CASE ~(first > seen[1])
  <2>1. DriveRead(img, seen, first, count) = [i \in 1 .. todo |-> Place(img, first + i - 1)]
    BY <1>5, <1>6, <1>8
  <2>2. QED
    BY <1>4, <2>1
<1>9. QED
  BY <1>7, <1>8

(* VirtualCDDevice::Read, with nothing replaced: of a request that goes on past *)
(* the end of the disc, or begins there, what the disc has is read.             *)
THEOREM ReadsAreCut ==
    ASSUME NEW img, Table(img), GetSectorCount(img) < Width,
           NEW first \in Nat, NEW count \in Nat,
           NEW seen, seen = [i \in 1 .. 3 |-> GetSectorCount(img)],
           NEW n \in Nat,
           n = IF first > GetSectorCount(img) THEN 0
               ELSE IF first + count <= GetSectorCount(img) THEN count
               ELSE GetSectorCount(img) - first,
           Straight(img, first, n)
    PROVE  DriveRead(img, seen, first, count) = [i \in 1 .. n |-> Place(img, first + i - 1)]
<1> DEFINE size == GetSectorCount(img)
           todo == IF count > (size - first) % Width THEN (size - first) % Width ELSE count
<1>1. size \in Nat /\ Width \in Nat \ {0}
  BY TableFacts, WidthAssumption DEF WidthAssumption
<1>2. DriveRead(img, seen, first, count) =
          IF first > size THEN <<>> ELSE ReadSectors(img, first, todo).data
  BY DEF DriveRead
<1>3. CASE first > size
  <2>1. n = 0
    BY <1>3
  <2>2. [i \in 1 .. n |-> Place(img, first + i - 1)] = <<>>
    BY <2>1
  <2>3. QED
    BY <1>2, <1>3, <2>2
<1>4. CASE ~(first > size)
  <2> HIDE DEF size
  <2>1. size - first \in 0 .. Width - 1
    BY <1>1, <1>4 DEF size
  <2>2. (size - first) % Width = size - first
    BY <1>1, <2>1
  <2>3. n = IF first + count <= size THEN count ELSE size - first
    BY <1>4 DEF size
  <2>4. todo = n /\ first + n <= size
    BY <1>1, <1>4, <2>1, <2>2, <2>3
  <2> HIDE DEF todo
  <2>5. ReadSectors(img, first, n).data = [i \in 1 .. n |-> Place(img, first + i - 1)]
    BY <2>4, ReadsEverySector DEF size
  <2>6. QED
    BY <1>2, <1>4, <2>4, <2>5
<1>5. QED
  BY <1>3, <1>4

--------------------------------------------------------------------------------
(* Raw images. *)

\* A read of an image with so many whole sectors gives those asked for that there are.
WholeIsRead(img, whole, sector, offset) ==
    /\ \A first \in 0 .. whole : \A count \in Nat :
          RawRead(img, first, count) =
              [i \in 1 .. Min({count, whole - first}) |-> offset + (first + i - 1) * sector]
    /\ RawSectorCount(img) >= whole

(* IMGParser.h, ReadSectorsBoundsChecked: of a raw image with so many whole     *)
(* sectors, whatever their size and wherever their data begins, a read gives    *)
(* all the sectors asked for that the file has, and stops there: the 150        *)
(* sectors that are counted past its end are not read.                          *)
THEOREM RawImageIsRead ==
    ASSUME NEW sector \in Nat, NEW offset \in Nat, offset + CDSectorSize <= sector,
           NEW whole \in Nat, NEW extra \in Nat, extra < offset + CDSectorSize
    PROVE  WholeIsRead(RawImage(whole * sector + extra, sector, offset), whole, sector, offset)
<1> DEFINE img == RawImage(whole * sector + extra, sector, offset)
<1>1. /\ img.size = whole * sector + extra /\ img.sector = sector /\ img.offset = offset
      /\ whole * sector \in Nat /\ img.size \in Nat
      /\ CDSectorSize \in Nat /\ sector >= 1
  BY DEF RawImage, CDSectorSize
<1>2. ASSUME NEW n \in Nat
      PROVE  n < whole <=> offset + n * sector + CDSectorSize <= img.size
  <2>1. n * sector \in Nat
    OBVIOUS
  <2>2. CASE n < whole
    <3>1. (n + 1) * sector <= whole * sector
      BY <2>2, Multiples
    <3>2. (n + 1) * sector = n * sector + sector
      OBVIOUS
    <3>3. QED
      BY <1>1, <2>1, <2>2, <3>1, <3>2
  <2>3. CASE ~(n < whole)
    <3>1. whole * sector <= n * sector
      BY <2>3, Multiples
    <3>2. QED
      BY <1>1, <2>1, <2>3, <3>1
  <2>4. QED
    BY <2>2, <2>3
<1>3. ASSUME NEW first \in 0 .. whole, NEW count \in Nat
      PROVE  RawRead(img, first, count) =
                 [i \in 1 .. Min({count, whole - first}) |-> offset + (first + i - 1) * sector]
  <2> DEFINE read  == Min({count, whole - first})
             there == {i \in 1 .. count :
                         img.offset + (first + i - 1) * img.sector + CDSectorSize <= img.size}
  <2>1. read = IF count <= whole - first THEN count ELSE whole - first
    BY MinOfTwo
  <2> HIDE DEF read
  <2>2. read \in Nat /\ read \in 0 .. count /\ first + read <= whole
    BY <2>1
  <2>3. ASSUME NEW i \in 1 .. count
        PROVE  i \in there <=> i <= read
    <3> DEFINE n == first + i - 1
    <3>1. n \in Nat /\ (n < whole <=> i <= read)
      BY <2>1
    <3>2. i \in there <=> offset + n * sector + CDSectorSize <= img.size
      BY <1>1
    <3> HIDE DEF n, img
    <3>3. QED
      BY <1>2, <3>1, <3>2
  <2>4. there = 1 .. read
    <3>1. there \subseteq 1 .. count
      OBVIOUS
    <3> HIDE DEF there
    <3>2. \A i : i \in 1 .. read <=> i \in 1 .. count /\ i <= read
      BY <2>2
    <3>3. QED
      BY <2>3, <3>1, <3>2
  <2>5. Max({0} \cup there) = read
    <3> HIDE DEF there
    <3>1. {0} \cup there = 0 .. read
      BY <2>2, <2>4
    <3>2. read \in Nat /\ 0 .. read \in SUBSET (0 .. read) /\ 0 .. read # {}
      BY <2>2
    <3>3. Max(0 .. read) \in 0 .. read /\ \A m \in 0 .. read : m <= Max(0 .. read)
      BY <3>2, MaxFacts
    <3>4. read \in 0 .. read /\ Max(0 .. read) \in Int
      BY <3>2, <3>3
    <3>5. read <= Max(0 .. read) /\ Max(0 .. read) <= read
      BY <3>2, <3>3, <3>4
    <3>6. Max(0 .. read) = read
      BY <3>2, <3>4, <3>5
    <3>7. QED
      BY <3>1, <3>6
  <2>6. RawRead(img, first, count) = [i \in 1 .. read |-> offset + (first + i - 1) * sector]
    BY <1>1, <2>5 DEF RawRead
  <2>7. QED
    BY <2>6 DEF read
<1>4. RawSectorCount(img) >= whole
  <2> DEFINE left == img.size - offset
  <2>1. left \in Int /\ left >= whole * sector - sector
    BY <1>1
  <2>2. left \div sector \in Int /\ left < (left \div sector) * sector + sector
    <3> HIDE DEF left
    <3>1. QED
      BY <1>1, <2>1
  <2> DEFINE d == left \div sector
  <2>3. RawSectorCount(img) = d + 150
    BY <1>1 DEF RawSectorCount
  <2> HIDE DEF d, left, img
  <2>4. d \in Int /\ whole * sector - sector < d * sector + sector
    BY <1>1, <2>1, <2>2 DEF d
  <2>5. CASE whole > d + 2
    <3>1. (d + 2) * sector <= whole * sector
      BY <2>4, <2>5, Multiples
    <3>2. (d + 2) * sector = d * sector + sector + sector
      BY <2>4
    <3>3. d * sector \in Int
      BY <2>4
    <3>4. QED
      BY <1>1, <2>4, <3>1, <3>2, <3>3
  <2>6. CASE whole <= d + 2
    BY <2>3, <2>4, <2>6
  <2>7. QED
    BY <2>4, <2>5, <2>6
<1>5. QED
  BY <1>3, <1>4 DEF WholeIsRead

--------------------------------------------------------------------------------
(* The choice of a parser. *)

Scored == [parser : {"none", "ccd", "cue", "img", "mds", "nrg"}, score : Nat]

Score(ext, recognised, second, i) == FD!Probe(FD!Parsers[i], ext, recognised, second)

LEMMA ParsersAre ==
    /\ Len(FD!Parsers) = 5
    /\ \A i \in 1 .. 5 : /\ FD!Parsers[i] \in StrictParsers \cup {"img"}
                         /\ FD!Parsers[i] \in {"none", "ccd", "cue", "img", "mds", "nrg"}
    /\ \A parser \in StrictParsers \cup {"img"} : \E i \in 1 .. 5 : FD!Parsers[i] = parser
<1>1. /\ Len(FD!Parsers) = 5
      /\ FD!Parsers[1] = "ccd" /\ FD!Parsers[2] = "cue" /\ FD!Parsers[3] = "img"
      /\ FD!Parsers[4] = "mds" /\ FD!Parsers[5] = "nrg"
  BY DEF FD!Parsers
<1>2. /\ \A i \in 1 .. 5 : i = 1 \/ i = 2 \/ i = 3 \/ i = 4 \/ i = 5
      /\ 1 \in 1 .. 5 /\ 2 \in 1 .. 5 /\ 3 \in 1 .. 5 /\ 4 \in 1 .. 5 /\ 5 \in 1 .. 5
  OBVIOUS
<1>3. QED
  BY <1>1, <1>2 DEF StrictParsers

(* What the parsers answer, by name and by content. *)
LEMMA NamedProbe ==
    ASSUME NEW ext, NEW recognised, NEW parser
    PROVE  FD!Probe(parser, ext, recognised, FALSE) =
              IF parser = "img" THEN (IF ext \in {"bin", "img", "iso"} THEN 2 ELSE 1)
              ELSE IF ext = parser THEN 2 ELSE 0
  BY DEF FD!Probe, FD!ProbeDescribed, FD!ProbeRaw, FD!NameOnlyMatch, FD!NoMatch, FD!ProbableMatch

FoundScore(parser, ext, recognised) ==
    IF parser = "img" THEN (IF "img" \in recognised THEN 1 ELSE 0)
    ELSE IF parser \notin recognised THEN 0
    ELSE IF ext = parser THEN 4098 ELSE 4096

LEMMA FoundProbe ==
    ASSUME NEW ext, NEW recognised, NEW parser
    PROVE  FD!Probe(parser, ext, recognised, TRUE) = FoundScore(parser, ext, recognised)
<1> DEFINE score == FD!Probe(parser, ext, recognised, TRUE)
           value == FoundScore(parser, ext, recognised)
<1>1. CASE parser = "img"
  BY <1>1 DEF FoundScore, FD!Probe, FD!ProbeRaw, FD!NoMatch, FD!ProbableMatch
<1>2. CASE parser # "img"
  <2>1. score = FD!ProbeDescribed(parser, ext, recognised, TRUE)
    BY <1>2 DEF FD!Probe
  <2>2. parser \notin recognised => score = 0
    BY <2>1 DEF FD!ProbeDescribed, FD!NoMatch
  <2>3. ASSUME parser \in recognised, ext = parser
        PROVE  score = 4098
    <3>1. score = FD!NameOnlyMatch + FD!FormatOnlyMatch
      BY <2>1, <2>3 DEF FD!ProbeDescribed
    <3> HIDE DEF score
    <3>2. QED
      BY <3>1 DEF FD!NameOnlyMatch, FD!FormatOnlyMatch
  <2>4. ASSUME parser \in recognised, ext # parser
        PROVE  score = 4096
    <3>1. score = FD!NoMatch + FD!FormatOnlyMatch
      BY <2>1, <2>4 DEF FD!ProbeDescribed
    <3> HIDE DEF score
    <3>2. QED
      BY <3>1 DEF FD!NoMatch, FD!FormatOnlyMatch
  <2> HIDE DEF score
  <2>5. score = value
    BY <1>2, <2>2, <2>3, <2>4 DEF FoundScore
  <2>6. QED
    BY <2>5 DEF score
<1> HIDE DEF score, value
<1>3. score = value
  BY <1>1, <1>2 DEF score, value
<1>4. QED
  BY <1>3 DEF score, value

LEMMA ProbeType ==
    ASSUME NEW ext, NEW recognised, NEW second \in BOOLEAN,
           NEW parser \in StrictParsers \cup {"img"}
    PROVE  FD!Probe(parser, ext, recognised, second) \in Nat
  BY DEF FD!Probe, FD!ProbeDescribed, FD!ProbeRaw, FD!NameOnlyMatch, FD!FormatOnlyMatch,
     FD!NoMatch, FD!ProbableMatch

LEMMA ScoreType ==
    ASSUME NEW ext, NEW recognised, NEW second \in BOOLEAN, NEW i \in 1 .. 5
    PROVE  Score(ext, recognised, second, i) \in Nat
<1>1. FD!Parsers[i] \in StrictParsers \cup {"img"}
  BY ParsersAre
<1>2. QED
  BY <1>1, ProbeType DEF Score

(* A pass gives the best of the parsers, or what was at least as good before. *)
Passed(best, sofar, ext, recognised, second, n) ==
    /\ best \in Scored /\ best.score >= sofar.score
    /\ \A i \in 1 .. n : best.score >= Score(ext, recognised, second, i)
    /\ \/ best = sofar
       \/ best.score > sofar.score /\
          \E i \in 1 .. n : best = [parser |-> FD!Parsers[i],
                                   score |-> Score(ext, recognised, second, i)]

LEMMA BestFacts ==
    ASSUME NEW ext, NEW recognised, NEW second \in BOOLEAN, NEW sofar \in Scored
    PROVE  Passed(FD!Best(ext, recognised, second, sofar), sofar, ext, recognised, second, 5)
<1> DEFINE Next1(b, i) == FD!Better(b, FD!Parsers[i], Score(ext, recognised, second, i))
           step == [i \in 1 .. 5 |-> [b \in Scored |-> Next1(b, i)]]
           Pass(f) == f = [i \in 0 .. 5 |-> IF i = 0 THEN sofar ELSE Next1(f[i - 1], i)]
           best == CHOOSE f : Pass(f)
           P(b, i) == Passed(b, sofar, ext, recognised, second, i)
<1>1. ASSUME NEW i \in 1 .. 5, NEW b \in Scored
      PROVE  Next1(b, i) \in Scored
  BY ScoreType, ParsersAre DEF FD!Better, Scored
<1>2. step \in [1 .. 5 -> [Scored -> Scored]]
  BY <1>1
<1>3. \A i \in 1 .. 5, b \in Scored : step[i][b] = Next1(b, i)
  OBVIOUS
<1> HIDE DEF step
<1>4. \E f : Pass(f)
  <2>1. PICK f : Recursive(f, 5, Scored, sofar, step)
    <3> HIDE DEF Pass
    <3>1. 5 \in Nat
      OBVIOUS
    <3>2. QED
      BY <1>2, <3>1, Recursion
  <2>2. ASSUME NEW i \in 0 .. 5, i # 0
        PROVE  step[i][f[i - 1]] = Next1(f[i - 1], i)
    <3>1. i \in 1 .. 5 /\ i - 1 \in 0 .. 5
      BY <2>2
    <3>2. f[i - 1] \in Scored
      BY <2>1, <3>1 DEF Recursive
    <3>3. QED
      BY <1>3, <3>1, <3>2
  <2> HIDE DEF Next1
  <2>3. f = [i \in 0 .. 5 |-> IF i = 0 THEN sofar ELSE Next1(f[i - 1], i)]
    BY <2>1, <2>2 DEF Recursive
  <2>4. QED
    BY <2>3
<1>5. Pass(best)
  <2> HIDE DEF Pass
  <2>1. QED
    BY <1>4
<1>6. FD!Best(ext, recognised, second, sofar) = best[5]
  BY ParsersAre DEF FD!Best, Score
<1> HIDE DEF best
<1>7. best[0] = sofar /\ \A i \in 1 .. 5 : best[i] = Next1(best[i - 1], i)
  <2> HIDE DEF Next1
  <2>1. QED
    BY <1>5
<1>8. P(sofar, 0)
  BY DEF Passed, Scored
<1>9. ASSUME NEW i \in 0 .. 4, NEW b, P(b, i)
      PROVE  P(Next1(b, i + 1), i + 1)
  <2> DEFINE score == Score(ext, recognised, second, i + 1)
             next  == [parser |-> FD!Parsers[i + 1], score |-> score]
  <2>1. i + 1 \in 1 .. 5 /\ \A j \in 1 .. i + 1 : j = i + 1 \/ j \in 1 .. i
    OBVIOUS
  <2>2. score \in Nat /\ b \in Scored /\ b.score \in Nat /\ sofar.score \in Nat
    BY <1>9, <2>1, ScoreType DEF Passed, Scored
  <2>3. Next1(b, i + 1) \in Scored
    BY <1>1, <2>1, <2>2
  <2>4. Next1(b, i + 1) = IF score > b.score THEN next ELSE b
    BY DEF FD!Better
  <2>5. \A j \in 1 .. i : Score(ext, recognised, second, j) \in Nat
    BY <2>1, ScoreType
  <2> HIDE DEF Next1
  <2>6. CASE score > b.score
    <3>1. next.score = score
      OBVIOUS
    <3> HIDE DEF score
    <3>2. QED
      BY <1>9, <2>1, <2>2, <2>3, <2>4, <2>5, <2>6, <3>1 DEF Passed, score
  <2>7. CASE ~(score > b.score)
    <3> HIDE DEF score
    <3>1. QED
      BY <1>9, <2>1, <2>2, <2>3, <2>4, <2>5, <2>7 DEF Passed, score
  <2>8. QED
    BY <2>6, <2>7
<1> HIDE DEF P, Next1
<1>10. QED
  <2>1. P(best[1], 1)
    BY <1>7, <1>8, <1>9
  <2>2. P(best[2], 2)
    BY <1>7, <2>1, <1>9
  <2>3. P(best[3], 3)
    BY <1>7, <2>2, <1>9
  <2>4. P(best[4], 4)
    BY <1>7, <2>3, <1>9
  <2>5. P(best[5], 5)
    BY <1>7, <2>4, <1>9
  <2>6. QED
    BY <1>6, <2>5 DEF P

(* The first pass gives a parser that is tried first. *)
LEMMA FirstPass ==
    ASSUME NEW ext, NEW recognised
    PROVE  LET first == FD!Best(ext, recognised, FALSE, [parser |-> "none", score |-> FD!NoMatch]) IN
           /\ first \in Scored /\ first.score \in 1 .. 2
           /\ first.parser \in {"img"} \cup ({ext} \cap StrictParsers)
           /\ ext \in StrictParsers => first.parser = ext
<1> DEFINE none  == [parser |-> "none", score |-> FD!NoMatch]
           first == FD!Best(ext, recognised, FALSE, none)
<1>1. none \in Scored /\ none.score = 0
  BY DEF Scored, FD!NoMatch
<1> HIDE DEF none
<1>2. Passed(first, none, ext, recognised, FALSE, 5)
  BY <1>1, BestFacts
<1> HIDE DEF first
<1>3. \A parser \in StrictParsers \cup {"img"} :
          first.score >= FD!Probe(parser, ext, recognised, FALSE)
  BY <1>2, ParsersAre DEF Passed, Score
<1>4. first.score \in Nat
  BY <1>2 DEF Passed, Scored
<1>5. first.score >= 1 /\ (ext \in StrictParsers => first.score >= 2)
  <2>1. FD!Probe("img", ext, recognised, FALSE) \in Nat /\ FD!Probe("img", ext, recognised, FALSE) >= 1
    BY DEF FD!Probe, FD!ProbeRaw, FD!NameOnlyMatch, FD!NoMatch, FD!ProbableMatch
  <2>2. first.score >= FD!Probe("img", ext, recognised, FALSE)
    BY <1>3
  <2>3. first.score >= 1
    <3> DEFINE a == FD!Probe("img", ext, recognised, FALSE)
               b == first.score
    <3>1. a \in Nat /\ a >= 1 /\ b \in Nat /\ b >= a
      BY <1>4, <2>1, <2>2
    <3> HIDE DEF a, b
    <3>2. b >= 1
      BY <3>1
    <3>3. QED
      BY <3>2 DEF b
  <2>4. ext \in StrictParsers => first.score >= 2
    <3>1. ASSUME ext \in StrictParsers PROVE FD!Probe(ext, ext, recognised, FALSE) = 2
      BY <3>1 DEF FD!Probe, FD!ProbeDescribed, FD!NameOnlyMatch, FD!NoMatch, StrictParsers
    <3>2. ASSUME ext \in StrictParsers PROVE first.score >= FD!Probe(ext, ext, recognised, FALSE)
      BY <1>3, <3>2
    <3>3. QED
      BY <3>1, <3>2
  <2>5. QED
    BY <2>3, <2>4
<1>6. first # none
  BY <1>1, <1>5
<1>7. PICK i \in 1 .. 5 : first = [parser |-> FD!Parsers[i], score |-> Score(ext, recognised, FALSE, i)]
  BY <1>2, <1>6 DEF Passed
<1>8. /\ first.parser \in StrictParsers \cup {"img"}
      /\ first.score = FD!Probe(first.parser, ext, recognised, FALSE)
  BY <1>7, ParsersAre DEF Score
<1> DEFINE parser == first.parser
           score == first.score
<1>9. /\ parser \in StrictParsers \cup {"img"} /\ score \in Nat
      /\ score >= 1 /\ (ext \in StrictParsers => score >= 2)
      /\ score = FD!Probe(parser, ext, recognised, FALSE)
  BY <1>4, <1>5, <1>8
<1> HIDE DEF parser, score
<1>10. /\ score \in 1 .. 2
       /\ parser \in {"img"} \cup ({ext} \cap StrictParsers)
       /\ ext \in StrictParsers => parser = ext
  <2>1. score = IF parser = "img" THEN (IF ext \in {"bin", "img", "iso"} THEN 2 ELSE 1)
                ELSE IF ext = parser THEN 2 ELSE 0
    BY <1>9, NamedProbe
  <2>2. CASE parser = "img"
    <3>1. ext \notin StrictParsers
      <4>1. CASE ext \in StrictParsers
        <5>1. ext \notin {"bin", "img", "iso"}
          BY <4>1 DEF StrictParsers
        <5>2. score = 1
          BY <2>1, <2>2, <5>1
        <5>3. score >= 2
          BY <1>9, <4>1
        <5>4. QED
          BY <5>2, <5>3
      <4>2. QED
        BY <4>1
    <3>2. score \in 1 .. 2
      BY <2>1, <2>2
    <3>3. QED
      BY <2>2, <3>1, <3>2
  <2>3. CASE parser # "img"
    <3>1. ext = parser
      <4>1. CASE ext # parser
        <5>1. score = 0
          BY <2>1, <2>3, <4>1
        <5>2. score >= 1
          BY <1>9
        <5>3. QED
          BY <5>1, <5>2
      <4>2. QED
        BY <4>1
    <3>2. score = 2
      BY <2>1, <2>3, <3>1
    <3>3. parser \in StrictParsers
      BY <1>9, <2>3
    <3>4. QED
      BY <3>1, <3>2, <3>3
  <2>4. QED
    BY <2>2, <2>3
<1>11. first \in Scored
  BY <1>2 DEF Passed
<1>12. QED
  BY <1>10, <1>11 DEF first, none, parser, score

(* OpenCDImage (ImageFormats.cpp): whatever a file is called, and whichever parsers *)
(* accept its contents, a strict parser that accepts them is preferred, and before  *)
(* others that of the name.                                                         *)
LEMMA Chosen ==
    ASSUME NEW ext, NEW recognised
    PROVE  LET chosen == FD!ChosenParser(ext, recognised) IN
           /\ recognised \cap StrictParsers # {} => chosen \in recognised \cap StrictParsers
           /\ ext \in recognised \cap StrictParsers => chosen = ext
           /\ recognised \cap StrictParsers = {} =>
                 chosen \in {"img"} \cup ({ext} \cap StrictParsers)
<1> DEFINE first  == FD!Best(ext, recognised, FALSE, [parser |-> "none", score |-> FD!NoMatch])
           second == FD!Best(ext, recognised, TRUE, first)
           chosen == FD!ChosenParser(ext, recognised)
<1>1. /\ first \in Scored /\ first.score \in 1 .. 2
      /\ first.parser \in {"img"} \cup ({ext} \cap StrictParsers)
      /\ ext \in StrictParsers => first.parser = ext
  BY FirstPass
<1>2. chosen = IF FD!Probe(first.parser, ext, recognised, TRUE) >= 4098
               THEN first.parser ELSE second.parser
  BY DEF FD!ChosenParser, FD!SufficientMatch, FD!NameOnlyMatch, FD!FormatOnlyMatch
<1> HIDE DEF first, chosen
<1>3. Passed(second, first, ext, recognised, TRUE, 5)
  BY <1>1, BestFacts
<1> HIDE DEF second
<1>4. /\ second.score \in Nat
      /\ \A parser \in StrictParsers \cup {"img"} :
            second.score >= FD!Probe(parser, ext, recognised, TRUE)
  BY <1>3, ParsersAre DEF Passed, Score, Scored
<1>5. \/ second = first
      \/ /\ second.parser \in StrictParsers \cup {"img"} /\ second.score > first.score
         /\ second.score = FD!Probe(second.parser, ext, recognised, TRUE)
  <2>1. CASE second # first
    <3>1. /\ second.score > first.score
          /\ \E i \in 1 .. 5 : second = [parser |-> FD!Parsers[i], score |-> Score(ext, recognised, TRUE, i)]
      BY <1>3, <2>1 DEF Passed
    <3>2. PICK i \in 1 .. 5 :
            second = [parser |-> FD!Parsers[i], score |-> Score(ext, recognised, TRUE, i)]
      BY <3>1
    <3>3. QED
      BY <3>1, <3>2, ParsersAre DEF Score
  <2>2. QED
    BY <2>1
<1> DEFINE Found(p) == FD!Probe(p, ext, recognised, TRUE)
<1>6. ASSUME NEW p
      PROVE  Found(p) = IF p = "img" THEN (IF "img" \in recognised THEN 1 ELSE 0)
                        ELSE IF p \notin recognised THEN 0
                        ELSE IF ext = p THEN 4098 ELSE 4096
  <2>1. Found(p) = FoundScore(p, ext, recognised)
    BY FoundProbe
  <2> HIDE DEF Found
  <2>2. QED
    BY <2>1 DEF FoundScore
<1>7. /\ second.score \in Nat
      /\ \A p \in StrictParsers \cup {"img"} : second.score >= Found(p)
      /\ \/ second = first
         \/ /\ second.parser \in StrictParsers \cup {"img"} /\ second.score > first.score
            /\ second.score = Found(second.parser)
      /\ chosen = IF Found(first.parser) >= 4098 THEN first.parser ELSE second.parser
  <2>1. /\ second.score \in Nat
        /\ \A p \in StrictParsers \cup {"img"} : second.score >= Found(p)
    BY <1>4
  <2>2. \/ second = first
        \/ /\ second.parser \in StrictParsers \cup {"img"} /\ second.score > first.score
           /\ second.score = Found(second.parser)
    BY <1>5
  <2>3. chosen = IF Found(first.parser) >= 4098 THEN first.parser ELSE second.parser
    BY <1>2
  <2>4. QED
    BY <2>1, <2>2, <2>3, Zenon
<1> HIDE DEF Found
<1>8. ASSUME NEW p, Found(p) \notin {0, 1}
      PROVE  p # "img" /\ p \in recognised
  <2>1. CASE p = "img"
    <3>1. Found(p) = 0 \/ Found(p) = 1
      BY <1>6, <2>1
    <3>2. QED
      BY <1>8, <3>1
  <2>2. CASE p # "img" /\ p \notin recognised
    <3>1. Found(p) = 0
      BY <1>6, <2>2
    <3>2. QED
      BY <1>8, <3>1
  <2>3. QED
    BY <2>1, <2>2
<1>9. ASSUME NEW p \in StrictParsers, p \in recognised
      PROVE  Found(p) \in Nat /\ Found(p) >= 4096 /\ (ext = p => Found(p) >= 4098)
  <2>1. p # "img"
    BY DEF StrictParsers
  <2>2. CASE ext = p
    <3>1. Found(p) = 4098
      BY <1>6, <1>9, <2>1, <2>2
    <3>2. QED
      BY <3>1
  <2>3. CASE ext # p
    <3>1. Found(p) = 4096
      BY <1>6, <1>9, <2>1, <2>3
    <3>2. QED
      BY <2>3, <3>1
  <2>4. QED
    BY <2>2, <2>3
<1>10. first.parser \in StrictParsers \cup {"img"} /\ first.score \in Nat
  BY <1>1
<1>11. ASSUME recognised \cap StrictParsers # {}
       PROVE  /\ chosen \in recognised \cap StrictParsers
              /\ ext \in recognised \cap StrictParsers => chosen = ext
  <2>1. PICK p : p \in recognised /\ p \in StrictParsers
    BY <1>11
  <2>2. second.score >= 4096
    <3> DEFINE a == second.score
               b == Found(p)
    <3>1. a \in Nat /\ a >= b
      BY <1>7, <2>1
    <3>2. b \in Nat /\ b >= 4096
      BY <1>9, <2>1
    <3> HIDE DEF a, b
    <3>3. a >= 4096
      BY <3>1, <3>2
    <3>4. QED
      BY <3>3 DEF a
  <2>3. second # first
    BY <1>1, <2>2
  <2>4. second.parser \in recognised \cap StrictParsers
    <3>1. /\ second.parser \in StrictParsers \cup {"img"}
          /\ second.score = Found(second.parser)
      BY <1>7, <2>3
    <3>2. Found(second.parser) \notin {0, 1}
      BY <1>7, <2>2, <3>1
    <3>3. second.parser # "img" /\ second.parser \in recognised
      BY <1>8, <3>2
    <3>4. QED
      BY <3>1, <3>3
  <2>5. CASE Found(first.parser) >= 4098
    <3>1. Found(first.parser) \notin {0, 1}
      BY <2>5
    <3>2. first.parser # "img" /\ first.parser \in recognised
      BY <1>8, <3>1
    <3>3. chosen = first.parser
      BY <1>7, <2>5
    <3>4. chosen \in recognised \cap StrictParsers
      BY <1>10, <3>2, <3>3
    <3>5. ext \in StrictParsers => chosen = ext
      BY <1>1, <3>3
    <3>6. QED
      BY <3>4, <3>5
  <2>6. CASE ~(Found(first.parser) >= 4098)
    <3>1. chosen = second.parser
      BY <1>7, <2>6
    <3>2. ext \notin recognised \cap StrictParsers
      <4>1. CASE ext \in recognised /\ ext \in StrictParsers
        <5>1. Found(ext) >= 4098
          BY <1>9, <4>1
        <5>2. first.parser = ext
          BY <1>1, <4>1
        <5>3. QED
          BY <2>6, <5>1, <5>2
      <4>2. QED
        BY <4>1
    <3>3. QED
      BY <2>4, <3>1, <3>2
  <2>7. QED
    BY <2>5, <2>6
<1>12. ASSUME recognised \cap StrictParsers = {}
       PROVE  chosen \in {"img"} \cup ({ext} \cap StrictParsers)
  <2>1. ASSUME NEW p \in StrictParsers \cup {"img"}
        PROVE  Found(p) = 0 \/ Found(p) = 1
    <3>1. p = "img" \/ p \notin recognised
      BY <1>12
    <3>2. QED
      BY <1>6, <3>1
  <2>2. second = first
    <3>1. CASE second # first
      <4>1. /\ second.parser \in StrictParsers \cup {"img"} /\ second.score > first.score
            /\ second.score = Found(second.parser)
        BY <1>7, <3>1
      <4>2. second.score = 0 \/ second.score = 1
        BY <2>1, <4>1
      <4>3. QED
        BY <1>1, <4>1, <4>2
    <3>2. QED
      BY <3>1
  <2>3. chosen = first.parser
    BY <1>7, <2>2
  <2>4. QED
    BY <1>1, <2>3
<1>13. QED
  BY <1>11, <1>12 DEF chosen

(* OpenCDImage (ImageFormats.cpp), for any name and any parsers that accept the    *)
(* file: the two passes over the parsers give the file to a strict parser that      *)
(* accepts it when there is one, and to the one of its own name if that accepts it. *)
THEOREM ParserIsRight == Spec => []RightParser
<1>1. RightParser
  BY Chosen DEF RightParser
<1>2. QED
  BY <1>1, PTL

--------------------------------------------------------------------------------
(* Raw images that are described by a CUE sheet or a CCD file. *)

LEMMA InputIsGiven == Spec => [](input = [kind |-> "none"] \/ input \in Inputs)
<1> DEFINE IsGiven == input = [kind |-> "none"] \/ input \in Inputs
<1>1. Init => IsGiven
  BY DEF Init
<1>2. IsGiven /\ [Next]_input => IsGiven'
  BY DEF Next, Given
<1>3. QED
  BY <1>1, <1>2, PTL DEF Spec

LEMMA AllAreRead ==
    ASSUME NEW sector \in Nat, NEW data \in Nat, data + CDSectorSize <= sector, NEW whole \in Nat
    PROVE  ReadsAll(RawImage(whole * sector, sector, data), whole, sector, data)
<1> DEFINE image == RawImage(whole * sector, sector, data)
           extra == 0
<1>1. /\ extra \in Nat /\ extra < data + CDSectorSize
      /\ image = RawImage(whole * sector + extra, sector, data)
  BY DEF CDSectorSize
<1> HIDE DEF image, extra
<1>2. WholeIsRead(image, whole, sector, data)
  BY <1>1, RawImageIsRead
<1>3. \A count \in 1 .. whole + 1 : count \in Nat
  OBVIOUS
<1>4. ReadsAll(image, whole, sector, data)
  BY <1>2, <1>3, Zenon DEF ReadsAll, WholeIsRead
<1>5. QED
  BY <1>4 DEF image

(* What a sheet says, and where its data is found. *)
DataIn(mode, header) ==
    CASE mode[2] = 2048 -> 0
      [] mode[2] = 2352 /\ header = "mode1" -> 16
      [] mode[2] = 2352 /\ header = "mode2" -> 24
      [] OTHER -> IF mode[1] = "MODE1" THEN 16 ELSE 24

LEMMA SheetIsRight ==
    ASSUME NEW lines \in Seq(Line), NEW found, NEW header \in Headers, NEW whole \in Nat,
           NEW mode, mode = FirstTrackMode(lines), Len(mode) = 2,
           NEW image, image = OpenCUE(lines, found, header, whole * mode[2]),
           "sector" \in DOMAIN image,
           NEW data, data = DataIn(mode, header)
    PROVE  found # {} /\ ReadsAll(image, whole, mode[2], data)
<1> DEFINE files  == {i \in DOMAIN lines : lines[i].kind = "FILE"}
           tracks == {i \in DOMAIN lines : i > Min(files) /\ IsFirstTrack(lines[i])}
           at     == lines[Min(tracks)].mode
           desc   == ParseCUEFile(lines, found)
<1>1. "sector" \notin DOMAIN Refused
  BY DEF Refused
<1>2. /\ ~desc.refused
      /\ image = RawImage(whole * mode[2], desc.sector,
                          DetectDataOffsetInSector(header, desc.sector, desc.offset))
  BY <1>1 DEF OpenCUE
<1>3. /\ files # {} /\ tracks # {} /\ BinaryFile(found) # NoFile
      /\ desc = [refused |-> FALSE, sector |-> at[2], offset |-> CUEOffset(at),
                 file |-> BinaryFile(found)]
  <2>1. Refused.refused
    BY DEF Refused
  <2>2. QED
    BY <1>2, <2>1, Zenon DEF ParseCUEFile
<1> HIDE DEF desc
<1>4. tracks = {i \in DOMAIN lines : i > Min(files) /\ lines[i].kind = "TRACK" /\ lines[i].number = 1}
  <2> HIDE DEF files
  <2>1. QED
    BY DEF IsFirstTrack
<1> HIDE DEF tracks
<1>5. mode = at
  <2>1. files # {} /\ tracks # {}
    BY <1>3
  <2>2. QED
    BY <1>4, <2>1, Zenon DEF FirstTrackMode
<1>6. mode \in {<<"MODE1", 2048>>, <<"MODE1", 2352>>, <<"MODE2", 2352>>}
  <2>1. tracks \in SUBSET Nat
    BY DEF tracks
  <2>2. Min(tracks) \in tracks
    <3> HIDE DEF tracks
    <3>1. PICK n \in tracks : \A m \in tracks : n <= m
      BY <1>3, <2>1, LeastNumber
    <3>2. QED
      BY <3>1 DEF Min
  <2>3. at \in TrackModes
    <3> DEFINE i == Min(tracks)
    <3>1. i \in DOMAIN lines /\ lines[i].kind = "TRACK"
      BY <2>2 DEF tracks, IsFirstTrack
    <3> HIDE DEF i
    <3>2. lines[i] \in Line
      BY <3>1
    <3>3. lines[i].mode \in TrackModes
      BY <3>1, <3>2 DEF Line
    <3>4. QED
      BY <3>3 DEF i
  <2> HIDE DEF at
  <2>4. mode # <<"AUDIO">>
    OBVIOUS
  <2>5. QED
    BY <1>5, <2>3, <2>4 DEF TrackModes
<1> HIDE DEF at, files
<1>7. /\ mode[2] \in Nat /\ data \in Nat /\ data + CDSectorSize <= mode[2]
      /\ DetectDataOffsetInSector(header, mode[2], CUEOffset(mode)) = data
  <2>1. CASE mode = <<"MODE1", 2048>>
    BY <2>1 DEF DataIn, DetectDataOffsetInSector, CUEOffset, CDSectorSize
  <2>2. CASE mode = <<"MODE1", 2352>>
    BY <2>2 DEF DataIn, DetectDataOffsetInSector, CUEOffset, CDSectorSize, Headers
  <2>3. CASE mode = <<"MODE2", 2352>>
    BY <2>3 DEF DataIn, DetectDataOffsetInSector, CUEOffset, CDSectorSize, Headers
  <2>4. QED
    BY <1>6, <2>1, <2>2, <2>3
<1>8. image = RawImage(whole * mode[2], mode[2], data)
  BY <1>2, <1>3, <1>5, <1>7
<1>9. ReadsAll(image, whole, mode[2], data)
  BY <1>7, <1>8, AllAreRead
<1>10. found # {}
  BY <1>3 DEF BinaryFile, BinaryCandidates
<1>11. QED
  BY <1>9, <1>10

(* CUEParser.cpp, CCDParser.cpp, IMGParser.h, for sheets of any length and files of *)
(* any size: an image that is opened has a file, its data begins after the header    *)
(* of a sector if there is one, and all sectors of the file are read and no others.  *)
THEOREM RawImagesAreRight == Spec => []RawImagesRight
<1>1. ASSUME input = [kind |-> "none"] \/ input \in Inputs
      PROVE  RawImagesRight
  <2>1. ASSUME input.kind = "cue"
        PROVE  LET mode  == FirstTrackMode(input.lines)
                   image == OpenCUE(input.lines, input.found, input.header, input.whole * mode[2])
                   data  == CASE mode[2] = 2048 -> 0
                              [] mode[2] = 2352 /\ input.header = "mode1" -> 16
                              [] mode[2] = 2352 /\ input.header = "mode2" -> 24
                              [] OTHER -> IF mode[1] = "MODE1" THEN 16 ELSE 24
               IN Len(mode) = 2 /\ "sector" \in DOMAIN image =>
                     input.found # {} /\ ReadsAll(image, input.whole, mode[2], data)
    <3> DEFINE mode  == FirstTrackMode(input.lines)
               image == OpenCUE(input.lines, input.found, input.header, input.whole * mode[2])
               data  == CASE mode[2] = 2048 -> 0
                          [] mode[2] = 2352 /\ input.header = "mode1" -> 16
                          [] mode[2] = 2352 /\ input.header = "mode2" -> 24
                          [] OTHER -> IF mode[1] = "MODE1" THEN 16 ELSE 24
    <3>1. input.lines \in Seq(Line) /\ input.header \in Headers /\ input.whole \in Nat
      BY <1>1, <2>1, InputsAssumption DEF InputsAssumption
    <3>2. ASSUME Len(mode) = 2, "sector" \in DOMAIN image
          PROVE  input.found # {} /\ ReadsAll(image, input.whole, mode[2], data)
      <4>1. /\ mode = FirstTrackMode(input.lines)
            /\ image = OpenCUE(input.lines, input.found, input.header, input.whole * mode[2])
            /\ data = DataIn(mode, input.header)
        BY DEF DataIn
      <4> HIDE DEF mode, image, data
      <4>2. QED
        BY <3>1, <3>2, <4>1, SheetIsRight
    <3>3. QED
      BY <3>2
  <2>2. ASSUME input.kind = "ccd"
        PROVE  LET image == OpenCCD(input.lines, input.found, input.header, input.whole * 2352) IN
               "sector" \in DOMAIN image =>
                   input.found /\ ReadsAll(image, input.whole, 2352,
                                           IF input.header = "mode2" THEN 24 ELSE 16)
    <3> DEFINE image == OpenCCD(input.lines, input.found, input.header, input.whole * 2352)
               data  == IF input.header = "mode2" THEN 24 ELSE 16
    <3>1. input.header \in Headers /\ input.whole \in Nat /\ input.found \in BOOLEAN
      BY <1>1, <2>2, InputsAssumption DEF InputsAssumption
    <3>2. SUFFICES ASSUME "sector" \in DOMAIN image
                   PROVE  input.found /\ ReadsAll(image, input.whole, 2352, data)
      OBVIOUS
    <3>3. "sector" \notin DOMAIN Refused
      BY DEF Refused
    <3>4. /\ input.found
          /\ image = RawImage(input.whole * 2352, 2352,
                              DetectDataOffsetInSector(input.header, 2352, 16))
      BY <3>2, <3>3 DEF OpenCCD
    <3>5. DetectDataOffsetInSector(input.header, 2352, 16) = data
      BY <3>1 DEF DetectDataOffsetInSector, CDSectorSize, Headers
    <3>6. 2352 \in Nat /\ data \in Nat /\ data + CDSectorSize <= 2352
      BY DEF CDSectorSize
    <3> HIDE DEF data, image
    <3>7. QED
      BY <3>1, <3>4, <3>5, <3>6, AllAreRead
  <2>3. QED
    BY <2>1, <2>2 DEF RawImagesRight
<1>2. QED
  BY <1>1, InputIsGiven, PTL

--------------------------------------------------------------------------------
(* The layout of a raw image without description. *)

Names == {"CD001", "CDROM", "BEA01"}
FirstSectorOf(f) == f.at - FD!SignatureOffset[f.sig]

LEMMA LeastOf ==
    ASSUME NEW S \in SUBSET Nat, S # {}
    PROVE  FD!Min(S) \in S
<1>1. PICK n \in S : \A m \in S : n <= m
  BY LeastNumber
<1>2. QED
  BY <1>1 DEF FD!Min

LEMMA LayoutsAre ==
    /\ \A l \in FD!Layouts : /\ l.sector \in {2048, 2056, 2336, 2352} /\ l.offset \in {0, 8, 16, 24}
                            /\ FD!DescriptorAt(l) \in Nat
    /\ \A s \in {2048, 2056, 2336, 2352}, o \in {0, 8, 16, 24} :
          [sector |-> s, offset |-> o] \in FD!Layouts
<1>1. FD!ToSet(FD!SectorSizes) = {2048, 2056, 2336, 2352}
  BY DEF FD!ToSet, FD!SectorSizes
<1>2. FD!ToSet(FD!BaseOffsets) = {0, 8, 16, 24}
  BY DEF FD!ToSet, FD!BaseOffsets
<1>3. QED
  BY <1>1, <1>2 DEF FD!Layouts, FD!DescriptorAt, FD!FirstDescriptorSector

LEMMA SignaturesAre ==
    /\ DOMAIN FD!Signatures = 1 .. 3
    /\ \A i \in 1 .. 3 : FD!Signatures[i] \in Names
    /\ \A s \in Names : \E i \in 1 .. 3 : FD!Signatures[i] = s
    /\ \A s \in Names : FD!SignatureOffset[s] \in {1, 9}
<1>1. /\ DOMAIN FD!Signatures = 1 .. 3
      /\ FD!Signatures[1] = "CD001" /\ FD!Signatures[2] = "CDROM" /\ FD!Signatures[3] = "BEA01"
  BY DEF FD!Signatures
<1>2. /\ \A i \in 1 .. 3 : i = 1 \/ i = 2 \/ i = 3
      /\ 1 \in 1 .. 3 /\ 2 \in 1 .. 3 /\ 3 \in 1 .. 3
  OBVIOUS
<1>3. \A s \in Names : FD!SignatureOffset[s] \in {1, 9}
  BY DEF Names, FD!SignatureOffset
<1>4. QED
  BY <1>1, <1>2, <1>3 DEF Names

\* No descriptor begins before this place: its signature is at most nine bytes in it.
FirstPlace == SearchedFrom - 9

LEMMA FirstAre ==
    ASSUME NEW found \in SUBSET Descriptors, NEW s \in Names
    PROVE  \A at \in FD!FirstIn(found, s) :
              at \in Nat /\ at >= FirstPlace /\ \E f \in found : at = FirstSectorOf(f)
<1>1. ASSUME NEW f \in found, f.sig = s
      PROVE  /\ f.at - FD!SignatureOffset[s] \in Nat
             /\ f.at - FD!SignatureOffset[s] >= FirstPlace
  <2> DEFINE a == f.at
             b == FD!SignatureOffset[s]
  <2>1. a \in Nat /\ a >= 32768 /\ b \in {1, 9}
    BY SignaturesAre DEF Descriptors, SearchedFrom
  <2> HIDE DEF a, b
  <2>2. a - b \in Nat /\ a - b >= FirstPlace
    BY <2>1 DEF FirstPlace, SearchedFrom
  <2>3. QED
    BY <2>2 DEF a, b
<1>2. ASSUME NEW at \in FD!FirstIn(found, s)
      PROVE  at \in Nat /\ at >= FirstPlace /\ \E f \in found : at = FirstSectorOf(f)
  <2>1. PICK f \in found : f.sig = s /\ at = f.at - FD!SignatureOffset[s]
    BY DEF FD!FirstIn
  <2>2. at = FirstSectorOf(f)
    BY <2>1 DEF FirstSectorOf
  <2>3. QED
    BY <1>1, <2>1, <2>2
<1>3. QED
  BY <1>2

(* A descriptor where one stands in some layout decides. *)
LEMMA ExactDecides ==
    ASSUME NEW found \in SUBSET Descriptors, NEW t \in Names, FD!Exact(found, t) # {}
    PROVE  \E s \in Names : FD!ScanVolumeHeaderForSignature(found) \in FD!Exact(found, s)
<1> DEFINE fitting == {i \in DOMAIN FD!Signatures : FD!Exact(found, FD!Signatures[i]) # {}}
           sig     == FD!Signatures[FD!Min(fitting)]
           fits    == FD!Exact(found, sig)
<1>1. fitting \in SUBSET Nat /\ fitting # {}
  BY SignaturesAre
<1>2. FD!Min(fitting) \in fitting
  <2> HIDE DEF fitting
  <2>1. QED
    BY <1>1, LeastOf
<1>3. sig \in Names /\ fits # {}
  BY <1>2, SignaturesAre
<1>4. fits \in SUBSET FD!Layouts
  BY DEF FD!Exact
<1>5. FD!ScanVolumeHeaderForSignature(found) =
          CHOOSE l \in fits : \A k \in fits : FD!DescriptorAt(l) <= FD!DescriptorAt(k)
  BY <1>1 DEF FD!ScanVolumeHeaderForSignature
<1> HIDE DEF fits, sig, fitting
<1>6. \E l \in fits : \A k \in fits : FD!DescriptorAt(l) <= FD!DescriptorAt(k)
  <2> DEFINE places == {FD!DescriptorAt(k) : k \in fits}
  <2>1. places \in SUBSET Nat /\ places # {}
    BY <1>3, <1>4, LayoutsAre
  <2>2. PICK n \in places : \A m \in places : n <= m
    <3> HIDE DEF places
    <3>1. QED
      BY <2>1, LeastNumber
  <2>3. QED
    BY <2>2
<1>7. FD!ScanVolumeHeaderForSignature(found) \in fits
  BY <1>5, <1>6
<1>8. QED
  BY <1>3, <1>7 DEF fits

LEMMA SameRemainder ==
    ASSUME NEW at \in Nat, at >= FirstPlace, NEW size, size = 2 * ((at \div 16) \div 2)
    PROVE  size * 16 + (at % size) = at
<1> DEFINE r == at - 16 * size
<1>1. size \in Nat /\ size >= 2046 /\ r \in 0 .. 31
  BY DEF FirstPlace, SearchedFrom
<1>2. at = 16 * size + r
  BY <1>1
<1> HIDE DEF r
<1>3. at \div size = 16
  BY <1>1, <1>2
<1>4. at = size * (at \div size) + (at % size)
  BY <1>1
<1>5. QED
  BY <1>1, <1>3, <1>4

(* Otherwise the layout is one in which a descriptor that was found stands. *)
LEMMA SomeFits ==
    ASSUME NEW found \in SUBSET Descriptors, found # {},
           \A s \in Names : FD!Exact(found, s) = {}
    PROVE  \E f \in found : FD!DescriptorAt(FD!ScanVolumeHeaderForSignature(found)) = FirstSectorOf(f)
<1> DEFINE any  == {i \in DOMAIN FD!Signatures : FD!FirstIn(found, FD!Signatures[i]) # {}}
           sig  == FD!Signatures[FD!Min(any)]
           at   == FD!Min(FD!FirstIn(found, sig))
           size == 2 * ((at \div 16) \div 2)
<1>1. any \in SUBSET Nat /\ any # {}
  <2>1. PICK f \in found : TRUE
    OBVIOUS
  <2>2. f.sig \in Names
    BY DEF Descriptors, Names
  <2>3. FD!FirstIn(found, f.sig) # {}
    BY DEF FD!FirstIn
  <2>4. QED
    BY <2>2, <2>3, SignaturesAre
<1>2. FD!Min(any) \in any
  <2> HIDE DEF any
  <2>1. QED
    BY <1>1, LeastOf
<1>3. sig \in Names /\ FD!FirstIn(found, sig) # {}
  BY <1>2, SignaturesAre
<1>4. FD!ScanVolumeHeaderForSignature(found) = [sector |-> size, offset |-> at % size]
  BY <1>1, SignaturesAre DEF FD!ScanVolumeHeaderForSignature, FD!FirstDescriptorSector
<1> HIDE DEF sig, any
<1>5. at \in FD!FirstIn(found, sig) /\ at \in Nat /\ at >= FirstPlace
  <2>1. \A n \in FD!FirstIn(found, sig) : n \in Nat /\ n >= FirstPlace
    BY <1>3, FirstAre
  <2>2. FD!FirstIn(found, sig) \in SUBSET Nat
    BY <2>1
  <2>3. at \in FD!FirstIn(found, sig)
    BY <1>3, <2>2, LeastOf
  <2>4. QED
    BY <2>1, <2>3
<1>6. PICK f \in found : at = FirstSectorOf(f)
  BY <1>3, <1>5, FirstAre
<1> HIDE DEF at
<1>7. FD!DescriptorAt([sector |-> size, offset |-> at % size]) = size * 16 + (at % size)
  BY DEF FD!DescriptorAt, FD!FirstDescriptorSector
<1>8. size = 2 * ((at \div 16) \div 2)
  BY Zenon
<1> HIDE DEF size
<1>9. size * 16 + (at % size) = at
  BY <1>5, <1>8, SameRemainder, Zenon
<1>10. QED
  BY <1>4, <1>6, <1>7, <1>9

LEMMA BaseIsOne ==
    ASSUME NEW zero \in Nat \cup {FD!NoOffset}
    PROVE  FD!BaseOffset(zero) \in {FD!NoOffset, 0, 8, 16, 24}
<1> DEFINE after == {o \in FD!ToSet(FD!BaseOffsets) : zero # FD!NoOffset /\ zero <= o}
<1>1. FD!ToSet(FD!BaseOffsets) = {0, 8, 16, 24}
  BY DEF FD!ToSet, FD!BaseOffsets
<1>2. after \in SUBSET {0, 8, 16, 24}
  BY <1>1
<1>3. FD!BaseOffset(zero) = IF after = {} THEN FD!NoOffset ELSE FD!Min(after)
  BY DEF FD!BaseOffset
<1> HIDE DEF after
<1>4. after # {} => FD!Min(after) \in after
  BY <1>2, LeastOf
<1>5. QED
  BY <1>2, <1>3, <1>4

LEMMA TriedAre ==
    ASSUME NEW base \in {FD!NoOffset, 0, 8, 16, 24}
    PROVE  /\ DOMAIN FD!Tried(base) \in SUBSET Nat
           /\ \A i \in DOMAIN FD!Tried(base) : FD!Tried(base)[i] \in FD!Layouts
           /\ base \notin {FD!NoOffset, 0} =>
                 \A i \in DOMAIN FD!Tried(base) :
                    FD!Tried(base)[i] = [sector |-> FD!Tried(base)[i].sector, offset |-> base]
<1>1. /\ FD!SectorSizes[1] = 2048 /\ FD!SectorSizes[2] = 2056
      /\ FD!SectorSizes[3] = 2336 /\ FD!SectorSizes[4] = 2352
      /\ FD!BaseOffsets[1] = 0 /\ FD!BaseOffsets[2] = 8
      /\ FD!BaseOffsets[3] = 16 /\ FD!BaseOffsets[4] = 24
  BY DEF FD!SectorSizes, FD!BaseOffsets
<1>2. /\ \A i \in 1 .. 4 : i = 1 \/ i = 2 \/ i = 3 \/ i = 4
      /\ \A i \in 1 .. 16 : ((i - 1) \div 4) + 1 \in 1 .. 4 /\ ((i - 1) % 4) + 1 \in 1 .. 4
      /\ \A i \in 1 .. 4 : i \in Nat
      /\ \A i \in 1 .. 16 : i \in Nat
  OBVIOUS
<1>3. \A i \in 1 .. 4 : /\ FD!SectorSizes[i] \in {2048, 2056, 2336, 2352}
                       /\ FD!BaseOffsets[i] \in {0, 8, 16, 24}
  BY <1>1, <1>2
<1>4. CASE base \notin {FD!NoOffset, 0}
  <2>1. FD!Tried(base) = [i \in 1 .. 4 |-> [sector |-> FD!SectorSizes[i], offset |-> base]]
    BY <1>4 DEF FD!Tried
  <2>2. base \in {0, 8, 16, 24}
    BY <1>4
  <2>3. \A i \in 1 .. 4 : [sector |-> FD!SectorSizes[i], offset |-> base] \in FD!Layouts
    BY <1>3, <2>2, LayoutsAre
  <2>4. QED
    BY <1>2, <2>1, <2>3
<1>5. CASE base \in {FD!NoOffset, 0}
  <2>1. FD!Tried(base) = [i \in 1 .. 16 |-> [sector |-> FD!SectorSizes[((i - 1) \div 4) + 1],
                                            offset |-> FD!BaseOffsets[((i - 1) % 4) + 1]]]
    BY <1>5 DEF FD!Tried
  <2>2. \A i \in 1 .. 16 : [sector |-> FD!SectorSizes[((i - 1) \div 4) + 1],
                           offset |-> FD!BaseOffsets[((i - 1) % 4) + 1]] \in FD!Layouts
    BY <1>2, <1>3, LayoutsAre
  <2>3. QED
    BY <1>2, <1>5, <2>1, <2>2
<1>6. QED
  BY <1>4, <1>5

\* The layouts tried that have both points.
Fitting(score, base) ==
    {i \in DOMAIN FD!Tried(base) : score[FD!Tried(base)[i]] = 2}

(* Without a descriptor only a layout that alone fits fully is taken. *)
LEMMA OneFits ==
    ASSUME NEW base \in {FD!NoOffset, 0, 8, 16, 24},
           NEW score, \A l \in FD!Layouts : score[l] \in 0 .. 2,
           FD!Decided(Fitting(score, base))
    PROVE  \E i \in Fitting(score, base) :
               /\ Fitting(score, base) = {i}
               /\ FD!Kept(score, base) = [sector |-> FD!Tried(base)[i].sector, offset |-> base]
<1> DEFINE tried == FD!Tried(base)
           full  == Fitting(score, base)
           best  == {j \in DOMAIN tried : \A k \in DOMAIN tried : score[tried[j]] >= score[tried[k]]}
<1>1. PICK i \in full : full = {i}
  BY DEF FD!Decided
<1>2. /\ full = {j \in DOMAIN tried : score[tried[j]] = 2}
      /\ DOMAIN tried \in SUBSET Nat
      /\ \A j \in DOMAIN tried : score[tried[j]] \in 0 .. 2
  BY TriedAre DEF Fitting
<1>3. FD!Kept(score, base) = [sector |-> tried[FD!Min(best)].sector, offset |-> base]
  BY DEF FD!Kept
<1> HIDE DEF tried, full
<1>4. i \in DOMAIN tried /\ score[tried[i]] = 2
  BY <1>1, <1>2
<1>5. i \in best
  <2>1. ASSUME NEW k \in DOMAIN tried
        PROVE  score[tried[i]] >= score[tried[k]]
    BY <1>2, <1>4
  <2>2. QED
    BY <1>4, <2>1
<1>6. ASSUME NEW j \in best PROVE j = i
  <2>1. j \in DOMAIN tried /\ score[tried[j]] >= score[tried[i]]
    BY <1>4
  <2>2. score[tried[j]] = 2
    BY <1>2, <1>4, <2>1
  <2>3. QED
    BY <1>1, <1>2, <2>1, <2>2
<1>7. best = {i}
  BY <1>5, <1>6
<1>8. FD!Min(best) = i
  <2>1. best \in SUBSET Nat /\ best # {}
    BY <1>2, <1>5
  <2> HIDE DEF best
  <2>2. FD!Min(best) \in best
    BY <2>1, LeastOf
  <2>3. QED
    BY <1>7, <2>2
<1>9. /\ full = {i}
      /\ FD!Kept(score, base) = [sector |-> tried[i].sector, offset |-> base]
  BY <1>1, <1>8, <1>3
<1>10. QED
  BY <1>1, <1>9 DEF full, tried

(* DetectRawCDFormat (RawCDFormats.cpp), for any descriptors found and any zeros: a  *)
(* descriptor where one stands in some layout decides, in the layout that is taken   *)
(* otherwise one that was found stands, and without any a layout has to fit alone.   *)
THEOREM RawLayoutIsRight == Spec => []RawLayoutRight
<1>1. ASSUME input = [kind |-> "none"] \/ input \in Inputs, input.kind = "raw"
      PROVE  LET layout == FD!DetectRawCDFormat(input.found, input.zero, Scores(input))
                 exact  == UNION {FD!Exact(input.found, s) : s \in {"CD001", "CDROM", "BEA01"}}
                 base   == FD!BaseOffset(input.zero)
                 full   == {l \in ToSet(FD!Tried(base)) : Scores(input)[l] = 2}
             IN /\ exact # {} => layout \in exact
                /\ exact = {} /\ input.found # {} =>
                     \E f \in input.found :
                         FD!DescriptorAt(layout) = f.at - FD!SignatureOffset[f.sig]
                /\ input.found = {} /\ layout # FD!NoLayout =>
                     \E l \in full : /\ full = {l} /\ layout.sector = l.sector
                                     /\ base \notin {FD!NoOffset, 0} => layout = l
  <2> DEFINE found  == input.found
             zero   == input.zero
             score  == Scores(input)
             layout == FD!DetectRawCDFormat(found, zero, score)
             exact  == UNION {FD!Exact(found, s) : s \in {"CD001", "CDROM", "BEA01"}}
             base   == FD!BaseOffset(zero)
             full   == {l \in ToSet(FD!Tried(base)) : score[l] = 2}
             tried  == FD!Tried(base)
             fully  == {i \in DOMAIN tried : score[tried[i]] = 2}
             Only(l) == /\ full = {l} /\ layout.sector = l.sector
                        /\ base \notin {FD!NoOffset, 0} => layout = l
  <2>1. found \in SUBSET Descriptors /\ zero \in Nat \cup {FD!NoOffset}
    BY <1>1, InputsAssumption DEF InputsAssumption
  <2>2. \A l \in FD!Layouts : score[l] \in 0 .. 2
    BY DEF Scores, FD!ProbeSectorFormat
  <2>3. layout = IF found # {} THEN FD!ScanVolumeHeaderForSignature(found)
                 ELSE IF FD!Decided(fully) THEN FD!Kept(score, base) ELSE FD!NoLayout
    BY DEF FD!DetectRawCDFormat
  <2>4. base \in {FD!NoOffset, 0, 8, 16, 24}
    BY <2>1, BaseIsOne
  <2> HIDE DEF found, zero, score, layout, base
  <2>5. ASSUME exact # {}
        PROVE  layout \in exact
    <3>1. PICK t \in Names : FD!Exact(found, t) # {}
      BY <2>5 DEF Names
    <3>2. found # {}
      BY <3>1 DEF FD!Exact, FD!FirstIn
    <3>3. \E s \in Names : FD!ScanVolumeHeaderForSignature(found) \in FD!Exact(found, s)
      BY <2>1, <3>1, ExactDecides
    <3>4. QED
      BY <2>3, <3>2, <3>3 DEF Names
  <2>6. ASSUME exact = {}, found # {}
        PROVE  \E f \in found : FD!DescriptorAt(layout) = f.at - FD!SignatureOffset[f.sig]
    <3>1. \A s \in Names : FD!Exact(found, s) = {}
      BY <2>6 DEF Names
    <3>2. PICK f \in found :
            FD!DescriptorAt(FD!ScanVolumeHeaderForSignature(found)) = FirstSectorOf(f)
      BY <2>1, <2>6, <3>1, SomeFits
    <3>3. QED
      BY <2>3, <2>6, <3>2 DEF FirstSectorOf
  <2> HIDE DEF full, Only
  <2>7. ASSUME found = {}, layout # FD!NoLayout
        PROVE  \E l \in full : Only(l)
    <3>1. FD!Decided(fully) /\ layout = FD!Kept(score, base)
      BY <2>3, <2>7
    <3>2. PICK i \in fully : /\ fully = {i}
                             /\ layout = [sector |-> tried[i].sector, offset |-> base]
      <4>1. fully = Fitting(score, base)
        BY DEF Fitting
      <4> HIDE DEF fully
      <4>2. QED
        BY <2>2, <2>4, <3>1, <4>1, OneFits
    <3>3. i \in DOMAIN tried /\ score[tried[i]] = 2
      BY <3>2
    <3>4. full = {tried[i]}
      <4>1. tried[i] \in full
        BY <3>3 DEF ToSet, full
      <4>2. ASSUME NEW l \in full PROVE l = tried[i]
        <5>1. PICK j \in DOMAIN tried : l = tried[j] /\ score[tried[j]] = 2
          BY DEF ToSet, full
        <5>2. j = i
          BY <3>2, <5>1
        <5>3. QED
          BY <5>1, <5>2
      <4>3. QED
        BY <4>1, <4>2
    <3>5. base \notin {FD!NoOffset, 0} => layout = tried[i]
      BY <2>4, <3>2, <3>3, TriedAre
    <3>6. tried[i] \in full /\ Only(tried[i])
      BY <3>2, <3>4, <3>5 DEF Only
    <3>7. QED
      BY <3>6
  <2> HIDE DEF exact
  <2>8. /\ exact # {} => layout \in exact
        /\ exact = {} /\ found # {} =>
              \E f \in found : FD!DescriptorAt(layout) = f.at - FD!SignatureOffset[f.sig]
        /\ found = {} /\ layout # FD!NoLayout => \E l \in full : Only(l)
    BY <2>5, <2>6, <2>7
  <2>9. QED
    BY <2>8 DEF found, zero, score, layout, exact, base, full, Only
<1>2. ASSUME input = [kind |-> "none"] \/ input \in Inputs
      PROVE  RawLayoutRight
  BY <1>1, <1>2 DEF RawLayoutRight
<1>3. QED
  BY <1>2, InputIsGiven, PTL

--------------------------------------------------------------------------------
(* The replies of a drive. *)

Replies == [parts : Seq(Nat), full : Nat]

\* The first features that are looked at.
Among(n) == {MMC!KnownFeatures[i] : i \in 1 .. n}

\* A reply has those of them that are asked for and that the drive has, in their order.
Lists(reply, drive, asked, n) ==
    /\ reply \in Replies
    /\ ToSet(reply.parts) = {f \in Among(n) : f \in asked /\ MMC!HasFeature(drive, f)}
    /\ \A i, j \in DOMAIN reply.parts : i < j => reply.parts[i] < reply.parts[j]

LEMMA KnownAre ==
    /\ Len(MMC!KnownFeatures) = 8
    /\ Among(0) = {}
    /\ Among(8) = {0, 1, 2, 3, 29, 30, 31, 64}
    /\ \A n \in 1 .. 8 :
          /\ MMC!KnownFeatures[n] \in Nat
          /\ Among(n) = Among(n - 1) \cup {MMC!KnownFeatures[n]}
          /\ \A f \in Among(n - 1) : f < MMC!KnownFeatures[n]
<1> DEFINE known == MMC!KnownFeatures
<1>1. /\ Len(known) = 8
      /\ known[1] = 0 /\ known[2] = 1 /\ known[3] = 2 /\ known[4] = 3
      /\ known[5] = 29 /\ known[6] = 30 /\ known[7] = 31 /\ known[8] = 64
  BY DEF MMC!KnownFeatures, MMC!ProfileList, MMC!Core, MMC!Morphing, MMC!RemovableMedium,
     MMC!MultiRead, MMC!CdRead, MMC!DvdRead, MMC!BDRead
<1> HIDE DEF known
<1>2. \A n \in 1 .. 8 : n \in {1, 2, 3, 4, 5, 6, 7, 8}
  OBVIOUS
<1>3. \A n \in 1 .. 8 : known[n] \in Nat
  BY <1>1, <1>2
<1>4. \A n \in 1 .. 7 : known[n] < known[n + 1]
  BY <1>1
<1>5. \A i, n \in 1 .. 8 : i < n => known[i] < known[n]
  BY <1>1, <1>2
<1>6. Among(0) = {}
  BY DEF Among
<1>7. Among(8) = {0, 1, 2, 3, 29, 30, 31, 64}
  <2>1. Among(8) = {known[i] : i \in 1 .. 8}
    BY DEF Among, known
  <2>2. 1 .. 8 = {1, 2, 3, 4, 5, 6, 7, 8}
    OBVIOUS
  <2>3. Among(8) = {known[1], known[2], known[3], known[4], known[5], known[6], known[7], known[8]}
    BY <2>1, <2>2
  <2>4. QED
    BY <1>1, <2>3
<1>8. ASSUME NEW n \in 1 .. 8
      PROVE  /\ Among(n) = Among(n - 1) \cup {known[n]}
             /\ \A f \in Among(n - 1) : f < known[n]
  <2>1. \A i : i \in 1 .. n <=> i \in 1 .. n - 1 \/ i = n
    OBVIOUS
  <2>2. Among(n) = {known[i] : i \in 1 .. n} /\ Among(n - 1) = {known[i] : i \in 1 .. n - 1}
    BY DEF Among, known
  <2>3. Among(n) = Among(n - 1) \cup {known[n]}
    BY <2>1, <2>2
  <2>4. \A i \in 1 .. n - 1 : i \in 1 .. 8 /\ i < n
    OBVIOUS
  <2>5. \A f \in Among(n - 1) : f < known[n]
    BY <1>5, <2>2, <2>4
  <2>6. QED
    BY <2>3, <2>5
<1>9. QED
  BY <1>1, <1>3, <1>6, <1>7, <1>8 DEF known

LEMMA ReplyType ==
    ASSUME NEW drive, NEW reply \in Replies, NEW feature \in Nat, NEW asked
    PROVE  MMC!WithFeature(drive, reply, feature, asked) \in Replies
<1> DEFINE added == [parts |-> Append(reply.parts, feature),
                     full |-> reply.full + 4 + MMC!FeatureSize(feature)]
<1>1. MMC!FeatureSize(feature) \in Nat
  BY DEF MMC!FeatureSize, MMC!SupportedProfiles
<1>2. added \in Replies
  <2> DEFINE s == MMC!FeatureSize(feature)
  <2>1. s \in Nat
    BY <1>1
  <2> HIDE DEF s
  <2>2. Append(reply.parts, feature) \in Seq(Nat) /\ reply.full + 4 + s \in Nat
    BY <2>1 DEF Replies
  <2>3. QED
    BY <2>2 DEF Replies, s
<1>3. MMC!WithFeature(drive, reply, feature, asked) \in {reply, added}
  BY DEF MMC!WithFeature
<1>4. QED
  BY <1>2, <1>3

LEMMA OneMoreFeature ==
    ASSUME NEW drive, NEW asked, NEW reply, NEW n \in 1 .. 8, Lists(reply, drive, asked, n - 1)
    PROVE  Lists(MMC!WithFeature(drive, reply, MMC!KnownFeatures[n], asked), drive, asked, n)
<1> DEFINE feature == MMC!KnownFeatures[n]
           next == MMC!WithFeature(drive, reply, feature, asked)
           Listed(f) == f \in asked /\ MMC!HasFeature(drive, f)
<1>1. /\ reply \in Replies /\ reply.parts \in Seq(Nat)
      /\ ToSet(reply.parts) = {f \in Among(n - 1) : Listed(f)}
      /\ \A i, j \in DOMAIN reply.parts : i < j => reply.parts[i] < reply.parts[j]
  BY DEF Lists, Replies
<1>2. /\ feature \in Nat /\ Among(n) = Among(n - 1) \cup {feature}
      /\ \A f \in Among(n - 1) : f < feature
  BY KnownAre
<1>3. next \in Replies
  BY <1>1, <1>2, ReplyType
<1>4. next = IF ~Listed(feature) THEN reply
             ELSE [parts |-> Append(reply.parts, feature),
                   full |-> reply.full + 4 + MMC!FeatureSize(feature)]
  BY DEF MMC!WithFeature
<1> HIDE DEF next, Listed, feature
<1>5. CASE ~Listed(feature)
  <2>1. {f \in Among(n) : Listed(f)} = {f \in Among(n - 1) : Listed(f)}
    BY <1>2, <1>5
  <2>2. Lists(next, drive, asked, n)
    BY <1>1, <1>4, <1>5, <2>1 DEF Lists, Listed
  <2>3. QED
    BY <2>2 DEF next, feature
<1>6. CASE Listed(feature)
  <2> DEFINE parts == reply.parts
             longer == Append(parts, feature)
  <2>1. next.parts = longer
    BY <1>4, <1>6
  <2>2. /\ parts \in Seq(Nat) /\ ToSet(parts) = {f \in Among(n - 1) : Listed(f)}
        /\ \A i, j \in DOMAIN parts : i < j => parts[i] < parts[j]
    BY <1>1
  <2> HIDE DEF parts
  <2>3. /\ Len(parts) \in Nat /\ DOMAIN parts = 1 .. Len(parts) /\ DOMAIN longer = 1 .. Len(parts) + 1
        /\ \A i \in 1 .. Len(parts) : longer[i] = parts[i] /\ parts[i] \in Nat
        /\ longer[Len(parts) + 1] = feature
    BY <1>2, <2>2
  <2> HIDE DEF longer
  <2>4. \A i \in DOMAIN longer : i \in 1 .. Len(parts) \/ i = Len(parts) + 1
    BY <2>3
  <2>5. ToSet(longer) = ToSet(parts) \cup {feature}
    <3>1. ASSUME NEW x PROVE x \in ToSet(longer) <=> x \in ToSet(parts) \/ x = feature
      BY <2>3, <2>4 DEF ToSet
    <3>2. QED
      BY <3>1
  <2>6. ToSet(longer) = {f \in Among(n) : Listed(f)}
    BY <1>2, <1>6, <2>2, <2>5
  <2>7. ASSUME NEW i \in DOMAIN longer, NEW j \in DOMAIN longer, i < j
        PROVE  longer[i] < longer[j]
    <3>1. i \in 1 .. Len(parts)
      BY <2>3, <2>7
    <3>2. CASE j \in 1 .. Len(parts)
      BY <2>2, <2>3, <2>7, <3>1, <3>2
    <3>3. CASE j = Len(parts) + 1
      <4>1. parts[i] \in ToSet(parts)
        BY <2>3, <3>1 DEF ToSet
      <4>2. parts[i] < feature
        BY <1>2, <2>2, <4>1
      <4>3. QED
        BY <2>3, <3>1, <3>3, <4>2
    <3>4. QED
      BY <2>4, <3>2, <3>3
  <2>8. Lists(next, drive, asked, n)
    BY <1>3, <2>1, <2>6, <2>7 DEF Lists, Listed
  <2>9. QED
    BY <2>8 DEF next, feature
<1>7. QED
  BY <1>5, <1>6

\* What a command gives: all that is asked for, as far as it fits.
Gives(result, drive, asked, size) ==
    \E reply : /\ Lists(reply, drive, asked, 8)
              /\ result = [length |-> reply.full - 4, profile |-> drive.profile,
                           parts |-> reply.parts, done |-> MMC!Min({size, reply.full})]

LEMMA ConfigurationIs ==
    ASSUME NEW drive, NEW request, NEW high, NEW low, NEW size,
           NEW start, start = MMC!StartingFeature(high, low),
           NEW asked, asked = start .. MMC!EndingFeature(request, start)
    PROVE  Gives(MMC!OnGetConfiguration(drive, request, high, low, size), drive, asked, size)
<1> DEFINE empty == [parts |-> <<>>, full |-> 8]
           Following(r, n) == MMC!WithFeature(drive, r, MMC!KnownFeatures[n], asked)
           step == [n \in 1 .. 8 |-> [r \in Replies |-> Following(r, n)]]
           Built(f) == f = [n \in 0 .. 8 |-> IF n = 0 THEN empty ELSE Following(f[n - 1], n)]
           reply == CHOOSE f : Built(f)
<1>1. empty \in Replies
  BY DEF Replies
<1>2. step \in [1 .. 8 -> [Replies -> Replies]]
  BY KnownAre, ReplyType
<1>3. \A n \in 1 .. 8, r \in Replies : step[n][r] = Following(r, n)
  OBVIOUS
<1> HIDE DEF step, empty
<1>4. \E f : Built(f)
  <2>1. PICK f : Recursive(f, 8, Replies, empty, step)
    <3> HIDE DEF Built
    <3>1. QED
      BY <1>1, <1>2, Recursion
  <2>2. ASSUME NEW n \in 0 .. 8, n # 0
        PROVE  f[n] = Following(f[n - 1], n)
    <3>1. n \in 1 .. 8 /\ n - 1 \in 0 .. 8
      BY <2>2
    <3>2. f[n] = step[n][f[n - 1]] /\ f[n - 1] \in Replies
      BY <2>1, <3>1 DEF Recursive
    <3>3. QED
      BY <1>3, <3>1, <3>2
  <2> HIDE DEF Following
  <2>3. f \in [0 .. 8 -> Replies] /\ f[0] = empty
    BY <2>1 DEF Recursive
  <2>4. f = [n \in 0 .. 8 |-> IF n = 0 THEN empty ELSE Following(f[n - 1], n)]
    BY <2>2, <2>3
  <2>5. QED
    BY <2>4
<1>5. Built(reply)
  <2> HIDE DEF Built
  <2>1. QED
    BY <1>4
<1>6. MMC!OnGetConfiguration(drive, request, high, low, size) =
          [length |-> reply[8].full - 4, profile |-> drive.profile,
           parts |-> reply[8].parts, done |-> MMC!Min({size, reply[8].full})]
  BY KnownAre DEF MMC!OnGetConfiguration, empty
<1> HIDE DEF reply
<1>7. reply[0] = empty /\ \A n \in 1 .. 8 : reply[n] = Following(reply[n - 1], n)
  <2> HIDE DEF Following
  <2>1. /\ 0 \in 0 .. 8
        /\ \A n \in 1 .. 8 : n \in 0 .. 8 /\ n # 0
    OBVIOUS
  <2>2. reply = [n \in 0 .. 8 |-> IF n = 0 THEN empty ELSE Following(reply[n - 1], n)]
    BY <1>5
  <2>3. reply[0] = empty
    BY <2>1, <2>2
  <2>4. ASSUME NEW n \in 1 .. 8 PROVE reply[n] = Following(reply[n - 1], n)
    BY <2>1, <2>2
  <2>5. QED
    BY <2>3, <2>4
<1> DEFINE right == {n \in 0 .. 8 : Lists(reply[n], drive, asked, n)}
<1>8. 0 \in right
  <2>1. {f \in Among(0) : f \in asked /\ MMC!HasFeature(drive, f)} = {}
    BY KnownAre
  <2>2. empty.parts = <<>> /\ ToSet(<<>>) = {}
    BY DEF empty, ToSet
  <2>3. Lists(empty, drive, asked, 0)
    BY <1>1, <2>1, <2>2 DEF Lists
  <2>4. QED
    BY <1>7, <2>3
<1>9. ASSUME NEW n \in 0 .. 8 - 1, n \in right
      PROVE  n + 1 \in right
  <2>1. n + 1 \in 1 .. 8 /\ n + 1 \in 0 .. 8 /\ (n + 1) - 1 = n
    OBVIOUS
  <2>2. reply[n + 1] = MMC!WithFeature(drive, reply[n], MMC!KnownFeatures[n + 1], asked)
    BY <1>7, <2>1
  <2>3. Lists(reply[n], drive, asked, (n + 1) - 1)
    BY <1>9, <2>1
  <2>4. Lists(reply[n + 1], drive, asked, n + 1)
    BY <2>1, <2>2, <2>3, OneMoreFeature
  <2>5. QED
    BY <2>1, <2>4
<1>10. 8 \in right
  <2> HIDE DEF right
  <2>1. \A n \in 0 .. 8 : n \in right
    BY <1>8, <1>9, UpTo
  <2>2. QED
    BY <2>1
<1>11. Lists(reply[8], drive, asked, 8)
  BY <1>10
<1>12. QED
  BY <1>6, <1>11 DEF Gives

LEMMA FeaturesAre ==
    ASSUME NEW drive, NEW feature, MMC!HasFeature(drive, feature)
    PROVE  feature \in 0 .. 272
<1>1. feature \in {0, 1, 2, 3, 29, 30, 31, 64}
  BY DEF MMC!HasFeature, MMC!ProfileList, MMC!Core, MMC!Morphing, MMC!RemovableMedium,
     MMC!MultiRead, MMC!CdRead, MMC!DvdRead, MMC!BDRead
<1>2. QED
  BY <1>1

(* OnGetConfiguration, OnModeSense10 (VirtualCDDevice.cpp), for any feature asked   *)
(* for, any buffer and any disc: a reply has the features of the complete list from  *)
(* the one asked for on, or that one alone, in ascending order, and is cut where the *)
(* buffer ends; the disc's profile is the one that is marked as current.             *)
THEOREM RepliesDoAgree == Spec => []RepliesAgree
<1>1. ASSUME input \in Inputs, input.kind = "mmc"
      PROVE  LET start == MMC!StartingFeature(input.high, input.low)
                 reply == MMC!OnGetConfiguration(input, input.request, input.high, input.low, input.size)
                 all   == MMC!OnGetConfiguration(input, 0, 0, 0, 1000)
             IN /\ ToSet(reply.parts) =
                      {f \in ToSet(all.parts) : f >= start /\ (input.request = 2 => f = start)}
                /\ \A i, j \in DOMAIN reply.parts : i < j => reply.parts[i] < reply.parts[j]
                /\ reply.done = Min({input.size, reply.length + 4})
                /\ {i \in DOMAIN MMC!GetProfileList(input) : MMC!GetProfileList(input)[i].current}
                      = {i \in DOMAIN MMC!SupportedProfiles : MMC!SupportedProfiles[i] = reply.profile}
                /\ MMC!QueryAvailableReadSpeeds(MMC!OwnPage(input), input.profile) =
                      [speeds |-> <<>>, dvd |-> reply.profile >= 16]
  <2> DEFINE start   == MMC!StartingFeature(input.high, input.low)
             reply   == MMC!OnGetConfiguration(input, input.request, input.high, input.low, input.size)
             all     == MMC!OnGetConfiguration(input, 0, 0, 0, 1000)
             request == input.request
             asked   == start .. MMC!EndingFeature(request, start)
             Listed(f) == MMC!HasFeature(input, f)
  <2>1. /\ input.high \in Nat /\ input.low \in Nat /\ input.size \in Nat
        /\ input.profile \in Nat
    BY <1>1, InputsAssumption DEF InputsAssumption
  <2>2. start \in Nat
    BY <2>1 DEF MMC!StartingFeature
  <2>3. \A f \in 0 .. 272 : f \in asked <=> f >= start /\ (request = 2 => f = start)
    <3> HIDE DEF start, request
    <3>1. QED
      BY <2>2 DEF MMC!EndingFeature, MMC!MaxFeature
  <2>4. 0 .. 272 = MMC!StartingFeature(0, 0) .. MMC!EndingFeature(0, MMC!StartingFeature(0, 0))
    BY DEF MMC!StartingFeature, MMC!EndingFeature, MMC!MaxFeature
  <2>5. PICK given : /\ Lists(given, input, asked, 8)
                     /\ reply = [length |-> given.full - 4, profile |-> input.profile,
                                 parts |-> given.parts, done |-> MMC!Min({input.size, given.full})]
    <3>1. Gives(reply, input, asked, input.size)
      BY ConfigurationIs
    <3> HIDE DEF asked, reply
    <3>2. QED
      BY <3>1, Zenon DEF Gives
  <2>6. PICK whole : /\ Lists(whole, input, 0 .. 272, 8)
                     /\ all = [length |-> whole.full - 4, profile |-> input.profile,
                               parts |-> whole.parts, done |-> MMC!Min({1000, whole.full})]
    <3> DEFINE every == 0 .. 272
    <3>1. every = MMC!StartingFeature(0, 0) .. MMC!EndingFeature(0, MMC!StartingFeature(0, 0))
      BY <2>4
    <3> HIDE DEF every
    <3>2. Gives(all, input, every, 1000)
      BY <3>1, ConfigurationIs
    <3> HIDE DEF all
    <3>3. \E w : /\ Lists(w, input, every, 8)
                 /\ all = [length |-> w.full - 4, profile |-> input.profile,
                           parts |-> w.parts, done |-> MMC!Min({1000, w.full})]
      BY <3>2, Zenon DEF Gives
    <3>4. QED
      BY <3>3, Zenon DEF every
  <2> HIDE DEF start, reply, all, asked, Listed, request
  <2>7. /\ ToSet(reply.parts) = {f \in Among(8) : f \in asked /\ Listed(f)}
        /\ \A i, j \in DOMAIN reply.parts : i < j => reply.parts[i] < reply.parts[j]
        /\ given.full \in Nat
    BY <2>5 DEF Lists, Replies, Listed
  <2>8. ToSet(all.parts) = {f \in Among(8) : f \in 0 .. 272 /\ Listed(f)}
    BY <2>6 DEF Lists, Listed
  <2>9. ToSet(reply.parts) = {f \in ToSet(all.parts) : f >= start /\ (request = 2 => f = start)}
    <3>1. \A f : Listed(f) => f \in 0 .. 272
      BY FeaturesAre DEF Listed
    <3>2. QED
      BY <2>3, <2>7, <2>8, <3>1
  <2>10. reply.done = Min({input.size, reply.length + 4})
    <3> DEFINE full == given.full
    <3>1. full \in Nat /\ reply.length = full - 4 /\ reply.done = MMC!Min({input.size, full})
      BY <2>5, <2>7
    <3> HIDE DEF full
    <3>2. reply.length + 4 = full
      BY <3>1
    <3>3. MMC!Min({input.size, full}) = Min({input.size, full})
      BY DEF MMC!Min, Min
    <3>4. QED
      BY <3>1, <3>2, <3>3
  <2>11. reply.profile = input.profile
    BY <2>5
  <2>12. {i \in DOMAIN MMC!GetProfileList(input) : MMC!GetProfileList(input)[i].current}
            = {i \in DOMAIN MMC!SupportedProfiles : MMC!SupportedProfiles[i] = reply.profile}
    BY <2>11 DEF MMC!GetProfileList
  <2>13. MMC!QueryAvailableReadSpeeds(MMC!OwnPage(input), input.profile) =
            [speeds |-> <<>>, dvd |-> reply.profile >= 16]
    <3>1. MMC!OnModeSense10(input, 42, 32768) = [length |-> 38, parts |-> <<42>>, done |-> 40]
      BY DEF MMC!OnModeSense10, MMC!Capabilities, MMC!ReturnAll, MMC!Min
    <3>2. MMC!OwnPage(input) = [code |-> 42, done |-> 40, speeds |-> <<>>]
      BY <3>1 DEF MMC!OwnPage, MMC!Capabilities
    <3>3. QED
      BY <2>11, <3>2 DEF MMC!QueryAvailableReadSpeeds, MMC!Capabilities
  <2>14. /\ ToSet(reply.parts) = {f \in ToSet(all.parts) : f >= start /\ (request = 2 => f = start)}
         /\ \A i, j \in DOMAIN reply.parts : i < j => reply.parts[i] < reply.parts[j]
         /\ reply.done = Min({input.size, reply.length + 4})
         /\ {i \in DOMAIN MMC!GetProfileList(input) : MMC!GetProfileList(input)[i].current}
               = {i \in DOMAIN MMC!SupportedProfiles : MMC!SupportedProfiles[i] = reply.profile}
         /\ MMC!QueryAvailableReadSpeeds(MMC!OwnPage(input), input.profile) =
               [speeds |-> <<>>, dvd |-> reply.profile >= 16]
    BY <2>7, <2>9, <2>10, <2>12, <2>13
  <2>15. QED
    BY <2>14 DEF start, reply, all, request
<1>2. ASSUME input = [kind |-> "none"] \/ input \in Inputs
      PROVE  RepliesAgree
  BY <1>1, <1>2 DEF RepliesAgree
<1>3. QED
  BY <1>2, InputIsGiven, PTL

--------------------------------------------------------------------------------
(* Discs of data and audio tracks. *)

(* The rounds that add up the sizes of tracks. *)
Ends(end, tracks) ==
    end = [n \in 0 .. Len(tracks) |->
              IF n = 0 THEN 0 ELSE end[n - 1] + SizeOf(tracks[n]) * tracks[n][2]]

LEMMA TrackType ==
    ASSUME NEW t \in Track
    PROVE  /\ t[2] \in Nat \ {0} /\ SizeOf(t) \in Nat \ {0} /\ OffsetOf(t) \in Nat
           /\ OffsetOf(t) + CDSectorSize <= SizeOf(t)
           /\ SizeOf(t) * t[2] \in Nat /\ SizeOf(t) <= SizeOf(t) * t[2]
<1>1. /\ t[2] \in Nat \ {0} /\ SizeOf(t) \in Nat \ {0} /\ OffsetOf(t) \in Nat
      /\ OffsetOf(t) + CDSectorSize <= SizeOf(t)
  BY DEF Track, SizeOf, OffsetOf, CDSectorSize
<1> DEFINE size == SizeOf(t)
           count == t[2]
<1> HIDE DEF size, count
<1>2. count \in Nat \ {0} /\ size \in Nat \ {0}
  BY <1>1 DEF size, count
<1>3. 1 * size <= count * size /\ count * size \in Int
  BY <1>2, Multiples
<1>4. size * count \in Nat /\ size <= size * count
  BY <1>2, <1>3
<1>5. QED
  BY <1>1, <1>4 DEF size, count

(* Each track begins where the one before it ends. *)
LEMMA StartFacts ==
    ASSUME NEW tracks \in Seq(Track)
    PROVE  /\ StartOf(tracks, 1) = 0
           /\ \A i \in 1 .. Len(tracks) + 1 : StartOf(tracks, i) \in Nat
           /\ \A i \in 1 .. Len(tracks) :
                 StartOf(tracks, i + 1) = StartOf(tracks, i) + SizeOf(tracks[i]) * tracks[i][2]
<1> DEFINE n == Len(tracks)
           step == [i \in 1 .. n |-> [at \in Nat |-> at + SizeOf(tracks[i]) * tracks[i][2]]]
           end == CHOOSE f : Ends(f, tracks)
<1>1. n \in Nat /\ \A i \in 1 .. n : SizeOf(tracks[i]) * tracks[i][2] \in Nat
  <2>1. n \in Nat /\ \A i \in 1 .. n : tracks[i] \in Track
    OBVIOUS
  <2>2. QED
    BY <2>1, TrackType
<1>2. step \in [1 .. n -> [Nat -> Nat]]
  BY <1>1
<1>3. \A i \in 1 .. n, at \in Nat : step[i][at] = at + SizeOf(tracks[i]) * tracks[i][2]
  OBVIOUS
<1> HIDE DEF step
<1>4. \E f : Ends(f, tracks)
  <2>1. PICK f : Recursive(f, n, Nat, 0, step)
    <3> HIDE DEF n
    <3>1. 0 \in Nat
      OBVIOUS
    <3>2. QED
      BY <1>1, <1>2, <3>1, Recursion
  <2>2. ASSUME NEW i \in 0 .. n, i # 0
        PROVE  step[i][f[i - 1]] = f[i - 1] + SizeOf(tracks[i]) * tracks[i][2]
    <3>1. i \in 1 .. n /\ i - 1 \in 0 .. n
      BY <2>2
    <3>2. f[i - 1] \in Nat
      BY <2>1, <3>1 DEF Recursive
    <3>3. QED
      BY <1>3, <3>1, <3>2
  <2>3. f = [i \in 0 .. n |-> IF i = 0 THEN 0 ELSE f[i - 1] + SizeOf(tracks[i]) * tracks[i][2]]
    BY <2>1, <2>2 DEF Recursive
  <2>4. QED
    BY <2>3 DEF Ends
<1>5. Ends(end, tracks)
  BY <1>4
<1>6. \A i \in 1 .. n + 1 : StartOf(tracks, i) = end[i - 1]
  BY DEF StartOf, Ends
<1> HIDE DEF end
<1> DEFINE Good == {i \in 0 .. n : end[i] \in Nat}
<1>7. 0 \in Good
  BY <1>1, <1>5 DEF Ends
<1>8. ASSUME NEW i \in 0 .. n - 1
      PROVE  end[i + 1] = end[i] + SizeOf(tracks[i + 1]) * tracks[i + 1][2]
  <2>1. i + 1 \in 0 .. n /\ i + 1 \in 1 .. n /\ i + 1 # 0 /\ (i + 1) - 1 = i
    OBVIOUS
  <2>2. QED
    BY <1>5, <2>1 DEF Ends
<1>9. ASSUME NEW i \in 0 .. n - 1, i \in Good
      PROVE  i + 1 \in Good
  <2>1. i + 1 \in 0 .. n /\ i + 1 \in 1 .. n
    OBVIOUS
  <2>2. QED
    BY <1>1, <1>8, <1>9, <2>1
<1> HIDE DEF Good
<1>10. \A i \in 0 .. n : i \in Good
  BY <1>1, <1>7, <1>9, UpTo
<1>11. \A i \in 1 .. n + 1 : StartOf(tracks, i) \in Nat
  <2> SUFFICES ASSUME NEW i \in 1 .. n + 1 PROVE StartOf(tracks, i) \in Nat
    OBVIOUS
  <2>1. i - 1 \in 0 .. n
    BY <1>1
  <2>2. QED
    BY <1>6, <1>10, <2>1 DEF Good
<1>12. ASSUME NEW i \in 1 .. n
       PROVE  StartOf(tracks, i + 1) = StartOf(tracks, i) + SizeOf(tracks[i]) * tracks[i][2]
  <2>1. /\ i \in 1 .. n + 1 /\ i + 1 \in 1 .. n + 1 /\ i - 1 \in 0 .. n - 1
        /\ (i - 1) + 1 = i /\ (i + 1) - 1 = i
    BY <1>1
  <2>2. QED
    BY <1>6, <1>8, <2>1
<1>13. StartOf(tracks, 1) = 0
  <2>1. 1 \in 1 .. n + 1 /\ 1 - 1 = 0 /\ 0 \in 0 .. n
    BY <1>1
  <2>2. QED
    BY <1>5, <1>6, <2>1 DEF Ends
<1>14. QED
  BY <1>11, <1>12, <1>13

(* No track ends after the last one. *)
LEMMA NoneAfterTheLast ==
    ASSUME NEW tracks \in Seq(Track), NEW i \in 1 .. Len(tracks)
    PROVE  StartOf(tracks, i + 1) <= StartOf(tracks, Len(tracks) + 1)
<1> DEFINE n == Len(tracks)
           last == StartOf(tracks, n + 1)
           Good == {d \in 0 .. n - 1 : StartOf(tracks, n + 1 - d) <= last}
<1>1. n \in Nat /\ \A j \in 1 .. n : tracks[j] \in Track
  OBVIOUS
<1>2. /\ \A j \in 1 .. n + 1 : StartOf(tracks, j) \in Nat
      /\ \A j \in 1 .. n : StartOf(tracks, j + 1) = StartOf(tracks, j) + SizeOf(tracks[j]) * tracks[j][2]
  BY StartFacts
<1>3. n - 1 \in Nat /\ n + 1 \in 1 .. n + 1 /\ last \in Nat
  BY <1>1, <1>2
<1> HIDE DEF last
<1>4. 0 \in Good
  <2>1. n + 1 - 0 = n + 1 /\ 0 \in 0 .. n - 1
    BY <1>3
  <2>2. QED
    BY <1>3, <2>1 DEF last
<1>5. ASSUME NEW d \in 0 .. (n - 1) - 1, d \in Good
      PROVE  d + 1 \in Good
  <2> DEFINE j == n - d
  <2>1. /\ j \in 1 .. n /\ j \in 1 .. n + 1 /\ j + 1 \in 1 .. n + 1
        /\ n + 1 - d = j + 1 /\ n + 1 - (d + 1) = j /\ d + 1 \in 0 .. n - 1
    BY <1>1
  <2> HIDE DEF j
  <2>2. StartOf(tracks, j) <= StartOf(tracks, j + 1)
    <3>1. SizeOf(tracks[j]) * tracks[j][2] \in Nat
      BY <1>1, <2>1, TrackType
    <3>2. QED
      BY <1>2, <2>1, <3>1
  <2>3. StartOf(tracks, j + 1) <= last
    BY <1>5, <2>1
  <2>4. StartOf(tracks, j) \in Nat /\ StartOf(tracks, j + 1) \in Nat
    BY <1>2, <2>1
  <2>5. StartOf(tracks, j) <= last
    BY <1>3, <2>2, <2>3, <2>4
  <2>6. QED
    BY <2>1, <2>5
<1> HIDE DEF Good
<1>6. \A d \in 0 .. n - 1 : d \in Good
  BY <1>3, <1>4, <1>5, UpTo
<1>7. n - i \in 0 .. n - 1 /\ n + 1 - (n - i) = i + 1
  BY <1>1
<1>8. QED
  BY <1>6, <1>7 DEF Good, last

(* The sectors of a range, cut at the end of the file, are those that fit.     *)
CutAt(all, from, size, count) ==
    IF from + count * size <= all THEN from + count * size ELSE all
ThatFit(all, from, size, count) ==
    {k \in 1 .. count : from + (k - 1) * size + size <= all}

LEMMA SectorsThatFit ==
    ASSUME NEW count \in Nat, NEW size \in Nat \ {0}, NEW from \in Nat, NEW all \in Nat,
           from <= all
    PROVE  Max({0} \cup ThatFit(all, from, size, count))
               = (CutAt(all, from, size, count) - from) \div size
<1> DEFINE last == CutAt(all, from, size, count)
           there == ThatFit(all, from, size, count)
           left == last - from
           most == left \div size
           S == {0} \cup there
<1>1. /\ count * size \in Nat /\ last \in Nat /\ left \in Nat /\ left <= count * size
      /\ last <= all /\ last = IF from + count * size <= all THEN from + count * size ELSE all
  BY DEF CutAt
<1>2. there = {k \in 1 .. count : from + (k - 1) * size + size <= all}
  BY DEF ThatFit
<1>3. most \in Nat /\ most * size <= left /\ left < (most + 1) * size
  <2> HIDE DEF left
  <2>1. QED
    BY <1>1
<1> HIDE DEF left, most, last, there
<1>4. S \in SUBSET (0 .. count) /\ S # {}
  BY <1>2
<1>5. most \in S
  <2>1. CASE most = 0
    BY <2>1
  <2>2. CASE most # 0
    <3>1. ~(count + 1 <= most)
      <4>1. SUFFICES ASSUME count + 1 <= most PROVE FALSE
        OBVIOUS
      <4>2. (count + 1) * size <= most * size /\ (count + 1) * size = count * size + size
        BY <1>3, <4>1, Multiples
      <4>3. QED
        BY <1>1, <1>3, <4>2
    <3>2. most \in 1 .. count
      BY <1>3, <2>2, <3>1
    <3>3. (most - 1) * size + size = most * size
      BY <1>3
    <3>4. from + most * size <= all
      BY <1>1, <1>3 DEF left
    <3>5. from + (most - 1) * size + size <= all
      BY <1>3, <3>2, <3>3, <3>4
    <3>6. QED
      BY <1>2, <3>2, <3>5
  <2>3. QED
    BY <2>1, <2>2
<1>6. ASSUME NEW k \in S PROVE k <= most
  <2>1. CASE k = 0
    BY <1>3, <2>1
  <2>2. CASE k # 0
    <3>1. k \in 1 .. count /\ from + (k - 1) * size + size <= all
      BY <1>2, <2>2
    <3>2. (k - 1) * size + size = k * size /\ k * size \in Nat
      BY <3>1
    <3>3. k * size <= count * size
      BY <3>1, Multiples
    <3>4. from + k * size <= all
      BY <3>1, <3>2
    <3>5. from + k * size <= last
      BY <1>1, <3>2, <3>3, <3>4
    <3>6. k * size <= left
      BY <1>1, <3>2, <3>5 DEF left
    <3>7. ~(most + 1 <= k)
      <4>1. SUFFICES ASSUME most + 1 <= k PROVE FALSE
        OBVIOUS
      <4>2. (most + 1) * size <= k * size
        BY <1>3, <3>1, <4>1, Multiples
      <4>3. QED
        BY <1>1, <1>3, <3>2, <3>6, <4>2
    <3>8. QED
      BY <1>3, <3>1, <3>7
  <2>3. QED
    BY <2>1, <2>2
<1>7. Max(S) \in S /\ \A m \in S : m <= Max(S)
  <2> HIDE DEF S
  <2>1. QED
    BY <1>4, MaxFacts
<1>8. Max(S) = most
  <2> HIDE DEF S
  <2>1. Max(S) <= most /\ most <= Max(S) /\ Max(S) \in 0 .. count
    BY <1>4, <1>5, <1>6, <1>7
  <2>2. QED
    BY <1>3, <2>1
<1>9. QED
  BY <1>8 DEF most, left, last, there

(* A disc of the inputs. *)
Disc(in) ==
    /\ in.format \in {"mds", "nrgDAO", "nrgETN"}
    /\ in.tracks \in Seq(Track) /\ in.tracks # <<>> /\ in.after \in Nat
    /\ FileSizeOf(in) < Width
    /\ \E i, j \in DOMAIN in.tracks : \A k \in DOMAIN in.tracks :
          IsAudio(in.tracks[k]) \/ k \in {i, j}

LEMMA DiscFacts ==
    ASSUME NEW in, Disc(in)
    PROVE  /\ Len(in.tracks) \in Nat \ {0} /\ DOMAIN in.tracks = 1 .. Len(in.tracks)
           /\ FileSizeOf(in) \in Nat /\ FileSizeOf(in) < Width
           /\ StartOf(in.tracks, 1) = 0
           /\ \A i \in 1 .. Len(in.tracks) + 1 : StartOf(in.tracks, i) \in Nat
           /\ \A i \in 1 .. Len(in.tracks) :
                 /\ in.tracks[i] \in Track
                 /\ StartOf(in.tracks, i + 1) =
                       StartOf(in.tracks, i) + SizeOf(in.tracks[i]) * in.tracks[i][2]
                 /\ StartOf(in.tracks, i + 1) <= FileSizeOf(in)
<1> DEFINE n == Len(in.tracks)
           end == StartOf(in.tracks, n + 1)
<1>1. /\ in.tracks \in Seq(Track) /\ in.tracks # <<>> /\ in.after \in Nat
      /\ FileSizeOf(in) < Width
  BY DEF Disc
<1>2. /\ n \in Nat \ {0} /\ DOMAIN in.tracks = 1 .. n
      /\ \A i \in 1 .. n : in.tracks[i] \in Track
  BY <1>1
<1>3. /\ StartOf(in.tracks, 1) = 0
      /\ \A i \in 1 .. n + 1 : StartOf(in.tracks, i) \in Nat
      /\ \A i \in 1 .. n : StartOf(in.tracks, i + 1) =
             StartOf(in.tracks, i) + SizeOf(in.tracks[i]) * in.tracks[i][2]
  BY <1>1, StartFacts
<1>4. n + 1 \in 1 .. n + 1
  BY <1>2
<1>5. end \in Nat /\ FileSizeOf(in) = end + in.after
  BY <1>3, <1>4 DEF FileSizeOf
<1>6. \A i \in 1 .. n : StartOf(in.tracks, i + 1) <= end /\ i + 1 \in 1 .. n + 1
  BY <1>1, <1>2, NoneAfterTheLast
<1> HIDE DEF end
<1>7. \A i \in 1 .. n : StartOf(in.tracks, i + 1) <= FileSizeOf(in)
  <2> SUFFICES ASSUME NEW i \in 1 .. n PROVE StartOf(in.tracks, i + 1) <= FileSizeOf(in)
    OBVIOUS
  <2>1. StartOf(in.tracks, i + 1) \in Nat /\ StartOf(in.tracks, i + 1) <= end
    BY <1>3, <1>6
  <2>2. QED
    BY <1>1, <1>5, <2>1
<1>8. QED
  BY <1>1, <1>2, <1>3, <1>5, <1>7

(* What a parser makes of a track.                                             *)
IsParsed(p, in, i) ==
    /\ p.start = StartOf(in.tracks, i) /\ p.end = StartOf(in.tracks, i + 1)
    /\ p.mode.main = SizeOf(in.tracks[i]) /\ p.mode.sub = 0
    /\ p.mode.offset = OffsetOf(in.tracks[i])
    /\ IsDataTrack(p) <=> ~IsAudio(in.tracks[i])

(* The blocks of an MDS description are parsed one after the other.            *)
Blocks(after, blocks, dvd) ==
    after = [n \in 0 .. Len(blocks) |->
                IF n = 0 THEN NewMDSSession ELSE MDSBlock(after[n - 1], blocks[n], dvd)]

BlockOf(tracks, i) ==
    [extra |-> 1, length |-> tracks[i][2], footer |-> "file", subchannel |-> 0,
     mode |-> IF IsAudio(tracks[i]) THEN 1 ELSE 2, sector |-> SizeOf(tracks[i]),
     header |-> IF tracks[i][1] = "raw" THEN "mode1" ELSE "other",
     start |-> StartOf(tracks, i)]

ParsedBlock(tracks, i) ==
    [mode |-> Mode(IF IsAudio(tracks[i]) THEN "audio" ELSE "mode1", SizeOf(tracks[i]), 0,
                   OffsetOf(tracks[i])),
     start |-> StartOf(tracks, i),
     end |-> StartOf(tracks, i) + SizeOf(tracks[i]) * tracks[i][2], file |-> 1]

SessionAfter(tracks, n) ==
    [outcome |-> "successful", files |-> IF n = 0 THEN <<>> ELSE <<"file">>,
     tracks |-> [i \in 1 .. n |-> ParsedBlock(tracks, i)]]

LEMMA BlockIsAdded ==
    ASSUME NEW session, session.outcome = "successful", session.files \in {<<>>, <<"file">>},
           NEW block, block.extra = 1, block.length # 0, block.footer = "file",
           block.subchannel = 0, block.sector \in Nat
    PROVE  MDSBlock(session, block, FALSE) =
               [session EXCEPT
                   !.files = <<"file">>,
                   !.tracks = Append(@,
                       [mode |-> Mode(MDSModeType(block.mode % 8), block.sector, 0,
                                      DetectDataOffsetInSector(block.header, block.sector, 0)),
                        start |-> block.start,
                        end |-> block.start + block.sector * block.length, file |-> 1])]
<1> DEFINE files == IF block.footer = "none" \/ block.footer \in ToSet(session.files)
                    THEN session.files ELSE Append(session.files, block.footer)
           file == IF block.footer = "none" THEN 1
                   ELSE CHOOSE i \in DOMAIN files : files[i] = block.footer
           count == IF FALSE THEN block.extra ELSE block.length
           sub == IF block.subchannel = 8 THEN 96 ELSE 0
           mode == Mode(MDSModeType(block.mode % 8), block.sector - sub, sub,
                        DetectDataOffsetInSector(block.header, block.sector, 0))
           more == [session EXCEPT
                       !.files = files,
                       !.tracks = Append(@, [mode |-> mode, start |-> block.start,
                                             end |-> block.start + block.sector * count,
                                             file |-> file])]
<1>1. files = <<"file">>
  <2>1. CASE session.files = <<>>
    <3>1. "file" \notin ToSet(<<>>) /\ Append(<<>>, "file") = <<"file">>
      BY DEF ToSet
    <3>2. QED
      BY <2>1, <3>1
  <2>2. CASE session.files = <<"file">>
    <3>1. "file" \in ToSet(<<"file">>)
      <4>1. 1 \in DOMAIN <<"file">> /\ <<"file">>[1] = "file"
        OBVIOUS
      <4> DEFINE names == <<"file">>
      <4> HIDE DEF names
      <4>2. "file" \in ToSet(names)
        BY <4>1 DEF ToSet, names
      <4>3. QED
        BY <4>2 DEF names
    <3>2. QED
      BY <2>2, <3>1
  <2>3. QED
    BY <2>1, <2>2
<1> HIDE DEF files
<1>2. file = 1
  <2>1. DOMAIN <<"file">> = {1} /\ <<"file">>[1] = "file"
    OBVIOUS
  <2>2. QED
    BY <1>1, <2>1
<1>3. count = block.length /\ sub = 0 /\ block.sector - sub = block.sector
  OBVIOUS
<1> HIDE DEF file, count, sub
<1>4. /\ session.outcome = "successful" /\ block.extra # 0 /\ count # 0
      /\ block.footer # "nameless" /\ block.footer # "empty" /\ files # <<>>
  BY <1>1, <1>3
<1>5. MDSBlock(session, block, FALSE) =
        CASE \/ session.outcome # "successful"
             \/ block.extra = 0 \/ count = 0 \/ block.footer = "nameless" -> session
          [] block.footer = "empty" -> [session EXCEPT !.outcome = "failed"]
          [] files = <<>> -> [session EXCEPT !.outcome = "crashed"]
          [] OTHER -> more
  BY Zenon DEF MDSBlock, files, file, count, sub
<1> HIDE DEF more
<1>6. MDSBlock(session, block, FALSE) = more
  BY <1>4, <1>5
<1>7. QED
  BY <1>1, <1>2, <1>3, <1>6 DEF more

LEMMA NextBlock ==
    ASSUME NEW tracks \in Seq(Track), NEW n \in 0 .. Len(tracks) - 1
    PROVE  MDSBlock(SessionAfter(tracks, n), BlockOf(tracks, n + 1), FALSE)
               = SessionAfter(tracks, n + 1)
<1> DEFINE session == SessionAfter(tracks, n)
           block == BlockOf(tracks, n + 1)
           t == tracks[n + 1]
           new == ParsedBlock(tracks, n + 1)
           mode == Mode(MDSModeType(block.mode % 8), block.sector, 0,
                        DetectDataOffsetInSector(block.header, block.sector, 0))
           added == [mode |-> mode, start |-> block.start,
                     end |-> block.start + block.sector * block.length, file |-> 1]
           before == [i \in 1 .. n |-> ParsedBlock(tracks, i)]
<1>1. n + 1 \in 1 .. Len(tracks) /\ t \in Track /\ n \in Nat
  OBVIOUS
<1>2. /\ t[2] \in Nat \ {0} /\ SizeOf(t) \in {2048, 2352}
      /\ OffsetOf(t) = IF t[1] = "raw" THEN 16 ELSE 0
      /\ SizeOf(t) = IF t[1] = "plain" THEN 2048 ELSE 2352
      /\ t[1] \in {"plain", "raw", "audio"} /\ (IsAudio(t) <=> t[1] = "audio")
  BY <1>1 DEF Track, SizeOf, OffsetOf, IsAudio
<1>3. DetectDataOffsetInSector(block.header, block.sector, 0) = OffsetOf(t)
  BY <1>2 DEF BlockOf, DetectDataOffsetInSector, CDSectorSize
<1>4. MDSModeType(block.mode % 8) = IF IsAudio(t) THEN "audio" ELSE "mode1"
  BY DEF BlockOf, MDSModeType
<1>5. added = new
  BY <1>3, <1>4 DEF BlockOf, ParsedBlock
<1>6. MDSBlock(session, block, FALSE) =
          [session EXCEPT !.files = <<"file">>, !.tracks = Append(@, added)]
  <2>1. /\ session.outcome = "successful" /\ session.files \in {<<>>, <<"file">>}
        /\ block.extra = 1 /\ block.length # 0 /\ block.footer = "file"
        /\ block.subchannel = 0 /\ block.sector \in Nat
    BY <1>2 DEF SessionAfter, BlockOf
  <2> HIDE DEF session, block
  <2>2. QED
    BY <2>1, BlockIsAdded
<1>7. Append(before, new) = [i \in 1 .. n + 1 |-> ParsedBlock(tracks, i)]
  <2> DEFINE some == {ParsedBlock(tracks, i) : i \in 1 .. n + 1}
  <2>1. before \in Seq(some) /\ Len(before) = n /\ new \in some
    <3>1. \A i \in 1 .. n : before[i] \in some
      OBVIOUS
    <3> HIDE DEF some
    <3>2. QED
      BY <1>1, <3>1 DEF some
  <2> DEFINE Block(i) == ParsedBlock(tracks, i)
  <2> HIDE DEF some, Block
  <2>2. QED
    BY <1>1, <2>1
<1>8. [session EXCEPT !.files = <<"file">>, !.tracks = Append(@, new)] = SessionAfter(tracks, n + 1)
  <2> DEFINE files == IF n = 0 THEN <<>> ELSE <<"file">>
  <2>1. session = [outcome |-> "successful", files |-> files, tracks |-> before]
    BY DEF SessionAfter
  <2>2. n + 1 # 0
    BY <1>1
  <2>3. SessionAfter(tracks, n + 1) =
          [outcome |-> "successful", files |-> <<"file">>, tracks |-> Append(before, new)]
    BY <1>7, <2>2 DEF SessionAfter
  <2> HIDE DEF session, before, new, files
  <2>4. [session EXCEPT !.files = <<"file">>, !.tracks = Append(@, new)] =
          [outcome |-> "successful", files |-> <<"file">>, tracks |-> Append(before, new)]
    <3> DEFINE all == Append(before, new)
               one == <<"file">>
    <3>1. session.tracks = before
      BY <2>1
    <3> HIDE DEF all, one
    <3>2. [session EXCEPT !.files = one, !.tracks = all] =
            [outcome |-> "successful", files |-> one, tracks |-> all]
      <4> DEFINE half == [session EXCEPT !.files = one]
      <4>1. half = [outcome |-> "successful", files |-> one, tracks |-> before]
        BY <2>1
      <4> HIDE DEF half
      <4>2. [half EXCEPT !.tracks = all] =
              [outcome |-> "successful", files |-> one, tracks |-> all]
        BY <4>1
      <4>3. QED
        BY <4>2 DEF half
    <3>3. QED
      BY <3>1, <3>2 DEF all, one
  <2>5. QED
    BY <2>3, <2>4
<1>9. QED
  BY <1>5, <1>6, <1>8

LEMMA SessionIs ==
    ASSUME NEW tracks \in Seq(Track)
    PROVE  MDSSession([i \in DOMAIN tracks |-> BlockOf(tracks, i)], FALSE)
               = SessionAfter(tracks, Len(tracks))
<1> DEFINE n == Len(tracks)
           blocks == [i \in DOMAIN tracks |-> BlockOf(tracks, i)]
           after == CHOOSE f : Blocks(f, blocks, FALSE)
           right == [i \in 0 .. n |-> SessionAfter(tracks, i)]
<1>1. n \in Nat /\ DOMAIN tracks = 1 .. n
  OBVIOUS
<1>2. Len(blocks) = n
  <2>1. DOMAIN blocks = 1 .. n
    BY <1>1
  <2>2. blocks \in Seq({BlockOf(tracks, i) : i \in 1 .. n})
    BY <1>1
  <2> HIDE DEF blocks
  <2>3. QED
    BY <1>1, <2>1, <2>2
<1>3. \A i \in 1 .. n : blocks[i] = BlockOf(tracks, i)
  BY <1>1
<1> HIDE DEF blocks
<1>4. SessionAfter(tracks, 0) = NewMDSSession
  <2>1. [i \in 1 .. 0 |-> ParsedBlock(tracks, i)] = <<>>
    OBVIOUS
  <2>2. QED
    BY <2>1 DEF SessionAfter, NewMDSSession
<1>5. ASSUME NEW i \in 0 .. n - 1
      PROVE  MDSBlock(SessionAfter(tracks, i), blocks[i + 1], FALSE) = SessionAfter(tracks, i + 1)
  <2>1. i + 1 \in 1 .. n
    BY <1>1
  <2>2. QED
    BY <1>3, <2>1, NextBlock
<1>6. Blocks(right, blocks, FALSE)
  <2>1. ASSUME NEW i \in 0 .. n
        PROVE  SessionAfter(tracks, i) =
                  IF i = 0 THEN NewMDSSession ELSE MDSBlock(right[i - 1], blocks[i], FALSE)
    <3>1. CASE i = 0
      BY <1>4, <3>1
    <3>2. CASE i # 0
      <4>1. i - 1 \in 0 .. n - 1 /\ i - 1 \in 0 .. n /\ (i - 1) + 1 = i
        BY <1>1, <3>2
      <4>2. right[i - 1] = SessionAfter(tracks, i - 1)
        BY <4>1
      <4>3. MDSBlock(SessionAfter(tracks, i - 1), blocks[i], FALSE) = SessionAfter(tracks, i)
        BY <1>5, <4>1
      <4>4. QED
        BY <3>2, <4>2, <4>3
    <3>3. QED
      BY <3>1, <3>2
  <2>2. QED
    BY <1>2, <2>1 DEF Blocks
<1>7. Blocks(after, blocks, FALSE)
  <2> HIDE DEF right
  <2>1. QED
    BY <1>6
<1>8. MDSSession(blocks, FALSE) = after[n]
  BY <1>2 DEF MDSSession, Blocks
<1> HIDE DEF after
<1> DEFINE Good == {i \in 0 .. n : after[i] = SessionAfter(tracks, i)}
<1>9. 0 \in Good
  BY <1>1, <1>2, <1>4, <1>7 DEF Blocks
<1>10. ASSUME NEW i \in 0 .. n - 1, i \in Good
       PROVE  i + 1 \in Good
  <2>1. i + 1 \in 0 .. n /\ i + 1 # 0 /\ (i + 1) - 1 = i
    BY <1>1
  <2>2. after[i + 1] = MDSBlock(after[i], blocks[i + 1], FALSE)
    BY <1>2, <1>7, <2>1 DEF Blocks
  <2>3. QED
    BY <1>5, <1>10, <2>1, <2>2
<1> HIDE DEF Good
<1>11. \A i \in 0 .. n : i \in Good
  BY <1>1, <1>9, <1>10, UpTo
<1>12. n \in Good
  BY <1>1, <1>11
<1>13. QED
  BY <1>8, <1>12 DEF Good, blocks

LEMMA MDSIsParsed ==
    ASSUME NEW in, Disc(in), in.format = "mds"
    PROVE  \E parsed :
              /\ Len(parsed) = Len(in.tracks)
              /\ \A i \in 1 .. Len(in.tracks) : IsParsed(parsed[i], in, i)
              /\ Opened(in) = AddTracks(FileSizeOf(in), parsed).image
<1> DEFINE n == Len(in.tracks)
           disc == MDSDiscOf(in.tracks)
           blocks == [i \in DOMAIN in.tracks |-> BlockOf(in.tracks, i)]
           session == SessionAfter(in.tracks, n)
           parsed == [i \in 1 .. n |-> ParsedBlock(in.tracks, i)]
<1>1. /\ in.tracks \in Seq(Track) /\ n \in Nat \ {0} /\ DOMAIN in.tracks = 1 .. n
  BY DiscFacts DEF Disc
<1>2. disc = [dvd |-> FALSE, sessions |-> <<blocks>>]
  BY DEF MDSDiscOf, BlockOf
<1>3. MDSSession(blocks, FALSE) = session
  BY <1>1, SessionIs
<1>4. session.outcome = "successful" /\ session.files = <<"file">> /\ session.tracks = parsed
  BY <1>1 DEF SessionAfter
<1> HIDE DEF disc, blocks, session, parsed
<1>5. /\ disc.dvd = FALSE /\ DOMAIN disc.sessions = {1} /\ disc.sessions[1] = blocks
  BY <1>2
<1>6. MDSSessions(disc) = {1}
  BY <1>3, <1>4, <1>5 DEF MDSSessions
<1>7. FirstSession(disc) = session
  <2>1. Min({1}) = 1
    BY DEF Min
  <2>2. QED
    BY <1>3, <1>5, <1>6, <2>1 DEF FirstSession
<1>8. Opened(in) = AddTracks(FileSizeOf(in), parsed).image
  <2>1. MDSSessions(disc) # {} /\ FirstSession(disc).files # <<>>
    BY <1>4, <1>6, <1>7
  <2>2. Opened(in) = OpenMDS(disc, FileSizeOf(in))
    BY DEF Opened, disc
  <2>3. QED
    BY <1>4, <1>7, <2>1, <2>2 DEF OpenMDS
<1>9. Len(parsed) = n
  <2>1. DOMAIN parsed = 1 .. n /\ parsed \in Seq({ParsedBlock(in.tracks, i) : i \in 1 .. n})
    BY <1>1 DEF parsed
  <2>2. QED
    BY <1>1, <2>1
<1>10. ASSUME NEW i \in 1 .. n PROVE IsParsed(parsed[i], in, i)
  <2>1. parsed[i] = ParsedBlock(in.tracks, i)
    BY DEF parsed
  <2>2. StartOf(in.tracks, i + 1) = StartOf(in.tracks, i) + SizeOf(in.tracks[i]) * in.tracks[i][2]
    BY DiscFacts
  <2>3. QED
    BY <2>1, <2>2 DEF IsParsed, ParsedBlock, Mode, IsDataTrack
<1>11. QED
  BY <1>8, <1>9, <1>10

LEMMA AllEntriesKnown ==
    ASSUME NEW S, NEW entries \in Seq(S), \A i \in DOMAIN entries : KnownCode(entries[i])
    PROVE  KnownEntries(entries) = entries
<1>1. {i \in DOMAIN entries : ~KnownCode(entries[i])} = {}
  OBVIOUS
<1>2. Min({} \cup {Len(entries) + 1}) = Len(entries) + 1
  <2>1. {} \cup {Len(entries) + 1} = {Len(entries) + 1} /\ Len(entries) + 1 \in Nat
    OBVIOUS
  <2>2. QED
    BY <2>1 DEF Min
<1>3. KnownEntries(entries) = SubSeq(entries, 1, Len(entries))
  <2>1. (Len(entries) + 1) - 1 = Len(entries)
    OBVIOUS
  <2>2. QED
    BY <1>1, <1>2, <2>1 DEF KnownEntries
<1>4. QED
  BY <1>3

LEMMA NRGIsParsed ==
    ASSUME NEW in, Disc(in), in.format \in {"nrgDAO", "nrgETN"}
    PROVE  \E parsed :
              /\ Len(parsed) = Len(in.tracks)
              /\ \A i \in 1 .. Len(in.tracks) : IsParsed(parsed[i], in, i)
              /\ ~AddTracks(FileSizeOf(in), parsed).failed =>
                    Opened(in) = AddTracks(FileSizeOf(in), parsed).image
<1> DEFINE n == Len(in.tracks)
           tracks == in.tracks
           disc == NRGDiscOf(in.tracks, in.format)
           dao == [i \in DOMAIN tracks |->
                     [code |-> NeroCode(tracks[i]), sector |-> SizeOf(tracks[i]),
                      start |-> StartOf(tracks, i), end |-> StartOf(tracks, i + 1)]]
           etn == [i \in DOMAIN tracks |->
                     [code |-> NeroCode(tracks[i]), start |-> StartOf(tracks, i),
                      size |-> StartOf(tracks, i + 1) - StartOf(tracks, i)]]
           parsed == NRGTracks(disc)
           isDAO == in.format = "nrgDAO"
<1>1. n \in Nat \ {0} /\ DOMAIN tracks = 1 .. n
  BY DiscFacts
<1>2. disc = [dao |-> IF isDAO THEN dao ELSE <<>>, etn |-> IF isDAO THEN <<>> ELSE etn]
  BY DEF NRGDiscOf
<1>3. ASSUME NEW i \in 1 .. n
      PROVE  /\ NeroCode(tracks[i]) \in {0, 5, 7}
             /\ IsAudio(tracks[i]) <=> NeroCode(tracks[i]) = 7
             /\ NeroMode(NeroCode(tracks[i])).main = SizeOf(tracks[i])
             /\ NeroMode(NeroCode(tracks[i])).sub = 0
             /\ NeroMode(NeroCode(tracks[i])).offset = OffsetOf(tracks[i])
             /\ NeroMode(NeroCode(tracks[i])).type = "audio" <=> IsAudio(tracks[i])
             /\ SizeOf(tracks[i]) \in Nat
             /\ StartOf(tracks, i) \in Nat /\ StartOf(tracks, i + 1) \in Nat
  <2> DEFINE t == tracks[i]
  <2>1. t \in Track /\ StartOf(tracks, i) \in Nat /\ StartOf(tracks, i + 1) \in Nat
    BY <1>1, DiscFacts
  <2>2. t[1] \in {"plain", "raw", "audio"}
    BY <2>1 DEF Track
  <2> HIDE DEF t
  <2>3. /\ NeroMode(0) = Mode("mode1", 2048, 0, 0)
        /\ NeroMode(5) = Mode("mode1", 2352, 0, 16)
        /\ NeroMode(7) = Mode("audio", 2352, 0, 0)
    BY DEF NeroMode
  <2>4. CASE t[1] = "plain"
    BY <2>3, <2>4, <2>1 DEF NeroCode, Mode, SizeOf, OffsetOf, IsAudio, t
  <2>5. CASE t[1] = "raw"
    BY <2>3, <2>5, <2>1 DEF NeroCode, Mode, SizeOf, OffsetOf, IsAudio, t
  <2>6. CASE t[1] = "audio"
    BY <2>3, <2>6, <2>1 DEF NeroCode, Mode, SizeOf, OffsetOf, IsAudio, t
  <2>7. QED
    BY <2>2, <2>4, <2>5, <2>6
<1>4. /\ Len(dao) = n /\ \A i \in DOMAIN dao : KnownCode(dao[i])
      /\ KnownEntries(dao) = dao /\ ValidBlock(dao)
  <2>1. DOMAIN dao = 1 .. n /\ \A i \in 1 .. n : dao[i].code \in {0, 5, 7}
    BY <1>1, <1>3
  <2>2. dao \in Seq({dao[i] : i \in 1 .. n})
    BY <1>1
  <2> HIDE DEF dao
  <2>3. Len(dao) = n /\ dao # <<>>
    BY <1>1, <2>1, <2>2
  <2>4. \A i \in DOMAIN dao : KnownCode(dao[i])
    BY <2>1 DEF KnownCode
  <2>5. KnownEntries(dao) = dao
    BY <2>2, <2>4, AllEntriesKnown
  <2>6. QED
    BY <2>3, <2>4, <2>5 DEF ValidBlock
<1>5. /\ Len(etn) = n /\ \A i \in DOMAIN etn : KnownCode(etn[i])
      /\ KnownEntries(etn) = etn /\ ValidBlock(etn)
  <2>1. DOMAIN etn = 1 .. n /\ \A i \in 1 .. n : etn[i].code \in {0, 5, 7}
    BY <1>1, <1>3
  <2>2. etn \in Seq({etn[i] : i \in 1 .. n})
    BY <1>1
  <2> HIDE DEF etn
  <2>3. Len(etn) = n /\ etn # <<>>
    BY <1>1, <2>1, <2>2
  <2>4. \A i \in DOMAIN etn : KnownCode(etn[i])
    BY <2>1 DEF KnownCode
  <2>5. KnownEntries(etn) = etn
    BY <2>2, <2>4, AllEntriesKnown
  <2>6. QED
    BY <2>3, <2>4, <2>5 DEF ValidBlock
<1>6. KnownEntries(<<>>) = <<>> /\ ~ValidBlock(<<>>)
  <2>1. <<>> \in Seq({}) /\ DOMAIN <<>> = {}
    OBVIOUS
  <2>2. KnownEntries(<<>>) = <<>>
    <3> DEFINE e == <<>>
    <3>1. e \in Seq({}) /\ \A i \in DOMAIN e : KnownCode(e[i])
      BY <2>1
    <3> HIDE DEF e
    <3>2. KnownEntries(e) = e
      BY <3>1, AllEntriesKnown
    <3>3. QED
      BY <3>2 DEF e
  <2>3. QED
    BY <2>2 DEF ValidBlock
<1>7. DOMAIN dao = 1 .. n /\ DOMAIN etn = 1 .. n
  BY <1>1
<1>8. /\ \A i \in 1 .. n : /\ dao[i].code = NeroCode(tracks[i])
                           /\ dao[i].sector = SizeOf(tracks[i])
                           /\ dao[i].start = StartOf(tracks, i)
                           /\ dao[i].end = StartOf(tracks, i + 1)
      /\ \A i \in 1 .. n : /\ etn[i].code = NeroCode(tracks[i])
                           /\ etn[i].start = StartOf(tracks, i)
                           /\ etn[i].size = StartOf(tracks, i + 1) - StartOf(tracks, i)
  BY <1>1
<1> HIDE DEF dao, etn, disc
<1>9. parsed = IF isDAO THEN [i \in 1 .. n |-> DAOTrack(dao[i])]
               ELSE [i \in 1 .. n |-> ETNTrack(etn[i])]
  <2>1. CASE isDAO
    <3>1. disc.dao = dao /\ disc.etn = <<>>
      BY <1>2, <2>1
    <3>2. parsed = [i \in 1 .. n |-> DAOTrack(dao[i])] \o <<>>
      BY <1>4, <1>6, <1>7, <3>1 DEF NRGTracks
    <3>3. [i \in 1 .. n |-> DAOTrack(dao[i])] \in Seq({DAOTrack(dao[i]) : i \in 1 .. n})
      BY <1>1
    <3>4. QED
      BY <2>1, <3>2, <3>3
  <2>2. CASE ~isDAO
    <3>1. disc.dao = <<>> /\ disc.etn = etn
      BY <1>2, <2>2
    <3>2. [i \in DOMAIN <<>> |-> DAOTrack(<<>>[i])] = <<>>
      OBVIOUS
    <3>3. parsed = <<>> \o [i \in 1 .. n |-> ETNTrack(etn[i])]
      BY <1>5, <1>6, <1>7, <3>1, <3>2 DEF NRGTracks
    <3>4. [i \in 1 .. n |-> ETNTrack(etn[i])] \in Seq({ETNTrack(etn[i]) : i \in 1 .. n})
      BY <1>1
    <3>5. QED
      BY <2>2, <3>3, <3>4
  <2>3. QED
    BY <2>1, <2>2
<1>10. Len(parsed) = n
  <2> HIDE DEF parsed
  <2>1. DOMAIN parsed = 1 .. n /\ parsed = [i \in 1 .. n |-> parsed[i]]
    <3>1. CASE isDAO
      BY <1>9, <3>1
    <3>2. CASE ~isDAO
      BY <1>9, <3>2
    <3>3. QED
      BY <3>1, <3>2
  <2>2. parsed \in Seq({parsed[i] : i \in 1 .. n})
    BY <1>1, <2>1
  <2>3. QED
    BY <1>1, <2>1, <2>2
<1>11. ASSUME NEW i \in 1 .. n PROVE IsParsed(parsed[i], in, i)
  <2> DEFINE mode == NeroMode(NeroCode(tracks[i]))
             p == parsed[i]
  <2>1. /\ mode.main = SizeOf(tracks[i]) /\ mode.sub = 0 /\ mode.offset = OffsetOf(tracks[i])
        /\ (mode.type = "audio" <=> IsAudio(tracks[i])) /\ SizeOf(tracks[i]) \in Nat
        /\ StartOf(tracks, i) \in Nat /\ StartOf(tracks, i + 1) \in Nat
    BY <1>3
  <2>2. ImageSectorSize(mode) = SizeOf(tracks[i])
    BY <2>1 DEF ImageSectorSize
  <2>3. DAOTrack(dao[i]) = [mode |-> mode, start |-> StartOf(tracks, i),
                            end |-> StartOf(tracks, i + 1), file |-> 1]
    <3> DEFINE e == dao[i]
    <3>1. /\ e.code = NeroCode(tracks[i]) /\ e.sector = SizeOf(tracks[i])
          /\ e.start = StartOf(tracks, i) /\ e.end = StartOf(tracks, i + 1)
      BY <1>8
    <3>2. NeroMode(e.code) = mode /\ ImageSectorSize(NeroMode(e.code)) = e.sector
      BY <2>2, <3>1
    <3> HIDE DEF e, mode
    <3>3. DAOTrack(e) = [mode |-> mode, start |-> e.start, end |-> e.end, file |-> 1]
      BY <3>2 DEF DAOTrack
    <3>4. QED
      BY <3>1, <3>3 DEF e, mode
  <2>4. ETNTrack(etn[i]) = [mode |-> mode, start |-> StartOf(tracks, i),
                            end |-> StartOf(tracks, i + 1), file |-> 1]
    <3>1. StartOf(tracks, i) + (StartOf(tracks, i + 1) - StartOf(tracks, i)) = StartOf(tracks, i + 1)
      BY <2>1
    <3> DEFINE e == etn[i]
    <3>2. /\ e.code = NeroCode(tracks[i]) /\ e.start = StartOf(tracks, i)
          /\ e.size = StartOf(tracks, i + 1) - StartOf(tracks, i)
      BY <1>8
    <3>3. NeroMode(e.code) = mode /\ e.start + e.size = StartOf(tracks, i + 1)
      BY <3>1, <3>2
    <3> HIDE DEF e, mode
    <3>4. ETNTrack(e) = [mode |-> mode, start |-> e.start, end |-> e.start + e.size, file |-> 1]
      BY <3>3 DEF ETNTrack
    <3>5. QED
      BY <3>2, <3>3, <3>4 DEF e, mode
  <2>5. p = [mode |-> mode, start |-> StartOf(tracks, i),
             end |-> StartOf(tracks, i + 1), file |-> 1]
    BY <1>9, <2>3, <2>4
  <2> HIDE DEF mode, p
  <2>6. IsParsed(p, in, i)
    BY <2>1, <2>5 DEF IsParsed, IsDataTrack
  <2>7. QED
    BY <2>6 DEF p
<1>12. ASSUME ~AddTracks(FileSizeOf(in), parsed).failed
       PROVE  Opened(in) = AddTracks(FileSizeOf(in), parsed).image
  <2>1. Opened(in) = OpenNRG(disc, FileSizeOf(in))
    BY DEF Opened, disc
  <2>2. ValidBlock(disc.dao) \/ ValidBlock(disc.etn)
    BY <1>2, <1>4, <1>5
  <2>3. QED
    BY <1>12, <2>1, <2>2 DEF OpenNRG
<1> HIDE DEF parsed
<1>13. QED
  BY <1>10, <1>11, <1>12

(* The sectors of a track, as the parser counts them.                          *)
DataOf(in, i) ==
    LET size == SizeOf(in.tracks[i])
        from == StartOf(in.tracks, i) + OffsetOf(in.tracks[i])
        end  == StartOf(in.tracks, i + 1) + OffsetOf(in.tracks[i])
        last == IF end <= FileSizeOf(in) THEN end ELSE FileSizeOf(in)
    IN [k \in 1 .. (last - from) \div size |-> from + (k - 1) * size]

LEMMA SectorsOfTrackAre ==
    ASSUME NEW in, Disc(in), NEW i \in 1 .. Len(in.tracks)
    PROVE  /\ SectorsOfTrack(in, i) = IF IsAudio(in.tracks[i]) THEN <<>> ELSE DataOf(in, i)
           /\ SectorsOfTrack(in, i) \in Seq(Nat)
<1> DEFINE t == in.tracks[i]
           size == SizeOf(t)
           all == FileSizeOf(in)
           from == StartOf(in.tracks, i) + OffsetOf(t)
           end == StartOf(in.tracks, i + 1) + OffsetOf(t)
           last == IF end <= all THEN end ELSE all
           at(k) == from + (k - 1) * size
           there == {k \in 1 .. t[2] : at(k) + size <= all}
           count == (last - from) \div size
<1>1. /\ size \in Nat \ {0} /\ t[2] \in Nat /\ OffsetOf(t) \in Nat /\ all \in Nat
      /\ StartOf(in.tracks, i) \in Nat /\ OffsetOf(t) <= size
      /\ StartOf(in.tracks, i + 1) = StartOf(in.tracks, i) + size * t[2]
      /\ StartOf(in.tracks, i + 1) <= all
      /\ size * t[2] \in Nat /\ size <= size * t[2]
  <2>1. /\ t \in Track /\ i \in 1 .. Len(in.tracks) + 1 /\ all \in Nat
        /\ StartOf(in.tracks, i + 1) = StartOf(in.tracks, i) + size * t[2]
        /\ StartOf(in.tracks, i + 1) <= all
    BY DiscFacts
  <2>2. StartOf(in.tracks, i) \in Nat
    BY <2>1, DiscFacts
  <2>3. OffsetOf(t) <= size
    BY <2>1, TrackType DEF CDSectorSize
  <2>4. QED
    BY <2>1, <2>2, <2>3, TrackType
<1>2. from \in Nat /\ end = from + t[2] * size /\ from <= all
  <2> HIDE DEF t, size, all
  <2>1. t[2] * size = size * t[2]
    BY <1>1
  <2>2. QED
    BY <1>1, <2>1, SMTT(20)
<1> HIDE DEF t, size, all, from, end
<1>3. Max({0} \cup there) = count
  <2> DEFINE number == t[2]
  <2>1. last = CutAt(all, from, size, number)
    BY <1>2 DEF CutAt
  <2>2. there = ThatFit(all, from, size, number)
    BY DEF ThatFit
  <2>3. /\ number \in Nat /\ size \in Nat \ {0} /\ from \in Nat /\ all \in Nat
        /\ from <= all
    BY <1>1, <1>2
  <2> HIDE DEF number, last, there
  <2>4. QED
    BY <2>1, <2>2, <2>3, SectorsThatFit
<1>4. SectorsOfTrack(in, i) = IF IsAudio(t) THEN <<>> ELSE [k \in 1 .. Max({0} \cup there) |-> at(k)]
  BY DEF SectorsOfTrack, t, size, all, from
<1>5. DataOf(in, i) = [k \in 1 .. count |-> at(k)]
  BY DEF DataOf, t, size, all, from, end
<1>6. last - from \in Nat
  <2> DEFINE bytes == t[2] * size
  <2>1. bytes \in Nat /\ all \in Nat
    BY <1>1
  <2> HIDE DEF bytes
  <2>2. from \in Nat /\ end = from + bytes /\ from <= all
    BY <1>2 DEF bytes
  <2>3. QED
    BY <2>1, <2>2
<1>7. count \in Nat
  <2> DEFINE left == last - from
  <2>1. left \in Nat
    BY <1>6
  <2> HIDE DEF left, last
  <2>2. left \div size \in Nat
    BY <1>1, <2>1
  <2>3. QED
    BY <2>2 DEF left
<1> HIDE DEF count, there
<1>8. SectorsOfTrack(in, i) = IF IsAudio(t) THEN <<>> ELSE DataOf(in, i)
  BY <1>3, <1>4, <1>5
<1>9. DataOf(in, i) \in Seq(Nat)
  <2>1. ASSUME NEW k \in 1 .. count PROVE at(k) \in Nat
    <3>1. k - 1 \in Nat
      OBVIOUS
    <3>2. (k - 1) * size \in Nat
      BY <1>1, <3>1
    <3>3. QED
      BY <1>2, <3>2
  <2> HIDE DEF at
  <2>2. [k \in 1 .. count |-> at(k)] \in Seq(Nat)
    BY <1>7, <2>1
  <2>3. QED
    BY <1>5, <2>2
<1>10. <<>> \in Seq(Nat)
  OBVIOUS
<1>11. QED
  BY <1>8, <1>9, <1>10 DEF t

(* The sectors of the first tracks.                                            *)
First(first, in) ==
    first = [n \in 0 .. Len(in.tracks) |->
                IF n = 0 THEN <<>> ELSE first[n - 1] \o SectorsOfTrack(in, n)]

LEMMA SectorsFacts ==
    ASSUME NEW in, Disc(in)
    PROVE  \E first :
              /\ SectorsOf(in) = first[Len(in.tracks)] /\ first[0] = <<>>
              /\ \A n \in 0 .. Len(in.tracks) : first[n] \in Seq(Nat)
              /\ \A n \in 0 .. Len(in.tracks) - 1 : first[n + 1] = first[n] \o SectorsOfTrack(in, n + 1)
<1> DEFINE n == Len(in.tracks)
           S == Seq(Nat)
           step == [i \in 1 .. n |-> [list \in S |-> list \o SectorsOfTrack(in, i)]]
           first == CHOOSE f : First(f, in)
<1>1. n \in Nat /\ \A i \in 1 .. n : SectorsOfTrack(in, i) \in S
  BY DiscFacts, SectorsOfTrackAre
<1>2. <<>> \in S /\ \A a, b \in S : a \o b \in S
  OBVIOUS
<1> HIDE DEF S
<1>3. step \in [1 .. n -> [S -> S]]
  BY <1>1, <1>2
<1>4. \A i \in 1 .. n, list \in S : step[i][list] = list \o SectorsOfTrack(in, i)
  OBVIOUS
<1> HIDE DEF step
<1>5. \E f : First(f, in)
  <2>1. PICK f : Recursive(f, n, S, <<>>, step)
    <3> HIDE DEF n
    <3> DEFINE base == <<>>
    <3>1. base \in S
      BY <1>2
    <3> HIDE DEF base
    <3>2. \E f : Recursive(f, n, S, base, step)
      BY <1>1, <1>3, <3>1, Recursion
    <3>3. QED
      BY <3>2 DEF base
  <2>2. ASSUME NEW i \in 0 .. n, i # 0
        PROVE  step[i][f[i - 1]] = f[i - 1] \o SectorsOfTrack(in, i)
    <3>1. i \in 1 .. n /\ i - 1 \in 0 .. n
      BY <2>2
    <3>2. f[i - 1] \in S
      BY <2>1, <3>1 DEF Recursive
    <3>3. QED
      BY <1>4, <3>1, <3>2
  <2>3. f = [i \in 0 .. n |-> IF i = 0 THEN <<>> ELSE f[i - 1] \o SectorsOfTrack(in, i)]
    <3>1. /\ f \in [0 .. n -> S] /\ f[0] = <<>>
          /\ \A i \in 0 .. n : i # 0 => f[i] = f[i - 1] \o SectorsOfTrack(in, i)
      <4>1. \A i \in 0 .. n : i # 0 => i \in 1 .. n
        OBVIOUS
      <4>2. QED
        BY <2>1, <2>2, <4>1 DEF Recursive
    <3> HIDE DEF n
    <3>2. QED
      BY <3>1
  <2>4. QED
    BY <2>3 DEF First
<1>6. First(first, in)
  BY <1>5
<1>7. SectorsOf(in) = first[n]
  BY DEF SectorsOf, First
<1> HIDE DEF first
<1>8. 0 \in 0 .. n /\ first[0] = <<>>
  BY <1>1, <1>6 DEF First
<1>9. ASSUME NEW i \in 0 .. n - 1
      PROVE  first[i + 1] = first[i] \o SectorsOfTrack(in, i + 1)
  <2>1. i + 1 \in 0 .. n /\ i + 1 # 0 /\ (i + 1) - 1 = i
    BY <1>1
  <2>2. QED
    BY <1>6, <2>1 DEF First
<1> DEFINE Good == {i \in 0 .. n : first[i] \in S}
<1>10. 0 \in Good
  BY <1>2, <1>8
<1>11. ASSUME NEW i \in 0 .. n - 1, i \in Good
       PROVE  i + 1 \in Good
  <2>1. i + 1 \in 0 .. n /\ i + 1 \in 1 .. n
    BY <1>1
  <2>2. QED
    BY <1>1, <1>2, <1>9, <1>11, <2>1
<1> HIDE DEF Good
<1>12. \A i \in 0 .. n : i \in Good
  BY <1>1, <1>10, <1>11, UpTo
<1>13. QED
  BY <1>7, <1>8, <1>9, <1>12 DEF Good, S

LEMMA Concatenated ==
    ASSUME NEW S, NEW a \in Seq(S), NEW b \in Seq(S)
    PROVE  /\ a \o b \in Seq(S) /\ Len(a \o b) = Len(a) + Len(b)
           /\ DOMAIN a = 1 .. Len(a) /\ DOMAIN (a \o b) = 1 .. Len(a) + Len(b)
           /\ \A k \in 1 .. Len(a) : (a \o b)[k] = a[k]
           /\ \A k \in 1 .. Len(b) : (a \o b)[Len(a) + k] = b[k]
OBVIOUS

(* A list has the sectors of a table, each from its place in its track.        *)
Presents(list, img) ==
    /\ list \in Seq(Nat) /\ Len(list) = GetSectorCount(img)
    /\ \A j \in DOMAIN img.tracks : \A k \in Nat :
          Has(img.tracks[j], k) => k + 1 \in DOMAIN list
                                  /\ list[k + 1] = PlaceIn(img.tracks[j], k)

LEMMA TrackCanBeAdded ==
    ASSUME NEW in, Disc(in), NEW i \in 1 .. Len(in.tracks), NEW p, IsParsed(p, in, i)
    PROVE  /\ Described(p, FileSizeOf(in)) /\ CanAddDataTrack(p.mode, p.start, p.end)
           /\ ImageSectorSize(p.mode) = SizeOf(in.tracks[i])
           /\ ImageSectorSize(p.mode) # 0
<1> DEFINE t == in.tracks[i]
           size == SizeOf(t)
           count == t[2]
<1>1. /\ t \in Track /\ i \in 1 .. Len(in.tracks) + 1
      /\ FileSizeOf(in) \in Nat /\ FileSizeOf(in) < Width
      /\ StartOf(in.tracks, i + 1) = StartOf(in.tracks, i) + size * count
      /\ StartOf(in.tracks, i + 1) <= FileSizeOf(in)
  BY DiscFacts
<1>2. StartOf(in.tracks, i) \in Nat
  BY <1>1, DiscFacts
<1>3. /\ size \in {2048, 2352} /\ OffsetOf(t) \in Nat /\ count \in Nat
      /\ OffsetOf(t) <= size /\ size <= size * count /\ size * count \in Nat
  <2>1. size \in {2048, 2352}
    BY DEF SizeOf
  <2>2. /\ OffsetOf(t) \in Nat /\ count \in Nat /\ OffsetOf(t) + CDSectorSize <= size
        /\ size <= size * count /\ size * count \in Nat
    BY <1>1, TrackType
  <2> HIDE DEF t, size, count
  <2>3. OffsetOf(t) <= size
    BY <2>1, <2>2 DEF CDSectorSize
  <2>4. QED
    BY <2>1, <2>2, <2>3
<1>4. /\ p.start = StartOf(in.tracks, i) /\ p.end = StartOf(in.tracks, i + 1)
      /\ p.mode.main = size /\ p.mode.sub = 0 /\ p.mode.offset = OffsetOf(t)
  BY DEF IsParsed
<1>5. Width \in Nat \ {0}
  BY WidthAssumption DEF WidthAssumption
<1>6. (size * count) % size = 0
  <2>1. CASE size = 2048
    <3>1. (2048 * count) % 2048 = 0
      BY <1>3
    <3>2. QED
      BY <2>1, <3>1
  <2>2. CASE size = 2352
    <3>1. (2352 * count) % 2352 = 0
      BY <1>3
    <3>2. QED
      BY <2>2, <3>1
  <2> HIDE DEF size
  <2>3. QED
    BY <1>3, <2>1, <2>2
<1> DEFINE bytes == size * count
<1>7. bytes \in Nat /\ size <= bytes /\ bytes % size = 0
  BY <1>3, <1>6
<1>8. p.end = p.start + bytes
  BY <1>1, <1>4
<1>9. size \in Nat \ {0}
  BY <1>3
<1> HIDE DEF bytes, t, size
<1>10. /\ p.start \in Nat /\ p.end \in Nat /\ p.start <= p.end /\ p.end < Width
       /\ p.start + p.mode.offset <= FileSizeOf(in)
  BY <1>1, <1>2, <1>3, <1>4, <1>5, <1>7, <1>8
<1>11. Described(p, FileSizeOf(in))
  BY <1>3, <1>4, <1>9, <1>10 DEF Described
<1>12. ImageSectorSize(p.mode) = size
  BY <1>4, <1>9 DEF ImageSectorSize
<1>13. p.end - p.start = bytes /\ bytes \in 0 .. Width - 1
  BY <1>5, <1>7, <1>8, <1>10
<1>14. (p.end - p.start) % Width = bytes
  BY <1>5, <1>13
<1>15. CanAddDataTrack(p.mode, p.start, p.end)
  BY <1>7, <1>9, <1>12, <1>14 DEF CanAddDataTrack
<1>16. QED
  BY <1>9, <1>11, <1>12, <1>15 DEF size, t

LEMMA TrackIsListed ==
    ASSUME NEW in, Disc(in), NEW i \in 1 .. Len(in.tracks), NEW p, IsParsed(p, in, i),
           NEW acc \in Adding(FileSizeOf(in)), ~acc.failed, NEW list, Presents(list, acc.image)
    PROVE  LET next == AddTrack(acc, p) IN
           ~next.failed /\ Presents(list \o SectorsOfTrack(in, i), next.image)
<1> DEFINE t == in.tracks[i]
           next == AddTrack(acc, p)
           img == acc.image
           more == list \o SectorsOfTrack(in, i)
<1>1. IsDataTrack(p) <=> ~IsAudio(t)
  BY DEF IsParsed
<1>2. list \in Seq(Nat) /\ SectorsOfTrack(in, i) \in Seq(Nat)
  BY SectorsOfTrackAre DEF Presents
<1>3. CASE IsAudio(t)
  <2>1. next = acc
    BY <1>1, <1>3 DEF AddTrack
  <2>2. more = list
    BY <1>2, <1>3, SectorsOfTrackAre
  <2>3. QED
    BY <2>1, <2>2
<1>4. CASE ~IsAudio(t)
  <2> DEFINE size == ImageSectorSize(p.mode)
             from == p.start + p.mode.offset
             end == p.end + p.mode.offset
             last == IF end <= img.size THEN end ELSE img.size
             count == (last - from) \div size
             new == [offset |-> from, size |-> size, start |-> GetSectorCount(img),
                     end |-> GetSectorCount(img) + count]
             data == DataOf(in, i)
  <2>1. /\ Described(p, FileSizeOf(in)) /\ CanAddDataTrack(p.mode, p.start, p.end)
        /\ size = SizeOf(t) /\ size # 0
    BY TrackCanBeAdded
  <2>2. Table(img) /\ img.size = FileSizeOf(in)
    BY DEF Adding, Image
  <2>3. img.size < Width
    BY <2>2, DiscFacts
  <2>4. /\ AddDataTrack(img, p.mode, p.start, p.end) = [img EXCEPT !.tracks = Append(@, new)]
        /\ new \in TrackRecord /\ new.start <= new.end
    BY <2>1, <2>2, <2>3, NewTrack
  <2>5. next = [acc EXCEPT !.image = AddDataTrack(img, p.mode, p.start, p.end)]
    BY <1>1, <1>4, <2>1 DEF AddTrack
  <2>6. data = [k \in 1 .. count |-> from + (k - 1) * size]
    <3>1. /\ p.start = StartOf(in.tracks, i) /\ p.end = StartOf(in.tracks, i + 1)
          /\ p.mode.offset = OffsetOf(t)
      BY DEF IsParsed
    <3>2. QED
      BY <2>1, <2>2, <3>1 DEF DataOf
  <2>7. SectorsOfTrack(in, i) = data
    BY <1>4, SectorsOfTrackAre
  <2> DEFINE before == Len(img.tracks)
             tracks == next.image.tracks
  <2>8. ~next.failed /\ next.image = [img EXCEPT !.tracks = Append(@, new)]
    BY <2>4, <2>5 DEF Adding
  <2>9. /\ new.offset = from /\ new.size = size /\ new.start = GetSectorCount(img)
        /\ new.end = new.start + count
    OBVIOUS
  <2>10. /\ new.offset \in Nat /\ new.size \in Nat \ {0} /\ new.start \in Nat
         /\ new.end \in Nat /\ new.start <= new.end
    BY <2>4 DEF TrackRecord
  <2>11. count \in Int
    <3> DEFINE left == last - from
    <3>1. size \in Nat \ {0} /\ from \in Int
      BY <2>9, <2>10
    <3>2. end \in Int /\ img.size \in Int
      BY <2>1, <2>2, DiscFacts DEF Described
    <3> HIDE DEF size, from, end
    <3>3. left \in Int
      BY <3>1, <3>2
    <3> HIDE DEF left
    <3>4. left \div size \in Int
      BY <3>1, <3>3
    <3>5. QED
      BY <3>4 DEF left, size, from, end
  <2> HIDE DEF size, from, end, last, count, new, data, img, next
  <2>12. img.tracks \in Seq(TrackRecord)
    BY <2>2 DEF Table
  <2>13. /\ before \in Nat /\ DOMAIN img.tracks = 1 .. before
         /\ tracks = Append(img.tracks, new) /\ DOMAIN tracks = 1 .. before + 1
         /\ tracks[before + 1] = new /\ \A j \in 1 .. before : tracks[j] = img.tracks[j]
         /\ Len(tracks) = before + 1
    <3>1. tracks = Append(img.tracks, new)
      BY <2>2, <2>8 DEF Table
    <3>2. QED
      BY <2>4, <2>12, <3>1
  <2>14. GetSectorCount(next.image) = new.end
    <3>1. tracks # <<>>
      BY <2>13
    <3>2. QED
      BY <2>13, <3>1 DEF GetSectorCount, Last
  <2>15. count = new.end - new.start /\ count \in Nat /\ Len(list) = new.start
    <3>1. Len(list) = GetSectorCount(img)
      BY DEF Presents, img
    <3>2. QED
      BY <2>9, <2>10, <2>11, <3>1
  <2>16. data \in Seq(Nat) /\ Len(data) = count /\ more = list \o data
    <3>1. data \in Seq(Nat) /\ more = list \o data
      BY <1>2, <2>7
    <3>2. DOMAIN data = 1 .. count
      BY <2>6
    <3>3. QED
      BY <2>15, <3>1, <3>2
  <2> HIDE DEF before, tracks, more
  <2>17. /\ more \in Seq(Nat) /\ Len(more) = new.end
         /\ DOMAIN list = 1 .. new.start /\ DOMAIN more = 1 .. new.end
         /\ \A k \in 1 .. new.start : more[k] = list[k]
         /\ \A k \in 1 .. count : more[new.start + k] = data[k]
    <3>1. /\ more \in Seq(Nat) /\ Len(more) = Len(list) + Len(data)
          /\ DOMAIN list = 1 .. Len(list) /\ DOMAIN more = 1 .. Len(list) + Len(data)
          /\ \A k \in 1 .. Len(list) : more[k] = list[k]
          /\ \A k \in 1 .. Len(data) : more[Len(list) + k] = data[k]
      <4>1. list \in Seq(Nat) /\ data \in Seq(Nat) /\ more = list \o data
        BY <1>2, <2>16
      <4>2. /\ list \o data \in Seq(Nat) /\ Len(list \o data) = Len(list) + Len(data)
            /\ DOMAIN list = 1 .. Len(list)
            /\ DOMAIN (list \o data) = 1 .. Len(list) + Len(data)
            /\ \A k \in 1 .. Len(list) : (list \o data)[k] = list[k]
            /\ \A k \in 1 .. Len(data) : (list \o data)[Len(list) + k] = data[k]
        BY <4>1, Concatenated
      <4>3. QED
        BY <4>1, <4>2
    <3>2. Len(list) = new.start /\ Len(data) = count /\ new.start + count = new.end
      BY <2>9, <2>15, <2>16
    <3>3. QED
      BY <3>1, <3>2
  <2>18. ASSUME NEW j \in DOMAIN tracks, NEW k \in Nat, Has(tracks[j], k)
         PROVE  k + 1 \in DOMAIN more /\ more[k + 1] = PlaceIn(tracks[j], k)
    <3>1. CASE j \in 1 .. before
      <4>1. tracks[j] = img.tracks[j] /\ j \in DOMAIN img.tracks
        BY <2>13, <3>1
      <4>2. k + 1 \in DOMAIN list /\ list[k + 1] = PlaceIn(img.tracks[j], k)
        BY <2>18, <4>1 DEF Presents, img
      <4>3. QED
        BY <2>10, <2>17, <4>1, <4>2
    <3>2. CASE j = before + 1
      <4>1. tracks[j] = new /\ new.start <= k /\ k < new.end
        BY <2>13, <2>18, <3>2 DEF Has
      <4> DEFINE m == k - new.start
      <4>2. m + 1 \in 1 .. count /\ new.start + (m + 1) = k + 1 /\ k + 1 \in 1 .. new.end
        BY <2>10, <2>15, <4>1
      <4>3. more[k + 1] = data[m + 1]
        BY <2>17, <4>2
      <4>4. data[m + 1] = from + ((m + 1) - 1) * size
        BY <2>6, <4>2
      <4>5. PlaceIn(new, k) = from + size * m
        BY <2>9 DEF PlaceIn
      <4>6. (m + 1) - 1 = m /\ m * size = size * m
        BY <2>9, <2>10, <4>1
      <4>7. QED
        BY <2>17, <4>1, <4>2, <4>3, <4>4, <4>5, <4>6
    <3>3. QED
      BY <2>13, <2>18, <3>1, <3>2
  <2>19. Presents(more, next.image)
    BY <2>14, <2>17, <2>18 DEF Presents, tracks
  <2>20. QED
    BY <2>8, <2>19 DEF next, more
<1>5. QED
  BY <1>3, <1>4

(* A disc of at most two data tracks.                                          *)
LEMMA TableOfDisc ==
    ASSUME NEW in, Disc(in), NEW img, img = Opened(in)
    PROVE  /\ Table(img) /\ img.size = FileSizeOf(in) /\ Len(img.tracks) <= 2
           /\ Presents(SectorsOf(in), img)
<1> DEFINE n == Len(in.tracks)
           all == FileSizeOf(in)
<1>1. n \in Nat \ {0} /\ all \in Nat /\ all < Width /\ DOMAIN in.tracks = 1 .. n
  BY DiscFacts
<1>2. PICK parsed : /\ Len(parsed) = n
                    /\ \A i \in 1 .. n : IsParsed(parsed[i], in, i)
                    /\ ~AddTracks(all, parsed).failed => img = AddTracks(all, parsed).image
  <2>1. in.format \in {"mds", "nrgDAO", "nrgETN"}
    BY DEF Disc
  <2>2. CASE in.format = "mds"
    BY <2>2, MDSIsParsed
  <2>3. CASE in.format \in {"nrgDAO", "nrgETN"}
    BY <2>3, NRGIsParsed
  <2>4. QED
    BY <2>1, <2>2, <2>3
<1>3. \A i \in 1 .. n : Described(parsed[i], all)
  BY <1>2, TrackCanBeAdded
<1>4. Len(parsed) \in Nat /\ \A i \in 1 .. Len(parsed) : IsDataTrack(parsed[i]) => Described(parsed[i], all)
  BY <1>1, <1>2, <1>3
<1>5. PICK added : /\ Rounds(added, all, parsed)
                   /\ AddTracks(all, parsed) = added[n]
                   /\ \A i \in 0 .. n : added[i] \in Adding(all)
  BY <1>1, <1>2, <1>4, AddedFacts
<1>6. PICK first : /\ SectorsOf(in) = first[n] /\ first[0] = <<>>
                   /\ \A i \in 0 .. n : first[i] \in Seq(Nat)
                   /\ \A i \in 0 .. n - 1 : first[i + 1] = first[i] \o SectorsOfTrack(in, i + 1)
  BY SectorsFacts
<1> DEFINE Fine(i) == ~added[i].failed /\ Presents(first[i], added[i].image)
           Good == {i \in 0 .. n : Fine(i)}
<1>7. 0 \in Good
  <2>1. 0 \in 0 .. n /\ added[0] = [failed |-> FALSE, image |-> EmptyImage(all)]
    BY <1>1, <1>5 DEF Rounds
  <2>2. Presents(<<>>, EmptyImage(all))
    BY DEF Presents, EmptyImage, GetSectorCount
  <2>3. Fine(0)
    BY <1>6, <2>1, <2>2
  <2> HIDE DEF Fine
  <2>4. QED
    BY <2>1, <2>3
<1>8. ASSUME NEW i \in 0 .. n - 1, i \in Good
      PROVE  i + 1 \in Good
  <2>1. i \in 0 .. n /\ i + 1 \in 0 .. n /\ i + 1 \in 1 .. n /\ i + 1 # 0 /\ (i + 1) - 1 = i
    BY <1>1
  <2>2. added[i + 1] = AddTrack(added[i], parsed[i + 1])
    BY <1>2, <1>5, <2>1 DEF Rounds
  <2>3. Fine(i) /\ added[i] \in Adding(all) /\ IsParsed(parsed[i + 1], in, i + 1)
    BY <1>2, <1>5, <1>8, <2>1
  <2>4. Fine(i + 1)
    BY <1>6, <2>1, <2>2, <2>3, TrackIsListed
  <2> HIDE DEF Fine
  <2>5. QED
    BY <2>1, <2>4
<1> HIDE DEF Good, Fine
<1>9. Fine(n)
  <2>1. \A i \in 0 .. n : i \in Good
    BY <1>1, <1>7, <1>8, UpTo
  <2>2. QED
    BY <1>1, <2>1 DEF Good
<1>10. ~AddTracks(all, parsed).failed /\ img = added[n].image /\ Presents(SectorsOf(in), img)
  BY <1>2, <1>5, <1>6, <1>9 DEF Fine
<1>11. Table(img) /\ img.size = all
  BY <1>1, <1>2, <1>4, <1>10, ParsersBuildTables
<1>12. Len(img.tracks) <= 2
  <2>1. PICK at : Represents(img, parsed, n, at)
    BY <1>1, <1>2, <1>4, <1>10, TablesAreComplete
  <2>2. /\ at \in Seq(1 .. n) /\ Len(at) = Len(img.tracks)
        /\ \A j, k \in DOMAIN at : j < k => at[j] < at[k]
        /\ \A k \in DOMAIN at : IsDataTrack(parsed[at[k]])
    BY <2>1 DEF Represents
  <2>3. PICK i, j \in 1 .. n : \A k \in 1 .. n : IsAudio(in.tracks[k]) \/ k \in {i, j}
    BY <1>1 DEF Disc
  <2>4. ASSUME NEW k \in DOMAIN at PROVE at[k] \in {i, j} /\ at[k] \in 1 .. n
    <3>1. at[k] \in 1 .. n /\ IsDataTrack(parsed[at[k]])
      BY <2>2
    <3>2. ~IsAudio(in.tracks[at[k]])
      BY <1>2, <3>1 DEF IsParsed
    <3>3. QED
      BY <2>3, <3>1, <3>2
  <2>5. SUFFICES ASSUME ~(Len(at) <= 2) PROVE FALSE
    BY <2>2
  <2>6. 1 \in DOMAIN at /\ 2 \in DOMAIN at /\ 3 \in DOMAIN at
    BY <2>2, <2>5
  <2>7. at[1] < at[2] /\ at[2] < at[3] /\ at[1] < at[3]
    BY <2>2, <2>6
  <2>8. QED
    BY <2>3, <2>4, <2>6, <2>7
<1>13. QED
  BY <1>10, <1>11, <1>12

(* Every sector of the list is where the table has it.                         *)
LEMMA SectorsArePlaces ==
    ASSUME NEW img, Table(img), NEW list, Presents(list, img),
           NEW k \in Nat, k < GetSectorCount(img)
    PROVE  k + 1 \in DOMAIN list /\ list[k + 1] = Place(img, k)
<1>1. TrackOf(img, k) \in DOMAIN img.tracks /\ Has(img.tracks[TrackOf(img, k)], k)
  BY TrackFound
<1>2. QED
  BY <1>1 DEF Presents, Place

Places(img, from, count) == [i \in 1 .. count |-> Place(img, from + i - 1)]

LEMMA PartIsPlaces ==
    ASSUME NEW img, Table(img), NEW list, Presents(list, img),
           NEW from \in Nat, NEW count \in Nat, from + count <= GetSectorCount(img)
    PROVE  Places(img, from, count) = SubSeq(list, from + 1, from + count)
<1>1. list \in Seq(Nat) /\ Len(list) = GetSectorCount(img) /\ GetSectorCount(img) \in Nat
  BY TableFacts DEF Presents
<1>2. ASSUME NEW i \in 1 .. count
      PROVE  Place(img, from + i - 1) = list[from + 1 + i - 1]
  <2>1. /\ from + i - 1 \in Nat /\ from + i - 1 < GetSectorCount(img)
        /\ (from + i - 1) + 1 = from + 1 + i - 1
    BY <1>1
  <2>2. QED
    BY <2>1, SectorsArePlaces
<1>3. SubSeq(list, from + 1, from + count) = [i \in 1 .. count |-> list[from + 1 + i - 1]]
  <2>1. /\ from + 1 \in 1 .. Len(list) + 1 /\ from + count \in from .. Len(list)
        /\ (from + count) - (from + 1) + 1 = count
    BY <1>1
  <2>2. QED
    BY <1>1, <2>1
<1>4. QED
  BY <1>2, <1>3 DEF Places

(* What a drive gives while its image is replaced, and while it is not.        *)
LEMMA BeginningIsPlaces ==
    ASSUME NEW img, NEW looks, NEW other, NEW first, NEW count,
           Begun(img, looks, other, first, count)
    PROVE  \E n \in 0 .. count :
              DriveRead(img, Looks(looks, img, other), first, count) = Places(img, first, n)
<1>1. PICK n \in 0 .. count :
        DriveRead(img, Looks(looks, img, other), first, count)
            = [i \in 1 .. n |-> Place(img, first + i - 1)]
  BY DEF Begun
<1>2. QED
  BY <1>1 DEF Places

SectorsLeft(img, first, count) ==
    IF first > GetSectorCount(img) THEN 0
    ELSE IF first + count <= GetSectorCount(img) THEN count
    ELSE GetSectorCount(img) - first

LEMMA AllIsPlaces ==
    ASSUME NEW img, Table(img), GetSectorCount(img) < Width,
           NEW first \in Nat, NEW count \in Nat,
           NEW n \in Nat, n = SectorsLeft(img, first, count), Straight(img, first, n)
    PROVE  DriveRead(img, Looks(3, img, GetSectorCount(img)), first, count) = Places(img, first, n)
<1> DEFINE seen == Looks(3, img, GetSectorCount(img))
<1>1. seen = [i \in 1 .. 3 |-> GetSectorCount(img)]
  BY DEF Looks
<1> HIDE DEF seen
<1>2. n = IF first > GetSectorCount(img) THEN 0
          ELSE IF first + count <= GetSectorCount(img) THEN count
          ELSE GetSectorCount(img) - first
  BY DEF SectorsLeft
<1>3. DriveRead(img, seen, first, count) = [i \in 1 .. n |-> Place(img, first + i - 1)]
  BY <1>1, <1>2, ReadsAreCut
<1>4. QED
  BY <1>3 DEF seen, Places

(* MDSParser.cpp, NRGParser.cpp, MultiTrackImage.h, for discs of any number of audio   *)
(* tracks and at most two of data, of any lengths and in any order, in each of the     *)
(* three descriptions: the table that is built has exactly the sectors of the data     *)
(* tracks, and a read of any of them gives these, in their order.                      *)
THEOREM ReadsAreRightAlways == Spec => []ReadsAreRight
<1>1. ASSUME input = [kind |-> "none"] \/ input \in Inputs
      PROVE  ReadsAreRight
  <2> SUFFICES ASSUME input.kind = "disc"
               PROVE  LET image   == Opened(input)
                          sectors == SectorsOf(input)
                      IN /\ GetSectorCount(image) = Len(sectors)
                         /\ \A first \in 0 .. Len(sectors) - 1 :
                            \A count \in 1 .. Len(sectors) - first :
                               ReadSectors(image, first, count) =
                                  [data |-> SubSeq(sectors, first + 1, first + count),
                                   reported |-> count]
    BY DEF ReadsAreRight
  <2> DEFINE image == Opened(input)
             sectors == SectorsOf(input)
  <2>1. Disc(input)
    BY <1>1, InputsAssumption DEF InputsAssumption, Disc
  <2>2. /\ Table(image) /\ Len(image.tracks) <= 2 /\ Presents(sectors, image)
    BY <2>1, TableOfDisc
  <2> HIDE DEF image, sectors
  <2>3. GetSectorCount(image) = Len(sectors) /\ Len(sectors) \in Nat
    BY <2>2, TableFacts DEF Presents
  <2>4. ASSUME NEW first \in 0 .. Len(sectors) - 1, NEW count \in 1 .. Len(sectors) - first
        PROVE  ReadSectors(image, first, count) =
                  [data |-> SubSeq(sectors, first + 1, first + count), reported |-> count]
    <3>1. first \in Nat /\ count \in Nat /\ first + count <= GetSectorCount(image)
      BY <2>3
    <3>2. Straight(image, first, count)
      BY <2>2, <3>1, TwoTracks
    <3>3. ReadSectors(image, first, count) =
             [data |-> Places(image, first, count), reported |-> count]
      BY <2>2, <3>1, <3>2, ReadsEverySector DEF Places
    <3>4. Places(image, first, count) = SubSeq(sectors, first + 1, first + count)
      BY <2>2, <3>1, PartIsPlaces
    <3>5. QED
      BY <3>3, <3>4
  <2>5. QED
    BY <2>3, <2>4 DEF image, sectors
<1>2. QED
  BY <1>1, InputIsGiven, PTL

(* A disc has no more sectors than its file has bytes.                         *)
LEMMA SectorsAreFew ==
    ASSUME NEW in, Disc(in)
    PROVE  Len(SectorsOf(in)) <= FileSizeOf(in)
<1> DEFINE n == Len(in.tracks)
           upTo(i) == StartOf(in.tracks, i + 1)
<1>1. /\ n \in Nat \ {0} /\ FileSizeOf(in) \in Nat /\ upTo(0) = 0
      /\ \A i \in 0 .. n : upTo(i) \in Nat
      /\ \A i \in 1 .. n : /\ in.tracks[i] \in Track
                           /\ upTo(i) = upTo(i - 1) + SizeOf(in.tracks[i]) * in.tracks[i][2]
      /\ upTo(n) <= FileSizeOf(in)
  <2>1. /\ n \in Nat \ {0} /\ FileSizeOf(in) \in Nat /\ StartOf(in.tracks, 1) = 0
        /\ \A i \in 1 .. n + 1 : StartOf(in.tracks, i) \in Nat
        /\ \A i \in 1 .. n :
             /\ in.tracks[i] \in Track
             /\ StartOf(in.tracks, i + 1) =
                   StartOf(in.tracks, i) + SizeOf(in.tracks[i]) * in.tracks[i][2]
             /\ StartOf(in.tracks, i + 1) <= FileSizeOf(in)
    BY DiscFacts
  <2>2. /\ \A i \in 0 .. n : i + 1 \in 1 .. n + 1
        /\ \A i \in 1 .. n : (i - 1) + 1 = i
        /\ 0 + 1 = 1 /\ n \in 1 .. n
    BY <2>1
  <2>3. QED
    BY <2>1, <2>2
<1>2. ASSUME NEW i \in 1 .. n
      PROVE  /\ Len(SectorsOfTrack(in, i)) \in Nat
             /\ upTo(i - 1) + Len(SectorsOfTrack(in, i)) <= upTo(i)
  <2> DEFINE t == in.tracks[i]
             there == {k \in 1 .. t[2] : StartOf(in.tracks, i) + OffsetOf(t) + (k - 1) * SizeOf(t)
                                             + SizeOf(t) <= FileSizeOf(in)}
             most == Max({0} \cup there)
             bytes == SizeOf(t) * t[2]
  <2>1. /\ t[2] \in Nat /\ bytes \in Nat /\ t[2] <= bytes
    <3> DEFINE size == SizeOf(t)
               count == t[2]
    <3>1. size \in Nat \ {0} /\ count \in Nat
      BY <1>1, TrackType
    <3> HIDE DEF size, count
    <3>2. 1 * count <= size * count /\ size * count \in Nat
      BY <3>1, Multiples
    <3>3. count \in Nat /\ size * count \in Nat /\ count <= size * count
      BY <3>1, <3>2
    <3>4. QED
      BY <3>3 DEF size, count
  <2>2. most \in 0 .. t[2]
    <3> DEFINE S == {0} \cup there
    <3>1. S \in SUBSET (0 .. t[2]) /\ S # {}
      BY <2>1
    <3> HIDE DEF S
    <3>2. Max(S) \in S
      BY <2>1, <3>1, MaxFacts
    <3>3. QED
      BY <3>1, <3>2 DEF S
  <2>3. DOMAIN SectorsOfTrack(in, i) = 1 .. IF IsAudio(t) THEN 0 ELSE most
    <3>1. SectorsOfTrack(in, i) =
            IF IsAudio(t) THEN <<>>
            ELSE [k \in 1 .. most |-> StartOf(in.tracks, i) + OffsetOf(t) + (k - 1) * SizeOf(t)]
      BY DEF SectorsOfTrack
    <3> HIDE DEF most
    <3>2. QED
      BY <3>1
  <2> HIDE DEF most, bytes
  <2>4. Len(SectorsOfTrack(in, i)) \in Nat /\ Len(SectorsOfTrack(in, i)) <= t[2]
    <3>1. SectorsOfTrack(in, i) \in Seq(Nat)
      BY SectorsOfTrackAre
    <3>2. QED
      BY <2>1, <2>2, <2>3, <3>1
  <2>5. upTo(i) = upTo(i - 1) + bytes /\ upTo(i - 1) \in Nat
    <3>1. i - 1 \in 0 .. n
      BY <1>1
    <3>2. QED
      BY <1>1, <3>1 DEF bytes
  <2> HIDE DEF upTo, t
  <2>6. QED
    BY <2>1, <2>4, <2>5
<1>3. PICK first : /\ SectorsOf(in) = first[n] /\ first[0] = <<>>
                   /\ \A i \in 0 .. n : first[i] \in Seq(Nat)
                   /\ \A i \in 0 .. n - 1 : first[i + 1] = first[i] \o SectorsOfTrack(in, i + 1)
  BY SectorsFacts
<1> HIDE DEF upTo
<1> DEFINE Good == {i \in 0 .. n : Len(first[i]) <= upTo(i)}
<1>4. 0 \in Good
  BY <1>1, <1>3
<1>5. ASSUME NEW i \in 0 .. n - 1, i \in Good
      PROVE  i + 1 \in Good
  <2>1. i \in 0 .. n /\ i + 1 \in 0 .. n /\ i + 1 \in 1 .. n /\ (i + 1) - 1 = i
    BY <1>1
  <2>2. Len(first[i + 1]) = Len(first[i]) + Len(SectorsOfTrack(in, i + 1))
    <3>1. first[i] \in Seq(Nat) /\ SectorsOfTrack(in, i + 1) \in Seq(Nat)
      BY <1>3, <2>1, SectorsOfTrackAre
    <3>2. first[i + 1] = first[i] \o SectorsOfTrack(in, i + 1)
      BY <1>3
    <3>3. Len(first[i] \o SectorsOfTrack(in, i + 1)) = Len(first[i]) + Len(SectorsOfTrack(in, i + 1))
      BY <3>1, Concatenated
    <3>4. QED
      BY <3>2, <3>3
  <2>3. Len(first[i]) \in Nat /\ Len(first[i]) <= upTo(i)
    BY <1>3, <1>5, <2>1
  <2>4. upTo(i) \in Nat /\ upTo(i + 1) \in Nat
    BY <1>1, <2>1
  <2>5. /\ Len(SectorsOfTrack(in, i + 1)) \in Nat
        /\ upTo(i) + Len(SectorsOfTrack(in, i + 1)) <= upTo(i + 1)
    BY <1>2, <2>1
  <2>6. Len(first[i + 1]) <= upTo(i + 1)
    <3> DEFINE a == Len(first[i])
               b == Len(SectorsOfTrack(in, i + 1))
               c == Len(first[i + 1])
               d == upTo(i)
               e == upTo(i + 1)
    <3> HIDE DEF a, b, c, d, e
    <3>1. /\ a \in Nat /\ b \in Nat /\ d \in Nat /\ e \in Nat
          /\ c = a + b /\ a <= d /\ d + b <= e
      BY <2>2, <2>3, <2>4, <2>5 DEF a, b, c, d, e
    <3>2. c <= e
      BY <3>1
    <3>3. QED
      BY <3>2 DEF c, e
  <2>7. QED
    BY <2>1, <2>6
<1> HIDE DEF Good
<1>6. n \in Good
  <2>1. \A i \in 0 .. n : i \in Good
    BY <1>1, <1>4, <1>5, UpTo
  <2>2. QED
    BY <1>1, <2>1
<1>7. /\ Len(first[n]) \in Nat /\ Len(first[n]) <= upTo(n) /\ upTo(n) \in Nat
  BY <1>1, <1>3, <1>6 DEF Good
<1>8. QED
  BY <1>1, <1>3, <1>7

(* VirtualCDDevice::Read, for every such disc of an MDS description: a request gives   *)
(* what the disc has of it; one inside the disc, a beginning of its sectors although   *)
(* another disc comes before the second or third look at the number of sectors.        *)
THEOREM StraddlingReadsAreRight == Spec => []StraddlingReadsRight
<1>1. ASSUME input = [kind |-> "none"] \/ input \in Inputs
      PROVE  StraddlingReadsRight
  <2> DEFINE image == Opened(input)
             sectors == SectorsOf(input)
             size == Len(sectors)
             seen(looks, other) == [i \in 1 .. 3 |-> IF i <= looks THEN size ELSE other]
             Got(looks, other, first, count) == DriveRead(image, seen(looks, other), first, count)
             Cut(first, count) == SubSeq(sectors, first + 1, Min({first + count, size}))
             All(first, count) == SubSeq(sectors, first + 1, first + count)
  <2> SUFFICES ASSUME input.kind = "disc", input.format = "mds",
                      NEW first \in 0 .. size + 1, NEW count \in 1 .. 3
               PROVE  /\ Got(3, size, first, count) = Cut(first, count)
                      /\ first + count <= size =>
                            \A looks \in 0 .. 2, other \in 0 .. 5 :
                                IsPrefix(Got(looks, other, first, count), All(first, count))
    BY Zenon DEF StraddlingReadsRight
  <2>1. Disc(input)
    BY <1>1, InputsAssumption DEF InputsAssumption, Disc
  <2>2. /\ Table(image) /\ Len(image.tracks) <= 2 /\ Presents(sectors, image)
        /\ image.size = FileSizeOf(input)
    BY <2>1, TableOfDisc
  <2> HIDE DEF image, sectors
  <2>3. /\ GetSectorCount(image) = size /\ size \in Nat /\ sectors \in Seq(Nat)
        /\ first \in Nat /\ count \in Nat
    BY <2>2, TableFacts DEF Presents
  <2>4. size < Width
    <3>1. size <= FileSizeOf(input) /\ FileSizeOf(input) \in Nat /\ FileSizeOf(input) < Width
      BY <2>1, SectorsAreFew, DiscFacts DEF sectors
    <3>2. QED
      BY <2>3, <3>1, WidthAssumption DEF WidthAssumption
  <2>5. Got(3, size, first, count) = Cut(first, count)
    <3> DEFINE n == IF first > size THEN 0
                    ELSE IF first + count <= size THEN count ELSE size - first
    <3>1. n \in Nat
      BY <2>3
    <3>2. seen(3, size) = Looks(3, image, GetSectorCount(image))
      BY <2>3 DEF Looks
    <3>3. n = IF first > GetSectorCount(image) THEN 0
              ELSE IF first + count <= GetSectorCount(image) THEN count
              ELSE GetSectorCount(image) - first
      BY <2>3
    <3>4. n = SectorsLeft(image, first, count)
      BY <2>3 DEF SectorsLeft
    <3> HIDE DEF n, size, seen
    <3>5. n = 0 \/ first + n <= GetSectorCount(image)
      BY <2>3, <3>3
    <3>6. Straight(image, first, n)
      <4>1. CASE first + n <= GetSectorCount(image)
        BY <2>2, <2>3, <3>1, <4>1, TwoTracks
      <4>2. CASE ~(first + n <= GetSectorCount(image))
        <5>1. n = 0 /\ first > GetSectorCount(image)
          BY <2>3, <3>5, <4>2
        <5>2. first >= GetSectorCount(image) /\ first + n = first
          BY <2>3, <5>1
        <5>3. ASSUME NEW i \in DOMAIN image.tracks
              PROVE  image.tracks[i].end <= first
          <6>1. /\ image.tracks[i].end \in Nat /\ image.tracks[i].start \in Nat
                /\ DOMAIN image.tracks = 1 .. Len(image.tracks) /\ Len(image.tracks) \in Nat
                /\ Len(image.tracks) \in DOMAIN image.tracks
                /\ GetSectorCount(image) = image.tracks[Len(image.tracks)].end
                /\ image.tracks[Len(image.tracks)].start <= image.tracks[Len(image.tracks)].end
                /\ image.tracks[Len(image.tracks)].start \in Nat
            <7>1. image.tracks # <<>>
              OBVIOUS
            <7>2. QED
              BY <2>2, <7>1, TableFacts
          <6>2. CASE i = Len(image.tracks)
            BY <2>3, <5>2, <6>1, <6>2
          <6>3. CASE i # Len(image.tracks)
            <7>1. image.tracks[i].end <= image.tracks[Len(image.tracks)].start
              BY <2>2, <6>1, <6>3 DEF Table, Follow
            <7>2. QED
              BY <2>3, <5>2, <6>1, <7>1
          <6>4. QED
            BY <6>2, <6>3
        <5>4. QED
          BY <5>3 DEF Straight
      <4>3. QED
        BY <4>1, <4>2
    <3>7. Got(3, size, first, count) = Places(image, first, n)
      <4>1. GetSectorCount(image) < Width
        BY <2>3, <2>4
      <4>2. QED
        BY <2>2, <2>3, <3>1, <3>2, <3>6, <3>4, <4>1, AllIsPlaces
    <3>8. Places(image, first, n) = Cut(first, count)
      <4>1. CASE first > size
        <5>1. first = size + 1 /\ n = 0
          BY <2>3, <3>3, <4>1 DEF size
        <5>2. Min({first + count, size}) = size
          BY <2>3, <5>1, MinOfTwo
        <5>3. SubSeq(sectors, first + 1, size) = <<>>
          BY <2>3, <5>1
        <5>4. Places(image, first, n) = <<>>
          BY <5>1 DEF Places
        <5>5. QED
          BY <5>2, <5>3, <5>4
      <4>2. CASE ~(first > size)
        <5>1. first + n = Min({first + count, size}) /\ first + n <= GetSectorCount(image)
          BY <2>3, <3>3, <4>2, MinOfTwo
        <5>2. Places(image, first, n) = SubSeq(sectors, first + 1, first + n)
          BY <2>2, <2>3, <3>1, <5>1, PartIsPlaces
        <5>3. QED
          BY <5>1, <5>2
      <4>3. QED
        BY <4>1, <4>2
    <3>9. QED
      BY <3>7, <3>8
  <2>6. ASSUME first + count <= size, NEW looks \in 0 .. 2, NEW other \in 0 .. 5
        PROVE  IsPrefix(Got(looks, other, first, count), All(first, count))
    <3>1. /\ looks \in 0 .. 3 /\ other \in Nat
          /\ seen(looks, other) = Looks(looks, image, other)
      BY <2>3 DEF Looks
    <3> HIDE DEF size, seen
    <3>2. first + count <= GetSectorCount(image) /\ GetSectorCount(image) < Width
      BY <2>3, <2>4, <2>6
    <3>3. Straight(image, first, count)
      BY <2>2, <2>3, <3>2, TwoTracks
    <3>4. PICK n \in 0 .. count : Got(looks, other, first, count) = Places(image, first, n)
      <4>1. Begun(image, looks, other, first, count)
        BY <2>2, <2>3, <3>1, <3>2, <3>3, ReplacedWhileReading
      <4>2. \E n \in 0 .. count :
               DriveRead(image, Looks(looks, image, other), first, count)
                  = Places(image, first, n)
        BY <4>1, BeginningIsPlaces
      <4>3. QED
        BY <3>1, <4>2
    <3>5. Places(image, first, n) = SubSeq(sectors, first + 1, first + n)
      BY <2>2, <2>3, <3>2, PartIsPlaces
    <3>6. IsPrefix(SubSeq(sectors, first + 1, first + n), All(first, count))
      <4> DEFINE part == SubSeq(sectors, first + 1, first + n)
                 whole == SubSeq(sectors, first + 1, first + count)
      <4>1. /\ Len(sectors) \in Nat /\ first + count <= Len(sectors) /\ n \in Nat /\ n <= count
        BY <2>3, <2>6 DEF size
      <4>2. /\ part \in Seq(Nat) /\ Len(part) = n /\ \A i \in 1 .. n : part[i] = sectors[first + i]
        BY <2>3, <4>1
      <4>3. /\ whole \in Seq(Nat) /\ Len(whole) = count
            /\ \A i \in 1 .. count : whole[i] = sectors[first + i]
        BY <2>3, <4>1
      <4> HIDE DEF part, whole
      <4>4. SubSeq(part, 1, n) = SubSeq(whole, 1, n)
        BY <4>1, <4>2, <4>3
      <4>5. QED
        BY <4>1, <4>2, <4>3, <4>4 DEF IsPrefix, part, whole
    <3>7. QED
      BY <3>4, <3>5, <3>6
  <2>7. QED
    BY <2>5, <2>6
<1>2. QED
  BY <1>1, InputIsGiven, PTL

--------------------------------------------------------------------------------
(* The search for a name in a UDF directory. *)

(* The loop of the search looks at the entry that begins at cell i ...          *)
EntryAt(cells, size, i) == i <= size /\ i <= Len(cells) /\ UDF!Intact(cells, i)

(* ... takes it when it has the name ...                                        *)
TakenAt(cells, size, name, i) ==
    EntryAt(cells, size, i) /\ UDF!SameName(UDF!Uncompress(cells[i].name), name)

(* ... and goes on to the one after it when it has another.                     *)
After(cells, size, name, i) ==
    IF EntryAt(cells, size, i) /\ ~TakenAt(cells, size, name, i) THEN i + cells[i].cells ELSE i

SearchRounds(at, cells, size, name) ==
    at = [n \in 0 .. size |-> IF n = 0 THEN 1 ELSE After(cells, size, name, at[n - 1])]

(* The cells of a directory: how many an entry takes is a number. *)
Cells(cells) ==
    Len(cells) \in Nat /\ \A i \in 1 .. Len(cells) : cells[i].cells \in Nat

LEMMA AfterType ==
    ASSUME NEW cells, Cells(cells), NEW size, NEW name, NEW i \in Nat \ {0}
    PROVE  After(cells, size, name, i) \in Nat \ {0}
<1>1. CASE EntryAt(cells, size, i) /\ ~TakenAt(cells, size, name, i)
  <2>1. i \in 1 .. Len(cells)
    BY <1>1 DEF EntryAt, Cells
  <2>2. cells[i].cells \in Nat
    BY <2>1 DEF Cells
  <2>3. After(cells, size, name, i) = i + cells[i].cells
    BY <1>1 DEF After
  <2>4. QED
    BY <2>2, <2>3
<1>2. CASE ~(EntryAt(cells, size, i) /\ ~TakenAt(cells, size, name, i))
  <2>1. After(cells, size, name, i) = i
    BY <1>2 DEF After
  <2>2. QED
    BY <2>1
<1>3. QED
  BY <1>1, <1>2

(* FindFileInDirectory: there are rounds of its loop, each one from the place the  *)
(* one before it went on to, and what the last one takes is what is found.         *)
LEMMA SearchFacts ==
    ASSUME NEW cells, Cells(cells), NEW volume, volume.root.size \in Nat, NEW name
    PROVE  \E at \in [0 .. volume.root.size -> Nat \ {0}] :
              /\ SearchRounds(at, cells, volume.root.size, name)
              /\ UDF!Search(cells, volume, name) =
                    IF TakenAt(cells, volume.root.size, name, at[volume.root.size])
                    THEN UDF!DataBlock(volume.partitions, cells[at[volume.root.size]].icb)
                    ELSE UDF!NoBlock
<1> DEFINE size == volume.root.size
           at == CHOOSE f : SearchRounds(f, cells, size, name)
           step == [n \in 1 .. size |-> [i \in Nat \ {0} |-> After(cells, size, name, i)]]
<1>1. step \in [1 .. size -> [Nat \ {0} -> Nat \ {0}]]
  BY AfterType
<1>2. \A n \in 1 .. size, i \in Nat \ {0} : step[n][i] = After(cells, size, name, i)
  OBVIOUS
<1> HIDE DEF step
<1>3. PICK f : Recursive(f, size, Nat \ {0}, 1, step)
  <2> HIDE DEF size
  <2>1. 1 \in Nat \ {0}
    OBVIOUS
  <2>2. size \in Nat
    BY DEF size
  <2>3. QED
    BY <1>1, <2>1, <2>2, Recursion
<1>4. ASSUME NEW n \in 0 .. size, n # 0
      PROVE  step[n][f[n - 1]] = After(cells, size, name, f[n - 1])
  <2>1. n \in 1 .. size /\ n - 1 \in 0 .. size
    BY <1>4
  <2>2. f[n - 1] \in Nat \ {0}
    BY <1>3, <2>1 DEF Recursive
  <2>3. QED
    BY <1>2, <2>1, <2>2
<1>5. f = [n \in 0 .. size |-> IF n = 0 THEN 1 ELSE After(cells, size, name, f[n - 1])]
  BY <1>3, <1>4 DEF Recursive
<1>6. SearchRounds(f, cells, size, name)
  BY <1>5 DEF SearchRounds
<1>7. SearchRounds(at, cells, size, name)
  BY <1>6
<1>8. UDF!Search(cells, volume, name) =
          IF TakenAt(cells, size, name, at[size])
          THEN UDF!DataBlock(volume.partitions, cells[at[size]].icb) ELSE UDF!NoBlock
  BY DEF UDF!Search, SearchRounds, After, TakenAt, EntryAt
<1> HIDE DEF at
<1>9. at \in [0 .. size -> Nat \ {0}]
  <2> HIDE DEF size
  <2> DEFINE Good == {n \in 0 .. size : at[n] \in Nat \ {0}}
  <2>1. size \in Nat
    BY DEF size
  <2>2. 0 \in Good
    BY <1>7, <2>1 DEF SearchRounds
  <2>3. ASSUME NEW n \in 0 .. size - 1, n \in Good
        PROVE  n + 1 \in Good
    <3>1. n + 1 \in 0 .. size /\ n + 1 # 0 /\ (n + 1) - 1 = n /\ at[n] \in Nat \ {0}
      BY <2>1, <2>3
    <3>2. at[n + 1] = After(cells, size, name, at[n])
      BY <1>7, <3>1 DEF SearchRounds
    <3>3. QED
      BY <3>1, <3>2, AfterType
  <2> HIDE DEF Good
  <2>4. \A n \in 0 .. size : n \in Good
    BY <2>1, <2>2, <2>3, UpTo
  <2>5. at = [n \in 0 .. size |-> at[n]]
    BY <1>7 DEF SearchRounds
  <2>6. QED
    BY <2>4, <2>5 DEF Good
<1>10. QED
  BY <1>7, <1>8, <1>9

(* What is found has the name, and is an entry whose cells are all there. *)
LEMMA FoundHasName ==
    ASSUME NEW cells, Cells(cells), NEW volume, volume.root.size \in Nat, NEW name,
           UDF!Search(cells, volume, name).valid
    PROVE  \E i \in 1 .. Len(cells) :
              /\ UDF!Intact(cells, i)
              /\ UDF!SameName(UDF!Uncompress(cells[i].name), name)
<1> DEFINE size == volume.root.size
<1>1. PICK at \in [0 .. size -> Nat \ {0}] :
        UDF!Search(cells, volume, name) =
            IF TakenAt(cells, size, name, at[size])
            THEN UDF!DataBlock(volume.partitions, cells[at[size]].icb) ELSE UDF!NoBlock
  BY SearchFacts
<1>2. TakenAt(cells, size, name, at[size])
  BY <1>1 DEF UDF!NoBlock
<1>3. at[size] \in Nat \ {0}
  OBVIOUS
<1>4. at[size] \in 1 .. Len(cells)
  BY <1>2, <1>3 DEF TakenAt, EntryAt, Cells
<1>5. QED
  BY <1>2, <1>4 DEF TakenAt, EntryAt

--------------------------------------------------------------------------------
(* The cells of a directory, in the sectors of the disc. *)

CellSector(file, i) == UDF!MapSector(file, (i - 1) \div SectorCells)

CellAt(disc, file, i) ==
    IF disc.sectors[CellSector(file, i)].tag = "directory"
    THEN disc.sectors[CellSector(file, i)].cells[((i - 1) % SectorCells) + 1] ELSE [cells |-> 0]

(* ReadStructureCached: they are read up to the first that cannot be read. *)
LEMMA CellsAreRead ==
    ASSUME NEW disc, NEW file, NEW count \in Nat
    PROVE  \E last \in 0 .. count :
              /\ UDF!CellsOf(disc, file, count) = [i \in 1 .. last |-> CellAt(disc, file, i)]
              /\ \A i \in 1 .. last : UDF!Readable(disc, CellSector(file, i))
              /\ last < count => ~UDF!Readable(disc, CellSector(file, last + 1))
<1> DEFINE unreadable == {i \in 1 .. count : ~UDF!Readable(disc, CellSector(file, i))}
           end == Min(unreadable \cup {count + 1})
<1>1. UDF!CellsOf(disc, file, count) = [i \in 1 .. end - 1 |-> CellAt(disc, file, i)]
  BY DEF UDF!CellsOf, CellAt, CellSector, UDF!Min, Min
<1>2. /\ end \in unreadable \cup {count + 1}
      /\ \A i \in unreadable \cup {count + 1} : end <= i
  <2> DEFINE ends == unreadable \cup {count + 1}
  <2>1. ends \in SUBSET Nat /\ ends # {}
    OBVIOUS
  <2> HIDE DEF ends
  <2>2. PICK m \in ends : \A i \in ends : m <= i
    BY <2>1, LeastNumber
  <2>3. Min(ends) \in ends /\ \A i \in ends : Min(ends) <= i
    BY <2>2 DEF Min
  <2>4. QED
    BY <2>3 DEF ends
<1> HIDE DEF end
<1>3. end \in 1 .. count + 1
  BY <1>2
<1>4. ASSUME NEW i \in 1 .. end - 1
      PROVE  UDF!Readable(disc, CellSector(file, i))
  <2>1. i \in 1 .. count /\ ~(end <= i)
    BY <1>3
  <2>2. QED
    BY <1>2, <2>1
<1>5. ASSUME end - 1 < count
      PROVE  ~UDF!Readable(disc, CellSector(file, (end - 1) + 1))
  <2>1. end # count + 1 /\ (end - 1) + 1 = end
    BY <1>3, <1>5
  <2>2. QED
    BY <1>2, <2>1
<1>6. end - 1 \in 0 .. count
  BY <1>3
<1>7. QED
  BY <1>1, <1>4, <1>5, <1>6

(* A directory's sectors have cells, and each says how many its entry takes. *)
Directories(disc) ==
    \A s \in DOMAIN disc.sectors : disc.sectors[s].tag = "directory" =>
        \A n \in 1 .. SectorCells : disc.sectors[s].cells[n].cells \in Nat

LEMMA CellPlace ==
    ASSUME NEW i \in Nat \ {0}
    PROVE  /\ (i - 1) \div SectorCells \in Nat /\ ((i - 1) % SectorCells) + 1 \in 1 .. SectorCells
           /\ i = ((i - 1) \div SectorCells) * SectorCells + ((i - 1) % SectorCells) + 1
<1> DEFINE c == SectorCells
           k == i - 1
<1>1. c \in Nat \ {0} /\ k \in Nat
  BY SectorCellsAssumption
<1> HIDE DEF c, k
<1>2. /\ k \div c \in Nat /\ k % c \in 0 .. c - 1 /\ k = c * (k \div c) + (k % c)
  BY <1>1
<1>3. k = ((k \div c) * c) + (k % c)
  BY <1>1, <1>2
<1>4. k % c \in Int /\ (k \div c) * c \in Int /\ (k % c) + 1 \in 1 .. c
  BY <1>1, <1>2
<1>5. i = ((k \div c) * c) + (k % c) + 1
  BY <1>3, <1>4 DEF k
<1>6. QED
  BY <1>2, <1>4, <1>5 DEF c, k

(* Whatever the disc has, a name that is found is one that an intact entry has, in  *)
(* a sector of a directory that can be read.                                        *)
LEMMA FoundIsOnDisc ==
    ASSUME NEW disc, Directories(disc), NEW volume, volume.root.size \in Nat,
           NEW file, NEW name,
           UDF!FindFileInDirectory(disc, volume, file, name).valid
    PROVE  \E s \in DOMAIN disc.sectors : \E n \in 1 .. SectorCells :
              /\ UDF!Readable(disc, s) /\ disc.sectors[s].tag = "directory"
              /\ disc.sectors[s].cells[n].cells > 0
              /\ UDF!SameName(UDF!Uncompress(disc.sectors[s].cells[n].name), name)
<1> DEFINE count == volume.root.size + SectorCells
           cells == UDF!CellsOf(disc, file, count)
<1>1. UDF!Search(cells, volume, name).valid
  BY DEF UDF!FindFileInDirectory, UDF!NoBlock
<1>2. count \in Nat
  BY SectorCellsAssumption
<1>3. PICK last \in 0 .. count :
        /\ cells = [i \in 1 .. last |-> CellAt(disc, file, i)]
        /\ \A i \in 1 .. last : UDF!Readable(disc, CellSector(file, i))
  BY <1>2, CellsAreRead
<1> HIDE DEF count, cells
<1>4. Len(cells) = last /\ Len(cells) \in Nat
  BY <1>2, <1>3
<1>5. ASSUME NEW i \in 1 .. last
      PROVE  /\ cells[i] = CellAt(disc, file, i)
             /\ CellSector(file, i) \in DOMAIN disc.sectors
             /\ ((i - 1) % SectorCells) + 1 \in 1 .. SectorCells
  <2>1. i \in Nat \ {0}
    BY <1>2
  <2>2. QED
    BY <1>3, <2>1, CellPlace DEF UDF!Readable
<1>6. ASSUME NEW i \in 1 .. last
      PROVE  cells[i].cells \in Nat
  BY <1>5 DEF CellAt, Directories
<1>7. Cells(cells)
  BY <1>4, <1>6 DEF Cells
<1>8. PICK i \in 1 .. Len(cells) :
        UDF!Intact(cells, i) /\ UDF!SameName(UDF!Uncompress(cells[i].name), name)
  BY <1>1, <1>7, FoundHasName
<1> DEFINE s == CellSector(file, i)
           n == ((i - 1) % SectorCells) + 1
<1>9. /\ s \in DOMAIN disc.sectors /\ n \in 1 .. SectorCells /\ UDF!Readable(disc, s)
      /\ cells[i] = CellAt(disc, file, i) /\ cells[i].cells > 0
  BY <1>3, <1>4, <1>5, <1>8 DEF UDF!Intact
<1>10. disc.sectors[s].tag = "directory" /\ cells[i] = disc.sectors[s].cells[n]
  BY <1>9 DEF CellAt
<1>11. QED
  BY <1>8, <1>9, <1>10

--------------------------------------------------------------------------------
(* The names of entries. *)

Reading(chars) == SubSeq(chars, 1, Min({i \in DOMAIN chars : chars[i] = 0} \cup {Len(chars) + 1}) - 1)

LEMMA ReadToTheEnd ==
    ASSUME NEW chars \in Seq(Nat \ {0})
    PROVE  Reading(chars) = chars
<1>1. {i \in DOMAIN chars : chars[i] = 0} = {}
  OBVIOUS
<1>2. Len(chars) \in Nat
  OBVIOUS
<1>3. Min({Len(chars) + 1}) = Len(chars) + 1
  BY <1>2 DEF Min
<1>4. Reading(chars) = SubSeq(chars, 1, Len(chars))
  <2>1. Reading(chars) = SubSeq(chars, 1, Min({} \cup {Len(chars) + 1}) - 1)
    BY <1>1 DEF Reading
  <2>2. {} \cup {Len(chars) + 1} = {Len(chars) + 1} /\ (Len(chars) + 1) - 1 = Len(chars)
    BY <1>2
  <2>3. QED
    BY <1>3, <2>1, <2>2
<1>5. SubSeq(chars, 1, Len(chars)) = chars
  OBVIOUS
<1>6. QED
  BY <1>4, <1>5

LEMMA NarrowName ==
    ASSUME NEW chars \in Seq(Nat \ {0})
    PROVE  UDF!Uncompress(<<8>> \o chars) = chars
<1> DEFINE name == <<8>> \o chars
<1>1. name # <<>> /\ Head(name) = 8 /\ Tail(name) = chars
  OBVIOUS
<1> HIDE DEF name
<1>2. UDF!Uncompress(name) = Reading(chars)
  BY <1>1 DEF UDF!Uncompress, Reading, UDF!Min, Min
<1>3. QED
  BY <1>2, ReadToTheEnd DEF name

(* The bytes of a character, and the character of its bytes. *)
LEMMA HighAndLow ==
    ASSUME NEW char \in Nat
    PROVE  UDF!Wide(char \div 256, char % 256) = char
BY DEF UDF!Wide

LEMMA Halves ==
    ASSUME NEW i \in Nat
    PROVE  /\ (2 * i) % 2 = 0 /\ (2 * i) \div 2 = i
           /\ (2 * i + 1) % 2 = 1 /\ (2 * i + 1) \div 2 = i
<1> DEFINE IsDivided(j) == j \div 2 \in Int /\ (j % 2) \in 0 .. 1 /\ j = 2 * (j \div 2) + (j % 2)
<1>0. ASSUME NEW j \in Nat PROVE IsDivided(j)
  OBVIOUS
<1>1. ASSUME NEW j \in Nat, j = 2 * i PROVE j % 2 = 0 /\ j \div 2 = i
  BY <1>0, <1>1
<1>2. ASSUME NEW j \in Nat, j = 2 * i + 1 PROVE j % 2 = 1 /\ j \div 2 = i
  BY <1>0, <1>2
<1>3. 2 * i \in Nat /\ 2 * i + 1 \in Nat
  OBVIOUS
<1>4. QED
  BY <1>1, <1>2, <1>3

LEMMA WideName ==
    ASSUME NEW chars \in Seq(Nat \ {0}), NEW name,
           name = [i \in 1 .. 2 * Len(chars) + 1 |->
                     IF i = 1 THEN 16
                     ELSE IF i % 2 = 0 THEN chars[i \div 2] \div 256 ELSE chars[i \div 2] % 256]
    PROVE  UDF!Uncompress(name) = chars
<1> DEFINE n == Len(chars)
           bytes == Tail(name)
           Char(i) == IF 2 * i > Len(bytes) THEN UDF!Wide(bytes[2 * i - 1], 0)
                      ELSE UDF!Wide(bytes[2 * i - 1], bytes[2 * i])
           read == [i \in 1 .. (Len(bytes) + 1) \div 2 |-> Char(i)]
<1>1. n \in Nat /\ chars = [i \in 1 .. n |-> chars[i]] /\ \A i \in 1 .. n : chars[i] \in Nat
  OBVIOUS
<1> HIDE DEF n
<1>2. name = [i \in 1 .. 2 * n + 1 |->
                IF i = 1 THEN 16
                ELSE IF i % 2 = 0 THEN chars[i \div 2] \div 256 ELSE chars[i \div 2] % 256]
  BY DEF n
<1>3. /\ name # <<>> /\ Len(name) = 2 * n + 1 /\ Head(name) = 16
      /\ \A i \in 1 .. n : /\ name[2 * i] = chars[i] \div 256
                           /\ name[2 * i + 1] = chars[i] % 256
  <2>1. Len(name) = 2 * n + 1 /\ name[1] = 16
    BY <1>1, <1>2
  <2>2. ASSUME NEW i \in 1 .. n
        PROVE  /\ name[2 * i] = chars[i] \div 256 /\ name[2 * i + 1] = chars[i] % 256
    <3> DEFINE even == 2 * i
               odd == 2 * i + 1
    <3>1. even % 2 = 0 /\ even \div 2 = i /\ odd % 2 # 0 /\ odd \div 2 = i
      <4>1. i \in Nat
        BY <1>1
      <4>2. even % 2 = 0 /\ even \div 2 = i /\ odd % 2 = 1 /\ odd \div 2 = i
        BY <4>1, Halves
      <4>3. QED
        BY <4>2
    <3>2. even \in 1 .. 2 * n + 1 /\ even # 1 /\ odd \in 1 .. 2 * n + 1 /\ odd # 1
      BY <1>1
    <3> HIDE DEF even, odd
    <3>3. name[even] = chars[i] \div 256 /\ name[odd] = chars[i] % 256
      BY <1>1, <1>2, <3>1, <3>2
    <3>4. QED
      BY <3>3 DEF even, odd
  <2>3. name # <<>> /\ Head(name) = name[1]
    BY <1>1, <1>2, <2>1
  <2>4. QED
    BY <2>1, <2>2, <2>3
<1>4. Len(bytes) = 2 * n /\ \A i \in 1 .. 2 * n : bytes[i] = name[i + 1]
  <2>1. Len(name) \in Nat /\ DOMAIN name = 1 .. Len(name)
    BY <1>1, <1>2, <1>3
  <2>2. bytes = [i \in 1 .. Len(name) - 1 |-> name[i + 1]]
    BY <1>2, <1>3, <2>1
  <2>3. QED
    BY <1>1, <1>3, <2>2
<1>5. ASSUME NEW i \in 1 .. n
      PROVE  Char(i) = chars[i]
  <2>1. /\ 2 * i \in 1 .. 2 * n /\ 2 * i - 1 \in 1 .. 2 * n /\ ~(2 * i > 2 * n)
        /\ (2 * i - 1) + 1 = 2 * i
    BY <1>1
  <2>2. bytes[2 * i] = chars[i] % 256 /\ bytes[2 * i - 1] = chars[i] \div 256
    BY <1>3, <1>4, <2>1
  <2>3. Char(i) = UDF!Wide(bytes[2 * i - 1], bytes[2 * i])
    BY <1>4, <2>1
  <2> HIDE DEF bytes, Char
  <2>4. QED
    BY <1>1, <2>2, <2>3, HighAndLow
<1>6. (Len(bytes) + 1) \div 2 = n
  BY <1>1, <1>4, Halves
<1>7. read = chars
  BY <1>1, <1>5, <1>6
<1>8. UDF!Uncompress(name) = Reading(read)
  <2> HIDE DEF n
  <2> DEFINE decoded == IF Head(name) = 8 THEN bytes ELSE read
             zeros == {i \in DOMAIN decoded : decoded[i] = 0}
             cut == SubSeq(decoded, 1, UDF!Min(zeros \cup {Len(decoded) + 1}) - 1)
  <2>1. UDF!Uncompress(name) = IF name = <<>> \/ Head(name) \notin {8, 16} THEN <<>> ELSE cut
    BY Zenon DEF UDF!Uncompress
  <2>2. cut = Reading(decoded)
    BY Zenon DEF Reading, UDF!Min, Min
  <2> HIDE DEF cut
  <2>3. name # <<>> /\ Head(name) \in {8, 16} /\ Head(name) # 8
    BY <1>3
  <2> HIDE DEF bytes, read
  <2>4. decoded = read
    BY <2>3
  <2> HIDE DEF decoded
  <2>5. QED
    BY <2>1, <2>2, <2>3, <2>4
<1> HIDE DEF read
<1>9. QED
  BY <1>7, <1>8, ReadToTheEnd

LEMMA SequenceElements ==
    ASSUME NEW S, NEW s \in Seq(S)
    PROVE  /\ Len(s) \in Nat /\ DOMAIN s = 1 .. Len(s) /\ \A i \in DOMAIN s : s[i] \in S
OBVIOUS

LEMMA NameIsRead ==
    ASSUME NEW entry \in Entry
    PROVE  UDF!Uncompress(Encoded(entry)) = entry.chars /\ entry.chars \in Seq(Nat \ {0})
<1>1. entry.chars \in Seq(Nat \ {0})
  BY DEF Entry
<1>2. CASE entry.coding = 8
  BY <1>1, <1>2, NarrowName DEF Encoded
<1>3. CASE entry.coding # 8
  <2> DEFINE name == Encoded(entry)
  <2>1. name = [i \in 1 .. 2 * Len(entry.chars) + 1 |->
                  IF i = 1 THEN 16
                  ELSE IF i % 2 = 0 THEN entry.chars[i \div 2] \div 256
                  ELSE entry.chars[i \div 2] % 256]
    BY <1>3 DEF Encoded
  <2> HIDE DEF name
  <2>2. UDF!Uncompress(name) = entry.chars
    BY <1>1, <2>1, WideName
  <2>3. QED
    BY <1>1, <2>2 DEF name
<1>4. QED
  BY <1>2, <1>3

(* The two names are in capital letters and an underscore, and it is these that are *)
(* compared with.                                                                   *)
LEMMA NamesAgree ==
    ASSUME NEW entry \in Entry, NEW name \in {BDMV, VIDEO_TS}
    PROVE  UDF!SameName(UDF!Uncompress(Encoded(entry)), name) <=> IsNamed(entry, name)
<1> DEFINE chars == entry.chars
<1>1. UDF!Uncompress(Encoded(entry)) = chars /\ chars \in Seq(Nat \ {0})
  BY NameIsRead
<1>2. name \in Seq(65 .. 95)
  <2>1. CASE name = BDMV
    <3>1. <<66, 68, 77, 86>> \in Seq(65 .. 95)
      OBVIOUS
    <3>2. QED
      BY <2>1, <3>1 DEF BDMV
  <2>2. CASE name = VIDEO_TS
    <3>1. <<86, 73, 68, 69, 79, 95, 84, 83>> \in Seq(65 .. 95)
      OBVIOUS
    <3>2. QED
      BY <2>2, <3>1 DEF VIDEO_TS
  <2>3. QED
    BY <2>1, <2>2
<1> HIDE DEF chars
<1>3. /\ Len(name) \in Nat /\ DOMAIN name = 1 .. Len(name) /\ DOMAIN chars = 1 .. Len(chars)
      /\ \A i \in DOMAIN chars : chars[i] \in Nat
      /\ \A i \in DOMAIN name : name[i] \in 65 .. 95
  <2>1. DOMAIN chars = 1 .. Len(chars) /\ \A i \in DOMAIN chars : chars[i] \in Nat
    BY <1>1
  <2>2. /\ Len(name) \in Nat /\ DOMAIN name = 1 .. Len(name)
        /\ \A i \in DOMAIN name : name[i] \in 65 .. 95
    BY <1>2, SequenceElements
  <2>3. QED
    BY <2>1, <2>2
<1>4. ASSUME NEW a \in Nat, NEW b \in 65 .. 95
      PROVE  UDF!Upper(a) = UDF!Upper(b) <=> (a = b \/ (b \in 65 .. 90 /\ a = b + 32))
  BY DEF UDF!Upper
<1>5. CASE Len(chars) = Len(name)
  <2>1. ASSUME NEW i \in DOMAIN name
        PROVE  UDF!Upper(chars[i]) = UDF!Upper(name[i])
                   <=> (chars[i] = name[i] \/ (name[i] \in 65 .. 90 /\ chars[i] = name[i] + 32))
    <3>1. chars[i] \in Nat /\ name[i] \in 65 .. 95
      BY <1>3, <1>5
    <3>2. QED
      BY <1>4, <3>1
  <2>2. QED
    BY <1>1, <1>3, <1>5, <2>1 DEF UDF!SameName, IsNamed, chars
<1>6. CASE Len(chars) # Len(name)
  BY <1>1, <1>6 DEF UDF!SameName, IsNamed, chars
<1>7. QED
  BY <1>5, <1>6

LEMMA ZeroHasNoName ==
    ASSUME NEW name \in {BDMV, VIDEO_TS}
    PROVE  ~UDF!SameName(UDF!Uncompress(ZeroCell.name), name)
<1>1. ZeroCell.name = <<8>> \o <<>> /\ <<>> \in Seq(Nat \ {0})
  BY DEF ZeroCell
<1>2. UDF!Uncompress(<<8>> \o <<>>) = <<>>
  BY <1>1, NarrowName
<1>3. Len(name) # 0
  <2>1. CASE name = BDMV
    BY <2>1 DEF BDMV
  <2>2. CASE name = VIDEO_TS
    BY <2>2 DEF VIDEO_TS
  <2>3. QED
    BY <2>1, <2>2
<1>4. QED
  BY <1>1, <1>2, <1>3 DEF UDF!SameName

--------------------------------------------------------------------------------
(* What is found is there. *)

(* A descriptor that can be read at the anchor's place has a number for a length. *)
Anchors(disc) ==
    LET anchor == UDF!Descriptor(disc, UDF!AnchorLocation) IN
    anchor.tag # "none" => anchor.length \in Nat

FileSetOf(disc, volume) ==
    \E s \in DOMAIN disc.sectors :
        /\ disc.sectors[s].tag = "fileset"
        /\ volume.root = UDF!DataBlock(volume.partitions, disc.sectors[s].root)

(* A descriptor with a tag stands in a sector. *)
LEMMA DescriptorStands ==
    ASSUME NEW disc, NEW sector, NEW tag, tag # "none", UDF!Descriptor(disc, sector).tag = tag
    PROVE  /\ sector \in DOMAIN disc.sectors /\ disc.sectors[sector].tag = tag
           /\ UDF!Descriptor(disc, sector) = disc.sectors[sector]
<1>1. CASE UDF!Readable(disc, sector) /\ disc.sectors[sector].tag # "damaged"
  BY <1>1 DEF UDF!Descriptor, UDF!Readable
<1>2. CASE ~(UDF!Readable(disc, sector) /\ disc.sectors[sector].tag # "damaged")
  <2>1. UDF!Descriptor(disc, sector) = [tag |-> "none"]
    BY <1>2 DEF UDF!Descriptor
  <2>2. QED
    BY <2>1
<1>3. QED
  BY <1>1, <1>2

(* ParseLVDInSectorBuffer: the root directory of a volume is told by its file set. *)
LEMMA RootOfVolume ==
    ASSUME NEW disc, NEW sequence, NEW lvd, UDF!LogicalVolume(disc, sequence, lvd).root.valid
    PROVE  FileSetOf(disc, UDF!LogicalVolume(disc, sequence, lvd))
<1> DEFINE partitions == [i \in DOMAIN lvd.maps |-> UDF!MappedPartition(disc, sequence, lvd.maps[i])]
           fileSet == UDF!FileSet(disc, lvd, partitions)
           volume == UDF!LogicalVolume(disc, sequence, lvd)
           numbered == {i \in DOMAIN lvd.maps : lvd.maps[i].type \in {1, 2}}
<1>1. UDF!NoVolume.root.valid = FALSE
  BY DEF UDF!NoVolume, UDF!NoBlock
<1>2. volume = IF lvd.plainBlocks THEN UDF!Volume(lvd, partitions, fileSet) ELSE UDF!NoVolume
  BY DEF UDF!LogicalVolume
<1> HIDE DEF volume, partitions, fileSet
<1>3. volume.root.valid
  BY DEF volume
<1>4. volume = UDF!Volume(lvd, partitions, fileSet)
  BY <1>1, <1>2, <1>3
<1>5. fileSet.tag = "fileset"
  BY <1>1, <1>3, <1>4 DEF UDF!Volume
<1>6. volume.root = UDF!DataBlock(partitions, fileSet.root) /\ volume.partitions = partitions
  BY <1>4, <1>5 DEF UDF!Volume
<1>7. \E s \in DOMAIN disc.sectors : disc.sectors[s].tag = "fileset" /\ fileSet = disc.sectors[s]
  BY <1>5, DescriptorStands DEF fileSet, UDF!FileSet
<1>8. QED
  BY <1>6, <1>7 DEF FileSetOf, volume

(* FindLastVolume: there is none, or it is one of those that were read. *)
LEMMA LastVolume ==
    ASSUME NEW disc, Anchors(disc),
           UDF!FindLastVolume(UDF!ParseUDFHeaders(disc)).root.valid
    PROVE  FileSetOf(disc, UDF!FindLastVolume(UDF!ParseUDFHeaders(disc)))
<1> DEFINE anchor == UDF!Descriptor(disc, UDF!AnchorLocation)
           sequence == UDF!VolumeSequence(disc, anchor)
           volumes == UDF!ParseUDFHeaders(disc)
           last == {i \in DOMAIN volumes : \A j \in DOMAIN volumes : volumes[i].number >= volumes[j].number}
           Read(i) == UDF!LogicalVolume(disc, sequence, sequence[i])
           there == {i \in DOMAIN sequence : sequence[i].tag = "logical" /\ Read(i).root.valid}
<1>1. UDF!FindLastVolume(volumes) =
          IF last = {} THEN UDF!NoVolume ELSE volumes[Min(last)]
  BY DEF UDF!FindLastVolume, UDF!Min, Min
<1>2. last # {}
  <2> HIDE DEF last
  <2>1. UDF!NoVolume.root.valid = FALSE
    BY DEF UDF!NoVolume, UDF!NoBlock
  <2>2. QED
    BY <1>1, <2>1
<1>3. anchor.tag # "none"
  <2>1. volumes # <<>>
    BY <1>2
  <2>2. QED
    BY <2>1 DEF UDF!ParseUDFHeaders
<1>4. volumes = [i \in there |-> Read(i)]
  BY <1>3 DEF UDF!ParseUDFHeaders, UDF!LogicalVolumes
<1>5. DOMAIN sequence \in SUBSET Nat
  <2>1. anchor.length \in Nat
    BY <1>3 DEF Anchors
  <2>2. UDF!SectorsFor(anchor.length) \in Int
    BY <2>1, SectorCellsAssumption DEF UDF!SectorsFor
  <2>3. DOMAIN sequence = 1 .. UDF!SectorsFor(anchor.length)
    BY DEF UDF!VolumeSequence
  <2>4. QED
    BY <2>2, <2>3
<1>6. last \in SUBSET Nat /\ last \subseteq there
  BY <1>4, <1>5
<1>7. Min(last) \in there
  <2> HIDE DEF last
  <2>1. PICK m \in last : \A i \in last : m <= i
    BY <1>2, <1>6, LeastNumber
  <2>2. Min(last) \in last
    BY <2>1, Zenon DEF Min
  <2>3. QED
    BY <1>6, <2>2
<1>8. UDF!FindLastVolume(volumes) = Read(Min(last))
  <2>1. UDF!FindLastVolume(volumes) = volumes[Min(last)]
    BY <1>1, <1>2
  <2> HIDE DEF last, there, Read, volumes
  <2>2. QED
    BY <1>4, <1>7, <2>1
<1>9. Read(Min(last)).root.valid
  BY <1>7
<1>10. FileSetOf(disc, Read(Min(last)))
  BY <1>9, RootOfVolume
<1>11. QED
  BY <1>8, <1>10

(* A disc whose descriptors have numbers where the reader takes numbers. *)
Readings(disc) ==
    /\ Anchors(disc) /\ Directories(disc)
    /\ \A s \in DOMAIN disc.sectors : disc.sectors[s].tag = "fileset" =>
          disc.sectors[s].root.length \in Nat

(* AnalyzeUDFImage: whatever a disc has in its descriptors, its extents and its     *)
(* directories, and whichever of them is damaged, a name is only found when an      *)
(* intact entry in a sector of a directory has it.  (What an uninitialised buffer    *)
(* may hold is left out: see CellsOf.)                                              *)
THEOREM FoundIsThere ==
    ASSUME NEW disc, Readings(disc), NEW name, UDF!AnalyzeUDFImage(disc, name).found
    PROVE  \E s \in DOMAIN disc.sectors : \E n \in 1 .. SectorCells :
              /\ UDF!Readable(disc, s) /\ disc.sectors[s].tag = "directory"
              /\ disc.sectors[s].cells[n].cells > 0
              /\ UDF!SameName(UDF!Uncompress(disc.sectors[s].cells[n].name), name)
<1> DEFINE volume == UDF!FindLastVolume(UDF!ParseUDFHeaders(disc))
           file == UDF!CreateFileFromICB(disc, volume.root)
<1>1. volume.root.valid /\ UDF!FindFileInDirectory(disc, volume, file, name).valid
  BY DEF UDF!AnalyzeUDFImage, UDF!Analysis
<1>2. FileSetOf(disc, volume)
  BY <1>1, LastVolume DEF Readings
<1> HIDE DEF volume, file
<1>3. PICK s \in DOMAIN disc.sectors :
        /\ disc.sectors[s].tag = "fileset"
        /\ volume.root = UDF!DataBlock(volume.partitions, disc.sectors[s].root)
  BY <1>2 DEF FileSetOf
<1>4. volume.root.size \in Nat
  BY <1>3 DEF Readings, UDF!DataBlock, UDF!Block, UDF!NoBlock
<1>5. QED
  BY <1>1, <1>4, FoundIsOnDisc DEF Readings

--------------------------------------------------------------------------------
(* The directories of the video discs. *)

CellEnds(end, entries) ==
    end = [n \in 0 .. Len(entries) |-> IF n = 0 THEN 0 ELSE end[n - 1] + entries[n].cells]

(* Each entry begins after the cells of the one before it. *)
LEMMA CellsBeforeFacts ==
    ASSUME NEW entries \in Seq(Entry)
    PROVE  /\ CellsBefore(entries, 1) = 0
           /\ \A i \in 1 .. Len(entries) + 1 : CellsBefore(entries, i) \in Nat
           /\ \A i \in 1 .. Len(entries) :
                 CellsBefore(entries, i + 1) = CellsBefore(entries, i) + entries[i].cells
<1> DEFINE n == Len(entries)
           step == [i \in 1 .. n |-> [at \in Nat |-> at + entries[i].cells]]
           end == CHOOSE f : CellEnds(f, entries)
<1>1. n \in Nat /\ \A i \in 1 .. n : entries[i].cells \in Nat
  BY DEF Entry
<1>2. step \in [1 .. n -> [Nat -> Nat]]
  BY <1>1
<1>3. \A i \in 1 .. n, at \in Nat : step[i][at] = at + entries[i].cells
  OBVIOUS
<1> HIDE DEF step
<1>4. \E f : CellEnds(f, entries)
  <2>1. PICK f : Recursive(f, n, Nat, 0, step)
    <3> HIDE DEF n
    <3>1. 0 \in Nat
      OBVIOUS
    <3>2. QED
      BY <1>1, <1>2, <3>1, Recursion
  <2>2. ASSUME NEW i \in 0 .. n, i # 0
        PROVE  step[i][f[i - 1]] = f[i - 1] + entries[i].cells
    <3>1. i \in 1 .. n /\ i - 1 \in 0 .. n
      BY <2>2
    <3>2. f[i - 1] \in Nat
      BY <2>1, <3>1 DEF Recursive
    <3>3. QED
      BY <1>3, <3>1, <3>2
  <2>3. f = [i \in 0 .. n |-> IF i = 0 THEN 0 ELSE f[i - 1] + entries[i].cells]
    BY <2>1, <2>2 DEF Recursive
  <2>4. QED
    BY <2>3 DEF CellEnds
<1>5. CellEnds(end, entries)
  BY <1>4
<1>6. \A i \in 1 .. n + 1 : CellsBefore(entries, i) = end[i - 1]
  BY DEF CellsBefore, CellEnds
<1> HIDE DEF end
<1> DEFINE Good == {i \in 0 .. n : end[i] \in Nat}
<1>7. 0 \in Good
  BY <1>1, <1>5 DEF CellEnds
<1>8. ASSUME NEW i \in 0 .. n - 1
      PROVE  end[i + 1] = end[i] + entries[i + 1].cells
  <2>1. i + 1 \in 0 .. n /\ i + 1 \in 1 .. n /\ i + 1 # 0 /\ (i + 1) - 1 = i
    OBVIOUS
  <2>2. QED
    BY <1>5, <2>1 DEF CellEnds
<1>9. ASSUME NEW i \in 0 .. n - 1, i \in Good
      PROVE  i + 1 \in Good
  <2>1. i + 1 \in 0 .. n /\ i + 1 \in 1 .. n
    OBVIOUS
  <2>2. QED
    BY <1>1, <1>8, <1>9, <2>1
<1> HIDE DEF Good
<1>10. \A i \in 0 .. n : i \in Good
  BY <1>1, <1>7, <1>9, UpTo
<1>11. \A i \in 1 .. n + 1 : CellsBefore(entries, i) \in Nat
  <2> SUFFICES ASSUME NEW i \in 1 .. n + 1 PROVE CellsBefore(entries, i) \in Nat
    OBVIOUS
  <2>1. i - 1 \in 0 .. n
    BY <1>1
  <2>2. QED
    BY <1>6, <1>10, <2>1 DEF Good
<1>12. ASSUME NEW i \in 1 .. n
       PROVE  CellsBefore(entries, i + 1) = CellsBefore(entries, i) + entries[i].cells
  <2>1. /\ i \in 1 .. n + 1 /\ i + 1 \in 1 .. n + 1 /\ i - 1 \in 0 .. n - 1
        /\ (i - 1) + 1 = i /\ (i + 1) - 1 = i
    BY <1>1
  <2>2. QED
    BY <1>6, <1>8, <2>1
<1>13. CellsBefore(entries, 1) = 0
  <2>1. 1 \in 1 .. n + 1 /\ 1 - 1 = 0 /\ 0 \in 0 .. n
    BY <1>1
  <2>2. QED
    BY <1>5, <1>6, <2>1 DEF CellEnds
<1>14. QED
  BY <1>11, <1>12, <1>13

(* A cell is the first one of an entry, or zeros. *)
LEMMA CellIs ==
    ASSUME NEW entries \in Seq(Entry), NEW n
    PROVE  \/ Cell(entries, n) = ZeroCell
           \/ \E i \in DOMAIN entries :
                 /\ CellsBefore(entries, i) + 1 = n
                 /\ Cell(entries, n) =
                       [cells |-> entries[i].cells, name |-> Encoded(entries[i]),
                        icb |-> [partition |-> 0, lba |-> 9, length |-> SectorCells]]
<1> DEFINE begun == {i \in DOMAIN entries : CellsBefore(entries, i) + 1 = n}
           k == CHOOSE i \in begun : TRUE
<1>1. CASE begun = {}
  BY <1>1 DEF Cell
<1>2. CASE begun # {}
  <2>1. k \in begun
    BY <1>2
  <2>2. Cell(entries, n) = [cells |-> entries[k].cells, name |-> Encoded(entries[k]),
                            icb |-> [partition |-> 0, lba |-> 9, length |-> SectorCells]]
    BY <1>2 DEF Cell
  <2> HIDE DEF k
  <2>3. QED
    BY <2>1, <2>2
<1>3. QED
  BY <1>1, <1>2

LEMMA CellType ==
    ASSUME NEW entries \in Seq(Entry), NEW n
    PROVE  Cell(entries, n).cells \in Nat \ {0}
<1>1. \A i \in DOMAIN entries : entries[i].cells \in Nat \ {0}
  BY DEF Entry
<1>2. QED
  BY <1>1, CellIs DEF ZeroCell

(* The input is of the shape of the inputs of its kind. *)
Video(in) == in.entries \in Seq(Entry) /\ in.icb \in Nat /\ in.metadata \in BOOLEAN

(* Where the numbers of sectors of the partition that is used begin, and which one it is. *)
Origin(in) == IF in.metadata THEN 302 ELSE 300
Used(in)   == IF in.metadata THEN 1 ELSE 0

(* What is in the sectors of such a disc. *)
LEMMA SectorsAre ==
    ASSUME NEW in
    PROVE  /\ UDFSector(in, 256) = [tag |-> "anchor", first |-> 20, length |-> 3 * SectorCells]
           /\ UDFSector(in, 20) = [tag |-> "primary"]
           /\ UDFSector(in, 21) =
                 [tag |-> "logical", plainBlocks |-> TRUE, maps |-> PartitionMaps,
                  fileSet |-> [partition |-> Used(in), lba |-> 302 - Origin(in),
                               length |-> SectorCells]]
           /\ UDFSector(in, 22) = [tag |-> "partition", number |-> 0, first |-> 300,
                                   count |-> DirectorySize(in) + 8]
           /\ UDFSector(in, 300) =
                 [tag |-> "file",
                  extents |-> <<[position |-> 2, length |-> SectorCells * (DirectorySize(in) + 8)]>>]
           /\ UDFSector(in, 302) =
                 [tag |-> "fileset",
                  root |-> [partition |-> Used(in), lba |-> 303 - Origin(in), length |-> in.icb]]
           /\ UDFSector(in, 303).tag = "file"
           /\ ~in.split => UDFSector(in, 303) =
                 [tag |-> "file",
                  extents |-> <<[position |-> 304 - Origin(in), length |-> DirectorySize(in)]>>]
<1>1. UDFSector(in, 256) = [tag |-> "anchor", first |-> 20, length |-> 3 * SectorCells]
  BY DEF UDFSector
<1>2. UDFSector(in, 20) = [tag |-> "primary"]
  BY DEF UDFSector
<1>3. UDFSector(in, 21) =
         [tag |-> "logical", plainBlocks |-> TRUE, maps |-> PartitionMaps,
          fileSet |-> [partition |-> Used(in), lba |-> 302 - Origin(in), length |-> SectorCells]]
  BY DEF UDFSector, Used, Origin
<1>4. UDFSector(in, 22) = [tag |-> "partition", number |-> 0, first |-> 300,
                          count |-> DirectorySize(in) + 8]
  BY DEF UDFSector
<1>5. UDFSector(in, 300) =
         [tag |-> "file",
          extents |-> <<[position |-> 2, length |-> SectorCells * (DirectorySize(in) + 8)]>>]
  BY DEF UDFSector
<1>6. UDFSector(in, 302) =
         [tag |-> "fileset",
          root |-> [partition |-> Used(in), lba |-> 303 - Origin(in), length |-> in.icb]]
  BY DEF UDFSector, Used, Origin
<1>7. UDFSector(in, 303).tag = "file"
  BY DEF UDFSector
<1>8. ~in.split => UDFSector(in, 303) =
         [tag |-> "file",
          extents |-> <<[position |-> 304 - Origin(in), length |-> DirectorySize(in)]>>]
  BY DEF UDFSector, Origin
<1>9. QED
  BY <1>1, <1>2, <1>3, <1>4, <1>5, <1>6, <1>7, <1>8

(* The cells of a sector of the directory. *)
CellsIn(in, s) == [n \in 1 .. SectorCells |-> Cell(in.entries, (s - 304) * SectorCells + n)]

LEMMA DirectorySectorIs ==
    ASSUME NEW in, NEW s, s \notin {256, 20, 21, 22, 300, 302, 303}
    PROVE  UDFSector(in, s) = [tag |-> "directory", cells |-> CellsIn(in, s)]
BY DEF UDFSector, CellsIn

LEMMA SectorOfDisc ==
    ASSUME NEW in, NEW s \in DOMAIN DiscOf(in).sectors
    PROVE  DiscOf(in).sectors[s] =
              IF s = in.damaged THEN [tag |-> "damaged"] ELSE UDFSector(in, s)
BY DEF DiscOf

LEMMA TaggedSector ==
    ASSUME NEW in, NEW s \in DOMAIN DiscOf(in).sectors
    PROVE  /\ DiscOf(in).sectors[s].tag = "fileset" =>
                 DiscOf(in).sectors[s].root.length = in.icb
           /\ DiscOf(in).sectors[s].tag = "directory" =>
                 DiscOf(in).sectors[s].cells =
                    CellsIn(in, s)
<1> DEFINE is == DiscOf(in).sectors[s]
<1> SUFFICES /\ is.tag = "fileset" => is.root.length = in.icb
             /\ is.tag = "directory" =>
                   is.cells = CellsIn(in, s)
  OBVIOUS
<1>1. is = IF s = in.damaged THEN [tag |-> "damaged"] ELSE UDFSector(in, s)
  BY SectorOfDisc
<1> HIDE DEF is
<1>2. CASE s = in.damaged
  <2>1. is = [tag |-> "damaged"]
    BY <1>1, <1>2
  <2>2. is.tag = "damaged"
    BY <2>1
  <2>3. QED
    BY <2>2
<1>3. CASE s # in.damaged /\ s \in {256, 20, 21, 22, 300, 302, 303}
  <2>1. is = UDFSector(in, s)
    BY <1>1, <1>3
  <2>2. \/ is.tag = "fileset" /\ is.root.length = in.icb
        \/ is.tag \in {"anchor", "primary", "logical", "partition", "file"}
    <3>1. CASE s = 302
      <4>1. UDFSector(in, s).tag = "fileset" /\ UDFSector(in, s).root.length = in.icb
        BY <3>1 DEF UDFSector
      <4>2. QED
        BY <2>1, <4>1
    <3>2. CASE s \in {256, 20, 21, 22, 300, 303}
      <4>1. UDFSector(in, s).tag \in {"anchor", "primary", "logical", "partition", "file"}
        BY <3>2 DEF UDFSector
      <4>2. QED
        BY <2>1, <4>1
    <3>3. QED
      BY <1>3, <3>1, <3>2
  <2>3. QED
    BY <2>2
<1>4. CASE s # in.damaged /\ s \notin {256, 20, 21, 22, 300, 302, 303}
  <2>1. is = [tag |-> "directory",
              cells |-> CellsIn(in, s)]
    BY <1>1, <1>4, DirectorySectorIs
  <2>2. QED
    BY <2>1
<1>5. QED
  BY <1>2, <1>3, <1>4

LEMMA DiscIsRight ==
    ASSUME NEW in, Video(in)
    PROVE  Readings(DiscOf(in))
<1> DEFINE disc == DiscOf(in)
<1>1. ASSUME NEW s \in DOMAIN disc.sectors
      PROVE  /\ disc.sectors[s].tag = "fileset" => disc.sectors[s].root.length \in Nat
             /\ disc.sectors[s].tag = "directory" =>
                   \A n \in 1 .. SectorCells : disc.sectors[s].cells[n].cells \in Nat
  <2>1. in.icb \in Nat /\ in.entries \in Seq(Entry)
    BY DEF Video
  <2>2. \A n \in 1 .. SectorCells : CellsIn(in, s)[n].cells \in Nat
    BY <2>1, CellType DEF CellsIn
  <2> HIDE DEF disc
  <2>3. /\ disc.sectors[s].tag = "fileset" => disc.sectors[s].root.length = in.icb
        /\ disc.sectors[s].tag = "directory" =>
              disc.sectors[s].cells =
                 CellsIn(in, s)
    BY TaggedSector DEF disc
  <2>4. QED
    BY <2>1, <2>2, <2>3
<1>2. Anchors(disc)
  <2> DEFINE anchor == UDF!Descriptor(disc, 256)
  <2>1. CASE UDF!Readable(disc, 256) /\ disc.sectors[256].tag # "damaged"
    <3>1. 256 \in DOMAIN disc.sectors /\ anchor = disc.sectors[256]
      BY <2>1 DEF UDF!Descriptor, UDF!Readable
    <3>2. disc.sectors[256] = IF 256 = in.damaged THEN [tag |-> "damaged"] ELSE UDFSector(in, 256)
      BY <3>1, SectorOfDisc
    <3>3. disc.sectors[256] = UDFSector(in, 256)
      BY <2>1, <3>2
    <3>4. UDFSector(in, 256).length = 3 * SectorCells
      BY DEF UDFSector
    <3>5. anchor.length = 3 * SectorCells
      BY <3>1, <3>3, <3>4
    <3>6. QED
      BY <3>5, SectorCellsAssumption DEF Anchors, UDF!AnchorLocation
  <2>2. CASE ~(UDF!Readable(disc, 256) /\ disc.sectors[256].tag # "damaged")
    <3>1. anchor = [tag |-> "none"]
      BY <2>2 DEF UDF!Descriptor
    <3>2. QED
      BY <3>1 DEF Anchors, UDF!AnchorLocation
  <2>3. QED
    BY <2>1, <2>2
<1> HIDE DEF disc
<1>3. Readings(disc)
  BY <1>1, <1>2 DEF Readings, Directories
<1>4. QED
  BY <1>3 DEF disc

Named(in, name) == \E i \in DOMAIN in.entries : IsNamed(in.entries[i], name)

(* A directory that is not there is not found, whatever is damaged. *)
LEMMA FoundIsNamed ==
    ASSUME NEW in, Video(in), NEW name \in {BDMV, VIDEO_TS},
           UDF!AnalyzeUDFImage(DiscOf(in), name).found
    PROVE  Named(in, name)
<1> DEFINE disc == DiscOf(in)
<1>1. Readings(disc)
  BY DiscIsRight
<1>2. UDF!AnalyzeUDFImage(disc, name).found
  OBVIOUS
<1>3. \A s \in DOMAIN disc.sectors : disc.sectors[s].tag = "directory" =>
         disc.sectors[s].cells =
            CellsIn(in, s)
  BY TaggedSector
<1> HIDE DEF disc
<1>4. PICK s \in DOMAIN disc.sectors, n \in 1 .. SectorCells :
        /\ disc.sectors[s].tag = "directory"
        /\ UDF!SameName(UDF!Uncompress(disc.sectors[s].cells[n].name), name)
  BY <1>1, <1>2, FoundIsThere
<1> DEFINE c == (s - 304) * SectorCells + n
           cell == Cell(in.entries, c)
<1>5. disc.sectors[s].cells[n] = cell
  <2>1. disc.sectors[s].cells = CellsIn(in, s)
    BY <1>3, <1>4
  <2>2. CellsIn(in, s)[n] = cell
    BY DEF CellsIn
  <2>3. QED
    BY <2>1, <2>2
<1> HIDE DEF c
<1>6. in.entries \in Seq(Entry)
  BY DEF Video
<1>7. cell # ZeroCell
  BY <1>4, <1>5, ZeroHasNoName
<1>8. PICK i \in DOMAIN in.entries :
        cell = [cells |-> in.entries[i].cells, name |-> Encoded(in.entries[i]),
                icb |-> [partition |-> 0, lba |-> 9, length |-> SectorCells]]
  BY <1>6, <1>7, CellIs
<1> HIDE DEF cell
<1>9. cell.name = Encoded(in.entries[i]) /\ in.entries[i] \in Entry
  BY <1>6, <1>8
<1>10. IsNamed(in.entries[i], name)
  BY <1>4, <1>5, <1>9, NamesAgree
<1>11. QED
  BY <1>10 DEF Named

--------------------------------------------------------------------------------
(* The entries of a directory, one after the other. *)

(* An entry takes one cell or more. *)
LEMMA CellsGrow ==
    ASSUME NEW entries \in Seq(Entry), NEW i \in 1 .. Len(entries) + 1, NEW j \in i .. Len(entries) + 1
    PROVE  CellsBefore(entries, i) + (j - i) <= CellsBefore(entries, j)
<1> DEFINE n == Len(entries)
           B(k) == CellsBefore(entries, k)
           Good == {k \in 0 .. n + 1 - i : B(i) + k <= B(i + k)}
<1>1. n \in Nat /\ \A k \in 1 .. n : entries[k].cells \in Nat \ {0}
  BY DEF Entry
<1>2. /\ \A k \in 1 .. n + 1 : B(k) \in Nat
      /\ \A k \in 1 .. n : B(k + 1) = B(k) + entries[k].cells
  BY CellsBeforeFacts
<1> HIDE DEF B, n
<1>3. i \in 1 .. n + 1 /\ j \in i .. n + 1
  BY DEF n
<1>4. 0 \in Good
  <2>1. 0 \in 0 .. n + 1 - i /\ i + 0 = i
    BY <1>1, <1>3
  <2>2. QED
    BY <1>2, <1>3, <2>1
<1>5. ASSUME NEW k \in 0 .. (n + 1 - i) - 1, k \in Good
      PROVE  k + 1 \in Good
  <2>1. i + k \in 1 .. n /\ i + (k + 1) = (i + k) + 1 /\ (i + k) + 1 \in 1 .. n + 1
    BY <1>1, <1>3
  <2> DEFINE m == i + k
  <2>2. m \in 1 .. n /\ m \in 1 .. n + 1 /\ B(i) + k <= B(m)
    BY <1>1, <1>5, <2>1
  <2> HIDE DEF m
  <2>3. /\ B(m + 1) = B(m) + entries[m].cells /\ entries[m].cells \in Nat \ {0}
        /\ B(i) \in Nat /\ B(m) \in Nat /\ k \in Nat
    BY <1>1, <1>2, <1>3, <2>2
  <2>4. B(i) + (k + 1) <= B(m + 1)
    BY <2>2, <2>3, SMTT(20)
  <2>5. k + 1 \in 0 .. n + 1 - i /\ B(i) + (k + 1) <= B(i + (k + 1))
    BY <1>1, <1>3, <2>1, <2>4 DEF m
  <2>6. QED
    BY <2>5
<1>6. n + 1 - i \in Nat
  BY <1>1, <1>3
<1> HIDE DEF Good
<1>7. \A k \in 0 .. n + 1 - i : k \in Good
  BY <1>4, <1>5, <1>6, UpTo
<1>8. j - i \in 0 .. n + 1 - i /\ i + (j - i) = j
  BY <1>1, <1>3
<1>9. B(i) + (j - i) <= B(j)
  BY <1>7, <1>8 DEF Good
<1>10. QED
  BY <1>9 DEF B

(* The first cell of an entry. *)
LEMMA FirstCellIs ==
    ASSUME NEW entries \in Seq(Entry), NEW i \in 1 .. Len(entries)
    PROVE  Cell(entries, CellsBefore(entries, i) + 1) =
              [cells |-> entries[i].cells, name |-> Encoded(entries[i]),
               icb |-> [partition |-> 0, lba |-> 9, length |-> SectorCells]]
<1> DEFINE c == CellsBefore(entries, i) + 1
           begun == {k \in DOMAIN entries : CellsBefore(entries, k) + 1 = c}
<1>1. DOMAIN entries = 1 .. Len(entries) /\ Len(entries) \in Nat
  OBVIOUS
<1>2. ASSUME NEW k \in 1 .. Len(entries), CellsBefore(entries, k) = CellsBefore(entries, i)
      PROVE  k = i
  <2>1. CellsBefore(entries, k) \in Nat
    BY CellsBeforeFacts
  <2>2. CASE k < i
    <3>1. k \in 1 .. Len(entries) + 1 /\ i \in k .. Len(entries) + 1
      BY <1>1, <2>2
    <3>2. CellsBefore(entries, k) + (i - k) <= CellsBefore(entries, i)
      BY <3>1, CellsGrow
    <3>3. QED
      BY <1>1, <1>2, <2>1, <2>2, <3>2
  <2>3. CASE i < k
    <3>1. i \in 1 .. Len(entries) + 1 /\ k \in i .. Len(entries) + 1
      BY <1>1, <2>3
    <3>2. CellsBefore(entries, i) + (k - i) <= CellsBefore(entries, k)
      BY <3>1, CellsGrow
    <3>3. QED
      BY <1>1, <1>2, <2>1, <2>3, <3>2
  <2>4. QED
    BY <1>1, <2>2, <2>3
<1>3. \A k \in 1 .. Len(entries) : CellsBefore(entries, k) \in Nat
  BY <1>1, CellsBeforeFacts
<1>4. begun = {i}
  BY <1>1, <1>2, <1>3
<1>5. Cell(entries, c) =
        IF begun = {} THEN ZeroCell
        ELSE [cells |-> entries[CHOOSE k \in begun : TRUE].cells,
              name |-> Encoded(entries[CHOOSE k \in begun : TRUE]),
              icb |-> [partition |-> 0, lba |-> 9, length |-> SectorCells]]
  BY DEF Cell
<1> HIDE DEF c, begun
<1>6. (CHOOSE k \in begun : TRUE) = i /\ begun # {}
  BY <1>4
<1>7. Cell(entries, c) = [cells |-> entries[i].cells, name |-> Encoded(entries[i]),
                          icb |-> [partition |-> 0, lba |-> 9, length |-> SectorCells]]
  BY <1>5, <1>6
<1>8. QED
  BY <1>7 DEF c

(* The cells begin with those of the directory. *)
HasEntries(cells, in) ==
    /\ Cells(cells) /\ DirectorySize(in) <= Len(cells)
    /\ \A i \in 1 .. DirectorySize(in) : cells[i] = Cell(in.entries, i)

(* Each entry of the directory is one that the loop looks at when it gets there. *)
LEMMA EntryIsThere ==
    ASSUME NEW in, Video(in), NEW cells, HasEntries(cells, in), NEW size \in Nat,
           DirectorySize(in) <= size, NEW name \in {BDMV, VIDEO_TS},
           NEW i \in 1 .. Len(in.entries)
    PROVE  LET c == CellsBefore(in.entries, i) + 1 IN
           /\ EntryAt(cells, size, c)
           /\ TakenAt(cells, size, name, c) <=> IsNamed(in.entries[i], name)
           /\ cells[c] = [cells |-> in.entries[i].cells, name |-> Encoded(in.entries[i]),
                          icb |-> [partition |-> 0, lba |-> 9, length |-> SectorCells]]
<1> DEFINE e == in.entries
           c == CellsBefore(e, i) + 1
           n == e[i].cells
           total == DirectorySize(in)
<1>1. e \in Seq(Entry) /\ Len(e) \in Nat /\ e[i] \in Entry /\ n \in Nat \ {0}
  BY DEF Video, Entry
<1>2. /\ CellsBefore(e, i) \in Nat /\ CellsBefore(e, i + 1) = CellsBefore(e, i) + n
      /\ total \in Nat
  <2>1. i \in 1 .. Len(e) + 1 /\ Len(e) + 1 \in 1 .. Len(e) + 1
    BY <1>1
  <2>2. QED
    BY <1>1, <2>1, CellsBeforeFacts DEF DirectorySize
<1>3. CellsBefore(e, i + 1) <= total
  <2>1. i + 1 \in 1 .. Len(e) + 1 /\ Len(e) + 1 \in i + 1 .. Len(e) + 1
    BY <1>1
  <2>2. CellsBefore(e, i + 1) + ((Len(e) + 1) - (i + 1)) <= total
    BY <1>1, <2>1, CellsGrow DEF DirectorySize
  <2>3. QED
    BY <1>1, <1>2, <2>2
<1>4. Cell(e, c) = [cells |-> n, name |-> Encoded(e[i]),
                    icb |-> [partition |-> 0, lba |-> 9, length |-> SectorCells]]
  BY <1>1, FirstCellIs
<1> HIDE DEF e, n, total
<1>5. c \in 1 .. total /\ c + n - 1 <= total
  BY <1>1, <1>2, <1>3
<1>6. total <= Len(cells) /\ Len(cells) \in Nat /\ total <= size /\ total \in Nat
  BY <1>2 DEF HasEntries, Cells, total
<1>7. ASSUME NEW j \in 1 .. total
      PROVE  cells[j] = Cell(e, j) /\ cells[j].cells > 0
  <2>1. cells[j] = Cell(e, j)
    BY DEF HasEntries, total, e
  <2>2. Cell(e, j).cells \in Nat \ {0}
    BY <1>1, CellType
  <2>3. QED
    BY <2>1, <2>2
<1>8. cells[c] = [cells |-> n, name |-> Encoded(e[i]),
                  icb |-> [partition |-> 0, lba |-> 9, length |-> SectorCells]]
  BY <1>4, <1>5, <1>7
<1> HIDE DEF c
<1>9. cells[c].cells = n /\ cells[c].name = Encoded(e[i])
  BY <1>8
<1>10. EntryAt(cells, size, c)
  <2>1. c <= size /\ c <= Len(cells) /\ c + n - 1 <= Len(cells)
    BY <1>1, <1>5, <1>6
  <2>2. ASSUME NEW j \in c .. c + n - 1
        PROVE  cells[j].cells > 0
    <3>1. j \in 1 .. total
      BY <1>1, <1>5, <1>6
    <3>2. QED
      BY <1>7, <3>1
  <2>3. UDF!Intact(cells, c)
    BY <1>5, <1>7, <1>9, <2>1, <2>2 DEF UDF!Intact
  <2>4. QED
    BY <2>1, <2>3 DEF EntryAt
<1>11. TakenAt(cells, size, name, c) <=> IsNamed(e[i], name)
  BY <1>1, <1>9, <1>10, NamesAgree DEF TakenAt
<1>12. QED
  BY <1>8, <1>10, <1>11 DEF c, e, n

(* What the rounds of the loop look at. *)
GoesOn(at, cells, size, name) ==
    /\ at[0] = 1
    /\ \A n \in 0 .. size - 1 : at[n + 1] = After(cells, size, name, at[n])

LEMMA RoundsAre ==
    ASSUME NEW at, NEW cells, NEW size \in Nat, NEW name, SearchRounds(at, cells, size, name)
    PROVE  GoesOn(at, cells, size, name)
<1>1. at[0] = 1
  BY DEF SearchRounds
<1>2. ASSUME NEW n \in 0 .. size - 1
      PROVE  at[n + 1] = After(cells, size, name, at[n])
  <2>1. n + 1 \in 0 .. size /\ n + 1 # 0 /\ (n + 1) - 1 = n
    OBVIOUS
  <2>2. QED
    BY <2>1 DEF SearchRounds
<1>3. QED
  BY <1>1, <1>2 DEF GoesOn

(* FindFileInDirectory: of a directory that is not longer than its control block    *)
(* says, the first entry with the name is found.                                    *)
LEMMA NamedIsFound ==
    ASSUME NEW in, Video(in), NEW cells, HasEntries(cells, in),
           NEW volume, volume.root.size \in Nat, DirectorySize(in) <= volume.root.size,
           Len(volume.partitions) \in Nat \ {0},
           NEW name \in {BDMV, VIDEO_TS}, Named(in, name)
    PROVE  UDF!Search(cells, volume, name).valid
<1> DEFINE e == in.entries
           B(i) == CellsBefore(e, i)
           size == volume.root.size
           named == {i \in 1 .. Len(e) : IsNamed(e[i], name)}
<1>1. e \in Seq(Entry) /\ Len(e) \in Nat /\ DOMAIN e = 1 .. Len(e)
  BY DEF Video
<1>2. PICK k \in named : \A i \in named : k <= i
  <2>1. named \in SUBSET Nat /\ named # {}
    BY <1>1 DEF Named
  <2> HIDE DEF named
  <2>2. QED
    BY <2>1, LeastNumber
<1>3. /\ k \in 1 .. Len(e) /\ IsNamed(e[k], name)
      /\ \A i \in 1 .. Len(e) : i < k => ~IsNamed(e[i], name)
  BY <1>1, <1>2
<1>4. /\ B(1) = 0
      /\ \A i \in 1 .. Len(e) : B(i) \in Nat /\ B(i + 1) = B(i) + e[i].cells /\ e[i].cells \in Nat
  <2>1. \A i \in 1 .. Len(e) : i \in 1 .. Len(e) + 1 /\ e[i].cells \in Nat
    <3>1. \A one \in Entry : one.cells \in Nat
      BY DEF Entry
    <3>2. \A i \in 1 .. Len(e) : i \in 1 .. Len(e) + 1 /\ e[i] \in Entry
      BY <1>1
    <3> HIDE DEF e
    <3>3. QED
      BY <3>1, <3>2
  <2>2. QED
    BY <1>1, <2>1, CellsBeforeFacts
<1>5. PICK at \in [0 .. size -> Nat \ {0}] :
        /\ SearchRounds(at, cells, size, name)
        /\ UDF!Search(cells, volume, name) =
              IF TakenAt(cells, size, name, at[size])
              THEN UDF!DataBlock(volume.partitions, cells[at[size]].icb) ELSE UDF!NoBlock
  <2>1. Cells(cells)
    BY DEF HasEntries
  <2>2. QED
    BY <2>1, SearchFacts
<1> HIDE DEF size
<1>6. size \in Nat /\ DirectorySize(in) <= size
  BY DEF size
<1>7. /\ at[0] = 1
      /\ \A n \in 0 .. size - 1 : at[n + 1] = After(cells, size, name, at[n])
  <2>1. SearchRounds(at, cells, size, name) /\ size \in Nat
    BY <1>5, <1>6
  <2>2. GoesOn(at, cells, size, name)
    BY <2>1, RoundsAre
  <2>3. QED
    BY <2>2 DEF GoesOn
<1>8. ASSUME NEW i \in 1 .. Len(e)
      PROVE  /\ EntryAt(cells, size, B(i) + 1)
             /\ TakenAt(cells, size, name, B(i) + 1) <=> IsNamed(e[i], name)
             /\ cells[B(i) + 1] = [cells |-> e[i].cells, name |-> Encoded(e[i]),
                                   icb |-> [partition |-> 0, lba |-> 9, length |-> SectorCells]]
  BY <1>6, EntryIsThere
<1>9. B(k) <= size /\ k - 1 <= B(k)
  <2>1. EntryAt(cells, size, B(k) + 1)
    BY <1>3, <1>8
  <2>2. 1 \in 1 .. Len(e) + 1 /\ k \in 1 .. Len(e) + 1
    BY <1>1, <1>3
  <2>3. B(1) + (k - 1) <= B(k)
    BY <1>1, <2>2, CellsGrow
  <2>4. B(k) \in Nat
    BY <1>3, <1>4
  <2>5. QED
    BY <1>3, <1>4, <1>6, <2>1, <2>3, <2>4 DEF EntryAt
<1> HIDE DEF B, e
<1> DEFINE Good == {n \in 0 .. k - 1 : at[n] = B(n + 1) + 1}
<1>10. 0 \in Good
  <2>1. 0 \in 0 .. k - 1 /\ 0 + 1 = 1
    BY <1>1, <1>3
  <2>2. QED
    BY <1>4, <1>7, <2>1
<1>11. ASSUME NEW n \in 0 .. (k - 1) - 1, n \in Good
       PROVE  n + 1 \in Good
  <2> DEFINE i == n + 1
             c == B(i) + 1
  <2>1. i \in 1 .. Len(e) /\ i < k /\ i \in 0 .. k - 1 /\ n \in 0 .. size - 1
    BY <1>1, <1>3, <1>4, <1>6, <1>9
  <2> HIDE DEF i
  <2>2. at[n] = c
    BY <1>11 DEF i
  <2>3. cells[c] = [cells |-> e[i].cells, name |-> Encoded(e[i]),
                    icb |-> [partition |-> 0, lba |-> 9, length |-> SectorCells]]
    BY <1>8, <2>1
  <2>4. EntryAt(cells, size, c) /\ ~TakenAt(cells, size, name, c)
    BY <1>3, <1>8, <2>1
  <2> HIDE DEF c
  <2>5. at[n + 1] = c + e[i].cells
    <3>1. cells[c].cells = e[i].cells
      BY <2>3
    <3>2. QED
      BY <1>7, <2>1, <2>2, <2>4, <3>1 DEF After
  <2>6. B(i) \in Nat /\ B(i + 1) = B(i) + e[i].cells /\ e[i].cells \in Nat
    BY <1>4, <2>1
  <2>7. at[n + 1] = B(i + 1) + 1
    BY <2>5, <2>6 DEF c
  <2>8. QED
    BY <2>1, <2>7 DEF i
<1>12. at[k - 1] = B(k) + 1
  <2> HIDE DEF Good
  <2>1. k - 1 \in Nat /\ (k - 1) + 1 = k
    BY <1>1, <1>3
  <2>2. \A n \in 0 .. k - 1 : n \in Good
    BY <1>10, <1>11, <2>1, UpTo
  <2>3. k - 1 \in Good
    BY <2>1, <2>2
  <2>4. at[k - 1] = B((k - 1) + 1) + 1
    BY <2>3 DEF Good
  <2>5. QED
    BY <2>1, <2>4
<1> HIDE DEF Good
<1> DEFINE c == B(k) + 1
           Stays == {n \in 0 .. size - (k - 1) : at[(k - 1) + n] = c}
<1>13. /\ EntryAt(cells, size, c) /\ TakenAt(cells, size, name, c)
       /\ cells[c] = [cells |-> e[k].cells, name |-> Encoded(e[k]),
                      icb |-> [partition |-> 0, lba |-> 9, length |-> SectorCells]]
  BY <1>3, <1>8
<1> HIDE DEF c
<1>14. k - 1 \in Nat /\ size - (k - 1) \in Nat
  BY <1>1, <1>3, <1>4, <1>6, <1>9
<1>15. 0 \in Stays
  <2>1. 0 \in 0 .. size - (k - 1) /\ (k - 1) + 0 = k - 1
    BY <1>14
  <2>2. at[(k - 1) + 0] = c
    BY <1>12, <2>1 DEF c
  <2>3. QED
    BY <2>1, <2>2
<1>16. ASSUME NEW n \in 0 .. (size - (k - 1)) - 1, n \in Stays
       PROVE  n + 1 \in Stays
  <2> DEFINE m == (k - 1) + n
  <2>1. m \in 0 .. size - 1 /\ (k - 1) + (n + 1) = m + 1 /\ n + 1 \in 0 .. size - (k - 1)
    BY <1>6, <1>14
  <2>2. at[m] = c
    BY <1>16
  <2> HIDE DEF m
  <2>3. at[m + 1] = c
    BY <1>7, <1>13, <2>1, <2>2 DEF After
  <2>4. at[(k - 1) + (n + 1)] = c
    BY <2>1, <2>3
  <2>5. QED
    BY <2>1, <2>4
<1>17. at[size] = c
  <2> HIDE DEF Stays
  <2>1. \A n \in 0 .. size - (k - 1) : n \in Stays
    BY <1>14, <1>15, <1>16, UpTo
  <2>2. size - (k - 1) \in 0 .. size - (k - 1) /\ (k - 1) + (size - (k - 1)) = size
    BY <1>6, <1>14
  <2>3. at[(k - 1) + (size - (k - 1))] = c
    BY <2>1, <2>2 DEF Stays
  <2>4. QED
    BY <2>2, <2>3
<1>18. UDF!Search(cells, volume, name) = UDF!DataBlock(volume.partitions, cells[c].icb)
  BY <1>5, <1>13, <1>17
<1>19. UDF!DataBlock(volume.partitions, cells[c].icb).valid
  <2>1. cells[c].icb.partition = 0
    BY <1>13
  <2>2. QED
    BY <2>1 DEF UDF!DataBlock, UDF!Block
<1>20. QED
  BY <1>18, <1>19

--------------------------------------------------------------------------------
(* Sectors through partitions and files. *)

ExtentEnds(end, extents) ==
    end = [n \in 0 .. Len(extents) |-> IF n = 0 THEN 0 ELSE end[n - 1] + UDF!ExtentCount(extents[n])]

(* A file in one extent. *)
LEMMA OneExtent ==
    ASSUME NEW extent, extent.length \in Nat, extent.position \in Nat, NEW sector \in Nat
    PROVE  UDF!InFile(<<extent>>, sector) =
              IF sector < extent.length THEN extent.position + sector ELSE UDF!InvalidSector
<1> DEFINE extents == <<extent>>
           count == extent.length
           end == CHOOSE f : ExtentEnds(f, extents)
           ends == [n \in 0 .. 1 |-> IF n = 0 THEN 0 ELSE count]
<1>1. Len(extents) = 1 /\ extents[1] = extent /\ DOMAIN extents = {1}
  OBVIOUS
<1> HIDE DEF extents, count
<1>2. UDF!ExtentCount(extents[1]) = count /\ count \in Nat
  BY <1>1 DEF UDF!ExtentCount, count
<1>3. ExtentEnds(ends, extents)
  <2>1. ASSUME NEW n \in 0 .. 1
        PROVE  ends[n] = IF n = 0 THEN 0 ELSE ends[n - 1] + UDF!ExtentCount(extents[n])
    <3>1. CASE n = 0
      BY <3>1
    <3>2. CASE n = 1
      <4>1. ends[1] = count /\ ends[1 - 1] = 0
        OBVIOUS
      <4>2. QED
        BY <1>2, <3>2, <4>1
    <3>3. QED
      BY <3>1, <3>2
  <2>2. ends = [n \in 0 .. 1 |-> ends[n]]
    OBVIOUS
  <2>3. ends = [n \in 0 .. 1 |-> IF n = 0 THEN 0 ELSE ends[n - 1] + UDF!ExtentCount(extents[n])]
    BY <2>1, <2>2
  <2>4. QED
    BY <1>1, <2>3 DEF ExtentEnds
<1>4. ExtentEnds(end, extents)
  BY <1>3
<1>5. UDF!End(extents) = end
  BY DEF UDF!End, ExtentEnds
<1> HIDE DEF end
<1>6. end[0] = 0 /\ end[1] = count
  <2>1. end = [n \in 0 .. 1 |-> IF n = 0 THEN 0 ELSE end[n - 1] + UDF!ExtentCount(extents[n])]
    BY <1>1, <1>4 DEF ExtentEnds
  <2>2. end[0] = 0
    BY <2>1
  <2>3. end[1] = end[1 - 1] + UDF!ExtentCount(extents[1])
    BY <2>1
  <2>4. QED
    BY <1>2, <2>2, <2>3
<1>7. UDF!Total(extents) = count /\ UDF!Key(extents, 1) = 0
  BY <1>1, <1>5, <1>6 DEF UDF!Total, UDF!Key
<1>8. UDF!ExtentFor(extents, sector) = 1
  <2> DEFINE after == {i \in DOMAIN extents : UDF!Key(extents, i) >= sector}
             same == {i \in after : UDF!Key(extents, i) = UDF!Key(extents, Min(after))}
  <2>1. UDF!ExtentFor(extents, sector) = IF after = {} THEN Len(extents) ELSE Max(same)
    BY DEF UDF!ExtentFor, UDF!Max, UDF!Min, Max, Min
  <2>2. after = {} \/ after = {1}
    BY <1>1
  <2>3. CASE after = {1}
    <3>1. Min({1}) = 1 /\ Max({1}) = 1
      BY DEF Min, Max
    <3>2. same = {1}
      BY <2>3, <3>1
    <3>3. QED
      BY <2>1, <2>3, <3>1, <3>2
  <2>4. QED
    BY <1>1, <2>1, <2>2, <2>3
<1>9. UDF!InFile(extents, sector) =
         IF sector \in 0 .. count - 1 THEN extent.position + (sector - 0) ELSE UDF!InvalidSector
  BY <1>1, <1>7, <1>8 DEF UDF!InFile
<1>10. UDF!InFile(extents, sector) =
         IF sector < count THEN extent.position + sector ELSE UDF!InvalidSector
  BY <1>2, <1>9
<1>11. QED
  BY <1>10 DEF extents, count

(* The sector of a file in a partition, after each of the files. *)
Through(at, files, sector) ==
    at = [n \in 0 .. Len(files) |-> IF n = 0 THEN sector ELSE UDF!InFile(files[n], at[n - 1])]

LEMMA MappedThrough ==
    ASSUME NEW partition, NEW sector, NEW at, Through(at, partition.files, sector),
           Len(partition.files) \in 0 .. 2
    PROVE  UDF!MapSector(partition, sector) =
              IF at[Len(partition.files)] \in 0 .. partition.count - 1
              THEN partition.first + at[Len(partition.files)] ELSE UDF!InvalidSector
<1> DEFINE files == partition.files
           n == Len(files)
           f == CHOOSE g : Through(g, files, sector)
<1>1. Through(f, files, sector)
  OBVIOUS
<1>2. UDF!MapSector(partition, sector) =
         IF f[n] \in 0 .. partition.count - 1 THEN partition.first + f[n] ELSE UDF!InvalidSector
  BY DEF UDF!MapSector, Through
<1> HIDE DEF f, n
<1>3. n \in 0 .. 2 /\ n \in Nat
  BY DEF n
<1>4. f = [i \in 0 .. n |-> IF i = 0 THEN sector ELSE UDF!InFile(files[i], f[i - 1])]
  BY <1>1 DEF Through, n
<1>5. at = [i \in 0 .. n |-> IF i = 0 THEN sector ELSE UDF!InFile(files[i], at[i - 1])]
  BY DEF Through, n
<1> DEFINE Good == {i \in 0 .. n : f[i] = at[i]}
<1>6. 0 \in Good
  <2>1. 0 \in 0 .. n
    BY <1>3
  <2>2. QED
    BY <1>4, <1>5, <2>1
<1>7. ASSUME NEW i \in 0 .. n - 1, i \in Good
      PROVE  i + 1 \in Good
  <2>1. i + 1 \in 0 .. n /\ i + 1 # 0 /\ (i + 1) - 1 = i
    BY <1>3
  <2>2. f[i + 1] = UDF!InFile(files[i + 1], f[i]) /\ at[i + 1] = UDF!InFile(files[i + 1], at[i])
    BY <1>4, <1>5, <2>1
  <2>3. QED
    BY <1>7, <2>1, <2>2
<1>8. f[n] = at[n]
  <2> HIDE DEF Good
  <2>1. \A i \in 0 .. n : i \in Good
    BY <1>3, <1>6, <1>7, UpTo
  <2>2. QED
    BY <1>3, <2>1 DEF Good
<1>9. QED
  BY <1>2, <1>8 DEF n

LEMMA MappedInPartition ==
    ASSUME NEW first \in Nat, NEW count \in Nat, NEW sector \in 0 .. count - 1
    PROVE  UDF!MapSector(UDF!NormalPartition(first, count), sector) = first + sector
<1> DEFINE p == UDF!NormalPartition(first, count)
           at == [n \in 0 .. 0 |-> sector]
<1>1. p.files = <<>> /\ p.count = count /\ p.first = first
  BY DEF UDF!NormalPartition
<1> HIDE DEF p
<1>2. Len(p.files) = 0 /\ Len(p.files) \in 0 .. 2
  BY <1>1
<1>3. Through(at, p.files, sector)
  BY <1>2 DEF Through
<1>4. UDF!MapSector(p, sector) = IF at[0] \in 0 .. count - 1 THEN first + at[0] ELSE UDF!InvalidSector
  BY <1>1, <1>2, <1>3, MappedThrough
<1>5. QED
  BY <1>4 DEF p

LEMMA MappedInFile ==
    ASSUME NEW first \in Nat, NEW count \in Nat, NEW extents, NEW sector,
           UDF!InFile(extents, sector) \in 0 .. count - 1
    PROVE  UDF!MapSector(UDF!FragmentedFile(UDF!NormalPartition(first, count), extents), sector)
              = first + UDF!InFile(extents, sector)
<1> DEFINE p == UDF!FragmentedFile(UDF!NormalPartition(first, count), extents)
           inFile == UDF!InFile(extents, sector)
           at == [n \in 0 .. 1 |-> IF n = 0 THEN sector ELSE inFile]
<1>1. p.files = <<extents>> /\ p.count = count /\ p.first = first
  BY DEF UDF!NormalPartition, UDF!FragmentedFile
<1> HIDE DEF p
<1>2. Len(p.files) = 1 /\ Len(p.files) \in 0 .. 2 /\ p.files[1] = extents
  BY <1>1
<1>3. Through(at, p.files, sector)
  <2>1. ASSUME NEW n \in 0 .. 1
        PROVE  at[n] = IF n = 0 THEN sector ELSE UDF!InFile(p.files[n], at[n - 1])
    <3>1. CASE n = 0
      BY <3>1
    <3>2. CASE n = 1
      <4>1. at[1] = inFile /\ at[1 - 1] = sector
        OBVIOUS
      <4>2. QED
        BY <1>2, <3>2, <4>1
    <3>3. QED
      BY <3>1, <3>2
  <2>2. at = [n \in 0 .. 1 |-> at[n]]
    OBVIOUS
  <2> HIDE DEF at
  <2>3. at = [n \in 0 .. 1 |-> IF n = 0 THEN sector ELSE UDF!InFile(p.files[n], at[n - 1])]
    BY <2>1, <2>2
  <2>4. QED
    BY <1>2, <2>3 DEF Through
<1>4. at[1] = inFile
  OBVIOUS
<1> HIDE DEF at
<1>5. UDF!MapSector(p, sector) = IF at[1] \in 0 .. count - 1 THEN first + at[1] ELSE UDF!InvalidSector
  BY <1>1, <1>2, <1>3, MappedThrough
<1>6. QED
  BY <1>4, <1>5 DEF p

LEMMA TwoInOne ==
    ASSUME NEW a, NEW b
    PROVE  <<a>> \o <<b>> = <<a, b>>
<1> DEFINE s == <<a>>
           t == <<b>>
<1>1. /\ s \in Seq({a, b}) /\ t \in Seq({a, b}) /\ Len(s) = 1 /\ Len(t) = 1
      /\ s[1] = a /\ t[1] = b
  OBVIOUS
<1> HIDE DEF s, t
<1>2. s \o t \in Seq({a, b}) /\ Len(s \o t) = 2 /\ (s \o t)[1] = a /\ (s \o t)[2] = b
  <2>1. /\ s \o t \in Seq({a, b}) /\ Len(s \o t) = Len(s) + Len(t)
        /\ \A k \in 1 .. Len(s) : (s \o t)[k] = s[k]
        /\ \A k \in 1 .. Len(t) : (s \o t)[Len(s) + k] = t[k]
    BY <1>1, Concatenated
  <2>2. 1 \in 1 .. Len(s) /\ 1 \in 1 .. Len(t) /\ Len(s) + 1 = 2
    BY <1>1
  <2>3. QED
    BY <1>1, <2>1, <2>2
<1>3. ASSUME NEW both \in Seq({a, b}), Len(both) = 2, both[1] = a, both[2] = b
      PROVE  both = <<a, b>>
  BY <1>3
<1>4. s \o t = <<a, b>>
  BY <1>2, <1>3
<1>5. QED
  BY <1>4 DEF s, t

LEMMA MappedInFileInFile ==
    ASSUME NEW first \in Nat, NEW count \in Nat, NEW outer, NEW inner, NEW sector,
           UDF!InFile(outer, UDF!InFile(inner, sector)) \in 0 .. count - 1
    PROVE  UDF!MapSector(UDF!FragmentedFile(UDF!FragmentedFile(
                             UDF!NormalPartition(first, count), outer), inner), sector)
              = first + UDF!InFile(outer, UDF!InFile(inner, sector))
<1> DEFINE p == UDF!FragmentedFile(UDF!FragmentedFile(UDF!NormalPartition(first, count), outer), inner)
           middle == UDF!InFile(inner, sector)
           last == UDF!InFile(outer, middle)
           at == [n \in 0 .. 2 |-> IF n = 0 THEN sector ELSE IF n = 1 THEN middle ELSE last]
<1>1. p.files = <<inner, outer>> /\ p.count = count /\ p.first = first
  <2> DEFINE q == UDF!FragmentedFile(UDF!NormalPartition(first, count), outer)
  <2>1. q = [first |-> first, count |-> count, files |-> <<outer>>]
    BY DEF UDF!NormalPartition, UDF!FragmentedFile
  <2> HIDE DEF q
  <2>2. UDF!FragmentedFile(q, inner) =
           [first |-> first, count |-> count, files |-> <<inner>> \o <<outer>>]
    BY <2>1 DEF UDF!FragmentedFile
  <2>3. p = [first |-> first, count |-> count, files |-> <<inner, outer>>]
    BY <2>2, TwoInOne DEF p, q
  <2> HIDE DEF p
  <2>4. QED
    BY <2>3
<1> HIDE DEF p
<1>2. Len(p.files) = 2 /\ Len(p.files) \in 0 .. 2 /\ p.files[1] = inner /\ p.files[2] = outer
  BY <1>1
<1>3. Through(at, p.files, sector)
  <2>1. ASSUME NEW n \in 0 .. 2
        PROVE  at[n] = IF n = 0 THEN sector ELSE UDF!InFile(p.files[n], at[n - 1])
    <3>1. CASE n = 0
      BY <3>1
    <3>2. CASE n = 1
      <4>1. at[1] = middle /\ at[1 - 1] = sector
        OBVIOUS
      <4>2. QED
        BY <1>2, <3>2, <4>1
    <3>3. CASE n = 2
      <4>1. at[2] = last /\ at[2 - 1] = middle
        OBVIOUS
      <4>2. QED
        BY <1>2, <3>3, <4>1
    <3>4. QED
      BY <3>1, <3>2, <3>3
  <2>2. at = [n \in 0 .. 2 |-> at[n]]
    OBVIOUS
  <2> HIDE DEF at
  <2>3. at = [n \in 0 .. 2 |-> IF n = 0 THEN sector ELSE UDF!InFile(p.files[n], at[n - 1])]
    BY <2>1, <2>2
  <2>4. QED
    BY <1>2, <2>3 DEF Through
<1>4. at[2] = last
  OBVIOUS
<1> HIDE DEF at
<1>5. UDF!MapSector(p, sector) = IF at[2] \in 0 .. count - 1 THEN first + at[2] ELSE UDF!InvalidSector
  BY <1>1, <1>2, <1>3, MappedThrough
<1>6. QED
  BY <1>4, <1>5 DEF p

--------------------------------------------------------------------------------
(* An intact disc, read from its anchor to its root directory. *)

Sound(in) == Video(in) /\ in.damaged = 0 /\ ~in.split

Plain(in)    == UDF!NormalPartition(300, DirectorySize(in) + 8)
Metadata(in) == UDF!FragmentedFile(Plain(in),
                    <<[position |-> 2, length |-> SectorCells * (DirectorySize(in) + 8)]>>)
Partition(in)  == IF in.metadata THEN Metadata(in) ELSE Plain(in)
Directory(in) == UDF!FragmentedFile(Partition(in),
                    <<[position |-> 304 - Origin(in), length |-> DirectorySize(in)]>>)

LEMMA SizeType ==
    ASSUME NEW in, Video(in)
    PROVE  /\ DirectorySize(in) \in Nat
           /\ SectorCells * (DirectorySize(in) + 8) \in Nat
           /\ DirectorySize(in) + 8 <= SectorCells * (DirectorySize(in) + 8)
<1> DEFINE size == DirectorySize(in)
           e == in.entries
<1>1. size \in Nat
  <2>1. e \in Seq(Entry) /\ Len(e) + 1 \in 1 .. Len(e) + 1
    BY DEF Video
  <2>2. CellsBefore(e, Len(e) + 1) \in Nat
    BY <2>1, CellsBeforeFacts
  <2>3. QED
    BY <2>2 DEF DirectorySize
<1> HIDE DEF size
<1>2. 1 <= SectorCells /\ 1 \in Int /\ SectorCells \in Int /\ size + 8 \in Nat
  BY <1>1, SectorCellsAssumption
<1>3. SectorCells * (size + 8) \in Int /\ 1 * (size + 8) <= SectorCells * (size + 8)
  BY <1>2, Multiples
<1>4. SectorCells * (size + 8) \in Nat /\ size + 8 <= SectorCells * (size + 8)
  BY <1>2, <1>3
<1>5. QED
  BY <1>1, <1>4 DEF size

(* Each sector of the disc is mapped to itself. *)
LEMMA MappedOnDisc ==
    ASSUME NEW in, Video(in)
    PROVE  /\ UDF!MapSector(Plain(in), 0) = 300
           /\ \A s \in 302 .. DirectorySize(in) + 304 :
                 UDF!MapSector(Partition(in), s - Origin(in)) = s
           /\ \A n \in 0 .. DirectorySize(in) - 1 : UDF!MapSector(Directory(in), n) = 304 + n
<1> DEFINE size == DirectorySize(in)
           long == SectorCells * (size + 8)
           meta == [position |-> 2, length |-> long]
           data == [position |-> 304 - Origin(in), length |-> size]
<1>1. size \in Nat /\ long \in Nat /\ size + 8 <= long
  BY SizeType
<1>2. /\ Plain(in) = UDF!NormalPartition(300, size + 8)
      /\ Metadata(in) = UDF!FragmentedFile(Plain(in), <<meta>>)
      /\ Directory(in) = UDF!FragmentedFile(Partition(in), <<data>>)
  BY DEF Plain, Metadata, Directory
<1> HIDE DEF size, long, meta, data
<1>3. 300 \in Nat /\ size + 8 \in Nat
  BY <1>1
<1>4. \A n \in 0 .. size + 7 : UDF!MapSector(Plain(in), n) = 300 + n
  <2> SUFFICES ASSUME NEW n \in 0 .. size + 7
               PROVE  UDF!MapSector(Plain(in), n) = 300 + n
    OBVIOUS
  <2>1. n \in 0 .. (size + 8) - 1
    BY <1>1
  <2>2. QED
    BY <1>2, <1>3, <2>1, MappedInPartition
<1>5. \A n \in Nat : n < size + 6 => UDF!InFile(<<meta>>, n) = 2 + n
  <2> SUFFICES ASSUME NEW n \in Nat, n < size + 6
               PROVE  UDF!InFile(<<meta>>, n) = 2 + n
    OBVIOUS
  <2>1. meta.position = 2 /\ meta.length = long
    BY DEF meta
  <2>2. UDF!InFile(<<meta>>, n) = IF n < meta.length THEN meta.position + n ELSE UDF!InvalidSector
    <3>1. meta.length \in Nat /\ meta.position \in Nat
      BY <1>1, <2>1
    <3>2. QED
      BY <3>1, OneExtent
  <2>3. QED
    BY <1>1, <2>1, <2>2
<1>6. \A n \in 0 .. size - 1 : UDF!InFile(<<data>>, n) = (304 - Origin(in)) + n
  <2> SUFFICES ASSUME NEW n \in 0 .. size - 1
               PROVE  UDF!InFile(<<data>>, n) = (304 - Origin(in)) + n
    OBVIOUS
  <2>1. data.position = 304 - Origin(in) /\ data.length = size
    BY DEF data
  <2>2. 304 - Origin(in) \in Nat
    BY DEF Origin
  <2>3. UDF!InFile(<<data>>, n) = IF n < data.length THEN data.position + n ELSE UDF!InvalidSector
    <3>1. data.length \in Nat /\ data.position \in Nat /\ n \in Nat
      BY <1>1, <2>1, <2>2
    <3>2. QED
      BY <3>1, OneExtent
  <2>4. QED
    BY <1>1, <2>1, <2>3
<1>7. ASSUME NEW s \in 302 .. size + 304
      PROVE  UDF!MapSector(Partition(in), s - Origin(in)) = s
  <2>1. CASE in.metadata
    <3> DEFINE n == s - 302
    <3>1. Origin(in) = 302 /\ Partition(in) = UDF!FragmentedFile(UDF!NormalPartition(300, size + 8), <<meta>>)
      BY <1>2, <2>1 DEF Origin, Partition
    <3>2. n \in Nat /\ n < size + 6 /\ 2 + n \in 0 .. (size + 8) - 1 /\ 300 + (2 + n) = s
      BY <1>1
    <3> HIDE DEF n
    <3>3. UDF!InFile(<<meta>>, n) = 2 + n
      BY <1>5, <3>2
    <3>4. UDF!MapSector(Partition(in), n) = 300 + UDF!InFile(<<meta>>, n)
      BY <1>3, <3>1, <3>2, <3>3, MappedInFile
    <3>5. QED
      BY <3>1, <3>2, <3>3, <3>4 DEF n
  <2>2. CASE ~in.metadata
    <3> DEFINE n == s - 300
    <3>1. Origin(in) = 300 /\ Partition(in) = Plain(in)
      BY <2>2 DEF Origin, Partition
    <3>2. n \in 0 .. size + 7 /\ 300 + n = s
      BY <1>1
    <3> HIDE DEF n
    <3>3. UDF!MapSector(Plain(in), n) = 300 + n
      BY <1>4, <3>2
    <3>4. QED
      BY <3>1, <3>2, <3>3 DEF n
  <2>3. QED
    BY <2>1, <2>2
<1>8. ASSUME NEW n \in 0 .. size - 1
      PROVE  UDF!MapSector(Directory(in), n) = 304 + n
  <2>1. CASE in.metadata
    <3> DEFINE m == 2 + n
    <3>1. /\ Directory(in) = UDF!FragmentedFile(UDF!FragmentedFile(
                                 UDF!NormalPartition(300, size + 8), <<meta>>), <<data>>)
          /\ 304 - Origin(in) = 2
      BY <1>2, <2>1 DEF Origin, Partition
    <3>2. UDF!InFile(<<data>>, n) = m
      BY <1>6, <3>1
    <3>3. m \in Nat /\ m < size + 6 /\ 2 + m \in 0 .. (size + 8) - 1 /\ 300 + (2 + m) = 304 + n
      BY <1>1
    <3> HIDE DEF m
    <3>4. UDF!InFile(<<meta>>, UDF!InFile(<<data>>, n)) = 2 + m
      BY <1>5, <3>2, <3>3
    <3>5. UDF!MapSector(Directory(in), n) = 300 + UDF!InFile(<<meta>>, UDF!InFile(<<data>>, n))
      BY <1>3, <3>1, <3>3, <3>4, MappedInFileInFile
    <3>6. QED
      BY <3>3, <3>4, <3>5
  <2>2. CASE ~in.metadata
    <3> DEFINE m == 4 + n
    <3>1. /\ Directory(in) = UDF!FragmentedFile(UDF!NormalPartition(300, size + 8), <<data>>)
          /\ 304 - Origin(in) = 4
      BY <1>2, <2>2 DEF Origin, Partition
    <3>2. UDF!InFile(<<data>>, n) = m
      BY <1>6, <3>1
    <3>3. m \in 0 .. (size + 8) - 1 /\ 300 + m = 304 + n
      BY <1>1
    <3> HIDE DEF m
    <3>4. UDF!MapSector(Directory(in), n) = 300 + UDF!InFile(<<data>>, n)
      BY <1>3, <3>1, <3>2, <3>3, MappedInFile
    <3>5. QED
      BY <3>2, <3>3, <3>4
  <2>3. QED
    BY <2>1, <2>2
<1>9. UDF!MapSector(Plain(in), 0) = 300
  <2>1. 0 \in 0 .. size + 7 /\ 300 + 0 = 300
    BY <1>1
  <2>2. UDF!MapSector(Plain(in), 0) = 300 + 0
    BY <1>4, <2>1
  <2>3. QED
    BY <2>1, <2>2
<1>10. QED
  BY <1>7, <1>8, <1>9 DEF size

(* Every descriptor of the disc can be read. *)
LEMMA SectorsCanBeRead ==
    ASSUME NEW in, Sound(in)
    PROVE  /\ \A s \in {20, 21, 22, 256, 300, 302, 303} :
                 UDF!Descriptor(DiscOf(in), s) = UDFSector(in, s)
           /\ \A s \in 304 .. DirectorySize(in) + 304 :
                 /\ UDF!Readable(DiscOf(in), s)
                 /\ DiscOf(in).sectors[s] = [tag |-> "directory", cells |-> CellsIn(in, s)]
<1> DEFINE disc == DiscOf(in)
<1>1. DirectorySize(in) \in Nat /\ in.damaged = 0
  BY SizeType DEF Sound
<1>2. /\ disc.end = DirectorySize(in) + 306
      /\ DOMAIN disc.sectors = {20, 21, 22, 256, 300} \cup 302 .. DirectorySize(in) + 304
  BY DEF DiscOf
<1>3. ASSUME NEW s \in DOMAIN disc.sectors
      PROVE  UDF!Readable(disc, s) /\ disc.sectors[s] = UDFSector(in, s)
  <2>1. s # 0 /\ s < disc.end
    BY <1>1, <1>2
  <2>2. disc.sectors[s] = UDFSector(in, s)
    BY <1>1, <2>1, SectorOfDisc
  <2>3. QED
    BY <2>1, <2>2 DEF UDF!Readable
<1> HIDE DEF disc
<1>4. ASSUME NEW s \in {20, 21, 22, 256, 300, 302, 303}
      PROVE  UDF!Descriptor(disc, s) = UDFSector(in, s)
  <2>1. s \in DOMAIN disc.sectors
    BY <1>1, <1>2
  <2>2. UDFSector(in, s).tag # "damaged"
    <3>1. UDFSector(in, s).tag \in {"anchor", "primary", "logical", "partition", "file", "fileset"}
      BY DEF UDFSector
    <3>2. QED
      BY <3>1
  <2>3. QED
    BY <1>3, <2>1, <2>2 DEF UDF!Descriptor
<1>5. ASSUME NEW s \in 304 .. DirectorySize(in) + 304
      PROVE  /\ UDF!Readable(disc, s)
             /\ disc.sectors[s] = [tag |-> "directory", cells |-> CellsIn(in, s)]
  <2>1. s \in DOMAIN disc.sectors /\ s \notin {256, 20, 21, 22, 300, 302, 303}
    BY <1>1, <1>2
  <2>2. QED
    BY <1>3, <2>1, DirectorySectorIs
<1>6. QED
  BY <1>4, <1>5 DEF disc

(* The descriptors of the volume. *)
Sequence(in) == UDF!VolumeSequence(DiscOf(in), UDFSector(in, 256))

LEMMA SequenceIs ==
    ASSUME NEW in, Sound(in)
    PROVE  /\ DOMAIN Sequence(in) = 1 .. 3
           /\ Sequence(in)[1] = UDFSector(in, 20) /\ Sequence(in)[2] = UDFSector(in, 21)
           /\ Sequence(in)[3] = UDFSector(in, 22)
<1> DEFINE anchor == UDFSector(in, 256)
           disc == DiscOf(in)
<1>1. anchor.first = 20 /\ anchor.length = 3 * SectorCells
  BY DEF UDFSector
<1>2. \A s \in {20, 21, 22} : UDF!Descriptor(disc, s) = UDFSector(in, s)
  BY SectorsCanBeRead
<1> HIDE DEF anchor, disc
<1>3. UDF!SectorsFor(3 * SectorCells) = 3
  <2> DEFINE c == SectorCells
             n == 3 * c + (c - 1)
  <2>1. c \in Nat \ {0} /\ n \in Nat /\ n = c * 3 + (c - 1) /\ c - 1 \in 0 .. c - 1
    BY SectorCellsAssumption
  <2>2. n \div c \in Int /\ n % c \in 0 .. c - 1 /\ n = c * (n \div c) + (n % c)
    <3> HIDE DEF n, c
    <3>1. QED
      BY <2>1
  <2>3. n \div c = 3
    <3> DEFINE d == n \div c
    <3>1. d \in Int /\ c * d <= c * 3 + (c - 1) /\ c * 3 <= c * d + (c - 1)
      <4>1. n \div c \in Int /\ n % c \in 0 .. c - 1 /\ n = c * (n \div c) + (n % c)
        BY <2>2
      <4> HIDE DEF n, c
      <4>2. QED
        BY <2>1, <4>1
    <3> HIDE DEF d
    <3>2. CASE d >= 4
      <4>1. c * 4 <= c * d
        <5>1. 4 * c <= d * c
          BY <2>1, <3>1, <3>2, Multiples
        <5>2. QED
          BY <2>1, <3>1, <5>1
      <4>2. QED
        BY <2>1, <3>1, <4>1
    <3>3. CASE d <= 2
      <4>1. c * d <= c * 2
        <5>1. d * c <= 2 * c
          BY <2>1, <3>1, <3>3, Multiples
        <5>2. QED
          BY <2>1, <3>1, <5>1
      <4>2. QED
        BY <2>1, <3>1, <4>1
    <3>4. QED
      BY <3>1, <3>2, <3>3 DEF d
  <2>4. UDF!SectorsFor(3 * c) = n \div c
    BY Zenon DEF UDF!SectorsFor
  <2>5. QED
    BY <2>3, <2>4, Zenon
<1>4. Sequence(in) = [i \in 1 .. 3 |-> UDF!Descriptor(disc, 20 + i - 1)]
  BY <1>1, <1>3 DEF Sequence, UDF!VolumeSequence, anchor, disc
<1>5. /\ 20 + 1 - 1 = 20 /\ 20 + 2 - 1 = 21 /\ 20 + 3 - 1 = 22
  OBVIOUS
<1>6. /\ Sequence(in)[1] = UDF!Descriptor(disc, 20) /\ Sequence(in)[2] = UDF!Descriptor(disc, 21)
      /\ Sequence(in)[3] = UDF!Descriptor(disc, 22)
  BY <1>4, <1>5
<1>7. QED
  BY <1>2, <1>4, <1>6

(* The partition, and the metadata file in it. *)
LEMMA PartitionsAre ==
    ASSUME NEW in, Sound(in)
    PROVE  /\ UDF!MappedPartition(DiscOf(in), Sequence(in), PartitionMaps[1]) = Plain(in)
           /\ UDF!MappedPartition(DiscOf(in), Sequence(in), PartitionMaps[2]) = Metadata(in)
<1> DEFINE disc == DiscOf(in)
           sequence == Sequence(in)
           there == {i \in DOMAIN sequence : sequence[i].tag = "partition" /\ sequence[i].number = 0}
           exts == <<[position |-> 2, length |-> SectorCells * (DirectorySize(in) + 8)]>>
<1>1. /\ DOMAIN sequence = 1 .. 3 /\ sequence[1].tag = "primary" /\ sequence[2].tag = "logical"
      /\ sequence[3].tag = "partition" /\ sequence[3].number = 0 /\ sequence[3].first = 300
      /\ sequence[3].count = DirectorySize(in) + 8
  <2>1. UDFSector(in, 20).tag = "primary" /\ UDFSector(in, 21).tag = "logical"
    BY DEF UDFSector
  <2>2. /\ UDFSector(in, 22).tag = "partition" /\ UDFSector(in, 22).number = 0
        /\ UDFSector(in, 22).first = 300 /\ UDFSector(in, 22).count = DirectorySize(in) + 8
    BY DEF UDFSector
  <2>3. QED
    BY <2>1, <2>2, SequenceIs
<1>2. UDF!Descriptor(disc, 300).tag = "file" /\ UDF!Descriptor(disc, 300).extents = exts
  <2>1. UDF!Descriptor(disc, 300) = UDFSector(in, 300)
    BY SectorsCanBeRead
  <2>2. UDFSector(in, 300).tag = "file" /\ UDFSector(in, 300).extents = exts
    BY DEF UDFSector
  <2>3. QED
    BY <2>1, <2>2
<1>3. UDF!MapSector(Plain(in), 0) = 300
  BY MappedOnDisc DEF Sound
<1> HIDE DEF disc, sequence, exts
<1>4. there = {3}
  BY <1>1
<1>5. Max({3}) = 3
  BY DEF Max
<1>6. UDF!NumberedPartition(sequence, 0) =
         IF 0 >= UDF!MaxPartitions \/ there = {} THEN UDF!InvalidPartition
         ELSE UDF!NormalPartition(sequence[Max(there)].first, sequence[Max(there)].count)
  BY DEF UDF!NumberedPartition, UDF!Max, Max
<1>7. UDF!NumberedPartition(sequence, 0) = Plain(in)
  <2>1. ~(0 >= UDF!MaxPartitions)
    BY DEF UDF!MaxPartitions
  <2>2. Max(there) = 3 /\ there # {}
    BY <1>4, <1>5
  <2> HIDE DEF there
  <2>3. QED
    BY <1>1, <1>6, <2>1, <2>2 DEF Plain
<1>8. UDF!MappedPartition(disc, sequence, PartitionMaps[1]) = Plain(in)
  <2>1. PartitionMaps[1].type = 1 /\ PartitionMaps[1].number = 0
    BY DEF PartitionMaps
  <2>2. QED
    BY <1>7, <2>1 DEF UDF!MappedPartition
<1>9. UDF!MappedPartition(disc, sequence, PartitionMaps[2]) = Metadata(in)
  <2> DEFINE icb == UDF!Block(Plain(in), 0, SectorCells)
  <2>1. /\ PartitionMaps[2].type = 2 /\ PartitionMaps[2].number = 0
        /\ PartitionMaps[2].metadata /\ PartitionMaps[2].file = 0
    BY DEF PartitionMaps
  <2>2. UDF!MappedPartition(disc, sequence, PartitionMaps[2]) = UDF!CreateFileFromICB(disc, icb)
    BY <1>7, <2>1 DEF UDF!MappedPartition
  <2>3. UDF!FirstPhysicalSector(icb) = 300 /\ icb.partition = Plain(in)
    BY <1>3 DEF UDF!FirstPhysicalSector, UDF!Block
  <2> HIDE DEF icb
  <2>4. UDF!CreateFileFromICB(disc, icb) = UDF!FragmentedFile(Plain(in), exts)
    BY <1>2, <2>3 DEF UDF!CreateFileFromICB
  <2>5. QED
    BY <2>2, <2>4 DEF Metadata, exts
<1>10. QED
  BY <1>8, <1>9 DEF disc, sequence

--------------------------------------------------------------------------------
(* The volume that the disc has. *)
TheVolume(in) ==
    [number     |-> 1,
     root       |-> UDF!Block(Partition(in), 303 - Origin(in), in.icb),
     partitions |-> <<Plain(in), Metadata(in)>>]

(* An address in one of the two partitions. *)
LEMMA BlockIs ==
    ASSUME NEW in, Sound(in), NEW ad, ad.partition = Used(in)
    PROVE  UDF!DataBlock(<<Plain(in), Metadata(in)>>, ad) =
              UDF!Block(Partition(in), ad.lba, ad.length)
<1> DEFINE both == <<Plain(in), Metadata(in)>>
<1>1. Len(both) = 2 /\ both[1] = Plain(in) /\ both[2] = Metadata(in)
  OBVIOUS
<1> HIDE DEF both
<1>2. CASE in.metadata
  <2>1. ad.partition = 1 /\ Partition(in) = Metadata(in)
    BY <1>2 DEF Used, Partition
  <2>2. ad.partition < Len(both) /\ both[ad.partition + 1] = Partition(in)
    BY <1>1, <2>1
  <2>3. QED
    BY <2>2 DEF both, UDF!DataBlock
<1>3. CASE ~in.metadata
  <2>1. ad.partition = 0 /\ Partition(in) = Plain(in)
    BY <1>3 DEF Used, Partition
  <2>2. ad.partition < Len(both) /\ both[ad.partition + 1] = Partition(in)
    BY <1>1, <2>1
  <2>3. QED
    BY <2>2 DEF both, UDF!DataBlock
<1>4. QED
  BY <1>2, <1>3

(* A block of the partition stands in its sector. *)
LEMMA BlockOnDisc ==
    ASSUME NEW in, Sound(in), NEW s \in 302 .. DirectorySize(in) + 304, NEW size
    PROVE  UDF!FirstPhysicalSector(UDF!Block(Partition(in), s - Origin(in), size)) = s
<1>1. UDF!MapSector(Partition(in), s - Origin(in)) = s
  BY MappedOnDisc DEF Sound
<1>2. QED
  BY <1>1 DEF UDF!FirstPhysicalSector, UDF!Block

(* ParseLVDInSectorBuffer: the logical volume of the disc. *)
LEMMA VolumeIs ==
    ASSUME NEW in, Sound(in)
    PROVE  UDF!LogicalVolume(DiscOf(in), Sequence(in), Sequence(in)[2]) = TheVolume(in)
<1> DEFINE disc == DiscOf(in)
           lvd == Sequence(in)[2]
           mapped == [i \in DOMAIN PartitionMaps |->
                         UDF!MappedPartition(disc, Sequence(in), PartitionMaps[i])]
           both == <<Plain(in), Metadata(in)>>
           fileSet == UDF!FileSet(disc, lvd, both)
<1>1. lvd = UDFSector(in, 21)
  BY SequenceIs
<1>2. /\ lvd.plainBlocks /\ lvd.maps = PartitionMaps /\ lvd.fileSet.partition = Used(in)
      /\ lvd.fileSet.lba = 302 - Origin(in)
  <2>1. /\ UDFSector(in, 21).plainBlocks /\ UDFSector(in, 21).maps = PartitionMaps
        /\ UDFSector(in, 21).fileSet.partition = Used(in)
        /\ UDFSector(in, 21).fileSet.lba = 302 - Origin(in)
    BY DEF UDFSector, Used, Origin
  <2>2. QED
    BY <1>1, <2>1
<1>3. /\ DOMAIN PartitionMaps = 1 .. 2 /\ Len(PartitionMaps) = 2
      /\ PartitionMaps[1].type \in {1, 2} /\ PartitionMaps[2].type \in {1, 2}
      /\ PartitionMaps[2].volume = 1
  BY DEF PartitionMaps
<1>4. mapped = both
  <2>1. mapped[1] = Plain(in) /\ mapped[2] = Metadata(in) /\ DOMAIN mapped = 1 .. 2
    BY <1>3, PartitionsAre
  <2>2. mapped = [i \in 1 .. 2 |-> mapped[i]]
    BY <1>3
  <2> HIDE DEF mapped
  <2>3. mapped \in Seq({Plain(in), Metadata(in)}) /\ Len(mapped) = 2
    <3>1. \A i \in 1 .. 2 : mapped[i] \in {Plain(in), Metadata(in)}
      BY <2>1
    <3>2. QED
      BY <2>2, <3>1
  <2>4. QED
    BY <2>1, <2>3
<1> HIDE DEF lvd, disc, mapped
<1>5. fileSet = UDFSector(in, 302)
  <2>1. 302 \in 302 .. DirectorySize(in) + 304
    BY SizeType DEF Sound
  <2>2. UDF!DataBlock(both, lvd.fileSet) = UDF!Block(Partition(in), 302 - Origin(in), lvd.fileSet.length)
    BY <1>2, BlockIs
  <2>3. UDF!FirstPhysicalSector(UDF!DataBlock(both, lvd.fileSet)) = 302
    BY <2>1, <2>2, BlockOnDisc
  <2> HIDE DEF both
  <2>4. UDF!Descriptor(disc, 302) = UDFSector(in, 302)
    BY SectorsCanBeRead DEF disc
  <2>5. QED
    BY <2>3, <2>4 DEF UDF!FileSet
<1>6. /\ fileSet.tag = "fileset" /\ fileSet.root.partition = Used(in)
      /\ fileSet.root.lba = 303 - Origin(in) /\ fileSet.root.length = in.icb
  <2>1. /\ UDFSector(in, 302).tag = "fileset" /\ UDFSector(in, 302).root.partition = Used(in)
        /\ UDFSector(in, 302).root.lba = 303 - Origin(in)
        /\ UDFSector(in, 302).root.length = in.icb
    BY DEF UDFSector, Used, Origin
  <2> HIDE DEF fileSet
  <2>2. QED
    BY <1>5, <2>1
<1> HIDE DEF fileSet
<1>7. UDF!DataBlock(both, fileSet.root) = UDF!Block(Partition(in), 303 - Origin(in), in.icb)
  BY <1>6, BlockIs
<1> HIDE DEF both
<1>8. UDF!LogicalVolume(disc, Sequence(in), lvd) = UDF!Volume(lvd, both, fileSet)
  <2>1. UDF!LogicalVolume(disc, Sequence(in), lvd) =
           UDF!Volume(lvd, mapped, UDF!FileSet(disc, lvd, mapped))
    BY <1>2 DEF UDF!LogicalVolume, mapped
  <2>2. QED
    BY <1>4, <2>1 DEF fileSet
<1>9. UDF!Volume(lvd, both, fileSet) =
         [number |-> 1, root |-> UDF!DataBlock(both, fileSet.root), partitions |-> both]
  <2> DEFINE numbered == {i \in DOMAIN lvd.maps : lvd.maps[i].type \in {1, 2}}
             v == [number |-> IF numbered = {} THEN 0 ELSE lvd.maps[UDF!Max(numbered)].volume,
                   root |-> UDF!DataBlock(both, fileSet.root), partitions |-> both]
  <2>1. UDF!Volume(lvd, both, fileSet) = v
    BY <1>6 DEF UDF!Volume
  <2>2. numbered = 1 .. 2
    BY <1>2, <1>3
  <2>3. UDF!Max(1 .. 2) = 2
    BY DEF UDF!Max
  <2>4. lvd.maps[UDF!Max(numbered)].volume = 1 /\ numbered # {}
    BY <1>2, <1>3, <2>2, <2>3
  <2> HIDE DEF numbered
  <2>5. QED
    BY <2>1, <2>4
<1>10. QED
  BY <1>7, <1>8, <1>9 DEF TheVolume, both, disc, lvd

(* ParseUDFHeaders and FindLastVolume: it is found. *)
LEMMA VolumeIsFound ==
    ASSUME NEW in, Sound(in)
    PROVE  UDF!FindLastVolume(UDF!ParseUDFHeaders(DiscOf(in))) = TheVolume(in)
<1> DEFINE disc == DiscOf(in)
           sequence == Sequence(in)
           volumes == UDF!ParseUDFHeaders(disc)
           Read(i) == UDF!LogicalVolume(disc, sequence, sequence[i])
           there == {i \in DOMAIN sequence : sequence[i].tag = "logical" /\ Read(i).root.valid}
<1>1. UDF!Descriptor(disc, UDF!AnchorLocation) = UDFSector(in, 256)
  <2>1. UDF!AnchorLocation = 256
    BY DEF UDF!AnchorLocation
  <2>2. UDF!Descriptor(disc, 256) = UDFSector(in, 256)
    BY SectorsCanBeRead
  <2>3. QED
    BY <2>1, <2>2
<1>2. UDFSector(in, 256).tag # "none"
  <2>1. UDFSector(in, 256).tag = "anchor"
    BY SectorsAre
  <2>2. QED
    BY <2>1
<1>3. volumes = [i \in there |-> Read(i)]
  <2> HIDE DEF disc
  <2>1. volumes = UDF!LogicalVolumes(disc, UDF!VolumeSequence(disc, UDFSector(in, 256)))
    BY <1>1, <1>2 DEF UDF!ParseUDFHeaders
  <2>2. QED
    BY <2>1 DEF UDF!LogicalVolumes, Sequence, disc
<1>4. Read(2) = TheVolume(in)
  BY VolumeIs
<1>5. TheVolume(in).root.valid
  BY DEF TheVolume, UDF!Block
<1>6. /\ DOMAIN sequence = 1 .. 3 /\ sequence[1].tag # "logical" /\ sequence[2].tag = "logical"
      /\ sequence[3].tag # "logical"
  <2>1. /\ UDFSector(in, 20).tag = "primary" /\ UDFSector(in, 21).tag = "logical"
        /\ UDFSector(in, 22).tag = "partition"
    BY DEF UDFSector
  <2>2. QED
    BY <2>1, SequenceIs
<1> HIDE DEF Read, volumes, sequence
<1>7. there = {2}
  BY <1>4, <1>5, <1>6
<1> HIDE DEF there
<1>8. DOMAIN volumes = {2} /\ volumes[2] = TheVolume(in)
  BY <1>3, <1>4, <1>7
<1>9. volumes[2].number >= volumes[2].number
  BY <1>8 DEF TheVolume
<1> DEFINE last == {i \in DOMAIN volumes :
                      \A j \in DOMAIN volumes : volumes[i].number >= volumes[j].number}
<1>10. last = {2}
  BY <1>8, <1>9
<1>11. UDF!Min({2}) = 2
  BY DEF UDF!Min
<1>12. UDF!FindLastVolume(volumes) = IF last = {} THEN UDF!NoVolume ELSE volumes[UDF!Min(last)]
  BY DEF UDF!FindLastVolume
<1> HIDE DEF last
<1>13. QED
  BY <1>8, <1>10, <1>11, <1>12 DEF volumes, disc

(* CreateFileFromICB: its root directory is in one extent. *)
LEMMA DirectoryIs ==
    ASSUME NEW in, Sound(in)
    PROVE  /\ UDF!CreateFileFromICB(DiscOf(in), TheVolume(in).root) = Directory(in)
           /\ Directory(in) # UDF!InvalidPartition
<1> DEFINE icb == TheVolume(in).root
           exts == <<[position |-> 304 - Origin(in), length |-> DirectorySize(in)]>>
           disc == DiscOf(in)
<1>1. icb = UDF!Block(Partition(in), 303 - Origin(in), in.icb)
  BY DEF TheVolume
<1>2. icb.partition = Partition(in)
  BY <1>1 DEF UDF!Block
<1>3. UDF!FirstPhysicalSector(icb) = 303
  <2>1. 303 \in 302 .. DirectorySize(in) + 304
    BY SizeType DEF Sound
  <2>2. QED
    BY <1>1, <2>1, BlockOnDisc
<1>4. UDF!Descriptor(disc, 303) = UDFSector(in, 303)
  BY SectorsCanBeRead
<1>5. UDFSector(in, 303).tag = "file" /\ UDFSector(in, 303).extents = exts
  BY DEF UDFSector, Sound, Origin
<1>6. UDF!CreateFileFromICB(disc, icb) = UDF!FragmentedFile(Partition(in), exts)
  <2> HIDE DEF icb, exts, disc
  <2>1. QED
    BY <1>2, <1>3, <1>4, <1>5 DEF UDF!CreateFileFromICB
<1>7. Directory(in).files # <<>>
  <2>1. /\ Plain(in).files = <<>>
        /\ Metadata(in).files =
             <<<<[position |-> 2, length |-> SectorCells * (DirectorySize(in) + 8)]>>>>
    BY DEF Plain, Metadata, UDF!FragmentedFile, UDF!NormalPartition
  <2>2. Partition(in).files \in Seq({exts, Partition(in).files[1]})
    <3>1. CASE in.metadata
      <4> DEFINE meta == <<[position |-> 2, length |-> SectorCells * (DirectorySize(in) + 8)]>>
      <4>1. Partition(in).files = <<meta>>
        BY <2>1, <3>1 DEF Partition
      <4> HIDE DEF meta, exts
      <4>2. QED
        BY <4>1
    <3>2. CASE ~in.metadata
      <4>1. Partition(in).files = <<>>
        BY <2>1, <3>2 DEF Partition
      <4> HIDE DEF exts
      <4>2. QED
        BY <4>1
    <3>3. QED
      BY <3>1, <3>2
  <2>3. Directory(in).files = <<exts>> \o Partition(in).files
    <3>1. DOMAIN Partition(in) = {"first", "count", "files"}
      BY DEF Partition, Plain, Metadata, UDF!FragmentedFile, UDF!NormalPartition
    <3> HIDE DEF exts
    <3>2. UDF!FragmentedFile(Partition(in), exts).files = <<exts>> \o Partition(in).files
      BY <3>1 DEF UDF!FragmentedFile
    <3>3. QED
      BY <3>2 DEF Directory, exts
  <2> HIDE DEF exts
  <2> DEFINE files == Partition(in).files
             set == {exts, files[1]}
  <2>4. files \in Seq(set) /\ <<exts>> \in Seq(set) /\ Len(<<exts>>) = 1
    BY <2>2
  <2> HIDE DEF files, set
  <2>5. Len(<<exts>> \o files) = 1 + Len(files) /\ Len(files) \in Nat
    BY <2>4
  <2>6. QED
    BY <2>3, <2>5 DEF files
<1>8. UDF!InvalidPartition.files = <<>>
  BY DEF UDF!InvalidPartition, UDF!NormalPartition
<1>9. QED
  BY <1>6, <1>7, <1>8 DEF Directory

--------------------------------------------------------------------------------
(* ReadStructureCached: the cells of the directory are read to its end, each from   *)
(* its sector.                                                                      *)
LEMMA DirectoryIsRead ==
    ASSUME NEW in, Sound(in), NEW count \in Nat, DirectorySize(in) <= count
    PROVE  HasEntries(UDF!CellsOf(DiscOf(in), Directory(in), count), in)
<1> DEFINE disc == DiscOf(in)
           file == Directory(in)
           size == DirectorySize(in)
           cells == UDF!CellsOf(disc, file, count)
<1>1. size \in Nat /\ in.entries \in Seq(Entry)
  BY SizeType DEF Sound, Video
<1>2. ASSUME NEW i \in 1 .. size
      PROVE  UDF!Readable(disc, CellSector(file, i)) /\ CellAt(disc, file, i) = Cell(in.entries, i)
  <2> DEFINE q == (i - 1) \div SectorCells
             n == ((i - 1) % SectorCells) + 1
             s == 304 + q
  <2>1. q \in Nat /\ n \in 1 .. SectorCells /\ i = q * SectorCells + n
    <3> DEFINE k == (i - 1) % SectorCells
    <3>1. i \in Nat \ {0}
      BY <1>1
    <3>2. q \in Nat /\ k + 1 \in 1 .. SectorCells /\ i = q * SectorCells + k + 1
      BY <3>1, CellPlace
    <3>3. q * SectorCells \in Int /\ k \in Int
      BY <3>1, <3>2, SectorCellsAssumption
    <3> HIDE DEF q, k
    <3>4. i = q * SectorCells + (k + 1)
      BY <3>2, <3>3
    <3>5. QED
      BY <3>2, <3>4 DEF k
  <2> HIDE DEF q, n
  <2>2. q < size
    <3>1. 1 <= SectorCells /\ SectorCells \in Int /\ q * SectorCells \in Int
      BY <2>1, SectorCellsAssumption
    <3>2. q * 1 <= q * SectorCells
      BY <2>1, <3>1, Multiples
    <3>3. n >= 1 /\ n \in Int /\ i <= size
      BY <1>1, <2>1, SectorCellsAssumption
    <3>4. QED
      BY <1>1, <2>1, <3>1, <3>2, <3>3
  <2>3. CellSector(file, i) = s
    <3>1. q \in 0 .. size - 1
      BY <1>1, <2>1, <2>2
    <3>2. UDF!MapSector(file, q) = 304 + q
      BY <3>1, MappedOnDisc DEF Sound
    <3>3. QED
      BY <3>2 DEF CellSector, q
  <2>4. s \in 304 .. size + 304
    BY <1>1, <2>1, <2>2
  <2>5. UDF!Readable(disc, s) /\ disc.sectors[s] = [tag |-> "directory", cells |-> CellsIn(in, s)]
    BY <2>4, SectorsCanBeRead
  <2>6. disc.sectors[s].tag = "directory" /\ disc.sectors[s].cells = CellsIn(in, s)
    BY <2>5
  <2>7. CellsIn(in, s)[n] = Cell(in.entries, i)
    <3>1. (s - 304) * SectorCells + n = i
      BY <2>1
    <3> HIDE DEF s
    <3>2. CellsIn(in, s)[n] = Cell(in.entries, (s - 304) * SectorCells + n)
      BY <2>1 DEF CellsIn
    <3>3. QED
      BY <3>1, <3>2
  <2> HIDE DEF disc, file, s
  <2>8. CellAt(disc, file, i) = disc.sectors[CellSector(file, i)].cells[n]
    BY <2>3, <2>6 DEF CellAt, n
  <2>9. QED
    BY <2>3, <2>5, <2>6, <2>7, <2>8
<1>3. Directories(disc)
  BY DiscIsRight DEF Sound, Readings
<1> HIDE DEF disc, file, size
<1>4. PICK last \in 0 .. count :
        /\ cells = [i \in 1 .. last |-> CellAt(disc, file, i)]
        /\ \A i \in 1 .. last : UDF!Readable(disc, CellSector(file, i))
        /\ last < count => ~UDF!Readable(disc, CellSector(file, last + 1))
  BY CellsAreRead
<1> HIDE DEF cells
<1>5. Len(cells) = last /\ last \in Nat
  BY <1>4
<1>6. size <= last
  <2>1. SUFFICES ASSUME last < size
                 PROVE  FALSE
    BY <1>1, <1>5
  <2>2. last + 1 \in 1 .. size /\ last < count
    BY <1>1, <1>5, <2>1 DEF size
  <2>3. QED
    BY <1>2, <1>4, <2>2
<1>7. \A i \in 1 .. size : cells[i] = Cell(in.entries, i)
  BY <1>1, <1>2, <1>4, <1>5, <1>6
<1>8. \A i \in 1 .. last : cells[i].cells \in Nat
  <2> SUFFICES ASSUME NEW i \in 1 .. last
               PROVE  cells[i].cells \in Nat
    OBVIOUS
  <2>1. ((i - 1) % SectorCells) + 1 \in 1 .. SectorCells
    <3>1. i \in Nat \ {0}
      BY <1>5
    <3>2. QED
      BY <3>1, CellPlace
  <2>2. CellSector(file, i) \in DOMAIN disc.sectors
    BY <1>4 DEF UDF!Readable
  <2>3. CellAt(disc, file, i).cells \in Nat
    BY <1>3, <2>1, <2>2 DEF CellAt, Directories
  <2>4. QED
    BY <1>4, <2>3
<1>9. QED
  BY <1>5, <1>6, <1>7, <1>8 DEF HasEntries, Cells, cells, disc, file, size

(* AnalyzeUDFImage: on an intact disc with a root directory that is in one extent   *)
(* and not longer than its control block says, a directory that is there is found.  *)
LEMMA NamedIsOnDisc ==
    ASSUME NEW in, Sound(in), DirectorySize(in) <= in.icb, NEW name \in {BDMV, VIDEO_TS}
    PROVE  /\ UDF!AnalyzeUDFImage(DiscOf(in), name).isUDF
           /\ Named(in, name) => UDF!AnalyzeUDFImage(DiscOf(in), name).found
<1> DEFINE disc == DiscOf(in)
           volume == TheVolume(in)
           file == Directory(in)
           count == volume.root.size + SectorCells
<1>1. /\ volume.root.valid /\ volume.root.size = in.icb
      /\ volume.partitions = <<Plain(in), Metadata(in)>>
  BY DEF TheVolume, UDF!Block
<1>2. Len(volume.partitions) \in Nat \ {0}
  BY <1>1
<1>3. UDF!FindLastVolume(UDF!ParseUDFHeaders(disc)) = volume
  BY VolumeIsFound
<1>4. UDF!CreateFileFromICB(disc, volume.root) = file /\ file # UDF!InvalidPartition
  BY DirectoryIs
<1>5. in.icb \in Nat /\ DirectorySize(in) \in Nat /\ Video(in)
  BY SizeType DEF Sound, Video
<1> HIDE DEF disc, volume, file
<1>6. UDF!AnalyzeUDFImage(disc, name) = UDF!Analysis(disc, volume, name)
  BY <1>3 DEF UDF!AnalyzeUDFImage
<1>7. UDF!AnalyzeUDFImage(disc, name).isUDF
  BY <1>1, <1>6 DEF UDF!Analysis
<1>8. ASSUME Named(in, name)
      PROVE  UDF!AnalyzeUDFImage(disc, name).found
  <2>1. count \in Nat /\ DirectorySize(in) <= count
    BY <1>1, <1>5, SectorCellsAssumption
  <2> DEFINE cells == UDF!CellsOf(disc, file, count)
  <2>2. HasEntries(cells, in)
    <3> HIDE DEF count
    <3>1. QED
      BY <2>1, DirectoryIsRead DEF disc, file
  <2> HIDE DEF cells
  <2>3. UDF!Search(cells, volume, name).valid
    BY <1>1, <1>2, <1>5, <1>8, <2>2, NamedIsFound
  <2>4. UDF!FindFileInDirectory(disc, volume, file, name) = UDF!Search(cells, volume, name)
    BY <1>4 DEF UDF!FindFileInDirectory, cells
  <2>5. QED
    BY <1>1, <1>4, <1>6, <2>3, <2>4 DEF UDF!Analysis
<1>9. QED
  BY <1>7, <1>8 DEF disc

(* AnalyzeUDFImage (UDFAnalyzer.cpp): UDFRight, of every disc of its shape: a       *)
(* directory that is not there is never found, whichever sector is damaged, and one *)
(* that is there is found on an intact disc, whatever the entries before it and     *)
(* wherever they cross the end of a sector.                                         *)
THEOREM VideoDiscsAreRight == Spec => []UDFRight
<1>1. ASSUME input = [kind |-> "none"] \/ input \in Inputs
      PROVE  UDFRight
  <2> DEFINE Plainly == /\ input.damaged = 0 /\ ~input.split
                        /\ DirectorySize(input) <= input.icb
  <2> SUFFICES ASSUME input.kind = "udf", NEW name \in {BDMV, VIDEO_TS}
               PROVE  /\ UDF!AnalyzeUDFImage(DiscOf(input), name).found => Named(input, name)
                      /\ Plainly =>
                            /\ UDF!AnalyzeUDFImage(DiscOf(input), name).isUDF
                            /\ UDF!AnalyzeUDFImage(DiscOf(input), name).found = Named(input, name)
    BY Zenon DEF UDFRight, Named
  <2>1. Video(input)
    BY <1>1, InputsAssumption DEF InputsAssumption, Video
  <2>2. UDF!AnalyzeUDFImage(DiscOf(input), name).found => Named(input, name)
    BY <2>1, FoundIsNamed
  <2>3. ASSUME Plainly
        PROVE  /\ UDF!AnalyzeUDFImage(DiscOf(input), name).isUDF
               /\ Named(input, name) => UDF!AnalyzeUDFImage(DiscOf(input), name).found
    BY <2>1, <2>3, NamedIsOnDisc DEF Sound
  <2>4. /\ UDF!AnalyzeUDFImage(DiscOf(input), name).found \in BOOLEAN
        /\ Named(input, name) \in BOOLEAN
    BY DEF UDF!AnalyzeUDFImage, UDF!Analysis, Named
  <2> HIDE DEF Plainly
  <2>5. QED
    BY <2>2, <2>3, <2>4, Zenon
<1>2. Spec => []UDFRight
  BY <1>1, InputIsGiven, PTL
<1>3. QED
  BY <1>2
================================================================================
