--------------------------- MODULE DriveReader_proofs ---------------------------
(* Proofs about DriveReader, for a disc and blocks of any size. *)
EXTENDS DriveReader, IntervalFacts, FiniteSetTheorems

--------------------------------------------------------------------------------
(* Lists of bad sectors. *)

(* No range of the list reaches past n. *)
Below(list, n) == \A i \in DOMAIN list : GetFirstFollowingSector(list[i]) <= n

LEMMA RangeFacts ==
    ASSUME NEW r \in SectorRange
    PROVE  /\ r.first \in Int /\ r.first >= 0 /\ r.first <= VolumeSize - 1
           /\ r.count \in Int /\ r.count >= 1
           /\ GetFirstFollowingSector(r) = r.first + r.count
BY ReaderAssumption DEF ReaderAssumption, SectorRange, Sector, GetFirstFollowingSector

(* A sector is on the list when it is in one of the ranges. *)
LEMMA OnList ==
    ASSUME NEW list \in Seq(SectorRange), NEW s
    PROVE  s \in SectorsOf(list) <=>
              \E i \in DOMAIN list : s \in list[i].first .. GetFirstFollowingSector(list[i]) - 1
BY DEF SectorsOf

(* A range that grows at its end. *)
LEMMA Grown ==
    ASSUME NEW list \in Seq(SectorRange), NEW n \in Sector, list # <<>>,
           n = GetFirstFollowingSector(Last(list))
    PROVE  LET r == [Last(list) EXCEPT !.count = @ + 1] IN
           /\ AddSector(list, n) \in Seq(SectorRange)
           /\ DOMAIN AddSector(list, n) = DOMAIN list
           /\ \A i \in DOMAIN list : AddSector(list, n)[i] = IF i = Len(list) THEN r ELSE list[i]
           /\ r \in SectorRange
           /\ r.first = Last(list).first /\ GetFirstFollowingSector(r) = n + 1
<1> DEFINE r == [Last(list) EXCEPT !.count = @ + 1]
<1>1. Len(list) \in DOMAIN list /\ Last(list) = list[Len(list)] /\ Last(list) \in SectorRange
  BY DEF Last
<1>2. /\ Last(list).first \in Sector /\ Last(list).count \in 1 .. VolumeSize
      /\ n = Last(list).first + Last(list).count
  BY <1>1 DEF SectorRange, GetFirstFollowingSector
<1>3. Last(list).count + 1 \in 1 .. VolumeSize
  BY <1>2, ReaderAssumption DEF ReaderAssumption, Sector
<1>4. /\ r \in SectorRange
      /\ r.first = Last(list).first /\ r.count = Last(list).count + 1
  BY <1>1, <1>3 DEF SectorRange
<1>5. GetFirstFollowingSector(r) = n + 1
  BY <1>2, <1>4, ReaderAssumption DEF ReaderAssumption, GetFirstFollowingSector, Sector
<1>6. AddSector(list, n) = [list EXCEPT ![Len(list)] = r]
  BY <1>1 DEF AddSector
<1>7. QED
  BY <1>1, <1>4, <1>5, <1>6

(* What AddSector does to a list of sectors before n. *)
LEMMA AddSectorFacts ==
    ASSUME NEW list \in Seq(SectorRange), NEW n \in Sector, Ascending(list), Below(list, n)
    PROVE  /\ AddSector(list, n) \in Seq(SectorRange)
           /\ Ascending(AddSector(list, n))
           /\ Below(AddSector(list, n), n + 1)
           /\ SectorsOf(AddSector(list, n)) = SectorsOf(list) \cup {n}
<1> DEFINE new == AddSector(list, n)
<1>0. n \in Int
  BY ReaderAssumption DEF ReaderAssumption, Sector
<1>1. CASE list # <<>> /\ n = GetFirstFollowingSector(Last(list))
  <2> DEFINE r == [Last(list) EXCEPT !.count = @ + 1]
  <2>1. /\ new \in Seq(SectorRange) /\ DOMAIN new = DOMAIN list
        /\ \A i \in DOMAIN list : new[i] = IF i = Len(list) THEN r ELSE list[i]
        /\ r \in SectorRange /\ r.first = Last(list).first
        /\ GetFirstFollowingSector(r) = n + 1
    BY <1>1, Grown
  <2>2. Len(list) \in DOMAIN list /\ Last(list) = list[Len(list)] /\ DOMAIN list = 1 .. Len(list)
    BY <1>1 DEF Last
  <2> HIDE DEF new, r
  <2>3. Ascending(new)
    <3> SUFFICES ASSUME NEW i \in DOMAIN new, NEW j \in DOMAIN new, i < j
                 PROVE  GetFirstFollowingSector(new[i]) < new[j].first
      BY DEF Ascending
    <3>1. i # Len(list) /\ GetFirstFollowingSector(list[i]) < list[j].first
      BY <2>1, <2>2 DEF Ascending
    <3>2. QED
      BY <2>1, <2>2, <3>1
  <2>4. Below(new, n + 1)
    <3> SUFFICES ASSUME NEW i \in DOMAIN list PROVE GetFirstFollowingSector(new[i]) <= n + 1
      BY <2>1 DEF Below
    <3>1. list[i] \in SectorRange /\ GetFirstFollowingSector(list[i]) <= n
      BY DEF Below
    <3>2. QED
      BY <1>0, <2>1, <3>1, RangeFacts
  <2>5. SectorsOf(new) = SectorsOf(list) \cup {n}
    <3> SUFFICES ASSUME NEW s PROVE s \in SectorsOf(new) <=> s \in SectorsOf(list) \/ s = n
      OBVIOUS
    <3>1. \A i \in DOMAIN list : i # Len(list) => new[i] = list[i]
      BY <2>1
    <3>2. new[Len(list)] = r
      BY <2>1, <2>2
    <3>3. s \in r.first .. GetFirstFollowingSector(r) - 1 <=>
            \/ s \in Last(list).first .. GetFirstFollowingSector(Last(list)) - 1
            \/ s = n
      <4>1. Last(list) \in SectorRange
        BY <2>2
      <4>2. /\ Last(list).first \in Int /\ Last(list).first < n
            /\ GetFirstFollowingSector(Last(list)) = n
        BY <1>0, <1>1, <4>1, RangeFacts
      <4>3. QED
        BY <1>0, <2>1, <4>2
    <3>4. QED
      BY <2>1, <2>2, <3>1, <3>2, <3>3, OnList
  <2>6. QED
    BY <2>1, <2>3, <2>4, <2>5 DEF new
<1>2. CASE ~(list # <<>> /\ n = GetFirstFollowingSector(Last(list)))
  <2> DEFINE r == Record(n, 1)
  <2>1. new = Append(list, r)
    BY <1>2 DEF AddSector
  <2>2. /\ r \in SectorRange /\ r.first = n /\ GetFirstFollowingSector(r) = n + 1
    BY ReaderAssumption DEF ReaderAssumption, Record, SectorRange, GetFirstFollowingSector
  <2> HIDE DEF r
  <2>3. /\ new \in Seq(SectorRange) /\ DOMAIN new = 1 .. Len(list) + 1
        /\ DOMAIN list = 1 .. Len(list) /\ Len(list) \in Nat
        /\ (\A i \in DOMAIN list : new[i] = list[i]) /\ new[Len(list) + 1] = r
    BY <2>1, <2>2
  <2> HIDE DEF new
  <2>4. \A i \in DOMAIN list : GetFirstFollowingSector(list[i]) < n
    <3> SUFFICES ASSUME NEW i \in DOMAIN list PROVE GetFirstFollowingSector(list[i]) < n
      OBVIOUS
    <3> DEFINE k == Len(list)
    <3>1. k \in DOMAIN list /\ Last(list) = list[k] /\ list[i] \in SectorRange
          /\ list[k] \in SectorRange /\ list # <<>>
      BY DEF Last
    <3>2. GetFirstFollowingSector(list[k]) <= n /\ GetFirstFollowingSector(list[k]) # n
      BY <1>2, <3>1 DEF Below
    <3>3. CASE i = k
      <4>1. GetFirstFollowingSector(list[k]) \in Int
        BY <3>1, RangeFacts
      <4> HIDE DEF k
      <4>2. QED
        BY <1>0, <3>2, <3>3, <4>1
    <3>4. CASE i # k
      <4>1. GetFirstFollowingSector(list[i]) < list[k].first
        BY <2>3, <3>1, <3>4 DEF Ascending
      <4>2. QED
        BY <1>0, <3>1, <3>2, <4>1, RangeFacts
    <3>5. QED
      BY <3>3, <3>4
  <2>5. Ascending(new)
    <3> SUFFICES ASSUME NEW i \in DOMAIN new, NEW j \in DOMAIN new, i < j
                 PROVE  GetFirstFollowingSector(new[i]) < new[j].first
      BY DEF Ascending
    <3>1. i \in DOMAIN list
      BY <2>3
    <3>2. CASE j \in DOMAIN list
      BY <2>3, <3>1, <3>2 DEF Ascending
    <3>3. CASE j = Len(list) + 1
      BY <2>2, <2>3, <2>4, <3>1, <3>3
    <3>4. QED
      BY <2>3, <3>2, <3>3
  <2>6. Below(new, n + 1)
    <3> SUFFICES ASSUME NEW i \in DOMAIN new PROVE GetFirstFollowingSector(new[i]) <= n + 1
      BY DEF Below
    <3>1. CASE i \in DOMAIN list
      <4>1. list[i] \in SectorRange
        BY <3>1
      <4>2. QED
        BY <1>0, <2>3, <2>4, <3>1, <4>1, RangeFacts
    <3>2. CASE i = Len(list) + 1
      BY <1>0, <2>2, <2>3, <3>2
    <3>3. QED
      BY <2>3, <3>1, <3>2
  <2>7. SectorsOf(new) = SectorsOf(list) \cup {n}
    <3> SUFFICES ASSUME NEW s PROVE s \in SectorsOf(new) <=> s \in SectorsOf(list) \/ s = n
      OBVIOUS
    <3>1. s \in r.first .. GetFirstFollowingSector(r) - 1 <=> s = n
      BY <1>0, <2>2
    <3>2. DOMAIN new = DOMAIN list \cup {Len(list) + 1}
      BY <2>3
    <3>3. QED
      BY <2>3, <3>1, <3>2, OnList
  <2>8. QED
    BY <2>3, <2>5, <2>6, <2>7 DEF new
<1>3. QED
  BY <1>1, <1>2

(* Going one sector further in a list that is read again. *)
LEMMA OtherSectorsFacts ==
    ASSUME NEW list \in Seq(SectorRange), list # <<>>, Ascending(list),
           Below(list, VolumeSize)
    PROVE  LET n == FirstSector(list) IN
           /\ n \in Sector
           /\ OtherSectors(list) \in Seq(SectorRange)
           /\ Ascending(OtherSectors(list))
           /\ Below(OtherSectors(list), VolumeSize)
           /\ \A i \in DOMAIN OtherSectors(list) : n + 1 <= OtherSectors(list)[i].first
           /\ SectorsOf(list) = SectorsOf(OtherSectors(list)) \cup {n}
<1> DEFINE n == FirstSector(list)
           new == OtherSectors(list)
           size == Len(list)
<1>0. /\ size \in Nat /\ size >= 1 /\ DOMAIN list = 1 .. size
      /\ Head(list) = list[1] /\ \A i \in 1 .. size : list[i] \in SectorRange
  OBVIOUS
<1>1. /\ n \in Sector /\ n \in Int /\ n = list[1].first
      /\ list[1].count \in Int /\ list[1].count >= 1
      /\ n + list[1].count <= VolumeSize /\ VolumeSize \in Int
  <2>1. list[1] \in SectorRange /\ n = list[1].first /\ VolumeSize \in Int
    BY <1>0, ReaderAssumption DEF ReaderAssumption, FirstSector
  <2>2. GetFirstFollowingSector(list[1]) <= VolumeSize
    BY <1>0 DEF Below
  <2>3. n \in Sector
    BY <2>1 DEF SectorRange
  <2>4. QED
    BY <2>1, <2>2, <2>3, RangeFacts
<1>2. \A i \in 2 .. size : n + list[1].count < list[i].first
  BY <1>0, <1>1, RangeFacts DEF Ascending
<1>3. CASE list[1].count = 1
  <2>1. new = Tail(list)
    BY <1>0, <1>3 DEF OtherSectors
  <2>2. /\ new \in Seq(SectorRange) /\ DOMAIN new = 1 .. size - 1
        /\ \A i \in 1 .. size - 1 : new[i] = list[i + 1]
    BY <1>0, <2>1
  <2> HIDE DEF new
  <2>3. Ascending(new) /\ Below(new, VolumeSize)
    <3>1. \A i \in 1 .. size - 1 : i + 1 \in DOMAIN list
      BY <1>0
    <3>2. ASSUME NEW i \in DOMAIN new, NEW j \in DOMAIN new, i < j
          PROVE  GetFirstFollowingSector(new[i]) < new[j].first
      <4>1. i + 1 < j + 1
        BY <1>0, <2>2, <3>2
      <4>2. QED
        BY <2>2, <3>1, <4>1 DEF Ascending
    <3>3. Below(new, VolumeSize)
      BY <2>2, <3>1 DEF Below
    <3>4. QED
      BY <3>2, <3>3 DEF Ascending
  <2>4. \A i \in DOMAIN new : n + 1 <= new[i].first
    BY <1>0, <1>1, <1>2, <1>3, <2>2, RangeFacts
  <2>5. SectorsOf(list) = SectorsOf(new) \cup {n}
    <3> SUFFICES ASSUME NEW s PROVE s \in SectorsOf(list) <=> s \in SectorsOf(new) \/ s = n
      OBVIOUS
    <3> DEFINE In(r) == s \in r.first .. GetFirstFollowingSector(r) - 1
    <3>1. In(list[1]) <=> s = n
      BY <1>0, <1>1, <1>3, RangeFacts
    <3>2. s \in SectorsOf(list) <=> \E i \in 1 .. size : In(list[i])
      BY <1>0, OnList
    <3>3. s \in SectorsOf(new) <=> \E i \in 1 .. size - 1 : In(list[i + 1])
      BY <2>2, OnList
    <3> HIDE DEF In, n, size
    <3>4. (\E i \in 1 .. size : In(list[i])) <=>
            In(list[1]) \/ (\E i \in 1 .. size - 1 : In(list[i + 1]))
      <4>1. ASSUME NEW i \in 1 .. size, In(list[i])
            PROVE  In(list[1]) \/ (\E j \in 1 .. size - 1 : In(list[j + 1]))
        <5>1. CASE i = 1
          BY <4>1, <5>1
        <5>2. CASE i # 1
          <6>1. i - 1 \in 1 .. size - 1 /\ (i - 1) + 1 = i
            BY <1>0, <5>2
          <6>2. In(list[(i - 1) + 1])
            BY <4>1, <6>1
          <6>3. QED
            BY <6>1, <6>2
        <5>3. QED
          BY <5>1, <5>2
      <4>2. ASSUME NEW j \in 1 .. size - 1, In(list[j + 1])
            PROVE  \E i \in 1 .. size : In(list[i])
        <5>1. j + 1 \in 1 .. size
          BY <1>0
        <5>2. QED
          BY <4>2, <5>1
      <4>3. 1 \in 1 .. size
        BY <1>0
      <4>4. QED
        BY <4>1, <4>2, <4>3
    <3>5. QED
      BY <3>1, <3>2, <3>3, <3>4
  <2>6. QED
    BY <1>1, <2>2, <2>3, <2>4, <2>5 DEF new
<1>4. CASE list[1].count # 1
  <2> DEFINE r == Record(n + 1, list[1].count - 1)
  <2>1. new = <<r>> \o Tail(list)
    BY <1>0, <1>4 DEF OtherSectors, FirstSector
  <2>2. /\ r \in SectorRange /\ r.first = n + 1
        /\ GetFirstFollowingSector(r) = n + list[1].count
    BY <1>0, <1>1, <1>4, RangeFacts
       DEF Record, SectorRange, Sector, GetFirstFollowingSector
  <2> HIDE DEF r
  <2>3. /\ new \in Seq(SectorRange) /\ DOMAIN new = 1 .. size
        /\ new[1] = r /\ \A i \in 2 .. size : new[i] = list[i]
    BY <1>0, <2>1, <2>2
  <2> HIDE DEF new
  <2>4. GetFirstFollowingSector(list[1]) = GetFirstFollowingSector(r)
    BY <1>0, <1>1, <2>2, RangeFacts
  <2>5. Ascending(new)
    <3> SUFFICES ASSUME NEW i \in 1 .. size, NEW j \in 1 .. size, i < j
                 PROVE  GetFirstFollowingSector(new[i]) < new[j].first
      BY <2>3 DEF Ascending
    <3>1. j \in 2 .. size /\ new[j] = list[j]
          /\ GetFirstFollowingSector(new[i]) = GetFirstFollowingSector(list[i])
      BY <1>0, <2>3, <2>4
    <3>2. QED
      BY <1>0, <3>1 DEF Ascending
  <2>6. Below(new, VolumeSize)
    <3> SUFFICES ASSUME NEW i \in 1 .. size
                 PROVE  GetFirstFollowingSector(new[i]) <= VolumeSize
      BY <2>3 DEF Below
    <3>1. GetFirstFollowingSector(new[i]) = GetFirstFollowingSector(list[i])
      BY <1>0, <2>3, <2>4
    <3>2. QED
      BY <1>0, <3>1 DEF Below
  <2>7. \A i \in DOMAIN new : n + 1 <= new[i].first
    <3> SUFFICES ASSUME NEW i \in 1 .. size PROVE n + 1 <= new[i].first
      BY <2>3
    <3>1. CASE i = 1
      BY <1>1, <2>2, <2>3, <3>1
    <3>2. CASE i # 1
      <4>1. i \in 2 .. size /\ new[i] = list[i] /\ list[i] \in SectorRange
        BY <1>0, <2>3, <3>2
      <4>2. QED
        BY <1>1, <1>2, <4>1, RangeFacts
    <3>3. QED
      BY <3>1, <3>2
  <2>8. SectorsOf(list) = SectorsOf(new) \cup {n}
    <3> SUFFICES ASSUME NEW s PROVE s \in SectorsOf(list) <=> s \in SectorsOf(new) \/ s = n
      OBVIOUS
    <3> DEFINE In(x) == s \in x.first .. GetFirstFollowingSector(x) - 1
    <3>1. In(list[1]) <=> In(r) \/ s = n
      BY <1>1, <1>4, <2>2, <2>4
    <3>2. s \in SectorsOf(list) <=> \E i \in 1 .. size : In(list[i])
      BY <1>0, OnList
    <3>3. s \in SectorsOf(new) <=> \E i \in 1 .. size : In(new[i])
      BY <2>3, OnList
    <3>4. \A i \in 1 .. size : i = 1 \/ (i \in 2 .. size /\ new[i] = list[i])
      BY <1>0, <2>3
    <3>5. new[1] = r /\ 1 \in 1 .. size
      BY <1>0, <2>3
    <3> HIDE DEF In, n, size
    <3>6. QED
      BY <3>1, <3>2, <3>3, <3>4, <3>5
  <2>9. QED
    BY <1>1, <2>3, <2>5, <2>6, <2>7, <2>8 DEF new
<1>5. QED
  BY <1>3, <1>4

--------------------------------------------------------------------------------
(* The list and the sectors that are still to be read again, for readers and *)
(* writers that do as much as they like.                                     *)

Looping == pc \in {"loop", "got", "paused"}
Writing == \/ pc \in {"write", "failed", "asking"}
           \/ pc = "asked" /\ message = "retry"

(* The reader has a message out only while it waits for the answer. *)
Waiting == /\ message \in {"none", "retry", "bad"}
           /\ message # "none" => pc = "asked"

(* What was asked of a read is on the disc, and one sector after a failure. *)
Asked ==
    /\ done \in 0 .. VolumeSize
    /\ pc = "got" \/ Writing => todo \in 1 .. VolumeSize - done
    /\ pc = "got" /\ perSector => todo = 1

Lists ==
    /\ bad \in Seq(SectorRange) /\ Ascending(bad) /\ Below(bad, VolumeSize)
    /\ work \in Seq(SectorRange) /\ Ascending(work) /\ Below(work, VolumeSize)
    /\ pc # "reread" => work = <<>>

(* The list ends before the sector that is read next. *)
ListBehind ==
    /\ Looping => Below(bad, done)
    /\ Writing => Below(bad, done + todo)
    /\ \A i \in DOMAIN work : Below(bad, work[i].first)

ListInv == Waiting /\ Asked /\ Lists /\ ListBehind

LEMMA EmptyList ==
    /\ <<>> \in Seq(SectorRange) /\ Ascending(<<>>)
    /\ \A n : Below(<<>>, n)
BY DEF Ascending, Below

LEMMA InitListInv == Init => ListInv
<1> SUFFICES ASSUME Init PROVE ListInv
  OBVIOUS
<1>1. Waiting
  BY DEF Init, Waiting
<1>2. Asked
  BY ReaderAssumption DEF ReaderAssumption, Init, Asked, Writing
<1>3. Lists /\ ListBehind
  BY EmptyList DEF Init, Lists, ListBehind, Writing
<1>4. QED
  BY <1>1, <1>2, <1>3 DEF ListInv

(* Steps that leave the lists and the position alone, and go where less, or   *)
(* the same, is known of them.                                               *)
LEMMA SameLists ==
    ASSUME ListInv, Waiting',
           UNCHANGED <<done, todo, perSector, bad, work>>,
           pc' = "got" => pc = "got",
           Looping' => Looping, Writing' => Writing,
           pc = "reread" => work' = <<>> \/ pc' = "reread"
    PROVE  ListInv'
<1>1. Asked'
  BY DEF ListInv, Asked
<1>2. Lists'
  BY DEF ListInv, Lists
<1>3. ListBehind'
  BY DEF ListInv, ListBehind, Below
<1>4. QED
  BY <1>1, <1>2, <1>3 DEF ListInv

LEMMA ReaderGoesOn ==
    ASSUME ListInv,
           \/ Aborted \/ AllDone \/ Continue \/ WriteFailed \/ AskRetry
           \/ AskBad \/ Ignored \/ RereadDone \/ Close
    PROVE  ListInv'
<1> USE DEF ListInv, Waiting, Looping, Writing, progress, badness, shared
<1>1. CASE Aborted
  BY <1>1, SameLists DEF Aborted, Finish
<1>2. CASE AllDone
  BY <1>2, SameLists DEF AllDone
<1>3. CASE Continue
  BY <1>3, SameLists DEF Continue
<1>4. CASE WriteFailed
  BY <1>4, SameLists DEF WriteFailed
<1>5. CASE AskRetry
  BY <1>5, SameLists DEF AskRetry, MutexFree, Finish
<1>6. CASE AskBad
  BY <1>6, SameLists DEF AskBad, MutexFree
<1>7. CASE Ignored
  BY <1>7, SameLists DEF Ignored
<1>8. CASE RereadDone
  BY <1>8, SameLists DEF RereadDone
<1>9. CASE Close
  BY <1>9, SameLists DEF Close
<1>10. QED
  BY <1>1, <1>2, <1>3, <1>4, <1>5, <1>6, <1>7, <1>8, <1>9

LEMMA OthersKeepLists ==
    ASSUME ListInv, MainStep \/ UserStep \/ UNCHANGED vars
    PROVE  ListInv'
<1> USE DEF ListInv, Waiting, Looping, Writing, progress, badness, shared, reader
<1>1. CASE UNCHANGED <<reader, message>>
  BY <1>1, SameLists
<1>2. CASE Unheard
  BY <1>2, SameLists DEF Unheard, Finish
<1>3. CASE OnRetryCancel
  BY <1>3, SameLists DEF OnRetryCancel, Finish
<1>4. CASE OnBadSectors
  BY <1>4, SameLists DEF OnBadSectors
<1>5. CASE \/ SetErrorHandler \/ OnInitDialog \/ OnTimer \/ ClearErrorHandler
           \/ Abort \/ CloseFiles \/ Join
           \/ OnBnClickedPause \/ OnBnClickedCancel \/ OnClose \/ UNCHANGED vars
  BY <1>1, <1>5 DEF SetErrorHandler, OnInitDialog, OnTimer, ClearErrorHandler, Abort,
     CloseFiles, Join, OnBnClickedPause, OnBnClickedCancel, OnClose, vars
<1>6. QED
  BY <1>2, <1>3, <1>4, <1>5 DEF MainStep, UserStep

LEMMA MainLoopKeepsLists ==
    ASSUME ListInv, Read \/ ReadAll \/ BlockFailed \/ SectorFailed \/ Write
    PROVE  ListInv'
<1> USE DEF ListInv, Waiting, Looping, Writing, progress, badness, shared
<1>1. CASE Read
  <2>1. /\ pc = "loop" /\ pc' = "got" /\ todo' = Todo
        /\ UNCHANGED <<done, perSector, bad, work, message>>
        /\ done < VolumeSize
    BY <1>1 DEF Read
  <2>2. Asked'
    BY <2>1, ReaderAssumption DEF ReaderAssumption, Asked, Todo
  <2>3. Lists' /\ ListBehind'
    BY <2>1 DEF Lists, ListBehind, Below
  <2>4. QED
    BY <2>1, <2>2, <2>3
<1>2. CASE ReadAll
  <2>1. /\ pc = "got" /\ pc' = "write"
        /\ UNCHANGED <<done, todo, bad, work, message>>
    BY <1>2 DEF ReadAll
  <2>2. Asked' /\ Lists'
    BY <2>1 DEF Asked, Lists
  <2>3. ListBehind'
    <3>1. Below(bad, done + todo)
      <4> SUFFICES ASSUME NEW i \in DOMAIN bad
                   PROVE  GetFirstFollowingSector(bad[i]) <= done + todo
        BY DEF Below
      <4>1. GetFirstFollowingSector(bad[i]) <= done /\ bad[i] \in SectorRange
        BY <2>1 DEF Lists, ListBehind, Below
      <4>2. done \in Int /\ todo \in Int /\ todo >= 1
        BY <2>1, ReaderAssumption DEF ReaderAssumption, Asked
      <4>3. QED
        BY <4>1, <4>2, RangeFacts
    <3>2. QED
      BY <2>1, <3>1 DEF ListBehind, Below
  <2>4. QED
    BY <2>1, <2>2, <2>3
<1>3. CASE BlockFailed
  <2>1. /\ pc = "got" /\ pc' \in {"loop", "write"}
        /\ UNCHANGED <<done, todo, bad, work, message>>
    BY <1>3 DEF BlockFailed
  <2>2. Asked' /\ Lists'
    BY <2>1 DEF Asked, Lists
  <2>3. ListBehind'
    <3>1. Below(bad, done) /\ Below(bad, done + todo)
      <4> SUFFICES ASSUME NEW i \in DOMAIN bad
                   PROVE  /\ GetFirstFollowingSector(bad[i]) <= done
                          /\ GetFirstFollowingSector(bad[i]) <= done + todo
        BY DEF Below
      <4>1. GetFirstFollowingSector(bad[i]) <= done /\ bad[i] \in SectorRange
        BY <2>1 DEF Lists, ListBehind, Below
      <4>2. done \in Int /\ todo \in Int /\ todo >= 1
        BY <2>1, ReaderAssumption DEF ReaderAssumption, Asked
      <4>3. QED
        BY <4>1, <4>2, RangeFacts
    <3>2. QED
      BY <2>1, <3>1 DEF ListBehind, Below
  <2>4. QED
    BY <2>1, <2>2, <2>3
<1>4. CASE SectorFailed
  <2>1. /\ pc = "got" /\ perSector /\ work = <<>> /\ todo = 1
        /\ UNCHANGED <<done, todo, perSector, work, message>>
    BY <1>4 DEF SectorFailed, Asked, Lists
  <2>2. CASE done = 0
    <3>1. pc' = "closing" /\ bad' = bad
      BY <1>4, <2>2 DEF SectorFailed, Finish
    <3>2. QED
      BY <2>1, <3>1, SameLists
  <2>3. CASE done # 0
    <3>1. pc' = "write" /\ bad' = AddSector(bad, done)
      BY <1>4, <2>3 DEF SectorFailed
    <3>2. done \in Sector /\ done + 1 <= VolumeSize /\ VolumeSize \in Int
      BY <2>1, ReaderAssumption DEF ReaderAssumption, Asked, Sector
    <3>3. /\ bad' \in Seq(SectorRange) /\ Ascending(bad') /\ Below(bad', done + 1)
      BY <2>1, <3>1, <3>2, AddSectorFacts DEF Lists, ListBehind
    <3>4. Below(bad', VolumeSize)
      <4> SUFFICES ASSUME NEW i \in DOMAIN bad'
                   PROVE  GetFirstFollowingSector(bad'[i]) <= VolumeSize
        BY DEF Below
      <4>1. GetFirstFollowingSector(bad'[i]) <= done + 1 /\ bad'[i] \in SectorRange
        BY <3>3 DEF Below
      <4>2. QED
        BY <3>2, <4>1, RangeFacts DEF Sector
    <3>5. Asked' /\ Lists'
      BY <2>1, <3>1, <3>3, <3>4, EmptyList DEF Asked, Lists
    <3>6. ListBehind'
      BY <2>1, <3>1, <3>3 DEF ListBehind
    <3>7. QED
      BY <2>1, <3>1, <3>5, <3>6
  <2>4. QED
    BY <2>2, <2>3
<1>5. CASE Write
  <2>1. /\ pc = "write" /\ work = <<>>
        /\ UNCHANGED <<todo, perSector, bad, work, message>>
        /\ \/ done' = done /\ pc' = "failed"
           \/ done' = done + todo /\ pc' \in {"loop", "paused"}
    BY <1>5 DEF Write, Lists
  <2>2. Asked'
    BY <2>1, ReaderAssumption DEF ReaderAssumption, Asked
  <2>3. Lists'
    BY <2>1 DEF Lists
  <2>4. ListBehind'
    BY <2>1 DEF ListBehind
  <2>5. QED
    BY <2>1, <2>2, <2>3, <2>4
<1>6. QED
  BY <1>1, <1>2, <1>3, <1>4, <1>5

LEMMA RereadKeepsLists ==
    ASSUME ListInv, RereadStart \/ RereadFails \/ RereadSector
    PROVE  ListInv'
<1> USE DEF ListInv, Waiting, Looping, Writing, progress, badness, shared
<1>1. CASE RereadStart
  <2>1. /\ pc \in {"decide", "found"} /\ pc' = "reread" /\ work' = bad /\ bad' = <<>>
        /\ UNCHANGED <<done, todo, perSector, message>>
    BY <1>1 DEF RereadStart, Detached
  <2>2. QED
    BY <2>1, EmptyList DEF Asked, Lists, ListBehind
<1>2. CASE RereadFails
  <2>1. /\ pc = "reread" /\ pc' = "closing" /\ work' = <<>>
        /\ UNCHANGED <<done, todo, perSector, bad, message>>
    BY <1>2 DEF RereadFails, Finish
  <2>2. QED
    BY <2>1, EmptyList DEF Asked, Lists, ListBehind
<1>3. CASE RereadSector
  <2> DEFINE n == FirstSector(work)
  <2>1. /\ pc = "reread" /\ work # <<>> /\ message = "none" /\ message' = message
        /\ UNCHANGED <<done, todo, perSector>>
        /\ bad' \in {bad, AddSector(bad, n)}
        /\ \/ pc' = "closing" /\ work' = <<>>
           \/ pc' = "reread" /\ work' = OtherSectors(work)
    BY <1>3 DEF RereadSector, Finish
  <2>2. /\ n \in Sector
        /\ OtherSectors(work) \in Seq(SectorRange) /\ Ascending(OtherSectors(work))
        /\ Below(OtherSectors(work), VolumeSize)
        /\ \A i \in DOMAIN OtherSectors(work) : n + 1 <= OtherSectors(work)[i].first
    BY <2>1, OtherSectorsFacts DEF Lists
  <2>3. Below(bad, n)
    <3>1. 1 \in DOMAIN work /\ n = work[1].first
      BY <2>1 DEF Lists, FirstSector
    <3>2. QED
      BY <3>1 DEF ListBehind
  <2>4. n \in Int /\ n + 1 <= VolumeSize /\ VolumeSize \in Int
    BY <2>2, ReaderAssumption DEF ReaderAssumption, Sector
  <2> HIDE DEF n
  <2>5. bad' \in Seq(SectorRange) /\ Ascending(bad') /\ Below(bad', n + 1)
    <3>1. CASE bad' = AddSector(bad, n)
      BY <2>2, <2>3, <3>1, AddSectorFacts DEF Lists
    <3>2. CASE bad' = bad
      <4>1. \A i \in DOMAIN bad : bad[i] \in SectorRange /\ GetFirstFollowingSector(bad[i]) <= n
        BY <2>3 DEF Lists, Below
      <4>2. \A i \in DOMAIN bad : GetFirstFollowingSector(bad[i]) <= n + 1
        BY <2>4, <4>1, RangeFacts
      <4>3. QED
        BY <3>2, <4>2 DEF Lists, Below
    <3>3. QED
      BY <2>1, <3>1, <3>2
  <2>6. ASSUME NEW m \in Int, n + 1 <= m PROVE Below(bad', m)
    <3>1. \A i \in DOMAIN bad' : /\ bad'[i] \in SectorRange
                                /\ GetFirstFollowingSector(bad'[i]) <= n + 1
      BY <2>5 DEF Below
    <3>2. \A i \in DOMAIN bad' : GetFirstFollowingSector(bad'[i]) <= m
      BY <2>4, <2>6, <3>1, RangeFacts
    <3>3. QED
      BY <3>2 DEF Below
  <2>7. Below(bad', VolumeSize)
    BY <2>4, <2>6
  <2>8. Asked' /\ Lists'
    BY <2>1, <2>2, <2>5, <2>7, EmptyList DEF Asked, Lists
  <2>9. ListBehind'
    <3>1. \A i \in DOMAIN OtherSectors(work) : OtherSectors(work)[i].first \in Int
      BY <2>2, RangeFacts
    <3>2. \A i \in DOMAIN OtherSectors(work) : Below(bad', OtherSectors(work)[i].first)
      BY <2>2, <2>6, <3>1
    <3>3. QED
      BY <2>1, <3>2 DEF ListBehind
  <2>10. QED
    BY <2>1, <2>8, <2>9
<1>4. QED
  BY <1>1, <1>2, <1>3

LEMMA StepListInv == ListInv /\ [Next]_vars => ListInv'
<1> SUFFICES ASSUME ListInv, [Next]_vars PROVE ListInv'
  OBVIOUS
<1>1. QED
  BY ReaderGoesOn, OthersKeepLists, MainLoopKeepsLists, RereadKeepsLists
     DEF Next, ReaderStep, Ended

LEMMA ListInvariance == Spec => []ListInv
<1>1. QED
  BY InitListInv, StepListInv, PTL DEF Spec

(* Whatever reads and writes do, the list of bad sectors is a set: the counts *)
(* that the user is shown (GetTotalCount) are those of sectors, and nothing  *)
(* on it is still to be read again.                                          *)
THEOREM ListStaysASet == Spec => []ListIsASet
<1>1. ListInv => ListIsASet
  <2> SUFFICES ASSUME ListInv, NEW s \in SectorsOf(bad), s \in SectorsOf(work)
               PROVE  FALSE
    BY DEF ListInv, Lists, ListIsASet
  <2>1. bad \in Seq(SectorRange) /\ work \in Seq(SectorRange)
    BY DEF ListInv, Lists
  <2>2. PICK i \in DOMAIN bad : s \in bad[i].first .. GetFirstFollowingSector(bad[i]) - 1
    BY <2>1, OnList
  <2>3. PICK j \in DOMAIN work : s \in work[j].first .. GetFirstFollowingSector(work[j]) - 1
    BY <2>1, OnList
  <2>4. GetFirstFollowingSector(bad[i]) <= work[j].first
    BY DEF ListInv, ListBehind, Below
  <2>5. bad[i] \in SectorRange /\ work[j] \in SectorRange
    BY <2>1
  <2>6. QED
    BY <2>2, <2>3, <2>4, <2>5, RangeFacts
<1>2. QED
  BY <1>1, ListInvariance, PTL

--------------------------------------------------------------------------------
(* The image, when blocks are read and written as a whole or not at all.     *)

Whole == ~PartialReads /\ ~PartialWrites

(* A sector of the image is right, or known to be missing. *)
Good(s) == \/ file[s] = s
           \/ file[s] = Zeros /\ (cancelled \/ s \in SectorsOf(bad) \cup SectorsOf(work))

(* The image is good up to the position, where both file pointers are. *)
GoodSoFar ==
    Looping \/ Writing =>
        /\ status = "pending" /\ filePos = done
        /\ \A s \in Sector : s < done => Good(s)

DiscBehind ==
    /\ pc \in {"loop", "paused"} => perSector \/ discPos = done
    /\ pc = "got" => discPos = done + Len(buf) /\ Len(buf) \in {0, todo}
    /\ Writing => discPos = done + todo /\ Len(buf) = todo

(* What is to be written belongs to the position. *)
BufferRight ==
    pc = "got" \/ Writing =>
        /\ buf \in Seq(Sector \cup {Zeros})
        /\ \A i \in 1 .. Len(buf) :
              \/ buf[i] = done + i - 1
              \/ buf[i] = Zeros /\ done + i - 1 \in SectorsOf(bad)

(* Bad sectors are looked at when the main loop has succeeded. *)
LoopSucceeded ==
    pc \in {"found", "decide", "reread"} \/ (pc = "asked" /\ message = "bad")
        => status = "success"

DataInv ==
    /\ DOMAIN file = Sector
    /\ GoodSoFar /\ DiscBehind /\ BufferRight /\ LoopSucceeded
    /\ ImageIsComplete

LEMMA Complete == ImageIsComplete <=> (status = "success" => \A s \in Sector : Good(s))
BY DEF ImageIsComplete, Good

LEMMA InitDataInv == Init => DataInv
<1> SUFFICES ASSUME Init PROVE DataInv
  OBVIOUS
<1>1. DOMAIN file = Sector /\ DiscBehind /\ BufferRight /\ LoopSucceeded /\ ImageIsComplete
  BY DEF Init, DiscBehind, BufferRight, LoopSucceeded, ImageIsComplete, Writing
<1>2. GoodSoFar
  BY ReaderAssumption DEF ReaderAssumption, Init, GoodSoFar, Writing, Sector
<1>3. QED
  BY <1>1, <1>2 DEF DataInv

(* Steps that leave the data alone, and go where no more is known of it. *)
LEMMA SameData ==
    ASSUME DataInv, UNCHANGED <<done, todo, perSector, buf, discPos, filePos, file, bad, work>>,
           cancelled' = cancelled \/ cancelled',
           Looping' \/ Writing' => status' = "pending" /\ (Looping \/ Writing),
           pc' = "got" => pc = "got",
           pc' \in {"loop", "paused"} => pc \in {"loop", "paused"},
           Writing' => Writing,
           LoopSucceeded',
           status' = "success" => status = "success" \/ \A s \in Sector : Good(s)
    PROVE  DataInv'
<1>1. \A s \in Sector : Good(s) => Good(s)'
  BY DEF Good
<1>2. DOMAIN file' = Sector /\ DiscBehind' /\ BufferRight'
  BY DEF DataInv, DiscBehind, BufferRight
<1>3. GoodSoFar'
  BY <1>1 DEF DataInv, GoodSoFar
<1>4. ImageIsComplete'
  <2>1. status' = "success" => \A s \in Sector : Good(s)'
    BY <1>1, Complete DEF DataInv
  <2>2. QED
    BY <2>1 DEF ImageIsComplete, Good
<1>5. QED
  BY <1>2, <1>3, <1>4 DEF DataInv

LEMMA ReaderKeepsData ==
    ASSUME ListInv, DataInv,
           \/ Aborted \/ AllDone \/ Continue \/ WriteFailed \/ AskRetry
           \/ AskBad \/ Ignored \/ RereadDone \/ Close
    PROVE  DataInv'
<1> USE DEF Looping, Writing, LoopSucceeded, progress, disc, image, badness, shared
<1>0. GoodSoFar /\ LoopSucceeded /\ Waiting
  BY DEF DataInv, ListInv
<1>1. CASE Aborted
  BY <1>1, <1>0, SameData DEF Aborted, Finish
<1>2. CASE AllDone
  <2>1. \A s \in Sector : Good(s)
    BY <1>0, <1>2, ReaderAssumption DEF ReaderAssumption, AllDone, GoodSoFar, Sector
  <2>2. QED
    BY <1>2, <2>1, SameData DEF AllDone
<1>3. CASE Continue
  BY <1>3, <1>0, SameData DEF Continue, GoodSoFar
<1>4. CASE WriteFailed
  BY <1>4, <1>0, SameData DEF WriteFailed, GoodSoFar
<1>5. CASE AskRetry
  BY <1>5, <1>0, SameData DEF AskRetry, MutexFree, Finish, GoodSoFar
<1>6. CASE AskBad
  BY <1>6, <1>0, SameData DEF AskBad, MutexFree
<1>7. CASE Ignored
  BY <1>7, <1>0, SameData DEF Ignored
<1>8. CASE RereadDone
  BY <1>8, <1>0, SameData DEF RereadDone
<1>9. CASE Close
  BY <1>9, <1>0, SameData DEF Close
<1>10. QED
  BY <1>1, <1>2, <1>3, <1>4, <1>5, <1>6, <1>7, <1>8, <1>9

LEMMA OthersKeepData ==
    ASSUME ListInv, DataInv, MainStep \/ UserStep \/ UNCHANGED vars
    PROVE  DataInv'
<1> USE DEF Looping, Writing, LoopSucceeded, progress, disc, image, badness, shared, reader
<1>0. GoodSoFar /\ LoopSucceeded /\ Waiting
  BY DEF DataInv, ListInv
<1>1. CASE UNCHANGED <<reader, message>> /\ (cancelled' = cancelled \/ cancelled')
  BY <1>1, <1>0, SameData DEF GoodSoFar
<1>2. CASE Unheard
  BY <1>2, <1>0, SameData DEF Unheard, Finish, Waiting
<1>3. CASE OnRetryCancel
  BY <1>3, <1>0, SameData DEF OnRetryCancel, Finish, Waiting, GoodSoFar
<1>4. CASE OnBadSectors
  BY <1>4, <1>0, SameData DEF OnBadSectors, Waiting
<1>5. CASE \/ SetErrorHandler \/ OnInitDialog \/ OnTimer \/ ClearErrorHandler
           \/ Abort \/ CloseFiles \/ Join
           \/ OnBnClickedPause \/ OnBnClickedCancel \/ OnClose \/ UNCHANGED vars
  BY <1>1, <1>5 DEF SetErrorHandler, OnInitDialog, OnTimer, ClearErrorHandler, Abort,
     CloseFiles, Join, OnBnClickedPause, OnBnClickedCancel, OnClose, vars
<1>6. QED
  BY <1>2, <1>3, <1>4, <1>5 DEF MainStep, UserStep

LEMMA ReadingKeepsData ==
    ASSUME Whole, ListInv, DataInv, Read \/ ReadAll \/ BlockFailed \/ SectorFailed
    PROVE  DataInv'
<1> USE DEF Looping, Writing, LoopSucceeded, progress, disc, image, badness, shared
<1>0. /\ DOMAIN file = Sector /\ GoodSoFar /\ LoopSucceeded /\ DiscBehind /\ BufferRight
      /\ Waiting /\ Asked /\ Lists /\ ListBehind
  BY DEF DataInv, ListInv
<1>1. CASE Read
  <2>1. /\ pc = "loop" /\ pc' = "got" /\ message = "none" /\ message' = message
        /\ UNCHANGED <<status, done, file, filePos, bad, work, cancelled>>
        /\ done < VolumeSize /\ done \in Int /\ done >= 0 /\ VolumeSize \in Int
    BY <1>0, <1>1, ReaderAssumption DEF ReaderAssumption, Read, Waiting, Asked
  <2>2. Todo \in Int /\ Todo >= 1 /\ done + Todo <= VolumeSize /\ todo' = Todo
    BY <1>1, <2>1, ReaderAssumption DEF ReaderAssumption, Todo, Read
  <2>3. ReadFrom = done
    BY <1>0, <2>1 DEF ReadFrom, DiscBehind
  <2>4. PICK n \in {0, Todo} : /\ buf' = [i \in 1 .. n |-> done + i - 1]
                             /\ discPos' = done + n
    BY <1>1, <2>3 DEF Read, Returned, Whole
  <2>5. n \in Nat /\ done + n <= VolumeSize
    BY <2>1, <2>2
  <2>6. \A i \in 1 .. n : done + i - 1 \in Sector
    BY <2>1, <2>5 DEF Sector
  <2>7. /\ buf' \in Seq(Sector \cup {Zeros}) /\ Len(buf') = n
        /\ \A i \in 1 .. n : buf'[i] = done + i - 1
    BY <2>4, <2>5, <2>6
  <2>8. BufferRight'
    BY <2>1, <2>7 DEF BufferRight
  <2>9. DiscBehind'
    BY <2>1, <2>2, <2>4, <2>7 DEF DiscBehind
  <2>10. \A s \in Sector : Good(s) => Good(s)'
    BY <2>1 DEF Good
  <2>11. GoodSoFar' /\ LoopSucceeded' /\ DOMAIN file' = Sector
    BY <1>0, <2>1, <2>10 DEF GoodSoFar
  <2>12. ImageIsComplete'
    BY <1>0, <2>1 DEF GoodSoFar, ImageIsComplete
  <2>13. QED
    BY <2>8, <2>9, <2>11, <2>12 DEF DataInv
<1>2. CASE ReadAll
  <2>1. /\ pc = "got" /\ pc' = "write" /\ message = "none" /\ message' = message
        /\ UNCHANGED <<status, done, todo, buf, discPos, file, filePos, bad, work, cancelled>>
        /\ Len(buf) = todo
    BY <1>0, <1>2 DEF ReadAll, Waiting
  <2>2. BufferRight' /\ DiscBehind' /\ DOMAIN file' = Sector /\ LoopSucceeded'
    BY <1>0, <2>1 DEF BufferRight, DiscBehind
  <2>3. \A s \in Sector : Good(s) => Good(s)'
    BY <2>1 DEF Good
  <2>4. GoodSoFar' /\ ImageIsComplete'
    BY <1>0, <2>1, <2>3 DEF GoodSoFar, ImageIsComplete
  <2>5. QED
    BY <2>2, <2>4 DEF DataInv
<1>3. CASE BlockFailed
  <2>1. /\ pc = "got" /\ perSector' /\ message = "none" /\ message' = message
        /\ UNCHANGED <<status, done, todo, buf, discPos, file, filePos, bad, work, cancelled>>
        /\ Len(buf) < todo /\ pc' = IF buf = <<>> THEN "loop" ELSE "write"
    BY <1>0, <1>3 DEF BlockFailed, Waiting
  <2>2. buf = <<>>
    <3>1. todo \in Int /\ Len(buf) \in {0, todo} /\ buf \in Seq(Sector \cup {Zeros})
      BY <1>0, <2>1, ReaderAssumption DEF ReaderAssumption, Asked, DiscBehind, BufferRight
    <3>2. Len(buf) = 0
      BY <2>1, <3>1
    <3>3. QED
      BY <3>1, <3>2
  <2>3. pc' = "loop"
    BY <2>1, <2>2
  <2>4. BufferRight' /\ DiscBehind' /\ DOMAIN file' = Sector /\ LoopSucceeded'
    BY <1>0, <2>1, <2>3 DEF BufferRight, DiscBehind
  <2>5. \A s \in Sector : Good(s) => Good(s)'
    BY <2>1 DEF Good
  <2>6. GoodSoFar' /\ ImageIsComplete'
    BY <1>0, <2>1, <2>3, <2>5 DEF GoodSoFar, ImageIsComplete
  <2>7. QED
    BY <2>4, <2>6 DEF DataInv
<1>4. CASE SectorFailed
  <2>1. /\ pc = "got" /\ message = "none" /\ message' = message
        /\ UNCHANGED <<done, todo, perSector, file, filePos, work, cancelled>>
        /\ todo = 1 /\ done \in Sector /\ done \in Int
    BY <1>0, <1>4, ReaderAssumption
       DEF ReaderAssumption, SectorFailed, Waiting, Asked, Sector
  <2>2. CASE done = 0
    <3>1. pc' = "closing" /\ status' = "error" /\ UNCHANGED <<buf, discPos, bad>>
      BY <1>4, <2>2 DEF SectorFailed, Finish
    <3>2. QED
      BY <2>1, <3>1, SameData
  <2>3. CASE done # 0
    <3>1. /\ pc' = "write" /\ bad' = AddSector(bad, done) /\ buf' = <<Zeros>>
          /\ discPos' = done + 1 /\ status' = status
      BY <1>4, <2>3 DEF SectorFailed
    <3>2. SectorsOf(bad') = SectorsOf(bad) \cup {done}
      BY <1>0, <2>1, <3>1, AddSectorFacts DEF Lists, ListBehind
    <3>3. buf' \in Seq(Sector \cup {Zeros}) /\ Len(buf') = 1 /\ buf'[1] = Zeros
      BY <3>1
    <3>4. BufferRight' /\ DiscBehind' /\ DOMAIN file' = Sector /\ LoopSucceeded'
      BY <1>0, <2>1, <3>1, <3>2, <3>3 DEF BufferRight, DiscBehind
    <3>5. \A s \in Sector : Good(s) => Good(s)'
      BY <2>1, <3>2 DEF Good
    <3>6. GoodSoFar' /\ ImageIsComplete'
      BY <1>0, <2>1, <3>1, <3>5 DEF GoodSoFar, ImageIsComplete
    <3>7. QED
      BY <3>4, <3>6 DEF DataInv
  <2>4. QED
    BY <2>2, <2>3
<1>5. QED
  BY <1>1, <1>2, <1>3, <1>4

LEMMA WritingKeepsData ==
    ASSUME Whole, ListInv, DataInv, Write
    PROVE  DataInv'
<1> USE DEF Looping, Writing, LoopSucceeded, progress, disc, image, badness, shared
<1>0. /\ DOMAIN file = Sector /\ GoodSoFar /\ LoopSucceeded /\ DiscBehind /\ BufferRight
      /\ Waiting /\ Asked
  BY DEF DataInv, ListInv
<1>1. /\ pc = "write" /\ message = "none" /\ message' = message
      /\ UNCHANGED <<status, todo, perSector, buf, discPos, bad, work, cancelled>>
      /\ filePos = done /\ done \in Int /\ done >= 0 /\ status = "pending"
      /\ todo \in Int /\ todo >= 1 /\ done + todo <= VolumeSize
      /\ Len(buf) = todo /\ buf \in Seq(Sector \cup {Zeros}) /\ VolumeSize \in Int
      /\ discPos = done + todo
  BY <1>0, ReaderAssumption
     DEF ReaderAssumption, Write, Waiting, GoodSoFar, Asked, DiscBehind, BufferRight
<1>2. PICK n \in Accepted :
        /\ file' = Stored(SubSeq(buf, 1, n)) /\ filePos' = filePos + n
        /\ done' = IF n = 0 THEN done ELSE done + todo
        /\ pc' = IF n = 0 THEN "failed" ELSE IF paused THEN "paused" ELSE "loop"
  BY DEF Write
<1>3. n \in {0, todo}
  BY <1>1 DEF Accepted, Whole
<1>4. DOMAIN file' = Sector /\ LoopSucceeded'
  BY <1>1, <1>2 DEF Stored
<1>5. CASE n = 0
  <2>1. \A s \in Sector : file'[s] = file[s]
    <3>1. Len(SubSeq(buf, 1, 0)) = 0
      BY <1>1
    <3>2. \A s \in Sector : s - filePos \notin 0 .. 0 - 1
      BY <1>1 DEF Sector
    <3>3. QED
      BY <1>2, <1>5, <3>1, <3>2 DEF Stored
  <2>2. \A s \in Sector : Good(s) => Good(s)'
    BY <1>1, <2>1 DEF Good
  <2>3. filePos' = done /\ done' = done /\ pc' = "failed"
    BY <1>1, <1>2, <1>5
  <2>4. BufferRight' /\ DiscBehind'
    BY <1>0, <1>1, <2>3 DEF BufferRight, DiscBehind
  <2>5. GoodSoFar' /\ ImageIsComplete'
    BY <1>0, <1>1, <2>2, <2>3 DEF GoodSoFar, ImageIsComplete
  <2>6. QED
    BY <1>4, <2>4, <2>5 DEF DataInv
<1>6. CASE n = todo
  <2>1. filePos' = done + todo /\ done' = done + todo /\ pc' \in {"paused", "loop"}
    BY <1>1, <1>2, <1>6
  <2>2. SubSeq(buf, 1, n) = buf
    BY <1>1, <1>6
  <2>3. \A s \in Sector : file'[s] = IF s - done \in 0 .. todo - 1
                                    THEN buf[s - done + 1] ELSE file[s]
    BY <1>1, <1>2, <2>2 DEF Stored
  <2>4. ASSUME NEW s \in Sector, s < done + todo PROVE Good(s)'
    <3>0. s \in Int
      BY <1>1 DEF Sector
    <3>1. CASE s < done
      <4>1. Good(s)
        BY <1>0, <1>1, <3>1 DEF GoodSoFar
      <4>2. file'[s] = file[s]
        BY <1>1, <2>3, <3>0, <3>1
      <4>3. QED
        BY <1>1, <4>1, <4>2 DEF Good
    <3>2. CASE s >= done
      <4> DEFINE i == s - done + 1
      <4>1. i \in 1 .. Len(buf) /\ done + i - 1 = s /\ file'[s] = buf[i]
        BY <1>1, <2>3, <2>4, <3>0, <3>2
      <4>2. buf[i] = s \/ (buf[i] = Zeros /\ s \in SectorsOf(bad))
        BY <1>0, <1>1, <4>1 DEF BufferRight
      <4>3. QED
        BY <1>1, <4>1, <4>2 DEF Good
    <3>3. QED
      BY <1>1, <3>0, <3>1, <3>2
  <2>5. BufferRight' /\ DiscBehind'
    BY <1>1, <2>1 DEF BufferRight, DiscBehind
  <2>6. GoodSoFar' /\ ImageIsComplete'
    BY <1>1, <2>1, <2>4 DEF GoodSoFar, ImageIsComplete
  <2>7. QED
    BY <1>4, <2>5, <2>6 DEF DataInv
<1>7. QED
  BY <1>3, <1>5, <1>6

LEMMA RereadKeepsData ==
    ASSUME ListInv, DataInv, RereadStart \/ RereadFails \/ RereadSector
    PROVE  DataInv'
<1> USE DEF Looping, Writing, LoopSucceeded, progress, disc, image, badness, shared
<1>0. /\ DOMAIN file = Sector /\ LoopSucceeded /\ Waiting /\ Lists /\ ListBehind
      /\ ImageIsComplete
  BY DEF DataInv, ListInv
<1>1. CASE RereadStart
  <2>1. /\ pc \in {"decide", "found"} /\ pc' = "reread" /\ work = <<>>
        /\ work' = bad /\ bad' = <<>> /\ message = "none" /\ message' = message
        /\ UNCHANGED <<status, file, cancelled>>
    BY <1>0, <1>1 DEF RereadStart, Detached, Waiting, Lists
  <2>2. \A s \in Sector : Good(s) => Good(s)'
    BY <2>1 DEF Good, SectorsOf
  <2>3. ImageIsComplete'
    <3>1. status' = "success" => \A s \in Sector : Good(s)'
      BY <1>0, <2>1, <2>2, Complete
    <3>2. QED
      BY <3>1 DEF ImageIsComplete, Good
  <2>4. QED
    BY <1>0, <2>1, <2>3 DEF DataInv, GoodSoFar, DiscBehind, BufferRight
<1>2. CASE RereadFails
  <2>1. /\ pc' = "closing" /\ status' # "success" /\ file' = file
    BY <1>2 DEF RereadFails, Finish
  <2>2. QED
    BY <1>0, <2>1 DEF DataInv, GoodSoFar, DiscBehind, BufferRight, ImageIsComplete
<1>3. CASE RereadSector
  <2> DEFINE n == FirstSector(work)
  <2>1. /\ pc = "reread" /\ work # <<>> /\ message = "none" /\ message' = message
        /\ cancelled' = cancelled /\ pc' \in {"closing", "reread"} /\ status = "success"
        /\ \/ file' = [file EXCEPT ![n] = n] /\ bad' = bad
           \/ file' = file /\ bad' = AddSector(bad, n)
        /\ \/ status' = "aborted" /\ pc' = "closing"
           \/ cancelled /\ pc' = "closing"
           \/ status' = status /\ work' = OtherSectors(work)
    BY <1>0, <1>3 DEF RereadSector, Finish, Rewritten, CancelSeen, Waiting
  <2>2. n \in Sector /\ SectorsOf(work) = SectorsOf(OtherSectors(work)) \cup {n}
    BY <1>0, <2>1, OtherSectorsFacts DEF Lists
  <2>3. SectorsOf(AddSector(bad, n)) = SectorsOf(bad) \cup {n}
    <3>1. 1 \in DOMAIN work /\ n = work[1].first
      BY <1>0, <2>1 DEF Lists, FirstSector
    <3>2. Below(bad, n)
      BY <1>0, <3>1 DEF ListBehind
    <3>3. QED
      BY <1>0, <2>2, <3>2, AddSectorFacts DEF Lists
  <2> HIDE DEF n
  <2>4. ASSUME NEW s \in Sector, status' = "success" PROVE Good(s)'
    <3>1. Good(s)
      BY <1>0, <2>1, Complete
    <3>2. file'[s] = file[s] \/ file'[s] = s
      BY <1>0, <2>1, <2>2
    <3>3. CASE cancelled
      BY <2>1, <3>1, <3>2, <3>3 DEF Good
    <3>4. CASE ~cancelled
      <4>1. work' = OtherSectors(work)
        BY <2>1, <2>4, <3>4
      <4>2. CASE s = n /\ file' = [file EXCEPT ![n] = n]
        BY <1>0, <4>2 DEF Good
      <4>3. CASE s = n /\ bad' = AddSector(bad, n) /\ file' = file
        BY <2>3, <3>1, <4>3 DEF Good
      <4>4. CASE s # n
        <5>1. SectorsOf(bad) \subseteq SectorsOf(bad')
          BY <2>1, <2>3
        <5>2. s \in SectorsOf(work) => s \in SectorsOf(work')
          BY <2>2, <4>1, <4>4
        <5>3. file'[s] = file[s]
          BY <1>0, <2>1, <2>2, <4>4
        <5>4. QED
          BY <2>1, <3>1, <5>1, <5>2, <5>3 DEF Good
      <4>5. QED
        BY <2>1, <4>2, <4>3, <4>4
    <3>5. QED
      BY <3>3, <3>4
  <2>5. ImageIsComplete'
    BY <2>4 DEF ImageIsComplete, Good
  <2>6. DOMAIN file' = Sector
    BY <1>0, <2>1
  <2>7. LoopSucceeded'
    BY <2>1
  <2>8. QED
    BY <2>1, <2>5, <2>6, <2>7 DEF DataInv, GoodSoFar, DiscBehind, BufferRight
<1>4. QED
  BY <1>1, <1>2, <1>3

LEMMA StepDataInv == Whole /\ ListInv /\ DataInv /\ [Next]_vars => DataInv'
<1> SUFFICES ASSUME Whole, ListInv, DataInv, [Next]_vars PROVE DataInv'
  OBVIOUS
<1>1. QED
  BY ReaderKeepsData, OthersKeepData, ReadingKeepsData, WritingKeepsData, RereadKeepsData
     DEF Next, ReaderStep, Ended

(* For any disc and any size of blocks, a reading that counts as successful   *)
(* has left every sector of the image as it is on the disc, or is known to    *)
(* miss it, when blocks are read and written as a whole or not at all.        *)
THEOREM SuccessIsComplete ==
    ASSUME Whole
    PROVE  Spec => []ImageIsComplete
<1>1. DataInv => ImageIsComplete
  BY DEF DataInv
<1>2. ListInv /\ DataInv /\ [Next]_vars => DataInv'
  BY StepDataInv
<1>3. QED
  BY <1>1, <1>2, InitDataInv, ListInvariance, PTL DEF Spec

--------------------------------------------------------------------------------
(* The numbers that the user is shown.                                       *)

(* count[i] is the number of sectors in the first i ranges. *)
Counts(count, list) ==
    count = [i \in 0 .. Len(list) |-> IF i = 0 THEN 0 ELSE count[i - 1] + list[i].count]

LEMMA CountsExist ==
    ASSUME NEW list \in Seq(SectorRange)
    PROVE  \E count : Counts(count, list)
<1> DEFINE step == [i \in 1 .. Len(list) |-> [c \in Int |-> c + list[i].count]]
<1>1. Len(list) \in Nat /\ \A i \in 1 .. Len(list) : list[i].count \in Int
  BY RangeFacts
<1>2. step \in [1 .. Len(list) -> [Int -> Int]]
  BY <1>1
<1>3. \A i \in 1 .. Len(list), c \in Int : step[i][c] = c + list[i].count
  OBVIOUS
<1> HIDE DEF step
<1>4. PICK count : Recursive(count, Len(list), Int, 0, step)
  <2> DEFINE n == Len(list)
             zero == 0
  <2>1. n \in Nat /\ zero \in Int /\ step \in [1 .. n -> [Int -> Int]]
    BY <1>1, <1>2
  <2> HIDE DEF n, zero
  <2>2. \E count : Recursive(count, n, Int, zero, step)
    BY <2>1, Recursion
  <2>3. QED
    BY <2>2 DEF n, zero
<1>5. ASSUME NEW i \in 0 .. Len(list), i # 0
      PROVE  step[i][count[i - 1]] = count[i - 1] + list[i].count
  <2>1. i \in 1 .. Len(list) /\ i - 1 \in 0 .. Len(list)
    BY <1>1, <1>5
  <2>2. count[i - 1] \in Int
    BY <1>4, <2>1 DEF Recursive
  <2>3. QED
    BY <1>3, <2>1, <2>2
<1>6. QED
  BY <1>1, <1>4, <1>5 DEF Recursive, Counts

LEMMA TotalIsCount ==
    ASSUME NEW list \in Seq(SectorRange)
    PROVE  \E count : Counts(count, list) /\ GetTotalCount(list) = count[Len(list)]
<1> DEFINE c == CHOOSE count : Counts(count, list)
<1>1. Counts(c, list)
  BY CountsExist
<1>2. GetTotalCount(list) = c[Len(list)]
  BY DEF GetTotalCount, Counts
<1> HIDE DEF c
<1>3. QED
  BY <1>1, <1>2

RangeOf(r) == r.first .. GetFirstFollowingSector(r) - 1

LEMMA RangeSize ==
    ASSUME NEW r \in SectorRange
    PROVE  IsFiniteSet(RangeOf(r)) /\ Cardinality(RangeOf(r)) = r.count /\ r.count \in Nat
<1>1. /\ r.first \in Int /\ r.count \in Int /\ r.count >= 1
      /\ GetFirstFollowingSector(r) = r.first + r.count
  BY RangeFacts
<1>2. QED
  BY <1>1, FS_Interval DEF RangeOf

(* Ranges that do not overlap: their counts add up. *)
LEMMA CountsSectors ==
    ASSUME NEW list \in Seq(SectorRange), Ascending(list), NEW count, Counts(count, list)
    PROVE  /\ IsFiniteSet(SectorsOf(list)) /\ count[Len(list)] = Cardinality(SectorsOf(list))
<1> DEFINE size == Len(list)
           first(i) == UNION {RangeOf(list[k]) : k \in 1 .. i}
           Right == {i \in 0 .. size : /\ IsFiniteSet(first(i))
                                       /\ count[i] = Cardinality(first(i))}
<1>1. size \in Nat /\ DOMAIN list = 1 .. size /\ \A i \in 1 .. size : list[i] \in SectorRange
  OBVIOUS
<1>2. 0 \in Right
  <2>1. first(0) = {}
    OBVIOUS
  <2>2. count[0] = 0
    BY <1>1 DEF Counts
  <2>3. 0 \in 0 .. size
    BY <1>1
  <2> HIDE DEF first, size
  <2>4. QED
    BY <2>1, <2>2, <2>3, FS_EmptySet
<1>3. ASSUME NEW i \in 0 .. size - 1, i \in Right
      PROVE  i + 1 \in Right
  <2> DEFINE new == RangeOf(list[i + 1])
  <2>1. i \in 0 .. size /\ i + 1 \in 1 .. size /\ i + 1 \in 0 .. size /\ i + 1 # 0 /\ (i + 1) - 1 = i
    BY <1>1
  <2>2. list[i + 1] \in SectorRange
    BY <1>1, <2>1
  <2>3. count[i + 1] = count[i] + list[i + 1].count
    BY <2>1 DEF Counts
  <2>4. first(i + 1) = first(i) \cup new
    <3>1. 1 .. i + 1 = (1 .. i) \cup {i + 1}
      BY <2>1
    <3>2. QED
      BY <3>1
  <2>5. first(i) \cap new = {}
    <3> SUFFICES ASSUME NEW k \in 1 .. i, NEW s \in RangeOf(list[k]), s \in new
                 PROVE  FALSE
      OBVIOUS
    <3>1. k \in 1 .. size /\ k < i + 1
      BY <1>1, <2>1
    <3>2. GetFirstFollowingSector(list[k]) < list[i + 1].first /\ list[k] \in SectorRange
      BY <1>1, <2>1, <3>1 DEF Ascending
    <3>3. QED
      BY <2>2, <3>2, RangeFacts DEF RangeOf
  <2>6. IsFiniteSet(new) /\ Cardinality(new) = list[i + 1].count /\ list[i + 1].count \in Nat
    BY <2>2, RangeSize
  <2>7. IsFiniteSet(first(i)) /\ count[i] = Cardinality(first(i))
    BY <1>3
  <2> HIDE DEF first, new, size
  <2>8. /\ IsFiniteSet(first(i) \cup new)
        /\ Cardinality(first(i) \cup new)
              = Cardinality(first(i)) + Cardinality(new) - Cardinality(first(i) \cap new)
    BY <2>6, <2>7, FS_Union
  <2>9. Cardinality(first(i) \cap new) = 0 /\ Cardinality(first(i)) \in Nat
    BY <2>5, <2>7, FS_EmptySet, FS_CardinalityType
  <2>10. Cardinality(first(i) \cup new) = Cardinality(first(i)) + list[i + 1].count
    <3>1. Cardinality(first(i) \cup new) = Cardinality(first(i)) + list[i + 1].count - 0
      BY <2>6, <2>8, <2>9
    <3>2. QED
      BY <2>6, <2>9, <3>1
  <2>11. count[i + 1] = Cardinality(first(i + 1)) /\ IsFiniteSet(first(i + 1))
    BY <2>3, <2>4, <2>7, <2>8, <2>10
  <2>12. QED
    BY <2>1, <2>11 DEF Right
<1>4. first(size) = SectorsOf(list)
  BY <1>1 DEF SectorsOf, RangeOf
<1> HIDE DEF Right, first, size
<1>5. \A i \in 0 .. size - 1 : i \in Right => i + 1 \in Right
  BY <1>3
<1>6. size \in Right
  <2>1. \A i \in 0 .. size : i \in Right
    BY <1>1, <1>2, <1>5, UpTo
  <2>2. QED
    BY <1>1, <2>1
<1>7. QED
  BY <1>4, <1>6 DEF Right, size

(* A list of bad sectors, however long, whose ranges follow each other without   *)
(* touching: the sum of their counts is the number of the sectors on the list.   *)
THEOREM TotalCountsSectors ==
    ASSUME NEW list \in Seq(SectorRange), Ascending(list)
    PROVE  GetTotalCount(list) = Cardinality(SectorsOf(list))
<1>1. PICK count : Counts(count, list) /\ GetTotalCount(list) = count[Len(list)]
  BY TotalIsCount
<1>2. QED
  BY <1>1, CountsSectors

LEMMA TotalFits ==
    ASSUME NEW list \in Seq(SectorRange), Ascending(list), Below(list, VolumeSize)
    PROVE  GetTotalCount(list) \in 0 .. VolumeSize
<1>1. SectorsOf(list) \subseteq Sector
  <2> SUFFICES ASSUME NEW s \in SectorsOf(list)
               PROVE  s \in Sector
    OBVIOUS
  <2>1. PICK i \in DOMAIN list : s \in list[i].first .. GetFirstFollowingSector(list[i]) - 1
    BY OnList
  <2>2. list[i] \in SectorRange /\ GetFirstFollowingSector(list[i]) <= VolumeSize
    BY DEF Below
  <2>3. QED
    BY <2>1, <2>2, RangeFacts, ReaderAssumption DEF ReaderAssumption, Sector
<1>2. IsFiniteSet(Sector) /\ Cardinality(Sector) = VolumeSize
  <2>1. /\ 0 \in Int /\ VolumeSize - 1 \in Int /\ ~(0 > VolumeSize - 1)
        /\ (VolumeSize - 1) - 0 + 1 = VolumeSize
    BY ReaderAssumption DEF ReaderAssumption
  <2>2. QED
    BY <2>1, FS_Interval DEF Sector
<1>3. /\ Cardinality(SectorsOf(list)) \in Nat
      /\ Cardinality(SectorsOf(list)) <= VolumeSize
  BY <1>1, <1>2, FS_Subset, FS_CardinalityType
<1>4. QED
  BY <1>3, TotalCountsSectors, ReaderAssumption DEF ReaderAssumption

--------------------------------------------------------------------------------
(* The types of the variables, for readers and writers that do as much as    *)
(* they like.                                                                *)

(* What takes its values from a fixed set. *)
Control ==
    /\ pc \in {"loop", "got", "write", "failed", "asking", "asked", "paused",
               "found", "decide", "reread", "closing", "dead"}
    /\ status \in {"pending", "success", "aborted", "error"}
    /\ action \in {"Ignore", "RereadOnce", "RereadContinuous"}
    /\ {perSector, abort, cancelled, paused, handler} \subseteq BOOLEAN
    /\ main \in {"starting", "creating", "dialog", "detaching", "aborting",
                 "closing", "joining", "ended"}
    /\ told \in {"nothing", "asked", "error", "success"}

(* What depends on the disc and the blocks. *)
Data ==
    /\ {endOfFailedBlock, discPos, filePos, queued} \subseteq 0 .. VolumeSize
    /\ todo \in 0 .. BufferSize
    /\ buf \in Seq(Sector \cup {Zeros})
    /\ file \in [Sector -> Sector \cup {Zeros, Unwritten}]

(* Neither file pointer gets ahead of what counts as done: without that, a  *)
(* block read from the one or written at the other would end past the disc. *)
Positions ==
    /\ pc \in {"loop", "paused"} => discPos <= done /\ filePos <= done
    /\ pc = "got" => discPos <= done + Len(buf) /\ Len(buf) <= todo /\ filePos <= done
    /\ Writing => discPos <= done + todo /\ Len(buf) <= todo /\ filePos <= done

TypeInv == Control /\ Data /\ Positions

LEMMA Types == ListInv /\ Control /\ Data => TypeOK
<1> SUFFICES ASSUME ListInv, Control, Data PROVE TypeOK
  OBVIOUS
<1>1. /\ done \in 0 .. VolumeSize /\ message \in {"none", "retry", "bad"}
      /\ bad \in Seq(SectorRange) /\ work \in Seq(SectorRange)
  BY DEF ListInv, Waiting, Asked, Lists
<1>2. QED
  BY <1>1 DEF TypeOK, Control, Data

LEMMA InitTypeInv == Init => TypeInv
<1> SUFFICES ASSUME Init PROVE TypeInv
  OBVIOUS
<1>1. VolumeSize \in Nat /\ BufferSize \in Nat
  BY ReaderAssumption DEF ReaderAssumption
<1>2. Control
  BY DEF Init, Control
<1>3. Data
  BY <1>1 DEF Init, Data
<1>4. Positions
  BY DEF Init, Positions, Writing
<1>5. QED
  BY <1>2, <1>3, <1>4 DEF TypeInv

LEMMA ReaderKeepsControl == Control /\ ReaderStep => Control'
<1> SUFFICES ASSUME Control, ReaderStep PROVE Control'
  OBVIOUS
<1> USE DEF Control, Finish, progress, badness, shared, dialog
<1>1. CASE Aborted
  BY <1>1 DEF Aborted
<1>2. CASE AllDone
  BY <1>2 DEF AllDone
<1>3. CASE Read
  BY <1>3 DEF Read
<1>4. CASE ReadAll
  BY <1>4 DEF ReadAll
<1>5. CASE BlockFailed
  BY <1>5 DEF BlockFailed
<1>6. CASE SectorFailed
  BY <1>6 DEF SectorFailed
<1>7. CASE Write
  BY <1>7 DEF Write
<1>8. CASE Continue
  BY <1>8 DEF Continue
<1>9. CASE WriteFailed
  BY <1>9 DEF WriteFailed
<1>10. CASE AskRetry
  BY <1>10 DEF AskRetry
<1>11. CASE AskBad
  BY <1>11 DEF AskBad
<1>12. CASE Ignored
  BY <1>12 DEF Ignored
<1>13. CASE RereadStart
  BY <1>13 DEF RereadStart
<1>14. CASE RereadFails
  BY <1>14 DEF RereadFails
<1>15. CASE RereadSector
  BY <1>15 DEF RereadSector
<1>16. CASE RereadDone
  BY <1>16 DEF RereadDone
<1>17. CASE Close
  BY <1>17 DEF Close
<1>18. QED
  BY <1>1, <1>2, <1>3, <1>4, <1>5, <1>6, <1>7, <1>8, <1>9, <1>10, <1>11,
     <1>12, <1>13, <1>14, <1>15, <1>16, <1>17 DEF ReaderStep

LEMMA OthersKeepControl == Control /\ (MainStep \/ UserStep) => Control'
<1> SUFFICES ASSUME Control, MainStep \/ UserStep PROVE Control'
  OBVIOUS
<1> USE DEF Control, Finish, reader, progress, badness, shared, dialog
<1>1. CASE SetErrorHandler \/ OnInitDialog \/ ClearErrorHandler
  BY <1>1 DEF SetErrorHandler, OnInitDialog, ClearErrorHandler
<1>2. CASE OnTimer
  BY <1>2 DEF OnTimer
<1>3. CASE Unheard
  BY <1>3 DEF Unheard
<1>4. CASE Abort
  BY <1>4 DEF Abort, Resumed
<1>5. CASE CloseFiles \/ Join
  BY <1>5 DEF CloseFiles, Join
<1>6. CASE OnBnClickedPause \/ OnBnClickedCancel \/ OnClose
  BY <1>6 DEF OnBnClickedPause, OnBnClickedCancel, OnClose
<1>7. CASE OnRetryCancel
  BY <1>7 DEF OnRetryCancel
<1>8. CASE OnBadSectors
  BY <1>8 DEF OnBadSectors
<1>9. QED
  BY <1>1, <1>2, <1>3, <1>4, <1>5, <1>6, <1>7, <1>8 DEF MainStep, UserStep

(* Steps that leave the positions and the contents alone, and go where less, *)
(* or the same, is known of the positions.                                   *)
LEMMA SameContents ==
    ASSUME TypeInv, UNCHANGED <<done, todo, endOfFailedBlock, disc, image>>,
           queued' \in 0 .. VolumeSize,
           Looping' => pc' = pc \/ (pc = "paused" /\ pc' = "loop"),
           Writing' => Writing
    PROVE  Data' /\ Positions'
<1>1. Data'
  BY DEF TypeInv, Data, disc, image
<1>2. Positions'
  BY DEF TypeInv, Positions, disc, image, Looping
<1>3. QED
  BY <1>1, <1>2

LEMMA ReaderKeepsContents ==
    ASSUME ListInv, TypeInv,
           \/ Aborted \/ AllDone \/ Continue \/ WriteFailed \/ AskRetry
           \/ AskBad \/ Ignored \/ RereadStart \/ RereadFails \/ RereadDone \/ Close
    PROVE  Data' /\ Positions'
<1>1. queued \in 0 .. VolumeSize /\ 0 \in 0 .. VolumeSize
  BY ReaderAssumption DEF ReaderAssumption, TypeInv, Data
<1> USE DEF Looping, Writing, Finish, progress, badness, shared
<1>2. CASE Aborted
  BY <1>1, <1>2, SameContents DEF Aborted
<1>3. CASE AllDone
  BY <1>1, <1>3, SameContents DEF AllDone
<1>4. CASE Continue
  BY <1>1, <1>4, SameContents DEF Continue
<1>5. CASE WriteFailed
  BY <1>1, <1>5, SameContents DEF WriteFailed
<1>6. CASE AskRetry
  BY <1>1, <1>6, SameContents DEF AskRetry
<1>7. CASE AskBad
  BY <1>1, <1>7, SameContents DEF AskBad
<1>8. CASE Ignored
  BY <1>1, <1>8, SameContents DEF Ignored
<1>9. CASE RereadStart
  <2>1. GetTotalCount(bad) \in 0 .. VolumeSize
    BY TotalFits DEF ListInv, Lists
  <2>2. QED
    BY <1>9, <2>1, SameContents DEF RereadStart
<1>10. CASE RereadFails
  BY <1>1, <1>10, SameContents DEF RereadFails
<1>11. CASE RereadDone
  BY <1>1, <1>11, SameContents DEF RereadDone
<1>12. CASE Close
  BY <1>1, <1>12, SameContents DEF Close
<1>13. QED
  BY <1>2, <1>3, <1>4, <1>5, <1>6, <1>7, <1>8, <1>9, <1>10, <1>11, <1>12

LEMMA OthersKeepContents ==
    ASSUME ListInv, TypeInv, MainStep \/ UserStep \/ UNCHANGED vars
    PROVE  Data' /\ Positions'
<1>1. queued \in 0 .. VolumeSize
  BY DEF TypeInv, Data
<1> USE DEF Looping, Writing, Finish, reader, progress, badness, shared, ListInv, Waiting
<1>2. CASE SetErrorHandler \/ OnInitDialog \/ ClearErrorHandler
  BY <1>1, <1>2, SameContents DEF SetErrorHandler, OnInitDialog, ClearErrorHandler
<1>3. CASE OnTimer \/ Abort \/ CloseFiles \/ Join
  BY <1>1, <1>3, SameContents DEF OnTimer, Abort, CloseFiles, Join
<1>4. CASE Unheard
  BY <1>1, <1>4, SameContents DEF Unheard
<1>5. CASE OnBnClickedPause \/ OnBnClickedCancel \/ OnClose
  BY <1>1, <1>5, SameContents DEF OnBnClickedPause, OnBnClickedCancel, OnClose
<1>6. CASE OnRetryCancel
  BY <1>1, <1>6, SameContents DEF OnRetryCancel
<1>7. CASE OnBadSectors
  BY <1>1, <1>7, SameContents DEF OnBadSectors
<1>8. CASE UNCHANGED vars
  BY <1>1, <1>8, SameContents DEF vars
<1>9. QED
  BY <1>2, <1>3, <1>4, <1>5, <1>6, <1>7, <1>8 DEF MainStep, UserStep

(* What is read fits on the disc. *)
LEMMA ReadingKeepsContents ==
    ASSUME ListInv, TypeInv, Read \/ ReadAll \/ BlockFailed \/ SectorFailed
    PROVE  Data' /\ Positions'
<1>1. /\ VolumeSize \in Nat /\ BufferSize \in Nat \ {0}
      /\ \A x : x \in Sector <=> x \in 0 .. VolumeSize - 1
  BY ReaderAssumption DEF ReaderAssumption, Sector
<1>2. /\ done \in 0 .. VolumeSize /\ discPos \in 0 .. VolumeSize
      /\ filePos \in 0 .. VolumeSize /\ todo \in 0 .. BufferSize
      /\ endOfFailedBlock \in 0 .. VolumeSize /\ queued \in 0 .. VolumeSize
      /\ buf \in Seq(Sector \cup {Zeros}) /\ Len(buf) \in Nat
      /\ file \in [Sector -> Sector \cup {Zeros, Unwritten}]
  BY DEF ListInv, Asked, TypeInv, Data
<1> USE DEF progress, disc, image, badness
<1>3. CASE Read
  <2>1. /\ pc = "loop" /\ done < VolumeSize /\ todo' = Todo /\ pc' = "got"
        /\ UNCHANGED <<done, endOfFailedBlock, filePos, file, queued>>
    BY <1>3 DEF Read
  <2>2. PICK n \in Returned : /\ buf' = [i \in 1 .. n |-> ReadFrom + i - 1]
                              /\ discPos' = ReadFrom + n
    BY <1>3 DEF Read
  <2>3. Todo \in 1 .. VolumeSize - done /\ Todo \in 0 .. BufferSize
    BY <1>1, <1>2, <2>1 DEF Todo
  <2>4. n \in 0 .. Todo
    BY <2>3 DEF Returned
  <2>5. ReadFrom \in Nat /\ ReadFrom <= done
    BY <1>1, <1>2, <2>1 DEF ReadFrom, TypeInv, Positions
  <2>6. /\ n \in Nat /\ n <= Todo /\ discPos' <= done + n /\ discPos' \in 0 .. VolumeSize
    BY <1>1, <1>2, <2>2, <2>3, <2>4, <2>5
  <2>7. buf' \in Seq(Sector \cup {Zeros}) /\ Len(buf') = n
    <3>1. \A i \in 1 .. n : ReadFrom + i - 1 \in Sector
      BY <1>1, <1>2, <2>3, <2>5, <2>6
    <3>2. QED
      BY <2>2, <2>6, <3>1
  <2>8. Data'
    BY <1>2, <2>1, <2>3, <2>6, <2>7 DEF Data
  <2>9. filePos <= done
    BY <2>1 DEF TypeInv, Positions
  <2>10. Positions'
    BY <2>1, <2>6, <2>7, <2>9 DEF Positions, Writing
  <2>11. QED
    BY <2>8, <2>10
<1>4. CASE ReadAll \/ BlockFailed
  <2>1. /\ pc = "got" /\ pc' \in {"write", "loop"}
        /\ pc' = "loop" => buf = <<>>
        /\ endOfFailedBlock' \in {endOfFailedBlock, done + todo}
        /\ UNCHANGED <<done, todo, discPos, buf, filePos, file, queued>>
    BY <1>4 DEF ReadAll, BlockFailed
  <2>2. todo \in 1 .. VolumeSize - done
    BY <2>1 DEF ListInv, Asked
  <2>3. /\ discPos <= done + Len(buf) /\ Len(buf) <= todo /\ filePos <= done
    BY <2>1 DEF TypeInv, Positions
  <2>4. endOfFailedBlock' \in 0 .. VolumeSize
    BY <1>1, <1>2, <2>1, <2>2
  <2>5. Data'
    BY <1>2, <2>1, <2>4 DEF Data
  <2>6. CASE pc' = "write"
    <3>1. discPos <= done + todo
      BY <1>1, <1>2, <2>2, <2>3
    <3>2. QED
      BY <2>1, <2>3, <2>5, <2>6, <3>1 DEF Positions
  <2>7. CASE pc' = "loop"
    <3>1. Len(buf) = 0
      BY <2>1, <2>7
    <3>2. discPos <= done
      BY <1>2, <2>3, <3>1
    <3>3. QED
      BY <2>1, <2>3, <2>5, <2>7, <3>2 DEF Positions, Writing
  <2>8. QED
    BY <2>1, <2>6, <2>7
<1>5. CASE SectorFailed
  <2>1. /\ pc = "got" /\ perSector
        /\ UNCHANGED <<done, todo, endOfFailedBlock, filePos, file, queued>>
    BY <1>5 DEF SectorFailed
  <2>2. todo = 1 /\ todo \in 1 .. VolumeSize - done
    BY <2>1 DEF ListInv, Asked
  <2>3. filePos <= done
    BY <2>1 DEF TypeInv, Positions
  <2>4. CASE done = 0
    <3>1. pc' = "closing" /\ UNCHANGED <<buf, discPos>>
      BY <1>5, <2>4 DEF SectorFailed, Finish
    <3>2. Data'
      BY <1>2, <2>1, <3>1 DEF Data
    <3>3. QED
      BY <3>1, <3>2 DEF Positions, Writing
  <2>5. CASE done # 0
    <3>1. pc' = "write" /\ buf' = <<Zeros>> /\ discPos' = done + 1
      BY <1>5, <2>5 DEF SectorFailed
    <3>2. buf' \in Seq(Sector \cup {Zeros}) /\ Len(buf') = 1
      BY <3>1
    <3>3. discPos' \in 0 .. VolumeSize /\ discPos' <= done + todo
      BY <1>1, <1>2, <2>2, <3>1
    <3>4. Data'
      BY <1>2, <2>1, <3>2, <3>3 DEF Data
    <3>5. QED
      BY <2>1, <2>2, <2>3, <3>1, <3>2, <3>3, <3>4 DEF Positions
  <2>6. QED
    BY <2>4, <2>5
<1>6. QED
  BY <1>3, <1>4, <1>5

(* What is written of a block fits in the image. *)
LEMMA WritingKeepsContents ==
    ASSUME ListInv, TypeInv, Write
    PROVE  Data' /\ Positions'
<1>1. VolumeSize \in Nat /\ BufferSize \in Nat \ {0}
  BY ReaderAssumption DEF ReaderAssumption
<1>2. /\ done \in 0 .. VolumeSize /\ discPos \in 0 .. VolumeSize
      /\ filePos \in 0 .. VolumeSize /\ todo \in 0 .. BufferSize
      /\ buf \in Seq(Sector \cup {Zeros}) /\ Len(buf) \in Nat
      /\ file \in [Sector -> Sector \cup {Zeros, Unwritten}]
  BY DEF ListInv, Asked, TypeInv, Data
<1>3. PICK n \in Accepted :
        /\ file' = Stored(SubSeq(buf, 1, n))
        /\ filePos' = filePos + n
        /\ done' = IF n = 0 THEN done ELSE done + todo
        /\ pc' = IF n = 0 THEN "failed" ELSE IF paused THEN "paused" ELSE "loop"
  BY DEF Write
<1>4. /\ pc = "write"
      /\ UNCHANGED <<todo, endOfFailedBlock, buf, discPos, queued>>
  BY DEF Write, disc, badness
<1>5. n \in 0 .. Len(buf)
  BY <1>2 DEF Accepted
<1>6. /\ todo \in 1 .. VolumeSize - done
      /\ discPos <= done + todo /\ Len(buf) <= todo /\ filePos <= done
  BY <1>4 DEF ListInv, Asked, Writing, TypeInv, Positions
<1>7. filePos' \in 0 .. VolumeSize
  BY <1>1, <1>2, <1>3, <1>5, <1>6
<1>8. file' \in [Sector -> Sector \cup {Zeros, Unwritten}]
  <2> DEFINE part == SubSeq(buf, 1, n)
  <2>1. /\ Len(part) = n
        /\ \A i \in 1 .. n : part[i] \in Sector \cup {Zeros}
    BY <1>2, <1>5
  <2> HIDE DEF part
  <2>2. ASSUME NEW s \in Sector, s - filePos \in 0 .. Len(part) - 1
        PROVE  part[s - filePos + 1] \in Sector \cup {Zeros}
    <3>1. s \in Int
      BY <1>1 DEF Sector
    <3>2. s - filePos + 1 \in 1 .. n
      BY <1>2, <1>5, <2>1, <2>2, <3>1
    <3>3. QED
      BY <2>1, <3>2
  <2>3. file' = Stored(part)
    BY <1>3 DEF part
  <2>4. QED
    BY <1>2, <2>2, <2>3 DEF Stored
<1>9. Data'
  BY <1>4, <1>7, <1>8 DEF TypeInv, Data
<1>10. CASE n = 0
  <2>1. pc' = "failed" /\ filePos' = filePos /\ done' = done
    BY <1>2, <1>3, <1>10
  <2>2. QED
    BY <1>4, <1>6, <1>9, <2>1 DEF Positions, Writing
<1>11. CASE n # 0
  <2>1. pc' \in {"paused", "loop"} /\ done' = done + todo
    BY <1>3, <1>11
  <2>2. discPos <= done + todo /\ filePos' <= done + todo
    BY <1>1, <1>2, <1>3, <1>5, <1>6
  <2>3. QED
    BY <1>4, <1>9, <2>1, <2>2 DEF Positions, Writing
<1>12. QED
  BY <1>9, <1>10, <1>11

LEMMA RereadKeepsContents ==
    ASSUME ListInv, TypeInv, RereadSector
    PROVE  Data' /\ Positions'
<1> DEFINE s == FirstSector(work)
<1>1. VolumeSize \in Nat /\ Sector = 0 .. VolumeSize - 1
  BY ReaderAssumption DEF ReaderAssumption, Sector
<1>2. pc = "reread" /\ work # <<>>
  BY DEF RereadSector
<1>3. s \in Sector
  BY <1>2, OtherSectorsFacts DEF ListInv, Lists
<1> HIDE DEF s
<1>4. /\ discPos' \in {s, s + 1} /\ filePos' \in {s, s + 1}
      /\ file' \in {file, Rewritten(s)}
      /\ pc' \in {pc, "closing"}
      /\ UNCHANGED <<todo, endOfFailedBlock, buf, queued>>
  BY DEF RereadSector, Finish, progress, s
<1>5. discPos' \in 0 .. VolumeSize /\ filePos' \in 0 .. VolumeSize
  BY <1>1, <1>3, <1>4
<1>6. file' \in [Sector -> Sector \cup {Zeros, Unwritten}]
  BY <1>3, <1>4 DEF Rewritten, TypeInv, Data
<1>7. Data'
  BY <1>4, <1>5, <1>6 DEF TypeInv, Data
<1>8. Positions'
  BY <1>2, <1>4 DEF Positions, Writing
<1>9. QED
  BY <1>7, <1>8

LEMMA StepTypeInv == ListInv /\ TypeInv /\ [Next]_vars => TypeInv'
<1> SUFFICES ASSUME ListInv, TypeInv, [Next]_vars PROVE TypeInv'
  OBVIOUS
<1>1. Control'
  <2>1. CASE UNCHANGED vars
    BY <2>1 DEF TypeInv, Control, vars, reader, progress, badness, shared, dialog
  <2>2. CASE Next /\ ~UNCHANGED vars
    BY <2>2, ReaderKeepsControl, OthersKeepControl DEF TypeInv, Next, Ended
  <2>3. QED
    BY <2>1, <2>2
<1>2. Data' /\ Positions'
  BY ReaderKeepsContents, OthersKeepContents, ReadingKeepsContents,
     WritingKeepsContents, RereadKeepsContents DEF Next, ReaderStep, Ended
<1>3. QED
  BY <1>1, <1>2 DEF TypeInv

(* Every variable keeps its type, for a disc and blocks of any size and for   *)
(* files that are read and written in any parts: nothing is read or written   *)
(* past the end of the disc, and the number of bad sectors that is shown      *)
(* never exceeds the number of sectors.                                       *)
THEOREM TypeCorrect == Spec => []TypeOK
<1>1. Init /\ ListInv => ListInv /\ TypeInv
  BY InitTypeInv
<1>2. ListInv /\ TypeInv /\ [Next]_vars => TypeInv'
  BY StepTypeInv
<1>3. ListInv /\ TypeInv => TypeOK
  BY Types DEF TypeInv
<1>4. Init => ListInv
  BY InitListInv
<1>5. ListInv /\ [Next]_vars => ListInv'
  BY StepListInv
<1>6. QED
  BY <1>1, <1>2, <1>3, <1>4, <1>5, PTL DEF Spec
================================================================================
