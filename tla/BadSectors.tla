------------------------------- MODULE BadSectors -------------------------------
(***************************************************************************)
(* The list of sectors that could not be read                              *)
(* (VirtualCDCtl/BadSectorDatabase.h): ranges, in the order in which they  *)
(* were found.  Every method runs under the list's own mutex, so each is a *)
(* single operator.                                                        *)
(***************************************************************************)
EXTENDS Naturals, SequencesExt

Record(first, count) == [first |-> first, count |-> count]

GetFirstFollowingSector(r) == r.first + r.count

(* A sector that follows the last range extends it. *)
AddSector(list, n) ==
    IF list # <<>> /\ n = GetFirstFollowingSector(Last(list))
    THEN [list EXCEPT ![Len(list)].count = @ + 1]
    ELSE Append(list, Record(n, 1))

GetTotalCount(list) ==
    LET count[n \in 0 .. Len(list)] == IF n = 0 THEN 0 ELSE count[n - 1] + list[n].count
    IN count[Len(list)]

(* Reading bad sectors again goes through the ranges sector by sector. *)
FirstSector(list) == Head(list).first

OtherSectors(list) ==
    IF Head(list).count = 1
    THEN Tail(list)
    ELSE <<Record(Head(list).first + 1, Head(list).count - 1)>> \o Tail(list)

(* What a list stands for. *)
SectorsOf(list) ==
    UNION {list[i].first .. GetFirstFollowingSector(list[i]) - 1 : i \in DOMAIN list}

(* The ranges follow each other without touching. *)
Ascending(list) ==
    \A i, j \in DOMAIN list :
        i < j => GetFirstFollowingSector(list[i]) < list[j].first

================================================================================
