------------------------ MODULE PersistentImageDatabase ------------------------
(***************************************************************************)
(* The registry key that lists the images to mount again after a restart   *)
(* (BazisVirtualCDBus/PersistentImageDatabase.cpp).  Every method runs     *)
(* under the database's own mutex, so each is a single operator here.      *)
(*                                                                         *)
(* A database is a function from subkey names to what the subkey holds.    *)
(* Subkeys are named "%02d": they are the numbers below KeyLimit.  A file  *)
(* name stands for all its spellings: the code compares without case.      *)
(***************************************************************************)
EXTENDS Naturals

CONSTANTS
    Path,       \* image files
    KeyLimit,   \* how many subkeys AddImage looks at (1000 in the code)
    Free,       \* there is no such subkey
    Blank       \* the subkey exists and has no ImagePath value

ASSUME KeyLimitAssumption == KeyLimit \in Nat \ {0}

ASSUME RecordAssumption == Free \notin Path /\ Blank \notin Path /\ Free # Blank

DBKey == 0 .. KeyLimit - 1

Database == [DBKey -> Path \cup {Free, Blank}]

EmptyDatabase == [k \in DBKey |-> Free]

FreeKeys(db) == {k \in DBKey : db[k] = Free}

KeysOf(db, p) == {k \in DBKey : db[k] = p}

Least(S) == CHOOSE k \in S : \A j \in S : k <= j

(* Variant: the records are not searched. *)
KeyForUnsearched(db, p) ==
    IF FreeKeys(db) # {} THEN Least(FreeKeys(db)) ELSE KeyLimit - 1

(* Variant: past the end of the enumeration no name is at hand. *)
KeyForPastEnd(db, p) ==
    IF KeysOf(db, p) # {} THEN Least(KeysOf(db, p))
    ELSE IF FreeKeys(db) # {} THEN Least(FreeKeys(db))
    ELSE KeyLimit

(* The subkey AddImage writes: the one that already names the image, else   *)
(* the first unused one.  When none is unused the enumeration has run to    *)
(* its end and the name of the last subkey is still at hand.                *)
KeyFor(db, p) ==
    IF KeysOf(db, p) # {} THEN Least(KeysOf(db, p))
    ELSE IF FreeKeys(db) # {} THEN Least(FreeKeys(db))
    ELSE KeyLimit - 1

AddImage(db, p) == [db EXCEPT ![KeyFor(db, p)] = p]

RemoveImageByKey(db, k) == [db EXCEPT ![k] = Free]

(* Opening a subkey to write to it creates it if it is not there: a status  *)
(* reported for a record that is gone leaves a record without an image.     *)
ReportMountStatus(db, k) ==
    [db EXCEPT ![k] = IF db[k] = Free THEN Blank ELSE db[k]]

LoadImageList(db) == {r \in DBKey \X (Path \cup {Blank}) : db[r[1]] = r[2]}

(* No two records name the same image. *)
OneRecordEach(db) ==
    \A j, k \in DBKey : (db[j] = db[k] /\ db[j] \in Path) => j = k

================================================================================
