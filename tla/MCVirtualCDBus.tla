----------------------------- MODULE MCVirtualCDBus -----------------------------
(* Instances of VirtualCDBus for TLC. *)
EXTENDS VirtualCDBus, TLC

(* Files, identifiers and callers are interchangeable, and so are the device *)
(* objects but for those whose image is replaced.                            *)
BusSymmetry ==
    Permutations(Path) \cup Permutations(ID) \cup Permutations(Drive \ Replacing)
        \cup Permutations(Caller)

================================================================================
