--------------------------- MODULE MCVirtualCDDevice ---------------------------
(* Instances of VirtualCDDevice for TLC. *)
EXTENDS VirtualCDDevice, TLC

(* Images, clients and SCSI threads are interchangeable. *)
DriveSymmetry == Permutations(Image) \cup Permutations(Client) \cup Permutations(Scsi)

================================================================================
