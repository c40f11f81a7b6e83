------------------------------ MODULE RemountSlot ------------------------------
(***************************************************************************)
(* What IOCTL_VDEV_MOUNT_IMAGE promises its callers, without threads,      *)
(* locks or SCSI: a drive has a single place for a request to replace its  *)
(* image.  A request that is submitted stays outstanding until it is       *)
(* completed or a newer one takes its place; in both cases its caller is   *)
(* told.  Only the end of the whole drive forgets a request.               *)
(***************************************************************************)
CONSTANT Client

VARIABLE slot        \* the fate of the latest request of each client

Fate == {"none", "outstanding", "told"}

SlotInit == slot = [c \in Client |-> "none"]

(* A new request: whatever was outstanding is superseded and told so. *)
Submit(c) ==
    slot' = [x \in Client |->
                IF x = c THEN "outstanding"
                ELSE IF slot[x] = "outstanding" THEN "told"
                ELSE slot[x]]

(* The outstanding request has been serviced. *)
Complete(c) ==
    /\ slot[c] = "outstanding"
    /\ slot' = [slot EXCEPT ![c] = "told"]

(* The drive is gone and another one takes its place. *)
Forget == slot' = [c \in Client |-> "none"]

SlotNext ==
    \/ \E c \in Client : Submit(c) \/ Complete(c)
    \/ Forget

SlotSpec == SlotInit /\ [][SlotNext]_slot

================================================================================
