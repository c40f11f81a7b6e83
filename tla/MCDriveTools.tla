-------------------------------- MODULE MCDriveTools --------------------------------
(* Instances of DriveTools for TLC. *)
EXTENDS DriveTools

Do(what, image, letter, wait) ==
    [do |-> what, image |-> image, letter |-> letter, wait |-> wait]

CONSTANTS User, Script, NewImage

\* The user clicks on images, and unmounts a letter.
ByHand ==
    {Do("click", i, NoLetter, "no") : i \in Image \ {NewImage}}
    \cup {Do("unmountLetter", NoImage, l, "no") : l \in Letter}

\* A script mounts images to a letter and waits, and empties all drives.
ByScript ==
    {Do("remount", i, l, "limit") : i \in {NewImage}, l \in Letter}
    \cup {Do("mount", i, l, "forever") : i \in Image \ {NewImage}, l \in Letter}
    \cup {Do("unmountAll", AllImages, NoLetter, "no"),
          Do("unmountEach", NoImage, NoLetter, "no"),
          Do("restart", NoImage, NoLetter, "no")}

MCCommands == [t \in Tool |-> IF t = User THEN ByHand ELSE ByScript]
================================================================================
