-------------------------- MODULE MCFirmwareUpload --------------------------
(***************************************************************************)
(* The firmware upload for TLC: two instances of the page, each on a       *)
(* computer with a file of its own.  What they share is the device.        *)
(***************************************************************************)
EXTENDS FirmwareUpload

MCDisk == [c \in {"p", "q"} |-> IF c = "p" THEN {"a"} ELSE {"b"}]
=============================================================================
