--------------------------- MODULE FirmwareImage ---------------------------
(***************************************************************************)
(* What a firmware update promises whoever uses the page: the device runs  *)
(* the firmware it came with or, from some moment on, one of the files     *)
(* offered to it, whole.  The promise has two gaps, which are here because *)
(* the code has them: until the restart after an installation nothing      *)
(* keeps the next upload off the image just installed; and an upload that  *)
(* a restart did not end goes on into the next one, so that an image may   *)
(* be made of both.  FirmwareUpload.tla implements this.                   *)
(***************************************************************************)
CONSTANTS File,     \* the files that may be uploaded
          Factory,  \* the firmware the device came with
          Spoilt    \* none of these

VARIABLES installed,  \* what the device runs, or will run after its restart
          wanted,     \* the files someone has chosen for upload
          due,        \* something was installed since the last restart
          loose       \* an upload of before a restart is on its way, or has
                      \* been heard in the present one

Init == installed = Factory /\ wanted = {} /\ due = FALSE /\ loose = FALSE

\* Only a restart lets an upload loose; any step may end the last such upload.
MayCalm == loose' \in {loose, FALSE}

Want(f) == wanted' = wanted \cup {f} /\ MayCalm /\ UNCHANGED <<installed, due>>

Install(f) ==
  f \in wanted /\ installed' = f /\ due' = TRUE /\ MayCalm /\ UNCHANGED wanted

Spoil ==
  /\ due \/ loose
  /\ installed' = Spoilt
  /\ due' = TRUE
  /\ MayCalm
  /\ UNCHANGED wanted

Calm == MayCalm /\ UNCHANGED <<installed, wanted, due>>

Restart == due' = FALSE /\ loose' \in BOOLEAN /\ UNCHANGED <<installed, wanted>>

Next ==
  \/ \E f \in File : Want(f) \/ Install(f)
  \/ Spoil \/ Calm \/ Restart

Spec == Init /\ [][Next]_<<installed, wanted, due, loose>>
=============================================================================
