--------------------------- MODULE FirmwareUpload ---------------------------
(***************************************************************************)
(* Firmware upload: the Upload button of components.js on the page         *)
(* FirmwareUpdate of main.js, which sends a file in chunks of 2048 bytes   *)
(* and, after the last one, an empty chunk; handle_firmware_upload of      *)
(* net.c, which hands them to mg_ota_begin, _write and _end; and these     *)
(* three as mongoose.c has them, for a build with MG_OTA_NONE (the         *)
(* default, which the Makefile leaves) and one with MG_OTA_FLASH.          *)
(*                                                                         *)
(* A file is its name and its number of chunks, a chunk its file and its   *)
(* number.  A CRC identifies what it was computed over.  Clients are the   *)
(* places an upload can run: instances of the page, in one or several      *)
(* browsers.  Leaving the page does not stop its upload, closing the tab   *)
(* does, except for what is already on its way.                            *)
(***************************************************************************)
EXTENDS Integers, Sequences

CONSTANTS Clients,    \* instances of the page
          Names,      \* names of files
          Disk,       \* Disk[c]: those an instance of the page can choose from
          Sizes,      \* how many chunks a file may have
          MaxSize,    \* chunks for which there is no room in the flash
          Builds      \* the builds considered, of "none" and "flash"

ASSUME FirmwareUploadAssumption ==
  /\ "" \notin Names
  /\ Disk \in [Clients -> SUBSET Names]
  /\ Sizes \subseteq Nat
  /\ MaxSize \in Nat
  /\ Builds \subseteq {"none", "flash"}

Files == Names \X Sizes
Chunks(f) == f[2]
Whole(f) == [i \in 1..Chunks(f) |-> <<f, i>>]

VARIABLES
  build,      \* MG_OTA
  s_size,     \* chunks announced by mg_ota_begin; 0: no OTA in progress
  got,        \* the chunks s_addr and s_crc32 have moved over
  intact,     \* the flash holds what was to be written since mg_ota_begin
  image,      \* the image in the bank to boot from; <<>> is the first one
  swapped,    \* an image was installed and the reset that boots it is to come
  reset,      \* the timer for mg_device_reset is running
  page,       \* page[c]: "open", "left" (another page), "closed" (no script)
  spin,       \* spin[c]: the Upload button waits for the promise, disabled
  status,     \* status[c]: the line below the button
  chain,      \* chain[c]: where the upload stands: a request on its way, an
              \* answer on its way, onupload's delay, or a promise that hangs
  file, ofs,  \* the file being uploaded and the offset of the request
  offered,    \* history: the files chosen so far
  accepted,   \* history: accepted[c]: what became of the upload shown
  abandoned,  \* history: since mg_ota_begin an upload was cut or closed
  own         \* history: whose upload the OTA in progress is, if it has
              \* been given chunks of that one only; otherwise empty

deviceVars == <<build, s_size, got, intact, image, swapped, reset>>
tabVars == <<page, spin, status>>
chainVars == <<chain, file, ofs>>
history == <<offered, accepted, abandoned, own>>
vars == <<deviceVars, tabVars, chainVars, history>>

NoFile == <<"", 0>>
\* An image that chunks of a later upload were written into.
Overwritten == << <<NoFile, 1>> >>
OnWire == {"request", "ok", "error"}  \* chains that wait for a connection

TypeOK ==
  /\ build \in {"none", "flash"}
  /\ s_size \in Nat
  /\ got \in Seq(Files \X Nat)
  /\ intact \in BOOLEAN
  /\ image \in Seq(Files \X Nat) \cup {Overwritten}
  /\ swapped \in BOOLEAN
  /\ reset \in BOOLEAN
  /\ page \in [Clients -> {"open", "left", "closed"}]
  /\ spin \in [Clients -> BOOLEAN]
  /\ status \in [Clients -> {"", "Uploading", "Error", "Error, Done", "Done"}]
  /\ chain \in [Clients -> {"none", "delay", "hung"} \cup OnWire]
  /\ file \in [Clients -> Files \cup {NoFile}]
  /\ ofs \in [Clients -> Nat]
  /\ \A c \in Clients : file[c] \in Files => ofs[c] <= Chunks(file[c])
  /\ offered \in SUBSET Files
  /\ accepted \in [Clients -> {"no", "whole", "foreign"}]
  /\ abandoned \in BOOLEAN
  /\ own \in SUBSET Clients

Init ==
  /\ build \in Builds
  /\ s_size = 0
  /\ got = <<>>
  /\ intact = TRUE
  /\ image = <<>>
  /\ swapped = FALSE
  /\ reset = FALSE
  /\ page = [c \in Clients |-> "open"]
  /\ spin = [c \in Clients |-> FALSE]
  /\ status = [c \in Clients |-> ""]
  /\ chain = [c \in Clients |-> "none"]
  /\ file = [c \in Clients |-> NoFile]
  /\ ofs = [c \in Clients |-> 0]
  /\ offered = {}
  /\ accepted = [c \in Clients |-> "no"]
  /\ abandoned = FALSE
  /\ own = {}

\* The upload of c comes to rest: nothing refers to its file any more.
Rest(c, how) ==
  /\ chain' = [chain EXCEPT ![c] = how]
  /\ file' = [file EXCEPT ![c] = NoFile]
  /\ ofs' = [ofs EXCEPT ![c] = 0]

-----------------------------------------------------------------------------
(* The page                                                                *)

\* A click on the enabled button, a file, the file read: onchange starts the
\* upload and clicks the button again, which takes the promise and spins.
Choose(c, f) ==
  /\ f[1] \in Disk[c]
  /\ page[c] = "open"
  /\ ~spin[c]
  /\ chain' = [chain EXCEPT ![c] = "request"]
  /\ file' = [file EXCEPT ![c] = f]
  /\ ofs' = [ofs EXCEPT ![c] = 0]
  /\ status' = [status EXCEPT ![c] = "Uploading"]
  /\ spin' = [spin EXCEPT ![c] = TRUE]
  /\ offered' = offered \cup {f}
  /\ accepted' = [accepted EXCEPT ![c] = "no"]
  /\ UNCHANGED <<deviceVars, page, abandoned, own>>

\* What the component shows; nothing once it is not on the screen.
Show(c, text) ==
  status' = IF page[c] = "open" THEN [status EXCEPT ![c] = text] ELSE status

\* Mutant of NextChunk: also after the answer to the empty chunk.
NextChunkAlways(c) ==
  /\ chain[c] = "ok"
  /\ page[c] # "closed"
  /\ chain' = [chain EXCEPT ![c] = "request"]
  /\ ofs' = [ofs EXCEPT ![c] = @ + 1]
  /\ Show(c, "Uploading")
  /\ UNCHANGED <<deviceVars, page, spin, file, history>>

\* sendChunk after an answer: the next offset.
NextChunk(c) ==
  /\ chain[c] = "ok"
  /\ page[c] # "closed"
  /\ ofs[c] < Chunks(file[c])
  /\ chain' = [chain EXCEPT ![c] = "request"]
  /\ ofs' = [ofs EXCEPT ![c] = @ + 1]
  /\ Show(c, "Uploading")
  /\ UNCHANGED <<deviceVars, page, spin, file, history>>

\* The empty chunk was accepted: finish(true), and onupload's three seconds.
Finish(c) ==
  /\ chain[c] = "ok"
  /\ page[c] # "closed"
  /\ ofs[c] = Chunks(file[c])
  /\ chain' = [chain EXCEPT ![c] = "delay"]
  /\ Show(c, "Done")
  /\ UNCHANGED <<deviceVars, page, spin, file, ofs, history>>

\* Mutant of Fail: an error is not told from success after the empty chunk.
FailDone(c) ==
  /\ chain[c] = "error"
  /\ page[c] # "closed"
  /\ Rest(c, "none")
  /\ spin' = [spin EXCEPT ![c] = FALSE]
  /\ Show(c, IF ofs[c] < Chunks(file[c]) THEN "Error" ELSE "Done")
  /\ UNCHANGED <<deviceVars, page, history>>

\* Mutant of Fail: the promise is not rejected.
FailUnsettled(c) ==
  /\ chain[c] = "error"
  /\ page[c] # "closed"
  /\ Rest(c, "none")
  /\ Show(c, IF ofs[c] < Chunks(file[c]) THEN "Error" ELSE "Error, Done")
  /\ UNCHANGED <<deviceVars, page, spin, history>>

\* finish(false), which rejects the promise: the button is enabled again.
\* After an empty chunk the code runs on and adds "Done" to the error.
Fail(c) ==
  /\ chain[c] = "error"
  /\ page[c] # "closed"
  /\ Rest(c, "none")
  /\ spin' = [spin EXCEPT ![c] = FALSE]
  /\ Show(c, IF ofs[c] < Chunks(file[c]) THEN "Error" ELSE "Error, Done")
  /\ UNCHANGED <<deviceVars, page, history>>

\* onupload's timer: a refresh of the status, and the promise is resolved.
Settle(c) ==
  /\ chain[c] = "delay"
  /\ Rest(c, "none")
  /\ spin' = [spin EXCEPT ![c] = FALSE]
  /\ UNCHANGED <<deviceVars, page, status, history>>

\* Another page is shown: the component and what it displays are gone, the
\* upload goes on.
Leave(c) ==
  /\ page[c] = "open"
  /\ page' = [page EXCEPT ![c] = "left"]
  /\ spin' = [spin EXCEPT ![c] = FALSE]
  /\ status' = [status EXCEPT ![c] = ""]
  /\ accepted' = [accepted EXCEPT ![c] = "no"]
  /\ UNCHANGED <<deviceVars, chainVars, offered, abandoned, own>>

\* The tab is closed: what is on its way may still arrive at the device.
Close(c) ==
  /\ page[c] # "closed"
  /\ page' = [page EXCEPT ![c] = "closed"]
  /\ spin' = [spin EXCEPT ![c] = FALSE]
  /\ status' = [status EXCEPT ![c] = ""]
  /\ accepted' = [accepted EXCEPT ![c] = "no"]
  /\ IF chain[c] \in OnWire THEN UNCHANGED chainVars ELSE Rest(c, "none")
  /\ abandoned' = (abandoned \/ chain[c] \in OnWire)
  /\ UNCHANGED <<deviceVars, offered, own>>

\* Nobody waits for the answer.
Unheard(c) ==
  /\ page[c] = "closed"
  /\ chain[c] \in {"ok", "error"}
  /\ Rest(c, "none")
  /\ UNCHANGED <<deviceVars, tabVars, history>>

\* A new instance of the page.
Open(c) ==
  /\ page[c] # "open"
  /\ chain[c] \in {"none", "hung"}
  /\ page' = [page EXCEPT ![c] = "open"]
  /\ chain' = [chain EXCEPT ![c] = "none"]
  /\ UNCHANGED <<deviceVars, spin, status, file, ofs, history>>

\* A fetch without an answer is rejected, and sendChunk does not catch it:
\* the promise is never settled.
Rejected(c) == IF page[c] = "closed" THEN "none" ELSE "hung"

CutOff(c) ==
  /\ chain[c] \in OnWire
  /\ Rest(c, Rejected(c))
  /\ abandoned' = TRUE
  /\ UNCHANGED <<deviceVars, tabVars, offered, accepted, own>>

-----------------------------------------------------------------------------
(* handle_firmware_upload                                                  *)

Reply(c, answer) == chain' = [chain EXCEPT ![c] = answer]

\* MG_OTA_NONE: all three functions return true.
HandleNone(c) ==
  /\ build = "none"
  /\ chain[c] = "request"
  /\ Reply(c, "ok")
  /\ reset' = (reset \/ ofs[c] = Chunks(file[c]))
  /\ UNCHANGED <<build, s_size, got, intact, image, swapped, tabVars, file, ofs, history>>

Handle(c) == build = "flash" /\ chain[c] = "request"

\* Mutant of CanBegin: an OTA in progress is started over.
CanBeginAnyTime(f) == Chunks(f) < MaxSize

\* mg_ota_begin
CanBegin(f) == s_size = 0 /\ Chunks(f) < MaxSize

Refuse(c) ==
  /\ Handle(c)
  /\ ofs[c] = 0
  /\ ~CanBegin(file[c])
  /\ Reply(c, "error")
  /\ UNCHANGED <<deviceVars, tabVars, file, ofs, history>>

\* Offset 0 begins; the other offsets are only logged.
Begun(c) == ofs[c] = 0 => CanBegin(file[c])
Size(c) == IF ofs[c] = 0 THEN Chunks(file[c]) ELSE s_size
Before(c) == IF ofs[c] = 0 THEN <<>> ELSE got
Good(c) == ofs[c] = 0 \/ intact
Abandons(c) == abandoned' = IF ofs[c] = 0 THEN page[c] = "closed" ELSE abandoned
Own(c) == IF ofs[c] = 0 THEN {c} ELSE own \cap {c}

\* mg_ota_end takes the image if its size and its CRC are right and its
\* data can be saved.
OtaOk(size, data, good, saved) == size # 0 /\ Len(data) = size /\ good /\ saved

\* Mutant of OtaEnd: after a mismatch the OTA stays in progress.
OtaEndKeepsSize(size, data, ok, left) ==
  /\ s_size' = IF ok THEN 0 ELSE size
  /\ got' = <<>>
  /\ intact' = TRUE
  /\ image' = IF ok THEN data ELSE left
  /\ swapped' = (swapped \/ ok)

\* In any case the OTA is over, and what was received is of no more use.  If
\* all is well the banks are to be swapped, which the next reset does; if not,
\* what is left in the bank to boot from stays there.
OtaEnd(size, data, ok, left) ==
  /\ s_size' = 0
  /\ got' = <<>>
  /\ intact' = TRUE
  /\ image' = IF ok THEN data ELSE left
  /\ swapped' = (swapped \/ ok)

\* mg_ota_write without an OTA in progress fails and moves nothing.
Written(c) ==
  IF Size(c) = 0 THEN Before(c)
  ELSE Append(Before(c), <<file[c], ofs[c] + 1>>)

\* It writes to the upper half.  As long as the reset is to come that is where
\* the image just installed is.
Flashed(c) == IF swapped /\ Size(c) # 0 THEN Overwritten ELSE image

\* mg_ota_write returned true: the chunk is in the flash, or it is the last
\* one and only its unaligned end is.
Write(c) ==
  /\ Handle(c)
  /\ ofs[c] < Chunks(file[c])
  /\ Begun(c)
  /\ Size(c) # 0
  /\ s_size' = Size(c)
  /\ got' = Written(c)
  /\ \/ intact' = Good(c)
     \/ ofs[c] + 1 = Chunks(file[c]) /\ intact' = FALSE
  /\ image' = Flashed(c)
  /\ Reply(c, "ok")
  /\ Abandons(c)
  /\ own' = Own(c)
  /\ UNCHANGED <<build, swapped, reset, tabVars, file, ofs, offered, accepted>>

\* mg_ota_write returned false, whatever the flash holds now: an error is
\* sent and mg_ota_end called.
WriteFail(c) ==
  /\ Handle(c)
  /\ ofs[c] < Chunks(file[c])
  /\ Begun(c)
  /\ \E good, saved \in BOOLEAN :
       OtaEnd(Size(c), Written(c),
              OtaOk(Size(c), Written(c), Good(c) /\ good, saved), Flashed(c))
  /\ Reply(c, "error")
  /\ Abandons(c)
  /\ own' = {}
  /\ UNCHANGED <<build, reset, tabVars, file, ofs, offered, accepted>>

\* The empty chunk: mg_ota_end decides the answer.
End(c) ==
  /\ Handle(c)
  /\ ofs[c] = Chunks(file[c])
  /\ Begun(c)
  /\ \E saved \in BOOLEAN :
       LET ok == OtaOk(Size(c), Before(c), Good(c), saved)
       IN  /\ OtaEnd(Size(c), Before(c), ok, image)
           /\ Reply(c, IF ok THEN "ok" ELSE "error")
           /\ reset' = (reset \/ ok)
           /\ accepted' = [accepted EXCEPT ![c] =
                  IF ok /\ image' = Whole(file[c]) THEN "whole"
                  ELSE IF Own(c) = {} THEN "foreign" ELSE "no"]
  /\ Abandons(c)
  /\ own' = {}
  /\ UNCHANGED <<build, tabVars, file, ofs, offered>>

\* api/device/reset, by the Reboot button.
Reboot ==
  /\ reset' = TRUE
  /\ UNCHANGED <<build, s_size, got, intact, image, swapped, tabVars, chainVars, history>>

\* mg_device_reset does nothing on a device without a flash.
ResetNone ==
  /\ reset
  /\ build = "none"
  /\ reset' = FALSE
  /\ UNCHANGED <<build, s_size, got, intact, image, swapped, tabVars, chainVars, history>>

\* On the others memory starts from zero and the connections are gone.  That
\* loses what is on its way, or not: an answer may have come through, and a
\* request whose connection is not yet accepted is sent until it is, when the
\* device is up again.  So an upload may go on over the reset.  A device with
\* an image that was written over is taken to start like any other.
ResetFlash ==
  /\ reset
  /\ build = "flash"
  /\ reset' = FALSE
  /\ s_size' = 0
  /\ got' = <<>>
  /\ intact' = TRUE
  /\ swapped' = FALSE
  /\ \E lost \in SUBSET {c \in Clients : chain[c] \in OnWire} :
       /\ chain' = [c \in Clients |-> IF c \in lost THEN Rejected(c) ELSE chain[c]]
       /\ file' = [c \in Clients |-> IF c \in lost THEN NoFile ELSE file[c]]
       /\ ofs' = [c \in Clients |-> IF c \in lost THEN 0 ELSE ofs[c]]
  /\ abandoned' = FALSE
  /\ own' = {}
  /\ UNCHANGED <<build, image, tabVars, offered, accepted>>

Device(c) == HandleNone(c) \/ Refuse(c) \/ Write(c) \/ WriteFail(c) \/ End(c)
Browser(c) == NextChunk(c) \/ Finish(c) \/ Fail(c) \/ Settle(c)

Next ==
  \/ \E c \in Clients :
       \/ \E f \in Files : Choose(c, f)
       \/ Browser(c) \/ Device(c)
       \/ Leave(c) \/ Close(c) \/ Unheard(c) \/ Open(c) \/ CutOff(c)
  \/ Reboot \/ ResetNone \/ ResetFlash

Spec == Init /\ [][Next]_vars

\* The event loop of a browser, and the web loop of the device, which takes
\* a request whenever one has arrived.
FairSpec ==
  Spec /\ \A c \in Clients : WF_vars(Browser(c)) /\ WF_vars(Device(c))

-----------------------------------------------------------------------------
(* Properties                                                              *)

\* The device has taken part of the upload of c and would hear of it again.
Mid(c) ==
  /\ build = "flash"
  /\ \/ chain[c] = "request" /\ ofs[c] > 0
     \/ chain[c] = "ok" /\ ofs[c] < Chunks(file[c])

\* An upload goes on that is not the one whose OTA is in progress, or that OTA
\* has been given chunks of such an upload.
Loose == (\E c \in Clients : Mid(c) /\ c \notin own) \/ (s_size # 0 /\ own = {})

\* The image to boot is the first one or a file somebody chose, whole and in
\* order, whatever uploads, errors and losses have met.  There are two ways to
\* another image: it is written over while the reset that is to boot it has
\* not come yet; or uploads are loose, which only a reset brings about that
\* one of them outlives.
Torn == <<"", 1>>
Installed ==
  IF image = <<>> THEN NoFile
  ELSE IF \E f \in Files : image = Whole(f)
       THEN CHOOSE f \in Files : image = Whole(f)
       ELSE Torn
Image == INSTANCE FirmwareImage
           WITH File <- Files, Factory <- NoFile, Spoilt <- Torn,
                installed <- Installed, wanted <- offered, due <- swapped,
                loose <- Loose
WholeImages == Image!Spec

\* The page says "Done", and nothing of an error, only when the device has
\* installed the whole of the file chosen on this page.
DoneMeansInstalled ==
  \A c \in Clients : status[c] = "Done" => accepted[c] = "whole"

\* It is so on a device with a flash, except for an upload that has ended an
\* OTA not its own, or no longer its own: one that has outlived a reset, or
\* has met one.  Without a flash it is never so (DoneMeansInstalled).
DoneOnFlash ==
  \A c \in Clients :
    status[c] = "Done" /\ build = "flash" => accepted[c] \in {"whole", "foreign"}

\* The image that is going to run was "sent chunk by chunk" from one file, or
\* written over since.
ImageIsOneFile ==
  \/ image \in {<<>>, Overwritten}
  \/ \E f \in Files : image = Whole(f)

\* While an OTA is in progress every other upload is refused.  It is held
\* by an upload that is still going on; only one that was cut off or closed
\* leaves the device held, until it is reset.
HeldByUpload ==
  s_size # 0 /\ ~abandoned => \E c \in Clients : page[c] # "closed" /\ Mid(c)

\* How many steps of the browser and of the device are left of the upload of c
\* at most: two for every chunk to come, the empty one and the end.
Togo(c) ==
  LET chunks == Chunks(file[c]) - ofs[c]
  IN  CASE chain[c] = "request" -> 2 * chunks + 3
        [] chain[c] = "ok" -> 2 * chunks + 2
        [] chain[c] \in {"error", "delay"} -> 1
        [] OTHER -> 0

\* Every answer and every chunk brings the upload nearer to its end, whatever
\* the other uploads do; only the choice of a file starts one.
UploadShrinks ==
  [][\A c \in Clients :
       /\ Browser(c) \/ Device(c) => Togo(c)' < Togo(c)
       /\ Togo(c)' > Togo(c) => \E f \in Files : Choose(c, f)]_vars

\* The button spins only for an upload that has steps left, or whose
\* connection was cut.
SpinsForUpload ==
  \A c \in Clients : spin[c] =>
    page[c] = "open" /\ (chain[c] = "hung" \/ Togo(c) > 0)

\* An upload ends and gives the button back, unless its connection was cut.
ButtonComesBack ==
  \A c \in Clients : spin[c] ~> ~spin[c] \/ chain[c] = "hung"
=============================================================================
