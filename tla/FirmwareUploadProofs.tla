------------------------ MODULE FirmwareUploadProofs ------------------------
(***************************************************************************)
(* Proofs about the firmware upload, for any files, page instances and     *)
(* room in the flash: unless uploads outlive a reset only one is taken of  *)
(* all that are under way, its chunks arrive in order, and so an image is  *)
(* installed whole or not at all.                                          *)
(***************************************************************************)
EXTENDS FirmwareUpload, SequenceTheorems, TLAPS

-----------------------------------------------------------------------------
(* Sequences of chunks                                                     *)

Prefix(f, k) == [i \in 1..k |-> <<f, i>>]

LEMMA FilesFacts ==
  /\ NoFile \notin Files
  /\ \A f \in Files : Chunks(f) \in Nat
  BY FirmwareUploadAssumption DEF Files, NoFile, Chunks

LEMMA PrefixFacts ==
  ASSUME NEW f \in Files, NEW k \in Nat
  PROVE  /\ Prefix(f, k) \in Seq(Files \X Nat)
         /\ Len(Prefix(f, k)) = k
         /\ Append(Prefix(f, k), <<f, k + 1>>) = Prefix(f, k + 1)
<1>1. Prefix(f, k) \in [1..k -> Files \X Nat]  BY DEF Prefix
<1>2. Prefix(f, k) \in Seq(Files \X Nat) /\ Len(Prefix(f, k)) = k
  <2>1. Prefix(f, k) \in Seq(Files \X Nat)  BY <1>1, SeqDef
  <2> QED  BY <1>1, <2>1, LenProperties
<1>3. Prefix(f, k + 1) \in [1..k + 1 -> Files \X Nat]  BY DEF Prefix
<1>4. Prefix(f, k + 1) \in Seq(Files \X Nat) /\ Len(Prefix(f, k + 1)) = k + 1
  <2>1. Prefix(f, k + 1) \in Seq(Files \X Nat)  BY <1>3, SeqDef
  <2> QED  BY <1>3, <2>1, LenProperties
<1> DEFINE a == Append(Prefix(f, k), <<f, k + 1>>)
<1>5. /\ a \in Seq(Files \X Nat)
      /\ Len(a) = k + 1
      /\ \A i \in 1..k : a[i] = Prefix(f, k)[i]
      /\ a[k + 1] = <<f, k + 1>>
  <2>1. <<f, k + 1>> \in Files \X Nat  OBVIOUS
  <2> QED  BY <1>2, <2>1, AppendProperties
<1>6. \A i \in 1..k + 1 : a[i] = Prefix(f, k + 1)[i]
  <2> SUFFICES ASSUME NEW i \in 1..k + 1 PROVE a[i] = Prefix(f, k + 1)[i]
    OBVIOUS
  <2>1. CASE i = k + 1  BY <1>5, <2>1 DEF Prefix
  <2>2. CASE i # k + 1
    <3>1. i \in 1..k  BY <2>2
    <3> QED  BY <1>5, <3>1 DEF Prefix
  <2> QED  BY <2>1, <2>2
<1>7. a = Prefix(f, k + 1)
  <2> HIDE DEF a
  <2> QED  BY <1>4, <1>5, <1>6, SeqEqual
<1> QED  BY <1>2, <1>7

LEMMA PrefixEmpty == \A f \in Files : Prefix(f, 0) = <<>>
  BY PrefixFacts, EmptySeq

LEMMA WholeIsPrefix == \A f \in Files : Whole(f) = Prefix(f, Chunks(f))
  BY DEF Whole, Prefix

LEMMA WholeTellsFile ==
  ASSUME NEW f \in Files, NEW g \in Files, Chunks(f) > 0, Whole(f) = Whole(g)
  PROVE  f = g
<1> 1 \in 1..Chunks(f)  BY FilesFacts
<1>1. Whole(f)[1] = <<f, 1>>  BY DEF Whole
<1>2. DOMAIN Whole(f) = 1..Chunks(f) /\ DOMAIN Whole(g) = 1..Chunks(g)
  BY DEF Whole
<1>3. 1 \in 1..Chunks(g)  BY <1>2
<1>4. Whole(g)[1] = <<g, 1>>  BY <1>3 DEF Whole
<1> QED  BY <1>1, <1>4

-----------------------------------------------------------------------------
(* The invariant                                                           *)

\* What the tabs know of their uploads.
Tabs ==
  \A c \in Clients :
    /\ page[c] # "open" => status[c] = ""
    /\ chain[c] \in OnWire => file[c] \in offered /\ status[c] # "Done"
    /\ chain[c] \in OnWire /\ page[c] = "open" => spin[c]

\* How many chunks of the upload of c the device has taken.
Count(c) == IF chain[c] = "request" THEN ofs[c] ELSE ofs[c] + 1

\* The OTA in progress is the upload of one client at most; as long as it is and
\* this upload goes on, the device has received its file as far as it was sent.
Stream ==
  /\ \A c, d \in own : c = d
  /\ own # {} => s_size # 0
  /\ \A c \in own : Mid(c) =>
       s_size = Chunks(file[c]) /\ got = Prefix(file[c], Count(c))

Held ==
  s_size # 0 =>
    build = "flash" /\ (abandoned \/ \E c \in Clients : page[c] # "closed" /\ Mid(c))

\* Only chunks of files that were chosen are received.
Received == got \in Seq(offered \X Nat)

Accepted ==
  \A c \in Clients : build = "flash" =>
    /\ chain[c] = "ok" /\ page[c] = "open" /\ ofs[c] = Chunks(file[c])
         => accepted[c] # "no"
    /\ status[c] = "Done" => accepted[c] # "no"

Inv == TypeOK /\ Tabs /\ Stream /\ Held /\ Received /\ Accepted

\* TypeOK in three parts: flags, where uploads stand in their files, the rest.
Flags ==
  /\ intact \in BOOLEAN /\ reset \in BOOLEAN /\ abandoned \in BOOLEAN
  /\ swapped \in BOOLEAN
  /\ spin \in [Clients -> BOOLEAN]
  /\ accepted \in [Clients -> {"no", "whole", "foreign"}]
  /\ own \in SUBSET Clients
Shapes ==
  /\ build \in {"none", "flash"}
  /\ s_size \in Nat
  /\ got \in Seq(Files \X Nat)
  /\ image \in Seq(Files \X Nat) \cup {Overwritten}
  /\ page \in [Clients -> {"open", "left", "closed"}]
  /\ status \in [Clients -> {"", "Uploading", "Error", "Error, Done", "Done"}]
  /\ chain \in [Clients -> {"none", "delay", "hung"} \cup OnWire]
  /\ offered \in SUBSET Files
Places ==
  /\ file \in [Clients -> Files \cup {NoFile}]
  /\ ofs \in [Clients -> Nat]
  /\ \A c \in Clients : file[c] \in Files => ofs[c] <= Chunks(file[c])

LEMMA TypeParts == TypeOK <=> Flags /\ Shapes /\ Places
  BY DEF TypeOK, Flags, Shapes, Places

LEMMA InitInv == Init => Inv
<1> SUFFICES ASSUME Init PROVE Inv  OBVIOUS
<1> USE DEF Init
<1>1. Flags
  <2>1. /\ intact \in BOOLEAN /\ reset \in BOOLEAN /\ abandoned \in BOOLEAN
        /\ swapped \in BOOLEAN
    OBVIOUS
  <2>2. /\ spin \in [Clients -> BOOLEAN]
        /\ accepted \in [Clients -> {"no", "whole", "foreign"}]
        /\ own \in SUBSET Clients
    OBVIOUS
  <2> QED  BY <2>1, <2>2 DEF Flags
<1>2. Shapes
  <2>1. build \in {"none", "flash"}  BY FirmwareUploadAssumption
  <2>2. got \in Seq(Files \X Nat) /\ image \in Seq(Files \X Nat)  BY EmptySeq
  <2> QED  BY <2>1, <2>2 DEF Shapes
<1>2a. Places  BY FilesFacts DEF Places
<1>3. Tabs  BY DEF Tabs, OnWire
<1>4. Stream /\ Held  BY DEF Stream, Held
<1>5. Received /\ Accepted  BY EmptySeq DEF Received, Accepted
<1> QED  BY <1>1, <1>2, <1>2a, <1>3, <1>4, <1>5, TypeParts DEF Inv

-----------------------------------------------------------------------------
(* A request the device takes                                              *)

LEMMA Asked ==
  ASSUME Inv, NEW c \in Clients, chain[c] = "request"
  PROVE  /\ file[c] \in offered /\ file[c] \in Files
         /\ ofs[c] \in Nat /\ ofs[c] + 1 \in Nat
<1>1. file[c] \in offered /\ file[c] \in Files
  BY TypeParts DEF Inv, Tabs, OnWire, Shapes
<1>2. ofs[c] \in Nat  BY TypeParts DEF Inv, Places
<1> QED  BY <1>1, <1>2

\* Where the OTA is that of the upload alone the device has received of it what
\* was sent, and has taken part of no other.
LEMMA Taken ==
  ASSUME Inv, NEW c \in Clients, Handle(c), Begun(c), Own(c) # {}
  PROVE  /\ Own(c) = {c}
         /\ Size(c) = Chunks(file[c])
         /\ Before(c) = Prefix(file[c], ofs[c])
         /\ \A d \in own : d = c
<1> USE DEF Inv
<1>1. file[c] \in Files /\ ofs[c] \in Nat  BY Asked DEF Handle
<1>3. CASE ofs[c] = 0
  <2>1. s_size = 0  BY <1>3 DEF Begun, CanBegin
  <2>2. own = {}  BY <2>1 DEF Stream
  <2>3. Before(c) = Prefix(file[c], ofs[c])
    BY <1>1, <1>3, PrefixEmpty DEF Before
  <2> QED  BY <1>3, <2>2, <2>3 DEF Size, Own
<1>4. CASE ofs[c] # 0
  <2>1. Mid(c) /\ Count(c) = ofs[c]  BY <1>1, <1>4 DEF Mid, Handle, Count
  <2>2. c \in own /\ Own(c) = {c}  BY <1>4 DEF Own
  <2> QED  BY <1>4, <2>1, <2>2 DEF Stream, Size, Before
<1> QED  BY <1>3, <1>4

LEMMA TakenWritten ==
  ASSUME Inv, NEW c \in Clients, Handle(c), Begun(c), Own(c) # {}, Size(c) # 0
  PROVE  Written(c) = Prefix(file[c], ofs[c] + 1)
<1>1. file[c] \in Files /\ ofs[c] \in Nat  BY Asked DEF Handle
<1> QED  BY <1>1, Taken, PrefixFacts DEF Written

\* Whatever it is that the device has taken, it is of files that were chosen.
LEMMA TakenData ==
  ASSUME Inv, NEW c \in Clients, Handle(c)
  PROVE  /\ Size(c) \in Nat
         /\ Before(c) \in Seq(offered \X Nat)
         /\ Written(c) \in Seq(offered \X Nat)
<1>1. file[c] \in offered /\ file[c] \in Files /\ ofs[c] + 1 \in Nat
  BY Asked DEF Handle
<1>2. Size(c) \in Nat
  BY <1>1, FilesFacts, TypeParts DEF Inv, Shapes, Size
<1>3. Before(c) \in Seq(offered \X Nat)
  BY EmptySeq DEF Inv, Received, Before
<1>4. Append(Before(c), <<file[c], ofs[c] + 1>>) \in Seq(offered \X Nat)
  <2>1. <<file[c], ofs[c] + 1>> \in offered \X Nat  BY <1>1
  <2> QED  BY <1>3, <2>1, AppendProperties
<1> QED  BY <1>2, <1>3, <1>4 DEF Written

LEMMA SeqOfMore ==
  ASSUME NEW S, NEW T, S \subseteq T, NEW s, s \in Seq(S)
  PROVE  s \in Seq(T)
<1>1. PICK n \in Nat : s \in [1..n -> S]  BY SeqDef
<1>2. s \in [1..n -> T]  BY <1>1
<1> QED  BY <1>2, SeqDef

\* What mg_ota_end installs is the whole file.
LEMMA EndInstalls ==
  ASSUME Inv, NEW c \in Clients, Handle(c), Begun(c), Own(c) # {},
         NEW data, data \in {Before(c), Written(c)},
         NEW good, NEW saved, OtaOk(Size(c), data, good, saved)
  PROVE  Chunks(file[c]) > 0 /\ data = Whole(file[c])
<1>1. Size(c) # 0 /\ Len(data) = Size(c)  BY DEF OtaOk
<1>2. file[c] \in Files /\ ofs[c] \in Nat /\ ofs[c] + 1 \in Nat /\ Chunks(file[c]) \in Nat
  BY Asked, FilesFacts DEF Handle
<1>3. PICK k \in Nat : data = Prefix(file[c], k)
  BY <1>1, <1>2, Taken, TakenWritten
<1>4. Len(data) = k  BY <1>2, <1>3, PrefixFacts
<1>5. k = Chunks(file[c])  BY <1>1, <1>4, Taken
<1> QED  BY <1>1, <1>2, <1>3, <1>5, Taken, WholeIsPrefix

\* What the end of an OTA leaves as the image.
Mixed(c) ==
  /\ Own(c) = {}
  /\ image' \in Seq(offered \X Nat) /\ Len(image') # 0
  /\ swapped' = TRUE

LEMMA EndImage ==
  ASSUME Inv, NEW c \in Clients, WriteFail(c) \/ End(c)
  PROVE  \/ UNCHANGED <<image, swapped>>
         \/ swapped /\ image' = Overwritten /\ UNCHANGED swapped
         \/ Chunks(file[c]) > 0 /\ image' = Whole(file[c]) /\ swapped' = TRUE
         \/ Mixed(c)
<1>0. swapped \in BOOLEAN /\ Handle(c) /\ Begun(c)
  BY TypeParts DEF Inv, Flags, WriteFail, End
<1>1. ASSUME NEW data, data \in {Before(c), Written(c)}, NEW good, NEW saved,
             OtaOk(Size(c), data, good, saved), image' = data, swapped' = TRUE
      PROVE  \/ Chunks(file[c]) > 0 /\ image' = Whole(file[c]) /\ swapped' = TRUE
             \/ Mixed(c)
  <2>1. CASE Own(c) # {}  BY <1>0, <1>1, <2>1, EndInstalls
  <2>2. CASE Own(c) = {}
    <3>1. data \in Seq(offered \X Nat)  BY <1>0, <1>1, TakenData
    <3>2. Len(data) # 0  BY <1>1 DEF OtaOk
    <3> QED  BY <1>1, <2>2, <3>1, <3>2 DEF Mixed
  <2> QED  BY <2>1, <2>2
<1>2. CASE WriteFail(c)
  <2>0. PICK good, saved \in BOOLEAN :
          OtaEnd(Size(c), Written(c),
                 OtaOk(Size(c), Written(c), Good(c) /\ good, saved), Flashed(c))
    BY <1>2 DEF WriteFail
  <2>1. CASE OtaOk(Size(c), Written(c), Good(c) /\ good, saved)
    <3>1. image' = Written(c) /\ swapped' = TRUE  BY <2>0, <2>1 DEF OtaEnd
    <3> QED  BY <1>1, <2>1, <3>1
  <2>2. CASE ~OtaOk(Size(c), Written(c), Good(c) /\ good, saved)
    <3>1. image' = Flashed(c) /\ swapped' = swapped
      BY <1>0, <2>0, <2>2 DEF OtaEnd
    <3> QED  BY <3>1 DEF Flashed
  <2> QED  BY <2>1, <2>2
<1>3. CASE End(c)
  <2>0. PICK saved \in BOOLEAN :
          OtaEnd(Size(c), Before(c),
                 OtaOk(Size(c), Before(c), Good(c), saved), image)
    BY <1>3 DEF End
  <2>1. CASE OtaOk(Size(c), Before(c), Good(c), saved)
    <3>1. image' = Before(c) /\ swapped' = TRUE  BY <2>0, <2>1 DEF OtaEnd
    <3> QED  BY <1>1, <2>1, <3>1
  <2>2. CASE ~OtaOk(Size(c), Before(c), Good(c), saved)
    BY <1>0, <2>0, <2>2 DEF OtaEnd
  <2> QED  BY <2>1, <2>2
<1> QED  BY <1>2, <1>3

-----------------------------------------------------------------------------
(* Types                                                                   *)

LEMMA PlaceSet ==
  ASSUME Places, NEW c \in Clients, NEW f \in Files \cup {NoFile}, NEW n \in Nat,
         f \in Files => n <= Chunks(f),
         file' = [file EXCEPT ![c] = f], ofs' = [ofs EXCEPT ![c] = n]
  PROVE  Places'
  BY DEF Places

LEMMA PlaceRest ==
  ASSUME Places, NEW c \in Clients, NEW how, Rest(c, how)
  PROVE  Places' /\ chain' = [chain EXCEPT ![c] = how]
<1>1. NoFile \in Files \cup {NoFile} /\ NoFile \notin Files  BY FilesFacts
<1> QED  BY <1>1, PlaceSet DEF Rest

LEMMA PlaceNext == Places => \A c \in Clients : ofs[c] + 1 \in Nat
<1> SUFFICES ASSUME Places, NEW c \in Clients PROVE ofs[c] + 1 \in Nat
  OBVIOUS
<1>1. ofs[c] \in Nat  BY DEF Places
<1> QED  BY <1>1

LEMMA PlaceKept == Places /\ UNCHANGED <<file, ofs>> => Places'
  BY DEF Places

LEMMA FlagsStep ==
  ASSUME Flags, Next PROVE Flags'
<1> USE DEF Flags, deviceVars, tabVars, history
<1>1. CASE \E c \in Clients : \E f \in Files : Choose(c, f)  BY <1>1 DEF Choose
<1>2. CASE \E c \in Clients : Browser(c)
  BY <1>2 DEF Browser, NextChunk, Finish, Fail, Settle
<1>3. CASE \E c \in Clients :
             Leave(c) \/ Close(c) \/ Unheard(c) \/ Open(c) \/ CutOff(c)
  BY <1>3 DEF Leave, Close, Unheard, Open, CutOff
<1>4. CASE \E c \in Clients : HandleNone(c) \/ Refuse(c)
  BY <1>4 DEF HandleNone, Refuse
<1>5. ASSUME NEW c \in Clients, Write(c) PROVE Flags'
  <2>1. intact' \in BOOLEAN  BY <1>5 DEF Write, Good
  <2>2. abandoned' \in BOOLEAN  BY <1>5 DEF Write, Abandons
  <2>3. UNCHANGED <<swapped, reset, spin, accepted>>  BY <1>5 DEF Write
  <2>4. own' \in SUBSET Clients  BY <1>5 DEF Write, Own
  <2> QED  BY <2>1, <2>2, <2>3, <2>4
<1>6. ASSUME NEW c \in Clients, WriteFail(c) PROVE Flags'
  <2>1. intact' \in BOOLEAN  BY <1>6 DEF WriteFail, OtaEnd
  <2>2. abandoned' \in BOOLEAN  BY <1>6 DEF WriteFail, Abandons
  <2>3. UNCHANGED <<reset, spin, accepted>> /\ own' = {}  BY <1>6 DEF WriteFail
  <2>4. swapped' \in BOOLEAN  BY <1>6 DEF WriteFail, OtaEnd
  <2> QED  BY <2>1, <2>2, <2>3, <2>4
<1>7. ASSUME NEW c \in Clients, End(c) PROVE Flags'
  <2>1. intact' \in BOOLEAN  BY <1>7 DEF End, OtaEnd
  <2>2. abandoned' \in BOOLEAN  BY <1>7 DEF End, Abandons
  <2>3. UNCHANGED spin /\ own' = {}  BY <1>7 DEF End
  <2>4. reset' \in BOOLEAN  BY <1>7 DEF End
  <2>5. accepted' \in [Clients -> {"no", "whole", "foreign"}]  BY <1>7 DEF End
  <2>6. swapped' \in BOOLEAN  BY <1>7 DEF End, OtaEnd
  <2> QED  BY <2>1, <2>2, <2>3, <2>4, <2>5, <2>6
<1>8. CASE Reboot \/ ResetNone \/ ResetFlash
  BY <1>8 DEF Reboot, ResetNone, ResetFlash
<1> QED
  BY <1>1, <1>2, <1>3, <1>4, <1>5, <1>6, <1>7, <1>8 DEF Next, Device

LEMMA PlacesStep ==
  ASSUME Places, Next PROVE Places'
<1>1. ASSUME NEW c \in Clients, NEW f \in Files, Choose(c, f) PROVE Places'
  <2>1. f \in Files \cup {NoFile} /\ 0 \in Nat /\ 0 <= Chunks(f)
    BY FilesFacts
  <2>2. file' = [file EXCEPT ![c] = f] /\ ofs' = [ofs EXCEPT ![c] = 0]
    BY <1>1 DEF Choose
  <2> QED  BY <2>1, <2>2, PlaceSet
<1>2. ASSUME NEW c \in Clients, NextChunk(c) PROVE Places'
  <2>1. file[c] \in Files \cup {NoFile} /\ ofs[c] \in Nat  BY DEF Places
  <2>2. ofs[c] + 1 \in Nat  BY <2>1
  <2>3. file[c] \in Files => ofs[c] + 1 <= Chunks(file[c])
    BY <1>2, <2>1, FilesFacts DEF NextChunk
  <2>4. file' = [file EXCEPT ![c] = file[c]]  BY <1>2 DEF NextChunk, Places
  <2>5. ofs' = [ofs EXCEPT ![c] = ofs[c] + 1]  BY <1>2 DEF NextChunk
  <2> QED  BY <2>1, <2>2, <2>3, <2>4, <2>5, PlaceSet
<1>3. ASSUME NEW c \in Clients, Fail(c) \/ Settle(c) \/ Unheard(c) \/ CutOff(c)
      PROVE  Places'
  BY <1>3, PlaceRest DEF Fail, Settle, Unheard, CutOff
<1>4. ASSUME NEW c \in Clients, Close(c) PROVE Places'
  <2>1. CASE chain[c] \in OnWire
    <3>1. UNCHANGED <<file, ofs>>  BY <1>4, <2>1 DEF Close, chainVars
    <3> QED  BY <3>1, PlaceKept
  <2>2. CASE chain[c] \notin OnWire
    <3>1. Rest(c, "none")  BY <1>4, <2>2 DEF Close
    <3> QED  BY <3>1, PlaceRest
  <2> QED  BY <2>1, <2>2
<1>5. ASSUME NEW c \in Clients,
             Finish(c) \/ Leave(c) \/ Open(c) \/ HandleNone(c) \/ Refuse(c)
               \/ Write(c) \/ WriteFail(c) \/ End(c)
      PROVE  Places'
  BY <1>5, PlaceKept
     DEF Finish, Leave, Open, HandleNone, Refuse, Write, WriteFail, End, chainVars
<1>6. CASE Reboot \/ ResetNone
  BY <1>6, PlaceKept DEF Reboot, ResetNone, chainVars
<1>7. CASE ResetFlash
  <2>1. PICK lost \in SUBSET Clients :
          /\ file' = [d \in Clients |-> IF d \in lost THEN NoFile ELSE file[d]]
          /\ ofs' = [d \in Clients |-> IF d \in lost THEN 0 ELSE ofs[d]]
    BY <1>7 DEF ResetFlash
  <2> QED  BY <2>1, FilesFacts DEF Places
<1> QED
  BY <1>1, <1>2, <1>3, <1>4, <1>5, <1>6, <1>7 DEF Next, Browser, Device
LEMMA ShapesStep ==
  ASSUME Inv, Next PROVE Shapes'
<1>0. Flags /\ Shapes /\ Places  BY TypeParts DEF Inv
<1> DEFINE ChainSet == {"none", "delay", "hung"} \cup OnWire
<1> USE <1>0 DEF deviceVars, tabVars, chainVars, history, Shapes
<1>1. ASSUME NEW c \in Clients, NEW f \in Files, Choose(c, f) PROVE Shapes'
  BY <1>1 DEF Choose, OnWire
<1>2. ASSUME NEW c \in Clients, Browser(c) PROVE Shapes'
  <2>1. UNCHANGED <<build, s_size, got, image, page, offered>>
    BY <1>2 DEF Browser, NextChunk, Finish, Fail, Settle
  <2>2. chain' \in [Clients -> ChainSet]
    BY <1>2 DEF Browser, NextChunk, Finish, Fail, Settle, Rest, OnWire
  <2>3. status' \in [Clients -> {"", "Uploading", "Error", "Error, Done", "Done"}]
    BY <1>2 DEF Browser, NextChunk, Finish, Fail, Settle, Show
  <2> QED  BY <2>1, <2>2, <2>3
<1>3. ASSUME NEW c \in Clients, Leave(c) \/ Close(c)
      PROVE  Shapes'
  <2>1. chain' = chain \/ chain' = [chain EXCEPT ![c] = "none"]
    BY <1>3 DEF Leave, Close, Rest
  <2>2. UNCHANGED <<build, s_size, got, image, offered>>
    BY <1>3 DEF Leave, Close
  <2>3. /\ page' \in [Clients -> {"open", "left", "closed"}]
        /\ status' = [status EXCEPT ![c] = ""]
    BY <1>3 DEF Leave, Close
  <2> QED  BY <2>1, <2>2, <2>3
<1>4. ASSUME NEW c \in Clients,
             Unheard(c) \/ Open(c) \/ CutOff(c) \/ HandleNone(c) \/ Refuse(c)
      PROVE  Shapes'
  BY <1>4 DEF Unheard, Open, CutOff, HandleNone, Refuse, Rest, Rejected, Reply, OnWire
<1>5. ASSUME NEW c \in Clients, Write(c) PROVE Shapes'
  <2>1. /\ Handle(c) /\ Begun(c) /\ Size(c) # 0
        /\ s_size' = Size(c) /\ got' = Written(c) /\ Reply(c, "ok")
        /\ UNCHANGED <<build, page, status, offered>>
    BY <1>5 DEF Write
  <2>3. s_size' \in Nat  BY <2>1, TakenData
  <2>4. got' \in Seq(Files \X Nat)
    <3>1. Written(c) \in Seq(offered \X Nat)  BY <2>1, TakenData
    <3>2. offered \X Nat \subseteq Files \X Nat  OBVIOUS
    <3> QED  BY <2>1, <3>1, <3>2, SeqOfMore
  <2>5. chain' \in [Clients -> ChainSet]  BY <2>1 DEF Reply, OnWire
  <2>6. image' \in {image, Overwritten}  BY <1>5 DEF Write, Flashed
  <2> QED  BY <2>1, <2>3, <2>4, <2>5, <2>6
<1>6. ASSUME NEW c \in Clients, WriteFail(c) \/ End(c) PROVE Shapes'
  <2>1. /\ s_size' = 0 /\ got' = <<>>
        /\ UNCHANGED <<build, page, status, offered>>
    BY <1>6 DEF WriteFail, End, OtaEnd
  <2>2. CASE image' \in {image, Overwritten, Whole(file[c])}
    <3>1. file[c] \in Files  BY <1>6, Asked DEF WriteFail, End, Handle
    <3>2. Whole(file[c]) \in Seq(Files \X Nat)
      BY <3>1, WholeIsPrefix, FilesFacts, PrefixFacts
    <3>3. image' \in Seq(Files \X Nat) \cup {Overwritten}  BY <2>2, <3>2
    <3>4. chain' \in [Clients -> ChainSet]
      BY <1>6 DEF WriteFail, End, Reply, OnWire
    <3> QED  BY <2>1, <3>3, <3>4, EmptySeq
  <2>3. CASE Mixed(c)
    <3>1. image' \in Seq(offered \X Nat)  BY <2>3 DEF Mixed
    <3>2. offered \X Nat \subseteq Files \X Nat  OBVIOUS
    <3>3. image' \in Seq(Files \X Nat) \cup {Overwritten}
      BY <3>1, <3>2, SeqOfMore
    <3>4. chain' \in [Clients -> ChainSet]
      BY <1>6 DEF WriteFail, End, Reply, OnWire
    <3> QED  BY <2>1, <3>3, <3>4, EmptySeq
  <2> QED  BY <1>6, <2>2, <2>3, EndImage
<1>7. CASE Reboot \/ ResetNone  BY <1>7 DEF Reboot, ResetNone
<1>8. CASE ResetFlash
  <2>1. chain' \in [Clients -> ChainSet]
    BY <1>8 DEF ResetFlash, Rejected
  <2>2. s_size' = 0 /\ got' = <<>> /\ UNCHANGED <<build, image, page, status, offered>>
    BY <1>8 DEF ResetFlash
  <2> QED  BY <2>1, <2>2, EmptySeq
<1> QED
  BY <1>1, <1>2, <1>3, <1>4, <1>5, <1>6, <1>7, <1>8 DEF Next, Device

LEMMA TypeStep == Inv /\ [Next]_vars => TypeOK'
<1>1. CASE Inv /\ Next
  BY <1>1, TypeParts, FlagsStep, PlacesStep, ShapesStep
     DEF Inv, TypeOK, Flags, Shapes, Places
<1>2. CASE Inv /\ UNCHANGED vars
  BY <1>2 DEF Inv, vars, deviceVars, tabVars, chainVars, history, TypeOK
<1> QED  BY <1>1, <1>2
-----------------------------------------------------------------------------
(* The steps                                                               *)

\* A step that takes no request: where an upload the device has begun goes on,
\* it goes on as it was, or else it is known to be abandoned.
LEMMA StreamKept ==
  ASSUME Flags, Stream, Held, UNCHANGED <<build, s_size, got, own>>,
         abandoned => abandoned',
         \A d \in Clients : Mid(d)' =>
           Mid(d) /\ file'[d] = file[d] /\ Count(d)' = Count(d),
         \A d \in Clients : page[d] # "closed" /\ Mid(d) =>
           abandoned' \/ (page'[d] # "closed" /\ Mid(d)')
  PROVE  Stream' /\ Held'
<1>1. Stream'
  <2>1. /\ \A c, d \in own' : c = d
        /\ own' # {} => s_size' # 0
    BY DEF Stream
  <2>2. ASSUME NEW d \in own', Mid(d)'
        PROVE  s_size' = Chunks(file[d])' /\ got' = Prefix(file[d], Count(d))'
    <3>1. d \in own /\ d \in Clients  BY DEF Flags
    <3> QED  BY <2>2, <3>1 DEF Stream, Prefix, Chunks
  <2> QED  BY <2>1, <2>2 DEF Stream
<1>2. Held'  BY DEF Held
<1> QED  BY <1>1, <1>2

\* The device has begun no upload any more.
LEMMA StreamOver ==
  ASSUME s_size' = 0, own' = {} PROVE Stream' /\ Held'
  BY DEF Stream, Held

\* The steps of the pages, of the network and of a device that refuses.
Quiet(c) ==
  \/ \E f \in Files : Choose(c, f)
  \/ Browser(c) \/ HandleNone(c) \/ Refuse(c)
  \/ Leave(c) \/ Close(c) \/ Unheard(c) \/ Open(c) \/ CutOff(c)

LEMMA QuietMid ==
  ASSUME Inv, NEW c \in Clients, Quiet(c)
  PROVE  /\ UNCHANGED <<build, s_size, got, own>>
         /\ abandoned => abandoned'
         /\ \A d \in Clients : Mid(d)' =>
              Mid(d) /\ file'[d] = file[d] /\ Count(d)' = Count(d)
         /\ \A d \in Clients : page[d] # "closed" /\ Mid(d) =>
              abandoned' \/ (page'[d] # "closed" /\ Mid(d)')
<1>0. Flags /\ Shapes /\ Places  BY TypeParts DEF Inv
<1>1. UNCHANGED <<build, s_size, got, own>>
  BY DEF Quiet, Choose, Browser, NextChunk, Finish, Fail, Settle, HandleNone,
     Refuse, Leave, Close, Unheard, Open, CutOff, deviceVars, history
<1>2. abandoned => abandoned'
  BY DEF Quiet, Choose, Browser, NextChunk, Finish, Fail, Settle, HandleNone,
     Refuse, Leave, Close, Unheard, Open, CutOff, history
<1>3. \A d \in Clients : d # c => chain'[d] = chain[d] /\ file'[d] = file[d]
                                   /\ ofs'[d] = ofs[d] /\ page'[d] = page[d]
  BY <1>0 DEF Quiet, Choose, Browser, NextChunk, Finish, Fail, Settle, HandleNone,
     Refuse, Leave, Close, Unheard, Open, CutOff, deviceVars, tabVars, chainVars,
     Rest, Reply, Shapes, Places
<1>4. \A d \in Clients : d # c =>
        (Mid(d)' <=> Mid(d)) /\ Count(d)' = Count(d)
  BY <1>1, <1>3 DEF Mid, Count, Chunks
<1> DEFINE Goes ==
      /\ Mid(c)' => Mid(c) /\ file'[c] = file[c] /\ Count(c)' = Count(c)
      /\ page[c] # "closed" /\ Mid(c) =>
           abandoned' \/ (page'[c] # "closed" /\ Mid(c)')
<1>5. Goes
  <2>0. Mid(c) => chain[c] \in {"request", "ok"}  BY DEF Mid
  <2> USE DEF Shapes, Places
  <2>1. CASE \E f \in Files : Choose(c, f)
    <3>1. ~Mid(c)
      <4>1. page[c] = "open" /\ ~spin[c]  BY <2>1 DEF Choose
      <4> QED  BY <2>0, <4>1 DEF Inv, Tabs, OnWire
    <3>2. chain'[c] = "request" /\ ofs'[c] = 0  BY <1>0, <2>1 DEF Choose
    <3>3. ~Mid(c)'  BY <3>2 DEF Mid
    <3> QED  BY <3>1, <3>3
  <2>2. CASE NextChunk(c)
    <3>1. /\ chain[c] = "ok" /\ chain'[c] = "request"
          /\ ofs[c] < Chunks(file[c]) /\ ofs'[c] = ofs[c] + 1
          /\ UNCHANGED <<file, page>>
      BY <1>0, <2>2 DEF NextChunk
    <3>2. ofs[c] \in Nat  BY <1>0
    <3>3. Mid(c) => Mid(c)'
      BY <1>1, <3>1, <3>2 DEF Mid
    <3>4. Mid(c)' => Mid(c)  BY <1>1, <3>1 DEF Mid
    <3>5. Count(c)' = Count(c)  BY <3>1 DEF Count
    <3> QED  BY <3>1, <3>3, <3>4, <3>5
  <2>3. CASE Finish(c) \/ Fail(c) \/ Settle(c) \/ Refuse(c)
    <3>1. ~Mid(c)
      <4>1. CASE Finish(c)
        <5>1. ofs[c] \in Nat  BY <1>0
        <5>2. chain[c] = "ok" /\ ~(ofs[c] < Chunks(file[c]))
          BY <4>1, <5>1 DEF Finish
        <5> QED  BY <5>2 DEF Mid
      <4>2. CASE Fail(c) \/ Settle(c)  BY <4>2 DEF Fail, Settle, Mid
      <4>3. CASE Refuse(c)  BY <4>3 DEF Refuse, Handle, Mid
      <4> QED  BY <2>3, <4>1, <4>2, <4>3
    <3>2. chain'[c] \in {"delay", "none", "error"}
      BY <1>0, <2>3 DEF Finish, Fail, Settle, Refuse, Rest, Reply
    <3>3. ~Mid(c)'  BY <3>2 DEF Mid
    <3> QED  BY <3>1, <3>3
  <2>4. CASE HandleNone(c)
    <3>1. ~Mid(c) /\ ~Mid(c)'  BY <1>1, <2>4 DEF HandleNone, Mid
    <3> QED  BY <3>1
  <2>5. CASE Leave(c)
    <3>1. UNCHANGED <<chain, file, ofs>> /\ page'[c] = "left"
      BY <1>0, <2>5 DEF Leave, chainVars
    <3> QED  BY <1>1, <3>1 DEF Mid, Count
  <2>6. CASE Close(c)
    <3>1. chain[c] \in OnWire => UNCHANGED <<chain, file, ofs>> /\ abandoned'
      BY <2>6 DEF Close, chainVars
    <3>2. chain[c] \notin OnWire => chain'[c] = "none"
      BY <1>0, <2>6 DEF Close, Rest
    <3> QED  BY <1>1, <2>0, <3>1, <3>2 DEF Mid, Count, OnWire
  <2>7. CASE Unheard(c) \/ Open(c)
    <3>1. chain'[c] = "none"  BY <1>0, <2>7 DEF Unheard, Open, Rest
    <3>2. page[c] = "closed" \/ ~Mid(c)  BY <2>0, <2>7 DEF Unheard, Open
    <3> QED  BY <3>1, <3>2 DEF Mid
  <2>8. CASE CutOff(c)
    <3>1. abandoned' /\ chain'[c] \in {"none", "hung"}
      BY <1>0, <2>8 DEF CutOff, Rest, Rejected
    <3> QED  BY <3>1 DEF Mid
  <2> QED
    BY <2>1, <2>2, <2>3, <2>4, <2>5, <2>6, <2>7, <2>8 DEF Quiet, Browser
<1> QED  BY <1>1, <1>2, <1>3, <1>4, <1>5

LEMMA QuietStream ==
  ASSUME Inv, NEW c \in Clients, Quiet(c) PROVE Stream' /\ Held'
  BY QuietMid, StreamKept, TypeParts DEF Inv

\* What a step that takes a request leaves of the uploads under way.
LEMMA WriteMid ==
  ASSUME Inv, NEW c \in Clients, Write(c)
  PROVE  /\ Mid(c)' /\ Count(c)' = ofs[c] + 1
         /\ \A d \in Clients : d # c => (Mid(d)' <=> Mid(d))
<1>0. Shapes /\ Places  BY TypeParts DEF Inv
<1>1. /\ build' = "flash" /\ build = "flash" /\ ofs[c] < Chunks(file[c])
      /\ chain' = [chain EXCEPT ![c] = "ok"]
      /\ UNCHANGED <<file, ofs>>
  BY DEF Write, Reply, Handle
<1>2. chain'[c] = "ok" /\ \A d \in Clients : d # c => chain'[d] = chain[d]
  BY <1>0, <1>1 DEF Shapes
<1> QED  BY <1>1, <1>2 DEF Mid, Count, Chunks

LEMMA EndMid ==
  ASSUME Inv, NEW c \in Clients, WriteFail(c) \/ End(c)
  PROVE  /\ ~Mid(c)'
         /\ \A d \in Clients : d # c => (Mid(d)' <=> Mid(d))
<1>0. Shapes /\ Places  BY TypeParts DEF Inv
<1>1. UNCHANGED <<build, file, ofs>>
  BY DEF WriteFail, End
<1>2. \A d \in Clients : d # c => chain'[d] = chain[d]
  BY <1>0 DEF WriteFail, End, Reply, Shapes
<1>3. ~Mid(c)'
  <2>1. CASE WriteFail(c)
    <3>1. chain'[c] = "error"  BY <1>0, <2>1 DEF WriteFail, Reply, Shapes
    <3> QED  BY <3>1 DEF Mid
  <2>2. CASE End(c)
    <3>1. chain'[c] # "request" /\ ofs[c] = Chunks(file[c])
      BY <1>0, <2>2 DEF End, Reply, Shapes
    <3>2. ofs[c] \in Nat  BY <1>0 DEF Places
    <3> QED  BY <1>1, <3>1, <3>2 DEF Mid, Chunks
  <2> QED  BY <2>1, <2>2
<1> QED  BY <1>1, <1>2, <1>3 DEF Mid, Chunks

\* A step that takes a request: it is of the OTA's own upload, or that OTA is
\* nobody's from now on.
LEMMA WriteStream ==
  ASSUME Inv, NEW c \in Clients, Write(c) PROVE Stream' /\ Held'
<1>0. Flags /\ Shapes /\ Places  BY TypeParts DEF Inv
<1>1. /\ Handle(c) /\ Begun(c) /\ Size(c) # 0 /\ build' = "flash"
      /\ s_size' = Size(c) /\ got' = Written(c) /\ own' = Own(c)
      /\ Abandons(c) /\ UNCHANGED <<page, file, ofs>>
  BY DEF Write, Handle, tabVars
<1>2. Mid(c)' /\ Count(c)' = ofs[c] + 1  BY WriteMid
<1>4. Stream'
  <2>1. CASE Own(c) = {}  BY <1>1, <2>1 DEF Stream
  <2>2. CASE Own(c) # {}
    <3>1. s_size' = Chunks(file'[c]) /\ got' = Prefix(file'[c], Count(c)')
      BY <1>1, <1>2, <2>2, Taken, TakenWritten
    <3>2. own' = {c} /\ s_size' # 0  BY <1>1, <2>2, Taken
    <3> QED  BY <3>1, <3>2 DEF Stream, Prefix, Chunks
  <2> QED  BY <2>1, <2>2
<1>5. Held'
  <2>1. CASE ofs[c] = 0
    <3>1. abandoned' \/ page'[c] # "closed"  BY <1>1, <2>1 DEF Abandons
    <3> QED  BY <1>1, <1>2, <3>1 DEF Held
  <2>2. CASE ofs[c] # 0
    <3>1. s_size # 0 /\ abandoned' = abandoned
      BY <1>1, <2>2 DEF Size, Abandons
    <3>2. abandoned \/ \E d \in Clients : page[d] # "closed" /\ Mid(d)
      BY <3>1 DEF Inv, Held
    <3> QED  BY <1>1, <1>2, <3>1, <3>2, WriteMid DEF Held
  <2> QED  BY <2>1, <2>2
<1> QED  BY <1>4, <1>5

LEMMA EndStream ==
  ASSUME Inv, NEW c \in Clients, WriteFail(c) \/ End(c) PROVE Stream' /\ Held'
<1>1. s_size' = 0 /\ own' = {}  BY DEF WriteFail, End, OtaEnd
<1> QED  BY <1>1, StreamOver

LEMMA ResetStream ==
  ASSUME ResetFlash PROVE Stream' /\ Held'
  BY StreamOver DEF ResetFlash

LEMMA StreamStep == Inv /\ [Next]_vars => Stream' /\ Held'
<1> SUFFICES ASSUME Inv, [Next]_vars PROVE Stream' /\ Held'
  OBVIOUS
<1>1. CASE \E c \in Clients : Quiet(c)  BY <1>1, QuietStream
<1>2. CASE \E c \in Clients : Write(c)  BY <1>2, WriteStream
<1>3. CASE \E c \in Clients : WriteFail(c) \/ End(c)  BY <1>3, EndStream
<1>4. CASE ResetFlash  BY <1>4, ResetStream
<1>5. CASE Reboot \/ ResetNone \/ UNCHANGED vars
  <2>1. UNCHANGED <<build, s_size, got, own, page, chain, file, ofs, abandoned>>
    BY <1>5 DEF Reboot, ResetNone, vars, deviceVars, tabVars, chainVars, history
  <2>2. \A d \in Clients : (Mid(d)' <=> Mid(d)) /\ Count(d)' = Count(d)
    BY <2>1 DEF Mid, Count, Chunks
  <2> QED  BY <2>1, <2>2, StreamKept, TypeParts DEF Inv
<1> QED  BY <1>1, <1>2, <1>3, <1>4, <1>5 DEF Next, Device, Quiet

LEMMA ReceivedStep == Inv /\ [Next]_vars => Received'
<1> SUFFICES ASSUME Inv, [Next]_vars PROVE Received'
  OBVIOUS
<1>1. ASSUME NEW c \in Clients, Quiet(c) PROVE Received'
  <2>1. got' = got  BY <1>1, QuietMid
  <2>2. offered \X Nat \subseteq offered' \X Nat
    BY <1>1 DEF Quiet, Choose, Browser, NextChunk, Finish, Fail, Settle, HandleNone,
       Refuse, Leave, Close, Unheard, Open, CutOff, history
  <2> QED  BY <2>1, <2>2, SeqOfMore DEF Inv, Received
<1>2. ASSUME NEW c \in Clients, Write(c) PROVE Received'
  BY <1>2, TakenData DEF Write, Received
<1>3. CASE \E c \in Clients : WriteFail(c) \/ End(c)
  BY <1>3, EmptySeq DEF WriteFail, End, OtaEnd, Received
<1>4. CASE ResetFlash  BY <1>4, EmptySeq DEF ResetFlash, Received
<1>5. CASE Reboot \/ ResetNone \/ UNCHANGED vars
  BY <1>5 DEF Reboot, ResetNone, vars, deviceVars, history, Inv, Received
<1> QED  BY <1>1, <1>2, <1>3, <1>4, <1>5 DEF Next, Device, Quiet

\* What one tab knows, and what its line says: the other two parts of the
\* invariant that are about each client on its own.
Tab(d) ==
  /\ page[d] # "open" => status[d] = ""
  /\ chain[d] \in OnWire => file[d] \in offered /\ status[d] # "Done"
  /\ chain[d] \in OnWire /\ page[d] = "open" => spin[d]
Told(d) ==
  build = "flash" =>
    /\ chain[d] = "ok" /\ page[d] = "open" /\ ofs[d] = Chunks(file[d])
         => accepted[d] # "no"
    /\ status[d] = "Done" => accepted[d] # "no"

LEMMA TabsOfAll ==
  /\ Tabs <=> \A d \in Clients : Tab(d)
  /\ Accepted <=> \A d \in Clients : Told(d)
  BY DEF Tabs, Tab, Accepted, Told

\* A client that a step leaves alone knows as much as before.
LEMMA TabsOfOne ==
  ASSUME Inv, NEW c \in Clients, build' = build, offered \subseteq offered',
         \A d \in Clients : d # c =>
           /\ page'[d] = page[d] /\ spin'[d] = spin[d] /\ status'[d] = status[d]
           /\ chain'[d] = chain[d] /\ file'[d] = file[d] /\ ofs'[d] = ofs[d]
           /\ accepted'[d] = accepted[d],
         Tab(c)' /\ Told(c)'
  PROVE  Tabs' /\ Accepted'
<1>1. \A d \in Clients : Tab(d) /\ Told(d)  BY TabsOfAll DEF Inv
<1>2. \A d \in Clients : d # c => Tab(d)'  BY <1>1 DEF Tab
<1>3. \A d \in Clients : d # c => Told(d)'  BY <1>1 DEF Told, Chunks
<1>4. \A d \in Clients : Tab(d)' /\ Told(d)'  BY <1>2, <1>3
<1> QED  BY <1>4 DEF Tabs, Tab, Accepted, Told

LEMMA TabsAlone ==
  ASSUME Inv, NEW c \in Clients,
         (\E f \in Files : Choose(c, f)) \/ Browser(c) \/ Device(c)
           \/ Leave(c) \/ Close(c) \/ Unheard(c) \/ Open(c) \/ CutOff(c)
  PROVE  /\ build' = build /\ offered \subseteq offered'
         /\ \A d \in Clients : d # c =>
              /\ page'[d] = page[d] /\ spin'[d] = spin[d] /\ status'[d] = status[d]
              /\ chain'[d] = chain[d] /\ file'[d] = file[d] /\ ofs'[d] = ofs[d]
              /\ accepted'[d] = accepted[d]
<1>0. Flags /\ Shapes /\ Places  BY TypeParts DEF Inv
<1>1. CASE (\E f \in Files : Choose(c, f)) \/ Browser(c)
  BY <1>0, <1>1 DEF Choose, Browser, NextChunk, Finish, Fail, Settle, Show, Rest,
     deviceVars, tabVars, history, Flags, Shapes, Places
<1>2. CASE Device(c)
  BY <1>0, <1>2 DEF Device, HandleNone, Refuse, Write, WriteFail, End, Reply,
     deviceVars, tabVars, history, Flags, Shapes, Places
<1>3. CASE Leave(c) \/ Close(c) \/ Unheard(c) \/ Open(c) \/ CutOff(c)
  BY <1>0, <1>3 DEF Leave, Close, Unheard, Open, CutOff, Rest,
     deviceVars, tabVars, chainVars, history, Flags, Shapes, Places
<1> QED  BY <1>1, <1>2, <1>3

LEMMA TabBrowser ==
  ASSUME Inv, NEW c \in Clients, (\E f \in Files : Choose(c, f)) \/ Browser(c)
  PROVE  Tab(c)' /\ Told(c)'
<1>0. Flags /\ Shapes /\ Places /\ Tab(c) /\ Told(c)
  BY TypeParts, TabsOfAll DEF Inv
<1> USE <1>0 DEF Flags, Shapes, Places
<1>1. ASSUME NEW f \in Files, Choose(c, f) PROVE Tab(c)' /\ Told(c)'
  <2>1. /\ page'[c] = "open" /\ spin'[c] /\ status'[c] = "Uploading"
        /\ chain'[c] = "request" /\ file'[c] = f /\ f \in offered'
    BY <1>1 DEF Choose
  <2> QED  BY <2>1 DEF Tab, Told
<1>2. CASE NextChunk(c)
  <2>1. /\ chain[c] = "ok" /\ chain'[c] = "request"
        /\ UNCHANGED <<page, spin, file, offered>>
        /\ status'[c] = IF page[c] = "open" THEN "Uploading" ELSE status[c]
    BY <1>2 DEF NextChunk, Show, history
  <2> QED  BY <2>1 DEF Tab, Told, OnWire
<1>3. CASE Finish(c)
  <2>1. /\ chain[c] = "ok" /\ chain'[c] = "delay" /\ ofs[c] = Chunks(file[c])
        /\ UNCHANGED <<build, page, accepted>>
        /\ status'[c] = IF page[c] = "open" THEN "Done" ELSE status[c]
    BY <1>3 DEF Finish, Show, deviceVars, history
  <2> QED  BY <2>1 DEF Tab, Told, OnWire
<1>4. CASE Fail(c)
  <2>1. /\ chain'[c] = "none" /\ UNCHANGED <<build, page, accepted>>
        /\ \/ page[c] = "open" /\ status'[c] \in {"Error", "Error, Done"}
           \/ page[c] # "open" /\ status'[c] = status[c]
    BY <1>4 DEF Fail, Show, Rest, deviceVars, history
  <2> QED  BY <2>1 DEF Tab, Told, OnWire
<1>5. CASE Settle(c)
  <2>1. chain'[c] = "none" /\ UNCHANGED <<build, page, accepted, status>>
    BY <1>5 DEF Settle, Rest, deviceVars, history
  <2> QED  BY <2>1 DEF Tab, Told, OnWire
<1> QED  BY <1>1, <1>2, <1>3, <1>4, <1>5 DEF Browser

LEMMA TabDevice ==
  ASSUME Inv, NEW c \in Clients, Device(c) PROVE Tab(c)' /\ Told(c)'
<1>0. Flags /\ Shapes /\ Places /\ Tab(c) /\ Told(c)
  BY TypeParts, TabsOfAll DEF Inv
<1>1. /\ chain[c] = "request" /\ chain'[c] \in {"ok", "error"}
      /\ UNCHANGED <<build, tabVars, file, ofs, offered>>
  BY <1>0 DEF Device, HandleNone, Refuse, Write, WriteFail, End, Handle, Reply,
     deviceVars, history, Shapes
<1>2. Tab(c)'  BY <1>0, <1>1 DEF Tab, OnWire, tabVars
<1>3. status'[c] # "Done"  BY <1>0, <1>1 DEF Tab, OnWire, tabVars
<1>4. CASE HandleNone(c)  BY <1>1, <1>2, <1>4 DEF HandleNone, Told
<1>5. CASE Refuse(c) \/ WriteFail(c)
  <2>1. chain'[c] = "error"  BY <1>0, <1>5 DEF Refuse, WriteFail, Reply, Shapes
  <2> QED  BY <1>2, <1>3, <2>1 DEF Told
<1>6. CASE Write(c)
  <2>1. ofs[c] \in Nat /\ ofs[c] < Chunks(file[c])  BY <1>0, <1>6 DEF Write, Places
  <2>2. ofs'[c] # Chunks(file'[c])  BY <1>1, <2>1
  <2> QED  BY <1>2, <1>3, <2>2 DEF Told, Chunks
<1>7. CASE End(c)
  <2>1. PICK saved \in BOOLEAN :
          /\ image' = IF OtaOk(Size(c), Before(c), Good(c), saved)
                      THEN Before(c) ELSE image
          /\ chain' = [chain EXCEPT ![c] =
                         IF OtaOk(Size(c), Before(c), Good(c), saved)
                         THEN "ok" ELSE "error"]
          /\ accepted' = [accepted EXCEPT ![c] =
               IF OtaOk(Size(c), Before(c), Good(c), saved)
                    /\ image' = Whole(file[c])
               THEN "whole" ELSE IF Own(c) = {} THEN "foreign" ELSE "no"]
    BY <1>7 DEF End, OtaEnd, Reply
  <2>2. CASE OtaOk(Size(c), Before(c), Good(c), saved)
    <3>1. Own(c) # {} => Before(c) = Whole(file[c])
      BY <1>7, <2>2, EndInstalls DEF End
    <3>2. accepted'[c] # "no"  BY <1>0, <2>1, <2>2, <3>1 DEF Flags
    <3> QED  BY <1>2, <3>2 DEF Told
  <2>3. CASE ~OtaOk(Size(c), Before(c), Good(c), saved)
    <3>1. chain'[c] = "error"  BY <1>0, <2>1, <2>3 DEF Shapes
    <3> QED  BY <1>2, <1>3, <3>1 DEF Told
  <2> QED  BY <2>2, <2>3
<1> QED  BY <1>2, <1>4, <1>5, <1>6, <1>7 DEF Device

LEMMA TabOther ==
  ASSUME Inv, NEW c \in Clients,
         Leave(c) \/ Close(c) \/ Unheard(c) \/ Open(c) \/ CutOff(c)
  PROVE  Tab(c)' /\ Told(c)'
<1>0. Flags /\ Shapes /\ Places /\ Tab(c) /\ Told(c)
  BY TypeParts, TabsOfAll DEF Inv
<1> USE <1>0 DEF Flags, Shapes, Places
<1>1. CASE Leave(c)
  <2>1. /\ page'[c] = "left" /\ status'[c] = ""
        /\ UNCHANGED <<build, chain, file, ofs, offered>>
    BY <1>1 DEF Leave, chainVars, deviceVars, history
  <2> QED  BY <2>1 DEF Tab, Told
<1>2. CASE Close(c)
  <2>1. page'[c] = "closed" /\ status'[c] = "" /\ offered' = offered
    BY <1>2 DEF Close
  <2>2. CASE chain[c] \in OnWire
    <3>1. UNCHANGED <<chain, file>>  BY <1>2, <2>2 DEF Close, chainVars
    <3> QED  BY <2>1, <2>2, <3>1 DEF Tab, Told, OnWire
  <2>3. CASE chain[c] \notin OnWire
    <3>1. chain'[c] = "none"  BY <1>2, <2>3 DEF Close, Rest
    <3> QED  BY <2>1, <3>1 DEF Tab, Told, OnWire
  <2> QED  BY <2>2, <2>3
<1>3. CASE Unheard(c) \/ CutOff(c)
  <2>1. /\ chain'[c] \in {"none", "hung"}
        /\ UNCHANGED <<build, page, status, accepted>>
    BY <1>3 DEF Unheard, CutOff, Rest, Rejected, deviceVars, tabVars, history
  <2> QED  BY <2>1 DEF Tab, Told, OnWire
<1>4. CASE Open(c)
  <2>1. /\ page[c] # "open" /\ page'[c] = "open" /\ chain'[c] = "none"
        /\ UNCHANGED <<build, status, accepted>>
    BY <1>4 DEF Open, deviceVars, history
  <2> QED  BY <2>1 DEF Tab, Told, OnWire
<1> QED  BY <1>1, <1>2, <1>3, <1>4

LEMMA TabsStep == Inv /\ [Next]_vars => Tabs' /\ Accepted'
<1> SUFFICES ASSUME Inv, [Next]_vars PROVE Tabs' /\ Accepted'
  OBVIOUS
<1>1. CASE \E c \in Clients :
             (\E f \in Files : Choose(c, f)) \/ Browser(c) \/ Device(c)
               \/ Leave(c) \/ Close(c) \/ Unheard(c) \/ Open(c) \/ CutOff(c)
  BY <1>1, TabsAlone, TabBrowser, TabDevice, TabOther, TabsOfOne
<1>2. CASE ResetFlash
  <2>1. PICK lost \in SUBSET Clients :
          /\ \A d \in lost : chain[d] \in OnWire
          /\ chain' = [d \in Clients |-> IF d \in lost THEN Rejected(d) ELSE chain[d]]
          /\ file' = [d \in Clients |-> IF d \in lost THEN NoFile ELSE file[d]]
          /\ ofs' = [d \in Clients |-> IF d \in lost THEN 0 ELSE ofs[d]]
    BY <1>2 DEF ResetFlash
  <2>2. UNCHANGED <<build, page, spin, status, offered, accepted>>
    BY <1>2 DEF ResetFlash, tabVars
  <2>3. ASSUME NEW d \in Clients PROVE Tab(d)' /\ Told(d)'
    <3>0. Tab(d) /\ Told(d)  BY TabsOfAll DEF Inv
    <3>1. CASE d \in lost
      <4>1. chain'[d] \in {"none", "hung"}  BY <2>1, <3>1 DEF Rejected
      <4> QED  BY <2>2, <3>0, <4>1 DEF Tab, Told, OnWire
    <3>2. CASE d \notin lost
      <4>1. chain'[d] = chain[d] /\ file'[d] = file[d] /\ ofs'[d] = ofs[d]
        BY <2>1, <3>2
      <4> QED  BY <2>2, <3>0, <4>1 DEF Tab, Told, Chunks
    <3> QED  BY <3>1, <3>2
  <2> QED  BY <2>3 DEF Tabs, Tab, Accepted, Told
<1>3. CASE Reboot \/ ResetNone \/ UNCHANGED vars
  <2>1. UNCHANGED <<build, page, spin, status, chain, file, ofs, offered, accepted>>
    BY <1>3 DEF Reboot, ResetNone, vars, deviceVars, tabVars, chainVars, history
  <2> QED  BY <2>1 DEF Inv, Tabs, Accepted, Chunks
<1> QED  BY <1>1, <1>2, <1>3 DEF Next
-----------------------------------------------------------------------------
(* The image                                                               *)

\* Uploads are loose only after a reset.
LEMMA LooseStep ==
  ASSUME Inv, [Next]_vars, ~ResetFlash, ~Loose PROVE ~Loose'
<1>0. \A d \in Clients : Mid(d) => d \in own  BY DEF Loose
<1>1. ASSUME NEW c \in Clients, Quiet(c) PROVE ~Loose'
  BY <1>1, QuietMid DEF Loose
<1>2. ASSUME NEW c \in Clients, Handle(c), Begun(c)
      PROVE  Own(c) # {} /\ \A d \in Clients : d # c => ~Mid(d)
  <2>1. Own(c) # {}
    <3>1. CASE ofs[c] = 0  BY <3>1 DEF Own
    <3>2. CASE ofs[c] # 0
      <4>1. ofs[c] \in Nat  BY <1>2, Asked DEF Handle
      <4>2. Mid(c)  BY <1>2, <3>2, <4>1 DEF Mid, Handle
      <4> QED  BY <1>0, <3>2, <4>2 DEF Own
    <3> QED  BY <3>1, <3>2
  <2> QED  BY <1>0, <1>2, <2>1, Taken
<1>3. ASSUME NEW c \in Clients, Write(c) PROVE ~Loose'
  <2>1. own' = {c}  BY <1>2, <1>3, Taken DEF Write
  <2>2. \A d \in Clients : Mid(d)' => d = c
    BY <1>2, <1>3, WriteMid DEF Write
  <2> QED  BY <2>1, <2>2 DEF Loose
<1>4. ASSUME NEW c \in Clients, WriteFail(c) \/ End(c) PROVE ~Loose'
  <2>1. Handle(c) /\ Begun(c) /\ s_size' = 0
    BY <1>4 DEF WriteFail, End, OtaEnd
  <2>2. \A d \in Clients : ~Mid(d)'  BY <1>2, <1>4, <2>1, EndMid
  <2> QED  BY <2>1, <2>2 DEF Loose
<1>5. CASE Reboot \/ ResetNone \/ UNCHANGED vars
  <2>1. UNCHANGED <<build, s_size, own, chain, file, ofs>>
    BY <1>5 DEF Reboot, ResetNone, vars, deviceVars, chainVars, history
  <2> QED  BY <2>1 DEF Loose, Mid, Chunks
<1> QED  BY <1>1, <1>3, <1>4, <1>5 DEF Next, Device, Quiet

\* An upload that adds to an OTA not its own is loose, or the OTA is.
LEMMA MixedIsLoose ==
  ASSUME Inv, NEW c \in Clients, Handle(c), Own(c) = {} PROVE Loose
<1>1. ofs[c] # 0 /\ c \notin own  BY DEF Own
<1>2. ofs[c] \in Nat  BY Asked DEF Handle
<1>3. Mid(c)  BY <1>1, <1>2 DEF Mid, Handle
<1> QED  BY <1>1, <1>3 DEF Loose

LEMMA WholeTells ==
  ASSUME NEW f \in Files, Chunks(f) > 0
  PROVE  Whole(f) # <<>> /\ \A g \in Files : Whole(f) = Whole(g) => g = f
<1>1. Whole(f) # <<>>
  <2>1. Len(Whole(f)) = Chunks(f)
    BY WholeIsPrefix, PrefixFacts, FilesFacts
  <2> QED  BY <2>1
<1> QED  BY <1>1, WholeTellsFile

\* An image that was written into is not taken for a file.
LEMMA OverwrittenTells ==
  Overwritten # <<>> /\ \A g \in Files : Overwritten # Whole(g)
<1>1. ASSUME NEW g \in Files, Overwritten = Whole(g) PROVE FALSE
  <2>1. 1 \in DOMAIN Overwritten /\ Overwritten[1] = <<NoFile, 1>>
    BY DEF Overwritten
  <2>2. 1 \in 1..Chunks(g)  BY <1>1, <2>1 DEF Whole
  <2>3. Whole(g)[1] = <<g, 1>>  BY <2>2 DEF Whole
  <2> QED  BY <1>1, <2>1, <2>3, FilesFacts
<1> QED  BY <1>1 DEF Overwritten

\* What a step does to the image, to the files offered and to the restart due.
Installs(f) ==
  /\ f \in Files /\ Chunks(f) > 0 /\ image' = Whole(f)
  /\ swapped' = TRUE /\ UNCHANGED offered
Spoils ==
  /\ swapped \/ Loose
  /\ image' # <<>> /\ \A g \in Files : image' # Whole(g)
  /\ swapped' = TRUE /\ UNCHANGED offered

LEMMA MixedImage ==
  ASSUME Inv, NEW c \in Clients, Handle(c), Mixed(c), offered' = offered
  PROVE  Spoils \/ \E f \in offered : Installs(f)
<1>0. offered \subseteq Files  BY TypeParts DEF Inv, Shapes
<1>1. Loose  BY MixedIsLoose DEF Mixed
<1>2. image' \in Seq(offered \X Nat) /\ Len(image') # 0 /\ image' # <<>>
  BY DEF Mixed
<1>3. CASE \E g \in Files : image' = Whole(g)
  <2>1. PICK g \in Files : image' = Whole(g)  BY <1>3
  <2>2. Len(image') = Chunks(g) /\ Chunks(g) \in Nat
    BY <2>1, FilesFacts, WholeIsPrefix, PrefixFacts
  <2>3. 1 \in 1..Chunks(g)  BY <1>2, <2>2
  <2>4. image'[1] = <<g, 1>>  BY <2>1, <2>3 DEF Whole
  <2>5. image'[1] \in offered \X Nat
    BY <1>2, <2>2, <2>3, ElementOfSeq
  <2>6. g \in offered  BY <2>4, <2>5
  <2>7. Installs(g)  BY <1>2, <2>1, <2>2 DEF Installs, Mixed
  <2> QED  BY <2>6, <2>7
<1>4. CASE \A g \in Files : image' # Whole(g)
  BY <1>1, <1>2, <1>4 DEF Spoils, Mixed
<1> QED  BY <1>3, <1>4

LEMMA ImageStep ==
  ASSUME Inv, [Next]_vars
  PROVE  \/ \E f \in Files : offered' = offered \cup {f} /\ UNCHANGED <<image, swapped>>
         \/ \E f \in offered : Installs(f)
         \/ Spoils \/ ResetFlash
         \/ UNCHANGED <<offered, image, swapped>>
<1>0. swapped \in BOOLEAN  BY TypeParts DEF Inv, Flags
<1>1. CASE \E c \in Clients : \E f \in Files : Choose(c, f)
  BY <1>1 DEF Choose, deviceVars
<1>2. ASSUME NEW c \in Clients, WriteFail(c) \/ End(c)
      PROVE  \/ \E f \in offered : Installs(f)
             \/ Spoils
             \/ UNCHANGED <<offered, image, swapped>>
  <2>1. offered' = offered /\ Handle(c)  BY <1>2 DEF WriteFail, End
  <2>2. file[c] \in offered /\ file[c] \in Files
    BY <2>1, Asked DEF Handle
  <2>3. CASE Mixed(c)  BY <2>1, <2>3, MixedImage
  <2>4. CASE swapped /\ image' = Overwritten /\ UNCHANGED swapped
    BY <1>0, <2>1, <2>4, OverwrittenTells DEF Spoils
  <2>5. CASE Chunks(file[c]) > 0 /\ image' = Whole(file[c]) /\ swapped' = TRUE
    BY <2>1, <2>2, <2>5 DEF Installs
  <2> QED  BY <1>2, <2>1, <2>3, <2>4, <2>5, EndImage
<1>3. ASSUME NEW c \in Clients, Write(c)
      PROVE  Spoils \/ UNCHANGED <<offered, image, swapped>>
  <2>1. offered' = offered /\ swapped' = swapped /\ image' = Flashed(c)
    BY <1>3 DEF Write
  <2> QED  BY <1>0, <2>1, OverwrittenTells DEF Flashed, Spoils
<1>4. CASE \E c \in Clients : Browser(c) \/ HandleNone(c) \/ Refuse(c)
  BY <1>4 DEF Browser, NextChunk, Finish, Fail, Settle, HandleNone, Refuse,
     deviceVars, history
<1>5. CASE \E c \in Clients :
             Leave(c) \/ Close(c) \/ Unheard(c) \/ Open(c) \/ CutOff(c)
  BY <1>5 DEF Leave, Close, Unheard, Open, CutOff, deviceVars, history
<1>6. CASE Reboot \/ ResetNone \/ UNCHANGED vars
  BY <1>6 DEF Reboot, ResetNone, vars, deviceVars, history
<1> QED  BY <1>1, <1>2, <1>3, <1>4, <1>5, <1>6 DEF Next, Device

LEMMA InvStep == Inv /\ [Next]_vars => Inv'
<1> SUFFICES ASSUME Inv, [Next]_vars PROVE Inv'
  OBVIOUS
<1> QED  BY TypeStep, StreamStep, ReceivedStep, TabsStep DEF Inv

LEMMA Always == Spec => []Inv
<1> QED  BY InitInv, InvStep, PTL DEF Spec

-----------------------------------------------------------------------------
(* The theorems                                                            *)

\* Every variable keeps its type, and no upload runs past its file.
THEOREM TypeCorrect == Spec => []TypeOK
<1>1. Inv => TypeOK  BY DEF Inv
<1> QED  BY <1>1, Always, PTL

\* On a device with a flash (MG_OTA_FLASH) "Done" alone is shown only when
\* mg_ota_end, asked by handle_firmware_upload, has installed the whole file, or
\* when the upload has met a reset and ended an OTA that is not its own alone.
THEOREM DoneNeedsFlash == Spec => []DoneOnFlash
<1>1. Inv => DoneOnFlash
  BY TypeParts DEF Inv, Flags, Accepted, DoneOnFlash
<1> QED  BY <1>1, Always, PTL

\* An OTA in progress is held by an upload that goes on, unless one was cut off
\* or closed: mg_ota_begin refuses the others only for as long.
THEOREM HeldByLiveUpload == Spec => []HeldByUpload
<1>1. Inv => HeldByUpload  BY DEF Inv, Held, HeldByUpload
<1> QED  BY <1>1, Always, PTL

\* The image to boot is the first firmware or one of the files offered, whole,
\* unless it is written over before the restart, or uploads have outlived a
\* reset: mg_ota_begin, _write and _end implement FirmwareImage, both gaps
\* included.
THEOREM ImagesWhole == Spec => WholeImages
<1>1. Init => Image!Init
  BY DEF Init, Image!Init, Installed, Loose, Mid
<1>2. Inv /\ [Next]_vars => [Image!Next]_<<Installed, offered, swapped, Loose>>
  <2> SUFFICES ASSUME Inv, [Next]_vars
               PROVE  Image!Next
    OBVIOUS
  <2>0. ~ResetFlash => Loose' \in {Loose, FALSE}
    <3>1. Loose \in BOOLEAN /\ Loose' \in BOOLEAN  BY DEF Loose
    <3> QED  BY <3>1, LooseStep
  <2>1. ASSUME image' = image PROVE Installed' = Installed
    BY <2>1 DEF Installed, Whole, Chunks, NoFile, Torn, Files
  <2> USE DEF Image!Next, Image!MayCalm
  <2>2. CASE ResetFlash
    <3>1. swapped' = FALSE /\ UNCHANGED <<offered, image>>
      BY <2>2 DEF ResetFlash
    <3>2. Loose' \in BOOLEAN  BY DEF Loose
    <3> QED  BY <2>1, <3>1, <3>2 DEF Image!Restart
  <2>3. ASSUME ~ResetFlash, NEW f \in Files, offered' = offered \cup {f},
               UNCHANGED <<image, swapped>>
        PROVE  Image!Next
    BY <2>0, <2>1, <2>3 DEF Image!Want
  <2>4. ASSUME ~ResetFlash, NEW f \in offered, Installs(f) PROVE Image!Next
    <3>1. image' # <<>> /\ \A g \in Files : image' = Whole(g) => g = f
      BY <2>4, WholeTells DEF Installs
    <3>2. Installed' = f
      BY <2>4, <3>1 DEF Installs, Installed, Whole, Chunks, Files
    <3>3. f \in Files  BY <2>4 DEF Installs
    <3> QED  BY <2>0, <2>4, <3>2, <3>3 DEF Image!Install, Installs
  <2>5. ASSUME ~ResetFlash, Spoils PROVE Image!Next
    <3>1. Installed' = Torn
      BY <2>5 DEF Spoils, Installed, Whole, Chunks, Files, Torn
    <3> QED  BY <2>0, <2>5, <3>1 DEF Image!Spoil, Spoils
  <2>6. ASSUME ~ResetFlash, UNCHANGED <<offered, image, swapped>> PROVE Image!Next
    BY <2>0, <2>1, <2>6 DEF Image!Calm
  <2> QED  BY <2>2, <2>3, <2>4, <2>5, <2>6, ImageStep
<1> QED  BY <1>1, <1>2, Always, PTL DEF Spec, WholeImages, Image!Spec

-----------------------------------------------------------------------------
(* Uploads end                                                             *)

\* How far an upload has got, by the kind of step that comes next.
LEMMA TogoIs ==
  ASSUME Inv, NEW c \in Clients
  PROVE  /\ chain[c] = "request" \/ chain[c] = "ok" =>
              /\ ofs[c] \in Nat /\ Chunks(file[c]) \in Nat
              /\ ofs[c] <= Chunks(file[c])
         /\ chain[c] = "request" => Togo(c) = 2 * (Chunks(file[c]) - ofs[c]) + 3
         /\ chain[c] = "ok" => Togo(c) = 2 * (Chunks(file[c]) - ofs[c]) + 2
         /\ chain[c] \in {"error", "delay"} => Togo(c) = 1
         /\ chain[c] \in {"none", "hung"} => Togo(c) = 0
<1>1. Shapes /\ Places  BY TypeParts DEF Inv
<1>2. ASSUME chain[c] = "request" \/ chain[c] = "ok"
      PROVE  /\ ofs[c] \in Nat /\ Chunks(file[c]) \in Nat
             /\ ofs[c] <= Chunks(file[c])
  <2>1. file[c] \in Files  BY <1>1, <1>2 DEF Inv, Tabs, OnWire, Shapes
  <2> QED  BY <1>1, <2>1, FilesFacts DEF Places
<1> QED  BY <1>2 DEF Togo

LEMMA TogoNat == Inv => \A c \in Clients : Togo(c) \in Nat
<1> SUFFICES ASSUME Inv, NEW c \in Clients PROVE Togo(c) \in Nat
  OBVIOUS
<1>1. Shapes  BY TypeParts DEF Inv
<1>2. chain[c] \in {"none", "delay", "hung", "request", "ok", "error"}
  BY <1>1 DEF Shapes, OnWire
<1>3. CASE chain[c] = "request" \/ chain[c] = "ok"
  <2> DEFINE left == Chunks(file[c]) - ofs[c]
  <2>1. left \in Nat  BY <1>3, TogoIs
  <2>2. Togo(c) = 2 * left + 3 \/ Togo(c) = 2 * left + 2  BY <1>3, TogoIs
  <2> HIDE DEF left
  <2> QED  BY <2>1, <2>2
<1>4. CASE chain[c] \in {"error", "delay"}  BY <1>4, TogoIs
<1>5. CASE chain[c] \in {"none", "hung"}  BY <1>5, TogoIs
<1> QED  BY <1>2, <1>3, <1>4, <1>5

LEMMA TogoNext == Inv' => (\A c \in Clients : Togo(c) \in Nat)'
  BY TogoNat, PTL

\* The new measure where a step leaves the upload's file alone.
LEMMA TogoThen ==
  ASSUME NEW c \in Clients
  PROVE  /\ chain'[c] = "request" => Togo(c)' = 2 * (Chunks(file'[c]) - ofs'[c]) + 3
         /\ chain'[c] = "ok" => Togo(c)' = 2 * (Chunks(file'[c]) - ofs'[c]) + 2
         /\ chain'[c] \in {"error", "delay"} => Togo(c)' = 1
         /\ chain'[c] \in {"none", "hung"} => Togo(c)' = 0
  BY DEF Togo, Chunks

LEMMA TogoSame ==
  ASSUME NEW c \in Clients, chain'[c] = chain[c], file'[c] = file[c], ofs'[c] = ofs[c]
  PROVE  Togo(c)' = Togo(c)
  BY DEF Togo, Chunks

LEMMA TurnShrinks ==
  ASSUME Inv, NEW c \in Clients, Browser(c) \/ Device(c)
  PROVE  Togo(c)' < Togo(c)
<1>0. Shapes /\ Places  BY TypeParts DEF Inv
<1> DEFINE chunks == Chunks(file[c])
<1>1. CASE NextChunk(c)
  <2>1. /\ chain[c] = "ok" /\ chain'[c] = "request" /\ ofs'[c] = ofs[c] + 1
        /\ file'[c] = file[c]
    BY <1>0, <1>1 DEF NextChunk, Shapes, Places
  <2>2. ofs[c] \in Nat /\ chunks \in Nat /\ Togo(c) = 2 * (chunks - ofs[c]) + 2
    BY <2>1, TogoIs
  <2>3. Togo(c)' = 2 * (chunks - (ofs[c] + 1)) + 3  BY <2>1, TogoThen
  <2> HIDE DEF chunks
  <2> QED  BY <2>2, <2>3
<1>2. CASE Finish(c)
  <2>1. chain[c] = "ok" /\ chain'[c] = "delay"  BY <1>0, <1>2 DEF Finish, Shapes
  <2>2. ofs[c] \in Nat /\ chunks \in Nat /\ ofs[c] <= chunks
        /\ Togo(c) = 2 * (chunks - ofs[c]) + 2
    BY <2>1, TogoIs
  <2>3. Togo(c)' = 1  BY <2>1, TogoThen
  <2> HIDE DEF chunks
  <2> QED  BY <2>2, <2>3
<1>3. CASE Fail(c) \/ Settle(c)
  <2>1. chain[c] \in {"error", "delay"} /\ chain'[c] = "none"
    BY <1>0, <1>3 DEF Fail, Settle, Rest, Shapes
  <2> QED  BY <2>1, TogoIs, TogoThen
<1>4. CASE Device(c)
  <2>1. /\ chain[c] = "request" /\ chain'[c] \in {"ok", "error"}
        /\ file'[c] = file[c] /\ ofs'[c] = ofs[c]
    BY <1>0, <1>4 DEF Device, HandleNone, Refuse, Write, WriteFail, End, Handle,
       Reply, tabVars, Shapes
  <2>2. ofs[c] \in Nat /\ chunks \in Nat /\ ofs[c] <= chunks
        /\ Togo(c) = 2 * (chunks - ofs[c]) + 3
    BY <2>1, TogoIs
  <2>3. Togo(c)' = 2 * (chunks - ofs[c]) + 2 \/ Togo(c)' = 1
    BY <2>1, TogoThen
  <2> HIDE DEF chunks
  <2> QED  BY <2>2, <2>3
<1> QED  BY <1>1, <1>2, <1>3, <1>4 DEF Browser

\* A step of neither side ends an upload or leaves it where it is.
LEMMA CutShrinks ==
  ASSUME Inv, NEW c \in Clients,
         \/ chain'[c] \in {"none", "hung"}
         \/ chain'[c] = chain[c] /\ file'[c] = file[c] /\ ofs'[c] = ofs[c]
  PROVE  ~(Togo(c)' > Togo(c))
<1>1. Togo(c) \in Nat  BY TogoNat
<1>2. CASE chain'[c] \in {"none", "hung"}  BY <1>1, <1>2, TogoThen
<1>3. CASE chain'[c] = chain[c] /\ file'[c] = file[c] /\ ofs'[c] = ofs[c]
  BY <1>1, <1>3, TogoSame
<1> QED  BY <1>2, <1>3

LEMMA OnlyChoiceStarts ==
  ASSUME Inv, [Next]_vars, NEW d \in Clients, ~ \E f \in Files : Choose(d, f)
  PROVE  ~(Togo(d)' > Togo(d))
<1>0. Shapes /\ Places  BY TypeParts DEF Inv
<1>1. CASE Browser(d) \/ Device(d)
  <2>1. Inv'  BY InvStep
  <2>2. Togo(d) \in Nat /\ Togo(d)' \in Nat  BY <2>1, TogoNat, TogoNext
  <2> QED  BY <1>1, <2>2, TurnShrinks
<1>2. ASSUME NEW c \in Clients, c # d,
             (\E f \in Files : Choose(c, f)) \/ Browser(c) \/ Device(c)
               \/ Leave(c) \/ Close(c) \/ Unheard(c) \/ Open(c) \/ CutOff(c)
      PROVE  ~(Togo(d)' > Togo(d))
  BY <1>2, TabsAlone, CutShrinks
<1>3. CASE Leave(d) \/ Close(d) \/ Unheard(d) \/ Open(d) \/ CutOff(d)
  <2>1. \/ chain'[d] \in {"none", "hung"}
        \/ chain'[d] = chain[d] /\ file'[d] = file[d] /\ ofs'[d] = ofs[d]
    BY <1>0, <1>3 DEF Leave, Close, Unheard, Open, CutOff, Rest, Rejected,
       chainVars, Shapes
  <2> QED  BY <2>1, CutShrinks
<1>4. CASE ResetFlash
  <2>1. PICK lost \in SUBSET Clients :
          /\ chain' = [c \in Clients |-> IF c \in lost THEN Rejected(c) ELSE chain[c]]
          /\ file' = [c \in Clients |-> IF c \in lost THEN NoFile ELSE file[c]]
          /\ ofs' = [c \in Clients |-> IF c \in lost THEN 0 ELSE ofs[c]]
    BY <1>4 DEF ResetFlash
  <2>2. \/ chain'[d] \in {"none", "hung"}
        \/ chain'[d] = chain[d] /\ file'[d] = file[d] /\ ofs'[d] = ofs[d]
    BY <2>1 DEF Rejected
  <2> QED  BY <2>2, CutShrinks
<1>5. CASE Reboot \/ ResetNone \/ UNCHANGED vars
  <2>1. UNCHANGED <<chain, file, ofs>>
    BY <1>5 DEF Reboot, ResetNone, vars, chainVars
  <2> QED  BY <2>1, CutShrinks
<1> QED  BY <1>1, <1>2, <1>3, <1>4, <1>5 DEF Next

\* An upload has only so many steps left, and every turn of the browser or of
\* the device is one less, whatever the other pages do (sendChunk, onupload and
\* handle_firmware_upload); only the choice of another file starts one anew.
THEOREM UploadsEnd == Spec => UploadShrinks
<1> DEFINE Turn == \A c \in Clients :
      /\ Browser(c) \/ Device(c) => Togo(c)' < Togo(c)
      /\ Togo(c)' > Togo(c) => \E f \in Files : Choose(c, f)
<1>1. Inv /\ [Next]_vars => Turn
  <2> SUFFICES ASSUME Inv, [Next]_vars, NEW c \in Clients
               PROVE  /\ Browser(c) \/ Device(c) => Togo(c)' < Togo(c)
                      /\ Togo(c)' > Togo(c) => \E f \in Files : Choose(c, f)
    OBVIOUS
  <2>1. Browser(c) \/ Device(c) => Togo(c)' < Togo(c)  BY TurnShrinks
  <2>2. Togo(c)' > Togo(c) => \E f \in Files : Choose(c, f)
    BY OnlyChoiceStarts
  <2> QED  BY <2>1, <2>2
<1> HIDE DEF Turn
<1>2. Spec => [][Turn]_vars  BY <1>1, Always, PTL DEF Spec
<1> QED  BY <1>2 DEF UploadShrinks, Turn

\* A button that spins belongs to an upload, and the page is on the screen.
Spinning == \A c \in Clients : spin[c] => page[c] = "open" /\ chain[c] # "none"

LEMMA SpinningStep == Inv /\ Spinning /\ [Next]_vars => Spinning'
<1> SUFFICES ASSUME Inv, Spinning, [Next]_vars, NEW d \in Clients, spin'[d]
             PROVE  page'[d] = "open" /\ chain'[d] # "none"
  BY DEF Spinning
<1>0. Flags /\ Shapes /\ Places  BY TypeParts DEF Inv
<1> DEFINE Same == spin'[d] = spin[d] /\ page'[d] = page[d] /\ chain'[d] = chain[d]
<1>a. Same => page'[d] = "open" /\ chain'[d] # "none"  BY DEF Spinning
<1>1. ASSUME NEW c \in Clients, c # d,
             (\E f \in Files : Choose(c, f)) \/ Browser(c) \/ Device(c)
               \/ Leave(c) \/ Close(c) \/ Unheard(c) \/ Open(c) \/ CutOff(c)
      PROVE  page'[d] = "open" /\ chain'[d] # "none"
  <2>1. Same  BY <1>1, TabsAlone
  <2> QED  BY <1>a, <2>1
<1>2. CASE (\E f \in Files : Choose(d, f)) \/ NextChunk(d) \/ Finish(d)
  <2>1. chain'[d] \in {"request", "delay"} /\ page'[d] = page[d]
    BY <1>0, <1>2 DEF Choose, NextChunk, Finish, Shapes
  <2>2. page[d] = "open"
    <3>1. CASE \E f \in Files : Choose(d, f)  BY <3>1 DEF Choose
    <3>2. CASE NextChunk(d) \/ Finish(d)
      BY <3>2 DEF NextChunk, Finish, Spinning
    <3> QED  BY <1>2, <3>1, <3>2
  <2> QED  BY <2>1, <2>2
<1>3. CASE Fail(d) \/ Settle(d) \/ Leave(d) \/ Close(d)
  BY <1>0, <1>3 DEF Fail, Settle, Leave, Close, Flags
<1>4. CASE Device(d)
  <2>1. chain'[d] \in {"ok", "error"} /\ UNCHANGED <<spin, page>>
    BY <1>0, <1>4 DEF Device, HandleNone, Refuse, Write, WriteFail, End, Reply,
       tabVars, Shapes
  <2> QED  BY <2>1 DEF Spinning
<1>5. CASE Unheard(d)
  <2>1. page[d] = "closed" /\ spin'[d] = spin[d]  BY <1>5 DEF Unheard, tabVars, history
  <2> QED  BY <2>1 DEF Spinning
<1>6. CASE Open(d)
  <2>1. page[d] # "open" /\ spin'[d] = spin[d]  BY <1>6 DEF Open
  <2> QED  BY <2>1 DEF Spinning
<1>7. CASE CutOff(d)
  <2>1. UNCHANGED <<spin, page>> /\ chain'[d] = Rejected(d)
    BY <1>0, <1>7 DEF CutOff, Rest, tabVars, Shapes
  <2> QED  BY <2>1 DEF Spinning, Rejected
<1>8. CASE ResetFlash
  <2>1. UNCHANGED <<spin, page>> /\ (chain'[d] = Rejected(d) \/ chain'[d] = chain[d])
    BY <1>8 DEF ResetFlash, tabVars
  <2> QED  BY <2>1 DEF Spinning, Rejected
<1>9. CASE Reboot \/ ResetNone \/ UNCHANGED vars
  <2>1. Same  BY <1>9 DEF Reboot, ResetNone, vars, tabVars, chainVars
  <2> QED  BY <1>a, <2>1
<1> QED
  BY <1>1, <1>2, <1>3, <1>4, <1>5, <1>6, <1>7, <1>8, <1>9 DEF Next, Browser

\* While the Upload button spins (Button of components.js waits for onupload's
\* promise) the upload has steps left, unless its connection was cut: with
\* UploadsEnd, the button comes back when the browser and the device take theirs.
THEOREM SpinsOnlyForUpload == Spec => []SpinsForUpload
<1>1. Init => Spinning  BY DEF Init, Spinning
<1>2. Spec => []Spinning  BY <1>1, SpinningStep, Always, PTL DEF Spec
<1>3. Inv /\ Spinning => SpinsForUpload
  <2> SUFFICES ASSUME Inv, Spinning, NEW c \in Clients, spin[c]
               PROVE  page[c] = "open" /\ (chain[c] = "hung" \/ Togo(c) > 0)
    BY DEF SpinsForUpload
  <2>1. page[c] = "open" /\ chain[c] \in {"delay", "hung", "request", "ok", "error"}
    BY TypeParts DEF Inv, Spinning, Shapes, OnWire
  <2>2. CASE chain[c] = "request" \/ chain[c] = "ok"
    <3> DEFINE left == Chunks(file[c]) - ofs[c]
    <3>1. left \in Nat  BY <2>2, TogoIs
    <3>2. Togo(c) = 2 * left + 3 \/ Togo(c) = 2 * left + 2  BY <2>2, TogoIs
    <3>3. Togo(c) > 0
      <4> HIDE DEF left
      <4> QED  BY <3>1, <3>2
    <3> QED  BY <2>1, <3>3
  <2>3. CASE chain[c] \in {"error", "delay"}  BY <2>1, <2>3, TogoIs
  <2> QED  BY <2>1, <2>2, <2>3
<1> QED  BY <1>2, <1>3, Always, PTL
=============================================================================
