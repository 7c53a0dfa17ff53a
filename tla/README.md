# yxlc_meter: models and proofs

`src/yxlc_meter` is the program of an energy-meter gateway. It polls five
DTSD1352 meters over three RS-485 lines, publishes their values to a cloud
broker over MQTT, records them in files, and answers web pages that show the
state, send commands, change settings and upload firmware. This directory models the parts of
it that carry state from one moment to the next, checks them with TLC on small
instances and proves with TLAPS, for every value of the constants, the safety
properties, three refinements and most of the liveness properties.

## The system

| part | code | state it keeps | what it does |
|---|---|---|---|
| channel workers | `thrd_485_1`, `_2`, `_4` (appl.c 163-698) | `ch->state`, `ch->Cmd`, the modbus context, the meters' values, `CommState`, `LastUpdate` | connect to the device, poll four register blocks of every meter in turn, judge each meter by the age of its last complete poll |
| Modbus client | libmodbus `modbus.c`, `modbus-rtu.c` | the device's receive buffer | send a request, wait for an answer, decide whether the answer fits |
| cloud uploader | `thrd_mqtt_2`, `fn_mqtt2` (appl.c 1048-1384) | `s_conn`, `bConnected`, `Cmd`, `LastFastUpload` | poll the connection, register, upload, reconnect |
| MQTT client | mongoose.c | connections and their send buffers | connect, login, publish, close |
| settings | `handle_settings_set` (net.c 171-330), `appl_cfg_*`, `appl_start` | `APPL.Set`, `cfg.bin` | change and save a setting; read all at the start |
| data recorder | `thrd_snap`, `appl_snap_rmdir`, `appl_snap_day_diff` | `Snap_t`: path, files, `bStart`, `bErr`; `./snap` | a row per meter every 5 s, a directory per day, delete old directories |
| web server | net.c, main.c | none of its own | routes requests; the handlers that write state are `handle_comm_set`, `handle_settings_set`, `handle_firmware_upload`, `handle_device_reset` |
| firmware update | `handle_firmware_upload` (net.c 447-474), `mg_ota_begin`, `_write`, `_end` (mongoose.c) | `s_size`, `s_addr`, `s_crc32`, the flash | takes a file in chunks, checks it, swaps the flash banks and resets |
| web pages | main.js, components.js (in the repository; the build serves others, see below) | state of the components, the cookie, localStorage | signs in and out, routes between Main, Settings, FirmwareUpdate and Events |
| start script | start_meter.sh | | `kill -9` and start again |

How they interact: everything is shared memory in `APPL`, without locks (the
mutex of a channel is taken by its worker only). The web thread writes
`ch->Cmd`, `m->Cmd` and the settings; the workers write the meters' values and
`CommState`, which the uploader, the recorder and the pages read; the uploader
also writes `CommState` of the gate meter. mongoose calls `fn_mqtt2` from
`mg_mgr_poll`, in the uploader's own thread. Settings reach the uploader as
copies made at the start, and the recorder as `KeepDay`. The page sees the server
through requests only: each ends in an answer or in an error, in any order, and
effects, promises and timers of the browser run between them. Several pages, in
one or several browsers, share the one upload the device can take.

**Which pages.** The Makefile sets `-DMG_ENABLE_PACKED_FS=0` and compiles no
`packed_fs.c`; the program serves the directory `web_root` (net.c 564-565), whose
`index.html` loads a minified Vue build without its source in the repository. No
served page loads `main.js` or `components.js`. They are the readable pages that
use `api/login`, `api/events/get`, `api/stats/get` and `api/firmware/upload`,
handlers that the Vue build never asks. FirmwareUpload, Session, EventsPage,
SettingsPage and Dashboard model this source with the handlers behind it: what
they show of the handlers is true of the program built, what they show of the
pages is true of pages that load that source.

What is hard here: the RS-485 line may lose or delay an answer; a connection
may be refused or lost in any poll; a save, a clean-up and a poll are sequences
that can fail or be killed half way; the threads read what others are writing;
the clock changes the date under the recorder; handles are opened and never
closed; answers overtake one another; uploads of several pages meet at one write
position, and the device is reset in the middle. PROJECT.json lists each of these hazards at its line.

## Modules

### Chan485: a channel, its meters and the line between them
`state`, `Cmd`, `CommState` are the fields of the code. `ctx` is the worker's
local pointer and `fds` the devices actually open. `pos` and `part` are the
loop's `i` and how deep the nested reads have come; `waiting` is "inside
`_modbus_receive_msg`". One action is one pass between two points where others
can interfere: `InitOk`/`InitFail` (ST_485_INIT), `Reset` (RUN and ERR),
`BeginRound`, `Refresh` (head of the loop body), `Ask`/`SendFail` (sending a
request), `Accept`/`Reject`/`Timeout` (what comes of it, with the flush and the
step to the next meter), `SetCmd` (web), `Answer`/`Lose` (meter), `Expire` (5 s).
A value is abstracted to its origin: `grp[m][p]` holds the meter and the block
the values were really read from and whether the request was this round's; a
register's number never matters to the code. `Confirms` is the whole of
`check_integrity` and `check_confirmation`: slave, function and length, never the
address. `First`, `Last` cover the three workers, which differ in nothing else:
1..2, 3..4, 5..5.

`Sampler` is its abstract specification, what the uploader and the recorder may
rely on: meters are read one at a time, the parts of a sample in order and each
from its own registers, and the completion of a sample alone makes a meter count as
fresh. There are no frames, timeouts, contexts or commands in it. `WholeSamples`
says that Chan485 implements it as long as no reply outlives its request; the
mapping takes `at` from `pos` and `part`, the parts taken and known from `grp`,
`vouched` from `fresh` and `shown` from `CommState`.

### CloudMqtt: the uploader and its connection
`pc` follows the loop: poll, command, timer, upload of meter `i`, connect.
`link` is what `s_conn` points to, `open` the length of the manager's list,
`unsent` the kinds of message in the send buffer. A poll is one step, since only
this thread runs it and nobody else reads what it changes; which of
`PollQuiet`, `PollConnected`, `PollAccepted`, `PollRefused`, `PollLost` happens is
the network's choice. `Register` and `Publish` dereference `s_conn` as the code does: a
null pointer there is the state `dead`, left by `Restart`. `verdict` is a
history variable: what the meter's worker last wrote. `age` is the time since the last upload
against the interval: within it, beyond it, or beyond every interval that may be
set; `SetInterval` moves the age between the first two, so that a change of
UploadHighSpeed can withdraw an upload that was due.

### Settings: memory, file, start and kill
`Set` and `SaveOk`/`SaveShort` are the two halves of a save (`fopen` truncates, `fwrite`
writes); `SetNotOpened` is the failing `fopen`; `Kill` may come between.
`StartRead`/`StartDefault` are the two outcomes of `appl_cfg_read`, with the partial read
left in memory, `StartSnap` the late copy of `KeepDay`. Three history variables:
`promised` is what the operator has been told, `reverted` which of that a start on
a file that is cut did not get back, `cut` whether any save was ever cut.
`AckedSurvives` forgets no promise at a start: it says exactly which settings a cut
costs, and that nothing else costs any.

### Snap: the recorder
`curr`, `bStart`, `bErr`, `f` are the fields of `Snap_t`, with a file abstracted to the
directory it lies in; `seen` the date last read, `todo` the rest of a `readdir`
loop. Every call that can fail has its failing action. `KeepDay` is any integer.

`Archive` is its abstract specification: rows go to the directory of one day or
nowhere, a directory is made for the date of the moment only, and dropped only
while nothing is recorded and, until the date is set, only when it is out of date.
`ArchiveKept` says that Snap implements it; `Into` maps the files and flags to where
the next rows go.

### DayDiff: the age of a directory
`DayNumber` is the arithmetic of `appl_snap_day_diff` as written. The reference
is a calendar that walks on day by day.

### FirmwareUpload, FirmwareImage, MCFirmwareUpload: the upload and what it promises
`chain[c]` is where the upload of the page `c` stands: a request or an answer on its
way, `onupload`'s delay, or a promise that hangs; `file` and `ofs` are what
`sendChunk` closes over, `spin` and `status` what the button shows. On the device
`s_size`, `got` (where `s_addr` and `s_crc32` have moved over which chunks), `image`
(what the next reset boots) and `swapped` (it has been replaced and not yet
booted). `Write`, `WriteFail`, `End` and `Refuse` are the four ways through
`handle_firmware_upload`, with `mg_ota_write`'s errors, the flash that does not hold
what was written, and data that cannot be saved as choices. `build` is `MG_OTA`:
the Makefile leaves it at `MG_OTA_NONE`, whose functions return true and do
nothing (`HandleNone`); `MG_OTA_FLASH` is what the same handler does on a device
with a flash, one bank or two. `CutOff` and `Close` lose requests; `Leave` only
takes the component off the screen, and its upload goes on. `ResetFlash` loses any
of the requests on their way, or none: an answer may have come through, a request
may be resent by TCP until the device is up again, and so an upload may outlive a
reset. `own` is a history variable: whose upload the OTA in progress is, as long
as it has been given chunks of one upload only. Loss, delay and a second upload are
modelled; a request that reaches the handler twice is not, as a `fetch` of
the page is sent over one connection and not repeated by the code.

In the Makefile's build nothing is ever installed, and the page says "Done,
resetting device..." all the same: that is the finding `DoneMeansInstalled`.
`DoneOnFlash` and `WholeImages` speak of the other build.

`FirmwareImage` is the abstract specification: an image is the first one or a file
somebody chose. `WholeImages` says that FirmwareUpload implements it, with
`Installed` as the refinement mapping. Its two gaps, both in `Spoil`, are the code's.
`due`: the reset comes 500 ms after the installation, `s_size` is 0 by then, and what a
new upload writes goes to the bank about to be booted. `loose`: an upload that
outlives a reset goes on into the OTA of another, since the handler compares the
offset with 0 only; that is the finding `ImageIsOneFile`.
`MCFirmwareUpload` gives each of the two instances of the runs a file of its own (`Disk`).

### Session, EventsPage, SettingsPage and their composition Dashboard
`Session` is `App` with `Login` and the handlers behind them: the cookie, the request that asks
who is signed in, the form that is submitted twice, and the process that dies in
`handle_login`. `EventsPage` is the list with its page number: `phase` says which effects are
still to run, `latest` and `overdue` which answers are still to come (`overdue` counts
those for each page). `SettingsPage` is
the form, the button's promise (`saving`) and the timers of the notification
(`auto`, `closes`). `Dashboard` composes them: `Shown` is the Router's page, `Turns`
mounts what comes to be shown and unmounts what no longer is, and answers take a server that
is alive. `Main`, which only asks for statistics, has its variable there.

## Runs

| run | shows | bounds |
|---|---|---|
| `chan485_late` | values are stored only for their meter and block size, "normal" is earned, energies are scaled, the device is opened and closed in pairs, with answers that are late, lost or garbled | 2 meters, 1 unanswered request each, 1 frame in the buffer: enough for an answer to outlive its request and meet the other meter's; the proofs lift both |
| `chan485_timely` | the channel is a Sampler (refinement): a completed poll is a sample of one round, each part of the block asked for; RESET is taken, silence noticed, no meter starved | 2 meters, no late answers, EarlyStart |
| `chan485_misread` | finding, see below | 1 meter |
| `cloud` | all nine properties of the uploader | the 5 meters of the code |
| `settings_crash` | promises survive, zero days never appear, a missing uploader is shown | 3 settings (with, without a default, and the days), 2 values, 3 handles: two saves after a start meet the limit |
| `snap` | the recorder is an Archive (refinement), so recent days are kept until the date is set; rows have a file, retention holds, one late row per date until it is set, recording ends only with an error | 2 meters, dates 2..4, KeepDay 1, the clock set at will, 5 handles: the third date finds one too few |
| `snap_again` | finding | 1 meter |
| `day_diff` | the arithmetic agrees with the calendar | every day of 1999..2401; it stops at its last year, so deadlock is not checked |
| `firmware` | on a device with a flash an image is installed whole or not at all, but for the two gaps (refinement); "Done" is shown for nothing else, except by uploads that met a reset; the device is held only by an upload that goes on; in both builds the button comes back | 2 pages with a file of 2 chunks each: two chunks are the least that can be mixed, torn or left half way, two files what tells them apart. Pages that choose the same file or change it are left to the proofs |
| `firmware_none` | finding | as `firmware` |
| `firmware_outlived` | finding | as `firmware` |
| `dashboard` | the table is the one the label names, the page number survives, the pager leaves no page out silently, edits stay until a save, saving and its notification come to rest | 1 user, 15 events on 8 pages: the least for dots on both sides; at most 1 overtaken request still unanswered at a click, so that three answers can be on their way; 2 closing timers |

Every property has a mutant of the code (an operator before the definition it
would replace) that breaks it in the same run.

**Fairness.** `Worker`, the uploader's `Thread` and the recorder's `Thread` are
weakly fair: each is a loop that waits only in `usleep`, or in `select` with a
timeout (500 ms or 20 ms), and takes no lock another thread holds. In CloudMqtt
time passes (`TickLong`: without an upload its age comes to exceed every interval
that may be set). In FirmwareUpload `Browser(c)` is the event loop of a browser and
`Device(c)` the web loop, which takes every request that has arrived; in Dashboard
a request ends in an answer or in an error (`SettingsRequests`) and a browser runs its
timers (`SettingsTimers`). Nothing is assumed of meters, broker, network, operators,
visitors, the clock's date or the start script.

**Assumed of time.** `start_meter.sh` starts the process again later than
any browser notices that its requests have failed. A timer's duration is left out,
except that the click that closes a notification comes before what it closes. One
tab per browser uses localStorage.

**Findings**, each a run TLC must refute:
- `ReadsWhatWasAsked`: a Modbus answer carries no register address and the
  energies and PT/CT blocks are both 32 registers, so an answer that comes after
  its timeout can be stored as the other block.
- `DoneMeansInstalled`: in the build the Makefile makes, an upload ends with "Done,
  resetting device..." and nothing has been installed.
- `ImageIsOneFile`: on a device with a flash, an upload that outlives a reset goes on
  into another's OTA, and with files of one size their mixture is installed.
- `StartsAgain`: after a directory could not be deleted, "start again at next
  loop" never comes, since `bErr` ends every later loop.

Behaviours the models show without a document to set them against:
- REGISTER without a connection ends the process (`DiesOnlyRegistering` says it is the only way).
- A channel in ERR keeps its meters' last `CommState` (the escape `state # "RUN"` in
  `StaleNoticed`).
- An upload begun within half a second of an installation spoils the image to be
  booted (`Spoil` in FirmwareImage).
- An upload whose connection is cut leaves the button spinning and the device held
  until its reset (the escapes `"hung"` and `abandoned`).
- A save that is killed or falls short costs every setting that has a default, and all
  of them when nothing is left of the file (`reverted`).
- Events answered out of order are shown in that order (the escape `missed`).
- The refresh after a save overwrites what was typed since (the exception in `EditsKept`).
- The pager shows dots where it leaves nothing out: with seven pages, on the first.
  `PagerShowsGaps` says only that no page is left out without dots.
- A visitor who is not signed in ends the process for all: `handle_login` reads the
  fields of the user `authenticate` did not find (net.c 106), since the answer of 403 is
  switched off (`CrashStart`, `CrashForm`). A page that loads main.js stays blank.
- The default of 30 days is overwritten by `snap->KeepDay = set->DataKeepDay` before the
  recorder starts: 700 apply (`StartDefault`, `StartSnap`).
- A browser that has never stored a page number begins without one, and counts
  "showing -19 - 0".
- A sign-in submitted twice can come back after a sign-out.

## Proofs

All safety properties the passing runs check, the three refinements among them,
are theorems, for all constants that meet the modules' assumptions (where a theorem
needs more, it says so after ASSUME).

- **Chan485Proofs.** `Owned` (types, device ownership, a poll only in RUN)
  is inductive. `Stored` adds that values come from their meter and size, that
  the blocks of a meter fill in order, that a meter counts as fresh only with all
  four read, and that PT/CT once read stay read; `OwnBlock`, `NormIsEarned`,
  `UnscaledOnlyAtFirst` follow. `Timely` adds, without late replies, that at
  most one message exists anywhere and it belongs to the request waited for;
  `TimelySample` follows, and with it `ChannelIsSampler`: `Refresh` begins a
  reading, an accepted answer takes or completes a sample, whatever else leaves
  the loop body gives up, all the rest stutters.
- **CloudMqttProofs.** `FlagMeansAccepted`, `OneConnection` and
  `SamplesToAccepted` are inductive together with `UploadConnected`: the upload
  is entered only while connected and only a poll can change that. That is why
  `DiesOnlyRegistering` holds. `NeverShownBetter` needs it too (only the gate
  meter is hidden).
- **SettingsProofs.** `SavingInv` (while a save is under way the process is up and
  the setting holds a chosen value) strengthens `AckedSurvives` and
  `NeverKeepZero`. `AckedSurvives` also needs `PartKept` (what a cut save has left
  of the file is what was promised) and `CutInv` (without a cut a file that is not
  full is being written or was never there). `NoCloudIsShown` is inductive.
- **SnapProofs.** `RowsHaveAFile` is inductive. `RetentionHolds` needs `Swept`
  (what a clean-up has passed is young enough) and `KeptYoung`. Until the date
  is set, `NoneAhead` (neither the path's date nor the one last read is ahead of
  the clock) gives `RecentKept`, and `LateOnce` gives `OneLateSnapshot`.
  `RecorderIsArchive` needs `NoneAhead` for the age of what is dropped, and
  `BeginOpens`: a day is recorded with a file for every meter or not at all.
- **FirmwareUploadProofs.** The invariant's core is `Stream`: while the OTA is one
  upload's own (`own`), what the device has received is that file as far as it was
  sent. `Taken` concludes it for every request the device accepts of that upload, so
  that `mg_ota_end` installs a whole file (`EndInstalls`). `LooseStep` shows that
  uploads come loose only by a reset. `Held`, `Received` and `Accepted` give the other
  properties, and `ImageStep` the refinement: each step offers a file, installs one,
  spoils one in a gap, restarts, or stutters.
- **DashboardProofs.** `Composed` shows that each page and the session behave
  inside Dashboard as they do alone; the invariants of EventsPage
  (`TableMatchesLabel` needs to know which answers can still come in every phase) and
  of SettingsPage are then proved of their own specifications. Two invariants are of
  the composition itself: `ShownIsMounted` (a page exists exactly while the Router shows
  it, so no guard of mounting or unmounting ever stands in a step's way, and what
  is not shown has nothing on its way) and `UserIsSent` (the user shown and the cookie
  sent are those of one user).
- **DayDiffProofs.** Every step of the calendar raises `DayNumber` by one: by
  cases on the month and, for the year, on the remainders by 4, 100 and 400.

**Liveness.** The prover knows neither ENABLED nor induction over data, so two things
stand in for them.

Fairness is a hypothesis written out: "over and over there is nothing
to do, or over and over a step is taken", with the condition under which there is
something to do put in for ENABLED. `WorkerRuns`, `ThreadRuns`, `TickRuns`,
`RequestsEnd` and `TimersRun` stand beside the `FairSpec` whose WF they write out; they
name the states in which the action has no step. From them follow:
- `ChannelGoesOn`: `NoMeterStarved`, `ResetTaken` and `StaleNoticed`, for a line of
  one or two meters, as the code has (1..2, 3..4, 5..5). The reading of a meter is a chain
  of nine stages at most (`MeterDone`), and two of these make a round. `ResetIsTaken` and
  `SilenceIsNoticed` hold for any number of meters none of which is starved.
- `UploaderGoesOn`: `RegisterTaken`, `Reconnects` and `KeepsUploading`, for up to five
  meters (`Gate <= 5`; the code has five). A loop is a chain of at most ten states
  (`PollsAgain`). `ReconnectsIfRunning` and `RegisterIsTaken` do not need the number.
- `SavesRest`: `SaveComesToRest`, for any settings. Overlapping timers of notifications
  are no obstacle: the first to close takes the notification away.

Where a chain's length depends on data, a theorem gives the measure that every step
lowers and nobody else raises, and leaves out only the conclusion that a number cannot
fall for ever:
- `RoundsEnd`: a round over any number of meters has at most nine steps for each.
- `LoopsEnd`: between two polls of its connection the uploader takes at most `Gate + 4`
  steps.
- `SnapshotsNear`: between two snapshots each step of the recorder is an error, takes
  handles never given back (there are `MaxFds`), comes to a later stage, or leaves one
  directory fewer.
- `UploadsEnd`: each turn of browser and device leaves an upload with fewer steps, two
  for each chunk. `SpinsOnlyForUpload` adds that the button spins only for an upload with
  steps left, or cut off.

Only model-checked: that the last two measures end in `KeepsRecording` and
`ButtonComesBack`, since files may have any number of chunks and `./snap` any number of
directories; and that WF implies the written-out hypotheses.

## Not modelled

- `thrd_485_3`, `thrd_mqtt_3`, `thrd_mqtt4`: compiled, never started.
- The values themselves, message and file texts, counters, texts of states:
  nothing the program decides depends on them.
- Torn reads of a string or a double by another thread; what of a row reaches a
  full disk; the bytes after the digits in the recorder's unterminated buffers,
  which are zero on a fresh stack.
- mongoose and libmodbus beyond what the threads call and beyond the upload; paho; the
  read-only handlers; GPIO and ioctl set-up.
- Of the pages: markup, icons, the chart, the display of the firmware's status,
  and the number formats of inputs. Commit, rollback and erase are left
  out too: they are constants or only mark an image.
- The Vue build under `web_root/static`: minified output whose source is not in
  the repository, though it is what `web_root/index.html` loads.
- What an image that was written over does when it is booted.

## Plan

Done, in this order: Chan485, CloudMqtt, Settings, Snap, DayDiff and their proofs;
FirmwareUpload with its abstract specification, Session, EventsPage, SettingsPage, Dashboard
and their proofs; Sampler and Archive with their refinements, and the liveness theorems.
Next:
1. `Gateway`: workers, uploader and recorder over the same meters, with samples
   read block by block while they are written; which samples are whole, and what a
   restart loses.
2. An abstract store that Settings implements: what is in use and what a start
   finds, without the halves of a save.
3. Stale copies of settings in the uploader; the second uploader and the paho thread
   as far as they can be started.

Hazards no property catches yet, each with its note in PROJECT.json: readers that
take a meter's values between two blocks; a negative upload interval; the growth of
the send buffer; settings copied while they are read; rows lost on a full disk;
the process that dies of a visitor; events shown out of order; edits lost to the
refresh; the button of a cut upload. The last four happen; the properties near them
hold all the same, or name them as exceptions.
