# A model of receiverproxy

receiverproxy drives Colorlight 5A-series LED receiver cards over a raw
Ethernet link: it draws on them, provisions them (firmware, configuration, the
place of each card in the screen) and offers both through a command line and a
daemon with an HTTP interface. This directory holds TLA+ modules of the parts
of it that have behaviour of their own, the TLC configurations that check them
and the proofs that TLAPS checks. Paths below are relative to `src/`.

## 1. The system

### Components

| component | state | operations | interacts with |
|---|---|---|---|
| `crates/daemon/src/jobs.rs` | `Jobs.next`, the kept handles; per job its kind, state, lines, cancel flag, `done` watch channel, event broadcast | spawn, push, finish, cancel, wait, events | worker threads, HTTP handlers, event streams |
| `crates/daemon/src/state.rs`, `store.rs` | `holder` of the link, settings, wall, the stream that is pushed to; `settings.json`, `wall.json` | acquire, command, start_job, show_job, cancel_show, offer, push_frame, set_settings, set_wall; load, save | every route; `Guard` gives the link back when it is dropped |
| `crates/daemon/src/live.rs` | the newest job's line, what is on the panel, brightness | job, show, publish, events | a watcher task per job; subscribers |
| `crates/daemon/src/routes.rs`, `api.rs`, `error.rs` | the files of each request under the data directory | one handler per route, some in two halves around an await; the token; the commit gate | all of the above, `ops` |
| `crates/ops/src/flash.rs`, `util.rs` | none of its own; the card's flash | flash_firmware, restore_flash, write_config, rewrite_block, dump_range, scan_flash, read_blocks, verify_firmware, read_config | the card, which acknowledges no write |
| `crates/ops/src/upgrade.rs` | the card's SDRAM | install | every card at once |
| `crates/ops/src/provision.rs`, `restore.rs`, `screen.rs` | snapshot directories; the card's EEPROM records | provision, snapshot, restore::all, screen read, write | flash.rs, upgrade.rs |
| `crates/ops/src/firmware.rs`, `crates/receivers/src/firmware.rs` | the archive, the cache and the uploads | resolve, fetch, verify, rank, chosen | upgrade.rs, provision.rs |
| `crates/ops/src/model.rs`, `probe.rs`, `crates/receivers` | model files | resolve a card's model, check it against the card | every command on a card |
| `crates/ops/src/config.rs`, `params.rs`, `crates/rcvbp`, `crates/panelspec` | configuration files, boot images | gen_config, config_build, import, send_params | provision, the card's RAM |
| `crates/ops/src/ingest.rs`, `crates/sources/src/raw.rs` | a half-read frame, the socket's file | stream, serve, stream_channel, read_frame | driver |
| `crates/driver` | brightness, announced sink, pacing clock | set_brightness, announce, show_rows, Pacer | the cards' frame buffers |
| `crates/wall` | a wall (cards and their windows, brightness cap) | validate, placement, blit, receiver_coords, render_into | driver, daemon, provision |
| `crates/colorlight` | none | frame layouts, memory maps | everything that talks to a card |
| `crates/rawlink` | a raw socket | open, send, recv | everything that talks to a card |
| `crates/rcvbp-wasm`, `crates/cli`, `crates/demos`, `web` | presentation | wrappers, argument parsing, demonstration content | rcvbp, ops, the HTTP interface |

### What is hard in it

- **Interleaving and cancellation in the daemon.** Handlers are async tasks of a
  multi-threaded runtime, workers run on its blocking pool, one watcher task per
  job waits for its end. One link is passed between commands and jobs; a new show
  cancels the old one, waits for it and only then tries for the link. A client that
  goes away drops its handler in the middle of an await but not the blocking
  closure behind it. Files are named and written before the link is asked for and
  read once it is held; settings are read, used and stored under different locks.
- **Delivery.** A job's lines and the live state go to subscribers over bounded
  broadcast channels, next to a replay or a snapshot taken separately; pushed
  frames go through a bounded queue, raw frames through reads that stop anywhere.
- **A card that acknowledges nothing.** Erases, page writes, SDRAM chunks and
  EEPROM records are fire-and-forget, and frames sent too early are dropped; the
  program learns it from a later read-back or never. Answers do not say what
  they are answers to. Programming flash only clears bits. An erase of block 7
  wipes the EEPROM's mirror in flash.
- **Long command sequences that may stop anywhere.** Provision is five steps with
  a power-cycle in the middle, and is run again after a failure.
- **Numbers from outside**, in panel specs, window geometry and brightness.

`PROJECT.json` lists each hazard at its line, with the property about it. Two
have none: `--firmware auto`, which trusts the version a card reports
(provision.rs:234; the source promises no more), and a window that wraps
(eeprom.rs:75; no valid wall has one).

## 2. The modules

| module | models | state and actions |
|---|---|---|
| `Daemon` | the link, the jobs, every route that takes the link | one process per request, worker and watcher; a step is one critical section, one atomic access or one channel operation |
| `DaemonLive` | `Daemon` plus the part of `Live` that follows jobs | extends `Daemon`: the actions in which the code writes the live state write `liveJob`, `liveState`, `show` too |
| `LiveEvents` | `Live::publish`, `Live::events`, `broadcast_sse` | change under the lock and broadcast after it; snapshot, then subscription |
| `LineFeed` | abstract: what an event stream of a job promises | lines, one position and one end per reader |
| `JobEvents` | `Handle::push`, `finish`, `events`, `follow` | the worker's appends and broadcasts, each reader's subscription, copy, replay, follow, lag, end |
| `Settings` | PUT /settings, PUT /wall, POST /brightness, a show; `store.rs`; `AppState::new` | a request is a sequence of steps (read, open a file, write it, assign, tell), a kill or a failed write at any of them |
| `Push` | `push_frame`, `offer`, `stream_channel` | one client's posts, the bounded queue, the job's thread with its time-outs, the end of a stream and the start of the next |
| `Serve` | `ops::ingest::serve`, `SocketFile`, `RawSource` and `Writer` | clients one after the other on a socket, frames in pieces, time-outs, signals, kills |
| `Requests` | the HTTP surface: token, bodies, commit gate, file names, what a handler writes before the link and its command reads after | one action per step of a handler or of its command; the clock of `unix_seconds` |
| `RewriteBlock` | `rewrite_block` with `read_blocks` | a page-wise card that may miss any frame; erase, write, read back, repair |
| `ConfigWrite` | `write_config`, `restore_flash`, `screen_size` around `rewrite_block` | any sequence of these commands on one card, with one backup file |
| `BankWrite` | `flash_firmware`, `verify_firmware` | unlock, erase and write block by block, relock, verify the whole bank |
| `Upgrade` | `install` | stage in SDRAM, erase, program, poll; the card on its own |
| `FlashReads` | `scan_flash`, `dump_range`, `read_blocks`, `verify_firmware`, `read_config`, `await_reply` | ask, answer (late or never), take the first that comes |
| `Provision` | `provision` with the programs it calls | one action per step of the command, each with every result it can leave on the card; runs, snapshot directories, power-cycles |
| `Firmware` | where an image is found, fetched, checked; the ranking and `chosen` | fetches that share a `.part` file, cuts, uploads; the choice as an operator |
| `Probe` | a card's model and `card probe` | discovery, the claims and their states |
| `PanelImage` | panel specs, record 0x01, the tables, the boot image, `gen_config`, the packs of `params.rs` | the builder's calls one by one; files written, packs sent |
| `Rcvbp` | record streams, `config build`, `config import` | load, copy, remove, save, read back; import as an operator |
| `Wall` | the geometry of `crates/wall`: mounting, placement, both copies, validation, brightness cap, rendering | operators only |
| `Refresh` | `driver::Wall` under the commands of `ops/display.rs`, and the cards | open, start of a refresh, one row packet, one latch, the brightness command, end or failure at any point; each frame reaches all cards or all but one |
| `DaemonProofs`, `SettingsProofs`, `StreamProofs`, `RequestsProofs`, `ProvisionProofs`, `FlashProofs`, `PanelProofs`, `RefreshProofs` | | theorems and proofs (section 5) |
| `MCDaemon`, `MCSettings`, `MCRefresh` | | constants for TLC |
| `MCStreams`, `MCFlash`, `MCFiles` | | compositions for TLC: a variable `which` names the module a behaviour is one of, the others stay where they started |

`MCStreams` (`Serve`, `Push`, `JobEvents`), `MCFlash` (`RewriteBlock`,
`FlashReads`, `Upgrade`, `BankWrite`, `ConfigWrite`, `PanelImage`, `Rcvbp`) and
`MCFiles` (`Firmware`, `Probe`, `Requests`, `Provision`) do not interleave
their modules: only one command has the link, or the parts meet through a
file whose content the next one takes as given. `Daemon` and `DaemonLive` are a
composition that does interleave.

### Correspondences that are not obvious

- *Daemon.* `holder` is `AppState.holder`; a `Guard` is not a value but a place where
  one is held: a busy or orphaned command, a handler between `start_job`'s critical
  section and the spawn of the worker, a worker that has not returned
  (`CommandGuards`, `StartGuards`, `WorkerGuards`). The kinds provision,
  firmware/install, flash/snapshot and flash/restore are one kind "hardware": the
  daemon tells them apart by name only. `Done` and `Failed` are one state. A
  handler's steps are named `pc` values, its locals `ask` and `job`. A tokio watch
  channel keeps the value it is sent only if a receiver exists (`WorkerNotify`).
- *JobEvents.* The broadcast channel is the log of everything ever sent and a
  position per receiver; a receiver more than `Capacity` behind is moved up. The copy
  of lines and the test for running are one critical section, as in the code.
- *Settings.* A file has a state (absent, empty, a text, torn) and what was written
  last: two writers that have it open may leave the tail of a longer text behind a shorter
  one. `messy`, `excused` and `put` are history: what the properties except; so is `apart`, which says what has
  parted the live state from the frames sent last. `panel` is the brightness of those frames: of
  POST /brightness, or of a show, which sends what is stored. The client of POST /brightness may leave at
  its handler's only await (`ClientGone`).
- *Push.* A frame is its number, a header one of two; a full channel drops the frame and
  answers as if it was taken. `answered`, `full` and `lost` are history: where a frame that was answered
  as taken went. Other requests are one action here (`OtherReplaces`): they drop the sender, or store an
  older one over it. *Serve.* A frame is `Parts` pieces, a read brings one.
- *Requests.* Every request has a body of its own, named by the client; a file holds a
  client's body, `Empty` between its opening and its writing, or the configuration the
  card had. Routes of the same behaviour are one ("look" stands for eight that leave
  files and flash alone). Provision and restore save what is there before the
  first write; that is what `BackUp` is, and their records are `Provision`'s.
- *RewriteBlock.* A page is "erased", "image" or "other"; the card erases and programs
  or misses the frame (`CardMisses`), and programming over another content may leave
  either. `Window` are the pages the card lets the host write, `Blank` those whose
  image is all 0xff, `MustVerify` those a caller insists on.
- *BankWrite.* A block is "old", "image", "erased" or "mixed"; frames to a locked region or
  to a block the running firmware guards do nothing. *Upgrade.* `Echo` says whether the link
  receives what it sends: `bpf` does, `packet` does not. *FlashReads.* `Batches` says whether one
  `recv` brings all that waits; the rest of such a batch is dropped.
- *Provision.* `LooksErased` and the two verdicts are over abstract contents.
  The firmware bank is split in the blocks 16.53 guards from the host path and the
  others. `Stop` is possible before every step: a seen cancel flag, a failed step and a
  killed process leave the same state.
- *Commands inside commands.* `Provision` and `ConfigWrite` take `rewrite_block`, `install` and
  `flash_firmware` as one step each, with every result that `RewriteBlock`, `Upgrade` and `BankWrite`
  can leave: a card that missed the broadcast keeps its guarded blocks, a block may be right and the
  command fail on its last read. Theorems about the detailed modules (`OkIsWritten`,
  `BankTellsTheTruth`, `InstallIsTruthful`) are what the steps' verdicts rest on.
- *PanelImage.* An image is the sequence of what was placed in it, each with its range
  and its builder's name, the last on top; bytes are told apart only where a table's
  entries must agree with the geometry. What the builder does not survive (a screen too wide for
  the phantom columns, more than 96 scan lines, a module of width 0) is a panic, and the scan
  table keeps what was written to it last: bucket ranges first, then the line order.
- *Rcvbp.* A stream is a sequence of cells so that the code's offsets (and its four bytes of
  slack) stay; payloads are short. A load that fails is "unread". An
  import compares with what the file's spec generates: a chip without a library and a library that
  fails leave less to compare, a module of width 0 makes the comparison panic.
- *MCFlash.* A module that a behaviour is not of is parked at one of its initial states or, where
  there are many (panel specs and files), at a command that has failed (`MCSpec0`).
- *Wall, Refresh.* A frame's data is a function of coordinates, a colour of picture `n` is
  `<<n, x, y>>`, so a wrong place is visible as such. u32 and u16 additions wrap as in a release
  build. Clipping a row to the screen is the domain of `data`. A card keeps the
  part of a row packet that is in its window (`ForCabinet`, as provision writes it) and shows
  its memory at the next latch, also in the middle of a refresh. `Wanted` and the operators above
  it tell where a picture has to appear from how LEDs are turned and mirrored, the opposite way
  round from the code. It is a set: validation does not keep panels from sharing an LED, and such an
  LED may show the place of either. A panel hangs on the first card of its index.

## 3. The runs

| run | question | bounds |
|---|---|---|
| `daemon` | who owns the link, who may cancel whom | 2 requests, each serving one ask after another, 2 jobs |
| `daemon_live` | does the live state follow the jobs; does a cancelled job end and wake its waiters | 1 request, 2 jobs |
| `streams` | do frames and lines arrive whole, in order and once; is a frame given to nobody; does every stream end | `Serve`: 2 clients of 2 frames in 2 pieces, 2 runs of the server. `Push`: 6 posts of two headers, queue of 2, idle after 2 time-outs. `JobEvents`: 2 readers, capacity 2, 3 lines |
| `refresh` | does each LED show its own place of the picture, under the brightness cap | one 3x2 panel in all 16 mountings in a larger window, two cards with two mountings, two cards of one index with panels that share an LED, a grid, a card per panel; packets of 2 pixels; 2 latches; 2 pictures; 1 lost frame |
| `settings` | do memory, files, live state and the frames the wall was sent agree; is the cap kept | 2 requests, 2 values, 2 walls (one with a cap), 1 kill, 1 failed write |
| `flash` | every command on a card's flash, and what is written to it | 4 pages of every class, 4 attempts; 4 places to read, 2 misses, chunks of 4 bytes; 3 SDRAM chunks; 5 blocks of which 3 are the bank and 1 is guarded, every range; 4 configuration commands; the panel specs of `MCSpecs`, 2 generations; files of 1 to 3 records, two at a time of which one is whole or both are the same (`OneCutFile`), and those of `MCSources` for import |
| `files` | what commands decide from files and from looks at a card | 2 fetches over every content of four places; every manifest of six images; 2 model files, every content of the regions; 2 requests, 2 seconds; 1 card, 3 runs of provision |

Five runs end in a violation of something the sources say: `daemon_lost_wakeup`,
`live_stale_client`, `provision_neighbour`, `install_done_early`,
`read_config_edge` (section 6).

*Why the bounds are enough.* The races in the daemon are between a request and a
worker, a request and another request, and an ending job and its successor: two of
each meet in every combination, and a handler serves any number of requests
one after the other. `daemon_live` needs no second handler because the live state is
written by a handler and by watchers, and two jobs give two watchers. A reader lags
once more than `Capacity` events are pending: 3 lines and the end make 4 against 2. Six
posts fill a queue of 2, change the header twice and outlive a stream. In `settings` and
in `Requests` two requests overlap at every step, and two seconds tell a shared name
from a name of one's own. The four pages of a rewrite are one of each class it tells
apart; the fourth configuration command starts from any result of three. A third run of
provision starts from anything two earlier ones can leave, after which no new
state of the card appears. The panel specs have each line direction with each wiring, widths
the block divides and does not, screens of one tile to more than the table holds and to wider than
the image holds, 64 and 97 scan lines, the largest numbers the checks let through, and 0 and 1. Both
files of a composition may be cut only when they are the same: a command stops at the first it cannot
read. In `refresh`, screens of 2 to 5 pixels
against packets of 2 give rows of whole packets and rows with a short last one; panels of 3x2
and 2x1 have distinct width and height and one-pixel sides; the integers are narrow (6
and 3 bits) and no sum of these walls wraps. The second latch is the one that may follow a
missed first.

`CHECK_DEADLOCK FALSE` is set everywhere: the model ends when the job ids of the bound
are used up, a command has ended, or the runs of the bound are over.

*Fairness* (`daemon_live` and `streams` only). The runtime polls every task that is
ready and the blocking pool runs every closure, so each handler step, the steps of a
worker after its command has returned and the watchers are weakly fair
(`LiveFairness`). A worker's return is fair only once its cancel flag is up, since a hold
or a looping video never ends by itself. In `streams` the server's thread
(`SFairness`), a pushed stream's worker and the handler that replaces it (`PFairness`), a job's
appends and each reader's task (`JFairness`) are weakly fair; no time-out is ever
prevented, so a thread that waits for a frame is. Clients owe nothing: arrivals, posts,
writes, disconnections and signals are not fair.

## 4. What is checked

*Daemon.* `LinkHasOneOwner`: whatever holds a guard is the holder and the holder holds a
guard, through replacements, conflicts, disconnections and endings.
`OverMeansOffTheLink`: a client that sees a job over never meets it on the cards.
`HardwareCancelledOnlyByDelete`: no route that shows something ever cancels a flash
write. *DaemonLive.* `WatcherToldTheEnd`, `ShowLeavesOnlyWithItsJob`, and under
fairness `CancelEndsTheJob` and `EarlyWaiterIsWoken` (a waiter is woken if it was waiting
before the worker announced its end; the others are finding 1).

*Streams.* `FramesArrive`: what goes on the wall is the next frame of the client served, whole,
however reads cut it and wherever an earlier client stopped; no frame a pushed stream
took is lost or drawn twice while the stream lives. `AnsweredFramesAreKept`: a posted frame that was
answered as taken is drawn, on its way, met a full queue, or was there when its stream ended; none goes to a
stream whose sender `pushing` still has but whose thread is gone. `StreamsEnd`: a signal ends the
server and takes its socket's file away, an idle pushed stream gives the link back, a reader gets
the end however far behind. `IsALineFeed`: `JobEvents` implements `LineFeed`.

*Settings.* `Persisted`: after requests in sequence whose writes succeeded a restart finds what
memory has, kills included. `CapHolds`: a stored brightness over the wall's cap has one of
the named causes. `LiveTellsThePanel`: between requests the brightness GET /state tells is the one
"the last sync frames carried" (docs/ui.md:245), or one of the causes of section 6 came since. A
POST /brightness that meets nothing leaves them equal whatever came before it, and so does a show unless
PUT /settings came or the stored value is over the cap.

*Flash.* `OkMeansWritten`, `StopsWithAWholeBlock` (a cancel between two attempts, never inside
one), `FailureHasACause` (one attempt without a loss suffices). `ReadsTellThePlace`:
a backup, a read-back or a verification shows each place's own bytes; only a scan or a
range dump with a hole may be shifted. `BankIsAsSaid`: a verified bank is the image from end to
end, nothing outside the range is touched, the region stays writable only by a broken link or
a missed relock. `InstallTellsTheTruth`, where the link does not loop back.
`EraseTakesNothingAway`: the backup is there before any write and the screen record outlives the
erase of its mirror. `EveryPixelHasItsPlace`: the mapping, the module table, the scan table and the
pack agree with the geometry for every wiring. `CardGetsTheImage`: nothing built is covered by a
later builder, the files of a generation belong together, a push sends what the card would
boot with. `FilesReadBack`: a stored file is read as the records it was made of or not at all (a
legacy file without its end perhaps as its first records), and what `config build` calls good reads
back as the base with exactly the records that were asked for copied, each in its place, and removed.
`ImportNamesTheRest`: an import names exactly the fields and records in which the file its spec
generates differs from the one it read.

*Files.* `RightImage`: a command that gets an image under a listed name gets the listed
bytes; an image picked unasked is decided by a test or by the chip's name and alone in its rank.
`ReportIsTrue`: a probe without a mismatch means a card that can be driven, a mismatch has a
cause. `CommitGate`, `OwnBytes`, `BackupIsKept`, `AnswersAreTrue`: what a request changes, with
whose bytes, what it saved, what it answers. `OkMeansProvisioned`, `RecordsSurvive` (the
records the card came with are on it or on the disk wherever runs stop),
`RecordsComeBack`.

*Refresh.* `RefreshShowsThePicture`: a card that got every row and a latch shows exactly that
picture in those rows, each LED its own place, whatever the mounting, the packets and the
window. `NothingOutOfPlace`: after any loss or stop an LED shows an older picture or nothing,
but never another LED's place. `UnderTheCap`: no command takes a card over the lowest cap.

`TypeOK` of `Daemon` and the `AllTypes` of `MCFlash` and `MCFiles` are the type invariants of
their runs; the other modules' are definitions that only the proofs use.

## 5. What is proved

TLAPS proves, for every value of the constants that meets the named assumptions, every
invariant and action property of the passing runs, and that `JobEvents` implements `LineFeed`.
Each proof is the same argument: an invariant that says more than the property holds at the start,
every step keeps it, and it implies the property. What it has to say more is below.

- `DaemonProofs`: `TypeCorrect`, `OneOwner`, `IdsAreDense` (a 409 consumes no id), `OverIsOff`,
  `HardwareSafeFromShows`, and for `DaemonLive` `EndIsTold` and `ShowStaysUp`. The
  invariant is `LinkInv`: `LinkHasOneOwner` alone is not inductive, because starting a worker or
  dropping a guard preserves it only if the job being started is new, no other handler starts it
  too, a worker that runs has a job that is Running and a handler that is about to cancel for a show
  has a job that is a show. `LiveInv` adds in what order an end is recorded, announced and published
  (`EndInv`). Assumed is that requests, job numbers and `Free` are distinct values.
- `SettingsProofs`: `SettingsArePersisted`, `StoredCapHolds`, `LiveToldOfThePanel`, from `SettingsInv`: while
  setters come one after the other each works on the wall the daemon has (`SetterIsCurrent`), a file has
  what memory has but between its opening and the assignment (`FileIsCurrent`), and a
  brightness over the cap that nothing excuses is one a PUT /wall is about to lower (`UnderTheCap`). The
  frames need `PanelInv` beside it: the POST /brightness that sent the last ones is behind the link
  and ahead of telling, and has in hand what it sent. Requests are assumed to be none of the names of
  the causes.
- `StreamProofs`: `FramesArriveWhole`, `AnswersAreKept` and `JobIsALineFeed`. For a job (`JobInv`) the log is the lines
  and then the end, and a receiver ahead of its client has lagged, a client ahead of its receiver has
  had the replay; with that every step is one of `LineFeed`'s or none. For a pushed stream
  (`PushInv`) what was taken ends with what is on its way, all of one header; a stream begins with an empty
  channel, so that no step takes an answered frame out of the places where it can be (`KeptSteps`). For the socket
  (`ServeInv`) what has been read of the client served, and then what is on its wire, are the pieces it
  wrote, in order.
- `RequestsProofs`: `CardIsGated`, `BytesAreItsOwn`, `BackupsAreKept`, `TheAnswersAreTrue`, for any
  number of requests and any length of time. The gate needs that the link belongs to the one
  request past `Take` and that a request past its first step carried the token
  (`GateInvariant`). The bytes need much more (`FileInvariant`): where each request is by its
  route, that its names carry the second it took them, that two requests that put the same file in the
  same place share a name (`SamePlaceMeets`) and that once they do they always will
  (`AloneShrinks`); then a step of another request leaves its files and, while it is
  about to replace it, the card's configuration alone. The answers need what each route may say at
  each step (`RepliesFit`). The assumption is that clients are not among the words for the other
  contents of a file.
- `ProvisionProofs`: `OkIsProvisioned`; `RecordsAreKept` when every run has a directory of its
  own (`Fresh`); `RecordsAreGivenBack`, from what is read before the first write and what is still to do
  (`BackInv`), for any chain and any number of runs. `TheImageIsRight` for any manifest and any number
  of fetches that share a cache (`RightImage` is inductive with the types, `ImageInv`). `ReportsAreTrue` for any model files (`ProbeInv`). `FilesTypes`: the types of the
  composition the run takes.
- `FlashProofs`: `OkIsWritten`, `RepairsAreSafe`, `WholeWhenStopped`, `FailuresAreCaused`, from
  `BlockInv`, which says what each page holds in the middle of
  an attempt (a page no longer in `todo` is right unless a frame was missed; one still
  in it is erased), for any set of pages, windows and attempts. `BankTellsTheTruth` for any flash, bank,
  range and guarded blocks, with what the lock must be in each step (`LockFollowsStep`).
  `InstallIsTruthful` for any number of chunks on a link that does not loop back (`~Echo`; on one
  that does it is false, see `install_done_early`), with what the card is doing in each stage
  (`CardFollows`) and that every "done" on the link is the card's and still true. `ReadsAreTruthful` for
  any places, misses and batches: answers that are due are in the order of their places and behind every
  place shown, and none is late as long as nothing was missed (`ReadInvariant`). `ErasesAreCovered` for
  any sequence of commands: what each has in hand at each step (`CommandOnItsWay`). `FlashTypes`:
  the types of the run's composition, where a parked module has to be at a value of its type
  (`ParkedAssumption`).
- `PanelProofs`, for any set of panel specs, chip libraries and files (`PanelAssumption`,
  `SourcesAssumption`, `RecordListsAssumption`, `TypesAssumption`: numbers have the width of the code's
  fields, or are numbers):
  - `TheCardGetsTheImage`, from `PanelInv`: at each step the image has exactly the pieces up to a rank
    (`HasPieces`), each in its range.
  - `EveryPixelPlaced` is arithmetic: a pixel's place is a number of two digits in the base of its
    block, a tile's its rank in the module table, and a gray level's slots are those of three
    cases of its bucket.
  - `ImportNamesWhatDiffers`: `fit` either reproduces the mapping or says it does not.
  - `WhatIsBuiltReadsBack`, from `BuildInv`: what a composition has so far is the base with a set of types
    copied and a set removed (`Stage`). That reading undoes writing is an induction over lists, with a
    set of lists in the place of the predicate (`ListInduction`), after the recursive functions of
    the model have been shown to exist step by step (`StepByStep`).
- `RefreshProofs`: `CapHolds`, by an invariant over what is being sent and what the cards were
  told; the geometry, for panels of any size in every mounting whose numbers fit 16 bits:
  the LED chosen for a canvas point is the one mounted there (`MountingIsUndone`), it is in the window of
  its card (`PanelInItsWindow`), the affine map of `blit` agrees with it (`PlacementIsExact`), no two
  points share a pixel (`PixelsApart`) and no two cards do (`WindowsApart`); and with it
  `PicturesAreShown` and `NothingIsOutOfPlace`. Their walls have no sum that wraps at 32 bits
  (`WallsAreSmall`, which `MCRefresh` has TLC evaluate for its walls): where a sum wraps, validation
  compares other numbers than the wall's. The picture is a fold over the panels;
  `RenderShowsPlaces` takes the first panel after which an LED would be wrong. `PictureInv` says of every
  card what of the rows sent so far is in its memory, and of every LED that what it holds or shows is
  black or its own place.

*Only model-checked*: `StreamsEnd`, `CancelEndsTheJob` and `EarlyWaiterIsWoken`, which need fairness
and ENABLED, out of the prover's reach; and the five violations below, which are traces.
The induction theorems of the library take an operator as a parameter, which no installed prover can
instantiate; where an induction over data was needed it was done by a smallest counterexample
(`LeastNatural`, `GreatestBounded`) or over a set.

## 6. Where the sources and the code disagree

Shown by a run:

1. `daemon_lost_wakeup`: `finish` is to "wake everyone waiting on it" (jobs.rs:203), but
   `done.send(true)` fails and keeps the old value when nobody has subscribed yet. A job
   that ends before its watcher's first poll is never published, and a later wait on
   it does not return.
2. `live_stale_client`: a snapshot is taken before the subscription, and changes are
   broadcast after the unlock: a client can be left with an older state.
3. `provision_neighbour`: with `--index N` the other cards are to keep their windows
   (docs/provisioning.md:108); step 4 always writes card 0.
4. `install_done_early`: "wait for the card to report done" (upgrade.rs:53) looks at the status
   bit of any frame, and where the kernel loops back what is sent the chunks of the image are
   among them.
5. `read_config_edge`: "The blob opens with its own total length, so we know when to stop"
   (flash.rs:63) forgets that the prefix is part of what is read: a file whose length is within
   the last three bytes of a chunk, or fills it, is refused however many chunks are allowed.

Met while modelling; the models follow the code, and the properties except them:

- A show is recorded after the job that keeps it was started (routes.rs:306): if the job's end is
  published in between, the show stays in the live state.
- Provision's step 5 is to verify every record (docs/provisioning.md:63); only the control area
  is compared, so a record the card missed is not noticed. `RecordsComeBack` excepts it.
- Overlapping PUT /settings and PUT /wall leave files and memory with different values (`messy`).
- `State.brightness` is "the value the last sync frames carried" (docs/ui.md:245), and is not
  (`LiveTellsThePanel` names each case):
  - a daemon that starts tells what it stores before it has sent anything (state.rs:99; "start");
  - PUT /wall, when it lowers the stored brightness, tells that and sends nothing (state.rs:154;
    "lowered");
  - PUT /settings tells nothing (routes.rs:254), and the next show sends what it stored (`put`);
  - a show sends a stored value that is over the cap under it, and tells nothing ("over");
  - POST /brightness frees the link before it stores and tells (routes.rs:276), so that two of them, or
    one and a show, may send in one order and tell in the other; if its client leaves, its file cannot be
    written or the link fails after the first frame, the frames were sent and nothing is told
    ("disturbed").
- A push whose stream was replaced before it stored the sender (state.rs:262) stores it over the one of
  the newer stream, which thereby ends at its next read: the documentation has it end after five idle
  seconds, for another show or by a DELETE (docs/ui.md:229). A first frame whose stream is
  cancelled before it is drawn is answered as taken (`lost`).
- A full queue drops the newest frame and answers as if it was taken; the HTTP documentation has
  frames "dropped rather than queued", and two are queued.
- Provision reads its spec twice (provision.rs:143, :271), and the route writes spec.toml before it
  asks for the link: a refused request that shares the directory or the second changes what a
  running job installs. So do two config/write in one second. `Alone` excepts both.
- PUT card/screen-size with the size the card has answers committed, with nothing written.
- `write_config --base-image` saves no backup, and running a command again with the same
  `--backup` overwrites it with what the first run left. `restore_flash` leaves the screen record
  erased.
- "Relock on every exit path" of `flash_firmware` is not so for a send that fails between the unlock
  and the relock (`LeftWritableOnlyByTheLink` names the cases).
- After a late answer `scan_flash` and `dump_range` may show a place's bytes at a later place.
- `card_scan_len` wraps at 16 bits for specs that pass validation; a module of width 0 passes it
  and then panics, in an import too; on screens so wide that `real + width` exceeds 0x400 the column
  table covers the anti-void region, and on much wider ones placing it panics (image/mod.rs:112); a
  block that does not divide the width gives slots past the scan line.
- With more than 32 scan lines the line order is written over the ranges of the buckets
  (docs/compiled-image-format.md:43 has them side by side, scan_table.rs:174 writes both); with more
  than 96 it leaves the table and panics.
- A position near 65535 given to provision wraps in the window it writes (eeprom.rs:75): only walls
  are validated.
- A legacy .rcvbp cut at its end may read as one with fewer records (`FilesReadBack` says so);
  records of one type beyond the first are not compared by import.

## 7. What is not modelled

- Byte layouts, check sums, compression and text formats (colorlight frames, the
  constant tables of `rcvbp` and `panelspec`, TOML): pure functions with tests and captured
  fixtures of their own. They have no state, and a model of a table is the table.
- Of the builder's arithmetic, the u32 wrap of a scan line's time and the check for a file too large,
  which no image reaches; a module of width 0 is a panic here also where a bad chip fails first.
- `rawlink`: what it can do to a frame (lost, late, looped back, an error) is in the
  modules that use it.
- The sources of pictures (patterns, fonts, scaling, video decoding) and frame timing: content; the models
  let a frame be lost whenever the code could send it too early. `Wall::announce_layout` and
  `set_gains`, which no command of `ops` uses.
- `rcvbp-wasm`: each call is one call of `rcvbp`. `cli` parses arguments in front of `ops`; `demos` are
  demonstration content (their gains go past the brightness cap). The web client is any
  sequence of requests.
- Of the HTTP surface: the read-only lists, the embedded web client, the list of interfaces.

## 8. What is left to do

1. A refinement, as a theorem, between `BankWrite`, `Upgrade`, `RewriteBlock` and the steps that stand
   for them in `Provision` and `ConfigWrite`: the detailed modules start from any content and do not
   remember it, so they need a history variable first.
2. The announced layout and the pacing of `driver` in `Refresh`.
