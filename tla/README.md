# A verification project for the DAZN panel

The repository restreams DRM-protected live channels: PHP processes download the
segments a DASH manifest offers, decrypt and mux them, and keep an `ffmpeg`
reading the result into an HLS list that nginx serves. This directory holds TLA+
models of its own logic, TLC runs that check them, and TLAPS proofs. Paths below
are relative to `src/mini_cs_extracted/mini_cs/`.

## Inventory

| Component | State it keeps | Operations | Interacts through |
|---|---|---|---|
| Segment pipeline: `includes/dazn.php` START, `processSegmentsIterative` | `$rLoop`, `$rCompleted`, `$rFFPID`; `downloadMap.json`, `encrypted/`, `final/N.mp4`, `playlist.txt` | fetch manifest, number and download what is missing, decrypt and mux, write the list, start the player, clear old files | the directory `video/<channel>` (shared with the player and with STOP) |
| Store helpers: `updateSegments`, `clearSegments` | none; read modification times | sort, slice, list, unlink | `final/` |
| Player: `ffmpeg -f concat` (external) | position in the list | open the next file, end at a file it cannot open | `playlist.txt`, `final/`, `/proc` |
| Process lifecycle: `wwwdir/api.php`, `dazn.php` START and STOP, `wwwdir/restore.php`, `scripts/start.sh`, `scripts/start_clean.sh` | process titles, `video/<channel>`, `cache/<channel>.db`, `config/persistence.db` | request, kill by title, set title, clean, make directories, loop, forced stop, remove, restart, clean start, restore | `ps`, file system |
| persistence.db: `getPersistence`, `addPersistence`, `removePersistence` | the wishes, `<type, channel>` | read, change, truncate, write, launch the command | api.php requests run concurrently under php-fpm; restore.php; the start scripts kill them |
| Manifest parsers: `getServiceSegmentsDAZN`, `...TimeNew` | none | number or time window of segments | HTTP |
| Keystore: `getKeyCache`, `setKeyCache`, `getKey`, the cleaner at the end of `functions.php` | `cache/keystore/*.key` | cache for a day, fetch with retries | every PHP process runs the cleaner |
| Reloader: the end of `wwwdir/playlist.php` | `$rel`, the list read once | look for each channel's HLS list, STOP and START it when there is none | persistence.db, nginx, api.php |
| Monitor: `monitor.php` | none | restart channels whose player is gone | files of another installation, api.php |
| Status pages: `index.php`, `dashboard.php`, `on_off_channels.php`, `stats.php` | none | show the channels online | cache files, `/proc` |
| Installation, containers, bundled PHP and nginx, uncalled variants and the older `config/functions.php` | | | |

What is hard here: the worker takes no step back from a failed download or mux,
so numbers drift; a STOP removes two directories, one after the other and entry by
entry, between any steps of a worker that looks at only one of them; processes find each other by `grep` on titles set after the kill; the
player reads its list once and dies at a gap; slicing goes by a modification
time of one second's resolution; persistence.db and the key files are read,
truncated and written by several processes without a lock, and deleted by others;
a Time manifest is taken apart by adding up durations; the machine may restart at
any point. The hazards are listed one by one in `PROJECT.json`, with the property
that covers each or the reason why none does.

Correct means: for the pipeline, that the player gets segments in order, none
twice and none lost while the source still has it, that the store stays bounded,
and that a dead player comes back; for the lifecycle, one worker for each
channel that somebody wants on and none for the others, each with its directories,
and recovery from what a late STOP removed; for persistence.db,
that it changes by one wish at a time, that the commands launched are those it
stands for, after a restart too, and that a withdrawn channel stays withdrawn; for the keystore, that every
worker goes on with a key of the source and comes to one; for the parsers, that
what they list is offered, paired and in order.

## Modules

| Module | Models |
|---|---|
| `SegmentStore` | `final/` as a function from slot number to segment and modification time; `Newest` (sort and slice, ties left open), `ListStart` (with the code's treatment of slot 0 as "not set"), `Listing` |
| `SegmentPipeline` | one channel's worker, the late STOP that removes its directories, and its player |
| `OrderedStream` | the abstract promise: consecutive slots, segments in order, none skipped while the source offers it, the latest slots kept |
| `SegmentPipelineProofs` | theorems about `SegmentPipeline` |
| `StreamProofs` | theorems about `TailSpec`: the refinement of `OrderedStream`, and the order of play |
| `Lifecycle` | requests, START and STOP processes, restart and restore |
| `LifecycleMC` | its instances with one and two channels |
| `LifecycleProofs` | theorems about `Lifecycle` |
| `Persistence` | requests, restarts and restore on persistence.db, step by step |
| `WishList` | the abstract promise: a set of wishes, changed by one at a time, kept or emptied by a restart |
| `PersistenceProofs` | theorems about `Persistence` |
| `Reloader` | extends `Persistence` by the page that restarts channels |
| `ReloaderProofs` | theorems about `Reloader` |
| `Keystore` | one key file, the workers that read and write it, and the cleaners |
| `KeystoreProofs` | theorems about `Keystore` |
| `Manifest` | the windows both parsers list, against a live source |
| `ManifestProofs` | theorems about `Manifest` |

`Reloader` is composed with `Persistence` by extension. `SegmentPipeline` and
`Lifecycle` abstract each other: the first has one late STOP at a time as its
surroundings, the second a round from its manifest and key to its end as two steps;
`Lifecycle` changes the list with the request, which `Persistence` takes apart, and
`Persistence` records only the order in which commands are launched, in the
background and before the answer: what the launched processes then do to each other,
that a STOP overtakes a START or a `grep` finds another channel's worker included, is
in `Lifecycle`. `SegmentPipeline` takes
a manifest for `Window(e)`, the last `WindowSize` segments up to one that only grows.
`Manifest` justifies that: a long enough manifest lists such a window
(`SpecListsWindow`), and a Time manifest lists ever later ones (`MovesForward`). A
Number manifest whose depth shrinks while its start number stays lists a window one
back for a moment; the pipeline takes its depth for constant.

Definitions headed "Not the code" are mutated forms; no specification uses them.
They are there to show that each property notices a plausible bug.

### SegmentPipeline

One action per stage, in the order of `dazn.php`: `Clean` (27-33), `MakeParts` and
`MakeFinal` (34-39), `Start` (40-62), `ForceStopped` (71-74), `Fetch` (76-114), `DownloadAudio` and `DownloadVideo`
(`functions.php` 396-462; the map is written in the video pass), then one
`Skip`, `Combine` or `Drop` for each segment of the window (464-527),
`UpdateSegments`, `StartPlaylist`, `ClearSegments`. Correspondence of state:
`map` is `downloadMap.json`; `rLoop` is `$rLoop`, which counts successes only;
`final` and `encrypted` are the directories; `ffmpeg` is the process `$rFFPID`
names. `$rLoop` and `$rFFPID` survive the outer loop as they do in PHP. `dirs` says
which directories there are: `final`, its neighbours under `video/<channel>`
("parts": aria, encrypted, decrypted, which nothing is muxed without) and
`hls/<channel>/hls`.

A late STOP (250-251) is `StopReads`, then in any order `StopUnlinks` and
`StopRemovesFinal` (an `rm -rf` unlinks the files it has listed, and fails to remove
`final/` if a new one has come) and `StopRemovesRest`, and after these
`StopRemovesHls`; the worker and the player take steps between any two. Line 71 asks
for `final/` only, so a STOP that comes between or after the worker's mkdirs may
leave it for good without the rest of its directory or without `hls/<channel>`
(`Crippled`): then nothing is played, and nothing in the worker notices.

Other stages are atomic: within them no other process looks at what they change.

Abstractions: segments are numbered 1, 2, 3, ... and a manifest offers the last
`WindowSize` of those produced, never fewer than before (the numbers of a Number
template, the times of a Time template in their order); a segment is its two parts;
content, keys and encryption are left out; a round without a manifest or without
a key changes nothing. The parts go together, because a worker without any one of
them muxes nothing (aria2 makes `aria/` again, which alone is of no use); the files
of `final/` are unlinked in one step, and so are they and the rest by the worker's own
`rm -rf` (30-31), whose only reader is a player that ends anyway. A second late STOP
begins when the first is through. A fault is a download that loses parts, a mux that fails,
a manifest URL that is missing, or a player that dies.

### Lifecycle

A process is its command line and the step it is at. `Kill` removes the titled
processes that the `grep` finds: `Within` says which names contain which, and
no `kill` reaches a player. Every `rm -rf` of a START or a STOP is taken apart
(`left`: what it has still to remove, `Remove` one of it; `video/<c>` in any order,
then `hls/<c>`), and the mkdirs are `MakeParts`, `MakeFinal`, `MakeHls`. `Check`
is line 71 and a round that gets its manifest and its key (83, 114), `Round` the end
of that round, where the cache is saved (170); a round that gets none only sleeps
(178-184) and is no step. STOP's own ffmpeg kills (`dazn.php` 237-246) read an undefined variable under
names nobody writes and do nothing. `includes/restore.php` is encoded;
`wwwdir/restore.php` is taken as its source. `persistence.db` changes in one
step with its request. Both start scripts kill every process (`KillAll`);
`start_clean.sh` deletes the list, and nothing is restored.

### Persistence and Reloader

A request is `Read` (which also changes the copy, `$rPersistence`), `Truncate`,
`Write`, `Exec`: `file_put_contents` truncates when it opens and writes later. If
another request has written in between, the text goes over the start of that one, so
the result is whole or, if the other was longer, torn. A text is no longer than one
that has all of its wishes; between two lists neither of which has all wishes of the
other, which is longer depends on names and is left open. The different shapes of JSON for
one list (an array after a removal may be written as an object) are left out.
`json_decode` gives NULL for an empty or a torn text, and the callers treat it
like an empty array. `restore.php` reads the file once and launches one START
after the other while requests already arrive. `launched` is each channel's last
command; that a command is launched says nothing of when it takes effect. A wish is a pair of a type and a
channel; only `dazn` is a script, a command for another type finds no file and
starts nothing, though it is entered in the list all the same. The panel starts
with any file and restore still due. `start_clean.sh` deletes the file while no
PHP runs.

`Spec` lets everything overlap. `InTurnSpec` has users who wait for each other's
answers, but not for `restore.php`, of which they know nothing: a restore may meet a
file that a request has truncated (`blind`), or start a channel from a list it read
before the STOP. `WishList` has a `Restart` that leaves the list or empties it: that
stands for `start.sh`, for one between the truncation and the write of a request, and
for `start_clean.sh`. The page of `Reloader` makes its requests one after the other, as
curl does, and nothing keeps users, `restore.php` or a start script from coming between any
two of its steps or into the middle of its requests; one page is open at a time.
nginx may answer 404 or not at any time (`Look`), since a worker may have stopped,
have nothing to play yet, or never have been started.

### Keystore

A worker's round is `Check` (`file_exists`), `ReadKey`, and when that gives none
`Fetch` with its retries, `Open` (truncates or creates), `Write`, `Verify`
(`file_exists` again), `Use`. A cleaner, which is the end of `functions.php` in any
PHP process, is `Stat` and `Unlink`. A write to a deleted file reaches nobody
(`orphan`). `Sealed` is a text with the right HMAC; `Decrypt` gives no key
otherwise. The texts of all keys are equally long and that of a blank key is shorter, so
only a blank key written over a key's text leaves a torn file (`Written`). Key 0 is the blank answer of `wwwdir/dazn_api/api.php`. `Replace` is the
kill by a START. A file gets old between two rounds, never within the moment in
which it is written.

### Manifest

`timeline` is the audio `SegmentTimeline` of the source, one record for each `S`: a
new segment repeats the last `S` or has its own, and when the oldest is dropped the
first `S` has one repeat less or is gone. `Parsed` runs over the `S` one after the
other, `ListS` adds up both times over the repeats as the code does, and `Slice` is
`array_slice` with a negative offset.
`NumberWindow` is the arithmetic of the Number parser. The depth is in whole
seconds, of segments of three seconds; a timeline has one `t`, at its head, and
`r >= 0`. What a list names is decided by the source (`Numbers`), not by the parser.

## Runs

| Run | Checks | Bounds |
|---|---|---|
| `failures` | any failure, no removal: `TypeOK`, `NoDuplicate`, `NumberingLag`, `StoreBounded`, `ClearedIsOld`, `StartsOnAFile` | window 2, 3 files kept, 6 segments, 3 faults |
| `removals` | the steps of a late STOP between any of the worker's: `NoDuplicate`, `PlayerComesBack` | window 2, 3 files kept, 4 segments, 1 fault, 1 removal |
| `tail` | failures of a round's newest segments only: the worker implements `OrderedStream`; `PlayInOrder`, `Delivered` | window 2, 3 files kept, 4 segments, 2 faults, 1 removal |
| `patient` | requests when nothing is under way, one restart at any time, clean or not, one name inside the other: `OneWorker`, `AsRequested` | 2 channels, 5 commands, 1 restart |
| `hurried` | requests at any time, workers that exit: `TypeOK`, `SelfHeals`, `RunningIsShown` | 1 channel, 3 commands, no restart |
| `inturn` | one request at a time, restores and restarts at any step: `TypeOK`, `AsWished`, `RestoreEnds`, and the file implements `WishList` | 2 types, 2 channels, 3 requests, 1 restart |
| `spares` | pages, users, restores and restarts that overlap, no clean start: `ReloaderTypeOK`, `StaysShut`, `StaysWished` | 1 channel, 2 types, 3 requests, 1 restart, 1 page |
| `cached` | workers and cleaners on one file: `TypeOK`, `UsesSourceKey`, `KeyComes`, `BrokenHeals`, `LastKeyStays` | 2 workers, 2 cleaners, 2 keys, 1 kill, 2 tries |
| `windows` | every timeline of a small source, equal durations in one `S` or in several: `PairsMatch`, `MovesForward`, `ListsOffered` | window 2, lead 2, durations 1 and 2, 7 segments |

`ClearedIsOld` needs more files kept than `2 * WindowSize - 2`; the code keeps 64
with a window of 10. The bounds let more segments be produced than are kept, so
files are cleared while the window slides, numbers are given out twice after a
failure, and the player both reaches the end of its list and finds a gap. Two
faults are needed for an audio and a video part of one round to be lost
independently. Three commands give a kill, a victim and a late STOP, or a worker with
two of them. Three requests give one that a restart cuts off, one that meets what it
left, and a STOP; a page makes two requests, so three leave one to its user, whose
STOP or START may come before, into and after the page's. Two cleaners are needed for one to delete the file
written after the other deleted the old one, and a second worker to overwrite it. A source
of seven segments has timelines that are shorter than the slice's offset of four,
equal to it and longer, with every pattern of repeats.

The remaining runs find a violation, one for each part, of something the program
says of itself:

| Run | Says | Does |
|---|---|---|
| `restarts` | "[FATAL] No segments! Restart." (`dazn.php` 174) | never: `$rCompleted` starts at 23 |
| `previous` | "Shutting down previous instances." (19) | two STARTs that both pass their kill before either has its title both live under it |
| `kept` | `{"status":true}` (`api.php` 24) | two STARTs of different channels read the list; the second to write drops the wish of the first, which is already answered |

Further consequences of the code that need no run are listed among the hazards: a late
STOP may cripple a worker for good; a request of the page that overlaps a user's may
take away his wish or bring back one he withdrew, for the next restart; the
kill finds channels whose name contains another's; a STOP misses a START without a
title; STOP ends no player, since it reads an undefined variable; two cleaners that
saw one old key file may delete its successor, upon which the worker that wrote it
exits; the page of `playlist.php` starts nothing, since its type is no script.

`TailFailures` singles out the failures under which the order holds. It is an
assumption about the source, not something the code enforces; `failures` shows what
is left without it.

## Fairness

The worker is one sequential PHP process whose commands have timeouts, and
`ffmpeg` is another: weak fairness for each. Which of them takes a removal, a
fault or a request is never assumed. `PlayerComesBack` also needs a live source
(strong fairness of fetching a newer manifest, up to the bound): with no new
segment a player of an empty list has nothing to open. A STOP that has begun goes on.
In `Lifecycle` each process is scheduled, and the source does not refuse the
manifest's URL, the manifest or the key for ever: strong fairness of `MakeHls` to the
inner loop and of `Check`, since rounds that fail come back to the same place and a
round that fails does not save the cache. That is a fact about the source and not
about the code; without it no channel ever plays. An exit for want of a key is never
forced. In `Persistence` a restore goes on (`Restore`) unless it is killed; requests
and restarts are free. In `Keystore` each worker is scheduled, the key server
answers in the end (strong fairness of `Fetch`: the retries make it possible again
and again, not continuously), days pass, somebody opens a page now and then, and a
new key reaches the server. A worker that is killed without end is excluded by the
bound on kills.

## Proofs

`SegmentPipelineProofs` proves for every window, number of files kept and every
bound, from `StoreAssumption` and `PipelineAssumption` and what is named below:

- `SpecTypeOK` and `SpecNoDuplicate`, from the inductive `IInv`. `NoDuplicate`
  is not inductive: a file could hold a segment under a number the map has lost.
  `IInv` adds that the map leads from each file's segment to that file, while the
  directory is the worker's own (`MapAgrees`, `Owned`: all there, and no `rm -rf`
  inside), that without it no file comes (`Bare`), and that files exist only when
  `$rLoop` is positive (`Counted`), because a round with `$rLoop` zero clears the map.
  What a STOP may do to the directory and in which order is `Tear`; once it is torn only
  the worker's `Clean` makes it its own again (`StopNotOwned`, `StepTear`). The
  invariants below say what they say while the directory is `Owned`.
- `SpecNumberingLag`, from `LagInv`: while the mux loop runs, the numbers given out
  for the segments still to visit are within a window of `$rLoop`
  (`GivenOut`, from `RankBound`), and each muxed segment raises `$rLoop`.
- `SpecStoreBounded`, from `StoreInv`: muxing takes the room its visit frees.
- `SpecStartsOnAFile`, if two files or more are sampled and kept (`SlicesTwo`; the
  code has 10 and 64), from `StartInv`: number 0 is given only to the first segment
  of a round that begins with an empty directory (`ZeroFirst`), so its file is the
  oldest (`ZeroOldest`), so a sample in which it hides the others is all of `final/`
  (`NoListStart`).
- `SpecClearedIsOld`, if `2 * WindowSize - 1` files are kept (`KeepsEnough`), from
  `AgeInv`: a round begins in a new second, so a file as young as another was
  written in its round or later and its segment is less than a window older
  (`Near`); the kept files and a dropped one that is still offered would then be
  more than there are numbers for (`ClearedLeft`, by the pigeonhole principle).

`StreamProofs` proves about `TailSpec`, under `KeepsEnough` and for every window,
store and bound:

- `TailIsStream`: `TailSpec => StreamSpec`, the refinement of `OrderedStream`.
  `StreamInv` says that slots, segments and ages agree in their order (`Ordered`),
  that the counter is one above the last slot (`Top`), that what counts as held is
  held and so is all before it (`Own`, `Prefix`), and that while a segment can still
  be muxed the numbers given out lie in a row from the counter on (`InRow`). So the
  next file gets the number of the counter (`FirstIsNext`), what it leaves out has
  left the manifest (`CombineAppends`), and clearing keeps the last slots, because
  only files of one second compete with them (`KeepsLatest`). `InRow` is where a
  failure other than at the tail breaks the order.
- `TailPlaysInOrder`: `PlayInOrder`, from `PlayInv`: without a removal the worker
  never empties the directory again, so a file as new as the one opened last is
  always there, and the next one written is newer (`Ahead`).

`LifecycleProofs` proves for any set of channels, any relation between names and
any bounds, from `LifecycleAssumption`:

- `SpecTypeOK`, from the inductive `TypeOK`.
- `PatientOneWorker`: for patient users, no two workers of a channel. A kill
  reaches only titled processes, so the argument is about who has no title yet: of
  two living STARTs of a channel one is titled and the other about to kill it
  (`Sole`), and a channel that restore has still to start has no process
  (`Unstarted`).
- `PatientAsRequested`, under `OwnNamesOnly` (no name within another, and keys that
  can be stored; otherwise a START may end the worker of another channel, or a worker
  exit by itself): at rest
  the workers are the channels of persistence.db, and each has all of its directories.
  `RequestInv` carries the wish from the request through launch, kill, title and round
  (`Carried`). For the directories, a STOP that has got to its `rm -rf` has no worker of
  its channel beside it (`StoppedAll`), so whatever a worker has made since it began
  is there (`Made`): no step of another process takes it away (`Spares`).

`PersistenceProofs` proves for any types, channels and bounds, from
`PersistenceAssumption`:

- `SpecTypeOK`.
- `InTurnAsWished`: when the panel is quiet, a channel with a wish was started by its
  last command, or restore.php met a truncated file, and one without was not started
  by a request last. `TurnInv` says that at most one request is in flight (`Solo`) and
  what it has read and truncated (`Pending`); `Outcome` that its wish is in the list
  exactly if it is a START, and `Served` that the commands follow the list (`Followed`)
  but for the channel whose command is still to be launched. A restore in the middle of
  a request is part of it: its wishes are `restoring`, and what it reads while the
  file is truncated is lost to it (`blind`).
- `InTurnKeepsList`: `InTurnSpec => ListSpec`, the refinement of `WishList`, step
  by step from `TurnInv`; while the file is truncated it stands for what
  the request will write.
- `InTurnAnsweredIsKept`: `AnsweredIsKept`, the property that the run `kept` finds
  violated, holds of requests in turn as long as the machine is not restarted. So
  the list loses an answered wish by an overlap or a restart and by nothing else.
  `MemoryInv` says that the request in flight is the last one to have arrived
  (`FlightIsLast`) and that a wish that was written and not stopped since is in what
  the file holds, or will hold once the write is through (`Remembered`).

`ReloaderProofs` proves for any number of pages, requests and restarts, from
`PersistenceAssumption` and `ReloaderAssumption`, with requests of users, pages and
restore.php that overlap as they like:

- `ReloaderSpecTypeOK`.
- `SpecStaysShut`, if the page asks for another script than the dashboard
  (`Sling # Dazn`, which is what makes it harmless): a STOP that met nothing else under
  way and was answered before another request came takes its wish out of the file, and
  leaves none in a copy, a restore or a request (`Stopped`, `Withdrawn`). From then
  on nobody but a user's START can put it back, since a stale copy in another request
  was read after it. A request that came alone knows that those in flight came later
  (`Solitude`). Without "alone" the property is false: that is hazard
  `functions.php:127`.
- `SpecStaysWished`, under the same condition and without clean starts: a START since
  which every request had its turn and none was cut off is in the file, or carried by
  the request that has truncated it (`KeptOn`, `Carries`), so that the page's STOP and
  START under the other type, and any number of restarts between requests, leave it.

`KeystoreProofs` proves `SpecTypeOK` and `SpecUsesSourceKey` for any number of
workers, cleaners, keys and retries: every sealed file, and every key a worker
holds, is blank or one the source has had; empty and torn ones give none.

`ManifestProofs` proves for every limit, lead, duration and number of segments, and
for every way to write the timeline, from `ManifestAssumption`:

- `SpecPairsMatch`, `SpecMovesForward` and `SpecListsOffered`, the properties of the
  run `windows`.
- `SpecListsWindow`: a Time manifest of `Limit` segments, or a Number manifest of
  twice as many, lists the segments `WindowUpTo(e)` for some `e`.

The inductive invariant says that the timeline decodes to the times of the source:
there are positions at which the entries begin (`Counts`), each as many segments
after the last as the entry stands for, whose times differ by multiples of its
duration. So the parse is at the right segment after every entry (`ListSReaches`,
`TimeListIs`), and a list names segments in a row (`Row`, `RowNames`), because
no two begin at one time. `Listed` adds that the last Time list lies no further than
the window of a parse right now (`WinFrom`, `WinTo`), which only moves forward
(`WindowMoves`). The induction over the entries is an argument by the first entry at
which it fails (`LeastNat`, from the library's well-foundedness of the naturals).

Only model-checked: liveness under fairness (`PlayerComesBack`, `Delivered`,
`SelfHeals`, `RunningIsShown`, `RestoreEnds`, `KeyComes`, `BrokenHeals`,
`LastKeyStays`), for which the provers have no `ENABLED`. Every invariant and every
action property of a passing run is a theorem, and so are the refinements; some are proved for the specification
of one run only, as the list above says.

## Not modelled, and the plan

What could still be added is a composition of pipeline and lifecycle in which two
workers share a directory, for the liveness of a channel under repeated removals, and
one of lifecycle and persistence.db, for requests that overlap in both.

Left out for good:

- `monitor.php`: it reads `monitor.db`, which nothing writes, and the files of
  another installation under `/home/wvtohls`; its requests say `service=` where
  `api.php` reads `type`, so they name no script.
- File contents and media tools; the choice of representation and language, URLs
  and the pssh in the parsers; several `S` with a `t` and a negative `S@r`, for
  which the parser is not written.
- HTML pages; a page may read a cache file in the middle of a write, which
  changes nothing but that page.
- Installation scripts; functions nothing calls and the older copy of the helpers
  under `config/`; the reuse of process ids by the kernel.
- The bundled PHP and nginx. Most lines of the repository are the C headers of
  PHP under `php/include`; they are third-party, the panel's own logic is the PHP
  and shell code in the inventory.
