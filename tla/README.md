# A verification of the CrossInk simulator

The repository is the native desktop simulator of the CrossInk / CrossPoint
e-reader firmware. The firmware (not in the repository) is compiled against
shims for its hardware and its SDK: display, buttons and touch, SD card, Wi-Fi,
HTTP, web servers, FreeRTOS tasks, the capability heap. The simulator runs it in
one process with an SDL window.

This directory holds TLA+ models of the shims, the
TLC configurations that check them, and TLAPS proofs. Paths below are relative
to the directory that contains `src/` (the repository) and `tla/`.

## Inventory

| Component | Sources | State | Operations | What is hard |
|---|---|---|---|---|
| Main loop | `simulator_main.cpp` | quit flag | setup, beginFrame, loop, present, exit | order of the per-frame steps |
| Buttons and touch | `HalGPIO.cpp` | down/pressed/released per button, touch contact, home key, synthetic script, power-hold clock | beginFrame, update, the `was*` queries, synthetic events | edges must survive several update() calls in a frame; several queries judge one contact; window, screen and panel coordinates |
| Sleep, wake, reboot | `SimulatorLifecycle.cpp`, `HalGPIO.cpp` | environment variables that survive `execvp` | startDeepSleep, reboot, rebootAsPowerWake, consumeWakeReason, silent-reboot token | a restart between any two steps; stale variables |
| Display | `HalDisplay.cpp` | pixel buffer, present flag, frame buffer loan, grayscale planes, screenshots | display*, presentIfNeeded, lend/return, grayscale strips, quit | render task and main thread share pixels and a flag |
| FreeRTOS shim | `freertos/*.h` | task handles, notification counts, recursive mutexes | xTaskCreate, notify/take, vTaskDelete, take/give/peek | a task starts before its handle is published; handles are deleted under running threads |
| Logical heap | `esp_heap_caps.h` | two pools of address ranges, live map | allocate, fallback, release, injected failure | splitting with alignment, coalescing, exact accounting |
| WebSocket server | `WebSocketsServer.cpp` | client registry, event queue, threads | begin, loop, send, close | three kinds of threads, number reuse, close() against live threads |
| Web server | `WebServer.cpp` | one request at a time, routes, raw and multipart upload state | begin, handlers, send*, stop | START/WRITE/END/ABORTED protocol on every error path |
| File transfer server | `CrossPointWebServer.cpp` | server table, upload status, files | upload, mkdir, rename, move, delete, WebDAV, list, download, begin, stop | destructive steps in a row, two locks, stop against the worker |
| Storage | `HalStorage.cpp` | open files and directories, POSIX tree | open, read, seek, iterate, rename, remove | iterator state, descriptor life time, partial failures |
| HTTP client shims | `SimHttpFetch.h`, `esp_http_client.h`, `HTTPClient.h`, `SecureHttpClient.h` | request state, response cursor | begin, open, read, close, end | call protocol, mock roots, reuse of a handle |
| Socket clients | `NetworkClient.cpp`, `WiFiClient.cpp`, `SecureClient.cpp` | descriptors, shared and single owners, TLS layers | connect, read, write, stop | a closed number belongs to somebody else at once; slow peers |
| Image decoders | `JPEGDEC.h`, `PNGdec.h` | the decoded image | open with callbacks, decode, close | handles on failed opens, scaled last rows |
| Wi-Fi | `WiFi.h` | mode, status, SSID | begin, disconnect, mode, softAP, scan | any order of calls |
| Stack check | `SimulatorStackCheck.cpp` | per-task watermark | begin, end, instrumented entry | warn once, fail at the budget |
| Small HALs | `HalClock.*`, `HalFrontlight.*`, `HalTiltSensor.h`, `BoardConfig.h`, `EInkDisplay.h`, `SimulatorNetworkPorts.h` | a few scalars | get and set with clamps | boundary arithmetic |
| Text, codecs, digests | `WString.h`, `StreamString.h`, `base64.h`, `mbedtls/*`, `firmware_link_stubs.cpp`, parts of the servers | none, or a read position | encode, decode, hash, parse | lengths that are no multiple of a group, escapes, line ends |
| Ports | `MD5Builder.h`, `stb_image.h`, `simulator_ota.cpp`, `qrcode.cpp` | none to speak of | pure functions, vendored decoders | out of scope |

How they interact: the main loop calls `HalGPIO::beginFrame`, the firmware's
`loop()` (which polls buttons, storage and `WebSocketsServer::loop`), then
`HalDisplay::presentIfNeeded`. The firmware's render task (a `std::thread` made by
`xTaskCreate`) draws into the display's buffers. Each web server runs threads of
its own and hands results over through locks (WebSocket events, upload status).
Sleep and reboot replace the process by `execvp`; only environment variables and
files survive. The HTTP, socket, image, Wi-Fi and stack libraries are called by
one task at a time and share nothing with each other.

## Modules

| Module | Models | Composes or implements |
|---|---|---|
| `WsServer` | `WebSocketsServer.cpp`: main thread, accept thread, one thread per connection | implements `WsSessions` |
| `SimHeap` | `esp_heap_caps.h`: free lists, live map, counters, failure injection | implements `HeapBytes` |
| `SimTasks` | `freertos/*.h`: notifications, recursive mutex with a holder | |
| `SimPower` | `SimulatorLifecycle.cpp`, sleep and synthetic events of `HalGPIO.cpp` | |
| `SimInput` | the rest of `HalGPIO.cpp`: buttons, touch, Home key | |
| `SimDisplay` | `HalDisplay.cpp`: painting, presenting, gray planes, screenshots, frame buffer loan | |
| `WebServer` | `WebServer.cpp`: worker, request state, uploads, stop | implements `UploadStreams` |
| `SimStorage` | `HalStorage.cpp`: what each call may do to the tree of files | |
| `FileServer` | `CrossPointWebServer.cpp`: requests that read or change the card | extends `SimStorage` |
| `HalFile` | `HalStorage.cpp`: handles, descriptors, positions, directory streams | |
| `CardFiles` | `HalStorage.cpp`: iteration and whole-file functions against other tasks | extends `HalFile` |
| `HttpClients` | `SimHttpFetch.h`, `esp_http_client.h`, `HTTPClient.h` | |
| `Sockets` | `NetworkClient.cpp`, `WiFiClient.cpp`, `SecureClient.cpp` | |
| `ImageDecoders` | `JPEGDEC.h`, `PNGdec.h`, `SimulatorImageDecode.cpp` | |
| `WifiState` | `WiFi.h` | |
| `StackCheck` | `SimulatorStackCheck.cpp` | |
| `Shims` | one behaviour exercises one of the five libraries above | composes them |
| `HttpText` | the parsing and escaping functions of both HTTP servers | no state |
| `SmallHals` | boards, clock, light, tilt sensor, ports | no state |
| `Geometry` | window, screen and panel coordinates; drawing into the frame buffer; gray levels | no state |
| `Codecs`, `Digests` | base 64, WebSocket frames; SHA-1, SHA-256, Adler-32, CRC-32 | no state |
| `Strings` | `String` and `StreamString` | no state |
| `MC...` | constants of the runs; symmetry sets, one state constraint; the checks of the modules without state. `SimTasks` and `SimDisplay` need none | |
| `MCHalGpio`, `MCSimPower` | `HalGPIO.cpp` as a whole: a behaviour is about input or about sleep and relaunch; `MCSimPower` gives the schedules | composes `SimInput` and `SimPower` |
| `...Proofs` | theorems about the module they are named for; `RtosProofs` about `SimHeap` and `SimTasks`; `HalProofs` about `SimInput`, `SimPower`, `SmallHals` and `Geometry`; `CardFilesProofs` also about `HalFile`; `ShimProofs` about the five libraries of `Shims` and `Codecs` | |

Operators marked "Seeded fault" are variants of the definition that follows
them with a plausible bug. No specification uses them; `PROJECT.json`
("mutants") says which property notices which fault.

### WsServer

A step is one critical section of `clientsMutex` or `eventsMutex`, one access to
the atomic `active`, or one blocking socket call. `pc[c]` follows a connection
thread from the handshake through `addClient`, the events it pushes, to
`removeClient` and the close of its descriptor; `apc` is the accept thread, `mpc`
the main thread inside `loop()` and `close()`. `clients` and `nextClient` are the
fields of the same name, `pending` is `Impl::events`, `batch` the vector that
`loop()` swapped out. `session` and `clobbered` are history, and so is the field
`from` of an event, the connection whose thread pushed it: `WsSessions` sees the
event that is handed over next (`Due`) together with its sender, so that data and
DISCONNECTED have to come from the connection whose session is open, and an event
of an earlier owner or of an earlier `begin()` is an error. Frames are abstracted
to "some data arrived", writes to a client (`sendTXT`, `broadcastTXT`) change no
state here and are left out; what they rely on is `RegistryOwned`.

Runs: `ws_sessions` (two connections, two numbers, at most `MaxPending` = 1 queued
events) checks everything while numbers suffice, liveness too. `ws_full` has more
connections than numbers, so `addClient` overwrites; the constraint `NoDelivery`
keeps the callback away because delivery does not touch the registry. Two numbers
suffice for reuse, wrap-around and a full table; the three-connection run adds two
clients that share an overwritten number.

Fairness: threads are scheduled; `recv` returns by `SO_RCVTIMEO`; a blocked
`accept` returns once its socket is shut down; no peer owes a connection. `loop()`
is called again and again by the firmware's main loop, though `close()` may come
first, hence strong fairness.

### SimHeap

One action per call under the heap's mutex, with the placement (first fit with
alignment padding), the split, the coalescing, both
counters of the pool and the fallback between pools. The host's `malloc` is
external: any pointer not in use, or failure, also for one pool of a call and not
for the other. The firmware may pass a heap pointer
to libc `free`, as the code's comments allow for; the block stays charged and the
pointer may come back. `arena` (the list that `initializePool` built) and `lost`
(blocks that `live.emplace` did not record) are history.

The run `heap` checks that the counters are exact (`CountersAgree`), that free
ranges and live blocks make up the arena, sorted, disjoint and coalesced
(`ArenaAccounted`), that a strict request stays in its pool, and that the
allocator implements `HeapBytes`, a heap of sets of bytes. Foreign frees are
included. Arenas of three and four bytes with requests of one and two bytes,
aligned to one and two, make every case of the split (padding before, rest
behind, both, none) and of the coalescing; three pointers make a hole between two
blocks. Host pointers are interchangeable: symmetry, in a run without liveness.

### SimTasks

`count`, `holder`, `holdCount` are the fields of the task handle and of the mutex
wrapper; `owner` and `depth` are the recursive mutex itself. `Notify` releases the
lock before it signals, `Lock` and `SetHolder` are two steps, and spurious wake-ups
are steps. Threads not made by `xTaskCreate` share the main handle. The run `tasks`
has one task and two such threads, which is what it takes for two sleepers on one
handle. Fairness: a thread in the middle of a notify or of a take goes on.

### SimPower

A process is one round `Setup` ... `Exec`; `env` is what `execvp` hands on. Times
of schedules are abstract: `due` events of a script have come due, `handled` of
them were processed, and any number may come due between two polls. The firmware
is assumed to read the wake reason and the token in its `setup()`, in every process.

The run `hal_gpio` chains up to four processes (a wake after a reboot after a wake)
with every subset of three schedules set, and at most two keys in SDL's queue,
enough for a key that wakes behind one that does not. `HandOverIsTrue` joins
`WakeReasonIsTrue` and `TokenForSuccessor`. `InputWakes` says what wakes a sleeping
simulator: a button, by its key (`ButtonWakes`) or by a script
(`ScriptedPressWakes`). The code loses a scripted press whose release it handles
in the same poll, because it tests levels; the property allows for that loss and
no other. The keys S and H are buttons of no HAL and wake nothing, which
`README.md:152` contradicts ("pressing any mapped simulator key", S and H being in
the table above it): the violation run `mapped_keys` shows one process that sleeps
on. Fairness: the sleep loop keeps polling.

### SimInput

`BeginFrame` clears the edges, `StartUpdate` ... `FinishUpdate` is one `update()`
with any events in it, `Tick` lets 100 ms pass between any two steps. Touch points
are distances along one axis: 0, 28 (the slop), 40, 88 (a swipe). Ages stop at
`MaxAge` = 8, above the longest threshold of 700 ms. Buttons, panel and Home key
share nothing but the reset, so a behaviour uses one of them (`Uses`), and none of
them when it is about `SimPower`; buttons do not share anything either, so there is
one. `downFor`, `homeTold` and `contact` are history: how far the contact was away, how
long it was held, how often it was told to be a long press, whether it was
suppressed, and whether a long press was told too early (`hasty`).

`AnswersMatchContacts` relates the separate queries to that history. One release is
not both a tap and a swipe; a tap never left its slop; a swipe was short and long
enough; a contact is a long press once at most, after it had lasted, had stayed where
it was and had not been suppressed; a suppressed contact is silent, except for
`wasSwipe`; a press of the Home key is a tap or a long press. That a long press is
followed by no tap or swipe is not promised by the code, and not stated; see the
observations below. The run `hal_gpio` also evaluates `MCHals`: where a touch lands
is `Geometry`, what becomes of it is here.

### SimDisplay

A picture is its number; a buffer remembers for each row which picture it shows,
so a torn buffer is one with several numbers. `PaintRow` (render task) and
`CopyRow` (main thread) interleave freely on the unlocked `pixelBuf`. `plane[p][r]`
is the page for which a row of a gray plane was written. While the frame buffer is
lent, `frame` is "scratch"; `PagesAreClean` says that nobody reads a plane row of an
earlier page, nor scratch data as a page. That the firmware neither lends the buffer
in the middle of a page nor draws while it is lent is assumed.

`main` says where the main thread is. In its loop it presents in every frame; when
the firmware goes to sleep, `deepSleep()` presents once more, and then the loop of
`startDeepSleep` polls for keys and presents nothing; closing the window ends the loop
after the present of that frame. `NoLostPicture` therefore has two parts: what is
shown when both threads rest, and that a picture finished before `deepSleep()` is in
the window before the thread stops presenting. `AllShown` promises a picture and a
due screenshot unless the main thread stops first (`Stopped`); a wake replaces the
process.

The run `display` has two rows (torn or not), two pictures (one shown, one finished
during the copy) and one screenshot. Fairness: both threads are scheduled, and while
`main` is in its loop it calls `presentIfNeeded` again and again. It may leave the
loop at any frame.

### WebServer

`pc` walks the worker's loop: header, body, raw handlers, route with its multipart
files, request handlers, not-found handler, close. `currentClient`, `headersSent`
and `contentLength` are the fields of `Impl` that make the answer. `wire` is what
left on the connection, `raw` and `file` are the streams handlers saw: where the last
piece begins and ends, how many bytes were announced, and how the stream ended.
`UploadStreams` asks that each piece begins where the one before ended, that END comes
after exactly the announced bytes and ABORTED only before them. Handlers are
external: they call `send`, `sendContent` and `setContentLength` as they like. The
run `web_server` has bodies of up to five units, received by at most four, passed
on by two: a chunk boundary inside, at and across a receive. Fairness: the worker
goes on, `recv` has a timeout, handlers return, and a blocked `accept` returns
once `stop()` has shut the socket down.

### SimStorage and FileServer

A call of `HalStorage` is the set of its possible outcomes `[tree, ok]`, since the
host may refuse any part of it: the missing parents may be made and the rest not,
a recursive removal may stop at any entry, a write may be cut short. `FileServer`
runs a request as the code does: checks, removal of the destination, then the
move or copy; upload status before and after the write; listings and downloads
that read entry by entry and may fail. A receive may fail, also after `stop()`
closed the connection. `old` is the card when the request came.

`AnswersAreTrue`: a refusal changed nothing, a success is done to the last file. The
code takes a failed read of the host for the end of what it reads, so that a listing or
a copy may succeed with a part missing; then, and for no other request, `DoneInPart`
bounds what is left: entries of the listing, and of the copy its top and files of the
source, whole or cut. `mkdir` answers success for whatever has the name; what was there
stays.

The run `file_server` starts from every card over seven paths (two directories, a
nested file in each, a protected entry in the root and one in a directory) and
serves any requests in any order. One level of nesting is where prefix, child and
sibling paths differ; deeper copies repeat the same steps.

### HalFile and CardFiles

`HalFile` is one directory with its entries in the host's order, file contents,
the descriptors of the process, and `HalFile::Impl` of three handles: one that
iterates, one that takes what the iteration delivers, one local to a function of
`HalStorage`. Each host call (`readdir`, `stat`, `open`, `read`, `write`) is a step and may
fail; between two steps other tasks make, remove and rewrite the entries in
`Volatile`. A stream that is open while the directory changes shows a new or removed
entry or does not, as POSIX allows.

The run `card` has two files and a directory, three descriptors and files of up
to two bytes. `DescriptorsOwned`: a descriptor is open if and only if a handle owns
it, except directory streams, which the destructor and move assignment do not
close. `IterationComplete`: a caller who stops at the first closed file and then asks
`iterationFailed()` has seen every entry that was there all the time, once.
`AllOrNothing`: `readFileToString` returns as many bytes as it measured, and the
file's own when nobody wrote in between, or nothing. The violation run
`card_success` finds that `readFileToStream` and `writeFile` report success after a
failure, which their header excludes.

### Shims: HttpClients, Sockets, ImageDecoders, WifiState, StackCheck

`HttpClients`: the network and curl's fate are external; a piece of a body names its
resource and the headers and login it was asked for with, so that a body mixed
from two responses, or one asked for with another request's headers, is visible
(`OneResponse`, `BodiesAsAsked`). `Sockets`: the kernel hands out any free number, also
one just closed, and the rest of the simulator opens sockets, too; no client may
close or use a number that is not its own (`SocketsOwned`), and a call of
`SecureClient` returns (`CallsReturn`). `ImageDecoders`: every handle of the callbacks is
given back and a decode draws each scaled row of the last opened file once
(`DecodesWhole`). `WifiState`: a link is reported only where one was made and not taken
back, under the name it was made with (`LinkIsReal`). `StackCheck`: watermark, warning
and exit agree with the deepest frame (`StackReported`).

The run `shims` exercises one library per behaviour; they share nothing, so their
product would add no behaviour. Bounds: two copies of a `NetworkClient` over three
`Impl`s (one is free when a copy gets its own), three descriptors, two fixtures of the
same name in two trees and below `snapshots`, heights up to nine rows against scales
of 1, 2, 4 and 8, three nested calls of two sizes. Fairness: a thread in a call of
`SecureClient` is scheduled, and time passes (`TimeOut`), which is what ends the loops
at `SecureClient.cpp:107`.

### Modules without state

`HttpText`, `SmallHals`, `Geometry`, `Codecs`, `Digests` and `Strings` translate pure functions.
`MCHttpText`, `MCHals` and `MCTexts` state what they promise as named assumptions, which
TLC evaluates for all small inputs before the runs `web_server`, `hal_gpio` and `shims`:

- `MCHttpText`: decoders undo a browser's escapes and agree with each other on
  complete escapes; arguments and headers are found; normalised paths stay below
  the root and are their names; protection sees every element; JSON, XML and file
  names keep what was put in; both multipart parsers read back every part.
- `MCHals`: capabilities at compile time and at run time agree; dates follow each
  other from 1967 to 2134; the light never shines where there is none; scripted
  touches hit the panel pixel they name; drawn images land pixel by pixel; polarity
  and gray levels agree.
- `MCTexts`: base 64 inverts for every buffer size; frames are read as written, in
  every length class; SHA-1, SHA-256 and the checksums give known values; SHA-256 fed
  in pieces equals the whole; strings are found, replaced, trimmed and read.

Some state where the code falls short, so that a repair is noticed: `MissingSensors`,
`PixelOneMisses`, `TurnedScreenMisses`, `BoundaryInData`.

## What is proved

TLAPS checks the following for every value of the constants that satisfies the
named assumptions (`WsServerAssumption` and so on, next to the CONSTANTS).

| Module | Theorem | Argument |
|---|---|---|
| `WsServerProofs` | `TypeCorrect` | inductive as it stands; numbers wrap inside `Ids`, events keep their type |
| | `RegistryIsOwned` | inductive with `TypeOK`: only the owner of a descriptor closes it, after it was erased |
| | `CloseIsClean` | `LifeInv`: which threads may run in which phase of `close()`, that descriptors are shut down in time and that late events are drained; needed because the property only speaks of the end of `close()` |
| | `ClientsAreReachable` | with `TypeOK` and `LifeInv`; `clobbered` must have been set before two threads can share a number |
| | `OverwriteOnlyWhenFull` | the candidates of one scan, modulo `NumIds`, are all numbers (`CandidatesCover`) |
| | `EventsFit` | `SessionInv`: the waiting events, one after the other, turn what the callback knows into the set of threads that have announced themselves, each on its number (`Path`, a history of views along the queue). That the next event fits is not inductive: it depends on all events before it |
| | `NoOverwriteWithRoom` | a scan that finds no number free has seen `NumIds` registered clients (`CandidatesCover`, counting) |
| | `SessionsAreKept`, `SessionsUntilOverwritten` | refinement of `WsSessions`, step by step with `EventsFit`; with room for all connections without a condition, otherwise until the first overwrite |
| `RtosProofs` | `HeapCorrect` | `HeapInv`: types; a block stands for one pointer at most and is not lost then (`OneOwner`); and for each pool a sorted list with gaps between its ranges (`Ordered`), a partition of the arena (`Account`) and counters that count both. The parts need each other: bytes can only be subtracted from `free` because the ranges are disjoint, and `--allocatedBlocks` is safe because the block is charged |
| | `CountersExact`, `ArenaIsAccounted` | from `HeapInv`. The bytes of the list change by exactly the block (`CutList`, `FreeRangeFacts`), their number by its size (`CountWithout`, `CountWith`); the chunks of `initializePool` are ordered and make up `free` (`ChunksOrdered`, `ChunksCounted`) |
| | `StrictStay` | case by case from the caps: no fallback, one pool is tried. No invariant is needed |
| | `HeapRefines` | refinement of `HeapBytes`: what a step does to bytes is `Served`, `Released` or `Quiet`, which map to its steps or a stutter |
| | `HolderReadIsSafe` | `HolderInv`: how far `holder` and `holdCount` lag behind the mutex at each label |
| | `NoWakeupLost` | `BusyInv`: while anyone sleeps on a handle, at least as many threads are on their way (`Busy`: a notifier before its signal, a waiter that will check the count) as there are notifications. That somebody is on the way would not be inductive: one thread may take its own and leave the second to a sleeper. Counting needs finitely many threads |
| | `TypeCorrect` | of `SimTasks`; with `HolderInv`, which bounds `holdCount` by the depth of the mutex |
| `SimDisplayProofs` | `NoPictureLost` | `FlagInv`: while the flag is down, the copied rows are those of the last finished picture; for sleep also, that the rows shown by the last present are no older than what was finished before it |
| | `PlanesAreCurrent` | a plane row is empty or of the current page; `Cleanup` and a new page reset it; scratch data exist only while the buffer is lent |
| | `ScreenshotsAreCurrent` | `ShotInv`: rows of the pixel buffer and, behind the copy, of the texture are no older than `floor`; the oldest row exists because numbers of pictures are well-founded (`Least`) |
| `WebServerProofs` | `ReplyToItsRequest` | `IInv`: from the header to the first handler nothing was sent, set or left over |
| | `StreamsAreWellFormed` | refinement: the initial states map to one of `UploadStreams`, and every step of the worker to one of its steps or a stutter, by `StreamInv`, which ties `received` and `written` to the place and the length of the open stream, and `NoWorker`, that `begin()` finds no worker |
| | `TypeCorrect` | the files of a multipart body fit in it; no more arrives than was announced |
| `FileServerProofs` | `SystemFilesAreKept` | frame lemmas say which paths each storage call can touch; `Checked`: while the worker changes the card, both paths of the request were looked at; a path without protected name shares no first element with a protected one |
| | `CardInvariant` | `CardInv`: with types and `Checked`, how far the card has come from the card the request found, at each step of each request (`Stage`): untouched while the request is checked or answered by reading, without the destination after its removal, grown by parents of the target during an upload |
| | `RequestsLoseNothing`, `AnswersTellTruth` | each last step from `Stage`; what a storage call that stopped half way may have done is a lemma of its own |
| | `TypeCorrect` | every storage call returns a tree of the card |
| `CardFilesProofs` | `TypeCorrect`, `DescriptorsAreOwned` | `HoldInv`: types and ownership together, since a step that closes or moves a descriptor keeps the one by the other |
| | `ReadsAreWhole` | `ReadInv`: before the read the local file is open on the named file, at its beginning, and the buffer has the size that was measured |
| | `IterationsAreComplete` | `WalkInv`: every entry that stayed is still ahead of the stream, or is being opened, or was delivered, exactly one of the three (`Reached`); across a `suspend` the same of the position that was saved |
| `ShimProofs` | `ResponsesAreWhole`, `BodiesAreAsked` | `HttpInv`: what was read or streamed is the beginning of the body that is held, and a body is one answer to the headers and login it was asked with (`Honest`) |
| | `SocketsAreOwned` | `SocketsInv`: exactly one owner for each open descriptor, an `Impl` with a descriptor is held by a copy, and which layers of a TLS connection stand at each place in a call |
| | `ImagesAreDecoded` | `ImageInv`: the rows drawn so far, from the top, and the one handle that is open while bytes are read |
| | `StacksAreReported` | `StackInv`: the watermark of each task belongs to its deepest moment, and it was warned of once exactly if that exceeded the budget |
| | `LinksAreReal` | `LinkIsReal` with types and an environment that never changes |
| | `Base64RoundTrip`, `Base64Measured` | group by group; the last group by how many bytes are missing |
| `HalProofs` | `HeldTimeHonest` | `ButtonInv`: a button that is down has a press time that is no older than the hold, whether keyboard or script began it |
| | `AnswersTrueToContacts` | `TouchInv`, `HomeInv`: what a contact did (how far, how long, long presses, suppression) is in the record that the queries look at |
| | `EdgesAreLatched` | step by step, with `TouchInv` and `HomeInv` for the types |
| | `HandOverTrue` | `WakeInv`: the wake reason is in the environment from the wake to `setup()` only; `TokenInv`: a token in the environment was set by this process or handed over by its predecessor |
| | `NeverReplayed` | `PlayInv`: a schedule still in the environment has not been played, and no two variables hold one that could be played twice |
| | `PowerTypeCorrect` | no more events are handled than are due, no more are due than the schedule in use has |
| | `TimeAndDateAgree` | `formatTime` wraps a minute of the day, `formatDate` moves the instant: both come from one sum |
| | `PortsApart` | the range of the parsed port |
| | `TouchIsSeen` | the switch of the window point undoes the turn and the offset of the picture, in each orientation |

Every invariant and every action property of the passing runs, and all three
refinements, are thereby proved for any value of the constants. Where a proof
needs induction over numbers (lists without repetition, the chunks of a pool), it is
over a set of numbers that contains 0 and all successors and is therefore `Nat`
(`SetInduction`), because the induction theorems of the library take an operator.

Only model-checked: liveness (`CloseReturns`, `EventsArrive`, `NotifiedTaskWakes`,
`InputWakes`, `AllShown`, `StopReturns`, `CallsReturn`), since fairness and ENABLED are
beyond the prover; and the assumptions of `MCHttpText`, `MCHals` and `MCTexts`, which say
what recursive functions and folds compute, for which the prover would need
induction over data. `SuccessIsTrue` and `MappedKeyWakes` are refuted.

## What the models leave out

- Bytes, outside the modules without state: frames, headers, bodies, colours, JPEG
  and PNG are members of small sets elsewhere.
- Writes of `sendTXT` and `broadcastTXT`, `WebServer::client()`, headers a handler adds
  with `sendHeader`.
- Undefined behaviour that has no state to go on from: use of a deleted task
  handle, drawing while the frame buffer is lent.
- The race on `fd` between `stop()` and a worker (`WebServer.cpp:455`,
  `CrossPointWebServer.cpp:981`): a closed socket makes `accept` fail here.
- `softAPIP()` and the other addresses, which are constants.
- Tasks that are deleted while they run (`vTaskDelete` detaches the thread) and the
  difference between the refusals 400 and 403 of an upload.
- Card capacity, time stamps, `listFiles`; `setInverted` and `toggleInverted` as actions;
  the words of a touch script; `Serial`.
- `FileServer` and `CardFiles` together: the firmware does not change the card while
  the file server serves a request, and other tasks of `CardFiles` are not the server.
- `MD5Builder.h`, `stb_image.h`, `qrcode.cpp`, `simulator_ota.cpp`: pure or vendored.

## Observations without a run

Behaviour that the models show or assume and that no doc contradicts clearly
enough for a finding, or that no run of its own is spent on:

Sleep and input

- A scripted press that begins and ends between two polls of the sleep loop does not
  wake the simulator (`HalGPIO.cpp:747`).
- A contact that was told to be a long press may end as a tap, too, since `wasTouchTap`
  does not look at `longPressFired`, or, up to 700 ms, as a swipe (`HalGPIO.cpp:649-656`,
  `707-723`).
- A screenshot that comes due in the sleep loop is not taken; nothing presents there.
- `wasSwipe` does not look at the suppression of a contact, and a touch in the
  frame of a release overwrites the record that `wasTouchTap` judges.
- A scripted pixel coordinate of 1 is read as the fraction 1.0, the far edge; other
  coordinates may land one pixel short by truncation. Scripts are converted with the
  orientation of the first frame and miss on screens turned later.
- Window touches use the live orientation, while the picture on the window is that of
  the previous present.
- X4 Classic advertises a clock that `HalClock` does not have; Sticky and X4 Classic
  advertise a motion sensor that `HalTiltSensor` does not have (`BoardConfig.h:68-72`).

Card and file server

- A `MOVE` or `COPY` onto the entry itself or onto a directory around it removes
  the source with the destination and then fails (`CrossPointWebServer.cpp:950-970`).
- `copyPath` takes a read error for the end of a file or directory and reports
  success (`CrossPointWebServer.cpp:448-457`, `434`).
- `/rename` and `/move` replace an existing file without asking, as POSIX `rename` does.
- `mkdir` answers success when a file of that name exists (`EEXIST`, `HalStorage.cpp:429`),
  although `HalStorage.h:45-46` promises a directory.
- `DELETE` of a directory takes protected entries inside it along; the check looks
  at the path only. `SystemFilesKept` is therefore about the root.
- PROPFIND, PUT, MKCOL, MOVE and COPY normalise a path twice, DELETE once: a path with
  an escaped escape means different files. Hrefs in a PROPFIND answer are not escaped.
- A `HalFile` on a directory that is destroyed or assigned to leaks its `DIR`.
- The file server's connections have no send timeout, so that `stop()` can wait for a
  peer that does not read.

Web text

- `WebServer`'s multipart parser cuts a file at a boundary inside a line,
  `CrossPointWebServer`'s does not. Of two arguments with one name the one takes the
  first, the other the last. `strtol` accepts "% 4" and "%-1" as escapes.
- The firmware's own port 8080 passes through `mapFirmwarePort` and collides with
  the default for port 80.

Clients

- A body that curl could not read to its end is reported with the status it came with.
- `HTTPClient::begin` keeps headers and login of the request before;
  `esp_http_client_perform` sends no login.
- `softAP` and then `mode(WIFI_STA)` leaves the status connected.
- The high-water mark of a task reads 0 until its thread has begun.
- Continuation frames are dropped: of a fragmented WebSocket message the first
  fragment arrives.

Strings and codecs

- `xQueuePeek` is said to ask whether a mutex is taken (`semphr.h:47`), and
  answers "available" to the task that has taken it; and it may make another
  thread's peek fail on a free mutex.
- The base 64 decoder counts every trailing `=`, also outside the last group, and
  decodes "QQ=Q" to two bytes.
- `String::substring` with its end before its start returns the rest; `+` and `replace`
  stop at a zero byte; `read` returns a `char`, so byte 255 reads as the end;
  `toInt` throws on text without digits; assignment keeps the read position.

## Runs

| Run | Expect | Properties |
|---|---|---|
| `ws_sessions` | pass | HoldersReachable, ClosedIsClean, SessionsSpec, CloseReturns, EventsArrive |
| `ws_full` | pass | RegistryOwned, ClobberOnlyWhenFull |
| `heap` | pass | CountersAgree, ArenaAccounted, StrictRequests, AbstractSpec |
| `tasks` | pass | NoLostWakeup, HolderIsSelf, NotifiedTaskWakes |
| `hal_gpio` | pass | HeldNotLonger, EdgesLatched, AnswersMatchContacts, PlayedOnce, HandOverIsTrue, InputWakes |
| `mapped_keys` | violation | MappedKeyWakes |
| `display` | pass | NoLostPicture, ScreenshotCurrent, PagesAreClean, AllShown |
| `web_server` | pass | ReplyIsItsOwn, StreamsSpec, StopReturns |
| `file_server` | pass | NothingElseLost, AnswersAreTrue, SystemFilesKept |
| `card` | pass | DescriptorsOwned, IterationComplete, AllOrNothing |
| `card_success` | violation | SuccessIsTrue |
| `shims` | pass | OneResponse, BodiesAsAsked, SocketsOwned, DecodesWhole, StackReported, LinkIsReal, CallsReturn |

Deadlock is checked except in `hal_gpio` and `mapped_keys` (the simulator exits),
`display` (the program ends, and the bound on pictures is reached) and `shims` (a
stack check may end the process).

Type invariants are proved, not run: the theorems `TypeCorrect`, `PowerTypeCorrect`
and `HeapCorrect`, and for the other modules a part of the invariants above.

## Plan

Done: everything above. What is left, in order of worth:

1. `FileServer` over the steps of `CardFiles`, so that the firmware may change the card
   while a request is served.
2. Writes of `WsServer` to descriptors that may have been recycled.
