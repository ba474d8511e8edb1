# Verification of rjallan.me

The repository is a radio spectrogram site made of three programs:

* `myServer/` (C++): a receiver.  The main loop pulls samples from a HackRF,
  filters and demodulates them and hands them to `IQWebSocketServer`, which turns
  them into spectrogram rows, the rows into JPEG files under the web root, and
  announces every finished file to web socket clients.  The demodulated signal goes
  to a WAV file (the ALSA sink is written but never compiled in).
* `cloudServer/` (C++): the server behind the public site.  Threads record
  an internet radio stream with `curl`, convert it with `mpg123`, draw a spectrogram JPEG,
  and announce it to the web socket clients.
* `flutterSite/` (Dart): the page.  A web socket with a keep-alive chain, a
  spectrogram window that fetches and shows the announced images, an audio player,
  static pages.

`fftw-3.3.9/` is a vendored library; `flutterSite/{android,ios,web/icons,assets}`
is generated scaffolding and artwork.  Neither is looked at beyond how the code above
uses it.

This directory holds TLA+ modules for the parts with state, concurrency and
failure, configurations that check them with TLC, and proofs checked with TLAPS.
`PROJECT.json` is the index: components, runs, the source lines of every
definition, findings, hazards, theorems.

## 1. Inventory

| component | code | state | operations | talks to |
|---|---|---|---|---|
| HackRF streamer | `myServer/src/HackRFStreamer.cpp` | `thread_buffer`, `valid_length`, mutex + condition variable | `myCallback` (libhackrf's thread), `receiveSamples` (main loop), start/stop | main loop |
| main loop | `myServer/src/main.cpp` | the sample buffers of the filter chain, the sinks | one pass per block: receive, filter, demodulate, hand over | streamer, IQ server, sinks |
| sample window | `IQWebSocketServer.cpp:184-224` | `i_buffer`, `q_buffer` (3048 samples, 2048 of them transformed), `buffer_index`, `magnitude_buffer` | `writeToBuffer` | main loop, image thread |
| image thread | `IQWebSocketServer.cpp:226-512` | four slots (`file_pointers`, `file_rows`, `file_atomics`, `file_names`), name index, `sample_json`, files under the web root | `openFile`, row loop, `closeFile` with the `mv`/`jpegtran`/`rm` commands | producer via `image_mutex`/`image_cv`, clients via `socket_mutex`/`socket_cv` |
| connection admission | `IQWebSocketServer.cpp:15-139` | `socket_counter`, `connection_queue`, a pool of three threads | `on_open` (never returns while the client is connected), `on_close` | clients, image thread |
| start and stop | `IQWebSocketServer.cpp:250-262, 441-512`, `main.cpp:641-644` | server thread, image thread, `runImageThread` | `run`, destructor | main loop, pool, image thread |
| ALSA and WAV sinks | `AlsaStreamer.cpp`, `WAVWriter.cpp` | device handle; file and byte count | write a block, recover an underrun; write header | main loop |
| cloud notification | `cloudServer/src/main.cpp:50-150, 385-400` | `notifyThreads`, one thread and one `status_` per client, a pool of three | `on_open`, `on_close`, notification loop, send completion, announcement | image pipeline, web clients |
| cloud image pipeline | `cloudServer/src/main.cpp:152-430` | per thread a recording, a conversion, an image; `sample_json` | compute next time, sleep, fork `curl`/`mpg123`, draw, publish | notification threads, the file system |
| spectrogram feed | `flutterSite/lib/main.dart:100-320, 780-920` | socket flags, selected page, window state, request in flight, image shown | socket listener, keep-alive chain, build, fetch | both servers |
| audio player | `flutterSite/lib/main.dart:120-190`, `web/index.html` | play state, timer, `canplay` listeners | click, timer, event | browser |
| layout, painters, static pages | `flutterSite/lib/main.dart` | hover flags | drawing | - |

What is hard about each, and what makes it correct:

* **Streamer.** Two threads, one buffer, a fixed-size block taken from a stream of
  transfers of other sizes; overflow handling that moves memory by offsets. Correct:
  never outside the buffer, bytes in order and without gaps except where an overflow
  cost some, no lost wakeup.
* **Image thread.** Four files written at once, out of phase by a quarter image, whose
  slots rotate by four while their names rotate by forty; opening and closing look at
  one slot per row only; a condition variable without a predicate; members without
  initialisers; commands whose status is dropped. Correct: every image has exactly its
  number of rows, images are a fixed distance apart, are announced in order, and the
  announced file stays what was announced.
* **Cloud notification.** Handlers on three threads share an unlocked vector;
  `on_close` keeps an iterator across a `join` that waits for two images; the joined
  thread needs the pool its joiner occupies. Correct: an entry per live thread, a
  close that completes, clients that keep getting images.
* **Spectrogram feed.** Socket messages, frames and image requests interleave; the
  message that makes the window appear is not heard by it; windows come and go with
  page changes. Correct: never back to an older image, never stuck while connected.
* **Main loop.** Three pairs of loop bounds, a decimation by 400 and a history copied
  to the front of the buffer have to agree to the sample; a buffer is still handed on
  that nothing fills any more. Correct: the audio has no seams, what is drawn is what
  was received.
* **Sample window.** Appends of 1000 to a buffer of 3048 with an index set back by 1024 and a
  `memcpy` whose count is in bytes. Correct: never outside the buffer, never a row from
  memory nothing was written to.
* **Audio player.** A ten-second timer and `canplay` listeners added at every click act
  on state that later clicks change. Correct: a radio that plays can be stopped, and a
  click's spinner is ended by nothing that belongs to another click.
* **Start and stop of the server.** `main` feeds rows to two threads that wait without
  predicates, and its destructor joins the one before it wakes what that one waits for.
  Correct: the program ends when its input does.
* **Admission.** A handler occupies its pool thread for the life of the connection.
  Correct: a bound on served clients, everyone else queued and told so, a shutdown
  that ends.
* **Cloud pipeline.** Wall-clock arithmetic modulo an hour, child processes that are
  killed, files reused by name. Correct: announced times increase, the label is the
  label of the image.

`PROJECT.json` "hazards" lists the individual places with their lines and the properties about them.

## 2. Modules

All modules are plain TLA+. Names follow the source (`file_rows`, `socket_cv`,
`_fetchingImage`); program counters `pc`, `producer`, `handler`, `thread` name the
places between which another thread can act. Wherever the code holds a mutex over
several statements these are one action; wherever it lets go of it, or calls
something that can fail, there is a step.

Every module also contains a few operators marked *Slipped form* next to the definition they
vary: the same definition with one plausible mistake (a test dropped, an off-by-one, a
reset forgotten). Nothing uses them. Each property of a passing run has been seen to fail when
the original is replaced by one of them (`PROJECT.json` "mutants"), so that no property holds for
want of anything to break.

### ImageThread

`file_pointers[i]` is "null", "open", or "wild" for a value the allocator left there.
Rows are counted, their pixels left out. `disk[n]` is what the web root holds under name
n: "absent", "partial" (opened, being written), "raw" (closed, not yet turned),
"flipped" (turned and in place), "spoilt" (whatever is left when one of the commands failed). `pc` is the image thread: `idle` (before `wait`),
`waiting`, `woken` (notified, not yet the owner of the mutex), then inside the mutex
`open`, `write`, `close`, `flip`, `publish`. `producer` is the main loop in `writeToBuffer`:
before the `memcpy` or between the unlock and `notify_all`.

| action | code |
|---|---|
| `CopyRow`, `NotifyRow` | `writeToBuffer` 213-218; the notification is lost unless the image thread is `waiting` |
| `Park`, `SpuriousWakeup`, `Resume` | `run` 471-476, a `wait` without predicate |
| `NothingToOpen`, `OpenFile`, `OpenFileFails` | `openFile` 303-346; at most one slot per row; what it does to the slot is `TakeSlot`, whether `fopen` succeeds or not, since the result is not tested |
| `WriteRow`, `WriteFaults` | the row loop 478-484; a flush to a file that is not there ends the model in `fault` |
| `NothingToClose`, `CloseFile`, `CloseFaults` | `closeFile` 383-397; at most one slot per row |
| `FlipImage` | `mv`, `jpegtran`, `rm` 400-409: any outcome |
| `Publish` | `sample_json` under `socket_mutex`, `socket_cv.notify_all()` |

The header gives `file_pointers`, `file_rows` and `file_atomics` no initialiser, so `Init`
lets them hold anything ("wild", `GarbageRows`); `ZeroedInit` is the outcome with
zeroed memory, in which the program evidently ran, and is the hypothesis of the three
properties that fail without it.  A slot with a wild pointer counts as occupied in
`openFile`; writing to it or closing it ends the model in `fault`, so that the other
properties say what is true up to that moment.

When `fopen` fails the slot keeps its null pointer, but its compressor is started, it is fed (`fileless`), and the name is
used up (`unopened`). The next row finds the slot free, and if the previous slot still has its 538 rows it is opened again under
the *next* name. libjpeg (external) writes through a buffer of 4096 bytes, so rows go into a compressor without a file for a while: it may
flush with row `EarlyFlush` at the earliest (row 8, when the first blocks are coded) and has flushed with row `LateFlush`
(about 320, if nothing but black compresses that well); then the null `FILE*` ends the program. Every retry sets the
row count back to zero, so a slot that is retried never gets there. Only the very first file is not retried: `first_file`
is already set, and no previous slot has rows (`OutageSurvived`).

`MaxFailures` bounds the environment: of the last `NumNames` names at most so many had their `fopen` fail.
`RecentImagesStay` counts in announcements: `Age(n)` is how many names ago `n` was handed out, `AnnouncedSince(n)` the
images announced after it. With the code's forty names and four slots a client has 36 announcements, less the names
failed `fopen` calls used up, in which to fetch an image before its name is written again. `AnnouncedInOrder` says that the only names
left out are those.

### ImageFeed

What an image server promises its clients, and no more: a set of names being drawn, the
name announced, and the steps `Begin` (a name neither announced nor being drawn), `Announce`
(one that was being drawn) and `Break`. ImageThread implements it with the names of its open slots and
of the slot being closed as `drawing`, and `Break` where it reaches `fault` (`Feed`, `FeedImplemented`). cloudServer does not: nothing
in it keeps a thread from rewriting the image announced last if that is its own (section 6).

### HackRFBuffer

A byte is represented by its age: 0 for the last byte received, growing by the length of each
transfer, capped at `Oldest`. So "the buffer is in order and without gaps" is an equation on ages,
and no byte value is needed. `damaged` is a history variable: how many
leading bytes went through an overflow (lines 62-66) and may be stale or out of order; it is at
most `Threshold`, since that is all an overflow keeps. `Callback(n)` is `myCallback`;
`Take`, `Wait`, `TimedOut`, `SpuriousWakeup` are `receiveSamples`; `Process` is the
rest of the main loop. `TimedOut` is allowed whenever the loop waits or has been woken,
because `wait_for` may report a timeout when bytes arrive at the same moment; the main
loop then ends.

### CloudNotify

One connection per number, accepted in order of their numbers. `phase` is the peer and the
library: `away`, `open`, `closing` (close frame read), `broken` (read error,
only `on_error`, which prints), `gone`. `handler` is the pool thread in this connection's `on_open`
(`push`) or `on_close` (`find`, `join`, `erase`). `thread` is its notification
thread: `check` (the `while` test), `waiting`, `woken`, `done`, `joined`. `status_` is that
thread's stack variable, `in_flight` the sends of this connection whose completion has not
run, saturating at `MaxInFlight`. `notifyThreads` is the vector as a sequence of
connections, `capacity` its capacity (it doubles), `valid` the set of connections whose `on_close`
holds an iterator that still points at its own entry.

A completion needs an idle pool thread (`PoolIdle`), as does beginning a handler. Steps with
undefined behaviour (two handlers in the vector at once, a dangling
iterator used, a completion that writes to a finished thread's stack) set `undefined`; after it nothing
more is claimed, and the model stops.

`calm` is chosen at the start and never changes.  Where it is TRUE handlers do not
overlap, and the sends of one image complete before the next image, or a spurious
wakeup, wakes anybody.  It is an assumption about load, not something the code ensures.
`EntryPerThread` holds either way, up to a step with undefined
behaviour; `WellDefined`, `ClosesComplete` and `CalmFeedReachesClients` need it, and `cloud_feed`
shows what happens without it.

### SpectrogramClient

Images are their ages (0: the one just announced), up to `MaxAge`. `channel` is the socket:
`queued` is a socket myServer has not admitted yet. `mounted`, `_fetchingImage`,
`fetches`, `myImage` belong to the window's state object, which `BuildFrame` creates
and disposes of according to `WindowWanted`, the conditions under which `build` returns the
window. `fetches` are outstanding requests; a request of a disposed window is dropped.
The flags `_queued`, `_queuePosition`, `_duplicate` only select a text and are left out.

### AudioPlayer, HomePage

`_loadAudio` (the spinner) and `_playing` are the button's state. `Play` and `Stop` are the two branches of
`_playAudio`. `timers` holds what is left of each ten seconds, under the id (`myUUID`) the timer carries; `TimerEnds` compares
it with `_playUUID` as line 142 does. `uuid.v1()` is external: an id no running timer carries. `TimePasses` counts the timers down, `Wait` steps
of it being ten seconds, and `sinceClick` is a history variable that measures the last click's time apart from its timer. The audio
element is the browser's and external: `Play` sets its `src`, which drops what it was doing
and its pending events; `Metadata`, `EnoughData`, `Stall` and `StreamEnds` are what it does by itself, `LoadedMetadata` and `CanPlay` the
listeners of `index.html`. Each click adds another pair of listeners; all of a kind do the same, which doing it
several times in a row does not change. `audio.play()` may be refused.

HomePage is the state object of the home page: SpectrogramClient and AudioPlayer on one event loop, a step being one
of either. They share no variable, because the address played is the same whether `_connected` or not; the
composition is there so that the fairness of each is stated for the page's steps.

### FetchSchedule

One of the ten threads of cloudServer, and the clock, in seconds of local time. `now` is what
the thread last read from the clock, `schedule` the slot it computed from it (`Slot` is the
`if` ladder of lines 162-177, with `NextMinute` advancing the minute modulo 60 and
leaving the hour), `begun` the time it started to record, `label` the time announced. `Record` is
the return of `sleep_until`, `Publish` and `GiveUp` the two ways a round ends (all the
`continue`s are one action here; CloudImages tells them apart), `ForkFails` the `break`. `Tick` lets time pass
while the thread sleeps or records: at most `MaxBusy` seconds from the start of a
recording to the next reading of the clock.

### CloudImages

The files of all ten threads. The content of a file is the age of the recording it
comes from, in rounds of its thread: 0 for the present one. `StartRound` makes everything one round
older. Each step of a round is an action with each of its outcomes: `CurlDone`/`CurlFails`,
`Convert` (`mpg123` converts whatever `N.mp3` holds; its status is ignored), `NoRecording`,
`BeginImage`, `FinishImage`, `TooShort` (a torn `N.jpg.new` stays), `Copy`, `BeginFlip`, `NoFlip`, `EndFlip`
(`jpegtran` rewrites the served file in place), `Remove`, `NoCommand` (`system` returns -1),
`Publish`. `slipped` collects the threads in whose round a command went wrong without the
code noticing; `promised` is how old the announced image ought to be. Threads take their rounds in any order and at any speed. The promise ends
where the announced thread itself begins to rewrite `i.jpg` (`BeginFlip`): the code does nothing to keep it from that, see section 6.

`Restart` is the process ending between any two steps and being started again. Everything in memory is as at
the start, the files stay, torn ones included. Child processes are taken to have ended by then.

### IQSocket

`on_open` of myServer, which keeps its pool thread until its client is gone. `handler` is where it
is: `ask` (admission, under `queue_mutex`), `sent` (about to look at `status_`),
`waiting`, `woken`, `leave`, `done`. `socket_counter` is 16 bits wide. `queued` is the set of handlers whose local
variable `queued` is true; the library reads nothing from a client whose
`on_open` has not returned, so its leaving shows only in a failing send. `SendCompletes` needs an idle pool thread and writes
`status_`, which is on the handler's stack: after `done` that is undefined.

`Load` bounds the clients connected at once, `Patient` keeps queued clients from leaving, `Calm` is as in
CloudNotify. They are constants, because with `Calm` FALSE the feed fails at once and what is left to check is small.

### IQServer

The server as a whole: IQSocket's connections, the image thread reduced to where it waits (`test`, `park`, `waiting`, `work`,
`ended`; what it does with a row is ImageThread), and `main`: `rows` while there is input, then the destructor, a place
for each of its statements. `test` and `park` are apart because the flag is read at line 471 and the mutex taken at 475,
and `ClearRun` and `NotifyImage` hold no mutex. `StopServer` closes the connections
and stops the event loop: no handler begins and no completion runs after it (`PoolRuns`); `JoinServer` waits for every
`on_open` still running. The images IQSocket's clients wait for are now the image thread's (`ImagePublish`).

### SampleWindow, Receiver

SampleWindow is `writeToBuffer` up to the transform: `Append` and `Transform` are its two
ways through. A sample is its age in calls, `Unset` is memory nothing was written to,
`window` remembers what was last transformed. `Carried` is how many whole samples
the `memcpy` of 1000 *bytes* moves down.

Receiver is `main`: it extends SampleWindow and calls `writeToBuffer` from `Filter`, as
the loop does with `--server on`. A sample is its position in the stream, a filtered
value the first position it is computed from, so that "no seam" is a difference of
positions. `LastRead`, `BufferEnd`, `KeptEnd`, `FirstAudio`, `LastAudio` and `samples_per_period` are the loop bounds
and sizes of the code with its own constants (10400 samples a block, filters of 33, decimations of 40 and
10, 17.64 MHz). `WriteSamples` may write nothing (a full disk) without anybody noticing; `Close` is
`~WAVWriter`. `audio_sample_count` and the two sizes in the header are 32 bits wide and computed modulo `Word` (2^32).
`MaxRate` paces the radio (`NextBlock`): by the end of a second it has delivered so many blocks for each second begun, 17.64 million samples a
second in blocks of 10400, and what the streamer had stored. The sink is always the WAV file: see section 6.

### Composition

Receiver EXTENDS SampleWindow, IQServer EXTENDS IQSocket, HomePage EXTENDS SpectrogramClient and
AudioPlayer; ImageThread INSTANCEs ImageFeed. The other modules meet at an interface each models by itself:
the row handed from `writeToBuffer` to the image thread (ImageThread's producer),
the block handed from the streamer to the main loop (HackRFBuffer's `Take`, Receiver's `NextBlock`),
`sample_json` and the notification (`Publish` in ImageThread, CloudImages and FetchSchedule, `ImagePublish` in IQServer; in
CloudNotify an action that may happen at any time), and the messages of the web
socket (SpectrogramClient).

## 3. Runs

| run | shows | bounds |
|---|---|---|
| `image_thread` | whole images, announced in order, kept for NumNames - NumSlots announcements less the failed names; on zeroed memory staggered, survive failed `fopen` calls and go on for ever unless the first one fails; implements ImageFeed | 3 slots, height 10, stagger 3, 5 names, one failure in the rotation |
| `hackrf_buffer` | never overrun, in order behind what an overflow damaged, no lost wakeup | threshold 5, block 3, transfers of 2 and 5 |
| `cloud_notify` | entry per thread, close completes, feed goes on | 3 clients, pool 2, one send told from several |
| `cloud_feed` | violated: closing clients stop the feed of the others | the same, not calm |
| `home_page` | never backwards; updates until a request fails; a radio that plays can be stopped; a spinner ends with its own click's timer | ages to 3, timers of 2 steps, 2 ids |
| `spectrogram_fetch` | violated: a failed request stops the updates | the same |
| `fetch_schedule` | labels close, never back, no slot missed | 105 seconds across an hour, all ten threads |
| `cloud_images` | the announced image is whole and of its round, until its thread rewrites it, across restarts | 2 threads, ages to 2 |
| `iq_server` | counter and queue exact, clients admitted in turn, handlers end, feed goes on; the destructor returns, with two exceptions | 4 clients, pool 4, at most 3 at once, limit 0 |
| `iq_feed` | violated: with a full pool no send completes | 3 clients, pool 3, limit 21 |
| `receiver` | no seam in the audio, header, rows from samples | 17 blocks, 16 seconds, one block a second, words of 768, the program's DSP constants, a scaled window |

Why the bounds are enough:

* ImageThread keeps the relation of height and stagger: as many staggers as slots and one row (2153 = 4 * 538 + 1),
  so that one image more has to wait for the first to be closed. Three slots rather than four, because failures multiply the states; five names are one
  more than three slots need if no `fopen` fails, and the fewest that do with one failure in the rotation. They go out of step with
  the slots. A compressor without a file flushes with its second or third row (`EarlyFlush`, `LateFlush`), within one stagger as in the code, so the case in which a
  slot is not retried in time would show. The proofs cover all numbers.
* HackRFBuffer: a transfer shorter than a block and one that fills half the
  buffer, a block that divides neither: overflow, exact fit and leftovers all
  happen. Transfer lengths other than these are covered by the proof.
* CloudNotify: with a pool of two, two closing clients can block it and a third
  one be the victim. The code's pool is three; a client more and a thread more adds
  states and no new situation. Whether more than one send is out does not matter to any guard, so
  the count saturates at `MaxInFlight` = 1, "one or more".
* FetchSchedule starts 75 seconds before an hour (7125 = 2 * 3600 - 75) and runs past it: every
  kind of slot and both minute boundaries; the clock arithmetic has a period of an hour.
  `RecordTime` is curl's eleven seconds. With twelve `EverySlot` is
  violated: thread 9 has its slots at 18, 38 and 58, and back at second 10 of the next
  minute it takes slot 38 for the next one. The code has no second to spare.
* CloudImages: two threads suffice for "somebody else announced in between", and
  the proof covers ten. Threads differ in nothing but their name (symmetry).
* IQServer: limit 0 and a pool of four make queueing possible with three clients; the
  code's limit 21 with a pool of three never queues anybody, which is proved.
* SpectrogramClient: three images back are enough for a request out, a newer one shown
  and an older one coming in. AudioPlayer: two steps of the clock let a click, a stop and another click fall between
  the start and the end of a timer; with two ids the timers of two clicks run at once, and a third click has to wait. The proof is
  for any set of ids.
* Receiver keeps the program's DSP lengths; the window is scaled (block, window, hop, carried samples
  and size 1000, 2048, 1024, 125 and 3048 become 8, 18, 9, 1 and 26). As in the code it is twice the
  hop, takes three blocks the first time and then one a row, and because a block is shorter than the hop
  there is now and then a block without a row. The blocks of a recording draw nine or ten rows and reach that block. One block a second instead of 1722,
  and a word of 768 instead of 2^32: a recording that ends by the clock fits (36 + 52 * 13 = 712, as 36 + 52 * 13 * 1722 does in 2^32),
  and one that does not, 17 blocks in 16 seconds, goes past it, so that the header wraps within the run.

The bounds in guards are `MaxBlocks`, `Horizon` (Receiver, FetchSchedule), `MaxAge`, `MaxInFlight`,
`Oldest`; all but the first three saturate instead of stopping the model. TLC is told not to
look for deadlock where the program really stops: a fault, undefined behaviour, the end of
the recording, a failed `fork`, all clients gone.

## 4. Fairness

* ImageThread: weak fairness for the producer and the image thread. The radio delivers
  rows for as long as the program runs, and the scheduler runs both threads.
* HackRFBuffer: weak fairness for the device callback and for the main loop. Not for
  timeouts: nothing makes them happen.
* CloudNotify, IQSocket, IQServer: weak fairness for each handler, each notification thread and each
  connection's completions (a pool thread that is idle takes queued work). `Publish` has strong
  fairness: images keep coming whatever the clients do, and only `calm` disables
  the action now and then. Clients are not fair: nobody has to connect or leave.
* IQServer adds weak fairness for the rows while there is input, for the image thread and for each statement of the
  destructor: each is a thread that can run. Its image thread announces (strong fairness of `ImagePublish`) because a row it
  works on completes an image again and again (ImageThread's `ImagesKeepComing`). The end of the input is not fair; the properties about the running server assume it stays away (`StaysUp`).
* AudioPlayer: the browser runs its timers. Nothing is assumed of the network or of the user, and no property needs it.
* SpectrogramClient: announcements, the arrival of requested images, frames and the
  keep-alive timer are weakly fair; connecting, closing, failing and clicking are not.
* FetchSchedule, CloudImages, ImageFeed and Receiver state safety only and assume none.

## 5. Proofs

The theorems hold for every value of the constants that the named assumptions allow; the
TLC runs show the same properties on the instances above. Each module's proofs are in
a module of their own, `...Proofs`. `TypeCorrect`, where there is one, is the type invariant.

**ImageThreadProofs.** `TypeCorrect`, `ImagesAreWhole` and `FilesAreStaggered`.
`WholeImages` is not inductive: closing looks at one slot per row, so what
must be kept is that no two open slots have the same number of rows (`DistinctRows`) and that every
open slot is fed (`FedWhileOpen`); a slot with no row exists only before
the row is written (`RowRange`). `Staggered` needs more, because `openFile` compares the new
slot with the previous one only: the open slots form a chain (`Chained`: every open slot but
the youngest is the previous slot of a younger one), so the only slot that can be
opened is the one after the youngest, and if that one has `Stagger` rows then all have. The chain
needs zeroed memory (`Cleared`), hence the hypothesis. The number of slots, the height and the stagger may be any positive numbers.

The second part of the module is about order: `AnnouncedAreServable`, `ImagesInOrder`, `RecentImagesAreKept` and
`ImageThreadIsAFeed`, for any number of slots and names with `NumSlots + MaxFailures < NumNames`. All four rest on where the names of open slots stand in the
rotation (`OpenPlaced`): the more rows a slot has the older its name, no two have the same, and all are younger than the last one closed
(`LastClosed`); and every name given out since then either belongs to an open slot or is one for which `fopen` failed.
Slots are reused in any order and names in a circle, and this is what ties the two: the slot to be closed, having the most rows, has the
oldest name. Announcements follow the names, and counting gives the rest: fewer than `NumNames` names have been given out since the announced one, because each is
an open slot's or failed. `disk` under each of these names is kept along. On zeroed memory `OutageIsSurvived` (with `SurviveAssumption`: two slots, two staggers to an
image, fewer failures in the rotation than rows in a stagger) shows that a slot whose `fopen` failed is tried again at every row, and gets a file before the previous
one is full (`Kept`): every row it takes longer is a failure, and these are bounded.

**HackRFBufferProofs.** `TypeCorrect` (which says that the buffer is never overrun) and `BufferIsFresh`: `TypeOK` and `FreshTail` together are inductive. Two lemmas say
what moving a part of the buffer down and appending to it do to the ages; the rest is
one step per action.

**FetchScheduleProofs.** `LabelsAreClose` and `LabelsAdvance`, from `SlotFacts`: a computed slot is one of the
thread's (congruent to 2i modulo 20) and, outside the last ten seconds of an hour, not more than nine seconds
back; in them it lies an hour back, to within ten seconds. `Planned` and `Punctual` tie the slot to the reading it came from; `Announced` says
the last label is not later than the slot being waited for: both are on the same grid of twenty, the label
is in the past and the slot at most nine seconds so. `NoSlotIsMissed` assumes a recording of eleven seconds at most; `NextSlot`, about
`Slot` alone, goes through the five cases of the code's arithmetic: up to eleven seconds after a slot the next
one computed is the same or the one twenty seconds later. Assumed throughout: the clock starts at an hour or later.

**CloudImagesProofs.** `ImagesAreHonest`, for any set of threads in any order. `Fresh`: at each place in its round a
thread that has not slipped holds this round's recording in the file the next step reads; `InStep` adds that a
thread rewriting its image has ended the promise about it. A `Restart` keeps both, whatever it finds: nothing is
announced, and every thread is at a place before its first file.

**CloudNotifyProofs.** `EntriesMatchThreads`, also where handlers overlap. `EntryPerThread` is not inductive, since a handler
between two statements has an entry without a thread it will join or a thread without a client: `Stage` lists the five stages of a connection's life, each with where its
handler and its thread are and whether it has an entry, and `NoRepeat` says that it has only one, without which erasing one
would not take it out. `RemoveAtFacts` says what `erase` leaves. `CalmIsDefined` holds while `calm`: at most one handler runs and its iterator is valid (`Alone`),
so none finds the vector changed under it; and a connection has at most one send pending, none once its thread has stopped looking
(`KeepsUp`), so none completes late. `ClosesBlockThePool` is about the other case: closes that join a thread whose send has not
failed yet (`Blocked`). If there are as many as pool threads they fill the pool, only a completion could change the status they
wait for, and a completion needs the pool; so the set never shrinks (`BlockedStay`).

**IQServerProofs.** `PoolIsTheLimit`: if the pool has at most `Limit` + 1 threads (3 and 21), the counter
is exact and nobody is ever queued, clients leaving when they like (`SocketInv`). Every client counted holds a pool thread, and so does
the one asking: it finds at most `PoolSize` - 1 others. So lines 58-77 are dead code in the program as
configured, and the counter that a queued client would damage is safe. The other theorems are about `ServerSpec`, that is, also about a
server being stopped; `ServerSteps` reduces a step of it to what it is to the clients.
`CountersAreExact` is for the same pools, or for any pool whose queued clients stay (`Patient`). `QueueInv` says what on_open's place tells of how its
client is counted (`Role`): the way out is taken only by counted clients, since the status of one still
queued cannot change (`StillThere`: its end is open for as long as the pool runs). `FirstIsStillAsking` is the safety half of `QueueMoves`: the
entries of the queue belong one to one to the clients in it (`Owners`), although they are only addresses and a client is let in when the first
entry is its address, not when it is its entry; then another client with that address inherits what is left (`OwnerLeaves`).
`SendsFindTheirFrame` assumes `Calm`: on_open leaves only with a status a failed send has set, and there is at most one send (`KeepsUp`, `Quiet`).
`NothingRunsOn`, from `Stopped`: each join is passed only when nothing is left to run. Two theorems say what is for ever.
`ClientsHoldTheDestructor`: an on_open in one of its loops whose status is not that of a failed send (`Held`) stays so once the pool has stopped. `FullPoolIsStuck`:
the same while the pool runs, if as many are held as it has threads.

**ReceiverProofs.** `RowsAreSamples` assumes `FirstRowReaches` (the whole blocks that first fill
the window also fill what is moved down: 3000 >= 2048 + 125 in the code) and needs, before the first row, that
the buffer is filled by whole blocks. `OldHalfNeverReplaced` assumes an FFT of at least twice the hop.
`LoopDrawsSamples` carries the first over to the main loop, whose passes call `writeToBuffer` or leave the window
alone. `AudioHasNoSeams` needs `InStep`: where the loop stands in a pass says how far each stage has come, since a block
is a whole number of periods of both decimations (`PerBlock`, `PeriodFits`). `HeaderIsLongEnough` needs `Counted` (while all that was received can be counted in a word, the count is at least
what was written, and the header is the count) and `Paced` (no more blocks than the radio has for the seconds begun). It assumes `RecordingFits`: the samples of thirteen seconds at `MaxRate`
can be counted in a word. In the code that is 1.2 MB of 4 GB.

**HomePageProofs.** `PageIsTyped` and `ImagesGetNewer` come from one invariant of the window: `SingleFlight`, a request is
out only while `_fetchingImage` is set, and never two of them; so every answer is newer than the image it replaces.
`RadioCanBeStopped` adds `MetadataFirst`: an element that has its metadata still to announce and can already play has `canplay`
to announce as well, so that the button is corrected. `SpinnersAreKept` needs `OwnTimer`: the timer that carries the last click's id, if one does, was
started by that click, so that what is left of it and the time since the click add up to `Wait`; a new click's id is one no timer carries. A step of the
page is a step of the window or leaves it alone, and likewise for the player, so neither proof mentions the other's actions.
`FailedFetchIsFinal`: a window that waits for a request that is no longer out (`Stuck`) does so until it is built anew.

Only model-checked: what needs fairness (`ImagesKeepComing`, `BlocksKeepComing`, `ClosesComplete`,
`CalmFeedReachesClients`, `QueueMovesWhileUp`, `LeaversLeaveWhileUp`, `FeedReachesClientsWhileUp`, `StopCompletes`, `UpdatesUntilFailure`), which is out of the
prover's reach. Every invariant and every action property of the runs is proved.

## 6. What the checks found

* `cloud_feed`: `on_close` joins, on a pool thread, a thread that needs a pool thread to end.
  As many clients closing between two images as the pool has threads stop
  the feed for everybody (`cloudServer/src/main.cpp:130`). `ClosesBlockThePool` proves it final, for every size of the pool.
* `iq_feed`: `on_open` keeps its pool thread; three connected clients leave none for the
  completions of their sends (`IQWebSocketServer.cpp:105`). `FullPoolIsStuck` proves it final, for every pool and limit.
* `spectrogram_fetch`: a failed image request leaves `_fetchingImage` set, and the window never updates again (`main.dart:899`);
  `FailedFetchIsFinal` proves it for as long as the page shows that window.

Seen while modelling, without a run:

* The server is handed `bufferFiltered`, which the loop clears and the filter in use does not write (`myServer/src/main.cpp:546`): every row is the
  transform of zeros.
* A failed `fopen` of myServer uses up a name, one for every row it takes. About 36 such rows while the same image is announced hand its name out again
  (`IQWebSocketServer.cpp:340`): `NumSlots + MaxFailures < NumNames` is the exact bound, and with one failure more TLC finds `AnnouncedServable` violated. If the very first `fopen` fails the
  slot is not tried again and the program ends some rows later, at the first flush.
* With `--audio alsa` the recording has no end, and its header, computed in 32 bits, wraps after 2^32 bytes, that is after 13.5 hours (`WAVWriter.cpp:43`).
  `HeaderCovers` says so: without `Countable` TLC finds a header shorter than the file.
* A thread of cloudServer rewrites its `N.jpg` in place (`cloudServer/src/main.cpp:377`) whether or not it is the one announced last. It is when the nine others have
  given up their rounds since, and then clients are told to fetch a file that is being written.
* In the last ten seconds of an hour the slot is computed without carrying the hour (`cloudServer/src/main.cpp:163`): recording starts
  at once and is announced with a time an hour old. `LabelIsClose` says so; `HourGoesOn` keeps these seconds out of the other properties of FetchSchedule.
* The destructor of `IQWebSocketServer` does not return while a client is connected: its `on_open` waits for an image
  (line 105) that no longer comes, line 256 waits for `on_open`, and the notification that would wake it is line 259. It does not return either
  if the image thread tests `runImageThread` before line 257 and reaches its `wait` after line 258. `StopCompletes` says that it returns in every other
  case; without either of its premises TLC finds it violated. `ClientsHoldTheDestructor` proves the first of them.
* A click on stop pauses the radio, but the element goes on loading: when it runs out of data and gets some again it fires
  `canplay`, and the button offers to stop a radio that is paused. `AudibleIsShown` is the half that holds. Nothing listens to
  `ended` or `error`, so the button also stays as it is when the stream ends.
* `myServer/src/main.cpp:225` tests `_linux_`, line 15 `__linux__`; compilers define the latter. So `--audio alsa` records
  a WAV file, without end, since only the WAV branch is stopped after twelve seconds.
* After the first row seven eighths of the lower half of the window are never replaced (`IQWebSocketServer.cpp:221`); that is what `OldHalfStays` says.
* One recording thread has no second to spare (`EverySlot` above).

## 7. What is left out, and why

* Values: filter arithmetic, FFT, colours, JPEG contents, demodulation. The modules follow which sample,
  row or recording goes where.
* Wording and layout of messages and pages. `_queued`, `_queuePosition`, `_duplicate` only select a text.
* After undefined behaviour nothing is modelled: the state before it is what can be spoken about.
* The child of a `fork` whose `execl` fails would go on as a second server; it is left out, as is a
  failing `fopen` of `N.jpg.new`, after which libjpeg ends the process.
* AlsaStreamer is never constructed (section 6); LimeStreamer's methods are single library
  calls without state of their own.
* `fftw-3.3.9` is nearly all of the C in the repository: a vendored library of generated codelets, reached through
  `fftw_plan_*` and `fftw_execute`. What a transform computes is values (above), and it has no state the programs share.
* `myServer/include/hann*.hpp` are tables of numbers.
* What one line of cloudServer's image shows: lines 222-239 look for the first sample that is not silent, in the
  first 4096 only, since the offset they test starts at 44; 255-354 are mono, FFT and colours.
* The constructor's `catch` (IQWebSocketServer.cpp:135), after which the server has no `server`: nothing in the `try` throws
  unless memory runs out.

## 8. Plan

1. Publisher, notification and client in one model: CloudImages, CloudNotify and SpectrogramClient, for what a client is
   shown when notifications are lost between two announcements.
