# Verification of audio_player

TLA+ models of the concurrent core of `audio_player`, a player for mp3, aac
and m4a from the web, a file or flash, with TLC runs and TLAPS proofs. The
models are translated from the C sources; `PROJECT.json` maps every definition
to its lines.

## 1. The system

Every long-lived part is a thread driven by a table of *(event, state,
action)* rows (`common_fsm.c`), and the threads share byte buffers that have
no lock.

```
 application ──mutex──▶ audio_player ──calls──▶ common_player ──start/stop──▶ pcm_trans ──▶ ALSA
                         (machine)                   │  ▲                       (machine)
                            │                   start│  │output callback     request│callback
                            ▼                        ▼  │                          ▼
                        audio_file ◀──input── mp3/aac decoder ──▶ ring_buffer ──────┘
                            │                   (machine)        (one producer, one consumer)
                    common_buffer ◀──push── http_download ──▶ httpclient
                                              (machine)
```

### Inventory

| component | state | operations | interacts through | hard behaviour | what makes it correct |
|---|---|---|---|---|---|
| event group `src/common_event.c` | bits, mutex, condition variable | create, set, clear, wait (any bit, clear on exit) | called by everything below | one waiter is signalled per set; a timeout is not followed by a second look | a set bit ends the wait of somebody who waits for it |
| state machine `utils/common_fsm.c` | `cur_state`, request and acknowledgement groups, table | set_event (wait or not), clear_event, delete, the worker's loop | events; callers wait for the acknowledgement | bits taken together; one row runs, all are acknowledged; stale acknowledgements; clear_event under other callers; delete | an acknowledged call was served; after STOP the machine is idle; a freed machine is not used |
| ring `utils/ring_buffer.c` | `read`, `write`, bytes | push, pop, clear, counts | decoder pushes, pcm worker pops, without a lock | stale index of the other side, wrap around, full against empty | a bounded queue |
| download buffer `utils/common_buffer.c` | list of rings, two counts | push, pop, clear, counts | downloader pushes, decoder pops, without a lock | node appended or freed while the other side looks at it; failed allocation | a bounded queue; no freed node is used; a pop returns |
| pcm transport `src/pcm_trans.c` | machine IDLE/RUN/PAUSE/DONE, callback, no_data | start, stop, resume, register callback, poll | calls back into common_player | callback taken away while it is called; RESUME of two senders; clear_event in stop | requests only reach a live player |
| common player `src/common_player.c` | holder of the codec, ring, converter, flags | start, stop, pause, resume, seek, auto_resume, two data callbacks | see picture | three threads; teardown under running callbacks; both workers paused | no use after free; nothing lost at the end; playback ends |
| mp3 / aac decoder | machine IDLE/RUN/PAUSE, stream, output left over, input_done, output_done | start, stop, pause, resume, seek, poll | input, output, seek, error callbacks | ring full half way through a frame; PAUSE against RESUME; end of input; errors | pause and stop come to rest |
| audio player `src/audio_player_process.c` | machine IDLE/PLAY/PAUSE/BREAK, file, last_error | start, stop, pause, break, resume, seek, monitor, deinit | serialised by a mutex; drives common_player and audio_file | failure inside an action; deinit order; waiting for a playback to finish | the state says whether the codec is held |
| audio file `src/audio_file.c` | position, preread bytes, download | open, read, preread, seek, pause, resume, stop, close | reads the download buffer; restarts the download | restart from the decoder thread while the control thread stops; partial seek | bytes of the file at the position asked for |
| http download `utils/http_download_process.c` | machine with six states, positions, range, redirect, errors | start, stop, pause, resume, wait_buffer, polls | pushes to the download buffer | reconnection at a position; stop during connect; failed push | every byte pushed once |
| http client `utils/httpclient.c` | socket, parsed headers | connect, send, receive | called by http download | sequential | outside the models: a choice of outcomes |
| async task, audio queue, message queues | small queues | add/execute; push/pop/move; send/recv | no caller in the repository | unlocked add; destroy while a job is queued | jobs run once, in order |
| converter, direct buffer, id3, prompt flash | local data | pure functions and single-thread buffers | decoder, audio_file | rounding, end of stream | output for all input |

`PROJECT.json` lists each of them under `components` with what is modelled,
and under `hazards` the places where they can go wrong, with the properties
that would notice or the reason why none does yet.

## 2. The modules

| module | models | state and actions |
|---|---|---|
| `CommonEvent` | `common_event.c` | `event` is the word of bits; `phase` says where a thread is inside `pthread_cond_timedwait`. Each function is one critical section, hence one step; a wait is split where it gives the mutex up. `Signal` wakes any one sleeper. |
| `CommonFsm` | `common_fsm.c` | Two groups as instances of `CommonEvent`, `wpc` for the worker's loop, `pc` for each caller's place in `com_fsm_set_event`, `com_fsm_clear_event` (two steps) or `com_fsm_delete`. The table, the callers and the calls they make are constants. `served` is history: whether the request of the present call has been run. |
| `FsmTables` | the lookup tables | one sequence of rows per machine, with the states each action may return |
| `Fifo` | what a lock-free buffer promises | a queue and the last bytes read |
| `RingBuffer` | `ring_buffer.c` | `read`, `write` and the copy loops byte by byte; each side works from the index it read last |
| `CommonBuffer` | `common_buffer.c` | head, tail, next pointers, allocation and the two counts, store by store; the ring of a node is a queue, as `RingBuffer` shows |
| `Playback` | `common_player.c`, the tx half of `pcm_trans.c`, `mp3_decoder.c`, `aac_decoder.c`, the actions of `audio_player_process.c` | three threads: `ctl` (audio player's worker in its operation `op`), `decPc` (decoder in its poll), `txPc` (pcm worker in its request). The ring is a number of units and the machines are what `CommonFsm` shows of them. `track` holds how often the playback seeks and its codec: mp3, raw aac, or aac in an m4a file, whose table rows and poll differ. |
| `Players` | several `audio_player_process.c` and the codec they share: `g_pcm_trans_holder`, `pcm_callback` | each player's worker in its action (`wpc`, `op`), its decoder, the pcm worker, and an application that calls one player after the other (`app`), waits for the answer, and may wait for the end of a playback |
| `Download` | what a downloader promises its reader | the buffer as a queue of offsets, where the next is from, and how it ended |
| `HttpDownload` | `http_download_process.c`, and of `httpclient.c` what it answers | `wpc` is the worker's place in the machine's loop and in `http_download_proc_conn`, whose connect and send are steps of their own; `proc` holds the C fields; `cpc` is the controlling thread's place in `http_download_stop` and `_start_inner`; `received` lists the file offset of every unit pushed |
| `ByteFile` | what `audio_file.c` promises a decoder | a position, and what the last call gave |
| `AudioFile` | `audio_file.c`, `http_download_wait_buffer` | `call`, `rpc`, `want` and `got` are the reader's place in a read, preread, seek or size; the player's worker opens, pauses, resumes, stops and closes in between. Its downloader is `Download`. |

`MC...` modules give the constants values; `...Proofs` modules hold the
theorems. A definition marked *Fault* is the form a plausible bug would give
to the definition that follows it; each property is checked to notice one of
them.

Abstractions worth knowing:

- An action of a table row is one step in `CommonFsm`. `Playback` opens the
  rows that matter (the decoder's poll and the pcm request) at every access to
  shared state.
- A byte value is one of two; a unit of pcm in `Playback` has no value.
- libmad is a choice: a chunk of input gives a frame, nothing, or an error.
  The file is a number of chunks, and a read may fail. ALSA calls succeed or
  recover; they block only for a while.
- In `HttpDownload` a server's answer is an offset, a length and what its header
  says of ranges; it is read in blocks of the receive buffer and may break
  before any of them. Whether a file is asked for by range, served with ranges,
  chunked or redirected is part of the file.
- `Trouble` names what a run may assume away. It is a constant of `HttpDownload`
  and of `AudioFile`; section 3 says what each member does.
- `AudioFile` takes `http_download_stop` and `_start` as one step each, because
  `CommonFsm` shows that they return with the machine idle and the call served;
  the bits of `_pause` and `_resume` are taken later, in any order with the
  reader's steps. A byte is its offset in the file. A new start of the download
  by the reader is one step, so the stop of the player's worker comes before
  or after it and never in the middle. A read of a card's file is one step too.
- `Players` has of the pipeline what `Playback` shows of it: a decoder fills a
  ring of one unit, the pcm worker serves one event or one request in a step.
  An action of a player is cut where another player can get in between: at the
  test of the holder, at the registration, at the start and stop of the pcm
  worker, at the end of the decoder. A seek that is refused (`common_player.c:216-222`), after which a player goes on where
  it was, is in `Playback` only: here it would be a pause and a resume.
- Timeouts are choices. In `CommonFsm` the constant `Expiry` says for each
  event whether its wait (30 s) may end before the
  worker's answer: `"never"`, only when the machine has already taken the
  request (`"served"`: the wakeup went to another waiter), or at any time
  (`"slow"`: the action connects to a server).
- `Playback` lets a wait for RESUME expire only when nothing can answer it any
  more, and the 15 s for the first frame once the decoder's thread has taken its
  START, which a thread that is scheduled at all does in that time. START and STOP of the pcm
  worker, and STOP, PAUSE and SEEK of the decoder, are answered: their actions
  do not block, and the run `machines` shows that no older answer is taken for theirs.
- Memory is sequentially consistent. The buffers rely on it without saying so.

## 3. The runs

| run | question | bounds, and why they suffice | result |
|---|---|---|---|
| `event_group` | Does a set bit always reach a waiter? | three threads with a common mask of two bits and a third bit: the fewest with a signal that goes to one of several sleepers and leaves something over | holds |
| `machines` | Can the pcm machine be used by the controlling thread and the decoder at the same time? Are several pending bits of the downloader safe, when START may outlast its wait and PAUSE and RESUME do not wait? Do the player's serialised calls return after being served, and is its deletion safe? | three real tables, one chosen in the initial state; the threads that call each, the order each calls in, any number of calls | holds; the system stops when the machine is deleted, so deadlock is not checked |
| `ring` | Is the ring a queue? | three bytes, chunks and reads of one to three: every offset, wrap around, full, empty, pushes and pops cut short | holds |
| `buffer` | Is the list of rings a queue? | nodes of two bytes, capacity three, three addresses: a push spans nodes, a pop crosses one, an address is reused. `Burst = 1` is the scheduling assumption: the consumer is not preempted between the two tests of line 156 for as long as it takes to push a whole node (10240 bytes, five chunks of the downloader) | holds under it |
| `buffer_race` | And without that assumption? | `Burst = 3` | **violated**: bytes are lost |
| `playback` | Do the three threads of a playing player work together? | a ring of two units, frames of three, requests of two, the first of them of one; a file of up to one chunk with one seek per playback, so that two chunks can be decoded; mp3, aac and m4a; any number of playbacks, pauses and stops. A frame never fits at once, so a push is cut in two or three with a pause between; requests find the ring full, part full and empty. | holds |
| `playback_crash` | Is the callback of the pcm worker safe when it is loaded again for the call? | as `playback`, mp3 only, `LateLoad = TRUE` | **violated**: call through NULL |
| `http` | Does the reader get the file, and nothing else, whatever breaks? | blocks of two units, room for two of them, files of two and a half and three, so that ranges end inside the file, the last is shorter than asked for, the last block may be full or not, and a server without ranges waits for room; six servers; two failures of the network or of an allocation at START, as many as the retry limits; three calls out of start, seek, continue, stop, pause and resume | holds |
| `audio_file` | Does a decoder get the bytes of the file, wherever they come from? | a file of four bytes, a buffer of three, `AUDIO_FILE_HTTP_MAX_SEEK` and the header two, reads of one and three: a read is longer than the header, than the seek limit and than what is left; a seek goes to every place from every other, in the buffer and beyond it; any number of calls, files, pauses, failures, expired waits; `Trouble = {}` | holds |
| `audio_file_hang` | And if a file is stopped while it seeks forward? | as `audio_file`, web files, `"stop_in_seek"` | **violated**: the seek never returns |
| `players` | Do several players share the codec? | two players, as in the application; files of two units, so that one runs dry in the middle; six calls, enough for both to start, be interrupted, resumed and interrupted again | holds |
| `players_overlap` | And if a start outlasts its caller's wait? | three calls, files of one unit, `Slow = TRUE` | **violated**: a player stays in PLAY |

`playback` sets `LateLoad = FALSE`: the call uses the pointer that was
tested. It separates the other questions about the pipeline from the one flaw.
So do `Trouble` and `Slow`. What the runs assume away, and what happens with it:

| trouble | what it is | what it breaks |
|---|---|---|
| `"empty_range"` (`HttpDownload`) | RESUME asks for as many bytes as the buffer has room for (line 164); with a full buffer that is the range `p-(p-1)`, and the server ignores it and sends the whole file, as HTTP lets it. Since its `Accept-Ranges` is taken for a range (`httpclient.c:1015-1020`), the start of the file is pushed at `p` | `InOrder` |
| `"slow"` | a connect takes longer than stop waits (line 641 frees the url and clears `http_buffer` all the same) | `UrlOutlivesUse` |
| `"alloc"` | a push finds no memory for a node, and its result is ignored (line 351) | `InOrder` |
| `"error_body"` | an error page has a length; its status is never looked at (lines 262-263) | `InOrder` |
| `"stop_in_seek"` (`AudioFile`) | see `audio_file_hang` | `CallsReturn` |
| `"quick_resume"` | the file is resumed before the downloader has taken PAUSE: the two bits run the PAUSE row, RESUME is dropped (`http_download_process.c:559`), and the reader waits for a download that stays paused | `CallsReturn` |
| `"runs_on"` | a decoder that is paused already takes PAUSE together with a late RESUME: the RESUME row runs (`mp3_decoder.c:283`, `aac_decoder.c:392`) and both are acknowledged (`common_fsm.c:76-93`), so `com_player_pause` returns, and `audio_file_pause` closes the handle of a card's file (line 120) that the decoder reads and seeks in without looking (lines 319, 391). In the model such an `f_read` or `f_lseek` fails, as the FatFs calls they are named after would: the read is short before the end of the file, and one that gives nothing is taken for the end of an mp3 (`audio_player_process.c:28-37`). The shims of `os/typedefs.c` (lines 104-143) hand NULL to `fread` and `fseek` instead, and a close in the middle of a call frees what it uses. | `ImplementsByteFile` (`TypeOK`, `NothingOutlivesFile` and `CallsReturn` hold with it) |
| `Slow` (`Players`) | see `players_overlap` | `PlayEnds` |

Each of these was seen with TLC by adding it to the constant of the run.

### Properties

- `NoLostWakeup`, `SetBitEndsWait` (`CommonEvent`): a thread never sleeps on a
  set bit unless somebody is on the way to look. True of groups whose waiters
  share a mask, which is all of them but the acknowledgement groups; there the
  wakeup can go to the wrong caller, which then sits out its timeout.
- `AckMeansServed` (`CommonFsm`): a call that returns by an acknowledgement was
  served, not dropped. Stated for *owned* events: posted by one thread that always waits.
  RESUME of the pcm worker is not owned (two senders), PAUSE and RESUME of the
  downloader are not either (nobody waits).
- `StopQuiesces`: after STOP has returned, the machine is idle, although STOP
  may have been taken together with other bits of which only one row runs.
- `FreedUntouched`, `CallsReturn`, `DeletedIsFreed`: deletion and progress.
- `SidesApart` (the producer writes nothing unread, the consumer reads nothing
  unwritten), `ImplementsFifo` (`RingBuffer`), and
  `ImplementsFifo`, `NodesAreSafe`, `PopEnds` (`CommonBuffer`).
- `ConverterOutlivesUse`, `RequestIsSafe` (`Playback`): teardown under running
  callbacks. `NoTailLost`: the request reads the fill level before
  `output_done`, and still loses nothing of an mp3. (With aac and m4a, whose decoder
  does not pause before it sets `output_done`, the tail can be lost while `com_player_start` still
  waits for the first frame; nothing in the repository says that it may not, and
  the property is not stated for them.) `PlayerHoldsCodec`: the player's
  state agrees with the codec's after every operation, failed ones included.
  `PlayEnds`: decoder and pcm worker, each of which waits for the other to
  resume it, never both stay paused. `PauseQuiesces`: a paused player's decoder
  comes to rest although a late RESUME can make it drop PAUSE.
- `InOrder` (`HttpDownload`): what is pushed is the file from the position asked
  for, each unit once, over reconnections that may start at the position or at
  0. `FinishedIsComplete`: a reader that finds the download finished has the
  whole file (state and last error change in one step here, so a reader between the two stores is not seen). `UrlOutlivesUse`: the url and the buffer are there while a
  connection is made and used. `RangeFits`: a range is never larger than the room there was when
  it was asked for, so no connection is held open on a full buffer.
  `DownloadEnds`: once the network has stopped failing, a download that is read
  comes to an end or to a pause. `ImplementsDownload`: all of it together is the
  simple downloader that `AudioFile` reads from.
- `ImplementsByteFile` (`AudioFile`): wherever the preread header is cut by a
  read or a seek, wherever the buffer ends, and whatever fails in the middle of a
  read, the decoder gets the bytes of the file in order from the place it asked
  for. A card's file is an exception to "whatever fails": the claim is made for decoders
  that do not read or seek in it between its pause and its resume, which nothing in
  the code ensures (`"runs_on"` above). Web and flash files may be read while they are
  paused. `CallsReturn`: no read or seek hangs. `NothingOutlivesFile`: a closed file
  leaves no download, pending bit or open handle, although the decoder may have
  started the download again after `audio_file_stop`.
- `PauseQuiesces` and `NothingOutlivesFile` do not make up for that: the one says that a paused decoder comes
  to rest in the end, the other speaks of files that are closed for good.
- `PlayHoldsCodec` (`Players`): a player that says PLAY has the codec, and it
  alone. `CallbackAlive`: no request reaches a player whose decoder is gone.
  `PlaysToEnd`: a playback that ends by itself has played its own file, though
  what its monitor looks at, TX_DONE, is shared. `PlayEnds`, `CallsReturn`:
  every playback and every call of the application comes to an end.

### Fairness

`FairSpec` asks for weak fairness of steps only: a thread that can run does,
and a deadline passes. Nothing is assumed about commands: no START, STOP,
pause or seek has to come. In `CommonEvent` and `CommonFsm` a sleeper needs its
signal or its deadline; a spurious wakeup is possible and never relied on. In
`CommonBuffer` the two threads finish the operation they are in, but need not
begin another one. In `HttpDownload` the worker is scheduled, the controlling
thread finishes its call, and the reader pops while there is something to pop,
as the decoder does while it plays; failures are never fair, and bounded. In
`AudioFile` the reader goes on with the call it is in (`ReaderStep`, to which the
expiry of a wait belongs while the download runs or has failed, `WaitFails`; one
for a paused download need not expire) and the downloader takes its bits
(`TakesBits`); that bytes come is not assumed. In `Players` the
players' workers, the decoders, the pcm worker and the return of a call are fair,
new calls are not. No strong fairness is used.

Deadlock is checked where the system never stops. `machines` stops when the
machine is deleted; `http` and `players`, and `players_overlap`, when the bounded
calls have been made.

### Findings

1. `common_buffer.c:156`. The consumer tests that the head's ring is empty and
   then that the head is not the tail. The producer fills the emptied node and
   appends another one between the tests; the consumer frees a full node. The
   bytes are lost, the counts disagree with the list and a later pop may loop
   for bytes that do not exist. `audio_test.c:189-197` expects a web file read
   through this buffer to equal the local one.
2. `pcm_trans.c:85-89`. The pcm worker tests the callback and loads it again
   for the call; `com_player_stop` and `com_player_pause` take it away
   (`common_player.c:138, 175`) before they stop that worker. The test of
   `audio_test.c:232-246` restarts players that are playing.
3. `audio_file.c:381`. The loop of a forward seek in a web file ends only when all
   bytes have come. Once the download has been stopped, the wait succeeds at once
   (`http_download_process.c:683-686`), the pop gives nothing, and the loop goes
   round for ever; `com_player_stop` waits for its decoder. `audio_test.c:214-246`
   stops a web m4a file a second after its start.
4. `common_player.c:86`. The holder of the codec is tested long before it is set
   (line 128). A start that outlasts the 30 s its caller waits
   (`common_fsm.h:10`) overlaps with the next player's; both register, the pcm
   worker starts once, and when one of them stops the other never sees TX_DONE.
   `audio_test.c:239-246` waits for both to be idle.

Not findings, since no comment, document or test says otherwise, but modelled as
they are: the troubles in the table above; a seek back after the whole file was
read ends the playback; a RESUME whose connection fails leaves the download
paused; a failure to connect while receiving is never counted; a redirect's url
is copied without its terminator.

Seen while reading, and neither modelled nor listed as hazards, because they need
an exhausted heap, a failing card or a call that nothing in the repository makes:
`audio_file_open` frees the file without deleting the machine when the download
cannot be started (line 29); a START whose connection fails leaves its buffers
for the next one to allocate again (`http_download_process.c:80`); a resume whose
seek in a card's file fails leaves the handle open (`audio_file.c:151`);
`audio_player_get_progress` reads the file without the mutex (line 519); deinit of
a player that plays frees the mutex before the machine (line 367).

## 4. The proofs

All hold for every value of the constants that satisfies the module's named
assumption (`MaskAssumption`, `FsmAssumption`, `RingAssumption`, `BufferAssumption`,
`AudioFileAssumption`, `HttpAssumption`, `PlaybackAssumption`,
`PlayersAssumption`), which TLC evaluates in the runs. They ask only that sizes
are positive, that parts fit into wholes and that sets are subsets of what the
code distinguishes; files, buffers, players, calls and failures are as many and
as large as one likes; only the nodes of the download buffer have to be finitely many, as
a heap's are. Most types, the ring, the list of the download buffer and the whole of
`Playback` are proved as they stand; the other theorems name their hypothesis. `Slow` and the members of
`Trouble` are flaws of the code (section 3), which the passing runs leave out as well.

| theorem | of | hypothesis |
|---|---|---|
| `CommonEventProofs!TypeCorrect`, `CommonFsmProofs!TypeCorrect` | `TypeOK` | |
| `CommonEventProofs!WakeupsKept` | `NoLostWakeup` | `SameMask`: all wait for the same bits |
| `CommonFsmProofs!AcksAreHonest` | `AckMeansServed` | waits for owned events do not expire |
| `CommonFsmProofs!StopsStay` | `StopQuiesces` | `OwnerDeletes`, `StopWins`, `Controls(o)` for some caller `o` |
| `CommonFsmProofs!AcksStayHonest` | `AckMeansServed` | the same, and waits for owned events other than starts and STOP do not expire |
| `CommonFsmProofs!StopWinsEverywhere` | `StopWins` | the five tables of `FsmTables` |
| `CommonFsmProofs!FreedIsUntouched` | `FreedUntouched` | `OwnerDeletes`: only the thread that deletes a machine calls it |
| `RingBufferProofs!TypeCorrect`, `NeverCollide` | `TypeOK`, `SidesApart` | |
| `RingBufferProofs!RingIsFifo` | `ImplementsFifo` | |
| `CommonBufferProofs!TypeCorrect`, `NodesSafe` | `TypeOK`, `NodesAreSafe` | |
| `CommonBufferProofs!BufferIsFifo` | `ImplementsFifo` | `Burst < NodeSize`: fewer bytes than a node holds are pushed between the two tests of line 156 |
| `PlaybackProofs!TypeCorrect`, `ConverterStays`, `RequestsAreSafe`, `PlaysWithCodec`, `TailIsPlayed`, `DecoderIdlesAtStop` | `TypeOK`, `ConverterOutlivesUse`, `RequestIsSafe`, `PlayerHoldsCodec`, `NoTailLost`, `DecoderIdles` | |
| `PlayersProofs!TypeCorrect` | `TypeOK` | |
| `PlayersProofs!HolderPlays`, `DecoderOutlivesCallback`, `MonitorSeesOwnEnd` | `PlayHoldsCodec`, `CallbackAlive`, `PlaysToEnd` | `~Slow` |
| `AudioFileProofs!TypeCorrect`, `NothingIsLeft` | `TypeOK`, `NothingOutlivesFile` | `"stop_in_seek"` left out |
| `AudioFileProofs!FileIsByteFile` | `ImplementsByteFile` | `"stop_in_seek"` and `"runs_on"` left out |
| `HttpDownloadProofs!TypeCorrect`, `UrlStays` | `TypeOK`, `UrlOutlivesUse` | `"slow"` left out |
| `HttpDownloadProofs!ReceivedInOrder`, `FinishIsTheEnd` | `InOrder`, `FinishedIsComplete` | `Trouble = {}` |
| `HttpDownloadProofs!RangesFit` | `RangeFits` | `Trouble = {}` and `Capacity > 1` |
| `HttpDownloadProofs!DownloadIsImplemented` | `ImplementsDownload` | `Trouble = {}`, starts inside the file |

Each is proved from an inductive invariant. The properties themselves are seldom inductive; what has to be added
is where the design is.

- `CommonEventProofs`: `NoLostWakeup` is inductive with one more conjunct: a
  sleeper's mask is the one of its thread. A set signals a sleeper if there is one; the
  signalled thread takes all bits of the common mask.
- `CommonFsmProofs`: the property says nothing
  of what is inside the acknowledgement group, so the invariant `IInv` adds
  where an owned bit can be: pending, taken by the worker, or acknowledged, and
  each only while its owner waits in a call whose request has got exactly that
  far (`StageInv`); that the callers' waits agree with their calls (`CallInv`);
  and that the worker waits for every bit (`WorkerInv`). A stale
  acknowledgement would be an owned bit with nobody waiting for it. For
  `FreedIsUntouched`, once EXIT is posted nobody is in a call, and nobody can begin one:
  the deleter has not returned, or the pointer is gone (`ExitInv`). `OwnerDeletes` is
  true of the audio player's machine; a decoder has a second caller, the pcm worker,
  and `RequestsAreSafe` shows that it is stopped before the decoder is deleted.
- `CommonFsmProofs`, stops: one thread starts and stops the machine and waits for both
  (`Controls`), so the two are never taken together (`TakenInv`). Its wait for a start may expire,
  and then the start, or its acknowledgement, comes late; but the next start has to wait until a stop
  has returned, the late one is taken no later than that STOP (`PendInv`), and the clear after STOP
  removes what it left in the groups (`StaleInv`). In every state but the first the row of STOP
  precedes all others (`StopWins`), so what is pending beside it is dropped, and nothing but a
  start leaves the first state; from the end of a stop to the next start the machine therefore is in
  it (`StoppingInv`). The rows are data of the code, so `StopWinsEverywhere` is proved of the
  five tables themselves; `Controls` and `OwnerDeletes` are an ASSUME of `MCCommonFsm`, which TLC
  evaluates on the calls of the three machines. They make `AckMeansServed` true where a
  start may expire too, which `AcksAreHonest` leaves out.
- `RingBufferProofs`: the invariant
  `IInv` bounds what each side has claimed by what the indices allow now: the
  room a producer has seen only grows until it publishes, and the bytes a
  consumer has seen only grow until it releases them (`PushInv`, `PopInv`). The
  lemmas `Counts` and those on `Cell` replace the index arithmetic modulo the
  size by facts the steps use. For the refinement, the bytes copied but not
  published are in place after the write index, and what the consumer has
  copied is the front of the queue; both are part of the two invariants.
- `CommonBufferProofs`: the list is a sequence `L` of different nodes, and `ListInv` says that
  `head`, `next`, `tail` and `alive` are that sequence at every step of a push and a pop
  (`Chain`). `Path` and `Stored`, the functions that walk the pointers, are then the nodes of `L` and
  what they hold one after the other. This is an induction over the naturals, done with the
  well-foundedness of their order and a set in place of a predicate. `NodesSafe` follows, and
  needs nothing of the schedule. `BufferIsFifo` does: between the tests the head is
  either empty, or the only node with what was pushed since in it (`LastInv`), and with fewer bytes than a node
  holds nobody appends another. The counts lag behind what is stored by what either
  side has moved and not yet counted (`CountInv`), so a pop always finds the bytes it counted on. Put happens where
  a push counts its bytes, Take and Discard where a pop returns and Discard where the buffer is
  cleared; all else stutters, the release of a node included.
- `PlaybackProofs`: START and STOP of the pcm worker belong to the player that
  waits for them (`TxInv`); the codec runs from the acknowledgement of the one to that of
  the other, whatever step of `com_player_start` or `_stop` the player is in
  (`CodecInv`); the decoder exists and has a converter from its creation to its free,
  and its state follows from the bits that are posted (`DecInv`). RESUME, which both the
  player and the callbacks send, is the one bit the invariant says nothing of, but
  for the end of a file. There (`TailInv`) the hard case is the request that has
  counted no bytes and looks at `output_done` after the decoder has pushed some:
  `Overtaken`. To set `output_done` the decoder has to be resumed once more after that
  push, and only a later step of this very request resumes it, so `output_done` is still
  unset. This needs of the poll (`PollInv`) that an mp3 whose input has ended has nothing
  left in its hands. `LateLoad` may have either value: the crash that it
  allows is a step to `"crashed"`, which disturbs none of these properties.
- `PlayersProofs`: the application waits for each answer, so one action at a
  time is asked for (`ActionInv`), which is what `Slow` breaks; monitors run beside it.
  Whoever is between the test of the holder and its assignment has found it free and
  it still is (`HolderInv`); the callback is the holder's or of the one about to be
  (`CallbackInv`); TX_DONE means that the callback's player has nothing left (`PcmInv`).
- `AudioFileProofs`: the download stands at `read_pos` plus what it has buffered
  (`NetInv`), the handle, while it is open, at `read_pos` (`CardInv`); what the call has, what was preread after
  it and what is buffered are three adjoining runs of the file (`DataInv`), and a call that
  turns to the net has used up what was preread (`CallInv`). `Place`, the position of the
  refinement, is moved only by a return, a seek, an open or a close. A forward seek
  takes all it skips or nothing (`SkipInv`): that is what `"stop_in_seek"` breaks, where the pop
  moves the download and not `read_pos` (finding 3). With `"runs_on"` the invariant still holds, since a
  call on a closed handle moves nothing; what is lost is that a call in a card's file finds it open (`CardInv`),
  and with it that a short read is one at the end (`CallInv`), so the refinement asks for its absence.
- `HttpDownloadProofs`: `SafeInv` has the types, the calls (`CallInv`, in the manner of
  `Playback`), the counts (`CountInv`: an answer is read in whole blocks except for its last,
  which is why an offset in a block never passes its length) and `UrlOutlivesUse`.
  `DataInv` has the data: the next unit of the buffer is the one at `pre_position`
  (`PlaceInv`); a known length is the file's (`LengthInv`); an answer is of this file, from the
  position asked for, or from 0 if the server ignores ranges (`AnswerInv`); the block in
  hand is the part of the answer before its next one (`ReadInv`), and the machine stops reading
  only where the file or the answer ends (`EndInv`). `RangeInv` relates a range to the room there
  was. The refinement maps the buffer to the part of `received` after what was popped; the lemmas on
  `Run` make sequences of offsets intervals, and each step is a stutter (`QuietMaps`), a push
  (`PushMaps`), a change of mode (`WorkMaps`) or a call (`CallsMap`).
  The hypotheses: each member of `Troubles` breaks one of the properties (table in section 3). With a buffer
  of one unit the first request would be for `0-0`, and the client leaves out an end
  that is not positive, so the whole file is asked for: `RangeFits` needs
  `Capacity > 1`. A start behind the end of the file is a download that is past
  the length it then learns; `Download` has none, and `audio_file.c` asks for none.

Only model-checked: every liveness property (`SetBitEndsWait`, `CallsReturn`,
`DeletedIsFreed`, `PopEnds`, `PlayEnds`, `PauseQuiesces`, `DownloadEnds`), since liveness under
fairness and ENABLED are out of the prover's reach. Every invariant and every refinement
that a passing run checks is proved, under the hypotheses above.

No module declares a RECURSIVE operator.

## 5. Not modelled

- ALSA, faad2, libmad and libsamplerate are vendored; they are more than nine
  tenths of the lines of the repository, tables most of them.
- `httpclient.c` is a sequential protocol parser; `HttpDownload` has its results.
  A server that sends ranges in chunks is left out: that download never finds its
  end by length. The states CONN, which no action returns, and IDLE after a failed
  first connect are as in the code.
- `async_task.c`, `audio_queue.c`, `audio_message_queue.c` and `common_queue.c` have
  no caller in the repository: neither the threads that would use them nor what
  they expect is known. The same goes for the rx half of `pcm_trans.c`,
  `audio_player_get_progress` and `com_fsm_set_poll`.
- `samplerate_convert.c`: what a call uses of its input is decided inside
  libsamplerate. In `Playback` the converter exists or does not.
- The contents of files: id3 and m4a parsing, type detection, where a seek goes
  (anywhere), the input buffer of raw aac, the garbage that is decoded after the
  last m4a sample.
- Logging, progress arithmetic, the read-only prompt images.
  `pcm_preprocess.c` is compiled out.
- Failures of the heap, except for the nodes of the download buffer. Memory
  ordering weaker than sequential consistency.

## 6. Plan

Done, in this order: `CommonEvent`, `CommonFsm` with `FsmTables`, `Fifo` and
`RingBuffer`, `CommonBuffer`, `Playback`, `HttpDownload`; then `Download` and
the refinement of it, `ByteFile` and `AudioFile`, `Players`, aac and m4a in
`Playback`.

Proofs: `CommonEvent`, `CommonFsm`, `RingBuffer` with its refinement, then `AudioFile`
with its refinement, `Players`, `Playback`, `HttpDownload` with its refinement,
`CommonBuffer` with its refinement, and the stops of `CommonFsm`.

Of the safety properties nothing is left to prove. What would extend the model is in section 5:
the client of the HTTP protocol first, whose chunks `HttpDownload` takes as results.
