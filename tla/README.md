# TLA+ models of android_vendor_sprd

The repository is the vendor part of an Android system for Spreadtrum phones:
user-space daemons, hardware abstraction libraries, some kernel drivers, and
binary blobs. Most of it is device I/O, tables and vendored code. The parts
with a logic of their own, where several threads or processes share state and
power may fail, are small. This project models those, checks the models with
TLC on small instances, and proves the most important properties with TLAPS for
every instance.

1. [Inventory](#1-inventory)
2. [Modules](#2-modules)
3. [Model and code](#3-model-and-code)
4. [Runs](#4-runs)
5. [Fairness](#5-fairness)
6. [Proofs](#6-proofs)
7. [What the models leave out](#7-what-the-models-leave-out)
8. [Plan](#8-plan)

## 1. Inventory

### nvitemd (`open-source/apps/nvitem`, installed as `cp_diskserver`) - modelled

The daemon that keeps the modem's non-volatile items. The modem sends requests
over a shared-memory pipe; the daemon stores them in image files, two per
partition (fixnv and runtimenv).

| part | state | operations |
|---|---|---|
| `nvitem_buf.c` | per partition three RAM copies `fromChannel`, `backup`, `toDisk`, each with a dirty bitmap | `initBuf`, `writeData`, `_markDirtyInfo`, `backupData`, `restoreData`, `__getData`, `saveToDisk` |
| `nvitem_server.c`, `nvitem_os.c` | one mutex, one condition variable, two threads | `main` (receiver), `pSaveTask` (saver), `giveEvent`, `waiteEvent` |
| `nvitem_fs.c` | two files per partition: a header with a checksum, and the data | `ramDisk_Read` (with repair), `ramDisk_Write` |
| `nvitem_packet.c` | group and index of the packet expected next | `_getPacket`, `_sendPacktRsp` |
| `nvitem_sync.c` | `_syncState`, `_syncBusy`, the frame counter, the sectors to come | `syncAnalyzer` and its token functions |

Interaction: the receiver parses packets and changes `fromChannel`; a complete
request is copied to `backup` and the saver is signalled; the saver copies
`backup` to `toDisk` and writes the two files. In calibration mode the receiver
saves by itself, before it answers.

Hard behaviours: the two threads interleave; a signal may be lost; the process
is killed with the modem, and power fails, between any two writes; packets are
lost, repeated, or a request is abandoned half-way; a file call may fail.

What makes it correct: one good image at every instant; a request reaches the
disk as a whole or not at all; an acknowledged request is committed; a dirty bit
is never lost; what is durable is not undone.

### Message threads of the camera HAL (`modules/libcamera/common/src/cmr_msg.c`) - modelled

Every part of the camera HAL runs on threads made here: a ring of slots under a
mutex, a counting semaphore for the messages, one semaphore per slot for callers
that wait. Operations: `cmr_thread_create`, `cmr_thread_msg_send`,
`cmr_msg_post`, `cmr_msg_get`, `cmr_common_routine`, `cmr_thread_destroy`.

Hard behaviours: posters touch their slot again after they have released the
mutex; the slot is free as soon as the message is taken, while the thread still
reads from it; the ring wraps and fills; destruction races the thread.

What makes it correct: the ring is a queue, the counter and the semaphore agree,
a caller waits for what its `sync_flag` says and for nothing else, and every
call returns.

### modem_control (`open-source/apps/modem_control`) - NV hand-over modelled, boot and watching partly

Loads the modem (CP), watches its assert and watchdog devices, tells modemd.

| part | state | operations |
|---|---|---|
| `nv_read.c` | none of its own: the two images of nvitemd's partitions | `read_nv_partition`: read both images, rewrite a bad one from the good one, hand the content to the modem |
| `modem_control.c`, thread `detect_sipc_modem` | `client_modemd`, `rfds` | accept modemd, wait for the first boot, "Modem Alive", then one message per device event |
| `modem_control.c`, thread `modem_ctrl_listen_thread` | `sem_first_boot` | first boot, `load_sipc_modem_img`, `wait_for_modem_alive`, `prepare_reset_modem` |

### modemd (`open-source/apps/modemd`) - partly modelled

Starts what depends on the modem (phoneserver, rild, nvitemd) when it is alive,
stops it when the modem dies, and orders the reload. Threads:
`detect_modem_control` (the socket to modem_control), `start_modem`,
`detect_modem_blocked` (phoneserver's reports). State: `modem_alive` with
`aliveCond`, `sp_modem_state`, the services themselves.

Hard behaviours of the two: messages without framing, read several at a time;
threads that give up for ever after a timeout; `select` on a set it has
overwritten; either process may end and is started again by init, but the other
one does not notice; a modem that dies at any moment, also while it is being
started; two programs on the same image files with nothing between them but
the order of these messages.

What makes them correct: the images are read and repaired only while nvitemd is
stopped; modem and nvitemd start from the same NV data; a modem that runs is not
loaded again; its services are started when it is alive, and stopped when it
dies; both devices are watched.

### wcnd (`wcn/platform/wcnd`) - partly modelled

The daemon that powers the connectivity processor CP2 for Bluetooth, WiFi and FM.

| part | state | operations |
|---|---|---|
| `wcnd_sm.c` | `state` (STOPPED, STARTING, STARTED, STOPPING, ASSERT), `btwifi_state`, `saved_btwifi_state`, `pending_events`, `notify_enabled` | one handler per state |
| `wcnd.c`, client listen thread | `clients`, the socket pair for self commands, `doing_reset`, `is_cp2_error` | accept, read, dispatch; start, stop, reset of CP2 |
| `wcnd.c`, CP2 listen and loop check threads | the same two flags | notice an assert, a watchdog reset, a CP2 that does not answer; report it |
| `wcnd.c`, boot thread | | power CP2 on once and read its version |
| `wcnd_cmd.c`, `wcnd_download.c` | | commands, `wcnd_before_reset` |

Hard behaviours: requests that arrive while CP2 starts, stops or is being reset;
answers that are broadcast by type of connection; failures reported by other
threads while a start or a reset ends; flags set by one thread and cleared by
another; events kept for a later state.

What makes it correct: every command is answered; a user whose open was answered
OK has power until it closes; the machine never waits for an event that nobody
sends; a dead CP2 is noticed and reset.

### Not modelled

`PROJECT.json` lists every component with the reason. In short: kernel drivers
(`wcn/wifi`, `modules/libgpu`) need the kernel's side of every interface;
`dhcp6`, `radvd`, the codec frameworks and libbt are vendored; the camera HAL
above the message threads and the audio HAL are very large and device-bound;
`engmode`, `slog`, `slogmodem`, `charge` and the other tools are command tables,
I/O and drawing; `proprietaries` holds binaries.

## 2. Modules

| module | what it is |
|---|---|
| `NvStore` | buffers, saver and disk images of nvitemd, with crashes and faults; the requests are left open |
| `NvSync` | packets and analyzer, EXTENDS `NvStore`: every step of the receiver is one that `NvStore` allows |
| `NvBoot` | `read_nv_partition` of modem_control, EXTENDS `NvStore`: two programs on the same images |
| `Modem` | modem_control, modemd, the socket between them and the modem |
| `WcndSm` | the state machine of wcnd: one operator per handler |
| `Wcnd` | the threads of wcnd, its clients and CP2, EXTENDS `WcndSm` |
| `CmrMsg` | the message threads |
| `MsgQueue` | abstract specification: a bounded first-in first-out queue |
| `MCNvSync`, `MCNvBoot`, `MCModem`, `MCWcnd`, `MCCmrMsg` | values of the constants for TLC |
| `NvStoreProofs`, `NvSyncProofs`, `NvStreamProofs`, `NvBootProofs`, `ModemProofs`, `WcndProofs`, `WcndUserProofs`, `CmrMsgProofs` | theorems and proofs |

Refinements: `NvSync` implements `NvStore` (`StoreSpec`, the store's variables
mapped to themselves: the abstract specification leaves open which request is
begun, continued, completed or aborted, the detailed one decides it from packets
and tokens). `CmrMsg` implements `MsgQueue` (`QueueSpec`, the queue being the
slots from `msg_read` on, `msg_number` of them).

Compositions: `NvBoot` is nvitemd together with modem_control's use of its
images, under the condition that nvitemd is stopped then; `Modem` shows where
this condition comes from (`NvQuiet`), and when it fails.

Definitions that follow the words `\* Slip:` are plausible mistakes in the
operation that comes after them. No specification uses them: they serve to show
that a property notices the mistake (`mutants` in `PROJECT.json`).

## 3. Model and code

### NvStore

| TLA+ | code |
|---|---|
| `fromData/fromDirty`, `bakData/bakDirty`, `toData/toDirty` | `_RAMNV_BUF_CTRL` `fromChannel`, `backup`, `toDisk`: data as a function of the sector, the bitmap as a set of sectors |
| `image[p]["main"]`, `image[p]["bak"]` | `image_path`, `imageBak_path`: complete, or `Missing`, `Torn` (truncated, short), `Corrupt` (checksum) |
| `pc`, `at`, `ret` | where each thread is, the loop index over the partitions, `ret` of `ramDisk_Write` |
| `reqPart`, `win` | `_id`; `_start` and `_len`, as the set of sectors still to come |
| `MainFirst` | the outcome of `rand()%2` for each partition. `rand()` is never seeded, so it is the same at every start: a constant |
| `BootRead`, `BootFix`, `BootFixWrite` | `initBuf` with `ramDisk_Read` up to its repair, the truncating open of the repair, its write |
| `SyncHead`, `SyncBody`, `SyncData`, `SyncDone`, `SyncFail` | what the analyzer does to the buffers: a head, `_markDirtyInfo`, `writeData`, `backupData`, `restoreData` |
| `SyncSignal`, `SpuriousWake` | `giveEvent` (no effect unless the saver waits), `waiteEvent` returning with no signal |
| `SaveCheck`, `SaveGet`, `RamDiskWrite`, `SaveClear` | the loop of `saveToDisk`, `__getData`, open and write of each image, the clearing of `toDisk.dirty` |
| `Crash`, `Decay` | environment: the process dies and starts again; a stored image goes bad |

One action is one critical section, or one system call on an image, so that the
other thread and a crash fall between any two. A file before its `fsync` may
hold the old content, a torn one or the new one after power loss: those are the
states before the open, between open and write, and after the write, at each of
which `Crash` is enabled.

Ghost variables: `bakVer`, `toVer` and the `ver` of an image number the commits
(up to `MaxCommits`, where they saturate); `floor` is the commit known to be
durable; `faulted` collects the kinds of fault that have happened.

### NvSync

A packet is a sequence of items: tokens (head, body, tail), sectors, and tokens
cut in two by the end of a packet. One action is one turn of the inner loop of
`syncAnalyzer` (`TokenHead`, `TokenBody`, `Data`, `TokenShort`), one packet
(`GetPacket`, with the cases CONTINUE, START and SKIP), a failing channel
(`ChannelFail`) or the response to the tail (`Answer`). The modem and the pipe
are not in the repository; they are the most general peer that sends well-formed
requests in order: it may stop at any packet and begin a new group, and the
channel loses or repeats packets. Group numbers start again nowhere and are
bounded by `MaxGrp`. `cur`, `rsp` and `done` are ghosts: the packet in hand, the
last response, the groups committed. So are `past` (where in the stream of its
request a packet ends) and `sec` (the sector a piece of data belongs to): the
analyzer has to get both right without seeing them. `WellFormed` says what a
request of the modem is: a head, bodies each followed by their sectors in
ascending order, a tail, any of the tokens cut in two; later sectors may
overwrite earlier ones.

The inverted test at `nvitem_sync.c:101` is modelled as it is written.

### NvBoot

| TLA+ | code |
|---|---|
| `hand`, `cur`, `held` | where `read_nv_partition` is, its partition (fixnv, then runnv), the buffer it will write to the modem |
| `HandStart` | `load_sipc_modem_img` reaches its calls; only with nvitemd stopped |
| `HandRead` | both images read and checked; a missing one ends the call |
| `HandFix` | the switch on `status`: a bad image is rewritten in place, in one step because there is no truncating open and the state between is again a bad image |
| `HandGive` | `write(out_handle, ...)` |
| `Load1` | nvitemd's `initBuf` reading that partition afterwards |
| `Halt` | nvitemd is killed or power fails: both programs begin again |

`given` is a ghost: what the modem has got in this boot.

### Modem

`cp` is the modem, `dev` the two devices. The socket is `link` (no connection,
waiting to be accepted, accepted, closed by modemd), `up` the set of messages
not yet read (a `read` takes them all, and `strstr` decides which one counts),
`down` the first message to modem_control not yet read (`strcmp` sees only that
one). Each thread has a program counter (`detect`, `listen`, `ctl`, `main`,
`blk`); one action is what a thread does up to its next blocking call or shared
variable. `watch` is `rfds`. `Exit` is modemd ending in `send_atcmd`, after which
init starts it again; `Restarted` is modem_control ended by SIGPIPE. `mishaps`
remembers a boot that took too long and such a restart, `state` is
`sp_modem_state`.

### WcndSm and Wcnd

The five operators `Stopped`, `Starting`, `Started`, `InAssert`, `Stopping` are
the five `wcn_state_cp2_*` functions. `sm` holds the machine's fields of
`WcndManager`, `conn` its table of clients with the command each has sent
(`unread`) and still waits for (`ask`), `selfq` the socket pair. `on` is a
ghost: users whose open was answered OK and that have not asked to close.

`Wcnd` has the client listen thread as rounds of `select` (`Round`, `Read...`),
the dispatch of self commands (`Self...`, one at a time: `todo` is what one read
returned) and the long operations in their steps (`Opened`, `StopEnds`,
`Recovered`, `Rebooted`, `Up`, `Down`), between which the other threads run:
`Listen` (`cp2_listen_thread`), `Loop` (`cp2_loop_check_thread`), `Main`
(`store_cp2_version_info`). `doing` and `err` are `doing_reset` and
`is_cp2_error`. A notification that reaches a client which waits for an answer
to a command not yet read counts as the answer, because the client cannot tell
them apart.

### CmrMsg

`msg`, `syncF`, `sem` are the slots; `write`, `read`, `number` and `msgSem` the
fields of `cmr_msg_cxt`. `Enqueue` is the critical section of `cmr_msg_post`,
`Signal`, `CheckFlag` and `Wake` what follows it without the mutex. `Fetch`,
`Take`, `ReplyReceived`, `Process`, `ReplyProcessed` are a turn of
`cmr_common_routine`. `Create`, `PostInit`, `Destroy`, `PostExit`, `Free` are
`cmr_thread_create` and `cmr_thread_destroy`. Ghosts: `stage` says what became
of a caller's last synchronous message, `overtaken` that a slot was filled again
before its poster had returned, `refused` and `orphaned` what happened to EXIT.

## 4. Runs

| run | asks | bounds | result |
|---|---|---|---|
| `NvBoot` | nvitemd and the boots of the modem on the same images, killed or without power at any step: is a good image left (`OneGoodImage`), are losses marked (`LossBounded`), does a start never go back (`NoRollback`), do modem and nvitemd start from the same data (`SameNv`), are dirty partitions saved although signals get lost (`TrafficSaves`), and what can the draw of the backup image lose (`LostOnlyOverStaleMain`)? | 2 partitions, one read main first, the other backup first; 1 sector, 2 values, commits numbered to 1 | holds (577,318 states) |
| `NvBoot_cali` | the same in calibration mode, with all faults of nvitemd's file calls and images that go bad: is the answer given after the save (`CaliSynchronous`), are copies of one commit (`WholeCommits`)? | 1 partition, 2 sectors, 2 values, commits numbered to 2 | holds (745,571) |
| `NvSync_lossy` | are only whole requests committed (`CommitsWholeRequest`), does the answer mean a commit (`AckMeansCommitted`), do data go into the sector they were read from, never a token in their place (`Aligned`), are all differences marked and copies of one commit (`Coverage`, `WholeCommits`), does the receiver implement the store (`StoreSpec`)? | 2 requests (groups), 4 kinds of request, packets of 1 or 2 items, 1 packet in flight, loss, repetition, crashes; 2 sectors | holds (2,489,505) |
| `NvSync_split` | "wait for continuous information": a token cut by a packet | 1 request, nothing lost | **violated** |
| `Modem` | are the images read only while nvitemd is stopped (`NvQuiet`), is a running modem left alone (`LiveUntouched`), is one that stays up served (`AliveServed`), does a death stop its services (`DeadStops`)? | 5 deaths of the modem, each of any kind, 2 exits of modemd, restarts of modem_control, all flags | holds (121,576) |
| `Modem_events` | "listen assert and WDG event" | 2 deaths, nothing else | **violated** |
| `Wcnd` | is nothing waited for in vain (`NeverWaitsInVain`), do users keep their power (`OpenMeansPowered`), is every command answered (`RequestsAnswered`), is a dead CP2 noticed (`DeadNoticed`)? | 2 users on 2 connections, one of which also resets and dumps; 5 commands and no failure, 3 and 1, 2 and 2, and the start of wcnd with its boot thread | holds (551,701) |
| `Wcnd_shutdown` | "pending events that will be handled in next state" | 3 users, 5 commands, no failure | **violated** |
| `Wcnd_assert` | "handle the cp2 assert: ... reset cp2" | 1 user, 1 failure | **violated** |
| `CmrMsg_ring` | counter, semaphore and ring agree, slots are not overwritten early, the ring is a queue | 3 slots, 2 posters and an owner | holds |
| `CmrMsg_live` | every call returns, and as its flag asks (`CallsReturn`, `HonouredInTime`, `NoOrphan`) | 2 slots, all flags | holds, unless a slot is reused too early |
| `CmrMsg_syncflag` | the comment of `sync_flag`, with no exception | 2 slots | **violated** |

Why the bounds are enough. Two sectors show a half-written request and an
unmarked one; two partitions show the loops, their indices, a different read
order in one state, and a modem boot between the two; commit numbers to 2 show
an old, the current and a newer image. Two groups show a request that ends
another. Three slots let the ring wrap with one message inside and one in hand;
two posters and the thread make the three parties that the slot-reuse hazard
needs. Deaths of the modem are needed while it is watched, while its services
are being stopped or started, and so that one meets the messages of another;
four of them, with an exit of modemd, are what it takes before a modem_control
that has been restarted reads events of the time before, twice. Five commands let one user open, close and open again around the stop that
another one causes; two failures let CP2 die again while it is being reset. The
theorems of section 6 remove the bounds for the properties they cover.

Deadlock is not checked where the system may stop: the modem may send nothing
any more (`NvSync`), `Wcnd`'s clients may have nothing to ask, and in `Modem`
every thread may wait for ever after a restart that the other process does not
notice.

### The violations

- **Cut tokens.** `nvitem_sync.c:101` returns exactly when there is a part to
  keep. The first half is dropped, answered 1, and the next packet is parsed
  from the middle of a token and refused.
- **sync_flag.** `cmr_msg.c:305` reads the slot's `sync_f` after the mutex and
  the `sem_post`. If the thread takes the message and another poster fills the
  slot before that, an asynchronous caller waits for a stranger's answer, or a
  synchronous one returns at once and leaves its answer in the slot's semaphore,
  where it releases a later caller too early. `HonouredInTime` shows that this
  reuse is the only cause.
- **Pending events.** `wcnd_sm.c:547-569` collects opens that come while CP2
  stops in `pending_events`, to be taken over in STOPPED (`wcnd_sm.c:207-216`).
  The run shows an open that is handled between the stop and its
  `PENDINGEVENT`: CP2 is already STARTING when the pending event is handled, so
  the pending user gets its OK but not its bit in `btwifi_state`, and the other
  user's close shuts CP2 down under it. Besides, nothing ever clears
  `pending_events`, so a later stop (`wcnd_sm.c:584`) may start CP2 for a user
  that has long closed. `OpenMeansPowered` is therefore stated while
  `pending_events` is empty.
- **Dropped reset.** `wcnd.c:1185` and 1279 clear `doing_reset` and, a few lines
  later, `is_cp2_error`. An assert reported between the two puts the machine into
  ASSERT, but its reset is skipped because the error flag is clear
  (`wcnd_cmd.c:381`). Opens then wait for the end of a reset that is not coming.
  A dump asked for during the boot gets there without any failure: the loop check
  thread starts with the error flag set and reports an assert (`wcnd.c:2203`).
  `RequestsAnswered` therefore leaves the state ASSERT out.
- **Lost device events.** `modem_control.c:1028-1030` fills `rfds` before the
  loop and `select` overwrites it. After an assert the watchdog is not watched;
  the reset that `prepare_reset_modem` itself provokes raises its event, which
  nobody reads, and the modem is never loaded again.

One more divergence has no violation run. The comment at `nvitem_fs.c:249-254`
reads the main image first, then the backup, and "3 fix imagePath";
`nvitem_fs.c:272` draws the order by `rand()`, which is never seeded. On the
draw of the backup a good backup ends the function, and a main image that a
crash has left torn or stale stays so until the next save, which truncates the
backup first. `OneGoodImage`, `LossBounded`, `NoRollback`, `SameNv` and
`CaliSynchronous` are therefore stated for partitions whose draw agrees with the
comment (`MainFirst`). `LostOnlyOverStaleMain` speaks of both draws and confines
the harm: that truncation, over a main image left behind by a crash, is the only
step that makes the next start load an older commit than one known to be
durable, or none. Without its exception it is false, by a crash between the
writes of the two images and another one in the next save.

### What the properties leave out

Some properties hold only under a hypothesis that takes away a part of a hazard.
Except for `ctl.stop`, the models have the steps in question; the code gives no
promise about them that could be checked.

- `OneGoodImage`, `LossBounded`, `NoRollback`, `SameNv`, `CaliSynchronous`:
  partitions that draw the main image, and executions without faults (the code
  truncates the main image even if the backup could not be written). For the
  other draw there is only `LostOnlyOverStaleMain`, which excepts one step.
- `NvQuiet`, `SameNv`: `ctl.stop` is taken as immediate (section 7).
- `NoOrphan` excuses an EXIT that a full queue has refused: the queue is then
  freed under the thread. It says that there is no other way to it before a slot
  is reused too early.
- `OpenMeansPowered` says that a user that was answered OK is counted and has
  power. It does not say when CP2 goes off: a close during a start, or a start
  that fails, leaves bits behind that keep CP2 on.
- `RequestsAnswered` covers four of the five states; connections may wait in
  ASSERT, because of the dropped reset above.
- `AliveServed` covers the listening thread that gives up after 200 ms, not the
  one that gives up after 8 s (`mishaps`), after which nobody reports the modem.
- `DeadStops` speaks of the first death only, with both devices watched.

## 5. Fairness

`NvStore!Fairness`: weak fairness of the start-up, of `SyncSignal` and of each
thread's save steps: the threads are scheduled and file calls return. `BootSpec`
states the same for the steps as `NvBoot` guards them, and adds modem_control's
hand-over to the start-up. Nothing is assumed of requests, faults, crashes and
spurious wake-ups; `TrafficSaves` has "infinitely many signals" as its
hypothesis, because without new requests a lost signal is never repeated.

`Modem!FairSpec`: weak fairness of each thread of the two processes, as a whole
(it has one enabled step, and is scheduled), and of `Boots`: a modem that was
started answers. Deaths, reports, exits and boots that take too long are left
out. The hypothesis of `AliveServed` is that the modem stays up.

`Wcnd!FairSpec`: weak fairness of the four threads, nothing of clients and CP2;
the file and driver calls return, with success or without.

`CmrMsg!Fairness`: weak fairness of the message thread (the callback returns) and
of each caller inside `cmr_msg_post`; a semaphore wait is enabled only when it
can succeed. Posting, creating and destroying are the users' and not fair.

## 6. Proofs

All hold for every value of the constants that satisfies the named assumptions
of the modules.

**NvStoreProofs.** From `PartNum > 0`, sectors that are integers, a boolean for
each flag, and no spurious wake-up in calibration mode.
`TypeCorrect`: types, and `Control`, which says which thread may be where.
`CoverageCorrect`: `Coverage` becomes inductive with `Marked` (the sectors still
to come of an open body are marked). `OneGoodImageCorrect`,
`LossBoundedCorrect` and `NoRollbackCorrect` rest on `ImagesInv`: for each step
of the start-up and of the save, what each image of the partition at hand holds
(for instance: while the backup is open, the main image is good and differs from
`toDisk` only in `toDisk.dirty`; while the main image is open, the backup equals
`toDisk`). The properties themselves are not inductive: a good image now says
nothing of which one is truncated next. The frame lemmas say that the other
partitions do not change.
`WholeCommitsCorrect` rests on `CommitInv`: no copy of a partition is newer than
`ncommit`, and copies with the same number below `MaxCommits` are equal, so that
a commit, which takes the next number, meets no copy of its own. The proof says
of each step which copies it makes of which (`NextCopies`), so that faults, a
truncated image or a crash are one case each and need no look at `ImagesInv`.
`CaliSynchronousCorrect` rests on `ImagesInv` and on `CaliInv`: in calibration
mode the sync thread is in saveToDisk whenever a partition is dirty, at that
partition or before it.

**NvSyncProofs.** `Implements`: a step of the receiver is a step of `NvStore` or
leaves the store alone; `ReceiverKeepsImages` carries the image guarantees over.
`ReceiverWholeCommits` carries `WholeCommits` and `CaliSynchronous` over.
`AckCorrect`: a response 1 to the last packet means a commit, for requests whose
tail is a token by itself and at the end (`WholeTails`). The invariant says that
what is left of a packet with `end` set still contains its tail until that
request is committed or the packet is dropped. Without `WholeTails` it is false,
by the cut-token finding.

**NvStreamProofs.** `AlignedCorrect` and `CommitsWholeRequestCorrect`, for any
set of well-formed requests, any number of packets in flight and any loss,
repetition, abandoned request or restart. `StreamInv` gives each packet its place:
a packet, sent or in hand, is the slice of its request's stream that ends at
`past`, and whatever bears the next index in its group, another packet or what
the modem sends next, begins there (`Chained`); so the receiver, which compares a
group and an index only, never skips an item without dropping the request.
`FillInv` says what fromChannel holds meanwhile: the last commit with the items
up to there written over it (`Latest`), the sectors to come are those of the data
that follow, and the other partitions are as committed. Both parts are needed at
once for `Data`; TLC has checked them on the instance of `NvSync_lossy`, and, as
far as it came (20 million states), with two packets in flight, three groups and
a request that writes a sector twice.

**NvBootProofs.** From the same assumptions. A step of `NvBoot` is a step of
`NvStore`, leaves nvitemd alone, or is the repair `HandFix`; the lemma
`FixInvariant` shows that the repair keeps the invariant of `NvStoreProofs`, so
that `BootKeepsImages` and `BootNoRollback` follow from that proof without a
second look at nvitemd's steps; `BootWholeCommits` and `BootCaliSynchronous`
follow in the same way (a repair copies one image to the other). `SameNvCorrect` needs `HandInv`: nvitemd is
stopped while modem_control works, what it holds is what the two images would
give at that moment, and what it has given is the main image until nvitemd
reads it.

**ModemProofs.** For any number of deaths and exits. The news that the modem has
been reset is a token: it is in the device, in the socket to modemd, in the
hands of modemd's thread or in the socket back, in one of them at most, and the
modem is down as long as it exists (`OneToken`). From the moment modemd passes
it back until the load has ended, the services are stopped and no step of theirs
is on the way (`NoStart`): `NvQuietCorrect`. The token is consumed by the load:
`LiveUntouchedCorrect`. Both hold until modem_control is restarted, which leaves
the token where it is and starts the modem all the same.

**WcndProofs.** For any users and connections, any commands and any number of
failures. `TypeCorrect`: every command in the socket pair is one that some branch
knows. `NeverWaits`: in STARTING and STOPPING the self command that ends the wait
is queued, read or being executed; the case that is not obvious is a reset that
is dispatched in between, whose end is the very event the machine waits for.

**WcndUserProofs.** `OpenUsersPowered`: `OpenMeansPowered` for any users,
connections and commands (TLC checks two users and two connections with five
commands). The property says nothing of the commands on their way, so the
invariant `CalmInv` has four more parts. `Control`: while nothing has failed the
error flag belongs to a dump, and no reset is made, so that saved bits are left
only in ASSERT. `OneJob`: there is one start or stop at a time, from the moment
it is queued to the moment its end is told, and the machine is in the state that
asked for it; without it an old `ok` could end a new start. `Asks` and `Closing`:
a user awaits one answer at a time and is not counted as open while its close is
unread. The case that is not obvious is a client that takes a notification for
the answer to a close not yet read, and opens again on another connection: the
round of select reads the close first (`Behind`). `Held`: who waits for the end
of a start is counted in `btwifi_state`.

**CmrMsgProofs.** From `Count >= 2` and a finite set of posters.
`RingCorrect`: the counter, the semaphore and the ring agree (so that the code's
fallback to `ori_node` and its underflow are never reached). `SlotHeldCorrect`:
the slot just taken lies behind `msg_read` and outside the filled part, because
the overflow test keeps one slot free; and each stored `sync_f` is that of its
message. `QueueCorrect`: the refinement, from the same invariant and from facts
on the modular positions of the slots. `HonouredCorrect` and `NoOrphanCorrect`
rest on `SyncInv`, which holds until a slot is reused too early: the message of a
poster that has not returned is queued, in work or answered, in a slot that is
its own, and the value of that slot's semaphore says which. TLC has checked that
invariant on the instances of both runs.

Only model-checked: `LostOnlyOverStaleMain` (for partitions that draw the main
image it follows from `ImagesInv`; the other draw needs an invariant of its own),
and the liveness properties (`TrafficSaves`, `CallsReturn`,
`RequestsAnswered`, `DeadNoticed`, `AliveServed`, `DeadStops`: fairness and
ENABLED are beyond the prover). No module uses RECURSIVE operators, and no proof
needs induction over data.

## 7. What the models leave out

- Byte layout: headers, checksums (a file is good, torn or corrupt), the
  arithmetic of `_markDirtyInfo`, parts of a sector at the end of a packet. A
  group number is never 0xFFFFFFFF (`NoGrp`).
- Packets that are malformed (wrong magic, short): `_getPacket` skips them
  without a change of state. `__chkEcc` accepts everything. A short read is a
  failing channel.
- Provisioning: a device starts with a good main image.
- In calibration mode spurious wake-ups: see `SpuriousAssumption`.
- `NvBoot`: faults of modem_control's own file calls; an image that goes bad in
  the middle of a hand-over (it is read once: before or after is the same); a torn main image of which
  not even the header is there, whose `buf` and `size` are then uninitialised
  (`nv_read.c:154`); power loss before a repair reaches the disk (there is no
  fsync, but the image was bad before). `ctl.stop` is asynchronous: nvitemd may
  live on for a moment after `stop_service`; the model has it stopped.
- `Modem`: the clients that modemd informs, the engineer service, VLX and
  external modems, a device or tty that cannot be opened, the images of the load
  table. modemd ends only in `send_atcmd`. `NvQuiet` does not cover the load of a
  modem_control that has been restarted, `AliveServed` not the connection of a
  restarted modemd, which is never accepted, nor the time after phoneserver has
  reported a blocked modem: the model has these steps, and the properties are
  false there. `StartService` and `StopService` are one step each, although
  `start_service` and `stop_service` set several properties and send several
  `ctl` commands one after the other.
- `Wcnd`: marlin2 (CP2 is switched by the driver), the worker queue and the AT
  commands of the engineer mode, several commands on one connection or in one
  read of a client, the ten slots of the client table, listeners that only wait
  for notifications, a write that blocks under `clients_lock`, an answered
  connection that stays open. `Opened` and `Rebooted` are one step from CP2's
  coming up to the clearing of `doing_reset`: an assert reported in between
  would be dropped by `handle_cp2_assert`, because `doing_reset` is set
  (`wcnd.c:1578`), and be left to the loop check thread, which is how the model
  finds a CP2 that dies without a report.
- `cmr_msg_timedget` (used by one thread with a queue of its own), a failing `malloc` or `pthread_create`, EINTR of
  `sem_wait`; calls that race `cmr_thread_destroy`; a queue of length 1, which
  no caller in the repository asks for.
- A message callback that returns `CMR_THREAD_EXIT`, which would end the thread
  like EXIT does: the value is private to `cmr_msg.c:79`, and no callback in the
  repository returns it.
- A slot's semaphore counts to `MaxSem`; `HonouredInTime` and `CallsReturn` hold
  before any slot is reused too early, when no value above 1 occurs.

## 8. Plan

Done so far: nvitemd with its packets, its images and the modem boots; the life
of the modem; wcnd; the message threads. What could follow:

1. `NvMark`: `_markDirtyInfo` as a function of start and count on 32-bit words,
   against the set of sectors.
2. An abstract specification of wcnd (one answer per command, power while a user
   holds it), once `pending_events` is cleared in the code: today wcnd does not
   implement it.
3. `CmrMsg` without the assumption that `cmr_thread_destroy` meets no other
   call, and with `cmr_msg_timedget` and the switch monitor thread that uses it.
4. `wcnd_worker.c` (the queue of the engineer mode) and marlin2.
5. The camera HAL's states above the message threads, one component at a time.
6. A proof of `LostOnlyOverStaleMain`: the counterpart of `ImageInv` for
   partitions that draw the backup image.
