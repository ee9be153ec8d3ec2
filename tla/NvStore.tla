------------------------------ MODULE NvStore ------------------------------
(***************************************************************************)
(* The store of nvitemd (open-source/apps/nvitem, built as cp_diskserver): *)
(* three RAM buffers per partition with their dirty bitmaps                *)
(* (nvitem_buf.c), the saver thread and its event (nvitem_server.c,        *)
(* nvitem_os.c), and the two disk images of a partition (nvitem_fs.c),     *)
(* with crashes at every point.                                            *)
(*                                                                         *)
(* Two threads run: "sync", which executes initBuf, then the analyzer and  *)
(* its calls into nvitem_buf.c, and "saver", which sleeps in waiteEvent    *)
(* and runs saveToDisk.  In calibration mode the sync thread runs          *)
(* saveToDisk itself.  An action is one critical section of the mutex, or  *)
(* one system call on an image; what the analyzer decides is left open     *)
(* here (module NvSync refines it).                                        *)
(***************************************************************************)
EXTENDS Integers, FiniteSets

CONSTANTS
  PartNum,     \* ramNvCtl.partNum: the partitions are 0 .. PartNum-1
  Sect,        \* the sectors of a partition, a set of integers
  Val,         \* what a sector may hold
  Blank,       \* the sector value 0xFF..FF that ramDisk_Read fills in
  MainFirst,   \* MainFirst[p]: the outcome of the unseeded rand()%2 for p
  CaliMode,    \* is_cali_mode
  Spurious,    \* pthread_cond_wait may return with no signal
  Faults,      \* the kinds of fault that may happen
  Crashes,     \* the process may be killed or power lost
  MaxCommits   \* bound of the ghost commit numbers (they saturate)

Part     == 0 .. PartNum - 1
Content  == [Sect -> Val]
Thread   == {"sync", "saver"}
NoPart   == -1                    \* _id = (uint32)(-1)
NoVer    == -1                    \* ghost: the content of no commit

\* "open": open() of an image fails; "write": write() to it falls short;
\* "decay": a stored image no longer matches its checksum.
FaultKinds == {"open", "write", "decay"}

ASSUME PartNumAssumption   == PartNum \in Nat \ {0}
ASSUME SectAssumption      == Sect \subseteq Int
ASSUME BlankAssumption     == Blank \in Val
ASSUME MainFirstAssumption == MainFirst \in [Part -> BOOLEAN]
ASSUME FlagAssumption      == /\ CaliMode \in BOOLEAN /\ Crashes \in BOOLEAN
                              /\ Spurious \in BOOLEAN
                              /\ Faults \subseteq FaultKinds
ASSUME MaxCommitsAssumption == MaxCommits \in Nat
\* In calibration mode nobody signals the saver; were it to return from the
\* wait all the same, two threads would be inside saveToDisk at once.
ASSUME SpuriousAssumption  == CaliMode => ~Spurious

VARIABLES
  fromData, fromDirty,   \* fromChannel: what the modem is sending
  bakData, bakDirty,     \* backup: the last complete request
  toData, toDirty,       \* toDisk: what the saver is writing
  image,                 \* image[p][f]: the files of partition p
  pc, at, ret,           \* per thread: next step, loop index, result
  reqPart, win,          \* open request: its partition, sectors to come
  bakVer, toVer,         \* ghost: the commit numbers of backup and toDisk
  ncommit,               \* ghost: number of commits so far
  floor,                 \* ghost: the commit known to be durable
  faulted                \* ghost: the kinds of fault that have happened

ramVars   == <<fromData, fromDirty, bakData, bakDirty, toData, toDirty,
               bakVer, toVer>>
reqVars   == <<reqPart, win>>
ghostVars == <<ncommit, floor, faulted>>
vars      == <<ramVars, image, pc, at, ret, reqVars, ghostVars>>

(***************************************************************************)
(* Disk images.  A file is a complete image (its checksum matches), or it  *)
(* is Missing, Torn (truncated or short) or Corrupt (full size, checksum   *)
(* mismatch).  ver is the ghost commit number of the content.              *)
(***************************************************************************)
File      == {"main", "bak"}        \* image_path, imageBak_path
Other(f)  == IF f = "main" THEN "bak" ELSE "main"
Broken(k) == [ok |-> FALSE, why |-> k]
Good(c,v) == [ok |-> TRUE, data |-> c, ver |-> v]
Blanks    == [s \in Sect |-> Blank]
BadImage  == {Broken(k) : k \in {"Missing", "Torn", "Corrupt"}}
GoodImage == [ok : {TRUE}, data : Content, ver : NoVer .. MaxCommits]
Image     == BadImage \cup GoodImage

\* Slip: the two paths taken in the wrong order.
FirstIsBak(p) == "bak"

First(p)  == IF MainFirst[p] THEN "main" ELSE "bak"
Second(p) == Other(First(p))

Put(p, f, i) == image' = [image EXCEPT ![p][f] = i]
Go(t, l)     == pc' = [pc EXCEPT ![t] = l]
Fail(k)      == k \in Faults /\ faulted' = faulted \cup {k}

Init ==
  /\ fromData = [p \in Part |-> Blanks] /\ fromDirty = [p \in Part |-> {}]
  /\ bakData = [p \in Part |-> Blanks]  /\ bakDirty = [p \in Part |-> {}]
  /\ toData = [p \in Part |-> Blanks]   /\ toDirty = [p \in Part |-> {}]
  /\ bakVer = [p \in Part |-> NoVer]    /\ toVer = [p \in Part |-> NoVer]
  \* provisioned device: the main image, and perhaps the same as backup
  /\ \E c \in [Part -> Content], b \in [Part -> BOOLEAN] :
       image = [p \in Part |-> [f \in File |->
                  IF f = "main" \/ b[p] THEN Good(c[p], 0)
                                        ELSE Broken("Missing")]]
  /\ pc = [t \in Thread |-> IF t = "sync" THEN "bootRead" ELSE "none"]
  /\ at = [t \in Thread |-> 0] /\ ret = [t \in Thread |-> TRUE]
  /\ reqPart = NoPart /\ win = {}
  /\ ncommit = 0 /\ floor = [p \in Part |-> NoVer] /\ faulted = {}

(***************************************************************************)
(* initBuf and ramDisk_Read                                                *)
(***************************************************************************)
\* initBuf: the content read becomes that of all three buffers.
Load(p, c, v) ==
  /\ fromData' = [fromData EXCEPT ![p] = c]
  /\ bakData' = [bakData EXCEPT ![p] = c]
  /\ toData' = [toData EXCEPT ![p] = c]
  /\ bakVer' = [bakVer EXCEPT ![p] = v]
  /\ toVer' = [toVer EXCEPT ![p] = v]
  /\ floor' = [floor EXCEPT ![p] = v]
  /\ UNCHANGED <<fromDirty, bakDirty, toDirty>>

\* initBuf goes on with the next partition; after the last one main creates
\* the saver, which goes to sleep.
BootNext ==
  /\ at' = [at EXCEPT !["sync"] = IF @ + 1 = PartNum THEN 0 ELSE @ + 1]
  /\ IF at["sync"] + 1 = PartNum
       THEN pc' = [pc EXCEPT !["sync"] = "idle", !["saver"] = "wait"]
       ELSE Go("sync", "bootRead")

\* What open() of an existing or missing file may return.
Opens(i) == IF i = Broken("Missing") THEN {FALSE}
            ELSE IF "open" \in Faults THEN BOOLEAN ELSE {TRUE}

\* ramDisk_Read up to its repair of the first image (or its return).
BootRead ==
  LET p == at["sync"]
      i1 == image[p][First(p)]
      i2 == image[p][Second(p)]
  IN
  /\ pc["sync"] = "bootRead"
  /\ \E o1 \in Opens(i1), o2 \in Opens(i2) :
       LET good1 == o1 /\ i1.ok
           failed == \/ ~o1 /\ i1 # Broken("Missing")
                     \/ ~good1 /\ ~o2 /\ i2 # Broken("Missing")
       IN
       /\ faulted' = IF failed THEN faulted \cup {"open"} ELSE faulted
       /\ \/ good1 /\ Load(p, i1.data, i1.ver) /\ BootNext
          \/ /\ ~good1 /\ o2 /\ i2.ok
             /\ Load(p, i2.data, i2.ver)
             /\ Go("sync", "bootFix") /\ UNCHANGED at
          \* neither image is good: whatever was read is used all the same
          \/ /\ ~good1 /\ o2 /\ ~i2.ok
             /\ \E c \in Content : Load(p, c, NoVer)
             /\ BootNext
          \* the second cannot be opened.  After a full-size first image ret2
          \* is still its size, and the 0xFF fill matches the zeroed header
          \/ /\ ~good1 /\ ~o2
             /\ Load(p, Blanks, NoVer)
             /\ IF o1 /\ i1 = Broken("Corrupt")
                  THEN Go("sync", "bootFix") /\ UNCHANGED at
                  ELSE BootNext
  /\ UNCHANGED <<image, ret, reqVars, ncommit>>

\* Slip: the repair opens the image that was read with success.
BootFixSecond ==
  LET p == at["sync"] IN
  /\ pc["sync"] = "bootFix"
  /\ \/ /\ Put(p, Second(p), Broken("Torn"))
        /\ Go("sync", "bootFixWrite") /\ UNCHANGED <<at, faulted>>
     \/ Fail("open") /\ BootNext /\ UNCHANGED image
  /\ UNCHANGED <<ramVars, ret, reqVars, ncommit, floor>>

\* The repair truncates the first image ...
BootFix ==
  LET p == at["sync"] IN
  /\ pc["sync"] = "bootFix"
  /\ \/ /\ Put(p, First(p), Broken("Torn"))
        /\ Go("sync", "bootFixWrite") /\ UNCHANGED <<at, faulted>>
     \/ Fail("open") /\ BootNext /\ UNCHANGED image
  /\ UNCHANGED <<ramVars, ret, reqVars, ncommit, floor>>

\* ... and writes what was read; nothing checks that the write succeeds.
BootFixWrite ==
  LET p == at["sync"] IN
  /\ pc["sync"] = "bootFixWrite"
  /\ \/ Put(p, First(p), Good(toData[p], toVer[p])) /\ UNCHANGED faulted
     \/ Fail("write") /\ UNCHANGED image
  /\ BootNext
  /\ UNCHANGED <<ramVars, ret, reqVars, ncommit, floor>>

(***************************************************************************)
(* The sync thread: what the analyzer may ask of the buffers               *)
(***************************************************************************)
\* _syncGetHead: a request for partition p is open.
SyncHead(p) ==
  /\ pc["sync"] = "idle" /\ reqPart = NoPart
  /\ reqPart' = p
  /\ UNCHANGED <<ramVars, image, pc, at, ret, win, ghostVars>>

\* Slip: the last sector of the body stays unmarked.
MarkDirtyShort(S) ==
  /\ fromDirty' = [fromDirty EXCEPT ![reqPart] =
                     @ \cup {s \in S : \E x \in S : x > s}]
  /\ win' = S

\* _markDirtyInfo: the sectors of the next body, before their data arrives.
MarkDirty(S) ==
  /\ fromDirty' = [fromDirty EXCEPT ![reqPart] = @ \cup S]
  /\ win' = S
SyncBody(S) ==
  /\ pc["sync"] = "idle" /\ reqPart # NoPart /\ win = {}
  /\ MarkDirty(S)
  /\ UNCHANGED <<fromData, bakData, bakDirty, toData, toDirty, bakVer, toVer,
                 image, pc, at, ret, reqPart, ghostVars>>

\* writeData: the next sector of the body, in ascending order.
WriteData(s, v) ==
  /\ fromData' = [fromData EXCEPT ![reqPart][s] = v]
  /\ win' = win \ {s}
SyncData(v) ==
  /\ pc["sync"] = "idle"
  /\ \E s \in win : (\A x \in win : s <= x) /\ WriteData(s, v)
  /\ UNCHANGED <<fromDirty, bakData, bakDirty, toData, toDirty, bakVer, toVer,
                 image, pc, at, ret, reqPart, ghostVars>>

NextCommit == IF ncommit < MaxCommits THEN ncommit + 1 ELSE ncommit

\* backupData under the mutex; fromChannel.dirty is not cleared.
BackupData(p) ==
  /\ bakData' = [bakData EXCEPT ![p] = fromData[p]]
  /\ bakDirty' = [bakDirty EXCEPT ![p] = @ \cup fromDirty[p]]
  /\ bakVer' = [bakVer EXCEPT ![p] = NextCommit]
  /\ ncommit' = NextCommit
\* _syncReset(SYNC_SUC_RESET): the tail has come.  Calibration mode goes on
\* with saveToDisk in this thread, normal mode with giveEvent.
SyncDone ==
  /\ pc["sync"] = "idle" /\ reqPart # NoPart /\ win = {}
  /\ BackupData(reqPart)
  /\ reqPart' = NoPart
  /\ Go("sync", IF CaliMode THEN "check" ELSE "signal")
  /\ UNCHANGED <<fromData, fromDirty, toData, toDirty, toVer, image, at, ret,
                 win, floor, faulted>>

\* Slip: an abort that leaves fromChannel as it is.
RestoreNothing(p) == UNCHANGED <<fromData, fromDirty>>

\* restoreData: the dirty bitmap is copied back with the data.
RestoreData(p) ==
  /\ fromData' = [fromData EXCEPT ![p] = bakData[p]]
  /\ fromDirty' = [fromDirty EXCEPT ![p] = bakDirty[p]]
\* Slip: source and destination of the copy exchanged.
SyncFailSwapped ==
  /\ pc["sync"] = "idle" /\ reqPart # NoPart
  /\ bakData' = [bakData EXCEPT ![reqPart] = fromData[reqPart]]
  /\ reqPart' = NoPart /\ win' = {}
  /\ UNCHANGED <<fromData, fromDirty, bakDirty, toData, toDirty, bakVer, toVer,
                 image, pc, at, ret, ghostVars>>

\* _syncReset(SYNC_FAIL_RESET) of an open request.
SyncFail ==
  /\ pc["sync"] = "idle" /\ reqPart # NoPart
  /\ RestoreData(reqPart)
  /\ reqPart' = NoPart /\ win' = {}
  /\ UNCHANGED <<bakData, bakDirty, toData, toDirty, bakVer, toVer, image, pc,
                 at, ret, ghostVars>>

\* giveEvent: the signal is lost unless the saver is in pthread_cond_wait.
SyncSignal ==
  /\ pc["sync"] = "signal"
  /\ pc' = [pc EXCEPT !["sync"] = "idle",
                      !["saver"] = IF @ = "wait" THEN "check" ELSE @]
  /\ UNCHANGED <<ramVars, image, at, ret, reqVars, ghostVars>>

\* The range of sectors a body may name.
Ranges == {S \in SUBSET Sect :
             \A x, y \in S : \A z \in Sect : x <= z /\ z <= y => z \in S}

SyncRequest ==
  \/ \E p \in Part : SyncHead(p)
  \/ \E S \in Ranges : SyncBody(S)
  \/ \E v \in Val : SyncData(v)
  \/ SyncDone
  \/ SyncFail

(***************************************************************************)
(* saveToDisk, run by the saver (or by the sync thread in calibration      *)
(* mode), with __getData and ramDisk_Write                                 *)
(***************************************************************************)
\* waiteEvent tests no predicate, so that a wake-up without signal counts.
SpuriousWake ==
  /\ Spurious /\ pc["saver"] = "wait"
  /\ Go("saver", "check")
  /\ UNCHANGED <<ramVars, image, at, ret, reqVars, ghostVars>>

\* Slip: the loop runs to partNum inclusive (the slot after the last is clean).
SaveCheckPastEnd(t) ==
  LET p == at[t] IN
  /\ pc[t] = "check"
  /\ \/ /\ p < PartNum /\ bakDirty[p] # {}
        /\ Go(t, "get") /\ UNCHANGED at
     \/ /\ p = PartNum \/ (p < PartNum /\ bakDirty[p] = {})
        /\ at' = [at EXCEPT ![t] = p + 1] /\ UNCHANGED pc
     \/ /\ p > PartNum
        /\ at' = [at EXCEPT ![t] = 0]
        /\ Go(t, IF t = "saver" THEN "wait" ELSE "idle")
  /\ UNCHANGED <<ramVars, image, ret, reqVars, ghostVars>>

\* Slip: the index keeps its value from one call to the next.
SaveCheckNoReset(t) ==
  LET p == at[t] IN
  /\ pc[t] = "check"
  /\ \/ /\ p < PartNum /\ bakDirty[p] # {}
        /\ Go(t, "get") /\ UNCHANGED at
     \/ /\ p < PartNum /\ bakDirty[p] = {}
        /\ at' = [at EXCEPT ![t] = p + 1] /\ UNCHANGED pc
     \/ /\ p = PartNum
        /\ Go(t, IF t = "saver" THEN "wait" ELSE "idle") /\ UNCHANGED at
  /\ UNCHANGED <<ramVars, image, ret, reqVars, ghostVars>>

\* The loop head: the next partition whose backup is dirty (__ifHasDirty,
\* read without the mutex), or the end of saveToDisk.
SaveCheck(t) ==
  LET p == at[t] IN
  /\ pc[t] = "check"
  /\ \/ /\ p < PartNum /\ bakDirty[p] # {}
        /\ Go(t, "get") /\ UNCHANGED at
     \/ /\ p < PartNum /\ bakDirty[p] = {}
        /\ at' = [at EXCEPT ![t] = p + 1] /\ UNCHANGED pc
     \/ /\ p = PartNum
        /\ at' = [at EXCEPT ![t] = 0]
        /\ Go(t, IF t = "saver" THEN "wait" ELSE "idle")
  /\ UNCHANGED <<ramVars, image, ret, reqVars, ghostVars>>

\* Slip: what is written is taken from the modem's buffer.
GetDataLive(p) ==
  /\ toData' = [toData EXCEPT ![p] = fromData[p]]
  /\ toDirty' = [toDirty EXCEPT ![p] = @ \cup bakDirty[p]]
  /\ bakDirty' = [bakDirty EXCEPT ![p] = {}]
  /\ toVer' = [toVer EXCEPT ![p] = bakVer[p]]

\* __getData under the mutex.
GetData(p) ==
  /\ toData' = [toData EXCEPT ![p] = bakData[p]]
  /\ toDirty' = [toDirty EXCEPT ![p] = @ \cup bakDirty[p]]
  /\ bakDirty' = [bakDirty EXCEPT ![p] = {}]
  /\ toVer' = [toVer EXCEPT ![p] = bakVer[p]]
SaveGet(t) ==
  /\ pc[t] = "get"
  /\ GetData(at[t])
  /\ Go(t, "bakOpen") /\ ret' = [ret EXCEPT ![t] = TRUE]
  /\ UNCHANGED <<fromData, fromDirty, bakData, bakVer, image, at, reqVars,
                 ghostVars>>

\* ramDisk_Write opens an image with O_TRUNC, or goes on without it.
OpenImage(t, f, here, write, next) ==
  /\ pc[t] = here
  /\ \/ Put(at[t], f, Broken("Torn")) /\ Go(t, write) /\ UNCHANGED faulted
     \/ Fail("open") /\ Go(t, next) /\ UNCHANGED image
  /\ UNCHANGED <<ramVars, at, ret, reqVars, ncommit, floor>>

\* ... then writes header and data and calls fsync.  What power loss leaves
\* of a file before fsync (the old, a torn or the new one) is what it leaves
\* just before the open, here, or just after this step.
WriteImage(t, f, here, next) ==
  /\ pc[t] = here
  /\ \/ /\ Put(at[t], f, Good(toData[at[t]], toVer[at[t]]))
        /\ UNCHANGED <<ret, faulted>>
     \/ /\ Fail("write")
        /\ ret' = [ret EXCEPT ![t] = FALSE] /\ UNCHANGED image
  /\ Go(t, next)
  /\ UNCHANGED <<ramVars, at, reqVars, ncommit, floor>>

\* Slip: both images are opened, and truncated, before either is written.
RamDiskWriteTogether(t) ==
  \/ OpenImage(t, "bak", "bakOpen", "mainOpen", "mainOpen")
  \/ OpenImage(t, "main", "mainOpen", "bakWrite", "clear")
  \/ WriteImage(t, "bak", "bakWrite", "mainWrite")
  \/ WriteImage(t, "main", "mainWrite", "clear")

\* Slip: the main image is left out once the backup is written.
RamDiskWriteBakOnly(t) ==
  \/ OpenImage(t, "bak", "bakOpen", "bakWrite", "mainOpen")
  \/ WriteImage(t, "bak", "bakWrite", "clear")
  \/ OpenImage(t, "main", "mainOpen", "mainWrite", "clear")
  \/ WriteImage(t, "main", "mainWrite", "clear")

\* The backup image comes first, the main image second.
RamDiskWrite(t) ==
  \/ OpenImage(t, "bak", "bakOpen", "bakWrite", "mainOpen")
  \/ WriteImage(t, "bak", "bakWrite", "mainOpen")
  \/ OpenImage(t, "main", "mainOpen", "mainWrite", "clear")
  \/ WriteImage(t, "main", "mainWrite", "clear")

\* Slip: backup's bits are cleared after the write, not when it is copied.
SaveClearLate(t) ==
  LET p == at[t] IN
  /\ pc[t] = "clear"
  /\ bakDirty' = [bakDirty EXCEPT ![p] = {}]
  /\ IF ret[t] THEN /\ toDirty' = [toDirty EXCEPT ![p] = {}]
                    /\ floor' = [floor EXCEPT ![p] = toVer[p]]
               ELSE UNCHANGED <<toDirty, floor>>
  /\ at' = [at EXCEPT ![t] = p + 1] /\ Go(t, "check")
  /\ UNCHANGED <<fromData, fromDirty, bakData, toData, bakVer, toVer,
                 image, ret, reqVars, ncommit, faulted>>

\* On success the bits of toDisk are cleared; on failure nothing retries.
SaveClear(t) ==
  LET p == at[t] IN
  /\ pc[t] = "clear"
  /\ IF ret[t] THEN /\ toDirty' = [toDirty EXCEPT ![p] = {}]
                    /\ floor' = [floor EXCEPT ![p] = toVer[p]]
               ELSE UNCHANGED <<toDirty, floor>>
  /\ at' = [at EXCEPT ![t] = p + 1] /\ Go(t, "check")
  /\ UNCHANGED <<fromData, fromDirty, bakData, bakDirty, toData, bakVer, toVer,
                 image, ret, reqVars, ncommit, faulted>>

SaveToDisk(t) ==
  SaveCheck(t) \/ SaveGet(t) \/ RamDiskWrite(t) \/ SaveClear(t)

(***************************************************************************)
(* The environment                                                         *)
(***************************************************************************)
\* kill (modemd stops nvitemd when the modem dies) or power loss, and a new
\* start: the buffers are gone, initBuf begins again.
Crash ==
  /\ Crashes
  /\ fromData' = [p \in Part |-> Blanks] /\ fromDirty' = [p \in Part |-> {}]
  /\ bakData' = [p \in Part |-> Blanks]  /\ bakDirty' = [p \in Part |-> {}]
  /\ toData' = [p \in Part |-> Blanks]   /\ toDirty' = [p \in Part |-> {}]
  /\ bakVer' = [p \in Part |-> NoVer]    /\ toVer' = [p \in Part |-> NoVer]
  /\ pc' = [t \in Thread |-> IF t = "sync" THEN "bootRead" ELSE "none"]
  /\ at' = [t \in Thread |-> 0] /\ ret' = [t \in Thread |-> TRUE]
  /\ reqPart' = NoPart /\ win' = {}
  /\ UNCHANGED <<image, ghostVars>>

Decay(p, f) ==
  /\ Fail("decay")
  /\ image[p][f].ok /\ Put(p, f, Broken("Corrupt"))
  /\ UNCHANGED <<ramVars, pc, at, ret, reqVars, ncommit, floor>>

Boot == BootRead \/ BootFix \/ BootFixWrite
Next ==
  \/ Boot
  \/ SyncRequest
  \/ SyncSignal
  \/ SpuriousWake
  \/ \E t \in Thread : SaveToDisk(t)
  \/ Crash
  \/ \E p \in Part, f \in File : Decay(p, f)

Spec == Init /\ [][Next]_vars

(***************************************************************************)
(* Fairness: the two threads are scheduled; requests, faults, crashes and  *)
(* spurious wake-ups are the environment's.                                *)
(***************************************************************************)
Fairness == /\ WF_vars(Boot)
            /\ WF_vars(SyncSignal)
            /\ \A t \in Thread : WF_vars(SaveToDisk(t))
FairSpec == Spec /\ Fairness

(***************************************************************************)
(* Properties                                                              *)
(***************************************************************************)
PC == {"none", "bootRead", "bootFix", "bootFixWrite", "idle", "signal", "wait",
       "check", "get", "bakOpen", "bakWrite", "mainOpen", "mainWrite", "clear"}
TypeOK ==
  /\ fromData \in [Part -> Content] /\ fromDirty \in [Part -> SUBSET Sect]
  /\ bakData \in [Part -> Content] /\ bakDirty \in [Part -> SUBSET Sect]
  /\ toData \in [Part -> Content] /\ toDirty \in [Part -> SUBSET Sect]
  /\ bakVer \in [Part -> NoVer .. MaxCommits]
  /\ toVer \in [Part -> NoVer .. MaxCommits]
  /\ image \in [Part -> [File -> Image]]
  /\ pc \in [Thread -> PC] /\ at \in [Thread -> 0 .. PartNum]
  /\ ret \in [Thread -> BOOLEAN]
  /\ reqPart \in Part \cup {NoPart} /\ win \in SUBSET Sect
  /\ ncommit \in 0 .. MaxCommits /\ floor \in [Part -> NoVer .. MaxCommits]
  /\ faulted \in SUBSET FaultKinds

Diff(c, d) == {s \in Sect : c[s] # d[s]}
Booted     == pc["saver"] # "none"
Saving(p)  == \E t \in Thread :
                at[t] = p /\ pc[t] \in {"bakOpen", "bakWrite", "mainOpen",
                                        "mainWrite", "clear"}

\* The image the next start of nvitemd will load.
Recovered(p) == IF image[p][First(p)].ok THEN image[p][First(p)]
                                         ELSE image[p][Second(p)]

\* The dirty bitmaps tell the truth although fromChannel.dirty is never
\* cleared and is overwritten on every abort: a sector in which two
\* consecutive buffers differ is marked, so that no save skips new data
\* (__ifHasDirty) and no abort leaves a half request behind.
Coverage ==
  \A p \in Part : /\ Diff(fromData[p], bakData[p]) \subseteq fromDirty[p]
                  /\ Diff(bakData[p], toData[p]) \subseteq bakDirty[p]

\* Writing one image after the other (ramDisk_Write), and repairing only the
\* image that was found bad (ramDisk_Read), leave a good image of every
\* partition at every instant, whenever the process dies, provided that
\* ramDisk_Read tries the main image first.  (With the backup first, a main
\* image that a crash has torn is never repaired, and the next save truncates
\* the only good one.  One fault, too, breaks it: ramDisk_Write truncates the
\* main image whatever became of the backup.)
OneGoodImage ==
  faulted = {} =>
    \A p \in Part : MainFirst[p] => \E f \in File : image[p][f].ok

\* What a crash now would lose of the last complete request is what is marked
\* dirty in backup, or in toDisk while that partition is being written: the
\* bitmaps, the buffers and the images never disagree behind the saver's back.
\* It needs the read order of ramDisk_Read's comment: with the backup image
\* first, a stale main image comes to light while the backup is rewritten.
LossBounded ==
  (faulted = {} /\ Booted) =>
    \A p \in Part : MainFirst[p] =>
      Recovered(p).ok /\ Diff(Recovered(p).data, bakData[p]) \subseteq
        bakDirty[p] \cup (IF Saving(p) THEN toDirty[p] ELSE {})

\* Two copies of the same commit, in RAM or on disk, hold the same data: no
\* copy is a mixture of two requests, whatever faults and crashes happen.
\* (Numbers at the bound MaxCommits are shared, and are left out.)
Copies(p) == {[data |-> bakData[p], ver |-> bakVer[p]],
              [data |-> toData[p], ver |-> toVer[p]]}
             \cup {[data |-> image[p][f].data, ver |-> image[p][f].ver] :
                     f \in {g \in File : image[p][g].ok}}
WholeCommits ==
  \A p \in Part : \A a, b \in Copies(p) :
    (a.ver = b.ver /\ 0 <= a.ver /\ a.ver < MaxCommits) => a.data = b.data

\* Once saveToDisk has succeeded, or a start of nvitemd has loaded a commit,
\* no later start loads an older one, of a partition of which ramDisk_Read tries
\* the main image first, as its comment says.
NoRollback ==
  [][faulted' = {} =>
       \A p \in Part : MainFirst[p] => floor[p] <= floor'[p]]_vars

\* Whatever image rand() chooses to read first (nvitem_fs.c:272), no crash, no
\* repair and no save makes the next start load an older commit than the one
\* known to be durable, or none, but for one step: ramDisk_Write truncates the
\* backup over a main image that a crash in an earlier save has left torn or
\* stale, and that the start, having drawn the good backup, has not fixed.
Durable(p) == Recovered(p).ok /\ Recovered(p).ver >= floor[p]
Stale(p)   == image[p]["main"].ok => image[p]["main"].ver < floor[p]
LostOnlyOverStaleMain ==
  [][faulted' = {} =>
       \A p \in Part : (Durable(p) /\ ~Durable(p)') =>
         /\ ~MainFirst[p] /\ Stale(p)
         /\ \E t \in Thread : pc[t] = "bakOpen" /\ at[t] = p]_vars

\* In calibration mode the response goes out after saveToDisk: when the sync
\* thread is back in the analyzer, the image that the next start will load is
\* the last complete request.
CaliSynchronous ==
  (CaliMode /\ pc["sync"] = "idle" /\ faulted = {}) =>
    \A p \in Part : MainFirst[p] =>
      /\ bakDirty[p] = {} /\ toDirty[p] = {}
      /\ Recovered(p).ok /\ Recovered(p).data = bakData[p]

\* A signal given while the saver is busy is lost (waiteEvent has no
\* predicate), but if requests keep completing, whatever is dirty is taken:
\* the saver cannot starve one partition for ever.
TrafficSaves ==
  []<><<SyncSignal>>_vars =>
    \A p \in Part : (bakDirty[p] # {}) ~> (bakDirty[p] = {})

(***************************************************************************)
(* The inductive invariant behind these properties (see NvStoreProofs)     *)
(***************************************************************************)
BootPC == {"bootRead", "bootFix", "bootFixWrite"}
SavePC == {"bakOpen", "bakWrite", "mainOpen", "mainWrite", "clear"}
LoopPC == {"check", "get"} \cup SavePC

\* Who runs when: initBuf alone, then the two threads, of which the mode says
\* which one enters saveToDisk; a request is open only in the analyzer.
Control ==
  /\ pc["sync"] \in BootPC \cup {"idle", "signal"} \cup LoopPC
  /\ pc["saver"] \in {"none", "wait"} \cup LoopPC
  /\ pc["saver"] = "none" <=> pc["sync"] \in BootPC
  /\ pc["sync"] \in LoopPC => CaliMode
  /\ pc["sync"] = "signal" \/ pc["saver"] \in LoopPC => ~CaliMode
  /\ \A t \in Thread : pc[t] \in BootPC \cup {"get"} \cup SavePC => at[t] \in Part
  /\ reqPart # NoPart => pc["sync"] = "idle"
  /\ win # {} => reqPart # NoPart

\* The sectors still to come of the open body are marked already.
Marked == reqPart # NoPart => win \subseteq fromDirty[reqPart]

Loaded(p) == Booted \/ p < at["sync"]
InStep(p, S) == \E t \in Thread : at[t] = p /\ pc[t] \in S
IsCopy(i, p) == i.ok /\ i.data = toData[p] /\ i.ver = toVer[p]

\* What the images of p hold at each step of initBuf and saveToDisk, if the
\* main image is read first and no fault has happened.
ImageInv(p) ==
  LET m == image[p]["main"]
      b == image[p]["bak"]
  IN
  /\ m.ok \/ b.ok
  /\ m.ok => floor[p] <= m.ver /\ m.ver <= ncommit
  /\ b.ok => b.ver <= ncommit
  /\ ~m.ok => floor[p] <= b.ver
  /\ Loaded(p) \/ InStep(p, {"bootFix", "bootFixWrite"}) =>
       floor[p] <= toVer[p] /\ toVer[p] <= bakVer[p] /\ bakVer[p] <= ncommit
  /\ Loaded(p) /\ ~InStep(p, SavePC) => IsCopy(m, p)
  /\ ~InStep(p, SavePC) => toDirty[p] = {}
  /\ InStep(p, {"bakOpen", "bakWrite", "mainOpen"}) =>
       m.ok /\ Diff(m.data, toData[p]) \subseteq toDirty[p]
  /\ InStep(p, {"mainOpen", "mainWrite", "clear", "bootFix", "bootFixWrite"}) =>
       IsCopy(b, p)
  /\ InStep(p, {"mainWrite", "bootFix", "bootFixWrite"}) => ~m.ok
  /\ InStep(p, {"clear"}) => IsCopy(m, p)
ImagesInv ==
  faulted = {} =>
    /\ \A t \in Thread : pc[t] \in SavePC => ret[t]
    /\ \A p \in Part : MainFirst[p] => ImageInv(p)
=============================================================================
