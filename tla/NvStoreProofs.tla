--------------------------- MODULE NvStoreProofs ---------------------------
(***************************************************************************)
(* Proofs about NvStore, for every number of partitions and sectors, every *)
(* value of the flags and every set of faults.                             *)
(***************************************************************************)
EXTENDS NvStore, TLAPS

\* Nothing but the bounds of the constants is assumed.
LEMMA ConstantFacts ==
  /\ PartNum \in Nat /\ PartNum > 0 /\ 0 \in Part
  /\ MaxCommits \in Nat /\ Blank \in Val
  /\ 0 \in NoVer .. MaxCommits /\ NoVer \in NoVer .. MaxCommits
BY PartNumAssumption, MaxCommitsAssumption, BlankAssumption DEF Part, NoVer

\* What an image may hold.
LEMMA ImageFacts ==
  /\ \A k \in {"Missing", "Torn", "Corrupt"} : Broken(k) \in Image
  /\ \A c \in Content, v \in NoVer .. MaxCommits : Good(c, v) \in Image
  /\ \A i \in Image : i.ok => i.data \in Content /\ i.ver \in NoVer .. MaxCommits
  /\ Blanks \in Content
<1>1. \A k \in {"Missing", "Torn", "Corrupt"} : Broken(k) \in Image
  BY DEF Image, BadImage
<1>2. \A c \in Content, v \in NoVer .. MaxCommits : Good(c, v) \in Image
  BY DEF Image, GoodImage, Good
<1>3. \A i \in Image : i.ok => i.data \in Content /\ i.ver \in NoVer .. MaxCommits
  <2> SUFFICES ASSUME NEW i \in Image, i.ok
               PROVE  i.data \in Content /\ i.ver \in NoVer .. MaxCommits
    OBVIOUS
  <2>1. i \in GoodImage => i.data \in Content /\ i.ver \in NoVer .. MaxCommits
    BY DEF GoodImage
  <2>2. i \notin BadImage
    BY DEF BadImage, Broken
  <2> QED BY <2>1, <2>2 DEF Image
<1>4. Blanks \in Content
  BY ConstantFacts DEF Blanks, Content
<1> QED BY <1>1, <1>2, <1>3, <1>4

\* Writing one image of one partition keeps the type of image.
LEMMA PutType ==
  ASSUME image \in [Part -> [File -> Image]], NEW p, NEW f, NEW i \in Image,
         Put(p, f, i)
  PROVE  image' \in [Part -> [File -> Image]]
BY DEF Put

(***************************************************************************)
(* Type correctness                                                        *)
(***************************************************************************)
LEMMA InitType == Init => TypeOK
<1> SUFFICES ASSUME Init PROVE TypeOK
  OBVIOUS
<1> USE ConstantFacts, ImageFacts
<1>1. image \in [Part -> [File -> Image]]
  BY DEF Init, File
<1>2. pc \in [Thread -> PC]
  BY DEF Init, PC
<1>3. reqPart \in Part \cup {NoPart} /\ win \in SUBSET Sect
  BY DEF Init
<1> QED BY <1>1, <1>2, <1>3 DEF Init, TypeOK

\* The next partition of initBuf, or the end of it.
LEMMA BootNextType ==
  ASSUME TypeOK, pc["sync"] \in {"bootRead", "bootFix", "bootFixWrite"},
         at["sync"] \in Part, BootNext
  PROVE  pc' \in [Thread -> PC] /\ at' \in [Thread -> 0 .. PartNum]
<1>1. at["sync"] \in Int /\ PartNum \in Int /\ at["sync"] + 1 \in 1 .. PartNum
  BY ConstantFacts DEF Part
<1>2. at' \in [Thread -> 0 .. PartNum]
  <2>1. (IF at["sync"] + 1 = PartNum THEN 0 ELSE at["sync"] + 1) \in 0 .. PartNum
    BY <1>1
  <2> QED BY <2>1 DEF TypeOK, BootNext
<1>3. pc' \in [Thread -> PC]
  BY DEF TypeOK, BootNext, Go, PC
<1> QED BY <1>2, <1>3

\* Loading a content of the right type fills the buffers with it.
LEMMA LoadType ==
  ASSUME TypeOK, NEW p \in Part, NEW c \in Content,
         NEW v \in NoVer .. MaxCommits, Load(p, c, v)
  PROVE  /\ fromData' \in [Part -> Content]
         /\ fromDirty' \in [Part -> SUBSET Sect]
         /\ bakData' \in [Part -> Content]
         /\ bakDirty' \in [Part -> SUBSET Sect]
         /\ toData' \in [Part -> Content]
         /\ toDirty' \in [Part -> SUBSET Sect]
         /\ bakVer' \in [Part -> NoVer .. MaxCommits]
         /\ toVer' \in [Part -> NoVer .. MaxCommits]
         /\ floor' \in [Part -> NoVer .. MaxCommits]
BY DEF TypeOK, Load

\* The loop indices: a thread that works on a partition works on one.
Working == BootPC \cup {"get"} \cup SavePC
\* The loop index of a thread stays within the partitions.
LEMMA Index ==
  Control => \A t \in Thread : pc[t] \in Working => at[t] \in Part
BY DEF Control, Working

\* Every step keeps the types.
LEMMA NextType ==
  ASSUME TypeOK, Control, [Next]_vars
  PROVE  TypeOK'
<1> USE ConstantFacts, ImageFacts
<1> USE DEF vars, ramVars, reqVars, ghostVars, BootPC, SavePC
<1>1. CASE BootRead
  <2> DEFINE p == at["sync"]
             i1 == image[p][First(p)]
             i2 == image[p][Second(p)]
  <2>1. p \in Part
    BY <1>1, Index DEF BootRead, Working, Thread
  <2>2. i1 \in Image /\ i2 \in Image
    BY <2>1, MainFirstAssumption DEF TypeOK, First, Second, Other, File
  <2>3. \E c \in Content, v \in NoVer .. MaxCommits : Load(p, c, v)
    BY <1>1, <2>1, <2>2 DEF BootRead
  <2>4. pc' \in [Thread -> PC] /\ at' \in [Thread -> 0 .. PartNum]
    BY <1>1, <2>1, BootNextType DEF BootRead, Go, TypeOK, PC
  <2>5. faulted' \in SUBSET FaultKinds
    BY <1>1 DEF BootRead, TypeOK, FaultKinds
  <2> HIDE DEF p
  <2>6. UNCHANGED <<image, ret, reqPart, win, ncommit>>
    BY <1>1 DEF BootRead
  <2> QED BY <2>1, <2>3, <2>4, <2>5, <2>6, LoadType DEF TypeOK
<1>2. CASE BootFix
  <2>1. at["sync"] \in Part
    BY <1>2, Index DEF BootFix, Working, Thread
  <2>2. pc' \in [Thread -> PC] /\ at' \in [Thread -> 0 .. PartNum]
    BY <1>2, <2>1, BootNextType DEF BootFix, Go, TypeOK, PC
  <2>3. image' \in [Part -> [File -> Image]] /\ faulted' \in SUBSET FaultKinds
    BY <1>2, PutType DEF BootFix, TypeOK, Fail, FaultKinds
  <2> QED BY <1>2, <2>2, <2>3 DEF BootFix, TypeOK
<1>3. CASE BootFixWrite
  <2>1. at["sync"] \in Part
    BY <1>3, Index DEF BootFixWrite, Working, Thread
  <2>2. pc' \in [Thread -> PC] /\ at' \in [Thread -> 0 .. PartNum]
    BY <1>3, <2>1, BootNextType DEF BootFixWrite
  <2>3. Good(toData[at["sync"]], toVer[at["sync"]]) \in Image
    BY <2>1 DEF TypeOK
  <2>4. image' \in [Part -> [File -> Image]] /\ faulted' \in SUBSET FaultKinds
    BY <1>3, <2>3, PutType DEF BootFixWrite, TypeOK, Fail, FaultKinds
  <2> QED BY <1>3, <2>2, <2>4 DEF BootFixWrite, TypeOK
<1>4. CASE SyncRequest
  <2>1. ASSUME NEW p \in Part, SyncHead(p) PROVE TypeOK'
    BY <2>1 DEF SyncHead, TypeOK
  <2>2. ASSUME NEW S \in Ranges, SyncBody(S) PROVE TypeOK'
    BY <2>2 DEF SyncBody, MarkDirty, Ranges, TypeOK
  <2>3. ASSUME NEW v \in Val, SyncData(v) PROVE TypeOK'
    <3>1. PICK s \in win : WriteData(s, v)
      BY <2>3 DEF SyncData
    <3>2. reqPart \in Part /\ s \in Sect
      BY <3>1 DEF TypeOK, Control
    <3>3. fromData' \in [Part -> Content] /\ win' \in SUBSET Sect
      BY <3>1, <3>2 DEF WriteData, TypeOK, Content
    <3> QED BY <2>3, <3>3 DEF SyncData, TypeOK
  <2>4. CASE SyncDone
    <3>1. NextCommit \in 0 .. MaxCommits /\ NextCommit \in NoVer .. MaxCommits
      BY DEF NextCommit, TypeOK, NoVer
    <3>2. reqPart \in Part
      BY <2>4 DEF SyncDone, TypeOK
    <3>3. pc' \in [Thread -> PC]
      BY <2>4 DEF SyncDone, Go, TypeOK, PC
    <3>4. ncommit' \in 0 .. MaxCommits /\ bakVer' \in [Part -> NoVer .. MaxCommits]
      BY <2>4, <3>1 DEF SyncDone, BackupData, TypeOK
    <3>5. bakData' \in [Part -> Content] /\ bakDirty' \in [Part -> SUBSET Sect]
      BY <2>4, <3>2 DEF SyncDone, BackupData, TypeOK
    <3> QED BY <2>4, <3>3, <3>4, <3>5 DEF SyncDone, TypeOK
  <2>5. CASE SyncFail
    BY <2>5 DEF SyncFail, RestoreData, TypeOK
  <2> QED BY <1>4, <2>1, <2>2, <2>3, <2>4, <2>5 DEF SyncRequest
<1>5. CASE SyncSignal
  BY <1>5 DEF SyncSignal, TypeOK, PC
<1>6. CASE SpuriousWake
  BY <1>6 DEF SpuriousWake, Go, TypeOK, PC
<1>7. ASSUME NEW t \in Thread, SaveToDisk(t) PROVE TypeOK'
  <2>1. CASE SaveCheck(t)
    <3>1. at' \in [Thread -> 0 .. PartNum]
      BY <2>1 DEF SaveCheck, TypeOK
    <3>2. pc' \in [Thread -> PC]
      BY <2>1 DEF SaveCheck, Go, TypeOK, PC
    <3> QED BY <2>1, <3>1, <3>2 DEF SaveCheck, TypeOK
  <2>2. CASE SaveGet(t)
    BY <2>2 DEF SaveGet, GetData, Go, TypeOK, PC
  <2>3. CASE SaveClear(t)
    <3>1. at[t] \in Part
      BY <2>3, Index DEF SaveClear, Working
    <3>2. at' \in [Thread -> 0 .. PartNum]
      <4>1. at[t] + 1 \in 0 .. PartNum
        BY <3>1, ConstantFacts DEF Part
      <4> QED BY <2>3, <4>1 DEF SaveClear, TypeOK
    <3>3. pc' \in [Thread -> PC]
      BY <2>3 DEF SaveClear, Go, TypeOK, PC
    <3>4. toDirty' \in [Part -> SUBSET Sect]
      BY <2>3, <3>1 DEF SaveClear, TypeOK
    <3>5. floor' \in [Part -> NoVer .. MaxCommits]
      <4>1. floor' = floor \/ floor' = [floor EXCEPT ![at[t]] = toVer[at[t]]]
        BY <2>3 DEF SaveClear
      <4>2. toVer[at[t]] \in NoVer .. MaxCommits
        BY <3>1 DEF TypeOK
      <4> QED BY <4>1, <4>2 DEF TypeOK
    <3> QED BY <2>3, <3>2, <3>3, <3>4, <3>5 DEF SaveClear, TypeOK
  <2>4. ASSUME NEW f, NEW h, NEW w \in PC, NEW n \in PC, OpenImage(t, f, h, w, n)
        PROVE  TypeOK'
    <3>1. image' \in [Part -> [File -> Image]] /\ faulted' \in SUBSET FaultKinds
      BY <2>4, PutType DEF OpenImage, TypeOK, Fail, FaultKinds
    <3> QED BY <2>4, <3>1 DEF OpenImage, TypeOK, Go
  <2>5. ASSUME NEW f, NEW h \in Working, NEW n \in PC, WriteImage(t, f, h, n)
        PROVE  TypeOK'
    <3>1. Good(toData[at[t]], toVer[at[t]]) \in Image
      BY <2>5, Index DEF WriteImage, TypeOK
    <3>2. image' \in [Part -> [File -> Image]] /\ faulted' \in SUBSET FaultKinds
      BY <2>5, <3>1, PutType DEF WriteImage, TypeOK, Fail, FaultKinds
    <3> QED BY <2>5, <3>2 DEF WriteImage, TypeOK, Go
  <2>6. CASE RamDiskWrite(t)
    BY <2>4, <2>5, <2>6 DEF RamDiskWrite, PC, Working
  <2> QED BY <1>7, <2>1, <2>2, <2>3, <2>6 DEF SaveToDisk
<1>8. CASE Crash
  BY <1>8 DEF Crash, TypeOK, PC
<1>9. ASSUME NEW p \in Part, NEW f \in File, Decay(p, f) PROVE TypeOK'
  <2>1. image' \in [Part -> [File -> Image]]
    BY <1>9, PutType DEF Decay, TypeOK
  <2> QED BY <1>9, <2>1 DEF Decay, TypeOK, Fail, FaultKinds
<1>10. CASE UNCHANGED vars
  BY <1>10 DEF TypeOK
<1> QED BY <1>1, <1>2, <1>3, <1>4, <1>5, <1>6, <1>7, <1>8, <1>9, <1>10
           DEF Next, Boot

(***************************************************************************)
(* Who runs when                                                           *)
(***************************************************************************)
LEMMA InitControl == Init => Control
BY ConstantFacts DEF Init, Control, Thread, BootPC, SavePC, LoopPC

\* Every step keeps the two threads in the places Control gives them.
LEMMA NextControl ==
  ASSUME TypeOK, Control, [Next]_vars
  PROVE  Control'
<1> USE ConstantFacts, FlagAssumption
<1> USE DEF vars, ramVars, reqVars, ghostVars, BootPC, SavePC, LoopPC, Thread,
            Control, Go
<1>1. ASSUME pc["sync"] \in BootPC, BootNext, UNCHANGED reqVars PROVE Control'
  <2>1. CASE at["sync"] + 1 = PartNum
    BY <1>1, <2>1 DEF BootNext, TypeOK
  <2>2. CASE at["sync"] + 1 # PartNum
    <3>1. at["sync"] + 1 \in Part
      BY <1>1, <2>2 DEF Part
    <3> QED BY <1>1, <2>2, <3>1 DEF BootNext, TypeOK
  <2> QED BY <2>1, <2>2
<1>2. CASE BootRead
  BY <1>1, <1>2 DEF BootRead, TypeOK
<1>3. CASE BootFix
  BY <1>1, <1>3 DEF BootFix, TypeOK
<1>4. CASE BootFixWrite
  BY <1>1, <1>4 DEF BootFixWrite, TypeOK
<1>5. CASE SyncRequest
  <2>1. ASSUME NEW p \in Part, SyncHead(p) PROVE Control'
    BY <2>1 DEF SyncHead, TypeOK
  <2>2. ASSUME NEW S \in Ranges, SyncBody(S) PROVE Control'
    BY <2>2 DEF SyncBody, MarkDirty, TypeOK
  <2>3. ASSUME NEW v \in Val, SyncData(v) PROVE Control'
    BY <2>3 DEF SyncData, WriteData, TypeOK
  <2>4. CASE SyncDone
    BY <2>4 DEF SyncDone, TypeOK
  <2>5. CASE SyncFail
    BY <2>5 DEF SyncFail, TypeOK
  <2> QED BY <1>5, <2>1, <2>2, <2>3, <2>4, <2>5 DEF SyncRequest
<1>6. CASE SyncSignal
  BY <1>6 DEF SyncSignal, TypeOK
<1>7. CASE SpuriousWake
  BY <1>7, SpuriousAssumption DEF SpuriousWake, TypeOK
<1>8. ASSUME NEW t \in Thread, SaveToDisk(t) PROVE Control'
  <2>1. CASE SaveCheck(t)
    <3>1. CASE at[t] < PartNum /\ bakDirty[at[t]] # {}
      <4>1. at[t] \in Part
        BY <3>1 DEF TypeOK, Part
      <4> QED BY <2>1, <3>1, <4>1 DEF SaveCheck, TypeOK
    <3>2. CASE at[t] < PartNum /\ bakDirty[at[t]] = {}
      BY <2>1, <3>2 DEF SaveCheck, TypeOK
    <3>3. CASE at[t] = PartNum
      BY <2>1, <3>3 DEF SaveCheck, TypeOK
    <3> QED BY <2>1, <3>1, <3>2, <3>3 DEF SaveCheck
  <2>2. CASE SaveGet(t)
    BY <2>2 DEF SaveGet, TypeOK
  <2>3. CASE SaveClear(t)
    BY <2>3 DEF SaveClear, TypeOK, Part
  <2>4. CASE RamDiskWrite(t)
    BY <2>4 DEF RamDiskWrite, OpenImage, WriteImage, TypeOK
  <2> QED BY <1>8, <2>1, <2>2, <2>3, <2>4 DEF SaveToDisk
<1>9. CASE Crash
  BY <1>9 DEF Crash
<1>10. ASSUME NEW p \in Part, NEW f \in File, Decay(p, f) PROVE Control'
  BY <1>10 DEF Decay
<1>11. CASE UNCHANGED vars
  BY <1>11
<1> QED BY <1>2, <1>3, <1>4, <1>5, <1>6, <1>7, <1>8, <1>9, <1>10, <1>11
           DEF Next, Boot

\* In every reachable state of nvitemd the buffers, images and counters have
\* the types the code gives them, and the threads' roles do not mix: only one
\* of them is ever inside saveToDisk.
THEOREM TypeCorrect == Spec => [](TypeOK /\ Control)
<1>1. Init => TypeOK /\ Control
  BY InitType, InitControl
<1>2. TypeOK /\ Control /\ [Next]_vars => (TypeOK /\ Control)'
  BY NextType, NextControl
<1> QED BY <1>1, <1>2, PTL DEF Spec

(***************************************************************************)
(* The dirty bitmaps                                                       *)
(***************************************************************************)
LEMMA NextCoverage ==
  ASSUME TypeOK, Control, Coverage, Marked, [Next]_vars
  PROVE  Coverage' /\ Marked'
<1> USE DEF vars, ramVars, reqVars, ghostVars, Coverage, Marked, Diff
<1>1. ASSUME NEW p \in Part, NEW c, NEW v, Load(p, c, v), reqPart = NoPart,
             UNCHANGED reqVars
      PROVE  Coverage' /\ Marked'
  BY <1>1 DEF Load, TypeOK
<1>2. CASE BootRead
  <2>1. at["sync"] \in Part /\ reqPart = NoPart
    BY <1>2 DEF BootRead, Control, Thread, BootPC
  <2> QED BY <1>1, <1>2, <2>1 DEF BootRead
<1>3. CASE BootFix \/ BootFixWrite
  BY <1>3 DEF BootFix, BootFixWrite
<1>4. CASE SyncRequest
  <2>1. ASSUME NEW p \in Part, SyncHead(p) PROVE Coverage' /\ Marked'
    BY <2>1 DEF SyncHead, Control
  <2>2. ASSUME NEW S \in Ranges, SyncBody(S) PROVE Coverage' /\ Marked'
    BY <2>2 DEF SyncBody, MarkDirty, TypeOK
  <2>3. ASSUME NEW v \in Val, SyncData(v) PROVE Coverage' /\ Marked'
    <3>1. PICK s \in win : WriteData(s, v)
      BY <2>3 DEF SyncData
    <3>2. reqPart \in Part /\ s \in fromDirty[reqPart]
      BY <3>1 DEF TypeOK, Control
    <3>3. \A p \in Part, x \in Sect :
            fromData'[p][x] # fromData[p][x] => x \in fromDirty[p]
      BY <3>1, <3>2 DEF WriteData, TypeOK, Content
    <3>4. win' \subseteq win /\ UNCHANGED <<fromDirty, bakData, bakDirty, toData, reqPart>>
      BY <2>3, <3>1 DEF SyncData, WriteData
    <3> QED BY <3>3, <3>4
  <2>4. CASE SyncDone
    BY <2>4 DEF SyncDone, BackupData, TypeOK
  <2>5. CASE SyncFail
    BY <2>5 DEF SyncFail, RestoreData, TypeOK
  <2> QED BY <1>4, <2>1, <2>2, <2>3, <2>4, <2>5 DEF SyncRequest
<1>5. CASE SyncSignal \/ SpuriousWake
  BY <1>5 DEF SyncSignal, SpuriousWake
<1>6. ASSUME NEW t \in Thread, SaveToDisk(t) PROVE Coverage' /\ Marked'
  <2>1. CASE SaveCheck(t)
    BY <2>1 DEF SaveCheck
  <2>2. CASE SaveGet(t)
    BY <2>2 DEF SaveGet, GetData, TypeOK
  <2>3. CASE SaveClear(t)
    BY <2>3 DEF SaveClear
  <2>4. CASE RamDiskWrite(t)
    BY <2>4 DEF RamDiskWrite, OpenImage, WriteImage
  <2> QED BY <1>6, <2>1, <2>2, <2>3, <2>4 DEF SaveToDisk
<1>7. CASE Crash
  BY <1>7 DEF Crash
<1>8. ASSUME NEW p \in Part, NEW f \in File, Decay(p, f) PROVE Coverage' /\ Marked'
  BY <1>8 DEF Decay
<1>9. CASE UNCHANGED vars
  BY <1>9
<1> QED BY <1>2, <1>3, <1>4, <1>5, <1>6, <1>7, <1>8, <1>9 DEF Next, Boot

\* Whatever requests, aborts, saves and crashes come in whatever order, a
\* sector in which two consecutive buffers differ is marked dirty.
THEOREM CoverageCorrect == Spec => []Coverage
<1>1. Init => Coverage /\ Marked
  BY DEF Init, Coverage, Marked, Diff
<1>2. TypeOK /\ Control /\ Coverage /\ Marked /\ [Next]_vars
        => (Coverage /\ Marked)'
  BY NextCoverage
<1> QED BY <1>1, <1>2, TypeCorrect, PTL DEF Spec

(***************************************************************************)
(* The images                                                              *)
(***************************************************************************)
\* Faults are remembered.
LEMMA NoFaultBefore ==
  ASSUME TypeOK, [Next]_vars, faulted' = {}
  PROVE  faulted = {}
<1> USE DEF vars, ramVars, reqVars, ghostVars, Fail
<1>1. CASE Boot
  BY <1>1 DEF Boot, BootRead, BootFix, BootFixWrite
<1>2. CASE SyncRequest \/ SyncSignal \/ SpuriousWake \/ Crash
  BY <1>2 DEF SyncRequest, SyncHead, SyncBody, SyncData, SyncDone, SyncFail,
              SyncSignal, SpuriousWake, Crash
<1>3. ASSUME NEW t \in Thread, SaveToDisk(t) PROVE faulted = {}
  BY <1>3 DEF SaveToDisk, SaveCheck, SaveGet, SaveClear, RamDiskWrite,
              OpenImage, WriteImage
<1>4. ASSUME NEW p \in Part, NEW f \in File, Decay(p, f) PROVE faulted = {}
  BY <1>4 DEF Decay
<1> QED BY <1>1, <1>2, <1>3, <1>4 DEF Next

\* Commit numbers only grow, and no copy is newer than the last commit.
LEMMA NextCommitGrows == ncommit \in 0 .. MaxCommits => ncommit <= NextCommit
BY MaxCommitsAssumption DEF NextCommit

\* No thread is moved into or out of a write of p, and p stays as loaded as
\* it was.
SameSteps(p) ==
  /\ Loaded(p)' <=> Loaded(p)
  /\ \A l \in SavePC \cup {"bootFix", "bootFixWrite"} :
       InStep(p, {l})' <=> InStep(p, {l})

\* A step that leaves the images, toDisk and the ghosts of p alone, and moves
\* no thread into or out of a write of p, keeps the invariant of p.
LEMMA ImageFrame ==
  ASSUME TypeOK, NEW p \in Part, ImageInv(p),
         image'[p] = image[p], toData'[p] = toData[p], toVer'[p] = toVer[p],
         toDirty'[p] = toDirty[p], floor'[p] = floor[p], ncommit <= ncommit',
         ncommit' \in Int,
         bakVer'[p] = bakVer[p] \/ bakVer'[p] = ncommit',
         SameSteps(p)
  PROVE  ImageInv(p)'
<1> USE DEF SavePC, SameSteps
<1>1. \A S \in SUBSET (SavePC \cup {"bootFix", "bootFixWrite"}) :
         InStep(p, S)' <=> InStep(p, S)
  <2> SUFFICES ASSUME NEW S \in SUBSET (SavePC \cup {"bootFix", "bootFixWrite"})
               PROVE  InStep(p, S)' <=> InStep(p, S)
    OBVIOUS
  <2>1. InStep(p, S) <=> \E l \in S : InStep(p, {l})
    BY DEF InStep
  <2>2. InStep(p, S)' <=> \E l \in S : InStep(p, {l})'
    BY DEF InStep
  <2> QED BY <2>1, <2>2
<1>2. /\ InStep(p, {"bootFix", "bootFixWrite"})' <=> InStep(p, {"bootFix", "bootFixWrite"})
      /\ InStep(p, SavePC)' <=> InStep(p, SavePC)
      /\ InStep(p, {"bakOpen", "bakWrite", "mainOpen"})'
           <=> InStep(p, {"bakOpen", "bakWrite", "mainOpen"})
      /\ InStep(p, {"mainOpen", "mainWrite", "clear", "bootFix", "bootFixWrite"})'
           <=> InStep(p, {"mainOpen", "mainWrite", "clear", "bootFix", "bootFixWrite"})
      /\ InStep(p, {"mainWrite", "bootFix", "bootFixWrite"})'
           <=> InStep(p, {"mainWrite", "bootFix", "bootFixWrite"})
      /\ InStep(p, {"clear"})' <=> InStep(p, {"clear"})
  BY <1>1
<1>3. /\ toVer[p] \in Int /\ bakVer[p] \in Int /\ floor[p] \in Int
      /\ ncommit \in Int
  BY DEF TypeOK, NoVer
<1>4. /\ image[p]["main"].ok => image[p]["main"].ver \in Int
      /\ image[p]["bak"].ok => image[p]["bak"].ver \in Int
  BY ImageFacts DEF TypeOK, File, NoVer
<1> QED BY <1>2, <1>3, <1>4 DEF ImageInv, IsCopy, Diff

\* Before and after a step of saveToDisk by t, only t can be at a step that
\* touches images.
LEMMA OneSaver ==
  ASSUME TypeOK, Control, NEW t \in Thread, pc[t] \in LoopPC,
         NEW l \in LoopPC, pc' = [pc EXCEPT ![t] = l]
  PROVE  /\ \A u \in Thread \ {t} :
              pc[u] \notin LoopPC \cup BootPC /\ pc'[u] = pc[u]
         /\ pc'[t] = l /\ Booted /\ Booted'
BY DEF TypeOK, Control, Thread, LoopPC, SavePC, BootPC, Booted

\* What a save step of t changes, seen from a partition it does not work on.
LEMMA OtherPartition ==
  ASSUME TypeOK, Control, NEW t \in Thread, pc[t] \in LoopPC \ {"check"},
         NEW l \in LoopPC, pc' = [pc EXCEPT ![t] = l],
         NEW p \in Part, p # at[t],
         \/ UNCHANGED at
         \/ at' = [at EXCEPT ![t] = at[t] + 1] /\ l = "check"
  PROVE  SameSteps(p)
<1>1. /\ \A u \in Thread \ {t} :
            pc[u] \notin LoopPC \cup BootPC /\ pc'[u] = pc[u]
      /\ pc'[t] = l /\ Booted /\ Booted'
  BY OneSaver DEF LoopPC, SavePC
<1>2. \A k \in SavePC \cup {"bootFix", "bootFixWrite"} :
        ~InStep(p, {k}) /\ ~InStep(p, {k})'
  BY <1>1 DEF InStep, LoopPC, SavePC, BootPC, TypeOK
<1> QED BY <1>1, <1>2 DEF Loaded, SameSteps

\* The steps of saveToDisk keep what is known of the images.
LEMMA SaveImages ==
  ASSUME TypeOK, Control, Coverage, NEW t \in Thread, SaveToDisk(t),
         faulted = {}, faulted' = {}, \A u \in Thread : pc[u] \in SavePC => ret[u],
         NEW p \in Part, MainFirst[p], ImageInv(p)
  PROVE  ImageInv(p)'
<1> USE DEF vars, ramVars, reqVars, ghostVars, Go, Fail
<1> DEFINE m == image[p]["main"]
           b == image[p]["bak"]
<1>1. /\ toVer[p] \in Int /\ bakVer[p] \in Int /\ floor[p] \in Int
      /\ ncommit \in Int
      /\ m.ok => m.ver \in Int
      /\ b.ok => b.ver \in Int
  BY ImageFacts DEF TypeOK, File, NoVer
<1>2. /\ toData \in [Part -> Content] /\ toDirty \in [Part -> SUBSET Sect]
      /\ toVer \in [Part -> NoVer .. MaxCommits]
      /\ floor \in [Part -> NoVer .. MaxCommits]
      /\ image \in [Part -> [File -> Image]] /\ pc \in [Thread -> PC]
      /\ p \in Part
  BY DEF TypeOK
<1>3. CASE SaveCheck(t)
  <2>1. \A k \in SavePC \cup {"bootFix", "bootFixWrite"} :
          InStep(p, {k})' <=> InStep(p, {k})
    <3>1. UNCHANGED <<pc, at>> \/ (pc[t] = "check" /\ pc'[t] \in {"get", "wait", "idle", "check"})
      BY <1>2, <1>3 DEF SaveCheck
    <3>2. \A u \in Thread : u # t => pc'[u] = pc[u] /\ at'[u] = at[u]
      BY <1>2, <1>3 DEF SaveCheck, TypeOK
    <3> QED BY <3>1, <3>2 DEF InStep, SavePC
  <2>2. SameSteps(p)
    BY <1>3, <2>1 DEF SameSteps, SaveCheck, Loaded, Booted, TypeOK, Control,
                      BootPC, LoopPC, Thread
  <2>3. /\ image' = image /\ toData' = toData /\ toVer' = toVer
        /\ toDirty' = toDirty /\ floor' = floor /\ ncommit' = ncommit
        /\ bakVer' = bakVer
    BY <1>3 DEF SaveCheck
  <2> QED BY <1>1, <2>2, <2>3, ImageFrame
<1>4. CASE ~SaveCheck(t) /\ at[t] # p
  <2>1. PICK l \in LoopPC :
          /\ pc[t] \in LoopPC \ {"check"} /\ pc' = [pc EXCEPT ![t] = l]
          /\ \/ UNCHANGED at
             \/ at' = [at EXCEPT ![t] = at[t] + 1] /\ l = "check"
    BY <1>4 DEF SaveToDisk, SaveGet, RamDiskWrite, OpenImage, WriteImage,
                SaveClear, LoopPC, SavePC
  <2>2. SameSteps(p)
    BY <1>4, <2>1, OtherPartition
  <2>3. /\ image'[p] = image[p] /\ toData'[p] = toData[p]
        /\ toVer'[p] = toVer[p] /\ toDirty'[p] = toDirty[p]
        /\ floor'[p] = floor[p] /\ ncommit' = ncommit /\ bakVer' = bakVer
    BY <1>2, <1>4 DEF SaveToDisk, SaveGet, GetData, RamDiskWrite, OpenImage,
                      WriteImage, SaveClear, Put
  <2> QED BY <1>1, <2>2, <2>3, ImageFrame
\* Where p is being written, the steps of the invariant are those of t.
<1>5. ASSUME at[t] = p, pc[t] \in {"get"} \cup SavePC, at'[t] = p,
             NEW l \in SavePC, pc' = [pc EXCEPT ![t] = l]
      PROVE  /\ Booted /\ Booted'
             /\ InStep(p, SavePC)
                  <=> pc[t] \in SavePC
             /\ InStep(p, SavePC)'
                  <=> l \in SavePC
             /\ InStep(p, {"bootFix", "bootFixWrite"})
                  <=> pc[t] \in {"bootFix", "bootFixWrite"}
             /\ InStep(p, {"bootFix", "bootFixWrite"})'
                  <=> l \in {"bootFix", "bootFixWrite"}
             /\ InStep(p, {"bakOpen", "bakWrite", "mainOpen"})
                  <=> pc[t] \in {"bakOpen", "bakWrite", "mainOpen"}
             /\ InStep(p, {"bakOpen", "bakWrite", "mainOpen"})'
                  <=> l \in {"bakOpen", "bakWrite", "mainOpen"}
             /\ InStep(p, {"mainOpen", "mainWrite", "clear", "bootFix", "bootFixWrite"})
                  <=> pc[t] \in {"mainOpen", "mainWrite", "clear", "bootFix", "bootFixWrite"}
             /\ InStep(p, {"mainOpen", "mainWrite", "clear", "bootFix", "bootFixWrite"})'
                  <=> l \in {"mainOpen", "mainWrite", "clear", "bootFix", "bootFixWrite"}
             /\ InStep(p, {"mainWrite", "bootFix", "bootFixWrite"})
                  <=> pc[t] \in {"mainWrite", "bootFix", "bootFixWrite"}
             /\ InStep(p, {"mainWrite", "bootFix", "bootFixWrite"})'
                  <=> l \in {"mainWrite", "bootFix", "bootFixWrite"}
             /\ InStep(p, {"clear"})
                  <=> pc[t] \in {"clear"}
             /\ InStep(p, {"clear"})'
                  <=> l \in {"clear"}
  <2>1. /\ \A u \in Thread \ {t} :
              pc[u] \notin LoopPC \cup BootPC /\ pc'[u] = pc[u]
        /\ pc'[t] = l /\ Booted /\ Booted'
    BY <1>5, OneSaver DEF LoopPC
  <2>2. \A S \in SUBSET (LoopPC \cup BootPC) :
          /\ InStep(p, S) <=> pc[t] \in S
          /\ InStep(p, S)' <=> l \in S
    BY <1>2, <1>5, <2>1 DEF InStep
  <2> QED BY <2>1, <2>2 DEF LoopPC, SavePC, BootPC
<1> USE DEF SavePC
<1>6. CASE SaveGet(t) /\ at[t] = p
  <2>1. /\ pc[t] = "get" /\ pc' = [pc EXCEPT ![t] = "bakOpen"] /\ at'[t] = p
        /\ toData'[p] = bakData[p] /\ toVer'[p] = bakVer[p]
        /\ toDirty'[p] = toDirty[p] \cup bakDirty[p]
        /\ UNCHANGED <<image, ncommit, floor, bakVer>>
    BY <1>2, <1>6 DEF SaveGet, GetData
  <2>2. /\ m.ok /\ IsCopy(m, p) /\ toDirty[p] = {} /\ floor[p] <= toVer[p]
        /\ toVer[p] <= bakVer[p] /\ bakVer[p] <= ncommit
    BY <1>5, <1>6, <2>1 DEF ImageInv, Loaded, IsCopy
  <2>3. Diff(m.data, toData'[p]) \subseteq toDirty'[p]
    BY <2>1, <2>2 DEF Coverage, Diff, IsCopy
  <2> QED BY <1>1, <1>5, <1>6, <2>1, <2>2, <2>3 DEF ImageInv, Diff, Loaded
<1>7. ASSUME NEW f \in File, NEW i \in Image, Put(p, f, i)
      PROVE  /\ image'[p][f] = i
             /\ \A g \in File \ {f} : image'[p][g] = image[p][g]
  BY <1>2, <1>7 DEF Put
<1>8. CASE OpenImage(t, "bak", "bakOpen", "bakWrite", "mainOpen") /\ at[t] = p
  <2>1. /\ pc[t] = "bakOpen" /\ pc' = [pc EXCEPT ![t] = "bakWrite"] /\ at'[t] = p
        /\ Put(p, "bak", Broken("Torn"))
        /\ UNCHANGED <<toData, toDirty, toVer, ncommit, floor, bakVer>>
    BY <1>8 DEF OpenImage
  <2>2. image'[p]["main"] = m /\ ~image'[p]["bak"].ok
    BY <1>7, <2>1, ImageFacts DEF File, Broken
  <2> QED BY <1>1, <1>5, <1>8, <2>1, <2>2 DEF ImageInv, Diff, Loaded
<1>9. CASE WriteImage(t, "bak", "bakWrite", "mainOpen") /\ at[t] = p
  <2>1. /\ pc[t] = "bakWrite" /\ pc' = [pc EXCEPT ![t] = "mainOpen"] /\ at'[t] = p
        /\ Put(p, "bak", Good(toData[p], toVer[p]))
        /\ UNCHANGED <<toData, toDirty, toVer, ncommit, floor, bakVer>>
    BY <1>9 DEF WriteImage
  <2>2. image'[p]["main"] = m /\ image'[p]["bak"] = Good(toData[p], toVer[p])
    BY <1>2, <1>7, <2>1, ImageFacts DEF File
  <2>3. IsCopy(image[p]["bak"], p)' /\ image'[p]["bak"].ver = toVer[p]
    BY <2>1, <2>2 DEF IsCopy, Good
  <2> QED BY <1>1, <1>5, <1>9, <2>1, <2>2, <2>3 DEF ImageInv, Diff, Loaded, IsCopy
<1>10. CASE OpenImage(t, "main", "mainOpen", "mainWrite", "clear") /\ at[t] = p
  <2>1. /\ pc[t] = "mainOpen" /\ pc' = [pc EXCEPT ![t] = "mainWrite"] /\ at'[t] = p
        /\ Put(p, "main", Broken("Torn"))
        /\ UNCHANGED <<toData, toDirty, toVer, ncommit, floor, bakVer>>
    BY <1>10 DEF OpenImage
  <2>2. image'[p]["bak"] = b /\ ~image'[p]["main"].ok
    BY <1>7, <2>1, ImageFacts DEF File, Broken
  <2> QED BY <1>1, <1>5, <1>10, <2>1, <2>2 DEF ImageInv, Diff, Loaded, IsCopy
<1>11. CASE WriteImage(t, "main", "mainWrite", "clear") /\ at[t] = p
  <2>1. /\ pc[t] = "mainWrite" /\ pc' = [pc EXCEPT ![t] = "clear"] /\ at'[t] = p
        /\ Put(p, "main", Good(toData[p], toVer[p]))
        /\ UNCHANGED <<toData, toDirty, toVer, ncommit, floor, bakVer>>
    BY <1>11 DEF WriteImage
  <2>2. image'[p]["bak"] = b /\ image'[p]["main"] = Good(toData[p], toVer[p])
    BY <1>2, <1>7, <2>1, ImageFacts DEF File
  <2>3. IsCopy(image[p]["main"], p)' /\ image'[p]["main"].ver = toVer[p]
    BY <2>1, <2>2 DEF IsCopy, Good
  <2> QED BY <1>1, <1>5, <1>11, <2>1, <2>2, <2>3 DEF ImageInv, Diff, Loaded, IsCopy
<1>12. CASE SaveClear(t) /\ at[t] = p
  <2>1. /\ pc[t] = "clear" /\ pc' = [pc EXCEPT ![t] = "check"]
        /\ at'[t] = p + 1 /\ ret[t]
    BY <1>12 DEF SaveClear, TypeOK
  <2>2. /\ toDirty'[p] = {} /\ floor'[p] = toVer[p]
        /\ UNCHANGED <<image, toData, toVer, ncommit, bakVer>>
    BY <1>2, <1>12, <2>1 DEF SaveClear
  <2>3. /\ \A u \in Thread \ {t} :
              pc[u] \notin LoopPC \cup BootPC /\ pc'[u] = pc[u]
        /\ pc'[t] = "check" /\ Booted /\ Booted'
    BY <2>1, OneSaver DEF LoopPC
  <2>4. \A S \in SUBSET (SavePC \cup BootPC) : ~InStep(p, S)'
    BY <2>3 DEF InStep, LoopPC, BootPC
  <2>5. InStep(p, {"clear"})
        /\ InStep(p, {"mainOpen", "mainWrite", "clear", "bootFix", "bootFixWrite"})
    BY <1>12, <2>1 DEF InStep
  <2>6. IsCopy(m, p) /\ IsCopy(b, p) /\ floor[p] <= toVer[p]
          /\ toVer[p] <= bakVer[p] /\ bakVer[p] <= ncommit
    BY <2>3, <2>5 DEF ImageInv, Loaded
  <2>7. /\ ~InStep(p, SavePC)'
        /\ ~InStep(p, {"bootFix", "bootFixWrite"})'
        /\ ~InStep(p, {"bakOpen", "bakWrite", "mainOpen"})'
        /\ ~InStep(p, {"mainOpen", "mainWrite", "clear", "bootFix", "bootFixWrite"})'
        /\ ~InStep(p, {"mainWrite", "bootFix", "bootFixWrite"})'
        /\ ~InStep(p, {"clear"})'
    BY <2>4 DEF BootPC
  <2> QED BY <1>1, <2>2, <2>3, <2>6, <2>7 DEF ImageInv, IsCopy, Loaded
<1> QED BY <1>3, <1>4, <1>6, <1>8, <1>9, <1>10, <1>11, <1>12
        DEF SaveToDisk, RamDiskWrite

\* initBuf, seen from the partition it loads and from the others.
LEMMA BootImages ==
  ASSUME TypeOK, Control, Boot, faulted = {}, faulted' = {},
         NEW p \in Part, MainFirst[p], ImageInv(p)
  PROVE  ImageInv(p)'
<1> USE DEF vars, ramVars, reqVars, ghostVars, Go, Fail, BootPC
<1> DEFINE q == at["sync"]
           m == image[p]["main"]
           b == image[p]["bak"]
<1>1. /\ toVer[p] \in Int /\ bakVer[p] \in Int /\ floor[p] \in Int
      /\ ncommit \in Int
      /\ m.ok => m.ver \in Int
      /\ b.ok => b.ver \in Int
  BY ImageFacts DEF TypeOK, File, NoVer
<1>2. /\ toData \in [Part -> Content] /\ bakData \in [Part -> Content]
      /\ toVer \in [Part -> NoVer .. MaxCommits]
      /\ bakVer \in [Part -> NoVer .. MaxCommits]
      /\ floor \in [Part -> NoVer .. MaxCommits]
      /\ image \in [Part -> [File -> Image]] /\ pc \in [Thread -> PC]
      /\ p \in Part
  BY DEF TypeOK
<1>3. q \in Part /\ pc["sync"] \in BootPC /\ pc["saver"] = "none" /\ ~Booted
  BY DEF Boot, BootRead, BootFix, BootFixWrite, Control, Thread, Booted
\* Before the step only the sync thread can be at a step that matters.
<1>4. \A S \in SUBSET (LoopPC \cup BootPC) :
        InStep(p, S) <=> q = p /\ pc["sync"] \in S
  BY <1>3 DEF InStep, Thread, LoopPC, SavePC
<1>5. \A S \in SUBSET SavePC : ~InStep(p, S)
  BY <1>3, <1>4 DEF SavePC, LoopPC
\* initBuf steps on to the next partition.
<1>6. ASSUME BootNext
      PROVE  /\ \A S \in SUBSET (SavePC \cup {"bootFix", "bootFixWrite"}) :
                  ~InStep(p, S)'
             /\ Loaded(p)' <=> p <= q
  <2>1. CASE q + 1 = PartNum
    <3>1. pc' = [pc EXCEPT !["sync"] = "idle", !["saver"] = "wait"]
      BY <1>6, <2>1 DEF BootNext
    <3>2. pc'["sync"] = "idle" /\ pc'["saver"] = "wait"
      BY <1>2, <3>1 DEF Thread
    <3>3. Booted'
      BY <3>2 DEF Booted
    <3>4. p <= q
      BY <1>2, <1>3, <2>1, PartNumAssumption DEF Part
    <3> QED BY <3>2, <3>3, <3>4 DEF InStep, Thread, SavePC, Loaded
  <2>2. CASE q + 1 # PartNum
    <3>1. pc' = [pc EXCEPT !["sync"] = "bootRead"] /\ at'["sync"] = q + 1
      BY <1>6, <2>2 DEF BootNext, TypeOK, Thread
    <3>2. pc'["sync"] = "bootRead" /\ pc'["saver"] = "none"
      BY <1>2, <1>3, <3>1 DEF Thread
    <3>3. ~Booted' /\ (p < q + 1 <=> p <= q)
      BY <1>3, <3>2, PartNumAssumption DEF Booted, Part
    <3> QED BY <3>1, <3>2, <3>3 DEF InStep, Thread, SavePC, Loaded
  <2> QED BY <2>1, <2>2
<1>7. CASE q # p
  <2>1. /\ image'[p] = image[p] /\ toData'[p] = toData[p] /\ toVer'[p] = toVer[p]
        /\ toDirty'[p] = toDirty[p] /\ floor'[p] = floor[p]
        /\ ncommit' = ncommit /\ bakVer'[p] = bakVer[p]
    BY <1>2, <1>7 DEF Boot, BootRead, BootFix, BootFixWrite, Load, Put
  <2>2. SameSteps(p)
    <3>1. CASE BootNext
      <4>1. p <= q <=> p < q
        BY <1>3, <1>7, PartNumAssumption DEF Part
      <4>2. Loaded(p) <=> p < q
        BY <1>3 DEF Loaded
      <4>3. \A l \in SavePC \cup {"bootFix", "bootFixWrite"} :
              ~InStep(p, {l}) /\ ~InStep(p, {l})'
        BY <1>4, <1>6, <1>7, <3>1 DEF LoopPC
      <4> QED BY <1>6, <3>1, <4>1, <4>2, <4>3 DEF SameSteps
    <3>2. CASE at' = at /\ \E l \in BootPC : pc' = [pc EXCEPT !["sync"] = l]
      <4>1. ~Booted' /\ pc'["saver"] = "none" /\ pc'["sync"] \in BootPC
        BY <1>2, <1>3, <3>2 DEF Booted, Thread
      <4>2. \A l \in SavePC \cup {"bootFix", "bootFixWrite"} :
              ~InStep(p, {l}) /\ ~InStep(p, {l})'
        BY <1>3, <1>7, <3>2, <4>1 DEF InStep, Thread, SavePC
      <4> QED BY <1>3, <3>2, <4>1, <4>2 DEF SameSteps, Loaded
    <3> QED BY <3>1, <3>2 DEF Boot, BootRead, BootFix, BootFixWrite
  <2> QED BY <1>1, <2>1, <2>2, ImageFrame
<1>8. ASSUME BootNext, q = p
      PROVE  /\ Loaded(p)'
             /\ ~InStep(p, SavePC)'
             /\ ~InStep(p, {"bootFix", "bootFixWrite"})'
             /\ ~InStep(p, {"bakOpen", "bakWrite", "mainOpen"})'
             /\ ~InStep(p, {"mainOpen", "mainWrite", "clear", "bootFix", "bootFixWrite"})'
             /\ ~InStep(p, {"mainWrite", "bootFix", "bootFixWrite"})'
             /\ ~InStep(p, {"clear"})'
  <2>1. Loaded(p)'
    BY <1>6, <1>8, <1>3, PartNumAssumption DEF Part
  <2> QED BY <1>6, <1>8, <2>1 DEF SavePC
\* initBuf stays at p to repair its main image.
<1>9. ASSUME q = p, at' = at, NEW l \in {"bootFix", "bootFixWrite"},
             pc' = [pc EXCEPT !["sync"] = l]
      PROVE  /\ ~Loaded(p)'
             /\ ~InStep(p, SavePC)'
             /\ InStep(p, {"bootFix", "bootFixWrite"})'
             /\ ~InStep(p, {"bakOpen", "bakWrite", "mainOpen"})'
             /\ InStep(p, {"mainOpen", "mainWrite", "clear", "bootFix", "bootFixWrite"})'
             /\ InStep(p, {"mainWrite", "bootFix", "bootFixWrite"})'
             /\ ~InStep(p, {"clear"})'
  <2>1. pc'["sync"] = l /\ pc'["saver"] = "none" /\ at'["sync"] = p
    BY <1>2, <1>3, <1>9 DEF Thread
  <2>2. ~Loaded(p)'
    BY <2>1, PartNumAssumption DEF Loaded, Booted, Part
  <2>3. \A S : InStep(p, S)' <=> l \in S \/ (at'["saver"] = p /\ "none" \in S)
    BY <2>1 DEF InStep, Thread
  <2> QED BY <1>9, <2>2, <2>3 DEF SavePC
<1>10. CASE BootRead /\ q = p
  <2>1. First(p) = "main" /\ Second(p) = "bak" /\ m \in Image /\ b \in Image
    BY <1>2 DEF First, Second, Other, File
  <2>2. ~InStep(p, SavePC) /\ toDirty[p] = {}
    BY <1>5 DEF ImageInv
  <2>3. /\ toDirty' = toDirty /\ image' = image /\ ncommit' = ncommit
    BY <1>10 DEF BootRead, Load
  <2>4. ASSUME NEW i \in Image, i.ok, Load(p, i.data, i.ver)
        PROVE  /\ IsCopy(i, p)' /\ floor'[p] = i.ver
               /\ toVer'[p] = i.ver /\ bakVer'[p] = i.ver
    BY <1>2, <2>4 DEF Load, IsCopy
  <2>5. CASE m.ok
    <3>1. Load(p, m.data, m.ver) /\ BootNext
      <4>1. m # Broken("Missing")
        BY <2>5 DEF Broken
      <4> QED BY <1>10, <2>1, <2>5, <4>1 DEF BootRead
    <3> QED BY <1>1, <1>8, <1>10, <2>1, <2>2, <2>3, <2>4, <2>5, <3>1
            DEF ImageInv, IsCopy
  <2>6. CASE ~m.ok
    <3>1. b.ok /\ b # Broken("Missing")
      BY <2>6 DEF ImageInv, Broken
    <3>2. Load(p, b.data, b.ver) /\ Go("sync", "bootFix") /\ at' = at
      BY <1>10, <2>1, <2>6, <3>1 DEF BootRead
    <3> QED BY <1>1, <1>9, <1>10, <2>1, <2>2, <2>3, <2>4, <2>6, <3>1, <3>2
            DEF ImageInv, IsCopy
  <2> QED BY <2>5, <2>6
<1>11. CASE (BootFix \/ BootFixWrite) /\ q = p
  <2>1. First(p) = "main" /\ m \in Image /\ b \in Image
    BY <1>2 DEF First, File
  <2>2. ~InStep(p, SavePC) /\ toDirty[p] = {}
    BY <1>5 DEF ImageInv
  <2>3. /\ InStep(p, {"bootFix", "bootFixWrite"})
        /\ InStep(p, {"mainOpen", "mainWrite", "clear", "bootFix", "bootFixWrite"})
    BY <1>4, <1>11 DEF BootFix, BootFixWrite, LoopPC, SavePC
  <2>4. /\ IsCopy(b, p) /\ floor[p] <= toVer[p] /\ toVer[p] <= bakVer[p]
        /\ bakVer[p] <= ncommit
    BY <2>3 DEF ImageInv
  <2>5. UNCHANGED <<ramVars, ncommit, floor>>
    BY <1>11 DEF BootFix, BootFixWrite
  <2>6. CASE BootFix
    <3>1. Put(p, "main", Broken("Torn")) /\ Go("sync", "bootFixWrite") /\ at' = at
      BY <1>11, <2>1, <2>6 DEF BootFix
    <3>2. image'[p]["bak"] = b /\ ~image'[p]["main"].ok
      BY <1>2, <3>1 DEF Put, File, Broken
    <3> QED BY <1>1, <1>9, <1>11, <2>2, <2>4, <2>5, <3>1, <3>2 DEF ImageInv, IsCopy
  <2>7. CASE BootFixWrite
    <3>1. Put(p, "main", Good(toData[p], toVer[p])) /\ BootNext
      BY <1>11, <2>1, <2>7 DEF BootFixWrite
    <3>2. image'[p]["bak"] = b /\ image'[p]["main"] = Good(toData[p], toVer[p])
      BY <1>2, <3>1 DEF Put, File
    <3>3. IsCopy(image[p]["main"], p)' /\ image'[p]["main"].ver = toVer[p]
      BY <2>5, <3>2 DEF IsCopy, Good
    <3> QED BY <1>1, <1>8, <1>11, <2>2, <2>4, <2>5, <3>1, <3>2, <3>3
            DEF ImageInv, IsCopy
  <2> QED BY <1>11, <2>6, <2>7
<1> QED BY <1>7, <1>10, <1>11 DEF Boot

\* A provisioned device satisfies what is known of the images.
LEMMA InitImages == Init => ImagesInv
<1> SUFFICES ASSUME Init, NEW p \in Part PROVE ImageInv(p)
  BY DEF Init, ImagesInv, SavePC, Thread
<1>1. \A S : InStep(p, S) => "bootRead" \in S \/ "none" \in S
  BY DEF Init, InStep, Thread
<1>2. ~Loaded(p)
  BY PartNumAssumption DEF Init, Loaded, Booted, Thread, Part
<1>3. PICK c \in [Part -> Content], d \in [Part -> BOOLEAN] :
        image = [q \in Part |-> [f \in File |->
                  IF f = "main" \/ d[q] THEN Good(c[q], 0)
                                        ELSE Broken("Missing")]]
  BY DEF Init
<1>4. image[p]["main"] = Good(c[p], 0)
  BY <1>3 DEF File
<1>5. image[p]["bak"] \in {Good(c[p], 0), Broken("Missing")}
  BY <1>3 DEF File
<1>6. /\ image[p]["main"].ok /\ image[p]["main"].ver = 0
      /\ image[p]["bak"].ok => image[p]["bak"].ver = 0
  BY <1>4, <1>5 DEF Good, Broken
<1>7. ncommit = 0 /\ floor[p] = NoVer /\ toDirty[p] = {}
  BY DEF Init
<1> QED BY <1>1, <1>2, <1>6, <1>7 DEF ImageInv, SavePC, NoVer

\* Every step keeps what is known of the images.
LEMMA NextImages ==
  ASSUME TypeOK, Control, Coverage, ImagesInv, [Next]_vars
  PROVE  ImagesInv'
<1> SUFFICES ASSUME faulted' = {}
             PROVE  /\ \A t \in Thread : pc'[t] \in SavePC => ret'[t]
                    /\ \A p \in Part : MainFirst[p] => ImageInv(p)'
  BY DEF ImagesInv
<1>1. faulted = {}
  BY NoFaultBefore
<1>2. /\ \A t \in Thread : pc[t] \in SavePC => ret[t]
      /\ \A p \in Part : MainFirst[p] => ImageInv(p)
  BY <1>1 DEF ImagesInv
<1> USE DEF vars, ramVars, reqVars, ghostVars, Go, Fail
\* Without a fault no write has failed since __getData.
<1>3. \A t \in Thread : pc'[t] \in SavePC => ret'[t]
  <2>1. CASE Boot
    <3>1. CASE BootRead
      BY <1>2, <3>1 DEF BootRead, BootNext, TypeOK, SavePC, Thread
    <3>2. CASE BootFix
      BY <1>2, <3>2 DEF BootFix, BootNext, TypeOK, SavePC, Thread
    <3>3. CASE BootFixWrite
      BY <1>2, <3>3 DEF BootFixWrite, BootNext, TypeOK, SavePC, Thread
    <3> QED BY <2>1, <3>1, <3>2, <3>3 DEF Boot
  <2>2. CASE SyncRequest \/ SyncSignal \/ SpuriousWake \/ Crash
    BY <1>2, <2>2 DEF SyncRequest, SyncHead, SyncBody, SyncData, SyncDone,
                      SyncFail, SyncSignal, SpuriousWake, Crash, TypeOK, SavePC,
                      Thread
  <2>3. ASSUME NEW t \in Thread, SaveToDisk(t)
        PROVE  \A u \in Thread : pc'[u] \in SavePC => ret'[u]
    BY <1>1, <1>2, <2>3 DEF SaveToDisk, SaveCheck, SaveGet, SaveClear,
                      RamDiskWrite, OpenImage, WriteImage, TypeOK, SavePC
  <2>4. CASE UNCHANGED vars \/ \E p \in Part, f \in File : Decay(p, f)
    BY <1>2, <2>4 DEF Decay
  <2> QED BY <2>1, <2>2, <2>3, <2>4 DEF Next
<1>4. ASSUME NEW p \in Part, MainFirst[p] PROVE ImageInv(p)'
  <2>1. ImageInv(p)
    BY <1>2, <1>4
  <2>2. CASE Boot
    BY <1>1, <1>4, <2>1, <2>2, BootImages
  <2>3. CASE \E t \in Thread : SaveToDisk(t)
    BY <1>1, <1>2, <1>4, <2>1, <2>3, SaveImages
  <2>4. CASE SyncRequest \/ SyncSignal \/ SpuriousWake \/ UNCHANGED vars
    <3>1. \A t \in Thread : pc'[t] = pc[t] \/
             (pc[t] \notin SavePC \cup BootPC /\ pc'[t] \notin SavePC \cup BootPC)
      BY <2>4 DEF SyncRequest, SyncHead, SyncBody, SyncData, SyncDone, SyncFail,
                  SyncSignal, SpuriousWake, TypeOK, SavePC, BootPC, Thread
    <3>2. Booted' <=> Booted
      BY <2>4 DEF SyncRequest, SyncHead, SyncBody, SyncData, SyncDone, SyncFail,
                  SyncSignal, SpuriousWake, TypeOK, Booted, Thread
    <3>3. at' = at
      BY <2>4 DEF SyncRequest, SyncHead, SyncBody, SyncData, SyncDone, SyncFail,
                  SyncSignal, SpuriousWake
    <3>4. SameSteps(p)
      BY <3>1, <3>2, <3>3 DEF SameSteps, InStep, Loaded, BootPC
    <3>5. /\ UNCHANGED <<image, toData, toVer, toDirty, floor>>
          /\ \/ ncommit' = ncommit /\ bakVer' = bakVer
             \/ /\ ncommit' = NextCommit
                /\ \E q : bakVer' = [bakVer EXCEPT ![q] = NextCommit]
      BY <2>4 DEF SyncRequest, SyncHead, SyncBody, SyncData, SyncDone, SyncFail,
                  BackupData, SyncSignal, SpuriousWake
    <3>6. ncommit \in Int /\ NextCommit \in Int /\ ncommit <= NextCommit
      BY NextCommitGrows, MaxCommitsAssumption DEF TypeOK, NextCommit
    <3>7. ncommit <= ncommit' /\ ncommit' \in Int
            /\ (bakVer'[p] = bakVer[p] \/ bakVer'[p] = ncommit')
      BY <3>5, <3>6 DEF TypeOK
    <3> QED BY <2>1, <3>4, <3>5, <3>7, ImageFrame
  <2>5. CASE Crash
    <3>1. \A S : InStep(p, S)' => "bootRead" \in S \/ "none" \in S
      BY <2>5 DEF Crash, InStep, Thread
    <3>2. ~Loaded(p)'
      BY <2>5, PartNumAssumption DEF Crash, Loaded, Booted, Thread, Part
    <3>3. toDirty'[p] = {} /\ UNCHANGED <<image, floor, ncommit>>
      BY <2>5 DEF Crash
    <3> QED BY <2>1, <3>1, <3>2, <3>3 DEF ImageInv, SavePC
  <2>6. CASE \E q \in Part, f \in File : Decay(q, f)
    BY <1>1, <2>6 DEF Decay
  <2> QED BY <2>2, <2>3, <2>4, <2>5, <2>6 DEF Next
<1> QED BY <1>3, <1>4

(***************************************************************************)
(* The theorems about crashes                                              *)
(***************************************************************************)
Invariant == TypeOK /\ Control /\ Coverage /\ Marked /\ ImagesInv

\* The inductive invariant holds of every reachable state.
LEMMA InvariantCorrect == Spec => []Invariant
<1>1. Init => Invariant
  <2>1. Init => Coverage /\ Marked
    BY DEF Init, Coverage, Marked, Diff
  <2> QED BY <2>1, InitType, InitControl, InitImages DEF Invariant
<1>2. Invariant /\ [Next]_vars => Invariant'
  BY NextType, NextControl, NextCoverage, NextImages DEF Invariant
<1> QED BY <1>1, <1>2, PTL DEF Spec

\* ramDisk_Write and ramDisk_Read never leave a partition without a good
\* image, at any instant at which the process may die.
THEOREM OneGoodImageCorrect == Spec => []OneGoodImage
<1>1. Invariant => OneGoodImage
  BY DEF Invariant, ImagesInv, ImageInv, OneGoodImage, File
<1> QED BY <1>1, InvariantCorrect, PTL

\* The image the next start loads differs from backup where the bitmaps say.
LEMMA InvariantLoss == Invariant => LossBounded
<1> SUFFICES ASSUME Invariant, faulted = {}, Booted, NEW p \in Part, MainFirst[p]
             PROVE  /\ Recovered(p).ok
                    /\ Diff(Recovered(p).data, bakData[p]) \subseteq
                         bakDirty[p] \cup (IF Saving(p) THEN toDirty[p] ELSE {})
  BY DEF LossBounded
<1> DEFINE m == image[p]["main"]
           b == image[p]["bak"]
<1>1. ImageInv(p) /\ Coverage
  BY DEF Invariant, ImagesInv
<1>2. Recovered(p) = IF m.ok THEN m ELSE b
  BY DEF Recovered, First, Second, Other
<1>3. Saving(p) <=> InStep(p, SavePC)
  BY DEF Saving, InStep, SavePC
<1>4. Diff(bakData[p], toData[p]) \subseteq bakDirty[p]
  BY <1>1 DEF Coverage
<1>5. CASE ~Saving(p)
  <2>1. m.ok /\ m.data = toData[p]
    BY <1>1, <1>3, <1>5 DEF ImageInv, Loaded, IsCopy
  <2> QED BY <1>2, <1>4, <1>5, <2>1 DEF Diff
<1>6. CASE Saving(p)
  <2>1. PICK t \in Thread : at[t] = p /\ pc[t] \in SavePC
    BY <1>3, <1>6 DEF InStep
  <2>2. CASE pc[t] \in {"bakOpen", "bakWrite", "mainOpen"}
    <3>1. m.ok /\ Diff(m.data, toData[p]) \subseteq toDirty[p]
      BY <1>1, <2>1, <2>2 DEF ImageInv, InStep
    <3> QED BY <1>2, <1>4, <1>6, <3>1 DEF Diff
  <2>3. CASE pc[t] = "mainWrite"
    <3>1. ~m.ok /\ b.ok /\ b.data = toData[p]
      <4>1. /\ InStep(p, {"mainWrite", "bootFix", "bootFixWrite"})
            /\ InStep(p, {"mainOpen", "mainWrite", "clear", "bootFix",
                          "bootFixWrite"})
        BY <2>1, <2>3 DEF InStep
      <4> QED BY <1>1, <4>1 DEF ImageInv, IsCopy
    <3> QED BY <1>2, <1>4, <3>1 DEF Diff
  <2>4. CASE pc[t] = "clear"
    <3>1. m.ok /\ m.data = toData[p]
      <4>1. InStep(p, {"clear"})
        BY <2>1, <2>4 DEF InStep
      <4> QED BY <1>1, <4>1 DEF ImageInv, IsCopy
    <3> QED BY <1>2, <1>4, <3>1 DEF Diff
  <2> QED BY <2>1, <2>2, <2>3, <2>4 DEF SavePC
<1> QED BY <1>5, <1>6

\* A crash loses at most what is marked dirty at that instant.
THEOREM LossBoundedCorrect == Spec => []LossBounded
BY InvariantLoss, InvariantCorrect, PTL

\* No step takes back a commit known to be durable.
LEMMA FloorGrows ==
  ASSUME Invariant, [Next]_vars, faulted' = {}, NEW p \in Part, MainFirst[p]
  PROVE  floor[p] <= floor'[p]
<1> USE DEF vars, ramVars, reqVars, ghostVars
<1> DEFINE m == image[p]["main"]
           b == image[p]["bak"]
<1>1. faulted = {} /\ TypeOK /\ Control /\ ImageInv(p)
  BY NoFaultBefore DEF Invariant, ImagesInv
<1>2. floor \in [Part -> Int] /\ toVer \in [Part -> Int]
  BY <1>1 DEF TypeOK, NoVer
<1>3. CASE BootRead /\ at["sync"] = p
  <2>1. First(p) = "main" /\ Second(p) = "bak"
    BY DEF First, Second, Other
  <2>2. CASE m.ok
    <3>1. Load(p, m.data, m.ver)
      BY <1>1, <1>3, <2>1, <2>2 DEF BootRead, Broken
    <3> QED BY <1>1, <1>2, <2>2, <3>1 DEF Load, ImageInv
  <2>3. CASE ~m.ok
    <3>1. b.ok /\ b # Broken("Missing")
      BY <1>1, <2>3 DEF ImageInv, Broken
    <3>2. Load(p, b.data, b.ver)
      BY <1>1, <1>3, <2>1, <2>3, <3>1 DEF BootRead
    <3> QED BY <1>1, <1>2, <2>3, <3>2 DEF Load, ImageInv
  <2> QED BY <2>2, <2>3
<1>4. ASSUME NEW t \in Thread, SaveClear(t), at[t] = p
      PROVE  floor[p] <= floor'[p]
  <2>1. pc[t] = "clear" /\ floor' \in {floor, [floor EXCEPT ![p] = toVer[p]]}
    BY <1>4 DEF SaveClear
  <2>2. Loaded(p)
    BY <1>1, <2>1 DEF Loaded, Booted, Control, Thread, LoopPC, SavePC, BootPC
  <2> QED BY <1>1, <1>2, <2>1, <2>2 DEF ImageInv
<1>5. CASE /\ ~(BootRead /\ at["sync"] = p)
           /\ \A t \in Thread : ~(SaveClear(t) /\ at[t] = p)
  <2>1. floor'[p] = floor[p]
    BY <1>2, <1>5 DEF Next, Boot, BootRead, BootFix, BootFixWrite, Load,
         SyncRequest, SyncHead, SyncBody, SyncData, SyncDone, SyncFail,
         SyncSignal, SpuriousWake, SaveToDisk, SaveCheck, SaveGet, SaveClear,
         RamDiskWrite, OpenImage, WriteImage, Crash, Decay
  <2> QED BY <1>2, <2>1
<1> QED BY <1>3, <1>4, <1>5

\* What a start of nvitemd has loaded, or a successful save has written, is
\* never undone by a later start.
THEOREM NoRollbackCorrect == Spec => NoRollback
<1>1. Invariant /\ [Next]_vars =>
        [faulted' = {} =>
           \A p \in Part : MainFirst[p] => floor[p] <= floor'[p]]_vars
  BY FloorGrows
<1> QED BY <1>1, InvariantCorrect, PTL DEF Spec, NoRollback

(***************************************************************************)
(* No copy mixes two commits                                               *)
(***************************************************************************)
\* A set of copies in which a commit number stands for one content, and in
\* which none is newer than commit n.
Alike(C)       == \A a, b \in C :
                    (a.ver = b.ver /\ 0 <= a.ver /\ a.ver < MaxCommits)
                      => a.data = b.data
Numbered(C, n) == \A a \in C : a.ver \in NoVer .. n
CommitInv      == \A p \in Part : Alike(Copies(p)) /\ Numbered(Copies(p), ncommit)

BakCopy == [p \in Part |-> [data |-> bakData[p], ver |-> bakVer[p]]]
ToCopy  == [p \in Part |-> [data |-> toData[p], ver |-> toVer[p]]]
CopyOf(i) == [data |-> i.data, ver |-> i.ver]

\* Copying a copy, dropping one, or loading what no commit has written, keeps a
\* set of copies whole.
LEMMA StaysWhole ==
  ASSUME NEW C, NEW D, NEW n \in Nat, Alike(C), Numbered(C, n),
         \A a \in D : a \in C \/ a.ver = NoVer
  PROVE  Alike(D) /\ Numbered(D, n)
BY DEF Alike, Numbered, NoVer

\* So does a new commit: its number is new, or at the bound.
LEMMA NewCommitWhole ==
  ASSUME NEW C, NEW D, TypeOK, Alike(C), Numbered(C, ncommit),
         NEW f, f.ver = NextCommit, \A a \in D : a \in C \/ a = f
  PROVE  Alike(D) /\ Numbered(D, NextCommit)
<1>1. ncommit \in Nat /\ ncommit <= MaxCommits
  BY MaxCommitsAssumption DEF TypeOK
<1>2. \A a \in C : a.ver \in Int /\ a.ver <= ncommit /\ NoVer <= a.ver
  BY <1>1 DEF Numbered, NoVer
<1>3. CASE ncommit < MaxCommits
  <2>1. f.ver = ncommit + 1 /\ NextCommit = ncommit + 1
    BY <1>3 DEF NextCommit
  <2>2. \A a \in C : a.ver # f.ver
    BY <1>1, <1>2, <2>1
  <2>3. Alike(D)
    BY <2>2 DEF Alike
  <2>4. Numbered(D, NextCommit)
    BY <1>1, <1>2, <2>1 DEF Numbered, NoVer
  <2> QED BY <2>3, <2>4
<1>4. CASE ncommit >= MaxCommits
  <2>1. f.ver = MaxCommits /\ NextCommit = MaxCommits /\ ncommit = MaxCommits
    BY <1>1, <1>4, MaxCommitsAssumption DEF NextCommit
  <2>2. Alike(D)
    BY <2>1, MaxCommitsAssumption DEF Alike
  <2>3. Numbered(D, NextCommit)
    BY <1>1, <1>2, <2>1 DEF Numbered, NoVer
  <2> QED BY <2>2, <2>3
<1> QED BY <1>1, <1>3, <1>4, MaxCommitsAssumption

\* The copies of p: its two buffers that are ever written, its good images.
LEMMA CopyFacts ==
  ASSUME NEW p \in Part
  PROVE  /\ BakCopy[p] \in Copies(p) /\ ToCopy[p] \in Copies(p)
         /\ \A f \in File : image[p][f].ok => CopyOf(image[p][f]) \in Copies(p)
BY DEF Copies, BakCopy, ToCopy, CopyOf

\* The copies after a step, one by one.
LEMMA CopiesAfter ==
  ASSUME NEW p \in Part, NEW C, BakCopy'[p] \in C, ToCopy'[p] \in C,
         \A f \in File : image'[p][f].ok => CopyOf(image'[p][f]) \in C
  PROVE  \A a \in Copies(p)' : a \in C
BY DEF Copies, BakCopy, ToCopy, CopyOf

\* A step that leaves both buffers of p alone and turns none of its images
\* into anything but a copy of toDisk, or a bad image.
LEMMA ImageStep ==
  ASSUME TypeOK, NEW p \in Part, NEW q \in Part, NEW f \in File, NEW i,
         image' = [image EXCEPT ![q][f] = i],
         UNCHANGED <<bakData, bakVer, toData, toVer>>,
         ~i.ok \/ i = Good(toData[q], toVer[q])
  PROVE  \A a \in Copies(p)' : a \in Copies(p)
<1>1. BakCopy'[p] = BakCopy[p] /\ ToCopy'[p] = ToCopy[p]
  BY DEF BakCopy, ToCopy
<1>2. \A g \in File : image'[p][g] = IF p = q /\ g = f THEN i ELSE image[p][g]
  BY DEF TypeOK
<1>3. i = Good(toData[q], toVer[q]) => CopyOf(i) = ToCopy[q]
  BY DEF Good, CopyOf, ToCopy
<1>4. \A g \in File : image'[p][g].ok => CopyOf(image'[p][g]) \in Copies(p)
  BY <1>2, <1>3, CopyFacts
<1> QED BY <1>1, <1>4, CopyFacts, CopiesAfter

\* Every step makes copies of copies only, except that the end of a request
\* makes the one copy of a new commit.
LEMMA NextCopies ==
  ASSUME TypeOK, Control, [Next]_vars, NEW p \in Part
  PROVE  \/ /\ ncommit' = ncommit
            /\ \A a \in Copies(p)' : a \in Copies(p) \/ a.ver = NoVer
         \/ /\ ncommit' = NextCommit
            /\ \A a \in Copies(p)' : a \in Copies(p) \/ a = BakCopy'[p]
            /\ BakCopy'[p] \in Copies(p) \/ BakCopy'[p].ver = NextCommit
<1> USE DEF vars, ramVars, reqVars, ghostVars
<1> DEFINE Old == Copies(p) \cup {a \in {BakCopy'[p], ToCopy'[p]} : a.ver = NoVer}
<1>1. CASE UNCHANGED <<bakData, bakVer, toData, toVer, image, ncommit>>
  BY <1>1 DEF Copies
<1>2. ASSUME NEW q \in Part, NEW c, NEW v, Load(q, c, v),
             UNCHANGED <<image, ncommit>>,
             v = NoVer \/ \E f \in File : image[q][f].ok /\ c = image[q][f].data
                                          /\ v = image[q][f].ver
      PROVE  ncommit' = ncommit /\ \A a \in Copies(p)' : a \in Copies(p) \/ a.ver = NoVer
  <2>1. /\ bakData' = [bakData EXCEPT ![q] = c] /\ toData' = [toData EXCEPT ![q] = c]
        /\ bakVer' = [bakVer EXCEPT ![q] = v] /\ toVer' = [toVer EXCEPT ![q] = v]
    BY <1>2 DEF Load
  <2>2. /\ BakCopy'[p] = IF p = q THEN [data |-> c, ver |-> v] ELSE BakCopy[p]
        /\ ToCopy'[p] = IF p = q THEN [data |-> c, ver |-> v] ELSE ToCopy[p]
    BY <2>1 DEF BakCopy, ToCopy, TypeOK
  <2>3. v = NoVer \/ [data |-> c, ver |-> v] \in Copies(q)
    BY <1>2, CopyFacts DEF CopyOf
  <2>4. BakCopy'[p] \in Old /\ ToCopy'[p] \in Old
    BY <2>2, <2>3, CopyFacts
  <2>5. \A f \in File : image'[p][f].ok => CopyOf(image'[p][f]) \in Old
    BY <1>2, CopyFacts
  <2> HIDE DEF Old
  <2>6. \A a \in Copies(p)' : a \in Old
    BY <2>4, <2>5, CopiesAfter
  <2> QED BY <1>2, <2>6 DEF Old
<1>3. CASE BootRead
  <2> DEFINE q == at["sync"]
             i1 == image[q][First(q)]
             i2 == image[q][Second(q)]
  <2>1. q \in Part /\ UNCHANGED <<image, ncommit>>
    BY <1>3, Index DEF BootRead, Working, Thread, BootPC
  <2>2. First(q) \in File /\ Second(q) \in File
    BY DEF First, Second, Other, File
  <2>3. \/ i1.ok /\ Load(q, i1.data, i1.ver)
        \/ i2.ok /\ Load(q, i2.data, i2.ver)
        \/ \E c : Load(q, c, NoVer)
    BY <1>3 DEF BootRead
  <2> HIDE DEF q
  <2> QED BY <1>2, <2>1, <2>2, <2>3
<1>4. ASSUME NEW q \in Part, NEW f \in File, NEW i, Put(q, f, i),
             ~i.ok \/ i = Good(toData[q], toVer[q]),
             UNCHANGED <<bakData, bakVer, toData, toVer, ncommit>>
      PROVE  ncommit' = ncommit /\ \A a \in Copies(p)' : a \in Copies(p)
  BY <1>4, ImageStep DEF Put
<1>5. CASE BootFix \/ BootFixWrite
  <2>1. at["sync"] \in Part /\ First(at["sync"]) \in File
    BY <1>5, Index DEF BootFix, BootFixWrite, Working, Thread, BootPC, First, File
  <2> QED BY <1>1, <1>4, <1>5, <2>1 DEF BootFix, BootFixWrite, Broken
<1>6. CASE SyncDone
  <2>1. /\ reqPart \in Part /\ ncommit' = NextCommit
        /\ bakData' = [bakData EXCEPT ![reqPart] = fromData[reqPart]]
        /\ bakVer' = [bakVer EXCEPT ![reqPart] = NextCommit]
        /\ UNCHANGED <<toData, toVer, image>>
    BY <1>6 DEF SyncDone, BackupData, TypeOK
  <2>2. ToCopy'[p] = ToCopy[p]
    BY <2>1 DEF ToCopy
  <2>3. BakCopy'[p] = BakCopy[p] \/ BakCopy'[p].ver = NextCommit
    BY <2>1 DEF BakCopy, TypeOK
  <2> DEFINE New == Copies(p) \cup {BakCopy'[p]}
  <2>4. BakCopy'[p] \in New /\ ToCopy'[p] \in New
    BY <2>2, CopyFacts
  <2>5. \A f \in File : image'[p][f].ok => CopyOf(image'[p][f]) \in New
    BY <2>1, CopyFacts
  <2> HIDE DEF New
  <2>6. \A a \in Copies(p)' : a \in New
    BY <2>4, <2>5, CopiesAfter
  <2> QED BY <2>1, <2>3, <2>6, CopyFacts DEF New
<1>7. CASE SyncRequest
  <2>1. CASE \/ \E q \in Part : SyncHead(q)
             \/ \E S \in Ranges : SyncBody(S)
             \/ \E v \in Val : SyncData(v)
             \/ SyncFail
    BY <1>1, <2>1 DEF SyncHead, SyncBody, SyncData, SyncFail
  <2> QED BY <1>6, <1>7, <2>1 DEF SyncRequest
<1>8. CASE SyncSignal \/ SpuriousWake
  BY <1>1, <1>8 DEF SyncSignal, SpuriousWake
<1>9. ASSUME NEW t \in Thread, SaveToDisk(t)
      PROVE  ncommit' = ncommit /\ \A a \in Copies(p)' : a \in Copies(p) \/ a.ver = NoVer
  <2>1. CASE SaveCheck(t) \/ SaveClear(t)
    BY <1>1, <2>1 DEF SaveCheck, SaveClear, Copies
  <2>2. CASE SaveGet(t)
    <3>1. /\ at[t] \in Part /\ UNCHANGED <<bakData, bakVer, image, ncommit>>
          /\ toData' = [toData EXCEPT ![at[t]] = bakData[at[t]]]
          /\ toVer' = [toVer EXCEPT ![at[t]] = bakVer[at[t]]]
      BY <2>2, Index DEF SaveGet, GetData, Working
    <3>2. BakCopy'[p] = BakCopy[p]
      BY <3>1 DEF BakCopy
    <3>3. ToCopy'[p] = ToCopy[p] \/ ToCopy'[p] = BakCopy[p]
      BY <3>1 DEF ToCopy, BakCopy, TypeOK
    <3> QED BY <3>1, <3>2, <3>3, CopyFacts, CopiesAfter
  <2>3. CASE RamDiskWrite(t)
    <3>1. at[t] \in Part /\ "main" \in File /\ "bak" \in File
      BY <2>3, Index DEF RamDiskWrite, OpenImage, WriteImage, Working, SavePC, File
    <3>2. ASSUME NEW f \in File, NEW h, NEW w, NEW n, OpenImage(t, f, h, w, n)
          PROVE  ncommit' = ncommit /\ \A a \in Copies(p)' : a \in Copies(p)
      BY <1>4, <3>1, <3>2 DEF OpenImage, Broken, Copies
    <3>3. ASSUME NEW f \in File, NEW h, NEW n, WriteImage(t, f, h, n)
          PROVE  ncommit' = ncommit /\ \A a \in Copies(p)' : a \in Copies(p)
      BY <1>4, <3>1, <3>3 DEF WriteImage, Copies
    <3> QED BY <2>3, <3>1, <3>2, <3>3 DEF RamDiskWrite
  <2> QED BY <1>9, <2>1, <2>2, <2>3 DEF SaveToDisk
<1>10. CASE Crash
  <2>1. BakCopy'[p].ver = NoVer /\ ToCopy'[p].ver = NoVer
    BY <1>10 DEF Crash, BakCopy, ToCopy
  <2>2. BakCopy'[p] \in Old /\ ToCopy'[p] \in Old
    BY <2>1
  <2>3. \A f \in File : image'[p][f].ok => CopyOf(image'[p][f]) \in Old
    BY <1>10, CopyFacts DEF Crash
  <2> HIDE DEF Old
  <2>4. \A a \in Copies(p)' : a \in Old
    BY <2>2, <2>3, CopiesAfter
  <2> QED BY <1>10, <2>4 DEF Crash, Old
<1>11. ASSUME NEW q \in Part, NEW f \in File, Decay(q, f)
       PROVE  ncommit' = ncommit /\ \A a \in Copies(p)' : a \in Copies(p)
  BY <1>4, <1>11 DEF Decay, Broken
<1>12. CASE UNCHANGED vars
  BY <1>1, <1>12
<1> QED BY <1>3, <1>5, <1>7, <1>8, <1>9, <1>10, <1>11, <1>12 DEF Next, Boot

\* A provisioned device holds one commit of each partition.
LEMMA InitCommits == Init => CommitInv
<1> SUFFICES ASSUME Init, NEW p \in Part
             PROVE  Alike(Copies(p)) /\ Numbered(Copies(p), ncommit)
  BY DEF CommitInv
<1>1. PICK c \in [Part -> Content], d \in [Part -> BOOLEAN] :
        image = [q \in Part |-> [f \in File |->
                  IF f = "main" \/ d[q] THEN Good(c[q], 0)
                                        ELSE Broken("Missing")]]
  BY DEF Init
<1>2. \A f \in File : image[p][f].ok => CopyOf(image[p][f]) = [data |-> c[p], ver |-> 0]
  BY <1>1 DEF Good, Broken, CopyOf
<1>3. \A a \in Copies(p) : a.ver = NoVer \/ a = [data |-> c[p], ver |-> 0]
  <2>1. bakVer[p] = NoVer /\ toVer[p] = NoVer
    BY DEF Init
  <2> QED BY <1>2, <2>1 DEF Copies, CopyOf
<1>4. ncommit = 0
  BY DEF Init
<1> QED BY <1>3, <1>4 DEF Alike, Numbered, NoVer

\* Every step keeps a commit number the name of one content.
LEMMA NextCommits ==
  ASSUME TypeOK, Control, CommitInv, [Next]_vars
  PROVE  CommitInv'
<1> SUFFICES ASSUME NEW p \in Part
             PROVE  Alike(Copies(p)') /\ Numbered(Copies(p)', ncommit')
  BY DEF CommitInv, Alike, Numbered
<1>1. Alike(Copies(p)) /\ Numbered(Copies(p), ncommit) /\ ncommit \in Nat
  BY MaxCommitsAssumption DEF CommitInv, TypeOK
<1>2. CASE /\ ncommit' = ncommit
           /\ \A a \in Copies(p)' : a \in Copies(p) \/ a.ver = NoVer
  BY <1>1, <1>2, StaysWhole
<1>3. CASE /\ ncommit' = NextCommit
           /\ \A a \in Copies(p)' : a \in Copies(p) \/ a = BakCopy'[p]
           /\ BakCopy'[p].ver = NextCommit
  BY <1>1, <1>3, NewCommitWhole
<1>4. CASE /\ ncommit' = NextCommit
           /\ \A a \in Copies(p)' : a \in Copies(p) \/ a = BakCopy'[p]
           /\ BakCopy'[p] \in Copies(p)
  <2>1. ncommit <= NextCommit /\ NextCommit \in Int
    BY <1>1, NextCommitGrows, MaxCommitsAssumption DEF TypeOK, NextCommit
  <2>2. Numbered(Copies(p), NextCommit) /\ NextCommit \in Nat
    BY <1>1, <2>1 DEF Numbered, NoVer
  <2>3. \A a \in Copies(p)' : a \in Copies(p) \/ a.ver = NoVer
    BY <1>4
  <2> QED BY <1>1, <1>4, <2>2, <2>3, StaysWhole
<1> QED BY <1>2, <1>3, <1>4, NextCopies

\* Whatever faults and crashes happen, in whatever order, two copies of a
\* commit, in RAM or on disk, hold the same data: no interleaving of the
\* receiver and the saver lets an image hold half of a request.
THEOREM WholeCommitsCorrect == Spec => []WholeCommits
<1>1. CommitInv => WholeCommits
  BY DEF CommitInv, Alike, WholeCommits
<1>2. TypeOK /\ Control /\ CommitInv /\ [Next]_vars => CommitInv'
  BY NextCommits
<1> QED BY <1>1, <1>2, InitCommits, TypeCorrect, PTL DEF Spec

(***************************************************************************)
(* Calibration mode answers after the save                                 *)
(***************************************************************************)
\* In calibration mode the sync thread is in saveToDisk whenever a partition
\* is dirty, at that partition or before it.
CaliInv ==
  CaliMode =>
    /\ pc["sync"] = "idle" => at["sync"] = 0
    /\ \A p \in Part : bakDirty[p] # {} =>
         /\ pc["sync"] \in LoopPC /\ at["sync"] <= p
         /\ at["sync"] = p => pc["sync"] \in {"check", "get"}

\* Every step keeps it, with faults as well.
LEMMA NextCali ==
  ASSUME TypeOK, Control, CaliInv, [Next]_vars
  PROVE  CaliInv'
<1> SUFFICES ASSUME CaliMode PROVE CaliInv'
  BY DEF CaliInv
<1> USE DEF vars, ramVars, reqVars, ghostVars, CaliInv, Go
<1>1. /\ pc \in [Thread -> PC] /\ at \in [Thread -> 0 .. PartNum]
      /\ "sync" \in Thread /\ "saver" \in Thread
      /\ bakDirty \in [Part -> SUBSET Sect]
  BY DEF TypeOK, Thread
<1>2. PartNum \in Nat /\ Part = 0 .. PartNum - 1
  BY ConstantFacts DEF Part
<1>3. pc["saver"] \notin LoopPC
  BY DEF Control
<1>4. CASE Boot
  <2>1. pc["sync"] \in BootPC /\ UNCHANGED bakDirty
    BY <1>4 DEF Boot, BootRead, BootFix, BootFixWrite, Load, BootPC
  <2>2. \A p \in Part : bakDirty[p] = {}
    BY <2>1 DEF BootPC, LoopPC, SavePC
  <2>3. pc'["sync"] = "idle" => at'["sync"] = 0
    <3>1. BootNext \/ pc'["sync"] \in BootPC
      BY <1>1, <1>4 DEF Boot, BootRead, BootFix, BootFixWrite, BootPC
    <3>2. BootNext => at'["sync"] = 0 \/ pc'["sync"] = "bootRead"
      BY <1>1 DEF BootNext
    <3> QED BY <3>1, <3>2 DEF BootPC
  <2> QED BY <2>1, <2>2, <2>3
<1>5. CASE SyncRequest
  <2>1. CASE SyncDone
    <3>1. at'["sync"] = 0 /\ pc'["sync"] = "check"
      BY <1>1, <2>1 DEF SyncDone
    <3> QED BY <1>2, <3>1 DEF LoopPC
  <2>2. CASE \/ \E p \in Part : SyncHead(p)
             \/ \E S \in Ranges : SyncBody(S)
             \/ \E v \in Val : SyncData(v)
             \/ SyncFail
    BY <2>2 DEF SyncHead, SyncBody, SyncData, SyncFail
  <2> QED BY <1>5, <2>1, <2>2 DEF SyncRequest
<1>6. CASE SyncSignal \/ SpuriousWake
  BY <1>6, SpuriousAssumption DEF SyncSignal, SpuriousWake, Control
<1>7. ASSUME NEW t \in Thread, SaveToDisk(t) PROVE CaliInv'
  <2>1. t = "sync" /\ pc["sync"] \in LoopPC
    BY <1>3, <1>7 DEF SaveToDisk, SaveCheck, SaveGet, RamDiskWrite, OpenImage,
       WriteImage, SaveClear, LoopPC, SavePC, Thread
  <2>2. CASE SaveCheck("sync")
    <3>1. CASE at["sync"] < PartNum /\ bakDirty[at["sync"]] # {}
      BY <1>1, <2>2, <3>1 DEF SaveCheck, LoopPC
    <3>2. CASE at["sync"] < PartNum /\ bakDirty[at["sync"]] = {}
      <4>1. /\ at'["sync"] = at["sync"] + 1 /\ pc'["sync"] = "check"
            /\ UNCHANGED bakDirty
        BY <1>1, <2>2, <3>2 DEF SaveCheck
      <4>2. \A p \in Part : bakDirty[p] # {} => at["sync"] <= p /\ at["sync"] # p
        BY <3>2
      <4> QED BY <1>1, <1>2, <4>1, <4>2 DEF LoopPC
    <3>3. CASE at["sync"] = PartNum
      <4>1. at'["sync"] = 0 /\ pc'["sync"] = "idle" /\ UNCHANGED bakDirty
        BY <1>1, <1>2, <2>2, <3>3 DEF SaveCheck
      <4>2. \A p \in Part : bakDirty[p] = {}
        BY <1>2, <3>3
      <4> QED BY <4>1, <4>2
    <3> QED BY <2>2, <3>1, <3>2, <3>3 DEF SaveCheck
  <2>3. CASE SaveGet("sync")
    <3>1. /\ at["sync"] \in Part /\ UNCHANGED at /\ pc'["sync"] = "bakOpen"
          /\ bakDirty' = [bakDirty EXCEPT ![at["sync"]] = {}]
      BY <1>1, <2>3, Index DEF SaveGet, GetData, Working
    <3> QED BY <1>1, <3>1 DEF LoopPC, SavePC
  <2>4. CASE RamDiskWrite("sync")
    <3>1. /\ pc["sync"] \in SavePC /\ pc'["sync"] \in SavePC
          /\ UNCHANGED <<at, bakDirty>>
      BY <1>1, <2>4 DEF RamDiskWrite, OpenImage, WriteImage, SavePC
    <3> QED BY <3>1 DEF LoopPC, SavePC
  <2>5. CASE SaveClear("sync")
    <3>1. /\ at'["sync"] = at["sync"] + 1 /\ pc'["sync"] = "check"
          /\ pc["sync"] = "clear" /\ UNCHANGED bakDirty
      BY <1>1, <2>5, Index DEF SaveClear
    <3>2. \A p \in Part : bakDirty[p] # {} => at["sync"] <= p /\ at["sync"] # p
      BY <3>1
    <3> QED BY <1>1, <1>2, <3>1, <3>2 DEF LoopPC
  <2> QED BY <1>7, <2>1, <2>2, <2>3, <2>4, <2>5 DEF SaveToDisk
<1>8. CASE Crash
  BY <1>8 DEF Crash, Thread
<1>9. CASE UNCHANGED vars \/ \E p \in Part, f \in File : Decay(p, f)
  BY <1>9 DEF Decay
<1> QED BY <1>4, <1>5, <1>6, <1>7, <1>8, <1>9 DEF Next

\* Initially nothing is dirty.
LEMMA InitCali == Init => CaliInv
BY DEF Init, CaliInv, Thread

\* With nothing dirty and no save under way the main image is the backup.
LEMMA InvariantCali == Invariant /\ CaliInv => CaliSynchronous
<1> SUFFICES ASSUME Invariant, CaliInv, CaliMode, pc["sync"] = "idle",
                    faulted = {}, NEW p \in Part, MainFirst[p]
             PROVE  /\ bakDirty[p] = {} /\ toDirty[p] = {}
                    /\ Recovered(p).ok /\ Recovered(p).data = bakData[p]
  BY DEF CaliSynchronous
<1>1. TypeOK /\ Control /\ Coverage /\ ImageInv(p)
  BY DEF Invariant, ImagesInv
<1>2. bakDirty[p] = {}
  BY DEF CaliInv, LoopPC, SavePC
<1>3. ~InStep(p, SavePC) /\ Loaded(p)
  BY <1>1 DEF InStep, Loaded, Booted, Control, Thread, LoopPC, SavePC, BootPC
<1>4. toDirty[p] = {} /\ IsCopy(image[p]["main"], p)
  BY <1>1, <1>3 DEF ImageInv
<1>5. Recovered(p) = image[p]["main"] /\ Recovered(p).data = toData[p]
  BY <1>4 DEF Recovered, First, IsCopy
<1>6. bakData[p] = toData[p]
  <2>1. \A s \in Sect : bakData[p][s] = toData[p][s]
    BY <1>1, <1>2 DEF Coverage, Diff
  <2>2. bakData[p] \in Content /\ toData[p] \in Content
    BY <1>1 DEF TypeOK
  <2> QED BY <2>1, <2>2 DEF Content
<1> QED BY <1>2, <1>4, <1>5, <1>6 DEF IsCopy

\* In calibration mode the response to a request goes out when the request is
\* the image the next start will load.
THEOREM CaliSynchronousCorrect == Spec => []CaliSynchronous
<1>1. Invariant /\ CaliInv /\ [Next]_vars => CaliInv'
  BY NextCali DEF Invariant
<1> QED BY <1>1, InitCali, InvariantCali, InvariantCorrect, PTL DEF Spec
=============================================================================
