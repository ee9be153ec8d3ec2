---------------------------- MODULE NvBootProofs ----------------------------
(***************************************************************************)
(* Proofs about NvBoot: with modem_control rewriting images beside it,     *)
(* nvitemd keeps the promises proved of it alone, and the modem starts     *)
(* from the data that nvitemd starts from.                                 *)
(***************************************************************************)
EXTENDS NvBoot, NvStoreProofs

BInvariant == Invariant /\ BTypeOK /\ HandInv

\* The programs' steps, as seen by nvitemd: its own, none, or the repair.
LEMMA StepKinds ==
  ASSUME [BNext]_bootVars
  PROVE  [Next]_vars \/ HandFix
<1> USE DEF bootVars, handVars
<1>1. CASE HandStart \/ HandOver
  BY <1>1 DEF HandStart, HandOver, HandRead, HandGive
<1>2. CASE Load1 \/ Keep(BootFix \/ BootFixWrite)
  BY <1>2 DEF Load1, Keep, Alone, Next, Boot
<1>3. CASE Keep(SyncRequest) \/ Keep(SyncSignal) \/ Keep(SpuriousWake)
  BY <1>3 DEF Keep, Alone, Next
<1>4. CASE \E t \in Thread : Keep(SaveToDisk(t))
  BY <1>4 DEF Keep, Alone, Next
<1>5. CASE Halt
  BY <1>5 DEF Halt, Next
<1>6. CASE Rot
  BY <1>6 DEF Rot, Keep, Alone, Next
<1> QED BY <1>1, <1>2, <1>3, <1>4, <1>5, <1>6 DEF BNext, Booting

\* While nvitemd is stopped, neither of its threads is at any later step.
LEMMA StoppedSteps ==
  ASSUME TypeOK, Stopped, NEW p, NEW S \in SUBSET (SavePC \cup {"bootFix", "bootFixWrite"})
  PROVE  ~InStep(p, S)
BY DEF Stopped, InStep, Thread, SavePC

\* The repair of modem_control keeps the invariant of nvitemd.
LEMMA FixInvariant ==
  ASSUME BInvariant, HandFix
  PROVE  Invariant'
<1> USE DEF ramVars, reqVars, ghostVars
<1>1. /\ TypeOK /\ Stopped /\ held \in Image /\ cur \in Part
      /\ image' = [image EXCEPT ![cur] =
                     [f \in File |-> IF @[f].ok THEN @[f] ELSE held]]
      /\ UNCHANGED <<ramVars, pc, at, ret, reqVars, ghostVars>>
  BY DEF BInvariant, Invariant, BTypeOK, HandInv, HandFix
<1>2. TypeOK'
  <2>1. image' \in [Part -> [File -> Image]]
    BY <1>1 DEF TypeOK
  <2> QED BY <1>1, <2>1 DEF TypeOK
<1>3. Control' /\ Coverage' /\ Marked'
  BY <1>1 DEF BInvariant, Invariant, Control, Coverage, Marked
<1>4. ASSUME NEW p \in Part, MainFirst[p], ImageInv(p), Held(p), p = cur
      PROVE  ImageInv(p)'
  <2> DEFINE m == image[p]["main"]
             b == image[p]["bak"]
  <2>1. /\ image[p] \in [File -> Image] /\ "main" \in File /\ "bak" \in File
        /\ image'[p] = [f \in File |-> IF image[p][f].ok THEN image[p][f] ELSE held]
    BY <1>1, <1>4 DEF TypeOK, File
  <2>2. held = IF m.ok THEN m ELSE b
    BY <1>4 DEF Held, Take, HandFix, ImageInv
  <2>3. /\ image'[p]["main"] = IF m.ok THEN m ELSE b
        /\ image'[p]["bak"] = IF b.ok THEN b ELSE m
    BY <2>1, <2>2, <1>4 DEF ImageInv
  <2>4. \A S \in SUBSET (SavePC \cup {"bootFix", "bootFixWrite"}) :
          ~InStep(p, S) /\ ~InStep(p, S)'
    <3>1. \A S \in SUBSET (SavePC \cup {"bootFix", "bootFixWrite"}) : ~InStep(p, S)
      BY <1>1, StoppedSteps
    <3> QED BY <1>1, <3>1 DEF InStep
  <2>5. /\ SavePC \in SUBSET (SavePC \cup {"bootFix", "bootFixWrite"})
        /\ {"bootFix", "bootFixWrite"} \in SUBSET (SavePC \cup {"bootFix", "bootFixWrite"})
        /\ {"bakOpen", "bakWrite", "mainOpen"} \in SUBSET (SavePC \cup {"bootFix", "bootFixWrite"})
        /\ {"mainOpen", "mainWrite", "clear", "bootFix", "bootFixWrite"}
             \in SUBSET (SavePC \cup {"bootFix", "bootFixWrite"})
        /\ {"mainWrite", "bootFix", "bootFixWrite"}
             \in SUBSET (SavePC \cup {"bootFix", "bootFixWrite"})
        /\ {"clear"} \in SUBSET (SavePC \cup {"bootFix", "bootFixWrite"})
    BY DEF SavePC
  <2>6. ~Loaded(p) /\ ~Loaded(p)'
    BY <1>1, <1>4, PartNumAssumption DEF Stopped, Loaded, Booted, Part
  <2>7. /\ m.ok \/ b.ok
        /\ m.ok => floor[p] <= m.ver /\ m.ver <= ncommit
        /\ b.ok => b.ver <= ncommit
        /\ ~m.ok => floor[p] <= b.ver
        /\ toDirty[p] = {}
    BY <1>4, <2>4, <2>5 DEF ImageInv
  <2> QED BY <1>1, <2>3, <2>4, <2>5, <2>6, <2>7 DEF ImageInv
<1>5. ASSUME NEW p \in Part, ImageInv(p), p # cur PROVE ImageInv(p)'
  <2>1. image'[p] = image[p]
    BY <1>1, <1>5 DEF TypeOK
  <2> QED BY <1>1, <1>5, <2>1 DEF ImageInv, InStep, Loaded, Booted, IsCopy
<1>6. ImagesInv'
  BY <1>1, <1>4, <1>5 DEF ImagesInv, BInvariant, Invariant, HandInv
<1> QED BY <1>2, <1>3, <1>6 DEF Invariant

\* Every step of both programs keeps nvitemd's invariant.
LEMMA BothInvariant ==
  ASSUME BInvariant, [BNext]_bootVars
  PROVE  Invariant'
<1>1. CASE [Next]_vars
  BY <1>1, NextType, NextControl, NextCoverage, NextImages
     DEF BInvariant, Invariant
<1>2. CASE HandFix
  BY <1>2, FixInvariant
<1> QED BY <1>1, <1>2, StepKinds

\* Types of the hand-over's variables.
LEMMA NextBType ==
  ASSUME BInvariant, [BNext]_bootVars
  PROVE  BTypeOK'
<1> USE DEF BTypeOK, handVars, bootVars
<1>1. TypeOK'
  BY BothInvariant DEF Invariant
<1>2. /\ 0 \in Part /\ Nothing \in Image /\ Zeroes \in Image
      /\ TypeOK /\ cur \in Part /\ held \in Image /\ given \in [Part -> Image]
      /\ hand \in {"off", "read", "fix", "give"}
  BY ConstantFacts, ImageFacts DEF BInvariant, Nothing, Zeroes
<1>3. ASSUME HandNext
      PROVE  hand' \in {"off", "read"} /\ cur' \in Part /\ held' \in Image
  BY <1>2, <1>3, ConstantFacts DEF HandNext, Part
<1>4. CASE HandStart
  BY <1>1, <1>2, <1>4 DEF HandStart
<1>5. CASE HandRead
  <2>1. image[cur]["main"] \in Image /\ image[cur]["bak"] \in Image
    BY <1>2 DEF TypeOK, File
  <2> QED BY <1>1, <1>2, <1>3, <1>5, <2>1 DEF HandRead, Take
<1>6. CASE HandFix
  BY <1>1, <1>2, <1>6 DEF HandFix
<1>7. CASE HandGive
  BY <1>1, <1>2, <1>3, <1>7 DEF HandGive
<1>8. CASE /\ UNCHANGED handVars
           /\ given' \in {given, [given EXCEPT ![at["sync"]] = Nothing]}
  BY <1>1, <1>2, <1>8
<1>9. CASE Halt
  BY <1>1, <1>2, <1>9 DEF Halt
<1>10. CASE Load1
  BY <1>8, <1>10 DEF Load1, Alone
<1>11. CASE \/ Keep(BootFix \/ BootFixWrite) \/ Keep(SyncRequest)
            \/ Keep(SyncSignal) \/ Keep(SpuriousWake)
            \/ \E t \in Thread : Keep(SaveToDisk(t))
            \/ Rot
  BY <1>8, <1>11 DEF Keep, Alone, Rot
<1>12. CASE UNCHANGED bootVars
  BY <1>8, <1>12
<1> QED BY <1>4, <1>5, <1>6, <1>7, <1>9, <1>10, <1>11, <1>12
        DEF BNext, Booting, HandOver

\* What modem_control reads and gives is the main image, once repaired.
LEMMA NextHand ==
  ASSUME BInvariant, [BNext]_bootVars
  PROVE  HandInv'
<1> USE DEF handVars, bootVars
<1>a. /\ TypeOK /\ Control /\ HandInv /\ cur \in Part
      /\ given \in [Part -> Image] /\ held \in Image
  BY DEF BInvariant, Invariant, BTypeOK
<1>b. /\ image \in [Part -> [File -> Image]]
      /\ at \in [Thread -> 0 .. PartNum] /\ at["sync"] \in 0 .. PartNum
  BY <1>a DEF TypeOK, Thread
<1>c. PartNum \in Nat /\ Part = 0 .. PartNum - 1 /\ Part \subseteq Int
  BY ConstantFacts DEF Part
<1>1. /\ TypeOK /\ Control /\ HandInv /\ cur \in Part
      /\ given \in [Part -> Image] /\ held \in Image
      /\ image \in [Part -> [File -> Image]]
      /\ at \in [Thread -> 0 .. PartNum] /\ at["sync"] \in 0 .. PartNum
      /\ PartNum \in Nat /\ Part = 0 .. PartNum - 1 /\ Part \subseteq Int
  BY <1>a, <1>b, <1>c
<1>2. faulted' = {} => faulted = {}
  BY <1>1, StepKinds, NoFaultBefore DEF HandFix, ghostVars
<1>3. ~Nothing.ok
  BY DEF Nothing, Broken
<1>4. ASSUME HandNext, NEW p \in Part, p <= cur
      PROVE  hand' = "off" \/ p < cur'
  BY <1>1, <1>4 DEF HandNext
<1>5. CASE HandStart
  BY <1>1, <1>3, <1>5 DEF HandStart, HandInv, Given, Held, Stopped, vars
<1>6. CASE HandRead
  <2>1. hand = "read" /\ Stopped /\ UNCHANGED <<vars, given>>
    BY <1>1, <1>6 DEF HandRead, HandInv
  <2>2. Stopped' /\ UNCHANGED <<image, pc, at, faulted>>
    BY <2>1 DEF vars, Stopped, ghostVars
  <2>3. CASE HandNext
    <3>1. hand' \in {"off", "read"}
      BY <2>3 DEF HandNext
    <3> QED BY <1>1, <1>4, <2>1, <2>2, <2>3, <3>1 DEF HandInv, Given, Held
  <2>4. CASE /\ held' = Take(image[cur]["main"], image[cur]["bak"])
             /\ hand' = IF image[cur]["main"].ok /\ image[cur]["bak"].ok
                          THEN "give" ELSE "fix"
             /\ UNCHANGED cur
    <3>1. hand' = "give" => held' = image[cur]["main"] /\ held'.ok
      BY <2>4 DEF Take
    <3> QED BY <1>1, <2>1, <2>2, <2>4, <3>1 DEF HandInv, Given, Held
  <2> QED BY <1>6, <2>3, <2>4 DEF HandRead
<1>7. CASE HandFix
  <2>1. /\ hand = "fix" /\ hand' = "give" /\ Stopped /\ Stopped'
        /\ UNCHANGED <<pc, at, cur, held, given, faulted>>
    BY <1>1, <1>7 DEF HandFix, HandInv, Stopped, ghostVars
  <2>2. \A p \in Part : p # cur => image'[p] = image[p]
    BY <1>1, <1>7 DEF HandFix
  <2>3. ASSUME faulted = {}, MainFirst[cur]
        PROVE  held.ok /\ image'[cur]["main"] = held
    <3>1. ImageInv(cur) /\ Held(cur)
      BY <1>1, <2>3 DEF BInvariant, Invariant, ImagesInv, HandInv
    <3>2. held = Take(image[cur]["main"], image[cur]["bak"])
      BY <2>1, <3>1 DEF Held
    <3>3. held.ok
      BY <3>1, <3>2 DEF Take, ImageInv
    <3>4. image'[cur]["main"] = IF image[cur]["main"].ok THEN image[cur]["main"]
                                                          ELSE held
      BY <1>1, <1>7 DEF HandFix, File
    <3> QED BY <3>2, <3>3, <3>4 DEF Take
  <2>4. \A p \in Part : given[p].ok /\ Given(p) => p # cur
    BY <1>1, <2>1 DEF Given
  <2>5. ASSUME NEW p \in Part, Given(p) PROVE Given(p)'
    BY <1>1, <2>1, <2>2, <2>4, <2>5 DEF Given
  <2>6. ASSUME NEW p \in Part, MainFirst[p], faulted = {} PROVE Held(p)'
    BY <1>1, <2>1, <2>3, <2>6 DEF Held
  <2> QED BY <1>1, <2>1, <2>5, <2>6 DEF HandInv
<1>8. CASE HandGive
  <2>1. /\ hand = "give" /\ hand' \in {"off", "read"} /\ HandNext
        /\ Stopped /\ UNCHANGED vars
        /\ given' = [given EXCEPT ![cur] = held]
    BY <1>1, <1>8 DEF HandGive, HandInv, HandNext
  <2>2. Stopped' /\ UNCHANGED <<image, pc, at, faulted>>
    BY <2>1 DEF vars, Stopped, ghostVars
  <2>3. ASSUME NEW p \in Part, Given(p), Held(p) PROVE Given(p)' /\ Held(p)'
    <3>1. CASE p = cur
      BY <1>1, <1>4, <2>1, <2>2, <2>3, <3>1 DEF Given, Held, Stopped
    <3>2. CASE p # cur
      BY <1>1, <1>4, <2>1, <2>2, <2>3, <3>2 DEF Given, Held
    <3> QED BY <3>1, <3>2
  <2> QED BY <1>1, <2>1, <2>2, <2>3 DEF HandInv
<1>9. ASSUME hand = "off", UNCHANGED handVars, BootNext,
             pc["sync"] \in BootPC, pc["saver"] = "none",
             NEW p \in Part, p > at["sync"]
      PROVE  /\ pc'["saver"] = "none"
             /\ \/ p > at'["sync"]
                \/ p = at'["sync"] /\ pc'["sync"] = "bootRead"
  <2>1. at["sync"] + 1 # PartNum /\ at'["sync"] = at["sync"] + 1
    BY <1>1, <1>9 DEF BootNext, Thread
  <2>2. pc' = [pc EXCEPT !["sync"] = "bootRead"] /\ pc \in [Thread -> PC]
    BY <1>1, <1>9, <2>1 DEF BootNext, Go, TypeOK
  <2> QED BY <1>1, <1>9, <2>1, <2>2 DEF Thread
<1>10. CASE Load1
  <2>1. /\ hand = "off" /\ BootRead /\ UNCHANGED <<handVars, image>>
        /\ given' = [given EXCEPT ![at["sync"]] = Nothing]
        /\ pc["sync"] = "bootRead" /\ pc["saver"] = "none" /\ at["sync"] \in Part
    BY <1>1, <1>10 DEF Load1, Alone, BootRead, Control, BootPC, Thread
  <2>2. ASSUME NEW p \in Part, Given(p) PROVE Given(p)'
    <3>1. given'[p].ok => p # at["sync"] /\ p > at["sync"] /\ given'[p] = given[p]
      BY <1>1, <1>3, <2>1, <2>2 DEF Given
    <3>2. BootNext \/ (pc' = [pc EXCEPT !["sync"] = "bootFix"] /\ UNCHANGED at)
      BY <2>1 DEF BootRead, Go
    <3>3. ASSUME BootNext, given'[p].ok PROVE Given(p)'
      <4>1. given[p].ok /\ p > at["sync"] /\ given'[p] = given[p]
        BY <3>1, <3>3
      <4>2. /\ pc'["saver"] = "none"
            /\ \/ p > at'["sync"]
               \/ p = at'["sync"] /\ pc'["sync"] = "bootRead"
        BY <1>9, <2>1, <3>3, <4>1 DEF BootPC
      <4> QED BY <2>1, <2>2, <4>1, <4>2 DEF Given
    <3>4. CASE pc' = [pc EXCEPT !["sync"] = "bootFix"] /\ UNCHANGED at
      BY <2>1, <2>2, <3>1, <3>4 DEF Given
    <3>5. CASE ~given'[p].ok
      BY <3>5 DEF Given
    <3> QED BY <3>2, <3>3, <3>4, <3>5
  <2>3. hand = "off" /\ hand' = "off"
    BY <2>1
  <2>4. \A p \in Part : Held(p)'
    BY <2>3 DEF Held
  <2> QED BY <1>1, <1>2, <2>2, <2>3, <2>4 DEF HandInv
<1>11. CASE Keep(BootFix \/ BootFixWrite)
  <2>1. /\ hand = "off" /\ UNCHANGED <<handVars, given>>
        /\ BootFix \/ BootFixWrite
        /\ pc["sync"] \in {"bootFix", "bootFixWrite"} /\ pc["saver"] = "none"
        /\ at["sync"] \in Part /\ First(at["sync"]) \in File
    BY <1>1, <1>11 DEF Keep, Alone, BootFix, BootFixWrite, Control, BootPC,
       Thread, First, File
  <2>2. ASSUME NEW p \in Part, Given(p) PROVE Given(p)'
    <3>1. given[p].ok => p > at["sync"] /\ image'[p] = image[p]
      BY <1>1, <2>1, <2>2 DEF Given, BootFix, BootFixWrite, Put
    <3>2. BootNext \/ (pc' = [pc EXCEPT !["sync"] = "bootFixWrite"] /\ UNCHANGED at)
      BY <2>1 DEF BootFix, BootFixWrite, Go
    <3>3. ASSUME BootNext, given[p].ok PROVE Given(p)'
      <4>1. /\ pc'["saver"] = "none"
            /\ \/ p > at'["sync"]
               \/ p = at'["sync"] /\ pc'["sync"] = "bootRead"
        BY <1>9, <2>1, <3>1, <3>3 DEF BootPC
      <4> QED BY <2>1, <2>2, <3>1, <3>3, <4>1 DEF Given
    <3>4. CASE pc' = [pc EXCEPT !["sync"] = "bootFixWrite"] /\ UNCHANGED at
      BY <2>1, <2>2, <3>1, <3>4 DEF Given
    <3>5. CASE ~given[p].ok
      BY <2>1, <3>5 DEF Given
    <3> QED BY <3>2, <3>3, <3>4, <3>5
  <2>3. hand = "off" /\ hand' = "off"
    BY <2>1
  <2>4. \A p \in Part : Held(p)'
    BY <2>3 DEF Held
  <2> QED BY <1>1, <1>2, <2>2, <2>3, <2>4 DEF HandInv
<1>12. CASE \/ Keep(SyncRequest) \/ Keep(SyncSignal) \/ Keep(SpuriousWake)
            \/ \E t \in Thread : Keep(SaveToDisk(t))
  <2>1. hand = "off" /\ UNCHANGED <<handVars, given>>
    BY <1>12 DEF Keep, Alone
  <2>2. pc["saver"] # "none"
    <3>1. pc["saver"] = "none" => pc["sync"] \in BootPC
      BY <1>1 DEF Control
    <3>2. CASE Keep(SyncRequest) \/ Keep(SyncSignal) \/ Keep(SpuriousWake)
      BY <3>1, <3>2 DEF Keep, Alone, SyncRequest, SyncHead, SyncBody, SyncData,
         SyncDone, SyncFail, SyncSignal, SpuriousWake, BootPC
    <3>3. ASSUME NEW t \in Thread, SaveToDisk(t) PROVE pc["saver"] # "none"
      BY <3>1, <3>3 DEF SaveToDisk, SaveCheck, SaveGet, RamDiskWrite, OpenImage,
         WriteImage, SaveClear, BootPC, Thread
    <3> QED BY <1>12, <3>2, <3>3 DEF Keep, Alone
  <2> QED BY <1>1, <1>2, <2>1, <2>2 DEF HandInv, Given, Held
<1>13. CASE Halt
  BY <1>1, <1>2, <1>3, <1>13 DEF Halt, HandInv, Given, Held
<1>14. CASE UNCHANGED bootVars
  BY <1>1, <1>14 DEF vars, ghostVars, HandInv, Given, Held, Stopped
<1>15. CASE Rot
  BY <1>15 DEF Rot, Keep, Alone, Decay, Fail, HandInv
<1> QED BY <1>5, <1>6, <1>7, <1>8, <1>10, <1>11, <1>12, <1>13, <1>14, <1>15
        DEF BNext, Booting, HandOver

(***************************************************************************)
(* The theorems                                                            *)
(***************************************************************************)
\* The invariants of nvitemd and of the hand-over hold together.
LEMMA BothCorrect == BootSpec => []BInvariant
<1>1. BInit => BInvariant
  <2>1. Init => Invariant
    <3>1. Init => Coverage /\ Marked
      BY DEF Init, Coverage, Marked, Diff
    <3> QED BY <3>1, InitType, InitControl, InitImages DEF Invariant
  <2>2. BInit => BTypeOK
    BY ConstantFacts, ImageFacts, InitType DEF BInit, BTypeOK, Nothing
  <2>3. BInit => HandInv
    BY DEF BInit, HandInv, Given, Held, Nothing, Broken
  <2> QED BY <2>1, <2>2, <2>3 DEF BInit, BInvariant
<1>2. BInvariant /\ [BNext]_bootVars => BInvariant'
  BY BothInvariant, NextBType, NextHand DEF BInvariant
<1> QED BY <1>1, <1>2, PTL DEF BootSpec

\* Types, of both programs together.
THEOREM BootTypeCorrect == BootSpec => []BTypeOK
<1>1. BInvariant => BTypeOK
  BY DEF BInvariant
<1> QED BY <1>1, BothCorrect, PTL

\* A partition keeps a good image, and a crash loses at most what is marked,
\* although modem_control rewrites images as well.
THEOREM BootKeepsImages == BootSpec => [](OneGoodImage /\ LossBounded)
<1>1. BInvariant => OneGoodImage
  BY DEF BInvariant, Invariant, ImagesInv, ImageInv, OneGoodImage, File
<1>2. BInvariant => LossBounded
  BY InvariantLoss DEF BInvariant
<1> QED BY <1>1, <1>2, BothCorrect, PTL

\* No repair by modem_control takes a durable commit back.
THEOREM BootNoRollback == BootSpec => NoRollback
<1>1. BInvariant /\ [BNext]_bootVars =>
        [faulted' = {} =>
           \A p \in Part : MainFirst[p] => floor[p] <= floor'[p]]_vars
  <2>1. CASE BInvariant /\ [Next]_vars
    BY <2>1, FloorGrows DEF BInvariant
  <2>2. CASE BInvariant /\ HandFix
    <3>1. \A p \in Part : floor'[p] = floor[p] /\ floor[p] \in Int
      BY <2>2, ConstantFacts
         DEF HandFix, ghostVars, BInvariant, Invariant, TypeOK, NoVer
    <3> QED BY <3>1
  <2> QED BY <2>1, <2>2, StepKinds
<1> QED BY <1>1, BothCorrect, PTL DEF BootSpec, NoRollback

\* The modem and nvitemd start from the same data, however the crash before
\* has left the two images, and from the last save that succeeded.
THEOREM SameNvCorrect == BootSpec => SameNv
<1>1. BInvariant /\ [BNext]_bootVars =>
        [\A p \in Part :
           (given[p].ok /\ MainFirst[p] /\ at["sync"] = p /\ Load1 /\ faulted' = {})
             => /\ given[p].data = bakData'[p]
                /\ given[p].ver >= floor[p]]_bootVars
  <2> SUFFICES ASSUME BInvariant, NEW p \in Part, given[p].ok, MainFirst[p],
                      at["sync"] = p, Load1, faulted' = {}
               PROVE  given[p].data = bakData'[p] /\ given[p].ver >= floor[p]
    OBVIOUS
  <2> DEFINE m == image[p]["main"]
  <2>1. BootRead /\ TypeOK /\ Control /\ faulted = {}
    <3>1. BootRead /\ TypeOK /\ Control
      BY DEF Load1, Alone, BInvariant, Invariant
    <3> QED BY <3>1 DEF BootRead
  <2>2. ImageInv(p) /\ m = given[p] /\ m.ok
    BY <2>1 DEF BInvariant, Invariant, ImagesInv, HandInv, Given
  <2>3. First(p) = "main" /\ m # Broken("Missing")
    BY <2>2 DEF First, Broken
  <2>4. Load(p, m.data, m.ver)
    BY <2>1, <2>2, <2>3 DEF BootRead
  <2>5. bakData'[p] = m.data
    BY <2>1, <2>4 DEF Load, TypeOK
  <2>6. floor[p] <= m.ver /\ floor[p] \in Int /\ m.ver \in Int
    <3>1. m \in Image
      BY <2>1 DEF TypeOK, File
    <3> QED BY <2>1, <2>2, <3>1, ConstantFacts, ImageFacts DEF ImageInv, TypeOK, NoVer
  <2> QED BY <2>2, <2>5, <2>6
<1> QED BY <1>1, BothCorrect, PTL DEF BootSpec, SameNv

(***************************************************************************)
(* Commits and calibration mode, with modem_control beside nvitemd         *)
(***************************************************************************)
\* What modem_control is about to write into a bad image, unless it is
\* zeroes, is a good image of that partition.
HeldFrom ==
  (hand = "fix" /\ held.ok) =>
    \E f \in File : image[cur][f].ok /\ held = image[cur][f]

\* Every step of both programs keeps it: nvitemd does not run meanwhile.
LEMMA NextHeldFrom ==
  ASSUME BInvariant, HeldFrom, [BNext]_bootVars
  PROVE  HeldFrom'
<1> USE DEF handVars, bootVars, HeldFrom
<1>1. CASE HandStart \/ HandFix
  BY <1>1 DEF HandStart, HandFix
<1>2. CASE HandRead \/ HandGive
  <2>1. HandNext => hand' # "fix"
    BY DEF HandNext
  <2>2. \/ hand' # "fix"
        \/ /\ held' = Take(image[cur]["main"], image[cur]["bak"])
           /\ UNCHANGED <<cur, image>>
    BY <1>2, <2>1 DEF HandRead, HandGive, vars
  <2>3. Take(image[cur]["main"], image[cur]["bak"]).ok =>
          \E f \in File : /\ image[cur][f].ok
                          /\ Take(image[cur]["main"], image[cur]["bak"]) = image[cur][f]
    BY DEF Take, Zeroes, Broken, File
  <2> QED BY <2>2, <2>3
<1>3. CASE hand = "off" /\ UNCHANGED hand
  BY <1>3
<1>4. CASE Halt
  BY <1>4 DEF Halt
<1>5. CASE Load1 \/ Rot
  BY <1>3, <1>5 DEF Load1, Rot, Keep, Alone
<1>6. CASE \/ Keep(BootFix \/ BootFixWrite) \/ Keep(SyncRequest)
           \/ Keep(SyncSignal) \/ Keep(SpuriousWake)
           \/ \E t \in Thread : Keep(SaveToDisk(t))
  BY <1>3, <1>6 DEF Keep, Alone
<1>7. CASE UNCHANGED bootVars
  BY <1>7 DEF vars
<1> QED BY <1>1, <1>2, <1>4, <1>5, <1>6, <1>7 DEF BNext, Booting, HandOver

\* The repair by modem_control copies a copy.
LEMMA FixCommits ==
  ASSUME BInvariant, HeldFrom, CommitInv, HandFix
  PROVE  CommitInv'
<1> USE DEF ramVars, reqVars, ghostVars
<1> SUFFICES ASSUME NEW p \in Part
             PROVE  Alike(Copies(p)') /\ Numbered(Copies(p)', ncommit')
  BY DEF CommitInv, Alike, Numbered
<1>1. /\ TypeOK /\ hand = "fix" /\ cur \in Part /\ ncommit \in Nat
      /\ image' = [image EXCEPT ![cur] =
                     [f \in File |-> IF @[f].ok THEN @[f] ELSE held]]
      /\ UNCHANGED <<bakData, bakVer, toData, toVer, ncommit>>
  BY ConstantFacts DEF BInvariant, BTypeOK, HandFix, TypeOK
<1>2. BakCopy'[p] = BakCopy[p] /\ ToCopy'[p] = ToCopy[p]
  BY <1>1 DEF BakCopy, ToCopy
<1>3. \A f \in File : image'[p][f].ok =>
        \E g \in File : image[p][g].ok /\ image'[p][f] = image[p][g]
  <2>1. CASE p = cur
    <3>1. image'[p] = [f \in File |-> IF image[p][f].ok THEN image[p][f] ELSE held]
      BY <1>1, <2>1 DEF TypeOK
    <3> QED BY <1>1, <2>1, <3>1 DEF HeldFrom
  <2>2. CASE p # cur
    BY <1>1, <2>2 DEF TypeOK
  <2> QED BY <2>1, <2>2
<1>4. \A a \in Copies(p)' : a \in Copies(p)
  <2>1. \A f \in File : image'[p][f].ok => CopyOf(image'[p][f]) \in Copies(p)
    BY <1>3, CopyFacts
  <2> QED BY <1>2, <2>1, CopyFacts, CopiesAfter
<1> QED BY <1>1, <1>4, StaysWhole DEF CommitInv

\* Both programs together: two copies of a commit hold the same data, also
\* after modem_control has rewritten a bad image.
THEOREM BootWholeCommits == BootSpec => []WholeCommits
<1>1. BInit => CommitInv /\ HeldFrom
  BY InitCommits DEF BInit, HeldFrom
<1>2. BInvariant /\ CommitInv /\ HeldFrom /\ [BNext]_bootVars
        => (CommitInv /\ HeldFrom)'
  <2> SUFFICES ASSUME BInvariant, CommitInv, HeldFrom, [BNext]_bootVars
               PROVE  CommitInv' /\ HeldFrom'
    OBVIOUS
  <2>1. [Next]_vars => CommitInv'
    BY NextCommits DEF BInvariant, Invariant
  <2>2. HandFix => CommitInv'
    BY FixCommits
  <2> QED BY <2>1, <2>2, StepKinds, NextHeldFrom
<1>3. CommitInv => WholeCommits
  BY DEF CommitInv, Alike, WholeCommits
<1> QED BY <1>1, <1>2, <1>3, BothCorrect, PTL DEF BootSpec

\* In calibration mode, whatever modem_control has done at the boot, the
\* response to a request goes out when the request is the image the next
\* start will load.
THEOREM BootCaliSynchronous == BootSpec => []CaliSynchronous
<1>1. BInit => CaliInv
  BY InitCali DEF BInit
<1>2. BInvariant /\ CaliInv /\ [BNext]_bootVars => CaliInv'
  <2> SUFFICES ASSUME BInvariant, CaliInv, [BNext]_bootVars PROVE CaliInv'
    OBVIOUS
  <2>1. CASE [Next]_vars
    BY <2>1, NextCali DEF BInvariant, Invariant
  <2>2. CASE HandFix
    BY <2>2 DEF HandFix, ramVars, CaliInv
  <2> QED BY <2>1, <2>2, StepKinds
<1>3. BInvariant /\ CaliInv => CaliSynchronous
  BY InvariantCali DEF BInvariant
<1> QED BY <1>1, <1>2, <1>3, BothCorrect, PTL DEF BootSpec
=============================================================================
