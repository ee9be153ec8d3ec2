------------------------------- MODULE NvBoot -------------------------------
(***************************************************************************)
(* The NV hand-over of a modem boot (open-source/apps/modem_control,       *)
(* nv_read.c) composed with nvitemd (module NvStore).                      *)
(*                                                                         *)
(* Two programs read the same pair of images.  When the modem is loaded,   *)
(* modem_control reads both images of a partition with read_nv_partition,  *)
(* rewrites a bad one from the good one and hands the content to the       *)
(* modem.  modemd has stopped nvitemd before, and starts it again when the *)
(* modem is alive (stop_service, start_service); then initBuf reads the    *)
(* images by rules of its own.  nvitemd may also start without a modem     *)
(* boot, and the power may fail between any two steps.                     *)
(***************************************************************************)
EXTENDS NvStore

VARIABLES
  hand,     \* next step of read_nv_partition, "off" outside
  cur,      \* its partition: FIXNV first, RUNNV second
  held,     \* the image it is about to hand over
  given     \* ghost: what the modem got in this boot, until nvitemd loads it

handVars == <<hand, cur, held>>
bootVars == <<vars, handVars, given>>

Nothing == Broken("Missing")      \* no content was handed over
Zeroes  == Broken("Corrupt")      \* memset(buf, 0, size)

BInit == /\ Init
         /\ hand = "off" /\ cur = 0
         /\ held = Nothing /\ given = [p \in Part |-> Nothing]

\* nvitemd has been stopped, or not been started yet.
Stopped == pc["saver"] = "none" /\ pc["sync"] = "bootRead" /\ at["sync"] = 0

\* The end of read_nv_partition for this partition.
HandNext ==
  /\ cur' = IF cur + 1 = PartNum THEN 0 ELSE cur + 1
  /\ hand' = IF cur + 1 = PartNum THEN "off" ELSE "read"
  /\ held' = Nothing

\* load_sipc_modem_img comes to its calls of read_nv_partition.
HandStart ==
  /\ hand = "off" /\ Stopped
  /\ hand' = "read" /\ given' = [p \in Part |-> Nothing]
  /\ UNCHANGED <<vars, cur, held>>

\* Slip: of two good images the backup is taken.
TakeBak(m, b) == IF b.ok THEN b ELSE IF m.ok THEN m ELSE Zeroes

\* What is handed over: main if it is good, else backup, else zeroes.
Take(m, b) == IF m.ok THEN m ELSE IF b.ok THEN b ELSE Zeroes

\* Both images are read and checked; a missing one ends it with no hand-over.
HandRead ==
  LET m == image[cur]["main"]
      b == image[cur]["bak"]
  IN
  /\ hand = "read"
  /\ \/ /\ Nothing \in {m, b}
        /\ HandNext
     \/ /\ Nothing \notin {m, b}
        /\ held' = Take(m, b)
        /\ hand' = IF m.ok /\ b.ok THEN "give" ELSE "fix"
        /\ UNCHANGED cur
  /\ UNCHANGED <<vars, given>>

\* Every image that is not good is rewritten in place with what is handed
\* over (zeroes carry no magic: the image stays bad).
HandFix ==
  /\ hand = "fix" /\ hand' = "give"
  /\ image' = [image EXCEPT ![cur] = [f \in File |-> IF @[f].ok THEN @[f] ELSE held]]
  /\ UNCHANGED <<ramVars, pc, at, ret, reqVars, ghostVars, cur, held, given>>

HandGive ==
  /\ hand = "give"
  /\ given' = [given EXCEPT ![cur] = held]
  /\ HandNext
  /\ UNCHANGED vars

HandOver == HandRead \/ HandFix \/ HandGive

\* nvitemd runs when modem_control is not loading the modem.
Alone(A) == hand = "off" /\ A /\ UNCHANGED handVars
Load1    == /\ Alone(BootRead)
            /\ given' = [given EXCEPT ![at["sync"]] = Nothing]
Keep(A)  == Alone(A) /\ UNCHANGED given
Booting  == HandOver \/ Load1 \/ Keep(BootFix \/ BootFixWrite)

\* A stored image goes bad: before or after a hand-over, which reads each image
\* once and so does not tell the moments apart.
Rot == \E p \in Part, f \in File : Keep(Decay(p, f))

\* nvitemd is killed or the power fails, at any step of either program.
Halt == /\ Crash
        /\ hand' = "off" /\ cur' = 0 /\ held' = Nothing
        /\ given' = [p \in Part |-> Nothing]

BNext ==
  \/ HandStart
  \/ Booting
  \/ Keep(SyncRequest)
  \/ Keep(SyncSignal)
  \/ Keep(SpuriousWake)
  \/ \E t \in Thread : Keep(SaveToDisk(t))
  \/ Rot
  \/ Halt

\* Fairness of NvStore, with the steps as this module guards them, and of
\* modem_control's thread, which never waits for nvitemd.
BootSpec ==
  /\ BInit /\ [][BNext]_bootVars
  /\ WF_bootVars(Booting)
  /\ WF_bootVars(Keep(SyncSignal))
  /\ \A t \in Thread : WF_bootVars(Keep(SaveToDisk(t)))

(***************************************************************************)
(* Properties                                                              *)
(***************************************************************************)
BTypeOK ==
  /\ TypeOK
  /\ hand \in {"off", "read", "fix", "give"} /\ cur \in Part
  /\ held \in Image /\ given \in [Part -> Image]

\* The modem and nvitemd start from the same NV data although each program
\* has its own code for reading two images, and its own repair: the modem
\* later sends only the sectors it changes, so that a difference at the start
\* stays for ever.  And what both start from is not older than the last save
\* that succeeded.  It needs nvitemd's read order to be the one of its comment.
SameNv ==
  [][\A p \in Part :
       (given[p].ok /\ MainFirst[p] /\ at["sync"] = p /\ Load1 /\ faulted' = {})
         => /\ given[p].data = bakData'[p]
            /\ given[p].ver >= floor[p]]_bootVars

(***************************************************************************)
(* The invariant behind SameNv (see NvBootProofs): what modem_control has  *)
(* read stays the main image until nvitemd loads it.                       *)
(***************************************************************************)
Given(p) ==
  given[p].ok =>
    /\ pc["saver"] = "none"
    /\ p > at["sync"] \/ (p = at["sync"] /\ pc["sync"] = "bootRead")
    /\ hand = "off" \/ p < cur
    /\ image[p]["main"] = given[p]
Held(p) ==
  cur = p =>
    /\ hand = "fix"  => held = Take(image[p]["main"], image[p]["bak"])
    /\ hand = "give" => held.ok /\ held = image[p]["main"]
HandInv ==
  /\ hand # "off" => Stopped
  /\ faulted = {} => \A p \in Part : MainFirst[p] => Given(p) /\ Held(p)
=============================================================================
