------------------------------ MODULE CmrMsg -------------------------------
(***************************************************************************)
(* The message threads of the camera HAL (modules/libcamera/common/src/    *)
(* cmr_msg.c): a ring of msg_count slots under a mutex, a counting         *)
(* semaphore msg_sem, and one semaphore per slot on which the poster of a  *)
(* synchronous message waits until the thread has received or processed    *)
(* it.  An owner creates and destroys the thread (its INIT and EXIT        *)
(* messages are synchronous), the posters send to it in between.           *)
(*                                                                         *)
(* An action is one critical section of the mutex, or one access to shared *)
(* memory outside of it: after unlocking, a poster signals msg_sem, then   *)
(* reads sync_f of the slot it wrote, then waits.                          *)
(***************************************************************************)
EXTENDS Integers, Sequences, FiniteSets

CONSTANTS
  Count,     \* msg_count: the queue_length of cmr_thread_create
  Poster,    \* the threads that call cmr_thread_msg_send
  Owner,     \* the thread that calls cmr_thread_create and _destroy
  Flags,     \* the sync_flags that the posters use
  MaxSem     \* bound: the values of a slot's semaphore that are told apart

SyncFlags == {"none", "received", "processed"}     \* CMR_MSG_SYNC_*

ASSUME CountAssumption  == Count \in Nat /\ Count >= 2
ASSUME PosterAssumption == IsFiniteSet(Poster) /\ Owner \notin Poster
ASSUME FlagsAssumption  == Flags \subseteq SyncFlags
ASSUME MaxSemAssumption == MaxSem \in Nat \ {0}

Client  == Poster \cup {Owner}
Slot    == 0 .. Count - 1
Kind    == {"init", "work", "exit"}
Message == [kind : Kind, flag : SyncFlags, from : Client]
NoMsg   == [kind |-> "nothing", flag |-> "none", from |-> Owner]    \* bzero

VARIABLES
  msg, syncF, sem,         \* the slots: msg, sync_f, sem
  write, read, number,     \* msg_write, msg_read, msg_number
  msgSem,                  \* msg_sem
  cpc, cslot, cmsg,        \* the thread: next step, cmr_priv, message
  life,                    \* the owner: where it is between create and destroy
  pc, slot, flag,          \* per client inside cmr_msg_post: step, msg_cur, sync_flag
  stage,                   \* ghost: what became of its last synchronous message
  overtaken,               \* ghost: a slot was reused before its poster returned
  refused, orphaned        \* ghost: EXIT met a full queue; the thread lost its queue

ring   == <<msg, syncF, write, read, number>>
thread == <<cpc, cslot, cmsg>>
calls  == <<pc, slot, flag>>
ghosts == <<stage, overtaken, refused, orphaned>>
vars   == <<ring, sem, msgSem, thread, life, calls, ghosts>>

\* Slip: the wrap comes one slot late.
SuccLate(i) == IF i + 1 > Count THEN 0 ELSE i + 1
Succ(i) == IF i + 1 > Count - 1 THEN 0 ELSE i + 1     \* ++ with the wrap
\* sem_post on the semaphore of slot s.
Up(s)   == sem' = [sem EXCEPT ![s] = IF @ < MaxSem THEN @ + 1 ELSE @]

Init ==
  /\ msg = [s \in Slot |-> NoMsg] /\ syncF = [s \in Slot |-> "none"]
  /\ sem = [s \in Slot |-> 0] /\ msgSem = 0
  /\ write = 0 /\ read = 0 /\ number = 0
  /\ cpc = "none" /\ cslot = 0 /\ cmsg = NoMsg
  /\ life = "absent"
  /\ pc = [c \in Client |-> "out"] /\ slot = [c \in Client |-> 0]
  /\ flag = [c \in Client |-> "none"]
  /\ stage = [c \in Client |-> "idle"]
  /\ overtaken = FALSE /\ refused = FALSE /\ orphaned = FALSE

(***************************************************************************)
(* cmr_msg_post                                                            *)
(***************************************************************************)
\* Slip: every slot may be filled.
FullAtCount == number >= Count
Full == number + 1 >= Count

\* Slip: msg_write moves on before the message is stored.
EnqueueAfterStep(c, k, f) ==
  /\ ~Full
  /\ syncF' = [syncF EXCEPT ![Succ(write)] = f]
  /\ msg' = [msg EXCEPT ![Succ(write)] = [kind |-> k, flag |-> f, from |-> c]]
  /\ write' = Succ(write) /\ number' = number + 1
  /\ pc' = [pc EXCEPT ![c] = "unlocked"]
  /\ slot' = [slot EXCEPT ![c] = Succ(write)] /\ flag' = [flag EXCEPT ![c] = f]
  /\ stage' = IF f = "none" THEN stage ELSE [stage EXCEPT ![c] = "queued"]
  /\ UNCHANGED <<read, sem, msgSem, thread, life, overtaken, refused, orphaned>>

\* The critical section: the message goes into the slot at msg_write.  Should
\* msg_write meet msg_read, it is set to ori_node, the msg_write that was read
\* before the mutex was taken: any slot by now (RingOK: it never happens).
Enqueue(c, k, f) ==
  /\ ~Full
  /\ syncF' = [syncF EXCEPT ![write] = f]
  /\ msg' = [msg EXCEPT ![write] = [kind |-> k, flag |-> f, from |-> c]]
  /\ write' \in IF Succ(write) = read THEN Slot ELSE {Succ(write)}
  /\ number' = number + 1
  /\ pc' = [pc EXCEPT ![c] = "unlocked"]
  /\ slot' = [slot EXCEPT ![c] = write] /\ flag' = [flag EXCEPT ![c] = f]
  /\ stage' = IF f = "none" THEN stage ELSE [stage EXCEPT ![c] = "queued"]
  /\ overtaken' = (overtaken \/ \E d \in Client : pc[d] # "out" /\ slot[d] = write)
  /\ UNCHANGED <<read, sem, msgSem, thread, life, refused, orphaned>>

\* A poster sends between cmr_thread_create and cmr_thread_destroy; when the
\* queue is full the call returns CMR_MSG_OVERFLOW and nothing has changed.
Post(p) ==
  /\ life = "running" /\ pc[p] = "out"
  /\ \E f \in Flags : Enqueue(p, "work", f)

Signal(c) ==
  /\ pc[c] = "unlocked"
  /\ msgSem' = msgSem + 1
  /\ pc' = [pc EXCEPT ![c] = "signalled"]
  /\ UNCHANGED <<ring, sem, thread, life, slot, flag, ghosts>>

\* cmr_msg_post returns.  To the owner this means that the thread runs, after
\* INIT, or that cmr_thread_destroy goes on, after EXIT.
Return(c) ==
  /\ pc' = [pc EXCEPT ![c] = "out"] /\ slot' = [slot EXCEPT ![c] = 0]
  /\ flag' = [flag EXCEPT ![c] = "none"] /\ stage' = [stage EXCEPT ![c] = "idle"]
  /\ life' = IF c # Owner THEN life
             ELSE IF life = "starting" THEN "running" ELSE "stopped"

\* sync_f is read from the slot, without the mutex.
CheckFlag(c) ==
  /\ pc[c] = "signalled"
  /\ IF syncF[slot[c]] # "none"
       THEN /\ pc' = [pc EXCEPT ![c] = "waiting"]
            /\ UNCHANGED <<life, slot, flag, stage>>
       ELSE Return(c)
  /\ UNCHANGED <<ring, sem, msgSem, thread, overtaken, refused, orphaned>>

Wake(c) ==
  /\ pc[c] = "waiting" /\ sem[slot[c]] > 0
  /\ sem' = [sem EXCEPT ![slot[c]] = @ - 1]
  /\ Return(c)
  /\ UNCHANGED <<ring, msgSem, thread, overtaken, refused, orphaned>>

(***************************************************************************)
(* cmr_common_routine and cmr_msg_get                                      *)
(***************************************************************************)
\* Slip: a wait that has timed out counts like a message.
FetchTimeout ==
  /\ cpc = "get" /\ cpc' = "lock"
  /\ msgSem' = IF msgSem > 0 THEN msgSem - 1 ELSE msgSem
  /\ UNCHANGED <<ring, sem, cslot, cmsg, life, calls, ghosts>>

Fetch ==
  /\ cpc = "get" /\ msgSem > 0
  /\ msgSem' = msgSem - 1 /\ cpc' = "lock"
  /\ UNCHANGED <<ring, sem, cslot, cmsg, life, calls, ghosts>>

\* The poster of m, if it waits for that, may go on.
Reached(m, st) == stage' = IF m.flag = "none" \/ (st = "processed" /\ m.flag # st)
                             THEN stage ELSE [stage EXCEPT ![m.from] = st]

\* The critical section of cmr_msg_get; an underflow ends the thread.  With
\* msg_read at msg_write the message of an earlier turn, which the model has
\* dropped, would be processed again (RingOK: it never happens).
Take ==
  /\ cpc = "lock"
  /\ IF number = 0 \/ read = write
       THEN /\ IF number = 0
                 THEN cpc' = "ended" /\ UNCHANGED <<cslot, cmsg>>
                 ELSE cpc' = "process" /\ cslot' \in Slot
                      /\ cmsg' \in Message \cup {NoMsg}
            /\ UNCHANGED <<ring, stage>>
       ELSE /\ cmsg' = msg[read] /\ cslot' = read
            /\ msg' = [msg EXCEPT ![read] = NoMsg]
            /\ read' = Succ(read) /\ number' = number - 1
            /\ cpc' = "received" /\ Reached(msg[read], "received")
            /\ UNCHANGED <<syncF, write>>
  /\ UNCHANGED <<sem, msgSem, life, calls, overtaken, refused, orphaned>>

\* Slip: every synchronous message is answered as soon as it is received.
ReplyReceivedAny ==
  /\ cpc = "received"
  /\ IF syncF[cslot] # "none" THEN Up(cslot) ELSE UNCHANGED sem
  /\ cpc' = "process"
  /\ UNCHANGED <<ring, msgSem, cslot, cmsg, life, calls, ghosts>>

ReplyReceived ==
  /\ cpc = "received"
  /\ IF syncF[cslot] = "received" THEN Up(cslot) ELSE UNCHANGED sem
  /\ cpc' = "process"
  /\ UNCHANGED <<ring, msgSem, cslot, cmsg, life, calls, ghosts>>

\* msg_process_cb (INIT and EXIT have no callback).
Process ==
  /\ cpc = "process"
  /\ cpc' = "reply" /\ Reached(cmsg, "processed")
  /\ UNCHANGED <<ring, sem, msgSem, cslot, cmsg, life, calls, overtaken, refused,
                 orphaned>>

\* Slip: EXIT leaves the loop before it is answered.
ReplyProcessedNotExit ==
  /\ cpc = "reply"
  /\ IF syncF[cslot] = "processed" /\ cmsg.kind # "exit" THEN Up(cslot)
                                                         ELSE UNCHANGED sem
  /\ cpc' = IF cmsg.kind = "exit" THEN "ended" ELSE "get"
  /\ cmsg' = NoMsg /\ cslot' = 0
  /\ UNCHANGED <<ring, msgSem, life, calls, ghosts>>

ReplyProcessed ==
  /\ cpc = "reply"
  /\ IF syncF[cslot] = "processed" THEN Up(cslot) ELSE UNCHANGED sem
  /\ cpc' = IF cmsg.kind = "exit" THEN "ended" ELSE "get"
  /\ cmsg' = NoMsg /\ cslot' = 0
  /\ UNCHANGED <<ring, msgSem, life, calls, ghosts>>

Routine == Fetch \/ Take \/ ReplyReceived \/ Process \/ ReplyProcessed

(***************************************************************************)
(* cmr_thread_create and cmr_thread_destroy                                *)
(***************************************************************************)
\* cmr_msg_queue_create and pthread_create.
Create ==
  /\ life = "absent"
  /\ msg' = [s \in Slot |-> NoMsg] /\ syncF' = [s \in Slot |-> "none"]
  /\ sem' = [s \in Slot |-> 0] /\ msgSem' = 0
  /\ write' = 0 /\ read' = 0 /\ number' = 0
  /\ cpc' = "get" /\ cslot' = 0 /\ cmsg' = NoMsg
  /\ life' = "starting"
  /\ overtaken' = FALSE /\ refused' = FALSE /\ orphaned' = FALSE
  /\ UNCHANGED <<calls, stage>>
PostInit ==
  /\ life = "starting" /\ pc[Owner] = "out"
  /\ Enqueue(Owner, "init", "processed")

\* The HAL destroys a thread when no call to it is under way.
Destroy ==
  /\ life = "running" /\ \A c \in Client : pc[c] = "out"
  /\ life' = "stopping"
  /\ UNCHANGED <<ring, sem, msgSem, thread, calls, ghosts>>
\* Slip: the EXIT message is sent without waiting for it.
PostExitAsync ==
  /\ life = "stopping" /\ pc[Owner] = "out"
  /\ \/ Enqueue(Owner, "exit", "none")
     \/ /\ Full
        /\ life' = "stopped" /\ refused' = TRUE
        /\ UNCHANGED <<ring, sem, msgSem, thread, calls, stage, overtaken,
                       orphaned>>

PostExit ==
  /\ life = "stopping" /\ pc[Owner] = "out"
  /\ \/ Enqueue(Owner, "exit", "processed")
     \/ /\ Full
        /\ life' = "stopped" /\ refused' = TRUE
        /\ UNCHANGED <<ring, sem, msgSem, thread, calls, stage, overtaken,
                       orphaned>>

\* cmr_msg_queue_destroy, whatever became of EXIT.  A thread that still uses
\* the freed queue is not followed any further.
Free ==
  /\ life = "stopped"
  /\ life' = "absent"
  /\ orphaned' = (cpc # "ended") /\ cpc' = "none"
  /\ UNCHANGED <<ring, sem, msgSem, cslot, cmsg, calls, stage, overtaken, refused>>

Owning == Create \/ PostInit \/ Destroy \/ PostExit \/ Free
Calling(c) == Signal(c) \/ CheckFlag(c) \/ Wake(c)
Next ==
  \/ \E p \in Poster : Post(p)
  \/ \E c \in Client : Calling(c)
  \/ Routine
  \/ Owning

Spec == Init /\ [][Next]_vars

\* Threads inside the framework run; posting and destroying are the users'.
Fairness == /\ WF_vars(Routine)
            /\ \A c \in Client : WF_vars(Calling(c))
FairSpec == Spec /\ Fairness

(***************************************************************************)
(* Properties                                                              *)
(***************************************************************************)
TypeOK ==
  /\ msg \in [Slot -> Message \cup {NoMsg}] /\ syncF \in [Slot -> SyncFlags]
  /\ sem \in [Slot -> 0 .. MaxSem] /\ msgSem \in Nat
  /\ write \in Slot /\ read \in Slot /\ number \in Nat
  /\ cpc \in {"none", "get", "lock", "received", "process", "reply", "ended"}
  /\ cslot \in Slot /\ cmsg \in Message \cup {NoMsg}
  /\ life \in {"absent", "starting", "running", "stopping", "stopped"}
  /\ pc \in [Client -> {"out", "unlocked", "signalled", "waiting"}]
  /\ slot \in [Client -> Slot] /\ flag \in [Client -> SyncFlags]
  /\ stage \in [Client -> {"idle", "queued", "received", "processed"}]
  /\ overtaken \in BOOLEAN /\ refused \in BOOLEAN /\ orphaned \in BOOLEAN

\* The place of the i-th message after msg_read.
At(i) == IF read + i < Count THEN read + i ELSE read + i - Count
Queue == [i \in 1 .. number |-> msg[At(i - 1)]]

\* The ring and its counter never disagree, so that msg_write never runs into
\* msg_read (the code's last resort, ori_node, is never used), and msg_sem
\* announces exactly the messages that are there, less those whose poster has
\* not signalled yet: the thread never finds the queue empty.
Unlocked == {c \in Client : pc[c] = "unlocked"}
RingOK ==
  /\ number <= Count - 1 /\ write = At(number)
  /\ life # "absent" =>
       number = msgSem + Cardinality(Unlocked) + IF cpc = "lock" THEN 1 ELSE 0

\* While the thread works on a message nobody overwrites the sync_f of its
\* slot, although the slot is free again: it answers as the poster asked.  The
\* slot that the overflow test (number + 1 >= count) leaves empty protects it.
Working  == cpc \in {"received", "process", "reply"}
SlotHeld == Working => syncF[cslot] = cmsg.flag

\* The ring is a queue: messages leave it in the order they came, none twice
\* and none lost.
FIFO == INSTANCE MsgQueue WITH queue <- Queue, Capacity <- Count - 1
QueueSpec == FIFO!Spec

\* cmr_msg.h:56 "0 , no sync, post whatever is received or processed; 1, sync
\* by it is received; 2 sync by it is processed": what a call of cmr_msg_post
\* that waits, or returns, may rely on.
Honoured(c) ==
  /\ (pc[c] # "waiting" /\ pc'[c] = "waiting") => flag[c] # "none"
  /\ (pc[c] # "out" /\ pc'[c] = "out" /\ flag[c] # "none") =>
       stage[c] = flag[c]
SyncFlagHonoured == [][\A c \in Client : Honoured(c)]_vars

\* The promise of sync_flag is kept as long as no slot is reused before the
\* call that filled it has returned (the poster reads sync_f, and waits on
\* sem, after unlocking; a stale answer stays in sem).
HonouredInTime == [][~overtaken => \A c \in Client : Honoured(c)]_vars

\* cmr_thread_destroy frees the queue under a running thread only if a full
\* queue refused its EXIT, or a stale answer woke it.
NoOrphan == orphaned => refused \/ overtaken

\* Every call returns, unless a slot is reused too early.
CallsReturn ==
  \A c \in Client : pc[c] # "out" ~> (pc[c] = "out" \/ overtaken)
=============================================================================
