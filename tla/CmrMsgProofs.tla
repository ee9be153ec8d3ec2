---------------------------- MODULE CmrMsgProofs ----------------------------
(***************************************************************************)
(* Proofs about the message threads of the camera HAL (module CmrMsg), for *)
(* every queue length from 2 on and any number of posters: the ring is a   *)
(* first-in first-out queue, it never underflows, and the thread answers   *)
(* each message as its poster asked.                                       *)
(***************************************************************************)
EXTENDS CmrMsg, FiniteSetTheorems, SequenceTheorems, TLAPS

\* The slot of the message in work is the one just before msg_read.
Behind == Working => Succ(cslot) = read
\* The posters call while the thread runs, the owner around that; before and
\* after there is no thread.
InCall(c) == pc[c] # "out"
Order == /\ InCall(Owner) => life \in {"starting", "stopping"}
         /\ \A p \in Poster : InCall(p) => life = "running"
         /\ life = "absent" => cpc = "none"
\* Each message in the ring lies in a slot with its own sync_flag.
Stored == \A i \in 0 .. number - 1 : syncF[At(i)] = msg[At(i)].flag
Held == SlotHeld /\ Behind /\ Stored
RingInv == TypeOK /\ Order /\ RingOK /\ Held

\* The places of the ring: one step on is the next place, and fewer than
\* msg_count messages fill different places.
LEMMA Places ==
  ASSUME TypeOK
  PROVE  /\ \A i \in 0 .. Count - 1 : At(i) \in Slot
         /\ \A i, j \in 0 .. Count - 1 : At(i) = At(j) => i = j
         /\ At(0) = read
         /\ \A i \in 0 .. Count - 2 : Succ(At(i)) = At(i + 1)
         /\ Succ(At(Count - 1)) = read
         /\ \A s \in Slot : Succ(s) \in Slot
         /\ \A s \in Slot : Succ(s) = read => s = At(Count - 1)
<1> USE CountAssumption DEF Slot
<1>1. read \in Slot
  BY DEF TypeOK
<1>2. \A i \in 0 .. Count - 1 : At(i) \in Slot
  BY <1>1 DEF At
<1>3. \A i, j \in 0 .. Count - 1 : At(i) = At(j) => i = j
  BY <1>1 DEF At
<1>4. At(0) = read
  BY <1>1 DEF At
<1>5. \A i \in 0 .. Count - 2 : Succ(At(i)) = At(i + 1)
  BY <1>1 DEF At, Succ
<1>6. Succ(At(Count - 1)) = read
  BY <1>1 DEF At, Succ
<1>7. \A s \in Slot : Succ(s) \in Slot
  BY DEF Succ
<1>8. \A s \in Slot : Succ(s) = read => s = At(Count - 1)
  BY <1>1 DEF At, Succ
<1> QED
  BY <1>2, <1>3, <1>4, <1>5, <1>6, <1>7, <1>8

\* Client is finite, and one more or one less unlocked client counts one.
LEMMA Counting ==
  ASSUME NEW S \in SUBSET Client, NEW c \in Client
  PROVE  /\ Cardinality(S) \in Nat
         /\ c \notin S => Cardinality(S \cup {c}) = Cardinality(S) + 1
         /\ c \in S => Cardinality(S \ {c}) = Cardinality(S) - 1
<1>1. IsFiniteSet(Client)
  BY PosterAssumption, FS_AddElement DEF Client
<1>2. IsFiniteSet(S)
  BY <1>1, FS_Subset
<1> QED
  BY <1>2, FS_CardinalityType, FS_AddElement, FS_RemoveElement

\* Those who have still to signal are clients.
LEMMA UnlockedClients == Unlocked \in SUBSET Client /\ Cardinality(Unlocked) \in Nat
<1>1. Unlocked \in SUBSET Client
  BY DEF Unlocked
<1>2. PICK c : c \in Client
  BY DEF Client
<1> QED
  BY <1>1, <1>2, Counting

(***************************************************************************)
(* Types                                                                   *)
(***************************************************************************)
\* The initial state is well typed.
LEMMA InitType == Init => TypeOK
<1>1. 0 \in Slot /\ 0 \in 0 .. MaxSem
  BY CountAssumption, MaxSemAssumption DEF Slot
<1> SUFFICES ASSUME Init PROVE TypeOK
  OBVIOUS
<1>2. msg \in [Slot -> Message \cup {NoMsg}] /\ sem \in [Slot -> 0 .. MaxSem]
  BY <1>1 DEF Init
<1>3. syncF \in [Slot -> SyncFlags] /\ flag \in [Client -> SyncFlags]
  BY DEF Init, SyncFlags
<1>4. /\ pc \in [Client -> {"out", "unlocked", "signalled", "waiting"}]
      /\ slot \in [Client -> Slot]
      /\ stage \in [Client -> {"idle", "queued", "received", "processed"}]
  BY <1>1 DEF Init
<1> QED
  BY <1>1, <1>2, <1>3, <1>4 DEF Init, TypeOK

\* Putting a message into the ring keeps the types.
LEMMA EnqueueType ==
  ASSUME TypeOK, NEW c \in Client, NEW k \in Kind, NEW f \in SyncFlags,
         Enqueue(c, k, f)
  PROVE  TypeOK'
  BY Places DEF TypeOK, Enqueue, thread, Message, Full

\* The return of a call keeps the types.
LEMMA ReturnType ==
  ASSUME TypeOK, NEW c \in Client, Return(c)
  PROVE  /\ pc' \in [Client -> {"out", "unlocked", "signalled", "waiting"}]
         /\ slot' \in [Client -> Slot] /\ flag' \in [Client -> SyncFlags]
         /\ stage' \in [Client -> {"idle", "queued", "received", "processed"}]
         /\ life' \in {"absent", "starting", "running", "stopping", "stopped"}
  BY CountAssumption DEF TypeOK, Return, Slot, SyncFlags

\* A sem_post keeps the type of the semaphores.
LEMMA UpType ==
  ASSUME TypeOK, NEW s \in Slot, Up(s)
  PROVE  sem' \in [Slot -> 0 .. MaxSem]
  BY MaxSemAssumption DEF TypeOK, Up

\* Every step keeps the types.
LEMMA NextType ==
  ASSUME TypeOK, [Next]_vars
  PROVE  TypeOK'
<1>1. ASSUME NEW p \in Poster, Post(p) PROVE TypeOK'
  BY <1>1, EnqueueType, FlagsAssumption DEF Post, Client, Kind
<1>2. ASSUME NEW c \in Client, Signal(c) PROVE TypeOK'
  BY <1>2 DEF Signal, TypeOK, ring, thread, ghosts
<1>3. ASSUME NEW c \in Client, CheckFlag(c) PROVE TypeOK'
  BY <1>3, ReturnType DEF CheckFlag, TypeOK, ring, thread
<1>4. ASSUME NEW c \in Client, Wake(c) PROVE TypeOK'
  <2>1. sem' \in [Slot -> 0 .. MaxSem]
    BY <1>4, MaxSemAssumption DEF Wake, TypeOK
  <2> QED
    BY <1>4, <2>1, ReturnType DEF Wake, TypeOK, ring, thread
<1>5. CASE Fetch
  BY <1>5 DEF Fetch, TypeOK, ring, calls, ghosts
<1>6. CASE Take
  BY <1>6, Places DEF Take, TypeOK, Reached, ring, calls, Message, SyncFlags, NoMsg
<1>7. CASE ReplyReceived
  BY <1>7, UpType DEF ReplyReceived, TypeOK, ring, calls, ghosts
<1>8. CASE Process
  BY <1>8 DEF Process, TypeOK, Reached, ring, calls, Message, NoMsg
<1>9. CASE ReplyProcessed
  BY <1>9, UpType, CountAssumption DEF ReplyProcessed, TypeOK, ring, calls, ghosts, Slot
<1>10. CASE Create
  <2>1. 0 \in Slot /\ 0 \in 0 .. MaxSem
    BY CountAssumption, MaxSemAssumption DEF Slot
  <2> QED
    BY <1>10, <2>1 DEF Create, TypeOK, calls, SyncFlags
<1>11. CASE PostInit
  BY <1>11, EnqueueType DEF PostInit, Client, Kind, SyncFlags
<1>12. CASE Destroy
  BY <1>12 DEF Destroy, TypeOK, ring, thread, calls, ghosts
<1>13. CASE PostExit
  <2>1. CASE Enqueue(Owner, "exit", "processed")
    BY <2>1, EnqueueType DEF Client, Kind, SyncFlags
  <2> QED
    BY <1>13, <2>1 DEF PostExit, TypeOK, ring, thread, calls
<1>14. CASE Free
  BY <1>14 DEF Free, TypeOK, ring, calls
<1>15. CASE UNCHANGED vars
  BY <1>15 DEF vars, TypeOK, ring, thread, calls, ghosts
<1> QED
  BY <1>1, <1>2, <1>3, <1>4, <1>5, <1>6, <1>7, <1>8, <1>9, <1>10, <1>11, <1>12,
     <1>13, <1>14, <1>15 DEF Next, Calling, Routine, Owning

(***************************************************************************)
(* The ring                                                                *)
(***************************************************************************)
\* The empty queue of cmr_msg_queue_create satisfies the invariant.
LEMMA InitRing == Init => RingOK /\ Held
<1>1. Init => Unlocked = {}
  BY DEF Init, Unlocked
<1> QED
  BY <1>1, CountAssumption DEF Init, RingOK, At, Held, SlotHeld, Behind, Stored, Working

\* Putting a message into the ring keeps it in order, and leaves alone the
\* slot of the message in work.
LEMMA EnqueueRing ==
  ASSUME RingInv, NEW c \in Client, NEW k \in Kind, NEW f \in SyncFlags,
         Enqueue(c, k, f), pc[c] = "out"
  PROVE  (RingOK /\ Held)'
<1> USE DEF RingInv
<1>1. number \in 0 .. Count - 2 /\ write = At(number) /\ Succ(write) = At(number + 1)
  BY Places, CountAssumption DEF TypeOK, RingOK, Enqueue, Full
<1>2. Succ(write) # read
  BY <1>1, Places, CountAssumption
<1>3. write' = At(number)' /\ number' <= Count - 1
  BY <1>1, <1>2, CountAssumption DEF Enqueue, At
<1>4. Unlocked' = Unlocked \cup {c} /\ c \notin Unlocked /\ Unlocked \subseteq Client
  BY DEF Unlocked, Enqueue, TypeOK
<1>5. Cardinality(Unlocked') = Cardinality(Unlocked) + 1 /\ Cardinality(Unlocked) \in Nat
  BY <1>4, Counting
<1>6. RingOK'
  <2>1. life' = life /\ msgSem' = msgSem /\ cpc' = cpc /\ number' = number + 1
    BY DEF Enqueue, thread
  <2>2. msgSem \in Nat /\ number \in Nat
    BY DEF TypeOK
  <2>3. life # "absent" => number = msgSem + Cardinality(Unlocked)
                                    + IF cpc = "lock" THEN 1 ELSE 0
    BY DEF RingOK
  <2> QED
    BY <1>3, <1>5, <2>1, <2>2, <2>3 DEF RingOK
<1>7. Working => cslot # write
  BY <1>1, Places, CountAssumption DEF Held, Behind, TypeOK
<1>8. Stored'
  <2>1. number' = number + 1 /\ \A i \in 0 .. Count - 1 : At(i)' = At(i)
    BY DEF Enqueue, At
  <2>2. syncF'[write] = f /\ msg'[write].flag = f
    BY DEF Enqueue, TypeOK
  <2>3. \A i \in 0 .. number - 1 : At(i) # write /\ At(i) \in Slot
    BY <1>1, Places, CountAssumption
  <2>4. \A i \in 0 .. number - 1 : syncF'[At(i)] = syncF[At(i)] /\ msg'[At(i)] = msg[At(i)]
    BY <2>3 DEF Enqueue, TypeOK
  <2>5. \A i \in 0 .. number - 1 : syncF[At(i)] = msg[At(i)].flag
    BY DEF Held, Stored
  <2> SUFFICES ASSUME NEW i \in 0 .. number PROVE syncF'[At(i)] = msg'[At(i)].flag
    BY <1>1, <2>1, CountAssumption DEF Stored
  <2> QED
    BY <1>1, <2>2, <2>4, <2>5
<1> QED
  BY <1>6, <1>7, <1>8 DEF Held, SlotHeld, Behind, Working, Enqueue, thread, TypeOK

\* A step of a call that leaves the ring alone and changes neither msg_sem nor
\* who has still to signal it keeps the invariant.
LEMMA CallRing ==
  ASSUME RingInv, UNCHANGED <<ring, thread, msgSem, Unlocked>>,
         life' # "absent" => life # "absent"
  PROVE  (RingOK /\ Held)'
  BY DEF RingInv, RingOK, Held, SlotHeld, Behind, Stored, Working, At, ring, thread

\* Every step keeps the order of create, calls and destroy.
LEMMA NextOrder ==
  ASSUME TypeOK, Order, [Next]_vars
  PROVE  Order'
<1> USE PosterAssumption DEF Order, InCall, TypeOK, Client
<1>1. ASSUME NEW p \in Poster, Post(p) PROVE Order'
  BY <1>1 DEF Post, Enqueue, thread
<1>2. ASSUME NEW c \in Client, Calling(c) PROVE Order'
  BY <1>2 DEF Calling, Signal, CheckFlag, Wake, Return, thread
<1>3. CASE Routine
  BY <1>3 DEF Routine, Fetch, Take, ReplyReceived, Process, ReplyProcessed, calls
<1>4. CASE Owning
  BY <1>4 DEF Owning, Create, PostInit, Destroy, PostExit, Free, Enqueue, calls,
              thread
<1>5. CASE UNCHANGED vars
  BY <1>5 DEF vars, calls, thread
<1> QED
  BY <1>1, <1>2, <1>3, <1>4, <1>5 DEF Next

\* Every step keeps the ring in order.
LEMMA NextRing ==
  ASSUME RingInv, [Next]_vars
  PROVE  RingInv'
<1> USE DEF RingInv
<1> SUFFICES (RingOK /\ Held)'
  BY NextType, NextOrder
<1>1. ASSUME NEW p \in Poster, Post(p) PROVE (RingOK /\ Held)'
  BY <1>1, EnqueueRing, FlagsAssumption DEF Post, Client, Kind
<1>2. ASSUME NEW c \in Client, Signal(c) PROVE (RingOK /\ Held)'
  <2>1. Unlocked' = Unlocked \ {c} /\ c \in Unlocked /\ Unlocked \subseteq Client
    BY <1>2 DEF Unlocked, Signal, TypeOK
  <2>2. Cardinality(Unlocked') = Cardinality(Unlocked) - 1 /\ Cardinality(Unlocked) \in Nat
    BY <2>1, Counting
  <2> QED
    BY <1>2, <2>2 DEF Signal, RingOK, Held, SlotHeld, Behind, Stored,
                          Working, At, ring, thread, TypeOK
<1>3. ASSUME NEW c \in Client, CheckFlag(c) \/ Wake(c)
      PROVE  (RingOK /\ Held)'
  <2>1. Unlocked' = Unlocked
    BY <1>3 DEF Unlocked, CheckFlag, Wake, Return, TypeOK
  <2>2. life' # "absent" => life # "absent"
    BY <1>3 DEF CheckFlag, Wake, Return, Order, InCall, Client
  <2> QED
    BY <1>3, <2>1, <2>2, CallRing DEF CheckFlag, Wake
<1>4. CASE Fetch
  <2>1. Unlocked' = Unlocked /\ Cardinality(Unlocked) \in Nat
    BY <1>4, Counting, UnlockedClients DEF Unlocked, Fetch, calls
  <2> QED
    BY <1>4, <2>1 DEF Fetch, RingOK, Held, SlotHeld, Behind, Stored,
                          Working, At, ring, calls, TypeOK
<1>5. CASE Take
  <2>1. Unlocked' = Unlocked /\ Cardinality(Unlocked) \in Nat
    BY <1>5, Counting, UnlockedClients DEF Unlocked, Take, calls
  <2>2. number # 0 /\ number \in 0 .. Count - 1
    BY <1>5, UnlockedClients, CountAssumption DEF Take, RingOK, Order, TypeOK
  <2>3. read # write
    BY <2>2, Places, CountAssumption DEF RingOK
  <2>4. /\ cmsg' = msg[read] /\ cslot' = read /\ read' = Succ(read)
        /\ number' = number - 1 /\ cpc' = "received" /\ syncF' = syncF
        /\ write' = write /\ msgSem' = msgSem /\ life' = life
    BY <1>5, <2>2, <2>3 DEF Take
  <2>5. write' = At(number)'
    <3>1. read \in 0 .. Count - 1 /\ write = At(number)
      BY DEF TypeOK, Slot, RingOK
    <3>2. write = IF Succ(read) + (number - 1) < Count
                    THEN Succ(read) + (number - 1)
                    ELSE Succ(read) + (number - 1) - Count
      BY <2>2, <3>1, CountAssumption DEF At, Succ
    <3> QED
      BY <2>4, <3>2 DEF At
  <2>6. RingOK'
    BY <1>5, <2>1, <2>2, <2>4, <2>5, CountAssumption DEF RingOK, TypeOK, Take
  <2>7. syncF[read] = msg[read].flag
    BY <2>2, Places, CountAssumption DEF Held, Stored
  <2>8. Stored'
    <3>1. \A i \in 0 .. Count - 2 : At(i)' = At(i + 1)
      BY <2>4, Places, CountAssumption DEF At, Succ, TypeOK, Slot
    <3>2. \A i \in 1 .. number - 1 : At(i) # read /\ At(i) \in Slot
      BY <2>2, Places, CountAssumption
    <3>3. \A i \in 1 .. number - 1 : msg'[At(i)] = msg[At(i)]
      BY <1>5, <2>2, <2>3, <3>2 DEF Take, TypeOK
    <3>4. \A i \in 1 .. number - 1 : syncF[At(i)] = msg[At(i)].flag
      BY <2>2 DEF Held, Stored
    <3> SUFFICES ASSUME NEW i \in 0 .. number - 2
                 PROVE  syncF'[At(i)'] = msg'[At(i)'].flag
      BY <2>2, <2>4 DEF Stored
    <3>5. At(i)' = At(i + 1) /\ i + 1 \in 1 .. number - 1
      BY <2>2, <3>1, CountAssumption
    <3> QED
      BY <2>4, <3>3, <3>4, <3>5
  <2> QED
    BY <2>4, <2>6, <2>7, <2>8 DEF Held, SlotHeld, Behind, Working
<1>6. CASE ReplyReceived \/ Process \/ ReplyProcessed
  <2>1. Unlocked' = Unlocked
    BY <1>6 DEF Unlocked, ReplyReceived, Process, ReplyProcessed, calls
  <2> QED
    BY <1>6, <2>1 DEF ReplyReceived, Process, ReplyProcessed, RingOK, Held,
                      SlotHeld, Behind, Stored, Working, At, ring
<1>7. CASE Create
  <2>1. Unlocked' = {}
    BY <1>7 DEF Create, Order, InCall, Unlocked, Client, calls
  <2>2. Cardinality(Unlocked') = 0
    BY <2>1, FS_EmptySet
  <2> QED
    BY <1>7, <2>2, CountAssumption DEF Create, RingOK, At, Held, SlotHeld, Behind,
                                       Stored, Working
<1>8. CASE PostInit
  BY <1>8, EnqueueRing DEF PostInit, Client, Kind, SyncFlags
<1>9. CASE Destroy
  BY <1>9, CallRing DEF Destroy, Unlocked, calls
<1>10. CASE PostExit
  <2>1. CASE Enqueue(Owner, "exit", "processed")
    BY <1>10, <2>1, EnqueueRing DEF PostExit, Client, Kind, SyncFlags
  <2> QED
    BY <1>10, <2>1, CallRing DEF PostExit, Unlocked, calls
<1>11. CASE Free
  BY <1>11 DEF Free, RingOK, Held, SlotHeld, Behind, Stored, Working, At, ring
<1>12. CASE UNCHANGED vars
  BY <1>12, CallRing DEF vars, Unlocked, calls
<1> QED
  BY <1>1, <1>2, <1>3, <1>4, <1>5, <1>6, <1>7, <1>8, <1>9, <1>10, <1>11, <1>12
     DEF Next, Calling, Routine, Owning

(***************************************************************************)
(* The ring is a queue                                                     *)
(***************************************************************************)
\* The messages in the ring are a sequence as long as msg_number.
LEMMA QueueLength ==
  ASSUME TypeOK, RingOK
  PROVE  Queue \in Seq(Message \cup {NoMsg}) /\ Len(Queue) = number
<1>1. \A i \in 1 .. number : At(i - 1) \in Slot
  BY Places, CountAssumption DEF TypeOK, RingOK
<1>2. number \in Nat /\ Queue \in [1 .. number -> Message \cup {NoMsg}]
  BY <1>1 DEF Queue, TypeOK
<1> QED
  BY <1>2

\* An accepted message becomes the last of the queue.
LEMMA EnqueueAppends ==
  ASSUME RingInv, NEW c \in Client, NEW k \in Kind, NEW f \in SyncFlags,
         Enqueue(c, k, f)
  PROVE  FIFO!Post
<1> DEFINE m == [kind |-> k, flag |-> f, from |-> c]
<1> USE DEF RingInv
<1>1. m \in Message
  BY DEF Message
<1>2. number \in 0 .. Count - 2 /\ write = At(number)
  BY CountAssumption DEF TypeOK, RingOK, Enqueue, Full
<1>3. number' = number + 1 /\ \A i \in 0 .. Count - 1 : At(i)' = At(i)
  BY DEF Enqueue, At
<1>4. msg'[write] = m
  BY DEF Enqueue, TypeOK
<1>5. \A i \in 0 .. number - 1 : msg'[At(i)] = msg[At(i)]
  <2>1. \A i \in 0 .. number - 1 : At(i) # write /\ At(i) \in Slot
    BY <1>2, Places, CountAssumption
  <2> QED
    BY <2>1 DEF Enqueue, TypeOK
<1> HIDE DEF m
<1>6. Queue' = [i \in 1 .. number + 1 |-> IF i = number + 1 THEN m ELSE msg[At(i - 1)]]
  <2>1. Queue' = [i \in 1 .. number + 1 |-> msg'[At(i - 1)']]
    BY <1>3 DEF Queue
  <2>2. \A i \in 1 .. number + 1 :
          msg'[At(i - 1)'] = IF i = number + 1 THEN m ELSE msg[At(i - 1)]
    <3> SUFFICES ASSUME NEW i \in 1 .. number + 1
                 PROVE  msg'[At(i - 1)'] = IF i = number + 1 THEN m ELSE msg[At(i - 1)]
      OBVIOUS
    <3>1. At(i - 1)' = At(i - 1)
      BY <1>2, <1>3, CountAssumption
    <3>2. CASE i = number + 1
      BY <1>2, <1>4, <3>1, <3>2
    <3>3. CASE i - 1 \in 0 .. number - 1
      BY <1>2, <1>5, <3>1, <3>3
    <3> QED
      BY <1>2, <3>2, <3>3
  <2> QED
    BY <2>1, <2>2
<1>7. Append(Queue, m) =
        [i \in 1 .. number + 1 |-> IF i = number + 1 THEN m ELSE msg[At(i - 1)]]
  <2>1. Append(Queue, m) \in Seq(Message \cup {NoMsg}) /\ Len(Append(Queue, m)) = number + 1
    BY <1>1, QueueLength, AppendProperties
  <2>2. \A i \in 1 .. number + 1 :
          Append(Queue, m)[i] = IF i = number + 1 THEN m ELSE msg[At(i - 1)]
    BY <1>1, <1>2, QueueLength, AppendProperties DEF Queue
  <2>3. Append(Queue, m) = [i \in 1 .. number + 1 |-> Append(Queue, m)[i]]
    BY <2>1, LenProperties
  <2> QED
    BY <2>2, <2>3
<1>8. Len(Queue) < Count - 1
  BY <1>2, QueueLength, CountAssumption
<1> QED
  BY <1>1, <1>6, <1>7, <1>8 DEF FIFO!Post

\* cmr_msg_get takes the first of the queue.
LEMMA TakeRemoves ==
  ASSUME RingInv, Take, number # 0, read # write
  PROVE  FIFO!Get
<1> USE DEF RingInv
<1>1. number \in 1 .. Count - 1
  BY CountAssumption DEF TypeOK, RingOK
<1>2. number' = number - 1 /\ read' = Succ(read) /\ msg' = [msg EXCEPT ![read] = NoMsg]
  BY DEF Take
<1>3. \A i \in 1 .. number - 1 : msg'[At(i - 1)'] = msg[At(i)]
  <2>1. \A i \in 0 .. Count - 2 : At(i)' = At(i + 1)
    BY <1>2, CountAssumption DEF At, Succ, TypeOK, Slot
  <2>2. \A i \in 1 .. number - 1 : At(i) # read /\ At(i) \in Slot
    BY <1>1, Places, CountAssumption
  <2>3. \A i \in 1 .. number - 1 : At(i - 1)' = At(i)
    BY <1>1, <2>1, CountAssumption
  <2> QED
    BY <1>2, <2>2, <2>3 DEF TypeOK
<1>4. Queue' = [i \in 1 .. number - 1 |-> msg[At(i)]]
  <2>1. Queue' = [i \in 1 .. number - 1 |-> msg'[At(i - 1)']]
    BY <1>2 DEF Queue
  <2> QED
    BY <1>3, <2>1
<1>5. Queue # <<>> /\ Tail(Queue) = [i \in 1 .. number - 1 |-> msg[At(i)]]
  <2>1. Queue # <<>>
    BY <1>1, QueueLength, EmptySeq
  <2>2. Tail(Queue) \in Seq(Message \cup {NoMsg}) /\ Len(Tail(Queue)) = number - 1
    BY <2>1, QueueLength, HeadTailProperties
  <2>3. \A i \in 1 .. number - 1 : Tail(Queue)[i] = msg[At(i)]
    <3>1. \A i \in 1 .. number - 1 : Tail(Queue)[i] = Queue[i + 1]
      BY <2>1, <2>2, QueueLength, HeadTailProperties
    <3> QED
      BY <1>1, <3>1 DEF Queue
  <2>4. Tail(Queue) = [i \in 1 .. number - 1 |-> Tail(Queue)[i]]
    BY <2>2, LenProperties
  <2> QED
    BY <2>1, <2>3, <2>4
<1> QED
  BY <1>4, <1>5 DEF FIFO!Get

\* Every step of the message thread is a step of the queue.
LEMMA NextQueue ==
  ASSUME RingInv, [Next]_vars
  PROVE  [FIFO!Post \/ FIFO!Get \/ FIFO!Renew]_Queue
<1>1. ASSUME UNCHANGED ring PROVE UNCHANGED Queue
  BY <1>1 DEF ring, Queue, At
<1>2. ASSUME NEW p \in Poster, Post(p) PROVE FIFO!Post
  BY <1>2, EnqueueAppends, FlagsAssumption DEF Post, Client, Kind
<1>3. ASSUME NEW c \in Client, Calling(c) PROVE UNCHANGED Queue
  BY <1>1, <1>3 DEF Calling, Signal, CheckFlag, Wake
<1>4. CASE Routine
  BY <1>1, <1>4, TakeRemoves
     DEF Routine, Fetch, Take, ReplyReceived, Process, ReplyProcessed
<1>5. CASE Create
  <2>1. number' = 0
    BY <1>5 DEF Create
  <2>2. Queue' = <<>>
    BY <2>1 DEF Queue
  <2> QED
    BY <2>2 DEF FIFO!Renew
<1>6. CASE PostInit
  BY <1>6, EnqueueAppends DEF PostInit, Client, Kind, SyncFlags
<1>7. CASE PostExit
  BY <1>1, <1>7, EnqueueAppends DEF PostExit, Client, Kind, SyncFlags
<1>8. CASE Destroy \/ Free
  BY <1>1, <1>8 DEF Destroy, Free
<1>9. CASE UNCHANGED vars
  BY <1>1, <1>9 DEF vars
<1> QED
  BY <1>2, <1>3, <1>4, <1>5, <1>6, <1>7, <1>8, <1>9 DEF Next, Owning

(***************************************************************************)
(* Theorems                                                                *)
(***************************************************************************)
\* The invariant holds of every reachable state.
LEMMA RingInvariant == Spec => []RingInv
<1>1. Init => RingInv
  BY InitType, InitRing DEF RingInv, Init, Order, InCall, Client
<1> QED
  BY <1>1, NextRing, PTL DEF Spec

\* In every reachable state the pointers lie in the ring, the message in work
\* is one that was posted, and each call is at a step of cmr_msg_post.
THEOREM TypeCorrect == Spec => []TypeOK
  BY RingInvariant, PTL DEF RingInv

\* The ring's pointers, its counter and msg_sem agree in every state, for every
\* queue length and any number of posters, even if slots are reused too early.
THEOREM RingCorrect == Spec => []RingOK
  BY RingInvariant, PTL DEF RingInv

\* The thread finds in sync_f what the poster of its message has asked for.
THEOREM SlotHeldCorrect == Spec => []SlotHeld
<1>1. RingInv => SlotHeld
  BY DEF RingInv, Held
<1> QED
  BY <1>1, RingInvariant, PTL

\* The ring implements a bounded first-in first-out queue of capacity
\* msg_count - 1: no message is lost, repeated or overtakes another.
THEOREM QueueCorrect == Spec => QueueSpec
<1>1. Init => FIFO!Init
  <2> SUFFICES ASSUME Init PROVE Queue = <<>>
    BY DEF FIFO!Init
  <2> QED
    BY DEF Init, Queue
<1> QED
  BY <1>1, RingInvariant, NextQueue, PTL DEF Spec, QueueSpec, FIFO!Spec

(***************************************************************************)
(* The sync_flags, while no slot is reused too early                       *)
(***************************************************************************)
\* Each call has a slot of its own, in which sync_f is what it asked for.
Distinct == \A c, d \in Client : InCall(c) /\ InCall(d) /\ slot[c] = slot[d] => c = d
Own == /\ \A c \in Client : InCall(c) => syncF[slot[c]] = flag[c]
       /\ InCall(Owner) => flag[Owner] = "processed"
\* The poster of m, in slot s, is still inside its call, and has reached st.
Awaits(m, s, st) ==
  /\ InCall(m.from) /\ slot[m.from] = s /\ flag[m.from] = m.flag /\ stage[m.from] = st
  /\ m.from = Owner /\ life = "stopping" => m.kind = "exit"
\* The message in work is synchronous and its poster has not been woken.
Unanswered == \/ cpc = "received" /\ cmsg.flag # "none"
              \/ cpc \in {"process", "reply"} /\ cmsg.flag = "processed"
Queued == \A i \in 0 .. number - 1 :
            msg[At(i)].flag # "none" => Awaits(msg[At(i)], At(i), "queued")
InWork == Unanswered =>
            /\ Awaits(cmsg, cslot, IF cpc = "reply" THEN "processed" ELSE "received")
            /\ sem[cslot] = 0
\* A semaphore is up once, for a call whose message has reached its sync_flag.
Answered(c) == InCall(c) /\ flag[c] # "none" /\ stage[c] = flag[c]
Posted == \A s \in Slot : sem[s] > 0 =>
            sem[s] = 1 /\ \E c \in Client : Answered(c) /\ slot[c] = s
\* The thread has ended when the owner may go on to free its queue.
Ends == /\ InCall(Owner) /\ life = "stopping" /\ sem[slot[Owner]] > 0 => cpc = "ended"
        /\ life = "stopped" /\ ~refused => cpc = "ended"
SyncInv == Distinct /\ Own /\ Queued /\ InWork /\ Posted /\ Ends
InTime == ~overtaken => SyncInv

\* What the ring and the thread hold are messages of clients.
LEMMA MessageFacts ==
  ASSUME TypeOK
  PROVE  /\ \A s \in Slot : msg[s].from \in Client /\ msg[s].flag \in SyncFlags
         /\ cmsg.from \in Client /\ cmsg.flag \in SyncFlags
         /\ \A c \in Client : flag[c] \in SyncFlags /\ slot[c] \in Slot
         /\ \A s \in Slot : sem[s] \in Nat
<1>1. \A m \in Message \cup {NoMsg} : m.from \in Client /\ m.flag \in SyncFlags
  BY DEF Message, NoMsg, Client, SyncFlags
<1>2. \A s \in Slot : sem[s] \in 0 .. MaxSem
  BY DEF TypeOK
<1> QED
  BY <1>1, <1>2, MaxSemAssumption DEF TypeOK

\* Nobody has been woken on the slot of a message that has not got as far as
\* its poster waits for.
LEMMA NotWoken ==
  ASSUME TypeOK, Distinct, Posted, NEW m, NEW s \in Slot, NEW st,
         m.from \in Client, Awaits(m, s, st), st # m.flag
  PROVE  sem[s] = 0
<1> SUFFICES ASSUME sem[s] > 0 PROVE FALSE
  BY MessageFacts
<1>1. PICK c \in Client : Answered(c) /\ slot[c] = s
  BY DEF Posted
<1>2. c = m.from
  BY <1>1 DEF Distinct, Awaits, Answered
<1> QED
  BY <1>1, <1>2 DEF Awaits, Answered

\* The messages of the ring lie in its slots.
LEMMA Inside ==
  ASSUME RingInv
  PROVE  \A i \in 0 .. number - 1 : At(i) \in Slot
  BY Places, CountAssumption DEF RingInv, RingOK, TypeOK

\* The thread takes a message only when there is one.
LEMMA NeverEmpty ==
  ASSUME RingInv, cpc = "lock"
  PROVE  number \in 1 .. Count - 1 /\ read # write /\ number \in Nat
<1> USE DEF RingInv
<1>1. number \in 1 .. Count - 1
  BY UnlockedClients, CountAssumption DEF RingOK, Order, TypeOK
<1> QED
  BY <1>1, Places, CountAssumption DEF RingOK

\* A step that moves nobody into or out of a call and answers nobody.
LEMMA QuietStep ==
  ASSUME SyncInv, UNCHANGED <<ring, sem, slot, flag, stage, life, refused>>,
         \A c \in Client : InCall(c)' <=> InCall(c),
         cpc = "ended" => cpc' = "ended",
         Unanswered' => /\ Unanswered /\ UNCHANGED <<cmsg, cslot>>
                        /\ cpc' = "reply" <=> cpc = "reply",
         RingInv
  PROVE  SyncInv'
<1> USE DEF SyncInv, RingInv, ring
<1>1. \A m, s, st : m.from \in Client /\ Awaits(m, s, st) => Awaits(m, s, st)'
  BY DEF Awaits
<1>2. Distinct' /\ Own'
  BY DEF Distinct, Own, Client
<1>3. Queued'
  <2>1. \A i \in 0 .. number - 1 : At(i) \in Slot /\ At(i)' = At(i)
    <3>1. \A i \in 0 .. number - 1 : At(i)' = At(i)
      BY DEF At
    <3> QED
      BY <3>1, Inside
  <2>2. \A i \in 0 .. number - 1 : msg[At(i)].from \in Client
    BY <2>1, MessageFacts
  <2>3. \A i \in 0 .. number - 1 : msg[At(i)].flag # "none" =>
          Awaits(msg[At(i)], At(i), "queued")'
    BY <1>1, <2>1, <2>2 DEF Queued
  <2> QED
    BY <2>1, <2>3 DEF Queued
<1>4. InWork'
  BY <1>1, MessageFacts DEF InWork
<1>5. Posted'
  BY DEF Posted, Answered
<1>6. Ends'
  BY DEF Ends, Client
<1> QED
  BY <1>2, <1>3, <1>4, <1>5, <1>6

\* A step at which nobody is inside a call.
LEMMA IdleStep ==
  ASSUME SyncInv, RingInv, \A c \in Client : ~InCall(c),
         UNCHANGED <<ring, sem, calls, cmsg, cslot>>, cpc' = cpc \/ cpc' = "none",
         life' = "stopped" /\ ~refused' => cpc' = "ended"
  PROVE  SyncInv'
<1> USE DEF SyncInv, RingInv, ring, calls
<1>1. \A c \in Client : ~InCall(c)'
  BY DEF InCall
<1>2. \A s \in Slot : ~(sem[s] > 0)
  BY DEF Posted, Answered
<1>3. Queued'
  <2>1. \A i \in 0 .. number - 1 : At(i) \in Slot /\ At(i)' = At(i)
    <3>1. \A i \in 0 .. number - 1 : At(i)' = At(i)
      BY DEF At
    <3> QED
      BY <3>1, Inside
  <2>2. \A i \in 0 .. number - 1 : msg[At(i)].flag = "none"
    BY <2>1, MessageFacts DEF Queued, Awaits
  <2> QED
    BY <2>1, <2>2 DEF Queued
<1>4. ~Unanswered
  BY MessageFacts DEF InWork, Awaits
<1>5. ~Unanswered'
  BY <1>4 DEF Unanswered
<1>6. Distinct' /\ Own' /\ Posted' /\ Ends'
  BY <1>1, <1>2 DEF Distinct, Own, Posted, Ends, Client
<1> QED
  BY <1>3, <1>5, <1>6 DEF InWork

\* A message enters the ring, in a slot that no call uses.
LEMMA EnqueueSync ==
  ASSUME RingInv, SyncInv, NEW c \in Client, NEW k \in Kind, NEW f \in SyncFlags,
         Enqueue(c, k, f), ~InCall(c), ~overtaken',
         c = Owner => f = "processed" /\ (life = "stopping" => k = "exit")
  PROVE  SyncInv'
<1> USE DEF RingInv, SyncInv
<1> DEFINE m == [kind |-> k, flag |-> f, from |-> c]
<1>1. /\ write \in Slot /\ slot \in [Client -> Slot] /\ flag \in [Client -> SyncFlags]
      /\ pc \in [Client -> {"out", "unlocked", "signalled", "waiting"}]
      /\ stage \in [Client -> {"idle", "queued", "received", "processed"}]
      /\ syncF \in [Slot -> SyncFlags] /\ Owner \in Client
  BY DEF TypeOK, Client
<1>2. \A d \in Client : InCall(d) => slot[d] # write
  BY DEF Enqueue, InCall
<1>3. /\ \A d \in Client : InCall(d)' <=> InCall(d) \/ d = c
      /\ \A d \in Client : slot'[d] = IF d = c THEN write ELSE slot[d]
      /\ \A d \in Client : flag'[d] = IF d = c THEN f ELSE flag[d]
      /\ \A d \in Client : d # c => stage'[d] = stage[d]
      /\ f # "none" => stage'[c] = "queued"
      /\ \A s \in Slot : syncF'[s] = IF s = write THEN f ELSE syncF[s]
      /\ UNCHANGED <<sem, cpc, cslot, cmsg, life, refused, read>>
      /\ number' = number + 1
  BY <1>1 DEF Enqueue, InCall, thread
<1>4. \A x, s, st : x.from \in Client /\ Awaits(x, s, st) => Awaits(x, s, st)'
  BY <1>3 DEF Awaits
<1>5. Distinct'
  BY <1>2, <1>3 DEF Distinct
<1>6. Own'
  <2>1. \A d \in Client : InCall(d)' => syncF'[slot'[d]] = flag'[d]
    BY <1>1, <1>2, <1>3 DEF Own
  <2> QED
    BY <1>1, <1>3, <2>1 DEF Own
<1>7. Queued'
  <2>1. number \in 0 .. Count - 2 /\ write = At(number)
    BY CountAssumption DEF TypeOK, RingOK, Enqueue, Full
  <2>2. \A i \in 0 .. number : At(i)' = At(i)
    BY <1>3 DEF At
  <2>3. \A i \in 0 .. number - 1 : At(i) # write /\ At(i) \in Slot
    BY <2>1, Places, CountAssumption
  <2>4. \A i \in 0 .. number - 1 : msg'[At(i)] = msg[At(i)]
    BY <2>3 DEF Enqueue, TypeOK
  <2>5. msg'[write] = m
    BY <1>1 DEF Enqueue, TypeOK
  <2>6. \A x, s : x = m /\ s = write /\ f # "none" => Awaits(x, s, "queued")'
    <3>1. c \in Client /\ m.from = c /\ m.flag = f /\ m.kind = k
      OBVIOUS
    <3> HIDE DEF m
    <3>2. f # "none" => /\ InCall(c)' /\ slot'[c] = write /\ flag'[c] = f
                        /\ stage'[c] = "queued"
      BY <1>3
    <3>3. c = Owner /\ life' = "stopping" => k = "exit"
      BY <1>3
    <3> QED
      BY <3>1, <3>2, <3>3 DEF Awaits
  <2>7. \A i \in 0 .. number - 1 : \A x, s :
          x = msg[At(i)] /\ s = At(i) /\ x.flag # "none" => Awaits(x, s, "queued")'
    <3>1. \A i \in 0 .. number - 1 : msg[At(i)].from \in Client
      BY <2>3, MessageFacts
    <3> QED
      BY <1>4, <3>1 DEF Queued
  <2>8. m.flag = f
    OBVIOUS
  <2> HIDE DEF m
  <2> SUFFICES ASSUME NEW i \in 0 .. number, msg'[At(i)].flag # "none",
                      At(i)' = At(i)
               PROVE  Awaits(msg[At(i)], At(i), "queued")'
    BY <1>3, <2>1, <2>2 DEF Queued
  <2>9. CASE i = number
    BY <2>1, <2>5, <2>6, <2>8, <2>9
  <2>10. CASE i \in 0 .. number - 1
    BY <2>4, <2>7, <2>10
  <2> QED
    BY <2>1, <2>9, <2>10
<1>8. InWork'
  BY <1>3, <1>4, MessageFacts DEF InWork, Unanswered
<1>9. Posted'
  <2> SUFFICES ASSUME NEW s \in Slot, sem[s] > 0
               PROVE  sem[s] = 1 /\ \E d \in Client : Answered(d)' /\ slot'[d] = s
    BY <1>3 DEF Posted
  <2>1. PICK d \in Client : Answered(d) /\ slot[d] = s
    BY DEF Posted
  <2>2. d # c /\ Answered(d)' /\ slot'[d] = s
    BY <1>3, <2>1 DEF Answered
  <2> QED
    BY <2>2 DEF Posted
<1>10. Ends'
  <2>1. ~(sem[write] > 0)
    BY <1>1, <1>2 DEF Posted, Answered
  <2> QED
    BY <1>1, <1>3, <2>1 DEF Ends
<1> QED
  BY <1>5, <1>6, <1>7, <1>8, <1>9, <1>10

\* A call returns: an asynchronous one, or one that has been woken.
LEMMA ReturnSync ==
  ASSUME RingInv, SyncInv, NEW c \in Client, InCall(c), Return(c),
         UNCHANGED <<ring, thread, refused>>,
         \A m, s, st : m.from \in Client /\ Awaits(m, s, st) /\ m.flag # "none"
                          /\ s \in Slot /\ sem[s] = 0 => m.from # c,
         c = Owner /\ life = "stopping" => cpc = "ended",
         \A s \in Slot : sem'[s] = IF s = slot[c] THEN 0 ELSE sem[s]
  PROVE  SyncInv'
<1> USE DEF SyncInv, RingInv, ring, thread
<1>1. /\ \A d \in Client : InCall(d)' <=> InCall(d) /\ d # c
      /\ \A d \in Client \ {c} : /\ slot'[d] = slot[d] /\ flag'[d] = flag[d]
                                 /\ stage'[d] = stage[d]
      /\ c # Owner => life' = life
      /\ life' = "stopping" => life = "stopping" /\ c # Owner
  <2>1. c = Owner => life' \in {"running", "stopped"}
    BY DEF Return
  <2> QED
    BY <2>1 DEF Return, InCall, TypeOK
<1>2. \A m, s, st : /\ m.from \in Client /\ m.from # c /\ Awaits(m, s, st)
                    => Awaits(m, s, st)'
  BY <1>1 DEF Awaits
<1>3. Distinct' /\ Own'
  BY <1>1 DEF Distinct, Own, Client
<1>4. Queued'
  <2>1. \A i \in 0 .. number - 1 : At(i) \in Slot /\ At(i)' = At(i)
    <3>1. \A i \in 0 .. number - 1 : At(i)' = At(i)
      BY DEF At
    <3> QED
      BY <3>1, Inside
  <2> SUFFICES ASSUME NEW i \in 0 .. number - 1, msg[At(i)].flag # "none"
               PROVE  Awaits(msg[At(i)], At(i), "queued")'
    BY <2>1 DEF Queued
  <2>2. Awaits(msg[At(i)], At(i), "queued") /\ msg[At(i)].from \in Client
        /\ msg[At(i)].flag # "queued"
    BY <2>1, MessageFacts DEF Queued, SyncFlags
  <2>3. sem[At(i)] = 0
    BY <2>1, <2>2, NotWoken
  <2> QED
    BY <1>2, <2>1, <2>2, <2>3
<1>5. InWork'
  <2> SUFFICES ASSUME Unanswered
               PROVE  /\ Awaits(cmsg, cslot, IF cpc = "reply" THEN "processed"
                                                              ELSE "received")'
                      /\ sem'[cslot] = 0
    BY DEF InWork, Unanswered
  <2>1. cmsg.from \in Client /\ cmsg.flag # "none" /\ cslot \in Slot
    BY MessageFacts DEF Unanswered, TypeOK
  <2>2. /\ Awaits(cmsg, cslot, IF cpc = "reply" THEN "processed" ELSE "received")
        /\ sem[cslot] = 0
    BY DEF InWork
  <2> QED
    BY <1>2, <2>1, <2>2
<1>6. Posted'
  <2> SUFFICES ASSUME NEW s \in Slot, sem'[s] > 0
               PROVE  sem'[s] = 1 /\ \E d \in Client : Answered(d)' /\ slot'[d] = s
    BY DEF Posted
  <2>1. s # slot[c] /\ sem[s] > 0 /\ sem'[s] = sem[s]
    OBVIOUS
  <2>2. PICK d \in Client : Answered(d) /\ slot[d] = s
    BY <2>1 DEF Posted
  <2>3. Answered(d)' /\ slot'[d] = s
    BY <1>1, <2>1, <2>2 DEF Answered
  <2> QED
    BY <2>1, <2>3 DEF Posted
<1>7. Ends'
  <2>1. InCall(Owner)' /\ life' = "stopping" /\ sem'[slot'[Owner]] > 0
          => cpc' = "ended"
    <3> SUFFICES ASSUME InCall(Owner)', life' = "stopping", sem'[slot'[Owner]] > 0
                 PROVE  cpc = "ended"
      OBVIOUS
    <3>1. Owner \in Client /\ Owner # c
      BY <1>1 DEF Client
    <3>2. slot'[Owner] = slot[Owner] /\ InCall(Owner) /\ life = "stopping"
      BY <1>1, <3>1
    <3>3. slot[Owner] \in Slot
      BY <3>1, MessageFacts
    <3>4. sem[slot[Owner]] > 0
      BY <3>2, <3>3
    <3> QED
      BY <3>2, <3>4 DEF Ends
  <2>2. life' = "stopped" /\ ~refused' => cpc' = "ended"
    <3>1. c = Owner => life \in {"starting", "stopping"}
      BY DEF Order
    <3>2. life' = "stopped" => life = "stopped" \/ (c = Owner /\ life = "stopping")
      BY <3>1 DEF Return
    <3> QED
      BY <3>2 DEF Ends
  <2> QED
    BY <2>1, <2>2 DEF Ends
<1> QED
  BY <1>3, <1>4, <1>5, <1>6, <1>7

\* The thread takes a message: what queued becomes received.
LEMMA TakeSync ==
  ASSUME RingInv, SyncInv, Take
  PROVE  SyncInv'
<1> USE DEF SyncInv, RingInv
<1> DEFINE m == msg[read]
<1>1. number \in 1 .. Count - 1 /\ read # write /\ number # 0
  BY NeverEmpty DEF Take
<1>2. /\ cmsg' = m /\ cslot' = read /\ read' = Succ(read) /\ number' = number - 1
      /\ msg' = [msg EXCEPT ![read] = NoMsg] /\ cpc' = "received"
      /\ cpc = "lock" /\ Reached(m, "received")
      /\ UNCHANGED <<syncF, write, sem, pc, slot, flag, life, refused>>
  BY <1>1 DEF Take, calls
<1>3. read \in Slot /\ At(0) = read /\ m.from \in Client /\ m.flag \in SyncFlags
  BY Places, MessageFacts DEF TypeOK
<1>4. ASSUME m.flag # "none"
      PROVE  Awaits(m, read, "queued") /\ sem[read] = 0
  <2>1. Awaits(m, read, "queued")
    BY <1>1, <1>3, <1>4 DEF Queued
  <2> QED
    BY <1>3, <2>1, NotWoken DEF SyncFlags
<1>5. /\ m.flag = "none" => stage' = stage
      /\ m.flag # "none" => stage' = [stage EXCEPT ![m.from] = "received"]
  BY <1>2 DEF Reached
<1> HIDE DEF m
<1>6. \A c \in Client : InCall(c)' <=> InCall(c)
  BY <1>2 DEF InCall
<1>7. \A x, s, st :
        /\ x.from \in Client /\ Awaits(x, s, st)
        /\ m.flag # "none" => x.from # m.from
        => Awaits(x, s, st)'
  BY <1>2, <1>5, <1>6 DEF Awaits, TypeOK
<1>8. Distinct' /\ Own'
  BY <1>2, <1>6 DEF Distinct, Own, Client
<1>9. Queued'
  <2>1. \A i \in 0 .. Count - 2 : At(i)' = At(i + 1)
    BY <1>2, Places, CountAssumption DEF At, Succ, TypeOK, Slot
  <2>2. \A i \in 1 .. number - 1 : At(i) # read /\ At(i) \in Slot
    BY <1>1, Places, CountAssumption
  <2>3. \A i \in 1 .. number - 1 : msg'[At(i)] = msg[At(i)]
    BY <1>2, <2>2 DEF TypeOK
  <2>4. \A i \in 1 .. number - 1 : \A x, s :
          x = msg[At(i)] /\ s = At(i) /\ x.flag # "none" => Awaits(x, s, "queued")'
    <3> SUFFICES ASSUME NEW i \in 1 .. number - 1, NEW x, NEW s, x = msg[At(i)],
                        s = At(i), x.flag # "none"
                 PROVE  Awaits(x, s, "queued")'
      OBVIOUS
    <3>1. i \in 0 .. number - 1
      BY <1>1, CountAssumption
    <3>2. x.from \in Client /\ Awaits(x, s, "queued")
      BY <2>2, <3>1, MessageFacts DEF Queued
    <3>3. m.flag # "none" => x.from # m.from
      BY <1>4, <2>2, <3>2 DEF Awaits
    <3> QED
      BY <1>7, <3>2, <3>3
  <2> SUFFICES ASSUME NEW i \in 0 .. number - 2, msg'[At(i)'].flag # "none",
                      At(i)' = At(i + 1)
               PROVE  Awaits(msg[At(i)], At(i), "queued")'
    BY <1>1, <1>2, <2>1, CountAssumption DEF Queued
  <2>5. i + 1 \in 1 .. number - 1
    BY <1>1, CountAssumption
  <2>6. msg'[At(i)'] = msg[At(i + 1)]
    BY <2>3, <2>5
  <2> QED
    BY <2>4, <2>5, <2>6
<1>10. InWork'
  <2> SUFFICES ASSUME m.flag # "none"
               PROVE  Awaits(cmsg, cslot, "received")' /\ sem'[cslot'] = 0
    BY <1>2 DEF InWork, Unanswered
  <2>1. Awaits(m, read, "queued") /\ stage' = [stage EXCEPT ![m.from] = "received"]
    BY <1>4, <1>5
  <2>2. \A x, s : x = m /\ s = read => Awaits(x, s, "received")'
    BY <1>2, <1>3, <1>6, <2>1 DEF Awaits, TypeOK
  <2> QED
    BY <1>2, <1>4, <2>2
<1>11. Posted'
  <2> SUFFICES ASSUME NEW s \in Slot, sem[s] > 0
               PROVE  sem[s] = 1 /\ \E d \in Client : Answered(d)' /\ slot'[d] = s
    BY <1>2 DEF Posted
  <2>1. PICK d \in Client : Answered(d) /\ slot[d] = s
    BY DEF Posted
  <2>2. m.flag # "none" => d # m.from
    <3> SUFFICES ASSUME m.flag # "none", d = m.from PROVE FALSE
      OBVIOUS
    <3>1. Awaits(m, read, "queued")
      BY <1>4
    <3> QED
      BY <1>3, <2>1, <3>1 DEF Awaits, Answered, SyncFlags
  <2>3. Answered(d)' /\ slot'[d] = s
    BY <1>2, <1>5, <1>6, <2>1, <2>2 DEF Answered, TypeOK
  <2> QED
    BY <2>3 DEF Posted
<1>12. Ends'
  BY <1>2, <1>6 DEF Ends, Client
<1> QED
  BY <1>8, <1>9, <1>10, <1>11, <1>12

\* The thread has processed a message.
LEMMA ProcessSync ==
  ASSUME RingInv, SyncInv, Process
  PROVE  SyncInv'
<1> USE DEF SyncInv, RingInv
<1>1. /\ cpc = "process" /\ cpc' = "reply" /\ Reached(cmsg, "processed")
      /\ UNCHANGED <<ring, sem, cslot, cmsg, life, pc, slot, flag, refused>>
  BY DEF Process, calls
<1>2. \A c \in Client : InCall(c)' <=> InCall(c)
  BY <1>1 DEF InCall
<1>3. CASE cmsg.flag # "processed"
  <2>1. stage' = stage
    BY <1>1, <1>3 DEF Reached
  <2>2. ~Unanswered'
    BY <1>1, <1>3 DEF Unanswered
  <2> QED
    BY <1>1, <1>2, <2>1, <2>2, QuietStep
<1>4. CASE cmsg.flag = "processed"
  <2>1. /\ Awaits(cmsg, cslot, "received") /\ sem[cslot] = 0
        /\ cmsg.from \in Client /\ cslot \in Slot
    BY <1>1, <1>4, MessageFacts DEF InWork, Unanswered, TypeOK
  <2>2. stage' = [stage EXCEPT ![cmsg.from] = "processed"]
    BY <1>1, <1>4 DEF Reached
  <2>3. \A x, s : x.from \in Client /\ Awaits(x, s, "queued") => Awaits(x, s, "queued")'
    BY <1>1, <1>2, <2>1, <2>2 DEF Awaits, TypeOK
  <2>4. Distinct' /\ Own'
    BY <1>1, <1>2 DEF Distinct, Own, Client, ring
  <2>5. Queued'
    <3>1. \A i \in 0 .. number - 1 : At(i)' = At(i)
      BY <1>1 DEF At, ring
    <3>2. \A i \in 0 .. number - 1 : msg[At(i)].from \in Client
      BY Inside, MessageFacts
    <3>3. number' = number /\ msg' = msg
      BY <1>1 DEF ring
    <3> QED
      BY <2>3, <3>1, <3>2, <3>3 DEF Queued
  <2>6. InWork'
    <3>1. Awaits(cmsg, cslot, "processed")'
      BY <1>1, <1>2, <2>1, <2>2 DEF Awaits, TypeOK
    <3> QED
      BY <1>1, <2>1, <3>1 DEF InWork
  <2>7. Posted'
    <3> SUFFICES ASSUME NEW s \in Slot, sem[s] > 0
                 PROVE  sem[s] = 1 /\ \E d \in Client : Answered(d)' /\ slot'[d] = s
      BY <1>1 DEF Posted
    <3>1. PICK d \in Client : Answered(d) /\ slot[d] = s
      BY DEF Posted
    <3>2. d # cmsg.from
      BY <2>1, <3>1 DEF Awaits
    <3>3. Answered(d)' /\ slot'[d] = s
      BY <1>1, <1>2, <2>2, <3>1, <3>2 DEF Answered, TypeOK
    <3> QED
      BY <3>3 DEF Posted
  <2>8. Ends'
    BY <1>1, <1>2 DEF Ends, Client
  <2> QED
    BY <2>4, <2>5, <2>6, <2>7, <2>8
<1> QED
  BY <1>3, <1>4

\* The thread wakes the poster of the message in work, which has got as far as
\* the poster waits for.
LEMMA AnswerSync ==
  ASSUME RingInv, SyncInv, Up(cslot), cpc # "ended", Unanswered, ~Unanswered',
         Awaits(cmsg, cslot, cmsg.flag), cmsg.flag # "none",
         UNCHANGED <<ring, calls, stage, life, refused>>,
         cmsg.flag = "processed" /\ cmsg.kind = "exit" => cpc' = "ended"
  PROVE  SyncInv'
<1> USE DEF SyncInv, RingInv, ring, calls
<1>1. sem[cslot] = 0 /\ cslot \in Slot /\ cmsg.from \in Client /\ Owner \in Client
  BY MessageFacts DEF InWork, TypeOK, Client
<1>2. \A s \in Slot : sem'[s] = IF s = cslot THEN 1 ELSE sem[s]
  BY <1>1, MaxSemAssumption DEF Up, TypeOK
<1>3. \A c \in Client : InCall(c)' <=> InCall(c)
  BY DEF InCall
<1>4. Distinct' /\ Own'
  BY <1>3 DEF Distinct, Own, Client
<1>5. Queued'
  <2>1. \A i \in 0 .. number - 1 : At(i) \in Slot /\ At(i)' = At(i)
    <3>1. \A i \in 0 .. number - 1 : At(i)' = At(i)
      BY DEF At
    <3> QED
      BY <3>1, Inside
  <2>2. \A x, s : x.from \in Client /\ Awaits(x, s, "queued") => Awaits(x, s, "queued")'
    BY <1>3 DEF Awaits
  <2>3. \A i \in 0 .. number - 1 : msg[At(i)].from \in Client
    BY <2>1, MessageFacts
  <2> QED
    BY <2>1, <2>2, <2>3 DEF Queued
<1>6. Posted'
  <2> SUFFICES ASSUME NEW s \in Slot, sem'[s] > 0
               PROVE  sem'[s] = 1 /\ \E d \in Client : Answered(d)' /\ slot'[d] = s
    BY DEF Posted
  <2>1. CASE s = cslot
    <3>1. \A d \in Client : d = cmsg.from => Answered(d)' /\ slot'[d] = s
      BY <1>1, <1>3, <2>1 DEF Awaits, Answered
    <3> QED
      BY <1>1, <1>2, <2>1, <3>1
  <2>2. CASE s # cslot
    <3>1. sem'[s] = sem[s] /\ sem[s] > 0
      BY <1>2, <2>2
    <3>2. PICK d \in Client : Answered(d) /\ slot[d] = s
      BY <3>1 DEF Posted
    <3>3. Answered(d)' /\ slot'[d] = s
      BY <1>3, <3>2 DEF Answered
    <3> QED
      BY <3>1, <3>3 DEF Posted
  <2> QED
    BY <2>1, <2>2
<1>7. Ends'
  <2>1. ASSUME InCall(Owner), life = "stopping", sem'[slot[Owner]] > 0
        PROVE  cpc' = "ended"
    <3>1. CASE slot[Owner] = cslot
      <4>1. cmsg.from = Owner
        BY <1>1, <2>1, <3>1 DEF Distinct, Awaits
      <4> QED
        BY <2>1, <4>1 DEF Awaits, Own
    <3>2. CASE slot[Owner] # cslot
      BY <1>1, <1>2, <2>1, <3>2, MessageFacts DEF Ends
    <3> QED
      BY <3>1, <3>2
  <2>2. life = "stopped" => refused
    BY DEF Ends
  <2> QED
    BY <1>1, <1>3, <2>1, <2>2 DEF Ends
<1> QED
  BY <1>4, <1>5, <1>6, <1>7 DEF InWork

\* Who calls keeps its call in mind until it returns; a new thread starts with
\* nothing.
LEMMA NextSync ==
  ASSUME RingInv, InTime, [Next]_vars
  PROVE  InTime'
<1> SUFFICES ASSUME ~overtaken' PROVE SyncInv'
  BY DEF InTime
<1>1. CASE Create
  <2>1. \A c \in Client : ~InCall(c)
    BY <1>1 DEF Create, RingInv, Order, Client
  <2>2. \A c \in Client : ~InCall(c)'
    BY <1>1, <2>1 DEF Create, calls, InCall
  <2>3. /\ number' = 0 /\ \A s \in Slot : sem'[s] = 0
        /\ cpc' = "get" /\ life' = "starting"
    BY <1>1 DEF Create
  <2>4. Distinct' /\ Own'
    BY <2>2 DEF Distinct, Own, Client
  <2>5. Queued' /\ InWork' /\ Posted'
    BY <2>3 DEF Queued, InWork, Unanswered, Posted
  <2>6. Ends'
    BY <2>3 DEF Ends
  <2> QED
    BY <2>4, <2>5, <2>6 DEF SyncInv
<1>2. CASE ~Create
  <2>1. ~overtaken /\ SyncInv
    <3>1. ~overtaken
      BY <1>2 DEF Next, Post, Enqueue, Calling, Signal, CheckFlag, Wake, Routine,
         Fetch, Take, ReplyReceived, Process, ReplyProcessed, Owning, PostInit,
         Destroy, PostExit, Free, ghosts, vars
    <3> QED
      BY <3>1 DEF InTime
  <2>2. TypeOK /\ Order /\ Held /\ Owner \in Client /\ Owner \notin Poster
    BY PosterAssumption DEF RingInv, Client
  <2> USE DEF ghosts
  <2>3. ASSUME NEW p \in Poster, Post(p) PROVE SyncInv'
    BY <2>1, <2>2, <2>3, EnqueueSync, FlagsAssumption DEF Post, Client, Kind, InCall
  <2>4. ASSUME NEW c \in Client, Signal(c) PROVE SyncInv'
    <3>1. \A d \in Client : InCall(d)' <=> InCall(d)
      BY <2>2, <2>4 DEF Signal, InCall, TypeOK
    <3> QED
      BY <2>1, <2>4, <3>1, QuietStep DEF Signal, thread, Unanswered
  <2>5. ASSUME NEW c \in Client, CheckFlag(c) PROVE SyncInv'
    <3>1. InCall(c) /\ syncF[slot[c]] = flag[c]
      BY <2>1, <2>5 DEF CheckFlag, InCall, SyncInv, Own
    <3>2. CASE flag[c] # "none"
      <4>1. \A d \in Client : InCall(d)' <=> InCall(d)
        BY <2>2, <2>5, <3>1, <3>2 DEF CheckFlag, InCall, TypeOK
      <4> QED
        BY <2>1, <2>5, <3>1, <3>2, <4>1, QuietStep DEF CheckFlag, thread, Unanswered
    <3>3. CASE flag[c] = "none"
      <4>1. Return(c) /\ UNCHANGED <<ring, thread, refused, sem>>
        BY <2>5, <3>1, <3>3 DEF CheckFlag
      <4>2. c # Owner
        BY <2>1, <3>1, <3>3 DEF SyncInv, Own
      <4>3. \A m, s, st : Awaits(m, s, st) /\ m.flag # "none" => m.from # c
        BY <3>3 DEF Awaits
      <4>4. sem[slot[c]] = 0
        <5> SUFFICES ASSUME sem[slot[c]] > 0 PROVE FALSE
          BY <2>2, MessageFacts
        <5>1. PICK d \in Client : Answered(d) /\ slot[d] = slot[c]
          BY <2>1, <2>2, MessageFacts DEF SyncInv, Posted
        <5> QED
          BY <2>1, <3>1, <3>3, <5>1 DEF SyncInv, Distinct, Answered
      <4> QED
        BY <2>1, <3>1, <4>1, <4>2, <4>3, <4>4, ReturnSync
    <3> QED
      BY <3>2, <3>3
  <2>6. ASSUME NEW c \in Client, Wake(c) PROVE SyncInv'
    <3>1. InCall(c) /\ slot[c] \in Slot /\ sem[slot[c]] > 0 /\ sem[slot[c]] = 1
      BY <2>1, <2>2, <2>6, MessageFacts DEF Wake, InCall, SyncInv, Posted
    <3>2. Return(c) /\ UNCHANGED <<ring, thread, refused>>
      BY <2>6 DEF Wake
    <3>3. \A s \in Slot : sem'[s] = IF s = slot[c] THEN 0 ELSE sem[s]
      BY <2>2, <2>6, <3>1 DEF Wake, TypeOK
    <3>4. \A m, s, st : Awaits(m, s, st) /\ sem[s] = 0 => m.from # c
      BY <3>1 DEF Awaits
    <3>5. c = Owner /\ life = "stopping" => cpc = "ended"
      BY <2>1, <3>1 DEF SyncInv, Ends
    <3> QED
      BY <2>1, <3>1, <3>2, <3>3, <3>4, <3>5, ReturnSync
  <2>7. CASE Fetch
    BY <2>1, <2>7, QuietStep DEF Fetch, calls, InCall, Unanswered
  <2>8. CASE Take
    BY <2>1, <2>8, TakeSync
  <2>9. CASE ReplyReceived
    <3>1. syncF[cslot] = cmsg.flag
      BY <2>2, <2>9 DEF ReplyReceived, Held, SlotHeld, Working
    <3>2. CASE cmsg.flag = "received"
      <4>1. Unanswered /\ ~Unanswered'
        BY <2>9, <3>2 DEF ReplyReceived, Unanswered
      <4>2. Awaits(cmsg, cslot, cmsg.flag)
        BY <2>1, <2>9, <3>2, <4>1 DEF ReplyReceived, SyncInv, InWork
      <4> QED
        BY <2>1, <2>9, <3>1, <3>2, <4>1, <4>2, AnswerSync DEF ReplyReceived
    <3>3. CASE cmsg.flag # "received"
      BY <2>1, <2>9, <3>1, <3>3, QuietStep
         DEF ReplyReceived, calls, InCall, Unanswered
    <3> QED
      BY <3>2, <3>3
  <2>10. CASE Process
    BY <2>1, <2>10, ProcessSync
  <2>11. CASE ReplyProcessed
    <3>1. syncF[cslot] = cmsg.flag
      BY <2>2, <2>11 DEF ReplyProcessed, Held, SlotHeld, Working
    <3>2. CASE cmsg.flag = "processed"
      <4>1. Unanswered /\ ~Unanswered'
        BY <2>11, <3>2 DEF ReplyProcessed, Unanswered
      <4>2. Awaits(cmsg, cslot, cmsg.flag)
        BY <2>1, <2>11, <3>2, <4>1 DEF ReplyProcessed, SyncInv, InWork
      <4> QED
        BY <2>1, <2>11, <3>1, <3>2, <4>1, <4>2, AnswerSync DEF ReplyProcessed
    <3>3. CASE cmsg.flag # "processed"
      BY <2>1, <2>11, <3>1, <3>3, QuietStep
         DEF ReplyProcessed, calls, InCall, Unanswered
    <3> QED
      BY <3>2, <3>3
  <2>12. CASE PostInit
    BY <2>1, <2>2, <2>12, EnqueueSync DEF PostInit, Kind, SyncFlags, InCall
  <2>13. CASE Destroy
    BY <2>1, <2>13, IdleStep DEF Destroy, thread, InCall
  <2>14. CASE PostExit
    <3>1. CASE Enqueue(Owner, "exit", "processed")
      BY <2>1, <2>2, <2>14, <3>1, EnqueueSync DEF PostExit, Kind, SyncFlags, InCall
    <3>2. CASE /\ life' = "stopped" /\ refused' = TRUE
               /\ UNCHANGED <<ring, sem, msgSem, thread, calls, stage>>
      <4>1. \A c \in Client : ~InCall(c)
        BY <2>2, <2>14 DEF PostExit, Order, Client, InCall
      <4> QED
        BY <2>1, <3>2, <4>1, IdleStep DEF thread
    <3> QED
      BY <2>14, <3>1, <3>2 DEF PostExit
  <2>15. CASE Free
    <3>1. \A c \in Client : ~InCall(c)
      BY <2>2, <2>15 DEF Free, Order, Client
    <3> QED
      BY <2>1, <2>15, <3>1, IdleStep DEF Free
  <2>16. CASE UNCHANGED vars
    BY <2>1, <2>16, QuietStep DEF vars, calls, thread, InCall, Unanswered
  <2> QED
    BY <1>2, <2>3, <2>4, <2>5, <2>6, <2>7, <2>8, <2>9, <2>10, <2>11, <2>12, <2>13,
       <2>14, <2>15, <2>16 DEF Next, Calling, Routine, Owning
<1> QED
  BY <1>1, <1>2

\* Initially there is no call and no message.
LEMMA InitSync == Init => InTime
<1> SUFFICES ASSUME Init PROVE SyncInv
  BY DEF InTime
<1>1. Distinct /\ Own
  BY DEF Init, Distinct, Own, InCall, Client
<1> QED
  BY <1>1 DEF Init, SyncInv, Queued, InWork, Unanswered, Posted, Ends

\* The invariant holds of every reachable state.
LEMMA SyncInvariant == Spec => [](RingInv /\ InTime)
<1>1. RingInv /\ InTime /\ [Next]_vars => InTime'
  BY NextSync
<1> QED
  BY <1>1, RingInvariant, InitSync, PTL DEF Spec

\* As long as no slot is reused before the call that filled it has returned, a
\* call of cmr_msg_post waits exactly if it was told to, and returns when its
\* message has been received, or processed, as it was told: for every queue
\* length, number of posters and choice of flags.
THEOREM HonouredCorrect == Spec => HonouredInTime
<1>1. ASSUME RingInv, InTime, [Next]_vars, ~overtaken, NEW c \in Client
      PROVE  Honoured(c)
  <2>1. SyncInv /\ TypeOK
    BY <1>1 DEF InTime, RingInv
  <2> USE DEF Honoured, TypeOK
  <2>2. CASE pc'[c] = pc[c]
    BY <2>2
  <2>3. ASSUME NEW p \in Client, NEW k, NEW f, Enqueue(p, k, f), pc[p] = "out"
        PROVE  Honoured(c)
    BY <2>1, <2>3 DEF Enqueue
  <2>4. CASE Signal(c)
    BY <2>1, <2>4 DEF Signal
  <2>5. CASE CheckFlag(c)
    <3>1. syncF[slot[c]] = flag[c] /\ pc[c] = "signalled"
      BY <2>1, <2>5 DEF CheckFlag, SyncInv, Own, InCall
    <3>2. CASE flag[c] = "none"
      BY <2>1, <2>5, <3>1, <3>2 DEF CheckFlag, Return
    <3>3. CASE flag[c] # "none"
      BY <2>1, <2>5, <3>1, <3>3 DEF CheckFlag
    <3> QED
      BY <3>2, <3>3
  <2>6. CASE Wake(c)
    <3>1. InCall(c) /\ sem[slot[c]] > 0 /\ pc'[c] = "out"
      BY <2>1, <2>6 DEF Wake, InCall, Return
    <3>2. PICK d \in Client : Answered(d) /\ slot[d] = slot[c]
      BY <2>1, <3>1 DEF SyncInv, Posted
    <3>3. d = c
      BY <2>1, <3>1, <3>2 DEF SyncInv, Distinct, Answered
    <3> QED
      BY <3>1, <3>2, <3>3 DEF Answered
  <2>7. ASSUME NEW d \in Client, d # c, Calling(d) PROVE Honoured(c)
    <3>1. pc'[c] = pc[c]
      BY <2>1, <2>7 DEF Calling, Signal, CheckFlag, Wake, Return
    <3> QED
      BY <2>2, <3>1
  <2>8. CASE Routine \/ Create \/ Destroy \/ Free \/ UNCHANGED vars
    <3>1. pc' = pc
      BY <2>8 DEF Routine, Fetch, Take, ReplyReceived, Process, ReplyProcessed,
         Create, Destroy, Free, vars, calls
    <3> QED
      BY <2>2, <3>1
  <2>9. CASE \/ \E p \in Poster : Post(p)
             \/ PostInit \/ PostExit
    <3>1. Owner \in Client /\ Poster \subseteq Client
      BY DEF Client
    <3>2. CASE PostExit
      BY <2>2, <2>3, <3>1, <3>2 DEF PostExit, calls
    <3> QED
      BY <2>3, <2>9, <3>1, <3>2 DEF Post, PostInit
  <2> QED
    BY <1>1, <2>4, <2>5, <2>6, <2>7, <2>8, <2>9 DEF Next, Calling, Owning
<1>2. RingInv /\ InTime /\ [Next]_vars =>
        [~overtaken => \A c \in Client : Honoured(c)]_vars
  BY <1>1
<1> QED
  BY <1>2, SyncInvariant, PTL DEF Spec, HonouredInTime

\* cmr_thread_destroy frees the queue of a thread that still runs only after a
\* full queue has refused its EXIT, or a slot was reused too early.
THEOREM NoOrphanCorrect == Spec => []NoOrphan
<1>1. Init => NoOrphan
  BY DEF Init, NoOrphan
<1>2. ASSUME RingInv, InTime, NoOrphan, [Next]_vars PROVE NoOrphan'
  <2> USE DEF NoOrphan, ghosts
  <2>1. CASE Free
    <3>1. overtaken' = overtaken /\ refused' = refused /\ orphaned' = (cpc # "ended")
      BY <2>1 DEF Free
    <3>2. ~overtaken /\ ~refused => cpc = "ended"
      BY <1>2, <2>1 DEF Free, InTime, SyncInv, Ends
    <3> QED
      BY <3>1, <3>2
  <2>2. CASE Create
    BY <2>2 DEF Create
  <2>3. CASE ~Free /\ ~Create
    <3> DEFINE Kept == /\ orphaned' = orphaned /\ (refused => refused')
                       /\ (overtaken => overtaken')
    <3>1. ASSUME NEW c, NEW k, NEW f, Enqueue(c, k, f) PROVE Kept
      BY <3>1 DEF Enqueue
    <3>2. (\E p \in Poster : Post(p)) \/ PostInit \/ PostExit => Kept
      BY <3>1 DEF Post, PostInit, PostExit
    <3>3. ASSUME NEW c \in Client, Calling(c) PROVE Kept
      BY <3>3 DEF Calling, Signal, CheckFlag, Wake
    <3>4. Routine \/ Destroy \/ UNCHANGED vars => Kept
      BY DEF Routine, Fetch, Take, ReplyReceived, Process, ReplyProcessed,
         Destroy, vars
    <3>5. Kept
      BY <1>2, <2>3, <3>2, <3>3, <3>4 DEF Next, Owning
    <3> QED
      BY <1>2, <3>5
  <2> QED
    BY <2>1, <2>2, <2>3
<1> QED
  BY <1>1, <1>2, SyncInvariant, PTL DEF Spec
=============================================================================
