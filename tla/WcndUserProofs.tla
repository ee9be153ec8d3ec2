--------------------------- MODULE WcndUserProofs ---------------------------
(***************************************************************************)
(* Theorems about Wcnd while nothing has failed: the users that have been  *)
(* told that CP2 is theirs are counted, and CP2 is not switched off under  *)
(* them, however many users, connections and commands there are.           *)
(***************************************************************************)
EXTENDS WcndProofs

(***************************************************************************)
(* The inductive invariant                                                 *)
(***************************************************************************)
Open(u)  == [op |-> "open", user |-> u]
Close(u) == [op |-> "close", user |-> u]

\* The self commands that start and stop CP2, at most one in a queue, and the
\* client listen thread while it executes one
Jobs      == {"startcp2", "stopcp2"}
HasJob(q) == \E i \in 1..Len(q) : q[i] \in Jobs
Lone(q)   == \A i, j \in 1..Len(q) : q[i] \in Jobs /\ q[j] \in Jobs => i = j
Busy      == {"opening", "up", "stopping", "down"}
For(q, state) == /\ Has(q, "startcp2") => state = "STARTING"
                 /\ Has(q, "stopcp2") => state = "STOPPING"

\* Nothing has failed: only a dump sets the error flag, nothing resets CP2,
\* and the bits that an assert has saved are those of a machine in ASSERT.
Control ==
  /\ ~irq /\ listen = "select" /\ loop # "sleep"
  /\ err => srv = "dumping"
  /\ srv \notin {"recovering", "rebooting"}
  /\ sm.state = "STARTED" => cp2 = "alive"
  /\ srv = "up" => cp2 = "alive"
  /\ sm.saved # {} => sm.state = "ASSERT"

\* One start or stop at a time: the machine is in the state that asked for it
\* from the moment it is queued to the moment its end is told.
OneJob ==
  /\ Lone(selfq) /\ Lone(todo) /\ ~(HasJob(selfq) /\ HasJob(todo))
  /\ For(selfq, sm.state) /\ For(todo, sm.state)
  /\ srv \in {"opening", "up"} => sm.state = "STARTING"
  /\ srv \in {"stopping", "down"} => sm.state = "STOPPING"
  /\ srv \in Busy => ~HasJob(selfq) /\ ~HasJob(todo)

\* Who awaits an answer: a command that is not read is the one its peer awaits
\* the answer to, or the peer has taken a notification for that answer; a user
\* awaits one answer at a time; and a user that has taken a notification for
\* the answer to its close is read its close before its next open.
Behind(c, d) ==
  /\ d \notin ready
  /\ conn[d].type = "none" \/ (conn[d].type = "NOTIFY" /\ c \in ready)
Asks ==
  \A c \in Conn :
    /\ conn[c].unread # NoCmd =>
         \/ conn[c].ask = conn[c].unread
         \/ conn[c].ask = NoCmd /\ conn[c].type = "NOTIFY"
    /\ conn[c].type = "PENDING" => sm.pending # {}
    /\ \A d \in Conn, u \in User :
         /\ c # d /\ conn[c].ask.user = u => conn[d].ask.user # u
         /\ conn[c].unread = Close(u) /\ conn[c].ask = NoCmd
            /\ conn[d].ask = Open(u) => Behind(c, d)

\* A user whose close has not been read has not been answered since.
Closing == \A c \in Conn, u \in User : conn[c].unread = Close(u) => u \notin on

\* The users that are counted, while no open has come during a stop: those
\* that wait for the end of a start or of a reset, and those answered.
Held ==
  /\ \A c \in Conn, u \in User :
       conn[c].type \in CmdTypes /\ conn[c].ask = Open(u) =>
         u \in sm.btwifi /\ sm.state \in {"STARTING", "ASSERT"}
  /\ sm.state \in {"STOPPED", "STOPPING"} => sm.btwifi = {}
  /\ on \subseteq sm.btwifi

CalmInv == Control /\ OneJob /\ Asks /\ Closing /\ (sm.pending = {} => Held)

(***************************************************************************)
(* Queues with at most one start or stop                                   *)
(***************************************************************************)
\* What an append does
LEMMA AppendLone ==
  ASSUME NEW q \in Seq(SelfCmds), NEW k \in SelfCmds, NEW state
  PROVE  /\ Lone(q) /\ (k \in Jobs => ~HasJob(q)) => Lone(Append(q, k))
         /\ HasJob(Append(q, k)) => HasJob(q) \/ k \in Jobs
         /\ For(q, state) /\ (k = "startcp2" => state = "STARTING")
            /\ (k = "stopcp2" => state = "STOPPING") => For(Append(q, k), state)
<1>1. Len(Append(q, k)) = Len(q) + 1 /\ Append(q, k)[Len(q) + 1] = k
      /\ Len(q) \in Nat
  OBVIOUS
<1>2. \A i \in 1..Len(q) : Append(q, k)[i] = q[i]
  OBVIOUS
<1>3. \A i \in 1..(Len(q) + 1) : i \in 1..Len(q) \/ i = Len(q) + 1
  BY <1>1
<1>4. ASSUME Lone(q), k \in Jobs => ~HasJob(q) PROVE Lone(Append(q, k))
  BY <1>1, <1>2, <1>3, <1>4 DEF Lone, HasJob
<1>5. HasJob(Append(q, k)) => HasJob(q) \/ k \in Jobs
  BY <1>1, <1>2, <1>3 DEF HasJob
<1>6. \A x : Has(Append(q, k), x) => Has(q, x) \/ x = k
  BY <1>1, <1>2, <1>3 DEF Has
<1> QED BY <1>4, <1>5, <1>6 DEF For

\* What taking the head does
LEMMA TailLone ==
  ASSUME NEW q \in Seq(SelfCmds), q # <<>>, NEW state
  PROVE  /\ Lone(q) => Lone(Tail(q))
         /\ HasJob(Tail(q)) => HasJob(q)
         /\ Lone(q) /\ Head(q) \in Jobs => ~HasJob(Tail(q))
         /\ For(q, state) => For(Tail(q), state)
         /\ Head(q) \in Jobs => HasJob(q)
         /\ Has(q, Head(q))
<1>1. /\ Len(q) \in Nat /\ 1 \in 1..Len(q) /\ Head(q) = q[1]
      /\ \A i \in 1..Len(Tail(q)) : i + 1 \in 1..Len(q) /\ Tail(q)[i] = q[i + 1]
                                    /\ i \in Nat /\ i + 1 # 1
  OBVIOUS
<1>2. Lone(q) => Lone(Tail(q))
  BY <1>1 DEF Lone
<1>3. HasJob(Tail(q)) => HasJob(q)
  BY <1>1 DEF HasJob
<1>4. Lone(q) /\ Head(q) \in Jobs => ~HasJob(Tail(q))
  BY <1>1 DEF Lone, HasJob
<1>5. \A x : Has(Tail(q), x) => Has(q, x)
  BY <1>1 DEF Has
<1>6. For(q, state) => For(Tail(q), state)
  BY <1>5 DEF For
<1>7. (Head(q) \in Jobs => HasJob(q)) /\ Has(q, Head(q))
  BY <1>1 DEF HasJob, Has
<1> QED BY <1>2, <1>3, <1>4, <1>6, <1>7

(***************************************************************************)
(* Steps of the machine                                                    *)
(***************************************************************************)
\* A start ends only while one goes on, and a stop.
Timely(e) == /\ e.op = "ok" => sm.state = "STARTING"
             /\ e.op = "down" => sm.state = "STOPPING"

\* What a step does to the state, the saved bits and the queue
Moved(e) ==
  /\ sm'.state = "STARTED" =>
       sm.state = "STARTED" \/ (sm.state = "STARTING" /\ e.op = "ok")
  /\ sm'.saved # {} => sm'.state = "ASSERT"
  /\ sm.pending \subseteq sm'.pending
  /\ sm.state \in {"STARTING", "STOPPING"} /\ e.op \notin {"ok", "down"} =>
       sm'.state = sm.state /\ selfq' = selfq
  /\ \/ selfq' = selfq
     \/ \E k \in SelfCmds \ Jobs : selfq' = Append(selfq, k)
     \/ /\ sm.state = "STOPPED" /\ sm'.state = "STARTING"
        /\ selfq' = Append(selfq, "startcp2")
     \/ /\ sm.state = "STARTED" /\ sm'.state = "STOPPING"
        /\ selfq' = Append(selfq, "stopcp2")

LEMMA MachineMoved ==
  ASSUME NEW e, NEW from, NEW cn, NEW d, sm \in Machine, Timely(e),
         sm.saved # {} => sm.state = "ASSERT", SmStep(e, from, cn, d)
  PROVE  Moved(e)
<1> USE DEF Moved, Machine, SelfCmd, SelfCmds, Jobs
<1>1. CASE sm.state = "STOPPED" /\ Stopped(e, cn)
  <2>1. sm'.saved = sm.saved /\ sm'.pending = sm.pending
    BY <1>1 DEF Stopped
  <2>2. \/ sm'.state = "STOPPED" /\ selfq' = selfq
        \/ sm'.state = "STARTING" /\ selfq' = Append(selfq, "startcp2")
    BY <1>1 DEF Stopped, Timely
  <2> QED BY <2>1, <2>2, <1>1
<1>2. CASE sm.state = "STARTING" /\ Starting(e, cn)
  <2>1. sm'.saved = sm.saved /\ sm'.pending = sm.pending /\ selfq' = selfq
    BY <1>2 DEF Starting
  <2>2. sm'.state = "STARTING" \/ (sm'.state = "STARTED" /\ e.op = "ok")
    BY <1>2 DEF Starting, Timely
  <2> QED BY <2>1, <2>2, <1>2
<1>3. CASE sm.state = "STARTED" /\ Started(e, cn)
  <2>1. sm'.pending = sm.pending
    BY <1>3 DEF Started
  <2>2. \/ sm'.state = "STARTED" /\ selfq' = selfq /\ sm'.saved = {}
        \/ /\ sm'.state = "STOPPING" /\ selfq' = Append(selfq, "stopcp2")
           /\ sm'.saved = {}
        \/ sm'.state = "ASSERT" /\ selfq' = Append(selfq, "reset")
    BY <1>3 DEF Started, Timely
  <2> QED BY <2>1, <2>2, <1>3
<1>4. CASE sm.state = "ASSERT" /\ InAssert(e, from, cn, d)
  <2>1. sm'.pending = sm.pending /\ selfq' = selfq /\ sm'.state = "ASSERT"
    BY <1>4 DEF InAssert, Timely
  <2> QED BY <2>1, <1>4
<1>5. CASE sm.state = "STOPPING" /\ Stopping(e, from, cn)
  <2>1. sm'.saved = sm.saved /\ sm.pending \subseteq sm'.pending
    <3>1. \/ sm' = [sm EXCEPT !.notify = FALSE]
          \/ sm' = [sm EXCEPT !.notify = FALSE, !.state = "STOPPED"]
          \/ \E x : sm' = [sm EXCEPT !.notify = FALSE,
                                    !.pending = sm.pending \cup {x}]
      BY <1>5 DEF Stopping
    <3>2. ASSUME NEW x, sm' = [sm EXCEPT !.notify = FALSE,
                                         !.pending = sm.pending \cup {x}]
          PROVE  sm'.saved = sm.saved /\ sm'.pending = sm.pending \cup {x}
      BY <3>2
    <3>3. ASSUME \/ sm' = [sm EXCEPT !.notify = FALSE]
                 \/ sm' = [sm EXCEPT !.notify = FALSE, !.state = "STOPPED"]
          PROVE  sm'.saved = sm.saved /\ sm'.pending = sm.pending
      BY <3>3
    <3> QED BY <3>1, <3>2, <3>3
  <2>2. \/ sm'.state = "STOPPING" /\ selfq' = selfq
        \/ /\ sm'.state = "STOPPED" /\ e.op = "down"
           /\ selfq' = selfq \/ selfq' = Append(selfq, "pendingevent")
    BY <1>5 DEF Stopping
  <2> QED BY <2>1, <2>2, <1>5
<1> QED BY <1>1, <1>2, <1>3, <1>4, <1>5 DEF SmStep

\* The connection a command came from has been read.
Came(cn, from) == from \in Conn => cn[from].type = "CMD" /\ cn[from].unread = NoCmd

\* What an answer does to a connection, and to the users counted as open
LEMMA AnswerMoved ==
  ASSUME NEW cn \in [Conn -> Slot], NEW T, NEW ok, Answer(cn, T, ok)
  PROVE  /\ \A c \in Conn : \/ conn'[c] = Free
                            \/ conn'[c] = cn[c] /\ cn[c].type \notin T
         /\ \A u \in on' : \/ u \in on
                           \/ /\ u \in User
                              /\ \E c \in Conn : cn[c].type \in T /\ cn[c].ask = Open(u)
  BY DEF Answer, Open

\* So does a new type.
LEMMA RetypeMoved ==
  ASSUME NEW cn \in [Conn -> Slot], NEW from, NEW type
  PROVE  \A c \in Conn :
           LET s == Retype(cn, from, type)[c] IN
           /\ s.unread = cn[c].unread /\ s.ask = cn[c].ask
           /\ s.type = IF c = from THEN type ELSE cn[c].type
  BY DEF Retype, Slot

\* What a step does to a connection: it is answered, or is as it was but for
\* the type of the one the command came from.
SlotMoved(cn, from) ==
  /\ \A c \in Conn :
       \/ conn'[c] = Free
       \/ /\ conn'[c].unread = cn[c].unread /\ conn'[c].ask = cn[c].ask
          /\ \/ conn'[c].type = cn[c].type
             \/ c = from /\ conn'[c].type \in {"CLOSE", "OPEN"}
             \/ c = from /\ conn'[c].type = "PENDING" /\ sm'.pending # {}
  /\ \A u \in on' : \/ u \in on
                    \/ /\ u \in User
                       /\ \E c \in Conn : /\ cn[c].type \in CmdTypes \cup {"PENDING"}
                                          /\ cn[c].ask = Open(u)

LEMMA SlotsMoved ==
  ASSUME NEW e, NEW from, NEW cn \in [Conn -> Slot], NEW d, sm \in Machine,
         Came(cn, from), SmStep(e, from, cn, d)
  PROVE  SlotMoved(cn, from)
<1>a. ASSUME NEW T \in SUBSET Waiting, NEW ok, Answer(cn, T, ok)
      PROVE  SlotMoved(cn, from)
  BY <1>a, AnswerMoved DEF SlotMoved, Waiting
<1>s. ASSUME Silent(cn) PROVE SlotMoved(cn, from)
  BY <1>s DEF SlotMoved, Silent
<1>t. CmdTypes \subseteq Waiting /\ {"CLOSE"} \subseteq Waiting
  BY DEF Waiting, CmdTypes
<1>1. CASE Stopped(e, cn)
  BY <1>1, <1>a, <1>s, <1>t DEF Stopped
<1>2. CASE Starting(e, cn)
  BY <1>2, <1>a, <1>s, <1>t DEF Starting
<1>3. CASE Started(e, cn)
  BY <1>3, <1>a, <1>s, <1>t DEF Started
<1>4. CASE InAssert(e, from, cn, d)
  <2>1. CASE e.op = "close"
    <3> DEFINE rn == Retype(cn, from, "CLOSE")
    <3>1. rn \in [Conn -> Slot]
      BY RetypeSlots DEF Type, CmdTypes
    <3>2. Answer(rn, {"CLOSE"}, TRUE)
      BY <1>4, <2>1 DEF InAssert
    <3>3. /\ \A c \in Conn : rn[c].unread = cn[c].unread /\ rn[c].ask = cn[c].ask
          /\ \A c \in Conn : rn[c].type = IF c = from THEN "CLOSE" ELSE cn[c].type
      BY RetypeMoved
    <3> DEFINE T == {"CLOSE"}
    <3>t. Answer(rn, T, TRUE) /\ \A t : t \in T <=> t = "CLOSE"
      BY <3>2
    <3> HIDE DEF rn, T
    <3>4. \A c \in Conn : rn[c].type = "CLOSE" => cn[c].type \in CmdTypes
      BY <3>3 DEF Came, CmdTypes
    <3>a. /\ \A c \in Conn : \/ conn'[c] = Free
                             \/ conn'[c] = rn[c] /\ rn[c].type \notin T
          /\ \A u \in on' : \/ u \in on
                            \/ /\ u \in User
                               /\ \E c \in Conn : rn[c].type \in T /\ rn[c].ask = Open(u)
      BY <3>1, <3>t, AnswerMoved
    <3>5. /\ \A c \in Conn : conn'[c] = Free \/ conn'[c] = rn[c]
          /\ \A u \in on' : \/ u \in on
                            \/ /\ u \in User
                               /\ \E c \in Conn : /\ rn[c].type = "CLOSE"
                                                  /\ rn[c].ask = Open(u)
      BY <3>a, <3>t
    <3>6. \A u \in on' : \/ u \in on
                        \/ /\ u \in User
                           /\ \E c \in Conn : /\ cn[c].type \in CmdTypes
                                              /\ cn[c].ask = Open(u)
      BY <3>3, <3>4, <3>5
    <3> QED BY <3>3, <3>5, <3>6 DEF SlotMoved
  <2>2. CASE e.op = "open"
    <3>1. conn' = Retype(cn, from, "OPEN") /\ on' = on
      BY <1>4, <2>2 DEF InAssert, Silent
    <3> QED BY <3>1, RetypeMoved DEF SlotMoved
  <2>3. CASE e.op \in {"poweron", "poweroff"}
    <3>1. /\ on' = on
          /\ \A c \in Conn : conn'[c] = Free \/ conn'[c] = cn[c]
      BY <1>4, <2>3 DEF InAssert
    <3> QED BY <3>1 DEF SlotMoved
  <2>4. CASE e.op \in {"ok", "down", "assert", "pendingevent"}
    BY <1>4, <2>4, <1>a, <1>s, <1>t DEF InAssert
  <2> QED BY <1>4, <2>1, <2>2, <2>3, <2>4 DEF InAssert
<1>5. CASE Stopping(e, from, cn)
  <2>1. CASE e.op \in {"open", "poweron"}
    <3>1. conn' = Retype(cn, from, "PENDING") /\ on' = on
      BY <1>5, <2>1 DEF Stopping, Silent
    <3>2. sm'.pending # {}
      <4>1. \E x : sm' = [sm EXCEPT !.notify = FALSE,
                                    !.pending = sm.pending \cup {x}]
        BY <1>5, <2>1 DEF Stopping
      <4> QED BY <4>1 DEF Machine
    <3> QED BY <3>1, <3>2, RetypeMoved DEF SlotMoved
  <2>2. CASE e.op \notin {"open", "poweron"}
    BY <1>5, <2>2, <1>a, <1>s, <1>t DEF Stopping
  <2> QED BY <2>1, <2>2
<1> QED BY <1>1, <1>2, <1>3, <1>4, <1>5 DEF SmStep

\* What a step does to the users counted, while no open has come during a stop
LEMMA Counted ==
  ASSUME NEW e, NEW from, NEW cn, NEW d, sm \in Machine, Timely(e),
         e.op = "open" => e.user \in User, sm'.pending = {},
         e.op = "poweron" => e.user \notin User,
         sm.saved # {} => sm.state = "ASSERT", SmStep(e, from, cn, d)
  PROVE  /\ e.op = "open" => /\ sm'.btwifi = sm.btwifi \cup {e.user}
                             /\ sm.state # "STOPPING"
         /\ e.op # "open" => \/ sm'.btwifi = sm.btwifi
                             \/ /\ sm.state = "STARTED" /\ e.op \in {"close", "poweroff"}
                                /\ sm'.btwifi = sm.btwifi \ {e.user}
         /\ sm'.state \in {"STOPPED", "STOPPING"} =>
              \/ sm.state \in {"STOPPED", "STOPPING"} /\ e.op # "open"
              \/ sm'.btwifi = {}
         /\ sm'.state = "STARTED" => sm.state \in {"STARTED", "STARTING"}
         /\ sm'.state = "STARTED" /\ sm.state = "STARTING" => e.op = "ok"
<1> USE DEF Machine, Bit
<1>b. Moved(e) /\ sm.pending = {}
  BY MachineMoved DEF Moved
<1>1. CASE sm.state = "STOPPED" /\ Stopped(e, cn)
  <2>1. CASE e.op = "open"
    <3>1. sm'.btwifi = sm.btwifi \cup (({e.user}) \cap User) /\ sm'.state = "STARTING"
      BY <1>1, <2>1 DEF Stopped
    <3> QED BY <3>1, <1>1, <2>1
  <2>2. CASE e.op # "open"
    <3>1. sm'.btwifi = sm.btwifi
      <4> DEFINE held == IF e.op = "pendingevent"
                         THEN sm.btwifi \cup (sm.pending \cap User) ELSE sm.btwifi
      <4>1. held = sm.btwifi
        BY <1>b
      <4>2. sm'.btwifi = sm.btwifi \/ sm'.btwifi = held
        BY <1>1, <2>2 DEF Stopped
      <4> QED BY <4>1, <4>2
    <3>2. sm'.state \in {"STOPPED", "STARTING"}
      BY <1>1, <2>2 DEF Stopped, Timely
    <3> QED BY <3>1, <3>2, <1>1, <2>2
  <2> QED BY <2>1, <2>2
<1>2. CASE sm.state = "STARTING" /\ Starting(e, cn)
  <2>1. CASE e.op = "open"
    <3>1. sm'.btwifi = sm.btwifi \cup ({e.user} \cap User) /\ sm'.state = "STARTING"
      BY <1>2, <2>1 DEF Starting
    <3> QED BY <3>1, <1>2, <2>1
  <2>2. CASE e.op # "open"
    <3>1. sm'.btwifi = sm.btwifi
          /\ (sm'.state = "STARTING" \/ (sm'.state = "STARTED" /\ e.op = "ok"))
      BY <1>2, <2>2 DEF Starting, Timely
    <3> QED BY <3>1, <1>2, <2>2
  <2> QED BY <2>1, <2>2
<1>3. CASE sm.state = "STARTED" /\ Started(e, cn)
  <2>1. CASE e.op \in {"close", "poweroff"}
    <3>1. \/ sm'.btwifi = sm.btwifi \ {e.user} /\ sm'.state = "STARTED"
          \/ /\ sm.btwifi \ {e.user} = {} /\ sm'.btwifi = {}
             /\ sm'.state = "STOPPING"
      BY <1>3, <2>1 DEF Started
    <3> QED BY <3>1, <1>3, <2>1
  <2>2. CASE e.op = "open"
    <3>1. sm'.btwifi = sm.btwifi \cup ({e.user} \cap User) /\ sm'.state = "STARTED"
      BY <1>3, <2>2 DEF Started
    <3> QED BY <3>1, <1>3, <2>2
  <2>3. CASE e.op = "poweron"
    <3>1. sm'.btwifi = sm.btwifi \cup ({e.user} \cap User) /\ sm'.state = "STARTED"
      BY <1>3, <2>3 DEF Started
    <3> QED BY <3>1, <1>3, <2>3
  <2>4. CASE e.op \in {"assert", "pendingevent"}
    <3>1. sm'.btwifi = sm.btwifi /\ sm'.state \in {"STARTED", "ASSERT"}
      BY <1>3, <2>4 DEF Started
    <3> QED BY <3>1, <1>3, <2>4
  <2> QED BY <1>3, <2>1, <2>2, <2>3, <2>4 DEF Started, Timely
<1>4. CASE sm.state = "ASSERT" /\ InAssert(e, from, cn, d)
  <2>1. CASE e.op = "open"
    <3>1. sm'.btwifi = sm.btwifi \cup ({e.user} \cap User) /\ sm'.state = "ASSERT"
      BY <1>4, <2>1 DEF InAssert
    <3> QED BY <3>1, <1>4, <2>1
  <2>2. CASE e.op # "open"
    <3>1. sm'.btwifi = sm.btwifi /\ sm'.state = "ASSERT"
      BY <1>4, <2>2 DEF InAssert, Timely
    <3> QED BY <3>1, <1>4, <2>2
  <2> QED BY <2>1, <2>2
<1>5. CASE sm.state = "STOPPING" /\ Stopping(e, from, cn)
  <2>1. e.op \notin {"open", "poweron"}
    <3>1. e.op \in {"open", "poweron"} =>
            \E x : sm' = [sm EXCEPT !.notify = FALSE,
                                  !.pending = sm.pending \cup {x}]
      BY <1>5 DEF Stopping
    <3>2. ASSUME NEW x, sm' = [sm EXCEPT !.notify = FALSE,
                                         !.pending = sm.pending \cup {x}]
          PROVE  sm'.pending = sm.pending \cup {x}
      BY <3>2
    <3> QED BY <3>1, <3>2
  <2>2. sm'.btwifi = sm.btwifi /\ sm'.state \in {"STOPPED", "STOPPING"}
    BY <1>5, <2>1 DEF Stopping
  <2> QED BY <2>1, <2>2, <1>5
<1> QED BY <1>1, <1>2, <1>3, <1>4, <1>5 DEF SmStep

\* The users counted, before a step on behalf of a connection, whose own command
\* is not counted yet
HeldBut(e, from, cn) ==
  /\ \A c \in Conn, u \in User :
       cn[c].type \in CmdTypes /\ cn[c].ask = Open(u) =>
         \/ u \in sm.btwifi /\ sm.state \in {"STARTING", "ASSERT"}
         \/ c = from /\ e = Open(u)
  /\ \A c \in Conn : cn[c].type # "PENDING"
  /\ sm.state \in {"STOPPED", "STOPPING"} => sm.btwifi = {}
  /\ on \subseteq sm.btwifi

\* An answer to everybody who waits leaves nobody waiting.
LEMMA AllAnswered ==
  ASSUME NEW cn \in [Conn -> Slot], NEW T, CmdTypes \subseteq T, NEW ok,
         Answer(cn, T, ok), NEW c \in Conn
  PROVE  conn'[c].type \notin CmdTypes
<1>1. conn'[c] = Free \/ (conn'[c] = cn[c] /\ cn[c].type \notin T)
  BY AnswerMoved
<1>2. Free.type \notin CmdTypes
  BY DEF Free, CmdTypes
<1> QED BY <1>1, <1>2

\* After the step every user that waits, or has been answered, is counted.
LEMMA StepHolds ==
  ASSUME NEW e, NEW from, NEW cn \in [Conn -> Slot], NEW d, sm \in Machine,
         selfq \in Seq(SelfCmds), on \subseteq User, GoodEvent(e), Timely(e),
         Came(cn, from),
         e.op = "close" => e.user \notin on,
         e.op \notin {"open", "close"} => e.user \notin User,
         sm.saved # {} => sm.state = "ASSERT", SmStep(e, from, cn, d),
         HeldBut(e, from, cn), sm'.pending = {}
  PROVE  Held'
<1>1. SlotMoved(cn, from)
  BY SlotsMoved
<1>2. /\ e.op = "open" => /\ sm'.btwifi = sm.btwifi \cup {e.user}
                          /\ sm.state # "STOPPING"
      /\ e.op # "open" => \/ sm'.btwifi = sm.btwifi
                          \/ /\ sm.state = "STARTED" /\ e.op \in {"close", "poweroff"}
                             /\ sm'.btwifi = sm.btwifi \ {e.user}
      /\ sm'.state \in {"STOPPED", "STOPPING"} =>
           \/ sm.state \in {"STOPPED", "STOPPING"} /\ e.op # "open"
           \/ sm'.btwifi = {}
      /\ sm'.state = "STARTED" => sm.state \in {"STARTED", "STARTING"}
      /\ sm'.state = "STARTED" /\ sm.state = "STARTING" => e.op = "ok"
  BY Counted DEF GoodEvent
<1>3. \A u : Open(u).op = "open" /\ Open(u).user = u
  BY DEF Open
<1>4. on \subseteq sm'.btwifi
  <2>1. e.op # "open" => e.user \notin on
    BY DEF GoodEvent
  <2> QED BY <2>1, <1>2 DEF HeldBut
<1>5. \A c \in Conn, u \in User :
         cn[c].type \in CmdTypes /\ cn[c].ask = Open(u) => u \in sm'.btwifi
  BY <1>2, <1>3 DEF HeldBut
<1>6. on' \subseteq sm'.btwifi
  BY <1>1, <1>4, <1>5 DEF SlotMoved, HeldBut
<1>7. sm'.state \in {"STOPPED", "STOPPING"} => sm'.btwifi = {}
  BY <1>2 DEF HeldBut
<1>8. ASSUME NEW c \in Conn, NEW u \in User,
             conn'[c].type \in CmdTypes, conn'[c].ask = Open(u)
      PROVE  u \in sm'.btwifi /\ sm'.state \in {"STARTING", "ASSERT"}
  <2>1. Free.type \notin CmdTypes /\ "CMD" \in CmdTypes /\ "PENDING" \notin CmdTypes
    BY DEF Free, CmdTypes
  <2>2. cn[c].type \in CmdTypes /\ cn[c].ask = Open(u)
    BY <1>1, <1>8, <2>1 DEF SlotMoved, Came
  <2>3. u \in sm'.btwifi
    BY <1>5, <2>2
  <2>4. \/ u \in sm.btwifi /\ sm.state \in {"STARTING", "ASSERT"}
        \/ e.op = "open"
    BY <2>2, <1>3 DEF HeldBut
  <2>5. sm'.state \notin {"STOPPED", "STOPPING"}
    BY <1>7, <2>3
  <2>6. sm'.state # "STARTED"
    <3>1. SUFFICES ASSUME sm'.state = "STARTED" PROVE FALSE
      OBVIOUS
    <3>2. \/ sm.state = "STARTING" /\ e.op = "ok"
          \/ sm.state = "STARTED" /\ e.op = "open"
      BY <1>2, <2>4, <3>1
    <3>3. \E T : CmdTypes \subseteq T /\ Answer(cn, T, TRUE)
      <4>1. CASE sm.state = "STARTING" /\ e.op = "ok"
        <5>1. Answer(cn, Waiting, TRUE)
          BY <4>1 DEF SmStep, Starting
        <5> QED BY <5>1 DEF Waiting
      <4>2. CASE sm.state = "STARTED" /\ e.op = "open"
        BY <4>2 DEF SmStep, Started
      <4> QED BY <3>2, <4>1, <4>2
    <3> QED BY <3>3, AllAnswered, <1>8
  <2>7. sm' \in Machine
    BY SmStepType
  <2> QED BY <2>3, <2>5, <2>6, <2>7 DEF Machine
<1> QED BY <1>6, <1>7, <1>8 DEF Held

(***************************************************************************)
(* Who awaits an answer                                                    *)
(***************************************************************************)
\* The commands are told apart by the operation and the user.
LEMMA Commands ==
  ASSUME NEW u \in User
  PROVE  /\ Open(u).op = "open" /\ Open(u).user = u /\ Open(u) # NoCmd
         /\ Close(u).op = "close" /\ Close(u).user = u /\ Close(u) # NoCmd
         /\ Open(u) # Close(u) /\ NoCmd.user \notin User
         /\ Free.unread = NoCmd /\ Free.ask = NoCmd /\ Free.type = "none"
  BY UserAssumption DEF Open, Close, NoCmd, NoUser, Free

\* A slot that is freed, kept, or read in this round
Kept(x) ==
  \/ conn'[x] = Free
  \/ /\ conn'[x].unread = conn[x].unread /\ conn'[x].ask = conn[x].ask
     /\ conn'[x].type = conn[x].type
  \/ /\ conn'[x].unread = NoCmd /\ conn'[x].ask = conn[x].ask /\ x \in ready
     /\ conn'[x].type = "PENDING" => conn[x].type = "PENDING" \/ sm'.pending # {}

\* Reading and answering leave the order of what a user asks.
LEMMA AsksKept ==
  ASSUME Asks, \A x \in Conn : Kept(x), sm.pending # {} => sm'.pending # {},
         ready' \subseteq ready,
         \A x \in Conn : x \in ready /\ x \notin ready' => conn'[x].unread = NoCmd
  PROVE  Asks'
<1> SUFFICES ASSUME NEW c \in Conn
             PROVE  /\ conn'[c].unread # NoCmd =>
                         \/ conn'[c].ask = conn'[c].unread
                         \/ conn'[c].ask = NoCmd /\ conn'[c].type = "NOTIFY"
                    /\ conn'[c].type = "PENDING" => sm'.pending # {}
                    /\ \A d \in Conn, u \in User :
                         /\ c # d /\ conn'[c].ask.user = u => conn'[d].ask.user # u
                         /\ conn'[c].unread = Close(u) /\ conn'[c].ask = NoCmd
                            /\ conn'[d].ask = Open(u) => Behind(c, d)'
  BY DEF Asks
<1>f. Free.unread = NoCmd /\ Free.ask = NoCmd /\ Free.type = "none"
  BY DEF Free
<1>1. /\ conn'[c].unread # NoCmd =>
           \/ conn'[c].ask = conn'[c].unread
           \/ conn'[c].ask = NoCmd /\ conn'[c].type = "NOTIFY"
      /\ conn'[c].type = "PENDING" => sm'.pending # {}
  BY <1>f DEF Asks, Kept
<1>2. ASSUME NEW d \in Conn, NEW u \in User
      PROVE  /\ c # d /\ conn'[c].ask.user = u => conn'[d].ask.user # u
             /\ conn'[c].unread = Close(u) /\ conn'[c].ask = NoCmd
                /\ conn'[d].ask = Open(u) => Behind(c, d)'
  <2>1. /\ NoCmd.user \notin User /\ Close(u) # NoCmd /\ Open(u) # NoCmd
    BY Commands
  <2>2. \A x \in Conn : conn'[x].ask = conn[x].ask \/ conn'[x].ask = NoCmd
    BY <1>f DEF Kept
  <2>3. c # d /\ conn'[c].ask.user = u => conn'[d].ask.user # u
    BY <2>1, <2>2 DEF Asks
  <2>4. ASSUME conn'[c].unread = Close(u), conn'[c].ask = NoCmd,
               conn'[d].ask = Open(u)
        PROVE  Behind(c, d)'
    <3>1. conn[c].unread = Close(u) /\ conn[c].ask = NoCmd
      BY <1>f, <2>1, <2>4 DEF Kept
    <3>2. conn[d].ask = Open(u)
      BY <2>1, <2>2, <2>4
    <3>3. Behind(c, d)
      BY <3>1, <3>2 DEF Asks
    <3>4. conn'[d].type = conn[d].type
      BY <1>f, <2>1, <2>4, <3>3 DEF Kept, Behind
    <3>5. c \in ready => c \in ready'
      BY <2>1, <2>4
    <3> QED BY <3>3, <3>4, <3>5 DEF Behind
  <2> QED BY <2>3, <2>4
<1> QED BY <1>1, <1>2

\* The table when the machine makes a step: the connection whose command has
\* been taken is read, and is not ready any more.
Taken(cn, from) ==
  /\ \A x \in Conn : x # from => cn[x] = conn[x]
  /\ from \in Conn => /\ from \in ready /\ cn[from].ask = conn[from].ask
                      /\ cn[from].unread = NoCmd
  /\ ready' \subseteq ready /\ ready \ ready' \subseteq {from}

\* A step of the machine keeps the order, and answers no user whose close has
\* not been read.
LEMMA StepAsks ==
  ASSUME NEW e, NEW from, NEW cn \in [Conn -> Slot], NEW d, sm \in Machine,
         Timely(e), Came(cn, from), Taken(cn, from), Asks, Closing,
         sm.saved # {} => sm.state = "ASSERT", SmStep(e, from, cn, d)
  PROVE  Asks' /\ Closing'
<1>1. SlotMoved(cn, from) /\ (sm.pending # {} => sm'.pending # {})
  BY SlotsMoved, MachineMoved DEF Moved
<1>2. ASSUME NEW x \in Conn PROVE Kept(x)
  <2>1. CASE conn'[x] = Free
    BY <2>1 DEF Kept
  <2>2. CASE conn'[x] # Free /\ x # from
    BY <1>1, <2>2 DEF SlotMoved, Taken, Kept
  <2>3. CASE conn'[x] # Free /\ x = from
    <3>1. cn[x].type = "CMD" /\ cn[x].unread = NoCmd
      BY <2>3 DEF Came
    <3> QED BY <1>1, <2>3, <3>1 DEF SlotMoved, Taken, Kept
  <2> QED BY <2>1, <2>2, <2>3
<1>3. Asks'
  <2>1. \A x \in Conn : x \in ready /\ x \notin ready' => conn'[x].unread = NoCmd
    <3>1. SUFFICES ASSUME NEW x \in Conn, x = from PROVE conn'[x].unread = NoCmd
      BY DEF Taken
    <3>2. conn'[x] = Free \/ conn'[x].unread = cn[x].unread
      BY <1>1 DEF SlotMoved
    <3> QED BY <3>1, <3>2 DEF Taken, Free
  <2> QED BY <1>1, <1>2, <2>1, AsksKept DEF Taken
<1>4. ASSUME NEW c \in Conn, NEW u \in User, conn'[c].unread = Close(u), u \in on'
      PROVE  FALSE
  <2>1. /\ Open(u).user = u /\ Close(u).user = u /\ Close(u) # NoCmd
        /\ Open(u) # Close(u) /\ Open(u) # NoCmd
        /\ Free.unread = NoCmd
    BY Commands
  <2>2. conn[c].unread = Close(u)
    BY <1>2, <1>4, <2>1 DEF Kept
  <2>3. u \notin on
    BY <2>2 DEF Closing
  <2>4. PICK o \in Conn : /\ cn[o].type \in CmdTypes \cup {"PENDING"}
                         /\ cn[o].ask = Open(u)
    <3>1. u \in on \/ \E d1 \in Conn : /\ cn[d1].type \in CmdTypes \cup {"PENDING"}
                                      /\ cn[d1].ask = Open(u)
      <4>1. \A v \in on' : \/ v \in on
                          \/ /\ v \in User
                             /\ \E c1 \in Conn : /\ cn[c1].type \in CmdTypes \cup {"PENDING"}
                                                 /\ cn[c1].ask = Open(v)
        BY <1>1 DEF SlotMoved
      <4> QED BY <1>4, <4>1
    <3> QED BY <2>3, <3>1
  <2>5. conn[o].ask = Open(u)
    BY <2>4 DEF Taken
  <2>6. conn[c].ask = NoCmd
    <3>1. conn[c].ask = Close(u) \/ conn[c].ask = NoCmd
      BY <2>1, <2>2 DEF Asks
    <3>2. conn[c].ask = Close(u) => c = o
      BY <2>1, <2>5 DEF Asks
    <3> QED BY <2>1, <2>5, <3>1, <3>2
  <2>7. o \notin ready /\ conn[o].type \in {"none", "NOTIFY"}
    BY <2>2, <2>5, <2>6 DEF Asks, Behind
  <2>8. o # from /\ cn[o] = conn[o]
    BY <2>7 DEF Taken
  <2> QED BY <2>4, <2>7, <2>8 DEF CmdTypes
<1> QED BY <1>3, <1>4 DEF Closing

(***************************************************************************)
(* Steps that make a step of the machine                                   *)
(***************************************************************************)
\* Without a job in it a queue is for every state.
LEMMA NoJobs ==
  ASSUME NEW q, NEW state
  PROVE  /\ ~HasJob(q) => For(q, state) /\ Lone(q)
         /\ For(q, state) /\ state \notin {"STARTING", "STOPPING"} => ~HasJob(q)
  BY DEF HasJob, For, Has, Lone, Jobs

\* A step of the machine that dispatches a command which is no job, or the end
\* of a start or a stop, leaves one job at most.
LEMMA StepOneJob ==
  ASSUME NEW e, OneJob, Moved(e), selfq \in Seq(SelfCmds), srv' \notin Busy,
         Lone(todo'), HasJob(todo') => HasJob(todo),
         For(todo, sm.state) => For(todo', sm.state),
         e.op \in {"ok", "down"} => ~HasJob(selfq) /\ ~HasJob(todo)
  PROVE  OneJob'
<1>1. CASE sm.state \in {"STARTING", "STOPPING"} /\ e.op \notin {"ok", "down"}
  <2>1. sm'.state = sm.state /\ selfq' = selfq
    BY <1>1 DEF Moved
  <2> QED BY <2>1 DEF OneJob, Busy
<1>2. CASE ~(sm.state \in {"STARTING", "STOPPING"} /\ e.op \notin {"ok", "down"})
  <2>1. ~HasJob(selfq) /\ ~HasJob(todo)
    BY <1>2, NoJobs DEF OneJob
  <2>2. ~HasJob(todo') /\ For(todo', sm'.state)
    BY <2>1, NoJobs
  <2>3. Lone(selfq') /\ For(selfq', sm'.state)
    <3>1. CASE selfq' = selfq
      BY <3>1, <2>1, NoJobs
    <3>2. CASE \E k \in SelfCmds \ Jobs : selfq' = Append(selfq, k)
      <4>1. PICK k \in SelfCmds \ Jobs : selfq' = Append(selfq, k)
        BY <3>2
      <4>2. ~HasJob(selfq')
        BY <4>1, <2>1, AppendLone
      <4> QED BY <4>2, NoJobs
    <3>3. CASE sm'.state = "STARTING" /\ selfq' = Append(selfq, "startcp2")
      BY <3>3, <2>1, NoJobs, AppendLone DEF SelfCmds
    <3>4. CASE sm'.state = "STOPPING" /\ selfq' = Append(selfq, "stopcp2")
      BY <3>4, <2>1, NoJobs, AppendLone DEF SelfCmds
    <3> QED BY <3>1, <3>2, <3>3, <3>4 DEF Moved
  <2> QED BY <2>2, <2>3 DEF OneJob, Busy
<1> QED BY <1>1, <1>2

\* What every step of the machine does to who waits and who is counted
LEMMA StepCounts ==
  ASSUME TypeOK, CalmInv, NEW e, NEW from, NEW cn \in [Conn -> Slot],
         GoodEvent(e), Timely(e), e.op \notin {"open", "close"} => e.user \notin User,
         e.op = "close" => e.user \notin on,
         Came(cn, from), Taken(cn, from),
         from \in Conn => conn[from].unread = e /\ e # NoCmd,
         SmStep(e, from, cn, doing)
  PROVE  /\ Moved(e) /\ Asks' /\ Closing'
         /\ sm'.pending = {} => Held'
<1>0. /\ sm \in Machine /\ selfq \in Seq(SelfCmds) /\ on \subseteq User
      /\ sm.saved # {} => sm.state = "ASSERT"
  BY DEF TypeOK, CalmInv, Control
<1>1. Moved(e)
  BY <1>0, MachineMoved
<1>2. Asks' /\ Closing'
  BY <1>0, StepAsks DEF CalmInv
<1>3. ASSUME sm'.pending = {} PROVE Held'
  <2>1. sm.pending = {} /\ Held /\ Asks
    BY <1>1, <1>3 DEF Moved, CalmInv
  <2>2. \A x \in Conn : x # from => cn[x] = conn[x]
    BY DEF Taken
  <2>3. from \in Conn => /\ cn[from].type = "CMD"
                         /\ cn[from].ask = e \/ cn[from].ask = NoCmd
    BY <2>1 DEF Came, Taken, Asks
  <2>4. \A x \in Conn : cn[x].type # "PENDING"
    <3> SUFFICES ASSUME NEW x \in Conn PROVE cn[x].type # "PENDING"
      OBVIOUS
    <3>1. CASE x # from
      BY <2>1, <2>2, <3>1 DEF Asks
    <3>2. CASE x = from
      BY <2>3, <3>2
    <3> QED BY <3>1, <3>2
  <2>5. ASSUME NEW c \in Conn, NEW u \in User,
               cn[c].type \in CmdTypes, cn[c].ask = Open(u)
        PROVE  \/ u \in sm.btwifi /\ sm.state \in {"STARTING", "ASSERT"}
               \/ c = from /\ e = Open(u)
    <3>1. CASE c # from
      BY <2>1, <2>2, <2>5, <3>1 DEF Held
    <3>2. CASE c = from
      BY <2>3, <2>5, <3>2, Commands
    <3> QED BY <3>1, <3>2
  <2>6. HeldBut(e, from, cn)
    BY <2>1, <2>4, <2>5 DEF HeldBut, Held
  <2> QED BY <1>0, <1>3, <2>6, StepHolds
<1> QED BY <1>1, <1>2, <1>3

(***************************************************************************)
(* Steps that leave the machine alone                                      *)
(***************************************************************************)
\* Slots that are read or freed leave nobody waiting that did not wait.
LEMMA KeptCounts ==
  ASSUME Asks, Closing, \A x \in Conn : Kept(x), sm' = sm, on' = on,
         ready' \subseteq ready,
         \A x \in Conn : conn'[x].type \in CmdTypes => conn[x].type \in CmdTypes,
         \A x \in Conn : x \in ready /\ x \notin ready' => conn'[x].unread = NoCmd
  PROVE  Asks' /\ Closing' /\ (Held => Held')
<1>f. Free.unread = NoCmd /\ Free.ask = NoCmd
  BY DEF Free
<1>1. Asks'
  BY AsksKept
<1>2. Closing'
  BY <1>f, Commands DEF Closing, Kept
<1>3. \A x \in Conn, u \in User : conn'[x].ask = Open(u) => conn[x].ask = Open(u)
  BY <1>f, Commands DEF Kept
<1>4. Held => Held'
  BY <1>3 DEF Held
<1> QED BY <1>1, <1>2, <1>4

\* So does a step that leaves the table of connections alone.
LEMMA IdleCounts ==
  ASSUME CalmInv, sm' = sm, on' = on, conn' = conn, ready' = ready
  PROVE  Asks' /\ Closing' /\ (Held => Held')
<1>1. \A x \in Conn : Kept(x)
  BY DEF Kept
<1>2. Asks /\ Closing
  BY DEF CalmInv
<1> QED BY <1>1, <1>2, KeptCounts

\* A client that connects
LEMMA ConnectCounts ==
  ASSUME TypeOK, Asks, Closing, NEW c \in Conn, NEW r \in Cmd, Connect(c, r)
  PROVE  Asks' /\ Closing' /\ (Held => Held')
<1>1. /\ conn' = [conn EXCEPT ![c].unread = r, ![c].ask = r] /\ conn \in [Conn -> Slot]
      /\ conn[c] = Free /\ c \notin ready /\ ready' = ready /\ sm' = sm
      /\ r.user # NoUser => \A d \in Conn : conn[d].ask.user # r.user
      /\ on' = IF r.op = "close" THEN on \ {r.user} ELSE on
  BY DEF Connect, TypeOK
<1>2. /\ conn'[c].unread = r /\ conn'[c].ask = r /\ conn'[c].type = "none"
      /\ \A x \in Conn : x # c => conn'[x] = conn[x]
  BY <1>1 DEF Free, Slot
<1>3. r # NoCmd /\ NoUser \notin User
  BY UserAssumption DEF Cmd, NoCmd, NoUser
<1>4. ASSUME NEW x \in Conn
      PROVE  /\ conn'[x].unread # NoCmd =>
                  \/ conn'[x].ask = conn'[x].unread
                  \/ conn'[x].ask = NoCmd /\ conn'[x].type = "NOTIFY"
             /\ conn'[x].type = "PENDING" => sm'.pending # {}
  <2>1. CASE x = c
    BY <1>2, <2>1
  <2>2. CASE x # c
    BY <1>1, <1>2, <2>2 DEF Asks
  <2> QED BY <2>1, <2>2
<1>5. ASSUME NEW x \in Conn, NEW d \in Conn, NEW u \in User,
             x # d, conn'[x].ask.user = u
      PROVE  conn'[d].ask.user # u
  <2>1. CASE x = c
    BY <1>1, <1>2, <1>3, <1>5, <2>1
  <2>2. CASE d = c
    BY <1>1, <1>2, <1>3, <1>5, <2>2
  <2>3. CASE x # c /\ d # c
    BY <1>2, <1>5, <2>3 DEF Asks
  <2> QED BY <2>1, <2>2, <2>3
<1>6. ASSUME NEW x \in Conn, NEW d \in Conn, NEW u \in User,
             conn'[x].unread = Close(u), conn'[x].ask = NoCmd,
             conn'[d].ask = Open(u)
      PROVE  Behind(x, d)'
  <2>1. x # c
    BY <1>2, <1>3, <1>6
  <2>2. CASE d = c
    BY <1>1, <1>2, <2>2 DEF Behind
  <2>3. CASE d # c
    <3>1. Behind(x, d) /\ conn'[d] = conn[d]
      BY <1>2, <1>6, <2>1, <2>3 DEF Asks
    <3> QED BY <1>1, <3>1 DEF Behind
  <2> QED BY <2>2, <2>3
<1>7. Asks'
  BY <1>4, <1>5, <1>6 DEF Asks
<1>8. ASSUME NEW x \in Conn, NEW u \in User, conn'[x].unread = Close(u)
      PROVE  u \notin on'
  <2>1. CASE x = c
    <3>1. r.op = "close" /\ r.user = u
      BY <1>2, <1>8, <2>1, Commands
    <3> QED BY <1>1, <3>1
  <2>2. CASE x # c
    BY <1>1, <1>2, <1>8, <2>2 DEF Closing
  <2> QED BY <2>1, <2>2
<1>9. Held => Held'
  <2>1. \A x \in Conn : conn'[x].type \in CmdTypes => conn'[x] = conn[x]
    BY <1>2 DEF CmdTypes
  <2> QED BY <1>1, <2>1 DEF Held
<1> QED BY <1>7, <1>8, <1>9 DEF Closing

\* A round of select: who was behind a close is not read before it.
LEMMA RoundCounts ==
  ASSUME TypeOK, Asks, Closing, Round
  PROVE  Asks' /\ Closing' /\ (Held => Held')
<1>1. /\ ready = {} /\ sm' = sm /\ on' = on /\ conn \in [Conn -> Slot]
      /\ \A x \in Conn : x \in ready' <=> x \in Readable
  BY SelfAssumption DEF Round, Idle, TypeOK, Readable
<1>s. \A x \in Conn : /\ conn'[x].unread = conn[x].unread
                     /\ conn'[x].ask = conn[x].ask
                     /\ conn'[x].type \in {conn[x].type, "NOTIFY"}
  <2>1. CASE backlog = <<>>
    BY <2>1 DEF Round
  <2>2. CASE backlog # <<>>
    <3>1. Head(backlog) \in Conn
      BY <2>2 DEF TypeOK
    <3>2. conn' = [conn EXCEPT ![Head(backlog)].type = "NOTIFY"]
      BY <2>2 DEF Round
    <3> QED BY <1>1, <3>1, <3>2 DEF Slot
  <2> QED BY <2>1, <2>2
<1>2. \A x \in Conn : conn'[x].unread = conn[x].unread /\ conn'[x].ask = conn[x].ask
  BY <1>s
<1>t. \A x \in Conn : conn'[x].type \in {conn[x].type, "NOTIFY"}
  BY <1>s
<1>3. ASSUME NEW c \in Conn, NEW d \in Conn, NEW u \in User,
             conn'[c].unread = Close(u), conn'[c].ask = NoCmd,
             conn'[d].ask = Open(u)
      PROVE  Behind(c, d)'
  <2>1. conn[c].unread = Close(u) /\ conn[c].ask = NoCmd /\ conn[d].ask = Open(u)
    BY <1>2, <1>3
  <2>2. conn[c].type = "NOTIFY"
    BY <2>1, Commands DEF Asks
  <2>3. conn[d].type = "none"
    BY <2>1, <1>1 DEF Asks, Behind
  <2>4. c \in ready' /\ d \notin ready'
    BY <1>1, <2>1, <2>2, <2>3 DEF Readable
  <2> QED BY <1>t, <2>3, <2>4 DEF Behind
<1>4. Asks'
  <2>1. \A c \in Conn :
         /\ conn'[c].unread # NoCmd =>
              \/ conn'[c].ask = conn'[c].unread
              \/ conn'[c].ask = NoCmd /\ conn'[c].type = "NOTIFY"
         /\ conn'[c].type = "PENDING" => sm'.pending # {}
         /\ \A d \in Conn, u \in User :
              c # d /\ conn'[c].ask.user = u => conn'[d].ask.user # u
    BY <1>1, <1>2, <1>t DEF Asks
  <2> QED BY <2>1, <1>3 DEF Asks
<1>5. Closing'
  BY <1>1, <1>2 DEF Closing
<1>6. Held => Held'
  <2>1. \A x \in Conn : conn'[x].type \in CmdTypes => conn[x].type \in CmdTypes
    BY <1>t DEF CmdTypes
  <2> QED BY <1>1, <1>2, <2>1 DEF Held
<1> QED BY <1>4, <1>5, <1>6

\* A notification that clients take for the answer to a command not yet read
LEMMA NotifiedCounts ==
  ASSUME TypeOK, Asks, Closing, conn' = Notified(conn), ready' = ready,
         sm' = sm, on' = on
  PROVE  Asks' /\ Closing' /\ (Held => Held')
<1>1. \A x \in Conn : /\ conn'[x].unread = conn[x].unread /\ conn'[x].type = conn[x].type
                     /\ conn'[x].ask = IF conn[x].type = "NOTIFY" THEN NoCmd
                                                                 ELSE conn[x].ask
  BY DEF Notified, TypeOK, Slot
<1>2. ASSUME NEW c \in Conn, NEW d \in Conn, NEW u \in User,
             conn'[c].unread = Close(u), conn'[c].ask = NoCmd,
             conn'[d].ask = Open(u)
      PROVE  Behind(c, d)'
  <2>1. conn[c].unread = Close(u) /\ conn[d].ask = Open(u)
    BY <1>1, <1>2, Commands
  <2>2. conn[c].ask = NoCmd
    <3>1. conn[c].ask = Close(u) \/ conn[c].ask = NoCmd
      BY <2>1, Commands DEF Asks
    <3>2. conn[c].ask = Close(u) => c = d
      BY <2>1, Commands DEF Asks
    <3> QED BY <2>1, <3>1, <3>2, Commands
  <2>3. Behind(c, d)
    BY <2>1, <2>2 DEF Asks
  <2> QED BY <1>1, <2>3 DEF Behind
<1>3. Asks'
  <2>1. \A c \in Conn :
         /\ conn'[c].unread # NoCmd =>
              \/ conn'[c].ask = conn'[c].unread
              \/ conn'[c].ask = NoCmd /\ conn'[c].type = "NOTIFY"
         /\ conn'[c].type = "PENDING" => sm'.pending # {}
         /\ \A d \in Conn, u \in User :
              c # d /\ conn'[c].ask.user = u => conn'[d].ask.user # u
    BY <1>1, Commands DEF Asks
  <2> QED BY <2>1, <1>2 DEF Asks
<1>4. Closing'
  BY <1>1 DEF Closing
<1>5. Held => Held'
  BY <1>1, Commands DEF Held
<1> QED BY <1>3, <1>4, <1>5

(***************************************************************************)
(* The invariant                                                           *)
(***************************************************************************)
\* A step of the machine leaves what threads and CP2 do in order.
LEMMA StepControl ==
  ASSUME Control, NEW e, Moved(e), e.op = "ok" => srv = "up",
         srv' = "round", ~err', irq' = irq, cp2' = cp2, listen' = listen,
         loop' = loop
  PROVE  Control'
  BY DEF Control, Moved

\* An event of the machine that carries no user
LEMMA Events ==
  ASSUME NEW o, o \notin {"open", "close"}
  PROVE  /\ GoodEvent(Event(o)) /\ Event(o).op = o
         /\ Event(o).op \notin {"open", "close"} /\ Event(o).user \notin User
  BY UserAssumption DEF Event, GoodEvent, NoUser

\* The table is taken as it is when no connection is read.
LEMMA SelfTaken ==
  ASSUME ready' = ready
  PROVE  Came(conn, Self) /\ Taken(conn, Self) /\ Self \notin Conn
  BY SelfAssumption DEF Came, Taken

\* A command of a user is read.
LEMMA ReadUserCalm ==
  ASSUME TypeOK, CalmInv, NEW c \in Conn, ReadUser(c)
  PROVE  CalmInv'
<1> DEFINE r == conn[c].unread
           cn == [conn EXCEPT ![c] = [@ EXCEPT !.type = "CMD", !.unread = NoCmd]]
<1>1. /\ srv = "round" /\ srv' = "round" /\ todo' = todo /\ err' = err
      /\ c \in ready /\ ready' = ready \ {c} /\ irq' = irq /\ cp2' = cp2
      /\ listen' = listen /\ loop' = loop
      /\ r.op \in {"open", "close", "poweron", "poweroff"}
      /\ SmStep(r, c, cn, doing)
  BY DEF ReadUser, Reads, chip, others
<1>2. cn \in [Conn -> Slot] /\ Came(cn, c) /\ Taken(cn, c)
  BY <1>1 DEF TypeOK, Slot, Type, CmdTypes, Came, Taken
<1>3. r \in Cmd /\ r # NoCmd
  <2>1. r \in Cmd \cup {NoCmd}
    BY DEF TypeOK, Slot
  <2>2. r # NoCmd
    BY <1>1 DEF NoCmd
  <2> QED BY <2>1, <2>2
<1>4. /\ GoodEvent(r) /\ Timely(r)
      /\ r.op \notin {"open", "close"} => r.user \notin User
  BY <1>1, <1>3, UserAssumption DEF Cmd, GoodEvent, Timely, NoUser
<1>5. r.op = "close" => r.user \notin on
  <2>1. r.op = "close" => r.user \in User /\ r = Close(r.user)
    BY <1>3 DEF Cmd, Close
  <2> QED BY <2>1 DEF CalmInv, Closing
<1> HIDE DEF cn
<1>6. /\ Moved(r) /\ Asks' /\ Closing'
      /\ sm'.pending = {} => Held'
  BY <1>1, <1>2, <1>3, <1>4, <1>5, StepCounts
<1>7. selfq \in Seq(SelfCmds) /\ Control /\ OneJob /\ ~err
  BY <1>1 DEF TypeOK, CalmInv, Control
<1> HIDE DEF r
<1>8. Control'
  BY <1>1, <1>6, <1>7, StepControl
<1>9. OneJob'
  <2>1. Lone(todo)
    BY <1>7 DEF OneJob
  <2> QED BY <1>1, <1>6, <1>7, <2>1, StepOneJob DEF Busy
<1> QED BY <1>6, <1>8, <1>9 DEF CalmInv

\* An event comes through the socket pair.
LEMMA SelfEventCalm ==
  ASSUME TypeOK, CalmInv, SelfEvent
  PROVE  CalmInv'
<1> DEFINE o == IF Head(todo) = "cp2assert" THEN "assert" ELSE Head(todo)
<1>1. /\ srv = "round" /\ srv' = "round" /\ err' = err /\ ready' = ready
      /\ irq' = irq /\ cp2' = cp2 /\ listen' = listen /\ loop' = loop
      /\ todo # <<>> /\ todo' = Tail(todo)
      /\ Head(todo) \in {"pendingevent", "cp2assert", "poweron", "poweroff"}
      /\ SmStep(Event(o), Self, conn, doing)
  BY DEF SelfEvent, Takes, chip, others
<1>2. o \notin {"open", "close", "ok", "down"}
  BY <1>1
<1> HIDE DEF o
<1>3. /\ GoodEvent(Event(o)) /\ Timely(Event(o)) /\ Event(o).op \notin {"ok", "down"}
      /\ Event(o).op # "close" /\ Event(o).user \notin User
  BY <1>2, Events DEF Timely
<1>4. Came(conn, Self) /\ Taken(conn, Self) /\ Self \notin Conn
      /\ conn \in [Conn -> Slot]
  BY <1>1, SelfTaken DEF TypeOK
<1>5. /\ Moved(Event(o)) /\ Asks' /\ Closing'
      /\ sm'.pending = {} => Held'
  BY <1>1, <1>3, <1>4, StepCounts
<1>6. selfq \in Seq(SelfCmds) /\ todo \in Seq(SelfCmds) /\ Control /\ OneJob /\ ~err
  BY <1>1 DEF TypeOK, CalmInv, Control
<1>7. Control'
  BY <1>1, <1>3, <1>5, <1>6, StepControl
<1>8. OneJob'
  <2>1. /\ Lone(todo') /\ (HasJob(todo') => HasJob(todo))
        /\ For(todo, sm.state) => For(todo', sm.state)
    BY <1>1, <1>6, TailLone DEF OneJob
  <2> QED BY <1>1, <1>3, <1>5, <1>6, <2>1, StepOneJob DEF Busy
<1> QED BY <1>5, <1>7, <1>8 DEF CalmInv

\* The end of a start is told, or of a stop.
LEMMA EndCalm ==
  ASSUME TypeOK, CalmInv, NEW o \in {"ok", "down"},
         o = "ok" => Up, o = "down" => Down
  PROVE  CalmInv'
<1>1. SmStep(Event(o), Self, conn, doing)
  BY DEF Up, Down
<1>2. /\ srv \in Busy /\ srv' = "round" /\ todo' = todo /\ ready' = ready /\ irq' = irq
      /\ cp2' = cp2 /\ listen' = listen /\ loop' = loop
  BY DEF Up, Down, round, chip, others, Busy
<1>e. ~err'
  BY DEF Up, Down, CalmInv, Control
<1>3. /\ GoodEvent(Event(o)) /\ Event(o).op = o
      /\ Event(o).op # "close" /\ Event(o).user \notin User
  BY Events
<1>4. Timely(Event(o)) /\ (Event(o).op = "ok" => srv = "up")
  <2>1. o = "ok" => srv = "up" /\ sm.state = "STARTING"
    BY DEF Up, CalmInv, OneJob
  <2>2. o = "down" => sm.state = "STOPPING"
    BY DEF Down, CalmInv, OneJob
  <2> QED BY <1>3, <2>1, <2>2 DEF Timely
<1>5. Came(conn, Self) /\ Taken(conn, Self) /\ Self \notin Conn
      /\ conn \in [Conn -> Slot]
  BY <1>2, SelfTaken DEF TypeOK
<1>6. /\ Moved(Event(o)) /\ Asks' /\ Closing'
      /\ sm'.pending = {} => Held'
  BY <1>1, <1>3, <1>4, <1>5, StepCounts
<1>7. /\ selfq \in Seq(SelfCmds) /\ Control /\ OneJob
      /\ ~HasJob(selfq) /\ ~HasJob(todo)
  BY <1>2 DEF TypeOK, CalmInv, OneJob
<1>8. Control'
  BY <1>2, <1>e, <1>4, <1>6, <1>7, StepControl
<1>9. OneJob'
  <2>1. Lone(todo)
    BY <1>7, NoJobs
  <2>2. srv' \notin Busy
    BY <1>2 DEF Busy
  <2> QED BY <1>2, <1>6, <1>7, <2>1, <2>2, StepOneJob
<1> QED BY <1>6, <1>8, <1>9 DEF CalmInv

\* The other commands of clients, and the end of a dump
LEMMA ReadOtherCalm ==
  ASSUME TypeOK, CalmInv,
         Dumped \/ \E c \in Conn : ReadReset(c) \/ ReadDump(c) \/ ReadEnd(c)
  PROVE  CalmInv'
<1>1. /\ sm' = sm /\ selfq' = selfq /\ todo' = todo /\ on' = on /\ cp2' = cp2
      /\ irq' = irq /\ listen' = listen /\ loop' = loop
      /\ srv \in {"round", "dumping"} /\ srv' \in {"round", "dumping"}
      /\ err' => srv' = "dumping"
  BY DEF Dumped, ReadReset, ReadDump, ReadEnd, Reads, round, chip, others,
         CalmInv, Control
<1>2. Control'
  BY <1>1 DEF CalmInv, Control
<1>3. OneJob'
  BY <1>1 DEF CalmInv, OneJob, Busy
<1>4. Asks' /\ Closing' /\ (Held => Held')
  <2>f. Free.unread = NoCmd /\ Free.type \notin CmdTypes
    BY DEF Free, CmdTypes
  <2>1. ASSUME NEW c \in Conn, ReadReset(c) \/ ReadDump(c) \/ ReadEnd(c)
        PROVE  /\ ready' \subseteq ready /\ c \in ready /\ ready' = ready \ {c}
               /\ \A x \in Conn : x # c => conn'[x] = conn[x]
               /\ \/ conn'[c] = Free
                  \/ /\ conn'[c].unread = NoCmd /\ conn'[c].ask = conn[c].ask
                     /\ conn'[c].type = conn[c].type
    BY <2>1 DEF ReadReset, ReadDump, ReadEnd, Reads, TypeOK, Slot
  <2>2. ASSUME Dumped
        PROVE  /\ ready' = ready
               /\ \A x \in Conn : conn'[x] = Free \/ conn'[x] = conn[x]
    BY <2>2 DEF Dumped, round
  <2>3. /\ \A x \in Conn : Kept(x)
        /\ \A x \in Conn : conn'[x].type \in CmdTypes => conn[x].type \in CmdTypes
        /\ ready' \subseteq ready
        /\ \A x \in Conn : x \in ready /\ x \notin ready' => conn'[x].unread = NoCmd
    <3>1. CASE Dumped
      BY <2>f, <2>2, <3>1 DEF Kept
    <3>2. CASE \E c \in Conn : ReadReset(c) \/ ReadDump(c) \/ ReadEnd(c)
      BY <2>f, <2>1, <3>2 DEF Kept
    <3> QED BY <3>1, <3>2
  <2> QED BY <1>1, <2>3, KeptCounts DEF CalmInv
<1> QED BY <1>1, <1>2, <1>3, <1>4 DEF CalmInv

\* The client listen thread reads, takes and executes self commands.
LEMMA SelfCmdCalm ==
  ASSUME TypeOK, CalmInv, Calm', Calm,
         ReadSelf \/ SelfVersion \/ SelfReset \/ SelfStart \/ SelfStop
           \/ Opened \/ StopEnds
  PROVE  CalmInv'
<1>0. /\ selfq \in Seq(SelfCmds) /\ todo \in Seq(SelfCmds) /\ Control /\ OneJob
      /\ Asks /\ Closing
  BY DEF TypeOK, CalmInv
<1>1. /\ sm' = sm /\ on' = on /\ conn' = conn /\ err' = err /\ irq' = irq
      /\ listen' = listen /\ loop' = loop
  BY DEF ReadSelf, SelfVersion, SelfReset, SelfStart, SelfStop, Opened, StopEnds,
         smVars, round, chip, others
<1>2. Asks' /\ Closing' /\ (Held => Held')
  <2>1. \A x \in Conn : x \in ready => x \in ready'
    BY SelfAssumption DEF ReadSelf, SelfVersion, SelfReset, SelfStart, SelfStop,
       Opened, StopEnds, smVars, round
  <2>2. ready' \subseteq ready
    BY DEF ReadSelf, SelfVersion, SelfReset, SelfStart, SelfStop,
       Opened, StopEnds, smVars, round
  <2>3. \A x \in Conn : Kept(x)
    BY <1>1 DEF Kept
  <2> QED BY <1>0, <1>1, <2>1, <2>2, <2>3, KeptCounts
<1>3. Control' /\ OneJob'
  <2>1. CASE ReadSelf
    <3>1. /\ srv = "round" /\ srv' = srv /\ todo = <<>> /\ todo' = selfq
          /\ selfq' = <<>> /\ cp2' = cp2
      BY <2>1 DEF ReadSelf, chip
    <3>2. Lone(<<>>) /\ ~HasJob(<<>>) /\ For(<<>>, sm.state)
      BY DEF Lone, HasJob, For, Has
    <3>3. Control'
      BY <1>0, <1>1, <3>1 DEF Control
    <3>4. OneJob'
      BY <1>0, <1>1, <3>1, <3>2 DEF OneJob, Busy
    <3> QED BY <3>3, <3>4
  <2>2. CASE SelfVersion \/ SelfReset
    <3>1. /\ srv = "round" /\ srv' = srv /\ todo # <<>> /\ todo' = Tail(todo)
          /\ selfq' = selfq /\ cp2' = cp2
      BY <1>0, <2>2 DEF SelfVersion, SelfReset, Takes, smVars, chip, Control
    <3>2. /\ Lone(todo) => Lone(todo')
          /\ HasJob(todo') => HasJob(todo)
          /\ For(todo, sm.state) => For(todo', sm.state)
      BY <1>0, <3>1, TailLone
    <3>3. Control'
      BY <1>0, <1>1, <3>1 DEF Control
    <3>4. OneJob'
      BY <1>0, <1>1, <3>1, <3>2 DEF OneJob, Busy
    <3> QED BY <3>3, <3>4
  <2>3. CASE SelfStart \/ SelfStop
    <3>1. /\ srv = "round" /\ todo # <<>> /\ todo' = Tail(todo) /\ Head(todo) \in Jobs
          /\ srv' = IF Head(todo) = "startcp2" THEN "opening" ELSE "stopping"
          /\ selfq' = selfq /\ cp2' = cp2
      BY <2>3 DEF SelfStart, SelfStop, Takes, smVars, chip, Jobs
    <3>2. ~HasJob(todo') /\ HasJob(todo) /\ Has(todo, Head(todo))
      BY <1>0, <3>1, TailLone DEF OneJob
    <3>3. Lone(todo') /\ For(todo', sm.state)
      BY <3>2, NoJobs
    <3>4. /\ Head(todo) = "startcp2" => sm.state = "STARTING"
          /\ Head(todo) = "stopcp2" => sm.state = "STOPPING"
      BY <1>0, <3>2 DEF OneJob, For
    <3>5. Control'
      BY <1>0, <1>1, <3>1 DEF Control
    <3>6. OneJob'
      BY <1>0, <1>1, <3>1, <3>2, <3>3, <3>4 DEF OneJob, Jobs, Busy
    <3> QED BY <3>5, <3>6
  <2>4. CASE Opened \/ StopEnds
    <3>1. /\ selfq' = selfq /\ todo' = todo
          /\ \/ srv = "opening" /\ srv' = "up" /\ cp2' = "alive"
             \/ srv = "stopping" /\ srv' = "down"
      BY <2>4 DEF Opened, StopEnds, Fault, Calm, smVars, round, TypeOK
    <3>2. sm.state # "STARTED"
      BY <1>0, <3>1 DEF OneJob
    <3>3. Control'
      BY <1>0, <1>1, <3>1, <3>2 DEF Control
    <3>4. OneJob'
      BY <1>0, <1>1, <3>1 DEF OneJob, Busy
    <3> QED BY <3>3, <3>4
  <2> QED BY <2>1, <2>2, <2>3, <2>4
<1> QED BY <1>1, <1>2, <1>3 DEF CalmInv

\* The loop check thread finds CP2 alive; at its start it may take the flag of a
\* dump for an assert.  The boot thread only sends commands to the machine.
LEMMA ThreadCalm ==
  ASSUME TypeOK, CalmInv, Loop \/ Main
  PROVE  CalmInv'
<1>0. selfq \in Seq(SelfCmds) /\ Control /\ OneJob /\ Asks /\ Closing
  BY DEF TypeOK, CalmInv
<1>1. /\ sm' = sm /\ on' = on /\ todo' = todo /\ srv' = srv /\ ready' = ready
      /\ cp2' = cp2 /\ irq' = irq /\ listen' = listen
  BY DEF Loop, Main, ToClients, Report, SelfCmd, smVars, round, chip
<1>2. /\ err' => err
      /\ loop' # "sleep"
  <2>1. CASE Loop
    <3>1. CASE loop = "boot"
      <4>1. PICK enabled \in ResetModes :
              /\ loop' = IF err /\ ~doing /\ enabled THEN "check" ELSE "poll"
              /\ err' = (err \/ loop' = "check")
        BY <2>1, <3>1 DEF Loop
      <4>2. loop' \in {"check", "poll"} /\ (loop' = "check" => err)
        BY <4>1
      <4> QED BY <4>1, <4>2
    <3>2. CASE loop # "boot"
      <4>1. loop # "sleep" /\ ~(sm.state = "STARTED" /\ cp2 # "alive")
        BY <1>0 DEF Control
      <4>2. err' = err /\ loop' \in {"poll", "send", "notify"}
        BY <2>1, <3>2, <4>1 DEF Loop, ToClients
      <4> QED BY <4>2
    <3> QED BY <3>1, <3>2
  <2>2. CASE Main
    BY <1>0, <2>2 DEF Main, Control
  <2> QED BY <2>1, <2>2
<1>3. Control'
  BY <1>0, <1>1, <1>2 DEF Control
<1>4. selfq' = selfq \/ \E k \in SelfCmds \ Jobs : selfq' = Append(selfq, k)
  BY DEF Loop, Main, ToClients, Report, SelfCmd, SelfCmds, Jobs, smVars
<1>5. OneJob'
  <2>1. CASE selfq' = selfq
    BY <1>0, <1>1, <2>1 DEF OneJob
  <2>2. ASSUME NEW k \in SelfCmds \ Jobs, selfq' = Append(selfq, k) PROVE OneJob'
    <3>1. Lone(selfq') /\ (HasJob(selfq') => HasJob(selfq))
      BY <1>0, <2>2, AppendLone DEF OneJob
    <3>2. For(selfq', sm.state)
      BY <1>0, <2>2, AppendLone DEF OneJob, Jobs
    <3> QED BY <1>0, <1>1, <3>1, <3>2 DEF OneJob
  <2> QED BY <1>4, <2>1, <2>2
<1>6. Asks' /\ Closing' /\ (Held => Held')
  <2>1. conn' = conn \/ conn' = Notified(conn)
    BY DEF Loop, Main, ToClients, Told, Report, SelfCmd, smVars
  <2> QED BY <1>0, <1>1, <2>1, IdleCounts, NotifiedCounts
<1> QED BY <1>1, <1>3, <1>5, <1>6 DEF CalmInv

\* What no step does while nothing fails: CP2 does not die, nothing resets it,
\* and no client gives up.
LEMMA NoFaults ==
  ASSUME TypeOK, Calm', Calm, Control,
         \/ Die \/ Recovered \/ Rebooted \/ Listen
         \/ \E c \in Conn : GiveUp(c)
  PROVE  FALSE
<1>1. ~Fault
  BY DEF Fault, Calm, TypeOK
<1> QED BY <1>1 DEF Die, Recovered, Rebooted, Listen, GiveUp, Control

\* A failure is not forgotten.
LEMMA CalmBefore == TypeOK /\ [Next]_vars /\ Calm' => Calm
<1> SUFFICES ASSUME TypeOK, [Next]_vars, Calm' PROVE Calm
  OBVIOUS
<1>1. faults \in Nat
  BY DEF TypeOK, BoundsAssumption
<1>2. faults' = faults \/ faults' = faults + 1
  BY DEF Next, Env, Connect, GiveUp, Die, Fault, ClientListen, Round, ReadUser,
     ReadReset, ReadDump, ReadEnd, Dumped, ReadSelf, SelfEvent, SelfVersion,
     SelfStart, Opened, SelfStop, StopEnds, SelfReset, Recovered, Rebooted, Up,
     Down, Listen, Loop, Main, vars
<1> QED BY <1>1, <1>2 DEF Calm

\* Every step keeps the invariant while nothing fails.
LEMMA CalmNext == TypeOK /\ CalmInv /\ Calm /\ Calm' /\ [Next]_vars => CalmInv'
<1> SUFFICES ASSUME TypeOK, CalmInv, Calm, Calm', [Next]_vars PROVE CalmInv'
  OBVIOUS
<1>0. Control /\ OneJob /\ Asks /\ Closing
  BY DEF CalmInv
<1>1. CASE \E c \in Conn : \E r \in Requests[c] : Connect(c, r)
  <2>0. PICK c \in Conn : \E r \in Requests[c] : Connect(c, r)
    BY <1>1
  <2>1. PICK r \in Requests[c] : Connect(c, r)
    BY <2>0
  <2>2. r \in Cmd
    BY RequestsAssumption
  <2>3. Asks' /\ Closing' /\ (Held => Held')
    BY <1>0, <2>1, <2>2, ConnectCounts
  <2>4. /\ UNCHANGED <<sm, selfq, todo, srv, err, irq, cp2, listen, loop>>
    BY <2>1 DEF Connect, chip
  <2> QED BY <1>0, <2>3, <2>4 DEF CalmInv, Control, OneJob
<1>2. CASE Round
  <2>1. Asks' /\ Closing' /\ (Held => Held')
    BY <1>0, <1>2, RoundCounts
  <2>2. /\ UNCHANGED <<sm, selfq, todo, srv, err, irq, cp2, listen, loop>>
    BY <1>2 DEF Round, chip, others
  <2> QED BY <1>0, <2>1, <2>2 DEF CalmInv, Control, OneJob
<1>3. CASE UNCHANGED vars
  <2>1. Asks' /\ Closing' /\ (Held => Held')
    BY <1>3, IdleCounts DEF vars
  <2>2. /\ UNCHANGED <<sm, selfq, todo, srv, err, irq, cp2, listen, loop>>
    BY <1>3 DEF vars
  <2> QED BY <1>0, <2>1, <2>2 DEF CalmInv, Control, OneJob
<1>4. CASE \E c \in Conn : ReadUser(c)
  BY <1>4, ReadUserCalm
<1>5. CASE SelfEvent
  BY <1>5, SelfEventCalm
<1>6. CASE Up
  BY <1>6, EndCalm
<1>7. CASE Down
  BY <1>7, EndCalm
<1>8. CASE Dumped \/ \E c \in Conn : ReadReset(c) \/ ReadDump(c) \/ ReadEnd(c)
  BY <1>8, ReadOtherCalm
<1>9. CASE \/ ReadSelf \/ SelfVersion \/ SelfReset \/ SelfStart \/ SelfStop
           \/ Opened \/ StopEnds
  BY <1>9, SelfCmdCalm
<1>10. CASE Loop \/ Main
  BY <1>10, ThreadCalm
<1>11. CASE \/ Die \/ Recovered \/ Rebooted \/ Listen
            \/ \E c \in Conn : GiveUp(c)
  BY <1>0, <1>11, NoFaults
<1> QED
  BY <1>1, <1>2, <1>3, <1>4, <1>5, <1>6, <1>7, <1>8, <1>9, <1>10, <1>11
     DEF Next, Env, ClientListen

\* The invariant holds at first.
LEMMA CalmInit == Init => CalmInv
<1> SUFFICES ASSUME Init PROVE CalmInv
  OBVIOUS
<1>1. /\ sm = [state |-> "STOPPED", btwifi |-> {}, saved |-> {}, pending |-> {},
              notify |-> FALSE]
      /\ conn = [c \in Conn |-> Free] /\ selfq = <<>> /\ on = {} /\ todo = <<>>
      /\ srv = "round" /\ ~err /\ ~irq /\ listen = "select" /\ loop # "sleep"
  BY DEF Init, SmInit
<1>2. Control
  BY <1>1 DEF Control
<1>3. OneJob
  BY <1>1 DEF OneJob, Lone, HasJob, For, Has, Busy
<1>4. \A c \in Conn : /\ conn[c].unread = NoCmd /\ conn[c].ask = NoCmd
                     /\ conn[c].type = "none"
  BY <1>1 DEF Free
<1>5. \A u \in User : Open(u) # NoCmd /\ Close(u) # NoCmd /\ NoCmd.user # u
  BY Commands
<1>6. Asks /\ Closing
  BY <1>4, <1>5 DEF Asks, Closing
<1>7. Held
  BY <1>1, <1>4, <1>5 DEF Held
<1> QED BY <1>2, <1>3, <1>6, <1>7 DEF CalmInv

\* While nothing fails and no open comes during a stop, a user whose open was
\* answered OK and that has not asked for its close is counted in btwifi_state,
\* and the machine does not stop CP2 (wcnd_sm.c:352-375).
THEOREM OpenUsersPowered == Spec => []OpenMeansPowered
<1>1. Init => (Calm => CalmInv)
  BY CalmInit
<1>2. TypeOK /\ (Calm => CalmInv) /\ [Next]_vars => (Calm => CalmInv)'
  BY CalmNext, CalmBefore
<1>3. TypeOK /\ (Calm => CalmInv) => OpenMeansPowered
  BY DEF OpenMeansPowered, CalmInv, Held
<1> QED BY TypeInit, TypeNext, <1>1, <1>2, <1>3, PTL DEF Spec
=============================================================================
