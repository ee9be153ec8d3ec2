---------------------------- MODULE WcndProofs ----------------------------
(***************************************************************************)
(* Theorems about Wcnd, for every set of users and connections, whatever   *)
(* clients ask for, and with any number of failures.                       *)
(***************************************************************************)
EXTENDS Wcnd, TLAPS

\* What the machine is stepped with: an event of a client, of a self command,
\* or the end of a start, a stop or a reset.
GoodEvent(e) == e.op \in {"open", "close"} => e.user \in User

\* An unused slot is a slot.
LEMMA FreeIsSlot == Free \in Slot
  BY DEF Free, Slot, Type

\* A new type of one connection keeps the table's type.
LEMMA RetypeSlots ==
  ASSUME NEW cn \in [Conn -> Slot], NEW c, NEW type \in Type
  PROVE  Retype(cn, c, type) \in [Conn -> Slot]
  BY DEF Retype, Slot

\* So does an answer; only users are then counted as open.
LEMMA AnswerSlots ==
  ASSUME NEW cn \in [Conn -> Slot], NEW T, NEW ok, on \subseteq User,
         Answer(cn, T, ok)
  PROVE  conn' \in [Conn -> Slot] /\ on' \subseteq User
  BY FreeIsSlot DEF Answer

\* So does a notification.
LEMMA NotifiedSlots ==
  ASSUME NEW cn \in [Conn -> Slot]
  PROVE  Notified(cn) \in [Conn -> Slot]
  BY DEF Notified, Slot

\* So does a step that answers nobody.
LEMMA SilentSlots ==
  ASSUME NEW cn \in [Conn -> Slot], on \subseteq User, Silent(cn)
  PROVE  conn' \in [Conn -> Slot] /\ on' \subseteq User
  BY DEF Silent

\* A self command appended to the queue keeps its type.
LEMMA SelfCmdQueued ==
  ASSUME NEW cmd \in SelfCmds, selfq \in Seq(SelfCmds), SelfCmd(cmd)
  PROVE  selfq' \in Seq(SelfCmds)
  BY DEF SelfCmd

\* A change of one field, or of two, keeps the type of the machine.
LEMMA MachineUpdates ==
  ASSUME NEW m \in Machine, NEW S \in SUBSET User, NEW b \in BOOLEAN,
         NEW st \in {"STOPPED", "STARTING", "STARTED", "ASSERT", "STOPPING"}
  PROVE  /\ [m EXCEPT !.notify = b] \in Machine
         /\ [m EXCEPT !.btwifi = S] \in Machine
         /\ [m EXCEPT !.saved = S] \in Machine
         /\ [m EXCEPT !.state = st] \in Machine
         /\ [m EXCEPT !.state = st, !.notify = b] \in Machine
         /\ [m EXCEPT !.state = st, !.btwifi = S] \in Machine
         /\ [m EXCEPT !.btwifi = S, !.state = st] \in Machine
         /\ [m EXCEPT !.saved = S, !.state = st] \in Machine
  BY DEF Machine

\* The five handlers keep the types, one lemma each: wcn_state_cp2_stopped ...
LEMMA StoppedType ==
  ASSUME NEW e, NEW cn \in [Conn -> Slot], GoodEvent(e),
         sm \in Machine, selfq \in Seq(SelfCmds), on \subseteq User,
         Stopped(e, cn)
  PROVE  /\ sm' \in Machine /\ conn' \in [Conn -> Slot]
         /\ selfq' \in Seq(SelfCmds) /\ on' \subseteq User
<1> DEFINE m == [sm EXCEPT !.notify = FALSE]
<1>a. m \in Machine
  BY DEF Machine
<1>1. sm' \in Machine
  <2>1. CASE e.op = "open"
    <3>1. sm' = [m EXCEPT !.state = "STARTING", !.btwifi = @ \cup Bit(e)]
      BY <2>1 DEF Stopped
    <3> QED BY <3>1, <1>a DEF Machine, Bit
  <2>2. CASE e.op \in {"poweron", "pendingevent"}
    <3> DEFINE held == IF e.op = "pendingevent"
                       THEN sm.btwifi \cup (sm.pending \cap User) ELSE sm.btwifi
    <3>1. \/ sm' = m
          \/ sm' = [m EXCEPT !.state = "STARTING", !.btwifi = held]
      BY <2>2 DEF Stopped
    <3>2. held \subseteq User
      BY DEF Machine
    <3> QED BY <3>1, <3>2, <1>a DEF Machine
  <2>3. CASE e.op \in {"close", "poweroff", "ok", "down", "assert"}
    <3>1. sm' = m \/ sm' = [m EXCEPT !.state = "STARTED", !.notify = TRUE]
      BY <2>3 DEF Stopped
    <3> QED BY <3>1, <1>a DEF Machine
  <2> QED BY <2>1, <2>2, <2>3 DEF Stopped
<1>2. selfq' \in Seq(SelfCmds)
  BY SelfCmdQueued DEF Stopped, SelfCmds
<1>3. conn' \in [Conn -> Slot] /\ on' \subseteq User
  BY AnswerSlots, SilentSlots DEF Stopped
<1> QED BY <1>1, <1>2, <1>3

\* wcn_state_cp2_starting
LEMMA StartingType ==
  ASSUME NEW e, NEW cn \in [Conn -> Slot], GoodEvent(e),
         sm \in Machine, selfq \in Seq(SelfCmds), on \subseteq User,
         Starting(e, cn)
  PROVE  /\ sm' \in Machine /\ conn' \in [Conn -> Slot]
         /\ selfq' \in Seq(SelfCmds) /\ on' \subseteq User
<1> DEFINE m == [sm EXCEPT !.notify = FALSE]
<1>a. m \in Machine
  BY DEF Machine
<1>1. sm' \in Machine
  <2>1. \/ sm' = m
        \/ sm' = [m EXCEPT !.btwifi = m.btwifi \cup Bit(e)]
        \/ sm' = [m EXCEPT !.state = "STARTED", !.notify = TRUE]
        \/ sm' = [m EXCEPT !.state = "STOPPED"]
    BY DEF Starting
  <2>2. m.btwifi \cup Bit(e) \in SUBSET User
    BY <1>a DEF Machine, Bit
  <2> HIDE DEF m
  <2>3. /\ [m EXCEPT !.btwifi = m.btwifi \cup Bit(e)] \in Machine
        /\ [m EXCEPT !.state = "STARTED", !.notify = TRUE] \in Machine
        /\ [m EXCEPT !.state = "STOPPED"] \in Machine
    BY <2>2, <1>a, MachineUpdates
  <2> QED BY <2>1, <2>3, <1>a
<1>2. selfq' \in Seq(SelfCmds)
  BY DEF Starting
<1>3. conn' \in [Conn -> Slot] /\ on' \subseteq User
  BY AnswerSlots, SilentSlots DEF Starting
<1> QED BY <1>1, <1>2, <1>3

\* wcn_state_cp2_started
LEMMA StartedType ==
  ASSUME NEW e, NEW cn \in [Conn -> Slot], GoodEvent(e),
         sm \in Machine, selfq \in Seq(SelfCmds), on \subseteq User,
         Started(e, cn)
  PROVE  /\ sm' \in Machine /\ conn' \in [Conn -> Slot]
         /\ selfq' \in Seq(SelfCmds) /\ on' \subseteq User
<1> DEFINE m == [sm EXCEPT !.notify = TRUE]
<1>a. m \in Machine
  BY DEF Machine
<1>1. sm' \in Machine
  <2>1. CASE e.op \in {"close", "poweroff"}
    <3>1. \/ sm' = [m EXCEPT !.saved = m.saved \ {e.user}]
          \/ sm' = [m EXCEPT !.btwifi = m.btwifi \ {e.user}]
          \/ sm' = [m EXCEPT !.btwifi = {}, !.state = "STOPPING"]
      BY <2>1 DEF Started
    <3>2. m.saved \ {e.user} \in SUBSET User /\ m.btwifi \ {e.user} \in SUBSET User
      BY <1>a DEF Machine
    <3> HIDE DEF m
    <3>3. /\ [m EXCEPT !.saved = m.saved \ {e.user}] \in Machine
          /\ [m EXCEPT !.btwifi = m.btwifi \ {e.user}] \in Machine
      BY <3>2, <1>a, MachineUpdates
    <3>4. [m EXCEPT !.btwifi = {}, !.state = "STOPPING"] \in Machine
      BY <1>a, MachineUpdates
    <3> QED BY <3>1, <3>3, <3>4
  <2>2. CASE e.op \in {"open", "poweron"}
    <3>1. sm' = [m EXCEPT !.btwifi = @ \cup Bit(e)]
      BY <2>2 DEF Started
    <3> QED BY <3>1, <1>a DEF Machine, Bit
  <2>3. CASE e.op \in {"assert", "down", "ok", "pendingevent"}
    <3>1. \/ sm' = m \/ sm' = [m EXCEPT !.state = "STOPPED"]
          \/ sm' = [m EXCEPT !.saved = sm.btwifi, !.state = "ASSERT"]
      BY <2>3 DEF Started
    <3> QED BY <3>1, <1>a DEF Machine
  <2> QED BY <2>1, <2>2, <2>3 DEF Started
<1>2. selfq' \in Seq(SelfCmds)
  BY SelfCmdQueued DEF Started, SelfCmds
<1>3. conn' \in [Conn -> Slot] /\ on' \subseteq User
  BY AnswerSlots, SilentSlots DEF Started
<1> QED BY <1>1, <1>2, <1>3

\* wcn_state_cp2_assert
LEMMA InAssertType ==
  ASSUME NEW e, NEW from, NEW cn \in [Conn -> Slot], NEW d, GoodEvent(e),
         sm \in Machine, selfq \in Seq(SelfCmds), on \subseteq User,
         InAssert(e, from, cn, d)
  PROVE  /\ sm' \in Machine /\ conn' \in [Conn -> Slot]
         /\ selfq' \in Seq(SelfCmds) /\ on' \subseteq User
<1> DEFINE m == [sm EXCEPT !.notify = TRUE]
<1>a. m \in Machine
  BY DEF Machine
<1>1. sm' \in Machine
  <2>1. \/ sm' = m
        \/ sm' = [m EXCEPT !.saved = m.saved \ {e.user}]
        \/ sm' = [m EXCEPT !.btwifi = m.btwifi \cup Bit(e)]
        \/ sm' = [m EXCEPT !.state = "STARTED"]
        \/ sm' = [m EXCEPT !.state = "STOPPED"]
    BY DEF InAssert
  <2>2. m.btwifi \cup Bit(e) \in SUBSET User /\ m.saved \ {e.user} \in SUBSET User
    BY <1>a DEF Machine, Bit
  <2> HIDE DEF m
  <2>3. /\ [m EXCEPT !.saved = m.saved \ {e.user}] \in Machine
        /\ [m EXCEPT !.btwifi = m.btwifi \cup Bit(e)] \in Machine
    BY <2>2, <1>a, MachineUpdates
  <2>4. /\ [m EXCEPT !.state = "STARTED"] \in Machine
        /\ [m EXCEPT !.state = "STOPPED"] \in Machine
    BY <1>a, MachineUpdates
  <2> QED BY <2>1, <2>3, <2>4, <1>a
<1>2. selfq' \in Seq(SelfCmds)
  BY DEF InAssert
<1>3. /\ Retype(cn, from, "CLOSE") \in [Conn -> Slot]
      /\ Retype(cn, from, "OPEN") \in [Conn -> Slot]
  BY RetypeSlots DEF Type, CmdTypes
<1>4. conn' \in [Conn -> Slot] /\ on' \subseteq User
  <2>1. CASE e.op = "close" \/ e.op \in {"ok", "down"}
    BY <2>1, <1>3, AnswerSlots DEF InAssert
  <2>2. CASE e.op \in {"open", "assert", "pendingevent"}
    BY <2>2, <1>3, SilentSlots DEF InAssert
  <2>3. CASE e.op \in {"poweron", "poweroff"}
    BY <2>3, FreeIsSlot DEF InAssert
  <2> QED BY <2>1, <2>2, <2>3 DEF InAssert
<1> QED BY <1>1, <1>2, <1>4

\* wcn_state_cp2_stopping
LEMMA StoppingType ==
  ASSUME NEW e, NEW from, NEW cn \in [Conn -> Slot], GoodEvent(e),
         sm \in Machine, selfq \in Seq(SelfCmds), on \subseteq User,
         Stopping(e, from, cn)
  PROVE  /\ sm' \in Machine /\ conn' \in [Conn -> Slot]
         /\ selfq' \in Seq(SelfCmds) /\ on' \subseteq User
<1> DEFINE m == [sm EXCEPT !.notify = FALSE]
<1>a. m \in Machine
  BY DEF Machine
<1>1. sm' \in Machine
  <2>1. CASE e.op \in {"open", "poweron"}
    <3> DEFINE p == IF e.op = "open" THEN e.user ELSE "poweron"
    <3>1. sm' = [m EXCEPT !.pending = @ \cup {p}]
      BY <2>1 DEF Stopping
    <3>2. p \in User \cup {"poweron"}
      BY <2>1 DEF GoodEvent
    <3> QED BY <3>1, <3>2, <1>a DEF Machine
  <2>2. CASE e.op \notin {"open", "poweron"}
    <3>1. sm' = m \/ sm' = [m EXCEPT !.state = "STOPPED"]
      BY <2>2 DEF Stopping
    <3> QED BY <3>1, <1>a DEF Machine
  <2> QED BY <2>1, <2>2
<1>2. selfq' \in Seq(SelfCmds)
  BY SelfCmdQueued DEF Stopping, SelfCmds
<1>3. Retype(cn, from, "PENDING") \in [Conn -> Slot]
  BY RetypeSlots DEF Type
<1>4. conn' \in [Conn -> Slot] /\ on' \subseteq User
  BY <1>3, AnswerSlots, SilentSlots DEF Stopping
<1> QED BY <1>1, <1>2, <1>4

\* A step of the machine keeps the types.
LEMMA SmStepType ==
  ASSUME NEW e, NEW from, NEW cn \in [Conn -> Slot], NEW d, GoodEvent(e),
         sm \in Machine, selfq \in Seq(SelfCmds), on \subseteq User,
         SmStep(e, from, cn, d)
  PROVE  /\ sm' \in Machine /\ conn' \in [Conn -> Slot]
         /\ selfq' \in Seq(SelfCmds) /\ on' \subseteq User
  BY StoppedType, StartingType, StartedType, InAssertType, StoppingType
     DEF SmStep

(***************************************************************************)
(* Types                                                                   *)
(***************************************************************************)
\* The first values of the variables are of their types.
LEMMA TypeInit == Init => TypeOK
<1> SUFFICES ASSUME Init PROVE TypeOK
  OBVIOUS
<1>1. sm \in Machine /\ conn \in [Conn -> Slot]
  BY FreeIsSlot DEF Init, SmInit, Machine
<1>2. selfq \in Seq(SelfCmds) /\ todo \in Seq(SelfCmds) /\ backlog \in Seq(Conn)
  BY DEF Init, SmInit
<1>3. asked \in 0..bound.requests /\ faults \in 0..bound.faults
  BY BoundsAssumption DEF Init
<1> QED BY <1>1, <1>2, <1>3 DEF Init, SmInit, TypeOK

\* Every step keeps them; one step per action.
LEMMA TypeNext == TypeOK /\ [Next]_vars => TypeOK'
<1> SUFFICES ASSUME TypeOK, [Next]_vars PROVE TypeOK'
  OBVIOUS
<1> USE DEF TypeOK, others, chip, round
<1>0. bound.requests \in Nat /\ bound.faults \in Nat
  BY BoundsAssumption
<1>f. Fault => faults' \in 0..bound.faults
  BY <1>0 DEF Fault
<1>s. ASSUME NEW c \in Conn PROVE [conn EXCEPT ![c] = Free] \in [Conn -> Slot]
  BY FreeIsSlot
<1>t. Told => conn' \in [Conn -> Slot]
  BY NotifiedSlots DEF Told
<1>u. UNCHANGED smVars => sm' = sm /\ conn' = conn /\ selfq' = selfq /\ on' = on
  BY DEF smVars
<1>h. todo # <<>> => Head(todo) \in SelfCmds /\ Tail(todo) \in Seq(SelfCmds)
  OBVIOUS
<1>1. ASSUME NEW c \in Conn, NEW r \in Requests[c], Connect(c, r) PROVE TypeOK'
  <2>1. r \in Cmd
    BY RequestsAssumption
  <2>2. conn' \in [Conn -> Slot]
    BY <1>1, <2>1 DEF Connect, Slot
  <2>3. backlog' \in Seq(Conn) /\ on' \subseteq User
    BY <1>1 DEF Connect
  <2>4. asked' \in 0..bound.requests
    BY <1>1, <1>0 DEF Connect
  <2> QED BY <1>1, <2>2, <2>3, <2>4 DEF Connect
<1>2. ASSUME NEW c \in Conn, GiveUp(c) PROVE TypeOK'
  <2>1. conn' \in [Conn -> Slot]
    BY <1>2 DEF GiveUp, Slot
  <2> QED BY <1>2, <2>1, <1>f DEF GiveUp
<1>3. CASE Die
  <2>1. UNCHANGED <<smVars, round, srv, doing, err, others>> /\ cp2' = "dead"
        /\ irq' \in BOOLEAN
    BY <1>3 DEF Die
  <2> QED BY <1>3, <2>1, <1>f, <1>u DEF Die
<1>4. CASE Round
  <2>1. ready' \subseteq Conn \cup {Self}
    BY <1>4 DEF Round, Readable
  <2>2. backlog' \in Seq(Conn) /\ conn' \in [Conn -> Slot]
    <3>1. CASE backlog = <<>>
      BY <1>4, <3>1 DEF Round
    <3>2. CASE backlog # <<>>
      <4>1. Head(backlog) \in Conn /\ Tail(backlog) \in Seq(Conn)
        BY <3>2
      <4>2. conn' = [conn EXCEPT ![Head(backlog)].type = "NOTIFY"]
            /\ backlog' = Tail(backlog)
        BY <1>4, <3>2 DEF Round
      <4> QED BY <4>1, <4>2 DEF Slot, Type
    <3> QED BY <3>1, <3>2
  <2> QED BY <1>4, <2>1, <2>2 DEF Round
<1>5. ASSUME NEW c \in Conn, ReadUser(c) PROVE TypeOK'
  <2> DEFINE r  == conn[c].unread
             cn == [conn EXCEPT ![c] = [@ EXCEPT !.type = "CMD", !.unread = NoCmd]]
  <2>1. cn \in [Conn -> Slot]
    BY DEF Slot, Type, CmdTypes
  <2>2. r \in Cmd \cup {NoCmd}
    BY DEF Slot
  <2>3. GoodEvent(r)
    BY <2>2 DEF GoodEvent, Cmd, NoCmd
  <2>4. SmStep(r, c, cn, doing)
    BY <1>5 DEF ReadUser
  <2> HIDE DEF r, cn
  <2>5. /\ sm' \in Machine /\ conn' \in [Conn -> Slot]
        /\ selfq' \in Seq(SelfCmds) /\ on' \subseteq User
    BY <2>1, <2>3, <2>4, SmStepType
  <2> QED BY <1>5, <2>5 DEF ReadUser, Reads
<1>6. ASSUME NEW c \in Conn, ReadReset(c) PROVE TypeOK'
  BY <1>6, <1>s DEF ReadReset, Reads
<1>7. ASSUME NEW c \in Conn, ReadDump(c) PROVE TypeOK'
  <2>1. conn' \in [Conn -> Slot]
    BY <1>7 DEF ReadDump, Slot
  <2> QED BY <1>7, <2>1 DEF ReadDump, Reads
<1>8. CASE Dumped
  BY <1>8, FreeIsSlot DEF Dumped
<1>9. ASSUME NEW c \in Conn, ReadEnd(c) PROVE TypeOK'
  BY <1>9, <1>s DEF ReadEnd, Reads
<1>10. CASE ReadSelf
  BY <1>10 DEF ReadSelf
<1>11. CASE SelfEvent
  <2> DEFINE e == Event(IF Head(todo) = "cp2assert" THEN "assert" ELSE Head(todo))
  <2>1. GoodEvent(e)
    BY <1>11 DEF SelfEvent, Takes, GoodEvent, Event
  <2>2. SmStep(e, Self, conn, doing)
    BY <1>11 DEF SelfEvent
  <2> HIDE DEF e
  <2>3. /\ sm' \in Machine /\ conn' \in [Conn -> Slot]
        /\ selfq' \in Seq(SelfCmds) /\ on' \subseteq User
    BY <2>1, <2>2, SmStepType
  <2> QED BY <1>11, <1>h, <2>3 DEF SelfEvent, Takes
<1>12. CASE SelfVersion \/ SelfStart \/ SelfStop \/ SelfReset
  <2>1. UNCHANGED smVars /\ todo' \in Seq(SelfCmds)
    BY <1>12, <1>h DEF SelfVersion, SelfStart, SelfStop, SelfReset, Takes
  <2>2. CASE SelfVersion
    BY <2>1, <2>2, <1>u DEF SelfVersion, Takes
  <2>3. CASE SelfStart
    BY <2>1, <2>3, <1>u DEF SelfStart, Takes
  <2>4. CASE SelfStop
    BY <2>1, <2>4, <1>u DEF SelfStop, Takes
  <2>5. CASE SelfReset
    BY <2>1, <2>5, <1>u DEF SelfReset, Takes
  <2> QED BY <1>12, <2>2, <2>3, <2>4, <2>5
<1>13. CASE Opened \/ StopEnds
  <2>1. CASE Opened
    BY <2>1, <1>f, <1>u DEF Opened
  <2>2. CASE StopEnds
    BY <2>2, <1>f, <1>u DEF StopEnds
  <2> QED BY <1>13, <2>1, <2>2
<1>14. CASE Recovered
  <2>1. srv' \in {"rebooting", "down"} /\ doing' \in BOOLEAN
    BY <1>14 DEF Recovered
  <2>2. conn' \in [Conn -> Slot]
    BY <1>14, <1>t DEF Recovered
  <2> QED BY <1>14, <2>1, <2>2 DEF Recovered
<1>15. CASE Rebooted
  BY <1>15, <1>t, <1>f DEF Rebooted
<1>16. CASE Up \/ Down
  <2>1. GoodEvent(Event("ok")) /\ GoodEvent(Event("down"))
    BY DEF GoodEvent, Event
  <2>2. /\ sm' \in Machine /\ conn' \in [Conn -> Slot]
        /\ selfq' \in Seq(SelfCmds) /\ on' \subseteq User
    BY <1>16, <2>1, SmStepType DEF Up, Down
  <2>3. CASE Up
    BY <2>2, <2>3 DEF Up
  <2>4. CASE Down
    BY <2>2, <2>4 DEF Down
  <2> QED BY <1>16, <2>3, <2>4
<1>17. CASE Listen
  <2>1. CASE listen = "sleep"
    <3>1. selfq' \in Seq(SelfCmds)
      BY <1>17, <2>1, SelfCmdQueued DEF Listen, Report, SelfCmds
    <3> QED BY <1>17, <2>1, <3>1 DEF Listen
  <2>2. CASE listen = "notify"
    BY <1>17, <2>2, <1>t DEF Listen, ToClients
  <2>3. CASE listen \in {"select", "check"}
    <3>1. UNCHANGED smVars /\ err' \in BOOLEAN /\ irq' \in BOOLEAN
          /\ listen' \in {"select", "check", "sleep"}
      BY <1>17, <2>3 DEF Listen
    <3>2. UNCHANGED <<round, srv, doing, cp2, loop, main, bound, asked, faults>>
      BY <1>17 DEF Listen
    <3> QED BY <3>1, <3>2, <1>u
  <2> QED BY <2>1, <2>2, <2>3
<1>18. CASE Loop
  <2>1. CASE loop = "send"
    <3>1. selfq' \in Seq(SelfCmds)
      BY <1>18, <2>1, SelfCmdQueued DEF Loop, Report, SelfCmds
    <3> QED BY <1>18, <2>1, <3>1 DEF Loop
  <2>2. CASE loop = "notify"
    BY <1>18, <2>2, <1>t DEF Loop, ToClients
  <2>3. CASE loop \in {"boot", "poll", "sleep", "check"}
    <3>1. UNCHANGED smVars /\ loop' \in {"poll", "sleep", "check", "send"}
      BY <1>18, <2>3 DEF Loop
    <3>2. UNCHANGED <<round, srv, doing, chip, listen, main, bound, asked, faults>>
      BY <1>18 DEF Loop
    <3>3. err' \in BOOLEAN
      BY <1>18, <2>3 DEF Loop
    <3> QED BY <3>1, <3>2, <3>3, <1>u
  <2> QED BY <2>1, <2>2, <2>3
<1>19. CASE Main
  <2>1. selfq' \in Seq(SelfCmds)
    BY <1>19, SelfCmdQueued DEF Main, SelfCmds
  <2> QED BY <1>19, <2>1 DEF Main
<1>20. CASE UNCHANGED vars
  BY <1>20 DEF vars
<1> QED
  BY <1>1, <1>2, <1>3, <1>4, <1>5, <1>6, <1>7, <1>8, <1>9, <1>10, <1>11, <1>12,
     <1>13, <1>14, <1>15, <1>16, <1>17, <1>18, <1>19, <1>20
     DEF Next, Env, ClientListen

\* Every variable keeps its type: the events of the machine, the commands in
\* the socket pair and the types of the connections are those some branch of
\* the code knows (wcnd_sm.c, wcnd_cmd.c:355).
THEOREM TypeCorrect == Spec => []TypeOK
  BY TypeInit, TypeNext, PTL DEF Spec

(***************************************************************************)
(* The machine never waits in vain                                         *)
(***************************************************************************)
Has(q, cmd) == \E i \in 1..Len(q) : q[i] = cmd

\* What is queued stays queued, until it is taken from the head.
LEMMA AppendHas ==
  ASSUME NEW q \in Seq(SelfCmds), NEW cmd \in SelfCmds
  PROVE  /\ Has(Append(q, cmd), cmd)
         /\ \A k : Has(q, k) => Has(Append(q, cmd), k)
<1>1. Len(Append(q, cmd)) = Len(q) + 1 /\ Append(q, cmd)[Len(q) + 1] = cmd
  OBVIOUS
<1>2. \A i \in 1..Len(q) : Append(q, cmd)[i] = q[i]
  OBVIOUS
<1>3. Len(q) \in Nat
  OBVIOUS
<1> QED BY <1>1, <1>2, <1>3 DEF Has

\* What is not at the head stays when the head is taken.
LEMMA TailHas ==
  ASSUME NEW q \in Seq(SelfCmds), q # <<>>, NEW k, Has(q, k), Head(q) # k
  PROVE  Has(Tail(q), k)
<1>1. PICK i \in 1..Len(q) : q[i] = k
  BY DEF Has
<1>2. i # 1
  BY <1>1
<1>3. i - 1 \in 1..Len(Tail(q)) /\ Tail(q)[i - 1] = k
  BY <1>1, <1>2
<1> QED BY <1>3 DEF Has

\* What a step of the machine does to the two states in which it waits
LEMMA SmStepWaits ==
  ASSUME NEW e, NEW from, NEW cn, NEW d, sm \in Machine,
         selfq \in Seq(SelfCmds), SmStep(e, from, cn, d)
  PROVE  /\ selfq' = selfq \/ \E cmd \in SelfCmds : selfq' = Append(selfq, cmd)
         /\ sm'.state = "STARTING" =>
              \/ sm.state = "STARTING" /\ e.op \notin {"ok", "down"}
              \/ selfq' = Append(selfq, "startcp2")
         /\ sm'.state = "STOPPING" =>
              \/ sm.state = "STOPPING" /\ e.op # "down"
              \/ selfq' = Append(selfq, "stopcp2")
<1> USE DEF SelfCmd, SelfCmds, Machine
<1>1. CASE sm.state = "STOPPED" /\ Stopped(e, cn)
  <2> DEFINE m == [sm EXCEPT !.notify = FALSE]
  <2>m. m \in Machine /\ m.state = "STOPPED"
    BY <1>1
  <2>1. \/ sm'.state \in {"STOPPED", "STARTED"}
        \/ sm'.state = "STARTING" /\ selfq' = Append(selfq, "startcp2")
    <3>1. \/ sm' = m
          \/ sm' = [m EXCEPT !.state = "STARTED", !.notify = TRUE]
          \/ /\ \E b : sm' = [m EXCEPT !.state = "STARTING", !.btwifi = b]
             /\ selfq' = Append(selfq, "startcp2")
      BY <1>1 DEF Stopped
    <3> HIDE DEF m
    <3> QED BY <3>1, <2>m
  <2>2. selfq' = selfq \/ selfq' = Append(selfq, "startcp2")
    BY <1>1 DEF Stopped
  <2> QED BY <2>1, <2>2
<1>2. CASE sm.state = "STARTING" /\ Starting(e, cn)
  <2>1. sm'.state \in {"STARTING", "STARTED", "STOPPED"}
        /\ (e.op \in {"ok", "down"} => sm'.state # "STARTING")
    BY <1>2 DEF Starting
  <2>2. selfq' = selfq
    BY <1>2 DEF Starting
  <2> QED BY <1>2, <2>1, <2>2
<1>3. CASE sm.state = "STARTED" /\ Started(e, cn)
  <2> DEFINE m == [sm EXCEPT !.notify = TRUE]
  <2>m. m \in Machine /\ m.state = "STARTED"
    BY <1>3
  <2>1. \/ sm'.state \in {"STARTED", "ASSERT", "STOPPED"}
        \/ sm'.state = "STOPPING" /\ selfq' = Append(selfq, "stopcp2")
    <3>1. CASE e.op \in {"close", "poweroff"}
      <4>1. \/ \E b : sm' = [m EXCEPT !.saved = b] \/ sm' = [m EXCEPT !.btwifi = b]
            \/ sm'.state = "STOPPING" /\ selfq' = Append(selfq, "stopcp2")
        BY <1>3, <3>1 DEF Started
      <4> HIDE DEF m
      <4> QED BY <4>1, <2>m
    <3>2. CASE e.op \notin {"close", "poweroff"}
      <4>1. \/ sm' = m \/ \E b : sm' = [m EXCEPT !.btwifi = b]
            \/ \E b : sm' = [m EXCEPT !.saved = b, !.state = "ASSERT"]
            \/ sm' = [m EXCEPT !.state = "STOPPED"]
        BY <1>3, <3>2 DEF Started
      <4> HIDE DEF m
      <4> QED BY <4>1, <2>m
    <3> QED BY <3>1, <3>2
  <2>2. selfq' = selfq \/ selfq' = Append(selfq, "stopcp2")
        \/ selfq' = Append(selfq, "reset")
    BY <1>3 DEF Started
  <2> QED BY <2>1, <2>2
<1>4. CASE sm.state = "ASSERT" /\ InAssert(e, from, cn, d)
  <2>1. sm'.state \in {"ASSERT", "STARTED", "STOPPED"}
    BY <1>4 DEF InAssert
  <2>2. selfq' = selfq
    BY <1>4 DEF InAssert
  <2> QED BY <2>1, <2>2
<1>5. CASE sm.state = "STOPPING" /\ Stopping(e, from, cn)
  <2>1. sm'.state \in {"STOPPING", "STOPPED"}
        /\ (e.op = "down" => sm'.state # "STOPPING")
    BY <1>5 DEF Stopping
  <2>2. selfq' = selfq \/ selfq' = Append(selfq, "pendingevent")
    BY <1>5 DEF Stopping
  <2> QED BY <1>5, <2>1, <2>2
<1> QED BY <1>1, <1>2, <1>3, <1>4, <1>5 DEF SmStep

\* What the machine waits for is outstanding at first, and after every step.
LEMMA WaitsInit == Init => NeverWaitsInVain
  BY DEF Init, SmInit, NeverWaitsInVain

\* Every step keeps the property; one step per action.
LEMMA WaitsNext == TypeOK /\ NeverWaitsInVain /\ [Next]_vars => NeverWaitsInVain'
<1> SUFFICES ASSUME TypeOK, NeverWaitsInVain, [Next]_vars
             PROVE  NeverWaitsInVain'
  OBVIOUS
<1> DEFINE Sent(q, p, k) == Has(q, k) \/ Has(p, k)
<1>o. /\ \A k : Outstanding(k) <=> Sent(selfq, todo, k)
      /\ \A k : Outstanding(k)' <=> Sent(selfq', todo', k)
  BY DEF Outstanding, Has
<1>t. sm \in Machine /\ selfq \in Seq(SelfCmds) /\ todo \in Seq(SelfCmds)
  BY DEF TypeOK
<1>i. /\ sm.state = "STARTING" =>
           Sent(selfq, todo, "startcp2") \/ srv \in {"opening", "up", "down"}
      /\ sm.state = "STOPPING" =>
           Sent(selfq, todo, "stopcp2") \/ srv \in {"stopping", "down"}
  BY <1>o DEF NeverWaitsInVain
<1> SUFFICES /\ sm'.state = "STARTING" =>
                  Sent(selfq', todo', "startcp2") \/ srv' \in {"opening", "up", "down"}
             /\ sm'.state = "STOPPING" =>
                  Sent(selfq', todo', "stopcp2") \/ srv' \in {"stopping", "down"}
  BY <1>o DEF NeverWaitsInVain
<1>u. UNCHANGED smVars => sm' = sm /\ selfq' = selfq
  BY DEF smVars
\* Steps that only add to the socket pair, and leave the machine alone
<1>a. ASSUME sm' = sm, todo' = todo, srv' = srv,
             \/ selfq' = selfq
             \/ \E cmd \in SelfCmds : selfq' = Append(selfq, cmd)
      PROVE  \A k : Sent(selfq, todo, k) => Sent(selfq', todo', k)
  BY <1>a, <1>t, AppendHas
\* Commands taken while the thread does nothing else
<1>k. ASSUME NEW cmds, Takes(cmds), NEW k, k \notin cmds, Sent(selfq, todo, k),
             \/ selfq' = selfq
             \/ \E cmd \in SelfCmds : selfq' = Append(selfq, cmd)
      PROVE  Sent(selfq', todo', k)
  <2>1. Has(todo, k) => Has(todo', k)
    BY <1>k, <1>t, TailHas DEF Takes
  <2>2. Has(selfq, k) => Has(selfq', k)
    BY <1>k, <1>t, AppendHas
  <2> QED BY <1>k, <2>1, <2>2
<1>w. "startcp2" \in SelfCmds /\ "stopcp2" \in SelfCmds
  BY DEF SelfCmds
<1>n. /\ selfq' = Append(selfq, "startcp2") => Sent(selfq', todo', "startcp2")
      /\ selfq' = Append(selfq, "stopcp2") => Sent(selfq', todo', "stopcp2")
  BY <1>t, <1>w, AppendHas
<1> HIDE DEF Sent
<1>1. CASE Env
  <2>1. sm' = sm /\ todo' = todo /\ srv' = srv /\ selfq' = selfq
    BY <1>1, <1>u DEF Env, Connect, GiveUp, Die, round
  <2> QED BY <2>1, <1>i
<1>2. CASE Round \/ Dumped
  <2>1. sm' = sm /\ todo' = todo /\ selfq' = selfq
        /\ (srv' = srv \/ srv = "dumping")
    BY <1>2 DEF Round, Dumped, round
  <2> QED BY <2>1, <1>i
<1>3. CASE \E c \in Conn : ReadReset(c) \/ ReadDump(c) \/ ReadEnd(c)
  <2>1. sm' = sm /\ todo' = todo /\ selfq' = selfq /\ srv = "round"
    BY <1>3 DEF ReadReset, ReadDump, ReadEnd, Reads
  <2> QED BY <2>1, <1>i
<1>4. CASE ReadSelf
  <2>1. sm' = sm /\ todo = <<>> /\ todo' = selfq /\ srv' = srv
    BY <1>4 DEF ReadSelf
  <2>2. \A k : Sent(selfq, todo, k) => Sent(selfq', todo', k)
    BY <2>1 DEF Sent, Has
  <2> QED BY <2>1, <2>2, <1>i
<1>5. CASE SelfVersion \/ SelfReset
  <2>1. PICK cmds \in {{"getcp2version"}, {"reset"}} : Takes(cmds)
    BY <1>5 DEF SelfVersion, SelfReset
  <2>2. sm' = sm /\ selfq' = selfq /\ srv = "round"
    BY <1>5, <1>u DEF SelfVersion, SelfReset, Takes
  <2> QED BY <2>1, <2>2, <1>k, <1>i
<1>6. CASE SelfStart
  <2>1. Takes({"startcp2"}) /\ srv' = "opening" /\ srv = "round"
        /\ sm' = sm /\ selfq' = selfq
    BY <1>6, <1>u DEF SelfStart, Takes
  <2> QED BY <2>1, <1>k, <1>i
<1>7. CASE SelfStop
  <2>1. Takes({"stopcp2"}) /\ srv' = "stopping" /\ srv = "round"
        /\ sm' = sm /\ selfq' = selfq
    BY <1>7, <1>u DEF SelfStop, Takes
  <2> QED BY <2>1, <1>k, <1>i
<1>8. CASE Opened \/ StopEnds \/ Rebooted \/ Recovered
  <2>1. sm' = sm /\ selfq' = selfq /\ todo' = todo
    BY <1>8, <1>u DEF Opened, StopEnds, Rebooted, Recovered, round
  <2>2. \/ srv = "opening" /\ srv' \in {"up", "down"}
        \/ srv = "stopping" /\ srv' = "down"
        \/ srv \in {"recovering", "rebooting"}
    BY <1>8 DEF Opened, StopEnds, Rebooted, Recovered
  <2> QED BY <2>1, <2>2, <1>i
<1>9. CASE SelfEvent
  <2> DEFINE e == Event(IF Head(todo) = "cp2assert" THEN "assert" ELSE Head(todo))
  <2>1. Takes({"pendingevent", "cp2assert", "poweron", "poweroff"})
        /\ SmStep(e, Self, conn, doing) /\ srv' = srv /\ srv = "round"
    BY <1>9 DEF SelfEvent, Takes
  <2> HIDE DEF e
  <2>2. /\ selfq' = selfq \/ \E cmd \in SelfCmds : selfq' = Append(selfq, cmd)
        /\ sm'.state = "STARTING" =>
              sm.state = "STARTING" \/ selfq' = Append(selfq, "startcp2")
        /\ sm'.state = "STOPPING" =>
              sm.state = "STOPPING" \/ selfq' = Append(selfq, "stopcp2")
    BY <2>1, <1>t, SmStepWaits
  <2>3. /\ Sent(selfq, todo, "startcp2") => Sent(selfq', todo', "startcp2")
        /\ Sent(selfq, todo, "stopcp2") => Sent(selfq', todo', "stopcp2")
    BY <2>1, <2>2, <1>k
  <2> QED BY <2>1, <2>2, <2>3, <1>n, <1>i
<1>10. ASSUME NEW c \in Conn, ReadUser(c)
       PROVE  /\ sm'.state = "STARTING" => Sent(selfq', todo', "startcp2")
              /\ sm'.state = "STOPPING" => Sent(selfq', todo', "stopcp2")
  <2> DEFINE cn == [conn EXCEPT ![c] = [@ EXCEPT !.type = "CMD", !.unread = NoCmd]]
  <2>1. SmStep(conn[c].unread, c, cn, doing) /\ todo' = todo /\ srv = "round"
        /\ srv' = srv
    BY <1>10 DEF ReadUser, Reads
  <2> HIDE DEF cn
  <2>2. /\ selfq' = selfq \/ \E cmd \in SelfCmds : selfq' = Append(selfq, cmd)
        /\ sm'.state = "STARTING" =>
              sm.state = "STARTING" \/ selfq' = Append(selfq, "startcp2")
        /\ sm'.state = "STOPPING" =>
              sm.state = "STOPPING" \/ selfq' = Append(selfq, "stopcp2")
    BY <2>1, <1>t, SmStepWaits
  <2>3. \A k : Sent(selfq, todo, k) => Sent(selfq', todo', k)
    BY <2>1, <2>2, <1>t, AppendHas DEF Sent
  <2> QED BY <2>1, <2>2, <2>3, <1>n, <1>i
<1>11. CASE Up \/ Down
  <2>1. PICK f \in {Event("ok"), Event("down")} :
          /\ SmStep(f, Self, conn, doing) /\ todo' = todo
          /\ \/ srv = "up" /\ f = Event("ok")
             \/ srv = "down" /\ f = Event("down")
    BY <1>11 DEF Up, Down, round
  <2>2. f.op \in {"ok", "down"} /\ (f.op = "ok" => srv = "up")
    BY <2>1 DEF Event
  <2>3. /\ selfq' = selfq \/ \E cmd \in SelfCmds : selfq' = Append(selfq, cmd)
        /\ sm'.state = "STARTING" => selfq' = Append(selfq, "startcp2")
        /\ sm'.state = "STOPPING" =>
              \/ sm.state = "STOPPING" /\ f.op # "down"
              \/ selfq' = Append(selfq, "stopcp2")
    BY <2>1, <2>2, <1>t, SmStepWaits
  <2>4. \A k : Sent(selfq, todo, k) => Sent(selfq', todo', k)
    BY <2>1, <2>3, <1>t, AppendHas DEF Sent
  <2> QED BY <2>1, <2>2, <2>3, <2>4, <1>n, <1>i
<1>12. CASE Listen \/ Loop \/ Main
  <2>1. sm' = sm /\ todo' = todo /\ srv' = srv
    BY <1>12, <1>u DEF Listen, Loop, Main, ToClients, round
  <2>2. selfq' = selfq \/ \E cmd \in SelfCmds : selfq' = Append(selfq, cmd)
    BY <1>12, <1>u DEF Listen, Loop, Main, ToClients, Report, SelfCmd, SelfCmds
  <2> QED BY <2>1, <2>2, <1>a, <1>i
<1>13. CASE UNCHANGED vars
  BY <1>13, <1>i DEF vars
<1> QED
  BY <1>1, <1>2, <1>3, <1>4, <1>5, <1>6, <1>7, <1>8, <1>9, <1>10, <1>11, <1>12,
     <1>13 DEF Next, ClientListen

\* The machine never waits for an event that nobody sends: in STARTING and
\* STOPPING the self command that ends the wait is queued, read or executed,
\* whatever resets come in between (wcnd_sm.c:193, 388).
THEOREM NeverWaits == Spec => []NeverWaitsInVain
  BY TypeInit, TypeNext, WaitsInit, WaitsNext, PTL DEF Spec
=============================================================================
