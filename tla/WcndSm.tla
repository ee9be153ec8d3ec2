------------------------------- MODULE WcndSm -------------------------------
(***************************************************************************)
(* The state machine of wcnd (wcnd_sm.c): the power state of the           *)
(* connectivity processor CP2, the users that hold it (Bluetooth, WiFi,    *)
(* FM), the connections of wcnd's clients and what each is answered.  One  *)
(* operator per handler; the threads that call them are in Wcnd.  Chips of *)
(* type marlin; marlin2 switches CP2 in the driver and is left out.        *)
(***************************************************************************)
EXTENDS Naturals, Sequences

CONSTANTS
  User,       \* the services that open and close CP2
  Conn,       \* connections to wcnd, each used for one command at a time
  Self        \* the socket pair on which wcnd sends commands to itself

ASSUME SelfAssumption == Self \notin Conn
ASSUME UserAssumption == "poweron" \notin User /\ "nobody" \notin User

VARIABLES
  sm,         \* WcndManager: state, btwifi_state, saved, pending, notify
  conn,       \* WcndManager.clients, with the command sent and unread, and
              \* the command to which the peer still awaits an answer
  selfq,      \* the commands in the socket pair
  on          \* ghost: users whose open was answered OK, until they close

smVars == <<sm, conn, selfq, on>>

NoUser  == "nobody"
Cmd     == [op : {"open", "close"}, user : User]
             \cup [op : {"poweron", "poweroff", "reset", "dumpmem"}, user : {NoUser}]
NoCmd   == [op |-> "none", user |-> NoUser]
Event(o) == [op |-> o, user |-> NoUser]

CmdTypes == {"CMD", "CLOSE", "OPEN"}    \* WCND_CLIENT_TYPE_CMD_MASK
Type     == {"none", "NOTIFY", "PENDING"} \cup CmdTypes
\* Slip: the connections whose command came during a stop are forgotten.
WaitingNotPending == CmdTypes
\* The types of the connections that wait for the end of a start
Waiting == CmdTypes \cup {"PENDING"}

\* WcndManager's state and a slot of WcndManager.clients
Machine == [state : {"STOPPED", "STARTING", "STARTED", "ASSERT", "STOPPING"},
            btwifi : SUBSET User, saved : SUBSET User,
            pending : SUBSET (User \cup {"poweron"}), notify : BOOLEAN]
Slot    == [type : Type, unread : Cmd \cup {NoCmd}, ask : Cmd \cup {NoCmd}]
SelfCmds == {"startcp2", "stopcp2", "pendingevent", "cp2assert", "reset",
             "poweron", "poweroff", "getcp2version"}

\* A free slot.  A connection that has been answered (type SLEEP, ignored
\* until its peer closes it) is free at once.
Free == [type |-> "none", unread |-> NoCmd, ask |-> NoCmd]

SmInit ==
  /\ sm = [state |-> "STOPPED", btwifi |-> {}, saved |-> {}, pending |-> {},
           notify |-> FALSE]
  /\ conn = [c \in Conn |-> Free]
  /\ selfq = <<>> /\ on = {}

(***************************************************************************)
(* Answers                                                                 *)
(***************************************************************************)
\* wcnd_send_notify_to_client for connections that sent a command: every one
\* of the types T is answered, whichever command is being handled.  A write
\* to a peer that has gone fails and frees the slot as well.
Answer(cn, T, ok) ==
  LET told == {c \in Conn : cn[c].type \in T} IN
  /\ conn' = [c \in Conn |-> IF c \in told THEN Free ELSE cn[c]]
  /\ on' = on \cup {u \in User : ok /\ \E c \in told :
                      cn[c].ask = [op |-> "open", user |-> u]}
Silent(cn)   == conn' = cn /\ UNCHANGED on
SelfCmd(cmd) == selfq' = Append(selfq, cmd)
\* wcnd_send_notify_to_client for type NOTIFY: a peer that waits for the
\* answer to a command not yet read takes the notification for it.
Notified(cn) ==
  [c \in Conn |-> IF cn[c].type = "NOTIFY" THEN [cn[c] EXCEPT !.ask = NoCmd]
                                           ELSE cn[c]]
\* Slip: one of the services is forgotten where the bit is set.
BitOnlyBt(e) == {e.user} \cap {"bt"}
\* The bit of btwifi_state that an open sets
Bit(e) == {e.user} \cap User

Retype(cn, c, type) ==
  IF c \in Conn THEN [cn EXCEPT ![c].type = type] ELSE cn

(***************************************************************************)
(* One operator per state: e is the event, from the connection it came     *)
(* from, cn the table of connections when the step begins.                 *)
(***************************************************************************)
\* wcn_state_cp2_stopped
Stopped(e, cn) ==
  LET m    == [sm EXCEPT !.notify = FALSE]
      held == IF e.op = "pendingevent" THEN sm.btwifi \cup (sm.pending \cap User)
                                       ELSE sm.btwifi
  IN
  \/ /\ e.op = "open"
     /\ sm' = [m EXCEPT !.state = "STARTING", !.btwifi = @ \cup Bit(e)]
     /\ SelfCmd("startcp2") /\ Silent(cn)
  \/ /\ \/ e.op = "poweron"
        \/ e.op = "pendingevent" /\ (held # {} \/ "poweron" \in sm.pending)
     /\ sm' = [m EXCEPT !.state = "STARTING", !.btwifi = held]
     /\ SelfCmd("startcp2") /\ Silent(cn)
  \/ /\ e.op \in {"close", "poweroff"}
     /\ sm' = m /\ UNCHANGED selfq /\ Answer(cn, CmdTypes, TRUE)
  \/ /\ e.op = "ok"
     /\ sm' = [m EXCEPT !.state = "STARTED", !.notify = TRUE]
     /\ UNCHANGED selfq /\ Silent(cn)
  \/ /\ \/ e.op \in {"down", "assert"}
        \/ e.op = "pendingevent" /\ held = {} /\ "poweron" \notin sm.pending
     /\ sm' = m /\ UNCHANGED selfq /\ Silent(cn)

\* wcn_state_cp2_starting: a close is answered at once, with everybody who
\* waits, and leaves its bit; poweron waits for the end of the start.
Starting(e, cn) ==
  LET m == [sm EXCEPT !.notify = FALSE] IN
  /\ UNCHANGED selfq
  /\ \/ /\ e.op \in {"close", "poweroff"}
        /\ sm' = m /\ Answer(cn, CmdTypes, TRUE)
     \/ /\ e.op = "open"
        /\ sm' = [m EXCEPT !.btwifi = @ \cup Bit(e)] /\ Silent(cn)
     \/ /\ e.op = "ok"
        /\ sm' = [m EXCEPT !.state = "STARTED", !.notify = TRUE]
        /\ Answer(cn, Waiting, TRUE)
     \/ /\ e.op = "down"
        /\ sm' = [m EXCEPT !.state = "STOPPED"]
        /\ Answer(cn, Waiting, FALSE)
     \/ /\ e.op \in {"poweron", "assert", "pendingevent"}
        /\ sm' = m /\ Silent(cn)

\* wcn_state_cp2_started: after an assert a close counts against the saved
\* bits first; the last close stops CP2 and is answered when it is down.
Started(e, cn) ==
  LET m    == [sm EXCEPT !.notify = TRUE]
      left == sm.btwifi \ {e.user}
      shut == e.op \in {"close", "poweroff"}
  IN
  \/ /\ shut /\ sm.saved # {}
     /\ sm' = [m EXCEPT !.saved = @ \ {e.user}]
     /\ UNCHANGED selfq /\ Answer(cn, CmdTypes, TRUE)
  \/ /\ shut /\ sm.saved = {} /\ left # {}
     /\ sm' = [m EXCEPT !.btwifi = left]
     /\ UNCHANGED selfq /\ Answer(cn, CmdTypes, TRUE)
  \/ /\ shut /\ sm.saved = {} /\ left = {}
     /\ sm' = [m EXCEPT !.btwifi = {}, !.state = "STOPPING"]
     /\ SelfCmd("stopcp2") /\ Silent(cn)
  \/ /\ e.op \in {"open", "poweron"}
     /\ sm' = [m EXCEPT !.btwifi = @ \cup Bit(e)]
     /\ UNCHANGED selfq /\ Answer(cn, CmdTypes, TRUE)
  \/ /\ e.op = "assert"
     /\ sm' = [m EXCEPT !.saved = sm.btwifi, !.state = "ASSERT"]
     /\ SelfCmd("reset") /\ Silent(cn)
  \/ /\ e.op = "down"
     /\ sm' = [m EXCEPT !.state = "STOPPED"]
     /\ UNCHANGED selfq /\ Silent(cn)
  \/ /\ e.op \in {"ok", "pendingevent"}
     /\ sm' = m /\ UNCHANGED selfq /\ Silent(cn)

\* wcn_state_cp2_assert: a close is answered to those who close, an open at
\* the end of the reset, poweron and poweroff fail unless a reset is going on.
InAssert(e, from, cn, doing) ==
  LET m == [sm EXCEPT !.notify = TRUE] IN
  /\ UNCHANGED selfq
  /\ \/ /\ e.op = "close"
        /\ sm' = [m EXCEPT !.saved = @ \ {e.user}]
        /\ Answer(Retype(cn, from, "CLOSE"), {"CLOSE"}, TRUE)
     \/ /\ e.op = "open"
        /\ sm' = [m EXCEPT !.btwifi = @ \cup Bit(e)]
        /\ Silent(Retype(cn, from, "OPEN"))
     \/ /\ e.op = "ok"
        /\ sm' = [m EXCEPT !.state = "STARTED"] /\ Answer(cn, CmdTypes, TRUE)
     \/ /\ e.op = "down"
        /\ sm' = [m EXCEPT !.state = "STOPPED"] /\ Answer(cn, CmdTypes, FALSE)
     \/ /\ e.op \in {"poweron", "poweroff"} /\ sm' = m /\ UNCHANGED on
        /\ conn' = IF ~doing /\ from \in Conn THEN [cn EXCEPT ![from] = Free]
                                              ELSE cn
     \/ /\ e.op \in {"assert", "pendingevent"} /\ sm' = m /\ Silent(cn)

\* wcn_state_cp2_stopping: an open waits in pending_events, which nothing
\* clears; closes wait with the one that stopped CP2.
Stopping(e, from, cn) ==
  LET m == [sm EXCEPT !.notify = FALSE] IN
  \/ /\ e.op \in {"open", "poweron"}
     /\ sm' = [m EXCEPT !.pending = @ \cup
                 {IF e.op = "open" THEN e.user ELSE "poweron"}]
     /\ UNCHANGED selfq /\ Silent(Retype(cn, from, "PENDING"))
  \/ /\ e.op = "down"
     /\ sm' = [m EXCEPT !.state = "STOPPED"]
     /\ IF sm.pending # {} THEN SelfCmd("pendingevent") ELSE UNCHANGED selfq
     /\ Answer(cn, CmdTypes, TRUE)
  \/ /\ e.op \in {"close", "poweroff", "ok", "assert", "pendingevent"}
     /\ sm' = m /\ UNCHANGED selfq /\ Silent(cn)

\* wcnd_sm_step
SmStep(e, from, cn, doing) ==
  \/ sm.state = "STOPPED"  /\ Stopped(e, cn)
  \/ sm.state = "STARTING" /\ Starting(e, cn)
  \/ sm.state = "STARTED"  /\ Started(e, cn)
  \/ sm.state = "ASSERT"   /\ InAssert(e, from, cn, doing)
  \/ sm.state = "STOPPING" /\ Stopping(e, from, cn)
=============================================================================
