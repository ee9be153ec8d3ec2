-------------------------------- MODULE Wcnd --------------------------------
(***************************************************************************)
(* The threads of wcnd around its state machine (WcndSm): the client       *)
(* listen thread, which accepts connections, reads commands, starts, stops *)
(* and resets CP2 and makes every step of the machine; the CP2 listen      *)
(* thread and the loop check thread, which report that CP2 has failed; the *)
(* boot thread, which asks for CP2's version; clients that connect, send   *)
(* one command and wait; and CP2 itself.                                   *)
(***************************************************************************)
EXTENDS WcndSm

CONSTANTS
  Requests,     \* the commands a connection may carry, Conn -> SUBSET Cmd
  ResetModes,   \* what wcnd_before_reset may return: TRUE lets the reset go on
  Bounds        \* bounds of a behaviour, one of them chosen at its start: where
                \* it begins (at the start of wcnd, or when the boot thread has
                \* done its work), the commands sent, the failures of CP2, of a
                \* start or a stop, and the timeouts of clients

ASSUME BoundsAssumption ==
  Bounds \subseteq [boot : BOOLEAN, requests : Nat, faults : Nat]
ASSUME RequestsAssumption == Requests \in [Conn -> SUBSET Cmd]
ASSUME ModesAssumption == ResetModes \subseteq BOOLEAN

VARIABLES
  backlog,    \* connections not yet accepted
  ready,      \* pending_fds: descriptors of this round still to be read
  todo,       \* self commands of the last read still to be dispatched
  srv,        \* what the client listen thread is doing
  doing,      \* WcndManager.doing_reset
  err,        \* WcndManager.is_cp2_error
  cp2,        \* CP2 itself: "off", "alive" or "dead"
  irq,        \* the assert or watchdog device is readable
  listen,     \* program counter of cp2_listen_thread
  loop,       \* program counter of cp2_loop_check_thread
  main,       \* program counter of store_cp2_version_info
  bound,      \* the bounds of this behaviour
  asked,      \* commands sent so far
  faults      \* failures so far

vars == <<sm, conn, selfq, on, backlog, ready, todo, srv, doing, err, cp2, irq,
          listen, loop, main, bound, asked, faults>>
round  == <<backlog, ready, todo>>
chip   == <<cp2, irq>>
others == <<listen, loop, main, bound, asked>>

TypeOK ==
  /\ sm \in Machine /\ conn \in [Conn -> Slot]
  /\ selfq \in Seq(SelfCmds) /\ todo \in Seq(SelfCmds) /\ on \subseteq User
  /\ backlog \in Seq(Conn) /\ ready \subseteq Conn \cup {Self}
  /\ srv \in {"round", "opening", "stopping", "recovering", "rebooting", "up",
              "down", "dumping"}
  /\ doing \in BOOLEAN /\ err \in BOOLEAN /\ irq \in BOOLEAN
  /\ cp2 \in {"off", "alive", "dead"}
  /\ listen \in {"select", "check", "sleep", "notify"}
  /\ loop \in {"boot", "poll", "sleep", "check", "send", "notify"}
  /\ main \in {"start", "wait", "version", "done"}
  /\ bound \in Bounds
  /\ asked \in 0..bound.requests /\ faults \in 0..bound.faults

Init ==
  /\ SmInit
  /\ backlog = <<>> /\ ready = {} /\ todo = <<>> /\ srv = "round"
  /\ doing = FALSE /\ err = FALSE /\ cp2 = "off" /\ irq = FALSE
  /\ bound \in Bounds /\ asked = 0 /\ faults = 0
  /\ listen = "select"
  /\ loop = IF bound.boot THEN "boot" ELSE "poll"
  /\ main = IF bound.boot THEN "start" ELSE "done"

(***************************************************************************)
(* Clients and CP2                                                         *)
(***************************************************************************)
\* A client connects and sends r.  A user sends its commands one after the
\* other; CP2 is lost to it from the moment it asks for the close.
Connect(c, r) ==
  /\ asked < bound.requests /\ asked' = asked + 1
  /\ conn[c] = Free /\ c \notin ready
  /\ r.user # NoUser => \A d \in Conn : conn[d].ask.user # r.user
  /\ conn' = [conn EXCEPT ![c].unread = r, ![c].ask = r]
  /\ backlog' = Append(backlog, c)
  /\ on' = IF r.op = "close" THEN on \ {r.user} ELSE on
  /\ UNCHANGED <<sm, selfq, ready, todo, srv, doing, err, chip, listen, loop,
                 main, bound, faults>>

Fault == faults < bound.faults /\ faults' = faults + 1

\* The client's receive times out and it closes the socket; what it has
\* written is read all the same.
GiveUp(c) ==
  /\ Fault /\ conn[c].ask # NoCmd
  /\ conn' = [conn EXCEPT ![c].ask = NoCmd]
  /\ UNCHANGED <<sm, selfq, on, round, srv, doing, err, chip, others>>

\* CP2 stops working, and may or may not say so.
Die ==
  /\ Fault /\ cp2 = "alive" /\ cp2' = "dead"
  /\ irq' \in {irq, TRUE}
  /\ UNCHANGED <<smVars, round, srv, doing, err, others>>

(***************************************************************************)
(* client_listen_thread: rounds of select                                  *)
(***************************************************************************)
Readable == {c \in Conn : conn[c].type # "none"
                          /\ (conn[c].unread # NoCmd \/ conn[c].ask = NoCmd)}
Idle == srv = "round" /\ todo = <<>> /\ ready = {}

\* The descriptors select found are read in this round, one connection is
\* accepted and will be read in the next.
Round ==
  /\ Idle
  /\ Readable # {} \/ selfq # <<>> \/ backlog # <<>>
  /\ ready' = Readable \cup (IF selfq # <<>> THEN {Self} ELSE {})
  /\ IF backlog = <<>> THEN UNCHANGED <<backlog, conn>>
     ELSE /\ backlog' = Tail(backlog)
          /\ conn' = [conn EXCEPT ![Head(backlog)].type = "NOTIFY"]
  /\ UNCHANGED <<sm, selfq, on, todo, srv, doing, err, chip, others, faults>>

Reads(c) == srv = "round" /\ todo = <<>> /\ c \in ready /\ ready' = ready \ {c}

\* wcnd_runcommand for BT, WIFI, FM, poweron and poweroff
ReadUser(c) ==
  LET r == conn[c].unread IN
  /\ Reads(c) /\ r.op \in {"open", "close", "poweron", "poweroff"}
  /\ SmStep(r, c, [conn EXCEPT ![c] = [@ EXCEPT !.type = "CMD",
                                                !.unread = NoCmd]], doing)
  /\ UNCHANGED <<backlog, todo, srv, doing, err, chip, others, faults>>

\* "reset" of a client: answered first, made only when CP2 has failed
ReadReset(c) ==
  /\ Reads(c) /\ conn[c].unread.op = "reset"
  /\ conn' = [conn EXCEPT ![c] = Free]
  /\ srv' = IF err THEN "recovering" ELSE srv
  /\ UNCHANGED <<sm, selfq, on, backlog, todo, doing, err, chip, others, faults>>

\* "dumpmem": wcnd_dump_cp2 up to the dump, its end, and the answer
ReadDump(c) ==
  /\ Reads(c) /\ conn[c].unread.op = "dumpmem"
  /\ conn' = [conn EXCEPT ![c].unread = NoCmd]
  /\ srv' = "dumping" /\ err' = TRUE
  /\ UNCHANGED <<sm, selfq, on, backlog, todo, doing, chip, others, faults>>
Dumped ==
  /\ srv = "dumping" /\ srv' = "round" /\ err' = FALSE
  /\ conn' = [c \in Conn |-> IF conn[c].ask.op = "dumpmem" /\ conn[c].unread = NoCmd
                             THEN Free ELSE conn[c]]
  /\ UNCHANGED <<sm, selfq, on, round, doing, chip, others, faults>>

\* The peer has closed, or the slot has been freed in this round.
ReadEnd(c) ==
  /\ Reads(c) /\ conn[c].unread = NoCmd
  /\ conn' = [conn EXCEPT ![c] = Free]
  /\ UNCHANGED <<sm, selfq, on, backlog, todo, srv, doing, err, chip, others, faults>>

\* Slip: of the commands one read returns only the first is dispatched.
ReadSelfFirst ==
  /\ srv = "round" /\ todo = <<>> /\ ready = {Self}
  /\ ready' = {} /\ todo' = <<Head(selfq)>> /\ selfq' = <<>>
  /\ UNCHANGED <<sm, conn, on, backlog, srv, doing, err, chip, others, faults>>
\* The socket pair is the last descriptor of a round.
ReadSelf ==
  /\ srv = "round" /\ todo = <<>> /\ ready = {Self}
  /\ ready' = {} /\ todo' = selfq /\ selfq' = <<>>
  /\ UNCHANGED <<sm, conn, on, backlog, srv, doing, err, chip, others, faults>>

(***************************************************************************)
(* client_listen_thread: self commands                                     *)
(***************************************************************************)
Takes(cmds) == /\ srv = "round" /\ todo # <<>> /\ Head(todo) \in cmds
               /\ todo' = Tail(todo)

\* A command that is an event of the machine
SelfEvent ==
  /\ Takes({"pendingevent", "cp2assert", "poweron", "poweroff"})
  /\ SmStep(Event(IF Head(todo) = "cp2assert" THEN "assert" ELSE Head(todo)),
            Self, conn, doing)
  /\ UNCHANGED <<backlog, ready, srv, doing, err, chip, others, faults>>

\* wcnd_process_atcmd for the version: nothing here depends on it.
SelfVersion ==
  /\ Takes({"getcp2version"})
  /\ UNCHANGED <<smVars, backlog, ready, srv, doing, err, chip, others, faults>>

\* wcnd_open_cp2, up to and with its attempts
SelfStart ==
  /\ Takes({"startcp2"}) /\ srv' = "opening" /\ doing' = TRUE
  /\ UNCHANGED <<smVars, backlog, ready, err, chip, others, faults>>
\* Slip: doing_reset stays set after a start that succeeds.
OpenedStillDoing ==
  /\ srv = "opening"
  /\ \/ cp2' = "alive" /\ srv' = "up" /\ UNCHANGED <<doing, faults>>
     \/ cp2' = "dead" /\ srv' = "down" /\ doing' = FALSE /\ Fault
  /\ UNCHANGED <<smVars, round, err, irq, others>>
Opened ==
  /\ srv = "opening" /\ doing' = FALSE
  /\ \/ cp2' = "alive" /\ srv' = "up" /\ UNCHANGED faults
     \/ cp2' = "dead" /\ srv' = "down" /\ Fault
  /\ UNCHANGED <<smVars, round, err, irq, others>>

\* wcnd_close_cp2: a stop that fails is not told from one that succeeds.
SelfStop ==
  /\ Takes({"stopcp2"}) /\ srv' = "stopping"
  /\ UNCHANGED <<smVars, backlog, ready, doing, err, chip, others, faults>>
StopEnds ==
  /\ srv = "stopping" /\ srv' = "down"
  /\ \/ cp2' = "off" /\ UNCHANGED faults
     \/ UNCHANGED cp2 /\ Fault
  /\ UNCHANGED <<smVars, round, doing, err, irq, others>>

\* wcnd_do_wcn_reset_process: the recovery, wcnd_before_reset, the reboot
SelfReset ==
  /\ Takes({"reset"}) /\ srv' = IF err THEN "recovering" ELSE srv
  /\ UNCHANGED <<smVars, backlog, ready, doing, err, chip, others, faults>>
Told == conn' = IF sm.notify THEN Notified(conn) ELSE conn
Recovered ==
  /\ srv = "recovering"
  /\ \E go \in ResetModes :
       IF go THEN srv' = "rebooting" /\ doing' = TRUE /\ Told
             ELSE srv' = "down" /\ UNCHANGED <<doing, conn>>
  /\ UNCHANGED <<sm, selfq, on, round, err, chip, others, faults>>
Rebooted ==
  /\ srv = "rebooting" /\ doing' = FALSE /\ Told
  /\ \/ cp2' = "alive" /\ srv' = "up" /\ UNCHANGED faults
     \/ cp2' = "dead" /\ srv' = "down" /\ Fault
  /\ UNCHANGED <<sm, selfq, on, round, err, irq, others>>

\* The end of a start or a reset: the flag doing_reset is already clear when
\* the error flag is cleared.  The end of a stop, or of a failure.
Up ==
  /\ srv = "up" /\ srv' = "round" /\ err' = FALSE
  /\ SmStep(Event("ok"), Self, conn, doing)
  /\ UNCHANGED <<round, doing, chip, others, faults>>
Down ==
  /\ srv = "down" /\ srv' = "round"
  /\ SmStep(Event("down"), Self, conn, doing)
  /\ UNCHANGED <<round, doing, err, chip, others, faults>>

ClientListen ==
  \/ Round \/ ReadSelf \/ SelfEvent \/ SelfVersion \/ SelfStart \/ Opened
  \/ SelfStop \/ StopEnds \/ SelfReset \/ Recovered \/ Rebooted \/ Up \/ Down
  \/ Dumped
  \/ \E c \in Conn : ReadUser(c) \/ ReadReset(c) \/ ReadDump(c) \/ ReadEnd(c)

(***************************************************************************)
(* cp2_listen_thread: handle_cp2_assert, handle_cp2_watchdog_exception     *)
(***************************************************************************)
\* Slip: the event is sent under a name that no branch knows.
ReportUnknown == SelfCmd("assert")
\* notify_cp2_exception: the machine is told through the socket pair, then
\* the clients directly.
Report    == SelfCmd("cp2assert")
ToClients == Told /\ UNCHANGED <<sm, selfq, on>>

Listen ==
  /\ \/ /\ listen = "select" /\ irq /\ listen' = "check"
        /\ err' = TRUE /\ irq' = FALSE /\ UNCHANGED smVars
     \/ /\ listen = "check" /\ listen' = IF doing THEN "select" ELSE "sleep"
        /\ UNCHANGED <<smVars, err, irq>>
     \/ /\ listen = "sleep" /\ listen' = "notify"
        /\ Report /\ UNCHANGED <<sm, conn, on, err, irq>>
     \/ /\ listen = "notify" /\ listen' = "select"
        /\ ToClients /\ UNCHANGED <<err, irq>>
  /\ UNCHANGED <<round, srv, doing, cp2, loop, main, bound, asked, faults>>

(***************************************************************************)
(* cp2_loop_check_thread: a look at the error flag at its start, then a    *)
(* probe again and again; handle_cp2_loop_check_fail                       *)
(***************************************************************************)
Loop ==
  /\ \/ \E enabled \in ResetModes :
          /\ loop = "boot"
          /\ loop' = IF err /\ ~doing /\ enabled THEN "check" ELSE "poll"
          /\ err' = (err \/ loop' = "check") /\ UNCHANGED smVars
     \/ /\ loop = "poll" /\ cp2 # "alive"
        /\ sm.notify /\ sm.state = "STARTED" /\ ~err
        /\ loop' = "sleep" /\ UNCHANGED <<smVars, err>>
     \/ /\ loop = "sleep" /\ loop' = "check" /\ err' = TRUE
        /\ UNCHANGED smVars
     \/ /\ loop = "check" /\ loop' = IF doing THEN "poll" ELSE "send"
        /\ UNCHANGED <<smVars, err>>
     \/ /\ loop = "send" /\ loop' = "notify"
        /\ Report /\ UNCHANGED <<sm, conn, on, err>>
     \/ /\ loop = "notify" /\ loop' = "poll" /\ ToClients /\ UNCHANGED err
  /\ UNCHANGED <<round, srv, doing, chip, listen, main, bound, asked,
                 faults>>

(***************************************************************************)
(* store_cp2_version_info, once after the start; each wait ends after ten  *)
(* seconds.                                                                *)
(***************************************************************************)
Main ==
  /\ \/ main = "start" /\ main' = "wait" /\ SelfCmd("poweron")
     \/ /\ main = "wait" /\ sm.state = "STARTED" /\ main' = "version"
        /\ SelfCmd("getcp2version")
     \/ /\ main = "wait" /\ sm.state # "STARTED" /\ main' = "done"
        /\ UNCHANGED selfq
     \/ main = "version" /\ main' = "done" /\ SelfCmd("poweroff")
  /\ UNCHANGED <<sm, conn, on, round, srv, doing, err, chip, listen, loop,
                 bound, asked, faults>>

Env == \/ \E c \in Conn : (\E r \in Requests[c] : Connect(c, r)) \/ GiveUp(c)
       \/ Die
Next == Env \/ ClientListen \/ Listen \/ Loop \/ Main

Spec == Init /\ [][Next]_vars
\* Every thread runs; nothing is asked of clients and of CP2.
FairSpec == Spec /\ WF_vars(ClientListen) /\ WF_vars(Listen) /\ WF_vars(Loop)
                 /\ WF_vars(Main)

(***************************************************************************)
(* Properties                                                              *)
(***************************************************************************)
Outstanding(cmd) == \/ \E i \in 1..Len(selfq) : selfq[i] = cmd
                    \/ \E i \in 1..Len(todo) : todo[i] = cmd

\* The machine never waits for an event nobody will send: while it starts or
\* stops CP2, the command that does so is in the socket pair, read and not
\* dispatched, or being executed (wcnd_sm.c:193, 388).
NeverWaitsInVain ==
  /\ sm.state = "STARTING" =>
       Outstanding("startcp2") \/ srv \in {"opening", "up", "down"}
  /\ sm.state = "STOPPING" => Outstanding("stopcp2") \/ srv \in {"stopping", "down"}

Calm == faults = 0

\* While nothing fails and no open came during a stop, a user whose open was
\* answered OK and that has not asked for its close is counted in
\* btwifi_state, and CP2 is not switched off under it (wcnd_sm.c:352-375).
OpenMeansPowered ==
  Calm /\ sm.pending = {} =>
    /\ on \subseteq sm.btwifi
    /\ on # {} => sm.state \notin {"STOPPED", "STOPPING"}

\* The same for every open: an open that came during a stop is kept in
\* pending_events to be handled in the next state (wcnd.h:259), and CP2 is
\* not shut down while one of BT, WIFI, FM is open (wcnd_sm.c:373).
KeepsUsersUp == Calm /\ on # {} => sm.state \notin {"STOPPED", "STOPPING"}

\* Every command is answered, whatever the state in which it comes (the
\* answers of the five handlers of wcnd_sm.c), while CP2 has not failed: neither
\* really nor because the loop check thread, at its start, took the flag of a
\* dump for an assert that nobody had heard of (wcnd.c:2203).
RequestsAnswered ==
  \A c \in Conn : conn[c].ask # NoCmd
                    ~> conn[c].ask = NoCmd \/ ~Calm \/ sm.state = "ASSERT"

\* A CP2 that is dead is noticed, whether its interrupt comes, comes during a
\* start, or does not come at all (wcnd.c:1561, 1625, 1993).
DeadNoticed ==
  sm.state = "STARTED" /\ cp2 = "dead" ~> sm.state # "STARTED" \/ cp2 # "dead"

\* An assert is followed by the reset of CP2 (wcnd.c:1544-1549): the machine
\* does not stay in the state CP2_ASSERT.
AssertGetsReset == sm.state = "ASSERT" ~> sm.state # "ASSERT"
=============================================================================
