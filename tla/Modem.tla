-------------------------------- MODULE Modem --------------------------------
(***************************************************************************)
(* The life of an internal modem (CP): modem_control, which loads it and   *)
(* watches its devices (open-source/apps/modem_control/modem_control.c),   *)
(* modemd, which starts and stops what depends on it (modemd.c,            *)
(* modemd_sipc.c), and the one stream socket between them.                 *)
(*                                                                         *)
(* modem_control has two threads, "detect" (detect_sipc_modem) and         *)
(* "listen" (modem_ctrl_listen_thread); modemd has three that matter:      *)
(* "ctl" (detect_modem_control), "main" (start_modem) and "blk"            *)
(* (detect_modem_blocked).  init restarts either process when it ends.     *)
(* Neither protocol frames its messages: a read takes all that is there.   *)
(***************************************************************************)
EXTENDS Naturals, FiniteSets

CONSTANTS
  Bounds,      \* set of [deaths, exits]: how often the CP dies, modemd exits
  Shutdowns,   \* subset of BOOLEAN: is "shutdown" on the kernel command line
  Resets       \* subset of BOOLEAN: may the modem be reset after an assert

ASSUME BoundsAssumption ==
  Bounds \subseteq [deaths : Nat, exits : Nat]
ASSUME FlagAssumption == Shutdowns \subseteq BOOLEAN /\ Resets \subseteq BOOLEAN

Device == {"assert", "wdg"}                  \* assert_fd, watchdog_fd
News   == {"Alive", "Assert", "Reset"}       \* modem_control to modemd
Order  == {"Prepare", "Reset"}               \* modemd to modem_control

VARIABLES
  cp,          \* the modem: off, booting, alive, hung, assert, reset
  dev,         \* the devices with something to read
  link,        \* the socket, seen from modem_control
  up,          \* News not read yet
  down,        \* the first Order not read yet, "none"
  detect, watch, sem,         \* thread, its rfds, sem_first_boot
  listen,                     \* thread
  ctl, alive,                 \* thread, modem_alive
  main,                       \* thread, up to the creation of "blk"
  blk, phs, report, state,    \* thread, its socket, sp_modem_state
  services,    \* phoneserver, rild and nvitemd have been started
  reset,       \* MODEM_RESET_PROP
  shutdown,    \* the kernel command line
  bound,       \* what may still happen
  mishaps      \* "late": a boot took longer than 8 s; "restart": see Restarted

cpVars   == <<cp, dev>>
mcVars   == <<detect, watch, sem, listen>>
blkVars  == <<blk, phs, report, state>>
envVars  == <<reset, shutdown, bound, mishaps>>
vars     == <<cpVars, link, up, down, mcVars, ctl, alive, main, blkVars,
              services, envVars>>

Init ==
  /\ reset \in Resets /\ shutdown \in Shutdowns /\ bound \in Bounds
  /\ mishaps = {}
  /\ cp = (IF shutdown THEN "off" ELSE "booting") /\ dev = {}
  /\ link = "none" /\ up = {} /\ down = "none"
  /\ detect = "accept" /\ watch = {} /\ sem = 0 /\ listen = "start"
  /\ ctl = "connect" /\ alive = FALSE /\ main = "check"
  /\ blk = "none" /\ phs = "none" /\ report = FALSE /\ state = "ready"
  /\ services = FALSE

(***************************************************************************)
(* The modem (external)                                                    *)
(***************************************************************************)
Rest == <<link, up, down, mcVars, ctl, alive, main, blkVars, services>>

\* It answers, on the tty that wait_for_modem_alive reads.
Boots == /\ cp = "booting" /\ cp' = "alive"
         /\ UNCHANGED <<dev, Rest, envVars>>

\* It asserts, is reset by its watchdog, or no longer answers.
Dies ==
  /\ cp = "alive" /\ bound.deaths > 0
  /\ \/ cp' = "assert" /\ dev' = dev \cup {"assert"}
     \/ cp' = "reset" /\ dev' = dev \cup {"wdg"}
     \/ cp' = "hung" /\ UNCHANGED dev
  /\ bound' = [bound EXCEPT !.deaths = @ - 1]
  /\ UNCHANGED <<Rest, reset, shutdown, mishaps>>

(***************************************************************************)
(* modem_control                                                           *)
(***************************************************************************)
\* A write to a socket whose peer has gone raises SIGPIPE, which nothing
\* handles: the process ends, and init starts it again.
Restarted ==
  /\ detect' = "accept" /\ watch' = {} /\ sem' = 0 /\ listen' = "start"
  /\ link' = "none" /\ up' = {} /\ down' = "none"
  /\ ctl' = IF ctl = "ignored" THEN "connect" ELSE ctl
  /\ mishaps' = mishaps \cup {"restart"}

\* accept() is called once: later connections wait in the backlog for ever.
Accept ==
  /\ detect = "accept" /\ link = "pending"
  /\ link' = "open" /\ detect' = "sem"
  /\ UNCHANGED <<cpVars, up, down, watch, sem, listen, ctl, alive, main,
                 blkVars, services, envVars>>
SemWait ==
  /\ detect = "sem" /\ sem > 0
  /\ sem' = sem - 1 /\ detect' = "tell"
  /\ UNCHANGED <<cpVars, link, up, down, watch, listen, ctl, alive, main,
                 blkVars, services, envVars>>

\* "inform modemd cp is running" (modemd, which ends in start_service only,
\* is still there), and the fd_set of the loop.
Inform ==
  /\ detect = "tell" /\ link = "open"
  /\ up' = up \cup {"Alive"}
  /\ detect' = "select" /\ watch' = Device
  /\ UNCHANGED <<cpVars, link, down, sem, listen, ctl, alive, main, blkVars,
                 services, envVars>>

\* select() leaves in rfds what is ready, and nothing sets it again.
Select ==
  LET ready == watch \cap dev
      d == IF "assert" \in ready THEN "assert" ELSE "wdg"
      m == IF d = "assert" THEN "Assert" ELSE "Reset"
  IN
  /\ detect = "select" /\ ready # {}
  /\ dev' = dev \ {d}
  /\ \/ /\ link = "open" /\ up' = up \cup {m}
        /\ watch' = ready
        /\ UNCHANGED <<link, down, detect, sem, listen, ctl, mishaps>>
     \/ link = "closed" /\ Restarted
  /\ UNCHANGED <<cp, alive, main, blkVars, services, reset, shutdown, bound>>

Detect == Accept \/ SemWait \/ Inform \/ Select
ListenGoes(l) ==
  /\ listen' = l
  /\ UNCHANGED <<dev, link, up, detect, watch, ctl, alive, main, blkVars,
                 services, reset, shutdown, bound>>

\* load_sipc_modem_img stops the CP, hands over NV and images, starts it.
Loading == {"load1", "load"}
Start == /\ listen = "start"
         /\ ListenGoes(IF shutdown THEN "load1" ELSE "post")
         /\ cp' = (IF shutdown THEN "off" ELSE cp)
         /\ UNCHANGED <<down, sem, mishaps>>
LoadEnds == /\ listen \in Loading
            /\ ListenGoes(IF listen = "load1" THEN "boot1" ELSE "boot")
            /\ cp' = "booting"
            /\ UNCHANGED <<down, sem, mishaps>>

\* Slip: every load goes on as the first one does.
ModemAlivePosts == /\ listen \in {"boot1", "boot"} /\ cp # "booting"
                   /\ ListenGoes("post") /\ UNCHANGED <<cp, down, sem, mishaps>>

\* wait_for_modem_alive: it reads the answer, or 8 s without one end the thread.
ModemAlive ==
  /\ listen \in {"boot1", "boot"} /\ cp # "booting"
  /\ ListenGoes(IF listen = "boot1" THEN "post" ELSE "tell")
  /\ UNCHANGED <<cp, down, sem, mishaps>>
TooLate ==
  /\ listen \in {"boot1", "boot"} /\ cp = "booting"
  /\ ListenGoes("gone") /\ mishaps' = mishaps \cup {"late"}
  /\ UNCHANGED <<cp, down, sem>>

\* Slip: the semaphore is posted only when modemd is already there.
PostLate == /\ listen = "post"
            /\ ListenGoes("wait") /\ sem' = IF link = "open" THEN sem + 1 ELSE sem
            /\ UNCHANGED <<cp, down, mishaps>>
Post == /\ listen = "post"
        /\ ListenGoes("wait") /\ sem' = sem + 1
        /\ UNCHANGED <<cp, down, mishaps>>

\* modemd has connected; or, after 200 ms, the thread ends without it.
Wait ==
  /\ listen = "wait"
  /\ \/ link \in {"open", "closed"} /\ ListenGoes("read")
     \/ link \in {"none", "pending"} /\ ListenGoes("gone")
  /\ UNCHANGED <<cp, down, sem, mishaps>>

\* Slip: what has been read stays in the buffer and is taken again.
DownKept == down

\* read() empties the socket, and strcmp sees the first message only.
DownRead == "none"
ListenRead ==
  /\ listen = "read"
  /\ down' = DownRead
  /\ \/ down = "Reset" /\ ListenGoes("load") /\ cp' = "off"
     \/ down = "Prepare" /\ ListenGoes("prepare") /\ UNCHANGED cp
     \/ down = "none" /\ link = "closed" /\ ListenGoes("gone") /\ UNCHANGED cp
  /\ UNCHANGED <<sem, mishaps>>

\* prepare_reset_modem: after the log is drained, 'z' resets a stopped CP.
Prepare ==
  /\ listen = "prepare" /\ listen' = "read"
  /\ IF cp \in {"assert", "hung"}
       THEN cp' = "reset" /\ dev' = dev \cup {"wdg"}
       ELSE UNCHANGED cpVars
  /\ UNCHANGED <<link, up, down, detect, watch, sem, ctl, alive, main, blkVars,
                 services, envVars>>
ListenTell ==
  /\ listen = "tell"
  /\ \/ /\ link = "open" /\ up' = up \cup {"Alive"} /\ listen' = "read"
        /\ UNCHANGED <<link, down, detect, watch, sem, ctl, mishaps>>
     \/ link = "closed" /\ Restarted
  /\ UNCHANGED <<cpVars, alive, main, blkVars, services, reset, shutdown, bound>>

Listen == Start \/ LoadEnds \/ ModemAlive \/ Post \/ Wait \/ ListenRead
          \/ Prepare \/ ListenTell

(***************************************************************************)
(* modemd                                                                  *)
(***************************************************************************)
\* write() to control_fd; what is behind an unread Order is never seen.
Write(o) == down' = IF down = "none" THEN o ELSE down

\* stop_service ends phoneserver, whose socket "blk" reads.
StopService ==
  /\ services' = FALSE
  /\ phs' = IF phs = "up" THEN "eof" ELSE phs

CtlGoes(c) ==
  /\ ctl' = c
  /\ UNCHANGED <<cpVars, mcVars, blk, report, state, envVars>>
Connect ==
  /\ ctl = "connect"
  /\ \/ link = "none" /\ link' = "pending" /\ CtlGoes("read")
     \/ link \in {"open", "closed"} /\ CtlGoes("ignored") /\ UNCHANGED link
  /\ UNCHANGED <<up, down, alive, main, phs, services>>

\* read(), and strstr in the order of the tests: the first match is handled.
CtlRead ==
  /\ ctl = "read" /\ up # {}
  /\ up' = {}
  /\ \/ "Alive" \in up /\ CtlGoes("signal") /\ alive' = TRUE
     \/ /\ "Alive" \notin up /\ "Assert" \in up
        /\ CtlGoes("stopAssert") /\ UNCHANGED alive
     \/ up = {"Reset"} /\ CtlGoes("stopReset") /\ UNCHANGED alive
  /\ UNCHANGED <<link, down, main, phs, services>>

\* pthread_cond_signal reaches "main" only if it waits already.
Signal ==
  /\ ctl = "signal" /\ CtlGoes("at")
  /\ main' = IF main = "wait" THEN "woken" ELSE main
  /\ UNCHANGED <<link, up, down, alive, phs, services>>

\* start_service talks to the modem (send_atcmd) before it starts anything,
\* and repeats an AT command until the modem answers ...
Answered == /\ ctl = "at" /\ cp = "alive" /\ CtlGoes("start")
            /\ UNCHANGED <<link, up, down, alive, main, phs, services>>
StartService == /\ ctl = "start" /\ CtlGoes("read")
                /\ services' = TRUE
                /\ UNCHANGED <<link, up, down, alive, main, phs>>

\* ... or a write to a modem that does not read fails: exit_modemd.
Exit ==
  /\ ctl = "at" /\ cp # "alive" /\ bound.exits > 0
  /\ bound' = [bound EXCEPT !.exits = @ - 1]
  /\ link' = "closed" /\ up' = {}
  /\ ctl' = "connect" /\ alive' = FALSE /\ main' = "check"
  /\ blk' = "none" /\ phs' = "none" /\ report' = FALSE /\ state' = "ready"
  /\ UNCHANGED <<cpVars, down, mcVars, services, reset, shutdown, mishaps>>

\* Slip: only an assert stops the services.
CtlStopAssert ==
  \/ /\ ctl = "stopAssert" /\ CtlGoes(IF reset THEN "prepare" ELSE "read")
     /\ StopService /\ UNCHANGED <<link, up, down, alive, main>>
  \/ /\ ctl = "stopReset" /\ CtlGoes("reset")
     /\ UNCHANGED <<link, up, down, alive, main, phs, services>>
CtlStop ==
  /\ \/ ctl = "stopAssert" /\ CtlGoes(IF reset THEN "prepare" ELSE "read")
     \/ ctl = "stopReset" /\ CtlGoes("reset")
  /\ StopService
  /\ UNCHANGED <<link, up, down, alive, main>>
CtlWrite ==
  /\ \/ ctl = "prepare" /\ Write("Prepare")
     \/ ctl = "reset" /\ Write("Reset")
  /\ CtlGoes("read")
  /\ UNCHANGED <<link, up, alive, main, phs, services>>

Ctl == Connect \/ CtlRead \/ Signal \/ Answered \/ StartService \/ CtlStop
       \/ CtlWrite

\* start_modem looks at modem_alive before it takes the mutex to wait.
MainGoes(m) == /\ main' = m
               /\ UNCHANGED <<cpVars, link, up, down, mcVars, ctl, alive, phs,
                              report, state, services, envVars>>
MainCheck == /\ main = "check"
             /\ MainGoes(IF alive THEN "woken" ELSE "lock") /\ UNCHANGED blk
MainWait  == main = "lock" /\ MainGoes("wait") /\ UNCHANGED blk
MainBlk   == main = "woken" /\ MainGoes("done") /\ blk' = "connect"
Main      == MainCheck \/ MainWait \/ MainBlk

\* phoneserver finds that the modem does not answer (external).
Report ==
  /\ phs = "up" /\ cp = "hung" /\ ~report
  /\ report' = TRUE
  /\ UNCHANGED <<cpVars, link, up, down, mcVars, ctl, alive, main, blk, phs,
                 state, services, envVars>>

BlkGoes(b) ==
  /\ blk' = b
  /\ UNCHANGED <<cpVars, link, up, mcVars, ctl, alive, main, envVars>>
BlkConnect == /\ blk = "connect" /\ services /\ BlkGoes("read")
              /\ phs' = "up" /\ report' = FALSE
              /\ UNCHANGED <<down, state, services>>

\* "Modem Blocked": nothing for an internal modem sets the state back.
BlkRead ==
  /\ blk = "read" /\ report /\ report' = FALSE
  /\ BlkGoes(IF state = "ready" THEN "stop" ELSE "read")
  /\ state' = "assert"
  /\ UNCHANGED <<down, phs, services>>
BlkEnd ==
  /\ blk = "read" /\ ~report /\ phs = "eof" /\ phs' = "none"
  /\ BlkGoes(IF state = "ready" THEN "connect" ELSE "cond")
  /\ UNCHANGED <<down, report, state, services>>
BlkStop ==
  /\ blk = "stop" /\ BlkGoes(IF reset THEN "prepare" ELSE "read")
  /\ StopService /\ UNCHANGED <<down, report, state>>
BlkWrite ==
  /\ blk = "prepare" /\ BlkGoes("read")
  /\ Write("Prepare") /\ UNCHANGED <<phs, report, state, services>>
Blk == BlkConnect \/ BlkRead \/ BlkEnd \/ BlkStop \/ BlkWrite

Next == Boots \/ Dies \/ Detect \/ Listen \/ TooLate \/ Ctl \/ Exit \/ Main
        \/ Report \/ Blk

Spec == Init /\ [][Next]_vars

\* Every thread is scheduled, and a modem that is started answers sometime.
\* Deaths, exits and late answers need not happen.
FairSpec == /\ Spec
            /\ WF_vars(Boots)
            /\ WF_vars(Detect) /\ WF_vars(Listen)
            /\ WF_vars(Ctl) /\ WF_vars(Main) /\ WF_vars(Blk)

(***************************************************************************)
(* Properties                                                              *)
(***************************************************************************)
McType ==
  /\ cp \in {"off", "booting", "alive", "hung", "assert", "reset"}
  /\ dev \subseteq Device /\ up \subseteq News /\ down \in Order \cup {"none"}
  /\ link \in {"none", "pending", "open", "closed"}
  /\ detect \in {"accept", "sem", "tell", "select"} /\ watch \subseteq Device
  /\ sem \in {0, 1}
  /\ listen \in {"start", "boot1", "boot", "post", "wait", "read", "prepare",
                 "tell", "gone"} \cup Loading
MdType ==
  /\ ctl \in {"connect", "ignored", "read", "signal", "at", "start",
              "stopAssert", "prepare", "stopReset", "reset"}
  /\ alive \in BOOLEAN /\ main \in {"check", "lock", "wait", "woken", "done"}
  /\ blk \in {"none", "connect", "read", "stop", "prepare", "cond"}
  /\ phs \in {"none", "up", "eof"} /\ report \in BOOLEAN
  /\ state \in {"ready", "assert"}
EnvType ==
  /\ {services, reset, shutdown} \subseteq BOOLEAN
  /\ mishaps \subseteq {"late", "restart"}
  /\ bound \in [deaths : Nat, exits : Nat]
TypeOK == McType /\ MdType /\ EnvType

\* While modem_control, on an Order, reads and repairs the NV images, nvitemd,
\* which writes them, has been stopped: no late, lost or repeated message lets
\* the load overlap with the services (read_nv_partition takes no lock, and
\* module NvBoot relies on this).  A modem_control that SIGPIPE has ended loads
\* the modem ("load1") although nothing has stopped the services, and reads
\* device events of the time before: it is not covered.
NvQuiet == listen = "load" /\ "restart" \notin mishaps => ~services

\* An Order is acted on at most once: a modem that is running again is not
\* reloaded because of the death before.
LiveUntouched ==
  [][("restart" \notin mishaps /\ listen = "read" /\ listen' = "load")
       => cp \notin {"booting", "alive"}]_vars

\* A modem that stays up ends with its services started, whatever was lost on
\* the way, unless modem_control had stopped waiting for it or has been
\* restarted (it reads an event of the time before), modemd has ended and is
\* not accepted again, or phoneserver reported the modem (BlkStop may come when
\* it is running again).
AliveServed ==
  <>[](cp = "alive" /\ mishaps = {} /\ ctl # "ignored" /\ state = "ready")
    => <>[]services

\* The first death of a modem that modem_control watches stops its services,
\* however its message meets the others, unless modem_control is restarted.
DeadStops ==
  (cp \in {"assert", "reset"} /\ detect = "select" /\ watch = Device)
    ~> (~services \/ "restart" \in mishaps)

\* modem_control.c:1031: "listen assert and WDG event".
EventsRead ==
  \A d \in Device : (detect = "select" /\ d \in dev)
                      ~> (detect # "select" \/ d \notin dev)
=============================================================================
