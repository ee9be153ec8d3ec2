---------------------------- MODULE ModemProofs ----------------------------
(***************************************************************************)
(* Theorems about Modem, for any number of deaths of the modem and exits   *)
(* of modemd: the reset of the modem is one token, which exists only while *)
(* the modem is down.                                                      *)
(***************************************************************************)
EXTENDS Modem, TLAPS

\* sem_first_boot is posted once in the life of a listening thread.
PostedOnce == listen \in {"start", "load1", "boot1", "post"} => sem = 0

\* Where the news of a reset of the modem can be
InDev  == "wdg" \in dev
InUp   == "Reset" \in up
InCtl  == ctl \in {"stopReset", "reset"}
InDown == down = "Reset"

\* While modem_control lives it is in one place at most, and the modem is still
\* down; it is off while it is loaded.
OneToken ==
  /\ InDev => ~InUp /\ ~InCtl /\ ~InDown
  /\ InUp  => ~InCtl /\ ~InDown
  /\ InCtl => ~InDown
  /\ InDev \/ InUp \/ InCtl \/ InDown => cp = "reset"
  /\ listen \in Loading \/ (listen = "start" /\ shutdown) => cp = "off"

\* From the order to load on, nothing is started.
NoStart ==
  ctl = "reset" \/ InDown \/ listen = "load" => ~services /\ ctl # "start"

Alive1 == "restart" \notin mishaps
Tokens == Alive1 => OneToken /\ NoStart

\* Every action is one of a thread, of the modem or of the environment.
LEMMA Split ==
  ASSUME [Next]_vars
  PROVE  \/ Boots \/ Dies \/ Detect \/ Listen \/ TooLate \/ Ctl \/ Exit \/ Main
         \/ Report \/ Blk \/ UNCHANGED vars
  BY DEF Next

\* The first values have their types.
LEMMA TypeInit == Init => TypeOK /\ PostedOnce
  BY BoundsAssumption, FlagAssumption DEF Init, TypeOK, McType, MdType, EnvType, PostedOnce, Device, News, Loading

\* What a step of modemd leaves alone keeps its type.
LEMMA McSame ==
  ASSUME McType, PostedOnce, UNCHANGED <<cpVars, mcVars, up, down>>,
         link' \in {"none", "pending", "open", "closed"}
  PROVE  McType' /\ PostedOnce'
  BY DEF McType, PostedOnce, cpVars, mcVars

\* The steps of detect_sipc_modem keep the types.
LEMMA DetectType ==
  ASSUME TypeOK, PostedOnce, Detect
  PROVE  TypeOK' /\ PostedOnce'
<1> USE DEF TypeOK, McType, MdType, EnvType, PostedOnce, Device, News, Order, Loading,
            cpVars, mcVars, blkVars, envVars
<1>1. CASE Accept
  BY <1>1 DEF Accept
<1>2. CASE SemWait
  BY <1>2 DEF SemWait
<1>3. CASE Inform
  BY <1>3 DEF Inform
<1>4. CASE Select
  <2>1. CASE link = "open"
    <3>1. McType' /\ PostedOnce'
      BY <1>4, <2>1 DEF Select, Restarted
    <3>2. MdType'
      BY <1>4, <2>1 DEF Select, Restarted
    <3>3. EnvType'
      BY <1>4, <2>1 DEF Select, Restarted
    <3> QED BY <3>1, <3>2, <3>3
  <2>2. CASE link = "closed" /\ Restarted
    <3>1. McType' /\ PostedOnce'
      BY <1>4, <2>2 DEF Select, Restarted
    <3>2. MdType'
      BY <1>4, <2>2 DEF Select, Restarted
    <3>3. EnvType'
      BY <1>4, <2>2 DEF Select, Restarted
    <3> QED BY <3>1, <3>2, <3>3
  <2> QED BY <1>4, <2>1, <2>2 DEF Select
<1> QED BY <1>1, <1>2, <1>3, <1>4 DEF Detect

\* The steps of modem_ctrl_listen_thread keep the types.
LEMMA ListenType ==
  ASSUME TypeOK, PostedOnce, Listen
  PROVE  TypeOK' /\ PostedOnce'
<1> USE DEF TypeOK, McType, MdType, EnvType, PostedOnce, Device, News, Order, Loading,
            cpVars, mcVars, blkVars, envVars
<1>1. CASE Start
  BY <1>1 DEF Start, ListenGoes
<1>2. CASE LoadEnds
  BY <1>2 DEF LoadEnds, ListenGoes
<1>3. CASE ModemAlive
  BY <1>3 DEF ModemAlive, ListenGoes
<1>4. CASE Post
  BY <1>4 DEF Post, ListenGoes
<1>5. CASE Wait
  <2>1. listen' \in {"read", "gone"} /\ UNCHANGED <<cp, down, sem, mishaps>>
    BY <1>5 DEF Wait, ListenGoes
  <2>2. UNCHANGED <<dev, link, up, detect, watch, ctl, alive, main, blk, phs,
                    report, state, services, reset, shutdown, bound>>
    BY <1>5 DEF Wait, ListenGoes
  <2>3. McType' /\ PostedOnce'
    BY <2>1, <2>2
  <2>4. MdType' /\ EnvType'
    BY <2>1, <2>2
  <2> QED BY <2>3, <2>4
<1>6. CASE ListenRead
  <2>1. /\ listen' \in {"load", "prepare", "gone", "read", "wait"}
        /\ down' = "none" /\ cp' \in {cp, "off"}
    BY <1>6 DEF ListenRead, ListenGoes, DownRead
  <2>2. UNCHANGED <<dev, link, up, detect, watch, ctl, alive, main, blk, phs,
                    report, state, services, reset, shutdown, sem, mishaps, bound>>
    BY <1>6 DEF ListenRead, ListenGoes
  <2>3. McType' /\ PostedOnce'
    BY <2>1, <2>2
  <2>4. MdType' /\ EnvType'
    BY <2>1, <2>2
  <2> QED BY <2>3, <2>4
<1>7. CASE Prepare
  <2>1. McType' /\ PostedOnce'
    BY <1>7 DEF Prepare
  <2>2. MdType'
    BY <1>7 DEF Prepare
  <2>3. EnvType'
    BY <1>7 DEF Prepare
  <2> QED BY <2>1, <2>2, <2>3
<1>8. CASE ListenTell
  <2>1. CASE link = "open"
    <3>1. McType' /\ PostedOnce'
      BY <1>8, <2>1 DEF ListenTell, Restarted
    <3>2. MdType'
      BY <1>8, <2>1 DEF ListenTell, Restarted
    <3>3. EnvType'
      BY <1>8, <2>1 DEF ListenTell, Restarted
    <3> QED BY <3>1, <3>2, <3>3
  <2>2. CASE link = "closed" /\ Restarted
    <3>1. McType' /\ PostedOnce'
      BY <1>8, <2>2 DEF ListenTell, Restarted
    <3>2. MdType'
      BY <1>8, <2>2 DEF ListenTell, Restarted
    <3>3. EnvType'
      BY <1>8, <2>2 DEF ListenTell, Restarted
    <3> QED BY <3>1, <3>2, <3>3
  <2> QED BY <1>8, <2>1, <2>2 DEF ListenTell
<1> QED BY <1>1, <1>2, <1>3, <1>4, <1>5, <1>6, <1>7, <1>8 DEF Listen

\* The steps of detect_modem_control keep the types.
LEMMA CtlType ==
  ASSUME TypeOK, PostedOnce, Ctl
  PROVE  TypeOK' /\ PostedOnce'
<1> USE DEF TypeOK, McType, MdType, EnvType, PostedOnce, Device, News, Order, Loading,
            cpVars, mcVars, blkVars, envVars
<1>1. CASE Connect
  <2>1. UNCHANGED <<cpVars, mcVars, up, down>>
    BY <1>1 DEF Connect, CtlGoes
  <2>2. link' \in {"none", "pending", "open", "closed"}
    BY <1>1 DEF Connect, CtlGoes
  <2>3. McType' /\ PostedOnce'
    BY <2>1, <2>2, McSame
  <2>4. MdType'
    BY <1>1 DEF Connect, CtlGoes
  <2>5. EnvType'
    BY <1>1 DEF Connect, CtlGoes
  <2> QED BY <2>3, <2>4, <2>5
<1>2. CASE CtlRead
  <2>1. CASE CtlGoes("signal")
    <3>1. McType' /\ PostedOnce'
      BY <1>2, <2>1 DEF CtlRead, CtlGoes
    <3>2. MdType'
      BY <1>2, <2>1 DEF CtlRead, CtlGoes
    <3>3. EnvType'
      BY <1>2, <2>1 DEF CtlRead, CtlGoes
    <3> QED BY <3>1, <3>2, <3>3
  <2>2. CASE CtlGoes("stopAssert")
    <3>1. McType' /\ PostedOnce'
      BY <1>2, <2>2 DEF CtlRead, CtlGoes
    <3>2. MdType'
      BY <1>2, <2>2 DEF CtlRead, CtlGoes
    <3>3. EnvType'
      BY <1>2, <2>2 DEF CtlRead, CtlGoes
    <3> QED BY <3>1, <3>2, <3>3
  <2>3. CASE CtlGoes("stopReset")
    <3>1. McType' /\ PostedOnce'
      BY <1>2, <2>3 DEF CtlRead, CtlGoes
    <3>2. MdType'
      BY <1>2, <2>3 DEF CtlRead, CtlGoes
    <3>3. EnvType'
      BY <1>2, <2>3 DEF CtlRead, CtlGoes
    <3> QED BY <3>1, <3>2, <3>3
  <2> QED BY <1>2, <2>1, <2>2, <2>3 DEF CtlRead
<1>3. CASE Signal
  BY <1>3 DEF Signal, CtlGoes
<1>4. CASE Answered
  BY <1>4 DEF Answered, CtlGoes
<1>5. CASE StartService
  BY <1>5 DEF StartService, CtlGoes
<1>6. CASE CtlStop
  <2>1. UNCHANGED <<cpVars, mcVars, up, down>>
    BY <1>6 DEF CtlStop, CtlGoes, StopService
  <2>2. link' \in {"none", "pending", "open", "closed"}
    BY <1>6 DEF CtlStop, CtlGoes, StopService
  <2>3. McType' /\ PostedOnce'
    BY <2>1, <2>2, McSame
  <2>4. MdType'
    BY <1>6 DEF CtlStop, CtlGoes, StopService
  <2>5. EnvType'
    BY <1>6 DEF CtlStop, CtlGoes, StopService
  <2> QED BY <2>3, <2>4, <2>5
<1>7. CASE CtlWrite
  BY <1>7 DEF CtlWrite, CtlGoes, Write
<1> QED BY <1>1, <1>2, <1>3, <1>4, <1>5, <1>6, <1>7 DEF Ctl

\* The steps of start_modem keep the types.
LEMMA MainType ==
  ASSUME TypeOK, PostedOnce, Main
  PROVE  TypeOK' /\ PostedOnce'
<1> USE DEF TypeOK, McType, MdType, EnvType, PostedOnce, Device, News, Order, Loading,
            cpVars, mcVars, blkVars, envVars
<1>1. CASE MainCheck
  BY <1>1 DEF MainCheck, MainGoes
<1>2. CASE MainWait
  BY <1>2 DEF MainWait, MainGoes
<1>3. CASE MainBlk
  BY <1>3 DEF MainBlk, MainGoes
<1> QED BY <1>1, <1>2, <1>3 DEF Main

\* The steps of detect_modem_blocked keep the types.
LEMMA BlkType ==
  ASSUME TypeOK, PostedOnce, Blk
  PROVE  TypeOK' /\ PostedOnce'
<1> USE DEF TypeOK, McType, MdType, EnvType, PostedOnce, Device, News, Order, Loading,
            cpVars, mcVars, blkVars, envVars
<1>1. CASE BlkConnect
  <2>1. UNCHANGED <<cpVars, mcVars, up, down>>
    BY <1>1 DEF BlkConnect, BlkGoes
  <2>2. link' \in {"none", "pending", "open", "closed"}
    BY <1>1 DEF BlkConnect, BlkGoes
  <2>3. McType' /\ PostedOnce'
    BY <2>1, <2>2, McSame
  <2>4. MdType'
    BY <1>1 DEF BlkConnect, BlkGoes
  <2>5. EnvType'
    BY <1>1 DEF BlkConnect, BlkGoes
  <2> QED BY <2>3, <2>4, <2>5
<1>2. CASE BlkRead
  <2>1. UNCHANGED <<cpVars, mcVars, up, down>>
    BY <1>2 DEF BlkRead, BlkGoes
  <2>2. link' \in {"none", "pending", "open", "closed"}
    BY <1>2 DEF BlkRead, BlkGoes
  <2>3. McType' /\ PostedOnce'
    BY <2>1, <2>2, McSame
  <2>4. MdType'
    BY <1>2 DEF BlkRead, BlkGoes
  <2>5. EnvType'
    BY <1>2 DEF BlkRead, BlkGoes
  <2> QED BY <2>3, <2>4, <2>5
<1>3. CASE BlkEnd
  BY <1>3 DEF BlkEnd, BlkGoes
<1>4. CASE BlkStop
  <2>1. UNCHANGED <<cpVars, mcVars, up, down>>
    BY <1>4 DEF BlkStop, BlkGoes, StopService
  <2>2. link' \in {"none", "pending", "open", "closed"}
    BY <1>4 DEF BlkStop, BlkGoes, StopService
  <2>3. McType' /\ PostedOnce'
    BY <2>1, <2>2, McSame
  <2>4. MdType'
    BY <1>4 DEF BlkStop, BlkGoes, StopService
  <2>5. EnvType'
    BY <1>4 DEF BlkStop, BlkGoes, StopService
  <2> QED BY <2>3, <2>4, <2>5
<1>5. CASE BlkWrite
  BY <1>5 DEF BlkWrite, BlkGoes, Write
<1> QED BY <1>1, <1>2, <1>3, <1>4, <1>5 DEF Blk

\* So does every step.
LEMMA TypeNext == TypeOK /\ PostedOnce /\ [Next]_vars => TypeOK' /\ PostedOnce'
<1> SUFFICES ASSUME TypeOK, PostedOnce, [Next]_vars PROVE TypeOK' /\ PostedOnce'
  OBVIOUS
<1>1. CASE Detect \/ Listen \/ Ctl \/ Main \/ Blk
  BY <1>1, DetectType, ListenType, CtlType, MainType, BlkType
<1> USE DEF TypeOK, McType, MdType, EnvType, PostedOnce, Device, Loading, Rest, cpVars, mcVars, blkVars, envVars
<1>2. CASE Boots
  BY <1>2 DEF Boots
<1>3. CASE Dies
  BY <1>3 DEF Dies
<1>4. CASE TooLate
  BY <1>4 DEF TooLate, ListenGoes
<1>5. CASE Exit
  <2>1. McType' /\ PostedOnce'
    BY <1>5 DEF Exit
  <2>2. MdType'
    BY <1>5 DEF Exit
  <2>3. EnvType'
    BY <1>5 DEF Exit
  <2> QED BY <2>1, <2>2, <2>3
<1>6. CASE Report
  BY <1>6 DEF Report
<1>7. CASE UNCHANGED vars
  BY <1>7 DEF vars
<1> QED BY <1>1, <1>2, <1>3, <1>4, <1>5, <1>6, <1>7, Split

\* Every variable keeps its type, and sem_first_boot is 0 or 1: the listening
\* thread posts it once, whatever loads come later (modem_control.c:853).
THEOREM TypeCorrect == Spec => []TypeOK
<1>1. Spec => [](TypeOK /\ PostedOnce)
  BY TypeInit, TypeNext, PTL DEF Spec
<1> QED BY <1>1, PTL

(***************************************************************************)
(* The token                                                               *)
(***************************************************************************)
\* At first there is none.
LEMMA TokensInit == Init => Tokens
  BY DEF Init, Tokens, OneToken, NoStart, InDev, InUp, InCtl, InDown, Loading

\* detect_sipc_modem passes the token on to modemd.
LEMMA DetectTokens ==
  ASSUME TypeOK, Tokens, Detect
  PROVE  Tokens'
<1> USE DEF Tokens, Alive1, OneToken, NoStart, InDev, InUp, InCtl, InDown, Loading,
            cpVars, mcVars, blkVars, envVars
<1>1. CASE Accept
  BY <1>1 DEF Accept
<1>2. CASE SemWait
  BY <1>2 DEF SemWait
<1>3. CASE Inform
  BY <1>3 DEF Inform
<1>4. CASE Select
  <2>1. CASE link = "open" /\ "assert" \in watch \cap dev
    BY <1>4, <2>1 DEF Select
  <2>2. CASE link = "open" /\ "assert" \notin watch \cap dev
    <3>1. "wdg" \in dev /\ dev' = dev \ {"wdg"} /\ up' = up \cup {"Reset"}
      BY <1>4, <2>2 DEF Select, TypeOK, McType, Device
    <3> QED BY <1>4, <2>2, <3>1 DEF Select
  <2>3. CASE Restarted
    BY <2>3 DEF Restarted
  <2> QED BY <1>4, <2>1, <2>2, <2>3 DEF Select
<1> QED BY <1>1, <1>2, <1>3, <1>4 DEF Detect

\* modem_ctrl_listen_thread consumes it with the load, and makes a new one by 'z'.
LEMMA ListenTokens ==
  ASSUME Tokens, Listen
  PROVE  Tokens'
<1> USE DEF Tokens, Alive1, OneToken, NoStart, InDev, InUp, InCtl, InDown, Loading,
            cpVars, mcVars, blkVars, envVars
<1>1. CASE Start
  BY <1>1 DEF Start, ListenGoes
<1>2. CASE LoadEnds
  BY <1>2 DEF LoadEnds, ListenGoes
<1>3. CASE ModemAlive
  BY <1>3 DEF ModemAlive, ListenGoes
<1>4. CASE Post
  BY <1>4 DEF Post, ListenGoes
<1>5. CASE Wait
  BY <1>5 DEF Wait, ListenGoes
<1>6. CASE ListenRead
  BY <1>6 DEF ListenRead, ListenGoes, DownRead
<1>7. CASE Prepare
  BY <1>7 DEF Prepare
<1>8. CASE ListenTell
  BY <1>8 DEF ListenTell, Restarted
<1> QED BY <1>1, <1>2, <1>3, <1>4, <1>5, <1>6, <1>7, <1>8 DEF Listen

\* detect_modem_control stops the services before it passes the token back.
LEMMA CtlTokens ==
  ASSUME Tokens, Ctl
  PROVE  Tokens'
<1> USE DEF Tokens, Alive1, OneToken, NoStart, InDev, InUp, InCtl, InDown, Loading,
            cpVars, mcVars, blkVars, envVars
<1>1. CASE Connect
  BY <1>1 DEF Connect, CtlGoes
<1>2. CASE CtlRead
  BY <1>2 DEF CtlRead, CtlGoes
<1>3. CASE Signal
  BY <1>3 DEF Signal, CtlGoes
<1>4. CASE Answered
  BY <1>4 DEF Answered, CtlGoes
<1>5. CASE StartService
  BY <1>5 DEF StartService, CtlGoes
<1>6. CASE CtlStop
  BY <1>6 DEF CtlStop, CtlGoes, StopService
<1>7. CASE CtlWrite
  BY <1>7 DEF CtlWrite, CtlGoes, Write
<1> QED BY <1>1, <1>2, <1>3, <1>4, <1>5, <1>6, <1>7 DEF Ctl

\* start_modem has no part in it.
LEMMA MainTokens ==
  ASSUME Tokens, Main
  PROVE  Tokens'
<1> USE DEF Tokens, Alive1, OneToken, NoStart, InDev, InUp, InCtl, InDown, Loading,
            cpVars, mcVars, blkVars, envVars
<1>1. CASE MainCheck
  BY <1>1 DEF MainCheck, MainGoes
<1>2. CASE MainWait
  BY <1>2 DEF MainWait, MainGoes
<1>3. CASE MainBlk
  BY <1>3 DEF MainBlk, MainGoes
<1> QED BY <1>1, <1>2, <1>3 DEF Main

\* detect_modem_blocked neither makes nor takes a token.
LEMMA BlkTokens ==
  ASSUME Tokens, Blk
  PROVE  Tokens'
<1> USE DEF Tokens, Alive1, OneToken, NoStart, InDev, InUp, InCtl, InDown, Loading,
            cpVars, mcVars, blkVars, envVars
<1>1. CASE BlkConnect
  BY <1>1 DEF BlkConnect, BlkGoes
<1>2. CASE BlkRead
  BY <1>2 DEF BlkRead, BlkGoes
<1>3. CASE BlkEnd
  BY <1>3 DEF BlkEnd, BlkGoes
<1>4. CASE BlkStop
  BY <1>4 DEF BlkStop, BlkGoes, StopService
<1>5. CASE BlkWrite
  BY <1>5 DEF BlkWrite, BlkGoes, Write
<1> QED BY <1>1, <1>2, <1>3, <1>4, <1>5 DEF Blk

\* Every step keeps the token where it is, passes it on, or loses it.
LEMMA TokensNext == TypeOK /\ Tokens /\ [Next]_vars => Tokens'
<1> SUFFICES ASSUME TypeOK, Tokens, [Next]_vars PROVE Tokens'
  OBVIOUS
<1>1. CASE Detect \/ Listen \/ Ctl \/ Main \/ Blk
  BY <1>1, DetectTokens, ListenTokens, CtlTokens, MainTokens, BlkTokens
<1> USE DEF Tokens, Alive1, OneToken, NoStart, InDev, InUp, InCtl, InDown, Loading,
            cpVars, mcVars, blkVars, envVars
<1>2. CASE Boots
  BY <1>2 DEF Boots, Rest
<1>3. CASE Dies
  BY <1>3 DEF Dies, Rest
<1>4. CASE TooLate
  BY <1>4 DEF TooLate, ListenGoes
<1>5. CASE Exit
  BY <1>5 DEF Exit
<1>6. CASE Report
  BY <1>6 DEF Report
<1>7. CASE UNCHANGED vars
  BY <1>7 DEF vars
<1> QED BY <1>1, <1>2, <1>3, <1>4, <1>5, <1>6, <1>7, Split

\* The token is an invariant of every behaviour.
LEMMA TokensCorrect == Spec => []Tokens
  BY TokensInit, TokensNext, TypeCorrect, PTL DEF Spec

\* However the messages of modem_control and modemd meet, the NV images are read
\* on an order only while nvitemd is stopped (modem_control.c:603-615).
THEOREM NvQuietCorrect == Spec => []NvQuiet
<1>1. Tokens => NvQuiet
  BY DEF Tokens, Alive1, NoStart, NvQuiet
<1> QED BY <1>1, TokensCorrect, PTL

\* However often the modem dies, an order never stops one that is running again
\* (modem_control.c:872-878).
THEOREM LiveUntouchedCorrect == Spec => LiveUntouched
<1>1. ASSUME Tokens, Next, "restart" \notin mishaps, listen = "read", listen' = "load"
      PROVE  cp \notin {"booting", "alive"}
  <2>1. CASE Listen
    <3>1. down = "Reset"
      BY <1>1, <2>1 DEF Listen, Start, LoadEnds, ModemAlive, Post, Wait, ListenRead,
         Prepare, ListenTell, ListenGoes
    <3> QED BY <1>1, <3>1 DEF Tokens, Alive1, OneToken, InDown
  <2>2. CASE ~Listen
    <3>1. listen' \in {listen, "start", "gone"}
      BY <1>1, <2>2 DEF Next, Boots, Dies, Detect, Accept, SemWait, Inform, Select,
         Restarted, TooLate, ListenGoes, Ctl, Connect, CtlRead, Signal, Answered,
         StartService, CtlStop, CtlWrite, CtlGoes, Exit, Main, MainCheck, MainWait,
         MainBlk, MainGoes, Report, Blk, BlkConnect, BlkRead, BlkEnd, BlkStop,
         BlkWrite, BlkGoes, Rest, mcVars
    <3> QED BY <1>1, <3>1
  <2> QED BY <2>1, <2>2
<1>2. Tokens /\ [Next]_vars =>
        [("restart" \notin mishaps /\ listen = "read" /\ listen' = "load")
           => cp \notin {"booting", "alive"}]_vars
  BY <1>1
<1> QED BY <1>2, TokensCorrect, PTL DEF Spec, LiveUntouched
=============================================================================
