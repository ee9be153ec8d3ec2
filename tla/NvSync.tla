------------------------------ MODULE NvSync -------------------------------
(***************************************************************************)
(* The receiving side of nvitemd: packets of the modem (nvitem_packet.c)   *)
(* and the token analyzer (nvitem_sync.c), driving the store of module     *)
(* NvStore.  A request is a stream of tokens (head, bodies with their      *)
(* sectors, tail) that the modem cuts into packets; a packet carries a     *)
(* group number (one per request) and an index in the group.               *)
(*                                                                         *)
(* The analyzer's state is _id (reqPart of NvStore: NoPart in _syncState   *)
(* 0), the sectors to come (win: not empty in _syncState 2), syncReqFrame, *)
(* _syncBusy and the packet module's _idxGrp and _idxSub.  One action is   *)
(* one turn of syncAnalyzer's loop, so that the saver's steps fall between *)
(* any two tokens.                                                         *)
(***************************************************************************)
EXTENDS NvStore, Sequences

CONSTANTS
  Requests,     \* what the modem may ask: [part, data, stream]
  MaxGrp,       \* bound: number of groups the modem opens
  ChanMax,      \* bound: packets in flight
  PacketItems,  \* bound: items of one packet
  Lossy         \* packets may be lost or sent twice, channels may fail

ASSUME BoundAssumption == /\ MaxGrp \in Nat /\ ChanMax \in Nat \ {0}
                          /\ PacketItems \in Nat \ {0} /\ Lossy \in BOOLEAN

\* What a packet is made of: tokens, sectors, and tokens cut in two.  sec is a
\* ghost: the sector the modem means; on the wire there is only its content.
Item == [t : {"head"}, idx : Int, part : Int]
        \cup [t : {"body"}, idx : Int, secs : Ranges]
        \cup [t : {"tail"}, idx : Int]
        \cup [t : {"data"}, sec : Sect, v : Val]
        \cup [t : {"half1", "half2"}]
ASSUME RequestsAssumption == \A r \in Requests : r.stream \in Seq(Item)

\* The stream of a request: the head comes first, each body is followed by its
\* sectors in ascending order, the tail comes last, and data is what is left
\* when a later sector overwrites an earlier one.
Sectors(r) == {i \in DOMAIN r.stream : r.stream[i].t = "data"}
Holds(r, b, e, S) ==
  /\ b + 1 .. e \subseteq Sectors(r)
  /\ S = {r.stream[k].sec : k \in b + 1 .. e}
  /\ \A j, k \in b + 1 .. e : j < k => r.stream[j].sec < r.stream[k].sec
WellFormed(r) ==
  /\ \A i \in DOMAIN r.stream :
       LET x == r.stream[i] IN
       /\ x.t = "head" => i = 1 /\ x.part = r.part
       /\ x.t = "body" => \E e \in i .. Len(r.stream) : Holds(r, i, e, x.secs)
       /\ x.t = "tail" => i = Len(r.stream)
  /\ DOMAIN r.data = {r.stream[i].sec : i \in Sectors(r)}
  /\ \A i \in Sectors(r) :
       (\A j \in Sectors(r) : j > i => r.stream[j].sec # r.stream[i].sec)
         => r.data[r.stream[i].sec] = r.stream[i].v
ASSUME StreamsAssumption == \A r \in Requests : WellFormed(r)

VARIABLES
  idxGrp, idxSub,    \* nvitem_packet.c: the packet expected next
  busy, frame,       \* _syncBusy, syncReqFrame
  buf,               \* the items of the packet not analyzed yet (buf, size)
  cur,               \* ghost: the packet they came from, and where in its
                     \* request's stream it ends (past)
  owed,              \* the response to a complete request is still to be sent
  rsp,               \* ghost: the last response sent
  done,              \* ghost: the groups whose request has been committed
  mGrp, mSub, mLeft, mReq, mLast,   \* the modem
  chan               \* packets on the spipe channel

packetVars == <<idxGrp, idxSub>>
ghost      == <<cur, rsp, done>>
modemVars  == <<mGrp, mSub, mLeft, mReq, mLast, chan>>
storeVars  == vars
syncVars   == <<storeVars, packetVars, busy, frame, buf, ghost, owed, modemVars>>

NoGrp == -1                        \* _idxGrp after _initPacket
NoReq == [part |-> NoPart, data |-> <<>>, stream |-> <<>>]
NoPkt == [grp |-> NoGrp, end |-> FALSE, req |-> NoReq, past |-> 0]
NoRsp == [grp |-> NoGrp, end |-> FALSE, val |-> 0]

SInit ==
  /\ Init
  /\ idxGrp = NoGrp /\ idxSub = 0
  /\ busy = FALSE /\ frame = 0 /\ buf = <<>> /\ owed = FALSE
  /\ cur = NoPkt /\ rsp = NoRsp /\ done = {}
  /\ mGrp = NoGrp /\ mSub = 0 /\ mLeft = <<>> /\ mReq = NoReq /\ mLast = <<>>
  /\ chan = <<>>

(***************************************************************************)
(* The modem and the channel (not in this repository): it sends the        *)
(* packets of a request in order, may give up and begin another request in *)
(* a new group at any time, and a packet may be lost or repeated.          *)
(***************************************************************************)
ModemStart ==
  /\ mGrp < MaxGrp
  /\ mGrp' = mGrp + 1 /\ mSub' = 0
  /\ \E r \in Requests : mReq' = r /\ mLeft' = r.stream
  /\ UNCHANGED <<storeVars, packetVars, busy, frame, buf, ghost, owed, mLast,
                 chan>>

\* A token cut in two ends one packet and begins the next.
Cut(k) == \A j \in 1 .. k - 1 : mLeft[j].t # "half1"
ModemSend ==
  \E k \in 1 .. PacketItems :
    LET pkt == [grp |-> mGrp, sub |-> mSub, end |-> k = Len(mLeft),
                req |-> mReq, items |-> SubSeq(mLeft, 1, k),
                past |-> Len(mReq.stream) - Len(mLeft) + k]
    IN
    /\ k <= Len(mLeft) /\ Cut(k) /\ Len(chan) < ChanMax
    /\ mSub' = mSub + 1 /\ mLeft' = SubSeq(mLeft, k + 1, Len(mLeft))
    /\ mLast' = IF Lossy THEN <<pkt>> ELSE <<>>
    /\ \/ chan' = Append(chan, pkt)
       \/ Lossy /\ UNCHANGED chan
    /\ UNCHANGED <<storeVars, packetVars, busy, frame, buf, ghost, owed, mGrp,
                   mReq>>

ModemRepeat ==
  /\ Lossy /\ mLast # <<>> /\ Len(chan) < ChanMax
  /\ chan' = Append(chan, mLast[1]) /\ mLast' = <<>>
  /\ UNCHANGED <<storeVars, packetVars, busy, frame, buf, ghost, owed, mGrp,
                 mSub, mLeft, mReq>>

(***************************************************************************)
(* _getPacket and the outer loop of syncAnalyzer                           *)
(***************************************************************************)
Reading == pc["sync"] = "idle" /\ ~owed /\ buf = <<>>
Parsing == pc["sync"] = "idle" /\ ~owed /\ buf # <<>>
Respond(v) == rsp' = [grp |-> cur.grp, end |-> cur.end, val |-> v]

\* Slip: the request is forgotten, fromChannel keeps its half of it.
ResetFailKeepsData ==
  /\ reqPart' = NoPart /\ win' = {}
  /\ UNCHANGED <<ramVars, image, pc, at, ret, ghostVars>>

\* _syncReset(SYNC_FAIL_RESET): fromChannel is restored if a request is open.
ResetFail == IF reqPart # NoPart THEN SyncFail ELSE UNCHANGED storeVars

\* Slip: a packet may be missing between the last one and this one.
ExpectedLoose(p) == idxGrp = p.grp /\ p.sub > idxSub

\* _PACKET_CONTINUE, _PACKET_START or _PACKET_SKIP.
Expected(p)  == idxGrp = p.grp /\ p.sub = idxSub + 1
Opens1(p)    == idxGrp # p.grp /\ p.sub = 0
Origin(p)    == [grp |-> p.grp, end |-> p.end, req |-> p.req, past |-> p.past]
GetPacket ==
  LET p == Head(chan) IN
  /\ Reading /\ chan # <<>>
  /\ chan' = Tail(chan)
  /\ \/ /\ Expected(p) /\ busy
        /\ idxSub' = idxSub + 1
        /\ buf' = p.items /\ cur' = Origin(p)
        /\ UNCHANGED <<storeVars, idxGrp, busy, frame, rsp>>
     \/ \* no request is open: refused, and skipped
        /\ Expected(p) /\ ~busy
        /\ idxSub' = idxSub + 1
        /\ rsp' = [grp |-> p.grp, end |-> p.end, val |-> 0]
        /\ UNCHANGED <<storeVars, idxGrp, busy, frame, buf, cur>>
     \/ \* a new group ends the request that is open
        /\ Opens1(p)
        /\ idxGrp' = p.grp /\ idxSub' = 0
        /\ IF busy THEN ResetFail /\ frame' = 0 ELSE UNCHANGED <<storeVars, frame>>
        /\ busy' = TRUE
        /\ buf' = p.items /\ cur' = Origin(p)
        /\ UNCHANGED rsp
     \/ /\ ~Expected(p) /\ ~Opens1(p)
        /\ UNCHANGED <<storeVars, packetVars, busy, frame, buf, cur, rsp>>
  /\ UNCHANGED <<done, owed, mGrp, mSub, mLeft, mReq, mLast>>

\* channel_read fails: the request is dropped; main closes the channel, opens
\* it again and calls _initPacket and _syncInit.
ChannelFail ==
  /\ Lossy /\ Reading
  /\ ResetFail
  /\ idxGrp' = NoGrp /\ idxSub' = 0 /\ busy' = FALSE /\ frame' = 0
  /\ chan' = <<>>
  /\ UNCHANGED <<buf, ghost, owed, mGrp, mSub, mLeft, mReq, mLast>>

(***************************************************************************)
(* The inner loop of syncAnalyzer: one token or one sector per turn        *)
(***************************************************************************)
item  == Head(buf)
Whole == item.t \in {"head", "body", "tail"}
\* __getToken returns 0 and keeps nothing when fewer bytes than a token are
\* left: the piece of a token that ends a packet, or that is all of one.
Short == item.t \in {"half1", "half2"} /\ Len(buf) = 1

\* Slip: an error is answered like a success.
RefuseAcks ==
  /\ ResetFail
  /\ busy' = FALSE /\ frame' = 0 /\ buf' = <<>> /\ Respond(1)
  /\ UNCHANGED <<owed, cur, done>>

\* _syncReset(SYNC_FAIL_RESET) and response 0; the rest of the packet is lost.
Refuse ==
  /\ ResetFail
  /\ busy' = FALSE /\ frame' = 0 /\ buf' = <<>> /\ Respond(0)
  /\ UNCHANGED <<owed, cur, done>>

TokenShort ==
  /\ Parsing /\ win = {} /\ Short
  /\ buf' = <<>> /\ Respond(1)
  /\ UNCHANGED <<storeVars, packetVars, busy, frame, owed, cur, done, modemVars>>

\* _syncGetHead in _syncState 0.
TokenHead ==
  /\ Parsing /\ reqPart = NoPart /\ ~Short
  /\ \/ /\ Whole /\ item.t = "head" /\ item.part \in Part
        /\ SyncHead(item.part)
        /\ frame' = item.idx /\ buf' = Tail(buf)
        /\ UNCHANGED <<busy, owed, ghost>>
     \/ ~(Whole /\ item.t = "head" /\ item.part \in Part) /\ Refuse
  /\ UNCHANGED <<packetVars, modemVars>>

\* _syncGetBody in _syncState 1: a body, the tail, or an error.
InOrder == Whole /\ item.t \in {"body", "tail"} /\ item.idx = frame + 1
TokenBody ==
  /\ Parsing /\ reqPart # NoPart /\ win = {} /\ ~Short
  /\ \/ /\ InOrder /\ item.t = "body"
        /\ SyncBody(item.secs)
        /\ frame' = frame + 1 /\ buf' = Tail(buf)
        /\ UNCHANGED <<busy, owed, ghost>>
     \/ /\ InOrder /\ item.t = "tail"
        /\ SyncDone
        /\ frame' = 0 /\ busy' = FALSE /\ buf' = <<>> /\ owed' = TRUE
        /\ done' = done \cup {cur.grp}
        /\ UNCHANGED <<cur, rsp>>
     \/ ~InOrder /\ Refuse
  /\ UNCHANGED <<packetVars, modemVars>>

\* _syncGetData in _syncState 2, one sector at a time; response 1 when the
\* packet ends before the body does.
Data ==
  /\ Parsing /\ win # {} /\ item.t = "data"
  /\ SyncData(item.v)
  /\ buf' = Tail(buf)
  /\ IF buf' = <<>> /\ win' # {} THEN Respond(1) ELSE UNCHANGED rsp
  /\ UNCHANGED <<packetVars, busy, frame, owed, cur, done, modemVars>>

\* The response to the tail, after backupData has returned.
Answer ==
  /\ pc["sync"] = "idle" /\ owed
  /\ owed' = FALSE /\ Respond(1)
  /\ UNCHANGED <<storeVars, packetVars, busy, frame, buf, cur, done, modemVars>>

(***************************************************************************)
(* The store's other steps; a crash takes the receiver with it             *)
(***************************************************************************)
StoreStep ==
  /\ Boot \/ SyncSignal \/ SpuriousWake \/ \E t \in Thread : SaveToDisk(t)
  /\ UNCHANGED <<packetVars, busy, frame, buf, ghost, owed, modemVars>>

Restart ==
  /\ Crash
  /\ idxGrp' = NoGrp /\ idxSub' = 0 /\ busy' = FALSE /\ frame' = 0
  /\ buf' = <<>> /\ cur' = NoPkt /\ owed' = FALSE /\ chan' = <<>>
  /\ UNCHANGED <<rsp, done, mGrp, mSub, mLeft, mReq, mLast>>

Analyzer == \/ GetPacket \/ ChannelFail \/ TokenShort \/ TokenHead \/ TokenBody
            \/ Data \/ Answer
Modem    == ModemStart \/ ModemSend \/ ModemRepeat
SNext    == Modem \/ Analyzer \/ StoreStep \/ Restart

SSpec == SInit /\ [][SNext]_syncVars

(***************************************************************************)
(* Properties                                                              *)
(***************************************************************************)
\* The content of p after request r.
Apply(c, r) == [s \in Sect |-> IF s \in DOMAIN r.data THEN r.data[s] ELSE c[s]]

\* backup changes by whole requests only: when _syncReset(SYNC_SUC_RESET)
\* copies fromChannel, it holds the last committed content with exactly the
\* sectors of one request written over it, although packets were lost,
\* repeated or abandoned half-way before, and fromChannel with them.
CommitsWholeRequest ==
  [][done' # done =>
       bakData' = [bakData EXCEPT ![cur.req.part] = Apply(@, cur.req)]]_syncVars

\* The modem may take response 1 to the packet that ends its request as the
\* promise that nvitemd has committed that request.
AckMeansCommitted == rsp.end /\ rsp.val = 1 => rsp.grp \in done

\* What _syncGetData copies into fromChannel is the modem's data, never a
\* token, and goes into the sector the modem means: lost, repeated and abandoned
\* packets do not shift the stream against the sectors still to come.
Aligned ==
  Parsing /\ win # {} =>
    item.t = "data" /\ item.sec \in win /\ \A x \in win : item.sec <= x

\* nvitem_sync.c:95 "FALSE: not getted, need more information" and :127
\* "information is not enough, wait for continuous information": on a channel
\* that loses nothing, a request whose tokens straddle packets is not refused.
SplitTokenCompletes == rsp.val = 0 => rsp.grp = NoGrp

\* The receiver asks of the store nothing but what NvStore allows.
StoreSpec == Spec
=============================================================================
