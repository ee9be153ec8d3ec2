---------------------------- MODULE NvSyncProofs ----------------------------
(***************************************************************************)
(* Proofs about the receiver of nvitemd (module NvSync): it implements the *)
(* specification of the store, for every set of requests and whatever the  *)
(* channel loses, and what it acknowledges has been committed.             *)
(***************************************************************************)
EXTENDS NvSync, NvStoreProofs, SequenceTheorems

(***************************************************************************)
(* The items on their way                                                  *)
(***************************************************************************)
Packet == [grp : Int, sub : Int, end : BOOLEAN, req : Requests \cup {NoReq},
           items : Seq(Item), past : Int]
Items ==
  /\ mGrp \in Int /\ mSub \in Int
  /\ mReq \in Requests \cup {NoReq} /\ mLeft \in Seq(Item)
  /\ chan \in Seq(Packet) /\ mLast \in Seq(Packet)
  /\ buf \in Seq(Item)

\* Initially nothing is on its way.
LEMMA ItemsInit == SInit => Items
  BY EmptySeq DEF SInit, Items, NoGrp

\* Taking the first elements off a sequence of items leaves one.
LEMMA Cutting ==
  ASSUME NEW s \in Seq(Item), NEW k \in Int, k >= 1, k <= Len(s)
  PROVE  /\ SubSeq(s, 1, k) \in Seq(Item) /\ Len(SubSeq(s, 1, k)) = k
         /\ SubSeq(s, k + 1, Len(s)) \in Seq(Item)
         /\ Len(SubSeq(s, k + 1, Len(s))) = Len(s) - k
         /\ k = Len(s) => SubSeq(s, 1, k) = s
         /\ k < Len(s) =>
              SubSeq(s, k + 1, Len(s))[Len(s) - k] = s[Len(s)]
  OBVIOUS

\* Every step keeps packets made of items.
LEMMA ItemsNext == Items /\ [SNext]_syncVars => Items'
<1> SUFFICES ASSUME Items, [SNext]_syncVars PROVE Items'
  OBVIOUS
<1> USE DEF Items
<1>1. CASE ModemStart
  BY <1>1, RequestsAssumption DEF ModemStart
<1>2. CASE ModemSend
  <2>1. PICK k \in 1 .. PacketItems :
          LET pkt == [grp |-> mGrp, sub |-> mSub, end |-> k = Len(mLeft),
                      req |-> mReq, items |-> SubSeq(mLeft, 1, k),
                      past |-> Len(mReq.stream) - Len(mLeft) + k]
          IN  /\ k <= Len(mLeft)
              /\ mSub' = mSub + 1 /\ mLeft' = SubSeq(mLeft, k + 1, Len(mLeft))
              /\ mLast' = IF Lossy THEN <<pkt>> ELSE <<>>
              /\ chan' = Append(chan, pkt) \/ chan' = chan
              /\ UNCHANGED <<buf, mGrp, mReq>>
    BY <1>2 DEF ModemSend
  <2>2. k \in Int /\ k >= 1
    BY BoundAssumption
  <2>3. [grp |-> mGrp, sub |-> mSub, end |-> k = Len(mLeft),
         req |-> mReq, items |-> SubSeq(mLeft, 1, k),
         past |-> Len(mReq.stream) - Len(mLeft) + k] \in Packet
    BY <2>1, <2>2, Cutting DEF Packet
  <2>4. mLeft' \in Seq(Item)
    BY <2>1, <2>2, Cutting
  <2>5. mLast' \in Seq(Packet)
    BY <2>1, <2>3
  <2>6. chan' \in Seq(Packet)
    <3> DEFINE pkt == [grp |-> mGrp, sub |-> mSub, end |-> k = Len(mLeft),
                       req |-> mReq, items |-> SubSeq(mLeft, 1, k),
                       past |-> Len(mReq.stream) - Len(mLeft) + k]
    <3>1. pkt \in Packet /\ (chan' = Append(chan, pkt) \/ chan' = chan)
      BY <2>1, <2>3
    <3> HIDE DEF pkt
    <3>2. chan \in Seq(Packet) /\ Append(chan, pkt) \in Seq(Packet)
      BY <3>1, AppendProperties
    <3> QED
      BY <3>1, <3>2
  <2> QED
    BY <2>1, <2>4, <2>5, <2>6
<1>3. CASE ModemRepeat
  BY <1>3 DEF ModemRepeat
<1>4. CASE GetPacket
  <2>1. Head(chan) \in Packet /\ chan' \in Seq(Packet)
    BY <1>4 DEF GetPacket
  <2>2. buf' = Head(chan).items \/ buf' = buf
    BY <1>4 DEF GetPacket
  <2> QED
    BY <1>4, <2>1, <2>2 DEF GetPacket, Packet
<1>5. CASE ChannelFail
  BY <1>5, EmptySeq DEF ChannelFail
<1>6. CASE TokenShort
  BY <1>6, EmptySeq DEF TokenShort, modemVars
<1>7. CASE TokenHead
  <2>1. buf # <<>> /\ UNCHANGED <<mGrp, mSub, mReq, mLeft, chan, mLast>>
    BY <1>7 DEF TokenHead, Parsing, modemVars
  <2>2. buf' = Tail(buf) \/ buf' = <<>>
    BY <1>7 DEF TokenHead, Refuse
  <2>3. Tail(buf) \in Seq(Item) /\ <<>> \in Seq(Item)
    BY <2>1, EmptySeq, HeadTailProperties
  <2> QED
    BY <2>1, <2>2, <2>3
<1>8. CASE TokenBody
  <2>1. buf # <<>> /\ UNCHANGED <<mGrp, mSub, mReq, mLeft, chan, mLast>>
    BY <1>8 DEF TokenBody, Parsing, modemVars
  <2>2. buf' = Tail(buf) \/ buf' = <<>>
    BY <1>8 DEF TokenBody, Refuse
  <2>3. Tail(buf) \in Seq(Item) /\ <<>> \in Seq(Item)
    BY <2>1, EmptySeq, HeadTailProperties
  <2> QED
    BY <2>1, <2>2, <2>3
<1>9. CASE Data
  BY <1>9 DEF Data, Parsing, modemVars
<1>10. CASE Answer
  BY <1>10 DEF Answer, modemVars
<1>11. CASE StoreStep
  BY <1>11 DEF StoreStep, modemVars
<1>12. CASE Restart
  BY <1>12, EmptySeq DEF Restart
<1>13. CASE UNCHANGED syncVars
  BY <1>13 DEF syncVars, modemVars
<1> QED
  BY <1>1, <1>2, <1>3, <1>4, <1>5, <1>6, <1>7, <1>8, <1>9, <1>10, <1>11, <1>12,
     <1>13 DEF SNext, Modem, Analyzer

(***************************************************************************)
(* The receiver implements the store                                       *)
(***************************************************************************)
\* Ending a request that is open, or none, is a step of the store.
LEMMA ResetStep == ResetFail => [Next]_vars
  BY DEF ResetFail, storeVars, Next, SyncRequest

\* Every step of the receiver is a step of the store or leaves it alone.
LEMMA StoreSteps == Items /\ [SNext]_syncVars => [Next]_vars
<1> SUFFICES ASSUME Items, [SNext]_syncVars PROVE [Next]_vars
  OBVIOUS
<1>1. CASE Modem
  BY <1>1 DEF Modem, ModemStart, ModemSend, ModemRepeat, storeVars
<1>2. CASE GetPacket
  BY <1>2, ResetStep DEF GetPacket, storeVars
<1>3. CASE ChannelFail
  BY <1>3, ResetStep DEF ChannelFail
<1>4. CASE TokenShort \/ Answer
  BY <1>4 DEF TokenShort, Answer, storeVars
<1>5. CASE TokenHead
  BY <1>5, ResetStep DEF TokenHead, Refuse, Next, SyncRequest
<1>6. CASE TokenBody
  <2>1. CASE InOrder /\ item.t = "body" /\ SyncBody(item.secs)
    <3>1. item \in Item
      BY <1>6 DEF Items, TokenBody, Parsing, item
    <3>2. item.secs \in Ranges
      BY <2>1, <3>1 DEF Item
    <3> QED
      BY <2>1, <3>2 DEF Next, SyncRequest
  <2>2. CASE SyncDone
    BY <2>2 DEF Next, SyncRequest
  <2>3. CASE Refuse
    BY <2>3, ResetStep DEF Refuse
  <2> QED
    BY <1>6, <2>1, <2>2, <2>3 DEF TokenBody
<1>7. CASE Data
  <2>1. item \in Item /\ item.t = "data" /\ SyncData(item.v)
    BY <1>7 DEF Items, Data, Parsing, item
  <2>2. item.v \in Val
    BY <2>1 DEF Item
  <2> QED
    BY <2>1, <2>2 DEF Next, SyncRequest
<1>8. CASE StoreStep
  BY <1>8 DEF StoreStep, Next
<1>9. CASE Restart
  BY <1>9 DEF Restart, Next
<1>10. CASE UNCHANGED syncVars
  BY <1>10 DEF syncVars, storeVars
<1> QED
  BY <1>1, <1>2, <1>3, <1>4, <1>5, <1>6, <1>7, <1>8, <1>9, <1>10
     DEF SNext, Analyzer

\* Whatever the modem asks for and the channel does to its packets, the
\* analyzer calls the buffers only as module NvStore allows.
THEOREM Implements == SSpec => StoreSpec
<1>1. SInit => Init
  BY DEF SInit
<1> QED
  BY <1>1, ItemsInit, ItemsNext, StoreSteps, PTL DEF SSpec, StoreSpec, Spec

\* So what holds of the store holds of nvitemd with its receiver: between two
\* tokens, during a save and across a restart, no crash alone loses both
\* images of a partition, and more than what is marked dirty.
THEOREM ReceiverKeepsImages == SSpec => [](OneGoodImage /\ LossBounded)
  BY Implements, OneGoodImageCorrect, LossBoundedCorrect, PTL DEF StoreSpec

\* And no image, at any moment, holds half of a request: not after a request
\* that a lost packet has cut off, nor after one the analyzer has refused.
THEOREM ReceiverWholeCommits == SSpec => [](WholeCommits /\ CaliSynchronous)
  BY Implements, WholeCommitsCorrect, CaliSynchronousCorrect, PTL DEF StoreSpec

(***************************************************************************)
(* What is acknowledged is committed                                       *)
(***************************************************************************)
\* No request ends with a token cut in two (compare SplitTokenCompletes).
WholeTails == \A r \in Requests : r.stream[Len(r.stream)].t = "tail"

EndsTail(s) == s # <<>> => s[Len(s)].t = "tail"
AckInv ==
  /\ EndsTail(mLeft)
  /\ \A i \in 1 .. Len(chan) : chan[i].end => EndsTail(chan[i].items)
  /\ \A i \in 1 .. Len(mLast) : mLast[i].end => EndsTail(mLast[i].items)
  /\ cur.end => EndsTail(buf)
  /\ owed => cur.grp \in done
  /\ AckMeansCommitted

\* Initially nothing is acknowledged.
LEMMA AckInit == SInit => AckInv
  BY EmptySeq DEF SInit, AckInv, EndsTail, NoPkt, NoRsp, AckMeansCommitted

\* The rest of a sequence that ends with a tail ends with it too.
LEMMA RestEnds ==
  ASSUME NEW s \in Seq(Item), s # <<>>, EndsTail(s)
  PROVE  EndsTail(Tail(s)) /\ (Len(s) = 1 => s[1].t = "tail")
  BY DEF EndsTail

\* Every step keeps the acknowledgement sound, if requests have whole tails.
LEMMA AckNext ==
  ASSUME WholeTails, Items, AckInv, [SNext]_syncVars
  PROVE  AckInv'
<1> USE DEF AckInv
<1>1. CASE ModemStart
  BY <1>1, RequestsAssumption
     DEF ModemStart, WholeTails, EndsTail, ghost, AckMeansCommitted
<1>2. CASE ModemSend
  <2>1. PICK k \in 1 .. PacketItems :
          LET pkt == [grp |-> mGrp, sub |-> mSub, end |-> k = Len(mLeft),
                      req |-> mReq, items |-> SubSeq(mLeft, 1, k),
                      past |-> Len(mReq.stream) - Len(mLeft) + k]
          IN  /\ k <= Len(mLeft)
              /\ mLeft' = SubSeq(mLeft, k + 1, Len(mLeft))
              /\ mLast' = IF Lossy THEN <<pkt>> ELSE <<>>
              /\ chan' = Append(chan, pkt) \/ chan' = chan
              /\ UNCHANGED <<buf, ghost, owed>>
    BY <1>2 DEF ModemSend
  <2> DEFINE pkt == [grp |-> mGrp, sub |-> mSub, end |-> k = Len(mLeft),
                     req |-> mReq, items |-> SubSeq(mLeft, 1, k),
                     past |-> Len(mReq.stream) - Len(mLeft) + k]
  <2>2. k \in Int /\ k >= 1 /\ mLeft \in Seq(Item) /\ chan \in Seq(Packet)
    BY BoundAssumption DEF Items
  <2>3. EndsTail(mLeft')
    <3>1. CASE k = Len(mLeft)
      BY <3>1, <2>1, <2>2, Cutting DEF EndsTail
    <3>2. CASE k < Len(mLeft)
      <4>1. mLeft # <<>> /\ Len(mLeft') = Len(mLeft) - k
        BY <3>2, <2>1, <2>2, Cutting
      <4>2. mLeft'[Len(mLeft) - k] = mLeft[Len(mLeft)]
        BY <3>2, <2>1, <2>2, Cutting
      <4> QED
        BY <4>1, <4>2 DEF EndsTail
    <3> QED
      BY <3>1, <3>2, <2>1, <2>2
  <2>4. pkt.end => EndsTail(pkt.items)
    BY <2>1, <2>2, Cutting
  <2> HIDE DEF pkt
  <2>5. /\ mLast' = <<pkt>> \/ mLast' = <<>>
        /\ chan' = Append(chan, pkt) \/ chan' = chan
    BY <2>1 DEF pkt
  <2>6. \A i \in 1 .. Len(chan') : chan'[i] = pkt \/ (i \in 1 .. Len(chan) /\ chan'[i] = chan[i])
    BY <2>2, <2>5
  <2>7. \A i \in 1 .. Len(mLast') : mLast'[i] = pkt
    BY <2>5
  <2> QED
    BY <2>1, <2>3, <2>4, <2>6, <2>7 DEF ghost, AckMeansCommitted
<1>3. CASE ModemRepeat
  <2>1. chan \in Seq(Packet) /\ chan' = Append(chan, mLast[1]) /\ mLast' = <<>>
        /\ mLast \in Seq(Packet) /\ mLast # <<>>
    BY <1>3 DEF ModemRepeat, Items
  <2>2. mLast[1].end => EndsTail(mLast[1].items)
    BY <2>1
  <2>3. \A i \in 1 .. Len(chan') : chan'[i] = mLast[1] \/ (i \in 1 .. Len(chan) /\ chan'[i] = chan[i])
    BY <2>1
  <2>4. \A i \in 1 .. Len(chan') : chan'[i].end => EndsTail(chan'[i].items)
    BY <2>2, <2>3
  <2> QED
    BY <1>3, <2>1, <2>4 DEF ModemRepeat, ghost, EndsTail, AckMeansCommitted
<1>4. CASE GetPacket
  <2>1. chan \in Seq(Packet) /\ chan # <<>> /\ chan' = Tail(chan)
    BY <1>4 DEF GetPacket, Items
  <2>2. \A i \in 1 .. Len(chan') : chan'[i] = chan[i + 1] /\ i + 1 \in 1 .. Len(chan)
    BY <2>1
  <2>3. Head(chan).end => EndsTail(Head(chan).items)
    BY <2>1
  <2>4. (cur.end => EndsTail(buf))'
    BY <1>4, <2>3 DEF GetPacket, Origin
  <2>5. AckMeansCommitted'
    BY <1>4 DEF GetPacket, AckMeansCommitted
  <2> QED
    BY <1>4, <2>2, <2>4, <2>5 DEF GetPacket, Reading
<1>5. CASE ChannelFail
  BY <1>5 DEF ChannelFail, ghost, EndsTail, AckMeansCommitted
<1>6. CASE Parsing /\ Refuse /\ UNCHANGED <<packetVars, modemVars>>
  BY <1>6 DEF Refuse, Respond, EndsTail, AckMeansCommitted, modemVars, Parsing
<1>7. CASE TokenShort
  <2>1. item = buf[1] /\ Len(buf) = 1 /\ item.t # "tail" /\ buf # <<>> /\ buf \in Seq(Item)
    BY <1>7 DEF TokenShort, Parsing, Short, item, Items
  <2>2. ~cur.end
    BY <2>1, RestEnds
  <2> QED
    BY <1>7, <2>2 DEF TokenShort, Respond, EndsTail, AckMeansCommitted, modemVars
<1>8. CASE TokenHead
  <2>1. CASE buf' = Tail(buf) /\ UNCHANGED <<owed, ghost>>
    <3>1. cur.end => EndsTail(buf')
      BY <1>8, <2>1, RestEnds DEF TokenHead, Parsing, Items
    <3> QED
      BY <1>8, <2>1, <3>1 DEF TokenHead, AckMeansCommitted, modemVars, ghost
  <2> QED
    BY <1>6, <1>8, <2>1 DEF TokenHead
<1>9. CASE TokenBody
  <2>1. CASE buf' = Tail(buf) /\ UNCHANGED <<owed, ghost>>
    <3>1. cur.end => EndsTail(buf')
      BY <1>9, <2>1, RestEnds DEF TokenBody, Parsing, Items
    <3> QED
      BY <1>9, <2>1, <3>1 DEF TokenBody, AckMeansCommitted, modemVars, ghost
  <2>2. CASE /\ buf' = <<>> /\ done' = done \cup {cur.grp}
             /\ UNCHANGED <<cur, rsp>>
    BY <1>9, <2>2 DEF TokenBody, EndsTail, AckMeansCommitted, modemVars
  <2> QED
    BY <1>6, <1>9, <2>1, <2>2 DEF TokenBody
<1>10. CASE Data
  <2>1. item = buf[1] /\ item.t # "tail" /\ buf # <<>> /\ buf \in Seq(Item)
        /\ buf' = Tail(buf)
    BY <1>10 DEF Data, Parsing, item, Items
  <2>2. cur.end => EndsTail(buf') /\ Len(buf) # 1
    BY <2>1, RestEnds
  <2>3. Len(buf') = Len(buf) - 1 /\ Len(buf) \in Nat
    BY <2>1, HeadTailProperties, LenProperties
  <2>4. Len(<<>>) = 0
    OBVIOUS
  <2>5. cur.end => buf' # <<>>
    BY <2>2, <2>3, <2>4
  <2> QED
    BY <1>10, <2>2, <2>5 DEF Data, Respond, AckMeansCommitted, modemVars
<1>11. CASE Answer
  BY <1>11 DEF Answer, Respond, AckMeansCommitted, modemVars
<1>12. CASE StoreStep
  BY <1>12 DEF StoreStep, AckMeansCommitted, modemVars, ghost
<1>13. CASE Restart
  BY <1>13 DEF Restart, EndsTail, AckMeansCommitted
<1>14. CASE UNCHANGED syncVars
  BY <1>14 DEF syncVars, AckMeansCommitted, modemVars, ghost
<1> QED
  BY <1>1, <1>2, <1>3, <1>4, <1>5, <1>7, <1>8, <1>9, <1>10, <1>11, <1>12, <1>13,
     <1>14 DEF SNext, Modem, Analyzer

\* Response 1 to the packet that ends a request means that the request has
\* reached backup, however packets are lost, repeated or abandoned, provided
\* that no request has its tail cut in two by a packet's end.
THEOREM AckCorrect == WholeTails => (SSpec => []AckMeansCommitted)
<1> SUFFICES ASSUME WholeTails PROVE SSpec => []AckMeansCommitted
  OBVIOUS
<1>1. Items /\ AckInv /\ [SNext]_syncVars => AckInv'
  BY AckNext
<1>2. AckInv => AckMeansCommitted
  BY DEF AckInv
<1> QED
  BY <1>1, <1>2, ItemsInit, ItemsNext, AckInit, PTL DEF SSpec
=============================================================================
