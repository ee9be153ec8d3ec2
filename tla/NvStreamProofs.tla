---------------------------- MODULE NvStreamProofs ----------------------------
(***************************************************************************)
(* Proofs about the receiver of nvitemd (module NvSync), continued: where  *)
(* in its request each packet belongs, and what becomes of its data, for   *)
(* every set of requests and whatever the channel loses.                   *)
(***************************************************************************)
EXTENDS NvSyncProofs

(***************************************************************************)
(* Where packets belong.  past says where in the stream of its request a   *)
(* packet ends; the packet after it in its group begins there.  Nothing in *)
(* the receiver knows this: it compares a group and an index.              *)
(***************************************************************************)
Slice(r, past, items) ==
  /\ r \in Requests /\ past \in Nat
  /\ Len(items) <= past /\ past <= Len(r.stream)
  /\ \A i \in 1 .. Len(items) : items[i] = r.stream[past - Len(items) + i]
Fits(p) == Slice(p.req, p.past, p.items)

\* What begins at from in request r is what comes after packet (g, b), which
\* ended at past in request q, if its number says so.
Follows(g, b, q, past, g2, b2, r, from) ==
  g2 = g /\ b2 = b + 1 => r = q /\ from = past

Sent  == {chan[i] : i \in 1 .. Len(chan)} \cup {mLast[i] : i \in 1 .. Len(mLast)}
mFrom == Len(mReq.stream) - Len(mLeft)
Chained(g, b, q, past) ==
  /\ g \in Int /\ b \in Int
  /\ g < mGrp \/ (g = mGrp /\ b < mSub)
  /\ Follows(g, b, q, past, mGrp, mSub, mReq, mFrom)
  /\ \A p \in Sent : Follows(g, b, q, past, p.grp, p.sub, p.req,
                             p.past - Len(p.items))
StreamInv ==
  /\ mLeft # <<>> => Slice(mReq, Len(mReq.stream), mLeft)
  /\ \A p \in Sent : Fits(p) /\ Chained(p.grp, p.sub, p.req, p.past)
  /\ busy => /\ Slice(cur.req, cur.past, buf)
             /\ Chained(idxGrp, idxSub, cur.req, cur.past)

(***************************************************************************)
(* What has become of the data                                             *)
(***************************************************************************)
\* Content d is c with the first n items of request r written over it.
Latest(r, n, c, d) ==
  \A s \in Sect :
    \/ /\ d[s] = c[s]
       /\ \A i \in Sectors(r) : i <= n => r.stream[i].sec # s
    \/ \E i \in Sectors(r) :
         /\ i <= n /\ r.stream[i].sec = s /\ d[s] = r.stream[i].v
         /\ \A j \in Sectors(r) : j <= n /\ r.stream[j].sec = s => j <= i

\* Items of the request that have been analyzed.
Pos == cur.past - Len(buf)
FillInv ==
  /\ buf # <<>> => busy
  /\ \A p \in Part : p # reqPart => fromData[p] = bakData[p]
  /\ reqPart # NoPart =>
       /\ busy /\ cur.req.part = reqPart
       /\ Latest(cur.req, Pos, bakData[reqPart], fromData[reqPart])
       /\ win # {} => \E e \in Pos .. Len(cur.req.stream) :
                        Holds(cur.req, Pos, e, win)

(***************************************************************************)
(* Packets stay in their places                                            *)
(***************************************************************************)
\* What is left of a slice after its first item, and what that item is.
LEMMA RestOfSlice ==
  ASSUME NEW r, NEW past, NEW s \in Seq(Item), s # <<>>, Slice(r, past, s)
  PROVE  /\ Slice(r, past, Tail(s)) /\ Slice(r, past, <<>>)
         /\ Len(Tail(s)) = Len(s) - 1
         /\ Head(s) = r.stream[past - Len(s) + 1]
         /\ past - Len(s) + 1 \in DOMAIN r.stream
         /\ past - Len(s) \in Nat
<1>1. r.stream \in Seq(Item)
  BY RequestsAssumption DEF Slice
<1>2. /\ Len(Tail(s)) = Len(s) - 1
      /\ \A i \in 1 .. Len(s) - 1 : Tail(s)[i] = s[i + 1]
      /\ Head(s) = s[1] /\ Len(s) \in Nat /\ Len(s) > 0
  BY HeadTailProperties, LenProperties
<1>3. Len(<<>>) = 0
  OBVIOUS
<1> QED BY <1>1, <1>2, <1>3 DEF Slice

\* A packet cut from the front of a slice, and the rest, are slices.
LEMMA CutSlice ==
  ASSUME NEW r, NEW s \in Seq(Item), NEW k \in Int, k >= 1, k <= Len(s),
         Slice(r, Len(r.stream), s)
  PROVE  /\ Slice(r, Len(r.stream) - Len(s) + k, SubSeq(s, 1, k))
         /\ Slice(r, Len(r.stream), SubSeq(s, k + 1, Len(s)))
<1>1. r.stream \in Seq(Item)
  BY RequestsAssumption DEF Slice
<1>2. /\ Len(SubSeq(s, 1, k)) = k /\ Len(SubSeq(s, k + 1, Len(s))) = Len(s) - k
      /\ \A i \in 1 .. k : SubSeq(s, 1, k)[i] = s[i]
      /\ \A i \in 1 .. Len(s) - k : SubSeq(s, k + 1, Len(s))[i] = s[k + i]
  OBVIOUS
<1>3. Len(s) \in Nat /\ Len(r.stream) \in Nat
  BY <1>1
<1>4. /\ r \in Requests /\ Len(s) <= Len(r.stream)
      /\ \A i \in 1 .. Len(s) : s[i] = r.stream[Len(r.stream) - Len(s) + i]
  BY DEF Slice
<1> DEFINE a == SubSeq(s, 1, k)
           z == SubSeq(s, k + 1, Len(s))
           past == Len(r.stream) - Len(s) + k
<1>5. \A i \in 1 .. k : a[i] = r.stream[past - k + i]
  BY <1>2, <1>3, <1>4
<1>6. \A i \in 1 .. Len(s) - k :
        z[i] = r.stream[Len(r.stream) - (Len(s) - k) + i]
  <2>1. \A i \in 1 .. Len(s) - k : k + i \in 1 .. Len(s)
    BY <1>3
  <2> QED BY <1>2, <1>3, <1>4, <2>1
<1>7. past \in Nat /\ k <= past /\ past <= Len(r.stream)
  BY <1>3, <1>4
<1>8. Slice(r, past, a)
  BY <1>2, <1>4, <1>5, <1>7 DEF Slice
<1>9. Slice(r, Len(r.stream), z)
  <2>1. Len(z) = Len(s) - k
    BY <1>2
  <2> HIDE DEF z
  <2>2. \A i \in 1 .. Len(z) : z[i] = r.stream[Len(r.stream) - Len(z) + i]
    BY <1>6, <2>1
  <2> QED BY <1>3, <1>4, <2>1, <2>2 DEF Slice
<1> QED BY <1>8, <1>9

\* While the modem sends nothing new, a place in the order of packets stays one.
LEMMA Shrinks ==
  ASSUME StreamInv, Sent' \subseteq Sent, UNCHANGED <<mGrp, mSub, mReq, mLeft>>
  PROVE  /\ (mLeft # <<>> => Slice(mReq, Len(mReq.stream), mLeft))'
         /\ (\A p \in Sent : Fits(p) /\ Chained(p.grp, p.sub, p.req, p.past))'
         /\ \A g, b, q, past : Chained(g, b, q, past) => Chained(g, b, q, past)'
<1>1. \A g, b, q, past : Chained(g, b, q, past) => Chained(g, b, q, past)'
  BY DEF Chained, mFrom
<1> QED BY <1>1 DEF StreamInv, Fits

LEMMA StreamInit == SInit => StreamInv
  BY DEF SInit, StreamInv, Sent

\* Every step keeps packets in their places and the receiver with them.
LEMMA StreamNext == Items /\ StreamInv /\ [SNext]_syncVars => StreamInv'
<1> SUFFICES ASSUME Items, StreamInv, [SNext]_syncVars PROVE StreamInv'
  OBVIOUS
<1> DEFINE Modems == UNCHANGED <<mGrp, mSub, mReq, mLeft>>
\* What is to show when the modem sends nothing.
<1>A. ASSUME Sent' \subseteq Sent, Modems,
             busy' => \/ /\ busy /\ UNCHANGED <<idxGrp, idxSub, cur>>
                         /\ Slice(cur.req, cur.past, buf')
                      \/ \E p \in Sent :
                           /\ idxGrp' = p.grp /\ idxSub' = p.sub
                           /\ cur' = Origin(p) /\ buf' = p.items
      PROVE  StreamInv'
  <2>1. ASSUME busy' PROVE Slice(cur'.req, cur'.past, buf')
                           /\ Chained(idxGrp', idxSub', cur'.req, cur'.past)
    <3>1. CASE /\ busy /\ UNCHANGED <<idxGrp, idxSub, cur>>
               /\ Slice(cur.req, cur.past, buf')
      BY <3>1 DEF StreamInv
    <3>2. ASSUME NEW p \in Sent, idxGrp' = p.grp, idxSub' = p.sub,
                 cur' = Origin(p), buf' = p.items
          PROVE  Slice(cur'.req, cur'.past, buf')
                 /\ Chained(idxGrp', idxSub', cur'.req, cur'.past)
      <4>1. cur'.req = p.req /\ cur'.past = p.past
        BY <3>2 DEF Origin
      <4> QED BY <3>2, <4>1 DEF StreamInv, Fits
    <3> QED BY <1>A, <2>1, <3>1, <3>2
  <2>2. \A g, b, q, past : Chained(g, b, q, past) => Chained(g, b, q, past)'
    BY <1>A, Shrinks
  <2>3. (busy => Chained(idxGrp, idxSub, cur.req, cur.past))'
    <3>1. ASSUME NEW g, NEW b, NEW q, NEW past, g = idxGrp', b = idxSub',
                 q = cur'.req, past = cur'.past, busy'
          PROVE  Chained(g, b, q, past)'
      BY <2>1, <2>2, <3>1
    <3> QED BY <3>1 DEF Chained
  <2> QED BY <1>A, <2>1, <2>3, Shrinks DEF StreamInv, Slice
<1>1. CASE ModemStart
  <2>1. /\ mGrp' = mGrp + 1 /\ mGrp \in Int /\ mGrp' # mGrp
        /\ mReq' \in Requests /\ mLeft' = mReq'.stream
        /\ UNCHANGED <<mLast, chan, idxGrp, idxSub, busy, buf, cur>>
    BY <1>1 DEF ModemStart, Items, packetVars, ghost
  <2>2. Sent' = Sent
    BY <2>1 DEF Sent
  <2>3. Slice(mReq', Len(mReq'.stream), mLeft')
    <3>1. mReq'.stream \in Seq(Item)
      BY <2>1, RequestsAssumption
    <3> QED BY <2>1, <3>1 DEF Slice
  <2>4. \A p \in Sent : p \in Packet
    BY DEF Sent, Items
  <2>5. ASSUME NEW g \in Int, NEW b, NEW q, NEW past, Chained(g, b, q, past)
        PROVE  Chained(g, b, q, past)'
    <3>1. g < mGrp' /\ g # mGrp'
      BY <2>1, <2>5 DEF Chained
    <3> QED BY <2>2, <2>5, <3>1 DEF Chained, Follows
  <2>6. \A p \in Sent : (Fits(p) /\ Chained(p.grp, p.sub, p.req, p.past))'
    BY <2>4, <2>5 DEF StreamInv, Fits, Packet
  <2>7. (busy => Chained(idxGrp, idxSub, cur.req, cur.past))'
    <3>1. ASSUME NEW g, NEW b, NEW q, NEW past, g = idxGrp', b = idxSub',
                 q = cur'.req, past = cur'.past, busy'
          PROVE  Chained(g, b, q, past)'
      <4>1. Chained(g, b, q, past)
        BY <2>1, <3>1 DEF StreamInv
      <4> QED BY <2>5, <4>1 DEF Chained
    <3> QED BY <3>1 DEF Chained
  <2> QED BY <2>1, <2>2, <2>3, <2>6, <2>7 DEF StreamInv
<1>2. CASE ModemSend
  <2>1. PICK k \in 1 .. PacketItems :
          LET pkt == [grp |-> mGrp, sub |-> mSub, end |-> k = Len(mLeft),
                      req |-> mReq, items |-> SubSeq(mLeft, 1, k),
                      past |-> mFrom + k]
          IN  /\ k <= Len(mLeft)
              /\ mSub' = mSub + 1 /\ mLeft' = SubSeq(mLeft, k + 1, Len(mLeft))
              /\ mLast' = IF Lossy THEN <<pkt>> ELSE <<>>
              /\ chan' = Append(chan, pkt) \/ chan' = chan
              /\ UNCHANGED <<mGrp, mReq, idxGrp, idxSub, busy, buf, cur>>
    BY <1>2 DEF ModemSend, mFrom, packetVars, ghost
  <2> DEFINE pkt == [grp |-> mGrp, sub |-> mSub, end |-> k = Len(mLeft),
                     req |-> mReq, items |-> SubSeq(mLeft, 1, k),
                     past |-> mFrom + k]
  <2>2. k \in Int /\ k >= 1 /\ mLeft \in Seq(Item) /\ mLeft # <<>>
        /\ mGrp \in Int /\ mSub \in Int
    BY <2>1, BoundAssumption DEF Items
  <2>3. Slice(mReq, Len(mReq.stream), mLeft) /\ mReq.stream \in Seq(Item)
    BY <2>2, RequestsAssumption DEF StreamInv, Slice
  <2>4. /\ Slice(mReq, mFrom + k, SubSeq(mLeft, 1, k))
        /\ Slice(mReq', Len(mReq'.stream), mLeft')
    BY <2>1, <2>2, <2>3, CutSlice DEF mFrom
  <2>5. mFrom' = mFrom + k /\ mFrom \in Int /\ Len(pkt.items) = k
    <3>1. Len(mLeft') = Len(mLeft) - k /\ Len(SubSeq(mLeft, 1, k)) = k
      BY <2>1, <2>2, Cutting
    <3>2. Len(mLeft) \in Nat /\ Len(mReq.stream) \in Nat
      BY <2>2, <2>3
    <3>3. pkt.items = SubSeq(mLeft, 1, k)
      OBVIOUS
    <3>4. mReq' = mReq
      BY <2>1
    <3> HIDE DEF pkt
    <3>5. mFrom' = Len(mReq.stream) - Len(mLeft')
      BY <3>4 DEF mFrom
    <3> QED BY <2>2, <3>1, <3>2, <3>3, <3>5 DEF mFrom
  <2>6. /\ pkt.grp = mGrp /\ pkt.sub = mSub /\ pkt.req = mReq
        /\ pkt.past = mFrom + k /\ Fits(pkt)
    BY <2>4 DEF Fits
  <2> HIDE DEF pkt
  <2>7. Sent' \subseteq Sent \cup {pkt}
    <3>1. /\ mLast' = <<pkt>> \/ mLast' = <<>>
          /\ chan' = Append(chan, pkt) \/ chan' = chan
      BY <2>1 DEF pkt
    <3>2. \A i \in 1 .. Len(chan') : chan'[i] = pkt \/ (i \in 1 .. Len(chan) /\ chan'[i] = chan[i])
      <4>1. chan \in Seq(Packet)
        BY DEF Items
      <4> QED BY <3>1, <4>1
    <3>3. \A i \in 1 .. Len(mLast') : mLast'[i] = pkt
      BY <3>1
    <3> QED BY <3>2, <3>3 DEF Sent
  \* What came before the packet still comes before the next.
  <2>8. ASSUME NEW g, NEW b, NEW q, NEW past, Chained(g, b, q, past)
        PROVE  Chained(g, b, q, past)'
    <3>1. g \in Int /\ b \in Int /\ (g < mGrp \/ (g = mGrp /\ b < mSub))
      BY <2>8 DEF Chained
    <3>2. Follows(g, b, q, past, mGrp', mSub', mReq', mFrom')
      BY <2>1, <2>2, <3>1 DEF Follows
    <3>3. Follows(g, b, q, past, pkt.grp, pkt.sub, pkt.req,
                  pkt.past - Len(pkt.items))
      BY <2>2, <2>5, <2>6, <2>8 DEF Chained
    <3>4. \A p \in Sent' : Follows(g, b, q, past, p.grp, p.sub, p.req,
                                   p.past - Len(p.items))
      BY <2>7, <2>8, <3>3 DEF Chained
    <3>5. g < mGrp' \/ (g = mGrp' /\ b < mSub')
      BY <2>1, <2>2, <3>1
    <3> QED BY <3>1, <3>2, <3>4, <3>5 DEF Chained
  \* And the packet comes before the next.
  <2>9. ASSUME NEW p, p = pkt PROVE Chained(p.grp, p.sub, p.req, p.past)'
    <3>1. Follows(p.grp, p.sub, p.req, p.past, mGrp', mSub', mReq', mFrom')
      BY <2>1, <2>5, <2>6, <2>9 DEF Follows
    <3>2. ASSUME NEW o \in Sent'
          PROVE  Follows(p.grp, p.sub, p.req, p.past, o.grp, o.sub, o.req,
                         o.past - Len(o.items))
      <4>1. o.sub # mSub + 1 \/ o.grp # mGrp
        <5>1. CASE o = pkt
          BY <2>2, <2>6, <5>1
        <5>2. CASE o \in Sent
          BY <2>2, <5>2 DEF StreamInv, Chained
        <5> QED BY <2>7, <5>1, <5>2
      <4> QED BY <2>6, <2>9, <4>1 DEF Follows
    <3>3. /\ p.grp \in Int /\ p.sub \in Int
          /\ p.grp = mGrp' /\ p.sub < mSub'
      BY <2>1, <2>2, <2>6, <2>9
    <3> QED BY <3>1, <3>2, <3>3 DEF Chained
  <2>10. ASSUME NEW p \in Sent'
         PROVE  Fits(p) /\ Chained(p.grp, p.sub, p.req, p.past)'
    BY <2>6, <2>7, <2>8, <2>9 DEF StreamInv
  <2>11. (busy => Chained(idxGrp, idxSub, cur.req, cur.past))'
    <3>1. ASSUME NEW g, NEW b, NEW q, NEW past, g = idxGrp', b = idxSub',
                 q = cur'.req, past = cur'.past, busy'
          PROVE  Chained(g, b, q, past)'
      <4>1. Chained(g, b, q, past)
        BY <2>1, <3>1 DEF StreamInv
      <4> QED BY <2>8, <4>1
    <3> QED BY <3>1 DEF Chained
  <2>12. (busy => Slice(cur.req, cur.past, buf))'
    BY <2>1 DEF StreamInv, Slice
  <2> QED BY <2>4, <2>10, <2>11, <2>12 DEF StreamInv, Fits
<1>3. CASE ModemRepeat
  <2>1. Sent' \subseteq Sent
    <3>1. chan \in Seq(Packet) /\ mLast \in Seq(Packet) /\ mLast # <<>>
          /\ chan' = Append(chan, mLast[1]) /\ mLast' = <<>>
      BY <1>3 DEF ModemRepeat, Items
    <3>2. \A i \in 1 .. Len(chan') : chan'[i] = mLast[1] \/ (i \in 1 .. Len(chan) /\ chan'[i] = chan[i])
      BY <3>1
    <3>3. 1 \in 1 .. Len(mLast) /\ Len(mLast') = 0
      BY <3>1
    <3> QED BY <3>2, <3>3 DEF Sent
  <2>2. busy' => /\ busy /\ UNCHANGED <<idxGrp, idxSub, cur>>
                 /\ Slice(cur.req, cur.past, buf')
    BY <1>3 DEF ModemRepeat, packetVars, ghost, StreamInv
  <2> QED BY <1>3, <1>A, <2>1, <2>2 DEF ModemRepeat
<1>4. CASE GetPacket
  <2>1. /\ Head(chan) \in Sent /\ Sent' \subseteq Sent
    <3>1. chan \in Seq(Packet) /\ chan # <<>> /\ chan' = Tail(chan) /\ mLast' = mLast
      BY <1>4 DEF GetPacket, Items
    <3>2. \A i \in 1 .. Len(chan') : chan'[i] = chan[i + 1] /\ i + 1 \in 1 .. Len(chan)
      BY <3>1
    <3>3. Head(chan) = chan[1] /\ 1 \in 1 .. Len(chan)
      BY <3>1
    <3> QED BY <3>1, <3>2, <3>3 DEF Sent
  <2> DEFINE p == Head(chan)
  <2>2. \/ /\ Expected(p) /\ busy /\ idxSub' = idxSub + 1
           /\ buf' = p.items /\ cur' = Origin(p) /\ UNCHANGED <<idxGrp, busy>>
        \/ /\ ~busy /\ UNCHANGED busy
        \/ /\ idxGrp' = p.grp /\ idxSub' = 0 /\ p.sub = 0
           /\ buf' = p.items /\ cur' = Origin(p)
        \/ UNCHANGED <<idxGrp, idxSub, busy, buf, cur>>
    BY <1>4 DEF GetPacket, Opens1, packetVars
  <2>3. UNCHANGED <<mGrp, mSub, mReq, mLeft>>
    BY <1>4 DEF GetPacket
  <2> HIDE DEF p
  <2>4. busy' => \/ /\ busy /\ UNCHANGED <<idxGrp, idxSub, cur>>
                    /\ Slice(cur.req, cur.past, buf')
                 \/ /\ idxGrp' = p.grp /\ idxSub' = p.sub
                    /\ cur' = Origin(p) /\ buf' = p.items
    BY <2>2 DEF Expected, StreamInv
  <2>5. p \in Sent
    BY <2>1 DEF p
  <2> QED BY <1>A, <2>1, <2>3, <2>4, <2>5
<1>5. CASE ChannelFail \/ Restart
  <2>1. Len(<<>>) = 0
    OBVIOUS
  <2>2. /\ chan' = <<>> /\ mLast' = mLast /\ ~busy'
        /\ UNCHANGED <<mGrp, mSub, mReq, mLeft>>
    BY <1>5 DEF ChannelFail, Restart
  <2>3. Sent' \subseteq Sent
    BY <2>1, <2>2 DEF Sent
  <2> QED BY <1>A, <2>2, <2>3
\* The analyzer takes items off the packet, or drops it.
<1>6. ASSUME buf # <<>>, UNCHANGED <<packetVars, cur, modemVars>>,
             ~busy' \/ (busy' = busy /\ buf' \in {Tail(buf), <<>>})
      PROVE  StreamInv'
  <2>1. Sent' = Sent
    BY <1>6 DEF Sent, modemVars
  <2>2. busy' => /\ busy /\ Slice(cur.req, cur.past, buf')
    BY <1>6, RestOfSlice DEF StreamInv, Items
  <2> QED BY <1>6, <1>A, <2>1, <2>2 DEF packetVars, modemVars
<1>7. CASE TokenShort
  BY <1>6, <1>7 DEF TokenShort, Parsing
<1>8. CASE TokenHead
  BY <1>6, <1>8 DEF TokenHead, Parsing, Refuse, ghost
<1>9. CASE TokenBody
  BY <1>6, <1>9 DEF TokenBody, Parsing, Refuse, ghost
<1>10. CASE Data
  BY <1>6, <1>10 DEF Data, Parsing
<1>11. CASE \/ UNCHANGED <<packetVars, cur, modemVars, busy, buf>>
            \/ Answer \/ StoreStep \/ UNCHANGED syncVars
  <2>1. UNCHANGED <<packetVars, cur, modemVars, busy, buf>>
    BY <1>11 DEF Answer, StoreStep, syncVars, ghost
  <2>2. Sent' = Sent
    BY <2>1 DEF Sent, modemVars
  <2> QED BY <1>A, <2>1, <2>2 DEF StreamInv, packetVars, modemVars
<1> QED
  BY <1>1, <1>2, <1>3, <1>4, <1>5, <1>7, <1>8, <1>9, <1>10, <1>11
     DEF SNext, Modem, Analyzer

(***************************************************************************)
(* Lemmas about requests                                                   *)
(***************************************************************************)
\* The items of a request.
LEMMA StreamFacts ==
  ASSUME NEW r \in Requests
  PROVE  /\ r.stream \in Seq(Item) /\ Len(r.stream) \in Nat
         /\ DOMAIN r.stream = 1 .. Len(r.stream)
         /\ \A i \in Sectors(r) : /\ i \in 1 .. Len(r.stream)
                                  /\ r.stream[i].sec \in Sect
                                  /\ r.stream[i].sec \in Int
                                  /\ r.stream[i].v \in Val
<1>1. r.stream \in Seq(Item) /\ Len(r.stream) \in Nat
      /\ DOMAIN r.stream = 1 .. Len(r.stream)
  BY RequestsAssumption
<1>2. \A i \in 1 .. Len(r.stream) : r.stream[i] \in Item
  BY <1>1
<1>3. \A x \in Item : x.t = "data" => x.sec \in Sect /\ x.v \in Val
  BY DEF Item
<1> QED BY <1>1, <1>2, <1>3, SectAssumption DEF Sectors

\* Before the first item the content is what it was.
LEMMA LatestNone ==
  ASSUME NEW r \in Requests, NEW c PROVE Latest(r, 0, c, c)
<1>1. \A i \in Sectors(r) : i > 0 /\ i \in Int
  BY StreamFacts
<1> QED BY <1>1 DEF Latest

\* A token changes nothing.
LEMMA LatestSkip ==
  ASSUME NEW r \in Requests, NEW n \in Nat, n + 1 \notin Sectors(r),
         NEW c, NEW d, Latest(r, n, c, d)
  PROVE  Latest(r, n + 1, c, d)
<1>1. \A i \in Sectors(r) : i \in Int /\ i # n + 1
  BY StreamFacts
<1>2. \A i \in Sectors(r) : i <= n + 1 <=> i <= n
  BY <1>1
<1> QED BY <1>2 DEF Latest

\* A sector becomes the latest of its number.
LEMMA LatestData ==
  ASSUME NEW r \in Requests, NEW n \in Nat, n + 1 \in Sectors(r),
         NEW c, NEW d \in Content, Latest(r, n, c, d), NEW d2,
         d2 = [d EXCEPT ![r.stream[n + 1].sec] = r.stream[n + 1].v]
  PROVE  Latest(r, n + 1, c, d2)
<1>1. \A i \in Sectors(r) : i \in Int
  BY StreamFacts
<1> SUFFICES ASSUME NEW s \in Sect
             PROVE
    \/ /\ d2[s] = c[s]
       /\ \A i \in Sectors(r) : i <= n + 1 => r.stream[i].sec # s
    \/ \E i \in Sectors(r) :
         /\ i <= n + 1 /\ r.stream[i].sec = s /\ d2[s] = r.stream[i].v
         /\ \A j \in Sectors(r) : j <= n + 1 /\ r.stream[j].sec = s => j <= i
  BY DEF Latest
<1>2. CASE s = r.stream[n + 1].sec
  <2>1. d2[s] = r.stream[n + 1].v
    BY <1>2 DEF Content
  <2> QED BY <1>1, <1>2, <2>1
<1>3. CASE s # r.stream[n + 1].sec
  <2>1. d2[s] = d[s]
    BY <1>3 DEF Content
  <2>2. \A i \in Sectors(r) : r.stream[i].sec = s => (i <= n + 1 <=> i <= n)
    BY <1>1, <1>3
  <2> QED BY <2>1, <2>2 DEF Latest
<1> QED BY <1>2, <1>3

\* After the last item, the request has been applied.
LEMMA LatestAll ==
  ASSUME NEW r \in Requests, NEW c \in Content, NEW d \in Content,
         Latest(r, Len(r.stream), c, d)
  PROVE  d = Apply(c, r)
<1>1. WellFormed(r)
  BY StreamsAssumption
<1>2. \A i \in Sectors(r) : i <= Len(r.stream) /\ i \in Int
  BY StreamFacts
<1>3. ASSUME NEW s \in Sect
      PROVE  d[s] = IF s \in DOMAIN r.data THEN r.data[s] ELSE c[s]
  <2>1. CASE /\ d[s] = c[s]
             /\ \A i \in Sectors(r) : r.stream[i].sec # s
    <3>1. s \notin DOMAIN r.data
      BY <1>1, <2>1 DEF WellFormed
    <3> QED BY <2>1, <3>1
  <2>2. ASSUME NEW i \in Sectors(r), r.stream[i].sec = s, d[s] = r.stream[i].v,
               \A j \in Sectors(r) : r.stream[j].sec = s => j <= i
        PROVE  s \in DOMAIN r.data /\ r.data[s] = d[s]
    <3>1. s \in DOMAIN r.data
      BY <1>1, <2>2 DEF WellFormed
    <3>2. \A j \in Sectors(r) : j > i => r.stream[j].sec # r.stream[i].sec
      BY <1>2, <2>2
    <3>3. r.data[r.stream[i].sec] = r.stream[i].v
      BY <1>1, <3>2 DEF WellFormed
    <3> QED BY <2>2, <3>1, <3>3
  <2> QED BY <1>2, <2>1, <2>2 DEF Latest
<1> QED BY <1>3 DEF Apply, Content

\* The first of the sectors to come, and the others.
LEMMA HoldsNext ==
  ASSUME NEW r \in Requests, NEW n \in Nat, NEW e \in Int, NEW S,
         Holds(r, n, e, S), S # {}
  PROVE  /\ n + 1 <= e /\ n + 1 \in Sectors(r)
         /\ r.stream[n + 1].sec \in S
         /\ \A x \in S : r.stream[n + 1].sec <= x
         /\ Holds(r, n + 1, e, S \ {r.stream[n + 1].sec})
<1>1. n + 1 <= e /\ n + 1 \in n + 1 .. e
  BY DEF Holds
<1>2. n + 1 \in Sectors(r) /\ r.stream[n + 1].sec \in S
  BY <1>1 DEF Holds
<1>3. \A k \in n + 1 .. e : r.stream[k].sec \in Int
  BY StreamFacts DEF Holds
<1>4. \A k \in n + 2 .. e : k \in n + 1 .. e /\ r.stream[n + 1].sec < r.stream[k].sec
  BY <1>1 DEF Holds
<1>5. \A k \in n + 1 .. e : k = n + 1 \/ k \in n + 2 .. e
  OBVIOUS
<1>6. \A x \in S : r.stream[n + 1].sec <= x
  BY <1>2, <1>3, <1>4, <1>5 DEF Holds
<1>7. S \ {r.stream[n + 1].sec} = {r.stream[k].sec : k \in n + 2 .. e}
  BY <1>1, <1>3, <1>4, <1>5 DEF Holds
<1>8. n + 1 + 1 = n + 2
  OBVIOUS
<1>9. Holds(r, n + 1, e, S \ {r.stream[n + 1].sec})
  BY <1>4, <1>7, <1>8 DEF Holds
<1> QED BY <1>1, <1>2, <1>6, <1>9

(***************************************************************************)
(* What fromChannel holds at every step                                    *)
(***************************************************************************)
LEMMA FillInit == SInit => FillInv
  BY DEF SInit, Init, FillInv, NoPart, Part

\* A step that leaves buffers and request alone, and takes no item.
LEMMA FillSame ==
  ASSUME FillInv, UNCHANGED <<fromData, bakData, reqPart, win>>,
         buf' # <<>> => busy',
         busy => busy' /\ cur'.req = cur.req /\ Pos' = Pos
  PROVE  FillInv'
<1>1. CASE reqPart = NoPart
  BY <1>1 DEF FillInv
<1>2. CASE reqPart # NoPart
  <2>1. busy' /\ cur'.req = cur.req /\ Pos' = Pos
    BY <1>2 DEF FillInv
  <2> QED BY <2>1 DEF FillInv
<1> QED BY <1>1, <1>2

\* A step after which no request is open.
LEMMA FillClosed ==
  ASSUME reqPart' = NoPart, buf' # <<>> => busy',
         \A p \in Part : fromData'[p] = bakData'[p]
  PROVE  FillInv'
  BY DEF FillInv

\* Ending the request that is open, if any, restores fromChannel.
LEMMA ResetRestores ==
  ASSUME TypeOK, FillInv, ResetFail
  PROVE  reqPart' = NoPart /\ \A p \in Part : fromData'[p] = bakData'[p]
<1>1. CASE reqPart = NoPart
  <2>1. \A p \in Part : fromData[p] = bakData[p]
    BY <1>1 DEF FillInv, Part, NoPart
  <2>2. UNCHANGED <<reqPart, fromData, bakData>>
    BY <1>1 DEF ResetFail, storeVars, vars, ramVars, reqVars
  <2> QED BY <1>1, <2>1, <2>2
<1>2. CASE reqPart # NoPart
  <2>1. /\ fromData' = [fromData EXCEPT ![reqPart] = bakData[reqPart]]
        /\ bakData' = bakData /\ reqPart' = NoPart
    BY <1>2 DEF ResetFail, SyncFail, RestoreData
  <2> QED BY <1>2, <2>1 DEF FillInv, TypeOK
<1> QED BY <1>1, <1>2

\* The store's own steps touch neither an open request nor its buffers.
LEMMA StoreFill ==
  ASSUME TypeOK, Control, FillInv,
         Boot \/ SyncSignal \/ SpuriousWake \/ \E t \in Thread : SaveToDisk(t)
  PROVE  \/ UNCHANGED <<fromData, bakData, reqPart, win>>
         \/ reqPart' = NoPart /\ \A p \in Part : fromData'[p] = bakData'[p]
<1>1. CASE BootRead
  <2>1. reqPart = NoPart /\ UNCHANGED reqPart
    BY <1>1 DEF BootRead, Control, BootPC, reqVars
  <2>2. PICK p, c : /\ fromData' = [fromData EXCEPT ![p] = c]
                    /\ bakData' = [bakData EXCEPT ![p] = c]
    BY <1>1 DEF BootRead, Load
  <2>3. \A q \in Part : fromData[q] = bakData[q]
    BY <2>1 DEF FillInv, Part, NoPart
  <2> QED BY <2>1, <2>2, <2>3 DEF TypeOK
<1>2. CASE BootFix \/ BootFixWrite \/ SyncSignal \/ SpuriousWake
  BY <1>2 DEF BootFix, BootFixWrite, SyncSignal, SpuriousWake, ramVars, reqVars
<1>3. ASSUME NEW t \in Thread, SaveToDisk(t)
      PROVE  UNCHANGED <<fromData, bakData, reqPart, win>>
  BY <1>3 DEF SaveToDisk, SaveCheck, SaveGet, GetData, RamDiskWrite, OpenImage,
              WriteImage, SaveClear, ramVars, reqVars
<1> QED BY <1>1, <1>2, <1>3 DEF Boot

\* The item the analyzer looks at is the next one of the stream.
LEMMA NextItem ==
  ASSUME Items, StreamInv, FillInv, Parsing
  PROVE  /\ busy /\ cur.req \in Requests /\ Pos \in Nat
         /\ Pos + 1 \in 1 .. Len(cur.req.stream)
         /\ item = cur.req.stream[Pos + 1]
         /\ cur.past - Len(Tail(buf)) = Pos + 1
<1>1. buf # <<>> /\ buf \in Seq(Item) /\ busy
  BY DEF Parsing, Items, FillInv
<1>2. Slice(cur.req, cur.past, buf) /\ cur.req \in Requests /\ cur.past \in Nat
  BY <1>1 DEF StreamInv, Slice
<1>3. Len(buf) \in Nat /\ DOMAIN cur.req.stream = 1 .. Len(cur.req.stream)
  BY <1>1, <1>2, StreamFacts
<1>4. /\ Len(Tail(buf)) = Len(buf) - 1
      /\ Head(buf) = cur.req.stream[cur.past - Len(buf) + 1]
      /\ cur.past - Len(buf) + 1 \in DOMAIN cur.req.stream
      /\ cur.past - Len(buf) \in Nat
  BY <1>1, <1>2, RestOfSlice
<1>5. cur.past - Len(Tail(buf)) = cur.past - Len(buf) + 1
  BY <1>2, <1>3, <1>4
<1> QED BY <1>1, <1>2, <1>3, <1>4, <1>5 DEF Pos, item

\* One token or one sector: the request has its next item written over it.
LEMMA ItemFill ==
  ASSUME TypeOK, Control, Items, StreamInv, FillInv,
         TokenShort \/ TokenHead \/ TokenBody \/ Data
  PROVE  FillInv'
<1> DEFINE r == cur.req
           n == Pos
<1>1. /\ Parsing /\ busy /\ r \in Requests /\ n \in Nat
      /\ n + 1 \in 1 .. Len(r.stream)
      /\ item = r.stream[n + 1]
      /\ cur.past - Len(Tail(buf)) = n + 1
  BY NextItem DEF TokenShort, TokenHead, TokenBody, Data
<1>2. cur' = cur
  BY DEF TokenShort, TokenHead, TokenBody, Data, Refuse, ghost
<1>3. /\ WellFormed(r) /\ n + 1 \in DOMAIN r.stream /\ Len(r.stream) \in Nat
  BY <1>1, StreamsAssumption, StreamFacts
<1>4. item.t # "data" => n + 1 \notin Sectors(r)
  BY <1>1 DEF Sectors
<1>5. /\ item.t = "head" => n = 0 /\ item.part = r.part
      /\ item.t = "body" => \E e \in n + 1 .. Len(r.stream) :
                              Holds(r, n + 1, e, item.secs)
      /\ item.t = "tail" => n + 1 = Len(r.stream)
  BY <1>1, <1>3 DEF WellFormed
<1>6. buf' = Tail(buf) => Pos' = n + 1
  BY <1>1, <1>2 DEF Pos
<1> HIDE DEF r, n
\* An error closes the request.
<1>7. CASE Refuse
  BY <1>7, ResetRestores, FillClosed DEF Refuse
\* A token is taken, and the next sectors are to come.
<1>8. ASSUME buf' = Tail(buf), busy' = busy, reqPart' = reqPart,
             reqPart # NoPart, UNCHANGED <<fromData, bakData>>, item.t # "data",
             win' # {} => \E e \in n + 1 .. Len(r.stream) :
                            Holds(r, n + 1, e, win')
      PROVE  FillInv'
  <2>1. Latest(r, n + 1, bakData[reqPart], fromData[reqPart])
    BY <1>1, <1>4, <1>8, LatestSkip DEF FillInv, r, n
  <2> QED BY <1>1, <1>2, <1>6, <1>8, <2>1 DEF FillInv, r
<1>9. CASE TokenShort
  <2>1. /\ buf' = <<>> /\ win = {} /\ item.t # "data" /\ Len(buf) = 1
        /\ UNCHANGED <<fromData, bakData, reqPart, win, busy>>
    BY <1>9 DEF TokenShort, Short, storeVars, vars, ramVars, reqVars
  <2>2. buf' = Tail(buf)
    <3>1. buf # <<>> /\ buf \in Seq(Item)
      BY <1>1 DEF Parsing, Items
    <3>2. Tail(buf) \in Seq(Item) /\ Len(Tail(buf)) = 0
      BY <2>1, <3>1, HeadTailProperties
    <3> QED BY <2>1, <3>2, EmptySeq
  <2>3. CASE reqPart = NoPart
    <3>1. \A p \in Part : fromData[p] = bakData[p]
      BY <2>3 DEF FillInv, Part, NoPart
    <3> QED BY <1>1, <2>1, <2>3, <3>1, FillClosed
  <2> QED BY <1>8, <2>1, <2>2, <2>3
<1>10. CASE TokenHead
  <2>1. SUFFICES ASSUME item.t = "head", SyncHead(item.part), buf' = Tail(buf),
                        UNCHANGED busy, item.part \in Part
                 PROVE  FillInv'
    BY <1>7, <1>10 DEF TokenHead
  <2>2. /\ reqPart = NoPart /\ reqPart' = r.part /\ win' = {}
        /\ UNCHANGED <<fromData, bakData>>
    BY <1>5, <2>1 DEF SyncHead, ramVars, Control
  <2>3. \A p \in Part : fromData[p] = bakData[p]
    BY <2>2 DEF FillInv, Part, NoPart
  <2>4. Latest(r, 0 + 1, bakData[reqPart'], fromData[reqPart'])
    <3>1. fromData[reqPart'] = bakData[reqPart']
      BY <1>5, <2>1, <2>2, <2>3
    <3>2. Latest(r, 0, bakData[reqPart'], fromData[reqPart'])
      BY <1>1, <3>1, LatestNone
    <3>3. 0 + 1 \notin Sectors(r)
      BY <1>4, <1>5, <2>1
    <3> QED BY <1>1, <3>2, <3>3, LatestSkip
  <2>5. Pos' = 0 + 1
    BY <1>5, <1>6, <2>1
  <2> QED BY <1>1, <1>2, <2>1, <2>2, <2>3, <2>4, <2>5 DEF FillInv, r
<1>11. CASE TokenBody
  <2>1. CASE InOrder /\ item.t = "body" /\ SyncBody(item.secs)
             /\ buf' = Tail(buf) /\ UNCHANGED busy
    <3>1. /\ UNCHANGED <<reqPart, fromData, bakData>> /\ win' = item.secs
          /\ reqPart # NoPart
      BY <2>1 DEF SyncBody, MarkDirty
    <3> QED BY <1>5, <1>8, <2>1, <3>1
  <2>2. CASE SyncDone /\ buf' = <<>>
    <3>1. /\ reqPart' = NoPart /\ fromData' = fromData /\ reqPart # NoPart
          /\ bakData' = [bakData EXCEPT ![reqPart] = fromData[reqPart]]
      BY <2>2 DEF SyncDone, BackupData
    <3>2. \A p \in Part : fromData'[p] = bakData'[p]
      BY <3>1 DEF FillInv, TypeOK
    <3> QED BY <2>2, <3>1, <3>2, FillClosed
  <2> QED BY <1>7, <1>11, <2>1, <2>2 DEF TokenBody
<1>12. CASE Data
  <2>1. /\ item.t = "data" /\ win # {} /\ SyncData(item.v)
        /\ buf' = Tail(buf) /\ UNCHANGED busy
    BY <1>12 DEF Data
  <2>2. /\ reqPart # NoPart /\ reqPart \in Part /\ r.part = reqPart
        /\ Latest(r, n, bakData[reqPart], fromData[reqPart])
    BY <2>1 DEF Control, FillInv, TypeOK, r, n
  <2>3. PICK e \in n .. Len(r.stream) : Holds(r, n, e, win)
    BY <2>1, <2>2 DEF FillInv, r, n
  <2>4. /\ n + 1 <= e /\ n + 1 \in Sectors(r) /\ item.sec \in win
        /\ \A x \in win : item.sec <= x
        /\ Holds(r, n + 1, e, win \ {item.sec})
    <3>1. e \in Int
      BY <1>1, <1>3
    <3> QED BY <1>1, <2>1, <2>3, <3>1, HoldsNext
  <2>5. PICK s \in win : (\A x \in win : s <= x) /\ WriteData(s, item.v)
        /\ UNCHANGED <<bakData, reqPart>>
    BY <2>1 DEF SyncData
  <2>6. s = item.sec
    <3>1. s \in Int /\ item.sec \in Int
      BY <2>4, SectAssumption DEF TypeOK
    <3>2. s <= item.sec
      BY <2>4, <2>5
    <3>3. item.sec <= s
      BY <2>4
    <3> QED BY <3>1, <3>2, <3>3
  <2>7. /\ fromData' = [fromData EXCEPT ![reqPart][item.sec] = item.v]
        /\ win' = win \ {item.sec}
    BY <2>5, <2>6 DEF WriteData
  <2>8. Latest(r, n + 1, bakData'[reqPart'], fromData'[reqPart'])
    <3>1. /\ fromData[reqPart] \in Content
          /\ fromData'[reqPart] = [fromData[reqPart] EXCEPT
                                     ![r.stream[n + 1].sec] = r.stream[n + 1].v]
      BY <1>1, <2>2, <2>7 DEF TypeOK
    <3> QED BY <1>1, <2>2, <2>4, <2>5, <3>1, LatestData
  <2>9. \A p \in Part : p # reqPart => fromData'[p] = fromData[p]
    BY <2>2, <2>7 DEF TypeOK
  <2>10. e \in n + 1 .. Len(r.stream)
    BY <1>1, <1>3, <2>4
  <2> QED BY <1>1, <1>2, <1>6, <2>1, <2>2, <2>4, <2>5, <2>7, <2>8, <2>9, <2>10
          DEF FillInv, r
<1> QED BY <1>9, <1>10, <1>11, <1>12

LEMMA FillNext ==
  ASSUME TypeOK, Control, Items, StreamInv, FillInv, [SNext]_syncVars
  PROVE  FillInv'
<1>1. CASE Modem \/ Answer \/ UNCHANGED syncVars
  <2>1. UNCHANGED <<fromData, bakData, reqPart, win, busy, buf, cur>>
    BY <1>1 DEF Modem, ModemStart, ModemSend, ModemRepeat, Answer, syncVars,
                storeVars, vars, ramVars, reqVars, ghost
  <2> QED BY <2>1, FillSame DEF FillInv, Pos
<1>2. CASE GetPacket
  <2> DEFINE p == Head(chan)
  <2>1. CASE Expected(p) /\ busy /\ UNCHANGED <<storeVars, busy>>
             /\ buf' = p.items /\ cur' = Origin(p)
    <3>1. p \in Sent /\ p \in Packet
      BY <1>2 DEF GetPacket, Sent, Items
    <3>2. Follows(idxGrp, idxSub, cur.req, cur.past, p.grp, p.sub, p.req,
                  p.past - Len(p.items))
      BY <2>1, <3>1 DEF StreamInv, Chained
    <3>3. p.req = cur.req /\ p.past - Len(p.items) = cur.past
      BY <2>1, <3>2 DEF Follows, Expected
    <3>4. cur.past \in Nat /\ buf = <<>>
      BY <1>2, <2>1 DEF StreamInv, Slice, GetPacket, Reading
    <3>5. cur'.req = cur.req /\ Pos' = Pos
      BY <2>1, <3>3, <3>4 DEF Pos, Origin
    <3> QED BY <2>1, <3>5, FillSame DEF storeVars, vars, ramVars, reqVars
  <2>2. CASE UNCHANGED <<storeVars, busy, buf, cur>>
    BY <2>2, FillSame DEF FillInv, Pos, storeVars, vars, ramVars, reqVars
  <2>3. CASE busy' /\ (IF busy THEN ResetFail ELSE UNCHANGED storeVars)
    <3>1. CASE busy
      BY <2>3, <3>1, ResetRestores, FillClosed
    <3>2. CASE ~busy
      <4>1. reqPart = NoPart /\ \A q \in Part : fromData[q] = bakData[q]
        BY <3>2 DEF FillInv, Part, NoPart
      <4> QED BY <2>3, <3>2, <4>1, FillClosed
              DEF storeVars, vars, ramVars, reqVars
    <3> QED BY <3>1, <3>2
  <2> QED BY <1>2, <2>1, <2>2, <2>3 DEF GetPacket
<1>3. CASE ChannelFail
  BY <1>3, ResetRestores, FillClosed DEF ChannelFail, Reading
<1>4. CASE TokenShort \/ TokenHead \/ TokenBody \/ Data
  BY <1>4, ItemFill
<1>5. CASE StoreStep
  BY <1>5, StoreFill, FillSame, FillClosed DEF StoreStep, FillInv, ghost, Pos
<1>6. CASE Restart
  BY <1>6, FillClosed DEF Restart, Crash
<1> QED
  BY <1>1, <1>2, <1>3, <1>4, <1>5, <1>6 DEF SNext, Analyzer

(***************************************************************************)
(* The theorems                                                            *)
(***************************************************************************)
LEMMA StreamCorrect ==
  SSpec => [](TypeOK /\ Control /\ Items /\ StreamInv /\ FillInv)
<1>1. SSpec => [](TypeOK /\ Control)
  BY Implements, TypeCorrect, PTL DEF StoreSpec
<1>2. TypeOK /\ Control /\ Items /\ StreamInv /\ FillInv /\ [SNext]_syncVars
        => FillInv'
  BY FillNext
<1> QED
  BY <1>1, <1>2, ItemsInit, ItemsNext, StreamInit, StreamNext, FillInit, PTL
     DEF SSpec

\* Whatever the channel loses or repeats and the modem abandons, what
\* _syncGetData writes is data of the open request, and goes into the sector
\* it was read from.
THEOREM AlignedCorrect == SSpec => []Aligned
<1>1. TypeOK /\ Control /\ Items /\ StreamInv /\ FillInv => Aligned
  <2> SUFFICES ASSUME TypeOK, Control, Items, StreamInv, FillInv, Parsing,
                      win # {}
               PROVE  item.t = "data" /\ item.sec \in win
                      /\ \A x \in win : item.sec <= x
    BY DEF Aligned
  <2>1. PICK e \in Pos .. Len(cur.req.stream) : Holds(cur.req, Pos, e, win)
    BY DEF FillInv, Control
  <2>2. /\ Pos + 1 \in Sectors(cur.req)
        /\ cur.req.stream[Pos + 1].sec \in win
        /\ \A x \in win : cur.req.stream[Pos + 1].sec <= x
    <3>1. cur.req \in Requests /\ Pos \in Nat
      BY NextItem
    <3>2. e \in Int
      BY <3>1, StreamFacts
    <3> QED BY <2>1, <3>1, <3>2, HoldsNext
  <2> QED BY <2>2, NextItem DEF Sectors
<1> QED BY <1>1, StreamCorrect, PTL

\* And when _syncReset(SYNC_SUC_RESET) copies fromChannel into backup, the
\* partition changes by exactly the sectors of one request, although requests
\* before it have left fromChannel half written.
THEOREM CommitsWholeRequestCorrect == SSpec => CommitsWholeRequest
<1>1. ASSUME TypeOK, Control, Items, StreamInv, FillInv, [SNext]_syncVars,
             done' # done
      PROVE  bakData' = [bakData EXCEPT ![cur.req.part] = Apply(@, cur.req)]
  <2>1. Parsing /\ InOrder /\ item.t = "tail" /\ SyncDone
    BY <1>1 DEF SNext, Modem, Analyzer, ModemStart, ModemSend, ModemRepeat,
                GetPacket, ChannelFail, TokenShort, TokenHead, TokenBody, Data,
                Answer, StoreStep, Restart, Refuse, syncVars, ghost
  <2>2. /\ reqPart # NoPart
        /\ bakData' = [bakData EXCEPT ![reqPart] = fromData[reqPart]]
    BY <2>1 DEF SyncDone, BackupData
  <2> DEFINE r == cur.req
             n == Pos
             p == reqPart
  <2>3. /\ r \in Requests /\ n \in Nat /\ n + 1 \in 1 .. Len(r.stream)
        /\ item = r.stream[n + 1]
    BY <1>1, <2>1, NextItem
  <2>4. r.part = p /\ p \in Part /\ Latest(r, n, bakData[p], fromData[p])
    BY <1>1, <2>2 DEF FillInv, TypeOK
  <2>5. fromData[p] \in Content /\ bakData[p] \in Content
    BY <1>1, <2>4 DEF TypeOK
  <2> HIDE DEF r, n, p
  <2>6. n + 1 \notin Sectors(r)
    BY <2>1, <2>3 DEF Sectors
  <2>7. n + 1 = Len(r.stream)
    BY <2>1, <2>3, StreamsAssumption, StreamFacts DEF WellFormed
  <2>8. Latest(r, Len(r.stream), bakData[p], fromData[p])
    BY <2>3, <2>4, <2>6, <2>7, LatestSkip
  <2>9. fromData[p] = Apply(bakData[p], r)
    BY <2>3, <2>5, <2>8, LatestAll
  <2> QED BY <2>2, <2>4, <2>9 DEF r, p
<1>2. TypeOK /\ Control /\ Items /\ StreamInv /\ FillInv /\ [SNext]_syncVars
        => [done' # done =>
              bakData' = [bakData EXCEPT ![cur.req.part] = Apply(@, cur.req)]
           ]_syncVars
  BY <1>1
<1> QED BY <1>2, StreamCorrect, PTL DEF SSpec, CommitsWholeRequest
=============================================================================
