-------------------------- MODULE EventStreamProofs --------------------------
(***************************************************************************)
(* Theorems about EventStream for every value of its constants.            *)
(***************************************************************************)
EXTENDS EventStream, TLAPS, SequenceTheorems

USE ConstantsAssumption DEF ConstantsAssumption

-----------------------------------------------------------------------------
(* Types *)

\* An element taken out of a sequence, or a start cut off, leaves a sequence.
LEMMA PartType ==
  ASSUME NEW S, NEW s \in Seq(S)
  PROVE  /\ \A i \in DOMAIN s : RemoveAt(s, i) \in Seq(S) /\ Len(RemoveAt(s, i)) = Len(s) - 1
         /\ \A n \in 1..Len(s) + 1 : SubSeq(s, n, Len(s)) \in Seq(S) /\ Len(SubSeq(s, n, Len(s))) <= Len(s)
<1>1. ASSUME NEW i \in DOMAIN s
      PROVE  RemoveAt(s, i) \in Seq(S) /\ Len(RemoveAt(s, i)) = Len(s) - 1
  <2>1. i \in 1..Len(s)
    OBVIOUS
  <2>2. SubSeq(s, 1, i - 1) \in Seq(S) /\ Len(SubSeq(s, 1, i - 1)) = i - 1
    BY <2>1, SubSeqProperties
  <2>3. SubSeq(s, i + 1, Len(s)) \in Seq(S) /\ Len(SubSeq(s, i + 1, Len(s))) = Len(s) - i
    BY <2>1, SubSeqProperties
  <2>4. RemoveAt(s, i) = SubSeq(s, 1, i - 1) \o SubSeq(s, i + 1, Len(s))
    BY DEF RemoveAt
  <2>5. /\ RemoveAt(s, i) \in Seq(S)
        /\ Len(RemoveAt(s, i)) = Len(SubSeq(s, 1, i - 1)) + Len(SubSeq(s, i + 1, Len(s)))
    BY SMTT(30), <2>2, <2>3, <2>4, ConcatProperties
  <2>6. Len(s) \in Nat
    OBVIOUS
  <2>7. Len(RemoveAt(s, i)) = (i - 1) + (Len(s) - i)
    BY <2>2, <2>3, <2>5
  <2>8. (i - 1) + (Len(s) - i) = Len(s) - 1
    BY <2>1, <2>6
  <2>q. QED BY <2>5, <2>7, <2>8
<1>2. ASSUME NEW n \in 1..Len(s) + 1
      PROVE  SubSeq(s, n, Len(s)) \in Seq(S) /\ Len(SubSeq(s, n, Len(s))) <= Len(s)
  OBVIOUS
<1>q. QED BY <1>1, <1>2

\* The text of a call is dropped, or moved to the end: the streams stay calls.
LEMMA StreamsType ==
  ASSUME streams \in Seq(Call), NEW k \in Call
  PROVE  Drop(k) \/ Touch(k) => streams' \in Seq(Call)
<1>1. \A i \in DOMAIN streams : RemoveAt(streams, i) \in Seq(Call)
  BY PartType
<1>2. ASSUME NEW s \in Seq(Call) PROVE Append(s, k) \in Seq(Call)
  OBVIOUS
<1>q. QED BY <1>1, <1>2 DEF Drop, Touch

\* What is left when old streams expire are streams.
LEMMA UnexpiredType ==
  ASSUME streams \in Seq(Call)
  PROVE  \A kept \in Unexpired : kept \in Seq(Call) /\ Len(kept) <= Len(streams)
  BY PartType DEF Unexpired

\* The snapshots of a new subscription are messages.
LEMMA SnapshotsType ==
  ASSUME TypeOK, NEW S \in SUBSET Call, NEW order \in Orders(S)
  PROVE  [i \in DOMAIN order |-> Snapshot(order[i])] \in Seq(Message)
<1>1. PICK n \in 0..Len(streams) : order \in [1..n -> S]
  BY DEF Orders
<1>2. \A k \in S : Snapshot(k) \in Message
  BY DEF TypeOK, Snapshot, Message
<1>3. n \in Nat
  BY DEF TypeOK
<1>q. QED BY <1>1, <1>2, <1>3

\* Publication keeps the types of the subscriptions and their channels.
LEMMA PublishType ==
  ASSUME TypeOK, NEW m \in Message, PublishToAll(m)
  PROVE  subs' \in SUBSET Reader /\ chan' \in [Reader -> Seq(Message)]
  BY DEF TypeOK, PublishToAll

\* What capturePageStream does with a delta keeps the types of the hub's text.
LEMMA CaptureType ==
  ASSUME TypeOK, NEW k \in Call, NEW n \in Nat, CaptureKnown(k, n) \/ CaptureNew(k, n)
  PROVE  streams' \in Seq(Call) /\ captured' \in [Call -> [first : Nat, last : Nat]] /\ overflow' \in SUBSET Call
<1>1. CASE CaptureKnown(k, n)
  <2>1. streams' \in Seq(Call)
    BY <1>1, StreamsType DEF CaptureKnown, TypeOK
  <2>2. captured \in [Call -> [first : Nat, last : Nat]] /\ overflow \in SUBSET Call
    BY DEF TypeOK
  <2>3. [captured EXCEPT ![k].last = n] \in [Call -> [first : Nat, last : Nat]]
    BY <2>2
  <2>4. captured' \in [Call -> [first : Nat, last : Nat]] /\ overflow' \in SUBSET Call
    BY <1>1, <2>2, <2>3 DEF CaptureKnown
  <2>q. QED BY <2>1, <2>4
<1>2. CASE CaptureNew(k, n)
  <2>1. PICK kept \in Unexpired : streams' = Append(IF Len(kept) >= MaxStreams THEN Tail(kept) ELSE kept, k)
    BY <1>2 DEF CaptureNew
  <2>2. kept \in Seq(Call)
    BY UnexpiredType DEF TypeOK
  <2>3. Len(kept) >= MaxStreams => Tail(kept) \in Seq(Call)
    BY <2>2
  <2>4. streams' \in Seq(Call)
    BY <2>1, <2>2, <2>3
  <2>5. captured' \in [Call -> [first : Nat, last : Nat]] /\ overflow' \in SUBSET Call
    BY <1>2 DEF CaptureNew, TypeOK
  <2>q. QED BY <2>4, <2>5
<1>q. QED BY <1>1, <1>2

\* Steps of the store and of the turn that streams arguments keep the types.
LEMMA WriterType ==
  ASSUME TypeOK
  PROVE  /\ \A n \in 1..MaxSeq : Commit(n) => TypeOK'
         /\ Publication => TypeOK'
         /\ \A k \in Call : EmitArguments(k) \/ RunCall(k) => TypeOK'
<1>1. ASSUME NEW n \in 1..MaxSeq, Commit(n) PROVE TypeOK'
  BY <1>1 DEF Commit, TypeOK, StoreUnlocked, hubVars, pageVars, callVars, clientVars
<1>2. ASSUME NEW endsTurn \in BOOLEAN, PublishCommitted(endsTurn) PROVE TypeOK'
  <2>1. Lifecycle(published + 1) \in Message
    BY DEF TypeOK, Lifecycle, Message
  <2>2. subs' \in SUBSET Reader /\ chan' \in [Reader -> Seq(Message)]
    BY <1>2, <2>1, PublishType DEF PublishCommitted
  <2>3. published' \in Nat /\ published' <= latest' /\ latest' \in Nat
    BY <1>2 DEF PublishCommitted, StoreUnlocked, TypeOK
  <2>4. streams \in Seq(Call) /\ over \in SUBSET Call /\ <<>> \in Seq(Call)
    BY DEF TypeOK
  <2>5. streams' \in Seq(Call) /\ over' \in SUBSET Call
    BY <1>2, <2>4 DEF PublishCommitted
  <2>q. QED BY <1>2, <2>2, <2>3, <2>5 DEF PublishCommitted, TypeOK, clientVars
<1>3. ASSUME NEW k \in Call, EmitArguments(k) PROVE TypeOK'
  <2>1. emitted[k] + 1 \in Nat /\ Delta(k, emitted[k] + 1) \in Message
    BY DEF TypeOK, Delta, Message
  <2>2. subs' \in SUBSET Reader /\ chan' \in [Reader -> Seq(Message)]
    BY <1>3, <2>1, PublishType DEF EmitArguments
  <2>3. /\ streams' \in Seq(Call) /\ overflow' \in SUBSET Call
        /\ captured' \in [Call -> [first : Nat, last : Nat]]
    BY <1>3, <2>1, CaptureType DEF EmitArguments
  <2>4. emitted' \in [Call -> Nat]
    BY <1>3, <2>1 DEF EmitArguments, TypeOK
  <2>q. QED BY <1>3, <2>2, <2>3, <2>4 DEF EmitArguments, TypeOK, storeVars, clientVars
<1>4. ASSUME NEW k \in Call, RunCall(k) PROVE TypeOK'
  <2>1. Phase(k) \in Message
    BY DEF Phase, Message
  <2>2. subs' \in SUBSET Reader /\ chan' \in [Reader -> Seq(Message)]
    BY <1>4, <2>1, PublishType DEF RunCall
  <2>3. streams' \in Seq(Call)
    BY <1>4, StreamsType DEF RunCall, TypeOK
  <2>q. QED BY <1>4, <2>2, <2>3 DEF RunCall, TypeOK, storeVars, clientVars
<1>q. QED BY <1>1, <1>2, <1>3, <1>4 DEF Publication

\* The arrival of an event at a client keeps the types.
LEMMA DeliverType ==
  ASSUME TypeOK, NEW r \in Reader, NEW s \in Nat, Deliver(r, s)
  PROVE  /\ cursor' \in [Reader -> Nat] /\ position' \in [Reader -> Nat]
         /\ received' \in [Reader -> Seq(Nat)]
<1>1. Append(received[r], s) \in Seq(Nat)
  BY DEF TypeOK
<1>q. QED BY <1>1 DEF Deliver, TypeOK

\* Steps of a handler keep the types.
LEMMA HandlerType ==
  ASSUME TypeOK, NEW r \in Reader
  PROVE  Connect(r) \/ HandlerStep(r) \/ Disconnect(r) => TypeOK'
<1>1. CASE Connect(r)
  BY <1>1 DEF Connect, MoveTo, TypeOK, storeVars, hubVars, pageVars, callVars, clientVars
<1>2. CASE ReadTail(r)
  BY <1>2 DEF ReadTail, MoveTo, TypeOK, storeVars, hubVars, pageVars, callVars
<1>3. CASE Subscribe(r)
  <2>1. PICK kept \in Unexpired : \E order \in Orders(Shown(kept)) :
          /\ streams' = kept
          /\ chan' = [chan EXCEPT ![r] = [i \in DOMAIN order |-> Snapshot(order[i])]]
    BY <1>3 DEF Subscribe
  <2>2. kept \in Seq(Call)
    BY UnexpiredType DEF TypeOK
  <2>3. Shown(kept) \in SUBSET Call
    BY <2>2 DEF Shown, ToSet
  <2>4. PICK order \in Orders(Shown(kept)) :
          chan' = [chan EXCEPT ![r] = [i \in DOMAIN order |-> Snapshot(order[i])]]
    BY <2>1
  <2>5. [i \in DOMAIN order |-> Snapshot(order[i])] \in Seq(Message)
    BY <2>3, <2>4, SnapshotsType
  <2>6. chan' \in [Reader -> Seq(Message)]
    BY <2>4, <2>5 DEF TypeOK
  <2>q. QED BY <1>3, <2>1, <2>2, <2>6 DEF Subscribe, MoveTo, TypeOK, storeVars, callVars, clientVars
<1>4. CASE ReadBacklog(r)
  <2>1. cursor' \in [Reader -> Nat]
    BY <1>4 DEF ReadBacklog, Deleted, TypeOK
  <2>q. QED BY <1>4, <2>1 DEF ReadBacklog, MoveTo, TypeOK, storeVars, hubVars, pageVars, callVars, clientVars
<1>5. CASE WriteBacklog(r)
  <2>1. cursor[r] + 1 \in Nat
    BY DEF TypeOK
  <2>q. QED BY <1>5, <2>1, DeliverType DEF WriteBacklog, TypeOK, storeVars, hubVars, pageVars, callVars
<1>6. CASE ForwardLive(r)
  <2>1. Head(chan[r]) \in Message /\ Tail(chan[r]) \in Seq(Message)
    BY <1>6 DEF ForwardLive, TypeOK
  <2>2. chan' \in [Reader -> Seq(Message)]
    BY <1>6, <2>1 DEF ForwardLive, TypeOK
  <2>3. CASE ForwardLifecycle(r, Head(chan[r]))
    <3>1. /\ cursor' \in [Reader -> Nat] /\ position' \in [Reader -> Nat]
          /\ received' \in [Reader -> Seq(Nat)] /\ heard' = heard
      <4>1. Head(chan[r]).seq \in Nat
        BY <2>1 DEF Message
      <4>2. /\ heard' = heard
            /\ Deliver(r, Head(chan[r]).seq) \/ UNCHANGED <<cursor, position, received>>
        BY <2>3 DEF ForwardLifecycle
      <4>q. QED BY <4>1, <4>2, DeliverType DEF TypeOK
    <3>q. QED BY <1>6, <2>2, <3>1 DEF ForwardLive, TypeOK, storeVars, pageVars, callVars
  <2>4. CASE ForwardTransient(r, Head(chan[r]))
    <3>1. /\ Head(chan[r]).last \in Nat
          /\ UNCHANGED <<cursor, position, received>>
      BY <2>1, <2>4 DEF ForwardTransient, Message
    <3>2. heard' \in [Reader -> [Call -> Nat]]
      BY <2>4, <3>1 DEF ForwardTransient, TypeOK
    <3>q. QED BY <1>6, <2>2, <3>1, <3>2 DEF ForwardLive, TypeOK, storeVars, pageVars, callVars
  <2>q. QED BY <1>6, <2>3, <2>4 DEF ForwardLive
<1>7. CASE Leave(r)
  BY SMTT(30), <1>7 DEF Leave, MoveTo, TypeOK, storeVars, pageVars, callVars
<1>q. QED BY <1>1, <1>2, <1>3, <1>4, <1>5, <1>6, <1>7 DEF HandlerStep, EndOfChannel, Disconnect

\* Every step keeps the types.
LEMMA TypeStep == TypeOK /\ [Next]_vars => TypeOK'
<1> SUFFICES ASSUME TypeOK, [Next]_vars PROVE TypeOK'
  OBVIOUS
<1>1. CASE Crash
  BY <1>1 DEF Crash, TypeOK
<1>2. CASE UNCHANGED vars
  BY <1>2 DEF vars, storeVars, hubVars, pageVars, callVars, clientVars, TypeOK
<1>q. QED BY <1>1, <1>2, WriterType, HandlerType DEF Next

\* The initial state has the declared types.
LEMMA TypeInit == Init => TypeOK
  BY DEF Init, TypeOK

\* Every state of the log, the hub and the handlers has the declared types; in
\* particular a resumption never computes a negative start of the backlog, and
\* nothing is published that was not committed.
THEOREM TypeCorrect == Spec => []TypeOK
  BY TypeInit, TypeStep, PTL DEF Spec

-----------------------------------------------------------------------------
(* The invariant of a stream.  What a reader has received is not inductive *)
(* alone: between its backlog and the channel nothing may be missing, and  *)
(* the channel must hold, in order, what was published behind both.        *)

InChan(r, s) == \E i \in DOMAIN chan[r] : chan[r][i].seq = s

\* Lifecycle events alone have numbers, and the channel has them in order.
ChannelInOrder(r) ==
  /\ \A i \in DOMAIN chan[r] :
       /\ chan[r][i].seq <= published
       /\ chan[r][i].kind = "lifecycle" <=> chan[r][i].seq > 0
  /\ \A i, j \in DOMAIN chan[r] : i < j /\ chan[r][j].seq > 0 => chan[r][i].seq < chan[r][j].seq

\* A subscriber's channel has what was published; of a subscription that was
\* cut off it has what was published before.
Promised(r, s) ==
  \/ r \in subs /\ s <= published
  \/ \E j \in DOMAIN chan[r] : s <= chan[r][j].seq

\* The channel continues where the backlog, or what was delivered since, ends.
ChannelComplete(r) ==
  stage[r] = "stream" =>
    \A s \in Nat : cursor[r] < s /\ replay[r] < s /\ Promised(r, s) => InChan(r, s)

\* The handler is not behind its client, and neither is ahead of the log.
HandlerInv(r) ==
  /\ stage[r] \notin {"backlog", "stream"} => r \notin subs /\ chan[r] = <<>>
  /\ stage[r] = "tail" => position[r] = 0
  /\ stage[r] \in {"subscribe", "backlog", "stream"} => position[r] <= cursor[r] /\ cursor[r] <= latest
  /\ position[r] <= latest
  /\ replay[r] <= latest

Received(r, s) == \E i \in DOMAIN received[r] : received[r][i] = s

\* What the client has is in order, and complete up to its position; what the
\* handler has passed over is with the client or deleted.
ReceivedInOrder(r) ==
  /\ \A i \in DOMAIN received[r] : received[r][i] <= position[r]
  /\ \A i, j \in DOMAIN received[r] : i < j => received[r][i] < received[r][j]

CompleteTo(r, n) == \A s \in Nat : start[r] < s /\ s <= n => Received(r, s) \/ Deleted(s)

ReceivedComplete(r) ==
  /\ CompleteTo(r, position[r])
  /\ stage[r] \in {"subscribe", "backlog", "stream"} => CompleteTo(r, cursor[r])

ReaderInv(r) ==
  /\ ChannelInOrder(r)
  /\ ChannelComplete(r)
  /\ HandlerInv(r)
  /\ ReceivedInOrder(r)
  /\ ReceivedComplete(r)

StreamInv == \A r \in Reader : ReaderInv(r)

\* A step that leaves a reader's connection and history alone, and publishes
\* nothing, keeps its invariant, even if more events are committed.
LEMMA ReaderKept ==
  ASSUME TypeOK, TypeOK', NEW r \in Reader, ReaderInv(r),
         latest <= latest', published' = published,
         r \in subs' <=> r \in subs, chan'[r] = chan[r], stage'[r] = stage[r],
         cursor'[r] = cursor[r], replay'[r] = replay[r], start'[r] = start[r],
         position'[r] = position[r], received'[r] = received[r]
  PROVE  ReaderInv(r)'
<1>1. ChannelInOrder(r)'
  BY DEF ReaderInv, ChannelInOrder
<1>2. ChannelComplete(r)'
  BY DEF ReaderInv, ChannelComplete, Promised, InChan
<1>3. HandlerInv(r)'
  BY SMTT(30) DEF ReaderInv, HandlerInv, TypeOK
<1>4. ReceivedInOrder(r)'
  BY DEF ReaderInv, ReceivedInOrder
<1>5. \A s \in Nat : Deleted(s) => Deleted(s)'
  BY DEF Deleted, TypeOK
<1>6. ReceivedComplete(r)'
  BY <1>5 DEF ReaderInv, ReceivedComplete, CompleteTo, Received
<1>q. QED BY <1>1, <1>2, <1>3, <1>4, <1>6 DEF ReaderInv

\* Publications leave the handlers and the clients alone.
HandlerKept == UNCHANGED <<latest, stage, cursor, replay, start, position, received>>

\* A client's history stays in order and complete while its handler rests.
LEMMA HistoryKept ==
  ASSUME NEW r \in Reader, ReaderInv(r), HandlerKept
  PROVE  ReceivedInOrder(r)' /\ ReceivedComplete(r)'
  BY DEF HandlerKept, ReaderInv, ReceivedInOrder, ReceivedComplete, CompleteTo, Received, Deleted

\* A publication reaches the channel or cuts the subscription off: what the
\* channel promises stays complete and in order.
LEMMA PublishKeeps ==
  ASSUME TypeOK, NEW r \in Reader, ReaderInv(r), HandlerKept,
         NEW m \in Message, PublishToAll(m),
         \/ m.kind = "lifecycle" /\ m.seq = published + 1 /\ published' = published + 1
         \/ m.kind # "lifecycle" /\ m.seq = 0 /\ published' = published
  PROVE  ReaderInv(r)'
<1>1. chan[r] \in Seq(Message) /\ published \in Nat /\ m.seq \in Nat
  BY DEF TypeOK, Message
<1>2. \/ chan'[r] = chan[r] /\ r \notin subs'
      \/ chan'[r] = Append(chan[r], m) /\ r \in subs /\ r \in subs'
  <2>1. CASE r \in subs /\ Len(chan[r]) < Buffer
    BY <2>1 DEF PublishToAll
  <2>2. CASE ~(r \in subs /\ Len(chan[r]) < Buffer)
    BY <2>2 DEF PublishToAll
  <2>q. QED BY <2>1, <2>2
<1>3. /\ \A i \in DOMAIN chan[r] : chan[r][i].seq \in Nat /\ chan[r][i].seq <= published
      /\ published <= published' /\ published' \in Nat
  <2>0. \A i \in DOMAIN chan[r] : chan[r][i] \in Message
    BY <1>1
  <2>1. \A i \in DOMAIN chan[r] : chan[r][i].seq \in Nat
    BY <2>0 DEF Message
  <2>2. \A i \in DOMAIN chan[r] : chan[r][i].seq <= published
    BY DEF ReaderInv, ChannelInOrder
  <2>3. published <= published' /\ published' \in Nat
    BY <1>1
  <2>q. QED BY <2>1, <2>2, <2>3
<1>4. HandlerInv(r)'
  BY <1>2 DEF HandlerKept, ReaderInv, HandlerInv
<1>5. CASE chan'[r] = chan[r] /\ r \notin subs'
  <2>1. ChannelInOrder(r)'
    BY <1>1, <1>3, <1>5 DEF ReaderInv, ChannelInOrder
  <2>2. ChannelComplete(r)'
    BY <1>5 DEF HandlerKept, ReaderInv, ChannelComplete, Promised, InChan
  <2>q. QED BY <1>4, <2>1, <2>2, HistoryKept DEF ReaderInv
<1>6. CASE chan'[r] = Append(chan[r], m) /\ r \in subs /\ r \in subs'
  <2>1. /\ DOMAIN chan'[r] = 1..Len(chan[r]) + 1
        /\ DOMAIN chan[r] = 1..Len(chan[r])
        /\ \A i \in DOMAIN chan[r] : chan'[r][i] = chan[r][i]
        /\ chan'[r][Len(chan[r]) + 1] = m
        /\ Len(chan[r]) \in Nat
    BY <1>1, <1>6
  <2>2. ChannelInOrder(r)'
    <3>1. \A i \in DOMAIN chan[r] :
            chan[r][i].kind = "lifecycle" <=> chan[r][i].seq > 0
      BY DEF ReaderInv, ChannelInOrder
    <3>2. \A i, j \in DOMAIN chan[r] :
            i < j /\ chan[r][j].seq > 0 => chan[r][i].seq < chan[r][j].seq
      BY DEF ReaderInv, ChannelInOrder
    <3>3. \A i \in DOMAIN chan'[r] :
            /\ chan'[r][i].seq <= published'
            /\ chan'[r][i].kind = "lifecycle" <=> chan'[r][i].seq > 0
      <4>1. ASSUME NEW i \in DOMAIN chan[r]
            PROVE  /\ chan'[r][i].seq <= published'
                   /\ chan'[r][i].kind = "lifecycle" <=> chan'[r][i].seq > 0
        <5>1. chan'[r][i] = chan[r][i]
          BY <2>1
        <5>2. chan[r][i].seq <= published'
          BY <1>1, <1>3
        <5>q. QED BY <3>1, <5>1, <5>2
      <4>2. m.seq <= published' /\ (m.kind = "lifecycle" <=> m.seq > 0)
        BY <1>1
      <4>q. QED BY <2>1, <4>1, <4>2
    <3>4. ASSUME NEW i \in DOMAIN chan'[r], NEW j \in DOMAIN chan'[r], i < j, chan'[r][j].seq > 0
          PROVE  chan'[r][i].seq < chan'[r][j].seq
      <4>1. i \in DOMAIN chan[r]
        BY <2>1, <3>4
      <4>2. CASE j \in DOMAIN chan[r]
        <5>1. chan'[r][i] = chan[r][i] /\ chan'[r][j] = chan[r][j]
          BY <2>1, <4>1, <4>2
        <5>q. QED BY <3>2, <3>4, <4>1, <4>2, <5>1
      <4>3. CASE j = Len(chan[r]) + 1
        <5>1. chan'[r][i] = chan[r][i] /\ chan'[r][j] = m
          BY <2>1, <4>1, <4>3
        <5>2. m.seq = published + 1
          BY <3>4, <5>1
        <5>3. chan[r][i].seq \in Nat /\ chan[r][i].seq <= published
          BY <1>3, <4>1
        <5>q. QED BY <1>1, <5>1, <5>2, <5>3
      <4>q. QED BY <2>1, <4>2, <4>3
    <3>q. QED BY <3>3, <3>4 DEF ChannelInOrder
  <2>3. ASSUME NEW s \in Nat, stage'[r] = "stream", cursor'[r] < s, replay'[r] < s, Promised(r, s)'
        PROVE  InChan(r, s)'
    <3>1. s <= published \/ s = m.seq
      <4>1. s <= published'
        <5>1. CASE r \in subs' /\ s <= published'
          BY <5>1
        <5>2. CASE \E j \in DOMAIN chan'[r] : s <= chan'[r][j].seq
          <6>1. PICK j \in DOMAIN chan'[r] : s <= chan'[r][j].seq
            BY <5>2
          <6>2. chan'[r][j].seq <= published'
            BY <2>2 DEF ChannelInOrder
          <6>3. chan'[r][j].seq \in Nat
            <7>1. CASE j \in DOMAIN chan[r]
              <8>1. chan'[r][j] = chan[r][j]
                BY <2>1, <7>1
              <8>q. QED BY <1>3, <7>1, <8>1
            <7>2. CASE j = Len(chan[r]) + 1
              BY <1>1, <2>1, <7>2
            <7>q. QED BY <2>1, <7>1, <7>2
          <6>q. QED BY <1>3, <6>1, <6>2, <6>3
        <5>q. QED BY <2>3, <5>1, <5>2 DEF Promised
      <4>q. QED BY <1>1, <4>1
    <3>2. CASE s <= published
      <4>1. InChan(r, s)
        BY <1>6, <2>3, <3>2 DEF HandlerKept, ReaderInv, ChannelComplete, Promised
      <4>q. QED BY <2>1, <4>1 DEF InChan
    <3>3. CASE s = m.seq
      BY SMTT(30), <2>1, <3>3 DEF InChan
    <3>q. QED BY <3>1, <3>2, <3>3
  <2>4. ChannelComplete(r)'
    BY <2>3 DEF ChannelComplete
  <2>q. QED BY <1>4, <2>2, <2>4, HistoryKept DEF ReaderInv
<1>q. QED BY <1>2, <1>5, <1>6

\* Commits and publications keep every stream.
LEMMA WriterKeeps ==
  ASSUME TypeOK, TypeOK', StreamInv, NEW r \in Reader
  PROVE  /\ \A n \in 1..MaxSeq : Commit(n) => ReaderInv(r)'
         /\ Publication => ReaderInv(r)'
         /\ \A k \in Call : EmitArguments(k) \/ RunCall(k) => ReaderInv(r)'
<1> USE DEF StreamInv
<1>1. ASSUME NEW n \in 1..MaxSeq, Commit(n) PROVE ReaderInv(r)'
  <2>1. latest <= latest'
    BY <1>1 DEF Commit, TypeOK
  <2>q. QED BY <1>1, <2>1, ReaderKept DEF Commit, hubVars, clientVars
<1>2. ASSUME NEW endsTurn \in BOOLEAN, PublishCommitted(endsTurn) PROVE ReaderInv(r)'
  <2>1. /\ Lifecycle(published + 1) \in Message
        /\ Lifecycle(published + 1).kind = "lifecycle" /\ Lifecycle(published + 1).seq = published + 1
    BY DEF TypeOK, Lifecycle, Message
  <2>2. HandlerKept /\ PublishToAll(Lifecycle(published + 1)) /\ published' = published + 1
    BY <1>2 DEF PublishCommitted, HandlerKept, clientVars
  <2>q. QED BY <2>1, <2>2, PublishKeeps
<1>3. ASSUME NEW k \in Call, EmitArguments(k) PROVE ReaderInv(r)'
  <2>a. emitted \in [Call -> Nat]
    BY DEF TypeOK
  <2>0. emitted[k] + 1 \in Nat
    BY <2>a
  <2>1. /\ Delta(k, emitted[k] + 1) \in Message
        /\ Delta(k, emitted[k] + 1).kind # "lifecycle" /\ Delta(k, emitted[k] + 1).seq = 0
    BY <2>0 DEF Delta, Message
  <2>2. HandlerKept /\ PublishToAll(Delta(k, emitted[k] + 1)) /\ published' = published
    BY <1>3 DEF EmitArguments, HandlerKept, storeVars, clientVars
  <2>q. QED BY <2>1, <2>2, PublishKeeps
<1>4. ASSUME NEW k \in Call, RunCall(k) PROVE ReaderInv(r)'
  <2>1. Phase(k) \in Message /\ Phase(k).kind # "lifecycle" /\ Phase(k).seq = 0
    BY DEF Phase, Message
  <2>2. HandlerKept /\ PublishToAll(Phase(k)) /\ published' = published
    BY <1>4 DEF RunCall, HandlerKept, storeVars, clientVars
  <2>q. QED BY <2>1, <2>2, PublishKeeps
<1>q. QED BY <1>1, <1>2, <1>3, <1>4 DEF Publication

\* The next event reaches the client: its history grows in order, without a gap.
LEMMA DeliverNext ==
  ASSUME TypeOK, NEW r \in Reader, Deliver(r, cursor[r] + 1), position[r] <= cursor[r],
         ReceivedInOrder(r), CompleteTo(r, cursor[r]), UNCHANGED <<latest, start>>
  PROVE  /\ ReceivedInOrder(r)'
         /\ CompleteTo(r, position[r])' /\ CompleteTo(r, cursor[r])'
         /\ position'[r] = cursor[r] + 1 /\ cursor'[r] = cursor[r] + 1
<1>1. /\ cursor[r] \in Nat /\ position[r] \in Nat /\ start[r] \in Nat
      /\ received[r] \in Seq(Nat)
  BY DEF TypeOK
<1>2. /\ position'[r] = cursor[r] + 1 /\ cursor'[r] = cursor[r] + 1
      /\ position[r] <= cursor[r]
  BY DEF Deliver, TypeOK
<1>a. received'[r] = Append(received[r], cursor[r] + 1)
  BY DEF Deliver, TypeOK
<1>3. /\ DOMAIN received'[r] = 1..Len(received[r]) + 1
      /\ DOMAIN received[r] = 1..Len(received[r])
      /\ \A i \in DOMAIN received[r] : received'[r][i] = received[r][i] /\ received[r][i] \in Nat
      /\ received'[r][Len(received[r]) + 1] = cursor[r] + 1
      /\ Len(received[r]) \in Nat
  <2>1. cursor[r] + 1 \in Nat
    BY <1>1
  <2>2. /\ DOMAIN received[r] = 1..Len(received[r]) /\ Len(received[r]) \in Nat
        /\ \A i \in DOMAIN received[r] : received[r][i] \in Nat
    BY <1>1
  <2>3. DOMAIN received'[r] = 1..Len(received[r]) + 1
    BY <1>1, <1>a, <2>1
  <2>4. received'[r][Len(received[r]) + 1] = cursor[r] + 1
    BY <1>1, <1>a, <2>1
  <2>5. \A i \in DOMAIN received[r] : received'[r][i] = received[r][i]
    BY SMTT(30), <1>1, <1>a, <2>1
  <2>q. QED BY <2>2, <2>3, <2>4, <2>5
<1>4. /\ \A i \in DOMAIN received[r] : received[r][i] <= position[r]
      /\ \A i, j \in DOMAIN received[r] : i < j => received[r][i] < received[r][j]
  BY DEF ReceivedInOrder
<1>5. ReceivedInOrder(r)'
  <2>1. ASSUME NEW i \in DOMAIN received'[r] PROVE received'[r][i] <= position'[r]
    <3>1. CASE i \in DOMAIN received[r]
      <4>1. /\ received'[r][i] = received[r][i] /\ received[r][i] \in Nat
            /\ received[r][i] <= position[r]
        BY <1>3, <1>4, <3>1
      <4>q. QED BY SMTT(30), <1>1, <1>2, <4>1
    <3>2. CASE i = Len(received[r]) + 1
      BY <1>1, <1>2, <1>3, <3>2
    <3>q. QED BY <1>3, <3>1, <3>2
  <2>2. ASSUME NEW i \in DOMAIN received'[r], NEW j \in DOMAIN received'[r], i < j
        PROVE  received'[r][i] < received'[r][j]
    <3>1. i \in DOMAIN received[r]
      BY <1>3, <2>2
    <3>2. received'[r][i] = received[r][i] /\ received[r][i] \in Nat /\ received[r][i] <= position[r]
      BY <1>3, <1>4, <3>1
    <3>3. CASE j \in DOMAIN received[r]
      BY <1>3, <1>4, <2>2, <3>1, <3>3
    <3>4. CASE j = Len(received[r]) + 1
      BY SMTT(30), <1>1, <1>3, <3>2, <3>4
    <3>q. QED BY <1>3, <3>3, <3>4
  <2>q. QED BY <2>1, <2>2 DEF ReceivedInOrder
<1>6. \A s \in Nat : Received(r, s) \/ s = cursor[r] + 1 => Received(r, s)'
  <2>1. ASSUME NEW s \in Nat, Received(r, s) PROVE Received(r, s)'
    <3>1. PICK i \in DOMAIN received[r] : received[r][i] = s
      BY <2>1 DEF Received
    <3>2. i \in DOMAIN received'[r] /\ received'[r][i] = s
      BY <1>3, <3>1
    <3>q. QED BY <3>2 DEF Received
  <2>2. Len(received[r]) + 1 \in DOMAIN received'[r]
    BY <1>3
  <2>3. \E i \in DOMAIN received'[r] : received'[r][i] = cursor[r] + 1
    BY <1>3, <2>2
  <2>4. ASSUME NEW s \in Nat, s = cursor[r] + 1 PROVE Received(r, s)'
    BY <2>3, <2>4 DEF Received
  <2>q. QED BY <2>1, <2>4
<1>7. \A s \in Nat : Deleted(s) <=> Deleted(s)'
  BY DEF Deleted
<1>8. ASSUME NEW s \in Nat, start[r] < s, s <= cursor[r] + 1 PROVE Received(r, s)' \/ Deleted(s)'
  BY <1>1, <1>6, <1>7, <1>8 DEF CompleteTo
<1>9. CompleteTo(r, position[r])' /\ CompleteTo(r, cursor[r])'
  BY <1>2, <1>8 DEF CompleteTo
<1>q. QED BY <1>2, <1>5, <1>9

\* What the handler has taken out of the channel is not needed there any more.
LEMMA TailKeeps ==
  ASSUME TypeOK, TypeOK', NEW r \in Reader, chan[r] # <<>>, chan'[r] = Tail(chan[r]),
         UNCHANGED <<subs, published, replay>>, stage[r] = "stream",
         ChannelInOrder(r), ChannelComplete(r),
         cursor[r] <= cursor'[r], Head(chan[r]).seq <= cursor'[r]
  PROVE  ChannelInOrder(r)' /\ ChannelComplete(r)'
<1>1. /\ chan[r] \in Seq(Message) /\ cursor[r] \in Nat /\ cursor'[r] \in Nat
      /\ Head(chan[r]).seq \in Nat
  <2>1. chan[r] \in Seq(Message) /\ cursor[r] \in Nat /\ cursor'[r] \in Nat
    BY DEF TypeOK
  <2>2. Head(chan[r]) \in Message
    BY <2>1
  <2>q. QED BY <2>1, <2>2 DEF Message
<1>2. /\ Len(chan[r]) \in Nat \ {0}
      /\ DOMAIN chan[r] = 1..Len(chan[r])
      /\ DOMAIN chan'[r] = 1..Len(chan[r]) - 1
      /\ \A i \in 1..Len(chan[r]) - 1 : chan'[r][i] = chan[r][i + 1]
      /\ chan[r][1] = Head(chan[r])
  BY <1>1
<1>3. ChannelInOrder(r)'
  <2>1. \A i \in DOMAIN chan'[r] :
          /\ chan'[r][i].seq <= published
          /\ chan'[r][i].kind = "lifecycle" <=> chan'[r][i].seq > 0
    <3>1. ASSUME NEW i \in DOMAIN chan'[r]
          PROVE  i + 1 \in DOMAIN chan[r] /\ chan'[r][i] = chan[r][i + 1]
      BY <1>2
    <3>q. QED BY <3>1 DEF ChannelInOrder
  <2>2. ASSUME NEW i \in DOMAIN chan'[r], NEW j \in DOMAIN chan'[r], i < j, chan'[r][j].seq > 0
        PROVE  chan'[r][i].seq < chan'[r][j].seq
    <3>1. /\ i + 1 \in DOMAIN chan[r] /\ j + 1 \in DOMAIN chan[r] /\ i + 1 < j + 1
          /\ chan'[r][i] = chan[r][i + 1] /\ chan'[r][j] = chan[r][j + 1]
      <4>1. i \in 1..Len(chan[r]) - 1 /\ j \in 1..Len(chan[r]) - 1
        BY <1>2
      <4>2. chan'[r][i] = chan[r][i + 1] /\ chan'[r][j] = chan[r][j + 1]
        BY <1>2, <4>1
      <4>3. i + 1 \in 1..Len(chan[r]) /\ j + 1 \in 1..Len(chan[r]) /\ i + 1 < j + 1
        <5>1. i < j
          BY <2>2
        <5>2. Len(chan[r]) \in Nat
          BY <1>2
        <5>q. QED BY SMTT(30), <4>1, <5>1, <5>2
      <4>q. QED BY <1>2, <4>2, <4>3
    <3>q. QED BY <2>2, <3>1 DEF ChannelInOrder
  <2>q. QED BY <2>1, <2>2 DEF ChannelInOrder
<1>4. ASSUME NEW s \in Nat, cursor'[r] < s, replay'[r] < s, Promised(r, s)'
      PROVE  InChan(r, s)'
  <2>1. Promised(r, s)
    <3>1. CASE r \in subs' /\ s <= published'
      BY <3>1 DEF Promised
    <3>2. CASE \E j \in DOMAIN chan'[r] : s <= chan'[r][j].seq
      <4>1. PICK j \in DOMAIN chan'[r] : s <= chan'[r][j].seq
        BY <3>2
      <4>2. j + 1 \in DOMAIN chan[r] /\ chan[r][j + 1] = chan'[r][j]
        BY <1>2
      <4>q. QED BY <4>1, <4>2 DEF Promised
    <3>q. QED BY <1>4, <3>1, <3>2 DEF Promised
  <2>2. cursor[r] < s /\ replay[r] < s
    BY <1>1, <1>4
  <2>3. PICK i \in DOMAIN chan[r] : chan[r][i].seq = s
    BY <2>1, <2>2 DEF ChannelComplete, InChan
  <2>4. i # 1
    BY <1>1, <1>2, <1>4, <2>3
  <2>5. i - 1 \in DOMAIN chan'[r] /\ chan'[r][i - 1] = chan[r][i]
    BY SMTT(30), <1>2, <2>4
  <2>q. QED BY <2>3, <2>5 DEF InChan
<1>5. ChannelComplete(r)'
  BY <1>4 DEF ChannelComplete
<1>q. QED BY <1>3, <1>5

\* The first lifecycle event in the channel behind the backlog is the next one.
LEMMA HeadIsNext ==
  ASSUME TypeOK, NEW r \in Reader, ChannelInOrder(r), ChannelComplete(r),
         stage[r] = "stream", replay[r] <= cursor[r],
         chan[r] # <<>>, cursor[r] < Head(chan[r]).seq
  PROVE  Head(chan[r]).seq = cursor[r] + 1
<1>1. chan[r] \in Seq(Message) /\ cursor[r] \in Nat /\ replay[r] \in Nat
  BY DEF TypeOK
<1>2. 1 \in DOMAIN chan[r] /\ chan[r][1] = Head(chan[r])
  BY <1>1
<1>3. \A i \in DOMAIN chan[r] : chan[r][i] \in Message
  BY <1>1
<1>4. \A i \in DOMAIN chan[r] : chan[r][i].seq \in Nat
  BY <1>3 DEF Message
<1>5. Head(chan[r]).seq \in Nat /\ cursor[r] + 1 <= Head(chan[r]).seq
  BY <1>1, <1>2, <1>4
<1>6. Promised(r, cursor[r] + 1)
  BY <1>2, <1>5 DEF Promised
<1>7. cursor[r] + 1 \in Nat /\ cursor[r] < cursor[r] + 1 /\ replay[r] < cursor[r] + 1
  BY <1>1
<1>8. InChan(r, cursor[r] + 1)
  BY <1>6, <1>7 DEF ChannelComplete
<1>9. PICK i \in DOMAIN chan[r] : chan[r][i].seq = cursor[r] + 1
  BY <1>8 DEF InChan
<1>10. CASE i = 1
  BY <1>2, <1>9, <1>10
<1>11. CASE i # 1
  <2>1. 1 < i
    BY <1>1, <1>11
  <2>2. chan[r][i].seq > 0
    BY <1>1, <1>9
  <2>3. chan[r][1].seq < chan[r][i].seq
    BY <1>2, <2>1, <2>2 DEF ChannelInOrder
  <2>q. QED BY <1>1, <1>2, <1>5, <1>9, <2>3
<1>q. QED BY <1>10, <1>11

\* Connecting, reading the tail, subscribing and leaving keep the reader's stream.
LEMMA ConnectionKeeps ==
  ASSUME TypeOK, TypeOK', NEW r \in Reader, ReaderInv(r)
  PROVE  Connect(r) \/ ReadTail(r) \/ Subscribe(r) \/ ReadBacklog(r) \/ Leave(r) => ReaderInv(r)'
<1>0. /\ latest \in Nat /\ published \in Nat /\ published <= latest
      /\ cursor[r] \in Nat /\ position[r] \in Nat /\ replay[r] \in Nat /\ start[r] \in Nat
  BY DEF TypeOK
<1>1. CASE Connect(r)
  <2>1. /\ UNCHANGED <<latest, published, subs, chan, replay, start, position, received>>
        /\ stage[r] = "away" /\ cursor'[r] = position[r]
        /\ stage'[r] = IF position[r] = 0 THEN "tail" ELSE "subscribe"
    BY <1>1 DEF Connect, MoveTo, storeVars, hubVars, clientVars, TypeOK
  <2>2. ChannelInOrder(r)' /\ ChannelComplete(r)'
    BY <2>1 DEF ReaderInv, ChannelInOrder, ChannelComplete
  <2>3. HandlerInv(r)'
    BY <1>0, <2>1 DEF ReaderInv, HandlerInv
  <2>4. ReceivedInOrder(r)' /\ ReceivedComplete(r)'
    BY <2>1 DEF ReaderInv, ReceivedInOrder, ReceivedComplete, CompleteTo, Received, Deleted
  <2>q. QED BY <2>2, <2>3, <2>4 DEF ReaderInv
<1>2. CASE ReadTail(r)
  <2>1. /\ UNCHANGED <<latest, published, subs, chan, replay, position, received>>
        /\ stage[r] = "tail" /\ stage'[r] = "subscribe"
        /\ cursor'[r] = latest /\ start'[r] = latest
    BY <1>2 DEF ReadTail, MoveTo, storeVars, hubVars, TypeOK
  <2>2. ChannelInOrder(r)' /\ ChannelComplete(r)'
    BY <2>1 DEF ReaderInv, ChannelInOrder, ChannelComplete
  <2>3. HandlerInv(r)'
    BY <1>0, <2>1 DEF ReaderInv, HandlerInv
  <2>4. position[r] = 0
    BY <2>1 DEF ReaderInv, HandlerInv
  <2>5. CompleteTo(r, position[r])' /\ CompleteTo(r, cursor[r])'
    BY <1>0, <2>1, <2>4 DEF CompleteTo
  <2>6. ReceivedInOrder(r)' /\ ReceivedComplete(r)'
    BY <2>1, <2>5 DEF ReaderInv, ReceivedInOrder, ReceivedComplete
  <2>q. QED BY <2>2, <2>3, <2>6 DEF ReaderInv
<1>3. CASE Subscribe(r)
  <2>1. PICK kept \in Unexpired : \E order \in Orders(Shown(kept)) :
          chan' = [chan EXCEPT ![r] = [i \in DOMAIN order |-> Snapshot(order[i])]]
    BY <1>3 DEF Subscribe
  <2>2. PICK order \in Orders(Shown(kept)) :
          chan' = [chan EXCEPT ![r] = [i \in DOMAIN order |-> Snapshot(order[i])]]
    BY <2>1
  <2>3. chan'[r] = [i \in DOMAIN order |-> Snapshot(order[i])]
    BY <2>2 DEF TypeOK
  <2>4. /\ UNCHANGED <<latest, published, cursor, replay, start, position, received>>
        /\ stage[r] = "subscribe" /\ stage'[r] = "backlog"
    BY <1>3 DEF Subscribe, MoveTo, storeVars, clientVars, TypeOK
  <2>5. \A i \in DOMAIN chan'[r] : chan'[r][i].seq = 0 /\ chan'[r][i].kind # "lifecycle"
    BY <2>3 DEF Snapshot
  <2>6. ChannelInOrder(r)' /\ ChannelComplete(r)'
    BY <1>0, <2>4, <2>5 DEF ChannelInOrder, ChannelComplete
  <2>7. HandlerInv(r)'
    BY <2>4 DEF ReaderInv, HandlerInv
  <2>8. ReceivedInOrder(r)' /\ ReceivedComplete(r)'
    BY <2>4 DEF ReaderInv, ReceivedInOrder, ReceivedComplete, CompleteTo, Received, Deleted
  <2>q. QED BY <2>6, <2>7, <2>8 DEF ReaderInv
<1>4. CASE ReadBacklog(r)
  <2>1. /\ UNCHANGED <<latest, published, subs, chan, start, position, received>>
        /\ published = latest /\ replay'[r] = latest
        /\ stage[r] = "backlog" /\ stage'[r] = "stream"
        /\ cursor'[r] = IF Deleted(cursor[r]) THEN latest - Retain ELSE cursor[r]
    BY <1>4 DEF ReadBacklog, MoveTo, StoreUnlocked, storeVars, hubVars, clientVars, TypeOK
  <2>2. /\ position[r] <= cursor[r] /\ cursor[r] <= latest
        /\ CompleteTo(r, cursor[r]) /\ CompleteTo(r, position[r])
    BY <2>1 DEF ReaderInv, HandlerInv, ReceivedComplete
  <2>3. Retain \in Nat /\ cursor[r] <= cursor'[r] /\ cursor'[r] <= latest /\ cursor'[r] \in Nat
    BY <1>0, <2>1, <2>2 DEF Deleted
  <2>4. ChannelInOrder(r)'
    BY <2>1 DEF ReaderInv, ChannelInOrder
  <2>5. ASSUME NEW s \in Nat, replay'[r] < s PROVE ~Promised(r, s)'
    <3>1. ~(s <= published)
      BY <1>0, <2>1, <2>5
    <3>2. ASSUME NEW j \in DOMAIN chan[r] PROVE ~(s <= chan[r][j].seq)
      <4>1. chan[r][j].seq <= latest
        BY <2>1, <3>2 DEF ReaderInv, ChannelInOrder
      <4>2. chan[r][j] \in Message
        <5>1. chan[r] \in Seq(Message)
          BY DEF TypeOK
        <5>q. QED BY <3>2, <5>1
      <4>3. chan[r][j].seq \in Nat
        BY <4>2 DEF Message
      <4>q. QED BY <1>0, <2>1, <2>5, <4>1, <4>3
    <3>q. QED BY <2>1, <3>1, <3>2 DEF Promised
  <2>6. ChannelComplete(r)'
    BY <2>5 DEF ChannelComplete
  <2>7. HandlerInv(r)'
    BY <1>0, <2>1, <2>2, <2>3 DEF ReaderInv, HandlerInv
  <2>8. ASSUME NEW s \in Nat, start[r] < s, s <= cursor'[r] PROVE Received(r, s) \/ Deleted(s)
    <3>1. CASE s <= cursor[r]
      BY <2>2, <2>8, <3>1 DEF CompleteTo
    <3>2. CASE ~(s <= cursor[r])
      BY <1>0, <2>1, <2>3, <2>8, <3>2 DEF Deleted
    <3>q. QED BY <3>1, <3>2
  <2>9. CompleteTo(r, cursor[r])' /\ CompleteTo(r, position[r])'
    BY <2>1, <2>2, <2>8 DEF CompleteTo, Received, Deleted
  <2>10. ReceivedInOrder(r)' /\ ReceivedComplete(r)'
    BY <2>1, <2>9 DEF ReaderInv, ReceivedInOrder, ReceivedComplete
  <2>q. QED BY <2>4, <2>6, <2>7, <2>10 DEF ReaderInv
<1>5. CASE Leave(r)
  <2>1. /\ UNCHANGED <<latest, published, start, position, received>>
        /\ r \notin subs' /\ chan'[r] = <<>> /\ stage'[r] = "away" /\ replay'[r] = 0
    BY <1>5 DEF Leave, MoveTo, storeVars, TypeOK
  <2>2. ChannelInOrder(r)' /\ ChannelComplete(r)'
    BY <2>1 DEF ChannelInOrder, ChannelComplete
  <2>3. HandlerInv(r)'
    BY <1>0, <2>1 DEF ReaderInv, HandlerInv
  <2>4. ReceivedInOrder(r)' /\ ReceivedComplete(r)'
    BY <2>1 DEF ReaderInv, ReceivedInOrder, ReceivedComplete, CompleteTo, Received, Deleted
  <2>q. QED BY <2>2, <2>3, <2>4 DEF ReaderInv
<1>q. QED BY <1>1, <1>2, <1>3, <1>4, <1>5

\* Writing the backlog and forwarding from the channel keep the reader's stream.
LEMMA WritingKeeps ==
  ASSUME TypeOK, TypeOK', NEW r \in Reader, ReaderInv(r)
  PROVE  WriteBacklog(r) \/ ForwardLive(r) => ReaderInv(r)'
<1>0. /\ latest \in Nat /\ published \in Nat /\ published <= latest
      /\ cursor[r] \in Nat /\ position[r] \in Nat /\ replay[r] \in Nat
  BY DEF TypeOK
<1>1. CASE WriteBacklog(r)
  <2>1. /\ UNCHANGED <<latest, published, subs, chan, stage, replay, start>>
        /\ stage[r] = "stream" /\ cursor[r] < replay[r] /\ Deliver(r, cursor[r] + 1)
    BY <1>1 DEF WriteBacklog, storeVars, hubVars
  <2>2. position[r] <= cursor[r] /\ replay[r] <= latest /\ CompleteTo(r, cursor[r])
    BY <2>1 DEF ReaderInv, HandlerInv, ReceivedComplete
  <2>3. /\ ReceivedInOrder(r)'
        /\ CompleteTo(r, position[r])' /\ CompleteTo(r, cursor[r])'
        /\ position'[r] = cursor[r] + 1 /\ cursor'[r] = cursor[r] + 1
    BY <2>1, <2>2, DeliverNext DEF ReaderInv
  <2>4. ChannelInOrder(r)' /\ ChannelComplete(r)'
    <3>1. \A n \in Nat : cursor'[r] < n => cursor[r] < n
      BY <1>0, <2>3
    <3>q. QED BY <2>1, <3>1 DEF ReaderInv, ChannelInOrder, ChannelComplete, Promised, InChan
  <2>5. HandlerInv(r)'
    BY <1>0, <2>1, <2>2, <2>3 DEF ReaderInv, HandlerInv
  <2>q. QED BY <2>3, <2>4, <2>5 DEF ReaderInv, ReceivedComplete
<1>2. CASE ForwardLive(r)
  <2>1. /\ UNCHANGED <<latest, published, subs, stage, replay, start>>
        /\ stage[r] = "stream" /\ replay[r] <= cursor[r] /\ chan[r] # <<>>
        /\ chan'[r] = Tail(chan[r])
    BY <1>0, <1>2 DEF ForwardLive, storeVars, TypeOK
  <2>2. /\ position[r] <= cursor[r] /\ cursor[r] <= latest /\ position[r] <= latest
        /\ CompleteTo(r, cursor[r]) /\ CompleteTo(r, position[r])
        /\ ChannelInOrder(r) /\ ChannelComplete(r) /\ ReceivedInOrder(r) /\ replay[r] <= latest
    BY <2>1 DEF ReaderInv, HandlerInv, ReceivedComplete
  <2>3. 1 \in DOMAIN chan[r] /\ chan[r][1] = Head(chan[r]) /\ Head(chan[r]) \in Message
    <3>1. chan[r] \in Seq(Message)
      BY DEF TypeOK
    <3>q. QED BY <2>1, <3>1
  <2>4. /\ Head(chan[r]).seq \in Nat /\ Head(chan[r]).seq <= published
        /\ Head(chan[r]).kind = "lifecycle" <=> Head(chan[r]).seq > 0
    BY <2>2, <2>3 DEF ChannelInOrder, Message
  <2>5. CASE Head(chan[r]).kind = "lifecycle" /\ Head(chan[r]).seq > cursor[r] /\ Deliver(r, Head(chan[r]).seq)
    <3>1. Head(chan[r]).seq = cursor[r] + 1
      BY <1>0, <2>1, <2>2, <2>4, <2>5, HeadIsNext
    <3>2. /\ ReceivedInOrder(r)'
          /\ CompleteTo(r, position[r])' /\ CompleteTo(r, cursor[r])'
          /\ position'[r] = cursor[r] + 1 /\ cursor'[r] = cursor[r] + 1
      BY <2>1, <2>2, <2>5, <3>1, DeliverNext
    <3>3. cursor[r] <= cursor'[r] /\ Head(chan[r]).seq <= cursor'[r] /\ cursor'[r] <= latest
      BY <1>0, <2>4, <3>1, <3>2
    <3>4. ChannelInOrder(r)' /\ ChannelComplete(r)'
      BY <2>1, <2>2, <3>3, TailKeeps
    <3>5. HandlerInv(r)'
      BY <1>0, <2>1, <2>2, <3>2, <3>3 DEF HandlerInv
    <3>q. QED BY <3>2, <3>4, <3>5 DEF ReaderInv, ReceivedComplete
  <2>6. CASE UNCHANGED <<cursor, position, received>> /\ Head(chan[r]).seq <= cursor[r]
    <3>1. ChannelInOrder(r)' /\ ChannelComplete(r)'
      BY <1>0, <2>1, <2>2, <2>6, TailKeeps
    <3>2. HandlerInv(r)'
      BY <2>1, <2>2, <2>6 DEF HandlerInv
    <3>3. ReceivedInOrder(r)' /\ ReceivedComplete(r)'
      BY <2>1, <2>2, <2>6 DEF ReceivedInOrder, ReceivedComplete, CompleteTo, Received, Deleted
    <3>q. QED BY <3>1, <3>2, <3>3 DEF ReaderInv
  <2>7. ForwardLifecycle(r, Head(chan[r])) \/ ForwardTransient(r, Head(chan[r]))
    BY <1>2 DEF ForwardLive
  <2>8. CASE ForwardLifecycle(r, Head(chan[r]))
    BY <2>5, <2>6, <2>8 DEF ForwardLifecycle
  <2>9. CASE ForwardTransient(r, Head(chan[r]))
    <3>1. UNCHANGED <<cursor, position, received>> /\ Head(chan[r]).kind # "lifecycle"
      BY <2>9 DEF ForwardTransient
    <3>2. Head(chan[r]).seq <= cursor[r]
      BY <1>0, <2>4, <3>1
    <3>q. QED BY <2>6, <3>1, <3>2
  <2>q. QED BY <2>7, <2>8, <2>9
<1>q. QED BY <1>1, <1>2

\* The steps of one handler do not touch the stream of another reader.
LEMMA OthersKept ==
  ASSUME TypeOK, TypeOK', NEW r \in Reader, NEW other \in Reader, other # r, ReaderInv(other),
         Connect(r) \/ HandlerStep(r) \/ Disconnect(r)
  PROVE  ReaderInv(other)'
<1>1. UNCHANGED <<latest, published>>
  BY DEF Connect, HandlerStep, Disconnect, ReadTail, Subscribe, ReadBacklog, WriteBacklog, ForwardLive,
         EndOfChannel, Leave, storeVars
<1>a. latest <= latest'
  BY <1>1 DEF TypeOK
<1>2. /\ other \in subs' <=> other \in subs
      /\ chan'[other] = chan[other] /\ stage'[other] = stage[other]
  <2>0. chan \in [Reader -> Seq(Message)] /\ stage \in [Reader -> {"away", "tail", "subscribe", "backlog", "stream"}]
    BY DEF TypeOK
  <2>1. CASE Connect(r)
    BY <2>0, <2>1 DEF Connect, MoveTo, hubVars
  <2>2. CASE ReadTail(r)
    BY <2>0, <2>2 DEF ReadTail, MoveTo, hubVars
  <2>3. CASE Subscribe(r)
    BY <2>0, <2>3 DEF Subscribe, MoveTo
  <2>4. CASE ReadBacklog(r)
    BY <2>0, <2>4 DEF ReadBacklog, MoveTo, hubVars
  <2>5. CASE WriteBacklog(r)
    BY <2>5 DEF WriteBacklog, hubVars
  <2>6. CASE ForwardLive(r)
    BY <2>0, <2>6 DEF ForwardLive
  <2>7. CASE Leave(r)
    BY <2>0, <2>7 DEF Leave, MoveTo
  <2>q. QED BY <2>1, <2>2, <2>3, <2>4, <2>5, <2>6, <2>7 DEF HandlerStep, EndOfChannel, Disconnect
<1>3. cursor'[other] = cursor[other] /\ position'[other] = position[other] /\ received'[other] = received[other]
  BY ZenonT(30) DEF Connect, HandlerStep, Disconnect, ReadTail, Subscribe, ReadBacklog, WriteBacklog, ForwardLive,
         ForwardLifecycle, ForwardTransient, Deliver, EndOfChannel, Leave, clientVars, TypeOK
<1>4. replay'[other] = replay[other] /\ start'[other] = start[other]
  BY DEF Connect, HandlerStep, Disconnect, ReadTail, Subscribe, ReadBacklog, WriteBacklog, ForwardLive,
         EndOfChannel, Leave, clientVars, TypeOK
<1>q. QED BY <1>1, <1>a, <1>2, <1>3, <1>4, ReaderKept

\* A crash ends all connections and leaves the log and the clients' positions.
LEMMA CrashKeeps ==
  ASSUME TypeOK, NEW r \in Reader, ReaderInv(r), Crash
  PROVE  ReaderInv(r)'
<1>1. /\ UNCHANGED <<latest, start, position, received>>
      /\ r \notin subs' /\ chan'[r] = <<>> /\ stage'[r] = "away" /\ replay'[r] = 0
  BY DEF Crash
<1>2. ChannelInOrder(r)' /\ ChannelComplete(r)'
  BY <1>1 DEF ChannelInOrder, ChannelComplete
<1>3. HandlerInv(r)'
  BY <1>1 DEF ReaderInv, HandlerInv, TypeOK
<1>4. ReceivedInOrder(r)' /\ ReceivedComplete(r)'
  BY <1>1 DEF ReaderInv, ReceivedInOrder, ReceivedComplete, CompleteTo, Received, Deleted
<1>q. QED BY <1>2, <1>3, <1>4 DEF ReaderInv

\* Every step keeps every stream.
LEMMA StreamStep == TypeOK /\ StreamInv /\ [Next]_vars => StreamInv'
<1> SUFFICES ASSUME TypeOK, StreamInv, [Next]_vars, NEW r \in Reader PROVE ReaderInv(r)'
  BY DEF StreamInv
<1>0. TypeOK' /\ ReaderInv(r)
  BY TypeStep DEF StreamInv
<1>1. ASSUME NEW h \in Reader, Connect(h) \/ HandlerStep(h) \/ Disconnect(h) PROVE ReaderInv(r)'
  <2>1. CASE h = r
    <3>1. \/ Connect(r) \/ ReadTail(r) \/ Subscribe(r) \/ ReadBacklog(r) \/ Leave(r)
          \/ WriteBacklog(r) \/ ForwardLive(r)
      BY <1>1, <2>1 DEF HandlerStep, EndOfChannel, Disconnect
    <3>q. QED BY <1>0, <3>1, ConnectionKeeps, WritingKeeps
  <2>2. CASE h # r
    BY <1>0, <1>1, <2>2, OthersKept
  <2>q. QED BY <2>1, <2>2
<1>2. CASE UNCHANGED vars
  <2>1. UNCHANGED <<latest, published, subs, chan, stage, cursor, replay, start, position, received>>
    BY <1>2 DEF vars, storeVars, hubVars, clientVars
  <2>2. latest <= latest'
    BY <2>1 DEF TypeOK
  <2>q. QED BY <1>0, <2>1, <2>2, ReaderKept
<1>3. CASE Crash
  BY <1>0, <1>3, CrashKeeps
<1>q. QED BY <1>0, <1>1, <1>2, <1>3, WriterKeeps DEF Next

\* Nothing has been sent to anybody in the beginning.
LEMMA StreamInit == Init => StreamInv
<1> SUFFICES ASSUME Init, NEW r \in Reader PROVE ReaderInv(r)
  BY DEF StreamInv
<1>1. /\ latest = 0 /\ r \notin subs /\ chan[r] = <<>> /\ stage[r] = "away"
      /\ replay[r] = 0 /\ position[r] = 0 /\ start[r] = 0 /\ received[r] = <<>>
  BY DEF Init
<1>2. ChannelInOrder(r) /\ ChannelComplete(r) /\ HandlerInv(r)
  BY <1>1 DEF ChannelInOrder, ChannelComplete, HandlerInv
<1>3. ReceivedInOrder(r) /\ ReceivedComplete(r)
  BY <1>1 DEF ReceivedInOrder, ReceivedComplete, CompleteTo
<1>q. QED BY <1>2, <1>3 DEF ReaderInv

\* A reader receives the lifecycle events of its session in order, each once, over
\* all its connections: the backlog and the live channel do not overlap.
THEOREM StreamStaysInOrder == Spec => []StreamInOrder
<1>1. StreamInv => StreamInOrder
  BY DEF StreamInv, ReaderInv, ReceivedInOrder, StreamInOrder
<1>q. QED BY <1>1, TypeInit, StreamInit, TypeStep, StreamStep, PTL DEF Spec

\* A reader misses no lifecycle event before its position unless retention deleted
\* it: subscription before the backlog, the cut of a slow subscription and the
\* resumption from Last-Event-ID leave no gap, with crashes at any point.
THEOREM StreamStaysComplete == Spec => []StreamComplete
<1>1. TypeOK /\ StreamInv => StreamComplete
  <2> SUFFICES ASSUME TypeOK, StreamInv, NEW r \in Reader, NEW s \in 1..latest,
                      start[r] < s, s <= position[r]
               PROVE  s \in ToSet(received[r]) \/ Deleted(s)
    BY DEF StreamComplete
  <2>1. s \in Nat /\ CompleteTo(r, position[r])
    BY DEF StreamInv, ReaderInv, ReceivedComplete, TypeOK
  <2>2. Received(r, s) \/ Deleted(s)
    BY <2>1 DEF CompleteTo
  <2>q. QED BY <2>2 DEF Received, ToSet
<1>q. QED BY <1>1, TypeInit, StreamInit, TypeStep, StreamStep, PTL DEF Spec

-----------------------------------------------------------------------------
(* The snapshots of the hub *)

\* capturePageStream evicts before it inserts, and otherwise streams only go.
StreamsBounded == Len(streams) <= MaxStreams

\* Capturing a delta keeps the number of streams within its limit.
LEMMA CaptureBounded ==
  ASSUME TypeOK, StreamsBounded, NEW k \in Call, NEW n \in Nat, CaptureKnown(k, n) \/ CaptureNew(k, n)
  PROVE  StreamsBounded'
<1>0. streams \in Seq(Call) /\ Len(streams) \in Nat /\ MaxStreams \in Nat \ {0}
  BY DEF TypeOK
<1>1. CASE CaptureKnown(k, n)
  <2>1. PICK i \in DOMAIN streams : streams' = Append(RemoveAt(streams, i), k)
    BY <1>1 DEF CaptureKnown, Touch
  <2>2. RemoveAt(streams, i) \in Seq(Call) /\ Len(RemoveAt(streams, i)) = Len(streams) - 1
    BY <1>0, PartType
  <2>3. Len(streams') = Len(streams) - 1 + 1
    BY <2>1, <2>2
  <2>q. QED BY <1>0, <2>3 DEF StreamsBounded
<1>2. CASE CaptureNew(k, n)
  <2>1. PICK kept \in Unexpired : streams' = Append(IF Len(kept) >= MaxStreams THEN Tail(kept) ELSE kept, k)
    BY <1>2 DEF CaptureNew
  <2>2. kept \in Seq(Call) /\ Len(kept) <= Len(streams) /\ Len(kept) \in Nat
    BY <1>0, UnexpiredType
  <2>3. Len(kept) <= MaxStreams
    BY <1>0, <2>2 DEF StreamsBounded
  <2>4. CASE Len(kept) >= MaxStreams
    <3>1. kept # <<>>
      BY <1>0, <2>2, <2>4
    <3>2. Tail(kept) \in Seq(Call) /\ Len(Tail(kept)) = Len(kept) - 1
      BY <2>2, <3>1
    <3>3. Len(streams') = Len(kept) - 1 + 1
      BY <2>1, <2>4, <3>2
    <3>q. QED BY <2>2, <2>3, <3>3 DEF StreamsBounded
  <2>5. CASE ~(Len(kept) >= MaxStreams)
    <3>1. Len(streams') = Len(kept) + 1
      BY <2>1, <2>2, <2>5
    <3>q. QED BY <1>0, <2>2, <2>5, <3>1 DEF StreamsBounded
  <2>q. QED BY <2>4, <2>5
<1>q. QED BY <1>1, <1>2

\* No step exceeds the limit.
LEMMA BoundedStep == TypeOK /\ StreamsBounded /\ [Next]_vars => StreamsBounded'
<1> SUFFICES ASSUME TypeOK, StreamsBounded, [Next]_vars PROVE StreamsBounded'
  OBVIOUS
<1>0. streams \in Seq(Call) /\ Len(streams) \in Nat /\ MaxStreams \in Nat \ {0}
  BY DEF TypeOK
<1>1. CASE streams' = streams
  BY <1>1 DEF StreamsBounded
<1>2. CASE streams' = <<>>
  BY <1>0, <1>2 DEF StreamsBounded
<1>3. ASSUME NEW k \in Call, EmitArguments(k) PROVE StreamsBounded'
  <2>a. emitted \in [Call -> Nat]
    BY DEF TypeOK
  <2>1. emitted[k] + 1 \in Nat
    BY <2>a
  <2>q. QED BY <1>3, <2>1, CaptureBounded DEF EmitArguments
<1>4. ASSUME NEW k \in Call, RunCall(k) PROVE StreamsBounded'
  <2>1. CASE Drop(k)
    <3>1. PICK i \in DOMAIN streams : streams' = RemoveAt(streams, i)
      BY <2>1 DEF Drop
    <3>2. Len(streams') = Len(streams) - 1
      BY <1>0, <3>1, PartType
    <3>q. QED BY <1>0, <3>2 DEF StreamsBounded
  <2>q. QED BY <1>1, <1>4, <2>1 DEF RunCall
<1>5. ASSUME NEW r \in Reader, Subscribe(r) PROVE StreamsBounded'
  <2>1. streams' \in Unexpired
    BY <1>5 DEF Subscribe
  <2>2. Len(streams') <= Len(streams) /\ Len(streams') \in Nat
    BY <1>0, <2>1, UnexpiredType
  <2>q. QED BY <1>0, <2>2 DEF StreamsBounded
<1>6. ASSUME NEW r \in Reader, Connect(r) \/ HandlerStep(r) \/ Disconnect(r) PROVE StreamsBounded'
  <2>1. CASE Subscribe(r)
    BY <1>5, <2>1
  <2>2. CASE ~Subscribe(r)
    <3>1. streams' = streams
      BY <1>6, <2>2 DEF Connect, HandlerStep, Disconnect, ReadTail, ReadBacklog, WriteBacklog, ForwardLive,
                        EndOfChannel, Leave, hubVars, pageVars
    <3>q. QED BY <1>1, <3>1
  <2>q. QED BY <2>1, <2>2
<1>7. CASE Publication
  BY <1>1, <1>2, <1>7 DEF Publication, PublishCommitted
<1>8. ASSUME NEW n \in 1..MaxSeq, Commit(n) PROVE StreamsBounded'
  BY <1>1, <1>8 DEF Commit, hubVars, pageVars
<1>9. CASE Crash \/ UNCHANGED vars
  BY <1>1, <1>2, <1>9 DEF Crash, vars, hubVars, pageVars
<1>q. QED BY <1>3, <1>4, <1>6, <1>7, <1>8, <1>9 DEF Next

\* Subscribe never has more snapshots to send than the new channel holds, so it
\* does not block the hub's publishers behind its mutex.
THEOREM SnapshotsAlwaysFit == Spec => []SnapshotsFit
<1>1. Init => StreamsBounded
  BY DEF Init, StreamsBounded
<1>2. TypeOK /\ StreamsBounded => SnapshotsFit
  <2> SUFFICES ASSUME TypeOK, StreamsBounded, NEW order \in Orders(Shown(streams))
               PROVE  Len(order) <= Buffer
    BY DEF SnapshotsFit
  <2>1. PICK n \in 0..Len(streams) : order \in [1..n -> Shown(streams)]
    BY DEF Orders
  <2>2. Len(streams) \in Nat /\ n \in Nat
    BY DEF TypeOK
  <2>3. Len(order) = n
    BY <2>1, <2>2
  <2>q. QED BY <2>1, <2>2, <2>3 DEF StreamsBounded
<1>q. QED BY <1>1, <1>2, TypeInit, TypeStep, BoundedStep, PTL DEF Spec
-----------------------------------------------------------------------------
(***************************************************************************)
(* The arguments of page-editing calls.  What a client knows of a call     *)
(* when it comes to a message is the last of the messages of that call     *)
(* before it, or what it has heard.  A subscriber that is not cut off is   *)
(* told every delta: at the end of its channel it knows all that was       *)
(* emitted, or has not been told of the call at all.                       *)
(***************************************************************************)

\* The message of call k before position i.
Prior(ch, k, i, j) ==
  j \in 1..i - 1 /\ ch[j].call = k /\ \A g \in j + 1..i - 1 : ch[g].call # k

NonePrior(ch, k, i) == \A j \in 1..i - 1 : ch[j].call # k

\* A client that has heard h of call k comes to position i knowing v.
Knows(ch, h, k, i, v) ==
  \/ NonePrior(ch, k, i) /\ v = h
  \/ \E j \in 1..i - 1 : Prior(ch, k, i, j) /\ v = ch[j].last

\* Messages of a call: after the phase, which closes the call, there is no delta.
CallMessages(ch, closed) ==
  /\ \A i \in DOMAIN ch : IF ch[i].kind = "lifecycle" THEN ch[i].call = None ELSE ch[i].call \in Call
  /\ \A i \in DOMAIN ch : ch[i].kind = "phase" => ch[i].call \in closed
  /\ \A i, j \in DOMAIN ch :
       ch[i].kind = "phase" /\ ch[j].kind = "delta" /\ ch[i].call = ch[j].call => j < i
  /\ \A k \in Call : \A i \in 1..Len(ch) + 1 : NonePrior(ch, k, i) \/ \E j \in 1..i - 1 : Prior(ch, k, i, j)

\* A delta continues what is known before it.
DeltasJoin(ch, h) ==
  \A i \in DOMAIN ch : ch[i].kind = "delta" =>
    \A v \in Nat : Knows(ch, h[ch[i].call], ch[i].call, i, v) /\ v # 0 => ch[i].first = v + 1

\* At the end of the channel everything sent is known, or nothing.
UpToDate(ch, h, closed, sent) ==
  \A k \in Call \ closed : \A v \in Nat : Knows(ch, h[k], k, Len(ch) + 1, v) => v = 0 \/ v = sent[k]

ArgumentsInv(r) ==
  /\ CallMessages(chan[r], over)
  /\ DeltasJoin(chan[r], heard[r])
  /\ r \in subs => UpToDate(chan[r], heard[r], over, emitted)
  /\ stage[r] \notin {"backlog", "stream"} =>
       r \notin subs /\ chan[r] = <<>> /\ \A k \in Call : heard[r][k] = 0

\* The text the hub keeps is all that was emitted, unless it overflowed.
CapturedUpToDate ==
  \A k \in ToSet(streams) : k \notin overflow => captured[k].last = emitted[k]

HeardInv == CapturedUpToDate /\ \A r \in Reader : ArgumentsInv(r)


\* What is known before a message does not depend on what follows.
LEMMA KnowsPrefix ==
  ASSUME NEW ch, NEW more, NEW n \in Nat, \A j \in 1..n : more[j] = ch[j],
         NEW h, NEW k, NEW i \in 1..n + 1
  PROVE  /\ NonePrior(more, k, i) <=> NonePrior(ch, k, i)
         /\ \A j : Prior(more, k, i, j) <=> Prior(ch, k, i, j)
         /\ \A v : Knows(more, h, k, i, v) <=> Knows(ch, h, k, i, v)
<1>1. NonePrior(more, k, i) <=> NonePrior(ch, k, i)
  BY DEF NonePrior
<1>2. \A j : Prior(more, k, i, j) <=> Prior(ch, k, i, j)
  BY DEF Prior
<1>3. \A v : Knows(more, h, k, i, v) <=> Knows(ch, h, k, i, v)
  BY <1>1, <1>2 DEF Knows, Prior
<1>q. QED BY <1>1, <1>2, <1>3

\* Behind a message one knows that message, or what was known before it.
LEMMA KnowsNext ==
  ASSUME NEW ch, NEW n \in Nat, NEW h, NEW k
  PROVE  /\ ch[n + 1].call = k =>
              /\ Prior(ch, k, n + 2, n + 1)
              /\ \A v : Knows(ch, h, k, n + 2, v) => v = ch[n + 1].last
         /\ ch[n + 1].call # k =>
              /\ NonePrior(ch, k, n + 2) <=> NonePrior(ch, k, n + 1)
              /\ \A j : Prior(ch, k, n + 2, j) <=> Prior(ch, k, n + 1, j)
              /\ \A v : Knows(ch, h, k, n + 2, v) <=> Knows(ch, h, k, n + 1, v)
<1>0. (n + 2) - 1 = n + 1 /\ (n + 1) - 1 = n /\ 1..n + 1 = (1..n) \cup {n + 1}
  OBVIOUS
<1>1. ASSUME ch[n + 1].call = k
      PROVE  /\ Prior(ch, k, n + 2, n + 1)
             /\ \A v : Knows(ch, h, k, n + 2, v) => v = ch[n + 1].last
  <2>1. Prior(ch, k, n + 2, n + 1)
    BY <1>1 DEF Prior
  <2>2. ~NonePrior(ch, k, n + 2)
    BY <1>1 DEF NonePrior
  <2>3. \A j \in 1..(n + 2) - 1 : Prior(ch, k, n + 2, j) => j = n + 1
    BY <1>1 DEF Prior
  <2>q. QED BY <2>1, <2>2, <2>3 DEF Knows
<1>2. ASSUME ch[n + 1].call # k
      PROVE  /\ NonePrior(ch, k, n + 2) <=> NonePrior(ch, k, n + 1)
             /\ \A j : Prior(ch, k, n + 2, j) <=> Prior(ch, k, n + 1, j)
             /\ \A v : Knows(ch, h, k, n + 2, v) <=> Knows(ch, h, k, n + 1, v)
  <2>1. NonePrior(ch, k, n + 2) <=> NonePrior(ch, k, n + 1)
    BY <1>0, <1>2 DEF NonePrior
  <2>2. ASSUME NEW j PROVE Prior(ch, k, n + 2, j) <=> Prior(ch, k, n + 1, j)
    <3>1. Prior(ch, k, n + 2, j) => Prior(ch, k, n + 1, j)
      BY <1>0, <1>2 DEF Prior
    <3>2. Prior(ch, k, n + 1, j) => Prior(ch, k, n + 2, j)
      BY <1>0, <1>2 DEF Prior
    <3>q. QED BY <3>1, <3>2
  <2>3. \A v : Knows(ch, h, k, n + 2, v) <=> Knows(ch, h, k, n + 1, v)
    BY <2>1, <2>2 DEF Knows, Prior
  <2>q. QED BY <2>1, <2>2, <2>3
<1>q. QED BY <1>1, <1>2

\* When the first message of a channel is taken, its place is with the client.
LEMMA KnowsTail ==
  ASSUME NEW ch, NEW rest, NEW n \in Nat, \A j \in 1..n : rest[j] = ch[j + 1],
         NEW h, NEW h2, NEW k, ch[1].call = k => h2 = ch[1].last, ch[1].call # k => h2 = h,
         NEW i \in 1..n + 1
  PROVE  /\ \A j \in 1..i - 1 : Prior(rest, k, i, j) <=> Prior(ch, k, i + 1, j + 1)
         /\ \A v : Knows(rest, h2, k, i, v) => Knows(ch, h, k, i + 1, v)
<1>0. i - 1 \in Nat /\ (i + 1) - 1 = i /\ i - 1 <= n
  OBVIOUS
<1>1. ASSUME NEW j \in 1..i - 1 PROVE Prior(rest, k, i, j) <=> Prior(ch, k, i + 1, j + 1)
  <2>1. ASSUME Prior(rest, k, i, j) PROVE Prior(ch, k, i + 1, j + 1)
    <3>1. ch[j + 1].call = k
      BY <2>1 DEF Prior
    <3>2. ASSUME NEW g \in (j + 1) + 1..(i + 1) - 1 PROVE ch[g].call # k
      <4>1. g - 1 \in j + 1..i - 1 /\ g - 1 \in 1..n
        OBVIOUS
      <4>2. rest[g - 1] = ch[g - 1 + 1] /\ g - 1 + 1 = g
        BY <4>1
      <4>q. QED BY <2>1, <4>1, <4>2 DEF Prior
    <3>q. QED BY <3>1, <3>2 DEF Prior
  <2>2. ASSUME Prior(ch, k, i + 1, j + 1) PROVE Prior(rest, k, i, j)
    BY <2>2 DEF Prior
  <2>q. QED BY <2>1, <2>2
<1>2. ASSUME NEW v, Knows(rest, h2, k, i, v) PROVE Knows(ch, h, k, i + 1, v)
  <2>1. ASSUME NEW j \in 1..i - 1, Prior(rest, k, i, j), v = rest[j].last PROVE Knows(ch, h, k, i + 1, v)
    <3>1. Prior(ch, k, i + 1, j + 1) /\ v = ch[j + 1].last /\ j + 1 \in 1..(i + 1) - 1
      BY <1>1, <2>1
    <3>q. QED BY <3>1 DEF Knows
  <2>2. ASSUME NonePrior(rest, k, i), v = h2 PROVE Knows(ch, h, k, i + 1, v)
    <3>1. ASSUME NEW g \in 2..(i + 1) - 1 PROVE ch[g].call # k
      <4>1. g - 1 \in 1..i - 1 /\ g - 1 \in 1..n
        OBVIOUS
      <4>2. rest[g - 1] = ch[g - 1 + 1] /\ g - 1 + 1 = g
        BY <4>1
      <4>q. QED BY <2>2, <4>1, <4>2 DEF NonePrior
    <3>2. CASE ch[1].call = k
      <4>1. Prior(ch, k, i + 1, 1)
        BY <3>1, <3>2 DEF Prior
      <4>2. v = ch[1].last /\ 1 \in 1..(i + 1) - 1
        BY <2>2, <3>2
      <4>q. QED BY <4>1, <4>2 DEF Knows
    <3>3. CASE ch[1].call # k
      <4>1. NonePrior(ch, k, i + 1)
        BY <3>1, <3>3 DEF NonePrior
      <4>q. QED BY <2>2, <3>3, <4>1 DEF Knows
    <3>q. QED BY <3>2, <3>3
  <2>q. QED BY <1>2, <2>1, <2>2 DEF Knows
<1>q. QED BY <1>1, <1>2


\* A message behind the others.
LEMMA AppendMessages ==
  ASSUME NEW ch \in Seq(Message), NEW m \in Message, NEW closed, NEW closed2, closed \subseteq closed2,
         CallMessages(ch, closed),
         IF m.kind = "lifecycle" THEN m.call = None ELSE m.call \in Call,
         m.kind = "phase" => m.call \in closed2,
         m.kind = "delta" => m.call \notin closed
  PROVE  CallMessages(Append(ch, m), closed2)
<1> DEFINE n == Len(ch)  more == Append(ch, m)
<1>1. /\ n \in Nat /\ Len(more) = n + 1 /\ DOMAIN ch = 1..n /\ DOMAIN more = (1..n) \cup {n + 1}
      /\ more[n + 1] = m /\ \A j \in 1..n : more[j] = ch[j]
  OBVIOUS
<1> HIDE DEF n, more
<1>2. \A i \in DOMAIN more : IF more[i].kind = "lifecycle" THEN more[i].call = None ELSE more[i].call \in Call
  BY <1>1 DEF CallMessages
<1>3. \A i \in DOMAIN more : more[i].kind = "phase" => more[i].call \in closed2
  BY <1>1 DEF CallMessages
<1>4. ASSUME NEW i \in DOMAIN more, NEW j \in DOMAIN more,
             more[i].kind = "phase", more[j].kind = "delta", more[i].call = more[j].call
      PROVE  j < i
  <2>1. CASE j = n + 1
    <3>1. i \in 1..n /\ ch[i].kind = "phase" /\ ch[i].call = m.call /\ m.kind = "delta"
      BY <1>1, <1>4, <2>1
    <3>q. QED BY <1>1, <3>1 DEF CallMessages
  <2>2. CASE i = n + 1 /\ j # n + 1
    BY <1>1, <2>2
  <2>3. CASE i # n + 1 /\ j # n + 1
    BY <1>1, <1>4, <2>3 DEF CallMessages
  <2>q. QED BY <2>1, <2>2, <2>3
<1>5. ASSUME NEW k \in Call, NEW i \in 1..Len(more) + 1
      PROVE  NonePrior(more, k, i) \/ \E j \in 1..i - 1 : Prior(more, k, i, j)
  <2>1. \A a \in 1..n + 1 : NonePrior(more, k, a) \/ \E j \in 1..a - 1 : Prior(more, k, a, j)
    <3> SUFFICES ASSUME NEW a \in 1..n + 1
                 PROVE  NonePrior(more, k, a) \/ \E j \in 1..a - 1 : Prior(more, k, a, j)
      OBVIOUS
    <3>1. NonePrior(ch, k, a) \/ \E j \in 1..a - 1 : Prior(ch, k, a, j)
      BY <1>1 DEF CallMessages, n
    <3>q. QED BY <1>1, <3>1, KnowsPrefix
  <2>2. CASE i \in 1..n + 1
    BY <2>1, <2>2
  <2>3. CASE i = n + 2
    <3>1. n + 1 \in 1..n + 1 /\ n + 1 \in 1..i - 1 /\ (n + 1) - 1 = n /\ 1..n \subseteq 1..i - 1
      BY <1>1, <2>3
    <3>2. CASE m.call = k
      <4>1. Prior(more, k, n + 2, n + 1)
        BY <1>1, <3>2, KnowsNext
      <4>q. QED BY <2>3, <3>1, <4>1
    <3>3. CASE m.call # k
      <4>1. /\ NonePrior(more, k, n + 2) <=> NonePrior(more, k, n + 1)
            /\ \A j : Prior(more, k, n + 2, j) <=> Prior(more, k, n + 1, j)
        BY <1>1, <3>3, KnowsNext
      <4>q. QED BY <2>1, <2>3, <3>1, <4>1
    <3>q. QED BY <3>2, <3>3
  <2>q. QED BY <1>1, <2>2, <2>3
<1>q. QED BY <1>2, <1>3, <1>4, <1>5 DEF CallMessages, more

\* A delta behind the others continues what was sent so far.
LEMMA AppendJoins ==
  ASSUME NEW ch \in Seq(Message), NEW m \in Message, NEW h \in [Call -> Nat], NEW closed, NEW sent \in [Call -> Nat],
         DeltasJoin(ch, h), UpToDate(ch, h, closed, sent),
         m.kind = "delta" => m.call \in Call \ closed /\ m.first = sent[m.call] + 1
  PROVE  DeltasJoin(Append(ch, m), h)
<1> DEFINE n == Len(ch)  more == Append(ch, m)
<1>1. /\ n \in Nat /\ Len(more) = n + 1 /\ DOMAIN ch = 1..n /\ DOMAIN more = (1..n) \cup {n + 1}
      /\ more[n + 1] = m /\ \A j \in 1..n : more[j] = ch[j]
  OBVIOUS
<1> HIDE DEF n, more
<1> SUFFICES ASSUME NEW i \in DOMAIN more, more[i].kind = "delta", NEW v \in Nat,
                    Knows(more, h[more[i].call], more[i].call, i, v), v # 0
             PROVE  more[i].first = v + 1
  BY DEF DeltasJoin, more
<1>2. i \in 1..n + 1
  BY <1>1
<1>3. Knows(ch, h[more[i].call], more[i].call, i, v)
  <2>1. \A g, k : Knows(more, g, k, i, v) <=> Knows(ch, g, k, i, v)
    BY <1>1, <1>2, KnowsPrefix
  <2>q. QED BY <2>1
<1>4. CASE i \in 1..n
  BY <1>1, <1>3, <1>4 DEF DeltasJoin
<1>5. CASE i = n + 1
  BY <1>1, <1>3, <1>5 DEF UpToDate, n
<1>q. QED BY <1>2, <1>1, <1>4, <1>5

\* Who was up to date and is told a message stays so.
LEMMA AppendUpToDate ==
  ASSUME NEW ch \in Seq(Message), NEW m \in Message, NEW h \in [Call -> Nat],
         NEW closed, NEW closed2, closed \subseteq closed2, NEW sent, NEW sent2,
         UpToDate(ch, h, closed, sent),
         \A k \in Call \ closed2 : IF m.call = k THEN m.last = sent2[k] ELSE sent2[k] = sent[k]
  PROVE  UpToDate(Append(ch, m), h, closed2, sent2)
<1> DEFINE n == Len(ch)  more == Append(ch, m)
<1>1. n \in Nat /\ Len(more) + 1 = n + 2 /\ more[n + 1] = m /\ \A j \in 1..n : more[j] = ch[j]
  OBVIOUS
<1> HIDE DEF n, more
<1> SUFFICES ASSUME NEW k \in Call \ closed2, NEW v \in Nat, Knows(more, h[k], k, n + 2, v)
             PROVE  v = 0 \/ v = sent2[k]
  BY <1>1 DEF UpToDate, more
<1>2. CASE m.call = k
  <2>1. v = more[n + 1].last
    BY ZenonT(30), <1>1, <1>2, KnowsNext
  <2>2. m.last = sent2[k]
    BY <1>2
  <2>q. QED BY <1>1, <2>1, <2>2
<1>3. CASE m.call # k
  <2>1. Knows(more, h[k], k, n + 1, v)
    BY <1>1, <1>3, KnowsNext
  <2>2. n + 1 \in 1..n + 1
    BY <1>1
  <2>3. Knows(ch, h[k], k, n + 1, v)
    BY <1>1, <2>1, <2>2, KnowsPrefix
  <2>q. QED BY <1>3, <2>3 DEF UpToDate, n
<1>q. QED BY <1>2, <1>3


\* The client takes the first message: a snapshot or a delta tells it about a call.
LEMMA TailMessages ==
  ASSUME NEW ch \in Seq(Message), ch # <<>>, NEW closed, CallMessages(ch, closed),
         NEW h \in [Call -> Nat], NEW h2,
         \A k \in Call : h2[k] = IF ch[1].kind \notin {"lifecycle", "phase"} /\ ch[1].call = k
                                   THEN ch[1].last ELSE h[k]
  PROVE  /\ CallMessages(Tail(ch), closed)
         /\ DeltasJoin(ch, h) => DeltasJoin(Tail(ch), h2)
         /\ \A sent : UpToDate(ch, h, closed, sent) => UpToDate(Tail(ch), h2, closed, sent)
<1> DEFINE rest == Tail(ch)  n == Len(rest)
<1>1. /\ n \in Nat /\ Len(ch) = n + 1 /\ DOMAIN rest = 1..n /\ DOMAIN ch = 1..n + 1
      /\ \A j \in 1..n : rest[j] = ch[j + 1]
  OBVIOUS
<1>2. \A i \in 1..n : i + 1 \in 1..n + 1
  BY <1>1
<1>3. 1 \in DOMAIN ch
  BY <1>1
<1> HIDE DEF rest, n
<1>4. ASSUME NEW k \in Call, \/ k \notin closed
                             \/ \E i \in 1..n : rest[i].kind = "delta" /\ rest[i].call = k
      PROVE  /\ ch[1].call = k => h2[k] = ch[1].last
             /\ ch[1].call # k => h2[k] = h[k]
  <2>1. ASSUME ch[1].call = k PROVE ch[1].kind \notin {"lifecycle", "phase"}
    <3>1. ch[1].kind # "lifecycle"
      BY <1>3, <2>1 DEF CallMessages
    <3>2. ASSUME ch[1].kind = "phase" PROVE FALSE
      <4>1. k \in closed
        BY <1>3, <2>1, <3>2 DEF CallMessages
      <4>2. PICK i \in 1..n : rest[i].kind = "delta" /\ rest[i].call = k
        BY <1>4, <4>1
      <4>3. i + 1 \in DOMAIN ch /\ ch[i + 1].kind = "delta" /\ ch[i + 1].call = ch[1].call
        BY <1>1, <1>2, <2>1, <4>2
      <4>4. i + 1 < 1
        BY <1>3, <3>2, <4>3 DEF CallMessages
      <4>q. QED BY <1>1, <4>4
    <3>q. QED BY <3>1, <3>2
  <2>q. QED BY <2>1
<1>5. CallMessages(rest, closed)
  <2>1. ASSUME NEW k \in Call, NEW i \in 1..n + 1
        PROVE  NonePrior(rest, k, i) \/ \E j \in 1..i - 1 : Prior(rest, k, i, j)
    <3>1. i + 1 \in 1..Len(ch) + 1 /\ (i + 1) - 1 = i
      BY <1>1
    <3>2. ASSUME NEW g \in 1..i - 1 PROVE rest[g] = ch[g + 1] /\ g + 1 \in 1..i
      BY <1>1
    <3>3. CASE NonePrior(ch, k, i + 1)
      BY <3>1, <3>2, <3>3 DEF NonePrior
    <3>4. ASSUME NEW j \in 1..i, Prior(ch, k, i + 1, j)
          PROVE  NonePrior(rest, k, i) \/ \E g \in 1..i - 1 : Prior(rest, k, i, g)
      <4>1. CASE j = 1
        <5>1. \A g \in 1..i - 1 : ch[g + 1].call # k
          BY <3>1, <3>4, <4>1 DEF Prior
        <5>q. QED BY <3>2, <5>1 DEF NonePrior
      <4>2. CASE j # 1
        <5>1. j - 1 \in 1..i - 1 /\ (j - 1) + 1 = j
          BY <4>2
        <5>3. \A g \in 1..i - 1 : Prior(rest, k, i, g) <=> Prior(ch, k, i + 1, g + 1)
          BY ZenonT(30), <1>1, KnowsTail
        <5>4. Prior(rest, k, i, j - 1) <=> Prior(ch, k, i + 1, (j - 1) + 1)
          BY <5>1, <5>3
        <5>5. Prior(rest, k, i, j - 1)
          BY <3>4, <5>1, <5>4
        <5>q. QED BY <5>1, <5>5
      <4>q. QED BY <4>1, <4>2
    <3>q. QED BY <3>1, <3>3, <3>4 DEF CallMessages
  <2>2. ASSUME NEW i \in 1..n
        PROVE  /\ IF rest[i].kind = "lifecycle" THEN rest[i].call = None ELSE rest[i].call \in Call
               /\ rest[i].kind = "phase" => rest[i].call \in closed
    <3>1. rest[i] = ch[i + 1] /\ i + 1 \in DOMAIN ch
      BY <1>1, <1>2
    <3>2. IF ch[i + 1].kind = "lifecycle" THEN ch[i + 1].call = None ELSE ch[i + 1].call \in Call
      BY <3>1 DEF CallMessages
    <3>3. ch[i + 1].kind = "phase" => ch[i + 1].call \in closed
      BY <3>1 DEF CallMessages
    <3>q. QED BY <3>1, <3>2, <3>3
  <2>4. ASSUME NEW i \in 1..n, NEW j \in 1..n,
               rest[i].kind = "phase", rest[j].kind = "delta", rest[i].call = rest[j].call
        PROVE  j < i
    <3>1. /\ i + 1 \in DOMAIN ch /\ j + 1 \in DOMAIN ch
          /\ ch[i + 1].kind = "phase" /\ ch[j + 1].kind = "delta" /\ ch[i + 1].call = ch[j + 1].call
      BY <1>1, <1>2, <2>4
    <3>2. j + 1 < i + 1
      BY <3>1 DEF CallMessages
    <3>q. QED BY <1>1, <3>2
  <2>q. QED BY <1>1, <2>1, <2>2, <2>4 DEF CallMessages, n
<1>6. ASSUME DeltasJoin(ch, h) PROVE DeltasJoin(rest, h2)
  <2> SUFFICES ASSUME NEW i \in 1..n, rest[i].kind = "delta", NEW v \in Nat,
                      Knows(rest, h2[rest[i].call], rest[i].call, i, v), v # 0
               PROVE  rest[i].first = v + 1
    BY <1>1 DEF DeltasJoin
  <2>1. PICK k \in Call : k = rest[i].call
    BY <1>1, <1>5 DEF CallMessages
  <2>2. /\ ch[1].call = k => h2[k] = ch[1].last
        /\ ch[1].call # k => h2[k] = h[k]
    BY <1>4, <2>1
  <2>3. i \in 1..n + 1 /\ Knows(rest, h2[k], k, i, v)
    BY <1>1, <2>1
  <2>4. Knows(ch, h[k], k, i + 1, v)
    BY <1>1, <2>2, <2>3, KnowsTail
  <2>5. i + 1 \in DOMAIN ch /\ ch[i + 1].kind = "delta" /\ ch[i + 1].call = k /\ ch[i + 1] = rest[i]
    BY <1>1, <1>2, <2>1
  <2>6. ch[i + 1].first = v + 1
    BY <1>6, <2>4, <2>5 DEF DeltasJoin
  <2>q. QED BY <2>5, <2>6
<1>7. ASSUME NEW sent, UpToDate(ch, h, closed, sent) PROVE UpToDate(rest, h2, closed, sent)
  <2> SUFFICES ASSUME NEW k \in Call \ closed, NEW v \in Nat, Knows(rest, h2[k], k, n + 1, v)
               PROVE  v = 0 \/ v = sent[k]
    BY DEF UpToDate, n
  <2>1. /\ ch[1].call = k => h2[k] = ch[1].last
        /\ ch[1].call # k => h2[k] = h[k]
    BY <1>4
  <2>2. n + 1 \in 1..n + 1 /\ (n + 1) + 1 = Len(ch) + 1
    BY <1>1
  <2>3. Knows(ch, h[k], k, (n + 1) + 1, v)
    BY <1>1, <2>1, <2>2, KnowsTail
  <2>q. QED BY <1>7, <2>2, <2>3 DEF UpToDate
<1>q. QED BY <1>5, <1>6, <1>7 DEF rest


\* Taking streams away leaves the others.
LEMMA StreamsPart ==
  ASSUME streams \in Seq(Call)
  PROVE  /\ \A i \in DOMAIN streams : ToSet(RemoveAt(streams, i)) \subseteq ToSet(streams)
         /\ \A kept \in Unexpired : ToSet(kept) \subseteq ToSet(streams)
<1>0. Len(streams) \in Nat /\ DOMAIN streams = 1..Len(streams)
  OBVIOUS
<1>1. ASSUME NEW n \in 1..Len(streams) + 1
      PROVE  ToSet(SubSeq(streams, n, Len(streams))) \subseteq ToSet(streams)
  <2> DEFINE a == SubSeq(streams, n, Len(streams))
  <2>1. /\ Len(a) = IF n <= Len(streams) THEN Len(streams) - n + 1 ELSE 0
        /\ \A j \in 1..Len(streams) - n + 1 : a[j] = streams[n + j - 1]
        /\ a \in Seq(Call)
    <3>1. \A j \in n..Len(streams) : streams[j] \in Call
      BY <1>0
    <3>q. QED BY <1>0, <3>1, SubSeqProperties
  <2> HIDE DEF a
  <2>2. ASSUME NEW j \in 1..Len(a) PROVE a[j] \in ToSet(streams)
    <3>1. a[j] = streams[n + j - 1] /\ n + j - 1 \in DOMAIN streams
      BY <1>0, <2>1
    <3>q. QED BY <3>1 DEF ToSet
  <2>3. DOMAIN a = 1..Len(a)
    BY <2>1
  <2>q. QED BY <2>2, <2>3 DEF ToSet, a
<1>2. ASSUME NEW i \in DOMAIN streams PROVE ToSet(RemoveAt(streams, i)) \subseteq ToSet(streams)
  <2> DEFINE a == SubSeq(streams, 1, i - 1)  b == SubSeq(streams, i + 1, Len(streams))
  <2>1. /\ a \in Seq(Call) /\ Len(a) = i - 1 /\ \A j \in 1..i - 1 : a[j] = streams[j]
        /\ b \in Seq(Call) /\ Len(b) = Len(streams) - i
        /\ \A j \in 1..Len(streams) - i : b[j] = streams[i + j]
    <3>1. i \in 1..Len(streams)
      BY <1>0
    <3>2. /\ \A j \in 1..i - 1 : streams[j] \in Call
          /\ \A j \in i + 1..Len(streams) : streams[j] \in Call
      BY <1>0
    <3>3. /\ a \in Seq(Call) /\ Len(a) = IF 1 <= i - 1 THEN (i - 1) - 1 + 1 ELSE 0
          /\ \A j \in 1..(i - 1) - 1 + 1 : a[j] = streams[1 + j - 1]
      BY <1>0, <3>1, <3>2, SubSeqProperties
    <3>4. /\ b \in Seq(Call) /\ Len(b) = IF i + 1 <= Len(streams) THEN Len(streams) - (i + 1) + 1 ELSE 0
          /\ \A j \in 1..Len(streams) - (i + 1) + 1 : b[j] = streams[(i + 1) + j - 1]
      BY SMTT(30), <1>0, <3>1, <3>2, SubSeqProperties
    <3> HIDE DEF a, b
    <3>5. Len(a) = i - 1 /\ Len(b) = Len(streams) - i
      BY <1>0, <3>1, <3>3, <3>4
    <3>6. \A j \in 1..i - 1 : a[j] = streams[j]
      BY <1>0, <3>1, <3>3
    <3>7. ASSUME NEW j \in 1..Len(streams) - i PROVE b[j] = streams[i + j]
      <4>1. j \in 1..Len(streams) - (i + 1) + 1 /\ (i + 1) + j - 1 = i + j
        BY <1>0, <3>1
      <4>2. b[j] = streams[(i + 1) + j - 1]
        BY <3>4, <4>1
      <4>q. QED BY <4>1, <4>2
    <3>q. QED BY <3>3, <3>4, <3>5, <3>6, <3>7
  <2>2. RemoveAt(streams, i) = a \o b
    BY DEF RemoveAt
  <2>3. i \in 1..Len(streams)
    BY <1>0
  <2> HIDE DEF a, b
  <2>4. \A j \in 1..Len(a) : a[j] \in ToSet(streams)
    BY SMTT(30), <1>0, <2>1, <2>3 DEF ToSet
  <2>5. \A j \in 1..Len(b) : b[j] \in ToSet(streams)
    <3> SUFFICES ASSUME NEW j \in 1..Len(b) PROVE b[j] \in ToSet(streams)
      OBVIOUS
    <3>0. j \in 1..Len(streams) - i
      BY <2>1
    <3>1. i + j \in DOMAIN streams
      BY <1>0, <2>3, <3>0
    <3>2. b[j] = streams[i + j]
      BY <2>1, <3>0
    <3>q. QED BY <3>1, <3>2 DEF ToSet
  <2>6. a \o b \in Seq(Call) /\ Len(a \o b) = Len(a) + Len(b)
    BY <2>1, ConcatProperties
  <2>7. \A j \in 1..Len(a) + Len(b) : (a \o b)[j] = IF j <= Len(a) THEN a[j] ELSE b[j - Len(a)]
    BY <2>1, ConcatProperties
  <2>8. \A j \in 1..Len(a) + Len(b) : (a \o b)[j] \in ToSet(streams)
    <3> SUFFICES ASSUME NEW j \in 1..Len(a) + Len(b) PROVE (a \o b)[j] \in ToSet(streams)
      OBVIOUS
    <3>1. Len(a) \in Nat /\ Len(b) \in Nat
      BY <2>1
    <3>2. j <= Len(a) => j \in 1..Len(a)
      BY <3>1
    <3>3. ~(j <= Len(a)) => j - Len(a) \in 1..Len(b)
      BY <3>1
    <3>q. QED BY <2>4, <2>5, <2>7, <3>2, <3>3
  <2>9. DOMAIN (a \o b) = 1..Len(a) + Len(b)
    BY <2>6
  <2>q. QED BY <2>2, <2>8, <2>9 DEF ToSet
<1>q. QED BY <1>1, <1>2 DEF Unexpired

\* The snapshots of a new subscription: one of each call, with all of its text.
LEMMA SnapshotMessages ==
  ASSUME TypeOK, CapturedUpToDate, NEW kept \in Unexpired, NEW order \in Orders(Shown(kept)),
         NEW h \in [Call -> Nat], \A k \in Call : h[k] = 0, NEW closed
  PROVE  LET ch == [i \in DOMAIN order |-> Snapshot(order[i])]
         IN  CallMessages(ch, closed) /\ DeltasJoin(ch, h) /\ UpToDate(ch, h, closed, emitted)
<1> DEFINE ch == [i \in DOMAIN order |-> Snapshot(order[i])]
<1>1. kept \in Seq(Call) /\ Shown(kept) \in SUBSET Call
  BY UnexpiredType DEF TypeOK, Shown, ToSet
<1>2. PICK n \in 0..Len(streams) : order \in [1..n -> Shown(kept)]
  BY DEF Orders
<1>3. IsInjective(order)
  BY DEF Orders
<1>4. n \in Nat /\ DOMAIN ch = 1..n /\ Len(ch) = n
  <2>1. n \in Nat /\ DOMAIN ch = 1..n
    BY <1>2 DEF TypeOK
  <2>2. ch \in Seq(Message)
    BY <1>1, SnapshotsType
  <2>q. QED BY <2>1, <2>2
<1>5. \A i \in 1..n : /\ ch[i].kind = "snapshot" /\ ch[i].call = order[i] /\ order[i] \in Shown(kept)
                      /\ ch[i].last = captured[order[i]].last
  BY <1>2 DEF Snapshot
<1> HIDE DEF ch
<1>6. \A i, j \in 1..n : ch[i].call = ch[j].call => i = j
  BY <1>2, <1>3, <1>5 DEF IsInjective
<1>7. ASSUME NEW k \in Call, NEW i \in 1..n + 1
      PROVE  NonePrior(ch, k, i) \/ \E j \in 1..i - 1 : Prior(ch, k, i, j)
  <2> SUFFICES ASSUME NEW j \in 1..i - 1, ch[j].call = k PROVE Prior(ch, k, i, j)
    BY DEF NonePrior
  <2>1. \A g \in j + 1..i - 1 : g \in 1..n /\ g # j
    BY <1>4
  <2>2. j \in 1..n
    BY <1>4
  <2>q. QED BY <1>6, <2>1, <2>2 DEF Prior
<1>8. CallMessages(ch, closed)
  BY <1>1, <1>4, <1>5, <1>7 DEF CallMessages
<1>9. DeltasJoin(ch, h)
  BY <1>4, <1>5 DEF DeltasJoin
<1>10. ASSUME NEW k \in Call, NEW v \in Nat, Knows(ch, h[k], k, n + 1, v) PROVE v = 0 \/ v = emitted[k]
  <2>1. CASE v = h[k]
    BY <2>1
  <2>2. ASSUME NEW j \in 1..n, ch[j].call = k, v = ch[j].last PROVE v = emitted[k]
    <3>1. k \in Shown(kept) /\ v = captured[k].last
      BY <1>5, <2>2
    <3>2. k \in ToSet(streams) /\ k \notin overflow
      <4>1. k \in ToSet(kept) /\ k \notin overflow
        BY <3>1 DEF Shown
      <4>2. ToSet(kept) \subseteq ToSet(streams)
        BY StreamsPart DEF TypeOK
      <4>q. QED BY <4>1, <4>2
    <3>q. QED BY <3>1, <3>2 DEF CapturedUpToDate
  <2>3. (n + 1) - 1 = n
    BY <1>4
  <2>q. QED BY <1>10, <2>1, <2>2, <2>3 DEF Knows, Prior
<1>11. UpToDate(ch, h, closed, emitted)
  BY <1>4, <1>10 DEF UpToDate
<1>q. QED BY <1>8, <1>9, <1>11 DEF ch


\* A delta is added to the text of its call, or the call overflows.
LEMMA EmitCaptures ==
  ASSUME TypeOK, CapturedUpToDate, NEW k \in Call, EmitArguments(k)
  PROVE  CapturedUpToDate'
<1> DEFINE n == emitted[k] + 1
<1>1. n \in Nat /\ emitted' = [emitted EXCEPT ![k] = n] /\ (CaptureKnown(k, n) \/ CaptureNew(k, n))
  BY DEF EmitArguments, TypeOK
<1>2. emitted'[k] = n /\ \A g \in Call \ {k} : emitted'[g] = emitted[g]
  BY <1>1 DEF TypeOK
<1>3. ToSet(streams) \subseteq Call
  BY DEF TypeOK, ToSet
<1> HIDE DEF n
<1>4. ASSUME NEW s \in Seq(Call) PROVE ToSet(Append(s, k)) \subseteq ToSet(s) \cup {k}
  BY DEF ToSet
<1>5. CASE CaptureKnown(k, n)
  <2>1. ToSet(streams') \subseteq ToSet(streams)
    <3>1. PICK i \in DOMAIN streams : streams[i] = k /\ streams' = Append(RemoveAt(streams, i), k)
      BY <1>5 DEF CaptureKnown, Touch
    <3>2. RemoveAt(streams, i) \in Seq(Call)
      BY PartType DEF TypeOK
    <3>3. ToSet(RemoveAt(streams, i)) \subseteq ToSet(streams) /\ k \in ToSet(streams)
      BY <3>1, StreamsPart DEF TypeOK, ToSet
    <3>q. QED BY <1>4, <3>1, <3>2, <3>3
  <2>2. \A g \in Call \ {k} : captured'[g] = captured[g] /\ (g \in overflow' <=> g \in overflow)
    BY <1>5 DEF CaptureKnown, TypeOK
  <2>3. k \in overflow' \/ captured'[k].last = n
    BY <1>5 DEF CaptureKnown, TypeOK
  <2>q. QED BY <1>2, <1>3, <2>1, <2>2, <2>3 DEF CapturedUpToDate
<1>6. CASE CaptureNew(k, n)
  <2>1. ToSet(streams') \subseteq ToSet(streams) \cup {k}
    <3>1. PICK kept \in Unexpired : streams' = Append(IF Len(kept) >= MaxStreams THEN Tail(kept) ELSE kept, k)
      BY <1>6 DEF CaptureNew
    <3>2. kept \in Seq(Call) /\ ToSet(kept) \subseteq ToSet(streams)
      BY UnexpiredType, StreamsPart DEF TypeOK
    <3>3. CASE Len(kept) >= MaxStreams
      <4>1. Tail(kept) \in Seq(Call) /\ ToSet(Tail(kept)) \subseteq ToSet(kept)
        <5>1. Len(kept) \in Nat /\ kept # <<>>
          BY <3>2, <3>3
        <5>2. Tail(kept) \in Seq(Call) /\ \A j \in DOMAIN Tail(kept) : j + 1 \in DOMAIN kept /\ Tail(kept)[j] = kept[j + 1]
          BY <3>2, <5>1
        <5>q. QED BY <5>2 DEF ToSet
      <4>2. streams' = Append(Tail(kept), k)
        BY <3>1, <3>3
      <4>q. QED BY <1>4, <3>2, <4>1, <4>2
    <3>4. CASE ~(Len(kept) >= MaxStreams)
      <4>1. streams' = Append(kept, k)
        BY <3>1, <3>4
      <4>q. QED BY <1>4, <3>2, <4>1
    <3>q. QED BY <3>3, <3>4
  <2>2. \A g \in Call \ {k} : captured'[g] = captured[g] /\ (g \in overflow' <=> g \in overflow)
    BY <1>6 DEF CaptureNew, TypeOK
  <2>3. captured'[k].last = n
    BY <1>6 DEF CaptureNew, TypeOK
  <2>q. QED BY <1>2, <1>3, <2>1, <2>2, <2>3 DEF CapturedUpToDate
<1>q. QED BY <1>1, <1>5, <1>6

\* No step leaves the hub with a text that is not all that was emitted.
LEMMA CapturedStep ==
  ASSUME TypeOK, CapturedUpToDate, [Next]_vars
  PROVE  CapturedUpToDate'
<1>1. ASSUME UNCHANGED <<captured, overflow, emitted>>, ToSet(streams') \subseteq ToSet(streams)
      PROVE  CapturedUpToDate'
  BY <1>1 DEF CapturedUpToDate
<1>2. ToSet(<<>>) = {}
  BY DEF ToSet
<1>3. CASE UNCHANGED vars
  BY <1>1, <1>3 DEF vars, hubVars, pageVars, callVars
<1>4. ASSUME NEW n \in 1..MaxSeq, Commit(n) PROVE CapturedUpToDate'
  BY <1>1, <1>4 DEF Commit, hubVars, pageVars, callVars
<1>5. CASE Publication
  BY <1>1, <1>2, <1>5 DEF Publication, PublishCommitted
<1>6. ASSUME NEW k \in Call, RunCall(k) PROVE CapturedUpToDate'
  <2>1. ToSet(streams') \subseteq ToSet(streams)
    BY <1>6, StreamsPart DEF RunCall, Drop, TypeOK
  <2>q. QED BY <1>1, <1>6, <2>1 DEF RunCall
<1>7. ASSUME NEW r \in Reader, Subscribe(r) PROVE CapturedUpToDate'
  <2>1. ToSet(streams') \subseteq ToSet(streams)
    BY <1>7, StreamsPart DEF Subscribe, TypeOK
  <2>q. QED BY <1>1, <1>7, <2>1 DEF Subscribe, callVars
<1>8. ASSUME NEW r \in Reader, Connect(r) \/ (HandlerStep(r) /\ ~Subscribe(r)) \/ Disconnect(r) PROVE CapturedUpToDate'
  <2>1. UNCHANGED <<streams, captured, overflow, emitted>>
    BY <1>8 DEF Connect, HandlerStep, Disconnect, ReadTail, ReadBacklog, WriteBacklog, ForwardLive, EndOfChannel,
                Leave, hubVars, pageVars, callVars
  <2>q. QED BY <1>1, <2>1
<1>9. CASE Crash
  BY <1>1, <1>2, <1>9 DEF Crash
<1>q. QED BY <1>3, <1>4, <1>5, <1>6, <1>7, <1>8, <1>9, EmitCaptures DEF Next

\* A message to all subscribers: who has it is up to date, who is full is cut off.
LEMMA PublishArguments ==
  ASSUME TypeOK, NEW r \in Reader, ArgumentsInv(r), NEW m \in Message, PublishToAll(m),
         over \subseteq over', UNCHANGED <<stage, heard>>,
         IF m.kind = "lifecycle" THEN m.call = None ELSE m.call \in Call,
         m.kind = "phase" => m.call \in over',
         m.kind = "delta" => m.call \in Call \ over /\ m.first = emitted[m.call] + 1,
         \A k \in Call \ over' : IF m.call = k THEN m.last = emitted'[k] ELSE emitted'[k] = emitted[k]
  PROVE  ArgumentsInv(r)'
<1>1. /\ chan[r] \in Seq(Message) /\ heard[r] \in [Call -> Nat] /\ emitted \in [Call -> Nat]
      /\ heard'[r] = heard[r] /\ stage'[r] = stage[r]
  BY DEF TypeOK
<1>2. CASE chan'[r] = chan[r] /\ r \notin subs'
  <2>1. CallMessages(chan'[r], over')
    BY <1>2 DEF ArgumentsInv, CallMessages
  <2>q. QED BY <1>1, <1>2, <2>1 DEF ArgumentsInv
<1>3. CASE chan'[r] = Append(chan[r], m) /\ r \in subs
  <2>1. UpToDate(chan[r], heard[r], over, emitted) /\ CallMessages(chan[r], over) /\ DeltasJoin(chan[r], heard[r])
    BY <1>3 DEF ArgumentsInv
  <2>2. CallMessages(Append(chan[r], m), over')
    BY <1>1, <2>1, AppendMessages
  <2>3. DeltasJoin(Append(chan[r], m), heard[r])
    BY <1>1, <2>1, AppendJoins
  <2>4. UpToDate(Append(chan[r], m), heard[r], over', emitted')
    BY <1>1, <2>1, AppendUpToDate
  <2>5. stage[r] \in {"backlog", "stream"}
    BY <1>3 DEF ArgumentsInv
  <2>q. QED BY <1>1, <1>3, <2>2, <2>3, <2>4, <2>5 DEF ArgumentsInv
<1>4. \/ chan'[r] = chan[r] /\ r \notin subs'
      \/ chan'[r] = Append(chan[r], m) /\ r \in subs
  BY DEF PublishToAll
<1>q. QED BY <1>2, <1>3, <1>4

\* Steps of the store and of the turn that streams arguments.
LEMMA WriterArguments ==
  ASSUME TypeOK, NEW r \in Reader, ArgumentsInv(r)
  PROVE  /\ \A n \in 1..MaxSeq : Commit(n) => ArgumentsInv(r)'
         /\ Publication => ArgumentsInv(r)'
         /\ \A k \in Call : EmitArguments(k) \/ RunCall(k) => ArgumentsInv(r)'
<1>1. ASSUME NEW n \in 1..MaxSeq, Commit(n) PROVE ArgumentsInv(r)'
  BY <1>1 DEF Commit, ArgumentsInv, hubVars, callVars, clientVars
<1>2. ASSUME NEW endsTurn \in BOOLEAN, PublishCommitted(endsTurn) PROVE ArgumentsInv(r)'
  <2>1. PICK m : m = Lifecycle(published + 1)
    OBVIOUS
  <2>2. m \in Message /\ m.kind = "lifecycle" /\ m.call = None
    BY <2>1 DEF TypeOK, Lifecycle, Message
  <2>3. over \subseteq over' /\ UNCHANGED <<stage, heard, emitted>> /\ PublishToAll(m)
    BY <1>2, <2>1 DEF PublishCommitted, clientVars
  <2>4. \A k \in Call \ over' : m.call # k
    BY <2>2
  <2>q. QED BY <2>2, <2>3, <2>4, PublishArguments
<1>3. ASSUME NEW k \in Call, EmitArguments(k) PROVE ArgumentsInv(r)'
  <2>1. PICK m : m = Delta(k, emitted[k] + 1)
    OBVIOUS
  <2>2. m \in Message /\ m.kind = "delta" /\ m.call = k /\ m.first = emitted[k] + 1 /\ m.last = emitted[k] + 1
    BY SMTT(30), <2>1 DEF TypeOK, Delta, Message
  <2>3. k \notin over /\ over' = over /\ UNCHANGED <<stage, heard>> /\ PublishToAll(m)
    BY <1>3, <2>1 DEF EmitArguments, clientVars
  <2>4. \A g \in Call \ over' : IF m.call = g THEN m.last = emitted'[g] ELSE emitted'[g] = emitted[g]
    BY <1>3, <2>2 DEF EmitArguments, TypeOK
  <2>q. QED BY <2>2, <2>3, <2>4, PublishArguments
<1>4. ASSUME NEW k \in Call, RunCall(k) PROVE ArgumentsInv(r)'
  <2>1. PICK m : m = Phase(k)
    OBVIOUS
  <2>2. m \in Message /\ m.kind = "phase" /\ m.call = k
    BY <2>1 DEF Phase, Message
  <2>3. k \in over' /\ over \subseteq over' /\ UNCHANGED <<stage, heard, emitted>> /\ PublishToAll(m)
    BY <1>4, <2>1 DEF RunCall, clientVars
  <2>4. \A g \in Call \ over' : m.call # g
    BY <2>2, <2>3
  <2>q. QED BY <2>2, <2>3, <2>4, PublishArguments
<1>q. QED BY <1>1, <1>2, <1>3, <1>4 DEF Publication

\* Without a message there is nothing to join.
LEMMA NothingKnown ==
  ASSUME NEW h, NEW closed
  PROVE  CallMessages(<<>>, closed) /\ DeltasJoin(<<>>, h)
<1>1. Len(<<>>) = 0 /\ DOMAIN <<>> = {}
  OBVIOUS
<1>q. QED BY <1>1 DEF CallMessages, DeltasJoin, NonePrior


\* Another handler's step is none of r's arguments.
LEMMA OtherArguments ==
  ASSUME NEW r \in Reader, ArgumentsInv(r), UNCHANGED <<over, emitted>>,
         chan'[r] = chan[r], heard'[r] = heard[r], r \in subs' <=> r \in subs,
         stage[r] \in {"backlog", "stream"} => stage'[r] \in {"backlog", "stream"}
  PROVE  ArgumentsInv(r)'
  BY DEF ArgumentsInv

\* A subscription begins with the snapshots, and its client has heard nothing.
LEMMA SubscribeArguments ==
  ASSUME TypeOK, CapturedUpToDate, NEW r \in Reader, ArgumentsInv(r), Subscribe(r)
  PROVE  ArgumentsInv(r)'
<1>1. PICK kept \in Unexpired : \E order \in Orders(Shown(kept)) :
        chan' = [chan EXCEPT ![r] = [i \in DOMAIN order |-> Snapshot(order[i])]]
  BY DEF Subscribe
<1>2. PICK order \in Orders(Shown(kept)) :
        chan' = [chan EXCEPT ![r] = [i \in DOMAIN order |-> Snapshot(order[i])]]
  BY <1>1
<1>3. PICK ch : ch = [i \in DOMAIN order |-> Snapshot(order[i])]
  OBVIOUS
<1>4. /\ chan'[r] = ch /\ heard'[r] = heard[r] /\ stage'[r] = "backlog" /\ r \in subs'
      /\ over' = over /\ emitted' = emitted
  BY <1>2, <1>3 DEF Subscribe, MoveTo, callVars, clientVars, TypeOK
<1>5. heard[r] \in [Call -> Nat] /\ \A k \in Call : heard[r][k] = 0
  BY DEF ArgumentsInv, Subscribe, TypeOK
<1>6. CallMessages(ch, over) /\ DeltasJoin(ch, heard[r]) /\ UpToDate(ch, heard[r], over, emitted)
  BY <1>3, <1>5, SnapshotMessages
<1>q. QED BY <1>4, <1>6 DEF ArgumentsInv

\* The first message of the channel reaches the client.
LEMMA ForwardArguments ==
  ASSUME TypeOK, NEW r \in Reader, ArgumentsInv(r), ForwardLive(r)
  PROVE  ArgumentsInv(r)'
<1> DEFINE ch == chan[r]  h == heard[r]  m == Head(chan[r])
<1>1. ch \in Seq(Message) /\ ch # <<>> /\ h \in [Call -> Nat] /\ m = ch[1] /\ 1 \in DOMAIN ch
  BY DEF ForwardLive, TypeOK
<1>2. chan'[r] = Tail(ch) /\ stage' = stage /\ subs' = subs /\ over' = over /\ emitted' = emitted /\ stage[r] = "stream"
  BY DEF ForwardLive, callVars, TypeOK
<1>3. CallMessages(ch, over) /\ DeltasJoin(ch, h) /\ (r \in subs => UpToDate(ch, h, over, emitted))
  BY DEF ArgumentsInv
<1>4. IF m.kind = "lifecycle" THEN m.call = None ELSE m.call \in Call
  BY <1>1, <1>3 DEF CallMessages
<1>5. IF m.kind \in {"lifecycle", "phase"} THEN heard' = heard ELSE heard' = [heard EXCEPT ![r][m.call] = m.last]
  BY DEF ForwardLive, ForwardLifecycle, ForwardTransient
<1>6. \A k \in Call : heard'[r][k] = IF ch[1].kind \notin {"lifecycle", "phase"} /\ ch[1].call = k
                                       THEN ch[1].last ELSE h[k]
  <2>1. heard \in [Reader -> [Call -> Nat]]
    BY DEF TypeOK
  <2>2. CASE m.kind \in {"lifecycle", "phase"}
    BY <1>1, <1>5, <2>2
  <2>3. CASE m.kind \notin {"lifecycle", "phase"}
    <3>1. m.call \in Call
      BY <1>4, <2>3
    <3>2. heard' = [heard EXCEPT ![r][m.call] = m.last]
      BY <1>5, <2>3
    <3> HIDE DEF m
    <3>3. \A k \in Call : heard'[r][k] = IF m.call = k THEN m.last ELSE heard[r][k]
      BY <2>1, <3>1, <3>2
    <3>q. QED BY <1>1, <2>3, <3>3
  <2>q. QED BY <2>2, <2>3
<1> HIDE DEF ch, h, m
<1>7. PICK h2 : h2 = heard'[r]
  OBVIOUS
<1>8. \A k \in Call : h2[k] = IF ch[1].kind \notin {"lifecycle", "phase"} /\ ch[1].call = k THEN ch[1].last ELSE h[k]
  BY <1>6, <1>7
<1>9. /\ CallMessages(Tail(ch), over) /\ DeltasJoin(Tail(ch), h2)
      /\ UpToDate(ch, h, over, emitted) => UpToDate(Tail(ch), h2, over, emitted)
  BY <1>1, <1>3, <1>8, TailMessages
<1>q. QED BY <1>2, <1>3, <1>7, <1>9 DEF ArgumentsInv

\* Whose connection ends has heard nothing.
LEMMA LeaveArguments ==
  ASSUME TypeOK, NEW r \in Reader, Leave(r) \/ Crash
  PROVE  ArgumentsInv(r)'
<1>1. chan'[r] = <<>> /\ r \notin subs' /\ \A k \in Call : heard'[r][k] = 0
  BY SMTT(30) DEF Leave, Crash, TypeOK
<1>q. QED BY <1>1, NothingKnown DEF ArgumentsInv

\* Every step keeps what HeardInv says.
LEMMA HeardStep == TypeOK /\ HeardInv /\ [Next]_vars => HeardInv'
<1> SUFFICES ASSUME TypeOK, HeardInv, [Next]_vars PROVE HeardInv'
  OBVIOUS
<1>1. CapturedUpToDate'
  BY CapturedStep DEF HeardInv
<1> SUFFICES ASSUME NEW r \in Reader PROVE ArgumentsInv(r)'
  BY <1>1 DEF HeardInv
<1>2. ArgumentsInv(r) /\ CapturedUpToDate
  BY DEF HeardInv
<1>3. CASE UNCHANGED vars
  BY <1>2, <1>3, OtherArguments DEF vars, hubVars, callVars, clientVars
<1>4. CASE Publication \/ (\E n \in 1..MaxSeq : Commit(n)) \/ \E k \in Call : EmitArguments(k) \/ RunCall(k)
  BY <1>2, <1>4, WriterArguments
<1>5. ASSUME NEW p \in Reader, Connect(p) \/ HandlerStep(p) \/ Disconnect(p), p # r PROVE ArgumentsInv(r)'
  <2>1. CASE Connect(p)
    BY <1>2, <1>5, <2>1, OtherArguments DEF Connect, MoveTo, TypeOK, hubVars, callVars, clientVars
  <2>2. CASE ReadTail(p)
    BY <1>2, <1>5, <2>2, OtherArguments DEF ReadTail, MoveTo, TypeOK, hubVars, callVars
  <2>3. CASE Subscribe(p)
    <3>1. chan'[r] = chan[r]
      BY <1>5, <2>3 DEF Subscribe, TypeOK
    <3>q. QED BY <1>2, <1>5, <2>3, <3>1, OtherArguments DEF Subscribe, MoveTo, TypeOK, callVars, clientVars
  <2>4. CASE ReadBacklog(p)
    BY <1>2, <1>5, <2>4, OtherArguments DEF ReadBacklog, MoveTo, TypeOK, hubVars, callVars, clientVars
  <2>5. CASE WriteBacklog(p)
    BY <1>2, <1>5, <2>5, OtherArguments DEF WriteBacklog, hubVars, callVars
  <2>6. CASE ForwardLive(p)
    <3>1. heard'[r] = heard[r]
      BY <1>5, <2>6 DEF ForwardLive, ForwardLifecycle, ForwardTransient, TypeOK
    <3>q. QED BY <1>2, <1>5, <2>6, <3>1, OtherArguments DEF ForwardLive, TypeOK, callVars
  <2>7. CASE Leave(p)
    BY <1>2, <1>5, <2>7, OtherArguments DEF Leave, MoveTo, TypeOK, callVars
  <2>q. QED BY <1>5, <2>1, <2>2, <2>3, <2>4, <2>5, <2>6, <2>7 DEF HandlerStep, EndOfChannel, Disconnect
<1>6. CASE Connect(r)
  <2>1. UNCHANGED <<over, emitted, chan, heard, subs>> /\ stage[r] = "away"
    BY <1>6 DEF Connect, hubVars, callVars, clientVars
  <2>q. QED BY <1>2, <2>1, OtherArguments
<1>7. CASE ReadTail(r)
  <2>1. UNCHANGED <<over, emitted, chan, heard, subs>> /\ stage[r] = "tail"
    BY <1>7 DEF ReadTail, hubVars, callVars
  <2>q. QED BY <1>2, <2>1, OtherArguments
<1>8. CASE ReadBacklog(r)
  <2>1. UNCHANGED <<over, emitted, chan, heard, subs>> /\ stage'[r] = "stream"
    BY <1>8 DEF ReadBacklog, MoveTo, hubVars, callVars, clientVars, TypeOK
  <2>q. QED BY <1>2, <2>1, OtherArguments
<1>9. CASE WriteBacklog(r)
  <2>1. UNCHANGED <<over, emitted, chan, heard, subs, stage>>
    BY <1>9 DEF WriteBacklog, hubVars, callVars
  <2>q. QED BY <1>2, <2>1, OtherArguments
<1>10. CASE Connect(r) \/ HandlerStep(r) \/ Disconnect(r)
  BY <1>2, <1>6, <1>7, <1>8, <1>9, <1>10, SubscribeArguments, ForwardArguments, LeaveArguments
     DEF HandlerStep, EndOfChannel, Disconnect
<1>11. CASE Crash
  BY <1>11, LeaveArguments
<1>q. QED BY <1>3, <1>4, <1>5, <1>10, <1>11 DEF Next

LEMMA HeardInit == Init => HeardInv
<1> SUFFICES ASSUME Init PROVE HeardInv
  OBVIOUS
<1>1. ToSet(streams) = {}
  BY DEF Init, ToSet
<1>2. ASSUME NEW r \in Reader PROVE ArgumentsInv(r)
  <2>1. chan[r] = <<>> /\ r \notin subs /\ \A k \in Call : heard[r][k] = 0
    BY DEF Init
  <2>q. QED BY <2>1, NothingKnown DEF ArgumentsInv
<1>q. QED BY <1>1, <1>2 DEF HeardInv, CapturedUpToDate

\* What is known before a delta is the last of its call before it.
LEMMA HeardImplies == TypeOK /\ HeardInv => SnapshotsJoinDeltas
<1> SUFFICES ASSUME TypeOK, HeardInv PROVE SnapshotsJoinDeltas
  OBVIOUS
<1> SUFFICES ASSUME NEW r \in Reader, NEW i \in DOMAIN chan[r], chan[r][i].kind = "delta"
             PROVE  LET k == chan[r][i].call
                        before == {j \in 1..i-1 : chan[r][j].call = k}
                        known == IF before = {} THEN heard[r][k]
                                 ELSE chan[r][CHOOSE j \in before : \A h \in before : h <= j].last
                    IN known # 0 => chan[r][i].first = known + 1
  BY DEF SnapshotsJoinDeltas
<1> DEFINE ch == chan[r]
           k == ch[i].call
           before == {j \in 1..i-1 : ch[j].call = k}
           latestBefore == CHOOSE j \in before : \A h \in before : h <= j
           known == IF before = {} THEN heard[r][k] ELSE ch[latestBefore].last
<1> SUFFICES ASSUME known # 0 PROVE ch[i].first = known + 1
  OBVIOUS
<1>1. ch \in Seq(Message) /\ CallMessages(ch, over) /\ DeltasJoin(ch, heard[r]) /\ heard[r] \in [Call -> Nat]
  BY DEF HeardInv, ArgumentsInv, TypeOK
<1>2. k \in Call /\ i \in 1..Len(ch) + 1 /\ DOMAIN ch = 1..Len(ch) /\ Len(ch) \in Nat /\ i \in 1..Len(ch)
  <2>1. DOMAIN ch = 1..Len(ch) /\ Len(ch) \in Nat /\ i \in 1..Len(ch)
    BY <1>1
  <2>2. k \in Call
    BY <1>1, <2>1 DEF CallMessages
  <2>q. QED BY <2>1, <2>2
<1> HIDE DEF ch, k
<1>3. known \in Nat /\ Knows(ch, heard[r][k], k, i, known)
  <2>1. CASE before = {}
    <3>1. known = heard[r][k]
      BY <2>1
    <3>2. NonePrior(ch, k, i)
      BY <2>1 DEF NonePrior
    <3>q. QED BY <1>1, <1>2, <3>1, <3>2 DEF Knows
  <2>2. CASE before # {}
    <3>1. ~NonePrior(ch, k, i)
      BY <2>2 DEF NonePrior
    <3>2. PICK j \in 1..i - 1 : Prior(ch, k, i, j)
      BY <1>1, <1>2, <3>1 DEF CallMessages
    <3>3. j \in before /\ \A h \in before : h <= j
      <4>1. ASSUME NEW h \in before, ~(h <= j) PROVE FALSE
        <5>1. h \in j + 1..i - 1 /\ ch[h].call = k
          BY <1>2, <4>1
        <5>q. QED BY <3>2, <5>1 DEF Prior
      <4>q. QED BY <3>2, <4>1 DEF Prior
    <3>4. latestBefore \in before /\ \A h \in before : h <= latestBefore
      BY <3>3
    <3> HIDE DEF latestBefore
    <3>5. latestBefore = j
      BY <1>2, <3>3, <3>4
    <3>6. known = ch[j].last
      BY <2>2, <3>5
    <3>7. ch[j].last \in Nat
      <4>1. ch[j] \in Message
        BY <1>1, <1>2
      <4>q. QED BY <4>1 DEF Message
    <3>q. QED BY <3>2, <3>6, <3>7 DEF Knows
  <2>q. QED BY <2>1, <2>2
<1> HIDE DEF known
<1>4. ch[i].kind = "delta" /\ ch[i].call = k
  BY DEF ch, k
<1>q. QED BY <1>1, <1>2, <1>3, <1>4 DEF DeltasJoin

\* What a client that joins late gets of a page-editing call has no gap and no repeat
\* between the snapshot, as far back as capturePageStream has kept it, and the deltas
\* that follow, unless the client is cut off.  It need not be the whole call's.
THEOREM SnapshotsMeetDeltas == Spec => []SnapshotsJoinDeltas
<1>1. TypeOK /\ HeardInv /\ TypeOK' /\ [Next]_vars => HeardInv'
  BY HeardStep
<1>q. QED BY <1>1, HeardInit, HeardImplies, TypeCorrect, PTL DEF Spec
=============================================================================
