---------------------------- MODULE EventStream ----------------------------
(***************************************************************************)
(* The event stream of one session: the events table of the store, the hub *)
(* (internal/event/hub.go) and the SSE handlers that serve readers         *)
(* (internal/api/sse.go).                                                  *)
(*                                                                         *)
(* A transaction numbers its lifecycle events, commits them and publishes  *)
(* them one by one before it releases the store's mutex; publication and   *)
(* subscription exclude each other by the hub's mutex.  Transient events   *)
(* have no number and go to the hub directly.  The only ones kept apart    *)
(* here are the argument deltas of page-editing tool calls, of which the   *)
(* hub keeps a snapshot for readers that join late.  The k-th delta of a   *)
(* call is its k-th unit of text.                                          *)
(***************************************************************************)
EXTENDS Naturals, Sequences, SequencesExt

CONSTANTS
  Reader,       \* clients of the stream
  Call,         \* page-editing tool calls
  None,
  Buffer,       \* subscriberBuffer
  Retain,       \* EventsRetainPerSession
  MaxStreams,   \* maxPageStreams
  MaxArguments, \* maxPageArgumentBytes, in deltas
  MaxSeq,       \* bound: lifecycle events in a behaviour
  MaxDeltas     \* bound: argument deltas of a call

ASSUME ConstantsAssumption ==
  /\ None \notin Call
  /\ {Buffer, Retain, MaxStreams, MaxArguments} \subseteq Nat \ {0}
  /\ MaxStreams <= Buffer
  /\ MaxSeq \in Nat
  /\ MaxDeltas \in Nat

VARIABLES
  latest,    \* MAX(seq) of the events table
  published, \* seq of the event published last; below latest: the mutex is held
  subs,      \* Hub.subs
  chan,      \* the channel of each reader's subscription, with what is buffered
  streams,   \* Hub.pageStreams, the one updated least recently first
  captured,  \* pageArgumentStream.arguments: first and last delta
  overflow,  \* pageArgumentStream.overflow
  emitted,   \* deltas published of each call
  over,      \* calls that emit no more arguments
  stage,     \* where the handler of a reader is
  cursor,    \* its lastSent; until the replay starts, `after'
  replay,    \* the last event of its backlog
  start,     \* the tail a reader without a position started from
  position,  \* client: id received last, 0 = none
  received,  \* client: ids in the order of their arrival
  heard      \* client: last delta of each call it has on this connection

storeVars  == <<latest, published>>
pageVars   == <<streams, captured, overflow>>
hubVars    == <<subs, chan, pageVars>>
callVars   == <<emitted, over>>
clientVars == <<start, position, received, heard>>
vars == <<storeVars, hubVars, callVars, stage, cursor, replay, clientVars>>

Message == [kind : {"lifecycle", "delta", "snapshot", "phase"}, seq : Nat,
            call : Call \cup {None}, first : Nat, last : Nat]

Lifecycle(s) == [kind |-> "lifecycle", seq |-> s, call |-> None, first |-> 0, last |-> 0]
Delta(k, n)  == [kind |-> "delta", seq |-> 0, call |-> k, first |-> n, last |-> n]
Phase(k)     == [kind |-> "phase", seq |-> 0, call |-> k, first |-> 0, last |-> 0]
Snapshot(k)  == [kind |-> "snapshot", seq |-> 0, call |-> k,
                 first |-> captured[k].first, last |-> captured[k].last]

TypeOK ==
  /\ latest \in Nat /\ published \in Nat /\ published <= latest
  /\ subs \in SUBSET Reader
  /\ chan \in [Reader -> Seq(Message)]
  /\ streams \in Seq(Call)
  /\ captured \in [Call -> [first : Nat, last : Nat]]
  /\ overflow \in SUBSET Call
  /\ emitted \in [Call -> Nat]
  /\ over \in SUBSET Call
  /\ stage \in [Reader -> {"away", "tail", "subscribe", "backlog", "stream"}]
  /\ cursor \in [Reader -> Nat]
  /\ replay \in [Reader -> Nat]
  /\ start \in [Reader -> Nat]
  /\ position \in [Reader -> Nat]
  /\ received \in [Reader -> Seq(Nat)]
  /\ heard \in [Reader -> [Call -> Nat]]

Init ==
  /\ latest = 0 /\ published = 0
  /\ subs = {}
  /\ chan = [r \in Reader |-> <<>>]
  /\ streams = <<>>
  /\ captured = [k \in Call |-> [first |-> 0, last |-> 0]]
  /\ overflow = {}
  /\ emitted = [k \in Call |-> 0]
  /\ over = {}
  /\ stage = [r \in Reader |-> "away"]
  /\ cursor = [r \in Reader |-> 0]
  /\ replay = [r \in Reader |-> 0]
  /\ start = [r \in Reader |-> 0]
  /\ position = [r \in Reader |-> 0]
  /\ received = [r \in Reader |-> <<>>]
  /\ heard = [r \in Reader |-> [k \in Call |-> 0]]

-----------------------------------------------------------------------------
(* Helpers *)

\* A transaction holds the store's mutex from its start to its last publication.
StoreUnlocked == published = latest

\* insertEventTx keeps the newest events only.
Deleted(s) == s + Retain <= latest

Drop(k) == \E i \in DOMAIN streams : streams[i] = k /\ streams' = RemoveAt(streams, i)

Touch(k) == \E i \in DOMAIN streams : streams[i] = k /\ streams' = Append(RemoveAt(streams, i), k)

\* prunePageStreams: what was not updated for two minutes goes, the oldest first.
Unexpired == {SubSeq(streams, n, Len(streams)) : n \in 1..Len(streams) + 1}

\* A slip: a full subscriber stays, and misses the message.
PublishDropping(m) ==
  /\ subs' = subs
  /\ chan' = [r \in Reader |->
                IF r \in subs /\ Len(chan[r]) < Buffer THEN Append(chan[r], m) ELSE chan[r]]

\* Hub.Publish: a subscriber with a full channel is removed and its channel
\* closed; what the channel holds can still be read.
PublishToAll(m) ==
  LET ready == {r \in subs : Len(chan[r]) < Buffer} IN
    /\ subs' = ready
    /\ chan' = [r \in Reader |-> IF r \in ready THEN Append(chan[r], m) ELSE chan[r]]

-----------------------------------------------------------------------------
(* Transactions of the store *)

\* `n' events in one transaction; a transaction that fails changes nothing.
Commit(n) ==
  /\ StoreUnlocked
  /\ latest + n <= MaxSeq
  /\ latest' = latest + n
  /\ UNCHANGED <<published, hubVars, callVars, stage, cursor, replay, clientVars>>

\* Publication of the next committed event.  The end of a turn also drops
\* the argument streams of its calls.
PublishCommitted(endsTurn) ==
  /\ ~StoreUnlocked
  /\ published' = published + 1
  /\ PublishToAll(Lifecycle(published + 1))
  /\ IF endsTurn
       THEN /\ streams' = <<>>
            /\ over' = over \cup {k \in Call : emitted[k] > 0}
       ELSE UNCHANGED <<streams, over>>
  /\ UNCHANGED <<latest, captured, overflow, emitted, stage, cursor, replay, clientVars>>

-----------------------------------------------------------------------------
(* Argument deltas of page-editing calls: capturePageStream *)

\* A slip: the stream is touched, its text is not extended.
CaptureKnownStale(k, n) ==
  /\ Touch(k)
  /\ UNCHANGED <<captured, overflow>>

CaptureKnown(k, n) ==
  /\ Touch(k)
  /\ \/ k \in overflow /\ UNCHANGED <<captured, overflow>>
     \/ /\ k \notin overflow
        /\ n - captured[k].first < MaxArguments
        /\ captured' = [captured EXCEPT ![k].last = n]
        /\ UNCHANGED overflow
     \/ /\ k \notin overflow
        /\ n - captured[k].first >= MaxArguments
        /\ overflow' = overflow \cup {k}
        /\ UNCHANGED captured

\* A slip: only what is too old makes room.
CaptureNewBeyond(k, n) ==
  /\ k \notin ToSet(streams)
  /\ \E kept \in Unexpired : streams' = Append(kept, k)
  /\ captured' = [captured EXCEPT ![k] = [first |-> n, last |-> n]]
  /\ overflow' = overflow \ {k}

CaptureNew(k, n) ==
  /\ k \notin ToSet(streams)
  /\ \E kept \in Unexpired :
       streams' = Append(IF Len(kept) >= MaxStreams THEN Tail(kept) ELSE kept, k)
  /\ captured' = [captured EXCEPT ![k] = [first |-> n, last |-> n]]
  /\ overflow' = overflow \ {k}

EmitArguments(k) ==
  /\ k \notin over
  /\ emitted[k] < MaxDeltas
  /\ emitted' = [emitted EXCEPT ![k] = @ + 1]
  /\ CaptureKnown(k, emitted[k] + 1) \/ CaptureNew(k, emitted[k] + 1)
  /\ PublishToAll(Delta(k, emitted[k] + 1))
  /\ UNCHANGED <<storeVars, over, stage, cursor, replay, clientVars>>

\* The call is complete and runs: its phase is not streaming_args any more.
RunCall(k) ==
  /\ k \notin over
  /\ emitted[k] > 0
  /\ over' = over \cup {k}
  /\ IF k \in ToSet(streams) THEN Drop(k) ELSE UNCHANGED streams
  /\ PublishToAll(Phase(k))
  /\ UNCHANGED <<storeVars, captured, overflow, emitted, stage, cursor, replay, clientVars>>

-----------------------------------------------------------------------------
(* The SSE handler of a reader: sessionEvents *)

MoveTo(r, place) == stage' = [stage EXCEPT ![r] = place]

\* With Last-Event-ID the handler resumes, without it begins at the tail.
Connect(r) ==
  /\ stage[r] = "away"
  /\ MoveTo(r, IF position[r] = 0 THEN "tail" ELSE "subscribe")
  /\ cursor' = [cursor EXCEPT ![r] = position[r]]
  /\ UNCHANGED <<storeVars, hubVars, callVars, replay, clientVars>>

ReadTail(r) ==
  /\ stage[r] = "tail"
  /\ StoreUnlocked
  /\ cursor' = [cursor EXCEPT ![r] = latest]
  /\ start' = [start EXCEPT ![r] = latest]
  /\ MoveTo(r, "subscribe")
  /\ UNCHANGED <<storeVars, hubVars, callVars, replay, position, received, heard>>

\* The streams with complete text, in any order: Hub.pageStreams is a map.
Shown(kept) ==
  {k \in ToSet(kept) : k \notin overflow}

Orders(S) ==
  {order \in UNION {[1..n -> S] : n \in 0..Len(streams)} : IsInjective(order) /\ ToSet(order) = S}

\* The channel is filled with the snapshots while the hub's mutex is held.
Subscribe(r) ==
  /\ stage[r] = "subscribe"
  /\ \E kept \in Unexpired : \E order \in Orders(Shown(kept)) :
       /\ Len(order) <= Buffer
       /\ streams' = kept
       /\ chan' = [chan EXCEPT ![r] = [i \in DOMAIN order |-> Snapshot(order[i])]]
  /\ subs' = subs \cup {r}
  /\ MoveTo(r, "backlog")
  /\ UNCHANGED <<storeVars, captured, overflow, callVars, cursor, replay, clientVars>>

\* A slip: the start of the retained window is not compared with the position.
ReadBacklogFromWindow(r) ==
  /\ stage[r] = "backlog"
  /\ StoreUnlocked
  /\ cursor' = [cursor EXCEPT ![r] = latest - Retain]
  /\ replay' = [replay EXCEPT ![r] = latest]
  /\ MoveTo(r, "stream")
  /\ UNCHANGED <<storeVars, hubVars, callVars, clientVars>>

\* EventsAfter.  Events that are deleted already are jumped over.
ReadBacklog(r) ==
  /\ stage[r] = "backlog"
  /\ StoreUnlocked
  /\ cursor' = [cursor EXCEPT ![r] = IF Deleted(@) THEN latest - Retain ELSE @]
  /\ replay' = [replay EXCEPT ![r] = latest]
  /\ MoveTo(r, "stream")
  /\ UNCHANGED <<storeVars, hubVars, callVars, clientVars>>

\* writeSSE of a lifecycle event: its seq is the id the client remembers.
Deliver(r, s) ==
  /\ cursor' = [cursor EXCEPT ![r] = s]
  /\ position' = [position EXCEPT ![r] = s]
  /\ received' = [received EXCEPT ![r] = Append(@, s)]

WriteBacklog(r) ==
  /\ stage[r] = "stream"
  /\ cursor[r] < replay[r]
  /\ Deliver(r, cursor[r] + 1)
  /\ UNCHANGED <<storeVars, hubVars, callVars, stage, replay, start, heard>>

\* A slip: live events are not compared with what the backlog has delivered.
ForwardLifecycleAlways(r, m) ==
  /\ m.kind = "lifecycle"
  /\ Deliver(r, m.seq)
  /\ UNCHANGED heard

ForwardLifecycle(r, m) ==
  /\ m.kind = "lifecycle"
  /\ \/ m.seq > cursor[r] /\ Deliver(r, m.seq)
     \/ m.seq <= cursor[r] /\ UNCHANGED <<cursor, position, received>> \* in the backlog
  /\ UNCHANGED heard

\* A snapshot replaces the arguments the client has, a delta extends them.
ForwardTransient(r, m) ==
  /\ m.kind # "lifecycle"
  /\ heard' = IF m.kind = "phase" THEN heard ELSE [heard EXCEPT ![r][m.call] = m.last]
  /\ UNCHANGED <<cursor, position, received>>

ForwardLive(r) ==
  /\ stage[r] = "stream"
  /\ cursor[r] >= replay[r]
  /\ chan[r] # <<>>
  /\ ForwardLifecycle(r, Head(chan[r])) \/ ForwardTransient(r, Head(chan[r]))
  /\ chan' = [chan EXCEPT ![r] = Tail(@)]
  /\ UNCHANGED <<storeVars, subs, pageVars, callVars, stage, replay, start>>

\* The handler returns; its subscription and its local variables are gone.
Leave(r) ==
  /\ MoveTo(r, "away")
  /\ subs' = subs \ {r}
  /\ chan' = [chan EXCEPT ![r] = <<>>]
  /\ cursor' = [cursor EXCEPT ![r] = 0]
  /\ replay' = [replay EXCEPT ![r] = 0]
  /\ heard' = [heard EXCEPT ![r] = [k \in Call |-> 0]]
  /\ UNCHANGED <<storeVars, pageVars, callVars, start, position, received>>

\* A slip: the handler keeps waiting on the closed channel.
EndOfChannelIgnored(r) ==
  /\ stage[r] = "stream"
  /\ cursor[r] >= replay[r]
  /\ chan[r] = <<>>
  /\ r \notin subs
  /\ UNCHANGED vars

\* The hub closed the channel and the handler has read it out.
EndOfChannel(r) ==
  /\ stage[r] = "stream"
  /\ cursor[r] >= replay[r]
  /\ chan[r] = <<>>
  /\ r \notin subs
  /\ Leave(r)

\* The connection breaks, or a query of the handler fails.
Disconnect(r) == stage[r] # "away" /\ Leave(r)

\* The daemon dies: committed events that were not published never will be.
Crash ==
  /\ published' = latest
  /\ subs' = {}
  /\ chan' = [r \in Reader |-> <<>>]
  /\ streams' = <<>>
  /\ over' = over \cup {k \in Call : emitted[k] > 0}
  /\ stage' = [r \in Reader |-> "away"]
  /\ cursor' = [r \in Reader |-> 0]
  /\ replay' = [r \in Reader |-> 0]
  /\ heard' = [r \in Reader |-> [k \in Call |-> 0]]
  /\ UNCHANGED <<latest, captured, overflow, emitted, start, position, received>>

-----------------------------------------------------------------------------
HandlerStep(r) ==
  ReadTail(r) \/ Subscribe(r) \/ ReadBacklog(r) \/ WriteBacklog(r) \/ ForwardLive(r) \/ EndOfChannel(r)

Publication == \E endsTurn \in BOOLEAN : PublishCommitted(endsTurn)

Next ==
  \/ \E n \in 1..MaxSeq : Commit(n)
  \/ Publication
  \/ \E k \in Call : EmitArguments(k) \/ RunCall(k)
  \/ \E r \in Reader : Connect(r) \/ HandlerStep(r) \/ Disconnect(r)
  \/ Crash

Spec == Init /\ [][Next]_vars

\* The transaction goes on to its end and the runtime schedules the handlers;
\* a client that is connected reads.  No fairness for anything else.
FairSpec ==
  /\ Spec
  /\ WF_vars(Publication)
  /\ \A r \in Reader : WF_vars(HandlerStep(r))

-----------------------------------------------------------------------------
(* Properties *)

\* A reader receives lifecycle events in the order of their numbers and none
\* twice, over any number of connections.
StreamInOrder ==
  \A r \in Reader : \A i, j \in DOMAIN received[r] : i < j => received[r][i] < received[r][j]

\* A reader misses no lifecycle event between where it started and what it
\* received last, unless retention had deleted the event: nothing is lost
\* between backlog and live events, by a full channel, a reconnection or a crash.
StreamComplete ==
  \A r \in Reader : \A s \in 1..latest :
    start[r] < s /\ s <= position[r] => s \in ToSet(received[r]) \/ Deleted(s)

\* A snapshot and the deltas after it continue each other without gap or repeat, from the
\* delta with which the text of the snapshot begins.  (That is not the call's first when the
\* text was dropped meanwhile: SnapshotsAreWhole.)
SnapshotsJoinDeltas ==
  \A r \in Reader : \A i \in DOMAIN chan[r] : chan[r][i].kind = "delta" =>
    LET k == chan[r][i].call
        before == {j \in 1..i-1 : chan[r][j].call = k}
        known == IF before = {} THEN heard[r][k]
                 ELSE chan[r][CHOOSE j \in before : \A h \in before : h <= j].last
    IN known # 0 => chan[r][i].first = known + 1

\* Subscribe can send its snapshots without blocking all of the hub.
SnapshotsFit == \A order \in Orders(Shown(streams)) : Len(order) <= Buffer

\* A snapshot holds all the arguments of its call, as it replaces what clients have.
SnapshotsAreWhole ==
  \A r \in Reader : \A i \in DOMAIN chan[r] : chan[r][i].kind = "snapshot" => chan[r][i].first = 1

\* A reader that stays connected gets every event committed after its start.
StreamDelivers ==
  \A r \in Reader : \A s \in 1..MaxSeq :
    stage[r] \in {"backlog", "stream"} /\ start[r] < s /\ s <= latest
      ~> s \in ToSet(received[r]) \/ stage[r] = "away" \/ Deleted(s)
=============================================================================
