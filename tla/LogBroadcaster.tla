--------------------------- MODULE LogBroadcaster ---------------------------
(***************************************************************************)
(* config.Broadcaster (src/config/config.go) and the two kinds of stream   *)
(* that listen to it: StreamLogsSSE (src/endpoints/handlers.go) and the    *)
(* gRPC StreamLogs (src/grpc/grpc.go).                                     *)
(*                                                                         *)
(* One hub goroutine owns the set of listeners.  Log calls hand it lines   *)
(* through a buffered channel and never wait; every stream has a buffered  *)
(* channel of its own, made by Register and closed by the hub.  A line is  *)
(* the number of the Write that made it.                                   *)
(***************************************************************************)
EXTENDS Naturals, Sequences

CONSTANTS Sse, Grpc,    \* the connections of either kind, each used once
          QueueCap,     \* capacity of messages (100 in the code)
          ListenCap,    \* capacity of a listener's channel (50)
          MaxMsg        \* bound: log lines written

Streams == Sse \union Grpc

ASSUME KindsAssumption == Sse \intersect Grpc = {}
ASSUME CapacityAssumption == /\ QueueCap \in Nat \ {0} /\ ListenCap \in Nat \ {0}
                             /\ MaxMsg \in Nat

VARIABLES written,    \* number of the last line written
          queue,      \* Broadcaster.messages
          dropped,    \* lines Write found no room for
          listeners,  \* Broadcaster.listeners
          cur, todo,  \* the line being fanned out, the listeners still to visit
          st,         \* where each stream's handler is
          gone,       \* streams whose client has disconnected
          buf,        \* each stream's channel
          closed,     \* channels closed by the hub
          last,       \* the last line each stream took from its channel
          missed      \* streams for which the hub skipped a line

vars == <<written, queue, dropped, listeners, cur, todo, st, gone, buf, closed, last, missed>>

Msgs == 1 .. MaxMsg

TypeOK ==
  /\ written \in 0 .. MaxMsg
  /\ queue \in Seq(Msgs) /\ Len(queue) <= QueueCap
  /\ dropped \subseteq Msgs
  /\ listeners \subseteq Streams
  /\ cur \in 0 .. MaxMsg /\ todo \subseteq Streams
  /\ st \in [Streams -> {"new", "registering", "reading", "sending", "leaving", "gone"}]
  /\ gone \subseteq Streams
  /\ buf \in [Streams -> Seq(Msgs)] /\ \A s \in Streams : Len(buf[s]) <= ListenCap
  /\ closed \subseteq Streams
  /\ last \in [Streams -> 0 .. MaxMsg]
  /\ missed \subseteq Streams

Init ==
  /\ written = 0 /\ queue = <<>> /\ dropped = {}
  /\ listeners = {} /\ cur = 0 /\ todo = {}
  /\ st = [s \in Streams |-> "new"] /\ gone = {}
  /\ buf = [s \in Streams |-> <<>>] /\ closed = {}
  /\ last = [s \in Streams |-> 0] /\ missed = {}

-----------------------------------------------------------------------------
(* Write, called by every log statement of the daemon: it never blocks. *)

Enqueue(n) ==
  /\ written' = n
  /\ IF Len(queue) < QueueCap
       THEN queue' = Append(queue, n) /\ UNCHANGED dropped
       ELSE dropped' = dropped \union {n} /\ UNCHANGED queue
  /\ UNCHANGED <<listeners, cur, todo, st, gone, buf, closed, last, missed>>

Write == written < MaxMsg /\ Enqueue(written + 1)

-----------------------------------------------------------------------------
(* The hub: one select loop.  While it fans a line out it takes nothing     *)
(* else, but the streams go on reading.                                     *)

InSelect == todo = {}

HubRegister(s) ==
  /\ InSelect /\ st[s] = "registering"
  /\ listeners' = listeners \union {s}
  /\ st' = [st EXCEPT ![s] = "reading"]
  /\ UNCHANGED <<written, queue, dropped, cur, todo, gone, buf, closed, last, missed>>

(* Mutant: the channel closed but left in the map. *)
StillListed(s) == listeners

Unlisted(s) == listeners \ {s}

HubDeregister(s) ==
  /\ InSelect /\ st[s] = "leaving"
  /\ listeners' = Unlisted(s)
  /\ closed' = closed \union {s}
  /\ st' = [st EXCEPT ![s] = "gone"]
  /\ UNCHANGED <<written, queue, dropped, cur, todo, gone, buf, last, missed>>

HubTake ==
  /\ InSelect /\ queue # <<>>
  /\ cur' = Head(queue)
  /\ queue' = Tail(queue)
  /\ todo' = listeners
  /\ UNCHANGED <<written, dropped, listeners, st, gone, buf, closed, last, missed>>

Fits(s) == Len(buf[s]) < ListenCap

(* Mutant: a break that leaves the range over the listeners at a full one. *)
StopAtFull(s) == IF Fits(s) THEN todo \ {s} ELSE {}

StillToVisit(s) == todo \ {s}

(* Mutant: the send without its default case. *)
BlockingSend(s) ==
  /\ s \in todo /\ Fits(s)
  /\ todo' = StillToVisit(s)
  /\ buf' = [buf EXCEPT ![s] = Append(@, cur)]
  /\ UNCHANGED <<written, queue, dropped, listeners, cur, st, gone, closed, last, missed>>

(* Mutant: a line that does not fit is put back on the queue, to be retried. *)
RequeueingSend(s) ==
  /\ s \in todo
  /\ todo' = StillToVisit(s)
  /\ IF Fits(s)
       THEN buf' = [buf EXCEPT ![s] = Append(@, cur)] /\ UNCHANGED queue
       ELSE /\ queue' = IF Len(queue) < QueueCap THEN Append(queue, cur) ELSE queue
            /\ UNCHANGED buf
  /\ UNCHANGED <<written, dropped, listeners, cur, st, gone, closed, last, missed>>

(* The map is ranged over in no particular order; a full channel is skipped. *)
HubSend(s) ==
  /\ s \in todo
  /\ todo' = StillToVisit(s)
  /\ IF Fits(s)
       THEN buf' = [buf EXCEPT ![s] = Append(@, cur)] /\ UNCHANGED missed
       ELSE missed' = missed \union {s} /\ UNCHANGED buf
  /\ UNCHANGED <<written, queue, dropped, listeners, cur, st, gone, closed, last>>

-----------------------------------------------------------------------------
(* The streams. *)

Moves(s, to) == st' = [st EXCEPT ![s] = to]

Connect(s) ==
  /\ st[s] = "new"
  /\ Moves(s, "registering")
  /\ UNCHANGED <<written, queue, dropped, listeners, cur, todo, gone, buf, closed, last, missed>>

Disconnect(s) ==
  /\ st[s] \in {"registering", "reading", "sending"} /\ s \notin gone
  /\ gone' = gone \union {s}
  /\ UNCHANGED <<written, queue, dropped, listeners, cur, todo, st, buf, closed, last, missed>>

(* One of the two ready cases of the handler's select ... *)
Read(s) ==
  /\ st[s] = "reading" /\ buf[s] # <<>>
  /\ last' = [last EXCEPT ![s] = Head(buf[s])]
  /\ buf' = [buf EXCEPT ![s] = Tail(@)]
  /\ Moves(s, "sending")
  /\ UNCHANGED <<written, queue, dropped, listeners, cur, todo, gone, closed, missed>>

(* ... and the other; the deferred Deregister follows. *)
Leave(s) ==
  /\ st[s] = "reading" /\ s \in gone
  /\ Moves(s, "leaving")
  /\ UNCHANGED <<written, queue, dropped, listeners, cur, todo, gone, buf, closed, last, missed>>

(* A send may wait as long as the client likes; it fails once the client is *)
(* gone, which ends a gRPC stream at once and leaves SSE to its next select.*)
SendOk(s) ==
  /\ st[s] = "sending" /\ s \notin gone
  /\ Moves(s, "reading")
  /\ UNCHANGED <<written, queue, dropped, listeners, cur, todo, gone, buf, closed, last, missed>>

SendFails(s) ==
  /\ st[s] = "sending" /\ s \in gone
  /\ Moves(s, IF s \in Grpc THEN "leaving" ELSE "reading")
  /\ UNCHANGED <<written, queue, dropped, listeners, cur, todo, gone, buf, closed, last, missed>>

Hub(s) == HubRegister(s) \/ HubDeregister(s) \/ HubSend(s)

Stream(s) == Connect(s) \/ Disconnect(s) \/ Read(s) \/ Leave(s) \/ SendOk(s) \/ SendFails(s)

Next == Write \/ HubTake \/ \E s \in Streams : Hub(s) \/ Stream(s)

Spec == Init /\ [][Next]_vars

(* select picks among its ready cases at random, and the streams waiting to *)
(* hand over a channel queue in order: strong fairness for each.  A failing *)
(* send returns.  Nothing is assumed of clients: SendOk may never happen.   *)
Fairness ==
  /\ SF_vars(HubTake)
  /\ \A s \in Streams : /\ SF_vars(HubRegister(s)) /\ SF_vars(HubDeregister(s))
                        /\ WF_vars(HubSend(s))
                        /\ SF_vars(Leave(s)) /\ WF_vars(SendFails(s))

-----------------------------------------------------------------------------
(* Properties. *)

(* The hub never sends on a closed channel nor closes one twice, either of  *)
(* which would panic the daemon: a closed channel is no listener's, is not  *)
(* to be visited, and its stream is past its loop (config.go:132-149).      *)
ClosedIsForgotten ==
  \A s \in closed : s \notin listeners \union todo /\ st[s] = "gone"

(* The lines on their way to stream s, the oldest first, after the last it  *)
(* took.                                                                    *)
OnTheWay(s) ==
  (IF last[s] = 0 THEN <<>> ELSE <<last[s]>>) \o buf[s]
    \o (IF s \in todo THEN <<cur>> ELSE <<>>) \o queue

(* A stream sees lines in the order they were written, and none twice,      *)
(* wherever it joined and whatever was skipped (config.go:132-168).         *)
InOrder ==
  \A s \in listeners : \A i, j \in DOMAIN OnTheWay(s) :
    i < j => OnTheWay(s)[i] < OnTheWay(s)[j]

(* A listener for which the hub skipped nothing has no gap: a line missing  *)
(* between two it gets was already refused by Write (config.go:140-158).    *)
NoSilentGap ==
  \A s \in listeners \ missed : \A i \in 1 .. Len(OnTheWay(s)) - 1 :
    (OnTheWay(s)[i] + 1) .. (OnTheWay(s)[i + 1] - 1) \subseteq dropped

(* Register returns, however busy the log and however slow the other        *)
(* clients (config.go:160-164).                                             *)
RegisterReturns == \A s \in Streams : (st[s] = "registering") ~> (st[s] # "registering")

(* The channel of a client that left is given up and closed: no leak of a   *)
(* listener or of a blocked Deregister (handlers.go:139-157, grpc.go:21-46).*)
GoneIsClosed == \A s \in Streams : (s \in gone) ~> (s \in closed)

(* A full queue does not stay full behind a client that reads nothing.      *)
QueueDrains == (Len(queue) = QueueCap) ~> (Len(queue) < QueueCap)
=============================================================================
