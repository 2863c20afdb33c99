----------------------------- MODULE LogStream -----------------------------
(***************************************************************************)
(* Log streaming over one agent connection: the gRPC StreamLogs call       *)
(* (internal/agentSvc/grpc.go), the subscription and its bounded channel   *)
(* (SubscribeLogs, HandleLogChunk, UnsubscribeLogs in registry.go), and    *)
(* the agent's handleLogs goroutine (internal/agent/handler.go).           *)
(*                                                                         *)
(* Several streams share the connection.  Of SendCommand only what matters *)
(* here is kept: the command reaches the agent or not (AgentLink has the   *)
(* rest); its result is not used by StreamLogs.  A chunk is its position   *)
(* in the output of its command, its text is left out.                     *)
(***************************************************************************)
EXTENDS Naturals, Sequences

CONSTANTS Streams,  \* the log streams, named by their command ids
          Lines,    \* bound on the lines an agent reads for one stream
          Cap,      \* capacity of a subscription's channel (100 in the code)
          None

ASSUME LogAssumption == Lines \in Nat /\ Cap \in Nat \ {0}

VARIABLES
  reader,   \* where StreamLogs is
  reason,   \* how its loop ended: "done", "error" or "none" before that
  logSubs,  \* AgentConn.logSubs: the streams that have an entry
  closed,   \* the streams whose channel was closed
  buf,      \* the channel of a stream
  handler,  \* the WebSocket handler: "serving", "panicked" or "gone"
  found,    \* the chunk whose channel the handler has looked up, or None
  up,       \* chunks under way from the agent
  live,     \* is the connection up
  command,  \* the logs command: "none", "sent" by the goroutine, "arrived"
  logger,   \* handleLogs: "none", "reading", "finished"
  count,    \* lines it has sent
  out       \* chunks forwarded to the gRPC client

srvVars == <<reader, reason, logSubs, closed, buf, handler, found, out>>
agtVars == <<command, logger, count>>
vars    == <<srvVars, agtVars, up, live>>

\* Chunk 1, 2, ... of a stream; the Done chunk follows the last line.
Chunk == [id : Streams, pos : 1..Lines + 1, done : BOOLEAN]
ASSUME NoneAssumption == None \notin Chunk

Init ==
  /\ reader = [s \in Streams |-> "idle"]
  /\ reason = [s \in Streams |-> "none"]
  /\ logSubs = {} /\ closed = {}
  /\ buf = [s \in Streams |-> <<>>]
  /\ handler = "serving" /\ found = None
  /\ up = <<>> /\ live = TRUE
  /\ command = [s \in Streams |-> "none"]
  /\ logger = [s \in Streams |-> "none"]
  /\ count = [s \in Streams |-> 0]
  /\ out = [s \in Streams |-> <<>>]

-----------------------------------------------------------------------------
(* Faulty variants, used only to show that the properties see them.        *)

\* Chunks are looked up by a goroutine each, in any order.
LookupAnyChunk ==
  /\ handler = "serving" /\ found = None
  /\ \E i \in 1..Len(up) :
       /\ found' = IF up[i].id \in logSubs THEN up[i] ELSE None
       /\ up' = SubSeq(up, 1, i - 1) \o SubSeq(up, i + 1, Len(up))
  /\ UNCHANGED <<reader, reason, logSubs, closed, buf, handler, out, agtVars, live>>

\* The entry stays in logSubs.
UnsubscribeForgotten(s) ==
  /\ reader[s] = "leaving"
  /\ reader' = [reader EXCEPT ![s] = "closing"]
  /\ UNCHANGED <<reason, logSubs, closed, buf, handler, found, out, agtVars, up, live>>

\* handleLogs closes the stream before it sends the last line.
EmitDoneEarly(s) ==
  /\ logger[s] = "reading"
  /\ logger' = IF count[s] < Lines THEN logger ELSE [logger EXCEPT ![s] = "finished"]
  /\ count' = IF count[s] < Lines THEN [count EXCEPT ![s] = @ + 1] ELSE count
  /\ up' = IF live
           THEN Append(up, [id |-> s, pos |-> count[s] + 1, done |-> TRUE]) ELSE up
  /\ UNCHANGED <<srvVars, command, live>>

\* The loop does not look at Done.
ForwardPastDone(s) ==
  /\ reader[s] = "reading" /\ buf[s] # <<>>
  /\ out' = [out EXCEPT ![s] = Append(@, Head(buf[s]))]
  /\ buf' = [buf EXCEPT ![s] = Tail(@)]
  /\ UNCHANGED <<reader, reason, logSubs, closed, handler, found, agtVars, up, live>>

-----------------------------------------------------------------------------
(* StreamLogs.                                                             *)

\* The call finds the connection and starts SendCommand in a goroutine; it
\* subscribes only afterwards.
Call(s) ==
  /\ reader[s] = "idle"
  /\ reader' = [reader EXCEPT ![s] = "called"]
  /\ command' = [command EXCEPT ![s] = "sent"]
  /\ UNCHANGED <<reason, logSubs, closed, buf, handler, found, out, logger, count,
                 up, live>>

Subscribe(s) ==
  /\ reader[s] = "called"
  /\ reader' = [reader EXCEPT ![s] = "reading"]
  /\ logSubs' = logSubs \cup {s}
  /\ UNCHANGED <<reason, closed, buf, handler, found, out, agtVars, up, live>>

\* The loop receives a chunk and sends it to the client; Done ends it.
Forward(s) ==
  /\ reader[s] = "reading" /\ buf[s] # <<>>
  /\ out' = [out EXCEPT ![s] = Append(@, Head(buf[s]))]
  /\ buf' = [buf EXCEPT ![s] = Tail(@)]
  /\ IF Head(buf[s]).done
     THEN /\ reader' = [reader EXCEPT ![s] = "leaving"]
          /\ reason' = [reason EXCEPT ![s] = "done"]
     ELSE UNCHANGED <<reader, reason>>
  /\ UNCHANGED <<logSubs, closed, handler, found, agtVars, up, live>>

\* stream.Send fails: the client has gone away.
ForwardFails(s) ==
  /\ reader[s] = "reading" /\ buf[s] # <<>>
  /\ buf' = [buf EXCEPT ![s] = Tail(@)]
  /\ reader' = [reader EXCEPT ![s] = "leaving"]
  /\ reason' = [reason EXCEPT ![s] = "error"]
  /\ UNCHANGED <<logSubs, closed, handler, found, out, agtVars, up, live>>

\* The deferred UnsubscribeLogs deletes the entry under the lock ...
Unsubscribe(s) ==
  /\ reader[s] = "leaving"
  /\ reader' = [reader EXCEPT ![s] = "closing"]
  /\ logSubs' = logSubs \ {s}
  /\ UNCHANGED <<reason, closed, buf, handler, found, out, agtVars, up, live>>

\* ... and closes the channel outside it.
CloseChannel(s) ==
  /\ reader[s] = "closing"
  /\ reader' = [reader EXCEPT ![s] = "ended"]
  /\ closed' = closed \cup {s}
  /\ UNCHANGED <<reason, logSubs, buf, handler, found, out, agtVars, up, live>>

-----------------------------------------------------------------------------
(* HandleLogChunk, called from the read loop.                              *)

LookupChunk ==
  /\ handler = "serving" /\ found = None /\ up # <<>>
  /\ found' = IF Head(up).id \in logSubs THEN Head(up) ELSE None
  /\ up' = Tail(up)
  /\ UNCHANGED <<reader, reason, logSubs, closed, buf, handler, out, agtVars, live>>

\* The send does not wait: a full channel drops the chunk.
SendChunk ==
  /\ found # None /\ found.id \notin closed
  /\ buf' = IF Len(buf[found.id]) < Cap
            THEN [buf EXCEPT ![found.id] = Append(@, found)] ELSE buf
  /\ found' = None
  /\ UNCHANGED <<reader, reason, logSubs, closed, handler, out, agtVars, up, live>>

\* A send on a closed channel panics; net/http recovers it, but the handler's
\* deferred calls unregister the agent and close the connection.
SendPanics ==
  /\ found # None /\ found.id \in closed
  /\ handler' = "panicked"
  /\ found' = None
  /\ live' = FALSE
  /\ UNCHANGED <<reader, reason, logSubs, closed, buf, out, agtVars, up>>

HandlerExits ==
  /\ handler = "serving" /\ found = None /\ ~live
  /\ handler' = "gone"
  /\ UNCHANGED <<reader, reason, logSubs, closed, buf, found, out, agtVars, up, live>>

-----------------------------------------------------------------------------
(* The agent.                                                              *)

\* The command arrives and handleLogs opens the container's log.
Arrive(s) ==
  /\ command[s] = "sent" /\ live
  /\ command' = [command EXCEPT ![s] = "arrived"]
  /\ logger' = [logger EXCEPT ![s] = "reading"]
  /\ UNCHANGED <<srvVars, count, up, live>>

Emit(s, done) ==
  up' = IF live
        THEN Append(up, [id |-> s, pos |-> count[s] + 1, done |-> done]) ELSE up

EmitLine(s) ==
  /\ logger[s] = "reading" /\ count[s] < Lines
  /\ Emit(s, FALSE)
  /\ count' = [count EXCEPT ![s] = @ + 1]
  /\ UNCHANGED <<srvVars, command, logger, live>>

EmitDone(s) ==
  /\ logger[s] = "reading"
  /\ Emit(s, TRUE)
  /\ logger' = [logger EXCEPT ![s] = "finished"]
  /\ UNCHANGED <<srvVars, command, count, live>>

\* The log cannot be opened: the goroutine returns a result and no chunk.
OpenFails(s) ==
  /\ logger[s] = "reading" /\ count[s] = 0
  /\ logger' = [logger EXCEPT ![s] = "finished"]
  /\ UNCHANGED <<srvVars, command, count, up, live>>

Disconnect ==
  /\ live
  /\ live' = FALSE
  /\ UNCHANGED <<srvVars, agtVars, up>>

Next ==
  \/ \E s \in Streams :
       \/ Call(s) \/ Subscribe(s) \/ Forward(s) \/ ForwardFails(s)
       \/ Unsubscribe(s) \/ CloseChannel(s)
       \/ Arrive(s) \/ EmitLine(s) \/ EmitDone(s) \/ OpenFails(s)
  \/ LookupChunk \/ SendChunk \/ SendPanics \/ HandlerExits \/ Disconnect

Fairness == \A s \in Streams :
  WF_vars(Forward(s)) /\ WF_vars(Unsubscribe(s)) /\ WF_vars(CloseChannel(s))

Safety == Init /\ [][Next]_vars
Spec   == Safety /\ Fairness

-----------------------------------------------------------------------------
(* Properties.                                                             *)

\* Every variable has its type; no channel exceeds its capacity.
TypeOK ==
  /\ reader \in [Streams -> {"idle", "called", "reading", "leaving", "closing", "ended"}]
  /\ reason \in [Streams -> {"none", "done", "error"}]
  /\ logSubs \subseteq Streams /\ closed \subseteq Streams
  /\ buf \in [Streams -> Seq(Chunk)]
  /\ \A s \in Streams : Len(buf[s]) <= Cap
  /\ handler \in {"serving", "panicked", "gone"}
  /\ found \in Chunk \cup {None}
  /\ up \in Seq(Chunk) /\ live \in BOOLEAN
  /\ command \in [Streams -> {"none", "sent", "arrived"}]
  /\ logger \in [Streams -> {"none", "reading", "finished"}]
  /\ count \in [Streams -> 0..Lines]
  /\ out \in [Streams -> Seq(Chunk)]

\* A client sees only chunks of its own stream, in the order in which the
\* agent read them and each at most once, and nothing after Done.
InOrder ==
  \A s \in Streams : \A i \in 1..Len(out[s]) :
    /\ out[s][i].id = s
    /\ i < Len(out[s]) => out[s][i].pos < out[s][i + 1].pos /\ ~out[s][i].done

\* Chunks are missing at the front of a stream, those handled before the
\* subscription existed; a gap further on needs a full channel, so at least Cap
\* chunks come before it.
GapNeedsFullChannel ==
  \A s \in Streams : \A i \in 1..Len(out[s]) - 1 :
    out[s][i + 1].pos # out[s][i].pos + 1 => i >= Cap

\* The read loop is brought down by a log chunk only if some client went away
\* in the middle of its stream; a stream that ends with Done never does it.
PanicNeedsAbandonedStream ==
  handler = "panicked" => \E s \in closed : reason[s] = "error"

\* A subscription exists exactly while its StreamLogs call reads or is about
\* to run its deferred call: ended streams leave nothing behind.
SubscriptionsExact ==
  \A s \in Streams : s \in logSubs <=> reader[s] \in {"reading", "leaving"}

\* A stream whose Done chunk got into its channel comes to its end.
DoneEndsStream ==
  \A s \in Streams :
    (\E i \in 1..Len(buf[s]) : buf[s][i].done) ~> reader[s] = "ended"
=============================================================================
