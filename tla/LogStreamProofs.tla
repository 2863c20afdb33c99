--------------------------- MODULE LogStreamProofs ---------------------------
(***************************************************************************)
(* What holds of log streaming for any streams, any length of a log and    *)
(* any capacity of a channel: its types, that subscriptions end with their *)
(* calls, that a client sees its stream in order, that gaps need a full    *)
(* channel, and that only an abandoned stream can panic the handler.       *)
(***************************************************************************)
EXTENDS LogStream, TLAPS

-----------------------------------------------------------------------------
(* Queues of chunks.                                                       *)

Members(q) == {q[i] : i \in 1 .. Len(q)}

(* Of one stream, x was sent before y, and nothing follows a last chunk.   *)
Before(x, y) == x.id = y.id => x.pos < y.pos /\ ~x.done

Ordered(q) == \A i, j \in 1 .. Len(q) : i < j => Before(q[i], q[j])

LEMMA PutQueue ==
  ASSUME NEW S, NEW q \in Seq(S), NEW x \in S
  PROVE  /\ Append(q, x) \in Seq(S) /\ Len(Append(q, x)) = Len(q) + 1
         /\ Append(q, x)[Len(q) + 1] = x
         /\ \A i \in 1 .. Len(q) : Append(q, x)[i] = q[i]
         /\ Members(Append(q, x)) = Members(q) \cup {x}
         /\ Ordered(q) /\ (\A y \in Members(q) : Before(y, x)) => Ordered(Append(q, x))
<1>1. Len(Append(q, x)) = Len(q) + 1 /\ Len(q) \in Nat
  OBVIOUS
<1>2. Append(q, x)[Len(q) + 1] = x /\ \A i \in 1 .. Len(q) : Append(q, x)[i] = q[i]
  OBVIOUS
<1>3. Members(Append(q, x)) = Members(q) \cup {x}
  <2>1. ASSUME NEW y, y \in Members(Append(q, x)) PROVE y \in Members(q) \cup {x}
    <3>1. PICK i \in 1 .. Len(q) + 1 : y = Append(q, x)[i]
      BY <2>1, <1>1 DEF Members
    <3>2. i \in 1 .. Len(q) \/ i = Len(q) + 1
      BY <1>1
    <3> QED
      BY <3>1, <3>2, <1>2 DEF Members
  <2>2. ASSUME NEW y, y \in Members(q) PROVE y \in Members(Append(q, x))
    <3>1. PICK i \in 1 .. Len(q) : y = q[i]
      BY <2>2 DEF Members
    <3>2. i \in 1 .. Len(q) + 1 /\ y = Append(q, x)[i]
      BY <3>1, <1>1, <1>2
    <3> QED
      BY <3>2, <1>1 DEF Members
  <2>3. x \in Members(Append(q, x))
    <3>1. Len(q) + 1 \in 1 .. Len(q) + 1
      BY <1>1
    <3> QED
      BY <3>1, <1>1, <1>2 DEF Members
  <2> QED
    BY <2>1, <2>2, <2>3
<1>4. ASSUME Ordered(q), \A y \in Members(q) : Before(y, x) PROVE Ordered(Append(q, x))
  <2> SUFFICES ASSUME NEW i \in 1 .. Len(q) + 1, NEW j \in 1 .. Len(q) + 1, i < j
               PROVE  Before(Append(q, x)[i], Append(q, x)[j])
    BY <1>1 DEF Ordered
  <2>1. i \in 1 .. Len(q) /\ (j \in 1 .. Len(q) \/ j = Len(q) + 1)
    BY <1>1
  <2> QED
    BY <2>1, <1>2, <1>4 DEF Ordered, Members
<1> QED
  BY <1>1, <1>2, <1>3, <1>4

LEMMA GetQueue ==
  ASSUME NEW S, NEW q \in Seq(S), q # <<>>
  PROVE  /\ Head(q) \in S /\ Tail(q) \in Seq(S) /\ Len(Tail(q)) = Len(q) - 1 /\ Len(q) > 0
         /\ Head(q) = q[1] /\ \A i \in 1 .. Len(q) - 1 : Tail(q)[i] = q[i + 1]
         /\ Members(q) = Members(Tail(q)) \cup {Head(q)}
         /\ Ordered(q) => Ordered(Tail(q)) /\ \A y \in Members(Tail(q)) : Before(Head(q), y)
<1>1. /\ Head(q) \in S /\ Tail(q) \in Seq(S)
      /\ Len(Tail(q)) = Len(q) - 1 /\ Len(q) \in Nat /\ Len(q) > 0 /\ Head(q) = q[1]
  OBVIOUS
<1>2. \A i \in 1 .. Len(q) - 1 : Tail(q)[i] = q[i + 1]
  OBVIOUS
<1>3. Members(q) = Members(Tail(q)) \cup {Head(q)}
  <2>1. ASSUME NEW y, y \in Members(q) PROVE y \in Members(Tail(q)) \cup {Head(q)}
    <3>1. PICK i \in 1 .. Len(q) : y = q[i]
      BY <2>1 DEF Members
    <3>2. CASE i = 1
      BY <3>1, <3>2, <1>1
    <3>3. CASE i # 1
      <4>1. i - 1 \in 1 .. Len(q) - 1 /\ (i - 1) + 1 = i
        BY <3>3, <1>1
      <4>2. Tail(q)[i - 1] = y
        BY <4>1, <3>1, <1>2
      <4> QED
        BY <4>1, <4>2, <1>1 DEF Members
    <3> QED
      BY <3>2, <3>3
  <2>2. ASSUME NEW y, y \in Members(Tail(q)) PROVE y \in Members(q)
    <3>1. PICK i \in 1 .. Len(q) - 1 : y = Tail(q)[i]
      BY <2>2, <1>1 DEF Members
    <3>2. i + 1 \in 1 .. Len(q) /\ y = q[i + 1]
      BY <3>1, <1>1, <1>2
    <3> QED
      BY <3>2 DEF Members
  <2>3. Head(q) \in Members(q)
    <3>1. 1 \in 1 .. Len(q)
      BY <1>1
    <3> QED
      BY <3>1, <1>1 DEF Members
  <2> QED
    BY <2>1, <2>2, <2>3
<1>4. ASSUME Ordered(q) PROVE Ordered(Tail(q)) /\ \A y \in Members(Tail(q)) : Before(Head(q), y)
  <2>1. \A i \in 1 .. Len(q) - 1 : i + 1 \in 1 .. Len(q) /\ 1 \in 1 .. Len(q) /\ 1 < i + 1
    BY <1>1
  <2>2. \A i, j \in 1 .. Len(q) - 1 : i < j => i + 1 < j + 1
    BY <1>1
  <2>3. Ordered(Tail(q))
    BY <2>1, <2>2, <1>1, <1>2, <1>4 DEF Ordered
  <2>4. \A i \in 1 .. Len(q) - 1 : Before(Head(q), Tail(q)[i])
    BY <2>1, <1>1, <1>2, <1>4 DEF Ordered
  <2> QED
    BY <2>3, <2>4, <1>1 DEF Members
<1> QED
  BY <1>1, <1>2, <1>3, <1>4

-----------------------------------------------------------------------------
(* Types.                                                                  *)

(* A chunk that is emitted. *)
LEMMA ChunkOK ==
  ASSUME NEW s \in Streams, NEW n \in 0 .. Lines, NEW d \in BOOLEAN
  PROVE  [id |-> s, pos |-> n + 1, done |-> d] \in Chunk
<1>1. n + 1 \in 1 .. Lines + 1
  BY LogAssumption
<1> QED
  BY <1>1 DEF Chunk

LEMMA EmitOK ==
  ASSUME TypeOK, NEW s \in Streams, NEW d \in BOOLEAN, Emit(s, d)
  PROVE  /\ up' \in Seq(Chunk)
         /\ [id |-> s, pos |-> count[s] + 1, done |-> d] \in Chunk
<1>1. count[s] \in 0 .. Lines /\ up \in Seq(Chunk)
  BY DEF TypeOK
<1> DEFINE x == [id |-> s, pos |-> count[s] + 1, done |-> d]
<1>2. x \in Chunk
  BY <1>1, ChunkOK
<1>3. Append(up, x) \in Seq(Chunk)
  BY <1>1, <1>2, PutQueue
<1> QED
  BY <1>1, <1>2, <1>3 DEF Emit

(* The reader takes the first chunk of its channel. *)
LEMMA TakeOK ==
  ASSUME TypeOK, NEW s \in Streams, buf[s] # <<>>, buf' = [buf EXCEPT ![s] = Tail(@)]
  PROVE  /\ Head(buf[s]) \in Chunk
         /\ buf' \in [Streams -> Seq(Chunk)] /\ \A t \in Streams : Len(buf'[t]) <= Cap
<1>1. buf[s] \in Seq(Chunk) /\ Len(buf[s]) <= Cap /\ Cap \in Nat
  BY LogAssumption DEF TypeOK
<1>2. /\ Head(buf[s]) \in Chunk /\ Tail(buf[s]) \in Seq(Chunk)
      /\ Len(Tail(buf[s])) = Len(buf[s]) - 1 /\ Len(buf[s]) \in Nat
  BY <1>1, GetQueue
<1>3. Len(Tail(buf[s])) <= Cap
  BY <1>1, <1>2
<1> QED
  BY <1>2, <1>3 DEF TypeOK

LEMMA TypeStep == TypeOK /\ [Next]_vars => TypeOK'
<1> SUFFICES ASSUME TypeOK, [Next]_vars PROVE TypeOK'
  OBVIOUS
<1> USE DEF TypeOK, srvVars, agtVars
<1>1. ASSUME NEW s \in Streams, Call(s) PROVE TypeOK'
  BY <1>1 DEF Call
<1>2. ASSUME NEW s \in Streams, Subscribe(s) PROVE TypeOK'
  BY <1>2 DEF Subscribe
<1>3. ASSUME NEW s \in Streams, Forward(s) PROVE TypeOK'
  <2>1. /\ Head(buf[s]) \in Chunk
        /\ buf' \in [Streams -> Seq(Chunk)] /\ \A t \in Streams : Len(buf'[t]) <= Cap
    BY <1>3, TakeOK DEF Forward
  <2>2. Append(out[s], Head(buf[s])) \in Seq(Chunk)
    BY <2>1, PutQueue
  <2> QED
    BY <1>3, <2>1, <2>2 DEF Forward
<1>4. ASSUME NEW s \in Streams, ForwardFails(s) PROVE TypeOK'
  BY <1>4, TakeOK DEF ForwardFails
<1>5. ASSUME NEW s \in Streams, Unsubscribe(s) PROVE TypeOK'
  BY <1>5 DEF Unsubscribe
<1>6. ASSUME NEW s \in Streams, CloseChannel(s) PROVE TypeOK'
  BY <1>6 DEF CloseChannel
<1>7. ASSUME NEW s \in Streams, Arrive(s) PROVE TypeOK'
  BY <1>7 DEF Arrive
<1>8. ASSUME NEW s \in Streams, EmitLine(s) PROVE TypeOK'
  <2>1. count' \in [Streams -> 0 .. Lines]
    BY <1>8, LogAssumption DEF EmitLine
  <2> QED
    BY <1>8, <2>1, EmitOK DEF EmitLine
<1>9. ASSUME NEW s \in Streams, EmitDone(s) PROVE TypeOK'
  BY <1>9, EmitOK DEF EmitDone
<1>10. ASSUME NEW s \in Streams, OpenFails(s) PROVE TypeOK'
  BY <1>10 DEF OpenFails
<1>11. CASE LookupChunk
  <2>1. Head(up) \in Chunk /\ Tail(up) \in Seq(Chunk)
    BY <1>11, GetQueue DEF LookupChunk
  <2> QED
    BY <1>11, <2>1 DEF LookupChunk
<1>12. CASE SendChunk
  <2>1. found \in Chunk /\ found.id \in Streams
    BY <1>12 DEF SendChunk, Chunk
  <2>2. buf[found.id] \in Seq(Chunk) /\ Len(buf[found.id]) \in Nat
    BY <2>1
  <2>3. /\ Append(buf[found.id], found) \in Seq(Chunk)
        /\ Len(Append(buf[found.id], found)) = Len(buf[found.id]) + 1
    BY <2>1, <2>2, PutQueue
  <2>4. buf' \in [Streams -> Seq(Chunk)] /\ \A t \in Streams : Len(buf'[t]) <= Cap
    BY <1>12, <2>1, <2>2, <2>3, LogAssumption DEF SendChunk
  <2> QED
    BY <1>12, <2>4 DEF SendChunk
<1>13. CASE SendPanics
  BY <1>13 DEF SendPanics
<1>14. CASE HandlerExits
  BY <1>14 DEF HandlerExits
<1>15. CASE Disconnect
  BY <1>15 DEF Disconnect
<1>16. CASE UNCHANGED vars
  BY <1>16 DEF vars
<1> QED
  BY <1>1, <1>2, <1>3, <1>4, <1>5, <1>6, <1>7, <1>8, <1>9, <1>10, <1>11, <1>12, <1>13, <1>14,
     <1>15, <1>16 DEF Next

LEMMA TypeInit == Init => TypeOK
BY LogAssumption DEF Init, TypeOK

(* Every reachable state of the streams is well typed; no channel holds    *)
(* more than its capacity.                                                 *)
THEOREM LogTypeCorrect == Spec => []TypeOK
BY TypeInit, TypeStep, PTL DEF Spec, Safety

-----------------------------------------------------------------------------
(* Subscriptions.                                                          *)

(* The registry has a subscription exactly between Subscribe and the       *)
(* deferred Unsubscribe of its call, however the call ends.                *)
THEOREM SubscriptionsEnd == Spec => []SubscriptionsExact
<1>1. Init => SubscriptionsExact
  BY DEF Init, SubscriptionsExact
<1>2. TypeOK /\ SubscriptionsExact /\ [Next]_vars => SubscriptionsExact'
  <2> SUFFICES ASSUME TypeOK, SubscriptionsExact, [Next]_vars PROVE SubscriptionsExact'
    OBVIOUS
  <2>1. CASE UNCHANGED <<reader, logSubs>>
    BY <2>1 DEF SubscriptionsExact
  <2>2. ASSUME NEW s \in Streams,
               \/ Call(s) \/ Subscribe(s) \/ Forward(s) \/ ForwardFails(s)
               \/ Unsubscribe(s) \/ CloseChannel(s)
        PROVE  SubscriptionsExact'
    BY <2>2 DEF Call, Subscribe, Forward, ForwardFails, Unsubscribe, CloseChannel,
                SubscriptionsExact, TypeOK
  <2>3. ASSUME NEW s \in Streams, Arrive(s) \/ EmitLine(s) \/ EmitDone(s) \/ OpenFails(s)
        PROVE  SubscriptionsExact'
    BY <2>1, <2>3 DEF Arrive, EmitLine, EmitDone, OpenFails, srvVars
  <2>4. CASE LookupChunk \/ SendChunk \/ SendPanics \/ HandlerExits \/ Disconnect \/ UNCHANGED vars
    BY <2>1, <2>4 DEF LookupChunk, SendChunk, SendPanics, HandlerExits, Disconnect, vars, srvVars
  <2> QED
    BY <2>2, <2>3, <2>4 DEF Next
<1> QED
  BY <1>1, <1>2, TypeInit, TypeStep, PTL DEF Spec, Safety

-----------------------------------------------------------------------------
(* The order of the chunks.                                                *)

(* A command arrives once, and its log is read from then on. *)
CommandInv ==
  \A s \in Streams : /\ reader[s] = "idle" => command[s] = "none"
                     /\ command[s] # "arrived" => logger[s] = "none"

(* The chunk whose channel the handler has looked up, the chunks that are  *)
(* on their way to a channel, and those that were in the channel of s.     *)
Hand == {found} \ {None}
Transit == Hand \cup Members(up)
Got(s) == Members(out[s]) \cup Members(buf[s])

(* On the whole way from the agent to the client the chunks of a stream    *)
(* keep the order in which they were sent.                                 *)
OrderInv ==
  /\ Ordered(up) /\ \A x \in Hand, y \in Members(up) : Before(x, y)
  /\ \A s \in Streams :
       /\ Ordered(out[s]) /\ Ordered(buf[s])
       /\ \A x \in Members(out[s]), y \in Members(buf[s]) : Before(x, y)
       /\ \A x \in Got(s) : x.id = s /\ \A y \in Transit : Before(x, y)

(* There are no chunks of a log that is not read yet; those of a log that  *)
(* is being read are behind the next one.                                  *)
Sent(x) ==
  /\ logger[x.id] # "none"
  /\ logger[x.id] = "reading" => x.pos <= count[x.id] /\ ~x.done
SentInv ==
  /\ \A x \in Transit : Sent(x)
  /\ \A s \in Streams : \A x \in Got(s) : Sent(x)

LEMMA CommandStep == TypeOK /\ CommandInv /\ [Next]_vars => CommandInv'
<1> SUFFICES ASSUME TypeOK, CommandInv, [Next]_vars PROVE CommandInv'
  OBVIOUS
<1> USE DEF CommandInv, TypeOK, srvVars, agtVars
<1>1. ASSUME NEW s \in Streams,
             \/ Call(s) \/ Subscribe(s) \/ Forward(s) \/ ForwardFails(s)
             \/ Unsubscribe(s) \/ CloseChannel(s)
      PROVE  CommandInv'
  BY <1>1 DEF Call, Subscribe, Forward, ForwardFails, Unsubscribe, CloseChannel
<1>2. ASSUME NEW s \in Streams, Arrive(s) \/ EmitLine(s) \/ EmitDone(s) \/ OpenFails(s)
      PROVE  CommandInv'
  BY <1>2 DEF Arrive, EmitLine, EmitDone, OpenFails
<1>3. CASE LookupChunk \/ SendChunk \/ SendPanics \/ HandlerExits \/ Disconnect \/ UNCHANGED vars
  BY <1>3 DEF LookupChunk, SendChunk, SendPanics, HandlerExits, Disconnect, vars
<1> QED
  BY <1>1, <1>2, <1>3 DEF Next

(* The chunks of the queues have the types of TypeOK. *)
LEMMA MemberTypes ==
  ASSUME TypeOK
  PROVE  /\ Transit \subseteq Chunk
         /\ \A s \in Streams : Got(s) \subseteq Chunk
BY DEF TypeOK, Transit, Hand, Got, Members

(* What the client's loop does to its queues.                              *)
LEMMA OutMoves ==
  ASSUME TypeOK, OrderInv, NEW s \in Streams, Forward(s)
  PROVE  /\ out'[s] = Append(out[s], Head(buf[s])) /\ buf'[s] = Tail(buf[s])
         /\ Members(out'[s]) = Members(out[s]) \cup {Head(buf[s])}
         /\ Members(buf[s]) = Members(buf'[s]) \cup {Head(buf[s])}
         /\ Got(s)' = Got(s)
         /\ Ordered(out'[s]) /\ Ordered(buf'[s])
         /\ \A x \in Members(out'[s]), y \in Members(buf'[s]) : Before(x, y)
         /\ \A t \in Streams \ {s} : out'[t] = out[t] /\ buf'[t] = buf[t]
<1>1. out[s] \in Seq(Chunk) /\ buf[s] \in Seq(Chunk) /\ buf[s] # <<>>
  BY DEF TypeOK, Forward
<1>2. /\ out'[s] = Append(out[s], Head(buf[s])) /\ buf'[s] = Tail(buf[s])
      /\ \A t \in Streams \ {s} : out'[t] = out[t] /\ buf'[t] = buf[t]
  BY DEF TypeOK, Forward
<1>3. /\ Head(buf[s]) \in Chunk
      /\ Members(buf[s]) = Members(Tail(buf[s])) \cup {Head(buf[s])}
      /\ Ordered(Tail(buf[s])) /\ \A y \in Members(Tail(buf[s])) : Before(Head(buf[s]), y)
  BY <1>1, GetQueue DEF OrderInv
<1>4. /\ Members(Append(out[s], Head(buf[s]))) = Members(out[s]) \cup {Head(buf[s])}
      /\ Ordered(Append(out[s], Head(buf[s])))
  <2>1. \A x \in Members(out[s]) : Before(x, Head(buf[s]))
    BY <1>3 DEF OrderInv
  <2> QED
    BY <1>1, <1>3, <2>1, PutQueue DEF OrderInv
<1>5. Got(s)' = Got(s)
  BY <1>2, <1>3, <1>4 DEF Got
<1>6. \A x \in Members(out'[s]), y \in Members(buf'[s]) : Before(x, y)
  BY <1>2, <1>3, <1>4 DEF OrderInv
<1> QED
  BY <1>2, <1>3, <1>4, <1>5, <1>6

(* What a send to a channel that has room does.                            *)
LEMMA ChannelMoves ==
  ASSUME TypeOK, OrderInv, SendChunk, NEW s \in Streams, s = found.id, Len(buf[s]) < Cap
  PROVE  /\ found \in Chunk /\ buf'[s] = Append(buf[s], found)
         /\ Got(s)' = Got(s) \cup {found} /\ Ordered(buf'[s])
         /\ \A x \in Members(out[s]), y \in Members(buf'[s]) : Before(x, y)
         /\ \A t \in Streams \ {s} : buf'[t] = buf[t]
         /\ Transit' = Members(up) /\ Hand' = {} /\ Hand = {found}
<1>1. found \in Chunk /\ found # None
  BY DEF TypeOK, SendChunk
<1>2. /\ buf'[s] = Append(buf[s], found) /\ found' = None /\ UNCHANGED <<up, out>>
      /\ \A t \in Streams \ {s} : buf'[t] = buf[t]
  BY <1>1 DEF TypeOK, SendChunk
<1>3. buf[s] \in Seq(Chunk) /\ \A x \in Members(buf[s]) : Before(x, found)
  BY <1>1 DEF TypeOK, OrderInv, Got, Transit, Hand
<1>4. Members(buf'[s]) = Members(buf[s]) \cup {found} /\ Ordered(buf'[s])
  BY <1>1, <1>2, <1>3, PutQueue DEF OrderInv
<1>5. Got(s)' = Got(s) \cup {found}
  BY <1>2, <1>4 DEF Got
<1>6. \A x \in Members(out[s]), y \in Members(buf'[s]) : Before(x, y)
  BY <1>1, <1>4 DEF OrderInv, Got, Transit, Hand
<1>7. Transit' = Members(up) /\ Hand' = {} /\ Hand = {found}
  BY <1>1, <1>2 DEF Transit, Hand
<1> QED
  BY <1>1, <1>2, <1>4, <1>5, <1>6, <1>7

(* What an emission does. *)
LEMMA EmitMoves ==
  ASSUME TypeOK, OrderInv, SentInv, NEW s \in Streams, NEW d \in BOOLEAN,
         logger[s] = "reading", Emit(s, d), UNCHANGED <<found, out, buf>>
  PROVE  LET x == [id |-> s, pos |-> count[s] + 1, done |-> d]
         IN  /\ \/ ~live /\ UNCHANGED <<up, Transit>>
                \/ live /\ Transit' = Transit \cup {x}
             /\ OrderInv'
<1> DEFINE x == [id |-> s, pos |-> count[s] + 1, done |-> d]
<1>1. CASE ~live
  <2>1. UNCHANGED <<up, Transit, Hand>> /\ \A t \in Streams : UNCHANGED Got(t)
    BY <1>1 DEF Emit, Transit, Hand, Got
  <2> QED
    BY <1>1, <2>1 DEF OrderInv
<1>2. CASE live
  <2>1. x \in Chunk /\ up' = Append(up, x) /\ up \in Seq(Chunk)
    BY <1>2, EmitOK DEF Emit, TypeOK
  <2>2. \A y \in Chunk : Sent(y) => Before(y, x)
    <3> SUFFICES ASSUME NEW y \in Chunk, Sent(y), y.id = s PROVE y.pos < count[s] + 1 /\ ~y.done
      BY DEF Before
    <3>1. y.pos \in Nat /\ count[s] \in Nat
      BY LogAssumption DEF Chunk, TypeOK
    <3> QED
      BY <3>1 DEF Sent
  <2>3. Members(up') = Members(up) \cup {x} /\ Ordered(up')
    BY <2>1, <2>2, MemberTypes, PutQueue DEF OrderInv, SentInv, Transit
  <2>4. Transit' = Transit \cup {x} /\ Hand' = Hand /\ \A t \in Streams : Got(t)' = Got(t)
    BY <2>3 DEF Transit, Hand, Got
  <2>5. /\ \A y \in Hand, z \in Members(up') : Before(y, z)
        /\ \A t \in Streams : \A y \in Got(t) : y.id = t /\ \A z \in Transit' : Before(y, z)
    BY <2>2, <2>3, <2>4, MemberTypes DEF OrderInv, SentInv, Transit
  <2> QED
    BY <1>2, <2>3, <2>4, <2>5 DEF OrderInv
<1> QED
  BY <1>1, <1>2

(* The chunk at the head of the connection is looked up. *)
LEMMA LookupMoves ==
  ASSUME TypeOK, OrderInv, LookupChunk
  PROVE  /\ Head(up) \in Chunk /\ up' \in Seq(Chunk)
         /\ Members(up) = Members(up') \cup {Head(up)}
         /\ Hand = {} /\ Hand' \subseteq {Head(up)} /\ Transit' \subseteq Transit
         /\ Head(up).id \in logSubs => Transit' = Transit
         /\ OrderInv'
<1>1. up \in Seq(Chunk) /\ up # <<>> /\ up' = Tail(up) /\ found = None /\ UNCHANGED <<out, buf>>
  BY DEF TypeOK, LookupChunk
<1>2. /\ Head(up) \in Chunk /\ up' \in Seq(Chunk)
      /\ Members(up) = Members(up') \cup {Head(up)}
      /\ Ordered(up') /\ \A y \in Members(up') : Before(Head(up), y)
  BY <1>1, GetQueue DEF OrderInv
<1>3. /\ Hand = {} /\ Hand' \subseteq {Head(up)} /\ Transit' \subseteq Transit
      /\ \A s \in Streams : Got(s)' = Got(s)
  BY <1>1, <1>2 DEF LookupChunk, Hand, Transit, Got
<1>4. OrderInv'
  BY <1>1, <1>2, <1>3 DEF OrderInv
<1>5. ASSUME Head(up).id \in logSubs PROVE Transit' = Transit
  <2>1. found' = Head(up)
    BY <1>5 DEF LookupChunk
  <2>2. Head(up) # None
    BY <1>2, NoneAssumption
  <2> QED
    BY <1>2, <1>3, <2>1, <2>2 DEF Transit, Hand
<1> QED
  BY <1>2, <1>3, <1>4, <1>5

LEMMA OrderStep == TypeOK /\ OrderInv /\ SentInv /\ [Next]_vars => OrderInv'
<1> SUFFICES ASSUME TypeOK, OrderInv, SentInv, [Next]_vars PROVE OrderInv'
  OBVIOUS
<1>1. CASE UNCHANGED <<up, found, out, buf>>
  BY <1>1 DEF OrderInv, Hand, Transit, Got
<1>2. ASSUME NEW s \in Streams, Forward(s) PROVE OrderInv'
  <2>1. UNCHANGED <<up, found>> /\ UNCHANGED <<Hand, Transit>>
    BY <1>2 DEF Forward, Hand, Transit
  <2>2. \A t \in Streams : Got(t)' = Got(t)
    BY <1>2, OutMoves DEF Got
  <2>3. \A t \in Streams : /\ Ordered(out'[t]) /\ Ordered(buf'[t])
                           /\ \A x \in Members(out'[t]), y \in Members(buf'[t]) : Before(x, y)
    BY <1>2, OutMoves DEF OrderInv
  <2> QED
    BY <2>1, <2>2, <2>3 DEF OrderInv
<1>3. ASSUME NEW s \in Streams, ForwardFails(s) PROVE OrderInv'
  <2>1. UNCHANGED <<up, found, out>> /\ UNCHANGED <<Hand, Transit>>
    BY <1>3 DEF ForwardFails, Hand, Transit
  <2>2. buf[s] \in Seq(Chunk) /\ buf[s] # <<>>
    BY <1>3 DEF ForwardFails, TypeOK
  <2>3. /\ buf'[s] = Tail(buf[s]) /\ Members(buf'[s]) \subseteq Members(buf[s])
        /\ Ordered(buf'[s])
    BY <1>3, <2>2, GetQueue DEF ForwardFails, TypeOK, OrderInv
  <2>4. \A t \in Streams \ {s} : buf'[t] = buf[t]
    BY <1>3 DEF ForwardFails, TypeOK
  <2>5. \A t \in Streams : Members(buf'[t]) \subseteq Members(buf[t]) /\ Ordered(buf'[t])
    BY <2>3, <2>4 DEF OrderInv
  <2>6. \A t \in Streams : Got(t)' \subseteq Got(t)
    BY <2>1, <2>5 DEF Got
  <2> QED
    BY <2>1, <2>5, <2>6 DEF OrderInv
<1>4. CASE SendChunk
  <2>1. found \in Chunk /\ found.id \in Streams /\ found # None
    BY <1>4 DEF SendChunk, TypeOK, Chunk
  <2>2. UNCHANGED <<up, out>> /\ found' = None
    BY <1>4 DEF SendChunk
  <2>3. CASE Len(buf[found.id]) < Cap
    <3>1. PICK s \in Streams : s = found.id
      BY <2>1
    <3>2. /\ Got(s)' = Got(s) \cup {found} /\ Ordered(buf'[s])
          /\ \A x \in Members(out[s]), y \in Members(buf'[s]) : Before(x, y)
          /\ \A t \in Streams \ {s} : buf'[t] = buf[t]
          /\ Transit' = Members(up) /\ Hand' = {} /\ Hand = {found}
      BY <1>4, <2>3, <3>1, ChannelMoves
    <3>3. \A t \in Streams \ {s} : Got(t)' = Got(t)
      BY <2>2, <3>2 DEF Got
    <3>4. Transit' \subseteq Transit /\ \A y \in Transit' : Before(found, y)
      BY <3>2 DEF OrderInv, Transit
    <3>5. \A t \in Streams : \A x \in Got(t)' : x.id = t /\ \A y \in Transit' : Before(x, y)
      BY <3>1, <3>2, <3>3, <3>4 DEF OrderInv
    <3>6. \A t \in Streams : /\ Ordered(out'[t]) /\ Ordered(buf'[t])
                             /\ \A x \in Members(out'[t]), y \in Members(buf'[t]) : Before(x, y)
      BY <2>2, <3>2 DEF OrderInv
    <3> QED
      BY <2>2, <3>2, <3>5, <3>6 DEF OrderInv
  <2>4. CASE ~(Len(buf[found.id]) < Cap)
    <3>1. UNCHANGED buf /\ Hand' = {} /\ Transit' \subseteq Transit
      BY <1>4, <2>2, <2>4 DEF SendChunk, Hand, Transit
    <3> QED
      BY <2>2, <3>1 DEF OrderInv, Got
  <2> QED
    BY <2>3, <2>4
<1>5. CASE SendPanics
  <2>1. UNCHANGED <<up, out, buf>> /\ Hand' = {} /\ Transit' \subseteq Transit
    BY <1>5 DEF SendPanics, Hand, Transit
  <2> QED
    BY <2>1 DEF OrderInv, Got
<1>6. ASSUME NEW s \in Streams, EmitLine(s) \/ EmitDone(s) PROVE OrderInv'
  BY <1>6, EmitMoves DEF EmitLine, EmitDone, srvVars
<1>7. ASSUME NEW s \in Streams,
             \/ Call(s) \/ Subscribe(s) \/ Unsubscribe(s) \/ CloseChannel(s)
             \/ Arrive(s) \/ OpenFails(s)
      PROVE  OrderInv'
  BY <1>1, <1>7 DEF Call, Subscribe, Unsubscribe, CloseChannel, Arrive, OpenFails, srvVars
<1>8. CASE HandlerExits \/ Disconnect \/ UNCHANGED vars
  BY <1>1, <1>8 DEF HandlerExits, Disconnect, vars, srvVars
<1> QED
  BY <1>2, <1>3, <1>4, <1>5, <1>6, <1>7, <1>8, LookupMoves DEF Next

(* No chunk is made but by an emission. *)
LEMMA FewerSent ==
  ASSUME SentInv, UNCHANGED <<logger, count>>,
         \A x \in Transit' : x \in Transit \/ \E s \in Streams : x \in Got(s),
         \A s \in Streams : \A x \in Got(s)' : x \in Transit \/ x \in Got(s)
  PROVE  SentInv'
BY DEF SentInv, Sent

LEMMA SentStep ==
  TypeOK /\ CommandInv /\ OrderInv /\ SentInv /\ [Next]_vars => SentInv'
<1> SUFFICES ASSUME TypeOK, CommandInv, OrderInv, SentInv, [Next]_vars PROVE SentInv'
  OBVIOUS
<1>1. ASSUME UNCHANGED <<up, found, out, buf>>
      PROVE  UNCHANGED Transit /\ \A s \in Streams : Got(s)' = Got(s)
  BY <1>1 DEF Hand, Transit, Got
<1>2. CASE UNCHANGED <<up, found, out, buf, logger, count>>
  BY <1>1, <1>2, FewerSent
<1>3. ASSUME NEW s \in Streams, Forward(s) PROVE SentInv'
  <2>1. UNCHANGED <<logger, count, Transit>>
    BY <1>3 DEF Forward, Hand, Transit, agtVars
  <2>2. \A t \in Streams : Got(t)' = Got(t)
    BY <1>3, OutMoves DEF Got
  <2> QED
    BY <2>1, <2>2, FewerSent
<1>4. ASSUME NEW s \in Streams, ForwardFails(s) PROVE SentInv'
  <2>1. UNCHANGED <<logger, count, Transit, out>>
    BY <1>4 DEF ForwardFails, Hand, Transit, agtVars
  <2>2. buf[s] \in Seq(Chunk) /\ buf[s] # <<>> /\ buf' = [buf EXCEPT ![s] = Tail(@)]
    BY <1>4 DEF ForwardFails, TypeOK
  <2>3. Members(Tail(buf[s])) \subseteq Members(buf[s])
    BY <2>2, GetQueue
  <2>4. \A t \in Streams : Got(t)' \subseteq Got(t)
    BY <2>1, <2>2, <2>3 DEF Got, TypeOK
  <2> QED
    BY <2>1, <2>4, FewerSent
<1>5. CASE LookupChunk
  <2>1. UNCHANGED <<logger, count, out, buf>>
    BY <1>5 DEF LookupChunk, agtVars
  <2> QED
    BY <1>5, <2>1, LookupMoves, FewerSent DEF Got
<1>6. CASE SendChunk
  <2>1. UNCHANGED <<logger, count, out, up>> /\ found' = None
    BY <1>6 DEF SendChunk, agtVars
  <2>2. Transit' \subseteq Transit
    BY <2>1 DEF Transit, Hand
  <2>3. \A t \in Streams : \A x \in Got(t)' : x \in Transit \/ x \in Got(t)
    <3>1. PICK s \in Streams : s = found.id
      BY <1>6 DEF SendChunk, TypeOK, Chunk
    <3>2. CASE Len(buf[s]) < Cap
      <4>1. /\ Got(s)' = Got(s) \cup {found} /\ Hand = {found}
            /\ \A t \in Streams \ {s} : buf'[t] = buf[t]
        BY <1>6, <3>1, <3>2, ChannelMoves
      <4> QED
        BY <2>1, <4>1 DEF Got, Transit
    <3>3. CASE ~(Len(buf[s]) < Cap)
      BY <1>6, <2>1, <3>1, <3>3 DEF SendChunk, Got
    <3> QED
      BY <3>2, <3>3
  <2> QED
    BY <2>1, <2>2, <2>3, FewerSent
<1>7. CASE SendPanics
  <2>1. UNCHANGED <<logger, count, out, buf>> /\ Transit' \subseteq Transit
    BY <1>7 DEF SendPanics, Hand, Transit, agtVars
  <2> QED
    BY <2>1, FewerSent DEF Got
<1>8. ASSUME NEW s \in Streams, EmitLine(s) \/ EmitDone(s) PROVE SentInv'
  <2>1. logger[s] = "reading" /\ UNCHANGED <<found, out, buf>>
    BY <1>8 DEF EmitLine, EmitDone, srvVars
  <2>2. count[s] \in Nat /\ \A y \in Chunk : y.pos \in Nat /\ y.id \in Streams
    BY LogAssumption DEF TypeOK, Chunk
  <2>3. CASE EmitLine(s)
    <3> PICK x : x = [id |-> s, pos |-> count[s] + 1, done |-> FALSE]
      OBVIOUS
    <3>1. Transit' \subseteq Transit \cup {x} /\ \A t \in Streams : Got(t)' = Got(t)
      BY <2>1, <2>3, EmitMoves DEF EmitLine, Got
    <3>2. UNCHANGED logger /\ count' = [count EXCEPT ![s] = @ + 1]
      BY <2>3 DEF EmitLine
    <3>3. \A y \in Chunk : Sent(y) => Sent(y)'
      <4> SUFFICES ASSUME NEW y \in Chunk, Sent(y) PROVE Sent(y)'
        OBVIOUS
      <4>1. count'[y.id] = count[y.id] \/ count'[y.id] = count[y.id] + 1
        BY <2>2, <3>2 DEF TypeOK
      <4>2. count[y.id] \in Nat /\ y.pos \in Nat
        BY <2>2, LogAssumption DEF TypeOK
      <4> QED
        BY <3>2, <4>1, <4>2 DEF Sent
    <3>4. Sent(x)'
      BY <2>1, <2>2, <3>2 DEF Sent, TypeOK
    <3> QED
      BY <3>1, <3>3, <3>4, MemberTypes DEF SentInv
  <2>4. CASE EmitDone(s)
    <3> PICK x : x = [id |-> s, pos |-> count[s] + 1, done |-> TRUE]
      OBVIOUS
    <3>1. Transit' \subseteq Transit \cup {x} /\ \A t \in Streams : Got(t)' = Got(t)
      BY <2>1, <2>4, EmitMoves DEF EmitDone, Got
    <3>2. logger' = [logger EXCEPT ![s] = "finished"] /\ UNCHANGED count
      BY <2>4 DEF EmitDone
    <3>3. \A y \in Chunk : Sent(y) => Sent(y)'
      BY <2>1, <2>2, <3>2 DEF Sent, TypeOK
    <3>4. Sent(x)'
      BY <3>2 DEF Sent, TypeOK
    <3> QED
      BY <3>1, <3>3, <3>4, MemberTypes DEF SentInv
  <2> QED
    BY <1>8, <2>3, <2>4
<1>9. ASSUME NEW s \in Streams, Arrive(s) PROVE SentInv'
  <2>1. logger[s] = "none" /\ logger' = [logger EXCEPT ![s] = "reading"]
    BY <1>9 DEF Arrive, CommandInv
  <2>2. \A y : Sent(y) => y.id # s
    BY <2>1 DEF Sent
  <2>3. UNCHANGED <<up, found, out, buf, count>>
    BY <1>9 DEF Arrive, srvVars
  <2>4. \A y \in Chunk : Sent(y) => Sent(y)'
    BY <2>1, <2>2, <2>3 DEF Sent, TypeOK, Chunk
  <2> QED
    BY <1>1, <2>3, <2>4, MemberTypes DEF SentInv
<1>10. ASSUME NEW s \in Streams, OpenFails(s) PROVE SentInv'
  <2>1. logger[s] = "reading" /\ logger' = [logger EXCEPT ![s] = "finished"]
    BY <1>10 DEF OpenFails
  <2>2. UNCHANGED <<up, found, out, buf, count>>
    BY <1>10 DEF OpenFails, srvVars
  <2>3. \A y \in Chunk : Sent(y) => Sent(y)'
    BY <2>1, <2>2 DEF Sent, TypeOK, Chunk
  <2> QED
    BY <1>1, <2>2, <2>3, MemberTypes DEF SentInv
<1>11. ASSUME NEW s \in Streams, Call(s) \/ Subscribe(s) \/ Unsubscribe(s) \/ CloseChannel(s)
       PROVE  SentInv'
  BY <1>2, <1>11 DEF Call, Subscribe, Unsubscribe, CloseChannel, agtVars
<1>12. CASE HandlerExits \/ Disconnect \/ UNCHANGED vars
  BY <1>2, <1>12 DEF HandlerExits, Disconnect, vars, srvVars, agtVars
<1> QED
  BY <1>3, <1>4, <1>5, <1>6, <1>7, <1>8, <1>9, <1>10, <1>11, <1>12 DEF Next

(* A call that has ended has a reason; with "done", the client has got the *)
(* last chunk.  A channel is closed exactly when the call has ended.       *)
EndInv ==
  \A s \in Streams :
    /\ s \in closed <=> reader[s] = "ended"
    /\ reader[s] \in {"leaving", "closing", "ended"} <=> reason[s] # "none"
    /\ reason[s] = "done" => \E x \in Members(out[s]) : x.done

LEMMA EndStep == TypeOK /\ OrderInv /\ EndInv /\ [Next]_vars => EndInv'
<1> SUFFICES ASSUME TypeOK, OrderInv, EndInv, [Next]_vars PROVE EndInv'
  OBVIOUS
<1>1. CASE UNCHANGED <<reader, reason, closed, out>>
  BY <1>1 DEF EndInv
<1>2. ASSUME NEW s \in Streams, Forward(s) PROVE EndInv'
  <2>1. /\ Members(out'[s]) = Members(out[s]) \cup {Head(buf[s])}
        /\ \A t \in Streams \ {s} : out'[t] = out[t]
    BY <1>2, OutMoves
  <2>2. UNCHANGED closed /\ reader[s] = "reading"
    BY <1>2 DEF Forward
  <2>3. \/ UNCHANGED <<reader, reason>>
        \/ /\ Head(buf[s]).done
           /\ reader' = [reader EXCEPT ![s] = "leaving"]
           /\ reason' = [reason EXCEPT ![s] = "done"]
    BY <1>2 DEF Forward
  <2>4. \A t \in Streams : \A x \in Members(out[t]) : x \in Members(out'[t])
    BY <2>1
  <2>5. Head(buf[s]) \in Members(out'[s])
    BY <2>1
  <2>6. CASE UNCHANGED <<reader, reason>>
    BY <2>2, <2>4, <2>6 DEF EndInv
  <2>7. CASE /\ Head(buf[s]).done
             /\ reader' = [reader EXCEPT ![s] = "leaving"]
             /\ reason' = [reason EXCEPT ![s] = "done"]
    BY <2>2, <2>4, <2>5, <2>7 DEF EndInv, TypeOK
  <2> QED
    BY <2>3, <2>6, <2>7
<1>3. ASSUME NEW s \in Streams,
             \/ Call(s) \/ Subscribe(s) \/ ForwardFails(s) \/ Unsubscribe(s) \/ CloseChannel(s)
      PROVE  EndInv'
  <2>1. UNCHANGED out
    BY <1>3 DEF Call, Subscribe, ForwardFails, Unsubscribe, CloseChannel
  <2>2. CASE Call(s) \/ Subscribe(s) \/ Unsubscribe(s)
    BY <2>1, <2>2 DEF Call, Subscribe, Unsubscribe, EndInv, TypeOK
  <2>3. CASE ForwardFails(s)
    BY <2>1, <2>3 DEF ForwardFails, EndInv, TypeOK
  <2>4. CASE CloseChannel(s)
    BY <2>1, <2>4 DEF CloseChannel, EndInv, TypeOK
  <2> QED
    BY <1>3, <2>2, <2>3, <2>4
<1>4. ASSUME NEW s \in Streams, Arrive(s) \/ EmitLine(s) \/ EmitDone(s) \/ OpenFails(s)
      PROVE  EndInv'
  BY <1>1, <1>4 DEF Arrive, EmitLine, EmitDone, OpenFails, srvVars
<1>5. CASE LookupChunk \/ SendChunk \/ SendPanics \/ HandlerExits \/ Disconnect \/ UNCHANGED vars
  BY <1>1, <1>5 DEF LookupChunk, SendChunk, SendPanics, HandlerExits, Disconnect, vars, srvVars
<1> QED
  BY <1>2, <1>3, <1>4, <1>5 DEF Next

(* What is known of the chunks on their whole way, and of the calls. *)
FlowInv == TypeOK /\ CommandInv /\ OrderInv /\ SentInv /\ EndInv

LEMMA NoMembers == \A q : q = <<>> => Members(q) = {} /\ Ordered(q)
BY DEF Members, Ordered

LEMMA FlowInit == Init => FlowInv
<1> SUFFICES ASSUME Init PROVE FlowInv
  OBVIOUS
<1>1. /\ up = <<>> /\ found = None /\ \A s \in Streams : out[s] = <<>> /\ buf[s] = <<>>
  BY DEF Init
<1>2. Hand = {} /\ Transit = {} /\ \A s \in Streams : Got(s) = {}
  BY <1>1, NoMembers DEF Hand, Transit, Got
<1>3. OrderInv /\ SentInv
  BY <1>1, <1>2, NoMembers DEF OrderInv, SentInv
<1>4. CommandInv /\ EndInv
  BY DEF Init, CommandInv, EndInv
<1> QED
  BY <1>3, <1>4, TypeInit DEF FlowInv

LEMMA FlowStep == FlowInv /\ [Next]_vars => FlowInv'
BY TypeStep, CommandStep, OrderStep, SentStep, EndStep DEF FlowInv

(* A client gets the chunks of its own stream in the order in which the    *)
(* agent read them, none twice, and nothing after the last.                *)
THEOREM ClientInOrder == Spec => []InOrder
<1>1. FlowInv => InOrder
  <2> SUFFICES ASSUME FlowInv, NEW s \in Streams, NEW i \in 1 .. Len(out[s])
               PROVE  /\ out[s][i].id = s
                      /\ i < Len(out[s]) => out[s][i].pos < out[s][i + 1].pos /\ ~out[s][i].done
    BY DEF InOrder
  <2>1. out[s] \in Seq(Chunk) /\ Len(out[s]) \in Nat
    BY DEF FlowInv, TypeOK
  <2>2. \A j \in 1 .. Len(out[s]) : out[s][j].id = s
    BY DEF FlowInv, OrderInv, Got, Members
  <2>3. ASSUME i < Len(out[s]) PROVE Before(out[s][i], out[s][i + 1])
    <3>1. i + 1 \in 1 .. Len(out[s]) /\ i < i + 1
      BY <2>1, <2>3
    <3> QED
      BY <3>1 DEF FlowInv, OrderInv, Ordered
  <2>4. i < Len(out[s]) => i + 1 \in 1 .. Len(out[s])
    BY <2>1
  <2> QED
    BY <2>2, <2>3, <2>4 DEF Before
<1> QED
  BY <1>1, FlowInit, FlowStep, PTL DEF Spec, Safety

(* The handler of a connection panics on a log chunk only after a client   *)
(* has gone away in the middle of its stream: a call that ended with the   *)
(* last chunk has none left that the handler could find.                   *)
THEOREM OnlyAbandonedPanics == Spec => []PanicNeedsAbandonedStream
<1>1. Init => PanicNeedsAbandonedStream
  BY DEF Init, PanicNeedsAbandonedStream
<1>2. FlowInv /\ PanicNeedsAbandonedStream /\ [Next]_vars => PanicNeedsAbandonedStream'
  <2> SUFFICES ASSUME FlowInv, PanicNeedsAbandonedStream, [Next]_vars, handler' = "panicked"
               PROVE  \E s \in closed' : reason'[s] = "error"
    BY DEF PanicNeedsAbandonedStream
  <2>1. closed \subseteq Streams /\ \A s \in closed : reader[s] = "ended" /\ reason[s] \in {"done", "error"}
    BY DEF FlowInv, EndInv, TypeOK
  <2>2. closed \subseteq closed' /\ \A s \in closed : reason'[s] = reason[s]
    BY <2>1 DEF Next, Call, Subscribe, Forward, ForwardFails, Unsubscribe, CloseChannel,
       LookupChunk, SendChunk, SendPanics, HandlerExits, Arrive, EmitLine, EmitDone, OpenFails,
       Disconnect, vars, srvVars, FlowInv, TypeOK
  <2>3. CASE SendPanics
    <3>1. found # None /\ found.id \in closed
      BY <2>3 DEF SendPanics
    <3>2. ASSUME reason[found.id] = "done" PROVE FALSE
      <4>1. found.id \in Streams /\ found \in Transit
        BY <2>1, <3>1 DEF Transit, Hand
      <4>2. PICK x \in Members(out[found.id]) : x.done
        BY <3>2, <4>1 DEF FlowInv, EndInv
      <4>3. x.id = found.id /\ Before(x, found)
        BY <4>1 DEF FlowInv, OrderInv, Got
      <4> QED
        BY <4>2, <4>3 DEF Before
    <3> QED
      BY <2>1, <2>2, <3>1, <3>2
  <2>4. CASE ~SendPanics
    <3>1. handler = "panicked"
      BY <2>4 DEF Next, Call, Subscribe, Forward, ForwardFails, Unsubscribe, CloseChannel,
         LookupChunk, SendChunk, HandlerExits, Arrive, EmitLine, EmitDone, OpenFails,
         Disconnect, vars, srvVars
    <3> QED
      BY <2>2, <3>1 DEF PanicNeedsAbandonedStream
  <2> QED
    BY <2>3, <2>4
<1> QED
  BY <1>1, <1>2, FlowInit, FlowStep, PTL DEF Spec, Safety

-----------------------------------------------------------------------------
(* Gaps.                                                                   *)

(* The chunks of s that the client has or may still get. *)
Whole(s) == Got(s) \cup {x \in Transit : x.id = s}

(* The chunks in T have adjacent positions. *)
Adjacent(T) == \A x, y \in T : \A p \in x.pos .. y.pos : \E z \in T : z.pos = p

(* Before the call has subscribed there is nothing in its channel, nor on  *)
(* its way there. *)
EmptyInv ==
  \A s \in Streams : reader[s] \in {"idle", "called"} =>
    out[s] = <<>> /\ buf[s] = <<>> /\ \A x \in Hand : x.id # s

(* While fewer than Cap chunks have come for the client no chunk was       *)
(* dropped: those it has and those that come are adjacent, up to the last  *)
(* that was read. *)
Open(s) == /\ reader[s] \in {"idle", "called", "reading"}
           /\ Len(out[s]) + Len(buf[s]) < Cap
WholeFor(s) ==
  Open(s) =>
    /\ Adjacent(Whole(s))
    /\ live /\ logger[s] = "reading" /\ Whole(s) # {} => \E x \in Whole(s) : x.pos = count[s]
WholeInv == \A s \in Streams : WholeFor(s)

(* So the first Cap of them have no gap. *)
Follows(x, y) == y.pos = x.pos + 1
OutTight(s) == \A i \in 1 .. Len(out[s]) - 1 : i < Cap => Follows(out[s][i], out[s][i + 1])
BufTight(s) ==
  /\ \A i \in 1 .. Len(buf[s]) - 1 :
       Len(out[s]) + i < Cap => Follows(buf[s][i], buf[s][i + 1])
  /\ out[s] # <<>> /\ buf[s] # <<>> /\ Len(out[s]) < Cap =>
       Follows(out[s][Len(out[s])], buf[s][1])
TightInv ==
  \A s \in Streams : OutTight(s) /\ (reader[s] = "reading" => BufTight(s))

LEMMA EmptyStep ==
  TypeOK /\ SubscriptionsExact /\ EmptyInv /\ [Next]_vars => EmptyInv'
<1> SUFFICES ASSUME TypeOK, SubscriptionsExact, EmptyInv, [Next]_vars PROVE EmptyInv'
  OBVIOUS
<1>1. CASE UNCHANGED <<reader, out, buf, found>>
  BY <1>1 DEF EmptyInv, Hand
<1>2. ASSUME NEW s \in Streams,
             \/ Call(s) \/ Subscribe(s) \/ Forward(s) \/ ForwardFails(s)
             \/ Unsubscribe(s) \/ CloseChannel(s)
      PROVE  EmptyInv'
  <2>1. UNCHANGED found /\ \A t \in Streams \ {s} : UNCHANGED <<out[t], buf[t], reader[t]>>
    BY <1>2 DEF Call, Subscribe, Forward, ForwardFails, Unsubscribe, CloseChannel, TypeOK
  <2>2. reader'[s] \in {"idle", "called"} => reader[s] = "idle" /\ UNCHANGED <<out[s], buf[s]>>
    BY <1>2 DEF Call, Subscribe, Forward, ForwardFails, Unsubscribe, CloseChannel, TypeOK
  <2> QED
    BY <2>1, <2>2 DEF EmptyInv, Hand
<1>3. ASSUME NEW s \in Streams, Arrive(s) \/ EmitLine(s) \/ EmitDone(s) \/ OpenFails(s)
      PROVE  EmptyInv'
  BY <1>1, <1>3 DEF Arrive, EmitLine, EmitDone, OpenFails, srvVars
<1>4. CASE LookupChunk
  <2>1. UNCHANGED <<reader, out, buf>>
    BY <1>4 DEF LookupChunk
  <2>2. \A x \in Hand' : x.id \in logSubs
    BY <1>4 DEF LookupChunk, Hand
  <2> QED
    BY <2>1, <2>2 DEF EmptyInv, SubscriptionsExact
<1>5. CASE SendChunk
  <2>1. UNCHANGED <<reader, out>> /\ Hand' = {} /\ found \in Hand
    BY <1>5 DEF SendChunk, Hand
  <2>2. \A t \in Streams \ {found.id} : buf'[t] = buf[t]
    BY <1>5 DEF SendChunk, TypeOK
  <2> QED
    BY <2>1, <2>2 DEF EmptyInv
<1>6. CASE SendPanics
  BY <1>6 DEF SendPanics, EmptyInv, Hand
<1>7. CASE HandlerExits \/ Disconnect \/ UNCHANGED vars
  BY <1>1, <1>7 DEF HandlerExits, Disconnect, vars, srvVars
<1> QED
  BY <1>2, <1>3, <1>4, <1>5, <1>6, <1>7 DEF Next

LEMMA WholeTypes == ASSUME TypeOK, NEW s \in Streams PROVE Whole(s) \subseteq Chunk
BY MemberTypes DEF Whole

LEMMA WholeFrame ==
  ASSUME NEW s \in Streams, WholeFor(s),
         Open(s)' => /\ Open(s) /\ Whole(s)' = Whole(s) /\ (live' => live)
                     /\ logger'[s] = "reading" => logger[s] = "reading" /\ count'[s] = count[s]
  PROVE  WholeFor(s)'
BY DEF WholeFor, Adjacent

(* A chunk that is not looked for is the first of its stream. *)
LEMMA WholeLookup ==
  ASSUME TypeOK, SubscriptionsExact, OrderInv, SentInv, EmptyInv, LookupChunk,
         NEW s \in Streams, WholeFor(s)
  PROVE  WholeFor(s)'
<1>1. UNCHANGED <<reader, out, buf, live, logger, count, logSubs>>
  BY DEF LookupChunk, agtVars
<1>2. /\ Head(up) \in Chunk /\ Members(up) = Members(up') \cup {Head(up)}
      /\ Hand = {} /\ Hand' \subseteq {Head(up)} /\ Transit' \subseteq Transit
      /\ Head(up).id \in logSubs => Transit' = Transit
  BY LookupMoves
<1>3. Got(s)' = Got(s) /\ (Open(s)' => Open(s))
  BY <1>1 DEF Got, Open
<1>4. CASE Head(up).id \in logSubs
  BY <1>1, <1>2, <1>3, <1>4, WholeFrame DEF Whole
<1>5. CASE Head(up).id \notin logSubs /\ Head(up).id # s
  <2>1. Transit = Transit' \cup {Head(up)}
    BY <1>2 DEF Transit
  <2> QED
    BY <1>1, <1>3, <1>5, <2>1, WholeFrame DEF Whole
<1>6. CASE Head(up).id \notin logSubs /\ Head(up).id = s
  <2> DEFINE h == Head(up)
  <2> SUFFICES ASSUME Open(s)'
               PROVE  /\ Adjacent(Whole(s)')
                      /\ live /\ logger[s] = "reading" /\ Whole(s)' # {} =>
                           \E x \in Whole(s)' : x.pos = count[s]
    BY <1>1 DEF WholeFor, Adjacent
  <2>1. Got(s) = {}
    <3>1. out[s] = <<>> /\ buf[s] = <<>>
      BY <1>1, <1>6 DEF Open, SubscriptionsExact, EmptyInv
    <3> QED
      BY <3>1, NoMembers DEF Got
  <2>2. found' = None
    BY <1>6 DEF LookupChunk
  <2>3. /\ Whole(s)' = {x \in Members(up') : x.id = s}
        /\ Whole(s) = {x \in Members(up) : x.id = s}
    BY <1>2, <1>3, <2>1, <2>2 DEF Whole, Transit, Hand
  <2>4. Whole(s) = Whole(s)' \cup {h}
    BY <1>2, <1>6, <2>3
  <2>5. \A y \in Whole(s)' : y \in Chunk /\ h.pos < y.pos
    <3>1. up \in Seq(Chunk) /\ up # <<>> /\ up' = Tail(up)
      BY DEF LookupChunk, TypeOK
    <3>2. \A y \in Members(up') : Before(h, y)
      BY <3>1, GetQueue DEF OrderInv
    <3> QED
      BY <1>6, <2>3, <2>4, <3>2, WholeTypes DEF Before
  <2>6. h \in Chunk /\ \A y \in Chunk : y.pos \in Nat
    BY <1>2, LogAssumption DEF Chunk
  <2> HIDE DEF h
  <2>7. Adjacent(Whole(s)) /\ (live /\ logger[s] = "reading" => \E x \in Whole(s) : x.pos = count[s])
    BY <1>3, <2>4 DEF WholeFor
  <2>8. Adjacent(Whole(s)')
    <3> SUFFICES ASSUME NEW x \in Whole(s)', NEW y \in Whole(s)', NEW p \in x.pos .. y.pos
                 PROVE  \E z \in Whole(s)' : z.pos = p
      BY DEF Adjacent
    <3>1. PICK z \in Whole(s) : z.pos = p
      BY <2>4, <2>7 DEF Adjacent
    <3>2. z # h
      BY <2>5, <2>6, <3>1
    <3> QED
      BY <2>4, <3>1, <3>2
  <2>9. ASSUME live, logger[s] = "reading", NEW y \in Whole(s)'
        PROVE  \E x \in Whole(s)' : x.pos = count[s]
    <3>1. PICK x \in Whole(s) : x.pos = count[s]
      BY <2>7, <2>9
    <3>2. y \in Transit /\ y.id = s
      BY <1>2, <2>3 DEF Transit
    <3>3. y.pos <= count[s]
      BY <2>9, <3>2 DEF SentInv, Sent
    <3>4. x # h
      BY <2>5, <2>6, <3>1, <3>3
    <3> QED
      BY <2>4, <3>1, <3>4
  <2> QED
    BY <2>8, <2>9
<1> QED
  BY <1>4, <1>5, <1>6

(* An emission goes on where the last one ended. *)
LEMMA WholeEmit ==
  ASSUME TypeOK, OrderInv, SentInv, NEW s \in Streams, EmitLine(s) \/ EmitDone(s),
         NEW t \in Streams, WholeFor(t)
  PROVE  WholeFor(t)'
<1>1. PICK d \in BOOLEAN : Emit(s, d) /\ (d <=> EmitDone(s)) /\ (~d <=> EmitLine(s))
  <2>1. EmitLine(s) => ~EmitDone(s)
    BY DEF EmitLine, EmitDone, TypeOK
  <2>2. EmitLine(s) => Emit(s, FALSE)
    BY DEF EmitLine
  <2>3. EmitDone(s) => Emit(s, TRUE)
    BY DEF EmitDone
  <2> QED
    BY <2>1, <2>2, <2>3
<1>2. logger[s] = "reading" /\ UNCHANGED <<found, out, buf, reader, live>>
  BY DEF EmitLine, EmitDone, srvVars
<1>3. PICK x : x = [id |-> s, pos |-> count[s] + 1, done |-> d]
  OBVIOUS
<1>4. \/ ~live /\ UNCHANGED <<up, Transit>>
      \/ live /\ Transit' = Transit \cup {x}
  BY <1>1, <1>2, <1>3, EmitMoves
<1>5. UNCHANGED Got(t) /\ (Open(t)' <=> Open(t))
  BY <1>2 DEF Got, Open
<1>6. \A r \in Streams \ {s} : count'[r] = count[r] /\ logger'[r] = logger[r]
  BY DEF EmitLine, EmitDone, TypeOK
<1>7. CASE ~live
  <2>1. Whole(t)' = Whole(t)
    BY <1>4, <1>5, <1>7 DEF Whole
  <2> QED
    BY <1>2, <1>5, <1>7, <2>1 DEF WholeFor, Adjacent
<1>8. CASE live /\ t # s
  <2>1. Whole(t)' = Whole(t)
    BY <1>3, <1>4, <1>5, <1>8 DEF Whole
  <2> QED
    BY <1>2, <1>5, <1>6, <1>8, <2>1, WholeFrame
<1>9. CASE live /\ t = s
  <2> SUFFICES ASSUME Open(s), WholeFor(s)
               PROVE  /\ Adjacent(Whole(s)')
                      /\ logger'[s] = "reading" => \E y \in Whole(s)' : y.pos = count'[s]
    BY <1>5, <1>9 DEF WholeFor, Adjacent
  <2>1. Whole(s)' = Whole(s) \cup {x} /\ Whole(s) \subseteq Chunk
    BY <1>3, <1>4, <1>5, <1>9, WholeTypes DEF Whole
  <2>2. count[s] \in Nat /\ x.pos = count[s] + 1 /\ \A y \in Chunk : y.pos \in Nat
    BY <1>3, LogAssumption DEF Chunk, TypeOK
  <2>3. \A y \in Whole(s) : y.pos <= count[s]
    BY <1>2 DEF Whole, SentInv, Sent, OrderInv
  <2>4. Adjacent(Whole(s)) /\ (Whole(s) # {} => \E y \in Whole(s) : y.pos = count[s])
    BY <1>2, <1>9 DEF WholeFor
  <2>5. Adjacent(Whole(s)')
    <3> SUFFICES ASSUME NEW y \in Whole(s)', NEW z \in Whole(s)', NEW p \in y.pos .. z.pos
                 PROVE  \E w \in Whole(s)' : w.pos = p
      BY DEF Adjacent
    <3>1. CASE p = x.pos
      BY <2>1, <3>1
    <3>2. CASE p # x.pos
      <4>1. y \in Whole(s) /\ y.pos \in Nat
        BY <2>1, <2>2, <2>3, <3>2
      <4>2. PICK l \in Whole(s) : l.pos = count[s]
        BY <2>4, <4>1
      <4>3. z.pos \in Nat /\ z.pos <= count[s] + 1
        BY <2>1, <2>2, <2>3
      <4>4. p \in y.pos .. l.pos
        BY <2>2, <3>2, <4>1, <4>2, <4>3
      <4> QED
        BY <2>1, <2>4, <4>1, <4>2, <4>4 DEF Adjacent
    <3> QED
      BY <3>1, <3>2
  <2>6. ASSUME logger'[s] = "reading" PROVE \E y \in Whole(s)' : y.pos = count'[s]
    <3>1. count'[s] = count[s] + 1
      BY <1>1, <2>6 DEF EmitLine, EmitDone, TypeOK
    <3> QED
      BY <2>1, <2>2, <3>1
  <2> QED
    BY <2>5, <2>6
<1> QED
  BY <1>7, <1>8, <1>9

LEMMA WholeStep ==
  /\ TypeOK /\ SubscriptionsExact /\ CommandInv /\ OrderInv /\ SentInv /\ EndInv
  /\ EmptyInv /\ WholeInv /\ [Next]_vars
  => WholeInv'
<1> SUFFICES ASSUME TypeOK, SubscriptionsExact, CommandInv, OrderInv, SentInv, EndInv,
                    EmptyInv, [Next]_vars, NEW t \in Streams, WholeFor(t)
             PROVE  WholeFor(t)'
  BY DEF WholeInv
<1>0. /\ out \in [Streams -> Seq(Chunk)] /\ buf \in [Streams -> Seq(Chunk)]
      /\ out' \in [Streams -> Seq(Chunk)] /\ buf' \in [Streams -> Seq(Chunk)]
  BY TypeStep DEF TypeOK
<1>1. CASE /\ UNCHANGED <<out, buf, up, found>> /\ (Open(t)' => Open(t)) /\ (live' => live)
           /\ logger'[t] = "reading" => logger[t] = "reading" /\ count'[t] = count[t]
  <2>1. Whole(t)' = Whole(t)
    BY <1>1 DEF Whole, Got, Transit, Hand
  <2> QED
    BY <1>1, <2>1, WholeFrame
<1>2. ASSUME NEW s \in Streams, Forward(s) PROVE WholeFor(t)'
  <2>1. UNCHANGED <<live, logger, count, Transit>>
    BY <1>2 DEF Forward, agtVars, Transit, Hand
  <2>2. Got(t)' = Got(t)
    BY <1>2, OutMoves DEF Got
  <2>3. Len(out'[t]) + Len(buf'[t]) = Len(out[t]) + Len(buf[t])
    <3>1. CASE t = s
      <4>1. out[s] \in Seq(Chunk) /\ buf[s] \in Seq(Chunk) /\ buf[s] # <<>>
        BY <1>2 DEF Forward, TypeOK
      <4>2. Head(buf[s]) \in Chunk
        BY <4>1
      <4>3. Len(Append(out[s], Head(buf[s]))) = Len(out[s]) + 1 /\ Len(Tail(buf[s])) = Len(buf[s]) - 1
        BY <4>1, <4>2
      <4>4. Len(out[s]) \in Nat /\ Len(buf[s]) \in Nat
        BY <4>1
      <4>5. out'[s] = Append(out[s], Head(buf[s])) /\ buf'[s] = Tail(buf[s])
        BY <1>2, OutMoves
      <4>6. Len(out'[s]) = Len(out[s]) + 1 /\ Len(buf'[s]) = Len(buf[s]) - 1
        BY <4>3, <4>5
      <4> QED
        BY <1>0, <3>1, <4>4, <4>6
    <3>2. CASE t # s
      BY <1>2, <3>2, OutMoves
    <3> QED
      BY <3>1, <3>2
  <2>4. Open(t)' => Open(t)
    BY <1>2, <2>3 DEF Open, Forward, TypeOK
  <2> QED
    BY <2>1, <2>2, <2>4, WholeFrame DEF Whole
<1>3. ASSUME NEW s \in Streams, ForwardFails(s) PROVE WholeFor(t)'
  <2>1. CASE t = s
    BY <1>3, <2>1 DEF ForwardFails, TypeOK, Open, WholeFor
  <2>2. CASE t # s
    <3>1. /\ UNCHANGED <<live, logger, count, up, found, Transit>>
          /\ out'[t] = out[t] /\ buf'[t] = buf[t] /\ reader'[t] = reader[t]
      BY <1>3, <2>2 DEF ForwardFails, agtVars, TypeOK, Transit, Hand
    <3> QED
      BY <3>1, WholeFrame DEF Whole, Got, Open
  <2> QED
    BY <2>1, <2>2
<1>4. CASE SendChunk
  <2>1. /\ UNCHANGED <<live, logger, count, out, up, reader>> /\ found' = None
        /\ found # None /\ found.id \in Streams /\ found \in Chunk
    BY <1>4 DEF SendChunk, agtVars, TypeOK, Chunk
  <2>2. CASE t # found.id
    <3>1. buf'[t] = buf[t]
      BY <1>4, <2>1, <2>2 DEF SendChunk, TypeOK
    <3>2. Whole(t)' = Whole(t)
      BY <2>1, <2>2, <3>1 DEF Whole, Got, Transit, Hand
    <3> QED
      BY <2>1, <3>1, <3>2, WholeFrame DEF Open
  <2>3. CASE t = found.id /\ Len(buf[t]) < Cap
    <3>1. /\ buf'[t] = Append(buf[t], found) /\ Got(t)' = Got(t) \cup {found}
          /\ Transit' = Members(up) /\ Hand = {found}
      BY <1>4, <2>3, ChannelMoves
    <3>2. Whole(t)' = Whole(t)
      BY <2>3, <3>1 DEF Whole, Transit
    <3>3. Len(buf'[t]) = Len(buf[t]) + 1 /\ Len(buf[t]) \in Nat /\ Len(out[t]) \in Nat /\ Cap \in Nat
      BY <2>1, <3>1, LogAssumption DEF TypeOK
    <3>4. Len(out'[t]) + Len(buf'[t]) < Cap => Len(out[t]) + Len(buf[t]) < Cap
      <4>1. Len(out'[t]) = Len(out[t])
        BY <2>1
      <4> QED
        BY <1>0, <3>3, <4>1
    <3>5. Open(t)' => Open(t)
      BY <2>1, <3>4 DEF Open
    <3> QED
      BY <2>1, <3>2, <3>5, WholeFrame
  <2>4. CASE t = found.id /\ ~(Len(buf[t]) < Cap)
    <3>1. UNCHANGED buf /\ Len(buf[t]) \in Nat /\ Len(out[t]) \in Nat /\ Cap \in Nat
      BY <1>4, <2>4, LogAssumption DEF SendChunk, TypeOK
    <3>2. ~(Len(out'[t]) + Len(buf'[t]) < Cap)
      <4>1. Len(out'[t]) = Len(out[t]) /\ Len(buf'[t]) = Len(buf[t])
        BY <2>1, <3>1
      <4> QED
        BY <1>0, <2>4, <3>1, <4>1
    <3>3. ~Open(t)'
      BY <3>2 DEF Open
    <3> QED
      BY <3>3 DEF WholeFor
  <2> QED
    BY <2>2, <2>3, <2>4
<1>5. CASE SendPanics
  <2>1. /\ UNCHANGED <<logger, count, out, up, buf, reader>> /\ found' = None
        /\ found # None /\ found.id \in closed /\ ~live'
    BY <1>5 DEF SendPanics, agtVars
  <2>2. CASE t = found.id
    BY <2>1, <2>2 DEF EndInv, WholeFor, Open
  <2>3. CASE t # found.id
    <3>1. Whole(t)' = Whole(t)
      BY <2>1, <2>3 DEF Whole, Got, Transit, Hand
    <3> QED
      BY <2>1, <3>1, WholeFrame DEF Open
  <2> QED
    BY <2>2, <2>3
<1>6. ASSUME NEW s \in Streams, Call(s) \/ Subscribe(s) \/ Unsubscribe(s) \/ CloseChannel(s)
      PROVE  WholeFor(t)'
  <2>1. UNCHANGED <<out, buf, up, found, live, logger, count>>
    BY <1>6 DEF Call, Subscribe, Unsubscribe, CloseChannel, agtVars
  <2>2. Open(t)' => Open(t)
    BY <1>6, <2>1 DEF Open, Call, Subscribe, Unsubscribe, CloseChannel, TypeOK
  <2> QED
    BY <1>1, <2>1, <2>2
<1>7. ASSUME NEW s \in Streams, Arrive(s) PROVE WholeFor(t)'
  <2>1. UNCHANGED <<out, buf, up, found, reader, live, count>>
    BY <1>7 DEF Arrive, srvVars
  <2>2. CASE t = s
    <3>1. logger[s] = "none" /\ Whole(s)' = Whole(s)
      BY <1>7, <2>1 DEF Arrive, CommandInv, Whole, Got, Transit, Hand
    <3>2. Whole(s) = {}
      BY <3>1 DEF Whole, SentInv, Sent, OrderInv
    <3> QED
      BY <2>2, <3>1, <3>2 DEF WholeFor, Adjacent
  <2>3. CASE t # s
    <3>1. logger'[t] = logger[t]
      BY <1>7, <2>3 DEF Arrive, TypeOK
    <3> QED
      BY <1>1, <2>1, <3>1 DEF Open
  <2> QED
    BY <2>2, <2>3
<1>8. ASSUME NEW s \in Streams, OpenFails(s) PROVE WholeFor(t)'
  <2>1. UNCHANGED <<out, buf, up, found, reader, live, count>>
    BY <1>8 DEF OpenFails, srvVars
  <2>2. logger'[t] = "reading" => logger[t] = "reading"
    BY <1>8 DEF OpenFails, TypeOK
  <2> QED
    BY <1>1, <2>1, <2>2 DEF Open
<1>9. CASE HandlerExits \/ Disconnect \/ UNCHANGED vars
  <2>1. UNCHANGED <<out, buf, up, found, reader, logger, count>> /\ (live' => live)
    BY <1>9 DEF HandlerExits, Disconnect, vars, srvVars, agtVars
  <2> QED
    BY <1>1, <2>1 DEF Open
<1> QED
  BY <1>2, <1>3, <1>4, <1>5, <1>6, <1>7, <1>8, <1>9, WholeLookup, WholeEmit DEF Next

(* A chunk that comes while fewer than Cap have come follows the last one. *)
LEMMA NextFollows ==
  ASSUME TypeOK, OrderInv, WholeInv, SubscriptionsExact, EmptyInv,
         NEW s \in Streams, Open(s), found \in Chunk, found # None, found.id = s,
         NEW x \in Got(s), \A y \in Got(s) : y = x \/ Before(y, x)
  PROVE  Follows(x, found)
<1>1. found \in Whole(s) /\ x \in Whole(s) /\ x \in Chunk /\ Whole(s) \subseteq Chunk
  BY MemberTypes, WholeTypes DEF Whole, Transit, Hand
<1>2. x.id = s /\ Before(x, found) /\ \A y \in Got(s) : y.id = s
  BY DEF OrderInv, Transit, Hand
<1>3. \A y \in Chunk : y.pos \in Nat
  BY LogAssumption DEF Chunk
<1>4. x.pos < found.pos
  BY <1>2 DEF Before
<1>5. x.pos + 1 \in x.pos .. found.pos
  BY <1>1, <1>3, <1>4
<1>6. PICK z \in Whole(s) : z.pos = x.pos + 1
  BY <1>1, <1>5 DEF WholeInv, WholeFor, Adjacent
<1>7. CASE z \in Got(s)
  <2>1. z = x \/ z.pos < x.pos
    BY <1>2, <1>7 DEF Before
  <2> QED
    BY <1>1, <1>3, <1>6, <2>1
<1>8. CASE z \in Members(up) /\ z.id = s
  <2>1. found.pos < z.pos
    BY <1>8 DEF OrderInv, Hand, Before
  <2> QED
    BY <1>1, <1>3, <1>4, <1>6, <2>1
<1>9. CASE z = found
  BY <1>6, <1>9 DEF Follows
<1> QED
  BY <1>7, <1>8, <1>9, <1>6 DEF Whole, Transit, Hand

(* The last of a sequence comes after all the others. *)
LEMMA LastMember ==
  ASSUME NEW q \in Seq(Chunk), q # <<>>, Ordered(q)
  PROVE  /\ Len(q) \in 1 .. Len(q) /\ q[Len(q)] \in Members(q)
         /\ \A y \in Members(q) : y = q[Len(q)] \/ Before(y, q[Len(q)])
<1>1. Len(q) \in 1 .. Len(q) /\ Len(q) \in Nat
  OBVIOUS
<1>2. ASSUME NEW i \in 1 .. Len(q) PROVE q[i] = q[Len(q)] \/ Before(q[i], q[Len(q)])
  <2>1. i = Len(q) \/ i < Len(q)
    BY <1>1
  <2> QED
    BY <1>1, <2>1 DEF Ordered
<1> QED
  BY <1>1, <1>2 DEF Members

LEMMA TightForward ==
  ASSUME TypeOK, NEW s \in Streams, Forward(s), OutTight(s), BufTight(s)
  PROVE  OutTight(s)' /\ BufTight(s)'
<1>1. /\ out[s] \in Seq(Chunk) /\ buf[s] \in Seq(Chunk) /\ buf[s] # <<>>
      /\ out'[s] = Append(out[s], Head(buf[s])) /\ buf'[s] = Tail(buf[s])
  BY DEF Forward, TypeOK
<1> DEFINE o == out[s]
           b == buf[s]
           n == Len(out[s])
<1>2. PICK o1, b1 : o1 = out'[s] /\ b1 = buf'[s]
  OBVIOUS
<1>3. /\ Len(b1) = Len(b) - 1 /\ Len(b) > 0 /\ Len(b) \in Nat
      /\ Head(b) = b[1] /\ Head(b) \in Chunk
      /\ \A i \in 1 .. Len(b) - 1 : b1[i] = b[i + 1]
  BY <1>1, <1>2, GetQueue
<1>4. /\ Len(o1) = n + 1 /\ n \in Nat /\ o1[n + 1] = b[1]
      /\ \A i \in 1 .. n : o1[i] = o[i]
  BY <1>1, <1>2, <1>3, PutQueue
<1>5. /\ \A i \in 1 .. n - 1 : i < Cap => Follows(o[i], o[i + 1])
      /\ \A i \in 1 .. Len(b) - 1 : n + i < Cap => Follows(b[i], b[i + 1])
      /\ o # <<>> /\ n < Cap => Follows(o[n], b[1])
  BY <1>1 DEF OutTight, BufTight
<1>6. Cap \in Nat /\ (o # <<>> <=> n > 0)
  BY <1>1, LogAssumption
<1> HIDE DEF o, b, n
<1>7. ASSUME NEW i \in 1 .. Len(o1) - 1, i < Cap PROVE Follows(o1[i], o1[i + 1])
  <2>1. CASE i < n
    <3>1. i \in 1 .. n - 1 /\ i \in 1 .. n /\ i + 1 \in 1 .. n
      BY <1>4, <2>1
    <3> QED
      BY <1>4, <1>5, <1>7, <3>1
  <2>2. CASE i = n
    <3>1. n > 0 /\ n \in 1 .. n
      BY <1>4, <2>2
    <3> QED
      BY <1>4, <1>5, <1>6, <1>7, <2>2, <3>1
  <2> QED
    BY <1>4, <2>1, <2>2
<1>8. ASSUME NEW i \in 1 .. Len(b1) - 1, Len(o1) + i < Cap PROVE Follows(b1[i], b1[i + 1])
  <2>1. /\ i \in 1 .. Len(b) - 1 /\ i + 1 \in 1 .. Len(b) - 1
        /\ n + (i + 1) < Cap
    BY <1>3, <1>4, <1>6, <1>8
  <2> QED
    BY <1>3, <1>5, <2>1
<1>9. ASSUME b1 # <<>>, Len(o1) < Cap PROVE Follows(o1[Len(o1)], b1[1])
  <2>1. b1 \in Seq(Chunk) /\ Len(b1) > 0
    BY <1>1, <1>2, <1>9
  <2>2. 1 \in 1 .. Len(b) - 1 /\ n + 1 < Cap
    BY <1>3, <1>4, <1>9, <2>1
  <2>3. b1[1] = b[2] /\ Follows(b[1], b[2])
    BY <1>3, <1>5, <2>2
  <2> QED
    BY <1>4, <2>3
<1>10. OutTight(s)'
  BY <1>2, <1>7 DEF OutTight
<1>11. BufTight(s)'
  BY <1>2, <1>8, <1>9 DEF BufTight
<1> QED
  BY <1>10, <1>11

LEMMA TightSend ==
  ASSUME TypeOK, OrderInv, WholeInv, SubscriptionsExact, EmptyInv, SendChunk,
         NEW s \in Streams, s = found.id, reader[s] = "reading", Len(buf[s]) < Cap,
         BufTight(s)
  PROVE  BufTight(s)'
<1>1. /\ out[s] \in Seq(Chunk) /\ buf[s] \in Seq(Chunk) /\ found \in Chunk /\ found # None
      /\ out' = out /\ buf'[s] = Append(buf[s], found)
  BY ChannelMoves DEF SendChunk, TypeOK
<1>2. PICK b1 : b1 = buf'[s]
  OBVIOUS
<1> DEFINE o == out[s]
           b == buf[s]
           n == Len(out[s])
<1>3. /\ Len(b1) = Len(b) + 1 /\ Len(b) \in Nat /\ n \in Nat /\ Cap \in Nat
      /\ b1[Len(b) + 1] = found /\ \A i \in 1 .. Len(b) : b1[i] = b[i]
  BY <1>1, <1>2, PutQueue, LogAssumption
<1>4. ASSUME n + Len(b) < Cap PROVE Open(s)
  BY <1>4 DEF Open
<1>5. ASSUME n + Len(b) < Cap, b # <<>> PROVE Follows(b[Len(b)], found)
  <2>1. /\ b[Len(b)] \in Members(b)
        /\ \A y \in Members(b) : y = b[Len(b)] \/ Before(y, b[Len(b)])
    BY <1>1, <1>5, LastMember DEF OrderInv
  <2>2. \A y \in Got(s) : y = b[Len(b)] \/ Before(y, b[Len(b)])
    BY <2>1 DEF Got, OrderInv
  <2>3. b[Len(b)] \in Got(s)
    BY <2>1 DEF Got
  <2> HIDE DEF b
  <2> QED
    BY <1>1, <1>4, <1>5, <2>2, <2>3, NextFollows
<1>6. ASSUME n + Len(b) < Cap, b = <<>>, o # <<>> PROVE Follows(o[n], found)
  <2>1. /\ o[n] \in Members(o)
        /\ \A y \in Members(o) : y = o[n] \/ Before(y, o[n])
    BY <1>1, <1>6, LastMember DEF OrderInv
  <2>2. Got(s) = Members(o)
    BY <1>6, NoMembers DEF Got
  <2> HIDE DEF o, n
  <2> QED
    BY <1>1, <1>4, <1>6, <2>1, <2>2, NextFollows
<1>7. /\ \A i \in 1 .. Len(b) - 1 : n + i < Cap => Follows(b[i], b[i + 1])
      /\ o # <<>> /\ b # <<>> /\ n < Cap => Follows(o[n], b[1])
  BY DEF BufTight
<1>8. b # <<>> <=> Len(b) > 0
  BY <1>1
<1> HIDE DEF o, b, n
<1>9. ASSUME NEW i \in 1 .. Len(b1) - 1, n + i < Cap PROVE Follows(b1[i], b1[i + 1])
  <2>1. CASE i < Len(b)
    <3>1. i \in 1 .. Len(b) - 1 /\ i \in 1 .. Len(b) /\ i + 1 \in 1 .. Len(b)
      BY <1>3, <2>1
    <3> QED
      BY <1>3, <1>7, <1>9, <3>1
  <2>2. CASE i = Len(b)
    <3>1. Len(b) > 0 /\ Len(b) \in 1 .. Len(b)
      BY <1>3, <2>2
    <3> QED
      BY <1>3, <1>5, <1>8, <1>9, <2>2, <3>1
  <2> QED
    BY <1>3, <2>1, <2>2
<1>10. ASSUME o # <<>>, n < Cap PROVE Follows(o[n], b1[1])
  <2>1. CASE b = <<>>
    <3>1. b1[1] = found /\ n + Len(b) < Cap
      BY <1>3, <1>8, <1>10, <2>1
    <3> QED
      BY <1>6, <1>10, <2>1, <3>1
  <2>2. CASE b # <<>>
    <3>1. 1 \in 1 .. Len(b)
      BY <1>3, <1>8, <2>2
    <3> QED
      BY <1>3, <1>7, <1>10, <2>2, <3>1
  <2> QED
    BY <2>1, <2>2
<1> QED
  BY <1>1, <1>2, <1>9, <1>10 DEF BufTight, o, n

LEMMA TightStep ==
  /\ TypeOK /\ SubscriptionsExact /\ OrderInv /\ EmptyInv /\ WholeInv /\ TightInv /\ [Next]_vars
  => TightInv'
<1> SUFFICES ASSUME TypeOK, SubscriptionsExact, OrderInv, EmptyInv, WholeInv, TightInv,
                    [Next]_vars, NEW t \in Streams
             PROVE  OutTight(t)' /\ (reader'[t] = "reading" => BufTight(t)')
  BY DEF TightInv
<1>1. CASE out'[t] = out[t] /\ buf'[t] = buf[t] /\ (reader'[t] = "reading" => reader[t] = "reading")
  BY <1>1 DEF TightInv, OutTight, BufTight
<1>2. ASSUME NEW s \in Streams, Forward(s)
      PROVE  OutTight(t)' /\ (reader'[t] = "reading" => BufTight(t)')
  <2>1. CASE t = s
    BY <1>2, <2>1, TightForward DEF TightInv, Forward
  <2>2. CASE t # s
    BY <1>1, <1>2, <2>2 DEF Forward, TypeOK
  <2> QED
    BY <2>1, <2>2
<1>3. ASSUME NEW s \in Streams, ForwardFails(s)
      PROVE  OutTight(t)' /\ (reader'[t] = "reading" => BufTight(t)')
  <2>1. CASE t = s
    BY <1>3, <2>1 DEF ForwardFails, TightInv, OutTight, TypeOK
  <2>2. CASE t # s
    BY <1>1, <1>3, <2>2 DEF ForwardFails, TypeOK
  <2> QED
    BY <2>1, <2>2
<1>4. CASE SendChunk
  <2>1. UNCHANGED <<out, reader>> /\ found.id \in Streams
    BY <1>4 DEF SendChunk, TypeOK, Chunk
  <2>2. OutTight(t)'
    BY <2>1 DEF TightInv, OutTight
  <2>3. CASE t # found.id \/ ~(Len(buf[t]) < Cap)
    BY <1>1, <1>4, <2>1, <2>3 DEF SendChunk, TypeOK
  <2>4. CASE t = found.id /\ Len(buf[t]) < Cap
    BY <1>4, <2>1, <2>2, <2>4, TightSend DEF TightInv
  <2> QED
    BY <2>3, <2>4
<1>5. ASSUME NEW s \in Streams, Subscribe(s)
      PROVE  OutTight(t)' /\ (reader'[t] = "reading" => BufTight(t)')
  <2>1. UNCHANGED <<out, buf>>
    BY <1>5 DEF Subscribe
  <2>2. CASE t = s
    <3>1. out[s] = <<>> /\ buf[s] = <<>>
      BY <1>5 DEF Subscribe, EmptyInv
    <3> QED
      BY <2>1, <2>2, <3>1 DEF OutTight, BufTight
  <2>3. CASE t # s
    BY <1>1, <1>5, <2>1, <2>3 DEF Subscribe, TypeOK
  <2> QED
    BY <2>2, <2>3
<1>6. ASSUME NEW s \in Streams, Call(s) \/ Unsubscribe(s) \/ CloseChannel(s)
      PROVE  OutTight(t)' /\ (reader'[t] = "reading" => BufTight(t)')
  BY <1>1, <1>6 DEF Call, Unsubscribe, CloseChannel, TypeOK
<1>7. ASSUME NEW s \in Streams, Arrive(s) \/ EmitLine(s) \/ EmitDone(s) \/ OpenFails(s)
      PROVE  OutTight(t)' /\ (reader'[t] = "reading" => BufTight(t)')
  BY <1>1, <1>7 DEF Arrive, EmitLine, EmitDone, OpenFails, srvVars
<1>8. CASE LookupChunk \/ SendPanics \/ HandlerExits \/ Disconnect \/ UNCHANGED vars
  BY <1>1, <1>8 DEF LookupChunk, SendPanics, HandlerExits, Disconnect, vars, srvVars
<1> QED
  BY <1>2, <1>3, <1>4, <1>5, <1>6, <1>7, <1>8 DEF Next

(* Where chunks are missing after the first that a client has got, it has  *)
(* got at least as many before as its channel holds: nothing but a full    *)
(* channel makes a gap.                                                    *)
THEOREM GapsNeedFullChannel == Spec => []GapNeedsFullChannel
<1>1. Init => EmptyInv /\ WholeInv /\ TightInv
  <2> SUFFICES ASSUME Init PROVE EmptyInv /\ WholeInv /\ TightInv
    OBVIOUS
  <2>1. found = None /\ up = <<>> /\ \A s \in Streams : out[s] = <<>> /\ buf[s] = <<>>
    BY DEF Init
  <2>2. Hand = {} /\ \A s \in Streams : Whole(s) = {}
    BY <2>1, NoMembers DEF Hand, Whole, Transit, Got
  <2> QED
    BY <2>1, <2>2 DEF EmptyInv, WholeInv, WholeFor, Adjacent, TightInv, OutTight, BufTight
<1>2. TightInv /\ TypeOK => GapNeedsFullChannel
  <2> SUFFICES ASSUME TightInv, TypeOK, NEW s \in Streams, NEW i \in 1 .. Len(out[s]) - 1,
                      out[s][i + 1].pos # out[s][i].pos + 1
               PROVE  i >= Cap
    BY DEF GapNeedsFullChannel
  <2>0. out[s] \in Seq(Chunk)
    BY DEF TypeOK
  <2>1. i \in Nat /\ Cap \in Nat
    <3>1. Len(out[s]) \in Nat
      BY <2>0
    <3> QED
      BY <3>1, LogAssumption
  <2>2. ~(i < Cap)
    BY DEF TightInv, OutTight, Follows
  <2> QED
    BY <2>1, <2>2
<1> QED
  BY <1>1, <1>2, FlowInit, FlowStep, SubscriptionsEnd, EmptyStep, WholeStep, TightStep, PTL
     DEF Spec, Safety, FlowInv
=============================================================================
