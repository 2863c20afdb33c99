-------------------------- MODULE AgentLinkProofs --------------------------
(***************************************************************************)
(* Proofs about AgentLink for every set of agents, processes, connections  *)
(* and commands: types, then the registry's invariant, the one behind the  *)
(* answers and with it the refinement of CommandPort, then the entries of  *)
(* connected agents, and the progress that is shown of a create.           *)
(***************************************************************************)
EXTENDS AgentLink, SequenceTheorems, TLAPS

USE DEF srvVars, callVars, netVars, agtVars

\* Sequence facts the steps need: the elements of a tail and of an append.
LEMMA TailElements ==
  ASSUME NEW S, NEW s \in Seq(S), s # <<>>
  PROVE  /\ Head(s) = s[1] /\ 1 \in 1..Len(s) /\ Head(s) \in S
         /\ Tail(s) \in Seq(S) /\ Len(Tail(s)) = Len(s) - 1
         /\ \A i \in 1..Len(Tail(s)) : i + 1 \in 1..Len(s) /\ Tail(s)[i] = s[i + 1]
  OBVIOUS

LEMMA AppendElements ==
  ASSUME NEW S, NEW s \in Seq(S), NEW e \in S
  PROVE  /\ Append(s, e) \in Seq(S) /\ Len(Append(s, e)) = Len(s) + 1
         /\ \A i \in 1..Len(s) : Append(s, e)[i] = s[i]
         /\ Append(s, e)[Len(s) + 1] = e
  OBVIOUS

\* A goroutine's write leaves the upward streams sequences of messages.
LEMMA SendType ==
  ASSUME TypeOK, NEW c, NEW m \in Message, Send(c, m)
  PROVE  up' \in [Conns -> Seq(Message)]
<1>1. CASE Healthy(c)
  <2>1. c \in Conns /\ up[c] \in Seq(Message)
    BY <1>1 DEF Healthy, TypeOK
  <2>2. Append(up[c], m) \in Seq(Message)
    BY <2>1
  <2> QED BY <1>1, <2>1, <2>2 DEF Send, TypeOK
<1>2. CASE ~Healthy(c)
  BY <1>2 DEF Send, TypeOK
<1> QED BY <1>1, <1>2

\* Every step of the link keeps every variable in its type.
LEMMA TypeStep == TypeOK /\ [Next]_vars => TypeOK'
<1> SUFFICES ASSUME TypeOK, [Next]_vars PROVE TypeOK'
  OBVIOUS
<1> USE LinkAssumption DEF TypeOK, HandlerStates, CallerStates, TaskStates,
        Answers, Verdicts, Outcomes
<1>1. ASSUME NEW c \in Conns, ServerStep(c) PROVE TypeOK'
  <2>1. CASE Register(c) BY <2>1 DEF Register
  <2>2. CASE ReadError(c) BY <2>2 DEF ReadError
  <2>3. CASE Unregister(c) BY <2>3 DEF Unregister
  <2>4. CASE CloseConn(c) BY <2>4 DEF CloseConn
  <2>5. CASE HandleProgress(c)
    BY <2>5, TailElements DEF HandleProgress, Take, Message, Progress, Result
  <2>6. CASE LookupResult(c)
    BY <2>6, TailElements DEF LookupResult, Take, Message, Progress, Result
  <2>7. CASE DeliverResult(c)
    BY <2>7 DEF DeliverResult, Result
  <2> QED BY <1>1, <2>1, <2>2, <2>3, <2>4, <2>5, <2>6, <2>7 DEF ServerStep
<1>2. ASSUME NEW k \in Cmds, CallStep(k) PROVE TypeOK'
  <2>1. CASE AddPending(k) BY <2>1 DEF AddPending
  <2>2. CASE WriteCommand(k) BY <2>2, AppendElements DEF WriteCommand
  <2>3. CASE WriteFails(k) BY <2>3 DEF WriteFails
  <2>4. CASE ReceiveResult(k) BY <2>4 DEF ReceiveResult
  <2>5. CASE Timeout(k) BY <2>5 DEF Timeout
  <2>6. CASE RemovePending(k) BY <2>6 DEF RemovePending
  <2> QED BY <1>2, <2>1, <2>2, <2>3, <2>4, <2>5, <2>6 DEF CallStep
<1>3. ASSUME NEW k \in Cmds, TaskStep(k) PROVE TypeOK'
  <2>1. CASE Notify(k)
    <3> DEFINE m == [type |-> "progress", id |-> k, stage |-> stage[k] + 1]
    <3>1. stage[k] \in 0..3 /\ stage[k] < 3
      BY <2>1 DEF Notify
    <3>2. m \in Message
      BY <3>1 DEF Message, Progress
    <3>3. up' \in [Conns -> Seq(Message)]
      BY <2>1, <3>1, <3>2, SendType DEF Notify
    <3> QED BY <2>1, <3>1, <3>3 DEF Notify
  <2>2. CASE SendResult(k)
    <3> DEFINE m == [type |-> "result", id |-> k, verdict |-> verdict[k]]
    <3>1. m \in Message
      BY <2>2 DEF SendResult, Message, Result
    <3>2. up' \in [Conns -> Seq(Message)]
      BY <2>2, <3>1, SendType DEF SendResult
    <3> QED BY <2>2, <3>2 DEF SendResult
  <2>3. ASSUME NEW v \in Outcomes, Execute(k, v) PROVE TypeOK'
    BY <2>3 DEF Execute
  <2> QED BY <1>3, <2>1, <2>2, <2>3 DEF TaskStep
<1>4. ASSUME NEW c \in Conns, ClientRead(c) PROVE TypeOK'
  BY <1>4, TailElements DEF ClientRead
<1>5. ASSUME NEW c \in Conns, ClientError(c) PROVE TypeOK'
  BY <1>5 DEF ClientError
<1>6. ASSUME NEW c \in Conns, Break(c) PROVE TypeOK'
  BY <1>6 DEF Break
<1>7. ASSUME NEW c \in Conns, NEW p \in Clients, Dial(p, c) PROVE TypeOK'
  BY <1>7 DEF Dial
<1>8. ASSUME NEW k \in Cmds, NEW a \in Agents, Lookup(k, a) PROVE TypeOK'
  <2>1. CASE registry[a] = None BY <1>8, <2>1 DEF Lookup
  <2>2. CASE registry[a] # None
    <3>1. registry[a] \in Conns BY <2>2
    <3> QED BY <1>8, <2>2, <3>1 DEF Lookup
  <2> QED BY <2>1, <2>2
<1>9. ASSUME NEW p \in Clients, AgentCrash(p) PROVE TypeOK'
  BY <1>9 DEF AgentCrash
<1>10. CASE ServerCrash
  BY <1>10 DEF ServerCrash
<1>11. CASE UNCHANGED vars
  BY <1>11 DEF vars
<1> QED BY <1>1, <1>2, <1>3, <1>4, <1>5, <1>6, <1>7, <1>8, <1>9, <1>10, <1>11 DEF Next

\* The variables of the link keep their types in every behaviour, whatever the
\* sets of agents, processes, connections and commands.
THEOREM TypeCorrect == Spec => []TypeOK
<1>1. Init => TypeOK
  BY LinkAssumption DEF Init, TypeOK, HandlerStates, CallerStates, TaskStates,
     Answers, Verdicts, Outcomes
<1> QED BY <1>1, TypeStep, PTL DEF Spec, Safety

-----------------------------------------------------------------------------
\* Every step keeps the registry's entries backed by a running handler.
LEMMA EntryStep == TypeOK /\ EntryInv /\ [Next]_vars => EntryInv'
<1> SUFFICES ASSUME TypeOK, EntryInv, [Next]_vars PROVE EntryInv'
  OBVIOUS
<1> USE LinkAssumption DEF TypeOK, EntryInv, EntryHasHandler, Agent
<1>1. ASSUME NEW c \in Conns, ServerStep(c) PROVE EntryInv'
  <2>1. CASE Register(c) BY <2>1 DEF Register
  <2>2. CASE ReadError(c) BY <2>2 DEF ReadError
  <2>3. CASE Unregister(c) BY <2>3 DEF Unregister
  <2>4. CASE CloseConn(c) BY <2>4 DEF CloseConn
  <2>5. CASE HandleProgress(c) BY <2>5 DEF HandleProgress
  <2>6. CASE LookupResult(c) BY <2>6 DEF LookupResult
  <2>7. CASE DeliverResult(c) BY <2>7 DEF DeliverResult
  <2> QED BY <1>1, <2>1, <2>2, <2>3, <2>4, <2>5, <2>6, <2>7 DEF ServerStep
<1>2. ASSUME NEW k \in Cmds, CallStep(k) PROVE EntryInv'
  BY <1>2 DEF CallStep, AddPending, WriteCommand, WriteFails, ReceiveResult,
     Timeout, RemovePending
<1>3. ASSUME NEW k \in Cmds, TaskStep(k) PROVE EntryInv'
  BY <1>3 DEF TaskStep, Notify, SendResult, Execute
<1>4. ASSUME NEW c \in Conns, ClientRead(c) \/ ClientError(c) \/ Break(c)
      PROVE  EntryInv'
  BY <1>4 DEF ClientRead, ClientError, Break
<1>5. ASSUME NEW c \in Conns, NEW p \in Clients, Dial(p, c) PROVE EntryInv'
  BY <1>5 DEF Dial
<1>6. ASSUME NEW k \in Cmds, NEW a \in Agents, Lookup(k, a) PROVE EntryInv'
  BY <1>6 DEF Lookup
<1>7. ASSUME NEW p \in Clients, AgentCrash(p) PROVE EntryInv'
  BY <1>7 DEF AgentCrash
<1>8. CASE ServerCrash
  BY <1>8 DEF ServerCrash
<1>9. CASE UNCHANGED vars
  BY <1>9 DEF vars
<1> QED BY <1>1, <1>2, <1>3, <1>4, <1>5, <1>6, <1>7, <1>8, <1>9 DEF Next

\* No entry of the registry outlives the read loop of its connection.
THEOREM EntriesHaveHandlers == Spec => []EntryHasHandler
<1>1. Init => EntryInv
  BY DEF Init, EntryInv, EntryHasHandler
<1>2. EntryInv => EntryHasHandler
  BY DEF EntryInv
<1> QED BY <1>1, <1>2, TypeCorrect, EntryStep, PTL DEF Spec, Safety

-----------------------------------------------------------------------------
\* Every step keeps pending equal to the set of calls in progress.
LEMMA PendingStep == TypeOK /\ PendingExact /\ [Next]_vars => PendingExact'
<1> SUFFICES ASSUME TypeOK, PendingExact, [Next]_vars PROVE PendingExact'
  OBVIOUS
<1> USE LinkAssumption DEF TypeOK, PendingExact
<1>1. ASSUME NEW c \in Conns, ServerStep(c) PROVE PendingExact'
  BY <1>1 DEF ServerStep, Register, ReadError, Unregister, CloseConn,
     HandleProgress, LookupResult, DeliverResult
<1>2. ASSUME NEW k \in Cmds, CallStep(k) PROVE PendingExact'
  <2>1. CASE AddPending(k) BY <2>1 DEF AddPending
  <2>2. CASE WriteCommand(k) BY <2>2 DEF WriteCommand
  <2>3. CASE WriteFails(k) BY <2>3 DEF WriteFails
  <2>4. CASE ReceiveResult(k) BY <2>4 DEF ReceiveResult
  <2>5. CASE Timeout(k) BY <2>5 DEF Timeout
  <2>6. CASE RemovePending(k) BY <2>6 DEF RemovePending
  <2> QED BY <1>2, <2>1, <2>2, <2>3, <2>4, <2>5, <2>6 DEF CallStep
<1>3. ASSUME NEW k \in Cmds, TaskStep(k) PROVE PendingExact'
  BY <1>3 DEF TaskStep, Notify, SendResult, Execute
<1>4. ASSUME NEW c \in Conns, ClientRead(c) \/ ClientError(c) \/ Break(c)
      PROVE  PendingExact'
  BY <1>4 DEF ClientRead, ClientError, Break
<1>5. ASSUME NEW c \in Conns, NEW p \in Clients, Dial(p, c) PROVE PendingExact'
  BY <1>5 DEF Dial
<1>6. ASSUME NEW k \in Cmds, NEW a \in Agents, Lookup(k, a) PROVE PendingExact'
  BY <1>6 DEF Lookup
<1>7. ASSUME NEW p \in Clients, AgentCrash(p) PROVE PendingExact'
  BY <1>7 DEF AgentCrash
<1>8. CASE ServerCrash
  BY <1>8 DEF ServerCrash
<1>9. CASE UNCHANGED vars
  BY <1>9 DEF vars
<1> QED BY <1>1, <1>2, <1>3, <1>4, <1>5, <1>6, <1>7, <1>8, <1>9 DEF Next

\* A call has its pending entry exactly while it is in progress: nothing leaks.
THEOREM NoPendingLeak == Spec => []PendingExact
<1>1. Init => PendingExact
  BY LinkAssumption DEF Init, PendingExact
<1> QED BY <1>1, TypeCorrect, PendingStep, PTL DEF Spec, Safety

-----------------------------------------------------------------------------
\* Messages carry command ids.
LEMMA Ids ==
  ASSUME TypeOK
  PROVE  /\ \A c \in Conns : \A i \in 1..Len(up[c]) : up[c][i].id \in Cmds
         /\ \A c \in Conns : \A i \in 1..Len(down[c]) : down[c][i] \in Cmds
         /\ \A c \in Conns : routing[c] # None => routing[c].id \in Cmds
  BY DEF TypeOK, Message, Progress, Result

\* A write puts on the connection a command that was nowhere before.
LEMMA WriteDown ==
  ASSUME TypeOK, AnswersInv, NEW k \in Cmds, WriteCommand(k)
  PROVE  DownInv'
<1>1. PICK t \in Conns : t = target[k]
  BY DEF AnswersInv, CallerInv, WriteCommand
<1>2. /\ UNCHANGED <<target, ret, task>> /\ down[t] \in Seq(Cmds)
      /\ caller[k] = "added" /\ caller' = [caller EXCEPT ![k] = "waiting"]
      /\ down' = down \/ down' = [down EXCEPT ![t] = Append(@, k)]
  BY <1>1 DEF WriteCommand, TypeOK
<1>3. ret[k] = "none" /\ task[k] = "none" /\ ~Sent(k)
  BY <1>2 DEF AnswersInv, CallerInv, TaskInv, Sent
<1>4. Sent(k)' /\ \A x \in Cmds : Sent(x) => Sent(x)'
  BY <1>2, <1>3 DEF Sent, TypeOK
<1>5. DownInv
  BY DEF AnswersInv
<1>6. CASE down' = down
  BY <1>2, <1>4, <1>5, <1>6, Ids DEF DownInv
<1>7. CASE down' = [down EXCEPT ![t] = Append(@, k)]
  <2>1. \A c \in Conns \ {t} : down'[c] = down[c]
    BY <1>7 DEF TypeOK
  <2>2. down'[t] = Append(down[t], k)
    BY <1>7 DEF TypeOK
  <2>3. \A i \in 1..Len(down[t]) : down[t][i] # k
    BY <1>3, <1>5 DEF DownInv
  <2>4. ASSUME NEW c \in Conns, NEW i \in 1..Len(down'[c])
        PROVE  /\ target'[down'[c][i]] = c /\ Sent(down[c][i])' /\ task'[down'[c][i]] = "none"
               /\ \A j \in 1..Len(down'[c]) : down'[c][i] = down'[c][j] => i = j
    <3>1. CASE c # t
      BY <1>2, <1>4, <1>5, <2>1, <2>4, <3>1, Ids DEF DownInv
    <3>2. CASE c = t
      <4>1. /\ \A j \in 1..Len(down[t]) : down'[t][j] = down[t][j] /\ down[t][j] \in Cmds
            /\ down'[t][Len(down[t]) + 1] = k
            /\ Len(down'[t]) = Len(down[t]) + 1
        BY <1>2, <2>2, AppendElements, Ids
      <4>2. \A j \in 1..Len(down'[t]) : j \in 1..Len(down[t]) \/ j = Len(down[t]) + 1
        BY <1>2, <4>1
      <4> QED BY <1>1, <1>2, <1>3, <1>4, <1>5, <2>3, <2>4, <3>2, <4>1, <4>2 DEF DownInv
    <3> QED BY <3>1, <3>2
  <2> QED BY <2>4 DEF DownInv
<1> QED BY <1>2, <1>6, <1>7

\* Commands under way stay so when down, and what is known of them, are kept.
LEMMA KeepDown ==
  ASSUME TypeOK, AnswersInv, down' = down,
         \A x \in Cmds : Sent(x) /\ task[x] = "none" =>
           Sent(x)' /\ task'[x] = "none" /\ target'[x] = target[x]
  PROVE  DownInv'
  BY Ids DEF AnswersInv, DownInv

\* Results under way stay genuine when up, and what is known of finished
\* commands, are kept, and no handler takes up a result.
LEMMA KeepResults ==
  ASSUME TypeOK, AnswersInv, up' = up,
         \A c \in Conns : routing'[c] \in {routing[c], None},
         \A x \in Cmds : task[x] = "gone" /\ Unanswered(x) =>
           /\ task'[x] = "gone" /\ via'[x] = via[x] /\ verdict'[x] = verdict[x]
           /\ Unanswered(x)'
  PROVE  UpInv' /\ RoutingInv'
<1>1. UpInv'
  BY Ids DEF AnswersInv, UpInv, Carried
<1>2. RoutingInv'
  BY Ids DEF AnswersInv, RoutingInv, Carried
<1> QED BY <1>1, <1>2

\* A step of SendCommand or a crash of the server, which leaves the agent and
\* the messages alone.
LEMMA KeepAgent ==
  ASSUME TypeOK, AnswersInv, UNCHANGED <<up, down, task, via, verdict>>,
         \A c \in Conns : routing'[c] \in {routing[c], None},
         \A x \in Cmds : /\ (Sent(x) => Sent(x)' /\ target'[x] = target[x])
                         /\ (Unanswered(x) => Unanswered(x)')
  PROVE  DownInv' /\ TaskInv' /\ UpInv' /\ RoutingInv'
<1>1. DownInv' BY KeepDown
<1>2. TaskInv' BY DEF AnswersInv, TaskInv
<1>3. UpInv' /\ RoutingInv' BY KeepResults
<1> QED BY <1>1, <1>2, <1>3

\* A step that touches nothing the invariant speaks of.
LEMMA KeepAll ==
  ASSUME AnswersInv,
         UNCHANGED <<caller, target, ch, ret, down, up, via, task, verdict, routing>>
  PROVE  AnswersInv'
  BY DEF AnswersInv, CallerInv, DownInv, TaskInv, UpInv, RoutingInv, AnswerInv,
     Carried, Sent, Unanswered

\* The steps of SendCommand after the look-up.
LEMMA AnswersCallStep ==
  ASSUME TypeOK, AnswersInv, NEW k \in Cmds, CallStep(k)
  PROVE  AnswersInv'
<1>1. CASE AddPending(k) \/ RemovePending(k)
  <2>1. /\ UNCHANGED <<target, ch, ret, routing, up, down, task, via, verdict>>
        /\ \A x \in Cmds \ {k} : caller'[x] = caller[x]
        /\ \/ caller[k] = "looked" /\ caller'[k] = "added"
           \/ caller[k] = "leaving" /\ caller'[k] = "done"
    BY <1>1 DEF AddPending, RemovePending, TypeOK
  <2>2. \A x \in Cmds : (Sent(x) => Sent(x)') /\ (Unanswered(x) => Unanswered(x)')
    BY <2>1 DEF Sent, Unanswered
  <2>3. CallerInv' BY <2>1 DEF AnswersInv, CallerInv
  <2>4. DownInv' /\ TaskInv' /\ UpInv' /\ RoutingInv' BY <2>1, <2>2, KeepAgent
  <2>5. AnswerInv' BY <2>1 DEF AnswersInv, AnswerInv
  <2> QED BY <2>3, <2>4, <2>5 DEF AnswersInv
<1>2. CASE WriteCommand(k)
  <2>1. /\ UNCHANGED <<target, ch, ret, routing, up, task, via, verdict>>
        /\ \A x \in Cmds \ {k} : caller'[x] = caller[x]
        /\ caller[k] = "added" /\ caller'[k] = "waiting"
    BY <1>2 DEF WriteCommand, TypeOK
  <2>2. \A x \in Cmds : (Sent(x) => Sent(x)') /\ (Unanswered(x) => Unanswered(x)')
    BY <2>1 DEF Sent, Unanswered
  <2>3. CallerInv' BY <2>1 DEF AnswersInv, CallerInv
  <2>4. DownInv' BY <1>2, WriteDown
  <2>5. TaskInv' BY <2>1, <2>2 DEF AnswersInv, TaskInv
  <2>6. UpInv' /\ RoutingInv' BY <2>1, <2>2, KeepResults
  <2>7. AnswerInv' BY <2>1 DEF AnswersInv, AnswerInv
  <2> QED BY <2>3, <2>4, <2>5, <2>6, <2>7 DEF AnswersInv
<1>3. CASE WriteFails(k) \/ Timeout(k)
  <2>1. /\ UNCHANGED <<target, ch, routing, up, down, task, via, verdict>>
        /\ \A x \in Cmds \ {k} : caller'[x] = caller[x] /\ ret'[x] = ret[x]
        /\ caller'[k] = "leaving"
        /\ \/ caller[k] = "added" /\ ret'[k] = "senderr"
           \/ caller[k] = "waiting" /\ ret'[k] = "timeout"
    BY <1>3 DEF WriteFails, Timeout, TypeOK
  <2>2. \A x \in Cmds : (Sent(x) => Sent(x)') /\ (Unanswered(x) => Unanswered(x)')
    BY <2>1 DEF Sent, Unanswered, Outcomes
  <2>3. CallerInv' BY <2>1 DEF AnswersInv, CallerInv
  <2>4. DownInv' /\ TaskInv' /\ UpInv' /\ RoutingInv' BY <2>1, <2>2, KeepAgent
  <2>5. AnswerInv' BY <2>1 DEF AnswersInv, AnswerInv, Outcomes, CallerInv
  <2> QED BY <2>3, <2>4, <2>5 DEF AnswersInv
<1>4. CASE ReceiveResult(k)
  <2>1. /\ UNCHANGED <<target, routing, up, down, task, via, verdict>>
        /\ \A x \in Cmds \ {k} : /\ caller'[x] = caller[x] /\ ret'[x] = ret[x]
                                 /\ ch'[x] = ch[x]
        /\ caller[k] = "waiting" /\ caller'[k] = "leaving"
        /\ ch[k] \in Outcomes /\ ret'[k] = ch[k] /\ ch'[k] = "none"
    BY <1>4 DEF ReceiveResult, TypeOK, Verdicts
  <2>2. \A x \in Cmds : (Sent(x) => Sent(x)') /\ (Unanswered(x) => Unanswered(x)')
    BY <2>1 DEF Sent, Unanswered, Outcomes
  <2>3. CallerInv' BY <2>1 DEF AnswersInv, CallerInv
  <2>4. DownInv' /\ TaskInv' /\ UpInv' /\ RoutingInv' BY <2>1, <2>2, KeepAgent
  <2>5. AnswerInv' BY <2>1 DEF AnswersInv, AnswerInv, Outcomes
  <2> QED BY <2>3, <2>4, <2>5 DEF AnswersInv
<1> QED BY <1>1, <1>2, <1>3, <1>4 DEF CallStep

\* When a handler takes a message the results behind it stay genuine.
LEMMA UpShrinks ==
  ASSUME TypeOK, AnswersInv, NEW c \in Conns, Take(c, "progress") \/ Take(c, "result"),
         UNCHANGED <<ch, ret, via, task, verdict>>,
         \A d \in Conns \ {c} : routing'[d] = routing[d],
         routing'[c] \in {None, up[c][1]},
         routing'[c] # None => up[c][1].type = "result"
  PROVE  UpInv'
<1>1. up[c] \in Seq(Message) /\ up[c] # <<>> /\ up' = [up EXCEPT ![c] = Tail(@)]
  BY DEF Take, TypeOK
<1>2. up'[c] = Tail(up[c]) /\ \A d \in Conns \ {c} : up'[d] = up[d]
  BY <1>1 DEF TypeOK
<1>3. /\ 1 \in 1..Len(up[c]) /\ Len(up'[c]) \in Nat
      /\ \A i \in 1..Len(up'[c]) : i + 1 \in 1..Len(up[c]) /\ up'[c][i] = up[c][i + 1]
  <2>1. /\ 1 \in 1..Len(up[c]) /\ Tail(up[c]) \in Seq(Message)
        /\ \A i \in 1..Len(Tail(up[c])) : /\ i + 1 \in 1..Len(up[c])
                                          /\ Tail(up[c])[i] = up[c][i + 1]
    BY <1>1, TailElements
  <2> QED BY <1>2, <2>1
<1>4. SUFFICES ASSUME NEW d \in Conns, NEW i \in 1..Len(up'[d]), up'[d][i].type = "result"
               PROVE  /\ Carried(up[d][i], d)'
                      /\ routing'[d] # None => routing'[d].id # up'[d][i].id
                      /\ \A j \in 1..Len(up'[d]) :
                           up'[d][j].type = "result" /\ up'[d][i].id = up'[d][j].id => i = j
  BY DEF UpInv
<1>5. CASE d # c
  BY <1>2, <1>4, <1>5 DEF AnswersInv, UpInv, Carried, Unanswered
<1>6. CASE d = c
  <2>1. UpInv
    BY DEF AnswersInv
  <2>2. /\ i + 1 \in 1..Len(up[c]) /\ up'[c][i] = up[c][i + 1] /\ i + 1 # 1
        /\ up[c][i + 1].type = "result"
    BY <1>3, <1>4, <1>6
  <2>3. Carried(up[c][i + 1], c)
    BY <2>1, <2>2 DEF UpInv
  <2>4. routing'[c] # None => routing'[c].id # up'[c][i].id
    BY <1>3, <2>1, <2>2 DEF UpInv
  <2>5. ASSUME NEW j \in 1..Len(up'[c]), up'[c][j].type = "result",
               up'[c][i].id = up'[c][j].id
        PROVE  i = j
    <3>1. j + 1 \in 1..Len(up[c]) /\ up'[c][j] = up[c][j + 1]
      BY <1>3
    <3>2. i + 1 = j + 1
      BY <2>1, <2>2, <2>5, <3>1 DEF UpInv
    <3> QED BY <1>3, <1>6, <3>2
  <2> QED BY <1>6, <2>2, <2>3, <2>4, <2>5 DEF Carried, Unanswered
<1> QED BY <1>5, <1>6

\* The steps of a connection's read loop and of its end.
LEMMA AnswersServerStep ==
  ASSUME TypeOK, AnswersInv, NEW c \in Conns, ServerStep(c)
  PROVE  AnswersInv'
<1>1. CASE Register(c) \/ ReadError(c) \/ Unregister(c) \/ CloseConn(c)
  BY <1>1, KeepAll DEF Register, ReadError, Unregister, CloseConn
<1>3. CASE HandleProgress(c)
  <2>1. UNCHANGED <<caller, target, ch, ret, down, via, task, verdict, routing>>
    BY <1>3 DEF HandleProgress
  <2>2. UpInv'
    BY <1>3, <2>1, UpShrinks DEF HandleProgress, Take
  <2>3. CallerInv' /\ DownInv' /\ TaskInv'
    BY <2>1 DEF AnswersInv, CallerInv, DownInv, TaskInv, Sent
  <2>4. RoutingInv' /\ AnswerInv'
    BY <2>1 DEF AnswersInv, RoutingInv, Carried, Unanswered, AnswerInv
  <2> QED BY <2>2, <2>3, <2>4 DEF AnswersInv
<1>4. CASE LookupResult(c)
  <2>1. UNCHANGED <<caller, target, ch, ret, down, via, task, verdict>>
    BY <1>4 DEF LookupResult
  <2>2. /\ \A d \in Conns \ {c} : routing'[d] = routing[d]
        /\ routing[c] = None /\ routing'[c] \in {None, up[c][1]}
        /\ up[c][1].type = "result" /\ 1 \in 1..Len(up[c])
    BY <1>4, TailElements DEF LookupResult, Take, TypeOK
  <2>3. UpInv'
    BY <1>4, <2>1, <2>2, UpShrinks DEF LookupResult
  <2>4. RoutingInv'
    BY <2>1, <2>2 DEF AnswersInv, UpInv, RoutingInv, Carried, Unanswered
  <2>5. CallerInv' /\ DownInv' /\ TaskInv'
    BY <2>1 DEF AnswersInv, CallerInv, DownInv, TaskInv, Sent
  <2>6. AnswerInv'
    BY <2>1 DEF AnswersInv, AnswerInv
  <2> QED BY <2>3, <2>4, <2>5, <2>6 DEF AnswersInv
<1>5. CASE DeliverResult(c)
  <2>1. PICK k \in Cmds : routing[c].id = k
    BY <1>5, Ids DEF DeliverResult
  <2>2. /\ UNCHANGED <<caller, target, ret, down, up, via, task, verdict>>
        /\ routing[c] # None /\ routing'[c] = None
        /\ \A d \in Conns \ {c} : routing'[d] = routing[d]
        /\ ch'[k] = routing[c].verdict /\ \A x \in Cmds \ {k} : ch'[x] = ch[x]
    BY <1>5, <2>1 DEF DeliverResult, TypeOK
  <2>3. Carried(routing[c], c)
    BY <2>2 DEF AnswersInv, RoutingInv
  <2>4. \A d \in Conns : \A i \in 1..Len(up[d]) : up[d][i].type = "result" => up[d][i].id # k
    BY <2>1, <2>2, <2>3 DEF AnswersInv, UpInv, Carried
  <2>5. \A d \in Conns \ {c} : routing[d] # None => routing[d].id # k
    BY <2>1, <2>3 DEF AnswersInv, RoutingInv, Carried
  <2>6. UpInv'
    BY <2>2, <2>4, Ids DEF AnswersInv, UpInv, Carried, Unanswered
  <2>7. RoutingInv'
    BY <2>2, <2>5, Ids DEF AnswersInv, RoutingInv, Carried, Unanswered
  <2>8. AnswerInv'
    BY <2>1, <2>2, <2>3 DEF AnswersInv, AnswerInv, Carried, Unanswered
  <2>9. CallerInv' /\ DownInv' /\ TaskInv'
    BY <2>2 DEF AnswersInv, CallerInv, DownInv, TaskInv, Sent
  <2> QED BY <2>6, <2>7, <2>8, <2>9 DEF AnswersInv
<1> QED BY <1>1, <1>3, <1>4, <1>5 DEF ServerStep

\* The steps of the goroutine that executes a command.
LEMMA AnswersTaskStep ==
  ASSUME TypeOK, AnswersInv, NEW k \in Cmds, TaskStep(k)
  PROVE  AnswersInv'
<1>1. ASSUME NEW m \in Message, Send(via[k], m), task[k] # "none"
      PROVE  /\ \A d \in Conns : \A i \in 1..Len(up'[d]) :
                  \/ i \in 1..Len(up[d]) /\ up'[d][i] = up[d][i]
                  \/ d = via[k] /\ i = Len(up[d]) + 1 /\ up'[d][i] = m
  <2>1. PICK c \in Conns : c = via[k]
    BY <1>1 DEF AnswersInv, TaskInv
  <2>2. up[c] \in Seq(Message) /\ Len(up[c]) \in Nat
    BY DEF TypeOK
  <2>3. CASE up' = up
    BY <2>3
  <2>4. CASE up' = [up EXCEPT ![c] = Append(@, m)]
    <3>1. up'[c] = Append(up[c], m) /\ \A d \in Conns \ {c} : up'[d] = up[d]
      BY <2>4 DEF TypeOK
    <3>2. /\ Len(up'[c]) = Len(up[c]) + 1
          /\ \A i \in 1..Len(up[c]) : up'[c][i] = up[c][i]
          /\ up'[c][Len(up[c]) + 1] = m
      BY <2>2, <3>1, <1>1, AppendElements
    <3>3. \A i \in 1..Len(up'[c]) : i \in 1..Len(up[c]) \/ i = Len(up[c]) + 1
      BY <2>2, <3>2
    <3> QED BY <2>1, <3>1, <3>2, <3>3
  <2> QED BY <1>1, <2>1, <2>3, <2>4 DEF Send
<1>2. CASE Notify(k)
  <2> DEFINE m == [type |-> "progress", id |-> k, stage |-> stage[k] + 1]
  <2>1. stage[k] \in 0..3 /\ stage[k] < 3
    BY <1>2 DEF Notify, TypeOK
  <2>2. m \in Message /\ m.type # "result"
    BY <2>1 DEF Message, Progress
  <2>3. /\ UNCHANGED <<caller, target, ch, ret, down, via, task, verdict, routing>>
        /\ task[k] # "none" /\ Send(via[k], m)
    BY <1>2 DEF Notify
  <2>4. \A d \in Conns : \A i \in 1..Len(up'[d]) : up'[d][i].type = "result" =>
          i \in 1..Len(up[d]) /\ up'[d][i] = up[d][i]
    BY <1>1, <2>2, <2>3
  <2>5. UpInv'
    BY <2>3, <2>4 DEF AnswersInv, UpInv, Carried, Unanswered
  <2>6. CallerInv' /\ DownInv' /\ TaskInv'
    BY <2>3 DEF AnswersInv, CallerInv, DownInv, TaskInv, Sent
  <2>7. RoutingInv' /\ AnswerInv'
    BY <2>3 DEF AnswersInv, RoutingInv, Carried, Unanswered, AnswerInv
  <2> QED BY <2>5, <2>6, <2>7 DEF AnswersInv
<1>3. CASE SendResult(k)
  <2> DEFINE m == [type |-> "result", id |-> k, verdict |-> verdict[k]]
  <2>1. m \in Message
    BY DEF Message, Result, TypeOK
  <2>2. /\ UNCHANGED <<caller, target, ch, ret, down, via, verdict, routing>>
        /\ task[k] = "ran" /\ task'[k] = "gone" /\ Send(via[k], m)
        /\ \A x \in Cmds \ {k} : task'[x] = task[x]
    BY <1>3 DEF SendResult, TypeOK
  <2>3. Unanswered(k)
    BY <2>2 DEF AnswersInv, AnswerInv, Unanswered
  <2>4. \A d \in Conns : \A i \in 1..Len(up[d]) : up[d][i].type = "result" => up[d][i].id # k
    BY <2>2 DEF AnswersInv, UpInv, Carried
  <2>5. \A d \in Conns : routing[d] # None => routing[d].id # k
    BY <2>2 DEF AnswersInv, RoutingInv, Carried
  <2>6. \A d \in Conns : \A i \in 1..Len(up'[d]) :
          \/ i \in 1..Len(up[d]) /\ up'[d][i] = up[d][i]
          \/ d = via[k] /\ i = Len(up[d]) + 1 /\ up'[d][i] = m
    BY <1>1, <2>1, <2>2
  <2>7. UpInv'
    <3> SUFFICES ASSUME NEW d \in Conns, NEW i \in 1..Len(up'[d]), up'[d][i].type = "result"
                 PROVE  /\ Carried(up[d][i], d)'
                        /\ routing'[d] # None => routing'[d].id # up'[d][i].id
                        /\ \A j \in 1..Len(up'[d]) :
                             up'[d][j].type = "result" /\ up'[d][i].id = up'[d][j].id => i = j
      BY DEF UpInv
    <3>1. CASE i \in 1..Len(up[d]) /\ up'[d][i] = up[d][i]
      BY <2>2, <2>4, <2>6, <3>1, Ids DEF AnswersInv, UpInv, Carried, Unanswered
    <3>2. CASE d = via[k] /\ i = Len(up[d]) + 1 /\ up'[d][i] = m
      BY <2>2, <2>3, <2>4, <2>5, <2>6, <3>2 DEF Carried, Unanswered
    <3> QED BY <2>6, <3>1, <3>2
  <2>8. RoutingInv'
    BY <2>2, <2>5, Ids DEF AnswersInv, RoutingInv, Carried, Unanswered
  <2>9. CallerInv'
    BY <2>2 DEF AnswersInv, CallerInv
  <2>10. DownInv'
    <3>1. \A x \in Cmds : (Sent(x) => Sent(x)') /\ target'[x] = target[x]
      BY <2>2 DEF Sent
    <3> QED BY <2>2, <3>1, KeepDown
  <2>11. TaskInv'
    BY <2>2 DEF AnswersInv, TaskInv, Sent
  <2>12. AnswerInv'
    BY <2>2, <2>3 DEF AnswersInv, AnswerInv, Unanswered
  <2> QED BY <2>7, <2>8, <2>9, <2>10, <2>11, <2>12 DEF AnswersInv
<1>4. ASSUME NEW v \in Outcomes, Execute(k, v) PROVE AnswersInv'
  <2>1. /\ UNCHANGED <<caller, target, ch, ret, down, up, via, routing>>
        /\ task[k] = "running" /\ task'[k] = "ran" /\ verdict'[k] = v
        /\ \A x \in Cmds \ {k} : task'[x] = task[x] /\ verdict'[x] = verdict[x]
    BY <1>4 DEF Execute, TypeOK
  <2>2. \A x \in Cmds : /\ (Sent(x) => Sent(x)' /\ target'[x] = target[x])
                        /\ (Unanswered(x) => Unanswered(x)')
    BY <2>1 DEF Sent, Unanswered
  <2>3. DownInv' BY <2>1, <2>2, KeepDown
  <2>4. UpInv' /\ RoutingInv' BY <2>1, <2>2, KeepResults
  <2>5. CallerInv' BY <2>1 DEF AnswersInv, CallerInv
  <2>6. TaskInv' BY <2>1, <2>2 DEF AnswersInv, TaskInv, Outcomes
  <2>7. AnswerInv' BY <2>1 DEF AnswersInv, AnswerInv
  <2> QED BY <2>3, <2>4, <2>5, <2>6, <2>7 DEF AnswersInv
<1> QED BY <1>2, <1>3, <1>4 DEF TaskStep

\* Every step keeps each command, and each result, in one place.
LEMMA AnswersStep == TypeOK /\ AnswersInv /\ [Next]_vars => AnswersInv'
<1> SUFFICES ASSUME TypeOK, AnswersInv, [Next]_vars PROVE AnswersInv'
  OBVIOUS
<1>1. ASSUME NEW c \in Conns, ClientRead(c) PROVE AnswersInv'
  <2>1. PICK k \in Cmds : /\ k = Head(down[c]) /\ k = down[c][1] /\ 1 \in 1..Len(down[c])
                          /\ \A i \in 1..Len(Tail(down[c])) :
                               /\ i + 1 \in 1..Len(down[c])
                               /\ Tail(down[c])[i] = down[c][i + 1]
    BY <1>1, TailElements DEF ClientRead, TypeOK
  <2>2. /\ UNCHANGED <<caller, target, ch, ret, up, verdict, routing>>
        /\ task'[k] = "running" /\ via'[k] = c /\ down'[c] = Tail(down[c])
        /\ \A x \in Cmds \ {k} : task'[x] = task[x] /\ via'[x] = via[x]
        /\ \A d \in Conns \ {c} : down'[d] = down[d]
    BY <1>1, <2>1 DEF ClientRead, TypeOK
  <2>3. Sent(k) /\ task[k] = "none" /\ target[k] = c
    BY <2>1 DEF AnswersInv, DownInv
  <2>4. DownInv'
    <3>1. DownInv
      BY DEF AnswersInv
    <3>2. \A d \in Conns \ {c} : \A i \in 1..Len(down[d]) : down[d][i] \in Cmds \ {k}
      BY <2>3, <3>1, Ids DEF DownInv
    <3>3. \A i \in 1..Len(down'[c]) : /\ i + 1 \in 1..Len(down[c]) /\ i + 1 # 1
                                      /\ down'[c][i] = down[c][i + 1]
      BY <2>1, <2>2
    <3>4. \A i \in 1..Len(down'[c]) : down'[c][i] \in Cmds \ {k}
      BY <2>1, <3>1, <3>3, Ids DEF DownInv
    <3>5. \A x \in Cmds \ {k} : Sent(x)' = Sent(x) /\ task'[x] = task[x]
      BY <2>2 DEF Sent
    <3>6. ASSUME NEW i \in 1..Len(down'[c]), NEW j \in 1..Len(down'[c]),
                 down'[c][i] = down'[c][j]
          PROVE  i = j
      <4>1. i + 1 = j + 1
        BY <3>1, <3>3, <3>6 DEF DownInv
      <4> QED BY <4>1
    <3>7. ASSUME NEW d \in Conns, NEW i \in 1..Len(down'[d])
          PROVE  /\ target'[down'[d][i]] = d /\ Sent(down[d][i])' /\ task'[down'[d][i]] = "none"
                 /\ \A j \in 1..Len(down'[d]) : down'[d][i] = down'[d][j] => i = j
      <4>1. CASE d = c
        <5>1. /\ target[down[c][i + 1]] = c /\ Sent(down[c][i + 1])
              /\ task[down[c][i + 1]] = "none"
          BY <3>1, <3>3, <3>7, <4>1 DEF DownInv
        <5>2. PICK x \in Cmds \ {k} : x = down'[c][i] /\ x = down[c][i + 1]
          BY <3>3, <3>4, <3>7, <4>1
        <5> QED BY <2>2, <3>5, <3>6, <3>7, <4>1, <5>1, <5>2
      <4>2. CASE d # c
        <5>1. PICK x \in Cmds \ {k} : x = down'[d][i] /\ x = down[d][i]
          BY <2>2, <3>2, <3>7, <4>2
        <5> QED BY <2>2, <3>1, <3>5, <3>7, <4>2, <5>1 DEF DownInv
      <4> QED BY <4>1, <4>2
    <3> QED BY <3>7 DEF DownInv
  <2>5. TaskInv'
    BY <2>2, <2>3 DEF AnswersInv, TaskInv, Sent
  <2>6. UpInv' /\ RoutingInv'
    <3>1. \A x \in Cmds : Unanswered(x) => Unanswered(x)'
      BY <2>2 DEF Unanswered
    <3> QED BY <2>2, <2>3, <3>1, KeepResults
  <2>7. CallerInv' BY <2>2 DEF AnswersInv, CallerInv
  <2>8. AnswerInv' BY <2>2, <2>3 DEF AnswersInv, AnswerInv
  <2> QED BY <2>4, <2>5, <2>6, <2>7, <2>8 DEF AnswersInv
<1>2. ASSUME NEW c \in Conns, ClientError(c) \/ Break(c) PROVE AnswersInv'
  BY <1>2, KeepAll DEF ClientError, Break
<1>3. ASSUME NEW c \in Conns, NEW p \in Clients, Dial(p, c) PROVE AnswersInv'
  BY <1>3, KeepAll DEF Dial
<1>4. ASSUME NEW k \in Cmds, NEW a \in Agents, Lookup(k, a) PROVE AnswersInv'
  <2>1. /\ UNCHANGED <<routing, ch, up, down, task, via, verdict>>
        /\ \A x \in Cmds \ {k} : /\ caller'[x] = caller[x] /\ ret'[x] = ret[x]
                                 /\ target'[x] = target[x]
        /\ caller[k] = "idle" /\ caller'[k] \in {"done", "looked"}
        /\ ret'[k] \in {"notfound", ret[k]}
        /\ caller'[k] = "looked" => target'[k] \in Conns /\ ret'[k] = ret[k]
    BY <1>4 DEF Lookup, TypeOK
  <2>2. \A x \in Cmds : /\ (Sent(x) => Sent(x)' /\ target'[x] = target[x])
                        /\ (Unanswered(x) => Unanswered(x)')
    BY <2>1 DEF Sent, Unanswered, Outcomes
  <2>3. DownInv' BY <2>1, <2>2, KeepDown
  <2>4. TaskInv' BY <2>1, <2>2 DEF AnswersInv, TaskInv
  <2>5. UpInv' /\ RoutingInv' BY <2>1, <2>2, KeepResults
  <2>6. CallerInv' BY <2>1 DEF AnswersInv, CallerInv
  <2>7. AnswerInv' BY <2>1 DEF AnswersInv, AnswerInv, Outcomes
  <2> QED BY <2>3, <2>4, <2>5, <2>6, <2>7 DEF AnswersInv
<1>5. ASSUME NEW p \in Clients, AgentCrash(p) PROVE AnswersInv'
  <2>1. /\ UNCHANGED <<routing, caller, target, ch, ret, down, up, via, verdict>>
        /\ \A x \in Cmds :
             task'[x] = task[x] \/ (task[x] \in {"running", "ran"} /\ task'[x] = "gone")
    BY <1>5 DEF AgentCrash
  <2>2. \A x \in Cmds : /\ (Sent(x) => Sent(x)' /\ target'[x] = target[x])
                        /\ (Unanswered(x) => Unanswered(x)')
    BY <2>1 DEF Sent, Unanswered
  <2>3. DownInv' BY <2>1, <2>2, KeepDown
  <2>4. TaskInv' BY <2>1, <2>2 DEF AnswersInv, TaskInv
  <2>5. UpInv' /\ RoutingInv' BY <2>1, <2>2, KeepResults
  <2>6. CallerInv' BY <2>1 DEF AnswersInv, CallerInv
  <2>7. AnswerInv' BY <2>1 DEF AnswersInv, AnswerInv
  <2> QED BY <2>3, <2>4, <2>5, <2>6, <2>7 DEF AnswersInv
<1>6. CASE ServerCrash
  <2>1. /\ UNCHANGED <<target, up, down, task, via, verdict>>
        /\ \A c \in Conns : routing'[c] = None
        /\ \A x \in Cmds : ch'[x] = "none"
        /\ \A x \in Cmds : caller'[x] = IF caller[x] = "idle" THEN "idle" ELSE "done"
        /\ \A x \in Cmds : ret'[x] = IF caller[x] \in {"idle", "done"}
                                     THEN ret[x] ELSE "unavailable"
    BY <1>6 DEF ServerCrash
  <2>2. \A x \in Cmds : (Sent(x) => Sent(x)') /\ (Unanswered(x) => Unanswered(x)')
    BY <2>1 DEF Sent, Unanswered, Outcomes
  <2>3. DownInv' /\ TaskInv' /\ UpInv' /\ RoutingInv' BY <2>1, <2>2, KeepAgent
  <2>4. CallerInv' BY <2>1 DEF AnswersInv, CallerInv
  <2>5. AnswerInv' BY <2>1 DEF AnswersInv, AnswerInv, Outcomes
  <2> QED BY <2>3, <2>4, <2>5 DEF AnswersInv
<1>7. CASE UNCHANGED vars
  BY <1>7, KeepAll DEF vars
<1> QED BY <1>1, <1>2, <1>3, <1>4, <1>5, <1>6, <1>7, AnswersServerStep,
           AnswersCallStep, AnswersTaskStep DEF Next

\* The invariant holds in every behaviour.
THEOREM AnswersInvariant == Spec => []AnswersInv
<1>1. Init => AnswersInv
  BY DEF Init, AnswersInv, CallerInv, DownInv, TaskInv, UpInv, RoutingInv, AnswerInv,
     Outcomes
<1> QED BY <1>1, TypeCorrect, AnswersStep, PTL DEF Spec, Safety

\* A caller that gets a result gets the outcome of its own command, for any
\* number of connections, reconnections and concurrent calls.
THEOREM GenuineResults == Spec => []ResultsGenuine
<1>1. AnswersInv => ResultsGenuine
  BY DEF AnswersInv, AnswerInv, ResultsGenuine
<1> QED BY <1>1, AnswersInvariant, PTL

\* HandleResult never blocks a read loop.
THEOREM ReadLoopNeverBlocks == Spec => []HandlerNeverBlocks
<1>1. AnswersInv => HandlerNeverBlocks
  BY DEF AnswersInv, RoutingInv, Carried, Unanswered, HandlerNeverBlocks
<1> QED BY <1>1, AnswersInvariant, PTL

-----------------------------------------------------------------------------
(* The link implements CommandPort.                                        *)

\* A step that moves no call into or out of its open state, and executes
\* nothing, is a stutter of the port.
LEMMA Stutter ==
  ASSUME verdict' = verdict,
         \A k \in Cmds : CallState(k)' = CallState(k) /\ Answer(k)' = Answer(k)
  PROVE  UNCHANGED Port!vars
<1>1. CallBar' = CallBar
  BY DEF CallBar
<1>2. AnswerBar' = AnswerBar
  BY DEF AnswerBar
<1> QED BY <1>1, <1>2 DEF Port!vars

\* A step that changes the state of one call changes one entry of the port's.
LEMMA OneCall ==
  ASSUME NEW k \in Cmds,
         \A x \in Cmds \ {k} : CallState(x)' = CallState(x) /\ Answer(x)' = Answer(x)
  PROVE  /\ CallBar' = [CallBar EXCEPT ![k] = CallState(k)']
         /\ AnswerBar' = [AnswerBar EXCEPT ![k] = Answer(k)']
         /\ CallBar[k] = CallState(k) /\ AnswerBar[k] = Answer(k)
  BY DEF CallBar, AnswerBar

\* Every step of the link is a step of the port or none.
LEMMA PortStep ==
  TypeOK /\ AnswersInv /\ [Next]_vars => [Port!Next]_(Port!vars)
<1> SUFFICES ASSUME TypeOK, AnswersInv, [Next]_vars PROVE [Port!Next]_(Port!vars)
  OBVIOUS
<1>1. ASSUME UNCHANGED <<caller, ret, verdict>> PROVE UNCHANGED Port!vars
  BY <1>1, Stutter DEF CallState, Answer
<1>2. ASSUME NEW c \in Conns, ServerStep(c) \/ ClientRead(c) \/ ClientError(c) \/ Break(c)
      PROVE  UNCHANGED Port!vars
  BY <1>1, <1>2 DEF ServerStep, Register, ReadError, Unregister, CloseConn,
     HandleProgress, LookupResult, DeliverResult, ClientRead, ClientError, Break,
     callVars, agtVars
<1>3. ASSUME NEW c \in Conns, NEW p \in Clients, Dial(p, c) PROVE UNCHANGED Port!vars
  BY <1>1, <1>3 DEF Dial, callVars
<1>4. ASSUME NEW p \in Clients, AgentCrash(p) PROVE UNCHANGED Port!vars
  BY <1>1, <1>4 DEF AgentCrash, callVars
<1>5. ASSUME NEW k \in Cmds, Notify(k) \/ SendResult(k) PROVE UNCHANGED Port!vars
  BY <1>1, <1>5 DEF Notify, SendResult, callVars
<1>6. ASSUME NEW k \in Cmds, NEW v \in Outcomes, Execute(k, v)
      PROVE  Port!Execute(k, v)
  <2>1. /\ task[k] = "running" /\ UNCHANGED <<caller, ret>>
        /\ verdict' = [verdict EXCEPT ![k] = v]
    BY <1>6 DEF Execute, callVars
  <2>2. Sent(k) /\ verdict[k] = "none"
    BY <2>1 DEF AnswersInv, TaskInv
  <2>3. CallBar[k] # "idle" /\ AnswerBar[k] # "refused"
    BY <2>2 DEF Sent, CallBar, AnswerBar, CallState, Answer, Outcomes
  <2>4. UNCHANGED <<CallBar, AnswerBar>>
    BY <2>1 DEF CallBar, AnswerBar, CallState, Answer
  <2> QED BY <2>1, <2>2, <2>3, <2>4 DEF Port!Execute
<1>7. ASSUME NEW k \in Cmds, NEW a \in Agents, Lookup(k, a)
      PROVE  Port!Call(k) \/ Port!Refuse(k)
  <2>1. /\ caller[k] = "idle" /\ verdict' = verdict
        /\ \/ caller' = [caller EXCEPT ![k] = "done"] /\ ret' = [ret EXCEPT ![k] = "notfound"]
           \/ caller' = [caller EXCEPT ![k] = "looked"] /\ ret' = ret
    BY <1>7 DEF Lookup, agtVars
  <2>2. \A x \in Cmds \ {k} : CallState(x)' = CallState(x) /\ Answer(x)' = Answer(x)
    BY <2>1 DEF CallState, Answer, TypeOK
  <2>3. verdict[k] = "none"
    BY <2>1 DEF AnswersInv, TaskInv, Sent
  <2>4. CallState(k) = "idle" /\ Answer(k) = "none"
    BY <2>1 DEF CallState, Answer
  <2>5. CASE caller' = [caller EXCEPT ![k] = "done"] /\ ret' = [ret EXCEPT ![k] = "notfound"]
    <3>1. CallState(k)' = "closed" /\ Answer(k)' = "refused"
      BY <2>5 DEF CallState, Answer, TypeOK, Outcomes
    <3> QED BY <2>1, <2>2, <2>3, <2>4, <3>1, OneCall DEF Port!Refuse
  <2>6. CASE caller' = [caller EXCEPT ![k] = "looked"] /\ ret' = ret
    <3>1. CallState(k)' = "open" /\ Answer(k)' = Answer(k)
      BY <2>4, <2>6 DEF CallState, Answer, TypeOK
    <3>2. AnswerBar' = AnswerBar
      BY <2>2, <3>1 DEF AnswerBar
    <3> QED BY <2>1, <2>2, <2>4, <3>1, <3>2, OneCall DEF Port!Call
  <2> QED BY <2>1, <2>5, <2>6
<1>8. ASSUME NEW k \in Cmds, CallStep(k), ~RemovePending(k) PROVE UNCHANGED Port!vars
  <2>1. /\ verdict' = verdict /\ caller[k] \in {"looked", "added", "waiting"}
        /\ \E s \in {"added", "waiting", "leaving"} : caller' = [caller EXCEPT ![k] = s]
        /\ \A x \in Cmds \ {k} : ret'[x] = ret[x]
    BY <1>8 DEF CallStep, AddPending, WriteCommand, WriteFails, ReceiveResult, Timeout,
       agtVars, TypeOK
  <2>2. \A x \in Cmds : CallState(x)' = CallState(x) /\ Answer(x)' = Answer(x)
    BY <2>1 DEF CallState, Answer, TypeOK
  <2> QED BY <2>1, <2>2, Stutter
<1>9. ASSUME NEW k \in Cmds, RemovePending(k)
      PROVE  Port!Return(k) \/ Port!Refuse(k) \/ Port!GiveUp(k)
  <2>1. /\ caller[k] = "leaving" /\ caller' = [caller EXCEPT ![k] = "done"]
        /\ UNCHANGED <<ret, verdict>>
    BY <1>9 DEF RemovePending, agtVars
  <2>2. \A x \in Cmds \ {k} : CallState(x)' = CallState(x) /\ Answer(x)' = Answer(x)
    BY <2>1 DEF CallState, Answer, TypeOK
  <2>3. CallState(k) = "open" /\ CallState(k)' = "closed"
    BY <2>1 DEF CallState, TypeOK
  <2>4. CASE ret[k] \in Outcomes
    <3>1. verdict[k] = ret[k] /\ verdict[k] # "none" /\ Answer(k)' = verdict[k]
      BY <2>1, <2>4 DEF Answer, TypeOK, AnswersInv, AnswerInv, Outcomes
    <3> QED BY <2>1, <2>2, <2>3, <3>1, OneCall DEF Port!Return
  <2>5. CASE ret[k] \in {"notfound", "senderr"}
    <3>1. verdict[k] = "none" /\ Answer(k)' = "refused"
      BY <2>1, <2>5 DEF Answer, TypeOK, AnswersInv, TaskInv, Sent, Outcomes
    <3> QED BY <2>1, <2>2, <2>3, <3>1, OneCall DEF Port!Refuse
  <2>6. CASE ret[k] \notin Outcomes /\ ret[k] \notin {"notfound", "senderr"}
    <3>1. Answer(k)' = "unknown"
      BY <2>1, <2>6 DEF Answer, TypeOK
    <3> QED BY <2>1, <2>2, <2>3, <3>1, OneCall DEF Port!GiveUp
  <2> QED BY <2>4, <2>5, <2>6
<1>10. CASE ServerCrash
  <2>1. /\ verdict' = verdict
        /\ \A k \in Cmds : /\ caller'[k] = IF caller[k] = "idle" THEN "idle" ELSE "done"
                           /\ ret'[k] = IF caller[k] \in {"idle", "done"}
                                        THEN ret[k] ELSE "unavailable"
    BY <1>10 DEF ServerCrash, agtVars
  <2>2. \A k \in Cmds :
          /\ CallState(k)' = IF CallState(k) = "open" THEN "closed" ELSE CallState(k)
          /\ Answer(k)' = IF CallState(k) = "open" THEN "unknown" ELSE Answer(k)
    BY <2>1 DEF CallState, Answer, Outcomes
  <2>3. CallBar' = [k \in Cmds |-> IF CallBar[k] = "open" THEN "closed" ELSE CallBar[k]]
    BY <2>2 DEF CallBar
  <2>4. AnswerBar' = [k \in Cmds |-> IF CallBar[k] = "open" THEN "unknown" ELSE AnswerBar[k]]
    BY <2>2 DEF CallBar, AnswerBar
  <2> QED BY <2>1, <2>3, <2>4 DEF Port!Crash, Port!Next
<1>11. CASE UNCHANGED vars
  BY <1>1, <1>11 DEF vars, callVars, agtVars
<1>12. ASSUME NEW k \in Cmds, CallStep(k) \/ TaskStep(k) PROVE [Port!Next]_(Port!vars)
  BY <1>5, <1>6, <1>8, <1>9, <1>12 DEF TaskStep, Port!Next, Port!Outcomes, Outcomes
<1> QED BY <1>2, <1>3, <1>4, <1>7, <1>10, <1>11, <1>12 DEF Next, Port!Next

\* A command that was refused never runs, an accepted one runs at most once,
\* and its caller is told the outcome of that run or "unknown".
THEOREM LinkImplementsPort == Spec => ImplementsPort
<1>1. Init => Port!Init
  BY DEF Init, Port!Init, CallBar, AnswerBar, CallState, Answer
<1> QED
  BY <1>1, PortStep, TypeCorrect, AnswersInvariant, PTL
     DEF Spec, Safety, ImplementsPort, Port!Safety

-----------------------------------------------------------------------------
(* The entry of a connected agent.                                         *)

\* A connection whose handler runs and whose server end is open holds the entry
\* of its agent, unless another handler of that agent has run Unregister.
Deleted(c) ==
  \E d \in Conns \ {c} : /\ handler[d] \in {"closing", "done"}
                         /\ dialer[d] # None /\ Agent(d) = Agent(c)

HeldInv == \A c \in Conns :
  handler[c] = "serving" /\ c \in srvEnd => registry[Agent(c)] = c \/ Deleted(c)

\* A handler that has run Unregister has run it for good.
LEMMA DeletedStays ==
  ASSUME NEW c \in Conns, Deleted(c), UNCHANGED dialer,
         \A d \in Conns : handler[d] \in {"closing", "done"} =>
                            handler'[d] \in {"closing", "done"}
  PROVE  Deleted(c)'
  BY DEF Deleted, Agent

\* A step that moves no handler, entry or server end.
LEMMA KeepHeld ==
  ASSUME HeldInv, UNCHANGED <<handler, registry, srvEnd, dialer>>
  PROVE  HeldInv'
  BY DEF HeldInv, Deleted, Agent

\* A registration closes the connection that it takes the entry from.
LEMMA HeldRegister ==
  ASSUME TypeOK, EntryInv, HeldInv, NEW d \in Conns, Register(d)
  PROVE  HeldInv'
<1>1. /\ handler[d] = "upgraded" /\ handler' = [handler EXCEPT ![d] = "serving"]
      /\ registry' = [registry EXCEPT ![Agent(d)] = d]
      /\ srvEnd' = srvEnd \ {registry[Agent(d)]} /\ UNCHANGED dialer
  BY DEF Register
<1>2. dialer[d] \in Clients /\ Agent(d) \in Agents
  BY <1>1, LinkAssumption DEF EntryInv, Agent
<1>3. SUFFICES ASSUME NEW c \in Conns, handler'[c] = "serving", c \in srvEnd'
               PROVE  registry'[Agent(c)] = c \/ Deleted(c)'
  BY <1>1 DEF HeldInv, Agent
<1>4. CASE c = d
  BY <1>1, <1>2, <1>4 DEF TypeOK
<1>5. CASE c # d
  <2>1. handler[c] = "serving" /\ c \in srvEnd /\ c # registry[Agent(d)]
    BY <1>1, <1>3, <1>5 DEF TypeOK
  <2>2. CASE Deleted(c)
    BY <1>1, <2>2, DeletedStays DEF TypeOK
  <2>3. CASE registry[Agent(c)] = c
    <3>1. Agent(c) # Agent(d)
      BY <2>1, <2>3
    <3> QED BY <1>1, <2>3, <3>1 DEF TypeOK, Agent
  <2> QED BY <2>1, <2>2, <2>3 DEF HeldInv
<1> QED BY <1>4, <1>5

\* Unregister deletes the entry of every handler of the agent, and is recorded.
LEMMA HeldUnregister ==
  ASSUME TypeOK, EntryInv, HeldInv, NEW d \in Conns, Unregister(d)
  PROVE  HeldInv'
<1>1. /\ handler[d] = "exiting" /\ handler' = [handler EXCEPT ![d] = "closing"]
      /\ registry' = [registry EXCEPT ![Agent(d)] = None]
      /\ UNCHANGED <<dialer, srvEnd>>
  BY DEF Unregister
<1>2. dialer[d] \in Clients /\ dialer[d] # None
  BY <1>1, LinkAssumption DEF EntryInv
<1>3. SUFFICES ASSUME NEW c \in Conns, handler'[c] = "serving", c \in srvEnd
               PROVE  registry'[Agent(c)] = c \/ Deleted(c)'
  BY <1>1 DEF HeldInv, Agent
<1>4. handler[c] = "serving" /\ c # d
  BY <1>1, <1>3 DEF TypeOK
<1>5. CASE Deleted(c)
  BY <1>1, <1>5, DeletedStays DEF TypeOK
<1>6. CASE registry[Agent(c)] = c /\ Agent(c) = Agent(d)
  <2>1. handler'[d] = "closing" /\ dialer'[d] # None /\ Agent(d)' = Agent(c)'
    BY <1>1, <1>2, <1>6 DEF TypeOK, Agent
  <2> QED BY <1>4, <2>1 DEF Deleted
<1>7. CASE registry[Agent(c)] = c /\ Agent(c) # Agent(d)
  BY <1>1, <1>7 DEF TypeOK, Agent
<1> QED BY <1>3, <1>4, <1>5, <1>6, <1>7 DEF HeldInv

\* Every step keeps a served connection registered until an Unregister.
LEMMA HeldStep == TypeOK /\ EntryInv /\ HeldInv /\ [Next]_vars => HeldInv'
<1> SUFFICES ASSUME TypeOK, EntryInv, HeldInv, [Next]_vars PROVE HeldInv'
  OBVIOUS
<1>1. ASSUME NEW d \in Conns, ServerStep(d) PROVE HeldInv'
  <2>1. CASE ReadError(d) \/ CloseConn(d)
    <3>1. /\ UNCHANGED <<registry, dialer>> /\ srvEnd' \subseteq srvEnd
          /\ \A c \in Conns : handler'[c] = "serving" => handler[c] = "serving"
          /\ \A c \in Conns : handler[c] \in {"closing", "done"} =>
                                handler'[c] \in {"closing", "done"}
      BY <2>1 DEF ReadError, CloseConn, TypeOK
    <3> QED BY <3>1, DeletedStays DEF HeldInv, Agent
  <2>2. CASE HandleProgress(d) \/ LookupResult(d) \/ DeliverResult(d)
    BY <2>2, KeepHeld DEF HandleProgress, LookupResult, DeliverResult
  <2> QED BY <1>1, <2>1, <2>2, HeldRegister, HeldUnregister DEF ServerStep
<1>2. ASSUME NEW k \in Cmds, CallStep(k) \/ TaskStep(k) PROVE HeldInv'
  BY <1>2, KeepHeld DEF CallStep, AddPending, WriteCommand, WriteFails, ReceiveResult,
     Timeout, RemovePending, TaskStep, Notify, SendResult, Execute
<1>3. ASSUME NEW c \in Conns, ClientRead(c) \/ ClientError(c) \/ Break(c)
      PROVE  HeldInv'
  BY <1>3, KeepHeld DEF ClientRead, ClientError, Break
<1>4. ASSUME NEW d \in Conns, NEW p \in Clients, Dial(p, d) PROVE HeldInv'
  <2>1. /\ UNCHANGED registry /\ srvEnd' = srvEnd \cup {d}
        /\ handler[d] = "none" /\ handler'[d] = "upgraded"
        /\ \A c \in Conns \ {d} : handler'[c] = handler[c] /\ dialer'[c] = dialer[c]
    BY <1>4 DEF Dial, TypeOK
  <2>2. ASSUME NEW c \in Conns, Deleted(c), handler[c] = "serving" PROVE Deleted(c)'
    BY <2>1, <2>2 DEF Deleted, Agent
  <2> QED BY <2>1, <2>2 DEF HeldInv, Agent
<1>5. ASSUME NEW k \in Cmds, NEW a \in Agents, Lookup(k, a) PROVE HeldInv'
  BY <1>5, KeepHeld DEF Lookup
<1>6. ASSUME NEW p \in Clients, AgentCrash(p) PROVE HeldInv'
  BY <1>6, KeepHeld DEF AgentCrash
<1>7. CASE ServerCrash
  BY <1>7 DEF ServerCrash, HeldInv
<1>8. CASE UNCHANGED vars
  BY <1>8, KeepHeld DEF vars
<1> QED BY <1>1, <1>2, <1>3, <1>4, <1>5, <1>6, <1>7, <1>8 DEF Next

\* The agent of a connection that is served loses its entry by an Unregister of
\* another handler and in no other way, however connections replace each other.
THEOREM EntryLostByUnregister == Spec => []LostOnlyByUnregister
<1>1. Init => EntryInv /\ HeldInv
  BY DEF Init, EntryInv, EntryHasHandler, HeldInv
<1>2. TypeOK /\ HeldInv => LostOnlyByUnregister
  BY LinkAssumption DEF TypeOK, HeldInv, Deleted, LostOnlyByUnregister, Healthy
<1> QED BY <1>1, <1>2, TypeCorrect, EntryStep, HeldStep, PTL DEF Spec, Safety

-----------------------------------------------------------------------------
(* Progress.                                                               *)

\* A connection that was never dialed has no client end and executes nothing.
DialedInv == \A c \in Conns :
  handler[c] = "none" => c \notin cliEnd /\ \A k \in Cmds : via[k] # c

\* The messages of a command travel on the connection that brought it, the
\* reports in ascending order, all ahead of what is shown, and the result last.
QueueInv == \A c \in Conns : \A i \in 1..Len(up[c]) :
  /\ via[up[c][i].id] = c /\ task[up[c][i].id] # "none"
  /\ up[c][i].type = "progress" => /\ progress[c][up[c][i].id] < up[c][i].stage
                                   /\ up[c][i].stage <= stage[up[c][i].id]
  /\ \A j \in 1..Len(up[c]) : j < i /\ up[c][j].id = up[c][i].id =>
       /\ up[c][j].type = "progress"
       /\ up[c][i].type = "progress" => up[c][j].stage < up[c][i].stage

\* What is shown was reported by the command's goroutine on this connection.
ShownInv == \A c \in Conns, k \in Cmds : progress[c][k] > 0 =>
  /\ via[k] = c /\ task[k] # "none" /\ progress[c][k] <= stage[k]

\* The result of k is under way on c; nothing of k is under way or shown there.
HasResult(c, k) == \E i \in 1..Len(up[c]) : up[c][i].type = "result" /\ up[c][i].id = k
Silent(c, k)    == progress[c][k] = 0 /\ \A i \in 1..Len(up[c]) : up[c][i].id # k

\* On a live connection a finished command has its result under way, or has
\* nothing under way and nothing shown.
FinishInv == \A c \in Conns, k \in Cmds :
  Healthy(c) /\ via[k] = c /\ task[k] = "gone" => HasResult(c, k) \/ Silent(c, k)

ProgressInv == DialedInv /\ QueueInv /\ ShownInv /\ FinishInv

\* The stages of commands, of what is shown, and of what is under way.
LEMMA Stages ==
  ASSUME TypeOK
  PROVE  /\ \A k \in Cmds : stage[k] \in 0..3
         /\ \A c \in Conns : \A k \in Cmds : progress[c][k] \in 0..3
         /\ \A c \in Conns : Len(up[c]) \in Nat
         /\ \A c \in Conns : \A i \in 1..Len(up[c]) :
              /\ up[c][i].id \in Cmds /\ up[c][i].type \in {"progress", "result"}
              /\ up[c][i].type = "progress" => up[c][i].stage \in 1..3
<1>1. /\ stage \in [Cmds -> 0..3] /\ progress \in [Conns -> [Cmds -> 0..3]]
      /\ up \in [Conns -> Seq(Message)]
  BY DEF TypeOK
<1>2. \A c \in Conns : Len(up[c]) \in Nat /\ \A i \in 1..Len(up[c]) : up[c][i] \in Message
  BY <1>1
<1> QED BY <1>1, <1>2 DEF Message, Progress, Result

\* What a write of a goroutine leaves on the connections.
LEMMA SendElements ==
  ASSUME TypeOK, NEW c \in Conns, NEW m \in Message, Send(c, m)
  PROVE  /\ \A d \in Conns : \A i \in 1..Len(up[d]) :
              i \in 1..Len(up'[d]) /\ up'[d][i] = up[d][i]
         /\ \A d \in Conns : \A i \in 1..Len(up'[d]) :
              \/ i \in 1..Len(up[d]) /\ up'[d][i] = up[d][i]
              \/ d = c /\ i = Len(up[c]) + 1 /\ up'[d][i] = m
         /\ Healthy(c) => /\ Len(up[c]) + 1 \in 1..Len(up'[c])
                          /\ up'[c][Len(up[c]) + 1] = m
<1>1. up[c] \in Seq(Message) /\ Len(up[c]) \in Nat
  BY DEF TypeOK
<1>2. CASE ~Healthy(c)
  BY <1>2 DEF Send
<1>3. CASE Healthy(c)
  <2>1. up'[c] = Append(up[c], m) /\ \A d \in Conns \ {c} : up'[d] = up[d]
    BY <1>3 DEF Send, TypeOK
  <2>2. /\ Len(up'[c]) = Len(up[c]) + 1
        /\ \A i \in 1..Len(up[c]) : up'[c][i] = up[c][i]
        /\ up'[c][Len(up[c]) + 1] = m
    BY <1>1, <2>1, AppendElements
  <2>3. \A i \in 1..Len(up'[c]) : i \in 1..Len(up[c]) \/ i = Len(up[c]) + 1
    BY <1>1, <2>2
  <2>4. /\ \A i \in 1..Len(up[c]) : i \in 1..Len(up'[c])
        /\ Len(up[c]) + 1 \in 1..Len(up'[c])
    BY <1>1, <2>2
  <2> QED BY <2>1, <2>2, <2>3, <2>4
<1> QED BY <1>2, <1>3

\* What a handler leaves when it takes a message.
LEMMA TakeElements ==
  ASSUME TypeOK, NEW c \in Conns, Take(c, "progress") \/ Take(c, "result")
  PROVE  /\ 1 \in 1..Len(up[c]) /\ Head(up[c]) = up[c][1]
         /\ \A d \in Conns \ {c} : up'[d] = up[d]
         /\ \A i \in 1..Len(up'[c]) : i + 1 \in 1..Len(up[c]) /\ up'[c][i] = up[c][i + 1]
         /\ \A i \in 1..Len(up[c]) \ {1} :
              i - 1 \in 1..Len(up'[c]) /\ up'[c][i - 1] = up[c][i]
<1>1. up[c] \in Seq(Message) /\ up[c] # <<>> /\ up' = [up EXCEPT ![c] = Tail(@)]
  BY DEF Take, TypeOK
<1>2. up'[c] = Tail(up[c]) /\ \A d \in Conns \ {c} : up'[d] = up[d]
  BY <1>1 DEF TypeOK
<1>3. /\ Head(up[c]) = up[c][1] /\ 1 \in 1..Len(up[c]) /\ Len(up'[c]) = Len(up[c]) - 1
      /\ \A i \in 1..Len(up'[c]) : i + 1 \in 1..Len(up[c]) /\ up'[c][i] = up[c][i + 1]
  <2>1. /\ Head(up[c]) = up[c][1] /\ 1 \in 1..Len(up[c])
        /\ Len(Tail(up[c])) = Len(up[c]) - 1
        /\ \A i \in 1..Len(Tail(up[c])) : /\ i + 1 \in 1..Len(up[c])
                                          /\ Tail(up[c])[i] = up[c][i + 1]
    BY <1>1, TailElements
  <2> QED BY <1>2, <2>1
<1>4. ASSUME NEW i \in 1..Len(up[c]) \ {1}
      PROVE  i - 1 \in 1..Len(up'[c]) /\ up'[c][i - 1] = up[c][i]
  <2>1. Len(up[c]) \in Nat /\ i - 1 \in 1..Len(up'[c]) /\ (i - 1) + 1 = i
    BY <1>1, <1>3
  <2> QED BY <1>3, <2>1
<1> QED BY <1>2, <1>3, <1>4

\* Steps that move no message, goroutine or report, and revive no connection.
LEMMA KeepProgress ==
  ASSUME ProgressInv, UNCHANGED <<via, up, task, progress, stage>>,
         \A c \in Conns : /\ handler'[c] = "none" => handler[c] = "none"
                          /\ c \in cliEnd' => c \in cliEnd
                          /\ Healthy(c)' => Healthy(c)
  PROVE  ProgressInv'
<1>1. DialedInv'
  BY DEF ProgressInv, DialedInv
<1>2. QueueInv' /\ ShownInv'
  BY DEF ProgressInv, QueueInv, ShownInv
<1>3. FinishInv'
  BY DEF ProgressInv, FinishInv, HasResult, Silent
<1> QED BY <1>1, <1>2, <1>3 DEF ProgressInv

\* A report is shown, or a result makes it disappear: the rest of the queue is
\* as it was, and ahead of what is shown now.
LEMMA ProgressTake ==
  ASSUME TypeOK, ProgressInv, NEW c \in Conns, HandleProgress(c) \/ LookupResult(c)
  PROVE  ProgressInv'
<1> DEFINE m == up[c][1]
<1>1. /\ Take(c, "progress") \/ Take(c, "result")
      /\ UNCHANGED <<handler, srvEnd, cliEnd, broken, via, task, stage>>
  BY DEF HandleProgress, LookupResult
<1>2. /\ 1 \in 1..Len(up[c]) /\ Head(up[c]) = m
      /\ \A d \in Conns \ {c} : up'[d] = up[d]
      /\ \A i \in 1..Len(up'[c]) : i + 1 \in 1..Len(up[c]) /\ up'[c][i] = up[c][i + 1]
      /\ \A i \in 1..Len(up[c]) \ {1} :
           i - 1 \in 1..Len(up'[c]) /\ up'[c][i - 1] = up[c][i]
  BY <1>1, TakeElements
<1>3. /\ m.type \in {"progress", "result"} /\ m.id \in Cmds
      /\ progress'[c][m.id] = IF m.type = "progress" THEN m.stage ELSE 0
      /\ \A k \in Cmds \ {m.id} : progress'[c][k] = progress[c][k]
      /\ \A d \in Conns \ {c} : progress'[d] = progress[d]
  <2>1. m.id \in Cmds
    BY <1>2, Ids
  <2> QED BY <1>2, <2>1 DEF HandleProgress, LookupResult, Take, TypeOK
<1>4. QueueInv /\ ShownInv /\ FinishInv
  BY DEF ProgressInv
<1>5. /\ via[m.id] = c /\ task[m.id] # "none"
      /\ m.type = "progress" => m.stage <= stage[m.id]
  BY <1>2, <1>4 DEF QueueInv
<1>6. DialedInv'
  BY <1>1 DEF ProgressInv, DialedInv
<1>7. ShownInv'
  BY <1>1, <1>3, <1>4, <1>5 DEF ShownInv
<1>8. \A i \in 1..Len(up[c]) \ {1} : up[c][i].id = m.id =>
        m.type = "progress" /\ (up[c][i].type = "progress" => m.stage < up[c][i].stage)
  <2>1. \A i \in 1..Len(up[c]) \ {1} : 1 < i
    BY <1>2
  <2> QED BY <1>2, <1>4, <2>1 DEF QueueInv
<1>9. QueueInv'
  <2> SUFFICES ASSUME NEW d \in Conns, NEW i \in 1..Len(up'[d])
               PROVE  /\ via[up'[d][i].id] = d /\ task[up'[d][i].id] # "none"
                      /\ up'[d][i].type = "progress" =>
                           /\ progress'[d][up'[d][i].id] < up'[d][i].stage
                           /\ up'[d][i].stage <= stage[up'[d][i].id]
                      /\ \A j \in 1..Len(up'[d]) : j < i /\ up'[d][j].id = up'[d][i].id =>
                           /\ up'[d][j].type = "progress"
                           /\ up'[d][i].type = "progress" => up'[d][j].stage < up'[d][i].stage
    BY <1>1 DEF QueueInv
  <2>1. CASE d # c
    <3>1. up'[d] = up[d] /\ progress'[d] = progress[d]
      BY <1>2, <1>3, <2>1
    <3> QED BY <1>4, <3>1 DEF QueueInv
  <2>2. CASE d = c
    <3>1. i + 1 \in 1..Len(up[c]) \ {1} /\ up'[c][i] = up[c][i + 1] /\ up[c][i + 1].id \in Cmds
      BY <1>2, <2>2, Ids
    <3>2. /\ via[up'[c][i].id] = c /\ task[up'[c][i].id] # "none"
          /\ up'[c][i].type = "progress" => up'[c][i].stage <= stage[up'[c][i].id]
      BY <1>4, <3>1 DEF QueueInv
    <3>3. up'[c][i].type = "progress" => progress'[c][up'[c][i].id] < up'[c][i].stage
      <4>1. CASE up[c][i + 1].id = m.id
        BY <1>3, <1>8, <3>1, <4>1
      <4>2. CASE up[c][i + 1].id # m.id
        BY <1>3, <1>4, <3>1, <4>2 DEF QueueInv
      <4> QED BY <4>1, <4>2
    <3>4. ASSUME NEW j \in 1..Len(up'[c]), j < i, up'[c][j].id = up'[c][i].id
          PROVE  /\ up'[c][j].type = "progress"
                 /\ up'[c][i].type = "progress" => up'[c][j].stage < up'[c][i].stage
      <4>1. j + 1 \in 1..Len(up[c]) /\ up'[c][j] = up[c][j + 1] /\ j + 1 < i + 1
        BY <1>2, <3>4
      <4> QED BY <1>4, <3>1, <3>4, <4>1 DEF QueueInv
    <3> QED BY <2>2, <3>2, <3>3, <3>4
  <2> QED BY <2>1, <2>2
<1>10. FinishInv'
  <2> SUFFICES ASSUME NEW d \in Conns, NEW k \in Cmds,
                      Healthy(d), via[k] = d, task[k] = "gone"
               PROVE  HasResult(d, k)' \/ Silent(d, k)'
    BY <1>1 DEF FinishInv, Healthy
  <2>1. HasResult(d, k) \/ Silent(d, k)
    BY <1>4 DEF FinishInv
  <2>2. CASE d # c
    BY <1>2, <1>3, <2>1, <2>2 DEF HasResult, Silent
  <2>3. CASE d = c /\ Silent(d, k)
    <3>1. m.id # k
      BY <1>2, <2>3 DEF Silent
    <3> QED BY <1>2, <1>3, <2>3, <3>1 DEF Silent
  <2>4. CASE d = c /\ m.type = "result" /\ m.id = k
    <3>1. \A i \in 1..Len(up'[c]) : i + 1 \in 1..Len(up[c]) \ {1} /\ up'[c][i] = up[c][i + 1]
      BY <1>2
    <3>2. \A i \in 1..Len(up'[c]) : up'[c][i].id # k
      BY <1>8, <2>4, <3>1
    <3> QED BY <1>3, <2>4, <3>2 DEF Silent
  <2>5. CASE d = c /\ HasResult(d, k) /\ ~(m.type = "result" /\ m.id = k)
    <3>1. PICK i \in 1..Len(up[c]) : up[c][i].type = "result" /\ up[c][i].id = k
      BY <2>5 DEF HasResult
    <3>2. i - 1 \in 1..Len(up'[c]) /\ up'[c][i - 1] = up[c][i]
      BY <1>2, <2>5, <3>1
    <3> QED BY <2>5, <3>1, <3>2 DEF HasResult
  <2> QED BY <2>1, <2>2, <2>3, <2>4, <2>5
<1> QED BY <1>6, <1>7, <1>9, <1>10 DEF ProgressInv

\* A goroutine's write goes behind what its command has under way: a report with
\* a higher stage than the earlier ones, or the result after all of them.
LEMMA QueueSend ==
  ASSUME TypeOK, TypeOK', ProgressInv, NEW k \in Cmds, NEW m \in Message, m.id = k,
         via[k] \in Conns, task[k] # "none", Send(via[k], m),
         UNCHANGED <<via, progress>>,
         \A x \in Cmds : task[x] # "none" => task'[x] # "none",
         \A x \in Cmds : stage[x] <= stage'[x],
         m.type = "progress" => stage[k] < m.stage /\ m.stage <= stage'[k],
         \A i \in 1..Len(up[via[k]]) :
           up[via[k]][i].id = k => up[via[k]][i].type = "progress"
  PROVE  QueueInv'
<1> DEFINE c == via[k]
<1>1. /\ \A d \in Conns : \A i \in 1..Len(up[d]) :
           i \in 1..Len(up'[d]) /\ up'[d][i] = up[d][i]
      /\ \A d \in Conns : \A i \in 1..Len(up'[d]) :
           \/ i \in 1..Len(up[d]) /\ up'[d][i] = up[d][i]
           \/ d = c /\ i = Len(up[c]) + 1 /\ up'[d][i] = m
  BY SendElements
<1>2. QueueInv /\ ShownInv
  BY DEF ProgressInv
<1>3. /\ \A x \in Cmds : stage[x] \in 0..3 /\ stage'[x] \in 0..3 /\ stage[x] <= stage'[x]
      /\ \A d \in Conns : Len(up[d]) \in Nat
      /\ \A d \in Conns : \A i \in 1..Len(up[d]) : up[d][i].id \in Cmds
      /\ progress[c][k] \in 0..3
  <2>1. \A x \in Cmds : stage'[x] \in 0..3
    BY DEF TypeOK
  <2> QED BY <2>1, Stages
<1>4. \A i \in 1..Len(up[c]) : up[c][i].id = k =>
        up[c][i].stage \in 1..3 /\ up[c][i].stage <= stage[k]
  BY <1>2, Stages DEF QueueInv
<1>5. progress[c][k] <= stage[k]
  BY <1>2, <1>3 DEF ShownInv
<1>6. SUFFICES ASSUME NEW d \in Conns, NEW i \in 1..Len(up'[d])
               PROVE  /\ via[up'[d][i].id] = d /\ task'[up'[d][i].id] # "none"
                      /\ up'[d][i].type = "progress" =>
                           /\ progress[d][up'[d][i].id] < up'[d][i].stage
                           /\ up'[d][i].stage <= stage'[up'[d][i].id]
                      /\ \A j \in 1..Len(up'[d]) : j < i /\ up'[d][j].id = up'[d][i].id =>
                           /\ up'[d][j].type = "progress"
                           /\ up'[d][i].type = "progress" => up'[d][j].stage < up'[d][i].stage
  BY DEF QueueInv
<1>7. CASE i \in 1..Len(up[d]) /\ up'[d][i] = up[d][i]
  <2>1. \A j \in 1..Len(up'[d]) : j < i => j \in 1..Len(up[d]) /\ up'[d][j] = up[d][j]
    BY <1>1, <1>3, <1>7
  <2>2. /\ up[d][i].id \in Cmds
        /\ up[d][i].type = "progress" => up[d][i].stage \in 1..3
    BY <1>3, <1>7 DEF TypeOK, Message, Progress, Result
  <2>3. /\ via[up[d][i].id] = d /\ task[up[d][i].id] # "none"
        /\ up[d][i].type = "progress" => /\ progress[d][up[d][i].id] < up[d][i].stage
                                         /\ up[d][i].stage <= stage[up[d][i].id]
        /\ \A j \in 1..Len(up[d]) : j < i /\ up[d][j].id = up[d][i].id =>
             /\ up[d][j].type = "progress"
             /\ up[d][i].type = "progress" => up[d][j].stage < up[d][i].stage
    BY <1>2, <1>7 DEF QueueInv
  <2>4. up[d][i].type = "progress" => up[d][i].stage <= stage'[up[d][i].id]
    BY <1>3, <2>2, <2>3
  <2> QED BY <1>7, <2>1, <2>2, <2>3, <2>4
<1>8. CASE d = c /\ i = Len(up[c]) + 1 /\ up'[d][i] = m
  <2>1. \A j \in 1..Len(up'[c]) : j < i => j \in 1..Len(up[c]) /\ up'[c][j] = up[c][j]
    BY <1>1, <1>3, <1>8
  <2>2. m.type = "progress" => m.stage \in 1..3
    BY DEF Message, Progress, Result
  <2>3. ASSUME NEW j \in 1..Len(up[c]), up[c][j].id = k, m.type = "progress"
        PROVE  up[c][j].stage < m.stage
    BY <1>3, <1>4, <2>2, <2>3
  <2>4. m.type = "progress" => progress[c][k] < m.stage /\ m.stage <= stage'[k]
    BY <1>3, <1>5, <2>2
  <2>5. \A j \in 1..Len(up'[c]) : j < i /\ up'[c][j].id = k =>
          up'[c][j].type = "progress" /\ (m.type = "progress" => up'[c][j].stage < m.stage)
    BY <2>1, <2>3
  <2> QED BY <1>8, <2>4, <2>5
<1> QED BY <1>1, <1>7, <1>8

\* The steps of the goroutine that executes a command.
LEMMA ProgressTaskStep ==
  ASSUME TypeOK, TypeOK', AnswersInv, ProgressInv, NEW k \in Cmds, TaskStep(k)
  PROVE  ProgressInv'
<1> DEFINE c == via[k]
<1>1. ASSUME task[k] # "none"
      PROVE  c \in Conns
  BY <1>1 DEF AnswersInv, TaskInv
<1>2. DialedInv /\ ShownInv /\ FinishInv
  BY DEF ProgressInv
<1>3. DialedInv'
  BY <1>2 DEF TaskStep, Notify, SendResult, Execute, DialedInv
<1>4. CASE Notify(k)
  <2> DEFINE m == [type |-> "progress", id |-> k, stage |-> stage[k] + 1]
  <2>1. /\ task[k] = "running" /\ stage[k] \in 0..3 /\ stage[k] < 3
        /\ stage'[k] = stage[k] + 1 /\ Send(c, m)
        /\ \A x \in Cmds \ {k} : stage'[x] = stage[x]
        /\ UNCHANGED <<srvEnd, cliEnd, broken, via, task, progress>>
    BY <1>4 DEF Notify, TypeOK
  <2>2. m \in Message /\ c \in Conns
    BY <1>1, <2>1 DEF Message, Progress
  <2>3. \A x \in Cmds : stage[x] <= stage'[x]
    BY <2>1, Stages
  <2>4. \A i \in 1..Len(up[c]) : up[c][i].id = k => up[c][i].type = "progress"
    <3>1. UpInv /\ task[k] # "gone"
      BY <2>1 DEF AnswersInv
    <3> QED BY <2>2, <3>1, Stages DEF UpInv, Carried
  <2>5. QueueInv'
    BY <2>1, <2>2, <2>3, <2>4, QueueSend
  <2>6. ShownInv'
    <3> SUFFICES ASSUME NEW d \in Conns, NEW x \in Cmds, progress[d][x] > 0
                 PROVE  via[x] = d /\ task[x] # "none" /\ progress[d][x] <= stage'[x]
      BY <2>1 DEF ShownInv
    <3>1. via[x] = d /\ task[x] # "none" /\ progress[d][x] <= stage[x]
      BY <1>2 DEF ShownInv
    <3>2. stage'[x] \in {stage[x], stage[x] + 1}
      BY <2>1
    <3> QED BY <3>1, <3>2, Stages
  <2>7. FinishInv'
    <3> SUFFICES ASSUME NEW d \in Conns, NEW x \in Cmds,
                        Healthy(d), via[x] = d, task[x] = "gone"
                 PROVE  HasResult(d, x)' \/ Silent(d, x)'
      BY <2>1 DEF FinishInv, Healthy
    <3>1. x # k /\ (HasResult(d, x) \/ Silent(d, x))
      BY <1>2, <2>1 DEF FinishInv
    <3>2. /\ \A i \in 1..Len(up[d]) : i \in 1..Len(up'[d]) /\ up'[d][i] = up[d][i]
          /\ \A i \in 1..Len(up'[d]) :
               (i \in 1..Len(up[d]) /\ up'[d][i] = up[d][i]) \/ up'[d][i].id = k
      BY <2>1, <2>2, SendElements
    <3> QED BY <2>1, <3>1, <3>2 DEF HasResult, Silent
  <2> QED BY <1>3, <2>5, <2>6, <2>7 DEF ProgressInv
<1>5. CASE SendResult(k)
  <2> DEFINE m == [type |-> "result", id |-> k, verdict |-> verdict[k]]
  <2>1. /\ task[k] = "ran" /\ task'[k] = "gone" /\ Send(c, m)
        /\ \A x \in Cmds \ {k} : task'[x] = task[x]
        /\ UNCHANGED <<srvEnd, cliEnd, broken, via, progress, stage>>
    BY <1>5 DEF SendResult, TypeOK
  <2>2. m \in Message /\ c \in Conns
    BY <1>1, <2>1 DEF Message, Result, TypeOK
  <2>3. /\ \A x \in Cmds : stage[x] <= stage'[x]
        /\ \A x \in Cmds : task[x] # "none" => task'[x] # "none"
    BY <2>1, Stages
  <2>4. \A i \in 1..Len(up[c]) : up[c][i].id = k => up[c][i].type = "progress"
    <3>1. UpInv /\ task[k] # "gone"
      BY <2>1 DEF AnswersInv
    <3> QED BY <2>2, <3>1, Stages DEF UpInv, Carried
  <2>5. QueueInv'
    BY <2>1, <2>2, <2>3, <2>4, QueueSend
  <2>6. ShownInv'
    BY <1>2, <2>1, <2>3 DEF ShownInv
  <2>7. FinishInv'
    <3> SUFFICES ASSUME NEW d \in Conns, NEW x \in Cmds,
                        Healthy(d), via[x] = d, task'[x] = "gone"
                 PROVE  HasResult(d, x)' \/ Silent(d, x)'
      BY <2>1 DEF FinishInv, Healthy
    <3>1. CASE x = k
      <4>1. \E i \in 1..Len(up'[d]) : up'[d][i] = m
        BY <2>1, <2>2, <3>1, SendElements
      <4> QED BY <3>1, <4>1 DEF HasResult
    <3>2. CASE x # k
      <4>1. HasResult(d, x) \/ Silent(d, x)
        BY <1>2, <2>1, <3>2 DEF FinishInv
      <4>2. /\ \A i \in 1..Len(up[d]) : i \in 1..Len(up'[d]) /\ up'[d][i] = up[d][i]
            /\ \A i \in 1..Len(up'[d]) :
                 (i \in 1..Len(up[d]) /\ up'[d][i] = up[d][i]) \/ up'[d][i].id = k
        BY <2>1, <2>2, SendElements
      <4> QED BY <2>1, <3>2, <4>1, <4>2 DEF HasResult, Silent
    <3> QED BY <3>1, <3>2
  <2> QED BY <1>3, <2>5, <2>6, <2>7 DEF ProgressInv
<1>6. ASSUME NEW v \in Outcomes, Execute(k, v) PROVE ProgressInv'
  <2>1. /\ UNCHANGED <<srvEnd, cliEnd, broken, via, up, progress, stage>>
        /\ \A x \in Cmds : /\ task[x] # "none" => task'[x] # "none"
                           /\ task'[x] = "gone" => task[x] = "gone"
    BY <1>6 DEF Execute, TypeOK
  <2>2. QueueInv'
    BY <2>1, Ids DEF ProgressInv, QueueInv
  <2>3. ShownInv' /\ FinishInv'
    BY <1>2, <2>1 DEF ShownInv, FinishInv, Healthy, HasResult, Silent
  <2> QED BY <1>3, <2>2, <2>3 DEF ProgressInv
<1> QED BY <1>4, <1>5, <1>6 DEF TaskStep

\* A command that is read was unknown to its connection.
LEMMA ProgressRead ==
  ASSUME TypeOK, AnswersInv, ProgressInv, NEW c \in Conns, ClientRead(c)
  PROVE  ProgressInv'
<1>1. PICK k \in Cmds : k = Head(down[c]) /\ task[k] = "none"
  BY TailElements DEF ClientRead, TypeOK, AnswersInv, DownInv
<1>2. /\ c \in cliEnd /\ task'[k] = "running" /\ via'[k] = c
      /\ \A x \in Cmds \ {k} : task'[x] = task[x] /\ via'[x] = via[x]
      /\ UNCHANGED <<handler, srvEnd, cliEnd, broken, up, progress, stage>>
  BY <1>1 DEF ClientRead, TypeOK
<1>3. DialedInv'
  BY <1>2 DEF ProgressInv, DialedInv
<1>4. \A d \in Conns : \A i \in 1..Len(up[d]) : up[d][i].id \in Cmds \ {k}
  BY <1>1, Ids DEF ProgressInv, QueueInv
<1>5. QueueInv'
  BY <1>2, <1>4 DEF ProgressInv, QueueInv
<1>6. ShownInv'
  BY <1>1, <1>2 DEF ProgressInv, ShownInv
<1>7. FinishInv'
  BY <1>2 DEF ProgressInv, FinishInv, Healthy, HasResult, Silent
<1> QED BY <1>3, <1>5, <1>6, <1>7 DEF ProgressInv

\* A crashed agent leaves no live connection on which a command of its was read.
LEMMA ProgressAgentCrash ==
  ASSUME TypeOK, ProgressInv, NEW p \in Clients, AgentCrash(p)
  PROVE  ProgressInv'
<1>1. /\ UNCHANGED <<handler, srvEnd, broken, up, via, progress, stage, dialer>>
      /\ cliEnd' = {c \in cliEnd : dialer[c] # p}
      /\ \A x \in Cmds :
           \/ task'[x] = task[x]
           \/ task[x] # "none" /\ task'[x] = "gone" /\ dialer[via[x]] = p
  BY DEF AgentCrash
<1>2. DialedInv'
  BY <1>1 DEF ProgressInv, DialedInv
<1>3. QueueInv'
  BY <1>1, Ids DEF ProgressInv, QueueInv
<1>4. ShownInv'
  BY <1>1 DEF ProgressInv, ShownInv
<1>5. FinishInv'
  <2> SUFFICES ASSUME NEW c \in Conns, NEW k \in Cmds,
                      Healthy(c)', via[k] = c, task'[k] = "gone"
               PROVE  HasResult(c, k)' \/ Silent(c, k)'
    BY <1>1 DEF FinishInv
  <2>1. Healthy(c) /\ task[k] = "gone"
    BY <1>1 DEF Healthy
  <2>2. HasResult(c, k) \/ Silent(c, k)
    BY <2>1 DEF ProgressInv, FinishInv
  <2> QED BY <1>1, <2>2 DEF HasResult, Silent
<1> QED BY <1>2, <1>3, <1>4, <1>5 DEF ProgressInv

\* Every step keeps the reports of a command in order on its own connection.
LEMMA ProgressStep ==
  TypeOK /\ AnswersInv /\ ProgressInv /\ [Next]_vars => ProgressInv'
<1> SUFFICES ASSUME TypeOK, AnswersInv, ProgressInv, [Next]_vars PROVE ProgressInv'
  OBVIOUS
<1>1. TypeOK'
  BY TypeStep
<1>2. ASSUME NEW c \in Conns, ServerStep(c) PROVE ProgressInv'
  <2>1. CASE Register(c) \/ ReadError(c) \/ Unregister(c) \/ CloseConn(c) \/ DeliverResult(c)
    <3>1. /\ UNCHANGED <<via, up, task, progress, stage, cliEnd, broken>>
          /\ srvEnd' \subseteq srvEnd
          /\ \A d \in Conns : handler'[d] = "none" => handler[d] = "none"
      BY <2>1 DEF Register, ReadError, Unregister, CloseConn, DeliverResult, TypeOK
    <3> QED BY <3>1, KeepProgress DEF Healthy
  <2> QED BY <1>2, <2>1, ProgressTake DEF ServerStep
<1>3. ASSUME NEW k \in Cmds, CallStep(k) PROVE ProgressInv'
  <2>1. UNCHANGED <<via, up, task, progress, stage, handler, srvEnd, cliEnd, broken>>
    BY <1>3 DEF CallStep, AddPending, WriteCommand, WriteFails, ReceiveResult, Timeout,
       RemovePending
  <2> QED BY <2>1, KeepProgress DEF Healthy
<1>4. ASSUME NEW c \in Conns, ClientError(c) \/ Break(c) PROVE ProgressInv'
  <2>1. /\ UNCHANGED <<via, up, task, progress, stage, handler, srvEnd>>
        /\ cliEnd' \subseteq cliEnd /\ broken \subseteq broken'
    BY <1>4 DEF ClientError, Break
  <2> QED BY <2>1, KeepProgress DEF Healthy
<1>5. ASSUME NEW c \in Conns, NEW p \in Clients, Dial(p, c) PROVE ProgressInv'
  <2>1. /\ UNCHANGED <<via, up, task, progress, stage, broken>>
        /\ handler[c] = "none" /\ handler'[c] = "upgraded"
        /\ srvEnd' = srvEnd \cup {c} /\ cliEnd' = cliEnd \cup {c}
        /\ \A d \in Conns \ {c} : handler'[d] = handler[d]
    BY <1>5 DEF Dial, TypeOK
  <2>2. \A k \in Cmds : via[k] # c
    BY <2>1 DEF ProgressInv, DialedInv
  <2>3. DialedInv' /\ QueueInv' /\ ShownInv'
    BY <2>1 DEF ProgressInv, DialedInv, QueueInv, ShownInv
  <2>4. FinishInv'
    BY <2>1, <2>2 DEF ProgressInv, FinishInv, Healthy, HasResult, Silent
  <2> QED BY <2>3, <2>4 DEF ProgressInv
<1>6. ASSUME NEW k \in Cmds, NEW a \in Agents, Lookup(k, a) PROVE ProgressInv'
  <2>1. UNCHANGED <<via, up, task, progress, stage, handler, srvEnd, cliEnd, broken>>
    BY <1>6 DEF Lookup
  <2> QED BY <2>1, KeepProgress DEF Healthy
<1>7. CASE ServerCrash
  <2>1. /\ UNCHANGED <<via, up, task, stage, cliEnd>> /\ srvEnd' = {}
        /\ \A c \in Conns : /\ handler'[c] = "none" => handler[c] = "none"
                            /\ \A k \in Cmds : progress'[c][k] = 0
    BY <1>7 DEF ServerCrash
  <2>3. DialedInv' /\ ShownInv' /\ FinishInv'
    BY <2>1 DEF ProgressInv, DialedInv, ShownInv, FinishInv, Healthy
  <2>4. QueueInv'
    <3>1. \A c \in Conns : \A i \in 1..Len(up[c]) : up[c][i].type = "progress" =>
            progress'[c][up[c][i].id] < up[c][i].stage
      BY <2>1, Stages
    <3> QED BY <2>1, <3>1 DEF ProgressInv, QueueInv
  <2> QED BY <2>3, <2>4 DEF ProgressInv
<1>8. CASE UNCHANGED vars
  BY <1>8, KeepProgress DEF vars, Healthy
<1> QED BY <1>1, <1>2, <1>3, <1>4, <1>5, <1>6, <1>7, <1>8, ProgressTaskStep, ProgressRead,
           ProgressAgentCrash DEF Next

\* In every behaviour the reports of a command lie in order on the connection
\* that brought it, ahead of what is shown and before its result.
THEOREM ProgressInvariant == Spec => []ProgressInv
<1>1. Init => ProgressInv
  BY LinkAssumption DEF Init, ProgressInv, DialedInv, QueueInv, ShownInv, FinishInv
<1> QED BY <1>1, TypeCorrect, AnswersInvariant, ProgressStep, PTL DEF Spec, Safety

\* On a live connection no progress is shown of a command whose result has been
\* handled, whatever reconnects or crashes around it.
THEOREM NoStaleProgress == Spec => []ProgressHasTask
<1>1. TypeOK /\ ProgressInv => ProgressHasTask
  <2> SUFFICES ASSUME TypeOK, ProgressInv, NEW c \in Conns, NEW k \in Cmds,
                      Healthy(c), progress[c][k] > 0, task[k] \notin {"running", "ran"}
               PROVE  HasResult(c, k)
    BY DEF ProgressHasTask, HasResult
  <2>1. via[k] = c /\ task[k] = "gone"
    BY DEF ProgressInv, ShownInv, TypeOK, TaskStates
  <2> QED BY <2>1 DEF ProgressInv, FinishInv, Silent
<1> QED BY <1>1, TypeCorrect, ProgressInvariant, PTL

\* A step shows a later report of a command, or takes its progress away.
LEMMA ForwardStep ==
  TypeOK /\ ProgressInv /\ [Next]_vars =>
    \A c \in Conns, k \in Cmds : progress'[c][k] >= progress[c][k] \/ progress'[c][k] = 0
<1> SUFFICES ASSUME TypeOK, ProgressInv, [Next]_vars, NEW c \in Conns, NEW k \in Cmds
             PROVE  progress'[c][k] >= progress[c][k] \/ progress'[c][k] = 0
  OBVIOUS
<1>1. progress[c][k] \in 0..3
  BY Stages
<1>2. ASSUME NEW d \in Conns, HandleProgress(d)
      PROVE  progress'[c][k] >= progress[c][k]
  <2>1. /\ 1 \in 1..Len(up[d]) /\ Head(up[d]) = up[d][1] /\ up[d][1].id \in Cmds
        /\ up[d][1].type = "progress"
    BY <1>2, TakeElements, Ids DEF HandleProgress, Take
  <2>2. up[d][1].stage \in 1..3 /\ progress[d][up[d][1].id] < up[d][1].stage
    BY <2>1, Stages DEF ProgressInv, QueueInv
  <2>3. progress' = [progress EXCEPT ![d][up[d][1].id] = up[d][1].stage]
    BY <1>2, <2>1 DEF HandleProgress
  <2>4. CASE c = d /\ k = up[d][1].id
    <3>1. progress'[c][k] = up[d][1].stage
      BY <2>1, <2>3, <2>4 DEF TypeOK
    <3> QED BY <1>1, <2>2, <2>4, <3>1
  <2>5. CASE ~(c = d /\ k = up[d][1].id)
    <3>1. progress'[c][k] = progress[c][k]
      BY <2>3, <2>5 DEF TypeOK
    <3> QED BY <1>1, <3>1
  <2> QED BY <2>4, <2>5
<1>3. ASSUME NEW d \in Conns, LookupResult(d)
      PROVE  progress'[c][k] = progress[c][k] \/ progress'[c][k] = 0
  BY <1>3 DEF LookupResult, TypeOK
<1>4. ASSUME ServerCrash
      PROVE  progress'[c][k] = 0
  BY <1>4 DEF ServerCrash
<1>5. ASSUME NEW d \in Conns, ServerStep(d), ~HandleProgress(d), ~LookupResult(d)
      PROVE  progress' = progress
  BY <1>5 DEF ServerStep, Register, ReadError, Unregister, CloseConn, DeliverResult
<1>6. ASSUME NEW x \in Cmds, CallStep(x) \/ TaskStep(x)
      PROVE  progress' = progress
  BY <1>6 DEF CallStep, AddPending, WriteCommand, WriteFails, ReceiveResult, Timeout,
     RemovePending, TaskStep, Notify, SendResult, Execute
<1>7. ASSUME \/ \E d \in Conns : ClientRead(d) \/ ClientError(d) \/ Break(d)
             \/ \E d \in Conns, p \in Clients : Dial(p, d)
             \/ \E x \in Cmds, a \in Agents : Lookup(x, a)
             \/ \E p \in Clients : AgentCrash(p)
             \/ UNCHANGED vars
      PROVE  progress' = progress
  BY <1>7 DEF vars, ClientRead, ClientError, Break, Dial, Lookup, AgentCrash
<1>8. progress' = progress => progress'[c][k] >= progress[c][k]
  BY <1>1
<1>9. ASSUME NEW d \in Conns, ServerStep(d)
      PROVE  progress'[c][k] >= progress[c][k] \/ progress'[c][k] = 0
  <2>1. CASE HandleProgress(d) BY <1>2, <2>1
  <2>2. CASE LookupResult(d) BY <1>1, <1>3, <2>2
  <2>3. CASE ~HandleProgress(d) /\ ~LookupResult(d) BY <1>5, <1>8, <1>9, <2>3
  <2> QED BY <2>1, <2>2, <2>3
<1>10. CASE Next
  BY <1>4, <1>6, <1>7, <1>8, <1>9, <1>10 DEF Next
<1> QED BY <1>7, <1>8, <1>10

\* The progress that is shown of a command only moves forward, or disappears.
THEOREM ProgressOnlyForward == Spec => ProgressForward
<1> QED BY ForwardStep, TypeCorrect, ProgressInvariant, PTL DEF Spec, Safety, ProgressForward
=============================================================================
