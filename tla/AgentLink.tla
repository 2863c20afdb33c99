----------------------------- MODULE AgentLink -----------------------------
(***************************************************************************)
(* The link between agent-service and the agents: the registry of          *)
(* connected agents (internal/agentSvc/registry.go), the WebSocket handler *)
(* that runs for each connection (ws.go), the gRPC SendCommand calls       *)
(* (grpc.go), and the agent's side of a connection: dialing, reading       *)
(* commands, one goroutine per command, progress and result messages       *)
(* (internal/agent/client.go, handler.go).                                 *)
(*                                                                         *)
(* A connection carries two ordered streams.  It can break without either  *)
(* side noticing: what is written afterwards is lost, and a read still     *)
(* returns what had arrived or fails.  Both processes can crash.           *)
(*                                                                         *)
(* Abstractions: a command's payload and a result's text are left out, an  *)
(* outcome is "ok" or "fail"; ping and pong change no state here; log      *)
(* chunks are the subject of LogStream; a section under ac.mu or r.mu is   *)
(* one step; each WebSocket connection and each command id is used once    *)
(* (ids are fresh UUIDs).                                                  *)
(***************************************************************************)
EXTENDS Naturals, Sequences

CONSTANTS Agents,   \* agent ids, the registry's keys
          Clients,  \* agent processes
          AgentOf,  \* the agent whose token a process presents
          Conns,    \* connections, each dialed at most once
          Cmds,     \* command ids, each sent at most once
          Creates,  \* the commands of type "create", which report progress
          None

ASSUME LinkAssumption ==
  /\ AgentOf \in [Clients -> Agents]
  /\ Creates \subseteq Cmds
  /\ None \notin Conns \cup Clients

VARIABLES
  \* agent-service
  registry,   \* AgentRegistry.agents: the connection of an agent, or None
  handler,    \* where HandleAgentWS is, for each connection
  routing,    \* results looked up by a handler and about to be sent to a caller
  pending,    \* AgentConn.pending
  progress,   \* AgentConn.progress, 0 for no entry
  caller,     \* where SendCommand is, for each command
  target,     \* the connection that SendCommand looked up
  ch,         \* the one-slot channel made by SendCommand, "none" when empty
  ret,        \* what SendCommand returns
  \* the connections
  srvEnd,     \* connections whose server end is open
  cliEnd,     \* connections whose client end is open
  broken,     \* connections cut by the network
  down, up,   \* commands under way to the agent, messages under way back
  \* the agents
  dialer,     \* the process that dialed a connection
  via,        \* the connection whose goroutine executes a command
  task,       \* that goroutine
  stage,      \* how many progress messages a create has sent
  verdict     \* the outcome of the execution, "none" before it is known

srvVars  == <<registry, handler, routing, pending, progress>>
callVars == <<caller, target, ch, ret>>
netVars  == <<srvEnd, cliEnd, broken, down, up>>
agtVars  == <<dialer, via, task, stage, verdict>>
vars     == <<srvVars, callVars, netVars, agtVars>>

Outcomes == {"ok", "fail"}
Verdicts == Outcomes \cup {"none"}
Progress == [type : {"progress"}, id : Cmds, stage : 1..3]
Result   == [type : {"result"}, id : Cmds, verdict : Verdicts]
Message  == Progress \cup Result

HandlerStates == {"none", "upgraded", "serving", "exiting", "closing", "done"}
CallerStates  == {"idle", "looked", "added", "waiting", "leaving", "done"}
TaskStates    == {"none", "running", "ran", "gone"}
Answers       == Verdicts \cup {"notfound", "senderr", "timeout", "unavailable"}

Agent(c)   == AgentOf[dialer[c]]
Healthy(c) == c \in srvEnd /\ c \in cliEnd /\ c \notin broken

Init ==
  /\ registry = [a \in Agents |-> None]
  /\ handler = [c \in Conns |-> "none"]
  /\ routing = [c \in Conns |-> None]
  /\ pending = [c \in Conns |-> {}]
  /\ progress = [c \in Conns |-> [k \in Cmds |-> 0]]
  /\ caller = [k \in Cmds |-> "idle"]
  /\ target = [k \in Cmds |-> None]
  /\ ch = [k \in Cmds |-> "none"]
  /\ ret = [k \in Cmds |-> "none"]
  /\ srvEnd = {} /\ cliEnd = {} /\ broken = {}
  /\ down = [c \in Conns |-> <<>>]
  /\ up = [c \in Conns |-> <<>>]
  /\ dialer = [c \in Conns |-> None]
  /\ via = [k \in Cmds |-> None]
  /\ task = [k \in Cmds |-> "none"]
  /\ stage = [k \in Cmds |-> 0]
  /\ verdict = [k \in Cmds |-> "none"]

-----------------------------------------------------------------------------
(* Faulty variants of the operations below, each as a plausible change of  *)
(* the code would make it.  The specification does not use them; they show *)
(* that the properties tell them from the operations.                      *)

\* The handler takes the next message, which is of the given type.
Take(c, type) ==
  /\ handler[c] = "serving" /\ routing[c] = None
  /\ up[c] # <<>> /\ Head(up[c]).type = type
  /\ up' = [up EXCEPT ![c] = Tail(@)]

ReadErrorOnlyIfPeerClosed(c) ==
  /\ handler[c] = "serving" /\ routing[c] = None
  /\ c \notin cliEnd
  /\ handler' = [handler EXCEPT ![c] = "exiting"]
  /\ UNCHANGED <<registry, routing, pending, progress, callVars, netVars, agtVars>>

UnregisterForgotten(c) ==
  /\ handler[c] = "exiting"
  /\ handler' = [handler EXCEPT ![c] = "closing"]
  /\ UNCHANGED <<registry, routing, pending, progress, callVars, netVars, agtVars>>

UnregisterAll(c) ==
  /\ handler[c] = "exiting"
  /\ handler' = [handler EXCEPT ![c] = "closing"]
  /\ registry' = [a \in Agents |-> None]
  /\ UNCHANGED <<routing, pending, progress, callVars, netVars, agtVars>>

\* One goroutine per message: messages are handled in any order.
HandleProgressUnordered(c) ==
  /\ handler[c] = "serving" /\ routing[c] = None
  /\ \E i \in 1..Len(up[c]) :
       LET m == up[c][i] IN
       /\ m.type = "progress"
       /\ up' = [up EXCEPT ![c] = SubSeq(@, 1, i - 1) \o SubSeq(@, i + 1, Len(@))]
       /\ progress' = [progress EXCEPT ![c][m.id] = m.stage]
  /\ UNCHANGED <<registry, handler, routing, pending, callVars, srvEnd, cliEnd,
                 broken, down, agtVars>>

LookupResultKeepProgress(c) ==
  /\ Take(c, "result")
  /\ LET m == Head(up[c]) IN
     routing' = [routing EXCEPT ![c] = IF m.id \in pending[c] THEN m ELSE None]
  /\ UNCHANGED <<registry, handler, pending, progress, callVars, srvEnd, cliEnd,
                 broken, down, agtVars>>

\* The result goes to whoever waits on the connection, not to its own caller.
LookupResultAnyWaiter(c) ==
  /\ Take(c, "result")
  /\ LET m == Head(up[c]) IN
     /\ routing' = [routing EXCEPT ![c] =
          IF pending[c] # {} THEN [m EXCEPT !.id = CHOOSE k \in pending[c] : TRUE]
                             ELSE None]
     /\ progress' = [progress EXCEPT ![c][m.id] = 0]
  /\ UNCHANGED <<registry, handler, pending, callVars, srvEnd, cliEnd, broken,
                 down, agtVars>>

\* SendCommand without its timeout.
TimeoutNever(k) ==
  /\ caller[k] = "waiting" /\ ch[k] # "none"
  /\ ret' = [ret EXCEPT ![k] = "timeout"]
  /\ caller' = [caller EXCEPT ![k] = "leaving"]
  /\ UNCHANGED <<srvVars, target, ch, netVars, agtVars>>

\* The deferred delete runs only after a result.
RemovePendingOnResult(k) ==
  /\ caller[k] = "leaving"
  /\ pending' = IF ret[k] \in Outcomes
                THEN [pending EXCEPT ![target[k]] = @ \ {k}] ELSE pending
  /\ caller' = [caller EXCEPT ![k] = "done"]
  /\ UNCHANGED <<registry, handler, routing, progress, target, ch, ret, netVars,
                 agtVars>>

\* handleCreate reports without end.
NotifyAgain(k) ==
  /\ task[k] = "running" /\ k \in Creates
  /\ stage' = [stage EXCEPT ![k] = @ + 1]
  /\ up' = [up EXCEPT ![via[k]] =
               Append(@, [type |-> "progress", id |-> k, stage |-> stage[k] + 1])]
  /\ UNCHANGED <<srvVars, callVars, srvEnd, cliEnd, broken, down, dialer, via,
                 task, verdict>>

-----------------------------------------------------------------------------
(* The life of a connection on the server.                                 *)

\* Run calls connect, which dials; the server accepts and upgrades.  A
\* process dials again only after its previous connect has returned.
Dial(p, c) ==
  /\ handler[c] = "none"
  /\ \A d \in cliEnd : dialer[d] # p
  /\ handler' = [handler EXCEPT ![c] = "upgraded"]
  /\ dialer' = [dialer EXCEPT ![c] = p]
  /\ srvEnd' = srvEnd \cup {c}
  /\ cliEnd' = cliEnd \cup {c}
  /\ UNCHANGED <<registry, routing, pending, progress, callVars, broken, down,
                 up, via, task, stage, verdict>>

\* The new connection replaces the agent's previous one, which is closed.
Register(c) ==
  /\ handler[c] = "upgraded"
  /\ handler' = [handler EXCEPT ![c] = "serving"]
  /\ registry' = [registry EXCEPT ![Agent(c)] = c]
  /\ srvEnd' = srvEnd \ {registry[Agent(c)]}
  /\ UNCHANGED <<routing, pending, progress, callVars, cliEnd, broken, down, up,
                 agtVars>>

\* ReadMessage fails: the read loop returns, and the deferred calls follow.
\* A panic of the loop does the same on a healthy connection; LogStream has it.
ReadError(c) ==
  /\ handler[c] = "serving" /\ routing[c] = None
  /\ ~Healthy(c)
  /\ handler' = [handler EXCEPT ![c] = "exiting"]
  /\ UNCHANGED <<registry, routing, pending, progress, callVars, netVars, agtVars>>

\* The entry is deleted by agent id, whichever connection it holds by now.
Unregister(c) ==
  /\ handler[c] = "exiting"
  /\ handler' = [handler EXCEPT ![c] = "closing"]
  /\ registry' = [registry EXCEPT ![Agent(c)] = None]
  /\ UNCHANGED <<routing, pending, progress, callVars, netVars, agtVars>>

CloseConn(c) ==
  /\ handler[c] = "closing"
  /\ handler' = [handler EXCEPT ![c] = "done"]
  /\ srvEnd' = srvEnd \ {c}
  /\ UNCHANGED <<registry, routing, pending, progress, callVars, cliEnd, broken,
                 down, up, agtVars>>

-----------------------------------------------------------------------------
(* The server's read loop.  A message that had arrived is handled even if  *)
(* the connection has since been cut or closed.                            *)

HandleProgress(c) ==
  /\ Take(c, "progress")
  /\ LET m == Head(up[c]) IN progress' = [progress EXCEPT ![c][m.id] = m.stage]
  /\ UNCHANGED <<registry, handler, routing, pending, callVars, srvEnd, cliEnd,
                 broken, down, agtVars>>

\* The locked half of HandleResult: find the waiting channel, drop the progress.
LookupResult(c) ==
  /\ Take(c, "result")
  /\ LET m == Head(up[c]) IN
     /\ routing' = [routing EXCEPT ![c] = IF m.id \in pending[c] THEN m ELSE None]
     /\ progress' = [progress EXCEPT ![c][m.id] = 0]
  /\ UNCHANGED <<registry, handler, pending, callVars, srvEnd, cliEnd, broken,
                 down, agtVars>>

\* The unlocked half: the send on the channel, which blocks while it is full.
DeliverResult(c) ==
  /\ routing[c] # None
  /\ ch[routing[c].id] = "none"
  /\ ch' = [ch EXCEPT ![routing[c].id] = routing[c].verdict]
  /\ routing' = [routing EXCEPT ![c] = None]
  /\ UNCHANGED <<registry, handler, pending, progress, caller, target, ret,
                 netVars, agtVars>>

-----------------------------------------------------------------------------
(* SendCommand, one call per command, in the steps between which it holds  *)
(* no lock.                                                                *)

Lookup(k, a) ==
  /\ caller[k] = "idle"
  /\ IF registry[a] = None
     THEN /\ caller' = [caller EXCEPT ![k] = "done"]
          /\ ret' = [ret EXCEPT ![k] = "notfound"]
          /\ UNCHANGED target
     ELSE /\ caller' = [caller EXCEPT ![k] = "looked"]
          /\ target' = [target EXCEPT ![k] = registry[a]]
          /\ UNCHANGED ret
  /\ UNCHANGED <<srvVars, ch, netVars, agtVars>>

AddPending(k) ==
  /\ caller[k] = "looked"
  /\ caller' = [caller EXCEPT ![k] = "added"]
  /\ pending' = [pending EXCEPT ![target[k]] = @ \cup {k}]
  /\ UNCHANGED <<registry, handler, routing, progress, target, ch, ret, netVars,
                 agtVars>>

\* The write succeeds as long as this end is open; what it writes is lost if
\* the other end is closed or out of reach.
WriteCommand(k) ==
  /\ caller[k] = "added" /\ target[k] \in srvEnd
  /\ caller' = [caller EXCEPT ![k] = "waiting"]
  /\ down' = IF Healthy(target[k])
             THEN [down EXCEPT ![target[k]] = Append(@, k)] ELSE down
  /\ UNCHANGED <<srvVars, target, ch, ret, srvEnd, cliEnd, broken, up, agtVars>>

\* The write fails: this end was closed, or the peer is known to be gone.  A
\* Marshal that failed would end the call in the same way; the payloads that
\* deploy-service builds are valid JSON.
WriteFails(k) ==
  /\ caller[k] = "added" /\ ~Healthy(target[k])
  /\ caller' = [caller EXCEPT ![k] = "leaving"]
  /\ ret' = [ret EXCEPT ![k] = "senderr"]
  /\ UNCHANGED <<srvVars, target, ch, netVars, agtVars>>

ReceiveResult(k) ==
  /\ caller[k] = "waiting" /\ ch[k] # "none"
  /\ ret' = [ret EXCEPT ![k] = ch[k]]
  /\ ch' = [ch EXCEPT ![k] = "none"]
  /\ caller' = [caller EXCEPT ![k] = "leaving"]
  /\ UNCHANGED <<srvVars, target, netVars, agtVars>>

\* Five minutes have passed or the gRPC call was cancelled.  The select may
\* choose this branch even when a result is ready.
Timeout(k) ==
  /\ caller[k] = "waiting"
  /\ ret' = [ret EXCEPT ![k] = "timeout"]
  /\ caller' = [caller EXCEPT ![k] = "leaving"]
  /\ UNCHANGED <<srvVars, target, ch, netVars, agtVars>>

RemovePending(k) ==
  /\ caller[k] = "leaving"
  /\ pending' = [pending EXCEPT ![target[k]] = @ \ {k}]
  /\ caller' = [caller EXCEPT ![k] = "done"]
  /\ UNCHANGED <<registry, handler, routing, progress, target, ch, ret, netVars,
                 agtVars>>

-----------------------------------------------------------------------------
(* The agent.                                                              *)

\* connect reads a command and starts a goroutine for it.
ClientRead(c) ==
  /\ c \in cliEnd /\ down[c] # <<>>
  /\ down' = [down EXCEPT ![c] = Tail(@)]
  /\ task' = [task EXCEPT ![Head(down[c])] = "running"]
  /\ via' = [via EXCEPT ![Head(down[c])] = c]
  /\ UNCHANGED <<srvVars, callVars, srvEnd, cliEnd, broken, up, dialer, stage,
                 verdict>>

\* connect's read fails: it returns and closes its end; its goroutines go on.
ClientError(c) ==
  /\ c \in cliEnd /\ ~Healthy(c)
  /\ cliEnd' = cliEnd \ {c}
  /\ UNCHANGED <<srvVars, callVars, srvEnd, broken, down, up, agtVars>>

\* A message written by a goroutine arrives unless the connection is dead; the
\* goroutine does not look at the error.
Send(c, m) ==
  up' = IF Healthy(c) THEN [up EXCEPT ![c] = Append(@, m)] ELSE up

\* handleCreate reports that it pulls the image, creates, starts the container.
Notify(k) ==
  /\ task[k] = "running" /\ k \in Creates /\ stage[k] < 3
  /\ stage' = [stage EXCEPT ![k] = @ + 1]
  /\ Send(via[k], [type |-> "progress", id |-> k, stage |-> stage[k] + 1])
  /\ UNCHANGED <<srvVars, callVars, srvEnd, cliEnd, broken, down, dialer, via,
                 task, verdict>>

\* Docker has answered.  A create can fail after each of its reports and
\* before the first (an unreadable payload); it succeeds after the last.
Execute(k, v) ==
  /\ task[k] = "running"
  /\ v = "ok" /\ k \in Creates => stage[k] = 3
  /\ task' = [task EXCEPT ![k] = "ran"]
  /\ verdict' = [verdict EXCEPT ![k] = v]
  /\ UNCHANGED <<srvVars, callVars, netVars, dialer, via, stage>>

SendResult(k) ==
  /\ task[k] = "ran"
  /\ task' = [task EXCEPT ![k] = "gone"]
  /\ Send(via[k], [type |-> "result", id |-> k, verdict |-> verdict[k]])
  /\ UNCHANGED <<srvVars, callVars, srvEnd, cliEnd, broken, down, dialer, via,
                 stage, verdict>>

-----------------------------------------------------------------------------
(* Failures.                                                               *)

\* The network drops the connection; neither side is told.
Break(c) ==
  /\ Healthy(c)
  /\ broken' = broken \cup {c}
  /\ UNCHANGED <<srvVars, callVars, srvEnd, cliEnd, down, up, agtVars>>

\* The agent process stops, with every goroutine, and may dial again later.
AgentCrash(p) ==
  /\ cliEnd' = {c \in cliEnd : dialer[c] # p}
  /\ task' = [k \in Cmds |->
       IF task[k] \in {"running", "ran"} /\ dialer[via[k]] = p
       THEN "gone" ELSE task[k]]
  /\ UNCHANGED <<srvVars, callVars, srvEnd, broken, down, up, dialer, via, stage,
                 verdict>>

\* agent-service stops and starts again with an empty registry.
ServerCrash ==
  /\ registry' = [a \in Agents |-> None]
  /\ handler' = [c \in Conns |-> IF handler[c] = "none" THEN "none" ELSE "done"]
  /\ routing' = [c \in Conns |-> None]
  /\ pending' = [c \in Conns |-> {}]
  /\ progress' = [c \in Conns |-> [k \in Cmds |-> 0]]
  /\ caller' = [k \in Cmds |-> IF caller[k] = "idle" THEN "idle" ELSE "done"]
  /\ ret' = [k \in Cmds |-> IF caller[k] \in {"idle", "done"}
                            THEN ret[k] ELSE "unavailable"]
  /\ ch' = [k \in Cmds |-> "none"]
  /\ srvEnd' = {}
  /\ UNCHANGED <<target, cliEnd, broken, down, up, agtVars>>

ServerStep(c) ==
  \/ Register(c) \/ ReadError(c) \/ Unregister(c) \/ CloseConn(c)
  \/ HandleProgress(c) \/ LookupResult(c) \/ DeliverResult(c)

CallStep(k) ==
  \/ AddPending(k) \/ WriteCommand(k) \/ WriteFails(k)
  \/ ReceiveResult(k) \/ Timeout(k) \/ RemovePending(k)

TaskStep(k) == Notify(k) \/ SendResult(k) \/ \E v \in Outcomes : Execute(k, v)

Next ==
  \/ \E c \in Conns : ServerStep(c) \/ ClientRead(c) \/ ClientError(c) \/ Break(c)
  \/ \E c \in Conns, p \in Clients : Dial(p, c)
  \/ \E k \in Cmds : CallStep(k) \/ TaskStep(k)
  \/ \E k \in Cmds, a \in Agents : Lookup(k, a)
  \/ \E p \in Clients : AgentCrash(p)
  \/ ServerCrash

\* Both services' goroutines are scheduled; a dead connection makes a read fail
\* in the end (TCP keepalive); the timer of SendCommand fires.
Fairness ==
  /\ \A c \in Conns : WF_vars(ServerStep(c))
  /\ \A k \in Cmds : /\ WF_vars(AddPending(k) \/ WriteCommand(k) \/ WriteFails(k))
                     /\ WF_vars(Timeout(k)) /\ WF_vars(RemovePending(k))

Safety == Init /\ [][Next]_vars
Spec   == Safety /\ Fairness

-----------------------------------------------------------------------------
(* Properties.                                                             *)

\* Every variable has its type.
TypeOK ==
  /\ registry \in [Agents -> Conns \cup {None}]
  /\ handler \in [Conns -> HandlerStates]
  /\ routing \in [Conns -> Result \cup {None}]
  /\ pending \in [Conns -> SUBSET Cmds]
  /\ progress \in [Conns -> [Cmds -> 0..3]]
  /\ caller \in [Cmds -> CallerStates]
  /\ target \in [Cmds -> Conns \cup {None}]
  /\ ch \in [Cmds -> Verdicts]
  /\ ret \in [Cmds -> Answers]
  /\ srvEnd \subseteq Conns /\ cliEnd \subseteq Conns /\ broken \subseteq Conns
  /\ down \in [Conns -> Seq(Cmds)]
  /\ up \in [Conns -> Seq(Message)]
  /\ dialer \in [Conns -> Clients \cup {None}]
  /\ via \in [Cmds -> Conns \cup {None}]
  /\ task \in [Cmds -> TaskStates]
  /\ stage \in [Cmds -> 0..3]
  /\ verdict \in [Cmds -> Verdicts]

\* A caller that gets a result gets the outcome that its own command had on
\* the agent, whatever timed out, reconnected or overtook it.
ResultsGenuine ==
  \A k \in Cmds : ret[k] \in Outcomes => ret[k] = verdict[k]

\* The channel a handler sends a result on is free: the read loop never hangs
\* in HandleResult on a caller that has already given up.
HandlerNeverBlocks ==
  \A c \in Conns : routing[c] # None => ch[routing[c].id] = "none"

\* pending holds exactly the calls between their registration and their
\* deferred clean-up: no entry leaks on a timeout, a failed write or a crash.
PendingExact ==
  \A c \in Conns, k \in Cmds :
    k \in pending[c] <=> target[k] = c /\ caller[k] \in {"added", "waiting", "leaving"}

\* An entry of the registry is a connection of that agent whose handler has
\* not yet run its deferred calls: no entry outlives its read loop.
EntryHasHandler ==
  \A a \in Agents : registry[a] # None =>
    Agent(registry[a]) = a /\ handler[registry[a]] \in {"serving", "exiting"}

\* On a live connection a progress text belongs to a create the agent still
\* works on or whose result is about to be read: a poller never sees the
\* progress of a command whose result has been handled.
ProgressHasTask ==
  \A c \in Conns, k \in Cmds :
    handler[c] = "serving" /\ Healthy(c) /\ progress[c][k] > 0 =>
      \/ task[k] \in {"running", "ran"}
      \/ \E i \in 1..Len(up[c]) : up[c][i].type = "result" /\ up[c][i].id = k

\* A registered handler's agent keeps its entry until some handler of that
\* agent, its own or that of an older connection, has run Unregister.
LostOnlyByUnregister ==
  \A c \in Conns :
    handler[c] = "serving" /\ Healthy(c) /\ registry[Agent(c)] = None =>
      \E d \in Conns \ {c} : /\ handler[d] \in {"closing", "done"}
                             /\ dialer[d] # None /\ Agent(d) = Agent(c)

\* The progress of a command that a poller sees moves forward through pulling,
\* creating, starting, and then disappears.
ProgressForward ==
  [][\A c \in Conns, k \in Cmds :
       progress'[c][k] >= progress[c][k] \/ progress'[c][k] = 0]_vars

\* Every call of SendCommand returns.
CallsReturn == \A k \in Cmds : caller[k] # "idle" ~> caller[k] = "done"

\* The handler of a connection that is cut or closed runs to its end, which
\* needs HandlerNeverBlocks.
HandlersLeave ==
  \A c \in Conns : handler[c] # "none" /\ ~Healthy(c) ~> handler[c] = "done"

\* The link implements the abstract port: a call is open from the look-up to
\* its return, its answer counts when the deferred clean-up has run.
CallState(k) == IF caller[k] = "idle" THEN "idle"
                ELSE IF caller[k] = "done" THEN "closed" ELSE "open"

Answer(k) == IF caller[k] # "done" THEN "none"
             ELSE IF ret[k] \in Outcomes THEN ret[k]
             ELSE IF ret[k] \in {"notfound", "senderr"} THEN "refused" ELSE "unknown"

CallBar   == [k \in Cmds |-> CallState(k)]
AnswerBar == [k \in Cmds |-> Answer(k)]

Port == INSTANCE CommandPort WITH call <- CallBar, ran <- verdict, answer <- AnswerBar

\* A refused command never runs, an accepted one runs at most once, and the
\* caller is told its outcome or "unknown".
ImplementsPort == Port!Safety

\* registry.go:138, "AgentRegistry tracks connected agents": an agent that a
\* handler is serving over a live connection has an entry.
RegistryTracksConnected ==
  \A c \in Conns : handler[c] = "serving" /\ Healthy(c) => registry[Agent(c)] # None

-----------------------------------------------------------------------------
(* The inductive invariant behind the properties about answers.  A command *)
(* is in one place: not yet written, under way to the agent, at the agent, *)
(* or its result is under way back, looked up by the handler, in the       *)
(* caller's channel, returned, or lost.                                    *)

Sent(k) == /\ caller[k] \in {"waiting", "leaving", "done"}
           /\ ret[k] \notin {"notfound", "senderr"}

Unanswered(k) == ch[k] = "none" /\ ret[k] \notin Outcomes

\* A result that m carries belongs to a finished goroutine of connection c.
Carried(m, c) == /\ task[m.id] = "gone" /\ via[m.id] = c
                 /\ m.verdict = verdict[m.id] /\ Unanswered(m.id)

CallerInv == \A k \in Cmds :
  /\ caller[k] \in {"idle", "looked", "added", "waiting"} => ret[k] = "none"
  /\ caller[k] \in {"looked", "added", "waiting", "leaving"} => target[k] \in Conns

DownInv == \A c \in Conns : \A i \in 1..Len(down[c]) :
  /\ target[down[c][i]] = c /\ Sent(down[c][i]) /\ task[down[c][i]] = "none"
  /\ \A j \in 1..Len(down[c]) : down[c][i] = down[c][j] => i = j

TaskInv == \A k \in Cmds :
  /\ task[k] # "none" => Sent(k) /\ via[k] \in Conns
  /\ verdict[k] # "none" => task[k] \in {"ran", "gone"}
  /\ task[k] = "ran" => verdict[k] # "none"

UpInv == \A c \in Conns : \A i \in 1..Len(up[c]) : up[c][i].type = "result" =>
  /\ Carried(up[c][i], c)
  /\ routing[c] # None => routing[c].id # up[c][i].id
  /\ \A j \in 1..Len(up[c]) :
       up[c][j].type = "result" /\ up[c][i].id = up[c][j].id => i = j

RoutingInv == \A c \in Conns : routing[c] # None => Carried(routing[c], c)

AnswerInv == \A k \in Cmds :
  /\ ch[k] # "none" => ch[k] = verdict[k] /\ task[k] = "gone" /\ ret[k] \notin Outcomes
  /\ ret[k] \in Outcomes => ret[k] = verdict[k] /\ task[k] = "gone" /\ ch[k] = "none"

\* The strengthening of ResultsGenuine and HandlerNeverBlocks that every step
\* preserves.
AnswersInv == CallerInv /\ DownInv /\ TaskInv /\ UpInv /\ RoutingInv /\ AnswerInv

\* The strengthening of EntryHasHandler: a connection with a handler was dialed.
EntryInv ==
  /\ EntryHasHandler
  /\ \A c \in Conns : handler[c] # "none" => dialer[c] \in Clients
=============================================================================
