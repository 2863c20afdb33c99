-------------------------------- MODULE Tunnel --------------------------------
(***************************************************************************)
(* One connection of an agent, all the way: the agent's goroutines and the *)
(* mutex of Agent.connect, the two copying loops of the gateway's WSProxy, *)
(* and the read loop and SendCommand of agent-service with AgentConn.mu.   *)
(*                                                                         *)
(*      agent  "A" <----> "Pc"  proxy  "Pb" <----> "S"  agent-service      *)
(*                                                                         *)
(* Each end of the two WebSockets writes into a pipe of bounded length, so *)
(* a write may have to wait for the reader at the other side, as it does   *)
(* when TCP's buffers are full.  An end is shut by Close(); a connection   *)
(* is cut by the network.  This is one connection from its upgrade to its  *)
(* end; AgentLink has what is routed over it and what follows it.          *)
(***************************************************************************)
EXTENDS Integers, Sequences, FiniteSets

CONSTANTS Cmds,       \* the commands sent to the agent: strings
          Cap,        \* messages a pipe holds
          MaxPings,   \* bounds the pings of the agent
          Faults      \* sets of faults that may come together

(* A command is not named like another message or a writer.                *)
ASSUME CmdsAssumption ==
  /\ Cmds \subseteq STRING
  /\ Cmds \cap {"ping", "pong", "main", "result", "close", "error", "none", "free"} = {}
ASSUME BoundsAssumption == Cap \in Nat \ {0} /\ MaxPings \in Nat

Ends == {"A", "Pc", "Pb", "S"}
Peer == [A |-> "Pc", Pc |-> "A", Pb |-> "S", S |-> "Pb"]
Conn == [A |-> "client", Pc |-> "client", Pb |-> "backend", S |-> "backend"]

(* The goroutines of the agent that write: one per command, pingLoop, and  *)
(* the main loop, which writes a close message when the agent stops.       *)
Writers == Cmds \union {"ping", "main"}

VARIABLES pipe,    \* pipe[e]: what end e wrote and its peer has not read
          shut,    \* ends that were closed
          cut,     \* connections that are broken
          stop,    \* the agent's context is cancelled
          wpc,     \* the writers of the agent: "idle", "lock", "write", "done"
          amu,     \* who holds the agent's mutex
          pings,   \* pings begun
          reader,  \* the agent's reader: "read", "hand", "done"
          read,    \* what the reader hands to the main loop
          up,      \* the proxy's loop towards agent-service: "read", "write", "close", "done"
          down,    \* the one towards the agent, likewise
          held,    \* the message each of the two is about to write
          loop,    \* HandleAgentWS: "read", "pong", "lock", "done"
          cpc,     \* SendCommand of each command: "idle", "write", "sent", "failed"
          smu,     \* who holds AgentConn.mu
          faults,  \* the stop, the replacement and the cuts so far
          sent, got  \* history: messages written and received, by direction

agentVars == <<stop, wpc, amu, pings, reader, read>>
proxyVars == <<up, down, held>>
serverVars == <<loop, cpc, smu>>
netVars == <<pipe, shut, cut>>
history == <<sent, got, faults>>
vars == <<netVars, agentVars, proxyVars, serverVars, history>>

Directions == {"up", "down"}
Free == "free"
NoMsg == [what |-> "none", n |-> 0]
Whats == Cmds \union {"ping", "pong", "result", "close", "error", "none"}
Msg == [what : Whats, n : Nat]

TypeOK ==
  /\ pipe \in [Ends -> Seq(Msg)] /\ \A e \in Ends : Len(pipe[e]) <= Cap
  /\ shut \subseteq Ends /\ cut \subseteq {"client", "backend"} /\ stop \in BOOLEAN
  /\ wpc \in [Writers -> {"idle", "lock", "write", "done"}]
  /\ amu \in Writers \union {Free} /\ smu \in Cmds \union {Free}
  /\ pings \in 0 .. MaxPings
  /\ reader \in {"read", "hand", "done"} /\ read \in Msg
  /\ up \in {"read", "write", "close", "done"} /\ down \in {"read", "write", "close", "done"}
  /\ held \in [Directions -> Msg]
  /\ loop \in {"read", "pong", "lock", "done"}
  /\ cpc \in [Cmds -> {"idle", "write", "sent", "failed"}]
  /\ faults \subseteq {"stop", "replace", "client", "backend"}
  /\ sent \in [Directions -> Nat] /\ got \in [Directions -> Seq(Nat)]

Init ==
  /\ pipe = [e \in Ends |-> <<>>] /\ shut = {} /\ cut = {} /\ stop = FALSE
  /\ wpc = [w \in Writers |-> "idle"] /\ amu = Free /\ pings = 0
  /\ reader = "read" /\ read = NoMsg
  /\ up = "read" /\ down = "read" /\ held = [d \in Directions |-> NoMsg]
  /\ loop = "read" /\ cpc = [k \in Cmds |-> "idle"] /\ smu = Free
  /\ sent = [d \in Directions |-> 0] /\ got = [d \in Directions |-> <<>>] /\ faults = {}

Fault(f) ==
  /\ \E together \in Faults : faults \union {f} \subseteq together
  /\ faults' = faults \union {f}

-----------------------------------------------------------------------------
(* Reading and writing at an end of a WebSocket.                           *)

Gone(e) == e \in shut \/ Conn[e] \in cut

(* WriteMessage returns: the message is in the pipe, or there is an error. *)
Put(e, m) ==
  /\ ~Gone(e) /\ Len(pipe[e]) < Cap
  /\ pipe' = [pipe EXCEPT ![e] = Append(@, m)]
  /\ UNCHANGED <<shut, cut>>
\* The library's own echo of a close message, and ErrCloseSent for what is
\* written after one, are left out: they let writes fail sooner on an end that
\* is being given up.
PutFails(e) == Gone(e) \/ Peer[e] \in shut

(* ReadMessage returns message m. *)
Get(e, m) ==
  /\ ~Gone(e) /\ pipe[Peer[e]] # <<>>
  /\ m = Head(pipe[Peer[e]]) /\ m.what # "close"
  /\ pipe' = [pipe EXCEPT ![Peer[e]] = Tail(@)]
  /\ UNCHANGED <<shut, cut>>
(* It returns an error: for a close message, or the end of the connection. *)
GetFails(e) ==
  \/ Gone(e) \/ Peer[e] \in shut
  \/ pipe[Peer[e]] # <<>> /\ Head(pipe[Peer[e]]).what = "close"

Heads(e) == IF pipe[Peer[e]] = <<>> THEN {} ELSE {Head(pipe[Peer[e]])}

Count(d) == sent' = [sent EXCEPT ![d] = @ + 1]
Number(d, what) == [what |-> what, n |-> sent[d] + 1]

-----------------------------------------------------------------------------
(* Faulty variants, used to show that the properties can fail.             *)

(* A progress message is written without the mutex. *)
LockForgotten(w) ==
  /\ wpc[w] = "lock"
  /\ wpc' = [wpc EXCEPT ![w] = "write"]
  /\ UNCHANGED <<netVars, stop, amu, pings, reader, read, proxyVars, serverVars, history>>

(* A failed write returns with the mutex held. *)
WriteAgentFailsLocked(w) ==
  /\ wpc[w] = "write" /\ PutFails("A")
  /\ wpc' = [wpc EXCEPT ![w] = "done"]
  /\ UNCHANGED <<netVars, stop, amu, pings, reader, read, proxyVars, serverVars, history>>

(* The reader drops a message when the main loop is not waiting for it. *)
ReadAgentOrDrop ==
  /\ reader = "read"
  /\ \/ \E m \in Heads("A") : Get("A", m) /\ read' = m /\ reader' = "hand"
     \/ \E m \in Heads("A") : Get("A", m) /\ UNCHANGED <<read, reader>>
     \/ GetFails("A") /\ read' = [what |-> "error", n |-> 0] /\ reader' = "hand" /\ UNCHANGED netVars
  /\ UNCHANGED <<stop, wpc, amu, pings, proxyVars, serverVars, history>>

(* The end of the client is not passed on. *)
UpCloseSilently ==
  /\ up = "close"
  /\ up' = "done"
  /\ UNCHANGED <<netVars, agentVars, down, held, serverVars, history>>

-----------------------------------------------------------------------------
(* The agent.                                                              *)

Stop ==
  /\ ~stop /\ wpc["main"] = "idle"
  /\ Fault("stop")
  /\ stop' = TRUE
  /\ UNCHANGED <<netVars, wpc, amu, pings, reader, read, proxyVars, serverVars, sent, got>>

Tick ==
  /\ wpc["ping"] = "idle" /\ pings < MaxPings
  /\ wpc' = [wpc EXCEPT !["ping"] = "lock"]
  /\ pings' = pings + 1
  /\ UNCHANGED <<netVars, stop, amu, reader, read, proxyVars, serverVars, history>>

PingLoopStops ==
  /\ wpc["ping"] = "idle" /\ stop
  /\ wpc' = [wpc EXCEPT !["ping"] = "done"]
  /\ UNCHANGED <<netVars, stop, amu, pings, reader, read, proxyVars, serverVars, history>>

(* mu.Lock, WriteMessage and mu.Unlock, for a result, a ping or the close  *)
(* message of an agent that stops.                                         *)
Lock(w) ==
  /\ wpc[w] = "lock" /\ amu = Free
  /\ wpc' = [wpc EXCEPT ![w] = "write"]
  /\ amu' = w
  /\ UNCHANGED <<netVars, stop, pings, reader, read, proxyVars, serverVars, history>>

Written(w) == CASE w = "ping" -> "ping" [] w = "main" -> "close" [] OTHER -> "result"

WriteAgent(w) ==
  /\ wpc[w] = "write"
  /\ IF w = "main"
     THEN /\ Put("A", [what |-> "close", n |-> 0]) /\ UNCHANGED sent
     ELSE /\ Put("A", Number("up", Written(w))) /\ Count("up")
  /\ wpc' = [wpc EXCEPT ![w] = IF w = "ping" THEN "idle" ELSE "done"]
  /\ amu' = Free
  /\ UNCHANGED <<stop, pings, reader, read, proxyVars, serverVars, got, faults>>

WriteAgentFails(w) ==
  /\ wpc[w] = "write" /\ PutFails("A")
  /\ wpc' = [wpc EXCEPT ![w] = "done"]
  /\ amu' = Free
  /\ UNCHANGED <<netVars, stop, pings, reader, read, proxyVars, serverVars, history>>

(* The reader goroutine: ReadMessage, then a send on the unbuffered msgCh. *)
ReadAgent ==
  /\ reader = "read"
  /\ reader' = "hand"
  /\ \/ \E m \in Heads("A") : Get("A", m) /\ read' = m
     \/ GetFails("A") /\ read' = [what |-> "error", n |-> 0] /\ UNCHANGED netVars
  /\ UNCHANGED <<stop, wpc, amu, pings, proxyVars, serverVars, history>>

(* connect returns: its deferred Close shuts the agent's end.              *)
Return == shut' = shut \union {"A"} /\ UNCHANGED <<pipe, cut>>

(* The main loop receives: a pong, a command whose goroutine it starts, or *)
(* the error with which it returns.                                        *)
Receive ==
  /\ wpc["main"] = "idle" /\ reader = "hand"
  /\ \/ /\ read.what = "error"
        /\ reader' = "done" /\ wpc' = [wpc EXCEPT !["main"] = "done"]
        /\ Return /\ UNCHANGED got
     \/ /\ read.what # "error"
        /\ reader' = "read"
        /\ wpc' = IF read.what \in Cmds THEN [wpc EXCEPT ![read.what] = "lock"] ELSE wpc
        /\ got' = [got EXCEPT !["down"] = Append(@, read.n)]
        /\ UNCHANGED netVars
  /\ read' = NoMsg
  /\ UNCHANGED <<stop, amu, pings, proxyVars, serverVars, sent, faults>>

(* The main loop sees that the context is cancelled.                       *)
StopSeen ==
  /\ stop /\ wpc["main"] = "idle"
  /\ wpc' = [wpc EXCEPT !["main"] = "lock"]
  /\ UNCHANGED <<netVars, stop, amu, pings, reader, read, proxyVars, serverVars, history>>

(* connect and then Run and main return: the process and its goroutines end. *)
Exit ==
  /\ wpc["main"] = "done" /\ stop /\ "A" \notin shut
  /\ Return
  /\ wpc' = [w \in Writers |-> "done"] /\ amu' = Free
  /\ reader' = "done" /\ read' = NoMsg
  /\ UNCHANGED <<stop, pings, proxyVars, serverVars, history>>

(* The goroutines of the agent. *)
Write(w) == Lock(w) \/ WriteAgent(w) \/ WriteAgentFails(w)
Main == Receive \/ StopSeen \/ Write("main") \/ Exit
PingLoop == PingLoopStops \/ Write("ping")

-----------------------------------------------------------------------------
(* The proxy.                                                              *)

(* The goroutine from the client to the backend; it closes nothing itself. *)
UpRead ==
  /\ up = "read"
  /\ \/ \E m \in Heads("Pc") : Get("Pc", m) /\ held' = [held EXCEPT !["up"] = m] /\ up' = "write"
     \/ GetFails("Pc") /\ up' = "close" /\ UNCHANGED <<netVars, held>>
  /\ UNCHANGED <<agentVars, down, serverVars, history>>

UpWrite ==
  /\ up = "write"
  /\ \/ Put("Pb", held["up"]) /\ up' = "read"
     \/ PutFails("Pb") /\ up' = "done" /\ UNCHANGED netVars
  /\ held' = [held EXCEPT !["up"] = NoMsg]
  /\ UNCHANGED <<agentVars, down, serverVars, history>>

UpClose ==
  /\ up = "close"
  /\ \/ Put("Pb", [what |-> "close", n |-> 0])
     \/ PutFails("Pb") /\ UNCHANGED netVars
  /\ up' = "done"
  /\ UNCHANGED <<agentVars, down, held, serverVars, history>>

(* The handler's own loop; when it returns both WebSockets are closed.     *)
CloseBoth == shut' = shut \union {"Pc", "Pb"} /\ UNCHANGED <<pipe, cut>>

DownRead ==
  /\ down = "read"
  /\ \/ \E m \in Heads("Pb") : Get("Pb", m) /\ held' = [held EXCEPT !["down"] = m] /\ down' = "write"
     \/ GetFails("Pb") /\ down' = "close" /\ UNCHANGED <<netVars, held>>
  /\ UNCHANGED <<agentVars, up, serverVars, history>>

DownWrite ==
  /\ down = "write"
  /\ \/ Put("Pc", held["down"]) /\ down' = "read"
     \/ PutFails("Pc") /\ down' = "done" /\ CloseBoth
  /\ held' = [held EXCEPT !["down"] = NoMsg]
  /\ UNCHANGED <<agentVars, up, serverVars, history>>

(* The close message to the client, if it can be written, then the end.    *)
DownClose ==
  /\ down = "close"
  /\ \/ /\ ~Gone("Pc") /\ Len(pipe["Pc"]) < Cap
        /\ pipe' = [pipe EXCEPT !["Pc"] = Append(@, [what |-> "close", n |-> 0])]
        /\ shut' = shut \union {"Pc", "Pb"} /\ UNCHANGED cut
     \/ PutFails("Pc") /\ CloseBoth
  /\ down' = "done"
  /\ UNCHANGED <<agentVars, up, held, serverVars, history>>

Up == UpRead \/ UpWrite \/ UpClose
Down == DownRead \/ DownWrite \/ DownClose

-----------------------------------------------------------------------------
(* agent-service.                                                          *)

(* HandleAgentWS: a ping is answered at once, everything else is handled   *)
(* under AgentConn.mu; an error ends the handler, which closes its end.    *)
Read ==
  /\ loop = "read"
  /\ \/ \E m \in Heads("S") :
          /\ Get("S", m)
          /\ loop' = IF m.what = "ping" THEN "pong" ELSE "lock"
          /\ got' = [got EXCEPT !["up"] = Append(@, m.n)]
     \/ /\ GetFails("S")
        /\ loop' = "done"
        /\ shut' = shut \union {"S"} /\ UNCHANGED <<pipe, cut, got>>
  /\ UNCHANGED <<agentVars, proxyVars, cpc, smu, sent, faults>>

(* HandleResult, HandleProgress, HandleLogChunk lock, and unlock at once.  *)
Handle ==
  /\ loop = "lock" /\ smu = Free
  /\ loop' = "read"
  /\ UNCHANGED <<netVars, agentVars, proxyVars, cpc, smu, history>>

(* The pong is written without AgentConn.mu, its error is dropped.         *)
Pong ==
  /\ loop = "pong"
  /\ \/ Put("S", Number("down", "pong")) /\ Count("down")
     \/ PutFails("S") /\ UNCHANGED <<netVars, sent>>
  /\ loop' = "read"
  /\ UNCHANGED <<agentVars, proxyVars, cpc, smu, got, faults>>

(* SendCommand writes its command under AgentConn.mu.                      *)
SendCommand(k) ==
  /\ cpc[k] = "idle" /\ smu = Free
  /\ cpc' = [cpc EXCEPT ![k] = "write"]
  /\ smu' = k
  /\ UNCHANGED <<netVars, agentVars, proxyVars, loop, history>>

WriteCommand(k) ==
  /\ cpc[k] = "write"
  /\ \/ /\ Put("S", Number("down", k)) /\ Count("down")
        /\ cpc' = [cpc EXCEPT ![k] = "sent"]
     \/ /\ PutFails("S") /\ UNCHANGED <<netVars, sent>>
        /\ cpc' = [cpc EXCEPT ![k] = "failed"]
  /\ smu' = Free
  /\ UNCHANGED <<agentVars, proxyVars, loop, got, faults>>

(* Two writers at once: the WebSocket library panics in one of them.  In   *)
(* the handler that ends the connection, in SendCommand the process.       *)
Clash ==
  /\ loop = "pong" /\ \E k \in Cmds : cpc[k] = "write"
  /\ loop' = "done"
  /\ shut' = shut \union {"S"} /\ UNCHANGED <<pipe, cut>>
  /\ UNCHANGED <<agentVars, proxyVars, cpc, smu, history>>

(* Register for another connection of the agent closes this one.           *)
Replace ==
  /\ "S" \notin shut
  /\ Fault("replace")
  /\ shut' = shut \union {"S"} /\ UNCHANGED <<pipe, cut>>
  /\ UNCHANGED <<agentVars, proxyVars, serverVars, sent, got>>

HandleAgentWS == Read \/ Handle \/ Pong

Cut(c) ==
  /\ c \notin cut
  /\ Fault(c)
  /\ cut' = cut \union {c} /\ UNCHANGED <<pipe, shut>>
  /\ UNCHANGED <<agentVars, proxyVars, serverVars, sent, got>>

Environment ==
  \/ Tick \/ Stop \/ Clash \/ Replace
  \/ \E k \in Cmds : SendCommand(k)
  \/ \E c \in {"client", "backend"} : Cut(c)

Next ==
  \/ ReadAgent \/ Main \/ PingLoop \/ Up \/ Down \/ HandleAgentWS
  \/ \E k \in Cmds : Write(k) \/ WriteCommand(k)
  \/ Environment

(* Each goroutine goes on while it can; nothing makes a ping, a command, a *)
(* signal or a failure happen.                                             *)
Fairness ==
  /\ WF_vars(ReadAgent) /\ WF_vars(Main) /\ WF_vars(PingLoop)
  /\ WF_vars(Up) /\ WF_vars(Down) /\ WF_vars(HandleAgentWS)
  /\ \A k \in Cmds : WF_vars(Write(k)) /\ WF_vars(WriteCommand(k))

Spec == Init /\ [][Next]_vars /\ Fairness

-----------------------------------------------------------------------------
(* Properties.                                                             *)

Ending == stop \/ shut # {} \/ cut # {}

(* The tunnel is a wire: in each direction the messages of the agent and   *)
(* of agent-service arrive in order, none skipped, and all of them while   *)
(* nobody stops and no end is closed or cut.                               *)
W == INSTANCE Wire WITH open <- ~Ending
ImplementsWire == W!Spec

WritersAt(e) ==
  CASE e = "A"  -> {w \in Writers : wpc[w] = "write"}
    [] e = "Pc" -> {d \in {"down"} : down \in {"write", "close"}}
    [] e = "Pb" -> {d \in {"up"} : up \in {"write", "close"}}
    [] e = "S"  -> {k \in Cmds : cpc[k] = "write"}
                   \union {p \in {"pong"} : loop = "pong"}

(* The WebSocket library allows one writer at a time.  The mutexes of the  *)
(* agent and of SendCommand keep to it; only a pong can meet a command.    *)
WritersApart ==
  \A e \in Ends : \A v, w \in WritersAt(e) : v # w => e = "S" /\ "pong" \in {v, w}

(* While the agent is not stopping, no writer of it, and no SendCommand,   *)
(* waits for ever for a mutex or for room, whatever fails.                 *)
WritesReturn ==
  /\ \A w \in Writers \ {"main"} :
       wpc[w] \in {"lock", "write"} ~> (wpc[w] \notin {"lock", "write"} \/ stop)
  /\ \A k \in Cmds : cpc[k] = "write" ~> (cpc[k] # "write" \/ stop)
  /\ loop \in {"lock", "pong"} ~> (loop \notin {"lock", "pong"} \/ stop)

(* A stopping agent wants to write its close message and no longer takes   *)
(* what its reader hands over, while both pipes of its connection are full.*)
Hung ==
  wpc["main"] \in {"lock", "write"} /\ Len(pipe["A"]) = Cap /\ Len(pipe["Pc"]) = Cap

Ended == wpc["main"] = "done" /\ up = "done" /\ down = "done" /\ loop = "done" /\ shut = Ends

(* When an end is closed or a connection cut, the whole of the tunnel      *)
(* ends: connect returns, both loops of the proxy do, and so does          *)
(* HandleAgentWS, which then unregisters the agent.  The exception is an   *)
(* agent that hangs in its graceful shutdown for ever.                     *)
EndsTogether == <>[]Hung \/ (shut # {} \/ cut # {} ~> Ended)
=============================================================================
