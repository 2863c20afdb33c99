---------------------------- MODULE TunnelProofs ----------------------------
(***************************************************************************)
(* What holds of a connection for any commands, any length of the pipes    *)
(* and any number of pings and faults: its types, that only a pong meets   *)
(* another writer, that each step is one of the abstract wire, and that    *)
(* its goroutines never wait for each other in a circle, but for one case. *)
(***************************************************************************)
EXTENDS Tunnel, TLAPS

LEMMA Peers ==
  /\ Peer["A"] = "Pc" /\ Peer["Pc"] = "A" /\ Peer["Pb"] = "S" /\ Peer["S"] = "Pb"
  /\ \A e \in Ends : Peer[e] \in Ends
BY DEF Peer, Ends

PipesOK == pipe \in [Ends -> Seq(Msg)] /\ \A e \in Ends : Len(pipe[e]) <= Cap

(* A write appends to one pipe, a read takes the head of one.              *)
LEMMA PutPipe ==
  ASSUME PipesOK, NEW e \in Ends, NEW m \in Msg, Put(e, m)
  PROVE  PipesOK' /\ UNCHANGED <<shut, cut>>
<1>1. Append(pipe[e], m) \in Seq(Msg) /\ Len(Append(pipe[e], m)) = Len(pipe[e]) + 1
  BY DEF PipesOK
<1>2. Len(pipe[e]) + 1 <= Cap
  BY BoundsAssumption DEF PipesOK, Put
<1> QED
  BY <1>1, <1>2 DEF PipesOK, Put

LEMMA GetPipe ==
  ASSUME PipesOK, NEW e \in Ends, NEW m, Get(e, m)
  PROVE  m \in Msg /\ PipesOK' /\ UNCHANGED <<shut, cut>>
<1> DEFINE p == Peer[e]
<1>1. p \in Ends /\ pipe[p] \in Seq(Msg) /\ pipe[p] # <<>>
  BY Peers DEF PipesOK, Get
<1>2. Tail(pipe[p]) \in Seq(Msg) /\ Len(Tail(pipe[p])) = Len(pipe[p]) - 1 /\ Head(pipe[p]) \in Msg
  BY <1>1
<1>3. m = Head(pipe[p]) /\ pipe' = [pipe EXCEPT ![p] = Tail(pipe[p])] /\ UNCHANGED <<shut, cut>>
  BY DEF Get
<1> HIDE DEF p
<1>4. pipe' \in [Ends -> Seq(Msg)]
  BY <1>1, <1>2, <1>3 DEF PipesOK
<1>5. \A d \in Ends : Len(pipe'[d]) <= Cap
  BY <1>1, <1>2, <1>3, BoundsAssumption DEF PipesOK
<1> QED
  BY <1>2, <1>3, <1>4, <1>5 DEF PipesOK

LEMMA Messages ==
  /\ NoMsg \in Msg
  /\ [what |-> "error", n |-> 0] \in Msg /\ [what |-> "close", n |-> 0] \in Msg
  /\ \A w \in Writers : Written(w) \in Whats
  /\ TypeOK => \A d \in Directions, x \in Whats : Number(d, x) \in Msg
<1>1. NoMsg \in Msg /\ [what |-> "error", n |-> 0] \in Msg /\ [what |-> "close", n |-> 0] \in Msg
  BY DEF NoMsg, Msg, Whats
<1>2. \A w \in Writers : Written(w) \in Whats
  BY DEF Written, Whats
<1>3. TypeOK => \A d \in Directions, x \in Whats : Number(d, x) \in Msg
  BY DEF TypeOK, Number, Msg
<1> QED
  BY <1>1, <1>2, <1>3

LEMMA AppendNumber ==
  ASSUME got \in [Directions -> Seq(Nat)], NEW d \in Directions, NEW n \in Nat,
         got' = [got EXCEPT ![d] = Append(@, n)]
  PROVE  got' \in [Directions -> Seq(Nat)]
<1>1. Append(got[d], n) \in Seq(Nat)
  OBVIOUS
<1> QED
  BY <1>1

(* Every step keeps the types. *)
LEMMA TypeStep == TypeOK /\ [Next]_vars => TypeOK'
<1> SUFFICES ASSUME TypeOK, [Next]_vars PROVE TypeOK'
  OBVIOUS
<1>0. PipesOK
  BY DEF PipesOK, TypeOK
<1> USE CmdsAssumption, BoundsAssumption, Messages, <1>0 DEF TypeOK
<1> USE DEF netVars, agentVars, proxyVars, serverVars, history, Fault
<1>1. CASE ReadAgent
  <2>1. "A" \in Ends
    BY DEF Ends
  <2>2. PipesOK' /\ read' \in Msg /\ UNCHANGED <<shut, cut>>
    BY <1>1, <2>1, GetPipe DEF ReadAgent, PipesOK
  <2> QED
    BY <1>1, <2>2 DEF ReadAgent, PipesOK
<1>2. CASE Receive
  <2>1. shut' \subseteq Ends /\ UNCHANGED <<pipe, cut>>
    BY <1>2 DEF Receive, Return, Ends
  <2>2. wpc' \in [Writers -> {"idle", "lock", "write", "done"}]
    BY <1>2 DEF Receive, Writers
  <2>3. got' \in [Directions -> Seq(Nat)]
    <3>1. read.n \in Nat
      BY DEF Msg
    <3>2. \/ UNCHANGED got
          \/ got' = [got EXCEPT !["down"] = Append(@, read.n)]
      BY <1>2 DEF Receive
    <3> QED
      BY <3>1, <3>2, AppendNumber DEF Directions
  <2>4. read' \in Msg /\ reader' \in {"read", "hand", "done"}
    BY <1>2 DEF Receive
  <2> QED
    BY <1>2, <2>1, <2>2, <2>3, <2>4 DEF Receive
<1>3. CASE StopSeen \/ PingLoopStops
  BY <1>3 DEF StopSeen, PingLoopStops, Writers
<1>4. CASE Exit
  BY <1>4 DEF Exit, Return, Ends
<1>5. ASSUME NEW w \in Writers, Lock(w) PROVE TypeOK'
  BY <1>5 DEF Lock
<1>6. ASSUME NEW w \in Writers, WriteAgentFails(w) PROVE TypeOK'
  BY <1>6 DEF WriteAgentFails
<1>7. ASSUME NEW w \in Writers, WriteAgent(w) PROVE TypeOK'
  <2>1. "A" \in Ends /\ "up" \in Directions
    BY DEF Ends, Directions
  <2>2. PipesOK' /\ UNCHANGED <<shut, cut>>
    BY <1>7, <2>1, PutPipe DEF WriteAgent
  <2>3. sent' \in [Directions -> Nat]
    <3>1. UNCHANGED sent \/ sent' = [sent EXCEPT !["up"] = @ + 1]
      BY <1>7 DEF WriteAgent, Count
    <3> QED
      BY <2>1, <3>1
  <2>4. wpc' \in [Writers -> {"idle", "lock", "write", "done"}]
    BY <1>7 DEF WriteAgent
  <2> QED
    BY <1>7, <2>2, <2>3, <2>4 DEF WriteAgent, PipesOK
<1>8. CASE UpRead
  <2>1. "Pc" \in Ends
    BY DEF Ends
  <2>2. PipesOK' /\ held' \in [Directions -> Msg] /\ UNCHANGED <<shut, cut>>
    BY <1>8, <2>1, GetPipe DEF UpRead, PipesOK
  <2> QED
    BY <1>8, <2>2 DEF UpRead, PipesOK
<1>9. CASE UpWrite
  <2>1. "Pb" \in Ends /\ held["up"] \in Msg
    BY DEF Ends, Directions
  <2>2. PipesOK' /\ UNCHANGED <<shut, cut>>
    BY <1>9, <2>1, PutPipe DEF UpWrite, PipesOK
  <2> QED
    BY <1>9, <2>2 DEF UpWrite, PipesOK
<1>10. CASE UpClose
  <2>1. "Pb" \in Ends
    BY DEF Ends
  <2>2. PipesOK' /\ UNCHANGED <<shut, cut>>
    BY <1>10, <2>1, PutPipe DEF UpClose, PipesOK
  <2> QED
    BY <1>10, <2>2 DEF UpClose, PipesOK
<1>11. CASE DownRead
  <2>1. "Pb" \in Ends
    BY DEF Ends
  <2>2. PipesOK' /\ held' \in [Directions -> Msg] /\ UNCHANGED <<shut, cut>>
    BY <1>11, <2>1, GetPipe DEF DownRead, PipesOK
  <2> QED
    BY <1>11, <2>2 DEF DownRead, PipesOK
<1>12. CASE DownWrite
  <2>1. "Pc" \in Ends /\ "Pb" \in Ends /\ held["down"] \in Msg
    BY DEF Ends, Directions
  <2>2. PipesOK' /\ shut' \subseteq Ends /\ UNCHANGED cut
    BY <1>12, <2>1, PutPipe DEF DownWrite, PipesOK, CloseBoth
  <2> QED
    BY <1>12, <2>2 DEF DownWrite, PipesOK
<1>13. CASE DownClose
  <2>1. "Pc" \in Ends /\ "Pb" \in Ends
    BY DEF Ends
  <2>2. shut' \subseteq Ends /\ UNCHANGED cut
    BY <1>13, <2>1 DEF DownClose, CloseBoth
  <2>3. PipesOK'
    <3>1. CASE Put("Pc", [what |-> "close", n |-> 0])
      BY <3>1, <2>1, PutPipe
    <3>2. CASE UNCHANGED pipe
      BY <3>2 DEF PipesOK
    <3>3. ASSUME ~Gone("Pc"), Len(pipe["Pc"]) < Cap,
                 pipe' = [pipe EXCEPT !["Pc"] = Append(@, [what |-> "close", n |-> 0])]
          PROVE  PipesOK'
      <4>1. Append(pipe["Pc"], [what |-> "close", n |-> 0]) \in Seq(Msg)
        BY <2>1 DEF PipesOK
      <4>2. Len(Append(pipe["Pc"], [what |-> "close", n |-> 0])) = Len(pipe["Pc"]) + 1
        BY <2>1 DEF PipesOK
      <4> QED
        BY <3>3, <4>1, <4>2, <2>1 DEF PipesOK
    <3> QED
      BY <1>13, <3>2, <3>3 DEF DownClose, CloseBoth
  <2> QED
    BY <1>13, <2>2, <2>3 DEF DownClose, PipesOK
<1>14. CASE Read
  <2>1. "S" \in Ends /\ "up" \in Directions
    BY DEF Ends, Directions
  <2>2. PipesOK' /\ shut' \subseteq Ends /\ UNCHANGED cut
    BY <1>14, <2>1, GetPipe DEF Read, PipesOK
  <2>3. got' \in [Directions -> Seq(Nat)]
    <3>1. \A m \in Heads("S") : Get("S", m) => m.n \in Nat
      BY <2>1, GetPipe DEF Msg
    <3>2. \/ UNCHANGED got
          \/ \E m \in Heads("S") : m.n \in Nat /\ got' = [got EXCEPT !["up"] = Append(@, m.n)]
      BY <1>14, <3>1 DEF Read
    <3> QED
      BY <3>2, AppendNumber DEF Directions
  <2>4. loop' \in {"read", "pong", "lock", "done"}
    BY <1>14 DEF Read
  <2> QED
    BY <1>14, <2>2, <2>3, <2>4 DEF Read, PipesOK
<1>15. CASE Handle
  BY <1>15 DEF Handle
<1>16. CASE Pong
  <2>1. "S" \in Ends /\ "down" \in Directions /\ "pong" \in Whats
    BY DEF Ends, Directions, Whats
  <2>2. PipesOK' /\ UNCHANGED <<shut, cut>>
    BY <1>16, <2>1, PutPipe DEF Pong, PipesOK
  <2>3. sent' \in [Directions -> Nat]
    BY <1>16, <2>1 DEF Pong, Count
  <2> QED
    BY <1>16, <2>2, <2>3 DEF Pong, PipesOK
<1>17. ASSUME NEW k \in Cmds, WriteCommand(k) PROVE TypeOK'
  <2>1. "S" \in Ends /\ "down" \in Directions /\ k \in Whats
    BY DEF Ends, Directions, Whats
  <2>2. PipesOK' /\ UNCHANGED <<shut, cut>>
    BY <1>17, <2>1, PutPipe DEF WriteCommand, PipesOK
  <2>3. sent' \in [Directions -> Nat]
    <3>1. UNCHANGED sent \/ sent' = [sent EXCEPT !["down"] = @ + 1]
      BY <1>17 DEF WriteCommand, Count
    <3> QED
      BY <2>1, <3>1
  <2>4. cpc' \in [Cmds -> {"idle", "write", "sent", "failed"}]
    BY <1>17 DEF WriteCommand
  <2> QED
    BY <1>17, <2>2, <2>3, <2>4 DEF WriteCommand, PipesOK
<1>18. CASE Tick
  BY <1>18 DEF Tick, Writers
<1>19. CASE Stop
  BY <1>19 DEF Stop
<1>20. CASE Clash \/ Replace
  <2>1. shut' \subseteq Ends /\ UNCHANGED <<pipe, cut>>
    BY <1>20 DEF Clash, Replace, Ends
  <2>2. CASE Clash
    BY <2>1, <2>2 DEF Clash
  <2>3. CASE Replace
    BY <2>1, <2>3 DEF Replace
  <2> QED
    BY <1>20, <2>2, <2>3
<1>21. ASSUME NEW k \in Cmds, SendCommand(k) PROVE TypeOK'
  BY <1>21 DEF SendCommand
<1>22. ASSUME NEW c \in {"client", "backend"}, Cut(c) PROVE TypeOK'
  BY <1>22 DEF Cut
<1>23. CASE UNCHANGED vars
  BY <1>23 DEF vars
<1> HIDE DEF TypeOK
<1>24. \A w \in Writers : Write(w) => TypeOK'
  BY <1>5, <1>6, <1>7 DEF Write
<1>25. "main" \in Writers /\ "ping" \in Writers /\ Cmds \subseteq Writers
  BY DEF Writers
<1> QED
  BY <1>1, <1>2, <1>3, <1>4, <1>8, <1>9, <1>10, <1>11, <1>12, <1>13, <1>14, <1>15, <1>16,
     <1>17, <1>18, <1>19, <1>20, <1>21, <1>22, <1>23, <1>24, <1>25
     DEF Next, Main, PingLoop, Up, Down, HandleAgentWS, Environment

(* A connection is well typed in every reachable state.                    *)
THEOREM TunnelTypeCorrect == Spec => []TypeOK
<1>1. Init => TypeOK
  <2> SUFFICES ASSUME Init PROVE TypeOK
    OBVIOUS
  <2>1. pipe \in [Ends -> Seq(Msg)] /\ \A e \in Ends : Len(pipe[e]) <= Cap
    BY BoundsAssumption DEF Init
  <2>2. read \in Msg /\ held \in [Directions -> Msg]
    BY Messages DEF Init
  <2>3. sent \in [Directions -> Nat] /\ got \in [Directions -> Seq(Nat)]
    BY DEF Init
  <2>4. /\ wpc \in [Writers -> {"idle", "lock", "write", "done"}]
        /\ cpc \in [Cmds -> {"idle", "write", "sent", "failed"}]
        /\ pings \in 0 .. MaxPings /\ faults \subseteq {"stop", "replace", "client", "backend"}
    BY BoundsAssumption DEF Init
  <2>5. /\ shut \subseteq Ends /\ cut \subseteq {"client", "backend"} /\ stop \in BOOLEAN
        /\ amu = Free /\ smu = Free /\ reader = "read" /\ up = "read" /\ down = "read"
        /\ loop = "read"
    BY DEF Init
  <2> QED
    BY <2>1, <2>2, <2>3, <2>4, <2>5 DEF TypeOK
<1> QED
  BY <1>1, TypeStep, PTL DEF Spec

-----------------------------------------------------------------------------
(* What is on its way.                                                     *)

LEMMA PutEffect ==
  ASSUME PipesOK, NEW e \in Ends, NEW m, Put(e, m)
  PROVE  pipe'[e] = Append(pipe[e], m) /\ \A d \in Ends \ {e} : pipe'[d] = pipe[d]
BY DEF PipesOK, Put

LEMMA GetEffect ==
  ASSUME PipesOK, NEW e \in Ends, NEW p \in Ends, p = Peer[e], NEW m, Get(e, m)
  PROVE  /\ pipe[p] # <<>> /\ m = Head(pipe[p]) /\ m.what # "close"
         /\ pipe'[p] = Tail(pipe[p])
         /\ \A d \in Ends \ {p} : pipe'[d] = pipe[d]
BY DEF PipesOK, Get

(* No message of sequence s is an x; one at most is.                       *)
Clear(s, x) == \A i \in 1 .. Len(s) : s[i].what # x
Single(s, x) == \A i, j \in 1 .. Len(s) : s[i].what = x /\ s[j].what = x => i = j

(* Up to a close message, s is numbered from base + 1, and not beyond top. *)
Numbered(s, base, top) ==
  \A i \in 1 .. Len(s) :
    (\A j \in 1 .. i : s[j].what # "close") => s[i].n = base + i /\ s[i].n <= top

LEMMA PutWhat ==
  ASSUME NEW s \in Seq(Msg), NEW m \in Msg, NEW x
  PROVE  /\ Clear(Append(s, m), x) <=> Clear(s, x) /\ m.what # x
         /\ Single(s, x) /\ (m.what = x => Clear(s, x)) => Single(Append(s, m), x)
<1>1. Len(Append(s, m)) = Len(s) + 1 /\ Len(s) \in Nat
  OBVIOUS
<1>2. \A i \in 1 .. Len(s) : Append(s, m)[i] = s[i]
  OBVIOUS
<1>3. Append(s, m)[Len(s) + 1] = m
  OBVIOUS
<1> QED
  BY <1>1, <1>2, <1>3 DEF Clear, Single

LEMMA GetWhat ==
  ASSUME NEW s \in Seq(Msg), s # <<>>, NEW x
  PROVE  /\ Clear(s, x) => Clear(Tail(s), x) /\ Head(s).what # x
         /\ ~Clear(s, x) /\ Head(s).what # x => ~Clear(Tail(s), x)
         /\ Single(s, x) => Single(Tail(s), x)
         /\ Single(s, x) /\ Head(s).what = x => Clear(Tail(s), x)
<1>1. Len(Tail(s)) = Len(s) - 1 /\ Len(s) \in Nat /\ Len(s) > 0 /\ Head(s) = s[1]
  OBVIOUS
<1>2. \A i \in 1 .. Len(s) - 1 : Tail(s)[i] = s[i + 1]
  OBVIOUS
<1>3. \A i \in 1 .. Len(s) : i = 1 \/ i - 1 \in 1 .. Len(s) - 1
  BY <1>1
<1>4. ASSUME Clear(s, x) PROVE Clear(Tail(s), x) /\ Head(s).what # x
  BY <1>1, <1>2, <1>4 DEF Clear
<1>5. ASSUME Clear(Tail(s), x), Head(s).what # x PROVE Clear(s, x)
  <2> SUFFICES ASSUME NEW i \in 1 .. Len(s), i # 1 PROVE s[i].what # x
    BY <1>1, <1>5 DEF Clear
  <2>1. i - 1 \in 1 .. Len(s) - 1 /\ (i - 1) + 1 = i
    BY <1>1
  <2> QED
    BY <2>1, <1>1, <1>2, <1>5 DEF Clear
<1>6. ASSUME Single(s, x) PROVE Single(Tail(s), x)
  BY <1>1, <1>2, <1>6 DEF Single
<1>7. ASSUME Single(s, x), Head(s).what = x PROVE Clear(Tail(s), x)
  BY <1>1, <1>2, <1>7 DEF Single, Clear
<1> QED
  BY <1>4, <1>5, <1>6, <1>7

LEMMA PutNumbered ==
  ASSUME NEW s \in Seq(Msg), NEW m \in Msg, NEW base \in Nat, NEW top \in Nat,
         NEW more \in Nat, top <= more, Numbered(s, base, top),
         \/ m.what = "close" \/ ~Clear(s, "close")
         \/ m.n = base + Len(s) + 1 /\ m.n <= more
  PROVE  Numbered(Append(s, m), base, more)
<1>1. Len(Append(s, m)) = Len(s) + 1 /\ Len(s) \in Nat
  OBVIOUS
<1>2. \A i \in 1 .. Len(s) : Append(s, m)[i] = s[i]
  OBVIOUS
<1>3. Append(s, m)[Len(s) + 1] = m
  OBVIOUS
<1> SUFFICES ASSUME NEW i \in 1 .. Len(s) + 1,
                    \A j \in 1 .. i : Append(s, m)[j].what # "close"
             PROVE  Append(s, m)[i].n = base + i /\ Append(s, m)[i].n <= more
  BY <1>1 DEF Numbered
<1>4. CASE i <= Len(s)
  <2>1. \A j \in 1 .. i : s[j].what # "close"
    BY <1>1, <1>2, <1>4
  <2> QED
    BY <2>1, <1>1, <1>2, <1>4 DEF Numbered
<1>5. CASE i = Len(s) + 1
  <2>1. m.what # "close" /\ Clear(s, "close")
    BY <1>1, <1>2, <1>3, <1>5 DEF Clear
  <2> QED
    BY <2>1, <1>1, <1>3, <1>5
<1> QED
  BY <1>1, <1>4, <1>5

LEMMA MoreNumbered ==
  ASSUME NEW s \in Seq(Msg), NEW base \in Nat, NEW top \in Nat, NEW more \in Nat,
         top <= more, Numbered(s, base, top)
  PROVE  Numbered(s, base, more)
<1>1. ASSUME NEW i \in 1 .. Len(s) PROVE s[i].n \in Nat
  <2>1. s[i] \in Msg
    OBVIOUS
  <2> QED
    BY <2>1 DEF Msg
<1> QED
  BY <1>1 DEF Numbered

LEMMA GetNumbered ==
  ASSUME NEW s \in Seq(Msg), s # <<>>, NEW base \in Nat, NEW top \in Nat,
         Numbered(s, base, top), Head(s).what # "close"
  PROVE  /\ Head(s).n = base + 1 /\ base + 1 <= top
         /\ Numbered(Tail(s), base + 1, top)
<1>1. Len(Tail(s)) = Len(s) - 1 /\ Len(s) \in Nat /\ Len(s) > 0 /\ Head(s) = s[1]
  OBVIOUS
<1>2. \A i \in 1 .. Len(s) - 1 : Tail(s)[i] = s[i + 1]
  OBVIOUS
<1>3. Head(s).n = base + 1 /\ base + 1 <= top
  BY <1>1 DEF Numbered
<1>4. Numbered(Tail(s), base + 1, top)
  <2> SUFFICES ASSUME NEW i \in 1 .. Len(s) - 1,
                      \A j \in 1 .. i : Tail(s)[j].what # "close"
               PROVE  Tail(s)[i].n = base + 1 + i /\ Tail(s)[i].n <= top
    BY <1>1 DEF Numbered
  <2>1. ASSUME NEW j \in 1 .. i + 1 PROVE s[j].what # "close"
    <3>1. j = 1 \/ (j - 1 \in 1 .. i /\ (j - 1) + 1 = j)
      BY <1>1
    <3>2. CASE j = 1
      BY <3>2, <1>1
    <3>3. CASE j - 1 \in 1 .. i /\ (j - 1) + 1 = j
      <4>1. j - 1 \in 1 .. Len(s) - 1
        BY <3>3, <1>1
      <4>2. Tail(s)[j - 1] = s[j]
        BY <3>3, <4>1, <1>2
      <4> QED
        BY <3>3, <4>2
    <3> QED
      BY <3>1, <3>2, <3>3
  <2>2. i + 1 \in 1 .. Len(s)
    BY <1>1
  <2>3. s[i + 1].n = base + (i + 1) /\ s[i + 1].n <= top
    BY <2>1, <2>2 DEF Numbered
  <2> QED
    BY <2>3, <1>1, <1>2
<1> QED
  BY <1>3, <1>4

-----------------------------------------------------------------------------
(* One direction: its first pipe src, the loop of the proxy in state st    *)
(* with h in its hands, and its second pipe mid.  The reader has taken the *)
(* messages up to base, top were sent.                                     *)

Beyond(mid, st, base) == base + Len(mid) + (IF st = "write" THEN 1 ELSE 0)

(* The messages in mid follow those that were taken; while the loop goes   *)
(* on, the one it holds and those in src follow them, up to the last that  *)
(* was sent.  Nothing is read after a close message.                       *)
Flow(src, mid, st, h, base, top) ==
  /\ Numbered(mid, base, top)
  /\ st # "done" => Clear(mid, "close")
  /\ st = "write" => /\ h.what # "close"
                     /\ h.n = Beyond(mid, st, base) /\ h.n <= top
  /\ st \in {"read", "write"} =>
       /\ Numbered(src, Beyond(mid, st, base), top)
       /\ Clear(src, "close") => Beyond(mid, st, base) + Len(src) = top

LEMMA BeyondOK ==
  ASSUME NEW mid \in Seq(Msg), NEW st, NEW base \in Nat
  PROVE  /\ Beyond(mid, st, base) \in Nat
         /\ st = "write" => Beyond(mid, st, base) = base + Len(mid) + 1
         /\ st # "write" => Beyond(mid, st, base) = base + Len(mid)
<1>1. Len(mid) \in Nat
  OBVIOUS
<1> QED
  BY <1>1 DEF Beyond

(* Another message is sent. *)
LEMMA FlowPut ==
  ASSUME NEW src \in Seq(Msg), NEW mid \in Seq(Msg), NEW st, NEW h \in Msg,
         NEW base \in Nat, NEW top \in Nat, NEW more \in Nat, NEW m \in Msg,
         Flow(src, mid, st, h, base, top),
         \/ m.what = "close" /\ more = top
         \/ m.n = top + 1 /\ more = top + 1
  PROVE  Flow(Append(src, m), mid, st, h, base, more)
<1> DEFINE b == Beyond(mid, st, base)
<1>1. b \in Nat /\ Len(src) \in Nat /\ h.n \in Nat
  <2>1. b \in Nat
    BY BeyondOK
  <2>2. h.n \in Nat
    BY DEF Msg
  <2> QED
    BY <2>1, <2>2
<1>2. top <= more
  OBVIOUS
<1>3. Numbered(mid, base, more)
  BY <1>2, MoreNumbered DEF Flow
<1>4. st = "write" => h.what # "close" /\ h.n = b /\ h.n <= more
  BY <1>1, <1>2 DEF Flow
<1>5. ASSUME st \in {"read", "write"}
      PROVE  /\ Numbered(Append(src, m), b, more)
             /\ Clear(Append(src, m), "close") => b + Len(Append(src, m)) = more
  <2>1. /\ Numbered(src, b, top)
        /\ Clear(src, "close") => b + Len(src) = top
    BY <1>5 DEF Flow
  <2> HIDE DEF b
  <2>2. m.what = "close" \/ ~Clear(src, "close") \/ (m.n = b + Len(src) + 1 /\ m.n <= more)
    BY <1>1, <2>1
  <2>3. Numbered(Append(src, m), b, more)
    BY <1>1, <1>2, <2>1, <2>2, PutNumbered
  <2>4. Clear(Append(src, m), "close") => b + Len(Append(src, m)) = more
    BY <1>1, <2>1, PutWhat
  <2> QED
    BY <2>3, <2>4
<1> QED
  BY <1>3, <1>4, <1>5 DEF Flow

(* The loop of the proxy takes the next one. *)
LEMMA FlowTake ==
  ASSUME NEW src \in Seq(Msg), NEW mid \in Seq(Msg), NEW h, NEW base \in Nat, NEW top \in Nat,
         Flow(src, mid, "read", h, base, top), src # <<>>, Head(src).what # "close"
  PROVE  Flow(Tail(src), mid, "write", Head(src), base, top)
<1>1. Len(mid) \in Nat /\ Len(Tail(src)) = Len(src) - 1 /\ Len(src) \in Nat
  OBVIOUS
<1>2. Beyond(mid, "read", base) = base + Len(mid) /\ Beyond(mid, "write", base) = base + Len(mid) + 1
  BY BeyondOK
<1>3. /\ Numbered(src, base + Len(mid), top)
      /\ Clear(src, "close") => base + Len(mid) + Len(src) = top
  BY <1>2 DEF Flow
<1>4. /\ Head(src).n = base + Len(mid) + 1 /\ base + Len(mid) + 1 <= top
      /\ Numbered(Tail(src), base + Len(mid) + 1, top)
  BY <1>1, <1>3, GetNumbered
<1>5. Clear(Tail(src), "close") => base + Len(mid) + 1 + Len(Tail(src)) = top
  BY <1>1, <1>3, GetWhat
<1> QED
  BY <1>1, <1>2, <1>4, <1>5 DEF Flow

(* It passes that message on. *)
LEMMA FlowPass ==
  ASSUME NEW src \in Seq(Msg), NEW mid \in Seq(Msg), NEW h \in Msg, NEW g,
         NEW base \in Nat, NEW top \in Nat, Flow(src, mid, "write", h, base, top)
  PROVE  Flow(src, Append(mid, h), "read", g, base, top)
<1>1. Len(mid) \in Nat /\ Append(mid, h) \in Seq(Msg) /\ Len(Append(mid, h)) = Len(mid) + 1
  OBVIOUS
<1>2. /\ Beyond(mid, "write", base) = base + Len(mid) + 1
      /\ Beyond(Append(mid, h), "read", base) = base + Len(mid) + 1
  <2>1. Beyond(mid, "write", base) = base + Len(mid) + 1
    BY BeyondOK
  <2>2. Beyond(Append(mid, h), "read", base) = base + Len(Append(mid, h))
    BY <1>1, BeyondOK
  <2> QED
    BY <1>1, <2>1, <2>2
<1>3. Numbered(Append(mid, h), base, top)
  BY <1>2, PutNumbered DEF Flow
<1>4. Clear(Append(mid, h), "close")
  BY PutWhat DEF Flow
<1> QED
  BY <1>2, <1>3, <1>4 DEF Flow

(* It stops reading, perhaps with a close message to the other side.       *)
LEMMA FlowStop ==
  ASSUME NEW src \in Seq(Msg), NEW mid \in Seq(Msg), NEW st, NEW h, NEW g,
         NEW base \in Nat, NEW top \in Nat, Flow(src, mid, st, h, base, top)
  PROVE  /\ Flow(src, mid, "done", g, base, top)
         /\ Flow(src, Append(mid, [what |-> "close", n |-> 0]), "done", g, base, top)
<1>1. Numbered(mid, base, top)
  BY DEF Flow
<1>2. Numbered(Append(mid, [what |-> "close", n |-> 0]), base, top)
  BY <1>1, PutNumbered, Messages
<1> QED
  BY <1>1, <1>2 DEF Flow

LEMMA FlowEnd ==
  ASSUME NEW src, NEW mid, NEW h, NEW base, NEW top, Flow(src, mid, "read", h, base, top)
  PROVE  Flow(src, mid, "close", h, base, top)
BY DEF Flow

(* The reader at the far side takes the next one.                          *)
LEMMA FlowGet ==
  ASSUME NEW src \in Seq(Msg), NEW mid \in Seq(Msg), NEW st, NEW h, NEW base \in Nat,
         NEW top \in Nat, Flow(src, mid, st, h, base, top), mid # <<>>, Head(mid).what # "close"
  PROVE  /\ Head(mid).n = base + 1 /\ base + 1 <= top
         /\ Flow(src, Tail(mid), st, h, base + 1, top)
<1>1. Len(mid) \in Nat /\ Tail(mid) \in Seq(Msg) /\ Len(Tail(mid)) = Len(mid) - 1
  OBVIOUS
<1>2. Beyond(Tail(mid), st, base + 1) = Beyond(mid, st, base)
  BY <1>1 DEF Beyond
<1>3. /\ Head(mid).n = base + 1 /\ base + 1 <= top
      /\ Numbered(Tail(mid), base + 1, top)
  BY GetNumbered DEF Flow
<1>4. st # "done" => Clear(Tail(mid), "close")
  BY GetWhat DEF Flow
<1> QED
  BY <1>2, <1>3, <1>4 DEF Flow

-----------------------------------------------------------------------------
(* What the arguments below need of the types.                             *)
Typed ==
  /\ PipesOK /\ held \in [Directions -> Msg] /\ read \in Msg
  /\ sent \in [Directions -> Nat] /\ got \in [Directions -> Seq(Nat)]
  /\ wpc \in [Writers -> {"idle", "lock", "write", "done"}]
  /\ cpc \in [Cmds -> {"idle", "write", "sent", "failed"}]

LEMMA TypedOK == TypeOK => Typed
BY DEF TypeOK, Typed, PipesOK

LEMMA Names ==
  /\ {"A", "Pc", "Pb", "S"} \subseteq Ends /\ {"up", "down"} \subseteq Directions
  /\ "main" \in Writers /\ "ping" \in Writers /\ Cmds \subseteq Writers
  /\ Free \notin Writers
BY CmdsAssumption DEF Ends, Directions, Writers, Free

LEMMA Pieces ==
  ASSUME Typed
  PROVE  /\ PipesOK /\ read \in Msg /\ read.n \in Nat
         /\ \A e \in Ends : pipe[e] \in Seq(Msg)
         /\ \A d \in Directions : /\ held[d] \in Msg /\ sent[d] \in Nat
                                  /\ got[d] \in Seq(Nat) /\ Len(got[d]) \in Nat
<1>1. read.n \in Nat
  BY DEF Typed, Msg
<1> QED
  BY <1>1 DEF Typed, PipesOK

LEMMA NumberOK ==
  ASSUME Typed, NEW d \in Directions, NEW x \in Whats
  PROVE  Number(d, x) \in Msg /\ Number(d, x).n = sent[d] + 1 /\ Number(d, x).what = x
BY Pieces DEF Number, Msg

LEMMA CountEffect ==
  ASSUME Typed, NEW d \in Directions, Count(d)
  PROVE  sent'[d] = sent[d] + 1 /\ \A c \in Directions \ {d} : sent'[c] = sent[c]
BY DEF Typed, Count

(* A message that was received is counted in its direction.                *)
LEMMA GotEffect ==
  ASSUME Typed, NEW d \in Directions, NEW n \in Nat, got' = [got EXCEPT ![d] = Append(@, n)]
  PROVE  /\ Len(got'[d]) = Len(got[d]) + 1
         /\ \A c \in Directions \ {d} : got'[c] = got[c]
<1>1. got'[d] = Append(got[d], n)
  BY DEF Typed
<1> QED
  BY <1>1, Pieces DEF Typed

-----------------------------------------------------------------------------
(* From the agent to agent-service.                                        *)

UpInv == Flow(pipe["A"], pipe["Pb"], up, held["up"], Len(got["up"]), sent["up"])

UpView == <<pipe["A"], pipe["Pb"], up, held["up"], got["up"], sent["up"]>>

LEMMA UpFrame == UpInv /\ UNCHANGED UpView => UpInv'
BY DEF UpInv, UpView

LEMMA UpStep == Typed /\ UpInv /\ [Next]_vars => UpInv'
<1> SUFFICES ASSUME Typed, UpInv, [Next]_vars PROVE UpInv'
  OBVIOUS
<1>1. /\ PipesOK
      /\ pipe["A"] \in Seq(Msg) /\ pipe["Pb"] \in Seq(Msg)
      /\ held["up"] \in Msg /\ sent["up"] \in Nat /\ Len(got["up"]) \in Nat
  BY Pieces, Names
<1>2. /\ "A" \in Ends /\ "Pc" \in Ends /\ "Pb" \in Ends /\ "S" \in Ends
      /\ "up" \in Directions /\ "down" \in Directions
  BY Names
<1>3. ASSUME NEW w \in Writers, WriteAgent(w) PROVE UpInv'
  <2>1. PICK m \in Msg :
          /\ Put("A", m)
          /\ \/ m.what = "close" /\ sent'["up"] = sent["up"]
             \/ m.n = sent["up"] + 1 /\ sent'["up"] = sent["up"] + 1
    <3>1. CASE w = "main"
      BY <1>3, <3>1, Messages DEF WriteAgent
    <3>2. CASE w # "main"
      <4>1. Written(w) \in Whats
        BY Messages
      <4>2. Number("up", Written(w)) \in Msg /\ Number("up", Written(w)).n = sent["up"] + 1
        BY <4>1, <1>2, NumberOK
      <4>3. Put("A", Number("up", Written(w))) /\ sent'["up"] = sent["up"] + 1
        BY <1>3, <3>2, <1>2, CountEffect DEF WriteAgent
      <4> QED
        BY <4>2, <4>3
    <3> QED
      BY <3>1, <3>2
  <2>2. pipe'["A"] = Append(pipe["A"], m) /\ pipe'["Pb"] = pipe["Pb"]
    BY <1>1, <1>2, <2>1, PutEffect
  <2>3. Flow(Append(pipe["A"], m), pipe["Pb"], up, held["up"], Len(got["up"]), sent'["up"])
    <3>1. sent'["up"] \in Nat
      BY <1>1, <2>1
    <3> QED
      BY <1>1, <2>1, <3>1, FlowPut DEF UpInv
  <2>4. UNCHANGED <<up, held, got>>
    BY <1>3 DEF WriteAgent, proxyVars
  <2> QED
    BY <2>2, <2>3, <2>4 DEF UpInv
<1>4. CASE UpRead
  <2>1. ASSUME NEW m, Get("Pc", m), held' = [held EXCEPT !["up"] = m],
               up' = "write", up = "read", UNCHANGED <<got, sent>>
        PROVE  UpInv'
    <3>1. /\ pipe["A"] # <<>> /\ m = Head(pipe["A"]) /\ m.what # "close"
          /\ pipe'["A"] = Tail(pipe["A"]) /\ pipe'["Pb"] = pipe["Pb"]
      BY <1>1, <1>2, <2>1, GetEffect, Peers
    <3>2. Flow(Tail(pipe["A"]), pipe["Pb"], "write", m, Len(got["up"]), sent["up"])
      BY <1>1, <2>1, <3>1, FlowTake DEF UpInv
    <3>3. held'["up"] = m
      BY <1>2, <2>1 DEF Typed
    <3> QED
      BY <2>1, <3>1, <3>2, <3>3 DEF UpInv
  <2>2. ASSUME up' = "close", up = "read", UNCHANGED <<pipe, held, got, sent>> PROVE UpInv'
    <3>1. Flow(pipe["A"], pipe["Pb"], "close", held["up"], Len(got["up"]), sent["up"])
      BY <2>2, FlowEnd DEF UpInv
    <3> QED
      BY <2>2, <3>1 DEF UpInv
  <2> QED
    BY <1>4, <2>1, <2>2 DEF UpRead, netVars, history
<1>5. CASE UpWrite
  <2>1. ASSUME Put("Pb", held["up"]), up' = "read", up = "write", UNCHANGED <<got, sent>>
        PROVE  UpInv'
    <3>1. pipe'["Pb"] = Append(pipe["Pb"], held["up"]) /\ pipe'["A"] = pipe["A"]
      BY <1>1, <1>2, <2>1, PutEffect
    <3>2. Flow(pipe["A"], Append(pipe["Pb"], held["up"]), "read", held'["up"],
               Len(got["up"]), sent["up"])
      BY <1>1, <2>1, FlowPass DEF UpInv
    <3> QED
      BY <2>1, <3>1, <3>2 DEF UpInv
  <2>2. ASSUME up' = "done", UNCHANGED <<pipe, got, sent>> PROVE UpInv'
    <3>1. Flow(pipe["A"], pipe["Pb"], "done", held'["up"], Len(got["up"]), sent["up"])
      BY <1>1, FlowStop DEF UpInv
    <3> QED
      BY <2>2, <3>1 DEF UpInv
  <2> QED
    BY <1>5, <2>1, <2>2 DEF UpWrite, netVars, history
<1>6. CASE UpClose
  <2>1. ASSUME Put("Pb", [what |-> "close", n |-> 0]) PROVE UpInv'
    <3>1. /\ pipe'["Pb"] = Append(pipe["Pb"], [what |-> "close", n |-> 0])
          /\ pipe'["A"] = pipe["A"]
      BY <1>1, <1>2, <2>1, PutEffect
    <3>2. up' = "done" /\ UNCHANGED <<got, sent>>
      BY <1>6 DEF UpClose, history
    <3> QED
      BY <1>1, <3>1, <3>2, FlowStop DEF UpInv
  <2>2. ASSUME UNCHANGED pipe PROVE UpInv'
    <3>1. up' = "done" /\ UNCHANGED <<got, sent>>
      BY <1>6 DEF UpClose, history
    <3> QED
      BY <1>1, <2>2, <3>1, FlowStop DEF UpInv
  <2> QED
    BY <1>6, <2>1, <2>2 DEF UpClose, netVars
<1>7. CASE Read
  <2>1. ASSUME NEW m, Get("S", m),
               got' = [got EXCEPT !["up"] = Append(@, m.n)], UNCHANGED <<up, held, sent>>
        PROVE  UpInv'
    <3>1. /\ pipe["Pb"] # <<>> /\ m = Head(pipe["Pb"]) /\ m.what # "close"
          /\ pipe'["Pb"] = Tail(pipe["Pb"]) /\ pipe'["A"] = pipe["A"]
      BY <1>1, <1>2, <2>1, GetEffect, Peers
    <3>2. /\ m.n = Len(got["up"]) + 1
          /\ Flow(pipe["A"], Tail(pipe["Pb"]), up, held["up"], Len(got["up"]) + 1, sent["up"])
      BY <1>1, <3>1, FlowGet DEF UpInv
    <3>3. Len(got'["up"]) = Len(got["up"]) + 1
      <4>1. m.n \in Nat
        BY <1>1, <3>2
      <4> QED
        BY <1>2, <2>1, <4>1, GotEffect
    <3> QED
      BY <2>1, <3>1, <3>2, <3>3 DEF UpInv
  <2>2. ASSUME UNCHANGED <<pipe, got, up, held, sent>> PROVE UpInv'
    BY <2>2, UpFrame DEF UpView
  <2> QED
    BY <1>7, <2>1, <2>2 DEF Read, proxyVars
<1>8. ASSUME NEW w \in Writers, Write(w) PROVE UpInv'
  <2>1. CASE Lock(w) \/ WriteAgentFails(w)
    BY <2>1, UpFrame DEF Lock, WriteAgentFails, netVars, proxyVars, history, UpView
  <2> QED
    BY <1>3, <1>8, <2>1 DEF Write
<1>9. CASE ReadAgent
  <2>1. ASSUME NEW m, Get("A", m) PROVE UNCHANGED <<pipe["A"], pipe["Pb"]>>
    BY <1>1, <1>2, <2>1, GetEffect, Peers
  <2>2. UNCHANGED <<pipe["A"], pipe["Pb"]>>
    BY <1>9, <2>1 DEF ReadAgent, netVars
  <2> QED
    BY <1>9, <2>2, UpFrame DEF ReadAgent, proxyVars, history, UpView
<1>10. CASE Receive \/ StopSeen \/ Exit \/ PingLoopStops
  <2>1. UNCHANGED <<pipe, up, held, sent>>
    BY <1>10 DEF Receive, StopSeen, Exit, PingLoopStops, Return, netVars, proxyVars, history
  <2>2. got'["up"] = got["up"]
    <3>1. CASE UNCHANGED got
      BY <3>1
    <3>2. CASE got' = [got EXCEPT !["down"] = Append(@, read.n)]
      BY <3>2, <1>2, Pieces, GotEffect
    <3> QED
      BY <1>10, <3>1, <3>2 DEF Receive, StopSeen, Exit, PingLoopStops, history
  <2> QED
    BY <2>1, <2>2, UpFrame DEF UpView
<1>11. CASE Down
  <2>1. ASSUME NEW m, Get("Pb", m) PROVE UNCHANGED <<pipe["A"], pipe["Pb"]>>
    BY <1>1, <1>2, <2>1, GetEffect, Peers
  <2>2. Put("Pc", held["down"]) => UNCHANGED <<pipe["A"], pipe["Pb"]>>
    BY <1>1, <1>2, PutEffect
  <2>3. UNCHANGED <<pipe["A"], pipe["Pb"]>>
    BY <1>2, <1>11, <2>1, <2>2
       DEF Down, DownRead, DownWrite, DownClose, CloseBoth, netVars, Typed, PipesOK
  <2>4. held'["up"] = held["up"] /\ UNCHANGED <<up, got, sent>>
    BY <1>2, <1>11 DEF Down, DownRead, DownWrite, DownClose, history, Typed
  <2> QED
    BY <2>3, <2>4, UpFrame DEF UpView
<1>12. CASE Pong \/ \E k \in Cmds : WriteCommand(k)
  <2>1. ASSUME NEW m, Put("S", m) PROVE UNCHANGED <<pipe["A"], pipe["Pb"]>>
    BY <1>1, <1>2, <2>1, PutEffect
  <2>2. Count("down") => sent'["up"] = sent["up"]
    BY <1>2, CountEffect
  <2>3. UNCHANGED <<pipe["A"], pipe["Pb"], sent["up"], up, held, got>>
    BY <1>12, <2>1, <2>2 DEF Pong, WriteCommand, netVars, proxyVars
  <2> QED
    BY <2>3, UpFrame DEF UpView
<1>13. CASE Handle \/ Environment \/ UNCHANGED vars
  <2>1. UNCHANGED <<pipe, proxyVars, sent, got>>
    BY <1>13 DEF Handle, Environment, Tick, Stop, Clash, Replace, SendCommand, Cut, vars,
                 netVars, history
  <2> QED
    BY <2>1, UpFrame DEF proxyVars, UpView
<1> QED
  BY <1>4, <1>5, <1>6, <1>7, <1>8, <1>9, <1>10, <1>11, <1>12, <1>13, Names
     DEF Next, Main, PingLoop, Up, HandleAgentWS

-----------------------------------------------------------------------------
(* From agent-service to the agent.  The reader of the agent has one more  *)
(* than the main loop received; after an error nothing is received.        *)

Reading == reader = "read" \/ (reader = "hand" /\ read.what # "error")
Taken == Len(got["down"]) + (IF reader = "hand" THEN 1 ELSE 0)

DownInv ==
  Reading =>
    /\ Flow(pipe["S"], pipe["Pc"], down, held["down"], Taken, sent["down"])
    /\ reader = "hand" => read.n = Len(got["down"]) + 1 /\ read.n <= sent["down"]

DownView == <<pipe["S"], pipe["Pc"], down, held["down"], got["down"], sent["down"], reader, read>>

LEMMA DownFrame == DownInv /\ UNCHANGED DownView => DownInv'
BY DEF DownInv, DownView, Reading, Taken

(* Only the proxy's second loop and those beyond it moved.                 *)
LEMMA DownMoves ==
  ASSUME Flow(pipe'["S"], pipe'["Pc"], down', held'["down"], Taken, sent["down"]), DownInv,
         Reading, UNCHANGED <<got, sent, reader, read>>
  PROVE  DownInv'
BY DEF DownInv, Reading, Taken

LEMMA DownStep == Typed /\ DownInv /\ [Next]_vars => DownInv'
<1> SUFFICES ASSUME Typed, DownInv, [Next]_vars PROVE DownInv'
  OBVIOUS
<1>1. /\ PipesOK
      /\ pipe["S"] \in Seq(Msg) /\ pipe["Pc"] \in Seq(Msg)
      /\ held["down"] \in Msg /\ sent["down"] \in Nat /\ Len(got["down"]) \in Nat
      /\ read \in Msg /\ read.n \in Nat
  BY Pieces, Names
<1>2. /\ "A" \in Ends /\ "Pc" \in Ends /\ "Pb" \in Ends /\ "S" \in Ends
      /\ "up" \in Directions /\ "down" \in Directions
  BY Names
<1>3. /\ Taken \in Nat
      /\ reader = "hand" => Taken = Len(got["down"]) + 1
      /\ reader # "hand" => Taken = Len(got["down"])
  <2>1. CASE reader = "hand"
    BY <1>1, <2>1 DEF Taken
  <2>2. CASE reader # "hand"
    BY <1>1, <2>2 DEF Taken
  <2> QED
    BY <2>1, <2>2
<1>4. Reading => Flow(pipe["S"], pipe["Pc"], down, held["down"], Taken, sent["down"])
  BY DEF DownInv
<1>5. ASSUME NEW x \in Whats, Put("S", Number("down", x)), Count("down"),
             UNCHANGED <<down, held, got, reader, read>>
      PROVE  DownInv'
  <2>1. /\ Number("down", x) \in Msg /\ Number("down", x).n = sent["down"] + 1
        /\ sent'["down"] = sent["down"] + 1
    BY <1>2, <1>5, NumberOK, CountEffect
  <2>2. pipe'["S"] = Append(pipe["S"], Number("down", x)) /\ pipe'["Pc"] = pipe["Pc"]
    BY <1>1, <1>2, <1>5, PutEffect
  <2>3. CASE Reading
    <3>1. sent'["down"] \in Nat
      BY <1>1, <2>1
    <3>2. Flow(Append(pipe["S"], Number("down", x)), pipe["Pc"], down, held["down"], Taken,
               sent'["down"])
      BY <1>1, <1>3, <1>4, <2>1, <2>3, <3>1, FlowPut
    <3>3. reader = "hand" => read.n = Len(got["down"]) + 1 /\ read.n <= sent'["down"]
      BY <1>1, <2>1, <2>3 DEF DownInv
    <3> QED
      BY <1>5, <2>2, <3>2, <3>3 DEF DownInv, Taken
  <2>4. CASE ~Reading
    BY <1>5, <2>4 DEF DownInv, Reading
  <2> QED
    BY <2>3, <2>4
<1>6. CASE Pong
  <2>1. "pong" \in Whats
    BY DEF Whats
  <2>2. CASE Put("S", Number("down", "pong")) /\ Count("down")
    BY <1>5, <1>6, <2>1, <2>2 DEF Pong, agentVars, proxyVars
  <2>3. CASE UNCHANGED <<netVars, sent>>
    BY <1>6, <2>3, DownFrame DEF Pong, agentVars, proxyVars, netVars, DownView
  <2> QED
    BY <1>6, <2>2, <2>3 DEF Pong
<1>7. ASSUME NEW k \in Cmds, WriteCommand(k) PROVE DownInv'
  <2>1. k \in Whats
    BY DEF Whats
  <2>2. CASE Put("S", Number("down", k)) /\ Count("down")
    BY <1>5, <1>7, <2>1, <2>2 DEF WriteCommand, agentVars, proxyVars
  <2>3. CASE UNCHANGED <<netVars, sent>>
    BY <1>7, <2>3, DownFrame DEF WriteCommand, agentVars, proxyVars, netVars, DownView
  <2> QED
    BY <1>7, <2>2, <2>3 DEF WriteCommand
<1>8. CASE Down
  <2>1. UNCHANGED <<got, sent, reader, read>>
    BY <1>8 DEF Down, DownRead, DownWrite, DownClose, agentVars, history
  <2>2. CASE ~Reading
    BY <2>1, <2>2 DEF DownInv, Reading
  <2>3. CASE Reading /\ DownRead
    <3>1. ASSUME NEW m, Get("Pb", m), held' = [held EXCEPT !["down"] = m],
                 down' = "write", down = "read"
          PROVE  DownInv'
      <4>1. /\ pipe["S"] # <<>> /\ m = Head(pipe["S"]) /\ m.what # "close"
            /\ pipe'["S"] = Tail(pipe["S"]) /\ pipe'["Pc"] = pipe["Pc"]
        BY <1>1, <1>2, <3>1, GetEffect, Peers
      <4>2. Flow(Tail(pipe["S"]), pipe["Pc"], "write", m, Taken, sent["down"])
        BY <1>1, <1>3, <1>4, <2>3, <3>1, <4>1, FlowTake
      <4>3. held'["down"] = m
        BY <1>2, <3>1 DEF Typed
      <4> QED
        BY <2>1, <2>3, <3>1, <4>1, <4>2, <4>3, DownMoves
    <3>2. ASSUME down' = "close", down = "read", UNCHANGED <<pipe, held>> PROVE DownInv'
      <4>1. Flow(pipe["S"], pipe["Pc"], "close", held["down"], Taken, sent["down"])
        BY <1>4, <2>3, <3>2, FlowEnd
      <4> QED
        BY <2>1, <2>3, <3>2, <4>1, DownMoves
    <3> QED
      BY <2>3, <3>1, <3>2 DEF DownRead, netVars
  <2>4. CASE Reading /\ DownWrite
    <3>1. ASSUME Put("Pc", held["down"]), down' = "read", down = "write" PROVE DownInv'
      <4>1. pipe'["Pc"] = Append(pipe["Pc"], held["down"]) /\ pipe'["S"] = pipe["S"]
        BY <1>1, <1>2, <3>1, PutEffect
      <4>2. Flow(pipe["S"], Append(pipe["Pc"], held["down"]), "read", held'["down"], Taken,
                 sent["down"])
        BY <1>1, <1>3, <1>4, <2>4, <3>1, FlowPass
      <4> QED
        BY <2>1, <2>4, <3>1, <4>1, <4>2, DownMoves
    <3>2. ASSUME down' = "done", UNCHANGED pipe PROVE DownInv'
      <4>1. Flow(pipe["S"], pipe["Pc"], "done", held'["down"], Taken, sent["down"])
        BY <1>1, <1>3, <1>4, <2>4, FlowStop
      <4> QED
        BY <2>1, <2>4, <3>2, <4>1, DownMoves
    <3> QED
      BY <2>4, <3>1, <3>2 DEF DownWrite, CloseBoth
  <2>5. CASE Reading /\ DownClose
    <3>1. down' = "done" /\ held' = held
      BY <2>5 DEF DownClose
    <3>2. ASSUME pipe' = [pipe EXCEPT !["Pc"] = Append(@, [what |-> "close", n |-> 0])]
          PROVE  DownInv'
      <4>1. /\ pipe'["Pc"] = Append(pipe["Pc"], [what |-> "close", n |-> 0])
            /\ pipe'["S"] = pipe["S"]
        BY <1>2, <3>2 DEF Typed, PipesOK
      <4>2. Flow(pipe["S"], Append(pipe["Pc"], [what |-> "close", n |-> 0]), "done",
                 held["down"], Taken, sent["down"])
        BY <1>1, <1>3, <1>4, <2>5, FlowStop
      <4> QED
        BY <2>1, <2>5, <3>1, <4>1, <4>2, DownMoves
    <3>3. ASSUME UNCHANGED pipe PROVE DownInv'
      <4>1. Flow(pipe["S"], pipe["Pc"], "done", held["down"], Taken, sent["down"])
        BY <1>1, <1>3, <1>4, <2>5, FlowStop
      <4> QED
        BY <2>1, <2>5, <3>1, <3>3, <4>1, DownMoves
    <3> QED
      BY <2>5, <3>2, <3>3 DEF DownClose, CloseBoth
  <2> QED
    BY <1>8, <2>2, <2>3, <2>4, <2>5 DEF Down
<1>9. CASE ReadAgent
  <2>1. reader = "read" /\ Reading /\ Taken = Len(got["down"])
    BY <1>3, <1>9 DEF ReadAgent, Reading
  <2>2. reader' = "hand" /\ UNCHANGED <<down, held, got, sent>>
    BY <1>9 DEF ReadAgent, proxyVars, history
  <2>3. ASSUME NEW m, Get("A", m), read' = m PROVE DownInv'
    <3>1. /\ pipe["Pc"] # <<>> /\ m = Head(pipe["Pc"]) /\ m.what # "close"
          /\ pipe'["Pc"] = Tail(pipe["Pc"]) /\ pipe'["S"] = pipe["S"]
      BY <1>1, <1>2, <2>3, GetEffect, Peers
    <3>2. /\ m.n = Taken + 1 /\ Taken + 1 <= sent["down"]
          /\ Flow(pipe["S"], Tail(pipe["Pc"]), down, held["down"], Taken + 1, sent["down"])
      BY <1>1, <1>3, <1>4, <2>1, <3>1, FlowGet
    <3>3. Taken' = Taken + 1
      BY <1>3, <2>1, <2>2 DEF Taken
    <3> QED
      BY <2>1, <2>2, <2>3, <3>1, <3>2, <3>3 DEF DownInv
  <2>4. ASSUME read'.what = "error" PROVE DownInv'
    BY <2>2, <2>4 DEF DownInv, Reading
  <2> QED
    BY <1>9, <2>3, <2>4 DEF ReadAgent
<1>10. CASE Receive
  <2>1. CASE read.what = "error"
    <3>1. reader' = "done"
      BY <1>10, <2>1 DEF Receive
    <3> QED
      BY <3>1 DEF DownInv, Reading
  <2>2. CASE read.what # "error"
    <3>1. /\ reader = "hand" /\ reader' = "read"
          /\ got' = [got EXCEPT !["down"] = Append(@, read.n)]
          /\ UNCHANGED <<pipe, down, held, sent>>
      BY <1>10, <2>2 DEF Receive, netVars, proxyVars
    <3>2. Len(got'["down"]) = Len(got["down"]) + 1
      BY <1>1, <1>2, <3>1, GotEffect
    <3>3. Taken' = Taken
      BY <1>1, <1>3, <3>1, <3>2 DEF Taken
    <3> QED
      BY <1>4, <2>2, <3>1, <3>3 DEF DownInv, Reading
  <2> QED
    BY <2>1, <2>2
<1>11. CASE Exit
  BY <1>11 DEF Exit, DownInv, Reading
<1>12. ASSUME NEW w \in Writers, Write(w) PROVE DownInv'
  <2>1. UNCHANGED <<down, held, got, reader, read>>
    BY <1>12 DEF Write, Lock, WriteAgent, WriteAgentFails, proxyVars, history
  <2>2. ASSUME NEW m, Put("A", m) PROVE UNCHANGED <<pipe["S"], pipe["Pc"]>>
    BY <1>1, <1>2, <2>2, PutEffect
  <2>3. Count("up") => sent'["down"] = sent["down"]
    BY <1>2, CountEffect
  <2>4. UNCHANGED <<pipe["S"], pipe["Pc"], sent["down"]>>
    <3>1. CASE WriteAgent(w)
      BY <2>2, <2>3, <3>1 DEF WriteAgent
    <3>2. CASE Lock(w) \/ WriteAgentFails(w)
      BY <3>2 DEF Lock, WriteAgentFails, netVars, history
    <3> QED
      BY <1>12, <3>1, <3>2 DEF Write
  <2> QED
    BY <2>1, <2>4, DownFrame DEF DownView
<1>13. CASE Up
  <2>1. ASSUME NEW m, Get("Pc", m) PROVE UNCHANGED <<pipe["S"], pipe["Pc"]>>
    BY <1>1, <1>2, <2>1, GetEffect, Peers
  <2>2. ASSUME NEW m, Put("Pb", m) PROVE UNCHANGED <<pipe["S"], pipe["Pc"]>>
    BY <1>1, <1>2, <2>2, PutEffect
  <2>3. UNCHANGED <<pipe["S"], pipe["Pc"]>>
    BY <1>13, <2>1, <2>2 DEF Up, UpRead, UpWrite, UpClose, netVars
  <2>4. held'["down"] = held["down"] /\ UNCHANGED <<down, got, sent, reader, read>>
    BY <1>2, <1>13 DEF Up, UpRead, UpWrite, UpClose, agentVars, history, Typed
  <2> QED
    BY <2>3, <2>4, DownFrame DEF DownView
<1>14. CASE Read
  <2>1. ASSUME NEW m, Get("S", m) PROVE UNCHANGED <<pipe["S"], pipe["Pc"]>> /\ m.n \in Nat
    <3>1. UNCHANGED <<pipe["S"], pipe["Pc"]>>
      BY <1>1, <1>2, <2>1, GetEffect, Peers
    <3>2. m \in Msg
      BY <1>1, <1>2, <2>1, GetPipe
    <3> QED
      BY <3>1, <3>2 DEF Msg
  <2>2. UNCHANGED <<pipe["S"], pipe["Pc"], got["down"]>>
    <3>1. ASSUME NEW m, Get("S", m), got' = [got EXCEPT !["up"] = Append(@, m.n)]
          PROVE  UNCHANGED <<pipe["S"], pipe["Pc"], got["down"]>>
      BY <1>2, <2>1, <3>1, GotEffect
    <3> QED
      BY <1>14, <3>1 DEF Read
  <2> QED
    BY <1>14, <2>2, DownFrame DEF Read, agentVars, proxyVars, DownView
<1>15. CASE StopSeen \/ PingLoopStops \/ Handle \/ Environment \/ UNCHANGED vars
  <2>1. UNCHANGED <<pipe, proxyVars, sent, got, reader, read>>
    BY <1>15 DEF StopSeen, PingLoopStops, Handle, Environment, Tick, Stop, Clash, Replace,
                 SendCommand, Cut, vars, netVars, agentVars, history
  <2> QED
    BY <2>1, DownFrame DEF proxyVars, DownView
<1> QED
  BY <1>6, <1>7, <1>8, <1>9, <1>10, <1>11, <1>12, <1>13, <1>14, <1>15, Names
     DEF Next, Main, PingLoop, HandleAgentWS

-----------------------------------------------------------------------------
(* Each step of the connection is one of the wire.                         *)

(* Nothing is sent or received; no end is opened again.                    *)
LEMMA Closing ==
  ASSUME UNCHANGED <<sent, got>>, stop => stop', shut \subseteq shut', cut \subseteq cut'
  PROVE  [W!Next]_(W!vars)
<1>1. Ending => Ending'
  BY DEF Ending
<1>2. CASE Ending <=> Ending'
  <2>1. (~Ending)' = (~Ending)
    BY <1>2
  <2> QED
    BY <2>1 DEF W!vars
<1>3. CASE ~Ending /\ Ending'
  <2>1. (~Ending) /\ (~Ending)' = FALSE
    BY <1>3
  <2> QED
    BY <2>1 DEF W!Next, W!Close
<1> QED
  BY <1>1, <1>2, <1>3

LEMMA WireSend ==
  ASSUME NEW d \in Directions, Count(d), UNCHANGED <<got, stop, shut, cut>>
  PROVE  W!Next
<1>1. (~Ending)' = (~Ending)
  BY DEF Ending
<1>2. W!Send(d)
  BY <1>1 DEF W!Send, Count
<1> QED
  BY <1>2 DEF W!Next

LEMMA WireDeliver ==
  ASSUME Typed, NEW d \in Directions, NEW n \in Nat, n = Len(got[d]) + 1, n <= sent[d],
         got' = [got EXCEPT ![d] = Append(@, n)], UNCHANGED <<sent, stop, shut, cut>>
  PROVE  W!Next
<1>1. (~Ending)' = (~Ending)
  BY DEF Ending
<1>2. Len(got[d]) < sent[d]
  BY Pieces
<1>3. W!Deliver(d)
  BY <1>1, <1>2 DEF W!Deliver
<1> QED
  BY <1>3 DEF W!Next

LEMMA WireStep ==
  Typed /\ UpInv /\ DownInv /\ [Next]_vars => [W!Next]_(W!vars)
<1> SUFFICES ASSUME Typed, UpInv, DownInv, [Next]_vars PROVE [W!Next]_(W!vars)
  OBVIOUS
<1>1. /\ PipesOK /\ pipe["A"] \in Seq(Msg) /\ pipe["Pb"] \in Seq(Msg) /\ held["up"] \in Msg
      /\ sent["up"] \in Nat /\ Len(got["up"]) \in Nat /\ read.n \in Nat
  BY Pieces, Names
<1>2. "A" \in Ends /\ "S" \in Ends /\ "Pb" \in Ends /\ "up" \in Directions /\ "down" \in Directions
  BY Names
<1>3. ASSUME NEW w \in Writers, Write(w) PROVE [W!Next]_(W!vars)
  <2>1. UNCHANGED <<got, stop, shut, cut>>
    BY <1>3 DEF Write, Lock, WriteAgent, WriteAgentFails, Put, netVars, history
  <2>2. Count("up") \/ UNCHANGED sent
    BY <1>3 DEF Write, Lock, WriteAgent, WriteAgentFails, history
  <2> QED
    BY <1>2, <2>1, <2>2, WireSend, Closing
<1>4. CASE Receive
  <2>1. CASE read.what = "error"
    BY <1>4, <2>1, Closing DEF Receive, Return
  <2>2. CASE read.what # "error"
    <3>1. /\ reader = "hand" /\ got' = [got EXCEPT !["down"] = Append(@, read.n)]
          /\ UNCHANGED <<sent, stop, shut, cut>>
      BY <1>4, <2>2 DEF Receive, netVars
    <3>2. read.n = Len(got["down"]) + 1 /\ read.n <= sent["down"]
      BY <2>2, <3>1 DEF DownInv, Reading
    <3> QED
      BY <1>1, <1>2, <3>1, <3>2, WireDeliver
  <2> QED
    BY <2>1, <2>2
<1>5. CASE Read
  <2>1. ASSUME NEW m, Get("S", m), got' = [got EXCEPT !["up"] = Append(@, m.n)],
               UNCHANGED <<sent, stop>>
        PROVE  [W!Next]_(W!vars)
    <3>1. /\ pipe["Pb"] # <<>> /\ m = Head(pipe["Pb"]) /\ m.what # "close"
      BY <1>1, <1>2, <2>1, GetEffect, Peers
    <3>2. m.n = Len(got["up"]) + 1 /\ Len(got["up"]) + 1 <= sent["up"]
      BY <1>1, <3>1, FlowGet DEF UpInv
    <3>3. m.n \in Nat
      BY <1>1, <3>2
    <3>4. UNCHANGED <<shut, cut>>
      BY <2>1 DEF Get
    <3> QED
      BY <1>2, <2>1, <3>2, <3>3, <3>4, WireDeliver
  <2>2. ASSUME shut' = shut \union {"S"}, UNCHANGED <<got, sent, stop, cut>>
        PROVE  [W!Next]_(W!vars)
    BY <2>2, Closing
  <2> QED
    BY <1>5, <2>1, <2>2 DEF Read, agentVars
<1>6. CASE Pong \/ \E k \in Cmds : WriteCommand(k)
  <2>1. UNCHANGED <<got, stop, shut, cut>>
    BY <1>6 DEF Pong, WriteCommand, Put, netVars, agentVars
  <2>2. Count("down") \/ UNCHANGED sent
    BY <1>6 DEF Pong, WriteCommand
  <2> QED
    BY <1>2, <2>1, <2>2, WireSend, Closing
<1>7. CASE ReadAgent \/ StopSeen \/ Exit \/ PingLoopStops \/ Handle
  <2>1. UNCHANGED <<sent, got>> /\ (stop => stop') /\ shut \subseteq shut' /\ cut \subseteq cut'
    BY <1>7 DEF ReadAgent, StopSeen, Exit, PingLoopStops, Handle, Get, Return, netVars, agentVars,
                history
  <2> QED
    BY <2>1, Closing
<1>8. CASE Up \/ Down
  <2>1. UNCHANGED <<sent, got, stop>>
    BY <1>8 DEF Up, UpRead, UpWrite, UpClose, Down, DownRead, DownWrite, DownClose, agentVars,
                history
  <2>2. shut \subseteq shut' /\ cut \subseteq cut'
    BY <1>8 DEF Up, UpRead, UpWrite, UpClose, Down, DownRead, DownWrite, DownClose, Put, Get,
                CloseBoth, netVars
  <2> QED
    BY <2>1, <2>2, Closing
<1>9. CASE Environment \/ UNCHANGED vars
  <2>1. UNCHANGED <<sent, got>> /\ (stop => stop') /\ shut \subseteq shut' /\ cut \subseteq cut'
    BY <1>9 DEF Environment, Tick, Stop, Clash, Replace, SendCommand, Cut, vars, netVars,
                agentVars, history
  <2> QED
    BY <2>1, Closing
<1> QED
  BY <1>3, <1>4, <1>5, <1>6, <1>7, <1>8, <1>9, Names
     DEF Next, Main, PingLoop, HandleAgentWS

LEMMA FlowInit == Init => UpInv /\ DownInv
<1> SUFFICES ASSUME Init PROVE UpInv /\ DownInv
  OBVIOUS
<1>1. /\ pipe["A"] = <<>> /\ pipe["Pb"] = <<>> /\ pipe["Pc"] = <<>> /\ pipe["S"] = <<>>
      /\ up = "read" /\ down = "read" /\ reader = "read"
      /\ sent["up"] = 0 /\ sent["down"] = 0 /\ got["up"] = <<>> /\ got["down"] = <<>>
  BY Names DEF Init
<1>2. \A h : Flow(<<>>, <<>>, "read", h, 0, 0)
  BY DEF Flow, Beyond, Numbered, Clear
<1>3. Taken = 0 /\ Len(got["up"]) = 0
  BY <1>1 DEF Taken
<1> QED
  BY <1>1, <1>2, <1>3 DEF UpInv, DownInv

(* What agent-service and the agent receive are the messages the other one *)
(* sent, in their order and none skipped, whatever is cut, closed or       *)
(* stopped: each step of the agent, the proxy and HandleAgentWS is a step  *)
(* of the abstract wire, or none of its steps.                             *)
THEOREM TunnelIsWire == Spec => W!Init /\ [][W!Next]_(W!vars)
<1>1. Init => W!Init
  <2> SUFFICES ASSUME Init PROVE W!Init
    OBVIOUS
  <2>1. ~Ending = TRUE
    BY DEF Init, Ending
  <2> QED
    BY <2>1 DEF Init, W!Init
<1>2. TypeOK /\ UpInv /\ DownInv /\ [Next]_vars => UpInv' /\ DownInv'
  BY TypedOK, UpStep, DownStep
<1>3. TypeOK /\ UpInv /\ DownInv /\ [Next]_vars => [W!Next]_(W!vars)
  BY TypedOK, WireStep
<1> QED
  BY <1>1, <1>2, <1>3, FlowInit, TunnelTypeCorrect, PTL DEF Spec

-----------------------------------------------------------------------------
(* A command is in one place at most on its way: in the first pipe, with   *)
(* the loop of the proxy, in the second pipe, or with the agent's reader.  *)

Found(src, h, mid, r, k) == ~Clear(src, k) \/ h.what = k \/ ~Clear(mid, k) \/ r.what = k

AtMostOnce(src, h, mid, r, k) ==
  /\ Single(src, k) /\ Single(mid, k)
  /\ r.what = k => Clear(mid, k)
  /\ r.what = k \/ ~Clear(mid, k) => h.what # k
  /\ r.what = k \/ ~Clear(mid, k) \/ h.what = k => Clear(src, k)

LEMMA OncePut ==
  ASSUME NEW src \in Seq(Msg), NEW mid \in Seq(Msg), NEW h, NEW r, NEW k, NEW m \in Msg,
         AtMostOnce(src, h, mid, r, k), m.what = k => ~Found(src, h, mid, r, k)
  PROVE  /\ AtMostOnce(Append(src, m), h, mid, r, k)
         /\ m.what # k => (Found(Append(src, m), h, mid, r, k) <=> Found(src, h, mid, r, k))
<1>1. Clear(Append(src, m), k) <=> Clear(src, k) /\ m.what # k
  BY PutWhat
<1>2. Single(Append(src, m), k)
  BY PutWhat DEF AtMostOnce, Found
<1> QED
  BY <1>1, <1>2 DEF AtMostOnce, Found

LEMMA OnceTake ==
  ASSUME NEW src \in Seq(Msg), src # <<>>, NEW mid, NEW h, NEW r, NEW k,
         AtMostOnce(src, h, mid, r, k)
  PROVE  /\ AtMostOnce(Tail(src), Head(src), mid, r, k)
         /\ Found(Tail(src), Head(src), mid, r, k) => Found(src, h, mid, r, k)
<1>1. /\ Clear(src, k) => Clear(Tail(src), k) /\ Head(src).what # k
      /\ Single(src, k) => Single(Tail(src), k)
      /\ Single(src, k) /\ Head(src).what = k => Clear(Tail(src), k)
  BY GetWhat
<1> QED
  BY <1>1 DEF AtMostOnce, Found

LEMMA OncePass ==
  ASSUME NEW src, NEW mid \in Seq(Msg), NEW h \in Msg, NEW g, NEW r, NEW k,
         AtMostOnce(src, h, mid, r, k), g.what # k
  PROVE  /\ AtMostOnce(src, g, Append(mid, h), r, k)
         /\ Found(src, g, Append(mid, h), r, k) => Found(src, h, mid, r, k)
<1>1. Clear(Append(mid, h), k) <=> Clear(mid, k) /\ h.what # k
  BY PutWhat
<1>2. Single(Append(mid, h), k)
  BY PutWhat DEF AtMostOnce
<1> QED
  BY <1>1, <1>2 DEF AtMostOnce, Found

LEMMA OnceGet ==
  ASSUME NEW src, NEW mid \in Seq(Msg), mid # <<>>, NEW h, NEW r, NEW k,
         AtMostOnce(src, h, mid, r, k)
  PROVE  /\ AtMostOnce(src, h, Tail(mid), Head(mid), k)
         /\ Found(src, h, Tail(mid), Head(mid), k) => Found(src, h, mid, r, k)
<1>1. /\ Clear(mid, k) => Clear(Tail(mid), k) /\ Head(mid).what # k
      /\ Single(mid, k) => Single(Tail(mid), k)
      /\ Single(mid, k) /\ Head(mid).what = k => Clear(Tail(mid), k)
  BY GetWhat
<1>2. ~Clear(Tail(mid), k) => ~Clear(mid, k)
  BY <1>1
<1> QED
  BY <1>1, <1>2 DEF AtMostOnce, Found

(* Whoever held a message has none of the name now; the rest is as before. *)
LEMMA OnceDrop ==
  ASSUME NEW src, NEW mid, NEW h, NEW g, NEW r, NEW q, NEW k, AtMostOnce(src, h, mid, r, k),
         g = h \/ g.what # k, q = r \/ q.what # k
  PROVE  /\ AtMostOnce(src, g, mid, q, k)
         /\ Found(src, g, mid, q, k) => Found(src, h, mid, r, k)
         /\ r.what = k /\ q.what # k => ~Found(src, g, mid, q, k)
BY DEF AtMostOnce, Found

(* A message of another name joins the second pipe.                        *)
LEMMA OnceOther ==
  ASSUME NEW src, NEW mid \in Seq(Msg), NEW h, NEW r, NEW k, NEW m \in Msg, m.what # k,
         AtMostOnce(src, h, mid, r, k)
  PROVE  /\ AtMostOnce(src, h, Append(mid, m), r, k)
         /\ Found(src, h, Append(mid, m), r, k) => Found(src, h, mid, r, k)
<1>1. (Clear(Append(mid, m), k) <=> Clear(mid, k)) /\ (Single(mid, k) => Single(Append(mid, m), k))
  BY PutWhat
<1> QED
  BY <1>1 DEF AtMostOnce, Found

(* A command on its way was sent, and no goroutine of the agent is at work *)
(* for it; none is before it was sent.                                     *)
Way(k) == Found(pipe["S"], held["down"], pipe["Pc"], read, k)
OnceFor(k) ==
  /\ AtMostOnce(pipe["S"], held["down"], pipe["Pc"], read, k)
  /\ Way(k) => cpc[k] = "sent" /\ wpc[k] \notin {"lock", "write"}
  /\ wpc[k] \in {"lock", "write"} => cpc[k] = "sent"

OnceInv == \A k \in Cmds : OnceFor(k)

LEMMA CmdNames ==
  ASSUME NEW k \in Cmds
  PROVE  k \notin {"ping", "pong", "main", "close", "error", "none"} /\ NoMsg.what # k
BY CmdsAssumption DEF NoMsg

(* The way of command k may only get emptier, its own state stays.         *)
LEMMA OnceMoves ==
  ASSUME NEW k \in Cmds, OnceFor(k),
         AtMostOnce(pipe'["S"], held'["down"], pipe'["Pc"], read', k), Way(k)' => Way(k),
         cpc'[k] = cpc[k],
         wpc'[k] = wpc[k] \/ wpc'[k] \notin {"lock", "write"}
                          \/ (wpc[k] = "lock" /\ wpc'[k] = "write")
  PROVE  OnceFor(k)'
BY DEF OnceFor

LEMMA OnceFrame ==
  ASSUME NEW k \in Cmds, OnceFor(k),
         UNCHANGED <<pipe["S"], held["down"], pipe["Pc"], read, cpc>>,
         wpc'[k] = wpc[k] \/ wpc'[k] \notin {"lock", "write"}
                          \/ (wpc[k] = "lock" /\ wpc'[k] = "write")
  PROVE  OnceFor(k)'
BY DEF OnceFor, Way

LEMMA OnceStep ==
  ASSUME Typed, [Next]_vars, NEW k \in Cmds, OnceFor(k)
  PROVE  OnceFor(k)'
<1>1. /\ PipesOK /\ pipe["S"] \in Seq(Msg) /\ pipe["Pc"] \in Seq(Msg)
      /\ held["down"] \in Msg /\ read \in Msg
  BY Pieces, Names
<1>2. /\ "A" \in Ends /\ "Pc" \in Ends /\ "Pb" \in Ends /\ "S" \in Ends
      /\ "up" \in Directions /\ "down" \in Directions
  BY Names
<1>3. /\ k # "ping" /\ k # "pong" /\ k # "main" /\ k # "close" /\ k # "error"
      /\ NoMsg.what # k /\ k \in Writers
  BY CmdNames, Names
<1>4. AtMostOnce(pipe["S"], held["down"], pipe["Pc"], read, k)
  BY DEF OnceFor
<1>5. ASSUME NEW w \in Writers, Write(w) PROVE OnceFor(k)'
  <2>1. UNCHANGED <<held, read, cpc>>
    BY <1>5 DEF Write, Lock, WriteAgent, WriteAgentFails, proxyVars, serverVars
  <2>2. ASSUME NEW m, Put("A", m) PROVE UNCHANGED <<pipe["S"], pipe["Pc"]>>
    BY <1>1, <1>2, <2>2, PutEffect
  <2>3. UNCHANGED <<pipe["S"], pipe["Pc"]>>
    BY <1>5, <2>2 DEF Write, Lock, WriteAgent, WriteAgentFails, netVars
  <2>4. wpc'[k] = wpc[k] \/ wpc'[k] \notin {"lock", "write"}
                         \/ (wpc[k] = "lock" /\ wpc'[k] = "write")
    BY <1>3, <1>5 DEF Write, Lock, WriteAgent, WriteAgentFails, Typed
  <2> QED
    BY <2>1, <2>3, <2>4, OnceFrame
<1>6. CASE ReadAgent
  <2>1. UNCHANGED <<held, cpc, wpc>>
    BY <1>6 DEF ReadAgent, proxyVars, serverVars
  <2>2. ASSUME NEW m, Get("A", m), read' = m PROVE OnceFor(k)'
    <3>1. /\ pipe["Pc"] # <<>> /\ m = Head(pipe["Pc"])
          /\ pipe'["Pc"] = Tail(pipe["Pc"]) /\ pipe'["S"] = pipe["S"]
      BY <1>1, <1>2, <2>2, GetEffect, Peers
    <3>2. AtMostOnce(pipe'["S"], held'["down"], pipe'["Pc"], read', k) /\ (Way(k)' => Way(k))
      BY <1>1, <1>4, <2>1, <2>2, <3>1, OnceGet DEF Way
    <3> QED
      BY <2>1, <3>2, OnceMoves
  <2>3. ASSUME UNCHANGED pipe, read'.what = "error" PROVE OnceFor(k)'
    <3>1. AtMostOnce(pipe'["S"], held'["down"], pipe'["Pc"], read', k) /\ (Way(k)' => Way(k))
      BY <1>3, <1>4, <2>1, <2>3, OnceDrop DEF Way
    <3> QED
      BY <2>1, <3>1, OnceMoves
  <2> QED
    BY <1>6, <2>2, <2>3 DEF ReadAgent, netVars
<1>7. CASE Receive
  <2>1. UNCHANGED <<held, cpc, pipe>> /\ read' = NoMsg
    BY <1>7 DEF Receive, Return, netVars, proxyVars, serverVars
  <2>2. /\ AtMostOnce(pipe'["S"], held'["down"], pipe'["Pc"], read', k)
        /\ Way(k)' => Way(k)
        /\ read.what = k => ~Way(k)'
    BY <1>3, <1>4, <2>1, OnceDrop DEF Way
  <2>3. CASE read.what # k
    <3>1. wpc'[k] = wpc[k]
      BY <1>3, <1>7, <2>3 DEF Receive, Typed
    <3> QED
      BY <2>1, <2>2, <3>1, OnceMoves
  <2>4. CASE read.what = k
    <3>1. cpc[k] = "sent"
      BY <2>4 DEF OnceFor, Way, Found
    <3> QED
      BY <2>1, <2>2, <2>4, <3>1 DEF OnceFor
  <2> QED
    BY <2>3, <2>4
<1>8. CASE Exit
  <2>1. UNCHANGED <<held, cpc, pipe>> /\ read' = NoMsg /\ wpc'[k] = "done"
    BY <1>3, <1>8 DEF Exit, Return, proxyVars, serverVars
  <2>2. AtMostOnce(pipe'["S"], held'["down"], pipe'["Pc"], read', k) /\ (Way(k)' => Way(k))
    BY <1>3, <1>4, <2>1, OnceDrop DEF Way
  <2> QED
    BY <2>1, <2>2, OnceMoves
<1>9. CASE Down
  <2>1. UNCHANGED <<read, cpc, wpc>>
    BY <1>9 DEF Down, DownRead, DownWrite, DownClose, agentVars, serverVars
  <2> SUFFICES AtMostOnce(pipe'["S"], held'["down"], pipe'["Pc"], read', k) /\ (Way(k)' => Way(k))
    BY <2>1, OnceMoves
  <2>2. CASE DownRead
    <3>1. ASSUME NEW m, Get("Pb", m), held' = [held EXCEPT !["down"] = m]
          PROVE  AtMostOnce(pipe'["S"], held'["down"], pipe'["Pc"], read', k) /\ (Way(k)' => Way(k))
      <4>1. /\ pipe["S"] # <<>> /\ m = Head(pipe["S"])
            /\ pipe'["S"] = Tail(pipe["S"]) /\ pipe'["Pc"] = pipe["Pc"]
        BY <1>1, <1>2, <3>1, GetEffect, Peers
      <4>2. held'["down"] = m
        BY <1>2, <3>1 DEF Typed
      <4> QED
        BY <1>1, <1>4, <2>1, <4>1, <4>2, OnceTake DEF Way
    <3>2. UNCHANGED <<pipe, held>> \/ \E m : Get("Pb", m) /\ held' = [held EXCEPT !["down"] = m]
      BY <2>2 DEF DownRead, netVars
    <3> QED
      BY <1>4, <2>1, <3>1, <3>2 DEF Way
  <2>3. CASE DownWrite
    <3>1. held'["down"] = NoMsg
      BY <1>2, <2>3 DEF DownWrite, Typed
    <3>2. CASE Put("Pc", held["down"])
      <4>1. pipe'["Pc"] = Append(pipe["Pc"], held["down"]) /\ pipe'["S"] = pipe["S"]
        BY <1>1, <1>2, <3>2, PutEffect
      <4> QED
        BY <1>1, <1>3, <1>4, <2>1, <3>1, <4>1, OncePass DEF Way
    <3>3. CASE UNCHANGED pipe
      BY <1>3, <1>4, <2>1, <3>1, <3>3, OnceDrop DEF Way
    <3> QED
      BY <2>3, <3>2, <3>3 DEF DownWrite, CloseBoth
  <2>4. CASE DownClose
    <3>1. UNCHANGED held
      BY <2>4 DEF DownClose
    <3>2. CASE pipe' = [pipe EXCEPT !["Pc"] = Append(@, [what |-> "close", n |-> 0])]
      <4>1. /\ pipe'["Pc"] = Append(pipe["Pc"], [what |-> "close", n |-> 0])
            /\ pipe'["S"] = pipe["S"]
        BY <1>2, <3>2 DEF Typed, PipesOK
      <4> QED
        BY <1>1, <1>3, <1>4, <2>1, <3>1, <4>1, Messages, OnceOther DEF Way
    <3>3. CASE UNCHANGED pipe
      BY <1>4, <2>1, <3>1, <3>3 DEF Way
    <3> QED
      BY <2>4, <3>2, <3>3 DEF DownClose, CloseBoth
  <2> QED
    BY <1>9, <2>2, <2>3, <2>4 DEF Down
<1>10. ASSUME NEW x \in Whats, Put("S", Number("down", x)), UNCHANGED <<held, read, wpc>>,
              x = k => cpc[k] = "write" /\ cpc'[k] = "sent",
              x # k => cpc'[k] = cpc[k]
       PROVE  OnceFor(k)'
  <2>1. Number("down", x) \in Msg /\ Number("down", x).what = x
    BY <1>2, NumberOK
  <2>2. pipe'["S"] = Append(pipe["S"], Number("down", x)) /\ pipe'["Pc"] = pipe["Pc"]
    BY <1>1, <1>2, <1>10, PutEffect
  <2>3. x = k => ~Way(k)
    BY <1>10 DEF OnceFor
  <2>4. /\ AtMostOnce(pipe'["S"], held'["down"], pipe'["Pc"], read', k)
        /\ x # k => (Way(k)' => Way(k))
    BY <1>1, <1>4, <1>10, <2>1, <2>2, <2>3, OncePut DEF Way
  <2>5. CASE x # k
    BY <1>10, <2>4, <2>5, OnceMoves
  <2>6. CASE x = k
    <3>1. wpc'[k] \notin {"lock", "write"} /\ cpc'[k] = "sent"
      BY <1>10, <2>6 DEF OnceFor
    <3> QED
      BY <2>4, <3>1 DEF OnceFor
  <2> QED
    BY <2>5, <2>6
<1>11. CASE Pong
  <2>1. "pong" \in Whats /\ UNCHANGED <<held, read, wpc, cpc>>
    BY <1>11 DEF Pong, Whats, agentVars, proxyVars
  <2>2. CASE Put("S", Number("down", "pong"))
    BY <1>3, <1>10, <2>1, <2>2
  <2>3. CASE UNCHANGED pipe
    BY <2>1, <2>3, OnceFrame
  <2> QED
    BY <1>11, <2>2, <2>3 DEF Pong, netVars
<1>12. ASSUME NEW j \in Cmds, WriteCommand(j) PROVE OnceFor(k)'
  <2>1. j \in Whats /\ UNCHANGED <<held, read, wpc>>
    BY <1>12 DEF WriteCommand, Whats, agentVars, proxyVars
  <2>2. CASE Put("S", Number("down", j)) /\ cpc' = [cpc EXCEPT ![j] = "sent"]
    <3>1. cpc[j] = "write" /\ cpc'[j] = "sent" /\ (j # k => cpc'[k] = cpc[k])
      BY <1>12, <2>2 DEF WriteCommand, Typed
    <3> QED
      BY <1>10, <2>1, <2>2, <3>1
  <2>3. CASE UNCHANGED pipe /\ cpc' = [cpc EXCEPT ![j] = "failed"]
    <3>1. cpc[j] = "write" /\ cpc'[j] = "failed" /\ (j # k => cpc'[k] = cpc[k])
      BY <1>12, <2>3 DEF WriteCommand, Typed
    <3> QED
      BY <2>1, <2>3, <3>1 DEF OnceFor, Way
  <2> QED
    BY <1>12, <2>2, <2>3 DEF WriteCommand, netVars
<1>13. ASSUME NEW j \in Cmds, SendCommand(j) PROVE OnceFor(k)'
  <2>1. cpc[j] = "idle" /\ cpc'[j] = "write" /\ (j # k => cpc'[k] = cpc[k])
    BY <1>13 DEF SendCommand, Typed
  <2>2. UNCHANGED <<pipe, held, read, wpc>>
    BY <1>13 DEF SendCommand, netVars, agentVars, proxyVars
  <2> QED
    BY <2>1, <2>2 DEF OnceFor, Way
<1>14. CASE Up
  <2>1. ASSUME NEW m, Get("Pc", m) PROVE UNCHANGED <<pipe["S"], pipe["Pc"]>>
    BY <1>1, <1>2, <2>1, GetEffect, Peers
  <2>2. ASSUME NEW m, Put("Pb", m) PROVE UNCHANGED <<pipe["S"], pipe["Pc"]>>
    BY <1>1, <1>2, <2>2, PutEffect
  <2>3. UNCHANGED <<pipe["S"], pipe["Pc"]>>
    BY <1>14, <2>1, <2>2 DEF Up, UpRead, UpWrite, UpClose, netVars
  <2>4. held'["down"] = held["down"] /\ UNCHANGED <<read, cpc, wpc>>
    BY <1>2, <1>14 DEF Up, UpRead, UpWrite, UpClose, agentVars, serverVars, Typed
  <2> QED
    BY <2>3, <2>4, OnceFrame
<1>15. CASE Read
  <2>1. ASSUME NEW m, Get("S", m) PROVE UNCHANGED <<pipe["S"], pipe["Pc"]>>
    BY <1>1, <1>2, <2>1, GetEffect, Peers
  <2>2. UNCHANGED <<pipe["S"], pipe["Pc"]>>
    BY <1>15, <2>1 DEF Read
  <2> QED
    BY <1>15, <2>2, OnceFrame DEF Read, agentVars, proxyVars
<1>16. CASE StopSeen \/ PingLoopStops \/ Tick
  <2>1. wpc'[k] = wpc[k]
    BY <1>3, <1>16 DEF StopSeen, PingLoopStops, Tick, Typed
  <2> QED
    BY <1>16, <2>1, OnceFrame DEF StopSeen, PingLoopStops, Tick, netVars, proxyVars, serverVars
<1>17. CASE \/ Handle \/ Stop \/ Clash \/ Replace \/ UNCHANGED vars
            \/ \E c \in {"client", "backend"} : Cut(c)
  <2>1. UNCHANGED <<pipe, held, read, cpc, wpc>>
    BY <1>17 DEF Handle, Stop, Clash, Replace, Cut, vars, netVars, agentVars, proxyVars,
                 serverVars
  <2> QED
    BY <2>1, OnceFrame
<1> QED
  BY <1>5, <1>6, <1>7, <1>8, <1>9, <1>11, <1>12, <1>13, <1>14, <1>15, <1>16, <1>17, Names
     DEF Next, Main, PingLoop, HandleAgentWS, Environment

-----------------------------------------------------------------------------
(* Who writes at an end holds its mutex.                                   *)

MutexInv ==
  /\ \A w \in Writers : wpc[w] = "write" <=> amu = w
  /\ \A k \in Cmds : cpc[k] = "write" <=> smu = k

LEMMA AgentMutexStep ==
  ASSUME Typed, OnceInv, [Next]_vars, \A w \in Writers : wpc[w] = "write" <=> amu = w
  PROVE  \A w \in Writers : wpc'[w] = "write" <=> amu' = w
<1>1. ASSUME UNCHANGED <<wpc, amu>> PROVE \A w \in Writers : wpc'[w] = "write" <=> amu' = w
  BY <1>1
<1>2. ASSUME NEW v \in Writers, amu' = amu, NEW s, s # "write", wpc[v] # "write",
             wpc' = [wpc EXCEPT ![v] = s]
      PROVE  \A w \in Writers : wpc'[w] = "write" <=> amu' = w
  BY <1>2 DEF Typed
<1>3. ASSUME NEW v \in Writers, Write(v)
      PROVE  \A w \in Writers : wpc'[w] = "write" <=> amu' = w
  <2>1. CASE Lock(v)
    BY <2>1, Names DEF Lock, Typed
  <2>2. CASE WriteAgent(v) \/ WriteAgentFails(v)
    <3>1. amu = v /\ amu' = Free
      BY <2>2 DEF WriteAgent, WriteAgentFails
    <3>2. \E s \in {"idle", "done"} : wpc' = [wpc EXCEPT ![v] = s]
      BY <2>2 DEF WriteAgent, WriteAgentFails
    <3> QED
      BY <3>1, <3>2, Names DEF Typed
  <2> QED
    BY <1>3, <2>1, <2>2 DEF Write
<1>4. CASE Receive
  <2>1. wpc["main"] = "idle" /\ amu' = amu
    BY <1>4 DEF Receive
  <2>2. CASE wpc' = [wpc EXCEPT !["main"] = "done"]
    BY <1>2, <2>1, <2>2, Names
  <2>3. CASE read.what \in Cmds /\ wpc' = [wpc EXCEPT ![read.what] = "lock"]
    <3>1. wpc[read.what] # "write"
      BY <2>3 DEF OnceInv, OnceFor, Way, Found
    <3> QED
      BY <1>2, <2>1, <2>3, <3>1, Names
  <2>4. CASE UNCHANGED wpc
    BY <1>1, <2>1, <2>4
  <2> QED
    BY <1>4, <2>2, <2>3, <2>4 DEF Receive
<1>5. CASE StopSeen \/ PingLoopStops \/ Tick
  <2>1. \E v \in {"main", "ping"}, s \in {"lock", "done"} :
          wpc[v] = "idle" /\ wpc' = [wpc EXCEPT ![v] = s]
    BY <1>5 DEF StopSeen, PingLoopStops, Tick
  <2>2. amu' = amu
    BY <1>5 DEF StopSeen, PingLoopStops, Tick
  <2> QED
    BY <1>2, <2>1, <2>2, Names
<1>6. CASE Exit
  BY <1>6, Names DEF Exit
<1>7. CASE \/ ReadAgent \/ Up \/ Down \/ HandleAgentWS \/ Stop \/ Clash \/ Replace
           \/ (\E k \in Cmds : WriteCommand(k) \/ SendCommand(k))
           \/ (\E c \in {"client", "backend"} : Cut(c)) \/ UNCHANGED vars
  <2>1. UNCHANGED <<wpc, amu>>
    BY <1>7 DEF ReadAgent, Up, UpRead, UpWrite, UpClose, Down, DownRead, DownWrite, DownClose,
                HandleAgentWS, Read, Handle, Pong, Stop, Clash, Replace, WriteCommand,
                SendCommand, Cut, vars, agentVars
  <2> QED
    BY <1>1, <2>1
<1> QED
  BY <1>3, <1>4, <1>5, <1>6, <1>7, Names DEF Next, Main, PingLoop, Environment

LEMMA ServerMutexStep ==
  ASSUME Typed, [Next]_vars, \A k \in Cmds : cpc[k] = "write" <=> smu = k
  PROVE  \A k \in Cmds : cpc'[k] = "write" <=> smu' = k
<1>1. ASSUME NEW j \in Cmds, SendCommand(j)
      PROVE  \A k \in Cmds : cpc'[k] = "write" <=> smu' = k
  BY <1>1, Names DEF SendCommand, Typed
<1>2. ASSUME NEW j \in Cmds, WriteCommand(j)
      PROVE  \A k \in Cmds : cpc'[k] = "write" <=> smu' = k
  <2>1. smu = j /\ smu' = Free /\ \E s \in {"sent", "failed"} : cpc' = [cpc EXCEPT ![j] = s]
    BY <1>2 DEF WriteCommand
  <2> QED
    BY <2>1, Names DEF Typed
<1>3. CASE UNCHANGED <<cpc, smu>>
  BY <1>3
<1>4. CASE \/ ReadAgent \/ Main \/ PingLoop \/ Up \/ Down \/ HandleAgentWS
           \/ \E k \in Cmds : Write(k)
  <2>1. UNCHANGED <<cpc, smu>>
    BY <1>4 DEF ReadAgent, Main, Receive, StopSeen, Exit, PingLoop, PingLoopStops, Write, Lock,
                WriteAgent, WriteAgentFails, Up, UpRead, UpWrite, UpClose, Down, DownRead,
                DownWrite, DownClose, HandleAgentWS, Read, Handle, Pong, serverVars
  <2> QED
    BY <1>3, <2>1
<1>5. CASE \/ Tick \/ Stop \/ Clash \/ Replace \/ UNCHANGED vars
           \/ \E c \in {"client", "backend"} : Cut(c)
  BY <1>3, <1>5 DEF Tick, Stop, Clash, Replace, Cut, vars, serverVars
<1> QED
  BY <1>1, <1>2, <1>4, <1>5 DEF Next, Environment

LEMMA WritersApartOK == MutexInv => WritersApart
<1> SUFFICES ASSUME MutexInv, NEW e \in Ends, NEW v \in WritersAt(e), NEW w \in WritersAt(e),
                    v # w
             PROVE  e = "S" /\ "pong" \in {v, w}
  BY DEF WritersApart
<1>1. CASE e = "A"
  BY <1>1 DEF WritersAt, MutexInv
<1>2. CASE e = "Pc"
  BY <1>2 DEF WritersAt
<1>3. CASE e = "Pb"
  BY <1>3 DEF WritersAt
<1>4. CASE e = "S"
  <2>1. \A u \in WritersAt(e) : u = "pong" \/ u = smu
    BY <1>4 DEF WritersAt, MutexInv
  <2> QED
    BY <1>4, <2>1
<1> QED
  BY <1>1, <1>2, <1>3, <1>4 DEF Ends

(* Who writes holds the mutex of the writers, and nobody else does.        *)
THEOREM MutexHeld == Spec => []MutexInv
<1>1. Init => OnceInv /\ MutexInv
  <2> SUFFICES ASSUME Init PROVE OnceInv /\ MutexInv
    OBVIOUS
  <2>1. \A k \in Cmds : OnceFor(k)
    <3> SUFFICES ASSUME NEW k \in Cmds PROVE OnceFor(k)
      OBVIOUS
    <3>1. /\ pipe["S"] = <<>> /\ pipe["Pc"] = <<>> /\ held["down"] = NoMsg /\ read = NoMsg
          /\ wpc[k] = "idle"
      BY Names DEF Init
    <3>2. AtMostOnce(<<>>, NoMsg, <<>>, NoMsg, k) /\ ~Found(<<>>, NoMsg, <<>>, NoMsg, k)
      BY CmdNames DEF AtMostOnce, Found, Single, Clear
    <3> QED
      BY <3>1, <3>2 DEF OnceFor, Way
  <2>2. MutexInv
    BY Names DEF Init, MutexInv
  <2> QED
    BY <2>1, <2>2 DEF OnceInv
<1>2. TypeOK /\ OnceInv /\ MutexInv /\ [Next]_vars => OnceInv' /\ MutexInv'
  <2> SUFFICES ASSUME TypeOK, OnceInv, MutexInv, [Next]_vars PROVE OnceInv' /\ MutexInv'
    OBVIOUS
  <2>1. Typed
    BY TypedOK
  <2>2. OnceInv'
    BY <2>1, OnceStep DEF OnceInv
  <2>3. MutexInv'
    BY <2>1, AgentMutexStep, ServerMutexStep DEF MutexInv
  <2> QED
    BY <2>2, <2>3
<1> QED
  BY <1>1, <1>2, TunnelTypeCorrect, PTL DEF Spec

(* At every end of the tunnel one goroutine at most writes at a time, as   *)
(* the WebSocket library demands, but for a pong of HandleAgentWS, which   *)
(* does not take AgentConn.mu: for any commands, pings, cuts and stops.    *)
THEOREM OneWriterAtATime == Spec => []WritersApart
BY MutexHeld, WritersApartOK, PTL
-----------------------------------------------------------------------------
(* Nobody waits in a circle.                                               *)

(* A write at end e need not wait, nor a read.                             *)
CanWrite(e) == Gone(e) \/ Peer[e] \in shut \/ Len(pipe[e]) < Cap
CanRead(e) == Gone(e) \/ Peer[e] \in shut \/ pipe[Peer[e]] # <<>>

(* Some goroutine of the agent, the proxy or agent-service can go on.      *)
AgentGoes ==
  \/ reader = "read" /\ CanRead("A")
  \/ reader = "hand" /\ wpc["main"] = "idle"
  \/ \E w \in Writers : wpc[w] = "lock" /\ amu = Free
  \/ \E w \in Writers : wpc[w] = "write" /\ CanWrite("A")
  \/ stop /\ wpc["main"] = "done" /\ "A" \notin shut
ProxyGoes ==
  \/ up = "read" /\ CanRead("Pc")
  \/ up \in {"write", "close"} /\ CanWrite("Pb")
  \/ down = "read" /\ CanRead("Pb")
  \/ down \in {"write", "close"} /\ CanWrite("Pc")
ServerGoes ==
  \/ loop = "read" /\ CanRead("S")
  \/ loop = "lock" /\ smu = Free
  \/ loop = "pong" /\ CanWrite("S")
  \/ \E k \in Cmds : cpc[k] = "write" /\ CanWrite("S")
SomebodyGoes == AgentGoes \/ ProxyGoes \/ ServerGoes

(* A goroutine is about to write or waits for a mutex, or an end of the    *)
(* tunnel has to follow another.                                           *)
Unfinished ==
  \/ \E w \in Writers : wpc[w] \in {"lock", "write"}
  \/ \E k \in Cmds : cpc[k] = "write"
  \/ up \in {"write", "close"} \/ down \in {"write", "close"} \/ loop \in {"lock", "pong"}
  \/ (shut # {} \/ cut # {}) /\ ~Ended

NoCircularWait == Unfinished => SomebodyGoes \/ Hung

(* What a goroutine that has ended leaves behind.  The loop towards        *)
(* agent-service closes nothing: but a connection that it could not write  *)
(* to is over, and otherwise its close message is on the way.              *)
BackendOver == "Pb" \in shut \/ "S" \in shut \/ "backend" \in cut
EndInv ==
  /\ loop = "done" => "S" \in shut
  /\ down = "done" => {"Pc", "Pb"} \subseteq shut
  /\ up = "done" => BackendOver \/ ~Clear(pipe["Pb"], "close")
  /\ reader = "done" => "A" \in shut /\ wpc["main"] = "done"
  /\ wpc["main"] = "done" => stop \/ "A" \in shut
  /\ wpc["main"] \in {"lock", "write"} => stop

(* What is shut, cut or stopped remains so.                                *)
LEMMA OnlyMore == [Next]_vars => shut \subseteq shut' /\ cut \subseteq cut' /\ (stop => stop')
<1> USE DEF netVars, agentVars
<1>1. CASE ReadAgent
  BY <1>1 DEF ReadAgent, Get
<1>2. CASE Main
  BY <1>2 DEF Main, Receive, StopSeen, Exit, Write, Lock, WriteAgent, WriteAgentFails, Put, Return
<1>3. CASE PingLoop \/ (\E k \in Cmds : Write(k))
  BY <1>3 DEF PingLoop, PingLoopStops, Write, Lock, WriteAgent, WriteAgentFails, Put
<1>4. CASE Up
  BY <1>4 DEF Up, UpRead, UpWrite, UpClose, Get, Put
<1>5. CASE Down
  BY <1>5 DEF Down, DownRead, DownWrite, DownClose, Get, Put, CloseBoth
<1>6. CASE HandleAgentWS \/ (\E k \in Cmds : WriteCommand(k))
  BY <1>6 DEF HandleAgentWS, Read, Handle, Pong, WriteCommand, Get, Put
<1>7. CASE Environment
  BY <1>7 DEF Environment, Tick, Stop, Clash, Replace, SendCommand, Cut
<1> QED
  BY <1>1, <1>2, <1>3, <1>4, <1>5, <1>6, <1>7 DEF Next, vars

(* The ends of the loops.                                                  *)
LEMMA LoopEnds ==
  ASSUME EndInv, [Next]_vars
  PROVE  /\ loop' = "done" => "S" \in shut'
         /\ down' = "done" => {"Pc", "Pb"} \subseteq shut'
<1> USE OnlyMore DEF EndInv
<1>1. loop' = loop \/ (loop' = "done" => "S" \in shut')
  BY DEF Next, Main, PingLoop, ReadAgent, Receive, StopSeen, Exit, PingLoopStops, Write, Lock,
         WriteAgent, WriteAgentFails, Up, UpRead, UpWrite, UpClose, Down, DownRead, DownWrite,
         DownClose, HandleAgentWS, Read, Handle, Pong, WriteCommand, Environment, Tick, Stop,
         Clash, Replace, SendCommand, Cut, vars, serverVars
<1>2. down' = down \/ (down' = "done" => {"Pc", "Pb"} \subseteq shut')
  BY DEF Next, Main, PingLoop, ReadAgent, Receive, StopSeen, Exit, PingLoopStops, Write, Lock,
         WriteAgent, WriteAgentFails, Up, UpRead, UpWrite, UpClose, Down, DownRead, DownWrite,
         DownClose, CloseBoth, HandleAgentWS, Read, Handle, Pong, WriteCommand, Environment,
         Tick, Stop, Clash, Replace, SendCommand, Cut, vars, proxyVars
<1> QED
  BY <1>1, <1>2

(* The main loop ends with an error, which closes the connection, or when  *)
(* it has been told to stop; only then does it write.                      *)
LEMMA MainEnds ==
  ASSUME Typed, EndInv, [Next]_vars
  PROVE  /\ wpc'["main"] = "done" => stop' \/ "A" \in shut'
         /\ wpc'["main"] \in {"lock", "write"} => stop'
         /\ wpc["main"] = "done" => wpc'["main"] = "done"
<1> USE OnlyMore DEF EndInv
<1>1. CASE wpc'["main"] = wpc["main"]
  BY <1>1
<1>2. CASE Receive
  <2>1. wpc["main"] = "idle" /\ \/ "A" \in shut' /\ wpc'["main"] = "done"
                                \/ wpc'["main"] = wpc["main"]
    BY <1>2, Names, CmdsAssumption DEF Receive, Return, Typed
  <2> QED
    BY <1>1, <2>1
<1>3. CASE StopSeen
  BY <1>3, Names DEF StopSeen, Typed
<1>4. CASE Exit
  BY <1>4, Names DEF Exit, Typed
<1>5. CASE Write("main")
  BY <1>5 DEF Write, Lock, WriteAgent, WriteAgentFails, EndInv
<1>6. ASSUME NEW v \in Writers \ {"main"}, Write(v) PROVE wpc'["main"] = wpc["main"]
  BY <1>6, Names DEF Write, Lock, WriteAgent, WriteAgentFails, Typed
<1>7. CASE Tick \/ PingLoopStops
  BY <1>7, <1>1, Names DEF Tick, PingLoopStops, Typed
<1>8. CASE \/ ReadAgent \/ Up \/ Down \/ HandleAgentWS \/ Stop \/ Clash \/ Replace
           \/ (\E k \in Cmds : WriteCommand(k) \/ SendCommand(k))
           \/ (\E c \in {"client", "backend"} : Cut(c)) \/ UNCHANGED vars
  <2>1. UNCHANGED wpc
    BY <1>8 DEF ReadAgent, Up, UpRead, UpWrite, UpClose, Down, DownRead, DownWrite, DownClose,
                HandleAgentWS, Read, Handle, Pong, Stop, Clash, Replace, WriteCommand,
                SendCommand, Cut, vars, agentVars
  <2> QED
    BY <1>1, <2>1
<1> QED
  BY <1>1, <1>2, <1>3, <1>4, <1>5, <1>6, <1>7, <1>8, Names, CmdsAssumption
     DEF Next, Main, PingLoop, Environment

(* The reader ends with the connection.                                    *)
LEMMA ReaderEnds ==
  ASSUME Typed, EndInv, [Next]_vars, reader' = "done"
  PROVE  "A" \in shut' /\ wpc'["main"] = "done"
<1>1. CASE Receive
  <2>1. "A" \in shut' /\ wpc' = [wpc EXCEPT !["main"] = "done"]
    BY <1>1 DEF Receive, Return
  <2> QED
    BY <2>1, Names DEF Typed
<1>2. CASE Exit
  BY <1>2, Names DEF Exit, Return
<1>3. CASE UNCHANGED reader
  BY <1>3, OnlyMore, MainEnds DEF EndInv
<1>4. CASE ReadAgent
  BY <1>4 DEF ReadAgent
<1>5. CASE \/ StopSeen \/ PingLoop \/ Up \/ Down \/ HandleAgentWS \/ Environment
           \/ (\E w \in Writers : Write(w)) \/ (\E k \in Cmds : WriteCommand(k))
           \/ UNCHANGED vars
  <2>1. UNCHANGED reader
    BY <1>5 DEF StopSeen, PingLoop, PingLoopStops, Write, Lock, WriteAgent, WriteAgentFails, Up,
                UpRead, UpWrite, UpClose, Down, DownRead, DownWrite, DownClose, HandleAgentWS,
                Read, Handle, Pong, WriteCommand, Environment, Tick, Stop, Clash, Replace,
                SendCommand, Cut, vars, agentVars
  <2> QED
    BY <1>3, <2>1
<1> QED
  BY <1>1, <1>2, <1>4, <1>5, Names DEF Next, Main

(* The proxy's loop towards agent-service ends when that connection is     *)
(* over, or with a close message that nobody takes from the pipe.          *)
LEMMA UpEnds ==
  ASSUME Typed, EndInv, [Next]_vars, up' = "done", ~BackendOver'
  PROVE  ~Clear(pipe'["Pb"], "close")
<1>1. ~BackendOver /\ (up = "done" => ~Clear(pipe["Pb"], "close"))
  BY OnlyMore DEF BackendOver, EndInv
<1>2. pipe["Pb"] \in Seq(Msg)
  BY Names DEF Typed, PipesOK
<1>3. CASE UpClose
  <2>1. ~PutFails("Pb")
    BY <1>1, Peers DEF PutFails, Gone, Conn, BackendOver
  <2>2. Put("Pb", [what |-> "close", n |-> 0])
    BY <1>3, <2>1 DEF UpClose
  <2>3. pipe'["Pb"] = Append(pipe["Pb"], [what |-> "close", n |-> 0])
    BY <2>2, Names DEF Put, Typed, PipesOK
  <2> QED
    BY <1>2, <2>3, PutWhat, Messages
<1>4. CASE UpWrite
  BY <1>1, <1>4, Peers DEF UpWrite, PutFails, Gone, Conn, BackendOver
<1>5. CASE Read
  <2>1. up = "done"
    BY <1>5 DEF Read, proxyVars
  <2>2. CASE \E m \in Heads("S") : Get("S", m)
    <3>1. PICK m \in Heads("S") : Get("S", m)
      BY <2>2
    <3>2. pipe["Pb"] # <<>> /\ Head(pipe["Pb"]).what # "close" /\ pipe'["Pb"] = Tail(pipe["Pb"])
      BY <3>1, Peers, Names DEF Get, Typed, PipesOK
    <3> QED
      BY <1>1, <1>2, <2>1, <3>2, GetWhat
  <2>3. CASE UNCHANGED pipe
    BY <1>1, <2>1, <2>3
  <2> QED
    BY <1>5, <2>2, <2>3 DEF Read
<1>6. CASE UNCHANGED <<up, pipe["Pb"]>>
  BY <1>1, <1>6
<1>7. CASE ReadAgent \/ UpRead \/ DownRead
  <2>1. up' = "done" => up = "done"
    BY <1>7 DEF ReadAgent, UpRead, DownRead, proxyVars
  <2>2. \A e \in {"A", "Pc", "Pb"} : \A m : Get(e, m) => pipe'["Pb"] = pipe["Pb"]
    BY Peers, Names DEF Get, Typed, PipesOK
  <2>3. pipe'["Pb"] = pipe["Pb"]
    BY <1>7, <2>2 DEF ReadAgent, UpRead, DownRead, netVars
  <2> QED
    BY <1>1, <2>1, <2>3
<1>8. CASE \/ (\E w \in Writers : Write(w)) \/ DownWrite \/ DownClose \/ Pong
           \/ \E k \in Cmds : WriteCommand(k)
  <2>1. up' = up
    BY <1>8 DEF Write, Lock, WriteAgent, WriteAgentFails, DownWrite, DownClose, Pong,
                WriteCommand, proxyVars
  <2>2. \A e \in {"A", "Pc", "S"} : \A m : Put(e, m) => pipe'["Pb"] = pipe["Pb"]
    BY Names DEF Put, Typed, PipesOK
  <2>3. pipe'["Pb"] = pipe["Pb"]
    <3>1. CASE \E w \in Writers : Write(w)
      BY <3>1, <2>2 DEF Write, Lock, WriteAgent, WriteAgentFails, netVars
    <3>2. CASE DownWrite
      BY <3>2, <2>2 DEF DownWrite, CloseBoth
    <3>3. CASE DownClose
      BY <3>3, Names DEF DownClose, CloseBoth, Typed, PipesOK
    <3>4. CASE Pong \/ \E k \in Cmds : WriteCommand(k)
      BY <3>4, <2>2 DEF Pong, WriteCommand, netVars
    <3> QED
      BY <1>8, <3>1, <3>2, <3>3, <3>4
  <2> QED
    BY <1>6, <2>1, <2>3
<1>9. CASE \/ Receive \/ StopSeen \/ Exit \/ PingLoopStops \/ Handle \/ Environment
           \/ UNCHANGED vars
  <2>1. UNCHANGED <<up, pipe>>
    BY <1>9 DEF Receive, StopSeen, Exit, Return, PingLoopStops, Handle, Environment, Tick, Stop,
                Clash, Replace, SendCommand, Cut, vars, netVars, proxyVars
  <2> QED
    BY <1>6, <2>1
<1> QED
  BY <1>3, <1>4, <1>5, <1>7, <1>8, <1>9, Names
     DEF Next, Main, PingLoop, Up, Down, HandleAgentWS

LEMMA EndStep == Typed /\ EndInv /\ [Next]_vars => EndInv'
<1> SUFFICES ASSUME Typed, EndInv, [Next]_vars PROVE EndInv'
  OBVIOUS
<1>1. up' = "done" => BackendOver' \/ ~Clear(pipe'["Pb"], "close")
  BY UpEnds
<1> QED
  BY <1>1, LoopEnds, MainEnds, ReaderEnds DEF EndInv, Clear, BackendOver

(* A read or a write has not to wait when the other end is shut.           *)
LEMMA Ways ==
  ASSUME PipesOK
  PROVE  /\ CanWrite("A") <=> "A" \in shut \/ "Pc" \in shut \/ "client" \in cut \/ Len(pipe["A"]) < Cap
         /\ CanWrite("Pc") <=> "A" \in shut \/ "Pc" \in shut \/ "client" \in cut \/ Len(pipe["Pc"]) < Cap
         /\ CanWrite("Pb") <=> BackendOver \/ Len(pipe["Pb"]) < Cap
         /\ CanWrite("S") <=> BackendOver \/ Len(pipe["S"]) < Cap
         /\ CanRead("A") <=> "A" \in shut \/ "Pc" \in shut \/ "client" \in cut \/ pipe["Pc"] # <<>>
         /\ CanRead("Pc") <=> "A" \in shut \/ "Pc" \in shut \/ "client" \in cut \/ pipe["A"] # <<>>
         /\ CanRead("Pb") <=> BackendOver \/ pipe["S"] # <<>>
         /\ CanRead("S") <=> BackendOver \/ pipe["Pb"] # <<>>
         /\ \A e \in Ends : ~(Len(pipe[e]) < Cap) => Len(pipe[e]) = Cap /\ pipe[e] # <<>>
<1>1. \A e \in Ends : ~(Len(pipe[e]) < Cap) => Len(pipe[e]) = Cap /\ pipe[e] # <<>>
  BY BoundsAssumption DEF PipesOK
<1> QED
  BY <1>1, Peers DEF CanWrite, CanRead, Gone, Conn, BackendOver

ClientOver == "A" \in shut \/ "Pc" \in shut \/ "client" \in cut

(* When nobody goes on, the agent's reader is at the end of its pipe or    *)
(* the agent hangs or has ended.                                           *)
LEMMA AgentStuck ==
  ASSUME TypeOK, MutexInv, EndInv, ~SomebodyGoes, ~Hung
  PROVE  /\ ClientOver => wpc["main"] = "done" /\ "A" \in shut
         /\ ~ClientOver => Len(pipe["Pc"]) < Cap
         /\ CanWrite("A") => \A w \in Writers : wpc[w] \notin {"lock", "write"}
<1> USE Names, Ways, TypedOK DEF SomebodyGoes, AgentGoes
<1>1. PipesOK /\ wpc \in [Writers -> {"idle", "lock", "write", "done"}]
      /\ reader \in {"read", "hand", "done"} /\ amu \in Writers \union {Free}
  BY DEF TypeOK, PipesOK
<1>2. ASSUME CanWrite("A"), NEW w \in Writers PROVE wpc[w] \notin {"lock", "write"}
  <2>1. wpc[w] # "write"
    BY <1>2
  <2>2. CASE wpc[w] = "lock"
    <3>1. amu \in Writers /\ wpc[amu] = "write"
      BY <1>1, <2>2 DEF MutexInv
    <3> QED
      BY <1>2, <3>1
  <2> QED
    BY <2>1, <2>2
<1>3. wpc["main"] = "done" => "A" \in shut
  BY DEF EndInv
<1>4. CASE ClientOver
  <2>1. CanWrite("A") /\ reader # "read"
    BY <1>1, <1>4 DEF ClientOver
  <2>2. reader = "hand" => wpc["main"] = "done"
    BY <1>1, <1>2, <2>1
  <2>3. reader = "done" => wpc["main"] = "done"
    BY DEF EndInv
  <2> QED
    BY <1>1, <1>2, <1>3, <1>4, <2>1, <2>2, <2>3
<1>5. CASE ~ClientOver /\ ~(Len(pipe["Pc"]) < Cap)
  <2>1. Len(pipe["Pc"]) = Cap /\ pipe["Pc"] # <<>>
    BY <1>1, <1>5
  <2>2. reader = "hand"
    BY <1>1, <1>5, <2>1 DEF EndInv, ClientOver
  <2>3. wpc["main"] \in {"lock", "write"}
    BY <1>1, <1>3, <1>5, <2>2 DEF ClientOver
  <2>4. ~CanWrite("A")
    BY <1>2, <2>3
  <2>5. Len(pipe["A"]) = Cap
    BY <1>1, <2>4
  <2> QED
    BY <2>1, <2>3, <2>5 DEF Hung
<1> QED
  BY <1>2, <1>4, <1>5

(* When nobody goes on, nobody writes towards the agent, and either that   *)
(* connection is over with all that hangs on it or agent-service is at the *)
(* end of its pipe.                                                        *)
LEMMA ServerStuck ==
  ASSUME TypeOK, MutexInv, EndInv, ~SomebodyGoes, ~Hung
  PROVE  /\ down \notin {"write", "close"} /\ \A k \in Cmds : cpc[k] # "write"
         /\ loop \notin {"lock", "pong"}
         /\ BackendOver => loop = "done" /\ down = "done" /\ ClientOver
         /\ ~BackendOver => Len(pipe["Pb"]) < Cap /\ up # "done" /\ ~ClientOver
<1> USE Names, Ways, TypedOK DEF SomebodyGoes, ProxyGoes, ServerGoes
<1>1. /\ PipesOK /\ smu \in Cmds \union {Free} /\ loop \in {"read", "pong", "lock", "done"}
      /\ up \in {"read", "write", "close", "done"} /\ down \in {"read", "write", "close", "done"}
  BY DEF TypeOK, PipesOK
<1>2. down \notin {"write", "close"}
  BY <1>1, AgentStuck DEF ClientOver
<1>3. CanWrite("S")
  <2> SUFFICES ASSUME ~CanWrite("S") PROVE FALSE
    OBVIOUS
  <2>1. pipe["S"] # <<>> /\ ~BackendOver
    BY <1>1
  <2>2. down = "done"
    BY <1>1, <1>2, <2>1
  <2> QED
    BY <2>1, <2>2 DEF EndInv, BackendOver
<1>4. \A k \in Cmds : cpc[k] # "write"
  BY <1>3
<1>5. loop \notin {"lock", "pong"}
  BY <1>1, <1>3, <1>4 DEF MutexInv
<1>6. ASSUME BackendOver PROVE loop = "done" /\ down = "done" /\ ClientOver
  <2>1. loop = "done" /\ down = "done"
    BY <1>1, <1>2, <1>5, <1>6
  <2> QED
    BY <2>1 DEF EndInv, ClientOver
<1>7. ASSUME ~BackendOver PROVE Len(pipe["Pb"]) < Cap /\ up # "done" /\ ~ClientOver
  <2>1. loop = "read" /\ pipe["Pb"] = <<>>
    BY <1>1, <1>5, <1>7 DEF EndInv, BackendOver
  <2>2. Len(pipe["Pb"]) < Cap /\ Clear(pipe["Pb"], "close")
    BY <1>1, <2>1 DEF Clear
  <2>3. up # "done"
    BY <1>7, <2>2 DEF EndInv
  <2>4. up = "read"
    BY <1>1, <2>2, <2>3
  <2> QED
    BY <1>1, <2>2, <2>3, <2>4 DEF ClientOver
<1> QED
  BY <1>2, <1>4, <1>5, <1>6, <1>7

LEMMA NoCircle == TypeOK /\ MutexInv /\ EndInv => NoCircularWait
<1> SUFFICES ASSUME TypeOK, MutexInv, EndInv, ~SomebodyGoes, ~Hung PROVE ~Unfinished
  BY DEF NoCircularWait
<1>1. /\ PipesOK /\ up \in {"read", "write", "close", "done"}
      /\ shut \subseteq Ends /\ cut \subseteq {"client", "backend"}
  BY DEF TypeOK, PipesOK
<1>2. up \notin {"write", "close"}
  BY <1>1, Ways, ServerStuck DEF SomebodyGoes, ProxyGoes
<1>3. CASE ClientOver
  <2>1. BackendOver /\ wpc["main"] = "done" /\ "A" \in shut /\ loop = "done" /\ down = "done"
    BY <1>3, AgentStuck, ServerStuck
  <2>2. up = "done"
    BY <1>1, <1>2, <1>3, Ways DEF SomebodyGoes, ProxyGoes, ClientOver
  <2>3. shut = Ends
    BY <1>1, <2>1 DEF EndInv, Ends
  <2>4. CanWrite("A")
    BY <1>1, <1>3, Ways DEF ClientOver
  <2> QED
    BY <1>2, <2>1, <2>2, <2>3, <2>4, AgentStuck, ServerStuck DEF Unfinished, Ended
<1>4. CASE ~ClientOver
  <2>1. ~BackendOver /\ up = "read"
    BY <1>1, <1>2, <1>4, ServerStuck
  <2>2. shut = {} /\ cut = {}
    BY <1>1, <1>4, <2>1 DEF ClientOver, BackendOver, Ends
  <2>3. pipe["A"] = <<>>
    BY <1>1, <2>1, Ways DEF SomebodyGoes, ProxyGoes
  <2>4. CanWrite("A")
    BY <1>1, <2>3, Ways, BoundsAssumption
  <2> QED
    BY <1>2, <2>2, <2>4, AgentStuck, ServerStuck DEF Unfinished
<1> QED
  BY <1>3, <1>4

(* Whatever is sent, cut, closed or stopped, and however small the pipes:  *)
(* while a goroutine waits to write or for a mutex, or the two sides have  *)
(* not all ended after a failure, one of them can go on, unless the agent  *)
(* hangs in its graceful shutdown.                                         *)
THEOREM TunnelNeverStuck == Spec => []NoCircularWait
<1>1. Init => EndInv
  BY Names DEF Init, EndInv
<1>2. TypeOK /\ EndInv /\ [Next]_vars => EndInv'
  BY TypedOK, EndStep
<1> QED
  BY <1>1, <1>2, NoCircle, TunnelTypeCorrect, MutexHeld, PTL DEF Spec

=============================================================================
