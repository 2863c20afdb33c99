---------------------------- MODULE SessionProofs -----------------------------
(***************************************************************************)
(* What holds of the command line for any number of CLIs, users, agents    *)
(* and processes: types, that the agent of the configuration is one of its *)
(* user, and that no agent process is lost.                                *)
(***************************************************************************)
EXTENDS Session, TLAPS

Form == [state : {"closed", "loading", "list", "create"}, loading : BOOLEAN,
         asked : Users \union {None, "refused"}, list : SUBSET Agents,
         regs : Seq(Users \union {"refused"})]
Process == [kind : {"free", "agent", "zombie", "other"}, parent : Clis \union {None}]
Places == {"off", "top", "auth", "authed", "agents", "launch", "check", "start", "pid",
           "build", "home", "remove"}
Returns == {"top", "launch", "build", "remote", "home"}

(* The type invariant in parts.                                            *)
CfgOK == cfg \in Config \union {None} /\ owner \in [Agents -> Users \union {None}]
FormOK == form \in [Clis -> Form]
ScreenOK ==
  /\ pc \in [Clis -> Places] /\ ret \in [Clis -> Returns]
  /\ mine \in [Clis -> Pids \union {None}] /\ shown \in [Clis -> Pids \union {None}]
  /\ \A c \in Clis : mine[c] # None <=> pc[c] = "pid"
ProcOK == proc \in [Pids -> Process] /\ pidfile \in Pids \union {None}
PastOK == slipped \in BOOLEAN /\ crossed \in BOOLEAN

LEMMA TypeParts == TypeOK <=> CfgOK /\ FormOK /\ ScreenOK /\ ProcOK /\ PastOK
BY DEF TypeOK, CfgOK, FormOK, ScreenOK, ProcOK, PastOK, Form, Process, Places, Returns

(* A registration that is not answered twice: one less is in flight.       *)
LEMMA Removed ==
  ASSUME NEW S, NEW s \in Seq(S), NEW i \in DOMAIN s
  PROVE  /\ RemoveAt(s, i) \in Seq(S)
         /\ \A j \in DOMAIN RemoveAt(s, i) : \E k \in DOMAIN s : RemoveAt(s, i)[j] = s[k]
<1>1. i \in 1 .. Len(s) /\ Len(s) \in Nat /\ DOMAIN s = 1 .. Len(s)
  OBVIOUS
<1>2. /\ SubSeq(s, 1, i - 1) \in Seq(S) /\ Len(SubSeq(s, 1, i - 1)) = i - 1
      /\ \A j \in 1 .. i - 1 : SubSeq(s, 1, i - 1)[j] = s[j]
  BY <1>1
<1>3. /\ SubSeq(s, i + 1, Len(s)) \in Seq(S) /\ Len(SubSeq(s, i + 1, Len(s))) = Len(s) - i
      /\ \A j \in 1 .. Len(s) - i : SubSeq(s, i + 1, Len(s))[j] = s[j + i]
  BY <1>1
<1>4. RemoveAt(s, i) \in Seq(S)
  BY <1>2, <1>3 DEF RemoveAt
<1>5. \A j \in 1 .. Len(s) - 1 : \E k \in 1 .. Len(s) : RemoveAt(s, i)[j] = s[k]
  <2> SUFFICES ASSUME NEW j \in 1 .. Len(s) - 1 PROVE \E k \in 1 .. Len(s) : RemoveAt(s, i)[j] = s[k]
    OBVIOUS
  <2>1. CASE j < i
    <3>1. RemoveAt(s, i)[j] = s[j]
      BY <1>1, <1>2, <1>3, <2>1 DEF RemoveAt
    <3> QED
      BY <1>1, <3>1
  <2>2. CASE j >= i
    <3>1. RemoveAt(s, i)[j] = SubSeq(s, i + 1, Len(s))[j - (i - 1)]
      BY <1>1, <1>2, <1>3, <2>2 DEF RemoveAt
    <3>2. SubSeq(s, i + 1, Len(s))[j - (i - 1)] = s[j + 1]
      <4>1. j - (i - 1) \in 1 .. Len(s) - i /\ (j - (i - 1)) + i = j + 1
        BY <1>1, <2>2
      <4> QED
        BY <1>3, <4>1
    <3>3. j + 1 \in 1 .. Len(s)
      BY <1>1
    <3> QED
      BY <3>1, <3>2, <3>3
  <2> QED
    BY <1>1, <2>1, <2>2
<1>6. DOMAIN RemoveAt(s, i) = 1 .. Len(s) - 1
  BY <1>1, <1>2, <1>3 DEF RemoveAt
<1> QED
  BY <1>1, <1>4, <1>5, <1>6

-----------------------------------------------------------------------------
(* Types.                                                                  *)

LEMMA NoneApart ==
  /\ \A p \in Pids : p # None
  /\ \A u \in Users : u # None
  /\ \A a \in Agents : a # None
BY NoneAssumption DEF Agents

LEMMA FormValues ==
  /\ NoForm \in Form
  /\ \A x \in Users \union {None, "refused"} :
       [NoForm EXCEPT !.state = "loading", !.asked = x] \in Form
<1>1. NoForm \in Form
  BY DEF NoForm, Form
<1> QED
  BY <1>1 DEF Form

LEMMA BearerOK ==
  ASSUME CfgOK, cfg # None, cfg.user # None
  PROVE  Bearer \in Users \union {"refused"} /\ Bearer \in {cfg.user, "refused"}
BY DEF CfgOK, Config, Bearer

LEMMA NewAgentOK ==
  ASSUME Registered # Agents
  PROVE  NewAgent \in Agents /\ owner[NewAgent] = None
<1>1. \E a \in Agents : owner[a] = None
  BY DEF Registered
<1> QED
  BY <1>1 DEF NewAgent

LEMMA CfgStep == TypeOK /\ [Next]_vars => CfgOK'
<1> SUFFICES ASSUME CfgOK, FormOK, [Next]_vars PROVE CfgOK'
  BY TypeParts
<1>1. ASSUME NEW c \in Clis, NEW u \in Users, SignIn(c, u) PROVE CfgOK'
  BY <1>1 DEF SignIn, CfgOK, Config
<1>2. ASSUME NEW c \in Clis, NEW a \in Agents, Select(c, a) PROVE CfgOK'
  BY <1>2 DEF Select, CfgOK, Config
<1>3. ASSUME NEW c \in Clis, NEW i \in Agents, AgentCreated(c, i) PROVE CfgOK'
  <2>1. form[c].regs \in Seq(Users \union {"refused"})
    BY DEF FormOK, Form
  <2>2. form[c].regs[i] \in Users
    BY <1>3, <2>1 DEF AgentCreated
  <2>3. NewAgent \in Agents
    BY <1>3, NewAgentOK DEF AgentCreated
  <2>4. owner' \in [Agents -> Users \union {None}]
    BY <1>3, <2>2, <2>3 DEF AgentCreated, CfgOK
  <2>5. cfg' = cfg \/ (cfg # None /\ cfg' = [cfg EXCEPT !.agent = NewAgent])
    BY <1>3 DEF AgentCreated
  <2> QED
    BY <2>3, <2>4, <2>5 DEF CfgOK, Config
<1>4. CASE Expire
  BY <1>4 DEF Expire, CfgOK, Config
<1>5. ASSUME NEW u \in Users, Install(u) PROVE CfgOK'
  <2>1. NewAgent \in Agents
    BY <1>5, NewAgentOK DEF Install
  <2> QED
    BY <1>5, <2>1 DEF Install, CfgOK, Config
<1>6. ASSUME NEW c \in Clis, Logout(c) PROVE CfgOK'
  BY <1>6 DEF Logout, CfgOK
<1>7. CASE UNCHANGED <<cfg, owner>>
  BY <1>7 DEF CfgOK
<1>8. ASSUME NEW c \in Clis, NEW i \in Agents,
             \/ Open(c) \/ Loop(c) \/ LeaveAuth(c) \/ Authed(c) \/ AgentList(c)
             \/ SelectCreate(c) \/ Submit(c) \/ LeaveForm(c) \/ CreateFails(c, i)
      PROVE  UNCHANGED <<cfg, owner>>
  BY <1>8 DEF Open, Loop, LeaveAuth, Authed, AgentList, SelectCreate, Submit, LeaveForm, CreateFails
<1>9. ASSUME NEW c \in Clis,
             \/ Open(c) \/ Loop(c) \/ LeaveAuth(c) \/ Authed(c) \/ AgentList(c)
             \/ SelectCreate(c) \/ Submit(c) \/ LeaveForm(c)
      PROVE  UNCHANGED <<cfg, owner>>
  BY <1>9 DEF Open, Loop, LeaveAuth, Authed, AgentList, SelectCreate, Submit, LeaveForm
<1>10. ASSUME NEW c \in Clis,
              \/ Launch(c) \/ Check(c) \/ WritePid(c) \/ Build(c) \/ ChangeAgent(c)
              \/ Deployments(c) \/ StartAgent(c) \/ Stop(c) \/ RemovePid(c) \/ Close(c)
       PROVE  UNCHANGED <<cfg, owner>>
  BY <1>10 DEF Launch, Check, WritePid, Build, ChangeAgent, Deployments, StartAgent, Stop,
               RemovePid, Close
<1>11. ASSUME NEW c \in Clis, NEW p \in Pids, Start(c, p) PROVE UNCHANGED <<cfg, owner>>
  BY <1>11 DEF Start
<1>12. CASE Reuse \/ (\E p \in Pids : Die(p)) \/ UNCHANGED vars
  BY <1>7, <1>12 DEF Reuse, Die, vars
<1>13. ASSUME NEW c \in Clis, Screens(c) PROVE CfgOK'
  BY <1>1, <1>2, <1>3, <1>6, <1>7, <1>8, <1>9, <1>10, <1>11, <1>13 DEF Screens
<1> QED
  BY <1>4, <1>5, <1>12, <1>13 DEF Next

LEMMA FormStep == TypeOK /\ [Next]_vars => FormOK'
<1> SUFFICES ASSUME CfgOK, FormOK, [Next]_vars PROVE FormOK'
  BY TypeParts
<1>1. ASSUME NEW c \in Clis, NEW f \in Form, Show(c, f) PROVE FormOK'
  BY <1>1 DEF Show, FormOK
<1>2. CASE UNCHANGED form
  BY <1>2 DEF FormOK
<1>3. ASSUME NEW c \in Clis, NEW after, OpenForm(c, after) PROVE FormOK'
  <2>1. (IF cfg = None \/ cfg.user = None THEN None ELSE Bearer) \in Users \union {None, "refused"}
    BY BearerOK
  <2> QED
    BY <1>1, <1>3, <2>1, FormValues DEF OpenForm
<1>4. ASSUME NEW c \in Clis, End(c) PROVE FormOK'
  BY <1>1, <1>4, FormValues DEF End
<1>5. ASSUME NEW c \in Clis, AgentList(c) PROVE FormOK'
  <2>1. OwnedBy(form[c].asked) \subseteq Agents
    BY DEF OwnedBy, Registered
  <2>2. /\ [form[c] EXCEPT !.asked = None, !.loading = FALSE, !.state = "list",
                           !.list = OwnedBy(form[c].asked)] \in Form
        /\ [form[c] EXCEPT !.asked = None, !.loading = FALSE, !.state = "create"] \in Form
    BY <2>1 DEF FormOK, Form
  <2> QED
    BY <1>1, <1>5, <2>2 DEF AgentList
<1>6. ASSUME NEW c \in Clis, Submit(c) PROVE FormOK'
  <2>1. Bearer \in Users \union {"refused"}
    BY <1>6, BearerOK DEF Submit
  <2>2. Append(form[c].regs, Bearer) \in Seq(Users \union {"refused"})
    BY <2>1 DEF FormOK, Form
  <2>3. [form[c] EXCEPT !.loading = TRUE, !.regs = Append(@, Bearer)] \in Form
    BY <2>2 DEF FormOK, Form
  <2> QED
    BY <1>1, <1>6, <2>3 DEF Submit
<1>7. ASSUME NEW c \in Clis, SelectCreate(c) PROVE FormOK'
  <2>1. [form[c] EXCEPT !.state = "create"] \in Form
    BY DEF FormOK, Form
  <2> QED
    BY <1>1, <1>7, <2>1 DEF SelectCreate
<1>8. ASSUME NEW c \in Clis, NEW i \in DOMAIN form[c].regs, Answered(c, i) PROVE FormOK'
  <2>1. form[c].regs \in Seq(Users \union {"refused"})
    BY DEF FormOK, Form
  <2>2. RemoveAt(form[c].regs, i) \in Seq(Users \union {"refused"})
    BY <2>1, Removed
  <2>3. [form[c] EXCEPT !.loading = FALSE, !.regs = RemoveAt(form[c].regs, i)] \in Form
    BY <2>2 DEF FormOK, Form
  <2> QED
    BY <1>1, <1>8, <2>3 DEF Answered
<1>9. ASSUME NEW c \in Clis, Loop(c) \/ Authed(c) \/ ChangeAgent(c) PROVE FormOK'
  BY <1>2, <1>3, <1>4, <1>9 DEF Loop, Authed, ChangeAgent, ToAgent
<1>10. ASSUME NEW c \in Clis, Launch(c) \/ Logout(c) \/ Close(c) \/ LeaveForm(c) PROVE FormOK'
  BY <1>1, <1>2, <1>4, <1>10, FormValues DEF Launch, Logout, Close, LeaveForm
<1>11. ASSUME NEW c \in Clis, NEW a \in Agents, Select(c, a) PROVE FormOK'
  BY <1>1, <1>11, FormValues DEF Select
<1>12. ASSUME NEW c \in Clis, NEW i \in Agents, AgentCreated(c, i) \/ CreateFails(c, i) PROVE FormOK'
  BY <1>1, <1>8, <1>12, FormValues DEF AgentCreated, CreateFails
<1>13. ASSUME NEW c \in Clis,
              \/ Open(c) \/ LeaveAuth(c) \/ Check(c) \/ WritePid(c) \/ Build(c)
              \/ Deployments(c) \/ StartAgent(c) \/ Stop(c) \/ RemovePid(c)
              \/ (\E u \in Users : SignIn(c, u)) \/ (\E p \in Pids : Start(c, p))
       PROVE  FormOK'
  BY <1>2, <1>13 DEF Open, LeaveAuth, Check, WritePid, Build, Deployments, StartAgent, Stop,
                     RemovePid, SignIn, Start
<1>14. CASE \/ Reuse \/ Expire \/ (\E p \in Pids : Die(p)) \/ (\E u \in Users : Install(u))
            \/ UNCHANGED vars
  BY <1>2, <1>14 DEF Reuse, Expire, Die, Install, vars, screens
<1>15. ASSUME NEW c \in Clis, Screens(c) PROVE FormOK'
  BY <1>5, <1>6, <1>7, <1>9, <1>10, <1>11, <1>12, <1>13, <1>15 DEF Screens
<1> QED
  BY <1>14, <1>15 DEF Next

(* Only the home screen and its predecessor have nowhere to return to.     *)
RetOK == \A c \in Clis : pc[c] \in {"agents", "check", "start", "pid"} => ret[c] # "remote"

(* CLI c moves, and the others keep their places.                          *)
LEMMA ScreenMoves ==
  ASSUME ScreenOK, RetOK, NEW c \in Clis, NEW at \in Places, NEW r \in Returns,
         at \in {"agents", "check", "start", "pid"} => r # "remote",
         NEW m \in Pids \union {None}, m # None <=> at = "pid", NEW p \in Pids \union {None},
         pc' = [pc EXCEPT ![c] = at], ret' = [ret EXCEPT ![c] = r],
         mine' = [mine EXCEPT ![c] = m], shown' = [shown EXCEPT ![c] = p]
  PROVE  ScreenOK' /\ RetOK'
BY DEF ScreenOK, RetOK

(* Requests are in flight from an open agent screen only.                  *)
FormIdle == \A c \in Clis : pc[c] # "agents" => form[c] = NoForm

LEMMA EmptyForm ==
  /\ NoForm.asked = None /\ NoForm.list = {} /\ NoForm.regs = <<>> /\ DOMAIN NoForm.regs = {}
BY DEF NoForm

LEMMA ScreenStep == TypeOK /\ RetOK /\ FormIdle /\ [Next]_vars => ScreenOK' /\ RetOK'
<1> SUFFICES ASSUME ScreenOK, RetOK, FormIdle, ProcOK, [Next]_vars PROVE ScreenOK' /\ RetOK'
  BY TypeParts
<1> USE NoneApart
<1>1. ASSUME NEW c \in Clis, NEW at \in Places, NEW r \in Returns, NEW p \in Pids \union {None},
             at \in {"agents", "check", "start", "pid"} => r # "remote", at # "pid",
             pc[c] # "pid" \/ mine' = [mine EXCEPT ![c] = None],
             Goto(c, at), ret' = [ret EXCEPT ![c] = r] \/ (r = ret[c] /\ ret' = ret),
             mine' = mine \/ mine' = [mine EXCEPT ![c] = None],
             shown' = [shown EXCEPT ![c] = p] \/ shown' = shown
      PROVE  ScreenOK' /\ RetOK'
  <2>1. mine' = [mine EXCEPT ![c] = None]
    <3>1. pc[c] # "pid" => mine[c] = None
      BY DEF ScreenOK
    <3> QED
      BY <1>1, <3>1 DEF ScreenOK
  <2>2. ret' = [ret EXCEPT ![c] = r]
    BY <1>1 DEF ScreenOK
  <2>3. \E q \in Pids \union {None} : shown' = [shown EXCEPT ![c] = q]
    <3>1. shown[c] \in Pids \union {None} /\ shown = [shown EXCEPT ![c] = shown[c]]
      BY DEF ScreenOK
    <3> QED
      BY <1>1, <3>1
  <2> QED
    BY <1>1, <2>1, <2>2, <2>3, ScreenMoves DEF Goto
<1>2. \A c \in Clis : ret[c] \in Returns /\ pc[c] \in Places /\ shown[c] \in Pids \union {None}
  BY DEF ScreenOK
<1>3. CASE UNCHANGED <<pc, ret, mine, shown>>
  BY <1>3 DEF ScreenOK, RetOK
<1>4. ASSUME NEW c \in Clis, End(c) PROVE ScreenOK' /\ RetOK'
  <2>1. "off" \in Places /\ "top" \in Returns
    BY DEF Places, Returns
  <2> QED
    BY <1>1, <1>4, <2>1 DEF End
<1>5. ASSUME NEW c \in Clis, NEW r \in {"launch", "top"}, OpenForm(c, r), pc[c] # "pid",
             UNCHANGED <<mine, shown>>
      PROVE  ScreenOK' /\ RetOK'
  <2>1. "agents" \in Places /\ r \in Returns
    BY DEF Places, Returns
  <2> QED
    BY <1>1, <1>5, <2>1 DEF OpenForm
<1>6. ASSUME NEW c \in Clis, NEW at \in Places \ {"agents", "check", "start", "pid"},
             Goto(c, at), pc[c] # "pid", UNCHANGED <<ret, mine, shown>>
      PROVE  ScreenOK' /\ RetOK'
  BY <1>1, <1>2, <1>6
<1>7. ASSUME NEW c \in Clis, Loop(c) \/ Authed(c) \/ ChangeAgent(c) PROVE ScreenOK' /\ RetOK'
  <2>1. {"auth", "launch"} \subseteq Places \ {"agents", "check", "start", "pid"}
    BY DEF Places
  <2>2. pc[c] # "pid"
    BY <1>7 DEF Loop, Authed, ChangeAgent
  <2>3. CASE End(c)
    BY <1>4, <2>3
  <2>4. CASE UNCHANGED <<mine, shown>> /\ \E r \in {"launch", "top"} : OpenForm(c, r)
    BY <1>5, <2>2, <2>4
  <2>5. CASE UNCHANGED <<ret, mine, shown>> /\ \E at \in {"auth", "launch"} : Goto(c, at)
    BY <1>6, <2>1, <2>2, <2>5
  <2> QED
    BY <1>7, <2>3, <2>4, <2>5 DEF Loop, Authed, ChangeAgent, ToAgent
<1>8. ASSUME NEW c \in Clis,
             \/ Open(c) \/ LeaveAuth(c) \/ Deployments(c) \/ (\E u \in Users : SignIn(c, u))
      PROVE  ScreenOK' /\ RetOK'
  <2>1. {"top", "authed"} \subseteq Places \ {"agents", "check", "start", "pid"}
    BY DEF Places
  <2>2. pc[c] # "pid" /\ UNCHANGED <<ret, mine, shown>> /\ \E at \in {"top", "authed"} : Goto(c, at)
    BY <1>8 DEF Open, LeaveAuth, Deployments, SignIn
  <2> QED
    BY <1>6, <2>1, <2>2
<1>9. ASSUME NEW c \in Clis, pc[c] = "agents", Goto(c, ret[c]), UNCHANGED <<ret, mine, shown>>
      PROVE  ScreenOK' /\ RetOK'
  <2>1. ret[c] \in Places \ {"agents", "check", "start", "pid"}
    BY <1>2, <1>9 DEF RetOK, Returns, Places
  <2> QED
    BY <1>6, <1>9, <2>1
<1>10. ASSUME NEW c \in Clis, LeaveForm(c) \/ \E a \in Agents : Select(c, a)
       PROVE  ScreenOK' /\ RetOK'
  BY <1>9, <1>10 DEF LeaveForm, Select
<1>11. ASSUME NEW c \in Clis, NEW i \in Agents, AgentCreated(c, i) PROVE ScreenOK' /\ RetOK'
  <2>1. pc[c] = "agents"
    BY <1>11, EmptyForm DEF AgentCreated, FormIdle
  <2>2. CASE UNCHANGED pc
    BY <1>3, <1>11, <2>2 DEF AgentCreated
  <2>3. CASE Goto(c, "check")
    <3>1. "check" \in Places /\ ret[c] # "remote"
      BY <2>1 DEF Places, RetOK
    <3>2. UNCHANGED <<ret, mine, shown>>
      BY <1>11 DEF AgentCreated
    <3> QED
      BY <1>1, <1>2, <2>1, <2>3, <3>1, <3>2
  <2> QED
    BY <1>11, <2>2, <2>3 DEF AgentCreated
<1>12. ASSUME NEW c \in Clis, Launch(c) PROVE ScreenOK' /\ RetOK'
  <2>1. CASE End(c)
    BY <1>4, <2>1
  <2>2. CASE ~End(c)
    <3>1. pc[c] = "launch" /\ UNCHANGED <<mine, shown>>
      BY <1>12, <2>2 DEF Launch
    <3>2. \/ Goto(c, "build") /\ ret' = [ret EXCEPT ![c] = "remote"]
          \/ Goto(c, "check") /\ ret' = [ret EXCEPT ![c] = "build"]
      BY <1>12, <2>2 DEF Launch
    <3>3. {"build", "check"} \subseteq Places /\ {"remote", "build"} \subseteq Returns
      BY DEF Places, Returns
    <3> QED
      BY <1>1, <3>1, <3>2, <3>3
  <2> QED
    BY <2>1, <2>2
<1>13. ASSUME NEW c \in Clis, NEW ok \in BOOLEAN, Return(c, ok), pc[c] \in {"check", "pid"},
              UNCHANGED <<ret, shown>>,
              (pc[c] # "pid" /\ UNCHANGED mine) \/ mine' = [mine EXCEPT ![c] = None]
       PROVE  ScreenOK' /\ RetOK'
  <2>1. PICK at \in {"build", ret[c]} : Goto(c, at)
    BY <1>13 DEF Return
  <2>2. at \in Places \ {"agents", "check", "start", "pid"}
    BY <1>2, <1>13 DEF RetOK, Returns, Places
  <2> QED
    BY <1>1, <1>2, <1>13, <2>1, <2>2
<1>14. ASSUME NEW c \in Clis, Check(c) PROVE ScreenOK' /\ RetOK'
  <2>1. pc[c] = "check" /\ UNCHANGED <<ret, mine, shown>>
    BY <1>14 DEF Check
  <2>2. CASE Return(c, TRUE) \/ Return(c, FALSE)
    BY <1>13, <2>1, <2>2
  <2>3. CASE Goto(c, "start")
    <3>1. "start" \in Places /\ ret[c] # "remote"
      BY <2>1 DEF Places, RetOK
    <3> QED
      BY <1>1, <1>2, <2>1, <2>3, <3>1
  <2> QED
    BY <1>14, <2>2, <2>3 DEF Check
<1>15. ASSUME NEW c \in Clis, NEW p \in Pids, Start(c, p) PROVE ScreenOK' /\ RetOK'
  <2>1. "pid" \in Places /\ ret[c] # "remote" /\ p # None
    BY <1>15 DEF Places, RetOK, Start
  <2> QED
    BY <1>2, <1>15, <2>1 DEF Start, Goto, ScreenOK, RetOK
<1>16. ASSUME NEW c \in Clis, WritePid(c) PROVE ScreenOK' /\ RetOK'
  BY <1>13, <1>16 DEF WritePid
<1>17. ASSUME NEW c \in Clis, Build(c) PROVE ScreenOK' /\ RetOK'
  <2>1. "home" \in Places /\ (IF IsRunning THEN pidfile ELSE None) \in Pids \union {None}
    BY DEF Places, ProcOK
  <2>2. pc[c] = "build" /\ Goto(c, "home") /\ UNCHANGED <<ret, mine>>
        /\ shown' = [shown EXCEPT ![c] = IF IsRunning THEN pidfile ELSE None]
    BY <1>17 DEF Build
  <2> QED
    BY <1>1, <1>2, <2>1, <2>2
<1>18. ASSUME NEW c \in Clis, StartAgent(c) PROVE ScreenOK' /\ RetOK'
  <2>1. "check" \in Places /\ "home" \in Returns
    BY DEF Places, Returns
  <2> QED
    BY <1>1, <1>18, <2>1 DEF StartAgent
<1>19. ASSUME NEW c \in Clis, Stop(c) PROVE ScreenOK' /\ RetOK'
  <2>1. pc[c] = "home" /\ UNCHANGED <<ret, mine>>
    BY <1>19 DEF Stop
  <2>2. CASE Goto(c, "remove") /\ UNCHANGED shown
    <3>1. "remove" \in Places
      BY DEF Places
    <3> QED
      BY <1>1, <1>2, <2>1, <2>2, <3>1
  <2>3. CASE UNCHANGED pc /\ shown' = [shown EXCEPT ![c] = None]
    BY <2>1, <2>3 DEF ScreenOK, RetOK
  <2> QED
    BY <1>19, <2>2, <2>3 DEF Stop
<1>20. ASSUME NEW c \in Clis, RemovePid(c) PROVE ScreenOK' /\ RetOK'
  <2>1. "home" \in Places
    BY DEF Places
  <2>2. /\ pc[c] = "remove" /\ Goto(c, "home") /\ UNCHANGED <<ret, mine>>
        /\ shown' = [shown EXCEPT ![c] = None] \/ UNCHANGED shown
    BY <1>20 DEF RemovePid
  <2> QED
    BY <1>1, <1>2, <2>1, <2>2
<1>21. ASSUME NEW c \in Clis, Logout(c) \/ Close(c) PROVE ScreenOK' /\ RetOK'
  BY <1>4, <1>21 DEF Logout, Close
<1>22. ASSUME NEW c \in Clis,
              \/ AgentList(c) \/ SelectCreate(c) \/ Submit(c) \/ \E i \in Agents : CreateFails(c, i)
       PROVE  ScreenOK' /\ RetOK'
  BY <1>3, <1>22 DEF AgentList, SelectCreate, Submit, CreateFails
<1>23. CASE \/ Reuse \/ Expire \/ (\E p \in Pids : Die(p)) \/ (\E u \in Users : Install(u))
            \/ UNCHANGED vars
  BY <1>3, <1>23 DEF Reuse, Expire, Die, Install, vars, screens
<1>24. ASSUME NEW c \in Clis, Screens(c) PROVE ScreenOK' /\ RetOK'
  BY <1>7, <1>8, <1>10, <1>11, <1>12, <1>14, <1>15, <1>16, <1>17, <1>18, <1>19, <1>20, <1>21,
     <1>22, <1>24 DEF Screens
<1> QED
  BY <1>23, <1>24 DEF Next

LEMMA FormIdleStep == TypeOK /\ FormIdle /\ [Next]_vars => FormIdle'
<1> SUFFICES ASSUME FormOK, ScreenOK, FormIdle, [Next]_vars PROVE FormIdle'
  BY TypeParts
<1>1. CASE UNCHANGED <<pc, form>>
  BY <1>1 DEF FormIdle
<1>2. ASSUME NEW c \in Clis, NEW at, Goto(c, at), Show(c, NoForm) PROVE FormIdle'
  BY <1>2 DEF FormIdle, Goto, Show, FormOK, ScreenOK
<1>3. ASSUME NEW c \in Clis, NEW f, UNCHANGED pc \/ Goto(c, "agents"), Show(c, f),
             pc'[c] = "agents"
      PROVE  FormIdle'
  BY <1>3 DEF FormIdle, Goto, Show, FormOK, ScreenOK
<1>4. ASSUME NEW c \in Clis, NEW at, Goto(c, at), pc[c] # "agents", UNCHANGED form PROVE FormIdle'
  BY <1>4 DEF FormIdle, Goto, ScreenOK
<1>5. ASSUME NEW c \in Clis, End(c) PROVE FormIdle'
  BY <1>2, <1>5 DEF End
<1>6. ASSUME NEW c \in Clis, NEW r, OpenForm(c, r) PROVE FormIdle'
  BY <1>3, <1>6 DEF OpenForm, Goto, ScreenOK
<1>7. ASSUME NEW c \in Clis, Loop(c) \/ Authed(c) \/ ChangeAgent(c) PROVE FormIdle'
  BY <1>4, <1>5, <1>6, <1>7 DEF Loop, Authed, ChangeAgent, ToAgent
<1>8. ASSUME NEW c \in Clis, Launch(c) \/ Logout(c) \/ Close(c) PROVE FormIdle'
  BY <1>4, <1>5, <1>8 DEF Launch, Logout, Close
<1>9. ASSUME NEW c \in Clis,
             \/ LeaveForm(c) \/ (\E a \in Agents : Select(c, a))
      PROVE  FormIdle'
  BY <1>2, <1>9 DEF LeaveForm, Select
<1>10. ASSUME NEW c \in Clis, AgentList(c) \/ Submit(c) \/ SelectCreate(c) PROVE FormIdle'
  <2>1. pc[c] = "agents" /\ UNCHANGED pc
    BY <1>10, EmptyForm DEF AgentList, Submit, SelectCreate, FormIdle
  <2>2. \E f : Show(c, f)
    BY <1>10 DEF AgentList, Submit, SelectCreate
  <2> QED
    BY <1>3, <2>1, <2>2
<1>11. ASSUME NEW c \in Clis, NEW i \in Agents, AgentCreated(c, i) \/ CreateFails(c, i)
       PROVE  FormIdle'
  <2>1. pc[c] = "agents"
    BY <1>11, EmptyForm DEF AgentCreated, CreateFails, FormIdle
  <2>2. CASE Goto(c, "check") /\ Show(c, NoForm)
    BY <1>2, <2>2
  <2>3. CASE UNCHANGED pc /\ Answered(c, i)
    BY <1>3, <2>1, <2>3 DEF Answered
  <2> QED
    BY <1>11, <2>2, <2>3 DEF AgentCreated, CreateFails
<1>12. ASSUME NEW c \in Clis,
              \/ Open(c) \/ LeaveAuth(c) \/ Deployments(c) \/ Build(c)
              \/ StartAgent(c) \/ RemovePid(c) \/ (\E u \in Users : SignIn(c, u))
              \/ \E p \in Pids : Start(c, p)
       PROVE  FormIdle'
  BY <1>4, <1>12 DEF Open, LeaveAuth, Deployments, Build, StartAgent, RemovePid, SignIn, Start
<1>13. ASSUME NEW c \in Clis, Check(c) \/ WritePid(c) \/ Stop(c) PROVE FormIdle'
  BY <1>1, <1>4, <1>13 DEF Check, WritePid, Stop, Return
<1>14. CASE \/ Reuse \/ Expire \/ (\E p \in Pids : Die(p)) \/ (\E u \in Users : Install(u))
            \/ UNCHANGED vars
  BY <1>1, <1>14 DEF Reuse, Expire, Die, Install, vars, screens
<1>15. ASSUME NEW c \in Clis, Screens(c) PROVE FormIdle'
  BY <1>7, <1>8, <1>9, <1>10, <1>11, <1>12, <1>13, <1>15 DEF Screens
<1> QED
  BY <1>14, <1>15 DEF Next

LEMMA EndedOK == ASSUME ProcOK, NEW p \in Pids PROVE Ended(p) \in Process /\ Ended(p).kind # "agent"
<1>1. proc[p] \in Process /\ NoProc \in Process /\ NoProc.kind = "free"
  BY DEF ProcOK, NoProc, Process
<1>2. [proc[p] EXCEPT !.kind = "zombie"] \in Process
      /\ [proc[p] EXCEPT !.kind = "zombie"].kind = "zombie"
  BY <1>1 DEF Process
<1> QED
  BY <1>1, <1>2 DEF Ended

LEMMA OrphanedOK ==
  ASSUME ProcOK, NEW c
  PROVE  /\ Orphaned(c) \in [Pids -> Process]
         /\ \A p \in Pids : Orphaned(c)[p].kind = "agent" <=> proc[p].kind = "agent"
<1>1. ASSUME NEW p \in Pids
      PROVE  /\ Orphaned(c)[p] \in Process
             /\ Orphaned(c)[p].kind = "agent" <=> proc[p].kind = "agent"
  <2>1. proc[p] \in Process /\ NoProc \in Process /\ NoProc.kind = "free"
    BY DEF ProcOK, NoProc, Process
  <2>2. /\ [proc[p] EXCEPT !.parent = None] \in Process
        /\ [proc[p] EXCEPT !.parent = None].kind = proc[p].kind
    BY <2>1 DEF Process
  <2> QED
    BY <2>1, <2>2 DEF Orphaned
<1> QED
  BY <1>1 DEF Orphaned

LEMMA ProcStep == TypeOK /\ [Next]_vars => ProcOK'
<1> SUFFICES ASSUME ScreenOK, ProcOK, [Next]_vars PROVE ProcOK'
  BY TypeParts
<1>1. CASE UNCHANGED <<proc, pidfile>>
  BY <1>1 DEF ProcOK
<1>2. ASSUME NEW p \in Pids, NEW x \in Process, proc' = [proc EXCEPT ![p] = x], UNCHANGED pidfile
      PROVE  ProcOK'
  BY <1>2 DEF ProcOK
<1>3. ASSUME NEW p \in Pids, Die(p) PROVE ProcOK'
  BY <1>2, <1>3, EndedOK DEF Die
<1>4. CASE Reuse
  <2>1. pidfile \in Pids /\ proc[pidfile] \in Process
    BY <1>4 DEF Reuse, ProcOK
  <2>2. PICK k \in {"other", "free"} : proc' = [proc EXCEPT ![pidfile].kind = k]
    BY <1>4 DEF Reuse
  <2>3. UNCHANGED pidfile
    BY <1>4 DEF Reuse
  <2> QED
    BY <2>1, <2>2, <2>3 DEF ProcOK, Process
<1>5. ASSUME NEW c \in Clis, End(c), UNCHANGED pidfile PROVE ProcOK'
  BY <1>5, OrphanedOK DEF End, ProcOK
<1>6. ASSUME NEW c \in Clis, Authed(c) \/ Launch(c) \/ Logout(c) \/ Close(c) PROVE ProcOK'
  BY <1>1, <1>5, <1>6 DEF Authed, Launch, Logout, Close
<1>7. ASSUME NEW c \in Clis, NEW p \in Pids, Start(c, p) PROVE ProcOK'
  <2>1. [kind |-> "agent", parent |-> c] \in Process
    BY DEF Process
  <2> QED
    BY <1>2, <1>7, <2>1 DEF Start
<1>8. ASSUME NEW c \in Clis, WritePid(c) \/ RemovePid(c) PROVE ProcOK'
  BY <1>8 DEF WritePid, RemovePid, ProcOK, ScreenOK
<1>9. ASSUME NEW c \in Clis, Stop(c) PROVE ProcOK'
  <2>1. CASE IsRunning
    <3>1. pidfile \in Pids
      BY <2>1 DEF IsRunning, ProcOK
    <3> QED
      BY <1>2, <1>9, <2>1, <3>1, EndedOK DEF Stop
  <2>2. CASE ~IsRunning
    BY <1>1, <1>9, <2>2 DEF Stop
  <2> QED
    BY <2>1, <2>2
<1>10. ASSUME NEW c \in Clis,
              \/ Open(c) \/ Loop(c) \/ LeaveAuth(c) \/ AgentList(c) \/ SelectCreate(c) \/ Submit(c)
              \/ LeaveForm(c) \/ Check(c) \/ Build(c) \/ ChangeAgent(c) \/ Deployments(c)
              \/ StartAgent(c)
       PROVE  ProcOK'
  BY <1>1, <1>10 DEF Open, Loop, LeaveAuth, AgentList, SelectCreate, Submit, LeaveForm, Check,
                     Build, ChangeAgent, Deployments, StartAgent
<1>11. ASSUME NEW c \in Clis,
              \/ (\E u \in Users : SignIn(c, u)) \/ (\E a \in Agents : Select(c, a))
              \/ (\E i \in Agents : AgentCreated(c, i) \/ CreateFails(c, i))
       PROVE  ProcOK'
  BY <1>1, <1>11 DEF SignIn, Select, AgentCreated, CreateFails
<1>12. CASE Expire \/ (\E u \in Users : Install(u)) \/ UNCHANGED vars
  BY <1>1, <1>12 DEF Expire, Install, vars
<1>13. ASSUME NEW c \in Clis, Screens(c) PROVE ProcOK'
  BY <1>6, <1>7, <1>8, <1>9, <1>10, <1>11, <1>13 DEF Screens
<1> QED
  BY <1>3, <1>4, <1>12, <1>13 DEF Next

LEMMA PastStep == TypeOK /\ [Next]_vars => PastOK'
<1> SUFFICES ASSUME PastOK, [Next]_vars PROVE PastOK'
  BY TypeParts
<1>1. ASSUME NEW c \in Clis,
             \/ Open(c) \/ Loop(c) \/ LeaveAuth(c) \/ Authed(c) \/ AgentList(c) \/ SelectCreate(c)
             \/ Submit(c) \/ LeaveForm(c) \/ Launch(c) \/ Build(c) \/ ChangeAgent(c)
             \/ Deployments(c) \/ StartAgent(c) \/ RemovePid(c) \/ Logout(c)
             \/ (\E a \in Agents : Select(c, a)) \/ (\E p \in Pids : Start(c, p))
             \/ (\E i \in Agents : AgentCreated(c, i) \/ CreateFails(c, i))
      PROVE  UNCHANGED <<slipped, crossed>>
  BY <1>1 DEF Open, Loop, LeaveAuth, Authed, AgentList, SelectCreate, Submit, LeaveForm, Launch,
              Build, ChangeAgent, Deployments, StartAgent, RemovePid, Logout, Select, Start,
              AgentCreated, CreateFails
<1>2. ASSUME NEW c \in Clis,
             \/ Check(c) \/ WritePid(c) \/ Stop(c) \/ Close(c) \/ (\E u \in Users : SignIn(c, u))
      PROVE  PastOK'
  BY <1>2 DEF Check, WritePid, Stop, Close, SignIn, PastOK
<1>3. CASE \/ Reuse \/ Expire \/ (\E p \in Pids : Die(p)) \/ (\E u \in Users : Install(u))
           \/ UNCHANGED vars
  BY <1>3 DEF Reuse, Expire, Die, Install, vars, PastOK
<1>4. ASSUME NEW c \in Clis, Screens(c) PROVE PastOK'
  BY <1>1, <1>2, <1>4 DEF Screens, PastOK
<1> QED
  BY <1>3, <1>4 DEF Next

(* The types, and where a form may be open and a screen may return to.     *)
Shape == TypeOK /\ RetOK /\ FormIdle

LEMMA ShapeStep == Shape /\ [Next]_vars => Shape'
<1> SUFFICES ASSUME Shape, [Next]_vars PROVE Shape'
  OBVIOUS
<1>1. CfgOK' /\ FormOK' /\ ScreenOK' /\ ProcOK' /\ PastOK' /\ RetOK' /\ FormIdle'
  BY CfgStep, FormStep, ScreenStep, ProcStep, PastStep, FormIdleStep DEF Shape
<1>2. TypeOK'
  BY <1>1 DEF TypeOK, CfgOK, FormOK, ScreenOK, ProcOK, PastOK, Form, Process, Places, Returns
<1> QED
  BY <1>1, <1>2 DEF Shape

LEMMA ShapeInit == Init => Shape
<1> SUFFICES ASSUME Init PROVE Shape
  OBVIOUS
<1>1. CfgOK /\ PastOK /\ RetOK /\ FormIdle
  BY DEF Init, CfgOK, PastOK, RetOK, FormIdle
<1>2. FormOK
  BY FormValues DEF Init, FormOK
<1>3. ScreenOK
  BY DEF Init, ScreenOK, Places, Returns
<1>4. ProcOK
  BY DEF Init, ProcOK, NoProc, Process
<1> QED
  BY <1>1, <1>2, <1>3, <1>4, TypeParts DEF Shape

(* The screens, the configuration and the processes are well typed in      *)
(* every reachable state; what is no type in the invariant is that a CLI   *)
(* remembers a process exactly while it is about to write its pid.         *)
THEOREM SessionTypeCorrect == Spec => []TypeOK
<1>1. Shape => TypeOK
  BY DEF Shape
<1> QED
  BY <1>1, ShapeInit, ShapeStep, PTL DEF Spec

-----------------------------------------------------------------------------
(* The processes.                                                          *)

Alive(p) == proc[p].kind = "agent"

(* While nothing overlapped or broke off, one CLI at most is between a     *)
(* test or kill and its end; before a start and after a kill there is no   *)
(* agent, after a start there is that one.                                 *)
TrackInv ==
  ~slipped =>
    /\ \A c, d \in Clis : InWindow(c) /\ InWindow(d) => c = d
    /\ \A c \in Clis : pc[c] \in {"start", "remove"} => \A p \in Pids : ~Alive(p)
    /\ \A c \in Clis : pc[c] = "pid" => \A p \in Pids : Alive(p) => mine[c] = p
    /\ \A p \in Pids : Alive(p) => pidfile = p \/ \E c \in Clis : pc[c] = "pid"

LEMMA TrackTracked == Shape /\ TrackInv => AgentsTracked
<1> SUFFICES ASSUME TrackInv, ~slipped, NEW p \in Pids, Alive(p)
             PROVE  /\ pidfile = p \/ \E c \in Clis : pc[c] = "pid" /\ mine[c] = p
                    /\ \A q \in Pids : Alive(q) => q = p
  BY DEF AgentsTracked, Alive
<1> QED
  BY DEF TrackInv

(* Nothing enters or leaves those places, no agent is born, none loses its *)
(* pid.                                                                    *)
LEMMA TrackFrame ==
  ASSUME TrackInv, UNCHANGED <<mine, pidfile>>, slipped => slipped',
         \A c \in Clis : pc'[c] \in {"start", "pid", "remove"} => pc'[c] = pc[c],
         \A c \in Clis : pc[c] = "pid" => pc'[c] = pc[c],
         \A p \in Pids : Alive(p)' => Alive(p)
  PROVE  TrackInv'
BY DEF TrackInv, InWindow

LEMMA TrackEnd ==
  ASSUME TypeOK, TrackInv, NEW c \in Clis, End(c), UNCHANGED pidfile,
         slipped' = (slipped \/ pc[c] = "pid")
  PROVE  TrackInv'
<1>1. \A p \in Pids : Alive(p)' <=> Alive(p)
  BY TypeParts, OrphanedOK DEF End, Alive
<1>2. \A d \in Clis : d # c => pc'[d] = pc[d] /\ mine'[d] = mine[d]
  BY TypeParts DEF End, Goto, ScreenOK
<1>3. pc'[c] = "off"
  BY TypeParts DEF End, Goto, ScreenOK
<1> QED
  BY <1>1, <1>2, <1>3 DEF TrackInv, InWindow

LEMMA TrackStep == Shape /\ TrackInv /\ [Next]_vars => TrackInv'
<1> SUFFICES ASSUME TypeOK, FormIdle, TrackInv, [Next]_vars PROVE TrackInv'
  BY DEF Shape
<1>1. ScreenOK /\ ProcOK
  BY TypeParts
<1>2. ASSUME NEW c \in Clis, NEW at, Goto(c, at), at \notin {"start", "pid", "remove"},
             pc[c] # "pid", UNCHANGED <<mine, proc, pidfile, slipped>>
      PROVE  TrackInv'
  <2>1. \A d \in Clis : pc'[d] = IF d = c THEN at ELSE pc[d]
    BY <1>1, <1>2 DEF Goto, ScreenOK
  <2> QED
    BY <1>2, <2>1, TrackFrame DEF Alive
<1>3. CASE UNCHANGED <<pc, mine, proc, pidfile, slipped>>
  BY <1>3, TrackFrame DEF Alive
<1>4. ASSUME NEW c \in Clis, Check(c) PROVE TrackInv'
  <2>1. pc[c] = "check" /\ UNCHANGED <<mine, proc, pidfile>>
    BY <1>4 DEF Check
  <2>2. CASE (Return(c, TRUE) \/ Return(c, FALSE)) /\ UNCHANGED slipped
    <3>1. PICK at \in {"build", ret[c]} : Goto(c, at)
      BY <2>2 DEF Return
    <3>2. at \notin {"start", "pid", "remove"}
      BY <1>1, <3>1 DEF ScreenOK, Returns
    <3> QED
      BY <1>2, <2>1, <2>2, <3>1, <3>2
  <2>3. CASE ~IsRunning /\ Goto(c, "start") /\ slipped' = (slipped \/ Overlap(c))
    <3>1. /\ pc'[c] = "start"
          /\ \A d \in Clis : d # c => pc'[d] = pc[d]
      BY <1>1, <2>3 DEF Goto, ScreenOK
    <3> SUFFICES ASSUME ~slipped' PROVE TrackInv'
      BY DEF TrackInv
    <3>2. ~slipped /\ \A d \in Clis : d # c => ~InWindow(d)
      BY <2>3 DEF Overlap
    <3>3. \A p \in Pids : ~Alive(p)
      <4> SUFFICES ASSUME NEW p \in Pids, Alive(p) PROVE FALSE
        OBVIOUS
      <4>1. pidfile = p
        BY <2>1, <3>2 DEF TrackInv, InWindow
      <4> QED
        BY <2>3, <4>1, NoneApart DEF IsRunning, Alive
    <3> QED
      BY <2>1, <3>1, <3>2, <3>3 DEF TrackInv, InWindow, Alive
  <2> QED
    BY <1>4, <2>2, <2>3 DEF Check
<1>5. ASSUME NEW c \in Clis, NEW p \in Pids, Start(c, p) PROVE TrackInv'
  <2>1. /\ pc[c] = "start" /\ pc'[c] = "pid" /\ mine'[c] = p
        /\ \A d \in Clis : d # c => pc'[d] = pc[d] /\ mine'[d] = mine[d]
        /\ UNCHANGED <<pidfile, slipped>>
    BY <1>1, <1>5 DEF Start, Goto, ScreenOK
  <2>2. \A q \in Pids : q # p => (Alive(q)' <=> Alive(q))
    BY <1>1, <1>5 DEF Start, Alive, ProcOK
  <2> QED
    BY <2>1, <2>2 DEF TrackInv, InWindow
<1>6. ASSUME NEW c \in Clis, WritePid(c) PROVE TrackInv'
  <2>1. pc[c] = "pid" /\ UNCHANGED proc
    BY <1>6 DEF WritePid
  <2>2. CASE slipped' = TRUE
    BY <2>2 DEF TrackInv
  <2>3. CASE pidfile' = mine[c] /\ Return(c, TRUE) /\ UNCHANGED slipped
    <3>1. PICK at \in {"build", ret[c]} : Goto(c, at)
      BY <2>3 DEF Return
    <3>2. at \notin {"start", "pid", "remove"}
      BY <1>1, <3>1 DEF ScreenOK, Returns
    <3>3. pc'[c] = at /\ \A d \in Clis : d # c => pc'[d] = pc[d] /\ mine'[d] = mine[d]
      BY <1>1, <1>6, <3>1 DEF WritePid, Goto, ScreenOK
    <3> QED
      BY <2>1, <2>3, <3>2, <3>3 DEF TrackInv, InWindow, Alive
  <2> QED
    BY <1>6, <2>2, <2>3 DEF WritePid
<1>7. ASSUME NEW c \in Clis, Stop(c) PROVE TrackInv'
  <2>1. CASE IsRunning
    <3>1. /\ pc[c] = "home" /\ pc'[c] = "remove"
          /\ \A d \in Clis : d # c => pc'[d] = pc[d]
          /\ UNCHANGED <<mine, pidfile>> /\ slipped' = (slipped \/ Overlap(c))
      BY <1>1, <1>7, <2>1 DEF Stop, Goto, ScreenOK
    <3>2. /\ pidfile \in Pids /\ ~Alive(pidfile)'
          /\ \A q \in Pids : q # pidfile => (Alive(q)' <=> Alive(q))
      <4>1. pidfile \in Pids
        BY <1>1, <2>1 DEF IsRunning, ProcOK
      <4>2. proc' = [proc EXCEPT ![pidfile] = Ended(pidfile)]
        BY <1>7, <2>1 DEF Stop
      <4>3. Ended(pidfile).kind # "agent"
        BY <1>1, <4>1, EndedOK
      <4> QED
        BY <1>1, <3>1, <4>1, <4>2, <4>3 DEF Alive, ProcOK
    <3> QED
      BY <3>1, <3>2 DEF TrackInv, InWindow, Overlap
  <2>2. CASE ~IsRunning
    BY <1>3, <1>7, <2>2 DEF Stop
  <2> QED
    BY <2>1, <2>2
<1>8. ASSUME NEW c \in Clis, RemovePid(c) PROVE TrackInv'
  <2>1. /\ pc[c] = "remove" /\ pc'[c] = "home"
        /\ \A d \in Clis : d # c => pc'[d] = pc[d]
        /\ UNCHANGED <<mine, proc, slipped>>
    BY <1>1, <1>8 DEF RemovePid, Goto, ScreenOK
  <2> QED
    BY <2>1 DEF TrackInv, InWindow, Alive
<1>9. ASSUME NEW p \in Pids, Die(p) PROVE TrackInv'
  <2>1. \A q \in Pids : Alive(q)' => Alive(q)
    BY <1>1, <1>9, EndedOK DEF Die, Alive, ProcOK
  <2> QED
    BY <1>9, <2>1, TrackFrame DEF Die, screens
<1>10. CASE Reuse
  <2>1. \A q \in Pids : Alive(q)' => Alive(q)
    <3>1. pidfile \in Pids /\ proc[pidfile] \in Process
      BY <1>1, <1>10 DEF Reuse, ProcOK
    <3>2. PICK k \in {"other", "free"} : proc' = [proc EXCEPT ![pidfile].kind = k]
      BY <1>10 DEF Reuse
    <3>3. proc'[pidfile].kind = k /\ \A q \in Pids : q # pidfile => proc'[q] = proc[q]
      BY <1>1, <3>1, <3>2 DEF ProcOK, Process
    <3> QED
      BY <3>3 DEF Alive
  <2> QED
    BY <1>10, <2>1, TrackFrame DEF Reuse, screens
<1>11. ASSUME NEW c \in Clis, Authed(c) \/ Launch(c) \/ Logout(c) \/ Close(c) PROVE TrackInv'
  <2>1. CASE End(c)
    <3>1. UNCHANGED pidfile /\ slipped' = (slipped \/ pc[c] = "pid")
      BY <1>11, TypeParts DEF Authed, Launch, Logout, Close, PastOK
    <3> QED
      BY <2>1, <3>1, TrackEnd
  <2>2. CASE ~End(c)
    <3>1. /\ pc[c] \in {"authed", "launch"} /\ UNCHANGED <<mine, proc, pidfile, slipped>>
          /\ \E at \in {"agents", "launch", "build", "check"} : Goto(c, at)
      BY <1>11, <2>2 DEF Authed, Launch, Logout, Close, ToAgent, OpenForm
    <3> QED
      BY <1>2, <3>1
  <2> QED
    BY <2>1, <2>2
<1>12. ASSUME NEW c \in Clis,
              \/ Open(c) \/ Loop(c) \/ LeaveAuth(c) \/ Build(c) \/ ChangeAgent(c)
              \/ Deployments(c) \/ StartAgent(c) \/ (\E u \in Users : SignIn(c, u))
       PROVE  TrackInv'
  <2>1. UNCHANGED <<mine, proc, pidfile, slipped>> /\ pc[c] \in {"off", "top", "auth", "build", "home"}
    BY <1>12 DEF Open, Loop, LeaveAuth, Build, ChangeAgent, Deployments, StartAgent, SignIn
  <2>2. \E at \in {"top", "auth", "agents", "launch", "authed", "home", "check"} : Goto(c, at)
    BY <1>12 DEF Open, Loop, LeaveAuth, Build, ChangeAgent, Deployments, StartAgent, SignIn,
                 ToAgent, OpenForm
  <2> QED
    BY <1>2, <2>1, <2>2
<1>13. ASSUME NEW c \in Clis, LeaveForm(c) \/ \E a \in Agents : Select(c, a) PROVE TrackInv'
  <2>1. UNCHANGED <<mine, proc, pidfile, slipped>> /\ pc[c] = "agents" /\ Goto(c, ret[c])
    BY <1>13 DEF LeaveForm, Select
  <2>2. ret[c] \notin {"start", "pid", "remove"}
    BY <1>1 DEF ScreenOK, Returns
  <2> QED
    BY <1>2, <2>1, <2>2
<1>14. ASSUME NEW c \in Clis, NEW i \in Agents, AgentCreated(c, i) PROVE TrackInv'
  <2>1. pc[c] = "agents" /\ UNCHANGED <<mine, proc, pidfile, slipped>>
    BY <1>14, EmptyForm DEF AgentCreated, FormIdle
  <2>2. UNCHANGED pc \/ Goto(c, "check")
    BY <1>14 DEF AgentCreated
  <2> QED
    BY <1>2, <1>3, <2>1, <2>2
<1>15. ASSUME NEW c \in Clis,
              \/ AgentList(c) \/ SelectCreate(c) \/ Submit(c) \/ \E i \in Agents : CreateFails(c, i)
       PROVE  TrackInv'
  BY <1>3, <1>15 DEF AgentList, SelectCreate, Submit, CreateFails
<1>16. CASE Expire \/ (\E u \in Users : Install(u)) \/ UNCHANGED vars
  BY <1>3, <1>16 DEF Expire, Install, vars, screens
<1>17. ASSUME NEW c \in Clis, Screens(c) PROVE TrackInv'
  BY <1>4, <1>5, <1>6, <1>7, <1>8, <1>11, <1>12, <1>13, <1>14, <1>15, <1>17 DEF Screens
<1> QED
  BY <1>9, <1>10, <1>16, <1>17 DEF Next

(* However many CLIs start and stop the agent: unless a start broke off or *)
(* overlapped, the process that runs is the one the pid file names, or is  *)
(* about to be, so that it can be seen and stopped, and it is the only one. *)
THEOREM NoAgentLost == Spec => []AgentsTracked
<1>1. Init => TrackInv
  BY DEF Init, TrackInv, Alive, NoProc, InWindow
<1> QED
  BY <1>1, ShapeInit, ShapeStep, TrackStep, TrackTracked, PTL DEF Spec

-----------------------------------------------------------------------------
(* The agent of the configuration.                                         *)

(* What an open agent screen has asked for, shows and has sent is user u's. *)
Of(f, u) ==
  /\ f.asked \in {None, "refused", u}
  /\ f.list \subseteq OwnedBy(u)
  /\ \A j \in DOMAIN f.regs : f.regs[j] \in {u, "refused"}

(* While nobody signed in under another's agent screen, the agent of the   *)
(* configuration, and all that the agent screens have, are its user's.     *)
UserInv ==
  (cfg # None /\ ~crossed /\ cfg.user # None) =>
    /\ cfg.agent # None => owner[cfg.agent] = cfg.user
    /\ \A c \in Clis : pc[c] = "agents" => Of(form[c], cfg.user)

LEMMA EmptyOf == \A u : Of(NoForm, u)
BY EmptyForm DEF Of

(* An agent that is registered has an owner for ever.                      *)
LEMMA OwnersStay ==
  ASSUME CfgOK, NEW u, owner' = owner \/ (Registered # Agents /\ owner' = [owner EXCEPT ![NewAgent] = u])
  PROVE  /\ \A a \in Agents : owner[a] # None => owner'[a] = owner[a]
         /\ \A v : v # None => OwnedBy(v) \subseteq OwnedBy(v)'
<1>1. \A a \in Agents : owner[a] # None => owner'[a] = owner[a]
  BY NewAgentOK DEF CfgOK
<1> QED
  BY <1>1 DEF OwnedBy, Registered

(* The configuration and the owners stay, and the screens show no more.    *)
LEMMA UserFrame ==
  ASSUME UserInv, UNCHANGED <<cfg, owner, crossed>>,
         \A c \in Clis : pc'[c] = "agents" =>
           (pc[c] = "agents" /\ form'[c] = form[c]) \/ (cfg # None /\ cfg.user # None => Of(form'[c], cfg.user))
  PROVE  UserInv'
BY DEF UserInv, Of, OwnedBy, Registered

LEMMA UserStep == Shape /\ UserInv /\ [Next]_vars => UserInv'
<1> SUFFICES ASSUME TypeOK, FormIdle, UserInv, [Next]_vars PROVE UserInv'
  BY DEF Shape
<1>1. CfgOK /\ FormOK /\ ScreenOK /\ PastOK
  BY TypeParts
<1>2. CASE UNCHANGED <<cfg, owner, crossed, pc, form>>
  BY <1>2, UserFrame
<1>3. ASSUME NEW c \in Clis, NEW at, Goto(c, at), at # "agents",
             Show(c, NoForm) \/ UNCHANGED form, UNCHANGED <<cfg, owner, crossed>>
      PROVE  UserInv'
  <2>1. \A d \in Clis : pc'[d] = "agents" => pc[d] = "agents" /\ form'[d] = form[d]
    BY <1>1, <1>3 DEF Goto, Show, ScreenOK, FormOK
  <2> QED
    BY <1>3, <2>1, UserFrame
<1>4. ASSUME NEW c \in Clis, NEW f, Show(c, f), UNCHANGED <<cfg, owner, crossed>>,
             UNCHANGED pc \/ Goto(c, "agents"),
             cfg # None /\ cfg.user # None => Of(f, cfg.user) \/ crossed
      PROVE  UserInv'
  <2>1. \A d \in Clis : d # c => pc'[d] = pc[d] /\ form'[d] = form[d]
    BY <1>1, <1>4 DEF Goto, Show, ScreenOK, FormOK
  <2>2. form'[c] = f
    BY <1>1, <1>4 DEF Show, FormOK
  <2>3. CASE crossed
    BY <1>4, <2>3 DEF UserInv
  <2>4. CASE ~crossed
    BY <1>4, <2>1, <2>2, <2>4, UserFrame
  <2> QED
    BY <2>3, <2>4
<1>5. ASSUME NEW c \in Clis, End(c), UNCHANGED <<cfg, owner, crossed>> PROVE UserInv'
  BY <1>3, <1>5 DEF End
<1>6. ASSUME NEW c \in Clis, NEW r, OpenForm(c, r), UNCHANGED <<cfg, owner, crossed>> PROVE UserInv'
  <2> DEFINE f == [NoForm EXCEPT !.state = "loading",
                     !.asked = IF cfg = None \/ cfg.user = None THEN None ELSE Bearer]
  <2>1. cfg # None /\ cfg.user # None => Of(f, cfg.user)
    <3> SUFFICES ASSUME cfg # None, cfg.user # None PROVE Of(f, cfg.user)
      OBVIOUS
    <3>1. Bearer \in {cfg.user, "refused"}
      BY <1>1, BearerOK
    <3>2. f.asked = Bearer /\ f.list = {} /\ f.regs = <<>>
      BY DEF NoForm
    <3> QED
      BY <3>1, <3>2 DEF Of
  <2>2. Show(c, f) /\ Goto(c, "agents")
    BY <1>6 DEF OpenForm
  <2> QED
    BY <1>4, <1>6, <2>1, <2>2
<1>7. ASSUME NEW c \in Clis, NEW u \in Users, SignIn(c, u) PROVE UserInv'
  <2>1. cfg'.agent = None
    BY <1>7 DEF SignIn
  <2>2. ~crossed' => \A d \in Clis : pc'[d] # "agents"
    BY <1>1, <1>7 DEF SignIn, Goto, ScreenOK
  <2> QED
    BY <2>1, <2>2 DEF UserInv
<1>8. ASSUME NEW c \in Clis, NEW a \in Agents, Select(c, a) PROVE UserInv'
  <2> SUFFICES ASSUME cfg' # None, ~crossed', cfg'.user # None
               PROVE  /\ cfg'.agent # None => owner'[cfg'.agent] = cfg'.user
                      /\ \A d \in Clis : pc'[d] = "agents" => Of(form[d], cfg.user)'
    BY DEF UserInv
  <2>1. cfg # None /\ cfg \in Config /\ ~crossed /\ UNCHANGED owner
    BY <1>1, <1>8 DEF Select, CfgOK
  <2>2. cfg'.user = cfg.user /\ cfg'.agent = a
    BY <1>8, <2>1 DEF Select, Config
  <2>3. \A d \in Clis : pc[d] = "agents" => Of(form[d], cfg.user)
    BY <2>1, <2>2 DEF UserInv
  <2>4. owner[a] = cfg.user
    BY <1>8, <2>3 DEF Select, Of, OwnedBy
  <2>5. \A d \in Clis : pc'[d] = "agents" => pc[d] = "agents" /\ form'[d] = form[d]
    <3>1. ret[c] # "agents"
      BY <1>1 DEF ScreenOK, Returns
    <3> QED
      BY <1>1, <1>8, <3>1 DEF Select, Goto, Show, ScreenOK, FormOK
  <2>6. \A d \in Clis : pc'[d] = "agents" => Of(form[d], cfg.user)'
    BY <2>1, <2>2, <2>3, <2>5 DEF Of, OwnedBy, Registered
  <2> QED
    BY <2>1, <2>2, <2>4, <2>6
<1>9. ASSUME NEW c \in Clis, NEW i \in Agents, AgentCreated(c, i) PROVE UserInv'
  <2> DEFINE u == form[c].regs[i]
  <2>1. pc[c] = "agents"
    BY <1>9, EmptyForm DEF AgentCreated, FormIdle
  <2>2. /\ i \in DOMAIN form[c].regs /\ u # "refused" /\ NewAgent \in Agents /\ owner[NewAgent] = None
        /\ owner' = [owner EXCEPT ![NewAgent] = u] /\ Registered # Agents /\ crossed' = crossed
    BY <1>9, NewAgentOK DEF AgentCreated
  <2>3. owner'[NewAgent] = u /\ \A a \in Agents : owner[a] # None => owner'[a] = owner[a]
    BY <1>1, <2>2, OwnersStay DEF CfgOK
  <2> SUFFICES ASSUME cfg' # None, ~crossed', cfg'.user # None
               PROVE  /\ cfg'.agent # None => owner'[cfg'.agent] = cfg'.user
                      /\ \A d \in Clis : pc'[d] = "agents" => Of(form[d], cfg.user)'
    BY DEF UserInv
  <2>4. cfg # None /\ cfg \in Config /\ cfg'.user = cfg.user
    BY <1>1, <1>9 DEF AgentCreated, CfgOK, Config
  <2>5. /\ cfg.agent # None => owner[cfg.agent] = cfg.user
        /\ \A d \in Clis : pc[d] = "agents" => Of(form[d], cfg.user)
    BY <2>2, <2>4 DEF UserInv
  <2>6. u = cfg.user
    BY <2>1, <2>2, <2>5 DEF Of
  <2>7. \A a \in OwnedBy(cfg.user) : a \in Agents /\ owner'[a] = cfg'.user /\ owner'[a] # None
    BY <2>3, <2>4 DEF OwnedBy, Registered
  <2>8. ASSUME NEW d \in Clis, pc[d] = "agents", form'[d] = form[d] PROVE Of(form[d], cfg.user)'
    <3>1. Of(form[d], cfg.user)
      BY <2>5, <2>8
    <3> QED
      BY <2>7, <2>4, <2>8, <3>1 DEF Of, OwnedBy, Registered
  <2>9. CASE cfg' = [cfg EXCEPT !.agent = NewAgent] /\ Goto(c, "check") /\ Show(c, NoForm)
    <3>1. cfg'.agent = NewAgent
      BY <2>4, <2>9 DEF Config
    <3>2. \A d \in Clis : pc'[d] = "agents" => pc[d] = "agents" /\ form'[d] = form[d]
      BY <1>1, <2>9 DEF Goto, Show, ScreenOK, FormOK
    <3> QED
      BY <2>3, <2>4, <2>6, <2>8, <3>1, <3>2
  <2>10. CASE Answered(c, i) /\ UNCHANGED <<cfg, pc>>
    <3>1. cfg.agent # None => owner'[cfg.agent] = cfg.user
      <4>1. cfg.agent \in Agents \union {None}
        BY <2>4 DEF Config
      <4> QED
        BY <2>3, <2>4, <2>5, <2>10, <4>1
    <3>2. \A d \in Clis : d # c => form'[d] = form[d]
      BY <1>1, <2>10 DEF Answered, Show, FormOK
    <3>3. Of(form[c], cfg.user)'
      <4>1. form[c].regs \in Seq(Users \union {"refused"}) /\ form[c] \in Form
        BY <1>1 DEF FormOK, Form
      <4>2. form'[c] = [form[c] EXCEPT !.loading = FALSE, !.regs = RemoveAt(form[c].regs, i)]
        BY <1>1, <2>10 DEF Answered, Show, FormOK
      <4>3. /\ form'[c].asked = form[c].asked /\ form'[c].list = form[c].list
            /\ form'[c].regs = RemoveAt(form[c].regs, i)
        BY <4>1, <4>2 DEF Form
      <4>4. \A j \in DOMAIN RemoveAt(form[c].regs, i) :
              \E k \in DOMAIN form[c].regs : RemoveAt(form[c].regs, i)[j] = form[c].regs[k]
        BY <2>2, <4>1, Removed
      <4>6. Of(form[c], cfg.user)
        BY <2>1, <2>5
      <4>7. \A j \in DOMAIN form'[c].regs : form'[c].regs[j] \in {cfg.user, "refused"}
        BY <4>3, <4>4, <4>6 DEF Of
      <4> QED
        BY <2>7, <2>4, <4>3, <4>6, <4>7 DEF Of, OwnedBy, Registered
    <3> QED
      BY <2>4, <2>8, <2>10, <3>1, <3>2, <3>3
  <2> QED
    BY <1>9, <2>9, <2>10 DEF AgentCreated
<1>10. ASSUME NEW c \in Clis, NEW i \in Agents, CreateFails(c, i) PROVE UserInv'
  <2> DEFINE f == [form[c] EXCEPT !.loading = FALSE, !.regs = RemoveAt(form[c].regs, i)]
  <2>1. pc[c] = "agents" /\ i \in DOMAIN form[c].regs /\ UNCHANGED <<cfg, owner, crossed, pc>>
    BY <1>10, EmptyForm DEF CreateFails, FormIdle
  <2>2. cfg # None /\ cfg.user # None => Of(f, cfg.user) \/ crossed
    <3> SUFFICES ASSUME cfg # None, cfg.user # None, ~crossed PROVE Of(f, cfg.user)
      OBVIOUS
    <3>1. Of(form[c], cfg.user)
      BY <2>1 DEF UserInv
    <3>2. form[c].regs \in Seq(Users \union {"refused"}) /\ form[c] \in Form
      BY <1>1 DEF FormOK, Form
    <3>3. /\ f.asked = form[c].asked /\ f.list = form[c].list
          /\ f.regs = RemoveAt(form[c].regs, i)
      BY <3>2 DEF Form
    <3>4. \A j \in DOMAIN RemoveAt(form[c].regs, i) :
            \E k \in DOMAIN form[c].regs : RemoveAt(form[c].regs, i)[j] = form[c].regs[k]
      BY <2>1, <3>2, Removed
    <3> HIDE DEF f
    <3> QED
      BY <3>1, <3>3, <3>4 DEF Of
  <2> QED
    BY <1>4, <1>10, <2>1, <2>2 DEF CreateFails, Answered
<1>11. ASSUME NEW c \in Clis, AgentList(c) PROVE UserInv'
  <2>1. pc[c] = "agents" /\ UNCHANGED <<cfg, owner, crossed, pc>> /\ form[c] \in Form
    BY <1>1, <1>11, EmptyForm DEF AgentList, FormIdle, FormOK
  <2> DEFINE f == [form[c] EXCEPT !.asked = None, !.loading = FALSE, !.state = "list",
                                  !.list = OwnedBy(form[c].asked)]
             g == [form[c] EXCEPT !.asked = None, !.loading = FALSE, !.state = "create"]
  <2>2. \/ form[c].asked \notin {None, "refused"} /\ Show(c, f)
        \/ Show(c, g)
    BY <1>11 DEF AgentList
  <2>3. /\ f.asked = None /\ f.regs = form[c].regs /\ f.list = OwnedBy(form[c].asked)
        /\ g.asked = None /\ g.regs = form[c].regs /\ g.list = form[c].list
    BY <2>1 DEF Form
  <2> HIDE DEF f, g
  <2>4. cfg # None /\ cfg.user # None /\ ~crossed => Of(form[c], cfg.user)
    BY <2>1 DEF UserInv
  <2>5. CASE form[c].asked \notin {None, "refused"} /\ Show(c, f)
    BY <1>4, <2>1, <2>3, <2>4, <2>5 DEF Of
  <2>6. CASE Show(c, g)
    BY <1>4, <2>1, <2>3, <2>4, <2>6 DEF Of
  <2> QED
    BY <2>2, <2>5, <2>6
<1>12. ASSUME NEW c \in Clis, SelectCreate(c) PROVE UserInv'
  <2>1. pc[c] = "agents" /\ UNCHANGED <<cfg, owner, crossed, pc>> /\ form[c] \in Form
    BY <1>1, <1>12 DEF SelectCreate, FormOK
  <2>2. PICK f : /\ Show(c, f) /\ f.asked = form[c].asked /\ f.regs = form[c].regs
                 /\ f.list = form[c].list
    BY <1>12, <2>1 DEF SelectCreate, Form
  <2>3. cfg # None /\ cfg.user # None => Of(f, cfg.user) \/ crossed
    BY <2>1, <2>2 DEF UserInv, Of
  <2> QED
    BY <1>4, <2>1, <2>2, <2>3
<1>13. ASSUME NEW c \in Clis, Submit(c) PROVE UserInv'
  <2>1. /\ pc[c] = "agents" /\ UNCHANGED <<cfg, owner, crossed, pc>>
        /\ form[c] \in Form /\ form[c].regs \in Seq(Users \union {"refused"})
        /\ cfg # None /\ cfg.user # None
    BY <1>1, <1>13 DEF Submit, FormOK, Form
  <2> DEFINE f == [form[c] EXCEPT !.loading = TRUE, !.regs = Append(form[c].regs, Bearer)]
  <2>2. /\ Show(c, f) /\ f.asked = form[c].asked /\ f.list = form[c].list
        /\ f.regs = Append(form[c].regs, Bearer)
    BY <1>13, <2>1 DEF Submit, Form
  <2> HIDE DEF f
  <2>3. Bearer \in {cfg.user, "refused"} /\ Bearer \in Users \union {"refused"}
    BY <1>1, <2>1, BearerOK
  <2>4. \A j \in DOMAIN f.regs : f.regs[j] = Bearer \/ \E k \in DOMAIN form[c].regs : f.regs[j] = form[c].regs[k]
    BY <2>1, <2>2, <2>3
  <2>5. Of(f, cfg.user) \/ crossed
    BY <2>1, <2>2, <2>3, <2>4 DEF UserInv, Of
  <2> QED
    BY <1>4, <2>1, <2>2, <2>5
<1>14. ASSUME NEW c \in Clis, LeaveForm(c) PROVE UserInv'
  <2>1. ret[c] # "agents"
    BY <1>1 DEF ScreenOK, Returns
  <2> QED
    BY <1>3, <1>14, <2>1 DEF LeaveForm
<1>15. ASSUME NEW c \in Clis, Loop(c) \/ Authed(c) \/ ChangeAgent(c) PROVE UserInv'
  <2>1. UNCHANGED <<cfg, owner, crossed>>
    BY <1>15 DEF Loop, Authed, ChangeAgent
  <2>2. \/ End(c) \/ (\E r : OpenForm(c, r))
        \/ UNCHANGED form /\ \E at \in {"auth", "launch"} : Goto(c, at)
    BY <1>15 DEF Loop, Authed, ChangeAgent, ToAgent
  <2> QED
    BY <1>3, <1>5, <1>6, <2>1, <2>2
<1>16. ASSUME NEW c \in Clis, Launch(c) \/ Close(c) PROVE UserInv'
  BY <1>3, <1>5, <1>16 DEF Launch, Close
<1>17. ASSUME NEW c \in Clis, Logout(c) PROVE UserInv'
  BY <1>17 DEF Logout, UserInv
<1>18. ASSUME NEW c \in Clis,
              \/ Open(c) \/ LeaveAuth(c) \/ Deployments(c) \/ Build(c)
              \/ StartAgent(c) \/ RemovePid(c) \/ \E p \in Pids : Start(c, p)
       PROVE  UserInv'
  BY <1>3, <1>18 DEF Open, LeaveAuth, Deployments, Build, StartAgent, RemovePid, Start
<1>19. ASSUME NEW c \in Clis, Check(c) \/ WritePid(c) \/ Stop(c) PROVE UserInv'
  <2>1. UNCHANGED <<cfg, owner, crossed, form>>
    BY <1>19 DEF Check, WritePid, Stop
  <2>2. UNCHANGED pc \/ \E at \in {"build", "start", "remove", ret[c]} : Goto(c, at)
    BY <1>19 DEF Check, WritePid, Stop, Return
  <2>3. ret[c] # "agents"
    BY <1>1 DEF ScreenOK, Returns
  <2> QED
    BY <1>2, <1>3, <2>1, <2>2, <2>3
<1>20. CASE Expire
  <2>1. cfg \in Config /\ UNCHANGED <<owner, crossed, pc, form>>
    BY <1>1, <1>20 DEF Expire, CfgOK, screens
  <2>2. cfg'.user = cfg.user /\ cfg'.agent = cfg.agent /\ cfg # None
    BY <1>20, <2>1 DEF Expire, Config
  <2> QED
    BY <2>1, <2>2 DEF UserInv, Of, OwnedBy, Registered
<1>21. ASSUME NEW u \in Users, Install(u) PROVE UserInv'
  BY <1>21 DEF Install, UserInv
<1>22. CASE Reuse \/ (\E p \in Pids : Die(p)) \/ UNCHANGED vars
  BY <1>2, <1>22 DEF Reuse, Die, vars, screens
<1>23. ASSUME NEW c \in Clis, Screens(c) PROVE UserInv'
  BY <1>7, <1>8, <1>9, <1>10, <1>11, <1>12, <1>13, <1>14, <1>15, <1>16, <1>17, <1>18, <1>19,
     <1>23 DEF Screens
<1> QED
  BY <1>20, <1>21, <1>22, <1>23 DEF Next

(* The agent that the configuration names is an agent of the user that it  *)
(* names, as long as nobody signs in under the open agent screen of        *)
(* another CLI: whatever expires, fails, is installed or answered late.    *)
THEOREM AgentIsTheUsers == Spec => []AgentBelongsToUser
<1>1. Init => UserInv
  BY DEF Init, UserInv
<1>2. UserInv => AgentBelongsToUser
  BY DEF UserInv, AgentBelongsToUser
<1> QED
  BY <1>1, <1>2, ShapeInit, ShapeStep, UserStep, PTL DEF Spec
=============================================================================
