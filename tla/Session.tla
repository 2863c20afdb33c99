-------------------------------- MODULE Session --------------------------------
(***************************************************************************)
(* The command line on one machine: the screens that main runs in a loop   *)
(* (sign-in, agent, home), the configuration file they share, and the      *)
(* agent process that they start and stop through a pid file.              *)
(*                                                                         *)
(* Several CLIs may be open.  Each handler of a screen is a step; starting *)
(* the agent is three (is it running, start it, write its pid), stopping   *)
(* it is two (kill, remove the file), and a CLI can be killed between any  *)
(* two.  Requests are answered or fail; a request with an expired JWT is   *)
(* refused.  A process that ended stays a zombie, which still looks alive, *)
(* while the CLI that started it is open; later its pid may be reused.     *)
(***************************************************************************)
EXTENDS Integers, Sequences, SequencesExt, FiniteSets

CONSTANTS Clis, Users,
          MaxAgents,  \* bounds the agents that are ever registered
          Pids,       \* process ids
          None        \* nobody, nothing

ASSUME BoundAssumption == MaxAgents \in Nat
ASSUME NoneAssumption == None \notin Clis \union Users \union Pids \union Nat

Agents == 1 .. MaxAgents

VARIABLES cfg,       \* ~/.mydeploy/config.json, None when there is none
          owner,     \* whose each registered agent is
          pc,        \* where each CLI is
          ret,       \* where the agent screen and StartAgent return to
          form,      \* its agent screen
          mine,      \* the process it has just started
          proc,      \* the processes
          pidfile,   \* the pid in the file, None when there is none
          shown,     \* the pid on its home screen
          slipped,   \* history: starts and stops overlapped or broke off
          crossed    \* history: a sign-in under the agent screen of another CLI

screens == <<pc, ret, form, mine, shown>>
vars == <<cfg, owner, screens, proc, pidfile, slipped, crossed>>

Config == [user : Users \union {None}, agent : Agents \union {None},
           mode : {"local", "remote"}, valid : BOOLEAN]
NoForm == [state |-> "closed", loading |-> FALSE, asked |-> None, list |-> {}, regs |-> <<>>]
NoProc == [kind |-> "free", parent |-> None]

TypeOK ==
  /\ cfg \in Config \union {None}
  /\ owner \in [Agents -> Users \union {None}]
  /\ pc \in [Clis -> {"off", "top", "auth", "authed", "agents", "launch", "check",
                      "start", "pid", "build", "home", "remove"}]
  /\ ret \in [Clis -> {"top", "launch", "build", "remote", "home"}]
  /\ form \in [Clis -> [state : {"closed", "loading", "list", "create"}, loading : BOOLEAN,
                        asked : Users \union {None, "refused"}, list : SUBSET Agents,
                        regs : Seq(Users \union {"refused"})]]
  /\ mine \in [Clis -> Pids \union {None}]
  /\ proc \in [Pids -> [kind : {"free", "agent", "zombie", "other"}, parent : Clis \union {None}]]
  /\ pidfile \in Pids \union {None}
  /\ shown \in [Clis -> Pids \union {None}]
  /\ slipped \in BOOLEAN /\ crossed \in BOOLEAN
  /\ \A c \in Clis : mine[c] # None <=> pc[c] = "pid"

Init ==
  /\ cfg = None
  /\ owner = [a \in Agents |-> None]
  /\ pc = [c \in Clis |-> "off"] /\ ret = [c \in Clis |-> "top"]
  /\ form = [c \in Clis |-> NoForm]
  /\ mine = [c \in Clis |-> None]
  /\ proc = [p \in Pids |-> NoProc] /\ pidfile = None
  /\ shown = [c \in Clis |-> None]
  /\ slipped = FALSE /\ crossed = FALSE

Goto(c, at) == pc' = [pc EXCEPT ![c] = at]
Show(c, f) == form' = [form EXCEPT ![c] = f]

Registered == {a \in Agents : owner[a] # None}
OwnedBy(u) == {a \in Registered : owner[a] = u}
(* The agent that a registration makes: any one that there is not yet.     *)
NewAgent == CHOOSE a \in Agents : owner[a] = None

(* The JWT that a request carries: its user, refused when it has expired.  *)
Bearer == IF cfg.valid THEN cfg.user ELSE "refused"

-----------------------------------------------------------------------------
(* Processes.                                                              *)

IsRunning == pidfile # None /\ proc[pidfile].kind # "free"

(* What is left of a process that ended. *)
Ended(p) == IF proc[p].kind = "agent" /\ proc[p].parent # None
            THEN [proc[p] EXCEPT !.kind = "zombie"]
            ELSE IF proc[p].kind = "zombie" THEN proc[p] ELSE NoProc

Die(p) ==
  /\ proc[p].kind = "agent"
  /\ proc' = [proc EXCEPT ![p] = Ended(p)]
  /\ UNCHANGED <<cfg, owner, screens, pidfile, slipped, crossed>>

(* Some other program gets the pid that the file still names, and ends.    *)
Reuse ==
  /\ pidfile # None
  /\ \/ /\ proc[pidfile].kind = "free"
        /\ proc' = [proc EXCEPT ![pidfile].kind = "other"]
     \/ /\ proc[pidfile].kind = "other"
        /\ proc' = [proc EXCEPT ![pidfile].kind = "free"]
  /\ UNCHANGED <<cfg, owner, screens, pidfile, slipped, crossed>>

(* A CLI ends: its zombies go, its agent lives on without it.              *)
Orphaned(c) ==
  [p \in Pids |-> IF proc[p].parent # c THEN proc[p]
                  ELSE IF proc[p].kind = "zombie" THEN NoProc
                  ELSE [proc[p] EXCEPT !.parent = None]]
End(c) ==
  /\ Goto(c, "off")
  /\ Show(c, NoForm)
  /\ mine' = [mine EXCEPT ![c] = None] /\ shown' = [shown EXCEPT ![c] = None]
  /\ ret' = [ret EXCEPT ![c] = "top"]
  /\ proc' = Orphaned(c)

(* Between the test and the pid file, and between the kill and its removal. *)
InWindow(c) == pc[c] \in {"start", "pid", "remove"}
Overlap(c) == \E d \in Clis \ {c} : InWindow(d)

-----------------------------------------------------------------------------
(* Faulty variants, used to show that the properties can fail.             *)

(* Signing in changes the user of the configuration that is there.         *)
SignInOver(c, u) ==
  /\ pc[c] = "auth"
  /\ cfg' = IF cfg = None THEN [user |-> u, agent |-> None, mode |-> "local", valid |-> TRUE]
                          ELSE [cfg EXCEPT !.user = u, !.valid = TRUE]
  /\ Goto(c, "authed")
  /\ UNCHANGED <<owner, ret, form, mine, shown, proc, pidfile, slipped, crossed>>

(* A process is started without a look at the one that runs.               *)
CheckNothing(c) ==
  /\ pc[c] = "check"
  /\ Goto(c, "start")
  /\ slipped' = (slipped \/ Overlap(c))
  /\ UNCHANGED <<cfg, owner, ret, form, mine, shown, proc, pidfile, crossed>>

-----------------------------------------------------------------------------
(* The loop of main and the sign-in screen.                                *)

Open(c) ==
  /\ pc[c] = "off"
  /\ Goto(c, "top")
  /\ UNCHANGED <<cfg, owner, ret, form, mine, shown, proc, pidfile, slipped, crossed>>

(* NewAgentCreateModel and its Init, which asks for the user's agents.     *)
OpenForm(c, after) ==
  /\ Goto(c, "agents")
  /\ ret' = [ret EXCEPT ![c] = after]
  /\ Show(c, [NoForm EXCEPT !.state = "loading",
                            !.asked = IF cfg = None \/ cfg.user = None THEN None ELSE Bearer])

(* Without a token in the configuration the agent screen comes next.       *)
ToAgent(c) ==
  IF cfg.agent = None
  THEN OpenForm(c, "launch")
  ELSE Goto(c, "launch") /\ UNCHANGED <<ret, form>>

Loop(c) ==
  /\ pc[c] = "top"
  /\ IF cfg = None \/ ~cfg.valid
     THEN Goto(c, "auth") /\ UNCHANGED <<ret, form>>
     ELSE ToAgent(c)
  /\ UNCHANGED <<cfg, owner, mine, shown, proc, pidfile, slipped, crossed>>

(* Sign-in and sign-up alike save a new configuration: no agent, no mode.  *)
(* The load and the save of AgentCreated are one step too, though another  *)
(* CLI's sign-in can come between them: it then has crossed anyway.        *)
SignIn(c, u) ==
  /\ pc[c] = "auth"
  /\ cfg' = [user |-> u, agent |-> None, mode |-> "local", valid |-> TRUE]
  /\ crossed' = (crossed \/ \E d \in Clis \ {c} : pc[d] = "agents")
  /\ Goto(c, "authed")
  /\ UNCHANGED <<owner, ret, form, mine, shown, proc, pidfile, slipped>>

LeaveAuth(c) ==
  /\ pc[c] = "auth"
  /\ Goto(c, "authed")
  /\ UNCHANGED <<cfg, owner, ret, form, mine, shown, proc, pidfile, slipped, crossed>>

(* The configuration is loaded again; without one the program ends, with   *)
(* an expired one it goes on.                                              *)
Authed(c) ==
  /\ pc[c] = "authed"
  /\ IF cfg = None
     THEN End(c)
     ELSE ToAgent(c) /\ UNCHANGED <<mine, shown, proc>>
  /\ UNCHANGED <<cfg, owner, pidfile, slipped, crossed>>

-----------------------------------------------------------------------------
(* The agent screen.                                                       *)

AgentList(c) ==
  /\ form[c].asked # None
  /\ \/ /\ form[c].asked # "refused" /\ OwnedBy(form[c].asked) # {}
        /\ Show(c, [form[c] EXCEPT !.asked = None, !.loading = FALSE, !.state = "list",
                                   !.list = OwnedBy(form[c].asked)])
     \/ Show(c, [form[c] EXCEPT !.asked = None, !.loading = FALSE, !.state = "create"])
  /\ UNCHANGED <<cfg, owner, pc, ret, mine, shown, proc, pidfile, slipped, crossed>>

(* An agent of the list: the configuration is loaded, changed and saved.   *)
Select(c, a) ==
  /\ pc[c] = "agents" /\ form[c].state = "list" /\ ~form[c].loading
  /\ a \in form[c].list /\ cfg # None
  /\ cfg' = [cfg EXCEPT !.agent = a]
  /\ Goto(c, ret[c]) /\ Show(c, NoForm)
  /\ UNCHANGED <<owner, ret, mine, shown, proc, pidfile, slipped, crossed>>

SelectCreate(c) ==
  /\ pc[c] = "agents" /\ form[c].state = "list" /\ ~form[c].loading
  /\ Show(c, [form[c] EXCEPT !.state = "create"])
  /\ UNCHANGED <<cfg, owner, pc, ret, mine, shown, proc, pidfile, slipped, crossed>>

(* The inputs take Enter before the list has come, too.                    *)
Submit(c) ==
  /\ pc[c] = "agents" /\ form[c].state # "list" /\ ~form[c].loading
  /\ cfg # None /\ cfg.user # None
  /\ Cardinality(Registered) + Len(form[c].regs) < MaxAgents
  /\ Show(c, [form[c] EXCEPT !.loading = TRUE, !.regs = Append(@, Bearer)])
  /\ UNCHANGED <<cfg, owner, pc, ret, mine, shown, proc, pidfile, slipped, crossed>>

Answered(c, i) ==
  Show(c, [form[c] EXCEPT !.loading = FALSE, !.regs = RemoveAt(form[c].regs, i)])

(* One of the registrations in flight is answered.  Each has a machine id  *)
(* of its own, so it makes an agent of its own.                            *)
AgentCreated(c, i) ==
  /\ i \in DOMAIN form[c].regs
  /\ LET u == form[c].regs[i]
     IN  /\ u # "refused"
         /\ Registered # Agents
         /\ owner' = [owner EXCEPT ![NewAgent] = u]
         /\ \/ /\ cfg # None
               /\ cfg' = [cfg EXCEPT !.agent = NewAgent]
               /\ Goto(c, "check") /\ Show(c, NoForm)
            \/ (* no configuration any more, or the answer was lost *)
               /\ Answered(c, i)
               /\ UNCHANGED <<cfg, pc>>
  /\ UNCHANGED <<ret, mine, shown, proc, pidfile, slipped, crossed>>

CreateFails(c, i) ==
  /\ i \in DOMAIN form[c].regs
  /\ Answered(c, i)
  /\ UNCHANGED <<cfg, owner, pc, ret, mine, shown, proc, pidfile, slipped, crossed>>

LeaveForm(c) ==
  /\ pc[c] = "agents"
  /\ Goto(c, ret[c]) /\ Show(c, NoForm)
  /\ UNCHANGED <<cfg, owner, ret, mine, shown, proc, pidfile, slipped, crossed>>

-----------------------------------------------------------------------------
(* Starting the agent.                                                     *)

(* StartAgent returns: to main or to the form, which ignore an error, or to *)
(* the home screen, which looks again unless there was one.                *)
Return(c, ok) == Goto(c, IF ok /\ ret[c] = "home" THEN "build" ELSE ret[c])

(* main: the configuration is loaded once more, and must be there.         *)
Launch(c) ==
  /\ pc[c] = "launch"
  /\ IF cfg = None
     THEN End(c)
     ELSE /\ Goto(c, IF cfg.mode = "remote" THEN "build" ELSE "check")
          /\ ret' = [ret EXCEPT ![c] = IF cfg.mode = "remote" THEN "remote" ELSE "build"]
          /\ UNCHANGED <<form, mine, shown, proc>>
  /\ UNCHANGED <<cfg, owner, pidfile, slipped, crossed>>

(* Is it running?  Or there is no binary, no log file, no new process.     *)
Check(c) ==
  /\ pc[c] = "check"
  /\ \/ IsRunning /\ Return(c, TRUE) /\ UNCHANGED slipped
     \/ ~IsRunning /\ Goto(c, "start") /\ slipped' = (slipped \/ Overlap(c))
     \/ Return(c, FALSE) /\ UNCHANGED slipped
  /\ UNCHANGED <<cfg, owner, ret, form, mine, shown, proc, pidfile, crossed>>

Start(c, p) ==
  /\ pc[c] = "start" /\ proc[p].kind = "free"
  /\ proc' = [proc EXCEPT ![p] = [kind |-> "agent", parent |-> c]]
  /\ mine' = [mine EXCEPT ![c] = p]
  /\ Goto(c, "pid")
  /\ UNCHANGED <<cfg, owner, ret, form, shown, pidfile, slipped, crossed>>

(* Writing the file can fail, which leaves a process that no file names.   *)
WritePid(c) ==
  /\ pc[c] = "pid"
  /\ \/ pidfile' = mine[c] /\ Return(c, TRUE) /\ UNCHANGED slipped
     \/ slipped' = TRUE /\ Return(c, FALSE) /\ UNCHANGED pidfile
  /\ mine' = [mine EXCEPT ![c] = None]
  /\ UNCHANGED <<cfg, owner, ret, form, shown, proc, crossed>>

-----------------------------------------------------------------------------
(* The home screen.                                                        *)

Build(c) ==
  /\ pc[c] = "build"
  /\ shown' = [shown EXCEPT ![c] = IF IsRunning THEN pidfile ELSE None]
  /\ Goto(c, "home")
  /\ UNCHANGED <<cfg, owner, ret, form, mine, proc, pidfile, slipped, crossed>>

ChangeAgent(c) ==
  /\ pc[c] = "home"
  /\ OpenForm(c, "top")
  /\ UNCHANGED <<cfg, owner, mine, shown, proc, pidfile, slipped, crossed>>

(* The deployment screens, after which main starts its loop again.         *)
Deployments(c) ==
  /\ pc[c] = "home"
  /\ Goto(c, "top")
  /\ UNCHANGED <<cfg, owner, ret, form, mine, shown, proc, pidfile, slipped, crossed>>

StartAgent(c) ==
  /\ pc[c] = "home" /\ ret[c] # "remote" /\ shown[c] = None
  /\ Goto(c, "check") /\ ret' = [ret EXCEPT ![c] = "home"]
  /\ UNCHANGED <<cfg, owner, form, mine, shown, proc, pidfile, slipped, crossed>>

(* Stop kills what the pid file names, whatever it is.                     *)
Stop(c) ==
  /\ pc[c] = "home" /\ ret[c] # "remote" /\ shown[c] # None
  /\ IF IsRunning
     THEN /\ proc' = [proc EXCEPT ![pidfile] = Ended(pidfile)]
          /\ Goto(c, "remove")
          /\ slipped' = (slipped \/ Overlap(c))
          /\ UNCHANGED shown
     ELSE /\ shown' = [shown EXCEPT ![c] = None]
          /\ UNCHANGED <<proc, pc, slipped>>
  /\ UNCHANGED <<cfg, owner, ret, form, mine, pidfile, crossed>>

RemovePid(c) ==
  /\ pc[c] = "remove"
  /\ \/ pidfile' = None /\ shown' = [shown EXCEPT ![c] = None]
     \/ pidfile = None /\ UNCHANGED <<pidfile, shown>>
  /\ Goto(c, "home")
  /\ UNCHANGED <<cfg, owner, ret, form, mine, proc, slipped, crossed>>

Logout(c) ==
  /\ pc[c] = "home"
  /\ cfg' = None
  /\ End(c)
  /\ UNCHANGED <<owner, pidfile, slipped, crossed>>

(* The user quits, or the CLI is killed.                                   *)
Close(c) ==
  /\ pc[c] # "off"
  /\ slipped' = (slipped \/ pc[c] = "pid")
  /\ End(c)
  /\ UNCHANGED <<cfg, owner, pidfile, crossed>>

-----------------------------------------------------------------------------
Expire ==
  /\ cfg # None /\ cfg.valid
  /\ cfg' = [cfg EXCEPT !.valid = FALSE]
  /\ UNCHANGED <<owner, screens, proc, pidfile, slipped, crossed>>

(* The installer of a remote agent writes a configuration without a user.  *)
Install(u) ==
  /\ Registered # Agents
  /\ owner' = [owner EXCEPT ![NewAgent] = u]
  /\ cfg' = [user |-> None, agent |-> NewAgent, mode |-> "remote", valid |-> FALSE]
  /\ UNCHANGED <<screens, proc, pidfile, slipped, crossed>>

Screens(c) ==
  \/ Open(c) \/ Loop(c) \/ LeaveAuth(c) \/ Authed(c)
  \/ \E u \in Users : SignIn(c, u)
  \/ AgentList(c) \/ SelectCreate(c) \/ Submit(c) \/ LeaveForm(c)
  \/ \E a \in Agents : Select(c, a)
  \/ \E i \in Agents : AgentCreated(c, i) \/ CreateFails(c, i)
  \/ Launch(c) \/ Check(c) \/ WritePid(c)
  \/ \E p \in Pids : Start(c, p)
  \/ Build(c) \/ ChangeAgent(c) \/ Deployments(c) \/ StartAgent(c)
  \/ Stop(c) \/ RemovePid(c) \/ Logout(c) \/ Close(c)

Next ==
  \/ \E c \in Clis : Screens(c)
  \/ \E p \in Pids : Die(p)
  \/ \E u \in Users : Install(u)
  \/ Reuse \/ Expire

Spec == Init /\ [][Next]_vars

-----------------------------------------------------------------------------
(* Properties.                                                             *)

(* The agent of the configuration is the agent of its user, so that what   *)
(* he deploys goes to an agent of his, unless somebody signed in under the *)
(* open agent screen of another CLI.                                       *)
AgentBelongsToUser ==
  (cfg # None /\ ~crossed) =>
    (cfg.user # None /\ cfg.agent # None => owner[cfg.agent] = cfg.user)

(* Every agent process that the CLIs have started is the one of the pid    *)
(* file, or its pid is about to be written: it can be seen and stopped,    *)
(* and there is one at most.  It takes a start that is broken off, or one  *)
(* that overlaps with a start or stop of another CLI, to lose track.       *)
AgentsTracked ==
  ~slipped =>
    \A p \in Pids : proc[p].kind = "agent" =>
      /\ pidfile = p \/ \E c \in Clis : pc[c] = "pid" /\ mine[c] = p
      /\ \A q \in Pids : proc[q].kind = "agent" => q = p
=============================================================================
