--------------------------- MODULE DeployService ---------------------------
(***************************************************************************)
(* The deployments of deploy-service (internal/deploySvc): the background  *)
(* worker of Create, the Start, Stop, Update and Delete requests, the rows *)
(* of the deployments table, the in-memory cmdMap, and the containers that *)
(* the commands act on (internal/agent/handler.go).  Commands go through   *)
(* AgentInternal.SendCommand, of which CommandPort says all that a caller  *)
(* may rely on; AgentLink shows that the link implements it.               *)
(*                                                                         *)
(* A deployment has at most one container and is named like it.  Of a row  *)
(* the agent, the status and whether container_id is set are kept.  Each   *)
(* SQL statement is one step.  A request looks up the row and the owner of *)
(* its agent in one step: agents never change owner.                       *)
(***************************************************************************)
EXTENDS Naturals

CONSTANTS Deploys,  \* the deployments, each created at most once
          Reqs,     \* requests on existing deployments
          KindOf,   \* the kind of a request
          Agents,
          Home,     \* the agent a deployment is created on
          Faults,   \* of {"db", "crash"}: which failures happen
          Patient,  \* the requests of clients that wait for earlier operations
          None

Kinds == {"start", "stop", "delete", "update"}

ASSUME DeployAssumption ==
  /\ KindOf \in [Reqs -> Kinds]
  /\ Home \in [Deploys -> Agents]
  /\ Faults \subseteq {"db", "crash"}
  /\ Patient \subseteq Reqs
  /\ Deploys \cap Reqs = {}

VARIABLES
  rows,       \* the table: [agent, status, bound], or None
  cmdMap,     \* the deployments that have a deployTask
  worker,     \* where Create and its goroutine are
  phase,      \* where a request is
  verb,       \* the command it sends next, or waits for
  on, seen,   \* the deployment of a request, the row it has read
  reply,      \* the HTTP reply: "ok", "error", or "none" before it
  container,  \* the containers on the agents' machines
  call, ran, answer  \* of CommandPort

rowVars  == <<rows, cmdMap>>
reqVars  == <<phase, verb, on, seen, reply>>
portVars == <<call, ran, answer>>
vars     == <<rowVars, worker, reqVars, container, portVars>>

Verbs == {"start", "stop", "remove"}
Cmds  == (Deploys \X {"create"}) \cup (Reqs \X Verbs)

Port == INSTANCE CommandPort

Row == [agent : Agents, status : {"pending", "running", "exited", "error"},
        bound : BOOLEAN]
ASSUME NoneAssumption == None \notin Deploys \cup Row

Create(d) == <<d, "create">>
Sent(r)   == <<r, verb[r]>>
Active(r) == phase[r] \notin {"idle", "done"}
Exists(d) == container[d] \in {"created", "running", "exited"}

Init ==
  /\ rows = [d \in Deploys |-> None]
  /\ cmdMap = {}
  /\ worker = [d \in Deploys |-> "none"]
  /\ phase = [r \in Reqs |-> "idle"]
  /\ verb = [r \in Reqs |-> "none"]
  /\ on = [r \in Reqs |-> None]
  /\ seen = [r \in Reqs |-> None]
  /\ reply = [r \in Reqs |-> "none"]
  /\ container = [d \in Deploys |-> "none"]
  /\ Port!Init

\* An UPDATE of one column: no row, no effect; a failing database, no effect.
SetColumn(d, column, value) ==
  \/ rows' = IF rows[d] = None THEN rows ELSE [rows EXCEPT ![d][column] = value]
  \/ "db" \in Faults /\ UNCHANGED rows

WorkerGoes(d, to) == worker' = [worker EXCEPT ![d] = to]

-----------------------------------------------------------------------------
(* Faulty variants, used only to show that the properties see them.        *)

\* The worker takes every answer without an error for a success.
SettleUnchecked(d) ==
  /\ worker[d] = "calling" /\ answer[Create(d)] # "none"
  /\ WorkerGoes(d, IF answer[Create(d)] \in {"ok", "fail"} THEN "binding" ELSE "failing")
  /\ UNCHANGED <<rowVars, reqVars, container, portVars>>

\* The worker returns on an error without writing a status.
SettleSilently(d) ==
  /\ worker[d] = "calling" /\ answer[Create(d)] # "none"
  /\ WorkerGoes(d, IF answer[Create(d)] = "ok" THEN "binding" ELSE "clearing")
  /\ UNCHANGED <<rowVars, reqVars, container, portVars>>

\* The container id is stored by an INSERT ... ON CONFLICT UPDATE.
BindUpsert(d) ==
  /\ worker[d] = "binding"
  /\ rows' = [rows EXCEPT ![d] = [agent |-> Home[d], status |-> "pending", bound |-> TRUE]]
  /\ WorkerGoes(d, "marking")
  /\ UNCHANGED <<cmdMap, reqVars, container, portVars>>

\* The error path misses the deletion of the task.
MarkFailedAndLeave(d) ==
  /\ worker[d] = "failing"
  /\ SetColumn(d, "status", "error")
  /\ WorkerGoes(d, "finished")
  /\ UNCHANGED <<cmdMap, reqVars, container, portVars>>

\* The Stop handler is a copy of the Start handler.
StatusCopied(r) == "running"

\* rollbackContainer only stops the container.
AfterAnswerStopOnly(r) ==
  /\ phase' = [phase EXCEPT ![r] =
       IF KindOf[r] # "delete" /\ answer[Sent(r)] \notin {"ok", "fail"}
       THEN "done" ELSE "write"]
  /\ reply' = [reply EXCEPT ![r] = IF phase'[r] = "done" THEN "error" ELSE @]
  /\ UNCHANGED verb

-----------------------------------------------------------------------------
(* Create and its worker.                                                  *)

\* The INSERT does not name the status column: the table's default is stored.
Insert(d) ==
  /\ worker[d] = "none"
  /\ rows' = [rows EXCEPT ![d] =
       [agent |-> Home[d], status |-> "pending", bound |-> FALSE]]
  /\ WorkerGoes(d, "inserted")
  /\ UNCHANGED <<cmdMap, reqVars, container, portVars>>

StoreTask(d) ==
  /\ worker[d] = "inserted"
  /\ cmdMap' = cmdMap \cup {d}
  /\ WorkerGoes(d, "sending")
  /\ UNCHANGED <<rows, reqVars, container, portVars>>

SendCreate(d) ==
  /\ worker[d] = "sending"
  /\ Port!Call(Create(d))
  /\ WorkerGoes(d, "calling")
  /\ UNCHANGED <<rowVars, reqVars, container>>

\* SendCommand has returned.
Settle(d) ==
  /\ worker[d] = "calling" /\ answer[Create(d)] # "none"
  /\ WorkerGoes(d, IF answer[Create(d)] = "ok" THEN "binding" ELSE "failing")
  /\ UNCHANGED <<rowVars, reqVars, container, portVars>>

\* The errors of these three updates are dropped.
Bind(d) ==
  /\ worker[d] = "binding"
  /\ SetColumn(d, "bound", TRUE)
  /\ WorkerGoes(d, "marking")
  /\ UNCHANGED <<cmdMap, reqVars, container, portVars>>

MarkRunning(d) ==
  /\ worker[d] = "marking"
  /\ SetColumn(d, "status", "running")
  /\ WorkerGoes(d, "clearing")
  /\ UNCHANGED <<cmdMap, reqVars, container, portVars>>

MarkFailed(d) ==
  /\ worker[d] = "failing"
  /\ SetColumn(d, "status", "error")
  /\ WorkerGoes(d, "clearing")
  /\ UNCHANGED <<cmdMap, reqVars, container, portVars>>

\* The deferred deletion of the task.
ClearTask(d) ==
  /\ worker[d] = "clearing"
  /\ cmdMap' = cmdMap \ {d}
  /\ WorkerGoes(d, "finished")
  /\ UNCHANGED <<rows, reqVars, container, portVars>>

-----------------------------------------------------------------------------
(* Start, Stop, Delete, Update.                                            *)

Settled(d) == /\ worker[d] \in {"finished", "dead"}
              /\ \A r \in Reqs : on[r] = d => ~Active(r)

\* What a request does first, given the row: a command to a container, if the
\* row has one, or for Delete and Update at once the write.
FirstPhase(r, row) ==
  IF row = None THEN "done"
  ELSE IF KindOf[r] = "update" THEN "write"
  ELSE IF row.bound THEN "send"
  ELSE IF KindOf[r] = "delete" THEN "write" ELSE "done"

\* GetByID, then GetAgent and the comparison of owners.  A missing row ends
\* the request: the handler dereferences nil and net/http recovers.
Read(r, d) ==
  /\ phase[r] = "idle" /\ worker[d] # "none"
  /\ r \in Patient => Settled(d)
  /\ on' = [on EXCEPT ![r] = d]
  /\ seen' = [seen EXCEPT ![r] = rows[d]]
  /\ phase' = [phase EXCEPT ![r] = FirstPhase(r, rows[d])]
  /\ verb' = [verb EXCEPT ![r] = IF KindOf[r] = "start" THEN "start" ELSE "stop"]
  /\ reply' = [reply EXCEPT ![r] = IF phase'[r] = "done" THEN "error" ELSE "none"]
  /\ UNCHANGED <<rowVars, worker, container, portVars>>

\* The database or the look-up of the agent fails.
ReadFails(r, d) ==
  /\ "db" \in Faults
  /\ phase[r] = "idle" /\ worker[d] # "none"
  /\ on' = [on EXCEPT ![r] = d]
  /\ phase' = [phase EXCEPT ![r] = "done"]
  /\ reply' = [reply EXCEPT ![r] = "error"]
  /\ UNCHANGED <<rowVars, worker, verb, seen, container, portVars>>

SendVerb(r) ==
  /\ phase[r] = "send"
  /\ Port!Call(Sent(r))
  /\ phase' = [phase EXCEPT ![r] = "wait"]
  /\ UNCHANGED <<rowVars, worker, verb, on, seen, reply, container>>

\* SendCommand has returned.  Only its error is looked at, not the outcome;
\* Delete goes on after an error too, but without the second command.
AfterAnswer(r) ==
  LET error  == answer[Sent(r)] \notin {"ok", "fail"}
      second == KindOf[r] = "delete" /\ verb[r] = "stop" /\ ~error
  IN /\ phase' = [phase EXCEPT ![r] =
          IF second THEN "send"
          ELSE IF error /\ KindOf[r] # "delete" THEN "done" ELSE "write"]
     /\ verb' = IF second THEN [verb EXCEPT ![r] = "remove"] ELSE verb
     /\ reply' = [reply EXCEPT ![r] = IF phase'[r] = "done" THEN "error" ELSE @]

GetAnswer(r) ==
  /\ phase[r] = "wait" /\ answer[Sent(r)] # "none"
  /\ AfterAnswer(r)
  /\ UNCHANGED <<rowVars, worker, on, seen, container, portVars>>

StatusAfter(r) == IF KindOf[r] = "start" THEN "running" ELSE "exited"

\* The final statement of the request, by the id of the row.
Statement(r, d) ==
  \/ /\ KindOf[r] \in {"start", "stop"}
     /\ rows' = IF rows[d] = None THEN rows
                ELSE [rows EXCEPT ![d].status = StatusAfter(r)]
  \/ /\ KindOf[r] = "delete"
     /\ rows' = [rows EXCEPT ![d] = None]
  \/ /\ KindOf[r] = "update"
     /\ \E a \in Agents :
          rows' = IF rows[d] = None THEN rows ELSE [rows EXCEPT ![d].agent = a]

Reply(r, what) ==
  /\ phase' = [phase EXCEPT ![r] = "done"]
  /\ reply' = [reply EXCEPT ![r] = what]

WriteRow(r) ==
  /\ phase[r] = "write"
  /\ \/ Statement(r, on[r]) /\ Reply(r, "ok")
     \/ "db" \in Faults /\ UNCHANGED rows /\ Reply(r, "error")
  /\ UNCHANGED <<cmdMap, worker, verb, on, seen, container, portVars>>

-----------------------------------------------------------------------------
(* The agents and their Docker daemons.                                    *)

\* A create has made its container and goes on to start it.
MakeContainer(d) ==
  /\ call[Create(d)] # "idle" /\ answer[Create(d)] # "refused"
  /\ ran[Create(d)] = "none" /\ container[d] = "none"
  /\ container' = [container EXCEPT ![d] = "created"]
  /\ UNCHANGED <<rowVars, worker, reqVars, portVars>>

\* Docker can fail before and after the container exists.
RunCreate(d, v) ==
  /\ Port!Execute(Create(d), v)
  /\ v = "ok" => container[d] = "created"
  /\ container' = IF v = "ok" THEN [container EXCEPT ![d] = "running"] ELSE container
  /\ UNCHANGED <<rowVars, worker, reqVars>>

\* A container that is not on the agent, or a running one that is to be
\* removed, is refused by Docker; anything may fail.
Possible(r, w) == /\ seen[r].agent = Home[on[r]] /\ Exists(on[r])
                  /\ w = "remove" => container[on[r]] # "running"

\* The state of a container in state c after a command.
Effect(w, c) == CASE w = "start" -> "running"
                  [] w = "stop" -> IF c = "running" THEN "exited" ELSE c
                  [] w = "remove" -> "removed"

RunVerb(r, w, v) ==
  /\ Port!Execute(<<r, w>>, v)
  /\ v = "ok" => Possible(r, w)
  /\ container' = IF v = "ok" THEN [container EXCEPT ![on[r]] = Effect(w, @)]
                  ELSE container
  /\ UNCHANGED <<rowVars, worker, reqVars>>

\* SendCommand returns.  It refuses only what the agent never got.
Answered(k) ==
  /\ \/ Port!Return(k) \/ Port!GiveUp(k)
     \/ /\ call[k] = "open" /\ Port!Refuse(k)
        /\ \A d \in Deploys : k = Create(d) => container[d] = "none"
  /\ UNCHANGED <<rowVars, worker, reqVars, container>>

\* deploy-service stops and starts again; the agents go on.
Crash ==
  /\ "crash" \in Faults
  /\ worker' = [d \in Deploys |->
       IF worker[d] \in {"none", "finished"} THEN worker[d] ELSE "dead"]
  /\ phase' = [r \in Reqs |-> IF Active(r) THEN "done" ELSE phase[r]]
  /\ reply' = [r \in Reqs |-> IF Active(r) THEN "error" ELSE reply[r]]
  /\ cmdMap' = {}
  /\ Port!Crash
  /\ UNCHANGED <<rows, verb, on, seen, container>>

WorkerStep(d) ==
  \/ StoreTask(d) \/ SendCreate(d) \/ Settle(d)
  \/ Bind(d) \/ MarkRunning(d) \/ MarkFailed(d) \/ ClearTask(d)

Next ==
  \/ \E d \in Deploys : Insert(d) \/ WorkerStep(d) \/ MakeContainer(d)
  \/ \E d \in Deploys, v \in {"ok", "fail"} : RunCreate(d, v)
  \/ \E r \in Reqs, d \in Deploys : Read(r, d) \/ ReadFails(r, d)
  \/ \E r \in Reqs : SendVerb(r) \/ GetAnswer(r) \/ WriteRow(r)
  \/ \E r \in Reqs, w \in Verbs, v \in {"ok", "fail"} :
       RunVerb(r, w, v)
  \/ \E k \in Cmds : Answered(k)
  \/ Crash

\* The worker's goroutine is scheduled; every call returns (AgentLink).
Fairness == /\ \A d \in Deploys : WF_vars(WorkerStep(d))
            /\ \A k \in Cmds : WF_vars(Answered(k))

Safety == Init /\ [][Next]_vars
Spec   == Safety /\ Fairness
-----------------------------------------------------------------------------
(* Properties.                                                             *)

WorkerStates == {"none", "inserted", "sending", "calling", "binding", "marking",
                 "failing", "clearing", "finished", "dead"}

\* Every variable has its type.
TypeOK ==
  /\ rows \in [Deploys -> Row \cup {None}]
  /\ cmdMap \subseteq Deploys
  /\ worker \in [Deploys -> WorkerStates]
  /\ phase \in [Reqs -> {"idle", "send", "wait", "write", "done"}]
  /\ verb \in [Reqs -> Verbs \cup {"none"}]
  /\ on \in [Reqs -> Deploys \cup {None}]
  /\ seen \in [Reqs -> Row \cup {None}]
  /\ reply \in [Reqs -> {"none", "ok", "error"}]
  /\ container \in [Deploys -> {"none", "created", "running", "exited", "removed"}]
  /\ Port!TypeOK

\* A task is in cmdMap exactly while the worker of its deployment is alive:
\* none leaks on an error of the agent or the database, none survives a crash.
CmdMapExact ==
  \A d \in Deploys : d \in cmdMap <=>
    worker[d] \in {"sending", "calling", "binding", "marking", "failing", "clearing"}

\* A row that names a container names one that was really made for it, by a
\* create that the agent reported as successful.
BoundIsCreated ==
  \A d \in Deploys : rows[d] # None /\ rows[d].bound =>
    container[d] # "none" /\ answer[Create(d)] = "ok"

\* The strengthening of BoundIsCreated: an answer comes with the end of its call
\* and is the outcome of the command; a worker binds after a success only.
CreateInv ==
  /\ \A k \in Cmds : /\ answer[k] # "none" <=> call[k] = "closed"
                     /\ answer[k] = "ok" => ran[k] = "ok"
  /\ \A d \in Deploys :
       /\ ran[Create(d)] = "ok" => container[d] # "none"
       /\ worker[d] = "binding" => answer[Create(d)] = "ok"
       /\ rows[d] # None /\ rows[d].bound => answer[Create(d)] = "ok"

\* A deployment deleted while its worker or another request is under way stays
\* deleted: nothing they write later brings the row back.
StaysDeleted ==
  [][\A d \in Deploys : worker[d] # "none" /\ rows[d] = None => rows'[d] = None]_vars

\* Only clients that wait have used d, no statement failed, no crash happened,
\* and the commands that were sent for d have all returned with success.
Orderly(d) ==
  /\ Faults = {} /\ Settled(d)
  /\ \A r \in Reqs : on[r] = d => r \in Patient
  /\ answer[Create(d)] = "ok"
  /\ \A r \in Reqs, w \in Verbs :
       on[r] = d /\ call[<<r, w>>] # "idle" => answer[<<r, w>>] = "ok"

\* With orderly use the stored status of a deployment at rest is that of its
\* container, after any sequence of starts, stops and deletions.
StatusFollowsContainer ==
  \A d \in Deploys : rows[d] # None /\ Orderly(d) => rows[d].status = container[d]

\* With orderly use no container is lost: the one that exists is named by the
\* row of its deployment.
NoOrphan ==
  \A d \in Deploys : Exists(d) /\ Orderly(d) => rows[d] # None /\ rows[d].bound

\* Without a crash or a failing database, a deployment does not stay "pending".
CreateSettles ==
  Faults = {} => \A d \in Deploys :
    rows[d] # None ~> rows[d] = None \/ rows[d].status # "pending"
=============================================================================
