------------------------ MODULE DeployServiceProofs ------------------------
(* Proofs about DeployService, for any deployments, requests and agents    *)
(* and any of the failures.                                                *)
EXTENDS DeployService, TLAPS

-----------------------------------------------------------------------------
(* Types.                                                                  *)

\* Every step of the port keeps its types.
LEMMA PortTypes ==
  ASSUME Port!TypeOK,
         NEW k, NEW v \in {"ok", "fail"},
         \/ Port!Call(k) \/ Port!Return(k) \/ Port!GiveUp(k) \/ Port!Refuse(k)
         \/ Port!Execute(k, v) \/ Port!Crash
  PROVE  Port!TypeOK'
<1> USE DEF Port!TypeOK, Port!Outcomes, Port!Answers
<1>1. CASE Port!Call(k)
  BY <1>1 DEF Port!Call
<1>2. CASE Port!Return(k)
  BY <1>2 DEF Port!Return
<1>3. CASE Port!GiveUp(k) \/ Port!Refuse(k)
  BY <1>3 DEF Port!GiveUp, Port!Refuse
<1>4. CASE Port!Execute(k, v)
  BY <1>4 DEF Port!Execute
<1>5. CASE Port!Crash
  BY <1>5 DEF Port!Crash
<1> QED
  BY <1>1, <1>2, <1>3, <1>4, <1>5

\* A port that does not change keeps its types.
LEMMA PortStutters == Port!TypeOK /\ UNCHANGED portVars => Port!TypeOK'
  BY DEF portVars, Port!TypeOK

\* An update of a column keeps the types of the table.
LEMMA ColumnTypes ==
  ASSUME rows \in [Deploys -> Row \cup {None}],
         NEW d \in Deploys,
         \/ SetColumn(d, "bound", TRUE)
         \/ SetColumn(d, "status", "running") \/ SetColumn(d, "status", "error")
  PROVE  rows' \in [Deploys -> Row \cup {None}]
<1>1. rows[d] # None => rows[d] \in Row
  OBVIOUS
<1> QED
  BY <1>1 DEF SetColumn, Row

\* Every step of Create and its worker keeps the types.
LEMMA WorkerTypes ==
  ASSUME TypeOK, NEW d \in Deploys, Insert(d) \/ WorkerStep(d)
  PROVE  TypeOK'
<1> USE DEF TypeOK, WorkerStates, WorkerGoes, reqVars
<1>1. CASE Insert(d)
  <2>1. [agent |-> Home[d], status |-> "pending", bound |-> FALSE] \in Row
    BY DeployAssumption DEF Row
  <2> QED
    BY <1>1, <2>1, PortStutters DEF Insert, portVars
<1>2. CASE StoreTask(d) \/ ClearTask(d) \/ Settle(d)
  BY <1>2, PortStutters DEF StoreTask, ClearTask, Settle, rowVars, portVars
<1>3. CASE SendCreate(d)
  BY <1>3, PortTypes DEF SendCreate, rowVars
<1>4. CASE Bind(d) \/ MarkRunning(d) \/ MarkFailed(d)
  <2>1. rows' \in [Deploys -> Row \cup {None}]
    BY <1>4, ColumnTypes DEF Bind, MarkRunning, MarkFailed
  <2> QED
    BY <1>4, <2>1, PortStutters DEF Bind, MarkRunning, MarkFailed, portVars
<1> QED
  BY <1>1, <1>2, <1>3, <1>4 DEF WorkerStep

\* Every step of a request keeps the types.
LEMMA RequestTypes ==
  ASSUME TypeOK, NEW r \in Reqs,
         \/ \E d \in Deploys : Read(r, d) \/ ReadFails(r, d)
         \/ SendVerb(r) \/ GetAnswer(r) \/ WriteRow(r)
  PROVE  TypeOK'
<1> USE DEF TypeOK, rowVars, portVars
<1>1. ASSUME NEW d \in Deploys, Read(r, d) PROVE TypeOK'
  <2>1. FirstPhase(r, rows[d]) \in {"idle", "send", "wait", "write", "done"}
    BY DEF FirstPhase
  <2>2. phase' \in [Reqs -> {"idle", "send", "wait", "write", "done"}]
    BY <1>1, <2>1 DEF Read
  <2>3. verb' \in [Reqs -> Verbs \cup {"none"}]
    BY <1>1 DEF Read, Verbs
  <2>4. reply' \in [Reqs -> {"none", "ok", "error"}]
    BY <1>1 DEF Read
  <2> QED
    BY <1>1, <2>2, <2>3, <2>4, PortStutters DEF Read
<1>2. ASSUME NEW d \in Deploys, ReadFails(r, d) PROVE TypeOK'
  BY <1>2, PortStutters DEF ReadFails
<1>3. CASE SendVerb(r)
  BY <1>3, PortTypes DEF SendVerb
<1>4. CASE GetAnswer(r)
  <2>1. phase' \in [Reqs -> {"idle", "send", "wait", "write", "done"}]
    BY <1>4 DEF GetAnswer, AfterAnswer
  <2>2. verb' \in [Reqs -> Verbs \cup {"none"}]
    BY <1>4 DEF GetAnswer, AfterAnswer, Verbs
  <2>3. reply' \in [Reqs -> {"none", "ok", "error"}]
    BY <1>4 DEF GetAnswer, AfterAnswer
  <2> QED
    BY <1>4, <2>1, <2>2, <2>3, PortStutters DEF GetAnswer
<1>5. CASE WriteRow(r)
  <2>1. rows' \in [Deploys -> Row \cup {None}]
    <3>1. CASE UNCHANGED rows
      BY <3>1
    <3>2. CASE Statement(r, on[r])
      <4>1. on[r] \in Deploys /\ rows[on[r]] # None => rows[on[r]] \in Row
        OBVIOUS
      <4>2. StatusAfter(r) \in {"running", "exited"}
        BY DEF StatusAfter
      <4> QED
        BY <3>2, <4>1, <4>2 DEF Statement, Row
    <3> QED
      BY <1>5, <3>1, <3>2 DEF WriteRow
  <2>2. reply' \in [Reqs -> {"none", "ok", "error"}]
    BY <1>5 DEF WriteRow, Reply
  <2>3. phase' \in [Reqs -> {"idle", "send", "wait", "write", "done"}]
    BY <1>5 DEF WriteRow, Reply
  <2> QED
    BY <1>5, <2>1, <2>2, <2>3, PortStutters DEF WriteRow
<1> QED
  BY <1>1, <1>2, <1>3, <1>4, <1>5

\* Every step of an agent, of the port and every crash keeps the types.
LEMMA OutsideTypes ==
  ASSUME TypeOK,
         \/ \E d \in Deploys : MakeContainer(d)
         \/ \E d \in Deploys, v \in {"ok", "fail"} : RunCreate(d, v)
         \/ \E r \in Reqs, w \in Verbs, v \in {"ok", "fail"} : RunVerb(r, w, v)
         \/ \E k \in Cmds : Answered(k)
         \/ Crash
  PROVE  TypeOK'
<1> USE DEF TypeOK, rowVars, reqVars
<1>1. ASSUME NEW d \in Deploys, MakeContainer(d) PROVE TypeOK'
  BY <1>1, PortStutters DEF MakeContainer, portVars
<1>2. ASSUME NEW d \in Deploys, NEW v \in {"ok", "fail"}, RunCreate(d, v) PROVE TypeOK'
  BY <1>2, PortTypes DEF RunCreate
<1>3. ASSUME NEW r \in Reqs, NEW w \in Verbs, NEW v \in {"ok", "fail"}, RunVerb(r, w, v)
      PROVE TypeOK'
  <2>1. on[r] \in Deploys =>
          Effect(w, container[on[r]]) \in {"none", "created", "running", "exited", "removed"}
    BY DEF Effect, Verbs
  <2>2. container' \in [Deploys -> {"none", "created", "running", "exited", "removed"}]
    BY <1>3, <2>1 DEF RunVerb
  <2> QED
    BY <1>3, <2>2, PortTypes DEF RunVerb
<1>4. ASSUME NEW k \in Cmds, Answered(k) PROVE TypeOK'
  BY <1>4, PortTypes DEF Answered
<1>5. CASE Crash
  <2>1. Port!TypeOK'
    BY <1>5, PortTypes DEF Crash
  <2> QED
    BY <1>5, <2>1 DEF Crash, WorkerStates
<1> QED
  BY <1>1, <1>2, <1>3, <1>4, <1>5

\* Every step keeps the types.
LEMMA TypeStep == TypeOK /\ [Next]_vars => TypeOK'
<1> SUFFICES ASSUME TypeOK, [Next]_vars PROVE TypeOK'
  OBVIOUS
<1>1. CASE UNCHANGED vars
  BY <1>1, PortStutters DEF vars, rowVars, reqVars, portVars, TypeOK
<1> QED
  BY <1>1, WorkerTypes, RequestTypes, OutsideTypes DEF Next

\* Every reachable state of deploy-service is well typed.
THEOREM DeployTypeCorrect == Spec => []TypeOK
<1>1. Init => TypeOK
  BY DEF Init, TypeOK, WorkerStates, Port!Init, Port!TypeOK, Port!Answers, Port!Outcomes
<1> QED
  BY <1>1, TypeStep, PTL DEF Spec, Safety
-----------------------------------------------------------------------------
(* The tasks.                                                              *)

\* A step of a request or of an agent touches neither the tasks nor the workers.
LEMMA TasksApart ==
  ASSUME [Next]_vars,
         ~ \E d \in Deploys : Insert(d) \/ WorkerStep(d),
         ~ Crash
  PROVE  UNCHANGED <<cmdMap, worker>>
<1>1. ASSUME NEW r \in Reqs, NEW d \in Deploys, Read(r, d) \/ ReadFails(r, d)
      PROVE UNCHANGED <<cmdMap, worker>>
  BY <1>1 DEF Read, ReadFails, rowVars
<1>2. ASSUME NEW r \in Reqs, SendVerb(r) \/ GetAnswer(r) \/ WriteRow(r)
      PROVE UNCHANGED <<cmdMap, worker>>
  BY <1>2 DEF SendVerb, GetAnswer, WriteRow, rowVars
<1>3. ASSUME NEW d \in Deploys, NEW v, MakeContainer(d) \/ RunCreate(d, v)
      PROVE UNCHANGED <<cmdMap, worker>>
  BY <1>3 DEF MakeContainer, RunCreate, rowVars
<1>4. ASSUME NEW r \in Reqs, NEW w, NEW v, RunVerb(r, w, v)
      PROVE UNCHANGED <<cmdMap, worker>>
  BY <1>4 DEF RunVerb, rowVars
<1>5. ASSUME NEW k \in Cmds, Answered(k)
      PROVE UNCHANGED <<cmdMap, worker>>
  BY <1>5 DEF Answered, rowVars
<1>6. CASE UNCHANGED vars
  BY <1>6 DEF vars, rowVars
<1> QED
  BY <1>1, <1>2, <1>3, <1>4, <1>5, <1>6 DEF Next

\* Every step keeps cmdMap and the live workers in agreement.
LEMMA TasksStep == TypeOK /\ CmdMapExact /\ [Next]_vars => CmdMapExact'
<1> SUFFICES ASSUME TypeOK, CmdMapExact, [Next]_vars PROVE CmdMapExact'
  OBVIOUS
<1>1. ASSUME NEW d \in Deploys, Insert(d) \/ WorkerStep(d) PROVE CmdMapExact'
  <2>1. worker \in [Deploys -> WorkerStates]
    BY DEF TypeOK
  <2>2. CASE Insert(d)
    BY <2>1, <2>2 DEF Insert, WorkerGoes, CmdMapExact
  <2>3. CASE StoreTask(d)
    BY <2>1, <2>3 DEF StoreTask, WorkerGoes, CmdMapExact
  <2>4. CASE SendCreate(d)
    BY <2>1, <2>4 DEF SendCreate, WorkerGoes, CmdMapExact, rowVars
  <2>5. CASE Settle(d)
    BY <2>1, <2>5 DEF Settle, WorkerGoes, CmdMapExact, rowVars
  <2>6. CASE Bind(d) \/ MarkRunning(d) \/ MarkFailed(d)
    BY <2>1, <2>6 DEF Bind, MarkRunning, MarkFailed, WorkerGoes, CmdMapExact
  <2>7. CASE ClearTask(d)
    BY <2>1, <2>7 DEF ClearTask, WorkerGoes, CmdMapExact
  <2> QED
    BY <1>1, <2>2, <2>3, <2>4, <2>5, <2>6, <2>7 DEF WorkerStep
<1>2. CASE Crash
  BY <1>2 DEF Crash, CmdMapExact
<1>3. CASE UNCHANGED <<cmdMap, worker>>
  BY <1>3 DEF CmdMapExact
<1> QED
  BY <1>1, <1>2, <1>3, TasksApart

\* cmdMap holds exactly the tasks of the workers that are alive: no error of
\* the agent or the database makes one leak, and none survives a crash.
THEOREM TasksExact == Spec => []CmdMapExact
<1>1. Init => CmdMapExact
  BY DEF Init, CmdMapExact
<1> QED
  BY <1>1, TasksStep, DeployTypeCorrect, PTL DEF Spec, Safety

-----------------------------------------------------------------------------
(* Deleted rows.                                                           *)

\* An update of a column makes no row, and binds no row unless it is told to.
LEMMA ColumnKeeps ==
  ASSUME rows \in [Deploys -> Row \cup {None}],
         NEW d \in Deploys, NEW e \in Deploys,
         \/ SetColumn(d, "bound", TRUE)
         \/ SetColumn(d, "status", "running") \/ SetColumn(d, "status", "error")
  PROVE  /\ rows[e] = None => rows'[e] = None
         /\ rows'[e] # None /\ rows'[e].bound =>
              rows[e] # None /\ (rows[e].bound \/ (e = d /\ SetColumn(d, "bound", TRUE)))
<1>1. rows[d] # None => rows[d] \in Row
  OBVIOUS
<1> QED
  BY <1>1 DEF SetColumn, Row

\* The final statement of a request makes no row and binds none.
LEMMA StatementKeeps ==
  ASSUME rows \in [Deploys -> Row \cup {None}],
         NEW r \in Reqs, NEW d, NEW e \in Deploys, Statement(r, d)
  PROVE  /\ rows[e] = None => rows'[e] = None
         /\ rows'[e] # None /\ rows'[e].bound => rows[e] # None /\ rows[e].bound
<1>1. d \in Deploys /\ rows[d] # None => rows[d] \in Row
  OBVIOUS
<1> QED
  BY <1>1 DEF Statement, Row, StatusAfter

\* No step but the worker's and a request's last one touches the table.
LEMMA RowsApart ==
  ASSUME [Next]_vars,
         ~ \E d \in Deploys : Insert(d) \/ Bind(d) \/ MarkRunning(d) \/ MarkFailed(d),
         ~ \E r \in Reqs : WriteRow(r)
  PROVE  UNCHANGED rows
<1>1. ASSUME NEW d \in Deploys, StoreTask(d) \/ SendCreate(d) \/ Settle(d) \/ ClearTask(d)
      PROVE UNCHANGED rows
  BY <1>1 DEF StoreTask, SendCreate, Settle, ClearTask, rowVars
<1>2. ASSUME NEW r \in Reqs, NEW d \in Deploys, Read(r, d) \/ ReadFails(r, d)
      PROVE UNCHANGED rows
  BY <1>2 DEF Read, ReadFails, rowVars
<1>3. ASSUME NEW r \in Reqs, SendVerb(r) \/ GetAnswer(r)
      PROVE UNCHANGED rows
  BY <1>3 DEF SendVerb, GetAnswer, rowVars
<1>4. ASSUME NEW d \in Deploys, NEW v, MakeContainer(d) \/ RunCreate(d, v)
      PROVE UNCHANGED rows
  BY <1>4 DEF MakeContainer, RunCreate, rowVars
<1>5. ASSUME NEW r \in Reqs, NEW w, NEW v, RunVerb(r, w, v)
      PROVE UNCHANGED rows
  BY <1>5 DEF RunVerb, rowVars
<1>6. ASSUME NEW k \in Cmds, Answered(k) PROVE UNCHANGED rows
  BY <1>6 DEF Answered, rowVars
<1>7. CASE Crash \/ UNCHANGED vars
  BY <1>7 DEF Crash, vars, rowVars
<1> QED
  BY <1>1, <1>2, <1>3, <1>4, <1>5, <1>6, <1>7 DEF Next, WorkerStep

\* A deployment that was deleted stays deleted, whatever its worker and the
\* other requests still write.
THEOREM DeletedStaysDeleted == Spec => StaysDeleted
<1>1. ASSUME TypeOK, [Next]_vars,
             NEW d \in Deploys, worker[d] # "none", rows[d] = None
      PROVE rows'[d] = None
  <2>0. rows \in [Deploys -> Row \cup {None}]
    BY <1>1 DEF TypeOK
  <2>1. ASSUME NEW e \in Deploys, Insert(e) PROVE rows'[d] = None
    BY <1>1, <2>0, <2>1 DEF Insert
  <2>2. ASSUME NEW e \in Deploys, Bind(e) \/ MarkRunning(e) \/ MarkFailed(e)
        PROVE rows'[d] = None
    BY <1>1, <2>0, <2>2, ColumnKeeps DEF Bind, MarkRunning, MarkFailed
  <2>3. ASSUME NEW r \in Reqs, WriteRow(r) PROVE rows'[d] = None
    BY <1>1, <2>0, <2>3, StatementKeeps DEF WriteRow
  <2> QED
    BY <1>1, <2>1, <2>2, <2>3, RowsApart
<1>2. TypeOK /\ [Next]_vars =>
        [\A d \in Deploys : worker[d] # "none" /\ rows[d] = None => rows'[d] = None]_vars
  BY <1>1
<1> QED
  BY <1>2, DeployTypeCorrect, PTL DEF Spec, Safety, StaysDeleted

-----------------------------------------------------------------------------
(* Bound rows.                                                             *)

\* What the port guarantees of an answer.
Answers ==
  \A k \in Cmds : /\ answer[k] # "none" <=> call[k] = "closed"
                  /\ answer[k] = "ok" => ran[k] = "ok"

\* Every step of the port keeps that, and keeps an answer once it is given.
LEMMA PortAnswers ==
  ASSUME Port!TypeOK, Answers, NEW j \in Cmds,
         NEW k, NEW v \in {"ok", "fail"},
         \/ Port!Call(k) \/ Port!Return(k) \/ Port!GiveUp(k)
         \/ call[k] = "open" /\ Port!Refuse(k)
         \/ Port!Execute(k, v) \/ Port!Crash \/ UNCHANGED portVars
  PROVE  /\ answer'[j] # "none" <=> call'[j] = "closed"
         /\ answer'[j] = "ok" => ran'[j] = "ok"
         /\ answer[j] # "none" => answer'[j] = answer[j]
<1> USE DEF Port!TypeOK, Port!Outcomes, Port!Answers, Answers
<1>1. CASE Port!Call(k)
  BY <1>1 DEF Port!Call
<1>2. CASE Port!Return(k)
  BY <1>2 DEF Port!Return
<1>3. CASE Port!GiveUp(k)
  BY <1>3 DEF Port!GiveUp
<1>4. CASE call[k] = "open" /\ Port!Refuse(k)
  BY <1>4 DEF Port!Refuse
<1>5. CASE Port!Execute(k, v)
  BY <1>5 DEF Port!Execute
<1>6. CASE Port!Crash
  BY <1>6 DEF Port!Crash
<1>7. CASE UNCHANGED portVars
  BY <1>7 DEF portVars
<1> QED
  BY <1>1, <1>2, <1>3, <1>4, <1>5, <1>6, <1>7
\* A step of a service changes the port by one of the port's steps.
LEMMA PortSteps ==
  ASSUME [Next]_vars
  PROVE  \E k, v :
           /\ v \in {"ok", "fail"}
           /\ \/ Port!Call(k) \/ Port!Return(k) \/ Port!GiveUp(k)
              \/ call[k] = "open" /\ Port!Refuse(k)
              \/ Port!Execute(k, v) \/ Port!Crash \/ UNCHANGED portVars
<1> DEFINE Step(k, v) ==
      /\ v \in {"ok", "fail"}
      /\ \/ Port!Call(k) \/ Port!Return(k) \/ Port!GiveUp(k)
         \/ call[k] = "open" /\ Port!Refuse(k)
         \/ Port!Execute(k, v) \/ Port!Crash \/ UNCHANGED portVars
<1>1. ASSUME NEW d \in Deploys, Insert(d) \/ WorkerStep(d) PROVE \E k, v : Step(k, v)
  <2>1. Port!Call(Create(d)) \/ UNCHANGED portVars
    BY <1>1 DEF Insert, WorkerStep, StoreTask, SendCreate, Settle, Bind, MarkRunning,
       MarkFailed, ClearTask
  <2>2. Step(Create(d), "ok")
    BY <2>1
  <2> QED
    BY <2>2
<1>2. ASSUME NEW d \in Deploys, MakeContainer(d) PROVE \E k, v : Step(k, v)
  <2>1. Step(Create(d), "ok")
    BY <1>2 DEF MakeContainer
  <2> QED
    BY <2>1
<1>3. ASSUME NEW d \in Deploys, NEW v \in {"ok", "fail"}, RunCreate(d, v)
      PROVE \E k, u : Step(k, u)
  <2>1. Step(Create(d), v)
    BY <1>3 DEF RunCreate
  <2> QED
    BY <2>1
<1>4. ASSUME NEW r \in Reqs, NEW d \in Deploys, Read(r, d) \/ ReadFails(r, d)
      PROVE \E k, v : Step(k, v)
  <2>1. Step(Create(d), "ok")
    BY <1>4 DEF Read, ReadFails
  <2> QED
    BY <2>1
<1>5. ASSUME NEW r \in Reqs, SendVerb(r) \/ GetAnswer(r) \/ WriteRow(r)
      PROVE \E k, v : Step(k, v)
  <2>1. Step(Sent(r), "ok")
    BY <1>5 DEF SendVerb, GetAnswer, WriteRow
  <2> QED
    BY <2>1
<1>6. ASSUME NEW r \in Reqs, NEW w, NEW v \in {"ok", "fail"}, RunVerb(r, w, v)
      PROVE \E k, u : Step(k, u)
  <2>1. Step(<<r, w>>, v)
    BY <1>6 DEF RunVerb
  <2> QED
    BY <2>1
<1>7. ASSUME NEW k \in Cmds, Answered(k) PROVE \E j, v : Step(j, v)
  <2>1. Step(k, "ok")
    BY <1>7 DEF Answered
  <2> QED
    BY <2>1
<1>8. CASE Crash \/ UNCHANGED vars
  <2>1. Step(None, "ok")
    BY <1>8 DEF Crash, vars, portVars
  <2> QED
    BY <2>1
<1>9. \E k, v : Step(k, v)
  BY <1>1, <1>2, <1>3, <1>4, <1>5, <1>6, <1>7, <1>8 DEF Next, Verbs
<1> QED
  BY <1>9

\* A create that ends with success leaves a running container; no container
\* that was made is unmade.
LEMMA ContainerStep ==
  ASSUME TypeOK, [Next]_vars, NEW d \in Deploys
  PROVE  /\ container[d] # "none" => container'[d] # "none"
         /\ ran'[Create(d)] = "ok" => ran[Create(d)] = "ok" \/ container'[d] # "none"
<1>0. /\ Create(d) \in Cmds
      /\ container \in [Deploys -> {"none", "created", "running", "exited", "removed"}]
      /\ ran \in [Cmds -> {"ok", "fail", "none"}]
  BY DEF TypeOK, Create, Cmds, Port!TypeOK, Port!Outcomes
<1>1. ASSUME NEW e \in Deploys, MakeContainer(e)
      PROVE UNCHANGED ran /\ (container[d] # "none" => container'[d] # "none")
  BY <1>0, <1>1 DEF MakeContainer, portVars
<1>2. ASSUME NEW e \in Deploys, NEW v \in {"ok", "fail"}, RunCreate(e, v)
      PROVE /\ container[d] # "none" => container'[d] # "none"
            /\ ran'[Create(d)] = "ok" => ran[Create(d)] = "ok" \/ container'[d] # "none"
  <2>1. container[d] # "none" => container'[d] # "none"
    BY <1>0, <1>2 DEF RunCreate
  <2>2. CASE e = d
    BY <1>0, <1>2, <2>2 DEF RunCreate, Port!Execute
  <2>3. CASE e # d
    <3>1. Create(e) # Create(d)
      BY <2>3 DEF Create
    <3> QED
      BY <1>0, <1>2, <2>1, <3>1 DEF RunCreate, Port!Execute
  <2> QED
    BY <2>1, <2>2, <2>3
<1>3. ASSUME NEW r \in Reqs, NEW w \in Verbs, NEW v \in {"ok", "fail"}, RunVerb(r, w, v)
      PROVE /\ container[d] # "none" => container'[d] # "none"
            /\ ran'[Create(d)] = "ok" => ran[Create(d)] = "ok"
  <2>1. Exists(on[r]) => Effect(w, container[on[r]]) # "none"
    BY DEF Exists, Effect, Verbs
  <2>2. <<r, w>> # Create(d)
    BY DEF Create, Verbs
  <2> QED
    BY <1>0, <1>3, <2>1, <2>2 DEF RunVerb, Possible, Port!Execute
<1>4. ASSUME UNCHANGED <<container, ran>>
      PROVE /\ container[d] # "none" => container'[d] # "none"
            /\ ran'[Create(d)] = "ok" => ran[Create(d)] = "ok"
  BY <1>4
<1>5. ASSUME NEW e \in Deploys, Insert(e) \/ WorkerStep(e)
      PROVE UNCHANGED <<container, ran>>
  BY <1>5 DEF Insert, WorkerStep, StoreTask, SendCreate, Settle, Bind, MarkRunning,
     MarkFailed, ClearTask, portVars, Port!Call
<1>6. ASSUME NEW r \in Reqs, NEW e \in Deploys, Read(r, e) \/ ReadFails(r, e)
      PROVE UNCHANGED <<container, ran>>
  BY <1>6 DEF Read, ReadFails, portVars
<1>7. ASSUME NEW r \in Reqs, SendVerb(r) \/ GetAnswer(r) \/ WriteRow(r)
      PROVE UNCHANGED <<container, ran>>
  BY <1>7 DEF SendVerb, GetAnswer, WriteRow, portVars, Port!Call
<1>8. ASSUME NEW k \in Cmds, Answered(k) PROVE UNCHANGED <<container, ran>>
  BY <1>8 DEF Answered, Port!Return, Port!GiveUp, Port!Refuse
<1>9. CASE Crash \/ UNCHANGED vars
  BY <1>9 DEF Crash, Port!Crash, vars, portVars
<1> QED
  BY <1>1, <1>2, <1>3, <1>4, <1>5, <1>6, <1>7, <1>8, <1>9 DEF Next
\* A worker comes to bind only after a success.
LEMMA BindingStep ==
  ASSUME TypeOK, [Next]_vars, NEW d \in Deploys, worker'[d] = "binding"
  PROVE  worker[d] = "binding" \/ answer[Create(d)] = "ok"
<1>0. worker \in [Deploys -> WorkerStates]
  BY DEF TypeOK
<1>1. ASSUME NEW e \in Deploys, Settle(e)
      PROVE worker[d] = "binding" \/ answer[Create(d)] = "ok"
  BY <1>0, <1>1 DEF Settle, WorkerGoes
<1>2. ASSUME NEW e \in Deploys,
             \/ Insert(e) \/ StoreTask(e) \/ SendCreate(e) \/ Bind(e)
             \/ MarkRunning(e) \/ MarkFailed(e) \/ ClearTask(e)
      PROVE worker[d] = "binding"
  BY <1>0, <1>2 DEF Insert, StoreTask, SendCreate, Bind, MarkRunning, MarkFailed,
     ClearTask, WorkerGoes
<1>3. CASE Crash
  BY <1>3 DEF Crash
<1>4. CASE UNCHANGED <<cmdMap, worker>>
  BY <1>4
<1> QED
  BY <1>1, <1>2, <1>3, <1>4, TasksApart DEF WorkerStep

\* A row comes to name a container only by a worker that binds.
LEMMA BoundStep ==
  ASSUME TypeOK, [Next]_vars, NEW d \in Deploys, rows'[d] # None, rows'[d].bound
  PROVE  (rows[d] # None /\ rows[d].bound) \/ worker[d] = "binding"
<1>0. rows \in [Deploys -> Row \cup {None}]
  BY DEF TypeOK
<1>1. ASSUME NEW e \in Deploys, Insert(e) PROVE rows[d] # None /\ rows[d].bound
  BY <1>0, <1>1 DEF Insert
<1>2. ASSUME NEW e \in Deploys, Bind(e)
      PROVE (rows[d] # None /\ rows[d].bound) \/ worker[d] = "binding"
  BY <1>0, <1>2, ColumnKeeps DEF Bind
<1>3. ASSUME NEW e \in Deploys, MarkRunning(e) \/ MarkFailed(e)
      PROVE rows[d] # None /\ rows[d].bound
  <2>1. rows[e] # None => rows[e] \in Row
    BY <1>0
  <2> QED
    BY <1>0, <1>3, <2>1 DEF MarkRunning, MarkFailed, SetColumn, Row
<1>4. ASSUME NEW r \in Reqs, WriteRow(r) PROVE rows[d] # None /\ rows[d].bound
  BY <1>0, <1>4, StatementKeeps DEF WriteRow
<1>5. ASSUME UNCHANGED rows PROVE rows[d] # None /\ rows[d].bound
  BY <1>5
<1> QED
  BY <1>1, <1>2, <1>3, <1>4, <1>5, RowsApart

\* Every step keeps the invariant of creates.
LEMMA CreateStep == TypeOK /\ CreateInv /\ [Next]_vars => CreateInv'
<1> SUFFICES ASSUME TypeOK, CreateInv, [Next]_vars PROVE CreateInv'
  OBVIOUS
<1>1. Port!TypeOK /\ Answers
  BY DEF TypeOK, CreateInv, Answers
<1>2. ASSUME NEW j \in Cmds
      PROVE /\ answer'[j] # "none" <=> call'[j] = "closed"
            /\ answer'[j] = "ok" => ran'[j] = "ok"
            /\ answer[j] # "none" => answer'[j] = answer[j]
  BY <1>1, PortSteps, PortAnswers
<1>3. ASSUME NEW d \in Deploys
      PROVE /\ ran'[Create(d)] = "ok" => container'[d] # "none"
            /\ worker'[d] = "binding" => answer'[Create(d)] = "ok"
            /\ rows'[d] # None /\ rows'[d].bound => answer'[Create(d)] = "ok"
  <2>1. Create(d) \in Cmds
    BY DEF Create, Cmds
  <2>2. answer[Create(d)] = "ok" => answer'[Create(d)] = "ok"
    BY <1>2, <2>1
  <2>3. /\ ran[Create(d)] = "ok" => container[d] # "none"
        /\ worker[d] = "binding" => answer[Create(d)] = "ok"
        /\ rows[d] # None /\ rows[d].bound => answer[Create(d)] = "ok"
    BY DEF CreateInv
  <2>4. ran'[Create(d)] = "ok" => container'[d] # "none"
    BY <2>3, ContainerStep
  <2>5. worker'[d] = "binding" => answer'[Create(d)] = "ok"
    BY <2>2, <2>3, BindingStep
  <2>6. rows'[d] # None /\ rows'[d].bound => answer'[Create(d)] = "ok"
    BY <2>2, <2>3, BoundStep
  <2> QED
    BY <2>4, <2>5, <2>6
<1>4. \A d \in Deploys : Create(d)' = Create(d)
  BY DEF Create
<1> QED
  BY <1>2, <1>3, <1>4 DEF CreateInv

\* A row that names a container names one that was made, by a create that the
\* agent reported as successful.
THEOREM BoundRowsAreCreated == Spec => []BoundIsCreated
<1>1. Init => CreateInv
  BY DEF Init, CreateInv, Port!Init, Create, Cmds
<1>2. CreateInv => BoundIsCreated
  BY DEF CreateInv, BoundIsCreated, Create, Cmds
<1> QED
  BY <1>1, <1>2, CreateStep, DeployTypeCorrect, PTL DEF Spec, Safety

-----------------------------------------------------------------------------
(* Orderly use.                                                            *)

\* A command that nobody has asked for has not run; a request waits for the
\* command it has sent last, and has sent nothing before it has read its row.
CallsInv ==
  /\ \A k \in Cmds : call[k] = "idle" => ran[k] = "none"
  /\ \A r \in Reqs, w \in Verbs :
       /\ call[<<r, w>>] = "open" => phase[r] = "wait" /\ verb[r] = w
       /\ phase[r] = "idle" => on[r] = None /\ call[<<r, w>>] = "idle"

\* So far the use of d was orderly: what Orderly asks at the end, without that
\* anything has ended.
Clean(d) ==
  /\ \A r \in Reqs : on[r] = d => r \in Patient
  /\ answer[Create(d)] \in {"none", "ok"}
  /\ \A r \in Reqs, w \in Verbs : on[r] = d => answer[<<r, w>>] \in {"none", "ok"}

Bound(d) == rows[d] # None /\ rows[d].bound
Exact(d) == rows[d].status = container[d] /\ container[d] \in {"running", "exited"}
Rest(d)  == Bound(d) /\ Exact(d)
Gone(d)  == rows[d] = None /\ container[d] = "removed"

\* Where Create is, and what it has done to the row and the container.
Fresh(d) == rows[d] # None /\ rows[d].status = "pending"
Created(d) ==
  /\ worker[d] = "none" => rows[d] = None
  /\ worker[d] \in {"inserted", "sending", "calling", "binding"} => Fresh(d)
  /\ worker[d] \in {"none", "inserted", "sending"} =>
       container[d] = "none" /\ call[Create(d)] = "idle"
  /\ worker[d] = "calling" =>
       /\ ran[Create(d)] = "none" => container[d] \in {"none", "created"}
       /\ ran[Create(d)] = "ok" => container[d] = "running"
  /\ worker[d] \in {"binding", "marking", "clearing", "finished"} => answer[Create(d)] = "ok"
  /\ worker[d] \in {"binding", "marking"} => container[d] = "running"
  /\ worker[d] = "marking" => Bound(d)
  /\ worker[d] = "clearing" => Rest(d)
  /\ worker[d] \notin {"failing", "dead"}

\* What the verb of a request finds, and what it makes of it.
Finds(w, d) == IF w = "remove" THEN container[d] = "exited" ELSE Exact(d)
Made(w) == CASE w = "start" -> "running" [] w = "stop" -> "exited" [] w = "remove" -> "removed"

\* What a request has done, at each of its phases.
Serves(r, d) ==
  /\ Bound(d)
  /\ KindOf[r] = "update" => phase[r] = "write"
  /\ phase[r] \in {"send", "wait"} =>
       verb[r] \in CASE KindOf[r] = "start" -> {"start"}
                     [] KindOf[r] = "stop" -> {"stop"}
                     [] OTHER -> {"stop", "remove"}
  /\ phase[r] = "send" => Finds(verb[r], d)
  /\ phase[r] = "wait" =>
       /\ ran[Sent(r)] = "none" => Finds(verb[r], d)
       /\ ran[Sent(r)] = "ok" => container[d] = Made(verb[r])
  /\ phase[r] = "write" =>
       CASE KindOf[r] = "start" -> container[d] = "running"
         [] KindOf[r] = "stop" -> container[d] = "exited"
         [] KindOf[r] = "delete" -> container[d] = "removed"
         [] OTHER -> Exact(d)

\* One request at a time, after Create; between them the row is right.
OrderInv(d) ==
  /\ Created(d)
  /\ worker[d] # "finished" => \A r \in Reqs : on[r] # d
  /\ worker[d] = "finished" =>
       \/ Rest(d) \/ Gone(d)
       \/ \E r \in Reqs : on[r] = d /\ Active(r)
  /\ \A r \in Reqs : on[r] = d /\ Active(r) =>
       /\ Serves(r, d)
       /\ \A q \in Reqs \ {r} : on[q] = d => ~Active(q)
UseInv == Faults = {} => \A d \in Deploys : Clean(d) => OrderInv(d)

\* Every step keeps the invariant of calls.
LEMMA CallsStep == TypeOK /\ CreateInv /\ CallsInv /\ [Next]_vars => CallsInv'
<1> SUFFICES ASSUME TypeOK, CreateInv, CallsInv, [Next]_vars PROVE CallsInv'
  OBVIOUS
<1>0. /\ \A k \in Cmds : answer[k] # "none" <=> call[k] = "closed"
      /\ \A r \in Reqs, w \in Verbs : <<r, w>> \in Cmds
      /\ \A d \in Deploys : Create(d) \in Cmds
      /\ \A d \in Deploys, r \in Reqs, w \in Verbs : Create(d) # <<r, w>>
  BY DEF CreateInv, Cmds, Create, Verbs
<1>t. /\ call \in [Cmds -> {"idle", "open", "closed"}]
      /\ ran \in [Cmds -> {"ok", "fail", "none"}]
      /\ phase \in [Reqs -> {"idle", "send", "wait", "write", "done"}]
      /\ verb \in [Reqs -> Verbs \cup {"none"}]
      /\ on \in [Reqs -> Deploys \cup {None}]
  BY DEF TypeOK, Port!TypeOK, Port!Outcomes
<1>1. ASSUME NEW d \in Deploys, Insert(d) \/ WorkerStep(d) PROVE CallsInv'
  <2>1. Port!Call(Create(d)) \/ UNCHANGED portVars
    BY <1>1 DEF Insert, WorkerStep, StoreTask, SendCreate, Settle, Bind, MarkRunning,
       MarkFailed, ClearTask
  <2>2. UNCHANGED reqVars
    BY <1>1 DEF Insert, WorkerStep, StoreTask, SendCreate, Settle, Bind, MarkRunning,
       MarkFailed, ClearTask
  <2> QED
    BY <1>0, <1>t, <2>1, <2>2 DEF CallsInv, Port!Call, portVars, reqVars
<1>2. ASSUME NEW d \in Deploys, MakeContainer(d) PROVE CallsInv'
  BY <1>2 DEF MakeContainer, CallsInv, portVars, reqVars
<1>3. ASSUME NEW d \in Deploys, NEW v \in {"ok", "fail"}, RunCreate(d, v) PROVE CallsInv'
  BY <1>t, <1>3 DEF RunCreate, Port!Execute, CallsInv, reqVars
<1>4. ASSUME NEW r \in Reqs, NEW d \in Deploys, Read(r, d) PROVE CallsInv'
  <2>1. FirstPhase(r, rows[d]) # "idle"
    BY DEF FirstPhase
  <2> QED
    BY <1>t, <1>4, <2>1 DEF Read, CallsInv, portVars
<1>5. ASSUME NEW r \in Reqs, NEW d \in Deploys, ReadFails(r, d) PROVE CallsInv'
  BY <1>t, <1>5 DEF ReadFails, CallsInv, portVars
<1>6. ASSUME NEW r \in Reqs, SendVerb(r) PROVE CallsInv'
  BY <1>0, <1>t, <1>6 DEF SendVerb, Sent, Port!Call, CallsInv
<1>7. ASSUME NEW r \in Reqs, GetAnswer(r) PROVE CallsInv'
  BY <1>0, <1>t, <1>7 DEF GetAnswer, AfterAnswer, Sent, CallsInv, portVars
<1>8. ASSUME NEW r \in Reqs, WriteRow(r) PROVE CallsInv'
  BY <1>t, <1>8 DEF WriteRow, Reply, CallsInv, portVars
<1>9. ASSUME NEW r \in Reqs, NEW w \in Verbs, NEW v \in {"ok", "fail"}, RunVerb(r, w, v)
      PROVE CallsInv'
  BY <1>0, <1>t, <1>9 DEF RunVerb, Port!Execute, CallsInv, reqVars
<1>10. ASSUME NEW k \in Cmds, Answered(k) PROVE CallsInv'
  <2>1. call' = [call EXCEPT ![k] = "closed"] /\ call[k] = "open" /\ ran' = ran
    BY <1>10 DEF Answered, Port!Return, Port!GiveUp, Port!Refuse
  <2> QED
    BY <1>0, <1>t, <1>10, <2>1 DEF Answered, CallsInv, reqVars
<1>11. CASE Crash
  <2>1. call' = [k \in Cmds |-> IF call[k] = "open" THEN "closed" ELSE call[k]] /\ ran' = ran
    BY <1>11 DEF Crash, Port!Crash
  <2>2. \A r \in Reqs : phase'[r] = "idle" => phase[r] = "idle" /\ on'[r] = on[r]
    BY <1>t, <1>11 DEF Crash, Active
  <2> QED
    BY <1>0, <1>t, <2>1, <2>2 DEF CallsInv
<1>12. CASE UNCHANGED vars
  BY <1>12 DEF CallsInv, vars, portVars, reqVars
<1> QED
  BY <1>1, <1>2, <1>3, <1>4, <1>5, <1>6, <1>7, <1>8, <1>9, <1>10, <1>11, <1>12 DEF Next

\* A request stays on its deployment, and an answer stays what it is: so the
\* use of d was orderly if it still is.
LEMMA CleanBefore ==
  ASSUME TypeOK, CreateInv, CallsInv, [Next]_vars, NEW d \in Deploys, Clean(d)'
  PROVE  Clean(d)
<1>1. Port!TypeOK /\ Answers
  BY DEF TypeOK, CreateInv, Answers
<1>2. ASSUME NEW j \in Cmds PROVE answer[j] # "none" => answer'[j] = answer[j]
  BY <1>1, PortSteps, PortAnswers
<1>3. Create(d) \in Cmds /\ \A r \in Reqs, w \in Verbs : <<r, w>> \in Cmds
  BY DEF Cmds, Create
<1>4. ASSUME NEW r \in Reqs, on[r] = d PROVE on'[r] = d
  <2>1. on \in [Reqs -> Deploys \cup {None}] /\ phase[r] # "idle"
    <3>1. "start" \in Verbs
      BY DEF Verbs
    <3>2. phase[r] = "idle" => on[r] = None
      BY <3>1 DEF CallsInv
    <3> QED
      BY <1>4, <3>2, NoneAssumption DEF TypeOK
  <2>2. ASSUME NEW q \in Reqs, NEW e \in Deploys, Read(q, e) \/ ReadFails(q, e)
        PROVE on'[r] = d
    BY <1>4, <2>1, <2>2 DEF Read, ReadFails
  <2>3. ASSUME UNCHANGED on PROVE on'[r] = d
    BY <1>4, <2>3
  <2>4. ASSUME NEW e \in Deploys, Insert(e) \/ WorkerStep(e) \/ MakeContainer(e)
        PROVE UNCHANGED on
    BY <2>4 DEF Insert, WorkerStep, StoreTask, SendCreate, Settle, Bind, MarkRunning,
       MarkFailed, ClearTask, MakeContainer, reqVars
  <2>5. ASSUME NEW e \in Deploys, NEW v, RunCreate(e, v) PROVE UNCHANGED on
    BY <2>5 DEF RunCreate, reqVars
  <2>6. ASSUME NEW q \in Reqs, SendVerb(q) \/ GetAnswer(q) \/ WriteRow(q) PROVE UNCHANGED on
    BY <2>6 DEF SendVerb, GetAnswer, WriteRow
  <2>7. ASSUME NEW q \in Reqs, NEW w, NEW v, RunVerb(q, w, v) PROVE UNCHANGED on
    BY <2>7 DEF RunVerb, reqVars
  <2>8. ASSUME NEW k \in Cmds, Answered(k) PROVE UNCHANGED on
    BY <2>8 DEF Answered, reqVars
  <2>9. CASE Crash \/ UNCHANGED vars
    BY <2>3, <2>9 DEF Crash, vars, reqVars
  <2> QED
    BY <2>2, <2>3, <2>4, <2>5, <2>6, <2>7, <2>8, <2>9 DEF Next
<1>5. Create(d)' = Create(d)
  BY DEF Create
<1> QED
  BY <1>2, <1>3, <1>4, <1>5 DEF Clean

\* What d and its requests are seen to be is as it was.
Same(d) ==
  /\ rows'[d] = rows[d] /\ worker'[d] = worker[d] /\ container'[d] = container[d]
  /\ call'[Create(d)] = call[Create(d)] /\ ran'[Create(d)] = ran[Create(d)]
  /\ answer'[Create(d)] = answer[Create(d)]
  /\ \A r \in Reqs : /\ on'[r] = d <=> on[r] = d
                     /\ on[r] = d => (phase'[r] = phase[r] /\ verb'[r] = verb[r])
  /\ \A r \in Reqs, w \in Verbs : on[r] = d => ran'[<<r, w>>] = ran[<<r, w>>]

LEMMA SameKeeps ==
  ASSUME NEW d \in Deploys, OrderInv(d), Same(d)
  PROVE  OrderInv(d)'
<1>1. Create(d)' = Create(d)
  BY DEF Create
<1>2. Bound(d)' = Bound(d) /\ Exact(d)' = Exact(d) /\ Gone(d)' = Gone(d)
      /\ \A w : Finds(w, d)' = Finds(w, d)
  BY DEF Same, Bound, Exact, Gone, Finds
<1>3. Created(d)'
  BY <1>1, <1>2 DEF Same, OrderInv, Created, Fresh, Rest
<1>4. ASSUME NEW r \in Reqs, on[r] = d
      PROVE  /\ Active(r)' = Active(r)
             /\ Active(r) /\ Serves(r, d) => Serves(r, d)'
  <2>1. phase'[r] = phase[r] /\ verb'[r] = verb[r]
    BY <1>4 DEF Same
  <2>2. Active(r)' = Active(r)
    BY <2>1 DEF Active
  <2>3. ASSUME Active(r), Serves(r, d) PROVE Serves(r, d)'
    <3>1. phase[r] = "wait" => verb[r] \in Verbs
      BY <2>3 DEF Serves, Verbs
    <3>2. phase[r] = "wait" => ran'[<<r, verb[r]>>] = ran[<<r, verb[r]>>]
      BY <1>4, <3>1 DEF Same
    <3> QED
      BY <1>2, <2>1, <2>3, <3>2 DEF Serves, Sent, Same
  <2> QED
    BY <2>2, <2>3
<1>5. \A r \in Reqs : on'[r] = d <=> on[r] = d
  BY DEF Same
<1> QED
  BY <1>2, <1>3, <1>4, <1>5 DEF OrderInv, Same, Rest

\* Where nobody has asked anything of d yet, only Create counts.
LEMMA WorkerOnly ==
  ASSUME NEW d \in Deploys, OrderInv(d), worker[d] # "finished", UNCHANGED on,
         Created(d)', worker'[d] = "finished" => Rest(d)'
  PROVE  OrderInv(d)'
BY DEF OrderInv

\* A step of the worker of d.
LEMMA WorkerOrder ==
  ASSUME TypeOK, CreateInv, CallsInv, Faults = {}, NEW d \in Deploys, Clean(d), OrderInv(d),
         Insert(d) \/ WorkerStep(d)
  PROVE  OrderInv(d)'
<1>0. /\ worker \in [Deploys -> WorkerStates] /\ rows \in [Deploys -> Row \cup {None}]
      /\ answer[Create(d)] \in {"none", "ok"} /\ Create(d) \in Cmds
      /\ call \in [Cmds -> {"idle", "open", "closed"}]
      /\ rows[d] # None => rows[d] \in Row
  BY DEF TypeOK, Clean, Create, Cmds, Port!TypeOK
<1>1. worker[d] # "finished" /\ UNCHANGED on /\ UNCHANGED container
  BY DEF Insert, WorkerStep, StoreTask, SendCreate, Settle, Bind, MarkRunning, MarkFailed,
     ClearTask, reqVars
<1>2. Create(d)' = Create(d)
  BY DEF Create
<1>3. ASSUME NEW c, NEW v, SetColumn(d, c, v)
      PROVE  rows' = IF rows[d] = None THEN rows ELSE [rows EXCEPT ![d][c] = v]
  BY <1>3 DEF SetColumn
<1>4. CASE Insert(d)
  <2> DEFINE row == [agent |-> Home[d], status |-> "pending", bound |-> FALSE]
  <2>1. row \in Row /\ row # None
    <3>1. row \in Row
      BY DeployAssumption DEF Row
    <3> QED
      BY <3>1, NoneAssumption
  <2>2. rows'[d] = row /\ worker'[d] = "inserted" /\ UNCHANGED portVars
    BY <1>0, <1>4 DEF Insert, WorkerGoes
  <2>3. Created(d)'
    BY <1>1, <1>2, <1>4, <2>1, <2>2 DEF Insert, OrderInv, Created, Fresh, portVars
  <2> QED
    BY <1>1, <2>2, <2>3, WorkerOnly
<1>5. CASE StoreTask(d)
  <2>1. worker'[d] = "sending" /\ UNCHANGED <<rows, portVars>>
    BY <1>0, <1>5 DEF StoreTask, WorkerGoes
  <2>2. Created(d)'
    BY <1>1, <1>2, <1>5, <2>1 DEF StoreTask, OrderInv, Created, Fresh, portVars
  <2> QED
    BY <1>1, <2>1, <2>2, WorkerOnly
<1>6. CASE SendCreate(d)
  <2>1. worker'[d] = "calling" /\ UNCHANGED <<rows, ran>>
    BY <1>0, <1>6 DEF SendCreate, WorkerGoes, Port!Call, rowVars
  <2>2. ran[Create(d)] = "none"
    BY <1>0, <1>6 DEF SendCreate, Port!Call, CallsInv
  <2>3. Created(d)'
    BY <1>1, <1>2, <1>6, <2>1, <2>2 DEF SendCreate, OrderInv, Created, Fresh
  <2> QED
    BY <1>1, <2>1, <2>3, WorkerOnly
<1>7. CASE Settle(d)
  <2>1. answer[Create(d)] = "ok" /\ ran[Create(d)] = "ok"
    BY <1>0, <1>7 DEF Settle, CreateInv
  <2>2. worker'[d] = "binding" /\ UNCHANGED <<rows, portVars>>
    BY <1>0, <1>7, <2>1 DEF Settle, WorkerGoes, rowVars
  <2>3. Created(d)'
    BY <1>1, <1>2, <1>7, <2>1, <2>2 DEF Settle, OrderInv, Created, Fresh, portVars
  <2> QED
    BY <1>1, <2>2, <2>3, WorkerOnly
<1>8. CASE Bind(d)
  <2>1. worker'[d] = "marking" /\ UNCHANGED portVars
    BY <1>0, <1>8 DEF Bind, WorkerGoes
  <2>2. rows[d] # None
    BY <1>8 DEF Bind, OrderInv, Created, Fresh
  <2>3. rows'[d] = [rows[d] EXCEPT !.bound = TRUE]
    <3>1. rows' = [rows EXCEPT ![d]["bound"] = TRUE]
      BY <1>3, <1>8, <2>2 DEF Bind
    <3> QED
      BY <1>0, <3>1
  <2>4. rows'[d] \in Row /\ rows'[d].bound
    BY <1>0, <2>2, <2>3 DEF Row
  <2>5. Bound(d)'
    BY <2>4, NoneAssumption DEF Bound
  <2>6. Created(d)'
    BY <1>1, <1>2, <1>8, <2>1, <2>5 DEF Bind, OrderInv, Created, portVars
  <2> QED
    BY <1>1, <2>1, <2>6, WorkerOnly
<1>9. CASE MarkRunning(d)
  <2>1. worker'[d] = "clearing" /\ UNCHANGED portVars
    BY <1>0, <1>9 DEF MarkRunning, WorkerGoes
  <2>2. rows[d] # None /\ rows[d].bound /\ container[d] = "running"
    BY <1>9 DEF MarkRunning, OrderInv, Created, Bound
  <2>3. rows'[d] = [rows[d] EXCEPT !.status = "running"]
    BY <1>0, <1>3, <1>9, <2>2 DEF MarkRunning
  <2>4. rows'[d] \in Row /\ rows'[d].bound /\ rows'[d].status = "running"
    BY <1>0, <2>2, <2>3 DEF Row
  <2>5. Rest(d)'
    BY <1>1, <2>2, <2>4, NoneAssumption DEF Rest, Bound, Exact
  <2>6. Created(d)'
    BY <1>1, <1>2, <1>9, <2>1, <2>5 DEF MarkRunning, OrderInv, Created, portVars
  <2> QED
    BY <1>1, <2>1, <2>6, WorkerOnly
<1>10. CASE MarkFailed(d)
  BY <1>10 DEF MarkFailed, OrderInv, Created
<1>11. CASE ClearTask(d)
  <2>1. worker'[d] = "finished" /\ UNCHANGED <<rows, portVars>>
    BY <1>0, <1>11 DEF ClearTask, WorkerGoes
  <2>2. Rest(d)'
    BY <1>1, <1>11, <2>1 DEF ClearTask, OrderInv, Created, Rest, Bound, Exact
  <2>3. Created(d)'
    BY <1>1, <1>2, <1>11, <2>1 DEF ClearTask, OrderInv, Created, portVars
  <2> QED
    BY <1>1, <2>2, <2>3, WorkerOnly
<1> QED
  BY <1>4, <1>5, <1>6, <1>7, <1>8, <1>9, <1>10, <1>11 DEF WorkerStep

\* The agent makes the container of d and runs its create.
LEMMA RunOrder ==
  ASSUME TypeOK, CreateInv, CallsInv, NEW d \in Deploys, OrderInv(d),
         NEW v \in {"ok", "fail"}, MakeContainer(d) \/ RunCreate(d, v)
  PROVE  OrderInv(d)'
<1>0. /\ container \in [Deploys -> {"none", "created", "running", "exited", "removed"}]
      /\ Create(d) \in Cmds /\ ran \in [Cmds -> {"ok", "fail", "none"}]
  BY DEF TypeOK, Create, Cmds, Port!TypeOK, Port!Outcomes
<1>1. Create(d)' = Create(d)
  BY DEF Create
<1>2. ran[Create(d)] = "none" /\ call[Create(d)] # "idle"
      /\ UNCHANGED <<rows, worker, on, call, answer>>
  BY DEF MakeContainer, RunCreate, Port!Execute, rowVars, reqVars, portVars
<1>3. worker[d] = "calling"
  <2>1. answer[Create(d)] # "ok"
    BY <1>0, <1>2 DEF CreateInv
  <2>2. worker[d] \in WorkerStates
    BY DEF TypeOK
  <2> QED
    BY <1>2, <2>1, <2>2 DEF OrderInv, Created, WorkerStates
<1>4. ran'[Create(d)] = "none" => container'[d] \in {"none", "created"}
  <2>1. CASE MakeContainer(d)
    BY <1>0, <2>1 DEF MakeContainer
  <2>2. CASE RunCreate(d, v)
    BY <1>0, <2>2 DEF RunCreate, Port!Execute
  <2> QED
    BY <2>1, <2>2
<1>5. ran'[Create(d)] = "ok" => container'[d] = "running"
  <2>1. CASE MakeContainer(d)
    BY <1>2, <2>1 DEF MakeContainer, portVars
  <2>2. CASE RunCreate(d, v)
    BY <1>0, <2>2 DEF RunCreate, Port!Execute
  <2> QED
    BY <2>1, <2>2
<1>6. Created(d)'
  BY <1>1, <1>2, <1>3, <1>4, <1>5 DEF OrderInv, Created, Fresh
<1> QED
  BY <1>2, <1>3, <1>6, WorkerOnly

\* A request on d is active, or the row of d is right.
LEMMA AtRest ==
  ASSUME NEW d \in Deploys, OrderInv(d), worker[d] = "finished",
         \A r \in Reqs : on[r] = d => ~Active(r)
  PROVE  Rest(d) \/ Gone(d)
BY DEF OrderInv

\* The only active request on d goes on.
LEMMA RequestGoesOn ==
  ASSUME NEW d \in Deploys, OrderInv(d), NEW r \in Reqs, on[r] = d, Active(r),
         UNCHANGED <<worker, on>>, Created(d)',
         \A q \in Reqs \ {r} : phase'[q] = phase[q],
         IF Active(r)' THEN Serves(r, d)' ELSE Rest(d)' \/ Gone(d)'
  PROVE  OrderInv(d)'
<1>1. \A q \in Reqs \ {r} : on[q] = d => ~Active(q) /\ ~Active(q)'
  BY DEF OrderInv, Active
<1>2. worker[d] = "finished"
  BY DEF OrderInv
<1> QED
  BY <1>1, <1>2 DEF OrderInv

\* Once Create is through, it does not matter what becomes of the row.
LEMMA CreateThrough ==
  ASSUME NEW d \in Deploys, OrderInv(d), worker[d] = "finished", UNCHANGED worker,
         answer[Create(d)] = "ok" => answer'[Create(d)] = "ok"
  PROVE  Created(d)'
<1>1. Create(d)' = Create(d)
  BY DEF Create
<1> QED
  BY <1>1 DEF OrderInv, Created

\* A request that waits its turn reads the row of d.
LEMMA ReadOrder ==
  ASSUME TypeOK, CreateInv, CallsInv, Faults = {}, NEW d \in Deploys, Clean(d)', OrderInv(d),
         NEW r \in Reqs, Read(r, d)
  PROVE  OrderInv(d)'
<1>0. /\ on \in [Reqs -> Deploys \cup {None}] /\ phase \in [Reqs -> {"idle", "send", "wait", "write", "done"}]
      /\ verb \in [Reqs -> Verbs \cup {"none"}] /\ KindOf[r] \in Kinds
  BY DeployAssumption DEF TypeOK
<1>1. /\ on' = [on EXCEPT ![r] = d] /\ UNCHANGED <<rows, worker, container, portVars>>
      /\ phase' = [phase EXCEPT ![r] = FirstPhase(r, rows[d])]
      /\ verb' = [verb EXCEPT ![r] = IF KindOf[r] = "start" THEN "start" ELSE "stop"]
      /\ phase[r] = "idle" /\ (r \in Patient => Settled(d))
  BY DEF Read, rowVars
<1>2. r \in Patient
  BY <1>0, <1>1 DEF Clean
<1>3. worker[d] = "finished" /\ \A q \in Reqs : on[q] = d => ~Active(q)
  BY <1>1, <1>2 DEF Settled, OrderInv, Created
<1>4. Rest(d) \/ Gone(d)
  BY <1>3, AtRest
<1>5. Created(d)'
  BY <1>1, <1>3, CreateThrough DEF portVars
<1>6. \A q \in Reqs \ {r} : (on'[q] = d => on[q] = d) /\ Active(q)' = Active(q)
  BY <1>0, <1>1 DEF Active
<1>7. on'[r] = d /\ phase'[r] = FirstPhase(r, rows[d])
      /\ verb'[r] = IF KindOf[r] = "start" THEN "start" ELSE "stop"
  BY <1>0, <1>1
<1>8. CASE Gone(d)
  <2>1. phase'[r] = "done"
    BY <1>7, <1>8 DEF Gone, FirstPhase
  <2>2. Gone(d)' /\ ~Active(r)'
    BY <1>1, <1>8, <2>1 DEF Gone, Active
  <2> QED
    BY <1>1, <1>3, <1>5, <1>6, <2>2 DEF OrderInv
<1>9. CASE Rest(d)
  <2>1. phase'[r] = IF KindOf[r] = "update" THEN "write" ELSE "send"
    BY <1>7, <1>9 DEF Rest, Bound, FirstPhase
  <2>2. Rest(d)' /\ Active(r)'
    BY <1>1, <1>9, <2>1 DEF Rest, Bound, Exact, Active
  <2>3. Serves(r, d)'
    BY <1>0, <1>7, <2>1, <2>2 DEF Serves, Rest, Finds, Kinds
  <2>4. \A q \in Reqs \ {r} : on'[q] = d => ~Active(q)'
    BY <1>3, <1>6
  <2> QED
    BY <1>1, <1>3, <1>5, <1>6, <1>7, <2>2, <2>3, <2>4 DEF OrderInv
<1> QED
  BY <1>4, <1>8, <1>9

\* A request on d sends its command, looks at the answer, writes the row.
LEMMA SendOrder ==
  ASSUME TypeOK, CreateInv, CallsInv, NEW d \in Deploys, OrderInv(d),
         NEW r \in Reqs, on[r] = d, SendVerb(r)
  PROVE  OrderInv(d)'
<1>0. /\ phase \in [Reqs -> {"idle", "send", "wait", "write", "done"}]
      /\ phase[r] = "send" /\ Active(r)
  BY DEF TypeOK, SendVerb, Active
<1>1. Serves(r, d) /\ worker[d] = "finished"
  BY <1>0 DEF OrderInv
<1>2. verb[r] \in Verbs
  BY <1>0, <1>1 DEF Serves, Verbs
<1>3. Sent(r) \in Cmds /\ ran[Sent(r)] = "none"
  BY <1>2 DEF SendVerb, Port!Call, CallsInv, Sent, Cmds
<1>4. UNCHANGED <<rows, worker, on, verb, container, ran, answer>>
  BY DEF SendVerb, Port!Call, rowVars
<1>5. phase' = [phase EXCEPT ![r] = "wait"]
  BY DEF SendVerb
<1>6. Created(d)'
  BY <1>1, <1>4, CreateThrough
<1>7. phase'[r] = "wait" /\ Active(r)' /\ \A q \in Reqs \ {r} : phase'[q] = phase[q]
  BY <1>0, <1>5 DEF Active
<1>8. Serves(r, d)'
  BY <1>0, <1>1, <1>3, <1>4, <1>7 DEF Serves, Bound, Exact, Finds, Sent
<1> QED
  BY <1>0, <1>4, <1>6, <1>7, <1>8, RequestGoesOn

LEMMA AnswerOrder ==
  ASSUME TypeOK, CreateInv, CallsInv, NEW d \in Deploys, Clean(d), OrderInv(d),
         NEW r \in Reqs, on[r] = d, GetAnswer(r)
  PROVE  OrderInv(d)'
<1>0. /\ phase \in [Reqs -> {"idle", "send", "wait", "write", "done"}]
      /\ verb \in [Reqs -> Verbs \cup {"none"}]
      /\ phase[r] = "wait" /\ Active(r) /\ KindOf[r] \in Kinds
  BY DeployAssumption DEF TypeOK, GetAnswer, Active
<1>1. Serves(r, d) /\ worker[d] = "finished"
  BY <1>0 DEF OrderInv
<1>2. verb[r] \in Verbs /\ KindOf[r] # "update"
  BY <1>0, <1>1 DEF Serves, Verbs
<1>3. answer[Sent(r)] = "ok" /\ ran[Sent(r)] = "ok"
  <2>1. Sent(r) \in Cmds
    BY <1>2 DEF Sent, Cmds
  <2>2. answer[Sent(r)] = "ok"
    BY <1>2 DEF GetAnswer, Clean, Sent
  <2> QED
    BY <2>1, <2>2 DEF CreateInv
<1>4. UNCHANGED <<rows, worker, on, container, portVars>>
  BY DEF GetAnswer, rowVars
<1>5. IF KindOf[r] = "delete" /\ verb[r] = "stop"
      THEN phase' = [phase EXCEPT ![r] = "send"] /\ verb' = [verb EXCEPT ![r] = "remove"]
      ELSE phase' = [phase EXCEPT ![r] = "write"] /\ verb' = verb
  BY <1>3 DEF GetAnswer, AfterAnswer
<1>6. Created(d)'
  BY <1>1, <1>4, CreateThrough DEF portVars
<1>7. container[d] = Made(verb[r])
  BY <1>0, <1>1, <1>3 DEF Serves
<1>8. CASE KindOf[r] = "delete" /\ verb[r] = "stop"
  <2>1. /\ phase'[r] = "send" /\ verb'[r] = "remove" /\ Active(r)'
        /\ \A q \in Reqs \ {r} : phase'[q] = phase[q]
    BY <1>0, <1>5, <1>8 DEF Active
  <2>2. Serves(r, d)'
    BY <1>1, <1>4, <1>7, <1>8, <2>1 DEF Serves, Bound, Finds, Made
  <2> QED
    BY <1>0, <1>4, <1>6, <2>1, <2>2, RequestGoesOn
<1>9. CASE ~(KindOf[r] = "delete" /\ verb[r] = "stop")
  <2>1. /\ phase'[r] = "write" /\ Active(r)'
        /\ \A q \in Reqs \ {r} : phase'[q] = phase[q]
    BY <1>0, <1>5, <1>9 DEF Active
  <2>2. CASE KindOf[r] = "start"
    <3>1. container[d] = "running"
      BY <1>0, <1>1, <1>7, <2>2 DEF Serves, Made
    <3>2. Serves(r, d)'
      BY <1>1, <1>4, <2>1, <2>2, <3>1 DEF Serves, Bound
    <3> QED
      BY <1>0, <1>4, <1>6, <2>1, <3>2, RequestGoesOn
  <2>3. CASE KindOf[r] = "stop"
    <3>1. container[d] = "exited"
      BY <1>0, <1>1, <1>7, <2>3 DEF Serves, Made
    <3>2. Serves(r, d)'
      BY <1>1, <1>4, <2>1, <2>3, <3>1 DEF Serves, Bound
    <3> QED
      BY <1>0, <1>4, <1>6, <2>1, <3>2, RequestGoesOn
  <2>4. CASE KindOf[r] = "delete"
    <3>1. container[d] = "removed"
      BY <1>0, <1>1, <1>7, <1>9, <2>4 DEF Serves, Made
    <3>2. Serves(r, d)'
      BY <1>1, <1>4, <2>1, <2>4, <3>1 DEF Serves, Bound
    <3> QED
      BY <1>0, <1>4, <1>6, <2>1, <3>2, RequestGoesOn
  <2> QED
    BY <1>0, <1>2, <2>2, <2>3, <2>4 DEF Kinds
<1> QED
  BY <1>8, <1>9

LEMMA WriteOrder ==
  ASSUME TypeOK, Faults = {}, NEW d \in Deploys, OrderInv(d),
         NEW r \in Reqs, on[r] = d, WriteRow(r)
  PROVE  OrderInv(d)'
<1>0. /\ phase \in [Reqs -> {"idle", "send", "wait", "write", "done"}]
      /\ rows \in [Deploys -> Row \cup {None}]
      /\ phase[r] = "write" /\ Active(r) /\ KindOf[r] \in Kinds
  BY DeployAssumption DEF TypeOK, WriteRow, Active
<1>1. Serves(r, d) /\ worker[d] = "finished"
  BY <1>0 DEF OrderInv
<1>2. rows[d] # None /\ rows[d] \in Row /\ rows[d].bound
  BY <1>0, <1>1 DEF Serves, Bound
<1>3. UNCHANGED <<worker, on, container, portVars>>
  BY DEF WriteRow
<1>4. Statement(r, d) /\ phase' = [phase EXCEPT ![r] = "done"]
  BY DEF WriteRow, Reply
<1>5. Created(d)'
  BY <1>1, <1>3, CreateThrough DEF portVars
<1>6. ~Active(r)' /\ \A q \in Reqs \ {r} : phase'[q] = phase[q]
  BY <1>0, <1>4 DEF Active
<1>7. CASE KindOf[r] \in {"start", "stop"}
  <2>1. rows'[d] = [rows[d] EXCEPT !.status = StatusAfter(r)]
    BY <1>0, <1>2, <1>4, <1>7 DEF Statement
  <2>2. container[d] = StatusAfter(r) /\ StatusAfter(r) \in {"running", "exited"}
    BY <1>0, <1>1, <1>7 DEF Serves, StatusAfter
  <2>3. rows'[d] \in Row /\ rows'[d].bound /\ rows'[d].status = StatusAfter(r)
    BY <1>2, <2>1, <2>2 DEF Row
  <2>4. Rest(d)'
    BY <1>3, <2>2, <2>3, NoneAssumption DEF Rest, Bound, Exact
  <2> QED
    BY <1>0, <1>3, <1>5, <1>6, <2>4, RequestGoesOn
<1>8. CASE KindOf[r] = "delete"
  <2>1. rows'[d] = None
    BY <1>0, <1>4, <1>8 DEF Statement
  <2>2. container[d] = "removed"
    BY <1>0, <1>1, <1>8 DEF Serves
  <2>3. Gone(d)'
    BY <1>3, <2>1, <2>2 DEF Gone
  <2> QED
    BY <1>0, <1>3, <1>5, <1>6, <2>3, RequestGoesOn
<1>9. CASE KindOf[r] = "update"
  <2>1. PICK a \in Agents : rows'[d] = [rows[d] EXCEPT !.agent = a]
    BY <1>0, <1>2, <1>4, <1>9 DEF Statement
  <2>2. rows'[d] \in Row /\ rows'[d].bound /\ rows'[d].status = rows[d].status
    BY <1>2, <2>1 DEF Row
  <2>3. Rest(d)'
    BY <1>0, <1>1, <1>3, <1>9, <2>2, NoneAssumption DEF Serves, Rest, Bound, Exact
  <2> QED
    BY <1>0, <1>3, <1>5, <1>6, <2>3, RequestGoesOn
<1> QED
  BY <1>0, <1>7, <1>8, <1>9 DEF Kinds

\* The agent runs the command of a request on d.
LEMMA VerbOrder ==
  ASSUME TypeOK, CreateInv, CallsInv, NEW d \in Deploys, Clean(d), OrderInv(d),
         NEW r \in Reqs, on[r] = d, NEW w \in Verbs, NEW v \in {"ok", "fail"}, RunVerb(r, w, v)
  PROVE  OrderInv(d)'
<1>0. /\ container \in [Deploys -> {"none", "created", "running", "exited", "removed"}]
      /\ ran \in [Cmds -> {"ok", "fail", "none"}] /\ <<r, w>> \in Cmds
      /\ call \in [Cmds -> {"idle", "open", "closed"}]
  BY DEF TypeOK, Cmds, Port!TypeOK, Port!Outcomes
<1>1. /\ call[<<r, w>>] # "idle" /\ ran[<<r, w>>] = "none"
      /\ ran' = [ran EXCEPT ![<<r, w>>] = v]
      /\ UNCHANGED <<rows, worker, on, phase, verb, answer>>
  BY DEF RunVerb, Port!Execute, rowVars, reqVars
<1>2. call[<<r, w>>] = "open"
  <2>1. answer[<<r, w>>] # "ok"
    BY <1>0, <1>1 DEF CreateInv
  <2>2. answer[<<r, w>>] = "none"
    BY <2>1 DEF Clean
  <2> QED
    BY <1>0, <1>1, <2>2 DEF CreateInv
<1>3. phase[r] = "wait" /\ verb[r] = w /\ Active(r)
  BY <1>2 DEF CallsInv, Active
<1>4. Serves(r, d) /\ worker[d] = "finished"
  BY <1>3 DEF OrderInv
<1>5. Sent(r) = <<r, w>> /\ Sent(r)' = <<r, w>> /\ Active(r)'
  BY <1>1, <1>3 DEF Sent, Active
<1>6. Created(d)'
  BY <1>1, <1>4, CreateThrough
<1>7. ran'[<<r, w>>] = v
  BY <1>0, <1>1
<1>8. Finds(w, d)
  BY <1>1, <1>3, <1>4, <1>5 DEF Serves
<1>9. v = "ok" => container'[d] = Made(w)
  <2> SUFFICES ASSUME v = "ok" PROVE container'[d] = Made(w)
    OBVIOUS
  <2>1. container'[d] = Effect(w, container[d])
    BY <1>0 DEF RunVerb
  <2>2. w = "stop" => container[d] \in {"running", "exited"}
    BY <1>8 DEF Finds, Exact
  <2> QED
    BY <2>1, <2>2 DEF Effect, Made, Verbs
<1>10. Serves(r, d)'
  BY <1>1, <1>3, <1>4, <1>5, <1>7, <1>9 DEF Serves, Bound
<1> QED
  BY <1>1, <1>3, <1>5, <1>6, <1>10, RequestGoesOn

\* A step of another deployment, or of a request on another one, leaves d the same.
LEMMA OthersOrder ==
  ASSUME TypeOK, CallsInv, NEW d \in Deploys, NEW e \in Deploys \ {d}, NEW v \in {"ok", "fail"},
         Insert(e) \/ WorkerStep(e) \/ MakeContainer(e) \/ RunCreate(e, v)
  PROVE  Same(d)
<1>0. /\ Create(d) # Create(e) /\ Create(d) \in Cmds
      /\ \A r \in Reqs, w \in Verbs : <<r, w>> # Create(e) /\ <<r, w>> \in Cmds
  BY DEF Create, Verbs, Cmds
<1>1. /\ rows \in [Deploys -> Row \cup {None}] /\ worker \in [Deploys -> WorkerStates]
      /\ container \in [Deploys -> {"none", "created", "running", "exited", "removed"}]
      /\ call \in [Cmds -> {"idle", "open", "closed"}] /\ ran \in [Cmds -> {"ok", "fail", "none"}]
  BY DEF TypeOK, Port!TypeOK, Port!Outcomes
<1>2. UNCHANGED reqVars /\ UNCHANGED answer
  BY DEF Insert, WorkerStep, StoreTask, SendCreate, Settle, Bind, MarkRunning, MarkFailed,
     ClearTask, MakeContainer, RunCreate, portVars, Port!Call, Port!Execute
<1>3. rows'[d] = rows[d]
  BY <1>1 DEF Insert, WorkerStep, StoreTask, SendCreate, Settle, Bind, MarkRunning, MarkFailed,
     ClearTask, MakeContainer, RunCreate, SetColumn, rowVars
<1>4. worker'[d] = worker[d] /\ container'[d] = container[d]
  BY <1>1 DEF Insert, WorkerStep, StoreTask, SendCreate, Settle, Bind, MarkRunning, MarkFailed,
     ClearTask, MakeContainer, RunCreate, WorkerGoes
<1>5. /\ call'[Create(d)] = call[Create(d)] /\ ran'[Create(d)] = ran[Create(d)]
      /\ \A r \in Reqs, w \in Verbs : ran'[<<r, w>>] = ran[<<r, w>>]
  <2>1. CASE UNCHANGED portVars
    BY <2>1 DEF portVars
  <2>2. CASE Port!Call(Create(e))
    BY <1>0, <1>1, <2>2 DEF Port!Call
  <2>3. CASE Port!Execute(Create(e), v)
    BY <1>0, <1>1, <2>3 DEF Port!Execute
  <2> QED
    BY <2>1, <2>2, <2>3 DEF Insert, WorkerStep, StoreTask, SendCreate, Settle, Bind, MarkRunning,
       MarkFailed, ClearTask, MakeContainer, RunCreate
<1> QED
  BY <1>2, <1>3, <1>4, <1>5 DEF Same, reqVars

LEMMA OtherRequest ==
  ASSUME TypeOK, CallsInv, NEW d \in Deploys, NEW r \in Reqs, NEW w \in Verbs,
         NEW v \in {"ok", "fail"},
         \/ on[r] # d /\ (SendVerb(r) \/ GetAnswer(r) \/ WriteRow(r) \/ RunVerb(r, w, v))
         \/ \E e \in Deploys \ {d} : Read(r, e)
  PROVE  Same(d)
<1>0. /\ Create(d) \in Cmds
      /\ \A q \in Reqs, u \in Verbs : <<q, u>> \in Cmds
      /\ \A q \in Reqs : \A u : Create(d) = <<q, u>> => u = "create"
  BY DEF Create, Cmds
<1>1. /\ rows \in [Deploys -> Row \cup {None}] /\ on \in [Reqs -> Deploys \cup {None}]
      /\ phase \in [Reqs -> {"idle", "send", "wait", "write", "done"}]
      /\ verb \in [Reqs -> Verbs \cup {"none"}]
      /\ container \in [Deploys -> {"none", "created", "running", "exited", "removed"}]
      /\ call \in [Cmds -> {"idle", "open", "closed"}] /\ ran \in [Cmds -> {"ok", "fail", "none"}]
  BY DEF TypeOK, Port!TypeOK, Port!Outcomes
<1>2. CASE \E e \in Deploys \ {d} : Read(r, e)
  <2>1. PICK e \in Deploys \ {d} : Read(r, e)
    BY <1>2
  <2>2. on[r] # d
    <3>1. phase[r] = "idle" => on[r] = None
      BY DEF CallsInv
    <3> QED
      BY <2>1, <3>1, NoneAssumption DEF Read
  <2> QED
    BY <1>1, <2>1, <2>2 DEF Read, Same, rowVars, portVars
<1>3. CASE on[r] # d /\ SendVerb(r)
  <2>1. Create(d) # Sent(r)
    BY <1>1, <1>0 DEF Sent, Verbs
  <2> QED
    BY <1>0, <1>1, <1>3, <2>1 DEF SendVerb, Port!Call, Same, rowVars
<1>4. CASE on[r] # d /\ GetAnswer(r)
  BY <1>1, <1>4 DEF GetAnswer, AfterAnswer, Same, rowVars, portVars
<1>5. CASE on[r] # d /\ WriteRow(r)
  <2>1. rows'[d] = rows[d]
    BY <1>1, <1>5 DEF WriteRow, Statement
  <2> QED
    BY <1>1, <1>5, <2>1 DEF WriteRow, Reply, Same, portVars
<1>6. CASE on[r] # d /\ RunVerb(r, w, v)
  <2>1. container'[d] = container[d]
    BY <1>1, <1>6 DEF RunVerb
  <2>2. Create(d) # <<r, w>> /\ \A q \in Reqs : \A u : on[q] = d => <<q, u>> # <<r, w>>
    BY <1>0, <1>6 DEF Verbs
  <2>3. ran' = [ran EXCEPT ![<<r, w>>] = v] /\ UNCHANGED <<rows, worker, reqVars, call, answer>>
    BY <1>6 DEF RunVerb, Port!Execute, rowVars
  <2>4. ran'[Create(d)] = ran[Create(d)]
        /\ \A q \in Reqs, u \in Verbs : on[q] = d => ran'[<<q, u>>] = ran[<<q, u>>]
    BY <1>0, <1>1, <2>2, <2>3
  <2> QED
    BY <2>1, <2>3, <2>4 DEF Same, reqVars
<1> QED
  BY <1>2, <1>3, <1>4, <1>5, <1>6

\* An answer changes nothing that has been done.
LEMMA AnsweredOrder ==
  ASSUME TypeOK, CreateInv, NEW d \in Deploys, OrderInv(d), NEW k \in Cmds, Answered(k)
  PROVE  OrderInv(d)'
<1>0. Create(d) \in Cmds /\ call \in [Cmds -> {"idle", "open", "closed"}] /\ Create(d)' = Create(d)
      /\ answer \in [Cmds -> Port!Answers \cup {"none"}]
  BY DEF Create, Cmds, TypeOK, Port!TypeOK
<1>1. /\ UNCHANGED <<rows, worker, phase, verb, on, container, ran>> /\ call[k] = "open"
      /\ call' = [call EXCEPT ![k] = "closed"]
      /\ \A j \in Cmds \ {k} : answer'[j] = answer[j]
  BY <1>0 DEF Answered, Port!Return, Port!GiveUp, Port!Refuse, rowVars, reqVars
<1>2. call[Create(d)] = "idle" => call'[Create(d)] = "idle"
  BY <1>0, <1>1
<1>3. answer[Create(d)] = "ok" => answer'[Create(d)] = "ok"
  BY <1>0, <1>1 DEF CreateInv
<1>4. Created(d)'
  BY <1>0, <1>1, <1>2, <1>3 DEF OrderInv, Created, Fresh, Bound, Rest, Exact
<1>5. \A r \in Reqs : /\ Active(r)' = Active(r)
                      /\ Serves(r, d)' = Serves(r, d)
  BY <1>1 DEF Active, Serves, Bound, Exact, Finds, Sent
<1>6. Rest(d)' = Rest(d) /\ Gone(d)' = Gone(d)
  BY <1>1 DEF Rest, Gone, Bound, Exact
<1> QED
  BY <1>1, <1>4, <1>5, <1>6 DEF OrderInv

\* Every step keeps the order of a deployment that is used in an orderly way.
LEMMA UseStep == TypeOK /\ CreateInv /\ CallsInv /\ UseInv /\ [Next]_vars => UseInv'
<1> SUFFICES ASSUME TypeOK, CreateInv, CallsInv, UseInv, [Next]_vars, Faults = {},
                    NEW d \in Deploys, Clean(d)'
             PROVE  OrderInv(d)'
  BY DEF UseInv, Clean, OrderInv
<1>0. Clean(d) /\ OrderInv(d)
  BY CleanBefore DEF UseInv
<1>1. ASSUME NEW e \in Deploys, Insert(e) \/ WorkerStep(e) \/ MakeContainer(e) PROVE OrderInv(d)'
  <2>1. CASE e = d
    BY <1>0, <1>1, <2>1, WorkerOrder, RunOrder
  <2>2. CASE e # d
    BY <1>0, <1>1, <2>2, OthersOrder, SameKeeps
  <2> QED
    BY <2>1, <2>2
<1>2. ASSUME NEW e \in Deploys, NEW v \in {"ok", "fail"}, RunCreate(e, v) PROVE OrderInv(d)'
  <2>1. CASE e = d
    BY <1>0, <1>2, <2>1, RunOrder
  <2>2. CASE e # d
    BY <1>0, <1>2, <2>2, OthersOrder, SameKeeps
  <2> QED
    BY <2>1, <2>2
<1>3. ASSUME NEW r \in Reqs, NEW e \in Deploys, Read(r, e) PROVE OrderInv(d)'
  <2>1. CASE e = d
    BY <1>0, <1>3, <2>1, ReadOrder
  <2>2. CASE e # d
    <3>1. "start" \in Verbs
      BY DEF Verbs
    <3>2. Same(d)
      BY <1>3, <2>2, <3>1, OtherRequest
    <3> QED
      BY <1>0, <3>2, SameKeeps
  <2> QED
    BY <2>1, <2>2
<1>4. ASSUME NEW r \in Reqs, NEW e \in Deploys, ReadFails(r, e) PROVE OrderInv(d)'
  BY <1>4 DEF ReadFails
<1>5. ASSUME NEW r \in Reqs, SendVerb(r) \/ GetAnswer(r) \/ WriteRow(r) PROVE OrderInv(d)'
  <2>1. CASE on[r] = d
    BY <1>0, <1>5, <2>1, SendOrder, AnswerOrder, WriteOrder
  <2>2. CASE on[r] # d
    <3>1. "start" \in Verbs
      BY DEF Verbs
    <3>2. Same(d)
      BY <1>5, <2>2, <3>1, OtherRequest
    <3> QED
      BY <1>0, <3>2, SameKeeps
  <2> QED
    BY <2>1, <2>2
<1>6. ASSUME NEW r \in Reqs, NEW w \in Verbs, NEW v \in {"ok", "fail"}, RunVerb(r, w, v)
      PROVE OrderInv(d)'
  <2>1. CASE on[r] = d
    BY <1>0, <1>6, <2>1, VerbOrder
  <2>2. CASE on[r] # d
    BY <1>0, <1>6, <2>2, OtherRequest, SameKeeps
  <2> QED
    BY <2>1, <2>2
<1>7. ASSUME NEW k \in Cmds, Answered(k) PROVE OrderInv(d)'
  BY <1>0, <1>7, AnsweredOrder
<1>8. CASE Crash
  BY <1>8 DEF Crash
<1>9. CASE UNCHANGED vars
  <2>1. Same(d)
    BY <1>9 DEF Same, vars, rowVars, reqVars, portVars
  <2> QED
    BY <1>0, <2>1, SameKeeps
<1> QED
  BY <1>1, <1>2, <1>3, <1>4, <1>5, <1>6, <1>7, <1>8, <1>9 DEF Next

LEMMA UseInit == Init => CallsInv /\ UseInv
<1> SUFFICES ASSUME Init PROVE CallsInv /\ UseInv
  OBVIOUS
<1>1. CallsInv
  BY DEF Init, CallsInv, Port!Init, Cmds, Verbs
<1>2. ASSUME NEW d \in Deploys PROVE OrderInv(d)
  <2>1. worker[d] = "none" /\ rows[d] = None /\ container[d] = "none"
        /\ \A r \in Reqs : on[r] = None
    BY DEF Init
  <2>2. call[Create(d)] = "idle"
    BY DEF Init, Port!Init, Cmds, Create
  <2> QED
    BY <2>1, <2>2, NoneAssumption DEF OrderInv, Created
<1> QED
  BY <1>1, <1>2 DEF UseInv

\* A deployment at rest after an orderly use is deleted, container and all, or
\* its row names its container and has the container's status.
LEMMA OrderlyAtRest ==
  ASSUME TypeOK, CreateInv, UseInv, NEW d \in Deploys, Orderly(d)
  PROVE  Rest(d) \/ Gone(d)
<1>1. ASSUME NEW r \in Reqs, NEW w \in Verbs, on[r] = d PROVE answer[<<r, w>>] \in {"none", "ok"}
  <2>1. <<r, w>> \in Cmds /\ call \in [Cmds -> {"idle", "open", "closed"}]
    BY DEF Cmds, TypeOK, Port!TypeOK
  <2>2. answer[<<r, w>>] # "none" => call[<<r, w>>] # "idle"
    BY <2>1 DEF CreateInv
  <2> QED
    BY <1>1, <2>2 DEF Orderly
<1>2. Clean(d)
  BY <1>1 DEF Clean, Orderly
<1>3. OrderInv(d)
  BY <1>2 DEF UseInv, Orderly
<1> QED
  BY <1>3, AtRest DEF Orderly, Settled, OrderInv, Created

LEMMA OrderlyUse == Spec => [](TypeOK /\ CreateInv /\ UseInv)
<1>1. Init => CreateInv
  BY DEF Init, CreateInv, Port!Init, Create, Cmds
<1> QED
  BY <1>1, UseInit, CreateStep, CallsStep, UseStep, DeployTypeCorrect, PTL DEF Spec, Safety

\* With orderly use the stored status of a deployment at rest is that of its
\* container, after any sequence of starts, stops, updates and deletions.
THEOREM StatusIsTrue == Spec => []StatusFollowsContainer
<1>1. TypeOK /\ CreateInv /\ UseInv => StatusFollowsContainer
  BY OrderlyAtRest DEF StatusFollowsContainer, Rest, Gone, Exact
<1> QED
  BY <1>1, OrderlyUse, PTL

\* With orderly use no container is lost: the one that exists is named by the
\* row of its deployment.
THEOREM NoContainerLost == Spec => []NoOrphan
<1>1. TypeOK /\ CreateInv /\ UseInv => NoOrphan
  BY OrderlyAtRest DEF NoOrphan, Rest, Gone, Bound, Exists
<1> QED
  BY <1>1, OrderlyUse, PTL
=============================================================================
