----------------------------- MODULE ScreensProofs -----------------------------
(***************************************************************************)
(* Proofs about the screens of the command line (Screens): a screen waits  *)
(* for one answer at most, a form is honest about what it has made, and a  *)
(* menu acts on the deployment under the cursor.                           *)
(*                                                                         *)
(* A step is one of a CLI, which changes what that CLI shows and perhaps   *)
(* the table, or one of the other side, which changes the table only.  So  *)
(* the invariant is a conjunction over the CLIs, and of the table only     *)
(* what no step takes back is needed (Kept).                               *)
(***************************************************************************)
EXTENDS Screens, FiniteSetTheorems, TLAPS

(* What is in flight follows from the screen and its flag: an idle screen  *)
(* has nothing, a loading one the request it waits for; polling takes its  *)
(* turn between a tick and a poll, and a dial runs beside its screen.      *)
Idle(c) == ~loading[c] /\ cmds[c] = <<>> /\ scr[c] \notin {"deploying", "polling"}
Waits(c, s, cmd) == scr[c] = s /\ loading[c] /\ cmds[c] = <<cmd>>
Beside(c, s, cmd) == scr[c] = s /\ ~loading[c] /\ cmds[c] = <<cmd>>
Pends(c) ==
  \/ Idle(c)
  \/ Waits(c, "templates", "templates") \/ Waits(c, "deploying", "create")
  \/ Waits(c, "list", "list") \/ Waits(c, "edit", "update")
  \/ Beside(c, "polling", "tick") \/ Beside(c, "polling", "poll")
  \/ Beside(c, "logs", "dial")

(* A row that says running, or exited, has had its container.              *)
RowInv == \A i \in Ids : rows[i].status \in {"running", "exited"} => rows[i].cont # "none"
Deleted == \E i \in Ids : rows[i].status = "deleted"

(* A row is made on the way to polling; what is shown afterwards is an     *)
(* error or the deployment made.                                           *)
Counts(c) ==
  /\ made[c] <= Len(rows) /\ made[c] <= 1 + retried[c]
  /\ scr[c] \notin {"polling", "done"} => made[c] <= retried[c]
Reports(c) ==
  /\ scr[c] \in {"polling", "done"} => dep[c] \in Ids
  /\ scr[c] = "done" => rows[dep[c]].cont # "none"

(* The list is of rows there are, all of them if none was deleted; so it   *)
(* takes a deletion for the cursor to be past its end.  And it takes one   *)
(* for a verb that is offered to be refused: the row had a container.      *)
Lists(c) ==
  /\ Len(list[c]) <= Len(rows)
  /\ (cursor[c] = 1 \/ cursor[c] <= Len(rows))
  /\ \/ Deleted \/ list[c] = <<>> \/ cursor[c] <= Len(list[c])
  /\ \A k \in 1 .. Len(list[c]) :
       list[c][k].status \in {"running", "exited"} => rows[list[c][k].id].cont # "none"
Blames(c) ==
  /\ err[c] => Cause
  /\ scr[c] \in {"actions", "edit", "logs"} => list[c] # <<>>
Selects(c) ==
  /\ scr[c] \in {"actions", "edit", "logs"} =>
       cursor[c] <= Len(list[c]) /\ dep[c] = list[c][cursor[c]].id
  /\ scr[c] = "crashed" => Deleted

(* What no step takes back of the table: a row, that it had a container,   *)
(* that it was deleted.                                                    *)
Kept ==
  /\ rows' \in Seq(Row) /\ Len(rows') <= MaxRows /\ Len(rows) <= Len(rows')
  /\ \A i \in Ids : /\ rows[i].cont # "none" => rows'[i].cont # "none"
                    /\ rows[i].status = "deleted" => rows'[i].status = "deleted"

(* A cause of an error remains one.                                        *)
Grows == faults <= faults' /\ (Cause => Cause')

(* The other CLIs show what they showed.                                   *)
Others(c) ==
  \A d \in Clis \ {c} :
    /\ scr'[d] = scr[d] /\ loading'[d] = loading[d] /\ cmds'[d] = cmds[d]
    /\ dep'[d] = dep[d] /\ list'[d] = list[d] /\ cursor'[d] = cursor[d] /\ err'[d] = err[d]
    /\ made'[d] = made[d] /\ retried'[d] = retried[d]

-----------------------------------------------------------------------------
(* The table.                                                              *)

LEMMA RowSet ==
  ASSUME TypeOK, RowInv, NEW i \in Ids, NEW r \in Row, rows' = [rows EXCEPT ![i] = r],
         rows[i].cont # "none" => r.cont # "none",
         rows[i].status = "deleted" => r.status = "deleted",
         r.status \in {"running", "exited"} => r.cont # "none"
  PROVE  Kept /\ RowInv'
<1>1. rows \in Seq(Row) /\ Len(rows) <= MaxRows /\ i \in 1 .. Len(rows)
  BY DEF TypeOK, Ids
<1>2. rows' \in Seq(Row) /\ Len(rows') = Len(rows)
  BY <1>1
<1>3. \A j \in 1 .. Len(rows) : rows'[j] = IF j = i THEN r ELSE rows[j]
  BY <1>1
<1> QED
  BY <1>1, <1>2, <1>3 DEF Kept, RowInv, Ids

LEMMA RowAdded ==
  ASSUME TypeOK, RowInv, Len(rows) < MaxRows, rows' = Append(rows, NewRow)
  PROVE  Kept /\ RowInv' /\ Len(rows') = Len(rows) + 1
<1>1. rows \in Seq(Row) /\ NewRow \in Row /\ MaxRows \in Nat
  BY BoundAssumption DEF TypeOK, NewRow, Row
<1>2. rows' \in Seq(Row) /\ Len(rows') = Len(rows) + 1
  BY <1>1
<1>3. /\ \A j \in 1 .. Len(rows) : rows'[j] = rows[j]
      /\ rows'[Len(rows) + 1] = NewRow
  BY <1>1
<1> QED
  BY <1>1, <1>2, <1>3 DEF Kept, RowInv, Ids, NewRow

LEMMA CauseStays ==
  ASSUME TypeOK, Kept, faults' \in Int, faults <= faults'
  PROVE  Grows
<1>1. faults \in Int /\ Len(rows) \in Nat
  BY DEF TypeOK
<1>2. Deleted => Deleted'
  BY <1>1 DEF Deleted, Kept, Ids
<1> QED
  BY <1>1, <1>2 DEF Grows, Cause, Deleted

LEMMA RowsStay ==
  ASSUME TypeOK, RowInv, UNCHANGED rows
  PROVE  /\ Kept /\ RowInv' /\ Ids' = Ids /\ Deleted' = Deleted
         /\ faults <= faults' /\ faults' \in Int => Grows
<1>1. Kept /\ RowInv' /\ Ids' = Ids /\ Deleted' = Deleted
  BY DEF TypeOK, Kept, RowInv, Ids, Deleted
<1>2. faults \in Int
  BY DEF TypeOK
<1> QED
  BY <1>1, <1>2 DEF Grows, Cause, Deleted

LEMMA FaultsGrow ==
  ASSUME TypeOK
  PROVE  /\ faults \in Int /\ faults <= faults /\ faults <= faults + 1
         /\ UNCHANGED faults \/ Fault => faults' \in 0 .. MaxFaults /\ faults <= faults'
BY BoundAssumption DEF TypeOK, Fault

(* What Start, Stop and Delete make of a row.                              *)
LEMMA VerbDone ==
  ASSUME TypeOK, RowInv, NEW i \in Ids, NEW verb \in {"Start", "Stop", "Delete"},
         Allowed(i, verb), NEW r \in AfterVerb(i, verb)
  PROVE  /\ r \in Row
         /\ rows[i].cont # "none" => r.cont # "none"
         /\ rows[i].status = "deleted" => r.status = "deleted"
         /\ r.status \in {"running", "exited"} => r.cont # "none"
<1>1. rows[i] \in Row /\ rows[i].status # "deleted"
  BY DEF TypeOK, Ids, Allowed, Has
<1>2. CASE verb = "Start"
  BY <1>1, <1>2 DEF AfterVerb, Becomes, Allowed, Has, Row
<1>3. CASE verb = "Stop"
  BY <1>1, <1>3 DEF AfterVerb, Becomes, Allowed, Has, Row
<1>4. CASE verb = "Delete"
  BY <1>1, <1>4 DEF AfterVerb, Becomes, Allowed, Has, Row
<1> QED
  BY <1>2, <1>3, <1>4

(* And what they make of it when they fail.                                *)
LEMMA VerbKeeps ==
  ASSUME TypeOK, RowInv, NEW i \in Ids, NEW verb \in {"Start", "Stop", "Delete"},
         Allowed(i, verb), NEW r \in AfterVerb(i, verb) \union Halfway(i, verb)
  PROVE  /\ r \in Row
         /\ rows[i].cont # "none" => r.cont # "none"
         /\ rows[i].status = "deleted" => r.status = "deleted"
         /\ r.status \in {"running", "exited"} => r.cont # "none"
<1>1. CASE r \in AfterVerb(i, verb)
  BY <1>1, VerbDone
<1>2. CASE r \in Halfway(i, verb)
  <2>1. PICK a \in AfterVerb(i, verb) : r = [rows[i] EXCEPT !.cont = a.cont]
    BY <1>2 DEF Halfway
  <2>2. a \in Row /\ (rows[i].cont # "none" => a.cont # "none")
    BY VerbDone
  <2>3. rows[i] \in Row
    BY DEF TypeOK, Ids
  <2>4. r \in Row /\ r.cont = a.cont /\ r.status = rows[i].status
    BY <2>1, <2>2, <2>3 DEF Row
  <2>5. rows[i].status \in {"running", "exited"} => rows[i].cont # "none"
    BY DEF RowInv
  <2> QED
    BY <2>2, <2>4, <2>5
<1> QED
  BY <1>1, <1>2

(* The steps of the other side.                                            *)
LEMMA OtherSide ==
  ASSUME TypeOK, RowInv, NEW i,
         Worker(i) \/ WorkerLost(i) \/ ContainerEnds(i) \/ ContainerRestarts(i)
  PROVE  Kept /\ RowInv' /\ UNCHANGED tui /\ faults' \in 0 .. MaxFaults /\ Grows
<1>0. faults' \in 0 .. MaxFaults /\ faults <= faults' /\ (Kept => Grows)
  <2>1. UNCHANGED faults \/ Fault
    BY DEF Worker, WorkerLost, ContainerEnds, ContainerRestarts
  <2> QED
    BY <2>1, FaultsGrow, CauseStays
<1>1. i \in Ids /\ rows[i] \in Row
  <2>1. i \in Ids
    BY DEF Worker, WorkerLost, ContainerEnds, ContainerRestarts
  <2> QED
    BY <2>1 DEF TypeOK, Ids
<1>2. CASE Worker(i)
  <2>1. PICK ok \in BOOLEAN :
          rows' = [rows EXCEPT ![i].worker = FALSE,
                     ![i].cont = IF ok THEN "running" ELSE @,
                     ![i].status = IF @ = "deleted" THEN @ ELSE IF ok THEN "running" ELSE "error"]
    BY <1>2 DEF Worker
  <2> DEFINE r == [rows[i] EXCEPT !.worker = FALSE,
                     !.cont = IF ok THEN "running" ELSE @,
                     !.status = IF @ = "deleted" THEN @ ELSE IF ok THEN "running" ELSE "error"]
  <2>2. rows' = [rows EXCEPT ![i] = r]
    BY <1>1, <2>1 DEF Row, TypeOK, Ids
  <2>3. /\ r \in Row
        /\ rows[i].cont # "none" => r.cont # "none"
        /\ rows[i].status = "deleted" => r.status = "deleted"
        /\ r.status \in {"running", "exited"} => r.cont # "none"
    BY <1>1 DEF Row
  <2> HIDE DEF r
  <2> QED
    BY <1>0, <1>1, <1>2, <2>2, <2>3, RowSet DEF Worker
<1>3. CASE WorkerLost(i)
  <2> DEFINE r == [rows[i] EXCEPT !.worker = FALSE]
  <2>2. rows' = [rows EXCEPT ![i] = r]
    BY <1>1, <1>3 DEF Row, TypeOK, Ids, WorkerLost
  <2>3. r \in Row /\ r.cont = rows[i].cont /\ r.status = rows[i].status
    BY <1>1 DEF Row
  <2> HIDE DEF r
  <2>4. r.status \in {"running", "exited"} => r.cont # "none"
    BY <1>1, <2>3 DEF RowInv
  <2>5. Kept /\ RowInv'
    BY <1>1, <2>2, <2>3, <2>4, RowSet
  <2> QED
    BY <1>0, <1>3, <2>5 DEF WorkerLost
<1>4. CASE ContainerEnds(i)
  <2> DEFINE r == [rows[i] EXCEPT !.cont = "exited"]
  <2>2. rows' = [rows EXCEPT ![i] = r]
    BY <1>1, <1>4 DEF Row, TypeOK, Ids, ContainerEnds
  <2>3. r \in Row /\ r.cont = "exited" /\ r.status = rows[i].status
    BY <1>1 DEF Row
  <2> HIDE DEF r
  <2>5. Kept /\ RowInv'
    BY <1>1, <2>2, <2>3, RowSet
  <2> QED
    BY <1>0, <1>4, <2>5 DEF ContainerEnds
<1>5. CASE ContainerRestarts(i)
  <2> DEFINE r == [rows[i] EXCEPT !.cont = "running"]
  <2>2. rows' = [rows EXCEPT ![i] = r]
    BY <1>1, <1>5 DEF Row, TypeOK, Ids, ContainerRestarts
  <2>3. r \in Row /\ r.cont = "running" /\ r.status = rows[i].status
    BY <1>1 DEF Row
  <2> HIDE DEF r
  <2>5. Kept /\ RowInv'
    BY <1>1, <2>2, <2>3, RowSet
  <2> QED
    BY <1>0, <1>5, <2>5 DEF ContainerRestarts
<1> QED
  BY <1>2, <1>3, <1>4, <1>5

-----------------------------------------------------------------------------
(* The steps of a CLI.                                                     *)

Command == {"templates", "create", "tick", "poll", "list", "update", "dial"}
Sound(c) == Pends(c) /\ Counts(c) /\ Reports(c) /\ Lists(c) /\ Selects(c) /\ Blames(c)

(* What a CLI does leaves the rest as it was, and its own screen sound.    *)
Fine(c) ==
  TypeOK' /\ RowInv' /\ Kept /\ Grows /\ Others(c) /\ Sound(c)'

Entry == [id : Ids, status : {"pending", "running", "exited", "error"}]

(* A list stays one when the table grows.                                  *)
LEMMA Entries ==
  ASSUME TypeOK, Kept
  PROVE  Ids \subseteq Ids' /\ Seq(Entry) \subseteq Seq(Entry')
<1>1. Ids \subseteq Ids'
  BY DEF Kept, Ids, TypeOK
<1>2. Entry \subseteq Entry'
  BY <1>1 DEF Entry
<1>3. ASSUME NEW s \in Seq(Entry) PROVE s \in Seq(Entry')
  <2>1. Len(s) \in Nat /\ s \in [1 .. Len(s) -> Entry]
    OBVIOUS
  <2>2. s \in [1 .. Len(s) -> Entry']
    BY <1>2, <2>1
  <2> QED
    BY <2>1, <2>2
<1> QED
  BY <1>1, <1>3

LEMMA Commands == <<>> \in Seq(Command) /\ \A cmd \in Command : <<cmd>> \in Seq(Command)
OBVIOUS

(* Of a screen with one command in flight, that one is taken.              *)
LEMMA Took ==
  ASSUME TypeOK, NEW c \in Clis, Pends(c), NEW i, NEW cmd, Flies(c, i, cmd),
         NEW started \in Seq(Command), Takes(c, i, started)
  PROVE  cmds[c] = <<cmd>> /\ cmds' = [cmds EXCEPT ![c] = started]
<1>1. PICK x : cmds[c] = <<x>>
  BY DEF Pends, Idle, Waits, Beside, Flies
<1>2. i = 1 /\ x = cmd
  BY <1>1 DEF Flies
<1>3. RemoveAt(<<x>>, 1) = <<>>
  BY DEF RemoveAt
<1>4. <<>> \o started = started
  OBVIOUS
<1> QED
  BY <1>1, <1>2, <1>3, <1>4 DEF Takes, TypeOK

LEMMA Began ==
  ASSUME TypeOK, NEW c \in Clis, Pends(c), ~loading[c], scr[c] \notin {"polling", "logs"},
         NEW started \in Seq(Command), Starts(c, started)
  PROVE  cmds[c] = <<>> /\ cmds' = [cmds EXCEPT ![c] = started]
<1>1. cmds[c] = <<>>
  BY DEF Pends, Idle, Waits, Beside
<1>2. <<>> \o started = started
  OBVIOUS
<1> QED
  BY <1>1, <1>2 DEF Starts, TypeOK

(* Where the table only grows, what was sound of a CLI stays so.           *)
LEMMA ListsStay ==
  ASSUME TypeOK, Kept, NEW c \in Clis, list'[c] = list[c], cursor'[c] = cursor[c]
  PROVE  /\ (Lists(c) => Lists(c)') /\ (Deleted => Deleted')
         /\ Grows /\ err'[c] = err[c] /\ Blames(c)
            /\ (scr'[c] \in {"actions", "edit", "logs"} => list[c] # <<>>) => Blames(c)'
<1>1. Len(rows) \in Nat /\ Len(rows') \in Nat /\ Len(rows) <= Len(rows')
  BY DEF TypeOK, Kept
<1>2. Deleted => Deleted'
  BY <1>1 DEF Deleted, Kept, Ids
<1>3. cursor[c] \in Nat /\ Len(list[c]) \in Nat
  BY BoundAssumption DEF TypeOK
<1>4. Blames(c) /\ Grows /\ err'[c] = err[c]
      /\ (scr'[c] \in {"actions", "edit", "logs"} => list[c] # <<>>) => Blames(c)'
  BY DEF Blames, Grows
<1>5. ASSUME NEW k \in 1 .. Len(list[c]) PROVE list[c][k].id \in Ids
  <2>1. list \in [Clis -> Seq(Entry)]
    BY DEF TypeOK, Entry
  <2>2. list[c][k] \in Entry
    BY <2>1
  <2> QED
    BY <2>2 DEF Entry
<1>6. ASSUME Lists(c) PROVE Lists(c)'
  <2>1. \A k \in 1 .. Len(list[c]) :
          list[c][k].status \in {"running", "exited"} => rows'[list[c][k].id].cont # "none"
    BY <1>5, <1>6 DEF Lists, Kept
  <2> QED
    BY <1>1, <1>2, <1>3, <1>6, <2>1 DEF Lists
<1> QED
  BY <1>2, <1>4, <1>6

LEMMA Rowed ==
  ASSUME NEW c \in Clis, Sound(c)
  PROVE  scr[c] \in {"actions", "edit", "logs"} => list[c] # <<>>
BY DEF Sound, Blames

LEMMA Opens ==
  ASSUME TypeOK, RowInv, NEW c \in Clis, Sound(c),
         OpenDeploy(c) \/ OpenList(c) \/ PickTemplate(c)
  PROVE  Fine(c)
<1>1. Kept /\ RowInv' /\ Ids' = Ids /\ Deleted' = Deleted /\ Grows
  BY RowsStay, FaultsGrow DEF OpenDeploy, OpenList, PickTemplate
<1>2. CASE OpenDeploy(c)
  BY <1>1, <1>2, ListsStay
  DEF OpenDeploy, Fine, TypeOK, Kept, Others, Sound, Pends, Idle, Waits, Beside,
       Counts, Reports, Selects, Shows
<1>3. CASE OpenList(c)
  <2>1. ~loading[c]
    BY <1>3 DEF OpenList, Sound, Pends, Idle, Waits, Beside
  <2>2. <<"list">> \in Seq(Command)
    BY DEF Command
  <2>3. cmds' = [cmds EXCEPT ![c] = <<"list">>]
    BY <1>3, <2>1, <2>2, Began DEF OpenList, Sound
  <2>4. TypeOK'
    BY <1>1, <1>3, <2>2, <2>3 DEF OpenList, TypeOK, Kept, Shows, Loads, Command
  <2>5. Others(c)
    BY <1>3, <2>3 DEF OpenList, TypeOK, Others, Shows, Loads
  <2>6. Sound(c)'
    BY <1>1, <1>3, <2>3, ListsStay
    DEF OpenList, TypeOK, Sound, Pends, Waits, Counts, Reports, Selects, Shows, Loads
  <2> QED
    BY <1>1, <2>4, <2>5, <2>6 DEF Fine
<1>4. CASE PickTemplate(c)
  BY <1>1, <1>4, ListsStay
  DEF PickTemplate, Fine, TypeOK, Kept, Others, Sound, Pends, Idle, Waits, Beside,
       Counts, Reports, Selects, Shows
<1> QED
  BY <1>2, <1>3, <1>4

LEMMA Leaves ==
  ASSUME TypeOK, RowInv, NEW c \in Clis, Sound(c), Leave(c)
  PROVE  Fine(c)
<1>1. Kept /\ RowInv'
  BY RowsStay, RowAdded DEF Leave
<1>2. /\ scr' = [scr EXCEPT ![c] = "home"] /\ loading' = [loading EXCEPT ![c] = FALSE]
      /\ cmds' = [cmds EXCEPT ![c] = <<>>] /\ faults' = faults
      /\ dep' = [dep EXCEPT ![c] = None]
      /\ err' = [err EXCEPT ![c] = FALSE]
      /\ list' = [list EXCEPT ![c] = <<>>] /\ cursor' = [cursor EXCEPT ![c] = 1]
      /\ made' = [made EXCEPT ![c] = 0] /\ retried' = [retried EXCEPT ![c] = 0]
  BY DEF Leave, Fresh, Shows, Loads
<1>3. TypeOK'
  <2>1. Ids \subseteq Ids'
    BY <1>1, Entries
  <2>2. scr' \in [Clis -> {"home", "choose", "templates", "form", "deploying", "polling",
                       "done", "list", "actions", "edit", "logs", "crashed"}]
    BY <1>2 DEF TypeOK
  <2>3. dep' \in [Clis -> Ids' \union {None}]
    BY <1>2, <2>1 DEF TypeOK
  <2>4. list' \in [Clis -> Seq(Entry')]
    <3>1. list \in [Clis -> Seq(Entry)] /\ Seq(Entry) \subseteq Seq(Entry')
      BY <1>1, Entries DEF TypeOK, Entry
    <3>2. <<>> \in Seq(Entry')
      OBVIOUS
    <3> QED
      BY <1>2, <3>1, <3>2
  <2>5. /\ loading' \in [Clis -> BOOLEAN] /\ cmds' \in [Clis -> Seq(Command)]
        /\ cursor' \in [Clis -> 1 .. MaxRows] /\ made' \in [Clis -> 0 .. MaxRows]
        /\ err' \in [Clis -> BOOLEAN] /\ retried' \in [Clis -> Nat] /\ faults' \in 0 .. MaxFaults
    BY <1>2, Commands, BoundAssumption DEF TypeOK, Command
  <2> QED
    BY <1>1, <2>2, <2>3, <2>4, <2>5 DEF TypeOK, Kept, Command, Entry
<1>4. Others(c)
  BY <1>2 DEF TypeOK, Others
<1>5. Sound(c)'
  <2>1. Len(rows') \in Nat
    BY <1>3 DEF TypeOK
  <2> QED
    BY <1>2, <2>1 DEF TypeOK, Sound, Pends, Idle, Counts, Reports, Lists, Selects, Blames
<1> QED
  BY <1>1, <1>2, <1>3, <1>4, <1>5, FaultsGrow, CauseStays DEF Fine

LEMMA Chooses ==
  ASSUME TypeOK, RowInv, NEW c \in Clis, Sound(c), Choose(c) \/ Submit(c) \/ Save(c)
  PROVE  Fine(c)
<1>1. Kept /\ RowInv' /\ Ids' = Ids /\ Deleted' = Deleted /\ Grows /\ ~loading[c]
  BY RowsStay, FaultsGrow DEF Choose, Submit, Save
<1>2. {"templates", "create", "update"} \subseteq Command
  BY DEF Command
<1>3. ASSUME NEW s, NEW cmd \in Command,
             \/ scr[c] = "choose" /\ s = "templates" /\ cmd = "templates"
             \/ scr[c] = "form" /\ s = "deploying" /\ cmd = "create"
             \/ scr[c] = "edit" /\ s = "edit" /\ cmd = "update",
             Starts(c, <<cmd>>),
             scr' = [scr EXCEPT ![c] = s], Loads(c, TRUE),
             UNCHANGED <<rows, dep, list, cursor, err, made, retried, faults>>
      PROVE  Fine(c)
  <2>3. cmds' = [cmds EXCEPT ![c] = <<cmd>>]
    BY <1>1, <1>3, Commands, Began DEF Sound
  <2>4. TypeOK'
    BY <1>1, <1>3, <2>3, Commands DEF TypeOK, Kept, Loads, Command
  <2>5. Others(c)
    BY <1>3, <2>3 DEF TypeOK, Others, Loads
  <2>6. Sound(c)'
    BY <1>1, <1>3, <2>3, ListsStay, Rowed
    DEF TypeOK, Sound, Pends, Waits, Counts, Reports, Selects, Loads
  <2> QED
    BY <1>1, <2>4, <2>5, <2>6 DEF Fine
<1>4. CASE Choose(c) /\ UNCHANGED <<loading, cmds>>
  BY <1>1, <1>4, ListsStay
  DEF Choose, Fine, TypeOK, Kept, Others, Sound, Pends, Idle, Waits, Beside,
       Counts, Reports, Selects, Shows, Loads
<1>5. CASE Choose(c) /\ Starts(c, <<"templates">>) /\ Loads(c, TRUE) /\ Shows(c, "templates")
  <2>1. scr' = [scr EXCEPT ![c] = "templates"]
    BY <1>5 DEF Shows
  <2>2. scr[c] = "choose" /\ UNCHANGED <<rows, dep, list, cursor, err, made, retried, faults>>
    BY <1>5 DEF Choose
  <2> QED
    BY <1>2, <1>3, <1>5, <2>1, <2>2
<1>6. CASE Submit(c)
  <2>1. scr' = [scr EXCEPT ![c] = "deploying"]
    BY <1>6 DEF Submit, Shows
  <2> QED
    BY <1>2, <1>3, <1>6, <2>1 DEF Submit
<1>7. CASE Save(c)
  <2>1. scr' = [scr EXCEPT ![c] = "edit"]
    BY <1>7 DEF Save, TypeOK
  <2> QED
    BY <1>2, <1>3, <1>7, <2>1 DEF Save
<1> QED
  BY <1>4, <1>5, <1>6, <1>7 DEF Choose

LEMMA TemplatesCome ==
  ASSUME TypeOK, RowInv, NEW c \in Clis, Sound(c), NEW i, TemplatesList(c, i)
  PROVE  Fine(c)
<1>1. Kept /\ RowInv' /\ Ids' = Ids /\ Deleted' = Deleted /\ Grows
  BY RowsStay, FaultsGrow DEF TemplatesList
<1>2. cmds[c] = <<"templates">> /\ cmds' = [cmds EXCEPT ![c] = <<>>]
  BY Took, Commands DEF TemplatesList, Sound
<1>3. scr[c] = "templates"
  BY <1>2 DEF Sound, Pends, Idle, Waits, Beside
<1>4. faults' \in 0 .. MaxFaults
  BY BoundAssumption DEF TemplatesList, Fault, TypeOK
<1>5. TypeOK'
  <2>1. CASE UNCHANGED scr
    BY <1>1, <1>2, <1>4, <2>1, Commands DEF TemplatesList, TypeOK, Kept, Loads, Command
  <2>2. CASE Shows(c, "choose")
    BY <1>1, <1>2, <1>4, <2>2, Commands DEF TemplatesList, TypeOK, Kept, Loads, Shows, Command
  <2> QED
    BY <2>1, <2>2 DEF TemplatesList
<1>6. Others(c)
  BY <1>2 DEF TemplatesList, TypeOK, Others, Shows, Loads
<1>7. Sound(c)'
  BY <1>1, <1>2, <1>3, ListsStay
  DEF TemplatesList, TypeOK, Sound, Pends, Idle, Counts, Reports, Selects, Shows, Loads
<1> QED
  BY <1>1, <1>5, <1>6, <1>7 DEF Fine

LEMMA Created ==
  ASSUME TypeOK, RowInv, NEW c \in Clis, Sound(c), NEW i, DeployResult(c, i)
  PROVE  Fine(c)
<1>1. cmds[c] = <<"create">> /\ scr[c] = "deploying" /\ Len(rows) \in Nat
  <2>1. cmds[c] = <<"create">>
    BY Took, Commands DEF DeployResult, Sound, Pends, Idle, Waits, Beside, Flies
  <2> QED
    BY <2>1 DEF Sound, Pends, Idle, Waits, Beside, TypeOK
<1>2. /\ faults' \in 0 .. MaxFaults /\ (Kept => Grows)
      /\ list' = list /\ cursor' = cursor /\ err' = err
  <2>1. UNCHANGED faults \/ Fault
    BY DEF DeployResult
  <2> QED
    BY <2>1, FaultsGrow, CauseStays DEF DeployResult
<1>3. ASSUME Inserts(c)
      PROVE  Kept /\ RowInv' /\ Len(rows') = Len(rows) + 1
  BY <1>3, RowAdded DEF Inserts
<1>4. Flies(c, i, "create") /\ loading' = [loading EXCEPT ![c] = FALSE]
  BY DEF DeployResult, Loads
<1>5. CASE /\ Inserts(c)
           /\ dep' = [dep EXCEPT ![c] = Len(rows) + 1]
           /\ Shows(c, "polling") /\ Takes(c, i, <<"tick">>)
           /\ UNCHANGED <<retried, faults>>
  <2>1. cmds' = [cmds EXCEPT ![c] = <<"tick">>]
    <3>1. <<"tick">> \in Seq(Command)
      BY Commands DEF Command
    <3> QED
      BY <1>4, <1>5, <3>1, Took DEF Sound
  <2>2. /\ scr' = [scr EXCEPT ![c] = "polling"] /\ made' = [made EXCEPT ![c] = @ + 1]
        /\ Kept /\ RowInv' /\ Len(rows') = Len(rows) + 1
    BY <1>3, <1>5 DEF Shows, Inserts
  <2>3. made[c] + 1 <= 1 + retried[c] /\ made[c] + 1 <= Len(rows')
    BY <1>1, <2>2 DEF Sound, Counts, TypeOK
  <2>4. TypeOK'
    <3>1. dep' \in [Clis -> Ids' \union {None}]
      <4>1. Len(rows) + 1 \in Ids'
        BY <1>1, <2>2 DEF Ids
      <4> QED
        BY <1>5, <2>2, <4>1, Entries DEF TypeOK
    <3>2. list' \in [Clis -> Seq(Entry')]
      BY <1>2, <2>2, Entries DEF TypeOK, Entry
    <3>3. /\ scr' \in [Clis -> {"home", "choose", "templates", "form", "deploying", "polling",
                       "done", "list", "actions", "edit", "logs", "crashed"}]
          /\ loading' \in [Clis -> BOOLEAN] /\ cmds' \in [Clis -> Seq(Command)]
      BY <1>4, <2>1, <2>2, Commands DEF TypeOK, Command
    <3>4. made' \in [Clis -> 0 .. MaxRows]
      BY <2>2, <2>3, BoundAssumption DEF TypeOK, Kept
    <3> QED
      BY <1>2, <1>5, <2>2, <3>1, <3>2, <3>3, <3>4 DEF TypeOK, Kept, Command, Entry
  <2>5. Others(c)
    BY <1>2, <1>4, <1>5, <2>1, <2>2 DEF TypeOK, Others
  <2>6. Sound(c)'
    <3>1. Pends(c)'
      BY <1>4, <2>1, <2>2 DEF TypeOK, Pends, Beside
    <3>2. Counts(c)' /\ Reports(c)'
      BY <1>1, <1>5, <2>2, <2>3 DEF TypeOK, Counts, Reports, Ids
    <3>3. Lists(c)' /\ Selects(c)' /\ Blames(c)'
      BY <1>2, <2>2, ListsStay DEF TypeOK, Sound, Selects
    <3> QED
      BY <3>1, <3>2, <3>3 DEF Sound
  <2> QED
    BY <1>2, <2>2, <2>4, <2>5, <2>6 DEF Fine
<1>6. CASE /\ Shows(c, "form") /\ Takes(c, i, <<>>)
           /\ \/ Inserts(c) /\ retried' = [retried EXCEPT ![c] = @ + 1]
              \/ UNCHANGED <<rows, made, retried>>
           /\ UNCHANGED dep
  <2>1. cmds' = [cmds EXCEPT ![c] = <<>>]
    BY <1>4, <1>6, Commands, Took DEF Sound
  <2>2. Kept /\ RowInv' /\ scr' = [scr EXCEPT ![c] = "form"] /\ dep' = dep
    BY <1>3, <1>6, RowsStay DEF Shows
  <2>3. /\ made' \in [Clis -> Nat] /\ retried' \in [Clis -> Nat]
        /\ made'[c] <= retried'[c] /\ made'[c] <= Len(rows')
        /\ \A d \in Clis \ {c} : made'[d] = made[d] /\ retried'[d] = retried[d]
    <3>1. CASE Inserts(c) /\ retried' = [retried EXCEPT ![c] = @ + 1]
      BY <1>1, <1>3, <3>1 DEF Inserts, TypeOK, Sound, Counts
    <3>2. CASE UNCHANGED <<rows, made, retried>>
      BY <1>1, <3>2 DEF TypeOK, Sound, Counts
    <3> QED
      BY <1>6, <3>1, <3>2
  <2>4. TypeOK'
    <3>1. dep' \in [Clis -> Ids' \union {None}]
      BY <2>2, Entries DEF TypeOK
    <3>2. list' \in [Clis -> Seq(Entry')]
      BY <1>2, <2>2, Entries DEF TypeOK, Entry
    <3>3. /\ scr' \in [Clis -> {"home", "choose", "templates", "form", "deploying", "polling",
                       "done", "list", "actions", "edit", "logs", "crashed"}]
          /\ loading' \in [Clis -> BOOLEAN] /\ cmds' \in [Clis -> Seq(Command)]
      BY <1>4, <2>1, <2>2, Commands DEF TypeOK, Command
    <3>4. made' \in [Clis -> 0 .. MaxRows]
      <4>1. made'[c] \in 0 .. MaxRows
        BY <2>2, <2>3, BoundAssumption DEF Kept
      <4>2. \A d \in Clis \ {c} : made'[d] \in 0 .. MaxRows
        BY <2>3 DEF TypeOK
      <4> QED
        BY <2>3, <4>1, <4>2
    <3> QED
      BY <1>2, <2>2, <2>3, <3>1, <3>2, <3>3, <3>4 DEF TypeOK, Kept, Command, Entry
  <2>5. Others(c)
    BY <1>2, <1>4, <2>1, <2>2, <2>3 DEF TypeOK, Others
  <2>6. Sound(c)'
    <3>1. Pends(c)'
      BY <1>4, <2>1, <2>2 DEF TypeOK, Pends, Idle
    <3>2. Counts(c)' /\ Reports(c)'
      <4>1. made'[c] \in Nat /\ retried'[c] \in Nat
        BY <2>3
      <4>2. scr'[c] = "form"
        BY <2>2 DEF TypeOK
      <4> QED
        BY <2>3, <4>1, <4>2 DEF Counts, Reports
    <3>3. Lists(c)' /\ Selects(c)' /\ Blames(c)'
      BY <1>2, <2>2, ListsStay DEF TypeOK, Sound, Selects
    <3> QED
      BY <3>1, <3>2, <3>3 DEF Sound
  <2> QED
    BY <1>2, <2>2, <2>4, <2>5, <2>6 DEF Fine
<1> QED
  BY <1>5, <1>6 DEF DeployResult

(* The answers that leave the table alone and fetch no list: a tick, a     *)
(* poll, the dial of the logs and the refused edit.                        *)
LEMMA Polled ==
  ASSUME TypeOK, RowInv, NEW c \in Clis, Sound(c), NEW i, PollTick(c, i)
  PROVE  Fine(c)
<1>1. Kept /\ RowInv' /\ Ids' = Ids /\ Deleted' = Deleted /\ Grows
  BY RowsStay, FaultsGrow DEF PollTick
<1>2. cmds[c] = <<"tick">> /\ scr[c] = "polling" /\ ~loading[c]
  BY DEF PollTick, Sound, Pends, Idle, Waits, Beside, Flies
<1>3. cmds' = [cmds EXCEPT ![c] = <<"poll">>]
  <2>1. <<"poll">> \in Seq(Command)
    BY Commands DEF Command
  <2> QED
    BY <1>2, <2>1, Took DEF PollTick, Sound
<1> QED
  BY <1>1, <1>2, <1>3, Commands, ListsStay
  DEF PollTick, Fine, TypeOK, Kept, Others, Sound, Pends, Beside,
       Counts, Reports, Selects, Command

LEMMA PollBad ==
  ASSUME TypeOK, RowInv, NEW c \in Clis, Sound(c), NEW i, Flies(c, i, "poll"),
         BackToForm(c), Takes(c, i, <<>>), faults' \in 0 .. MaxFaults, faults <= faults',
         UNCHANGED <<rows, loading, dep, list, cursor, err, made>>
  PROVE  Fine(c)
<1>1. Kept /\ RowInv' /\ Ids' = Ids /\ Deleted' = Deleted /\ Grows
  BY RowsStay
<1>2. cmds[c] = <<"poll">> /\ cmds' = [cmds EXCEPT ![c] = <<>>]
  BY Took, Commands DEF Sound
<1>3. scr[c] = "polling" /\ ~loading[c]
  BY <1>2 DEF Sound, Pends, Idle, Waits, Beside
<1>4. scr' = [scr EXCEPT ![c] = "form"] /\ retried' = [retried EXCEPT ![c] = @ + 1]
  BY DEF BackToForm, Shows
<1>5. TypeOK'
  <2>1. /\ scr' \in [Clis -> {"home", "choose", "templates", "form", "deploying", "polling",
                       "done", "list", "actions", "edit", "logs", "crashed"}]
        /\ cmds' \in [Clis -> Seq(Command)] /\ retried' \in [Clis -> Nat]
    BY <1>2, <1>4, Commands DEF TypeOK, Command
  <2> QED
    BY <1>1, <2>1 DEF TypeOK, Kept, Command
<1>6. Others(c)
  BY <1>2, <1>4 DEF TypeOK, Others
<1>7. Sound(c)'
  <2>1. scr'[c] = "form" /\ retried'[c] = retried[c] + 1
    BY <1>4 DEF TypeOK
  <2>2. Lists(c)' /\ Blames(c)'
    BY <1>1, <2>1, ListsStay DEF Sound
  <2> QED
    BY <1>1, <1>2, <1>3, <2>1, <2>2 DEF TypeOK, Sound, Pends, Idle, Counts, Reports, Selects
<1> QED
  BY <1>1, <1>5, <1>6, <1>7 DEF Fine

LEMMA PollGood ==
  ASSUME TypeOK, RowInv, NEW c \in Clis, Sound(c), NEW i,
         PollFails(c, i) \/ PollResult(c, i)
  PROVE  Fine(c)
<1>1. Kept /\ RowInv' /\ Ids' = Ids /\ Deleted' = Deleted /\ Grows
  BY RowsStay, FaultsGrow DEF PollFails, PollResult
<1>2. cmds[c] = <<"poll">> /\ scr[c] = "polling" /\ ~loading[c]
  BY DEF PollFails, PollResult, Sound, Pends, Idle, Waits, Beside, Flies
<1>3. faults' \in 0 .. MaxFaults /\ faults <= faults'
  <2>1. UNCHANGED faults \/ Fault
    BY DEF PollFails, PollResult
  <2> QED
    BY <2>1, FaultsGrow
<1>4. CASE PollFails(c, i)
  BY <1>3, <1>4, PollBad DEF PollFails
<1>5. CASE PollResult(c, i) /\ BackToForm(c) /\ Takes(c, i, <<>>)
  BY <1>3, <1>5, PollBad DEF PollResult
<1>6. CASE PollResult(c, i) /\ Takes(c, i, <<"tick">>) /\ UNCHANGED <<scr, retried>>
  <2>1. cmds' = [cmds EXCEPT ![c] = <<"tick">>]
    <3>1. <<"tick">> \in Seq(Command)
      BY Commands DEF Command
    <3> QED
      BY <1>6, <3>1, Took DEF PollResult, Sound
  <2>2. UNCHANGED <<rows, scr, loading, dep, list, cursor, err, made, retried>>
    BY <1>6 DEF PollResult
  <2> QED
    BY <1>1, <1>2, <1>3, <2>1, <2>2, Commands, ListsStay
    DEF Fine, TypeOK, Kept, Others, Sound, Pends,
         Beside, Counts, Reports, Selects, Command
<1>7. CASE /\ PollResult(c, i) /\ "running" \in Answers(dep[c])
           /\ Shows(c, "done") /\ Takes(c, i, <<>>) /\ UNCHANGED retried
  <2>1. cmds' = [cmds EXCEPT ![c] = <<>>]
    BY <1>7, Took, Commands DEF PollResult, Sound
  <2>2. UNCHANGED <<rows, loading, dep, list, cursor, err, made, retried>>
        /\ scr' = [scr EXCEPT ![c] = "done"]
    BY <1>7 DEF PollResult, Shows
  <2>3. dep[c] \in Ids /\ rows[dep[c]].cont # "none"
    <3>1. dep[c] \in Ids
      BY <1>2 DEF Sound, Reports
    <3> QED
      BY <1>7, <3>1 DEF Answers, Inspected, RowInv
  <2>4. TypeOK'
    BY <1>1, <1>3, <2>1, <2>2, Commands DEF TypeOK, Kept, Command
  <2>5. Others(c)
    BY <2>1, <2>2 DEF TypeOK, Others
  <2>6. Sound(c)'
    BY <1>1, <1>2, <2>1, <2>2, <2>3, ListsStay
    DEF TypeOK, Sound, Pends, Idle, Counts, Reports, Selects
  <2> QED
    BY <1>1, <2>4, <2>5, <2>6 DEF Fine
<1> QED
  BY <1>4, <1>5, <1>6, <1>7 DEF PollResult

LEMMA Answered ==
  ASSUME TypeOK, RowInv, NEW c \in Clis, Sound(c), NEW i,
         LogLine(c, i) \/ DeployUpdate(c, i)
  PROVE  Fine(c)
<1>1. Kept /\ RowInv' /\ Ids' = Ids /\ Deleted' = Deleted /\ Grows
  BY RowsStay, FaultsGrow DEF LogLine, DeployUpdate
<1>2. CASE LogLine(c, i)
  <2>1. cmds[c] = <<"dial">> /\ cmds' = [cmds EXCEPT ![c] = <<>>]
    BY <1>2, Took, Commands DEF LogLine, Sound
  <2>2. scr[c] = "logs" /\ ~loading[c]
    BY <2>1 DEF Sound, Pends, Idle, Waits, Beside
  <2> QED
    BY <1>1, <1>2, <2>1, <2>2, Commands, ListsStay, Rowed
    DEF LogLine, Fine, TypeOK, Kept, Others, Sound, Pends,
         Idle, Counts, Reports, Selects, Command
<1>3. CASE DeployUpdate(c, i)
  <2>1. cmds[c] = <<"update">> /\ cmds' = [cmds EXCEPT ![c] = <<>>]
    BY <1>3, Took, Commands DEF DeployUpdate, Sound
  <2>2. scr[c] = "edit" /\ loading' = [loading EXCEPT ![c] = FALSE]
    BY <1>3, <2>1 DEF DeployUpdate, Loads, Sound, Pends, Idle, Waits, Beside
  <2> QED
    BY <1>1, <1>3, <2>1, <2>2, Commands, ListsStay, Rowed
    DEF DeployUpdate, Fine, TypeOK, Kept, Others, Sound,
         Pends, Idle, Counts, Reports, Selects, Command
<1> QED
  BY <1>2, <1>3

-----------------------------------------------------------------------------
(* The list of deployments.                                                *)

LEMMA Moves ==
  ASSUME TypeOK, RowInv, NEW c \in Clis, Sound(c), Move(c)
  PROVE  Fine(c)
<1>1. Kept /\ RowInv' /\ Ids' = Ids /\ Deleted' = Deleted /\ Grows
  BY RowsStay, FaultsGrow DEF Move
<1>2. /\ Len(list[c]) \in Nat /\ Len(rows) \in Nat /\ cursor[c] \in 1 .. MaxRows
      /\ MaxRows \in Nat /\ Len(rows) <= MaxRows /\ Len(list[c]) <= Len(rows)
  BY BoundAssumption DEF TypeOK, Sound, Lists
<1>3. PICK k \in 1 .. MaxRows :
        /\ cursor' = [cursor EXCEPT ![c] = k]
        /\ k <= Len(rows) /\ (cursor[c] <= Len(list[c]) => k <= Len(list[c]))
  <2>1. CASE cursor[c] < Len(list[c]) /\ cursor' = [cursor EXCEPT ![c] = @ + 1]
    <3> cursor[c] + 1 \in 1 .. MaxRows
      BY <1>2, <2>1
    <3> WITNESS cursor[c] + 1 \in 1 .. MaxRows
    <3> QED
      BY <1>2, <2>1
  <2>2. CASE cursor[c] > 1 /\ cursor' = [cursor EXCEPT ![c] = @ - 1]
    <3>1. cursor[c] <= Len(rows)
      BY <1>2, <2>2 DEF Sound, Lists
    <3> cursor[c] - 1 \in 1 .. MaxRows
      BY <1>2, <2>2
    <3> WITNESS cursor[c] - 1 \in 1 .. MaxRows
    <3> QED
      BY <1>2, <2>2, <3>1
  <2> QED
    BY <2>1, <2>2 DEF Move
<1>4. scr[c] = "list" /\ UNCHANGED <<rows, scr, loading, cmds, dep, list, err, made, retried, faults>>
  BY DEF Move
<1>5. TypeOK'
  BY <1>1, <1>3, <1>4 DEF TypeOK, Kept
<1>6. Others(c)
  BY <1>3, <1>4 DEF TypeOK, Others
<1>7. Lists(c)'
  BY <1>1, <1>2, <1>3, <1>4 DEF TypeOK, Sound, Lists
<1>8. Blames(c)'
  BY <1>1, <1>4 DEF Sound, Blames, Grows
<1>9. Sound(c)'
  BY <1>1, <1>4, <1>7, <1>8
  DEF TypeOK, Sound, Pends, Idle, Waits, Beside, Counts, Reports, Selects
<1> QED
  BY <1>1, <1>5, <1>6, <1>9 DEF Fine

LEMMA Enters ==
  ASSUME TypeOK, RowInv, NEW c \in Clis, Sound(c), Enter(c)
  PROVE  Fine(c)
<1>1. Kept /\ RowInv' /\ Ids' = Ids /\ Deleted' = Deleted /\ Grows
  BY RowsStay, FaultsGrow DEF Enter
<1>2. scr[c] = "list" /\ ~loading[c] /\ list[c] # <<>> /\ cmds[c] = <<>>
  BY DEF Enter, Sound, Pends, Idle, Waits, Beside
<1>3. cursor[c] \in 1 .. MaxRows /\ Len(list[c]) \in Nat /\ list[c] \in Seq(Entry)
  <2>1. list \in [Clis -> Seq(Entry)] /\ cursor \in [Clis -> 1 .. MaxRows]
    BY DEF TypeOK, Entry
  <2> QED
    BY <2>1
<1>4. UNCHANGED <<rows, loading, cmds, list, cursor, err, made, retried, faults>>
  BY DEF Enter
<1>5. CASE cursor[c] <= Len(list[c])
  <2>1. /\ scr' = [scr EXCEPT ![c] = "actions"]
        /\ dep' = [dep EXCEPT ![c] = list[c][cursor[c]].id]
    BY <1>5 DEF Enter, Shows
  <2>2. list[c][cursor[c]].id \in Ids
    <3>1. list[c][cursor[c]] \in Entry
      BY <1>3, <1>5
    <3> QED
      BY <3>1 DEF Entry
  <2>3. TypeOK'
    BY <1>1, <1>4, <2>1, <2>2 DEF TypeOK, Kept
  <2>4. Others(c)
    BY <1>4, <2>1 DEF TypeOK, Others
  <2>5. Sound(c)'
    BY <1>1, <1>2, <1>4, <1>5, <2>1, ListsStay
    DEF TypeOK, Sound, Pends, Idle, Counts, Reports, Selects
  <2> QED
    BY <1>1, <2>3, <2>4, <2>5 DEF Fine
<1>6. CASE ~(cursor[c] <= Len(list[c]))
  <2>1. scr' = [scr EXCEPT ![c] = "crashed"] /\ dep' = dep
    BY <1>6 DEF Enter, Shows
  <2>2. Deleted
    BY <1>2, <1>6 DEF Sound, Lists
  <2>3. TypeOK'
    BY <1>1, <1>4, <2>1 DEF TypeOK, Kept
  <2>4. Others(c)
    BY <1>4, <2>1 DEF TypeOK, Others
  <2>5. Sound(c)'
    BY <1>1, <1>2, <1>4, <2>1, <2>2, ListsStay
    DEF TypeOK, Sound, Pends, Idle, Counts, Reports, Selects
  <2> QED
    BY <1>1, <2>3, <2>4, <2>5 DEF Fine
<1> QED
  BY <1>5, <1>6

(* Back, Edit and Logs leave the menu.                                     *)
LEMMA LeavesMenu ==
  ASSUME TypeOK, RowInv, NEW c \in Clis, Sound(c), Back(c) \/ Edit(c) \/ Logs(c)
  PROVE  Fine(c)
<1>1. Kept /\ RowInv' /\ Ids' = Ids /\ Deleted' = Deleted /\ Grows
  BY RowsStay, FaultsGrow DEF Back, Edit, Logs
<1>2. scr[c] = "actions" /\ ~loading[c] /\ cmds[c] = <<>>
  BY DEF Back, Edit, Logs, Sound, Pends, Idle, Waits, Beside
<1>3. CASE Back(c)
  BY <1>1, <1>2, <1>3, ListsStay
  DEF Back, Unselected, Shows, Fine, TypeOK, Kept, Others, Sound, Pends, Idle,
       Counts, Reports, Selects
<1>4. CASE Edit(c)
  BY <1>1, <1>2, <1>4, ListsStay, Rowed
  DEF Edit, Shows, Fine, TypeOK, Kept, Others, Sound, Pends, Idle,
       Counts, Reports, Selects
<1>5. CASE Logs(c)
  <2>1. <<"dial">> \in Seq(Command)
    BY Commands DEF Command
  <2>2. cmds' = [cmds EXCEPT ![c] = <<"dial">>] /\ scr' = [scr EXCEPT ![c] = "logs"]
    BY <1>2, <1>5, <2>1, Began DEF Logs, Shows, Sound
  <2>3. UNCHANGED <<rows, loading, dep, list, cursor, err, made, retried, faults>>
    BY <1>5 DEF Logs
  <2>4. TypeOK'
    BY <1>1, <2>1, <2>2, <2>3 DEF TypeOK, Kept, Command
  <2>5. Others(c)
    BY <2>2, <2>3 DEF TypeOK, Others
  <2>6. Sound(c)'
    BY <1>1, <1>2, <2>2, <2>3, ListsStay, Rowed
    DEF TypeOK, Sound, Pends, Beside, Counts, Reports, Selects
  <2> QED
    BY <1>1, <2>4, <2>5, <2>6 DEF Fine
<1> QED
  BY <1>3, <1>4, <1>5

(* The list that comes shows each row that was not deleted, once.          *)
LEMMA ListSize ==
  ASSUME TypeOK, NEW ids \in SetToSeqs(Live)
  PROVE  /\ Len(ids) \in Nat /\ DOMAIN ids = 1 .. Len(ids) /\ Len(ids) <= Len(rows)
         /\ \A k \in 1 .. Len(ids) : ids[k] \in Live
         /\ ~Deleted => Len(ids) = Len(rows)
<1>1. Len(rows) \in Nat
  BY DEF TypeOK
<1>2. IsFiniteSet(Ids) /\ Cardinality(Ids) = Len(rows)
  <2>1. Cardinality(1 .. Len(rows)) = Len(rows) - 1 + 1
    BY <1>1, FS_Interval
  <2> QED
    BY <1>1, <2>1, FS_Interval DEF Ids
<1>3. Live \subseteq Ids /\ (~Deleted => Live = Ids)
  BY DEF Live, Deleted
<1>4. Cardinality(Live) \in Nat /\ Cardinality(Live) <= Len(rows)
  BY <1>2, <1>3, FS_Subset, FS_CardinalityType
<1>5. ids \in [1 .. Cardinality(Live) -> Live]
  BY DEF SetToSeqs
<1>6. Len(ids) = Cardinality(Live)
  BY <1>4, <1>5
<1> QED
  BY <1>2, <1>3, <1>4, <1>5, <1>6

LEMMA Listed ==
  ASSUME TypeOK, RowInv, NEW c \in Clis, Sound(c), NEW i, DeployList(c, i)
  PROVE  Fine(c)
<1>1. Kept /\ RowInv' /\ Ids' = Ids /\ Deleted' = Deleted /\ Grows
  BY RowsStay, FaultsGrow DEF DeployList
<1>2. cmds[c] = <<"list">> /\ cmds' = [cmds EXCEPT ![c] = <<>>]
  BY Took, Commands DEF DeployList, Sound
<1>3. scr[c] = "list" /\ loading[c]
  BY <1>2 DEF Sound, Pends, Idle, Waits, Beside
<1>4. faults' \in 0 .. MaxFaults /\ faults <= faults'
  <2>1. UNCHANGED faults \/ Fault
    BY DEF DeployList
  <2> QED
    BY <2>1, FaultsGrow
<1>5. /\ loading' = [loading EXCEPT ![c] = FALSE]
      /\ UNCHANGED <<rows, scr, dep, cursor, made, retried>>
      /\ err' \in [Clis -> BOOLEAN] /\ (\A d \in Clis \ {c} : err'[d] = err[d])
      /\ err'[c] = err[c] \/ faults' > 0
  <2>1. CASE UNCHANGED err
    BY <2>1 DEF DeployList, Loads, TypeOK
  <2>2. CASE Fault /\ err' = [err EXCEPT ![c] = TRUE]
    <3>1. faults' > 0
      BY <2>2, FaultsGrow DEF Fault, TypeOK
    <3> QED
      BY <2>2, <3>1 DEF DeployList, Loads, TypeOK
  <2> QED
    BY <2>1, <2>2 DEF DeployList
<1>6. list \in [Clis -> Seq(Entry)] /\ cursor[c] \in Nat
  <2>1. list \in [Clis -> Seq(Entry)]
    BY DEF TypeOK, Entry
  <2> QED
    BY <2>1, BoundAssumption DEF TypeOK
<1>7. PICK l \in Seq(Entry) :
        /\ list' = [list EXCEPT ![c] = l]
        /\ \/ l = list[c]
           \/ Len(l) <= Len(rows) /\ (~Deleted => Len(l) = Len(rows))
        /\ l = list[c] \/ \A k \in 1 .. Len(l) : l[k].status = rows[l[k].id].status
  <2>1. CASE UNCHANGED list
    <3> list[c] \in Seq(Entry)
      BY <1>6
    <3> WITNESS list[c] \in Seq(Entry)
    <3> QED
      BY <1>6, <2>1
  <2>2. CASE \E ids \in SetToSeqs(Live) :
               list' = [list EXCEPT ![c] =
                          [k \in DOMAIN ids |-> [id |-> ids[k], status |-> rows[ids[k]].status]]]
    <3>1. PICK ids \in SetToSeqs(Live) :
               list' = [list EXCEPT ![c] =
                          [k \in DOMAIN ids |-> [id |-> ids[k], status |-> rows[ids[k]].status]]]
      BY <2>2
    <3> DEFINE l == [k \in 1 .. Len(ids) |-> [id |-> ids[k], status |-> rows[ids[k]].status]]
    <3>2. /\ Len(ids) \in Nat /\ DOMAIN ids = 1 .. Len(ids) /\ Len(ids) <= Len(rows)
          /\ \A k \in 1 .. Len(ids) : ids[k] \in Live
          /\ ~Deleted => Len(ids) = Len(rows)
      BY ListSize
    <3>3. ASSUME NEW k \in 1 .. Len(ids)
          PROVE  [id |-> ids[k], status |-> rows[ids[k]].status] \in Entry
      <4>1. ids[k] \in Ids /\ rows[ids[k]].status # "deleted"
        BY <3>2 DEF Live
      <4>2. rows[ids[k]] \in Row
        BY <4>1 DEF TypeOK, Ids
      <4> QED
        BY <4>1, <4>2 DEF Entry, Row
    <3>4. l \in Seq(Entry) /\ Len(l) = Len(ids)
      BY <3>2, <3>3
    <3>5. list' = [list EXCEPT ![c] = l]
      BY <3>1, <3>2
    <3>6. \A k \in 1 .. Len(l) : l[k].status = rows[l[k].id].status
      BY <3>4
    <3> HIDE DEF l
    <3> l \in Seq(Entry)
      BY <3>4
    <3> WITNESS l \in Seq(Entry)
    <3> QED
      BY <3>2, <3>4, <3>5, <3>6
  <2> QED
    BY <2>1, <2>2 DEF DeployList
<1>8. TypeOK'
  <2>1. list' \in [Clis -> Seq(Entry')]
    BY <1>1, <1>6, <1>7, Entries
  <2> QED
    BY <1>1, <1>2, <1>4, <1>5, <2>1, Commands DEF TypeOK, Kept, Command, Entry
<1>9. Others(c)
  BY <1>2, <1>5, <1>6, <1>7 DEF TypeOK, Others
<1>10. Lists(c)'
  <2>1. list'[c] = l /\ cursor'[c] = cursor[c] /\ Len(l) \in Nat /\ Len(rows) \in Nat
    BY <1>5, <1>6, <1>7 DEF TypeOK
  <2>2. CASE l = list[c]
    BY <1>1, <1>5, <2>1, <2>2 DEF Sound, Lists
  <2>3. CASE /\ Len(l) <= Len(rows) /\ (~Deleted => Len(l) = Len(rows))
             /\ \A k \in 1 .. Len(l) : l[k].status = rows[l[k].id].status
    <3>1. l # <<>> => Len(l) >= 1
      BY <2>1
    <3>2. ASSUME NEW k \in 1 .. Len(l), l[k].status \in {"running", "exited"}
          PROVE  rows[l[k].id].cont # "none"
      <4>1. l[k].id \in Ids
        <5>1. l[k] \in Entry
          BY <1>7
        <5> QED
          BY <5>1 DEF Entry
      <4> QED
        BY <2>3, <3>2, <4>1 DEF RowInv
    <3>3. Deleted \/ l = <<>> \/ cursor[c] <= Len(l)
      BY <1>6, <2>1, <2>3, <3>1 DEF Sound, Lists
    <3> QED
      BY <1>1, <1>5, <2>1, <2>3, <3>2, <3>3 DEF Sound, Lists
  <2> QED
    BY <1>7, <2>2, <2>3
<1>11. Blames(c)'
  BY <1>1, <1>3, <1>5 DEF Sound, Blames, Grows, Cause
<1>12. Sound(c)'
  BY <1>1, <1>2, <1>3, <1>5, <1>10, <1>11
  DEF TypeOK, Sound, Pends, Idle, Counts, Reports, Selects
<1> QED
  BY <1>1, <1>8, <1>9, <1>12 DEF Fine

LEMMA Manages ==
  ASSUME TypeOK, RowInv, NEW c \in Clis, Sound(c), NEW verb \in {"Start", "Stop", "Delete"},
         Manage(c, verb)
  PROVE  Fine(c)
<1>1. scr[c] = "actions" /\ ~loading[c] /\ cmds[c] = <<>>
  BY DEF Manage, Sound, Pends, Idle, Waits, Beside
<1>2. /\ dep[c] \in Ids /\ cursor[c] \in 1 .. Len(list[c])
      /\ dep[c] = list[c][cursor[c]].id
  <2>1. list \in [Clis -> Seq(Entry)] /\ cursor[c] \in 1 .. MaxRows
    BY DEF TypeOK, Entry
  <2>2. cursor[c] <= Len(list[c]) /\ dep[c] = list[c][cursor[c]].id
    BY <1>1 DEF Sound, Selects
  <2>3. list[c] \in Seq(Entry) /\ cursor[c] \in 1 .. Len(list[c])
    BY <2>1, <2>2, BoundAssumption
  <2>4. list[c][cursor[c]] \in Entry
    BY <2>3
  <2> QED
    BY <2>2, <2>3, <2>4 DEF Entry
<1>3. Kept /\ RowInv'
  <2>1. CASE UNCHANGED rows
    BY <2>1, RowsStay
  <2>2. ASSUME Allowed(dep[c], verb),
               NEW r \in AfterVerb(dep[c], verb) \union Halfway(dep[c], verb),
               rows' = [rows EXCEPT ![dep[c]] = r]
        PROVE  Kept /\ RowInv'
    BY <1>2, <2>2, VerbKeeps, RowSet
  <2> QED
    BY <2>1, <2>2 DEF Manage, Becoming
<1>4. /\ faults' \in 0 .. MaxFaults /\ Grows /\ UNCHANGED <<list, cursor, made, retried>>
  <2>1. UNCHANGED faults \/ Fault
    BY DEF Manage
  <2> QED
    BY <1>3, <2>1, FaultsGrow, CauseStays DEF Manage
(* A verb that was offered is refused only of a deployment deleted since.  *)
<1>refused. ~Allowed(dep[c], verb) => Deleted
  <2>1. verb \in {"Start", "Stop"} => list[c][cursor[c]].status \in {"running", "exited"}
    BY DEF Manage, Offered, Actions
  <2>2. verb \in {"Start", "Stop"} => rows[dep[c]].cont # "none"
    BY <1>2, <2>1 DEF Sound, Lists
  <2> QED
    BY <1>2, <2>2 DEF Allowed, Has, Deleted
<1>5. (Lists(c) => Lists(c)') /\ (Deleted => Deleted')
  BY <1>3, <1>4, ListsStay
<1>6. Len(rows) \in Nat /\ Len(rows') \in Nat /\ Len(rows) <= Len(rows')
  BY <1>3 DEF TypeOK, Kept
<1>7. CASE VerbFails(c) /\ (Fault \/ ~Allowed(dep[c], verb))
  <2>0. UNCHANGED <<scr, loading, cmds, dep>> /\ err' = [err EXCEPT ![c] = TRUE]
    BY <1>7 DEF VerbFails
  <2>1. TypeOK'
    <3>1. dep' \in [Clis -> Ids' \union {None}]
      BY <1>3, <2>0, Entries DEF TypeOK
    <3>2. list' \in [Clis -> Seq(Entry')]
      BY <1>3, <1>4, Entries DEF TypeOK, Entry
    <3> QED
      BY <1>3, <1>4, <2>0, <3>1, <3>2 DEF TypeOK, Kept, Entry
  <2>2. Others(c)
    BY <1>4, <2>0 DEF TypeOK, Others
  <2>3. Cause'
    <3>1. CASE Fault
      <4>1. faults' > 0
        BY <3>1, FaultsGrow DEF Fault, TypeOK
      <4> QED
        BY <4>1 DEF Cause
    <3>2. CASE Deleted
      BY <1>5, <3>2 DEF Cause, Deleted
    <3> QED
      BY <1>7, <1>refused, <3>1, <3>2
  <2>4. Blames(c)'
    BY <1>4, <2>0, <2>3 DEF Sound, Blames
  <2>5. Sound(c)'
    BY <1>1, <1>4, <1>5, <1>6, <2>0, <2>4
    DEF TypeOK, Sound, Pends, Idle, Counts, Reports, Selects
  <2> QED
    BY <1>3, <1>4, <2>1, <2>2, <2>5 DEF Fine
<1>8. CASE Reload(c) /\ UNCHANGED err
  <2>1. <<"list">> \in Seq(Command)
    BY Commands DEF Command
  <2>2. cmds' = [cmds EXCEPT ![c] = <<"list">>]
    BY <1>1, <1>8, <2>1, Began DEF Reload, Sound
  <2>3. /\ scr' = [scr EXCEPT ![c] = "list"] /\ loading' = [loading EXCEPT ![c] = TRUE]
        /\ dep' = [dep EXCEPT ![c] = None]
    BY <1>8 DEF Reload, Unselected, Shows, Loads
  <2>4. TypeOK'
    <3>1. dep' \in [Clis -> Ids' \union {None}]
      BY <1>3, <2>3, Entries DEF TypeOK
    <3>2. list' \in [Clis -> Seq(Entry')]
      BY <1>3, <1>4, Entries DEF TypeOK, Entry
    <3>3. /\ scr' \in [Clis -> {"home", "choose", "templates", "form", "deploying", "polling",
                       "done", "list", "actions", "edit", "logs", "crashed"}]
          /\ loading' \in [Clis -> BOOLEAN] /\ cmds' \in [Clis -> Seq(Command)]
      BY <2>1, <2>2, <2>3 DEF TypeOK, Command
    <3> QED
      BY <1>3, <1>4, <1>8, <3>1, <3>2, <3>3 DEF TypeOK, Kept, Command, Entry
  <2>5. Others(c)
    BY <1>4, <1>8, <2>2, <2>3 DEF TypeOK, Others
  <2>6. Sound(c)'
    <3>1. Blames(c)'
      BY <1>3, <1>4, <1>8, <2>3, ListsStay DEF TypeOK, Sound
    <3> QED
      BY <1>1, <1>4, <1>5, <1>6, <2>2, <2>3, <3>1
      DEF TypeOK, Sound, Pends, Waits, Counts, Reports, Selects
  <2> QED
    BY <1>3, <1>4, <2>4, <2>5, <2>6 DEF Fine
<1> QED
  BY <1>7, <1>8 DEF Manage

-----------------------------------------------------------------------------
(* The invariant.                                                          *)

ScreensInv == TypeOK /\ RowInv /\ \A c \in Clis : Sound(c)

LEMMA ScreensInit == Init => ScreensInv
<1> SUFFICES ASSUME Init PROVE ScreensInv
  OBVIOUS
<1>1. TypeOK
  BY BoundAssumption DEF Init, TypeOK, Ids
<1>2. RowInv
  BY DEF Init, RowInv, Ids
<1>3. ASSUME NEW c \in Clis PROVE Sound(c)
  BY DEF Init, Sound, Pends, Idle, Counts, Reports, Lists, Selects, Blames
<1> QED
  BY <1>1, <1>2, <1>3 DEF ScreensInv

(* A CLI that does nothing stays sound, whatever the table became.         *)
LEMMA StaySound ==
  ASSUME TypeOK, Kept, Grows, NEW d \in Clis, Sound(d),
         scr'[d] = scr[d], loading'[d] = loading[d], cmds'[d] = cmds[d],
         dep'[d] = dep[d], list'[d] = list[d], cursor'[d] = cursor[d], err'[d] = err[d],
         made'[d] = made[d], retried'[d] = retried[d]
  PROVE  Sound(d)'
<1>1. Len(rows) \in Nat /\ Len(rows') \in Nat /\ Len(rows) <= Len(rows')
      /\ made[d] \in Nat /\ retried[d] \in Nat
  BY BoundAssumption DEF TypeOK, Kept
<1>2. Pends(d)'
  BY DEF Sound, Pends, Idle, Waits, Beside
<1>3. Counts(d)'
  BY <1>1 DEF Sound, Counts
<1>4. Reports(d)'
  BY <1>1 DEF Sound, Reports, Kept, Ids
<1>5. Lists(d)' /\ Selects(d)' /\ Blames(d)'
  <2>1. scr'[d] \in {"actions", "edit", "logs"} => list[d] # <<>>
    BY DEF Sound, Blames
  <2> QED
    BY <2>1, ListsStay DEF Sound, Selects
<1> QED
  BY <1>2, <1>3, <1>4, <1>5 DEF Sound

LEMMA CliStep ==
  ASSUME TypeOK, RowInv, NEW c \in Clis, Sound(c), Keys(c) \/ Messages(c)
  PROVE  Fine(c)
<1>1. CASE Keys(c)
  BY <1>1, Opens, Leaves, Chooses, Moves, Enters, LeavesMenu, Manages DEF Keys
<1>2. CASE Messages(c)
  BY <1>2, TemplatesCome, Created, Polled, PollGood, Listed, Answered DEF Messages
<1> QED
  BY <1>1, <1>2

LEMMA ScreensStep == ScreensInv /\ [Next]_vars => ScreensInv'
<1> SUFFICES ASSUME ScreensInv, [Next]_vars PROVE ScreensInv'
  OBVIOUS
<1>1. TypeOK /\ RowInv /\ \A c \in Clis : Sound(c)
  BY DEF ScreensInv
<1>2. ASSUME NEW c \in Clis, Keys(c) \/ Messages(c) PROVE ScreensInv'
  <2>1. Fine(c)
    BY <1>1, <1>2, CliStep
  <2>2. ASSUME NEW d \in Clis \ {c} PROVE Sound(d)'
    BY <1>1, <2>1, StaySound DEF Fine, Others
  <2> QED
    BY <2>1, <2>2 DEF ScreensInv, Fine
<1>3. ASSUME Kept, RowInv', Grows, UNCHANGED tui, faults' \in 0 .. MaxFaults PROVE ScreensInv'
  <2>1. TypeOK'
    <3>1. dep' \in [Clis -> Ids' \union {None}]
      BY <1>1, <1>3, Entries DEF TypeOK, tui
    <3>2. list' \in [Clis -> Seq(Entry')]
      BY <1>1, <1>3, Entries DEF TypeOK, Entry, tui
    <3> QED
      BY <1>1, <1>3, <3>1, <3>2 DEF TypeOK, Kept, Entry, tui
  <2>2. ASSUME NEW d \in Clis PROVE Sound(d)'
    BY <1>1, <1>3, StaySound DEF tui
  <2> QED
    BY <1>3, <2>1, <2>2 DEF ScreensInv
<1>4. ASSUME NEW i, Worker(i) \/ WorkerLost(i) \/ ContainerEnds(i) \/ ContainerRestarts(i)
      PROVE  ScreensInv'
  BY <1>1, <1>3, <1>4, OtherSide
<1>5. CASE UNCHANGED vars
  BY <1>1, <1>3, <1>5, RowsStay, FaultsGrow DEF vars, TypeOK
<1> QED
  BY <1>2, <1>4, <1>5 DEF Next

(* Every variable of the screens has its type.                             *)
THEOREM ScreensTypeCorrect == Spec => []TypeOK
<1>1. ScreensInv => TypeOK
  BY DEF ScreensInv
<1> QED
  BY <1>1, ScreensInit, ScreensStep, PTL DEF Spec

(* A screen never waits for two answers: no key and no answer starts a     *)
(* request while another of the screen is in flight.                       *)
THEOREM OneAnswerAwaited == Spec => []OnePending
<1>1. ScreensInv => OnePending
  <2> SUFFICES ASSUME ScreensInv, NEW c \in Clis PROVE Len(cmds[c]) <= 1
    BY DEF OnePending
  <2>1. cmds[c] = <<>> \/ \E x : cmds[c] = <<x>>
    BY DEF ScreensInv, Sound, Pends, Idle, Waits, Beside
  <2>2. CASE cmds[c] = <<>>
    BY <2>2
  <2>3. ASSUME NEW x, cmds[c] = <<x>> PROVE Len(cmds[c]) <= 1
    <3>1. Len(<<x>>) = 1
      OBVIOUS
    <3> QED
      BY <2>3, <3>1
  <2> QED
    BY <2>1, <2>2, <2>3
<1> QED
  BY <1>1, ScreensInit, ScreensStep, PTL DEF Spec

(* A form makes a second deployment only after it has shown an error of    *)
(* one it made, and reports success only of one whose container started.   *)
THEOREM FormReportsTruly == Spec => []FormHonest
<1>1. ScreensInv => FormHonest
  BY DEF ScreensInv, Sound, Counts, Reports, FormHonest, NoSilentDuplicate, DoneWasStarted
<1> QED
  BY <1>1, ScreensInit, ScreensStep, PTL DEF Spec

(* A menu acts on the deployment under the cursor; it is open without      *)
(* being drawn only after a fault or a deletion, and Enter panics          *)
(* past the end of the list only when a deployment was deleted.            *)
THEOREM MenuActsOnCursor == Spec => []MenuOnCursor
<1>1. ScreensInv => MenuOnCursor
  <2> SUFFICES ASSUME ScreensInv PROVE MenuOnCursor
    OBVIOUS
  <2>1. SelectedOnCursor /\ CrashNeedsDelete
    BY DEF ScreensInv, Sound, Selects, Deleted, SelectedOnCursor, CrashNeedsDelete
  <2>2. ASSUME NEW c \in Clis, scr[c] = "actions", ~MenuDrawn(c) PROVE Cause
    <3>1. ~loading[c] /\ list[c] # <<>>
      BY <2>2 DEF ScreensInv, Sound, Pends, Idle, Waits, Beside, Blames
    <3> QED
      BY <2>2, <3>1 DEF MenuDrawn, ScreensInv, Sound, Blames
  <2> QED
    BY <2>1, <2>2 DEF MenuOnCursor, HiddenNeedsCause
<1> QED
  BY <1>1, ScreensInit, ScreensStep, PTL DEF Spec
=============================================================================
