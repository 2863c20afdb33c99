-------------------------------- MODULE Screens --------------------------------
(***************************************************************************)
(* The screens of the command line that create, list and manage            *)
(* deployments, several CLIs at once, against the table of deployments.    *)
(*                                                                         *)
(* A screen is a message loop: a key is a step, and so is the answer of a  *)
(* command, a request that runs beside the loop.  Keys are taken while a   *)
(* command is in flight.  Stop, Start and Delete are called inside the     *)
(* loop, which waits.  A request is executed when it is answered, or fails *)
(* with or without having been executed, in part or as a whole; one that   *)
(* is in flight may stay so for ever, for no request has a timer.          *)
(* DeployService has the steps of the handlers behind it.                  *)
(***************************************************************************)
EXTENDS Integers, Sequences, SequencesExt, FiniteSets

CONSTANTS Clis,
          Menu,       \* which of "deploy" and "list" each opens
          MaxRows,    \* bounds the deployments ever made
          MaxFaults,  \* bounds failed requests, deaths of containers, restarts
          None        \* nothing

ASSUME BoundAssumption ==
  /\ MaxRows \in Nat \ {0} /\ MaxFaults \in Nat
  /\ Menu \in [Clis -> SUBSET {"deploy", "list"}]
ASSUME NoneAssumption == None \notin Nat

VARIABLES rows,      \* the deployments: row and container; an id is a position
          scr,       \* the screen each CLI shows
          loading,   \* its flag
          cmds,      \* its commands in flight
          dep,       \* the deployment it waits for or has selected
          list,      \* the deployments it shows: ids, with the statuses it was told
          cursor,    \* the place of the cursor among them
          err,       \* whether the list's model holds an error, kept till it is left
          made,      \* history: rows its form has made
          retried,   \* history: errors its form showed after a row was made
          faults     \* faults so far

tui == <<scr, loading, cmds, dep, list, cursor, err, made, retried>>
vars == <<rows, tui, faults>>

Ids == 1 .. Len(rows)
Row == [status : {"pending", "running", "exited", "error", "deleted"},
        cont : {"none", "running", "exited", "gone"}, worker : BOOLEAN]

TypeOK ==
  /\ rows \in Seq(Row) /\ Len(rows) <= MaxRows
  /\ scr \in [Clis -> {"home", "choose", "templates", "form", "deploying", "polling",
                       "done", "list", "actions", "edit", "logs", "crashed"}]
  /\ loading \in [Clis -> BOOLEAN]
  /\ cmds \in [Clis -> Seq({"templates", "create", "tick", "poll", "list", "update", "dial"})]
  /\ dep \in [Clis -> Ids \union {None}]
  /\ list \in [Clis -> Seq([id : Ids, status : {"pending", "running", "exited", "error"}])]
  /\ cursor \in [Clis -> 1 .. MaxRows] /\ err \in [Clis -> BOOLEAN]
  /\ made \in [Clis -> 0 .. MaxRows] /\ retried \in [Clis -> Nat]
  /\ faults \in 0 .. MaxFaults

Init ==
  /\ rows = <<>> /\ faults = 0
  /\ scr = [c \in Clis |-> "home"]
  /\ loading = [c \in Clis |-> FALSE] /\ cmds = [c \in Clis |-> <<>>]
  /\ dep = [c \in Clis |-> None]
  /\ list = [c \in Clis |-> <<>>] /\ cursor = [c \in Clis |-> 1]
  /\ err = [c \in Clis |-> FALSE]
  /\ made = [c \in Clis |-> 0] /\ retried = [c \in Clis |-> 0]

Live == {i \in Ids : rows[i].status # "deleted"}

(* A command is taken from those in flight, others are started.            *)
Takes(c, i, started) == cmds' = [cmds EXCEPT ![c] = RemoveAt(@, i) \o started]
Starts(c, started) == cmds' = [cmds EXCEPT ![c] = @ \o started]
Flies(c, i, cmd) == i \in DOMAIN cmds[c] /\ cmds[c][i] = cmd
Shows(c, s) == scr' = [scr EXCEPT ![c] = s]
Loads(c, b) == loading' = [loading EXCEPT ![c] = b]
Fault == faults < MaxFaults /\ faults' = faults + 1

-----------------------------------------------------------------------------
(* The other side.                                                         *)

NewRow == [status |-> "pending", cont |-> "none", worker |-> TRUE]

(* Create's goroutine finishes, or deploy-service restarts and forgets it. *)
Worker(i) ==
  /\ i \in Ids /\ rows[i].worker
  /\ \E ok \in BOOLEAN :
       rows' = [rows EXCEPT ![i].worker = FALSE,
                  ![i].cont = IF ok THEN "running" ELSE @,
                  ![i].status = IF @ = "deleted" THEN @ ELSE IF ok THEN "running" ELSE "error"]
  /\ UNCHANGED <<tui, faults>>

WorkerLost(i) ==
  /\ i \in Ids /\ rows[i].worker /\ Fault
  /\ rows' = [rows EXCEPT ![i].worker = FALSE]
  /\ UNCHANGED tui

(* A container ends by itself; Docker starts it again (policy "always").   *)
ContainerEnds(i) ==
  /\ i \in Ids /\ rows[i].cont = "running" /\ Fault
  /\ rows' = [rows EXCEPT ![i].cont = "exited"]
  /\ UNCHANGED tui

ContainerRestarts(i) ==
  /\ i \in Ids /\ rows[i].cont = "exited"
  /\ rows' = [rows EXCEPT ![i].cont = "running"]
  /\ UNCHANGED <<tui, faults>>

(* The status that GET answers: that of the container when inspect works.  *)
(* The inspect of a container that is gone fails on the agent, which the   *)
(* service takes for an answer: "gone" stands for the empty status.        *)
Inspected(i) == rows[i].cont # "none"
Answers(i) == {rows[i].status} \union IF Inspected(i) THEN {rows[i].cont} ELSE {}

(* What Start, Stop and Delete do.  A verb that fails on the agent is      *)
(* taken for done, and so the container may be as it was.                  *)
Has(i) == rows[i].status # "deleted" /\ rows[i].cont # "none"
Becomes(i, conts) ==
  {rows[i].cont} \union IF rows[i].cont \in {"running", "exited"} THEN conts ELSE {}
AfterVerb(i, verb) ==
  CASE verb = "Start"  -> {[rows[i] EXCEPT !.status = "running", !.cont = k] :
                              k \in Becomes(i, {"running"})}
    [] verb = "Stop"   -> {[rows[i] EXCEPT !.status = "exited", !.cont = k] :
                              k \in Becomes(i, {"exited"})}
    [] verb = "Delete" -> {[rows[i] EXCEPT !.status = "deleted", !.cont = k] :
                              k \in Becomes(i, {"exited", "gone"})}
(* An error before the row is written leaves its status as it was.         *)
Halfway(i, verb) == {[rows[i] EXCEPT !.cont = r.cont] : r \in AfterVerb(i, verb)}
Allowed(i, verb) == IF verb = "Delete" THEN rows[i].status # "deleted" ELSE Has(i)

(* The methods that the gateway routes under /api/deployments/.            *)
Routed == {"GET", "POST", "DELETE"}

-----------------------------------------------------------------------------
(* Faulty variants, used to show that the properties can fail.             *)

(* Submitting leaves the form on the screen and takes keys.                *)
SubmitStays(c) ==
  /\ scr[c] = "form"
  /\ Starts(c, <<"create">>)
  /\ UNCHANGED <<rows, scr, loading, dep, list, cursor, err, made, retried, faults>>

(* A poll that fails is tried again, and the form is shown all the same.   *)
PollFailsOn(c, i) ==
  /\ Flies(c, i, "poll")
  /\ Shows(c, "form") /\ retried' = [retried EXCEPT ![c] = @ + 1]
  /\ Takes(c, i, <<"tick">>)
  /\ IF dep[c] \in Live THEN Fault ELSE UNCHANGED faults
  /\ UNCHANGED <<rows, loading, dep, list, cursor, err, made>>

(* A deployment that is neither running nor failed is not asked for again. *)
PollResultQuiet(c, i) ==
  /\ Flies(c, i, "poll") /\ dep[c] \in Live /\ Takes(c, i, <<>>)
  /\ \/ "running" \in Answers(dep[c]) /\ Shows(c, "done") /\ UNCHANGED retried
     \/ /\ "error" \in Answers(dep[c])
        /\ Shows(c, "form") /\ retried' = [retried EXCEPT ![c] = @ + 1]
     \/ Answers(dep[c]) \ {"running", "error"} # {} /\ UNCHANGED <<scr, retried>>
  /\ UNCHANGED <<rows, loading, dep, list, cursor, err, made, faults>>

(* Enter is taken while the list is being loaded.                          *)
EnterLoading(c) ==
  /\ scr[c] = "list" /\ list[c] # <<>>
  /\ IF cursor[c] <= Len(list[c])
     THEN Shows(c, "actions") /\ dep' = [dep EXCEPT ![c] = list[c][cursor[c]].id]
     ELSE Shows(c, "crashed") /\ UNCHANGED dep
  /\ UNCHANGED <<rows, loading, cmds, list, cursor, err, made, retried, faults>>

-----------------------------------------------------------------------------
(* Opening and leaving screens.                                            *)

Fresh(c) ==
  /\ dep' = [dep EXCEPT ![c] = None]
  /\ list' = [list EXCEPT ![c] = <<>>] /\ cursor' = [cursor EXCEPT ![c] = 1]
  /\ err' = [err EXCEPT ![c] = FALSE]
  /\ made' = [made EXCEPT ![c] = 0] /\ retried' = [retried EXCEPT ![c] = 0]

OpenDeploy(c) ==
  /\ scr[c] = "home" /\ "deploy" \in Menu[c]
  /\ Shows(c, "choose")
  /\ UNCHANGED <<rows, loading, cmds, dep, list, cursor, err, made, retried, faults>>

OpenList(c) ==
  /\ scr[c] = "home" /\ "list" \in Menu[c]
  /\ Shows(c, "list") /\ Loads(c, TRUE) /\ Starts(c, <<"list">>)
  /\ UNCHANGED <<rows, dep, list, cursor, err, made, retried, faults>>

(* Esc; what is in flight is forgotten, a create may have been executed.   *)
Leave(c) ==
  /\ scr[c] \notin {"home", "actions"}
  /\ Shows(c, "home") /\ Loads(c, FALSE)
  /\ cmds' = [cmds EXCEPT ![c] = <<>>]
  /\ Fresh(c)
  /\ \/ UNCHANGED rows
     \/ /\ Contains(cmds[c], "create") /\ Len(rows) < MaxRows
        /\ rows' = Append(rows, NewRow)
  /\ UNCHANGED faults

-----------------------------------------------------------------------------
(* The deploy form.                                                        *)

Choose(c) ==
  /\ scr[c] = "choose" /\ ~loading[c]
  /\ \/ Shows(c, "templates") /\ Loads(c, TRUE) /\ Starts(c, <<"templates">>)
     \/ Shows(c, "form") /\ UNCHANGED <<loading, cmds>>
  /\ UNCHANGED <<rows, dep, list, cursor, err, made, retried, faults>>

TemplatesList(c, i) ==
  /\ Flies(c, i, "templates") /\ Takes(c, i, <<>>) /\ Loads(c, FALSE)
  /\ \/ UNCHANGED <<scr, faults>>
     \/ Shows(c, "choose") /\ Fault      \* failed, or there is none
  /\ UNCHANGED <<rows, dep, list, cursor, err, made, retried>>

PickTemplate(c) ==
  /\ scr[c] = "templates" /\ ~loading[c]
  /\ Shows(c, "form")
  /\ UNCHANGED <<rows, loading, cmds, dep, list, cursor, err, made, retried, faults>>

Submit(c) ==
  /\ scr[c] = "form" /\ ~loading[c]
  /\ Shows(c, "deploying") /\ Loads(c, TRUE) /\ Starts(c, <<"create">>)
  /\ UNCHANGED <<rows, dep, list, cursor, err, made, retried, faults>>

Inserts(c) ==
  /\ Len(rows) < MaxRows
  /\ rows' = Append(rows, NewRow)
  /\ made' = [made EXCEPT ![c] = @ + 1]

DeployResult(c, i) ==
  /\ Flies(c, i, "create") /\ Loads(c, FALSE)
  /\ \/ /\ Inserts(c)
        /\ dep' = [dep EXCEPT ![c] = Len(rows) + 1]
        /\ Shows(c, "polling") /\ Takes(c, i, <<"tick">>)
        /\ UNCHANGED <<retried, faults>>
     \/ /\ Shows(c, "form") /\ Takes(c, i, <<>>) /\ Fault
        /\ \/ Inserts(c) /\ retried' = [retried EXCEPT ![c] = @ + 1]
           \/ UNCHANGED <<rows, made, retried>>
        /\ UNCHANGED dep
  /\ UNCHANGED <<list, cursor, err>>

PollTick(c, i) ==
  /\ Flies(c, i, "tick")
  /\ Takes(c, i, IF scr[c] = "polling" THEN <<"poll">> ELSE <<>>)
  /\ UNCHANGED <<rows, scr, loading, dep, list, cursor, err, made, retried, faults>>

(* The form is shown again, and can be submitted again, though the row is  *)
(* there.                                                                  *)
BackToForm(c) ==
  /\ Shows(c, "form")
  /\ retried' = [retried EXCEPT ![c] = @ + 1]

PollFails(c, i) ==
  /\ Flies(c, i, "poll")
  /\ BackToForm(c) /\ Takes(c, i, <<>>)
  /\ IF dep[c] \in Live THEN Fault ELSE UNCHANGED faults
  /\ UNCHANGED <<rows, loading, dep, list, cursor, err, made>>

(* An inspect that fails on the agent though the container is there        *)
(* answers with an empty status too.                                       *)
PollResult(c, i) ==
  /\ Flies(c, i, "poll") /\ dep[c] \in Live
  /\ \/ /\ "running" \in Answers(dep[c])
        /\ Shows(c, "done") /\ Takes(c, i, <<>>) /\ UNCHANGED <<retried, faults>>
     \/ /\ "error" \in Answers(dep[c])
        /\ BackToForm(c) /\ Takes(c, i, <<>>) /\ UNCHANGED faults
     \/ /\ IF Answers(dep[c]) \ {"running", "error"} # {}
           THEN UNCHANGED faults
           ELSE Inspected(dep[c]) /\ Fault
        /\ Takes(c, i, <<"tick">>) /\ UNCHANGED <<scr, retried>>
  /\ UNCHANGED <<rows, loading, dep, list, cursor, err, made>>

-----------------------------------------------------------------------------
(* The list of deployments.                                                *)

(* Whether View draws the open menu: an error, once there, is drawn in     *)
(* place of menu and rows until the screen is left; keys are taken all the *)
(* same.                                                                   *)
MenuDrawn(c) == scr[c] = "actions" /\ ~loading[c] /\ ~err[c] /\ list[c] # <<>>

(* The table is read without ORDER BY.  A list that fails to come leaves   *)
(* the one there was.                                                      *)
DeployList(c, i) ==
  /\ Flies(c, i, "list") /\ Takes(c, i, <<>>) /\ Loads(c, FALSE)
  /\ \/ /\ \E ids \in SetToSeqs(Live) :
             list' = [list EXCEPT ![c] =
                        [k \in DOMAIN ids |-> [id |-> ids[k], status |-> rows[ids[k]].status]]]
        /\ UNCHANGED <<err, faults>>
     \/ Fault /\ err' = [err EXCEPT ![c] = TRUE] /\ UNCHANGED list
  /\ UNCHANGED <<rows, scr, dep, cursor, made, retried>>

Move(c) ==
  /\ scr[c] = "list"
  /\ \/ cursor[c] < Len(list[c]) /\ cursor' = [cursor EXCEPT ![c] = @ + 1]
     \/ cursor[c] > 1 /\ cursor' = [cursor EXCEPT ![c] = @ - 1]
  /\ UNCHANGED <<rows, scr, loading, cmds, dep, list, err, made, retried, faults>>

(* Enter on a row; a cursor past the end is a panic, which ends the CLI    *)
(* (Leave from there is its next start).                                   *)
Enter(c) ==
  /\ scr[c] = "list" /\ ~loading[c] /\ list[c] # <<>>
  /\ IF cursor[c] <= Len(list[c])
     THEN Shows(c, "actions") /\ dep' = [dep EXCEPT ![c] = list[c][cursor[c]].id]
     ELSE Shows(c, "crashed") /\ UNCHANGED dep
  /\ UNCHANGED <<rows, loading, cmds, list, cursor, err, made, retried, faults>>

Actions(status) ==
  CASE status = "running" -> {"Logs", "Edit", "Stop", "Delete"}
    [] status = "exited"  -> {"Edit", "Start", "Delete"}
    [] OTHER              -> {"Edit", "Delete"}
Offered(c) == Actions(list[c][cursor[c]].status)

Unselected(c) == dep' = [dep EXCEPT ![c] = None]    \* read no more

Back(c) ==
  /\ scr[c] = "actions"
  /\ Shows(c, "list") /\ Unselected(c)
  /\ UNCHANGED <<rows, loading, cmds, list, cursor, err, made, retried, faults>>

Reload(c) == Unselected(c) /\ Shows(c, "list") /\ Loads(c, TRUE) /\ Starts(c, <<"list">>)

(* A verb that is done reloads the list.  One that fails, or is refused,   *)
(* leaves the menu open behind the error.                                  *)
Becoming(i, set) == \E r \in set : rows' = [rows EXCEPT ![i] = r]
VerbFails(c) == err' = [err EXCEPT ![c] = TRUE] /\ UNCHANGED <<scr, loading, cmds, dep>>
Manage(c, verb) ==
  /\ scr[c] = "actions" /\ verb \in Offered(c)
  /\ \/ /\ Allowed(dep[c], verb) /\ Becoming(dep[c], AfterVerb(dep[c], verb))
        /\ Reload(c) /\ UNCHANGED <<err, faults>>
     \/ /\ Allowed(dep[c], verb) /\ Fault
        /\ Becoming(dep[c], AfterVerb(dep[c], verb) \union Halfway(dep[c], verb))
        /\ VerbFails(c)
     \/ ~Allowed(dep[c], verb) /\ VerbFails(c) /\ UNCHANGED <<rows, faults>>
  /\ UNCHANGED <<list, cursor, made, retried>>

(* Logs: the gateway passes the dial on to deploy-service, which has no    *)
(* such route.  The screen stays, with an error.                           *)
Logs(c) ==
  /\ scr[c] = "actions" /\ "Logs" \in Offered(c)
  /\ Shows(c, "logs") /\ Starts(c, <<"dial">>)
  /\ UNCHANGED <<rows, loading, dep, list, cursor, err, made, retried, faults>>

LogLine(c, i) ==
  /\ Flies(c, i, "dial") /\ Takes(c, i, <<>>)
  /\ UNCHANGED <<rows, scr, loading, dep, list, cursor, err, made, retried, faults>>

Edit(c) ==
  /\ scr[c] = "actions"
  /\ Shows(c, "edit")
  /\ UNCHANGED <<rows, loading, cmds, dep, list, cursor, err, made, retried, faults>>

Save(c) ==
  /\ scr[c] = "edit" /\ ~loading[c]
  /\ Loads(c, TRUE) /\ Starts(c, <<"update">>)
  /\ UNCHANGED <<rows, scr, dep, list, cursor, err, made, retried, faults>>

(* The gateway answers a PATCH with "method not allowed".                  *)
DeployUpdate(c, i) ==
  /\ Flies(c, i, "update") /\ Takes(c, i, <<>>) /\ Loads(c, FALSE)
  /\ "PATCH" \notin Routed
  /\ UNCHANGED <<rows, scr, dep, list, cursor, err, made, retried, faults>>

-----------------------------------------------------------------------------
Keys(c) ==
  \/ OpenDeploy(c) \/ OpenList(c) \/ Leave(c)
  \/ Choose(c) \/ PickTemplate(c) \/ Submit(c)
  \/ Move(c) \/ Enter(c) \/ Back(c)
  \/ \E verb \in {"Start", "Stop", "Delete"} : Manage(c, verb)
  \/ Logs(c) \/ Edit(c) \/ Save(c)

Messages(c) ==
  \E i \in DOMAIN cmds[c] :
    \/ TemplatesList(c, i) \/ DeployResult(c, i) \/ PollTick(c, i)
    \/ PollFails(c, i) \/ PollResult(c, i)
    \/ DeployList(c, i) \/ LogLine(c, i) \/ DeployUpdate(c, i)

Next ==
  \/ \E c \in Clis : Keys(c) \/ Messages(c)
  \/ \E i \in 1 .. MaxRows :
       Worker(i) \/ WorkerLost(i) \/ ContainerEnds(i) \/ ContainerRestarts(i)

(* A tick comes, for it is a timer.  The answer of a request need not.     *)
Fairness ==
  /\ \A c \in Clis : WF_vars(\E i \in DOMAIN cmds[c] : PollTick(c, i))
  /\ \A i \in 1 .. MaxRows : WF_vars(Worker(i))

Spec == Init /\ [][Next]_vars /\ Fairness

-----------------------------------------------------------------------------
(* Properties.                                                             *)

(* A screen has one command in flight at most: no second chain of ticks    *)
(* and polls survives an error and a new submission, no answer of an       *)
(* earlier deployment is taken for the one of the present.                 *)
OnePending == \A c \in Clis : Len(cmds[c]) <= 1

(* No second row of a form without an error of the first. *)
NoSilentDuplicate == \A c \in Clis : made[c] <= 1 + retried[c]
(* Success is shown of a started deployment only. *)
DoneWasStarted == \A c \in Clis : scr[c] = "done" => rows[dep[c]].cont # "none"

(* What the form reports is so: it makes a second deployment only after it *)
(* has shown an error of one that was made (it then does, and the first    *)
(* goes on unseen), and it reports success only of a deployment whose      *)
(* container was started, whatever other CLIs have done to it since.       *)
FormHonest == NoSilentDuplicate /\ DoneWasStarted

(* The selected deployment is the one under the cursor. *)
SelectedOnCursor ==
  \A c \in Clis : scr[c] \in {"actions", "edit", "logs"} =>
    /\ cursor[c] <= Len(list[c])
    /\ dep[c] = list[c][cursor[c]].id
(* A fault, or a deletion, so far. *)
Cause == faults > 0 \/ \E i \in Ids : rows[i].status = "deleted"
(* A menu that takes keys is drawn, unless there was a cause. *)
HiddenNeedsCause ==
  \A c \in Clis : scr[c] = "actions" /\ ~MenuDrawn(c) => Cause
(* Enter panics only when there was a deletion. *)
CrashNeedsDelete ==
  (\E c \in Clis : scr[c] = "crashed") => \E i \in Ids : rows[i].status = "deleted"

(* What an action is applied to is the deployment under the cursor: the    *)
(* list is not exchanged under an open menu.  This does not say that the   *)
(* user sees it: an error hides rows and menu for good and keys still act  *)
(* on them.  But it takes a fault or a deletion for a menu to be open and  *)
(* not drawn, and a deletion for Enter to panic past the end of the list.  *)
MenuOnCursor == SelectedOnCursor /\ HiddenNeedsCause /\ CrashNeedsDelete

(* Of a deployment that was lost by a restart, was stopped, does not run,  *)
(* or whose container is gone while its row is there (the answers are      *)
(* empty), the answers never say "error" and may never say "running".      *)
Stuck(i) ==
  /\ i \in Live
  /\ \/ rows[i].status = "pending" /\ ~rows[i].worker
     \/ rows[i].status = "exited"
     \/ rows[i].cont \in {"exited", "gone"}
(* A poll is in flight for ever: it has no timer. *)
Hung(c) == <>[](Contains(cmds[c], "poll"))
(* Polling ends, unless a poll is never answered or the deployment polled  *)
(* for is stuck, again and again, when it is asked for.                    *)
PollEnds ==
  \A c \in Clis :
    \/ Hung(c)
    \/ scr[c] = "polling" ~> (scr[c] # "polling" \/ Stuck(dep[c]))
=============================================================================
