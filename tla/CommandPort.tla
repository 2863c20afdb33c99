---------------------------- MODULE CommandPort ----------------------------
(***************************************************************************)
(* What the AgentInternal.SendCommand call promises the service that makes *)
(* it, with no connection, registry, queue or timer in sight: a command is *)
(* refused, in which case the agent never executes it, or it is accepted   *)
(* and the agent executes it at most once.  The call returns the outcome   *)
(* of that execution or "unknown"; after "unknown" the command may have    *)
(* run, may be running and may still run later.                            *)
(***************************************************************************)
CONSTANT Cmds

VARIABLES call,     \* call[k]: has the call for k been made, has it returned
          ran,      \* ran[k]: the outcome of k's execution on the agent
          answer    \* answer[k]: what the call returned

vars == <<call, ran, answer>>

Outcomes == {"ok", "fail"}
Answers  == Outcomes \cup {"refused", "unknown"}

TypeOK ==
  /\ call \in [Cmds -> {"idle", "open", "closed"}]
  /\ ran \in [Cmds -> Outcomes \cup {"none"}]
  /\ answer \in [Cmds -> Answers \cup {"none"}]

Init ==
  /\ call = [k \in Cmds |-> "idle"]
  /\ ran = [k \in Cmds |-> "none"]
  /\ answer = [k \in Cmds |-> "none"]

Call(k) ==
  /\ call[k] = "idle"
  /\ call' = [call EXCEPT ![k] = "open"]
  /\ UNCHANGED <<ran, answer>>

\* The agent executes an accepted command, possibly after its call returned.
Execute(k, v) ==
  /\ call[k] # "idle"
  /\ answer[k] # "refused"
  /\ ran[k] = "none"
  /\ ran' = [ran EXCEPT ![k] = v]
  /\ UNCHANGED <<call, answer>>

Return(k) ==
  /\ call[k] = "open"
  /\ ran[k] # "none"
  /\ call' = [call EXCEPT ![k] = "closed"]
  /\ answer' = [answer EXCEPT ![k] = ran[k]]
  /\ UNCHANGED ran

GiveUp(k) ==
  /\ call[k] = "open"
  /\ call' = [call EXCEPT ![k] = "closed"]
  /\ answer' = [answer EXCEPT ![k] = "unknown"]
  /\ UNCHANGED ran

\* The agent is not connected, or the command could not be written to it.
Refuse(k) ==
  /\ call[k] # "closed"
  /\ ran[k] = "none"
  /\ call' = [call EXCEPT ![k] = "closed"]
  /\ answer' = [answer EXCEPT ![k] = "refused"]
  /\ UNCHANGED ran

\* The service crashed: every call in progress ends at once without an answer.
Crash ==
  /\ call' = [k \in Cmds |-> IF call[k] = "open" THEN "closed" ELSE call[k]]
  /\ answer' = [k \in Cmds |-> IF call[k] = "open" THEN "unknown" ELSE answer[k]]
  /\ UNCHANGED ran

Next ==
  \/ Crash
  \/ \E k \in Cmds :
       \/ Call(k) \/ Return(k) \/ GiveUp(k) \/ Refuse(k)
       \/ \E v \in Outcomes : Execute(k, v)

\* An open call is answered some day.
Fairness == \A k \in Cmds : WF_vars(GiveUp(k))

Safety == Init /\ [][Next]_vars
Spec   == Safety /\ Fairness
=============================================================================
