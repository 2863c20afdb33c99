------------------------------- MODULE Accounts -------------------------------
(***************************************************************************)
(* Accounts, agents and bootstrap tokens: the requests that auth-service   *)
(* and agent-service answer behind the gateway, statement by statement.    *)
(*                                                                         *)
(*   sign up, sign in        internal/authSvc                              *)
(*   register an agent       POST /api/agent, RegisterOrGet                *)
(*   make a bootstrap token  POST /api/agent/bootstrap                     *)
(*   exchange it             POST /api/install/agent/config, which the     *)
(*                           gateway turns into an exchange request        *)
(*                                                                         *)
(* Requests run concurrently, each statement commits by itself, and the    *)
(* UNIQUE columns of the tables are all that orders two of them.  A fault  *)
(* ends a request before or after the effect of a statement, or loses its  *)
(* answer: a failing statement, a service that stops, a client that goes   *)
(* away and so cancels the request's context.                              *)
(*                                                                         *)
(* A row's id, its token and a session (a JWT) are named by the request    *)
(* that made them.  Names, passwords and dates are left out: a sign-in     *)
(* may be refused, and a session or a bootstrap token may expire.          *)
(***************************************************************************)
EXTENDS Integers, FiniteSets

CONSTANTS Requests,   \* the requests, numbered in the order they arrive
          Emails,
          Machines,   \* machine ids
          Kinds,      \* the kinds of request that may arrive under each number
          MaxFaults,  \* bounds the requests that a fault hits
          None        \* no value

ASSUME RequestsAssumption == Requests \subseteq Nat
ASSUME NoneAssumption == None \notin Requests \union Emails \union Machines
ASSUME FaultsAssumption == MaxFaults \in Nat

AllKinds == {"signup", "signin", "register", "bootstrap", "exchange"}
ASSUME KindsAssumption == Kinds \in [Requests -> SUBSET AllKinds]

VARIABLES users,    \* rows of table users
          agents,   \* rows of table agents
          tokens,   \* table agent_bootstrap_tokens: "none", "fresh" or "used"
          expired,  \* the sessions and bootstrap tokens whose time is over
          ask,      \* what each request asks for
          pc,       \* where each request is
          answer,   \* the id of the user or agent it found or made
          faulty    \* the requests that a fault has hit

vars == <<users, agents, tokens, expired, ask, pc, answer, faulty>>

(* What a request asks for. *)
Asking(kind, email, user, machine, token) ==
  [kind |-> kind, email |-> email, user |-> user, machine |-> machine, token |-> token]

Nothing == Asking("none", None, None, None, None)

(* The statements a request can be about to run. *)
Statements == {"getUser", "insertUser", "getToken", "getAgent", "insertAgent",
               "mark", "insertToken"}

(* A request was answered with success, delivered or not. *)
Answered(r) == pc[r] \in {"reply", "done", "lost"}

Signs(r) == ask[r].kind \in {"signup", "signin"}
Enrols(r) == ask[r].kind \in {"register", "exchange"}

TypeOK ==
  /\ users \subseteq [id : Requests, email : Emails]
  /\ agents \subseteq [id : Requests, user : Requests, machine : Machines]
  /\ tokens \in [Requests -> {"none", "fresh", "used"}]
  /\ expired \subseteq Requests
  /\ ask \in [Requests -> [kind : {"none"} \union AllKinds,
                           email : Emails \union {None},
                           user : Requests \union {None},
                           machine : Machines \union {None},
                           token : Requests \union {None}]]
  /\ pc \in [Requests -> {"idle", "reply", "done", "lost", "refused", "failed"} \union Statements]
  /\ answer \in [Requests -> Requests \union {None}]
  /\ faulty \subseteq Requests
  /\ \A r \in Requests : Answered(r) => answer[r] \in Requests

Init ==
  /\ users = {}
  /\ agents = {}
  /\ tokens = [r \in Requests |-> "none"]
  /\ expired = {}
  /\ ask = [r \in Requests |-> Nothing]
  /\ pc = [r \in Requests |-> "idle"]
  /\ answer = [r \in Requests |-> None]
  /\ faulty = {}

Goto(r, step) == pc' = [pc EXCEPT ![r] = step]

(* Request r arrives with what it asks for and goes to a first step. *)
Arrive(r, what, step) ==
  /\ pc[r] = "idle"
  /\ what.kind \in Kinds[r]
  /\ \A q \in Requests : q < r => pc[q] # "idle"
  /\ ask' = [ask EXCEPT ![r] = what]
  /\ Goto(r, step)
  /\ UNCHANGED <<users, agents, tokens, expired, answer, faulty>>

(* A session is the JWT of a sign-up or sign-in whose answer arrived; the  *)
(* gateway refuses it once it has expired.                                 *)
Session(s) == Signs(s) /\ pc[s] = "done"
JwtToUserID(s, step) == IF s \in expired THEN "refused" ELSE step

-----------------------------------------------------------------------------
(* Arrivals.                                                               *)

SignUp(r, e) == Arrive(r, Asking("signup", e, None, None, None), "getUser")
SignIn(r, e) == Arrive(r, Asking("signin", e, None, None, None), "getUser")

Register(r, s, m) ==
  /\ Session(s)
  /\ Arrive(r, Asking("register", None, answer[s], m, None), JwtToUserID(s, "getAgent"))

CreateBootstrapToken(r, s) ==
  /\ Session(s)
  /\ Arrive(r, Asking("bootstrap", None, answer[s], None, None), JwtToUserID(s, "insertToken"))

(* The installer of machine m posts the token of its command line.         *)
ExchangeBootstrapToken(r, t, m) ==
  /\ ask[t].kind = "bootstrap" /\ pc[t] = "done"
  /\ Arrive(r, Asking("exchange", None, None, m, t), "getToken")

-----------------------------------------------------------------------------
(* Faulty variants, used to show that the properties can fail.             *)

FoundAgents(r) == {a \in agents : a.user = ask[r].user /\ a.machine = ask[r].machine}

(* Tables without their UNIQUE columns. *)
AddUserAlways(r) == users' = users \union {[id |-> r, email |-> ask[r].email]}
AddAgentAlways(r) ==
  agents' = agents \union {[id |-> r, user |-> ask[r].user, machine |-> ask[r].machine]}

(* Only the date of a token is looked at. *)
TokenOpenByDate(t) == tokens[t] # "none" /\ t \notin expired

(* The token is marked before the agent is registered. *)
GetTokenAndMark(r) ==
  LET t == ask[r].token
  IN  /\ pc[r] = "getToken"
      /\ tokens[t] = "fresh" /\ t \notin expired
      /\ tokens' = [tokens EXCEPT ![t] = "used"]
      /\ ask' = [ask EXCEPT ![r].user = ask[t].user]
      /\ Goto(r, "getAgent")
      /\ UNCHANGED <<users, agents, expired, answer, faulty>>

-----------------------------------------------------------------------------
(* Sign-up and sign-in.                                                    *)

FoundUsers(r) == {u \in users : u.email = ask[r].email}

(* GetByEmail, the test of the password, and the token of a sign-in.       *)
GetUser(r) ==
  /\ pc[r] = "getUser"
  /\ \/ /\ ask[r].kind = "signup"
        /\ Goto(r, IF FoundUsers(r) = {} THEN "insertUser" ELSE "refused")
        /\ UNCHANGED answer
     \/ /\ ask[r].kind = "signin"
        /\ \E u \in FoundUsers(r) : answer' = [answer EXCEPT ![r] = u.id]
        /\ Goto(r, "reply")
     \/ /\ ask[r].kind = "signin"   \* no such user, or another password
        /\ Goto(r, "refused")
        /\ UNCHANGED answer
  /\ UNCHANGED <<users, agents, tokens, expired, ask, faulty>>

(* The row is added unless the email is taken. *)
AddUser(r) ==
  /\ FoundUsers(r) = {}
  /\ users' = users \union {[id |-> r, email |-> ask[r].email]}

InsertUser(r) ==
  /\ pc[r] = "insertUser"
  /\ \/ /\ AddUser(r)
        /\ answer' = [answer EXCEPT ![r] = r]
        /\ Goto(r, "reply")
     \/ /\ FoundUsers(r) # {}
        /\ Goto(r, "refused")
        /\ UNCHANGED <<users, answer>>
  /\ UNCHANGED <<agents, tokens, expired, ask, faulty>>

-----------------------------------------------------------------------------
(* Agents and bootstrap tokens.                                            *)

InsertToken(r) ==
  /\ pc[r] = "insertToken"
  /\ tokens' = [tokens EXCEPT ![r] = "fresh"]
  /\ answer' = [answer EXCEPT ![r] = r]
  /\ Goto(r, "reply")
  /\ UNCHANGED <<users, agents, expired, ask, faulty>>

TokenOpen(t) == tokens[t] = "fresh" /\ t \notin expired

(* GetBootstrapToken and the test of its two dates. *)
GetToken(r) ==
  LET t == ask[r].token
  IN  /\ pc[r] = "getToken"
      /\ \/ /\ TokenOpen(t)
            /\ ask' = [ask EXCEPT ![r].user = ask[t].user]
            /\ Goto(r, "getAgent")
         \/ /\ ~TokenOpen(t)
            /\ Goto(r, "refused")
            /\ UNCHANGED ask
      /\ UNCHANGED <<users, agents, tokens, expired, answer, faulty>>

(* What follows RegisterOrGet. *)
AfterAgent(r) == IF ask[r].kind = "exchange" THEN "mark" ELSE "reply"

(* GetByUserAndMachine. *)
GetAgent(r) ==
  /\ pc[r] = "getAgent"
  /\ \/ /\ \E a \in FoundAgents(r) : answer' = [answer EXCEPT ![r] = a.id]
        /\ Goto(r, AfterAgent(r))
     \/ /\ FoundAgents(r) = {}
        /\ Goto(r, "insertAgent")
        /\ UNCHANGED answer
  /\ UNCHANGED <<users, agents, tokens, expired, ask, faulty>>

(* The row is added unless the user has an agent for the machine. *)
AddAgent(r) ==
  /\ FoundAgents(r) = {}
  /\ agents' = agents \union {[id |-> r, user |-> ask[r].user, machine |-> ask[r].machine]}

InsertAgent(r) ==
  /\ pc[r] = "insertAgent"
  /\ \/ /\ AddAgent(r)
        /\ answer' = [answer EXCEPT ![r] = r]
        /\ Goto(r, AfterAgent(r))
     \/ /\ FoundAgents(r) # {}
        /\ Goto(r, "refused")
        /\ UNCHANGED <<agents, answer>>
  /\ UNCHANGED <<users, tokens, expired, ask, faulty>>

(* The rows affected are not looked at: a token that is used already is    *)
(* marked without an error.                                                *)
Mark(r) ==
  /\ pc[r] = "mark"
  /\ tokens' = [tokens EXCEPT ![ask[r].token] = "used"]
  /\ Goto(r, "reply")
  /\ UNCHANGED <<users, agents, expired, ask, answer, faulty>>

Reply(r) ==
  /\ pc[r] = "reply"
  /\ Goto(r, "done")
  /\ UNCHANGED <<users, agents, tokens, expired, ask, answer, faulty>>

-----------------------------------------------------------------------------
(* Faults and time.                                                        *)

Hit(r) ==
  /\ Cardinality(faulty) < MaxFaults
  /\ faulty' = faulty \union {r}

(* A statement fails, or the request ends before it. *)
Fail(r) ==
  /\ pc[r] \in Statements
  /\ Hit(r)
  /\ Goto(r, "failed")
  /\ UNCHANGED <<users, agents, tokens, expired, ask, answer>>

(* A statement commits and the request learns nothing of it. *)
CommitLost(r) ==
  /\ Hit(r)
  /\ \/ pc[r] = "insertUser" /\ AddUser(r) /\ UNCHANGED <<agents, tokens>>
     \/ pc[r] = "insertAgent" /\ AddAgent(r) /\ UNCHANGED <<users, tokens>>
     \/ /\ pc[r] = "insertToken"
        /\ tokens' = [tokens EXCEPT ![r] = "fresh"]
        /\ UNCHANGED <<users, agents>>
     \/ /\ pc[r] = "mark"
        /\ tokens' = [tokens EXCEPT ![ask[r].token] = "used"]
        /\ UNCHANGED <<users, agents>>
  /\ Goto(r, "failed")
  /\ UNCHANGED <<expired, ask, answer>>

(* The gateway or the network loses the answer: the client sees an error.  *)
ReplyLost(r) ==
  /\ pc[r] = "reply"
  /\ Hit(r)
  /\ Goto(r, "lost")
  /\ UNCHANGED <<users, agents, tokens, expired, ask, answer>>

(* Thirty days of a session, or fifteen minutes of a bootstrap token, end. *)
Expire(r) ==
  /\ r \notin expired
  /\ Session(r) \/ tokens[r] # "none"
  /\ expired' = expired \union {r}
  /\ UNCHANGED <<users, agents, tokens, ask, pc, answer, faulty>>

Arrival(r) ==
  \/ \E e \in Emails : SignUp(r, e) \/ SignIn(r, e)
  \/ \E s \in Requests : CreateBootstrapToken(r, s)
  \/ \E s \in Requests, m \in Machines : Register(r, s, m)
  \/ \E t \in Requests, m \in Machines : ExchangeBootstrapToken(r, t, m)

Statement(r) ==
  \/ GetUser(r) \/ InsertUser(r)
  \/ InsertToken(r) \/ GetToken(r) \/ GetAgent(r) \/ InsertAgent(r) \/ Mark(r)
  \/ Reply(r)

Fault(r) == Fail(r) \/ CommitLost(r) \/ ReplyLost(r)

Next == \E r \in Requests : Arrival(r) \/ Statement(r) \/ Fault(r) \/ Expire(r)

Spec == Init /\ [][Next]_vars

-----------------------------------------------------------------------------
(* Properties.                                                             *)

(* Whatever requests for a user's machine overlap, fail or are repeated,   *)
(* all those that are answered name one agent, so that every copy of the   *)
(* machine's configuration holds the token of the same row.                *)
OneAgentPerMachine ==
  \A q, r \in Requests :
    (/\ Enrols(q) /\ Answered(q) /\ Enrols(r) /\ Answered(r)
     /\ ask[q].user = ask[r].user /\ ask[q].machine = ask[r].machine)
    => answer[q] = answer[r]

(* Everybody who was signed up or in with an email acts as one user, even  *)
(* when two sign-ups of it overlap.                                        *)
OneIdentityPerEmail ==
  \A q, r \in Requests :
    (/\ Signs(q) /\ Answered(q) /\ Signs(r) /\ Answered(r)
     /\ ask[q].email = ask[r].email)
    => answer[q] = answer[r]

(* Once the exchange of a token was answered with an agent, no other       *)
(* exchange of it gets past the test of the token.  (Two that overlap may  *)
(* both be answered, for two machines.)                                    *)
ClosedAfterAnswer ==
  [][\A r \in Requests :
       (ask[r].kind = "exchange" /\ pc[r] = "getToken" /\ pc'[r] = "getAgent")
       => \A q \in Requests :
            (ask[q].kind = "exchange" /\ ask[q].token = ask[r].token) => ~Answered(q)]_vars

(* An exchange that is refused, by an overlapping registration of the same *)
(* machine for example, leaves its token for another try: a token is spent *)
(* only by an exchange that is answered, or that a fault has hit.          *)
SpentByAnswerOrFault ==
  \A t \in Requests :
    tokens[t] = "used" =>
      \E r \in Requests : /\ ask[r].kind = "exchange" /\ ask[r].token = t
                          /\ pc[r] \in {"reply", "done"} \/ r \in faulty
=============================================================================
