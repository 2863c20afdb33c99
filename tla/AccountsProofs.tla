--------------------------- MODULE AccountsProofs ---------------------------
(***************************************************************************)
(* What holds of every request to auth-service and agent-service, for any  *)
(* number of them, of emails and of machines.                              *)
(*                                                                         *)
(* The two UNIQUE columns carry the argument: a row once added stays, so   *)
(* an answer that names a row names the only one of its key.  What remains *)
(* is to follow each request from its statement to its answer (Inv).       *)
(***************************************************************************)
EXTENDS Accounts, TLAPS

(* The statement a request is at belongs to its kind, and a fault hits     *)
(* only requests that have arrived.                                        *)
InPlace ==
  \A r \in Requests :
    /\ pc[r] \in {"getUser", "insertUser"} => Signs(r)
    /\ pc[r] = "insertToken" => ask[r].kind = "bootstrap"
    /\ pc[r] \in {"getToken", "mark"} => ask[r].kind = "exchange"
    /\ pc[r] \in {"getAgent", "insertAgent"} => Enrols(r)
    /\ r \in faulty => pc[r] # "idle"

(* What a request asks for is there: its email, its user, its machine.  An *)
(* exchange asks with the token of an answered bootstrap request, and has  *)
(* a user once it is past the test of the token.                           *)
WellAsked ==
  \A r \in Requests :
    /\ Signs(r) => ask[r].email \in Emails
    /\ Enrols(r) => ask[r].machine \in Machines
    /\ ask[r].kind \in {"register", "bootstrap"} => ask[r].user \in Requests
    /\ pc[r] \in {"getAgent", "insertAgent"} => ask[r].user \in Requests
    /\ ask[r].kind = "exchange" =>
         /\ ask[r].token \in Requests
         /\ ask[ask[r].token].kind = "bootstrap"
         /\ pc[ask[r].token] = "done"

(* The UNIQUE columns. *)
UniqueRows ==
  /\ \A u, v \in users : u.email = v.email => u = v
  /\ \A a, b \in agents : a.user = b.user /\ a.machine = b.machine => a = b

(* An answer names the row that was asked for. *)
AnswersNameRows ==
  \A r \in Requests :
    /\ Signs(r) /\ Answered(r) =>
         \E u \in users : u.id = answer[r] /\ u.email = ask[r].email
    /\ Enrols(r) /\ (Answered(r) \/ pc[r] = "mark") =>
         \E a \in agents : /\ a.id = answer[r]
                           /\ a.user = ask[r].user /\ a.machine = ask[r].machine

(* An answered exchange has spent its token. *)
AnsweredSpent ==
  \A r \in Requests :
    ask[r].kind = "exchange" /\ Answered(r) => tokens[ask[r].token] = "used"

Inv == /\ TypeOK /\ InPlace /\ WellAsked /\ UniqueRows
       /\ AnswersNameRows /\ AnsweredSpent /\ SpentByAnswerOrFault

-----------------------------------------------------------------------------
(* What an arrival does, whatever its kind.                                *)

First == {"getUser", "getAgent", "insertToken", "getToken", "refused"}

Asked(what, step) ==
  /\ what \in [kind : AllKinds, email : Emails \union {None},
               user : Requests \union {None}, machine : Machines \union {None},
               token : Requests \union {None}]
  /\ what.kind \in {"signup", "signin"} => what.email \in Emails /\ step = "getUser"
  /\ what.kind \in {"register", "exchange"} => what.machine \in Machines
  /\ what.kind \in {"register", "bootstrap"} => what.user \in Requests
  /\ what.kind = "register" => step \in {"getAgent", "refused"}
  /\ what.kind = "bootstrap" => step \in {"insertToken", "refused"}
  /\ what.kind = "exchange" =>
       /\ what.token \in Requests /\ step = "getToken"
       /\ ask[what.token].kind = "bootstrap" /\ pc[what.token] = "done"

(* Every arrival is an Arrive with something well asked. *)
LEMMA Arrivals ==
  ASSUME TypeOK, NEW r \in Requests, Arrival(r)
  PROVE  \E what, step : Asked(what, step) /\ step \in First /\ Arrive(r, what, step)
<1>1. ASSUME NEW e \in Emails, SignUp(r, e) \/ SignIn(r, e)
      PROVE  \E what, step : Asked(what, step) /\ step \in First /\ Arrive(r, what, step)
  <2>1. CASE SignUp(r, e)
    <3> DEFINE w == Asking("signup", e, None, None, None)
    <3>1. Asked(w, "getUser")  BY <1>1 DEF Asked, Asking, AllKinds
    <3> QED  BY <2>1, <3>1 DEF SignUp, First
  <2>2. CASE SignIn(r, e)
    <3> DEFINE w == Asking("signin", e, None, None, None)
    <3>1. Asked(w, "getUser")  BY <1>1 DEF Asked, Asking, AllKinds
    <3> QED  BY <2>2, <3>1 DEF SignIn, First
  <2> QED  BY <1>1, <2>1, <2>2
<1>2. ASSUME NEW s \in Requests, CreateBootstrapToken(r, s)
      PROVE  \E what, step : Asked(what, step) /\ step \in First /\ Arrive(r, what, step)
  <2> DEFINE w == Asking("bootstrap", None, answer[s], None, None)
             k == JwtToUserID(s, "insertToken")
  <2>1. answer[s] \in Requests  BY <1>2 DEF CreateBootstrapToken, Session, Answered, TypeOK
  <2>2. k \in {"insertToken", "refused"}  BY DEF JwtToUserID
  <2>3. Asked(w, k)  BY <2>1, <2>2 DEF Asked, Asking, AllKinds
  <2> QED  BY <1>2, <2>2, <2>3 DEF CreateBootstrapToken, First
<1>3. ASSUME NEW s \in Requests, NEW m \in Machines, Register(r, s, m)
      PROVE  \E what, step : Asked(what, step) /\ step \in First /\ Arrive(r, what, step)
  <2> DEFINE w == Asking("register", None, answer[s], m, None)
             k == JwtToUserID(s, "getAgent")
  <2>1. answer[s] \in Requests  BY <1>3 DEF Register, Session, Answered, TypeOK
  <2>2. k \in {"getAgent", "refused"}  BY DEF JwtToUserID
  <2>3. Asked(w, k)  BY <1>3, <2>1, <2>2 DEF Asked, Asking, AllKinds
  <2> QED  BY <1>3, <2>2, <2>3 DEF Register, First
<1>4. ASSUME NEW t \in Requests, NEW m \in Machines, ExchangeBootstrapToken(r, t, m)
      PROVE  \E what, step : Asked(what, step) /\ step \in First /\ Arrive(r, what, step)
  <2> DEFINE w == Asking("exchange", None, None, m, t)
  <2>1. Asked(w, "getToken")
    BY <1>4 DEF ExchangeBootstrapToken, Asked, Asking, AllKinds
  <2> QED  BY <1>4, <2>1 DEF ExchangeBootstrapToken, First
<1> QED  BY <1>1, <1>2, <1>3, <1>4 DEF Arrival

-----------------------------------------------------------------------------
(* Inv is inductive, conjunct by conjunct.                                 *)

LEMMA InvInit == Init => Inv
BY NoneAssumption
   DEF Init, Inv, TypeOK, InPlace, WellAsked, UniqueRows, AnswersNameRows, AnsweredSpent,
       SpentByAnswerOrFault, Signs, Enrols, Answered, Nothing, Asking

(* Every step keeps the types. *)
LEMMA TypeStep ==
  ASSUME Inv, NEW r \in Requests, Arrival(r) \/ Statement(r) \/ Fault(r) \/ Expire(r)
  PROVE  TypeOK'
<1> USE DEF TypeOK, Answered, Statements, AllKinds
<1>1. CASE Arrival(r)
  <2>1. PICK what, step : Asked(what, step) /\ step \in First /\ Arrive(r, what, step)
    BY <1>1, Arrivals DEF Inv
  <2> QED  BY <2>1 DEF Arrive, Goto, Asked, First, Inv, InPlace, WellAsked, AnswersNameRows, Signs, Enrols
<1>2. CASE GetUser(r)  BY <1>2 DEF GetUser, Goto, FoundUsers, Inv, InPlace, WellAsked, AnswersNameRows, Signs, Enrols
<1>3. CASE InsertUser(r)  BY <1>3 DEF InsertUser, Goto, AddUser, FoundUsers, Inv, InPlace, WellAsked, AnswersNameRows, Signs, Enrols
<1>4. CASE InsertToken(r)  BY <1>4 DEF InsertToken, Goto, Inv, InPlace, WellAsked, AnswersNameRows, Signs, Enrols
<1>5. CASE GetToken(r)  BY <1>5 DEF GetToken, Goto, TokenOpen, Inv, InPlace, WellAsked, AnswersNameRows, Signs, Enrols
<1>6. CASE GetAgent(r)  BY <1>6 DEF GetAgent, Goto, FoundAgents, AfterAgent, Inv, InPlace, WellAsked, AnswersNameRows, Signs, Enrols
<1>7. CASE InsertAgent(r)  BY <1>7 DEF InsertAgent, Goto, AddAgent, FoundAgents, AfterAgent, Inv, InPlace, WellAsked, AnswersNameRows, Signs, Enrols
<1>8. CASE Mark(r)  BY <1>8 DEF Mark, Goto, Inv, InPlace, WellAsked, AnswersNameRows, Signs, Enrols
<1>9. CASE Reply(r)  BY <1>9 DEF Reply, Goto, Inv, InPlace, WellAsked, AnswersNameRows, Signs, Enrols
<1>10. CASE Fail(r)  BY <1>10 DEF Fail, Goto, Hit, Statements, Inv, InPlace, WellAsked, AnswersNameRows, Signs, Enrols
<1>11. CASE CommitLost(r)  BY <1>11 DEF CommitLost, Goto, Hit, AddUser, AddAgent, FoundUsers, FoundAgents, Inv, InPlace, WellAsked, AnswersNameRows, Signs, Enrols
<1>12. CASE ReplyLost(r)  BY <1>12 DEF ReplyLost, Goto, Hit, Inv, InPlace, WellAsked, AnswersNameRows, Signs, Enrols
<1>13. CASE Expire(r)  BY <1>13 DEF Expire, Inv, InPlace, WellAsked, AnswersNameRows, Signs, Enrols
<1> QED  BY <1>1, <1>2, <1>3, <1>4, <1>5, <1>6, <1>7, <1>8, <1>9, <1>10, <1>11, <1>12, <1>13 DEF Statement, Fault

(* Every step leads a request to a statement of its kind. *)
LEMMA PlaceStep ==
  ASSUME Inv, NEW r \in Requests, Arrival(r) \/ Statement(r) \/ Fault(r) \/ Expire(r)
  PROVE  InPlace'
<1> USE DEF InPlace, Signs, Enrols, Statements, AllKinds
<1>1. CASE Arrival(r)
  <2>1. PICK what, step : Asked(what, step) /\ step \in First /\ Arrive(r, what, step)
    BY <1>1, Arrivals DEF Inv
  <2> QED  BY <2>1 DEF Arrive, Goto, Asked, First, Inv, TypeOK
<1>2. CASE GetUser(r)  BY <1>2 DEF GetUser, Goto, FoundUsers, Inv, TypeOK
<1>3. CASE InsertUser(r)  BY <1>3 DEF InsertUser, Goto, AddUser, FoundUsers, Inv, TypeOK
<1>4. CASE InsertToken(r)  BY <1>4 DEF InsertToken, Goto, Inv, TypeOK
<1>5. CASE GetToken(r)  BY <1>5 DEF GetToken, Goto, TokenOpen, Inv, TypeOK
<1>6. CASE GetAgent(r)  BY <1>6 DEF GetAgent, Goto, FoundAgents, AfterAgent, Inv, TypeOK
<1>7. CASE InsertAgent(r)  BY <1>7 DEF InsertAgent, Goto, AddAgent, FoundAgents, AfterAgent, Inv, TypeOK
<1>8. CASE Mark(r)  BY <1>8 DEF Mark, Goto, Inv, TypeOK
<1>9. CASE Reply(r)  BY <1>9 DEF Reply, Goto, Inv, TypeOK
<1>10. CASE Fail(r)  BY <1>10 DEF Fail, Goto, Hit, Statements, Inv, TypeOK
<1>11. CASE CommitLost(r)  BY <1>11 DEF CommitLost, Goto, Hit, AddUser, AddAgent, FoundUsers, FoundAgents, Inv, TypeOK
<1>12. CASE ReplyLost(r)  BY <1>12 DEF ReplyLost, Goto, Hit, Inv, TypeOK
<1>13. CASE Expire(r)  BY <1>13 DEF Expire, Inv, TypeOK
<1> QED  BY <1>1, <1>2, <1>3, <1>4, <1>5, <1>6, <1>7, <1>8, <1>9, <1>10, <1>11, <1>12, <1>13 DEF Statement, Fault

(* Every step keeps what is asked for. *)
LEMMA AskedStep ==
  ASSUME Inv, NEW r \in Requests, Arrival(r) \/ Statement(r) \/ Fault(r) \/ Expire(r)
  PROVE  WellAsked'
<1> USE DEF WellAsked, Signs, Enrols, Statements, AllKinds
<1>1. CASE Arrival(r)
  <2>1. PICK what, step : Asked(what, step) /\ step \in First /\ Arrive(r, what, step)
    BY <1>1, Arrivals DEF Inv
  <2> QED  BY <2>1 DEF Arrive, Goto, Asked, First, Inv, InPlace, TypeOK
<1>2. CASE GetUser(r)  BY <1>2 DEF GetUser, Goto, FoundUsers, Inv, InPlace, TypeOK
<1>3. CASE InsertUser(r)  BY <1>3 DEF InsertUser, Goto, AddUser, FoundUsers, Inv, InPlace, TypeOK
<1>4. CASE InsertToken(r)  BY <1>4 DEF InsertToken, Goto, Inv, InPlace, TypeOK
<1>5. CASE GetToken(r)  BY <1>5 DEF GetToken, Goto, TokenOpen, Inv, InPlace, TypeOK
<1>6. CASE GetAgent(r)  BY <1>6 DEF GetAgent, Goto, FoundAgents, AfterAgent, Inv, InPlace, TypeOK
<1>7. CASE InsertAgent(r)  BY <1>7 DEF InsertAgent, Goto, AddAgent, FoundAgents, AfterAgent, Inv, InPlace, TypeOK
<1>8. CASE Mark(r)  BY <1>8 DEF Mark, Goto, Inv, InPlace, TypeOK
<1>9. CASE Reply(r)  BY <1>9 DEF Reply, Goto, Inv, InPlace, TypeOK
<1>10. CASE Fail(r)  BY <1>10 DEF Fail, Goto, Hit, Statements, Inv, InPlace, TypeOK
<1>11. CASE CommitLost(r)  BY <1>11 DEF CommitLost, Goto, Hit, AddUser, AddAgent, FoundUsers, FoundAgents, Inv, InPlace, TypeOK
<1>12. CASE ReplyLost(r)  BY <1>12 DEF ReplyLost, Goto, Hit, Inv, InPlace, TypeOK
<1>13. CASE Expire(r)  BY <1>13 DEF Expire, Inv, InPlace, TypeOK
<1> QED  BY <1>1, <1>2, <1>3, <1>4, <1>5, <1>6, <1>7, <1>8, <1>9, <1>10, <1>11, <1>12, <1>13 DEF Statement, Fault

(* No step adds a second row of a key. *)
LEMMA RowsStep ==
  ASSUME Inv, NEW r \in Requests, Arrival(r) \/ Statement(r) \/ Fault(r) \/ Expire(r)
  PROVE  UniqueRows'
<1> USE DEF UniqueRows
<1>1. CASE Arrival(r)
  <2>1. PICK what, step : Asked(what, step) /\ step \in First /\ Arrive(r, what, step)
    BY <1>1, Arrivals DEF Inv
  <2> QED  BY <2>1 DEF Arrive, Goto, Asked, First, Inv, TypeOK
<1>2. CASE GetUser(r)  BY <1>2 DEF GetUser, Goto, FoundUsers, Inv, TypeOK
<1>3. CASE InsertUser(r)  BY <1>3 DEF InsertUser, Goto, AddUser, FoundUsers, Inv, TypeOK
<1>4. CASE InsertToken(r)  BY <1>4 DEF InsertToken, Goto, Inv, TypeOK
<1>5. CASE GetToken(r)  BY <1>5 DEF GetToken, Goto, TokenOpen, Inv, TypeOK
<1>6. CASE GetAgent(r)  BY <1>6 DEF GetAgent, Goto, FoundAgents, AfterAgent, Inv, TypeOK
<1>7. CASE InsertAgent(r)  BY <1>7 DEF InsertAgent, Goto, AddAgent, FoundAgents, AfterAgent, Inv, TypeOK
<1>8. CASE Mark(r)  BY <1>8 DEF Mark, Goto, Inv, TypeOK
<1>9. CASE Reply(r)  BY <1>9 DEF Reply, Goto, Inv, TypeOK
<1>10. CASE Fail(r)  BY <1>10 DEF Fail, Goto, Hit, Statements, Inv, TypeOK
<1>11. CASE CommitLost(r)  BY <1>11 DEF CommitLost, Goto, Hit, AddUser, AddAgent, FoundUsers, FoundAgents, Inv, TypeOK
<1>12. CASE ReplyLost(r)  BY <1>12 DEF ReplyLost, Goto, Hit, Inv, TypeOK
<1>13. CASE Expire(r)  BY <1>13 DEF Expire, Inv, TypeOK
<1> QED  BY <1>1, <1>2, <1>3, <1>4, <1>5, <1>6, <1>7, <1>8, <1>9, <1>10, <1>11, <1>12, <1>13 DEF Statement, Fault

(* Every answer given is the id of a row of its key, and rows stay. *)
LEMMA NamesStep ==
  ASSUME Inv, NEW r \in Requests, Arrival(r) \/ Statement(r) \/ Fault(r) \/ Expire(r)
  PROVE  AnswersNameRows'
<1> USE DEF AnswersNameRows, Signs, Enrols, Answered, Statements
<1>1. CASE Arrival(r)
  <2>1. PICK what, step : Asked(what, step) /\ step \in First /\ Arrive(r, what, step)
    BY <1>1, Arrivals DEF Inv
  <2> QED  BY <2>1 DEF Arrive, Goto, Asked, First, Inv, InPlace, TypeOK
<1>2. CASE GetUser(r)  BY <1>2 DEF GetUser, Goto, FoundUsers, Inv, InPlace, TypeOK
<1>3. CASE InsertUser(r)
  <2>1. CASE AddUser(r) /\ answer' = [answer EXCEPT ![r] = r]
    <3>1. [id |-> r, email |-> ask[r].email] \in users'  BY <2>1 DEF AddUser
    <3>2. r \in Requests /\ answer'[r] = r  BY <2>1 DEF Inv, TypeOK
    <3>3. \A q \in Requests : q # r => pc'[q] = pc[q] /\ answer'[q] = answer[q]
      BY <1>3, <2>1 DEF InsertUser, Goto, Inv, TypeOK
    <3>4. users \subseteq users' /\ UNCHANGED <<agents, ask>>
      BY <1>3, <2>1 DEF InsertUser, AddUser
    <3> QED  BY <1>3, <3>1, <3>2, <3>3, <3>4 DEF InsertUser, Inv, InPlace
  <2>2. CASE UNCHANGED <<users, answer>> /\ Goto(r, "refused")
    BY <1>3, <2>2 DEF InsertUser, Goto, Inv, TypeOK
  <2> QED  BY <1>3, <2>1, <2>2 DEF InsertUser
<1>4. CASE InsertToken(r)  BY <1>4 DEF InsertToken, Goto, Inv, InPlace, TypeOK
<1>5. CASE GetToken(r)  BY <1>5 DEF GetToken, Goto, TokenOpen, Inv, InPlace, TypeOK
<1>6. CASE GetAgent(r)  BY <1>6 DEF GetAgent, Goto, FoundAgents, AfterAgent, Inv, InPlace, TypeOK
<1>7. CASE InsertAgent(r)
  <2>1. CASE AddAgent(r) /\ answer' = [answer EXCEPT ![r] = r]
    <3>1. [id |-> r, user |-> ask[r].user, machine |-> ask[r].machine] \in agents'  BY <2>1 DEF AddAgent
    <3>2. r \in Requests /\ answer'[r] = r  BY <2>1 DEF Inv, TypeOK
    <3>3. \A q \in Requests : q # r => pc'[q] = pc[q] /\ answer'[q] = answer[q]
      BY <1>7, <2>1 DEF InsertAgent, Goto, Inv, TypeOK
    <3>4. agents \subseteq agents' /\ UNCHANGED <<users, ask>>
      BY <1>7, <2>1 DEF InsertAgent, AddAgent
    <3> QED  BY <1>7, <3>1, <3>2, <3>3, <3>4 DEF InsertAgent, Inv, InPlace
  <2>2. CASE UNCHANGED <<agents, answer>> /\ Goto(r, "refused")
    BY <1>7, <2>2 DEF InsertAgent, Goto, Inv, TypeOK
  <2> QED  BY <1>7, <2>1, <2>2 DEF InsertAgent
<1>8. CASE Mark(r)  BY <1>8 DEF Mark, Goto, Inv, InPlace, TypeOK
<1>9. CASE Reply(r)  BY <1>9 DEF Reply, Goto, Inv, InPlace, TypeOK
<1>10. CASE Fail(r)  BY <1>10 DEF Fail, Goto, Hit, Statements, Inv, InPlace, TypeOK
<1>11. CASE CommitLost(r)  BY <1>11 DEF CommitLost, Goto, Hit, AddUser, AddAgent, FoundUsers, FoundAgents, Inv, InPlace, TypeOK
<1>12. CASE ReplyLost(r)  BY <1>12 DEF ReplyLost, Goto, Hit, Inv, InPlace, TypeOK
<1>13. CASE Expire(r)  BY <1>13 DEF Expire, Inv, InPlace, TypeOK
<1> QED  BY <1>1, <1>2, <1>3, <1>4, <1>5, <1>6, <1>7, <1>8, <1>9, <1>10, <1>11, <1>12, <1>13 DEF Statement, Fault

(* A token that was marked stays marked. *)
LEMMA SpentStep ==
  ASSUME Inv, NEW r \in Requests, Arrival(r) \/ Statement(r) \/ Fault(r) \/ Expire(r)
  PROVE  AnsweredSpent'
<1> USE DEF AnsweredSpent, Answered, Signs, Enrols, Statements
<1>1. CASE Arrival(r)
  <2>1. PICK what, step : Asked(what, step) /\ step \in First /\ Arrive(r, what, step)
    BY <1>1, Arrivals DEF Inv
  <2> QED  BY <2>1 DEF Arrive, Goto, Asked, First, Inv, InPlace, WellAsked, TypeOK
<1>2. CASE GetUser(r)  BY <1>2 DEF GetUser, Goto, FoundUsers, Inv, InPlace, WellAsked, TypeOK
<1>3. CASE InsertUser(r)  BY <1>3 DEF InsertUser, Goto, AddUser, FoundUsers, Inv, InPlace, WellAsked, TypeOK
<1>4. CASE InsertToken(r)  BY <1>4 DEF InsertToken, Goto, Inv, InPlace, WellAsked, TypeOK
<1>5. CASE GetToken(r)  BY <1>5 DEF GetToken, Goto, TokenOpen, Inv, InPlace, WellAsked, TypeOK
<1>6. CASE GetAgent(r)  BY <1>6 DEF GetAgent, Goto, FoundAgents, AfterAgent, Inv, InPlace, WellAsked, TypeOK
<1>7. CASE InsertAgent(r)  BY <1>7 DEF InsertAgent, Goto, AddAgent, FoundAgents, AfterAgent, Inv, InPlace, WellAsked, TypeOK
<1>8. CASE Mark(r)  BY <1>8 DEF Mark, Goto, Inv, InPlace, WellAsked, TypeOK
<1>9. CASE Reply(r)  BY <1>9 DEF Reply, Goto, Inv, InPlace, WellAsked, TypeOK
<1>10. CASE Fail(r)  BY <1>10 DEF Fail, Goto, Hit, Statements, Inv, InPlace, WellAsked, TypeOK
<1>11. CASE CommitLost(r)  BY <1>11 DEF CommitLost, Goto, Hit, AddUser, AddAgent, FoundUsers, FoundAgents, Inv, InPlace, WellAsked, TypeOK
<1>12. CASE ReplyLost(r)  BY <1>12 DEF ReplyLost, Goto, Hit, Inv, InPlace, WellAsked, TypeOK
<1>13. CASE Expire(r)  BY <1>13 DEF Expire, Inv, InPlace, WellAsked, TypeOK
<1> QED  BY <1>1, <1>2, <1>3, <1>4, <1>5, <1>6, <1>7, <1>8, <1>9, <1>10, <1>11, <1>12, <1>13 DEF Statement, Fault

(* A step that spends a token is the answer of an exchange, or a fault. *)
LEMMA FaultStep ==
  ASSUME Inv, NEW r \in Requests, Arrival(r) \/ Statement(r) \/ Fault(r) \/ Expire(r)
  PROVE  SpentByAnswerOrFault'
<1> USE DEF SpentByAnswerOrFault, Signs, Enrols, Statements
<1>1. CASE Arrival(r)
  <2>1. PICK what, step : Asked(what, step) /\ step \in First /\ Arrive(r, what, step)
    BY <1>1, Arrivals DEF Inv
  <2> QED  BY <2>1 DEF Arrive, Goto, Asked, First, Inv, InPlace, WellAsked, TypeOK
<1>2. CASE GetUser(r)  BY <1>2 DEF GetUser, Goto, FoundUsers, Inv, InPlace, WellAsked, TypeOK
<1>3. CASE InsertUser(r)  BY <1>3 DEF InsertUser, Goto, AddUser, FoundUsers, Inv, InPlace, WellAsked, TypeOK
<1>4. CASE InsertToken(r)  BY <1>4 DEF InsertToken, Goto, Inv, InPlace, WellAsked, TypeOK
<1>5. CASE GetToken(r)  BY <1>5 DEF GetToken, Goto, TokenOpen, Inv, InPlace, WellAsked, TypeOK
<1>6. CASE GetAgent(r)  BY <1>6 DEF GetAgent, Goto, FoundAgents, AfterAgent, Inv, InPlace, WellAsked, TypeOK
<1>7. CASE InsertAgent(r)  BY <1>7 DEF InsertAgent, Goto, AddAgent, FoundAgents, AfterAgent, Inv, InPlace, WellAsked, TypeOK
<1>8. CASE Mark(r)  BY <1>8 DEF Mark, Goto, Inv, InPlace, WellAsked, TypeOK
<1>9. CASE Reply(r)  BY <1>9 DEF Reply, Goto, Inv, InPlace, WellAsked, TypeOK
<1>10. CASE Fail(r)  BY <1>10 DEF Fail, Goto, Hit, Statements, Inv, InPlace, WellAsked, TypeOK
<1>11. CASE CommitLost(r)  BY <1>11 DEF CommitLost, Goto, Hit, AddUser, AddAgent, FoundUsers, FoundAgents, Inv, InPlace, WellAsked, TypeOK
<1>12. CASE ReplyLost(r)  BY <1>12 DEF ReplyLost, Goto, Hit, Inv, InPlace, WellAsked, TypeOK
<1>13. CASE Expire(r)  BY <1>13 DEF Expire, Inv, InPlace, WellAsked, TypeOK
<1> QED  BY <1>1, <1>2, <1>3, <1>4, <1>5, <1>6, <1>7, <1>8, <1>9, <1>10, <1>11, <1>12, <1>13 DEF Statement, Fault

LEMMA InvNext == Inv /\ [Next]_vars => Inv'
<1> SUFFICES ASSUME Inv, [Next]_vars PROVE Inv'  OBVIOUS
<1>1. CASE UNCHANGED vars
  BY <1>1 DEF vars, Inv, TypeOK, InPlace, WellAsked, UniqueRows, AnswersNameRows, AnsweredSpent,
              SpentByAnswerOrFault, Signs, Enrols, Answered
<1>2. CASE Next
  <2>1. PICK r \in Requests : Arrival(r) \/ Statement(r) \/ Fault(r) \/ Expire(r)
    BY <1>2 DEF Next
  <2> QED
    BY <2>1, TypeStep, PlaceStep, AskedStep, RowsStep, NamesStep, SpentStep, FaultStep DEF Inv
<1> QED  BY <1>1, <1>2

LEMMA Invariant == Spec => []Inv
BY InvInit, InvNext, PTL DEF Spec

-----------------------------------------------------------------------------
(* Every reachable state is well typed. *)
THEOREM AccountsTypeCorrect == Spec => []TypeOK
<1>1. Inv => TypeOK  BY DEF Inv
<1> QED  BY <1>1, Invariant, PTL

(* All answered registrations and exchanges for a machine of a user name   *)
(* one agent (RegisterOrGet), whatever overlaps, fails or is repeated.     *)
THEOREM OneAgent == Spec => []OneAgentPerMachine
<1>1. Inv => OneAgentPerMachine
  BY DEF Inv, OneAgentPerMachine, AnswersNameRows, UniqueRows
<1> QED  BY <1>1, Invariant, PTL

(* All answered sign-ups and sign-ins with an email name one user. *)
THEOREM OneIdentity == Spec => []OneIdentityPerEmail
<1>1. Inv => OneIdentityPerEmail
  BY DEF Inv, OneIdentityPerEmail, AnswersNameRows, UniqueRows
<1> QED  BY <1>1, Invariant, PTL

(* A token is spent only by an exchange that was answered or hit by a      *)
(* fault: one that is refused leaves it for another try.                   *)
THEOREM SpentWithReason == Spec => []SpentByAnswerOrFault
<1>1. Inv => SpentByAnswerOrFault  BY DEF Inv
<1> QED  BY <1>1, Invariant, PTL

(* After an exchange was answered, no other one of its token gets past the *)
(* test in ExchangeBootstrapToken.                                         *)
THEOREM ClosedOnceAnswered == Spec => ClosedAfterAnswer
<1> DEFINE A == \A r \in Requests :
       (ask[r].kind = "exchange" /\ pc[r] = "getToken" /\ pc'[r] = "getAgent")
       => \A q \in Requests :
            (ask[q].kind = "exchange" /\ ask[q].token = ask[r].token) => ~Answered(q)
<1>1. Inv /\ [Next]_vars => [A]_vars
  <2> SUFFICES ASSUME Inv, [Next]_vars,
                      NEW r \in Requests,
                      ask[r].kind = "exchange", pc[r] = "getToken", pc'[r] = "getAgent",
                      NEW q \in Requests, ask[q].kind = "exchange", ask[q].token = ask[r].token
               PROVE  ~Answered(q)
    OBVIOUS
  <2>1. PICK p \in Requests : Arrival(p) \/ Statement(p) \/ Fault(p) \/ Expire(p)
    BY DEF Next, vars
  <2>2. CASE Arrival(p)
    <3>1. PICK what, step : Asked(what, step) /\ step \in First /\ Arrive(p, what, step)
      BY <2>2, Arrivals DEF Inv
    <3> QED  BY <3>1 DEF Arrive, Goto, Inv, TypeOK
  <2>3. CASE GetToken(p)
    <3>1. p = r  BY <2>3 DEF GetToken, Goto, Inv, TypeOK
    <3>2. tokens[ask[r].token] # "used"
      BY <2>3, <3>1 DEF GetToken, TokenOpen, Goto, Inv, TypeOK
    <3> QED  BY <3>2 DEF Inv, AnsweredSpent
  <2>4. CASE Statement(p) /\ ~GetToken(p)
    BY <2>4 DEF Statement, GetUser, InsertUser, InsertToken, GetAgent, InsertAgent, Mark, Reply,
                Goto, AfterAgent, Inv, TypeOK
  <2>5. CASE Fault(p) \/ Expire(p)
    BY <2>5 DEF Fault, Fail, CommitLost, ReplyLost, Expire, Goto, Inv, TypeOK
  <2> QED  BY <2>1, <2>2, <2>3, <2>4, <2>5
<1>2. Spec => [][A]_vars  BY <1>1, Invariant, PTL DEF Spec
<1> QED  BY <1>2 DEF ClosedAfterAnswer
=============================================================================
