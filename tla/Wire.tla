--------------------------------- MODULE Wire ---------------------------------
(***************************************************************************)
(* What the WebSocket between an agent and agent-service promises, with no *)
(* proxy, pipe or lock in sight: in each direction the messages arrive in  *)
(* the order in which they were sent, each once, none skipped; while the   *)
(* wire is open every one of them does arrive; once it is closing a tail   *)
(* of them may not.                                                        *)
(***************************************************************************)
EXTENDS Naturals, Sequences

CONSTANT Directions

VARIABLES sent,   \* how many messages were sent in each direction
          got,    \* the numbers of those that arrived, in their order
          open    \* nobody has begun to close the wire

vars == <<sent, got, open>>

Init ==
  /\ sent = [d \in Directions |-> 0]
  /\ got = [d \in Directions |-> <<>>]
  /\ open = TRUE

Send(d) ==
  /\ sent' = [sent EXCEPT ![d] = @ + 1]
  /\ UNCHANGED <<got, open>>

Deliver(d) ==
  /\ Len(got[d]) < sent[d]
  /\ got' = [got EXCEPT ![d] = Append(@, Len(@) + 1)]
  /\ UNCHANGED <<sent, open>>

Close ==
  /\ open
  /\ open' = FALSE
  /\ UNCHANGED <<sent, got>>

Next == Close \/ \E d \in Directions : Send(d) \/ Deliver(d)

Fairness == \A d \in Directions : WF_vars(open /\ Deliver(d))

Spec == Init /\ [][Next]_vars /\ Fairness
=============================================================================
