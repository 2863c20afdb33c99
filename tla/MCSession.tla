-------------------------------- MODULE MCSession ------------------------------
(* Bounds for the command line: CLIs, users and process ids are alike.     *)
EXTENDS Session, TLC

Alike == Permutations(Clis) \union Permutations(Users) \union Permutations(Pids)

(* Once both histories are spoiled the properties promise nothing.  With   *)
(* processes about, one agent is registered at most and no list is shown:  *)
(* what the agent screens do with more is explored without processes.      *)
Bounded ==
  /\ ~(slipped /\ crossed)
  /\ \/ \A p \in Pids : proc[p].kind = "free"
     \/ /\ Cardinality(Registered) <= 1 /\ ~crossed
        /\ \A c \in Clis : form[c].list = {} /\ Len(form[c].regs) <= 1
        /\ cfg # None => cfg.valid
=============================================================================
