------------------------------ MODULE MCAccounts ------------------------------
(* Constants of Accounts for TLC: somebody signs up, then five requests of *)
(* which the later ones enrol machines.                                    *)
EXTENDS Accounts, TLC

MCKinds == [r \in Requests |->
              CASE r = 1 -> {"signup"}
                [] r = 2 -> {"signup", "bootstrap"}
                [] r = 3 -> {"signin", "exchange", "bootstrap"}
                [] OTHER -> {"register", "exchange"}]

Symmetry == Permutations(Emails) \union Permutations(Machines)
=============================================================================
