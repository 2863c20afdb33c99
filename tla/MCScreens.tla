------------------------------- MODULE MCScreens -------------------------------
(* One CLI deploys, another lists and manages what it has deployed.        *)
EXTENDS Screens

CONSTANTS c1, c2

MCMenu == [c \in Clis |-> IF c = c1 THEN {"deploy"} ELSE {"list"}]
=============================================================================
