------------------------------- MODULE MCPayload -------------------------------
(* Constants of Payload for TLC: templates without and with ports, limits  *)
(* at the edges of words of 8 bits, in which a G is 16 and an M 4, and a   *)
(* value with a comma.                                                     *)
EXTENDS Payload

CONSTANTS k1, k2, v1, v2, v3

Limit(n, u) == [num |-> n, unit |-> u]

MCCut == [e \in Keys \X Values |-> IF e[2] = v3 THEN <<<<e[1], v1>>, Junk>> ELSE <<e>>]

MCTemplates ==
  {[ports |-> <<>>,     env |-> [k \in Keys |-> None],                        memory |-> None],
   [ports |-> <<1, 2>>, env |-> [k \in Keys |-> IF k = k1 THEN v1 ELSE None], memory |-> Limit(2, 16)]}

MCLimits == {None, Limit(2, 16), Limit(7, 16), Limit(8, 16), Limit(31, 4), Limit(-128, 1),
             Limit(128, 1), Limit(Junk, 1)}
=============================================================================
