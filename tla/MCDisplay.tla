---- MODULE MCDisplay ----
(* Display on a small screen with a short clock. *)
EXTENDS Display
MCEdge == [t \in Terminals |-> t]
MCRules == {"hands", "slow", "neighbour"}
====
