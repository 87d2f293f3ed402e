---- MODULE MCLibrary ----
(* Ten bytes: all different, or strings of four; lines of up to four. *)
EXTENDS Library
MCMemories ==
  {[a \in Addr |-> a + 1], [a \in Addr |-> NUL]}
  \cup {[a \in Addr |-> IF a \in 1 .. 2 THEN f[a] ELSE IF a \in 5 .. 6 THEN f[a - 2] ELSE
            IF a \in {0, 4} THEN 65 ELSE NUL] : f \in [1 .. 4 -> {NUL, 65, 200}]}
MCValues == {0, 7, 10, 255, 4096, 99999, 2147483647}
Numbers == {0, 9, 10, 48879, 2147483647}
Directives ==
  {[spec |-> <<Percent>> \o s, arg |-> v] :
      s \in {<<120>>, <<Hash, 120>>, <<117>>, <<100>>}, v \in Numbers}
  \cup {[spec |-> <<Percent, 100>>, arg |-> v] : v \in {-1, -2147483647}}
  \cup {[spec |-> <<Percent, 115>>, arg |-> v] : v \in {<<>>, <<65, 66>>}}
  \cup {[spec |-> <<Percent, 99>>, arg |-> 67], [spec |-> <<Percent, Percent>>, arg |-> 0]}
MCTexts ==
  {[before |-> b, spec |-> d.spec, arg |-> d.arg, after |-> e] :
      b \in {<<>>, <<65>>}, e \in {<<>>, <<66>>, <<NL>>, <<NL, 66>>}, d \in Directives}
MCLines == UNION {[1 .. k -> {65, SP, NL}] : k \in 0 .. 4}
====
