----------------------------- MODULE TypedLines -----------------------------
(***************************************************************************)
(* What a program that reads from a terminal is promised: its read returns *)
(* the characters typed on that terminal since the read began, without     *)
(* those that were erased again, in order, when Enter is pressed, and not  *)
(* before.  Every terminal has a line of its own.  A key without a         *)
(* character (Alt, an arrow) leaves a zero byte, and the line that is      *)
(* returned ends there.                                                    *)
(***************************************************************************)
EXTENDS Naturals, Sequences

CONSTANTS Screen,       \* the terminals
          Sign,         \* what a key can put on a line
          Nul           \* what a key without a character puts there

VARIABLES waiting,      \* is a program waiting for this terminal's line?
          entered,      \* was Enter pressed?
          line,         \* the line so far
          got           \* the line that was returned, until the next read

lineVars == <<waiting, entered, line, got>>

LineInit == /\ waiting = [t \in Screen |-> FALSE]
            /\ entered = [t \in Screen |-> FALSE]
            /\ line = [t \in Screen |-> <<>>]
            /\ got = [t \in Screen |-> <<>>]

(* A string ends at its first zero byte.                                   *)
UpToNul(s) ==
  LET n == CHOOSE k \in 0..Len(s) : /\ \A i \in 1..k : s[i] # Nul
                                    /\ (k = Len(s) \/ s[k + 1] = Nul)
  IN  SubSeq(s, 1, n)

Ask(t) == /\ ~waiting[t]
          /\ waiting' = [waiting EXCEPT ![t] = TRUE]
          /\ got' = [got EXCEPT ![t] = <<>>]
          /\ UNCHANGED <<entered, line>>

TypeKey(t, c) == /\ waiting[t]
                 /\ ~entered[t]
                 /\ line' = [line EXCEPT ![t] = Append(@, c)]
                 /\ UNCHANGED <<waiting, entered, got>>

Erase(t) == /\ waiting[t]
            /\ ~entered[t]
            /\ line[t] # <<>>
            /\ line' = [line EXCEPT ![t] = SubSeq(@, 1, Len(@) - 1)]
            /\ UNCHANGED <<waiting, entered, got>>

PressEnter(t) == /\ waiting[t]
                 /\ ~entered[t]
                 /\ entered' = [entered EXCEPT ![t] = TRUE]
                 /\ UNCHANGED <<waiting, line, got>>

Deliver(t) == /\ entered[t]
              /\ waiting' = [waiting EXCEPT ![t] = FALSE]
              /\ entered' = [entered EXCEPT ![t] = FALSE]
              /\ line' = [line EXCEPT ![t] = <<>>]
              /\ got' = [got EXCEPT ![t] = UpToNul(line[t])]

LineNext == \E t \in Screen : \/ Ask(t)
                              \/ \E c \in Sign : TypeKey(t, c)
                              \/ Erase(t)
                              \/ PressEnter(t)
                              \/ Deliver(t)

LineSpec == LineInit /\ [][LineNext]_lineVars
=============================================================================
