---------------------------- MODULE TerminalLines ----------------------------
(***************************************************************************)
(* The terminal as TypedLines: the line of a waiting read is what stands   *)
(* on the screen between the column where the read began and the cursor,   *)
(* or, once Enter has moved the cursor, on the row above it.               *)
(***************************************************************************)
EXTENDS Terminal

HasEntered(t) == Reading(t) /\ t = screen_num /\ enter_press = 1

LineRow(t) == IF HasEntered(t) THEN CursorOf(t).buf_y - 1 ELSE CursorOf(t).buf_y
LineEnd(t) == IF HasEntered(t) THEN cmd_end[t] ELSE CursorOf(t).buf_x

LineOf(t) ==
  IF Reading(t)
  THEN [k \in 1 .. LineEnd(t) - cmd_start[t] |->
          screens[t].mo[LineRow(t)][cmd_start[t] + k - 1]]
  ELSE <<>>

Lines == INSTANCE TypedLines
           WITH Screen  <- Term,
                Sign    <- Chars \cup {Nul},
                waiting <- [t \in Term |-> Reading(t)],
                entered <- [t \in Term |-> HasEntered(t)],
                line    <- [t \in Term |-> LineOf(t)]

(* Under the whole discipline a read returns exactly the line that was     *)
(* typed on its terminal while it waited, whatever other terminals,        *)
(* output, scrolling, erasing and switching do in between.                 *)
LinesSpec == Lines!LineSpec
=============================================================================
