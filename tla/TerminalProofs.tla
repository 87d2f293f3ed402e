--------------------------- MODULE TerminalProofs ---------------------------
(***************************************************************************)
(* Proofs about Terminal, for every number of terminals, size of screen,   *)
(* set of characters and of texts:                                         *)
(*  - TypeCorrect, CountersCorrect, AheadCorrect: what is on the screen;   *)
(*  - LinesImplemented: what a read returns, the terminals as TypedLines.  *)
(***************************************************************************)
EXTENDS TerminalLines, SequenceTheorems, WellFoundedInduction, TLAPS

Mo == [Rows -> [Columns -> Cell]]
Printed == [Rows -> [Columns -> 0 .. 1]]
Panes == [mo : Mo, printed : Printed, buf_x : Columns, buf_y : -1 .. ROWS - 1,
          limit : Int, line_count : Int]

(* A pane whose rows below the cursor are blank, and one that is blank from *)
(* the cursor on.                                                          *)
BlankBelow(p) == \A y \in p.buf_y + 1 .. ROWS - 1, x \in Columns : p.mo[y][x] = Blank
BlankAhead(p) == \A y \in p.buf_y .. ROWS - 1, x \in Columns :
                   y > p.buf_y \/ x >= p.buf_x => p.mo[y][x] = Blank

-----------------------------------------------------------------------------
(* The screen's operations, one lemma each: what they return is a pane, and *)
(* where they leave the cursor and the counters.                           *)

LEMMA Sizes == /\ COLS \in Nat /\ COLS > 1 /\ ROWS \in Nat /\ ROWS > 1
               /\ NTERM \in Nat \ {0} /\ MAXLINE \in Nat /\ MAXLINE >= COLS
  BY TermAssumption, PaneAssumption

LEMMA CellFacts == Blank \in Cell /\ NL \in Cell /\ Nul \in Cell /\ Chars \subseteq Cell
  BY DEF Cell

Counters(p, l, n) == [p EXCEPT !.limit = l, !.line_count = n]

LEMMA CountersPane ==
  ASSUME NEW p \in Panes, NEW l \in Int, NEW n \in Int
  PROVE  LET q == Counters(p, l, n) IN
         /\ q \in Panes
         /\ q.mo = p.mo /\ q.printed = p.printed
         /\ q.buf_x = p.buf_x /\ q.buf_y = p.buf_y
         /\ q.limit = l /\ q.line_count = n
         /\ BlankAhead(p) => BlankAhead(q)
  BY DEF Panes, BlankAhead, Counters

(* One character changes one cell and nothing else.                        *)
LEMMA WithPane ==
  ASSUME NEW p \in Panes, NEW y \in 0 .. ROWS - 1, NEW x \in 0 .. COLS, NEW c \in Cell
  PROVE  /\ With(p, y, x, c) \in Panes
         /\ With(p, y, x, c) = [p EXCEPT !.mo = With(p, y, x, c).mo]
  <1> USE DEF Panes, Mo, Printed, With
  <1>1. CASE x = COLS
    <2>1. y + 1 \in Rows /\ 0 \in Columns
      BY Sizes DEF Rows, Columns
    <2>2. [p.mo EXCEPT ![y + 1][0] = c] \in Mo
      BY <2>1
    <2> QED BY <1>1, <2>2
  <1>2. CASE x # COLS
    <2>1. y \in Rows /\ x \in Columns
      BY <1>2, Sizes DEF Rows, Columns
    <2>2. [p.mo EXCEPT ![y][x] = c] \in Mo
      BY <2>1
    <2> QED BY <1>2, <2>2
  <1> QED BY <1>1, <1>2

LEMMA SetbPane ==
  ASSUME NEW p \in Panes, OnScreen(p), NEW c \in Cell
  PROVE  /\ setb(p, c) \in Panes
         /\ setb(p, c).buf_x = (IF p.buf_x = COLS - 1 THEN 0 ELSE p.buf_x + 1)
         /\ setb(p, c).buf_y = p.buf_y
         /\ setb(p, c).limit = p.limit
         /\ setb(p, c).line_count = p.line_count
  <1> DEFINE w == With(p, p.buf_y, p.buf_x, c)
  <1>1. p.buf_x \in Columns /\ p.buf_y \in 0 .. ROWS - 1 /\ p.buf_x \in 0 .. COLS
        /\ p.buf_y \in Rows
    BY Sizes DEF OnScreen, Columns, Rows
  <1>2. w \in Panes /\ w = [p EXCEPT !.mo = w.mo]
    BY <1>1, WithPane
  <1>3. /\ w.buf_x = p.buf_x /\ w.buf_y = p.buf_y
        /\ w.limit = p.limit /\ w.line_count = p.line_count
    BY <1>2 DEF Panes
  <1> HIDE DEF w
  <1>4. [w.printed EXCEPT ![p.buf_y][p.buf_x] = 0] \in Printed
    BY <1>1, <1>2 DEF Panes, Printed
  <1>5. (IF w.buf_x = COLS - 1 THEN 0 ELSE w.buf_x + 1) \in Columns
    BY <1>1, <1>3, Sizes DEF Columns
  <1>6. setb(p, c) = [w EXCEPT !.printed = [w.printed EXCEPT ![p.buf_y][p.buf_x] = 0],
                               !.buf_x = IF w.buf_x = COLS - 1 THEN 0 ELSE w.buf_x + 1]
    BY <1>2 DEF setb, w, Panes
  <1> QED BY <1>2, <1>3, <1>4, <1>5, <1>6 DEF Panes

(* A character written to the row of the cursor leaves the rows below.     *)
LEMMA WithBlank ==
  ASSUME NEW p \in Panes, OnScreen(p), NEW x \in Columns, NEW c \in Cell
  PROVE  LET q == With(p, p.buf_y, x, c) IN
         /\ BlankBelow(p) => BlankBelow(q)
         /\ \A y \in Rows, z \in Columns :
              q.mo[y][z] = IF y = p.buf_y /\ z = x THEN c ELSE p.mo[y][z]
  <1>1. x # COLS /\ p.buf_y \in Rows
    BY Sizes DEF Columns, Rows, OnScreen
  <1>2. With(p, p.buf_y, x, c) = [p EXCEPT !.mo[p.buf_y][x] = c]
    BY <1>1 DEF With
  <1>3. \A y \in Rows, z \in Columns :
          With(p, p.buf_y, x, c).mo[y][z] = IF y = p.buf_y /\ z = x THEN c ELSE p.mo[y][z]
    BY <1>1, <1>2 DEF Panes, Mo
  <1>4. With(p, p.buf_y, x, c).buf_y = p.buf_y
    BY <1>2 DEF Panes
  <1>5. \A y \in p.buf_y + 1 .. ROWS - 1 : y \in Rows /\ y # p.buf_y
    BY <1>1, Sizes DEF Rows
  <1>6. BlankBelow(p) => BlankBelow(With(p, p.buf_y, x, c))
    BY <1>3, <1>4, <1>5 DEF BlankBelow
  <1> QED BY <1>3, <1>6

LEMMA SetbBlank ==
  ASSUME NEW p \in Panes, OnScreen(p), NEW c \in Cell, p.buf_x < COLS - 1, BlankAhead(p)
  PROVE  BlankAhead(setb(p, c))
  <1> DEFINE q == setb(p, c)
  <1>1. p.buf_x \in Columns /\ p.buf_y \in 0 .. ROWS - 1
    BY DEF OnScreen
  <1>2. q.buf_y = p.buf_y /\ q.buf_x = p.buf_x + 1
    BY <1>1, SetbPane, Sizes DEF Columns
  <1>3. q.mo = With(p, p.buf_y, p.buf_x, c).mo
    <2>1. With(p, p.buf_y, p.buf_x, c) \in Panes
      BY <1>1, WithPane, Sizes DEF Columns
    <2> QED BY <2>1 DEF setb, Panes
  <1>4. \A y \in Rows, z \in Columns :
          q.mo[y][z] = IF y = p.buf_y /\ z = p.buf_x THEN c ELSE p.mo[y][z]
    BY <1>1, <1>3, WithBlank
  <1> HIDE DEF q
  <1>5. \A y \in q.buf_y .. ROWS - 1 : y \in Rows
    BY <1>1, <1>2, Sizes DEF Rows
  <1>6. BlankAhead(q)
    BY <1>1, <1>2, <1>4, <1>5, Sizes DEF BlankAhead, Columns
  <1> QED BY <1>6 DEF q

LEMMA ScrollPane ==
  ASSUME NEW p \in Panes
  PROVE  LET q == scroll_buf(p) IN
         /\ q \in Panes
         /\ q.buf_x = 0 /\ q.buf_y = ROWS - 1
         /\ q.limit = p.limit /\ q.line_count = p.line_count
         /\ BlankAhead(q)
  <1> DEFINE m == [y \in Rows |-> [x \in Columns |->
                      CASE y = ROWS     -> p.mo[y][x]
                        [] y = ROWS - 1 -> Blank
                        [] OTHER        -> IF p.mo[y + 1][x] = NL
                                           THEN Blank ELSE p.mo[y + 1][x]]]
  <1>1. scroll_buf(p) = [p EXCEPT !.mo = m, !.buf_x = 0, !.buf_y = ROWS - 1]
    BY Zenon DEF scroll_buf
  <1>2. m \in Mo
    <2>1. ASSUME NEW y \in Rows, NEW x \in Columns
          PROVE  m[y][x] \in Cell
      <3>1. y # ROWS => y + 1 \in Rows
        BY Sizes DEF Rows
      <3> QED BY <3>1, CellFacts, Sizes DEF Panes, Mo
    <2> QED BY <2>1 DEF Mo
  <1>3. \A x \in Columns : m[ROWS - 1][x] = Blank
    BY Sizes DEF Rows
  <1> HIDE DEF m
  <1>4. 0 \in Columns /\ ROWS - 1 \in -1 .. ROWS - 1
    BY Sizes DEF Columns
  <1>5. scroll_buf(p) \in Panes
    BY <1>1, <1>2, <1>4 DEF Panes
  <1>6. /\ scroll_buf(p).buf_x = 0 /\ scroll_buf(p).buf_y = ROWS - 1
        /\ scroll_buf(p).mo = m
        /\ scroll_buf(p).limit = p.limit /\ scroll_buf(p).line_count = p.line_count
    BY <1>1 DEF Panes
  <1>7. \A y \in ROWS - 1 .. ROWS - 1 : y = ROWS - 1
    BY Sizes
  <1>8. BlankAhead(scroll_buf(p))
    BY <1>3, <1>6, <1>7 DEF BlankAhead
  <1> QED BY <1>5, <1>6, <1>8

(* The cursor goes to the start of a row, on the screen.                   *)
LEMMA DownPane ==
  ASSUME NEW p \in Panes, p.buf_y \in 0 .. ROWS - 1
  PROVE  LET q == Down(p) IN
         /\ q \in Panes
         /\ q.buf_x = 0 /\ q.buf_y \in 0 .. ROWS - 1
         /\ q.limit = p.limit /\ q.line_count = p.line_count
         /\ BlankBelow(p) => BlankAhead(q)
         /\ (q.mo = p.mo /\ q.buf_y = p.buf_y + 1) \/ BlankAhead(q)
  <1>1. CASE p.buf_y = ROWS - 1
    <2>1. Down(p) = scroll_buf(p)
      BY <1>1 DEF Down
    <2>2. ROWS - 1 \in 0 .. ROWS - 1
      BY Sizes
    <2> QED BY <2>1, <2>2, ScrollPane
  <1>2. CASE p.buf_y # ROWS - 1
    <2>1. Down(p) = [p EXCEPT !.buf_x = 0, !.buf_y = p.buf_y + 1]
      BY <1>2 DEF Down, Panes
    <2>2. /\ p.buf_y + 1 \in 0 .. ROWS - 1 /\ 0 \in Columns
          /\ p.buf_y + 1 \in -1 .. ROWS - 1
      BY <1>2, Sizes DEF Columns
    <2>3. Down(p).mo = p.mo /\ Down(p).buf_y = p.buf_y + 1 /\ Down(p).buf_x = 0
      BY <2>1 DEF Panes
    <2>4. BlankBelow(p) => BlankAhead(Down(p))
      BY <2>3 DEF BlankBelow, BlankAhead
    <2>5. Down(p) \in Panes /\ Down(p).limit = p.limit /\ Down(p).line_count = p.line_count
      BY <2>1, <2>2, Sizes DEF Panes
    <2> QED BY <2>2, <2>3, <2>4, <2>5
  <1> QED BY <1>1, <1>2

(* The row that a line end leads to is clean, wherever the '\n' went.      *)
LEMMA NewLinePane ==
  ASSUME NEW p \in Panes, OnScreen(p)
  PROVE  LET q == NewLine(p) IN
         /\ q \in Panes
         /\ q.buf_x = 0 /\ q.buf_y \in 0 .. ROWS - 1
         /\ q.limit = p.limit /\ q.line_count = p.line_count
         /\ BlankAhead(p) => BlankAhead(q)
  <1> DEFINE w == With(p, p.buf_y, p.buf_x + 1, NL)
             d == Down(w)
             blank == [x \in Columns |-> Blank]
  <1>1. p.buf_y \in 0 .. ROWS - 1 /\ p.buf_x + 1 \in 0 .. COLS
    BY Sizes DEF OnScreen, Columns
  <1>2. w \in Panes /\ w = [p EXCEPT !.mo = w.mo]
    BY <1>1, WithPane, CellFacts
  <1>3. w.buf_y = p.buf_y /\ w.limit = p.limit /\ w.line_count = p.line_count
    BY <1>2 DEF Panes
  <1>4. \A y \in Rows : y # p.buf_y /\ y # p.buf_y + 1 => w.mo[y] = p.mo[y]
    BY <1>1 DEF w, With, Panes, Mo
  <1> HIDE DEF w
  <1>5. /\ d \in Panes /\ d.buf_x = 0 /\ d.buf_y \in 0 .. ROWS - 1
        /\ d.limit = p.limit /\ d.line_count = p.line_count
        /\ (d.mo = w.mo /\ d.buf_y = p.buf_y + 1) \/ BlankAhead(d)
    BY <1>1, <1>2, <1>3, DownPane
  <1>6. NewLine(p) = [d EXCEPT !.mo = [d.mo EXCEPT ![d.buf_y] = blank]]
    BY <1>5 DEF NewLine, new_line, clear_buf_line, w, Panes
  <1> HIDE DEF d
  <1> DEFINE q == NewLine(p)
  <1>7. d.buf_y \in Rows /\ blank \in [Columns -> Cell]
    BY <1>5, CellFacts, Sizes DEF Rows
  <1>8. [d.mo EXCEPT ![d.buf_y] = blank] \in Mo
    BY <1>5, <1>7 DEF Panes, Mo
  <1>9. /\ q \in Panes /\ q.buf_x = 0 /\ q.buf_y = d.buf_y
        /\ q.limit = p.limit /\ q.line_count = p.line_count
        /\ q.mo = [d.mo EXCEPT ![d.buf_y] = blank]
    BY <1>5, <1>6, <1>8 DEF Panes
  <1> HIDE DEF q
  <1>10. \A y \in Rows, x \in Columns :
           q.mo[y][x] = IF y = d.buf_y THEN Blank ELSE d.mo[y][x]
    BY <1>5, <1>7, <1>9 DEF Panes, Mo
  <1>11. ASSUME BlankAhead(p) PROVE BlankAhead(q)
    <2>1. ASSUME NEW y \in d.buf_y .. ROWS - 1, NEW x \in Columns
          PROVE  q.mo[y][x] = Blank
      <3>1. y \in Rows
        BY <1>5, Sizes DEF Rows
      <3>2. CASE y = d.buf_y
        BY <1>10, <3>1, <3>2
      <3>3. CASE y # d.buf_y /\ BlankAhead(d)
        BY <1>5, <1>10, <3>1, <3>3, Sizes DEF BlankAhead
      <3>4. CASE y # d.buf_y /\ d.mo = w.mo /\ d.buf_y = p.buf_y + 1
        <4>1. y # p.buf_y /\ y # p.buf_y + 1 /\ y \in p.buf_y .. ROWS - 1 /\ y > p.buf_y
          BY <1>1, <3>4, Sizes
        <4>2. p.mo[y][x] = Blank
          BY <1>11, <4>1 DEF BlankAhead
        <4> QED BY <1>4, <1>10, <3>1, <3>4, <4>1, <4>2
      <3> QED BY <1>5, <3>2, <3>3, <3>4
    <2> QED BY <1>9, <2>1 DEF BlankAhead
  <1>12. BlankAhead(p) => BlankAhead(q)
    BY <1>11
  <1> QED BY <1>5, <1>9, <1>12 DEF q

LEMMA BackspacePane ==
  ASSUME NEW p \in Panes, OnScreen(p)
  PROVE  LET q == backspace(p) IN
         /\ q \in Panes
         /\ q.limit = p.limit /\ q.line_count = p.line_count
         /\ p.line_count > 0 /\ PrintedBefore(p) = 0 /\ p.buf_x > 0 =>
              /\ q.buf_x = p.buf_x - 1 /\ q.buf_y = p.buf_y
              /\ BlankAhead(p) => BlankAhead(q)
  <1>0. p.buf_x \in Columns /\ p.buf_y \in 0 .. ROWS - 1
    BY DEF OnScreen
  <1>1. CASE ~(p.line_count > 0 /\ PrintedBefore(p) = 0)
    BY <1>1 DEF backspace
  <1>2. CASE p.line_count > 0 /\ PrintedBefore(p) = 0 /\ p.buf_x > 0
    <2> DEFINE m == [p.mo EXCEPT ![p.buf_y][p.buf_x - 1] = Blank]
               q == backspace(p)
    <2>1. q = [p EXCEPT !.mo = m, !.buf_x = p.buf_x - 1]
      BY <1>2 DEF backspace, Panes
    <2>2. p.buf_x - 1 \in Columns /\ p.buf_y \in Rows
      BY <1>0, <1>2, Sizes DEF Columns, Rows
    <2>3. m \in Mo
      BY <2>2, CellFacts DEF Panes, Mo
    <2>4. \A y \in Rows, x \in Columns :
            m[y][x] = IF y = p.buf_y /\ x = p.buf_x - 1 THEN Blank ELSE p.mo[y][x]
      BY <2>2 DEF Panes, Mo
    <2> HIDE DEF m
    <2>5. /\ q \in Panes /\ q.mo = m /\ q.buf_x = p.buf_x - 1 /\ q.buf_y = p.buf_y
          /\ q.limit = p.limit /\ q.line_count = p.line_count
      BY <2>1, <2>2, <2>3 DEF Panes
    <2> HIDE DEF q
    <2>6. \A y \in p.buf_y .. ROWS - 1 : y \in Rows
      BY <1>0, Sizes DEF Rows
    <2>7. BlankAhead(p) => BlankAhead(q)
      BY <1>0, <2>4, <2>5, <2>6, Sizes DEF BlankAhead, Columns
    <2> QED BY <2>5, <2>7 DEF q
  <1>3. CASE p.line_count > 0 /\ PrintedBefore(p) = 0 /\ ~(p.buf_x > 0)
    <2> DEFINE m == IF p.buf_y > 0 THEN [p.mo EXCEPT ![p.buf_y - 1][COLS - 1] = Blank]
                    ELSE p.mo
    <2>1. backspace(p) = [p EXCEPT !.mo = m, !.buf_x = COLS - 1, !.buf_y = p.buf_y - 1]
      BY <1>3 DEF backspace, Panes
    <2>2. COLS - 1 \in Columns /\ p.buf_y - 1 \in -1 .. ROWS - 1
          /\ (p.buf_y > 0 => p.buf_y - 1 \in Rows)
      BY <1>0, Sizes DEF Columns, Rows
    <2>3. m \in Mo
      BY <2>2, CellFacts DEF Panes, Mo
    <2> HIDE DEF m
    <2> QED BY <1>3, <2>1, <2>2, <2>3 DEF Panes
  <1> QED BY <1>1, <1>2, <1>3

LEMMA PutCoutPane ==
  ASSUME NEW p \in Panes, OnScreen(p), NEW c \in Cell
  PROVE  LET q == put_cout(p, c) IN
         /\ q \in Panes
         /\ c = NL => /\ q.buf_x = 0 /\ q.buf_y \in 0 .. ROWS - 1
                      /\ q.limit = 0 /\ q.line_count = 0
                      /\ BlankAhead(p) => BlankAhead(q)
         /\ c # NL => /\ q.buf_y = p.buf_y /\ q.limit = p.limit + 1
                      /\ q.line_count = p.line_count + 1
                      /\ p.buf_x < COLS - 1 =>
                           /\ q.buf_x = p.buf_x + 1
                           /\ BlankAhead(p) => BlankAhead(q)
  <1> DEFINE w == With(p, p.buf_y, p.buf_x, c)
             q == put_cout(p, c)
  <1>1. /\ p.buf_x \in Columns /\ p.buf_y \in 0 .. ROWS - 1 /\ p.buf_x \in 0 .. COLS
        /\ p.buf_y \in Rows
    BY Sizes DEF OnScreen, Columns, Rows
  <1>2. w \in Panes /\ w = [p EXCEPT !.mo = w.mo]
    BY <1>1, WithPane
  <1>3. /\ w.buf_x = p.buf_x /\ w.buf_y = p.buf_y
        /\ w.limit = p.limit /\ w.line_count = p.line_count
    BY <1>2 DEF Panes
  <1>4. /\ BlankBelow(p) => BlankBelow(w)
        /\ \A y \in Rows, z \in Columns :
              w.mo[y][z] = IF y = p.buf_y /\ z = p.buf_x THEN c ELSE p.mo[y][z]
    BY <1>1, WithBlank
  <1>5. BlankAhead(p) => BlankBelow(p)
    BY <1>1, Sizes DEF BlankAhead, BlankBelow
  <1>6. CASE c = NL
    <2> DEFINE d == Down(w)
    <2>1. q = [d EXCEPT !.limit = 0, !.line_count = 0]
      BY <1>6 DEF put_cout
    <2>2. /\ d \in Panes /\ d.buf_x = 0 /\ d.buf_y \in 0 .. ROWS - 1
          /\ BlankBelow(w) => BlankAhead(d)
      BY <1>1, <1>2, <1>3, DownPane
    <2> HIDE DEF w, d, q
    <2>3. /\ q \in Panes /\ q.buf_x = d.buf_x /\ q.buf_y = d.buf_y
          /\ q.limit = 0 /\ q.line_count = 0
          /\ BlankAhead(d) => BlankAhead(q)
      <3>1. 0 \in Int
        OBVIOUS
      <3>2. q = Counters(d, 0, 0)
        BY <2>1, Zenon DEF Counters
      <3> QED BY <2>2, <3>1, <3>2, CountersPane
    <2> QED BY <1>4, <1>5, <1>6, <2>2, <2>3 DEF q
  <1>7. CASE c # NL
    <2> DEFINE f == [w.printed EXCEPT ![p.buf_y][p.buf_x] = 1]
               n == (w.buf_x + 1) % COLS
    <2>1. q = [w EXCEPT !.printed = f, !.buf_x = n,
                        !.limit = w.limit + 1, !.line_count = w.line_count + 1]
      BY <1>2, <1>7 DEF put_cout, Panes
    <2> HIDE DEF w
    <2>2. f \in Printed
      BY <1>1, <1>2 DEF Panes, Printed
    <2>3. n \in Columns /\ (p.buf_x < COLS - 1 => n = p.buf_x + 1)
      BY <1>1, <1>3, Sizes DEF Columns
    <2> HIDE DEF f, n, q
    <2> DEFINE r == [w EXCEPT !.printed = f, !.buf_x = n]
    <2>4. /\ q \in Panes /\ q.mo = w.mo /\ q.buf_y = p.buf_y /\ q.buf_x = n
          /\ q.limit = p.limit + 1 /\ q.line_count = p.line_count + 1
      <3>1. r \in Panes /\ r.mo = w.mo /\ r.buf_y = p.buf_y /\ r.buf_x = n
        BY <1>2, <1>3, <2>2, <2>3 DEF Panes
      <3>2. q = [r EXCEPT !.limit = w.limit + 1, !.line_count = w.line_count + 1]
        BY <1>2, <2>1 DEF Panes
      <3>3. w.limit + 1 \in Int /\ w.line_count + 1 \in Int
        BY <1>2 DEF Panes
      <3> HIDE DEF r
      <3>4. /\ q \in Panes /\ q.mo = r.mo /\ q.buf_y = r.buf_y /\ q.buf_x = r.buf_x
            /\ q.limit = w.limit + 1 /\ q.line_count = w.line_count + 1
        <4>1. q = Counters(r, w.limit + 1, w.line_count + 1)
          BY <3>2, Zenon DEF Counters
        <4> QED BY <3>1, <3>3, <4>1, CountersPane
      <3> QED BY <1>3, <3>1, <3>4
    <2>5. \A y \in p.buf_y .. ROWS - 1 : y \in Rows
      BY <1>1, Sizes DEF Rows
    <2>6. ASSUME p.buf_x < COLS - 1, BlankAhead(p) PROVE BlankAhead(q)
      BY <1>1, <1>4, <2>3, <2>4, <2>5, <2>6, Sizes DEF BlankAhead, Columns
    <2> QED BY <1>7, <2>3, <2>4, <2>6 DEF q
  <1> QED BY <1>6, <1>7 DEF q

-----------------------------------------------------------------------------
(* The keys: what each makes of the pane, in bounds whatever the counters   *)
(* are, and in step with the cursor if they were.                          *)
Tracks(p) == /\ OnScreen(p)
             /\ p.line_count = p.limit
             /\ p.limit \in {p.buf_x, p.buf_x + 1}
             /\ p.limit < COLS

LEMMA BumpPane ==
  ASSUME NEW p \in Panes
  PROVE  LET q == Bump(p) IN
         /\ q \in Panes /\ q.mo = p.mo /\ q.buf_x = p.buf_x /\ q.buf_y = p.buf_y
         /\ q.limit = p.limit + 1 /\ q.line_count = p.line_count + 1
         /\ BlankAhead(p) => BlankAhead(q)
  <1>1. p.limit + 1 \in Int /\ p.line_count + 1 \in Int
    BY DEF Panes
  <1>2. Bump(p) = Counters(p, p.limit + 1, p.line_count + 1)
    BY DEF Bump, Counters, Panes
  <1> QED BY <1>1, <1>2, CountersPane

LEMMA TakeBackPane ==
  ASSUME NEW p \in Panes, NEW n \in Nat
  PROVE  LET q == TakeBack(p, n) IN
         /\ q \in Panes /\ q.mo = p.mo /\ q.buf_x = p.buf_x /\ q.buf_y = p.buf_y
         /\ p.limit >= 0 /\ p.line_count >= 0 =>
              q.limit = p.limit - n /\ q.line_count = p.line_count - n
         /\ BlankAhead(p) => BlankAhead(q)
  <1> DEFINE l == IF p.line_count < 0 THEN -1
                  ELSE IF p.limit >= 0 THEN p.limit - n ELSE COLS - 2
             k == IF p.line_count >= 0 THEN p.line_count - n ELSE p.line_count
  <1>1. l \in Int /\ k \in Int
    BY Sizes DEF Panes
  <1>2. p.limit >= 0 /\ p.line_count >= 0 => l = p.limit - n /\ k = p.line_count - n
    BY DEF Panes
  <1>3. TakeBack(p, n) = Counters(p, l, k)
    BY DEF TakeBack, Counters, Panes
  <1> HIDE DEF l, k
  <1>4. LET q == TakeBack(p, n) IN
        /\ q \in Panes /\ q.mo = p.mo /\ q.buf_x = p.buf_x /\ q.buf_y = p.buf_y
        /\ q.limit = l /\ q.line_count = k
        /\ BlankAhead(p) => BlankAhead(q)
    BY <1>1, <1>3, CountersPane
  <1> QED BY <1>2, <1>4

LEMMA WrappedPane ==
  ASSUME NEW p \in Panes
  PROVE  Wrapped(p) \in Panes /\ (p.limit # COLS => Wrapped(p) = p)
  <1>1. CASE p.limit = COLS /\ OnScreen(p)
    <2> DEFINE w == NewLine(p)
    <2>1. Wrapped(p) = [w EXCEPT !.limit = 0]
      BY <1>1 DEF Wrapped
    <2>2. w \in Panes
      BY <1>1, NewLinePane
    <2> HIDE DEF w
    <2> QED BY <1>1, <2>1, <2>2 DEF Panes
  <1>2. CASE ~(p.limit = COLS /\ OnScreen(p))
    BY <1>2 DEF Wrapped
  <1> QED BY <1>1, <1>2

LEMMA TypedPane ==
  ASSUME NEW p \in Panes, OnScreen(p), NEW c \in Cell
  PROVE  LET q == Typed(p, c) IN
         /\ q \in Panes
         /\ Tracks(p) /\ p.limit < COLS - 1 =>
              /\ Tracks(q)
              /\ BlankAhead(p) => BlankAhead(q)
  <1> DEFINE s == setb(p, c)
             b == Bump(s)
  <1>1. /\ s \in Panes /\ s.buf_y = p.buf_y
        /\ s.limit = p.limit /\ s.line_count = p.line_count
        /\ p.buf_x < COLS - 1 => s.buf_x = p.buf_x + 1
        /\ p.buf_x < COLS - 1 /\ BlankAhead(p) => BlankAhead(s)
    BY SetbPane, SetbBlank, Sizes DEF OnScreen, Columns
  <1> HIDE DEF s
  <1>2. /\ b \in Panes /\ b.buf_x = s.buf_x /\ b.buf_y = s.buf_y
        /\ b.limit = s.limit + 1 /\ b.line_count = s.line_count + 1
        /\ BlankAhead(s) => BlankAhead(b)
    BY <1>1, BumpPane
  <1>3. Typed(p, c) = Wrapped(IF LineFull(p) THEN p ELSE b)
    BY DEF Typed, s
  <1> HIDE DEF b
  <1>4. Typed(p, c) \in Panes
    <2>1. (IF LineFull(p) THEN p ELSE b) \in Panes
      BY <1>2
    <2> QED BY <1>3, <2>1, WrappedPane
  <1>5. ASSUME Tracks(p), p.limit < COLS - 1
        PROVE  Typed(p, c) = b /\ Tracks(b) /\ (BlankAhead(p) => BlankAhead(b))
    <2>1. ~LineFull(p) /\ p.buf_x < COLS - 1 /\ b.limit # COLS
      BY <1>1, <1>2, <1>5, Sizes DEF LineFull, Tracks, OnScreen, Columns
    <2>2. Typed(p, c) = b
      BY <1>2, <1>3, <2>1, WrappedPane
    <2>3. Tracks(b)
      BY <1>1, <1>2, <1>5, <2>1, Sizes DEF Tracks, OnScreen, Columns
    <2> QED BY <1>1, <1>2, <2>1, <2>2, <2>3
  <1> QED BY <1>4, <1>5

LEMMA BackspacedPane ==
  ASSUME NEW p \in Panes, OnScreen(p)
  PROVE  LET q == Backspaced(p) IN
         /\ q \in Panes
         /\ Tracks(p) /\ p.line_count > 0 /\ p.buf_x > 0 /\ PrintedBefore(p) = 0 =>
              /\ Tracks(q)
              /\ BlankAhead(p) => BlankAhead(q)
  <1> DEFINE e == backspace(p)
             o == Counters(e, OneLess(e.limit), OneLess(e.line_count))
             k == TakeBack(e, 2)
             b == Bump(k)
  <1>1. /\ e \in Panes /\ e.limit = p.limit /\ e.line_count = p.line_count
        /\ p.line_count > 0 /\ PrintedBefore(p) = 0 /\ p.buf_x > 0 =>
             /\ e.buf_x = p.buf_x - 1 /\ e.buf_y = p.buf_y
             /\ BlankAhead(p) => BlankAhead(e)
    BY BackspacePane
  <1> HIDE DEF e
  <1>2. OneLess(e.limit) \in Int /\ OneLess(e.line_count) \in Int
    BY <1>1 DEF OneLess, Panes
  <1>3. o \in Panes
    BY <1>1, <1>2, CountersPane
  <1>4. /\ k \in Panes /\ k.buf_x = e.buf_x /\ k.buf_y = e.buf_y
        /\ e.limit >= 0 /\ e.line_count >= 0 =>
             k.limit = e.limit - 2 /\ k.line_count = e.line_count - 2
        /\ BlankAhead(e) => BlankAhead(k)
    <2>1. 2 \in Nat
      OBVIOUS
    <2> QED BY <1>1, <2>1, TakeBackPane
  <1> HIDE DEF k
  <1>5. /\ b \in Panes /\ b.buf_x = k.buf_x /\ b.buf_y = k.buf_y
        /\ b.limit = k.limit + 1 /\ b.line_count = k.line_count + 1
        /\ BlankAhead(k) => BlankAhead(b)
    BY <1>4, BumpPane
  <1>6. Backspaced(p) = Wrapped(IF LineFull(p) THEN o ELSE b)
    BY <1>1 DEF Backspaced, Counters, e, k, Panes
  <1> HIDE DEF o, b
  <1>7. Backspaced(p) \in Panes
    <2>1. (IF LineFull(p) THEN o ELSE b) \in Panes
      BY <1>3, <1>5
    <2> QED BY <1>6, <2>1, WrappedPane
  <1>8. ASSUME Tracks(p), p.line_count > 0, p.buf_x > 0, PrintedBefore(p) = 0
        PROVE  Backspaced(p) = b /\ Tracks(b) /\ (BlankAhead(p) => BlankAhead(b))
    <2>1. ~LineFull(p) /\ p.limit >= 0 /\ p.limit \in Int
      BY <1>8, Sizes DEF LineFull, Tracks, OnScreen, Columns, Panes
    <2>2. /\ b.limit = p.limit - 1 /\ b.line_count = p.limit - 1
          /\ b.buf_x = p.buf_x - 1 /\ b.buf_y = p.buf_y
      BY <1>1, <1>4, <1>5, <1>8, <2>1 DEF Tracks
    <2>3. Backspaced(p) = b
      BY <1>5, <1>6, <1>8, <2>1, <2>2, WrappedPane, Sizes DEF Tracks
    <2>4. Tracks(b)
      BY <1>8, <2>2, Sizes DEF Tracks, OnScreen, Columns
    <2> QED BY <1>1, <1>4, <1>5, <1>8, <2>3, <2>4
  <1> QED BY <1>7, <1>8

LEMMA EnteredPane ==
  ASSUME NEW p \in Panes, OnScreen(p)
  PROVE  LET q == Entered(p) IN
         /\ q \in Panes
         /\ Tracks(p) => /\ Tracks(q)
                         /\ BlankAhead(p) => BlankAhead(q)
  <1> DEFINE w == NewLine(p)
             f == Counters(w, 0, 0)
             b == Bump(f)
  <1>1. /\ w \in Panes /\ w.buf_x = 0 /\ w.buf_y \in 0 .. ROWS - 1
        /\ BlankAhead(p) => BlankAhead(w)
    BY NewLinePane
  <1> HIDE DEF w
  <1>2. /\ f \in Panes /\ f.buf_x = w.buf_x /\ f.buf_y = w.buf_y
        /\ f.limit = 0 /\ f.line_count = 0
        /\ BlankAhead(w) => BlankAhead(f)
    <2>1. 0 \in Int
      OBVIOUS
    <2> QED BY <1>1, <2>1, CountersPane
  <1>3. Entered(p) = Wrapped(IF LineFull(p) THEN f ELSE Bump(f))
    BY Zenon DEF Entered, Counters, w
  <1> HIDE DEF f
  <1>4. /\ b \in Panes /\ b.buf_x = 0 /\ b.buf_y = w.buf_y
        /\ b.limit = 1 /\ b.line_count = 1
        /\ BlankAhead(f) => BlankAhead(b)
    <2>1. /\ b \in Panes /\ b.buf_x = f.buf_x /\ b.buf_y = f.buf_y
          /\ b.limit = f.limit + 1 /\ b.line_count = f.line_count + 1
          /\ BlankAhead(f) => BlankAhead(b)
      BY <1>2, BumpPane
    <2> QED BY <1>1, <1>2, <2>1
  <1> HIDE DEF b
  <1>5. Entered(p) \in Panes
    <2>1. (IF LineFull(p) THEN f ELSE b) \in Panes
      BY <1>2, <1>4
    <2> QED BY <1>3, <2>1, WrappedPane DEF b
  <1>6. ASSUME Tracks(p)
        PROVE  Entered(p) = b /\ Tracks(b) /\ (BlankAhead(p) => BlankAhead(b))
    <2>1. ~LineFull(p) /\ b.limit # COLS
      BY <1>4, <1>6, Sizes DEF LineFull, Tracks, OnScreen, Columns, Panes
    <2>2. Entered(p) = b
      BY <1>3, <1>4, <2>1, WrappedPane DEF b
    <2>3. Tracks(b)
      BY <1>1, <1>4, Sizes DEF Tracks, OnScreen, Columns
    <2> QED BY <1>1, <1>2, <1>4, <2>2, <2>3
  <1> QED BY <1>5, <1>6

LEMMA ReleasedPane ==
  ASSUME NEW p \in Panes, OnScreen(p)
  PROVE  LET q == Released(p) IN
         /\ q \in Panes
         /\ Tracks(p) => /\ Tracks(q)
                         /\ BlankAhead(p) => BlankAhead(q)
  <1> DEFINE k == TakeBack(p, 1)
             b == Bump(k)
  <1>1. /\ k \in Panes /\ k.buf_x = p.buf_x /\ k.buf_y = p.buf_y
        /\ p.limit >= 0 /\ p.line_count >= 0 =>
             k.limit = p.limit - 1 /\ k.line_count = p.line_count - 1
        /\ BlankAhead(p) => BlankAhead(k)
    <2>1. 1 \in Nat
      OBVIOUS
    <2> QED BY <2>1, TakeBackPane
  <1> HIDE DEF k
  <1>2. /\ b \in Panes /\ b.buf_x = k.buf_x /\ b.buf_y = k.buf_y
        /\ b.limit = k.limit + 1 /\ b.line_count = k.line_count + 1
        /\ BlankAhead(k) => BlankAhead(b)
    BY <1>1, BumpPane
  <1>3. Released(p) = Wrapped(IF LineFull(p) THEN p ELSE b)
    BY DEF Released, k
  <1> HIDE DEF b
  <1>4. Released(p) \in Panes
    <2>1. (IF LineFull(p) THEN p ELSE b) \in Panes
      BY <1>2
    <2> QED BY <1>3, <2>1, WrappedPane
  <1>5. ASSUME Tracks(p)
        PROVE  Released(p) = b /\ Tracks(b) /\ (BlankAhead(p) => BlankAhead(b))
    <2>1. ~LineFull(p) /\ p.limit >= 0 /\ p.limit \in Int /\ p.line_count = p.limit
      BY <1>5, Sizes DEF LineFull, Tracks, OnScreen, Columns, Panes
    <2>2. b.limit = p.limit /\ b.line_count = p.limit /\ b.buf_x = p.buf_x /\ b.buf_y = p.buf_y
      BY <1>1, <1>2, <2>1
    <2>3. b.limit # COLS /\ Tracks(b)
      BY <1>5, <2>1, <2>2, Sizes DEF Tracks, OnScreen
    <2>4. Released(p) = b
      BY <1>2, <1>3, <2>1, <2>3, WrappedPane
    <2> QED BY <1>1, <1>2, <2>3, <2>4
  <1> QED BY <1>4, <1>5

LEMMA ResetPane == Reset \in Panes /\ Tracks(Reset) /\ BlankAhead(Reset)
  <1>1. Cleared.mo \in Mo /\ Cleared.printed \in Printed
    BY CellFacts DEF Cleared, Mo, Printed
  <1>2. \A y \in 0 .. ROWS - 1, x \in Columns : Cleared.mo[y][x] = Blank
    BY Sizes DEF Cleared, Rows
  <1>3. 0 \in Columns /\ 0 \in -1 .. ROWS - 1 /\ 0 \in 0 .. ROWS - 1
    BY Sizes DEF Columns
  <1> QED BY <1>1, <1>2, <1>3, Sizes DEF Reset, Panes, Tracks, OnScreen, BlankAhead

-----------------------------------------------------------------------------
(* What a read returns.                                                    *)

LEMMA LeastNatural ==
  ASSUME NEW S, S \subseteq Nat, S # {}
  PROVE  \E m \in S : \A k \in S : m <= k
  <1>1. PICK m \in S : \A k \in S : <<k, m>> \notin OpToRel(<, Nat)
    <2> HIDE DEF OpToRel
    <2> QED BY NatLessThanWellFounded, WFMin, Zenon
  <1>2. \A k \in S : ~(k < m)
    <2>1. ASSUME NEW k \in S, k < m PROVE FALSE
      <3>1. <<k, m>> \in Nat \X Nat /\ <<k, m>>[1] < <<k, m>>[2]
        BY <2>1
      <3>2. <<k, m>> \in OpToRel(<, Nat)
        BY <3>1 DEF OpToRel
      <3> QED BY <1>1, <3>2
    <2> QED BY <2>1
  <1>3. \A k \in S : m <= k
    BY <1>2
  <1> QED BY <1>3

(* The first place of an interval where P holds, or the interval's last.   *)
LEMMA FirstOrLast ==
  ASSUME NEW a \in Nat, NEW b \in Int, a <= b, NEW P
  PROVE  \E i \in a .. b : /\ i = b \/ i + 1 \in P
                           /\ \A j \in a .. i - 1 : j + 1 \notin P
  <1> DEFINE S == {i \in a .. b : i = b \/ i + 1 \in P}
  <1>1. S \subseteq Nat /\ b \in S
    OBVIOUS
  <1>2. PICK m \in S : \A k \in S : m <= k
    <2> HIDE DEF S
    <2> QED BY <1>1, LeastNatural
  <1>3. \A j \in a .. m - 1 : j + 1 \notin P
    BY <1>2
  <1> QED BY <1>2, <1>3

LEMMA LastCopiedSpan ==
  ASSUME TypeOK, NEW t \in Term, Span(t) # {}
  PROVE  LastCopied(t) \in Span(t)
  <1> DEFINE a == cmd_start[t]
             b == cmd_end[t] - 1
             P == {i \in a .. b + 1 : CharAt(t, i) = NL}
  <1>1. a \in Nat /\ b \in Int /\ a <= b /\ Span(t) = a .. b
    BY Sizes DEF TypeOK, Columns, Span
  <1>2. \E i \in a .. b : /\ i = b \/ i + 1 \in P
                          /\ \A j \in a .. i - 1 : j + 1 \notin P
    <2> HIDE DEF a, b, P
    <2> QED BY <1>1, FirstOrLast
  <1>3. \A i \in a .. b : i + 1 \in P <=> CharAt(t, i + 1) = NL
    BY <1>1
  <1>4. \E i \in Span(t) : /\ i = cmd_end[t] - 1 \/ CharAt(t, i + 1) = NL
                           /\ \A j \in cmd_start[t] .. i - 1 : CharAt(t, j + 1) # NL
    <2>1. PICK i \in a .. b : /\ i = b \/ i + 1 \in P
                              /\ \A j \in a .. i - 1 : j + 1 \notin P
      BY <1>2
    <2>2. \A j \in a .. i - 1 : j \in a .. b
      BY <1>1, <2>1
    <2> HIDE DEF P
    <2> QED BY <1>1, <1>3, <2>1, <2>2
  <1> HIDE DEF P, a, b
  <1> QED BY <1>4, Zenon DEF LastCopied

LEMMA CharAtCell ==
  ASSUME TypeOK, NEW t \in Term, t = screen_num, InBuffer(t), NEW i \in Span(t)
  PROVE  CharAt(t, i) \in Cell
  <1>1. /\ CopyRow >= 0 /\ CopyRow + (cmd_end[t] \div COLS) <= ROWS
        /\ CopyRow \in Int
    <2>1. Span(t) # {}
      OBVIOUS
    <2>2. CopyRow >= 0 /\ CopyRow + (cmd_end[t] \div COLS) <= ROWS
      BY <2>1 DEF InBuffer
    <2>3. cursor.buf_y \in Int
      BY Sizes DEF TypeOK, Cursor
    <2>4. CopyRow \in Int
      BY <2>3 DEF CopyRow
    <2> QED BY <2>2, <2>4
  <1>2. /\ i \in Nat /\ cmd_end[t] \in Int /\ i <= cmd_end[t]
    BY Sizes DEF Span, TypeOK, Columns
  <1>3. i \div COLS \in Nat /\ i % COLS \in Columns /\ i \div COLS <= cmd_end[t] \div COLS
    BY <1>2, Sizes DEF Columns
  <1>4. CopyRow + (i \div COLS) \in Rows
    <2>1. cmd_end[t] \div COLS \in Int
      BY <1>2, Sizes
    <2> HIDE DEF CopyRow
    <2> QED BY <1>1, <1>3, <2>1, Sizes DEF Rows
  <1>5. screens[t].mo \in [Rows -> [Columns -> Cell]]
    BY DEF TypeOK
  <1> QED BY <1>3, <1>4, <1>5 DEF CharAt

LEMMA CopiedSeq ==
  ASSUME TypeOK, NEW t \in Term, t = screen_num, InBuffer(t)
  PROVE  Copied(t) \in Seq(Cell)
  <1>1. CASE Span(t) = {}
    BY <1>1 DEF Copied
  <1>2. CASE Span(t) # {}
    <2> DEFINE n == LastCopied(t) - cmd_start[t] + 1
               e(k) == IF CharAt(t, LastCopied(t) + 1) = NL /\ StrayEnd(t) = k - 1
                       THEN NL ELSE CharAt(t, cmd_start[t] + k - 1)
    <2>1. LastCopied(t) \in Span(t) /\ cmd_start[t] \in Nat /\ cmd_end[t] \in Int
      BY <1>2, LastCopiedSpan DEF TypeOK, Columns
    <2>2. n \in Nat
      BY <2>1 DEF Span
    <2>3. \A k \in 1 .. n : cmd_start[t] + k - 1 \in Span(t)
      BY <2>1 DEF Span
    <2>4. Copied(t) = [k \in 1 .. n |-> e(k)]
      BY <1>2 DEF Copied
    <2>5. \A k \in 1 .. n : e(k) \in Cell
      <3> TAKE k \in 1 .. n
      <3>1. CharAt(t, cmd_start[t] + k - 1) \in Cell
        BY <2>3, CharAtCell
      <3> QED BY <3>1, CellFacts
    <2> HIDE DEF n, e
    <2>6. [k \in 1 .. n |-> e(k)] \in Seq(Cell)
      BY <2>2, <2>5
    <2> QED BY <2>4, <2>6
  <1> QED BY <1>1, <1>2

LEMMA UpToNulSeq ==
  ASSUME NEW s \in Seq(Cell)
  PROVE  UpToNul(s) \in Seq(Cell)
  <1> DEFINE good(k) == /\ \A i \in 1 .. k : s[i] # Nul
                        /\ (k = Len(s) \/ s[k + 1] = Nul)
             n == CHOOSE k \in 0 .. Len(s) : good(k)
             P == {i \in 1 .. Len(s) : s[i] = Nul}
  <1>1. Len(s) \in Nat
    OBVIOUS
  <1>2. PICK k \in 0 .. Len(s) : /\ k = Len(s) \/ k + 1 \in P
                                 /\ \A j \in 0 .. k - 1 : j + 1 \notin P
    <2>1. 0 \in Nat /\ 0 <= Len(s) /\ Len(s) \in Int
      BY <1>1
    <2> HIDE DEF P
    <2> QED BY <2>1, FirstOrLast
  <1>3. \A i \in 1 .. k : s[i] # Nul
    <2> TAKE i \in 1 .. k
    <2>1. i - 1 \in 0 .. k - 1 /\ (i - 1) + 1 = i /\ i \in 1 .. Len(s)
      BY <1>1
    <2>2. (i - 1) + 1 \notin P
      BY <1>2, <2>1
    <2> QED BY <2>1, <2>2
  <1>4. good(k)
    BY <1>2, <1>3
  <1> HIDE DEF good
  <1>5. n \in 0 .. Len(s)
    BY <1>4, Zenon
  <1>6. UpToNul(s) = SubSeq(s, 1, n)
    BY DEF UpToNul, good
  <1> HIDE DEF n
  <1>7. 1 \in Int /\ n \in Int /\ \A i \in 1 .. n : s[i] \in Cell
    BY <1>1, <1>5
  <1>8. SubSeq(s, 1, n) \in Seq(Cell)
    BY <1>7, SubSeqProperties, Zenon
  <1> QED BY <1>6, <1>8

-----------------------------------------------------------------------------
(* From panes to states.                                                   *)
Screen == [mo : Mo, printed : Printed]

LEMMA PaneType ==
  ASSUME TypeOK, NEW t \in Term
  PROVE  /\ Pane(t) \in Panes
         /\ Pane(t).mo = screens[t].mo
         /\ Pane(t).buf_x = cursor.buf_x /\ Pane(t).buf_y = cursor.buf_y
         /\ Pane(t).limit = cursor.limit /\ Pane(t).line_count = cursor.line_count
  BY DEF TypeOK, Pane, Panes, Cursor, Mo, Printed

LEMMA ShowType ==
  ASSUME TypeOK, NEW t \in Term, NEW p \in Panes, Show(t, p)
  PROVE  /\ screens' \in [Term -> Screen] /\ cursor' \in Cursor
         /\ \A u \in Term : screens'[u] = IF u = t THEN [mo |-> p.mo, printed |-> p.printed]
                                          ELSE screens[u]
         /\ screens'[t].mo = p.mo
         /\ cursor'.buf_x = p.buf_x /\ cursor'.buf_y = p.buf_y
         /\ cursor'.limit = p.limit /\ cursor'.line_count = p.line_count
  <1> DEFINE n == [mo |-> p.mo, printed |-> p.printed]
  <1>1. screens \in [Term -> Screen]
    BY DEF TypeOK, Screen, Mo, Printed
  <1>2. screens' = [screens EXCEPT ![t] = n]
    BY DEF Show
  <1>3. n \in Screen /\ n.mo = p.mo
    BY DEF Panes, Screen
  <1> HIDE DEF n
  <1>4. /\ screens' \in [Term -> Screen]
        /\ \A u \in Term : screens'[u] = IF u = t THEN n ELSE screens[u]
    BY <1>1, <1>2, <1>3
  <1>5. cursor' = [buf_x |-> p.buf_x, buf_y |-> p.buf_y,
                   limit |-> p.limit, line_count |-> p.line_count]
    BY DEF Show
  <1>6. /\ cursor' \in Cursor
        /\ cursor'.buf_x = p.buf_x /\ cursor'.buf_y = p.buf_y
        /\ cursor'.limit = p.limit /\ cursor'.line_count = p.line_count
    BY <1>5 DEF Panes, Cursor
  <1> QED BY <1>3, <1>4, <1>6 DEF n

KeyAction == \/ \E c \in Chars : TypeChar(c)
             \/ AltPress \/ AltRelease \/ Release \/ Backspace \/ Enter \/ CtrlL

(* A key that keeps to the discipline leaves the pane in step.             *)
InStep(p, q) == {"short", "erase"} \subseteq Discipline /\ Tracks(p) =>
                  /\ Tracks(q)
                  /\ BlankAhead(p) => BlankAhead(q)

LEMMA KeyPane ==
  ASSUME TypeOK, KeyAction
  PROVE  \E p \in Panes, e \in 0 .. 1 :
           Key(p, e) /\ alt' \in 0 .. 1 /\ InStep(Shown, p)
  <1> DEFINE s == Shown
  <1>1. /\ s \in Panes /\ s.limit = cursor.limit
        /\ s.line_count = cursor.line_count /\ s.buf_x = cursor.buf_x
    BY PaneType DEF TypeOK, Shown
  <1>2. alt \in 0 .. 1 /\ 0 \in 0 .. 1 /\ 1 \in 0 .. 1
    BY DEF TypeOK
  <1>3. ASSUME NEW c \in Cell, Short, Key(Typed(s, c), 0), alt' \in 0 .. 1
        PROVE  \E p \in Panes, e \in 0 .. 1 : Key(p, e) /\ alt' \in 0 .. 1 /\ InStep(s, p)
    <2>1. OnScreen(s)
      BY <1>3 DEF Key
    <2>2. {"short", "erase"} \subseteq Discipline => s.limit < COLS - 1
      BY <1>1, <1>3 DEF Short, Kept
    <2> HIDE DEF s
    <2>3. Typed(s, c) \in Panes /\ InStep(s, Typed(s, c))
      BY <1>1, <2>1, <2>2, TypedPane DEF InStep
    <2> QED BY <1>2, <1>3, <2>3
  <1>4. ASSUME NEW c \in Chars, TypeChar(c)
        PROVE  \E p \in Panes, e \in 0 .. 1 : Key(p, e) /\ alt' \in 0 .. 1 /\ InStep(s, p)
    <2>1. c \in Cell /\ Short /\ Key(Typed(s, c), 0) /\ alt' = alt
      BY <1>4, CellFacts DEF TypeChar
    <2> HIDE DEF s
    <2> QED BY <1>2, <1>3, <2>1
  <1>5. CASE AltPress
    <2>1. Nul \in Cell /\ Short /\ Key(Typed(s, Nul), 0) /\ alt' = 1
      BY <1>5, CellFacts DEF AltPress
    <2> HIDE DEF s
    <2>2. \E p \in Panes, e \in 0 .. 1 : Key(p, e) /\ alt' \in 0 .. 1 /\ InStep(s, p)
      BY <1>2, <1>3, <2>1
    <2> QED BY <2>2 DEF s
  <1>6. CASE AltRelease \/ Release
    <2>1. Key(Released(s), 0) /\ alt' \in 0 .. 1
      BY <1>2, <1>6 DEF AltRelease, Release
    <2>2. OnScreen(s)
      BY <2>1 DEF Key
    <2> HIDE DEF s
    <2>3. Released(s) \in Panes /\ InStep(s, Released(s))
      BY <1>1, <2>2, ReleasedPane DEF InStep
    <2> QED BY <1>2, <2>1, <2>3 DEF s
  <1>7. CASE Backspace
    <2>1. Key(Backspaced(s), 0) /\ alt' = alt
      BY <1>7 DEF Backspace
    <2>2. OnScreen(s)
      BY <2>1 DEF Key
    <2>3. {"short", "erase"} \subseteq Discipline =>
            s.line_count > 0 /\ s.buf_x > 0 /\ PrintedBefore(s) = 0
      BY <1>1, <1>7 DEF Backspace, Erasable, Kept
    <2> HIDE DEF s
    <2>4. Backspaced(s) \in Panes /\ InStep(s, Backspaced(s))
      BY <1>1, <2>2, <2>3, BackspacedPane DEF InStep
    <2> QED BY <1>2, <2>1, <2>4 DEF s
  <1>8. CASE Enter
    <2>1. Key(Entered(s), 1) /\ alt' = alt
      BY <1>8 DEF Enter
    <2>2. OnScreen(s)
      BY <2>1 DEF Key
    <2> HIDE DEF s
    <2>3. Entered(s) \in Panes /\ InStep(s, Entered(s))
      BY <1>1, <2>2, EnteredPane DEF InStep
    <2> QED BY <1>2, <2>1, <2>3 DEF s
  <1>9. CASE CtrlL
    <2>1. Key(Reset, 0) /\ alt' = alt
      BY <1>9 DEF CtrlL
    <2>2. Reset \in Panes /\ InStep(s, Reset)
      BY ResetPane DEF InStep
    <2> QED BY <1>2, <2>1, <2>2
  <1> QED BY <1>4, <1>5, <1>6, <1>7, <1>8, <1>9 DEF KeyAction

-----------------------------------------------------------------------------
LEMMA InitType == Init => TypeOK
  <1> SUFFICES ASSUME Init PROVE TypeOK
    OBVIOUS
  <1>1. Cleared \in [mo : Mo, printed : Printed]
    BY CellFacts DEF Cleared, Mo, Printed
  <1>2. Home \in Cursor
    BY Sizes DEF Home, Cursor, Columns
  <1>3. 0 \in Term /\ 0 \in Columns
    BY Sizes DEF Term, Columns
  <1>4. <<>> \in Seq(Cell) /\ <<>> \in Seq(Chars \cup {NL})
    OBVIOUS
  <1> HIDE DEF Cleared, Home
  <1> QED BY <1>1, <1>2, <1>3, <1>4, Sizes DEF Init, TypeOK, Mo, Printed

LEMMA KeyType ==
  ASSUME TypeOK, KeyAction
  PROVE  TypeOK'
  <1>1. PICK p \in Panes, e \in 0 .. 1 : Key(p, e) /\ alt' \in 0 .. 1
    BY KeyPane
  <1>2. screens' \in [Term -> Screen] /\ cursor' \in Cursor
    BY <1>1, ShowType DEF Key, TypeOK
  <1>3. enter_press' \in 0 .. 1
        /\ UNCHANGED <<components, screen_num, process_buf, prog, todo,
                       length, cmd_start, cmd_end, got>>
    BY <1>1 DEF Key, readVars
  <1> QED BY <1>1, <1>2, <1>3 DEF TypeOK, Screen, Mo, Printed

LEMMA SwitchType ==
  ASSUME TypeOK, NEW n \in Term, Switch(n)
  PROVE  TypeOK'
  <1>1. components' = [components EXCEPT ![screen_num] = cursor]
    BY DEF Switch
  <1>2. components' \in [Term -> Cursor]
    BY <1>1 DEF TypeOK
  <1>3. cursor' \in Cursor /\ screen_num' \in Term
    BY <1>2 DEF Switch
  <1>4. enter_press' \in 0 .. 1
    BY DEF Switch, TypeOK
  <1>5. prog' \in [Term -> {"none", "user", "write", "read"}]
    BY DEF Switch, TypeOK
  <1>6. UNCHANGED <<screens, alt, process_buf, todo, length, cmd_start, cmd_end, got>>
    BY DEF Switch, readVars
  <1> QED BY <1>2, <1>3, <1>4, <1>5, <1>6 DEF TypeOK

LEMMA PutCoutStep ==
  ASSUME TypeOK, PutCout
  PROVE  /\ Head(todo[screen_num]) \in Chars \cup {NL}
         /\ todo' \in [Term -> Seq(Chars \cup {NL})]
         /\ OnScreen(Pane(process_buf))
         /\ put_cout(Pane(process_buf), Head(todo[screen_num])) \in Panes
  <1>1. todo[screen_num] \in Seq(Chars \cup {NL}) /\ todo[screen_num] # <<>>
    BY DEF TypeOK, PutCout
  <1>2. /\ Head(todo[screen_num]) \in Chars \cup {NL}
        /\ Tail(todo[screen_num]) \in Seq(Chars \cup {NL})
    BY <1>1
  <1>3. todo' = [todo EXCEPT ![screen_num] = Tail(todo[screen_num])]
    BY DEF PutCout
  <1>4. todo' \in [Term -> Seq(Chars \cup {NL})]
    BY <1>2, <1>3 DEF TypeOK
  <1>5. Pane(process_buf) \in Panes /\ OnScreen(Pane(process_buf))
    BY PaneType DEF TypeOK, PutCout, Shown, OnScreen
  <1>6. Head(todo[screen_num]) \in Cell
    BY <1>2, CellFacts
  <1>7. put_cout(Pane(process_buf), Head(todo[screen_num])) \in Panes
    BY <1>5, <1>6, PutCoutPane
  <1> QED BY <1>2, <1>4, <1>5, <1>7

LEMMA ReadDoneType ==
  ASSUME TypeOK, ReadDone
  PROVE  TypeOK'
  <1> DEFINE t == screen_num
             c == Copied(t)
             g == UpToNul(c)
  <1>1. c \in Seq(Cell)
    BY CopiedSeq DEF ReadDone, TypeOK
  <1>2. g \in Seq(Cell) /\ Len(c) \in Nat
    BY <1>1, UpToNulSeq
  <1>3. length' = length + Len(c) /\ got' = [got EXCEPT ![t] = g]
    BY DEF ReadDone
  <1> HIDE DEF c, g
  <1>4. length' \in Nat /\ got' \in [Term -> Seq(Cell)]
    BY <1>2, <1>3 DEF TypeOK
  <1>5. /\ prog' \in [Term -> {"none", "user", "write", "read"}]
        /\ cmd_start' \in [Term -> Columns] /\ cmd_end' \in [Term -> Int]
        /\ enter_press' \in 0 .. 1
    BY Sizes DEF ReadDone, TypeOK, Columns
  <1>6. UNCHANGED <<screens, cursor, components, screen_num, alt, process_buf, todo>>
    BY DEF ReadDone
  <1> QED BY <1>4, <1>5, <1>6 DEF TypeOK

LEMMA NextType ==
  ASSUME TypeOK, [Next]_vars
  PROVE  TypeOK'
  <1>1. CASE KeyAction
    BY <1>1, KeyType
  <1>2. ASSUME NEW n \in Term, Switch(n) PROVE TypeOK'
    BY <1>2, SwitchType
  <1>3. ASSUME NEW text \in Texts, WriteStart(text) PROVE TypeOK'
    <2>1. text \in Seq(Chars \cup {NL})
      BY CharAssumption
    <2> QED BY <1>3, <2>1 DEF WriteStart, TypeOK, readVars
  <1>4. CASE PutCout
    <2>1. todo' \in [Term -> Seq(Chars \cup {NL})]
      BY <1>4, PutCoutStep
    <2>2. screens' \in [Term -> Screen] /\ cursor' \in Cursor
      BY <1>4, PutCoutStep, ShowType DEF PutCout, TypeOK
    <2>3. UNCHANGED <<components, screen_num, enter_press, alt, process_buf, prog,
                      length, cmd_start, cmd_end, got>>
      BY <1>4 DEF PutCout, readVars
    <2> QED BY <2>1, <2>2, <2>3 DEF TypeOK, Screen, Mo, Printed
  <1>5. CASE WriteEnd
    BY <1>5 DEF WriteEnd, TypeOK, readVars
  <1>6. CASE ReadStart
    <2>1. cursor.buf_x \in Columns /\ cursor.line_count \in Int
      BY DEF TypeOK, Cursor
    <2>2. <<>> \in Seq(Cell)
      OBVIOUS
    <2> QED BY <1>6, <2>1, <2>2 DEF ReadStart, TypeOK
  <1>7. CASE Look
    <2>1. cursor.buf_x \in Int
      BY Sizes DEF TypeOK, Cursor, Columns
    <2> QED BY <1>7, <2>1 DEF Look, TypeOK
  <1>8. CASE ReadDone
    BY <1>8, ReadDoneType
  <1>9. CASE UNCHANGED vars
    BY <1>9 DEF vars, readVars, TypeOK
  <1> QED BY <1>1, <1>2, <1>3, <1>4, <1>5, <1>6, <1>7, <1>8, <1>9 DEF Next, KeyAction

(* Every variable keeps its type, whatever users and programs do; what a   *)
(* read copies are characters of the screen.                               *)
THEOREM TypeCorrect == Spec => []TypeOK
  <1>1. TypeOK /\ [Next]_vars => TypeOK'
    BY NextType
  <1> QED BY InitType, <1>1, PTL DEF Spec

-----------------------------------------------------------------------------
(* The counters.  The invariant adds that no line reaches the last column:  *)
(* then no key finds a row or a line full, and only the four counting      *)
(* steps of the handler matter.                                            *)
CountInv == TypeOK /\ Tracks(cursor) /\ \A t \in Term : Tracks(components[t])

LEMMA CountInit == Init => CountInv
  <1>1. Tracks(Home)
    BY Sizes DEF Home, Tracks, OnScreen, Columns
  <1> HIDE DEF Home
  <1> QED BY <1>1, InitType DEF Init, CountInv

LEMMA CountKey ==
  ASSUME {"short", "erase"} \subseteq Discipline, CountInv, KeyAction
  PROVE  Tracks(cursor)' /\ \A t \in Term : Tracks(components[t])'
  <1>1. PICK p \in Panes, e \in 0 .. 1 : Key(p, e) /\ InStep(Shown, p)
    BY KeyPane DEF CountInv
  <1>2. Tracks(Shown)
    BY PaneType DEF CountInv, TypeOK, Shown, Tracks, OnScreen
  <1>3. Tracks(p) /\ Show(screen_num, p) /\ components' = components
    BY <1>1, <1>2 DEF InStep, Key
  <1>4. Tracks(cursor)'
    BY <1>3, ShowType, ZenonT(60) DEF CountInv, TypeOK, Tracks, OnScreen
  <1> QED BY <1>3, <1>4 DEF CountInv, Tracks, OnScreen

LEMMA CountPutCout ==
  ASSUME {"short", "erase"} \subseteq Discipline, CountInv, PutCout
  PROVE  Tracks(cursor)' /\ \A t \in Term : Tracks(components[t])'
  <1> DEFINE c == Head(todo[screen_num])
             p == Pane(process_buf)
             q == put_cout(p, c)
  <1>1. /\ c \in Chars \cup {NL} /\ q \in Panes /\ OnScreen(p)
        /\ p \in Panes /\ process_buf \in Term
        /\ p.limit = cursor.limit /\ p.line_count = cursor.line_count
        /\ p.buf_x = cursor.buf_x /\ p.buf_y = cursor.buf_y
    BY PutCoutStep, PaneType DEF CountInv, TypeOK
  <1>2. /\ Show(process_buf, q) /\ components' = components
        /\ c # NL => cursor.limit < COLS - 1
    BY DEF PutCout, Short, Kept
  <1>3. c \in Cell
    BY <1>1, CellFacts
  <1> HIDE DEF c, p
  <1>4. /\ c = NL => /\ q.buf_x = 0 /\ q.buf_y \in 0 .. ROWS - 1
                     /\ q.limit = 0 /\ q.line_count = 0
        /\ c # NL => /\ q.buf_y = p.buf_y /\ q.limit = p.limit + 1
                     /\ q.line_count = p.line_count + 1
                     /\ p.buf_x < COLS - 1 => q.buf_x = p.buf_x + 1
    BY <1>1, <1>3, PutCoutPane
  <1> HIDE DEF q
  <1>5. Tracks(q)
    BY <1>1, <1>2, <1>4, Sizes DEF CountInv, Tracks, OnScreen, Columns
  <1>6. Tracks(cursor)'
    BY <1>1, <1>2, <1>5, ShowType DEF CountInv, Tracks, OnScreen
  <1> QED BY <1>2, <1>6 DEF CountInv, Tracks, OnScreen

LEMMA CountSwitch ==
  ASSUME CountInv, NEW n \in Term, Switch(n)
  PROVE  Tracks(cursor)' /\ \A t \in Term : Tracks(components[t])'
  <1>1. /\ components' = [components EXCEPT ![screen_num] = cursor]
        /\ cursor' = components'[n]
    BY DEF Switch
  <1>2. \A t \in Term : components'[t] \in {cursor, components[t]}
    BY <1>1 DEF CountInv, TypeOK
  <1>3. \A t \in Term : Tracks(components'[t])
    <2> TAKE t \in Term
    <2>1. CASE components'[t] = cursor
      BY <2>1 DEF CountInv, Tracks, OnScreen
    <2>2. CASE components'[t] = components[t]
      BY <2>2 DEF CountInv, Tracks, OnScreen
    <2> QED BY <1>2, <2>1, <2>2
  <1> QED BY <1>1, <1>3 DEF Tracks, OnScreen

LEMMA CountStep ==
  ASSUME {"short", "erase"} \subseteq Discipline, CountInv, [Next]_vars
  PROVE  CountInv'
  <1>1. TypeOK'
    BY NextType DEF CountInv
  <1>2. CASE KeyAction
    BY <1>1, <1>2, CountKey DEF CountInv
  <1>3. CASE PutCout
    BY <1>1, <1>3, CountPutCout DEF CountInv
  <1>4. ASSUME NEW n \in Term, Switch(n) PROVE CountInv'
    BY <1>1, <1>4, CountSwitch DEF CountInv
  <1>5. CASE UNCHANGED <<cursor, components>>
    BY <1>1, <1>5 DEF CountInv, Tracks, OnScreen
  <1>6. [Next]_vars => \/ KeyAction \/ PutCout \/ \E n \in Term : Switch(n)
                       \/ UNCHANGED <<cursor, components>>
    BY DEF Next, KeyAction, WriteStart, WriteEnd, ReadStart, Look, ReadDone, vars
  <1> QED BY <1>2, <1>3, <1>4, <1>5, <1>6

(* When lines are short and only typed characters are erased, the counters *)
(* of every terminal go with its cursor, through any order of keys,        *)
(* outputs, reads and switches.                                            *)
THEOREM CountersCorrect ==
  ASSUME {"short", "erase"} \subseteq Discipline
  PROVE  Spec => []CountersTrackCursor
  <1>1. CountInv /\ [Next]_vars => CountInv'
    BY CountStep
  <1>2. CountInv => CountersTrackCursor
    BY DEF CountInv, CountersTrackCursor, CursorOf, Tracks, OnScreen
  <1> QED BY CountInit, <1>1, <1>2, PTL DEF Spec

-----------------------------------------------------------------------------
(* Clean space ahead.  The invariant adds that an output under way is that  *)
(* of the terminal shown and goes to its screen.                           *)
Clean(m, k) == \A y \in k.buf_y .. ROWS - 1, x \in Columns :
                 y > k.buf_y \/ x >= k.buf_x => m[y][x] = Blank
AllClean == /\ Clean(screens[screen_num].mo, cursor)
            /\ \A t \in Term : t # screen_num => Clean(screens[t].mo, components[t])
WritesHere == \A t \in Term : prog[t] = "write" => t = screen_num /\ process_buf = t
CleanInv == CountInv /\ AllClean /\ WritesHere

LEMMA CleanInit == Init => CleanInv
  <1> SUFFICES ASSUME Init PROVE CleanInv
    OBVIOUS
  <1>1. Clean(Cleared.mo, Home)
    <2>1. \A y \in 0 .. ROWS - 1, x \in Columns : Cleared.mo[y][x] = Blank
      BY Sizes DEF Cleared, Rows
    <2> HIDE DEF Cleared
    <2> QED BY <2>1 DEF Home, Clean
  <1>2. 0 \in Term
    BY Sizes DEF Term
  <1> HIDE DEF Cleared, Home
  <1>3. AllClean
    BY <1>1, <1>2 DEF Init, AllClean
  <1>4. WritesHere
    BY DEF Init, WritesHere
  <1> QED BY <1>3, <1>4, CountInit DEF CleanInv

(* What a step that only shows a clean pane on the current screen keeps.   *)
LEMMA CleanShow ==
  ASSUME CleanInv, NEW p \in Panes, Show(screen_num, p), BlankAhead(p),
         components' = components, screen_num' = screen_num
  PROVE  AllClean'
  <1>1. /\ screens'[screen_num].mo = p.mo
        /\ \A t \in Term : t # screen_num => screens'[t] = screens[t]
        /\ cursor'.buf_x = p.buf_x /\ cursor'.buf_y = p.buf_y
    BY ShowType DEF CleanInv, CountInv, TypeOK
  <1>2. Clean(screens'[screen_num].mo, cursor')
    BY <1>1 DEF Clean, BlankAhead
  <1>3. \A t \in Term : t # screen_num => Clean(screens'[t].mo, components[t])
    BY <1>1 DEF CleanInv, AllClean, Clean
  <1> QED BY <1>2, <1>3 DEF AllClean, Clean

LEMMA ShownClean ==
  ASSUME CleanInv
  PROVE  BlankAhead(Pane(screen_num))
  BY PaneType, ZenonT(60) DEF CleanInv, CountInv, TypeOK, AllClean, Clean, BlankAhead

LEMMA CleanKey ==
  ASSUME {"short", "erase"} \subseteq Discipline, CleanInv, KeyAction
  PROVE  AllClean' /\ WritesHere'
  <1>1. PICK p \in Panes, e \in 0 .. 1 : Key(p, e) /\ InStep(Shown, p)
    BY KeyPane DEF CleanInv, CountInv
  <1>2. Tracks(Shown) /\ BlankAhead(Shown)
    BY PaneType, ShownClean DEF CleanInv, CountInv, TypeOK, Shown, Tracks, OnScreen
  <1>3. /\ BlankAhead(p) /\ Show(screen_num, p)
        /\ components' = components /\ screen_num' = screen_num
        /\ process_buf' = process_buf /\ prog' = prog
    BY <1>1, <1>2 DEF InStep, Key
  <1>4. AllClean'
    BY <1>3, CleanShow
  <1> QED BY <1>3, <1>4 DEF CleanInv, WritesHere

LEMMA CleanPutCout ==
  ASSUME {"short", "erase"} \subseteq Discipline, CleanInv, PutCout
  PROVE  AllClean' /\ WritesHere'
  <1> DEFINE c == Head(todo[screen_num])
             p == Pane(process_buf)
             q == put_cout(p, c)
  <1>1. process_buf = screen_num /\ screen_num \in Term
    BY DEF CleanInv, CountInv, TypeOK, WritesHere, PutCout
  <1>2. /\ c \in Chars \cup {NL} /\ q \in Panes /\ OnScreen(p) /\ p \in Panes
        /\ p.limit = cursor.limit /\ p.buf_x = cursor.buf_x
    BY PutCoutStep, PaneType DEF CleanInv, CountInv, TypeOK
  <1>3. /\ Show(process_buf, q)
        /\ c # NL => cursor.limit < COLS - 1
        /\ components' = components /\ screen_num' = screen_num
        /\ process_buf' = process_buf /\ prog' = prog
    BY DEF PutCout, Short, Kept
  <1>4. c \in Cell /\ BlankAhead(p)
    BY <1>1, <1>2, CellFacts, ShownClean
  <1>5. c # NL => p.buf_x < COLS - 1
    BY <1>2, <1>3, Sizes DEF CleanInv, CountInv, Tracks, OnScreen, Columns
  <1> HIDE DEF c, p
  <1>6. BlankAhead(q)
    BY <1>2, <1>4, <1>5, PutCoutPane
  <1> HIDE DEF q
  <1>7. AllClean'
    BY <1>1, <1>2, <1>3, <1>6, CleanShow
  <1> QED BY <1>3, <1>7 DEF CleanInv, WritesHere

LEMMA CleanSwitch ==
  ASSUME "switch" \in Discipline, CleanInv, NEW n \in Term, Switch(n)
  PROVE  AllClean' /\ WritesHere'
  <1>1. /\ components' = [components EXCEPT ![screen_num] = cursor]
        /\ cursor' = components'[n] /\ screen_num' = n /\ screens' = screens
        /\ process_buf' = process_buf
        /\ prog' = [prog EXCEPT ![n] = IF prog[n] = "none" THEN "user" ELSE prog[n]]
        /\ prog[screen_num] # "write"
    BY DEF Switch, Kept
  <1>2. \A t \in Term : Clean(screens[t].mo, components'[t])
    <2> TAKE t \in Term
    <2>1. components'[t] = IF t = screen_num THEN cursor ELSE components[t]
      BY <1>1 DEF CleanInv, CountInv, TypeOK
    <2>2. CASE t = screen_num
      BY <2>1, <2>2, Zenon DEF CleanInv, AllClean
    <2>3. CASE t # screen_num
      BY <2>1, <2>3, Zenon DEF CleanInv, AllClean
    <2> QED BY <2>2, <2>3
  <1>3. AllClean'
    BY <1>1, <1>2 DEF AllClean, Clean
  <1>4. \A t \in Term : prog'[t] # "write"
    BY <1>1 DEF CleanInv, CountInv, TypeOK, WritesHere
  <1> QED BY <1>3, <1>4 DEF WritesHere

LEMMA CleanStep ==
  ASSUME {"short", "erase", "switch"} \subseteq Discipline, CleanInv, [Next]_vars
  PROVE  CleanInv'
  <1>1. CountInv'
    BY CountStep DEF CleanInv
  <1>2. CASE KeyAction
    BY <1>1, <1>2, CleanKey DEF CleanInv
  <1>3. CASE PutCout
    BY <1>1, <1>3, CleanPutCout DEF CleanInv
  <1>4. ASSUME NEW n \in Term, Switch(n) PROVE CleanInv'
    BY <1>1, <1>4, CleanSwitch DEF CleanInv
  <1>5. ASSUME UNCHANGED <<screens, cursor, components, screen_num>> PROVE AllClean'
    BY <1>5 DEF CleanInv, AllClean, Clean
  <1>6. ASSUME NEW text \in Texts, WriteStart(text) PROVE CleanInv'
    <2>1. AllClean'
      BY <1>5, <1>6 DEF WriteStart
    <2>2. WritesHere'
      BY <1>6 DEF WriteStart, WritesHere, CleanInv, CountInv, TypeOK
    <2> QED BY <1>1, <2>1, <2>2 DEF CleanInv
  <1>7. CASE WriteEnd \/ ReadStart \/ Look \/ ReadDone \/ UNCHANGED vars
    <2>1. AllClean'
      BY <1>5, <1>7 DEF WriteEnd, ReadStart, Look, ReadDone, vars
    <2>2. WritesHere'
      BY <1>7 DEF WriteEnd, ReadStart, Look, ReadDone, vars, WritesHere,
                  CleanInv, CountInv, TypeOK
    <2> QED BY <1>1, <2>1, <2>2 DEF CleanInv
  <1> QED BY <1>2, <1>3, <1>4, <1>6, <1>7 DEF Next, KeyAction

(* If besides nobody switches in the middle of an output, what is typed or *)
(* written goes to clean space on every terminal: nothing on the screen is *)
(* written over, across line ends, scrolling, erasing and switches.        *)
THEOREM AheadCorrect ==
  ASSUME {"short", "erase", "switch"} \subseteq Discipline
  PROVE  Spec => []AheadIsBlank
  <1>1. CleanInv /\ [Next]_vars => CleanInv'
    BY CleanStep
  <1>2. CleanInv => AheadIsBlank
    BY DEF CleanInv, AllClean, Clean, AheadIsBlank, CursorOf
  <1> QED BY CleanInit, <1>1, <1>2, PTL DEF Spec
-----------------------------------------------------------------------------
(* The lines.  What each key leaves in the cells of the screen, when the    *)
(* counters are in step.                                                   *)

LEMMA TypedCells ==
  ASSUME NEW p \in Panes, Tracks(p), p.limit < COLS - 1, NEW c \in Cell
  PROVE  LET q == Typed(p, c) IN
         /\ q.buf_x = p.buf_x + 1 /\ q.buf_y = p.buf_y
         /\ \A y \in Rows, z \in Columns :
              q.mo[y][z] = IF y = p.buf_y /\ z = p.buf_x THEN c ELSE p.mo[y][z]
  <1> DEFINE w == With(p, p.buf_y, p.buf_x, c)
             s == setb(p, c)
             b == Bump(s)
  <1>1. OnScreen(p) /\ p.buf_x \in Columns /\ p.buf_x \in 0 .. COLS
        /\ p.buf_y \in 0 .. ROWS - 1 /\ p.buf_x < COLS - 1 /\ p.limit \in Int
        /\ p.line_count = p.limit
    BY Sizes DEF Tracks, OnScreen, Columns, Panes
  <1>2. /\ s \in Panes /\ s.buf_x = p.buf_x + 1 /\ s.buf_y = p.buf_y
        /\ s.limit = p.limit /\ s.line_count = p.line_count
    BY <1>1, SetbPane, Sizes
  <1>3. s.mo = w.mo
    <2>1. w \in Panes
      BY <1>1, WithPane
    <2> HIDE DEF w
    <2>2. s = [w EXCEPT !.printed[p.buf_y][p.buf_x] = 0,
                        !.buf_x = IF w.buf_x = COLS - 1 THEN 0 ELSE w.buf_x + 1]
      BY Zenon DEF setb, w
    <2> QED BY <2>1, <2>2 DEF Panes
  <1>4. \A y \in Rows, z \in Columns :
          w.mo[y][z] = IF y = p.buf_y /\ z = p.buf_x THEN c ELSE p.mo[y][z]
    BY <1>1, WithBlank
  <1> HIDE DEF w, s
  <1>5. /\ b \in Panes /\ b.buf_x = s.buf_x /\ b.buf_y = s.buf_y
        /\ b.limit = s.limit + 1 /\ b.mo = s.mo
    BY <1>2, BumpPane
  <1>6. Typed(p, c) = b
    <2>1. ~LineFull(p) /\ b.limit # COLS
      BY <1>1, <1>2, <1>5, Sizes DEF LineFull
    <2>2. Typed(p, c) = Wrapped(b)
      BY <2>1 DEF Typed, s
    <2> QED BY <1>5, <2>1, <2>2, WrappedPane
  <1> HIDE DEF b
  <1> QED BY <1>2, <1>3, <1>4, <1>5, <1>6

LEMMA BackspacedCells ==
  ASSUME NEW p \in Panes, Tracks(p), p.line_count > 0, p.buf_x > 0, PrintedBefore(p) = 0
  PROVE  LET q == Backspaced(p) IN
         /\ q.buf_x = p.buf_x - 1 /\ q.buf_y = p.buf_y
         /\ \A y \in Rows, z \in Columns :
              ~(y = p.buf_y /\ z = p.buf_x - 1) => q.mo[y][z] = p.mo[y][z]
  <1> DEFINE e == backspace(p)
             k == TakeBack(e, 2)
             b == Bump(k)
  <1>1. OnScreen(p) /\ p.buf_x \in Columns /\ p.buf_y \in 0 .. ROWS - 1
        /\ p.limit \in Int /\ p.line_count = p.limit /\ p.limit < COLS
    BY Sizes DEF Tracks, OnScreen, Columns, Panes
  <1>2. /\ e \in Panes /\ e.limit = p.limit /\ e.line_count = p.line_count
        /\ e.buf_x = p.buf_x - 1 /\ e.buf_y = p.buf_y
    BY <1>1, BackspacePane
  <1>3. e.mo = [p.mo EXCEPT ![p.buf_y][p.buf_x - 1] = Blank]
    BY <1>1 DEF backspace, Panes
  <1>4. \A y \in Rows, z \in Columns :
          ~(y = p.buf_y /\ z = p.buf_x - 1) => e.mo[y][z] = p.mo[y][z]
    BY <1>1, <1>3, Sizes DEF Panes, Mo, Rows, Columns
  <1> HIDE DEF e
  <1>5. /\ k \in Panes /\ k.buf_x = e.buf_x /\ k.buf_y = e.buf_y /\ k.mo = e.mo
        /\ k.limit = p.limit - 2
    <2>1. 2 \in Nat
      OBVIOUS
    <2>2. e.limit >= 0 /\ e.line_count >= 0
      BY <1>1, <1>2, Sizes DEF Tracks, Columns
    <2>3. /\ k \in Panes /\ k.mo = e.mo /\ k.buf_x = e.buf_x /\ k.buf_y = e.buf_y
          /\ k.limit = e.limit - 2
      BY <1>2, <2>1, <2>2, TakeBackPane
    <2> HIDE DEF k
    <2> QED BY <1>2, <2>3
  <1> HIDE DEF k
  <1>6. /\ b \in Panes /\ b.buf_x = k.buf_x /\ b.buf_y = k.buf_y /\ b.mo = k.mo
        /\ b.limit = k.limit + 1
    BY <1>5, BumpPane
  <1>7. Backspaced(p) = b
    <2>1. ~LineFull(p) /\ b.limit # COLS
      BY <1>1, <1>5, <1>6, Sizes DEF LineFull
    <2>2. Backspaced(p) = Wrapped(b)
      BY <2>1 DEF Backspaced, e, k
    <2> QED BY <1>6, <2>1, <2>2, WrappedPane
  <1> HIDE DEF b
  <1> QED BY <1>2, <1>4, <1>5, <1>6, <1>7

LEMMA ReleasedCells ==
  ASSUME NEW p \in Panes, Tracks(p)
  PROVE  LET q == Released(p) IN
         q.buf_x = p.buf_x /\ q.buf_y = p.buf_y /\ q.mo = p.mo
  <1> DEFINE k == TakeBack(p, 1)
             b == Bump(k)
  <1>1. /\ p.limit \in Int /\ p.line_count = p.limit /\ p.limit < COLS
        /\ p.limit >= 0
    BY Sizes DEF Tracks, OnScreen, Columns, Panes
  <1>3. /\ k \in Panes /\ k.mo = p.mo /\ k.buf_x = p.buf_x /\ k.buf_y = p.buf_y
        /\ k.limit = p.limit - 1
    <2>1. 1 \in Nat
      OBVIOUS
    <2> QED BY <1>1, <2>1, TakeBackPane
  <1> HIDE DEF k
  <1>4. /\ b \in Panes /\ b.buf_x = k.buf_x /\ b.buf_y = k.buf_y /\ b.mo = k.mo
        /\ b.limit = k.limit + 1
    BY <1>3, BumpPane
  <1>5. Released(p) = b
    <2>1. ~LineFull(p) /\ b.limit # COLS
      BY <1>1, <1>3, <1>4, Sizes DEF LineFull
    <2>2. Released(p) = Wrapped(b)
      BY <2>1 DEF Released, k
    <2> QED BY <1>4, <2>1, <2>2, WrappedPane
  <1> HIDE DEF b
  <1> QED BY <1>3, <1>4, <1>5

(* Enter puts its line end behind the cursor and goes to the row below; if  *)
(* the screen scrolls, the line goes up with the other rows.  Either way   *)
(* the row above the cursor has the line.                                  *)
LEMMA EnteredCells ==
  ASSUME NEW p \in Panes, Tracks(p)
  PROVE  LET q == Entered(p) IN
         /\ q.buf_x = 0 /\ q.buf_y \in 1 .. ROWS - 1 /\ q.line_count = 1
         /\ \A x \in 0 .. p.buf_x : p.mo[p.buf_y][x] # NL =>
              q.mo[q.buf_y - 1][x] = p.mo[p.buf_y][x]
  <1> DEFINE w == With(p, p.buf_y, p.buf_x + 1, NL)
             d == Down(w)
             n == NewLine(p)
             f == Counters(n, 0, 0)
             b == Bump(f)
             blank == [x \in Columns |-> Blank]
  <1>1. OnScreen(p) /\ p.buf_x \in Columns /\ p.buf_x + 1 \in 0 .. COLS
        /\ p.buf_y \in 0 .. ROWS - 1 /\ p.buf_y \in Rows
        /\ p.limit \in Int /\ p.line_count = p.limit /\ p.limit < COLS
    BY Sizes DEF Tracks, OnScreen, Columns, Panes, Rows
  <1>2. w \in Panes /\ w = [p EXCEPT !.mo = w.mo]
    BY <1>1, WithPane, CellFacts
  <1>3. w.buf_y = p.buf_y
    BY <1>2 DEF Panes
  <1>4. \A x \in 0 .. p.buf_x : x \in Columns /\ w.mo[p.buf_y][x] = p.mo[p.buf_y][x]
    BY <1>1, Sizes DEF w, With, Panes, Mo, Columns
  <1> HIDE DEF w
  <1>5. d \in Panes /\ d.buf_x = 0
    BY <1>1, <1>2, <1>3, DownPane
  <1>6. d.buf_y \in 1 .. ROWS - 1
        /\ \A x \in 0 .. p.buf_x : p.mo[p.buf_y][x] # NL =>
             d.mo[d.buf_y - 1][x] = p.mo[p.buf_y][x]
    <2>1. CASE p.buf_y # ROWS - 1
      <3>1. d = [w EXCEPT !.buf_x = 0, !.buf_y = w.buf_y + 1]
        BY <1>2, <1>3, <2>1 DEF Down, Panes
      <3>2. d.mo = w.mo /\ d.buf_y = p.buf_y + 1
        BY <1>2, <1>3, <3>1 DEF Panes
      <3> HIDE DEF d
      <3> QED BY <1>1, <1>4, <2>1, <3>2, Sizes
    <2>2. CASE p.buf_y = ROWS - 1
      <3>1. d = scroll_buf(w)
        BY <1>3, <2>2 DEF Down
      <3>2. d.buf_y = ROWS - 1 /\ ROWS - 2 \in Rows /\ ROWS - 2 # ROWS
            /\ ROWS - 2 # ROWS - 1 /\ (ROWS - 2) + 1 = ROWS - 1 /\ (ROWS - 1) - 1 = ROWS - 2
        BY <1>2, <3>1, ScrollPane, Sizes DEF Rows
      <3>3. \A x \in Columns :
              scroll_buf(w).mo[ROWS - 2][x] =
                IF w.mo[ROWS - 1][x] = NL THEN Blank ELSE w.mo[ROWS - 1][x]
        BY <1>2, <3>2 DEF scroll_buf, Panes
      <3> HIDE DEF d
      <3> QED BY <1>4, <2>2, <3>1, <3>2, <3>3, Sizes
    <2> QED BY <2>1, <2>2
  <1>7. n = [d EXCEPT !.mo = [d.mo EXCEPT ![d.buf_y] = blank]]
    BY <1>5 DEF NewLine, new_line, clear_buf_line, w, Panes
  <1> HIDE DEF d
  <1>8. /\ n.buf_x = 0 /\ n.buf_y = d.buf_y
        /\ n.mo = [d.mo EXCEPT ![d.buf_y] = blank]
    BY <1>5, <1>7 DEF Panes
  <1>9. n \in Panes
    BY <1>1, NewLinePane
  <1> HIDE DEF n
  <1>10. n.mo[n.buf_y - 1] = d.mo[d.buf_y - 1]
    <2>1. d.buf_y \in Rows /\ d.buf_y - 1 \in Rows /\ d.buf_y - 1 # d.buf_y
      BY <1>6, Sizes DEF Rows
    <2> QED BY <1>5, <1>8, <2>1 DEF Panes, Mo
  <1>11. /\ f \in Panes /\ f.mo = n.mo /\ f.buf_x = n.buf_x /\ f.buf_y = n.buf_y
         /\ f.limit = 0 /\ f.line_count = 0
    <2>1. 0 \in Int
      OBVIOUS
    <2> QED BY <1>9, <2>1, CountersPane
  <1> HIDE DEF f
  <1>12. /\ b \in Panes /\ b.buf_x = f.buf_x /\ b.buf_y = f.buf_y
         /\ b.limit = 1 /\ b.line_count = 1 /\ b.mo = f.mo
    <2>1. /\ b \in Panes /\ b.buf_x = f.buf_x /\ b.buf_y = f.buf_y
          /\ b.limit = f.limit + 1 /\ b.line_count = f.line_count + 1 /\ b.mo = f.mo
      BY <1>11, BumpPane
    <2> QED BY <1>11, <2>1
  <1>13. Entered(p) = b
    <2>1. ~LineFull(p) /\ b.limit # COLS
      BY <1>1, <1>12, Sizes DEF LineFull
    <2>2. Entered(p) = Wrapped(IF LineFull(p) THEN f ELSE Bump(f))
      BY Zenon DEF Entered, Counters, n, f
    <2> QED BY <1>12, <2>1, <2>2, WrappedPane
  <1> HIDE DEF b
  <1>14. b.buf_y = d.buf_y /\ b.mo[b.buf_y - 1] = d.mo[d.buf_y - 1]
    BY <1>8, <1>10, <1>11, <1>12
  <1> QED BY <1>6, <1>8, <1>11, <1>12, <1>13, <1>14

-----------------------------------------------------------------------------
(* A piece of a row as a sequence, and what the keys do to it.             *)
Text(m, y, a, b) == [k \in 1 .. b - a |-> m[y][a + k - 1]]

LEMMA TextSeq ==
  ASSUME NEW m \in Mo, NEW y \in Rows, NEW a \in Columns, NEW b \in Columns, a <= b
  PROVE  /\ Text(m, y, a, b) \in Seq(Cell)
         /\ Len(Text(m, y, a, b)) = b - a
         /\ \A k \in 1 .. b - a : Text(m, y, a, b)[k] = m[y][a + k - 1]
  <1>1. a \in Nat /\ b \in Nat /\ b - a \in Nat /\ b < COLS
    BY Sizes DEF Columns
  <1>2. \A k \in 1 .. b - a : m[y][a + k - 1] \in Cell
    <2> TAKE k \in 1 .. b - a
    <2>1. a + k - 1 \in Columns
      BY <1>1, Sizes DEF Columns
    <2> QED BY <2>1 DEF Mo
  <1>3. Text(m, y, a, b) = [k \in 1 .. b - a |-> m[y][a + k - 1]]
    BY DEF Text
  <1> DEFINE s == Text(m, y, a, b)
             n == b - a
  <1>4. s \in [1 .. n -> Cell] /\ n \in Nat
    BY <1>1, <1>2, <1>3
  <1>5. \A k \in 1 .. b - a : s[k] = m[y][a + k - 1]
    BY <1>3
  <1> HIDE DEF s, n
  <1>6. s \in Seq(Cell) /\ Len(s) = n
    BY <1>4
  <1> QED BY <1>5, <1>6 DEF s, n

LEMMA TextSame ==
  ASSUME NEW m \in Mo, NEW n \in Mo, NEW y \in Rows, NEW z \in Rows,
         NEW a \in Columns, NEW b \in Columns, a <= b,
         \A x \in a .. b - 1 : n[z][x] = m[y][x]
  PROVE  Text(n, z, a, b) = Text(m, y, a, b)
  <1>1. a \in Nat /\ b \in Nat
    BY DEF Columns
  <1>2. \A k \in 1 .. b - a : n[z][a + k - 1] = m[y][a + k - 1]
    BY <1>1
  <1> QED BY <1>2 DEF Text

LEMMA TextAppend ==
  ASSUME NEW m \in Mo, NEW n \in Mo, NEW y \in Rows,
         NEW a \in Columns, NEW b \in Columns, a <= b, b + 1 \in Columns,
         \A x \in a .. b - 1 : n[y][x] = m[y][x]
  PROVE  Text(n, y, a, b + 1) = Append(Text(m, y, a, b), n[y][b])
  <1> DEFINE s == Text(m, y, a, b)
             r == Text(n, y, a, b + 1)
  <1>1. a \in Nat /\ b \in Nat /\ b - a \in Nat /\ a <= b + 1 /\ (b + 1) - a = b - a + 1
    BY DEF Columns
  <1>2. /\ s \in Seq(Cell) /\ Len(s) = b - a
        /\ \A k \in 1 .. b - a : s[k] = m[y][a + k - 1]
    BY TextSeq
  <1>3. /\ r \in Seq(Cell) /\ Len(r) = b - a + 1
        /\ \A k \in 1 .. b - a + 1 : r[k] = n[y][a + k - 1]
    BY <1>1, TextSeq
  <1>4. n[y][b] \in Cell
    BY DEF Mo
  <1> HIDE DEF s, r
  <1>5. /\ Append(s, n[y][b]) \in Seq(Cell)
        /\ Len(Append(s, n[y][b])) = b - a + 1
        /\ \A k \in 1 .. b - a : Append(s, n[y][b])[k] = s[k]
        /\ Append(s, n[y][b])[b - a + 1] = n[y][b]
    BY <1>1, <1>2, <1>4, AppendProperties
  <1>6. \A k \in 1 .. b - a + 1 : r[k] = Append(s, n[y][b])[k]
    <2> TAKE k \in 1 .. b - a + 1
    <2>1. CASE k = b - a + 1
      BY <1>1, <1>3, <1>5, <2>1
    <2>2. CASE k # b - a + 1
      <3>1. k \in 1 .. b - a /\ a + k - 1 \in a .. b - 1
        BY <1>1, <2>2
      <3> QED BY <1>2, <1>3, <1>5, <3>1
    <2> QED BY <2>1, <2>2
  <1>7. r = Append(s, n[y][b])
    BY <1>1, <1>3, <1>5, <1>6, SeqEqual
  <1> QED BY <1>7 DEF s, r

LEMMA TextErase ==
  ASSUME NEW m \in Mo, NEW n \in Mo, NEW y \in Rows,
         NEW a \in Columns, NEW b \in Columns, a < b,
         \A x \in a .. b - 2 : n[y][x] = m[y][x]
  PROVE  /\ Text(m, y, a, b) # <<>>
         /\ Text(n, y, a, b - 1)
              = SubSeq(Text(m, y, a, b), 1, Len(Text(m, y, a, b)) - 1)
  <1> DEFINE s == Text(m, y, a, b)
             r == Text(n, y, a, b - 1)
             l == b - a - 1
  <1>1. /\ a \in Nat /\ b \in Nat /\ l \in Nat /\ a <= b - 1 /\ (b - 1) - a = l
        /\ b - 1 \in Columns /\ b - a = l + 1
    BY Sizes DEF Columns
  <1>2. /\ s \in Seq(Cell) /\ Len(s) = l + 1
        /\ \A k \in 1 .. l + 1 : s[k] = m[y][a + k - 1]
    BY <1>1, TextSeq
  <1>3. /\ r \in Seq(Cell) /\ Len(r) = l
        /\ \A k \in 1 .. l : r[k] = n[y][a + k - 1]
    <2>1. /\ r \in Seq(Cell) /\ Len(r) = (b - 1) - a
          /\ \A k \in 1 .. (b - 1) - a : r[k] = n[y][a + k - 1]
      <3>1. b - 1 \in Columns /\ a <= b - 1
        BY <1>1
      <3> QED BY <3>1, TextSeq
    <2> HIDE DEF r, l
    <2> QED BY <1>1, <2>1
  <1>4. \A k \in 1 .. l : a + k - 1 \in a .. b - 2
    BY <1>1
  <1> HIDE DEF s, r, l
  <1>5. 1 \in Int /\ l \in Int /\ \A k \in 1 .. l : s[k] \in Cell
    BY <1>1, <1>2
  <1>6. /\ SubSeq(s, 1, l) \in Seq(Cell) /\ Len(SubSeq(s, 1, l)) = l
        /\ \A k \in 1 .. l : SubSeq(s, 1, l)[k] = s[k]
    <2>1. /\ SubSeq(s, 1, l) \in Seq(Cell)
          /\ Len(SubSeq(s, 1, l)) = IF 1 <= l THEN l - 1 + 1 ELSE 0
          /\ \A k \in 1 .. l - 1 + 1 : SubSeq(s, 1, l)[k] = s[1 + k - 1]
      BY <1>5, SubSeqProperties
    <2> QED BY <1>1, <2>1
  <1>7. \A k \in 1 .. l : r[k] = SubSeq(s, 1, l)[k]
    <2> TAKE k \in 1 .. l
    <2>1. k \in 1 .. l + 1 /\ a + k - 1 \in a .. b - 2
      BY <1>1, <1>4
    <2>2. r[k] = n[y][a + k - 1] /\ s[k] = m[y][a + k - 1]
      BY <1>2, <1>3, <2>1
    <2> QED BY <1>6, <2>1, <2>2
  <1>8. r = SubSeq(s, 1, l)
    BY <1>1, <1>3, <1>6, <1>7, SeqEqual
  <1>9. s # <<>> /\ Len(s) - 1 = l
    BY <1>1, <1>2
  <1>10. s # <<>> /\ r = SubSeq(s, 1, Len(s) - 1)
    BY <1>8, <1>9
  <1> QED BY <1>10, Zenon DEF s, r

-----------------------------------------------------------------------------
(* The invariant of the lines.  The text of a waiting read stands in one    *)
(* row of its screen, has no line end in it and none behind it; only a      *)
(* terminal that reads has had its Enter; and what has been read, with the  *)
(* line about to be, does not come to MAXREAD characters, which would end   *)
(* a read that is still waiting.                                            *)
LineSound(t) ==
  /\ LineRow(t) \in 0 .. ROWS - 1
  /\ LineEnd(t) \in Columns
  /\ cmd_start[t] <= LineEnd(t)
  /\ \A x \in cmd_start[t] .. LineEnd(t) : screens[t].mo[LineRow(t)][x] # NL

LinesSound == \A t \in Term : Reading(t) => LineSound(t)
EnterIsAwaited == enter_press = 1 => Reading(screen_num)
CountedWith(t) == HasEntered(t) => length + (LineEnd(t) - cmd_start[t]) # MAXREAD
Counted == length # MAXREAD /\ \A t \in Term : CountedWith(t)

LineInv == CleanInv /\ LinesSound /\ EnterIsAwaited /\ Counted

LEMMA LineOfText ==
  ASSUME NEW t \in Term
  PROVE  /\ Reading(t) =>
              LineOf(t) = Text(screens[t].mo, LineRow(t), cmd_start[t], LineEnd(t))
         /\ ~Reading(t) => LineOf(t) = <<>>
         /\ Reading(t)' =>
              LineOf(t)' = Text(screens'[t].mo, LineRow(t)', cmd_start'[t], LineEnd(t)')
         /\ ~Reading(t)' => LineOf(t)' = <<>>
  BY DEF LineOf, Text

(* What a step that has nothing to do with the line of terminal t keeps.   *)
Same(t) == /\ Reading(t)' <=> Reading(t)
           /\ HasEntered(t)' <=> HasEntered(t)
           /\ Reading(t) => /\ screens'[t].mo = screens[t].mo
                            /\ cmd_start'[t] = cmd_start[t]
                            /\ LineRow(t)' = LineRow(t)
                            /\ LineEnd(t)' = LineEnd(t)

LEMMA SameLine ==
  ASSUME NEW t \in Term, Same(t)
  PROVE  /\ LineOf(t)' = LineOf(t)
         /\ (Reading(t) => LineSound(t)) => (Reading(t)' => LineSound(t)')
  <1>1. LineOf(t)' = LineOf(t)
    BY LineOfText DEF Same
  <1>2. ASSUME Reading(t), LineSound(t) PROVE LineSound(t)'
    BY <1>2 DEF Same, LineSound
  <1> QED BY <1>1, <1>2 DEF Same

(* A terminal that is not shown, and that the step leaves alone.           *)
LEMMA HiddenSame ==
  ASSUME NEW t \in Term, t # screen_num, screen_num' = screen_num,
         components' = components, screens'[t].mo = screens[t].mo,
         prog'[t] = prog[t], cmd_start'[t] = cmd_start[t]
  PROVE  Same(t)
  BY DEF Same, Reading, HasEntered, LineRow, LineEnd, CursorOf

LEMMA SameCount ==
  ASSUME NEW t \in Term, Same(t), length' = length, CountedWith(t)
  PROVE  CountedWith(t)'
  BY DEF Same, CountedWith, HasEntered

LEMMA ChangedAt ==
  ASSUME NEW S, NEW f, NEW g, f = [t \in S |-> f[t]], g = [t \in S |-> g[t]],
         NEW u \in S, \A t \in S : t # u => g[t] = f[t]
  PROVE  /\ g = [f EXCEPT ![u] = g[u]]
         /\ g[u] = f[u] => g = f
  <1>1. g = [t \in S |-> IF t = u THEN g[u] ELSE f[t]]
    OBVIOUS
  <1>2. g = [f EXCEPT ![u] = g[u]]
    BY <1>1
  <1>3. ASSUME g[u] = f[u] PROVE g = f
    BY <1>3
  <1> QED BY <1>2, <1>3

(* The terminals as TypedLines.                                            *)
Waiting == [t \in Term |-> Reading(t)]
Entering == [t \in Term |-> HasEntered(t)]
LinesOn == [t \in Term |-> LineOf(t)]

LEMMA OneLine ==
  ASSUME NEW u \in Term, \A t \in Term : t # u => Same(t)
  PROVE  /\ Reading(u)' => Waiting' = [Waiting EXCEPT ![u] = TRUE]
         /\ ~Reading(u)' => Waiting' = [Waiting EXCEPT ![u] = FALSE]
         /\ (Reading(u)' <=> Reading(u)) => Waiting' = Waiting
         /\ HasEntered(u)' => Entering' = [Entering EXCEPT ![u] = TRUE]
         /\ ~HasEntered(u)' => Entering' = [Entering EXCEPT ![u] = FALSE]
         /\ (HasEntered(u)' <=> HasEntered(u)) => Entering' = Entering
         /\ LinesOn' = [LinesOn EXCEPT ![u] = LineOf(u)']
         /\ LineOf(u)' = LineOf(u) => LinesOn' = LinesOn
  <1>1. \A t \in Term : /\ t # u => (Reading(t)' <=> Reading(t))
                        /\ t # u => (HasEntered(t)' <=> HasEntered(t))
                        /\ t # u => LineOf(t)' = LineOf(t)
    BY SameLine DEF Same
  <1>2. \A t \in Term :
          /\ Reading(t)' => Waiting'[t] = TRUE
          /\ ~Reading(t)' => Waiting'[t] = FALSE
          /\ (Reading(t)' <=> Reading(t)) => Waiting'[t] = Waiting[t]
    BY Zenon DEF Waiting, Reading
  <1>3. \A t \in Term :
          /\ HasEntered(t)' => Entering'[t] = TRUE
          /\ ~HasEntered(t)' => Entering'[t] = FALSE
          /\ (HasEntered(t)' <=> HasEntered(t)) => Entering'[t] = Entering[t]
    BY Zenon DEF Entering, HasEntered
  <1>4. /\ Waiting' = [Waiting EXCEPT ![u] = Waiting'[u]]
        /\ Waiting'[u] = Waiting[u] => Waiting' = Waiting
    <2>1. Waiting = [t \in Term |-> Waiting[t]] /\ Waiting' = [t \in Term |-> Waiting'[t]]
      BY Zenon DEF Waiting
    <2>2. \A t \in Term : t # u => Waiting'[t] = Waiting[t]
      BY <1>1, <1>2, Zenon
    <2> QED BY <2>1, <2>2, ChangedAt
  <1>5. /\ Entering' = [Entering EXCEPT ![u] = Entering'[u]]
        /\ Entering'[u] = Entering[u] => Entering' = Entering
    <2>1. Entering = [t \in Term |-> Entering[t]] /\ Entering' = [t \in Term |-> Entering'[t]]
      BY Zenon DEF Entering
    <2>2. \A t \in Term : t # u => Entering'[t] = Entering[t]
      BY <1>1, <1>3, Zenon
    <2> QED BY <2>1, <2>2, ChangedAt
  <1>6. /\ LinesOn' = [LinesOn EXCEPT ![u] = LinesOn'[u]]
        /\ LinesOn'[u] = LinesOn[u] => LinesOn' = LinesOn
    <2>1. LinesOn = [t \in Term |-> LinesOn[t]] /\ LinesOn' = [t \in Term |-> LinesOn'[t]]
      BY Zenon DEF LinesOn
    <2>2. \A t \in Term : t # u => LinesOn'[t] = LinesOn[t]
      BY <1>1, Zenon DEF LinesOn
    <2> QED BY <2>1, <2>2, ChangedAt
  <1>7. LinesOn'[u] = LineOf(u)' /\ LinesOn[u] = LineOf(u)
    BY Zenon DEF LinesOn
  <1> QED BY <1>2, <1>3, <1>4, <1>5, <1>6, <1>7, Zenon

LEMMA NoLine ==
  ASSUME \A t \in Term : Same(t), got' = got
  PROVE  UNCHANGED Lines!lineVars
  <1>1. 0 \in Term
    BY Sizes DEF Term
  <1>2. Same(0)
    BY <1>1
  <1>3. LineOf(0)' = LineOf(0)
    BY <1>1, <1>2, SameLine
  <1>4. Waiting' = Waiting /\ Entering' = Entering /\ LinesOn' = LinesOn
    BY <1>1, <1>2, <1>3, OneLine, Zenon DEF Same
  <1> QED BY <1>4, Zenon DEF Lines!lineVars, Waiting, Entering, LinesOn

(* A step that leaves every line alone.                                    *)
LEMMA QuietStep ==
  ASSUME LineInv, CleanInv', \A t \in Term : Same(t), got' = got, length' = length,
         EnterIsAwaited'
  PROVE  LineInv' /\ UNCHANGED Lines!lineVars
  <1>1. LinesSound'
    BY SameLine DEF LineInv, LinesSound
  <1>2. Counted'
    BY SameCount DEF LineInv, Counted
  <1> QED BY <1>1, <1>2, NoLine DEF LineInv

(* A step on the line of the terminal shown, when it reads.                *)
LEMMA LineStep ==
  ASSUME LineInv, CleanInv', NEW u \in Term, Reading(u), Reading(u)', LineSound(u)',
         CountedWith(u)',
         \A t \in Term : t # u => Same(t), length' = length, EnterIsAwaited'
  PROVE  LineInv'
  <1>1. LinesSound'
    BY SameLine DEF LineInv, LinesSound
  <1>2. Counted'
    BY SameCount DEF LineInv, Counted
  <1> QED BY <1>1, <1>2 DEF LineInv

-----------------------------------------------------------------------------
(* What the keys do to the lines.                                          *)
LineChange == LineInv' /\ [Lines!LineNext]_(Lines!lineVars)

LEMMA LineKey ==
  ASSUME LineInv, NEW p \in Panes, NEW e \in 0 .. 1, Key(p, e),
         NEW u \in Term, u = screen_num
  PROVE  /\ screen_num' = u
         /\ screens[u].mo \in Mo
         /\ Shown \in Panes /\ Tracks(Shown) /\ BlankAhead(Shown)
         /\ Shown.mo = screens[u].mo
         /\ Shown.buf_x = cursor.buf_x /\ Shown.buf_y = cursor.buf_y
         /\ Shown.limit = cursor.limit /\ Shown.line_count = cursor.line_count
         /\ screens'[u].mo = p.mo
         /\ cursor'.buf_x = p.buf_x /\ cursor'.buf_y = p.buf_y
         /\ enter_press' = e
         /\ prog' = prog /\ cmd_start' = cmd_start /\ cmd_end' = cmd_end
         /\ length' = length /\ got' = got
         /\ \A t \in Term : t # u => Same(t)
         /\ "look" \in Discipline /\ Reading(u) =>
              enter_press = 0 /\ cmd_end[u] = cursor.buf_x
  <1>1. TypeOK
    BY DEF LineInv, CleanInv, CountInv, TypeOK
  <1>2. /\ screens[u].mo \in Mo /\ Shown \in Panes
        /\ Shown.mo = screens[u].mo
        /\ Shown.buf_x = cursor.buf_x /\ Shown.buf_y = cursor.buf_y
        /\ Shown.limit = cursor.limit /\ Shown.line_count = cursor.line_count
    BY <1>1, PaneType DEF Shown, TypeOK, Mo
  <1>3. Tracks(Shown)
    BY <1>2 DEF LineInv, CleanInv, CountInv, Tracks, OnScreen
  <1>4. BlankAhead(Shown)
    BY ShownClean DEF LineInv, Shown
  <1>5. /\ Show(u, p) /\ enter_press' = e
        /\ screen_num' = u /\ components' = components
        /\ prog' = prog /\ cmd_start' = cmd_start /\ cmd_end' = cmd_end
        /\ length' = length /\ got' = got
    BY DEF Key, readVars
  <1>6. /\ screens'[u].mo = p.mo
        /\ cursor'.buf_x = p.buf_x /\ cursor'.buf_y = p.buf_y
        /\ \A t \in Term : t # u => screens'[t] = screens[t]
    BY <1>1, <1>5, ShowType
  <1>7. \A t \in Term : t # u => Same(t)
    BY <1>5, <1>6, HiddenSame
  <1>8. "look" \in Discipline /\ Reading(u) =>
          enter_press = 0 /\ cmd_end[u] = cursor.buf_x
    BY DEF Key, Looked, Kept
  <1> QED BY <1>1, <1>2, <1>3, <1>4, <1>5, <1>6, <1>7, <1>8

(* A key on a terminal whose program does not read.                        *)
LEMMA UnreadKey ==
  ASSUME LineInv, CleanInv', NEW p \in Panes, Key(p, 0), ~Reading(screen_num)
  PROVE  LineChange
  <1>1. PICK u \in Term : u = screen_num
    BY DEF LineInv, CleanInv, CountInv, TypeOK
  <1>2. 0 \in 0 .. 1
    OBVIOUS
  <1>3. /\ screen_num' = u /\ enter_press' = 0 /\ prog' = prog
        /\ length' = length /\ got' = got
        /\ \A t \in Term : t # u => Same(t)
    BY <1>1, <1>2, LineKey
  <1>4. Same(u)
    BY <1>1, <1>3 DEF Same, HasEntered, Reading
  <1>5. EnterIsAwaited'
    BY <1>3 DEF EnterIsAwaited
  <1> QED BY <1>3, <1>4, <1>5, QuietStep DEF LineChange

(* The line of the terminal shown as text of a pane.                       *)
LEMMA ShownLine ==
  ASSUME LineInv, NEW u \in Term, u = screen_num, Reading(u), enter_press = 0
  PROVE  /\ ~HasEntered(u) /\ LineRow(u) = Shown.buf_y /\ LineEnd(u) = Shown.buf_x
         /\ Shown.buf_y \in 0 .. ROWS - 1 /\ Shown.buf_y \in Rows
         /\ Shown.buf_x \in Columns /\ Shown.buf_x \in Nat
         /\ cmd_start[u] \in Columns /\ cmd_start[u] \in Nat
         /\ cmd_start[u] <= Shown.buf_x
         /\ \A x \in cmd_start[u] .. Shown.buf_x : Shown.mo[Shown.buf_y][x] # NL
         /\ LineOf(u) = Text(Shown.mo, Shown.buf_y, cmd_start[u], Shown.buf_x)
  <1>1. TypeOK /\ LineSound(u) /\ cmd_start[u] \in Columns
    BY DEF LineInv, CleanInv, CountInv, TypeOK, LinesSound
  <1>2. /\ Shown.mo = screens[u].mo
        /\ Shown.buf_x = cursor.buf_x /\ Shown.buf_y = cursor.buf_y
    BY <1>1, PaneType DEF Shown
  <1>3. ~HasEntered(u) /\ LineRow(u) = Shown.buf_y /\ LineEnd(u) = Shown.buf_x
    BY <1>2 DEF HasEntered, LineRow, LineEnd, CursorOf
  <1>4. LineOf(u) = Text(Shown.mo, Shown.buf_y, cmd_start[u], Shown.buf_x)
    BY <1>2, <1>3, LineOfText
  <1> QED BY <1>1, <1>2, <1>3, <1>4, Sizes DEF LineSound, Columns, Rows

(* ... and after a key.                                                    *)
LEMMA KeptLine ==
  ASSUME LineInv, NEW u \in Term, u = screen_num, Reading(u), enter_press = 0,
         NEW q \in Panes, Key(q, 0)
  PROVE  /\ Reading(u)' /\ ~HasEntered(u)' /\ cmd_start'[u] = cmd_start[u]
         /\ LineOf(u)' = Text(q.mo, q.buf_y, cmd_start[u], q.buf_x)
         /\ EnterIsAwaited'
         /\ /\ q.buf_y \in 0 .. ROWS - 1 /\ q.buf_x \in Columns
            /\ cmd_start[u] <= q.buf_x
            /\ \A x \in cmd_start[u] .. q.buf_x : q.mo[q.buf_y][x] # NL
            => LineSound(u)'
  <1>1. 0 \in 0 .. 1
    OBVIOUS
  <1>2. /\ screen_num' = u /\ enter_press' = 0 /\ prog' = prog /\ cmd_start' = cmd_start
        /\ screens'[u].mo = q.mo /\ cursor'.buf_x = q.buf_x /\ cursor'.buf_y = q.buf_y
    BY <1>1, LineKey
  <1>3. /\ Reading(u)' /\ ~HasEntered(u)'
        /\ LineRow(u)' = q.buf_y /\ LineEnd(u)' = q.buf_x
    BY <1>2 DEF Reading, HasEntered, LineRow, LineEnd, CursorOf
  <1>4. LineOf(u)' = Text(q.mo, q.buf_y, cmd_start[u], q.buf_x)
    BY <1>2, <1>3, LineOfText
  <1>5. EnterIsAwaited'
    BY <1>2 DEF EnterIsAwaited
  <1> QED BY <1>2, <1>3, <1>4, <1>5 DEF LineSound

LEMMA TypedLine ==
  ASSUME {"short", "look"} \subseteq Discipline, LineInv, CleanInv',
         NEW c \in Chars \cup {Nul}, Short, Key(Typed(Shown, c), 0)
  PROVE  LineChange
  <1> DEFINE p == Shown
             q == Typed(p, c)
  <1>1. PICK u \in Term : u = screen_num
    BY DEF LineInv, CleanInv, CountInv, TypeOK
  <1>2. /\ p \in Panes /\ OnScreen(p) /\ c \in Cell /\ c # NL /\ p.limit = cursor.limit
    BY CellFacts, CharAssumption, PaneType DEF LineInv, CleanInv, CountInv, TypeOK, Shown, Key
  <1>3. q \in Panes
    BY <1>2, TypedPane
  <1>4. CASE ~Reading(u)
    <2> HIDE DEF q
    <2> QED BY <1>1, <1>3, <1>4, UnreadKey DEF q
  <1>5. CASE Reading(u)
    <2> DEFINE a == cmd_start[u]
               b == p.buf_x
               y == p.buf_y
    <2>1. /\ p.mo \in Mo /\ Tracks(p) /\ BlankAhead(p)
          /\ length' = length /\ got' = got
          /\ \A t \in Term : t # u => Same(t)
          /\ enter_press = 0
      <3>1. 0 \in 0 .. 1
        OBVIOUS
      <3> HIDE DEF q
      <3>2. p.mo \in Mo
        BY <1>2 DEF Panes
      <3> QED BY <1>1, <1>3, <1>5, <3>1, <3>2, LineKey DEF q
    <2>2. p.limit < COLS - 1
      BY <1>2 DEF Short, Kept
    <2>3. /\ q.buf_x = b + 1 /\ q.buf_y = y
          /\ \A i \in Rows, z \in Columns :
               q.mo[i][z] = IF i = y /\ z = b THEN c ELSE p.mo[i][z]
      BY <1>2, <2>1, <2>2, TypedCells
    <2>4. b + 1 \in Columns /\ q.mo \in Mo
      BY <1>3, <2>1, <2>2, Sizes DEF Tracks, OnScreen, Columns, Panes
    <2>5. /\ ~HasEntered(u) /\ y \in 0 .. ROWS - 1 /\ y \in Rows
          /\ b \in Columns /\ b \in Nat /\ a \in Columns /\ a \in Nat /\ a <= b
          /\ \A x \in a .. b : p.mo[y][x] # NL
          /\ LineOf(u) = Text(p.mo, y, a, b)
      BY <1>1, <1>5, <2>1, ShownLine
    <2>6. /\ Reading(u)' /\ ~HasEntered(u)' /\ EnterIsAwaited'
          /\ LineOf(u)' = Text(q.mo, y, a, b + 1)
          /\ (\A x \in a .. b + 1 : q.mo[y][x] # NL) => LineSound(u)'
      <3> HIDE DEF q
      <3>1. /\ Reading(u)' /\ ~HasEntered(u)' /\ EnterIsAwaited'
            /\ LineOf(u)' = Text(q.mo, q.buf_y, a, q.buf_x)
            /\ /\ q.buf_y \in 0 .. ROWS - 1 /\ q.buf_x \in Columns /\ a <= q.buf_x
               /\ \A x \in a .. q.buf_x : q.mo[q.buf_y][x] # NL
               => LineSound(u)'
        BY <1>1, <1>3, <1>5, <2>1, KeptLine DEF q
      <3> HIDE DEF p, a, b, y
      <3>2. a <= b + 1
        BY <2>5
      <3> QED BY <2>3, <2>4, <2>5, <3>1, <3>2
    <2>7. p.mo[y][b + 1] = Blank
      BY <2>1, <2>4, <2>5, Sizes DEF BlankAhead
    <2> HIDE DEF p, q, a, b, y
    <2>8. /\ q.mo[y][b] = c
          /\ \A x \in a .. b - 1 : q.mo[y][x] = p.mo[y][x]
          /\ q.mo[y][b + 1] = Blank
      <3>1. \A x \in a .. b - 1 : x \in Columns /\ x # b
        BY <2>5, Sizes DEF Columns
      <3> QED BY <2>3, <2>4, <2>5, <2>7, <3>1
    <2>9. \A x \in a .. b + 1 : q.mo[y][x] # NL
      <3> TAKE x \in a .. b + 1
      <3>1. x \in a .. b - 1 \/ x = b \/ x = b + 1
        BY <2>5
      <3>2. x \in a .. b - 1 => x \in a .. b
        BY <2>5
      <3> QED BY <1>2, <2>5, <2>8, <3>1, <3>2, CharAssumption
    <2>10. LineOf(u)' = Append(LineOf(u), c)
      <3>1. Text(q.mo, y, a, b + 1) = Append(Text(p.mo, y, a, b), q.mo[y][b])
        <4>1. /\ p.mo \in Mo /\ q.mo \in Mo /\ y \in Rows /\ a \in Columns /\ b \in Columns
              /\ a <= b /\ b + 1 \in Columns /\ \A x \in a .. b - 1 : q.mo[y][x] = p.mo[y][x]
          BY <2>1, <2>4, <2>5, <2>8
        <4> QED BY <4>1, TextAppend, Z3
      <3> QED BY <2>5, <2>6, <2>8, <3>1, Zenon
    <2>11. LineInv'
      <3>1. LineSound(u)'
        BY <2>6, <2>9
      <3>2. CountedWith(u)'
        BY <2>6 DEF CountedWith
      <3> QED BY <1>5, <2>1, <2>6, <3>1, <3>2, LineStep, Zenon
    <2>12. Lines!TypeKey(u, c)
      <3>1. /\ Waiting' = Waiting /\ Entering' = Entering
            /\ LinesOn' = [LinesOn EXCEPT ![u] = Append(LineOf(u), c)]
        BY <1>5, <2>1, <2>5, <2>6, <2>10, OneLine, Zenon
      <3>2. Waiting[u] = TRUE /\ ~Entering[u] /\ LinesOn[u] = LineOf(u)
        BY <1>5, <2>5, Zenon DEF Waiting, Entering, LinesOn, Reading
      <3> QED BY <2>1, <3>1, <3>2, Zenon DEF Lines!TypeKey, Waiting, Entering, LinesOn
    <2>13. Lines!LineNext
      BY <2>12 DEF Lines!LineNext
    <2> QED BY <2>11, <2>13 DEF LineChange
  <1> QED BY <1>4, <1>5

LEMMA BackspacedLine ==
  ASSUME {"erase", "look"} \subseteq Discipline, LineInv, CleanInv',
         Erasable, Key(Backspaced(Shown), 0)
  PROVE  LineChange
  <1> DEFINE p == Shown
             q == Backspaced(p)
  <1>1. PICK u \in Term : u = screen_num
    BY DEF LineInv, CleanInv, CountInv, TypeOK
  <1>2. /\ p \in Panes /\ OnScreen(p)
        /\ p.line_count > 0 /\ p.buf_x > 0 /\ PrintedBefore(p) = 0
        /\ Reading(u) => cmd_start[u] < p.buf_x
    <2>1. /\ cursor.line_count > 0 /\ cursor.buf_x > 0 /\ PrintedBefore(p) = 0
          /\ Reading(u) => cursor.buf_x > cmd_start[u]
      BY <1>1 DEF Erasable, Kept
    <2> QED BY <1>1, <2>1, PaneType DEF LineInv, CleanInv, CountInv, TypeOK, Shown, Key
  <1>3. q \in Panes
    BY <1>2, BackspacedPane
  <1>4. CASE ~Reading(u)
    <2> HIDE DEF q
    <2> QED BY <1>1, <1>3, <1>4, UnreadKey DEF q
  <1>5. CASE Reading(u)
    <2> DEFINE a == cmd_start[u]
               b == p.buf_x
               y == p.buf_y
    <2>1. /\ p.mo \in Mo /\ Tracks(p) /\ BlankAhead(p)
          /\ length' = length /\ got' = got
          /\ \A t \in Term : t # u => Same(t)
          /\ enter_press = 0
      <3>1. 0 \in 0 .. 1
        OBVIOUS
      <3> HIDE DEF q
      <3>2. p.mo \in Mo
        BY <1>2 DEF Panes
      <3> QED BY <1>1, <1>3, <1>5, <3>1, <3>2, LineKey DEF q
    <2>2. /\ q.buf_x = b - 1 /\ q.buf_y = y
          /\ \A i \in Rows, z \in Columns :
               ~(i = y /\ z = b - 1) => q.mo[i][z] = p.mo[i][z]
      BY <1>2, <2>1, BackspacedCells
    <2>3. BlankAhead(q) /\ q.mo \in Mo
      BY <1>2, <1>3, <2>1, BackspacedPane DEF Panes
    <2>4. /\ ~HasEntered(u) /\ y \in 0 .. ROWS - 1 /\ y \in Rows
          /\ b \in Columns /\ b \in Nat /\ a \in Columns /\ a \in Nat /\ a <= b
          /\ \A x \in a .. b : p.mo[y][x] # NL
          /\ LineOf(u) = Text(p.mo, y, a, b)
      BY <1>1, <1>5, <2>1, ShownLine
    <2>5. a < b
      BY <1>2, <1>5
    <2>6. /\ Reading(u)' /\ ~HasEntered(u)' /\ EnterIsAwaited'
          /\ LineOf(u)' = Text(q.mo, y, a, b - 1)
          /\ (\A x \in a .. b - 1 : q.mo[y][x] # NL) => LineSound(u)'
      <3> HIDE DEF q
      <3>1. /\ Reading(u)' /\ ~HasEntered(u)' /\ EnterIsAwaited'
            /\ LineOf(u)' = Text(q.mo, q.buf_y, a, q.buf_x)
            /\ /\ q.buf_y \in 0 .. ROWS - 1 /\ q.buf_x \in Columns /\ a <= q.buf_x
               /\ \A x \in a .. q.buf_x : q.mo[q.buf_y][x] # NL
               => LineSound(u)'
        BY <1>1, <1>3, <1>5, <2>1, KeptLine DEF q
      <3> HIDE DEF p, a, b, y
      <3>2. a <= b - 1 /\ b - 1 \in Columns
        BY <2>4, <2>5, Sizes DEF Columns
      <3> QED BY <2>2, <2>4, <3>1, <3>2
    <2>7. q.mo[y][b - 1] = Blank
      <3>1. b - 1 \in Columns /\ y \in y .. ROWS - 1
        BY <2>4, <2>5, Sizes DEF Columns
      <3>2. b - 1 >= b - 1
        BY <2>4
      <3> HIDE DEF q, p, y, b
      <3> QED BY <2>2, <2>3, <3>1, <3>2 DEF BlankAhead
    <2> HIDE DEF p, q, a, b, y
    <2>8. \A x \in a .. b - 2 : q.mo[y][x] = p.mo[y][x]
      <3>1. \A x \in a .. b - 2 : x \in Columns /\ x # b - 1
        BY <2>4, Sizes DEF Columns
      <3> QED BY <2>2, <2>4, <3>1
    <2>9. \A x \in a .. b - 1 : q.mo[y][x] # NL
      <3> TAKE x \in a .. b - 1
      <3>1. x \in a .. b /\ (x \in a .. b - 2 \/ x = b - 1)
        BY <2>4
      <3> QED BY <2>4, <2>7, <2>8, <3>1, CharAssumption
    <2>10. /\ LineOf(u) # <<>>
           /\ LineOf(u)' = SubSeq(LineOf(u), 1, Len(LineOf(u)) - 1)
      <3>1. /\ Text(p.mo, y, a, b) # <<>>
            /\ Text(q.mo, y, a, b - 1)
                 = SubSeq(Text(p.mo, y, a, b), 1, Len(Text(p.mo, y, a, b)) - 1)
        <4>1. /\ p.mo \in Mo /\ q.mo \in Mo /\ y \in Rows /\ a \in Columns /\ b \in Columns
              /\ a < b /\ \A x \in a .. b - 2 : q.mo[y][x] = p.mo[y][x]
          BY <2>1, <2>3, <2>4, <2>5, <2>8
        <4> QED BY <4>1, TextErase, ZenonT(30)
      <3> QED BY <2>4, <2>6, <3>1, Zenon
    <2>11. LineInv'
      <3>1. LineSound(u)'
        BY <2>6, <2>9
      <3>2. CountedWith(u)'
        BY <2>6 DEF CountedWith
      <3> QED BY <1>5, <2>1, <2>6, <3>1, <3>2, LineStep, Zenon
    <2>12. Lines!Erase(u)
      <3>1. /\ Waiting' = Waiting /\ Entering' = Entering
            /\ LinesOn' = [LinesOn EXCEPT ![u] = SubSeq(LineOf(u), 1, Len(LineOf(u)) - 1)]
        BY <1>5, <2>1, <2>4, <2>6, <2>10, OneLine, Zenon
      <3>2. /\ Waiting[u] = TRUE /\ ~Entering[u] /\ LinesOn[u] = LineOf(u)
            /\ LinesOn[u] # <<>>
        BY <1>5, <2>4, <2>10, Zenon DEF Waiting, Entering, LinesOn, Reading
      <3> QED BY <2>1, <3>1, <3>2, Zenon DEF Lines!Erase, Waiting, Entering, LinesOn
    <2>13. Lines!LineNext
      BY <2>12 DEF Lines!LineNext
    <2> QED BY <2>11, <2>13 DEF LineChange
  <1> QED BY <1>4, <1>5

LEMMA ReleasedLine ==
  ASSUME "look" \in Discipline, LineInv, CleanInv', Key(Released(Shown), 0)
  PROVE  LineChange
  <1> DEFINE p == Shown
             q == Released(p)
  <1>1. PICK u \in Term : u = screen_num
    BY DEF LineInv, CleanInv, CountInv, TypeOK
  <1>2. p \in Panes /\ OnScreen(p)
    BY <1>1, PaneType DEF LineInv, CleanInv, CountInv, TypeOK, Shown, Key
  <1>3. q \in Panes
    BY <1>2, ReleasedPane
  <1>4. CASE ~Reading(u)
    <2> HIDE DEF q
    <2> QED BY <1>1, <1>3, <1>4, UnreadKey DEF q
  <1>5. CASE Reading(u)
    <2>1. /\ p.mo = screens[u].mo /\ p.buf_x = cursor.buf_x /\ p.buf_y = cursor.buf_y
          /\ screen_num' = u /\ screens'[u].mo = q.mo
          /\ cursor'.buf_x = q.buf_x /\ cursor'.buf_y = q.buf_y
          /\ enter_press' = 0 /\ prog' = prog /\ cmd_start' = cmd_start
          /\ Tracks(p) /\ length' = length /\ got' = got
          /\ \A t \in Term : t # u => Same(t)
          /\ enter_press = 0
      <3>1. 0 \in 0 .. 1
        OBVIOUS
      <3> HIDE DEF q
      <3> QED BY <1>1, <1>3, <1>5, <3>1, LineKey DEF q
    <2>2. q.buf_x = p.buf_x /\ q.buf_y = p.buf_y /\ q.mo = p.mo
      BY <1>2, <2>1, ReleasedCells
    <2> HIDE DEF p, q
    <2>3. Same(u)
      BY <1>1, <1>5, <2>1, <2>2 DEF Same, Reading, HasEntered, LineRow, LineEnd, CursorOf
    <2>4. EnterIsAwaited'
      BY <2>1 DEF EnterIsAwaited
    <2> QED BY <2>1, <2>3, <2>4, QuietStep DEF LineChange
  <1> QED BY <1>4, <1>5

LEMMA EnteredLine ==
  ASSUME {"ahead", "look", "count"} \subseteq Discipline, LineInv, CleanInv', Enter
  PROVE  LineChange
  <1> DEFINE p == Shown
             q == Entered(p)
  <1>1. PICK u \in Term : u = screen_num
    BY DEF LineInv, CleanInv, CountInv, TypeOK
  <1>2. p \in Panes /\ OnScreen(p) /\ Key(q, 1) /\ Reading(u)
    BY <1>1, PaneType DEF LineInv, CleanInv, CountInv, TypeOK, Shown, Key, Enter, EnterAwaited, Kept
  <1>3. q \in Panes
    BY <1>2, EnteredPane
  <1> DEFINE a == cmd_start[u]
             b == p.buf_x
             y == p.buf_y
  <1>4. /\ p.mo \in Mo /\ Tracks(p) /\ screen_num' = u
        /\ b = cursor.buf_x /\ screens'[u].mo = q.mo /\ cursor'.buf_y = q.buf_y
        /\ enter_press' = 1 /\ prog' = prog /\ cmd_start' = cmd_start /\ cmd_end' = cmd_end
        /\ length' = length /\ got' = got
        /\ \A t \in Term : t # u => Same(t)
        /\ enter_press = 0 /\ cmd_end[u] = cursor.buf_x
    <2>1. 1 \in 0 .. 1
      OBVIOUS
    <2> HIDE DEF q
    <2>2. p.mo \in Mo
      BY <1>2 DEF Panes
    <2> QED BY <1>1, <1>2, <1>3, <2>1, <2>2, LineKey
  <1>5. /\ ~HasEntered(u) /\ y \in 0 .. ROWS - 1 /\ y \in Rows
        /\ b \in Columns /\ b \in Nat /\ a \in Columns /\ a \in Nat /\ a <= b
        /\ \A x \in a .. b : p.mo[y][x] # NL
        /\ LineOf(u) = Text(p.mo, y, a, b)
    BY <1>1, <1>2, <1>4, ShownLine
  <1>6. /\ q.buf_y \in 1 .. ROWS - 1
        /\ \A x \in 0 .. b : p.mo[y][x] # NL => q.mo[q.buf_y - 1][x] = p.mo[y][x]
    BY <1>2, <1>4, EnteredCells
  <1> HIDE DEF p, q, a, b, y
  <1> DEFINE z == q.buf_y - 1
  <1>7. z \in 0 .. ROWS - 1 /\ z \in Rows /\ q.mo \in Mo
    BY <1>3, <1>6, Sizes DEF Rows, Panes
  <1>8. \A x \in a .. b : q.mo[z][x] = p.mo[y][x] /\ q.mo[z][x] # NL
    <2>1. \A x \in a .. b : x \in 0 .. b
      BY <1>5
    <2> QED BY <1>5, <1>6, <2>1
  <1>9. /\ Reading(u)' /\ HasEntered(u)' /\ cmd_start'[u] = a
        /\ LineRow(u)' = z /\ LineEnd(u)' = b
    <2>1. Reading(u)' /\ HasEntered(u)' /\ cmd_start'[u] = a
      BY <1>2, <1>4 DEF Reading, HasEntered, a
    <2>2. LineRow(u)' = z /\ LineEnd(u)' = b
      BY <1>4, <2>1 DEF LineRow, LineEnd, CursorOf
    <2> QED BY <2>1, <2>2
  <1> HIDE DEF z
  <1>10. LineSound(u)'
    BY <1>4, <1>5, <1>7, <1>8, <1>9 DEF LineSound
  <1>11. LineOf(u)' = LineOf(u)
    <2>1. Text(q.mo, z, a, b) = Text(p.mo, y, a, b)
      <3>1. \A x \in a .. b - 1 : q.mo[z][x] = p.mo[y][x]
        <4>1. \A x \in a .. b - 1 : x \in a .. b
          BY <1>5
        <4> QED BY <1>8, <4>1
      <3>2. p.mo \in Mo /\ y \in Rows /\ a \in Columns /\ b \in Columns /\ a <= b
        BY <1>4, <1>5
      <3> QED BY <1>7, <3>1, <3>2, TextSame
    <2>2. LineOf(u)' = Text(q.mo, z, a, b)
      BY <1>4, <1>9, LineOfText
    <2> QED BY <1>5, <2>1, <2>2
  <1>12. LineInv'
    <2>1. EnterIsAwaited'
      BY <1>4, <1>9 DEF EnterIsAwaited
    <2>2. length + b - a # MAXREAD
      BY <1>1, <1>2, <1>4 DEF Enter, NotAtLimit, Kept, a
    <2>3. length \in Int /\ length + b - a = length + (b - a)
      BY <1>5 DEF LineInv, CleanInv, CountInv, TypeOK
    <2>4. CountedWith(u)'
      BY <1>4, <1>9, <2>2, <2>3 DEF CountedWith
    <2> QED BY <1>2, <1>4, <1>9, <1>10, <2>1, <2>4, LineStep, Zenon
  <1>13. Lines!PressEnter(u)
    <2>1. /\ Waiting' = Waiting /\ LinesOn' = LinesOn
          /\ Entering' = [Entering EXCEPT ![u] = TRUE]
      BY <1>2, <1>4, <1>9, <1>11, OneLine, Zenon
    <2>2. Waiting[u] = TRUE /\ ~Entering[u]
      BY <1>2, <1>5, Zenon DEF Waiting, Entering, Reading
    <2> QED BY <1>4, <2>1, <2>2, Zenon DEF Lines!PressEnter, Waiting, Entering, LinesOn
  <1>14. Lines!LineNext
    BY <1>13 DEF Lines!LineNext
  <1> QED BY <1>12, <1>14 DEF LineChange

LEMMA ClearedLine ==
  ASSUME "clear" \in Discipline, LineInv, CleanInv', CtrlL
  PROVE  LineChange
  <1>1. ~Reading(screen_num) /\ Key(Reset, 0) /\ Reset \in Panes
    BY ResetPane DEF CtrlL, Kept
  <1> QED BY <1>1, UnreadKey

LEMMA KeyLine ==
  ASSUME {"short", "erase", "clear", "ahead", "look", "count"} \subseteq Discipline,
         LineInv, CleanInv', KeyAction
  PROVE  LineChange
  <1>1. ASSUME NEW c \in Chars, TypeChar(c) PROVE LineChange
    <2>1. c \in Chars \cup {Nul} /\ Short /\ Key(Typed(Shown, c), 0)
      BY <1>1 DEF TypeChar
    <2> QED BY <2>1, TypedLine
  <1>2. CASE AltPress
    <2>1. Nul \in Chars \cup {Nul} /\ Short /\ Key(Typed(Shown, Nul), 0)
      BY <1>2 DEF AltPress
    <2> QED BY <2>1, TypedLine
  <1>3. CASE AltRelease \/ Release
    BY <1>3, ReleasedLine DEF AltRelease, Release
  <1>4. CASE Backspace
    BY <1>4, BackspacedLine DEF Backspace
  <1>5. CASE Enter
    BY <1>5, EnteredLine
  <1>6. CASE CtrlL
    BY <1>6, ClearedLine
  <1> QED BY <1>1, <1>2, <1>3, <1>4, <1>5, <1>6 DEF KeyAction

-----------------------------------------------------------------------------
(* What the other steps do to the lines.                                   *)

(* A terminal that is left keeps its line, and so does the one shown.      *)
LEMMA SwitchLine ==
  ASSUME "look" \in Discipline, LineInv, CleanInv', NEW n \in Term, Switch(n)
  PROVE  LineChange
  <1>1. /\ screens \in [Term -> Screen] /\ components \in [Term -> Cursor] /\ screen_num \in Term
        /\ prog \in [Term -> {"none", "user", "write", "read"}] /\ enter_press \in 0 .. 1
    BY DEF LineInv, CleanInv, CountInv, TypeOK, Screen, Mo, Printed
  <1>2. /\ components' = [components EXCEPT ![screen_num] = cursor]
        /\ cursor' = components'[n] /\ screen_num' = n /\ screens' = screens
        /\ enter_press' = (IF prog[n] = "none" THEN enter_press ELSE 0)
        /\ prog' = [prog EXCEPT ![n] = IF prog[n] = "none" THEN "user" ELSE prog[n]]
        /\ cmd_start' = cmd_start /\ length' = length /\ got' = got
        /\ Reading(screen_num) => enter_press = 0
    BY DEF Switch, readVars, Looked, Kept
  <1>3. enter_press = 0 /\ enter_press' = 0
    BY <1>1, <1>2 DEF LineInv, EnterIsAwaited
  <1>4. \A t \in Term : CursorOf(t)' = CursorOf(t)
    <2> TAKE t \in Term
    <2>1. components'[t] = IF t = screen_num THEN cursor ELSE components[t]
      BY <1>1, <1>2
    <2> QED BY <1>2, <2>1 DEF CursorOf
  <1>5. \A t \in Term : Reading(t)' <=> Reading(t)
    BY <1>1, <1>2 DEF Reading
  <1>6. \A t \in Term : Same(t)
    BY <1>2, <1>3, <1>4, <1>5 DEF Same, HasEntered, LineRow, LineEnd
  <1>7. EnterIsAwaited'
    BY <1>3 DEF EnterIsAwaited
  <1> QED BY <1>2, <1>6, <1>7, QuietStep DEF LineChange

LEMMA WriteLine ==
  ASSUME LineInv, CleanInv', \/ \E text \in Texts : WriteStart(text)
                             \/ WriteEnd
  PROVE  LineChange
  <1>1. /\ screen_num \in Term /\ prog \in [Term -> {"none", "user", "write", "read"}]
    BY DEF LineInv, CleanInv, CountInv, TypeOK
  <1>2. /\ UNCHANGED <<screens, cursor, components, screen_num, enter_press,
                       length, cmd_start, cmd_end, got>>
        /\ ~Reading(screen_num)
        /\ \E s \in {"user", "write"} : prog' = [prog EXCEPT ![screen_num] = s]
    BY DEF WriteStart, WriteEnd, readVars, Reading
  <1>3. \A t \in Term : Reading(t)' <=> Reading(t)
    BY <1>1, <1>2 DEF Reading
  <1>4. \A t \in Term : Same(t)
    BY <1>2, <1>3 DEF Same, HasEntered, LineRow, LineEnd, CursorOf
  <1>5. EnterIsAwaited'
    BY <1>2 DEF LineInv, EnterIsAwaited
  <1> QED BY <1>2, <1>4, <1>5, QuietStep DEF LineChange

LEMMA PutCoutLine ==
  ASSUME LineInv, CleanInv', PutCout
  PROVE  LineChange
  <1> DEFINE q == put_cout(Pane(process_buf), Head(todo[screen_num]))
  <1>1. PICK u \in Term : u = screen_num
    BY DEF LineInv, CleanInv, CountInv, TypeOK
  <1>2. TypeOK /\ process_buf = u /\ prog[u] = "write"
    BY <1>1 DEF LineInv, CleanInv, CountInv, WritesHere, PutCout
  <1>3. q \in Panes
    BY <1>2, PutCoutStep
  <1>4. /\ Show(u, q) /\ screen_num' = u
        /\ components' = components /\ prog' = prog /\ enter_press' = enter_press
        /\ length' = length /\ cmd_start' = cmd_start /\ got' = got
    BY <1>1, <1>2 DEF PutCout, readVars
  <1> HIDE DEF q
  <1>5. \A t \in Term : t # u => screens'[t] = screens[t]
    BY <1>2, <1>3, <1>4, ShowType
  <1>6. \A t \in Term : t # u => Same(t)
    BY <1>1, <1>4, <1>5, HiddenSame
  <1>7. Same(u)
    BY <1>2, <1>4 DEF Same, HasEntered, Reading
  <1>8. EnterIsAwaited'
    BY <1>1, <1>4 DEF LineInv, EnterIsAwaited, Reading
  <1> QED BY <1>4, <1>6, <1>7, <1>8, QuietStep DEF LineChange

LEMMA LookLine ==
  ASSUME LineInv, CleanInv', Look
  PROVE  LineChange
  <1>1. /\ UNCHANGED <<screens, cursor, components, screen_num, enter_press, prog,
                       length, cmd_start, got>>
        /\ enter_press # 1
    BY DEF Look, LineEnded
  <1>2. \A t \in Term : Same(t)
    BY <1>1 DEF Same, HasEntered, LineRow, LineEnd, CursorOf, Reading
  <1>3. EnterIsAwaited'
    BY <1>1 DEF EnterIsAwaited
  <1> QED BY <1>1, <1>2, <1>3, QuietStep DEF LineChange

LEMMA ReadStartLine ==
  ASSUME LineInv, CleanInv', ReadStart
  PROVE  LineChange
  <1>1. PICK u \in Term : u = screen_num
    BY DEF LineInv, CleanInv, CountInv, TypeOK
  <1> DEFINE b == cursor.buf_x
             y == cursor.buf_y
  <1>2. /\ TypeOK /\ screens[u].mo \in Mo /\ prog[u] = "user"
    BY <1>1 DEF LineInv, CleanInv, CountInv, TypeOK, Mo, ReadStart
  <1>3. /\ UNCHANGED <<screens, cursor, components, screen_num, enter_press, length>>
        /\ prog' = [prog EXCEPT ![u] = "read"]
        /\ cmd_start' = [cmd_start EXCEPT ![u] = b]
        /\ got' = [got EXCEPT ![u] = <<>>]
    BY <1>1 DEF ReadStart
  <1>4. /\ prog'[u] = "read" /\ cmd_start'[u] = b
        /\ \A t \in Term : t # u => prog'[t] = prog[t] /\ cmd_start'[t] = cmd_start[t]
    BY <1>2, <1>3 DEF TypeOK
  <1>5. /\ ~Reading(u) /\ ~HasEntered(u) /\ Reading(u)' /\ ~HasEntered(u)'
        /\ LineRow(u)' = y /\ LineEnd(u)' = b
    <2>1. ~Reading(u) /\ enter_press # 1 /\ ~HasEntered(u)
      BY <1>1, <1>2 DEF LineInv, EnterIsAwaited, Reading, HasEntered
    <2>2. Reading(u)' /\ ~HasEntered(u)'
      BY <1>3, <1>4, <2>1 DEF Reading, HasEntered
    <2>3. LineRow(u)' = y /\ LineEnd(u)' = b
      BY <1>1, <1>3, <2>2 DEF LineRow, LineEnd, CursorOf
    <2> QED BY <2>1, <2>2, <2>3
  <1>6. /\ y \in 0 .. ROWS - 1 /\ y \in Rows /\ b \in Columns /\ b \in Nat
        /\ screens[u].mo[y][b] = Blank
    <2>1. BlankAhead(Pane(u)) /\ Tracks(Pane(u)) /\ Pane(u).mo = screens[u].mo
          /\ Pane(u).buf_x = b /\ Pane(u).buf_y = y
      BY <1>1, <1>2, ShownClean, PaneType DEF LineInv, CleanInv, CountInv, Tracks, OnScreen
    <2>2. y \in 0 .. ROWS - 1 /\ b \in Columns
      BY <2>1 DEF Tracks, OnScreen
    <2> HIDE DEF y, b
    <2>3. y \in y .. ROWS - 1 /\ b >= b /\ y \in Rows /\ b \in Nat
      BY <2>2, Sizes DEF Rows, Columns
    <2> QED BY <2>1, <2>2, <2>3 DEF BlankAhead
  <1> HIDE DEF b, y
  <1>7. LineSound(u)'
    <2>1. \A x \in b .. b : x = b
      BY <1>6
    <2>2. b <= b
      BY <1>6
    <2> QED BY <1>3, <1>4, <1>5, <1>6, <2>1, <2>2, CharAssumption DEF LineSound
  <1>8. LineOf(u) = <<>> /\ LineOf(u)' = <<>>
    <2>1. LineOf(u)' = Text(screens[u].mo, y, b, b)
      BY <1>3, <1>4, <1>5, LineOfText
    <2>2. Text(screens[u].mo, y, b, b) = <<>>
      <3>1. b <= b /\ b - b = 0
        BY <1>6
      <3>2. /\ Text(screens[u].mo, y, b, b) \in Seq(Cell)
            /\ Len(Text(screens[u].mo, y, b, b)) = b - b
        <4>1. screens[u].mo \in Mo /\ y \in Rows /\ b \in Columns /\ b <= b
          BY <1>2, <1>6, <3>1
        <4> QED BY <4>1, TextSeq
      <3> QED BY <3>1, <3>2, EmptySeq
    <2> QED BY <1>5, <2>1, <2>2, LineOfText
  <1>9. \A t \in Term : t # u => Same(t)
    BY <1>1, <1>3, <1>4, HiddenSame
  <1>10. LinesSound'
    BY <1>7, <1>9, SameLine DEF LineInv, LinesSound
  <1>11. Counted'
    <2>1. CountedWith(u)'
      BY <1>5 DEF CountedWith
    <2> QED BY <1>3, <1>9, <2>1, SameCount DEF LineInv, Counted
  <1>12. EnterIsAwaited'
    BY <1>3, <1>5 DEF EnterIsAwaited, LineInv, HasEntered, Reading
  <1>13. Lines!Ask(u)
    <2>1. /\ Waiting' = [Waiting EXCEPT ![u] = TRUE]
          /\ Entering' = Entering /\ LinesOn' = LinesOn
      BY <1>5, <1>8, <1>9, OneLine, Zenon
    <2>2. ~Waiting[u]
      BY <1>5, Zenon DEF Waiting, Reading
    <2> QED BY <1>3, <2>1, <2>2, Zenon DEF Lines!Ask, Waiting, Entering, LinesOn
  <1>14. Lines!LineNext
    BY <1>13 DEF Lines!LineNext
  <1> QED BY <1>10, <1>11, <1>12, <1>14 DEF LineChange, LineInv

(* With no line end in it and none behind it, the copy is the whole line.   *)
LEMMA CopiedLine ==
  ASSUME LineInv, NEW u \in Term, u = screen_num, HasEntered(u)
  PROVE  /\ Copied(u) = LineOf(u)
         /\ LineOf(u) \in Seq(Cell) /\ Len(LineOf(u)) = LineEnd(u) - cmd_start[u]
  <1> DEFINE a == cmd_start[u]
             b == cmd_end[u]
             y == cursor.buf_y - 1
             m == screens[u].mo
  <1>1. /\ m \in Mo /\ a \in Columns /\ a \in Nat /\ cursor.line_count \in Int
        /\ cursor.line_count < COLS /\ Reading(u)
    <2>1. TypeOK /\ Tracks(cursor) /\ Reading(u)
      BY DEF LineInv, CleanInv, CountInv, HasEntered
    <2>2. m \in Mo
      BY <2>1 DEF TypeOK, Mo
    <2>3. a \in Columns /\ a \in Nat /\ cursor.line_count \in Int
      BY <2>1 DEF TypeOK, Cursor, Columns
    <2>4. cursor.line_count < COLS
      BY <2>1 DEF Tracks
    <2> QED BY <2>1, <2>2, <2>3, <2>4
  <1>2. LineRow(u) = y /\ LineEnd(u) = b
    BY DEF HasEntered, LineRow, LineEnd, CursorOf
  <1>3. /\ y \in 0 .. ROWS - 1 /\ y \in Rows /\ b \in Columns /\ b \in Nat /\ b < COLS
        /\ a <= b /\ \A x \in a .. b : m[y][x] # NL
    BY <1>1, <1>2, Sizes DEF LineInv, LinesSound, LineSound, Rows, Columns
  <1>4. CopyRow = y
    BY <1>1, Sizes DEF CopyRow
  <1>5. \A i \in Columns : CharAt(u, i) = m[y][i]
    <2> TAKE i \in Columns
    <2>1. i \div COLS = 0 /\ i % COLS = i
      BY Sizes DEF Columns
    <2>2. CharAt(u, i) = m[y + 0][i]
      BY <1>4, <2>1 DEF CharAt
    <2>3. y + 0 = y
      BY <1>3
    <2> HIDE DEF y, m
    <2> QED BY <2>2, <2>3
  <1>6. Span(u) = a .. b - 1
    BY DEF Span
  <1>7. LineOf(u) = Text(m, y, a, b)
    BY <1>1, <1>2, LineOfText
  <1> HIDE DEF y, m
  <1>8. /\ LineOf(u) \in Seq(Cell) /\ Len(LineOf(u)) = LineEnd(u) - cmd_start[u]
    <2>1. Text(m, y, a, b) \in Seq(Cell) /\ Len(Text(m, y, a, b)) = b - a
      BY <1>1, <1>3, TextSeq
    <2> QED BY <1>2, <1>7, <2>1
  <1>9. CASE a = b
    <2>1. Span(u) = {}
      BY <1>3, <1>6, <1>9
    <2>2. Copied(u) = <<>>
      BY <2>1 DEF Copied
    <2>3. Text(m, y, a, b) \in Seq(Cell) /\ Len(Text(m, y, a, b)) = b - a /\ b - a = 0
      BY <1>1, <1>3, <1>9, TextSeq
    <2>4. Text(m, y, a, b) = <<>>
      BY <2>3, EmptySeq
    <2> QED BY <1>7, <1>8, <2>2, <2>4
  <1>10. CASE a # b
    <2> DEFINE last(i) == /\ i = b - 1 \/ CharAt(u, i + 1) = NL
                          /\ \A j \in a .. i - 1 : CharAt(u, j + 1) # NL
    <2>1. b - 1 \in Span(u)
      BY <1>1, <1>3, <1>6, <1>10
    <2>2. \A i \in a .. b - 1 : CharAt(u, i + 1) # NL
      <3> TAKE i \in a .. b - 1
      <3>1. i + 1 \in a .. b /\ i + 1 \in Columns
        BY <1>1, <1>3, Sizes DEF Columns
      <3> QED BY <1>3, <1>5, <3>1
    <2>3. last(b - 1)
      <3>1. \A j \in a .. (b - 1) - 1 : j \in a .. b - 1
        BY <1>3
      <3> QED BY <2>2, <3>1
    <2>4. LastCopied(u) = CHOOSE i \in Span(u) : last(i)
      BY DEF LastCopied
    <2>5. LastCopied(u) \in Span(u) /\ last(LastCopied(u))
      <3> HIDE DEF last
      <3> QED BY <2>1, <2>3, <2>4, Zenon
    <2>6. LastCopied(u) = b - 1
      BY <1>6, <2>2, <2>5
    <2> HIDE DEF last
    <2>7. Span(u) # {} /\ CharAt(u, (b - 1) + 1) # NL
      BY <1>3, <1>6, <2>1, <2>2
    <2>8. Copied(u) = [k \in 1 .. (b - 1) - a + 1 |-> CharAt(u, a + k - 1)]
      BY <2>6, <2>7 DEF Copied
    <2>9. (b - 1) - a + 1 = b - a
      BY <1>1, <1>3
    <2>10. \A k \in 1 .. b - a : CharAt(u, a + k - 1) = m[y][a + k - 1]
      <3> TAKE k \in 1 .. b - a
      <3>1. a + k - 1 \in Columns
        BY <1>1, <1>3, Sizes DEF Columns
      <3> QED BY <1>5, <3>1
    <2>11. Copied(u) = Text(m, y, a, b)
      BY <2>8, <2>9, <2>10 DEF Text
    <2> QED BY <1>7, <1>8, <2>11
  <1> QED BY <1>9, <1>10

LEMMA ReadDoneLine ==
  ASSUME LineInv, CleanInv', ReadDone
  PROVE  LineChange
  <1>1. PICK u \in Term : u = screen_num
    BY DEF LineInv, CleanInv, CountInv, TypeOK
  <1>2. /\ TypeOK /\ length \in Nat /\ Reading(u) /\ prog[u] = "read"
    BY <1>1 DEF LineInv, CleanInv, CountInv, TypeOK, ReadDone, Reading
  <1>3. length # MAXREAD /\ CountedWith(u)
    BY DEF LineInv, Counted
  <1>4. HasEntered(u)
    BY <1>1, <1>2, <1>3 DEF ReadDone, LineEnded, HasEntered
  <1>5. /\ Copied(u) = LineOf(u) /\ LineOf(u) \in Seq(Cell)
        /\ Len(LineOf(u)) = LineEnd(u) - cmd_start[u]
    BY <1>1, <1>4, CopiedLine
  <1>6. /\ UNCHANGED <<screens, cursor, components, screen_num>>
        /\ enter_press' = 0
        /\ prog' = [prog EXCEPT ![u] = "user"]
        /\ length' = length + Len(LineOf(u))
        /\ cmd_start' = [cmd_start EXCEPT ![u] = 0]
        /\ got' = [got EXCEPT ![u] = UpToNul(LineOf(u))]
    BY <1>1, <1>5 DEF ReadDone
  <1>7. /\ ~Reading(u)' /\ ~HasEntered(u)'
        /\ \A t \in Term : t # u => prog'[t] = prog[t] /\ cmd_start'[t] = cmd_start[t]
    BY <1>2, <1>6 DEF TypeOK, Reading, HasEntered
  <1>8. \A t \in Term : t # u => Same(t)
    BY <1>1, <1>6, <1>7, HiddenSame
  <1>9. LineOf(u)' = <<>>
    BY <1>7, LineOfText
  <1>10. LinesSound'
    BY <1>7, <1>8, SameLine DEF LineInv, LinesSound
  <1>11. EnterIsAwaited'
    BY <1>6 DEF EnterIsAwaited
  <1>12. Counted'
    <2>1. length' # MAXREAD
      BY <1>3, <1>4, <1>5, <1>6 DEF CountedWith
    <2>2. \A t \in Term : ~HasEntered(t)'
      BY <1>6 DEF HasEntered
    <2> QED BY <2>1, <2>2 DEF Counted, CountedWith
  <1>13. UpToNul(LineOf(u)) = Lines!UpToNul(LineOf(u))
    BY Zenon DEF UpToNul, Lines!UpToNul
  <1>14. Lines!Deliver(u)
    <2>1. /\ Waiting' = [Waiting EXCEPT ![u] = FALSE]
          /\ Entering' = [Entering EXCEPT ![u] = FALSE]
          /\ LinesOn' = [LinesOn EXCEPT ![u] = <<>>]
      BY <1>7, <1>8, <1>9, OneLine, Zenon
    <2>2. Entering[u] = TRUE /\ LinesOn[u] = LineOf(u)
      BY <1>4, Zenon DEF Entering, LinesOn, HasEntered
    <2>3. got' = [got EXCEPT ![u] = Lines!UpToNul(LinesOn[u])]
      BY <1>6, <1>13, <2>2, Zenon
    <2> QED BY <2>1, <2>2, <2>3, Zenon DEF Lines!Deliver, Waiting, Entering, LinesOn
  <1>15. Lines!LineNext
    BY <1>14 DEF Lines!LineNext
  <1> QED BY <1>10, <1>11, <1>12, <1>15 DEF LineChange, LineInv

-----------------------------------------------------------------------------
LEMMA LineNextStep ==
  ASSUME {"short", "erase", "clear", "ahead", "look", "switch", "count"} \subseteq Discipline,
         LineInv, [Next]_vars
  PROVE  LineChange
  <1>1. CleanInv'
    BY CleanStep DEF LineInv
  <1>2. CASE KeyAction
    BY <1>1, <1>2, KeyLine
  <1>3. ASSUME NEW n \in Term, Switch(n) PROVE LineChange
    BY <1>1, <1>3, SwitchLine
  <1>4. CASE WriteEnd \/ \E text \in Texts : WriteStart(text)
    BY <1>1, <1>4, WriteLine
  <1>5. CASE PutCout
    BY <1>1, <1>5, PutCoutLine
  <1>6. CASE ReadStart
    BY <1>1, <1>6, ReadStartLine
  <1>7. CASE Look
    BY <1>1, <1>7, LookLine
  <1>8. CASE ReadDone
    BY <1>1, <1>8, ReadDoneLine
  <1>9. CASE UNCHANGED vars
    <2>1. \A t \in Term : Same(t)
      BY <1>9 DEF vars, readVars, Same, Reading, HasEntered, LineRow, LineEnd, CursorOf
    <2>2. EnterIsAwaited'
      BY <1>9 DEF vars, LineInv, EnterIsAwaited, Reading
    <2> QED BY <1>1, <1>9, <2>1, <2>2, QuietStep DEF vars, readVars, LineChange
  <1> QED BY <1>2, <1>3, <1>4, <1>5, <1>6, <1>7, <1>8, <1>9 DEF Next, KeyAction

LEMMA LineStart == Init => LineInv /\ Lines!LineInit
  <1> SUFFICES ASSUME Init PROVE LineInv /\ Lines!LineInit
    OBVIOUS
  <1>1. CleanInv
    BY CleanInit
  <1>2. \A t \in Term : ~Reading(t) /\ ~HasEntered(t) /\ LineOf(t) = <<>>
    BY DEF Init, Reading, HasEntered, LineOf
  <1>3. LinesSound /\ EnterIsAwaited
    BY <1>2 DEF Init, LinesSound, EnterIsAwaited
  <1>6. Counted
    <2>1. length # MAXREAD
      BY PaneAssumption DEF Init
    <2> QED BY <1>2, <2>1 DEF Counted, CountedWith
  <1>4. got = [t \in Term |-> <<>>]
    BY DEF Init
  <1>5. /\ [t \in Term |-> Reading(t)] = [t \in Term |-> FALSE]
        /\ [t \in Term |-> HasEntered(t)] = [t \in Term |-> FALSE]
        /\ [t \in Term |-> LineOf(t)] = [t \in Term |-> <<>>]
    <2>1. \A t \in Term : /\ Reading(t) = FALSE
                          /\ HasEntered(t) = FALSE
                          /\ LineOf(t) = <<>>
      BY <1>2, Zenon DEF Reading, HasEntered
    <2> QED BY <2>1, Zenon
  <1> QED BY <1>1, <1>3, <1>4, <1>5, <1>6, Zenon DEF LineInv, Lines!LineInit

(* Under the whole discipline but its rules for small runs, the terminals   *)
(* implement TypedLines: what a read returns is the line typed on its       *)
(* terminal since it began, for every size and number of terminals, however *)
(* keys, output, scrolling and switches come in between.                   *)
THEOREM LinesImplemented ==
  ASSUME {"short", "erase", "clear", "ahead", "look", "switch", "count"} \subseteq Discipline
  PROVE  Spec => LinesSpec
  <1>1. Init => LineInv /\ Lines!LineInit
    BY LineStart
  <1>2. LineInv /\ [Next]_vars => LineInv' /\ [Lines!LineNext]_(Lines!lineVars)
    BY LineNextStep DEF LineChange
  <1> QED BY <1>1, <1>2, PTL DEF Spec, LinesSpec, Lines!LineSpec
=============================================================================
