------------------------------- MODULE Library -------------------------------
(***************************************************************************)
(* The kernel's C library (lib.c), the one the programs are linked with    *)
(* (ece391support.c), and the splitting of a command line (systemcalls.c). *)
(*                                                                         *)
(* Memory is an array of bytes.  A behaviour is one call on any memory of  *)
(* a set; what a call leaves for the next one is in the variables: the     *)
(* bytes, the CPU's direction flag, the text cursor, the globals of parse. *)
(* Numbers are those below 2^31, the half of the kernel's range in which   *)
(* TLC's integers agree with it.                                           *)
(***************************************************************************)
EXTENDS Integers, Sequences, SequencesExt

CONSTANTS
    MEM,        \* bytes of memory
    Memories,   \* what they may hold before the call
    Values,     \* numbers to convert
    Texts,      \* calls of printf: [format, args]
    Lines,      \* command lines
    NUM_COLS, NUM_ROWS, \* the text screen printf thinks it has
    VIDEO_ROWS  \* rows of video memory the model looks at

Byte == 0 .. 255
Addr == 0 .. MEM - 1
NUL == 0
NL == 10
SP == 32

ASSUME MemoryAssumption == MEM \in Nat \ {0} /\ Memories \subseteq [Addr -> Byte]
ASSUME ScreenAssumption ==
    NUM_COLS \in Nat \ {0} /\ NUM_ROWS \in Nat \ {0} /\ VIDEO_ROWS > NUM_ROWS

VARIABLES
    mem,            \* the bytes
    backward,       \* the direction flag of the CPU's string instructions
    index,          \* where parse stopped in the last line it split
    screen_x, screen_y, video,  \* where putc writes, and what it has written
    call            \* the call made: its name, arguments and answer

vars == <<mem, backward, index, screen_x, screen_y, video, call>>

Signed(b) == IF b < 128 THEN b ELSE b - 256     \* int8_t

-----------------------------------------------------------------------------
(* Strings.  The loops run until they meet the terminator, so the calls    *)
(* below are only made on memory where there is one.                       *)

RECURSIVE strlen(_, _)
strlen(m, s) == IF m[s] = NUL THEN 0 ELSE 1 + strlen(m, s + 1)

RECURSIVE Swapped(_, _, _)
Swapped(m, beg, end) ==
    IF beg < end
      THEN Swapped([m EXCEPT ![beg] = m[end], ![end] = m[beg]], beg + 1, end - 1)
      ELSE m
WithTerminator(m, s) == Swapped(m, s, s + strlen(m, s))     \* slip
strrev(m, s) == Swapped(m, s, s + strlen(m, s) - 1)

RECURSIVE strncmp(_, _, _, _)
strncmp(m, s1, s2, n) ==
    IF n = 0 THEN 0
    ELSE IF m[s1] # m[s2] \/ m[s1] = NUL THEN Signed(m[s1]) - Signed(m[s2])
    ELSE strncmp(m, s1 + 1, s2 + 1, n - 1)

RECURSIVE strcpy(_, _, _)
strcpy(m, dest, src) ==
    IF m[src] = NUL THEN [m EXCEPT ![dest] = NUL]
    ELSE strcpy([m EXCEPT ![dest] = m[src]], dest + 1, src + 1)

RECURSIVE strncpy(_, _, _, _)
strncpy(m, dest, src, n) ==
    IF n = 0 THEN m
    ELSE IF m[src] = NUL
      THEN [a \in Addr |-> IF a \in dest .. dest + n - 1 THEN NUL ELSE m[a]]
    ELSE strncpy([m EXCEPT ![dest] = m[src]], dest + 1, src + 1, n - 1)

\* The programs' own versions, where their loops differ.
RECURSIVE ece391_strcmp(_, _, _)
ece391_strcmp(m, s1, s2) ==
    IF m[s1] # m[s2] THEN m[s1] - m[s2]
    ELSE IF m[s1] = NUL THEN 0 ELSE ece391_strcmp(m, s1 + 1, s2 + 1)

ece391_strncmp(m, s1, s2, n) ==
    IF n = 0 THEN 0
    ELSE LET from[i \in 0 .. n - 1] ==
               IF m[s1 + i] # m[s2 + i] THEN m[s1 + i] - m[s2 + i]
               ELSE IF m[s1 + i] = NUL \/ i = n - 1 THEN 0 ELSE from[i + 1]
         IN from[0]

ece391_strrev(m, s) ==
    IF strlen(m, s) <= 1 THEN m ELSE Swapped(m, s, s + strlen(m, s) - 1)

-----------------------------------------------------------------------------
(* String instructions.  rep stos and rep movs move n units of w bytes,    *)
(* upwards or, with the direction flag set, downwards.                     *)

Unit(m, at, w) == [i \in 1 .. w |-> m[at + i - 1]]
Stored(m, at, unit) ==
    [a \in Addr |-> IF a - at + 1 \in 1 .. Len(unit) THEN unit[a - at + 1] ELSE m[a]]
Following(at, w, down) == IF down THEN at - w ELSE at + w

RECURSIVE RepStos(_, _, _, _, _)
RepStos(m, edi, unit, n, down) ==
    IF n = 0 THEN m
    ELSE RepStos(Stored(m, edi, unit), Following(edi, Len(unit), down), unit, n - 1, down)

RECURSIVE RepMovs(_, _, _, _, _, _)
RepMovs(m, edi, esi, w, n, down) ==
    IF n = 0 THEN m
    ELSE RepMovs(Stored(m, edi, Unit(m, esi, w)), Following(edi, w, down),
                 Following(esi, w, down), w, n - 1, down)

NoCld(flag) == flag     \* slip: cld left out
Cld(flag) == FALSE

\* memset and memcpy: single bytes up to a multiple of four, then double
\* words, then the bytes that are left.  cld comes with the double words.
HeadLength(dest, n) ==
    LET odd == (4 - (dest % 4)) % 4 IN IF odd < n THEN odd ELSE n
Whole(dest, n) == 4 * ((n - HeadLength(dest, n)) \div 4)
FlagAfter(dest, n) == IF n = HeadLength(dest, n) THEN backward ELSE Cld(backward)

LowByte(c) == c % 256
memset(m, s, c, n) ==
    LET b == LowByte(c)
        h == HeadLength(s, n)
        w == Whole(s, n)
        one == RepStos(m, s, <<b>>, h, FALSE)
        two == RepStos(one, s + h, <<b, b, b, b>>, w \div 4, FlagAfter(s, n))
    IN RepStos(two, s + h + w, <<b>>, n - h - w, FALSE)

memset_word(m, s, c, n) == RepStos(m, s, <<c % 256, c \div 256>>, n, Cld(backward))
memset_dword(m, s, c, n) ==
    RepStos(m, s, <<c % 256, c \div 256, 0, 0>>, n, Cld(backward))

memcpy(m, dest, src, n) ==
    LET h == HeadLength(dest, n)
        w == Whole(dest, n)
        one == RepMovs(m, dest, src, 1, h, FALSE)
        two == RepMovs(one, dest + h, src + h, 4, w \div 4, FlagAfter(dest, n))
    IN RepMovs(two, dest + h + w, src + h + w, 1, n - h - w, FALSE)

\* memmove begins at the end if the source lies below the destination, and
\* leaves the direction flag set.
Downwards(dest, src) == src < dest
memmove(m, dest, src, n) ==
    IF Downwards(dest, src)
      THEN RepMovs(m, dest + n - 1, src + n - 1, 1, n, TRUE)
      ELSE RepMovs(m, dest, src, 1, n, Cld(backward))

-----------------------------------------------------------------------------
(* Numbers and printf. *)

lookup(i) == IF i < 10 THEN 48 + i ELSE 55 + i

RECURSIVE Places(_, _, _, _)
Places(m, at, newval, radix) ==
    IF newval = 0 THEN [m EXCEPT ![at] = NUL]
    ELSE Places([m EXCEPT ![at] = lookup(newval % radix)], at + 1,
                newval \div radix, radix)
itoa(m, value, buf, radix) ==
    IF value = 0 THEN [m EXCEPT ![buf] = 48, ![buf + 1] = NUL]
    ELSE strrev(Places(m, buf, value, radix), buf)
ece391_itoa(m, value, buf, radix) ==
    IF value = 0 THEN [m EXCEPT ![buf] = 48, ![buf + 1] = NUL]
    ELSE ece391_strrev(Places(m, buf, value, radix), buf)

Percent == 37
Hash == 35
Minus == 45

StringAt(m, s) == [i \in 1 .. strlen(m, s) |-> m[s + i - 1]]
conv_buf == [a \in 0 .. 63 |-> 170]
Digits(value, radix) == StringAt(itoa(conv_buf, value, 0, radix), 0)

\* %#x: the digits are written behind the first eight bytes, as many zeros as
\* are missing in front of them.
Unpadded(value) == Digits(value, 16)    \* slip
PaddedHex(value) ==
    LET m == itoa(conv_buf, value, 8, 16)
        starting_index == strlen(m, 8)
        padded == [a \in 0 .. 63 |-> IF a \in starting_index .. 7 THEN 48 ELSE m[a]]
    IN StringAt(padded, starting_index)

SignedDigits(value) == <<Minus>> \o Digits(-value, 10)

\* The text printf hands to putc and cout to put_cout: formats end in no
\* lone percent sign, as all of the kernel's do.
RECURSIVE Converted(_, _)
Converted(format, args) ==
    IF format = <<>> THEN <<>>
    ELSE IF Head(format) # Percent
      THEN <<Head(format)>> \o Converted(Tail(format), args)
    ELSE
      LET hashes == CHOOSE k \in 0 .. Len(format) :
                        /\ \A i \in 2 .. k + 1 : format[i] = Hash
                        /\ format[k + 2] # Hash
          spec == format[hashes + 2]
          rest == SubSeq(format, hashes + 3, Len(format))
      IN IF spec = Percent THEN <<Percent>> \o Converted(rest, args)
         ELSE IF spec \notin {120, 117, 100, 99, 115} THEN Converted(rest, args)
         ELSE (CASE spec = 120 -> IF hashes = 0 THEN Digits(Head(args), 16)
                                                ELSE PaddedHex(Head(args))
                 [] spec = 117 -> Digits(Head(args), 10)
                 [] spec = 100 -> IF Head(args) < 0 THEN SignedDigits(Head(args))
                                  ELSE Digits(Head(args), 10)
                 [] spec = 99 -> <<Head(args)>>
                 [] spec = 115 -> Head(args))
              \o Converted(rest, Tail(args))

\* putc: the row only changes at a line end, for the column is reduced before
\* it is looked at; a character then takes the row back onto the screen.
Cell(x, y) == NUM_COLS * y + x
putcUnwrapped(scr, c) ==    \* slip: the column is not reduced
    IF c = NL THEN [scr EXCEPT !.x = 0, !.y = @ + 1]
    ELSE [x |-> scr.x + 1, y |-> scr.y % NUM_ROWS,
          cells |-> [scr.cells EXCEPT ![Cell(scr.x, scr.y)] = c]]
putc(scr, c) ==
    IF c = NL THEN [scr EXCEPT !.x = 0, !.y = @ + 1]
    ELSE [x |-> (scr.x + 1) % NUM_COLS, y |-> scr.y % NUM_ROWS,
          cells |-> [scr.cells EXCEPT ![Cell(scr.x, scr.y)] = c]]
puts(scr, text) == FoldLeft(putc, scr, text)

-----------------------------------------------------------------------------
(* Splitting a command line. *)

\* parse: the name ends at the first blank or line end.  A line that begins
\* with a blank, or an empty one, gives "-1" and leaves index as it was.
MinusOne == <<Minus, 49>>
Ends(line) == {i \in DOMAIN line : line[i] \in {SP, NL}}
Stop(line) == IF Ends(line) = {} THEN Len(line)
              ELSE (CHOOSE i \in Ends(line) : \A j \in Ends(line) : i <= j) - 1
parse(line) ==
    IF line = <<>> \/ Head(line) = SP THEN [name |-> MinusOne, index |-> index]
    ELSE [name |-> SubSeq(line, 1, Stop(line)), index |-> Stop(line)]

\* get_arg: everything behind the character that ended the name.
WithBlank(line, from) == SubSeq(line, from + 1, Len(line))      \* slip
get_arg(line, from) ==
    IF line # <<>> /\ Head(line) = SP THEN MinusOne
    ELSE SubSeq(line, from + 2, Len(line))

-----------------------------------------------------------------------------
(* One call.  What does not concern a call has one value when it is made:  *)
(* the cursor is home, the memory empty.                                   *)

NoCall == [fn |-> "none", dest |-> 0, src |-> 0, n |-> 0, result |-> 0]
Called(fn, dest, src, n, result) ==
    call' = [fn |-> fn, dest |-> dest, src |-> src, n |-> n, result |-> result]

screenVars == <<screen_x, screen_y, video>>
Empty == [a \in Addr |-> NUL]
Old == [c \in 0 .. NUM_COLS * VIDEO_ROWS - 1 |-> 120]

Init ==
    /\ \/ mem \in Memories /\ screen_x = 0 /\ screen_y = 0 /\ index = 0
       \/ /\ mem = Empty /\ index \in 0 .. 2
          /\ screen_x \in 0 .. NUM_COLS - 1 /\ screen_y \in 0 .. NUM_ROWS - 1
    /\ backward \in BOOLEAN
    /\ video = Old /\ call = NoCall

Home == screen_x = 0 /\ screen_y = 0
HasString(s, n) == \E a \in s .. s + n - 1 : a \in Addr /\ mem[a] = NUL

Fill(s, c, n) ==
    /\ Home
    /\ \/ /\ s + n <= MEM
          /\ Called("memset", s, c, n, 1) /\ mem' = memset(mem, s, c, n)
          /\ backward' = FlagAfter(s, n)
       \/ /\ s + 2 * n <= MEM
          /\ Called("memset_word", s, c, n, 2) /\ mem' = memset_word(mem, s, c, n)
          /\ backward' = Cld(backward)
       \/ /\ s + 4 * n <= MEM
          /\ Called("memset_dword", s, c, n, 4) /\ mem' = memset_dword(mem, s, c, n)
          /\ backward' = Cld(backward)
    /\ UNCHANGED <<index, screenVars>>

\* strcpy and strncpy only where the two strings lie apart.
Copy(d, s, n) ==
    /\ Home /\ d + n <= MEM /\ s + n <= MEM
    /\ \/ /\ Called("memcpy", d, s, n, d) /\ mem' = memcpy(mem, d, s, n)
          /\ backward' = FlagAfter(d, n)
       \/ /\ Called("memmove", d, s, n, d) /\ mem' = memmove(mem, d, s, n)
          /\ backward' = IF Downwards(d, s) THEN TRUE ELSE Cld(backward)
       \/ /\ HasString(s, n) /\ s + n <= d
          /\ Called("strcpy", d, s, n, d) /\ mem' = strcpy(mem, d, s)
          /\ UNCHANGED backward
       \/ /\ s + n <= d
          /\ Called("strncpy", d, s, n, d) /\ mem' = strncpy(mem, d, s, n)
          /\ UNCHANGED backward
    /\ UNCHANGED <<index, screenVars>>

Compare(s1, s2, n) ==
    /\ Home /\ HasString(s1, MEM) /\ HasString(s2, MEM)
    /\ Called("compare", s1, s2, n,
           [kernel |-> strncmp(mem, s1, s2, n), user |-> ece391_strncmp(mem, s1, s2, n),
            whole |-> ece391_strcmp(mem, s1, s2)])
    /\ UNCHANGED <<mem, backward, index, screenVars>>

Reversal(s) ==
    /\ Home /\ HasString(s, MEM)
    /\ Called("strrev", s, s, strlen(mem, s), ece391_strrev(mem, s))
    /\ mem' = strrev(mem, s)
    /\ UNCHANGED <<backward, index, screenVars>>

Number(value, radix) ==
    /\ Home /\ mem = Empty
    /\ Called("itoa", 0, value, radix, Digits(value, radix))
    /\ UNCHANGED <<mem, backward, index, screenVars>>

\* printf of a text with one conversion in it; cout gives put_cout the same.
Printf(text) ==
    LET out == Converted(text.before \o text.spec \o text.after, <<text.arg>>)
        scr == puts([x |-> screen_x, y |-> screen_y, cells |-> video], out)
    IN /\ mem = Empty
       /\ Called("printf", 0, 0, Len(out), [out |-> out, of |-> text])
       /\ screen_x' = scr.x /\ screen_y' = scr.y /\ video' = scr.cells
       /\ UNCHANGED <<mem, backward, index>>

reset_scr ==
    /\ mem = Empty /\ Called("reset_scr", 0, 0, 0, 0)
    /\ video' = [c \in DOMAIN video |-> IF c < (NUM_ROWS + 1) * NUM_COLS THEN SP
                                        ELSE video[c]]
    /\ screen_x' = 0 /\ screen_y' = 0
    /\ UNCHANGED <<mem, backward, index>>

Split(line) ==
    LET p == parse(line)
    IN /\ Home /\ mem = Empty
       /\ Called("split", 0, 0, 0,
              [line |-> line, name |-> p.name, args |-> get_arg(line, p.index)])
       /\ index' = p.index
       /\ UNCHANGED <<mem, backward, screenVars>>

Next ==
    /\ call.fn = "none"
    /\ \/ \E s \in Addr, c \in {65, 321}, n \in 0 .. MEM : Fill(s, c, n)
       \/ \E d, s \in Addr, n \in 0 .. MEM : Copy(d, s, n)
       \/ \E s1, s2 \in Addr, n \in 0 .. 3 : Compare(s1, s2, n)
       \/ \E s \in Addr : Reversal(s)
       \/ \E value \in Values, radix \in {10, 16} : Number(value, radix)
       \/ \E text \in Texts : Printf(text)
       \/ \E line \in Lines : Split(line)
       \/ reset_scr

Spec == Init /\ [][Next]_vars

-----------------------------------------------------------------------------
(* What the library promises. *)

\* memset, memset_word and memset_dword fill exactly the units asked for, from
\* any alignment, whatever an earlier call left in the direction flag.  memmove
\* copies every pair of regions, overlapping in either direction; memcpy those
\* whose destination does not begin inside the source; the string copies end
\* with the terminator, strncpy's filled up with zeros.
UnitByte(c, k) == IF k = 0 THEN c % 256 ELSE IF k = 1 THEN c \div 256 ELSE 0
Ended(s, k) == \E j \in 0 .. k - 1 : mem[s + j] = NUL
BlocksExact ==
    [][ LET d == call'.dest  s == call'.src  n == call'.n
            in(a) == a \in d .. d + n - 1
        IN /\ call'.fn \in {"memset", "memset_word", "memset_dword"} =>
                LET w == call'.result
                IN mem' = [a \in Addr |-> IF a \notin d .. d + w * n - 1 THEN mem[a]
                                          ELSE UnitByte(s, (a - d) % w)]
           /\ (\/ call'.fn = "memmove"
               \/ call'.fn = "memcpy" /\ ~(s < d /\ d < s + n)) =>
                mem' = [a \in Addr |-> IF in(a) THEN mem[s + a - d] ELSE mem[a]]
           /\ call'.fn = "strncpy" =>
                mem' = [a \in Addr |-> IF ~in(a) THEN mem[a]
                          ELSE IF Ended(s, a - d) THEN NUL ELSE mem[s + a - d]]
           /\ call'.fn = "strcpy" =>
                mem' = [a \in Addr |-> IF ~in(a) \/ Ended(s, a - d) THEN mem[a]
                                       ELSE mem[s + a - d]] ]_vars

\* strrev turns a string round where it stands and touches nothing behind it;
\* strncmp says 0 for exactly the strings that agree as far as they go.  A
\* program and the kernel find the same strings equal, and order those of
\* characters below 128 alike; their reversals and numerals are the same.
SameUpTo(s1, s2, n) ==
    \E k \in 0 .. n : /\ \A i \in 0 .. k - 1 : mem[s1 + i] = mem[s2 + i]
                      /\ k = n \/ (k > 0 /\ mem[s1 + k - 1] = NUL)
SameSign(i, j) == (i < 0 <=> j < 0) /\ (i = 0 <=> j = 0)
StringsTrue ==
    [][ /\ call'.fn = "strrev" =>
             LET s == call'.src
             IN /\ StringAt(mem, s) = Reverse(StringAt(mem', s))
                /\ \A a \in Addr : a \notin s .. s + call'.n => mem'[a] = mem[a]
        /\ call'.fn = "compare" =>
             LET r == call'.result
             IN /\ r.kernel = 0 <=> SameUpTo(call'.dest, call'.src, call'.n)
                /\ r.kernel = 0 <=> r.user = 0
                /\ r.whole = 0 => r.user = 0
                /\ (\A a \in Addr : mem[a] < 128) => SameSign(r.kernel, r.user)
        /\ call'.fn = "strrev" => call'.result = mem'
        /\ call'.fn = "itoa" =>
             StringAt(ece391_itoa(conv_buf, call'.src, 0, call'.n), 0) = call'.result ]_vars

\* The one numeral of a number: digits of the radix, no zero in front, worth
\* the number.
Worth(digits, radix) ==
    FoldLeft(LAMBDA sum, d : radix * sum + (IF d < 65 THEN d - 48 ELSE d - 55),
             0, digits)
IsNumeral(digits, value, radix) ==
    /\ digits # <<>>
    /\ \A i \in DOMAIN digits :
          digits[i] \in 48 .. 57 \/ (radix = 16 /\ digits[i] \in 65 .. 70)
    /\ digits[1] = 48 => Len(digits) = 1
    /\ Worth(digits, radix) = value
\* itoa writes a number's numeral.  printf leaves the text around a conversion alone and puts in its place what
\* its comment promises: %#x eight digits, %d a sign and the number.
Meant(spec, arg, t) ==
    CASE spec = <<Percent, 120>> -> IsNumeral(t, arg, 16)
      [] spec = <<Percent, Hash, 120>> -> Len(t) = 8 /\ Worth(t, 16) = arg
      [] spec = <<Percent, 117>> -> IsNumeral(t, arg, 10)
      [] spec = <<Percent, 100>> ->
           IF arg < 0 THEN Head(t) = Minus /\ IsNumeral(Tail(t), -arg, 10)
           ELSE IsNumeral(t, arg, 10)
      [] spec = <<Percent, 99>> -> t = <<arg>>
      [] spec = <<Percent, 115>> -> t = arg
      [] spec = <<Percent, Percent>> -> t = <<Percent>>
PrintfTrue ==
    [][ /\ call'.fn = "itoa" => IsNumeral(call'.result, call'.src, call'.n)
        /\ call'.fn = "printf" =>
          LET of == call'.result.of  out == call'.result.out
              b == Len(of.before)  e == Len(out) - Len(of.after)
          IN /\ SubSeq(out, 1, b) = of.before
             /\ SubSeq(out, e + 1, Len(out)) = of.after
             /\ Meant(of.spec, of.arg, SubSeq(out, b + 1, e)) ]_vars

\* A text without line ends stays in the row where it begins, however long it
\* is: every column shows the last character that came to it.
TextKeepsRow ==
    [][ call'.fn = "printf" =>
          LET out == call'.result.out
              reach(x) == {i \in DOMAIN out : (screen_x + i - 1) % NUM_COLS = x}
          IN (\A i \in DOMAIN out : out[i] # NL) =>
               /\ screen_x' = (screen_x + Len(out)) % NUM_COLS /\ screen_y' = screen_y
               /\ video' = [c \in DOMAIN video |->
                     LET x == c % NUM_COLS
                     IN IF c \div NUM_COLS # screen_y \/ reach(x) = {} THEN video[c]
                        ELSE out[CHOOSE i \in reach(x) : \A j \in reach(x) : j <= i]] ]_vars

\* A line that begins with a letter is its name, the character that ends it
\* and its arguments, whatever line was split before; one that begins with a
\* blank names no file.
SplitTrue ==
    [][ call'.fn = "split" =>
          LET r == call'.result
              rest == SubSeq(r.line, Len(r.name) + 1, Len(r.line))
          IN IF r.line = <<>> \/ Head(r.line) = SP THEN r.name = MinusOne
             ELSE /\ r.name \o rest = r.line
                  /\ \A i \in DOMAIN r.name : r.name[i] \notin {SP, NL}
                  /\ IF rest = <<>> THEN r.args = <<>>
                     ELSE Head(rest) \in {SP, NL} /\ r.args = Tail(rest) ]_vars
=============================================================================
