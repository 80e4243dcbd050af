------------------------------- MODULE Screen -------------------------------
(***************************************************************************)
(* The text screen (ScPrintChar and ScScrollUp, kernel/drivers/screen.c)   *)
(* and formatted output (kprintEx, kernel/lib/stdio.c), as the kernel and  *)
(* the system call print (SysPrint, kernel/user/syscalls.c) use them.      *)
(*                                                                         *)
(* _line and _column are plain variables that nothing protects: the clock  *)
(* may take the processor from a system call in the middle of ScPrintChar  *)
(* and give it to another one that prints, and the echo of a key is        *)
(* printed wherever the keyboard interrupts: the interrupt handler runs to *)
(* its end before what it interrupted goes on.  The steps below are the    *)
(* loads and stores of the two variables.  Colours and the serial port are *)
(* left out.                                                               *)
(***************************************************************************)
EXTENDS Integers, Sequences, FiniteSets, SequencesExt

CONSTANTS
    Printers,       \* who prints at the same time
    Handlers,       \* those of them that are interrupt handlers
    LINES,          \* rows of the screen: 25
    COLUMNS,        \* 80
    NCells,         \* places of the video memory
    Symbols,          \* the characters
    Calls,          \* of each printer, the calls of kprint it may make
    MaxCalls        \* bound on the calls of each printer

ASSUME SizesAssumption ==
    /\ {LINES, COLUMNS, NCells} \subseteq Nat \ {0}
    /\ NCells >= (LINES + 1) * COLUMNS
ASSUME HandlersAssumption == Handlers \subseteq Printers
ASSUME MaxCallsAssumption == MaxCalls \in [Printers -> Nat]

LF == "LF"
CR == "CR"
HEX == <<"0", "1", "2", "3", "4", "5", "6", "7", "8", "9", "A", "B", "C", "D", "E", "F">>
ASSUME SymbolsAssumption ==
    /\ {LF, CR, " ", "-", "x"} \subseteq Symbols
    /\ \A v \in 0..15 : HEX[v + 1] \in Symbols

INT_MAX == 2147483647

\* The numbers of %d and %x are those of an int, but for the smallest, which
\* has no opposite.
Pieces == [kind : {"char"}, arg : Symbols] \cup [kind : {"s"}, arg : Seq(Symbols)]
              \cup [kind : {"d", "x"}, arg : (-INT_MAX)..INT_MAX]
ASSUME CallsAssumption == \A p \in Printers : \A call \in Calls[p] : call \in Seq(Pieces)

Cells == 0..(NCells - 1)

VARIABLES
    screen,     \* the characters in the video memory
    _line, _column,
    printer,    \* of each printer: where it is, and its locals
    calls,      \* calls made
    said,       \* history: the characters printed, in order
    mixed       \* history: two printers were in ScPrintChar at once

cursor == <<_line, _column>>
screenVars == <<screen, _line, _column, printer, calls, said, mixed>>

-----------------------------------------------------------------------------
(* kprintEx: a call is a sequence of pieces, [kind, arg]; the kinds are a   *)
(* character and the conversions %d, %x and %s.                             *)

\* Mutant: the loop stops at the first digit.
DigitsButFirst(x, base) ==
    LET digits[n \in 0..x] ==
            IF n < base THEN <<>> ELSE Append(digits[n \div base], HEX[(n % base) + 1])
    IN  digits[x]

\* The digits of x > 0, as the loop finds them and the second loop turns them.
Digits(x, base) ==
    LET digits[n \in 0..x] ==
            IF n = 0 THEN <<>> ELSE Append(digits[n \div base], HEX[(n % base) + 1])
    IN  digits[x]

PrintInt(x, base) ==
    (IF x = 0 THEN <<"0">> ELSE <<>>)
        \o (IF x < 0 THEN <<"-">> \o Digits(-x, base) ELSE Digits(x, base))

Converted(piece) ==
    CASE piece.kind = "char" -> <<piece.arg>>
      [] piece.kind = "s" -> piece.arg
      [] piece.kind = "d" -> PrintInt(piece.arg, 10)
      [] piece.kind = "x" -> <<"0", "x">> \o PrintInt(piece.arg, 16)

Idle == [pc |-> "idle", half |-> 0, text |-> <<>>, tmp |-> 0, asked |-> <<>>]

\* ScClear, at the beginning of KernelInit.
ScreenInit ==
    /\ screen = [k \in Cells |-> " "]
    /\ _line = 0
    /\ _column = 0
    /\ printer = [p \in Printers |-> Idle]
    /\ calls = [p \in Printers |-> 0]
    /\ said = <<>>
    /\ mixed = FALSE

IsAt(p, pc) == printer[p].pc = pc
GoesTo(p, pc) == printer' = [printer EXCEPT ![p].pc = pc]
GoesToHalf(p, pc, half) == printer' = [printer EXCEPT ![p].pc = pc, ![p].half = half]
Load(p, x, pc) == printer' = [printer EXCEPT ![p].pc = pc, ![p].tmp = x]
Inside(p) == printer[p].pc \notin {"idle", "char"}

\* A process is stopped while a handler runs.
MayRun(p) == \A q \in Handlers \ {p} : IsAt(q, "idle")

TextOf(call) == FlattenSeq([k \in DOMAIN call |-> Converted(call[k])])

KPrint(p, call) ==
    /\ IsAt(p, "idle")
    /\ calls[p] < MaxCalls[p]
    /\ calls' = [calls EXCEPT ![p] = @ + 1]
    /\ printer' = [printer EXCEPT ![p] =
                    [Idle EXCEPT !.pc = IF TextOf(call) = <<>> THEN "idle" ELSE "char",
                                 !.asked = call, !.text = TextOf(call)]]
    /\ UNCHANGED <<screen, cursor, said, mixed>>

-----------------------------------------------------------------------------
(* ScPrintChar.  half is 0 in the branch of a line feed, 1 before the       *)
(* character is written and 2 after.                                        *)

\* Once two printers are mixed no more is said of what the screen shows.
Shows(s, m) == screen' = IF m THEN [k \in Cells |-> " "] ELSE s

Enter(p) ==
    LET c == Head(printer[p].text)
        others == \E q \in Printers \ {p} : Inside(q)
    IN  /\ IsAt(p, "char")
        /\ printer[p].text # <<>>
        /\ \/ c = LF /\ GoesToHalf(p, "line", 0)
           \/ c = CR /\ GoesToHalf(p, "return", 0)
           \/ c \notin {LF, CR} /\ GoesToHalf(p, "wrap", 1)
        /\ mixed' = (mixed \/ others)
        /\ said' = IF mixed' THEN <<>> ELSE Append(said, c)
        /\ Shows(screen, mixed')
        /\ UNCHANGED <<cursor, calls>>

\* _line++
LoadLine(p) ==
    /\ IsAt(p, "line")
    /\ Load(p, _line, "storeline")
    /\ UNCHANGED <<screen, cursor, calls, said, mixed>>

StoreLine(p) ==
    /\ IsAt(p, "storeline")
    /\ _line' = printer[p].tmp + 1
    /\ Load(p, 0, IF printer[p].half = 0 THEN "return" ELSE "test")
    /\ UNCHANGED <<screen, _column, calls, said, mixed>>

\* _column = 0 of a line feed and a carriage return.
Return(p) ==
    /\ IsAt(p, "return")
    /\ _column' = 0
    /\ GoesToHalf(p, "wrap", 2)
    /\ UNCHANGED <<screen, _line, calls, said, mixed>>

\* Mutant: the cursor may go one column too far.
IsPastLate(column) == column > COLUMNS

IsPast(column) == column > COLUMNS - 1

\* if (_column > COLUMNS - 1)
Wrap(p) ==
    /\ IsAt(p, "wrap")
    /\ GoesTo(p, IF IsPast(_column) THEN "zero" ELSE "test")
    /\ UNCHANGED <<screen, cursor, calls, said, mixed>>

Zero(p) ==
    /\ IsAt(p, "zero")
    /\ _column' = 0
    /\ GoesTo(p, "line")
    /\ UNCHANGED <<screen, _line, calls, said, mixed>>

\* Mutant: the last row stays where it is.
ScrolledShort ==
    [k \in Cells |-> IF k < (LINES - 1) * COLUMNS THEN screen[k + COLUMNS] ELSE screen[k]]

\* ScScrollUp: up to and including the byte behind the 25th row, each byte
\* becomes the one a row below.  The branch that would clear is never taken.
Scrolled ==
    [k \in Cells |-> IF k <= LINES * COLUMNS /\ k + COLUMNS \in Cells THEN screen[k + COLUMNS]
                     ELSE screen[k]]

\* What follows the two tests of the line: the character, or the end.
Tested(p) == IF printer[p].half = 1 THEN "put" ELSE "end"

\* if (_line > LINES) ScScrollUp();
Test(p) ==
    /\ IsAt(p, "test")
    /\ IF _line > LINES THEN Shows(Scrolled, mixed) /\ GoesTo(p, "up")
       ELSE UNCHANGED screen /\ GoesTo(p, Tested(p))
    /\ UNCHANGED <<cursor, calls, said, mixed>>

\* _line--
LoadUp(p) ==
    /\ IsAt(p, "up")
    /\ Load(p, _line, "storeup")
    /\ UNCHANGED <<screen, cursor, calls, said, mixed>>

StoreUp(p) ==
    /\ IsAt(p, "storeup")
    /\ _line' = printer[p].tmp - 1
    /\ Load(p, 0, Tested(p))
    /\ UNCHANGED <<screen, _column, calls, said, mixed>>

\* The place at which the character is written.
Place == _column + _line * COLUMNS

Put(p) ==
    /\ IsAt(p, "put")
    /\ Shows([k \in Cells |-> IF k = Place THEN Head(printer[p].text) ELSE screen[k]], mixed)
    /\ GoesTo(p, "column")
    /\ UNCHANGED <<cursor, calls, said, mixed>>

\* _column++
LoadColumn(p) ==
    /\ IsAt(p, "column")
    /\ Load(p, _column, "storecolumn")
    /\ UNCHANGED <<screen, cursor, calls, said, mixed>>

StoreColumn(p) ==
    /\ IsAt(p, "storecolumn")
    /\ _column' = printer[p].tmp + 1
    /\ printer' = [printer EXCEPT ![p].pc = "wrap", ![p].half = 2, ![p].tmp = 0]
    /\ UNCHANGED <<screen, _line, calls, said, mixed>>

\* The character is done; kprintEx takes the next one, or returns.
Leave(p) ==
    LET rest == Tail(printer[p].text)
    IN  /\ IsAt(p, "end")
        /\ printer' = [printer EXCEPT ![p] =
                         IF rest = <<>> THEN Idle
                         ELSE [@ EXCEPT !.pc = "char", !.half = 0, !.text = rest]]
        /\ UNCHANGED <<screen, cursor, calls, said, mixed>>

Step(p) ==
    \/ Enter(p) \/ LoadLine(p) \/ StoreLine(p) \/ Return(p) \/ Wrap(p) \/ Zero(p)
    \/ Test(p) \/ LoadUp(p) \/ StoreUp(p) \/ Put(p) \/ LoadColumn(p) \/ StoreColumn(p)
    \/ Leave(p)

ScreenNext == \E p \in Printers :
            MayRun(p) /\ (Step(p) \/ \E call \in Calls[p] : KPrint(p, call))

ScreenSpec == ScreenInit /\ [][ScreenNext]_screenVars

-----------------------------------------------------------------------------
(* Properties.                                                             *)

Pcs == {"idle", "char", "line", "storeline", "return", "wrap", "zero", "test", "up", "storeup",
        "put", "column", "storecolumn", "end"}

ScreenTypeOK ==
    /\ screen \in [Cells -> Symbols]
    /\ _line \in Int /\ _column \in Int
    /\ \A p \in Printers : /\ printer[p].pc \in Pcs /\ printer[p].half \in 0..2
                           /\ printer[p].text \in Seq(Symbols) /\ printer[p].tmp \in Int
                           /\ calls[p] \in 0..MaxCalls[p]
    /\ mixed \in BOOLEAN

\* Wherever the echo of a key interrupts a process that prints, characters
\* are written into the video memory and the cursor stays on the screen or on
\* the row below it, which both of them may pass before they test it: by a
\* row each, the echo only until it returns (screen.c:23-48).
CursorIsBounded ==
    /\ ScreenTypeOK
    /\ _line \in 0..(LINES + 2) /\ _column \in 0..COLUMNS
    /\ (\A p \in Handlers : IsAt(p, "idle")) => _line <= LINES + 1
    /\ (\A p \in Printers : ~Inside(p)) => _line <= LINES /\ _column < COLUMNS
    /\ \A p \in Printers : (IsAt(p, "put") /\ MayRun(p)) => Place \in Cells /\ _column < COLUMNS

\* A terminal: its rows so far and the column.
Written(row, col, c) ==
    IF col < Len(row) THEN [row EXCEPT ![col + 1] = c] ELSE Append(row, c)
Told(t, c) ==
    IF c = LF THEN [rows |-> Append(t.rows, <<>>), col |-> 0]
    ELSE IF c = CR THEN [rows |-> t.rows, col |-> 0]
    ELSE LET rows == [t.rows EXCEPT ![Len(t.rows)] = Written(@, t.col, c)]
         IN  IF t.col + 1 < COLUMNS THEN [rows |-> rows, col |-> t.col + 1]
             ELSE [rows |-> Append(rows, <<>>), col |-> 0]
Terminal(chars) ==
    LET after[k \in 0..Len(chars)] ==
            IF k = 0 THEN [rows |-> << <<>> >>, col |-> 0] ELSE Told(after[k - 1], chars[k])
    IN  after[Len(chars)]

\* Unless two printers were in ScPrintChar at once, the screen shows what was
\* printed: the cursor is where a terminal has it, its row is the last one
\* that fits (row LINES, the one below the screen), the rows above are the
\* rows before, and each begins with its text.  (What follows the text may
\* be left over from an older row.)
TextIsShown ==
    LET t == Terminal(said)
        n == Len(t.rows)
    IN  (~mixed /\ \A p \in Printers : ~Inside(p)) =>
            /\ _line = IF n - 1 < LINES THEN n - 1 ELSE LINES
            /\ _column = t.col
            /\ \A r \in 0.._line :
                  LET row == t.rows[n - _line + r]
                  IN  \A c \in DOMAIN row : screen[r * COLUMNS + c - 1] = row[c]

\* The number that digits spell, and with the sign before them.
ValueOf(c) == CHOOSE v \in 0..15 : HEX[v + 1] = c
Value(digits, base) ==
    LET value[k \in 0..Len(digits)] ==
            IF k = 0 THEN 0 ELSE value[k - 1] * base + ValueOf(digits[k])
    IN  value[Len(digits)]
Spelled(chars, base) ==
    IF Head(chars) = "-" THEN -Value(Tail(chars), base) ELSE Value(chars, base)

\* A number is printed so that it can be read: in its base, without leading
\* zeros, the sign first (printInt).
NumbersAreSpelled ==
    \A p \in Printers : \A k \in DOMAIN printer[p].asked :
        LET piece == printer[p].asked[k]
            base == IF piece.kind = "d" THEN 10 ELSE 16
            digits == IF piece.kind = "d" THEN Converted(piece) ELSE Tail(Tail(Converted(piece)))
        IN  piece.kind \in {"d", "x"} =>
                /\ digits # <<>> /\ Spelled(digits, base) = piece.arg
                /\ Head(digits) = "0" => Len(digits) = 1
=============================================================================
