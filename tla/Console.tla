------------------------------ MODULE Console -------------------------------
(***************************************************************************)
(* The debugging console, kernel/dg.c: write_ch with its scrolling, printk *)
(* with its one conversion (\e: a number as hexadecimal digits), clear.    *)
(* Video memory is numbered by cells; the row below the screen is part of  *)
(* it.  Nothing else writes to it, and it is blank when the kernel starts. *)
(* printk is cut between its characters: every screen that can be seen is  *)
(* a state.                                                                *)
(***************************************************************************)
EXTENDS Integers, Sequences

CONSTANTS
    R, C,       \* rows and columns of the screen (25 and 80)
    Y0,         \* the row printk starts in (10)
    Digits,     \* hexadecimal digits of an int (8)
    Strings     \* what is printed: characters <<"a", 0>>, NL and <<"esc", n>>

ASSUME ConsoleAssumption ==
    /\ {R, C, Digits} \subseteq Nat \ {0}
    /\ Y0 \in 0 .. R - 1
    /\ Strings \subseteq Seq(STRING \X Nat)

VARIABLES
    todo,       \* what the running printk has still to print
    x, y,       \* the cursor
    cell,       \* video memory
    log         \* history: the last rows of the text, the current one at the end

vars == <<todo, x, y, cell, log>>

NL    == <<"nl", 0>>
BLANK == <<" ", 0>>

Cells == 0 .. (R + 1) * C - 1

Init ==
    /\ todo = <<>>
    /\ x = 0 /\ y = Y0
    /\ cell = [i \in Cells |-> BLANK]
    /\ log = << <<>> >>

-----------------------------------------------------------------------------
\* putByte and puthex: the digits of n, the highest first.
puthex(n) == [i \in 1 .. Digits |-> <<"0x", (n \div 16 ^ (Digits - i)) % 16>>]

\* Seeded fault: the copy stops a row short.
Scrolled_Short(f) == [i \in Cells |-> IF i < (R - 1) * C THEN f[i + C] ELSE f[i]]

\* The memcpy: rows 1 .. R become 0 .. R - 1; the row below the screen stays.
Scrolled(f) == [i \in Cells |-> IF i < R * C THEN f[i + C] ELSE f[i]]

\* Seeded fault: the limit is a row further down.
Scrolls_Late(addr) == addr > (R + 1) * C

Scrolls(addr) == addr > R * C

\* The text itself: rows of at most C characters, the last R + 1 of them.
Logged(rows, ch) ==
    LET n    == Len(rows)
        cur  == IF ch = NL THEN rows[n] ELSE Append(rows[n], ch)
        full == ch = NL \/ Len(cur) = C
        more == IF full THEN Append([rows EXCEPT ![n] = cur], <<>>) ELSE [rows EXCEPT ![n] = cur]
    IN  IF Len(more) > R + 1 THEN Tail(more) ELSE more

write_ch(ch) ==
    LET put == IF ch = NL THEN cell ELSE [cell EXCEPT ![y * C + x] = ch]
        x1  == IF ch = NL THEN 0 ELSE x + 1
        y1  == (IF ch = NL THEN y + 1 ELSE y) + x1 \div C
        up  == Scrolls(y1 * C + (x1 % C))
    IN  /\ x' = x1 % C
        /\ y' = IF up THEN y1 - 1 ELSE y1
        /\ cell' = IF up THEN Scrolled(put) ELSE put
        /\ log' = Logged(log, ch)

printk(str) ==
    /\ todo = <<>>
    /\ todo' = str
    /\ UNCHANGED <<x, y, cell, log>>

\* printk's loop comes to an \e: the digits of its argument take its place.
Convert ==
    /\ todo # <<>> /\ Head(todo)[1] = "esc"
    /\ todo' = puthex(Head(todo)[2]) \o Tail(todo)
    /\ UNCHANGED <<x, y, cell, log>>

\* printk's loop, or puthex, comes to a character.
Write ==
    /\ todo # <<>> /\ Head(todo)[1] # "esc"
    /\ write_ch(Head(todo))
    /\ todo' = Tail(todo)

\* Seeded fault: R * C is taken for the bytes of the screen.
clear_Half ==
    /\ todo = <<>>
    /\ x' = 0 /\ y' = 0
    /\ cell' = [i \in Cells |-> IF 2 * i < R * C THEN BLANK ELSE cell[i]]
    /\ log' = << <<>> >>
    /\ UNCHANGED todo

clear ==
    /\ todo = <<>>
    /\ x' = 0 /\ y' = 0
    /\ cell' = [i \in Cells |-> IF i < R * C THEN BLANK ELSE cell[i]]
    /\ log' = << <<>> >>
    /\ UNCHANGED todo

Next == (\E str \in Strings : printk(str)) \/ Convert \/ Write \/ clear

Spec == Init /\ [][Next]_vars

-----------------------------------------------------------------------------
\* The cursor is on the screen, or at the first cell below it.
TypeOK ==
    /\ x \in 0 .. C - 1 /\ y \in 0 .. R
    /\ y * C + x <= R * C
    /\ DOMAIN cell = Cells

\* The k-th row of the log counted from the cursor's row, and where it shows.
Row(k) == log[Len(log) - k]
Shown  == {k \in 0 .. Len(log) - 1 : k <= y}

(***************************************************************************)
(* Every character printed is on the screen where the cursor was, moved up *)
(* with its row, until its row leaves the screen: the character written    *)
(* below the screen is carried in by the scroll that follows it, and no    *)
(* scroll loses, repeats or displaces a row.                               *)
(***************************************************************************)
TextKept ==
    \A k \in Shown : \A c \in 1 .. Len(Row(k)) : cell[(y - k) * C + c - 1] = Row(k)[c]

(***************************************************************************)
(* A cell nothing was printed to since the last clear is blank, except in  *)
(* the first column: the row below the screen is scrolled in uncleared,    *)
(* but only its first cell is ever written.                                *)
(***************************************************************************)
StaleOnlyInFirstColumn ==
    \A k \in Shown : \A c \in Len(Row(k)) + 1 .. C :
        c > 1 => cell[(y - k) * C + c - 1] = BLANK

=============================================================================
