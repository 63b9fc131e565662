--------------------------- MODULE ConsoleProofs ----------------------------
(***************************************************************************)
(* Proofs about Console, for every size of the screen and every text.      *)
(*                                                                         *)
(* Good says of video memory f and the rows of the text that, with the     *)
(* cursor in row cy, every row still on the screen shows its characters    *)
(* and then blanks, and that the rows below the cursor are blank, the      *)
(* first column always excepted.  It is shown to survive the parts of      *)
(* write_ch one by one: the store, the step to the next row and the memcpy *)
(* that scrolls.                                                           *)
(***************************************************************************)
EXTENDS Console, Counting

\* The cell of row r and column c.
At(r, c) == r * C + c

Columns == 0 .. C - 1

\* Items of a string, and the digits they are converted to.
Glyph == (STRING \X Nat) \cup {puthex(n)[i] : n \in Nat, i \in 1 .. Digits}

Good(f, rows, cy) ==
    /\ \A k \in 0 .. Len(rows) - 1 : \A c \in Columns : k <= cy =>
          /\ c < Len(rows[Len(rows) - k]) => f[At(cy - k, c)] = rows[Len(rows) - k][c + 1]
          /\ c >= Len(rows[Len(rows) - k]) /\ c > 0 => f[At(cy - k, c)] = BLANK
    /\ \A r \in cy + 1 .. R : \A c \in Columns : c > 0 => f[At(r, c)] = BLANK

Cursor == x \in Columns /\ y \in 0 .. R /\ (y = R => x = 0)

Text ==
    /\ todo \in Seq(Glyph)
    /\ log \in Seq(Seq(Glyph))
    /\ Len(log) \in 1 .. R + 1
    /\ Len(log[Len(log)]) = x
    /\ \A i \in 1 .. Len(log) : Len(log[i]) <= C

Memory == cell = [i \in Cells |-> cell[i]]

ConInv == Cursor /\ Text /\ Memory /\ Good(cell, log, y)

-----------------------------------------------------------------------------
(***************************************************************************)
(* Rows and columns number the cells without overlap.                      *)
(***************************************************************************)
LEMMA AtProperties ==
  ASSUME NEW r \in Nat, NEW c \in Columns
  PROVE  /\ At(r, c) \in Nat
         /\ r <= R => At(r, c) \in Cells
         /\ At(r, c) < R * C <=> r < R
         /\ At(r, c) + C = At(r + 1, c)
         /\ At(r, c) > R * C <=> r > R \/ (r = R /\ c > 0)
         /\ \A q \in Nat : \A d \in Columns : At(r, c) = At(q, d) => r = q /\ c = d
<1>0. R \in Nat /\ C \in Nat /\ C > 0 /\ R > 0
  BY ConsoleAssumption
<1>1. ASSUME NEW a \in Nat, NEW b \in Nat, a < b PROVE a * C + C <= b * C
  <2>1. ASSUME NEW d \in Nat, d >= 1 PROVE d * C >= C
    BY <1>0, <2>1
  <2>2. (b - a) * C >= C
    BY <1>1, <2>1
  <2> QED BY <1>0, <2>2
<1>2. ASSUME NEW a \in Nat PROVE a * C \in Nat /\ (a + 1) * C = a * C + C
  BY <1>0
<1>3. c \in Nat /\ c < C
  BY <1>0 DEF Columns
<1>4. At(r, c) \in Nat /\ At(r, c) + C = At(r + 1, c)
  BY <1>0, <1>2, <1>3 DEF At
<1>5. At(r, c) < R * C <=> r < R
  <2>1. r < R => At(r, c) < R * C
    BY <1>0, <1>1, <1>2, <1>3 DEF At
  <2>2. r > R => At(r, c) >= R * C
    BY <1>0, <1>1, <1>2, <1>3 DEF At
  <2>3. r = R => At(r, c) >= R * C
    BY <1>0, <1>2, <1>3 DEF At
  <2> QED BY <1>0, <1>2, <1>4, <2>1, <2>2, <2>3
<1>6. At(r, c) > R * C <=> r > R \/ (r = R /\ c > 0)
  <2>1. r > R => At(r, c) > R * C
    BY <1>0, <1>1, <1>2, <1>3 DEF At
  <2>2. r = R => (At(r, c) > R * C <=> c > 0)
    BY <1>0, <1>2, <1>3 DEF At
  <2> QED BY <1>0, <1>2, <1>4, <1>5, <2>1, <2>2
<1>7. r <= R => At(r, c) \in Cells
  <2>1. ASSUME r <= R PROVE At(r, c) < (R + 1) * C
    BY <1>0, <1>1, <1>2, <1>3, <2>1 DEF At
  <2> QED BY <1>0, <1>4, <2>1 DEF Cells
<1>8. ASSUME NEW q \in Nat, NEW d \in Columns, At(r, c) = At(q, d) PROVE r = q /\ c = d
  <2>1. d \in Nat /\ d < C
    BY <1>0 DEF Columns
  <2>2. ~(r < q)
    BY <1>0, <1>1, <1>2, <1>3, <1>8, <2>1 DEF At
  <2>3. ~(q < r)
    BY <1>0, <1>1, <1>2, <1>3, <1>8, <2>1 DEF At
  <2>4. r = q
    BY <2>2, <2>3
  <2> QED BY <1>2, <1>3, <1>8, <2>1, <2>4 DEF At
<1> QED BY <1>4, <1>5, <1>6, <1>7, <1>8

Rows == Seq(Seq(Glyph))

(***************************************************************************)
(* Numbers of the screen.                                                  *)
(***************************************************************************)
LEMMA ScreenSize ==
  /\ R \in Nat /\ C \in Nat /\ C > 0 /\ R > 0 /\ Columns \subseteq Nat /\ 0 \in Columns
  /\ \A c \in Columns : c < C
  BY ConsoleAssumption DEF Columns

(***************************************************************************)
(* write_ch stores a character: it is shown behind those of its row, and   *)
(* no other cell changes.                                                  *)
(***************************************************************************)
LEMMA Stored ==
  ASSUME NEW rows \in Rows, rows # <<>>, NEW cx \in Columns, NEW cy \in 0 .. R, NEW f, NEW ch \in Glyph,
         f = [i \in Cells |-> f[i]], Len(rows[Len(rows)]) = cx, Good(f, rows, cy)
  PROVE  Good([f EXCEPT ![At(cy, cx)] = ch],
              [rows EXCEPT ![Len(rows)] = Append(rows[Len(rows)], ch)], cy)
<1> DEFINE n == Len(rows)
           row == rows[n]
           new == Append(row, ch)
           more == [rows EXCEPT ![n] = new]
           g == [f EXCEPT ![At(cy, cx)] = ch]
<1>1. n \in Nat /\ n >= 1 /\ DOMAIN rows = 1 .. n /\ \A i \in 1 .. n : rows[i] \in Seq(Glyph)
  BY LenProperties, EmptySeq, ElementOfSeq DEF Rows
<1>2. /\ Len(new) = cx + 1 /\ new[cx + 1] = ch
      /\ \A i \in 1 .. cx : new[i] = row[i]
  BY <1>1, Grown
<1>3. /\ Len(more) = n /\ more[n] = new /\ \A i \in 1 .. n : i # n => more[i] = rows[i]
  BY <1>1, ExceptSeq DEF Rows
<1>4. /\ \A r \in 0 .. R : \A c \in Columns :
            g[At(r, c)] = IF r = cy /\ c = cx THEN ch ELSE f[At(r, c)]
  <2>1. ASSUME NEW r \in 0 .. R, NEW c \in Columns
        PROVE  /\ At(r, c) \in Cells
               /\ At(r, c) = At(cy, cx) <=> r = cy /\ c = cx
    <3>1. r \in Nat /\ r <= R /\ cy \in Nat
      BY ScreenSize
    <3>2. At(r, c) \in Cells
      BY <3>1, AtProperties
    <3>3. At(r, c) = At(cy, cx) => r = cy /\ c = cx
      BY <3>1, AtProperties
    <3> QED BY <3>2, <3>3
  <2>2. At(cy, cx) \in Cells
    BY <2>1
  <2> QED BY <2>1, <2>2
<1> HIDE DEF new, more, g, row, n
<1>5. ASSUME NEW k \in 0 .. n - 1, NEW c \in Columns, k <= cy
      PROVE  /\ c < Len(more[n - k]) => g[At(cy - k, c)] = more[n - k][c + 1]
             /\ c >= Len(more[n - k]) /\ c > 0 => g[At(cy - k, c)] = BLANK
  <2>1. cy - k \in 0 .. R /\ n - k \in 1 .. n /\ c \in Nat
    BY <1>1, <1>5, ScreenSize
  <2>2. g[At(cy - k, c)] = IF k = 0 /\ c = cx THEN ch ELSE f[At(cy - k, c)]
    <3>1. cy - k = cy <=> k = 0
      BY <1>5, ScreenSize
    <3> QED BY <1>4, <2>1, <3>1
  <2>3. /\ c < Len(rows[n - k]) => f[At(cy - k, c)] = rows[n - k][c + 1]
        /\ c >= Len(rows[n - k]) /\ c > 0 => f[At(cy - k, c)] = BLANK
    BY <1>5 DEF Good, n
  <2>4. CASE k = 0
    <3>1. n - k = n /\ more[n] = new /\ rows[n] = row /\ Len(row) = cx
      BY <1>1, <1>3, <2>4 DEF n, row
    <3>2. c + 1 \in Nat /\ (c < cx => c + 1 \in 1 .. cx) /\ cx \in Nat
      BY <2>1, ScreenSize
    <3> QED BY <1>2, <2>1, <2>2, <2>3, <2>4, <3>1, <3>2
  <2>5. CASE k # 0
    <3>1. more[n - k] = rows[n - k]
      BY <1>1, <1>3, <2>1, <2>5
    <3> QED BY <2>2, <2>3, <2>5, <3>1
  <2> QED BY <2>4, <2>5
<1>6. ASSUME NEW r \in cy + 1 .. R, NEW c \in Columns, c > 0 PROVE g[At(r, c)] = BLANK
  <2>1. r \in 0 .. R /\ r # cy
    BY ScreenSize
  <2> QED BY <1>4, <1>6, <2>1 DEF Good
<1>7. Good(g, more, cy)
  BY <1>3, <1>5, <1>6 DEF Good
<1> QED BY <1>7 DEF g, more, new, row, n

(***************************************************************************)
(* The cursor goes to the next row of the screen, which is blank.          *)
(***************************************************************************)
LEMMA NextRow ==
  ASSUME NEW rows \in Rows, NEW cy \in 0 .. R - 1, NEW f, Good(f, rows, cy)
  PROVE  Good(f, Append(rows, <<>>), cy + 1)
<1> DEFINE n == Len(rows)
           more == Append(rows, <<>>)
<1>1. /\ n \in Nat /\ Len(more) = n + 1 /\ more[n + 1] = <<>> /\ Len(<<>>) = 0
      /\ \A i \in 1 .. n : more[i] = rows[i]
  BY Grown, EmptySeq DEF Rows
<1> HIDE DEF more, n
<1>2. ASSUME NEW k \in 0 .. n, NEW c \in Columns, k <= cy + 1
      PROVE  /\ c < Len(more[n + 1 - k]) => f[At(cy + 1 - k, c)] = more[n + 1 - k][c + 1]
             /\ c >= Len(more[n + 1 - k]) /\ c > 0 => f[At(cy + 1 - k, c)] = BLANK
  <2>1. CASE k = 0
    <3>1. n + 1 - k = n + 1 /\ cy + 1 - k = cy + 1 /\ cy + 1 \in cy + 1 .. R /\ ~(c < 0)
      BY <1>1, <2>1, ScreenSize
    <3> QED BY <1>1, <3>1 DEF Good
  <2>2. CASE k # 0
    <3>1. k - 1 \in 0 .. n - 1 /\ n + 1 - k = n - (k - 1) /\ cy + 1 - k = cy - (k - 1) /\ k - 1 <= cy
          /\ n - (k - 1) \in 1 .. n
      BY <1>1, <1>2, <2>2, ScreenSize
    <3>2. more[n - (k - 1)] = rows[n - (k - 1)]
      BY <1>1, <3>1
    <3> QED BY <3>1, <3>2 DEF Good, n
  <2> QED BY <2>1, <2>2
<1>3. \A r \in cy + 2 .. R : \A c \in Columns : c > 0 => f[At(r, c)] = BLANK
  <2>1. ASSUME NEW r \in cy + 2 .. R PROVE r \in cy + 1 .. R
    BY ScreenSize
  <2> QED BY <2>1 DEF Good
<1>4. Good(f, more, cy + 1)
  <2>1. Len(more) - 1 = n /\ cy + 1 + 1 = cy + 2
    BY <1>1, ScreenSize
  <2> QED BY <1>1, <1>2, <1>3, <2>1 DEF Good
<1> QED BY <1>4 DEF more

(***************************************************************************)
(* The memcpy, when at most one character is below the screen: every row   *)
(* goes up by one, and the row below the screen is blank but for its first *)
(* cell.                                                                   *)
(***************************************************************************)
LEMMA ScrolledUp ==
  ASSUME NEW rows \in Rows, rows # <<>>, Len(rows[Len(rows)]) <= 1, NEW f, Good(f, rows, R)
  PROVE  Good(Scrolled(f), rows, R - 1)
<1> DEFINE n == Len(rows)
           g == Scrolled(f)
<1>1. n \in Nat /\ n >= 1 /\ \A i \in 1 .. n : rows[i] \in Seq(Glyph) /\ Len(rows[i]) \in Nat
  BY LenProperties, EmptySeq, ElementOfSeq DEF Rows
<1>2. ASSUME NEW r \in 0 .. R - 1, NEW c \in Columns PROVE g[At(r, c)] = f[At(r + 1, c)]
  <2>1. r \in Nat /\ r < R /\ r <= R
    BY ScreenSize
  <2>2. At(r, c) \in Cells /\ At(r, c) < R * C /\ At(r, c) + C = At(r + 1, c)
    BY <2>1, AtProperties
  <2> QED BY <2>2 DEF Scrolled
<1>3. ASSUME NEW c \in Columns PROVE g[At(R, c)] = f[At(R, c)]
  <2>1. At(R, c) \in Cells /\ ~(At(R, c) < R * C)
    BY ScreenSize, AtProperties
  <2> QED BY <2>1 DEF Scrolled
<1> HIDE DEF n, g
<1>4. ASSUME NEW k \in 0 .. n - 1, NEW c \in Columns, k <= R - 1
      PROVE  /\ c < Len(rows[n - k]) => g[At(R - 1 - k, c)] = rows[n - k][c + 1]
             /\ c >= Len(rows[n - k]) /\ c > 0 => g[At(R - 1 - k, c)] = BLANK
  <2>1. R - 1 - k \in 0 .. R - 1 /\ R - 1 - k + 1 = R - k /\ k <= R
    BY <1>4, ScreenSize
  <2>2. g[At(R - 1 - k, c)] = f[At(R - k, c)]
    BY <1>2, <2>1
  <2> QED BY <2>1, <2>2 DEF Good, n
<1>5. ASSUME NEW c \in Columns, c > 0 PROVE g[At(R, c)] = BLANK
  <2>1. 0 \in 0 .. n - 1 /\ n - 0 = n /\ R - 0 = R /\ 0 <= R /\ c >= Len(rows[n])
    BY <1>1, <1>5, ScreenSize DEF n
  <2>2. f[At(R, c)] = BLANK
    BY <1>5, <2>1 DEF Good, n
  <2> QED BY <1>3, <2>2
<1>6. Good(g, rows, R - 1)
  <2>1. ASSUME NEW r \in R - 1 + 1 .. R PROVE r = R
    BY ScreenSize
  <2> QED BY <1>4, <1>5, <2>1 DEF Good, n
<1> QED BY <1>6 DEF g

(***************************************************************************)
(* A row that has left the log takes nothing with it.                      *)
(***************************************************************************)
LEMMA RowDropped ==
  ASSUME NEW rows \in Rows, Len(rows) > 1, NEW cy \in 0 .. R, NEW f, Good(f, rows, cy)
  PROVE  Good(f, Tail(rows), cy)
<1> DEFINE n == Len(rows)
           less == Tail(rows)
<1>1. n \in Nat /\ Len(less) = n - 1 /\ \A i \in 1 .. n - 1 : less[i] = rows[i + 1]
  <2>1. rows # <<>>
    BY EmptySeq DEF Rows
  <2> QED BY <2>1, Shrunk DEF Rows
<1> HIDE DEF n, less
<1>2. ASSUME NEW k \in 0 .. n - 2
      PROVE  k \in 0 .. n - 1 /\ less[n - 1 - k] = rows[n - k]
  <2>1. n - 1 - k \in 1 .. n - 1 /\ n - 1 - k + 1 = n - k
    BY <1>1
  <2> QED BY <1>1, <2>1
<1>3. Good(f, less, cy)
  <2>1. Len(less) - 1 = n - 2
    BY <1>1
  <2>2. ASSUME NEW k \in 0 .. n - 2, NEW c \in Columns, k <= cy
        PROVE  /\ c < Len(less[n - 1 - k]) => f[At(cy - k, c)] = less[n - 1 - k][c + 1]
               /\ c >= Len(less[n - 1 - k]) /\ c > 0 => f[At(cy - k, c)] = BLANK
    BY <1>2, <2>2 DEF Good, n
  <2> QED BY <1>1, <2>1, <2>2 DEF Good
<1> QED BY <1>3 DEF less

(***************************************************************************)
(* Where write_ch leaves the cursor: it scrolls exactly when it started in *)
(* the row below the screen.                                               *)
(***************************************************************************)
LEMMA CursorMoves ==
  ASSUME NEW cx \in Columns, NEW cy \in 0 .. R, cy = R => cx = 0, NEW nl \in BOOLEAN
  PROVE  LET x1   == IF nl THEN 0 ELSE cx + 1
             y1   == (IF nl THEN cy + 1 ELSE cy) + x1 \div C
             full == nl \/ cx + 1 = C
         IN  /\ x1 % C = IF full THEN 0 ELSE cx + 1
             /\ y1 = IF full THEN cy + 1 ELSE cy
             /\ Scrolls(y1 * C + (x1 % C)) <=> cy = R
<1> DEFINE x1 == IF nl THEN 0 ELSE cx + 1
           y1 == (IF nl THEN cy + 1 ELSE cy) + x1 \div C
           full == nl \/ cx + 1 = C
<1>0. R \in Nat /\ C \in Nat /\ C > 0 /\ cx \in Nat /\ cx < C /\ cy \in Nat /\ cy <= R
  BY ScreenSize
<1>1. x1 \in Nat /\ (x1 = C \/ x1 < C) /\ (x1 = C <=> ~nl /\ cx + 1 = C) /\ (nl => x1 = 0)
  BY <1>0
<1>2. x1 = C => x1 \div C = 1 /\ x1 % C = 0
  BY <1>0
<1>3. x1 < C => x1 \div C = 0 /\ x1 % C = x1
  BY <1>0, <1>1
<1>4. x1 % C = (IF full THEN 0 ELSE cx + 1) /\ y1 = (IF full THEN cy + 1 ELSE cy)
  BY <1>0, <1>1, <1>2, <1>3
<1>5. x1 % C \in Columns /\ y1 \in Nat
  BY <1>0, <1>1, <1>2, <1>3, <1>4 DEF Columns
<1>6. Scrolls(y1 * C + (x1 % C)) <=> y1 > R \/ (y1 = R /\ x1 % C > 0)
  BY <1>5, AtProperties DEF Scrolls, At
<1> HIDE DEF x1, y1
<1>7. y1 > R \/ (y1 = R /\ x1 % C > 0) <=> cy = R
  BY <1>0, <1>4
<1>8. QED BY <1>4, <1>6, <1>7 DEF x1, y1

(***************************************************************************)
(* The log keeps its shape: rows of at most C characters, the current one  *)
(* at the end, and one row more than the screen has at most.               *)
(***************************************************************************)
LEMMA LoggedShape ==
  ASSUME NEW rows \in Rows, Len(rows) \in 1 .. R + 1, NEW ch \in Glyph,
         \A i \in 1 .. Len(rows) : Len(rows[i]) <= C, Len(rows[Len(rows)]) < C
  PROVE  LET n    == Len(rows)
             cur  == IF ch = NL THEN rows[n] ELSE Append(rows[n], ch)
             full == ch = NL \/ Len(cur) = C
             new  == [rows EXCEPT ![n] = cur]
             more == IF full THEN Append(new, <<>>) ELSE new
             kept == Logged(rows, ch)
         IN  /\ new \in Rows /\ new # <<>> /\ more \in Rows /\ kept \in Rows
             /\ Len(new) = n /\ new[n] = cur
             /\ Len(more) > R + 1 => kept = Tail(more)
             /\ Len(more) <= R + 1 => kept = more
             /\ Len(kept) \in 1 .. R + 1
             /\ Len(kept[Len(kept)]) = IF full THEN 0 ELSE Len(cur)
             /\ \A i \in 1 .. Len(kept) : Len(kept[i]) <= C
<1> DEFINE n    == Len(rows)
           cur  == IF ch = NL THEN rows[n] ELSE Append(rows[n], ch)
           full == ch = NL \/ Len(cur) = C
           new  == [rows EXCEPT ![n] = cur]
           more == IF full THEN Append(new, <<>>) ELSE new
           kept == Logged(rows, ch)
<1>0. R \in Nat /\ C \in Nat /\ C > 0 /\ R > 0
  BY ScreenSize
<1>1. n \in 1 .. R + 1 /\ n \in Nat /\ \A i \in 1 .. n : rows[i] \in Seq(Glyph)
  BY <1>0, ElementOfSeq DEF Rows
<1>2. rows[n] \in Seq(Glyph) /\ Len(rows[n]) \in Nat
  BY <1>0, <1>1, LenProperties
<1>3. cur \in Seq(Glyph) /\ Len(cur) \in Nat /\ Len(cur) <= C
  BY <1>0, <1>2, Grown
<1>4. /\ new \in Rows /\ new # <<>> /\ Len(new) = n /\ new[n] = cur
      /\ \A i \in 1 .. n : i # n => new[i] = rows[i]
  <2> HIDE DEF cur
  <2>1. n \in 1 .. Len(rows)
    BY <1>1
  <2>2. new \in Rows /\ Len(new) = n /\ new[n] = cur /\ \A i \in 1 .. n : i # n => new[i] = rows[i]
    BY <1>3, <2>1, ExceptSeq DEF Rows
  <2>3. new # <<>>
    <3>1. n # 0 /\ Len(<<>>) = 0
      BY <1>1, <1>0
    <3> HIDE DEF new, n
    <3> QED BY <2>2, <3>1
  <2> QED BY <2>2, <2>3
<1>5. \A i \in 1 .. n : Len(new[i]) <= C
  BY <1>0, <1>1, <1>3, <1>4
<1>6. kept = IF Len(more) > R + 1 THEN Tail(more) ELSE more
  BY DEF Logged
<1> HIDE DEF cur, new, kept, n
<1>7. /\ more \in Rows /\ Len(more) \in Nat /\ Len(more) >= 1 /\ Len(more) <= R + 2
      /\ Len(more[Len(more)]) = IF full THEN 0 ELSE Len(cur)
      /\ \A i \in 1 .. Len(more) : Len(more[i]) <= C
  <2>1. CASE full
    <3>1. <<>> \in Seq(Glyph) /\ Len(<<>>) = 0
      BY EmptySeq
    <3>2. /\ Append(new, <<>>) \in Rows /\ Len(Append(new, <<>>)) = n + 1
          /\ Append(new, <<>>)[n + 1] = <<>>
          /\ \A i \in 1 .. n : Append(new, <<>>)[i] = new[i]
      BY <1>4, <3>1, Grown DEF Rows
    <3>3. more = Append(new, <<>>)
      BY <2>1
    <3> HIDE DEF full
    <3>4. \A i \in 1 .. n + 1 : i = n + 1 \/ i \in 1 .. n
      BY <1>1
    <3> QED BY <1>0, <1>1, <1>5, <2>1, <3>1, <3>2, <3>3, <3>4
  <2>2. CASE ~full
    BY <1>0, <1>1, <1>4, <1>5, <2>2
  <2> QED BY <2>1, <2>2
<1> HIDE DEF more, full
<1>8. /\ Len(more) > R + 1 => kept = Tail(more)
      /\ Len(more) <= R + 1 => kept = more
      /\ kept \in Rows /\ Len(kept) \in 1 .. R + 1
      /\ Len(kept[Len(kept)]) = IF full THEN 0 ELSE Len(cur)
      /\ \A i \in 1 .. Len(kept) : Len(kept[i]) <= C
  <2>1. CASE Len(more) > R + 1
    <3>1. kept = Tail(more) /\ Len(more) = R + 2 /\ more # <<>>
      BY <1>0, <1>6, <1>7, <2>1, EmptySeq
    <3>2. kept \in Rows /\ Len(kept) = R + 1 /\ \A i \in 1 .. R + 1 : kept[i] = more[i + 1]
      BY <1>0, <1>7, <3>1, Shrunk DEF Rows
    <3>3. Len(kept[Len(kept)]) = IF full THEN 0 ELSE Len(cur)
      BY <1>0, <1>7, <3>1, <3>2
    <3>4. \A i \in 1 .. Len(kept) : Len(kept[i]) <= C
      BY <1>0, <1>7, <3>1, <3>2
    <3> QED BY <1>0, <2>1, <3>1, <3>2, <3>3, <3>4
  <2>2. CASE Len(more) <= R + 1
    BY <1>0, <1>6, <1>7, <2>2
  <2> QED BY <1>0, <1>7, <2>1, <2>2
<1> QED BY <1>4, <1>7, <1>8 DEF n, cur, new, more, full, kept

(***************************************************************************)
(* A whole write_ch.                                                       *)
(***************************************************************************)
LEMMA WriteKeeps ==
  ASSUME ConInv, NEW ch \in Glyph, write_ch(ch)
  PROVE  /\ Cursor' /\ Memory' /\ Good(cell, log, y)'
         /\ log' \in Rows /\ Len(log') \in 1 .. R + 1 /\ Len(log'[Len(log')]) = x'
         /\ \A i \in 1 .. Len(log') : Len(log'[i]) <= C
<1> DEFINE nl   == ch = NL
           n    == Len(log)
           cur  == IF nl THEN log[n] ELSE Append(log[n], ch)
           full == nl \/ Len(cur) = C
           new  == [log EXCEPT ![n] = cur]
           more == IF full THEN Append(new, <<>>) ELSE new
           put  == IF nl THEN cell ELSE [cell EXCEPT ![y * C + x] = ch]
           x1   == IF nl THEN 0 ELSE x + 1
           y1   == (IF nl THEN y + 1 ELSE y) + x1 \div C
           cy   == IF y = R THEN R - 1 ELSE y
           g    == IF y = R THEN Scrolled(put) ELSE put
<1>0. R \in Nat /\ C \in Nat /\ C > 0 /\ R > 0 /\ Columns \subseteq Nat
  BY ScreenSize
<1>1. /\ x \in Columns /\ x \in Nat /\ x < C /\ y \in 0 .. R /\ (y = R => x = 0)
      /\ log \in Rows /\ n \in 1 .. R + 1 /\ Len(log[n]) = x /\ log # <<>>
      /\ log[n] \in Seq(Glyph)
  <2>1. log \in Rows /\ n \in 1 .. R + 1 /\ n \in Nat /\ Len(log[n]) = x
    BY <1>0 DEF ConInv, Text, Rows
  <2>2. log # <<>>
    <3>1. n # 0 /\ Len(<<>>) = 0
      BY <1>0, <2>1
    <3> QED BY <3>1
  <2>3. log[n] \in Seq(Glyph)
    BY <1>0, <2>1, ElementOfSeq DEF Rows
  <2> QED BY <1>0, <2>1, <2>2, <2>3, ScreenSize DEF ConInv, Cursor
<1>2. /\ x' = x1 % C
      /\ y' = IF Scrolls(y1 * C + (x1 % C)) THEN y1 - 1 ELSE y1
      /\ cell' = IF Scrolls(y1 * C + (x1 % C)) THEN Scrolled(put) ELSE put
      /\ log' = Logged(log, ch)
  BY DEF write_ch
<1>3. /\ x1 % C = IF nl \/ x + 1 = C THEN 0 ELSE x + 1
      /\ y1 = IF nl \/ x + 1 = C THEN y + 1 ELSE y
      /\ Scrolls(y1 * C + (x1 % C)) <=> y = R
  <2> HIDE DEF nl
  <2>1. nl \in BOOLEAN
    BY DEF nl
  <2> QED BY <1>1, <2>1, CursorMoves
<1>4. Len(cur) = (IF nl THEN x ELSE x + 1) /\ (full <=> nl \/ x + 1 = C)
  BY <1>0, <1>1, Grown
<1>5. /\ new \in Rows /\ new # <<>> /\ more \in Rows /\ log' \in Rows
      /\ Len(new) = n /\ new[n] = cur
      /\ Len(more) > R + 1 => log' = Tail(more)
      /\ Len(more) <= R + 1 => log' = more
      /\ Len(log') \in 1 .. R + 1
      /\ Len(log'[Len(log')]) = IF full THEN 0 ELSE Len(cur)
      /\ \A i \in 1 .. Len(log') : Len(log'[i]) <= C
  <2>1. \A i \in 1 .. Len(log) : Len(log[i]) <= C
    BY DEF ConInv, Text
  <2>2. log \in Rows /\ Len(log) \in 1 .. R + 1 /\ Len(log[Len(log)]) < C
    BY <1>1
  <2> DEFINE kept == Logged(log, ch)
  <2>3. /\ new \in Rows /\ new # <<>> /\ more \in Rows /\ kept \in Rows
        /\ Len(new) = n /\ new[n] = cur
        /\ Len(more) > R + 1 => kept = Tail(more)
        /\ Len(more) <= R + 1 => kept = more
        /\ Len(kept) \in 1 .. R + 1
        /\ Len(kept[Len(kept)]) = IF full THEN 0 ELSE Len(cur)
        /\ \A i \in 1 .. Len(kept) : Len(kept[i]) <= C
    <3> HIDE DEF kept
    <3> QED BY <2>1, <2>2, LoggedShape, Zenon DEF kept
  <2>4. log' = kept
    BY <1>2
  <2> HIDE DEF nl, cur, full, new, more, n, kept
  <2> QED BY <2>3, <2>4
<1>6. Good(put, new, y)
  <2>1. CASE nl
    <3>1. new = log
      BY <1>1, <2>1 DEF Rows
    <3> QED BY <2>1, <3>1 DEF ConInv
  <2>2. CASE ~nl
    <3>1. Memory /\ Good(cell, log, y)
      BY DEF ConInv
    <3> QED BY <1>1, <2>2, <3>1, Stored DEF At, Memory
  <2> QED BY <2>1, <2>2
<1> HIDE DEF nl, cur, full, new, more, put, x1, y1, n
<1>7. x' = (IF full THEN 0 ELSE Len(cur)) /\ y' = (IF full THEN cy + 1 ELSE cy) /\ cell' = g
  BY <1>0, <1>1, <1>2, <1>3, <1>4
<1>8. cy \in 0 .. R - 1 /\ Good(g, new, cy)
  <2>1. CASE y = R
    <3>1. Len(new[Len(new)]) <= 1
      <4>1. x = 0 /\ new[Len(new)] = cur
        BY <1>1, <1>5, <2>1
      <4>2. Len(cur) <= 1
        BY <1>4, <4>1
      <4>3. Len(new[Len(new)]) = Len(cur)
        BY <4>1, Zenon
      <4> QED BY <4>2, <4>3
    <3>2. Good(Scrolled(put), new, R - 1)
      BY <1>5, <1>6, <2>1, <3>1, ScrolledUp
    <3> QED BY <1>0, <2>1, <3>2
  <2>2. CASE y # R
    BY <1>0, <1>1, <1>6, <2>2
  <2> QED BY <2>1, <2>2
<1> HIDE DEF cy, g
<1>9. y' \in 0 .. R /\ Good(g, more, y')
  <2>1. CASE full
    BY <1>0, <1>5, <1>7, <1>8, <2>1, NextRow DEF more
  <2>2. CASE ~full
    BY <1>0, <1>5, <1>7, <1>8, <2>2 DEF more
  <2> QED BY <2>1, <2>2
<1>10. Good(g, log', y')
  <2>1. Len(more) \in Nat
    BY <1>5, LenProperties DEF Rows
  <2>2. CASE Len(more) > R + 1
    <3>1. Len(more) > 1
      BY <1>0, <2>1, <2>2
    <3>2. Good(g, Tail(more), y')
      <4> DEFINE cyy == y'
      <4> HIDE DEF cyy
      <4>1. cyy \in 0 .. R /\ Good(g, more, cyy)
        BY <1>9 DEF cyy
      <4>2. Good(g, Tail(more), cyy)
        BY <1>5, <3>1, <4>1, RowDropped
      <4> QED BY <4>2 DEF cyy
    <3> QED BY <1>5, <2>2, <3>2
  <2>3. CASE Len(more) <= R + 1
    BY <1>5, <1>9, <2>3
  <2> QED BY <1>0, <2>1, <2>2, <2>3
<1>11. Memory'
  <2>1. put = [i \in Cells |-> put[i]]
    BY DEF put, ConInv, Memory
  <2>2. g = [i \in Cells |-> g[i]]
    BY <2>1 DEF g, Scrolled
  <2> QED BY <1>7, <2>2 DEF Memory
<1>12. Cursor'
  BY <1>0, <1>1, <1>3, <1>4, <1>7, <1>8, <1>9 DEF Cursor, Columns
<1> QED BY <1>5, <1>7, <1>10, <1>11, <1>12

-----------------------------------------------------------------------------
(***************************************************************************)
(* Text that is printed, numbers converted: nothing but glyphs.            *)
(***************************************************************************)
LEMMA Converted == ASSUME NEW g \in Glyph, g[1] = "esc" PROVE puthex(g[2]) \in Seq(Glyph)
<1>0. Digits \in Nat
  BY ConsoleAssumption
<1>1. \A n \in Nat, i \in 1 .. Digits : puthex(n)[i][1] = "0x"
  BY DEF puthex
<1>2. g[2] \in Nat
  BY <1>1 DEF Glyph
<1>3. \A i \in 1 .. Digits : puthex(g[2])[i] \in Glyph
  BY <1>2 DEF Glyph
<1>4. puthex(g[2]) = [i \in 1 .. Digits |-> puthex(g[2])[i]]
  BY DEF puthex
<1>5. puthex(g[2]) \in [1 .. Digits -> Glyph]
  BY <1>3, <1>4
<1> QED BY <1>0, <1>5, SeqDef

(***************************************************************************)
(* clear: the screen is blank, and the row below it as it was.             *)
(***************************************************************************)
LEMMA Cleared ==
  ASSUME NEW rows \in Rows, rows # <<>>, NEW cx \in Columns, NEW cy \in 0 .. R, cy = R => cx = 0,
         NEW f, Len(rows[Len(rows)]) = cx, Good(f, rows, cy)
  PROVE  Good([i \in Cells |-> IF i < R * C THEN BLANK ELSE f[i]], << <<>> >>, 0)
<1> DEFINE n == Len(rows)
           g == [i \in Cells |-> IF i < R * C THEN BLANK ELSE f[i]]
<1>0. n \in Nat /\ n >= 1 /\ R \in Nat /\ R > 0
  BY ScreenSize, LenProperties, EmptySeq DEF Rows
<1>1. ASSUME NEW c \in Columns, c > 0 PROVE f[At(R, c)] = BLANK
  <2>1. CASE cy = R
    <3>1. 0 \in 0 .. n - 1 /\ n - 0 = n /\ R - 0 = R /\ 0 <= R
      BY <1>0
    <3>2. c >= cx
      BY <1>1, <2>1, ScreenSize
    <3>3. c >= Len(rows[n])
      BY <3>2, Zenon
    <3> HIDE DEF n
    <3> QED BY <1>1, <2>1, <3>1, <3>3 DEF Good, n
  <2>2. CASE cy # R
    <3>1. R \in cy + 1 .. R
      BY <1>0, <2>2
    <3> QED BY <1>1, <3>1 DEF Good
  <2> QED BY <2>1, <2>2
<1>2. ASSUME NEW r \in 0 .. R, NEW c \in Columns, c > 0 PROVE g[At(r, c)] = BLANK
  <2>1. r \in Nat /\ r <= R
    BY <1>0
  <2>2. At(r, c) \in Cells /\ (At(r, c) < R * C <=> r < R)
    BY <2>1, AtProperties
  <2>3. r < R \/ r = R
    BY <1>0, <2>1
  <2> QED BY <1>1, <1>2, <2>2, <2>3
<1> HIDE DEF g
<1>3. Good(g, << <<>> >>, 0)
  <2> DEFINE t == << <<>> >>
  <2>0. Len(t) = 1
    OBVIOUS
  <2>1. Len(t[1]) = 0
    OBVIOUS
  <2> HIDE DEF t
  <2>2. ASSUME NEW k \in 0 .. Len(t) - 1 PROVE k = 0 /\ Len(t) - k = 1 /\ 0 - k = 0
    <3>1. k = 0
      BY <2>0
    <3>2. Len(t) - 0 = 1
      BY <2>0
    <3>3. 0 - 0 = 0
      OBVIOUS
    <3> QED BY <3>1, <3>2, <3>3
  <2>3. ASSUME NEW c \in Columns PROVE ~(c < 0)
    BY ScreenSize
  <2>4. 0 \in 0 .. R /\ \A r \in 0 + 1 .. R : r \in 0 .. R
    BY <1>0
  <2>5. Good(g, t, 0)
    BY <1>2, <2>0, <2>1, <2>2, <2>3, <2>4 DEF Good
  <2> QED BY <2>5 DEF t
<1> QED BY <1>3 DEF g

(***************************************************************************)
(* ConInv is inductive.                                                    *)
(***************************************************************************)
LEMMA ConInitial == Init => ConInv
<1> SUFFICES ASSUME Init PROVE ConInv
  OBVIOUS
<1>1. R \in Nat /\ R > 0 /\ C \in Nat /\ C > 0 /\ 0 \in Columns /\ Y0 \in Nat /\ Y0 < R
  BY ScreenSize, ConsoleAssumption
<1>2. /\ todo = <<>> /\ x = 0 /\ y = Y0 /\ log = << <<>> >>
      /\ cell = [i \in Cells |-> BLANK]
  BY DEF Init
<1>3. Cursor
  BY <1>1, <1>2 DEF Cursor
<1>4. Len(log) = 1 /\ log[1] = <<>>
  BY <1>2
<1>5. Text
  <2>1. <<>> \in Seq(Glyph) /\ Len(<<>>) = 0
    BY EmptySeq
  <2>2. log \in Seq(Seq(Glyph))
    BY <1>2, <2>1
  <2>3. \A i \in 1 .. Len(log) : Len(log[i]) <= C
    BY <1>1, <1>4, <2>1
  <2>4. Len(log) \in 1 .. R + 1
    BY <1>1, <1>4
  <2>5. Len(log[Len(log)]) = x
    BY <1>2, <1>4, <2>1
  <2> QED BY <1>2, <2>1, <2>2, <2>3, <2>4, <2>5 DEF Text
<1>6. Memory
  BY <1>2 DEF Memory
<1>7. ASSUME NEW r \in 0 .. R, NEW c \in Columns PROVE cell[At(r, c)] = BLANK
  <2>1. r \in Nat /\ r <= R
    BY <1>1
  <2>2. At(r, c) \in Cells
    BY <2>1, AtProperties
  <2> QED BY <1>2, <2>2
<1>8. Good(cell, log, y)
  <2>1. ASSUME NEW k \in 0 .. Len(log) - 1 PROVE k = 0 /\ Len(log) - k = 1 /\ y - k \in 0 .. R
    BY <1>1, <1>2, <1>4
  <2>2. ASSUME NEW c \in Columns PROVE ~(c < 0) /\ Len(log[1]) = 0
    BY <1>4, ScreenSize
  <2>3. \A r \in y + 1 .. R : r \in 0 .. R
    BY <1>1, <1>2
  <2> QED BY <1>7, <2>1, <2>2, <2>3 DEF Good
<1> QED BY <1>3, <1>5, <1>6, <1>8 DEF ConInv

LEMMA ConKept == ConInv /\ [Next]_vars => ConInv'
<1> SUFFICES ASSUME ConInv, [Next]_vars PROVE ConInv'
  OBVIOUS
<1> DEFINE Screen == Cursor /\ Memory /\ Good(cell, log, y)
           Lines  == /\ log \in Rows
                     /\ Len(log) \in 1 .. R + 1
                     /\ Len(log[Len(log)]) = x
                     /\ \A i \in 1 .. Len(log) : Len(log[i]) <= C
<1>0. ConInv <=> Screen /\ todo \in Seq(Glyph) /\ Lines
  BY DEF ConInv, Text, Rows
<1>1. ConInv' <=> Screen' /\ todo' \in Seq(Glyph) /\ Lines'
  BY DEF ConInv, Text, Rows
<1>2. UNCHANGED <<x, y, cell, log>> => Screen' /\ Lines'
  BY <1>0 DEF Cursor, Memory, Good
<1>3. todo # <<>> => Head(todo) \in Glyph /\ Tail(todo) \in Seq(Glyph)
  BY <1>0, Shrunk
<1> HIDE DEF Screen, Lines
<1>4. ASSUME NEW str \in Strings, printk(str) PROVE ConInv'
  <2>1. str \in Seq(Glyph)
    BY ConsoleAssumption, SeqMonotonic DEF Glyph
  <2> QED BY <1>1, <1>2, <1>4, <2>1 DEF printk
<1>5. CASE Convert
  <2>1. Head(todo) \in Glyph /\ Head(todo)[1] = "esc" /\ Tail(todo) \in Seq(Glyph)
    BY <1>3, <1>5 DEF Convert
  <2>2. puthex(Head(todo)[2]) \in Seq(Glyph)
    BY <2>1, Converted
  <2>3. todo' \in Seq(Glyph)
    BY <1>5, <2>1, <2>2, ConcatProperties DEF Convert
  <2> QED BY <1>1, <1>2, <1>5, <2>3 DEF Convert
<1>6. CASE Write
  <2>1. Head(todo) \in Glyph /\ write_ch(Head(todo)) /\ todo' \in Seq(Glyph)
    BY <1>3, <1>6 DEF Write
  <2>2. PICK ch \in Glyph : write_ch(ch)
    BY <2>1
  <2>3. Screen' /\ Lines'
    BY <2>2, WriteKeeps DEF Screen, Lines
  <2> QED BY <1>1, <2>1, <2>3
<1>7. CASE clear
  <2>1. /\ x' = 0 /\ y' = 0 /\ log' = << <<>> >> /\ todo' = todo
        /\ cell' = [i \in Cells |-> IF i < R * C THEN BLANK ELSE cell[i]]
    BY <1>7 DEF clear
  <2>2. R \in Nat /\ R > 0 /\ C \in Nat /\ C > 0 /\ 0 \in Columns
    BY ScreenSize
  <2>3. Good(cell, log, y)'
    <3>1. x \in Columns /\ y \in 0 .. R /\ (y = R => x = 0) /\ log \in Rows
      BY DEF ConInv, Cursor, Text, Rows
    <3>2. Len(log[Len(log)]) = x /\ Good(cell, log, y)
      BY DEF ConInv, Text
    <3>3. log # <<>>
      <4>1. Len(log) # 0 /\ Len(<<>>) = 0
        BY <2>2 DEF ConInv, Text
      <4> QED BY <4>1
    <3>4. Good([i \in Cells |-> IF i < R * C THEN BLANK ELSE cell[i]], << <<>> >>, 0)
      BY <3>1, <3>2, <3>3, Cleared
    <3> QED BY <2>1, <3>4
  <2>4. Screen'
    BY <2>1, <2>2, <2>3 DEF Screen, Cursor, Memory
  <2>5. Lines'
    <3>1. Len(log') = 1 /\ log'[1] = <<>>
      BY <2>1
    <3>2. <<>> \in Seq(Glyph) /\ Len(<<>>) = 0
      BY EmptySeq
    <3>3. log' \in Rows
      BY <2>1, <3>2 DEF Rows
    <3>4. Len(log') \in 1 .. R + 1 /\ \A i \in 1 .. Len(log') : Len(log'[i]) <= C
      BY <2>2, <3>1, <3>2
    <3>5. Len(log'[Len(log')]) = x'
      BY <2>1, <3>1, <3>2
    <3> QED BY <3>3, <3>4, <3>5 DEF Lines
  <2> QED BY <1>0, <1>1, <2>1, <2>4, <2>5
<1>8. CASE UNCHANGED vars
  BY <1>0, <1>1, <1>2, <1>8 DEF vars
<1> QED BY <1>4, <1>5, <1>6, <1>7, <1>8 DEF Next

LEMMA ConSafe == Spec => []ConInv
  BY ConInitial, ConKept, PTL DEF Spec

-----------------------------------------------------------------------------
(***************************************************************************)
(* write_ch and clear leave the cursor on the screen or at the first cell  *)
(* below it, so a character is stored inside the row below the screen at   *)
(* the furthest.                                                           *)
(***************************************************************************)
THEOREM ConsoleTypes == Spec => []TypeOK
<1>1. ConInv => TypeOK
  <2> SUFFICES ASSUME ConInv PROVE TypeOK
    OBVIOUS
  <2>1. R \in Nat /\ C \in Nat /\ C > 0
    BY ScreenSize
  <2>2. x \in Columns /\ y \in 0 .. R /\ (y = R => x = 0) /\ x \in 0 .. C - 1
    BY DEF ConInv, Cursor, Columns
  <2>3. ~(At(y, x) > R * C) /\ At(y, x) \in Nat /\ R * C \in Nat
    BY <2>1, <2>2, AtProperties
  <2>4. y * C + x <= R * C
    BY <2>3 DEF At
  <2>5. DOMAIN cell = Cells
    BY DEF ConInv, Memory
  <2> QED BY <2>2, <2>4, <2>5 DEF TypeOK
<1> QED BY <1>1, ConSafe, PTL

(***************************************************************************)
(* The row of the k-th line and the cell of its c-th character.            *)
(***************************************************************************)
LEMMA ShownAt ==
  ASSUME ConInv, NEW k \in Shown, NEW c \in 1 .. C
  PROVE  /\ (y - k) * C + c - 1 = At(y - k, c - 1)
         /\ k \in 0 .. Len(log) - 1 /\ k <= y /\ c - 1 \in Columns
         /\ Len(Row(k)) \in Nat /\ Len(Row(k)) <= C
<1>1. R \in Nat /\ C \in Nat /\ C > 0 /\ y \in Nat
  BY ScreenSize DEF ConInv, Cursor
<1>2. k \in 0 .. Len(log) - 1 /\ k <= y
  BY DEF Shown
<1>3. log \in Rows /\ Len(log) \in Nat /\ \A i \in 1 .. Len(log) : Len(log[i]) <= C
  BY <1>1 DEF ConInv, Text, Rows
<1>4. Len(log) - k \in 1 .. Len(log)
  BY <1>2, <1>3
<1>5. log[Len(log) - k] \in Seq(Glyph)
  BY <1>3, <1>4, ElementOfSeq DEF Rows
<1>6. Len(Row(k)) \in Nat /\ Len(Row(k)) <= C
  BY <1>3, <1>4, <1>5, LenProperties DEF Row
<1>7. c - 1 \in Columns
  BY <1>1 DEF Columns
<1>8. (y - k) * C + c - 1 = At(y - k, c - 1)
  <2>1. (y - k) * C \in Int
    BY <1>1, <1>2
  <2> QED BY <1>1, <2>1 DEF At
<1> QED BY <1>2, <1>6, <1>7, <1>8

(***************************************************************************)
(* Whatever is printed, every character stays where it was printed and     *)
(* moves up with its row: no scroll loses or displaces one, the character  *)
(* written below the screen included.                                      *)
(***************************************************************************)
THEOREM TextIsKept == Spec => []TextKept
<1>1. ConInv => TextKept
  <2> SUFFICES ASSUME ConInv, NEW k \in Shown, NEW c \in 1 .. Len(Row(k))
               PROVE  cell[(y - k) * C + c - 1] = Row(k)[c]
    BY DEF TextKept
  <2>1. C \in Nat /\ 1 \in 1 .. C
    BY ScreenSize
  <2>2. Len(Row(k)) \in Nat /\ Len(Row(k)) <= C
    BY <2>1, ShownAt
  <2>3. c \in 1 .. C /\ c - 1 < Len(Row(k)) /\ c - 1 + 1 = c
    BY <2>1, <2>2
  <2>4. /\ (y - k) * C + c - 1 = At(y - k, c - 1)
        /\ k \in 0 .. Len(log) - 1 /\ k <= y /\ c - 1 \in Columns
    BY <2>3, ShownAt
  <2>5. cell[At(y - k, c - 1)] = Row(k)[c - 1 + 1]
    BY <2>3, <2>4 DEF ConInv, Good, Row
  <2> QED BY <2>3, <2>4, <2>5
<1> QED BY <1>1, ConSafe, PTL

(***************************************************************************)
(* The row that a scroll brings in is not cleared, and still only its      *)
(* first cell can be stale.                                                *)
(***************************************************************************)
THEOREM StaleColumn == Spec => []StaleOnlyInFirstColumn
<1>1. ConInv => StaleOnlyInFirstColumn
  <2> SUFFICES ASSUME ConInv, NEW k \in Shown, NEW c \in Len(Row(k)) + 1 .. C, c > 1
               PROVE  cell[(y - k) * C + c - 1] = BLANK
    BY DEF StaleOnlyInFirstColumn
  <2>1. C \in Nat /\ 1 \in 1 .. C
    BY ScreenSize
  <2>2. Len(Row(k)) \in Nat
    BY <2>1, ShownAt
  <2>3. c \in 1 .. C /\ c - 1 >= Len(Row(k)) /\ c - 1 > 0
    BY <2>1, <2>2
  <2>4. /\ (y - k) * C + c - 1 = At(y - k, c - 1)
        /\ k \in 0 .. Len(log) - 1 /\ k <= y /\ c - 1 \in Columns
    BY <2>3, ShownAt
  <2>5. cell[At(y - k, c - 1)] = BLANK
    BY <2>3, <2>4 DEF ConInv, Good, Row
  <2> QED BY <2>4, <2>5
<1> QED BY <1>1, ConSafe, PTL

=============================================================================
