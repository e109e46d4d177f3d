-------------------------------- MODULE Text --------------------------------
(***************************************************************************)
(* Text as the kernel makes it: itoa and the copying of strings in         *)
(* kernel/string.c, printf in kernel/io.c, and format_entry in             *)
(* kernel/fat.c, which makes a name of a directory entry.                  *)
(***************************************************************************)
EXTENDS Integers, Sequences, FiniteSets

CONSTANT WORDS   \* the values of an unsigned integer

ASSUME TextAssumption == WORDS \in Nat \ {0}

Digits == <<"0", "1", "2", "3", "4", "5", "6", "7", "8", "9", "A", "B", "C", "D", "E", "F">>
-----------------------------------------------------------------------------
(* Numbers *)

\* The loop over the digits, the last one first.
LastFirst(value, base) ==
  LET f[v \in Nat] == IF v = 0 THEN <<>> ELSE <<Digits[(v % base) + 1]>> \o f[v \div base]
  IN f[value]

\* Mutant: the sign is turned around as well.
Start_Zero(neg) == 0

\* Where the reversal starts, counted from 0.
Start(neg) == IF neg THEN 1 ELSE 0

\* It swaps j and idx - j - 1 for j from there to the middle.
Reversed(text, neg) ==
  LET idx == Len(text)
      Swapped(j) == j >= Start(neg) /\ j < idx \div 2
  IN [p \in 1 .. idx |-> IF Swapped(p - 1) \/ Swapped(idx - p) THEN text[idx - p + 1] ELSE text[p]]

\* The remainders are those of unsigned numbers, of the least one as well.
itoa(value, base) ==
  LET neg == value < 0 /\ base # 16
      unsigned == (IF neg THEN - value ELSE value) % WORDS
      text == (IF neg THEN <<"-">> ELSE <<>>) \o LastFirst(unsigned, base)
  IN IF text = <<>> THEN <<"0">> ELSE Reversed(text, neg)
-----------------------------------------------------------------------------
(* printf *)

\* The character after a percent sign ends the directive, whatever it is; `args` are
\* the arguments to come.
Directive(s, c) ==
  [out |-> s.out \o CASE c = "%" -> <<"%">>
                      [] c = "c" -> <<Head(s.args)>>
                      [] c = "d" -> itoa(Head(s.args), 10)
                      [] c = "x" -> itoa(Head(s.args), 16)
                      [] c = "s" -> Head(s.args)
                      [] OTHER -> <<>>,
   args |-> IF c \in {"c", "d", "x", "s"} THEN Tail(s.args) ELSE s.args,
   is_f |-> FALSE]

Printed(s, c) == IF s.is_f THEN Directive(s, c)
                 ELSE IF c = "%" THEN [s EXCEPT !.is_f = TRUE]
                      ELSE [s EXCEPT !.out = Append(@, c)]

\* After the first n characters of the format.
printf(format, args) ==
  LET f[n \in 0 .. Len(format)] == IF n = 0 THEN [out |-> <<>>, args |-> args, is_f |-> FALSE]
                                   ELSE Printed(f[n - 1], format[n])
  IN  f[Len(format)].out
-----------------------------------------------------------------------------
(* Strings in memory: a function from addresses to characters. *)

NUL == "NUL"

\* Characters that the caller's memory happens to hold.
OTHERS == "others"

strlen(mem, s) == CHOOSE n \in 0 .. Cardinality(DOMAIN mem) :
                    mem[s + n] = NUL /\ \A k \in 0 .. n - 1 : mem[s + k] # NUL

Copied(mem, dest, src) ==
  [a \in DOMAIN mem |-> IF a >= dest /\ a < dest + Len(src) THEN src[a - dest + 1] ELSE mem[a]]

memset(mem, s, n) == [a \in DOMAIN mem |-> IF a >= s /\ a < s + n THEN NUL ELSE mem[a]]

\* The copying moves `dest` to the end, and the length is added to it once more.
mempcpy(dest, n) == dest + n + n

\* A string is copied, and ended where mempcpy says.
stpcpy(mem, dst, src) == memset(Copied(mem, dst, src), mempcpy(dst, Len(src)), 1)

\* A string no longer than dsize is copied, and the rest filled.
stpncpy(mem, dst, src, dsize) ==
  memset(Copied(mem, dst, src), mempcpy(dst, Len(src)), dsize - Len(src))

strcat(mem, dst, src) == stpcpy(mem, dst + strlen(mem, dst), src)
strncat(mem, dst, src, n) == stpncpy(mem, dst + strlen(mem, dst), src, n)

\* The buffer of 13, and what is behind it in the frame of find_entry.
Frame == [a \in 0 .. 15 |-> OTHERS]

\* Mutant: the buffer is not cleared.
Blank_Not == Frame

Blank == memset(Frame, 0, 13)

\* The two fields of the entry, up to their ends.
format_entry(filename, extension) ==
  LET named == stpncpy(Blank, 0, filename, 8)
  IN IF extension = <<>> THEN named
     ELSE strncat(strcat(named, 0, <<".">>), 0, extension, 3)
-----------------------------------------------------------------------------
Power(base, n) == LET f[k \in Nat] == IF k = 0 THEN 1 ELSE base * f[k - 1] IN f[n]

\* The numeral of n in the usual notation.
Numeral(n, base) ==
  LET size == CHOOSE k \in 1 .. n + 1 : /\ n < Power(base, k)
                                        /\ k = 1 \/ n >= Power(base, k - 1)
  IN [p \in 1 .. size |-> Digits[((n \div Power(base, size - p)) % base) + 1]]

\* What a piece of a format prints.  A negative number loses its first digit, which
\* comes last.
Output(piece) ==
  CASE piece.kind = "text" -> piece.arg
    [] piece.kind = "%" -> <<"%">>
    [] piece.kind = "c" -> <<piece.arg>>
    [] piece.kind = "s" -> piece.arg
    [] piece.kind = "x" -> Numeral(piece.arg % WORDS, 16)
    [] piece.kind = "d" /\ piece.arg >= 0 -> Numeral(piece.arg, 10)
    [] piece.kind = "d" /\ piece.arg < 0 ->
         LET n == Numeral(- piece.arg, 10) IN <<"-">> \o Tail(n) \o <<Head(n)>>
    [] OTHER -> <<>>

FormatOf(piece) == IF piece.kind = "text" THEN piece.arg ELSE <<"%", piece.kind>>

ArgsOf(piece) == IF piece.kind \in {"c", "d", "x", "s"} THEN <<piece.arg>> ELSE <<>>

Joined(seqs) == LET f[n \in 0 .. Len(seqs)] == IF n = 0 THEN <<>> ELSE f[n - 1] \o seqs[n]
                IN  f[Len(seqs)]

\* printf prints each piece of its format as it would print it alone: numbers in
\* their usual notation, except that a negative decimal number of several digits
\* loses its first digit to the other end.  A directive that is not known prints
\* nothing and takes no argument.
PrintsPieces(pieces) ==
  printf(Joined([k \in DOMAIN pieces |-> FormatOf(pieces[k])]),
         Joined([k \in DOMAIN pieces |-> ArgsOf(pieces[k])]))
    = Joined([k \in DOMAIN pieces |-> Output(pieces[k])])

\* The name that a file is looked up by is that of its entry, ended and nowhere
\* longer than 12.  Behind the buffer a single zero is written when the name has
\* six or seven characters, or eight with an extension of two; and nothing else.
NamesEntry(filename, extension) ==
  LET mem == format_entry(filename, extension)
      name == filename \o IF extension = <<>> THEN <<>> ELSE <<".">> \o extension
      spilt == CASE Len(filename) = 6 -> {13}
                 [] Len(filename) = 7 -> {14}
                 [] Len(filename) = 8 /\ Len(extension) = 2 -> {13}
                 [] OTHER -> {}
  IN /\ strlen(mem, 0) = Len(name)
     /\ \A k \in 1 .. Len(name) : mem[k - 1] = name[k]
     /\ \A a \in 13 .. 15 : mem[a] = IF a \in spilt THEN NUL ELSE OTHERS
=============================================================================
