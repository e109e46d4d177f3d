------------------------------ MODULE LongLong ------------------------------
(***************************************************************************)
(* kernel/sys/longlong.c: division of 64-bit numbers on a processor of 32  *)
(* bits, one turn of the loop of udiv64 a step.  idiv64 divides the        *)
(* absolute values and puts the signs back.  A word is kept in two halves  *)
(* of HALF bits (32 in the code), and all arithmetic is that of the halves.*)
(***************************************************************************)
EXTENDS Integers

CONSTANTS HALF,   \* bits of a half
          Words   \* the numbers that are divided

BITS == 2 * HALF
HalfWord == 0 .. 2^HALF - 1
Word == 0 .. 2^BITS - 1
Pair == [hi : HalfWord, lo : HalfWord]

\* What is used of powers of two.
ASSUME LongLongAssumption == /\ HALF \in Nat \ {0}
                             /\ Words \subseteq Word
                             /\ 2^0 = 1
                             /\ \A k \in 0 .. BITS : 2^k \in Nat \ {0}
                             /\ \A k \in 0 .. BITS - 1 : 2^(k + 1) = 2 * 2^k
                             /\ 2^BITS = 2^HALF * 2^HALF

VARIABLES call,  \* the call: its arguments, and whether it is idiv64
          i,     \* turns of the loop of udiv64 done
          q, r,  \* quotient and remainder
          ret    \* what the call returns, once it has

dividing == <<call, i, q, r, ret>>

NONE == [q |-> 0, r |-> 0]

HI32(x) == x \div 2^HALF
LO32(x) == x % 2^HALF

Split(x) == [hi |-> HI32(x), lo |-> LO32(x)]
Value(p) == p.hi * 2^HALF + p.lo
-----------------------------------------------------------------------------
Borrow(a, b) == IF (a.lo - b.lo) % 2^HALF > a.lo THEN 1 ELSE 0

\* Mutant: the lower half takes nothing from the upper one.
sub64_NoBorrow(a, b) == [hi |-> (a.hi - b.hi) % 2^HALF,
                         lo |-> (a.lo - b.lo) % 2^HALF]

sub64(a, b) == [hi |-> (a.hi - b.hi - Borrow(a, b)) % 2^HALF,
                lo |-> (a.lo - b.lo) % 2^HALF]

ge64(a, b) == IF a.hi # b.hi THEN a.hi > b.hi ELSE a.lo >= b.lo

shl1_64(a) == [hi |-> ((2 * a.hi) % 2^HALF) + (a.lo \div 2^(HALF - 1)),
               lo |-> (2 * a.lo) % 2^HALF]

\* Bit n of x, counted from the most significant one.
getbit64(x, n) == IF n < HALF THEN (HI32(x) \div 2^(HALF - 1 - n)) % 2
                              ELSE (LO32(x) \div 2^(BITS - 1 - n)) % 2

\* ~lo + 1, and ~hi plus the carry.
neg64(a) == LET lo == (2^HALF - a.lo) % 2^HALF
            IN [hi |-> (2^HALF - 1 - a.hi + IF lo = 0 THEN 1 ELSE 0) % 2^HALF, lo |-> lo]
-----------------------------------------------------------------------------
Negative(x) == call.signed /\ x >= 2^(BITS - 1)

Magnitude(x) == IF Negative(x) THEN Value(neg64(Split(x))) ELSE x

\* The arguments of udiv64.
num == Magnitude(call.num)
den == Magnitude(call.den)

DivideInit == /\ call \in [signed : BOOLEAN, num : Words, den : Words]
              /\ i = 0
              /\ q = Split(0)
              /\ r = Split(0)
              /\ ret = NONE

\* The remainder with the next bit of num behind it.
Shifted == [hi |-> shl1_64(r).hi, lo |-> shl1_64(r).lo + getbit64(num, i)]

\* q with bit i set, which is set in no other turn.
WithBit == IF i < HALF THEN [hi |-> q.hi + 2^(HALF - 1 - i), lo |-> q.lo]
                       ELSE [hi |-> q.hi, lo |-> q.lo + 2^(BITS - 1 - i)]

udiv64 == /\ i < BITS
          /\ i' = i + 1
          /\ \/ /\ ge64(Shifted, Split(den))
                /\ r' = sub64(Shifted, Split(den))
                /\ q' = WithBit
             \/ /\ ~ ge64(Shifted, Split(den))
                /\ r' = Shifted
                /\ q' = q
          /\ UNCHANGED <<call, ret>>

\* x, or -x.
Sign(negate, x) == IF negate THEN (2^BITS - x) % 2^BITS ELSE x

idiv64 == /\ i = BITS
          /\ i' = BITS + 1
          /\ ret' = [q |-> Sign(Negative(call.num) # Negative(call.den), Value(q)),
                     r |-> Sign(Negative(call.num), Value(r))]
          /\ UNCHANGED <<call, q, r>>

DivideNext == udiv64 \/ idiv64

DivideSpec == DivideInit /\ [][DivideNext]_dividing
-----------------------------------------------------------------------------
DivideTypeOK == /\ call \in [signed : BOOLEAN, num : Word, den : Word]
                /\ i \in 0 .. BITS + 1
                /\ q \in Pair
                /\ r \in Pair
                /\ ret \in [q : Word, r : Word]

\* The number that word x stands for in this call.
Number(x) == IF Negative(x) THEN x - 2^BITS ELSE x

Abs(x) == IF x < 0 THEN - x ELSE x

\* The only quotient that is no number of BITS bits.
Overflows == call.signed /\ call.num = 2^(BITS - 1) /\ Number(call.den) = -1

\* A call returns the quotient rounded towards zero and the remainder with the
\* sign of the dividend, whichever halves borrow and carry, except for the least
\* number divided by -1.  Division by zero returns: all ones, and the dividend.
DivisionExact ==
  i = BITS + 1 =>
    LET n == Number(call.num)
        d == Number(call.den)
        quot == Number(ret.q)
        rem == Number(ret.r)
    IN IF d = 0
       THEN ret.q = Sign(Negative(call.num), 2^BITS - 1) /\ rem = n
       ELSE /\ Abs(rem) < Abs(d)
            /\ rem # 0 => (rem < 0 <=> n < 0)
            /\ ~ Overflows => n = quot * d + rem
=============================================================================
