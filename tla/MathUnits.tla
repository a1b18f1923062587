------------------------------ MODULE MathUnits ------------------------------
(***************************************************************************)
(* The ARM9's divider and square root unit (NDS.cpp).  A program writes     *)
(* operands and the mode; each write starts the unit anew, and an event     *)
(* delivers the result some cycles later, from the operands as they are     *)
(* then.  Words have Word bits, 32 in the code, and operands are one or     *)
(* two of them long, the lower first.                                       *)
(***************************************************************************)
EXTENDS Integers, Powers

CONSTANTS Word,       \* bits of a word
          DivValues   \* bound: the words a program writes to the divider

WordSize == TwoTo[Word]
PairSize == WordSize * WordSize
Words == 0 .. WordSize - 1

ASSUME MathAssumption == Word \in Nat \ {0} /\ Word % 2 = 0 /\ DivValues \subseteq Words

VARIABLES
    divMode,       \* DivCnt, its two lowest bits
    divZero,       \* DivCnt, bit 14
    divBusy,       \* DivCnt, bit 15; Event_Div is scheduled
    num, den,      \* DivNumerator, DivDenominator
    quotient, remainder,
    sqrtWide,      \* SqrtCnt, bit 0
    sqrtBusy,      \* SqrtCnt, bit 15; Event_Sqrt is scheduled
    sqrtVal, sqrtRes

divVars  == <<divMode, divZero, divBusy, num, den, quotient, remainder>>
sqrtVars == <<sqrtWide, sqrtBusy, sqrtVal, sqrtRes>>
mathVars == <<divVars, sqrtVars>>

Pair == [lo : Words, hi : Words]
Zero == [lo |-> 0, hi |-> 0]
Value(p) == p.lo + p.hi * WordSize

\* Two's complement: a word or a pair of them read as signed, and a number stored.
SignedWord(w) == IF w < WordSize \div 2 THEN w ELSE w - WordSize
Signed(p) == IF p.hi < WordSize \div 2 THEN Value(p) ELSE Value(p) - PairSize
Stored(n) == LET u == n % PairSize
             IN  [lo |-> u % WordSize, hi |-> u \div WordSize]

Abs(n) == IF n < 0 THEN -n ELSE n
\* Division as C has it: towards zero, the remainder with the numerator's sign.
Quot(n, d) == IF (n < 0) = (d < 0) THEN Abs(n) \div Abs(d) ELSE -(Abs(n) \div Abs(d))
Rem(n, d) == n - d * Quot(n, d)

MathInit ==
    /\ divMode = 0 /\ divZero = FALSE /\ divBusy = FALSE
    /\ num = Zero /\ den = Zero /\ quotient = Zero /\ remainder = Zero
    /\ sqrtWide = FALSE /\ sqrtBusy = FALSE /\ sqrtVal = Zero /\ sqrtRes = 0

-----------------------------------------------------------------------------
\* The registers' writes: StartDiv and StartSqrt set the busy flag and schedule the
\* event, whether or not it is scheduled already.  The zero flag stays until then,
\* but for a write of the mode, which replaces the register.
WriteDivOperand(v) ==
    /\ \/ num' \in {[num EXCEPT !.lo = v], [num EXCEPT !.hi = v]} /\ UNCHANGED den
       \/ den' \in {[den EXCEPT !.lo = v], [den EXCEPT !.hi = v]} /\ UNCHANGED num
    /\ divBusy' = TRUE
    /\ UNCHANGED <<divMode, divZero, quotient, remainder, sqrtVars>>

WriteDivMode(m) ==
    /\ divMode' = m /\ divZero' = FALSE /\ divBusy' = TRUE
    /\ UNCHANGED <<num, den, quotient, remainder, sqrtVars>>

\* The operands as the mode takes them: one word by one, two by one, two by two.
Numerator == IF divMode = 0 THEN SignedWord(num.lo) ELSE Signed(num)
Denominator == IF divMode = 2 THEN Signed(den) ELSE SignedWord(den.lo)
Smallest == IF divMode = 0 THEN -(WordSize \div 2) ELSE -(PairSize \div 2)

\* The quotient of zero has the sign the numerator has not, and in the mode of one
\* word its upper half is turned round; the smallest number over -1 leaves the
\* remainder of that mode as it was.
Divided ==
    IF Denominator = 0
    THEN /\ quotient' = IF divMode = 0
                        THEN [lo |-> IF Numerator < 0 THEN 1 ELSE WordSize - 1,
                              hi |-> IF Numerator < 0 THEN WordSize - 1 ELSE 0]
                        ELSE Stored(IF Numerator < 0 THEN 1 ELSE -1)
         /\ remainder' = Stored(Numerator)
    ELSE IF Numerator = Smallest /\ Denominator = -1
    THEN /\ quotient' = IF divMode = 0 THEN [lo |-> WordSize \div 2, hi |-> 0]
                        ELSE [lo |-> 0, hi |-> WordSize \div 2]
         /\ remainder' = IF divMode = 0 THEN remainder ELSE Zero
    ELSE /\ quotient' = Stored(Quot(Numerator, Denominator))
         /\ remainder' = Stored(Rem(Numerator, Denominator))

\* DivDone.
DivDone ==
    /\ divBusy
    /\ divBusy' = FALSE
    /\ Divided
    /\ divZero' = (den = Zero)
    /\ UNCHANGED <<divMode, num, den, sqrtVars>>

WriteSqrtOperand(v) ==
    /\ sqrtVal' \in {[sqrtVal EXCEPT !.lo = v], [sqrtVal EXCEPT !.hi = v]}
    /\ sqrtBusy' = TRUE
    /\ UNCHANGED <<divVars, sqrtWide, sqrtRes>>

WriteSqrtMode(wide) ==
    /\ sqrtWide' = wide /\ sqrtBusy' = TRUE
    /\ UNCHANGED <<divVars, sqrtVal, sqrtRes>>

Operand == IF sqrtWide THEN Value(sqrtVal) ELSE sqrtVal.lo

\* A defective variant: the trial product lacks its last bit.
RootShort ==
    LET bits == IF sqrtWide THEN Word ELSE Word \div 2
        round[i \in 0 .. bits] ==
            IF i = 0 THEN [res |-> 0, rem |-> 0]
            ELSE LET r == round[i - 1]
                     rem == r.rem * 4 + ((Operand \div TwoTo[2 * (bits - i)]) % 4)
                     prod == (4 * r.res) % WordSize
                 IN  IF rem >= prod THEN [res |-> (2 * r.res + 1) % WordSize, rem |-> rem - prod]
                     ELSE [res |-> (2 * r.res) % WordSize, rem |-> rem]
    IN  round[bits].res

\* Two bits of the operand a round, and one of the root; res and prod have a word.
Root ==
    LET bits == IF sqrtWide THEN Word ELSE Word \div 2
        round[i \in 0 .. bits] ==
            IF i = 0 THEN [res |-> 0, rem |-> 0]
            ELSE LET r == round[i - 1]
                     res == (2 * r.res) % WordSize
                     rem == r.rem * 4 + ((Operand \div TwoTo[2 * (bits - i)]) % 4)
                     prod == (2 * res + 1) % WordSize
                 IN  IF rem >= prod THEN [res |-> res + 1, rem |-> rem - prod]
                     ELSE [res |-> res, rem |-> rem]
    IN  round[bits].res

\* SqrtDone.
SqrtDone ==
    /\ sqrtBusy
    /\ sqrtBusy' = FALSE
    /\ sqrtRes' = Root
    /\ UNCHANGED <<divVars, sqrtWide, sqrtVal>>

DivNext ==
    \/ \E v \in DivValues : WriteDivOperand(v)
    \/ \E m \in 0 .. 3 : WriteDivMode(m)
    \/ DivDone
SqrtNext ==
    \/ \E v \in Words : WriteSqrtOperand(v)
    \/ \E wide \in BOOLEAN : WriteSqrtMode(wide)
    \/ SqrtDone

-----------------------------------------------------------------------------
MathTypeOK ==
    /\ divMode \in 0 .. 3 /\ divZero \in BOOLEAN /\ divBusy \in BOOLEAN
    /\ {num, den, quotient, remainder, sqrtVal} \subseteq Pair
    /\ sqrtWide \in BOOLEAN /\ sqrtBusy \in BOOLEAN /\ sqrtRes \in Words

Overflows == divMode = 0 /\ Numerator = Smallest /\ Denominator = -1

\* When the divider is not busy its results are those of the operands there are now,
\* however often they were rewritten while it was: the quotient times the denominator
\* and the remainder make the numerator, the remainder is smaller than the
\* denominator and has the numerator's sign.
DivExact ==
    ~divBusy /\ Denominator # 0 =>
        LET q == Signed(quotient)  r == Signed(remainder)
        IN  /\ Stored(q * Denominator + (IF Overflows THEN 0 ELSE r)) = Stored(Numerator)
            /\ ~Overflows => Abs(r) < Abs(Denominator) /\ (r # 0 => (r < 0) = (Numerator < 0))

\* The root is the largest number whose square is not above the operand.  Operands of
\* two words have their two upper bits clear: with one of them set the product of the
\* last round does not fit its word, and the root may be too large by one.
SqrtExact ==
    ~sqrtBusy /\ (sqrtWide => Operand < PairSize \div 4) =>
        sqrtRes * sqrtRes <= Operand /\ Operand < (sqrtRes + 1) * (sqrtRes + 1)
=============================================================================
