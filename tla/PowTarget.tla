------------------------------ MODULE PowTarget ------------------------------
(***************************************************************************)
(* The arithmetic of litc-pow on targets: products and quotients of long   *)
(* numbers, digit by digit, as the code computes them.  A byte is a digit  *)
(* of BaseBits bits; a target has Digits of them and a product SpanDigits  *)
(* more (8, 32 and 8 in the code), the highest first.  Targets are given   *)
(* as numbers.                                                             *)
(***************************************************************************)
EXTENDS Integers, Powers

CONSTANTS
    BaseBits, Digits, SpanDigits,
    Timespan,       \* TARGET_TIMESPAN, the ideal span of an epoch
    MinTarget       \* MIN_TARGET

ASSUME PowAssumption ==
    /\ BaseBits \in Nat \ {0} /\ Digits \in Nat \ {0} /\ SpanDigits \in Nat \ {0}
    /\ Timespan \in Nat \ {0} /\ Timespan % 4 = 0
    /\ 4 * Timespan < TwoTo[BaseBits * SpanDigits]
    /\ MinTarget \in Nat \ {0} /\ MinTarget < TwoTo[BaseBits * Digits]

Base == TwoTo[BaseBits]
MaxTarget == TwoTo[BaseBits * Digits] - 1

\* The len digits of n, and the numbers that the first digits of a row make.
ToDigits(n, len) == [i \in 1..len |-> (n \div TwoTo[BaseBits * (len - i)]) % Base]
Number(digits, len) ==
    LET upto[i \in 0..len] == IF i = 0 THEN 0 ELSE upto[i - 1] * Base + digits[i]
    IN  upto[len]

Clamp(x, lo, hi) == IF x < lo THEN lo ELSE IF x > hi THEN hi ELSE x

\* mul256_u64: column by column from the lowest digit up, then the carry in
\* front.
Mul256(a, k) ==
    LET column[c \in 0..Digits] ==
            IF c = 0 THEN 0 ELSE a[Digits + 1 - c] * k + column[c - 1] \div Base
        carry == ToDigits(column[Digits] \div Base, SpanDigits)
    IN  [i \in 1..(SpanDigits + Digits) |->
            IF i <= SpanDigits THEN carry[i] ELSE column[SpanDigits + Digits + 1 - i] % Base]

\* div320_u64: from the highest digit down, with what remains of the digits so
\* far; a digit of the quotient in front of the target is an overflow.
Div320(a, d) ==
    LET rem[i \in 0..(SpanDigits + Digits)] ==
            IF i = 0 THEN 0 ELSE (rem[i - 1] * Base + a[i]) % d
        quotient == [i \in 1..(SpanDigits + Digits) |-> (rem[i - 1] * Base + a[i]) \div d]
    IN  [out |-> [i \in 1..Digits |-> quotient[SpanDigits + i] % Base],
         overflow |-> \E i \in 1..SpanDigits : quotient[i] # 0]

\* Mutant of AdjustTarget: the span is not limited to a factor of four.
AdjustTargetUnlimited(prev, actual) ==
    LET quotient == Div320(Mul256(ToDigits(prev, Digits), Clamp(actual, 1, actual)), Timespan)
    IN  IF quotient.overflow THEN MaxTarget
        ELSE Clamp(Number(quotient.out, Digits), MinTarget, MaxTarget)

\* adjust_target(prev, actual, TARGET_TIMESPAN).
AdjustTarget(prev, actual) ==
    LET lo == Timespan \div 4
        span == Clamp(Clamp(actual, lo, Timespan * 4), 1, Timespan * 4)
        quotient == Div320(Mul256(ToDigits(prev, Digits), span), Timespan)
    IN  IF quotient.overflow THEN MaxTarget
        ELSE Clamp(Number(quotient.out, Digits), MinTarget, MaxTarget)

\* One bit of the dividend 2^256 after what remains of the bits before it: the
\* first bit is the only one that is set.
Fed(rem, i) == 2 * rem + (IF i = 1 THEN 1 ELSE 0)

\* Mutant of BlockWork256: the bit of 2^256 is fed in one place too low.
BlockWork256Half(t) ==
    LET top == BaseBits * Digits
        rem[i \in 0..(top + 1)] ==
            IF i = 0 THEN 0 ELSE LET r == Fed(rem[i - 1], i - 1) IN IF r >= t THEN r - t ELSE r
        quot[i \in 0..(top + 1)] ==
            IF i = 0 THEN 0 ELSE 2 * quot[i - 1] + (IF Fed(rem[i - 1], i - 1) >= t THEN 1 ELSE 0)
    IN  quot[top + 1]

\* block_work: the restoring division of 2^256 by the target, bit by bit.
BlockWork256(t) ==
    LET top == BaseBits * Digits
        rem[i \in 0..(top + 1)] ==
            IF i = 0 THEN 0 ELSE LET r == Fed(rem[i - 1], i) IN IF r >= t THEN r - t ELSE r
        quot[i \in 0..(top + 1)] ==
            IF i = 0 THEN 0 ELSE 2 * quot[i - 1] + (IF Fed(rem[i - 1], i) >= t THEN 1 ELSE 0)
    IN  quot[top + 1]

\* meets_target, on the digest as a number.
MeetsTarget(digest, target) == digest <= target
=============================================================================
