------------------------------- MODULE Random -------------------------------
(***************************************************************************)
(* SRL::Math::Random: a twister of N numbers that are made anew in place   *)
(* when all of them are used, tempered when they are drawn, and drawn      *)
(* again until they fit a range.                                           *)
(***************************************************************************)
EXTENDS Naturals, Sequences, Bitwise

CONSTANTS Width,                 \* bits of a number: 32 in the code
          N, M,                  \* 624 and 397
          Multiplier, Matrix,    \* 1812433253 and 0x9908b0df
          Seeds, MaxDraws

Numbers == 0..(2^Width - 1)

VARIABLES values, next, remaining,   \* of the object
          drawn,                     \* history: the numbers drawn, before tempering
          bound, result              \* the last randomInt(n); Width is no result

vars == <<values, next, remaining, drawn, bound, result>>

left(x, n) == (x * 2^n) % 2^Width
hiBit(u) == IF u >= 2^(Width - 1) THEN 2^(Width - 1) ELSE 0
loBits(u) == u % 2^(Width - 1)
mixBits(u, v) == hiBit(u) + loBits(v)
twist(m, s0, s1) == (m ^^ (mixBits(s0, s1) \div 2)) ^^ (IF s1 % 2 = 1 THEN Matrix ELSE 0)

\* In place, from the first to the last: the first N - M look ahead at old
\* numbers, the others back at new ones.
reload(old) ==
    LET new[i \in 0..(N - 1)] ==
            twist(IF i < N - M THEN old[i + M] ELSE new[i + M - N], old[i],
                  IF i < N - 1 THEN old[i + 1] ELSE new[0])
    IN new

initialize(seed) ==
    LET s[i \in 0..(N - 1)] ==
            IF i = 0 THEN seed ELSE (Multiplier * (s[i - 1] ^^ (s[i - 1] \div 2^(Width - 2))) + i) % 2^Width
    IN s

Init == \E seed \in Seeds : /\ values = reload(initialize(seed)) /\ next = 0 /\ remaining = N
                            /\ drawn = <<seed>> /\ bound = 0 /\ result = 0

\* The shifts of randomInt(), for numbers of this width.
temper(s) == LET a == s ^^ (s \div 8)
                 b == a ^^ (left(a, 2) & (2^Width - 2))
                 c == b ^^ (left(b, 3) & (2^Width - 4))
             IN c ^^ (c \div 16)

\* The bits of n and all below.
used(n) == LET a == n | (n \div 2)
               b == a | (a \div 4)
           IN b | (b \div 16)

\* randomInt(): the numbers are made anew before one is missing.
Take(mask) ==
    LET now == IF remaining = 0 THEN reload(values) ELSE values
        at == IF remaining = 0 THEN 0 ELSE next
    IN /\ values' = now /\ next' = at + 1
       /\ remaining' = (IF remaining = 0 THEN N ELSE remaining) - 1
       /\ drawn' = Append(drawn, now[at]) /\ result' = (temper(now[at]) & mask)

\* randomInt(n): a draw, or the next one if the last was too large.
randomInt(n) == /\ Len(drawn) <= MaxDraws
                /\ result > bound => n = bound
                /\ bound' = n /\ Take(used(n))

Next == \E n \in Numbers : randomInt(n)

Spec == Init /\ [][Next]_vars

-----------------------------------------------------------------------------
\* The k-th number of the sequence by its recurrence, from 0.
term(k) ==
    LET x[i \in 0..(N + k)] ==
            IF i < N THEN initialize(drawn[1])[i] ELSE twist(x[i - N + M], x[i - N], x[i - N + 1])
    IN x[N + k]

(* The numbers drawn are the twister's sequence, whenever the object made  *)
(* its numbers anew, and a mask lets through what a bound allows           *)
(* (Random.cpp:38-51, 63-99).                                              *)
RandomRight ==
    /\ \A k \in 2..Len(drawn) : drawn[k] = term(k - 2)
    /\ bound <= used(bound) /\ (bound > 0 => used(bound) < 2 * bound)
    /\ next + remaining = N
=============================================================================
