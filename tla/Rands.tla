-------------------------------- MODULE Rands --------------------------------
(***************************************************************************)
(* The random streams of Common/rands.h.  A stream is a linear             *)
(* congruential generator that belongs to one column: it is drawn from     *)
(* while a row is built, padded to its budget of seeds_per_row draws when  *)
(* the row ends (RowFinished), and moved over whole rows without drawing   *)
(* them when a partition starts in the middle of the table (AdvanceRows).  *)
(* wide selects RowRandomLong, the 64-bit generator of RandomBoundedLong.  *)
(*                                                                         *)
(* The recurrences are the code's; multipliers, modulus and word size are  *)
(* parameters, 16807, 2^31 - 1, 6364136223846793005 and 2^64 in the code,  *)
(* and so is the size of std::int32_t, which keys are cast to: 2^32.       *)
(***************************************************************************)
EXTENDS Machine

CONSTANTS Multiplier, Modulus, Multiplier64, WordSize, IntSize

ASSUME RandsAssumption ==
  /\ Modulus \in Nat /\ Multiplier \in 1..(Modulus - 1)
  /\ Multiplier64 \in Nat /\ WordSize \in Nat /\ WordSize > 2 * Modulus * Modulus
  /\ IntSize \in Nat /\ IntSize >= 4

RowRandom(seed, seeds_per_row, wide) ==
  [seed |-> seed, usage |-> 0, seeds_per_row |-> seeds_per_row, wide |-> wide]

Wrap(x) == Truncated(x, WordSize)
ToInt(x) == Truncated(x, IntSize)
MaxInt == (IntSize - 1) \div 2
Magnitude(x) == IF x < 0 THEN -x ELSE x

\* One draw.
NextRand(r) ==
  [r EXCEPT !.usage = @ + 1,
            !.seed = IF r.wide THEN Wrap(@ * Multiplier64 + 1) ELSE (@ * Multiplier) % Modulus]

\* The stream after n draws.
Draws(r, n) ==
  LET after[i \in 0..n] == IF i = 0 THEN r ELSE NextRand(after[i - 1]) IN after[n]

\* The value in lo..hi that the last draw stands for: NextInt, whose bounds are
\* constants that std::int32_t holds.
ValueIn(r, lo, hi) == lo + (r.seed * (hi - lo + 1)) \div Modulus

\* The key in 1..max_key that the last draw of a RandomBoundedLong stands for:
\* NextLong, or NextInt with the bounds cast to std::int32_t.
KeyIn(r, max_key) ==
  IF r.wide THEN 1 + (Magnitude(r.seed) % max_key)
            ELSE ToInt(1 + Quotient(r.seed * ToInt(max_key), Modulus))

\* The square-and-multiply loop of AdvanceSeed and of AdvanceSeed32, which is
\* the same text: it advances the 31-bit recurrence, whatever the stream is.
AdvanceSeed(r, count) ==
  LET loop[l \in [remaining : Nat, multiplier : Int, seed : Int]] ==
        IF l.remaining = 0
        THEN l.seed
        ELSE loop[[remaining |-> l.remaining \div 2,
                   multiplier |-> (l.multiplier * l.multiplier) % Modulus,
                   seed |-> IF l.remaining % 2 # 0
                            THEN Remainder(Wrap(l.multiplier * l.seed), Modulus)
                            ELSE l.seed]]
  IN [r EXCEPT !.seed = loop[[remaining |-> count, multiplier |-> Multiplier, seed |-> @]]]

\* Mutant of RowFinished: the usage goes on into the next row.
RowFinishedKeepsUsage(r) ==
  LET remaining == r.seeds_per_row - r.usage
  IN IF remaining > 0 THEN AdvanceSeed(r, remaining) ELSE r

\* Skips what is left of the row's budget.
RowFinished(r) ==
  LET remaining == r.seeds_per_row - r.usage
      padded == IF remaining > 0 THEN AdvanceSeed(r, remaining) ELSE r
  IN [padded EXCEPT !.usage = 0]

\* Mutant of AdvanceRows: one draw to a row, whatever its budget.
AdvanceRowsByOne(r, row_count) ==
  LET aligned == IF r.usage # 0 THEN RowFinished(r) ELSE r
  IN IF row_count > 0 THEN AdvanceSeed(aligned, row_count) ELSE aligned

\* Skips whole rows.
AdvanceRows(r, row_count) ==
  LET aligned == IF r.usage # 0 THEN RowFinished(r) ELSE r
      count == r.seeds_per_row * row_count
  IN IF count > 0 THEN AdvanceSeed(aligned, count) ELSE aligned
=============================================================================
