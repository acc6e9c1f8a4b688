---------------------------- MODULE TableRows_proofs ----------------------------
(***************************************************************************)
(* What the operators of Rands, Partition and TableStreams compute, for    *)
(* every number of rows, partitions, parts and suppliers: the streams of   *)
(* random numbers and the skips over them, the division of a table, and a  *)
(* row with the place it leaves the iterator in.                           *)
(***************************************************************************)
EXTENDS TableStreams, WellFoundedInduction, FiniteSetTheorems, TLAPS

-----------------------------------------------------------------------------
(* Numbers, and induction over them.                                        *)

LEMMA Least ==
  ASSUME NEW S, S \subseteq Nat, S # {}
  PROVE  \E n \in S : \A m \in S : n <= m
<1>1. IsWellFoundedOn(OpToRel(<, Nat), Nat)
  BY NatLessThanWellFounded, Zenon
<1>2. PICK n \in S : \A m \in S : ~(<<m, n>> \in OpToRel(<, Nat))
  BY <1>1, WFMin, Zenon
<1>3. \A m \in S : ~(m < n)
  BY <1>2, Zenon DEF OpToRel
<1> QED BY <1>3

\* Induction, over a set instead of a predicate.
LEMMA Induction ==
  ASSUME NEW S, 0 \in S, \A n \in Nat : n \in S => n + 1 \in S
  PROVE  Nat \subseteq S
<1> DEFINE bad == Nat \ S
<1>1. ASSUME bad # {} PROVE FALSE
  <2>1. PICK n \in bad : \A m \in bad : n <= m
    BY <1>1, Least
  <2>2. n - 1 \in Nat /\ n - 1 \in S
    BY <2>1
  <2> QED BY <2>1, <2>2
<1> QED BY <1>1

LEMMA StrongInduction ==
  ASSUME NEW S, \A n \in Nat : (\A m \in Nat : m < n => m \in S) => n \in S
  PROVE  Nat \subseteq S
<1> DEFINE bad == Nat \ S
<1>1. ASSUME bad # {} PROVE FALSE
  <2>1. PICK n \in bad : \A m \in bad : n <= m
    BY <1>1, Least
  <2> QED BY <2>1
<1> QED BY <1>1

\* A function may be iterated: x, G[x], G[G[x]], ...
IsIteration(f, G, x) == f = [n \in Nat |-> IF n = 0 THEN x ELSE G[f[n - 1]]]

LEMMA Iterates == ASSUME NEW G, NEW x PROVE \E f : IsIteration(f, G, x)
<1> DEFINE UpTo(f, k) == f = [i \in 0..k |-> IF i = 0 THEN x ELSE G[f[i - 1]]]
           S == {k \in Nat : \E f : UpTo(f, k)}
<1>1. 0 \in S
  <2>1. UpTo([i \in 0..0 |-> x], 0)
    OBVIOUS
  <2> QED BY <2>1
<1>2. ASSUME NEW k \in Nat, k \in S PROVE k + 1 \in S
  <2>1. PICK f : UpTo(f, k)
    BY <1>2
  <2> DEFINE g == [i \in 0..(k + 1) |-> IF i = k + 1 THEN G[f[k]] ELSE f[i]]
  <2>2. \A i \in 0..(k + 1) : g[i] = IF i = 0 THEN x ELSE G[g[i - 1]]
    <3> TAKE i \in 0..(k + 1)
    <3>1. CASE i = k + 1
      BY <3>1
    <3>2. CASE i # k + 1
      <4>1. i \in 0..k /\ (i # 0 => i - 1 \in 0..k)
        BY <3>2
      <4>2. f[i] = IF i = 0 THEN x ELSE G[f[i - 1]]
        BY <2>1, <4>1
      <4> QED BY <4>1, <4>2, <3>2
    <3> QED BY <3>1, <3>2
  <2>3. UpTo(g, k + 1)
    BY <2>2
  <2>4. \E h : UpTo(h, k + 1)
    BY <2>3
  <2> HIDE DEF UpTo, g
  <2> QED BY <2>4
<1>3. \A k \in Nat : \E f : UpTo(f, k)
  BY <1>1, <1>2, Induction
<1> DEFINE part(k) == CHOOSE f : UpTo(f, k)
           whole == [n \in Nat |-> part(n)[n]]
<1>4. \A k \in Nat : UpTo(part(k), k)
  <2> HIDE DEF UpTo
  <2> QED BY <1>3
<1> HIDE DEF part
<1>5. \A n \in Nat : part(n + 1)[n] = part(n)[n]
  <2> TAKE n \in Nat
  <2> DEFINE R == {i \in Nat : i <= n => part(n + 1)[i] = part(n)[i]}
  <2>1. /\ \A i \in 0..n : part(n)[i] = IF i = 0 THEN x ELSE G[part(n)[i - 1]]
        /\ \A i \in 0..n : part(n + 1)[i] = IF i = 0 THEN x ELSE G[part(n + 1)[i - 1]]
    <3>1. UpTo(part(n), n) /\ UpTo(part(n + 1), n + 1)
      <4> HIDE DEF UpTo
      <4> QED BY <1>4
    <3> QED BY <3>1
  <2>2. 0 \in R
    BY <2>1
  <2>3. ASSUME NEW i \in Nat, i \in R PROVE i + 1 \in R
    BY <2>1, <2>3
  <2>4. n \in R
    BY <2>2, <2>3, Induction
  <2> QED BY <2>4
<1>6. \A n \in Nat : whole[n] = IF n = 0 THEN x ELSE G[whole[n - 1]]
  <2> TAKE n \in Nat
  <2>1. part(n)[n] = IF n = 0 THEN x ELSE G[part(n)[n - 1]]
    BY <1>4
  <2>2. CASE n = 0
    BY <2>1, <2>2
  <2>3. CASE n # 0
    <3>1. n - 1 \in Nat /\ part(n)[n - 1] = part(n - 1)[n - 1]
      <4>1. n - 1 \in Nat /\ (n - 1) + 1 = n
        BY <2>3
      <4> QED BY <4>1, <1>5
    <3> QED BY <2>1, <2>3, <3>1
  <2> QED BY <2>2, <2>3
<1>7. IsIteration(whole, G, x)
  BY <1>6 DEF IsIteration
<1> QED BY <1>7

Iteration(G, x) == CHOOSE f : IsIteration(f, G, x)

LEMMA IterationForm ==
  ASSUME NEW G, NEW x
  PROVE  /\ Iteration(G, x)[0] = x
         /\ \A n \in Nat : Iteration(G, x)[n + 1] = G[Iteration(G, x)[n]]
<1>1. IsIteration(Iteration(G, x), G, x)
  BY Iterates DEF Iteration
<1> QED BY <1>1 DEF IsIteration

-----------------------------------------------------------------------------
(* The machine's numbers: what a key loses when it is cast, and when nothing. *)

LEMMA ToIntForm == ASSUME NEW x \in Int PROVE ToInt(x) \in Int
<1>1. PICK size \in Nat \ {0} : size = IntSize
  BY RandsAssumption
<1>2. PICK half \in Int : half = size \div 2
  BY <1>1
<1>3. ToInt(x) = ((x + half) % size) - half
  BY <1>1, <1>2 DEF ToInt, Truncated
<1> QED BY <1>3

\* A number that the machine's integers hold is what it was.
LEMMA ToIntFits == ASSUME NEW x \in 0..MaxInt PROVE ToInt(x) = x /\ x \in Nat
<1>1. PICK size \in Nat \ {0} : size = IntSize
  BY RandsAssumption
<1>2. PICK half \in Nat : half = size \div 2 /\ MaxInt + half < size /\ MaxInt \in Int
  BY <1>1 DEF MaxInt
<1>3. ToInt(x) = ((x + half) % size) - half
  BY <1>1, <1>2 DEF ToInt, Truncated
<1>4. x \in Nat /\ x + half \in 0..(size - 1)
  BY <1>2
<1> QED BY <1>3, <1>4

-----------------------------------------------------------------------------
(* Streams.                                                                 *)

Stream == [seed : Int, usage : Nat, seeds_per_row : Nat, wide : BOOLEAN]

LEMMA NextRandForm ==
  ASSUME NEW r \in Stream
  PROVE  /\ NextRand(r) \in Stream
         /\ NextRand(r).usage = r.usage + 1
         /\ NextRand(r).seeds_per_row = r.seeds_per_row /\ NextRand(r).wide = r.wide
         /\ ~r.wide => NextRand(r).seed = (r.seed * Multiplier) % Modulus
<1>0. r.seed \in Int /\ r.wide \in BOOLEAN /\ Multiplier \in Int /\ Multiplier64 \in Int /\ Modulus \in Nat \ {0}
  BY RandsAssumption DEF Stream
<1>1. PICK s : s = IF r.wide THEN Wrap(r.seed * Multiplier64 + 1) ELSE (r.seed * Multiplier) % Modulus
  OBVIOUS
<1>2. NextRand(r) = [r EXCEPT !.usage = @ + 1, !.seed = s]
  BY <1>1 DEF NextRand
<1>3. s \in Int
  <2>1. CASE r.wide
    <3>1. PICK x \in Int : x = r.seed * Multiplier64 + 1
      BY <1>0
    <3>2. s = ((x + WordSize \div 2) % WordSize) - WordSize \div 2
      BY <1>1, <2>1, <3>1 DEF Wrap, Truncated
    <3>3. WordSize \in Nat \ {0}
      <4>1. PICK y \in Nat : y = 2 * Modulus * Modulus
        BY <1>0
      <4> QED BY <4>1, RandsAssumption
    <3>4. PICK h \in Int : h = WordSize \div 2
      BY <3>3
    <3> QED BY <3>2, <3>3, <3>4
  <2>2. CASE ~r.wide
    <3>1. PICK x \in Int : x = r.seed * Multiplier
      BY <1>0
    <3> QED BY <1>0, <1>1, <2>2, <3>1
  <2> QED BY <2>1, <2>2
<1>4. [r EXCEPT !.usage = @ + 1, !.seed = s] \in Stream
  <2>1. r.usage + 1 \in Nat
    BY DEF Stream
  <2> QED BY <1>3, <2>1, Zenon DEF Stream
<1>5. /\ NextRand(r).usage = r.usage + 1 /\ NextRand(r).seed = s
      /\ NextRand(r).seeds_per_row = r.seeds_per_row /\ NextRand(r).wide = r.wide
  BY <1>2 DEF Stream
<1>6. ~r.wide => s = (r.seed * Multiplier) % Modulus
  BY <1>1
<1> QED BY <1>2, <1>4, <1>5, <1>6

\* Draws, by recursion.
LEMMA DrawsForm ==
  ASSUME NEW r \in Stream
  PROVE  /\ Draws(r, 0) = r
         /\ \A n \in Nat : Draws(r, n) \in Stream /\ Draws(r, n + 1) = NextRand(Draws(r, n))
<1> DEFINE G == [q \in Stream |-> NextRand(q)]
           f == Iteration(G, r)
<1>1. f[0] = r /\ \A n \in Nat : f[n + 1] = G[f[n]]
  BY IterationForm
<1> HIDE DEF f
<1>2. \A n \in Nat : f[n] \in Stream
  <2> DEFINE S == {n \in Nat : f[n] \in Stream}
  <2>1. 0 \in S
    BY <1>1
  <2>2. ASSUME NEW n \in Nat, n \in S PROVE n + 1 \in S
    <3>1. f[n] \in Stream /\ f[n + 1] = NextRand(f[n])
      BY <1>1, <2>2
    <3>2. f[n + 1] \in Stream
      BY <3>1, NextRandForm
    <3> QED BY <3>2
  <2>3. Nat \subseteq S
    BY <2>1, <2>2, Induction
  <2> QED BY <2>3
<1>3. \A n \in Nat : f[n + 1] = NextRand(f[n])
  BY <1>1, <1>2
<1> HIDE DEF G
<1>4. ASSUME NEW n \in Nat PROVE Draws(r, n) = f[n]
  <2> DEFINE Good(g) == g = [i \in 0..n |-> IF i = 0 THEN r ELSE NextRand(g[i - 1])]
             a == CHOOSE after : Good(after)
  <2>1. Draws(r, n) = a[n]
    BY DEF Draws
  <2>2. Good([i \in 0..n |-> f[i]])
    <3>1. \A i \in 0..n : f[i] = IF i = 0 THEN r ELSE NextRand(f[i - 1])
      <4> TAKE i \in 0..n
      <4>1. CASE i = 0
        BY <4>1, <1>1
      <4>2. CASE i # 0
        <5>1. i - 1 \in Nat /\ (i - 1) + 1 = i
          BY <4>2
        <5> QED BY <4>2, <5>1, <1>3
      <4> QED BY <4>1, <4>2
    <3>2. \A i \in 0..n : i # 0 => i - 1 \in 0..n
      OBVIOUS
    <3> QED BY <3>1, <3>2
  <2>3. Good(a)
    <3> HIDE DEF Good
    <3> QED BY <2>2
  <2> HIDE DEF a
  <2> DEFINE S == {i \in Nat : i <= n => a[i] = f[i]}
  <2>4. 0 \in S
    BY <1>1, <2>3
  <2>5. ASSUME NEW i \in Nat, i \in S PROVE i + 1 \in S
    <3>1. SUFFICES ASSUME i + 1 <= n PROVE a[i + 1] = f[i + 1]
      OBVIOUS
    <3>2. a[i] = f[i] /\ i + 1 \in 0..n /\ (i + 1) - 1 = i
      BY <2>5, <3>1
    <3>3. a[i + 1] = NextRand(a[i])
      BY <2>3, <3>2
    <3> QED BY <1>3, <3>2, <3>3
  <2>6. n \in S
    BY <2>4, <2>5, Induction
  <2> QED BY <2>1, <2>6
<1>5. \A n \in Nat : n + 1 \in Nat
  OBVIOUS
<1> QED BY <1>1, <1>2, <1>3, <1>4, <1>5

LEMMA DrawsFields ==
  ASSUME NEW r \in Stream, NEW n \in Nat
  PROVE  /\ Draws(r, n) \in Stream
         /\ Draws(r, n).usage = r.usage + n
         /\ Draws(r, n).seeds_per_row = r.seeds_per_row /\ Draws(r, n).wide = r.wide
<1> DEFINE S == {k \in Nat : /\ Draws(r, k).usage = r.usage + k
                             /\ Draws(r, k).seeds_per_row = r.seeds_per_row /\ Draws(r, k).wide = r.wide}
<1>1. 0 \in S
  <2>1. Draws(r, 0) = r /\ r.usage \in Nat /\ r.usage = r.usage + 0
    BY DrawsForm DEF Stream
  <2> QED BY <2>1
<1>2. ASSUME NEW k \in Nat, k \in S PROVE k + 1 \in S
  <2>1. PICK q \in Stream : q = Draws(r, k) /\ Draws(r, k + 1) = NextRand(q)
    BY DrawsForm
  <2>2. q.usage = r.usage + k /\ q.seeds_per_row = r.seeds_per_row /\ q.wide = r.wide /\ r.usage \in Nat
    BY <1>2, <2>1 DEF Stream
  <2> QED BY <2>1, <2>2, NextRandForm
<1>3. n \in S
  BY <1>1, <1>2, Induction
<1> QED BY <1>3, DrawsForm

LEMMA DrawsSum ==
  ASSUME NEW r \in Stream, NEW m \in Nat, NEW n \in Nat
  PROVE  Draws(Draws(r, m), n) = Draws(r, m + n)
<1> DEFINE S == {k \in Nat : Draws(Draws(r, m), k) = Draws(r, m + k)}
<1>0. Draws(r, m) \in Stream
  BY DrawsForm
<1>1. 0 \in S
  BY <1>0, DrawsForm
<1>2. ASSUME NEW k \in Nat, k \in S PROVE k + 1 \in S
  <2>1. m + k \in Nat /\ m + (k + 1) = (m + k) + 1
    OBVIOUS
  <2>2. Draws(Draws(r, m), k) = Draws(r, m + k)
    BY <1>2
  <2>3. Draws(Draws(r, m), k + 1) = NextRand(Draws(Draws(r, m), k))
    BY <1>0, DrawsForm
  <2>4. Draws(r, (m + k) + 1) = NextRand(Draws(r, m + k))
    BY <2>1, DrawsForm
  <2> QED BY <2>1, <2>2, <2>3, <2>4
<1>3. n \in S
  BY <1>1, <1>2, Induction
<1> QED BY <1>3

-----------------------------------------------------------------------------
(* The recurrence of a stream, with any multiplier, and the loop that skips. *)

Residues == 0..(Modulus - 1)

LEMMA Division ==
  ASSUME NEW n \in Nat, NEW d \in Nat \ {0}
  PROVE  /\ n \div d \in Nat
         /\ n % d \in 0..(d - 1)
         /\ n = d * (n \div d) + (n % d)
  BY SMT

LEMMA Residue ==
  ASSUME NEW x \in Nat
  PROVE  /\ x % Modulus \in Residues
         /\ \E q \in Nat : x = Modulus * q + (x % Modulus)
<1>1. Modulus \in Nat \ {0}
  BY RandsAssumption
<1>2. x \div Modulus \in Nat /\ x % Modulus \in 0..(Modulus - 1)
      /\ x = Modulus * (x \div Modulus) + (x % Modulus)
  BY <1>1, Division, Zenon
<1> QED BY <1>2, Zenon DEF Residues

LEMMA OneResidue ==
  ASSUME NEW p \in Int, NEW q \in Int, NEW b \in Residues, NEW c \in Residues,
         Modulus * p + b = Modulus * q + c
  PROVE  b = c
<1>1. Modulus \in Nat \ {0} /\ b \in Int /\ c \in Int
  BY RandsAssumption DEF Residues
<1>2. Modulus * (p - q) = c - b
  BY <1>1
<1>3. PICK d \in Int : d = p - q
  OBVIOUS
<1>4. -Modulus < c - b /\ c - b < Modulus
  BY <1>1 DEF Residues
<1>5. CASE d > 0
  <2>1. Modulus * d >= Modulus
    BY <1>1, <1>5
  <2> QED BY <1>1, <1>2, <1>3, <1>4, <2>1
<1>6. CASE d < 0
  <2>1. Modulus * d <= -Modulus
    BY <1>1, <1>6
  <2> QED BY <1>1, <1>2, <1>3, <1>4, <2>1
<1>7. CASE d = 0
  BY <1>1, <1>2, <1>3, <1>7
<1> QED BY <1>5, <1>6, <1>7

LEMMA ResidueOfSum ==
  ASSUME NEW q \in Nat, NEW c \in Nat
  PROVE  (Modulus * q + c) % Modulus = c % Modulus
<1>0. Modulus \in Nat \ {0}
  BY RandsAssumption
<1>1. PICK k \in Nat : c = Modulus * k + (c % Modulus)
  BY Residue
<1>2. PICK x \in Nat : x = Modulus * q + c
  <2>1. PICK u \in Nat : u = Modulus * q
    BY <1>0
  <2> QED BY <2>1
<1>3. PICK h \in Nat : x = Modulus * h + (x % Modulus)
  BY <1>2, Residue
<1>4. Modulus * q + c = Modulus * (q + k) + (c % Modulus)
  <2>1. Modulus * (q + k) = Modulus * q + Modulus * k
    BY <1>0
  <2>2. PICK d \in Nat : d = c % Modulus
    BY <1>0, Residue DEF Residues
  <2>3. PICK u \in Nat : u = Modulus * q
    BY <1>0
  <2>4. PICK v \in Nat : v = Modulus * k
    BY <1>0
  <2>5. c = v + d
    BY <1>1, <2>2, <2>4, Zenon
  <2>6. Modulus * (q + k) = u + v
    BY <2>1, <2>3, <2>4
  <2>7. u + c = (u + v) + d
    BY <2>2, <2>3, <2>4, <2>5
  <2> QED BY <2>2, <2>3, <2>6, <2>7, Zenon
<1>5. x % Modulus \in Residues /\ c % Modulus \in Residues
  BY <1>2, Residue
<1>6. q + k \in Int /\ h \in Int
  OBVIOUS
<1>7. Modulus * h + (x % Modulus) = Modulus * (q + k) + (c % Modulus)
  BY <1>2, <1>3, <1>4
<1>8. x % Modulus = c % Modulus
  <2>1. PICK b \in Residues, d \in Residues : b = x % Modulus /\ d = c % Modulus
    BY <1>5
  <2>2. PICK e \in Int : e = q + k
    BY <1>6
  <2>3. Modulus * h + b = Modulus * e + d
    BY <1>7, <2>1, <2>2, Zenon
  <2>4. b = d
    BY <1>6, <2>3, OneResidue
  <2> QED BY <2>1, <2>4
<1> QED BY <1>2, <1>8

LEMMA ResidueOfProduct ==
  ASSUME NEW a \in Nat, NEW b \in Nat
  PROVE  ((a % Modulus) * b) % Modulus = (a * b) % Modulus
<1>0. Modulus \in Nat \ {0}
  BY RandsAssumption
<1>1. PICK q \in Nat, c \in Nat : a = Modulus * q + c /\ c = a % Modulus
  <2>1. a % Modulus \in Nat
    BY <1>0, Residue DEF Residues
  <2>2. PICK q \in Nat : a = Modulus * q + (a % Modulus)
    BY Residue
  <2> QED BY <2>1, <2>2, Zenon
<1>2. PICK p \in Nat : p = q * b
  OBVIOUS
<1>3. PICK y \in Nat : y = c * b
  OBVIOUS
<1>4. a * b = Modulus * p + y
  <2>1. (Modulus * q + c) * b = Modulus * (q * b) + c * b
    BY <1>0
  <2> QED BY <1>1, <1>2, <1>3, <2>1
<1>5. (Modulus * p + y) % Modulus = y % Modulus
  BY ResidueOfSum
<1> QED BY <1>1, <1>3, <1>4, <1>5

\* seed after n multiplications by multiplier.
Multiplied(multiplier, seed) == Iteration([x \in Residues |-> (x * multiplier) % Modulus], seed)

LEMMA MultipliedForm ==
  ASSUME NEW multiplier \in Nat, NEW seed \in Residues
  PROVE  /\ Multiplied(multiplier, seed)[0] = seed
         /\ \A n \in Nat :
              /\ Multiplied(multiplier, seed)[n] \in Residues
              /\ Multiplied(multiplier, seed)[n + 1] = (Multiplied(multiplier, seed)[n] * multiplier) % Modulus
<1> DEFINE f == Multiplied(multiplier, seed)
           G == [x \in Residues |-> (x * multiplier) % Modulus]
           S == {n \in Nat : f[n] \in Residues}
<1>1. f[0] = seed /\ \A n \in Nat : f[n + 1] = G[f[n]]
  <2>1. f = Iteration(G, seed)
    BY DEF Multiplied
  <2> HIDE DEF f, G
  <2> QED BY <2>1, IterationForm
<1> HIDE DEF f
<1>2. \A x \in Residues : G[x] = (x * multiplier) % Modulus /\ G[x] \in Residues
  <2> TAKE x \in Residues
  <2>1. x * multiplier \in Nat
    BY RandsAssumption DEF Residues
  <2>2. (x * multiplier) % Modulus \in Residues
    BY <2>1, Residue
  <2> QED BY <2>2
<1> HIDE DEF G
<1>3. 0 \in S
  BY <1>1
<1>4. ASSUME NEW n \in Nat, n \in S PROVE n + 1 \in S
  BY <1>1, <1>2, <1>4
<1>5. Nat \subseteq S
  BY <1>3, <1>4, Induction
<1> QED BY <1>1, <1>2, <1>5 DEF f

\* One multiplication may come first.
LEMMA MultipliedShift ==
  ASSUME NEW multiplier \in Nat, NEW seed \in Residues, NEW n \in Nat
  PROVE  Multiplied(multiplier, (multiplier * seed) % Modulus)[n] = Multiplied(multiplier, seed)[n + 1]
<1> DEFINE next == (multiplier * seed) % Modulus
           S == {k \in Nat : Multiplied(multiplier, next)[k] = Multiplied(multiplier, seed)[k + 1]}
<1>0. next \in Residues /\ next = (seed * multiplier) % Modulus
  <2>1. seed \in Nat /\ multiplier * seed \in Nat /\ multiplier * seed = seed * multiplier
    BY RandsAssumption DEF Residues
  <2> QED BY <2>1, Residue
<1> HIDE DEF next
<1>1. 0 \in S
  <2>1. Multiplied(multiplier, seed)[0 + 1] = (Multiplied(multiplier, seed)[0] * multiplier) % Modulus
    BY MultipliedForm
  <2> QED BY <1>0, <2>1, MultipliedForm
<1>2. ASSUME NEW k \in Nat, k \in S PROVE k + 1 \in S
  <2>1. Multiplied(multiplier, next)[k + 1] = (Multiplied(multiplier, next)[k] * multiplier) % Modulus
    BY <1>0, MultipliedForm
  <2>2. Multiplied(multiplier, seed)[(k + 1) + 1] = (Multiplied(multiplier, seed)[k + 1] * multiplier) % Modulus
    BY MultipliedForm
  <2> QED BY <1>2, <2>1, <2>2
<1>3. n \in S
  BY <1>1, <1>2, Induction
<1> QED BY <1>3 DEF next

\* A multiplication by the square is two.
LEMMA MultipliedTwice ==
  ASSUME NEW multiplier \in Nat, NEW seed \in Residues, NEW n \in Nat
  PROVE  Multiplied((multiplier * multiplier) % Modulus, seed)[n] = Multiplied(multiplier, seed)[2 * n]
<1> DEFINE square == (multiplier * multiplier) % Modulus
           S == {k \in Nat : Multiplied(square, seed)[k] = Multiplied(multiplier, seed)[2 * k]}
<1>0. square \in Nat
  <2>1. multiplier * multiplier \in Nat
    OBVIOUS
  <2> QED BY <2>1, Residue, RandsAssumption DEF Residues
<1>1. ASSUME NEW x \in Residues
      PROVE  (x * square) % Modulus = (((x * multiplier) % Modulus) * multiplier) % Modulus
  <2>0. x \in Nat
    BY RandsAssumption DEF Residues
  <2>1. PICK y \in Nat : y = x * multiplier
    BY <2>0
  <2>2. PICK z \in Nat : z = multiplier * multiplier
    OBVIOUS
  <2>3. ((y % Modulus) * multiplier) % Modulus = (y * multiplier) % Modulus
    BY ResidueOfProduct
  <2>4. ((z % Modulus) * x) % Modulus = (z * x) % Modulus
    BY <2>0, ResidueOfProduct
  <2>5. y * multiplier = z * x
    BY <2>0, <2>1, <2>2
  <2>6. (z % Modulus) * x = x * (z % Modulus)
    BY <2>0, <2>2, Residue DEF Residues
  <2> QED BY <2>1, <2>2, <2>3, <2>4, <2>5, <2>6
<1>2. square = (multiplier * multiplier) % Modulus
  OBVIOUS
<1> HIDE DEF square
<1>3. 0 \in S
  BY <1>0, MultipliedForm
<1>4. ASSUME NEW k \in Nat, k \in S PROVE k + 1 \in S
  <2>0. 2 * k \in Nat /\ 2 * (k + 1) = ((2 * k) + 1) + 1
    OBVIOUS
  <2>1. PICK x \in Residues : x = Multiplied(square, seed)[k] /\ x = Multiplied(multiplier, seed)[2 * k]
    BY <1>0, <1>4, MultipliedForm
  <2>2. Multiplied(square, seed)[k + 1] = (x * square) % Modulus
    <3>1. Multiplied(square, seed)[k + 1] = (Multiplied(square, seed)[k] * square) % Modulus
      BY <1>0, MultipliedForm
    <3> QED BY <2>1, <3>1
  <2>3. Multiplied(multiplier, seed)[(2 * k) + 1] = (x * multiplier) % Modulus
    BY <2>0, <2>1, MultipliedForm
  <2>4. Multiplied(multiplier, seed)[((2 * k) + 1) + 1] = (((x * multiplier) % Modulus) * multiplier) % Modulus
    BY <2>0, <2>3, MultipliedForm
  <2> QED BY <1>1, <2>0, <2>2, <2>4
<1>5. n \in S
  BY <1>3, <1>4, Induction
<1> QED BY <1>5 DEF square

\* Later applications of an iteration are those from its first value on.
LEMMA IterationShift ==
  ASSUME NEW G, NEW x, NEW n \in Nat
  PROVE  Iteration(G, G[x])[n] = Iteration(G, x)[n + 1]
<1> DEFINE f == Iteration(G, x)
           g == Iteration(G, G[x])
           S == {k \in Nat : g[k] = f[k + 1]}
<1>1. /\ f[0] = x /\ \A k \in Nat : f[k + 1] = G[f[k]]
      /\ g[0] = G[x] /\ \A k \in Nat : g[k + 1] = G[g[k]]
  BY IterationForm
<1> HIDE DEF f, g
<1>2. 0 \in S
  <2>1. f[0 + 1] = G[f[0]]
    BY <1>1
  <2> QED BY <1>1, <2>1
<1>3. ASSUME NEW k \in Nat, k \in S PROVE k + 1 \in S
  BY <1>1, <1>3
<1>4. n \in S
  BY <1>2, <1>3, Induction
<1> QED BY <1>4 DEF f, g

\* The loop of AdvanceSeed.
LoopState == [remaining : Nat, multiplier : Int, seed : Int]
LoopNext(l) ==
  [remaining |-> l.remaining \div 2,
   multiplier |-> (l.multiplier * l.multiplier) % Modulus,
   seed |-> IF l.remaining % 2 # 0
            THEN Remainder(Wrap(l.multiplier * l.seed), Modulus)
            ELSE l.seed]
IsLoop(f) == f = [l \in LoopState |-> IF l.remaining = 0 THEN l.seed ELSE f[LoopNext(l)]]

LEMMA Halves ==
  ASSUME NEW n \in Nat
  PROVE  /\ n \div 2 \in Nat /\ (n > 0 => n \div 2 < n)
         /\ n % 2 \in {0, 1} /\ n = 2 * (n \div 2) + (n % 2)
BY SMT

LEMMA LoopNextForm == ASSUME NEW l \in LoopState PROVE LoopNext(l) \in LoopState
<1>0. Modulus \in Nat \ {0} /\ WordSize \in Nat \ {0}
  <2>1. Modulus \in Nat \ {0} /\ 2 * Modulus * Modulus \in Nat
    BY RandsAssumption
  <2>2. PICK y \in Nat : y = 2 * Modulus * Modulus
    BY <2>1
  <2> QED BY <2>1, <2>2, RandsAssumption
<1>1. l.remaining \in Nat /\ l.multiplier \in Int /\ l.seed \in Int
  BY DEF LoopState
<1>2. l.remaining \div 2 \in Nat
  BY <1>1, Halves
<1>3. (l.multiplier * l.multiplier) % Modulus \in Int
  <2>1. PICK y \in Int : y = l.multiplier * l.multiplier
    BY <1>1
  <2> QED BY <1>0, <2>1
<1>4. Remainder(Wrap(l.multiplier * l.seed), Modulus) \in Int
  <2>1. PICK y \in Int : y = l.multiplier * l.seed
    BY <1>1
  <2>2. PICK h \in Int : h = WordSize \div 2
    BY <1>0
  <2>3. PICK w \in Int : w = Wrap(y)
    BY <1>0, <2>1, <2>2 DEF Wrap, Truncated
  <2>4. w % Modulus \in Int /\ (-w) % Modulus \in Int
    BY <1>0, <2>3
  <2>5. Remainder(w, Modulus) \in Int
    BY <2>3, <2>4 DEF Remainder
  <2> QED BY <2>1, <2>3, <2>5
<1> QED BY <1>1, <1>2, <1>3, <1>4 DEF LoopNext, LoopState

LEMMA LoopExists == \E f : IsLoop(f)
<1> DEFINE G == [l \in LoopState |-> IF l.remaining = 0 THEN l ELSE LoopNext(l)]
           f == [l \in LoopState |-> Iteration(G, l)[l.remaining].seed]
<1>1. \A l \in LoopState : G[l] \in LoopState /\ l.remaining \in Nat
  BY LoopNextForm DEF LoopState
<1>2. \A l \in LoopState : l.remaining = 0 => G[l] = l
  OBVIOUS
<1>3. \A l \in LoopState : l.remaining > 0 => G[l] = LoopNext(l) /\ G[l].remaining < l.remaining
  <2> TAKE l \in LoopState
  <2> HAVE l.remaining > 0
  <2>1. G[l] = LoopNext(l)
    BY <1>1
  <2>2. LoopNext(l).remaining = l.remaining \div 2
    BY DEF LoopNext
  <2>3. l.remaining \div 2 < l.remaining
    BY <1>1, Halves
  <2> HIDE DEF G
  <2> QED BY <2>1, <2>2, <2>3
<1> HIDE DEF G
<1>4. ASSUME NEW l \in LoopState, NEW n \in Nat
      PROVE  /\ Iteration(G, l)[n] \in LoopState
             /\ Iteration(G, l)[n].remaining <= l.remaining
             /\ Iteration(G, l)[n].remaining > 0 => Iteration(G, l)[n].remaining + n <= l.remaining
  <2> DEFINE i == Iteration(G, l)
             S == {k \in Nat : /\ i[k] \in LoopState /\ i[k].remaining <= l.remaining
                               /\ i[k].remaining > 0 => i[k].remaining + k <= l.remaining}
  <2>1. i[0] = l /\ \A k \in Nat : i[k + 1] = G[i[k]]
    BY IterationForm
  <2> HIDE DEF i
  <2>2. 0 \in S
    BY <1>1, <2>1
  <2>3. ASSUME NEW k \in Nat, k \in S PROVE k + 1 \in S
    <3>1. PICK q \in LoopState : q = i[k] /\ i[k + 1] = G[q]
      BY <2>1, <2>3
    <3>2. q.remaining \in Nat /\ G[q] \in LoopState /\ G[q].remaining \in Nat /\ l.remaining \in Nat
      BY <1>1
    <3>3. q.remaining <= l.remaining /\ (q.remaining > 0 => q.remaining + k <= l.remaining)
      BY <2>3, <3>1
    <3>4. CASE q.remaining = 0
      <4>1. G[q] = q
        BY <1>2, <3>4
      <4> QED BY <3>1, <3>2, <3>3, <3>4, <4>1
    <3>5. CASE q.remaining > 0
      <4>1. G[q].remaining < q.remaining
        BY <1>3, <3>5
      <4> QED BY <3>1, <3>2, <3>3, <3>5, <4>1
    <3> QED BY <3>2, <3>4, <3>5
  <2>4. n \in S
    BY <2>2, <2>3, Induction
  <2> QED BY <2>4 DEF i
<1>5. ASSUME NEW l \in LoopState, NEW n \in Nat, NEW m \in Nat, l.remaining <= m, m <= n
      PROVE  Iteration(G, l)[n] = Iteration(G, l)[m]
  <2> DEFINE i == Iteration(G, l)
             S == {k \in Nat : i[m + k] = i[m]}
  <2>1. \A k \in Nat : i[k + 1] = G[i[k]]
    BY IterationForm
  <2>2. i[m] \in LoopState /\ i[m].remaining = 0
    <3>1. /\ i[m] \in LoopState
          /\ i[m].remaining > 0 => i[m].remaining + m <= l.remaining
      BY <1>4
    <3> HIDE DEF i
    <3>2. i[m].remaining \in Nat /\ l.remaining \in Nat
      BY <1>1, <3>1
    <3> QED BY <1>5, <3>1, <3>2
  <2> HIDE DEF i
  <2>3. 0 \in S
    OBVIOUS
  <2>4. ASSUME NEW k \in Nat, k \in S PROVE k + 1 \in S
    <3>1. m + (k + 1) = (m + k) + 1 /\ m + k \in Nat
      OBVIOUS
    <3>2. i[(m + k) + 1] = G[i[m]]
      BY <2>1, <2>4, <3>1
    <3>3. G[i[m]] = i[m]
      BY <1>2, <2>2
    <3> QED BY <3>1, <3>2, <3>3
  <2>5. n - m \in Nat /\ n = m + (n - m)
    BY <1>5
  <2>6. Nat \subseteq S
    BY <2>3, <2>4, Induction
  <2> QED BY <2>5, <2>6 DEF i
<1>6. \A l \in LoopState : f[l] = IF l.remaining = 0 THEN l.seed ELSE f[LoopNext(l)]
  <2> TAKE l \in LoopState
  <2>1. CASE l.remaining = 0
    <3>1. Iteration(G, l)[0] = l
      BY IterationForm
    <3> QED BY <2>1, <3>1
  <2>2. CASE l.remaining # 0
    <3>1. l.remaining \in Nat /\ l.remaining > 0 /\ l.remaining - 1 \in Nat
      BY <1>1, <2>2
    <3>2. PICK q \in LoopState : q = LoopNext(l) /\ q = G[l] /\ q.remaining < l.remaining /\ q.remaining \in Nat
      BY <1>1, <1>3, <3>1
    <3>3. Iteration(G, q)[l.remaining - 1] = Iteration(G, l)[l.remaining]
      <4>1. Iteration(G, G[l])[l.remaining - 1] = Iteration(G, l)[(l.remaining - 1) + 1]
        BY <3>1, IterationShift
      <4>2. (l.remaining - 1) + 1 = l.remaining
        BY <3>1
      <4> QED BY <3>2, <4>1, <4>2
    <3>4. Iteration(G, q)[l.remaining - 1] = Iteration(G, q)[q.remaining]
      BY <1>5, <3>1, <3>2
    <3> QED BY <2>2, <3>2, <3>3, <3>4
  <2> QED BY <2>1, <2>2
<1>7. IsLoop(f)
  <2> HIDE DEF f
  <2>1. f = [l \in LoopState |-> f[l]]
    BY DEF f
  <2>2. [l \in LoopState |-> f[l]] = [l \in LoopState |-> IF l.remaining = 0 THEN l.seed ELSE f[LoopNext(l)]]
    BY <1>6
  <2> QED BY <2>1, <2>2 DEF IsLoop
<1> QED BY <1>7

\* What the loop computes: remaining multiplications by the multiplier.
LEMMA LoopForm ==
  ASSUME NEW f, IsLoop(f)
  PROVE  /\ \A l \in LoopState : f[l] \in Int
         /\ \A n \in Nat : \A m \in Residues, s \in Residues :
              f[[remaining |-> n, multiplier |-> m, seed |-> s]] = Multiplied(m, s)[n]
<1> DEFINE At(n, m, s) == [remaining |-> n, multiplier |-> m, seed |-> s]
<1>1. \A l \in LoopState : f[l] = IF l.remaining = 0 THEN l.seed ELSE f[LoopNext(l)]
  BY DEF IsLoop
<1>2. \A l \in LoopState : l.remaining \in Nat /\ l.seed \in Int
  BY DEF LoopState
<1>3. \A l \in LoopState : f[l] \in Int
  <2> DEFINE S == {n \in Nat : \A l \in LoopState : l.remaining = n => f[l] \in Int}
  <2>1. ASSUME NEW n \in Nat, \A k \in Nat : k < n => k \in S PROVE n \in S
    <3>1. SUFFICES ASSUME NEW l \in LoopState, l.remaining = n PROVE f[l] \in Int
      OBVIOUS
    <3>2. CASE n = 0
      BY <1>1, <1>2, <3>1, <3>2
    <3>3. CASE n > 0
      <4>1. LoopNext(l) \in LoopState
        BY LoopNextForm
      <4>2. LoopNext(l).remaining = n \div 2
        BY <3>1 DEF LoopNext
      <4>3. n \div 2 \in Nat /\ n \div 2 < n
        BY <3>3, Halves
      <4>4. n \div 2 \in S
        BY <2>1, <4>3
      <4>5. f[LoopNext(l)] \in Int
        BY <4>1, <4>2, <4>4
      <4> QED BY <1>1, <3>1, <3>3, <4>5
    <3> QED BY <3>2, <3>3
  <2>2. Nat \subseteq S
    BY <2>1, StrongInduction
  <2> QED BY <1>2, <2>2
<1>4. \A n \in Nat : \A m \in Residues, s \in Residues : f[At(n, m, s)] = Multiplied(m, s)[n]
  <2> DEFINE S == {n \in Nat : \A m \in Residues, s \in Residues : f[At(n, m, s)] = Multiplied(m, s)[n]}
  <2>1. ASSUME NEW n \in Nat, \A k \in Nat : k < n => k \in S PROVE n \in S
    <3>1. SUFFICES ASSUME NEW m \in Residues, NEW s \in Residues PROVE f[At(n, m, s)] = Multiplied(m, s)[n]
      OBVIOUS
    <3> DEFINE l == At(n, m, s)
    <3>2. l \in LoopState /\ l.remaining = n /\ l.multiplier = m /\ l.seed = s
      BY RandsAssumption DEF LoopState, Residues
    <3>3. m \in Nat /\ s \in Nat
      BY RandsAssumption DEF Residues
    <3>4. f[l] = IF n = 0 THEN s ELSE f[LoopNext(l)]
      <4> HIDE DEF l
      <4> QED BY <1>1, <3>2
    <3>5. CASE n = 0
      BY <3>3, <3>4, <3>5, MultipliedForm
    <3>6. CASE n > 0
      <4> DEFINE half == n \div 2
                 square == (m * m) % Modulus
                 seed == IF n % 2 # 0 THEN (m * s) % Modulus ELSE s
      <4>1. half \in Nat /\ half < n /\ n % 2 \in {0, 1} /\ n = 2 * half + (n % 2)
        BY <3>6, Halves
      <4>2. square \in Residues /\ seed \in Residues
        <5>1. m * m \in Nat /\ m * s \in Nat
          BY <3>3
        <5> QED BY <5>1, Residue
      <4>3. Remainder(Wrap(m * s), Modulus) = (m * s) % Modulus
        <5>1. PICK p \in Nat : p = m * s
          BY <3>3
        <5>2. p <= Modulus * Modulus
          <6>1. Modulus \in Nat /\ m <= Modulus /\ s <= Modulus
            BY RandsAssumption DEF Residues
          <6>2. m * s <= Modulus * s /\ Modulus * s <= Modulus * Modulus
            BY <3>3, <6>1
          <6> QED BY <3>3, <5>1, <6>1, <6>2
        <5>3. PICK y \in Nat : y = Modulus * Modulus
          BY RandsAssumption
        <5>4. 2 * Modulus * Modulus = 2 * y
          BY <5>3, RandsAssumption
        <5>5. WordSize \in Nat /\ WordSize > 2 * p
          BY <5>2, <5>3, <5>4, RandsAssumption
        <5>6. PICK h \in Nat : h = WordSize \div 2
          BY <5>5
        <5>7. p + h < WordSize /\ WordSize \in Nat \ {0}
          BY <5>5, <5>6
        <5>8. (p + h) % WordSize = p + h
          BY <5>7
        <5>9. Wrap(p) = p
          BY <5>6, <5>8 DEF Wrap, Truncated
        <5> QED BY <5>1, <5>9 DEF Remainder
      <4>4. LoopNext(l) = At(half, square, seed)
        BY <4>3 DEF LoopNext
      <4>5. f[At(half, square, seed)] = Multiplied(square, seed)[half]
        <5> HIDE DEF half, square, seed, At
        <5>1. half \in S
          BY <2>1, <4>1
        <5> QED BY <4>2, <5>1
      <4>6. Multiplied(square, seed)[half] = Multiplied(m, seed)[2 * half]
        <5> HIDE DEF half, seed
        <5> QED BY <3>3, <4>1, <4>2, MultipliedTwice
      <4>7. Multiplied(m, seed)[2 * half] = Multiplied(m, s)[n]
        <5>1. CASE n % 2 = 0
          BY <4>1, <5>1
        <5>2. CASE n % 2 = 1
          <6>1. seed = (m * s) % Modulus
            BY <5>2
          <6>2. 2 * half \in Nat /\ n = 2 * half + 1
            BY <4>1, <5>2
          <6> HIDE DEF half, seed
          <6>3. Multiplied(m, (m * s) % Modulus)[2 * half] = Multiplied(m, s)[(2 * half) + 1]
            BY <3>3, <6>2, MultipliedShift
          <6> QED BY <6>1, <6>2, <6>3
        <5> QED BY <4>1, <5>1, <5>2
      <4> HIDE DEF half, square, seed
      <4> QED BY <3>4, <3>6, <4>4, <4>5, <4>6, <4>7
    <3> QED BY <3>5, <3>6
  <2>2. Nat \subseteq S
    BY <2>1, StrongInduction
  <2> QED BY <2>2
<1> QED BY <1>3, <1>4

\* A stream of the 31-bit generator, its seed in range.
Short(r) == r \in Stream /\ ~r.wide /\ r.seed \in Residues

\* Skipping keeps everything but the seed, which it takes as far as drawing does.
LEMMA AdvanceSeedForm ==
  ASSUME NEW r \in Stream, NEW n \in Nat
  PROVE  /\ AdvanceSeed(r, n) \in Stream
         /\ AdvanceSeed(r, n).usage = r.usage
         /\ AdvanceSeed(r, n).seeds_per_row = r.seeds_per_row /\ AdvanceSeed(r, n).wide = r.wide
         /\ Short(r) => AdvanceSeed(r, n).seed = Multiplied(Multiplier, r.seed)[n]
<1> DEFINE f == CHOOSE g : IsLoop(g)
           start == [remaining |-> n, multiplier |-> Multiplier, seed |-> r.seed]
<1>1. IsLoop(f)
  BY LoopExists
<1>2. AdvanceSeed(r, n) = [r EXCEPT !.seed = f[start]]
  BY DEF AdvanceSeed, IsLoop, LoopState, LoopNext
<1> HIDE DEF f
<1>3. start \in LoopState
  BY RandsAssumption DEF LoopState, Stream
<1>4. f[start] \in Int
  <2> HIDE DEF start
  <2> QED BY <1>1, <1>3, LoopForm
<1>5. Short(r) => f[start] = Multiplied(Multiplier, r.seed)[n]
  BY <1>1, LoopForm, RandsAssumption DEF Short, Residues
<1> HIDE DEF start
<1> QED BY <1>2, <1>4, <1>5 DEF Stream

LEMMA DrawsSeed ==
  ASSUME NEW r, Short(r), NEW n \in Nat
  PROVE  Draws(r, n).seed = Multiplied(Multiplier, r.seed)[n] /\ Draws(r, n).seed \in Residues
<1> DEFINE S == {k \in Nat : Draws(r, k).seed = Multiplied(Multiplier, r.seed)[k]}
<1>0. r \in Stream /\ ~r.wide /\ r.seed \in Residues /\ Multiplier \in Nat
  BY RandsAssumption DEF Short
<1>1. 0 \in S
  BY <1>0, DrawsForm, MultipliedForm
<1>2. ASSUME NEW k \in Nat, k \in S PROVE k + 1 \in S
  <2>1. PICK q \in Stream : q = Draws(r, k) /\ Draws(r, k + 1) = NextRand(q)
    BY <1>0, DrawsForm
  <2>2. ~q.wide
    BY <1>0, <2>1, DrawsFields
  <2>3. NextRand(q).seed = (q.seed * Multiplier) % Modulus
    BY <2>2, NextRandForm
  <2>4. Multiplied(Multiplier, r.seed)[k + 1] = (Multiplied(Multiplier, r.seed)[k] * Multiplier) % Modulus
    BY <1>0, MultipliedForm
  <2> QED BY <1>2, <2>1, <2>3, <2>4
<1>3. n \in S
  BY <1>1, <1>2, Induction
<1> QED BY <1>0, <1>3, MultipliedForm

LEMMA MultipliedSum ==
  ASSUME NEW multiplier \in Nat, NEW seed \in Residues, NEW m \in Nat, NEW n \in Nat
  PROVE  Multiplied(multiplier, Multiplied(multiplier, seed)[m])[n] = Multiplied(multiplier, seed)[m + n]
<1> DEFINE middle == Multiplied(multiplier, seed)[m]
           S == {k \in Nat : Multiplied(multiplier, middle)[k] = Multiplied(multiplier, seed)[m + k]}
<1>0. middle \in Residues
  BY MultipliedForm
<1>1. 0 \in S
  <2>1. Multiplied(multiplier, middle)[0] = middle
    <3> HIDE DEF middle
    <3> QED BY <1>0, MultipliedForm
  <2> QED BY <2>1
<1>2. ASSUME NEW k \in Nat, k \in S PROVE k + 1 \in S
  <2>1. m + k \in Nat /\ m + (k + 1) = (m + k) + 1
    OBVIOUS
  <2>2. Multiplied(multiplier, middle)[k + 1] = (Multiplied(multiplier, middle)[k] * multiplier) % Modulus
    <3> HIDE DEF middle
    <3> QED BY <1>0, MultipliedForm
  <2>3. Multiplied(multiplier, seed)[(m + k) + 1] = (Multiplied(multiplier, seed)[m + k] * multiplier) % Modulus
    BY <2>1, MultipliedForm
  <2>4. Multiplied(multiplier, middle)[k] = Multiplied(multiplier, seed)[m + k]
    BY <1>2
  <2> HIDE DEF middle
  <2> QED BY <2>1, <2>2, <2>3, <2>4
<1>3. n \in S
  BY <1>1, <1>2, Induction
<1> QED BY <1>3

LEMMA StreamFields ==
  ASSUME NEW r \in Stream
  PROVE  r.seed \in Int /\ r.usage \in Nat /\ r.seeds_per_row \in Nat /\ r.wide \in BOOLEAN
BY DEF Stream

LEMMA SameStream ==
  ASSUME NEW q \in Stream, NEW r \in Stream,
         q.seed = r.seed, q.usage = r.usage, q.seeds_per_row = r.seeds_per_row, q.wide = r.wide
  PROVE  q = r
BY DEF Stream

LEMMA SetUsage ==
  ASSUME NEW r \in Stream
  PROVE  /\ [r EXCEPT !.usage = 0] \in Stream /\ [r EXCEPT !.usage = 0].usage = 0
         /\ [r EXCEPT !.usage = 0].seed = r.seed
         /\ [r EXCEPT !.usage = 0].seeds_per_row = r.seeds_per_row /\ [r EXCEPT !.usage = 0].wide = r.wide
BY DEF Stream

\* Padding and skipping, whatever the generator.
LEMMA RowFinishedFields ==
  ASSUME NEW r \in Stream
  PROVE  /\ RowFinished(r) \in Stream /\ RowFinished(r).usage = 0
         /\ RowFinished(r).seeds_per_row = r.seeds_per_row /\ RowFinished(r).wide = r.wide
<1> DEFINE remaining == r.seeds_per_row - r.usage
           padded == IF remaining > 0 THEN AdvanceSeed(r, remaining) ELSE r
<1>1. padded \in Stream /\ padded.seeds_per_row = r.seeds_per_row /\ padded.wide = r.wide
  <2>1. CASE remaining > 0
    <3>1. remaining \in Nat
      BY <2>1, StreamFields
    <3> HIDE DEF remaining
    <3> QED BY <2>1, <3>1, AdvanceSeedForm
  <2>2. CASE ~(remaining > 0)
    BY <2>2
  <2> QED BY <2>1, <2>2
<1>2. RowFinished(r) = [padded EXCEPT !.usage = 0]
  BY DEF RowFinished
<1> HIDE DEF padded
<1> QED BY <1>1, <1>2, SetUsage

LEMMA AdvanceRowsFields ==
  ASSUME NEW r \in Stream, r.usage = 0, NEW k \in Nat
  PROVE  /\ AdvanceRows(r, k) \in Stream /\ AdvanceRows(r, k).usage = 0
         /\ AdvanceRows(r, k).seeds_per_row = r.seeds_per_row /\ AdvanceRows(r, k).wide = r.wide
         /\ Short(r) => AdvanceRows(r, k).seed = Multiplied(Multiplier, r.seed)[r.seeds_per_row * k]
<1>1. PICK n \in Nat : n = r.seeds_per_row * k
  BY StreamFields
<1>2. AdvanceRows(r, k) = IF n > 0 THEN AdvanceSeed(r, n) ELSE r
  BY <1>1 DEF AdvanceRows
<1>3. CASE n > 0
  <2>1. PICK x : x = AdvanceSeed(r, n)
    OBVIOUS
  <2>2. /\ x \in Stream /\ x.usage = 0 /\ x.seeds_per_row = r.seeds_per_row /\ x.wide = r.wide
        /\ Short(r) => x.seed = Multiplied(Multiplier, r.seed)[n]
    BY <1>3, <2>1, AdvanceSeedForm
  <2> QED BY <1>1, <1>2, <1>3, <2>1, <2>2
<1>4. CASE n = 0
  <2>1. Short(r) => Multiplied(Multiplier, r.seed)[0] = r.seed
    BY MultipliedForm, RandsAssumption DEF Short
  <2> QED BY <1>1, <1>2, <1>4, <2>1
<1> QED BY <1>3, <1>4

\* A row that draws no more than its budget and is padded to it leaves the stream
\* where skipping the row leaves it.
LEMMA RowOfStream ==
  ASSUME NEW r, Short(r), r.usage = 0, NEW k \in Nat, NEW u \in 0..r.seeds_per_row
  PROVE  RowFinished(Draws(AdvanceRows(r, k), u)) = AdvanceRows(r, k + 1)
<1> DEFINE q == AdvanceRows(r, k)
           d == Draws(q, u)
           remaining == d.seeds_per_row - d.usage
           padded == IF remaining > 0 THEN AdvanceSeed(d, remaining) ELSE d
           e == AdvanceRows(r, k + 1)
           budget == r.seeds_per_row
<1>0. r \in Stream /\ ~r.wide /\ r.seed \in Residues /\ Multiplier \in Nat /\ budget \in Nat /\ u \in Nat /\ u <= budget
  BY RandsAssumption, StreamFields DEF Short
<1>1. /\ q \in Stream /\ q.usage = 0 /\ q.seeds_per_row = budget /\ ~q.wide
      /\ q.seed = Multiplied(Multiplier, r.seed)[budget * k]
  <2>1. PICK row : row = AdvanceRows(r, k)
    OBVIOUS
  <2>2. /\ row \in Stream /\ row.usage = 0 /\ row.seeds_per_row = r.seeds_per_row /\ row.wide = r.wide
        /\ row.seed = Multiplied(Multiplier, r.seed)[r.seeds_per_row * k]
    BY <1>0, <2>1, AdvanceRowsFields
  <2> QED BY <1>0, <2>1, <2>2
<1>2. /\ e \in Stream /\ e.usage = 0 /\ e.seeds_per_row = budget /\ ~e.wide
      /\ e.seed = Multiplied(Multiplier, r.seed)[budget * (k + 1)]
  <2>1. k + 1 \in Nat
    OBVIOUS
  <2>2. PICK x \in Nat : x = k + 1
    BY <2>1
  <2>3. /\ AdvanceRows(r, x) \in Stream /\ AdvanceRows(r, x).usage = 0
        /\ AdvanceRows(r, x).seeds_per_row = budget /\ ~AdvanceRows(r, x).wide
        /\ AdvanceRows(r, x).seed = Multiplied(Multiplier, r.seed)[budget * x]
    <3>1. PICK row : row = AdvanceRows(r, x)
      OBVIOUS
    <3>2. /\ row \in Stream /\ row.usage = 0 /\ row.seeds_per_row = r.seeds_per_row /\ row.wide = r.wide
          /\ row.seed = Multiplied(Multiplier, r.seed)[r.seeds_per_row * x]
      BY <1>0, <3>1, AdvanceRowsFields, Zenon
    <3> QED BY <1>0, <3>1, <3>2
  <2> QED BY <2>2, <2>3
<1>3. PICK n \in Nat : n = budget * k /\ n + budget = budget * (k + 1)
  <2>1. PICK b \in Nat : b = budget
    BY <1>0
  <2>2. PICK n \in Nat : n = b * k
    OBVIOUS
  <2>3. b * (k + 1) = n + b
    BY <2>2
  <2> HIDE DEF budget
  <2> QED BY <2>1, <2>2, <2>3
<1> HIDE DEF q, e, budget
<1>4. Short(q) /\ Multiplied(Multiplier, q.seed)[budget] = e.seed
  <2>1. q.seed \in Residues
    BY <1>0, <1>1, <1>3, MultipliedForm
  <2>2. Multiplied(Multiplier, Multiplied(Multiplier, r.seed)[n])[budget] = Multiplied(Multiplier, r.seed)[n + budget]
    <3>1. r.seed \in Residues /\ Multiplier \in Nat
      BY <1>0
    <3>2. PICK b \in Nat : b = budget
      BY <1>0
    <3>3. Multiplied(Multiplier, Multiplied(Multiplier, r.seed)[n])[b] = Multiplied(Multiplier, r.seed)[n + b]
      <4>1. PICK x \in Residues, m \in Nat : x = r.seed /\ m = Multiplier
        BY <3>1
      <4>2. Multiplied(m, Multiplied(m, x)[n])[b] = Multiplied(m, x)[n + b]
        BY MultipliedSum
      <4> QED BY <4>1, <4>2
    <3> QED BY <3>2, <3>3
  <2>3. Short(q)
    BY <1>1, <2>1 DEF Short
  <2> QED BY <1>1, <1>2, <1>3, <2>2, <2>3
<1>5. /\ d \in Stream /\ d.usage = u /\ d.seeds_per_row = budget /\ ~d.wide
      /\ d.seed = Multiplied(Multiplier, q.seed)[u] /\ d.seed \in Residues
  <2>1. /\ d \in Stream /\ d.usage = q.usage + u /\ d.seeds_per_row = q.seeds_per_row /\ d.wide = q.wide
    BY <1>0, <1>1, DrawsFields
  <2>2. d.seed = Multiplied(Multiplier, q.seed)[u] /\ d.seed \in Residues
    BY <1>0, <1>4, DrawsSeed
  <2> QED BY <1>0, <1>1, <2>1, <2>2
<1>6. RowFinished(d) = [padded EXCEPT !.usage = 0]
  BY DEF RowFinished
<1>7. padded \in Stream /\ padded.seeds_per_row = budget /\ ~padded.wide /\ padded.seed = e.seed
  <2>1. CASE remaining > 0
    <3>1. remaining \in Nat /\ u + remaining = budget
      BY <1>0, <1>5, <2>1
    <3>2. Short(d)
      BY <1>5 DEF Short
    <3> HIDE DEF d, remaining
    <3>3. /\ AdvanceSeed(d, remaining) \in Stream
          /\ AdvanceSeed(d, remaining).seeds_per_row = d.seeds_per_row
          /\ AdvanceSeed(d, remaining).wide = d.wide
          /\ AdvanceSeed(d, remaining).seed = Multiplied(Multiplier, d.seed)[remaining]
      BY <1>5, <3>1, <3>2, AdvanceSeedForm
    <3>4. Multiplied(Multiplier, d.seed)[remaining] = Multiplied(Multiplier, q.seed)[u + remaining]
      <4>1. q.seed \in Residues
        BY <1>4 DEF Short
      <4>2. Multiplied(Multiplier, Multiplied(Multiplier, q.seed)[u])[remaining]
              = Multiplied(Multiplier, q.seed)[u + remaining]
        <5>1. Multiplier \in Nat /\ u \in Nat
          BY <1>0
        <5>2. PICK b \in Nat : b = remaining
          BY <3>1
        <5>3. Multiplied(Multiplier, Multiplied(Multiplier, q.seed)[u])[b] = Multiplied(Multiplier, q.seed)[u + b]
          BY <4>1, <5>1, MultipliedSum
        <5> QED BY <5>2, <5>3
      <4> QED BY <1>5, <4>2
    <3> QED BY <1>4, <1>5, <2>1, <3>1, <3>3, <3>4
  <2>2. CASE ~(remaining > 0)
    <3>1. u = budget
      BY <1>0, <1>5, <2>2
    <3> HIDE DEF d
    <3> QED BY <1>4, <1>5, <2>2, <3>1
  <2> QED BY <2>1, <2>2
<1> HIDE DEF d, padded
<1>8. /\ RowFinished(d) \in Stream /\ RowFinished(d).usage = 0 /\ RowFinished(d).seed = e.seed
      /\ RowFinished(d).seeds_per_row = budget /\ RowFinished(d).wide = padded.wide
  BY <1>6, <1>7, SetUsage
<1>9. RowFinished(d) = e
  <2>1. RowFinished(d).wide = e.wide
    BY <1>2, <1>7, <1>8, StreamFields
  <2> QED BY <1>2, <1>8, <2>1, SameStream
<1> QED BY <1>9 DEF d, q, e

-----------------------------------------------------------------------------
(* The division of rows, whatever the table.                                *)

PartRange(total_rows, part_count, part_num) == MakePartitionRange(total_rows, part_num, part_count)

\* The rows of the partitions: all of them have q, the last one also the r that
\* are left over.
Divided(total, count, q, r) ==
  /\ total = count * q + r
  /\ \A num \in 1..count :
       /\ PartRange(total, count, num).start_row = q * (num - 1)
       /\ PartRange(total, count, num).end_row = q * (num - 1) + (q + (IF num = count THEN r ELSE 0))

LEMMA RangeForm ==
  ASSUME NEW total \in Nat, NEW count \in Nat \ {0}
  PROVE  \E q \in Nat, r \in 0..(count - 1) : Divided(total, count, q, r)
<1>1. PICK q \in Nat : q = total \div count
  BY Division
<1>2. PICK r \in 0..(count - 1) : r = total % count
  BY Division
<1>3. total = count * q + r
  BY <1>1, <1>2, Division
<1>4. \A num \in 1..count :
        /\ PartRange(total, count, num).start_row = q * (num - 1)
        /\ PartRange(total, count, num).end_row = q * (num - 1) + (q + (IF num = count THEN r ELSE 0))
  BY <1>1, <1>2 DEF PartRange, MakePartitionRange, CalculateStartIndex, CalculateRowCount
<1> QED BY <1>3, <1>4 DEF Divided

\* The partitions tile the table: the first starts at row 0, each starts where
\* the one before it ends, and the last ends with the table, whatever the number
\* of rows and partitions is (also with more partitions than rows).
THEOREM PartitionsTile ==
  ASSUME NEW total \in Nat, NEW count \in Nat \ {0}
  PROVE  /\ PartRange(total, count, 1).start_row = 0
         /\ PartRange(total, count, count).end_row = total
         /\ \A num \in 1..(count - 1) :
              PartRange(total, count, num).end_row = PartRange(total, count, num + 1).start_row
<1>0. PICK q \in Nat, r \in 0..(count - 1) : Divided(total, count, q, r)
  BY RangeForm
<1>1. PartRange(total, count, 1).start_row = 0
  <2>1. 1 \in 1..count /\ q * (1 - 1) = 0
    OBVIOUS
  <2> QED BY <1>0, <2>1 DEF Divided
<1>2. PartRange(total, count, count).end_row = total
  <2>1. count \in 1..count /\ q * (count - 1) + (q + r) = count * q + r
    OBVIOUS
  <2> QED BY <1>0, <2>1 DEF Divided
<1>3. ASSUME NEW num \in 1..(count - 1)
      PROVE  PartRange(total, count, num).end_row = PartRange(total, count, num + 1).start_row
  <2>1. num \in 1..count /\ num + 1 \in 1..count /\ num # count
    OBVIOUS
  <2>2. q * (num - 1) + (q + 0) = q * ((num + 1) - 1)
    OBVIOUS
  <2> QED BY <1>0, <2>1, <2>2 DEF Divided
<1> QED BY <1>1, <1>2, <1>3

\* Partitions come in the order of their rows.
LEMMA Ascending ==
  ASSUME NEW q \in Nat, NEW i \in Int, NEW j \in Int, i <= j
  PROVE  q * i <= q * j
<1>1. PICK d \in Nat : j = i + d
  BY j - i \in Nat
<1>2. q * j = q * i + q * d /\ q * d >= 0 /\ q * i \in Int
  BY <1>1
<1> QED BY <1>2

\* Every row belongs to exactly one partition.
THEOREM EveryRowInOnePartition ==
  ASSUME NEW total \in Nat, NEW count \in Nat \ {0}, NEW row \in 0..(total - 1)
  PROVE  /\ \E num \in 1..count :
              /\ PartRange(total, count, num).start_row <= row
              /\ row < PartRange(total, count, num).end_row
         /\ \A i, j \in 1..count :
              /\ PartRange(total, count, i).start_row <= row /\ row < PartRange(total, count, i).end_row
              /\ PartRange(total, count, j).start_row <= row /\ row < PartRange(total, count, j).end_row
              => i = j
<1> DEFINE Start(num) == PartRange(total, count, num).start_row
           End(num) == PartRange(total, count, num).end_row
<1>0. PICK q \in Nat, r \in 0..(count - 1) : Divided(total, count, q, r)
  BY RangeForm
<1>1. \A num \in 1..count : /\ Start(num) = q * (num - 1)
                            /\ num < count => End(num) = q * num
                            /\ num = count => End(num) = total
  <2> TAKE num \in 1..count
  <2>1. q * (num - 1) + (q + 0) = q * num /\ q * (count - 1) + (q + r) = count * q + r
    OBVIOUS
  <2> QED BY <1>0, <2>1 DEF Divided
<1> HIDE DEF Start, End
<1>2. \E num \in 1..count : Start(num) <= row /\ row < End(num)
  <2>1. CASE q * (count - 1) <= row
    BY <1>1, <2>1
  <2>2. CASE row < q * (count - 1)
    <3>1. q # 0
      BY <2>2
    <3>2. PICK d \in Nat : d = row \div q
      BY <3>1, Division
    <3>3. q * d <= row /\ row < q * d + q
      <4>1. row % q \in 0..(q - 1) /\ row = q * d + (row % q)
        BY <3>1, <3>2, Division
      <4> QED BY <4>1
    <3>4. d < count - 1
      <4>1. count - 1 <= d => q * (count - 1) <= q * d
        BY Ascending
      <4>2. q * (count - 1) \in Int /\ q * d \in Int
        OBVIOUS
      <4> QED BY <2>2, <3>3, <4>1, <4>2
    <3>5. d + 1 \in 1..count /\ d + 1 < count /\ q * (d + 1) = q * d + q /\ (d + 1) - 1 = d
      BY <3>4
    <3>6. Start(d + 1) = q * d /\ End(d + 1) = q * d + q
      BY <1>1, <3>5
    <3> QED BY <3>3, <3>5, <3>6
  <2>3. q * (count - 1) \in Int
    OBVIOUS
  <2> QED BY <2>1, <2>2, <2>3
<1>3. \A i, j \in 1..count : i < j => ~(row < End(i) /\ Start(j) <= row)
  <2> TAKE i, j \in 1..count
  <2> HAVE i < j
  <2>1. q * i <= q * (j - 1)
    BY Ascending
  <2>2. End(i) = q * i /\ Start(j) = q * (j - 1)
    BY <1>1
  <2>3. q * i \in Int /\ q * (j - 1) \in Int
    OBVIOUS
  <2> QED BY <2>1, <2>2, <2>3
<1>4. \A i, j \in 1..count :
        Start(i) <= row /\ row < End(i) /\ Start(j) <= row /\ row < End(j) => i = j
  BY <1>3
<1> QED BY <1>2, <1>4 DEF Start, End

\* Numbers less than d apart have different remainders.
LEMMA DifferentRemainders ==
  ASSUME NEW a \in Nat, NEW b \in Nat, NEW d \in Nat \ {0}, a < b, b < a + d
  PROVE  a % d # b % d
<1>1. PICK k \in Nat : k = a \div d
  BY Division
<1>2. PICK l \in Nat : l = b \div d
  BY Division
<1>3. PICK r \in Nat : r = a % d
  BY Division
<1>4. SUFFICES ASSUME b % d = r PROVE FALSE
  BY <1>3
<1>5. a = d * k + r /\ b = d * l + r
  BY <1>1, <1>2, <1>3, <1>4, Division
<1>6. d * k \in Int /\ d * l \in Int /\ d * (k + 1) = d * k + d
  OBVIOUS
<1>7. CASE l <= k
  <2>1. d * l <= d * k
    BY <1>7, Ascending
  <2> QED BY <1>5, <1>6, <2>1
<1>8. CASE k + 1 <= l
  <2>1. d * (k + 1) <= d * l
    BY <1>8, Ascending
  <2> QED BY <1>5, <1>6, <2>1
<1> QED BY <1>7, <1>8

\* With natural numbers the suppliers of a part are a step apart, and they exist.
LEMMA SupplierForm ==
  ASSUME NEW suppliers \in Nat \ {0}, NEW part_key \in Nat \ {0}
  PROVE  /\ SupplierStep(suppliers, part_key) = (suppliers \div 4) + ((part_key - 1) \div suppliers)
         /\ SupplierStep(suppliers, part_key) \in Nat
         /\ \A i \in 0..3 :
              /\ SelectPartSupplier(part_key, i, suppliers)
                   = ((part_key + i * SupplierStep(suppliers, part_key)) % suppliers) + 1
              /\ SelectPartSupplier(part_key, i, suppliers) \in 1..suppliers
<1>1. part_key - 1 \in Nat
  OBVIOUS
<1>2. SupplierStep(suppliers, part_key) = (suppliers \div 4) + ((part_key - 1) \div suppliers)
  BY <1>1 DEF SupplierStep, Quotient
<1>3. SupplierStep(suppliers, part_key) \in Nat
  <2>1. suppliers \div 4 \in Nat /\ (part_key - 1) \div suppliers \in Nat
    BY <1>1, Division
  <2> QED BY <1>2, <2>1
<1>4. PICK step \in Nat : step = SupplierStep(suppliers, part_key)
  BY <1>3
<1>5. ASSUME NEW i \in 0..3
      PROVE  /\ SelectPartSupplier(part_key, i, suppliers) = ((part_key + i * step) % suppliers) + 1
             /\ SelectPartSupplier(part_key, i, suppliers) \in 1..suppliers
  <2>1. PICK place \in Nat : place = part_key + i * step
    BY i * step \in Nat
  <2>2. SelectPartSupplier(part_key, i, suppliers) = Remainder(place, suppliers) + 1
    BY <1>4, <2>1 DEF SelectPartSupplier
  <2>3. Remainder(place, suppliers) = place % suppliers
    BY DEF Remainder
  <2>4. place % suppliers \in 0..(suppliers - 1)
    BY Division
  <2> QED BY <2>1, <2>2, <2>3, <2>4
<1> QED BY <1>2, <1>3, <1>4, <1>5

\* The four suppliers of a part are distinct and exist when three steps do not go
\* all the way round.
LEMMA FourSuppliers ==
  ASSUME NEW suppliers \in Nat \ {0}, NEW part_key \in Nat \ {0}, OnceAround(suppliers, part_key)
  PROVE  /\ \A i \in 0..3 : SelectPartSupplier(part_key, i, suppliers) \in 1..suppliers
         /\ \A i, j \in 0..3 : i # j =>
              SelectPartSupplier(part_key, i, suppliers) # SelectPartSupplier(part_key, j, suppliers)
<1>5. PICK step \in Nat : step = SupplierStep(suppliers, part_key)
  BY SupplierForm
<1>6. 0 < step /\ 3 * step < suppliers
  BY <1>5 DEF OnceAround
<1>7. \A i \in 0..3 :
        SelectPartSupplier(part_key, i, suppliers) = ((part_key + i * step) % suppliers) + 1
  BY <1>5, SupplierForm
<1>8. \A i \in 0..3 : SelectPartSupplier(part_key, i, suppliers) \in 1..suppliers
  BY SupplierForm
<1>9. \A i, j \in 0..3 : i < j =>
        SelectPartSupplier(part_key, i, suppliers) # SelectPartSupplier(part_key, j, suppliers)
  <2> TAKE i, j \in 0..3
  <2> HAVE i < j
  <2>1. /\ part_key + i * step \in Nat /\ part_key + j * step \in Nat
        /\ part_key + i * step < part_key + j * step
        /\ part_key + j * step < (part_key + i * step) + suppliers
    <3>1. PICK d \in 1..3 : j = i + d
      BY j - i \in 1..3
    <3>2. j * step = i * step + step * d /\ i * step \in Nat /\ step * d \in Nat
      BY <3>1
    <3>3. step * 1 <= step * d /\ step * d <= step * 3
      BY <3>1, Ascending
    <3> QED BY <1>6, <3>2, <3>3
  <2>2. PICK a \in Nat, b \in Nat : a = part_key + i * step /\ b = part_key + j * step
    BY <2>1
  <2>3. a % suppliers # b % suppliers
    <3>1. a < b /\ b < a + suppliers /\ suppliers \in Nat \ {0}
      BY <2>1, <2>2
    <3> QED BY <3>1, DifferentRemainders
  <2>4. /\ SelectPartSupplier(part_key, i, suppliers) = (a % suppliers) + 1
        /\ SelectPartSupplier(part_key, j, suppliers) = (b % suppliers) + 1
    BY <1>7, <2>2
  <2>5. a % suppliers \in Int /\ b % suppliers \in Int
    BY Division
  <2> QED BY <2>3, <2>4, <2>5
<1> QED BY <1>8, <1>9

\* A supplier serves some twenty parts: no more than that many rounds.
LEMMA RoundsOf ==
  ASSUME NEW suppliers \in Nat \ {0}, NEW rounds \in Nat, NEW part_key \in Nat \ {0},
         part_key <= suppliers * rounds
  PROVE  (part_key - 1) \div suppliers < rounds
<1>0. part_key - 1 \in Nat
  OBVIOUS
<1>1. PICK round \in Nat : round = (part_key - 1) \div suppliers
  BY <1>0, Division
<1>2. suppliers * round <= part_key - 1
  <2>1. PICK r \in Nat : part_key - 1 = suppliers * round + r
    <3>1. /\ (part_key - 1) % suppliers \in 0..(suppliers - 1)
          /\ part_key - 1 = suppliers * round + ((part_key - 1) % suppliers)
      BY <1>0, <1>1, Division
    <3> QED BY <3>1
  <2>2. PICK p \in Int : p = suppliers * round
    OBVIOUS
  <2>3. part_key - 1 = p + r /\ part_key - 1 \in Int /\ r >= 0
    BY <2>1, <2>2
  <2> QED BY <2>2, <2>3
<1>3. rounds <= round => suppliers * rounds <= suppliers * round
  BY Ascending
<1>4. suppliers * round \in Int /\ suppliers * rounds \in Int
  OBVIOUS
<1> QED BY <1>1, <1>2, <1>3, <1>4

\* The four suppliers of a part are distinct and exist when there are more than
\* 228 suppliers and at most 20 parts to a supplier, as in TPC-H.  At 228
\* suppliers and at many smaller numbers they are not: with ten (scale factor
\* 0.001) the parts 31..40 and others have a supplier twice.
THEOREM SupplierKeysDistinct ==
  ASSUME NEW suppliers \in Nat, suppliers > 228, NEW part_key \in 1..(20 * suppliers)
  PROVE  /\ \A i \in 0..3 : SelectPartSupplier(part_key, i, suppliers) \in 1..suppliers
         /\ \A i, j \in 0..3 : i # j =>
              SelectPartSupplier(part_key, i, suppliers) # SelectPartSupplier(part_key, j, suppliers)
<1>1. (part_key - 1) \div suppliers < 20 /\ (part_key - 1) \div suppliers \in Nat
  <2>1. part_key - 1 \in Nat /\ part_key <= suppliers * 20
    OBVIOUS
  <2> QED BY <2>1, RoundsOf, Division
<1>2. OnceAround(suppliers, part_key)
  <2>1. PICK round \in 0..19 : round = (part_key - 1) \div suppliers
    BY <1>1
  <2>2. PICK quarter \in Nat : quarter = suppliers \div 4 /\ 4 * quarter <= suppliers /\ suppliers < 4 * quarter + 4
    BY Division
  <2>3. 0 < quarter + round /\ 3 * (quarter + round) < suppliers
    BY <2>2
  <2>4. SupplierStep(suppliers, part_key) = quarter + round
    <3>1. suppliers \in Nat \ {0} /\ part_key \in Nat \ {0}
      OBVIOUS
    <3> QED BY <2>1, <2>2, <3>1, SupplierForm
  <2> QED BY <2>3, <2>4 DEF OnceAround
<1> QED BY <1>2, FourSuppliers

\* Parts and suppliers are scaled and rounded down one by one (ScaleConfig::
\* RowCount), so that there may be up to 19 parts more than twenty to a supplier:
\* then the suppliers must be more than 240.  With 240 suppliers and 4801 parts
\* (scale factor 0.024005) part 4801 has a supplier twice.
LEMMA ScaledSuppliers ==
  ASSUME NEW suppliers \in Nat, suppliers > 240, NEW part_key \in 1..(20 * suppliers + 19)
  PROVE  OnceAround(suppliers, part_key)
<1>1. (part_key - 1) \div suppliers < 21 /\ (part_key - 1) \div suppliers \in Nat
  <2>1. part_key - 1 \in Nat /\ part_key <= suppliers * 21
    OBVIOUS
  <2> QED BY <2>1, RoundsOf, Division
<1>2. PICK round \in 0..20 : round = (part_key - 1) \div suppliers
  BY <1>1
<1>3. PICK quarter \in Nat : quarter = suppliers \div 4 /\ 4 * quarter <= suppliers /\ suppliers < 4 * quarter + 4
  BY Division
<1>4. 0 < quarter + round /\ 3 * (quarter + round) < suppliers
  BY <1>3
<1>5. SupplierStep(suppliers, part_key) = quarter + round
  <2>1. suppliers \in Nat \ {0} /\ part_key \in Nat \ {0}
    OBVIOUS
  <2> QED BY <1>2, <1>3, <2>1, SupplierForm
<1> QED BY <1>4, <1>5 DEF OnceAround

\* The part count is the least number of parts of target rows that hold the table.
LEMMA PartCountForm ==
  ASSUME NEW total \in Nat \ {0}, NEW target \in Nat \ {0},
         NEW count \in Int, count = (total + target - 1) \div target
  PROVE  /\ count \in 1..total
         /\ total <= target * count
<1>1. total + target - 1 \in Nat
  OBVIOUS
<1>2. PICK m \in 0..(target - 1) : total + target - 1 = target * count + m
  BY <1>1, Division
<1>3. total <= target * count /\ target * count <= total + target - 1
  BY <1>2, target * count \in Int
<1>4. count >= 1
  <2>1. SUFFICES ASSUME count <= 0 PROVE FALSE
    OBVIOUS
  <2>2. target * count <= target * 0
    BY <2>1, Ascending
  <2> QED BY <1>3, <2>2
<1>5. count <= total
  <2>1. SUFFICES ASSUME total + 1 <= count PROVE FALSE
    OBVIOUS
  <2>2. target * (total + 1) <= target * count
    BY <2>1, Ascending
  <2>3. target * (total + 1) = total * target + target /\ total * target \in Int
    OBVIOUS
  <2>4. total * 1 <= total * target
    BY Ascending
  <2> QED BY <1>3, <2>2, <2>3, <2>4, target * count \in Int
<1> QED BY <1>3, <1>4, <1>5

\* A table of total rows that should come in partitions of target rows (the
\* formats' options, ResolvePartCountByTargetRows of writer.cpp) is cut into
\* partitions that are never empty; none but the last has more than target rows,
\* and the last exceeds it by less than the number of partitions.
THEOREM PartitionsNearTarget ==
  ASSUME NEW total \in Nat \ {0}, NEW target \in Nat \ {0},
         (total + target - 1) \div target <= MaxPartCount,
         NEW count, count = ResolvePartCountByTargetRows(total, target)
  PROVE  /\ count \in 1..total
         /\ \A num \in 1..count :
              CalculateRowCount(total, num, count)
                \in 1..(target + (IF num = count THEN count - 1 ELSE 0))
<1>1. count = (total + target - 1) \div target /\ count \in Int
  <2>1. ~(target <= 0 \/ total = 0) /\ total + target - 1 \in Nat
    OBVIOUS
  <2>2. (total + target - 1) \div target \in Nat
    BY <2>1, Division
  <2> QED BY <2>1, <2>2 DEF ResolvePartCountByTargetRows, MaxPartCount
<1>2. count \in 1..total /\ total <= target * count
  BY <1>1, PartCountForm
<1>3. count \in Nat \ {0}
  BY <1>2
<1>4. PICK q \in Nat, r \in 0..(count - 1) : q = total \div count /\ r = total % count /\ total = count * q + r
  <2>1. /\ total \div count \in Nat /\ total % count \in 0..(count - 1)
        /\ total = count * (total \div count) + (total % count)
    BY <1>3, total \in Nat, Division
  <2> QED BY <2>1
<1>5. q <= target
  <2>1. SUFFICES ASSUME target + 1 <= q PROVE FALSE
    OBVIOUS
  <2>2. count * (target + 1) <= count * q
    BY <1>3, <2>1, Ascending
  <2>3. count * (target + 1) = target * count + count /\ target * count \in Int
    BY <1>3
  <2>4. /\ total = count * q + r /\ count * q \in Int
        /\ r \in Int /\ total <= target * count
    BY <1>2, <1>3, <1>4
  <2>5. total >= target * count + count
    <3>1. r >= 0
      BY <1>4
    <3> QED BY <1>3, <2>2, <2>3, <2>4, <3>1
  <2> QED BY <1>3, <2>3, <2>4, <2>5
<1>6. q >= 1
  <2>1. SUFFICES ASSUME q = 0 PROVE FALSE
    OBVIOUS
  <2> QED BY <1>2, <1>3, <1>4, <2>1
<1>7. ASSUME NEW num \in 1..count
      PROVE  CalculateRowCount(total, num, count) \in 1..(target + (IF num = count THEN count - 1 ELSE 0))
  <2>1. CalculateRowCount(total, num, count) = q + (IF num = count THEN r ELSE 0)
    BY <1>4 DEF CalculateRowCount
  <2>2. /\ q \in 1..target /\ r \in 0..(count - 1) /\ count \in Nat \ {0}
    BY <1>3, <1>4, <1>5, <1>6
  <2>3. CASE num = count
    <3>1. q + r \in 1..(target + (count - 1))
      BY <2>2
    <3> QED BY <2>1, <2>3, <3>1
  <2>4. CASE num # count
    <3>1. q + 0 \in 1..(target + 0)
      BY <2>2
    <3> QED BY <2>1, <2>4, <3>1
  <2> QED BY <2>3, <2>4
<1> QED BY <1>2, <1>7

-----------------------------------------------------------------------------
(* A batch and the rows delivered are sequences, whatever is in a row.      *)

IsSeq(s) == \E S : s \in Seq(S)

LEMMA NoRowsSeq == IsSeq(<<>>) /\ Len(<<>>) = 0
<1>1. <<>> \in Seq({})
  OBVIOUS
<1>2. \E S : <<>> \in Seq(S)
  BY <1>1, Zenon
<1>3. Len(<<>>) = 0
  OBVIOUS
<1> QED BY <1>2, <1>3, Zenon DEF IsSeq

LEMMA SeqAppend ==
  ASSUME NEW s, NEW e, IsSeq(s)
  PROVE  /\ IsSeq(Append(s, e)) /\ Len(s) \in Nat /\ Len(Append(s, e)) = Len(s) + 1
         /\ \A k \in 1..Len(s) : Append(s, e)[k] = s[k]
         /\ Append(s, e)[Len(s) + 1] = e
<1>1. PICK S : s \in Seq(S)
  BY DEF IsSeq
<1>2. s \in Seq(S \cup {e})
  BY <1>1
<1>3. Append(s, e) \in Seq(S \cup {e})
  BY <1>2
<1> QED BY <1>2, <1>3 DEF IsSeq

LEMMA SeqConcat ==
  ASSUME NEW s, NEW t, IsSeq(s), IsSeq(t)
  PROVE  /\ IsSeq(s \o t) /\ Len(s) \in Nat /\ Len(t) \in Nat /\ Len(s \o t) = Len(s) + Len(t)
         /\ \A k \in 1..Len(s) : (s \o t)[k] = s[k]
         /\ \A k \in 1..Len(t) : (s \o t)[Len(s) + k] = t[k]
<1>1. PICK S : s \in Seq(S)
  BY DEF IsSeq
<1>2. PICK T : t \in Seq(T)
  BY DEF IsSeq
<1>3. s \in Seq(S \cup T) /\ t \in Seq(S \cup T)
  BY <1>1, <1>2
<1>4. s \o t \in Seq(S \cup T)
  BY <1>3
<1> QED BY <1>3, <1>4 DEF IsSeq

\* Nothing but the empty sequence is empty.
LEMMA SeqLen ==
  ASSUME NEW s, IsSeq(s)
  PROVE  Len(s) \in Nat /\ (s = <<>> <=> Len(s) = 0) /\ DOMAIN s = 1..Len(s)
BY DEF IsSeq

-----------------------------------------------------------------------------
(* One row: where the iterator goes, and the key it gives the row.          *)

IteratorFields == {"streams", "index", "end", "line", "line_count", "order_date", "region_cum_sum",
                   "scale_factor"}
IsIterator(it) ==
  /\ DOMAIN it = IteratorFields
  /\ it.index \in Nat /\ it.end \in Nat /\ it.line \in Nat

OneRowTables == {"orders", "customer", "part", "supplier", "nation", "region"}

\* The key of the row of index index, for the tables with a row to an index.
KeyAt(t, index) == CASE t = "orders" -> ToInt(MakeOrderKey(index + 1))
                     [] t \in {"nation", "region"} -> index
                     [] OTHER -> ToInt(index + 1)

LEMMA OneRowPlace ==
  ASSUME NEW it, IsIterator(it), NEW drawn, NEW key
  PROVE  LET next == OneRow(it, drawn, key)
         IN  /\ IsIterator(next.iter) /\ next.iter.end = it.end /\ next.iter.scale_factor = it.scale_factor
             /\ next.iter.index = it.index + 1 /\ next.iter.line = it.line
             /\ next.row.key = key
<1> DEFINE streams == FinishRow(drawn)
           columns == [s \in DOMAIN drawn |-> IF drawn[s] = it.streams[s] THEN 0 ELSE drawn[s].seed]
           next == OneRow(it, drawn, key)
<1>1. next = [iter |-> [it EXCEPT !.streams = streams, !.index = @ + 1], row |-> [key |-> key, columns |-> columns]]
  BY DEF OneRow
<1> HIDE DEF streams, columns, next
<1>2. next.row.key = key /\ next.iter = [it EXCEPT !.streams = streams, !.index = @ + 1]
  BY <1>1
<1>3. /\ DOMAIN next.iter = IteratorFields /\ next.iter.index = it.index + 1
      /\ next.iter.end = it.end /\ next.iter.scale_factor = it.scale_factor /\ next.iter.line = it.line
  BY <1>2 DEF IsIterator, IteratorFields
<1>4. IsIterator(next.iter)
  BY <1>3 DEF IsIterator
<1> QED BY <1>2, <1>3, <1>4 DEF next

LEMMA NextOneRow ==
  ASSUME NEW t \in OneRowTables, NEW it, IsIterator(it)
  PROVE  LET next == NextRow(t, it)
         IN  /\ IsIterator(next.iter) /\ next.iter.end = it.end /\ next.iter.scale_factor = it.scale_factor
             /\ next.iter.index = it.index + 1 /\ next.iter.line = it.line
             /\ next.row.key = KeyAt(t, it.index)
<1>1. CASE t = "orders"
  <2> DEFINE next == NextOrder(it)
  <2>1. \E streams, columns, order_date, custkey, lines, status :
          next = [iter |-> [it EXCEPT !.streams = streams, !.index = @ + 1],
                  row |-> [key |-> ToInt(MakeOrderKey(it.index + 1)), order_date |-> order_date, custkey |-> custkey,
                           lines |-> lines, status |-> status, columns |-> columns]]
    BY ZenonT(60) DEF NextOrder
  <2> HIDE DEF next
  <2>2. PICK streams, columns, order_date, custkey, lines, status :
          next = [iter |-> [it EXCEPT !.streams = streams, !.index = @ + 1],
                  row |-> [key |-> ToInt(MakeOrderKey(it.index + 1)), order_date |-> order_date, custkey |-> custkey,
                           lines |-> lines, status |-> status, columns |-> columns]]
    BY <2>1
  <2>3. next.row.key = ToInt(MakeOrderKey(it.index + 1)) /\ next.iter = [it EXCEPT !.streams = streams, !.index = @ + 1]
    BY <2>2
  <2>4. /\ DOMAIN next.iter = IteratorFields /\ next.iter.index = it.index + 1
        /\ next.iter.end = it.end /\ next.iter.scale_factor = it.scale_factor /\ next.iter.line = it.line
    BY <2>3 DEF IsIterator, IteratorFields
  <2>5. IsIterator(next.iter)
    BY <2>4 DEF IsIterator
  <2>6. NextRow(t, it) = next /\ KeyAt(t, it.index) = ToInt(MakeOrderKey(it.index + 1))
    BY <1>1 DEF NextRow, KeyAt, next
  <2> QED BY <2>3, <2>4, <2>5, <2>6
<1>2. CASE t \in {"customer", "part", "supplier"}
  <2>1. \E drawn : NextRow(t, it) = OneRow(it, drawn, ToInt(it.index + 1))
    BY <1>2 DEF NextRow, NextCustomer, NextPart, NextSupplier
  <2>2. KeyAt(t, it.index) = ToInt(it.index + 1)
    BY <1>2 DEF KeyAt
  <2> QED BY <2>1, <2>2, OneRowPlace
<1>3. CASE t = "region"
  <2>1. \E drawn : NextRow(t, it) = OneRow(it, drawn, it.index)
    BY <1>3 DEF NextRow, NextRegion
  <2>2. KeyAt(t, it.index) = it.index
    BY <1>3 DEF KeyAt
  <2> QED BY <2>1, <2>2, OneRowPlace
<1>4. CASE t = "nation"
  <2>1. PICK drawn, region :
          NextRow(t, it) = [OneRow(it, drawn, it.index)
                              EXCEPT !.iter.region_cum_sum = region,
                                     !.row = [key |-> @.key, region |-> region, columns |-> @.columns]]
    BY <1>4 DEF NextRow, NextNation
  <2>2. PICK one : one = OneRow(it, drawn, it.index)
    OBVIOUS
  <2>3. /\ IsIterator(one.iter) /\ one.iter.end = it.end /\ one.iter.scale_factor = it.scale_factor
        /\ one.iter.index = it.index + 1 /\ one.iter.line = it.line
        /\ one.row.key = it.index
    BY <2>2, OneRowPlace
  <2>4. DOMAIN one = {"iter", "row"}
    BY <2>2 DEF OneRow
  <2>5. /\ NextRow(t, it).iter = [one.iter EXCEPT !.region_cum_sum = region]
        /\ NextRow(t, it).row = [key |-> one.row.key, region |-> region, columns |-> one.row.columns]
    BY <2>1, <2>2, <2>4
  <2>6. NextRow(t, it).row.key = it.index
    BY <2>3, <2>5
  <2>7. /\ DOMAIN NextRow(t, it).iter = IteratorFields /\ NextRow(t, it).iter.index = it.index + 1
        /\ NextRow(t, it).iter.end = it.end /\ NextRow(t, it).iter.scale_factor = it.scale_factor /\ NextRow(t, it).iter.line = it.line
    BY <2>3, <2>5 DEF IsIterator, IteratorFields
  <2>8. IsIterator(NextRow(t, it).iter)
    BY <2>7 DEF IsIterator
  <2>9. KeyAt(t, it.index) = it.index
    BY <1>4 DEF KeyAt
  <2> QED BY <2>6, <2>7, <2>8, <2>9
<1> QED BY <1>1, <1>2, <1>3, <1>4 DEF OneRowTables

\* partsupp: four rows to a part, whose line is the number of the supplier.
SupplierAt(index, line, scale_factor) ==
  ToInt(SelectPartSupplier(ToInt(index + 1), line, SupplierKeyMax(scale_factor)))

LEMMA NextPartSuppRow ==
  ASSUME NEW it, IsIterator(it)
  PROVE  LET next == NextRow("partsupp", it)
         IN  /\ IsIterator(next.iter) /\ next.iter.end = it.end /\ next.iter.scale_factor = it.scale_factor
             /\ IF it.line + 1 >= SuppliersPerPart
                THEN next.iter.index = it.index + 1 /\ next.iter.line = 0
                ELSE next.iter.index = it.index /\ next.iter.line = it.line + 1
             /\ next.row.part_key = ToInt(it.index + 1)
             /\ next.row.supplier_key = SupplierAt(it.index, it.line, it.scale_factor)
<1>1. PICK next : next = NextRow("partsupp", it)
  OBVIOUS
<1>2. PICK drawn, columns, streams :
        next = [iter |-> IF [it EXCEPT !.streams = drawn, !.line = @ + 1].line >= SuppliersPerPart
                         THEN [[it EXCEPT !.streams = drawn, !.line = @ + 1]
                                 EXCEPT !.streams = streams, !.line = 0, !.index = @ + 1]
                         ELSE [it EXCEPT !.streams = drawn, !.line = @ + 1],
                row |-> [part_key |-> ToInt(it.index + 1), columns |-> columns,
                         supplier_key |-> SupplierAt(it.index, it.line, it.scale_factor)]]
  BY <1>1 DEF NextRow, NextPartSupp, SupplierAt
<1>3. PICK moved : moved = [it EXCEPT !.streams = drawn, !.line = @ + 1]
  OBVIOUS
<1>4. /\ DOMAIN moved = IteratorFields /\ moved.line = it.line + 1 /\ moved.index = it.index /\ moved.end = it.end /\ moved.scale_factor = it.scale_factor
  BY <1>3 DEF IsIterator, IteratorFields
<1>5. next.iter = IF moved.line >= SuppliersPerPart
                  THEN [moved EXCEPT !.streams = streams, !.line = 0, !.index = @ + 1] ELSE moved
  BY <1>2, <1>3
<1>6. /\ next.row.part_key = ToInt(it.index + 1)
      /\ next.row.supplier_key = SupplierAt(it.index, it.line, it.scale_factor)
  BY <1>2
<1>7. CASE it.line + 1 >= SuppliersPerPart
  <2>1. next.iter = [moved EXCEPT !.streams = streams, !.line = 0, !.index = @ + 1]
    BY <1>4, <1>5, <1>7
  <2>2. /\ DOMAIN next.iter = IteratorFields /\ next.iter.index = it.index + 1
        /\ next.iter.end = it.end /\ next.iter.scale_factor = it.scale_factor /\ next.iter.line = 0
    BY <1>4, <2>1 DEF IteratorFields
  <2>3. IsIterator(next.iter)
    BY <2>2 DEF IsIterator
  <2> QED BY <1>1, <1>6, <1>7, <2>2, <2>3
<1>8. CASE ~(it.line + 1 >= SuppliersPerPart)
  <2>1. next.iter = moved
    BY <1>4, <1>5, <1>8
  <2>2. IsIterator(next.iter)
    BY <1>4, <2>1 DEF IsIterator
  <2> QED BY <1>1, <1>4, <1>6, <1>8, <2>1, <2>2
<1> QED BY <1>7, <1>8

\* lineitem: some rows to an order; the index moves by one at most.
LEMMA DrawOrderPlace ==
  ASSUME NEW it, IsIterator(it)
  PROVE  /\ IsIterator(DrawOrder(it)) /\ DrawOrder(it).end = it.end /\ DrawOrder(it).index = it.index
         /\ DrawOrder(it).scale_factor = it.scale_factor
<1>1. PICK drawn, line_count, order_date :
        DrawOrder(it) = [it EXCEPT !.streams = drawn, !.line = 0, !.line_count = line_count, !.order_date = order_date]
  BY DEF DrawOrder
<1>2. /\ DOMAIN DrawOrder(it) = IteratorFields /\ DrawOrder(it).line = 0
      /\ DrawOrder(it).end = it.end /\ DrawOrder(it).index = it.index
      /\ DrawOrder(it).scale_factor = it.scale_factor
  BY <1>1 DEF IsIterator, IteratorFields
<1> QED BY <1>2 DEF IsIterator

LEMMA NextLineitemRow ==
  ASSUME NEW it, IsIterator(it)
  PROVE  LET next == NextRow("lineitem", it)
         IN  /\ IsIterator(next.iter) /\ next.iter.end = it.end /\ next.iter.scale_factor = it.scale_factor
             /\ next.iter.index \in {it.index, it.index + 1}
<1>1. PICK next : next = NextRow("lineitem", it)
  OBVIOUS
<1>2. \E drawn, streams :
        LET moved == [it EXCEPT !.streams = drawn, !.line = @ + 1]
            finished == [moved EXCEPT !.streams = streams, !.index = @ + 1]
        IN  next.iter = CASE moved.line <= it.line_count -> moved
                          [] moved.line > it.line_count /\ ~Done(finished) -> DrawOrder(finished)
                          [] OTHER -> finished
  BY <1>1 DEF NextRow, NextLineitem
<1>3. PICK drawn, streams :
        LET moved == [it EXCEPT !.streams = drawn, !.line = @ + 1]
            finished == [moved EXCEPT !.streams = streams, !.index = @ + 1]
        IN  next.iter \in {moved, finished, DrawOrder(finished)}
  BY <1>2
<1>4. PICK moved : moved = [it EXCEPT !.streams = drawn, !.line = @ + 1]
  OBVIOUS
<1>5. PICK finished : finished = [moved EXCEPT !.streams = streams, !.index = @ + 1]
  OBVIOUS
<1>6. /\ DOMAIN moved = IteratorFields /\ moved.line = it.line + 1 /\ moved.index = it.index /\ moved.end = it.end /\ moved.scale_factor = it.scale_factor
  BY <1>4 DEF IsIterator, IteratorFields
<1>7. /\ DOMAIN finished = IteratorFields /\ finished.line = it.line + 1
      /\ finished.index = it.index + 1 /\ finished.end = it.end /\ finished.scale_factor = it.scale_factor
  BY <1>5, <1>6 DEF IteratorFields
<1>8. IsIterator(moved) /\ IsIterator(finished)
  BY <1>6, <1>7 DEF IsIterator
<1>9. next.iter \in {moved, finished, DrawOrder(finished)}
  BY <1>3, <1>4, <1>5
<1> QED BY <1>1, <1>6, <1>7, <1>8, <1>9, DrawOrderPlace

-----------------------------------------------------------------------------
(* The rows of a partition: from one unit (row, order or part) to another.  *)

PartEnd(t, num, count, s) == EndRow(t, PartRange(UnitsOf(t, s), count, num).end_row)
PartStart(t, num, count, s) ==
  LET start == PartRange(UnitsOf(t, s), count, num).start_row
      end == PartEnd(t, num, count, s)
  IN  IF start > end THEN end ELSE start

LEMMA RowCounts ==
  ASSUME NEW s \in Scales, NEW t \in Tables
  PROVE  RowCount(t, s) \in Nat /\ UnitsOf(t, s) \in Nat
<1>1. \A x \in Tables : RowCount(x, s) \in Nat
  <2> TAKE x \in Tables
  <2>1. RowsAtSf1[x] \in Nat /\ s.num \in Nat /\ s.den \in Nat \ {0}
    BY StreamsAssumption
  <2>2. RowsAtSf1[x] * s.num \in Nat
    BY <2>1
  <2> QED BY <2>1, <2>2, Division DEF RowCount
<1>2. "orders" \in Tables /\ "part" \in Tables
  BY DEF Tables
<1> QED BY <1>1, <1>2 DEF UnitsOf

LEMMA EndRows ==
  ASSUME NEW t \in Tables, NEW e \in Nat
  PROVE  EndRow(t, e) \in Nat /\ EndRow(t, e) <= e
BY StreamsAssumption DEF EndRow

\* The partitions of a table tile it, also when the list of nation or region is
\* shorter than the units that are divided.
LEMMA PartsTile ==
  ASSUME NEW s \in Scales, NEW t \in Tables, NEW count \in Nat \ {0}, NEW num \in 1..count
  PROVE  /\ PartStart(t, num, count, s) \in Nat /\ PartEnd(t, num, count, s) \in Nat
         /\ PartStart(t, num, count, s) <= PartEnd(t, num, count, s)
         /\ PartStart(t, 1, count, s) = 0
         /\ num < count => PartStart(t, num + 1, count, s) = PartEnd(t, num, count, s)
         /\ PartEnd(t, count, count, s) = EndRow(t, UnitsOf(t, s))
         /\ PartEnd(t, num, count, s) - PartStart(t, num, count, s)
              <= CalculateRowCount(UnitsOf(t, s), num, count)
         /\ CalculateRowCount(UnitsOf(t, s), num, count) \in Nat
         /\ PartEnd(t, num, count, s) <= EndRow(t, UnitsOf(t, s))
<1> DEFINE u == UnitsOf(t, s)
           Start(n) == PartRange(u, count, n).start_row
           End(n) == PartRange(u, count, n).end_row
<1>1. u \in Nat
  BY RowCounts
<1>2. PICK q \in Nat, r \in 0..(count - 1) : Divided(u, count, q, r)
  BY <1>1, RangeForm
<1>3. \A n \in 1..count : /\ Start(n) \in Nat /\ End(n) \in Nat /\ Start(n) <= End(n)
                          /\ End(n) = Start(n) + CalculateRowCount(u, n, count)
                          /\ CalculateRowCount(u, n, count) \in Nat
  <2> TAKE n \in 1..count
  <2>1. q * (n - 1) \in Nat
    OBVIOUS
  <2>2. End(n) = Start(n) + CalculateRowCount(u, n, count)
    BY DEF PartRange, MakePartitionRange
  <2>3. PICK p \in Nat : p = q * (n - 1)
    BY <2>1
  <2>4. Start(n) = p /\ End(n) = p + (q + (IF n = count THEN r ELSE 0))
    BY <1>2, <2>3 DEF Divided
  <2>5. CalculateRowCount(u, n, count) \in Nat
    <3>1. u \div count \in Nat /\ u % count \in Nat
      BY <1>1, Division
    <3> QED BY <3>1 DEF CalculateRowCount
  <2> QED BY <2>2, <2>4, <2>5
<1>4. /\ Start(1) = 0 /\ End(count) = u
      /\ \A n \in 1..(count - 1) : End(n) = Start(n + 1)
  BY <1>1, PartitionsTile
<1> HIDE DEF u, Start, End
<1>5. /\ PartEnd(t, num, count, s) = EndRow(t, End(num))
      /\ PartEnd(t, 1, count, s) = EndRow(t, End(1))
      /\ PartEnd(t, num + 1, count, s) = EndRow(t, End(num + 1))
      /\ PartEnd(t, count, count, s) = EndRow(t, UnitsOf(t, s))
  BY <1>4 DEF PartEnd, End, u
<1>6. \A n : PartStart(t, n, count, s) = IF Start(n) > PartEnd(t, n, count, s) THEN PartEnd(t, n, count, s) ELSE Start(n)
  BY DEF PartStart, Start, u
<1>7. 1 \in 1..count /\ num \in 1..count /\ (num < count => num + 1 \in 1..count /\ num \in 1..(count - 1))
  OBVIOUS
<1>8. \A n \in 1..count : EndRow(t, End(n)) \in Nat /\ EndRow(t, End(n)) <= End(n)
  BY <1>3, EndRows
<1>9. /\ PartStart(t, num, count, s) \in Nat /\ PartEnd(t, num, count, s) \in Nat
      /\ PartStart(t, num, count, s) <= PartEnd(t, num, count, s)
  BY <1>3, <1>5, <1>6, <1>7, <1>8
<1>10. PartStart(t, 1, count, s) = 0
  BY <1>3, <1>4, <1>5, <1>6, <1>7, <1>8
<1>11. ASSUME num < count PROVE PartStart(t, num + 1, count, s) = PartEnd(t, num, count, s)
  <2>1. /\ Start(num + 1) = End(num) /\ End(num) \in Nat /\ End(num + 1) \in Nat
        /\ End(num) <= End(num + 1)
    BY <1>3, <1>4, <1>7, <1>11
  <2>2. PartStart(t, num + 1, count, s)
          = IF End(num) > EndRow(t, End(num + 1)) THEN EndRow(t, End(num + 1)) ELSE End(num)
    BY <1>5, <1>6, <2>1
  <2> QED BY <1>5, <2>1, <2>2, StreamsAssumption DEF EndRow
<1>12. PartEnd(t, num, count, s) - PartStart(t, num, count, s) <= CalculateRowCount(u, num, count)
  <2>1. PICK n \in Nat : n = CalculateRowCount(u, num, count)
    BY <1>3, <1>7
  <2>2. End(num) = Start(num) + n
    BY <1>3, <1>7, <2>1
  <2> QED BY <1>3, <1>5, <1>6, <1>7, <1>8, <2>1, <2>2
<1>13. CalculateRowCount(u, num, count) \in Nat
  BY <1>3, <1>7
<1>14. PartEnd(t, num, count, s) <= EndRow(t, u)
  <2>1. End(num) <= u
    <3>1. CASE num = count
      BY <1>1, <1>4, <3>1
    <3>2. CASE num # count
      <4>1. num + 1 <= count
        BY <3>2
      <4>2. q * ((num + 1) - 1) <= q * count
        BY Ascending
      <4>3. Start(num + 1) = q * ((num + 1) - 1) /\ End(num) = Start(num + 1)
        BY <1>2, <1>4, <1>7, <4>1 DEF Divided, Start
      <4>4. PICK c \in Nat : c = q * count
        OBVIOUS
      <4>5. u = c + r
        BY <1>2, <4>4 DEF Divided
      <4> QED BY <4>2, <4>3, <4>4, <4>5
    <3> QED BY <3>1, <3>2
  <2>2. End(num) \in Nat
    BY <1>3, <1>7
  <2> QED BY <1>1, <1>5, <2>1, <2>2, StreamsAssumption DEF EndRow
<1> QED BY <1>5, <1>9, <1>10, <1>11, <1>12, <1>13, <1>14 DEF u

LEMMA ResetPlace ==
  ASSUME NEW s \in Scales, NEW t \in Tables, NEW count \in Nat \ {0}, NEW num \in 1..count
  PROVE  LET it == ResetGenerator(t, num, count, s)
         IN  /\ IsIterator(it)
             /\ it.end = PartEnd(t, num, count, s) /\ it.index = PartStart(t, num, count, s)
             /\ it.scale_factor = s
             /\ t # "lineitem" => it.line = 0
<1>1. PICK streams, sum :
                     LET end == PartEnd(t, num, count, s)
                         start == PartStart(t, num, count, s)
                         it == [streams |-> streams, index |-> start, end |-> end, line |-> 0,
                                line_count |-> 0, order_date |-> 0, region_cum_sum |-> sum, scale_factor |-> s]
                     IN  ResetGenerator(t, num, count, s)
                           = IF t = "lineitem" /\ start < end THEN DrawOrder(it) ELSE it
  BY DEF ResetGenerator, Reset, PartStart, PartEnd, PartRange
<1>2. PICK it : it = [streams |-> streams, index |-> PartStart(t, num, count, s), end |-> PartEnd(t, num, count, s),
                      line |-> 0, line_count |-> 0, order_date |-> 0, region_cum_sum |-> sum, scale_factor |-> s]
  OBVIOUS
<1>3. /\ DOMAIN it = IteratorFields /\ it.index = PartStart(t, num, count, s)
      /\ it.end = PartEnd(t, num, count, s) /\ it.line = 0 /\ it.scale_factor = s
  BY <1>2 DEF IteratorFields
<1>4. IsIterator(it)
  BY <1>3, PartsTile DEF IsIterator
<1>5. ResetGenerator(t, num, count, s) \in {it, DrawOrder(it)}
      /\ (t # "lineitem" => ResetGenerator(t, num, count, s) = it)
  BY <1>1, <1>2
<1> QED BY <1>3, <1>4, <1>5, DrawOrderPlace

\* The key of the k-th row of a table, whatever the partitions and batches are.
HasKey(t, k, row, s) ==
  IF t = "partsupp"
  THEN /\ row.part_key = ToInt(((k - 1) \div SuppliersPerPart) + 1)
       /\ row.supplier_key = SupplierAt((k - 1) \div SuppliersPerPart, (k - 1) % SuppliersPerPart, s)
  ELSE row.key = KeyAt(t, k - 1)

LEMMA UnitSize ==
  /\ \A t : t # "partsupp" => RowsPerUnit(t) = 1
  /\ RowsPerUnit("partsupp") = 4
  /\ \A t : RowsPerUnit(t) \in {1, 4}
BY DEF RowsPerUnit, SuppliersPerPart

\* Counting rows by parts and by suppliers of a part.
LEMMA PartOfRow ==
  ASSUME NEW index \in Nat, NEW line \in 0..3
  PROVE  (4 * index + line) \div 4 = index /\ (4 * index + line) % 4 = line
OBVIOUS

\* The iterator moves by one unit at most, over the row of the key that is due.
LEMMA NextRowPlace ==
  ASSUME NEW t \in Tables, NEW it, IsIterator(it)
  PROVE  LET next == NextRow(t, it)
         IN  /\ IsIterator(next.iter) /\ next.iter.end = it.end
             /\ next.iter.scale_factor = it.scale_factor
             /\ next.iter.index \in {it.index, it.index + 1}
             /\ t # "lineitem" /\ it.line < RowsPerUnit(t) =>
                  /\ RowsPerUnit(t) * next.iter.index + next.iter.line = RowsPerUnit(t) * it.index + it.line + 1
                  /\ next.iter.line < RowsPerUnit(t)
                  /\ next.iter.index = it.index + 1 => next.iter.line = 0
                  /\ HasKey(t, RowsPerUnit(t) * it.index + it.line + 1, next.row, it.scale_factor)
<1>1. PICK next : next = NextRow(t, it)
  OBVIOUS
<1>2. CASE t = "lineitem"
  BY <1>2, NextLineitemRow
<1>3. CASE t = "partsupp"
  <2>1. /\ IsIterator(next.iter) /\ next.iter.end = it.end
        /\ next.iter.scale_factor = it.scale_factor
        /\ IF it.line + 1 >= 4
           THEN next.iter.index = it.index + 1 /\ next.iter.line = 0
           ELSE next.iter.index = it.index /\ next.iter.line = it.line + 1
        /\ next.row.part_key = ToInt(it.index + 1)
        /\ next.row.supplier_key = SupplierAt(it.index, it.line, it.scale_factor)
    BY <1>1, <1>3, NextPartSuppRow DEF SuppliersPerPart
  <2>2. RowsPerUnit(t) = 4 /\ it.index \in Nat /\ it.line \in Nat
    BY <1>3, UnitSize DEF IsIterator
  <2>3. ASSUME it.line < 4
        PROVE  HasKey(t, 4 * it.index + it.line + 1, next.row, it.scale_factor)
    <3>1. (4 * it.index + it.line + 1) - 1 = 4 * it.index + it.line
      BY <2>2
    <3>2. (4 * it.index + it.line) \div 4 = it.index /\ (4 * it.index + it.line) % 4 = it.line
      BY <2>2, <2>3, PartOfRow
    <3> QED BY <1>3, <2>1, <3>1, <3>2 DEF HasKey, SuppliersPerPart
  <2> QED BY <1>1, <2>1, <2>2, <2>3
<1>4. CASE t \in OneRowTables
  <2>1. /\ IsIterator(next.iter) /\ next.iter.end = it.end
        /\ next.iter.scale_factor = it.scale_factor
        /\ next.iter.index = it.index + 1 /\ next.iter.line = it.line
        /\ next.row.key = KeyAt(t, it.index)
    BY <1>1, <1>4, NextOneRow
  <2>2. RowsPerUnit(t) = 1 /\ it.index \in Nat /\ it.line \in Nat /\ t # "partsupp"
    BY <1>4, UnitSize DEF IsIterator, OneRowTables
  <2>3. ASSUME it.line < 1
        PROVE  HasKey(t, 1 * it.index + it.line + 1, next.row, it.scale_factor)
    <3>1. (1 * it.index + it.line + 1) - 1 = it.index
      BY <2>2, <2>3
    <3> QED BY <2>1, <2>2, <3>1 DEF HasKey
  <2> QED BY <1>1, <2>1, <2>2, <2>3
<1> QED BY <1>2, <1>3, <1>4 DEF Tables, OneRowTables

-----------------------------------------------------------------------------
(* The streams of a column.                                                 *)

\* Seeds that drawing does not leave.
ClosedSeeds(S) ==
  /\ 1..(Modulus - 1) \subseteq S /\ S \subseteq Residues
  /\ \A x \in S : (x * Multiplier) % Modulus \in S

\* A column's stream as a row iterator creates it.
IsColumn(c, S) == c \in Stream /\ c.usage = 0 /\ (~c.wide => c.seed \in S)

\* The streams that come of it.
Of(c, S) ==
  {r \in Stream : r.seeds_per_row = c.seeds_per_row /\ r.wide = c.wide /\ (~r.wide => r.seed \in S)}

\* r is the column's stream after some draws of row k.
At(c, k, r, S) == r \in Of(c, S) /\ (~c.wide => r = Draws(AdvanceRows(c, k), r.usage))

LEMMA MultipliedIn ==
  ASSUME NEW S, ClosedSeeds(S), NEW seed \in S, NEW n \in Nat
  PROVE  Multiplied(Multiplier, seed)[n] \in S
<1> DEFINE R == {k \in Nat : Multiplied(Multiplier, seed)[k] \in S}
<1>1. Multiplier \in Nat /\ seed \in Residues
  BY RandsAssumption DEF ClosedSeeds
<1>2. 0 \in R
  BY <1>1, MultipliedForm
<1>3. ASSUME NEW k \in Nat, k \in R PROVE k + 1 \in R
  BY <1>1, <1>3, MultipliedForm DEF ClosedSeeds
<1>4. Nat \subseteq R
  <2> HIDE DEF R
  <2> QED BY <1>2, <1>3, Induction
<1> QED BY <1>4

LEMMA AtDraws ==
  ASSUME NEW S, ClosedSeeds(S), NEW c, IsColumn(c, S), NEW k \in Nat, NEW r, At(c, k, r, S), NEW n \in Nat
  PROVE  At(c, k, Draws(r, n), S) /\ Draws(r, n).usage = r.usage + n
<1>1. r \in Stream /\ r.usage \in Nat /\ r.seeds_per_row = c.seeds_per_row /\ r.wide = c.wide /\ (~r.wide => r.seed \in S)
  BY StreamFields DEF At, Of
<1>2. /\ Draws(r, n) \in Stream /\ Draws(r, n).usage = r.usage + n
      /\ Draws(r, n).seeds_per_row = r.seeds_per_row /\ Draws(r, n).wide = r.wide
  BY <1>1, DrawsFields
<1>3. ~r.wide => Draws(r, n).seed \in S
  BY <1>1, DrawsSeed, MultipliedIn DEF Short, ClosedSeeds
<1>4. ASSUME ~c.wide PROVE Draws(r, n) = Draws(AdvanceRows(c, k), Draws(r, n).usage)
  <2>1. AdvanceRows(c, k) \in Stream
    BY AdvanceRowsFields DEF IsColumn
  <2>2. r = Draws(AdvanceRows(c, k), r.usage)
    BY <1>4 DEF At
  <2>3. Draws(Draws(AdvanceRows(c, k), r.usage), n) = Draws(AdvanceRows(c, k), r.usage + n)
    BY <1>1, <2>1, DrawsSum
  <2> QED BY <1>2, <2>2, <2>3
<1> QED BY <1>1, <1>2, <1>3, <1>4 DEF At, Of

LEMMA AtStart ==
  ASSUME NEW S, ClosedSeeds(S), NEW c, IsColumn(c, S), NEW k \in Nat
  PROVE  At(c, k, AdvanceRows(c, k), S) /\ AdvanceRows(c, k).usage = 0
<1>1. c \in Stream /\ c.usage = 0 /\ c.seeds_per_row \in Nat
  BY StreamFields DEF IsColumn
<1>2. /\ AdvanceRows(c, k) \in Stream /\ AdvanceRows(c, k).usage = 0
      /\ AdvanceRows(c, k).seeds_per_row = c.seeds_per_row /\ AdvanceRows(c, k).wide = c.wide
      /\ Short(c) => AdvanceRows(c, k).seed = Multiplied(Multiplier, c.seed)[c.seeds_per_row * k]
  BY <1>1, AdvanceRowsFields
<1>3. ASSUME ~c.wide PROVE AdvanceRows(c, k).seed \in S
  <2>1. PICK n \in Nat : n = c.seeds_per_row * k
    BY <1>1
  <2>2. c.seed \in S /\ Short(c)
    BY <1>3 DEF IsColumn, Short, ClosedSeeds
  <2> QED BY <1>2, <2>1, <2>2, MultipliedIn
<1>4. Draws(AdvanceRows(c, k), 0) = AdvanceRows(c, k)
  BY <1>2, DrawsForm
<1> QED BY <1>2, <1>3, <1>4 DEF At, Of

LEMMA AtFinish ==
  ASSUME NEW S, ClosedSeeds(S), NEW c, IsColumn(c, S), NEW k \in Nat, NEW r, At(c, k, r, S),
         r.usage <= c.seeds_per_row
  PROVE  At(c, k + 1, RowFinished(r), S) /\ RowFinished(r).usage = 0
<1>1. r \in Stream /\ r.usage \in Nat /\ r.seeds_per_row = c.seeds_per_row /\ r.wide = c.wide
      /\ c \in Stream /\ c.usage = 0 /\ c.seeds_per_row \in Nat
  BY StreamFields DEF At, Of, IsColumn
<1>2. /\ RowFinished(r) \in Stream /\ RowFinished(r).usage = 0
      /\ RowFinished(r).seeds_per_row = r.seeds_per_row /\ RowFinished(r).wide = r.wide
  BY <1>1, RowFinishedFields
<1>3. CASE c.wide
  BY <1>1, <1>2, <1>3 DEF At, Of
<1>4. CASE ~c.wide
  <2>1. RowFinished(r) = AdvanceRows(c, k + 1)
    <3>1. Short(c) /\ r = Draws(AdvanceRows(c, k), r.usage) /\ r.usage \in 0..c.seeds_per_row
      BY <1>1, <1>4 DEF IsColumn, Short, ClosedSeeds, At
    <3> QED BY <1>1, <3>1, RowOfStream
  <2>2. PICK x \in Nat : x = k + 1
    OBVIOUS
  <2>3. At(c, x, AdvanceRows(c, x), S)
    BY AtStart
  <2> QED BY <1>2, <2>1, <2>2, <2>3
<1> QED BY <1>3, <1>4

\* A stream that has drawn nothing of row k is where skipping leaves it.
LEMMA AtRest ==
  ASSUME NEW S, NEW c, IsColumn(c, S), NEW k \in Nat, NEW r, At(c, k, r, S), r.usage = 0, ~c.wide
  PROVE  r = AdvanceRows(c, k)
<1>1. AdvanceRows(c, k) \in Stream
  BY AdvanceRowsFields DEF IsColumn
<1> QED BY <1>1, DrawsForm DEF At

LEMMA FreshColumn ==
  ASSUME NEW c \in Stream, c.usage = 0
  PROVE  AdvanceRows(c, 0) = c
<1>1. c.seeds_per_row * 0 = 0
  BY StreamFields
<1> QED BY <1>1 DEF AdvanceRows

\* The multiplier is a unit of the residues.
HasInverse == \E inverse, q \in Nat : Multiplier * inverse = Modulus * q + 1

LEMMA UnitsClosed == ASSUME HasInverse PROVE ClosedSeeds(1..(Modulus - 1))
<1>1. PICK m \in Nat \ {0}, a \in Nat : m = Modulus /\ a = Multiplier
  BY RandsAssumption
<1>2. ASSUME NEW x \in 1..(m - 1) PROVE (x * a) % m \in 1..(m - 1)
  <2>1. PICK y \in Nat : y = x * a
    OBVIOUS
  <2>2. y % m \in 0..(m - 1) /\ y = m * (y \div m) + (y % m) /\ y \div m \in Nat
    BY <1>1, Division
  <2>3. ASSUME y % m = 0 PROVE FALSE
    <3>1. PICK q \in Nat : q = y \div m
      BY <2>2
    <3>2. x * a = m * q
      BY <2>1, <2>2, <2>3, <3>1
    <3>3. PICK i \in Nat, p \in Nat : a * i = m * p + 1
      BY <1>1 DEF HasInverse
    <3>4. (x * a) * i = x * (a * i)
      OBVIOUS
    <3>5. (m * q) * i = m * (q * i)
      BY <1>1
    <3>6. x * (m * p + 1) = m * (x * p) + x
      BY <1>1
    <3>7. x = m * (q * i) - m * (x * p)
      <4>1. PICK u \in Nat, v \in Nat : u = m * (q * i) /\ v = m * (x * p)
        BY <1>1
      <4>2. x * (a * i) = v + x
        BY <3>3, <3>6, <4>1
      <4>3. (x * a) * i = u
        BY <3>2, <3>5, <4>1
      <4> QED BY <3>4, <4>1, <4>2, <4>3
    <3>8. PICK k \in Int : k = q * i - x * p
      OBVIOUS
    <3>9. x = m * k
      BY <3>7, <3>8
    <3>10. CASE k <= 0
      <4>1. m * k <= 0
        BY <3>10
      <4> QED BY <3>9, <4>1
    <3>11. CASE k >= 1
      <4>1. m * k >= m
        BY <3>11
      <4> QED BY <3>9, <4>1
    <3> QED BY <3>8, <3>10, <3>11
  <2> QED BY <2>1, <2>2, <2>3
<1> QED BY <1>1, <1>2 DEF ClosedSeeds, Residues


\* Those of rands.h are.
LEMMA TpchInverse == ASSUME Modulus = 2147483647, Multiplier = 16807 PROVE HasInverse
<1>1. Multiplier * 1407677000 = Modulus * 11017 + 1
  BY SMT
<1> QED BY <1>1, SMT DEF HasInverse

-----------------------------------------------------------------------------
(* The columns of the tables.                                               *)

LineColumns == {"quantity", "discount", "tax", "part_key", "ship_date"}
OrderColumns == {"order_date", "line_count"}

\* The values that the rows of one unit take from a column at most.
UnitValues(t, col) == CASE t = "orders" -> IF col \in LineColumns THEN LineCountMax ELSE 1
                        [] t = "lineitem" -> IF col \in OrderColumns THEN 1 ELSE LineCountMax
                        [] t = "partsupp" -> SuppliersPerPart
                        [] OTHER -> 1

\* c is a fresh stream, with room for n draws a row.
Fresh(c, n, wide) ==
  \E seed \in Nat, spr \in Nat, w \in BOOLEAN :
    /\ c = RowRandom(1 + (seed % (Modulus - 1)), spr, w)
    /\ n <= spr /\ (w => wide)

LEMMA FreshRandom ==
  ASSUME NEW seed \in Nat, NEW spr \in Nat, NEW n \in 0..spr, NEW wide \in BOOLEAN
  PROVE  Fresh(Random(seed, spr), n, wide)
<1>1. PICK w \in BOOLEAN : w = FALSE
  OBVIOUS
<1>2. Random(seed, spr) = RowRandom(1 + (seed % (Modulus - 1)), spr, w) /\ (w => wide)
  BY <1>1, Zenon DEF Random
<1>3. n <= spr
  OBVIOUS
<1> QED BY <1>2, <1>3, Zenon DEF Fresh

LEMMA FreshRandomBoundedLong ==
  ASSUME NEW seed \in Nat, NEW spr \in Nat, NEW n \in 0..spr, NEW s \in Scales
  PROVE  Fresh(RandomBoundedLong(seed, spr, s), n, s.wide)
BY StreamsAssumption DEF RandomBoundedLong, Fresh

LEMMA FreshStream ==
  ASSUME NEW c, NEW n, NEW wide, Fresh(c, n, wide)
  PROVE  /\ c \in Stream /\ c.usage = 0 /\ c.seed \in 1..(Modulus - 1)
         /\ n <= c.seeds_per_row /\ (c.wide => wide)
<1>1. PICK seed \in Nat, spr \in Nat, w \in BOOLEAN :
        /\ c = RowRandom(1 + (seed % (Modulus - 1)), spr, w)
        /\ n <= spr /\ (w => wide)
  BY DEF Fresh
<1>2. Modulus - 1 \in Nat \ {0}
  BY RandsAssumption
<1>3. PICK x \in 1..(Modulus - 1) : x = 1 + (seed % (Modulus - 1))
  <2>1. PICK m \in Nat \ {0} : m = Modulus - 1
    BY <1>2
  <2>2. seed % m \in 0..(m - 1)
    BY <2>1, Division
  <2> QED BY <2>1, <2>2
<1>4. c = [seed |-> x, usage |-> 0, seeds_per_row |-> spr, wide |-> w]
  BY <1>1, <1>3 DEF RowRandom
<1> QED BY <1>1, <1>3, <1>4, RandsAssumption DEF Stream

LEMMA LineStreamsFresh ==
  ASSUME NEW s \in Scales
  PROVE  /\ DOMAIN LineStreams(s) = LineColumns
         /\ \A col \in LineColumns : Fresh(LineStreams(s)[col], 7, s.wide)
<1>1. s.wide \in BOOLEAN
  BY StreamsAssumption
<1>2. DOMAIN LineStreams(s) = LineColumns
  BY DEF LineStreams, LineColumns
<1>3. ASSUME NEW col \in LineColumns
      PROVE  \E seed \in Nat : LineStreams(s)[col] \in {Random(seed, 7), RandomBoundedLong(seed, 7, s)}
  BY DEF LineStreams, LineColumns, LineCountMax
<1> QED BY <1>1, <1>2, <1>3, FreshRandom, FreshRandomBoundedLong

LEMMA OrderStreamsFresh ==
  ASSUME NEW wide \in BOOLEAN
  PROVE  /\ DOMAIN OrderStreams = OrderColumns
         /\ \A col \in OrderColumns : Fresh(OrderStreams[col], 1, wide)
<1>2. DOMAIN OrderStreams = OrderColumns
  BY DEF OrderStreams, OrderColumns
<1>3. ASSUME NEW col \in OrderColumns
      PROVE  \E seed \in Nat : OrderStreams[col] = Random(seed, 1)
  BY DEF OrderStreams, OrderColumns
<1> QED BY <1>2, <1>3, FreshRandom

\* What a row of the table takes from a column.
Need(t, col) == UnitValues(t, col) * DrawsPerValue(t, col)

LEMMA OrdersStreamsFresh ==
  ASSUME NEW s \in Scales, NEW col \in DOMAIN OrdersStreams(s)
  PROVE  Fresh(OrdersStreams(s)[col], Need("orders", col), s.wide)
<1>1. s.wide \in BOOLEAN
  BY StreamsAssumption
<1>2. CASE col \in {"customer_key", "order_priority", "clerk"}
  <2>1. \E seed \in Nat : OrdersStreams(s)[col] \in {Random(seed, 1), RandomBoundedLong(seed, 1, s)}
    BY <1>2 DEF OrdersStreams
  <2>2. Need("orders", col) = 1
    BY <1>2 DEF Need, UnitValues, DrawsPerValue, LineColumns, OrderColumns, LineCountMax, SuppliersPerPart
  <2> QED BY <1>1, <2>1, <2>2, FreshRandom, FreshRandomBoundedLong
<1>3. CASE col \in {"comment"}
  <2>1. \E seed \in Nat : OrdersStreams(s)[col] = Random(seed, 2)
    BY <1>3 DEF OrdersStreams
  <2>2. Need("orders", col) = 2
    BY <1>3 DEF Need, UnitValues, DrawsPerValue, LineColumns, OrderColumns, LineCountMax, SuppliersPerPart
  <2> QED BY <1>1, <2>1, <2>2, FreshRandom
<1>4. col \in {"customer_key", "order_priority", "clerk", "comment"}
  BY DEF OrdersStreams
<1> QED BY <1>2, <1>3, <1>4

LEMMA LineitemStreamsFresh ==
  ASSUME NEW wide \in BOOLEAN, NEW col \in DOMAIN LineitemStreams
  PROVE  Fresh(LineitemStreams[col], Need("lineitem", col), wide)
<1>2. CASE col \in {"supplier_number", "commit_date", "receipt_date", "return_flag", "ship_instruct", "ship_mode"}
  <2>1. \E seed \in Nat : LineitemStreams[col] = Random(seed, 7)
    BY <1>2 DEF LineitemStreams, LineCountMax
  <2>2. Need("lineitem", col) = 7
    BY <1>2 DEF Need, UnitValues, DrawsPerValue, LineColumns, OrderColumns, LineCountMax, SuppliersPerPart
  <2> QED BY <2>1, <2>2, FreshRandom
<1>3. CASE col \in {"comment"}
  <2>1. \E seed \in Nat : LineitemStreams[col] = Random(seed, 14)
    BY <1>3 DEF LineitemStreams, LineCountMax
  <2>2. Need("lineitem", col) = 14
    BY <1>3 DEF Need, UnitValues, DrawsPerValue, LineColumns, OrderColumns, LineCountMax, SuppliersPerPart
  <2> QED BY <2>1, <2>2, FreshRandom
<1>4. col \in {"supplier_number", "commit_date", "receipt_date", "return_flag", "ship_instruct", "ship_mode", "comment"}
  BY DEF LineitemStreams, LineCountMax
<1> QED BY <1>2, <1>3, <1>4

LEMMA PartSuppStreamsFresh ==
  ASSUME NEW wide \in BOOLEAN, NEW col \in DOMAIN PartSuppStreams
  PROVE  Fresh(PartSuppStreams[col], Need("partsupp", col), wide)
<1>2. CASE col \in {"available_quantity", "supply_cost"}
  <2>1. \E seed \in Nat : PartSuppStreams[col] = Random(seed, 4)
    BY <1>2 DEF PartSuppStreams, SuppliersPerPart
  <2>2. Need("partsupp", col) = 4
    BY <1>2 DEF Need, UnitValues, DrawsPerValue, LineColumns, OrderColumns, LineCountMax, SuppliersPerPart
  <2> QED BY <2>1, <2>2, FreshRandom
<1>3. CASE col \in {"comment"}
  <2>1. \E seed \in Nat : PartSuppStreams[col] = Random(seed, 8)
    BY <1>3 DEF PartSuppStreams, SuppliersPerPart
  <2>2. Need("partsupp", col) = 8
    BY <1>3 DEF Need, UnitValues, DrawsPerValue, LineColumns, OrderColumns, LineCountMax, SuppliersPerPart
  <2> QED BY <2>1, <2>2, FreshRandom
<1>4. col \in {"available_quantity", "supply_cost", "comment"}
  BY DEF PartSuppStreams, SuppliersPerPart
<1> QED BY <1>2, <1>3, <1>4

LEMMA CustomerStreamsFresh ==
  ASSUME NEW wide \in BOOLEAN, NEW col \in DOMAIN CustomerStreams
  PROVE  Fresh(CustomerStreams[col], Need("customer", col), wide)
<1>2. CASE col \in {"address"}
  <2>1. \E seed \in Nat : CustomerStreams[col] = Random(seed, 9)
    BY <1>2 DEF CustomerStreams
  <2>2. Need("customer", col) = 1
    BY <1>2 DEF Need, UnitValues, DrawsPerValue, LineColumns, OrderColumns, LineCountMax, SuppliersPerPart
  <2> QED BY <2>1, <2>2, FreshRandom
<1>3. CASE col \in {"nation_key", "account_balance", "market_segment"}
  <2>1. \E seed \in Nat : CustomerStreams[col] = Random(seed, 1)
    BY <1>3 DEF CustomerStreams
  <2>2. Need("customer", col) = 1
    BY <1>3 DEF Need, UnitValues, DrawsPerValue, LineColumns, OrderColumns, LineCountMax, SuppliersPerPart
  <2> QED BY <2>1, <2>2, FreshRandom
<1>4. CASE col \in {"phone"}
  <2>1. \E seed \in Nat : CustomerStreams[col] = Random(seed, 3)
    BY <1>4 DEF CustomerStreams
  <2>2. Need("customer", col) = 3
    BY <1>4 DEF Need, UnitValues, DrawsPerValue, LineColumns, OrderColumns, LineCountMax, SuppliersPerPart
  <2> QED BY <2>1, <2>2, FreshRandom
<1>5. CASE col \in {"comment"}
  <2>1. \E seed \in Nat : CustomerStreams[col] = Random(seed, 2)
    BY <1>5 DEF CustomerStreams
  <2>2. Need("customer", col) = 2
    BY <1>5 DEF Need, UnitValues, DrawsPerValue, LineColumns, OrderColumns, LineCountMax, SuppliersPerPart
  <2> QED BY <2>1, <2>2, FreshRandom
<1>6. col \in {"address", "nation_key", "account_balance", "market_segment", "phone", "comment"}
  BY DEF CustomerStreams
<1> QED BY <1>2, <1>3, <1>4, <1>5, <1>6

LEMMA PartStreamsFresh ==
  ASSUME NEW wide \in BOOLEAN, NEW col \in DOMAIN PartStreams
  PROVE  Fresh(PartStreams[col], Need("part", col), wide)
<1>2. CASE col \in {"name"}
  <2>1. \E seed \in Nat : PartStreams[col] = Random(seed, 92)
    BY <1>2 DEF PartStreams
  <2>2. Need("part", col) = 5
    BY <1>2 DEF Need, UnitValues, DrawsPerValue, LineColumns, OrderColumns, LineCountMax, SuppliersPerPart
  <2> QED BY <2>1, <2>2, FreshRandom
<1>3. CASE col \in {"manufacturer", "brand", "type", "size", "container"}
  <2>1. \E seed \in Nat : PartStreams[col] = Random(seed, 1)
    BY <1>3 DEF PartStreams
  <2>2. Need("part", col) = 1
    BY <1>3 DEF Need, UnitValues, DrawsPerValue, LineColumns, OrderColumns, LineCountMax, SuppliersPerPart
  <2> QED BY <2>1, <2>2, FreshRandom
<1>4. CASE col \in {"comment"}
  <2>1. \E seed \in Nat : PartStreams[col] = Random(seed, 2)
    BY <1>4 DEF PartStreams
  <2>2. Need("part", col) = 2
    BY <1>4 DEF Need, UnitValues, DrawsPerValue, LineColumns, OrderColumns, LineCountMax, SuppliersPerPart
  <2> QED BY <2>1, <2>2, FreshRandom
<1>5. col \in {"name", "manufacturer", "brand", "type", "size", "container", "comment"}
  BY DEF PartStreams
<1> QED BY <1>2, <1>3, <1>4, <1>5

LEMMA SupplierStreamsFresh ==
  ASSUME NEW wide \in BOOLEAN, NEW col \in DOMAIN SupplierStreams
  PROVE  Fresh(SupplierStreams[col], Need("supplier", col), wide)
<1>2. CASE col \in {"address"}
  <2>1. \E seed \in Nat : SupplierStreams[col] = Random(seed, 9)
    BY <1>2 DEF SupplierStreams, Both, BbbStreams
  <2>2. Need("supplier", col) = 1
    BY <1>2 DEF Need, UnitValues, DrawsPerValue, LineColumns, OrderColumns, LineCountMax, SuppliersPerPart
  <2> QED BY <2>1, <2>2, FreshRandom
<1>3. CASE col \in {"nation_key", "account_balance", "bbb_comment", "bbb_junk", "bbb_offset", "bbb_type"}
  <2>1. \E seed \in Nat : SupplierStreams[col] = Random(seed, 1)
    BY <1>3 DEF SupplierStreams, Both, BbbStreams
  <2>2. Need("supplier", col) = 1
    BY <1>3 DEF Need, UnitValues, DrawsPerValue, LineColumns, OrderColumns, LineCountMax, SuppliersPerPart
  <2> QED BY <2>1, <2>2, FreshRandom
<1>4. CASE col \in {"phone"}
  <2>1. \E seed \in Nat : SupplierStreams[col] = Random(seed, 3)
    BY <1>4 DEF SupplierStreams, Both, BbbStreams
  <2>2. Need("supplier", col) = 3
    BY <1>4 DEF Need, UnitValues, DrawsPerValue, LineColumns, OrderColumns, LineCountMax, SuppliersPerPart
  <2> QED BY <2>1, <2>2, FreshRandom
<1>5. CASE col \in {"comment"}
  <2>1. \E seed \in Nat : SupplierStreams[col] = Random(seed, 2)
    BY <1>5 DEF SupplierStreams, Both, BbbStreams
  <2>2. Need("supplier", col) = 2
    BY <1>5 DEF Need, UnitValues, DrawsPerValue, LineColumns, OrderColumns, LineCountMax, SuppliersPerPart
  <2> QED BY <2>1, <2>2, FreshRandom
<1>6. col \in {"address", "nation_key", "account_balance", "bbb_comment", "bbb_junk", "bbb_offset", "bbb_type", "phone", "comment"}
  BY DEF SupplierStreams, Both, BbbStreams
<1> QED BY <1>2, <1>3, <1>4, <1>5, <1>6

LEMMA NationStreamsFresh ==
  ASSUME NEW wide \in BOOLEAN, NEW col \in DOMAIN NationStreams
  PROVE  Fresh(NationStreams[col], Need("nation", col), wide)
<1>2. CASE col \in {"comment"}
  <2>1. \E seed \in Nat : NationStreams[col] = Random(seed, 2)
    BY <1>2 DEF NationStreams
  <2>2. Need("nation", col) = 2
    BY <1>2 DEF Need, UnitValues, DrawsPerValue, LineColumns, OrderColumns, LineCountMax, SuppliersPerPart
  <2> QED BY <2>1, <2>2, FreshRandom
<1>3. col \in {"comment"}
  BY DEF NationStreams
<1> QED BY <1>2, <1>3

LEMMA RegionStreamsFresh ==
  ASSUME NEW wide \in BOOLEAN, NEW col \in DOMAIN RegionStreams
  PROVE  Fresh(RegionStreams[col], Need("region", col), wide)
<1>2. CASE col \in {"comment"}
  <2>1. \E seed \in Nat : RegionStreams[col] = Random(seed, 2)
    BY <1>2 DEF RegionStreams
  <2>2. Need("region", col) = 2
    BY <1>2 DEF Need, UnitValues, DrawsPerValue, LineColumns, OrderColumns, LineCountMax, SuppliersPerPart
  <2> QED BY <2>1, <2>2, FreshRandom
<1>3. col \in {"comment"}
  BY DEF RegionStreams
<1> QED BY <1>2, <1>3

Columns(t, s) == DOMAIN Streams(t, s)

LEMMA SharedColumns ==
  ASSUME NEW s \in Scales, NEW t \in {"orders", "lineitem"}, NEW col
  PROVE  /\ col \in Columns(t, s) <=> col \in DOMAIN OwnStreams(t, s) \/ col \in OrderColumns \/ col \in LineColumns
         /\ col \in DOMAIN OwnStreams(t, s) => col \notin OrderColumns /\ col \notin LineColumns
         /\ col \in DOMAIN OwnStreams(t, s) => Streams(t, s)[col] = OwnStreams(t, s)[col]
         /\ col \in OrderColumns => Streams(t, s)[col] = OrderStreams[col]
         /\ col \in LineColumns => Streams(t, s)[col] = LineStreams(s)[col]
<1>1. DOMAIN LineStreams(s) = LineColumns /\ DOMAIN OrderStreams = OrderColumns
  BY LineStreamsFresh, OrderStreamsFresh, StreamsAssumption
<1>2. Streams(t, s) = Both(OwnStreams(t, s), Both(OrderStreams, LineStreams(s)))
  BY DEF Streams
<1>3. col \in DOMAIN OwnStreams(t, s) => col \notin OrderColumns /\ col \notin LineColumns
  <2>1. CASE t = "orders"
    BY <2>1 DEF OwnStreams, OrdersStreams, OrderColumns, LineColumns
  <2>2. CASE t = "lineitem"
    BY <2>2 DEF OwnStreams, LineitemStreams, OrderColumns, LineColumns
  <2> QED BY <2>1, <2>2
<1>4. col \in OrderColumns => col \notin LineColumns
  BY DEF OrderColumns, LineColumns
<1> HIDE DEF Columns
<1>5. DOMAIN Both(OrderStreams, LineStreams(s)) = OrderColumns \cup LineColumns
  BY <1>1 DEF Both
<1>6. /\ col \in OrderColumns => Both(OrderStreams, LineStreams(s))[col] = OrderStreams[col]
      /\ col \in LineColumns => Both(OrderStreams, LineStreams(s))[col] = LineStreams(s)[col]
  BY <1>1, <1>4 DEF Both
<1>7. DOMAIN Streams(t, s) = DOMAIN OwnStreams(t, s) \cup (OrderColumns \cup LineColumns)
  BY <1>2, <1>5 DEF Both
<1>8. /\ col \in DOMAIN OwnStreams(t, s) => Streams(t, s)[col] = OwnStreams(t, s)[col]
      /\ col \in OrderColumns \cup LineColumns =>
           Streams(t, s)[col] = Both(OrderStreams, LineStreams(s))[col]
  BY <1>2, <1>3, <1>5 DEF Both
<1> QED BY <1>3, <1>6, <1>7, <1>8 DEF Columns

LEMMA ColumnFresh ==
  ASSUME NEW s \in Scales, NEW t \in Tables, NEW col \in Columns(t, s)
  PROVE  /\ Fresh(Streams(t, s)[col], Need(t, col), s.wide)
         /\ t \notin {"orders", "lineitem"} \/ col \in OrderColumns =>
              \A wide \in BOOLEAN : Fresh(Streams(t, s)[col], Need(t, col), wide)
<1>1. s.wide \in BOOLEAN
  BY StreamsAssumption
<1>3. CASE t \in {"orders", "lineitem"}
  <2>1. CASE col \in OrderColumns
    <3>1. Need(t, col) = 1
      BY <1>3, <2>1 DEF Need, UnitValues, DrawsPerValue, OrderColumns, LineColumns
    <3> QED BY <1>1, <1>3, <2>1, <3>1, SharedColumns, OrderStreamsFresh
  <2>2. CASE col \in LineColumns
    <3>1. Need(t, col) = 7 /\ col \notin OrderColumns
      BY <1>3, <2>2 DEF Need, UnitValues, DrawsPerValue, OrderColumns, LineColumns, LineCountMax
    <3> QED BY <1>1, <1>3, <2>2, <3>1, SharedColumns, LineStreamsFresh
  <2>3. CASE col \in DOMAIN OwnStreams(t, s)
    <3>1. CASE t = "orders"
      BY <1>1, <1>3, <2>3, <3>1, SharedColumns, OrdersStreamsFresh DEF OwnStreams
    <3>2. CASE t = "lineitem"
      BY <1>1, <1>3, <2>3, <3>2, SharedColumns, LineitemStreamsFresh DEF OwnStreams
    <3> QED BY <1>3, <3>1, <3>2
  <2> QED BY <1>3, <2>1, <2>2, <2>3, SharedColumns
<1>4. CASE t \notin {"orders", "lineitem"}
  <2>1. Streams(t, s) = OwnStreams(t, s) /\ col \in DOMAIN OwnStreams(t, s)
    BY <1>4 DEF Streams, Columns
  <2>2. ASSUME NEW wide \in BOOLEAN
        PROVE  Fresh(OwnStreams(t, s)[col], Need(t, col), wide)
    <3>1. CASE t = "partsupp"
      BY <2>1, <3>1, PartSuppStreamsFresh DEF OwnStreams
    <3>2. CASE t = "customer"
      BY <2>1, <3>2, CustomerStreamsFresh DEF OwnStreams
    <3>3. CASE t = "part"
      BY <2>1, <3>3, PartStreamsFresh DEF OwnStreams
    <3>4. CASE t = "supplier"
      BY <2>1, <3>4, SupplierStreamsFresh DEF OwnStreams
    <3>5. CASE t = "nation"
      BY <2>1, <3>5, NationStreamsFresh DEF OwnStreams
    <3>6. CASE t = "region"
      BY <2>1, <3>6, RegionStreamsFresh DEF OwnStreams
    <3> QED BY <1>4, <3>1, <3>2, <3>3, <3>4, <3>5, <3>6 DEF Tables
  <2> QED BY <1>1, <1>4, <2>1, <2>2
<1> QED BY <1>3, <1>4

LEMMA ColumnForm ==
  ASSUME NEW S, ClosedSeeds(S), NEW s \in Scales, NEW t \in Tables, NEW col \in Columns(t, s)
  PROVE  /\ IsColumn(Streams(t, s)[col], S)
         /\ Need(t, col) <= Streams(t, s)[col].seeds_per_row
         /\ Streams(t, s)[col].wide => s.wide /\ t \in {"orders", "lineitem"} /\ col \notin OrderColumns
<1>1. 1..(Modulus - 1) \subseteq S
  BY DEF ClosedSeeds
<1>2. PICK w \in BOOLEAN : w = FALSE
  OBVIOUS
<1>3. s.wide \in BOOLEAN
  BY StreamsAssumption
<1> DEFINE c == Streams(t, s)[col]
<1> HIDE DEF c
<1>4. Fresh(c, Need(t, col), s.wide)
  BY ColumnFresh DEF c
<1>5. /\ c \in Stream /\ c.usage = 0 /\ c.seed \in 1..(Modulus - 1)
      /\ Need(t, col) <= c.seeds_per_row /\ (c.wide => s.wide)
  BY <1>4, FreshStream
<1>6. ASSUME t \notin {"orders", "lineitem"} \/ col \in OrderColumns PROVE ~c.wide
  <2>1. Fresh(c, Need(t, col), w)
    BY <1>6, ColumnFresh DEF c
  <2>2. c.wide => w
    BY <2>1, FreshStream
  <2> QED BY <1>2, <2>2
<1> QED BY <1>1, <1>5, <1>6 DEF IsColumn, c

-----------------------------------------------------------------------------
(* All columns of a table at once.                                          *)

\* The streams are those of the table, somewhere in row k.
StreamsAt(t, s, k, streams, S) ==
  /\ streams = [col \in Columns(t, s) |-> streams[col]]
  /\ \A col \in Columns(t, s) : At(Streams(t, s)[col], k, streams[col], S)

\* They have drawn nothing of it.
AtRestAll(t, s, streams) == \A col \in Columns(t, s) : streams[col].usage = 0

\* The tables whose columns are all of the 31-bit generator.
SkipsExactly(t, s) == ~(s.wide /\ t \in {"orders", "lineitem"})

LEMMA DrawsPerValues == ASSUME NEW t, NEW col PROVE DrawsPerValue(t, col) \in 1..5
BY DEF DrawsPerValue

LEMMA Needs == ASSUME NEW t, NEW col PROVE Need(t, col) \in Nat /\ Need(t, col) >= DrawsPerValue(t, col)
<1>1. UnitValues(t, col) \in {1, 4, 7}
  BY DEF UnitValues, LineCountMax, SuppliersPerPart
<1>2. PICK d \in 1..5 : d = DrawsPerValue(t, col)
  BY DrawsPerValues
<1>3. PICK u \in {1, 4, 7} : u = UnitValues(t, col)
  BY <1>1
<1>4. Need(t, col) = u * d
  BY <1>2, <1>3 DEF Need
<1> QED BY <1>2, <1>3, <1>4

LEMMA TakeAt ==
  ASSUME NEW S, ClosedSeeds(S), NEW s \in Scales, NEW t \in Tables, NEW k \in Nat,
         NEW streams, StreamsAt(t, s, k, streams, S),
         NEW n, \A col \in Columns(t, s) : n[col] \in Nat
  PROVE  /\ StreamsAt(t, s, k, TakeValues(t, streams, n), S)
         /\ \A col \in Columns(t, s) :
              /\ TakeValues(t, streams, n)[col].usage = streams[col].usage + n[col] * DrawsPerValue(t, col)
              /\ TakeValues(t, streams, n)[col] = Draws(streams[col], n[col] * DrawsPerValue(t, col))
<1> DEFINE taken == TakeValues(t, streams, n)
<1>1. DOMAIN streams = Columns(t, s)
  BY DEF StreamsAt
<1>2. taken = [col \in Columns(t, s) |-> Draws(streams[col], n[col] * DrawsPerValue(t, col))]
  BY <1>1 DEF TakeValues
<1> HIDE DEF taken
<1>3. ASSUME NEW col \in Columns(t, s)
      PROVE  /\ taken[col] = Draws(streams[col], n[col] * DrawsPerValue(t, col))
             /\ At(Streams(t, s)[col], k, taken[col], S)
             /\ taken[col].usage = streams[col].usage + n[col] * DrawsPerValue(t, col)
  <2>1. PICK m \in Nat : m = n[col] * DrawsPerValue(t, col)
    <3>1. PICK d \in 1..5 : d = DrawsPerValue(t, col)
      BY DrawsPerValues
    <3>2. PICK x \in Nat : x = n[col]
      OBVIOUS
    <3>3. x * d \in Nat
      OBVIOUS
    <3> QED BY <3>1, <3>2, <3>3
  <2>2. taken[col] = Draws(streams[col], m)
    BY <1>2, <2>1
  <2>3. PICK c, r : c = Streams(t, s)[col] /\ r = streams[col]
    OBVIOUS
  <2>4. At(c, k, r, S) /\ IsColumn(c, S)
    BY <2>3, ColumnForm DEF StreamsAt
  <2>5. At(c, k, Draws(r, m), S) /\ Draws(r, m).usage = r.usage + m
    BY <2>4, AtDraws
  <2> QED BY <2>1, <2>2, <2>3, <2>5
<1>4. taken = [col \in Columns(t, s) |-> taken[col]]
  BY <1>2
<1> QED BY <1>3, <1>4 DEF taken, StreamsAt

LEMMA FinishAt ==
  ASSUME NEW S, ClosedSeeds(S), NEW s \in Scales, NEW t \in Tables, NEW k \in Nat,
         NEW streams, StreamsAt(t, s, k, streams, S),
         \A col \in Columns(t, s) : streams[col].usage <= Need(t, col)
  PROVE  /\ StreamsAt(t, s, k + 1, FinishRow(streams), S)
         /\ AtRestAll(t, s, FinishRow(streams))
<1> DEFINE finished == FinishRow(streams)
<1>1. DOMAIN streams = Columns(t, s)
  BY DEF StreamsAt
<1>2. finished = [col \in Columns(t, s) |-> RowFinished(streams[col])]
  BY <1>1 DEF FinishRow
<1> HIDE DEF finished
<1>3. ASSUME NEW col \in Columns(t, s)
      PROVE  At(Streams(t, s)[col], k + 1, finished[col], S) /\ finished[col].usage = 0
  <2>1. PICK c : c = Streams(t, s)[col]
    OBVIOUS
  <2>2. At(c, k, streams[col], S) /\ IsColumn(c, S) /\ Need(t, col) <= c.seeds_per_row
    BY <2>1, ColumnForm DEF StreamsAt
  <2>3. streams[col].usage <= c.seeds_per_row
    <3>1. streams[col].usage \in Nat /\ c.seeds_per_row \in Nat /\ Need(t, col) \in Nat
      BY <2>2, StreamFields, Needs DEF At, Of, IsColumn
    <3> QED BY <2>2, <3>1
  <2>4. finished[col] = RowFinished(streams[col])
    BY <1>2
  <2>5. At(c, k + 1, RowFinished(streams[col]), S) /\ RowFinished(streams[col]).usage = 0
    BY <2>2, <2>3, AtFinish
  <2> QED BY <2>1, <2>4, <2>5
<1>4. finished = [col \in Columns(t, s) |-> finished[col]]
  BY <1>2
<1> QED BY <1>3, <1>4 DEF finished, StreamsAt, AtRestAll

\* The streams of the table, moved over k rows.
Skipped(t, s, k) == [col \in Columns(t, s) |-> AdvanceRows(Streams(t, s)[col], k)]

LEMMA SkippedAt ==
  ASSUME NEW S, ClosedSeeds(S), NEW s \in Scales, NEW t \in Tables, NEW k \in Nat
  PROVE  StreamsAt(t, s, k, Skipped(t, s, k), S) /\ AtRestAll(t, s, Skipped(t, s, k))
<1> DEFINE skipped == Skipped(t, s, k)
<1>1. skipped = [col \in Columns(t, s) |-> AdvanceRows(Streams(t, s)[col], k)]
  BY DEF Skipped
<1> HIDE DEF skipped
<1>2. ASSUME NEW col \in Columns(t, s)
      PROVE  At(Streams(t, s)[col], k, skipped[col], S) /\ skipped[col].usage = 0
  <2>1. IsColumn(Streams(t, s)[col], S)
    BY ColumnForm
  <2> QED BY <1>1, <2>1, AtStart
<1>3. skipped = [col \in Columns(t, s) |-> skipped[col]]
  BY <1>1
<1> QED BY <1>2, <1>3 DEF skipped, StreamsAt, AtRestAll

\* There is one way to be at the start of a row, however the streams came there.
LEMMA RestIsSkipped ==
  ASSUME NEW S, ClosedSeeds(S), NEW s \in Scales, NEW t \in Tables, SkipsExactly(t, s), NEW k \in Nat,
         NEW streams, StreamsAt(t, s, k, streams, S), AtRestAll(t, s, streams)
  PROVE  streams = Skipped(t, s, k)
<1>1. ASSUME NEW col \in Columns(t, s)
      PROVE  streams[col] = AdvanceRows(Streams(t, s)[col], k)
  <2>1. PICK c : c = Streams(t, s)[col]
    OBVIOUS
  <2>2. IsColumn(c, S) /\ ~c.wide /\ At(c, k, streams[col], S) /\ streams[col].usage = 0
    BY <2>1, ColumnForm DEF StreamsAt, AtRestAll, SkipsExactly
  <2> QED BY <2>1, <2>2, AtRest
<1>2. streams = [col \in Columns(t, s) |-> streams[col]]
  BY DEF StreamsAt
<1> QED BY <1>1, <1>2 DEF Skipped

LEMMA FreshIsSkipped ==
  ASSUME NEW s \in Scales, NEW t \in Tables
  PROVE  Streams(t, s) = Skipped(t, s, 0)
<1>1. Streams(t, s) = [col \in Columns(t, s) |-> Streams(t, s)[col]]
  <2>1. \A f, g : Both(f, g) = [col \in DOMAIN Both(f, g) |-> Both(f, g)[col]]
    BY DEF Both
  <2>2. CASE t \in {"orders", "lineitem"}
    BY <2>1, <2>2 DEF Streams, Columns
  <2>3. CASE t = "supplier"
    <3>1. Streams(t, s) = SupplierStreams
      BY <2>3 DEF Streams, OwnStreams
    <3>2. SupplierStreams = [col \in DOMAIN SupplierStreams |-> SupplierStreams[col]]
      BY <2>1 DEF SupplierStreams
    <3> QED BY <3>1, <3>2 DEF Columns
  <2>4. CASE t = "partsupp"
    BY <2>4 DEF Streams, OwnStreams, Columns, PartSuppStreams
  <2>5. CASE t = "customer"
    BY <2>5 DEF Streams, OwnStreams, Columns, CustomerStreams
  <2>6. CASE t = "part"
    BY <2>6 DEF Streams, OwnStreams, Columns, PartStreams
  <2>7. CASE t = "nation"
    BY <2>7 DEF Streams, OwnStreams, Columns, NationStreams
  <2>8. CASE t = "region"
    BY <2>8 DEF Streams, OwnStreams, Columns, RegionStreams
  <2> QED BY <2>2, <2>3, <2>4, <2>5, <2>6, <2>7, <2>8 DEF Tables
<1>2. ASSUME NEW col \in Columns(t, s)
      PROVE  Streams(t, s)[col] = AdvanceRows(Streams(t, s)[col], 0)
  <2>1. Streams(t, s)[col] \in Stream /\ Streams(t, s)[col].usage = 0
    BY ColumnFresh, FreshStream
  <2> QED BY <2>1, FreshColumn
<1> QED BY <1>1, <1>2 DEF Skipped

-----------------------------------------------------------------------------
(* The row iterators and their streams.                                     *)

\* What a draw of the 31-bit generator stands for is below the number of choices.
LEMMA ShareOf ==
  ASSUME NEW x \in Residues, NEW n \in Nat \ {0}
  PROVE  x * n \in Nat /\ (x * n) \div Modulus \in 0..(n - 1)
<1>1. PICK m \in Nat \ {0} : m = Modulus
  BY RandsAssumption
<1>2. PICK y \in 0..(m - 1) : y = x
  BY <1>1 DEF Residues
<1>3. PICK p \in Nat : p = y * n
  OBVIOUS
<1>4. PICK q \in Nat : q = p \div m /\ m * q <= p
  BY <1>1, <1>3, Division
<1>5. q < n
  <2>1. p < m * n
    BY <1>3
  <2>2. ASSUME q >= n PROVE m * q >= m * n
    BY <1>1, <1>4, <2>2
  <2> QED BY <1>1, <1>3, <1>4, <2>1, <2>2
<1> QED BY <1>1, <1>2, <1>3, <1>4, <1>5

\* A value is within its limits.
LEMMA ValueInRange ==
  ASSUME NEW r, r.seed \in Residues, NEW lo \in Int, NEW hi \in Int, lo <= hi
  PROVE  ValueIn(r, lo, hi) \in lo..hi
<1>1. PICK n \in Nat \ {0} : n = hi - lo + 1
  OBVIOUS
<1>2. PICK x \in Residues : x = r.seed
  OBVIOUS
<1>3. PICK q \in 0..(n - 1) : q = (x * n) \div Modulus
  BY ShareOf
<1>4. ValueIn(r, lo, hi) = lo + q
  BY <1>1, <1>2, <1>3 DEF ValueIn
<1> QED BY <1>1, <1>4

\* So is a key, of either generator, when the machine's integers hold the limit.
LEMMA KeyInRange ==
  ASSUME NEW r \in Stream, ~r.wide => r.seed \in Residues, NEW max_key \in 1..MaxInt
  PROVE  KeyIn(r, max_key) \in 1..max_key
<1>1. r.seed \in Int /\ r.wide \in BOOLEAN
  BY StreamFields
<1>2. ToInt(max_key) = max_key /\ max_key \in Nat \ {0} /\ MaxInt \in Int
  <2>1. MaxInt \in Int
    BY RandsAssumption DEF MaxInt
  <2> QED BY <2>1, ToIntFits
<1>3. CASE r.wide
  <2>1. PICK x \in Nat : x = Magnitude(r.seed)
    BY <1>1 DEF Magnitude
  <2>2. x % max_key \in 0..(max_key - 1)
    BY <1>2, <2>1, Division
  <2>3. KeyIn(r, max_key) = 1 + (x % max_key)
    BY <1>3, <2>1 DEF KeyIn
  <2> QED BY <1>2, <2>2, <2>3
<1>4. CASE ~r.wide
  <2>1. PICK x \in Residues : x = r.seed
    BY <1>4
  <2>2. PICK p \in Nat : p = x * max_key /\ p \div Modulus \in 0..(max_key - 1)
    BY <1>2, <2>1, ShareOf
  <2>3. PICK q \in 0..(max_key - 1) : q = p \div Modulus
    BY <2>2
  <2>4. Quotient(p, Modulus) = q
    BY <2>2, <2>3 DEF Quotient
  <2>5. KeyIn(r, max_key) = ToInt(1 + q)
    BY <1>2, <1>4, <2>1, <2>2, <2>4 DEF KeyIn
  <2>6. 1 + q \in 0..MaxInt
    BY <1>2, <2>3
  <2>7. ToInt(1 + q) = 1 + q
    BY <2>6, ToIntFits
  <2> QED BY <1>2, <2>3, <2>5, <2>7
<1> QED BY <1>1, <1>3, <1>4

\* How much of a row the rows of line numbers below line have drawn.
Used(t, line, col) ==
  CASE t = "partsupp" -> line * DrawsPerValue(t, col)
    [] t = "lineitem" -> IF col \in OrderColumns THEN 1 ELSE line * DrawsPerValue(t, col)
    [] OTHER -> 0

\* The iterator is somewhere in its unit, and so are its streams.
IteratorAt(t, s, it, S) ==
  /\ IsIterator(it) /\ it.scale_factor = s
  /\ StreamsAt(t, s, it.index, it.streams, S)
  /\ \A col \in Columns(t, s) : it.streams[col].usage <= Used(t, it.line, col)
  /\ t = "lineitem" =>
       it.line_count \in 0..6 /\ it.line <= it.line_count + 1 /\ (~Done(it) => it.line <= it.line_count)
  /\ t = "partsupp" => it.line < 4
  /\ t \in OneRowTables => it.line = 0
  /\ t # "lineitem" => it.line_count = 0 /\ it.order_date = 0
  /\ t # "nation" => it.region_cum_sum = 0
  /\ t = "nation" /\ it.index <= Len(NationWeights) => it.region_cum_sum = RegionSum(it.index)

\* What the tables of one row to a unit draw for it.
LEMMA TakeOne ==
  ASSUME NEW S, ClosedSeeds(S), NEW s \in Scales, NEW t \in Tables, NEW k \in Nat,
         NEW streams, StreamsAt(t, s, k, streams, S), AtRestAll(t, s, streams),
         NEW n, \A col \in Columns(t, s) : n[col] \in 0..UnitValues(t, col)
  PROVE  /\ StreamsAt(t, s, k, TakeValues(t, streams, n), S)
         /\ \A col \in Columns(t, s) : TakeValues(t, streams, n)[col].usage <= Need(t, col)
<1>1. ASSUME NEW col \in Columns(t, s) PROVE n[col] \in Nat /\ UnitValues(t, col) \in Nat
  BY DEF UnitValues, LineCountMax, SuppliersPerPart
<1>2. /\ StreamsAt(t, s, k, TakeValues(t, streams, n), S)
      /\ \A col \in Columns(t, s) :
           TakeValues(t, streams, n)[col].usage = streams[col].usage + n[col] * DrawsPerValue(t, col)
  BY <1>1, TakeAt
<1>3. ASSUME NEW col \in Columns(t, s) PROVE TakeValues(t, streams, n)[col].usage <= Need(t, col)
  <2>1. PICK d \in 1..5 : d = DrawsPerValue(t, col)
    BY DrawsPerValues
  <2>2. PICK u \in Nat : u = UnitValues(t, col)
    BY <1>1
  <2>3. PICK x \in 0..u : x = n[col]
    BY <2>2
  <2>4. TakeValues(t, streams, n)[col].usage = x * d
    BY <1>2, <2>1, <2>3 DEF AtRestAll
  <2>5. Need(t, col) = u * d
    BY <2>1, <2>2 DEF Need
  <2>6. x * d <= u * d
    BY <2>1
  <2> QED BY <2>4, <2>5, <2>6
<1> QED BY <1>2, <1>3

\* The columns that are of the 31-bit generator at every scale.
LEMMA NeverWide ==
  ASSUME NEW s \in Scales, NEW t \in {"orders", "lineitem"}, NEW k, NEW S, ClosedSeeds(S),
         NEW streams, StreamsAt(t, s, k, streams, S),
         NEW col \in Columns(t, s), col \in OrderColumns \/ col = "supplier_number"
  PROVE  streams[col].seed \in Residues
<1>1. t \in Tables
  BY DEF Tables
<1>2. ~Streams(t, s)[col].wide
  <2>1. CASE col \in OrderColumns
    BY <1>1, <2>1, ColumnForm
  <2>2. CASE col = "supplier_number"
    <3>1. col \notin OrderColumns /\ col \notin LineColumns
      BY <2>2 DEF OrderColumns, LineColumns
    <3>2. col \in DOMAIN OwnStreams(t, s) /\ Streams(t, s)[col] = OwnStreams(t, s)[col]
      BY <3>1, SharedColumns
    <3>3. t = "lineitem"
      BY <2>2, <3>2 DEF OwnStreams, OrdersStreams
    <3>4. Streams(t, s)[col] = Random(2095021727, LineCountMax)
      BY <2>2, <3>2, <3>3 DEF OwnStreams, LineitemStreams
    <3> QED BY <3>4 DEF Random, RowRandom
  <2> QED BY <2>1, <2>2
<1>3. streams[col].wide = Streams(t, s)[col].wide /\ (~streams[col].wide => streams[col].seed \in S)
  BY DEF StreamsAt, At, Of
<1> QED BY <1>2, <1>3 DEF ClosedSeeds

\* The next value of a column that is not of the 64-bit generator.
LEMMA LineCounts ==
  ASSUME NEW S, ClosedSeeds(S), NEW s \in Scales, NEW t \in {"orders", "lineitem"}, NEW k \in Nat,
         NEW streams, StreamsAt(t, s, k, streams, S)
  PROVE  LineCountOf(streams) \in 1..7
<1>1. "line_count" \in Columns(t, s)
  BY SharedColumns DEF OrderColumns
<1>2. streams["line_count"].seed \in Residues
  BY <1>1, NeverWide DEF OrderColumns
<1>3. ValueIn(streams["line_count"], 1, 7) \in 1..7
  <2>1. 1 \in Int /\ 7 \in Int /\ 1 <= 7
    OBVIOUS
  <2> QED BY <1>2, <2>1, ValueInRange
<1> QED BY <1>3 DEF LineCountOf, LineCountMax

LEMMA RestOfOneRow ==
  ASSUME NEW S, NEW s, NEW t \in OneRowTables, NEW it, IteratorAt(t, s, it, S)
  PROVE  AtRestAll(t, s, it.streams)
<1>1. ASSUME NEW col \in Columns(t, s) PROVE it.streams[col].usage = 0
  <2>1. it.streams[col].usage \in Nat
    BY StreamFields DEF IteratorAt, StreamsAt, At, Of
  <2>2. Used(t, it.line, col) = 0
    BY DEF Used, OneRowTables
  <2> QED BY <2>1, <2>2 DEF IteratorAt
<1> QED BY <1>1 DEF AtRestAll

\* What a row of a table of one row to a unit leaves in the iterator.
LEMMA OneRowFields ==
  ASSUME NEW it, IsIterator(it), NEW drawn, NEW key
  PROVE  LET next == OneRow(it, drawn, key)
         IN  /\ next.iter.streams = FinishRow(drawn)
             /\ next.iter.line_count = it.line_count /\ next.iter.order_date = it.order_date
             /\ next.iter.region_cum_sum = it.region_cum_sum
<1> DEFINE streams == FinishRow(drawn)
           columns == [s \in DOMAIN drawn |-> IF drawn[s] = it.streams[s] THEN 0 ELSE drawn[s].seed]
           next == OneRow(it, drawn, key)
<1>1. next = [iter |-> [it EXCEPT !.streams = streams, !.index = @ + 1], row |-> [key |-> key, columns |-> columns]]
  BY DEF OneRow
<1> HIDE DEF streams, columns, next
<1>2. next.iter = [it EXCEPT !.streams = streams, !.index = @ + 1]
  BY <1>1
<1>3. /\ next.iter.streams = streams
      /\ next.iter.line_count = it.line_count /\ next.iter.order_date = it.order_date
      /\ next.iter.region_cum_sum = it.region_cum_sum
  BY <1>2 DEF IsIterator, IteratorFields
<1> QED BY <1>3 DEF next, streams

LEMMA OneRowDraws ==
  ASSUME NEW S, ClosedSeeds(S), NEW s \in Scales, NEW t \in OneRowTables, NEW it, IteratorAt(t, s, it, S)
  PROVE  \E drawn :
           /\ StreamsAt(t, s, it.index, drawn, S)
           /\ \A col \in Columns(t, s) : drawn[col].usage <= Need(t, col)
           /\ LET next == NextRow(t, it)
              IN  /\ next.iter.streams = FinishRow(drawn)
                  /\ next.iter.line_count = it.line_count /\ next.iter.order_date = it.order_date
                  /\ next.iter.region_cum_sum = IF t = "nation" THEN it.region_cum_sum + NationWeights[it.index + 1]
                                                ELSE it.region_cum_sum
<1>1. /\ IsIterator(it) /\ it.index \in Nat /\ it.scale_factor = s /\ t \in Tables
      /\ StreamsAt(t, s, it.index, it.streams, S) /\ AtRestAll(t, s, it.streams)
  BY RestOfOneRow DEF IteratorAt, IsIterator, OneRowTables, Tables
<1>2. DOMAIN it.streams = Columns(t, s)
  BY <1>1 DEF StreamsAt
<1>3. ASSUME NEW col PROVE UnitValues(t, col) \in Nat /\ 1 \in 0..UnitValues(t, col) /\ 0 \in 0..UnitValues(t, col)
  BY DEF UnitValues, LineCountMax, SuppliersPerPart
<1>4. CASE t \in {"customer", "part", "region", "nation"}
  <2> DEFINE drawn == TakeValues(t, it.streams, Same(it.streams, 1))
  <2>1. \A col \in Columns(t, s) : Same(it.streams, 1)[col] \in 0..UnitValues(t, col)
    BY <1>2, <1>3 DEF Same
  <2>2. /\ StreamsAt(t, s, it.index, drawn, S)
        /\ \A col \in Columns(t, s) : drawn[col].usage <= Need(t, col)
    BY <1>1, <2>1, TakeOne
  <2>3. CASE t = "customer"
    <3>1. NextRow(t, it) = OneRow(it, drawn, ToInt(it.index + 1))
      BY <2>3 DEF NextRow, NextCustomer
    <3> HIDE DEF drawn
    <3> QED BY <1>1, <2>2, <2>3, <3>1, OneRowFields
  <2>4. CASE t = "part"
    <3>1. NextRow(t, it) = OneRow(it, drawn, ToInt(it.index + 1))
      BY <2>4 DEF NextRow, NextPart
    <3> HIDE DEF drawn
    <3> QED BY <1>1, <2>2, <2>4, <3>1, OneRowFields
  <2>5. CASE t = "region"
    <3>1. NextRow(t, it) = OneRow(it, drawn, it.index)
      BY <2>5 DEF NextRow, NextRegion
    <3> HIDE DEF drawn
    <3> QED BY <1>1, <2>2, <2>5, <3>1, OneRowFields
  <2>6. CASE t = "nation"
    <3> DEFINE region == it.region_cum_sum + NationWeights[it.index + 1]
    <3>1. NextRow(t, it) = [OneRow(it, drawn, it.index)
                              EXCEPT !.iter.region_cum_sum = region,
                                     !.row = [key |-> @.key, region |-> region, columns |-> @.columns]]
      BY <2>6 DEF NextRow, NextNation
    <3>2. PICK one : one = OneRow(it, drawn, it.index)
      OBVIOUS
    <3> HIDE DEF drawn
    <3>3. /\ IsIterator(one.iter)
          /\ one.iter.streams = FinishRow(drawn)
          /\ one.iter.line_count = it.line_count /\ one.iter.order_date = it.order_date
      BY <1>1, <3>2, OneRowFields, OneRowPlace
    <3>4. DOMAIN one = {"iter", "row"}
      BY <3>2 DEF OneRow
    <3> HIDE DEF region
    <3>5. NextRow(t, it).iter = [one.iter EXCEPT !.region_cum_sum = region]
      BY <3>1, <3>2, <3>4
    <3>6. /\ NextRow(t, it).iter.streams = FinishRow(drawn)
          /\ NextRow(t, it).iter.line_count = it.line_count /\ NextRow(t, it).iter.order_date = it.order_date
          /\ NextRow(t, it).iter.region_cum_sum = region
      BY <3>3, <3>5 DEF IsIterator, IteratorFields
    <3> QED BY <2>2, <2>6, <3>6 DEF region
  <2> QED BY <1>4, <2>3, <2>4, <2>5, <2>6
<1>5. CASE t = "supplier"
  <2> DEFINE n == [col \in DOMAIN it.streams |-> IF col \in DOMAIN BbbStreams THEN 0 ELSE 1]
             drawn == TakeValues("supplier", it.streams, n)
             m == [col \in DOMAIN drawn |-> IF col \in DOMAIN BbbStreams THEN 1 ELSE 0]
             more == TakeValues("supplier", drawn, m)
             all == IF ValueIn(drawn.bbb_comment, 1, 10000) <= BbbComments THEN ApplyBBBComment(drawn) ELSE drawn
  <2>1. /\ StreamsAt(t, s, it.index, drawn, S)
        /\ \A col \in Columns(t, s) : drawn[col].usage <= Need(t, col)
    <3>1. \A col \in Columns(t, s) : n[col] \in 0..UnitValues(t, col)
      BY <1>2, <1>3
    <3> HIDE DEF n
    <3> QED BY <1>1, <1>5, <3>1, TakeOne
  <2>2. \A col \in Columns(t, s) : drawn[col].usage = it.streams[col].usage + n[col] * DrawsPerValue(t, col)
    <3>1. \A col \in Columns(t, s) : n[col] \in Nat
      BY <1>2
    <3> HIDE DEF n
    <3> QED BY <1>1, <1>5, <3>1, TakeAt
  <2>3. DOMAIN drawn = Columns(t, s)
    BY <1>2 DEF TakeValues
  <2>4. /\ StreamsAt(t, s, it.index, more, S)
        /\ \A col \in Columns(t, s) : more[col].usage <= Need(t, col)
    <3>1. \A col \in Columns(t, s) : m[col] \in Nat
      BY <2>3
    <3>2. /\ StreamsAt(t, s, it.index, more, S)
          /\ \A col \in Columns(t, s) : more[col].usage = drawn[col].usage + m[col] * DrawsPerValue(t, col)
      <4> HIDE DEF m, drawn
      <4> QED BY <1>1, <1>5, <2>1, <3>1, TakeAt
    <3>3. ASSUME NEW col \in Columns(t, s)
          PROVE  more[col].usage <= Need(t, col)
      <4>1. PICK d \in 1..5 : d = DrawsPerValue(t, col)
        BY DrawsPerValues
      <4>2. it.streams[col].usage = 0 /\ Need(t, col) >= d /\ Need(t, col) \in Nat
        BY <1>1, <4>1, Needs DEF AtRestAll
      <4>3. CASE col \in DOMAIN BbbStreams
        <5>1. n[col] = 0 /\ m[col] = 1
          BY <1>2, <2>3, <4>3
        <5> HIDE DEF n, m, drawn, more
        <5>2. drawn[col].usage = 0 /\ more[col].usage = d
          BY <2>2, <3>2, <4>1, <4>2, <5>1
        <5> QED BY <4>1, <4>2, <5>2
      <4>4. CASE col \notin DOMAIN BbbStreams
        <5>1. n[col] = 1 /\ m[col] = 0
          BY <1>2, <2>3, <4>4
        <5> HIDE DEF n, m, drawn, more
        <5>2. drawn[col].usage = d /\ more[col].usage = d
          BY <2>2, <3>2, <4>1, <4>2, <5>1
        <5> QED BY <4>1, <4>2, <5>2
      <4> QED BY <4>3, <4>4
    <3> QED BY <3>2, <3>3
  <2>5. all \in {drawn, more}
    BY DEF ApplyBBBComment
  <2>6. NextRow(t, it) = OneRow(it, all, ToInt(it.index + 1))
    BY <1>5 DEF NextRow, NextSupplier
  <2>7. PICK x : /\ NextRow(t, it) = OneRow(it, x, ToInt(it.index + 1))
                 /\ StreamsAt(t, s, it.index, x, S)
                 /\ \A col \in Columns(t, s) : x[col].usage <= Need(t, col)
    <3> HIDE DEF drawn, more, all
    <3> QED BY <2>1, <2>4, <2>5, <2>6
  <2> QED BY <1>1, <1>5, <2>7, OneRowFields
<1>6. CASE t = "orders"
  <2> DEFINE first == TakeValues("orders", it.streams, Same(it.streams, 1))
             line_count == LineCountOf(first)
             n == [col \in DOMAIN it.streams |-> IF col \in DOMAIN LineStreams(it.scale_factor) THEN line_count ELSE 1]
             drawn == TakeValues("orders", it.streams, n)
  <2>1. StreamsAt(t, s, it.index, first, S)
    <3>1. \A col \in Columns(t, s) : Same(it.streams, 1)[col] \in 0..UnitValues(t, col)
      BY <1>2, <1>3 DEF Same
    <3> QED BY <1>1, <1>6, <3>1, TakeOne
  <2>2. line_count \in 1..7
    <3> HIDE DEF first
    <3> QED BY <1>1, <1>6, <2>1, LineCounts
  <2>3. \A col \in Columns(t, s) : n[col] \in 0..UnitValues(t, col)
    <3> HIDE DEF line_count
    <3>1. DOMAIN LineStreams(it.scale_factor) = LineColumns
      BY <1>1, LineStreamsFresh
    <3>2. \A col \in LineColumns : UnitValues(t, col) = 7
      BY <1>6 DEF UnitValues, LineCountMax
    <3> QED BY <1>2, <1>3, <2>2, <3>1, <3>2
  <2>4. /\ StreamsAt(t, s, it.index, drawn, S)
        /\ \A col \in Columns(t, s) : drawn[col].usage <= Need(t, col)
    <3> HIDE DEF n
    <3> QED BY <1>1, <1>6, <2>3, TakeOne
  <2>5. NextRow(t, it).iter = [it EXCEPT !.streams = FinishRow(drawn), !.index = @ + 1]
    BY <1>6, ZenonT(60) DEF NextRow, NextOrder
  <2> HIDE DEF drawn
  <2>6. /\ NextRow(t, it).iter.streams = FinishRow(drawn)
        /\ NextRow(t, it).iter.line_count = it.line_count /\ NextRow(t, it).iter.order_date = it.order_date
        /\ NextRow(t, it).iter.region_cum_sum = it.region_cum_sum
    BY <1>1, <2>5 DEF IsIterator, IteratorFields
  <2> QED BY <1>6, <2>4, <2>6
<1> QED BY <1>4, <1>5, <1>6 DEF OneRowTables

\* The sums of the weights of the nations: their regions.
Regions == <<0, 0, 1, 1, 1, 4, 0, 3, 3, 2, 2, 4, 4, 2, 4, 0, 0, 0, 1, 2, 3, 4, 2, 3, 3, 1>>

LEMMA RegionWeights ==
  /\ Len(NationWeights) = 25
  /\ \A i \in 1..25 : Regions[i + 1] = Regions[i] + NationWeights[i] /\ NationWeights[i] \in Int
  /\ \A i \in 0..25 : Regions[i + 1] \in 0..4
<1>1. Len(NationWeights) = 25
  BY DEF NationWeights
<1>2. ASSUME NEW i \in 1..25 PROVE Regions[i + 1] = Regions[i] + NationWeights[i] /\ NationWeights[i] \in Int
  BY DEF NationWeights, Regions
<1>3. ASSUME NEW i \in 0..25 PROVE Regions[i + 1] \in 0..4
  BY DEF Regions
<1> QED BY <1>1, <1>2, <1>3

LEMMA RegionSumForm == ASSUME NEW n \in 0..25 PROVE RegionSum(n) = Regions[n + 1]
<1> DEFINE IsSum(f) == f = [i \in 0..n |-> IF i = 0 THEN 0 ELSE f[i - 1] + NationWeights[i]]
           f == CHOOSE g : IsSum(g)
           regions == [i \in 0..n |-> Regions[i + 1]]
<1>1. IsSum(regions)
  <2>1. ASSUME NEW i \in 0..n
        PROVE  regions[i] = IF i = 0 THEN 0 ELSE regions[i - 1] + NationWeights[i]
    <3>1. CASE i = 0
      BY <3>1 DEF Regions
    <3>2. CASE i # 0
      <4>1. i \in 1..25 /\ i - 1 \in 0..n
        BY <3>2
      <4>2. Regions[i + 1] = Regions[i] + NationWeights[i]
        BY <4>1, RegionWeights
      <4>3. regions[i] = Regions[i + 1] /\ regions[i - 1] = Regions[i]
        <5>1. (i - 1) + 1 = i
          BY <4>1
        <5> QED BY <4>1, <5>1
      <4> QED BY <3>2, <4>2, <4>3
    <3> QED BY <3>1, <3>2
  <2> QED BY <2>1
<1>2. IsSum(f)
  <2> HIDE DEF IsSum, regions
  <2> QED BY <1>1
<1>3. RegionSum(n) = f[n]
  BY DEF RegionSum
<1> HIDE DEF f
<1> DEFINE R == {i \in Nat : i <= n => f[i] = Regions[i + 1]}
<1>4. 0 \in R
  BY <1>2 DEF Regions
<1>5. ASSUME NEW i \in Nat, i \in R PROVE i + 1 \in R
  <2>1. CASE i + 1 <= n
    <3>1. PICK j \in 1..25 : j = i + 1 /\ j \in 0..n /\ j # 0 /\ j - 1 = i
      BY <2>1
    <3>2. f[j] = f[j - 1] + NationWeights[j]
      BY <1>2, <3>1
    <3>3. f[j - 1] = Regions[j]
      BY <1>5, <3>1
    <3>4. Regions[j + 1] = Regions[j] + NationWeights[j]
      BY RegionWeights
    <3> QED BY <3>1, <3>2, <3>3, <3>4
  <2>2. CASE ~(i + 1 <= n)
    BY <2>2
  <2> QED BY <2>1, <2>2
<1>6. n \in R
  <2> HIDE DEF R
  <2> QED BY <1>4, <1>5, Induction
<1> QED BY <1>3, <1>6

LEMMA OneRowAt ==
  ASSUME NEW S, ClosedSeeds(S), NEW s \in Scales, NEW t \in OneRowTables, NEW it, IteratorAt(t, s, it, S)
  PROVE  IteratorAt(t, s, NextRow(t, it).iter, S)
<1>1. /\ IsIterator(it) /\ it.index \in Nat /\ it.scale_factor = s /\ t \in Tables /\ it.line = 0
      /\ t # "lineitem" /\ t # "partsupp"
      /\ it.line_count = 0 /\ it.order_date = 0 /\ (t # "nation" => it.region_cum_sum = 0)
  BY DEF IteratorAt, IsIterator, OneRowTables, Tables
<1>2. PICK drawn :
        /\ StreamsAt(t, s, it.index, drawn, S)
        /\ \A col \in Columns(t, s) : drawn[col].usage <= Need(t, col)
        /\ NextRow(t, it).iter.streams = FinishRow(drawn)
        /\ NextRow(t, it).iter.line_count = it.line_count /\ NextRow(t, it).iter.order_date = it.order_date
        /\ NextRow(t, it).iter.region_cum_sum = IF t = "nation" THEN it.region_cum_sum + NationWeights[it.index + 1]
                                                ELSE it.region_cum_sum
  BY OneRowDraws
<1>3. PICK next : next = NextRow(t, it).iter
  OBVIOUS
<1>4. /\ IsIterator(next) /\ next.scale_factor = s /\ next.index = it.index + 1 /\ next.line = 0
  BY <1>1, <1>3, NextOneRow
<1>5. StreamsAt(t, s, it.index + 1, FinishRow(drawn), S) /\ AtRestAll(t, s, FinishRow(drawn))
  BY <1>1, <1>2, FinishAt
<1>6. \A col \in Columns(t, s) : next.streams[col].usage <= Used(t, next.line, col)
  BY <1>1, <1>2, <1>3, <1>5 DEF AtRestAll, Used
<1>7. ASSUME t = "nation", next.index <= Len(NationWeights)
      PROVE  next.region_cum_sum = RegionSum(next.index)
  <2>7. Len(NationWeights) = 25
    BY RegionWeights
  <2>1. it.index \in 0..24 /\ it.index + 1 \in 1..25
    BY <1>1, <1>4, <1>7, <2>7
  <2>2. it.region_cum_sum = RegionSum(it.index)
    BY <1>7, <2>1, <2>7 DEF IteratorAt
  <2>3. RegionSum(it.index) = Regions[it.index + 1]
    BY <2>1, RegionSumForm
  <2>4. PICK j \in 1..25 : j = it.index + 1
    BY <2>1
  <2>5. RegionSum(j) = Regions[j + 1]
    BY RegionSumForm
  <2>6. Regions[j + 1] = Regions[j] + NationWeights[j]
    BY RegionWeights
  <2> QED BY <1>2, <1>3, <1>4, <1>7, <2>2, <2>3, <2>4, <2>5, <2>6
<1> QED BY <1>1, <1>2, <1>3, <1>4, <1>5, <1>6, <1>7 DEF IteratorAt

-----------------------------------------------------------------------------
(* partsupp: four rows to a part.                                           *)

LEMMA PartSuppAt ==
  ASSUME NEW S, ClosedSeeds(S), NEW s \in Scales, NEW it, IteratorAt("partsupp", s, it, S)
  PROVE  IteratorAt("partsupp", s, NextRow("partsupp", it).iter, S)
<1> DEFINE t == "partsupp"
           drawn == TakeValues(t, it.streams, Same(it.streams, 1))
<1>1. /\ IsIterator(it) /\ it.index \in Nat /\ it.scale_factor = s /\ t \in Tables /\ it.line \in 0..3
      /\ StreamsAt(t, s, it.index, it.streams, S)
      /\ it.line_count = 0 /\ it.order_date = 0 /\ it.region_cum_sum = 0
  BY DEF IteratorAt, IsIterator, Tables
<1>2. DOMAIN it.streams = Columns(t, s)
  BY <1>1 DEF StreamsAt
<1>3. \A col \in Columns(t, s) : Same(it.streams, 1)[col] = 1
  BY <1>2 DEF Same
<1>4. /\ StreamsAt(t, s, it.index, drawn, S)
      /\ \A col \in Columns(t, s) : drawn[col].usage <= Used(t, it.line + 1, col)
  <2>1. /\ StreamsAt(t, s, it.index, drawn, S)
        /\ \A col \in Columns(t, s) : drawn[col].usage = it.streams[col].usage + 1 * DrawsPerValue(t, col)
    <3>1. \A col \in Columns(t, s) : Same(it.streams, 1)[col] \in Nat
      BY <1>3
    <3> HIDE DEF t
    <3> QED BY <1>1, <1>3, <3>1, TakeAt
  <2> HIDE DEF drawn
  <2>2. ASSUME NEW col \in Columns(t, s) PROVE drawn[col].usage <= Used(t, it.line + 1, col)
    <3>1. PICK d \in 1..5 : d = DrawsPerValue(t, col)
      BY DrawsPerValues
    <3>2. it.streams[col].usage \in Nat /\ it.streams[col].usage <= it.line * d
      BY <3>1, StreamFields DEF IteratorAt, Used, StreamsAt, At, Of
    <3>3. Used(t, it.line + 1, col) = (it.line + 1) * d
      BY <3>1 DEF Used
    <3>4. (it.line + 1) * d = it.line * d + d
      BY <1>1
    <3> QED BY <1>1, <2>1, <3>1, <3>2, <3>3, <3>4
  <2> QED BY <2>1, <2>2
<1>5. PICK moved : moved = [it EXCEPT !.streams = drawn, !.line = @ + 1]
  OBVIOUS
<1>6. PICK next : next = NextRow(t, it).iter
  OBVIOUS
<1>7. next = IF moved.line >= SuppliersPerPart
             THEN [moved EXCEPT !.streams = FinishRow(drawn), !.line = 0, !.index = @ + 1] ELSE moved
  BY <1>5, <1>6 DEF NextRow, NextPartSupp
<1> HIDE DEF drawn
<1>8. /\ DOMAIN moved = IteratorFields /\ moved.line = it.line + 1 /\ moved.index = it.index /\ moved.end = it.end
      /\ moved.streams = drawn /\ moved.scale_factor = s /\ moved.line_count = 0 /\ moved.order_date = 0
      /\ moved.region_cum_sum = 0
  BY <1>1, <1>5 DEF IsIterator, IteratorFields
<1>9. CASE it.line + 1 >= 4
  <2>1. next = [moved EXCEPT !.streams = FinishRow(drawn), !.line = 0, !.index = @ + 1]
    BY <1>7, <1>8, <1>9 DEF SuppliersPerPart
  <2>2. /\ DOMAIN next = IteratorFields /\ next.line = 0 /\ next.index = it.index + 1 /\ next.end = it.end
        /\ next.streams = FinishRow(drawn) /\ next.scale_factor = s /\ next.line_count = 0
        /\ next.order_date = 0 /\ next.region_cum_sum = 0
    BY <1>8, <2>1 DEF IteratorFields
  <2>3. IsIterator(next)
    BY <1>1, <2>2 DEF IsIterator
  <2>4. \A col \in Columns(t, s) : drawn[col].usage <= Need(t, col)
    <3>1. \A col : Used(t, 4, col) = Need(t, col)
      BY DEF Used, Need, UnitValues, SuppliersPerPart
    <3>2. it.line + 1 = 4
      BY <1>1, <1>9
    <3> QED BY <1>4, <3>1, <3>2
  <2>5. StreamsAt(t, s, it.index + 1, FinishRow(drawn), S) /\ AtRestAll(t, s, FinishRow(drawn))
    <3> HIDE DEF t
    <3> QED BY <1>1, <1>4, <2>4, FinishAt
  <2>6. \A col \in Columns(t, s) : next.streams[col].usage <= Used(t, next.line, col)
    <3>1. \A col : Used(t, 0, col) = 0
      <4>1. \A col : DrawsPerValue(t, col) \in 1..5
        BY DrawsPerValues
      <4> QED BY <4>1 DEF Used
    <3> QED BY <2>2, <2>5, <3>1 DEF AtRestAll
  <2> QED BY <1>6, <2>2, <2>3, <2>5, <2>6 DEF IteratorAt, OneRowTables
<1>10. CASE ~(it.line + 1 >= 4)
  <2>1. next = moved
    BY <1>7, <1>8, <1>10 DEF SuppliersPerPart
  <2>2. IsIterator(next)
    BY <1>1, <1>8, <2>1 DEF IsIterator
  <2> QED BY <1>1, <1>4, <1>6, <1>8, <1>10, <2>1, <2>2 DEF IteratorAt, OneRowTables
<1> QED BY <1>9, <1>10

-----------------------------------------------------------------------------
(* lineitem: an order is drawn, then its lines.                             *)

\* An iterator of lineitem between two orders.
BetweenOrders(s, it, S) ==
  /\ IsIterator(it) /\ it.scale_factor = s /\ it.region_cum_sum = 0
  /\ StreamsAt("lineitem", s, it.index, it.streams, S) /\ AtRestAll("lineitem", s, it.streams)

LEMMA LineitemColumn ==
  ASSUME NEW s \in Scales, NEW col, NEW line \in Nat
  PROVE  /\ DrawsPerValue("lineitem", col) \in 1..5
         /\ col \in OrderColumns => DrawsPerValue("lineitem", col) = 1
         /\ col \in DOMAIN OrderStreams <=> col \in OrderColumns
         /\ Used("lineitem", line, col) \in Nat
         /\ line <= 7 => Used("lineitem", line, col) <= Need("lineitem", col)
<1>1. PICK d \in 1..5 : d = DrawsPerValue("lineitem", col)
  BY DrawsPerValues
<1>2. col \in OrderColumns => d = 1
  BY <1>1 DEF OrderColumns, DrawsPerValue
<1>3. DOMAIN OrderStreams = OrderColumns
  BY DEF OrderStreams, OrderColumns
<1>4. Used("lineitem", line, col) = IF col \in OrderColumns THEN 1 ELSE line * d
  BY <1>1 DEF Used
<1>5. Need("lineitem", col) = IF col \in OrderColumns THEN 1 * d ELSE 7 * d
  BY <1>1 DEF Need, UnitValues, LineCountMax
<1>6. PICK m \in Nat : m = line * d
  BY <1>1
<1>7. line <= 7 => m <= 7 * d
  BY <1>1, <1>6
<1>8. CASE col \in OrderColumns
  <2>1. Used("lineitem", line, col) = 1 /\ Need("lineitem", col) = 1
    BY <1>2, <1>4, <1>5, <1>8
  <2> QED BY <1>1, <1>2, <1>3, <1>8, <2>1
<1>9. CASE col \notin OrderColumns
  <2>1. Used("lineitem", line, col) = m /\ Need("lineitem", col) = 7 * d
    BY <1>4, <1>5, <1>6, <1>9
  <2> QED BY <1>1, <1>3, <1>6, <1>7, <1>9, <2>1
<1> QED BY <1>8, <1>9

LEMMA DrawOrderAt ==
  ASSUME NEW S, ClosedSeeds(S), NEW s \in Scales, NEW it, BetweenOrders(s, it, S)
  PROVE  IteratorAt("lineitem", s, DrawOrder(it), S)
<1> DEFINE t == "lineitem"
           n == [col \in DOMAIN it.streams |-> IF col \in DOMAIN OrderStreams THEN 1 ELSE 0]
           drawn == TakeValues(t, it.streams, n)
           next == DrawOrder(it)
<1>1. /\ IsIterator(it) /\ it.index \in Nat /\ it.scale_factor = s /\ t \in Tables /\ it.region_cum_sum = 0
      /\ StreamsAt(t, s, it.index, it.streams, S) /\ AtRestAll(t, s, it.streams)
  BY DEF BetweenOrders, IsIterator, Tables
<1>2. DOMAIN it.streams = Columns(t, s)
  BY <1>1 DEF StreamsAt
<1>3. \A col \in Columns(t, s) : n[col] = IF col \in OrderColumns THEN 1 ELSE 0
  BY <1>2, LineitemColumn
<1>4. next = [it EXCEPT !.streams = drawn, !.line = 0,
                        !.line_count = LineCountOf(drawn) - 1, !.order_date = OrderDateOf(drawn)]
  BY DEF DrawOrder
<1> HIDE DEF next
<1>5. /\ StreamsAt(t, s, it.index, drawn, S)
      /\ \A col \in Columns(t, s) : drawn[col].usage = it.streams[col].usage + n[col] * DrawsPerValue(t, col)
  <2>1. \A col \in Columns(t, s) : n[col] \in Nat
    BY <1>3
  <2> HIDE DEF n, t
  <2> QED BY <1>1, <2>1, TakeAt
<1> HIDE DEF drawn
<1>6. ASSUME NEW col \in Columns(t, s) PROVE drawn[col].usage <= Used(t, 0, col)
  <2>1. PICK d \in 1..5 : d = DrawsPerValue(t, col)
    BY DrawsPerValues
  <2>2. it.streams[col].usage = 0 /\ drawn[col].usage = 0 + n[col] * d
    BY <1>1, <1>5, <2>1 DEF AtRestAll
  <2>3. CASE col \in OrderColumns
    <3>1. n[col] = 1 /\ d = 1 /\ Used(t, 0, col) = 1
      BY <1>3, <2>1, <2>3, LineitemColumn DEF Used
    <3> HIDE DEF n
    <3> QED BY <2>2, <3>1
  <2>4. CASE col \notin OrderColumns
    <3>1. n[col] = 0 /\ Used(t, 0, col) = 0 * d
      BY <1>3, <2>1, <2>4 DEF Used
    <3> HIDE DEF n
    <3> QED BY <2>1, <2>2, <3>1
  <2> QED BY <2>3, <2>4
<1> HIDE DEF n
<1>7. LineCountOf(drawn) \in 1..7
  <2>1. t \in {"orders", "lineitem"}
    OBVIOUS
  <2> HIDE DEF t
  <2> QED BY <1>1, <1>5, <2>1, LineCounts
<1>8. /\ DOMAIN next = IteratorFields /\ next.line = 0 /\ next.index = it.index /\ next.end = it.end
      /\ next.streams = drawn /\ next.scale_factor = s /\ next.line_count = LineCountOf(drawn) - 1
      /\ next.region_cum_sum = 0
  BY <1>1, <1>4 DEF IsIterator, IteratorFields
<1>9. IsIterator(next)
  BY <1>1, <1>8 DEF IsIterator
<1>10. next.line_count \in 0..6 /\ next.line <= next.line_count /\ next.line <= next.line_count + 1
  BY <1>7, <1>8
<1> QED BY <1>5, <1>6, <1>8, <1>9, <1>10 DEF IteratorAt, OneRowTables, next

LEMMA LineitemAt ==
  ASSUME NEW S, ClosedSeeds(S), NEW s \in Scales, NEW it, IteratorAt("lineitem", s, it, S), ~Done(it)
  PROVE  LET next == NextRow("lineitem", it).iter
         IN  /\ IteratorAt("lineitem", s, next, S)
             /\ \E finished :
                  /\ BetweenOrders(s, finished, S)
                  /\ finished.index = it.index + 1 /\ finished.end = it.end
                  /\ next.index = it.index + 1 => next = IF Done(finished) THEN finished ELSE DrawOrder(finished)
<1> DEFINE t == "lineitem"
           n == [col \in DOMAIN it.streams |-> IF col \in DOMAIN OrderStreams THEN 0 ELSE 1]
           all == TakeValues(t, it.streams, n)
<1>1. /\ IsIterator(it) /\ it.index \in Nat /\ it.end \in Nat /\ it.line \in 0..6 /\ it.scale_factor = s /\ t \in Tables
      /\ it.region_cum_sum = 0 /\ it.line_count \in 0..6 /\ it.line <= it.line_count
      /\ StreamsAt(t, s, it.index, it.streams, S)
      /\ \A col \in Columns(t, s) : it.streams[col].usage <= Used(t, it.line, col)
  BY DEF IteratorAt, IsIterator, Tables
<1>2. DOMAIN it.streams = Columns(t, s)
  BY <1>1 DEF StreamsAt
<1>3. \A col \in Columns(t, s) : n[col] = IF col \in OrderColumns THEN 0 ELSE 1
  BY <1>2, LineitemColumn
<1>4. PICK drawn : /\ drawn \in {all, [all EXCEPT !.return_flag = it.streams.return_flag]}
                   /\ LET moved == [it EXCEPT !.streams = drawn, !.line = @ + 1]
                          finished == [moved EXCEPT !.streams = FinishRow(drawn), !.index = @ + 1]
                      IN  NextRow(t, it).iter = CASE moved.line <= it.line_count -> moved
                                                  [] moved.line > it.line_count /\ ~Done(finished) -> DrawOrder(finished)
                                                  [] OTHER -> finished
  BY DEF NextRow, NextLineitem
<1>5. /\ StreamsAt(t, s, it.index, all, S)
      /\ \A col \in Columns(t, s) : all[col].usage = it.streams[col].usage + n[col] * DrawsPerValue(t, col)
  <2>1. \A col \in Columns(t, s) : n[col] \in Nat
    BY <1>3
  <2> HIDE DEF n, t
  <2> QED BY <1>1, <2>1, TakeAt
<1> HIDE DEF all
<1>6. ASSUME NEW col \in Columns(t, s)
      PROVE  /\ all[col].usage <= Used(t, it.line + 1, col)
             /\ it.streams[col].usage <= Used(t, it.line + 1, col)
  <2>1. PICK d \in 1..5 : d = DrawsPerValue(t, col)
    BY DrawsPerValues
  <2>2. PICK u \in Nat : u = it.streams[col].usage /\ u <= Used(t, it.line, col)
    BY <1>1, StreamFields DEF StreamsAt, At, Of
  <2>3. all[col].usage = u + n[col] * d
    BY <1>5, <2>1, <2>2
  <2>4. CASE col \in OrderColumns
    <3>1. n[col] = 0 /\ Used(t, it.line, col) = 1 /\ Used(t, it.line + 1, col) = 1
      BY <1>3, <2>4 DEF Used
    <3> HIDE DEF n
    <3> QED BY <2>1, <2>2, <2>3, <3>1
  <2>5. CASE col \notin OrderColumns
    <3>3. PICK m \in Nat : m = it.line * d
      BY <1>1
    <3>2. (it.line + 1) * d = m + d
      BY <1>1, <3>3
    <3>1. n[col] = 1 /\ Used(t, it.line, col) = m /\ Used(t, it.line + 1, col) = m + d
      BY <1>3, <2>1, <2>5, <3>2, <3>3 DEF Used
    <3>4. u <= m
      BY <2>2, <3>1
    <3> HIDE DEF n, t
    <3>5. all[col].usage = u + d
      BY <2>1, <2>2, <2>3, <3>1
    <3> QED BY <2>1, <2>2, <3>1, <3>3, <3>4, <3>5
  <2> QED BY <2>4, <2>5
<1> HIDE DEF n
<1>7. /\ StreamsAt(t, s, it.index, drawn, S)
      /\ \A col \in Columns(t, s) : drawn[col].usage <= Used(t, it.line + 1, col)
  <2>1. CASE drawn = all
    BY <1>5, <1>6, <2>1
  <2>2. CASE drawn = [all EXCEPT !.return_flag = it.streams.return_flag]
    <3>1. all = [col \in Columns(t, s) |-> all[col]]
      BY <1>5 DEF StreamsAt
    <3>2. drawn = [col \in Columns(t, s) |-> IF col = "return_flag" THEN it.streams[col] ELSE all[col]]
      BY <2>2, <3>1
    <3>3. drawn = [col \in Columns(t, s) |-> drawn[col]]
      BY <3>2
    <3>4. \A col \in Columns(t, s) : drawn[col] \in {it.streams[col], all[col]}
      BY <3>2
    <3>5. /\ \A col \in Columns(t, s) : At(Streams(t, s)[col], it.index, drawn[col], S)
          /\ \A col \in Columns(t, s) : drawn[col].usage <= Used(t, it.line + 1, col)
      BY <1>1, <1>5, <1>6, <3>4 DEF StreamsAt
    <3> QED BY <3>3, <3>5 DEF StreamsAt
  <2> QED BY <1>4, <2>1, <2>2
<1>8. PICK moved : moved = [it EXCEPT !.streams = drawn, !.line = @ + 1]
  OBVIOUS
<1>9. PICK finished : finished = [moved EXCEPT !.streams = FinishRow(drawn), !.index = @ + 1]
  OBVIOUS
<1>10. PICK next : next = NextRow(t, it).iter
  OBVIOUS
<1>11. next = CASE moved.line <= it.line_count -> moved
                [] moved.line > it.line_count /\ ~Done(finished) -> DrawOrder(finished)
                [] OTHER -> finished
  BY <1>4, <1>8, <1>9, <1>10
<1>12. /\ DOMAIN moved = IteratorFields /\ moved.line = it.line + 1 /\ moved.index = it.index /\ moved.end = it.end
       /\ moved.streams = drawn /\ moved.scale_factor = s /\ moved.line_count = it.line_count
       /\ moved.region_cum_sum = 0
  BY <1>1, <1>8 DEF IsIterator, IteratorFields
<1>13. /\ DOMAIN finished = IteratorFields /\ finished.line = it.line + 1
       /\ finished.index = it.index + 1 /\ finished.end = it.end
       /\ finished.streams = FinishRow(drawn) /\ finished.scale_factor = s
       /\ finished.line_count = it.line_count /\ finished.region_cum_sum = 0
  BY <1>9, <1>12 DEF IteratorFields
<1>14. IsIterator(moved) /\ IsIterator(finished)
  BY <1>1, <1>12, <1>13 DEF IsIterator
<1>15. BetweenOrders(s, finished, S)
  <2>1. \A col \in Columns(t, s) : drawn[col].usage <= Need(t, col)
    <3>1. ASSUME NEW col \in Columns(t, s) PROVE drawn[col].usage <= Need(t, col)
      <4>1. PICK u \in Nat : u = drawn[col].usage
        BY <1>7, StreamFields DEF StreamsAt, At, Of
      <4>2. PICK m \in Nat : m = it.line + 1 /\ m <= 7
        BY <1>1
      <4>3. Used(t, m, col) \in Nat /\ Used(t, m, col) <= Need(t, col) /\ Need(t, col) \in Nat
        BY <4>2, LineitemColumn, Needs
      <4>4. u <= Used(t, m, col)
        BY <1>7, <4>1, <4>2
      <4> HIDE DEF t
      <4> QED BY <4>1, <4>3, <4>4
    <3> QED BY <3>1
  <2>2. StreamsAt(t, s, it.index + 1, FinishRow(drawn), S) /\ AtRestAll(t, s, FinishRow(drawn))
    <3> HIDE DEF t
    <3> QED BY <1>1, <1>7, <2>1, FinishAt
  <2> QED BY <1>13, <1>14, <2>2 DEF BetweenOrders
<1>16. CASE moved.line <= it.line_count
  <2>1. next = moved
    BY <1>1, <1>11, <1>12, <1>16
  <2>2. IteratorAt(t, s, moved, S)
    BY <1>1, <1>7, <1>12, <1>14, <1>16 DEF IteratorAt, OneRowTables
  <2> QED BY <1>1, <1>10, <1>12, <1>13, <1>15, <2>1, <2>2
<1>17. CASE ~(moved.line <= it.line_count) /\ ~Done(finished)
  <2>1. next = DrawOrder(finished)
    BY <1>1, <1>11, <1>12, <1>17
  <2>2. IteratorAt(t, s, next, S)
    BY <1>15, <2>1, DrawOrderAt
  <2> QED BY <1>10, <1>13, <1>15, <1>17, <2>1, <2>2
<1>18. CASE ~(moved.line <= it.line_count) /\ Done(finished)
  <2>1. next = finished
    BY <1>11, <1>18
  <2>2. IteratorAt(t, s, finished, S)
    <3>1. \A col \in Columns(t, s) : finished.streams[col].usage <= Used(t, finished.line, col)
      <4>1. ASSUME NEW col \in Columns(t, s) PROVE finished.streams[col].usage <= Used(t, finished.line, col)
        <5>1. finished.streams[col].usage = 0
          BY <1>15 DEF BetweenOrders, AtRestAll
        <5>2. Used(t, finished.line, col) \in Nat
          BY <1>1, <1>13, LineitemColumn
        <5> QED BY <5>1, <5>2
      <4> QED BY <4>1
    <3> QED BY <1>1, <1>12, <1>13, <1>14, <1>15, <1>18, <3>1 DEF IteratorAt, OneRowTables, BetweenOrders
  <2> QED BY <1>10, <1>13, <1>15, <1>18, <2>1, <2>2
<1> QED BY <1>16, <1>17, <1>18

-----------------------------------------------------------------------------
(* A row, and the place it leaves the iterator in, are the same wherever    *)
(* the partition ends.                                                      *)

\* An iterator without the end of its partition.
Place(it) ==
  [streams |-> it.streams, index |-> it.index, line |-> it.line, line_count |-> it.line_count,
   order_date |-> it.order_date, region_cum_sum |-> it.region_cum_sum, scale_factor |-> it.scale_factor]

LEMMA SamePlace ==
  ASSUME NEW it, NEW other
  PROVE  Place(it) = Place(other) <=>
           /\ it.streams = other.streams /\ it.index = other.index /\ it.line = other.line
           /\ it.line_count = other.line_count /\ it.order_date = other.order_date
           /\ it.region_cum_sum = other.region_cum_sum /\ it.scale_factor = other.scale_factor
BY DEF Place

LEMMA RowOfPlace ==
  ASSUME NEW t \in Tables, NEW it, NEW other, Place(it) = Place(other)
  PROVE  NextRow(t, it).row = NextRow(t, other).row
<1>1. /\ it.streams = other.streams /\ it.index = other.index /\ it.line = other.line
      /\ it.line_count = other.line_count /\ it.order_date = other.order_date
      /\ it.region_cum_sum = other.region_cum_sum /\ it.scale_factor = other.scale_factor
  BY SamePlace
<1>2. NextOrder(it).row = NextOrder(other).row
  BY <1>1, ZenonT(60) DEF NextOrder
<1>3. NextLineitem(it).row = NextLineitem(other).row
  BY <1>1, SMTT(60) DEF NextLineitem
<1>4. NextPartSupp(it).row = NextPartSupp(other).row
  BY <1>1, ZenonT(60) DEF NextPartSupp
<1>5. NextCustomer(it).row = NextCustomer(other).row
  BY <1>1, SMTT(60) DEF NextCustomer, OneRow
<1>6. NextPart(it).row = NextPart(other).row
  BY <1>1, SMTT(60) DEF NextPart, OneRow
<1>7. NextSupplier(it).row = NextSupplier(other).row
  BY <1>1, SMTT(60) DEF NextSupplier, OneRow
<1>8. NextNation(it).row = NextNation(other).row
  BY <1>1, ZenonT(60) DEF NextNation, OneRow
<1>9. NextRegion(it).row = NextRegion(other).row
  BY <1>1, SMTT(60) DEF NextRegion, OneRow
<1> QED BY <1>2, <1>3, <1>4, <1>5, <1>6, <1>7, <1>8, <1>9 DEF NextRow, Tables

LEMMA DrawOrderOfPlace ==
  ASSUME NEW it, NEW other, IsIterator(it), IsIterator(other),
         it.streams = other.streams, it.index = other.index,
         it.region_cum_sum = other.region_cum_sum, it.scale_factor = other.scale_factor
  PROVE  Place(DrawOrder(it)) = Place(DrawOrder(other))
<1> DEFINE n == [s \in DOMAIN it.streams |-> IF s \in DOMAIN OrderStreams THEN 1 ELSE 0]
           drawn == TakeValues("lineitem", it.streams, n)
<1>2. /\ DrawOrder(it) = [it EXCEPT !.streams = drawn, !.line = 0,
                                    !.line_count = LineCountOf(drawn) - 1, !.order_date = OrderDateOf(drawn)]
      /\ DrawOrder(other) = [other EXCEPT !.streams = drawn, !.line = 0,
                                    !.line_count = LineCountOf(drawn) - 1, !.order_date = OrderDateOf(drawn)]
  BY DEF DrawOrder
<1> HIDE DEF n, drawn
<1>3. DOMAIN it = IteratorFields /\ DOMAIN other = IteratorFields
  BY DEF IsIterator
<1>4. PICK a, b : a = DrawOrder(it) /\ b = DrawOrder(other)
  OBVIOUS
<1>5. /\ a.streams = b.streams /\ a.index = b.index /\ a.line = b.line
      /\ a.line_count = b.line_count /\ a.order_date = b.order_date
      /\ a.region_cum_sum = b.region_cum_sum /\ a.scale_factor = b.scale_factor
  BY <1>2, <1>3, <1>4 DEF IteratorFields
<1> QED BY <1>4, <1>5, SamePlace

LEMMA OneRowIterator ==
  ASSUME NEW it, NEW drawn, NEW key
  PROVE  OneRow(it, drawn, key).iter = [it EXCEPT !.streams = FinishRow(drawn), !.index = @ + 1]
<1> DEFINE streams == FinishRow(drawn)
           columns == [s \in DOMAIN drawn |-> IF drawn[s] = it.streams[s] THEN 0 ELSE drawn[s].seed]
<1>1. OneRow(it, drawn, key)
        = [iter |-> [it EXCEPT !.streams = streams, !.index = @ + 1], row |-> [key |-> key, columns |-> columns]]
  BY DEF OneRow
<1> HIDE DEF streams, columns
<1>2. OneRow(it, drawn, key).iter = [it EXCEPT !.streams = streams, !.index = @ + 1]
  BY <1>1
<1> QED BY <1>2 DEF streams

LEMMA NextOfPlace ==
  ASSUME NEW t \in Tables, NEW it, NEW other, IsIterator(it), IsIterator(other), Place(it) = Place(other),
         t = "lineitem" => it.line_count \in Nat
  PROVE  LET next == NextRow(t, it).iter
             beside == NextRow(t, other).iter
         IN  /\ next.index = beside.index
             /\ t # "lineitem" \/ (~Done(next) /\ ~Done(beside)) => Place(next) = Place(beside)
<1>1. /\ it.streams = other.streams /\ it.index = other.index /\ it.line = other.line
      /\ it.line_count = other.line_count /\ it.order_date = other.order_date
      /\ it.region_cum_sum = other.region_cum_sum /\ it.scale_factor = other.scale_factor
      /\ DOMAIN it = IteratorFields /\ DOMAIN other = IteratorFields /\ it.line \in Nat
  BY SamePlace DEF IsIterator
<1>2. PICK next, beside : next = NextRow(t, it).iter /\ beside = NextRow(t, other).iter
  OBVIOUS
<1> DEFINE Moved(streams) == /\ next = [it EXCEPT !.streams = streams, !.index = @ + 1]
                             /\ beside = [other EXCEPT !.streams = streams, !.index = @ + 1]
<1>3. ASSUME NEW streams, Moved(streams)
      PROVE  next.index = beside.index /\ Place(next) = Place(beside)
  <2>1. /\ next.streams = beside.streams /\ next.index = beside.index /\ next.line = beside.line
        /\ next.line_count = beside.line_count /\ next.order_date = beside.order_date
        /\ next.region_cum_sum = beside.region_cum_sum /\ next.scale_factor = beside.scale_factor
    BY <1>1, <1>3 DEF IteratorFields
  <2> QED BY <2>1, SamePlace
<1>4. CASE t = "orders"
  <2>1. \E streams : Moved(streams)
    BY <1>1, <1>2, <1>4, ZenonT(60) DEF NextRow, NextOrder
  <2> HIDE DEF Moved
  <2> QED BY <1>2, <1>3, <2>1
<1>5. CASE t \in {"customer", "part", "region"}
  <2>1. \E streams : Moved(streams)
    <3>1. CASE t = "customer"
      BY <1>1, <1>2, <3>1 DEF NextRow, NextCustomer, OneRow
    <3>2. CASE t = "part"
      BY <1>1, <1>2, <3>2 DEF NextRow, NextPart, OneRow
    <3>3. CASE t = "region"
      BY <1>1, <1>2, <3>3 DEF NextRow, NextRegion, OneRow
    <3> QED BY <1>5, <3>1, <3>2, <3>3
  <2> HIDE DEF Moved
  <2> QED BY <1>2, <1>3, <2>1
<1>6. CASE t = "supplier"
  <2>1. \E streams : Moved(streams)
    <3>1. PICK drawn : /\ NextRow(t, it) = OneRow(it, drawn, ToInt(it.index + 1))
                       /\ NextRow(t, other) = OneRow(other, drawn, ToInt(other.index + 1))
      BY <1>1, <1>6 DEF NextRow, NextSupplier
    <3>2. /\ OneRow(it, drawn, ToInt(it.index + 1)).iter = [it EXCEPT !.streams = FinishRow(drawn), !.index = @ + 1]
          /\ OneRow(other, drawn, ToInt(other.index + 1)).iter = [other EXCEPT !.streams = FinishRow(drawn), !.index = @ + 1]
      BY OneRowIterator
    <3>3. Moved(FinishRow(drawn))
      BY <1>2, <3>1, <3>2
    <3> HIDE DEF Moved
    <3> QED BY <3>3
  <2> HIDE DEF Moved
  <2> QED BY <1>2, <1>3, <2>1
<1>7. CASE t = "nation"
  <2> DEFINE drawn == TakeValues("nation", it.streams, Same(it.streams, 1))
             region == it.region_cum_sum + NationWeights[it.index + 1]
  <2>1. /\ NextRow(t, it) = [OneRow(it, drawn, it.index)
                              EXCEPT !.iter.region_cum_sum = region,
                                     !.row = [key |-> @.key, region |-> region, columns |-> @.columns]]
        /\ NextRow(t, other) = [OneRow(other, drawn, other.index)
                              EXCEPT !.iter.region_cum_sum = region,
                                     !.row = [key |-> @.key, region |-> region, columns |-> @.columns]]
    BY <1>1, <1>7 DEF NextRow, NextNation
  <2> HIDE DEF drawn, region
  <2>2. PICK one, two : one = OneRow(it, drawn, it.index) /\ two = OneRow(other, drawn, other.index)
    OBVIOUS
  <2>3. DOMAIN one = {"iter", "row"} /\ DOMAIN two = {"iter", "row"}
    BY <2>2 DEF OneRow
  <2>4. next = [one.iter EXCEPT !.region_cum_sum = region] /\ beside = [two.iter EXCEPT !.region_cum_sum = region]
    BY <1>2, <2>1, <2>2, <2>3
  <2>5. /\ IsIterator(one.iter) /\ IsIterator(two.iter) /\ one.iter.index = it.index + 1 /\ two.iter.index = other.index + 1
        /\ one.iter.line = it.line /\ two.iter.line = other.line
        /\ one.iter.scale_factor = it.scale_factor /\ two.iter.scale_factor = other.scale_factor
        /\ one.iter.streams = FinishRow(drawn) /\ two.iter.streams = FinishRow(drawn)
        /\ one.iter.line_count = it.line_count /\ one.iter.order_date = it.order_date
        /\ two.iter.line_count = other.line_count /\ two.iter.order_date = other.order_date
    BY <2>2, OneRowFields, OneRowPlace
  <2>6. /\ next.streams = beside.streams /\ next.index = beside.index /\ next.line = beside.line
        /\ next.line_count = beside.line_count /\ next.order_date = beside.order_date
        /\ next.region_cum_sum = beside.region_cum_sum /\ next.scale_factor = beside.scale_factor
    BY <1>1, <2>4, <2>5 DEF IsIterator, IteratorFields
  <2> QED BY <1>2, <2>6, SamePlace
<1>8. CASE t = "partsupp"
  <2> DEFINE drawn == TakeValues(t, it.streams, Same(it.streams, 1))
  <2>1. PICK one, two : /\ one = [it EXCEPT !.streams = drawn, !.line = @ + 1]
                        /\ two = [other EXCEPT !.streams = drawn, !.line = @ + 1]
    OBVIOUS
  <2>2. /\ next = IF one.line >= SuppliersPerPart
                  THEN [one EXCEPT !.streams = FinishRow(drawn), !.line = 0, !.index = @ + 1] ELSE one
        /\ beside = IF two.line >= SuppliersPerPart
                  THEN [two EXCEPT !.streams = FinishRow(drawn), !.line = 0, !.index = @ + 1] ELSE two
    BY <1>1, <1>2, <1>8, <2>1 DEF NextRow, NextPartSupp
  <2> HIDE DEF drawn
  <2>3. /\ DOMAIN one = IteratorFields /\ DOMAIN two = IteratorFields
        /\ one.streams = two.streams /\ one.index = two.index /\ one.line = two.line
        /\ one.line_count = two.line_count /\ one.order_date = two.order_date
        /\ one.region_cum_sum = two.region_cum_sum /\ one.scale_factor = two.scale_factor
    BY <1>1, <2>1 DEF IteratorFields
  <2>4. /\ next.streams = beside.streams /\ next.index = beside.index /\ next.line = beside.line
        /\ next.line_count = beside.line_count /\ next.order_date = beside.order_date
        /\ next.region_cum_sum = beside.region_cum_sum /\ next.scale_factor = beside.scale_factor
    <3>1. CASE one.line >= SuppliersPerPart
      <4>1. /\ next = [one EXCEPT !.streams = FinishRow(drawn), !.line = 0, !.index = @ + 1]
            /\ beside = [two EXCEPT !.streams = FinishRow(drawn), !.line = 0, !.index = @ + 1]
        BY <2>2, <2>3, <3>1
      <4> QED BY <2>3, <4>1 DEF IteratorFields
    <3>2. CASE ~(one.line >= SuppliersPerPart)
      <4>1. next = one /\ beside = two
        BY <2>2, <2>3, <3>2
      <4> QED BY <2>3, <4>1
    <3> QED BY <3>1, <3>2
  <2> QED BY <1>2, <2>4, SamePlace
<1>9. CASE t = "lineitem"
  <2>1. PICK drawn :
          LET moved == [it EXCEPT !.streams = drawn, !.line = @ + 1]
              finished == [moved EXCEPT !.streams = FinishRow(drawn), !.index = @ + 1]
              moved2 == [other EXCEPT !.streams = drawn, !.line = @ + 1]
              finished2 == [moved2 EXCEPT !.streams = FinishRow(drawn), !.index = @ + 1]
          IN  /\ next = CASE moved.line <= it.line_count -> moved
                          [] moved.line > it.line_count /\ ~Done(finished) -> DrawOrder(finished)
                          [] OTHER -> finished
              /\ beside = CASE moved2.line <= other.line_count -> moved2
                          [] moved2.line > other.line_count /\ ~Done(finished2) -> DrawOrder(finished2)
                          [] OTHER -> finished2
    BY <1>1, <1>2, <1>9 DEF NextRow, NextLineitem
  <2>2. PICK moved, moved2 : /\ moved = [it EXCEPT !.streams = drawn, !.line = @ + 1]
                             /\ moved2 = [other EXCEPT !.streams = drawn, !.line = @ + 1]
    OBVIOUS
  <2>3. PICK finished, finished2 :
          /\ finished = [moved EXCEPT !.streams = FinishRow(drawn), !.index = @ + 1]
          /\ finished2 = [moved2 EXCEPT !.streams = FinishRow(drawn), !.index = @ + 1]
    OBVIOUS
  <2>4. /\ next = CASE moved.line <= it.line_count -> moved
                     [] moved.line > it.line_count /\ ~Done(finished) -> DrawOrder(finished)
                     [] OTHER -> finished
        /\ beside = CASE moved2.line <= other.line_count -> moved2
                     [] moved2.line > other.line_count /\ ~Done(finished2) -> DrawOrder(finished2)
                     [] OTHER -> finished2
    BY <2>1, <2>2, <2>3
  <2>5. /\ DOMAIN moved = IteratorFields /\ DOMAIN moved2 = IteratorFields
        /\ moved.line = it.line + 1 /\ moved2.line = it.line + 1
        /\ moved.index = it.index /\ moved2.index = it.index
        /\ moved.end = it.end /\ moved2.end = other.end
        /\ moved.streams = moved2.streams /\ moved.line_count = moved2.line_count
        /\ moved.order_date = moved2.order_date
        /\ moved.region_cum_sum = moved2.region_cum_sum /\ moved.scale_factor = moved2.scale_factor
    BY <1>1, <2>2 DEF IteratorFields
  <2>6. /\ DOMAIN finished = IteratorFields /\ DOMAIN finished2 = IteratorFields
        /\ finished.line = it.line + 1 /\ finished2.line = it.line + 1
        /\ finished.index = it.index + 1 /\ finished2.index = it.index + 1
        /\ finished.end = it.end /\ finished2.end = other.end
        /\ finished.streams = finished2.streams /\ finished.line_count = finished2.line_count
        /\ finished.order_date = finished2.order_date
        /\ finished.region_cum_sum = finished2.region_cum_sum /\ finished.scale_factor = finished2.scale_factor
    BY <2>3, <2>5 DEF IteratorFields
  <2>7. IsIterator(finished) /\ IsIterator(finished2)
    BY <1>1, <2>6 DEF IsIterator
  <2>8. Place(moved) = Place(moved2) /\ Place(finished) = Place(finished2)
    BY <2>5, <2>6, SamePlace
  <2>9. Place(DrawOrder(finished)) = Place(DrawOrder(finished2))
    BY <2>6, <2>7, DrawOrderOfPlace
  <2>10. /\ DrawOrder(finished).index = it.index + 1 /\ DrawOrder(finished2).index = it.index + 1
    BY <2>6, <2>7, DrawOrderPlace
  <2>11. CASE it.line + 1 <= it.line_count
    <3>1. next = moved /\ beside = moved2
      BY <1>1, <1>9, <2>4, <2>5, <2>11
    <3> QED BY <1>2, <2>5, <2>8, <3>1
  <2>12. CASE ~(it.line + 1 <= it.line_count)
    <3>1. /\ next = IF Done(finished) THEN finished ELSE DrawOrder(finished)
          /\ beside = IF Done(finished2) THEN finished2 ELSE DrawOrder(finished2)
      BY <1>1, <1>9, <2>4, <2>5, <2>12
    <3>2. next.index = beside.index
      BY <2>6, <2>10, <3>1
    <3>3. ASSUME ~Done(next), ~Done(beside) PROVE Place(next) = Place(beside)
      BY <2>9, <3>1, <3>3
    <3> QED BY <1>2, <1>9, <3>2, <3>3
  <2> QED BY <2>11, <2>12
<1> QED BY <1>4, <1>5, <1>6, <1>7, <1>8, <1>9 DEF Tables

-----------------------------------------------------------------------------
(* An iterator that has just been reset.                                    *)

LEMMA ResiduesClosed == ClosedSeeds(Residues)
<1>1. Modulus \in Nat \ {0} /\ Multiplier \in Nat
  BY RandsAssumption
<1>2. ASSUME NEW x \in Residues PROVE (x * Multiplier) % Modulus \in Residues
  <2>1. PICK y \in Nat : y = x * Multiplier
    BY <1>1 DEF Residues
  <2>2. y % Modulus \in Residues
    BY Residue
  <2> QED BY <2>1, <2>2
<1> QED BY <1>1, <1>2 DEF ClosedSeeds, Residues

SumBefore(t, k) == IF t = "nation" THEN RegionSum(k) ELSE 0

Created(t, s, k, end) ==
  [streams |-> Skipped(t, s, k), index |-> k, end |-> end, line |-> 0, line_count |-> 0, order_date |-> 0,
   region_cum_sum |-> SumBefore(t, k), scale_factor |-> s]

\* The place of an iterator that has not drawn anything of its unit.
Start(t, s, k) == Place(IF t = "lineitem" THEN DrawOrder(Created(t, s, k, 0)) ELSE Created(t, s, k, 0))

IsCreated(t, s, k, end, it) ==
  /\ IsIterator(it) /\ it.streams = Skipped(t, s, k) /\ it.index = k /\ it.end = end /\ it.line = 0
  /\ it.line_count = 0 /\ it.order_date = 0 /\ it.scale_factor = s
  /\ it.region_cum_sum = SumBefore(t, k)

LEMMA CreatedFields ==
  ASSUME NEW t, NEW s, NEW k \in Nat, NEW end \in Nat, NEW it, it = Created(t, s, k, end)
  PROVE  IsCreated(t, s, k, end, it)
<1>1. /\ DOMAIN it = IteratorFields
      /\ it.streams = Skipped(t, s, k) /\ it.index = k /\ it.end = end /\ it.line = 0
      /\ it.line_count = 0 /\ it.order_date = 0 /\ it.scale_factor = s
      /\ it.region_cum_sum = SumBefore(t, k)
  BY DEF Created, IteratorFields
<1>2. IsIterator(it)
  BY <1>1 DEF IsIterator
<1> QED BY <1>1, <1>2 DEF IsCreated

\* The order drawn there does not depend on the end either.
LEMMA CreatedOrder ==
  ASSUME NEW t, NEW s, NEW k \in Nat, NEW end \in Nat
  PROVE  Place(DrawOrder(Created(t, s, k, end))) = Place(DrawOrder(Created(t, s, k, 0)))
<1>1. PICK a : a = Created(t, s, k, end)
  OBVIOUS
<1>2. PICK b : b = Created(t, s, k, 0)
  OBVIOUS
<1>3. IsCreated(t, s, k, end, a) /\ IsCreated(t, s, k, 0, b)
  BY <1>1, <1>2, CreatedFields
<1>4. Place(DrawOrder(a)) = Place(DrawOrder(b))
  BY <1>3, DrawOrderOfPlace DEF IsCreated
<1> QED BY <1>1, <1>2, <1>4

LEMMA CreatedAt ==
  ASSUME NEW S, ClosedSeeds(S), NEW s \in Scales, NEW t \in Tables, NEW k \in Nat, NEW end \in Nat
  PROVE  /\ t # "lineitem" \/ k >= end => IteratorAt(t, s, Created(t, s, k, end), S)
         /\ t = "lineitem" => BetweenOrders(s, Created(t, s, k, end), S)
<1>1. PICK it : it = Created(t, s, k, end)
  OBVIOUS
<1>2. IsCreated(t, s, k, end, it)
  BY <1>1, CreatedFields
<1>3. /\ IsIterator(it) /\ it.streams = Skipped(t, s, k) /\ it.index = k /\ it.end = end /\ it.line = 0
      /\ it.line_count = 0 /\ it.order_date = 0 /\ it.scale_factor = s
      /\ it.region_cum_sum = IF t = "nation" THEN RegionSum(k) ELSE 0
  BY <1>2 DEF IsCreated, SumBefore
<1>4. StreamsAt(t, s, it.index, it.streams, S) /\ AtRestAll(t, s, it.streams)
  BY <1>3, SkippedAt
<1>5. ASSUME NEW col \in Columns(t, s) PROVE it.streams[col].usage <= Used(t, it.line, col)
  <2>1. it.streams[col].usage = 0
    BY <1>4 DEF AtRestAll
  <2>2. PICK d \in 1..5 : d = DrawsPerValue(t, col)
    BY DrawsPerValues
  <2>3. Used(t, it.line, col) \in {0, 1}
    BY <1>3, <2>2 DEF Used
  <2> QED BY <2>1, <2>3
<1>6. t # "lineitem" \/ k >= end => IteratorAt(t, s, it, S)
  BY <1>3, <1>4, <1>5 DEF IteratorAt, Done
<1>7. t = "lineitem" => BetweenOrders(s, it, S)
  BY <1>3, <1>4 DEF BetweenOrders
<1> QED BY <1>1, <1>6, <1>7

\* What Reset gives is the start of the partition.
LEMMA ResetForm ==
  ASSUME NEW s \in Scales, NEW t \in Tables, NEW count \in Nat \ {0}, NEW num \in 1..count
  PROVE  LET k == PartStart(t, num, count, s)
             end == PartEnd(t, num, count, s)
         IN  ResetGenerator(t, num, count, s) = IF t = "lineitem" /\ k < end THEN DrawOrder(Created(t, s, k, end))
                                                ELSE Created(t, s, k, end)
<1> DEFINE k == PartStart(t, num, count, s)
           end == PartEnd(t, num, count, s)
           created == Streams(t, s)
           streams == IF k > 0 THEN [col \in DOMAIN created |-> AdvanceRows(created[col], k)] ELSE created
           it == [streams |-> streams, index |-> k, end |-> end, line |-> 0, line_count |-> 0, order_date |-> 0,
                  region_cum_sum |-> SumBefore(t, k), scale_factor |-> s]
<1>1. ResetGenerator(t, num, count, s) = IF t = "lineitem" /\ k < end THEN DrawOrder(it) ELSE it
  BY DEF ResetGenerator, Reset, PartStart, PartEnd, PartRange, SumBefore
<1>2. k \in Nat
  BY PartsTile
<1> HIDE DEF k, end
<1>3. streams = Skipped(t, s, k)
  BY <1>2, FreshIsSkipped DEF Skipped, Columns
<1> HIDE DEF streams, created
<1>4. it = Created(t, s, k, end)
  BY <1>3 DEF Created
<1> HIDE DEF it
<1> QED BY <1>1, <1>4 DEF k, end

LEMMA ResetAt ==
  ASSUME NEW S, ClosedSeeds(S), NEW s \in Scales, NEW t \in Tables, NEW count \in Nat \ {0}, NEW num \in 1..count
  PROVE  LET it == ResetGenerator(t, num, count, s)
         IN  /\ IteratorAt(t, s, it, S)
             /\ ~Done(it) => Place(it) = Start(t, s, it.index)
<1>1. PICK it : it = ResetGenerator(t, num, count, s)
  OBVIOUS
<1>2. PICK k \in Nat, end \in Nat : k = PartStart(t, num, count, s) /\ end = PartEnd(t, num, count, s)
  BY PartsTile
<1>3. it = IF t = "lineitem" /\ k < end THEN DrawOrder(Created(t, s, k, end)) ELSE Created(t, s, k, end)
  BY <1>1, <1>2, ResetForm
<1>4. it.index = k /\ it.end = end
  BY <1>1, <1>2, ResetPlace
<1>5. CASE t = "lineitem" /\ k < end
  <2>1. BetweenOrders(s, Created(t, s, k, end), S)
    BY <1>5, CreatedAt
  <2>2. IteratorAt(t, s, it, S)
    BY <1>3, <1>5, <2>1, DrawOrderAt
  <2>3. Place(DrawOrder(Created(t, s, k, end))) = Place(DrawOrder(Created(t, s, k, 0)))
    BY CreatedOrder
  <2> QED BY <1>1, <1>3, <1>4, <1>5, <2>2, <2>3 DEF Start
<1>6. CASE ~(t = "lineitem" /\ k < end)
  <2>1. it = Created(t, s, k, end)
    BY <1>3, <1>6
  <2>2. IteratorAt(t, s, it, S)
    BY <1>2, <1>6, <2>1, CreatedAt
  <2>3. Place(Created(t, s, k, end)) = Place(Created(t, s, k, 0))
    BY DEF Created, Place
  <2>4. ASSUME ~Done(it) PROVE t # "lineitem"
    BY <1>2, <1>4, <1>6, <2>4 DEF Done
  <2> QED BY <1>1, <1>4, <2>1, <2>2, <2>3, <2>4 DEF Start
<1> QED BY <1>5, <1>6

LEMMA NextAt ==
  ASSUME NEW S, ClosedSeeds(S), NEW s \in Scales, NEW t \in Tables, NEW it, IteratorAt(t, s, it, S), ~Done(it)
  PROVE  IteratorAt(t, s, NextRow(t, it).iter, S)
<1>1. t \in OneRowTables \/ t = "partsupp" \/ t = "lineitem"
  BY DEF Tables, OneRowTables
<1> QED BY <1>1, OneRowAt, PartSuppAt, LineitemAt

-----------------------------------------------------------------------------
(* The end of a unit is where Reset would start the next one.               *)

LEMMA UnitEnd ==
  ASSUME NEW S, ClosedSeeds(S), NEW s \in Scales, NEW t \in Tables, SkipsExactly(t, s),
         NEW it, IteratorAt(t, s, it, S), ~Done(it),
         NEW next, next = NextRow(t, it).iter, next.index = it.index + 1,
         t = "nation" => next.index <= Len(NationWeights),
         t = "lineitem" => ~Done(next)
  PROVE  Place(next) = Start(t, s, next.index)
<1>1. PICK k \in Nat : k = next.index
  <2>1. it.index \in Nat
    BY DEF IteratorAt, IsIterator
  <2> QED BY <2>1
<1>2. PICK created : created = Created(t, s, k, 0)
  OBVIOUS
<1>6. IsCreated(t, s, k, 0, created)
  BY <1>2, CreatedFields
<1>3. /\ IsIterator(created) /\ created.streams = Skipped(t, s, k) /\ created.index = k /\ created.line = 0
      /\ created.line_count = 0 /\ created.order_date = 0 /\ created.scale_factor = s
      /\ created.region_cum_sum = IF t = "nation" THEN RegionSum(k) ELSE 0
  BY <1>6 DEF IsCreated, SumBefore
<1>4. CASE t # "lineitem"
  <2>1. IteratorAt(t, s, next, S)
    BY NextAt
  <2>2. next.line = 0
    <3>1. CASE t \in OneRowTables
      BY <2>1, <3>1 DEF IteratorAt
    <3>2. CASE t = "partsupp"
      <4>1. IsIterator(it) /\ it.index \in Nat
        BY DEF IteratorAt, IsIterator
      <4>2. next.index = it.index \/ next.line = 0
        BY <3>2, <4>1, NextPartSuppRow
      <4> QED BY <4>1, <4>2
    <3> QED BY <1>4, <3>1, <3>2 DEF OneRowTables, Tables
  <2>3. AtRestAll(t, s, next.streams)
    <3>1. ASSUME NEW col \in Columns(t, s) PROVE next.streams[col].usage = 0
      <4>1. PICK d \in 1..5 : d = DrawsPerValue(t, col)
        BY DrawsPerValues
      <4>2. Used(t, 0, col) = 0
        BY <1>4, <4>1 DEF Used
      <4>3. next.streams[col].usage \in Nat /\ next.streams[col].usage <= Used(t, 0, col)
        BY <2>1, <2>2, StreamFields DEF IteratorAt, StreamsAt, At, Of
      <4> QED BY <4>2, <4>3
    <3> QED BY <3>1 DEF AtRestAll
  <2>4. next.streams = Skipped(t, s, k)
    BY <1>1, <2>1, <2>3, RestIsSkipped DEF IteratorAt
  <2>5. /\ next.line_count = 0 /\ next.order_date = 0 /\ next.scale_factor = s
        /\ next.region_cum_sum = IF t = "nation" THEN RegionSum(k) ELSE 0
    BY <1>1, <1>4, <2>1 DEF IteratorAt
  <2>6. Place(next) = Place(created)
    BY <1>1, <1>3, <2>2, <2>4, <2>5, SamePlace
  <2> QED BY <1>1, <1>2, <1>4, <2>6 DEF Start
<1>5. CASE t = "lineitem"
  <2>1. PICK finished :
          /\ BetweenOrders(s, finished, S)
          /\ finished.index = it.index + 1 /\ finished.end = it.end
          /\ next.index = it.index + 1 => next = IF Done(finished) THEN finished ELSE DrawOrder(finished)
    BY <1>5, LineitemAt
  <2>2. next = DrawOrder(finished)
    BY <1>5, <2>1
  <2>3. finished.streams = Skipped(t, s, k)
    BY <1>1, <1>5, <2>1, RestIsSkipped DEF BetweenOrders
  <2>4. /\ IsIterator(finished) /\ finished.index = k /\ finished.scale_factor = s /\ finished.region_cum_sum = 0
    BY <1>1, <2>1 DEF BetweenOrders
  <2>5. Place(DrawOrder(finished)) = Place(DrawOrder(created))
    BY <1>3, <1>5, <2>3, <2>4, DrawOrderOfPlace
  <2> QED BY <1>1, <1>2, <1>5, <2>2, <2>5 DEF Start
<1> QED BY <1>4, <1>5

-----------------------------------------------------------------------------
(* The run of one partition without an end: the places of the iterator      *)
(* before each row, and the rows.  Every partition of the table goes along  *)
(* it, from the row it starts at.                                           *)

Until(p, end) ==
  [streams |-> p.streams, index |-> p.index, end |-> end, line |-> p.line, line_count |-> p.line_count,
   order_date |-> p.order_date, region_cum_sum |-> p.region_cum_sum, scale_factor |-> p.scale_factor]
NextPlace(t, p) == Place(NextRow(t, Until(p, p.index + 2)).iter)

IsPath(f, t, s) == f = [n \in Nat |-> IF n = 0 THEN Start(t, s, 0) ELSE NextPlace(t, f[n - 1])]
Path(t, s) == CHOOSE f : IsPath(f, t, s)
RowAt(t, s, n) == NextRow(t, Until(Path(t, s)[n], Path(t, s)[n].index + 2)).row

LEMMA PathExists == ASSUME NEW t, NEW s PROVE \E f : IsPath(f, t, s)
<1> DEFINE UpTo(f, k) == f = [i \in 0..k |-> IF i = 0 THEN Start(t, s, 0) ELSE NextPlace(t, f[i - 1])]
           S == {k \in Nat : \E f : UpTo(f, k)}
<1>1. 0 \in S
  <2>1. UpTo([i \in 0..0 |-> Start(t, s, 0)], 0)
    OBVIOUS
  <2> QED BY <2>1
<1>2. ASSUME NEW k \in Nat, k \in S PROVE k + 1 \in S
  <2>1. PICK f : UpTo(f, k)
    BY <1>2
  <2> DEFINE g == [i \in 0..(k + 1) |-> IF i = k + 1 THEN NextPlace(t, f[k]) ELSE f[i]]
  <2>2. \A i \in 0..(k + 1) : g[i] = IF i = 0 THEN Start(t, s, 0) ELSE NextPlace(t, g[i - 1])
    <3> TAKE i \in 0..(k + 1)
    <3>1. CASE i = k + 1
      BY <3>1
    <3>2. CASE i # k + 1
      <4>1. i \in 0..k /\ (i # 0 => i - 1 \in 0..k)
        BY <3>2
      <4>2. f[i] = IF i = 0 THEN Start(t, s, 0) ELSE NextPlace(t, f[i - 1])
        BY <2>1, <4>1
      <4> QED BY <4>1, <4>2, <3>2
    <3> QED BY <3>1, <3>2
  <2>3. UpTo(g, k + 1)
    BY <2>2
  <2>4. \E h : UpTo(h, k + 1)
    BY <2>3
  <2> HIDE DEF UpTo, g
  <2> QED BY <2>4
<1>3. \A k \in Nat : \E f : UpTo(f, k)
  BY <1>1, <1>2, Induction
<1> DEFINE part(k) == CHOOSE f : UpTo(f, k)
           whole == [n \in Nat |-> part(n)[n]]
<1>4. \A k \in Nat : UpTo(part(k), k)
  <2> HIDE DEF UpTo
  <2> QED BY <1>3
<1> HIDE DEF part
<1>5. \A n \in Nat : part(n + 1)[n] = part(n)[n]
  <2> TAKE n \in Nat
  <2> DEFINE R == {i \in Nat : i <= n => part(n + 1)[i] = part(n)[i]}
  <2>1. /\ \A i \in 0..n : part(n)[i] = IF i = 0 THEN Start(t, s, 0) ELSE NextPlace(t, part(n)[i - 1])
        /\ \A i \in 0..n : part(n + 1)[i] = IF i = 0 THEN Start(t, s, 0) ELSE NextPlace(t, part(n + 1)[i - 1])
    <3>1. UpTo(part(n), n) /\ UpTo(part(n + 1), n + 1)
      <4> HIDE DEF UpTo
      <4> QED BY <1>4
    <3> QED BY <3>1
  <2>2. 0 \in R
    BY <2>1
  <2>3. ASSUME NEW i \in Nat, i \in R PROVE i + 1 \in R
    BY <2>1, <2>3
  <2>4. n \in R
    BY <2>2, <2>3, Induction
  <2> QED BY <2>4
<1>6. \A n \in Nat : whole[n] = IF n = 0 THEN Start(t, s, 0) ELSE NextPlace(t, whole[n - 1])
  <2> TAKE n \in Nat
  <2>1. part(n)[n] = IF n = 0 THEN Start(t, s, 0) ELSE NextPlace(t, part(n)[n - 1])
    BY <1>4
  <2>2. CASE n = 0
    BY <2>1, <2>2
  <2>3. CASE n # 0
    <3>1. n - 1 \in Nat /\ part(n)[n - 1] = part(n - 1)[n - 1]
      <4>1. n - 1 \in Nat /\ (n - 1) + 1 = n
        BY <2>3
      <4> QED BY <4>1, <1>5
    <3> QED BY <2>1, <2>3, <3>1
  <2> QED BY <2>2, <2>3
<1>7. IsPath(whole, t, s)
  BY <1>6 DEF IsPath
<1> QED BY <1>7

LEMMA PathForm ==
  ASSUME NEW t, NEW s
  PROVE  /\ Path(t, s)[0] = Start(t, s, 0)
         /\ \A n \in Nat : Path(t, s)[n + 1] = NextPlace(t, Path(t, s)[n])
<1>1. IsPath(Path(t, s), t, s)
  BY PathExists DEF Path
<1> QED BY <1>1 DEF IsPath

LEMMA UntilForm ==
  ASSUME NEW p, NEW end \in Nat, p.index \in Nat, p.line \in Nat, NEW it, it = Until(p, end)
  PROVE  /\ IsIterator(it) /\ it.end = end
         /\ it.streams = p.streams /\ it.index = p.index /\ it.line = p.line /\ it.line_count = p.line_count
         /\ it.order_date = p.order_date /\ it.region_cum_sum = p.region_cum_sum /\ it.scale_factor = p.scale_factor
<1>1. /\ DOMAIN it = IteratorFields /\ it.end = end
      /\ it.streams = p.streams /\ it.index = p.index /\ it.line = p.line /\ it.line_count = p.line_count
      /\ it.order_date = p.order_date /\ it.region_cum_sum = p.region_cum_sum /\ it.scale_factor = p.scale_factor
  BY DEF Until, IteratorFields
<1> QED BY <1>1 DEF IsIterator

\* The index never goes back along the path.
LEMMA PathIndex ==
  ASSUME NEW t \in Tables, NEW s
  PROVE  /\ \A n \in Nat : Path(t, s)[n].index \in Nat /\ Path(t, s)[n].line \in Nat
         /\ \A n, m \in Nat : m <= n => Path(t, s)[m].index <= Path(t, s)[n].index
<1> DEFINE f == Path(t, s)
           R == {n \in Nat : f[n].index \in Nat /\ f[n].line \in Nat}
<1>1. 0 \in R
  <2>1. PICK created : created = Created(t, s, 0, 0)
    OBVIOUS
  <2>2. IsCreated(t, s, 0, 0, created)
    BY <2>1, CreatedFields
  <2>3. IsIterator(created)
    BY <2>2 DEF IsCreated
  <2>4. PICK it : it = IF t = "lineitem" THEN DrawOrder(created) ELSE created
    OBVIOUS
  <2>5. IsIterator(it)
    BY <2>3, <2>4, DrawOrderPlace
  <2>6. f[0] = Place(it)
    BY <2>1, <2>4, PathForm DEF Start
  <2>7. f[0].index = it.index /\ f[0].line = it.line
    BY <2>6 DEF Place
  <2> QED BY <2>5, <2>7 DEF IsIterator
<1>2. ASSUME NEW n \in Nat, n \in R
      PROVE  n + 1 \in R /\ f[n].index <= f[n + 1].index
  <2>1. PICK p : p = f[n]
    OBVIOUS
  <2>2. p.index \in Nat /\ p.line \in Nat /\ p.index + 2 \in Nat
    BY <1>2, <2>1
  <2>3. PICK it : it = Until(p, p.index + 2)
    OBVIOUS
  <2>4. IsIterator(it) /\ it.index = p.index
    BY <2>2, <2>3, UntilForm
  <2>5. PICK next : next = NextRow(t, it).iter
    OBVIOUS
  <2>6. IsIterator(next) /\ next.index \in {it.index, it.index + 1}
    BY <2>4, <2>5, NextRowPlace
  <2>7. f[n + 1] = Place(next)
    BY <2>1, <2>3, <2>5, PathForm DEF NextPlace
  <2>8. f[n + 1].index = next.index /\ f[n + 1].line = next.line
    BY <2>7 DEF Place
  <2> QED BY <2>1, <2>2, <2>4, <2>6, <2>8 DEF IsIterator
<1> HIDE DEF f
<1>3. \A n \in Nat : n \in R
  BY <1>1, <1>2, Induction
<1>4. ASSUME NEW m \in Nat
      PROVE  \A n \in Nat : m <= n => f[m].index <= f[n].index
  <2> DEFINE Q == {n \in Nat : m <= n => f[m].index <= f[n].index}
  <2>1. 0 \in Q
    BY <1>3
  <2>2. ASSUME NEW n \in Nat, n \in Q PROVE n + 1 \in Q
    <3>1. f[n].index <= f[n + 1].index /\ f[n].index \in Nat /\ f[n + 1].index \in Nat /\ f[m].index \in Nat
      BY <1>2, <1>3
    <3>2. CASE m <= n
      BY <2>2, <3>1, <3>2
    <3>3. CASE ~(m <= n)
      <4>1. m <= n + 1 => m = n + 1
        BY <3>3
      <4> QED BY <3>1, <4>1
    <3> QED BY <3>2, <3>3
  <2>3. \A n \in Nat : n \in Q
    BY <2>1, <2>2, Induction
  <2> QED BY <2>3
<1> QED BY <1>3, <1>4 DEF f

-----------------------------------------------------------------------------
(* A partition that is on the path goes along it.                           *)

LEMMA PathStep ==
  ASSUME NEW S, ClosedSeeds(S), NEW s \in Scales, NEW t \in Tables, SkipsExactly(t, s),
         NEW it, IteratorAt(t, s, it, S), ~Done(it), t = "nation" => it.index < Len(NationWeights),
         NEW n \in Nat, Place(it) = Path(t, s)[n],
         NEW next, next = NextRow(t, it).iter
  PROVE  /\ NextRow(t, it).row = RowAt(t, s, n)
         /\ Path(t, s)[n].index = it.index /\ Path(t, s)[n + 1].index = next.index
         /\ ~Done(next) => Place(next) = Path(t, s)[n + 1]
         /\ Done(next) => Path(t, s)[n + 1] = Start(t, s, next.index)
<1>1. PICK p : p = Path(t, s)[n]
  OBVIOUS
<1>2. IsIterator(it) /\ it.index \in Nat /\ it.end \in Nat /\ it.line \in Nat /\ it.scale_factor = s /\ it.index < it.end
  BY DEF IteratorAt, IsIterator, Done
<1>3. /\ p.streams = it.streams /\ p.index = it.index /\ p.line = it.line /\ p.line_count = it.line_count
      /\ p.order_date = it.order_date /\ p.region_cum_sum = it.region_cum_sum /\ p.scale_factor = it.scale_factor
  BY <1>1 DEF Place
<1>4. PICK end \in Nat : end = it.index + 2
  BY <1>2
<1>5. PICK other : other = Until(p, end)
  OBVIOUS
<1>6. /\ IsIterator(other) /\ other.end = end
      /\ it.streams = other.streams /\ it.index = other.index /\ it.line = other.line
      /\ it.line_count = other.line_count /\ it.order_date = other.order_date
      /\ it.region_cum_sum = other.region_cum_sum /\ it.scale_factor = other.scale_factor
  BY <1>2, <1>3, <1>5, UntilForm
<1>7. Place(it) = Place(other)
  BY <1>6, SamePlace
<1>8. ~Done(other)
  BY <1>2, <1>4, <1>6 DEF Done
<1>9. IteratorAt(t, s, other, S)
  BY <1>6, <1>8 DEF IteratorAt
<1>10. PICK beside : beside = NextRow(t, other).iter
  OBVIOUS
<1>11. /\ IsIterator(next) /\ next.end = it.end /\ next.index \in {it.index, it.index + 1}
       /\ IsIterator(beside) /\ beside.end = end /\ beside.index \in {it.index, it.index + 1}
  BY <1>2, <1>6, <1>10, NextRowPlace
<1>12. ~Done(beside)
  BY <1>2, <1>4, <1>11 DEF Done
<1>13. t = "lineitem" => it.line_count \in Nat
  BY DEF IteratorAt
<1>14. /\ next.index = beside.index
       /\ t # "lineitem" \/ ~Done(next) => Place(next) = Place(beside)
  BY <1>2, <1>6, <1>7, <1>10, <1>12, <1>13, NextOfPlace
<1>15. Path(t, s)[n + 1] = Place(beside)
  <2>1. other = Until(p, p.index + 2)
    BY <1>3, <1>4, <1>5
  <2>2. Path(t, s)[n + 1] = NextPlace(t, p)
    BY <1>1, PathForm
  <2> QED BY <1>10, <2>1, <2>2 DEF NextPlace
<1>16. NextRow(t, it).row = RowAt(t, s, n)
  <2>1. NextRow(t, it).row = NextRow(t, other).row
    BY <1>7, RowOfPlace
  <2> QED BY <1>1, <1>3, <1>4, <1>5, <2>1 DEF RowAt
<1>17. Path(t, s)[n + 1].index = next.index
  <2>1. Path(t, s)[n + 1].index = beside.index
    BY <1>15 DEF Place
  <2> QED BY <1>14, <2>1
<1>18. ASSUME Done(next) PROVE Path(t, s)[n + 1] = Start(t, s, next.index)
  <2>1. beside.index = other.index + 1
    BY <1>2, <1>6, <1>11, <1>14, <1>18 DEF Done
  <2>2. t = "nation" => beside.index <= Len(NationWeights)
    <3>1. Len(NationWeights) = 25
      BY DEF NationWeights
    <3> QED BY <1>2, <1>6, <2>1, <3>1
  <2>3. Place(beside) = Start(t, s, beside.index)
    BY <1>8, <1>9, <1>10, <1>12, <2>1, <2>2, UnitEnd
  <2> QED BY <1>14, <1>15, <2>3
<1> QED BY <1>1, <1>3, <1>14, <1>15, <1>16, <1>17, <1>18

-----------------------------------------------------------------------------
(* References.                                                              *)

\* Where the loop of Mortal ends: it never goes around more than three times.
MortalStates == [key : Int, delta : {1, -1}]
MortalMoved(l, max_key) == IF l.key + l.delta > max_key THEN max_key ELSE l.key + l.delta
MortalNext(l, max_key) == [key |-> MortalMoved(l, max_key), delta |-> -l.delta]
Settled(l, max_key) ==
  IF l.key % 3 # 0 THEN l.key
  ELSE IF MortalMoved(l, max_key) % 3 # 0 THEN MortalMoved(l, max_key) ELSE max_key - 1
IsMortalLoop(f, max_key) ==
  f = [l \in MortalStates |-> IF l.key % 3 # 0 THEN l.key ELSE f[MortalNext(l, max_key)]]

LEMMA MortalStep ==
  ASSUME NEW max_key \in Int, NEW l \in MortalStates
  PROVE  /\ MortalNext(l, max_key) \in MortalStates
         /\ l.key % 3 = 0 => Settled(l, max_key) = Settled(MortalNext(l, max_key), max_key)
<1>1. PICK key \in Int, delta \in {1, -1} : l.key = key /\ l.delta = delta
  BY DEF MortalStates
<1>2. PICK moved \in Int : moved = MortalMoved(l, max_key) /\ moved = IF key + delta > max_key THEN max_key ELSE key + delta
  BY <1>1 DEF MortalMoved
<1>3. PICK next : next = MortalNext(l, max_key)
  OBVIOUS
<1>4. next \in MortalStates /\ next.key = moved /\ next.delta = -delta
  <2>1. PICK back \in {1, -1} : back = -delta /\ back = -l.delta
    BY <1>1
  <2>2. next = [key |-> moved, delta |-> back]
    BY <1>2, <1>3, <2>1 DEF MortalNext
  <2> QED BY <2>1, <2>2 DEF MortalStates
<1>5. ASSUME key % 3 = 0 PROVE Settled(l, max_key) = Settled(next, max_key)
  <2>1. CASE moved % 3 # 0
    BY <1>1, <1>2, <1>4, <1>5, <2>1 DEF Settled
  <2>2. CASE moved % 3 = 0
    <3>1. moved = max_key
      BY <1>1, <1>2, <1>5, <2>2
    <3>2. Settled(l, max_key) = max_key - 1
      BY <1>1, <1>2, <1>5, <2>2 DEF Settled
    <3>3. MortalMoved(next, max_key) = IF delta = 1 THEN max_key - 1 ELSE max_key
      BY <1>1, <1>4, <3>1 DEF MortalMoved
    <3>4. (max_key - 1) % 3 # 0
      BY <2>2, <3>1
    <3>5. Settled(next, max_key) = max_key - 1
      BY <1>4, <2>2, <3>1, <3>3, <3>4 DEF Settled
    <3> QED BY <3>2, <3>5
  <2> QED BY <2>1, <2>2
<1> QED BY <1>1, <1>3, <1>4, <1>5

LEMMA MortalLoops ==
  ASSUME NEW max_key \in Int
  PROVE  IsMortalLoop([l \in MortalStates |-> Settled(l, max_key)], max_key)
<1> DEFINE f == [l \in MortalStates |-> Settled(l, max_key)]
<1>1. ASSUME NEW l \in MortalStates
      PROVE  f[l] = IF l.key % 3 # 0 THEN l.key ELSE f[MortalNext(l, max_key)]
  <2>1. CASE l.key % 3 # 0
    BY <2>1 DEF Settled
  <2>2. CASE l.key % 3 = 0
    BY <2>2, MortalStep
  <2> QED BY <2>1, <2>2
<1> QED BY <1>1 DEF IsMortalLoop

\* A customer who may place orders, among those there are.
LEMMA MortalForm ==
  ASSUME NEW max_key \in Nat, NEW key \in 1..max_key
  PROVE  Mortal(key, max_key) \in 1..max_key /\ Mortal(key, max_key) % 3 # 0
<1> DEFINE f == CHOOSE g : IsMortalLoop(g, max_key)
           start == [key |-> key, delta |-> 1]
<1>1. IsMortalLoop(f, max_key)
  <2>1. \E g : IsMortalLoop(g, max_key)
    <3> HIDE DEF f
    <3>1. PICK g : g = [l \in MortalStates |-> Settled(l, max_key)]
      OBVIOUS
    <3>2. max_key \in Int
      OBVIOUS
    <3>3. IsMortalLoop(g, max_key)
      BY <3>1, <3>2, MortalLoops
    <3> QED BY <3>3
  <2> QED BY <2>1, Zenon
<1>2. Mortal(key, max_key) = f[start]
  BY DEF Mortal, CustomerMortality, IsMortalLoop, MortalStates, MortalNext, MortalMoved
<1> HIDE DEF f
<1>3. \A l \in MortalStates : f[l] = IF l.key % 3 # 0 THEN l.key ELSE f[MortalNext(l, max_key)]
  BY <1>1 DEF IsMortalLoop
<1>4. PICK a \in MortalStates : a = start /\ a.key = key /\ a.delta = 1
  <2>1. start \in MortalStates /\ start.key = key /\ start.delta = 1
    BY DEF MortalStates
  <2> QED BY <2>1
<1>10. max_key \in Int
  OBVIOUS
<1>5. PICK b \in MortalStates :
        /\ b = MortalNext(a, max_key) /\ b.delta = -1
        /\ b.key = IF key + 1 > max_key THEN max_key ELSE key + 1
  <2>1. PICK b : b = MortalNext(a, max_key)
    OBVIOUS
  <2>2. b \in MortalStates
    BY <1>10, <2>1, MortalStep
  <2>3. b.delta = -a.delta /\ b.key = MortalMoved(a, max_key)
    BY <2>1 DEF MortalNext
  <2> QED BY <1>4, <2>1, <2>2, <2>3 DEF MortalMoved
<1>6. PICK c \in MortalStates :
        /\ c = MortalNext(b, max_key)
        /\ c.key = IF b.key - 1 > max_key THEN max_key ELSE b.key - 1
  <2>1. PICK c : c = MortalNext(b, max_key)
    OBVIOUS
  <2>2. c \in MortalStates
    BY <1>10, <2>1, MortalStep
  <2>3. c.key = MortalMoved(b, max_key)
    BY <2>1 DEF MortalNext
  <2>4. PICK k \in Int : k = b.key
    BY DEF MortalStates
  <2>5. MortalMoved(b, max_key) = IF k - 1 > max_key THEN max_key ELSE k - 1
    BY <1>5, <2>4 DEF MortalMoved
  <2> QED BY <2>1, <2>2, <2>3, <2>4, <2>5
<1>7. CASE key % 3 # 0
  BY <1>2, <1>3, <1>4, <1>7
<1>8. CASE key % 3 = 0 /\ key + 1 <= max_key
  <2>1. b.key = key + 1 /\ b.key % 3 # 0
    BY <1>5, <1>8
  <2>2. f[a] = f[b] /\ f[b] = b.key
    BY <1>3, <1>4, <1>5, <1>8, <2>1
  <2> QED BY <1>2, <1>4, <1>8, <2>1, <2>2
<1>9. CASE key % 3 = 0 /\ key = max_key
  <2>1. b.key = key /\ c.key = key - 1 /\ c.key % 3 # 0 /\ key >= 3
    BY <1>5, <1>6, <1>9
  <2>2. f[a] = f[b] /\ f[b] = f[c] /\ f[c] = c.key
    BY <1>3, <1>4, <1>5, <1>6, <1>9, <2>1
  <2> QED BY <1>2, <1>4, <1>9, <2>1, <2>2
<1> QED BY <1>7, <1>8, <1>9

\* What a row says of another table: the customer who ordered, a part and one
\* of its suppliers, the region of a nation.
Refers(t, row, s) ==
  /\ t = "orders" /\ Fits("customer", s) =>
       row.custkey \in 1..MaxCustomerKey(s) /\ row.custkey % CustomerMortality # 0
  /\ t = "lineitem" /\ Fits("part", s) =>
       /\ row.part_key \in 1..MaxPartKey(s)
       /\ \E i \in 0..3 : row.supplier_key = SupplierAt(row.part_key - 1, i, s)
  /\ t = "nation" => row.region \in 0..4

LEMMA KeyLimits ==
  ASSUME NEW s \in Scales
  PROVE  /\ MaxCustomerKey(s) \in Nat \ {0} /\ MaxPartKey(s) \in Nat \ {0}
         /\ Fits("customer", s) => MaxCustomerKey(s) \in 1..MaxInt
         /\ Fits("part", s) => MaxPartKey(s) \in 1..MaxInt
<1>1. RowCount("customer", s) \in Nat /\ RowCount("part", s) \in Nat
  BY RowCounts DEF Tables
<1>2. MaxInt \in Nat /\ MaxInt >= 1
  <2>1. PICK size \in Nat : size = IntSize /\ size >= 4
    BY RandsAssumption
  <2> QED BY <2>1 DEF MaxInt
<1>3. /\ Fits("customer", s) => RowCount("customer", s) <= MaxInt
      /\ Fits("part", s) => RowCount("part", s) <= MaxInt
  BY DEF Fits
<1> QED BY <1>1, <1>2, <1>3 DEF MaxCustomerKey, MaxPartKey, AtLeastOne

\* A column of keys holds one of the limits it is asked for, after any draws.
LEMMA ColumnKey ==
  ASSUME NEW s \in Scales, NEW t \in Tables, NEW k \in Nat, NEW streams, StreamsAt(t, s, k, streams, Residues),
         NEW col \in Columns(t, s), NEW max_key \in 1..MaxInt
  PROVE  KeyIn(streams[col], max_key) \in 1..max_key
<1>1. PICK r : r = streams[col]
  OBVIOUS
<1>2. r \in Stream /\ (~r.wide => r.seed \in Residues)
  BY <1>1 DEF StreamsAt, At, Of
<1> QED BY <1>1, <1>2, KeyInRange

LEMMA CustomerColumn ==
  ASSUME NEW s \in Scales
  PROVE  "customer_key" \in Columns("orders", s)
<1>1. PICK col : col = "customer_key"
  OBVIOUS
<1>2. PICK t \in {"orders", "lineitem"} : t = "orders"
  OBVIOUS
<1>3. col \in DOMAIN OwnStreams(t, s)
  BY <1>1, <1>2 DEF OwnStreams, OrdersStreams
<1> HIDE DEF Columns
<1>4. col \in Columns(t, s)
  BY <1>3, SharedColumns
<1> QED BY <1>1, <1>2, <1>4

LEMMA LineitemColumns ==
  ASSUME NEW s \in Scales
  PROVE  "part_key" \in Columns("lineitem", s) /\ "supplier_number" \in Columns("lineitem", s)
<1>1. PICK t \in {"orders", "lineitem"} : t = "lineitem"
  OBVIOUS
<1>2. "supplier_number" \in DOMAIN OwnStreams(t, s)
  BY <1>1 DEF OwnStreams, LineitemStreams
<1>3. "part_key" \in LineColumns
  BY DEF LineColumns
<1> HIDE DEF Columns
<1>4. "part_key" \in Columns(t, s) /\ "supplier_number" \in Columns(t, s)
  BY <1>2, <1>3, SharedColumns
<1> QED BY <1>1, <1>4

LEMMA OrderRefers ==
  ASSUME NEW s \in Scales, NEW it, IteratorAt("orders", s, it, Residues)
  PROVE  Refers("orders", NextRow("orders", it).row, s)
<1> DEFINE t == "orders"
           first == TakeValues(t, it.streams, Same(it.streams, 1))
<1>1. /\ t \in Tables /\ it.index \in Nat /\ it.scale_factor = s
      /\ StreamsAt(t, s, it.index, it.streams, Residues)
  BY DEF IteratorAt, IsIterator, Tables
<1>2. DOMAIN it.streams = Columns(t, s)
  BY <1>1 DEF StreamsAt
<1>3. \A col \in Columns(t, s) : Same(it.streams, 1)[col] \in Nat
  BY <1>2 DEF Same
<1>4. StreamsAt(t, s, it.index, first, Residues)
  <2> HIDE DEF t
  <2> QED BY <1>1, <1>3, ResiduesClosed, TakeAt
<1> SUFFICES ASSUME Fits("customer", s)
             PROVE  /\ NextRow(t, it).row.custkey \in 1..MaxCustomerKey(s)
                    /\ NextRow(t, it).row.custkey % CustomerMortality # 0
  BY DEF Refers
<1>5. PICK max_key \in 1..MaxInt : max_key = MaxCustomerKey(s) /\ max_key \in Nat \ {0} /\ MaxInt \in Int
  BY KeyLimits, RandsAssumption DEF MaxInt
<1>6. "customer_key" \in Columns(t, s)
  BY CustomerColumn
<1>7. PICK streams : streams = first
  OBVIOUS
<1>8. PICK key \in 1..max_key : key = KeyIn(streams["customer_key"], max_key)
  <2> HIDE DEF t, first
  <2> QED BY <1>1, <1>4, <1>6, <1>7, ColumnKey
<1>9. NextRow(t, it).row.custkey = ToInt(Mortal(key, max_key))
  BY <1>1, <1>5, <1>7, <1>8, ZenonT(60) DEF NextRow, NextOrder
<1>10. PICK mortal \in 1..max_key : mortal = Mortal(key, max_key) /\ mortal % 3 # 0
  BY <1>5, <1>8, MortalForm
<1>11. ToInt(mortal) = mortal
  <2>1. mortal \in 0..MaxInt
    BY <1>5
  <2> QED BY <2>1, ToIntFits
<1> QED BY <1>5, <1>9, <1>10, <1>11 DEF CustomerMortality

LEMMA LineitemRefers ==
  ASSUME NEW s \in Scales, NEW it, IteratorAt("lineitem", s, it, Residues)
  PROVE  Refers("lineitem", NextRow("lineitem", it).row, s)
<1> DEFINE t == "lineitem"
           n == [col \in DOMAIN it.streams |-> IF col \in DOMAIN OrderStreams THEN 0 ELSE 1]
           all == TakeValues(t, it.streams, n)
<1>1. /\ t \in Tables /\ it.index \in Nat /\ it.scale_factor = s
      /\ StreamsAt(t, s, it.index, it.streams, Residues)
  BY DEF IteratorAt, IsIterator, Tables
<1>2. DOMAIN it.streams = Columns(t, s)
  BY <1>1 DEF StreamsAt
<1>3. \A col \in Columns(t, s) : n[col] \in Nat
  BY <1>2
<1>4. StreamsAt(t, s, it.index, all, Residues)
  <2> HIDE DEF t, n
  <2> QED BY <1>1, <1>3, ResiduesClosed, TakeAt
<1>5. PICK drawn :
        /\ drawn = all \/ drawn = [all EXCEPT !.return_flag = it.streams.return_flag]
        /\ LET part_key == KeyIn(drawn.part_key, MaxPartKey(it.scale_factor))
           IN  /\ NextRow(t, it).row.part_key = ToInt(part_key)
               /\ NextRow(t, it).row.supplier_key
                    = ToInt(SelectPartSupplier(part_key, ValueIn(drawn.supplier_number, 0, SuppliersPerPart - 1),
                                               SupplierKeyMax(it.scale_factor)))
  <2> DEFINE received == IsInPast(ShipDateOf(all, it.order_date) + ValueIn(all.receipt_date, 1, 30))
             drawn == IF received THEN all ELSE [all EXCEPT !.return_flag = it.streams.return_flag]
  <2>1. LET part_key == KeyIn(drawn.part_key, MaxPartKey(it.scale_factor))
        IN  /\ NextLineitem(it).row.part_key = ToInt(part_key)
            /\ NextLineitem(it).row.supplier_key
                 = ToInt(SelectPartSupplier(part_key, ValueIn(drawn.supplier_number, 0, SuppliersPerPart - 1),
                                            SupplierKeyMax(it.scale_factor)))
    BY ZenonT(60) DEF NextLineitem
  <2>2. NextRow(t, it) = NextLineitem(it)
    BY DEF NextRow
  <2>3. drawn = all \/ drawn = [all EXCEPT !.return_flag = it.streams.return_flag]
    <3> HIDE DEF received, all
    <3> QED OBVIOUS
  <2> HIDE DEF drawn, all
  <2> QED BY <2>1, <2>2, <2>3
<1>6. "part_key" \in Columns(t, s) /\ "supplier_number" \in Columns(t, s)
  BY LineitemColumns
<1> HIDE DEF t, n, all
<1>7. drawn.part_key = all["part_key"] /\ drawn.supplier_number = all["supplier_number"]
  BY <1>4, <1>5, <1>6 DEF StreamsAt
<1> SUFFICES ASSUME Fits("part", s)
             PROVE  /\ NextRow(t, it).row.part_key \in 1..MaxPartKey(s)
                    /\ \E i \in 0..3 :
                         NextRow(t, it).row.supplier_key = SupplierAt(NextRow(t, it).row.part_key - 1, i, s)
  BY DEF Refers, t
<1>8. PICK max_key \in 1..MaxInt : max_key = MaxPartKey(s) /\ MaxInt \in Int
  BY KeyLimits, RandsAssumption DEF MaxInt
<1>9. PICK key \in 1..max_key : key = KeyIn(drawn.part_key, max_key)
  BY <1>1, <1>4, <1>6, <1>7, ColumnKey
<1>10. PICK i \in 0..3 : i = ValueIn(drawn.supplier_number, 0, SuppliersPerPart - 1)
  <2>1. 0 \in Int /\ 3 \in Int /\ 0 <= 3 /\ SuppliersPerPart - 1 = 3
    BY DEF SuppliersPerPart
  <2>2. drawn.supplier_number.seed \in Residues
    <3>1. t \in {"orders", "lineitem"}
      BY DEF t
    <3> QED BY <1>4, <1>6, <1>7, <3>1, NeverWide, ResiduesClosed
  <2> QED BY <2>1, <2>2, ValueInRange
<1>11. ToInt(key) = key /\ (key - 1) + 1 = key
  <2>1. key \in 0..MaxInt
    BY <1>8
  <2> QED BY <2>1, ToIntFits
<1>12. NextRow(t, it).row.part_key = key
  BY <1>1, <1>5, <1>8, <1>9, <1>11
<1>13. NextRow(t, it).row.supplier_key = ToInt(SelectPartSupplier(key, i, SupplierKeyMax(s)))
  BY <1>1, <1>5, <1>8, <1>9, <1>10
<1>14. SupplierAt(key - 1, i, s) = ToInt(SelectPartSupplier(key, i, SupplierKeyMax(s)))
  BY <1>11 DEF SupplierAt
<1> QED BY <1>8, <1>12, <1>13, <1>14

LEMMA NationRefers ==
  ASSUME NEW s \in Scales, NEW it, IteratorAt("nation", s, it, Residues), it.index < Len(NationWeights)
  PROVE  Refers("nation", NextRow("nation", it).row, s)
<1>1. PICK t \in Tables : t = "nation"
  BY DEF Tables
<1>2. it.index \in 0..24 /\ it.index <= Len(NationWeights)
  <2>1. Len(NationWeights) = 25 /\ it.index \in Nat
    BY RegionWeights DEF IteratorAt, IsIterator
  <2> QED BY <2>1
<1>3. it.region_cum_sum = RegionSum(it.index)
  BY <1>2 DEF IteratorAt
<1>4. PICK i \in 0..25, j \in 1..25 : i = it.index /\ j = i + 1
  BY <1>2
<1>5. it.region_cum_sum = Regions[j]
  BY <1>3, <1>4, RegionSumForm
<1>6. Regions[j + 1] = Regions[j] + NationWeights[j]
  BY RegionWeights
<1>7. Regions[j + 1] \in 0..4
  <2>1. PICK m \in 0..25 : m = j
    OBVIOUS
  <2> QED BY <2>1, RegionWeights
<1>8. PICK one : one = OneRow(it, TakeValues(t, it.streams, Same(it.streams, 1)), it.index)
  OBVIOUS
<1>9. PICK region : region = it.region_cum_sum + NationWeights[it.index + 1]
  OBVIOUS
<1>10. NextRow(t, it) = [one EXCEPT !.iter.region_cum_sum = region,
                                    !.row = [key |-> @.key, region |-> region, columns |-> @.columns]]
  BY <1>1, <1>8, <1>9 DEF NextRow, NextNation
<1>11. DOMAIN one = {"iter", "row"}
  BY <1>8 DEF OneRow
<1>12. NextRow(t, it).row = [key |-> one.row.key, region |-> region, columns |-> one.row.columns]
  BY <1>10, <1>11
<1>13. NextRow(t, it).row.region = region
  BY <1>12
<1>14. region \in 0..4
  BY <1>4, <1>5, <1>6, <1>7, <1>9
<1> QED BY <1>1, <1>13, <1>14 DEF Refers

LEMMA NextRefers ==
  ASSUME NEW s \in Scales, NEW t \in Tables, NEW it, IteratorAt(t, s, it, Residues),
         t = "nation" => it.index < Len(NationWeights)
  PROVE  Refers(t, NextRow(t, it).row, s)
<1>1. CASE t \notin {"orders", "lineitem", "nation"}
  BY <1>1 DEF Refers
<1> QED BY <1>1, OrderRefers, LineitemRefers, NationRefers
-----------------------------------------------------------------------------
(* An order as its own row tells it, and its lines.                         *)

\* A column of both tables, after n values of order u; and what is drawn there.
Shared(s, col, u, n) == Draws(AdvanceRows(Streams("lineitem", s)[col], u), n)
LinesAt(s, u) == ValueIn(Shared(s, "line_count", u, 1), 1, LineCountMax)
DateAt(s, u) == ValueIn(Shared(s, "order_date", u, 1), KOrderDateMin, KOrderDateMax)
SeedsAt(s, u, i) == [col \in LineColumns |-> Shared(s, col, u, i).seed]
ShippedAt(s, u, i) == IsInPast(DateAt(s, u) + ValueIn(Shared(s, "ship_date", u, i), 1, 121))

LEMMA SharedStreams ==
  ASSUME NEW s \in Scales, NEW t \in {"orders", "lineitem"}, NEW col \in OrderColumns \cup LineColumns
  PROVE  /\ col \in Columns(t, s) /\ Streams(t, s)[col] = Streams("lineitem", s)[col]
         /\ DrawsPerValue(t, col) = 1
<1>1. PICK l \in {"orders", "lineitem"} : l = "lineitem"
  OBVIOUS
<1>2. Streams(t, s)[col] = Streams(l, s)[col] /\ col \in Columns(t, s)
  BY SharedColumns
<1>3. DrawsPerValue(t, col) = 1
  BY DEF DrawsPerValue, OrderColumns, LineColumns
<1> QED BY <1>1, <1>2, <1>3

\* Where a shared column is depends on how often it was drawn, in either table.
LEMMA SharedAt ==
  ASSUME NEW s \in Scales, ~s.wide, NEW t \in {"orders", "lineitem"}, NEW u \in Nat,
         NEW streams, StreamsAt(t, s, u, streams, Residues), NEW col \in OrderColumns \cup LineColumns
  PROVE  streams[col] = Shared(s, col, u, streams[col].usage)
<1>1. PICK c : c = Streams(t, s)[col]
  OBVIOUS
<1>2. c = Streams("lineitem", s)[col] /\ col \in Columns(t, s)
  BY <1>1, SharedStreams
<1>3. t \in Tables
  BY DEF Tables
<1>4. ~c.wide
  <2>1. Streams(t, s)[col].wide => s.wide
    BY <1>2, <1>3, ResiduesClosed, ColumnForm
  <2> QED BY <1>1, <2>1
<1>5. At(c, u, streams[col], Residues)
  BY <1>1, <1>2 DEF StreamsAt
<1> QED BY <1>2, <1>4, <1>5 DEF At, Shared

\* Drawing n[col] more values of it.
LEMMA SharedTake ==
  ASSUME NEW s \in Scales, ~s.wide, NEW t \in {"orders", "lineitem"}, NEW u \in Nat,
         NEW streams, StreamsAt(t, s, u, streams, Residues),
         NEW n, \A col \in Columns(t, s) : n[col] \in Nat,
         NEW col \in OrderColumns \cup LineColumns, NEW m \in Nat, streams[col].usage = m
  PROVE  TakeValues(t, streams, n)[col] = Shared(s, col, u, m + n[col])
<1>1. t \in Tables
  BY DEF Tables
<1>2. col \in Columns(t, s) /\ DrawsPerValue(t, col) = 1
  BY SharedStreams
<1>3. /\ StreamsAt(t, s, u, TakeValues(t, streams, n), Residues)
      /\ TakeValues(t, streams, n)[col].usage = streams[col].usage + n[col] * DrawsPerValue(t, col)
  BY <1>1, <1>2, ResiduesClosed, TakeAt
<1>4. TakeValues(t, streams, n)[col].usage = m + n[col]
  <2>1. PICK x \in Nat : x = n[col]
    BY <1>2
  <2> QED BY <1>2, <1>3, <2>1
<1> QED BY <1>3, <1>4, SharedAt

LEMMA LinesOfOrder == ASSUME NEW s \in Scales, NEW u \in Nat PROVE LinesAt(s, u) \in 1..7
<1>1. PICK t \in Tables : t = "lineitem"
  BY DEF Tables
<1>2. PICK c : c = Streams(t, s)["line_count"]
  OBVIOUS
<1>3. "line_count" \in Columns(t, s)
  BY <1>1, SharedStreams DEF OrderColumns
<1>4. IsColumn(c, Residues)
  BY <1>2, <1>3, ResiduesClosed, ColumnForm
<1>5. At(c, u, AdvanceRows(c, u), Residues)
  BY <1>4, ResiduesClosed, AtStart
<1>6. PICK r : r = Draws(AdvanceRows(c, u), 1)
  OBVIOUS
<1>7. At(c, u, r, Residues)
  BY <1>4, <1>5, <1>6, ResiduesClosed, AtDraws
<1>8. r.seed \in Residues
  <2>1. ~c.wide
    BY <1>2, <1>3, ResiduesClosed, ColumnForm DEF OrderColumns
  <2> QED BY <1>7, <2>1 DEF At, Of
<1>9. ValueIn(r, 1, 7) \in 1..7
  <2>1. 1 \in Int /\ 7 \in Int /\ 1 <= 7
    OBVIOUS
  <2> QED BY <1>8, <2>1, ValueInRange
<1> QED BY <1>1, <1>2, <1>6, <1>9 DEF LinesAt, Shared, LineCountMax

\* None, some or all of n lines.
LEMMA CountOf ==
  ASSUME NEW n \in Nat, NEW P \in SUBSET (1..n)
  PROVE  /\ Cardinality(P) \in 0..n
         /\ Cardinality(P) = 0 <=> P = {}
         /\ Cardinality(P) = n <=> P = 1..n
<1>1. IsFiniteSet(1..n) /\ Cardinality(1..n) = n
  BY FS_Interval
<1>2. IsFiniteSet(P) /\ Cardinality(P) <= n /\ (Cardinality(1..n) = Cardinality(P) => 1..n = P)
  BY <1>1, FS_Subset
<1>3. Cardinality(P) \in Nat
  BY <1>2, FS_CardinalityType
<1>4. Cardinality(P) = 0 <=> P = {}
  BY <1>2, FS_EmptySet
<1>5. PICK c \in Nat : c = Cardinality(P)
  BY <1>3
<1>6. c <= n /\ (n = c => 1..n = P)
  BY <1>1, <1>2, <1>5
<1>7. P = 1..n => c = n
  BY <1>1, <1>5
<1> QED BY <1>4, <1>5, <1>6, <1>7

\* What the row of order u says.
TellsOrder(s, u, row) ==
  /\ row.key = ToInt(MakeOrderKey(u + 1)) /\ row.order_date = DateAt(s, u)
  /\ row.lines = [i \in 1..LinesAt(s, u) |-> SeedsAt(s, u, i)]
  /\ row.status = IF \A i \in 1..LinesAt(s, u) : ShippedAt(s, u, i) THEN "F"
                  ELSE IF \E i \in 1..LinesAt(s, u) : ShippedAt(s, u, i) THEN "P" ELSE "O"

LEMMA OrderTold ==
  ASSUME NEW s \in Scales, ~s.wide, NEW it, IteratorAt("orders", s, it, Residues)
  PROVE  TellsOrder(s, it.index, NextRow("orders", it).row)
<1>1. PICK t \in Tables : t = "orders" /\ t \in {"orders", "lineitem"} /\ t \in OneRowTables
  BY DEF Tables, OneRowTables
<1>2. PICK u \in Nat : u = it.index
  BY DEF IteratorAt, IsIterator
<1>3. /\ it.scale_factor = s /\ StreamsAt(t, s, u, it.streams, Residues)
      /\ \A col \in Columns(t, s) : it.streams[col].usage = 0
  <2>1. AtRestAll(t, s, it.streams)
    BY <1>1, RestOfOneRow
  <2> QED BY <1>1, <1>2, <2>1 DEF IteratorAt, AtRestAll
<1>4. DOMAIN it.streams = Columns(t, s)
  BY <1>3 DEF StreamsAt
<1>5. DOMAIN LineStreams(it.scale_factor) = LineColumns
  BY <1>3, LineStreamsFresh
<1> DEFINE first == TakeValues("orders", it.streams, Same(it.streams, 1))
           n(i) == [col \in DOMAIN it.streams |-> IF col \in DOMAIN LineStreams(it.scale_factor) THEN i ELSE 1]
           after(i) == TakeValues("orders", it.streams, n(i))
           line_count == LineCountOf(first)
           shipped == {i \in 1..line_count : IsInPast(ShipDateOf(after(i), OrderDateOf(first)))}
<1>6. ASSUME NEW col \in OrderColumns \cup LineColumns
      PROVE  first[col] = Shared(s, col, u, 1)
  <2>1. \A c \in Columns(t, s) : Same(it.streams, 1)[c] = 1
    BY <1>4 DEF Same
  <2>2. it.streams[col].usage = 0 /\ col \in Columns(t, s)
    BY <1>1, <1>3, SharedStreams
  <2>3. TakeValues(t, it.streams, Same(it.streams, 1))[col] = Shared(s, col, u, 0 + Same(it.streams, 1)[col])
    BY <1>1, <1>3, <2>1, <2>2, SharedTake
  <2> QED BY <1>1, <2>1, <2>2, <2>3
<1>7. ASSUME NEW i \in Nat, NEW col \in LineColumns
      PROVE  after(i)[col] = Shared(s, col, u, i)
  <2>1. \A c \in Columns(t, s) : n(i)[c] \in Nat
    BY <1>4
  <2>2. it.streams[col].usage = 0 /\ col \in Columns(t, s)
    BY <1>1, <1>3, SharedStreams
  <2>3. n(i)[col] = i
    BY <1>4, <1>5, <2>2
  <2> HIDE DEF n
  <2>4. TakeValues(t, it.streams, n(i))[col] = Shared(s, col, u, 0 + n(i)[col])
    BY <1>1, <1>3, <2>1, <2>2, SharedTake
  <2> QED BY <1>1, <2>3, <2>4
<1>8. LET row == NextOrder(it).row
      IN  /\ row.key = ToInt(MakeOrderKey(it.index + 1)) /\ row.order_date = OrderDateOf(first)
          /\ row.lines = [i \in 1..line_count |-> [col \in DOMAIN LineStreams(it.scale_factor) |-> after(i)[col].seed]]
          /\ row.status = CASE Cardinality(shipped) = line_count -> "F"
                            [] 0 < Cardinality(shipped) /\ Cardinality(shipped) < line_count -> "P"
                            [] OTHER -> "O"
  BY ZenonT(60) DEF NextOrder
<1>9. PICK row : row = NextRow("orders", it).row /\ row = NextOrder(it).row
  BY DEF NextRow
<1> HIDE DEF first, n, after
<1>10. line_count = LinesAt(s, u) /\ OrderDateOf(first) = DateAt(s, u)
  <2>1. first.line_count = Shared(s, "line_count", u, 1) /\ first.order_date = Shared(s, "order_date", u, 1)
    BY <1>6 DEF OrderColumns
  <2> QED BY <2>1 DEF LineCountOf, OrderDateOf, LinesAt, DateAt
<1>11. LinesAt(s, u) \in 1..7
  BY LinesOfOrder
<1>12. PICK k \in 1..7 : k = LinesAt(s, u) /\ k = line_count
  BY <1>10, <1>11
<1>13. ASSUME NEW i \in 1..k
       PROVE  /\ [col \in DOMAIN LineStreams(it.scale_factor) |-> after(i)[col].seed] = SeedsAt(s, u, i)
              /\ IsInPast(ShipDateOf(after(i), OrderDateOf(first))) <=> ShippedAt(s, u, i)
  <2>1. \A col \in LineColumns : after(i)[col] = Shared(s, col, u, i)
    BY <1>7, <1>12
  <2>2. after(i).ship_date = Shared(s, "ship_date", u, i)
    BY <2>1 DEF LineColumns
  <2>3. [col \in DOMAIN LineStreams(it.scale_factor) |-> after(i)[col].seed] = SeedsAt(s, u, i)
    BY <1>5, <2>1 DEF SeedsAt
  <2> QED BY <1>10, <2>2, <2>3 DEF ShipDateOf, ShippedAt
<1>14. row.lines = [i \in 1..LinesAt(s, u) |-> SeedsAt(s, u, i)]
  BY <1>8, <1>9, <1>12, <1>13
<1>15. shipped = {i \in 1..k : ShippedAt(s, u, i)}
  BY <1>12, <1>13
<1>16. PICK P \in SUBSET (1..k) : P = shipped /\ P = {i \in 1..k : ShippedAt(s, u, i)}
  BY <1>15
<1>17. row.status = CASE Cardinality(P) = k -> "F"
                      [] 0 < Cardinality(P) /\ Cardinality(P) < k -> "P"
                      [] OTHER -> "O"
  BY <1>8, <1>9, <1>12, <1>16
<1> HIDE DEF line_count, shipped
<1>18. /\ Cardinality(P) \in 0..k /\ (Cardinality(P) = 0 <=> P = {}) /\ (Cardinality(P) = k <=> P = 1..k)
  BY CountOf
<1>19. row.status = IF \A i \in 1..k : ShippedAt(s, u, i) THEN "F"
                    ELSE IF \E i \in 1..k : ShippedAt(s, u, i) THEN "P" ELSE "O"
  <2>1. CASE P = 1..k
    <3>1. \A i \in 1..k : ShippedAt(s, u, i)
      BY <1>16, <2>1
    <3> QED BY <1>17, <1>18, <2>1, <3>1
  <2>2. CASE P # 1..k /\ P # {}
    <3>1. (\E i \in 1..k : ShippedAt(s, u, i)) /\ ~(\A i \in 1..k : ShippedAt(s, u, i))
      BY <1>16, <2>2
    <3> QED BY <1>17, <1>18, <2>2, <3>1
  <2>3. CASE P = {}
    <3>1. ~(\E i \in 1..k : ShippedAt(s, u, i)) /\ 1 \in 1..k
      BY <1>16, <2>3
    <3> QED BY <1>17, <1>18, <2>3, <3>1
  <2> QED BY <2>1, <2>2, <2>3
<1> QED BY <1>2, <1>8, <1>9, <1>10, <1>12, <1>14, <1>19 DEF TellsOrder

\* lineitem has drawn the order it is in, and its lines up to the next.
Exact(s, it) ==
  /\ it.line_count = LinesAt(s, it.index) - 1 /\ it.order_date = DateAt(s, it.index)
  /\ \A col \in LineColumns : it.streams[col].usage = it.line

\* What line i of order u says.
TellsLine(s, u, i, row) ==
  /\ row.key = ToInt(MakeOrderKey(u + 1)) /\ row.number = i /\ row.order_date = DateAt(s, u)
  /\ row.line = SeedsAt(s, u, i)
  /\ row.status = IF ShippedAt(s, u, i) THEN "F" ELSE "O"

LEMMA DrawOrderExact ==
  ASSUME NEW s \in Scales, ~s.wide, NEW it, BetweenOrders(s, it, Residues)
  PROVE  Exact(s, DrawOrder(it)) /\ DrawOrder(it).line = 0
<1>1. PICK t \in Tables : t = "lineitem" /\ t \in {"orders", "lineitem"}
  BY DEF Tables
<1>2. PICK u \in Nat : u = it.index
  BY DEF BetweenOrders, IsIterator
<1>3. /\ IsIterator(it) /\ StreamsAt(t, s, u, it.streams, Residues)
      /\ \A col \in Columns(t, s) : it.streams[col].usage = 0
  BY <1>1, <1>2 DEF BetweenOrders, AtRestAll
<1>4. DOMAIN it.streams = Columns(t, s)
  BY <1>3 DEF StreamsAt
<1> DEFINE n == [col \in DOMAIN it.streams |-> IF col \in DOMAIN OrderStreams THEN 1 ELSE 0]
           drawn == TakeValues("lineitem", it.streams, n)
           next == DrawOrder(it)
<1>5. next = [it EXCEPT !.streams = drawn, !.line = 0,
                        !.line_count = LineCountOf(drawn) - 1, !.order_date = OrderDateOf(drawn)]
  BY DEF DrawOrder
<1>6. \A col \in Columns(t, s) : n[col] = IF col \in OrderColumns THEN 1 ELSE 0
  BY <1>4, LineitemColumn
<1>7. \A col \in Columns(t, s) : n[col] \in Nat
  BY <1>6
<1> HIDE DEF n, next
<1>8. ASSUME NEW col \in OrderColumns \cup LineColumns
      PROVE  /\ drawn[col] = Shared(s, col, u, IF col \in OrderColumns THEN 1 ELSE 0)
             /\ drawn[col].usage = IF col \in OrderColumns THEN 1 ELSE 0
  <2>1. it.streams[col].usage = 0 /\ col \in Columns(t, s) /\ DrawsPerValue(t, col) = 1
    BY <1>1, <1>3, SharedStreams
  <2>2. TakeValues(t, it.streams, n)[col] = Shared(s, col, u, 0 + n[col])
    BY <1>1, <1>3, <1>7, <2>1, SharedTake
  <2>3. TakeValues(t, it.streams, n)[col].usage = it.streams[col].usage + n[col] * DrawsPerValue(t, col)
    BY <1>1, <1>3, <1>7, <2>1, ResiduesClosed, TakeAt
  <2> QED BY <1>1, <1>6, <2>1, <2>2, <2>3
<1> HIDE DEF drawn
<1>9. /\ next.line = 0 /\ next.index = u /\ next.streams = drawn
      /\ next.line_count = LineCountOf(drawn) - 1 /\ next.order_date = OrderDateOf(drawn)
  BY <1>2, <1>3, <1>5 DEF IsIterator, IteratorFields
<1>10. LineCountOf(drawn) = LinesAt(s, u) /\ OrderDateOf(drawn) = DateAt(s, u)
  <2>1. drawn.line_count = Shared(s, "line_count", u, 1) /\ drawn.order_date = Shared(s, "order_date", u, 1)
    BY <1>8 DEF OrderColumns
  <2> QED BY <2>1 DEF LineCountOf, OrderDateOf, LinesAt, DateAt
<1>11. \A col \in LineColumns : drawn[col].usage = 0
  BY <1>8 DEF OrderColumns, LineColumns
<1> QED BY <1>9, <1>10, <1>11 DEF Exact, next

LEMMA LineTold ==
  ASSUME NEW s \in Scales, ~s.wide, NEW it, IteratorAt("lineitem", s, it, Residues), ~Done(it), Exact(s, it)
  PROVE  LET next == NextRow("lineitem", it)
         IN  /\ it.line + 1 \in 1..LinesAt(s, it.index)
             /\ TellsLine(s, it.index, it.line + 1, next.row)
             /\ IF it.line + 1 < LinesAt(s, it.index)
                THEN next.iter.index = it.index /\ next.iter.line = it.line + 1 /\ Exact(s, next.iter)
                ELSE /\ next.iter.index = it.index + 1
                     /\ ~Done(next.iter) => next.iter.line = 0 /\ Exact(s, next.iter)
<1>1. PICK t \in Tables : t = "lineitem" /\ t \in {"orders", "lineitem"}
  BY DEF Tables
<1>2. PICK u \in Nat, line \in Nat : u = it.index /\ line = it.line
  BY DEF IteratorAt, IsIterator
<1>3. /\ IsIterator(it) /\ StreamsAt(t, s, u, it.streams, Residues) /\ it.line_count \in 0..6
      /\ line <= it.line_count
      /\ it.line_count = LinesAt(s, u) - 1 /\ it.order_date = DateAt(s, u)
      /\ \A col \in LineColumns : it.streams[col].usage = line
      /\ it.scale_factor = s
  BY <1>1, <1>2 DEF IteratorAt, Exact
<1>4. PICK k \in 1..7 : k = LinesAt(s, u) /\ it.line_count = k - 1 /\ line + 1 \in 1..k
  BY <1>2, <1>3, LinesOfOrder
<1>5. DOMAIN it.streams = Columns(t, s)
  BY <1>3 DEF StreamsAt
<1> DEFINE n == [col \in DOMAIN it.streams |-> IF col \in DOMAIN OrderStreams THEN 0 ELSE 1]
           all == TakeValues("lineitem", it.streams, n)
<1>6. \A col \in Columns(t, s) : n[col] = IF col \in OrderColumns THEN 0 ELSE 1
  BY <1>5, LineitemColumn
<1>7. PICK drawn :
        /\ drawn = all \/ drawn = [all EXCEPT !.return_flag = it.streams.return_flag]
        /\ LET row == NextLineitem(it).row
               ship_date == ShipDateOf(all, it.order_date)
           IN  /\ row.key = ToInt(MakeOrderKey(it.index + 1)) /\ row.number = it.line + 1
               /\ row.order_date = it.order_date
               /\ row.status = IF IsInPast(ship_date) THEN "F" ELSE "O"
               /\ row.line = Restrict(Seeds(drawn), DOMAIN LineStreams(it.scale_factor))
        /\ LET moved == [it EXCEPT !.streams = drawn, !.line = @ + 1]
               finished == [moved EXCEPT !.streams = FinishRow(drawn), !.index = @ + 1]
           IN  NextLineitem(it).iter = CASE moved.line <= it.line_count -> moved
                                         [] moved.line > it.line_count /\ ~Done(finished) -> DrawOrder(finished)
                                         [] OTHER -> finished
  <2> DEFINE received == IsInPast(ShipDateOf(all, it.order_date) + ValueIn(all.receipt_date, 1, 30))
             drawn == IF received THEN all ELSE [all EXCEPT !.return_flag = it.streams.return_flag]
             moved == [it EXCEPT !.streams = drawn, !.line = @ + 1]
             finished == [moved EXCEPT !.streams = FinishRow(drawn), !.index = @ + 1]
  <2>1. LET row == NextLineitem(it).row
            ship_date == ShipDateOf(all, it.order_date)
        IN  /\ row.key = ToInt(MakeOrderKey(it.index + 1)) /\ row.number = it.line + 1
            /\ row.order_date = it.order_date
            /\ row.status = IF IsInPast(ship_date) THEN "F" ELSE "O"
            /\ row.line = Restrict(Seeds(drawn), DOMAIN LineStreams(it.scale_factor))
    BY ZenonT(60) DEF NextLineitem
  <2>2. NextLineitem(it).iter = CASE moved.line <= it.line_count -> moved
                                  [] moved.line > it.line_count /\ ~Done(finished) -> DrawOrder(finished)
                                  [] OTHER -> finished
    BY ZenonT(60) DEF NextLineitem
  <2>3. drawn = all \/ drawn = [all EXCEPT !.return_flag = it.streams.return_flag]
    <3> HIDE DEF received, all
    <3> QED OBVIOUS
  <2> HIDE DEF drawn, all
  <2> QED BY <2>1, <2>2, <2>3
<1>8. PICK next : next = NextRow("lineitem", it) /\ next = NextLineitem(it)
  BY DEF NextRow
<1>9. \A col \in Columns(t, s) : n[col] \in Nat
  BY <1>6
<1> HIDE DEF n
<1>10. StreamsAt(t, s, u, all, Residues)
  BY <1>1, <1>3, <1>9, ResiduesClosed, TakeAt
<1>11. ASSUME NEW col \in LineColumns
       PROVE  all[col] = Shared(s, col, u, line + 1) /\ all[col].usage = line + 1
  <2>1. it.streams[col].usage = line /\ col \in Columns(t, s) /\ DrawsPerValue(t, col) = 1
    BY <1>1, <1>3, SharedStreams
  <2>2. n[col] = 1
    BY <1>6, <2>1 DEF OrderColumns, LineColumns
  <2>3. TakeValues(t, it.streams, n)[col] = Shared(s, col, u, line + n[col])
    BY <1>1, <1>3, <1>9, <2>1, SharedTake
  <2>4. TakeValues(t, it.streams, n)[col].usage = it.streams[col].usage + n[col] * DrawsPerValue(t, col)
    BY <1>1, <1>3, <1>9, <2>1, ResiduesClosed, TakeAt
  <2> QED BY <1>1, <2>1, <2>2, <2>3, <2>4
<1> HIDE DEF all
<1>12. DOMAIN drawn = Columns(t, s) /\ \A col \in LineColumns : drawn[col] = all[col]
  <2>1. all = [col \in Columns(t, s) |-> all[col]]
    BY <1>10 DEF StreamsAt
  <2>2. \A col \in LineColumns : col # "return_flag" /\ col \in Columns(t, s)
    BY <1>1, SharedStreams DEF LineColumns
  <2>3. CASE drawn = all
    BY <2>1, <2>3
  <2>4. CASE drawn = [all EXCEPT !.return_flag = it.streams.return_flag]
    <3>1. drawn = [col \in Columns(t, s) |-> IF col = "return_flag" THEN it.streams["return_flag"] ELSE all[col]]
      BY <2>1, <2>4
    <3> QED BY <2>2, <3>1
  <2> QED BY <1>7, <2>3, <2>4
<1>13. TellsLine(s, u, line + 1, next.row)
  <2>1. next.row.line = SeedsAt(s, u, line + 1)
    <3>1. DOMAIN LineStreams(it.scale_factor) = LineColumns
      BY <1>3, LineStreamsFresh
    <3>2. \A col \in LineColumns : col \in Columns(t, s)
      BY <1>1, SharedStreams
    <3>3. next.row.line = Restrict(Seeds(drawn), LineColumns)
      BY <1>7, <1>8, <3>1
    <3>4. Seeds(drawn) = [col \in Columns(t, s) |-> drawn[col].seed]
      BY <1>12 DEF Seeds
    <3>5. Restrict(Seeds(drawn), LineColumns) = [col \in LineColumns |-> Seeds(drawn)[col]]
      BY DEF Restrict
    <3>6. ASSUME NEW col \in LineColumns
          PROVE  Seeds(drawn)[col] = Shared(s, col, u, line + 1).seed
      <4>1. Seeds(drawn)[col] = drawn[col].seed
        BY <3>2, <3>4
      <4> QED BY <1>11, <1>12, <4>1
    <3>7. next.row.line = [col \in LineColumns |-> Shared(s, col, u, line + 1).seed]
      BY <3>3, <3>5, <3>6
    <3> QED BY <3>7 DEF SeedsAt
  <2>2. ShipDateOf(all, it.order_date) = DateAt(s, u) + ValueIn(Shared(s, "ship_date", u, line + 1), 1, 121)
    <3>1. all.ship_date = Shared(s, "ship_date", u, line + 1)
      BY <1>11 DEF LineColumns
    <3> QED BY <1>3, <3>1 DEF ShipDateOf
  <2> QED BY <1>2, <1>3, <1>7, <1>8, <2>1, <2>2 DEF TellsLine, ShippedAt
<1>14. PICK moved : moved = [it EXCEPT !.streams = drawn, !.line = @ + 1]
  OBVIOUS
<1>15. PICK finished : finished = [moved EXCEPT !.streams = FinishRow(drawn), !.index = @ + 1]
  OBVIOUS
<1>16. /\ moved.line = line + 1 /\ moved.index = u /\ moved.streams = drawn /\ moved.line_count = it.line_count
       /\ moved.order_date = it.order_date
       /\ DOMAIN moved = IteratorFields
  BY <1>2, <1>3, <1>14 DEF IsIterator, IteratorFields
<1>17. finished.index = u + 1
  BY <1>15, <1>16 DEF IteratorFields
<1>18. next.iter = CASE moved.line <= it.line_count -> moved
                     [] moved.line > it.line_count /\ ~Done(finished) -> DrawOrder(finished)
                     [] OTHER -> finished
  BY <1>7, <1>8, <1>14, <1>15
<1>19. CASE line + 1 < k
  <2>1. next.iter = moved
    BY <1>4, <1>16, <1>18, <1>19
  <2>2. Exact(s, moved)
    BY <1>3, <1>11, <1>12, <1>16 DEF Exact
  <2> QED BY <1>2, <1>4, <1>8, <1>13, <1>16, <1>19, <2>1, <2>2
<1>20. CASE ~(line + 1 < k)
  <2>1. next.iter = IF Done(finished) THEN finished ELSE DrawOrder(finished)
    BY <1>4, <1>16, <1>18, <1>20
  <2>2. PICK after :
          /\ BetweenOrders(s, after, Residues)
          /\ after.index = it.index + 1 /\ after.end = it.end
          /\ next.iter.index = it.index + 1 => next.iter = IF Done(after) THEN after ELSE DrawOrder(after)
    BY <1>1, <1>8, ResiduesClosed, LineitemAt
  <2>3. next.iter.index = u + 1
    <3>1. DOMAIN finished = IteratorFields /\ finished.line = line + 1 /\ finished.end = it.end
      BY <1>14, <1>15, <1>16, <1>3 DEF IsIterator, IteratorFields
    <3>2. IsIterator(finished)
      BY <1>3, <1>17, <3>1 DEF IsIterator
    <3> QED BY <1>17, <2>1, <3>2, DrawOrderPlace
  <2>4. ASSUME ~Done(next.iter)
        PROVE  next.iter.line = 0 /\ Exact(s, next.iter)
    <3>1. ~Done(after) \/ next.iter = after
      BY <1>2, <2>2, <2>3
    <3>2. next.iter = DrawOrder(after)
      BY <1>2, <2>2, <2>3, <2>4
    <3> QED BY <2>2, <3>2, DrawOrderExact
  <2> QED BY <1>2, <1>4, <1>8, <1>13, <1>20, <2>3, <2>4
<1> QED BY <1>19, <1>20

\* The iterator before row n of the path.
OnPath(t, s, n) == Until(Path(t, s)[n], Path(t, s)[n].index + 2)

LEMMA UntilAt ==
  ASSUME NEW s, NEW t, NEW it, IteratorAt(t, s, it, Residues), t # "lineitem" \/ ~Done(it),
         NEW p, p = Place(it), NEW other, other = Until(p, p.index + 2)
  PROVE  /\ IteratorAt(t, s, other, Residues) /\ ~Done(other)
         /\ it.streams = other.streams /\ it.index = other.index /\ it.line = other.line
         /\ it.line_count = other.line_count /\ it.order_date = other.order_date
         /\ p.index = it.index /\ p.line = it.line
<1>1. IsIterator(it) /\ it.index \in Nat /\ it.line \in Nat
  BY DEF IteratorAt, IsIterator
<1>2. /\ p.streams = it.streams /\ p.index = it.index /\ p.line = it.line /\ p.line_count = it.line_count
      /\ p.order_date = it.order_date /\ p.region_cum_sum = it.region_cum_sum /\ p.scale_factor = it.scale_factor
  BY DEF Place
<1>3. PICK end \in Nat : end = p.index + 2 /\ end > it.index
  BY <1>1, <1>2
<1>4. /\ IsIterator(other) /\ other.end = end
      /\ it.streams = other.streams /\ it.index = other.index /\ it.line = other.line
      /\ it.line_count = other.line_count /\ it.order_date = other.order_date
      /\ it.region_cum_sum = other.region_cum_sum /\ it.scale_factor = other.scale_factor
  BY <1>1, <1>2, <1>3, UntilForm
<1>5. ~Done(other)
  BY <1>1, <1>3, <1>4 DEF Done
<1>6. t = "lineitem" => it.line <= it.line_count
  BY DEF IteratorAt
<1>7. IteratorAt(t, s, other, Residues)
  BY <1>4, <1>5, <1>6 DEF IteratorAt
<1> QED BY <1>2, <1>4, <1>5, <1>7

LEMMA OrdersPath ==
  ASSUME NEW s \in Scales, ~s.wide, NEW n \in Nat
  PROVE  /\ Path("orders", s)[n].index = n
         /\ TellsOrder(s, n, RowAt("orders", s, n))
<1>1. PICK t \in Tables : t = "orders" /\ t \in OneRowTables
  BY DEF Tables, OneRowTables
<1> DEFINE R == {m \in Nat : Path(t, s)[m].index = m /\ IteratorAt(t, s, OnPath(t, s, m), Residues)
                             /\ OnPath(t, s, m).index = m /\ ~Done(OnPath(t, s, m))}
<1>2. 0 \in R
  <2>1. PICK created : created = Created(t, s, 0, 0)
    OBVIOUS
  <2>2. IteratorAt(t, s, created, Residues) /\ created.index = 0
    <3>1. IteratorAt(t, s, created, Residues)
      BY <1>1, <2>1, ResiduesClosed, CreatedAt
    <3>2. IsCreated(t, s, 0, 0, created)
      BY <2>1, CreatedFields
    <3> QED BY <3>1, <3>2 DEF IsCreated
  <2>3. Path(t, s)[0] = Place(created)
    BY <1>1, <2>1, PathForm DEF Start
  <2> QED BY <1>1, <2>2, <2>3, UntilAt DEF OnPath
<1>3. ASSUME NEW m \in Nat, m \in R PROVE m + 1 \in R
  <2>1. PICK it : it = OnPath(t, s, m)
    OBVIOUS
  <2>2. IteratorAt(t, s, it, Residues) /\ it.index = m /\ ~Done(it)
    BY <1>3, <2>1
  <2>3. PICK next : next = NextRow(t, it).iter
    OBVIOUS
  <2>4. IteratorAt(t, s, next, Residues)
    BY <2>2, <2>3, ResiduesClosed, NextAt
  <2>5. next.index = m + 1
    BY <1>1, <2>2, <2>3, NextOneRow DEF IteratorAt
  <2>6. Path(t, s)[m + 1] = Place(next)
    BY <2>1, <2>3, PathForm DEF NextPlace, OnPath
  <2> QED BY <1>1, <2>4, <2>5, <2>6, UntilAt DEF OnPath
<1>4. n \in R
  <2> HIDE DEF R
  <2> QED BY <1>2, <1>3, Induction
<1>5. RowAt("orders", s, n) = NextRow(t, OnPath(t, s, n)).row
  BY <1>1 DEF RowAt, OnPath
<1> QED BY <1>1, <1>4, <1>5, OrderTold

LEMMA LineitemOnPath ==
  ASSUME NEW s \in Scales, ~s.wide, NEW n \in Nat
  PROVE  /\ IteratorAt("lineitem", s, OnPath("lineitem", s, n), Residues)
         /\ ~Done(OnPath("lineitem", s, n)) /\ Exact(s, OnPath("lineitem", s, n))
         /\ OnPath("lineitem", s, n).index = Path("lineitem", s)[n].index
         /\ OnPath("lineitem", s, n).line = Path("lineitem", s)[n].line
         /\ n = 0 => Path("lineitem", s)[n].index = 0 /\ Path("lineitem", s)[n].line = 0
<1>1. PICK t \in Tables : t = "lineitem"
  BY DEF Tables
<1> DEFINE A(m) == /\ IteratorAt(t, s, OnPath(t, s, m), Residues)
                   /\ ~Done(OnPath(t, s, m)) /\ Exact(s, OnPath(t, s, m))
                   /\ OnPath(t, s, m).index = Path(t, s)[m].index
                   /\ OnPath(t, s, m).line = Path(t, s)[m].line
           R == {m \in Nat : A(m)}
<1>2. ASSUME NEW m \in Nat, NEW it, IteratorAt(t, s, it, Residues), ~Done(it), Exact(s, it),
             Path(t, s)[m] = Place(it)
      PROVE  A(m)
  <2>1. PICK other : other = OnPath(t, s, m)
    OBVIOUS
  <2>2. PICK p : p = Path(t, s)[m]
    OBVIOUS
  <2>3. other = Until(p, p.index + 2)
    BY <2>1, <2>2 DEF OnPath
  <2>4. /\ IteratorAt(t, s, other, Residues) /\ ~Done(other)
        /\ it.streams = other.streams /\ it.index = other.index /\ it.line = other.line
        /\ it.line_count = other.line_count /\ it.order_date = other.order_date
        /\ p.index = it.index /\ p.line = it.line
    BY <1>2, <2>2, <2>3, UntilAt
  <2>5. Exact(s, other)
    BY <1>2, <2>4 DEF Exact
  <2> QED BY <2>1, <2>2, <2>4, <2>5
<1>3. 0 \in R /\ Path(t, s)[0].index = 0 /\ Path(t, s)[0].line = 0
  <2>1. PICK created : created = Created(t, s, 0, 1)
    OBVIOUS
  <2>2. BetweenOrders(s, created, Residues) /\ IsIterator(created) /\ created.index = 0 /\ created.end = 1
    <3>1. IsCreated(t, s, 0, 1, created)
      BY <2>1, CreatedFields
    <3>2. BetweenOrders(s, created, Residues)
      BY <1>1, <2>1, ResiduesClosed, CreatedAt
    <3> QED BY <3>1, <3>2 DEF IsCreated
  <2>3. PICK it : it = DrawOrder(created)
    OBVIOUS
  <2>4. IteratorAt(t, s, it, Residues) /\ Exact(s, it) /\ it.line = 0
    BY <1>1, <2>2, <2>3, ResiduesClosed, DrawOrderAt, DrawOrderExact
  <2>5. it.index = 0 /\ ~Done(it)
    BY <2>2, <2>3, DrawOrderPlace DEF Done
  <2>6. Path(t, s)[0] = Place(it)
    <3>1. Place(it) = Place(DrawOrder(Created(t, s, 0, 0)))
      BY <2>1, <2>3, CreatedOrder
    <3> QED BY <1>1, <3>1, PathForm DEF Start
  <2>7. A(0)
    <3> HIDE DEF A
    <3> QED BY <1>2, <2>4, <2>5, <2>6
  <2>8. Path(t, s)[0].index = it.index /\ Path(t, s)[0].line = it.line
    BY <2>6 DEF Place
  <2> QED BY <2>4, <2>5, <2>7, <2>8
<1>4. ASSUME NEW m \in Nat, m \in R PROVE m + 1 \in R
  <2>1. PICK it : it = OnPath(t, s, m)
    OBVIOUS
  <2>2. IteratorAt(t, s, it, Residues) /\ Exact(s, it) /\ ~Done(it) /\ it.index = Path(t, s)[m].index
    BY <1>4, <2>1
  <2>3. PICK next : next = NextRow(t, it)
    OBVIOUS
  <2>4. IteratorAt(t, s, next.iter, Residues)
    BY <2>2, <2>3, ResiduesClosed, NextAt
  <2>5. next.iter.index \in {it.index, it.index + 1} /\ next.iter.end = it.end /\ it.index \in Nat
    BY <2>2, <2>3, NextRowPlace DEF IteratorAt, IsIterator
  <2>6. it.end = it.index + 2
    BY <2>1, <2>2 DEF OnPath, Until
  <2>7. ~Done(next.iter)
    BY <2>5, <2>6 DEF Done
  <2>8. Exact(s, next.iter)
    BY <1>1, <2>2, <2>3, <2>7, LineTold
  <2>9. Path(t, s)[m + 1] = Place(next.iter)
    BY <2>1, <2>3, PathForm DEF NextPlace, OnPath
  <2>10. A(m + 1)
    <3> HIDE DEF A
    <3> QED BY <1>2, <2>4, <2>7, <2>8, <2>9
  <2> QED BY <2>10
<1>5. n \in R
  <2> HIDE DEF R
  <2> QED BY <1>3, <1>4, Induction
<1> QED BY <1>1, <1>3, <1>5

\* From line to line, and from order to order.
LEMMA LineitemPath ==
  ASSUME NEW s \in Scales, ~s.wide, NEW n \in Nat, NEW u \in Nat, NEW i \in Nat,
         u = Path("lineitem", s)[n].index, i = Path("lineitem", s)[n].line
  PROVE  /\ i + 1 \in 1..LinesAt(s, u)
         /\ TellsLine(s, u, i + 1, RowAt("lineitem", s, n))
         /\ IF i + 1 < LinesAt(s, u)
            THEN Path("lineitem", s)[n + 1].index = u /\ Path("lineitem", s)[n + 1].line = i + 1
            ELSE Path("lineitem", s)[n + 1].index = u + 1 /\ Path("lineitem", s)[n + 1].line = 0
<1>1. PICK t \in Tables : t = "lineitem"
  BY DEF Tables
<1>2. PICK it : it = OnPath(t, s, n)
  OBVIOUS
<1>3. /\ IteratorAt(t, s, it, Residues) /\ ~Done(it) /\ Exact(s, it) /\ it.index = u /\ it.line = i
  BY <1>1, <1>2, LineitemOnPath
<1>4. PICK next : next = NextRow(t, it)
  OBVIOUS
<1>5. RowAt("lineitem", s, n) = next.row
  BY <1>1, <1>2, <1>4 DEF RowAt, OnPath
<1>6. Path(t, s)[n + 1] = Place(next.iter)
  BY <1>1, <1>2, <1>4, PathForm DEF NextPlace, OnPath
<1>7. Path(t, s)[n + 1].index = next.iter.index /\ Path(t, s)[n + 1].line = next.iter.line
  BY <1>6 DEF Place
<1>8. ~Done(next.iter)
  <2>1. next.iter.index \in {it.index, it.index + 1} /\ next.iter.end = it.end
    BY <1>3, <1>4, NextRowPlace DEF IteratorAt
  <2>2. it.end = u + 2
    BY <1>1, <1>2 DEF OnPath, Until
  <2> QED BY <1>3, <2>1, <2>2 DEF Done
<1>9. /\ it.line + 1 \in 1..LinesAt(s, it.index)
      /\ TellsLine(s, it.index, it.line + 1, next.row)
      /\ IF it.line + 1 < LinesAt(s, it.index)
         THEN next.iter.index = it.index /\ next.iter.line = it.line + 1
         ELSE /\ next.iter.index = it.index + 1
              /\ ~Done(next.iter) => next.iter.line = 0
  BY <1>1, <1>3, <1>4, LineTold
<1> QED BY <1>1, <1>3, <1>5, <1>7, <1>8, <1>9

\* The lines of an order are the rows from first on, and only they.
BeginsAt(s, u, first) ==
  /\ \A i \in 0..(LinesAt(s, u) - 1) :
       Path("lineitem", s)[first + i].index = u /\ Path("lineitem", s)[first + i].line = i
  /\ \A m \in Nat : m < first => Path("lineitem", s)[m].index < u
  /\ \A m \in Nat : m >= first + LinesAt(s, u) => Path("lineitem", s)[m].index > u

LEMMA OrderBegins ==
  ASSUME NEW s \in Scales, ~s.wide, NEW u \in Nat
  PROVE  \E first \in Nat : BeginsAt(s, u, first)
<1>1. PICK t \in Tables : t = "lineitem"
  BY DEF Tables
<1> DEFINE f == Path(t, s)
           Starts(v, first) == f[first].index = v /\ f[first].line = 0
                               /\ \A m \in Nat : m < first => f[m].index < v
           R == {v \in Nat : \E first \in Nat : Starts(v, first)}
<1>2. ASSUME NEW v \in Nat, NEW first \in Nat, Starts(v, first)
      PROVE  BeginsAt(s, v, first) /\ Starts(v + 1, first + LinesAt(s, v))
  <2>1. PICK k \in 1..7 : k = LinesAt(s, v)
    BY LinesOfOrder
  <2> DEFINE Q == {i \in Nat : i < k => f[first + i].index = v /\ f[first + i].line = i}
  <2>2. 0 \in Q
    BY <1>2
  <2>3. ASSUME NEW i \in Nat, i < k, f[first + i].index = v, f[first + i].line = i
        PROVE  IF i + 1 < k THEN f[first + i + 1].index = v /\ f[first + i + 1].line = i + 1
               ELSE f[first + i + 1].index = v + 1 /\ f[first + i + 1].line = 0
    <3>1. PICK n \in Nat : n = first + i
      OBVIOUS
    <3>2. IF i + 1 < k THEN f[n + 1].index = v /\ f[n + 1].line = i + 1
          ELSE f[n + 1].index = v + 1 /\ f[n + 1].line = 0
      BY <1>1, <2>1, <2>3, <3>1, LineitemPath
    <3> QED BY <3>1, <3>2
  <2>4. ASSUME NEW i \in Nat, i \in Q PROVE i + 1 \in Q
    <3>1. PICK j \in Nat : j = i + 1 /\ first + j = first + i + 1
      OBVIOUS
    <3>2. ASSUME j < k PROVE f[first + j].index = v /\ f[first + j].line = j
      <4>1. i < k /\ i + 1 < k
        BY <3>1, <3>2
      <4>2. f[first + i].index = v /\ f[first + i].line = i
        BY <2>4, <4>1
      <4>3. f[first + i + 1].index = v /\ f[first + i + 1].line = i + 1
        BY <2>3, <4>1, <4>2
      <4> QED BY <3>1, <4>3
    <3>3. j \in Q
      BY <3>2
    <3> QED BY <3>1, <3>3
  <2>5. \A i \in Nat : i \in Q
    <3> HIDE DEF Q
    <3> QED BY <2>2, <2>4, Induction
  <2>6. ASSUME NEW i \in 0..(k - 1) PROVE f[first + i].index = v /\ f[first + i].line = i
    <3>1. i \in Nat /\ i < k
      BY <2>1
    <3>2. i \in Q
      BY <2>5, <3>1
    <3> HIDE DEF f
    <3> QED BY <3>1, <3>2
  <2>7. f[first + k].index = v + 1 /\ f[first + k].line = 0
    <3>1. PICK i \in Nat : i = k - 1 /\ i < k /\ ~(i + 1 < k) /\ first + i + 1 = first + k /\ i \in 0..(k - 1)
      BY <2>1
    <3> QED BY <2>3, <2>6, <3>1
  <2>8. ASSUME NEW m \in Nat, m < first + k PROVE f[m].index < v + 1
    <3>1. CASE m < first
      <4>1. f[m].index < v /\ f[m].index \in Nat
        BY <1>2, <3>1, PathIndex
      <4> QED BY <4>1
    <3>2. CASE m >= first
      <4>1. PICK i \in 0..(k - 1) : m = first + i
        <5>1. m - first \in 0..(k - 1) /\ m = first + (m - first)
          BY <2>8, <3>2
        <5> QED BY <5>1
      <4>2. f[m].index = v
        BY <2>6, <4>1
      <4> QED BY <4>2
    <3> QED BY <3>1, <3>2
  <2>9. ASSUME NEW m \in Nat, m >= first + k PROVE f[m].index > v
    <3>1. PICK n \in Nat : n = first + k
      BY <2>1
    <3>2. f[n].index <= f[m].index /\ f[m].index \in Nat
      BY <2>9, <3>1, PathIndex
    <3> QED BY <2>7, <3>1, <3>2
  <2>10. BeginsAt(s, v, first)
    BY <1>1, <1>2, <2>1, <2>6, <2>9 DEF BeginsAt
  <2>11. Starts(v + 1, first + k)
    BY <2>7, <2>8
  <2> QED BY <2>1, <2>10, <2>11
<1> HIDE DEF f
<1>3. 0 \in R
  <2>1. f[0].index = 0 /\ f[0].line = 0
    BY <1>1, LineitemOnPath DEF f
  <2>2. Starts(0, 0)
    BY <2>1
  <2> QED BY <2>2
<1>4. ASSUME NEW v \in Nat, v \in R PROVE v + 1 \in R
  <2>1. PICK first \in Nat : Starts(v, first)
    BY <1>4
  <2>2. PICK next \in Nat : next = first + LinesAt(s, v)
    BY LinesOfOrder
  <2>3. Starts(v + 1, next)
    <3> HIDE DEF Starts
    <3> QED BY <1>2, <2>1, <2>2
  <2> QED BY <2>3
<1>5. u \in R
  <2> HIDE DEF R
  <2> QED BY <1>3, <1>4, Induction
<1>6. PICK first \in Nat : Starts(u, first)
  BY <1>5
<1> HIDE DEF Starts
<1> QED BY <1>2, <1>6
=============================================================================
