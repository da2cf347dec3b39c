----------------------------- MODULE Recursion -----------------------------
(***************************************************************************)
(* Induction over numbers, and what it says of the two kinds of recursion  *)
(* in this project, folds and functions of the positions in a text; and    *)
(* sequences of sequences, taken apart at their first and last element.    *)
(***************************************************************************)
EXTENDS Naturals, SequencesExt, WellFoundedInduction, SequenceTheorems, TLAPS

\* A set of numbers that is not empty has a least one.
LEMMA LeastNumber ==
  ASSUME NEW S, S \subseteq Nat, S # {}
  PROVE  \E m \in S : \A n \in S : m <= n
<1>1. PICK m \in S : \A n \in S : ~ (<<n, m>> \in OpToRel(<, Nat))
  BY NatLessThanWellFounded, WFMin
<1>2. \A n \in S : ~ (n < m)
  BY <1>1 DEF OpToRel
<1> QED
  BY <1>2

\* Induction: a set that has 0, and with a number below n the next one, has them all.
LEMMA CountUp ==
  ASSUME NEW n \in Nat, NEW S, 0 \in S, \A k \in Nat : k < n /\ k \in S => k + 1 \in S
  PROVE  0 .. n \subseteq S
<1> DEFINE T == (0 .. n) \ S
<1>1. SUFFICES ASSUME T # {} PROVE FALSE
  OBVIOUS
<1>2. PICK m \in T : \A k \in T : m <= k
  <2>1. T \subseteq Nat
    OBVIOUS
  <2> HIDE DEF T
  <2> QED
    BY <1>1, <2>1, LeastNumber
<1>3. m # 0 /\ m - 1 \in 0 .. n /\ m - 1 < n /\ m - 1 \in Nat
  BY <1>2
<1>4. m - 1 \in S
  BY <1>2, <1>3
<1>5. (m - 1) + 1 \in S
  BY <1>3, <1>4
<1> QED
  BY <1>2, <1>5

\* Numbers from 1 to n that increase n times are those numbers in their order.
LEMMA Increasing ==
  ASSUME NEW n \in Nat, NEW f \in [1 .. n -> 1 .. n], \A j, k \in 1 .. n : j < k => f[j] < f[k]
  PROVE  \A k \in 1 .. n : f[k] = k
<1> DEFINE Up == {k \in 0 .. n : k = 0 \/ f[k] >= k}
           Down == {k \in 0 .. n : k = n \/ f[n - k] <= n - k}
<1>1. 0 .. n \subseteq Up
  <2>1. 0 \in Up
    OBVIOUS
  <2>2. ASSUME NEW k \in Nat, k < n, k \in Up PROVE k + 1 \in Up
    <3>1. CASE k = 0
      BY <2>2, <3>1
    <3>2. CASE k # 0
      <4>1. k \in 1 .. n /\ k + 1 \in 1 .. n /\ k < k + 1
        BY <2>2, <3>2
      <4>2. f[k] < f[k + 1] /\ f[k] \in Nat /\ f[k + 1] \in Nat
        BY <4>1
      <4> QED
        BY <2>2, <3>2, <4>1, <4>2
    <3> QED
      BY <3>1, <3>2
  <2> HIDE DEF Up
  <2> QED
    BY <2>1, <2>2, CountUp
<1>2. 0 .. n \subseteq Down
  <2>1. 0 \in Down
    OBVIOUS
  <2>2. ASSUME NEW k \in Nat, k < n, k \in Down PROVE k + 1 \in Down
    <3>1. CASE k + 1 = n
      BY <2>2, <3>1
    <3>2. CASE k + 1 # n
      <4> DEFINE j == n - (k + 1)
      <4>1. j \in 1 .. n /\ n - k \in 1 .. n /\ j < n - k /\ k # n /\ n - k = j + 1
        BY <2>2, <3>2
      <4>2. f[n - k] <= n - k
        BY <2>2, <4>1
      <4>3. f[j] < f[n - k] /\ f[j] \in Nat /\ f[n - k] \in Nat
        BY <4>1
      <4>4. f[j] <= j
        BY <4>1, <4>2, <4>3
      <4> QED
        BY <2>2, <4>4
    <3> QED
      BY <3>1, <3>2
  <2> HIDE DEF Down
  <2> QED
    BY <2>1, <2>2, CountUp
<1>3. ASSUME NEW k \in 1 .. n PROVE f[k] = k
  <2>1. f[k] >= k
    BY <1>1
  <2>2. n - k \in 0 .. n /\ n - k # n /\ n - (n - k) = k
    OBVIOUS
  <2>3. f[k] <= k
    BY <1>2, <2>2
  <2> QED
    BY <2>1, <2>3
<1> QED
  BY <1>3

\* Numbers of which each is less than the next are in order.
LEMMA Rising ==
  ASSUME NEW n \in Nat, NEW f \in [1 .. n -> Nat],
         \A k \in 1 .. n : k + 1 \in 1 .. n => f[k] < f[k + 1]
  PROVE  \A j, k \in 1 .. n : j < k => f[j] < f[k]
<1> SUFFICES ASSUME NEW j \in 1 .. n PROVE \A k \in 1 .. n : j < k => f[j] < f[k]
  OBVIOUS
<1> DEFINE S == {d \in 0 .. n : d = 0 \/ j + d \notin 1 .. n \/ f[j] < f[j + d]}
<1>1. 0 \in S
  OBVIOUS
<1>2. ASSUME NEW d \in Nat, d < n, d \in S PROVE d + 1 \in S
  <2> SUFFICES ASSUME j + (d + 1) \in 1 .. n PROVE f[j] < f[j + (d + 1)]
    BY <1>2
  <2>1. /\ j + d \in 1 .. n /\ (j + d) + 1 = j + (d + 1) /\ (j + d) + 1 \in 1 .. n
        /\ f[j + d] < f[(j + d) + 1] /\ d = 0 => j + d = j
    OBVIOUS
  <2>2. f[j] \in Nat /\ f[j + d] \in Nat /\ f[(j + d) + 1] \in Nat
    BY <2>1
  <2>3. f[j] <= f[j + d]
    BY <1>2, <2>1, <2>2
  <2> QED
    BY <2>1, <2>2, <2>3
<1>3. 0 .. n \subseteq S
  <2> HIDE DEF S
  <2> QED
    BY <1>1, <1>2, CountUp
<1>4. ASSUME NEW k \in 1 .. n, j < k PROVE f[j] < f[k]
  <2>1. k - j \in 0 .. n /\ k - j # 0 /\ j + (k - j) = k
    BY <1>4
  <2> QED
    BY <1>3, <2>1
<1> QED
  BY <1>4

\* Numbers that are bounded have a greatest.
LEMMA MaxIs ==
  ASSUME NEW n \in Nat, NEW s, s \subseteq 1 .. n, s # {}
  PROVE  Max(s) \in s /\ \A x \in s : x <= Max(s)
<1> DEFINE T == {n - x : x \in s}
<1>1. PICK d \in T : \A e \in T : d <= e
  <2>1. T \subseteq Nat /\ T # {}
    OBVIOUS
  <2> HIDE DEF T
  <2> QED
    BY <2>1, LeastNumber
<1>2. PICK m \in s : d = n - m
  BY <1>1
<1>3. \A x \in s : n - x \in T
  OBVIOUS
<1>4. \A x \in s : x \in Nat /\ n - m <= n - x
  BY <1>1, <1>2, <1>3
<1>5. \A x \in s : m >= x
  BY <1>4
<1>6. Max(s) \in s /\ \A x \in s : Max(s) >= x
  BY <1>5, Zenon DEF Max
<1> QED
  BY <1>4, <1>6

LEMMA MaxOfAll ==
  ASSUME NEW n \in Nat, n # 0
  PROVE  Max(1 .. n) = n /\ (1 .. n) \ {n} = 1 .. n - 1
<1>1. 1 .. n \subseteq 1 .. n /\ 1 .. n # {} /\ n \in 1 .. n
  OBVIOUS
<1>2. Max(1 .. n) \in 1 .. n /\ n <= Max(1 .. n)
  BY <1>1, MaxIs, Zenon
<1> QED
  BY <1>2
-----------------------------------------------------------------------------
(* A fold of n elements, which are taken away from the last to the first.  *)
(* step is the operator of the fold, of what was folded and a position.    *)

IsFold(g, n, base, step) ==
  \A s \in SUBSET (1 .. n) :
    g[s] = IF s = {} THEN base ELSE step[<<g[s \ {Max(s)}], Max(s)>>]

\* There is a function with the equation of the fold.
LEMMA FoldExists ==
  ASSUME NEW n \in Nat, NEW X, NEW base \in X, NEW step \in [X \X (1 .. n) -> X]
  PROVE  \E g \in [SUBSET (1 .. n) -> X] : IsFold(g, n, base, step)
<1> USE DEF IsFold
<1> DEFINE Folds(m) == {g \in [SUBSET (1 .. m) -> X] : IsFold(g, m, base, step)}
           S == {m \in 0 .. n : Folds(m) # {}}
<1>1. 0 \in S
  <2>1. [s \in SUBSET (1 .. 0) |-> base] \in Folds(0)
    OBVIOUS
  <2> HIDE DEF Folds
  <2> QED
    BY <2>1
<1>2. ASSUME NEW m \in Nat, m < n, m \in S PROVE m + 1 \in S
  <2>1. PICK g \in [SUBSET (1 .. m) -> X] :
          \A s \in SUBSET (1 .. m) :
            g[s] = IF s = {} THEN base ELSE step[<<g[s \ {Max(s)}], Max(s)>>]
    BY <1>2
  <2> DEFINE h == [s \in SUBSET (1 .. m + 1) |->
                     IF m + 1 \in s THEN step[<<g[s \ {m + 1}], m + 1>>] ELSE g[s]]
  <2>2. ASSUME NEW s \in SUBSET (1 .. m + 1), m + 1 \notin s
        PROVE  s \in SUBSET (1 .. m) /\ h[s] = g[s]
    BY <2>2, <1>2
  <2>3. ASSUME NEW s \in SUBSET (1 .. m + 1), m + 1 \in s
        PROVE  /\ Max(s) = m + 1 /\ s \ {m + 1} \in SUBSET (1 .. m)
               /\ h[s] = step[<<g[s \ {m + 1}], m + 1>>]
    <3>1. m + 1 \in Nat /\ s \subseteq 1 .. m + 1 /\ s # {}
      BY <2>3
    <3>2. Max(s) \in s /\ m + 1 <= Max(s)
      BY <2>3, <3>1, MaxIs
    <3>3. Max(s) \in 1 .. m + 1
      BY <3>1, <3>2
    <3>4. Max(s) = m + 1
      BY <3>2, <3>3
    <3>5. \A x \in s \ {m + 1} : x \in 1 .. m
      BY <3>1
    <3> QED
      BY <2>3, <3>4, <3>5
  <2>4. ASSUME NEW s \in SUBSET (1 .. m + 1) PROVE h[s] \in X
    <3>1. CASE m + 1 \notin s
      BY <2>2, <3>1
    <3>2. CASE m + 1 \in s
      <4>1. g[s \ {m + 1}] \in X /\ m + 1 \in 1 .. n
        BY <1>2, <2>3, <3>2
      <4> QED
        BY <2>3, <3>2, <4>1
    <3> QED
      BY <3>1, <3>2
  <2>5. ASSUME NEW s \in SUBSET (1 .. m + 1)
        PROVE  h[s] = IF s = {} THEN base ELSE step[<<h[s \ {Max(s)}], Max(s)>>]
    <3>1. CASE m + 1 \notin s
      <4>1. s \ {Max(s)} \in SUBSET (1 .. m + 1) /\ m + 1 \notin s \ {Max(s)}
        BY <3>1
      <4>2. h[s \ {Max(s)}] = g[s \ {Max(s)}] /\ h[s] = g[s] /\ s \in SUBSET (1 .. m)
        BY <2>2, <3>1, <4>1
      <4> QED
        BY <2>1, <4>2
    <3>2. CASE m + 1 \in s
      <4>1. m + 1 \notin s \ {m + 1} /\ s \ {m + 1} \in SUBSET (1 .. m + 1)
        OBVIOUS
      <4>2. h[s \ {m + 1}] = g[s \ {m + 1}]
        BY <2>2, <4>1
      <4> QED
        BY <2>3, <3>2, <4>2
    <3> QED
      BY <3>1, <3>2
  <2>6. h \in [SUBSET (1 .. m + 1) -> X]
    BY <2>4
  <2> HIDE DEF h
  <2>7. h \in Folds(m + 1)
    BY <2>5, <2>6
  <2> HIDE DEF Folds
  <2> QED
    BY <1>2, <2>7
<1>3. 0 .. n \subseteq S
  <2> HIDE DEF S
  <2> QED
    BY <1>1, <1>2, CountUp
<1>4. Folds(n) # {}
  <2> HIDE DEF Folds
  <2> QED
    BY <1>3
<1> QED
  BY <1>4

IsRun(run, n, base, step, end) ==
  /\ run[0] = base /\ run[n] = end
  /\ \A k \in 1 .. n : run[k] = step[<<run[k - 1], k>>]

\* Such a function goes through the elements one after the other: run[k] is what the
\* first k of them are folded to.
LEMMA FoldRuns ==
  ASSUME NEW n \in Nat, NEW X, NEW base \in X, NEW step \in [X \X (1 .. n) -> X], NEW iter,
         iter[{}] = base,
         \A s \in SUBSET (1 .. n) : s # {} /\ iter[s \ {Max(s)}] \in X =>
           iter[s] = step[<<iter[s \ {Max(s)}], Max(s)>>]
  PROVE  \E run \in [0 .. n -> X] : IsRun(run, n, base, step, iter[1 .. n])
<1> DEFINE S == {k \in 0 .. n : iter[1 .. k] \in X}
<1>1. 1 .. 0 = {}
  OBVIOUS
<1>2. 0 \in S
  BY <1>1
<1>3. ASSUME NEW k \in 1 .. n, iter[1 .. k - 1] \in X
      PROVE  iter[1 .. k] = step[<<iter[1 .. k - 1], k>>]
  <2>1. 1 .. k \in SUBSET (1 .. n) /\ 1 .. k # {} /\ k \in Nat /\ k # 0
    OBVIOUS
  <2>2. Max(1 .. k) = k /\ (1 .. k) \ {k} = 1 .. k - 1
    BY <2>1, MaxOfAll
  <2> QED
    BY <1>3, <2>1, <2>2
<1>4. ASSUME NEW k \in Nat, k < n, k \in S PROVE k + 1 \in S
  <2>1. iter[1 .. k + 1] = step[<<iter[1 .. (k + 1) - 1], k + 1>>] /\ (k + 1) - 1 = k
    BY <1>3, <1>4
  <2>2. k + 1 \in 1 .. n /\ iter[1 .. k] \in X
    BY <1>4
  <2> QED
    BY <2>1, <2>2
<1>5. 0 .. n \subseteq S
  <2> HIDE DEF S
  <2> QED
    BY <1>2, <1>4, CountUp
<1> DEFINE run == [k \in 0 .. n |-> iter[1 .. k]]
<1>6. run \in [0 .. n -> X] /\ run[0] = base /\ run[n] = iter[1 .. n]
  BY <1>1, <1>5
<1>7. \A k \in 1 .. n : run[k] = step[<<run[k - 1], k>>]
  BY <1>3, <1>5
<1> QED
  BY <1>6, <1>7 DEF IsRun
-----------------------------------------------------------------------------
(* A function of positions, defined at each from its values further on.    *)

IsRecursion(g, n, step) == \A i \in 1 .. n : g[i] = step[i][g]

\* There is a function with the equation of the recursion.
LEMMA RecursionExists ==
  ASSUME NEW n \in Nat, NEW X, NEW some \in X, NEW step \in [1 .. n -> [[1 .. n -> X] -> X]],
         \A i \in 1 .. n : \A f, g \in [1 .. n -> X] :
           (\A j \in i + 1 .. n : f[j] = g[j]) => step[i][f] = step[i][g]
  PROVE  \E g \in [1 .. n -> X] : IsRecursion(g, n, step)
<1> DEFINE Solves(g, m) == \A i \in 1 .. n : i > n - m => g[i] = step[i][g]
           S == {m \in 0 .. n : \E g \in [1 .. n -> X] : Solves(g, m)}
<1>1. 0 \in S
  <2>1. [i \in 1 .. n |-> some] \in [1 .. n -> X]
    OBVIOUS
  <2>2. Solves([i \in 1 .. n |-> some], 0) /\ 0 \in 0 .. n
    OBVIOUS
  <2> HIDE DEF Solves
  <2>3. \E g \in [1 .. n -> X] : Solves(g, 0)
    BY <2>1, <2>2, Zenon
  <2> QED
    BY <2>2, <2>3, Zenon
<1>2. ASSUME NEW m \in Nat, m < n, m \in S PROVE m + 1 \in S
  <2>1. PICK g \in [1 .. n -> X] : Solves(g, m)
    BY <1>2
  <2> DEFINE i == n - m
             h == [g EXCEPT ![i] = step[i][g]]
  <2>2. i \in 1 .. n /\ step[i][g] \in X
    BY <1>2
  <2>3. h \in [1 .. n -> X] /\ h[i] = step[i][g] /\ \A j \in 1 .. n : j # i => h[j] = g[j]
    BY <2>2
  <2> HIDE DEF h
  <2>4. ASSUME NEW k \in 1 .. n, k > n - (m + 1) PROVE h[k] = step[k][h]
    <3>1. k >= i
      BY <1>2, <2>4
    <3>2. step[k][h] = step[k][g]
      <4>1. \A j \in k + 1 .. n : h[j] = g[j]
        BY <2>3, <3>1
      <4> QED
        BY <2>3, <4>1
    <3>3. CASE k = i
      BY <2>3, <3>2, <3>3
    <3>4. CASE k # i
      BY <2>1, <2>3, <3>1, <3>2, <3>4
    <3> QED
      BY <3>3, <3>4
  <2>5. Solves(h, m + 1)
    BY <2>4
  <2>6. m + 1 \in 0 .. n
    BY <1>2
  <2> HIDE DEF Solves
  <2> QED
    BY <2>3, <2>5, <2>6
<1>3. 0 .. n \subseteq S
  <2> HIDE DEF S
  <2> QED
    BY <1>1, <1>2, CountUp
<1>4. PICK g \in [1 .. n -> X] : Solves(g, n)
  <2>1. n \in S
    <3>1. n \in 0 .. n
      OBVIOUS
    <3> HIDE DEF S
    <3> QED
      BY <1>3, <3>1
  <2> HIDE DEF Solves
  <2> QED
    BY <2>1, Zenon
<1> QED
  BY <1>4 DEF IsRecursion

\* Induction from the end: a set that has n + 1, and with a number the one before.
LEMMA CountDown ==
  ASSUME NEW n \in Nat, NEW S, n + 1 \in S, \A i \in 1 .. n : i + 1 \in S => i \in S
  PROVE  1 .. n + 1 \subseteq S
<1> DEFINE T == {m \in 0 .. n : (n + 1) - m \in S}
<1>1. 0 \in T
  OBVIOUS
<1>2. ASSUME NEW m \in Nat, m < n, m \in T PROVE m + 1 \in T
  <2> DEFINE i == (n + 1) - (m + 1)
  <2>1. i \in 1 .. n /\ i + 1 = (n + 1) - m /\ (n + 1) - m \in S
    BY <1>2
  <2>2. i \in S
    BY <2>1
  <2> QED
    BY <1>2, <2>2
<1>3. 0 .. n \subseteq T
  <2> HIDE DEF T
  <2> QED
    BY <1>1, <1>2, CountUp
<1>4. ASSUME NEW i \in 1 .. n + 1 PROVE i \in S
  <2>1. (n + 1) - i \in 0 .. n /\ (n + 1) - ((n + 1) - i) = i
    OBVIOUS
  <2> QED
    BY <1>3, <2>1
<1> QED
  BY <1>4
-----------------------------------------------------------------------------
(* Sequences of sequences. *)

\* FlattenSeq appends one text after the other.
FlattenRun(run, S, seqs) ==
  /\ run \in [0 .. Len(seqs) -> Seq(S)]
  /\ run[0] = << >> /\ run[Len(seqs)] = FlattenSeq(seqs)
  /\ \A k \in 1 .. Len(seqs) : run[k] = run[k - 1] \o seqs[k]

LEMMA FlattenRuns ==
  ASSUME NEW S, NEW seqs \in Seq(Seq(S))
  PROVE  \E run : FlattenRun(run, S, seqs)
<1> DEFINE n == Len(seqs)
           X == Seq(S)
           step == [q \in X \X (1 .. n) |-> q[1] \o seqs[q[2]]]
<1>1. n \in Nat /\ << >> \in X /\ \A k \in 1 .. n : seqs[k] \in X
  OBVIOUS
<1>2. CASE n = 0
  <2> DEFINE run == [k \in 0 .. n |-> << >>]
  <2>1. FlattenSeq(seqs) = seqs /\ seqs = << >>
    <3>1. FlattenSeq(seqs) = seqs
      BY <1>2, Zenon DEF FlattenSeq
    <3> QED
      BY <1>2, <3>1
  <2>2. run \in [0 .. n -> X] /\ run[0] = << >> /\ run[n] = << >> /\ 1 .. n = {}
    BY <1>1, <1>2
  <2> HIDE DEF run
  <2> QED
    BY <2>1, <2>2, Zenon DEF FlattenRun
<1>3. CASE n # 0
  <2>1. step \in [X \X (1 .. n) -> X]
    <3>1. \A x \in X, k \in 1 .. n : x \o seqs[k] \in X
      BY <1>1, ConcatProperties, Zenon
    <3> HIDE DEF n, X
    <3> QED
      BY <3>1
  <2>2. \A x \in X, k \in 1 .. n : step[<<x, k>>] = x \o seqs[k]
    <3> HIDE DEF n, X
    <3> QED
      OBVIOUS
  <2> HIDE DEF step
  <2>3. PICK g \in [SUBSET (1 .. n) -> X] : IsFold(g, n, << >>, step)
    <3> HIDE DEF n, X
    <3> QED
      BY <1>1, <2>1, FoldExists, Zenon
  <2> DEFINE run == [k \in 0 .. n |-> g[1 .. k]]
  <2>4. run \in [0 .. n -> X] /\ run[0] = << >>
    <3>1. 1 .. 0 = {} /\ \A k \in 0 .. n : 1 .. k \in SUBSET (1 .. n)
      BY <1>1
    <3>2. g[{}] = << >>
      BY <2>3 DEF IsFold
    <3>3. \A k \in 0 .. n : g[1 .. k] \in X
      <4> HIDE DEF X
      <4> QED
        BY <2>3, <3>1
    <3>4. 0 \in 0 .. n
      BY <1>1
    <3>5. run \in [0 .. n -> X]
      <4> HIDE DEF X, n
      <4> QED
        BY <3>3
    <3> QED
      BY <3>1, <3>2, <3>4, <3>5
  <2>5. ASSUME NEW k \in 1 .. n PROVE run[k] = run[k - 1] \o seqs[k]
    <3>1. /\ k \in Nat /\ k # 0 /\ k - 1 \in 0 .. n /\ k \in 0 .. n /\ 1 .. k \in SUBSET (1 .. n)
          /\ 1 .. k # {}
      <4>1. k \in Nat /\ k # 0 /\ k - 1 \in 0 .. n /\ k \in 0 .. n /\ k \in 1 .. k
        BY <1>1
      <4>2. 1 .. k \in SUBSET (1 .. n)
        BY <1>1
      <4> QED
        BY <4>1, <4>2
    <3>2. Max(1 .. k) = k /\ (1 .. k) \ {k} = 1 .. k - 1
      BY <3>1, MaxOfAll
    <3>3. g[1 .. k] = step[<<g[1 .. k - 1], k>>]
      <4> HIDE DEF X, n
      <4> QED
        BY <2>3, <3>1, <3>2 DEF IsFold
    <3>4. run[k] = g[1 .. k] /\ run[k - 1] = g[1 .. k - 1] /\ run[k - 1] \in X
      BY <2>4, <3>1
    <3> HIDE DEF run, X, n
    <3> QED
      BY <2>2, <3>3, <3>4
  <2> HIDE DEF run
  <2> DEFINE Equation(f) == f = [i \in 1 .. Len(seqs) |-> IF i = 1 THEN seqs[i] ELSE f[i - 1] \o seqs[i]]
  <2>6. \E f : Equation(f)
    <3> DEFINE h == [i \in 1 .. n |-> run[i]]
    <3>1. ASSUME NEW i \in 1 .. n PROVE h[i] = IF i = 1 THEN seqs[i] ELSE h[i - 1] \o seqs[i]
      <4>1. h[i] = run[i - 1] \o seqs[i]
        BY <2>5
      <4>2. CASE i = 1
        <5>1. << >> \o seqs[i] = seqs[i]
          BY <1>1, ConcatEmptySeq, Zenon
        <5>2. run[i - 1] = << >>
          BY <2>4, <4>2
        <5> QED
          BY <4>1, <4>2, <5>1, <5>2, Zenon
      <4>3. CASE i # 1
        <5>1. i - 1 \in 1 .. n
          BY <1>1, <4>3
        <5>2. h[i - 1] = run[i - 1]
          BY <5>1
        <5> QED
          BY <4>1, <4>3, <5>2, Zenon
      <4> QED
        BY <4>2, <4>3, Zenon
    <3>2. Equation(h)
      BY <3>1, Zenon
    <3> QED
      BY <3>2, Zenon
  <2> DEFINE flatten[i \in 1 .. Len(seqs)] == IF i = 1 THEN seqs[i] ELSE flatten[i - 1] \o seqs[i]
  <2>7. Equation(flatten)
    BY <2>6, Zenon
  <2>8. FlattenSeq(seqs) = flatten[Len(seqs)]
    BY <1>3, Zenon DEF FlattenSeq
  <2> HIDE DEF flatten
  <2> DEFINE T == {k \in 0 .. n : k = 0 \/ flatten[k] = run[k]}
  <2>9. 0 \in T
    BY <1>1
  <2>10. ASSUME NEW k \in Nat, k < n, k \in T PROVE k + 1 \in T
    <3>1. k + 1 \in 1 .. n /\ (k + 1) - 1 = k /\ k + 1 \in 0 .. n
      BY <1>1, <2>10
    <3>2. flatten[k + 1] = IF k + 1 = 1 THEN seqs[k + 1] ELSE flatten[(k + 1) - 1] \o seqs[k + 1]
      BY <2>7, <3>1, Zenon
    <3>3. run[k + 1] = run[k] \o seqs[k + 1]
      BY <2>5, <3>1
    <3>4. CASE k = 0
      <4>1. << >> \o seqs[k + 1] = seqs[k + 1]
        BY <1>1, <3>1, ConcatEmptySeq, Zenon
      <4>2. flatten[k + 1] = seqs[k + 1]
        BY <3>2, <3>4
      <4>3. run[k] = << >>
        BY <2>4, <3>4
      <4>4. flatten[k + 1] = run[k + 1]
        BY <3>3, <4>1, <4>2, <4>3, Zenon
      <4> QED
        BY <3>1, <4>4
    <3>5. CASE k # 0
      <4>1. flatten[k + 1] = flatten[k] \o seqs[k + 1]
        <5>1. k + 1 # 1
          BY <2>10, <3>5
        <5> QED
          BY <3>1, <3>2, <5>1, Zenon
      <4>2. flatten[k] = run[k]
        BY <2>10, <3>5
      <4>3. flatten[k + 1] = run[k + 1]
        BY <3>3, <4>1, <4>2, Zenon
      <4> QED
        BY <3>1, <4>3
    <3> QED
      BY <3>4, <3>5
  <2>11. 0 .. n \subseteq T
    <3> HIDE DEF T, n
    <3> QED
      BY <1>1, <2>9, <2>10, CountUp
  <2>12. run[n] = FlattenSeq(seqs)
    <3>1. n \in T
      BY <1>1, <2>11, SMTT(40)
    <3> QED
      BY <1>3, <2>8, <3>1
  <2>13. FlattenRun(run, S, seqs)
    BY <2>4, <2>5, <2>12, Zenon DEF FlattenRun
  <2> QED
    BY <2>13, Zenon
<1> QED
  BY <1>2, <1>3

LEMMA FlattenType == ASSUME NEW S, NEW seqs \in Seq(Seq(S)) PROVE FlattenSeq(seqs) \in Seq(S)
<1>1. PICK run : FlattenRun(run, S, seqs)
  BY FlattenRuns, Zenon
<1>2. Len(seqs) \in 0 .. Len(seqs)
  OBVIOUS
<1> QED
  BY <1>1, <1>2 DEF FlattenRun
-----------------------------------------------------------------------------
(* Sequences taken apart, at their first element or their last. *)

\* The first element of two sequences together, and what is left without it.
LEMMA HeadOfConcat ==
  ASSUME NEW S, NEW s \in Seq(S), s # << >>, NEW r \in Seq(S)
  PROVE  /\ Head(s) \in S /\ Tail(s) \in Seq(S) /\ s = <<Head(s)>> \o Tail(s)
         /\ s \o r \in Seq(S) /\ s \o r # << >>
         /\ Head(s \o r) = Head(s) /\ Tail(s \o r) = Tail(s) \o r
<1>1. Head(s) \in S /\ Tail(s) \in Seq(S)
  BY HeadTailProperties, Zenon
<1>2. s = <<Head(s)>> \o Tail(s)
  OBVIOUS
<1>3. s \o r \in Seq(S) /\ s \o r # << >>
  <2>1. s \o r \in Seq(S)
    BY ConcatProperties, Zenon
  <2>2. s \o r # << >>
    <3>1. Len(s \o r) = Len(s) + Len(r) /\ Len(s) \in Nat \ {0} /\ Len(r) \in Nat
      BY ConcatProperties, LenProperties, EmptySeq
    <3> QED
      BY <3>1
  <2> QED
    BY <2>1, <2>2
<1>4. Head(s \o r) = Head(s)
  OBVIOUS
<1>5. Tail(s \o r) = Tail(s) \o r
  OBVIOUS
<1> QED
  BY <1>1, <1>2, <1>3, <1>4, <1>5

\* An element passes from the front of one to the end of the other.
LEMMA MoveHead ==
  ASSUME NEW S, NEW s \in Seq(S), NEW d \in Seq(S), d # << >>
  PROVE  Append(s, Head(d)) \in Seq(S) /\ s \o d = Append(s, Head(d)) \o Tail(d)
<1>1. Head(d) \in S /\ Tail(d) \in Seq(S)
  BY HeadTailProperties, Zenon
<1> QED
  BY <1>1

\* Three sequences one after the other, in either grouping.
Regroups(a, b, c) == (a \o b) \o c = a \o (b \o c)

LEMMA Regroup == ASSUME NEW S PROVE \A a, b, c \in Seq(S) : Regroups(a, b, c)
<1> SUFFICES ASSUME NEW a \in Seq(S), NEW b \in Seq(S), NEW c \in Seq(S)
             PROVE  (a \o b) \o c = a \o (b \o c)
  BY DEF Regroups
<1> QED
  BY ConcatAssociative, SMTT(40)

\* FlattenSeq taken apart: the first of the sequences, and the others.
LEMMA FlattenFirst ==
  ASSUME NEW S, NEW seqs \in Seq(Seq(S)), seqs # << >>
  PROVE  FlattenSeq(seqs) = Head(seqs) \o FlattenSeq(Tail(seqs))
<1> DEFINE n == Len(seqs)
           rest == Tail(seqs)
<1>1. /\ n \in Nat /\ n # 0 /\ rest \in Seq(Seq(S)) /\ Len(rest) = n - 1 /\ Head(seqs) = seqs[1]
      /\ \A k \in 1 .. n - 1 : rest[k] = seqs[k + 1]
      /\ \A k \in 1 .. n : seqs[k] \in Seq(S)
  <2>1. \A k \in 1 .. n : seqs[k] \in Seq(S)
    BY ElementOfSeq, Zenon
  <2> QED
    BY <2>1
<1>2. PICK all : FlattenRun(all, S, seqs)
  BY FlattenRuns, Zenon
<1>3. PICK others : FlattenRun(others, S, rest)
  BY <1>1, FlattenRuns, Zenon
<1> DEFINE T == {k \in 0 .. n - 1 : all[k + 1] = seqs[1] \o others[k]}
<1>4. 0 \in T
  <2>1. all[1] = all[0] \o seqs[1] /\ all[0] = << >> /\ others[0] = << >>
    <3>1. 1 \in 1 .. n /\ 1 - 1 = 0
      BY <1>1
    <3> QED
      BY <1>2, <1>3, <3>1 DEF FlattenRun
  <2>2. << >> \o seqs[1] = seqs[1] /\ seqs[1] \o << >> = seqs[1]
    BY <1>1, ConcatEmptySeq
  <2>3. 0 \in 0 .. n - 1 /\ 0 + 1 = 1
    BY <1>1
  <2>4. all[0 + 1] = seqs[1] \o others[0]
    BY <2>1, <2>2, <2>3
  <2> QED
    BY <2>3, <2>4
<1>5. ASSUME NEW k \in Nat, k < n - 1, k \in T PROVE k + 1 \in T
  <2>1. /\ (k + 1) + 1 \in 1 .. n /\ k + 1 \in 1 .. n - 1 /\ ((k + 1) + 1) - 1 = k + 1 /\ (k + 1) - 1 = k
        /\ k \in 0 .. n - 1 /\ k + 1 \in 0 .. n - 1
    BY <1>1, <1>5
  <2>2. all[(k + 1) + 1] = all[k + 1] \o seqs[(k + 1) + 1]
    BY <1>2, <2>1 DEF FlattenRun
  <2>3. others[k + 1] = others[k] \o rest[k + 1] /\ others[k] \in Seq(S)
    BY <1>1, <1>3, <2>1 DEF FlattenRun
  <2>4. rest[k + 1] = seqs[(k + 1) + 1] /\ seqs[1] \in Seq(S) /\ rest[k + 1] \in Seq(S)
    BY <1>1, <2>1
  <2>5. all[k + 1] = seqs[1] \o others[k]
    BY <1>5
  <2>6. (seqs[1] \o others[k]) \o rest[k + 1] = seqs[1] \o (others[k] \o rest[k + 1])
    <3>1. Regroups(seqs[1], others[k], rest[k + 1])
      <4> HIDE DEF rest
      <4> QED
        BY <2>3, <2>4, Regroup, Zenon
    <3> QED
      BY <3>1, Zenon DEF Regroups
  <2>7. all[(k + 1) + 1] = seqs[1] \o others[k + 1]
    BY <2>2, <2>3, <2>4, <2>5, <2>6, Zenon
  <2> QED
    BY <2>1, <2>7
<1>6. 0 .. n - 1 \subseteq T
  <2>1. n - 1 \in Nat
    BY <1>1
  <2> HIDE DEF T
  <2> QED
    BY <1>4, <1>5, <2>1, CountUp
<1>7. n - 1 \in 0 .. n - 1 /\ (n - 1) + 1 = n
  BY <1>1
<1>8. all[n] = seqs[1] \o others[n - 1]
  BY <1>6, <1>7
<1> QED
  BY <1>1, <1>2, <1>3, <1>8 DEF FlattenRun

\* The sequences f gives for the elements of list, one after the other.
FlatMap(f, list) == FlattenSeq([k \in DOMAIN list |-> f[list[k]]])

\* What FlatMap gives, and how it begins.
LEMMA FlatMapIs ==
  ASSUME NEW X, NEW S, NEW f \in [X -> Seq(S)], NEW list \in Seq(X)
  PROVE  /\ FlatMap(f, list) \in Seq(S)
         /\ list = << >> => FlatMap(f, list) = << >>
         /\ list # << >> => FlatMap(f, list) = f[Head(list)] \o FlatMap(f, Tail(list))
<1> DEFINE seqs == [k \in DOMAIN list |-> f[list[k]]]
<1>1. DOMAIN list = 1 .. Len(list) /\ Len(list) \in Nat /\ \A k \in 1 .. Len(list) : list[k] \in X
  BY ElementOfSeq, LenProperties, Zenon
<1>2. seqs \in Seq(Seq(S)) /\ Len(seqs) = Len(list)
  <2>1. \A k \in 1 .. Len(list) : f[list[k]] \in Seq(S)
    BY <1>1, Zenon
  <2> QED
    BY <1>1, <2>1
<1>3. FlatMap(f, list) \in Seq(S)
  BY <1>2, FlattenType, Zenon DEF FlatMap
<1>4. ASSUME list = << >> PROVE FlatMap(f, list) = << >>
  <2>1. Len(seqs) = 0 /\ seqs = << >>
    BY <1>2, <1>4
  <2> QED
    BY <2>1, Zenon DEF FlatMap, FlattenSeq
<1>5. ASSUME list # << >> PROVE FlatMap(f, list) = f[Head(list)] \o FlatMap(f, Tail(list))
  <2>1. seqs # << >> /\ Len(list) # 0
    <3>1. Len(list) # 0
      BY <1>1, <1>5, EmptySeq
    <3>2. Len(seqs) # 0
      BY <1>2, <3>1
    <3> HIDE DEF seqs
    <3>3. Len(<< >>) = 0
      OBVIOUS
    <3> QED
      BY <3>1, <3>2, <3>3, Zenon
  <2>2. Head(seqs) = f[Head(list)]
    BY <1>1, <2>1
  <2>3. Tail(seqs) = [k \in DOMAIN Tail(list) |-> f[Tail(list)[k]]]
    <3>1. /\ Tail(list) \in Seq(X) /\ Len(Tail(list)) = Len(list) - 1
          /\ \A k \in 1 .. Len(Tail(list)) : Tail(list)[k] = list[k + 1]
      BY <1>5, HeadTailProperties, Zenon
    <3>2. /\ Tail(seqs) \in Seq(Seq(S)) /\ Len(Tail(seqs)) = Len(seqs) - 1
          /\ \A k \in 1 .. Len(Tail(seqs)) : Tail(seqs)[k] = seqs[k + 1]
      <4> HIDE DEF seqs
      <4> QED
        BY <1>2, <2>1, HeadTailProperties, Zenon
    <3>3. DOMAIN Tail(list) = 1 .. Len(list) - 1
      BY <3>1, LenProperties, Zenon
    <3>4. Tail(seqs) = [k \in 1 .. Len(list) - 1 |-> Tail(seqs)[k]]
      <4>1. Tail(seqs) \in [1 .. Len(list) - 1 -> Seq(S)]
        <5> HIDE DEF seqs
        <5> QED
          BY <3>2, <1>2, LenProperties
      <4> HIDE DEF seqs
      <4> QED
        BY <4>1
    <3>5. \A k \in 1 .. Len(list) - 1 : Tail(seqs)[k] = f[Tail(list)[k]]
      <4>1. \A k \in 1 .. Len(list) - 1 : k + 1 \in 1 .. Len(list)
        BY <1>1
      <4>2. \A k \in 1 .. Len(list) - 1 : seqs[k + 1] = f[list[k + 1]]
        BY <1>1, <4>1
      <4> HIDE DEF seqs
      <4> QED
        BY <1>2, <3>1, <3>2, <4>2
    <3> HIDE DEF seqs
    <3> QED
      BY <3>3, <3>4, <3>5
  <2> HIDE DEF seqs
  <2>4. FlattenSeq(seqs) = Head(seqs) \o FlattenSeq(Tail(seqs))
    BY <1>2, <2>1, FlattenFirst, Zenon
  <2> QED
    BY <2>2, <2>3, <2>4, Zenon DEF FlatMap, seqs
<1> QED
  BY <1>3, <1>4, <1>5

\* Of an empty list it gives nothing.
LEMMA FlatMapNone == ASSUME NEW f PROVE FlatMap(f, << >>) = << >>
<1>1. Len([k \in DOMAIN << >> |-> f[<< >>[k]]]) = 0 /\ [k \in DOMAIN << >> |-> f[<< >>[k]]] = << >>
  OBVIOUS
<1> QED
  BY <1>1, Zenon DEF FlatMap, FlattenSeq

\* Of any other, what f gives for the first element, and then the rest.
LEMMA FlatMapFirst ==
  ASSUME NEW X, NEW S, NEW f \in [X -> Seq(S)], NEW list \in Seq(X), list # << >>
  PROVE  FlatMap(f, list) = f[Head(list)] \o FlatMap(f, Tail(list))
BY FlatMapIs, SMTT(40)

\* FlattenSeq taken apart at its end: the other sequences, and the last.
LEMMA FlattenLast ==
  ASSUME NEW S, NEW seqs \in Seq(Seq(S)), NEW last \in Seq(S)
  PROVE  FlattenSeq(Append(seqs, last)) = FlattenSeq(seqs) \o last
<1> DEFINE n == Len(seqs)
           more == Append(seqs, last)
<1>1. /\ n \in Nat /\ more \in Seq(Seq(S)) /\ Len(more) = n + 1 /\ more[n + 1] = last
      /\ \A k \in 1 .. n : more[k] = seqs[k]
  BY AppendProperties
<1> HIDE DEF more
<1>2. PICK all : FlattenRun(all, S, seqs)
  BY FlattenRuns, Zenon
<1>3. PICK others : FlattenRun(others, S, more)
  BY <1>1, FlattenRuns, Zenon
<1> DEFINE T == {k \in 0 .. n : others[k] = all[k]}
<1>4. 0 \in T
  BY <1>1, <1>2, <1>3 DEF FlattenRun
<1>5. ASSUME NEW k \in Nat, k < n, k \in T PROVE k + 1 \in T
  <2>1. k + 1 \in 1 .. n /\ k + 1 \in 1 .. Len(more) /\ (k + 1) - 1 = k /\ k + 1 \in 0 .. n
    BY <1>1, <1>5
  <2>2. all[k + 1] = all[k] \o seqs[k + 1] /\ others[k + 1] = others[k] \o more[k + 1]
    BY <1>2, <1>3, <2>1 DEF FlattenRun
  <2>3. others[k] = all[k]
    BY <1>5
  <2>4. others[k + 1] = all[k + 1]
    BY <1>1, <2>1, <2>2, <2>3, Zenon
  <2> QED
    BY <2>1, <2>4
<1>6. 0 .. n \subseteq T
  <2> HIDE DEF T
  <2> QED
    BY <1>1, <1>4, <1>5, CountUp
<1>7. others[n] = all[n] /\ n + 1 \in 1 .. Len(more) /\ (n + 1) - 1 = n
  BY <1>1, <1>6
<1>8. others[n + 1] = others[n] \o last
  BY <1>1, <1>3, <1>7 DEF FlattenRun
<1> QED
  BY <1>1, <1>2, <1>3, <1>7, <1>8, Zenon DEF FlattenRun, more

\* And FlatMap.
LEMMA FlatMapLast ==
  ASSUME NEW X, NEW S, NEW f \in [X -> Seq(S)], NEW list \in Seq(X), NEW x \in X
  PROVE  FlatMap(f, Append(list, x)) = FlatMap(f, list) \o f[x]
<1> DEFINE seqs == [k \in DOMAIN list |-> f[list[k]]]
           more == [k \in DOMAIN Append(list, x) |-> f[Append(list, x)[k]]]
<1>1. /\ Len(list) \in Nat /\ DOMAIN list = 1 .. Len(list) /\ \A k \in 1 .. Len(list) : list[k] \in X
      /\ DOMAIN Append(list, x) = 1 .. Len(list) + 1 /\ Append(list, x)[Len(list) + 1] = x
      /\ \A k \in 1 .. Len(list) : Append(list, x)[k] = list[k]
  <2>1. DOMAIN Append(list, x) = 1 .. Len(list) + 1
    BY AppendProperties, LenProperties
  <2> QED
    BY <2>1, AppendProperties, ElementOfSeq, LenProperties
<1>2. seqs \in Seq(Seq(S)) /\ Len(seqs) = Len(list) /\ \A k \in 1 .. Len(list) : seqs[k] = f[list[k]]
  <2>1. \A k \in 1 .. Len(list) : f[list[k]] \in Seq(S)
    BY <1>1, Zenon
  <2> QED
    BY <1>1, <2>1
<1>3. f[x] \in Seq(S)
  OBVIOUS
<1> HIDE DEF seqs
<1>4. more = Append(seqs, f[x])
  <2> DEFINE both == Append(seqs, f[x])
  <2>1. /\ both \in Seq(Seq(S)) /\ Len(both) = Len(list) + 1 /\ both[Len(list) + 1] = f[x]
        /\ \A k \in 1 .. Len(list) : both[k] = f[list[k]]
    BY <1>2, <1>3, AppendProperties
  <2> HIDE DEF both
  <2>2. DOMAIN both = 1 .. Len(list) + 1 /\ both = [k \in 1 .. Len(list) + 1 |-> both[k]]
    <3>1. both \in [1 .. Len(list) + 1 -> Seq(S)]
      BY <2>1, LenProperties
    <3> QED
      BY <3>1
  <2>3. \A k \in 1 .. Len(list) + 1 : both[k] = f[Append(list, x)[k]]
    <3>1. ASSUME NEW k \in 1 .. Len(list) + 1 PROVE k \in 1 .. Len(list) \/ k = Len(list) + 1
      BY <1>1
    <3> QED
      BY <1>1, <2>1, <3>1, Zenon
  <2>4. more = both
    BY <1>1, <2>2, <2>3, Zenon
  <2> QED
    BY <2>4 DEF both
<1> HIDE DEF more
<1> QED
  BY <1>2, <1>3, <1>4, FlattenLast, Zenon DEF FlatMap, more, seqs

\* IsPrefix, of what is appended to.
LEMMA IsPrefixOf ==
  ASSUME NEW S, NEW s \in Seq(S), NEW more \in Seq(S), NEW all, s \o more = all
  PROVE  IsPrefix(s, all)
<1>1. Len(s) \in Nat /\ Len(more) \in Nat /\ all \in Seq(S) /\ Len(all) = Len(s) + Len(more)
  BY ConcatProperties, LenProperties
<1>2. SubSeq(s, 1, Len(s)) = SubSeq(all, 1, Len(s))
  <2>1. CASE Len(s) = 0
    BY <1>1, <2>1, SubSeqEmpty
  <2>2. CASE Len(s) # 0
    <3>1. 1 \in 1 .. Len(s) /\ Len(s) \in 1 .. Len(s)
      BY <1>1, <2>2
    <3> QED
      BY <3>1, SubSeqOfConcat1
  <2> QED
    BY <2>1, <2>2
<1> QED
  BY <1>1, <1>2 DEF IsPrefix
=============================================================================
