---------------------------- MODULE RecursionFacts ----------------------------
(***************************************************************************)
(* Induction over the natural numbers in a form that the proofs of the     *)
(* components can use: the library's theorem takes a predicate as a        *)
(* parameter, these take a set or a function. Recursion and FoldRecursion  *)
(* say that what is defined by recursion over a number or over a sequence  *)
(* exists, so that the CHOOSE behind it finds it.                          *)
(***************************************************************************)
EXTENDS Naturals, SequencesExt, WellFoundedInduction, TLAPS

\* A set of natural numbers that is not empty has a least element.
LEMMA LeastNat ==
  ASSUME NEW T \in SUBSET Nat, T # {}
  PROVE  \E x \in T : \A y \in T : x <= y
<1> DEFINE R == OpToRel(<, Nat)
<1>1. IsWellFoundedOn(R, Nat)
  BY NatLessThanWellFounded
<1>2. \A x, y \in Nat : y < x => <<y, x>> \in R
  BY DEF OpToRel
<1> HIDE DEF R
<1>3. PICK x \in T : \A y \in T : ~ (<<y, x>> \in R)
  BY <1>1, WFMin
<1>4. \A y \in T : x <= y
  <2> SUFFICES ASSUME NEW y \in T PROVE x <= y
    OBVIOUS
  <2>1. x \in Nat /\ y \in Nat
    OBVIOUS
  <2>2. ~ (y < x)
    BY <1>2, <1>3, <2>1
  <2> QED
    BY <2>1, <2>2
<1> QED
  BY <1>4

\* What holds of 0 and passes from each number to the next holds up to n.
LEMMA UpTo ==
  ASSUME NEW n \in Nat, NEW S, 0 \in S, \A i \in 0 .. n - 1 : i \in S => i + 1 \in S
  PROVE  0 .. n \subseteq S
<1> SUFFICES ASSUME NEW k \in 0 .. n, k \notin S PROVE FALSE
  OBVIOUS
<1> DEFINE T == {i \in 0 .. n : i \notin S}
<1>1. PICK x \in T : \A y \in T : x <= y
  <2>1. T \in SUBSET Nat /\ T # {}
    OBVIOUS
  <2> HIDE DEF T
  <2> QED
    BY <2>1, LeastNat
<1>2. x # 0
  OBVIOUS
<1>3. x - 1 \in 0 .. n - 1 /\ x - 1 \notin T
  BY <1>1, <1>2
<1> QED
  BY <1>3

\* How a value of A becomes the next, at each of the numbers up to n, and the
\* values that this leads to from the first one.
StepFunctions(A, n) == [A \X (1 .. n) -> A]
Leads(f, n, b, step) == f[0] = b /\ \A i \in 1 .. n : f[i] = step[<<f[i - 1], i>>]

\* A function of the numbers up to n may be defined from its first value and
\* the step from each value to the next.
LEMMA Recursion ==
  ASSUME NEW n \in Nat, NEW A, NEW b \in A, NEW step \in StepFunctions(A, n)
  PROVE  \E f \in [0 .. n -> A] : Leads(f, n, b, step)
<1> USE DEF StepFunctions
<1> DEFINE Good(f, k) == f[0] = b /\ \A i \in 1 .. k : f[i] = step[<<f[i - 1], i>>]
           S == {k \in 0 .. n : \E f \in [0 .. k -> A] : Good(f, k)}
<1>1. 0 \in S
  <2> DEFINE g == [i \in 0 .. 0 |-> b]
  <2>1. g \in [0 .. 0 -> A] /\ Good(g, 0)
    OBVIOUS
  <2>2. 0 \in 0 .. n
    OBVIOUS
  <2> HIDE DEF g, Good
  <2> QED
    BY <2>1, <2>2
<1>2. ASSUME NEW k \in 0 .. n - 1, k \in S PROVE k + 1 \in S
  <2>1. PICK f \in [0 .. k -> A] : Good(f, k)
    BY <1>2
  <2> DEFINE g == [i \in 0 .. k + 1 |-> IF i <= k THEN f[i] ELSE step[<<f[k], k + 1>>]]
  <2>2. g \in [0 .. k + 1 -> A]
    <3>1. step[<<f[k], k + 1>>] \in A
      OBVIOUS
    <3> QED
      BY <3>1
  <2>3. g[0] = b
    BY <2>1
  <2>4. ASSUME NEW i \in 1 .. k + 1 PROVE g[i] = step[<<g[i - 1], i>>]
    <3>1. CASE i <= k
      BY <2>1, <3>1
    <3>2. CASE i = k + 1
      <4>1. g[i - 1] = f[k] /\ g[i] = step[<<f[k], k + 1>>]
        BY <3>2
      <4> QED
        BY <3>2, <4>1
    <3> QED
      BY <3>1, <3>2
  <2>5. Good(g, k + 1)
    BY <2>3, <2>4
  <2> HIDE DEF g, Good
  <2> QED
    BY <2>2, <2>5
<1> HIDE DEF S
<1>3. n \in S
  BY <1>1, <1>2, UpTo
<1> QED
  BY <1>3 DEF S, Leads

\* The greatest of the numbers up to k + 1, when it is one of them.
LEMMA MaxIsLast ==
  ASSUME NEW k \in Nat, NEW s \in SUBSET (1 .. k + 1), k + 1 \in s
  PROVE  Max(s) = k + 1
<1>1. \A x \in s : (\A y \in s : x >= y) <=> x = k + 1
  OBVIOUS
<1> QED
  BY <1>1 DEF Max

\* A set of numbers up to n that is not empty has a greatest member, Max.
LEMMA MaxIsIn ==
  ASSUME NEW n \in Nat, NEW s \in SUBSET (1 .. n), s # {}
  PROVE  Max(s) \in s /\ \A z \in s : z <= Max(s)
<1> DEFINE T == {n - x : x \in s}
<1>1. T \in SUBSET Nat /\ T # {}
  <2>1. \A x \in s : n - x \in Nat
    OBVIOUS
  <2>2. PICK x : x \in s
    OBVIOUS
  <2>3. n - x \in T
    BY <2>2
  <2> QED
    BY <2>1, <2>3
<1>2. PICK y \in T : \A z \in T : y <= z
  <2> HIDE DEF T
  <2> QED
    BY <1>1, LeastNat
<1>3. PICK x \in s : y = n - x
  OBVIOUS
<1>4. \A z \in s : x >= z
  <2> SUFFICES ASSUME NEW z \in s PROVE x >= z
    OBVIOUS
  <2>1. n - x <= n - z
    BY <1>2, <1>3
  <2>2. x \in 1 .. n /\ z \in 1 .. n
    OBVIOUS
  <2> QED
    BY <2>1, <2>2
<1>5. Max(s) \in s /\ \A z \in s : Max(s) >= z
  BY <1>4 DEF Max
<1> QED
  BY <1>5

\* A set of natural numbers that is not empty has a least member, Min.
LEMMA MinIsIn ==
  ASSUME NEW s \in SUBSET Nat, s # {}
  PROVE  Min(s) \in s /\ \A z \in s : Min(s) <= z
<1>1. \E x \in s : \A y \in s : x <= y
  BY LeastNat
<1> QED
  BY <1>1 DEF Min

\* The first numbers, taken one at a time.
LEMMA FirstNumbers ==
  ASSUME NEW i \in Nat \ {0}
  PROVE  Max(1 .. i) = i /\ (1 .. i) \ {i} = 1 .. i - 1 /\ 1 .. i # {}
<1>1. i \in 1 .. i /\ \A x \in 1 .. i : (\A y \in 1 .. i : x >= y) <=> x = i
  OBVIOUS
<1>2. Max(1 .. i) = i
  BY <1>1 DEF Max
<1>3. (1 .. i) \ {i} = 1 .. i - 1
  OBVIOUS
<1> QED
  BY <1>1, <1>2, <1>3

FoldLeads(g, n, b, step) ==
  g = [s \in SUBSET (1 .. n) |-> IF s = {} THEN b ELSE step[<<g[s \ {Max(s)}], Max(s)>>]]

\* The same for a fold over a sequence of n elements, which goes through the
\* sets of its indices by taking the greatest one away.
LEMMA FoldRecursion ==
  ASSUME NEW n \in Nat, NEW A, NEW b \in A, NEW step \in StepFunctions(A, n)
  PROVE  \E g \in [SUBSET (1 .. n) -> A] : FoldLeads(g, n, b, step)
<1> USE DEF StepFunctions
<1> DEFINE Good(g, k) ==
             \A s \in SUBSET (1 .. k) :
               g[s] = IF s = {} THEN b ELSE step[<<g[s \ {Max(s)}], Max(s)>>]
           S == {k \in 0 .. n : \E g \in [SUBSET (1 .. k) -> A] : Good(g, k)}
<1>1. 0 \in S
  <2> DEFINE g == [s \in SUBSET (1 .. 0) |-> b]
  <2>1. \A s \in SUBSET (1 .. 0) : s = {}
    OBVIOUS
  <2>2. g \in [SUBSET (1 .. 0) -> A] /\ Good(g, 0)
    BY <2>1
  <2>3. 0 \in 0 .. n
    OBVIOUS
  <2> HIDE DEF g, Good
  <2> QED
    BY <2>2, <2>3
<1>2. ASSUME NEW k \in 0 .. n - 1, k \in S PROVE k + 1 \in S
  <2>1. PICK f \in [SUBSET (1 .. k) -> A] : Good(f, k)
    BY <1>2
  <2> DEFINE Rest(s) == s \ {k + 1}
             g == [s \in SUBSET (1 .. k + 1) |->
                    IF k + 1 \in s THEN step[<<f[Rest(s)], k + 1>>] ELSE f[s]]
  <2>2. \A s \in SUBSET (1 .. k + 1) : Rest(s) \in SUBSET (1 .. k)
    OBVIOUS
  <2>3. \A s \in SUBSET (1 .. k + 1) : k + 1 \notin s => s \in SUBSET (1 .. k)
    OBVIOUS
  <2>4. g \in [SUBSET (1 .. k + 1) -> A]
    <3> SUFFICES ASSUME NEW s \in SUBSET (1 .. k + 1) PROVE g[s] \in A
      OBVIOUS
    <3>1. CASE k + 1 \in s
      <4>1. f[Rest(s)] \in A
        BY <2>2
      <4>2. k + 1 \in 1 .. n
        OBVIOUS
      <4> HIDE DEF Rest
      <4>3. <<f[Rest(s)], k + 1>> \in A \X (1 .. n)
        BY <4>1, <4>2
      <4> QED
        BY <3>1, <4>3
    <3>2. CASE k + 1 \notin s
      BY <2>3, <3>2
    <3> QED
      BY <3>1, <3>2
  <2>5. ASSUME NEW s \in SUBSET (1 .. k)
        PROVE  s \in SUBSET (1 .. k + 1) /\ g[s] = f[s]
    OBVIOUS
  <2>6. ASSUME NEW s \in SUBSET (1 .. k + 1)
        PROVE  g[s] = IF s = {} THEN b ELSE step[<<g[s \ {Max(s)}], Max(s)>>]
    <3>1. CASE k + 1 \in s
      <4>1. Max(s) = k + 1
        BY <3>1, MaxIsLast
      <4>2. g[Rest(s)] = f[Rest(s)]
        BY <2>2, <2>5
      <4>3. g[s] = step[<<f[Rest(s)], k + 1>>]
        BY <3>1
      <4> HIDE DEF g
      <4> QED
        BY <3>1, <4>1, <4>2, <4>3
    <3>2. CASE k + 1 \notin s
      <4>1. s \in SUBSET (1 .. k) /\ s \ {Max(s)} \in SUBSET (1 .. k)
        BY <2>3, <3>2
      <4>2. g[s] = f[s] /\ g[s \ {Max(s)}] = f[s \ {Max(s)}]
        BY <2>5, <4>1
      <4>3. f[s] = IF s = {} THEN b ELSE step[<<f[s \ {Max(s)}], Max(s)>>]
        BY <2>1, <4>1
      <4> HIDE DEF g
      <4> QED
        BY <4>2, <4>3
    <3> QED
      BY <3>1, <3>2
  <2>7. Good(g, k + 1)
    BY <2>6
  <2> HIDE DEF g, Good
  <2> QED
    BY <2>4, <2>7
<1> HIDE DEF S
<1>3. n \in S
  BY <1>1, <1>2, UpTo
<1>4. PICK g \in [SUBSET (1 .. n) -> A] : Good(g, n)
  BY <1>3 DEF S
<1>5. g = [s \in SUBSET (1 .. n) |->
            IF s = {} THEN b ELSE step[<<g[s \ {Max(s)}], Max(s)>>]]
  BY <1>4
<1> QED
  BY <1>5 DEF FoldLeads

\* FlattenSeq appends one sequence after the other.
LEMMA Flattened ==
  ASSUME NEW S, NEW s \in Seq(Seq(S))
  PROVE  \E f \in [0 .. Len(s) -> Seq(S)] :
           /\ f[0] = <<>>
           /\ \A i \in 1 .. Len(s) : f[i] = f[i - 1] \o s[i]
           /\ FlattenSeq(s) = f[Len(s)]
<1> DEFINE n == Len(s)
           A == Seq(S)
           Joined(x, i) == x \o s[i]
           step == [p \in A \X (1 .. n) |-> Joined(p[1], p[2])]
           Def(l) == l = [i \in 1 .. n |-> IF i = 1 THEN s[i] ELSE Joined(l[i - 1], i)]
<1>1. /\ n \in Nat /\ <<>> \in A
      /\ \A x \in A, i \in 1 .. n : Joined(x, i) \in A
      /\ \A i \in 1 .. n : Joined(<<>>, i) = s[i]
  <2>1. \A i \in 1 .. n : s[i] \in A
    OBVIOUS
  <2> QED
    BY <2>1
<1>2. FlattenSeq(s) = IF n = 0 THEN s ELSE (CHOOSE l : Def(l))[n]
  BY Zenon DEF FlattenSeq
<1>3. n = 0 => s = <<>>
  OBVIOUS
<1> HIDE DEF n, A, Joined
<1>4. step \in StepFunctions(A, n)
  BY <1>1 DEF StepFunctions
<1>5. PICK f \in [0 .. n -> A] : Leads(f, n, <<>>, step)
  <2> HIDE DEF step
  <2> QED
    BY <1>1, <1>4, Recursion
<1>6. f[0] = <<>> /\ \A i \in 1 .. n : f[i] = Joined(f[i - 1], i)
  <2> SUFFICES ASSUME NEW i \in 1 .. n PROVE f[i] = Joined(f[i - 1], i)
    BY <1>5 DEF Leads
  <2>1. f[i - 1] \in A
    BY <1>1
  <2>2. f[i] = step[<<f[i - 1], i>>]
    BY <1>5 DEF Leads
  <2> QED
    BY <2>1, <2>2
<1>7. FlattenSeq(s) = f[n]
  <2>1. CASE n = 0
    BY <1>2, <1>3, <1>6, <2>1
  <2>2. CASE n # 0
    <3> DEFINE g == [i \in 1 .. n |-> f[i]]
    <3>1. Def(g)
      <4> SUFFICES ASSUME NEW i \in 1 .. n
                   PROVE  g[i] = IF i = 1 THEN s[i] ELSE Joined(g[i - 1], i)
        BY Zenon
      <4>1. CASE i = 1
        BY <1>1, <1>6, <4>1
      <4>2. CASE i # 1
        <5>1. i - 1 \in 1 .. n
          BY <1>1, <4>2
        <5> QED
          BY <1>6, <4>2, <5>1
      <4> QED
        BY <4>1, <4>2
    <3>2. PICK l : Def(l) /\ FlattenSeq(s) = l[n]
      <4> HIDE DEF g
      <4> QED
        BY <1>2, <2>2, <3>1, Zenon
    <3> DEFINE T == {i \in 0 .. n : i = 0 \/ l[i] = f[i]}
    <3>3. ASSUME NEW i \in 0 .. n - 1, i \in T PROVE i + 1 \in T
      <4>1. i + 1 \in 1 .. n /\ i + 1 - 1 = i
        BY <1>1
      <4>2. l[i + 1] = IF i + 1 = 1 THEN s[i + 1] ELSE Joined(l[i], i + 1)
        <5>1. \A j \in 1 .. n : l[j] = IF j = 1 THEN s[j] ELSE Joined(l[j - 1], j)
          BY <3>2, Zenon
        <5> QED
          BY <4>1, <5>1
      <4>3. f[i + 1] = Joined(f[i], i + 1)
        BY <1>6, <4>1
      <4>4. l[i + 1] = f[i + 1]
        <5>1. CASE i = 0
          BY <1>1, <1>6, <4>1, <4>2, <4>3, <5>1
        <5>2. CASE i # 0
          <6>1. l[i] = f[i] /\ i + 1 # 1
            BY <3>3, <5>2
          <6> QED
            BY <4>2, <4>3, <6>1
        <5> QED
          BY <5>1, <5>2
      <4> QED
        BY <4>1, <4>4
    <3>4. 0 \in T
      BY <1>1
    <3> HIDE DEF T
    <3>5. 0 .. n \subseteq T
      BY <1>1, <3>3, <3>4, UpTo
    <3>6. n \in T
      BY <1>1, <3>5
    <3> QED
      BY <2>2, <3>2, <3>6 DEF T
  <2> QED
    BY <2>1, <2>2
<1> QED
  BY <1>6, <1>7 DEF n, A, Joined
=============================================================================
