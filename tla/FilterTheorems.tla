--------------------------- MODULE FilterTheorems ---------------------------
(***************************************************************************)
(* What Kept does to a sequence.  Induction is on sets of numbers, from    *)
(* the least element that the well-foundedness of < gives.                 *)
(***************************************************************************)
EXTENDS Filters, WellFoundedInduction, SequenceTheorems, TLAPS

\* A set of natural numbers that is not empty has a least one.
LEMMA LeastNumber ==
  ASSUME NEW T, T \subseteq Nat, T # {}
  PROVE  \E x \in T : \A y \in T : x <= y
<1> DEFINE Less == {p \in Nat \X Nat : p[1] < p[2]}
<1>1. IsWellFoundedOn(Less, Nat)
  BY NatLessThanWellFounded DEF OpToRel
<1>2. PICK x \in T : \A y \in T : <<y, x>> \notin Less
  <2> HIDE DEF Less
  <2> QED
    BY <1>1, WFMin
<1>3. \A y \in T : ~(y < x)
  BY <1>2
<1>4. QED
  BY <1>3

\* A set of numbers below a bound has a greatest one.
LEMMA GreatestNumber ==
  ASSUME NEW n \in Nat, NEW T, T \subseteq 1 .. n, T # {}
  PROVE  \E x \in T : \A y \in T : y <= x
<1> DEFINE Below == {n - y : y \in T}
<1>1. Below \subseteq Nat /\ Below # {}
  <2>1. \A y \in T : n - y \in Nat
    OBVIOUS
  <2>2. QED
    BY <2>1
<1>2. PICK b \in Below : \A c \in Below : b <= c
  <2> HIDE DEF Below
  <2> QED
    BY <1>1, LeastNumber
<1>3. PICK x \in T : b = n - x
  BY <1>2
<1>4. \A y \in T : n - x <= n - y
  BY <1>2, <1>3
<1>5. QED
  BY <1>4

\* Induction: what 0 has and every number hands to the next, all numbers have.
LEMMA Induction ==
  ASSUME NEW H, 0 \in H, \A n \in Nat : n \in H => n + 1 \in H
  PROVE  Nat \subseteq H
<1> SUFFICES ASSUME Nat \ H # {} PROVE FALSE
  OBVIOUS
<1>1. PICK x \in Nat \ H : \A y \in Nat \ H : x <= y
  BY LeastNumber
<1>2. x # 0 /\ x - 1 \in Nat /\ x - 1 \in H
  BY <1>1
<1>3. QED
  BY <1>1, <1>2

\* A loop over numbers whose state is in S: its rounds, and a run of n of them.
Rounds(S) == [Nat -> [S -> S]]
IsRun(G, n, S, first, step) ==
  G \in [0 .. n -> S] /\ G[0] = first /\ \A i \in 1 .. n : G[i] = step[i][G[i - 1]]

\* The loop can be run to any number.
LEMMA LoopRuns ==
  ASSUME NEW S, NEW first \in S, NEW step \in Rounds(S), NEW n \in Nat
  PROVE  \E G : IsRun(G, n, S, first, step)
<1>0. step \in [Nat -> [S -> S]]
  BY DEF Rounds
<1> DEFINE Runs(m, G) == G[0] = first /\ \A i \in 1 .. m : G[i] = step[i][G[i - 1]]
           H == {m \in Nat : \E G \in [0 .. m -> S] : Runs(m, G)}
<1>1. 0 \in H
  <2> DEFINE G == [i \in 0 .. 0 |-> first]
  <2>1. G \in [0 .. 0 -> S] /\ Runs(0, G)
    OBVIOUS
  <2> HIDE DEF G, Runs
  <2>2. QED
    BY <2>1
<1>2. ASSUME NEW m \in Nat, m \in H PROVE m + 1 \in H
  <2>1. PICK G \in [0 .. m -> S] : Runs(m, G)
    BY <1>2
  <2> DEFINE G2 == [i \in 0 .. m + 1 |-> IF i = m + 1 THEN step[m + 1][G[m]] ELSE G[i]]
  <2>2. G2 \in [0 .. m + 1 -> S]
    BY <1>0
  <2>3. G2[0] = first /\ \A i \in 1 .. m + 1 : G2[i] = step[i][G2[i - 1]]
    <3>1. G2[0] = first
      BY <2>1
    <3>2. ASSUME NEW i \in 1 .. m PROVE G2[i] = step[i][G2[i - 1]]
      BY <2>1
    <3>3. G2[m + 1] = step[m + 1][G2[m]]
      OBVIOUS
    <3>4. \A i \in 1 .. m + 1 : i \in 1 .. m \/ (i = m + 1 /\ i - 1 = m)
      OBVIOUS
    <3> HIDE DEF G2
    <3>5. QED
      BY <3>1, <3>2, <3>3, <3>4
  <2> HIDE DEF G2
  <2>4. QED
    BY <2>2, <2>3
<1> HIDE DEF H
<1>3. n \in H
  BY <1>1, <1>2, Induction
<1>4. QED
  BY <1>3 DEF H, IsRun

\* What the loop has at first and keeps in every round, it has at its end.
LEMMA LoopKeeps ==
  ASSUME NEW G, NEW n \in Nat, NEW good,
         <<0, G[0]>> \in good,
         \A i \in 1 .. n : <<i - 1, G[i - 1]>> \in good => <<i, G[i]>> \in good
  PROVE  \A i \in 0 .. n : <<i, G[i]>> \in good
<1> DEFINE H == {m \in Nat : m <= n => <<m, G[m]>> \in good}
<1>1. 0 \in H
  OBVIOUS
<1>2. ASSUME NEW m \in Nat, m \in H PROVE m + 1 \in H
  <2>1. m + 1 <= n => m + 1 \in 1 .. n /\ m <= n /\ (m + 1) - 1 = m
    OBVIOUS
  <2>2. QED
    BY <1>2, <2>1
<1> HIDE DEF H
<1>3. Nat \subseteq H
  BY <1>1, <1>2, Induction
<1>4. QED
  BY <1>3 DEF H

\* The part of the filter that has come to the n-th element.
KeptUpTo(G, n, s, S) ==
  G = [i \in 0 .. n |-> IF i = 0 THEN <<>>
                        ELSE IF s[i] \in S THEN Append(G[i - 1], s[i]) ELSE G[i - 1]]

\* The recursion, element by element.
LEMMA KeptStep ==
  ASSUME NEW G, NEW n \in Nat, NEW s, NEW S, KeptUpTo(G, n, s, S), NEW i \in 0 .. n
  PROVE  G[i] = IF i = 0 THEN <<>>
                ELSE IF s[i] \in S THEN Append(G[i - 1], s[i]) ELSE G[i - 1]
<1> DEFINE E(j) == IF j = 0 THEN <<>>
                   ELSE IF s[j] \in S THEN Append(G[j - 1], s[j]) ELSE G[j - 1]
<1>1. G = [j \in 0 .. n |-> E(j)]
  BY DEF KeptUpTo
<1> HIDE DEF E
<1>2. G[i] = E(i)
  BY <1>1
<1>3. QED
  BY <1>2 DEF E

\* The recursion has a solution.
LEMMA KeptExists ==
  ASSUME NEW s, NEW S, NEW n \in Nat
  PROVE  \E G : KeptUpTo(G, n, s, S)
<1> DEFINE H == {m \in Nat : \E G : KeptUpTo(G, m, s, S)}
<1>1. 0 \in H
  <2>1. KeptUpTo([i \in 0 .. 0 |-> <<>>], 0, s, S)
    BY DEF KeptUpTo
  <2>2. QED
    BY <2>1
<1>2. ASSUME NEW m \in Nat, m \in H PROVE m + 1 \in H
  <2>1. PICK G : KeptUpTo(G, m, s, S)
    BY <1>2
  <2> DEFINE G2 == [i \in 0 .. m + 1 |->
                      IF i = m + 1
                      THEN IF s[i] \in S THEN Append(G[m], s[i]) ELSE G[m]
                      ELSE G[i]]
  <2>2. \A i \in 0 .. m + 1 :
          G2[i] = IF i = 0 THEN <<>>
                  ELSE IF s[i] \in S THEN Append(G2[i - 1], s[i]) ELSE G2[i - 1]
    <3> SUFFICES ASSUME NEW i \in 0 .. m + 1
                 PROVE  G2[i] = IF i = 0 THEN <<>>
                                ELSE IF s[i] \in S THEN Append(G2[i - 1], s[i]) ELSE G2[i - 1]
      OBVIOUS
    <3>1. CASE i = m + 1
      BY <3>1
    <3>2. CASE i \in 1 .. m
      <4>1. G2[i] = G[i] /\ G2[i - 1] = G[i - 1]
        BY <3>2
      <4>2. G[i] = IF s[i] \in S THEN Append(G[i - 1], s[i]) ELSE G[i - 1]
        BY <2>1, <3>2, KeptStep
      <4>3. QED
        BY <3>2, <4>1, <4>2
    <3>3. CASE i = 0
      BY <2>1, <3>3 DEF KeptUpTo
    <3>4. QED
      BY <3>1, <3>2, <3>3
  <2>3. G2 = [i \in 0 .. m + 1 |->
                IF i = 0 THEN <<>>
                ELSE IF s[i] \in S THEN Append(G2[i - 1], s[i]) ELSE G2[i - 1]]
    <3> DEFINE G3 == [i \in 0 .. m + 1 |->
                        IF i = 0 THEN <<>>
                        ELSE IF s[i] \in S THEN Append(G2[i - 1], s[i]) ELSE G2[i - 1]]
    <3>1. \A i \in 0 .. m + 1 : G2[i] = G3[i]
      BY <2>2
    <3>2. G2 = [i \in 0 .. m + 1 |-> G2[i]] /\ G3 = [i \in 0 .. m + 1 |-> G3[i]]
      OBVIOUS
    <3> HIDE DEF G2, G3
    <3>3. QED
      BY <3>1, <3>2 DEF G3
  <2>4. KeptUpTo(G2, m + 1, s, S)
    BY <2>3 DEF KeptUpTo
  <2> HIDE DEF G2
  <2>5. QED
    BY <2>4
<1> HIDE DEF H
<1>3. Nat \subseteq H
  BY <1>1, <1>2, Induction
<1>4. QED
  BY <1>3 DEF H

\* f gives, for each element of k, its place among the first n of s: ascending,
\* and all the places of elements of S.
PlacesIn(k, f, n, s, S) ==
  /\ f \in [1 .. Len(k) -> 1 .. n]
  /\ \A i \in 1 .. Len(k) : k[i] = s[f[i]] /\ s[f[i]] \in S
  /\ \A i, j \in 1 .. Len(k) : i < j => f[i] < f[j]
  /\ \A j \in 1 .. n : s[j] \in S => \E i \in 1 .. Len(k) : f[i] = j

\* One more element of s: it is appended, or it is none of S.
LEMMA PlacesStep ==
  ASSUME NEW T, NEW s \in Seq(T), NEW S, NEW n \in Nat, n + 1 <= Len(s),
         NEW k \in Seq(T), NEW f, PlacesIn(k, f, n, s, S),
         NEW k2, k2 = IF s[n + 1] \in S THEN Append(k, s[n + 1]) ELSE k
  PROVE  k2 \in Seq(T) /\ \E f2 : PlacesIn(k2, f2, n + 1, s, S)
<1>1. s[n + 1] \in T
  BY n + 1 \in 1 .. Len(s)
<1>2. CASE s[n + 1] \in S
  <2> DEFINE f2 == [i \in 1 .. Len(k) + 1 |-> IF i = Len(k) + 1 THEN n + 1 ELSE f[i]]
  <2>1. /\ k2 \in Seq(T) /\ Len(k2) = Len(k) + 1 /\ k2[Len(k) + 1] = s[n + 1]
        /\ \A i \in 1 .. Len(k) : k2[i] = k[i]
    BY <1>1, <1>2
  <2>2. Len(k) \in Nat /\ 1 .. Len(k2) = 1 .. Len(k) \cup {Len(k) + 1}
    BY <2>1
  <2>3. /\ \A i \in 1 .. Len(k) : f2[i] = f[i] /\ f[i] \in 1 .. n
        /\ f2[Len(k) + 1] = n + 1
    BY <2>2 DEF PlacesIn
  <2>4. f2 \in [1 .. Len(k2) -> 1 .. n + 1]
    BY <2>1 DEF PlacesIn
  <2> HIDE DEF f2
  <2>5. \A i \in 1 .. Len(k2) : k2[i] = s[f2[i]] /\ s[f2[i]] \in S
    BY <1>2, <2>1, <2>2, <2>3 DEF PlacesIn
  <2>6. ASSUME NEW i \in 1 .. Len(k2), NEW j \in 1 .. Len(k2), i < j PROVE f2[i] < f2[j]
    <3>1. i \in 1 .. Len(k)
      BY <2>2, <2>6
    <3>2. CASE j = Len(k) + 1
      BY <2>3, <3>1, <3>2
    <3>3. CASE j \in 1 .. Len(k)
      BY <2>3, <2>6, <3>1, <3>3 DEF PlacesIn
    <3>4. QED
      BY <2>2, <3>2, <3>3
  <2>7. ASSUME NEW j \in 1 .. n + 1, s[j] \in S PROVE \E i \in 1 .. Len(k2) : f2[i] = j
    <3>1. CASE j = n + 1
      BY <2>2, <2>3, <3>1
    <3>2. CASE j \in 1 .. n
      <4>1. PICK i \in 1 .. Len(k) : f[i] = j
        BY <2>7, <3>2 DEF PlacesIn
      <4>2. QED
        BY <2>2, <2>3, <4>1
    <3>3. QED
      BY <3>1, <3>2
  <2>8. PlacesIn(k2, f2, n + 1, s, S)
    BY <2>4, <2>5, <2>6, <2>7 DEF PlacesIn
  <2>9. QED
    BY <2>1, <2>8
<1>3. CASE s[n + 1] \notin S
  <2>1. /\ 1 .. n \subseteq 1 .. n + 1
        /\ \A j \in 1 .. n + 1 : j = n + 1 \/ j \in 1 .. n
    OBVIOUS
  <2>2. f \in [1 .. Len(k) -> 1 .. n + 1]
    BY <2>1 DEF PlacesIn
  <2>3. \A j \in 1 .. n + 1 : s[j] \in S => \E i \in 1 .. Len(k) : f[i] = j
    BY <1>3, <2>1 DEF PlacesIn
  <2>4. PlacesIn(k, f, n + 1, s, S)
    BY <2>2, <2>3 DEF PlacesIn
  <2>5. QED
    BY <1>3, <2>4
<1>4. QED
  BY <1>2, <1>3

\* What the filter keeps is a sequence, of the elements of S in their order.
LEMMA KeptPlaces ==
  ASSUME NEW T, NEW s \in Seq(T), NEW S
  PROVE  /\ Kept(s, S) \in Seq(T)
         /\ \E f : PlacesIn(Kept(s, S), f, Len(s), s, S)
<1>1. Len(s) \in Nat
  OBVIOUS
<1>2. PICK G : KeptUpTo(G, Len(s), s, S) /\ Kept(s, S) = G[Len(s)]
  <2>1. \E G : KeptUpTo(G, Len(s), s, S)
    BY <1>1, KeptExists
  <2>2. QED
    BY <2>1 DEF Kept, KeptUpTo
<1> DEFINE H == {n \in Nat : n <= Len(s) =>
                   G[n] \in Seq(T) /\ \E f : PlacesIn(G[n], f, n, s, S)}
<1>3. 0 \in H
  <2>1. G[0] = <<>>
    BY <1>1, <1>2, KeptStep
  <2>2. PlacesIn(<<>>, [i \in 1 .. 0 |-> 0], 0, s, S)
    BY DEF PlacesIn
  <2>3. G[0] \in Seq(T)
    BY <2>1
  <2>4. QED
    BY <2>1, <2>2, <2>3
<1>4. ASSUME NEW n \in Nat, n \in H PROVE n + 1 \in H
  <2> SUFFICES ASSUME n + 1 <= Len(s)
               PROVE  G[n + 1] \in Seq(T) /\ \E f : PlacesIn(G[n + 1], f, n + 1, s, S)
    OBVIOUS
  <2>1. PICK f : G[n] \in Seq(T) /\ PlacesIn(G[n], f, n, s, S)
    BY <1>4, n <= Len(s)
  <2>2. G[n + 1] = IF s[n + 1] \in S THEN Append(G[n], s[n + 1]) ELSE G[n]
    <3>1. n + 1 \in 0 .. Len(s) /\ n + 1 # 0 /\ (n + 1) - 1 = n
      BY <1>1
    <3>2. QED
      BY <1>1, <1>2, <3>1, KeptStep
  <2>3. QED
    BY <2>1, <2>2, PlacesStep
<1> HIDE DEF H
<1>5. Len(s) \in H
  BY <1>1, <1>3, <1>4, Induction
<1>6. QED
  BY <1>2, <1>5 DEF H

\* The elements that are kept are those that are in S.
THEOREM KeptElements ==
  ASSUME NEW T, NEW s \in Seq(T), NEW S
  PROVE  {Kept(s, S)[i] : i \in DOMAIN Kept(s, S)} = {s[i] : i \in DOMAIN s} \cap S
<1>1. PICK f : Kept(s, S) \in Seq(T) /\ PlacesIn(Kept(s, S), f, Len(s), s, S)
  BY KeptPlaces
<1> DEFINE k == Kept(s, S)
<1> HIDE DEF k
<1>2. k \in Seq(T) /\ DOMAIN k = 1 .. Len(k) /\ DOMAIN s = 1 .. Len(s)
  BY <1>1 DEF k
<1>3. PlacesIn(k, f, Len(s), s, S)
  BY <1>1 DEF k
<1>4. {k[i] : i \in DOMAIN k} = {s[i] : i \in DOMAIN s} \cap S
  BY <1>2, <1>3 DEF PlacesIn
<1>5. QED
  BY <1>4 DEF k

\* Any two elements of what is kept are two of s.
LEMMA KeptPairs ==
  ASSUME NEW T, NEW s \in Seq(T), NEW S, NEW i \in DOMAIN Kept(s, S), NEW j \in DOMAIN Kept(s, S)
  PROVE  \E a, b \in DOMAIN s : /\ Kept(s, S)[i] = s[a] /\ Kept(s, S)[j] = s[b]
                                /\ s[a] \in S /\ s[b] \in S
                                /\ a = b => i = j
<1>1. PICK f : Kept(s, S) \in Seq(T) /\ PlacesIn(Kept(s, S), f, Len(s), s, S)
  BY KeptPlaces
<1>2. DOMAIN Kept(s, S) = 1 .. Len(Kept(s, S)) /\ DOMAIN s = 1 .. Len(s)
  BY <1>1
<1>3. f[i] \in DOMAIN s /\ f[j] \in DOMAIN s /\ (f[i] = f[j] => i = j)
  BY <1>1, <1>2 DEF PlacesIn
<1>4. QED
  BY <1>1, <1>2, <1>3 DEF PlacesIn
=============================================================================
