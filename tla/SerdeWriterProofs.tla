-------------------------- MODULE SerdeWriterProofs ---------------------------
(* Proofs about SerdeWriter for every set of scalars, names and bounds.      *)
EXTENDS SerdeWriter, FiniteSetTheorems, WellFoundedInduction, TLAPS

-----------------------------------------------------------------------------
(* Induction over the natural numbers, by the least counterexample.          *)

LEMMA LeastNat ==
  ASSUME NEW T, T \subseteq Nat, T # {}
  PROVE  \E m \in T : \A k \in T : m <= k
<1> DEFINE less == {pair \in Nat \X Nat : pair[1] < pair[2]}
<1>1. IsWellFoundedOn(less, Nat)
  BY NatLessThanWellFounded DEF OpToRel
<1>2. PICK m \in T : \A k \in T : <<k, m>> \notin less
  BY <1>1, WFMin
<1>3. \A k \in T : <<k, m>> \in Nat \X Nat
  OBVIOUS
<1>4. \A k \in T : ~(k < m)
  BY <1>2, <1>3
<1> QED
  BY <1>4

-----------------------------------------------------------------------------
(* Sequences: the last element and those before it.                          *)

LEMMA AppendParts ==
  ASSUME NEW S, NEW s \in Seq(S), NEW e \in S
  PROVE  /\ Append(s, e) \in Seq(S) /\ Append(s, e) # <<>>
         /\ Len(Append(s, e)) = Len(s) + 1
         /\ \A i \in 1..Len(s) : Append(s, e)[i] = s[i]
         /\ Append(s, e)[Len(s) + 1] = e
         /\ Front(Append(s, e)) = s
         /\ Last(Append(s, e)) = e
<1> DEFINE t == Append(s, e)
<1>1. /\ t \in Seq(S) /\ Len(t) = Len(s) + 1 /\ t # <<>>
      /\ \A i \in 1..Len(s) : t[i] = s[i]
      /\ t[Len(s) + 1] = e
  OBVIOUS
<1>2. Len(s) \in Nat
  OBVIOUS
<1>3. SubSeq(t, 1, Len(s)) \in Seq(S) /\ Len(SubSeq(t, 1, Len(s))) = Len(s)
  BY <1>1, <1>2
<1>4. \A i \in 1..Len(s) : SubSeq(t, 1, Len(s))[i] = s[i]
  BY <1>1, <1>2
<1>5. SubSeq(t, 1, Len(s)) = s
  BY <1>3, <1>4
<1>6. Len(t) - 1 = Len(s)
  BY <1>1, <1>2
<1> QED
  BY <1>1, <1>2, <1>5, <1>6 DEF Front, Last

LEMMA FrontParts ==
  ASSUME NEW S, NEW s \in Seq(S), s # <<>>
  PROVE  /\ Front(s) \in Seq(S) /\ Last(s) \in S
         /\ Len(s) \in Nat \ {0} /\ Len(Front(s)) = Len(s) - 1
         /\ \A i \in 1..(Len(s) - 1) : Front(s)[i] = s[i]
         /\ s = Append(Front(s), Last(s))
<1>1. Len(s) \in Nat \ {0} /\ Last(s) \in S
  BY DEF Last
<1>2. Front(s) \in Seq(S) /\ Len(Front(s)) = Len(s) - 1
  BY SMTT(30), <1>1 DEF Front
<1>3. \A i \in 1..(Len(s) - 1) : Front(s)[i] = s[i]
  BY <1>1 DEF Front
<1>4. s = Append(Front(s), Last(s))
  BY <1>1, <1>2, <1>3 DEF Last
<1> QED
  BY <1>1, <1>2, <1>3, <1>4

LEMMA ConcatParts ==
  ASSUME NEW S, NEW s \in Seq(S), NEW t \in Seq(S)
  PROVE  /\ s \o t \in Seq(S)
         /\ Len(s \o t) = Len(s) + Len(t)
         /\ \A i \in 1..Len(s) : (s \o t)[i] = s[i]
         /\ \A i \in 1..Len(t) : (s \o t)[Len(s) + i] = t[i]
         /\ s \o <<>> = s /\ <<>> \o s = s
OBVIOUS

LEMMA ConcatAssociates ==
  ASSUME NEW S, NEW s \in Seq(S), NEW t \in Seq(S), NEW u \in Seq(S)
  PROVE  (s \o t) \o u = s \o (t \o u)
<1> DEFINE l == (s \o t) \o u
           r == s \o (t \o u)
<1>1. /\ l \in Seq(S) /\ r \in Seq(S) /\ Len(l) = Len(s) + Len(t) + Len(u)
      /\ Len(r) = Len(s) + Len(t) + Len(u)
      /\ Len(s) \in Nat /\ Len(t) \in Nat /\ Len(u) \in Nat
  OBVIOUS
<1>2. ASSUME NEW i \in 1..Len(l)
      PROVE  l[i] = r[i]
  OBVIOUS
<1> QED
  BY <1>1, <1>2

LEMMA AppendIsConcat ==
  ASSUME NEW S, NEW s \in Seq(S), NEW e \in S
  PROVE  Append(s, e) = s \o <<e>>
OBVIOUS

(* A part of a sequence stays where it is when more is written behind it.    *)
LEMMA PartStays ==
  ASSUME NEW S, NEW s \in Seq(S), NEW t \in Seq(S), NEW m \in Nat, NEW n \in Nat,
         m <= n, n <= Len(s)
  PROVE  SubSeq(s \o t, m + 1, n) = SubSeq(s, m + 1, n)
<1> DEFINE l == SubSeq(s \o t, m + 1, n)
           r == SubSeq(s, m + 1, n)
<1>1. Len(s \o t) = Len(s) + Len(t) /\ s \o t \in Seq(S) /\ Len(s) \in Nat /\ Len(t) \in Nat
  OBVIOUS
<1>2. l \in Seq(S) /\ Len(l) = n - m
  BY <1>1
<1>3. r \in Seq(S) /\ Len(r) = n - m
  BY <1>1
<1>4. ASSUME NEW i \in 1..(n - m)
      PROVE  l[i] = r[i]
  <2>1. l[i] = (s \o t)[m + i]
    BY <1>1
  <2>2. r[i] = s[m + i]
    BY <1>1
  <2> QED
    BY <2>1, <2>2, <1>1
<1> QED
  BY <1>2, <1>3, <1>4

LEMMA PartBehind ==
  ASSUME NEW S, NEW s \in Seq(S), NEW t \in Seq(S)
  PROVE  SubSeq(s \o t, Len(s) + 1, Len(s) + Len(t)) = t
<1> DEFINE l == SubSeq(s \o t, Len(s) + 1, Len(s) + Len(t))
<1>1. Len(s \o t) = Len(s) + Len(t) /\ s \o t \in Seq(S) /\ Len(s) \in Nat /\ Len(t) \in Nat
  OBVIOUS
<1>2. l \in Seq(S) /\ Len(l) = Len(t)
  BY <1>1
<1>3. ASSUME NEW i \in 1..Len(t)
      PROVE  l[i] = t[i]
  BY <1>1
<1> QED
  BY <1>2, <1>3

-----------------------------------------------------------------------------
(* FlattenSeq, by the sequences already joined.                             *)

Joining(ss, n, g) ==
  g = [i \in 1..n |-> IF i = 1 THEN ss[i] ELSE g[i - 1] \o ss[i]]

Alike(ss, tt, n) == \A i \in 1..n : ss[i] = tt[i]

LEMMA JoiningExists ==
  ASSUME NEW S, NEW ss \in Seq(Seq(S))
  PROVE  \A n \in 0..Len(ss) : \E g \in [1..n -> Seq(S)] : Joining(ss, n, g)
<1> DEFINE Joined(n) == \E g \in [1..n -> Seq(S)] : Joining(ss, n, g)
           bad == {n \in 0..Len(ss) : ~Joined(n)}
<1> SUFFICES ASSUME bad # {} PROVE FALSE
  OBVIOUS
<1> HIDE DEF Joined
<1>1. bad \subseteq Nat /\ Len(ss) \in Nat
  OBVIOUS
<1>2. PICK m \in bad : \A k \in bad : m <= k
  BY <1>1, LeastNat
<1>3. CASE m = 0
  <2> DEFINE none == [i \in 1..0 |-> ss[i]]
  <2>1. none \in [1..0 -> Seq(S)] /\ Joining(ss, 0, none)
    BY DEF Joining
  <2>2. Joined(m)
    BY <1>3, <2>1 DEF Joined
  <2> QED
    BY <1>2, <2>2
<1>4. CASE m # 0
  <2>1. m \in 1..Len(ss) /\ m - 1 \in 0..Len(ss) /\ Joined(m - 1)
    BY <1>1, <1>2, <1>4
  <2>2. PICK g \in [1..(m - 1) -> Seq(S)] : Joining(ss, m - 1, g)
    BY <2>1 DEF Joined
  <2>3. \A i \in 1..(m - 1) : g[i] = IF i = 1 THEN ss[i] ELSE g[i - 1] \o ss[i]
    BY <2>2 DEF Joining
  <2> DEFINE here == IF m = 1 THEN ss[m] ELSE g[m - 1] \o ss[m]
             h == [i \in 1..m |-> IF i = m THEN here ELSE g[i]]
  <2>4. ss[m] \in Seq(S)
    BY <2>1
  <2>5. here \in Seq(S)
    <3>1. CASE m = 1
      BY <2>4, <3>1
    <3>2. CASE m # 1
      <4>1. g[m - 1] \in Seq(S)
        BY <2>1, <2>2, <3>2
      <4> QED
        BY <2>4, <3>2, <4>1
    <3> QED
      BY <3>1, <3>2
  <2>6. h \in [1..m -> Seq(S)]
    <3>1. ASSUME NEW i \in 1..m, i # m PROVE g[i] \in Seq(S)
      BY <2>1, <2>2, <3>1
    <3> QED
      BY <2>5, <3>1
  <2>7. ASSUME NEW i \in 1..m
        PROVE  h[i] = IF i = 1 THEN ss[i] ELSE h[i - 1] \o ss[i]
    <3>1. CASE i = m
      <4>1. i # 1 => i - 1 \in 1..m /\ i - 1 # m
        BY <2>1, <3>1
      <4> QED
        BY <3>1, <4>1
    <3>2. CASE i # m
      <4>1. i \in 1..(m - 1)
        BY <2>1, <3>2
      <4>2. i # 1 => i - 1 \in 1..m /\ i - 1 # m
        BY <2>1, <4>1
      <4> QED
        BY <2>3, <3>2, <4>1, <4>2
    <3> QED
      BY <3>1, <3>2
  <2>8. Joining(ss, m, h)
    BY <2>6, <2>7 DEF Joining
  <2>9. Joined(m)
    BY <2>6, <2>8 DEF Joined
  <2> QED
    BY <1>2, <2>9
<1> QED
  BY <1>3, <1>4

LEMMA JoiningAgrees ==
  ASSUME NEW ss, NEW tt, NEW n \in Nat, NEW k \in Nat, n <= k, Alike(ss, tt, n),
         NEW g, NEW h, Joining(ss, n, g), Joining(tt, k, h)
  PROVE  Alike(g, h, n)
<1> DEFINE bad == {i \in 1..n : g[i] # h[i]}
<1> SUFFICES ASSUME bad # {} PROVE FALSE
  BY DEF Alike
<1>1. bad \subseteq Nat
  OBVIOUS
<1>2. PICK m \in bad : \A i \in bad : m <= i
  BY <1>1, LeastNat
<1>3. /\ \A i \in 1..n : g[i] = IF i = 1 THEN ss[i] ELSE g[i - 1] \o ss[i]
      /\ \A i \in 1..k : h[i] = IF i = 1 THEN tt[i] ELSE h[i - 1] \o tt[i]
  BY DEF Joining
<1>4. m \in 1..n /\ m \in 1..k
  BY <1>2
<1>5. m # 1 => m - 1 \in 1..n /\ m - 1 \notin bad
  BY <1>2, <1>4
<1> QED
  BY <1>2, <1>3, <1>4, <1>5 DEF Alike

LEMMA FlattenEmpty == FlattenSeq(<<>>) = <<>>
BY DEF FlattenSeq

LEMMA FlattenIs ==
  ASSUME NEW S, NEW ss \in Seq(Seq(S)), ss # <<>>
  PROVE  \E g : /\ g \in [1..Len(ss) -> Seq(S)]
                 /\ Joining(ss, Len(ss), g)
                 /\ FlattenSeq(ss) = g[Len(ss)]
<1> DEFINE chosen == CHOOSE g : Joining(ss, Len(ss), g)
<1>1. Len(ss) \in Nat /\ Len(ss) # 0
  OBVIOUS
<1>2. PICK f \in [1..Len(ss) -> Seq(S)] : Joining(ss, Len(ss), f)
  BY SMTT(30), <1>1, JoiningExists
<1>3. Joining(ss, Len(ss), chosen)
  BY <1>2
<1>4. \A i \in 1..Len(ss) : chosen[i] = f[i]
  BY <1>1, <1>2, <1>3, JoiningAgrees DEF Alike
<1>5. DOMAIN chosen = 1..Len(ss) /\ chosen = [i \in DOMAIN chosen |-> chosen[i]]
  BY <1>3 DEF Joining
<1>6. chosen \in [1..Len(ss) -> Seq(S)]
  BY <1>2, <1>4, <1>5
<1>7. FlattenSeq(ss) = chosen[Len(ss)]
  BY <1>1 DEF FlattenSeq, Joining
<1> QED
  BY <1>3, <1>6, <1>7

LEMMA JoiningAt ==
  ASSUME NEW ss, NEW n \in Nat, NEW g, Joining(ss, n, g), NEW i \in 1..n
  PROVE  g[i] = IF i = 1 THEN ss[i] ELSE g[i - 1] \o ss[i]
BY DEF Joining

LEMMA FlattenAppend ==
  ASSUME NEW S, NEW ss, ss \in Seq(Seq(S)), NEW s \in Seq(S)
  PROVE  FlattenSeq(Append(ss, s)) = FlattenSeq(ss) \o s
<1> DEFINE tt == Append(ss, s)
<1>0. PICK n \in Nat, k \in Nat : n = Len(ss) /\ k = Len(tt)
  BY AppendParts
<1>1. /\ tt \in Seq(Seq(S)) /\ tt # <<>> /\ k = n + 1
      /\ \A i \in 1..n : ss[i] = tt[i]
      /\ tt[k] = s
  BY <1>0, AppendParts
<1>2. PICK h : Joining(tt, k, h) /\ FlattenSeq(tt) = h[k]
  BY <1>0, <1>1, FlattenIs
<1> HIDE DEF tt
<1>3. h[k] = IF k = 1 THEN tt[k] ELSE h[k - 1] \o tt[k]
  <2>1. k \in Nat /\ k \in 1..k
    BY <1>1
  <2>2. Joining(tt, k, h)
    BY <1>2
  <2> QED
    BY <2>1, <2>2, JoiningAt
<1>4. CASE ss = <<>>
  <2>1. FlattenSeq(ss) = <<>> /\ n = 0
    BY <1>0, <1>4, FlattenEmpty
  <2>2. FlattenSeq(tt) = s
    BY <1>1, <1>2, <1>3, <2>1
  <2>3. <<>> \o s = s
    BY ConcatParts
  <2> QED
    BY <2>1, <2>2, <2>3 DEF tt
<1>5. CASE ss # <<>>
  <2>1. PICK g : Joining(ss, n, g) /\ FlattenSeq(ss) = g[n]
    BY <1>0, <1>5, FlattenIs
  <2>2. n \in 1..n /\ n <= k /\ k # 1 /\ k - 1 = n
    BY <1>0, <1>1, <1>5
  <2>3. \A i \in 1..n : g[i] = h[i]
    <3>1. n <= k /\ Alike(ss, tt, n)
      BY <1>1, <2>2 DEF Alike
    <3>2. Joining(ss, n, g) /\ Joining(tt, k, h)
      BY <1>2, <2>1
    <3>3. Alike(g, h, n)
      BY <3>1, <3>2, JoiningAgrees
    <3> QED
      BY <3>3 DEF Alike
  <2>4. FlattenSeq(tt) = h[n] \o s
    BY <1>1, <1>2, <1>3, <2>2
  <2> QED
    BY <2>1, <2>2, <2>3, <2>4 DEF tt
<1> QED
  BY <1>4, <1>5

LEMMA FlattenType ==
  ASSUME NEW S, NEW ss \in Seq(Seq(S))
  PROVE  FlattenSeq(ss) \in Seq(S)
<1>1. CASE ss = <<>>
  <2>1. <<>> \in Seq(S)
    OBVIOUS
  <2> QED
    BY <1>1, <2>1, FlattenEmpty
<1>2. CASE ss # <<>>
  <2>1. PICK g : g \in [1..Len(ss) -> Seq(S)] /\ FlattenSeq(ss) = g[Len(ss)]
    BY <1>2, FlattenIs
  <2>2. Len(ss) \in 1..Len(ss)
    BY <1>2
  <2> QED
    BY <2>1, <2>2
<1> QED
  BY <1>1, <1>2

LEMMA FlattenOne ==
  ASSUME NEW S, NEW s \in Seq(S)
  PROVE  FlattenSeq(<<s>>) = s
<1>1. <<s>> = Append(<<>>, s) /\ <<>> \in Seq(Seq(S))
  OBVIOUS
<1>2. FlattenSeq(Append(<<>>, s)) = FlattenSeq(<<>>) \o s
  BY <1>1, FlattenAppend
<1>3. <<>> \o s = s
  BY ConcatParts
<1> QED
  BY <1>1, <1>2, <1>3, FlattenEmpty

-----------------------------------------------------------------------------
(* Layered, by the vectors of the values so far.                            *)

Layering(fs, n, g) ==
  g = [i \in 0..n |-> IF i = 0 THEN Clean ELSE Holding(g[i - 1], fs[i])]

LEMMA LayeringAt ==
  ASSUME NEW fs, NEW n \in Nat, NEW g, Layering(fs, n, g)
  PROVE  /\ g[0] = Clean
         /\ \A i \in 1..n : g[i] = Holding(g[i - 1], fs[i])
BY DEF Layering

LEMMA LayeringExists ==
  ASSUME NEW fs
  PROVE  \A n \in Nat : \E g : Layering(fs, n, g)
<1> DEFINE Layers(n) == \E g : Layering(fs, n, g)
           bad == {n \in Nat : ~Layers(n)}
<1> SUFFICES ASSUME bad # {} PROVE FALSE
  OBVIOUS
<1> HIDE DEF Layers
<1>1. bad \subseteq Nat
  OBVIOUS
<1>2. PICK m \in bad : \A k \in bad : m <= k
  BY <1>1, LeastNat
<1>3. CASE m = 0
  <2> DEFINE g == [i \in 0..0 |-> Clean]
  <2>1. Layering(fs, 0, g)
    BY DEF Layering
  <2>2. Layers(m)
    BY <1>3, <2>1 DEF Layers
  <2> QED
    BY <1>2, <2>2
<1>4. CASE m # 0
  <2>1. m \in Nat \ {0} /\ m - 1 \in Nat /\ Layers(m - 1)
    BY <1>1, <1>2, <1>4
  <2>2. PICK n \in Nat : n = m - 1
    BY <2>1
  <2>3. PICK g : Layering(fs, n, g)
    BY <2>1, <2>2 DEF Layers
  <2>4. g[0] = Clean /\ \A i \in 1..n : g[i] = Holding(g[i - 1], fs[i])
    BY <2>3, LayeringAt
  <2> DEFINE h == [i \in 0..m |-> IF i = m THEN Holding(g[n], fs[m]) ELSE g[i]]
  <2>5. ASSUME NEW i \in 0..m
        PROVE  h[i] = IF i = 0 THEN Clean ELSE Holding(h[i - 1], fs[i])
    <3>1. CASE i = m
      <4>1. i # 0 /\ i - 1 = n /\ n \in 0..m /\ n # m
        BY <2>1, <2>2, <3>1
      <4> QED
        BY <3>1, <4>1
    <3>2. CASE i # m /\ i = 0
      BY <2>4, <3>2
    <3>3. CASE i # m /\ i # 0
      <4>1. i \in 1..n /\ i - 1 \in 0..m /\ i - 1 # m
        BY <2>1, <2>2, <3>3
      <4> QED
        BY <2>4, <3>3, <4>1
    <3> QED
      BY <3>1, <3>2, <3>3
  <2>6. Layering(fs, m, h)
    BY <2>5 DEF Layering
  <2>7. Layers(m)
    BY <2>6 DEF Layers
  <2> QED
    BY <1>2, <2>7
<1> QED
  BY <1>3, <1>4

LEMMA LayeringAgrees ==
  ASSUME NEW fs, NEW ff, NEW n \in Nat, NEW k \in Nat, n <= k, Alike(fs, ff, n),
         NEW g, NEW h, Layering(fs, n, g), Layering(ff, k, h)
  PROVE  g[n] = h[n]
<1> DEFINE bad == {i \in 0..n : g[i] # h[i]}
<1>1. bad \subseteq Nat
  OBVIOUS
<1>2. /\ g[0] = Clean
      /\ \A i \in 1..n : g[i] = Holding(g[i - 1], fs[i])
  BY LayeringAt
<1>3. /\ h[0] = Clean
      /\ \A i \in 1..k : h[i] = Holding(h[i - 1], ff[i])
  BY LayeringAt
<1>4. ASSUME bad # {} PROVE FALSE
  <2>1. PICK m \in bad : \A i \in bad : m <= i
    BY <1>1, <1>4, LeastNat
  <2>2. m \in 0..n /\ g[m] # h[m]
    BY <2>1
  <2>3. m \in 1..n /\ m \in 1..k /\ m - 1 \in 0..n
    BY <1>2, <1>3, <2>2
  <2>4. g[m - 1] = h[m - 1]
    BY <2>1, <2>3
  <2>5. fs[m] = ff[m]
    BY <2>3 DEF Alike
  <2> QED
    BY <1>2, <1>3, <2>2, <2>3, <2>4, <2>5
<1> QED
  BY <1>4

LEMMA LayeredIs ==
  ASSUME NEW fs, NEW n \in Nat, Len(fs) = n
  PROVE  \E g : Layering(fs, n, g) /\ Layered(fs) = g[n]
<1> DEFINE chosen == CHOOSE g : Layering(fs, n, g)
<1>1. Layering(fs, n, chosen)
  BY LayeringExists
<1>2. Layered(fs) = chosen[n]
  BY DEF Layered, Layering
<1> QED
  BY <1>1, <1>2

LEMMA LayeredEmpty == Layered(<<>>) = Clean
<1>1. PICK n \in Nat : n = 0
  OBVIOUS
<1>2. Len(<<>>) = n
  BY <1>1
<1>3. PICK g : Layering(<<>>, n, g) /\ Layered(<<>>) = g[n]
  BY <1>2, LayeredIs
<1> QED
  BY <1>1, <1>3, LayeringAt

LEMMA LayeredAppend ==
  ASSUME NEW S, NEW fs, fs \in Seq(S), NEW f \in S
  PROVE  Layered(Append(fs, f)) = Holding(Layered(fs), f)
<1> DEFINE ff == Append(fs, f)
<1>1. PICK n \in Nat, k \in Nat : n = Len(fs) /\ k = Len(ff)
  BY AppendParts
<1>2. /\ k = n + 1 /\ n <= k /\ k - 1 = n /\ k \in 1..k
      /\ Alike(fs, ff, n)
      /\ ff[k] = f
  BY <1>1, AppendParts DEF Alike
<1> HIDE DEF ff
<1>3. PICK h : Layering(ff, k, h) /\ Layered(ff) = h[k]
  BY <1>1, LayeredIs
<1>4. PICK g : Layering(fs, n, g) /\ Layered(fs) = g[n]
  BY <1>1, LayeredIs
<1>5. g[n] = h[n]
  BY <1>2, <1>3, <1>4, LayeringAgrees
<1>6. h[k] = Holding(h[k - 1], ff[k])
  BY <1>2, <1>3, LayeringAt
<1> QED
  BY <1>2, <1>3, <1>4, <1>5, <1>6 DEF ff

-----------------------------------------------------------------------------
(* The bytes a value writes of itself, and the vectors they go to.           *)

LEMMA BytesAssociate ==
  ASSUME NEW s \in Seq(Bytes), NEW t \in Seq(Bytes), NEW u \in Seq(Bytes)
  PROVE  (s \o t) \o u = s \o (t \o u)
BY ConcatAssociates

LEMMA NamesAreBytes ==
  ASSUME NEW i \in 1..Len(Names)
  PROVE  Names[i] \in Seq(Bytes) /\ <<i - 1>> \in Seq(Bytes)
<1>1. Len(Names) \in 1..23 /\ Names \in Seq(Seq(0..255))
  BY WriterAssumption
<1>2. PICK n \in 1..23 : n = Len(Names)
  BY <1>1
<1>3. i - 1 \in 0..255
  BY SMTT(30), <1>2
<1>4. <<i - 1>> \in Seq(0..255)
  BY <1>3
<1> QED
  BY <1>1, <1>4 DEF Bytes

LEMMA HeadsAreBytes ==
  /\ \A n \in 0..31, major \in 4..6 : Head1(major, n) \in Seq(Bytes)
  /\ VariantHead \in Seq(Bytes) /\ TagHead \in Seq(Bytes)
<1>1. \A n \in 0..31, major \in 4..6 : 32 * major + n \in 0..255
  OBVIOUS
<1>2. \A n \in 0..31, major \in 4..6 : Head1(major, n) \in Seq(Bytes)
  BY <1>1 DEF Head1, Bytes
<1> QED
  BY <1>2 DEF VariantHead, TagHead

LEMMA FramingIsBytes ==
  ASSUME NEW f \in Frames
  PROVE  Opening(f) \in Seq(Bytes) /\ Closing(f) \in Seq(Bytes)
<1>1. f.known \in 0..Len(Names) \cup 0..MaxEntries \cup {Unknown}
  BY DEF Frames
<1>2. PICK fields \in 1..23, most \in 1..23 : fields = Len(Names) /\ most = MaxEntries
  BY WriterAssumption
<1>3. f.known # Unknown => f.known \in 0..fields \cup 0..most
  BY <1>1, <1>2
<1>4. f.known # Unknown => f.known \in 0..31
  BY <1>3
<1>5. Major(f) \in 4..6 /\ 31 \in 0..31
  BY DEF Major
<1>6. Opening(f) \in Seq(Bytes)
  <2>1. CASE f.known = Unknown
    BY <1>5, <2>1, HeadsAreBytes DEF Opening
  <2>2. CASE f.known # Unknown
    BY <1>4, <1>5, <2>2, HeadsAreBytes DEF Opening
  <2> QED
    BY <2>1, <2>2
<1>7. <<255>> \in Seq(Bytes) /\ <<>> \in Seq(Bytes)
  BY DEF Bytes
<1> QED
  BY <1>6, <1>7 DEF Closing

LEMMA PartialIsBytes ==
  ASSUME NEW f \in Frames
  PROVE  FlattenSeq(f.given) \in Seq(Bytes) /\ Partial(f) \in Seq(Bytes)
<1>1. f.given \in Seq(Seq(Bytes))
  BY DEF Frames
<1>2. FlattenSeq(f.given) \in Seq(Bytes)
  BY <1>1, FlattenType
<1>3. /\ Opening(f) \o FlattenSeq(f.given) \in Seq(Bytes)
      /\ VariantHead \o FlattenSeq(f.given) \in Seq(Bytes)
  BY <1>2, FramingIsBytes, HeadsAreBytes, ConcatParts
<1> QED
  BY <1>2, <1>3 DEF Partial

LEMMA PutParts ==
  ASSUME NEW bufs, bufs \in Seq(Seq(Bytes)), bufs # <<>>, NEW b, b \in Seq(Bytes)
  PROVE  /\ Put(bufs, b) \in Seq(Seq(Bytes)) /\ Put(bufs, b) # <<>>
         /\ Len(Put(bufs, b)) = Len(bufs)
         /\ \A i \in 1..(Len(bufs) - 1) : Put(bufs, b)[i] = bufs[i]
         /\ Front(Put(bufs, b)) = Front(bufs)
         /\ Last(Put(bufs, b)) = Last(bufs) \o b
<1>1. /\ Front(bufs) \in Seq(Seq(Bytes)) /\ Last(bufs) \in Seq(Bytes)
      /\ Len(bufs) \in Nat \ {0} /\ Len(Front(bufs)) = Len(bufs) - 1
      /\ \A i \in 1..(Len(bufs) - 1) : Front(bufs)[i] = bufs[i]
  BY FrontParts
<1>2. Last(bufs) \o b \in Seq(Bytes)
  BY <1>1, ConcatParts
<1>3. PICK front \in Seq(Seq(Bytes)), last \in Seq(Bytes) :
        front = Front(bufs) /\ last = Last(bufs) \o b
  BY <1>1, <1>2
<1>4. Put(bufs, b) = Append(front, last)
  BY <1>3 DEF Put
<1>5. Append(front, last) \in Seq(Seq(Bytes)) /\ Append(front, last) # <<>>
  BY AppendParts
<1>6. Len(Append(front, last)) = Len(front) + 1
  BY AppendParts
<1>7. \A i \in 1..Len(front) : Append(front, last)[i] = front[i]
  BY AppendParts
<1>8. Front(Append(front, last)) = front /\ Last(Append(front, last)) = last
  BY AppendParts
<1>9. Len(front) = Len(bufs) - 1 /\ Len(bufs) \in Nat \ {0}
  BY <1>1, <1>3
<1>10. Len(Put(bufs, b)) = Len(bufs)
  BY <1>4, <1>6, <1>9
<1>11. \A i \in 1..(Len(bufs) - 1) : Put(bufs, b)[i] = bufs[i]
  BY <1>1, <1>3, <1>4, <1>7, <1>9
<1> QED
  BY <1>3, <1>4, <1>5, <1>8, <1>10, <1>11

LEMMA PutTwice ==
  ASSUME NEW bufs, bufs \in Seq(Seq(Bytes)), bufs # <<>>,
         NEW a \in Seq(Bytes), NEW b \in Seq(Bytes)
  PROVE  Put(Put(bufs, a), b) = Put(bufs, a \o b)
<1>1. Front(Put(bufs, a)) = Front(bufs) /\ Last(Put(bufs, a)) = Last(bufs) \o a
  BY PutParts
<1>2. PICK last \in Seq(Bytes) : last = Last(bufs)
  BY FrontParts
<1>3. (last \o a) \o b = last \o (a \o b)
  BY SMTT(30), ConcatAssociates
<1> QED
  BY <1>1, <1>2, <1>3 DEF Put

LEMMA HoldingParts ==
  ASSUME NEW bufs, bufs \in Seq(Seq(Bytes)), bufs # <<>>, NEW f, f \in Frames
  PROVE  /\ Holding(bufs, f) \in Seq(Seq(Bytes)) /\ Holding(bufs, f) # <<>>
         /\ Owns(f) => /\ Len(Holding(bufs, f)) = Len(bufs) + 1
                       /\ \A i \in 1..Len(bufs) : Holding(bufs, f)[i] = bufs[i]
                       /\ Holding(bufs, f)[Len(bufs) + 1] = FlattenSeq(f.given)
                       /\ Front(Holding(bufs, f)) = bufs
                       /\ Last(Holding(bufs, f)) = FlattenSeq(f.given)
         /\ ~Owns(f) => /\ Len(Holding(bufs, f)) = Len(bufs)
                        /\ \A i \in 1..(Len(bufs) - 1) : Holding(bufs, f)[i] = bufs[i]
                        /\ Last(Holding(bufs, f)) = Last(bufs) \o Partial(f)
<1>1. Partial(f) \in Seq(Bytes)
  BY PartialIsBytes
<1>2. CASE Owns(f)
  <2>1. Partial(f) = FlattenSeq(f.given)
    BY <1>2 DEF Partial, Owns, Sorting, Buffering
  <2>2. Holding(bufs, f) = Append(bufs, Partial(f))
    BY <1>2 DEF Holding
  <2> QED
    BY <1>1, <1>2, <2>1, <2>2, AppendParts
<1>3. CASE ~Owns(f)
  <2>1. Holding(bufs, f) = Put(bufs, Partial(f))
    BY <1>3 DEF Holding
  <2> QED
    BY <1>1, <1>3, <2>1, PutParts
<1> QED
  BY <1>2, <1>3

(* A value that writes more of itself writes it to the vector opened last.   *)
Grows(f, g, b) ==
  /\ Owns(g) <=> Owns(f)
  /\ Partial(g) = Partial(f) \o b

LEMMA HoldingMore ==
  ASSUME NEW bufs, bufs \in Seq(Seq(Bytes)), bufs # <<>>, NEW f, f \in Frames,
         NEW g, NEW b, b \in Seq(Bytes), Grows(f, g, b)
  PROVE  Holding(bufs, g) = Put(Holding(bufs, f), b)
<1>0. (Owns(g) <=> Owns(f)) /\ Partial(g) = Partial(f) \o b
  BY DEF Grows
<1>1. Partial(f) \in Seq(Bytes)
  BY PartialIsBytes
<1>2. CASE Owns(f)
  <2>1. Holding(bufs, f) = Append(bufs, Partial(f)) /\ Holding(bufs, g) = Append(bufs, Partial(g))
    BY <1>0, <1>2 DEF Holding
  <2>2. Front(Holding(bufs, f)) = bufs /\ Last(Holding(bufs, f)) = Partial(f)
    BY <1>1, <2>1, AppendParts
  <2> QED
    BY <1>0, <2>1, <2>2 DEF Put
<1>3. CASE ~Owns(f)
  <2>1. Holding(bufs, f) = Put(bufs, Partial(f)) /\ Holding(bufs, g) = Put(bufs, Partial(g))
    BY <1>0, <1>3 DEF Holding
  <2> QED
    BY <1>0, <1>1, <2>1, PutTwice
<1> QED
  BY <1>2, <1>3

-----------------------------------------------------------------------------
(* The vectors open for the values fs: one for each that owns one, beginning *)
(* with what it has written.                                                *)

Owning(fs, n) == Cardinality({j \in 1..n : Owns(fs[j])})
Begins(s, t) == \E u \in Seq(Bytes) : t = s \o u

LEMMA OwningCounts ==
  ASSUME NEW fs, NEW n \in Nat
  PROVE  /\ Owning(fs, n) \in Nat
         /\ Owning(fs, 0) = 0
         /\ Owns(fs[n + 1]) => Owning(fs, n + 1) = Owning(fs, n) + 1
         /\ ~Owns(fs[n + 1]) => Owning(fs, n + 1) = Owning(fs, n)
<1> DEFINE here == {j \in 1..n : Owns(fs[j])}
           next == {j \in 1..(n + 1) : Owns(fs[j])}
<1>1. IsFiniteSet(1..n)
  BY FS_Interval
<1>2. IsFiniteSet(here)
  BY <1>1, FS_Subset
<1>3. Cardinality(here) \in Nat
  BY <1>2, FS_CardinalityType
<1>4. {j \in 1..0 : Owns(fs[j])} = {}
  OBVIOUS
<1>5. ASSUME Owns(fs[n + 1])
      PROVE  Cardinality(next) = Cardinality(here) + 1
  <2>1. next = here \cup {n + 1} /\ n + 1 \notin here
    BY <1>5
  <2> HIDE DEF next, here
  <2> QED
    BY <1>2, <2>1, FS_AddElement
<1>6. ASSUME ~Owns(fs[n + 1])
      PROVE  next = here
  BY <1>6
<1> QED
  BY <1>3, <1>4, <1>5, <1>6, FS_EmptySet DEF Owning

LEMMA OwningAlike ==
  ASSUME NEW fs, NEW ff, NEW n \in Nat, Alike(fs, ff, n), NEW i \in 1..n
  PROVE  Owning(fs, i) = Owning(ff, i) /\ Owning(fs, n) = Owning(ff, n)
<1>1. {j \in 1..i : Owns(fs[j])} = {j \in 1..i : Owns(ff[j])}
  BY DEF Alike
<1>2. {j \in 1..n : Owns(fs[j])} = {j \in 1..n : Owns(ff[j])}
  BY DEF Alike
<1> QED
  BY <1>1, <1>2 DEF Owning

LEMMA OwningBound ==
  ASSUME NEW fs, NEW n \in Nat, NEW i \in 1..n
  PROVE  /\ Owning(fs, i) \in Nat /\ Owning(fs, i) <= Owning(fs, n)
         /\ Owns(fs[i]) => Owning(fs, i) >= 1
<1> DEFINE some == {j \in 1..i : Owns(fs[j])}
           all == {j \in 1..n : Owns(fs[j])}
<1>1. IsFiniteSet(1..n)
  BY FS_Interval
<1>2. IsFiniteSet(all) /\ some \in SUBSET all
  BY <1>1, FS_Subset
<1>3. IsFiniteSet(some) /\ Cardinality(some) <= Cardinality(all)
  BY <1>2, FS_Subset
<1>4. Cardinality(some) \in Nat
  BY <1>3, FS_CardinalityType
<1>5. Owns(fs[i]) => Cardinality(some) >= 1
  <2>1. Owns(fs[i]) => some # {}
    OBVIOUS
  <2>2. Cardinality(some) = 0 => some = {}
    BY <1>3, FS_EmptySet
  <2> QED
    BY <1>4, <2>1, <2>2
<1> QED
  BY <1>3, <1>4, <1>5 DEF Owning

(* What the i-th of the vectors bufs holds for the values fs.                *)
Held(bufs, fs) ==
  \A i \in 1..Len(fs) :
    Owns(fs[i]) => Begins(FlattenSeq(fs[i].given), bufs[1 + Owning(fs, i)])

Open(bufs, fs) ==
  /\ bufs \in Seq(Seq(Bytes)) /\ bufs # <<>>
  /\ Len(bufs) = 1 + Owning(fs, Len(fs))
  /\ Held(bufs, fs)

LEMMA BeginsMore ==
  ASSUME NEW s \in Seq(Bytes), NEW t, Begins(s, t), NEW b \in Seq(Bytes)
  PROVE  Begins(s, t \o b) /\ t \in Seq(Bytes) /\ Begins(s, s)
<1>1. PICK u \in Seq(Bytes) : t = s \o u
  BY DEF Begins
<1>2. u \o b \in Seq(Bytes) /\ t \in Seq(Bytes) /\ s \o <<>> = s /\ <<>> \in Seq(Bytes)
  BY <1>1, ConcatParts
<1>3. t \o b = s \o (u \o b)
  BY <1>1, ConcatAssociates
<1> QED
  BY <1>2, <1>3 DEF Begins

LEMMA BeginsItself ==
  ASSUME NEW s \in Seq(Bytes)
  PROVE  Begins(s, s)
<1>1. <<>> \in Seq(Bytes) /\ s \o <<>> = s
  BY ConcatParts
<1> QED
  BY <1>1 DEF Begins

LEMMA OpenAppend ==
  ASSUME NEW fs, fs \in Seq(Frames), NEW f \in Frames, NEW bufs, Open(bufs, fs)
  PROVE  Open(Holding(bufs, f), Append(fs, f))
<1> DEFINE held == Holding(bufs, f)
           ff == Append(fs, f)
<1>1. PICK n \in Nat, k \in Nat : n = Len(fs) /\ k = Len(ff)
  BY AppendParts
<1>2. k = n + 1 /\ ff[k] = f /\ Alike(fs, ff, n)
  BY <1>1, AppendParts DEF Alike
<1>3. bufs \in Seq(Seq(Bytes)) /\ bufs # <<>> /\ Len(bufs) = 1 + Owning(fs, n) /\ Held(bufs, fs)
  BY <1>1 DEF Open
<1> HIDE DEF held, ff
<1>4. held \in Seq(Seq(Bytes)) /\ held # <<>>
  BY <1>3, HoldingParts DEF held
<1>5. PICK own \in Nat : own = Owning(fs, n) /\ own = Owning(ff, n) /\ Len(bufs) = 1 + own
  <2>1. Owning(fs, n) \in Nat
    BY OwningCounts
  <2>2. Owning(fs, n) = Owning(ff, n)
    <3>1. CASE n = 0
      BY <3>1, OwningCounts
    <3>2. CASE n # 0
      <4>1. n \in 1..n
        BY <3>2
      <4> QED
        BY <1>2, <4>1, OwningAlike
    <3> QED
      BY <3>1, <3>2
  <2> QED
    BY <1>3, <2>1, <2>2
<1>6. /\ Owns(f) => Owning(ff, k) = own + 1
      /\ ~Owns(f) => Owning(ff, k) = own
  BY <1>2, <1>5, OwningCounts
<1>7. Len(held) = 1 + Owning(ff, k)
  <2>1. Owns(f) => Len(held) = Len(bufs) + 1
    BY <1>3, HoldingParts DEF held
  <2>2. ~Owns(f) => Len(held) = Len(bufs)
    BY <1>3, HoldingParts DEF held
  <2> QED
    BY <1>5, <1>6, <2>1, <2>2
<1>8. ASSUME NEW i \in 1..n, Owns(ff[i])
      PROVE  Begins(FlattenSeq(ff[i].given), held[1 + Owning(ff, i)])
  <2>1. ff[i] = fs[i] /\ Owning(ff, i) = Owning(fs, i)
    BY <1>2, OwningAlike DEF Alike
  <2>2. PICK at \in Nat : at = 1 + Owning(fs, i) /\ at >= 1 /\ at <= 1 + own
    <3>1. Owning(fs, i) \in Nat /\ Owning(fs, i) <= Owning(fs, n)
      BY OwningBound
    <3> QED
      BY <1>5, <3>1
  <2>3. Begins(FlattenSeq(fs[i].given), bufs[at])
    BY <1>1, <1>3, <1>8, <2>1, <2>2 DEF Held
  <2>4. CASE Owns(f) \/ at < 1 + own
    <3>1. held[at] = bufs[at]
      <4>1. CASE Owns(f)
        <5>1. at \in 1..Len(bufs)
          BY <1>5, <2>2
        <5> QED
          BY <1>3, <4>1, <5>1, HoldingParts DEF held
      <4>2. CASE ~Owns(f)
        <5>1. at \in 1..(Len(bufs) - 1)
          BY <1>5, <2>2, <2>4, <4>2
        <5> QED
          BY <1>3, <4>2, <5>1, HoldingParts DEF held
      <4> QED
        BY <4>1, <4>2
    <3> QED
      BY <2>1, <2>2, <2>3, <3>1
  <2>5. CASE ~Owns(f) /\ at = 1 + own
    <3>1. bufs[at] = Last(bufs) /\ held[at] = Last(held)
      BY <1>5, <1>6, <1>7, <2>2, <2>5 DEF Last
    <3>2. Last(held) = Last(bufs) \o Partial(f)
      BY <1>3, <2>5, HoldingParts DEF held
    <3>3. FlattenSeq(fs[i].given) \in Seq(Bytes) /\ Partial(f) \in Seq(Bytes)
      <4>1. fs[i] \in Frames
        BY <1>1
      <4> QED
        BY <4>1, PartialIsBytes
    <3>4. Begins(FlattenSeq(fs[i].given), bufs[at] \o Partial(f))
      BY <2>3, <3>3, BeginsMore
    <3> QED
      BY <2>1, <2>2, <3>1, <3>2, <3>4
  <2> QED
    BY <2>2, <2>4, <2>5
<1>9. ASSUME Owns(f)
      PROVE  Begins(FlattenSeq(f.given), held[1 + Owning(ff, k)])
  <2>1. held[Len(bufs) + 1] = FlattenSeq(f.given)
    BY <1>3, <1>9, HoldingParts DEF held
  <2>2. FlattenSeq(f.given) \in Seq(Bytes)
    BY PartialIsBytes
  <2>3. 1 + Owning(ff, k) = Len(bufs) + 1
    BY <1>5, <1>6, <1>9
  <2> QED
    BY <2>1, <2>2, <2>3, BeginsItself
<1>10. Held(held, ff)
  <2>1. ASSUME NEW i \in 1..k, Owns(ff[i])
        PROVE  Begins(FlattenSeq(ff[i].given), held[1 + Owning(ff, i)])
    <3>1. CASE i = k
      BY <1>2, <1>9, <2>1, <3>1
    <3>2. CASE i # k
      <4>1. i \in 1..n
        BY <1>2, <3>2
      <4> QED
        BY <1>8, <2>1, <4>1
    <3> QED
      BY <3>1, <3>2
  <2> QED
    BY <1>1, <2>1 DEF Held
<1> QED
  BY <1>1, <1>4, <1>7, <1>10 DEF Open, held, ff

LEMMA LayeredOpen ==
  ASSUME NEW fs, fs \in Seq(Frames)
  PROVE  Open(Layered(fs), fs)
<1> DEFINE Counter(n) == \E gg \in Seq(Frames) : Len(gg) = n /\ ~Open(Layered(gg), gg)
           bad == {n \in Nat : Counter(n)}
<1> HIDE DEF Counter
<1>1. ASSUME bad # {} PROVE FALSE
  <2>1. PICK m \in bad : \A k \in bad : m <= k
    BY <1>1, LeastNat
  <2>2. PICK gg : gg \in Seq(Frames) /\ Len(gg) = m /\ ~Open(Layered(gg), gg)
    BY <2>1 DEF Counter
  <2>3. CASE gg = <<>>
    <3>1. Layered(gg) = Clean /\ Len(gg) = 0
      BY <2>3, LayeredEmpty
    <3>2. Clean \in Seq(Seq(Bytes)) /\ Clean # <<>> /\ Len(Clean) = 1
      BY DEF Clean
    <3>3. Owning(gg, 0) = 0
      BY OwningCounts
    <3>4. Held(Clean, gg)
      BY <3>1 DEF Held
    <3> QED
      BY <2>2, <3>1, <3>2, <3>3, <3>4 DEF Open
  <2>4. CASE gg # <<>>
    <3>1. /\ Front(gg) \in Seq(Frames) /\ Last(gg) \in Frames
          /\ Len(gg) \in Nat \ {0} /\ Len(Front(gg)) = Len(gg) - 1
          /\ gg = Append(Front(gg), Last(gg))
      BY <2>2, <2>4, FrontParts
    <3>2. Open(Layered(Front(gg)), Front(gg))
      <4>1. m - 1 \in Nat /\ m - 1 \notin bad
        BY <2>1, <2>2, <3>1
      <4>2. ~Counter(m - 1)
        BY <4>1
      <4> QED
        BY <2>2, <3>1, <4>2 DEF Counter
    <3>3. Open(Holding(Layered(Front(gg)), Last(gg)), Append(Front(gg), Last(gg)))
      BY <3>1, <3>2, OpenAppend
    <3>4. Layered(gg) = Holding(Layered(Front(gg)), Last(gg))
      BY <3>1, LayeredAppend
    <3> QED
      BY <2>2, <3>1, <3>3, <3>4
  <2> QED
    BY <2>3, <2>4
<1>2. Len(fs) \in Nat
  OBVIOUS
<1>3. ~Counter(Len(fs))
  BY <1>1, <1>2
<1> QED
  BY <1>3 DEF Counter

-----------------------------------------------------------------------------
(* What a value has written depends on its shape and its parts.             *)

LEMMA PartialSame ==
  ASSUME NEW f, NEW g, g.shape = f.shape, g.mode = f.mode, g.known = f.known,
         g.given = f.given
  PROVE  /\ Owns(g) <=> Owns(f)
         /\ Sorting(g) <=> Sorting(f)
         /\ Partial(g) = Partial(f)
<1>1. /\ Sorting(g) <=> Sorting(f)
      /\ Buffering(g) <=> Buffering(f)
  BY DEF Sorting, Buffering
<1>2. Owns(g) <=> Owns(f)
  BY <1>1 DEF Owns
<1>3. Opening(g) = Opening(f)
  BY DEF Opening, Major
<1> QED
  BY <1>1, <1>2, <1>3 DEF Partial

LEMMA PartialMore ==
  ASSUME NEW f \in Frames, NEW g, g.shape = f.shape, g.mode = f.mode, g.known = f.known,
         NEW b \in Seq(Bytes), g.given = Append(f.given, b)
  PROVE  /\ Owns(g) <=> Owns(f)
         /\ Sorting(g) <=> Sorting(f)
         /\ Partial(g) = Partial(f) \o b
         /\ FlattenSeq(g.given) = FlattenSeq(f.given) \o b
<1>1. /\ Sorting(g) <=> Sorting(f)
      /\ Buffering(g) <=> Buffering(f)
  BY DEF Sorting, Buffering
<1>2. Owns(g) <=> Owns(f)
  BY <1>1 DEF Owns
<1>3. Opening(g) = Opening(f)
  BY DEF Opening, Major
<1>4. PICK flat \in Seq(Bytes) : flat = FlattenSeq(f.given)
  BY PartialIsBytes
<1>5. FlattenSeq(g.given) = flat \o b
  <2>1. f.given \in Seq(Seq(Bytes))
    BY DEF Frames
  <2> QED
    BY <1>4, <2>1, FlattenAppend
<1>6. PICK open \in Seq(Bytes) : open = Opening(f)
  BY FramingIsBytes
<1>7. PICK head \in Seq(Bytes) : head = VariantHead
  BY HeadsAreBytes
<1>7a. (open \o flat) \o b = open \o (flat \o b)
  BY BytesAssociate
<1>7b. (head \o flat) \o b = head \o (flat \o b)
  BY BytesAssociate
<1>8. CASE Owns(f)
  BY <1>2, <1>4, <1>5, <1>8 DEF Partial, Owns, Sorting, Buffering
<1>9. CASE ~Owns(f) /\ f.shape = "variant"
  <2>1. Partial(f) = head \o flat /\ Partial(g) = head \o (flat \o b)
    BY <1>2, <1>4, <1>5, <1>7, <1>9 DEF Partial
  <2> QED
    BY <1>1, <1>2, <1>4, <1>5, <1>7b, <2>1
<1>10. CASE ~Owns(f) /\ f.shape # "variant"
  <2>1. Partial(f) = open \o flat /\ Partial(g) = open \o (flat \o b)
    BY <1>2, <1>3, <1>4, <1>5, <1>6, <1>10 DEF Partial
  <2> QED
    BY <1>1, <1>2, <1>4, <1>5, <1>7a, <2>1
<1> QED
  BY <1>1, <1>2, <1>4, <1>5, <1>8, <1>9, <1>10

-----------------------------------------------------------------------------
(* Offsets stay right when the arena grows.                                 *)

LEMMA KeyStays ==
  ASSUME NEW arena, arena \in Seq(Bytes), NEW b, b \in Seq(Bytes),
         NEW m \in Nat, NEW n \in Nat, m <= n, n <= Len(arena)
  PROVE  SubSeq(arena \o b, m + 1, n) = SubSeq(arena, m + 1, n)
BY PartStays

LEMMA CutsStay ==
  ASSUME NEW arena, arena \in Seq(Bytes), NEW b, b \in Seq(Bytes),
         NEW e, e \in [1..4 -> Nat], NEW key, NEW value, Cuts(arena, e, key, value)
  PROVE  Cuts(arena \o b, e, key, value)
<1>1. PICK e1 \in Nat, e2 \in Nat, e3 \in Nat, e4 \in Nat :
        e1 = e[1] /\ e2 = e[2] /\ e3 = e[3] /\ e4 = e[4]
  OBVIOUS
<1>2. /\ e1 <= e2 /\ e2 <= e3 /\ e3 <= e4 /\ e4 <= Len(arena)
      /\ SubSeq(arena, e1 + 1, e2) = key /\ SubSeq(arena, e3 + 1, e4) = value
  BY <1>1 DEF Cuts, KeyOf, ValueOf
<1>3. PICK size \in Nat, more \in Nat : size = Len(arena) /\ more = Len(b)
  OBVIOUS
<1>4. Len(arena \o b) = size + more
  BY <1>3
<1>5. e2 <= size /\ e4 <= Len(arena \o b)
  BY <1>2, <1>3, <1>4
<1>6. SubSeq(arena \o b, e1 + 1, e2) = key
  BY <1>2, <1>3, <1>5, KeyStays
<1>7. SubSeq(arena \o b, e3 + 1, e4) = value
  BY <1>2, <1>3, <1>5, KeyStays
<1> QED
  BY <1>1, <1>2, <1>5, <1>6, <1>7 DEF Cuts, KeyOf, ValueOf

LEMMA SeqIsFunction ==
  ASSUME NEW S, NEW t, t \in Seq(S), Len(t) = 4
  PROVE  t \in [1..4 -> S]
OBVIOUS

LEMMA FourOffsets ==
  ASSUME NEW s, s \in Seq(Nat), NEW n, n \in Nat, NEW k \in Nat, Len(s) = k, k + 1 = 4
  PROVE  /\ Append(s, n) \in [1..4 -> Nat]
         /\ Append(s, n)[1] = s[1] /\ Append(s, n)[2] = s[2] /\ Append(s, n)[3] = s[3]
         /\ Append(s, n)[4] = n
<1>1. Append(s, n) \in Seq(Nat)
  BY AppendParts
<1>2. Len(Append(s, n)) = k + 1
  BY AppendParts
<1>3. 1 \in 1..k /\ 2 \in 1..k /\ 3 \in 1..k
  OBVIOUS
<1>4. Append(s, n)[1] = s[1]
  BY <1>3, AppendParts
<1>5. Append(s, n)[2] = s[2]
  BY <1>3, AppendParts
<1>6. Append(s, n)[3] = s[3]
  BY <1>3, AppendParts
<1>7. Append(s, n)[k + 1] = n
  BY AppendParts
<1>8. Append(s, n) \in [1..4 -> Nat]
  BY <1>1, <1>2, SeqIsFunction
<1> QED
  BY <1>4, <1>5, <1>6, <1>7, <1>8

-----------------------------------------------------------------------------
(* The stack of values.                                                     *)

Fits(f) == EntriesFit(f) /\ SpansCut(f)

LEMMA StackEmpty == Stack(<<>>)
BY WriterAssumption DEF Stack

LEMMA StackAppend ==
  ASSUME NEW fs, Stack(fs), fs = <<>> \/ Last(fs).asked, Len(fs) < MaxNesting,
         NEW f \in Frames, Fits(f)
  PROVE  Stack(Append(fs, f))
<1> DEFINE ff == Append(fs, f)
<1>1. PICK n \in Nat : n = Len(fs)
  BY DEF Stack
<1>2. fs \in Seq(Frames)
  BY DEF Stack
<1>3. ff \in Seq(Frames) /\ Len(ff) = n + 1
  BY <1>1, <1>2, AppendParts
<1>4. (\A i \in 1..n : ff[i] = fs[i]) /\ ff[n + 1] = f
  BY <1>1, <1>2, AppendParts
<1>5. MaxNesting \in Nat
  BY WriterAssumption
<1> HIDE DEF ff
<1>6. Len(ff) <= MaxNesting
  BY <1>1, <1>3, <1>5
<1>7. ASSUME NEW i \in 1..n
      PROVE  ff[i].asked
  <2>1. CASE i = n
    <3>1. fs # <<>> /\ Last(fs) = fs[n]
      BY <1>1, <1>2, <2>1 DEF Last
    <3> QED
      BY <1>4, <2>1, <3>1
  <2>2. CASE i # n
    <3>1. i \in 1..(Len(fs) - 1)
      BY <1>1, <2>2
    <3>2. fs[i].asked
      BY <3>1 DEF Stack
    <3> QED
      BY <1>4, <3>2
  <2> QED
    BY <2>1, <2>2
<1>8. ASSUME NEW i \in 1..(n + 1)
      PROVE  EntriesFit(ff[i]) /\ SpansCut(ff[i])
  <2>1. CASE i = n + 1
    BY <1>4, <2>1 DEF Fits
  <2>2. CASE i # n + 1
    <3>1. i \in 1..n
      BY <2>2
    <3>2. EntriesFit(fs[i]) /\ SpansCut(fs[i])
      BY <1>1, <3>1 DEF Stack
    <3> QED
      BY <1>4, <3>1, <3>2
  <2> QED
    BY <2>1, <2>2
<1>9. \A i \in 1..(Len(ff) - 1) : ff[i].asked
  BY <1>3, <1>7
<1> QED
  BY <1>3, <1>6, <1>8, <1>9 DEF Stack, ff

LEMMA StackTop ==
  ASSUME NEW fs, Stack(fs), fs # <<>>
  PROVE  /\ Last(fs) \in Frames /\ Fits(Last(fs))
         /\ Front(fs) \in Seq(Frames) /\ fs = Append(Front(fs), Last(fs))
<1>1. fs \in Seq(Frames)
  BY DEF Stack
<1>2. Len(fs) \in 1..Len(fs) /\ Last(fs) = fs[Len(fs)]
  BY <1>1 DEF Last
<1>3. EntriesFit(Last(fs)) /\ SpansCut(Last(fs))
  BY <1>2 DEF Stack
<1> QED
  BY <1>1, <1>3, FrontParts DEF Fits

LEMMA StackFront ==
  ASSUME NEW fs, Stack(fs), fs # <<>>
  PROVE  /\ Stack(Front(fs)) /\ Len(Front(fs)) < MaxNesting
         /\ Front(fs) = <<>> \/ Last(Front(fs)).asked
<1> DEFINE ff == Front(fs)
<1>1. fs \in Seq(Frames)
  BY DEF Stack
<1>2. /\ ff \in Seq(Frames) /\ Len(fs) \in Nat \ {0} /\ Len(ff) = Len(fs) - 1
      /\ \A i \in 1..(Len(fs) - 1) : ff[i] = fs[i]
  BY <1>1, FrontParts
<1> HIDE DEF ff
<1>3. MaxNesting \in Nat /\ Len(fs) <= MaxNesting
  BY WriterAssumption DEF Stack
<1>4. PICK n \in Nat : n = Len(ff) /\ Len(fs) = n + 1
  BY <1>2
<1>5. \A i \in 1..n : ff[i] = fs[i]
  BY <1>2, <1>4
<1>6. n < MaxNesting /\ n <= MaxNesting
  BY <1>3, <1>4
<1>7. \A i \in 1..n : ff[i].asked
  <2>1. \A i \in 1..(Len(fs) - 1) : fs[i].asked
    BY DEF Stack
  <2>2. \A i \in 1..n : fs[i].asked
    BY <1>4, <2>1
  <2> QED
    BY <1>5, <2>2
<1>8. \A i \in 1..n : EntriesFit(ff[i]) /\ SpansCut(ff[i])
  <2>1. \A i \in 1..Len(fs) : EntriesFit(fs[i]) /\ SpansCut(fs[i])
    BY DEF Stack
  <2>2. \A i \in 1..n : i \in 1..Len(fs)
    BY <1>4
  <2> QED
    BY <1>5, <2>1, <2>2
<1>9. \A i \in 1..(n - 1) : i \in 1..n
  OBVIOUS
<1>10. Stack(ff)
  BY <1>2, <1>4, <1>6, <1>7, <1>8, <1>9 DEF Stack
<1>11. ff = <<>> \/ Last(ff).asked
  <2>1. ff # <<>> => n \in 1..n
    BY <1>2, <1>4
  <2> QED
    BY <1>4, <1>7, <2>1 DEF Last
<1> QED
  BY <1>4, <1>6, <1>10, <1>11 DEF ff

LEMMA StackNewTop ==
  ASSUME NEW fs, Stack(fs), fs # <<>>, NEW f \in Frames, Fits(f)
  PROVE  /\ Stack(Append(Front(fs), f))
         /\ Layered(Append(Front(fs), f)) = Holding(Layered(Front(fs)), f)
<1>1. Front(fs) \in Seq(Frames)
  BY StackTop
<1> QED
  BY <1>1, StackFront, StackAppend, LayeredAppend

LEMMA LayeredVectors ==
  ASSUME NEW fs, Stack(fs)
  PROVE  /\ Layered(fs) \in Seq(Seq(Bytes)) /\ Layered(fs) # <<>>
         /\ Len(Layered(fs)) = 1 + Owning(fs, Len(fs))
         /\ Held(Layered(fs), fs)
<1>1. fs \in Seq(Frames)
  BY DEF Stack
<1> QED
  BY <1>1, LayeredOpen DEF Open

-----------------------------------------------------------------------------
(* A part is taken by the value around it.                                  *)

LEMMA TookFields ==
  ASSUME NEW f \in Frames, NEW size \in Nat, NEW b \in Seq(Bytes)
  PROVE  LET g == Took(f, size, b)
         IN  /\ g.shape = f.shape /\ g.mode = f.mode /\ g.known = f.known
             /\ g.at = f.at /\ g.field = f.field /\ g.asked = FALSE
             /\ g.given = Append(f.given, b) /\ g.count = f.count + 1
             /\ g.span = IF ~Sorting(f) \/ Len(f.span) = 3 THEN <<>> ELSE Append(f.span, size)
             /\ g.entries = IF Len(f.span) = 3 THEN Append(f.entries, Append(f.span, size))
                                               ELSE f.entries
BY DEF Took, Frames

LEMMA TookIsFrame ==
  ASSUME NEW f \in Frames, NEW size \in Nat, NEW b \in Seq(Bytes)
  PROVE  Took(f, size, b) \in Frames
<1> DEFINE g == Took(f, size, b)
           spans == IF ~Sorting(f) \/ Len(f.span) = 3 THEN <<>> ELSE Append(f.span, size)
           entered == IF Len(f.span) = 3 THEN Append(f.entries, Append(f.span, size))
                                         ELSE f.entries
<1>1. f.span \in Seq(Nat) /\ f.entries \in Seq([1..4 -> Nat]) /\ f.given \in Seq(Seq(Bytes))
      /\ f.count \in Nat
  BY DEF Frames
<1>2. spans \in Seq(Nat)
  <2>1. Append(f.span, size) \in Seq(Nat)
    BY <1>1, AppendParts
  <2>2. <<>> \in Seq(Nat)
    OBVIOUS
  <2> QED
    BY <2>1, <2>2
<1>3. entered \in Seq([1..4 -> Nat])
  <2>1. ASSUME Len(f.span) = 3
        PROVE  Append(f.entries, Append(f.span, size)) \in Seq([1..4 -> Nat])
    <3>1. PICK k \in Nat : Len(f.span) = k /\ k + 1 = 4
      BY <2>1
    <3>2. Append(f.span, size) \in [1..4 -> Nat]
      BY <1>1, <3>1, FourOffsets
    <3> QED
      BY <1>1, <3>2, AppendParts
  <2> QED
    BY <1>1, <2>1
<1>4. Append(f.given, b) \in Seq(Seq(Bytes))
  BY <1>1, AppendParts
<1>5. f.count + 1 \in Nat
  BY <1>1
<1> HIDE DEF spans, entered
<1>6. g = [f EXCEPT !.asked = FALSE, !.given = Append(f.given, b), !.count = f.count + 1,
                    !.span = spans, !.entries = entered]
  BY DEF Took, spans, entered, Frames
<1> QED
  BY <1>2, <1>3, <1>4, <1>5, <1>6 DEF Frames

LEMMA TookEntries ==
  ASSUME NEW f \in Frames, f.asked, EntriesFit(f), NEW size \in Nat, NEW b \in Seq(Bytes)
  PROVE  EntriesFit(Took(f, size, b))
<1> DEFINE g == Took(f, size, b)
<1>1. /\ g.shape = f.shape /\ g.mode = f.mode /\ g.known = f.known
      /\ g.at = f.at /\ g.field = f.field /\ g.asked = FALSE
      /\ g.given = Append(f.given, b) /\ g.count = f.count + 1
  BY ZenonT(60), TookFields DEF g
<1>2. f.given \in Seq(Seq(Bytes)) /\ f.count \in Nat
  BY DEF Frames
<1>3. PICK n \in Nat : n = Len(f.given)
  BY <1>2
<1>4. Len(g.given) = n + 1
  BY <1>1, <1>2, <1>3, AppendParts
<1> HIDE DEF g
<1>5. Limit(g) = Limit(f)
  BY <1>1 DEF Limit, Sorting
<1>6. Limit(f) \in Int
  <2>1. f.known \in 0..Len(Names) \cup 0..MaxEntries \cup {Unknown}
    BY DEF Frames
  <2>2. MaxEntries \in Int
    BY WriterAssumption
  <2> QED
    BY <2>1, <2>2 DEF Limit, Unknown
<1>7. f.shape = "seq" => g.count = Len(g.given)
  BY <1>1, <1>2, <1>3, <1>4 DEF EntriesFit
<1>8. f.shape = "seq" => n + 1 <= Limit(f)
  BY <1>3, <1>6 DEF EntriesFit
<1>9. f.shape = "map" => n + 1 <= 2 * Limit(f)
  BY <1>3, <1>6 DEF EntriesFit
<1>10. ASSUME f.shape = "struct"
       PROVE  /\ f.known \in 0..Len(Names) /\ f.field = f.at
              /\ n + 1 <= 2 * f.known /\ (n + 1) % 2 # 1
              /\ Len(Names) - f.at >= f.known - (n + 2) \div 2
  <2>1. /\ f.known \in 0..Len(Names) /\ f.field = f.at
        /\ n <= 2 * f.known /\ n % 2 = 1
        /\ Len(Names) - f.at >= f.known - (n + 1) \div 2
    BY <1>3, <1>10 DEF EntriesFit
  <2>2. PICK half \in Nat : n = 2 * half + 1
    BY <2>1
  <2>3. (n + 1) \div 2 = half + 1 /\ (n + 2) \div 2 = half + 1 /\ (n + 1) % 2 = 0
    BY <2>2
  <2>4. f.known \in Int
    BY <2>1
  <2> QED
    BY <2>1, <2>2, <2>3, <2>4
<1>11. f.shape # "struct" => f.known \in 0..MaxEntries \cup {Unknown}
  BY DEF EntriesFit
<1>12. CASE f.shape = "seq"
  BY <1>1, <1>4, <1>5, <1>7, <1>8, <1>11, <1>12 DEF EntriesFit, g
<1>13. CASE f.shape = "map"
  BY <1>1, <1>4, <1>5, <1>9, <1>11, <1>13 DEF EntriesFit, g
<1>14. CASE f.shape = "struct"
  BY <1>1, <1>4, <1>10, <1>14 DEF EntriesFit, g
<1>15. CASE f.shape \notin {"seq", "map", "struct"}
  BY <1>1, <1>11, <1>15 DEF EntriesFit, g
<1> QED
  BY <1>12, <1>13, <1>14, <1>15

(* The entries recorded so far, in an arena that has grown.                  *)
LEMMA EntriesStay ==
  ASSUME NEW f \in Frames, NEW b \in Seq(Bytes), NEW n \in Nat, n <= Len(f.entries),
         2 * n <= Len(f.given),
         NEW given, given = Append(f.given, b),
         \A j \in 1..n :
           Cuts(FlattenSeq(f.given), f.entries[j], f.given[2 * j - 1], f.given[2 * j])
  PROVE  \A j \in 1..n :
           Cuts(FlattenSeq(f.given) \o b, f.entries[j], given[2 * j - 1], given[2 * j])
<1>1. f.given \in Seq(Seq(Bytes)) /\ f.entries \in Seq([1..4 -> Nat])
  BY DEF Frames
<1>2. PICK c \in Nat, d \in Nat : c = Len(f.given) /\ d = Len(f.entries)
  BY <1>1
<1>3. \A i \in 1..c : given[i] = f.given[i]
  BY <1>1, <1>2, AppendParts
<1>4. ASSUME NEW j \in 1..n
      PROVE  Cuts(FlattenSeq(f.given) \o b, f.entries[j], given[2 * j - 1], given[2 * j])
  <2>1. 2 * j - 1 \in 1..c /\ 2 * j \in 1..c /\ j \in 1..d
    BY <1>2
  <2>2. given[2 * j - 1] = f.given[2 * j - 1] /\ given[2 * j] = f.given[2 * j]
    BY <1>3, <2>1
  <2>3. f.entries[j] \in [1..4 -> Nat]
    BY <1>1, <1>2, <2>1
  <2>4. FlattenSeq(f.given) \in Seq(Bytes)
    BY PartialIsBytes
  <2>5. Cuts(FlattenSeq(f.given) \o b, f.entries[j], f.given[2 * j - 1], f.given[2 * j])
    BY <2>3, <2>4, CutsStay
  <2> QED
    BY <2>2, <2>5
<1> QED
  BY <1>4

(* SpansCut with names for the sizes.                                       *)
Recorded(f, arena, n, at, c) ==
  /\ c = 2 * n + (IF at < 2 THEN 0 ELSE 1)
  /\ \A j \in 1..n : Cuts(arena, f.entries[j], f.given[2 * j - 1], f.given[2 * j])
  /\ f.asked <=> at \in {1, 3}
  /\ at = 1 => f.span[1] = Len(arena)
  /\ at \in {2, 3} =>
       /\ f.span[1] <= f.span[2] /\ f.span[2] = Len(arena)
       /\ KeyOf(arena, f.span) = f.given[2 * n + 1]
  /\ at = 3 => f.span[3] = Len(arena)
  /\ f.shape = "struct" => at \in {0, 3}

LEMMA SpansCutIs ==
  ASSUME NEW f
  PROVE  SpansCut(f) <=>
           /\ Len(f.span) <= 3
           /\ ~Sorting(f) => f.span = <<>> /\ f.entries = <<>>
           /\ Sorting(f) => Recorded(f, FlattenSeq(f.given), Len(f.entries), Len(f.span),
                                     Len(f.given))
BY DEF SpansCut, Recorded

LEMMA TookSpans ==
  ASSUME NEW f \in Frames, f.asked, SpansCut(f), NEW size \in Nat, NEW b \in Seq(Bytes),
         Sorting(f) => size = Len(FlattenSeq(f.given)) + Len(b)
  PROVE  SpansCut(Took(f, size, b))
<1> DEFINE g == Took(f, size, b)
<1>1. /\ g.shape = f.shape /\ g.mode = f.mode /\ g.known = f.known /\ g.asked = FALSE
      /\ g.given = Append(f.given, b)
      /\ g.span = IF ~Sorting(f) \/ Len(f.span) = 3 THEN <<>> ELSE Append(f.span, size)
      /\ g.entries = IF Len(f.span) = 3 THEN Append(f.entries, Append(f.span, size))
                                        ELSE f.entries
  BY ZenonT(60), TookFields DEF g
<1> HIDE DEF g
<1>2. /\ f.given \in Seq(Seq(Bytes)) /\ f.entries \in Seq([1..4 -> Nat])
      /\ f.span \in Seq(Nat)
  BY DEF Frames
<1>3. PICK n \in Nat, at \in Nat, c \in Nat, arena \in Seq(Bytes), long \in Nat, more \in Nat :
        /\ n = Len(f.entries) /\ at = Len(f.span) /\ c = Len(f.given)
        /\ arena = FlattenSeq(f.given) /\ long = Len(arena) /\ more = Len(b)
  <2>1. PICK arena \in Seq(Bytes) : arena = FlattenSeq(f.given)
    BY PartialIsBytes
  <2> QED
    BY <1>2, <2>1
<1>4. /\ FlattenSeq(g.given) = arena \o b
      /\ Sorting(g) <=> Sorting(f)
  BY <1>1, <1>3, PartialMore
<1>5. Len(arena \o b) = long + more /\ arena \o b \in Seq(Bytes)
  BY <1>3, ConcatParts
<1>6. /\ Len(g.given) = c + 1 /\ g.given[c + 1] = b
      /\ \A i \in 1..c : g.given[i] = f.given[i]
  <2>1. Len(Append(f.given, b)) = c + 1
    BY <1>2, <1>3, AppendParts
  <2>2. Append(f.given, b)[c + 1] = b
    BY <1>2, <1>3, AppendParts
  <2>3. \A i \in 1..c : Append(f.given, b)[i] = f.given[i]
    BY <1>2, <1>3, AppendParts
  <2> QED
    BY <1>1, <2>1, <2>2, <2>3
<1>7. at <= 3
  BY <1>3, SpansCutIs
<1>8. CASE ~Sorting(f)
  <2>1. f.span = <<>> /\ f.entries = <<>>
    BY <1>8, SpansCutIs
  <2>2. Len(f.span) # 3 /\ Len(<<>>) = 0
    BY <2>1
  <2>3. g.span = <<>> /\ g.entries = <<>>
    BY <1>1, <1>8, <2>1, <2>2
  <2> QED
    BY <1>4, <1>8, <2>2, <2>3, SpansCutIs DEF g
<1>9. ASSUME Sorting(f)
      PROVE  /\ c = 2 * n + (IF at < 2 THEN 0 ELSE 1)
             /\ \A j \in 1..n : Cuts(arena, f.entries[j], f.given[2 * j - 1], f.given[2 * j])
             /\ at \in {1, 3}
             /\ at = 1 => f.span[1] = long /\ f.shape # "struct"
             /\ at = 3 => /\ f.span[1] <= f.span[2] /\ f.span[2] = long /\ f.span[3] = long
                          /\ KeyOf(arena, f.span) = f.given[2 * n + 1]
             /\ size = long + more
  <2>1. Recorded(f, arena, n, at, c)
    BY <1>3, <1>9, SpansCutIs
  <2>2. at \in {1, 3}
    BY <2>1 DEF Recorded
  <2>3. size = long + more
    BY <1>3, <1>9
  <2>4. /\ c = 2 * n + (IF at < 2 THEN 0 ELSE 1)
        /\ \A j \in 1..n : Cuts(arena, f.entries[j], f.given[2 * j - 1], f.given[2 * j])
    BY <2>1 DEF Recorded
  <2>5. at = 1 => f.span[1] = long /\ f.shape # "struct"
    BY <1>3, <2>1 DEF Recorded
  <2>6. at = 3 => /\ f.span[1] <= f.span[2] /\ f.span[2] = long /\ f.span[3] = long
                  /\ KeyOf(arena, f.span) = f.given[2 * n + 1]
    BY <1>3, <2>1 DEF Recorded
  <2> QED
    BY <2>2, <2>3, <2>4, <2>5, <2>6
<1>10. ASSUME Sorting(f)
       PROVE  \A j \in 1..n : Cuts(arena \o b, f.entries[j], g.given[2 * j - 1], g.given[2 * j])
  <2>1. 2 * n <= c
    BY <1>9, <1>10
  <2> QED
    <3>1. \A j \in 1..n :
            Cuts(FlattenSeq(f.given), f.entries[j], f.given[2 * j - 1], f.given[2 * j])
      BY <1>3, <1>9, <1>10
    <3>2. n <= Len(f.entries) /\ 2 * n <= Len(f.given) /\ g.given = Append(f.given, b)
      BY <1>1, <1>3, <2>1
    <3>3. \A j \in 1..n :
            Cuts(FlattenSeq(f.given) \o b, f.entries[j], g.given[2 * j - 1], g.given[2 * j])
      BY <3>1, <3>2, EntriesStay
    <3> QED
      BY <1>3, <3>3
<1>11. CASE Sorting(f) /\ at = 1
  <2>1. g.span = Append(f.span, size) /\ g.entries = f.entries
    BY <1>1, <1>3, <1>11
  <2>2. Len(g.span) = at + 1 /\ g.span[at] = f.span[at] /\ g.span[at + 1] = size
    <3>1. at \in 1..at
      BY <1>11
    <3> QED
      BY <1>2, <1>3, <2>1, <3>1, AppendParts
  <2>3. Len(g.span) = 2 /\ g.span[1] = long /\ g.span[2] = long + more
    BY <1>9, <1>11, <2>2
  <2>4. KeyOf(arena \o b, g.span) = b
    <3>1. SubSeq(arena \o b, long + 1, long + more) = b
      BY <1>3, PartBehind
    <3> QED
      BY <2>3, <3>1 DEF KeyOf
  <2>5. c = 2 * n /\ f.shape # "struct"
    BY <1>9, <1>11
  <2>6. Len(g.entries) = n /\ \A j \in 1..n : g.entries[j] = f.entries[j]
    BY <1>3, <2>1
  <2> QED
    <3>1. c + 1 = 2 * n + 1 /\ g.given[2 * n + 1] = b
      BY <1>6, <2>5
    <3>2. \A j \in 1..n :
            Cuts(arena \o b, g.entries[j], g.given[2 * j - 1], g.given[2 * j])
      BY <1>10, <1>11, <2>6
    <3>3. g.shape # "struct" /\ g.asked = FALSE
      BY <1>1, <2>5
    <3>4. g.span[1] <= g.span[2] /\ g.span[2] = Len(arena \o b)
      BY <1>5, <2>3
    <3>5. Recorded(g, arena \o b, n, 2, c + 1)
      BY <2>4, <3>1, <3>2, <3>3, <3>4 DEF Recorded
    <3>6. Recorded(g, FlattenSeq(g.given), Len(g.entries), Len(g.span), Len(g.given))
      BY <1>4, <1>6, <2>3, <2>6, <3>5
    <3>7. Len(g.span) <= 3 /\ Sorting(g)
      BY <1>4, <1>11, <2>3
    <3> QED
      BY <3>6, <3>7, SpansCutIs DEF g
<1>12. CASE Sorting(f) /\ at = 3
  <2> DEFINE e == Append(f.span, size)
  <2>1. g.span = <<>> /\ g.entries = Append(f.entries, e)
    BY <1>1, <1>3, <1>12
  <2>2. /\ e \in [1..4 -> Nat]
        /\ e[1] = f.span[1] /\ e[2] = f.span[2] /\ e[3] = f.span[3] /\ e[4] = size
    <3>1. at + 1 = 4
      BY <1>12
    <3>2. f.span \in Seq(Nat) /\ Len(f.span) = at
      BY <1>2, <1>3
    <3>3. e \in [1..4 -> Nat]
      BY <3>1, <3>2, FourOffsets
    <3>4. e[1] = f.span[1]
      BY <3>1, <3>2, FourOffsets
    <3>5. e[2] = f.span[2]
      BY <3>1, <3>2, FourOffsets
    <3>6. e[3] = f.span[3]
      BY <3>1, <3>2, FourOffsets
    <3>7. e[4] = size
      BY <3>1, <3>2, FourOffsets
    <3> QED
      BY <3>3, <3>4, <3>5, <3>6, <3>7
  <2> HIDE DEF e
  <2>3. /\ Len(g.entries) = n + 1 /\ g.entries[n + 1] = e
        /\ \A j \in 1..n : g.entries[j] = f.entries[j]
    BY SMTT(30), <1>2, <1>3, <2>1, <2>2, AppendParts
  <2>4. PICK k1 \in Nat, k2 \in Nat :
          /\ k1 = e[1] /\ k2 = e[2] /\ k1 <= k2 /\ k2 = long /\ e[3] = long
          /\ e[4] = long + more
    BY <1>9, <1>12, <2>2
  <2>5. KeyOf(arena \o b, e) = f.given[2 * n + 1]
    <3>1. SubSeq(arena, k1 + 1, k2) = f.given[2 * n + 1]
      BY <1>9, <1>12, <2>2, <2>4 DEF KeyOf
    <3>2. SubSeq(arena \o b, k1 + 1, k2) = SubSeq(arena, k1 + 1, k2)
      <4>1. k1 <= k2 /\ k2 <= Len(arena)
        BY <1>3, <2>4
      <4> QED
        BY <4>1, KeyStays
    <3> QED
      BY <2>4, <3>1, <3>2 DEF KeyOf
  <2>6. ValueOf(arena \o b, e) = b
    <3>1. SubSeq(arena \o b, long + 1, long + more) = b
      BY <1>3, PartBehind
    <3> QED
      BY <2>4, <3>1 DEF ValueOf
  <2>7. c = 2 * n + 1
    BY <1>9, <1>12
  <2>8. Cuts(arena \o b, e, g.given[2 * n + 1], g.given[2 * n + 2])
    <3>1. g.given[2 * n + 1] = f.given[2 * n + 1] /\ g.given[2 * n + 2] = b
      <4>1. 2 * n + 1 \in 1..c /\ 2 * n + 2 = c + 1
        BY <2>7
      <4> QED
        BY <1>6, <4>1
    <3>2. e[1] <= e[2] /\ e[2] <= e[3] /\ e[3] <= e[4] /\ e[4] <= Len(arena \o b)
      BY <1>5, <2>4
    <3> QED
      BY <2>5, <2>6, <3>1, <3>2 DEF Cuts
  <2>9. ASSUME NEW j \in 1..(n + 1)
        PROVE  Cuts(arena \o b, g.entries[j], g.given[2 * j - 1], g.given[2 * j])
    <3>1. CASE j = n + 1
      <4>1. 2 * j - 1 = 2 * n + 1 /\ 2 * j = 2 * n + 2
        BY <3>1
      <4> QED
        BY <2>3, <2>8, <3>1, <4>1
    <3>2. CASE j # n + 1
      <4>1. j \in 1..n
        BY <3>2
      <4> QED
        BY <1>10, <1>12, <2>3, <4>1
    <3> QED
      BY <3>1, <3>2
  <2>10. Len(g.given) = 2 * (n + 1) /\ Len(g.span) = 0
    BY <1>6, <2>1, <2>7
  <2> QED
    <3>1. Recorded(g, arena \o b, n + 1, 0, 2 * (n + 1))
      <4>1. g.asked = FALSE
        BY <1>1
      <4> QED
        BY <2>9, <4>1 DEF Recorded
    <3>2. Recorded(g, FlattenSeq(g.given), Len(g.entries), Len(g.span), Len(g.given))
      BY <1>4, <2>3, <2>10, <3>1
    <3>3. Len(g.span) <= 3 /\ Sorting(g)
      BY <1>4, <1>12, <2>10
    <3> QED
      BY <3>2, <3>3, SpansCutIs DEF g
<1> QED
  BY <1>8, <1>9, <1>11, <1>12

LEMMA TookFits ==
  ASSUME NEW f \in Frames, f.asked, Fits(f), NEW size \in Nat, NEW b \in Seq(Bytes),
         Sorting(f) => size = Len(FlattenSeq(f.given)) + Len(b)
  PROVE  /\ Took(f, size, b) \in Frames /\ Fits(Took(f, size, b))
         /\ Owns(Took(f, size, b)) <=> Owns(f)
         /\ Partial(Took(f, size, b)) = Partial(f) \o b
<1>1. EntriesFit(f) /\ SpansCut(f)
  BY DEF Fits
<1>2. Fits(Took(f, size, b))
  BY <1>1, TookEntries, TookSpans DEF Fits
<1>3. Took(f, size, b) \in Frames
  BY TookIsFrame
<1> DEFINE g == Took(f, size, b)
<1>4. /\ g.shape = f.shape /\ g.mode = f.mode /\ g.known = f.known
      /\ g.given = Append(f.given, b)
  BY TookFields DEF g
<1> HIDE DEF g
<1>5. (Owns(g) <=> Owns(f)) /\ Partial(g) = Partial(f) \o b
  BY <1>4, PartialMore
<1> QED
  BY <1>2, <1>3, <1>5 DEF g

-----------------------------------------------------------------------------
(* The states of a call, and how a step keeps the invariant.                 *)

LEMMA Resumed ==
  ASSUME mode' \in Modes, tagged' \in BOOLEAN, outcome' = "running", ideal' = <<>>,
         Stack(frames'), buffers' = Layered(frames')
  PROVE  WriterIInv'
<1>1. /\ buffers' \in Seq(Seq(Bytes)) /\ buffers' # <<>>
      /\ Len(buffers') = 1 + Owning(frames', Len(frames'))
  BY LayeredVectors
<1>2. Len(buffers') = 1 + Cardinality({i \in 1..Len(frames') : Owns(frames'[i])})
  BY <1>1 DEF Owning
<1>3. /\ frames' \in Seq(Frames) /\ Len(frames') <= MaxNesting
      /\ \A i \in 1..(Len(frames') - 1) : frames'[i].asked
  BY DEF Stack
<1>4. ideal' \in Seq(Bytes)
  OBVIOUS
<1>5. TypeOK'
  BY <1>1, <1>2, <1>3, <1>4 DEF TypeOK, Running
<1> QED
  BY <1>5 DEF WriterIInv, Faithful, Running

LEMMA Stopped ==
  ASSUME mode' \in Modes, tagged' \in BOOLEAN, outcome' \in {"ok", "error", "duplicate"},
         ideal' \in Seq(Bytes), frames' = <<>>, buffers' = <<ideal'>>
  PROVE  WriterIInv'
<1>1. Stack(frames') /\ frames' \in Seq(Frames) /\ Len(frames') = 0
  BY StackEmpty
<1>2. {i \in 1..Len(frames') : Owns(frames'[i])} = {}
  BY <1>1
<1>3. Cardinality({i \in 1..Len(frames') : Owns(frames'[i])}) = 0
  BY <1>2, FS_EmptySet
<1>4. buffers' \in Seq(Seq(Bytes)) /\ Len(buffers') = 1
  OBVIOUS
<1>5. MaxNesting \in Nat
  BY WriterAssumption
<1>6. TypeOK'
  BY <1>1, <1>3, <1>4, <1>5 DEF TypeOK, Running
<1>7. outcome' # "running"
  OBVIOUS
<1> QED
  BY <1>1, <1>6, <1>7 DEF WriterIInv, Faithful, Running

LEMMA AtRun ==
  ASSUME WriterIInv, Running
  PROVE  /\ mode \in Modes /\ tagged \in BOOLEAN /\ outcome = "running" /\ ideal = <<>>
         /\ Stack(frames) /\ buffers = Layered(frames)
         /\ buffers \in Seq(Seq(Bytes)) /\ buffers # <<>>
BY LayeredVectors DEF WriterIInv, TypeOK, Running

LEMMA FailStep ==
  ASSUME WriterIInv, Running, NEW result \in {"error", "duplicate"}, Fail(result)
  PROVE  WriterIInv'
<1>1. mode' \in Modes /\ tagged' \in BOOLEAN /\ ideal' = <<>>
  BY AtRun DEF Fail
<1>2. buffers' = <<ideal'>> /\ ideal' \in Seq(Bytes)
  BY <1>1 DEF Fail, Clean
<1>3. frames' = <<>> /\ outcome' \in {"ok", "error", "duplicate"}
  BY DEF Fail
<1> QED
  BY <1>1, <1>2, <1>3, Stopped

(* A step of the topmost value, which writes b of itself.                    *)
LEMMA TopStep ==
  ASSUME WriterIInv, Running, frames # <<>>, NEW f \in Frames, Fits(f),
         NEW b \in Seq(Bytes), Owns(f) <=> Owns(Top), Partial(f) = Partial(Top) \o b,
         frames' = WithTop(f), buffers' = Put(buffers, b),
         UNCHANGED <<mode, tagged, outcome, ideal>>
  PROVE  WriterIInv'
<1>1. Stack(frames) /\ buffers = Layered(frames)
  BY AtRun
<1>2. Stack(frames') /\ Layered(frames') = Holding(Layered(Front(frames)), f)
  BY <1>1, StackNewTop DEF WithTop
<1>3. /\ Top \in Frames /\ Front(frames) \in Seq(Frames)
      /\ frames = Append(Front(frames), Top) /\ Stack(Front(frames))
  BY <1>1, StackTop, StackFront DEF Top
<1>4. Layered(frames) = Holding(Layered(Front(frames)), Top)
  BY <1>3, LayeredAppend
<1>5. Layered(Front(frames)) \in Seq(Seq(Bytes)) /\ Layered(Front(frames)) # <<>>
  BY <1>3, LayeredVectors
<1>6. Holding(Layered(Front(frames)), f) = Put(Holding(Layered(Front(frames)), Top), b)
  <2>1. Grows(Top, f, b)
    BY DEF Grows
  <2> QED
    BY <1>3, <1>5, <2>1, HoldingMore
<1>7. buffers' = Layered(frames')
  BY <1>1, <1>2, <1>4, <1>6
<1> QED
  BY <1>2, <1>7, AtRun, Resumed

LEMMA TopAlone ==
  ASSUME WriterIInv, Running, frames # <<>>, NEW f \in Frames, Fits(f),
         Owns(f) <=> Owns(Top), Partial(f) = Partial(Top),
         frames' = WithTop(f), UNCHANGED <<mode, buffers, tagged, outcome, ideal>>
  PROVE  WriterIInv'
<1>1. Stack(frames) /\ buffers = Layered(frames)
  BY AtRun
<1>2. Stack(frames') /\ Layered(frames') = Holding(Layered(Front(frames)), f)
  BY <1>1, StackNewTop DEF WithTop
<1>3. Front(frames) \in Seq(Frames) /\ frames = Append(Front(frames), Top) /\ Top \in Frames
  BY <1>1, StackTop DEF Top
<1>4. Layered(frames) = Holding(Layered(Front(frames)), Top)
  BY <1>3, LayeredAppend
<1>5. buffers' = Layered(frames')
  BY <1>1, <1>2, <1>4 DEF Holding
<1> QED
  BY <1>2, <1>5, AtRun, Resumed

(* Another value begins inside the topmost one.                              *)
LEMMA PushStep ==
  ASSUME WriterIInv, Running, frames = <<>> \/ Top.asked, Len(frames) < MaxNesting,
         NEW f \in Frames, Fits(f), frames' = Append(frames, f),
         buffers' = Holding(buffers, f), mode' = mode, outcome' = outcome, ideal' = ideal,
         tagged' \in BOOLEAN
  PROVE  WriterIInv'
<1>1. Stack(frames) /\ buffers = Layered(frames) /\ frames \in Seq(Frames)
  BY AtRun DEF Stack
<1>2. Stack(frames')
  BY <1>1, StackAppend DEF Top
<1>3. buffers' = Layered(frames')
  BY <1>1, LayeredAppend
<1> QED
  BY <1>2, <1>3, AtRun, Resumed

(* A value encoded as b has ended, inside the values around.                 *)
LEMMA EndedStep ==
  ASSUME WriterIInv, Running, NEW around, Stack(around), around = <<>> \/ Last(around).asked,
         NEW b \in Seq(Bytes), NEW bufs, bufs = Put(Layered(around), b),
         Ended(around, bufs, b)
  PROVE  WriterIInv'
<1>1. mode' \in Modes /\ tagged' \in BOOLEAN /\ ideal = <<>> /\ outcome = "running"
  BY AtRun DEF Ended
<1>2. Layered(around) \in Seq(Seq(Bytes)) /\ Layered(around) # <<>>
  BY LayeredVectors
<1>3. CASE around = <<>>
  <2>1. Layered(around) = Clean
    BY <1>3, LayeredEmpty
  <2>2. Front(Clean) = <<>> /\ Last(Clean) = <<>>
    BY DEF Front, Last, Clean
  <2>3. bufs = <<b>>
    <3>1. <<>> \o b = b
      BY ConcatParts
    <3> QED
      BY <2>1, <2>2, <3>1 DEF Put
  <2>4. buffers' = <<b>> /\ outcome' = "ok" /\ ideal' = b /\ frames' = <<>>
    BY <1>3, <2>3 DEF Ended
  <2> QED
    BY <1>1, <2>4, Stopped
<1>4. CASE around # <<>>
  <2> DEFINE size == Len(Last(bufs))
             f == Last(around)
             g == Took(f, size, b)
             front == Front(around)
  <2>1. /\ f \in Frames /\ Fits(f) /\ front \in Seq(Frames) /\ around = Append(front, f)
        /\ f.asked
    BY <1>4, StackTop
  <2>2. Layered(front) \in Seq(Seq(Bytes)) /\ Layered(front) # <<>>
    BY <1>4, StackFront, LayeredVectors
  <2>3. Layered(around) = Holding(Layered(front), f)
    BY <2>1, LayeredAppend
  <2>4. Last(bufs) = Last(Layered(around)) \o b
    BY <1>2, PutParts
  <2>5. Last(Layered(around)) \in Seq(Bytes)
    BY <1>2, FrontParts
  <2>6. size \in Nat /\ size = Len(Last(Layered(around))) + Len(b)
    <3>1. PICK last \in Seq(Bytes) : last = Last(Layered(around))
      BY <2>5
    <3>2. last \o b \in Seq(Bytes) /\ Len(last \o b) = Len(last) + Len(b)
      BY ConcatParts
    <3> QED
      BY <2>4, <3>1, <3>2
  <2> HIDE DEF size, f, front
  <2>7. Sorting(f) => size = Len(FlattenSeq(f.given)) + Len(b)
    <3>1. Sorting(f) => Last(Layered(around)) = FlattenSeq(f.given)
      BY <2>1, <2>2, <2>3, HoldingParts DEF Owns
    <3> QED
      BY <2>6, <3>1
  <2>8. /\ g \in Frames /\ Fits(g)
        /\ Owns(g) <=> Owns(f)
        /\ Partial(g) = Partial(f) \o b
    BY <2>1, <2>6, <2>7, TookFits
  <2> HIDE DEF g
  <2>9. frames' = Append(front, g) /\ outcome' = "running" /\ ideal' = <<>> /\ buffers' = bufs
    BY <1>1, <1>4 DEF Ended, g, f, size, front
  <2>10. Stack(frames') /\ Layered(frames') = Holding(Layered(front), g)
    BY <1>4, <2>8, <2>9, StackNewTop DEF front
  <2>11. Holding(Layered(front), g) = Put(Holding(Layered(front), f), b)
    <3>1. Grows(f, g, b)
      BY <2>8 DEF Grows
    <3> QED
      BY <2>1, <2>2, <3>1, HoldingMore
  <2> QED
    BY <1>1, <2>3, <2>9, <2>10, <2>11, Resumed
<1> QED
  BY <1>3, <1>4

-----------------------------------------------------------------------------
(* The calls on a compound.                                                 *)

LEMMA AskedFits ==
  ASSUME NEW top \in Frames, Fits(top), ~Sorting(top), top.shape \in {"seq", "map"},
         top.shape = "seq" => Len(top.given) < Limit(top),
         top.shape = "map" => Len(top.given) < 2 * Limit(top),
         NEW f, f = [top EXCEPT !.asked = TRUE]
  PROVE  /\ f \in Frames /\ Fits(f)
         /\ Owns(f) <=> Owns(top)
         /\ Partial(f) = Partial(top)
<1>1. /\ f.shape = top.shape /\ f.mode = top.mode /\ f.known = top.known /\ f.asked = TRUE
      /\ f.given = top.given /\ f.span = top.span /\ f.entries = top.entries
      /\ f.count = top.count /\ f.at = top.at /\ f.field = top.field
  BY DEF Frames
<1>2. f \in Frames
  BY DEF Frames
<1>3. /\ Owns(f) <=> Owns(top)
      /\ Sorting(f) <=> Sorting(top)
      /\ Partial(f) = Partial(top)
  BY <1>1, PartialSame
<1>4. SpansCut(f)
  <2>1. Len(top.span) <= 3 /\ top.span = <<>> /\ top.entries = <<>>
    BY SpansCutIs DEF Fits
  <2> QED
    BY <1>1, <1>3, <2>1, SpansCutIs
<1>5. Limit(f) = Limit(top)
  BY <1>1 DEF Limit, Sorting
<1>6. EntriesFit(top)
  BY DEF Fits
<1>7. CASE top.shape = "seq"
  <2>1. Len(top.given) < Limit(top) /\ Len(top.given) <= Limit(top)
    BY <1>6, <1>7 DEF EntriesFit
  <2>2. top.count = Len(top.given) /\ top.known \in 0..MaxEntries \cup {Unknown}
    BY <1>6, <1>7 DEF EntriesFit
  <2>3. EntriesFit(f)
    BY <1>1, <1>5, <1>7, <2>1, <2>2 DEF EntriesFit
  <2> QED
    BY <1>2, <1>3, <1>4, <2>3 DEF Fits
<1>8. CASE top.shape = "map"
  <2>1. Len(top.given) < 2 * Limit(top) /\ Len(top.given) <= 2 * Limit(top)
    BY <1>6, <1>8 DEF EntriesFit
  <2>2. top.known \in 0..MaxEntries \cup {Unknown}
    BY <1>6, <1>8 DEF EntriesFit
  <2>3. EntriesFit(f)
    BY <1>1, <1>5, <1>8, <2>1, <2>2 DEF EntriesFit
  <2> QED
    BY <1>2, <1>3, <1>4, <2>3 DEF Fits
<1> QED
  BY <1>7, <1>8

LEMMA SpanAppend ==
  ASSUME NEW span, span \in Seq(Nat), NEW at \in Nat, at = Len(span), NEW size \in Nat
  PROVE  /\ Append(span, size) \in Seq(Nat)
         /\ Len(Append(span, size)) = at + 1
         /\ Append(span, size)[at + 1] = size
         /\ \A i \in 1..at : Append(span, size)[i] = span[i]
<1>1. Append(span, size) \in Seq(Nat)
  BY AppendParts
<1>2. Len(Append(span, size)) = at + 1
  BY AppendParts
<1>3. Append(span, size)[at + 1] = size
  BY AppendParts
<1>4. \A i \in 1..at : Append(span, size)[i] = span[i]
  BY AppendParts
<1> QED
  BY <1>1, <1>2, <1>3, <1>4

(* An offset recorded, and a value asked for.                               *)
Marks(f, top, size) == f = [top EXCEPT !.span = Append(top.span, size), !.asked = TRUE]
Short(span) == Len(span) \in {0, 2}

LEMMA LengthIs ==
  ASSUME NEW S, NEW s, s \in Seq(S)
  PROVE  \E n \in Nat : n = Len(s)
OBVIOUS

LEMMA OneMore == \A at \in {0, 2} : at + 1 \in Nat /\ at + 1 <= 3
OBVIOUS

LEMMA MarkedFits ==
  ASSUME NEW top \in Frames, Fits(top), Sorting(top), top.shape = "map", ~top.asked,
         Len(top.given) < 2 * Limit(top), Short(top.span),
         NEW size \in Nat, size = Len(FlattenSeq(top.given)),
         NEW f, Marks(f, top, size)
  PROVE  /\ f \in Frames /\ Fits(f)
         /\ Owns(f) <=> Owns(top)
         /\ Partial(f) = Partial(top)
<1>1. top.span \in Seq(Nat)
  BY DEF Frames
<1>2. PICK at \in Nat : at = Len(top.span) /\ at \in {0, 2}
  BY <1>1, LengthIs DEF Short
<1>3. /\ Append(top.span, size) \in Seq(Nat)
      /\ Len(Append(top.span, size)) = at + 1
      /\ Append(top.span, size)[at + 1] = size
      /\ \A i \in 1..at : Append(top.span, size)[i] = top.span[i]
  BY <1>1, <1>2, SpanAppend
<1>4. /\ f.shape = top.shape /\ f.mode = top.mode /\ f.known = top.known /\ f.asked = TRUE
      /\ f.given = top.given /\ f.span = Append(top.span, size) /\ f.entries = top.entries
      /\ f.count = top.count /\ f.at = top.at /\ f.field = top.field
  BY DEF Frames, Marks
<1>5. f \in Frames
  BY <1>3 DEF Frames, Marks
<1>6. /\ Owns(f) <=> Owns(top)
      /\ Sorting(f)
      /\ Partial(f) = Partial(top)
  BY <1>4, PartialSame
<1>7. EntriesFit(f)
  <2>1. Limit(f) = Limit(top)
    BY <1>4 DEF Limit, Sorting
  <2>2. EntriesFit(top)
    BY DEF Fits
  <2>3. Len(top.given) <= 2 * Limit(top) /\ top.known \in 0..MaxEntries \cup {Unknown}
    BY <2>2 DEF EntriesFit
  <2> QED
    BY <1>4, <2>1, <2>3 DEF EntriesFit
<1>8. Recorded(top, FlattenSeq(top.given), Len(top.entries), at, Len(top.given))
  BY <1>2, SpansCutIs DEF Fits
<1>9. Recorded(f, FlattenSeq(f.given), Len(f.entries), Len(f.span), Len(f.given))
  <2>a. top.entries \in Seq([1..4 -> Nat]) /\ top.given \in Seq(Seq(Bytes))
    BY DEF Frames
  <2>b. PICK n \in Nat : n = Len(top.entries)
    BY <2>a, LengthIs
  <2>c. PICK c \in Nat : c = Len(top.given)
    BY <2>a, LengthIs
  <2>d. PICK arena : arena = FlattenSeq(top.given)
    OBVIOUS
  <2>0. n = Len(top.entries) /\ c = Len(top.given) /\ arena = FlattenSeq(top.given)
    BY <2>b, <2>c, <2>d
  <2>1. Recorded(top, arena, n, at, c)
    BY <1>8, <2>0
  <2>2. size = Len(arena)
    BY <2>0
  <2>3. \A j \in 1..n : Cuts(arena, f.entries[j], f.given[2 * j - 1], f.given[2 * j])
    BY <1>4, <2>1 DEF Recorded
  <2>4. CASE at = 0
    <3>1. c = 2 * n
      BY <2>1, <2>4 DEF Recorded
    <3>2. f.span[1] = size
      BY <1>3, <1>4, <2>4
    <3> QED
      <4>1. Recorded(f, arena, n, 1, c)
        BY <1>4, <2>2, <2>3, <3>1, <3>2 DEF Recorded
      <4> QED
        BY <1>3, <1>4, <2>0, <2>4, <4>1
  <2>5. CASE at = 2
    <3>1. /\ c = 2 * n + 1
          /\ top.span[1] <= top.span[2] /\ top.span[2] = Len(arena)
          /\ KeyOf(arena, top.span) = top.given[2 * n + 1]
      BY <2>1, <2>5 DEF Recorded
    <3>2. f.span[1] = top.span[1] /\ f.span[2] = top.span[2] /\ f.span[3] = size
      BY <1>3, <1>4, <2>5
    <3>3. KeyOf(arena, f.span) = f.given[2 * n + 1]
      BY <1>4, <3>1, <3>2 DEF KeyOf
    <3> QED
      <4>a. f.span[1] <= f.span[2] /\ f.span[2] = Len(arena) /\ f.span[3] = Len(arena)
        BY <2>2, <3>1, <3>2
      <4>b. f.asked = TRUE
        BY <1>4
      <4>1. Recorded(f, arena, n, 3, c)
        BY <2>3, <3>1, <3>3, <4>a, <4>b DEF Recorded
      <4> QED
        BY <1>3, <1>4, <2>0, <2>5, <4>1
  <2> QED
    BY <1>2, <2>4, <2>5
<1>10. Len(f.span) <= 3
  <2>1. PICK next \in Nat : next = at + 1 /\ next <= 3
    BY <1>2, OneMore
  <2>2. Len(f.span) = next
    BY <1>3, <1>4, <2>1
  <2> QED
    BY <2>1, <2>2
<1>11. SpansCut(f)
  BY <1>6, <1>9, <1>10, SpansCutIs
<1> QED
  BY <1>5, <1>6, <1>7, <1>11 DEF Fits

LEMMA TopAtRun ==
  ASSUME WriterIInv, Running, frames # <<>>
  PROVE  /\ Top \in Frames /\ Fits(Top)
         /\ Owns(Top) => Target = FlattenSeq(Top.given)
         /\ Front(frames) \in Seq(Frames) /\ frames = Append(Front(frames), Top)
         /\ Layered(Front(frames)) \in Seq(Seq(Bytes)) /\ Layered(Front(frames)) # <<>>
         /\ buffers = Holding(Layered(Front(frames)), Top)
         /\ Target \in Seq(Bytes)
<1>1. Stack(frames) /\ buffers = Layered(frames) /\ buffers \in Seq(Seq(Bytes)) /\ buffers # <<>>
  BY AtRun
<1>2. /\ Top \in Frames /\ Fits(Top)
      /\ Front(frames) \in Seq(Frames) /\ frames = Append(Front(frames), Top)
  BY <1>1, StackTop DEF Top
<1>3. Layered(Front(frames)) \in Seq(Seq(Bytes)) /\ Layered(Front(frames)) # <<>>
  BY <1>1, StackFront, LayeredVectors
<1>4. buffers = Holding(Layered(Front(frames)), Top)
  BY <1>1, <1>2, LayeredAppend
<1>5. Owns(Top) => Target = FlattenSeq(Top.given)
  BY <1>2, <1>3, <1>4, HoldingParts DEF Target
<1>6. Target \in Seq(Bytes)
  BY <1>1, FrontParts DEF Target
<1> QED
  BY <1>2, <1>3, <1>4, <1>5, <1>6

LEMMA AskStep ==
  ASSUME WriterIInv,
         SerializeElement \/ SerializeKey \/ SerializeValue
  PROVE  WriterIInv'
<1>1. /\ Running /\ frames # <<>> /\ ~Top.asked
      /\ Top.shape \in {"seq", "map"}
  BY DEF SerializeElement, SerializeKey, SerializeValue, Asking
<1>2. Top \in Frames /\ Fits(Top) /\ (Owns(Top) => Target = FlattenSeq(Top.given))
  BY <1>1, TopAtRun
<1>3. PICK c \in Nat, at \in Nat, most \in Int :
        c = Len(Top.given) /\ at = Len(Top.span) /\ most = Limit(Top)
  <2>1. Top.given \in Seq(Seq(Bytes)) /\ Top.span \in Seq(Nat)
    BY <1>2 DEF Frames
  <2>2. Limit(Top) \in Int
    <3>1. Top.known \in 0..Len(Names) \cup 0..MaxEntries \cup {Unknown}
      BY <1>2 DEF Frames
    <3>2. MaxEntries \in Int
      BY WriterAssumption
    <3> QED
      BY <3>1, <3>2 DEF Limit, Unknown
  <2> QED
    BY <2>1, <2>2
<1>4. Top.shape = "map" => c <= 2 * most
  BY <1>2, <1>3 DEF Fits, EntriesFit
<1>5. CASE /\ ~Sorting(Top) /\ Ask(Top)
           /\ Top.shape = "seq" => c < most
           /\ Top.shape = "map" => c < 2 * most
  <2> DEFINE f == [Top EXCEPT !.asked = TRUE]
  <2>1. f \in Frames /\ Fits(f) /\ (Owns(f) <=> Owns(Top)) /\ Partial(f) = Partial(Top)
    BY <1>1, <1>2, <1>3, <1>5, AskedFits
  <2>2. frames' = WithTop(f) /\ UNCHANGED <<mode, buffers, tagged, outcome, ideal>>
    BY <1>5 DEF Ask
  <2> HIDE DEF f
  <2> QED
    BY <1>1, <2>1, <2>2, TopAlone
<1>6. CASE Sorting(Top) /\ Ask(Marked) /\ Top.shape = "map" /\ c < 2 * most /\ at \in {0, 2}
  <2>1. PICK size \in Nat : size = Len(Target)
    <3>1. Target \in Seq(Bytes)
      BY <1>1, TopAtRun
    <3> QED
      BY <3>1
  <2>2. size = Len(FlattenSeq(Top.given))
    BY <1>2, <1>6, <2>1 DEF Owns
  <2> DEFINE f == [Top EXCEPT !.span = Append(Top.span, size), !.asked = TRUE]
  <2>3. f \in Frames /\ Fits(f) /\ (Owns(f) <=> Owns(Top)) /\ Partial(f) = Partial(Top)
    <3>1. Len(Top.given) < 2 * Limit(Top) /\ Short(Top.span)
      BY <1>3, <1>6 DEF Short
    <3>2. Sorting(Top) /\ Top.shape = "map"
      BY <1>6
    <3>3. Marks(f, Top, size)
      BY DEF Marks
    <3> HIDE DEF f
    <3> QED
      BY <1>1, <1>2, <2>2, <3>1, <3>2, <3>3, MarkedFits
  <2>4. [Marked EXCEPT !.asked = TRUE] = f
    BY <1>2, <2>1 DEF Marked, Frames
  <2>5. frames' = WithTop(f) /\ UNCHANGED <<mode, buffers, tagged, outcome, ideal>>
    BY <1>6, <2>4 DEF Ask
  <2> HIDE DEF f
  <2> QED
    BY <1>1, <2>3, <2>5, TopAlone
<1>7. CASE SerializeElement
  <2>1. Top.shape = "seq" /\ c < most /\ Ask(Top)
    BY <1>3, <1>7 DEF SerializeElement, Asking
  <2>2. ~Sorting(Top)
    BY <2>1 DEF Sorting
  <2> QED
    BY <1>5, <2>1, <2>2
<1>8. CASE SerializeKey
  <2>1. Top.shape = "map" /\ c < 2 * most
    BY <1>3, <1>8 DEF SerializeKey, Asking
  <2>2. Sorting(Top) => Top.span = <<>> /\ Ask(Marked)
    BY <1>8 DEF SerializeKey
  <2>3. ~Sorting(Top) => Ask(Top)
    BY <1>8 DEF SerializeKey
  <2>4. Sorting(Top) => at = 0
    BY <1>3, <2>2
  <2> QED
    BY <1>5, <1>6, <2>1, <2>2, <2>3, <2>4
<1>9. CASE SerializeValue
  <2>1. Top.shape = "map"
    BY <1>9 DEF SerializeValue, Asking
  <2>2. Sorting(Top) => at = 2 /\ Ask(Marked)
    BY <1>3, <1>9 DEF SerializeValue
  <2>3. ~Sorting(Top) => c % 2 = 1 /\ Ask(Top)
    BY <1>3, <1>9 DEF SerializeValue
  <2>4. Sorting(Top) => c % 2 = 1
    <3>1. ASSUME Sorting(Top)
          PROVE  \E n \in Nat : c = 2 * n + 1
      <4>1. Recorded(Top, FlattenSeq(Top.given), Len(Top.entries), at, c)
        BY <1>2, <1>3, <3>1, SpansCutIs DEF Fits
      <4>2. PICK n \in Nat : n = Len(Top.entries)
        BY <1>2 DEF Frames
      <4>3. c = 2 * n + 1
        BY <2>2, <3>1, <4>1, <4>2 DEF Recorded
      <4> QED
        BY <4>3
    <3> QED
      BY <3>1
  <2>5. c % 2 = 1
    BY <2>3, <2>4
  <2>6. c < 2 * most
    <3>1. PICK half \in Nat : c = 2 * half + 1
      BY <2>5
    <3> QED
      BY <1>4, <2>1, <3>1
  <2> QED
    BY <1>5, <1>6, <2>1, <2>2, <2>3, <2>6
<1> QED
  BY <1>7, <1>8, <1>9

-----------------------------------------------------------------------------
(* Calls, failures and the fields of a struct.                              *)

LEMMA CallStep ==
  ASSUME WriterIInv, Call
  PROVE  WriterIInv'
<1>1. frames' = <<>> /\ buffers' = Clean
  BY DEF WriterIInv, TypeOK, Call
<1>2. mode' \in Modes /\ tagged' \in BOOLEAN /\ outcome' = "running" /\ ideal' = <<>>
  BY DEF Call
<1> QED
  BY <1>1, <1>2, StackEmpty, LayeredEmpty, Resumed

LEMMA FailureStep ==
  ASSUME WriterIInv, OutOfTurn \/ SerializeFails \/ KeyWithoutValue \/ DuplicateKey
  PROVE  WriterIInv'
<1>1. Running /\ (Fail("error") \/ Fail("duplicate"))
  BY DEF OutOfTurn, SerializeFails, KeyWithoutValue, DuplicateKey, Asking, SortedEnds, Ending
<1> QED
  BY <1>1, FailStep

LEMMA SpansSame ==
  ASSUME NEW f, SpansCut(f), NEW g, g.shape = f.shape, g.mode = f.mode, g.asked = f.asked,
         g.span = f.span, g.entries = f.entries, g.given = f.given
  PROVE  SpansCut(g)
BY DEF SpansCut, Sorting

(* The fields of a struct, with names for the numbers.                      *)
LEMMA StructFits ==
  ASSUME NEW f, f.shape = "struct", f.known \in 0..Len(Names)
  PROVE  EntriesFit(f) <=>
           /\ f.field = f.at
           /\ Len(f.given) <= 2 * f.known
           /\ f.asked <=> Len(f.given) % 2 = 1
           /\ Len(Names) - f.at >= f.known - (Len(f.given) + 1) \div 2
BY DEF EntriesFit

LEMMA StructAt ==
  ASSUME NEW f \in Frames, f.shape = "struct", EntriesFit(f), ~f.asked
  PROVE  \E fields \in Nat, at \in Nat, known \in Nat, half \in Nat :
           /\ fields = Len(Names) /\ at = f.at /\ f.field = f.at /\ known = f.known
           /\ Len(f.given) = 2 * half /\ half <= known
           /\ at <= fields /\ known <= fields /\ fields - at >= known - half
<1>1. PICK fields \in 1..23 : fields = Len(Names)
  BY WriterAssumption
<1>2. f.known \in 0..fields /\ f.field = f.at
  BY <1>1 DEF EntriesFit
<1>3. f.at \in 0..fields /\ f.given \in Seq(Seq(Bytes))
  BY <1>1 DEF Frames
<1>4. PICK known \in Nat, at \in Nat, c \in Nat :
        known = f.known /\ at = f.at /\ c = Len(f.given) /\ at <= fields /\ known <= fields
  BY <1>1, <1>2, <1>3
<1>5. c <= 2 * known /\ c % 2 # 1 /\ fields - at >= known - (c + 1) \div 2
  BY <1>1, <1>2, <1>4, StructFits
<1>6. PICK half \in Nat : c = 2 * half
  BY <1>5
<1>7. half <= known /\ fields - at >= known - half
  BY <1>5, <1>6
<1>8. /\ fields = Len(Names) /\ at = f.at /\ f.field = f.at /\ known = f.known
      /\ Len(f.given) = 2 * half
  BY <1>1, <1>2, <1>4, <1>6
<1>9. fields \in Nat /\ at <= fields /\ known <= fields
  BY <1>4
<1> QED
  BY <1>7, <1>8, <1>9

LEMMA SkipFieldStep ==
  ASSUME WriterIInv, SkipField
  PROVE  WriterIInv'
<1>1. Running /\ frames # <<>> /\ Top.shape = "struct" /\ ~Top.asked
  BY DEF SkipField, Asking
<1>2. Top \in Frames /\ Fits(Top)
  BY <1>1, TopAtRun
<1>3. PICK fields \in Nat, at \in Nat, known \in Nat, half \in Nat :
        /\ fields = Len(Names) /\ at = Top.at /\ Top.field = Top.at /\ known = Top.known
        /\ Len(Top.given) = 2 * half /\ half <= known
        /\ at <= fields /\ known <= fields /\ fields - at >= known - half
  BY <1>1, <1>2, StructAt DEF Fits
<1>4. Len(Names) - Top.at > Top.known - Len(Top.given) \div 2
  BY DEF SkipField
<1>5. fields - at > known - half
  <2>1. (2 * half) \div 2 = half
    OBVIOUS
  <2> QED
    BY <1>3, <1>4, <2>1
<1> DEFINE f == [Top EXCEPT !.at = @ + 1, !.field = @ + 1]
<1>6. /\ f.shape = Top.shape /\ f.mode = Top.mode /\ f.known = Top.known
      /\ f.asked = Top.asked /\ f.span = Top.span /\ f.entries = Top.entries
      /\ f.given = Top.given /\ f.at = at + 1 /\ f.field = at + 1
  BY <1>2, <1>3 DEF Frames
<1>7. at + 1 \in 0..Len(Names)
  BY SMTT(30), <1>3, <1>5
<1>8. f \in Frames
  BY <1>2, <1>3, <1>7 DEF Frames
<1>9. frames' = WithTop(f) /\ UNCHANGED <<mode, buffers, tagged, outcome, ideal>>
  BY DEF SkipField
<1> HIDE DEF f
<1>10. SpansCut(f)
  BY <1>2, <1>6, SpansSame DEF Fits
<1>11. EntriesFit(f)
  <2>1. f.shape = "struct" /\ f.known \in 0..Len(Names) /\ f.field = f.at
    BY <1>1, <1>3, <1>6
  <2>2. Len(f.given) = 2 * half /\ 2 * half <= 2 * known
    BY <1>3, <1>6
  <2>3. (2 * half) % 2 # 1 /\ (2 * half + 1) \div 2 = half
    OBVIOUS
  <2>4. f.asked <=> Len(f.given) % 2 = 1
    BY <1>1, <1>6, <2>2, <2>3
  <2>5. fields - (at + 1) >= known - half
    BY <1>5
  <2>6. Len(Names) - f.at >= f.known - (Len(f.given) + 1) \div 2
    BY <1>3, <1>6, <2>2, <2>3, <2>5
  <2>7. Len(f.given) <= 2 * f.known
    BY <1>3, <1>6, <2>2
  <2> QED
    BY <2>1, <2>4, <2>6, <2>7, StructFits
<1>12. (Owns(f) <=> Owns(Top)) /\ Partial(f) = Partial(Top)
  BY <1>6, PartialSame
<1> QED
  BY <1>1, <1>8, <1>9, <1>10, <1>11, <1>12, TopAlone DEF Fits

LEMMA LeafStep ==
  ASSUME WriterIInv, Scalar \/ UnitVariant
  PROVE  WriterIInv'
<1>1. Running /\ (frames = <<>> \/ Last(frames).asked)
  BY DEF Scalar, UnitVariant, Serializing, Top
<1>2. Stack(frames) /\ buffers = Layered(frames)
  BY <1>1, AtRun
<1>3. ASSUME NEW b \in Seq(Bytes), Ended(frames, Put(buffers, b), b)
      PROVE  WriterIInv'
  BY <1>1, <1>2, <1>3, EndedStep
<1>4. CASE Scalar
  <2>1. PICK b \in Scalars : Ended(frames, Put(buffers, b), b)
    BY <1>4 DEF Scalar
  <2>2. b \in Seq(Bytes)
    BY WriterAssumption DEF Bytes
  <2> QED
    BY <1>3, <2>1, <2>2
<1>5. CASE UnitVariant
  <2>1. PICK i \in 1..Len(Names) : Ended(frames, Put(buffers, VariantName(i)), VariantName(i))
    BY <1>5 DEF UnitVariant
  <2>2. VariantName(i) \in Seq(Bytes)
    BY NamesAreBytes DEF VariantName
  <2> QED
    BY <1>3, <2>1, <2>2
<1> QED
  BY <1>4, <1>5

LEMMA BothOneMore ==
  ASSUME NEW a \in Nat, NEW b \in Nat, NEW c \in Nat, NEW d \in Nat, a - b >= c - d
  PROVE  a - (b + 1) >= c - (d + 1)
OBVIOUS

LEMMA KeyRecorded ==
  ASSUME NEW g, NEW arena, NEW n \in Nat, NEW c, c = 2 * n + 1, g.asked = TRUE,
         \A j \in 1..n : Cuts(arena, g.entries[j], g.given[2 * j - 1], g.given[2 * j]),
         g.span[1] <= g.span[2], g.span[2] = Len(arena), g.span[3] = Len(arena),
         KeyOf(arena, g.span) = g.given[2 * n + 1]
  PROVE  Recorded(g, arena, n, 3, c)
BY DEF Recorded

(* The key of a field, which is written and recorded.                        *)
LEMMA FieldFits ==
  ASSUME NEW f \in Frames, f.shape = "struct", ~f.asked, Fits(f),
         NEW b \in Seq(Bytes), NEW g \in Frames, g.shape = f.shape, g.mode = f.mode,
         g.known = f.known, g.asked = TRUE, g.at = f.at + 1, g.field = f.field + 1,
         g.entries = f.entries, g.given = Append(f.given, b),
         Len(f.given) < 2 * f.known,
         NEW start \in Nat, NEW end \in Nat,
         Sorting(f) => start = Len(FlattenSeq(f.given)) /\ end = start + Len(b),
         g.span = IF Sorting(f) THEN <<start, end, end>> ELSE f.span
  PROVE  Fits(g)
<1>1. EntriesFit(f) /\ SpansCut(f)
  BY DEF Fits
<1>2. /\ f.given \in Seq(Seq(Bytes)) /\ f.entries \in Seq([1..4 -> Nat])
      /\ f.span \in Seq(Nat)
  BY DEF Frames
<1>3. PICK n \in Nat : n = Len(f.entries)
  BY <1>2, LengthIs
<1>4. PICK c \in Nat : c = Len(f.given)
  BY <1>2, LengthIs
<1>5. PICK arena \in Seq(Bytes) : arena = FlattenSeq(f.given)
  BY PartialIsBytes
<1>6. PICK long \in Nat, more \in Nat : long = Len(arena) /\ more = Len(b)
  OBVIOUS
<1>7. /\ FlattenSeq(g.given) = arena \o b
      /\ Sorting(g) <=> Sorting(f)
  BY <1>5, PartialMore
<1>8. Len(arena \o b) = long + more /\ arena \o b \in Seq(Bytes)
  BY <1>6, ConcatParts
<1>9. /\ Len(g.given) = c + 1 /\ g.given[c + 1] = b
      /\ \A i \in 1..c : g.given[i] = f.given[i]
  <2>1. Len(Append(f.given, b)) = c + 1
    BY <1>2, <1>4, AppendParts
  <2>2. Append(f.given, b)[c + 1] = b
    BY <1>2, <1>4, AppendParts
  <2>3. \A i \in 1..c : Append(f.given, b)[i] = f.given[i]
    BY <1>2, <1>4, AppendParts
  <2> QED
    BY <2>1, <2>2, <2>3
<1>10. EntriesFit(g)
  <2>1. PICK fields \in Nat, at \in Nat, known \in Nat, half \in Nat :
          /\ fields = Len(Names) /\ at = f.at /\ f.field = f.at /\ known = f.known
          /\ Len(f.given) = 2 * half /\ half <= known
          /\ at <= fields /\ known <= fields /\ fields - at >= known - half
    BY <1>1, StructAt
  <2>2. c = 2 * half /\ half < known
    BY <1>4, <2>1
  <2>3. (c + 1) % 2 = 1 /\ (c + 2) \div 2 = half + 1
    BY <2>2
  <2>4. Len(g.given) = c + 1 /\ Len(g.given) + 1 = c + 2
    BY <1>9
  <2>5. Len(g.given) <= 2 * g.known
    BY <2>1, <2>2, <2>4
  <2>6. g.asked <=> Len(g.given) % 2 = 1
    BY <2>3, <2>4
  <2>7. Len(Names) - g.at >= g.known - (Len(g.given) + 1) \div 2
    <3>1. fields - (at + 1) >= known - (half + 1)
      BY <2>1, BothOneMore
    <3> QED
      BY <2>1, <2>3, <2>4, <3>1
  <2>8. g.field = g.at /\ g.known \in 0..Len(Names) /\ g.shape = "struct"
    BY <2>1
  <2> QED
    BY <2>5, <2>6, <2>7, <2>8, StructFits
<1>11. CASE ~Sorting(f)
  <2>1. f.span = <<>> /\ f.entries = <<>> /\ Len(<<>>) = 0
    BY <1>1, <1>11, SpansCutIs
  <2>2. g.span = <<>> /\ g.entries = <<>>
    BY <1>11, <2>1
  <2> QED
    BY <1>7, <1>10, <1>11, <2>1, <2>2, SpansCutIs DEF Fits
<1>12. CASE Sorting(f)
  <2>1. PICK at \in Nat : at = Len(f.span)
    BY <1>2, LengthIs
  <2>2. Recorded(f, arena, n, at, c)
    BY <1>1, <1>3, <1>4, <1>5, <1>12, <2>1, SpansCutIs
  <2>3. at = 0
    BY <2>2 DEF Recorded
  <2>4. c = 2 * n
    BY <2>2, <2>3 DEF Recorded
  <2>5. \A j \in 1..n : Cuts(arena, f.entries[j], f.given[2 * j - 1], f.given[2 * j])
    BY <2>2 DEF Recorded
  <2>6. start = long /\ end = long + more
    BY <1>5, <1>6, <1>12
  <2>7. g.span = <<start, end, end>>
    BY <1>12
  <2>8. Len(g.span) = 3 /\ g.span[1] = start /\ g.span[2] = end /\ g.span[3] = end
    BY SMTT(30), <2>7
  <2>9. KeyOf(arena \o b, g.span) = b
    <3>1. SubSeq(arena \o b, long + 1, long + more) = b
      BY <1>6, PartBehind
    <3> QED
      BY <2>6, <2>8, <3>1 DEF KeyOf
  <2>10. \A j \in 1..n : Cuts(arena \o b, g.entries[j], g.given[2 * j - 1], g.given[2 * j])
    <3>1. n <= Len(f.entries) /\ 2 * n <= Len(f.given) /\ g.given = Append(f.given, b)
      BY <1>3, <1>4, <2>4
    <3>2. \A j \in 1..n :
            Cuts(FlattenSeq(f.given), f.entries[j], f.given[2 * j - 1], f.given[2 * j])
      BY <1>5, <2>5
    <3>3. \A j \in 1..n :
            Cuts(FlattenSeq(f.given) \o b, f.entries[j], g.given[2 * j - 1], g.given[2 * j])
      BY <3>1, <3>2, EntriesStay
    <3> QED
      BY <1>5, <3>3
  <2>11. c + 1 = 2 * n + 1 /\ g.given[2 * n + 1] = b
    BY <1>9, <2>4
  <2>12. /\ g.span[1] <= g.span[2] /\ g.span[2] = Len(arena \o b)
         /\ g.span[3] = Len(arena \o b)
    BY <1>8, <2>6, <2>8
  <2>13. Recorded(g, arena \o b, n, 3, c + 1)
    <3>1. g.asked = TRUE
      OBVIOUS
    <3>2. KeyOf(arena \o b, g.span) = g.given[2 * n + 1]
      BY <2>9, <2>11
    <3> QED
      BY <2>10, <2>11, <2>12, <3>1, <3>2, KeyRecorded
  <2>14. Recorded(g, FlattenSeq(g.given), Len(g.entries), Len(g.span), Len(g.given))
    BY <1>3, <1>7, <1>9, <2>8, <2>13
  <2>15. Len(g.span) <= 3 /\ Sorting(g)
    BY <1>7, <1>12, <2>8
  <2>16. SpansCut(g)
    BY <2>14, <2>15, SpansCutIs
  <2> QED
    BY <1>10, <2>16 DEF Fits
<1> QED
  BY <1>11, <1>12

LEMMA FieldStep ==
  ASSUME WriterIInv, SerializeField
  PROVE  WriterIInv'
<1>1. Running /\ frames # <<>> /\ Top.shape = "struct" /\ ~Top.asked
  BY DEF SerializeField, Asking
<1>2. /\ Top \in Frames /\ Fits(Top) /\ Target \in Seq(Bytes)
      /\ Owns(Top) => Target = FlattenSeq(Top.given)
  BY <1>1, TopAtRun
<1>3. PICK fields \in Nat, at \in Nat, known \in Nat, half \in Nat :
        /\ fields = Len(Names) /\ at = Top.at /\ Top.field = Top.at /\ known = Top.known
        /\ Len(Top.given) = 2 * half /\ half <= known
        /\ at <= fields /\ known <= fields /\ fields - at >= known - half
  BY <1>1, <1>2, StructAt DEF Fits
<1>4. Len(Top.given) < 2 * Top.known
  BY DEF SerializeField
<1>5. at + 1 \in 1..fields
  BY SMTT(30), <1>3, <1>4
<1> DEFINE b == FieldName(Top)
<1>6. DeclaredName(Top) = b
  BY <1>3 DEF FieldName, DeclaredName
<1>7. b \in Seq(Bytes)
  <2>1. Names[at + 1] \in Seq(Bytes) /\ <<(at + 1) - 1>> \in Seq(Bytes)
    BY <1>3, <1>5, NamesAreBytes
  <2>2. (at + 1) - 1 = at
    OBVIOUS
  <2> QED
    BY <1>3, <2>1, <2>2 DEF FieldName
<1>8. PICK start \in Nat, end \in Nat : start = Len(Target) /\ end = start + Len(b)
  <2>1. Len(Target) \in Nat
    BY <1>2
  <2>2. Len(b) \in Nat
    BY <1>7
  <2> HIDE DEF b
  <2> QED
    BY <2>1, <2>2
<1> DEFINE g == [Top EXCEPT !.asked = TRUE, !.at = @ + 1, !.field = @ + 1,
                            !.given = Append(@, b),
                            !.span = IF Sorting(Top) THEN <<start, end, end>> ELSE @]
<1>9. frames' = WithTop(g) /\ buffers' = Put(buffers, b)
      /\ UNCHANGED <<mode, tagged, outcome, ideal>>
  BY <1>6, <1>8 DEF SerializeField
<1> HIDE DEF b
<1>10. /\ g.shape = Top.shape /\ g.mode = Top.mode /\ g.known = Top.known
       /\ g.asked = TRUE /\ g.at = Top.at + 1 /\ g.field = Top.field + 1
       /\ g.entries = Top.entries /\ g.given = Append(Top.given, b)
       /\ g.span = IF Sorting(Top) THEN <<start, end, end>> ELSE Top.span
  BY <1>2 DEF Frames
<1>11. g \in Frames
  <2>1. Top.given \in Seq(Seq(Bytes)) /\ Top.span \in Seq(Nat)
    BY <1>2 DEF Frames
  <2>2. Append(Top.given, b) \in Seq(Seq(Bytes))
    BY <1>7, <2>1
  <2>3. (IF Sorting(Top) THEN <<start, end, end>> ELSE Top.span) \in Seq(Nat)
    BY <2>1
  <2>4. Top.at + 1 \in 0..Len(Names) /\ Top.field + 1 \in 0..Len(Names)
    BY <1>3, <1>5
  <2> QED
    BY <1>2, <2>2, <2>3, <2>4 DEF Frames
<1> HIDE DEF g
<1>12. Sorting(Top) => start = Len(FlattenSeq(Top.given)) /\ end = start + Len(b)
  BY <1>2, <1>8 DEF Owns
<1>13. Fits(g)
  BY <1>1, <1>2, <1>4, <1>7, <1>10, <1>11, <1>12, FieldFits
<1>14. (Owns(g) <=> Owns(Top)) /\ Partial(g) = Partial(Top) \o b
  BY <1>2, <1>7, <1>10, PartialMore
<1> QED
  BY <1>1, <1>7, <1>9, <1>11, <1>13, <1>14, TopStep

-----------------------------------------------------------------------------
(* The values that begin.                                                   *)

LEMMA FreshFits ==
  ASSUME NEW m \in Modes, NEW shape \in {"seq", "map", "struct"}, NEW known,
         shape = "struct" => known \in 0..Len(Names),
         shape # "struct" => known \in 0..MaxEntries \cup {Unknown},
         NEW f, f = Frame(shape, m, known)
  PROVE  /\ f \in Frames /\ Fits(f)
         /\ f.given = <<>> /\ f.shape = shape
<1>1. /\ f.shape = shape /\ f.mode = m /\ f.known = known /\ f.asked = FALSE
      /\ f.span = <<>> /\ f.entries = <<>> /\ f.count = 0 /\ f.at = 0 /\ f.field = 0
      /\ f.given = <<>>
  BY DEF Frame
<1>2. PICK fields \in 1..23 : fields = Len(Names)
  BY WriterAssumption
<1>3. PICK most \in 1..23 : most = MaxEntries
  BY WriterAssumption
<1>4. f \in Frames
  <2>1. known \in 0..Len(Names) \cup 0..MaxEntries \cup {Unknown}
    OBVIOUS
  <2>2. 0 \in 0..Len(Names)
    BY <1>2
  <2> QED
    BY <2>1, <2>2 DEF Frame, Frames, Shapes
<1>5. SpansCut(f)
  <2>1. Len(f.span) = 0 /\ Len(f.entries) = 0 /\ Len(f.given) = 0
    BY <1>1
  <2>2. Recorded(f, FlattenSeq(f.given), 0, 0, 0)
    BY <1>1 DEF Recorded
  <2> QED
    BY <1>1, <2>1, <2>2, SpansCutIs
<1>6. Len(f.given) = 0
  BY <1>1
<1>7. CASE shape = "struct"
  <2>1. known \in 0..fields
    BY <1>2, <1>7
  <2>2. (0 + 1) \div 2 = 0 /\ 0 % 2 # 1
    OBVIOUS
  <2>3. /\ Len(f.given) <= 2 * f.known
        /\ Len(Names) - f.at >= f.known - (Len(f.given) + 1) \div 2
    BY <1>1, <1>2, <1>6, <2>1, <2>2
  <2>4. f.asked <=> Len(f.given) % 2 = 1
    BY <1>1, <1>6, <2>2
  <2>5. EntriesFit(f)
    BY <1>1, <1>7, <2>3, <2>4, StructFits
  <2> QED
    BY <1>1, <1>4, <1>5, <2>5 DEF Fits
<1>8. CASE shape # "struct"
  <2>1. Limit(f) >= 0 /\ 2 * Limit(f) >= 0
    BY <1>1, <1>3, <1>8 DEF Limit
  <2>2. EntriesFit(f)
    BY <1>1, <1>6, <1>8, <2>1 DEF EntriesFit
  <2> QED
    BY <1>1, <1>4, <1>5, <2>2 DEF Fits
<1> QED
  BY <1>7, <1>8

LEMMA OneAndNone == 1 \in 0..MaxEntries /\ 0 \in 0..Len(Names)
<1>1. PICK fields \in 1..23 : fields = Len(Names)
  BY WriterAssumption
<1>2. PICK most \in 1..23 : most = MaxEntries
  BY WriterAssumption
<1> QED
  BY <1>1, <1>2

LEMMA OneIsSeq ==
  ASSUME NEW S, NEW s \in S
  PROVE  <<s>> \in Seq(S)
OBVIOUS

LEMMA FrameIs ==
  ASSUME NEW shape \in Shapes, NEW m \in Modes,
         NEW known \in 0..Len(Names) \cup 0..MaxEntries \cup {Unknown},
         NEW given \in Seq(Seq(Bytes))
  PROVE  \A f : f = [shape |-> shape, mode |-> m, known |-> known, asked |-> TRUE, span |-> <<>>,
                      entries |-> <<>>, count |-> 0, at |-> 0, field |-> 0, given |-> given]
                => f \in Frames
<1>1. 0 \in 0..Len(Names)
  BY OneAndNone
<1>2. <<>> \in Seq(Nat) /\ <<>> \in Seq([1..4 -> Nat])
  OBVIOUS
<1> QED
  BY <1>1, <1>2 DEF Frames

LEMMA NamingFits ==
  ASSUME NEW m \in Modes, NEW name \in Seq(Bytes),
         NEW f, f = [Frame("variant", m, 1) EXCEPT !.asked = TRUE, !.given = <<name>>]
  PROVE  /\ f \in Frames /\ Fits(f) /\ f.asked
         /\ ~Owns(f) /\ Partial(f) = VariantHead \o name
<1>1. /\ f.shape = "variant" /\ f.mode = m /\ f.known = 1 /\ f.asked = TRUE
      /\ f.span = <<>> /\ f.entries = <<>> /\ f.count = 0 /\ f.at = 0 /\ f.field = 0
      /\ f.given = <<name>>
  BY DEF Frame
<1>2. 1 \in 0..MaxEntries /\ 0 \in 0..Len(Names)
  BY OneAndNone
<1>3. <<name>> \in Seq(Seq(Bytes))
  BY OneIsSeq
<1>4. f \in Frames
  <2>1. "variant" \in Shapes
    BY DEF Shapes
  <2>3. f = [shape |-> "variant", mode |-> m, known |-> 1, asked |-> TRUE,
             span |-> <<>>, entries |-> <<>>, count |-> 0, at |-> 0, field |-> 0,
             given |-> <<name>>]
    BY DEF Frame
  <2>2. 1 \in 0..Len(Names) \cup 0..MaxEntries \cup {Unknown}
    BY <1>2
  <2> QED
    BY <1>3, <2>1, <2>2, <2>3, FrameIs
<1>5. ~Sorting(f) /\ ~Owns(f)
  BY <1>1 DEF Sorting, Owns, Buffering
<1>6. SpansCut(f)
  <2>1. Len(f.span) <= 3
    BY <1>1
  <2> QED
    BY <1>1, <1>5, <2>1, SpansCutIs
<1>7. EntriesFit(f)
  BY <1>1, <1>2 DEF EntriesFit
<1>8. Partial(f) = VariantHead \o FlattenSeq(f.given)
  BY <1>1, <1>5 DEF Partial
<1>9. FlattenSeq(f.given) = name
  BY <1>1, FlattenOne
<1> QED
  BY <1>1, <1>4, <1>5, <1>6, <1>7, <1>8, <1>9 DEF Fits

LEMMA TaggedFits ==
  ASSUME NEW f, f = [Frame("tagged", "streaming", 1) EXCEPT !.asked = TRUE]
  PROVE  /\ f \in Frames /\ Fits(f)
         /\ Owns(f) /\ f.given = <<>> /\ f.shape = "tagged"
<1>1. /\ f.shape = "tagged" /\ f.mode = "streaming" /\ f.known = 1 /\ f.asked = TRUE
      /\ f.span = <<>> /\ f.entries = <<>> /\ f.count = 0 /\ f.at = 0 /\ f.field = 0
      /\ f.given = <<>>
  BY DEF Frame
<1>2. 1 \in 0..MaxEntries /\ 0 \in 0..Len(Names)
  BY OneAndNone
<1>3. f \in Frames
  <2>1. f = [shape |-> "tagged", mode |-> "streaming", known |-> 1, asked |-> TRUE,
             span |-> <<>>, entries |-> <<>>, count |-> 0, at |-> 0, field |-> 0,
             given |-> <<>>]
    BY DEF Frame
  <2>2. 1 \in 0..Len(Names) \cup 0..MaxEntries \cup {Unknown}
    BY <1>2
  <2>3. "tagged" \in Shapes /\ "streaming" \in Modes
    BY DEF Shapes, Modes
  <2>4. <<>> \in Seq(Seq(Bytes))
    OBVIOUS
  <2> QED
    BY <2>1, <2>2, <2>3, <2>4, FrameIs
<1>4. ~Sorting(f) /\ Owns(f)
  BY <1>1 DEF Sorting, Owns
<1>5. SpansCut(f)
  <2>1. Len(f.span) <= 3
    BY <1>1
  <2> QED
    BY <1>1, <1>4, <2>1, SpansCutIs
<1>6. EntriesFit(f)
  BY <1>1, <1>2 DEF EntriesFit
<1> QED
  BY <1>1, <1>3, <1>4, <1>5, <1>6 DEF Fits

LEMMA OpenedIs ==
  ASSUME NEW f \in Frames, f.given = <<>>, f.shape # "variant", NEW bufs
  PROVE  Opened(f, bufs) = Holding(bufs, f)
<1>1. CASE Owns(f)
  <2>1. Partial(f) = <<>>
    BY <1>1, FlattenEmpty DEF Partial
  <2> QED
    BY <1>1, <2>1 DEF Opened, Holding
<1>2. CASE ~Owns(f)
  <2>1. Partial(f) = Opening(f) \o <<>>
    BY <1>2, FlattenEmpty DEF Partial
  <2>2. Opening(f) \o <<>> = Opening(f)
    BY FramingIsBytes, ConcatParts
  <2> QED
    BY <1>2, <2>1, <2>2 DEF Opened, Holding
<1> QED
  BY <1>1, <1>2

LEMMA ModeIsOne ==
  ASSUME WriterIInv, Running
  PROVE  Mode \in Modes
<1>1. CASE frames = <<>>
  BY <1>1, AtRun DEF Mode
<1>2. CASE frames # <<>>
  BY <1>2, TopAtRun DEF Mode, Frames
<1> QED
  BY <1>1, <1>2

LEMMA BeginStep ==
  ASSUME WriterIInv,
         Collection("seq") \/ Collection("map") \/ Struct \/ Variant \/ Tagged
  PROVE  WriterIInv'
<1>1. Running /\ (frames = <<>> \/ Top.asked)
  BY DEF Collection, Struct, Variant, Tagged, Serializing
<1>2. Mode \in Modes /\ tagged \in BOOLEAN
  BY <1>1, ModeIsOne, AtRun
<1>3. ASSUME NEW f \in Frames, Fits(f), Inside(f, Holding(buffers, f)), tagged' \in BOOLEAN
      PROVE  WriterIInv'
  BY <1>1, <1>3, PushStep DEF Inside
<1>4. ASSUME NEW shape \in {"seq", "map"}, Collection(shape)
      PROVE  WriterIInv'
  <2>1. PICK known \in 0..MaxEntries \cup {Unknown} :
          LET f == Frame(shape, Mode, known) IN Inside(f, Opened(f, buffers))
    BY <1>4 DEF Collection, Lengths
  <2>2. PICK f : f = Frame(shape, Mode, known) /\ Inside(f, Opened(f, buffers))
    BY <2>1
  <2>3. f \in Frames /\ Fits(f) /\ f.given = <<>> /\ f.shape = shape
    BY <1>2, <2>2, FreshFits
  <2>4. Opened(f, buffers) = Holding(buffers, f)
    BY <2>3, OpenedIs
  <2>5. tagged' = tagged
    BY <1>4 DEF Collection
  <2> QED
    BY <1>2, <1>3, <2>2, <2>3, <2>4, <2>5
<1>5. CASE Struct
  <2>1. PICK known \in 0..Len(Names) :
          LET f == Frame("struct", Mode, known) IN Inside(f, Opened(f, buffers))
    BY <1>5 DEF Struct
  <2>2. PICK f : f = Frame("struct", Mode, known) /\ Inside(f, Opened(f, buffers))
    BY <2>1
  <2>3. f \in Frames /\ Fits(f) /\ f.given = <<>> /\ f.shape = "struct"
    BY <1>2, <2>2, FreshFits
  <2>4. Opened(f, buffers) = Holding(buffers, f)
    BY <2>3, OpenedIs
  <2>5. tagged' = tagged
    BY <1>5 DEF Struct
  <2> QED
    BY <1>2, <1>3, <2>2, <2>3, <2>4, <2>5
<1>6. CASE Variant
  <2>1. PICK i \in 1..Len(Names) : Inside(Naming(Names[i]), Put(buffers, VariantHead \o Names[i]))
    BY <1>6 DEF Variant
  <2>2. Names[i] \in Seq(Bytes)
    BY NamesAreBytes
  <2>3. PICK f : f = Naming(Names[i])
    OBVIOUS
  <2>4. f \in Frames /\ Fits(f) /\ ~Owns(f) /\ Partial(f) = VariantHead \o Names[i]
    BY <1>2, <2>2, <2>3, NamingFits DEF Naming
  <2>5. Put(buffers, VariantHead \o Names[i]) = Holding(buffers, f)
    BY <2>4 DEF Holding
  <2>6. tagged' = tagged
    BY <1>6 DEF Variant
  <2> QED
    BY <1>2, <1>3, <2>1, <2>3, <2>4, <2>5, <2>6
<1>7. CASE Tagged
  <2>1. PICK f : f = [Frame("tagged", "streaming", 1) EXCEPT !.asked = TRUE]
    OBVIOUS
  <2>2. f \in Frames /\ Fits(f) /\ Owns(f) /\ f.given = <<>> /\ f.shape = "tagged"
    BY <2>1, TaggedFits
  <2>3. Append(buffers, <<>>) = Holding(buffers, f)
    <3>1. Partial(f) = <<>>
      BY <2>2, FlattenEmpty DEF Partial
    <3> QED
      BY <2>2, <3>1 DEF Holding
  <2>4. Inside(f, Append(buffers, <<>>)) /\ tagged' = TRUE
    BY <1>7, <2>1 DEF Tagged
  <2> QED
    BY <1>3, <2>2, <2>3, <2>4
<1> QED
  BY <1>4, <1>5, <1>6, <1>7

LEMMA AppendTwice ==
  ASSUME NEW S, NEW s \in Seq(S), NEW a \in S, NEW b \in S
  PROVE  s \o <<a, b>> = Append(Append(s, a), b)
OBVIOUS

LEMMA StructVariantStep ==
  ASSUME WriterIInv, StructVariant
  PROVE  WriterIInv'
<1>1. Running /\ (frames = <<>> \/ Top.asked) /\ Len(frames) + 1 < MaxNesting
  BY DEF StructVariant, Serializing
<1>2. Mode \in Modes /\ Stack(frames) /\ buffers = Layered(frames) /\ frames \in Seq(Frames)
  BY <1>1, ModeIsOne, AtRun DEF Stack
<1>3. PICK i \in 1..Len(Names), known \in 0..Len(Names) :
        LET f == Frame("struct", Mode, known)
        IN  /\ frames' = frames \o <<Naming(VariantName(i)), f>>
            /\ buffers' = Opened(f, Put(buffers, VariantHead \o VariantName(i)))
  BY DEF StructVariant
<1>4. PICK v, f : v = Naming(VariantName(i)) /\ f = Frame("struct", Mode, known)
  OBVIOUS
<1>5. /\ frames' = frames \o <<v, f>>
      /\ buffers' = Opened(f, Put(buffers, VariantHead \o VariantName(i)))
  BY <1>3, <1>4
<1>6. VariantName(i) \in Seq(Bytes)
  BY NamesAreBytes DEF VariantName
<1>7. /\ v \in Frames /\ Fits(v) /\ v.asked /\ ~Owns(v)
      /\ Partial(v) = VariantHead \o VariantName(i)
  BY <1>2, <1>4, <1>6, NamingFits DEF Naming
<1>8. f \in Frames /\ Fits(f) /\ f.given = <<>> /\ f.shape = "struct"
  BY <1>2, <1>4, FreshFits
<1>9. Stack(Append(frames, v))
  <2>1. Len(frames) < MaxNesting
    BY <1>1, <1>2, WriterAssumption
  <2> QED
    BY <1>1, <1>2, <1>7, <2>1, StackAppend DEF Top
<1>10. /\ Append(frames, v) \in Seq(Frames) /\ Len(Append(frames, v)) < MaxNesting
       /\ Last(Append(frames, v)) = v
  BY <1>1, <1>2, <1>7, AppendParts
<1>11. Stack(Append(Append(frames, v), f))
  BY <1>7, <1>8, <1>9, <1>10, StackAppend
<1>12. frames' = Append(Append(frames, v), f)
  BY <1>2, <1>5, <1>7, <1>8, AppendTwice
<1>13. Layered(frames') = Holding(Holding(buffers, v), f)
  <2>1. Layered(Append(frames, v)) = Holding(buffers, v)
    BY <1>2, <1>7, LayeredAppend
  <2> QED
    BY <1>8, <1>10, <1>12, <2>1, LayeredAppend
<1>14. buffers' = Holding(Holding(buffers, v), f)
  <2>1. Holding(buffers, v) = Put(buffers, VariantHead \o VariantName(i))
    BY <1>7 DEF Holding
  <2> QED
    BY <1>5, <1>8, <2>1, OpenedIs
<1>15. mode' = mode /\ tagged' = tagged /\ outcome' = outcome /\ ideal' = ideal
  BY DEF StructVariant
<1> QED
  BY <1>1, <1>11, <1>12, <1>13, <1>14, <1>15, AtRun, Resumed

-----------------------------------------------------------------------------
(* The values that end.                                                     *)

LEMMA AtEnd ==
  ASSUME WriterIInv, Running, frames # <<>>
  PROVE  /\ Top \in Frames /\ Fits(Top)
         /\ Stack(Front(frames))
         /\ Front(frames) = <<>> \/ Last(Front(frames)).asked
         /\ Layered(Front(frames)) \in Seq(Seq(Bytes)) /\ Layered(Front(frames)) # <<>>
         /\ Owns(Top) => /\ Front(buffers) = Layered(Front(frames))
                         /\ Target = FlattenSeq(Top.given)
         /\ ~Owns(Top) => buffers = Put(Layered(Front(frames)), Partial(Top))
         /\ FlattenSeq(Top.given) \in Seq(Bytes)
<1>1. /\ Top \in Frames /\ Fits(Top)
      /\ Owns(Top) => Target = FlattenSeq(Top.given)
      /\ Layered(Front(frames)) \in Seq(Seq(Bytes)) /\ Layered(Front(frames)) # <<>>
      /\ buffers = Holding(Layered(Front(frames)), Top)
  BY TopAtRun
<1>2. Stack(frames)
  BY AtRun
<1>3. /\ Stack(Front(frames))
      /\ Front(frames) = <<>> \/ Last(Front(frames)).asked
  BY <1>2, StackFront
<1>4. Owns(Top) => Front(buffers) = Layered(Front(frames))
  BY <1>1, HoldingParts
<1>5. ~Owns(Top) => buffers = Put(Layered(Front(frames)), Partial(Top))
  BY <1>1 DEF Holding
<1>6. FlattenSeq(Top.given) \in Seq(Bytes)
  BY <1>1, PartialIsBytes
<1> QED
  BY <1>1, <1>3, <1>4, <1>5, <1>6

LEMMA DirectEncoding ==
  ASSUME NEW f, f.shape \in {"seq", "map", "struct"}, ~Owns(f)
  PROVE  Encoding(f) = Partial(f) \o Closing(f)
<1>1. f.shape # "variant" /\ f.shape # "tagged" /\ ~Sorting(f) /\ ~Buffering(f)
  BY DEF Owns
<1>2. Partial(f) = Opening(f) \o FlattenSeq(f.given)
  BY <1>1 DEF Partial
<1>3. Encoding(f) = Opening(f) \o FlattenSeq(f.given) \o Closing(f)
  BY <1>1 DEF Encoding
<1> QED
  BY <1>2, <1>3

LEMMA EndDirectStep ==
  ASSUME WriterIInv, EndDirect
  PROVE  WriterIInv'
<1>1. /\ Running /\ frames # <<>> /\ Top.shape \in {"seq", "map", "struct"} /\ ~Owns(Top)
      /\ Ended(Front(frames), Put(buffers, Closing(Top)), Encoding(Top))
  BY DEF EndDirect, Ending
<1>2. /\ Top \in Frames
      /\ Stack(Front(frames))
      /\ Front(frames) = <<>> \/ Last(Front(frames)).asked
      /\ Layered(Front(frames)) \in Seq(Seq(Bytes)) /\ Layered(Front(frames)) # <<>>
      /\ buffers = Put(Layered(Front(frames)), Partial(Top))
  BY <1>1, AtEnd
<1>3. Encoding(Top) = Partial(Top) \o Closing(Top)
  BY <1>1, DirectEncoding
<1>4. Partial(Top) \in Seq(Bytes) /\ Closing(Top) \in Seq(Bytes)
  BY <1>2, PartialIsBytes, FramingIsBytes
<1>5. Put(buffers, Closing(Top)) = Put(Layered(Front(frames)), Encoding(Top))
  BY <1>2, <1>3, <1>4, PutTwice
<1>6. Encoding(Top) \in Seq(Bytes)
  BY <1>3, <1>4, ConcatParts
<1> QED
  BY <1>1, <1>2, <1>5, <1>6, EndedStep

LEMMA VariantEndsStep ==
  ASSUME WriterIInv, VariantEnds
  PROVE  WriterIInv'
<1>1. /\ Running /\ frames # <<>> /\ Top.shape = "variant"
      /\ Ended(Front(frames), buffers, Encoding(Top))
  BY DEF VariantEnds, Ending
<1>2. ~Owns(Top) /\ ~Sorting(Top) /\ ~Buffering(Top)
  BY <1>1 DEF Owns, Sorting, Buffering
<1>3. /\ Top \in Frames
      /\ Stack(Front(frames))
      /\ Front(frames) = <<>> \/ Last(Front(frames)).asked
      /\ buffers = Put(Layered(Front(frames)), Partial(Top))
  BY <1>1, <1>2, AtEnd
<1>4. Encoding(Top) = Partial(Top)
  BY <1>1, <1>2 DEF Encoding, Partial
<1>5. Encoding(Top) \in Seq(Bytes)
  BY <1>3, <1>4, PartialIsBytes
<1> QED
  BY <1>1, <1>3, <1>4, <1>5, EndedStep

(* A value that owns a vector ends: its encoding is put in the one below.    *)
LEMMA OwnedEnds ==
  ASSUME WriterIInv, Running, frames # <<>>, Owns(Top),
         NEW b \in Seq(Bytes), Ended(Front(frames), Put(Front(buffers), b), b)
  PROVE  WriterIInv'
<1>1. /\ Stack(Front(frames))
      /\ Front(frames) = <<>> \/ Last(Front(frames)).asked
      /\ Front(buffers) = Layered(Front(frames))
  BY AtEnd
<1> QED
  BY <1>1, EndedStep

LEMMA TaggedEndsStep ==
  ASSUME WriterIInv, TaggedEnds
  PROVE  WriterIInv'
<1>1. /\ Running /\ frames # <<>> /\ Top.shape = "tagged" /\ Owns(Top)
      /\ Ended(Front(frames), Put(Front(buffers), TagHead \o Target), Encoding(Top))
  BY DEF TaggedEnds, Ending, Owns
<1>2. ~Sorting(Top) /\ ~Buffering(Top)
  BY <1>1 DEF Sorting, Buffering
<1>3. Target = FlattenSeq(Top.given) /\ FlattenSeq(Top.given) \in Seq(Bytes)
  BY <1>1, AtEnd
<1>4. Encoding(Top) = TagHead \o Target
  BY <1>1, <1>2, <1>3 DEF Encoding
<1>5. TagHead \o Target \in Seq(Bytes)
  BY <1>3, HeadsAreBytes, ConcatParts
<1> QED
  BY <1>1, <1>4, <1>5, OwnedEnds

LEMMA EndBufferedStep ==
  ASSUME WriterIInv, EndBuffered
  PROVE  WriterIInv'
<1>1. /\ Running /\ frames # <<>> /\ Buffering(Top) /\ Owns(Top)
      /\ Ended(Front(frames), Put(Front(buffers), Head1(4, Top.count) \o Target), Encoding(Top))
  BY DEF EndBuffered, Ending, Owns
<1>2. Top.shape = "seq" /\ ~Sorting(Top) /\ Top.known = Unknown
  BY <1>1 DEF Sorting, Buffering
<1>3. /\ Top \in Frames /\ EntriesFit(Top)
      /\ Target = FlattenSeq(Top.given) /\ FlattenSeq(Top.given) \in Seq(Bytes)
  BY <1>1, AtEnd DEF Fits
<1>4. Limit(Top) = MaxEntries
  BY <1>2 DEF Limit
<1>5. Top.count = Len(Top.given) /\ Len(Top.given) <= MaxEntries
  BY <1>2, <1>3, <1>4 DEF EntriesFit
<1>6. PICK n \in Nat : n = Top.count
  BY <1>3 DEF Frames
<1>7. n \in 0..31
  <2>1. PICK most \in 1..23 : most = MaxEntries
    BY WriterAssumption
  <2>2. n <= most
    BY <1>5, <1>6, <2>1
  <2> QED
    BY <2>1, <2>2
<1>8. Encoding(Top) = Head1(4, n) \o Target
  BY <1>1, <1>2, <1>3, <1>5, <1>6 DEF Encoding
<1>9. Head1(4, n) \o Target \in Seq(Bytes)
  <2>1. 4 \in 4..6
    OBVIOUS
  <2>2. Head1(4, n) \in Seq(Bytes)
    BY <1>7, <2>1, HeadsAreBytes
  <2> QED
    BY <1>3, <2>2, ConcatParts
<1> QED
  BY <1>1, <1>6, <1>8, <1>9, OwnedEnds

-----------------------------------------------------------------------------
(* The order of byte strings is total and strict.                            *)

LEMMA StringSizes ==
  ASSUME NEW s \in Seq(Bytes)
  PROVE  /\ Len(s) \in Nat
         /\ \A i \in 1..Len(s) : s[i] \in Nat
<1>1. Len(s) \in Nat /\ \A i \in 1..Len(s) : s[i] \in Bytes
  OBVIOUS
<1>2. Bytes \subseteq Nat
  BY DEF Bytes
<1> QED
  BY <1>1, <1>2

LEMMA SameString ==
  ASSUME NEW s \in Seq(Bytes), NEW t \in Seq(Bytes), Len(s) = Len(t),
         \A i \in 1..Len(s) : s[i] = t[i]
  PROVE  s = t
OBVIOUS

LEMMA BeforeIrreflexive ==
  ASSUME NEW s \in Seq(Bytes)
  PROVE  ~Before(s, s)
<1>1. PICK n \in Nat : n = Len(s)
  BY StringSizes
<1>2. \A i \in 1..n : s[i] \in Nat
  BY <1>1, StringSizes
<1>3. ASSUME NEW i \in 1..n, i <= n => s[i] < s[i]
      PROVE  FALSE
  BY <1>2, <1>3
<1> QED
  BY <1>1, <1>3 DEF Before

LEMMA BeforeTransitive ==
  ASSUME NEW s \in Seq(Bytes), NEW t \in Seq(Bytes), NEW u \in Seq(Bytes),
         Before(s, t), Before(t, u)
  PROVE  Before(s, u)
<1>1. PICK a \in Nat, b \in Nat, c \in Nat : a = Len(s) /\ b = Len(t) /\ c = Len(u)
  BY StringSizes
<1>2. /\ \A i \in 1..a : s[i] \in Nat
      /\ \A i \in 1..b : t[i] \in Nat
      /\ \A i \in 1..c : u[i] \in Nat
  BY <1>1, StringSizes
<1>3. PICK i \in 1..b :
        /\ \A j \in 1..(i - 1) : j <= a /\ s[j] = t[j]
        /\ i <= a => s[i] < t[i]
  BY <1>1 DEF Before
<1>4. PICK k \in 1..c :
        /\ \A j \in 1..(k - 1) : j <= b /\ t[j] = u[j]
        /\ k <= b => t[k] < u[k]
  BY <1>1 DEF Before
<1>5. ASSUME NEW m \in 1..c, m <= i, m <= k, m <= a => s[m] < u[m]
      PROVE  Before(s, u)
  <2>1. \A j \in 1..(m - 1) : j <= a /\ s[j] = u[j]
    BY <1>3, <1>4, <1>5
  <2> QED
    BY <1>1, <1>5, <2>1 DEF Before
<1>6. CASE i < k
  <2>1. i <= a => s[i] < u[i]
    BY <1>3, <1>4, <1>6
  <2>2. i \in 1..c
    BY <1>6
  <2> QED
    BY <1>5, <1>6, <2>1, <2>2
<1>7. CASE i = k
  <2>1. i <= a => s[i] < u[i]
    BY <1>2, <1>3, <1>4, <1>7
  <2> QED
    BY SMTT(30), <1>5, <1>7, <2>1
<1>8. CASE k < i
  <2>1. k <= a => s[k] < u[k]
    BY <1>3, <1>4, <1>8
  <2> QED
    BY <1>5, <1>8, <2>1
<1> QED
  BY <1>6, <1>7, <1>8

LEMMA BeforeTotal ==
  ASSUME NEW s \in Seq(Bytes), NEW t \in Seq(Bytes), s # t
  PROVE  Before(s, t) \/ Before(t, s)
<1>1. PICK a \in Nat, b \in Nat : a = Len(s) /\ b = Len(t)
  BY StringSizes
<1>2. /\ \A i \in 1..a : s[i] \in Nat
      /\ \A i \in 1..b : t[i] \in Nat
  BY <1>1, StringSizes
<1> DEFINE D == {i \in Nat \ {0} : i > a \/ i > b \/ s[i] # t[i]}
<1>3. a + 1 \in D
  OBVIOUS
<1>4. PICK i \in D : \A j \in D : i <= j
  <2>1. D \subseteq Nat /\ D # {}
    BY <1>3
  <2> HIDE DEF D
  <2> QED
    BY <2>1, LeastNat
<1>5. \A j \in 1..(i - 1) : j <= a /\ j <= b /\ s[j] = t[j]
  <2>1. ASSUME NEW j \in 1..(i - 1)
        PROVE  j <= a /\ j <= b /\ s[j] = t[j]
    <3>1. j \notin D
      <4>1. ~(i <= j)
        OBVIOUS
      <4> QED
        BY <1>4, <4>1
    <3>2. j \in Nat \ {0}
      OBVIOUS
    <3> QED
      BY <3>1, <3>2
  <2> QED
    BY <2>1
<1>6. i \in Nat \ {0} /\ (i > a \/ i > b \/ s[i] # t[i])
  OBVIOUS
<1> HIDE DEF D
<1>7. CASE i > a /\ i <= b
  <2>1. i \in 1..b /\ ~(i <= a)
    BY <1>6, <1>7
  <2> QED
    BY <1>1, <1>5, <2>1 DEF Before
<1>8. CASE i <= a /\ i > b
  <2>1. i \in 1..a /\ ~(i <= b)
    BY <1>6, <1>8
  <2>2. \A j \in 1..(i - 1) : j <= b /\ t[j] = s[j]
    BY <1>5
  <2> QED
    BY <1>1, <2>1, <2>2 DEF Before
<1>9. CASE i <= a /\ i <= b
  <2>1. s[i] # t[i] /\ i \in 1..a /\ i \in 1..b
    BY <1>6, <1>9
  <2>2. CASE s[i] < t[i]
    BY <1>1, <1>5, <2>1, <2>2 DEF Before
  <2>3. CASE t[i] < s[i]
    <3>1. \A j \in 1..(i - 1) : j <= b /\ t[j] = s[j]
      BY <1>5
    <3> QED
      BY <1>1, <2>1, <2>3, <3>1 DEF Before
  <2> QED
    BY <1>2, <2>1, <2>2, <2>3
<1>10. CASE i > a /\ i > b
  <2>1. a = b
    <3>1. a > b => FALSE
      <4>1. a > b => a \in 1..(i - 1)
        BY <1>6, <1>10
      <4> QED
        BY <1>5, <4>1
    <3>2. b > a => FALSE
      <4>1. b > a => b \in 1..(i - 1)
        BY <1>6, <1>10
      <4> QED
        BY <1>5, <4>1
    <3> QED
      BY <3>1, <3>2
  <2>2. \A j \in 1..a : s[j] = t[j]
    BY <1>5, <1>6, <1>10
  <2> QED
    BY <1>1, <2>1, <2>2, SameString
<1> QED
  BY <1>6, <1>7, <1>8, <1>9, <1>10

-----------------------------------------------------------------------------
(* Keys can be put in order, by an insertion.                               *)

(* An order p of 1..n in which no key goes back.                            *)
Arranges(p, n, key) ==
  /\ p \in [1..n -> 1..n]
  /\ \A i, j \in 1..n : p[i] = p[j] => i = j
  /\ \A i, j \in 1..n : i < j => ~Before(key[p[j]], key[p[i]])

Keys(key, n) == \A i \in 1..n : key[i] \in Seq(Bytes)

(* The last of n + 1 keys is put at position at of the others.               *)
Inserting(p, n, at) ==
  [i \in 1..(n + 1) |-> IF i < at THEN p[i] ELSE IF i = at THEN n + 1 ELSE p[i - 1]]

Inserted(p, n, at, q) ==
  /\ q \in [1..(n + 1) -> 1..(n + 1)]
  /\ q[at] = n + 1
  /\ \A i \in 1..(n + 1) : i < at => i \in 1..n /\ q[i] = p[i] /\ q[i] \in 1..n
  /\ \A i \in 1..(n + 1) : i > at => i - 1 \in 1..n /\ q[i] = p[i - 1] /\ q[i] \in 1..n

LEMMA NotAfter ==
  ASSUME NEW s \in Seq(Bytes), NEW t \in Seq(Bytes), NEW u \in Seq(Bytes),
         Before(s, t), ~Before(u, t)
  PROVE  ~Before(u, s)
<1>1. CASE t = u
  <2>1. ~(Before(s, u) /\ Before(u, s))
    BY BeforeTransitive, BeforeIrreflexive
  <2> QED
    BY <1>1, <2>1
<1>2. CASE t # u
  <2>1. Before(t, u)
    BY <1>2, BeforeTotal
  <2>2. Before(s, u)
    BY <2>1, BeforeTransitive
  <2>3. ~(Before(s, u) /\ Before(u, s))
    BY BeforeTransitive, BeforeIrreflexive
  <2> QED
    BY <2>2, <2>3
<1> QED
  BY <1>1, <1>2

LEMMA InsertingAt ==
  ASSUME NEW p, NEW n \in Nat, NEW at \in 1..(n + 1), p \in [1..n -> 1..n],
         NEW q, q = Inserting(p, n, at)
  PROVE  Inserted(p, n, at, q)
<1>1. \A i \in 1..(n + 1) :
        q[i] = IF i < at THEN p[i] ELSE IF i = at THEN n + 1 ELSE p[i - 1]
  BY DEF Inserting
<1>2. q = [i \in 1..(n + 1) |-> q[i]]
  BY DEF Inserting
<1>3. q[at] = n + 1
  BY <1>1
<1>4. \A i \in 1..(n + 1) : i < at => i \in 1..n /\ q[i] = p[i] /\ q[i] \in 1..n
  BY <1>1
<1>5. \A i \in 1..(n + 1) : i > at => i - 1 \in 1..n /\ q[i] = p[i - 1] /\ q[i] \in 1..n
  <2>1. ASSUME NEW i \in 1..(n + 1), i > at
        PROVE  i - 1 \in 1..n /\ q[i] = p[i - 1] /\ q[i] \in 1..n
    <3>1. i - 1 \in 1..n /\ ~(i < at) /\ i # at
      BY <2>1
    <3>2. q[i] = p[i - 1]
      BY <1>1, <3>1
    <3> QED
      BY <3>1, <3>2
  <2> QED
    BY <2>1
<1>6. \A i \in 1..(n + 1) : q[i] \in 1..(n + 1)
  <2>1. ASSUME NEW i \in 1..(n + 1)
        PROVE  q[i] \in 1..(n + 1)
    <3>1. CASE i < at
      <4>1. q[i] \in 1..n
        BY <1>4, <3>1
      <4> QED
        BY <4>1
    <3>2. CASE i = at
      BY <1>3, <3>2
    <3>3. CASE i > at
      <4>1. q[i] \in 1..n
        BY <1>5, <3>3
      <4> QED
        BY <4>1
    <3> QED
      BY <3>1, <3>2, <3>3
  <2> QED
    BY <2>1
<1>7. q \in [1..(n + 1) -> 1..(n + 1)]
  BY <1>2, <1>6
<1> QED
  BY <1>3, <1>4, <1>5, <1>7 DEF Inserted

LEMMA InsertingArranges ==
  ASSUME NEW p, NEW n \in Nat, NEW key, Keys(key, n + 1), Arranges(p, n, key),
         NEW at \in 1..(n + 1),
         \A i \in 1..n : i < at => ~Before(key[n + 1], key[p[i]]),
         at <= n => Before(key[n + 1], key[p[at]])
  PROVE  Arranges(Inserting(p, n, at), n + 1, key)
<1>1. /\ p \in [1..n -> 1..n]
      /\ \A i, j \in 1..n : p[i] = p[j] => i = j
      /\ \A i, j \in 1..n : i < j => ~Before(key[p[j]], key[p[i]])
  BY DEF Arranges
<1>2. PICK q : q = Inserting(p, n, at)
  OBVIOUS
<1>a. Inserted(p, n, at, q)
  BY <1>1, <1>2, InsertingAt
<1>3. q \in [1..(n + 1) -> 1..(n + 1)]
  BY <1>a DEF Inserted
<1>4. q[at] = n + 1
  BY <1>a DEF Inserted
<1>5. \A i \in 1..(n + 1) : i < at => i \in 1..n /\ q[i] = p[i] /\ q[i] \in 1..n
  BY <1>a DEF Inserted
<1>6. \A i \in 1..(n + 1) : i > at => i - 1 \in 1..n /\ q[i] = p[i - 1] /\ q[i] \in 1..n
  BY <1>a DEF Inserted
<1>7. \A i \in 1..n : p[i] \in 1..n /\ key[p[i]] \in Seq(Bytes)
  BY <1>1 DEF Keys
<1>8. key[n + 1] \in Seq(Bytes)
  BY DEF Keys
<1>9. ASSUME NEW i \in 1..(n + 1), NEW j \in 1..(n + 1), q[i] = q[j]
      PROVE  i = j
  <2>1. CASE i = at
    <3>1. q[j] = n + 1
      BY <1>4, <1>9, <2>1
    <3>2. ~(j < at) /\ ~(j > at)
      BY <1>5, <1>6, <3>1
    <3> QED
      BY <2>1, <3>2
  <2>2. CASE j = at
    <3>1. q[i] = n + 1
      BY <1>4, <1>9, <2>2
    <3>2. ~(i < at) /\ ~(i > at)
      BY <1>5, <1>6, <3>1
    <3> QED
      BY <2>2, <3>2
  <2>3. CASE i < at /\ j < at
    BY <1>1, <1>5, <1>9, <2>3
  <2>4. CASE i > at /\ j > at
    BY <1>1, <1>6, <1>9, <2>4
  <2>5. CASE i < at /\ j > at
    <3>1. i \in 1..n /\ j - 1 \in 1..n /\ p[i] = p[j - 1]
      BY <1>5, <1>6, <1>9, <2>5
    <3>2. i = j - 1
      BY <1>1, <3>1
    <3> QED
      BY <2>5, <3>2
  <2>6. CASE i > at /\ j < at
    <3>1. i - 1 \in 1..n /\ j \in 1..n /\ p[i - 1] = p[j]
      BY <1>5, <1>6, <1>9, <2>6
    <3>2. i - 1 = j
      BY <1>1, <3>1
    <3> QED
      BY <2>6, <3>2
  <2> QED
    BY <2>1, <2>2, <2>3, <2>4, <2>5, <2>6
<1>10. ASSUME NEW i \in 1..(n + 1), NEW j \in 1..(n + 1), i < j
       PROVE  ~Before(key[q[j]], key[q[i]])
  <2>1. CASE j < at
    <3>1. i < at
      BY <1>10, <2>1
    <3> QED
      BY <1>1, <1>5, <1>10, <2>1, <3>1
  <2>2. CASE j = at
    <3>1. i < at
      BY <1>10, <2>2
    <3> QED
      BY <1>4, <1>5, <2>2, <3>1
  <2>3. CASE i < at /\ j > at
    <3>1. i \in 1..n /\ j - 1 \in 1..n /\ i < j - 1 /\ q[i] = p[i] /\ q[j] = p[j - 1]
      BY <1>5, <1>6, <2>3
    <3> QED
      BY <1>1, <3>1
  <2>4. CASE i = at
    <3>1. j > at /\ j - 1 \in 1..n /\ q[j] = p[j - 1] /\ at \in 1..n
      BY <1>6, <1>10, <2>4
    <3>2. Before(key[n + 1], key[p[at]])
      BY <3>1
    <3>3. ~Before(key[p[j - 1]], key[p[at]])
      <4>1. CASE j - 1 = at
        BY <1>7, <3>1, <4>1, BeforeIrreflexive
      <4>2. CASE j - 1 # at
        <5>1. at < j - 1
          BY <3>1, <4>2
        <5> QED
          BY <1>1, <3>1, <5>1
      <4> QED
        BY <4>1, <4>2
    <3>4. ~Before(key[p[j - 1]], key[n + 1])
      BY <1>7, <1>8, <3>1, <3>2, <3>3, NotAfter
    <3> QED
      BY <1>4, <2>4, <3>1, <3>4
  <2>5. CASE i > at
    <3>1. /\ i - 1 \in 1..n /\ j - 1 \in 1..n /\ i - 1 < j - 1
          /\ q[i] = p[i - 1] /\ q[j] = p[j - 1]
      BY <1>6, <1>10, <2>5
    <3> QED
      BY <1>1, <3>1
  <2> QED
    BY <2>1, <2>2, <2>3, <2>4, <2>5
<1> QED
  BY <1>2, <1>3, <1>9, <1>10 DEF Arranges

LEMMA ArrangingExists ==
  ASSUME NEW n \in Nat, NEW key, Keys(key, n)
  PROVE  \E p : Arranges(p, n, key)
<1> DEFINE T == {m \in 0..n : ~\E p : Arranges(p, m, key)}
<1>1. ASSUME T # {}
      PROVE  FALSE
  <2>1. PICK m \in T : \A k \in T : m <= k
    <3>1. T \subseteq Nat
      OBVIOUS
    <3> HIDE DEF T
    <3> QED
      BY <1>1, <3>1, LeastNat
  <2>2. m \in 0..n /\ ~\E p : Arranges(p, m, key)
    OBVIOUS
  <2>3. m # 0
    <3>1. Arranges([i \in 1..0 |-> i], 0, key)
      BY DEF Arranges
    <3> QED
      BY <2>2, <3>1
  <2>4. PICK k \in Nat : m = k + 1 /\ k \in 0..n
    BY <2>2, <2>3
  <2>5. \E p : Arranges(p, k, key)
    <3>1. k \notin T
      <4>1. ~(m <= k)
        BY <2>4
      <4> QED
        BY <2>1, <4>1
    <3> QED
      BY <2>4, <3>1
  <2> HIDE DEF T
  <2>6. PICK p : Arranges(p, k, key)
    BY <2>5
  <2>7. Keys(key, k + 1)
    BY <2>2, <2>4 DEF Keys
  <2> DEFINE P == {i \in 1..(k + 1) : i = k + 1 \/ Before(key[k + 1], key[p[i]])}
  <2>8. PICK at \in P : \A i \in P : at <= i
    <3>1. P \subseteq Nat /\ k + 1 \in P
      OBVIOUS
    <3> HIDE DEF P
    <3> QED
      BY <3>1, LeastNat
  <2>9. /\ at \in 1..(k + 1)
        /\ at <= k => Before(key[k + 1], key[p[at]])
    OBVIOUS
  <2>10. ASSUME NEW i \in 1..k, i < at
         PROVE  ~Before(key[k + 1], key[p[i]])
    <3>1. i \notin P
      <4>1. ~(at <= i)
        BY <2>9, <2>10
      <4> QED
        BY <2>8, <4>1
    <3> QED
      BY <3>1
  <2> HIDE DEF P
  <2>11. Arranges(Inserting(p, k, at), k + 1, key)
    BY <2>6, <2>7, <2>9, <2>10, InsertingArranges
  <2> QED
    BY <2>2, <2>4, <2>11
<1>2. n \notin T
  BY <1>1
<1> QED
  BY <1>2

-----------------------------------------------------------------------------
(* Keys that are put in order, and of which no two neighbours are the same,  *)
(* are all different: their pairs have one order.                            *)

KeysAt(f, arena, n, key) == \A i \in 1..n : KeyOf(arena, f.entries[i]) = key[i]
ValuesAt(f, arena, n, value) == \A i \in 1..n : ValueOf(arena, f.entries[i]) = value[i]
Paired(k, v, n) == [i \in 1..n |-> <<k[i], v[i]>>]
Joined(k, v, n) == [i \in 1..n |-> k[i] \o v[i]]
PairedBy(p, key, value, n) == [i \in 1..n |-> <<key[p[i]], value[p[i]]>>]
EntriesBy(p, f, n) == [i \in 1..n |-> f.entries[p[i]]]
Neighbours(p, n, key) == \A i \in 1..(n - 1) : key[p[i]] # key[p[i + 1]]
Different(key, n) == \A i, j \in 1..n : key[i] = key[j] => i = j
Pairing(key, value, n) == {<<key[i], value[i]>> : i \in 1..n}
Ascends(s, n, pairs) ==
  /\ s \in [1..n -> pairs]
  /\ \A i, j \in 1..n : s[i] = s[j] => i = j
  /\ \A i, j \in 1..n : i < j => ~Before(s[j][1], s[i][1])

One(s, n) == \A i, j \in 1..n : s[i] = s[j] => i = j
Onto(s, n, P) == \A x \in P : \E i \in 1..n : s[i] = x

LEMMA InjectionIsOnto ==
  ASSUME NEW n \in Nat, NEW P, IsFiniteSet(P), Cardinality(P) = n,
         NEW s, s \in [1..n -> P], One(s, n)
  PROVE  Onto(s, n, P)
<1>1. s \in Injection(1..n, P)
  BY DEF Injection, IsInjective, One
<1>2. Cardinality(1..n) = n
  BY FS_Interval
<1>3. s \in Surjection(1..n, P)
  BY <1>1, <1>2, FS_Injection
<1> QED
  BY <1>3 DEF Surjection, Onto

LEMMA AllDifferent ==
  ASSUME NEW p, NEW n \in Nat, NEW key, Keys(key, n), Arranges(p, n, key),
         Neighbours(p, n, key)
  PROVE  Different(key, n)
<1>1. /\ p \in [1..n -> 1..n]
      /\ \A i, j \in 1..n : p[i] = p[j] => i = j
      /\ \A i, j \in 1..n : i < j => ~Before(key[p[j]], key[p[i]])
  BY DEF Arranges
<1>2. \A i \in 1..n : p[i] \in 1..n /\ key[p[i]] \in Seq(Bytes)
  BY <1>1 DEF Keys
<1>3. ASSUME NEW i \in 1..n, NEW j \in 1..n, i < j
      PROVE  key[p[i]] # key[p[j]]
  <2>1. i \in 1..(n - 1) /\ i + 1 \in 1..n /\ i < i + 1
    BY <1>3
  <2>2. key[p[i]] # key[p[i + 1]]
    BY <2>1 DEF Neighbours
  <2>3. CASE j = i + 1
    BY <2>2, <2>3
  <2>4. CASE j # i + 1
    <3>1. i + 1 < j
      BY <1>3, <2>4
    <3>2. ~Before(key[p[j]], key[p[i + 1]])
      BY <1>1, <2>1, <3>1
    <3>3. ~Before(key[p[i + 1]], key[p[i]])
      BY <1>1, <2>1
    <3>4. Before(key[p[i]], key[p[i + 1]])
      BY <1>2, <2>1, <2>2, <3>3, BeforeTotal
    <3> QED
      BY <3>2, <3>4
  <2> QED
    BY <2>3, <2>4
<1>4. \A x \in 1..n : \E i \in 1..n : p[i] = x
  <2>1. IsFiniteSet(1..n) /\ Cardinality(1..n) = n
    BY FS_Interval
  <2>2. One(p, n)
    BY <1>1 DEF One
  <2>3. Onto(p, n, 1..n)
    BY <1>1, <2>1, <2>2, InjectionIsOnto
  <2> QED
    BY <2>3 DEF Onto
<1>5. ASSUME NEW i \in 1..n, NEW j \in 1..n, key[i] = key[j]
      PROVE  i = j
  <2>1. PICK a \in 1..n, b \in 1..n : p[a] = i /\ p[b] = j
    BY <1>4
  <2>2. ~(a < b) /\ ~(b < a)
    BY <1>3, <1>5, <2>1
  <2>3. a = b
    BY <2>2
  <2> QED
    BY <2>1, <2>3
<1> QED
  BY <1>5 DEF Different

LEMMA PairsCounted ==
  ASSUME NEW n \in Nat, NEW key, NEW value, Different(key, n)
  PROVE  IsFiniteSet(Pairing(key, value, n)) /\ Cardinality(Pairing(key, value, n)) = n
<1> DEFINE h == [i \in 1..n |-> <<key[i], value[i]>>]
<1>1. h \in [1..n -> Pairing(key, value, n)]
  BY DEF Pairing
<1>2. \A i, j \in 1..n : h[i] = h[j] => i = j
  BY DEF Different
<1>3. \A x \in Pairing(key, value, n) : \E i \in 1..n : h[i] = x
  BY DEF Pairing
<1> HIDE DEF h
<1>4. h \in Bijection(1..n, Pairing(key, value, n))
  BY <1>1, <1>2, <1>3 DEF Bijection, Injection, Surjection, IsInjective
<1>5. ExistsBijection(1..n, Pairing(key, value, n))
  BY <1>4 DEF ExistsBijection
<1>6. IsFiniteSet(1..n) /\ Cardinality(1..n) = n
  BY FS_Interval
<1> QED
  BY <1>5, <1>6, FS_Bijection

LEMMA OneOrder ==
  ASSUME NEW n \in Nat, NEW P, IsFiniteSet(P), Cardinality(P) = n,
         \A x \in P : x[1] \in Seq(Bytes),
         \A x, y \in P : x[1] = y[1] => x = y,
         NEW s, Ascends(s, n, P), NEW t, Ascends(t, n, P)
  PROVE  s = t
<1>1. /\ s \in [1..n -> P]
      /\ \A i, j \in 1..n : s[i] = s[j] => i = j
      /\ \A i, j \in 1..n : i < j => ~Before(s[j][1], s[i][1])
  BY DEF Ascends
<1>2. /\ t \in [1..n -> P]
      /\ \A i, j \in 1..n : t[i] = t[j] => i = j
      /\ \A i, j \in 1..n : i < j => ~Before(t[j][1], t[i][1])
  BY DEF Ascends
<1>3. /\ \A x \in P : \E i \in 1..n : s[i] = x
      /\ \A x \in P : \E i \in 1..n : t[i] = x
  <2>1. One(s, n) /\ One(t, n)
    BY <1>1, <1>2 DEF One
  <2>2. Onto(s, n, P)
    BY <1>1, <2>1, InjectionIsOnto
  <2>3. Onto(t, n, P)
    BY <1>2, <2>1, InjectionIsOnto
  <2> QED
    BY <2>2, <2>3 DEF Onto
<1> DEFINE T == {i \in 1..n : s[i] # t[i]}
<1>4. ASSUME T # {}
      PROVE  FALSE
  <2>1. PICK i \in T : \A k \in T : i <= k
    <3>1. T \subseteq Nat
      OBVIOUS
    <3> HIDE DEF T
    <3> QED
      BY <1>4, <3>1, LeastNat
  <2>2. i \in 1..n /\ s[i] # t[i]
    OBVIOUS
  <2>3. \A k \in 1..n : k < i => s[k] = t[k]
    <3>1. ASSUME NEW k \in 1..n, k < i
          PROVE  s[k] = t[k]
      <4>1. k \notin T
        <5>1. ~(i <= k)
          BY <2>2, <3>1
        <5> QED
          BY <2>1, <5>1
      <4> QED
        BY <4>1
    <3> QED
      BY <3>1
  <2> HIDE DEF T
  <2>4. s[i] \in P /\ t[i] \in P
    BY <1>1, <1>2, <2>2
  <2>5. PICK j \in 1..n : s[j] = t[i]
    BY <1>3, <2>4
  <2>6. PICK k \in 1..n : t[k] = s[i]
    BY <1>3, <2>4
  <2>7. i < j
    <3>1. j # i
      BY <2>2, <2>5
    <3>2. ~(j < i)
      <4>1. ASSUME j < i
            PROVE  FALSE
        <5>1. t[j] = t[i]
          BY <2>3, <2>5, <4>1
        <5>2. j = i
          BY <1>2, <2>2, <5>1
        <5> QED
          BY <3>1, <5>2
      <4> QED
        BY <4>1
    <3> QED
      BY <2>2, <3>1, <3>2
  <2>8. i < k
    <3>1. k # i
      BY <2>2, <2>6
    <3>2. ~(k < i)
      <4>1. ASSUME k < i
            PROVE  FALSE
        <5>1. s[k] = s[i]
          BY <2>3, <2>6, <4>1
        <5>2. k = i
          BY <1>1, <2>2, <5>1
        <5> QED
          BY <3>1, <5>2
      <4> QED
        BY <4>1
    <3> QED
      BY <2>2, <3>1, <3>2
  <2>9. ~Before(t[i][1], s[i][1])
    BY <1>1, <2>2, <2>5, <2>7
  <2>10. ~Before(s[i][1], t[i][1])
    BY <1>2, <2>2, <2>6, <2>8
  <2>11. s[i][1] = t[i][1]
    <3>1. s[i][1] \in Seq(Bytes) /\ t[i][1] \in Seq(Bytes)
      BY <2>4
    <3> QED
      BY <2>9, <2>10, <3>1, BeforeTotal
  <2> QED
    BY <2>2, <2>4, <2>11
<1>5. \A i \in 1..n : s[i] = t[i]
  BY <1>4
<1> HIDE DEF T
<1> QED
  BY <1>1, <1>2, <1>5

LEMMA InOrderIs ==
  ASSUME NEW n \in Nat, NEW key, NEW value, Keys(key, n), Different(key, n),
         NEW p, Arranges(p, n, key)
  PROVE  InOrder(Pairing(key, value, n)) = PairedBy(p, key, value, n)
<1> DEFINE P == Pairing(key, value, n)
           t == [i \in 1..n |-> <<key[p[i]], value[p[i]]>>]
<1>1. IsFiniteSet(P) /\ Cardinality(P) = n
  BY PairsCounted
<1>2. /\ p \in [1..n -> 1..n]
      /\ \A i, j \in 1..n : p[i] = p[j] => i = j
      /\ \A i, j \in 1..n : i < j => ~Before(key[p[j]], key[p[i]])
  BY DEF Arranges
<1>3. \A x \in P : x[1] \in Seq(Bytes)
  BY DEF Pairing, Keys
<1>4. \A x, y \in P : x[1] = y[1] => x = y
  BY DEF Pairing, Different
<1>5. \A i \in 1..n : t[i] = <<key[p[i]], value[p[i]]>> /\ t[i][1] = key[p[i]] /\ p[i] \in 1..n
  BY <1>2
<1>6. t \in [1..n -> P]
  BY <1>2 DEF Pairing
<1> HIDE DEF t
<1>7. Ascends(t, n, P)
  <2>1. \A i, j \in 1..n : t[i] = t[j] => i = j
    <3>1. ASSUME NEW i \in 1..n, NEW j \in 1..n, t[i] = t[j]
          PROVE  i = j
      <4>1. key[p[i]] = key[p[j]] /\ p[i] \in 1..n /\ p[j] \in 1..n
        BY <1>5, <3>1
      <4>2. p[i] = p[j]
        BY <4>1 DEF Different
      <4> QED
        BY <1>2, <4>2
    <3> QED
      BY <3>1
  <2>2. \A i, j \in 1..n : i < j => ~Before(t[j][1], t[i][1])
    BY <1>2, <1>5
  <2> QED
    BY <1>6, <2>1, <2>2 DEF Ascends
<1>8. \A s : (/\ s \in [1..n -> P] /\ IsInjective(s)
              /\ \A i, j \in DOMAIN s : i < j => ~Before(s[j][1], s[i][1]))
             <=> Ascends(s, n, P)
  BY DEF Ascends, IsInjective
<1> HIDE DEF P
<1>9. InOrder(P) = CHOOSE s \in [1..n -> P] :
                     IsInjective(s) /\ \A i, j \in DOMAIN s : i < j => ~Before(s[j][1], s[i][1])
  BY <1>1 DEF InOrder
<1>10. Ascends(InOrder(P), n, P)
  BY <1>7, <1>8, <1>9
<1>11. InOrder(P) = t
  BY <1>1, <1>3, <1>4, <1>7, <1>10, OneOrder
<1> QED
  BY <1>11 DEF P, t, PairedBy

-----------------------------------------------------------------------------
(* The entries of a map, sorted.                                            *)

LEMMA SortedIs ==
  ASSUME NEW f, NEW arena, NEW n \in Nat, n = Len(f.entries), NEW key, Keys(key, n),
         KeysAt(f, arena, n, key)
  PROVE  \E p : /\ Arranges(p, n, key)
                /\ Sorted(f, arena) = EntriesBy(p, f, n)
<1> DEFINE K(i) == KeyOf(arena, f.entries[i])
           Fine(q) == /\ IsInjective(q)
                      /\ \A i, j \in 1..n : i < j => ~Before(K(q[j]), K(q[i]))
           order == CHOOSE q \in [1..n -> 1..n] : Fine(q)
<1>1. Sorted(f, arena) = [i \in 1..n |-> f.entries[order[i]]]
  BY DEF Sorted
<1>a. Sorted(f, arena) = EntriesBy(order, f, n)
  BY <1>1 DEF EntriesBy
<1>2. ASSUME NEW q, q \in [1..n -> 1..n]
      PROVE  Fine(q) <=> Arranges(q, n, key)
  <2>1. \A i \in 1..n : q[i] \in 1..n /\ K(q[i]) = key[q[i]]
    BY <1>2 DEF KeysAt
  <2> HIDE DEF K
  <2>2. (\A i, j \in 1..n : i < j => ~Before(K(q[j]), K(q[i])))
        <=> (\A i, j \in 1..n : i < j => ~Before(key[q[j]], key[q[i]]))
    BY <2>1
  <2>3. IsInjective(q) <=> \A i, j \in 1..n : q[i] = q[j] => i = j
    BY <1>2 DEF IsInjective
  <2> QED
    BY <1>2, <2>2, <2>3 DEF Arranges
<1>3. PICK q : Arranges(q, n, key)
  BY ArrangingExists
<1>4. q \in [1..n -> 1..n]
  BY <1>3 DEF Arranges
<1>5. Fine(q)
  BY <1>2, <1>3, <1>4
<1> HIDE DEF Fine
<1>6. order \in [1..n -> 1..n] /\ Fine(order)
  BY <1>4, <1>5
<1>7. Arranges(order, n, key)
  BY <1>2, <1>6
<1> HIDE DEF order
<1> QED
  BY <1>a, <1>7

LEMMA FunctionIsSeq ==
  ASSUME NEW S, NEW n \in Nat, NEW g, g \in [1..n -> S]
  PROVE  g \in Seq(S) /\ Len(g) = n
OBVIOUS

LEMMA FunctionAppend ==
  ASSUME NEW n \in Nat, NEW g
  PROVE  [i \in 1..(n + 1) |-> g[i]] = Append([i \in 1..n |-> g[i]], g[n + 1])
OBVIOUS

(* Keys and values one after another, and each key with its value.           *)
LEMMA FlattenPairs ==
  ASSUME NEW n \in Nat, NEW k, Keys(k, n), NEW v, Keys(v, n)
  PROVE  /\ FlattenSeq(FlattenSeq(Paired(k, v, n))) = FlattenSeq(Joined(k, v, n))
         /\ FlattenSeq(Joined(k, v, n)) \in Seq(Bytes)
<1> DEFINE A(m) == [i \in 1..m |-> <<k[i], v[i]>>]
           B(m) == [i \in 1..m |-> k[i] \o v[i]]
           S == Seq(Bytes)
<1>1. \A i \in 1..n : k[i] \in S /\ v[i] \in S
  BY DEF Keys
<1>2. \A i \in 1..n : <<k[i], v[i]>> \in Seq(S) /\ k[i] \o v[i] \in S
  BY <1>1
<1>3. \A m \in 0..n : A(m) \in Seq(Seq(S)) /\ B(m) \in Seq(S)
  <2>1. ASSUME NEW m \in 0..n
        PROVE  A(m) \in Seq(Seq(S)) /\ B(m) \in Seq(S)
    <3>1. A(m) \in [1..m -> Seq(S)] /\ B(m) \in [1..m -> S]
      BY <1>2
    <3> QED
      BY <3>1, FunctionIsSeq
  <2> QED
    BY <2>1
<1>4. \A m \in 0..n : FlattenSeq(A(m)) \in Seq(S) /\ FlattenSeq(B(m)) \in S
  BY <1>3, FlattenType
<1> DEFINE T == {m \in 0..n : FlattenSeq(FlattenSeq(A(m))) # FlattenSeq(B(m))}
<1>5. ASSUME T # {}
      PROVE  FALSE
  <2>1. PICK m \in T : \A j \in T : m <= j
    <3> HIDE DEF A, B
    <3>1. T \subseteq Nat
      OBVIOUS
    <3> HIDE DEF T
    <3> QED
      BY <1>5, <3>1, LeastNat
  <2>2. m \in 0..n /\ FlattenSeq(FlattenSeq(A(m))) # FlattenSeq(B(m))
    OBVIOUS
  <2>3. m # 0
    <3>1. A(0) = <<>> /\ B(0) = <<>>
      OBVIOUS
    <3>2. FlattenSeq(FlattenSeq(A(0))) = FlattenSeq(B(0))
      BY <3>1, FlattenEmpty
    <3> QED
      BY <2>2, <3>2
  <2>4. PICK j \in Nat : m = j + 1 /\ j \in 0..n /\ m \in 1..n
    BY <2>2, <2>3
  <2>5. FlattenSeq(FlattenSeq(A(j))) = FlattenSeq(B(j))
    <3>1. ~(m <= j)
      BY <2>4
    <3>2. j \notin T
      BY <2>1, <3>1
    <3> QED
      BY <2>4, <3>2
  <2>6. A(m) = Append(A(j), <<k[m], v[m]>>) /\ B(m) = Append(B(j), k[m] \o v[m])
    <3>1. A(m) = Append(A(j), <<k[m], v[m]>>)
      BY <2>4, FunctionAppend
    <3>2. B(m) = Append(B(j), k[m] \o v[m])
      <4>1. PICK g : g = [i \in 1..n |-> k[i] \o v[i]]
        OBVIOUS
      <4>2. g[m] = k[m] \o v[m]
        BY <2>4, <4>1
      <4>3. \A i \in 1..n : k[i] \o v[i] = g[i]
        BY <4>1
      <4>4. B(m) = [i \in 1..m |-> g[i]]
        <5>1. \A i \in 1..m : i \in 1..n
          BY <2>4
        <5>2. \A i \in 1..m : k[i] \o v[i] = g[i]
          BY <4>3, <5>1
        <5> QED
          BY <5>2
      <4>5. B(j) = [i \in 1..j |-> g[i]]
        <5>1. \A i \in 1..j : i \in 1..n
          BY <2>4
        <5>2. \A i \in 1..j : k[i] \o v[i] = g[i]
          BY <4>3, <5>1
        <5> QED
          BY <5>2
      <4>6. [i \in 1..(j + 1) |-> g[i]] = Append([i \in 1..j |-> g[i]], g[j + 1])
        BY FunctionAppend
      <4> HIDE DEF B
      <4> QED
        BY <2>4, <4>2, <4>4, <4>5, <4>6
    <3> QED
      BY <3>1, <3>2
  <2>7. PICK a \in Seq(Seq(S)), b \in Seq(S) : a = A(j) /\ b = B(j)
    BY <1>3, <2>4
  <2>8. PICK x \in S, y \in S : x = k[m] /\ y = v[m]
    BY <1>1, <2>4
  <2>9. A(m) = Append(a, <<x, y>>) /\ B(m) = Append(b, x \o y)
    BY <2>6, <2>7, <2>8
  <2>10. FlattenSeq(FlattenSeq(a)) = FlattenSeq(b)
    BY <2>5, <2>7
  <2> HIDE DEF A, B, T
  <2>11. FlattenSeq(Append(a, <<x, y>>)) = FlattenSeq(a) \o <<x, y>>
    <3>1. <<x, y>> \in Seq(S)
      OBVIOUS
    <3> QED
      BY <3>1, FlattenAppend
  <2>12. FlattenSeq(a) \in Seq(S)
    BY FlattenType
  <2>13. FlattenSeq(a) \o <<x, y>> = Append(Append(FlattenSeq(a), x), y)
    BY <2>12, AppendTwice
  <2>14. Append(FlattenSeq(a), x) \in Seq(S)
    BY <2>12
  <2>15. FlattenSeq(Append(Append(FlattenSeq(a), x), y))
           = (FlattenSeq(FlattenSeq(a)) \o x) \o y
    <3>1. FlattenSeq(Append(FlattenSeq(a), x)) = FlattenSeq(FlattenSeq(a)) \o x
      BY <2>12, FlattenAppend
    <3>2. FlattenSeq(Append(Append(FlattenSeq(a), x), y))
            = FlattenSeq(Append(FlattenSeq(a), x)) \o y
      BY <2>14, FlattenAppend
    <3> QED
      BY <3>1, <3>2
  <2>16. FlattenSeq(Append(b, x \o y)) = FlattenSeq(b) \o (x \o y)
    <3>1. x \o y \in S
      OBVIOUS
    <3> QED
      BY <3>1, FlattenAppend
  <2>17. (FlattenSeq(b) \o x) \o y = FlattenSeq(b) \o (x \o y)
    <3>1. FlattenSeq(b) \in Seq(Bytes)
      BY FlattenType
    <3> QED
      BY <3>1, BytesAssociate
  <2> QED
    BY <2>2, <2>9, <2>10, <2>11, <2>13, <2>15, <2>16, <2>17
<1> HIDE DEF A, B, S
<1>6. n \notin T
  BY <1>5
<1>7. FlattenSeq(FlattenSeq(A(n))) = FlattenSeq(B(n)) /\ FlattenSeq(B(n)) \in S
  BY <1>4, <1>6
<1> QED
  BY <1>7 DEF A, B, S, Paired, Joined

(* What a map has recorded when it ends, and what it writes then.            *)
MapOf(f, arena, n, key, value) ==
  /\ n = Len(f.entries) /\ n \in 0..31 /\ Len(f.given) \div 2 = n
  /\ key = [i \in 1..n |-> f.given[2 * i - 1]] /\ Keys(key, n)
  /\ value = [i \in 1..n |-> f.given[2 * i]] /\ Keys(value, n)
  /\ KeysAt(f, arena, n, key) /\ ValuesAt(f, arena, n, value)

LEMMA MapRecorded ==
  ASSUME NEW f \in Frames, Fits(f), Sorting(f), f.span = <<>>,
         NEW arena, arena = FlattenSeq(f.given)
  PROVE  \E n \in Nat : \E key, value : MapOf(f, arena, n, key, value)
<1>1. f.given \in Seq(Seq(Bytes)) /\ f.entries \in Seq([1..4 -> Nat])
  BY DEF Frames
<1>2. PICK n \in Nat : n = Len(f.entries)
  BY <1>1, LengthIs
<1>3. PICK c \in Nat : c = Len(f.given)
  BY <1>1, LengthIs
<1>4. Recorded(f, arena, n, 0, c)
  <2>1. Len(f.span) = 0
    OBVIOUS
  <2> QED
    BY <1>2, <1>3, <2>1, SpansCutIs DEF Fits
<1>5. c = 2 * n /\ c \div 2 = n
  <2>1. c = 2 * n
    BY <1>4 DEF Recorded
  <2> QED
    BY <2>1
<1>6. n \in 0..31
  <2>1. EntriesFit(f)
    BY DEF Fits
  <2>2. PICK fields \in 1..23 : fields = Len(Names)
    BY WriterAssumption
  <2>3. PICK most \in 1..23 : most = MaxEntries
    BY WriterAssumption
  <2>4. CASE f.shape = "map"
    <3>1. Limit(f) = most
      BY <2>3 DEF Limit
    <3>2. c <= 2 * most
      BY <1>3, <2>1, <2>4, <3>1 DEF EntriesFit
    <3> QED
      BY <1>5, <3>2
  <2>5. CASE f.shape = "struct"
    <3>1. f.known \in 0..fields
      BY <2>1, <2>2, <2>5 DEF EntriesFit
    <3>2. PICK known \in 0..fields : known = f.known
      BY <3>1
    <3>3. c <= 2 * known
      BY <1>3, <2>1, <2>5, <3>2 DEF EntriesFit
    <3> QED
      BY <1>5, <3>2, <3>3
  <2> QED
    BY <2>4, <2>5 DEF Sorting
<1>7. PICK key, value : /\ key = [i \in 1..n |-> f.given[2 * i - 1]]
                        /\ value = [i \in 1..n |-> f.given[2 * i]]
  OBVIOUS
<1>8. \A i \in 1..n : /\ key[i] = f.given[2 * i - 1] /\ 2 * i - 1 \in 1..c
                      /\ value[i] = f.given[2 * i] /\ 2 * i \in 1..c
  BY <1>5, <1>7
<1>9. Keys(key, n) /\ Keys(value, n)
  <2>1. \A i \in 1..c : f.given[i] \in Seq(Bytes)
    BY <1>1, <1>3
  <2> QED
    BY <1>8, <2>1 DEF Keys
<1>10. KeysAt(f, arena, n, key)
  BY <1>4, <1>8 DEF Recorded, Cuts, KeysAt
<1>11. ValuesAt(f, arena, n, value)
  BY <1>4, <1>8 DEF Recorded, Cuts, ValuesAt
<1>12. n = Len(f.entries) /\ n \in 0..31 /\ Len(f.given) \div 2 = n
  BY <1>2, <1>3, <1>5, <1>6
<1>13. MapOf(f, arena, n, key, value)
  BY <1>7, <1>9, <1>10, <1>11, <1>12 DEF MapOf
<1> QED
  BY <1>13

LEMMA MapWritten ==
  ASSUME NEW f \in Frames, Fits(f), Sorting(f), f.span = <<>>,
         NEW arena, arena = FlattenSeq(f.given), ~Repeated(Sorted(f, arena), arena)
  PROVE  /\ Encoding(f) = Head1(5, Len(f.entries)) \o Written(Sorted(f, arena), arena)
         /\ Encoding(f) \in Seq(Bytes)
<1>a. PICK n \in Nat : \E key, value : MapOf(f, arena, n, key, value)
  BY MapRecorded
<1>b. PICK key, value : MapOf(f, arena, n, key, value)
  BY <1>a
<1>1. /\ n = Len(f.entries) /\ n \in 0..31 /\ Len(f.given) \div 2 = n
      /\ key = [i \in 1..n |-> f.given[2 * i - 1]] /\ Keys(key, n)
      /\ value = [i \in 1..n |-> f.given[2 * i]] /\ Keys(value, n)
      /\ KeysAt(f, arena, n, key) /\ ValuesAt(f, arena, n, value)
  BY <1>b DEF MapOf
<1>2. PICK p : Arranges(p, n, key) /\ Sorted(f, arena) = EntriesBy(p, f, n)
  <2>1. n = Len(f.entries) /\ Keys(key, n) /\ KeysAt(f, arena, n, key)
    BY <1>1
  <2> QED
    BY <2>1, SortedIs
<1>3. PICK es : es = Sorted(f, arena)
  OBVIOUS
<1>4. es = [i \in 1..n |-> f.entries[p[i]]] /\ Len(es) = n
  BY <1>2, <1>3 DEF EntriesBy
<1>5. \A i \in 1..n : p[i] \in 1..n
  BY <1>2 DEF Arranges
<1>6. \A i \in 1..n : KeyOf(arena, es[i]) = key[p[i]] /\ ValueOf(arena, es[i]) = value[p[i]]
  BY <1>1, <1>4, <1>5 DEF KeysAt, ValuesAt
<1>7. Neighbours(p, n, key)
  <2>1. ASSUME NEW i \in 1..(n - 1)
        PROVE  key[p[i]] # key[p[i + 1]]
    <3>1. i \in 1..n /\ i + 1 \in 1..n
      OBVIOUS
    <3>2. KeyOf(arena, es[i]) # KeyOf(arena, es[i + 1])
      BY <1>3, <1>4 DEF Repeated
    <3> QED
      BY <1>6, <3>1, <3>2
  <2> QED
    BY <2>1 DEF Neighbours
<1>8. Different(key, n)
  BY <1>1, <1>2, <1>7, AllDifferent
<1>9. PairsOf(f) = Pairing(key, value, n)
  <2>1. \A i \in 1..n : key[i] = f.given[2 * i - 1] /\ value[i] = f.given[2 * i]
    BY <1>1
  <2>2. PairsOf(f) = {<<f.given[2 * i - 1], f.given[2 * i]>> : i \in 1..n}
    BY <1>1 DEF PairsOf
  <2> QED
    BY ZenonT(60), <2>1, <2>2 DEF Pairing
<1>10. InOrder(PairsOf(f)) = PairedBy(p, key, value, n)
  BY <1>1, <1>2, <1>8, <1>9, InOrderIs
<1>11. Cardinality(PairsOf(f)) = n
  BY <1>8, <1>9, PairsCounted
<1>12. PICK k, v : k = [i \in 1..n |-> key[p[i]]] /\ v = [i \in 1..n |-> value[p[i]]]
  OBVIOUS
<1>13. \A i \in 1..n : k[i] = key[p[i]] /\ v[i] = value[p[i]]
  BY <1>12
<1>14. Keys(k, n) /\ Keys(v, n)
  BY <1>1, <1>5, <1>13 DEF Keys
<1>15. InOrder(PairsOf(f)) = Paired(k, v, n)
  BY <1>10, <1>13 DEF Paired, PairedBy
<1>16. Written(es, arena) = FlattenSeq(Joined(k, v, n))
  <2>1. [i \in 1..n |-> KeyOf(arena, es[i]) \o ValueOf(arena, es[i])]
          = [i \in 1..n |-> k[i] \o v[i]]
    BY <1>6, <1>13
  <2> QED
    BY <1>4, <2>1 DEF Written, Joined
<1>17. /\ FlattenSeq(FlattenSeq(InOrder(PairsOf(f)))) = Written(es, arena)
       /\ Written(es, arena) \in Seq(Bytes)
  BY <1>14, <1>15, <1>16, FlattenPairs
<1>18. Encoding(f) = Head1(5, n) \o Written(es, arena)
  <2>1. f.shape # "variant" /\ f.shape # "tagged" /\ ~Buffering(f)
    BY DEF Sorting, Buffering
  <2>2. Encoding(f) = Head1(5, Cardinality(PairsOf(f)))
                        \o FlattenSeq(FlattenSeq(InOrder(PairsOf(f))))
    BY <2>1 DEF Encoding
  <2> QED
    BY <1>11, <1>17, <2>2
<1>19. Head1(5, n) \in Seq(Bytes)
  <2>1. 5 \in 4..6
    OBVIOUS
  <2> QED
    BY <1>1, <2>1, HeadsAreBytes
<1>20. Head1(5, n) \o Written(es, arena) \in Seq(Bytes)
  BY <1>17, <1>19, ConcatParts
<1> QED
  BY <1>1, <1>3, <1>18, <1>20

LEMMA EndMapStep ==
  ASSUME WriterIInv, EndMap
  PROVE  WriterIInv'
<1> DEFINE b == Head1(5, Len(Top.entries)) \o Written(Sorted(Top, Target), Target)
<1>1. /\ Running /\ frames # <<>> /\ Sorting(Top) /\ Owns(Top) /\ Top.span = <<>>
      /\ ~Repeated(Sorted(Top, Target), Target)
      /\ Ended(Front(frames), Put(Front(buffers), b), Encoding(Top))
  BY DEF EndMap, SortedEnds, Ending, Owns
<1> HIDE DEF b
<1>2. Top \in Frames /\ Fits(Top) /\ Target = FlattenSeq(Top.given)
  BY <1>1, AtEnd
<1>3. Encoding(Top) = b /\ Encoding(Top) \in Seq(Bytes)
  BY <1>1, <1>2, MapWritten DEF b
<1> QED
  BY <1>1, <1>3, OwnedEnds

LEMMA StutterStep ==
  ASSUME WriterIInv, UNCHANGED vars
  PROVE  WriterIInv'
BY DEF vars, WriterIInv, TypeOK, Stack, Running, Faithful

LEMMA InitHolds == Init => WriterIInv
<1> SUFFICES ASSUME Init PROVE WriterIInv
  OBVIOUS
<1>1. frames = <<>> /\ buffers = Clean /\ mode \in Modes /\ tagged \in BOOLEAN
      /\ outcome = "running" /\ ideal = <<>>
  BY DEF Init
<1>2. Stack(frames) /\ frames \in Seq(Frames) /\ Len(frames) = 0
  BY <1>1, StackEmpty
<1>3. buffers = Layered(frames)
  BY <1>1, LayeredEmpty
<1>4. Cardinality({i \in 1..Len(frames) : Owns(frames[i])}) = 0
  <2>1. {i \in 1..Len(frames) : Owns(frames[i])} = {}
    BY <1>2
  <2> QED
    BY <2>1, FS_EmptySet
<1>5. buffers \in Seq(Seq(Bytes)) /\ Len(buffers) = 1
  BY <1>1 DEF Clean
<1>6. MaxNesting \in Nat /\ ideal \in Seq(Bytes)
  BY <1>1, WriterAssumption
<1>7. TypeOK
  BY <1>1, <1>2, <1>4, <1>5, <1>6 DEF TypeOK, Running
<1> QED
  BY <1>1, <1>2, <1>3, <1>7 DEF WriterIInv, Faithful, Running

LEMMA StepHolds ==
  ASSUME WriterIInv, [Next]_vars
  PROVE  WriterIInv'
<1>1. CASE Call
  BY <1>1, CallStep
<1>2. CASE Compound
  <2>1. CASE SerializeElement \/ SerializeKey \/ SerializeValue
    BY <2>1, AskStep
  <2>2. CASE OutOfTurn
    BY <2>2, FailureStep
  <2>3. CASE SerializeField
    BY <2>3, FieldStep
  <2>4. CASE SkipField
    BY <2>4, SkipFieldStep
  <2> QED
    BY <1>2, <2>1, <2>2, <2>3, <2>4 DEF Compound
<1>3. CASE Value
  <2>1. CASE Scalar \/ UnitVariant
    BY <2>1, LeafStep
  <2>2. CASE Collection("seq") \/ Collection("map") \/ Struct \/ Variant \/ Tagged
    BY <2>2, BeginStep
  <2>3. CASE StructVariant
    BY <2>3, StructVariantStep
  <2>4. CASE SerializeFails
    BY <2>4, FailureStep
  <2> QED
    BY <1>3, <2>1, <2>2, <2>3, <2>4 DEF Value
<1>4. CASE End
  <2>1. CASE EndDirect
    BY <2>1, EndDirectStep
  <2>2. CASE EndBuffered
    BY <2>2, EndBufferedStep
  <2>3. CASE KeyWithoutValue \/ DuplicateKey
    BY <2>3, FailureStep
  <2>4. CASE EndMap
    BY <2>4, EndMapStep
  <2>5. CASE VariantEnds
    BY <2>5, VariantEndsStep
  <2>6. CASE TaggedEnds
    BY <2>6, TaggedEndsStep
  <2> QED
    BY <1>4, <2>1, <2>2, <2>3, <2>4, <2>5, <2>6 DEF End
<1>5. CASE UNCHANGED vars
  BY <1>5, StutterStep
<1> QED
  BY <1>1, <1>2, <1>3, <1>4, <1>5 DEF Next

-----------------------------------------------------------------------------
(* The theorems.                                                            *)

(* In every reachable state the vectors hold the parts given to the values   *)
(* being written, layer upon layer, and a map has recorded where the keys    *)
(* and values it was given are (serde_codec.rs 1861-1999).                   *)
THEOREM WriterInvariant == Spec => []WriterIInv
<1>1. WriterIInv /\ [Next]_vars => WriterIInv'
  BY StepHolds
<1> QED
  BY <1>1, InitHolds, PTL DEF Spec

(* Every variable has its type, and there is a vector for every value that   *)
(* owns one (serde_codec.rs 1861-1886, 1540-1555, tag.rs 42).                *)
THEOREM TypeInvariant == Spec => []TypeOK
<1>1. WriterIInv => TypeOK
  BY DEF WriterIInv
<1> QED
  BY <1>1, WriterInvariant, PTL

(* After a call the vector holds the encoding of the value, the entries of   *)
(* its maps in the order of their keys, or nothing (serde_codec.rs 102-187). *)
THEOREM VectorHoldsTheValue == Spec => []Faithful
<1>1. WriterIInv => Faithful
  BY DEF WriterIInv
<1> QED
  BY <1>1, WriterInvariant, PTL

(* The offsets of a map delimit the keys and values it was given, in the     *)
(* vector where they are, whatever was written behind them (serialize_key,   *)
(* serialize_value, serde_codec.rs 1957-1999).                               *)
LEMMA OffsetsHold == WriterIInv => SpansExact
<1> SUFFICES ASSUME WriterIInv PROVE SpansExact
  OBVIOUS
<1> SUFFICES ASSUME NEW i \in 1..Len(frames), Sorting(frames[i])
             PROVE  LET f == frames[i]
                        arena == Own(i)
                        n == Len(f.entries)
                    IN  /\ \A j \in 1..n :
                             /\ KeyOf(arena, f.entries[j]) = f.given[2 * j - 1]
                             /\ ValueOf(arena, f.entries[j]) = f.given[2 * j]
                        /\ IF Len(f.span) < 2
                             THEN Len(f.given) = 2 * n
                             ELSE /\ Len(f.given) = 2 * n + 1
                                  /\ KeyOf(arena, f.span) = f.given[2 * n + 1]
  BY DEF SpansExact
<1>1. Running /\ Stack(frames) /\ buffers = Layered(frames)
  <2>1. CASE ~Running
    <3>1. frames = <<>>
      BY <2>1 DEF WriterIInv, TypeOK
    <3> QED
      BY <3>1
  <2> QED
    BY <2>1, AtRun
<1>2. PICK f : f = frames[i]
  OBVIOUS
<1>3. f \in Frames /\ EntriesFit(f) /\ SpansCut(f) /\ Sorting(f) /\ Owns(f)
  BY <1>1, <1>2 DEF Stack, Owns
<1>4. PICK parts \in Seq(Bytes) : parts = FlattenSeq(f.given)
  BY <1>3, PartialIsBytes
<1>5. PICK arena : arena = Own(i)
  OBVIOUS
<1>6. Begins(parts, arena)
  <2>1. Held(buffers, frames)
    BY <1>1, LayeredVectors
  <2>2. Own(i) = buffers[1 + Owning(frames, i)]
    BY DEF Own, Owning
  <2> QED
    BY <1>2, <1>3, <1>4, <1>5, <2>1, <2>2 DEF Held
<1>7. PICK rest \in Seq(Bytes) : arena = parts \o rest
  BY <1>6 DEF Begins
<1>8. f.given \in Seq(Seq(Bytes)) /\ f.entries \in Seq([1..4 -> Nat]) /\ f.span \in Seq(Nat)
  BY <1>3 DEF Frames
<1>9. PICK n \in Nat : n = Len(f.entries)
  BY <1>8, LengthIs
<1>10. PICK at \in Nat : at = Len(f.span)
  BY <1>8, LengthIs
<1>11. PICK c \in Nat : c = Len(f.given)
  BY <1>8, LengthIs
<1>12. Recorded(f, parts, n, at, c) /\ at <= 3
  BY <1>3, <1>4, <1>9, <1>10, <1>11, SpansCutIs
<1>13. ASSUME NEW j \in 1..n
       PROVE  /\ KeyOf(arena, f.entries[j]) = f.given[2 * j - 1]
              /\ ValueOf(arena, f.entries[j]) = f.given[2 * j]
  <2>1. Cuts(parts, f.entries[j], f.given[2 * j - 1], f.given[2 * j])
    BY <1>12 DEF Recorded
  <2>2. f.entries[j] \in [1..4 -> Nat]
    BY <1>8, <1>9
  <2>3. Cuts(arena, f.entries[j], f.given[2 * j - 1], f.given[2 * j])
    BY <1>7, <2>1, <2>2, CutsStay
  <2> QED
    BY <2>3 DEF Cuts
<1>14. CASE at < 2
  <2>1. c = 2 * n
    BY <1>12, <1>14 DEF Recorded
  <2> QED
    BY <1>2, <1>5, <1>9, <1>10, <1>11, <1>13, <1>14, <2>1
<1>15. CASE at \in {2, 3}
  <2>1. /\ c = 2 * n + 1
        /\ f.span[1] <= f.span[2] /\ f.span[2] = Len(parts)
        /\ KeyOf(parts, f.span) = f.given[2 * n + 1]
    BY <1>12, <1>15 DEF Recorded
  <2>2. PICK from \in Nat, to \in Nat : from = f.span[1] /\ to = f.span[2]
    <3>1. 1 \in 1..at /\ 2 \in 1..at
      BY <1>15
    <3>2. f.span[1] \in Nat /\ f.span[2] \in Nat
      BY SMTT(30), <1>8, <1>10, <3>1
    <3> QED
      BY <3>2
  <2>3. SubSeq(arena, from + 1, to) = SubSeq(parts, from + 1, to)
    <3>1. from <= to /\ to <= Len(parts)
      BY <2>1, <2>2
    <3> QED
      BY <1>7, <3>1, KeyStays
  <2>4. KeyOf(arena, f.span) = f.given[2 * n + 1]
    BY <2>1, <2>2, <2>3 DEF KeyOf
  <2>5. ~(at < 2)
    BY <1>15
  <2> QED
    BY <1>2, <1>5, <1>9, <1>10, <1>11, <1>13, <2>1, <2>4, <2>5
<1> QED
  BY <1>12, <1>14, <1>15

THEOREM OffsetsDelimit == Spec => []SpansExact
BY OffsetsHold, WriterInvariant, PTL

=============================================================================
