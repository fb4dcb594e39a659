---------------------------- MODULE Arrays_proofs ----------------------------
(***************************************************************************)
(* What is left of an array after a removal.  Without is a recursive       *)
(* function; what it computes is proved from the least element of a set of *)
(* naturals, which the well-foundedness of < provides.                     *)
(***************************************************************************)
EXTENDS Arrays, SequenceTheorems, WellFoundedInduction, TLAPS

(* A set of naturals with 0 and the successor of each member has them all. *)
LEMMA SetInduction ==
  ASSUME NEW Z \in SUBSET Nat, 0 \in Z, \A n \in Z : n + 1 \in Z
  PROVE  Nat = Z
<1> DEFINE R == {p \in Nat \X Nat : p[1] < p[2]}
<1>1. IsWellFoundedOn(R, Nat)
  BY NatLessThanWellFounded DEF OpToRel
<1>2. SUFFICES ASSUME Nat \ Z # {}
               PROVE  FALSE
  OBVIOUS
<1>3. PICK x \in Nat \ Z : \A y \in Nat \ Z : <<y, x>> \notin R
  <2>1. Nat \ Z \subseteq Nat
    OBVIOUS
  <2> HIDE DEF R
  <2>2. QED
    BY <1>1, <1>2, <2>1, WFMin
<1>4. x - 1 \in Nat /\ x - 1 < x
  OBVIOUS
<1>5. x - 1 \in Z
  BY <1>3, <1>4
<1>6. QED
  BY <1>4, <1>5

(* What an array holds, once an element or another array is put at an end. *)
LEMMA AppendSet ==
  ASSUME NEW S, NEW s \in Seq(S), NEW x \in S
  PROVE  ToSet(Append(s, x)) = ToSet(s) \cup {x}
<1> DEFINE t == Append(s, x)
<1>1. /\ Len(s) \in Nat /\ DOMAIN s = 1 .. Len(s) /\ DOMAIN t = 1 .. Len(s) + 1
      /\ t[Len(s) + 1] = x /\ \A i \in 1 .. Len(s) : t[i] = s[i]
  OBVIOUS
<1> HIDE DEF t
<1>2. DOMAIN t = DOMAIN s \cup {Len(s) + 1}
  BY <1>1
<1>3. QED
  BY <1>1, <1>2 DEF ToSet, t

LEMMA PrependSet ==
  ASSUME NEW S, NEW s \in Seq(S), NEW x \in S
  PROVE  << x >> \o s \in Seq(S) /\ ToSet(<< x >> \o s) = ToSet(s) \cup {x}
<1> DEFINE t == << x >> \o s
<1>1. /\ t \in Seq(S) /\ Len(s) \in Nat /\ DOMAIN s = 1 .. Len(s)
      /\ DOMAIN t = 1 .. Len(s) + 1 /\ t[1] = x /\ \A i \in 1 .. Len(s) : t[i + 1] = s[i]
  OBVIOUS
<1> HIDE DEF t
<1>2. ASSUME NEW y \in ToSet(t)
      PROVE  y \in ToSet(s) \cup {x}
  <2>1. PICK j \in 1 .. Len(s) + 1 : y = t[j]
    BY <1>1, <1>2 DEF ToSet
  <2>2. CASE j = 1
    BY <1>1, <2>1, <2>2
  <2>3. CASE j # 1
    <3>1. j - 1 \in 1 .. Len(s) /\ (j - 1) + 1 = j
      BY <1>1, <2>1, <2>3
    <3>2. t[j] = s[j - 1]
      BY <1>1, <3>1
    <3>3. QED
      BY <1>1, <2>1, <3>1, <3>2 DEF ToSet
  <2>4. QED
    BY <2>2, <2>3
<1>3. ASSUME NEW i \in DOMAIN s
      PROVE  s[i] \in ToSet(t)
  BY <1>1 DEF ToSet
<1>4. x \in ToSet(t)
  BY <1>1 DEF ToSet
<1>5. ToSet(t) = ToSet(s) \cup {x}
  BY <1>2, <1>3, <1>4 DEF ToSet
<1>6. QED
  BY <1>1, <1>5 DEF t

LEMMA ConcatSet ==
  ASSUME NEW S, NEW s \in Seq(S), NEW t \in Seq(S)
  PROVE  s \o t \in Seq(S) /\ ToSet(s \o t) = ToSet(s) \cup ToSet(t)
<1> DEFINE u == s \o t
<1>1. /\ u \in Seq(S) /\ Len(s) \in Nat /\ Len(t) \in Nat /\ DOMAIN s = 1 .. Len(s)
      /\ DOMAIN t = 1 .. Len(t) /\ DOMAIN u = 1 .. Len(s) + Len(t)
      /\ \A i \in 1 .. Len(s) : u[i] = s[i]
      /\ \A i \in 1 .. Len(t) : u[Len(s) + i] = t[i]
  OBVIOUS
<1> HIDE DEF u
<1>2. ASSUME NEW y \in ToSet(u)
      PROVE  y \in ToSet(s) \cup ToSet(t)
  <2>1. PICK j \in 1 .. Len(s) + Len(t) : y = u[j]
    BY <1>1, <1>2 DEF ToSet
  <2>2. CASE j <= Len(s)
    <3>1. j \in DOMAIN s /\ u[j] = s[j]
      BY <1>1, <2>1, <2>2
    <3>2. QED
      BY <2>1, <3>1 DEF ToSet
  <2>3. CASE j > Len(s)
    <3>1. j - Len(s) \in 1 .. Len(t) /\ Len(s) + (j - Len(s)) = j
      BY <1>1, <2>1, <2>3
    <3>2. u[j] = t[j - Len(s)]
      BY <1>1, <3>1
    <3>3. QED
      BY <1>1, <2>1, <3>1, <3>2 DEF ToSet
  <2>4. QED
    BY <1>1, <2>1, <2>2, <2>3
<1>3. ASSUME NEW i \in 1 .. Len(s)
      PROVE  s[i] \in ToSet(u)
  BY <1>1 DEF ToSet
<1>4. ASSUME NEW i \in 1 .. Len(t)
      PROVE  t[i] \in ToSet(u)
  <2>1. Len(s) + i \in DOMAIN u /\ u[Len(s) + i] = t[i]
    BY <1>1
  <2>2. QED
    BY <2>1 DEF ToSet
<1>5. ToSet(u) = ToSet(s) \cup ToSet(t)
  <2>1. ToSet(s) \subseteq ToSet(u)
    BY <1>3 DEF ToSet
  <2>2. ToSet(t) \subseteq ToSet(u)
    BY <1>4 DEF ToSet
  <2>3. QED
    BY <1>2, <2>1, <2>2, Zenon
<1>6. QED
  BY <1>1, <1>5 DEF u

(* The last element of an array, and the rest of it. *)
LEMMA FrontLastSet ==
  ASSUME NEW S, NEW s \in Seq(S), s # << >>
  PROVE  /\ Last(s) \in ToSet(s) /\ Last(s) \in S
         /\ Front(s) \in Seq(S) /\ ToSet(Front(s)) \subseteq ToSet(s)
         /\ ToSet(s) \subseteq ToSet(Front(s)) \cup {Last(s)}
<1>1. /\ Len(s) \in Nat /\ Len(s) > 0 /\ DOMAIN s = 1 .. Len(s)
      /\ \A i \in 1 .. Len(s) : s[i] \in S
  OBVIOUS
<1>2. Last(s) = s[Len(s)] /\ Len(s) \in DOMAIN s
  BY <1>1 DEF Last
<1>3. /\ Front(s) \in Seq(S) /\ DOMAIN Front(s) = 1 .. Len(s) - 1
      /\ \A i \in 1 .. Len(s) - 1 : Front(s)[i] = s[i]
  BY <1>1 DEF Front
<1>4. ASSUME NEW i \in 1 .. Len(s)
      PROVE  s[i] \in ToSet(Front(s)) \cup {Last(s)}
  <2>1. CASE i = Len(s)
    BY <1>2, <2>1
  <2>2. CASE i # Len(s)
    <3>1. \A n \in Nat : \A j \in 1 .. n : j # n => j \in 1 .. n - 1
      OBVIOUS
    <3>2. i \in 1 .. Len(s) - 1
      BY <1>1, <2>2, <3>1
    <3>3. QED
      BY <1>3, <3>2 DEF ToSet
  <2>3. QED
    BY <2>1, <2>2
<1>5. ToSet(s) \subseteq ToSet(Front(s)) \cup {Last(s)}
  BY <1>1, <1>4 DEF ToSet
<1>6. ToSet(Front(s)) \subseteq ToSet(s)
  <2>1. \A i \in 1 .. Len(s) - 1 : i \in DOMAIN s
    BY <1>1
  <2>2. QED
    BY <1>3, <2>1 DEF ToSet
<1>7. QED
  BY <1>1, <1>2, <1>3, <1>5, <1>6 DEF ToSet

(* One element of the recursion, given the function so far. *)
Kept(s, e, f, i) ==
  IF i = 0 THEN << >> ELSE IF s[i] = e THEN f[i - 1] ELSE Append(f[i - 1], s[i])

(* The recursion of Without has a solution. *)
LEMMA RestExists ==
  ASSUME NEW s, NEW e, NEW n \in Nat
  PROVE  \E f : f = [i \in 0 .. n |-> Kept(s, e, f, i)]
<1> DEFINE Z == {k \in Nat : \E f : f = [i \in 0 .. k |-> Kept(s, e, f, i)]}
<1>1. 0 \in Z
  <2> DEFINE f == [i \in 0 .. 0 |-> << >>]
  <2>1. f = [i \in 0 .. 0 |-> Kept(s, e, f, i)]
    BY DEF Kept
  <2> HIDE DEF f
  <2>2. QED
    BY <2>1
<1>2. ASSUME NEW k \in Z
      PROVE  k + 1 \in Z
  <2>1. PICK f : f = [i \in 0 .. k |-> Kept(s, e, f, i)]
    BY <1>2
  <2> DEFINE g == [i \in 0 .. k + 1 |-> IF i \in 0 .. k THEN f[i] ELSE Kept(s, e, f, i)]
  <2>2. k \in Nat
    BY <1>2
  <2>3. ASSUME NEW i \in 0 .. k + 1
        PROVE  g[i] = Kept(s, e, g, i)
    <3>1. i # 0 => i - 1 \in 0 .. k
      BY <2>2
    <3>2. i # 0 => g[i - 1] = f[i - 1]
      BY <2>2, <3>1
    <3>3. i \in 0 .. k => f[i] = Kept(s, e, f, i)
      BY <2>1
    <3>4. Kept(s, e, g, i) = Kept(s, e, f, i)
      <4> HIDE DEF g
      <4>1. QED
        BY <3>2 DEF Kept
    <3>5. QED
      BY <3>3, <3>4
  <2>4. g = [i \in 0 .. k + 1 |-> Kept(s, e, g, i)]
    <3>1. g = [i \in 0 .. k + 1 |-> g[i]]
      OBVIOUS
    <3> HIDE DEF g
    <3>2. QED
      BY <2>3, <3>1
  <2> HIDE DEF g
  <2>5. QED
    BY <2>2, <2>4
<1>3. Z \in SUBSET Nat
  OBVIOUS
<1> HIDE DEF Z
<1>4. n \in Z
  BY <1>1, <1>2, <1>3, SetInduction
<1>5. QED
  BY <1>4 DEF Z

(* What a removal leaves is an array of the same kind, and every element   *)
(* but the removed one.                                                    *)
THEOREM WithoutRange ==
  ASSUME NEW S, NEW s \in Seq(S), NEW e
  PROVE  Without(s, e) \in Seq(S) /\ ToSet(Without(s, e)) = ToSet(s) \ {e}
<1> DEFINE n == Len(s)
           rest == CHOOSE f : f = [i \in 0 .. n |-> Kept(s, e, f, i)]
           Y == {k \in Nat : k <= n =>
                   rest[k] \in Seq(S) /\ ToSet(rest[k]) = {s[i] : i \in 1 .. k} \ {e}}
<1>1. n \in Nat /\ DOMAIN s = 1 .. n /\ \A i \in 1 .. n : s[i] \in S
  OBVIOUS
<1>2. rest = [i \in 0 .. n |-> Kept(s, e, rest, i)]
  BY <1>1, RestExists
<1>3. Without(s, e) = rest[n]
  BY DEF Without, Kept
<1> HIDE DEF rest
<1>4. \A i \in 0 .. n : rest[i] = Kept(s, e, rest, i)
  BY <1>2
<1>5. 0 \in Y
  <2>1. rest[0] = << >>
    BY <1>1, <1>4 DEF Kept
  <2>2. ToSet(<< >>) = {} /\ {s[i] : i \in 1 .. 0} = {} /\ << >> \in Seq(S)
    BY DEF ToSet
  <2>3. QED
    BY <2>1, <2>2
<1>6. ASSUME NEW k \in Y
      PROVE  k + 1 \in Y
  <2> SUFFICES ASSUME k + 1 <= n
               PROVE  /\ rest[k + 1] \in Seq(S)
                      /\ ToSet(rest[k + 1]) = {s[i] : i \in 1 .. k + 1} \ {e}
    BY <1>6
  <2>1. k \in Nat /\ k <= n /\ k + 1 \in 1 .. n /\ k + 1 # 0 /\ (k + 1) - 1 = k
    BY <1>1, <1>6
  <2>2. rest[k] \in Seq(S) /\ ToSet(rest[k]) = {s[i] : i \in 1 .. k} \ {e}
    BY <1>6, <2>1
  <2>3. rest[k + 1] = IF s[k + 1] = e THEN rest[k] ELSE Append(rest[k], s[k + 1])
    BY <1>4, <2>1 DEF Kept
  <2>4. {s[i] : i \in 1 .. k + 1} = {s[i] : i \in 1 .. k} \cup {s[k + 1]}
    <3>1. 1 .. k + 1 = 1 .. k \cup {k + 1}
      BY <2>1
    <3>2. QED
      BY <3>1
  <2>5. CASE s[k + 1] = e
    BY <2>2, <2>3, <2>4, <2>5
  <2>6. CASE s[k + 1] # e
    <3>1. rest[k + 1] = Append(rest[k], s[k + 1]) /\ s[k + 1] \in S
      BY <1>1, <2>1, <2>3, <2>6
    <3>2. rest[k + 1] \in Seq(S)
      BY <2>2, <3>1
    <3>3. ToSet(rest[k + 1]) = ToSet(rest[k]) \cup {s[k + 1]}
      BY <2>2, <3>1, AppendSet
    <3>4. QED
      BY <2>2, <2>4, <2>6, <3>2, <3>3
  <2>7. QED
    BY <2>5, <2>6
<1>7. n \in Y
  <2> HIDE DEF n
  <2>1. Y \in SUBSET Nat
    OBVIOUS
  <2> HIDE DEF Y
  <2>2. QED
    BY <1>1, <1>5, <1>6, <2>1, SetInduction
<1>8. ToSet(s) = {s[i] : i \in 1 .. n}
  BY <1>1 DEF ToSet
<1>9. QED
  BY <1>1, <1>3, <1>7, <1>8

Solves(f, D, b, base, tail, pred) ==
  f = [n \in D |-> IF n < b THEN base[n] ELSE f[pred[n]] \o tail[n]]

(* A function on numbers whose values, but for the first ones, extend the  *)
(* value at an earlier number: there is one, and its values are arrays.    *)
LEMMA RecursionExists ==
  ASSUME NEW S, NEW D \in SUBSET Nat, NEW b \in Nat \ {0}, NEW base \in [D -> Seq(S)],
         NEW tail \in [D -> Seq(S)], NEW pred \in [D -> Nat],
         \A n \in D : n >= b => pred[n] \in D /\ pred[n] < n
  PROVE  /\ \E f : Solves(f, D, b, base, tail, pred)
         /\ \A f : Solves(f, D, b, base, tail, pred) => f \in [D -> Seq(S)]
<1> DEFINE upTo(k) == {i \in D : i <= k}
           value(g, i) == IF i < b THEN base[i] ELSE g[pred[i]] \o tail[i]
           Good(g, k) == \A i \in upTo(k) : g[i] = value(g, i)
<1>1. \A k \in Nat : \E g \in [upTo(k) -> Seq(S)] : Good(g, k)
  <2> DEFINE Z == {k \in Nat : \E g \in [upTo(k) -> Seq(S)] : Good(g, k)}
  <2>1. 0 \in Z
    <3> DEFINE g == [i \in upTo(0) |-> base[i]]
    <3>1. g \in [upTo(0) -> Seq(S)] /\ Good(g, 0)
      <4>1. \A i \in upTo(0) : i \in D /\ i < b /\ g[i] = base[i]
        OBVIOUS
      <4>2. g \in [upTo(0) -> Seq(S)]
        OBVIOUS
      <4>3. Good(g, 0)
        BY <4>1
      <4>4. QED
        BY <4>2, <4>3
    <3> HIDE DEF g, Good
    <3>2. QED
      BY <3>1
  <2>2. ASSUME NEW k \in Z PROVE k + 1 \in Z
    <3>1. k \in Nat
      OBVIOUS
    <3>2. PICK g \in [upTo(k) -> Seq(S)] : Good(g, k)
      OBVIOUS
    <3> DEFINE h == [i \in upTo(k + 1) |-> IF i <= k THEN g[i] ELSE value(g, i)]
    <3>3. ASSUME NEW i \in upTo(k + 1)
          PROVE  h[i] \in Seq(S) /\ h[i] = value(h, i)
      <4>1. i \in D /\ (i >= b => pred[i] \in upTo(k) /\ h[pred[i]] = g[pred[i]])
        BY <3>1
      <4>2. value(h, i) = value(g, i)
        <5> HIDE DEF h
        <5>1. QED
          BY <4>1
      <4>3. h[i] = value(g, i)
        BY <3>2, <4>1
      <4>4. value(g, i) \in Seq(S)
        <5>1. i >= b => g[pred[i]] \in Seq(S)
          BY <4>1
        <5>2. base[i] \in Seq(S) /\ tail[i] \in Seq(S)
          BY <4>1
        <5>3. QED
          BY <4>1, <5>1, <5>2
      <4> HIDE DEF value, h
      <4>5. QED
        BY <4>2, <4>3, <4>4
    <3>4. h = [i \in upTo(k + 1) |-> h[i]]
      OBVIOUS
    <3> HIDE DEF h, value, upTo
    <3>5. h \in [upTo(k + 1) -> Seq(S)] /\ Good(h, k + 1)
      BY <3>3, <3>4
    <3>6. QED
      BY <3>1, <3>5
  <2>3. Z \in SUBSET Nat
    OBVIOUS
  <2> HIDE DEF Z
  <2>4. Nat = Z
    BY <2>1, <2>2, <2>3, SetInduction
  <2>5. QED
    BY <2>4 DEF Z
<1>2. \A k \in Nat : \A g, h : Good(g, k) /\ Good(h, k) => \A i \in upTo(k) : g[i] = h[i]
  <2> DEFINE Y == {k \in Nat :
                     \A g, h : Good(g, k) /\ Good(h, k) => \A i \in upTo(k) : g[i] = h[i]}
  <2>1. 0 \in Y
    <3> SUFFICES ASSUME NEW g, NEW h, Good(g, 0), Good(h, 0), NEW i \in upTo(0)
                 PROVE  g[i] = h[i]
      OBVIOUS
    <3>1. i < b /\ g[i] = value(g, i) /\ h[i] = value(h, i)
      <4>1. i < b /\ i \in upTo(0)
        OBVIOUS
      <4> HIDE DEF upTo, value
      <4>2. QED
        BY <4>1
    <3>2. g[i] = base[i] /\ h[i] = base[i]
      BY <3>1
    <3>3. QED
      BY <3>2
  <2>2. ASSUME NEW k \in Y PROVE k + 1 \in Y
    <3>1. k \in Nat
      OBVIOUS
    <3>2. SUFFICES ASSUME NEW g, NEW h, Good(g, k + 1), Good(h, k + 1), NEW i \in upTo(k + 1)
                   PROVE  g[i] = h[i]
      BY <3>1
    <3>3. Good(g, k) /\ Good(h, k)
      <4>1. \A j \in D : j <= k => j <= k + 1
        <5>1. \A j \in Nat : j <= k => j <= k + 1
          BY <3>1
        <5>2. QED
          BY <5>1
      <4>2. upTo(k) \subseteq upTo(k + 1)
        BY <4>1
      <4> HIDE DEF upTo, value
      <4>3. QED
        BY <3>2, <4>2
    <3>4. \A j \in upTo(k) : g[j] = h[j]
      <4> HIDE DEF Good, upTo
      <4>1. QED
        BY <3>3
    <3>5. i \in D /\ (i >= b => pred[i] \in upTo(k)) /\ i \in Nat
      BY <3>1
    <3>6. g[i] = value(g, i) /\ h[i] = value(h, i)
      BY <3>2
    <3>7. i >= b => g[pred[i]] = h[pred[i]]
      BY <3>4, <3>5
    <3>8. value(g, i) = value(h, i)
      BY <3>5, <3>7
    <3> HIDE DEF value
    <3>9. QED
      BY <3>6, <3>8
  <2>3. Y \in SUBSET Nat
    OBVIOUS
  <2> HIDE DEF Y
  <2>4. Nat = Y
    BY <2>1, <2>2, <2>3, SetInduction
  <2>5. QED
    BY <2>4 DEF Y
<1> DEFINE at(k) == CHOOSE g : g \in [upTo(k) -> Seq(S)] /\ Good(g, k)
           f == [n \in D |-> at(n)[n]]
<1>3. ASSUME NEW k \in Nat PROVE at(k) \in [upTo(k) -> Seq(S)] /\ Good(at(k), k)
  <2>1. \E g : g \in [upTo(k) -> Seq(S)] /\ Good(g, k)
    BY <1>1
  <2> HIDE DEF Good, upTo
  <2>2. QED
    BY <2>1
<1> HIDE DEF at
<1>4. ASSUME NEW n \in D
      PROVE  f[n] \in Seq(S) /\ f[n] = value(f, n)
  <2>1. n \in Nat /\ n \in upTo(n)
    OBVIOUS
  <2>2. f[n] \in Seq(S) /\ f[n] = value(at(n), n)
    BY <1>3, <2>1
  <2>3. n >= b => f[pred[n]] = at(n)[pred[n]]
    <3> SUFFICES ASSUME n >= b PROVE at(pred[n])[pred[n]] = at(n)[pred[n]]
      OBVIOUS
    <3>1. pred[n] \in D /\ pred[n] \in Nat /\ pred[n] < n /\ pred[n] \in upTo(pred[n])
      BY <2>1
    <3>2. Good(at(n), n) /\ Good(at(pred[n]), pred[n])
      <4> HIDE DEF Good
      <4>1. QED
        BY <1>3, <2>1, <3>1
    <3>3. Good(at(n), pred[n])
      BY <2>1, <3>1, <3>2
    <3> HIDE DEF Good, upTo
    <3>4. QED
      BY <1>2, <3>1, <3>2, <3>3
  <2>4. value(f, n) = value(at(n), n)
    <3> HIDE DEF f
    <3>1. QED
      BY <2>1, <2>3
  <2> HIDE DEF f, value
  <2>5. QED
    BY <2>2, <2>4
<1>5. f = [n \in D |-> f[n]]
  OBVIOUS
<1> HIDE DEF f
<1>6. f \in [D -> Seq(S)] /\ f = [n \in D |-> value(f, n)]
  <2> HIDE DEF value
  <2>1. QED
    BY <1>4, <1>5
<1>7. ASSUME NEW e, e = [n \in D |-> value(e, n)]
      PROVE  e \in [D -> Seq(S)]
  <2>1. ASSUME NEW n \in D PROVE e[n] \in Seq(S)
    <3>1. n \in Nat /\ n \in upTo(n)
      OBVIOUS
    <3>2. \A i \in D : e[i] = value(e, i) /\ f[i] = value(f, i)
      <4> HIDE DEF value
      <4>1. \A i \in D : e[i] = value(e, i)
        BY <1>7
      <4>2. QED
        BY <4>1, <1>4
    <3>3. Good(e, n) /\ Good(f, n)
      <4> HIDE DEF value
      <4>1. QED
        BY <3>2
    <3>4. e[n] = f[n]
      <4> HIDE DEF Good, upTo
      <4>1. QED
        BY <1>2, <3>1, <3>3
    <3>5. QED
      BY <3>4, <1>6
  <2>2. e = [n \in D |-> e[n]]
    <3> HIDE DEF value
    <3>1. QED
      BY <1>7
  <2>3. QED
    BY <2>1, <2>2
<1>8. \A e : Solves(e, D, b, base, tail, pred) <=> e = [n \in D |-> value(e, n)]
  BY DEF Solves
<1> HIDE DEF value
<1>9. QED
  BY <1>6, <1>7, <1>8
=============================================================================
