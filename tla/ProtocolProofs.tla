--------------------------- MODULE ProtocolProofs ---------------------------
(***************************************************************************)
(* Theorems about Protocol, for every base and width of the fields, every  *)
(* set of messages and every depth of the FIFO.                            *)
(***************************************************************************)
EXTENDS Protocol, SequenceTheorems, WellFoundedInduction, TLAPS

----------------------------------------------------------------------------
(* Integers as letters.  The library's induction schemes cannot be         *)
(* instantiated here; that the order of the naturals is well-founded is    *)
(* enough for induction over a set.                                        *)

LEMMA SetInduction ==
    ASSUME NEW S, 0 \in S, \A n \in Nat : n \in S => n + 1 \in S
    PROVE  Nat \subseteq S
<1> SUFFICES ASSUME Nat \ S # {} PROVE FALSE
  OBVIOUS
<1>1. PICK x \in Nat \ S : \A y \in Nat \ S : ~ (<<y, x>> \in OpToRel(<, Nat))
  <2>1. IsWellFoundedOn(OpToRel(<, Nat), Nat)
    BY NatLessThanWellFounded
  <2>2. Nat \ S \subseteq Nat
    OBVIOUS
  <2> HIDE DEF OpToRel
  <2> QED BY <2>1, <2>2, WFMin
<1>2. \A y \in Nat \ S : ~(y < x)
  BY <1>1 DEF OpToRel
<1>3. x # 0 /\ x - 1 \in Nat /\ x - 1 < x
  BY <1>2
<1> QED BY <1>2, <1>3

\* The recursion of the place values has a solution: one for each bound of the
\* places, and these agree.
Solves(g, k) ==
    /\ DOMAIN g = 0..k
    /\ g[0] = 1
    /\ \A i \in 1..k : g[i] = BASE * g[i - 1]

LEMMA Solvable == \A k \in Nat : \E g : Solves(g, k)
<1> DEFINE S == {k \in Nat : \E g : Solves(g, k)}
<1>1. 0 \in S
  <2>1. Solves([i \in 0..0 |-> 1], 0)
    BY DEF Solves
  <2> QED BY <2>1
<1>2. ASSUME NEW k \in Nat, k \in S PROVE k + 1 \in S
  <2>1. PICK g : Solves(g, k)
    BY <1>2
  <2> DEFINE h == [i \in 0..(k + 1) |-> IF i = k + 1 THEN BASE * g[k] ELSE g[i]]
  <2>2. Solves(h, k + 1)
    <3>1. h[0] = 1
      BY <2>1 DEF Solves
    <3>2. ASSUME NEW i \in 1..(k + 1) PROVE h[i] = BASE * h[i - 1]
      <4>1. i \in 0..(k + 1) /\ i - 1 \in 0..k /\ i - 1 \in 0..(k + 1) /\ i - 1 # k + 1
        OBVIOUS
      <4>2. h[i - 1] = g[i - 1]
        BY <4>1
      <4>3. CASE i = k + 1
        BY <4>1, <4>2, <4>3
      <4>4. CASE i # k + 1
        BY <2>1, <4>1, <4>2, <4>4 DEF Solves
      <4> QED BY <4>3, <4>4
    <3> QED BY <3>1, <3>2 DEF Solves
  <2> QED BY <2>2
<1> HIDE DEF S
<1>3. Nat \subseteq S
  BY <1>1, <1>2, SetInduction
<1> QED BY <1>3 DEF S

LEMMA SolutionsAgree ==
    ASSUME NEW g, NEW h, NEW k \in Nat, NEW l \in Nat, Solves(g, k), Solves(h, l)
    PROVE  \A i \in Nat : i \in 0..k /\ i \in 0..l => g[i] = h[i]
<1> DEFINE S == {i \in Nat : i \in 0..k /\ i \in 0..l => g[i] = h[i]}
<1>1. 0 \in S
  BY DEF Solves
<1>2. ASSUME NEW i \in Nat, i \in S PROVE i + 1 \in S
  <2> SUFFICES ASSUME i + 1 \in 0..k, i + 1 \in 0..l PROVE g[i + 1] = h[i + 1]
    OBVIOUS
  <2>1. g[i] = h[i]
    BY <1>2
  <2>2. i + 1 \in 1..k /\ i + 1 \in 1..l /\ (i + 1) - 1 = i
    OBVIOUS
  <2>3. g[i + 1] = BASE * g[i] /\ h[i + 1] = BASE * h[i]
    BY <2>2 DEF Solves
  <2> QED BY <2>1, <2>3
<1> HIDE DEF S
<1>3. Nat \subseteq S
  BY <1>1, <1>2, SetInduction
<1> QED BY <1>3 DEF S

LEMMA PlaceValueDef ==
    PlaceValue = [i \in Nat |-> IF i = 0 THEN 1 ELSE BASE * PlaceValue[i - 1]]
<1> DEFINE G(k) == CHOOSE g : Solves(g, k)
           p == [i \in Nat |-> G(i)[i]]
<1>1. \A k \in Nat : Solves(G(k), k)
  BY Solvable
<1>2. p = [i \in Nat |-> IF i = 0 THEN 1 ELSE BASE * p[i - 1]]
  <2>1. p[0] = 1
    BY <1>1 DEF Solves
  <2>2. ASSUME NEW i \in Nat, i # 0 PROVE p[i] = BASE * p[i - 1]
    <3>1. i \in 1..i /\ i - 1 \in Nat /\ i - 1 \in 0..(i - 1) /\ i - 1 \in 0..i
      BY <2>2
    <3>2. Solves(G(i), i) /\ Solves(G(i - 1), i - 1)
      BY <1>1, <3>1
    <3> HIDE DEF G
    <3>3. G(i)[i] = BASE * G(i)[i - 1]
      BY <3>1, <3>2 DEF Solves
    <3>4. G(i)[i - 1] = G(i - 1)[i - 1]
      BY <3>1, <3>2, SolutionsAgree
    <3> QED BY <3>1, <3>3, <3>4
  <2> HIDE DEF G
  <2>3. \A i \in Nat : p[i] = IF i = 0 THEN 1 ELSE BASE * p[i - 1]
    BY <2>1, <2>2
  <2>4. p = [i \in Nat |-> p[i]]
    OBVIOUS
  <2> HIDE DEF p
  <2> QED BY <2>3, <2>4, Zenon
<1> HIDE DEF p
<1> QED BY <1>2 DEF PlaceValue

LEMMA ProductPositive == \A b, q \in Nat \ {0} : b * q \in Nat \ {0}
  OBVIOUS

LEMMA PlaceValues ==
    /\ PlaceValue[0] = 1
    /\ \A i \in Nat : PlaceValue[i + 1] = BASE * PlaceValue[i]
    /\ \A i \in Nat : PlaceValue[i] \in Nat \ {0}
<1>1. PlaceValue[0] = 1
  BY PlaceValueDef
<1>2. ASSUME NEW i \in Nat PROVE PlaceValue[i + 1] = BASE * PlaceValue[i]
  <2>1. i + 1 \in Nat /\ i + 1 # 0 /\ (i + 1) - 1 = i
    OBVIOUS
  <2> QED BY <2>1, PlaceValueDef
<1> DEFINE S == {i \in Nat : PlaceValue[i] \in Nat \ {0}}
<1>3. 0 \in S
  BY <1>1
<1>4. ASSUME NEW i \in Nat, i \in S PROVE i + 1 \in S
  <2>1. BASE \in Nat \ {0} /\ PlaceValue[i] \in Nat \ {0}
    BY <1>4, ProtocolAssumption
  <2> QED BY <1>2, <2>1, ProductPositive
<1> HIDE DEF S
<1>5. Nat \subseteq S
  BY <1>3, <1>4, SetInduction
<1> QED BY <1>1, <1>2, <1>5 DEF S

----------------------------------------------------------------------------
(* Division *)

LEMMA DivMod ==
    ASSUME NEW n \in Nat, NEW b \in Nat \ {0}
    PROVE  n \div b \in Nat /\ n % b \in 0..(b - 1) /\ n = b * (n \div b) + (n % b)
  OBVIOUS

LEMMA QuotientUnique ==
    ASSUME NEW b \in Nat \ {0}, NEW q \in Nat, NEW r \in 0..(b - 1),
           NEW p \in Nat, NEW s \in 0..(b - 1), b * q + r = b * p + s
    PROVE  q = p /\ r = s
<1>1. b * (q - p) = s - r /\ s - r < b /\ s - r > -b
  OBVIOUS
<1>2. ASSUME q - p >= 1 PROVE FALSE
  <2>1. b * (q - p) >= b * 1
    BY <1>2
  <2> QED BY <1>1, <2>1
<1>3. ASSUME q - p <= -1 PROVE FALSE
  <2>1. b * (q - p) <= b * (-1)
    BY <1>3
  <2> QED BY <1>1, <2>1
<1>4. q = p
  BY <1>2, <1>3
<1> QED BY <1>1, <1>4

LEMMA Quotient ==
    ASSUME NEW b \in Nat \ {0}, NEW q \in Nat, NEW r \in 0..(b - 1)
    PROVE  (b * q + r) \div b = q /\ (b * q + r) % b = r
<1> DEFINE n == b * q + r
<1>1. n \in Nat
  OBVIOUS
<1> HIDE DEF n
<1>2. /\ n \div b \in Nat /\ n % b \in 0..(b - 1)
      /\ n = b * (n \div b) + (n % b)
  BY <1>1, DivMod
<1> QED BY <1>2, QuotientUnique DEF n

LEMMA DivideTwice ==
    ASSUME NEW n \in Nat, NEW b \in Nat \ {0}, NEW c \in Nat \ {0}
    PROVE  n \div (b * c) = (n \div b) \div c
<1> DEFINE m == n \div b
           q == m \div c
           r == b * (m % c) + (n % b)
<1>1. m \in Nat /\ n % b \in 0..(b - 1) /\ n = b * m + (n % b)
  BY DivMod
<1> HIDE DEF m
<1>2. q \in Nat /\ m % c \in 0..(c - 1) /\ m = c * q + (m % c)
  BY <1>1, DivMod
<1> HIDE DEF q
<1>3. n = b * (c * q + (m % c)) + (n % b)
  BY <1>1, <1>2
<1>4. n = (b * c) * q + r
  BY <1>1, <1>2, <1>3
<1>5. r \in 0..(b * c - 1)
  <2>1. b * (m % c) <= b * (c - 1)
    BY <1>2
  <2>2. b * (m % c) \in Nat
    BY <1>2
  <2> QED BY <1>1, <1>2, <2>1, <2>2
<1> HIDE DEF r
<1>6. b * c \in Nat \ {0}
  BY ProductPositive
<1>7. ((b * c) * q + r) \div (b * c) = q
  BY <1>2, <1>5, <1>6, Quotient
<1> QED BY <1>4, <1>7 DEF q, m

----------------------------------------------------------------------------
(* Representations *)

LEMMA EncodedType ==
    ASSUME NEW n \in Nat, NEW w \in Nat
    PROVE  Encoded(n, w) \in [1..w -> Letters]
<1> SUFFICES ASSUME NEW i \in 1..w PROVE (n \div PlaceValue[i - 1]) % BASE \in Letters
  BY DEF Encoded
<1>1. PlaceValue[i - 1] \in Nat \ {0} /\ BASE \in Nat \ {0}
  BY PlaceValues, ProtocolAssumption
<1>2. n \div PlaceValue[i - 1] \in Nat
  BY <1>1, DivMod
<1> QED BY <1>1, <1>2, DivMod DEF Letters

\* The first letter is the remainder, the others represent the quotient.
LEMMA EncodedStep ==
    ASSUME NEW n \in Nat, NEW w \in Nat
    PROVE  /\ Encoded(n, w + 1)[1] = n % BASE
           /\ \A i \in 1..w : Encoded(n, w + 1)[i + 1] = Encoded(n \div BASE, w)[i]
<1>1. BASE \in Nat \ {0}
  BY ProtocolAssumption
<1>2. Encoded(n, w + 1)[1] = n % BASE
  <2>1. 1 \in 1..(w + 1) /\ 1 - 1 = 0 /\ n \div 1 = n
    OBVIOUS
  <2> QED BY <2>1, PlaceValues DEF Encoded
<1>3. ASSUME NEW i \in 1..w PROVE Encoded(n, w + 1)[i + 1] = Encoded(n \div BASE, w)[i]
  <2>1. i + 1 \in 1..(w + 1) /\ (i + 1) - 1 = (i - 1) + 1 /\ i - 1 \in Nat
    OBVIOUS
  <2>2. PlaceValue[(i - 1) + 1] = BASE * PlaceValue[i - 1] /\ PlaceValue[i - 1] \in Nat \ {0}
    BY <2>1, PlaceValues
  <2>3. n \div PlaceValue[(i + 1) - 1] = (n \div BASE) \div PlaceValue[i - 1]
    BY <1>1, <2>1, <2>2, DivideTwice
  <2>4. Encoded(n, w + 1)[i + 1] = (n \div PlaceValue[(i + 1) - 1]) % BASE
    BY <2>1 DEF Encoded
  <2>5. Encoded(n \div BASE, w)[i] = ((n \div BASE) \div PlaceValue[i - 1]) % BASE
    BY DEF Encoded
  <2> QED BY <2>3, <2>4, <2>5, Zenon
<1> QED BY <1>2, <1>3

LEMMA QuotientFits ==
    ASSUME NEW w \in Nat, NEW n \in 0..(PlaceValue[w + 1] - 1)
    PROVE  n \div BASE \in 0..(PlaceValue[w] - 1)
<1>1. BASE \in Nat \ {0} /\ PlaceValue[w] \in Nat \ {0} /\ PlaceValue[w + 1] = BASE * PlaceValue[w]
  BY PlaceValues, ProtocolAssumption
<1>2. n \in Nat /\ n < BASE * PlaceValue[w]
  <2>1. BASE * PlaceValue[w] \in Nat
    BY <1>1, ProductPositive
  <2> QED BY <1>1, <2>1
<1>3. n \div BASE \in Nat /\ n = BASE * (n \div BASE) + (n % BASE) /\ n % BASE \in 0..(BASE - 1)
  BY <1>1, <1>2, DivMod
<1>4. ASSUME NEW b \in Nat \ {0}, NEW p \in Nat \ {0}, NEW q \in Nat, NEW r \in Nat,
             b * q + r < b * p
      PROVE  q < p
  <2>1. ASSUME q >= p PROVE FALSE
    <3>1. b * q >= b * p
      BY <2>1
    <3> QED BY <1>4, <3>1
  <2> QED BY <2>1
<1>5. n \div BASE < PlaceValue[w]
  BY <1>1, <1>2, <1>3, <1>4
<1> QED BY <1>1, <1>3, <1>5

\* No two numbers that fit have the same representation,
LEMMA EncodedInjective ==
    \A w \in Nat : \A n, m \in 0..(PlaceValue[w] - 1) :
        Encoded(n, w) = Encoded(m, w) => n = m
<1> DEFINE S == {w \in Nat : \A n, m \in 0..(PlaceValue[w] - 1) :
                                Encoded(n, w) = Encoded(m, w) => n = m}
<1>1. 0 \in S
  BY PlaceValues
<1>2. ASSUME NEW w \in Nat, w \in S PROVE w + 1 \in S
  <2> SUFFICES ASSUME NEW n \in 0..(PlaceValue[w + 1] - 1), NEW m \in 0..(PlaceValue[w + 1] - 1),
                      Encoded(n, w + 1) = Encoded(m, w + 1)
               PROVE  n = m
    OBVIOUS
  <2>1. n \in Nat /\ m \in Nat
    BY PlaceValues
  <2>2. n % BASE = m % BASE
    <3>1. Encoded(n, w + 1)[1] = n % BASE
      BY <2>1, EncodedStep
    <3>2. Encoded(m, w + 1)[1] = m % BASE
      BY <2>1, EncodedStep
    <3> QED BY <3>1, <3>2, Zenon
  <2>3. n \div BASE \in 0..(PlaceValue[w] - 1) /\ m \div BASE \in 0..(PlaceValue[w] - 1)
    BY QuotientFits
  <2>4. Encoded(n \div BASE, w) = Encoded(m \div BASE, w)
    <3>1. \A i \in 1..w : Encoded(n \div BASE, w)[i] = Encoded(m \div BASE, w)[i]
      <4>1. \A i \in 1..w : Encoded(n, w + 1)[i + 1] = Encoded(n \div BASE, w)[i]
        BY <2>1, EncodedStep
      <4>2. \A i \in 1..w : Encoded(m, w + 1)[i + 1] = Encoded(m \div BASE, w)[i]
        BY <2>1, EncodedStep
      <4> QED BY <4>1, <4>2, Zenon
    <3>2. n \div BASE \in Nat /\ m \div BASE \in Nat
      BY <2>3, PlaceValues
    <3>3. /\ Encoded(n \div BASE, w) \in [1..w -> Letters]
          /\ Encoded(m \div BASE, w) \in [1..w -> Letters]
      BY <3>2, EncodedType
    <3> QED BY <3>1, <3>3
  <2>5. n \div BASE = m \div BASE
    BY <1>2, <2>3, <2>4
  <2>6. n = BASE * (n \div BASE) + (n % BASE) /\ m = BASE * (m \div BASE) + (m % BASE)
    BY <2>1, DivMod, ProtocolAssumption
  <2> QED BY <2>2, <2>5, <2>6, Zenon
<1> HIDE DEF S
<1>3. Nat \subseteq S
  BY <1>1, <1>2, SetInduction
<1> QED BY <1>3 DEF S

\* and any letters are the representation of one.
LEMMA EncodedSurjective ==
    \A w \in Nat : \A letters \in [1..w -> Letters] :
        \E n \in 0..(PlaceValue[w] - 1) : Encoded(n, w) = letters
<1> DEFINE S == {w \in Nat : \A letters \in [1..w -> Letters] :
                                \E n \in 0..(PlaceValue[w] - 1) : Encoded(n, w) = letters}
<1>1. 0 \in S
  <2> SUFFICES ASSUME NEW letters \in [1..0 -> Letters]
               PROVE  \E n \in 0..(PlaceValue[0] - 1) : Encoded(n, 0) = letters
    OBVIOUS
  <2>1. 0 \in 0..(PlaceValue[0] - 1)
    BY PlaceValues
  <2>2. Encoded(0, 0) \in [1..0 -> Letters]
    BY EncodedType
  <2>3. Encoded(0, 0) = letters
    BY <2>2
  <2> QED BY <2>1, <2>3
<1>2. ASSUME NEW w \in Nat, w \in S PROVE w + 1 \in S
  <2> SUFFICES ASSUME NEW letters \in [1..(w + 1) -> Letters]
               PROVE  \E n \in 0..(PlaceValue[w + 1] - 1) : Encoded(n, w + 1) = letters
    OBVIOUS
  <2> DEFINE others == [i \in 1..w |-> letters[i + 1]]
  <2>1. others \in [1..w -> Letters]
    OBVIOUS
  <2>2. PICK q \in 0..(PlaceValue[w] - 1) : Encoded(q, w) = others
    BY <1>2, <2>1
  <2> DEFINE n == BASE * q + letters[1]
  <2>3. /\ BASE \in Nat \ {0} /\ PlaceValue[w] \in Nat \ {0}
        /\ PlaceValue[w + 1] = BASE * PlaceValue[w]
    BY PlaceValues, ProtocolAssumption
  <2>4. q \in Nat /\ q <= PlaceValue[w] - 1
    BY <2>3
  <2>5. letters[1] \in 0..(BASE - 1)
    BY DEF Letters
  <2>6. n \in 0..(PlaceValue[w + 1] - 1)
    <3>1. ASSUME NEW b \in Nat \ {0}, NEW p \in Nat \ {0}, NEW k \in Nat, k <= p - 1,
                 NEW r \in 0..(b - 1)
          PROVE  b * k + r \in 0..(b * p - 1)
      <4>1. b * k <= b * (p - 1) /\ b * k \in Nat
        BY <3>1
      <4>2. b * (p - 1) = b * p - b /\ b * p \in Nat
        OBVIOUS
      <4>3. 0 <= r /\ r <= b - 1
        OBVIOUS
      <4> QED BY <4>1, <4>2, <4>3
    <3> QED BY <2>3, <2>4, <2>5, <3>1
  <2>7. n \in Nat
    BY <2>3, <2>4, <2>5
  <2>8. n \div BASE = q /\ n % BASE = letters[1]
    BY <2>3, <2>4, <2>5, Quotient
  <2> HIDE DEF n
  <2>9. Encoded(n, w + 1) = letters
    <3>1. /\ Encoded(n, w + 1)[1] = letters[1]
          /\ \A i \in 1..w : Encoded(n, w + 1)[i + 1] = letters[i + 1]
      <4>1. Encoded(n, w + 1)[1] = n % BASE
        BY <2>7, EncodedStep
      <4>2. \A i \in 1..w : Encoded(n, w + 1)[i + 1] = Encoded(n \div BASE, w)[i]
        BY <2>7, EncodedStep
      <4>3. n \div BASE = q /\ n % BASE = letters[1]
        BY <2>8
      <4> QED BY <2>2, <4>1, <4>2, <4>3
    <3>2. ASSUME NEW i \in 1..(w + 1) PROVE Encoded(n, w + 1)[i] = letters[i]
      <4>1. i = 1 \/ (i - 1 \in 1..w /\ i = (i - 1) + 1)
        OBVIOUS
      <4> QED BY <3>1, <4>1
    <3>3. Encoded(n, w + 1) \in [1..(w + 1) -> Letters]
      BY <2>7, EncodedType
    <3> QED BY <3>2, <3>3
  <2> QED BY <2>6, <2>9
<1> HIDE DEF S
<1>3. Nat \subseteq S
  BY <1>1, <1>2, SetInduction
<1> QED BY <1>3 DEF S

\* The receiver decodes what the sender encoded, if it fits,
LEMMA DecodesEncoded ==
    ASSUME NEW w \in Nat, NEW n \in 0..(PlaceValue[w] - 1)
    PROVE  Decoded(Encoded(n, w)) = n
<1>0. n \in Nat
  BY PlaceValues
<1>1. Encoded(n, w) \in [1..w -> Letters]
  BY <1>0, EncodedType
<1>2. Len(Encoded(n, w)) = w
  BY <1>1
<1> DEFINE d == Decoded(Encoded(n, w))
<1>3. d \in 0..(PlaceValue[w] - 1) /\ Encoded(d, w) = Encoded(n, w)
  BY <1>2 DEF Decoded
<1> HIDE DEF d
<1>4. d = n
  BY <1>3, EncodedInjective
<1> QED BY <1>4 DEF d

\* and any letters as a number that fits.
LEMMA DecodedFits ==
    ASSUME NEW letters \in Seq(Letters)
    PROVE  Decoded(letters) \in 0..(PlaceValue[Len(letters)] - 1)
<1>1. Len(letters) \in Nat /\ letters \in [1..Len(letters) -> Letters]
  OBVIOUS
<1>2. \E n \in 0..(PlaceValue[Len(letters)] - 1) : Encoded(n, Len(letters)) = letters
  BY <1>1, EncodedSurjective
<1> QED BY <1>2 DEF Decoded

----------------------------------------------------------------------------
(* Sequences *)

LEMMA HeadAndTail ==
    ASSUME NEW S, NEW q \in Seq(S), q # <<>>
    PROVE  /\ Head(q) \in S /\ <<Head(q)>> \in Seq(S) /\ Tail(q) \in Seq(S)
           /\ q = <<Head(q)>> \o Tail(q)
           /\ Len(Tail(q)) = Len(q) - 1 /\ Head(q) = q[1]
<1>1. /\ Head(q) \in S /\ Tail(q) \in Seq(S) /\ Len(Tail(q)) = Len(q) - 1
      /\ \A i \in 1..Len(Tail(q)) : Tail(q)[i] = q[i + 1]
  BY HeadTailProperties
<1>2. Head(q) = q[1] /\ Len(q) \in Nat \ {0}
  BY EmptySeq
<1>3. <<Head(q)>> \in Seq(S) /\ Len(<<Head(q)>>) = 1 /\ <<Head(q)>>[1] = Head(q)
  BY <1>1
<1> DEFINE h == <<Head(q)>>
           t == Tail(q)
<1>4. /\ h \o t \in Seq(S) /\ Len(h \o t) = Len(h) + Len(t)
      /\ \A i \in 1..(Len(h) + Len(t)) : (h \o t)[i] = IF i <= Len(h) THEN h[i] ELSE t[i - Len(h)]
  BY <1>1, <1>3, ConcatProperties
<1>5. ASSUME NEW i \in 1..Len(q) PROVE q[i] = (h \o t)[i]
  <2>1. i \in 1..(Len(h) + Len(t)) /\ Len(h) = 1
    BY <1>1, <1>2, <1>3
  <2>2. CASE i = 1
    BY <1>2, <1>3, <1>4, <2>1, <2>2
  <2>3. CASE i # 1
    <3>1. i - 1 \in 1..Len(t) /\ (i - 1) + 1 = i /\ ~(i <= 1)
      BY <1>1, <1>2, <2>3
    <3>2. (h \o t)[i] = t[i - 1]
      BY <1>4, <2>1, <3>1
    <3>3. t[i - 1] = q[i]
      BY <1>1, <3>1
    <3> QED BY <3>2, <3>3, Zenon
  <2> QED BY <2>2, <2>3
<1>6. Len(q) = Len(h \o t)
  BY <1>1, <1>2, <1>3, <1>4
<1> HIDE DEF h, t
<1>7. q = h \o t
  BY <1>4, <1>5, <1>6, SeqEqual
<1> QED BY <1>1, <1>2, <1>3, <1>7 DEF h, t

\* A name for concatenation, for facts that are used by their form.
Joined(a, b) == a \o b

LEMMA JoinedAssociative ==
    ASSUME NEW S, NEW p \in Seq(S), NEW q \in Seq(S), NEW r \in Seq(S)
    PROVE  /\ Joined(p, q) \in Seq(S)
           /\ Joined(Joined(p, q), r) = Joined(p, Joined(q, r))
<1>1. p \o q \in Seq(S)
  BY ConcatProperties
<1>2. (p \o q) \o r = p \o (q \o r)
  BY ConcatAssociative, SMTT(60)
<1> QED BY <1>1, <1>2 DEF Joined

\* A letter that is received moves from the line to what has been read,
LEMMA FieldRead ==
    ASSUME NEW S, NEW h \in Seq(S), NEW d \in Seq(S), NEW l \in Seq(S), NEW r \in Seq(S),
           l # <<>>
    PROVE  /\ Joined(Joined(h, d), Joined(l, r))
                = Joined(h, Joined(Append(d, Head(l)), Joined(Tail(l), r)))
           /\ Joined(Joined(h, d), Joined(l, r))
                = Joined(Joined(h, Append(d, Head(l))), Joined(Tail(l), r))
<1> DEFINE x == <<Head(l)>>
           y == Tail(l)
           e == Append(d, Head(l))
<1>1. /\ x \in Seq(S) /\ y \in Seq(S) /\ Head(l) \in S
      /\ l = x \o y
  BY HeadAndTail
<1>2. e = d \o x
  BY <1>1, AppendIsConcat
<1>3. l = Joined(x, y) /\ e = Joined(d, x)
  BY <1>1, <1>2 DEF Joined
<1> HIDE DEF x, y, e
<1>4. Joined(x, y) \in Seq(S) /\ Joined(d, x) \in Seq(S) /\ Joined(y, r) \in Seq(S)
  BY <1>1, JoinedAssociative
<1>5. Joined(Joined(x, y), r) = Joined(x, Joined(y, r))
  BY <1>1, JoinedAssociative
<1>6. Joined(d, Joined(x, Joined(y, r))) = Joined(Joined(d, x), Joined(y, r))
  BY <1>1, <1>4, JoinedAssociative
<1>7. Joined(Joined(h, d), Joined(l, r)) = Joined(h, Joined(d, Joined(l, r)))
  <2>1. Joined(l, r) \in Seq(S)
    BY JoinedAssociative
  <2> QED BY <2>1, JoinedAssociative
<1>8. Joined(Joined(h, e), Joined(y, r)) = Joined(h, Joined(e, Joined(y, r)))
  BY <1>3, <1>4, JoinedAssociative
<1>9. /\ Joined(Joined(h, d), Joined(l, r)) = Joined(h, Joined(e, Joined(y, r)))
      /\ Joined(Joined(h, d), Joined(l, r)) = Joined(Joined(h, e), Joined(y, r))
  BY <1>3, <1>5, <1>6, <1>7, <1>8, Zenon
<1> QED BY <1>9 DEF y, e

\* and one that is sent from the host to the line.
LEMMA LetterSent ==
    ASSUME NEW S, NEW l \in Seq(S), NEW r \in Seq(S), r # <<>>
    PROVE  l \o r = Append(l, Head(r)) \o Tail(r)
<1> DEFINE h == <<Head(r)>>
           t == Tail(r)
<1>1. h \in Seq(S) /\ t \in Seq(S) /\ r = h \o t /\ Head(r) \in S
  BY HeadAndTail
<1>2. Append(l, Head(r)) = l \o h
  BY <1>1, AppendIsConcat
<1> HIDE DEF h, t
<1>3. (l \o h) \o t = l \o (h \o t)
  <2>1. Joined(Joined(l, h), t) = Joined(l, Joined(h, t))
    BY <1>1, JoinedAssociative
  <2> QED BY <2>1 DEF Joined
<1> QED BY <1>1, <1>2, <1>3 DEF t

\* Prefixes of one sequence that are equally long are equal.
LEMMA SamePrefix ==
    ASSUME NEW S, NEW a \in Seq(S), NEW b \in Seq(S), NEW c \in Seq(S), NEW d \in Seq(S),
           Len(a) = Len(b), a \o c = b \o d
    PROVE  a = b /\ c = d
<1>1. /\ Len(a) \in Nat /\ Len(c) \in Nat /\ Len(d) \in Nat
      /\ Len(a \o c) = Len(a) + Len(c) /\ Len(b \o d) = Len(b) + Len(d)
      /\ \A i \in 1..(Len(a) + Len(c)) : (a \o c)[i] = IF i <= Len(a) THEN a[i] ELSE c[i - Len(a)]
      /\ \A i \in 1..(Len(b) + Len(d)) : (b \o d)[i] = IF i <= Len(b) THEN b[i] ELSE d[i - Len(b)]
  BY ConcatProperties, LenProperties
<1>2. Len(c) = Len(d)
  BY <1>1
<1>3. \A i \in 1..Len(a) : a[i] = b[i]
  BY <1>1
<1>4. a = b
  BY <1>3, SeqEqual
<1>5. ASSUME NEW i \in 1..Len(c) PROVE c[i] = d[i]
  <2>1. /\ Len(a) + i \in 1..(Len(a) + Len(c)) /\ Len(b) + i \in 1..(Len(b) + Len(d))
        /\ ~(Len(a) + i <= Len(a)) /\ (Len(a) + i) - Len(a) = i /\ Len(b) = Len(a)
    BY <1>1, <1>2
  <2> QED BY <1>1, <2>1
<1>6. c = d
  BY <1>2, <1>5, SeqEqual
<1> QED BY <1>4, <1>6

----------------------------------------------------------------------------
(* Types *)

\* Letters the field that is being read consists of; fewer have been read.
FieldWidth == CASE field = "size" -> SIZE_WIDTH
                [] field = "type" -> TYPE_WIDTH
                [] field = "payload" -> PayloadLength(msg_size)

FieldOk == Len(data) < FieldWidth

TypeInv == ProtocolTypeOK /\ FieldOk

Symbols == Letters \cup {Damaged}

LEMMA LettersAreSymbols == \A q \in Seq(Letters) : q \in Seq(Symbols)
<1> TAKE q \in Seq(Letters)
<1> QED BY SeqMonotonic DEF Symbols

LEMMA DamagedIsNoLetter == Damaged \notin Letters
BY ProtocolAssumption DEF Damaged, Letters

LEMMA ModuliAreNat ==
    /\ SizeModulus \in Nat \ {0} /\ TypeModulus \in Nat \ {0}
    /\ MAX_MESSAGE_SIZE_BYTES \in Nat
<1>1. SizeModulus \in Nat \ {0} /\ TypeModulus \in Nat \ {0}
  BY PlaceValues, ProtocolAssumption DEF SizeModulus, TypeModulus
<1> QED BY <1>1, ProtocolAssumption

\* The subtraction is unsigned: it wraps for a size that does not count the type.
LEMMA PayloadLengthOf ==
    ASSUME NEW size \in 0..MAX_MESSAGE_SIZE_BYTES
    PROVE  /\ PayloadLength(size) \in Nat
           /\ size >= TYPE_WIDTH => PayloadLength(size) = size - TYPE_WIDTH
<1>1. /\ SizeModulus \in Nat \ {0} /\ TYPE_WIDTH \in Nat /\ size \in Nat
      /\ MAX_MESSAGE_SIZE_BYTES \in Nat /\ MAX_MESSAGE_SIZE_BYTES < SizeModulus
  BY ModuliAreNat, ProtocolAssumption
<1> HIDE DEF SizeModulus
<1>2. PayloadLength(size) \in Nat
  BY <1>1 DEF PayloadLength
<1>3. ASSUME size >= TYPE_WIDTH PROVE PayloadLength(size) = size - TYPE_WIDTH
  <2>1. size - TYPE_WIDTH \in 0..(SizeModulus - 1)
    BY <1>1, <1>3
  <2> QED BY <1>1, <2>1 DEF PayloadLength
<1> QED BY <1>2, <1>3

LEMMA TypeStarts == Init => TypeInv
<1> SUFFICES ASSUME Init PROVE TypeInv
  OBVIOUS
<1>1. /\ <<>> \in Seq(Letters \cup {Damaged}) /\ <<>> \in Seq(Letters)
      /\ <<>> \in Seq(HostMessages)
      /\ <<>> \in Seq([message_type : Nat, payload : Seq(Letters)])
      /\ Len(<<>>) = 0
  BY EmptySeq
<1>2. 0 \in 0..MAX_MESSAGE_SIZE_BYTES /\ 0 \in 0..(TypeModulus - 1) /\ 0 <= FifoDepth
  BY ModuliAreNat, ProtocolAssumption
<1> HIDE DEF TypeModulus
<1>3. ProtocolTypeOK
  BY <1>1, <1>2, Zenon DEF Init, ProtocolTypeOK
<1>4. FieldOk
  BY EmptySeq, ProtocolAssumption DEF Init, FieldOk, FieldWidth
<1> QED BY <1>3, <1>4 DEF TypeInv

LEMMA WireType ==
    ASSUME NEW m \in HostMessages
    PROVE  /\ m.payload \in Seq(Letters) /\ m.message_type \in 0..(TypeModulus - 1)
           /\ Encoded(TYPE_WIDTH + Len(m.payload), SIZE_WIDTH) \in Seq(Letters)
           /\ Len(Encoded(TYPE_WIDTH + Len(m.payload), SIZE_WIDTH)) = SIZE_WIDTH
           /\ Encoded(m.message_type, TYPE_WIDTH) \in Seq(Letters)
           /\ Len(Encoded(m.message_type, TYPE_WIDTH)) = TYPE_WIDTH
           /\ Wire(m) \in Seq(Letters)
           /\ Len(Wire(m)) = SIZE_WIDTH + TYPE_WIDTH + Len(m.payload)
<1>1. m.payload \in Seq(Letters) /\ m.message_type \in 0..(TypeModulus - 1)
  BY ProtocolAssumption
<1>2. TYPE_WIDTH \in Nat /\ SIZE_WIDTH \in Nat /\ Len(m.payload) \in Nat
  BY <1>1, LenProperties, ProtocolAssumption
<1>3. TYPE_WIDTH + Len(m.payload) \in Nat /\ m.message_type \in Nat
  BY <1>1, <1>2, ModuliAreNat
<1> DEFINE size == Encoded(TYPE_WIDTH + Len(m.payload), SIZE_WIDTH)
           type == Encoded(m.message_type, TYPE_WIDTH)
<1>4. size \in [1..SIZE_WIDTH -> Letters] /\ type \in [1..TYPE_WIDTH -> Letters]
  BY <1>2, <1>3, EncodedType
<1>5. /\ size \in Seq(Letters) /\ Len(size) = SIZE_WIDTH
      /\ type \in Seq(Letters) /\ Len(type) = TYPE_WIDTH
  <2> HIDE DEF size, type
  <2> QED BY <1>2, <1>4
<1>6. Wire(m) = (size \o type) \o m.payload
  BY DEF Wire
<1> HIDE DEF size, type
<1> DEFINE header == size \o type
           payload == m.payload
<1>7. header \in Seq(Letters) /\ Len(header) = SIZE_WIDTH + TYPE_WIDTH
  BY <1>5, ConcatProperties
<1>8. payload \in Seq(Letters) /\ Wire(m) = header \o payload
  BY <1>1, <1>6
<1> HIDE DEF header, payload
<1>9. /\ Wire(m) \in Seq(Letters)
      /\ Len(Wire(m)) = SIZE_WIDTH + TYPE_WIDTH + Len(payload)
  BY <1>7, <1>8, ConcatProperties
<1> QED BY <1>1, <1>5, <1>9 DEF size, type, payload

\* One more letter of a field.
LEMMA LetterType ==
    ASSUME TypeInv, line # <<>>, Head(line) # Damaged
    PROVE  /\ Append(data, Head(line)) \in Seq(Letters)
           /\ Len(Append(data, Head(line))) = Len(data) + 1 /\ Len(data) \in Nat
           /\ Tail(line) \in Seq(Symbols) /\ Len(Tail(line)) <= FifoDepth
<1>1. line \in Seq(Symbols) /\ data \in Seq(Letters) /\ Len(line) <= FifoDepth
  BY DEF TypeInv, ProtocolTypeOK, Symbols
<1>2. Head(line) \in Letters
  BY <1>1, HeadTailProperties DEF Symbols
<1>3. Tail(line) \in Seq(Symbols) /\ Len(Tail(line)) = Len(line) - 1 /\ Len(line) \in Nat
  BY <1>1, HeadTailProperties, LenProperties
<1>4. FifoDepth \in Nat
  BY ProtocolAssumption
<1>5. Len(Tail(line)) <= FifoDepth
  BY <1>1, <1>3, <1>4
<1> QED BY <1>1, <1>2, <1>3, <1>5, AppendProperties, LenProperties

\* What the receiver's own variables hold.
ReceiverOk ==
    /\ field \in {"size", "type", "payload"}
    /\ data \in Seq(Letters)
    /\ msg_size \in 0..MAX_MESSAGE_SIZE_BYTES
    /\ msg_type \in 0..(TypeModulus - 1)
    /\ delivered \in Seq([message_type : Nat, payload : Seq(Letters)])
    /\ FieldOk

LEMMA DeliverType ==
    ASSUME TypeInv, NEW type \in Nat, NEW payload \in Seq(Letters), Deliver(type, payload)
    PROVE  /\ delivered' \in Seq([message_type : Nat, payload : Seq(Letters)])
           /\ field' = "size" /\ data' = <<>>
<1>1. delivered \in Seq([message_type : Nat, payload : Seq(Letters)])
  BY DEF TypeInv, ProtocolTypeOK
<1>2. [message_type |-> type, payload |-> payload] \in [message_type : Nat, payload : Seq(Letters)]
  OBVIOUS
<1>3. delivered' = Append(delivered, [message_type |-> type, payload |-> payload])
  BY DEF Deliver
<1> QED BY <1>1, <1>2, <1>3, AppendProperties DEF Deliver, Again

LEMMA EmptyFieldOk ==
    ASSUME field' = "size" \/ field' = "type", data' = <<>>
    PROVE  FieldOk' /\ data' \in Seq(Letters)
<1>1. data' \in Seq(Letters) /\ Len(data') = 0
  BY EmptySeq
<1>2. SIZE_WIDTH \in Nat \ {0} /\ TYPE_WIDTH \in Nat \ {0}
  BY ProtocolAssumption
<1>3. FieldWidth' \in Nat \ {0}
  BY <1>2 DEF FieldWidth
<1> QED BY <1>1, <1>3 DEF FieldOk

LEMMA SizeType ==
    ASSUME TypeInv, NEW letters \in Seq(Letters), Len(letters) = Len(data) + 1, ReadSize(letters)
    PROVE  ReceiverOk'
<1>1. /\ field = "size" /\ msg_size \in 0..MAX_MESSAGE_SIZE_BYTES
      /\ msg_type \in 0..(TypeModulus - 1)
      /\ delivered \in Seq([message_type : Nat, payload : Seq(Letters)])
      /\ UNCHANGED <<msg_type, delivered>>
  BY DEF TypeInv, ProtocolTypeOK, ReadSize
<1>2. SIZE_WIDTH \in Nat /\ Len(letters) \in Nat
  BY ProtocolAssumption, LenProperties
<1>3. CASE Len(letters) < SIZE_WIDTH
  <2>1. data' = letters /\ UNCHANGED <<field, msg_size>>
    BY <1>3 DEF ReadSize
  <2>2. FieldOk'
    BY <1>1, <1>3, <2>1 DEF FieldOk, FieldWidth
  <2> QED BY <1>1, <2>1, <2>2 DEF ReceiverOk
<1>4. CASE ~(Len(letters) < SIZE_WIDTH)
  <2>1. CASE Decoded(letters) > MAX_MESSAGE_SIZE_BYTES
    <3>1. field' = "size" /\ data' = <<>> /\ UNCHANGED msg_size
      BY <1>4, <2>1 DEF ReadSize, Again
    <3> QED BY <1>1, <3>1, EmptyFieldOk DEF ReceiverOk
  <2>2. CASE ~(Decoded(letters) > MAX_MESSAGE_SIZE_BYTES)
    <3>1. field' = "type" /\ data' = <<>> /\ msg_size' = Decoded(letters)
      BY <1>4, <2>2 DEF ReadSize
    <3>2. Decoded(letters) \in 0..(PlaceValue[Len(letters)] - 1) /\ PlaceValue[Len(letters)] \in Nat
      BY <1>2, DecodedFits, PlaceValues
    <3>3. msg_size' \in 0..MAX_MESSAGE_SIZE_BYTES
      BY <2>2, <3>1, <3>2, ModuliAreNat
    <3> QED BY <1>1, <3>1, <3>3, EmptyFieldOk DEF ReceiverOk
  <2> QED BY <2>1, <2>2
<1> QED BY <1>3, <1>4

LEMMA TypeType ==
    ASSUME TypeInv, NEW letters \in Seq(Letters), Len(letters) = Len(data) + 1, ReadType(letters)
    PROVE  ReceiverOk'
<1>1. /\ field = "type" /\ msg_size \in 0..MAX_MESSAGE_SIZE_BYTES
      /\ msg_type \in 0..(TypeModulus - 1)
      /\ delivered \in Seq([message_type : Nat, payload : Seq(Letters)])
      /\ msg_size' = msg_size
  BY DEF TypeInv, ProtocolTypeOK, ReadType
<1>2. /\ TYPE_WIDTH \in Nat /\ Len(letters) \in Nat /\ Len(letters) <= TYPE_WIDTH
  <2>1. Len(data) < TYPE_WIDTH
    BY <1>1 DEF TypeInv, FieldOk, FieldWidth
  <2>2. TYPE_WIDTH \in Nat /\ Len(letters) \in Nat /\ Len(data) \in Nat
    BY ProtocolAssumption, LenProperties DEF TypeInv, ProtocolTypeOK
  <2> QED BY <2>1, <2>2
<1>3. CASE Len(letters) < TYPE_WIDTH
  <2>1. data' = letters /\ UNCHANGED <<field, msg_type, delivered>>
    BY <1>3 DEF ReadType
  <2>2. FieldOk'
    BY <1>1, <1>3, <2>1 DEF FieldOk, FieldWidth
  <2> QED BY <1>1, <2>1, <2>2 DEF ReceiverOk
<1>4. CASE ~(Len(letters) < TYPE_WIDTH)
  <2>1. msg_type' = Decoded(letters)
    BY <1>4 DEF ReadType
  <2>2. msg_type' \in 0..(TypeModulus - 1)
    <3>1. Len(letters) = TYPE_WIDTH
      BY <1>2, <1>4
    <3> QED BY <2>1, <3>1, DecodedFits DEF TypeModulus
  <2>3. CASE PayloadLength(msg_size) = 0
    <3>1. Deliver(msg_type', <<>>)
      BY <1>4, <2>3 DEF ReadType
    <3>2. msg_type' \in Nat /\ <<>> \in Seq(Letters)
      BY <2>2, ModuliAreNat, EmptySeq
    <3>3. /\ delivered' \in Seq([message_type : Nat, payload : Seq(Letters)])
          /\ field' = "size" /\ data' = <<>>
      BY <3>1, <3>2, DeliverType
    <3> QED BY <1>1, <2>2, <3>3, EmptyFieldOk DEF ReceiverOk
  <2>4. CASE PayloadLength(msg_size) # 0
    <3>1. field' = "payload" /\ data' = <<>> /\ UNCHANGED delivered
      BY <1>4, <2>4 DEF ReadType
    <3>2. PayloadLength(msg_size) \in Nat
      BY <1>1, PayloadLengthOf
    <3>3. FieldWidth' = PayloadLength(msg_size)
      BY <1>1, <3>1 DEF FieldWidth, PayloadLength
    <3>4. FieldOk' /\ data' \in Seq(Letters)
      <4>1. data' \in Seq(Letters) /\ Len(data') = 0
        BY <3>1, EmptySeq
      <4> QED BY <2>4, <3>2, <3>3, <4>1 DEF FieldOk
    <3> QED BY <1>1, <2>2, <3>1, <3>4 DEF ReceiverOk
  <2> QED BY <2>3, <2>4
<1> QED BY <1>3, <1>4

LEMMA PayloadType ==
    ASSUME TypeInv, NEW letters \in Seq(Letters), Len(letters) = Len(data) + 1, ReadPayload(letters)
    PROVE  ReceiverOk'
<1>1. /\ field = "payload" /\ msg_size \in 0..MAX_MESSAGE_SIZE_BYTES
      /\ msg_type \in 0..(TypeModulus - 1)
      /\ delivered \in Seq([message_type : Nat, payload : Seq(Letters)])
      /\ UNCHANGED <<msg_size, msg_type>>
  BY DEF TypeInv, ProtocolTypeOK, ReadPayload
<1>2. CASE Len(letters) < PayloadLength(msg_size)
  <2>1. data' = letters /\ UNCHANGED <<field, delivered>>
    BY <1>2 DEF ReadPayload
  <2>2. FieldWidth' = PayloadLength(msg_size)
    BY <1>1, <2>1 DEF FieldWidth, PayloadLength
  <2>3. FieldOk'
    BY <1>2, <2>1, <2>2 DEF FieldOk
  <2> QED BY <1>1, <2>1, <2>3 DEF ReceiverOk
<1>3. CASE ~(Len(letters) < PayloadLength(msg_size))
  <2>1. Deliver(msg_type, letters)
    BY <1>3 DEF ReadPayload
  <2>2. msg_type \in Nat
    BY <1>1, ModuliAreNat
  <2>3. /\ delivered' \in Seq([message_type : Nat, payload : Seq(Letters)])
        /\ field' = "size" /\ data' = <<>>
    BY <2>1, <2>2, DeliverType
  <2> QED BY <1>1, <2>3, EmptyFieldOk DEF ReceiverOk
<1> QED BY <1>2, <1>3

\* What the line and the host hold.
LineOk ==
    /\ line \in Seq(Symbols) /\ Len(line) <= FifoDepth
    /\ rest \in Seq(Letters)
    /\ sent \in Seq(HostMessages)
    /\ clean \in BOOLEAN /\ disturbed \in BOOLEAN

LEMMA TypeParts == TypeInv <=> ReceiverOk /\ LineOk
BY DEF TypeInv, ProtocolTypeOK, ReceiverOk, LineOk, Symbols

LEMMA TypePartsNext ==
    ASSUME ReceiverOk', LineOk'
    PROVE  TypeInv'
BY DEF TypeInv, ProtocolTypeOK, ReceiverOk, LineOk, Symbols

LEMMA ReceiverKept ==
    ASSUME ReceiverOk, UNCHANGED receiver
    PROVE  ReceiverOk'
BY DEF ReceiverOk, receiver, FieldOk, FieldWidth, PayloadLength

LEMMA TypeKept == TypeInv /\ [Next]_vars => TypeInv'
<1> SUFFICES ASSUME TypeInv, [Next]_vars PROVE TypeInv'
  OBVIOUS
<1>0. /\ ReceiverOk
      /\ line \in Seq(Symbols) /\ Len(line) <= FifoDepth /\ Len(line) \in Nat
      /\ rest \in Seq(Letters)
      /\ sent \in Seq(HostMessages)
      /\ clean \in BOOLEAN /\ disturbed \in BOOLEAN
      /\ FifoDepth \in Nat \ {0}
  BY TypeParts, ProtocolAssumption, LenProperties DEF LineOk
<1>1. ASSUME NEW m \in HostMessages, HostStarts(m) PROVE TypeInv'
  <2>1. ReceiverOk'
    BY <1>0, <1>1, ReceiverKept DEF HostStarts
  <2>2. sent' \in Seq(HostMessages) /\ rest' \in Seq(Letters)
    BY <1>0, <1>1, WireType, AppendProperties DEF HostStarts
  <2>3. clean' \in BOOLEAN /\ disturbed' \in BOOLEAN /\ line' = line
    BY <1>0, <1>1 DEF HostStarts
  <2>4. LineOk'
    BY <1>0, <2>2, <2>3 DEF LineOk
  <2> QED BY <2>1, <2>4, TypePartsNext
<1>2. CASE HostSends \/ Damage
  <2>1. ReceiverOk'
    BY <1>0, <1>2, ReceiverKept DEF HostSends, Damage
  <2>2. PICK letter \in Symbols : line' = Append(line, letter)
    <3>1. Head(rest) \in Symbols /\ Damaged \in Symbols
      BY <1>0, <1>2, HeadTailProperties DEF Symbols, HostSends, Damage
    <3> QED BY <1>2, <3>1 DEF HostSends, Damage
  <2>3. rest' \in Seq(Letters) /\ sent' = sent /\ Len(line) < FifoDepth
    BY <1>0, <1>2, HeadTailProperties DEF HostSends, Damage
  <2>4. line' \in Seq(Symbols) /\ Len(line') = Len(line) + 1
    BY <1>0, <2>2, AppendProperties
  <2>5. Len(line') <= FifoDepth
    BY <1>0, <2>3, <2>4
  <2>6. clean' \in BOOLEAN /\ disturbed' \in BOOLEAN
    BY <1>0, <1>2 DEF HostSends, Damage
  <2>7. LineOk'
    BY <1>0, <2>3, <2>4, <2>5, <2>6 DEF LineOk
  <2> QED BY <2>1, <2>7, TypePartsNext
<1>3. CASE Overrun
  <2>1. ReceiverOk'
    BY <1>0, <1>3, ReceiverKept DEF Overrun
  <2>2. 1 \in 1..Len(line) /\ Damaged \in Symbols
    BY <1>0, <1>3 DEF Overrun, Symbols
  <2>3. line' \in Seq(Symbols) /\ Len(line') = Len(line)
    BY <1>0, <1>3, <2>2, ExceptSeq DEF Overrun
  <2>4. rest' \in Seq(Letters) /\ sent' = sent /\ clean' = FALSE /\ disturbed' = TRUE
    BY <1>0, <1>3, HeadTailProperties DEF Overrun
  <2>5. LineOk'
    BY <1>0, <2>3, <2>4 DEF LineOk
  <2> QED BY <2>1, <2>5, TypePartsNext
<1>4. CASE Receive
  <2> DEFINE letters == Append(data, Head(line))
  <2>1. /\ letters \in Seq(Letters) /\ Len(letters) = Len(data) + 1
        /\ Tail(line) \in Seq(Symbols) /\ Len(Tail(line)) <= FifoDepth
    BY <1>4, LetterType DEF Receive
  <2>2. /\ line' = Tail(line) /\ UNCHANGED <<rest, sent, clean, disturbed>>
        /\ ReadSize(letters) \/ ReadType(letters) \/ ReadPayload(letters)
    BY <1>4 DEF Receive
  <2> HIDE DEF letters
  <2>3. ReceiverOk'
    BY <2>1, <2>2, SizeType, TypeType, PayloadType
  <2>4. LineOk'
    BY <1>0, <2>1, <2>2 DEF LineOk
  <2> QED BY <2>3, <2>4, TypePartsNext
<1>5. CASE ReceiveError \/ ReceiveTimeout
  <2>1. /\ field' = "size" /\ data' = <<>>
        /\ UNCHANGED <<rest, sent, msg_size, msg_type, delivered>>
    BY <1>5 DEF ReceiveError, ReceiveTimeout, Again
  <2>2. ReceiverOk'
    BY <1>0, <2>1, EmptyFieldOk DEF ReceiverOk
  <2>3. line' \in Seq(Symbols) /\ Len(line') <= FifoDepth
    <3>1. CASE ReceiveError
      <4>1. line' = Tail(line) /\ line # <<>>
        BY <3>1 DEF ReceiveError
      <4>2. Tail(line) \in Seq(Symbols) /\ Len(Tail(line)) = Len(line) - 1
        BY <1>0, <4>1, HeadTailProperties
      <4> QED BY <1>0, <4>1, <4>2
    <3>2. CASE ReceiveTimeout
      BY <1>0, <3>2 DEF ReceiveTimeout
    <3> QED BY <1>5, <3>1, <3>2
  <2>4. clean' \in BOOLEAN /\ disturbed' \in BOOLEAN
    BY <1>0, <1>5 DEF ReceiveError, ReceiveTimeout
  <2>5. LineOk'
    BY <1>0, <2>1, <2>3, <2>4 DEF LineOk
  <2> QED BY <2>2, <2>5, TypePartsNext
<1>6. CASE UNCHANGED vars
  <2>1. ReceiverOk' /\ LineOk'
    BY <1>0, <1>6, ReceiverKept DEF vars, receiver, LineOk
  <2> QED BY <2>1, TypePartsNext
<1> QED BY <1>1, <1>2, <1>3, <1>4, <1>5, <1>6 DEF Next, receive_message
----------------------------------------------------------------------------
(* Messages on the way *)

\* stream is the messages behind the first k, one after the other: tails[i] is
\* what is left of it behind message i.
Tails(tails, messages, k) ==
    /\ tails \in [k..Len(messages) -> Seq(Letters)]
    /\ tails[Len(messages)] = <<>>
    /\ \A i \in (k + 1)..Len(messages) : tails[i - 1] = Wire(messages[i]) \o tails[i]

Concatenates(stream, messages, k) ==
    \E tails : Tails(tails, messages, k) /\ stream = tails[k]

\* A message and what follows it.
Before(m, stream) == Wire(m) \o stream

LEMMA EmptyConcat ==
    \A S : \A q \in Seq(S) : <<>> \o q = q /\ q \o <<>> = q
<1> TAKE S
<1> TAKE q \in Seq(S)
<1> QED BY ConcatEmptySeq

LEMMA NothingLeft ==
    ASSUME NEW messages \in Seq(HostMessages)
    PROVE  Concatenates(<<>>, messages, Len(messages))
<1> DEFINE n == Len(messages)
           tails == [i \in n..n |-> <<>>]
<1>1. n \in Nat /\ <<>> \in Seq(Letters)
  BY LenProperties, EmptySeq
<1>2. Tails(tails, messages, n)
  <2>1. n \in n..n /\ (n + 1)..n = {}
    BY <1>1
  <2>2. tails \in [n..n -> Seq(Letters)] /\ tails[n] = <<>>
    BY <1>1, <2>1
  <2> HIDE DEF tails
  <2> QED BY <2>1, <2>2 DEF Tails
<1>3. tails[n] = <<>>
  BY <1>1
<1> QED BY <1>2, <1>3 DEF Concatenates

\* When all messages are behind the receiver nothing is left,
LEMMA StreamEnds ==
    ASSUME NEW messages \in Seq(HostMessages), NEW k \in 0..Len(messages), NEW stream,
           Concatenates(stream, messages, k)
    PROVE  stream \in Seq(Letters) /\ (k = Len(messages) => stream = <<>>)
<1>1. PICK tails : Tails(tails, messages, k) /\ stream = tails[k]
  BY DEF Concatenates
<1>2. tails \in [k..Len(messages) -> Seq(Letters)] /\ tails[Len(messages)] = <<>>
  BY <1>1 DEF Tails
<1>3. Len(messages) \in Nat /\ k \in Nat
  BY LenProperties
<1> QED BY <1>1, <1>2, <1>3

\* and before that the next message is at the front of the stream.
LEMMA NextMessage ==
    ASSUME NEW messages \in Seq(HostMessages), NEW k \in Nat, NEW stream,
           Concatenates(stream, messages, k), k < Len(messages)
    PROVE  \E t : /\ t \in Seq(Letters) /\ Concatenates(t, messages, k + 1)
                  /\ stream = Before(messages[k + 1], t)
<1>1. PICK tails : Tails(tails, messages, k) /\ stream = tails[k]
  BY DEF Concatenates
<1>2. /\ tails \in [k..Len(messages) -> Seq(Letters)] /\ tails[Len(messages)] = <<>>
      /\ \A i \in (k + 1)..Len(messages) : tails[i - 1] = Wire(messages[i]) \o tails[i]
  BY <1>1 DEF Tails
<1>3. /\ Len(messages) \in Nat /\ k \in Nat /\ (k + 1) - 1 = k
      /\ k + 1 \in (k + 1)..Len(messages) /\ Len(messages) \in (k + 1)..Len(messages)
  BY LenProperties
<1> DEFINE others == [i \in (k + 1)..Len(messages) |-> tails[i]]
<1>4. Tails(others, messages, k + 1)
  <2>1. others \in [(k + 1)..Len(messages) -> Seq(Letters)]
    BY <1>2, <1>3
  <2>2. others[Len(messages)] = <<>>
    BY <1>2, <1>3
  <2>3. ASSUME NEW i \in (k + 1 + 1)..Len(messages)
        PROVE  others[i - 1] = Wire(messages[i]) \o others[i]
    <3>1. i \in (k + 1)..Len(messages) /\ i - 1 \in (k + 1)..Len(messages)
      BY <1>3
    <3>2. tails[i - 1] = Wire(messages[i]) \o tails[i]
      BY <1>2, <3>1
    <3> QED BY <3>1, <3>2
  <2> HIDE DEF others
  <2> QED BY <2>1, <2>2, <2>3 DEF Tails
<1>5. tails[k + 1] \in Seq(Letters) /\ others[k + 1] = tails[k + 1]
  BY <1>2, <1>3
<1>6. tails[k] = Before(messages[k + 1], tails[k + 1])
  BY <1>2, <1>3 DEF Before
<1> HIDE DEF others
<1>7. Concatenates(others[k + 1], messages, k + 1)
  BY <1>4 DEF Concatenates
<1> QED BY <1>1, <1>5, <1>6, <1>7

\* A message that the host starts goes behind the stream.
LEMMA StreamGrows ==
    ASSUME NEW messages \in Seq(HostMessages), NEW k \in 0..Len(messages), NEW stream,
           Concatenates(stream, messages, k), NEW m \in HostMessages
    PROVE  Concatenates(stream \o Wire(m), Append(messages, m), k)
<1> DEFINE n == Len(messages)
           longer == Append(messages, m)
<1>0. n \in Nat /\ k \in Nat /\ k <= n
  BY LenProperties
<1>1. PICK tails : Tails(tails, messages, k) /\ stream = tails[k]
  BY DEF Concatenates
<1>2. /\ tails \in [k..n -> Seq(Letters)] /\ tails[n] = <<>>
      /\ \A i \in (k + 1)..n : tails[i - 1] = Wire(messages[i]) \o tails[i]
  BY <1>1 DEF Tails
<1>3. /\ Len(longer) = n + 1 /\ longer[n + 1] = m
      /\ \A i \in 1..n : longer[i] = messages[i] /\ messages[i] \in HostMessages
  BY AppendProperties, ElementOfSeq
<1>4. Wire(m) \in Seq(Letters) /\ <<>> \in Seq(Letters)
  BY WireType, EmptySeq
<1> HIDE DEF n, longer
<1> DEFINE w == Wire(m)
           new == [i \in k..(n + 1) |-> IF i = n + 1 THEN <<>> ELSE tails[i] \o w]
<1>5. new \in [k..(n + 1) -> Seq(Letters)]
  <2> SUFFICES ASSUME NEW i \in k..(n + 1), i # n + 1 PROVE tails[i] \o w \in Seq(Letters)
    BY <1>4
  <2>1. tails[i] \in Seq(Letters) /\ w \in Seq(Letters)
    BY <1>0, <1>2, <1>4
  <2> HIDE DEF w
  <2> QED BY <2>1, ConcatProperties
<1>6. new[n + 1] = <<>>
  BY <1>0
<1>7. ASSUME NEW i \in (k + 1)..(n + 1) PROVE new[i - 1] = Wire(longer[i]) \o new[i]
  <2>1. i \in k..(n + 1) /\ i - 1 \in k..(n + 1) /\ i - 1 # n + 1 /\ i - 1 \in k..n
    BY <1>0
  <2>2. new[i - 1] = tails[i - 1] \o w
    BY <2>1
  <2>3. CASE i = n + 1
    <3>1. i - 1 = n /\ new[i] = <<>> /\ longer[i] = m
      BY <1>0, <1>3, <2>3
    <3>2. tails[i - 1] = <<>>
      BY <1>2, <3>1
    <3>3. <<>> \o w = w /\ w \o <<>> = w
      BY <1>4, EmptyConcat, Zenon
    <3> HIDE DEF new
    <3> QED BY <2>2, <3>1, <3>2, <3>3 DEF w
  <2>4. CASE i # n + 1
    <3>1. i \in (k + 1)..n /\ i \in 1..n
      BY <1>0, <2>4
    <3>2. new[i] = tails[i] \o w
      BY <2>1, <2>4
    <3>3. tails[i - 1] = Wire(messages[i]) \o tails[i] /\ longer[i] = messages[i]
      BY <1>2, <1>3, <3>1
    <3> DEFINE v == Wire(messages[i])
               z == tails[i]
    <3>4. v \in Seq(Letters) /\ w \in Seq(Letters) /\ z \in Seq(Letters)
      <4>1. messages[i] \in HostMessages
        BY <1>3, <3>1
      <4>2. Wire(messages[i]) \in Seq(Letters)
        BY <4>1, WireType
      <4> QED BY <1>0, <1>2, <1>4, <3>1, <4>2
    <3>5. (v \o z) \o w = v \o (z \o w)
      <4> HIDE DEF v, w, z
      <4>1. Joined(Joined(v, z), w) = Joined(v, Joined(z, w))
        BY <3>4, JoinedAssociative
      <4> QED BY <4>1 DEF Joined
    <3> HIDE DEF new
    <3> QED BY <2>2, <3>2, <3>3, <3>5
  <2> QED BY <2>3, <2>4
<1>8. new[k] = stream \o w
  BY <1>0, <1>1
<1> HIDE DEF new, w
<1>9. Tails(new, longer, k)
  BY <1>3, <1>5, <1>6, <1>7 DEF Tails
<1>10. Concatenates(stream \o w, longer, k)
  BY <1>8, <1>9 DEF Concatenates
<1> QED BY <1>10 DEF w, longer

----------------------------------------------------------------------------
(* Receiver and host in step *)

\* What the receiver has taken of the current message before this field.
Header == CASE field = "size" -> <<>>
            [] field = "type" -> Encoded(msg_size, SIZE_WIDTH)
            [] field = "payload" -> Encoded(msg_size, SIZE_WIDTH) \o Encoded(msg_type, TYPE_WIDTH)

\* The current message from its first letter, and all that follows it.
Ahead == (Header \o data) \o (line \o rest)

\* How many of the messages sent are behind the receiver.
Behind(first, base) == first + (Len(delivered) - base)

\* What was delivered after the first base messages are the messages sent after
\* the first ones, and the next of these is the one being received.
InSync(first, base) ==
    /\ Behind(first, base) <= Len(sent)
    /\ \A i \in 1..(Len(delivered) - base) : delivered[base + i] = sent[first + i]
    /\ \A i \in (first + 1)..Len(sent) : WellSized(sent[i])
    /\ Concatenates(Ahead, sent, Behind(first, base))
    /\ field # "size" =>
           /\ Behind(first, base) < Len(sent)
           /\ msg_size = TYPE_WIDTH + Len(sent[Behind(first, base) + 1].payload)
    /\ field = "payload" => msg_type = sent[Behind(first, base) + 1].message_type

SyncInv ==
    /\ clean => \E first \in 0..Len(sent), base \in 0..Len(delivered) :
                    InSync(first, base) /\ (first < Len(sent) \/ sent = <<>>)
    /\ ~disturbed => clean /\ InSync(0, 0)

LEMMA BehindType ==
    ASSUME TypeInv, NEW first \in 0..Len(sent), NEW base \in 0..Len(delivered)
    PROVE  /\ Behind(first, base) \in Nat /\ first \in Nat /\ base \in Nat
           /\ Len(sent) \in Nat /\ Len(delivered) \in Nat
           /\ Len(delivered) - base \in Nat
<1>1. Len(sent) \in Nat /\ Len(delivered) \in Nat
  BY LenProperties DEF TypeInv, ProtocolTypeOK
<1> QED BY <1>1 DEF Behind

LEMMA SyncStarts == Init => SyncInv
<1> SUFFICES ASSUME Init PROVE SyncInv
  OBVIOUS
<1>1. /\ field = "size" /\ data = <<>> /\ line = <<>> /\ rest = <<>>
      /\ sent = <<>> /\ delivered = <<>>
  BY DEF Init
<1>2. /\ <<>> \in Seq(HostMessages) /\ <<>> \in Seq(Letters) /\ Len(<<>>) = 0
  BY EmptySeq
<1>3. <<>> \o <<>> = <<>>
  BY <1>2, EmptyConcat
<1>4. Ahead = <<>>
  BY <1>1, <1>3 DEF Ahead, Header
<1>5. Behind(0, 0) = 0
  BY <1>1, <1>2 DEF Behind
<1>6. Concatenates(Ahead, sent, Behind(0, 0))
  BY <1>1, <1>2, <1>4, <1>5, NothingLeft
<1>7. InSync(0, 0)
  BY <1>1, <1>2, <1>5, <1>6 DEF InSync
<1>8. 0 \in 0..Len(sent) /\ 0 \in 0..Len(delivered) /\ clean
  BY <1>1, <1>2 DEF Init
<1> QED BY <1>1, <1>7, <1>8 DEF SyncInv

LEMMA HeaderType ==
    ASSUME TypeInv
    PROVE  /\ Header \in Seq(Letters)
           /\ field = "size" => Len(Header) = 0
           /\ field = "type" => Len(Header) = SIZE_WIDTH
           /\ field = "payload" => Len(Header) = SIZE_WIDTH + TYPE_WIDTH
<1>1. /\ msg_size \in Nat /\ msg_type \in Nat /\ SIZE_WIDTH \in Nat /\ TYPE_WIDTH \in Nat
      /\ field \in {"size", "type", "payload"}
  BY ModuliAreNat, ProtocolAssumption DEF TypeInv, ProtocolTypeOK
<1> DEFINE size == Encoded(msg_size, SIZE_WIDTH)
           type == Encoded(msg_type, TYPE_WIDTH)
<1>2. size \in [1..SIZE_WIDTH -> Letters] /\ type \in [1..TYPE_WIDTH -> Letters]
  BY <1>1, EncodedType
<1>3. Header = CASE field = "size" -> <<>> [] field = "type" -> size [] field = "payload" -> size \o type
  BY DEF Header
<1> HIDE DEF size, type
<1>4. /\ size \in Seq(Letters) /\ Len(size) = SIZE_WIDTH
      /\ type \in Seq(Letters) /\ Len(type) = TYPE_WIDTH
  BY <1>1, <1>2
<1>5. size \o type \in Seq(Letters) /\ Len(size \o type) = SIZE_WIDTH + TYPE_WIDTH
  BY <1>4, ConcatProperties
<1>6. <<>> \in Seq(Letters) /\ Len(<<>>) = 0
  BY EmptySeq
<1>7. CASE field = "size"
  <2>1. Header = <<>>
    BY <1>3, <1>7
  <2> QED BY <1>6, <1>7, <2>1
<1>8. CASE field = "type"
  <2>1. Header = size
    BY <1>3, <1>8
  <2> QED BY <1>4, <1>8, <2>1
<1>9. CASE field = "payload"
  <2>1. Header = size \o type
    BY <1>3, <1>9
  <2> QED BY <1>5, <1>9, <2>1
<1> QED BY <1>1, <1>7, <1>8, <1>9

\* The message being received, if the host has started one.
LEMMA Current ==
    ASSUME TypeInv, NEW first \in 0..Len(sent), NEW base \in 0..Len(delivered),
           InSync(first, base), Behind(first, base) < Len(sent)
    PROVE  /\ sent[Behind(first, base) + 1] \in HostMessages
           /\ WellSized(sent[Behind(first, base) + 1])
           /\ TYPE_WIDTH + Len(sent[Behind(first, base) + 1].payload) \in 0..MAX_MESSAGE_SIZE_BYTES
           /\ \E t \in Seq(Letters) :
                  /\ Concatenates(t, sent, Behind(first, base) + 1)
                  /\ Ahead = Before(sent[Behind(first, base) + 1], t)
<1> DEFINE k == Behind(first, base)
           m == sent[k + 1]
<1>1. /\ k \in Nat /\ first \in Nat /\ Len(sent) \in Nat /\ Len(delivered) - base \in Nat
      /\ k = first + (Len(delivered) - base)
  BY BehindType DEF Behind
<1>2. k < Len(sent) /\ Concatenates(Ahead, sent, k)
  BY DEF InSync
<1>3. \A i \in (first + 1)..Len(sent) : WellSized(sent[i])
  BY DEF InSync
<1> HIDE DEF k
<1>4. k \in 0..Len(sent) /\ k + 1 \in 1..Len(sent) /\ k + 1 \in (first + 1)..Len(sent)
  BY <1>1, <1>2
<1>5. sent \in Seq(HostMessages)
  BY DEF TypeInv, ProtocolTypeOK
<1>6. m \in HostMessages /\ WellSized(m)
  BY <1>3, <1>4, <1>5, ElementOfSeq
<1>7. \E t \in Seq(Letters) : Concatenates(t, sent, k + 1) /\ Ahead = Before(m, t)
  <2>1. \E t : /\ t \in Seq(Letters) /\ Concatenates(t, sent, k + 1)
               /\ Ahead = Before(sent[k + 1], t)
    BY <1>1, <1>2, <1>5, NextMessage
  <2> QED BY <2>1
<1>8. TYPE_WIDTH + Len(m.payload) \in 0..MAX_MESSAGE_SIZE_BYTES
  <2>1. m.payload \in Seq(Letters)
    BY <1>6, WireType
  <2>2. Len(m.payload) <= MAX_MESSAGE_SIZE_BYTES - (SIZE_WIDTH + TYPE_WIDTH)
    BY <1>6 DEF WellSized, PayloadRoom
  <2> DEFINE l == Len(m.payload)
  <2>3. l \in Nat /\ SIZE_WIDTH \in Nat /\ TYPE_WIDTH \in Nat /\ MAX_MESSAGE_SIZE_BYTES \in Nat
    BY <2>1, LenProperties, ModuliAreNat, ProtocolAssumption
  <2>4. l <= MAX_MESSAGE_SIZE_BYTES - (SIZE_WIDTH + TYPE_WIDTH)
    BY <2>2
  <2> HIDE DEF l
  <2>5. TYPE_WIDTH + l \in 0..MAX_MESSAGE_SIZE_BYTES
    BY <2>3, <2>4
  <2> QED BY <2>5 DEF l
<1> QED BY <1>6, <1>7, <1>8 DEF k

\* What has been taken of a message is less than the whole of it.
LEMMA ConsumedShort ==
    ASSUME TypeInv, NEW first \in 0..Len(sent), NEW base \in 0..Len(delivered),
           InSync(first, base), Behind(first, base) < Len(sent)
    PROVE  /\ Header \o data \in Seq(Letters)
           /\ Len(Header \o data) < Len(Wire(sent[Behind(first, base) + 1]))
<1> DEFINE m == sent[Behind(first, base) + 1]
           l == Len(m.payload)
           h == Header
<1>1. m \in HostMessages /\ TYPE_WIDTH + l \in 0..MAX_MESSAGE_SIZE_BYTES
  BY Current
<1>2. /\ l \in Nat /\ Len(Wire(m)) = SIZE_WIDTH + TYPE_WIDTH + l
  BY <1>1, WireType, LenProperties
<1>3. h \in Seq(Letters) /\ data \in Seq(Letters) /\ Len(data) < FieldWidth
  BY HeaderType DEF TypeInv, ProtocolTypeOK, FieldOk
<1>4. field # "size" => msg_size = TYPE_WIDTH + l
  BY DEF InSync
<1>5. SIZE_WIDTH \in Nat /\ TYPE_WIDTH \in Nat /\ field \in {"size", "type", "payload"}
  BY ProtocolAssumption DEF TypeInv, ProtocolTypeOK
<1>6. /\ field = "size" => Len(h) = 0 /\ FieldWidth = SIZE_WIDTH
      /\ field = "type" => Len(h) = SIZE_WIDTH /\ FieldWidth = TYPE_WIDTH
      /\ field = "payload" => Len(h) = SIZE_WIDTH + TYPE_WIDTH /\ FieldWidth = l
  <2>1. ASSUME field = "payload" PROVE PayloadLength(msg_size) = l
    <3>1. msg_size \in 0..MAX_MESSAGE_SIZE_BYTES /\ msg_size = TYPE_WIDTH + l
      BY <1>1, <1>4, <2>1
    <3>2. msg_size >= TYPE_WIDTH => PayloadLength(msg_size) = msg_size - TYPE_WIDTH
      BY <3>1, PayloadLengthOf
    <3> HIDE DEF l
    <3> QED BY <1>2, <1>5, <3>1, <3>2
  <2> QED BY <2>1, HeaderType DEF FieldWidth
<1>7. h \o data \in Seq(Letters) /\ Len(h \o data) = Len(h) + Len(data)
  <2> HIDE DEF h
  <2> QED BY <1>3, ConcatProperties
<1>8. Len(h) \in Nat /\ Len(data) \in Nat
  BY <1>3, LenProperties
<1> HIDE DEF l, h, m
<1>9. Len(h) + Len(data) < SIZE_WIDTH + TYPE_WIDTH + l
  BY <1>2, <1>3, <1>5, <1>6, <1>8
<1> QED BY <1>2, <1>7, <1>9 DEF h, m

\* With nothing left to read or to send the receiver waits for the next message.
LEMMA AtRest ==
    ASSUME TypeInv, NEW first \in 0..Len(sent), NEW base \in 0..Len(delivered),
           InSync(first, base), line = <<>>, rest = <<>>
    PROVE  Behind(first, base) = Len(sent) /\ AtBoundary
<1> DEFINE k == Behind(first, base)
           taken == Header \o data
<1>1. k \in Nat /\ Len(sent) \in Nat /\ k <= Len(sent)
  BY BehindType DEF InSync
<1>2. data \in Seq(Letters) /\ Header \in Seq(Letters) /\ sent \in Seq(HostMessages)
  BY HeaderType DEF TypeInv, ProtocolTypeOK
<1>3. taken \in Seq(Letters)
  BY <1>2, ConcatProperties
<1>4. Ahead = taken
  <2>1. <<>> \o <<>> = <<>> /\ taken \o <<>> = taken
    <3> HIDE DEF taken
    <3> QED BY <1>3, EmptySeq, EmptyConcat
  <2> QED BY <2>1 DEF Ahead
<1>5. ASSUME k < Len(sent) PROVE FALSE
  <2> DEFINE w == Wire(sent[k + 1])
  <2>1. PICK t \in Seq(Letters) : Ahead = w \o t
    BY <1>5, Current DEF Before
  <2>2. w \in Seq(Letters)
    BY <1>5, Current, WireType
  <2>3. Len(taken) < Len(w)
    BY <1>5, ConsumedShort
  <2> HIDE DEF w, taken
  <2>4. Len(w \o t) = Len(w) + Len(t) /\ Len(w) \in Nat /\ Len(t) \in Nat
    BY <2>2, ConcatProperties, LenProperties
  <2> QED BY <1>4, <2>1, <2>3, <2>4
<1>6. k = Len(sent)
  BY <1>1, <1>5
<1>7. field = "size"
  BY <1>1, <1>6 DEF InSync
<1>8. Ahead = <<>>
  <2>1. Concatenates(Ahead, sent, k)
    BY DEF InSync
  <2>2. k \in 0..Len(sent)
    BY <1>1
  <2> HIDE DEF k
  <2> QED BY <1>2, <1>6, <2>1, <2>2, StreamEnds
<1>9. data = <<>>
  <2>1. taken = data
    BY <1>2, <1>7, EmptyConcat DEF Header
  <2> QED BY <1>4, <1>8, <2>1
<1> QED BY <1>6, <1>7, <1>9 DEF AtBoundary

\* A letter that is read moves from the line into the field.
LEMMA AheadRead ==
    ASSUME TypeInv, line # <<>>, Head(line) # Damaged
    PROVE  /\ Ahead = Header \o (Append(data, Head(line)) \o (Tail(line) \o rest))
           /\ Ahead = (Header \o Append(data, Head(line))) \o (Tail(line) \o rest)
<1>1. data \in Seq(Letters) /\ Header \in Seq(Letters) /\ rest \in Seq(Letters)
      /\ line \in Seq(Symbols)
  BY HeaderType DEF TypeInv, ProtocolTypeOK, Symbols
<1>2. data \in Seq(Symbols) /\ Header \in Seq(Symbols) /\ rest \in Seq(Symbols)
  BY <1>1, LettersAreSymbols
<1> DEFINE h == Header
           letters == Append(data, Head(line))
           u == Joined(Tail(line), rest)
<1>3. Ahead = Joined(Joined(h, data), Joined(line, rest))
  BY DEF Ahead, Joined
<1>4. h \in Seq(Symbols)
  BY <1>2
<1> HIDE DEF h
<1>5. /\ Joined(Joined(h, data), Joined(line, rest)) = Joined(h, Joined(letters, u))
      /\ Joined(Joined(h, data), Joined(line, rest)) = Joined(Joined(h, letters), u)
  BY <1>1, <1>2, <1>4, FieldRead
<1> HIDE DEF letters, u
<1>6. Ahead = Joined(h, Joined(letters, u)) /\ Ahead = Joined(Joined(h, letters), u)
  BY <1>3, <1>5
<1> QED BY <1>6 DEF Joined, h, letters, u

----------------------------------------------------------------------------
(* A letter received *)

SizeOf(m) == Encoded(TYPE_WIDTH + Len(m.payload), SIZE_WIDTH)
TypeOf(m) == Encoded(m.message_type, TYPE_WIDTH)

LEMMA JoinedPrefix ==
    ASSUME NEW S, NEW a \in Seq(S), NEW b \in Seq(S), NEW c \in Seq(S), NEW d \in Seq(S),
           Len(a) = Len(b), Joined(a, c) = Joined(b, d)
    PROVE  a = b /\ c = d
<1>1. a \o c = b \o d
  BY DEF Joined
<1> QED BY <1>1, SamePrefix

LEMMA JoinedType ==
    ASSUME NEW S, NEW a \in Seq(S), NEW b \in Seq(S)
    PROVE  Joined(a, b) \in Seq(S)
BY ConcatProperties DEF Joined

\* Behind the same start, a field of the same length is the same field.
LEMMA FieldMatches ==
    ASSUME NEW a \in Seq(Symbols), NEW b \in Seq(Symbols), NEW c \in Seq(Symbols),
           NEW d \in Seq(Symbols), NEW e \in Seq(Symbols),
           Joined(a, Joined(b, c)) = Joined(a, Joined(d, e)), Len(b) = Len(d)
    PROVE  b = d /\ c = e
<1>1. Joined(b, c) \in Seq(Symbols) /\ Joined(d, e) \in Seq(Symbols)
  BY JoinedType
<1>2. Joined(b, c) = Joined(d, e)
  BY <1>1, JoinedPrefix
<1> QED BY <1>2, JoinedPrefix

LEMMA WireParts ==
    ASSUME NEW m \in HostMessages, NEW t \in Seq(Letters)
    PROVE  /\ SizeOf(m) \in Seq(Symbols) /\ Len(SizeOf(m)) = SIZE_WIDTH
           /\ TypeOf(m) \in Seq(Symbols) /\ Len(TypeOf(m)) = TYPE_WIDTH
           /\ m.payload \in Seq(Symbols) /\ t \in Seq(Symbols)
           /\ m.payload \o t \in Seq(Symbols)
           /\ TypeOf(m) \o (m.payload \o t) \in Seq(Symbols)
           /\ SizeOf(m) \o TypeOf(m) \in Seq(Symbols)
           /\ Before(m, t) = SizeOf(m) \o (TypeOf(m) \o (m.payload \o t))
           /\ Before(m, t) = (SizeOf(m) \o TypeOf(m)) \o (m.payload \o t)
<1> DEFINE s == SizeOf(m)
           y == TypeOf(m)
           p == m.payload
<1>1. /\ s \in Seq(Letters) /\ Len(s) = SIZE_WIDTH
      /\ y \in Seq(Letters) /\ Len(y) = TYPE_WIDTH
      /\ p \in Seq(Letters)
  BY WireType DEF SizeOf, TypeOf
<1>2. Before(m, t) = ((s \o y) \o p) \o t
  BY DEF Before, Wire, SizeOf, TypeOf
<1> HIDE DEF s, y, p
<1>3. s \in Seq(Symbols) /\ y \in Seq(Symbols) /\ p \in Seq(Symbols) /\ t \in Seq(Symbols)
  BY <1>1, LettersAreSymbols
<1> DEFINE h == s \o y
           q == p \o t
           r == y \o q
<1>4. h \in Seq(Symbols) /\ q \in Seq(Symbols)
  BY <1>3, ConcatProperties
<1>5. (h \o p) \o t = h \o q
  <2> HIDE DEF h
  <2>1. Joined(Joined(h, p), t) = Joined(h, Joined(p, t))
    BY <1>3, <1>4, JoinedAssociative
  <2> QED BY <2>1 DEF Joined
<1>6. h \o q = s \o r
  <2> HIDE DEF q
  <2>1. Joined(Joined(s, y), q) = Joined(s, Joined(y, q))
    BY <1>3, <1>4, JoinedAssociative
  <2> QED BY <2>1 DEF Joined
<1>7. r \in Seq(Symbols)
  <2> HIDE DEF q
  <2> QED BY <1>3, <1>4, ConcatProperties
<1> QED BY <1>1, <1>2, <1>3, <1>4, <1>5, <1>6, <1>7 DEF s, y, p

LEMMA ReadMatches ==
    ASSUME TypeInv, NEW first \in 0..Len(sent), NEW base \in 0..Len(delivered),
           InSync(first, base), NEW m \in HostMessages, m = sent[Behind(first, base) + 1],
           NEW t \in Seq(Letters), Ahead = Before(m, t),
           line # <<>>, Head(line) # Damaged
    PROVE  /\ field = "size" /\ Len(Append(data, Head(line))) = SIZE_WIDTH =>
                  Append(data, Head(line)) = SizeOf(m)
           /\ field = "type" /\ Len(Append(data, Head(line))) = TYPE_WIDTH =>
                  /\ Append(data, Head(line)) = TypeOf(m)
                  /\ Tail(line) \o rest = m.payload \o t
           /\ field = "payload" /\ Len(Append(data, Head(line))) = Len(m.payload) =>
                  Append(data, Head(line)) = m.payload /\ Tail(line) \o rest = t
<1> DEFINE letters == Append(data, Head(line))
           u == Tail(line) \o rest
           s == SizeOf(m)
           y == TypeOf(m)
           p == m.payload
           h == s \o y
           q == p \o t
           r == y \o q
           a == Header
<1>1. letters \in Seq(Symbols) /\ a \in Seq(Symbols)
  BY LetterType, HeaderType, LettersAreSymbols
<1>2. u \in Seq(Symbols)
  <2>1. Tail(line) \in Seq(Symbols) /\ rest \in Seq(Symbols)
    BY LetterType, LettersAreSymbols DEF TypeInv, ProtocolTypeOK
  <2> QED BY <2>1, ConcatProperties
<1>3. Ahead = a \o (letters \o u)
  BY AheadRead
<1>4. /\ s \in Seq(Symbols) /\ Len(s) = SIZE_WIDTH
      /\ y \in Seq(Symbols) /\ Len(y) = TYPE_WIDTH
      /\ p \in Seq(Symbols) /\ t \in Seq(Symbols)
      /\ q \in Seq(Symbols) /\ r \in Seq(Symbols) /\ h \in Seq(Symbols)
      /\ Ahead = s \o r /\ Ahead = h \o q
  BY WireParts
<1>5. /\ field = "size" => a = <<>>
      /\ field = "type" => a = s
      /\ field = "payload" => a = h
  <2>1. field # "size" => msg_size = TYPE_WIDTH + Len(m.payload)
    BY DEF InSync
  <2>2. field = "payload" => msg_type = m.message_type
    BY DEF InSync
  <2> QED BY <2>1, <2>2 DEF Header, SizeOf, TypeOf
<1>6. ASSUME field = "size", Len(letters) = SIZE_WIDTH PROVE letters = s
  <2> HIDE DEF letters, u, s, y, p, h, q, r, a
  <2>1. a \o (letters \o u) = a \o (s \o r)
    <3>1. s \o r \in Seq(Symbols) /\ a = <<>>
      BY <1>4, <1>5, <1>6, ConcatProperties
    <3> DEFINE z == s \o r
    <3>2. z \in Seq(Symbols) /\ Ahead = z
      BY <1>4, <3>1
    <3> HIDE DEF z
    <3>3. <<>> \o z = z
      BY <3>2, EmptyConcat
    <3>4. Ahead = <<>> \o z
      BY <3>2, <3>3
    <3> QED BY <1>3, <3>1, <3>4 DEF z
  <2>2. Len(letters) = Len(s)
    BY <1>4, <1>6
  <2>3. Joined(a, Joined(letters, u)) = Joined(a, Joined(s, r))
    BY <2>1 DEF Joined
  <2>4. letters = s /\ u = r
    BY <1>1, <1>2, <1>4, <2>2, <2>3, FieldMatches
  <2> QED BY <2>4
<1>7. ASSUME field = "type", Len(letters) = TYPE_WIDTH PROVE letters = y /\ u = q
  <2>1. a = s /\ Len(letters) = Len(y)
    BY <1>4, <1>5, <1>7
  <2>2. a \o (letters \o u) = a \o (y \o q)
    BY <1>3, <1>4, <2>1
  <2> HIDE DEF letters, u, s, y, p, h, q, r, a
  <2>3. Joined(a, Joined(letters, u)) = Joined(a, Joined(y, q))
    BY <2>2 DEF Joined
  <2>4. /\ a \in Seq(Symbols) /\ letters \in Seq(Symbols) /\ u \in Seq(Symbols)
        /\ y \in Seq(Symbols) /\ q \in Seq(Symbols)
    BY <1>1, <1>2, <1>4
  <2> QED BY <2>1, <2>3, <2>4, FieldMatches
<1>8. ASSUME field = "payload", Len(letters) = Len(p) PROVE letters = p /\ u = t
  <2>1. a = h /\ Len(letters) = Len(p)
    BY <1>5, <1>8
  <2>2. a \o (letters \o u) = a \o (p \o t)
    BY <1>3, <1>4, <2>1
  <2> HIDE DEF letters, u, s, y, p, h, q, r, a
  <2>3. Joined(a, Joined(letters, u)) = Joined(a, Joined(p, t))
    BY <2>2 DEF Joined
  <2>4. /\ a \in Seq(Symbols) /\ letters \in Seq(Symbols) /\ u \in Seq(Symbols)
        /\ p \in Seq(Symbols) /\ t \in Seq(Symbols)
    BY <1>1, <1>2, <1>4
  <2> QED BY <2>1, <2>3, <2>4, FieldMatches
<1> QED BY <1>6, <1>7, <1>8

\* The stream from the current message on is the same when a letter has only
\* moved, within a field or with the field into the header.
LEMMA AheadKept ==
    ASSUME TypeInv, line # <<>>, Head(line) # Damaged, line' = Tail(line), rest' = rest,
           \/ Header' = Header /\ data' = Append(data, Head(line))
           \/ Header' = Header \o Append(data, Head(line)) /\ data' = <<>>
    PROVE  Ahead' = Ahead
<1> DEFINE c == Header \o Append(data, Head(line))
<1>1. c \in Seq(Letters)
  BY HeaderType, LetterType, ConcatProperties
<1>2. Ahead = c \o (Tail(line) \o rest)
  BY AheadRead
<1>3. Ahead' = (Header' \o data') \o (Tail(line) \o rest)
  BY DEF Ahead
<1>4. Header' \o data' = c
  <2>1. CASE Header' = Header /\ data' = Append(data, Head(line))
    BY <2>1
  <2>2. CASE Header' = Header \o Append(data, Head(line)) /\ data' = <<>>
    <3>1. Header' = c
      BY <2>2
    <3> HIDE DEF c
    <3>2. c \o <<>> = c
      BY <1>1, EmptyConcat
    <3> QED BY <2>2, <3>1, <3>2
  <2> QED BY <2>1, <2>2
<1> HIDE DEF c
<1> QED BY <1>2, <1>3, <1>4

LEMMA SyncKept ==
    ASSUME NEW first, NEW base, InSync(first, base), Ahead' = Ahead,
           UNCHANGED <<sent, delivered, field, msg_size, msg_type>>
    PROVE  InSync(first, base)'
<1>1. Behind(first, base)' = Behind(first, base)
  BY DEF Behind
<1>2. Concatenates(Ahead, sent, Behind(first, base))' <=> Concatenates(Ahead, sent, Behind(first, base))
  BY <1>1 DEF Concatenates, Tails
<1> QED BY <1>1, <1>2 DEF InSync

\* The host has started the message that a letter belongs to.
LEMMA LetterOfMessage ==
    ASSUME TypeInv, NEW first \in 0..Len(sent), NEW base \in 0..Len(delivered),
           InSync(first, base), line # <<>>
    PROVE  Head(line) # Damaged /\ Behind(first, base) < Len(sent)
<1> DEFINE k == Behind(first, base)
           taken == Header \o data
           u == line \o rest
<1>1. /\ k \in Nat /\ Len(sent) \in Nat /\ k <= Len(sent) /\ k \in 0..Len(sent)
      /\ sent \in Seq(HostMessages) /\ Concatenates(Ahead, sent, k)
  BY BehindType DEF InSync, TypeInv, ProtocolTypeOK
<1>2. Ahead \in Seq(Letters) /\ (k = Len(sent) => Ahead = <<>>)
  <2> HIDE DEF k
  <2> QED BY <1>1, StreamEnds
<1>3. /\ line \in Seq(Symbols) /\ rest \in Seq(Symbols)
      /\ Header \in Seq(Symbols) /\ data \in Seq(Symbols)
  BY HeaderType, LettersAreSymbols DEF TypeInv, ProtocolTypeOK, Symbols
<1>4. taken \in Seq(Symbols) /\ u \in Seq(Symbols) /\ u # <<>> /\ u[1] = Head(line)
  BY <1>3, ConcatProperties
<1>5. Ahead = taken \o u
  BY DEF Ahead
<1> HIDE DEF taken, u
<1>6. /\ Len(taken) \in Nat /\ Len(u) \in Nat \ {0}
      /\ Len(taken \o u) = Len(taken) + Len(u)
      /\ (taken \o u)[Len(taken) + 1] = u[1]
  BY <1>4, ConcatProperties, EmptySeq, LenProperties
<1>7. Ahead # <<>>
  BY <1>5, <1>6, EmptySeq
<1>8. Ahead[Len(taken) + 1] \in Letters
  <2>1. Len(taken) + 1 \in 1..Len(Ahead)
    BY <1>5, <1>6
  <2> QED BY <1>2, <2>1, ElementOfSeq
<1>9. Head(line) # Damaged
  BY <1>4, <1>5, <1>6, <1>8, DamagedIsNoLetter
<1> QED BY <1>1, <1>2, <1>7, <1>9

\* A message handed to handle_message was the next one.
LEMMA SyncDelivered ==
    ASSUME TypeInv, NEW first \in 0..Len(sent), NEW base \in 0..Len(delivered),
           InSync(first, base), Behind(first, base) < Len(sent),
           NEW t \in Seq(Letters), Concatenates(t, sent, Behind(first, base) + 1),
           delivered' = Append(delivered, sent[Behind(first, base) + 1]),
           sent' = sent, field' = "size", data' = <<>>, line' \o rest' = t
    PROVE  InSync(first, base)'
<1> DEFINE k == Behind(first, base)
           n == Len(delivered)
<1>1. /\ k \in Nat /\ first \in Nat /\ base \in Nat /\ Len(sent) \in Nat /\ n \in Nat
      /\ n - base \in Nat /\ k = first + (n - base) /\ base <= n
  BY BehindType DEF Behind
<1>2. /\ Len(delivered') = n + 1 /\ delivered'[n + 1] = sent[k + 1]
      /\ \A i \in 1..n : delivered'[i] = delivered[i]
  <2>1. delivered \in Seq([message_type : Nat, payload : Seq(Letters)])
    BY DEF TypeInv, ProtocolTypeOK
  <2>2. sent[k + 1] \in HostMessages
    BY Current
  <2>3. \A x \in HostMessages : x \in [message_type : Nat, payload : Seq(Letters)]
    <3>1. 0..(TypeModulus - 1) \subseteq Nat
      BY ModuliAreNat
    <3> HIDE DEF TypeModulus
    <3> QED BY <3>1, ProtocolAssumption
  <2> DEFINE x == sent[k + 1]
  <2>4. x \in [message_type : Nat, payload : Seq(Letters)] /\ delivered' = Append(delivered, x)
    BY <2>2, <2>3
  <2> HIDE DEF x
  <2>5. /\ Len(delivered') = n + 1 /\ delivered'[n + 1] = x
        /\ \A i \in 1..n : delivered'[i] = delivered[i]
    BY <2>1, <2>4, AppendProperties
  <2> QED BY <2>5 DEF x
<1>3. Behind(first, base)' = k + 1
  BY <1>1, <1>2 DEF Behind
<1>4. /\ k < Len(sent) /\ \A i \in 1..(n - base) : delivered[base + i] = sent[first + i]
      /\ \A i \in (first + 1)..Len(sent) : WellSized(sent[i])
  BY DEF InSync
<1> HIDE DEF k, n
<1>5. Behind(first, base)' <= Len(sent')
  BY <1>1, <1>3, <1>4
<1>6. ASSUME NEW i \in 1..(Len(delivered') - base) PROVE delivered'[base + i] = sent'[first + i]
  <2>1. i \in Nat /\ i >= 1 /\ i <= n + 1 - base
    BY <1>1, <1>2
  <2>2. CASE i = n + 1 - base
    <3>1. base + i = n + 1 /\ first + i = k + 1
      BY <1>1, <2>2
    <3> QED BY <1>2, <3>1
  <2>3. CASE i # n + 1 - base
    <3>1. i \in 1..(n - base) /\ base + i \in 1..n
      BY <1>1, <2>1, <2>3
    <3> QED BY <1>2, <1>4, <3>1
  <2> QED BY <2>2, <2>3
<1>7. Ahead' = t
  <2>1. Header' = <<>>
    BY DEF Header
  <2>2. <<>> \o <<>> = <<>>
    BY EmptySeq, EmptyConcat
  <2>3. <<>> \o t = t
    BY EmptyConcat
  <2> QED BY <2>1, <2>2, <2>3 DEF Ahead
<1>8. Concatenates(Ahead, sent, Behind(first, base))'
  <2>1. Concatenates(t, sent, k + 1)
    BY DEF k
  <2> QED BY <1>3, <1>7, <2>1 DEF Concatenates, Tails
<1> QED BY <1>4, <1>5, <1>6, <1>8 DEF InSync

LEMMA SyncReceive ==
    ASSUME TypeInv, NEW first \in 0..Len(sent), NEW base \in 0..Len(delivered),
           InSync(first, base), Receive
    PROVE  InSync(first, base)'
<1> DEFINE k == Behind(first, base)
           m == sent[k + 1]
           letters == Append(data, Head(line))
<1>1. /\ line # <<>> /\ Head(line) # Damaged /\ line' = Tail(line)
      /\ UNCHANGED <<rest, sent, clean, disturbed>>
      /\ ReadSize(letters) \/ ReadType(letters) \/ ReadPayload(letters)
  BY DEF Receive
<1>2. k < Len(sent)
  BY <1>1, LetterOfMessage
<1>3. /\ m \in HostMessages /\ TYPE_WIDTH + Len(m.payload) \in 0..MAX_MESSAGE_SIZE_BYTES
      /\ \E t \in Seq(Letters) : Concatenates(t, sent, k + 1) /\ Ahead = Before(m, t)
  BY <1>2, Current
<1>4. PICK t \in Seq(Letters) : Concatenates(t, sent, k + 1) /\ Ahead = Before(m, t)
  BY <1>3
<1>5. /\ field = "size" /\ Len(letters) = SIZE_WIDTH => letters = SizeOf(m)
      /\ field = "type" /\ Len(letters) = TYPE_WIDTH =>
             letters = TypeOf(m) /\ Tail(line) \o rest = m.payload \o t
      /\ field = "payload" /\ Len(letters) = Len(m.payload) =>
             letters = m.payload /\ Tail(line) \o rest = t
  BY <1>1, <1>3, <1>4, ReadMatches
<1>6. /\ letters \in Seq(Letters) /\ Len(letters) = Len(data) + 1 /\ Len(data) \in Nat
      /\ Len(data) < FieldWidth
  BY <1>1, LetterType DEF TypeInv, FieldOk
<1>7. /\ SIZE_WIDTH \in Nat /\ TYPE_WIDTH \in Nat /\ MAX_MESSAGE_SIZE_BYTES \in Nat
      /\ m.payload \in Seq(Letters) /\ Len(m.payload) \in Nat
      /\ m.message_type \in 0..(TypeModulus - 1)
  BY <1>3, WireType, ModuliAreNat, ProtocolAssumption, LenProperties
<1>8. field # "size" =>
          msg_size = TYPE_WIDTH + Len(m.payload) /\ PayloadLength(msg_size) = Len(m.payload)
  <2> SUFFICES ASSUME field # "size"
               PROVE  /\ msg_size = TYPE_WIDTH + Len(m.payload)
                      /\ PayloadLength(msg_size) = Len(m.payload)
    OBVIOUS
  <2>1. msg_size = TYPE_WIDTH + Len(m.payload)
    BY DEF InSync
  <2>2. msg_size \in 0..MAX_MESSAGE_SIZE_BYTES
    BY <1>3, <2>1
  <2>3. msg_size >= TYPE_WIDTH => PayloadLength(msg_size) = msg_size - TYPE_WIDTH
    BY <2>2, PayloadLengthOf
  <2> HIDE DEF m
  <2> QED BY <1>7, <2>1, <2>3
<1>9. field = "payload" => msg_type = m.message_type
  BY DEF InSync
\* The field goes on.
<1>10. ASSUME data' = letters, UNCHANGED <<field, msg_size, msg_type, delivered>>
       PROVE  InSync(first, base)'
  <2>1. Header' = Header
    BY <1>10 DEF Header, Encoded
  <2>2. Ahead' = Ahead
    BY <1>1, <1>10, <2>1, AheadKept
  <2> QED BY <1>1, <1>10, <2>2, SyncKept
\* The message is complete.
<1>11. ASSUME NEW type, NEW payload, Deliver(type, payload), type = m.message_type,
              payload = m.payload, Tail(line) \o rest = t
       PROVE  InSync(first, base)'
  <2>1. m = [message_type |-> m.message_type, payload |-> m.payload]
    <3>1. m \in [message_type : 0..(TypeModulus - 1), payload : Seq(Letters)]
      BY <1>3, ProtocolAssumption
    <3> HIDE DEF m, TypeModulus
    <3> QED BY <3>1
  <2>2. delivered' = Append(delivered, m) /\ field' = "size" /\ data' = <<>>
    BY <1>11, <2>1 DEF Deliver, Again
  <2>3. line' \o rest' = t
    BY <1>1, <1>11
  <2> QED BY <1>1, <1>2, <1>4, <2>2, <2>3, SyncDelivered
<1>12. CASE ReadSize(letters)
  <2>1. field = "size" /\ UNCHANGED <<msg_type, delivered>>
    BY <1>12 DEF ReadSize
  <2>2. CASE Len(letters) < SIZE_WIDTH
    <3>1. data' = letters /\ UNCHANGED <<field, msg_size>>
      BY <1>12, <2>2 DEF ReadSize
    <3> QED BY <1>10, <2>1, <3>1
  <2>3. CASE ~(Len(letters) < SIZE_WIDTH)
    <3>1. Len(letters) = SIZE_WIDTH
      BY <1>6, <1>7, <2>1, <2>3 DEF FieldWidth
    <3> DEFINE n == TYPE_WIDTH + Len(m.payload)
    <3>2. letters = Encoded(n, SIZE_WIDTH)
      BY <1>5, <2>1, <3>1 DEF SizeOf
    <3>3. n \in 0..MAX_MESSAGE_SIZE_BYTES
      BY <1>3
    <3> HIDE DEF n
    <3>4. Decoded(letters) = n
      <4>1. n \in 0..(PlaceValue[SIZE_WIDTH] - 1)
        BY <1>7, <3>3, ModuliAreNat, ProtocolAssumption DEF SizeModulus
      <4> QED BY <1>7, <3>2, <4>1, DecodesEncoded
    <3>5. ~(Decoded(letters) > MAX_MESSAGE_SIZE_BYTES)
      BY <1>7, <3>3, <3>4
    <3>6. field' = "type" /\ data' = <<>> /\ msg_size' = n
      BY <1>12, <2>3, <3>4, <3>5 DEF ReadSize
    <3>7. Ahead' = Ahead
      <4>1. Header' = letters /\ Header = <<>>
        BY <2>1, <3>2, <3>6 DEF Header, Encoded
      <4>2. <<>> \o letters = letters
        BY <1>6, EmptyConcat
      <4>3. Header' = Header \o letters
        BY <4>1, <4>2
      <4> QED BY <1>1, <3>6, <4>3, AheadKept
    <3>8. Behind(first, base)' = k
      BY <2>1 DEF Behind
    <3>9. Concatenates(Ahead, sent, Behind(first, base))'
      <4>1. Concatenates(Ahead, sent, k)
        BY DEF InSync
      <4> QED BY <1>1, <3>7, <3>8, <4>1 DEF Concatenates, Tails
    <3>10. field' # "size" =>
             /\ Behind(first, base)' < Len(sent')
             /\ msg_size' = TYPE_WIDTH + Len(sent'[Behind(first, base)' + 1].payload)
      BY <1>1, <1>2, <3>6, <3>8 DEF n
    <3> QED BY <1>1, <2>1, <3>6, <3>8, <3>9, <3>10 DEF InSync
  <2> QED BY <2>2, <2>3
<1>13. CASE ReadType(letters)
  <2>1. field = "type" /\ UNCHANGED msg_size
    BY <1>13 DEF ReadType
  <2>2. CASE Len(letters) < TYPE_WIDTH
    <3>1. data' = letters /\ UNCHANGED <<field, msg_type, delivered>>
      BY <1>13, <2>2 DEF ReadType
    <3> QED BY <1>10, <2>1, <3>1
  <2>3. CASE ~(Len(letters) < TYPE_WIDTH)
    <3>1. Len(letters) = TYPE_WIDTH
      BY <1>6, <1>7, <2>1, <2>3 DEF FieldWidth
    <3>2. letters = Encoded(m.message_type, TYPE_WIDTH) /\ Tail(line) \o rest = m.payload \o t
      BY <1>5, <2>1, <3>1 DEF TypeOf
    <3>3. Decoded(letters) = m.message_type
      BY <1>7, <3>2, DecodesEncoded DEF TypeModulus
    <3>4. msg_type' = m.message_type
      BY <1>13, <2>3, <3>3 DEF ReadType
    <3>5. CASE PayloadLength(msg_size) = 0
      <4>1. Deliver(msg_type', <<>>)
        BY <1>13, <2>3, <3>5 DEF ReadType
      <4>2. m.payload = <<>>
        BY <1>7, <1>8, <2>1, <3>5, EmptySeq
      <4>3. Tail(line) \o rest = t
        <5>1. <<>> \o t = t
          BY EmptyConcat
        <5> QED BY <3>2, <4>2, <5>1
      <4> QED BY <1>11, <3>4, <4>1, <4>2, <4>3
    <3>6. CASE PayloadLength(msg_size) # 0
      <4>1. field' = "payload" /\ data' = <<>> /\ UNCHANGED delivered
        BY <1>13, <2>3, <3>6 DEF ReadType
      <4>2. Ahead' = Ahead
        <5>1. Header = Encoded(msg_size, SIZE_WIDTH)
          BY <2>1 DEF Header
        <5>2. Header' = Encoded(msg_size, SIZE_WIDTH) \o Encoded(msg_type', TYPE_WIDTH)
          BY <2>1, <4>1 DEF Header, Encoded
        <5>3. Header' = Header \o letters
          BY <3>2, <3>4, <5>1, <5>2
        <5> QED BY <1>1, <4>1, <5>3, AheadKept
      <4>3. Behind(first, base)' = k
        BY <4>1 DEF Behind
      <4>4. Concatenates(Ahead, sent, Behind(first, base))'
        <5>1. Concatenates(Ahead, sent, k)
          BY DEF InSync
        <5> QED BY <1>1, <4>2, <4>3, <5>1 DEF Concatenates, Tails
      <4>5. /\ msg_size' = TYPE_WIDTH + Len(sent'[Behind(first, base)' + 1].payload)
            /\ msg_type' = sent'[Behind(first, base)' + 1].message_type
            /\ Behind(first, base)' < Len(sent')
        BY <1>1, <1>2, <1>8, <2>1, <3>4, <4>3
      <4> QED BY <1>1, <4>1, <4>3, <4>4, <4>5 DEF InSync
    <3> QED BY <3>5, <3>6
  <2> QED BY <2>2, <2>3
<1>14. CASE ReadPayload(letters)
  <2>1. field = "payload" /\ UNCHANGED <<msg_size, msg_type>>
    BY <1>14 DEF ReadPayload
  <2>2. PayloadLength(msg_size) = Len(m.payload)
    BY <1>8, <2>1
  <2>3. CASE Len(letters) < PayloadLength(msg_size)
    <3>1. data' = letters /\ UNCHANGED <<field, delivered>>
      BY <1>14, <2>3 DEF ReadPayload
    <3> QED BY <1>10, <2>1, <3>1
  <2>4. CASE ~(Len(letters) < PayloadLength(msg_size))
    <3>1. Len(letters) = Len(m.payload)
      BY <1>6, <1>7, <2>1, <2>2, <2>4 DEF FieldWidth
    <3>2. letters = m.payload /\ Tail(line) \o rest = t
      BY <1>5, <2>1, <3>1
    <3>3. Deliver(msg_type, letters)
      BY <1>14, <2>4 DEF ReadPayload
    <3> QED BY <1>9, <1>11, <2>1, <3>2, <3>3
  <2> QED BY <2>3, <2>4
<1> QED BY <1>1, <1>12, <1>13, <1>14

----------------------------------------------------------------------------
(* Every step *)

LEMMA SyncHostStarts ==
    ASSUME TypeInv, NEW first \in 0..Len(sent), NEW base \in 0..Len(delivered),
           InSync(first, base), NEW m \in HostMessages, HostStarts(m), WellSized(m)
    PROVE  InSync(first, base)'
<1> DEFINE k == Behind(first, base)
           n == Len(sent)
<1>1. /\ rest = <<>> /\ sent' = Append(sent, m) /\ rest' = Wire(m)
      /\ UNCHANGED <<line, field, data, msg_size, msg_type, delivered>>
  BY DEF HostStarts, receiver
<1>2. /\ k \in Nat /\ first \in Nat /\ n \in Nat /\ Len(delivered) - base \in Nat
      /\ k = first + (Len(delivered) - base)
  BY BehindType DEF Behind
<1>3. sent \in Seq(HostMessages)
  BY DEF TypeInv, ProtocolTypeOK
<1>4. /\ Len(sent') = n + 1 /\ sent'[n + 1] = m
      /\ \A i \in 1..n : sent'[i] = sent[i]
  BY <1>1, <1>3, AppendProperties
<1>5. Behind(first, base)' = k
  BY <1>1 DEF Behind
<1>6. /\ k <= n /\ \A i \in 1..(Len(delivered) - base) : delivered[base + i] = sent[first + i]
      /\ \A i \in (first + 1)..n : WellSized(sent[i])
      /\ Concatenates(Ahead, sent, k)
      /\ field # "size" => k < n /\ msg_size = TYPE_WIDTH + Len(sent[k + 1].payload)
      /\ field = "payload" => k < n /\ msg_type = sent[k + 1].message_type
  BY DEF InSync
<1> HIDE DEF k, n
<1>7. \A i \in 1..(Len(delivered) - base) : first + i \in 1..n
  BY <1>2, <1>6
<1>8. ASSUME NEW i \in (first + 1)..(n + 1) PROVE WellSized(sent'[i])
  <2>1. CASE i = n + 1
    BY <1>4, <2>1
  <2>2. CASE i # n + 1
    <3>1. i \in (first + 1)..n /\ i \in 1..n
      BY <1>2, <2>2
    <3> QED BY <1>4, <1>6, <3>1
  <2> QED BY <2>1, <2>2
<1>9. Concatenates(Ahead, sent, Behind(first, base))'
  <2> DEFINE a == Ahead
             taken == Header \o data
             w == Wire(m)
  <2>1. Concatenates(a \o Wire(m), Append(sent, m), k)
    <3>1. k \in 0..Len(sent)
      BY <1>2, <1>6 DEF n
    <3>2. Concatenates(a, sent, k)
      BY <1>6
    <3> HIDE DEF a
    <3> QED BY <1>3, <3>1, <3>2, StreamGrows
  <2>2. Ahead' = a \o w
    <3>1. Header' = Header
      BY <1>1 DEF Header, Encoded
    <3>2. Ahead' = taken \o (line \o w)
      BY <1>1, <3>1 DEF Ahead
    <3>3. a = taken \o line
      <4>1. line \o <<>> = line
        BY EmptyConcat DEF TypeInv, ProtocolTypeOK
      <4> QED BY <1>1, <4>1 DEF Ahead
    <3>4. taken \in Seq(Symbols) /\ line \in Seq(Symbols) /\ w \in Seq(Symbols)
      <4>1. taken \in Seq(Letters)
        BY HeaderType, ConcatProperties DEF TypeInv, ProtocolTypeOK
      <4>2. line \in Seq(Symbols)
        BY DEF TypeInv, ProtocolTypeOK, Symbols
      <4>3. w \in Seq(Letters)
        BY WireType
      <4> HIDE DEF taken, w
      <4> QED BY <4>1, <4>2, <4>3, LettersAreSymbols
    <3> HIDE DEF taken, w, a
    <3>5. (taken \o line) \o w = taken \o (line \o w)
      <4>1. Joined(Joined(taken, line), w) = Joined(taken, Joined(line, w))
        BY <3>4, JoinedAssociative
      <4> QED BY <4>1 DEF Joined
    <3> QED BY <3>2, <3>3, <3>5
  <2>3. Concatenates(Ahead', sent', k)
    BY <1>1, <2>1, <2>2
  <2> QED BY <1>5, <2>3 DEF Concatenates, Tails
<1>10. \A i \in 1..(Len(delivered') - base) : delivered'[base + i] = sent'[first + i]
  BY <1>1, <1>4, <1>6, <1>7
<1>11. k < n => sent'[k + 1] = sent[k + 1]
  <2>1. k < n => k + 1 \in 1..n
    BY <1>2
  <2> QED BY <1>4, <2>1
<1>12. k <= n + 1 /\ (k < n => k < n + 1)
  BY <1>2, <1>6
<1>13. /\ field' # "size" => k < n + 1 /\ msg_size' = TYPE_WIDTH + Len(sent'[k + 1].payload)
       /\ field' = "payload" => msg_type' = sent'[k + 1].message_type
  BY <1>1, <1>6, <1>11, <1>12
<1> QED BY <1>4, <1>5, <1>8, <1>9, <1>10, <1>12, <1>13 DEF InSync

\* A message that finds the receiver waiting with nothing to read starts anew.
LEMMA SyncStartsAnew ==
    ASSUME TypeInv, NEW m \in HostMessages, HostStarts(m), WellSized(m),
           AtBoundary, line = <<>>, NEW first, first = Len(sent), NEW base, base = Len(delivered)
    PROVE  InSync(first, base)'
<1>1. /\ sent' = Append(sent, m) /\ rest' = Wire(m)
      /\ UNCHANGED <<line, field, data, msg_size, msg_type, delivered>>
      /\ field = "size" /\ data = <<>>
  BY DEF HostStarts, receiver, AtBoundary
<1>2. /\ sent \in Seq(HostMessages) /\ first \in Nat /\ base \in Nat
  BY LenProperties DEF TypeInv, ProtocolTypeOK
<1>3. Len(sent') = first + 1 /\ sent'[first + 1] = m
  BY <1>1, <1>2, AppendProperties
<1>4. Behind(first, base)' = first
  BY <1>1, <1>2 DEF Behind
<1> DEFINE w == Wire(m)
<1>5. <<>> \o w = w /\ <<>> \o <<>> = <<>> /\ w \in Seq(Letters)
  <2>1. w \in Seq(Letters) /\ <<>> \in Seq(Letters)
    BY WireType, EmptySeq
  <2> HIDE DEF w
  <2> QED BY <2>1, EmptyConcat
<1>6. Ahead' = <<>> \o w
  BY <1>1, <1>5 DEF Ahead, Header
<1>7. Concatenates(<<>> \o w, Append(sent, m), first)
  <2>1. Concatenates(<<>>, sent, first) /\ first \in 0..Len(sent)
    BY <1>2, NothingLeft
  <2> QED BY <1>2, <2>1, StreamGrows
<1>8. Concatenates(Ahead', sent', first)
  BY <1>1, <1>6, <1>7
<1>9. Concatenates(Ahead, sent, Behind(first, base))'
  BY <1>4, <1>8 DEF Concatenates, Tails
<1>10. \A i \in 1..(Len(delivered') - base) : delivered'[base + i] = sent'[first + i]
  BY <1>1, <1>2
<1>11. \A i \in (first + 1)..Len(sent') : WellSized(sent'[i])
  BY <1>2, <1>3
<1> QED BY <1>1, <1>2, <1>3, <1>4, <1>9, <1>10, <1>11 DEF InSync

\* A step that leaves an undisturbed message undisturbed keeps the two in step.
LEMMA InSyncKept ==
    ASSUME TypeInv, [Next]_vars, NEW first \in 0..Len(sent), NEW base \in 0..Len(delivered),
           InSync(first, base), clean'
    PROVE  InSync(first, base)'
<1>1. ASSUME NEW m \in HostMessages, HostStarts(m) PROVE InSync(first, base)'
  <2>1. WellSized(m)
    BY <1>1 DEF HostStarts
  <2> QED BY <1>1, <2>1, SyncHostStarts
<1>2. CASE HostSends
  <2>1. /\ rest # <<>> /\ rest' = Tail(rest) /\ line' = Append(line, Head(rest))
        /\ UNCHANGED <<sent, field, data, msg_size, msg_type, delivered>>
    BY <1>2 DEF HostSends, receiver
  <2>2. line \in Seq(Symbols) /\ rest \in Seq(Symbols)
    BY LettersAreSymbols DEF TypeInv, ProtocolTypeOK, Symbols
  <2>3. line \o rest = line' \o rest'
    BY <2>1, <2>2, LetterSent
  <2>4. Header' = Header
    BY <2>1 DEF Header, Encoded
  <2>5. Ahead' = Ahead
    BY <2>1, <2>3, <2>4 DEF Ahead
  <2> QED BY <2>1, <2>5, SyncKept
<1>3. CASE Damage \/ Overrun
  BY <1>3 DEF Damage, Overrun
<1>4. CASE Receive
  BY <1>4, SyncReceive
<1>5. CASE ReceiveError
  BY <1>5, LetterOfMessage DEF ReceiveError
<1>6. CASE ReceiveTimeout
  <2>1. line = <<>> /\ rest = <<>>
    BY <1>6 DEF ReceiveTimeout
  <2>2. field = "size" /\ data = <<>>
    BY <2>1, AtRest DEF AtBoundary
  <2>3. UNCHANGED <<line, rest, sent, field, data, msg_size, msg_type, delivered>>
    BY <1>6, <2>2 DEF ReceiveTimeout, Again
  <2>4. Header' = Header
    BY <2>3 DEF Header, Encoded
  <2>5. Ahead' = Ahead
    BY <2>3, <2>4 DEF Ahead
  <2> QED BY <2>3, <2>5, SyncKept
<1>7. CASE UNCHANGED vars
  <2>1. UNCHANGED <<line, rest, sent, field, data, msg_size, msg_type, delivered>>
    BY <1>7 DEF vars
  <2>2. Header' = Header
    BY <2>1 DEF Header, Encoded
  <2>3. Ahead' = Ahead
    BY <2>1, <2>2 DEF Ahead
  <2> QED BY <2>1, <2>3, SyncKept
<1> QED BY <1>1, <1>2, <1>3, <1>4, <1>5, <1>6, <1>7 DEF Next, receive_message

\* Histories only grow.
LEMMA HistoriesGrow ==
    ASSUME TypeInv, [Next]_vars
    PROVE  /\ Len(sent) <= Len(sent') /\ Len(delivered) <= Len(delivered')
           /\ sent' = sent \/ \E m \in HostMessages : HostStarts(m)
           /\ sent' = sent => \/ delivered' = delivered
                              \/ \E x : delivered' = Append(delivered, x)
           /\ sent' # sent => delivered' = delivered
           /\ Len(sent') = Len(sent) + 1 \/ sent' = sent
           /\ disturbed => disturbed'
<1>1. sent \in Seq(HostMessages) /\ delivered \in Seq([message_type : Nat, payload : Seq(Letters)])
  BY DEF TypeInv, ProtocolTypeOK
<1>2. Len(sent) \in Nat /\ Len(delivered) \in Nat
  BY <1>1, LenProperties
<1>3. ASSUME NEW m \in HostMessages, HostStarts(m)
      PROVE  Len(sent') = Len(sent) + 1 /\ delivered' = delivered /\ (disturbed => disturbed')
  BY <1>1, <1>3, AppendProperties DEF HostStarts, receiver
<1>4. ASSUME HostSends \/ Damage \/ Overrun \/ ReceiveError \/ ReceiveTimeout \/ UNCHANGED vars
      PROVE  sent' = sent /\ delivered' = delivered /\ (disturbed => disturbed')
  <2>1. CASE HostSends
    BY <2>1 DEF HostSends, receiver
  <2>2. CASE Damage \/ Overrun
    BY <2>2 DEF Damage, Overrun, receiver
  <2>3. CASE ReceiveError
    BY <2>3 DEF ReceiveError
  <2>4. CASE ReceiveTimeout
    BY <2>4 DEF ReceiveTimeout
  <2>5. CASE UNCHANGED vars
    BY <2>5 DEF vars
  <2> QED BY <1>4, <2>1, <2>2, <2>3, <2>4, <2>5
<1>5. ASSUME Receive
      PROVE  /\ sent' = sent /\ disturbed' = disturbed
             /\ delivered' = delivered \/ \E x : delivered' = Append(delivered, x)
  <2>1. sent' = sent /\ disturbed' = disturbed
    BY <1>5 DEF Receive
  <2>2. PICK letters : ReadSize(letters) \/ ReadType(letters) \/ ReadPayload(letters)
    BY <1>5 DEF Receive
  <2>3. delivered' = delivered \/ \E x : delivered' = Append(delivered, x)
    BY <2>2, Zenon DEF ReadSize, ReadType, ReadPayload, Deliver
  <2> QED BY <2>1, <2>3
<1>6. ASSUME NEW x, delivered' = Append(delivered, x) PROVE Len(delivered') = Len(delivered) + 1
  <2> DEFINE T == [message_type : Nat, payload : Seq(Letters)]
  <2>1. delivered \in Seq(T \cup {x})
    BY <1>1, SeqMonotonic
  <2> HIDE DEF T
  <2> QED BY <1>6, <2>1, AppendProperties
<1>7. \/ \E m \in HostMessages : HostStarts(m)
      \/ HostSends \/ Damage \/ Overrun \/ ReceiveError \/ ReceiveTimeout \/ UNCHANGED vars
      \/ Receive
  BY DEF Next, receive_message
<1>8. CASE \E m \in HostMessages : HostStarts(m)
  <2>1. Len(sent') = Len(sent) + 1 /\ delivered' = delivered /\ (disturbed => disturbed')
    BY <1>3, <1>8
  <2>2. sent' # sent
    BY <1>2, <2>1
  <2> QED BY <1>2, <1>8, <2>1, <2>2
<1>9. CASE HostSends \/ Damage \/ Overrun \/ ReceiveError \/ ReceiveTimeout \/ UNCHANGED vars
  BY <1>2, <1>4, <1>9
<1>10. CASE Receive
  <2>1. Len(delivered) <= Len(delivered')
    BY <1>2, <1>5, <1>6, <1>10
  <2> QED BY <1>2, <1>5, <1>10, <2>1
<1> QED BY <1>7, <1>8, <1>9, <1>10

LEMMA SyncInvKept == TypeInv /\ TypeInv' /\ SyncInv /\ [Next]_vars => SyncInv'
<1> SUFFICES ASSUME TypeInv, TypeInv', SyncInv, [Next]_vars PROVE SyncInv'
  OBVIOUS
<1>1. /\ Len(sent) \in Nat /\ Len(delivered) \in Nat
      /\ Len(sent') \in Nat /\ Len(delivered') \in Nat
  BY LenProperties DEF TypeInv, ProtocolTypeOK
<1>2. Len(sent) <= Len(sent') /\ Len(delivered) <= Len(delivered')
  BY HistoriesGrow
<1>3. ASSUME clean'
      PROVE  \E first \in 0..Len(sent'), base \in 0..Len(delivered') :
                 InSync(first, base)' /\ (first < Len(sent') \/ sent' = <<>>)
  <2>1. CASE clean
    <3>1. PICK first \in 0..Len(sent), base \in 0..Len(delivered) :
              InSync(first, base) /\ (first < Len(sent) \/ sent = <<>>)
      BY <2>1 DEF SyncInv
    <3>2. InSync(first, base)'
      BY <1>3, <3>1, InSyncKept
    <3>3. first \in 0..Len(sent') /\ base \in 0..Len(delivered')
      BY <1>1, <1>2
    <3>4. first < Len(sent') \/ sent' = <<>>
      <4>1. CASE sent' = sent
        BY <3>1, <4>1
      <4>2. CASE Len(sent') = Len(sent) + 1
        BY <1>1, <4>2
      <4> QED BY <4>1, <4>2, HistoriesGrow
    <3> QED BY <3>2, <3>3, <3>4
  <2>2. CASE ~clean
    <3>1. \A m \in HostMessages : HostStarts(m) =>
              WellSized(m) /\ AtBoundary /\ line = <<>>
      BY <1>3, <2>2 DEF HostStarts
    <3>2. \E m \in HostMessages : HostStarts(m)
      <4>1. CASE HostSends
        BY <1>3, <2>2, <4>1 DEF HostSends
      <4>2. CASE Damage \/ Overrun
        BY <1>3, <4>2 DEF Damage, Overrun
      <4>3. CASE Receive
        BY <1>3, <2>2, <4>3 DEF Receive
      <4>4. CASE ReceiveError
        BY <1>3, <2>2, <4>4 DEF ReceiveError
      <4>5. CASE ReceiveTimeout
        BY <1>3, <2>2, <4>5 DEF ReceiveTimeout
      <4>6. CASE UNCHANGED vars
        BY <1>3, <2>2, <4>6 DEF vars
      <4> QED BY <4>1, <4>2, <4>3, <4>4, <4>5, <4>6 DEF Next, receive_message
    <3>3. PICK m \in HostMessages : HostStarts(m)
      BY <3>2
    <3> DEFINE InStep(first, base) == InSync(first, base)'
    <3>4. ASSUME NEW first, first = Len(sent), NEW base, base = Len(delivered)
          PROVE  InStep(first, base)
      BY <3>1, <3>3, <3>4, SyncStartsAnew
    <3> HIDE DEF InStep
    <3>5. PICK first \in Nat, base \in Nat : first = Len(sent) /\ base = Len(delivered)
      BY <1>1
    <3>6. InStep(first, base)
      BY <3>4, <3>5
    <3>7. first \in 0..Len(sent') /\ base \in 0..Len(delivered')
      BY <1>1, <1>2, <3>5
    <3>8. first < Len(sent')
      <4>1. Len(sent') = Len(sent) + 1
        BY <3>3, AppendProperties DEF HostStarts, TypeInv, ProtocolTypeOK
      <4> QED BY <1>1, <3>5, <4>1
    <3> QED BY <3>6, <3>7, <3>8 DEF InStep
  <2> QED BY <2>1, <2>2
<1>4. ASSUME ~disturbed' PROVE clean' /\ InSync(0, 0)'
  <2>1. ~disturbed
    BY <1>4, HistoriesGrow
  <2>2. clean /\ InSync(0, 0)
    BY <2>1 DEF SyncInv
  <2>3. clean'
    <3>1. ASSUME NEW m \in HostMessages, HostStarts(m) PROVE clean'
      BY <1>4, <2>1, <2>2, <3>1 DEF HostStarts
    <3>2. CASE HostSends
      BY <2>2, <3>2 DEF HostSends
    <3>3. CASE Damage \/ Overrun
      BY <1>4, <3>3 DEF Damage, Overrun
    <3>4. CASE Receive
      BY <2>2, <3>4 DEF Receive
    <3>5. CASE ReceiveError
      BY <2>2, <3>5 DEF ReceiveError
    <3>6. CASE ReceiveTimeout
      BY <1>4, <2>2, <3>6 DEF ReceiveTimeout
    <3>7. CASE UNCHANGED vars
      BY <2>2, <3>7 DEF vars
    <3> QED BY <3>1, <3>2, <3>3, <3>4, <3>5, <3>6, <3>7 DEF Next, receive_message
  <2>4. 0 \in 0..Len(sent) /\ 0 \in 0..Len(delivered)
    BY <1>1
  <2> QED BY <2>2, <2>3, <2>4, InSyncKept
<1> QED BY <1>3, <1>4 DEF SyncInv

----------------------------------------------------------------------------
(* Theorems *)

(***************************************************************************)
(* The receive FIFO holds no more than it can, what is kept of a message   *)
(* are bytes, and the type that was decoded is one of its width.           *)
(***************************************************************************)
THEOREM ProtocolTypes == Spec => []ProtocolTypeOK
<1>1. Init => TypeInv
  BY TypeStarts
<1>2. TypeInv /\ [Next]_vars => TypeInv'
  BY TypeKept
<1>3. TypeInv => ProtocolTypeOK
  BY DEF TypeInv
<1> QED BY <1>1, <1>2, <1>3, PTL DEF Spec

(***************************************************************************)
(* Receiver and host are in step for as long as nothing is damaged,        *)
(* oversized or paused in, and again after each silence that the receiver  *)
(* waits out.                                                              *)
(***************************************************************************)
THEOREM StaysInStep == Spec => [](TypeInv /\ SyncInv)
<1>1. Init => TypeInv /\ SyncInv
  BY TypeStarts, SyncStarts
<1>2. TypeInv /\ SyncInv /\ [Next]_vars => (TypeInv /\ SyncInv)'
  BY TypeKept, SyncInvKept
<1> QED BY <1>1, <1>2, PTL DEF Spec

\* In step, the payload is that of a message the buffer holds.
LEMMA FitsInStep ==
    TypeInv /\ SyncInv /\ field = "payload" /\ ~disturbed
        => PayloadLength(msg_size) <= PayloadRoom
<1> SUFFICES ASSUME TypeInv, SyncInv, field = "payload", ~disturbed
             PROVE  PayloadLength(msg_size) <= PayloadRoom
  OBVIOUS
<1>1. InSync(0, 0)
  BY DEF SyncInv
<1>2. 0 \in 0..Len(sent) /\ 0 \in 0..Len(delivered)
  BY LenProperties DEF TypeInv, ProtocolTypeOK
<1> DEFINE m == sent[Behind(0, 0) + 1]
           l == Len(m.payload)
<1>3. Behind(0, 0) < Len(sent) /\ msg_size = TYPE_WIDTH + l
  BY <1>1 DEF InSync
<1>4. m \in HostMessages /\ WellSized(m) /\ TYPE_WIDTH + l \in 0..MAX_MESSAGE_SIZE_BYTES
  BY <1>1, <1>2, <1>3, Current
<1>5. l \in Nat /\ l <= PayloadRoom /\ TYPE_WIDTH \in Nat
  BY <1>4, WireType, LenProperties, ProtocolAssumption DEF WellSized
<1>6. msg_size >= TYPE_WIDTH => PayloadLength(msg_size) = msg_size - TYPE_WIDTH
  BY <1>3, <1>4, PayloadLengthOf
<1> HIDE DEF l
<1> QED BY <1>3, <1>5, <1>6

\* Whatever is taken for a size, the limit lets a payload end no further behind
\* the buffer than the size field is wide.
LEMMA LimitBoundsPayload ==
    TypeInv /\ msg_size >= TYPE_WIDTH
        => PayloadLength(msg_size) <= PayloadRoom + SIZE_WIDTH
<1> SUFFICES ASSUME TypeInv, msg_size >= TYPE_WIDTH
             PROVE  PayloadLength(msg_size) <= PayloadRoom + SIZE_WIDTH
  OBVIOUS
<1>1. /\ msg_size \in 0..MAX_MESSAGE_SIZE_BYTES /\ MAX_MESSAGE_SIZE_BYTES \in Nat
      /\ SIZE_WIDTH \in Nat /\ TYPE_WIDTH \in Nat
  BY ModuliAreNat, ProtocolAssumption DEF TypeInv, ProtocolTypeOK
<1>2. PayloadLength(msg_size) = msg_size - TYPE_WIDTH
  BY <1>1, PayloadLengthOf
<1> QED BY <1>1, <1>2 DEF PayloadRoom

(***************************************************************************)
(* A payload that receive_message reads fits the message buffer while the  *)
(* host sends messages the buffer holds and nothing disturbs them, and     *)
(* never ends further behind it than the size field is wide, unless the    *)
(* size it was taken from does not even count the type.                    *)
(***************************************************************************)
THEOREM PayloadsFit == Spec => []PayloadFits
<1>1. TypeInv /\ SyncInv => PayloadFits
  BY FitsInStep, LimitBoundsPayload DEF PayloadFits
<1> QED BY <1>1, StaysInStep, PTL

LEMMA ArrivesInStep == TypeInv /\ SyncInv => CleanMessageArrives
<1> SUFFICES ASSUME TypeInv, SyncInv, clean, rest = <<>>, line = <<>>, sent # <<>>
             PROVE  AtBoundary /\ delivered # <<>> /\ Last(delivered) = Last(sent)
  BY DEF CleanMessageArrives
<1>1. PICK first \in 0..Len(sent), base \in 0..Len(delivered) :
          InSync(first, base) /\ first < Len(sent)
  BY DEF SyncInv
<1>2. Behind(first, base) = Len(sent) /\ AtBoundary
  BY <1>1, AtRest
<1>3. /\ first \in Nat /\ base \in Nat /\ Len(sent) \in Nat /\ Len(delivered) \in Nat
      /\ Len(delivered) - base \in Nat
      /\ first + (Len(delivered) - base) = Len(sent)
  BY <1>2, BehindType DEF Behind
<1>4. Len(delivered) - base \in 1..(Len(delivered) - base)
  BY <1>1, <1>3
<1>5. delivered[base + (Len(delivered) - base)] = sent[first + (Len(delivered) - base)]
  BY <1>1, <1>4 DEF InSync
<1>6. base + (Len(delivered) - base) = Len(delivered) /\ Len(delivered) # 0
  BY <1>3, <1>4
<1>7. delivered[Len(delivered)] = sent[Len(sent)]
  BY <1>3, <1>5, <1>6
<1>8. delivered # <<>>
  BY <1>6, EmptySeq
<1> QED BY <1>2, <1>7, <1>8 DEF Last

(***************************************************************************)
(* A message that found the receiver waiting for it, or followed one that  *)
(* did, and was not disturbed, is delivered whole, whatever went before.   *)
(***************************************************************************)
THEOREM CleanMessagesArrive == Spec => []CleanMessageArrives
BY StaysInStep, ArrivesInStep, PTL

LEMMA ChannelStep ==
    TypeInv /\ TypeInv' /\ SyncInv /\ SyncInv' /\ [Next]_vars
        => (~disturbed' => [Channel!Next]_<<sent, delivered>>)
<1> SUFFICES ASSUME TypeInv, TypeInv', SyncInv, SyncInv', [Next]_vars, ~disturbed'
             PROVE  [Channel!Next]_<<sent, delivered>>
  OBVIOUS
<1>1. /\ InSync(0, 0)' /\ delivered \in Seq([message_type : Nat, payload : Seq(Letters)])
      /\ Len(delivered) \in Nat /\ Len(sent) \in Nat
  BY LenProperties DEF SyncInv, TypeInv, ProtocolTypeOK
<1>2. ASSUME NEW m \in HostMessages, HostStarts(m) PROVE Channel!Send
  BY <1>2 DEF HostStarts, receiver, Channel!Send
<1>3. ASSUME sent' = sent, NEW x, delivered' = Append(delivered, x) PROVE Channel!Deliver
  <2> DEFINE T == [message_type : Nat, payload : Seq(Letters)]
             n == Len(delivered)
  <2>1. delivered \in Seq(T \cup {x})
    BY <1>1, SeqMonotonic
  <2> HIDE DEF T
  <2>2. Len(delivered') = n + 1 /\ delivered'[n + 1] = x
    BY <1>3, <2>1, AppendProperties
  <2>3. /\ Behind(0, 0)' = n + 1 /\ Behind(0, 0)' <= Len(sent)
        /\ \A i \in 1..(Len(delivered') - 0) : delivered'[0 + i] = sent[0 + i]
    BY <1>1, <1>3, <2>2 DEF InSync, Behind
  <2>4. n + 1 \in 1..(Len(delivered') - 0) /\ 0 + (n + 1) = n + 1 /\ n < Len(sent)
    BY <1>1, <2>2, <2>3
  <2>5. x = sent[n + 1]
    BY <2>2, <2>3, <2>4
  <2> QED BY <1>3, <2>4, <2>5 DEF Channel!Deliver
<1>4. CASE \E m \in HostMessages : HostStarts(m)
  BY <1>2, <1>4 DEF Channel!Next
<1>5. CASE sent' = sent
  <2>1. CASE delivered' = delivered
    BY <1>5, <2>1
  <2>2. CASE \E x : delivered' = Append(delivered, x)
    BY <1>3, <1>5, <2>2 DEF Channel!Next
  <2> QED BY <1>5, <2>1, <2>2, HistoriesGrow
<1> QED BY <1>4, <1>5, HistoriesGrow

(***************************************************************************)
(* Up to the first disturbance the three reads of receive_message are a    *)
(* channel that delivers the host's messages whole, once each, in order.   *)
(***************************************************************************)
THEOREM ProtocolIsChannel == Spec => IsChannel
<1>1. Init => Channel!Init
  BY DEF Init, Channel!Init
<1>2. TypeInv /\ SyncInv /\ (TypeInv /\ SyncInv)' /\ [Next]_vars
         => [~disturbed' => [Channel!Next]_<<sent, delivered>>]_vars
  BY ChannelStep
<1> QED BY <1>1, <1>2, StaysInStep, PTL DEF Spec, IsChannel
=============================================================================
