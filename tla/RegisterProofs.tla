--------------------------- MODULE RegisterProofs ---------------------------
(***************************************************************************)
(* Theorems about the register field macros, which hold of every word,     *)
(* every field and every value that fits the field, and about the start of *)
(* the program, which writes the registers with them: for any              *)
(* configurations of the UART and the I2C controller.                      *)
(***************************************************************************)
EXTENDS ServerInit, WellFoundedInduction, TLAPS

\* A field of a register: adjacent positions.
Field(low, width) == low..(low + width - 1)

\* A position is the sum of its binary digits.
LEMMA SumOfDigits ==
    ASSUME NEW p \in Positions
    PROVE  p = ((p \div 16) % 2) * 16 + ((p \div 8) % 2) * 8 + ((p \div 4) % 2) * 4
               + ((p \div 2) % 2) * 2 + ((p \div 1) % 2)
  BY DEF Positions

\* A digit is seen by the mask of its weight.
LEMMA DigitSeen ==
    ASSUME NEW p \in Positions, NEW w \in {1, 2, 4, 8, 16}
    PROVE  INT_TO_BOOL({p} \cap WithDigit(w)) = (p \div w) % 2
  <1>1. (p \div w) % 2 \in {0, 1}
    BY DEF Positions
  <1>2. CASE (p \div w) % 2 = 1
    BY <1>2 DEF INT_TO_BOOL, WithDigit
  <1>3. CASE (p \div w) % 2 = 0
    BY <1>3 DEF INT_TO_BOOL, WithDigit
  <1>4. QED
    BY <1>1, <1>2, <1>3

(***************************************************************************)
(* TR_ZEROS (utils.h:69) returns the position of the lowest one, the shift *)
(* all field accesses use.                                                 *)
(***************************************************************************)
THEOREM TrailingZeros ==
    ASSUME NEW x \in Word, NEW low \in x, \A q \in x : low <= q
    PROVE  TR_ZEROS(x) = low
  <1>1. low \in Positions
    BY DEF Word
  <1>2. LS_ONE(x) = {low}
    <2>1. \A p \in x : p \in Int
      BY DEF Word, Positions
    <2>2. low \in LS_ONE(x)
      BY DEF LS_ONE
    <2>3. \A p \in LS_ONE(x) : p = low
      BY <2>1 DEF LS_ONE
    <2>4. QED
      BY <2>2, <2>3
  <1>3. TR_ZEROS(x) = ((low \div 16) % 2) * 16 + ((low \div 8) % 2) * 8
                      + ((low \div 4) % 2) * 4 + ((low \div 2) % 2) * 2
                      + ((low \div 1) % 2)
    BY <1>1, <1>2, DigitSeen DEF TR_ZEROS
  <1>4. QED
    BY <1>1, <1>3, SumOfDigits

\* The shift of a field is its lowest position.
LEMMA OffsetOfField ==
    ASSUME NEW low \in Nat, NEW width \in Nat \ {0}, low + width <= 32
    PROVE  GET_OFFSET(Field(low, width)) = low
  <1>1. Field(low, width) \in Word
    BY DEF Field, Word, Positions
  <1>2. low \in Field(low, width) /\ \A q \in Field(low, width) : low <= q
    BY DEF Field
  <1>3. QED
    BY <1>1, <1>2, TrailingZeros DEF GET_OFFSET

\* Shifting back undoes a shift.
LEMMA ShiftedBack ==
    ASSUME NEW S, S \subseteq Int, NEW n \in Int
    PROVE  {q - n : q \in {p + n : p \in S}} = S
  <1> DEFINE M == {p + n : p \in S}
             B == {q - n : q \in M}
  <1>1. ASSUME NEW x \in S PROVE x \in B
    <2>1. x + n \in M /\ (x + n) - n = x
      BY x \in Int
    <2>2. QED
      BY <2>1
  <1>2. ASSUME NEW x \in B PROVE x \in S
    <2>1. PICK q \in M : x = q - n
      OBVIOUS
    <2>2. PICK p \in S : q = p + n
      OBVIOUS
    <2>3. x = p
      BY <2>1, <2>2, p \in Int
    <2>4. QED
      BY <2>3
  <1>3. QED
    BY <1>1, <1>2

(***************************************************************************)
(* A field that was set reads back as the value written to it, for every   *)
(* value that fits: the timing registers of the I2C controller, its format *)
(* entries and its FIFO control are written this way (i2c.c:67-107).       *)
(***************************************************************************)
THEOREM FieldReadsBack ==
    ASSUME NEW var \in Word, NEW low \in Nat, NEW width \in Nat \ {0}, low + width <= 32,
           NEW value, value \subseteq 0..(width - 1)
    PROVE  GET_REG_FIELD(SET_REG_FIELD(var, Field(low, width), value), Field(low, width))
               = value
  <1> DEFINE f == Field(low, width)
             shifted == {p + low : p \in value}
  <1>1. GET_OFFSET(f) = low
    BY OffsetOfField
  <1>2. \A p \in value : p \in Int /\ 0 <= p /\ p < width
    OBVIOUS
  <1>3. shifted \subseteq f /\ f \subseteq Positions
    BY <1>2 DEF Field, Positions
  <1>4. SET_REG_FIELD(var, f, value) \cap f = shifted
    BY <1>1, <1>3 DEF SET_REG_FIELD, MASKED_OR_32, ShiftLeft
  <1>5. {p - low : p \in shifted} = value
    <2>1. value \subseteq Int /\ low \in Int
      BY <1>2
    <2>2. QED
      BY <2>1, ShiftedBack, Zenon
  <1>6. value \subseteq Positions
    BY <1>2 DEF Positions
  <1>7. QED
    BY <1>1, <1>4, <1>5, <1>6 DEF GET_REG_FIELD, ShiftRight

(***************************************************************************)
(* Setting a field changes no other bit of the register, whatever is       *)
(* written: a value that does not fit is cut off, and garbage in one field *)
(* cannot reach another (TIMING1, i2c.c:73).                               *)
(***************************************************************************)
THEOREM OtherFieldsKept ==
    ASSUME NEW var \in Word, NEW field \in Word, NEW other \in Word, field \cap other = {},
           NEW value
    PROVE  SET_REG_FIELD(var, field, value) \cap other = var \cap other
  BY DEF SET_REG_FIELD, MASKED_OR_32, Word

(***************************************************************************)
(* GENERATE_ERROR (utils.h:85) gives back the module it was made for, is   *)
(* never the success status, and keeps the low eight bits of the code; so  *)
(* an IREE status of any value can neither pass for success nor for the    *)
(* INPUT_READER_NO_READ of another module (iree_runtime.c:70, 75).         *)
(***************************************************************************)
THEOREM ErrorsAreTold ==
    ASSUME NEW module, module \subseteq 0..7, module # {}, NEW status \in Word
    PROVE  /\ GET_STATUS_MODULE(GENERATE_ERROR(module, status)) = module
           /\ GET_STATUS_CODE(GENERATE_ERROR(module, status)) = status \cap (0..7)
           /\ GENERATE_ERROR(module, status) # STATUS_OK
  <1> DEFINE e == GENERATE_ERROR(module, status)
             m == {p + 8 : p \in module}
  <1>1. /\ TR_ZEROS(STATUS_MASK_MODULE) = 8 /\ GET_OFFSET(STATUS_MASK_MODULE) = 8
        /\ TR_ZEROS(STATUS_MASK_CODE) = 0 /\ GET_OFFSET(STATUS_MASK_CODE) = 0
    <2>1. STATUS_MASK_MODULE = Field(8, 8) /\ STATUS_MASK_CODE = Field(0, 8)
      BY DEF STATUS_MASK_MODULE, STATUS_MASK_CODE, Field
    <2>2. QED
      BY <2>1, OffsetOfField DEF GET_OFFSET
  <1>2. \A p \in module : p \in 0..7
    OBVIOUS
  <1>3. m \subseteq 8..15 /\ m \subseteq Positions
    BY <1>2 DEF Positions
  <1>4. ShiftLeft(status, 0) = status
    <2>1. \A p \in status : p \in Int /\ p \in Positions /\ p + 0 = p
      BY DEF Word, Positions
    <2>2. {p + 0 : p \in status} = status
      BY <2>1
    <2>3. QED
      BY <2>1, <2>2 DEF ShiftLeft
  <1>5. e = m \cup (status \cap (0..7))
    BY <1>1, <1>3, <1>4 DEF GENERATE_ERROR, ShiftLeft, STATUS_MASK_MODULE, STATUS_MASK_CODE
  <1>6. e \cap (8..15) = m /\ e \cap (0..7) = status \cap (0..7)
    <2>1. (0..7) \cap (8..15) = {}
      OBVIOUS
    <2>2. QED
      BY <2>1, <1>3, <1>5
  <1>7. {p - 8 : p \in m} = module /\ module \subseteq Positions
    <2>1. module \subseteq Int /\ 8 \in Int /\ module \subseteq Positions
      BY <1>2 DEF Positions
    <2>2. QED
      BY <2>1, ShiftedBack, Zenon
  <1>8. GET_STATUS_MODULE(e) = module
    BY <1>1, <1>6, <1>7
       DEF GET_STATUS_MODULE, GET_REG_FIELD, ShiftRight, STATUS_MASK_MODULE
  <1>9. GET_STATUS_CODE(e) = status \cap (0..7)
    <2>1. {p - 0 : p \in status \cap (0..7)} = status \cap (0..7)
      BY DEF Word, Positions
    <2>2. status \cap (0..7) \subseteq Positions
      BY DEF Word
    <2>3. QED
      BY <1>1, <1>6, <2>1, <2>2
         DEF GET_STATUS_CODE, GET_REG_FIELD, ShiftRight, STATUS_MASK_CODE
  <1>10. e # STATUS_OK
    <2>1. PICK p \in module : TRUE
      OBVIOUS
    <2>2. p + 8 \in e
      BY <2>1, <1>5
    <2>3. QED
      BY <2>2 DEF STATUS_OK
  <1>11. QED
    BY <1>8, <1>9, <1>10

----------------------------------------------------------------------------
(* Words and the numbers they stand for *)

\* The number of a word of sixteen bits, written out.
Weight(s, p) == IF p \in s THEN 2^p ELSE 0
Value(s) ==
    Weight(s, 0) + Weight(s, 1) + Weight(s, 2) + Weight(s, 3)
    + Weight(s, 4) + Weight(s, 5) + Weight(s, 6) + Weight(s, 7)
    + Weight(s, 8) + Weight(s, 9) + Weight(s, 10) + Weight(s, 11)
    + Weight(s, 12) + Weight(s, 13) + Weight(s, 14) + Weight(s, 15)

LEMMA PowersPositive == \A p \in 0..15 : 2^p \in Nat \ {0}
<1> TAKE p \in 0..15
<1>0. CASE p = 0  BY <1>0
<1>1. CASE p = 1  BY <1>1
<1>2. CASE p = 2  BY <1>2
<1>3. CASE p = 3  BY <1>3
<1>4. CASE p = 4  BY <1>4
<1>5. CASE p = 5  BY <1>5
<1>6. CASE p = 6  BY <1>6
<1>7. CASE p = 7  BY <1>7
<1>8. CASE p = 8  BY <1>8
<1>9. CASE p = 9  BY <1>9
<1>10. CASE p = 10  BY <1>10
<1>11. CASE p = 11  BY <1>11
<1>12. CASE p = 12  BY <1>12
<1>13. CASE p = 13  BY <1>13
<1>14. CASE p = 14  BY <1>14
<1>15. CASE p = 15  BY <1>15
<1> QED
  BY <1>0, <1>1, <1>2, <1>3, <1>4, <1>5, <1>6, <1>7, <1>8, <1>9, <1>10, <1>11, <1>12, <1>13, <1>14, <1>15

LEMMA PowersAboveThree == \A p \in 2..15 : 4 <= 2^p
<1> TAKE p \in 2..15
<1>2. CASE p = 2  BY <1>2
<1>3. CASE p = 3  BY <1>3
<1>4. CASE p = 4  BY <1>4
<1>5. CASE p = 5  BY <1>5
<1>6. CASE p = 6  BY <1>6
<1>7. CASE p = 7  BY <1>7
<1>8. CASE p = 8  BY <1>8
<1>9. CASE p = 9  BY <1>9
<1>10. CASE p = 10  BY <1>10
<1>11. CASE p = 11  BY <1>11
<1>12. CASE p = 12  BY <1>12
<1>13. CASE p = 13  BY <1>13
<1>14. CASE p = 14  BY <1>14
<1>15. CASE p = 15  BY <1>15
<1> QED
  BY <1>2, <1>3, <1>4, <1>5, <1>6, <1>7, <1>8, <1>9, <1>10, <1>11, <1>12, <1>13, <1>14, <1>15

LEMMA WeightTyped ==
    ASSUME NEW s, NEW p \in 0..15
    PROVE  Weight(s, p) \in Nat
  BY PowersPositive DEF Weight

LEMMA ValueTyped == \A s : Value(s) \in Nat
<1> SUFFICES ASSUME NEW s PROVE Value(s) \in Nat
  OBVIOUS
<1>1. /\ 0 \in 0..15 /\ 1 \in 0..15 /\ 2 \in 0..15 /\ 3 \in 0..15 /\ 4 \in 0..15
      /\ 5 \in 0..15 /\ 6 \in 0..15 /\ 7 \in 0..15 /\ 8 \in 0..15 /\ 9 \in 0..15
      /\ 10 \in 0..15 /\ 11 \in 0..15 /\ 12 \in 0..15 /\ 13 \in 0..15 /\ 14 \in 0..15
      /\ 15 \in 0..15
  OBVIOUS
<1>2. \A p \in 0..15 : Weight(s, p) \in Nat
  BY WeightTyped
<1>3. PICK a, b, c, d : /\ a = Weight(s, 0) + Weight(s, 1) + Weight(s, 2) + Weight(s, 3)
                        /\ b = Weight(s, 4) + Weight(s, 5) + Weight(s, 6) + Weight(s, 7)
                        /\ c = Weight(s, 8) + Weight(s, 9) + Weight(s, 10) + Weight(s, 11)
                        /\ d = Weight(s, 12) + Weight(s, 13) + Weight(s, 14) + Weight(s, 15)
  OBVIOUS
<1>4. a \in Nat /\ b \in Nat
  BY <1>1, <1>2, <1>3
<1>5. c \in Nat /\ d \in Nat
  BY <1>1, <1>2, <1>3
<1>6. Value(s) = a + b + c + d
  BY <1>1, <1>2, <1>3 DEF Value
<1> QED BY <1>4, <1>5, <1>6

\* Taking a bit out takes its weight away.
LEMMA ValueStep ==
    ASSUME NEW s, NEW x \in s, x \in 0..15
    PROVE  Value(s) = 2^x + Value(s \ {x})
<1>1. \A p \in 0..15 : p # x => Weight(s, p) = Weight(s \ {x}, p)
  BY DEF Weight
<1>2. Weight(s, x) = 2^x /\ Weight(s \ {x}, x) = 0
  BY DEF Weight
<1>3. \A p \in 0..15 : Weight(s, p) \in Nat /\ Weight(s \ {x}, p) \in Nat
  BY WeightTyped
<1>4. \/ x = 0 \/ x = 1 \/ x = 2 \/ x = 3 \/ x = 4 \/ x = 5 \/ x = 6 \/ x = 7
      \/ x = 8 \/ x = 9 \/ x = 10 \/ x = 11 \/ x = 12 \/ x = 13 \/ x = 14 \/ x = 15
  OBVIOUS
<1> QED BY <1>1, <1>2, <1>3, <1>4, SMTT(60) DEF Value

\* The recursion Number is defined by has one solution.
Solves(f, w) ==
    f = [s \in SUBSET w |-> IF s = {} THEN 0
                            ELSE 2^(CHOOSE x \in s : TRUE) + f[s \ {CHOOSE x \in s : TRUE}]]

LEMMA ValueSolves ==
    ASSUME NEW w, w \subseteq 0..15
    PROVE  Solves([s \in SUBSET w |-> Value(s)], w)
<1> DEFINE f == [s \in SUBSET w |-> Value(s)]
<1>1. ASSUME NEW s \in SUBSET w
      PROVE  f[s] = IF s = {} THEN 0
                    ELSE 2^(CHOOSE x \in s : TRUE) + f[s \ {CHOOSE x \in s : TRUE}]
  <2>1. CASE s = {}
    <3>1. Value({}) = 0
      BY DEF Value, Weight
    <3> QED BY <2>1, <3>1
  <2>2. CASE s # {}
    <3> DEFINE x == CHOOSE y \in s : TRUE
    <3>1. x \in s
      BY <2>2
    <3>2. x \in 0..15
      BY <3>1
    <3> HIDE DEF x
    <3>3. Value(s) = 2^x + Value(s \ {x})
      BY <3>1, <3>2, ValueStep
    <3>4. f[s] = Value(s) /\ f[s \ {x}] = Value(s \ {x})
      OBVIOUS
    <3>5. f[s] = 2^x + f[s \ {x}]
      BY <3>3, <3>4
    <3> HIDE DEF f
    <3> QED BY <2>2, <3>5 DEF x
  <2> QED BY <2>1, <2>2
<1> QED BY <1>1, Zenon DEF Solves

LEMMA OnlyValueSolves ==
    ASSUME NEW w, w \subseteq 0..15, NEW f, Solves(f, w)
    PROVE  f[w] = Value(w)
<1> DEFINE Wrong == {s \in SUBSET w : f[s] # Value(s)}
           Weights == {Value(s) : s \in Wrong}
<1> SUFFICES ASSUME Wrong # {} PROVE FALSE
  BY w \in SUBSET w
<1>1. Weights \subseteq Nat /\ Weights # {}
  BY ValueTyped
<1>2. PICK v \in Weights : \A u \in Weights : ~(u < v)
  <2>1. PICK v \in Weights : \A u \in Weights : ~(<<u, v>> \in OpToRel(<, Nat))
    <3>1. IsWellFoundedOn(OpToRel(<, Nat), Nat)
      BY NatLessThanWellFounded
    <3> HIDE DEF OpToRel, Weights
    <3> QED BY <1>1, <3>1, WFMin
  <2> HIDE DEF Weights
  <2>2. \A u \in Weights : u \in Nat
    BY <1>1
  <2>3. \A u \in Weights : ~(u < v)
    BY <2>1, <2>2 DEF OpToRel
  <2> QED BY <2>3
<1>3. PICK s \in Wrong : v = Value(s)
  BY <1>2
<1>4. s \in SUBSET w /\ f[s] # Value(s)
  BY <1>3
<1>5. \A t \in SUBSET w : f[t] = IF t = {} THEN 0
                                 ELSE 2^(CHOOSE x \in t : TRUE) + f[t \ {CHOOSE x \in t : TRUE}]
  <2> DEFINE g == [t \in SUBSET w |-> IF t = {} THEN 0
                      ELSE 2^(CHOOSE x \in t : TRUE) + f[t \ {CHOOSE x \in t : TRUE}]]
  <2>1. f = g
    BY DEF Solves
  <2>2. \A t \in SUBSET w : g[t] = IF t = {} THEN 0
                                 ELSE 2^(CHOOSE x \in t : TRUE) + f[t \ {CHOOSE x \in t : TRUE}]
    OBVIOUS
  <2> HIDE DEF g
  <2> QED BY <2>1, <2>2, Zenon
<1>6. s # {}
  <2>1. Value({}) = 0
    BY DEF Value, Weight
  <2>2. f[{}] = 0
    BY <1>5
  <2> QED BY <1>4, <2>1, <2>2
<1> DEFINE x == CHOOSE y \in s : TRUE
<1>7. x \in s /\ x \in 0..15
  BY <1>4, <1>6
<1>8. f[s] = 2^x + f[s \ {x}]
  BY <1>4, <1>5, <1>6, Zenon
<1> HIDE DEF x, Wrong, Weights
<1>9. Value(s) = 2^x + Value(s \ {x}) /\ 2^x \in Nat \ {0} /\ Value(s \ {x}) \in Nat
  BY <1>7, ValueStep, ValueTyped, PowersPositive
<1>10. Value(s \ {x}) < v
  BY <1>3, <1>9
<1>11. s \ {x} \in SUBSET w
  BY <1>4
<1>12. s \ {x} \notin Wrong
  BY <1>2, <1>10 DEF Weights
<1>13. f[s \ {x}] = Value(s \ {x})
  BY <1>11, <1>12 DEF Wrong
<1> QED BY <1>4, <1>8, <1>9, <1>13

LEMMA NumberIsValue ==
    ASSUME NEW w, w \subseteq 0..15
    PROVE  Number(w) = Value(w)
<1>1. Number(w) = (CHOOSE f : Solves(f, w))[w]
  BY DEF Number, MapThenSumSet, MapThenFoldSet, Solves
<1>2. PICK f : f = CHOOSE g : Solves(g, w)
  OBVIOUS
<1>3. Solves(f, w)
  <2>1. \E g : Solves(g, w)
    BY ValueSolves
  <2> QED BY <1>2, <2>1, Zenon
<1> QED BY <1>1, <1>2, <1>3, OnlyValueSolves

(***************************************************************************)
(* The bits of a number of sixteen bits stand for it.  A bit weighs the    *)
(* difference of what is left of the number from it on and above it.       *)
(***************************************************************************)
LEMMA NumberOfBits ==
    ASSUME NEW n \in Uint16
    PROVE  Number(Bits(n)) = n /\ Bits(n) \subseteq 0..15
<1> DEFINE w(p) == Weight(Bits(n), p)
           u(m) == m * (n \div m)
<1>n. n \in Nat /\ n < 65536
  BY DEF Uint16
<1>0. w(0) = u(1) - u(2)
  BY <1>n DEF Weight, Bits
<1>1. w(1) = u(2) - u(4)
  BY <1>n DEF Weight, Bits
<1>2. w(2) = u(4) - u(8)
  BY <1>n DEF Weight, Bits
<1>3. w(3) = u(8) - u(16)
  BY <1>n DEF Weight, Bits
<1>4. w(4) = u(16) - u(32)
  BY <1>n DEF Weight, Bits
<1>5. w(5) = u(32) - u(64)
  BY <1>n DEF Weight, Bits
<1>6. w(6) = u(64) - u(128)
  BY <1>n DEF Weight, Bits
<1>7. w(7) = u(128) - u(256)
  BY <1>n DEF Weight, Bits
<1>8. w(8) = u(256) - u(512)
  BY <1>n DEF Weight, Bits
<1>9. w(9) = u(512) - u(1024)
  BY <1>n DEF Weight, Bits
<1>10. w(10) = u(1024) - u(2048)
  BY <1>n DEF Weight, Bits
<1>11. w(11) = u(2048) - u(4096)
  BY <1>n DEF Weight, Bits
<1>12. w(12) = u(4096) - u(8192)
  BY <1>n DEF Weight, Bits
<1>13. w(13) = u(8192) - u(16384)
  BY <1>n DEF Weight, Bits
<1>14. w(14) = u(16384) - u(32768)
  BY <1>n DEF Weight, Bits
<1>15. w(15) = u(32768) - u(65536)
  BY <1>n DEF Weight, Bits
<1>16. u(1) = n /\ u(65536) = 0
  BY <1>n
<1>17. \A m \in Nat \ {0} : u(m) \in Int
  BY <1>n
<1>18. Bits(n) \subseteq 0..15
  BY DEF Bits
<1> HIDE DEF w, u
<1>19. w(0) + w(1) + w(2) + w(3) = u(1) - u(16)
  <2>1. u(1) \in Int /\ u(2) \in Int /\ u(4) \in Int
        /\ u(8) \in Int /\ u(16) \in Int
    BY <1>17
  <2> QED BY <2>1, <1>0, <1>1, <1>2, <1>3
<1>20. w(4) + w(5) + w(6) + w(7) = u(16) - u(256)
  <2>1. u(16) \in Int /\ u(32) \in Int /\ u(64) \in Int
        /\ u(128) \in Int /\ u(256) \in Int
    BY <1>17
  <2> QED BY <2>1, <1>4, <1>5, <1>6, <1>7
<1>21. w(8) + w(9) + w(10) + w(11) = u(256) - u(4096)
  <2>1. u(256) \in Int /\ u(512) \in Int /\ u(1024) \in Int
        /\ u(2048) \in Int /\ u(4096) \in Int
    BY <1>17
  <2> QED BY <2>1, <1>8, <1>9, <1>10, <1>11
<1>22. w(12) + w(13) + w(14) + w(15) = u(4096) - u(65536)
  <2>1. u(4096) \in Int /\ u(8192) \in Int /\ u(16384) \in Int
        /\ u(32768) \in Int /\ u(65536) \in Int
    BY <1>17
  <2> QED BY <2>1, <1>12, <1>13, <1>14, <1>15
<1>23. Value(Bits(n)) = n
  <2>1. \A p \in 0..15 : w(p) \in Int
    BY WeightTyped DEF w
  <2>2. Value(Bits(n)) = (w(0) + w(1) + w(2) + w(3)) + (w(4) + w(5) + w(6) + w(7))
                         + (w(8) + w(9) + w(10) + w(11)) + (w(12) + w(13) + w(14) + w(15))
    BY <2>1 DEF Value, w
  <2>3. u(1) \in Int /\ u(16) \in Int /\ u(256) \in Int /\ u(4096) \in Int /\ u(65536) \in Int
    BY <1>17
  <2> QED BY <2>2, <2>3, <1>16, <1>19, <1>20, <1>21, <1>22
<1> QED BY <1>18, <1>23, NumberIsValue

----------------------------------------------------------------------------
(* The start of the program *)

LineStages == {"integer divisor", "fractional divisor", "line control", "enable uart"}
QuietStages == {"disable fifo"} \cup LineStages
UartStages == {"uart_init", "while busy"} \cup QuietStages
TimingStages == {"timing 1", "timing 2", "timing 3", "timing 4"}
FifoStages == {"reset rx", "reset fmt", "reset acq", "reset tx"}
I2CStages == {"i2c_init", "enable host"} \cup TimingStages \cup FifoStages
Stages == UartStages \cup I2CStages \cup {"sensor_init", "running", "failed"}

Fifos == {"rx", "fmt", "acq", "tx"}

UartRegisters ==
    [enabled : BOOLEAN, busy : BOOLEAN, IBRD : Uint16, FBRD : 0..255,
     LCRH : SUBSET (0..7), rate : Uint16 \X (0..255), initialized : BOOLEAN]
I2CRegisters ==
    [TIMING : [0..4 -> Word], full : SUBSET Fifos, CTRL : {{}, CTRL_ENABLEHOST},
     initialized : BOOLEAN, busy : BOOLEAN, atWork : BOOLEAN,
     identity : {"unread", "own", "left over", "late"}]

StartTypeOK ==
    /\ pc \in Stages
    /\ config \in [uart : UartConfigs, i2c : I2CConfigs]
    /\ board \in [sensor_build : BOOLEAN, device : 0..255]
    /\ uart \in UartRegisters
    /\ i2c \in I2CRegisters

\* What uart_init has done before each statement; the transmitter is done
\* before the first register changes.
LineInv ==
    /\ pc \notin {"uart_init", "failed"} \/ uart.initialized => UartValid
    /\ pc \in UartStages \ {"uart_init"} => ~uart.enabled
    /\ pc \in QuietStages => ~uart.busy
    /\ pc \in LineStages \ {"integer divisor"} => uart.IBRD = IntegerDivisor
    /\ pc \in {"line control", "enable uart"} => uart.FBRD = FractionalDivisor
    /\ pc = "enable uart" \/ uart.initialized =>
           uart.LCRH = LineControl /\ uart.rate = <<IntegerDivisor, FractionalDivisor>>
    /\ pc \in UartStages => ~uart.initialized
    /\ uart.initialized => uart.enabled

\* The fields of the timing registers that are set before each statement.
Timing0 == Timing(Cycles("scl_time_high"), Cycles("scl_time_low"))
Timing2 == Timing(Cycles("start_signal_setup"), Cycles("start_signal_hold"))
Timing3 == Timing(Cycles("data_signal_setup"), 1)
Timing4 == Timing(Cycles("stop_signal_setup"), Cycles("stop_signal_hold"))
On == i2c.initialized
TimingInv ==
    /\ On => pc \in {"sensor_init", "running", "failed"}
    /\ On \/ pc \in TimingStages \cup FifoStages \cup {"enable host"} =>
           SpeedKnown /\ i2c.TIMING[0] = Timing0
    /\ On \/ pc \in {"timing 3", "timing 4", "enable host"} \cup FifoStages =>
           i2c.TIMING[2] = Timing2
    /\ On \/ pc \in {"timing 4", "enable host"} \cup FifoStages => i2c.TIMING[3] = Timing3
    /\ On \/ pc \in {"enable host"} \cup FifoStages => i2c.TIMING[4] = Timing4

\* What is ready before each statement of the rest.  A controller that was done
\* when its receive FIFO was reset has nothing left to do.
Done == ~i2c.busy /\ "rx" \notin i2c.full /\ ("fmt" \in i2c.full => ~HostEnabled)
ReadyInv ==
    /\ i2c.busy => HostEnabled
    /\ pc \in I2CStages \cup {"sensor_init"} => uart.initialized /\ board.sensor_build
    /\ pc \in {"reset fmt", "reset acq", "reset tx", "enable host", "sensor_init"} =>
           i2c.atWork \/ Done
    /\ pc \in {"reset acq", "reset tx", "enable host", "sensor_init"} => "fmt" \notin i2c.full
    /\ pc \in {"reset tx", "enable host", "sensor_init"} => "acq" \notin i2c.full
    /\ pc \in {"enable host", "sensor_init"} => "tx" \notin i2c.full
    /\ pc = "sensor_init" => i2c.initialized
    /\ pc = "running" /\ board.sensor_build => i2c.atWork \/ ~i2c.busy
    /\ RunsWhenReady

StartInv == StartTypeOK /\ LineInv /\ TimingInv /\ ReadyInv

LEMMA FifoNames == DOMAIN FIFO_CTRL = Fifos
  BY DEF FIFO_CTRL, Fifos

\* What is computed from the configuration stays with it.
LEMMA SameConfig ==
    ASSUME UNCHANGED config
    PROVE  /\ UartValid' <=> UartValid
           /\ IntegerDivisor' = IntegerDivisor /\ FractionalDivisor' = FractionalDivisor
           /\ LineControl' = LineControl
           /\ SpeedKnown' <=> SpeedKnown
           /\ Timing0' = Timing0 /\ Timing2' = Timing2 /\ Timing3' = Timing3
           /\ Timing4' = Timing4
<1>1. UartValid' <=> UartValid
  BY DEF UartValid
<1>2. IntegerDivisor' = IntegerDivisor /\ FractionalDivisor' = FractionalDivisor
  BY DEF IntegerDivisor, FractionalDivisor, Sixteenth
<1>3. LineControl' = LineControl
  BY DEF LineControl
<1>4. SpeedKnown' <=> SpeedKnown
  BY DEF SpeedKnown
<1>5. Timing0' = Timing0 /\ Timing2' = Timing2
  BY DEF Timing0, Timing2, Cycles
<1>6. Timing3' = Timing3 /\ Timing4' = Timing4
  BY DEF Timing3, Timing4, Cycles
<1> QED BY <1>1, <1>2, <1>3, <1>4, <1>5, <1>6

\* The rate of a configuration that passed the checks.
LEMMA RateValid ==
    ASSUME UartValid
    PROVE  config.uart.baudrate \in Nat \ {0} /\ Sixteenth \in Nat \ {0}
  BY DEF UartValid, BAUDRATE_VALUES, Sixteenth

\* What a conversion to an unsigned type leaves.
LEMMA SixteenBits == ASSUME NEW k \in Int PROVE k % 2^16 \in Uint16
<1>1. k % 2^16 \in Int /\ 0 <= k % 2^16 /\ k % 2^16 <= 2^16 - 1
  OBVIOUS
<1>2. 2^16 - 1 \in Int
  OBVIOUS
<1>3. \A r, m \in Int : 0 <= r /\ r <= m => r \in 0..m
  OBVIOUS
<1> QED BY <1>1, <1>2, <1>3, Zenon DEF Uint16
LEMMA EightBits == ASSUME NEW k \in Int PROVE k % 2^8 \in 0..255
  OBVIOUS

LEMMA DivisorsTyped ==
    ASSUME UartValid
    PROVE  IntegerDivisor \in Uint16 /\ FractionalDivisor \in 0..255
<1> DEFINE s == Sixteenth
<1>1. s \in Nat \ {0} /\ REF_CLOCK \in Nat
  BY RateValid, ServerInitAssumption
<1> HIDE DEF s
<1>2. REF_CLOCK \div s \in Int /\ REF_CLOCK % s \in Int
  BY <1>1
<1>3. (64 * (REF_CLOCK % s)) \div s \in Int
  BY <1>1, <1>2
<1>4. IntegerDivisor \in Uint16
  BY <1>2, SixteenBits, Zenon DEF IntegerDivisor, s
<1>5. FractionalDivisor \in 0..255
  <2>1. (64 * (REF_CLOCK % s)) \div s + 1 \in Int
    BY <1>3
  <2> QED BY <2>1, EightBits, Zenon DEF FractionalDivisor, s
<1> QED BY <1>4, <1>5

LEMMA DivBelow == ASSUME NEW n \in Nat, NEW q \in Nat \ {0}, n < q PROVE n \div q = 0
  OBVIOUS

\* LineControl sets each field of LCRH to what the configuration says.
LEMMA LineFields ==
    ASSUME UartValid
    PROVE  /\ LineControl \subseteq 0..7
           /\ LineControl \cap LCRH_WLEN = {p + 5 : p \in Bits(config.uart.data_bits - 5)}
           /\ LCRH_STP2 \subseteq LineControl <=> config.uart.stop_bits = 2
           /\ LCRH_PEN \subseteq LineControl <=> config.uart.parity
           /\ LCRH_FEN \subseteq LineControl
<1> DEFINE word == Bits(config.uart.data_bits - 5)
           code == {p + 5 : p \in word}
           parity == IF config.uart.parity THEN {1, 2, 7} ELSE {}
           stop == IF config.uart.stop_bits = 2 THEN {3} ELSE {}
<1>1. word \subseteq {0, 1}
  <2>1. config.uart.data_bits - 5 \in 0..3
    BY DEF UartValid
  <2>2. PICK n \in 0..3 : n = config.uart.data_bits - 5
    BY <2>1
  <2>3. ASSUME NEW p \in 0..15, (n \div 2^p) % 2 = 1 PROVE p \in {0, 1}
    <3>1. SUFFICES ASSUME p \notin {0, 1} PROVE FALSE
      OBVIOUS
    <3>2. PICK q : q = 2^p
      OBVIOUS
    <3>3. p \in 2..15
      BY <3>1
    <3>4. q \in Nat \ {0} /\ 4 <= q
      BY <3>2, <3>3, PowersPositive, PowersAboveThree, Zenon
    <3>5. (n \div q) % 2 = 1
      BY <2>3, <3>2, Zenon
    <3> QED BY <3>4, <3>5, DivBelow
  <2> QED BY <2>2, <2>3 DEF Bits
<1>2. code \subseteq {5, 6}
  BY <1>1
<1>3. ShiftLeft(word, 5) = code
  BY <1>2 DEF ShiftLeft, Positions
<1>4. LineControl = code \cup parity \cup stop \cup {4}
  BY <1>3 DEF LineControl, LCRH_PEN, LCRH_EPS, LCRH_SPS, LCRH_STP2, LCRH_FEN
<1> HIDE DEF code
<1>5. LineControl \subseteq 0..7
  BY <1>2, <1>4
<1>6. LineControl \cap {5, 6} = code
  <2>1. parity \cap {5, 6} = {} /\ stop \cap {5, 6} = {} /\ {4} \cap {5, 6} = {}
    OBVIOUS
  <2> HIDE DEF parity, stop
  <2>2. ASSUME NEW p \in LineControl \cap {5, 6} PROVE p \in code
    BY <1>4, <2>1, <2>2, Zenon
  <2>3. code \subseteq LineControl
    BY <1>4, Zenon
  <2> QED BY <1>2, <2>2, <2>3
<1>7. 3 \in LineControl <=> config.uart.stop_bits = 2
  BY <1>2, <1>4
<1>8. 1 \in LineControl <=> config.uart.parity
  BY <1>2, <1>4
<1>9. 4 \in LineControl
  BY <1>4
<1> QED BY <1>5, <1>6, <1>7, <1>8, <1>9 DEF LCRH_WLEN, LCRH_STP2, LCRH_PEN, LCRH_FEN, code

(***************************************************************************)
(* A timing register holds both numbers written to it.                     *)
(***************************************************************************)
LEMMA TimingTyped ==
    ASSUME NEW upper, NEW lower
    PROVE  Timing(upper, lower) \in Word
  BY DEF Timing, SET_REG_FIELD, MASKED_OR_32, Word, UpperHalf, LowerHalf, Positions

LEMMA TimingReadsBack ==
    ASSUME NEW upper \in Uint16, NEW lower \in Uint16
    PROVE  /\ Number(GET_REG_FIELD(Timing(upper, lower), UpperHalf)) = upper
           /\ Number(GET_REG_FIELD(Timing(upper, lower), LowerHalf)) = lower
<1> DEFINE first == SET_REG_FIELD({}, UpperHalf, Bits(upper))
           both == SET_REG_FIELD(first, LowerHalf, Bits(lower))
<1>1. UpperHalf = Field(16, 16) /\ LowerHalf = Field(0, 16)
  BY DEF UpperHalf, LowerHalf, Field
<1>2. UpperHalf \in Word /\ LowerHalf \in Word /\ LowerHalf \cap UpperHalf = {} /\ {} \in Word
  BY DEF UpperHalf, LowerHalf, Word, Positions
<1>3. first \in Word
  BY <1>2 DEF SET_REG_FIELD, MASKED_OR_32, Word
<1>4. /\ Number(Bits(upper)) = upper /\ Bits(upper) \subseteq 0..15
      /\ Number(Bits(lower)) = lower /\ Bits(lower) \subseteq 0..15
  BY NumberOfBits
<1> HIDE DEF first
<1>5. GET_REG_FIELD(both, LowerHalf) = Bits(lower)
  BY <1>1, <1>3, <1>4, FieldReadsBack
<1>6. both \cap UpperHalf = first \cap UpperHalf
  BY <1>2, <1>3, OtherFieldsKept
<1> HIDE DEF both
<1>7. GET_REG_FIELD(both, UpperHalf) = GET_REG_FIELD(first, UpperHalf)
  BY <1>6, Zenon DEF GET_REG_FIELD
<1>8. GET_REG_FIELD(first, UpperHalf) = Bits(upper)
  BY <1>1, <1>2, <1>4, FieldReadsBack DEF first
<1>9. Timing(upper, lower) = both
  BY Zenon DEF Timing, both, first
<1> QED BY <1>4, <1>5, <1>7, <1>8, <1>9, Zenon

\* A time that fits in what the functions take.
Brief(time) == time \in Nat \ {0} /\ time < 10000

(***************************************************************************)
(* round_up_divide (i2c.c:13) returns the least number of periods that     *)
(* last at least as long as the time.                                      *)
(***************************************************************************)
LEMMA RoundsUp ==
    ASSUME NEW a, Brief(a), NEW b \in Nat \ {0}
    PROVE  /\ round_up_divide(a, b) \in Uint16
           /\ (round_up_divide(a, b) - 1) * b < a
           /\ a <= round_up_divide(a, b) * b
<1> DEFINE q == (a - 1) \div b
           r == (a - 1) % b
<1>1. q \in Int /\ r \in Int /\ 0 <= r /\ r < b /\ a - 1 = b * q + r
  BY DEF Brief
<1> HIDE DEF q, r
<1>a. a \in Nat \ {0} /\ a < 10000
  BY DEF Brief
<1>2. 0 <= q /\ q <= a - 1
  <2>1. CASE q < 0
    <3>1. b * q <= -b
      BY <1>a, <1>1, <2>1
    <3> QED BY <1>a, <1>1, <3>1
  <2>2. CASE q > a - 1
    <3>1. b * q >= q
      BY <1>a, <1>1, <2>2
    <3> QED BY <1>a, <1>1, <2>2, <3>1
  <2> QED BY <1>a, <1>1, <2>1, <2>2
<1>3. (q + 1) % 2^16 = q + 1
  BY <1>a, <1>1, <1>2
<1>4. PICK c \in Nat : c = q + 1
  BY <1>a, <1>1, <1>2
<1>5. round_up_divide(a, b) = c
  BY <1>3, <1>4 DEF round_up_divide, q
<1>6. c % 2^16 \in Uint16
  <2>1. c \in Int
    OBVIOUS
  <2> QED BY <2>1, SixteenBits, Zenon
<1>7. c \in Uint16
  BY <1>3, <1>4, <1>6, Zenon
<1>8. (c - 1) * b < a /\ a <= c * b
  <2>1. c - 1 = q /\ c * b = b * q + b
    BY <1>1, <1>4
  <2> QED BY <1>a, <1>1, <2>1
<1> QED BY <1>5, <1>7, <1>8, Zenon

Parameters == {"scl_time_high", "scl_time_low", "start_signal_setup", "start_signal_hold",
               "data_signal_setup", "stop_signal_setup", "stop_signal_hold"}

LEMMA TimesTyped ==
    ASSUME SpeedKnown, NEW p \in Parameters
    PROVE  Brief(DefaultTimes[config.i2c.speed][p])
<1>1. PICK speed \in {"I2C_SPEED_STANDARD", "I2C_SPEED_FAST", "I2C_SPEED_FAST_PLUS"} :
          speed = config.i2c.speed
  BY DEF SpeedKnown, DefaultTimes
<1>2. CASE speed = "I2C_SPEED_STANDARD"
  <2>1. DefaultTimes[speed] = Times(4000, 4700, 4700, 4000, 250, 4000, 4700)
    BY <1>2 DEF DefaultTimes
  <2> QED BY <1>1, <2>1 DEF Times, Parameters, Brief
<1>3. CASE speed = "I2C_SPEED_FAST"
  <2>1. DefaultTimes[speed] = Times(600, 1300, 600, 600, 100, 600, 1300)
    BY <1>3 DEF DefaultTimes
  <2> QED BY <1>1, <2>1 DEF Times, Parameters, Brief
<1>4. CASE speed = "I2C_SPEED_FAST_PLUS"
  <2>1. DefaultTimes[speed] = Times(260, 500, 260, 260, 50, 260, 500)
    BY <1>4 DEF DefaultTimes
  <2> QED BY <1>1, <2>1 DEF Times, Parameters, Brief
<1> QED BY <1>1, <1>2, <1>3, <1>4

LEMMA CyclesHold ==
    ASSUME SpeedKnown, NEW p \in Parameters, config.i2c \in I2CConfigs
    PROVE  /\ Cycles(p) \in Uint16
           /\ (Cycles(p) - 1) * config.i2c.clock_period_nanos < DefaultTimes[config.i2c.speed][p]
           /\ DefaultTimes[config.i2c.speed][p] <= Cycles(p) * config.i2c.clock_period_nanos
<1>p. config.i2c.clock_period_nanos \in Nat \ {0}
  BY ServerInitAssumption, Zenon
<1>t. Brief(DefaultTimes[config.i2c.speed][p])
  BY TimesTyped, Zenon
<1> QED BY <1>p, <1>t, RoundsUp, Zenon DEF Cycles

(***************************************************************************)
(* The first state.                                                        *)
(***************************************************************************)
LEMMA StartInit == Init => StartInv
<1> SUFFICES ASSUME Init PROVE StartInv
  OBVIOUS
<1>1. pc = "uart_init"
  BY DEF Init
<1>2. uart \in UartRegisters
      /\ uart.initialized = FALSE
  <2>1. 1 \in Uint16
    <3>1. 1 % 2^16 \in Uint16
      BY SixteenBits, 1 \in Int, Zenon
    <3> QED BY <3>1
  <2>2. PICK on \in BOOLEAN, sending \in BOOLEAN :
            uart = [enabled |-> on, busy |-> sending, IBRD |-> 1, FBRD |-> 0,
                    LCRH |-> IF on THEN LCRH_FEN ELSE {}, rate |-> <<1, 0>>,
                    initialized |-> FALSE]
    BY DEF Init
  <2>3. (IF on THEN LCRH_FEN ELSE {}) \in SUBSET (0..7) /\ 0 \in 0..255
    BY DEF LCRH_FEN
  <2> QED BY <2>1, <2>2, <2>3 DEF UartRegisters
<1>3. i2c \in I2CRegisters
      /\ ~i2c.initialized /\ (i2c.busy => HostEnabled)
  <2>1. PICK on \in BOOLEAN, working \in BOOLEAN, left \in {{}, Fifos} :
            i2c = [TIMING |-> [r \in 0..4 |-> {}], full |-> left,
                   CTRL |-> IF on THEN CTRL_ENABLEHOST ELSE {}, busy |-> on /\ working,
                   initialized |-> FALSE, atWork |-> FALSE, identity |-> "unread"]
    BY FifoNames DEF Init
  <2>2. (IF on THEN CTRL_ENABLEHOST ELSE {}) \in {{}, CTRL_ENABLEHOST}
    OBVIOUS
  <2>3. [r \in 0..4 |-> {}] \in [0..4 -> Word]
    BY DEF Word
  <2>4. i2c \in I2CRegisters
    BY <2>1, <2>2, <2>3 DEF I2CRegisters
  <2> QED BY <2>1, <2>4 DEF HostEnabled
<1>4. StartTypeOK
  <2>1. board \in [sensor_build : BOOLEAN, device : 0..255]
    BY DEF Init, SENSOR_DEVICE_ID
  <2>2. config \in [uart : UartConfigs, i2c : I2CConfigs]
    BY DEF Init
  <2>3. pc \in Stages
    BY <1>1 DEF Stages, UartStages
  <2> QED BY <1>2, <1>3, <2>1, <2>2, <2>3, Zenon DEF StartTypeOK
<1>5. LineInv
  BY <1>1, <1>2 DEF LineInv, QuietStages, LineStages
<1>6. TimingInv
  BY <1>1, <1>3 DEF TimingInv, TimingStages, FifoStages, On
<1>7. ReadyInv
  BY <1>1, <1>3 DEF ReadyInv, RunsWhenReady, I2CStages, TimingStages, FifoStages
<1> QED BY <1>4, <1>5, <1>6, <1>7 DEF StartInv

----------------------------------------------------------------------------
(* The steps *)

\* A step of the UART leaves the rest alone.
LEMMA UartFrame ==
    ASSUME StartInv, UNCHANGED <<config, board, i2c>>, pc \in UartStages,
           pc' \in UartStages \cup {"i2c_init", "running", "failed"},
           pc' = "i2c_init" => board.sensor_build /\ uart.initialized',
           pc' = "running" => ~board.sensor_build /\ uart.initialized',
           pc' = "failed" => ~UartValid
    PROVE  TimingInv' /\ ReadyInv'
<1>1. ~On /\ ~On'
  BY DEF StartInv, TimingInv, On, UartStages, QuietStages, LineStages
<1>2. TimingInv'
  BY <1>1 DEF TimingInv, TimingStages, FifoStages, UartStages, QuietStages, LineStages, On
<1>3. RunsWhenReady'
  <2>1. pc' = "failed" => ~UartValid'
    BY SameConfig
  <2> QED BY <2>1 DEF RunsWhenReady, UartStages, QuietStages, LineStages
<1>4. ReadyInv'
  BY <1>3 DEF StartInv, ReadyInv, HostEnabled, I2CStages, TimingStages, FifoStages, UartStages,
     QuietStages, LineStages
<1> QED BY <1>2, <1>4

\* Writing a register keeps the type of them all.
LEMMA UartWritten ==
    ASSUME NEW u \in UartRegisters
    PROVE  /\ [u EXCEPT !.enabled = FALSE] \in UartRegisters
           /\ [u EXCEPT !.busy = FALSE] \in UartRegisters
           /\ \A i \in Uint16 : [u EXCEPT !.IBRD = i] \in UartRegisters
           /\ \A f \in 0..255 : [u EXCEPT !.FBRD = f] \in UartRegisters
           /\ [u EXCEPT !.LCRH = u.LCRH \ LCRH_FEN] \in UartRegisters
           /\ \A l \in SUBSET (0..7) :
                  [u EXCEPT !.LCRH = l, !.rate = <<u.IBRD, u.FBRD>>] \in UartRegisters
           /\ [u EXCEPT !.enabled = TRUE, !.initialized = TRUE] \in UartRegisters
<1> DEFINE B == 0..255
           S == SUBSET (0..7)
<1>1. UartRegisters = [enabled : BOOLEAN, busy : BOOLEAN, IBRD : Uint16, FBRD : B,
                       LCRH : S, rate : Uint16 \X B, initialized : BOOLEAN]
  BY Zenon DEF UartRegisters
<1>2. u.LCRH \ LCRH_FEN \in S
  BY DEF UartRegisters
<1> HIDE DEF B, S
<1>3. [u EXCEPT !.enabled = FALSE] \in UartRegisters /\ [u EXCEPT !.busy = FALSE] \in UartRegisters
  BY <1>1
<1>4. ASSUME NEW i \in Uint16 PROVE [u EXCEPT !.IBRD = i] \in UartRegisters
  BY <1>1
<1>5. ASSUME NEW f \in B PROVE [u EXCEPT !.FBRD = f] \in UartRegisters
  BY <1>1
<1>6. [u EXCEPT !.LCRH = u.LCRH \ LCRH_FEN] \in UartRegisters
  BY <1>1, <1>2
<1>7. ASSUME NEW l \in S
      PROVE  [u EXCEPT !.LCRH = l, !.rate = <<u.IBRD, u.FBRD>>] \in UartRegisters
  BY <1>1
<1>8. [u EXCEPT !.enabled = TRUE, !.initialized = TRUE] \in UartRegisters
  BY <1>1
<1> QED BY <1>3, <1>4, <1>5, <1>6, <1>7, <1>8, Zenon DEF B, S

LEMMA UartInitStep == StartInv /\ (uart_init \/ TransmitterDone) => StartInv'
<1> SUFFICES ASSUME StartInv, uart_init \/ TransmitterDone PROVE StartInv'
  OBVIOUS
<1> USE DEF StartInv
<1>c. ASSUME UNCHANGED config
      PROVE  /\ UartValid' <=> UartValid
             /\ IntegerDivisor' = IntegerDivisor /\ FractionalDivisor' = FractionalDivisor
             /\ LineControl' = LineControl
  BY <1>c, SameConfig
<1>t. /\ config \in [uart : UartConfigs, i2c : I2CConfigs]
      /\ board \in [sensor_build : BOOLEAN, device : 0..255]
      /\ uart \in UartRegisters
      /\ i2c \in I2CRegisters
  BY DEF StartTypeOK
<1>s. /\ UartStages \cup {"i2c_init", "running", "failed"} \subseteq Stages
      /\ UartStages = {"uart_init", "while busy", "disable fifo", "integer divisor",
                       "fractional divisor", "line control", "enable uart"}
  BY DEF Stages, UartStages, QuietStages, LineStages, I2CStages
<1>1. CASE UartRefused
  <2>1. pc = "uart_init" /\ pc' = "failed" /\ ~UartValid /\ UNCHANGED <<config, board, uart, i2c>>
    BY <1>1 DEF UartRefused
  <2>a. uart' \in UartRegisters
    BY <1>t, <2>1, UartWritten, Zenon
  <2>2. StartTypeOK'
    BY <1>s, <1>t, <2>a, <2>1 DEF StartTypeOK
  <2>3. LineInv'
    BY <1>s, <2>1 DEF LineInv, QuietStages, LineStages
  <2>4. TimingInv' /\ ReadyInv'
    BY <1>s, <2>1, UartFrame
  <2> QED BY <2>2, <2>3, <2>4
<1>2. CASE DisableUart
  <2>1. /\ pc = "uart_init" /\ pc' = "while busy" /\ UartValid
        /\ uart' = [uart EXCEPT !.enabled = FALSE] /\ UNCHANGED <<config, board, i2c>>
    BY <1>2 DEF DisableUart, UartStep
  <2>a. uart' \in UartRegisters
    BY <1>t, <2>1, UartWritten, Zenon
  <2>2. StartTypeOK'
    BY <1>s, <1>t, <2>a, <2>1 DEF StartTypeOK
  <2>3. LineInv'
    BY <1>c, <1>s, <1>t, <2>1 DEF LineInv, QuietStages, LineStages, UartRegisters
  <2>4. TimingInv' /\ ReadyInv'
    BY <1>s, <2>1, UartFrame
  <2> QED BY <2>2, <2>3, <2>4
<1>3. CASE WaitWhileBusy
  <2>1. /\ pc = "while busy" /\ pc' = "disable fifo" /\ ~uart.busy
        /\ UNCHANGED <<config, board, uart, i2c>>
    BY <1>3 DEF WaitWhileBusy, UartStep
  <2>a. uart' \in UartRegisters
    BY <1>t, <2>1, UartWritten, Zenon
  <2>2. StartTypeOK'
    BY <1>s, <1>t, <2>a, <2>1 DEF StartTypeOK
  <2>3. LineInv'
    BY <1>c, <1>s, <1>t, <2>1 DEF LineInv, QuietStages, LineStages, UartRegisters
  <2>4. TimingInv' /\ ReadyInv'
    BY <1>s, <2>1, UartFrame
  <2> QED BY <2>2, <2>3, <2>4
<1>4. CASE DisableFifo
  <2>1. /\ pc = "disable fifo" /\ pc' = "integer divisor"
        /\ uart' = [uart EXCEPT !.LCRH = uart.LCRH \ LCRH_FEN]
        /\ UNCHANGED <<config, board, i2c>>
    BY <1>4 DEF DisableFifo, UartStep
  <2>a. uart' \in UartRegisters
    BY <1>t, <2>1, UartWritten, Zenon
  <2>2. StartTypeOK'
    BY <1>s, <1>t, <2>a, <2>1 DEF StartTypeOK
  <2>3. LineInv'
    BY <1>c, <1>s, <1>t, <2>1 DEF LineInv, QuietStages, LineStages, UartRegisters
  <2>4. TimingInv' /\ ReadyInv'
    BY <1>s, <2>1, UartFrame
  <2> QED BY <2>2, <2>3, <2>4
<1>5. CASE SetLine
  <2>1. UartValid /\ pc \in UartStages
    BY <1>5, <1>s DEF LineInv, SetLine, UartStep
  <2>2. IntegerDivisor \in Uint16 /\ FractionalDivisor \in 0..255 /\ LineControl \in SUBSET (0..7)
    BY <2>1, DivisorsTyped, LineFields
  <2>3. CASE UartStep("integer divisor", "fractional divisor",
                      [uart EXCEPT !.IBRD = IntegerDivisor])
    <3>1. /\ pc = "integer divisor" /\ pc' = "fractional divisor"
          /\ uart' = [uart EXCEPT !.IBRD = IntegerDivisor] /\ UNCHANGED <<config, board, i2c>>
      BY <2>3 DEF UartStep
    <3>a. uart' \in UartRegisters
      BY <1>t, <2>2, <3>1, UartWritten, Zenon
    <3>2. StartTypeOK'
      BY <1>s, <1>t, <3>a, <3>1 DEF StartTypeOK
    <3>3. LineInv'
      BY <1>c, <1>s, <1>t, <3>1 DEF LineInv, QuietStages, LineStages, UartRegisters
    <3>4. TimingInv' /\ ReadyInv'
      BY <1>s, <3>1, UartFrame
    <3> QED BY <3>2, <3>3, <3>4
  <2>4. CASE UartStep("fractional divisor", "line control",
                      [uart EXCEPT !.FBRD = FractionalDivisor])
    <3>1. /\ pc = "fractional divisor" /\ pc' = "line control"
          /\ uart' = [uart EXCEPT !.FBRD = FractionalDivisor] /\ UNCHANGED <<config, board, i2c>>
      BY <2>4 DEF UartStep
    <3>a. uart' \in UartRegisters
      BY <1>t, <2>2, <3>1, UartWritten, Zenon
    <3>2. StartTypeOK'
      BY <1>s, <1>t, <3>a, <3>1 DEF StartTypeOK
    <3>3. LineInv'
      BY <1>c, <1>s, <1>t, <3>1 DEF LineInv, QuietStages, LineStages, UartRegisters
    <3>4. TimingInv' /\ ReadyInv'
      BY <1>s, <3>1, UartFrame
    <3> QED BY <3>2, <3>3, <3>4
  <2>5. CASE UartStep("line control", "enable uart",
                      [uart EXCEPT !.LCRH = LineControl, !.rate = <<uart.IBRD, uart.FBRD>>])
    <3>1. /\ pc = "line control" /\ pc' = "enable uart"
          /\ uart' = [uart EXCEPT !.LCRH = LineControl, !.rate = <<uart.IBRD, uart.FBRD>>]
          /\ UNCHANGED <<config, board, i2c>>
      BY <2>5 DEF UartStep
    <3>a. uart' \in UartRegisters
      BY <1>t, <2>2, <3>1, UartWritten, Zenon
    <3>2. StartTypeOK'
      BY <1>s, <1>t, <3>a, <3>1 DEF StartTypeOK
    <3>3. LineInv'
      <4>1. /\ ~uart.enabled /\ ~uart.busy /\ ~uart.initialized
            /\ uart.IBRD = IntegerDivisor /\ uart.FBRD = FractionalDivisor
        BY <1>s, <3>1 DEF LineInv, QuietStages, LineStages
      <4>2. /\ uart'.enabled = uart.enabled /\ uart'.busy = uart.busy
            /\ uart'.initialized = uart.initialized /\ uart'.LCRH = LineControl
            /\ uart'.IBRD = uart.IBRD /\ uart'.FBRD = uart.FBRD
            /\ uart'.rate = <<uart.IBRD, uart.FBRD>>
        <5> DEFINE B == 0..255
                   S == SUBSET (0..7)
        <5>1. uart \in [enabled : BOOLEAN, busy : BOOLEAN, IBRD : Uint16, FBRD : B,
                        LCRH : S, rate : Uint16 \X B, initialized : BOOLEAN]
          BY <1>t, Zenon DEF UartRegisters
        <5> HIDE DEF B, S
        <5> QED BY <3>1, <5>1
      <4>3. /\ UartValid' /\ IntegerDivisor' = IntegerDivisor
            /\ FractionalDivisor' = FractionalDivisor /\ LineControl' = LineControl
        BY <1>c, <2>1, <3>1
      <4>4. pc' = "enable uart"
        BY <3>1
      <4>5. /\ uart'.rate = <<IntegerDivisor', FractionalDivisor'>>
            /\ uart'.LCRH = LineControl' /\ uart'.IBRD = IntegerDivisor'
            /\ uart'.FBRD = FractionalDivisor'
        BY <4>1, <4>2, <4>3
      <4> QED BY <4>1, <4>2, <4>3, <4>4, <4>5 DEF LineInv
    <3>4. TimingInv' /\ ReadyInv'
      BY <1>s, <3>1, UartFrame
    <3> QED BY <3>2, <3>3, <3>4
  <2> QED BY <1>5, <2>3, <2>4, <2>5 DEF SetLine
<1>6. CASE EnableUart
  <2>1. /\ pc = "enable uart"
        /\ pc' = IF board.sensor_build THEN "i2c_init" ELSE "running"
        /\ uart' = [uart EXCEPT !.enabled = TRUE, !.initialized = TRUE]
        /\ UNCHANGED <<config, board, i2c>>
    BY <1>6 DEF EnableUart, UartStep
  <2>a. uart' \in UartRegisters
    BY <1>t, <2>1, UartWritten, Zenon
  <2>2. StartTypeOK'
    BY <1>s, <1>t, <2>a, <2>1 DEF StartTypeOK
  <2>3. LineInv'
    <3>1. /\ uart'.enabled /\ uart'.initialized /\ uart'.LCRH = uart.LCRH
          /\ uart'.rate = uart.rate
      BY <1>t, <2>1 DEF UartRegisters
    <3>2. UartValid /\ uart.LCRH = LineControl /\ uart.rate = <<IntegerDivisor, FractionalDivisor>>
      BY <2>1 DEF LineInv
    <3>3. pc' \notin UartStages
      BY <1>s, <2>1
    <3> QED BY <1>c, <2>1, <3>1, <3>2, <3>3 DEF LineInv, UartStages, QuietStages
  <2>4. TimingInv' /\ ReadyInv'
    <3>1. uart.initialized'
      BY <1>t, <2>1 DEF UartRegisters
    <3> QED BY <1>s, <2>1, <3>1, UartFrame
  <2> QED BY <2>2, <2>3, <2>4
<1>7. CASE TransmitterDone
  <2>1. uart' = [uart EXCEPT !.busy = FALSE] /\ UNCHANGED <<pc, config, board, i2c>>
    BY <1>7 DEF TransmitterDone
  <2>a. uart' \in UartRegisters
    BY <1>t, <2>1, UartWritten, Zenon
  <2>2. StartTypeOK'
    BY <1>s, <1>t, <2>a, <2>1 DEF StartTypeOK
  <2>3. /\ uart'.enabled = uart.enabled /\ uart'.IBRD = uart.IBRD /\ uart'.FBRD = uart.FBRD
        /\ uart'.LCRH = uart.LCRH /\ uart'.rate = uart.rate
        /\ uart'.initialized = uart.initialized /\ ~uart'.busy
    BY <1>t, <2>1 DEF UartRegisters
  <2>4. LineInv'
    BY <1>c, <2>1, <2>3 DEF LineInv
  <2>5. TimingInv'
    BY <2>1, SameConfig DEF TimingInv, On
  <2>6. ReadyInv'
    BY <2>1, <2>3, SameConfig DEF ReadyInv, RunsWhenReady, Done, HostEnabled
  <2> QED BY <2>2, <2>4, <2>5, <2>6
<1> QED BY <1>1, <1>2, <1>3, <1>4, <1>5, <1>6, <1>7 DEF uart_init

\* Setting a FIFO's bit of FIFO_CTRL empties it and no other.
LEMMA FifoReset ==
    ASSUME NEW f \in Fifos, NEW g \in Fifos
    PROVE  FIFO_CTRL[g] \cap SET_REG_FIELD({}, FIFO_CTRL[f], {0}) = {} <=> g # f
<1>1. PICK k \in 0..8 : FIFO_CTRL[f] = {k}
  BY DEF Fifos, FIFO_CTRL
<1>2. {k} = Field(k, 1)
  BY DEF Field
<1>3. GET_OFFSET({k}) = k
  BY <1>2, OffsetOfField
<1>4. SET_REG_FIELD({}, {k}, {0}) = {k}
  BY <1>3 DEF SET_REG_FIELD, MASKED_OR_32, ShiftLeft, Positions
<1>5. FIFO_CTRL[g] \cap FIFO_CTRL[f] = {} <=> g # f
  BY DEF Fifos, FIFO_CTRL
<1> QED BY <1>1, <1>4, <1>5, Zenon

\* A step of the I2C controller leaves the UART alone.
LEMMA I2CFrame ==
    ASSUME StartInv, UNCHANGED <<config, board, uart>>, pc \in I2CStages,
           pc' \in I2CStages \cup {"sensor_init", "failed"}
    PROVE  /\ LineInv'
           /\ pc' \in Stages
           /\ uart.initialized' /\ board.sensor_build'
<1>1. uart.initialized /\ board.sensor_build
  BY DEF StartInv, ReadyInv
<1>2. LineInv'
  BY <1>1, SameConfig DEF StartInv, LineInv, UartStages, QuietStages, LineStages,
                          I2CStages, TimingStages, FifoStages
<1>3. pc' \in Stages
  BY DEF Stages
<1> QED BY <1>1, <1>2, <1>3

LEMMA I2CInitStep == StartInv /\ i2c_init => StartInv'
<1> SUFFICES ASSUME StartInv, i2c_init PROVE StartInv'
  OBVIOUS
<1> USE DEF StartInv
<1>t. /\ config \in [uart : UartConfigs, i2c : I2CConfigs]
      /\ board \in [sensor_build : BOOLEAN, device : 0..255]
      /\ uart \in UartRegisters /\ i2c \in I2CRegisters
  BY DEF StartTypeOK
<1>s. /\ I2CStages = {"i2c_init", "enable host", "timing 1", "timing 2", "timing 3", "timing 4",
                      "reset rx", "reset fmt", "reset acq", "reset tx"}
      /\ TimingStages = {"timing 1", "timing 2", "timing 3", "timing 4"}
      /\ FifoStages = {"reset rx", "reset fmt", "reset acq", "reset tx"}
  BY DEF I2CStages, TimingStages, FifoStages
<1>r. ASSUME UNCHANGED <<config, board, uart>>, pc \in I2CStages,
             pc' \in I2CStages \cup {"sensor_init", "failed"}, i2c' \in I2CRegisters
      PROVE  StartTypeOK' /\ LineInv' /\ uart.initialized' /\ board.sensor_build'
  <2>1. LineInv' /\ pc' \in Stages /\ uart.initialized' /\ board.sensor_build'
    BY <1>r, I2CFrame
  <2> QED BY <1>r, <1>t, <2>1, Zenon DEF StartTypeOK
<1>c. ASSUME UNCHANGED config
      PROVE  /\ SpeedKnown' <=> SpeedKnown
             /\ Timing0' = Timing0 /\ Timing2' = Timing2 /\ Timing3' = Timing3
             /\ Timing4' = Timing4
  BY <1>c, SameConfig
<1>1. CASE I2CRefused
  <2>1. pc = "i2c_init" /\ pc' = "failed" /\ ~SpeedKnown /\ UNCHANGED <<config, board, uart, i2c>>
    BY <1>1 DEF I2CRefused
  <2>2. StartTypeOK' /\ LineInv' /\ board.sensor_build'
    BY <1>r, <1>s, <1>t, <2>1
  <2>3. TimingInv'
    BY <1>s, <2>1 DEF TimingInv, On
  <2>4. ReadyInv'
    BY <1>c, <1>s, <2>1, <2>2 DEF ReadyInv, RunsWhenReady, HostEnabled
  <2> QED BY <2>2, <2>3, <2>4
<1>2. CASE SetTimings
  <2> DEFINE R(r, at, next, t) ==
                 /\ pc = at /\ pc' = next /\ i2c'.initialized = i2c.initialized
                 /\ UNCHANGED <<config, board, uart>>
                 /\ \A q \in 0..4 : i2c'.TIMING[q] = IF q = r THEN t ELSE i2c.TIMING[q]
                 /\ StartTypeOK' /\ LineInv' /\ ReadyInv'
  <2>1. ASSUME NEW r \in {0, 1, 2, 3, 4}, NEW at, NEW next, NEW upper, NEW lower,
               SetTiming(r, at, next, upper, lower), at \in I2CStages,
               next \in TimingStages \cup {"reset rx"}
        PROVE  R(r, at, next, Timing(upper, lower))
    <3>1. /\ pc = at /\ pc' = next /\ i2c' = [i2c EXCEPT !.TIMING[r] = Timing(upper, lower)]
          /\ UNCHANGED <<config, board, uart>>
      BY <2>1 DEF SetTiming
    <3>2. Timing(upper, lower) \in Word
      BY TimingTyped
    <3>3. /\ i2c' \in I2CRegisters /\ i2c'.CTRL = i2c.CTRL /\ i2c'.busy = i2c.busy
          /\ i2c'.initialized = i2c.initialized
      BY <1>t, <3>1, <3>2 DEF I2CRegisters
    <3>4. \A q \in 0..4 :
              i2c'.TIMING[q] = IF q = r THEN Timing(upper, lower) ELSE i2c.TIMING[q]
      BY <1>t, <3>1 DEF I2CRegisters
    <3>5. StartTypeOK' /\ LineInv' /\ uart.initialized' /\ board.sensor_build'
      BY <1>r, <1>s, <2>1, <3>1, <3>3
    <3>6. ReadyInv'
      BY <1>s, <2>1, <3>1, <3>3, <3>5 DEF ReadyInv, RunsWhenReady, HostEnabled
    <3> QED BY <3>1, <3>3, <3>4, <3>5, <3>6
  <2> HIDE DEF R
  <2>2. CASE SpeedKnown /\ SetTiming(0, "i2c_init", "timing 1", Cycles("scl_time_high"),
                                     Cycles("scl_time_low"))
    <3>1. 0 \in {0, 1, 2, 3, 4} /\ "i2c_init" \in I2CStages /\ "timing 1" \in TimingStages \cup {"reset rx"}
      BY <1>s
    <3>2. R(0, "i2c_init", "timing 1", Timing0)
      BY <2>1, <2>2, <3>1, Zenon DEF Timing0
    <3>3. /\ pc = "i2c_init" /\ pc' = "timing 1" /\ On' = On /\ UNCHANGED config
          /\ StartTypeOK' /\ LineInv' /\ ReadyInv'
      BY <3>2, Zenon DEF R, On
    <3>4. \A q \in 0..4 : i2c'.TIMING[q] = IF q = 0 THEN Timing0 ELSE i2c.TIMING[q]
      BY <3>2, Zenon DEF R
    <3>5. /\ i2c'.TIMING[0] = Timing0
          /\ i2c'.TIMING[2] = i2c.TIMING[2] /\ i2c'.TIMING[3] = i2c.TIMING[3]
          /\ i2c'.TIMING[4] = i2c.TIMING[4]
      BY <3>4
    <3>6. TimingInv'
      BY <1>c, <1>s, <2>2, <3>3, <3>5 DEF TimingInv, On
    <3> QED BY <3>3, <3>6
  <2>3. CASE \E rise \in Garbage, fall \in Garbage :
                 SetTiming(1, "timing 1", "timing 2", rise, fall)
    <3>p. PICK rise, fall : SetTiming(1, "timing 1", "timing 2", rise, fall)
      BY <2>3
    <3>1. 1 \in {0, 1, 2, 3, 4} /\ "timing 1" \in I2CStages /\ "timing 2" \in TimingStages \cup {"reset rx"}
      BY <1>s
    <3>2. R(1, "timing 1", "timing 2", Timing(rise, fall))
      BY <2>1, <3>p, <3>1, Zenon
    <3>3. /\ pc = "timing 1" /\ pc' = "timing 2" /\ On' = On /\ UNCHANGED config
          /\ StartTypeOK' /\ LineInv' /\ ReadyInv'
      BY <3>2, Zenon DEF R, On
    <3>4. \A q \in 0..4 : i2c'.TIMING[q] = IF q = 1 THEN Timing(rise, fall) ELSE i2c.TIMING[q]
      BY <3>2, Zenon DEF R
    <3>5. /\ i2c'.TIMING[0] = i2c.TIMING[0] /\ i2c'.TIMING[2] = i2c.TIMING[2]
          /\ i2c'.TIMING[3] = i2c.TIMING[3] /\ i2c'.TIMING[4] = i2c.TIMING[4]
      BY <3>4
    <3>6. TimingInv'
      BY <1>c, <1>s, <3>3, <3>5 DEF TimingInv, On
    <3> QED BY <3>3, <3>6
  <2>4. CASE SetTiming(2, "timing 2", "timing 3", Cycles("start_signal_setup"),
                       Cycles("start_signal_hold"))
    <3>1. 2 \in {0, 1, 2, 3, 4} /\ "timing 2" \in I2CStages /\ "timing 3" \in TimingStages \cup {"reset rx"}
      BY <1>s
    <3>2. R(2, "timing 2", "timing 3", Timing2)
      BY <2>1, <2>4, <3>1, Zenon DEF Timing2
    <3>3. /\ pc = "timing 2" /\ pc' = "timing 3" /\ On' = On /\ UNCHANGED config
          /\ StartTypeOK' /\ LineInv' /\ ReadyInv'
      BY <3>2, Zenon DEF R, On
    <3>4. \A q \in 0..4 : i2c'.TIMING[q] = IF q = 2 THEN Timing2 ELSE i2c.TIMING[q]
      BY <3>2, Zenon DEF R
    <3>5. /\ i2c'.TIMING[2] = Timing2
          /\ i2c'.TIMING[0] = i2c.TIMING[0] /\ i2c'.TIMING[3] = i2c.TIMING[3]
          /\ i2c'.TIMING[4] = i2c.TIMING[4]
      BY <3>4
    <3>6. TimingInv'
      BY <1>c, <1>s, <3>3, <3>5 DEF TimingInv, On
    <3> QED BY <3>3, <3>6
  <2>5. CASE SetTiming(3, "timing 3", "timing 4", Cycles("data_signal_setup"), 1)
    <3>1. 3 \in {0, 1, 2, 3, 4} /\ "timing 3" \in I2CStages /\ "timing 4" \in TimingStages \cup {"reset rx"}
      BY <1>s
    <3>2. R(3, "timing 3", "timing 4", Timing3)
      BY <2>1, <2>5, <3>1, Zenon DEF Timing3
    <3>3. /\ pc = "timing 3" /\ pc' = "timing 4" /\ On' = On /\ UNCHANGED config
          /\ StartTypeOK' /\ LineInv' /\ ReadyInv'
      BY <3>2, Zenon DEF R, On
    <3>4. \A q \in 0..4 : i2c'.TIMING[q] = IF q = 3 THEN Timing3 ELSE i2c.TIMING[q]
      BY <3>2, Zenon DEF R
    <3>5. /\ i2c'.TIMING[3] = Timing3
          /\ i2c'.TIMING[0] = i2c.TIMING[0] /\ i2c'.TIMING[2] = i2c.TIMING[2]
          /\ i2c'.TIMING[4] = i2c.TIMING[4]
      BY <3>4
    <3>6. TimingInv'
      BY <1>c, <1>s, <3>3, <3>5 DEF TimingInv, On
    <3> QED BY <3>3, <3>6
  <2>6. CASE SetTiming(4, "timing 4", "reset rx", Cycles("stop_signal_setup"),
                       Cycles("stop_signal_hold"))
    <3>1. 4 \in {0, 1, 2, 3, 4} /\ "timing 4" \in I2CStages /\ "reset rx" \in TimingStages \cup {"reset rx"}
      BY <1>s
    <3>2. R(4, "timing 4", "reset rx", Timing4)
      BY <2>1, <2>6, <3>1, Zenon DEF Timing4
    <3>3. /\ pc = "timing 4" /\ pc' = "reset rx" /\ On' = On /\ UNCHANGED config
          /\ StartTypeOK' /\ LineInv' /\ ReadyInv'
      BY <3>2, Zenon DEF R, On
    <3>4. \A q \in 0..4 : i2c'.TIMING[q] = IF q = 4 THEN Timing4 ELSE i2c.TIMING[q]
      BY <3>2, Zenon DEF R
    <3>5. /\ i2c'.TIMING[4] = Timing4
          /\ i2c'.TIMING[0] = i2c.TIMING[0] /\ i2c'.TIMING[2] = i2c.TIMING[2]
          /\ i2c'.TIMING[3] = i2c.TIMING[3]
      BY <3>4
    <3>6. TimingInv'
      BY <1>c, <1>s, <3>3, <3>5 DEF TimingInv, On
    <3> QED BY <3>3, <3>6
  <2> QED
    <3>1. StartTypeOK' /\ LineInv' /\ TimingInv' /\ ReadyInv'
      BY <1>2, <2>2, <2>3, <2>4, <2>5, <2>6 DEF SetTimings
    <3> QED BY <3>1
<1>3. CASE ResetFifos
  <2>1. ASSUME NEW f \in Fifos, NEW at \in FifoStages,
               NEW next \in FifoStages \cup {"enable host"}, ResetFifo(f, at, next)
        PROVE  /\ pc = at /\ pc' = next /\ i2c'.full = i2c.full \ {f}
               /\ UNCHANGED <<config, board, uart>>
               /\ i2c'.TIMING = i2c.TIMING /\ i2c'.CTRL = i2c.CTRL
               /\ i2c'.initialized = i2c.initialized /\ i2c'.busy = i2c.busy
               /\ i2c'.atWork = IF f = "rx" THEN AtWork ELSE i2c.atWork
               /\ StartTypeOK' /\ LineInv' /\ uart.initialized' /\ board.sensor_build'
    <3> DEFINE left == {g \in i2c.full :
                            FIFO_CTRL[g] \cap SET_REG_FIELD({}, FIFO_CTRL[f], {0}) = {}}
                   w == IF f = "rx" THEN AtWork ELSE i2c.atWork
    <3>1. /\ pc = at /\ pc' = next /\ i2c' = [i2c EXCEPT !.full = left, !.atWork = w]
          /\ UNCHANGED <<config, board, uart>>
      BY <2>1, Zenon DEF ResetFifo
    <3>2. i2c.full \subseteq Fifos
      BY <1>t DEF I2CRegisters
    <3>3. left = i2c.full \ {f}
      BY <3>2, FifoReset
    <3>6. w \in BOOLEAN
      <4>1. i2c.atWork \in BOOLEAN
        BY <1>t DEF I2CRegisters
      <4>2. AtWork \in BOOLEAN
        BY Zenon DEF AtWork
      <4> QED BY <4>1, <4>2, Zenon
    <3> HIDE DEF left, w
    <3>4. /\ i2c' \in I2CRegisters /\ i2c'.full = i2c.full \ {f} /\ i2c'.atWork = w
          /\ i2c'.TIMING = i2c.TIMING /\ i2c'.CTRL = i2c.CTRL
          /\ i2c'.initialized = i2c.initialized /\ i2c'.busy = i2c.busy
      BY <1>t, <3>1, <3>2, <3>3, <3>6 DEF I2CRegisters
    <3>5. StartTypeOK' /\ LineInv' /\ uart.initialized' /\ board.sensor_build'
      BY <1>r, <1>s, <2>1, <3>1, <3>4
    <3> QED BY <3>1, <3>4, <3>5 DEF w
  <2> DEFINE R(f, at, next) ==
                 /\ pc = at /\ pc' = next /\ i2c'.full = i2c.full \ {f}
                 /\ UNCHANGED <<config, board, uart>>
                 /\ i2c'.TIMING = i2c.TIMING /\ i2c'.CTRL = i2c.CTRL
                 /\ i2c'.initialized = i2c.initialized /\ i2c'.busy = i2c.busy
                 /\ i2c'.atWork = IF f = "rx" THEN AtWork ELSE i2c.atWork
                 /\ StartTypeOK' /\ LineInv' /\ uart.initialized' /\ board.sensor_build'
  <2>2. CASE ResetFifo("rx", "reset rx", "reset fmt")
    <3>1. R("rx", "reset rx", "reset fmt")
      BY <1>s, <2>1, <2>2 DEF Fifos
    <3>2. TimingInv'
      BY <1>c, <1>s, <3>1 DEF TimingInv, On
    <3>3. ReadyInv'
      BY <1>s, <3>1 DEF ReadyInv, RunsWhenReady, Done, AtWork, HostEnabled
    <3> QED BY <3>1, <3>2, <3>3
  <2>3. CASE ResetFifo("fmt", "reset fmt", "reset acq")
    <3>1. R("fmt", "reset fmt", "reset acq")
      BY <1>s, <2>1, <2>3 DEF Fifos
    <3>2. TimingInv'
      BY <1>c, <1>s, <3>1 DEF TimingInv, On
    <3>3. ReadyInv'
      BY <1>s, <3>1 DEF ReadyInv, RunsWhenReady, Done, AtWork, HostEnabled
    <3> QED BY <3>1, <3>2, <3>3
  <2>4. CASE ResetFifo("acq", "reset acq", "reset tx")
    <3>1. R("acq", "reset acq", "reset tx")
      BY <1>s, <2>1, <2>4 DEF Fifos
    <3>2. TimingInv'
      BY <1>c, <1>s, <3>1 DEF TimingInv, On
    <3>3. ReadyInv'
      BY <1>s, <3>1 DEF ReadyInv, RunsWhenReady, Done, AtWork, HostEnabled
    <3> QED BY <3>1, <3>2, <3>3
  <2>5. CASE ResetFifo("tx", "reset tx", "enable host")
    <3>1. R("tx", "reset tx", "enable host")
      BY <1>s, <2>1, <2>5 DEF Fifos
    <3>2. TimingInv'
      BY <1>c, <1>s, <3>1 DEF TimingInv, On
    <3>3. ReadyInv'
      BY <1>s, <3>1 DEF ReadyInv, RunsWhenReady, Done, AtWork, HostEnabled
    <3> QED BY <3>1, <3>2, <3>3
  <2> QED BY <1>3, <2>2, <2>3, <2>4, <2>5 DEF ResetFifos
<1>4. CASE EnableHost
  <2>1. /\ pc = "enable host" /\ pc' = "sensor_init"
        /\ i2c' = [i2c EXCEPT !.CTRL = CTRL_ENABLEHOST, !.initialized = TRUE]
        /\ UNCHANGED <<config, board, uart>>
    BY <1>4 DEF EnableHost
  <2>2. /\ i2c' \in I2CRegisters /\ i2c'.full = i2c.full /\ i2c'.TIMING = i2c.TIMING
        /\ i2c'.initialized /\ i2c'.busy = i2c.busy /\ i2c'.atWork = i2c.atWork
        /\ i2c'.CTRL = CTRL_ENABLEHOST
    BY <1>t, <2>1 DEF I2CRegisters
  <2>3. StartTypeOK' /\ LineInv' /\ uart.initialized' /\ board.sensor_build'
    BY <1>r, <1>s, <2>1, <2>2
  <2>4. TimingInv'
    BY <1>c, <1>s, <2>1, <2>2 DEF TimingInv
  <2>5. ReadyInv'
    BY <1>s, <2>1, <2>2, <2>3 DEF ReadyInv, RunsWhenReady, Done, HostEnabled
  <2> QED BY <2>3, <2>4, <2>5
<1> QED BY <1>1, <1>2, <1>3, <1>4 DEF i2c_init

\* What device_id starts with identifies no sensor.
LEMMA NoIdentity == 0 # SENSOR_DEVICE_ID
  BY DEF SENSOR_DEVICE_ID

LEMMA SensorInitStep == StartInv /\ sensor_init => StartInv'
<1> SUFFICES ASSUME StartInv, sensor_init PROVE StartInv'
  OBVIOUS
<1> USE DEF StartInv
<1>1. PICK came \in {"own", "left over", "late"}, device_id \in {0, SENSOR_DEVICE_ID},
           full \in {i2c.full, i2c.full \ {"rx"}, i2c.full \cup {"fmt"},
                    (i2c.full \ {"rx"}) \cup {"fmt"}} :
          /\ pc = "sensor_init"
          /\ Identity(came, device_id)
          /\ i2c' = [i2c EXCEPT !.full = full, !.identity = came]
          /\ came = "own" => full = i2c.full
          /\ pc' = IF device_id = SENSOR_DEVICE_ID THEN "running" ELSE "failed"
          /\ UNCHANGED <<config, board, uart>>
  BY DEF sensor_init, sensor_get_device_id
<1>2. /\ i2c \in I2CRegisters /\ i2c.full \subseteq Fifos /\ full \subseteq Fifos
  BY <1>1 DEF StartTypeOK, I2CRegisters, Fifos
<1>3. /\ i2c' \in I2CRegisters /\ i2c'.full = full /\ i2c'.identity = came
      /\ i2c'.TIMING = i2c.TIMING /\ i2c'.CTRL = i2c.CTRL /\ i2c'.busy = i2c.busy
      /\ i2c'.initialized = i2c.initialized /\ i2c'.atWork = i2c.atWork
  BY <1>1, <1>2 DEF I2CRegisters
<1>4. StartTypeOK'
  BY <1>1, <1>3 DEF StartTypeOK, Stages
<1>5. LineInv'
  BY <1>1, SameConfig DEF ReadyInv, LineInv, UartStages, QuietStages, LineStages
<1>6. TimingInv'
  BY <1>1, <1>3, SameConfig DEF TimingInv, On, TimingStages, FifoStages
<1>7. /\ uart.initialized /\ board.sensor_build /\ i2c.initialized
      /\ i2c.atWork \/ Done
      /\ "fmt" \notin i2c.full /\ "acq" \notin i2c.full /\ "tx" \notin i2c.full
      /\ i2c.busy => HostEnabled
  BY <1>1 DEF ReadyInv
\* The controller had nothing to do: the byte is the sensor's or late.
<1>8. ASSUME ~i2c.atWork
      PROVE  /\ i2c.full = {} /\ ~i2c.busy
             /\ \/ came = "own" /\ device_id = board.device /\ full = {}
                \/ came = "late" /\ device_id = 0
  <2>1. i2c.full = {} /\ ~i2c.busy
    BY <1>2, <1>7, <1>8 DEF Done, Fifos
  <2> QED BY <1>1, <2>1 DEF Identity
<1>9. RunsWhenReady'
  <2>1. 0 # SENSOR_DEVICE_ID
    BY NoIdentity
  <2>2. CASE i2c.atWork
    <3>1. uart'.initialized /\ board'.sensor_build /\ i2c'.initialized /\ i2c'.atWork
      BY <1>1, <1>3, <1>7, <2>2
    <3> QED BY <3>1 DEF RunsWhenReady
  <2>3. CASE ~i2c.atWork /\ device_id = SENSOR_DEVICE_ID
    <3>1. board.device = SENSOR_DEVICE_ID /\ full = {}
      BY <1>8, <2>1, <2>3
    <3> QED BY <1>1, <1>3, <1>7, <2>3, <3>1 DEF RunsWhenReady
  <2>4. CASE ~i2c.atWork /\ device_id # SENSOR_DEVICE_ID
    <3>1. board.device # SENSOR_DEVICE_ID \/ came = "late"
      BY <1>8, <2>4
    <3> QED BY <1>1, <1>3, <1>7, <2>4, <3>1 DEF RunsWhenReady
  <2> QED BY <2>2, <2>3, <2>4
<1>10. ReadyInv'
  BY <1>1, <1>3, <1>7, <1>8, <1>9
     DEF ReadyInv, HostEnabled, I2CStages, TimingStages, FifoStages
<1> QED BY <1>4, <1>5, <1>6, <1>10

\* What the controller goes on with is not the driver's.
LEMMA ControllerStep == StartInv /\ ControllerWorks => StartInv'
<1> SUFFICES ASSUME StartInv, ControllerWorks PROVE StartInv'
  OBVIOUS
<1> USE DEF StartInv
<1>1. PICK full \in {i2c.full, i2c.full \ {"fmt"}, i2c.full \cup {"rx"}}, busy \in BOOLEAN :
          /\ HostEnabled /\ (i2c.busy \/ "fmt" \in i2c.full)
          /\ i2c' = [i2c EXCEPT !.full = full, !.busy = busy]
          /\ UNCHANGED <<pc, config, board, uart>>
  <2>1. i2c \in I2CRegisters
    BY DEF StartTypeOK
  <2>2. i2c = [i2c EXCEPT !.full = i2c.full, !.busy = i2c.busy]
    BY <2>1 DEF I2CRegisters
  <2>3. /\ [i2c EXCEPT !.full = i2c.full \cup {"rx"}]
                = [i2c EXCEPT !.full = i2c.full \cup {"rx"}, !.busy = i2c.busy]
        /\ [i2c EXCEPT !.busy = FALSE] = [i2c EXCEPT !.full = i2c.full, !.busy = FALSE]
    BY <2>1 DEF I2CRegisters
  <2>4. i2c.busy \in BOOLEAN
    BY <2>1 DEF I2CRegisters
  <2> QED BY <2>3, <2>4 DEF ControllerWorks
<1>2. i2c \in I2CRegisters /\ full \subseteq Fifos
  BY <1>1 DEF StartTypeOK, I2CRegisters, Fifos
<1>3. /\ i2c' \in I2CRegisters /\ i2c'.full = full /\ i2c'.identity = i2c.identity
      /\ i2c'.TIMING = i2c.TIMING /\ i2c'.CTRL = i2c.CTRL
      /\ i2c'.initialized = i2c.initialized /\ i2c'.atWork = i2c.atWork
  BY <1>1, <1>2 DEF I2CRegisters
<1>4. StartTypeOK'
  BY <1>1, <1>3 DEF StartTypeOK
<1>5. LineInv'
  BY <1>1, SameConfig DEF LineInv
<1>6. TimingInv'
  BY <1>1, <1>3, SameConfig DEF TimingInv, On
\* Where it counts the controller has something to do only if it had before.
<1>7. Done => FALSE
  BY <1>1 DEF Done
<1>8. RunsWhenReady'
  <2>1. pc = "running" /\ board.sensor_build /\ ~i2c.atWork => i2c.full = {} /\ ~i2c.busy
    BY DEF ReadyInv, RunsWhenReady
  <2>2. ~(pc = "running" /\ board.sensor_build /\ ~i2c.atWork)
    BY <1>1, <2>1
  <2> QED BY <1>1, <1>3, <2>2, SameConfig DEF ReadyInv, RunsWhenReady
<1>9. /\ "fmt" \notin i2c.full => "fmt" \notin full
      /\ "acq" \notin i2c.full => "acq" \notin full
      /\ "tx" \notin i2c.full => "tx" \notin full
  BY <1>1
<1>10. HostEnabled'
  BY <1>1, <1>3 DEF HostEnabled
<1>11. ~(pc = "running" /\ board.sensor_build /\ ~i2c.atWork)
  BY <1>1 DEF ReadyInv, RunsWhenReady
<1>12. ReadyInv'
  BY <1>1, <1>3, <1>7, <1>8, <1>9, <1>10, <1>11 DEF ReadyInv
<1> QED BY <1>4, <1>5, <1>6, <1>12

----------------------------------------------------------------------------
(* What follows *)

LEMMA StartStep == StartInv /\ [Next]_vars => StartInv'
<1> SUFFICES ASSUME StartInv, [Next]_vars PROVE StartInv'
  OBVIOUS
<1>1. CASE Next
  BY <1>1, UartInitStep, I2CInitStep, SensorInitStep, ControllerStep DEF Next, init_server
<1>2. CASE UNCHANGED vars
  <2>1. UNCHANGED <<pc, config, board, uart, i2c>>
    BY <1>2 DEF vars
  <2>2. StartTypeOK'
    BY <2>1 DEF StartInv, StartTypeOK
  <2>3. LineInv'
    BY <2>1, SameConfig DEF StartInv, LineInv
  <2>4. TimingInv'
    BY <2>1, SameConfig DEF StartInv, TimingInv, On
  <2>5. ReadyInv'
    BY <2>1, SameConfig DEF StartInv, ReadyInv, RunsWhenReady, Done, HostEnabled
  <2> QED BY <2>2, <2>3, <2>4, <2>5 DEF StartInv
<1> QED BY <1>1, <1>2

THEOREM StartInvariant == Spec => []StartInv
<1> QED BY StartInit, StartStep, PTL DEF Spec

(***************************************************************************)
(* Every register keeps to its width and every local to what it may hold,  *)
(* while init_server (iree_runtime.c:106) and the drivers' uart_init and   *)
(* i2c_init set them, one access at a time.                                *)
(***************************************************************************)
THEOREM StartTypeCorrect == Spec => []InitTypeOK
<1>1. StartInv => InitTypeOK
  <2> SUFFICES ASSUME StartInv PROVE InitTypeOK
    OBVIOUS
  <2>1. config.uart \in UartConfigs /\ config.i2c \in I2CConfigs
    BY DEF StartInv, StartTypeOK
  <2>2. /\ board \in [sensor_build : BOOLEAN, device : 0..255]
        /\ uart \in UartRegisters /\ i2c \in I2CRegisters
    BY Zenon DEF StartInv, StartTypeOK
  <2>3. /\ i2c.TIMING \in [0..4 -> Word] /\ i2c.full \subseteq Fifos
        /\ i2c.CTRL \in {{}, CTRL_ENABLEHOST} /\ i2c.initialized \in BOOLEAN
        /\ i2c.busy \in BOOLEAN /\ i2c.atWork \in BOOLEAN
        /\ i2c.identity \in {"unread", "own", "left over", "late"}
    BY <2>2 DEF I2CRegisters
  <2>4. i2c.CTRL \in Word
    <3>1. {} \in Word /\ CTRL_ENABLEHOST \in Word
      BY DEF CTRL_ENABLEHOST, Word, Positions
    <3> QED BY <2>3, <3>1
  <2>5. uart \in [enabled : BOOLEAN, busy : BOOLEAN, IBRD : Uint16, FBRD : 0..255,
                 LCRH : SUBSET (0..7), rate : Uint16 \X (0..255), initialized : BOOLEAN]
    BY <2>2, Zenon DEF UartRegisters
  <2>6. i2c.full \subseteq DOMAIN FIFO_CTRL
    BY <2>3, FifoNames, Zenon
  <2> QED BY <2>1, <2>2, <2>3, <2>4, <2>5, <2>6 DEF InitTypeOK
<1> QED BY <1>1, StartInvariant, PTL

(***************************************************************************)
(* With any configuration the main loop starts only with every device of   *)
(* the build ready and, unless a transfer of somebody else was still at    *)
(* work when i2c_init (i2c.c:109), which never stops the host, reset the   *)
(* receive FIFO, with empty FIFOs and the right sensor; and the start      *)
(* fails only for a wrong configuration, a missing sensor, one that        *)
(* answered late (i2c.c:274) or such a transfer.                           *)
(***************************************************************************)
THEOREM StartsWhenReady == Spec => []RunsWhenReady
<1>1. StartInv => RunsWhenReady
  BY DEF StartInv, ReadyInv
<1> QED BY <1>1, StartInvariant, PTL

(***************************************************************************)
(* uart_init (uart.c:13) never changes the line under a character that is  *)
(* being sent, whatever was going on before.                               *)
(***************************************************************************)
THEOREM LineChangesQuietly == Spec => LineSetWhileQuiet
<1> DEFINE line == <<uart.IBRD, uart.FBRD, uart.LCRH, uart.rate>>
           Quiet == line' # line => ~uart.enabled /\ ~uart.busy
<1>1. StartInv /\ [Next]_vars => [Quiet]_vars
  <2> SUFFICES ASSUME StartInv, Next PROVE Quiet
    BY DEF vars
  <2>1. uart \in UartRegisters
    BY DEF StartInv, StartTypeOK
  <2>2. CASE pc \in QuietStages
    <3>1. ~uart.enabled /\ ~uart.busy
      BY <2>2 DEF StartInv, LineInv, UartStages, QuietStages, LineStages
    <3> QED BY <3>1
  <2>3. CASE UNCHANGED uart
    BY <2>3
  <2>4. CASE DisableUart
    <3>1. uart' = [uart EXCEPT !.enabled = FALSE]
      BY <2>4 DEF DisableUart, UartStep
    <3> QED BY <2>1, <3>1 DEF UartRegisters
  <2>5. CASE TransmitterDone
    <3>1. uart' = [uart EXCEPT !.busy = FALSE]
      BY <2>5 DEF TransmitterDone
    <3> QED BY <2>1, <3>1 DEF UartRegisters
  <2>6. CASE UartRefused \/ WaitWhileBusy \/ i2c_init \/ sensor_init \/ ControllerWorks
    <3>1. UNCHANGED uart
      BY <2>6 DEF UartRefused, WaitWhileBusy, UartStep, i2c_init, sensor_init, I2CRefused,
                  SetTimings, SetTiming, ResetFifos, ResetFifo, EnableHost, ControllerWorks
    <3> QED BY <3>1
  <2>7. CASE DisableFifo \/ SetLine \/ EnableUart
    <3>1. pc \in QuietStages
      BY <2>7 DEF DisableFifo, SetLine, EnableUart, UartStep, QuietStages, LineStages
    <3> QED BY <2>2, <3>1
  <2> HIDE DEF Quiet
  <2> QED BY <2>4, <2>5, <2>6, <2>7 DEF Next, init_server, uart_init
<1>2. LineSetWhileQuiet <=> [][Quiet]_vars
  BY DEF LineSetWhileQuiet
<1> QED BY <1>1, <1>2, StartInvariant, PTL DEF Spec

(***************************************************************************)
(* When i2c_init (i2c.c:109) says it is done, each timing the controller   *)
(* reads from its registers lasts at least as long as the speed demands    *)
(* and not a cycle longer, at every period of the clock and whatever the   *)
(* local that nobody wrote holds.                                          *)
(***************************************************************************)
THEOREM TimingsAreHeld == Spec => []TimingsHold
<1>1. StartInv => TimingsHold
  <2> SUFFICES ASSUME StartInv, i2c.initialized,
                      NEW p \in DOMAIN FieldOf
               PROVE  /\ (CyclesSet(p) - 1) * config.i2c.clock_period_nanos
                             < DefaultTimes[config.i2c.speed][p]
                      /\ DefaultTimes[config.i2c.speed][p]
                             <= CyclesSet(p) * config.i2c.clock_period_nanos
    BY Zenon DEF TimingsHold
  <2>1. p \in Parameters
    BY DEF FieldOf, Parameters
  <2>2. /\ SpeedKnown /\ config.i2c \in I2CConfigs
        /\ i2c.TIMING[0] = Timing0 /\ i2c.TIMING[2] = Timing2
        /\ i2c.TIMING[3] = Timing3 /\ i2c.TIMING[4] = Timing4
    BY DEF StartInv, TimingInv, On, StartTypeOK
  <2>3. \A q \in Parameters : Cycles(q) \in Uint16
    BY <2>2, CyclesHold, Zenon
  <2>4. 1 \in Uint16
    <3>1. 1 % 2^16 \in Uint16
      BY SixteenBits, 1 \in Int, Zenon
    <3> QED BY <3>1
  <2>5. CyclesSet(p) = Cycles(p)
    <3>1. ASSUME NEW t, NEW u \in Uint16, NEW l \in Uint16, t = Timing(u, l)
          PROVE  /\ Number(GET_REG_FIELD(t, UpperHalf)) = u
                 /\ Number(GET_REG_FIELD(t, LowerHalf)) = l
      BY <3>1, TimingReadsBack, Zenon
    <3>2. CASE p = "scl_time_high"
      <4>1. FieldOf[p] = <<0, UpperHalf>>
        BY <3>2 DEF FieldOf
      <4> QED BY <2>2, <2>3, <3>1, <3>2, <4>1 DEF CyclesSet, Timing0, Parameters
    <3>3. CASE p = "scl_time_low"
      <4>1. FieldOf[p] = <<0, LowerHalf>>
        BY <3>3 DEF FieldOf
      <4> QED BY <2>2, <2>3, <3>1, <3>3, <4>1 DEF CyclesSet, Timing0, Parameters
    <3>4. CASE p = "start_signal_setup"
      <4>1. FieldOf[p] = <<2, UpperHalf>>
        BY <3>4 DEF FieldOf
      <4> QED BY <2>2, <2>3, <3>1, <3>4, <4>1 DEF CyclesSet, Timing2, Parameters
    <3>5. CASE p = "start_signal_hold"
      <4>1. FieldOf[p] = <<2, LowerHalf>>
        BY <3>5 DEF FieldOf
      <4> QED BY <2>2, <2>3, <3>1, <3>5, <4>1 DEF CyclesSet, Timing2, Parameters
    <3>6. CASE p = "data_signal_setup"
      <4>1. FieldOf[p] = <<3, UpperHalf>>
        BY <3>6 DEF FieldOf
      <4> QED BY <2>2, <2>3, <2>4, <3>1, <3>6, <4>1 DEF CyclesSet, Timing3, Parameters
    <3>7. CASE p = "stop_signal_setup"
      <4>1. FieldOf[p] = <<4, UpperHalf>>
        BY <3>7 DEF FieldOf
      <4> QED BY <2>2, <2>3, <3>1, <3>7, <4>1 DEF CyclesSet, Timing4, Parameters
    <3>8. CASE p = "stop_signal_hold"
      <4>1. FieldOf[p] = <<4, LowerHalf>>
        BY <3>8 DEF FieldOf
      <4> QED BY <2>2, <2>3, <3>1, <3>8, <4>1 DEF CyclesSet, Timing4, Parameters
    <3> QED BY <2>1, <3>2, <3>3, <3>4, <3>5, <3>6, <3>7, <3>8 DEF Parameters
  <2> QED BY <2>1, <2>2, <2>5, CyclesHold, Zenon
<1> QED BY <1>1, StartInvariant, PTL

(***************************************************************************)
(* A reference clock of which every rate of the driver can be made: the    *)
(* divisor fits in IBRD, and what is left of it, rounded up, is less than  *)
(* 64 sixty-fourths.                                                       *)
(***************************************************************************)
ClockFits ==
    \A rate \in BAUDRATE_VALUES :
        /\ REF_CLOCK \div (16 * rate) < 2^16
        /\ (64 * (REF_CLOCK % (16 * rate))) \div (16 * rate) < 63

\* The clock of the build (uart.h:91) is one.
LEMMA BuildClockFits == REF_CLOCK = 24000000 => ClockFits
<1> SUFFICES ASSUME REF_CLOCK = 24000000, NEW rate \in BAUDRATE_VALUES
             PROVE  /\ REF_CLOCK \div (16 * rate) < 2^16
                    /\ (64 * (REF_CLOCK % (16 * rate))) \div (16 * rate) < 63
  BY DEF ClockFits
<1>1. CASE rate \in {110, 300, 600, 1200}
  BY <1>1
<1>2. CASE rate \in {2400, 4800, 9600, 14400}
  BY <1>2
<1>3. CASE rate \in {19200, 38400, 57600, 115200}
  BY <1>3
<1> QED BY <1>1, <1>2, <1>3 DEF BAUDRATE_VALUES

\* The divisor is the next multiple of a 64th above the ideal one.
LEMMA DivisorClose ==
    ASSUME UartValid, ClockFits
    PROVE  /\ FractionalDivisor < 64
           /\ Within((64 * IntegerDivisor + FractionalDivisor) * Sixteenth, 64 * REF_CLOCK,
                     Sixteenth)
<1>1. PICK s \in Nat \ {0} : s = Sixteenth
  BY RateValid
<1>2. PICK r \in Nat : r = REF_CLOCK
  BY ServerInitAssumption, Zenon
<1> DEFINE q == r \div s
           m == r % s
           g == (64 * m) \div s
           h == (64 * m) % s
<1>3. q \in Int /\ m \in Int /\ r = s * q + m /\ 0 <= m /\ m < s
  OBVIOUS
<1>4. 0 <= q
  <2>1. CASE q < 0
    <3>1. s * q <= -s
      BY <1>3, <2>1
    <3> QED BY <1>3, <3>1
  <2> QED BY <1>3, <2>1
<1>5. q < 65536 /\ g < 63
  BY <1>1, <1>2 DEF UartValid, ClockFits, Sixteenth
<1> HIDE DEF q, m
<1>6. g \in Int /\ h \in Int /\ 64 * m = s * g + h /\ 0 <= h /\ h < s
  BY <1>3
<1>7. 0 <= g
  <2>1. 64 * m \in Int /\ 0 <= 64 * m
    BY <1>3
  <2> HIDE DEF g, h
  <2>2. CASE g < 0
    <3>1. s * g <= -s
      BY <1>6, <2>2
    <3> QED BY <1>6, <2>1, <3>1
  <2> QED BY <1>6, <2>2
<1>8. IntegerDivisor = q
  <2>1. q % 2^16 = q
    BY <1>3, <1>4, <1>5
  <2>2. IntegerDivisor = q % 2^16
    BY <1>1, <1>2, Zenon DEF IntegerDivisor, q
  <2> QED BY <2>1, <2>2
<1>9. FractionalDivisor = g + 1
  <2>1. g + 1 \in Int /\ 0 <= g + 1 /\ g + 1 < 256
    BY <1>5, <1>6, <1>7
  <2> HIDE DEF g
  <2>2. (g + 1) % 256 = g + 1
    BY <2>1
  <2>3. FractionalDivisor = (g + 1) % 2^8
    BY <1>1, <1>2, Zenon DEF FractionalDivisor, g, m
  <2> QED BY <2>2, <2>3
<1> HIDE DEF g, h
<1>10. g + 1 < 64
  BY <1>5, <1>6
<1>11. (64 * q + (g + 1)) * s - 64 * r \in (-s)..s
  <2>1. (64 * q + (g + 1)) * s = 64 * (s * q) + s * g + s
    BY <1>3, <1>6
  <2>2. PICK a \in Int, b \in Int : a = s * q /\ b = s * g
    BY <1>3, <1>6
  <2>3. r = a + m /\ 64 * m = b + h
    BY <1>3, <1>6, <2>2
  <2>4. (64 * q + (g + 1)) * s - 64 * r = s - h
    BY <1>3, <1>6, <2>1, <2>2, <2>3
  <2> QED BY <1>6, <2>4
<1> QED BY <1>1, <1>2, <1>8, <1>9, <1>10, <1>11, Zenon DEF Within

\* The word length reads back.
LEMMA LengthReadsBack ==
    ASSUME UartValid
    PROVE  Number(GET_REG_FIELD(LineControl, LCRH_WLEN)) = config.uart.data_bits - 5
<1>1. PICK n \in 0..3 : n = config.uart.data_bits - 5
  BY DEF UartValid
<1>2. n \in Uint16
  <2>1. n % 2^16 \in Uint16
    BY SixteenBits, n \in Int, Zenon
  <2>2. n % 2^16 = n
    OBVIOUS
  <2> QED BY <2>1, <2>2, Zenon
<1>3. Number(Bits(n)) = n /\ Bits(n) \subseteq 0..15
  BY <1>2, NumberOfBits
<1>4. GET_OFFSET(LCRH_WLEN) = 5
  <2>1. LCRH_WLEN = Field(5, 2)
    BY DEF LCRH_WLEN, Field
  <2> QED BY <2>1, OffsetOfField
<1>5. LineControl \cap LCRH_WLEN = {p + 5 : p \in Bits(n)}
  BY <1>1, LineFields
<1>6. {p - 5 : p \in {p + 5 : p \in Bits(n)}} = Bits(n)
  <2>1. Bits(n) \subseteq Int /\ 5 \in Int
    BY <1>3
  <2> QED BY <2>1, ShiftedBack, Zenon
<1>7. Bits(n) \subseteq Positions
  BY <1>3 DEF Positions
<1>8. GET_REG_FIELD(LineControl, LCRH_WLEN) = Bits(n)
  BY <1>4, <1>5, <1>6, <1>7 DEF GET_REG_FIELD, ShiftRight
<1> QED BY <1>1, <1>3, <1>8, Zenon

(***************************************************************************)
(* When uart_init (uart.c:13) says the UART is initialised, the line is    *)
(* what any configuration asked for, and the divisor in effect is at most  *)
(* a 64th above the ideal one, for a clock the rates can be made of.       *)
(***************************************************************************)
THEOREM LineIsConfigured ==
    ASSUME ClockFits
    PROVE  Spec => []LineAsConfigured
<1>1. StartInv => LineAsConfigured
  <2> SUFFICES ASSUME StartInv, uart.initialized PROVE LineAsConfigured
    BY DEF LineAsConfigured
  <2>1. /\ UartValid /\ uart.enabled /\ uart.LCRH = LineControl
        /\ uart.rate = <<IntegerDivisor, FractionalDivisor>>
    BY DEF StartInv, LineInv
  <2>2. Number(GET_REG_FIELD(uart.LCRH, LCRH_WLEN)) = config.uart.data_bits - 5
    BY <2>1, LengthReadsBack, Zenon
  <2>3. uart.rate[1] = IntegerDivisor /\ uart.rate[2] = FractionalDivisor
    BY <2>1
  <2>4. /\ uart.rate[2] < 64
        /\ Within((64 * uart.rate[1] + uart.rate[2]) * Sixteenth, 64 * REF_CLOCK, Sixteenth)
    BY <2>1, <2>3, DivisorClose, Zenon
  <2>5. /\ LCRH_STP2 \subseteq uart.LCRH <=> config.uart.stop_bits = 2
        /\ LCRH_PEN \subseteq uart.LCRH <=> config.uart.parity
        /\ LCRH_FEN \subseteq uart.LCRH
    BY <2>1, LineFields, Zenon
  <2> QED BY <2>1, <2>2, <2>4, <2>5, Zenon DEF LineAsConfigured
<1> QED BY <1>1, StartInvariant, PTL

============================================================================
