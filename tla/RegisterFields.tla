--------------------------- MODULE RegisterFields ---------------------------
(***************************************************************************)
(* The register field macros and the encoding of statuses (utils.h).       *)
(*                                                                         *)
(* A 32-bit word is the set of the positions of its ones, so that the      *)
(* masking operators of C are the operators on sets, and a shift is a map. *)
(***************************************************************************)
EXTENDS Integers

Positions == 0..31
Word == SUBSET Positions

\* Positions whose own binary digit of weight w is one: for w = 1, 2, 4, 8, 16
\* the masks 0xAAAAAAAA, 0xCCCCCCCC, 0xF0F0F0F0, 0xFF00FF00, 0xFFFF0000.
WithDigit(w) == {p \in Positions : (p \div w) % 2 = 1}

\* The lowest one, which x & (x ^ (x - 1)) leaves: the borrow of the subtraction
\* ends there.
LS_ONE(x) == {p \in x : \A q \in x : p <= q}

INT_TO_BOOL(x) == IF x # {} THEN 1 ELSE 0

TR_ZEROS(x) ==
    INT_TO_BOOL(LS_ONE(x) \cap WithDigit(16)) * 16
    + INT_TO_BOOL(LS_ONE(x) \cap WithDigit(8)) * 8
    + INT_TO_BOOL(LS_ONE(x) \cap WithDigit(4)) * 4
    + INT_TO_BOOL(LS_ONE(x) \cap WithDigit(2)) * 2
    + INT_TO_BOOL(LS_ONE(x) \cap WithDigit(1))

\* Ones shifted out of the word are lost.
ShiftLeft(x, n) == {p + n : p \in x} \cap Positions
ShiftRight(x, n) == {p - n : p \in x} \cap Positions

GET_OFFSET(field) == TR_ZEROS(field)

MASKED_OR_32(a, b, mask) == (a \cap (Positions \ mask)) \cup (b \cap mask)

GET_REG_FIELD(var, field) == ShiftRight(var \cap field, GET_OFFSET(field))
SET_REG_FIELD(var, field, value) ==
    MASKED_OR_32(var, ShiftLeft(value, GET_OFFSET(field)), field)

----------------------------------------------------------------------------
STATUS_OK == {}
STATUS_MASK_MODULE == 8..15
STATUS_MASK_CODE == 0..7

GENERATE_ERROR(module, status) ==
    (ShiftLeft(module, TR_ZEROS(STATUS_MASK_MODULE)) \cap STATUS_MASK_MODULE)
    \cup (ShiftLeft(status, TR_ZEROS(STATUS_MASK_CODE)) \cap STATUS_MASK_CODE)

GET_STATUS_MODULE(status) == GET_REG_FIELD(status, STATUS_MASK_MODULE)
GET_STATUS_CODE(status) == GET_REG_FIELD(status, STATUS_MASK_CODE)

============================================================================
