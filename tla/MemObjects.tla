----------------------------- MODULE MemObjects -----------------------------
(***************************************************************************)
(* The abstract memory of the SVFIR: base objects (MemObj), the node that  *)
(* stands for the whole object (FIObjVar) and the nodes that stand for its *)
(* fields (GepObjVar), with the offset arithmetic that maps a pointer to a *)
(* field and an access path to the field it reaches.                       *)
(***************************************************************************)
EXTENDS Integers

CONSTANTS
    Base,             \* identifiers of memory objects (MemObj)
    NumFields,        \* MemObj::getMaxFieldOffsetLimit of each object
    MaxFieldLimit,    \* Options::MaxFieldLimit
    U32Half,          \* 2^31: half the values of u32_t; any less in a run
    FirstFieldEqBase, \* Options::FirstFieldEqBase
    CyclicFldIdx,     \* Options::CyclicFldIdx
    ConstObj,         \* objects isConstantObj holds of
    BlkOrConst        \* objects isBlkObjOrConstantObj holds of

ASSUME MemObjectsAssumption ==
    /\ U32Half \in Nat \ {0}
    /\ MaxFieldLimit \in Nat \ {0}
    /\ NumFields \in [Base -> 0 .. U32Half]
    /\ FirstFieldEqBase \in BOOLEAN
    /\ CyclicFldIdx \in BOOLEAN
    /\ BlkOrConst \subseteq Base
    /\ ConstObj \subseteq BlkOrConst

(* The constant field index of a gep (APOffset, s64_t): as many values as  *)
(* make the sum of it and a field index fit u32_t.  LLVM's geps have none  *)
(* below 0, an SVFIR read from a file may have.                            *)
Offset == - U32Half .. U32Half

(* An object node is <<base, field>>; field -1 is the base node itself.    *)
(* An object without fields still has the node that gep leads to.          *)
WholeObj == -1
LastField(b) == IF NumFields[b] = 0 THEN 0 ELSE NumFields[b] - 1
Obj == UNION {{b} \X (WholeObj .. LastField(b)) : b \in Base}
FieldObj == UNION {{b} \X (0 .. LastField(b)) : b \in Base}

FIObjVar(o) == <<o[1], WholeObj>>

(* C++'s remainder has the sign of its left operand. *)
Rem(i, n) == IF i < 0 THEN - ((- i) % n) ELSE i % n

(* Variant: a negative offset is let through. *)
NegativeKept(apOffset) == apOffset

(* The first branch of getModulusOffset: a negative offset is one past the *)
(* front of the object and is made positive.                               *)
Positive(apOffset) == IF apOffset < 0 THEN - apOffset ELSE apOffset

(* SymbolTableInfo::getModulusOffset; the comparison is one of u32_t. *)
GetModulusOffset(max, apOffset) ==
    LET offset == Positive(apOffset)
    IN  IF max = 0 THEN 0
        ELSE IF MaxFieldLimit < max THEN Rem(offset, max)
        ELSE IF offset % (2 * U32Half) > max - 1
             THEN IF CyclicFldIdx THEN Rem(offset, max) ELSE max - 1
             ELSE offset

(* The constant field index of an object node: a base node counts as 0. *)
FieldIdx(o) == IF o[2] = WholeObj THEN 0 ELSE o[2]

(* SVFIR::getGepObjVar, for the field-insensitive objects in fi. *)
GetGepObjVar(fi, o, off) ==
    LET newLS == GetModulusOffset(NumFields[o[1]], FieldIdx(o) + off)
    IN  IF o[1] \in fi \/ (FirstFieldEqBase /\ newLS = 0)
        THEN FIObjVar(o)
        ELSE <<o[1], newLS>>
=============================================================================
