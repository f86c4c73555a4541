------------------------- MODULE PointerInstructions -------------------------
(***************************************************************************)
(* The integral pointer instructions of                                    *)
(* fennel/calculator/IntegralPointerInstruction.h: PointerGetSize (GETS)   *)
(* and PointerGetMaxSize (GETMS) store, in a PointerSizeT register, the    *)
(* length() or the storage() of a pointer (array) register, or null when   *)
(* that register is null.  IntegralPointerInstructionRegister registers    *)
(* both for every array type of the calculator.                            *)
(*                                                                         *)
(* A register value is Null or [length, storage]; a signature is the      *)
(* instruction's short name and the types of its registers, result first  *)
(* (regDesc(1, numArgs() - 1, type, 0): one PointerSizeT register, then    *)
(* the pointer register).                                                  *)
(***************************************************************************)
EXTENDS Naturals, Sequences

CONSTANTS
    Types,         \* the calculator's StandardTypeDescriptorOrdinals
    ArrayTypes,    \* those StandardTypeDescriptor::isArray accepts, in
                   \* the order of the ordinals
    POINTERSIZET,  \* POINTERSIZET_STANDARD_TYPE
    Null           \* a null register value

ASSUME ArrayTypes \in Seq(Types) /\ \A i \in DOMAIN ArrayTypes : ArrayTypes[i] # POINTERSIZET

(* The two instruction classes, by shortName().                            *)
Classes == {"GETS", "GETMS"}

(* numArgs(): the result and the pointer operand.                          *)
numArgs == 2

(* signature(type) of either class.                                        *)
signature(class, type) == [name |-> class, regs |-> <<POINTERSIZET, type>>]

(* InstructionSignature::typeVector(StandardTypeDescriptor::isArray).      *)
typeVector == ArrayTypes

(* registerTypes<INSTCLASS2>(t): for (i = 0; i < t.size(); i++) the     *)
(* type takes an array case of the register switch, which enters the      *)
(* signature in the instruction table.  t holds only array types, so the *)
(* default case, which throws logic_error, is never taken.                *)
registerTypesSkipsLast(class, t) == {signature(class, t[i]) : i \in 1 .. Len(t) - 1}

registerTypes(class, t) == {signature(class, t[i]) : i \in 1 .. Len(t)}

(* registerInstructions(): GETS, then GETMS, for every array type.         *)
registerInstructions ==
    registerTypes("GETS", typeVector) \cup registerTypes("GETMS", typeVector)

(* create(sig) asserts the register count and a PointerSizeT result and    *)
(* builds the instruction on the signature's registers; mPointerType is   *)
(* the operand register's type.                                            *)
createAsserts(sig) == Len(sig.regs) = numArgs /\ sig.regs[1] = POINTERSIZET
create(sig) == [class |-> sig.name, pointerType |-> sig.regs[2]]

(* exec(pc): pc++, then the result register is set to null when the       *)
(* operand is null, and otherwise to its length() (GETS) or storage()      *)
(* (GETMS).                                                                *)
PointerGetMaxSizeNoNullCheck(op1) == op1.storage

PointerGetSizeExec(op1) == IF op1 = Null THEN Null ELSE op1.length
PointerGetMaxSizeExec(op1) == IF op1 = Null THEN Null ELSE op1.storage

execSwapped(inst, pc, op1) ==
    [pc |-> pc + 1,
     result |-> IF inst.class = "GETMS" THEN PointerGetSizeExec(op1)
                ELSE PointerGetMaxSizeExec(op1)]

exec(inst, pc, op1) ==
    [pc |-> pc + 1,
     result |-> IF inst.class = "GETS" THEN PointerGetSizeExec(op1)
                ELSE PointerGetMaxSizeExec(op1)]
====
