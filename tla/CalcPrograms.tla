----------------------------- MODULE CalcPrograms -----------------------------
(***************************************************************************)
(* CalcInit::instance() composed with the pointer instructions it          *)
(* registers.  Its first registration call, InstructionFactory::           *)
(* registerInstructions(), runs IntegralPointerInstructionRegister::       *)
(* registerInstructions(), which enters GETS and GETMS for every array     *)
(* type in the instruction table.  A caller whose instance() call has      *)
(* returned assembles a program GETS r0 <- p; GETMS r1 <- p on a pointer   *)
(* register p of an array type: each instruction is looked up by its       *)
(* signature and built by create(), or assembly fails with the             *)
(* instruction not found.  The program then runs one exec() per step.      *)
(***************************************************************************)
EXTENDS Naturals, Sequences

CONSTANTS
    Threads, Serialised, MaxCalls, NULL,
    Types, ArrayTypes, POINTERSIZET, Null,
    OperandValues   \* the values register p can hold

VARIABLES
    instance, allocated, registered, pc, regStep, calls, lock,
    table,     \* the signatures of the pointer instructions registered
    phase,     \* phase[t]: "outside" a calculator, or its "assemble" or "exec"
    prog,      \* prog[t]: the instructions assembled
    progPc,    \* progPc[t]: the program counter exec() advances
    operand,   \* operand[t]: the value of register p
    results,   \* results[t]: the result registers written so far
    missed     \* an assembly has failed to find a pointer instruction

CI == INSTANCE CalcInit
PI == INSTANCE PointerInstructions

civars == <<instance, allocated, registered, pc, regStep, calls, lock>>
calcvars == <<table, phase, prog, progPc, operand, results, missed>>
vars == <<civars, calcvars>>

ArrayTypeSet == {ArrayTypes[i] : i \in DOMAIN ArrayTypes}

TypeOK ==
    /\ CI!TypeOK
    /\ table \subseteq {PI!signature(c, ty) : c \in PI!Classes, ty \in Types}
    /\ phase \in [Threads -> {"outside", "assemble", "exec"}]
    /\ \A t \in Threads : progPc[t] \in 0 .. Len(prog[t])
    /\ results \in [Threads -> Seq(Nat \cup {Null})]
    /\ operand \in [Threads -> OperandValues]
    /\ missed \in BOOLEAN

Init ==
    /\ CI!Init
    /\ table = {}
    /\ phase = [t \in Threads |-> "outside"]
    /\ prog = [t \in Threads |-> <<>>]
    /\ progPc = [t \in Threads |-> 0]
    /\ operand = [t \in Threads |-> Null]
    /\ results = [t \in Threads |-> <<>>]
    /\ missed = FALSE

-----------------------------------------------------------------------------
(* A caller outside a calculator calls instance() again.                   *)
Call(t) ==
    /\ phase[t] = "outside"
    /\ CI!Call(t)
    /\ UNCHANGED calcvars

(* The registration call InstructionFactory makes the pointer instructions *)
(* available; the other calls fill tables this model does not track.      *)
Register(t) ==
    /\ CI!Register(t)
    /\ table' = IF CI!Registrations[regStep[t]] = "InstructionFactory"
                THEN table \cup PI!registerInstructions ELSE table
    /\ UNCHANGED <<phase, prog, progPc, operand, results, missed>>

(* instance() returns and its caller goes on to build a calculator.       *)
Return(t) ==
    /\ CI!Return(t)
    /\ phase' = [phase EXCEPT ![t] = "assemble"]
    /\ UNCHANGED <<table, prog, progPc, operand, results, missed>>

(* The assembler looks up GETS and GETMS on a PointerSizeT result and a    *)
(* pointer register of type ty, and create()s each one it finds.           *)
Assemble(t, ty, v) ==
    LET sigs == <<PI!signature("GETS", ty), PI!signature("GETMS", ty)>>
    IN
    /\ phase[t] = "assemble"
    /\ IF \A i \in 1 .. 2 : sigs[i] \in table /\ PI!createAsserts(sigs[i])
       THEN /\ prog' = [prog EXCEPT ![t] = [i \in 1 .. 2 |-> PI!create(sigs[i])]]
            /\ progPc' = [progPc EXCEPT ![t] = 0]
            /\ operand' = [operand EXCEPT ![t] = v]
            /\ results' = [results EXCEPT ![t] = <<>>]
            /\ phase' = [phase EXCEPT ![t] = "exec"]
            /\ UNCHANGED missed
       ELSE /\ missed' = TRUE
            /\ phase' = [phase EXCEPT ![t] = "outside"]
            /\ UNCHANGED <<prog, progPc, operand, results>>
    /\ UNCHANGED <<civars, table>>

(* One exec(pc) of the instruction at the program counter.                 *)
Exec(t) ==
    /\ phase[t] = "exec"
    /\ progPc[t] < Len(prog[t])
    /\ LET e == PI!exec(prog[t][progPc[t] + 1], progPc[t], operand[t]) IN
       /\ progPc' = [progPc EXCEPT ![t] = e.pc]
       /\ results' = [results EXCEPT ![t] = Append(@, e.result)]
       /\ phase' = [phase EXCEPT ![t] = IF e.pc = Len(prog[t]) THEN "outside" ELSE "exec"]
    /\ UNCHANGED <<civars, table, prog, operand, missed>>

Next ==
    \E t \in Threads :
        \/ Call(t)
        \/ CI!Check(t) /\ UNCHANGED calcvars
        \/ CI!NewInstance(t) /\ UNCHANGED calcvars
        \/ Register(t)
        \/ Return(t)
        \/ \E ty \in ArrayTypeSet, v \in OperandValues : Assemble(t, ty, v)
        \/ Exec(t)

Spec == Init /\ [][Next]_vars

-----------------------------------------------------------------------------
(* One CalcInit is ever allocated and each table registered once.         *)
RegisteredOnce == CI!RegisteredOnce

(* A calculator assembled after instance() has returned finds GETS and    *)
(* GETMS for whichever array type its pointer register has: the register  *)
(* loop of IntegralPointerInstructionRegister covers every type, and the  *)
(* registration is complete before any caller gets the instance.          *)
AssembledProgramsFindInstructions == ~missed

(* A finished program's GETS result never exceeds its GETMS result on the *)
(* same register, and both are null exactly when the register is null:    *)
(* exec() dispatches length() and storage() to the right classes and      *)
(* checks isNull() first.                                                  *)
PointerResultsConsistent ==
    \A t \in Threads :
        (Len(results[t]) = 2) =>
            /\ \A i \in 1 .. 2 : (results[t][i] = Null) <=> (operand[t] = Null)
            /\ operand[t] # Null => results[t][1] <= results[t][2]
====
