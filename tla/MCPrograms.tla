------------------------------ MODULE MCPrograms ------------------------------
(***************************************************************************)
(* The small programs that theorems are about, in one specification: a     *)
(* behaviour is one of Buffer, Lists, SharedPtr, BankTransfer or Counters. *)
(* In the part of MCAlgorithms none of these does anything.                *)
(***************************************************************************)
EXTENDS Buffer, Lists

CONSTANTS
    Pointers, Objects, Unborn,                     \* of SharedPtr
    Start, Nobody,                                 \* of BankTransfer and Counters
    MAX, concurrent_count                          \* of Counters

VARIABLES
    part,    \* which part the behaviour is of
    m_ptr, m_ref_count, object, ended,
    bank, money, lock, pc, amount, reg,
    counter, sum, exclusive, todo, counterReg, counterPc, got

Ptr == INSTANCE SharedPtr
Bank == INSTANCE BankTransfer WITH program <- bank
Count == INSTANCE Counters WITH program <- counter, reg <- counterReg, pc <- counterPc

bufferVars == vars
ptrVars == <<m_ptr, m_ref_count, object, ended>>
bankVars == <<bank, money, lock, pc, amount, reg>>
countVars == <<counter, sum, exclusive, todo, counterReg, counterPc, got>>
programVars == <<part, bufferVars, listsVars, ptrVars, bankVars, countVars>>

\* The parts that have several first states have one when they are not chosen.
ProgramsInit ==
    /\ part \in {"buffer", "ptr", "bank", "count", "list", "search"}
    /\ Init /\ ListsInit /\ Ptr!Init /\ Bank!Init /\ Count!Init
    /\ part # "bank" => bank = "09"
    /\ part # "count" => counter = "06"

ProgramsNext ==
    /\ UNCHANGED part
    /\ \/ part = "buffer" /\ Next /\ UNCHANGED <<listsVars, ptrVars, bankVars, countVars>>
       \/ part = "list" /\ ListsNext /\ UNCHANGED <<bufferVars, ptrVars, bankVars, countVars>>
       \/ part = "ptr" /\ Ptr!Next /\ UNCHANGED <<bufferVars, listsVars, bankVars, countVars>>
       \/ part = "bank" /\ Bank!Next /\ UNCHANGED <<bufferVars, listsVars, ptrVars, countVars>>
       \/ part = "count" /\ Count!Next /\ UNCHANGED <<bufferVars, listsVars, ptrVars, bankVars>>

ProgramsSpec == ProgramsInit /\ [][ProgramsNext]_programVars

\* Each of these is the property of its module, see there: SharedPtr, ...
OwnersCounted == Ptr!OwnersCounted

\* ... BankTransfer, ...
MoneyKept == Bank!MoneyKept

\* ... BankTransfer, ...
StuckOnlyAsKnown == Bank!StuckOnlyAsKnown

\* ... and Counters.
SumOfRanges == Count!SumOfRanges
=============================================================================
