------------------------------ MODULE SharedPtr ------------------------------
(***************************************************************************)
(* misc/my_shared_ptr.cpp: a reference-counted pointer.  SharedPtr declares*)
(* no destructor, so a pointer that ends, and what a move assignment puts  *)
(* into its temporary, goes on being counted.                              *)
(***************************************************************************)
EXTENDS Naturals, FiniteSets

CONSTANTS Pointers, Objects, Null, Unborn

VARIABLES
    m_ptr,        \* the object of each pointer: Null, or Unborn outside its life
    m_ref_count,  \* the count allocated with each object
    object,       \* "raw", "owned" or "deleted"
    ended         \* history: pointers to each object that ended without a destructor

vars == <<m_ptr, m_ref_count, object, ended>>

Init ==
    /\ m_ptr = [p \in Pointers |-> Unborn]
    /\ m_ref_count = [o \in Objects |-> 0]
    /\ object = [o \in Objects |-> "raw"]
    /\ ended = [o \in Objects |-> 0]

Alive(p) == m_ptr[p] # Unborn

\* `++(*m_ref_count)', unless there is no count.
Incremented(count, o) == IF o \in Objects THEN [count EXCEPT ![o] = @ + 1] ELSE count

\* The default constructor.
Empty(p) ==
    /\ ~Alive(p)
    /\ m_ptr' = [m_ptr EXCEPT ![p] = Null]
    /\ UNCHANGED <<m_ref_count, object, ended>>

FromRaw(p, o) ==
    /\ ~Alive(p) /\ object[o] = "raw"
    /\ m_ptr' = [m_ptr EXCEPT ![p] = o]
    /\ m_ref_count' = [m_ref_count EXCEPT ![o] = 1]
    /\ object' = [object EXCEPT ![o] = "owned"]
    /\ UNCHANGED ended

Copy(p, other) ==
    /\ ~Alive(p) /\ Alive(other)
    /\ m_ptr' = [m_ptr EXCEPT ![p] = m_ptr[other]]
    /\ m_ref_count' = Incremented(m_ref_count, m_ptr[other])
    /\ UNCHANGED <<object, ended>>

\* Bug: the new object is not counted.
BugAssign(p, rhs) ==
    LET old == m_ptr[p]
        last == old \in Objects /\ m_ref_count[old] = 1
    IN /\ Alive(p) /\ Alive(rhs) /\ p # rhs
       /\ m_ptr' = [m_ptr EXCEPT ![p] = m_ptr[rhs]]
       /\ m_ref_count' = IF old \in Objects THEN [m_ref_count EXCEPT ![old] = @ - 1]
                         ELSE m_ref_count
       /\ object' = IF last THEN [object EXCEPT ![old] = "deleted"] ELSE object
       /\ UNCHANGED ended

\* operator=(const SharedPtr &): the old object is let go, and deleted with the last.
Assign(p, rhs) ==
    LET old == m_ptr[p]
        last == old \in Objects /\ m_ref_count[old] = 1
        dropped == IF old \in Objects THEN [m_ref_count EXCEPT ![old] = @ - 1]
                   ELSE m_ref_count
    IN /\ Alive(p) /\ Alive(rhs) /\ p # rhs
       /\ m_ptr' = [m_ptr EXCEPT ![p] = m_ptr[rhs]]
       /\ m_ref_count' = Incremented(dropped, m_ptr[rhs])
       /\ object' = IF last THEN [object EXCEPT ![old] = "deleted"] ELSE object
       /\ UNCHANGED ended

\* SharedPtr(SharedPtr &&): an empty pointer swapped with the other one.
Move(p, other) ==
    /\ ~Alive(p) /\ Alive(other)
    /\ m_ptr' = [m_ptr EXCEPT ![p] = m_ptr[other], ![other] = Null]
    /\ UNCHANGED <<m_ref_count, object, ended>>

\* operator=(SharedPtr &&): rhs moves into a temporary, which is swapped with *this and
\* ends with the old object.
MoveAssign(p, rhs) ==
    /\ Alive(p) /\ Alive(rhs) /\ p # rhs
    /\ m_ptr' = [m_ptr EXCEPT ![p] = m_ptr[rhs], ![rhs] = Null]
    /\ ended' = Incremented(ended, m_ptr[p])
    /\ UNCHANGED <<m_ref_count, object>>

\* The pointer goes out of scope.
End(p) ==
    /\ Alive(p)
    /\ m_ptr' = [m_ptr EXCEPT ![p] = Unborn]
    /\ ended' = Incremented(ended, m_ptr[p])
    /\ UNCHANGED <<m_ref_count, object>>

\* Bound: pointers to one object that may end.
MaxEnded == 2

Next ==
    /\ \A o \in Objects : ended[o] < MaxEnded
    /\ \/ \E p \in Pointers : Empty(p) \/ End(p)
       \/ \E p \in Pointers, o \in Objects : FromRaw(p, o)
       \/ \E p, q \in Pointers : Copy(p, q) \/ Assign(p, q) \/ Move(p, q) \/ MoveAssign(p, q)

Spec == Init /\ [][Next]_vars

-----------------------------------------------------------------------------
(* Properties.                                                             *)

\* Every variable has its type.
TypeOK ==
    /\ m_ptr \in [Pointers -> Objects \union {Null, Unborn}]
    /\ m_ref_count \in [Objects -> Nat]
    /\ object \in [Objects -> {"raw", "owned", "deleted"}]
    /\ ended \in [Objects -> Nat]

\* The count of an object is the number of its pointers and of those that ended
\* uncounted, so no pointer is left to an object that has been deleted, whatever is
\* copied, moved and assigned; an object without pointers stays only for the latter.
OwnersCounted ==
    \A o \in Objects :
        LET owners == Cardinality({p \in Pointers : m_ptr[p] = o})
        IN /\ m_ref_count[o] = owners + ended[o]
           /\ object[o] = "deleted" <=> m_ref_count[o] = 0 /\ object[o] # "raw"
=============================================================================
