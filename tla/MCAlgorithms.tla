----------------------------- MODULE MCAlgorithms -----------------------------
(***************************************************************************)
(* The parts of which only invariants are asked, in one run: a behaviour is*)
(* one of the small programs of MCPrograms, or of Searches.                *)
(***************************************************************************)
EXTENDS MCPrograms

CONSTANTS MaxCourses, MaxEdges, INT_MAX            \* of Searches

VARIABLES call, hasCycle, postorder, res, calls

Search == INSTANCE Searches

searchVars == <<call, hasCycle, postorder, res, calls>>
allVars == <<programVars, searchVars>>

AlgorithmsInit == ProgramsInit /\ Search!Init

AlgorithmsNext ==
    \/ ProgramsNext /\ UNCHANGED searchVars
    \/ part = "search" /\ Search!Next /\ UNCHANGED programVars

AlgorithmsSpec == AlgorithmsInit /\ [][AlgorithmsNext]_allVars

\* The property of Searches, see there.
SearchesRight == Search!SearchesRight
=============================================================================
