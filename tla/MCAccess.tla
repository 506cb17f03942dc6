------------------------------ MODULE MCAccess ------------------------------
(***************************************************************************)
(* CourseAccess with three accounts, two courses and two overlapping       *)
(* requests.  User and course ids are uuids, and nothing tells two         *)
(* requests apart: all are symmetric.                                      *)
(***************************************************************************)
EXTENDS CourseAccess, TLC

Symmetry == Permutations(Ids) \cup Permutations(Courses)
              \cup Permutations(Requests)

=============================================================================
