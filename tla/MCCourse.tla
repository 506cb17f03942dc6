------------------------------ MODULE MCCourse ------------------------------
(***************************************************************************)
(* CourseLifecycle on a default course and another one, with two           *)
(* deletions and two requests that overlap.  Course ids are uuids, and     *)
(* nothing tells two deletions or two requests apart: all are symmetric.   *)
(***************************************************************************)
EXTENDS CourseLifecycle, TLC

Symmetry == Permutations(Courses) \cup Permutations(Deletions)
              \cup Permutations(Requests)

=============================================================================
