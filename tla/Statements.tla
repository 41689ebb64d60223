----------------------------- MODULE Statements -----------------------------
(***************************************************************************)
(* What the models of the school's other desks share: the calls that may   *)
(* be in flight at one time, and the value that stands for NULL.           *)
(***************************************************************************)
CONSTANTS
    Calls,      \* calls in flight at one time
    Nothing     \* NULL, or nothing chosen, shown or read

ASSUME NothingAssumption == Nothing \notin Calls
=============================================================================
