-------------------------- MODULE MCTaskSupervisor --------------------------
(* Constants for the TLC runs of TaskSupervisor. *)
EXTENDS TaskSupervisor, TLC

(* A budget the API refuses but TaskSubmission accepts, and an ordinary one. *)
EdgeBudgets == {-1, 1}

ThreadSymmetry == Permutations(Threads)
TaskAndThreadSymmetry == Permutations(Tasks) \cup Permutations(Threads)
=============================================================================
