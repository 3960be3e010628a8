--------------------------- MODULE MCAccountService ---------------------------
(* Model-checking instance of AccountService: tasks are interchangeable.   *)
EXTENDS AccountService, TLC

TaskSymmetry == Permutations(Tasks)

=============================================================================
