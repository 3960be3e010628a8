------------------------ MODULE MCCurrentBranchRefresher ------------------------
EXTENDS CurrentBranchRefresher, TLC

TaskSymmetry == Permutations(Tasks)
=============================================================================
