------------------------------ MODULE MCJobLog ------------------------------
(* Model-checking instance of JobLog: the refreshers are interchangeable   *)
(* model values, so safety runs may use symmetry over them.                 *)
EXTENDS JobLog, TLC

RefresherSymmetry == Permutations(Refreshers)

=============================================================================
