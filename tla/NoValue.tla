------------------------------ MODULE NoValue ------------------------------
(***************************************************************************)
(* The value of what is not there: a NULL pointer, a parameter that the    *)
(* query lacks, a file that does not exist.                                *)
(***************************************************************************)
CONSTANT None
=============================================================================
