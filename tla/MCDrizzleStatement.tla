--------------------------- MODULE MCDrizzleStatement ---------------------------
(* DrizzleStatement as the configurations statements and reset_twice check *)
(* it.                                                                     *)
EXTENDS DrizzleStatement
===============================================================================
