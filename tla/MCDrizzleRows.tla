----------------------------- MODULE MCDrizzleRows -----------------------------
EXTENDS DrizzleRows

(* A bitmap and, for each column, a length and a value of at most Longest  *)
(* fit into a packet: then RowsFit, the hypothesis of DrizzleRowsProofs,   *)
(* holds, as it does in rows.cfg.                                          *)
Longest == CHOOSE size \in Sizes : \A other \in Sizes : other <= size

ASSUME RowsFitAssumption ==
  1 + Columns * (1 + Longest) < MaxPayload => RowsFit
================================================================================
