----------------------------- MODULE MCBitVector -----------------------------
(***************************************************************************)
(* Bit vectors: every expression over operands of up to MaxWidth bits, of  *)
(* any length, that holds at most two operands at a time.                  *)
(***************************************************************************)
EXTENDS BitVectorRef

\* Only the expressions on which ToZ3 and P4 agree.
None == {}
=============================================================================
