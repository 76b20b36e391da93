----------------------------- MODULE MCSeqQuote -----------------------------
(***************************************************************************)
(* Three writes over one payload word and the generation, seen by one      *)
(* reader: a torn snapshot needs one word of each of two writes, and the   *)
(* readers never write, so one of them meets everything another could.     *)
(***************************************************************************)
EXTENDS SeqQuote
=============================================================================
