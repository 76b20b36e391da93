-------------------------- MODULE MCSessionRecords --------------------------
(***************************************************************************)
(* A small instance of SessionRecords.  The fates of a refusal and of what *)
(* an order's number is told are those of an answer, under the numbers     *)
(* they can be under: one queue stands for the three.                      *)
(***************************************************************************)
EXTENDS SessionRecords

FourQueues == <<"session", "calls", "previews", "answers">>
=============================================================================
