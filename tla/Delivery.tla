------------------------------ MODULE Delivery ------------------------------
(***************************************************************************)
(* What a session promises the program that reads it: one queue.  Records  *)
(* go in at the tail in the order they are stamped, a read hands over as   *)
(* many as it finds from the head, none is passed over and none comes      *)
(* twice, and the record of the close is the last.  SessionRecords, with   *)
(* its queue per kind, its cut and its questions, implements this.         *)
(***************************************************************************)
EXTENDS Naturals, Sequences

CONSTANT Records  \* each says, in its field `close', whether it is the last

VARIABLES
  owed,  \* stamped and not yet handed to the program
  log,   \* handed to the program
  over   \* the close has been handed to it

dvars == <<owed, log, over>>

DInit == owed = <<>> /\ log = <<>> /\ over = FALSE

\* A record goes in; once the session is over it is nobody's.
Enqueue ==
  /\ ~over /\ UNCHANGED <<log, over>>
  /\ LET before == owed
         after == owed'
     IN  /\ Len(after) = Len(before) + 1
         /\ \E r \in Records : after = Append(before, r)

\* A read hands over the first records owed, up to the close at most.
HandOut ==
  /\ ~over /\ log' # log
  /\ LET ready == owed
     IN  \E k \in 1 .. Len(ready) :
           /\ \A i \in 1 .. k : ready[i].close => i = k
           /\ log' = log \o SubSeq(ready, 1, k)
           /\ over' = ready[k].close
           /\ owed' = IF ready[k].close THEN <<>> ELSE SubSeq(ready, k + 1, Len(ready))

DNext == Enqueue \/ HandOut

DSpec == DInit /\ [][DNext]_dvars
=============================================================================
