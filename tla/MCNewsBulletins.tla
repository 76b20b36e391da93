--------------------------- MODULE MCNewsBulletins ---------------------------
(* Small instances of NewsBulletins. *)
EXTENDS NewsBulletins
=============================================================================
