--------------------------- MODULE MCSessionStore ---------------------------
(* The instance of SessionStore: two threads of one worker.                 *)
EXTENDS SessionStore

CONSTANTS p1, t1, t2

OneWorker == [t \in {t1, t2} |-> p1]
=============================================================================
