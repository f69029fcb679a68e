---------------------------- MODULE MCWriterLock ----------------------------
(* Two threads of one process and one of another.                          *)
EXTENDS WriterLock

CONSTANTS t1, t2, t3, p, q

MCThread == {t1, t2, t3}
MCProcess == {p, q}
MCProcessOf == [t \in MCThread |-> IF t = t3 THEN q ELSE p]
=============================================================================
