------------------------------ MODULE MCWorker ------------------------------
(* Limits for Worker. *)
EXTENDS Worker

OneEach == [k \in Kinds |-> 1]
=============================================================================
