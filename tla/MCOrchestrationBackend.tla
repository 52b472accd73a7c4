----------------------- MODULE MCOrchestrationBackend -----------------------
(***************************************************************************)
(* Instances of OrchestrationBackend, with its refinement of               *)
(* DurableMailbox, for TLC.                                                *)
(***************************************************************************)
EXTENDS OrchestrationDelivery

CONSTANTS i1, i2  \* the instance ids

Symmetric == Permutations({i1, i2})

=============================================================================
