--------------------------- MODULE MCEntityBackend ---------------------------
(***************************************************************************)
(* Instances of EntityBackend for TLC, and what the docs say of locks.     *)
(***************************************************************************)
EXTENDS EntityBackend

CONSTANTS e1, e2, o1, o2  \* entities and orchestrations

Single == {<<e1>>}
Overlapping == {<<e1>>, <<e1, e2>>}

(* "entities may also be locked by a single orchestrator ensuring exclusive *)
(* access during the duration of the lock" (docs/features.md:123): what is  *)
(* dispatched of a locked entity was called from its critical section.      *)
ExclusiveAccess ==
  \A o \in Orchs : IsInside(o) =>
    \A e \in ToSet(orch[o].asked) : \A k \in DOMAIN entities[e].dispatched :
      entities[e].dispatched[k].caller = o

=============================================================================
