--------------------------- MODULE MCEntityExecutor ---------------------------
(* States for EntityExecutor. *)
EXTENDS EntityExecutor

SomeValues == {1, Unencodable}
WithZero == {0, 1}
=============================================================================
