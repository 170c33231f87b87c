------------------------- MODULE MCRedisAllocation -------------------------
(***************************************************************************)
(* Instances of RedisAllocation for TLC.                                   *)
(***************************************************************************)
EXTENDS RedisAllocation

CONSTANTS p, q, a, b, e1, e2

\* No service uses Redis yet; and all services of one site do.
Nobody == {[x \in Sites |-> [s \in Services |-> Nothing]]}
OneSite == {[x \in Sites |->
                [s \in Services |-> IF x = p THEN e1 ELSE Nothing]]}

=============================================================================
