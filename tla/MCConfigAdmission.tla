------------------------- MODULE MCConfigAdmission -------------------------
(***************************************************************************)
(* Instances of ConfigAdmission for TLC.                                   *)
(***************************************************************************)
EXTENDS ConfigAdmission, TLC

CONSTANTS p, a, b, e1, e2, k, l

\* A service with a database by default, and one without.
UserServices == {[short |-> k, env |-> e1], [short |-> l, env |-> Nothing]}
\* One service in its default environment; one in an environment of the
\* site's choice; all services.
UserSites == {[all |-> FALSE, want |-> (a :> Nothing)],
              [all |-> FALSE, want |-> (a :> e2)],
              [all |-> TRUE, want |-> <<>>]}

=============================================================================
