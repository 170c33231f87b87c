-------------------------- MODULE MCDatabaseServer --------------------------
(***************************************************************************)
(* Instances of DatabaseServer for TLC.                                    *)
(***************************************************************************)
EXTENDS DatabaseServer

CONSTANTS a, b, u, v, d, e, x, y

\* The specs of two sites that share nothing, and between them one that has
\* the user of the first and the database of the second: the first after a
\* rename, or another site whose names collide with both.
SiteSpecs ==
    {[user |-> u, db |-> d, password |-> x],
     [user |-> u, db |-> e, password |-> y],
     [user |-> v, db |-> e, password |-> y]}

=============================================================================
