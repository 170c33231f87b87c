---------------------------- MODULE JobLifecycle ----------------------------
(***************************************************************************)
(* What the site reconciler relies on when it reads a job object: a job is *)
(* for one version of its input, starts Pending, runs at most once for     *)
(* that version and ends Complete or Failed; only a new version takes it   *)
(* out of a final state.  DbInitJob never gets a new version, a            *)
(* DbMigrationJob gets one with every new image tag.                       *)
(***************************************************************************)
CONSTANTS Versions, Nothing

VARIABLES
    wanted,   \* the version the owner asks for
    taken,    \* the version the job's state is about
    state

vars == <<wanted, taken, state>>

Init == wanted \in Versions /\ taken = Nothing /\ state = "Pending"

\* The owner asks for another version, or replaces the job by a new one.
Ask == wanted' \in Versions /\ UNCHANGED <<taken, state>>
Replace == wanted' \in Versions /\ taken' = Nothing /\ state' = "Pending"

Take == wanted # taken /\ taken' = wanted /\ state' = "Pending"
        /\ UNCHANGED wanted
Start == wanted = taken /\ state = "Pending" /\ state' = "Running"
         /\ UNCHANGED <<wanted, taken>>
Finish == wanted = taken /\ state = "Running"
          /\ state' \in {"Complete", "Failed"} /\ UNCHANGED <<wanted, taken>>
\* A job that cannot be run fails without having started.
Reject == wanted = taken /\ state = "Pending" /\ state' = "Failed"
          /\ UNCHANGED <<wanted, taken>>

Next == Ask \/ Replace \/ Take \/ Start \/ Finish \/ Reject

Spec == Init /\ [][Next]_vars
=============================================================================
