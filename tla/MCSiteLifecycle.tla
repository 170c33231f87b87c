-------------------------- MODULE MCSiteLifecycle --------------------------
(***************************************************************************)
(* Instances of SiteLifecycle for TLC: a day of two instants.              *)
(***************************************************************************)
EXTENDS SiteLifecycle

\* A site that is backed up until it is disabled, one that is soon disabled
\* and stays, one that is soon deleted, and the two kinds of hour that no
\* backup can be made in.
Daily == [enabled |-> TRUE, disableAfter |-> 3, deleteAfter |-> Never, window |-> 0]
Idle == [Daily EXCEPT !.disableAfter = 1, !.window = None]
Short == [enabled |-> TRUE, disableAfter |-> 1, deleteAfter |-> 1, window |-> None]
Negative == [enabled |-> FALSE, disableAfter |-> Never, deleteAfter |-> 1,
             window |-> -1]
Unparsable == [Negative EXCEPT !.window = Day]
\* An edit that shortens the life of a site, and one that moves its window.
UserEdits == {Short, [Daily EXCEPT !.window = 1]}
UserSites ==
    [spec : {Daily, Idle, Short, Negative, Unparsable}, old : {FALSE}, byHand : {FALSE}]
      \cup {[spec |-> Daily, old |-> TRUE, byHand |-> FALSE],
            [spec |-> Short, old |-> TRUE, byHand |-> TRUE]}

=============================================================================
