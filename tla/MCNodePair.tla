------------------------------ MODULE MCNodePair ------------------------------
(***************************************************************************)
(* Instances of NodePair for TLC.                                          *)
(***************************************************************************)
EXTENDS NodePair

CONSTANT a   \* a box with outputs

\* Nobody pinned a box, two faults and a server that is back at once; one outage longer than
\* the ladder's patience; the same with a pinned box and a declaration that moves at any time.
MCSettings ==
    {[pin |-> NoBox, hasty |-> FALSE, faults |-> 2, outage |-> 1],
     [pin |-> NoBox, hasty |-> FALSE, faults |-> 1, outage |-> 14],
     [pin |-> a, hasty |-> TRUE, faults |-> 1, outage |-> 14]}
=============================================================================
