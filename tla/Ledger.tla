------------------------------- MODULE Ledger --------------------------------
(***************************************************************************)
(* What the admission of master engines promises of one physical port      *)
(* (reac_link_budget.h): an account of what each segment has committed, in *)
(* which one segment at a time takes what fits and gives back what it took,*)
(* and nobody's account is changed by another's.                           *)
(***************************************************************************)
EXTENDS Naturals, FiniteSetsExt

CONSTANTS
    Segs,     \* the segments of the port
    Costs,    \* what a master may cost, in kbit/s
    Cap       \* what the link carries, in kbit/s; 0 is "not known"

VARIABLE commit      \* what each segment has committed; 0 is nothing

Total == MapThenSumSet(LAMBDA s : commit[s], Segs)

Init == commit = [s \in Segs |-> 0]

Admit(s) ==
    /\ commit[s] = 0
    /\ \E c \in Costs :
          /\ Cap = 0 \/ Total + c <= Cap
          /\ commit' = [commit EXCEPT ![s] = c]

Release(s) ==
    /\ commit[s] # 0
    /\ commit' = [commit EXCEPT ![s] = 0]

Next == \E s \in Segs : Admit(s) \/ Release(s)

Spec == Init /\ [][Next]_commit
=============================================================================
