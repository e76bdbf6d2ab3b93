------------------------------ MODULE WakeLadder ------------------------------
(***************************************************************************)
(* The wake ladder of src/src/reac_wake.c: when a master that courts a     *)
(* silent wire may take its own interface down and up again, the one thing *)
(* that wakes a box that has dropped.  The ladder is pure: it owns no      *)
(* clock and no device, so this module has operators and no variables.     *)
(* WakeEdge climbs it for a served master, Knock for a knocking            *)
(* sniffer.                                                                *)
(*                                                                         *)
(* The code keeps absolute instants (0 = never) and subtracts; the model   *)
(* keeps ages in ticks, saturated at the largest value any test tells      *)
(* apart, with Never for the instant 0.                                    *)
(***************************************************************************)
EXTENDS Integers

CONSTANTS
    MinPushes,     \* REAC_WAKE_MIN_PUSHES: completed scene pushes before an edge
    Grace,         \* REAC_WAKE_GRACE_NS, in ticks
    Settle,        \* REAC_WAKE_SETTLE_NS, in ticks
    MaxBounces     \* REAC_WAKE_MAX_BOUNCES

ASSUME LadderAssumption ==
    /\ MinPushes \in Nat
    /\ Grace \in Nat
    /\ Settle \in Nat
    /\ MaxBounces \in Nat \ {0}

Never == -1

Refusals == {"OK", "NOT_PROBING", "NO_CARRIER", "CARRIER_UNKNOWN", "BOX_IS_TALKING",
             "HOST_NIC", "NOTHING_SENT", "SIBLING_SERVED", "SPENT", "SETTLING",
             "PUSH_NOT_PROVEN"}

WakeActs == {"NONE", "BOUNCE", "EXHAUSTED"}

\* struct reac_wake, without `said`, which only decides what the journal prints.
Ladders == [opened  : -1..Grace,      \* age of this PROBING spell
            last    : -1..Settle,     \* age of the last edge
            bounces : 0..MaxBounces,
            spent   : BOOLEAN,        \* spent_said
            refusal : Refusals]

\* struct reac_wake_obs.  rx and tx are counters the ladder only compares with 0,
\* pushes one it only compares with MinPushes.
Observations == [probing  : BOOLEAN,
                 carrier  : {"up", "down", "unknown"},
                 rx       : BOOLEAN,
                 host     : BOOLEAN,
                 tx       : BOOLEAN,
                 siblings : BOOLEAN,
                 pushes   : 0..MinPushes]

LadderInit == [opened |-> 0, last |-> Never, bounces |-> 0, spent |-> FALSE,
               refusal |-> "OK"]

\* A memset struct: no spell open, nothing counted.
LadderZero == [opened |-> Never, last |-> Never, bounces |-> 0, spent |-> FALSE,
               refusal |-> "OK"]

LadderReopen(w) == [opened |-> 0, last |-> w.last, bounces |-> w.bounces,
                    spent |-> w.spent, refusal |-> "OK"]

LadderClose(w) == [w EXCEPT !.opened = Never]

-----------------------------------------------------------------------------
Spent(w) == w.bounces >= MaxBounces

Settling(w) == w.last # Never /\ w.last < Settle

\* The cheap rung, played to its end and given its time.
PushProven(w, o) == o.pushes >= MinPushes /\ w.opened >= Grace

\* The fact that refuses the edge, in the order reac_wake_step asks, or "OK".
Refusal(w, o) ==
    IF ~o.probing                                   THEN "NOT_PROBING"
    ELSE IF o.carrier = "down"                      THEN "NO_CARRIER"
    ELSE IF o.carrier = "unknown"                   THEN "CARRIER_UNKNOWN"
    ELSE IF o.rx                                    THEN "BOX_IS_TALKING"
    ELSE IF o.host                                  THEN "HOST_NIC"
    ELSE IF ~o.tx                                   THEN "NOTHING_SENT"
    ELSE IF o.siblings                              THEN "SIBLING_SERVED"
    ELSE IF Spent(w)                                THEN "SPENT"
    ELSE IF Settling(w)                             THEN "SETTLING"
    ELSE IF ~PushProven(w, o)                       THEN "PUSH_NOT_PROVEN"
    ELSE "OK"

\* What the step tells its caller to do.
LadderAct(w, o) ==
    LET r == Refusal(w, o)
    IN  IF r = "OK" THEN "BOUNCE"
        ELSE IF r = "SPENT" /\ ~w.spent THEN "EXHAUSTED"
        ELSE "NONE"

\* Mutant of LadderStep: the edge is not counted.
LadderStepUncounted(w, o) ==
    LET r == Refusal(w, o)
    IN  [opened |-> w.opened, refusal |-> r, spent |-> w.spent \/ r = "SPENT",
         bounces |-> w.bounces, last |-> IF r = "OK" THEN 0 ELSE w.last]

\* What the step leaves behind.
LadderStep(w, o) ==
    LET r == Refusal(w, o)
    IN  [opened  |-> w.opened,
         refusal |-> r,
         spent   |-> w.spent \/ r = "SPENT",
         bounces |-> IF r = "OK" THEN w.bounces + 1 ELSE w.bounces,
         last    |-> IF r = "OK" THEN 0 ELSE w.last]

\* One tick of the clock the ages are read against.
Older(age, cap) == IF age = Never \/ age = cap THEN age ELSE age + 1

LadderAge(w) == [opened |-> Older(w.opened, Grace), last |-> Older(w.last, Settle),
                 bounces |-> w.bounces, spent |-> w.spent, refusal |-> w.refusal]
=============================================================================
