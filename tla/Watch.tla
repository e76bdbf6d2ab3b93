-------------------------------- MODULE Watch --------------------------------
(***************************************************************************)
(* What a sniffer makes of the gear it hears, and what a change of its mind *)
(* means for a segment that is already served.                              *)
(*                                                                          *)
(* reac_watch.c is this repository's: Keep and Decide.  The arbitration     *)
(* behind the verdict (reac_hunt_observe, reac_hunt_step) is libreac's; it  *)
(* is modelled from how main.c calls it and from tests/test_reac_hunt.c.    *)
(***************************************************************************)
EXTENDS Integers

CONSTANTS
    Window,      \* REAC_HUNT_WINDOW_NS in polls: three cadences of a desk's announce
    Stale        \* REAC_DISCO_STALE_NS in polls: a sighting this old is forgotten

ASSUME WatchAssumption ==
    /\ Window \in Nat /\ Stale \in Nat
    /\ 0 < Window /\ Window < Stale

\* What can talk on a wire: a box, a box that floods filler (role UNKNOWN, told by its
\* width), a stagebox strapped to master, a desk, a master of no readable geometry, and a
\* 40-wide stream whose owner has not announced itself.
Gear == {"box", "flood", "boxm", "desk", "unknown", "pending"}

Verdicts == {"HUNTING", "MASTER", "SLAVE", "REFUSED"}
Rivals   == {"none", "desk", "boxm", "unknown"}
Pins     == {"auto", "master", "slave", "tap"}
Acts     == {"STAND", "YIELD", "RETAKE", "UNREFUSE"}

\* segment_role_pin: a tap pin pins no role of the hunt's.
Pinned(pin) == pin \in {"master", "slave"}

\* The discovery table: the age of each sighting, Stale for none.
Live(seen, g) == seen[g] < Stale

Heard(seen) == \E g \in Gear : Live(seen, g)

\* reac_arbiter: a desk is read most sharply, then a box's geometry.
Rival(seen) ==
    IF Live(seen, "desk") THEN "desk"
    ELSE IF Live(seen, "boxm") THEN "boxm"
    ELSE IF Live(seen, "unknown") THEN "unknown"
    ELSE "none"

\* reac_hunt_step.  `opened` is the age of the window, `proven` the licence a knock earned
\* (reac_hunt_silence_proven), which evidence always outranks.
Arbitrate(seen, opened, proven, pin) ==
    LET r   == Rival(seen)
        box == Live(seen, "box") \/ Live(seen, "flood")
    IN  IF pin = "master" THEN IF r = "boxm" THEN "SLAVE" ELSE "MASTER"
        ELSE IF pin = "slave" THEN "SLAVE"
        ELSE IF r \in {"desk", "boxm"} THEN "SLAVE"
        ELSE IF r = "unknown" THEN "REFUSED"
        ELSE IF Live(seen, "pending") THEN "HUNTING"
        ELSE IF proven \/ (box /\ opened >= Window) THEN "MASTER"
        ELSE "HUNTING"

-----------------------------------------------------------------------------
\* reac_watch_keep: which verdicts keep their sniffer once they are served.
Keep(served, pinned) ==
    \/ served \in {"REFUSED", "HUNTING"}
    \/ served = "MASTER" /\ ~pinned

\* Mutant of Decide: the desk that turns up second is out-shouted.
DecideNoYield(door, vacant, master, pinned, verdict, opened) ==
    IF door /\ vacant
    THEN IF verdict = "HUNTING" THEN "STAND" ELSE "UNREFUSE"
    ELSE IF door
    THEN IF verdict = "REFUSED" \/ opened < Stale THEN "STAND" ELSE "UNREFUSE"
    ELSE IF ~pinned /\ verdict = "MASTER" /\ ~master THEN "RETAKE"
    ELSE "STAND"

\* reac_watch_decide: what a fresh verdict means for a served segment.
Decide(door, vacant, master, pinned, verdict, opened) ==
    IF door /\ vacant
    THEN IF verdict = "HUNTING" THEN "STAND" ELSE "UNREFUSE"
    ELSE IF door
    THEN IF verdict = "REFUSED" \/ opened < Stale THEN "STAND" ELSE "UNREFUSE"
    ELSE IF pinned THEN "STAND"
    ELSE IF verdict = "SLAVE" /\ master THEN "YIELD"
    ELSE IF verdict = "MASTER" /\ ~master THEN "RETAKE"
    ELSE "STAND"
=============================================================================
