------------------------------ MODULE MCHearing ------------------------------
(***************************************************************************)
(* Instances of Hearing for TLC: who is pinned, how the links behave and   *)
(* what the wires carry.                                                   *)
(***************************************************************************)
EXTENDS Hearing

Set(roles, character) ==
    [pin : [Ifaces -> roles], link : {[i \in Ifaces |-> character]}]

\* Every pin on a link that stays, masters and nobody on one that bounces, nobody on an
\* interface that comes and goes.
MCSettings ==
    Set(Pins, "steady") \cup Set({"auto", "master"}, "flaps") \cup Set({"auto"}, "usb")

MCUnpinned       == Set({"auto"}, "steady")
MCUnpinnedBounce == Set({"auto"}, "flaps")

\* Gear that is read at once: a box, a desk, a stagebox on M, a desk with its box.
MCPlainWires == {{}, {"box"}, {"desk"}, {"boxm"}, {"box", "desk"}}

\* Gear that is not: the wires that end as doors, and the desk that may follow.
MCDoorWires == {{}, {"flood"}, {"unknown"}, {"pending"}, {"desk"}}

MCBoxWires == {{}, {"box"}}
=============================================================================
