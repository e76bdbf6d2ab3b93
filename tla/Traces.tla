-------------------------------- MODULE Traces --------------------------------
(***************************************************************************)
(* What the daemon leaves on the host: VLAN netdevs it mints on a trunk    *)
(* (topo_* of main.c), the alias that marks an interface as served         *)
(* (reac_served_mark.c) and the etf qdisc of its launch-time pacer         *)
(* (reac_qdisc.c, armed and released by reac_sink_node.c).                 *)
(*                                                                         *)
(* The host is never the daemon's: other programs make VLANs, set aliases, *)
(* leave qdiscs behind and pull the card, and the daemon may die at any    *)
(* step and be started again on what it left.  Each trace has a record in  *)
(* the daemon that says whether it is ours to remove; a crash loses the    *)
(* record and keeps the trace.                                             *)
(*                                                                         *)
(* Each parent carries one VLAN here.  Time is counted in polls.  The      *)
(* table behind the tap (reac_topo), the netdev calls (reac_vlan), the     *)
(* netlink calls of the qdisc and the pacer are libreac's, modelled from   *)
(* their use here and from tests/test_reac_topo.c.                         *)
(***************************************************************************)
EXTENDS Naturals, FiniteSets

CONSTANTS
    Parents,      \* the Ethernet interfaces
    Reclass,      \* REACPW_TRUNK_RECLASSIFY_NS in polls
    SilenceHold,  \* REAC_TOPO_SILENCE_HOLD_NS in polls
    MaxTaps,      \* REAC_TOPO_MAX_PARENTS
    MaxMarks,     \* REAC_SERVED_MAX
    MaxRuns,      \* bound: how often the daemon is started
    MaxFails,     \* bound: netlink calls that fail
    MaxHost       \* bound: what the host does to the traces by itself

ASSUME TracesAssumption ==
    /\ IsFiniteSet(Parents)
    /\ {Reclass, SilenceHold} \subseteq Nat \ {0}
    /\ {MaxTaps, MaxMarks, MaxRuns, MaxFails, MaxHost} \subseteq Nat

Devs       == Parents \X {"nic", "vlan"}
Nic(p)     == <<p, "nic">>
Vlan(p)    == <<p, "vlan">>

VARIABLES
    dev,      \* the netdevs: who made each, its alias, its root qdisc
    link,     \* is the cable plugged in, is the card there
    tags,     \* what the wire carries under a VLAN tag
    run,      \* the process: off, on, or the step of its exit
    tap, row, \* the topology tap of each parent, and its row in the table
    marks,    \* reac_served_marks: the interfaces whose alias is to be taken back
    eng, rec, \* the engine on each netdev; struct reac_qdisc's record of it
    due,      \* parents this poll has yet to see
    runs, fails, acts,  \* how many starts, failed calls and acts of the host so far
    excused   \* history: traces a crash or a failed call is answerable for, and VLANs that
              \* another program deleted under the table and nobody has asked for since

host   == <<dev, link, tags, acts>>
daemon == <<tap, row, marks, eng, rec, due>>
vars   == <<host, daemon, run, runs, fails, excused>>

-----------------------------------------------------------------------------
(* The state.                                                              *)

Makers  == {"none", "host", "us"}
Aliases == {"none", "host", "served"}     \* a minted VLAN's own alias is its maker's mark
Qdiscs  == {"none", "other", "us"}        \* "none": no etf at the root
Engines == {"off", "thread", "etf", "carrier"}
Runs    == {"off", "on", "unmark", "release", "close"}

\* struct topo_tap: is it open, or was the link's one try at it in vain, and the polls since
\* the later of link-up and last tag.
Taps == [st : {"none", "open", "failed"}, age : 0..Reclass]

\* reac_topo's row: is the parent watched, has it carried tagged REAC, its VLAN and the
\* polls since that VLAN spoke; what is queued for topo_apply.
Rows == [on : BOOLEAN, trunk : BOOLEAN, vid : {"none", "HEARD", "SERVED"}, minted : BOOLEAN,
         silent : 0..SilenceHold, ensure : BOOLEAN, release : BOOLEAN]

NoTap == [st |-> "none", age |-> Reclass]
NoRow == [on |-> FALSE, trunk |-> FALSE, vid |-> "none", minted |-> FALSE, silent |-> 0,
          ensure |-> FALSE, release |-> FALSE]

Absent == [by |-> "none", alias |-> "none", etf |-> "none"]
There(d) == dev[d].by # "none"

TypeOK ==
    /\ dev \in [Devs -> [by : Makers, alias : Aliases, etf : Qdiscs]]
    /\ link \in [Parents -> {"up", "down", "gone"}]
    /\ tags \in [Parents -> {"none", "reac", "other"}]
    /\ run \in Runs
    /\ tap \in [Parents -> Taps]
    /\ row \in [Parents -> Rows]
    /\ marks \subseteq Devs
    /\ eng \in [Devs -> Engines]
    /\ rec \in [Devs -> BOOLEAN]
    /\ due \subseteq Parents
    /\ runs \in 0..MaxRuns /\ fails \in 0..MaxFails /\ acts \in 0..MaxHost
    /\ excused \subseteq Devs \X {"vlan", "alias", "etf", "gone"}

Idle ==
    /\ tap = [p \in Parents |-> NoTap]
    /\ row = [p \in Parents |-> NoRow]
    /\ marks = {}
    /\ eng = [d \in Devs |-> "off"]
    /\ rec = [d \in Devs |-> FALSE]
    /\ due = {}

\* The host before the daemon's first start; a host-made VLAN may already be there.
Init ==
    /\ dev \in [Devs -> {[Absent EXCEPT !.by = b] : b \in {"none", "host"}}]
    /\ \A p \in Parents : dev[Nic(p)].by = "host"
    /\ link = [p \in Parents |-> "up"]
    /\ tags \in [Parents -> {"none", "reac", "other"}]
    /\ run = "off" /\ Idle
    /\ runs = 0 /\ fails = 0 /\ acts = 0 /\ excused = {}

\* A call that may fail does so while the bound allows it.
Failed(ok) == IF ok THEN 0 ELSE 1
Fails(n)   == fails + n <= MaxFails /\ fails' = fails + n

-----------------------------------------------------------------------------
(* The host's own doings.                                                  *)

HostActs == acts < MaxHost /\ acts' = acts + 1 /\ UNCHANGED <<daemon, run, runs, fails>>

\* Another program makes the VLAN, names an interface, or leaves an etf on an idle one.  It
\* does not make a VLAN anew that the daemon has minted.
HostTouches(d) ==
    /\ HostActs
    /\ \/ ~There(d) /\ There(Nic(d[1])) /\ ~row[d[1]].minted
          /\ dev' = [dev EXCEPT ![d].by = "host"]
       \/ dev[d].by = "host" /\ dev' = [dev EXCEPT ![d].alias = "host"]
       \/ There(d) /\ eng[d] = "off" /\ dev' = [dev EXCEPT ![d].etf = "other"]
    /\ UNCHANGED <<link, tags, excused>>

\* Another program deletes the VLAN, its own or ours, with what is on it.
HostDeletes(p) ==
    /\ HostActs
    /\ There(Vlan(p))
    /\ dev' = [dev EXCEPT ![Vlan(p)] = Absent]
    /\ excused' = IF row[p].vid = "SERVED" THEN excused \cup {<<Vlan(p), "gone">>} ELSE excused
    /\ UNCHANGED <<link, tags>>

\* The cable, the card and what the wire carries.  A card that goes takes its VLANs, their
\* aliases and their qdiscs with it; it comes back with nothing on it,
\* after the daemon has seen it go.
Cable(p) ==
    /\ HostActs
    /\ \/ /\ link' \in {[link EXCEPT ![p] = "down"], [link EXCEPT ![p] = "up"]}
          /\ link[p] # "gone"
          /\ UNCHANGED <<dev, tags>>
       \/ /\ link[p] # "gone" /\ link' = [link EXCEPT ![p] = "gone"]
          /\ dev' = [d \in Devs |-> IF d[1] = p THEN Absent ELSE dev[d]]
          /\ UNCHANGED tags
       \/ /\ link[p] = "gone" /\ link' = [link EXCEPT ![p] = "up"]
          /\ ~row[p].on /\ tap[p].st = "none"
          /\ dev' = [dev EXCEPT ![Nic(p)].by = "host"]
          /\ UNCHANGED tags
       \/ /\ \E t \in {"none", "reac", "other"} : tags' = [tags EXCEPT ![p] = t]
          /\ UNCHANGED <<dev, link>>
    /\ UNCHANGED excused

-----------------------------------------------------------------------------
(* The topology tap.                                                       *)

\* tap_find
Tapped(p) == tap[p].st = "open"

\* topo_trunk_now: a trunk, and a tag heard or the link come up just now.
Trunk(p) == row[p].trunk /\ (Tapped(p) => tap[p].age < Reclass)

\* reac_topo_unwatch: the row goes, and what it served is released.
Unwatched(r) == [NoRow EXCEPT !.release = r.release \/ r.vid = "SERVED", !.minted = r.minted]

\* LISTEN: topo_watch_iface, once for every link that comes up.  There may be no room, or
\* the tap may not open, which leaves the row as it was; or the card is gone, or the loop
\* refuses the source, after the row was made.
TopoWatchIface(p) ==
    LET room == /\ Cardinality({q \in Parents : Tapped(q)}) < MaxTaps
                /\ row[p].on \/ Cardinality({q \in Parents : row[q].on}) < MaxTaps
    IN  /\ run = "on" /\ link[p] = "up" /\ tap[p].st = "none"
        /\ \/ /\ room
              /\ tap' = [tap EXCEPT ![p] = [st |-> "open", age |-> 0]]
              /\ row' = [row EXCEPT ![p].on = TRUE]
              /\ UNCHANGED fails
           \/ /\ IF room THEN Fails(1) ELSE UNCHANGED fails
              /\ tap' = [tap EXCEPT ![p].st = "failed"]
              /\ row' \in {row, [row EXCEPT ![p] = IF room THEN Unwatched(@) ELSE @]}
        /\ UNCHANGED <<host, marks, eng, rec, due, run, runs, excused>>

\* UNLISTEN: topo_unwatch_iface, which keeps the row.
TopoUnwatchIface(p) ==
    /\ run = "on" /\ link[p] # "up" /\ tap[p].st # "none"
    /\ tap' = [tap EXCEPT ![p] = NoTap]
    /\ UNCHANGED <<host, row, marks, eng, rec, due, run, runs, fails, excused>>

Older(age, bar) == IF age < bar THEN age + 1 ELSE bar

\* What reaches a parent's tap in one poll: the wire's tagged frames, and our own, sent by
\* the engine that runs on the VLAN of this parent.
Frames(p) ==
    (IF link[p] = "up" /\ tags[p] # "none" THEN {tags[p]} ELSE {})
      \cup (IF eng[Vlan(p)] # "off" THEN {"outgoing"} ELSE {})

\* Mutant of Evidence: what we send ourselves counts as heard.
EvidenceOwn(p) == {IF f = "outgoing" THEN "reac" ELSE f : f \in Frames(p)}

\* on_topo_io: a frame we sent, or one of another interface, is no evidence.
Evidence(p) == Frames(p) \ {"outgoing"}

\* reac_topo_saw: a VLAN heard is asked for once, and again when asking failed.
Saw(r, kinds) ==
    [r EXCEPT !.trunk  = @ \/ "reac" \in kinds,
              !.vid    = IF @ = "none" THEN "HEARD" ELSE @,
              !.silent = 0,
              !.ensure = @ \/ r.vid # "SERVED"]

\* A poll's worth of time passes; the taps are read, and reac_topo_tick ages the rows.
Tick ==
    /\ run = "on" /\ due = {}
    /\ due' = Parents
    /\ tap' = [p \in Parents |->
                 IF Tapped(p) /\ "reac" \in Evidence(p) THEN [tap[p] EXCEPT !.age = 0]
                 ELSE [tap[p] EXCEPT !.age = Older(@, Reclass)]]
    /\ row' = [p \in Parents |->
                 IF Tapped(p) /\ Evidence(p) # {} THEN Saw(row[p], Evidence(p))
                 ELSE IF row[p].vid # "none" /\ row[p].silent + 1 >= SilenceHold
                 THEN [row[p] EXCEPT !.vid = "none", !.silent = 0, !.ensure = FALSE,
                                     !.release = @ \/ row[p].vid = "SERVED"]
                 ELSE [row[p] EXCEPT !.silent = IF row[p].vid = "none" THEN 0 ELSE @ + 1]]
    /\ UNCHANGED <<host, marks, eng, rec, run, runs, fails, excused>>

-----------------------------------------------------------------------------
(* The qdisc.  A device's state is [etf, rec]: what is at its root, and    *)
(* whether the record says that we installed it; ok: no call failed.       *)

Qd(e, r, k) == [etf |-> e, rec |-> r, ok |-> k]

\* reac_qdisc_arm(0): any etf found is removed.  A table that cannot be read says nothing;
\* a removal that fails keeps the record of our own.
ArmThread(e, r) ==
    IF e = "none" THEN {Qd("none", FALSE, TRUE)}
    ELSE {Qd("none", FALSE, TRUE), Qd(e, FALSE, FALSE), Qd(e, r, FALSE)}

\* reac_qdisc_arm(1): the add may be refused, and the read-back may not see what was added.
ArmEtf(e) == {Qd("us", TRUE, TRUE), Qd(e, FALSE, FALSE), Qd("us", FALSE, FALSE)}

\* reac_qdisc_release: only what is on record.
Release(q) ==
    IF q.rec /\ q.etf # "none" THEN {Qd("none", FALSE, q.ok), Qd(q.etf, FALSE, FALSE)}
    ELSE {Qd(q.etf, FALSE, q.ok)}

\* Mutant of Disarmed: the refusal is noticed and the qdisc is left for the exit.
DisarmedLate(q) == {q}

\* reac_qdisc_disarm: the pacer runs the thread backend under a qdisc armed for etf.
Disarmed(q) == {Qd(a.etf, a.rec, a.ok /\ q.ok) : a \in ArmThread(q.etf, q.rec)}

\* reac_sink_node_new: the engine that runs, if any, and the qdisc it leaves.  The pacer
\* probes the device itself and takes etf only when it finds one; it may refuse it even so.
SinkNodeNew(e, want) ==
    LET failed(q)  == {[eng |-> "off", q |-> r] : r \in Release(q)}
        runs_(b, q) == {[eng |-> b, q |-> q]} \cup failed(q)
        opened(q)  == (IF q.etf # "none" THEN runs_("etf", q) ELSE {})
                        \cup UNION {runs_("thread", r) : r \in Disarmed(q)}
    IN  CASE want = "carrier" -> {[eng |-> "carrier", q |-> q] : q \in ArmThread(e, FALSE)}
          [] want = "thread"  -> UNION {runs_("thread", q) \cup failed(q) :
                                           q \in ArmThread(e, FALSE)}
          [] want = "etf"     -> UNION {opened(q) \cup failed(q) : q \in ArmEtf(e)}

-----------------------------------------------------------------------------
(* The served mark.                                                        *)

\* reac_served_decide, on a device's maker and alias.
ServedDecide(d) ==
    CASE dev[d].by = "us"                              -> "OURS"
      [] dev[d].alias = "served"                       -> "OURS_SERVED"
      [] dev[d].alias = "host"                         -> "LEAVE_HOST"
      [] dev[d].alias = "none" /\ d[2] = "vlan"        -> "LEAVE_VLAN"
      [] dev[d].alias = "none" /\ d[2] = "nic"         -> "MARK"

Remember(d) == IF d \in marks \/ Cardinality(marks) < MaxMarks THEN marks \cup {d} ELSE marks

\* Mutant of ServedMark: a mark found from an earlier run is not taken over.
ServedMarkFresh(d) ==
    IF ServedDecide(d) = "MARK" THEN [alias |-> "served", marks |-> Remember(d)]
    ELSE [alias |-> dev[d].alias, marks |-> marks]

\* reac_served_mark: the alias it leaves, and what it remembers.
ServedMark(d) ==
    CASE ServedDecide(d) = "MARK"        -> [alias |-> "served", marks |-> Remember(d)]
      [] ServedDecide(d) = "OURS_SERVED" -> [alias |-> "served", marks |-> Remember(d)]
      [] OTHER                           -> [alias |-> dev[d].alias, marks |-> marks]

\* What a mark leaves when its netlink exchanges go through (reac_link_alias_read, then
\* reac_link_alias_write), and when one of them fails.
Marked(d, told) == IF told THEN ServedMark(d) ELSE [alias |-> dev[d].alias, marks |-> marks]

-----------------------------------------------------------------------------
(* Serving and dropping.                                                   *)

\* hearing_serve with the engine it opens: a netdev that is there and is no trunk parent.
\* A segment that came up is marked; the alias may fail to be read or written.
HearingServe(d, want) ==
    /\ run = "on" /\ due = {} /\ There(d) /\ eng[d] = "off"
    /\ d[2] = "nic" => ~Trunk(d[1])
    /\ \E o \in SinkNodeNew(dev[d].etf, want), told \in BOOLEAN :
         LET marked == o.eng # "off" /\ told
             m      == Marked(d, marked)
         IN  /\ o.eng = "off" => told
             /\ eng' = [eng EXCEPT ![d] = o.eng]
             /\ rec' = [rec EXCEPT ![d] = o.q.rec]
             /\ dev' = [dev EXCEPT ![d].etf = o.q.etf, ![d].alias = m.alias]
             /\ marks' = m.marks
             /\ excused' = (excused \ ((IF marked THEN {<<d, "alias">>} ELSE {})
                                        \cup (IF o.q.ok THEN {<<d, "etf">>} ELSE {})))
                             \cup (IF o.q.ok THEN {} ELSE {<<d, "etf">>})
             /\ Fails(Failed(o.q.ok) + Failed(told))
    /\ UNCHANGED <<link, tags, acts, tap, row, due, run, runs>>

\* listener_close, reac_sink_node_destroy.  A record of a device that is gone or was made
\* anew names an index nobody has: nothing is removed.
SinkNodeDestroy(d) ==
    \E q \in Release(Qd(dev[d].etf, rec[d], TRUE)) :
        /\ eng' = [eng EXCEPT ![d] = "off"]
        /\ dev' = [dev EXCEPT ![d].etf = q.etf]
        /\ rec' = [rec EXCEPT ![d] = FALSE]
        /\ excused' = IF q.ok THEN excused ELSE excused \cup {<<d, "etf">>}
        /\ IF q.ok THEN UNCHANGED fails ELSE Fails(1)

\* hearing_drop, for whatever reason hearing_poll has.
HearingDrop(d) ==
    /\ run = "on" /\ due = {} /\ eng[d] # "off"
    /\ SinkNodeDestroy(d)
    /\ UNCHANGED <<link, tags, acts, tap, row, marks, due, run, runs>>

\* topo_forget_iface: the tap and the table's row.
TopoForget(p) ==
    /\ tap' = [tap EXCEPT ![p] = NoTap]
    /\ row' = [row EXCEPT ![p] = Unwatched(@)]

\* DROP: the listener, and topo_forget_iface.
ApplyDrop(p) ==
    /\ run = "on" /\ link[p] # "up" /\ (row[p].on \/ tap[p].st # "none")
    /\ SinkNodeDestroy(Nic(p))
    /\ TopoForget(p)
    /\ UNCHANGED <<link, tags, acts, marks, due, run, runs>>

-----------------------------------------------------------------------------
(* topo_apply, and the exit.                                               *)

\* A VLAN netdev v and its row r after a call on it; ok: the call went well.
Vl(v, r, k) == [v |-> v, r |-> r, ok |-> k]

\* topo_release: only what we minted is deleted, and that may fail.
TopoRelease(v, r) ==
    LET gone == [r EXCEPT !.release = FALSE, !.minted = FALSE]
    IN  IF ~r.release THEN {Vl(v, r, TRUE)}
        ELSE IF ~r.minted \/ v.by = "none" THEN {Vl(v, gone, TRUE)}
        ELSE {Vl(Absent, gone, TRUE), Vl(v, gone, FALSE)}

\* Mutant of TopoEnsure: the table is told that a netdev that could not be made is served.
TopoEnsureBelieved(v, r) ==
    LET served(m) == [r EXCEPT !.ensure = FALSE, !.vid = "SERVED", !.minted = m]
    IN  IF ~r.ensure THEN {Vl(v, r, TRUE)}
        ELSE IF v.by # "none" THEN {Vl(v, served(v.by = "us"), TRUE)}
        ELSE {Vl([Absent EXCEPT !.by = "us"], served(TRUE), TRUE), Vl(v, served(TRUE), FALSE)}

\* topo_ensure: one that is there is ours again or adopted, by its alias; else one is
\* created; when that fails the VLAN stays heard and is asked for again.
TopoEnsure(v, r) ==
    LET served(m) == [r EXCEPT !.ensure = FALSE, !.vid = "SERVED", !.minted = m]
    IN  IF ~r.ensure THEN {Vl(v, r, TRUE)}
        ELSE IF v.by # "none" THEN {Vl(v, served(v.by = "us"), TRUE)}
        ELSE {Vl([Absent EXCEPT !.by = "us"], served(TRUE), TRUE),
              Vl(v, [r EXCEPT !.ensure = FALSE], FALSE)}

\* topo_apply for one parent: the listener of a trunk that is tapped is dropped, then what the table
\* queued is done in its order.  Without the card nothing can be created.
TopoApply(p) ==
    LET n == Nic(p)
        v == Vlan(p)
        drop == Tapped(p) /\ Trunk(p) /\ eng[n] # "off"
        now  == Qd(dev[n].etf, rec[n], TRUE)
    IN  /\ run = "on" /\ p \in due
        /\ due' = due \ {p}
        /\ \E q \in (IF drop THEN Release(now) ELSE {now}) :
           \E a \in TopoRelease(dev[v], row[p]) :
           \E b \in TopoEnsure(a.v, a.r) :
             /\ b.v.by = "us" /\ a.v.by = "none" => There(n)
             /\ eng' = IF drop THEN [eng EXCEPT ![n] = "off"] ELSE eng
             /\ rec' = [rec EXCEPT ![n] = q.rec]
             /\ dev' = [dev EXCEPT ![n].etf = q.etf, ![v] = b.v]
             /\ row' = [row EXCEPT ![p] = b.r]
             /\ excused' = ((excused \cup (IF q.ok THEN {} ELSE {<<n, "etf">>}))
                              \cup (IF a.ok THEN {} ELSE {<<v, "vlan">>}))
                             \ (IF a.r.ensure /\ b.ok THEN {v} \X {"vlan", "gone"} ELSE {})
             /\ Fails(Failed(q.ok) + Failed(a.ok) + (IF There(n) THEN Failed(b.ok) ELSE 0))
    /\ UNCHANGED <<link, tags, acts, tap, marks, run, runs>>

\* main starts the daemon: hearing_start, all tables empty.
Start ==
    /\ run = "off" /\ runs < MaxRuns
    /\ run' = "on" /\ runs' = runs + 1
    /\ UNCHANGED <<host, daemon, fails, excused>>

\* The main loop ends; hearing_stop follows, then the listeners are closed.
Quit ==
    /\ run = "on" /\ due = {}
    /\ run' = "unmark"
    /\ UNCHANGED <<host, daemon, runs, fails, excused>>

\* Mutant of UnmarkAll: the alias is cleared whatever it says now.
UnmarkAllBlind ==
    /\ run = "unmark" /\ run' = "release"
    /\ dev' = [d \in Devs |-> IF d \in marks THEN [dev[d] EXCEPT !.alias = "none"] ELSE dev[d]]
    /\ marks' = {}
    /\ UNCHANGED <<link, tags, acts, tap, row, eng, rec, due, runs, fails, excused>>

\* reac_served_unmark_all; an alias that cannot be read or written is passed over.
UnmarkAll ==
    /\ run = "unmark" /\ run' = "release"
    /\ \E bad \in SUBSET marks :
         /\ dev' = [d \in Devs |-> IF d \in marks \ bad /\ dev[d].alias = "served"
                                   THEN [dev[d] EXCEPT !.alias = "none"] ELSE dev[d]]
         /\ excused' = excused \cup {<<d, "alias">> : d \in bad}
         /\ Fails(Cardinality(bad))
    /\ marks' = {}
    /\ UNCHANGED <<link, tags, acts, tap, row, eng, rec, due, runs>>

\* reac_topo_release_all, then the releases it queued; what was asked for is not made.
ReleaseAll ==
    LET mine == {p \in Parents : /\ row[p].minted /\ There(Vlan(p))
                                 /\ row[p].release \/ row[p].vid = "SERVED"}
    IN  /\ run = "release" /\ run' = "close"
        /\ \E bad \in SUBSET mine :
             /\ dev' = [d \in Devs |-> IF d[2] = "vlan" /\ d[1] \in mine \ bad
                                       THEN Absent ELSE dev[d]]
             /\ excused' = excused \cup {<<Vlan(p), "vlan">> : p \in bad}
             /\ Fails(Cardinality(bad))
        /\ row' = [p \in Parents |-> NoRow]
        /\ tap' = [p \in Parents |-> NoTap]
        /\ UNCHANGED <<link, tags, acts, marks, eng, rec, due, runs>>

\* main's last loop: each open listener is closed.
CloseListener(d) ==
    /\ run = "close" /\ eng[d] # "off"
    /\ SinkNodeDestroy(d)
    /\ UNCHANGED <<link, tags, acts, tap, row, marks, due, run, runs>>

Exit ==
    /\ run = "close" /\ \A d \in Devs : eng[d] = "off"
    /\ run' = "off"
    /\ UNCHANGED <<host, daemon, runs, fails, excused>>

\* What the daemon has left on the host.
Left ==
    {<<d, "vlan">> : d \in {e \in Devs : e[2] = "vlan" /\ dev[e].by = "us"}}
      \cup {<<d, "alias">> : d \in {e \in Devs : dev[e].alias = "served"}}
      \cup {<<d, "etf">> : d \in {e \in Devs : dev[e].etf = "us"}}

\* The process dies: its records are lost, its traces stay.
Crash ==
    /\ run # "off"
    /\ run' = "off"
    /\ tap' = [p \in Parents |-> NoTap]
    /\ row' = [p \in Parents |-> NoRow]
    /\ marks' = {} /\ due' = {}
    /\ eng' = [d \in Devs |-> "off"]
    /\ rec' = [d \in Devs |-> FALSE]
    /\ excused' = excused \cup Left
    /\ UNCHANGED <<host, runs, fails>>

Next ==
    \/ \E d \in Devs : HostTouches(d)
    \/ \E p \in Parents : HostDeletes(p)
    \/ \E p \in Parents : Cable(p)
    \/ \E p \in Parents : TopoWatchIface(p)
    \/ \E p \in Parents : TopoUnwatchIface(p)
    \/ Tick
    \/ \E d \in Devs, w \in {"thread", "etf", "carrier"} : HearingServe(d, w)
    \/ \E d \in Devs : HearingDrop(d)
    \/ \E p \in Parents : ApplyDrop(p)
    \/ \E p \in Parents : TopoApply(p)
    \/ Start
    \/ Quit
    \/ UnmarkAll
    \/ ReleaseAll
    \/ \E d \in Devs : CloseListener(d)
    \/ Exit
    \/ Crash

\* The timer fires, its passes end, and a link event is handled.
Fairness ==
    /\ WF_vars(Tick)
    /\ \A p \in Parents : WF_vars(TopoApply(p)) /\ WF_vars(TopoWatchIface(p))

Spec == Init /\ [][Next]_vars /\ Fairness

-----------------------------------------------------------------------------
(* Properties.                                                             *)

\* What the host made and named is the host's: whatever the daemon adopted, served, lost
\* track of in a crash and found again, no step of its own removes a VLAN of the host's, and
\* none overwrites or clears an alias the host set (topo_release, reac_served_unmark_all).
HostIsLeftAlone ==
    [][acts' = acts => \A d \in Devs :
          /\ dev[d].by = "host" => dev'[d].by = "host"
          /\ dev[d].alias = "host" => dev'[d].alias = "host"]_vars

\* A daemon that has ended has left nothing behind, unless a crash or a call that failed
\* is answerable for it; and what an earlier run left and this one served again went too
\* (hearing_stop, reac_qdisc_release).
CleanStop == run = "off" => Left \subseteq excused

\* An engine whose frames carry no launch time never runs under an etf qdisc, which would
\* drop them all, unless the qdisc could not be read or removed (reac_sink_node_new).
ThreadTransmits ==
    \A d \in Devs : eng[d] \in {"thread", "carrier"} /\ dev[d].etf # "none"
                      => <<d, "etf">> \in excused

\* A cable that carries tags no more is an ordinary segment again, and the VLAN minted for
\* it goes, although our own engine may be sending tagged frames on it all the while
\* (topo_trunk_now, on_topo_io).
SilentTrunkEnds ==
    \A p \in Parents :
        <>[](run = "on" /\ link[p] = "up" /\ tags[p] = "none")
          => <>[](~Trunk(p) /\ (dev[Vlan(p)].by = "us" => <<Vlan(p), "vlan">> \in excused))

\* A VLAN that goes on talking on a parent whose tap is open has its netdev, and a parent
\* that carries tagged REAC has no engine of its own (topo_apply).  Excluded is a netdev that
\* another program deleted while the table has it as served.
TaggedIsServed ==
    \A p \in Parents :
        <>[](/\ run = "on" /\ link[p] = "up" /\ tags[p] = "reac" /\ tap[p].st # "failed"
             /\ <<Vlan(p), "gone">> \notin excused)
          => <>[](There(Vlan(p)) /\ Trunk(p) /\ eng[Nic(p)] = "off")
=============================================================================
