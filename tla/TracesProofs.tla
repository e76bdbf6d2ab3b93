---------------------------- MODULE TracesProofs -----------------------------
(***************************************************************************)
(* What the daemon leaves on the host, for every set of interfaces and     *)
(* every number of starts, failed calls and acts of the host: the type     *)
(* invariant, ThreadTransmits, CleanStop and HostIsLeftAlone of Traces.    *)
(***************************************************************************)
EXTENDS Traces, FiniteSetTheorems, TLAPS

\* Who may carry which trace: only a VLAN is made by us, only a card is marked, and only
\* what the host made carries a name of the host's.
TracesAreApart ==
    \A d \in Devs : /\ dev[d].by = "us" => d[2] = "vlan"
                    /\ dev[d].alias = "served" => d[2] = "nic"
                    /\ dev[d].alias = "host" => dev[d].by = "host"

\* What the table calls minted is not the host's.
MintedIsNotHosts == \A p \in Parents : row[p].minted => dev[Vlan(p)].by # "host"

\* A VLAN of ours is on record with its removal to come, or it is excused.
VlanIsOwed ==
    \A p \in Parents : dev[Vlan(p)].by = "us" =>
        \/ row[p].minted /\ (row[p].vid = "SERVED" \/ row[p].release)
        \/ <<Vlan(p), "vlan">> \in excused

\* A mark of ours is remembered, or it is excused; only cards are remembered.
AliasIsOwed ==
    /\ \A d \in marks : d[2] = "nic"
    /\ \A d \in Devs : dev[d].alias = "served" => d \in marks \/ <<d, "alias">> \in excused

\* A qdisc of ours is on record and has its engine, or it is excused.
EtfIsOwed ==
    \A d \in Devs : /\ dev[d].etf = "us" => rec[d] \/ <<d, "etf">> \in excused
                    /\ rec[d] => eng[d] # "off"

\* Each step of the exit has emptied its table.
ExitIsOrdered ==
    /\ run \in {"release", "close", "off"} => marks = {}
    /\ run \in {"close", "off"} => row = [p \in Parents |-> NoRow]
    /\ run = "off" => \A d \in Devs : eng[d] = "off"

\* The inductive invariant, without the marks: their table is the one that may be full.
Inv == /\ TypeOK /\ TracesAreApart /\ MintedIsNotHosts /\ VlanIsOwed /\ EtfIsOwed
       /\ ExitIsOrdered /\ ThreadTransmits

-----------------------------------------------------------------------------
(* The netdevs, the bounds and the qdisc.                                  *)

Netdev == [by : Makers, alias : Aliases, etf : Qdiscs]

\* A netdev is the card of its parent or the VLAN on it.
LEMMA DevLemma ==
    /\ \A p \in Parents : /\ Nic(p) \in Devs /\ Vlan(p) \in Devs /\ Nic(p) # Vlan(p)
                          /\ Nic(p)[1] = p /\ Vlan(p)[1] = p
                          /\ Nic(p)[2] = "nic" /\ Vlan(p)[2] = "vlan"
    /\ \A d \in Devs : /\ d[1] \in Parents
                       /\ \/ d[2] = "nic" /\ d = Nic(d[1])
                          \/ d[2] = "vlan" /\ d = Vlan(d[1])
<1>1. \A p \in Parents : /\ Nic(p) \in Devs /\ Vlan(p) \in Devs /\ Nic(p) # Vlan(p)
                         /\ Nic(p)[1] = p /\ Vlan(p)[1] = p
                         /\ Nic(p)[2] = "nic" /\ Vlan(p)[2] = "vlan"
  BY DEF Devs, Nic, Vlan
<1>2. \A d \in Devs : /\ d[1] \in Parents
                      /\ \/ d[2] = "nic" /\ d = Nic(d[1])
                         \/ d[2] = "vlan" /\ d = Vlan(d[1])
  BY DEF Devs, Nic, Vlan
<1> QED BY <1>1, <1>2

\* There are finitely many netdevs.
LEMMA DevsFinite == IsFiniteSet(Devs)
<1>1. IsFiniteSet(Parents)
  BY TracesAssumption
<1>2. IsFiniteSet({"nic"} \cup {"vlan"}) /\ {"nic"} \cup {"vlan"} = {"nic", "vlan"}
  BY FS_Singleton, FS_Union
<1> QED BY <1>1, <1>2, FS_Product DEF Devs

\* The bounds are natural numbers.
LEMMA BoundsLemma ==
    /\ Reclass \in Nat /\ Reclass > 0 /\ SilenceHold \in Nat /\ SilenceHold > 0
    /\ MaxTaps \in Nat /\ MaxMarks \in Nat /\ MaxRuns \in Nat /\ MaxFails \in Nat
    /\ MaxHost \in Nat
BY TracesAssumption

\* Calls that fail stay within their bound.
LEMMA FailsLemma ==
    ASSUME fails \in 0..MaxFails, NEW n \in Nat, Fails(n)
    PROVE  fails' \in 0..MaxFails
BY BoundsLemma DEF Fails

\* What reac_qdisc_release leaves: no record; the qdisc as it was, unless it is gone; one of
\* ours that stays was not on record, or its removal failed.
LEMMA ReleaseLemma ==
    ASSUME NEW c, c.etf \in Qdiscs, c.rec \in BOOLEAN, c.ok \in BOOLEAN, NEW q \in Release(c)
    PROVE  /\ q.rec = FALSE /\ q.ok \in BOOLEAN
           /\ q.etf \in {c.etf, "none"}
           /\ q.ok => c.ok
           /\ q.etf # "none" => ~q.ok \/ ~c.rec
<1>1. CASE c.rec /\ c.etf # "none"
  <2>1. q = Qd("none", FALSE, c.ok) \/ q = Qd(c.etf, FALSE, FALSE)
    BY <1>1 DEF Release
  <2>2. CASE q = Qd("none", FALSE, c.ok)
    BY <2>2 DEF Qd
  <2>3. CASE q = Qd(c.etf, FALSE, FALSE)
    BY <2>3 DEF Qd
  <2> QED BY <2>1, <2>2, <2>3
<1>2. CASE ~(c.rec /\ c.etf # "none")
  <2>1. q = Qd(c.etf, FALSE, c.ok)
    BY <1>2 DEF Release
  <2> QED BY <2>1, <1>2 DEF Qd
<1> QED BY <1>1, <1>2

\* What reac_qdisc_arm(0) leaves: an etf stays only when a call failed.
LEMMA ArmThreadLemma ==
    ASSUME NEW e \in Qdiscs, NEW r \in BOOLEAN, NEW q \in ArmThread(e, r)
    PROVE  /\ q.etf \in {e, "none"} /\ q.rec \in BOOLEAN /\ (q.rec => r) /\ q.ok \in BOOLEAN
           /\ q.ok => q.etf = "none" /\ ~q.rec
<1>1. q = Qd("none", FALSE, TRUE) \/ q = Qd(e, FALSE, FALSE) \/ q = Qd(e, r, FALSE)
  BY DEF ArmThread
<1>2. CASE q = Qd("none", FALSE, TRUE)
  BY <1>2 DEF Qd
<1>3. CASE q = Qd(e, FALSE, FALSE)
  BY <1>3 DEF Qd
<1>4. CASE q = Qd(e, r, FALSE)
  BY <1>4 DEF Qd
<1> QED BY <1>1, <1>2, <1>3, <1>4

\* A qdisc of ours is on record, or a call failed.
OnRecord(q) ==
    /\ q.etf \in Qdiscs /\ q.rec \in BOOLEAN /\ q.ok \in BOOLEAN
    /\ q.etf = "us" => q.rec \/ ~q.ok

\* And with the engine over it: no record without an engine, and no etf under one whose
\* frames carry no launch time.
Suits(o) ==
    /\ o.eng \in Engines /\ OnRecord(o.q)
    /\ o.q.rec => o.eng # "off"
    /\ o.eng \in {"thread", "carrier"} /\ o.q.etf # "none" => ~o.q.ok

\* An open that fails after the qdisc was armed releases it.
LEMMA FailedLemma ==
    ASSUME NEW q, OnRecord(q), NEW r \in Release(q)
    PROVE  Suits([eng |-> "off", q |-> r])
<1>1. /\ r.rec = FALSE /\ r.ok \in BOOLEAN
      /\ r.etf \in {q.etf, "none"}
      /\ r.ok => q.ok
      /\ r.etf # "none" => ~r.ok \/ ~q.rec
  BY ReleaseLemma DEF OnRecord
<1> QED BY <1>1 DEF Suits, OnRecord, Engines, Qdiscs

\* reac_sink_node_new, whatever it finds, is asked for and is refused.
LEMMA SinkNodeNewLemma ==
    ASSUME NEW e \in Qdiscs, NEW want \in {"thread", "etf", "carrier"},
           NEW o \in SinkNodeNew(e, want)
    PROVE  Suits(o)
<1> DEFINE failed(q)   == {[eng |-> "off", q |-> r] : r \in Release(q)}
           runs_(b, q) == {[eng |-> b, q |-> q]} \cup failed(q)
           opened(q)   == (IF q.etf # "none" THEN runs_("etf", q) ELSE {})
                            \cup UNION {runs_("thread", r) : r \in Disarmed(q)}
<1>1. ASSUME NEW q, OnRecord(q), o \in failed(q) PROVE Suits(o)
  BY <1>1, FailedLemma
<1>2. ASSUME NEW q, NEW b \in {"thread", "carrier"}, OnRecord(q), q.etf # "none" => ~q.ok,
             o \in {[eng |-> b, q |-> q]}
      PROVE  Suits(o)
  BY <1>2 DEF Suits, Engines
<1>3. ASSUME NEW q \in ArmThread(e, FALSE) PROVE OnRecord(q) /\ (q.etf # "none" => ~q.ok)
  BY ArmThreadLemma DEF OnRecord, Qdiscs
<1>4. CASE want = "carrier"
  <2>1. PICK q \in ArmThread(e, FALSE) : o = [eng |-> "carrier", q |-> q]
    BY <1>4 DEF SinkNodeNew
  <2> QED BY <2>1, <1>2, <1>3
<1>5. CASE want = "thread"
  <2>1. PICK q \in ArmThread(e, FALSE) : o \in runs_("thread", q) \cup failed(q)
    BY <1>5 DEF SinkNodeNew
  <2> QED BY <2>1, <1>1, <1>2, <1>3
<1>6. CASE want = "etf"
  <2>1. PICK q \in ArmEtf(e) : o \in opened(q) \cup failed(q)
    BY <1>6 DEF SinkNodeNew
  <2>2. OnRecord(q)
    <3>1. q = Qd("us", TRUE, TRUE) \/ q = Qd(e, FALSE, FALSE) \/ q = Qd("us", FALSE, FALSE)
      BY DEF ArmEtf
    <3>2. CASE q = Qd("us", TRUE, TRUE)
      BY <3>2 DEF Qd, OnRecord, Qdiscs
    <3>3. CASE q = Qd(e, FALSE, FALSE)
      BY <3>3 DEF Qd, OnRecord
    <3>4. CASE q = Qd("us", FALSE, FALSE)
      BY <3>4 DEF Qd, OnRecord, Qdiscs
    <3> QED BY <3>1, <3>2, <3>3, <3>4
  <2>3. CASE o \in failed(q)
    BY <2>2, <2>3, <1>1
  <2>4. CASE o = [eng |-> "etf", q |-> q]
    BY <2>2, <2>4 DEF Suits, Engines
  <2>5. ASSUME NEW r \in Disarmed(q), o \in runs_("thread", r) PROVE Suits(o)
    <3>1. PICK a \in ArmThread(q.etf, q.rec) : r = Qd(a.etf, a.rec, a.ok /\ q.ok)
      BY <2>5 DEF Disarmed
    <3>2. /\ a.etf \in {q.etf, "none"} /\ a.rec \in BOOLEAN /\ a.ok \in BOOLEAN
          /\ a.ok => a.etf = "none" /\ ~a.rec
      BY <2>2, ArmThreadLemma DEF OnRecord
    <3>3. r.etf = a.etf /\ r.rec = a.rec /\ r.ok = (a.ok /\ q.ok)
      BY <3>1 DEF Qd
    <3>4. OnRecord(r) /\ (r.etf # "none" => ~r.ok)
      BY <2>2, <3>2, <3>3 DEF OnRecord, Qdiscs
    <3> QED BY <2>5, <3>4, <1>1, <1>2
  <2> QED BY <2>1, <2>3, <2>4, <2>5
<1> QED BY <1>4, <1>5, <1>6

-----------------------------------------------------------------------------
(* The host's own doings.                                                  *)

\* Whatever another program does to a netdev.
LEMMA HostTouchesStep ==
    ASSUME Inv, NEW d \in Devs, HostTouches(d)
    PROVE  Inv'
<1>1. /\ dev \in [Devs -> Netdev] /\ row \in [Parents -> Rows] /\ acts \in 0..MaxHost
  BY DEF Inv, TypeOK, Netdev
<1>2. /\ acts' \in 0..MaxHost
      /\ UNCHANGED <<link, tags, tap, row, marks, eng, rec, due, run, runs, fails, excused>>
  BY <1>1, BoundsLemma DEF HostTouches, HostActs, daemon
<1>3. \/ /\ dev[d].by = "none" /\ ~row[d[1]].minted
         /\ dev' = [dev EXCEPT ![d].by = "host"]
      \/ dev[d].by = "host" /\ dev' = [dev EXCEPT ![d].alias = "host"]
      \/ eng[d] = "off" /\ dev' = [dev EXCEPT ![d].etf = "other"]
  BY DEF HostTouches, There
<1>4. /\ dev' \in [Devs -> Netdev]
      /\ \A e \in Devs : e # d => dev'[e] = dev[e]
      /\ \/ /\ dev[d].by = "none" /\ ~row[d[1]].minted
            /\ dev'[d].by = "host" /\ dev'[d].alias = dev[d].alias /\ dev'[d].etf = dev[d].etf
         \/ /\ dev[d].by = "host" /\ dev'[d].by = "host"
            /\ dev'[d].alias = "host" /\ dev'[d].etf = dev[d].etf
         \/ /\ eng[d] = "off" /\ dev'[d].by = dev[d].by
            /\ dev'[d].alias = dev[d].alias /\ dev'[d].etf = "other"
  BY <1>1, <1>3 DEF Netdev, Makers, Aliases, Qdiscs
<1>5. TypeOK'
  BY <1>2, <1>4 DEF Inv, TypeOK, Netdev
<1>6. TracesAreApart'
  BY <1>2, <1>4 DEF Inv, TracesAreApart
<1>7. MintedIsNotHosts'
  BY <1>2, <1>4, DevLemma DEF Inv, MintedIsNotHosts
<1>8. VlanIsOwed'
  BY <1>2, <1>4, DevLemma DEF Inv, VlanIsOwed
<1>9. EtfIsOwed'
  BY <1>2, <1>4 DEF Inv, EtfIsOwed
<1>10. ExitIsOrdered'
  BY <1>2 DEF Inv, ExitIsOrdered
<1>11. ThreadTransmits'
  BY <1>2, <1>4 DEF Inv, ThreadTransmits
<1> QED BY <1>5, <1>6, <1>7, <1>8, <1>9, <1>10, <1>11 DEF Inv

\* Another program deletes a VLAN.
LEMMA HostDeletesStep ==
    ASSUME Inv, NEW p \in Parents, HostDeletes(p)
    PROVE  Inv'
<1>1. /\ dev \in [Devs -> Netdev] /\ acts \in 0..MaxHost
      /\ excused \in SUBSET (Devs \X {"vlan", "alias", "etf", "gone"})
  BY DEF Inv, TypeOK, Netdev
<1>2. /\ acts' \in 0..MaxHost
      /\ UNCHANGED <<link, tags, tap, row, marks, eng, rec, due, run, runs, fails>>
  BY <1>1, BoundsLemma DEF HostDeletes, HostActs, daemon
<1>3. /\ excused' \in SUBSET (Devs \X {"vlan", "alias", "etf", "gone"})
      /\ excused \subseteq excused'
  BY <1>1, DevLemma DEF HostDeletes
<1>4. Absent \in Netdev /\ Absent.by = "none" /\ Absent.alias = "none" /\ Absent.etf = "none"
  BY DEF Absent, Netdev, Makers, Aliases, Qdiscs
<1>5. /\ dev' \in [Devs -> Netdev]
      /\ \A e \in Devs : dev'[e] = dev[e] \/ dev'[e] = Absent
  BY <1>1, <1>4 DEF HostDeletes
<1>6. TypeOK'
  BY <1>2, <1>3, <1>5 DEF Inv, TypeOK, Netdev
<1>7. TracesAreApart'
  BY <1>4, <1>5 DEF Inv, TracesAreApart
<1>8. MintedIsNotHosts' /\ VlanIsOwed'
  BY <1>2, <1>3, <1>4, <1>5, DevLemma DEF Inv, MintedIsNotHosts, VlanIsOwed
<1>9. EtfIsOwed' /\ ThreadTransmits'
  BY <1>2, <1>3, <1>4, <1>5 DEF Inv, EtfIsOwed, ThreadTransmits
<1>10. ExitIsOrdered'
  BY <1>2 DEF Inv, ExitIsOrdered
<1> QED BY <1>6, <1>7, <1>8, <1>9, <1>10 DEF Inv

\* The cable, the card and the wire.
LEMMA CableStep ==
    ASSUME Inv, NEW p \in Parents, Cable(p)
    PROVE  Inv'
<1>1. /\ dev \in [Devs -> Netdev] /\ link \in [Parents -> {"up", "down", "gone"}]
      /\ tags \in [Parents -> {"none", "reac", "other"}] /\ acts \in 0..MaxHost
  BY DEF Inv, TypeOK, Netdev
<1>2. /\ acts' \in 0..MaxHost
      /\ UNCHANGED <<tap, row, marks, eng, rec, due, run, runs, fails, excused>>
  BY <1>1, BoundsLemma DEF Cable, HostActs, daemon
<1>3. /\ link' \in [Parents -> {"up", "down", "gone"}]
      /\ tags' \in [Parents -> {"none", "reac", "other"}]
      /\ \/ dev' = dev
         \/ dev' = [e \in Devs |-> IF e[1] = p THEN Absent ELSE dev[e]]
         \/ dev' = [dev EXCEPT ![Nic(p)].by = "host"]
  BY <1>1 DEF Cable
<1>4. /\ dev' \in [Devs -> Netdev]
      /\ \A e \in Devs :
           \/ dev'[e] = dev[e]
           \/ dev'[e].by = "none" /\ dev'[e].alias = "none" /\ dev'[e].etf = "none"
           \/ /\ e = Nic(p) /\ dev'[e].by = "host" /\ dev'[e].alias = dev[e].alias
              /\ dev'[e].etf = dev[e].etf
  <2>1. CASE dev' = dev
    BY <1>1, <2>1
  <2>2. CASE dev' = [e \in Devs |-> IF e[1] = p THEN Absent ELSE dev[e]]
    <3>1. Absent \in Netdev
      BY DEF Absent, Netdev, Makers, Aliases, Qdiscs
    <3>2. Absent.by = "none" /\ Absent.alias = "none" /\ Absent.etf = "none"
      BY DEF Absent
    <3> QED BY <1>1, <2>2, <3>1, <3>2
  <2>3. CASE dev' = [dev EXCEPT ![Nic(p)].by = "host"]
    BY <1>1, <2>3, DevLemma DEF Netdev, Makers
  <2> QED BY <1>3, <2>1, <2>2, <2>3
<1>5. TypeOK'
  BY <1>2, <1>3, <1>4 DEF Inv, TypeOK, Netdev
<1>6. TracesAreApart'
  BY <1>2, <1>4 DEF Inv, TracesAreApart
<1>7. MintedIsNotHosts'
  BY <1>2, <1>4, DevLemma DEF Inv, MintedIsNotHosts
<1>8. VlanIsOwed'
  BY <1>2, <1>4, DevLemma DEF Inv, VlanIsOwed
<1>9. EtfIsOwed'
  BY <1>2, <1>4 DEF Inv, EtfIsOwed
<1>10. ExitIsOrdered'
  BY <1>2 DEF Inv, ExitIsOrdered
<1>11. ThreadTransmits'
  BY <1>2, <1>4 DEF Inv, ThreadTransmits
<1> QED BY <1>5, <1>6, <1>7, <1>8, <1>9, <1>10, <1>11 DEF Inv

-----------------------------------------------------------------------------
(* The topology tap.                                                       *)

\* A step of the tap touches no netdev and no qdisc; a row that it changes keeps what it
\* minted and owes its removal as before.
LEMMA RowStep ==
    ASSUME Inv, row' \in [Parents -> Rows], tap' \in [Parents -> Taps], due' \in SUBSET Parents,
           fails' \in 0..MaxFails, run = "on",
           \A p \in Parents :
              /\ row'[p].minted = row[p].minted
              /\ row[p].vid = "SERVED" \/ row[p].release
                   => row'[p].vid = "SERVED" \/ row'[p].release,
           UNCHANGED <<host, marks, eng, rec, run, runs, excused>>
    PROVE  Inv'
<1>1. UNCHANGED <<dev, link, tags, acts, marks, eng, rec, run, runs, excused>>
  BY DEF host
<1>2. TypeOK'
  BY <1>1 DEF Inv, TypeOK
<1>3. TracesAreApart' /\ EtfIsOwed' /\ ThreadTransmits'
  BY <1>1 DEF Inv, TracesAreApart, EtfIsOwed, ThreadTransmits
<1>4. MintedIsNotHosts' /\ VlanIsOwed'
  BY <1>1 DEF Inv, MintedIsNotHosts, VlanIsOwed
<1>5. ExitIsOrdered'
  BY <1>1 DEF Inv, ExitIsOrdered
<1> QED BY <1>2, <1>3, <1>4, <1>5 DEF Inv

\* reac_topo_unwatch gives a row, and what the old one owed it owes.
LEMMA UnwatchedLemma ==
    ASSUME NEW r \in Rows
    PROVE  /\ Unwatched(r) \in Rows
           /\ Unwatched(r).minted = r.minted
           /\ r.vid = "SERVED" \/ r.release => Unwatched(r).release
<1> DEFINE owed == r.release \/ r.vid = "SERVED"
<1>1. NoRow \in Rows
  BY BoundsLemma DEF NoRow, Rows
<1>2. r.release \in BOOLEAN /\ r.minted \in BOOLEAN /\ owed \in BOOLEAN
  BY DEF Rows
<1>3. Unwatched(r) = [NoRow EXCEPT !.release = owed, !.minted = r.minted]
  BY DEF Unwatched
<1> HIDE DEF owed
<1>4. /\ Unwatched(r) \in Rows
      /\ Unwatched(r).release = owed /\ Unwatched(r).minted = r.minted
  BY <1>1, <1>2, <1>3 DEF Rows
<1> QED BY <1>4 DEF owed

\* LISTEN.
LEMMA TopoWatchIfaceStep ==
    ASSUME Inv, NEW p \in Parents, TopoWatchIface(p)
    PROVE  Inv'
<1>1. row \in [Parents -> Rows] /\ tap \in [Parents -> Taps] /\ due \in SUBSET Parents
      /\ fails \in 0..MaxFails
  BY DEF Inv, TypeOK
<1>2. /\ run = "on" /\ UNCHANGED <<host, marks, eng, rec, due, run, runs, excused>>
  BY DEF TopoWatchIface
<1>3. tap' \in [Parents -> Taps]
  BY <1>1, BoundsLemma DEF TopoWatchIface, Taps
<1>4. fails' \in 0..MaxFails
  BY <1>1, FailsLemma DEF TopoWatchIface
<1>5. \/ row' = row
      \/ row' = [row EXCEPT ![p].on = TRUE]
      \/ row' = [row EXCEPT ![p] = Unwatched(row[p])]
  <2>1. [row EXCEPT ![p] = row[p]] = row
    BY <1>1
  <2> QED BY <2>1 DEF TopoWatchIface
<1>6. /\ row' \in [Parents -> Rows]
      /\ \A q \in Parents :
           /\ row'[q].minted = row[q].minted
           /\ row[q].vid = "SERVED" \/ row[q].release
                => row'[q].vid = "SERVED" \/ row'[q].release
  <2>1. CASE row' = row
    BY <1>1, <2>1
  <2>2. CASE row' = [row EXCEPT ![p].on = TRUE]
    BY <1>1, <2>2 DEF Rows
  <2>3. CASE row' = [row EXCEPT ![p] = Unwatched(row[p])]
    BY <1>1, <2>3, UnwatchedLemma
  <2> QED BY <1>5, <2>1, <2>2, <2>3
<1> QED BY <1>1, <1>2, <1>3, <1>4, <1>6, RowStep

\* UNLISTEN.
LEMMA TopoUnwatchIfaceStep ==
    ASSUME Inv, NEW p \in Parents, TopoUnwatchIface(p)
    PROVE  Inv'
<1>1. row \in [Parents -> Rows] /\ tap \in [Parents -> Taps] /\ due \in SUBSET Parents
      /\ fails \in 0..MaxFails
  BY DEF Inv, TypeOK
<1>2. tap' \in [Parents -> Taps]
  BY <1>1, BoundsLemma DEF TopoUnwatchIface, Taps, NoTap
<1> QED BY <1>1, <1>2, RowStep DEF TopoUnwatchIface

\* reac_topo_saw gives a row, and what the old one owed it owes.
LEMMA SawLemma ==
    ASSUME NEW r \in Rows, NEW kinds
    PROVE  /\ Saw(r, kinds) \in Rows
           /\ Saw(r, kinds).minted = r.minted /\ Saw(r, kinds).release = r.release
           /\ r.vid = "SERVED" => Saw(r, kinds).vid = "SERVED"
<1> DEFINE trunk  == r.trunk \/ "reac" \in kinds
           vid    == IF r.vid = "none" THEN "HEARD" ELSE r.vid
           ensure == r.ensure \/ r.vid # "SERVED"
<1>1. /\ trunk \in BOOLEAN /\ ensure \in BOOLEAN /\ vid \in {"none", "HEARD", "SERVED"}
      /\ r.vid = "SERVED" => vid = "SERVED"
  BY DEF Rows
<1>2. Saw(r, kinds) = [r EXCEPT !.trunk = trunk, !.vid = vid, !.silent = 0, !.ensure = ensure]
  BY DEF Saw
<1>3. 0 \in 0..SilenceHold
  BY BoundsLemma
<1> HIDE DEF trunk, vid, ensure
<1>4. /\ Saw(r, kinds) \in Rows
      /\ Saw(r, kinds).minted = r.minted /\ Saw(r, kinds).release = r.release
      /\ Saw(r, kinds).vid = vid
  BY <1>1, <1>2, <1>3 DEF Rows
<1> QED BY <1>1, <1>4

\* A poll's worth of time.
LEMMA TickStep ==
    ASSUME Inv, Tick
    PROVE  Inv'
<1>1. row \in [Parents -> Rows] /\ tap \in [Parents -> Taps] /\ fails \in 0..MaxFails
  BY DEF Inv, TypeOK
<1>2. /\ run = "on" /\ due' = Parents
      /\ UNCHANGED <<host, marks, eng, rec, run, runs, fails, excused>>
  BY DEF Tick
<1>3. tap' \in [Parents -> Taps]
  <2>1. tap' = [p \in Parents |->
                 IF Tapped(p) /\ "reac" \in Evidence(p) THEN [tap[p] EXCEPT !.age = 0]
                 ELSE [tap[p] EXCEPT !.age = Older(@, Reclass)]]
    BY DEF Tick
  <2>2. ASSUME NEW p \in Parents
        PROVE  /\ [tap[p] EXCEPT !.age = 0] \in Taps
               /\ [tap[p] EXCEPT !.age = Older(@, Reclass)] \in Taps
    BY <1>1, BoundsLemma DEF Taps, Older
  <2> QED BY <2>1, <2>2
<1>4. ASSUME NEW p \in Parents
      PROVE  /\ row'[p] \in Rows
             /\ row'[p].minted = row[p].minted
             /\ row[p].vid = "SERVED" \/ row[p].release
                  => row'[p].vid = "SERVED" \/ row'[p].release
  <2> DEFINE r == row[p]
             owed == r.release \/ r.vid = "SERVED"
  <2>1. r \in Rows
    BY <1>1
  <2>2. row'[p] = IF Tapped(p) /\ Evidence(p) # {} THEN Saw(r, Evidence(p))
                  ELSE IF r.vid # "none" /\ r.silent + 1 >= SilenceHold
                  THEN [r EXCEPT !.vid = "none", !.silent = 0, !.ensure = FALSE,
                                 !.release = owed]
                  ELSE [r EXCEPT !.silent = IF r.vid = "none" THEN 0 ELSE @ + 1]
    BY DEF Tick
  <2>3. CASE Tapped(p) /\ Evidence(p) # {}
    BY <2>1, <2>2, <2>3, SawLemma
  <2>4. CASE ~(Tapped(p) /\ Evidence(p) # {}) /\ r.vid # "none" /\ r.silent + 1 >= SilenceHold
    <3>1. row'[p] = [r EXCEPT !.vid = "none", !.silent = 0, !.ensure = FALSE, !.release = owed]
      BY <2>2, <2>4
    <3>2. owed \in BOOLEAN /\ 0 \in 0..SilenceHold /\ "none" \in {"none", "HEARD", "SERVED"}
      BY <2>1, BoundsLemma DEF Rows
    <3> HIDE DEF owed, r
    <3>3. row'[p] \in Rows /\ row'[p].minted = r.minted /\ row'[p].release = owed
      BY <2>1, <3>1, <3>2 DEF Rows
    <3> QED BY <3>3 DEF owed, r
  <2>5. CASE ~(Tapped(p) /\ Evidence(p) # {}) /\ ~(r.vid # "none" /\ r.silent + 1 >= SilenceHold)
    <3>1. row'[p] = [r EXCEPT !.silent = IF r.vid = "none" THEN 0 ELSE @ + 1]
      BY <2>2, <2>5
    <3> QED BY <2>1, <2>5, <3>1, BoundsLemma DEF Rows
  <2> QED BY <2>3, <2>4, <2>5
<1>5. row' \in [Parents -> Rows]
  BY <1>4 DEF Tick
<1> QED BY <1>1, <1>2, <1>3, <1>4, <1>5, RowStep

-----------------------------------------------------------------------------
(* Serving and dropping.                                                   *)

\* hearing_serve.
LEMMA HearingServeStep ==
    ASSUME Inv, NEW d \in Devs, NEW want \in {"thread", "etf", "carrier"}, HearingServe(d, want)
    PROVE  Inv'
<1>1. /\ dev \in [Devs -> Netdev] /\ marks \in SUBSET Devs /\ eng \in [Devs -> Engines]
      /\ rec \in [Devs -> BOOLEAN] /\ fails \in 0..MaxFails
      /\ excused \in SUBSET (Devs \X {"vlan", "alias", "etf", "gone"})
  BY DEF Inv, TypeOK, Netdev
<1>2. /\ run = "on"
      /\ UNCHANGED <<link, tags, acts, tap, row, due, run, runs>>
  BY DEF HearingServe
<1> DEFINE m(o, told) == Marked(d, o.eng # "off" /\ told)
<1>3. PICK o \in SinkNodeNew(dev[d].etf, want), told \in BOOLEAN :
        /\ eng' = [eng EXCEPT ![d] = o.eng]
        /\ rec' = [rec EXCEPT ![d] = o.q.rec]
        /\ dev' = [dev EXCEPT ![d].etf = o.q.etf, ![d].alias = m(o, told).alias]
        /\ marks' = m(o, told).marks
        /\ excused' = (excused \ ((IF o.eng # "off" /\ told THEN {<<d, "alias">>} ELSE {})
                                   \cup (IF o.q.ok THEN {<<d, "etf">>} ELSE {})))
                        \cup (IF o.q.ok THEN {} ELSE {<<d, "etf">>})
        /\ Fails(Failed(o.q.ok) + Failed(told))
  BY DEF HearingServe
<1>4. Suits(o)
  BY <1>1, SinkNodeNewLemma DEF Netdev
<1>5. /\ m(o, told).alias \in {dev[d].alias, "served"}
      /\ m(o, told).alias = "served" => dev[d].alias = "served" \/ d[2] = "nic"
      /\ dev[d].alias = "host" => m(o, told).alias = "host"
      /\ m(o, told).marks \in SUBSET Devs
  <2>1. /\ ServedDecide(d) = "MARK" => d[2] = "nic" /\ dev[d].alias = "none"
        /\ ServedDecide(d) = "OURS_SERVED" => dev[d].alias = "served"
    BY <1>1, DevLemma DEF ServedDecide, Netdev, Aliases
  <2>2. Remember(d) \in SUBSET Devs
    BY <1>1 DEF Remember
  <2> QED BY <1>1, <2>1, <2>2 DEF Marked, ServedMark
<1> HIDE DEF m
<1>6. /\ dev' \in [Devs -> Netdev]
      /\ \A e \in Devs : e # d => dev'[e] = dev[e]
      /\ dev'[d].by = dev[d].by /\ dev'[d].etf = o.q.etf /\ dev'[d].alias = m(o, told).alias
  BY <1>1, <1>3, <1>4, <1>5 DEF Netdev, Aliases, Suits, OnRecord
<1>7. /\ eng' \in [Devs -> Engines] /\ rec' \in [Devs -> BOOLEAN]
      /\ eng'[d] = o.eng /\ rec'[d] = o.q.rec
      /\ \A e \in Devs : e # d => eng'[e] = eng[e] /\ rec'[e] = rec[e]
  BY <1>1, <1>3, <1>4 DEF Suits, OnRecord
<1>8. /\ excused' \in SUBSET (Devs \X {"vlan", "alias", "etf", "gone"})
      /\ o.q.ok \/ <<d, "etf">> \in excused'
      /\ \A e \in Devs : /\ <<e, "vlan">> \in excused => <<e, "vlan">> \in excused'
                         /\ e # d /\ <<e, "etf">> \in excused => <<e, "etf">> \in excused'
  BY <1>1, <1>3
<1>9. fails' \in 0..MaxFails
  <2>1. Failed(o.q.ok) + Failed(told) \in Nat
    BY DEF Failed
  <2> QED BY <1>1, <1>3, <2>1, FailsLemma
<1>10. TypeOK'
  BY <1>2, <1>3, <1>5, <1>6, <1>7, <1>8, <1>9 DEF Inv, TypeOK, Netdev
<1>11. TracesAreApart'
  BY <1>1, <1>5, <1>6 DEF Inv, TracesAreApart, Netdev
<1>12. MintedIsNotHosts' /\ VlanIsOwed'
  <2>1. \A p \in Parents : /\ dev'[Vlan(p)].by = dev[Vlan(p)].by /\ row'[p] = row[p]
                           /\ <<Vlan(p), "vlan">> \in excused
                                => <<Vlan(p), "vlan">> \in excused'
    BY <1>2, <1>6, <1>8, DevLemma
  <2> QED BY <2>1 DEF Inv, MintedIsNotHosts, VlanIsOwed
<1>13. EtfIsOwed'
  BY <1>4, <1>6, <1>7, <1>8 DEF Inv, EtfIsOwed, Suits, OnRecord
<1>14. ThreadTransmits'
  BY <1>4, <1>6, <1>7, <1>8 DEF Inv, ThreadTransmits, Suits, OnRecord
<1>15. ExitIsOrdered'
  BY <1>2 DEF ExitIsOrdered
<1> QED BY <1>10, <1>11, <1>12, <1>13, <1>14, <1>15 DEF Inv

\* reac_sink_node_destroy: the engine and its record go, the qdisc goes or is excused, and
\* nothing else of any netdev changes.
LEMMA DestroyLemma ==
    ASSUME Inv, NEW d \in Devs, SinkNodeDestroy(d)
    PROVE  /\ dev' \in [Devs -> Netdev] /\ eng' \in [Devs -> Engines]
           /\ rec' \in [Devs -> BOOLEAN] /\ fails' \in 0..MaxFails
           /\ excused' \in SUBSET (Devs \X {"vlan", "alias", "etf", "gone"})
           /\ excused \subseteq excused'
           /\ \A e \in Devs : /\ dev'[e].by = dev[e].by /\ dev'[e].alias = dev[e].alias
                              /\ eng'[e] \in {eng[e], "off"}
           /\ EtfIsOwed' /\ ThreadTransmits'
<1>1. /\ dev \in [Devs -> Netdev] /\ eng \in [Devs -> Engines]
      /\ rec \in [Devs -> BOOLEAN] /\ fails \in 0..MaxFails
      /\ excused \in SUBSET (Devs \X {"vlan", "alias", "etf", "gone"})
      /\ EtfIsOwed /\ ThreadTransmits
  BY DEF Inv, TypeOK, Netdev
<1> DEFINE c == Qd(dev[d].etf, rec[d], TRUE)
<1>2. c.etf = dev[d].etf /\ c.rec = rec[d] /\ c.ok = TRUE
  BY DEF Qd
<1>3. PICK q \in Release(c) :
        /\ eng' = [eng EXCEPT ![d] = "off"]
        /\ dev' = [dev EXCEPT ![d].etf = q.etf]
        /\ rec' = [rec EXCEPT ![d] = FALSE]
        /\ excused' = IF q.ok THEN excused ELSE excused \cup {<<d, "etf">>}
        /\ IF q.ok THEN UNCHANGED fails ELSE Fails(1)
  BY DEF SinkNodeDestroy
<1> HIDE DEF c
<1>4. /\ q.ok \in BOOLEAN /\ q.etf \in {dev[d].etf, "none"}
      /\ q.etf # "none" => ~q.ok \/ ~rec[d]
  BY <1>1, <1>2, ReleaseLemma DEF Netdev
<1>5. /\ dev' \in [Devs -> Netdev]
      /\ \A e \in Devs : e # d => dev'[e] = dev[e]
      /\ dev'[d].by = dev[d].by /\ dev'[d].alias = dev[d].alias /\ dev'[d].etf = q.etf
  BY <1>1, <1>3, <1>4 DEF Netdev, Qdiscs
<1>6. /\ eng' \in [Devs -> Engines] /\ rec' \in [Devs -> BOOLEAN]
      /\ eng'[d] = "off" /\ rec'[d] = FALSE
      /\ \A e \in Devs : e # d => eng'[e] = eng[e] /\ rec'[e] = rec[e]
  BY <1>1, <1>3 DEF Engines
<1>7. /\ excused' \in SUBSET (Devs \X {"vlan", "alias", "etf", "gone"}) /\ excused \subseteq excused'
      /\ q.ok \/ <<d, "etf">> \in excused'
  BY <1>1, <1>3
<1>8. fails' \in 0..MaxFails
  BY <1>1, <1>3, FailsLemma
<1>9. EtfIsOwed'
  BY <1>1, <1>4, <1>5, <1>6, <1>7 DEF EtfIsOwed
<1>10. ThreadTransmits'
  BY <1>1, <1>5, <1>6, <1>7 DEF ThreadTransmits
<1> QED BY <1>5, <1>6, <1>7, <1>8, <1>9, <1>10

\* A listener is dropped or closed and the rows stay: hearing_drop and main's last loop.
LEMMA DropStep ==
    ASSUME Inv, NEW d \in Devs, SinkNodeDestroy(d), run # "off",
           UNCHANGED <<link, tags, acts, tap, row, marks, due, run, runs>>
    PROVE  Inv'
<1>1. /\ dev' \in [Devs -> Netdev] /\ eng' \in [Devs -> Engines]
      /\ rec' \in [Devs -> BOOLEAN] /\ fails' \in 0..MaxFails
      /\ excused' \in SUBSET (Devs \X {"vlan", "alias", "etf", "gone"})
      /\ excused \subseteq excused'
      /\ \A e \in Devs : dev'[e].by = dev[e].by /\ dev'[e].alias = dev[e].alias
      /\ EtfIsOwed' /\ ThreadTransmits'
  BY DestroyLemma
<1>2. TypeOK'
  BY <1>1 DEF Inv, TypeOK, Netdev
<1>3. TracesAreApart'
  BY <1>1 DEF Inv, TracesAreApart
<1>4. MintedIsNotHosts' /\ VlanIsOwed'
  BY <1>1, DevLemma DEF Inv, MintedIsNotHosts, VlanIsOwed
<1>5. ExitIsOrdered'
  BY DEF Inv, ExitIsOrdered
<1> QED BY <1>1, <1>2, <1>3, <1>4, <1>5 DEF Inv

\* DROP.
LEMMA ApplyDropStep ==
    ASSUME Inv, NEW p \in Parents, ApplyDrop(p)
    PROVE  Inv'
<1>1. run = "on" /\ UNCHANGED <<link, tags, acts, marks, due, run, runs>>
  BY DEF ApplyDrop
<1>2. /\ dev' \in [Devs -> Netdev] /\ eng' \in [Devs -> Engines]
      /\ rec' \in [Devs -> BOOLEAN] /\ fails' \in 0..MaxFails
      /\ excused' \in SUBSET (Devs \X {"vlan", "alias", "etf", "gone"})
      /\ excused \subseteq excused'
      /\ \A e \in Devs : dev'[e].by = dev[e].by /\ dev'[e].alias = dev[e].alias
      /\ EtfIsOwed' /\ ThreadTransmits'
  BY DestroyLemma, DevLemma DEF ApplyDrop
<1>3. row \in [Parents -> Rows] /\ tap \in [Parents -> Taps]
  BY DEF Inv, TypeOK
<1>4. /\ tap' \in [Parents -> Taps] /\ row' \in [Parents -> Rows]
      /\ \A q \in Parents : /\ row'[q].minted = row[q].minted
                            /\ row[q].vid = "SERVED" \/ row[q].release
                                 => row'[q].vid = "SERVED" \/ row'[q].release
  <2>1. NoTap \in Taps
    BY BoundsLemma DEF NoTap, Taps
  <2> QED BY <1>3, <2>1, UnwatchedLemma DEF ApplyDrop, TopoForget
<1>5. TypeOK'
  BY <1>1, <1>2, <1>4 DEF Inv, TypeOK, Netdev
<1>6. TracesAreApart'
  BY <1>2 DEF Inv, TracesAreApart
<1>7. MintedIsNotHosts' /\ VlanIsOwed'
  <2>1. MintedIsNotHosts /\ VlanIsOwed
    BY DEF Inv
  <2>2. \A q \in Parents : dev'[Vlan(q)].by = dev[Vlan(q)].by
    BY <1>2, DevLemma
  <2> QED BY <1>2, <1>4, <2>1, <2>2 DEF MintedIsNotHosts, VlanIsOwed
<1>8. ExitIsOrdered'
  BY <1>1 DEF ExitIsOrdered
<1> QED BY <1>2, <1>5, <1>6, <1>7, <1>8 DEF Inv

-----------------------------------------------------------------------------
(* topo_apply.                                                             *)

\* topo_release: nothing is asked of it; or the VLAN goes, if the row says that it was
\* minted; and one that stays was not minted, was not there, or could not be deleted.
LEMMA TopoReleaseLemma ==
    ASSUME NEW v \in Netdev, NEW r \in Rows, NEW a \in TopoRelease(v, r)
    PROVE  /\ a.v \in Netdev /\ a.r \in Rows /\ a.ok \in BOOLEAN
           /\ a.r.ensure = r.ensure
           /\ \/ ~r.release /\ a.v = v /\ a.r = r /\ a.ok
              \/ /\ r.release /\ ~a.r.minted /\ ~a.r.release
                 /\ \/ a.v = Absent /\ r.minted
                    \/ a.v = v /\ (~r.minted \/ v.by = "none" \/ ~a.ok)
<1> DEFINE gone == [r EXCEPT !.release = FALSE, !.minted = FALSE]
<1>1. gone \in Rows /\ gone.ensure = r.ensure /\ gone.minted = FALSE /\ gone.release = FALSE
  BY DEF Rows
<1>2. Absent \in Netdev
  BY DEF Absent, Netdev, Makers, Aliases, Qdiscs
<1>3. \/ ~r.release /\ a = Vl(v, r, TRUE)
      \/ r.release /\ (~r.minted \/ v.by = "none") /\ a = Vl(v, gone, TRUE)
      \/ r.release /\ r.minted /\ (a = Vl(Absent, gone, TRUE) \/ a = Vl(v, gone, FALSE))
  BY DEF TopoRelease, Rows
<1> HIDE DEF gone
<1>4. CASE ~r.release /\ a = Vl(v, r, TRUE)
  BY <1>4 DEF Vl
<1>5. CASE r.release /\ (~r.minted \/ v.by = "none") /\ a = Vl(v, gone, TRUE)
  <2>1. a.v = v /\ a.r = gone /\ a.ok = TRUE
    BY <1>5 DEF Vl
  <2> QED BY <2>1, <1>1, <1>5
<1>6. CASE r.release /\ r.minted /\ a = Vl(Absent, gone, TRUE)
  <2>1. a.v = Absent /\ a.r = gone /\ a.ok = TRUE
    BY <1>6 DEF Vl
  <2> QED BY <2>1, <1>1, <1>2, <1>6
<1>7. CASE r.release /\ r.minted /\ a = Vl(v, gone, FALSE)
  <2>1. a.v = v /\ a.r = gone /\ a.ok = FALSE
    BY <1>7 DEF Vl
  <2> QED BY <2>1, <1>1, <1>7
<1> QED BY <1>3, <1>4, <1>5, <1>6, <1>7

\* topo_ensure: nothing is asked of it; or the VLAN that is there is served, and minted if it
\* is ours; or one is made and is ours; or it could not be made, and the row says so.
LEMMA TopoEnsureLemma ==
    ASSUME NEW v \in Netdev, NEW r \in Rows, NEW b \in TopoEnsure(v, r)
    PROVE  /\ b.v \in Netdev /\ b.r \in Rows /\ b.ok \in BOOLEAN
           /\ \/ ~r.ensure /\ b.v = v /\ b.r = r /\ b.ok
              \/ /\ r.ensure /\ v.by # "none" /\ b.v = v /\ b.ok
                 /\ b.r.vid = "SERVED" /\ b.r.minted = (v.by = "us")
              \/ /\ r.ensure /\ v.by = "none" /\ b.ok
                 /\ b.v.by = "us" /\ b.v.alias = "none" /\ b.v.etf = "none"
                 /\ b.r.vid = "SERVED" /\ b.r.minted
              \/ r.ensure /\ v.by = "none" /\ b.v = v /\ ~b.ok
<1> DEFINE served(x) == [r EXCEPT !.ensure = FALSE, !.vid = "SERVED", !.minted = x]
           ours      == [Absent EXCEPT !.by = "us"]
           still     == [r EXCEPT !.ensure = FALSE]
<1>1. ASSUME NEW x \in BOOLEAN
      PROVE  served(x) \in Rows /\ served(x).vid = "SERVED" /\ served(x).minted = x
  BY DEF Rows
<1>2. ours \in Netdev /\ ours.by = "us" /\ ours.alias = "none" /\ ours.etf = "none"
  BY DEF Absent, Netdev, Makers, Aliases, Qdiscs
<1>3. still \in Rows
  BY DEF Rows
<1>4. \/ ~r.ensure /\ b = Vl(v, r, TRUE)
      \/ r.ensure /\ v.by # "none" /\ b = Vl(v, served(v.by = "us"), TRUE)
      \/ r.ensure /\ v.by = "none" /\ (b = Vl(ours, served(TRUE), TRUE) \/ b = Vl(v, still, FALSE))
  BY DEF TopoEnsure, Rows
<1> HIDE DEF served, ours, still
<1>5. CASE ~r.ensure /\ b = Vl(v, r, TRUE)
  BY <1>5 DEF Vl
<1>6. CASE r.ensure /\ v.by # "none" /\ b = Vl(v, served(v.by = "us"), TRUE)
  <2>1. b.v = v /\ b.r = served(v.by = "us") /\ b.ok = TRUE
    BY <1>6 DEF Vl
  <2>2. (v.by = "us") \in BOOLEAN
    OBVIOUS
  <2>3. b.r \in Rows /\ b.r.vid = "SERVED" /\ b.r.minted = (v.by = "us")
    BY <2>1, <2>2, <1>1
  <2> QED BY <2>1, <2>3, <1>6
<1>7. CASE r.ensure /\ v.by = "none" /\ b = Vl(ours, served(TRUE), TRUE)
  <2>1. b.v = ours /\ b.r = served(TRUE) /\ b.ok = TRUE
    BY <1>7 DEF Vl
  <2>2. b.r \in Rows /\ b.r.vid = "SERVED" /\ b.r.minted = TRUE
    BY <2>1, <1>1
  <2> QED BY <2>1, <2>2, <1>2, <1>7
<1>8. CASE r.ensure /\ v.by = "none" /\ b = Vl(v, still, FALSE)
  <2>1. b.v = v /\ b.r = still /\ b.ok = FALSE
    BY <1>8 DEF Vl
  <2> QED BY <2>1, <1>3, <1>8
<1> QED BY <1>4, <1>5, <1>6, <1>7, <1>8

\* What one pass over a parent does to its card, its VLAN and its row.
TopoApplied(p, q, a, b) ==
    /\ a \in TopoRelease(dev[Vlan(p)], row[p]) /\ b \in TopoEnsure(a.v, a.r)
    /\ \/ q.rec = rec[Nic(p)] /\ q.etf = dev[Nic(p)].etf /\ q.ok = TRUE /\ eng' = eng
       \/ q \in Release(Qd(dev[Nic(p)].etf, rec[Nic(p)], TRUE))
          /\ eng' = [eng EXCEPT ![Nic(p)] = "off"]
    /\ rec' = [rec EXCEPT ![Nic(p)] = q.rec]
    /\ dev' = [dev EXCEPT ![Nic(p)].etf = q.etf, ![Vlan(p)] = b.v]
    /\ row' = [row EXCEPT ![p] = b.r]
    /\ excused' = ((excused \cup (IF q.ok THEN {} ELSE {<<Nic(p), "etf">>}))
                     \cup (IF a.ok THEN {} ELSE {<<Vlan(p), "vlan">>}))
                    \ (IF a.r.ensure /\ b.ok THEN {Vlan(p)} \X {"vlan", "gone"} ELSE {})
    /\ Fails(Failed(q.ok) + Failed(a.ok) + (IF There(Nic(p)) THEN Failed(b.ok) ELSE 0))

\* topo_apply takes a pass of that kind.
LEMMA TopoApplyLemma ==
    ASSUME NEW p \in Parents, TopoApply(p)
    PROVE  \E q, a, b : TopoApplied(p, q, a, b)
<1> DEFINE now == Qd(dev[Nic(p)].etf, rec[Nic(p)], TRUE)
           drop == Tapped(p) /\ Trunk(p) /\ eng[Nic(p)] # "off"
           pass(q, a, b) ==
             /\ eng' = IF drop THEN [eng EXCEPT ![Nic(p)] = "off"] ELSE eng
             /\ rec' = [rec EXCEPT ![Nic(p)] = q.rec]
             /\ dev' = [dev EXCEPT ![Nic(p)].etf = q.etf, ![Vlan(p)] = b.v]
             /\ row' = [row EXCEPT ![p] = b.r]
             /\ excused' = ((excused \cup (IF q.ok THEN {} ELSE {<<Nic(p), "etf">>}))
                              \cup (IF a.ok THEN {} ELSE {<<Vlan(p), "vlan">>}))
                             \ (IF a.r.ensure /\ b.ok THEN {Vlan(p)} \X {"vlan", "gone"} ELSE {})
             /\ Fails(Failed(q.ok) + Failed(a.ok)
                        + (IF There(Nic(p)) THEN Failed(b.ok) ELSE 0))
<1>1. now.etf = dev[Nic(p)].etf /\ now.rec = rec[Nic(p)] /\ now.ok = TRUE
  BY DEF Qd
<1>2. \E q \in (IF drop THEN Release(now) ELSE {now}) :
      \E a \in TopoRelease(dev[Vlan(p)], row[p]) :
      \E b \in TopoEnsure(a.v, a.r) : pass(q, a, b)
  BY DEF TopoApply
<1>3. PICK q, a, b : /\ q \in (IF drop THEN Release(now) ELSE {now})
                     /\ a \in TopoRelease(dev[Vlan(p)], row[p])
                     /\ b \in TopoEnsure(a.v, a.r)
                     /\ pass(q, a, b)
  <2> HIDE DEF pass, now, drop
  <2> QED BY <1>2
<1>4. \/ q.rec = rec[Nic(p)] /\ q.etf = dev[Nic(p)].etf /\ q.ok = TRUE /\ eng' = eng
      \/ q \in Release(now) /\ eng' = [eng EXCEPT ![Nic(p)] = "off"]
  BY <1>1, <1>3
<1>5. TopoApplied(p, q, a, b)
  BY <1>3, <1>4 DEF TopoApplied
<1> QED BY <1>5

\* topo_apply keeps the invariant: the card's listener goes like any other, and the VLAN is
\* deleted, found, made or missed with its row telling which.
LEMMA TopoApplyStep ==
    ASSUME Inv, NEW p \in Parents, TopoApply(p)
    PROVE  Inv'
<1> DEFINE n == Nic(p)
           v == Vlan(p)
<1>1. /\ dev \in [Devs -> Netdev] /\ eng \in [Devs -> Engines] /\ row \in [Parents -> Rows]
      /\ rec \in [Devs -> BOOLEAN] /\ fails \in 0..MaxFails /\ due \in SUBSET Parents
      /\ excused \in SUBSET (Devs \X {"vlan", "alias", "etf", "gone"})
  BY DEF Inv, TypeOK, Netdev
<1>2. /\ run = "on" /\ due' \in SUBSET Parents
      /\ UNCHANGED <<link, tags, acts, tap, marks, run, runs>>
  BY <1>1 DEF TopoApply
<1>3. PICK q, a, b : TopoApplied(p, q, a, b)
  BY TopoApplyLemma
<1>4. /\ n \in Devs /\ v \in Devs /\ n # v /\ n[2] = "nic" /\ v[2] = "vlan"
      /\ \A x \in Parents : x # p => Vlan(x) # v
      /\ \A x \in Parents : Vlan(x) \in Devs /\ Vlan(x) # n
  <2>1. \A x \in Parents : Vlan(x) = v => x = p
    BY DEF Vlan
  <2>2. \A x \in Parents : Vlan(x) # n
    BY DEF Vlan, Nic
  <2> QED BY <2>1, <2>2, DevLemma
<1> HIDE DEF n, v
<1>5. /\ a.v \in Netdev /\ a.r \in Rows /\ a.ok \in BOOLEAN
      /\ a.r.ensure = row[p].ensure
      /\ \/ ~row[p].release /\ a.v = dev[v] /\ a.r = row[p] /\ a.ok
         \/ /\ row[p].release /\ ~a.r.minted /\ ~a.r.release
            /\ \/ a.v = Absent /\ row[p].minted
               \/ a.v = dev[v] /\ (~row[p].minted \/ dev[v].by = "none" \/ ~a.ok)
  <2>1. dev[v] \in Netdev /\ row[p] \in Rows /\ a \in TopoRelease(dev[v], row[p])
    BY <1>1, <1>3, <1>4 DEF TopoApplied, v
  <2> QED BY <2>1, TopoReleaseLemma
<1>6. /\ b.v \in Netdev /\ b.r \in Rows /\ b.ok \in BOOLEAN
      /\ \/ ~a.r.ensure /\ b.v = a.v /\ b.r = a.r /\ b.ok
         \/ /\ a.r.ensure /\ a.v.by # "none" /\ b.v = a.v /\ b.ok
            /\ b.r.vid = "SERVED" /\ b.r.minted = (a.v.by = "us")
         \/ /\ a.r.ensure /\ a.v.by = "none" /\ b.ok
            /\ b.v.by = "us" /\ b.v.alias = "none" /\ b.v.etf = "none"
            /\ b.r.vid = "SERVED" /\ b.r.minted
         \/ a.r.ensure /\ a.v.by = "none" /\ b.v = a.v /\ ~b.ok
  <2>1. b \in TopoEnsure(a.v, a.r)
    BY <1>3 DEF TopoApplied
  <2> QED BY <2>1, <1>5, TopoEnsureLemma
<1>7. Absent.by = "none" /\ Absent.alias = "none" /\ Absent.etf = "none"
  BY DEF Absent
<1>8. /\ q.rec \in BOOLEAN /\ q.ok \in BOOLEAN /\ q.etf \in {dev[n].etf, "none"}
      /\ \/ q.rec = rec[n] /\ q.etf = dev[n].etf /\ eng' = eng
         \/ /\ q.rec = FALSE /\ (q.etf # "none" => ~q.ok \/ ~rec[n])
            /\ eng' = [eng EXCEPT ![n] = "off"]
  <2> DEFINE now == Qd(dev[n].etf, rec[n], TRUE)
  <2>1. now.etf = dev[n].etf /\ now.rec = rec[n] /\ now.ok = TRUE
    BY DEF Qd
  <2>2. \/ q.rec = rec[n] /\ q.etf = dev[n].etf /\ q.ok = TRUE /\ eng' = eng
        \/ q \in Release(now) /\ eng' = [eng EXCEPT ![n] = "off"]
    BY <1>3 DEF TopoApplied, n
  <2>3. dev[n].etf \in Qdiscs /\ rec[n] \in BOOLEAN
    BY <1>1, <1>4 DEF Netdev
  <2> HIDE DEF now
  <2>4. CASE q.rec = rec[n] /\ q.etf = dev[n].etf /\ q.ok = TRUE /\ eng' = eng
    BY <2>3, <2>4
  <2>5. CASE q \in Release(now) /\ eng' = [eng EXCEPT ![n] = "off"]
    BY <2>1, <2>3, <2>5, ReleaseLemma
  <2> QED BY <2>2, <2>4, <2>5
<1>9. /\ dev' \in [Devs -> Netdev]
      /\ dev'[v] = b.v
      /\ dev'[n].by = dev[n].by /\ dev'[n].alias = dev[n].alias /\ dev'[n].etf = q.etf
      /\ \A e \in Devs : e # n /\ e # v => dev'[e] = dev[e]
  <2>1. dev' = [dev EXCEPT ![n].etf = q.etf, ![v] = b.v]
    BY <1>3 DEF TopoApplied, n, v
  <2> QED BY <1>1, <1>4, <1>6, <1>8, <2>1 DEF Netdev, Qdiscs
<1>10. /\ rec' \in [Devs -> BOOLEAN] /\ eng' \in [Devs -> Engines]
       /\ rec'[n] = q.rec
       /\ \A e \in Devs : e # n => rec'[e] = rec[e] /\ eng'[e] = eng[e]
  <2>1. rec' = [rec EXCEPT ![n] = q.rec]
    BY <1>3 DEF TopoApplied, n
  <2> QED BY <1>1, <1>4, <1>8, <2>1 DEF Engines
<1>11. /\ row' \in [Parents -> Rows] /\ row'[p] = b.r
       /\ \A x \in Parents : x # p => row'[x] = row[x]
  BY <1>1, <1>3, <1>6 DEF TopoApplied
<1>12. /\ excused' \in SUBSET (Devs \X {"vlan", "alias", "etf", "gone"})
       /\ q.ok \/ <<n, "etf">> \in excused'
       /\ \A e \in Devs : <<e, "etf">> \in excused => <<e, "etf">> \in excused'
       /\ \A e \in Devs : e # v /\ <<e, "vlan">> \in excused => <<e, "vlan">> \in excused'
       /\ (<<v, "vlan">> \in excused \/ ~a.ok) /\ ~(a.r.ensure /\ b.ok)
            => <<v, "vlan">> \in excused'
  <2>1. excused' = ((excused \cup (IF q.ok THEN {} ELSE {<<n, "etf">>}))
                      \cup (IF a.ok THEN {} ELSE {<<v, "vlan">>}))
                     \ (IF a.r.ensure /\ b.ok THEN {v} \X {"vlan", "gone"} ELSE {})
    BY <1>3 DEF TopoApplied, n, v
  <2> QED BY <1>1, <1>4, <2>1
<1>13. fails' \in 0..MaxFails
  <2>1. Failed(q.ok) + Failed(a.ok) + (IF There(Nic(p)) THEN Failed(b.ok) ELSE 0) \in Nat
    BY DEF Failed
  <2> QED BY <1>1, <1>3, <2>1, FailsLemma DEF TopoApplied
<1>14. TypeOK'
  BY <1>2, <1>9, <1>10, <1>11, <1>12, <1>13 DEF Inv, TypeOK, Netdev
<1>15. TracesAreApart'
  <2>1. TracesAreApart
    BY DEF Inv
  <2> QED BY <1>4, <1>5, <1>6, <1>7, <1>9, <2>1 DEF TracesAreApart
<1>16. MintedIsNotHosts'
  <2>1. MintedIsNotHosts
    BY DEF Inv
  <2>2. row'[p].minted => dev'[v].by # "host"
    BY <1>5, <1>6, <1>7, <1>9, <1>11, <2>1 DEF MintedIsNotHosts, v
  <2>3. ASSUME NEW x \in Parents, x # p PROVE row'[x].minted => dev'[Vlan(x)].by # "host"
    BY <1>4, <1>9, <1>11, <2>1, <2>3 DEF MintedIsNotHosts
  <2> QED BY <2>2, <2>3 DEF MintedIsNotHosts, v
<1>17. VlanIsOwed'
  <2>1. VlanIsOwed
    BY DEF Inv
  <2>2. dev'[v].by = "us" => \/ row'[p].minted /\ (row'[p].vid = "SERVED" \/ row'[p].release)
                             \/ <<v, "vlan">> \in excused'
    BY <1>5, <1>6, <1>7, <1>9, <1>11, <1>12, <2>1 DEF VlanIsOwed, v
  <2>3. ASSUME NEW x \in Parents, x # p
        PROVE  dev'[Vlan(x)].by = "us" =>
                 \/ row'[x].minted /\ (row'[x].vid = "SERVED" \/ row'[x].release)
                 \/ <<Vlan(x), "vlan">> \in excused'
    BY <1>4, <1>9, <1>11, <1>12, <2>1, <2>3 DEF VlanIsOwed
  <2> QED BY <2>2, <2>3 DEF VlanIsOwed, v
<1>18. EtfIsOwed'
  <2>1. EtfIsOwed
    BY DEF Inv
  <2>2. (dev'[v].etf = "us" => rec'[v] \/ <<v, "etf">> \in excused') /\ (rec'[v] => eng'[v] # "off")
    BY <1>4, <1>5, <1>6, <1>7, <1>9, <1>10, <1>12, <2>1 DEF EtfIsOwed
  <2>3. (dev'[n].etf = "us" => rec'[n] \/ <<n, "etf">> \in excused') /\ (rec'[n] => eng'[n] # "off")
    BY <1>1, <1>4, <1>8, <1>9, <1>10, <1>12, <2>1 DEF EtfIsOwed
  <2> QED BY <1>9, <1>10, <1>12, <2>1, <2>2, <2>3 DEF EtfIsOwed
<1>19. ThreadTransmits'
  <2>1. ThreadTransmits
    BY DEF Inv
  <2>2. eng'[v] \in {"thread", "carrier"} /\ dev'[v].etf # "none" => <<v, "etf">> \in excused'
    BY <1>4, <1>5, <1>6, <1>7, <1>9, <1>10, <1>12, <2>1 DEF ThreadTransmits
  <2>3. eng'[n] \in {"thread", "carrier"} /\ dev'[n].etf # "none" => <<n, "etf">> \in excused'
    BY <1>1, <1>4, <1>8, <1>9, <1>12, <2>1 DEF ThreadTransmits
  <2> QED BY <1>9, <1>10, <1>12, <2>1, <2>2, <2>3 DEF ThreadTransmits
<1>20. ExitIsOrdered'
  BY <1>2 DEF ExitIsOrdered
<1> QED BY <1>14, <1>15, <1>16, <1>17, <1>18, <1>19, <1>20 DEF Inv

-----------------------------------------------------------------------------
(* The start, the exit and the crash.                                      *)

\* The steps of the process that touch no trace: its start, the end of its main loop and
\* the end of its exit.
LEMMA RunStep ==
    ASSUME Inv, Start \/ Quit \/ Exit
    PROVE  Inv'
<1>1. /\ UNCHANGED <<dev, link, tags, acts, tap, row, marks, eng, rec, due, fails, excused>>
      /\ run' \in Runs /\ runs' \in 0..MaxRuns
  BY BoundsLemma DEF Inv, TypeOK, Start, Quit, Exit, host, daemon, Runs
<1>2. TypeOK'
  BY <1>1 DEF Inv, TypeOK
<1>3. TracesAreApart' /\ MintedIsNotHosts' /\ VlanIsOwed' /\ EtfIsOwed' /\ ThreadTransmits'
  BY <1>1 DEF Inv, TracesAreApart, MintedIsNotHosts, VlanIsOwed, EtfIsOwed, ThreadTransmits
<1>4. ExitIsOrdered'
  BY <1>1 DEF Inv, ExitIsOrdered, Start, Quit, Exit
<1> QED BY <1>2, <1>3, <1>4 DEF Inv

\* reac_served_unmark_all.
LEMMA UnmarkAllStep ==
    ASSUME Inv, UnmarkAll
    PROVE  Inv'
<1>1. /\ dev \in [Devs -> Netdev] /\ marks \in SUBSET Devs /\ fails \in 0..MaxFails
      /\ excused \in SUBSET (Devs \X {"vlan", "alias", "etf", "gone"})
  BY DEF Inv, TypeOK, Netdev
<1>2. /\ run = "unmark" /\ run' = "release" /\ marks' = {}
      /\ UNCHANGED <<link, tags, acts, tap, row, eng, rec, due, runs>>
  BY DEF UnmarkAll
<1>3. PICK bad \in SUBSET marks :
         /\ dev' = [d \in Devs |-> IF d \in marks \ bad /\ dev[d].alias = "served"
                                   THEN [dev[d] EXCEPT !.alias = "none"] ELSE dev[d]]
         /\ excused' = excused \cup {<<d, "alias">> : d \in bad}
         /\ Fails(Cardinality(bad))
  BY DEF UnmarkAll
<1>4. /\ dev' \in [Devs -> Netdev]
      /\ \A d \in Devs : /\ dev'[d].by = dev[d].by /\ dev'[d].etf = dev[d].etf
                         /\ dev'[d].alias \in {dev[d].alias, "none"}
  BY <1>1, <1>3 DEF Netdev, Aliases
<1>5. excused' \in SUBSET (Devs \X {"vlan", "alias", "etf", "gone"}) /\ excused \subseteq excused'
  BY <1>1, <1>3
<1>6. fails' \in 0..MaxFails
  <2>1. IsFiniteSet(bad)
    BY <1>1, DevsFinite, FS_Subset
  <2>2. Cardinality(bad) \in Nat
    BY <2>1, FS_CardinalityType
  <2> QED BY <1>1, <1>3, <2>2, FailsLemma
<1>7. TypeOK'
  BY <1>2, <1>4, <1>5, <1>6 DEF Inv, TypeOK, Netdev, Runs
<1>8. TracesAreApart'
  BY <1>4 DEF Inv, TracesAreApart
<1>9. MintedIsNotHosts' /\ VlanIsOwed'
  BY <1>2, <1>4, <1>5, DevLemma DEF Inv, MintedIsNotHosts, VlanIsOwed
<1>10. EtfIsOwed' /\ ThreadTransmits'
  BY <1>2, <1>4, <1>5 DEF Inv, EtfIsOwed, ThreadTransmits
<1>11. ExitIsOrdered'
  BY <1>2 DEF ExitIsOrdered
<1> QED BY <1>7, <1>8, <1>9, <1>10, <1>11 DEF Inv

\* What the rows say is ours to delete: minted, there, and served or to be released.
Mine == {p \in Parents : /\ row[p].minted /\ There(Vlan(p))
                         /\ row[p].release \/ row[p].vid = "SERVED"}

\* reac_topo_release_all.
LEMMA ReleaseAllStep ==
    ASSUME Inv, ReleaseAll
    PROVE  Inv'
<1>1. /\ dev \in [Devs -> Netdev] /\ fails \in 0..MaxFails
      /\ excused \in SUBSET (Devs \X {"vlan", "alias", "etf", "gone"})
  BY DEF Inv, TypeOK, Netdev
<1>2. /\ run = "release" /\ run' = "close"
      /\ row' = [p \in Parents |-> NoRow] /\ tap' = [p \in Parents |-> NoTap]
      /\ UNCHANGED <<link, tags, acts, marks, eng, rec, due, runs>>
  BY DEF ReleaseAll
<1>3. PICK bad \in SUBSET Mine :
        /\ dev' = [d \in Devs |-> IF d[2] = "vlan" /\ d[1] \in Mine \ bad
                                  THEN Absent ELSE dev[d]]
        /\ excused' = excused \cup {<<Vlan(p), "vlan">> : p \in bad}
        /\ Fails(Cardinality(bad))
  BY DEF ReleaseAll, Mine
<1>4. Absent \in Netdev /\ Absent.by = "none" /\ Absent.alias = "none" /\ Absent.etf = "none"
  BY DEF Absent, Netdev, Makers, Aliases, Qdiscs
<1>5. /\ dev' \in [Devs -> Netdev]
      /\ \A d \in Devs : dev'[d] = dev[d] \/ dev'[d] = Absent
      /\ \A p \in Mine \ bad : dev'[Vlan(p)] = Absent
  BY <1>1, <1>3, <1>4, DevLemma DEF Mine
<1>6. /\ excused' \in SUBSET (Devs \X {"vlan", "alias", "etf", "gone"}) /\ excused \subseteq excused'
      /\ \A p \in bad : <<Vlan(p), "vlan">> \in excused'
  BY <1>1, <1>3, DevLemma DEF Mine
<1>7. fails' \in 0..MaxFails
  <2>1. IsFiniteSet(bad)
    BY TracesAssumption, FS_Subset DEF Mine
  <2>2. Cardinality(bad) \in Nat
    BY <2>1, FS_CardinalityType
  <2> QED BY <1>1, <1>3, <2>2, FailsLemma
<1>8. row' \in [Parents -> Rows] /\ tap' \in [Parents -> Taps]
  BY <1>2, BoundsLemma DEF NoRow, NoTap, Rows, Taps
<1>9. TypeOK'
  BY <1>2, <1>5, <1>6, <1>7, <1>8 DEF Inv, TypeOK, Netdev, Runs
<1>10. TracesAreApart'
  BY <1>4, <1>5 DEF Inv, TracesAreApart
<1>11. MintedIsNotHosts'
  <2>1. NoRow.minted = FALSE
    BY DEF NoRow
  <2> QED BY <1>2, <2>1 DEF MintedIsNotHosts
<1>12. VlanIsOwed'
  <2> SUFFICES ASSUME NEW p \in Parents, dev'[Vlan(p)].by = "us"
               PROVE  <<Vlan(p), "vlan">> \in excused'
    BY DEF VlanIsOwed
  <2>1. dev[Vlan(p)].by = "us" /\ p \notin Mine \ bad
    BY <1>4, <1>5, DevLemma
  <2>2. p \in Mine \/ <<Vlan(p), "vlan">> \in excused
    BY <2>1 DEF Inv, VlanIsOwed, Mine, There
  <2> QED BY <2>1, <2>2, <1>6
<1>13. EtfIsOwed' /\ ThreadTransmits'
  BY <1>2, <1>4, <1>5, <1>6 DEF Inv, EtfIsOwed, ThreadTransmits
<1>14. ExitIsOrdered'
  BY <1>2 DEF Inv, ExitIsOrdered
<1> QED BY <1>9, <1>10, <1>11, <1>12, <1>13, <1>14 DEF Inv

\* The process dies.
LEMMA CrashStep ==
    ASSUME Inv, Crash
    PROVE  Inv'
<1>1. /\ run' = "off" /\ marks' = {} /\ due' = {}
      /\ row' = [p \in Parents |-> NoRow] /\ tap' = [p \in Parents |-> NoTap]
      /\ eng' = [d \in Devs |-> "off"] /\ rec' = [d \in Devs |-> FALSE]
      /\ excused' = excused \cup Left
      /\ UNCHANGED <<dev, link, tags, acts, runs, fails>>
  BY DEF Crash, host
<1>2. /\ Left \in SUBSET (Devs \X {"vlan", "alias", "etf", "gone"})
      /\ \A d \in Devs : /\ d[2] = "vlan" /\ dev[d].by = "us" => <<d, "vlan">> \in Left
                         /\ dev[d].etf = "us" => <<d, "etf">> \in Left
  BY DEF Left
<1>3. TypeOK'
  <2>1. row' \in [Parents -> Rows] /\ tap' \in [Parents -> Taps]
    BY <1>1, BoundsLemma DEF NoRow, NoTap, Rows, Taps
  <2>2. eng' \in [Devs -> Engines] /\ rec' \in [Devs -> BOOLEAN]
    BY <1>1 DEF Engines
  <2> QED BY <1>1, <1>2, <2>1, <2>2 DEF Inv, TypeOK, Runs
<1>4. TracesAreApart'
  BY <1>1 DEF Inv, TracesAreApart
<1>5. MintedIsNotHosts'
  <2>1. NoRow.minted = FALSE
    BY DEF NoRow
  <2> QED BY <1>1, <2>1 DEF MintedIsNotHosts
<1>6. VlanIsOwed'
  BY <1>1, <1>2, DevLemma DEF VlanIsOwed
<1>7. EtfIsOwed' /\ ThreadTransmits'
  BY <1>1, <1>2 DEF EtfIsOwed, ThreadTransmits
<1>8. ExitIsOrdered'
  BY <1>1 DEF ExitIsOrdered
<1> QED BY <1>3, <1>4, <1>5, <1>6, <1>7, <1>8 DEF Inv

\* The host before the first start.
LEMMA InitInv == Init => Inv
<1> SUFFICES ASSUME Init PROVE Inv
  OBVIOUS
<1>1. /\ dev \in [Devs -> Netdev]
      /\ \A d \in Devs : /\ dev[d].by \in {"none", "host"}
                         /\ dev[d].alias = "none" /\ dev[d].etf = "none"
  <2>1. dev \in [Devs -> {[Absent EXCEPT !.by = b] : b \in {"none", "host"}}]
    BY DEF Init
  <2>2. ASSUME NEW b \in {"none", "host"}
        PROVE  /\ [Absent EXCEPT !.by = b] \in Netdev
               /\ [Absent EXCEPT !.by = b].by = b
               /\ [Absent EXCEPT !.by = b].alias = "none"
               /\ [Absent EXCEPT !.by = b].etf = "none"
    BY DEF Absent, Netdev, Makers, Aliases, Qdiscs
  <2>3. \A d \in Devs : \E b \in {"none", "host"} : dev[d] = [Absent EXCEPT !.by = b]
    BY <2>1
  <2>4. \A d \in Devs : /\ dev[d] \in Netdev /\ dev[d].by \in {"none", "host"}
                        /\ dev[d].alias = "none" /\ dev[d].etf = "none"
    BY <2>2, <2>3
  <2> QED BY <2>1, <2>4
<1>2. TypeOK
  <2>1. row \in [Parents -> Rows] /\ tap \in [Parents -> Taps]
    BY BoundsLemma DEF Init, Idle, NoRow, NoTap, Rows, Taps
  <2>2. eng \in [Devs -> Engines] /\ rec \in [Devs -> BOOLEAN]
    BY DEF Init, Idle, Engines
  <2>3. link \in [Parents -> {"up", "down", "gone"}] /\ run \in Runs
    BY DEF Init, Runs
  <2> QED BY <1>1, <2>1, <2>2, <2>3, BoundsLemma DEF Init, Idle, TypeOK, Netdev
<1>3. TracesAreApart /\ ThreadTransmits /\ VlanIsOwed
  BY <1>1, DevLemma DEF TracesAreApart, ThreadTransmits, VlanIsOwed
<1>4. MintedIsNotHosts
  <2>1. NoRow.minted = FALSE
    BY DEF NoRow
  <2> QED BY <2>1 DEF Init, Idle, MintedIsNotHosts
<1>5. EtfIsOwed
  BY <1>1 DEF Init, Idle, EtfIsOwed
<1>6. ExitIsOrdered
  BY DEF Init, Idle, ExitIsOrdered
<1> QED BY <1>2, <1>3, <1>4, <1>5, <1>6 DEF Inv

\* Every step keeps the invariant.
LEMMA NextInv == Inv /\ [Next]_vars => Inv'
<1> SUFFICES ASSUME Inv, [Next]_vars PROVE Inv'
  OBVIOUS
<1>1. CASE \E d \in Devs : HostTouches(d)
  BY <1>1, HostTouchesStep
<1>16. CASE \E p \in Parents : HostDeletes(p)
  BY <1>16, HostDeletesStep
<1>2. CASE \E p \in Parents : Cable(p)
  BY <1>2, CableStep
<1>3. CASE \E p \in Parents : TopoWatchIface(p)
  BY <1>3, TopoWatchIfaceStep
<1>4. CASE \E p \in Parents : TopoUnwatchIface(p)
  BY <1>4, TopoUnwatchIfaceStep
<1>5. CASE Tick
  BY <1>5, TickStep
<1>6. CASE \E d \in Devs, w \in {"thread", "etf", "carrier"} : HearingServe(d, w)
  BY <1>6, HearingServeStep
<1>7. CASE \E d \in Devs : HearingDrop(d)
  BY <1>7, DropStep DEF HearingDrop
<1>8. CASE \E p \in Parents : ApplyDrop(p)
  BY <1>8, ApplyDropStep
<1>9. CASE \E p \in Parents : TopoApply(p)
  BY <1>9, TopoApplyStep
<1>10. CASE Start \/ Quit \/ Exit
  BY <1>10, RunStep
<1>11. CASE UnmarkAll
  BY <1>11, UnmarkAllStep
<1>12. CASE ReleaseAll
  BY <1>12, ReleaseAllStep
<1>13. CASE \E d \in Devs : CloseListener(d)
  BY <1>13, DropStep DEF CloseListener
<1>14. CASE Crash
  BY <1>14, CrashStep
<1>15. CASE UNCHANGED vars
  BY <1>15 DEF vars, host, daemon, Inv, TypeOK, TracesAreApart, MintedIsNotHosts, VlanIsOwed,
               EtfIsOwed, ExitIsOrdered, ThreadTransmits
<1> QED BY <1>1, <1>2, <1>3, <1>4, <1>5, <1>6, <1>7, <1>8, <1>9, <1>10, <1>11, <1>12, <1>13,
           <1>14, <1>15, <1>16 DEF Next

\* The invariant holds throughout.
LEMMA Invariance == Spec => []Inv
BY InitInv, NextInv, PTL DEF Spec

-----------------------------------------------------------------------------
(* The marks.  Their table holds MaxMarks names; a card served beyond that *)
(* is marked and not remembered, so what follows supposes that the cards   *)
(* of the host fit into it.                                                *)

\* A card that is marked is remembered when there is room for every card.
LEMMA RememberLemma ==
    ASSUME Cardinality(Parents) <= MaxMarks, TypeOK, \A e \in marks : e[2] = "nic",
           NEW d \in Devs, d[2] = "nic"
    PROVE  Remember(d) = marks \cup {d}
<1> DEFINE nics == {Nic(p) : p \in Parents}
<1>1. IsFiniteSet(nics) /\ Cardinality(nics) <= Cardinality(Parents)
  <2> DEFINE f == [p \in Parents |-> Nic(p)]
  <2>1. f \in Surjection(Parents, nics)
    BY DEF Surjection
  <2> HIDE DEF f, nics
  <2> QED BY <2>1, TracesAssumption, FS_Surjection
<1>2. marks \subseteq nics /\ d \in nics
  <2>1. \A e \in Devs : e[2] = "nic" => e \in nics
    BY DevLemma
  <2> QED BY <2>1 DEF TypeOK
<1> HIDE DEF nics
<1>3. ASSUME d \notin marks PROVE Cardinality(marks) < MaxMarks
  <2>1. marks \subseteq nics /\ marks # nics
    BY <1>2, <1>3
  <2>2. /\ IsFiniteSet(marks) /\ Cardinality(marks) <= Cardinality(nics)
        /\ Cardinality(marks) # Cardinality(nics)
    BY <1>1, <2>1, FS_Subset
  <2>3. /\ Cardinality(marks) \in Nat /\ Cardinality(nics) \in Nat
        /\ Cardinality(Parents) \in Nat /\ MaxMarks \in Nat
    BY <1>1, <2>2, TracesAssumption, BoundsLemma, FS_CardinalityType
  <2> QED BY <1>1, <2>2, <2>3
<1> QED BY <1>3 DEF Remember

\* A step that touches no alias, no mark and none of their excuses.
LEMMA MarksStay ==
    ASSUME AliasIsOwed, marks' = marks,
           \A d \in Devs : dev'[d].alias \in {dev[d].alias, "none", "host"},
           \A d \in Devs : <<d, "alias">> \in excused => <<d, "alias">> \in excused'
    PROVE  AliasIsOwed'
BY DEF AliasIsOwed

\* Every step keeps the marks remembered or excused.
LEMMA NextMarks ==
    ASSUME Cardinality(Parents) <= MaxMarks, Inv, AliasIsOwed, [Next]_vars
    PROVE  AliasIsOwed'
<1>1. /\ dev \in [Devs -> Netdev] /\ marks \in SUBSET Devs
  BY DEF Inv, TypeOK, Netdev
<1>2. ASSUME NEW d \in Devs, HostTouches(d) PROVE AliasIsOwed'
  <2>1. marks' = marks /\ excused' = excused
    BY <1>2 DEF HostTouches, HostActs, daemon
  <2>2. \A e \in Devs : dev'[e].alias \in {dev[e].alias, "host"}
    BY <1>1, <1>2 DEF HostTouches, Netdev
  <2> QED BY <2>1, <2>2, MarksStay
<1>14. ASSUME NEW p \in Parents, HostDeletes(p) PROVE AliasIsOwed'
  <2>1. marks' = marks /\ excused \subseteq excused'
    BY <1>14 DEF HostDeletes, HostActs, daemon
  <2>2. \A e \in Devs : dev'[e].alias \in {dev[e].alias, "none"}
    BY <1>1, <1>14 DEF HostDeletes, Absent, Netdev
  <2> QED BY <2>1, <2>2, MarksStay
<1>3. ASSUME NEW p \in Parents, Cable(p) PROVE AliasIsOwed'
  <2>1. marks' = marks /\ excused' = excused
    BY <1>3 DEF Cable, HostActs, daemon
  <2>2. \/ dev' = dev
        \/ dev' = [e \in Devs |-> IF e[1] = p THEN Absent ELSE dev[e]]
        \/ dev' = [dev EXCEPT ![Nic(p)].by = "host"]
    BY <1>3 DEF Cable
  <2>3. \A e \in Devs : dev'[e].alias \in {dev[e].alias, "none"}
    BY <1>1, <2>2 DEF Netdev, Absent
  <2> QED BY <2>1, <2>3, MarksStay
<1>4. CASE UNCHANGED <<dev, marks, excused>>
  BY <1>4, MarksStay
<1>5. ASSUME NEW d \in Devs, NEW want \in {"thread", "etf", "carrier"}, HearingServe(d, want)
      PROVE  AliasIsOwed'
  <2> DEFINE m(o, told) == Marked(d, o.eng # "off" /\ told)
  <2>1. PICK o \in SinkNodeNew(dev[d].etf, want), told \in BOOLEAN :
          /\ dev' = [dev EXCEPT ![d].etf = o.q.etf, ![d].alias = m(o, told).alias]
          /\ marks' = m(o, told).marks
          /\ excused' = (excused \ ((IF o.eng # "off" /\ told THEN {<<d, "alias">>} ELSE {})
                                     \cup (IF o.q.ok THEN {<<d, "etf">>} ELSE {})))
                          \cup (IF o.q.ok THEN {} ELSE {<<d, "etf">>})
    BY <1>5 DEF HearingServe
  <2>2. /\ \A e \in Devs : e # d => dev'[e] = dev[e]
        /\ dev'[d].alias = m(o, told).alias
    BY <1>1, <2>1 DEF Netdev
  <2>3. \A e \in Devs : (e # d \/ ~(o.eng # "off" /\ told)) /\ <<e, "alias">> \in excused
                          => <<e, "alias">> \in excused'
    BY <2>1
  <2>4. CASE ~(o.eng # "off" /\ told)
    <3>1. m(o, told).alias = dev[d].alias /\ m(o, told).marks = marks
      BY <2>4 DEF Marked
    <3> QED BY <2>1, <2>2, <2>3, <2>4, <3>1, MarksStay
  <2>5. CASE o.eng # "off" /\ told
    <3>1. m(o, told) = ServedMark(d)
      BY <2>5 DEF Marked
    <3>2. /\ ServedDecide(d) = "MARK" => d[2] = "nic" /\ dev[d].alias = "none"
          /\ ServedDecide(d) = "OURS_SERVED" => dev[d].alias = "served"
          /\ dev[d].alias = "served" /\ dev[d].by # "us" => ServedDecide(d) = "OURS_SERVED"
      BY <1>1, DevLemma DEF ServedDecide, Netdev, Aliases
    <3>3. dev[d].alias = "served" => d[2] = "nic" /\ dev[d].by # "us"
      BY DevLemma DEF Inv, TracesAreApart
    <3>4. CASE ServedDecide(d) \in {"MARK", "OURS_SERVED"}
      <4>1. d[2] = "nic"
        BY <3>2, <3>3, <3>4
      <4>2. Remember(d) = marks \cup {d}
        BY <4>1, RememberLemma DEF Inv, AliasIsOwed
      <4>3. m(o, told).alias = "served" /\ m(o, told).marks = marks \cup {d}
        BY <3>1, <3>4, <4>2 DEF ServedMark
      <4> QED BY <1>1, <2>1, <2>2, <2>3, <4>1, <4>3 DEF AliasIsOwed
    <3>5. CASE ServedDecide(d) \notin {"MARK", "OURS_SERVED"}
      <4>1. m(o, told).alias = dev[d].alias /\ m(o, told).marks = marks
        BY <3>1, <3>5 DEF ServedMark
      <4>2. dev[d].alias # "served"
        BY <3>2, <3>3, <3>5
      <4> QED BY <2>1, <2>2, <2>3, <4>1, <4>2 DEF AliasIsOwed
    <3> QED BY <3>4, <3>5
  <2> QED BY <2>4, <2>5
<1>6. ASSUME NEW d \in Devs, SinkNodeDestroy(d), marks' = marks PROVE AliasIsOwed'
  <2>1. /\ excused \subseteq excused'
        /\ \A e \in Devs : dev'[e].alias = dev[e].alias
    BY <1>6, DestroyLemma
  <2> QED BY <1>6, <2>1, MarksStay
<1>7. ASSUME NEW p \in Parents, TopoApply(p) PROVE AliasIsOwed'
  <2>1. marks' = marks
    BY <1>7 DEF TopoApply
  <2>2. PICK q, a, b : TopoApplied(p, q, a, b)
    BY <1>7, TopoApplyLemma
  <2>3. \A e \in Devs : <<e, "alias">> \in excused => <<e, "alias">> \in excused'
    BY <2>2 DEF TopoApplied
  <2>4. b.v.alias \in {dev[Vlan(p)].alias, "none"}
    <3>1. dev[Vlan(p)] \in Netdev /\ row[p] \in Rows
      BY <1>1, DevLemma DEF Inv, TypeOK
    <3>2. a.v \in Netdev /\ a.r \in Rows /\ (a.v = dev[Vlan(p)] \/ a.v = Absent)
      BY <2>2, <3>1, TopoReleaseLemma DEF TopoApplied
    <3>3. b.v = a.v \/ b.v.alias = "none"
      BY <2>2, <3>2, TopoEnsureLemma DEF TopoApplied
    <3> QED BY <3>2, <3>3 DEF Absent
  <2>5. dev' = [dev EXCEPT ![Nic(p)].etf = q.etf, ![Vlan(p)] = b.v]
    BY <2>2 DEF TopoApplied
  <2>6. \A e \in Devs : dev'[e].alias \in {dev[e].alias, "none"}
    BY <1>1, <2>4, <2>5, DevLemma DEF Netdev
  <2> QED BY <2>1, <2>3, <2>6, MarksStay
<1>8. CASE UnmarkAll
  <2>1. PICK bad \in SUBSET marks :
         /\ dev' = [d \in Devs |-> IF d \in marks \ bad /\ dev[d].alias = "served"
                                   THEN [dev[d] EXCEPT !.alias = "none"] ELSE dev[d]]
         /\ excused' = excused \cup {<<d, "alias">> : d \in bad}
    BY <1>8 DEF UnmarkAll
  <2>2. marks' = {}
    BY <1>8 DEF UnmarkAll
  <2>3. ASSUME NEW d \in Devs, dev'[d].alias = "served" PROVE <<d, "alias">> \in excused'
    <3>1. dev[d].alias = "served" /\ (d \notin marks \/ d \in bad)
      BY <1>1, <2>1, <2>3 DEF Netdev
    <3> QED BY <2>1, <3>1 DEF AliasIsOwed
  <2> QED BY <2>2, <2>3 DEF AliasIsOwed
<1>9. CASE ReleaseAll
  <2>1. PICK bad \in SUBSET Mine :
        /\ dev' = [d \in Devs |-> IF d[2] = "vlan" /\ d[1] \in Mine \ bad
                                  THEN Absent ELSE dev[d]]
        /\ excused' = excused \cup {<<Vlan(p), "vlan">> : p \in bad}
    BY <1>9 DEF ReleaseAll, Mine
  <2>2. \A e \in Devs : dev'[e].alias \in {dev[e].alias, "none"}
    BY <2>1 DEF Absent
  <2>3. marks' = marks /\ excused \subseteq excused'
    BY <1>9, <2>1 DEF ReleaseAll
  <2> QED BY <2>2, <2>3, MarksStay
<1>10. CASE Crash
  <2>1. dev' = dev /\ marks' = {} /\ excused' = excused \cup Left
    BY <1>10 DEF Crash, host
  <2>2. \A d \in Devs : dev[d].alias = "served" => <<d, "alias">> \in Left
    BY DEF Left
  <2> QED BY <2>1, <2>2 DEF AliasIsOwed
<1>11. CASE \/ \E p \in Parents : TopoWatchIface(p) \/ TopoUnwatchIface(p)
            \/ Tick \/ Start \/ Quit \/ Exit \/ UNCHANGED vars
  <2>1. UNCHANGED <<dev, marks, excused>>
    BY <1>11 DEF TopoWatchIface, TopoUnwatchIface, Tick, Start, Quit, Exit, vars, host, daemon
  <2> QED BY <1>4, <2>1
<1>12. CASE \E d \in Devs : HearingDrop(d) \/ CloseListener(d)
  BY <1>6, <1>12 DEF HearingDrop, CloseListener
<1>13. CASE \E p \in Parents : ApplyDrop(p)
  BY <1>6, <1>13, DevLemma DEF ApplyDrop
<1> QED BY <1>2, <1>3, <1>5, <1>7, <1>8, <1>9, <1>10, <1>11, <1>12, <1>13, <1>14 DEF Next

-----------------------------------------------------------------------------
(* The theorems.                                                           *)

\* Every variable keeps its type: in particular no history of starts, failures and acts of
\* the host takes an age or a count out of its range (Spec => []TypeOK).
THEOREM TypeCorrect == Spec => []TypeOK
<1>1. Inv => TypeOK
  BY DEF Inv
<1> QED BY <1>1, Invariance, PTL

\* No engine without launch times runs under an etf qdisc, unless that qdisc could not be
\* read or removed (reac_sink_node_new, reac_qdisc_disarm): ThreadTransmits.
THEOREM NoThreadUnderEtf == Spec => []ThreadTransmits
<1>1. Inv => ThreadTransmits
  BY DEF Inv
<1> QED BY <1>1, Invariance, PTL

\* When the cards of the host fit into the table of marks, a daemon that has ended has left
\* nothing behind that no crash and no failed call is answerable for (hearing_stop,
\* reac_served_unmark_all, reac_topo_release_all, reac_qdisc_release): CleanStop.
THEOREM LeavesNothing ==
    ASSUME Cardinality(Parents) <= MaxMarks
    PROVE  Spec => []CleanStop
<1>1. Init => AliasIsOwed
  <2> SUFFICES ASSUME Init PROVE AliasIsOwed
    OBVIOUS
  <2>1. \A d \in Devs : \E b \in {"none", "host"} : dev[d] = [Absent EXCEPT !.by = b]
    BY DEF Init
  <2>2. \A d \in Devs : dev[d].alias = "none"
    BY <2>1 DEF Absent
  <2> QED BY <2>2 DEF Init, Idle, AliasIsOwed
<1>2. Inv /\ AliasIsOwed /\ [Next]_vars => AliasIsOwed'
  BY NextMarks
<1>3. Inv /\ AliasIsOwed => CleanStop
  <2> SUFFICES ASSUME Inv, AliasIsOwed, run = "off" PROVE Left \subseteq excused
    BY DEF CleanStop
  <2>1. marks = {} /\ row = [p \in Parents |-> NoRow] /\ \A d \in Devs : eng[d] = "off"
    BY DEF Inv, ExitIsOrdered
  <2>2. ASSUME NEW d \in Devs, d[2] = "vlan", dev[d].by = "us" PROVE <<d, "vlan">> \in excused
    <3>1. d = Vlan(d[1]) /\ d[1] \in Parents
      BY <2>2, DevLemma
    <3>2. ~row[d[1]].minted
      BY <2>1, <3>1 DEF NoRow
    <3> QED BY <2>2, <3>1, <3>2 DEF Inv, VlanIsOwed
  <2>3. ASSUME NEW d \in Devs, dev[d].alias = "served" PROVE <<d, "alias">> \in excused
    BY <2>1, <2>3 DEF AliasIsOwed
  <2>4. ASSUME NEW d \in Devs, dev[d].etf = "us" PROVE <<d, "etf">> \in excused
    BY <2>1, <2>4 DEF Inv, EtfIsOwed
  <2> QED BY <2>2, <2>3, <2>4 DEF Left
<1> QED BY <1>1, <1>2, <1>3, Invariance, PTL DEF Spec

\* No step of the daemon's own takes away what the host made or named, whatever the daemon
\* adopted, served, lost in a crash and found again (topo_release, topo_ensure,
\* reac_served_mark, reac_served_unmark_all): HostIsLeftAlone.
THEOREM HostKeepsItsOwn == Spec => HostIsLeftAlone
<1> DEFINE Kept(d) == /\ dev[d].by = "host" => dev'[d].by = "host"
                      /\ dev[d].alias = "host" => dev'[d].alias = "host"
<1>1. ASSUME Inv, [Next]_vars, acts' = acts, NEW d \in Devs PROVE Kept(d)
  <2>1. dev \in [Devs -> Netdev] /\ d[1] \in Parents
    BY <1>1, DevLemma DEF Inv, TypeOK, Netdev
  <2>2. ASSUME HostActs PROVE FALSE
    BY <1>1, <2>2 DEF Inv, TypeOK, HostActs
  <2>3. CASE \/ \E e \in Devs : HostTouches(e)
             \/ \E p \in Parents : HostDeletes(p) \/ Cable(p)
    BY <2>2, <2>3 DEF HostTouches, HostDeletes, Cable
  <2>4. ASSUME NEW e \in Devs, NEW want \in {"thread", "etf", "carrier"}, HearingServe(e, want)
        PROVE  Kept(d)
    <3> DEFINE m(o, told) == Marked(e, o.eng # "off" /\ told)
    <3>1. PICK o \in SinkNodeNew(dev[e].etf, want), told \in BOOLEAN :
            dev' = [dev EXCEPT ![e].etf = o.q.etf, ![e].alias = m(o, told).alias]
      BY <2>4 DEF HearingServe
    <3>2. dev[e].alias = "host" => m(o, told).alias = "host"
      BY <2>1 DEF Marked, ServedMark, ServedDecide, Netdev
    <3> HIDE DEF m
    <3> QED BY <2>1, <3>1, <3>2 DEF Netdev
  <2>5. ASSUME NEW e \in Devs, SinkNodeDestroy(e) PROVE Kept(d)
    BY <1>1, <2>5, DestroyLemma
  <2>6. ASSUME NEW p \in Parents, TopoApply(p) PROVE Kept(d)
    <3>1. PICK q, a, b : TopoApplied(p, q, a, b)
      BY <2>6, TopoApplyLemma
    <3>2. dev' = [dev EXCEPT ![Nic(p)].etf = q.etf, ![Vlan(p)] = b.v]
      BY <3>1 DEF TopoApplied
    <3>3. CASE d # Vlan(p)
      BY <2>1, <3>2, <3>3, DevLemma DEF Netdev
    <3>4. CASE d = Vlan(p)
      <4>1. dev[d] \in Netdev /\ row[p] \in Rows
        BY <1>1, <2>1 DEF Inv, TypeOK
      <4>2. a \in TopoRelease(dev[d], row[p]) /\ b \in TopoEnsure(a.v, a.r)
        BY <3>1, <3>4 DEF TopoApplied
      <4>3. dev'[d] = b.v
        BY <2>1, <3>2, <3>4, DevLemma DEF Netdev
      <4>4. /\ dev[d].alias = "host" => dev[d].by = "host"
            /\ row[p].minted => dev[d].by # "host"
        BY <1>1, <3>4 DEF Inv, TracesAreApart, MintedIsNotHosts
      <4>5. /\ a.v \in Netdev /\ a.r \in Rows
            /\ a.v = dev[d] \/ row[p].minted
        BY <4>1, <4>2, TopoReleaseLemma
      <4>6. b.v = a.v \/ a.v.by = "none"
        BY <4>2, <4>5, TopoEnsureLemma
      <4> QED BY <4>3, <4>4, <4>5, <4>6
    <3> QED BY <3>3, <3>4
  <2>7. CASE UnmarkAll
    BY <2>1, <2>7 DEF UnmarkAll, Netdev
  <2>8. CASE ReleaseAll
    <3>1. PICK bad \in SUBSET Mine :
            dev' = [e \in Devs |-> IF e[2] = "vlan" /\ e[1] \in Mine \ bad
                                   THEN Absent ELSE dev[e]]
      BY <2>8 DEF ReleaseAll, Mine
    <3>2. CASE d[2] = "vlan" /\ d[1] \in Mine
      <4>1. d = Vlan(d[1]) /\ row[d[1]].minted
        BY <3>2, DevLemma DEF Mine
      <4> QED BY <1>1, <2>1, <4>1 DEF Inv, MintedIsNotHosts, TracesAreApart
    <3>3. CASE ~(d[2] = "vlan" /\ d[1] \in Mine)
      BY <3>1, <3>3
    <3> QED BY <3>2, <3>3
  <2>9. CASE \/ \E p \in Parents : TopoWatchIface(p) \/ TopoUnwatchIface(p)
             \/ Tick \/ Start \/ Quit \/ Exit \/ Crash \/ UNCHANGED vars
    <3>1. dev' = dev
      BY <2>9 DEF TopoWatchIface, TopoUnwatchIface, Tick, Start, Quit, Exit, Crash, vars, host,
                  daemon
    <3> QED BY <3>1
  <2>10. CASE \E e \in Devs : HearingDrop(e) \/ CloseListener(e)
    BY <2>5, <2>10 DEF HearingDrop, CloseListener
  <2>11. CASE \E p \in Parents : ApplyDrop(p)
    BY <2>5, <2>11, DevLemma DEF ApplyDrop
  <2> QED BY <1>1, <2>3, <2>4, <2>6, <2>7, <2>8, <2>9, <2>10, <2>11 DEF Next
<1>2. Inv /\ [Next]_vars => [acts' = acts => \A d \in Devs : Kept(d)]_vars
  BY <1>1
<1> QED BY <1>2, Invariance, PTL DEF Spec, HostIsLeftAlone

=============================================================================
