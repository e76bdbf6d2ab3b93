---------------------------- MODULE HearingProofs ----------------------------
(***************************************************************************)
(* Proofs about Hearing, for every set of interfaces, configuration and    *)
(* wire, any number of slots, any timing and any queue: its state keeps    *)
(* its shape, a listener is never left behind on an interface the scan has *)
(* given up, and whoever we follow has ended our knock.                    *)
(***************************************************************************)
EXTENDS Hearing, SequenceTheorems, TLAPS

-----------------------------------------------------------------------------
(* The event queue.                                                        *)

Has(q, e)  == \E k \in 1..Len(q) : q[k] = e
Once(q, e) == \A j, k \in 1..Len(q) : q[j] = e /\ q[k] = e => j = k

Events == Verbs \X Ifaces

\* What an event at the end of the queue adds.
LEMMA AppendHas ==
    ASSUME NEW q \in Seq(Events), NEW e \in Events
    PROVE  /\ Append(q, e) \in Seq(Events)
           /\ \A x : Has(Append(q, e), x) <=> Has(q, x) \/ x = e
           /\ \A x : Once(q, x) /\ (x # e \/ ~Has(q, x)) => Once(Append(q, e), x)
<1>1. PICK p : p = Append(q, e)
    OBVIOUS
<1>2. /\ p \in Seq(Events) /\ Len(p) = Len(q) + 1 /\ Len(q) \in Nat
      /\ p[Len(q) + 1] = e /\ \A k \in 1..Len(q) : p[k] = q[k]
    BY <1>1
<1>3. ASSUME NEW x PROVE Has(p, x) <=> Has(q, x) \/ x = e
    <2>1. ASSUME Has(q, x) \/ x = e PROVE Has(p, x)
        <3>1. CASE Has(q, x)
            BY <1>2, <3>1 DEF Has
        <3>2. CASE x = e
            <4>1. Len(q) + 1 \in 1..Len(p)
                BY <1>2
            <4> QED BY <1>2, <3>2, <4>1 DEF Has
        <3> QED BY <2>1, <3>1, <3>2
    <2>2. ASSUME Has(p, x) PROVE Has(q, x) \/ x = e
        <3>1. PICK k \in 1..Len(p) : p[k] = x
            BY <2>2 DEF Has
        <3>2. k = Len(q) + 1 \/ k \in 1..Len(q)
            BY <1>2
        <3> QED BY <1>2, <3>1, <3>2 DEF Has
    <2> QED BY <2>1, <2>2
<1>4. ASSUME NEW x, Once(q, x), x # e \/ ~Has(q, x) PROVE Once(p, x)
    <2>1. SUFFICES ASSUME NEW j \in 1..Len(p), NEW k \in 1..Len(p), p[j] = x, p[k] = x
                   PROVE  j = k
        BY DEF Once
    <2>2. (j = Len(q) + 1 \/ j \in 1..Len(q)) /\ (k = Len(q) + 1 \/ k \in 1..Len(q))
        BY <1>2
    <2>3. CASE j \in 1..Len(q) /\ k \in 1..Len(q)
        BY <1>2, <1>4, <2>1, <2>3 DEF Once
    <2>4. CASE j = Len(q) + 1 \/ k = Len(q) + 1
        <3>1. x = e /\ ~Has(q, x)
            BY <1>2, <1>4, <2>1, <2>4
        <3>2. j \notin 1..Len(q) /\ k \notin 1..Len(q)
            BY <1>2, <2>1, <3>1 DEF Has
        <3> QED BY <2>2, <3>2
    <2> QED BY <2>2, <2>3, <2>4
<1> QED BY <1>1, <1>2, <1>3, <1>4

\* What the event at the head of the queue takes with it.
LEMMA TailHas ==
    ASSUME NEW q \in Seq(Events), q # <<>>
    PROVE  /\ Head(q) \in Events /\ Tail(q) \in Seq(Events)
           /\ \A x : Has(q, x) <=> Has(Tail(q), x) \/ x = Head(q)
           /\ \A x : Once(q, x) => Once(Tail(q), x) /\ (x = Head(q) => ~Has(Tail(q), x))
<1>1. PICK t : t = Tail(q)
    OBVIOUS
<1>2. /\ t \in Seq(Events) /\ Len(q) \in Nat /\ Len(q) >= 1 /\ Len(t) = Len(q) - 1
      /\ Head(q) = q[1] /\ \A k \in 1..Len(t) : t[k] = q[k + 1]
    BY <1>1
<1>3. ASSUME NEW x PROVE Has(q, x) <=> Has(t, x) \/ x = q[1]
    <2>1. ASSUME Has(t, x) \/ x = q[1] PROVE Has(q, x)
        <3>1. CASE Has(t, x)
            <4>1. PICK k \in 1..Len(t) : t[k] = x
                BY <3>1 DEF Has
            <4>2. k + 1 \in 1..Len(q) /\ q[k + 1] = x
                BY <1>2, <4>1
            <4> QED BY <4>2 DEF Has
        <3>2. CASE x = q[1]
            <4>1. 1 \in 1..Len(q)
                BY <1>2
            <4> QED BY <3>2, <4>1 DEF Has
        <3> QED BY <2>1, <3>1, <3>2
    <2>2. ASSUME Has(q, x) PROVE Has(t, x) \/ x = q[1]
        <3>1. PICK k \in 1..Len(q) : q[k] = x
            BY <2>2 DEF Has
        <3>2. CASE k = 1
            BY <3>1, <3>2
        <3>3. CASE k # 1
            <4>1. k - 1 \in 1..Len(t) /\ t[k - 1] = x
                <5>1. k - 1 \in 1..Len(t) /\ (k - 1) + 1 = k
                    BY <1>2, <3>3
                <5> QED BY <1>2, <3>1, <5>1
            <4> QED BY <4>1 DEF Has
        <3> QED BY <3>2, <3>3
    <2> QED BY <2>1, <2>2
<1>4. ASSUME NEW x, Once(q, x) PROVE Once(t, x) /\ (x = q[1] => ~Has(t, x))
    <2>1. ASSUME NEW j \in 1..Len(t), NEW k \in 1..Len(t), t[j] = x, t[k] = x PROVE j = k
        <3>1. j + 1 \in 1..Len(q) /\ k + 1 \in 1..Len(q)
            BY <1>2
        <3>2. j + 1 = k + 1
            BY <1>2, <1>4, <2>1, <3>1 DEF Once
        <3> QED BY <3>2
    <2>2. ASSUME x = q[1], NEW k \in 1..Len(t), t[k] = x PROVE FALSE
        <3>1. k + 1 \in 1..Len(q) /\ 1 \in 1..Len(q) /\ k + 1 # 1
            BY <1>2
        <3> QED BY <1>2, <1>4, <2>2, <3>1 DEF Once
    <2> QED BY <2>1, <2>2 DEF Once, Has
<1>5. Head(q) \in Events
    BY <1>2
<1> QED BY <1>1, <1>2, <1>3, <1>4, <1>5

-----------------------------------------------------------------------------
(* The shapes of a sniffer.                                                *)

LEMMA ConstantsAreNumbers ==
    /\ Stale \in Nat /\ Listen \in Nat /\ Retry \in Nat /\ DownHold \in Nat /\ EmptyQuiet \in Nat
    /\ Follow \in Nat /\ Reclass \in Nat /\ QMax \in Nat /\ Stale > 0
BY WatchAssumption, HearingAssumption

LEMMA OlderType ==
    ASSUME NEW bar \in Nat, NEW age \in 0..bar PROVE Older(age, bar) \in 0..bar
BY DEF Older

LEMMA ArbitrateType ==
    ASSUME NEW seen, NEW opened, NEW proven, NEW role
    PROVE  Arbitrate(seen, opened, proven, role) \in Verdicts
BY DEF Arbitrate, Verdicts

LEMMA ClosedType == Closed \in Sniffers /\ Fresh \in Sniffers
<1>1. Closed \in Sniffers
    BY ConstantsAreNumbers DEF Closed, Sniffers, Verdicts, Knocks
<1>2. Fresh = [Closed EXCEPT !.open = TRUE]
    BY DEF Fresh
<1> QED BY <1>1, <1>2 DEF Sniffers

LEMMA DrainType ==
    ASSUME NEW s \in Sniffers, NEW gear \in SUBSET Gear
    PROVE  Drain(s, gear) \in Sniffers
<1>1. PICK v : v = Drain(s, gear)
    OBVIOUS
<1>2. \A g \in Gear : (IF g \in gear THEN 0 ELSE Older(s.seen[g], Stale)) \in 0..Stale
    BY ConstantsAreNumbers, OlderType DEF Sniffers
<1>3. v.seen \in [Gear -> 0..Stale]
    BY <1>1, <1>2 DEF Drain
<1>4. v.opened \in 0..Stale
    BY <1>1, ConstantsAreNumbers, OlderType DEF Drain, Sniffers
<1>5. v.quiet \in 0..Listen
    BY <1>1, ConstantsAreNumbers, OlderType DEF Drain, Sniffers
<1>6. v.verdict \in Verdicts /\ v.kw \in Knocks
    BY <1>1 DEF Drain, Sniffers, Knocks
<1>7. /\ v.open \in BOOLEAN /\ v.anchored \in BOOLEAN /\ v.proven \in BOOLEAN
      /\ v.watched \in BOOLEAN /\ v.said \in BOOLEAN
      /\ v.tx \in BOOLEAN /\ v.answer \in BOOLEAN
    BY <1>1 DEF Drain, Sniffers
<1>8. v = [open |-> v.open, seen |-> v.seen, opened |-> v.opened, anchored |-> v.anchored,
           verdict |-> v.verdict, proven |-> v.proven, watched |-> v.watched, said |-> v.said,
           kw |-> v.kw, tx |-> v.tx, answer |-> v.answer, quiet |-> v.quiet]
    BY <1>1 DEF Drain
<1>9. v \in Sniffers
    BY <1>3, <1>4, <1>5, <1>6, <1>7, <1>8 DEF Sniffers
<1> QED BY <1>1, <1>9

LEMMA KnockStepType ==
    ASSUME NEW s \in Sniffers, NEW ok \in BOOLEAN
    PROVE  KnockStep(s, ok) \in Sniffers
<1>1. CASE s.kw = "TRUNK"
    <2>1. KnockStep(s, ok) = [s EXCEPT !.kw = "LISTENING", !.quiet = 0]
        BY <1>1 DEF KnockStep
    <2>2. 0 \in 0..Listen /\ "LISTENING" \in Knocks
        BY ConstantsAreNumbers DEF Knocks
    <2> QED BY <2>1, <2>2 DEF Sniffers
<1>2. CASE s.kw # "TRUNK" /\ s.kw # "KNOCKING" /\ s.quiet >= Listen
    <2>1. KnockStep(s, ok) = [s EXCEPT !.kw = "KNOCKING", !.answer = FALSE, !.tx = ok]
        BY <1>2 DEF KnockStep
    <2> QED BY <2>1 DEF Sniffers, Knocks
<1>3. CASE s.kw # "TRUNK" /\ ~(s.kw # "KNOCKING" /\ s.quiet >= Listen)
    BY <1>3 DEF KnockStep
<1> QED BY <1>1, <1>2, <1>3

LEMMA HuntStepType ==
    ASSUME NEW s \in Sniffers, NEW role
    PROVE  HuntStep(s, role) \in Sniffers
<1>1. PICK v : v = Arbitrate(s.seen, s.opened, s.proven, role)
    OBVIOUS
<1>2. v \in Verdicts
    BY <1>1, ArbitrateType
<1>3. PICK b : b = IF v = "MASTER" THEN Keep("MASTER", Pinned(role)) ELSE s.watched
    OBVIOUS
<1>4. b \in BOOLEAN
    BY <1>3 DEF Keep, Sniffers
<1>5. HuntStep(s, role) = [s EXCEPT !.verdict = v, !.watched = b]
    BY <1>1, <1>3 DEF HuntStep
<1> QED BY <1>2, <1>4, <1>5 DEF Sniffers

LEMMA ListenerType ==
    ASSUME NEW k \in Kinds
    PROVE  Listener(k) \in Listeners /\ Listener(k).kind = k
<1>1. 0 \in 0..(Follow + EmptyQuiet)
    BY ConstantsAreNumbers
<1> QED BY <1>1 DEF Listener, Listeners

LEMMA ServeKindType ==
    ASSUME NEW i, NEW verdict, NEW rival
    PROVE  ServeKind(i, verdict, rival) \in Kinds /\ ServeKind(i, verdict, rival) # "none"
BY DEF ServeKind, Kinds

-----------------------------------------------------------------------------
(* The inductive invariant.                                                *)

\* Somebody else masters the wire, by the sniffer's table.
Rivalled(seen) == Live(seen, "desk") \/ Live(seen, "boxm")

Good(i) ==
    \* a listener is tracked
    /\ Served(i) => scan[i] \in {"SEGMENT", "HOLD"} \/ Has(evq, <<"DROP", i>>)
    \* a SERVE was queued by this poll's hunt, for a segment that is not served
    /\ Has(evq, <<"SERVE", i>>) =>
          /\ scan[i] = "SEGMENT" /\ ~Served(i)
          /\ phase \notin {"idle", "requests", "topo"}
          /\ ~(phase = "hunt" /\ i \in todo)
    /\ Once(evq, <<"SERVE", i>>)
    \* a DROP is applied in the poll that queued it
    /\ Has(evq, <<"DROP", i>>) => phase \in {"tick", "apply"}
    \* a follower is quiet
    /\ lis[i].kind \in Followers => ~sn[i].tx
    \* a knock is for a wire nobody pinned, and a master heard under it is being served
    /\ sn[i].tx => pin[i] = "auto" /\ sn[i].kw = "KNOCKING"
    /\ sn[i].tx /\ Rivalled(sn[i].seen) =>
          Has(evq, <<"SERVE", i>>) /\ sn[i].verdict = "SLAVE"

AllGood == \A i \in Ifaces : link[i] # "usb" => Good(i)

Inv == TypeOK /\ AllGood

\* Two queues that say the same of an interface.
Same(q, p, j) ==
    /\ Has(p, <<"SERVE", j>>) <=> Has(q, <<"SERVE", j>>)
    /\ Has(p, <<"DROP", j>>) <=> Has(q, <<"DROP", j>>)
    /\ Once(q, <<"SERVE", j>>) => Once(p, <<"SERVE", j>>)

LEMMA AppendSame ==
    ASSUME NEW q \in Seq(Events), NEW verb \in Verbs, NEW i \in Ifaces
    PROVE  /\ Append(q, <<verb, i>>) \in Seq(Events)
           /\ \A j \in Ifaces : j # i => Same(q, Append(q, <<verb, i>>), j)
           /\ verb \notin {"SERVE", "DROP"} => Same(q, Append(q, <<verb, i>>), i)
<1>1. PICK e \in Events : e = <<verb, i>>
    BY DEF Events
<1>2. PICK p : p = Append(q, e)
    OBVIOUS
<1>3. /\ p \in Seq(Events)
      /\ \A x : Has(p, x) <=> Has(q, x) \/ x = e
      /\ \A x : Once(q, x) /\ (x # e \/ ~Has(q, x)) => Once(p, x)
    BY <1>2, AppendHas
<1>4. ASSUME NEW j \in Ifaces, j # i \/ verb \notin {"SERVE", "DROP"} PROVE Same(q, p, j)
    <2>1. <<"SERVE", j>> # e /\ <<"DROP", j>> # e
        BY <1>1, <1>4
    <2> QED BY <1>3, <2>1 DEF Same
<1> QED BY <1>1, <1>2, <1>3, <1>4

LEMMA TailSame ==
    ASSUME NEW q \in Seq(Events), q # <<>>
    PROVE  /\ Tail(q) \in Seq(Events)
           /\ Head(q)[1] \in Verbs /\ Head(q)[2] \in Ifaces
           /\ Head(q) = <<Head(q)[1], Head(q)[2]>>
           /\ \A j \in Ifaces : j # Head(q)[2] => Same(q, Tail(q), j)
           /\ Head(q)[1] \notin {"SERVE", "DROP"} => Same(q, Tail(q), Head(q)[2])
<1>1. PICK e : e = Head(q)
    OBVIOUS
<1>2. PICK t : t = Tail(q)
    OBVIOUS
<1>3. /\ e \in Events /\ t \in Seq(Events)
      /\ \A x : Has(q, x) <=> Has(t, x) \/ x = e
      /\ \A x : Once(q, x) => Once(t, x) /\ (x = e => ~Has(t, x))
    BY <1>1, <1>2, TailHas
<1>4. e[1] \in Verbs /\ e[2] \in Ifaces /\ e = <<e[1], e[2]>>
    BY <1>3 DEF Events
<1>5. ASSUME NEW j \in Ifaces, j # e[2] \/ e[1] \notin {"SERVE", "DROP"} PROVE Same(q, t, j)
    <2>1. <<"SERVE", j>> # e /\ <<"DROP", j>> # e
        BY <1>4, <1>5
    <2> QED BY <1>3, <2>1 DEF Same
<1> QED BY <1>1, <1>2, <1>3, <1>4, <1>5

\* A step that moves one interface keeps the invariant if it keeps that interface's.
LEMMA OneMoves ==
    ASSUME Inv, TypeOK', NEW i \in Ifaces,
           phase' = phase, todo' \subseteq todo, UNCHANGED <<pin, link>>,
           \A j \in Ifaces : j # i => /\ scan'[j] = scan[j]
                                      /\ lis'[j] = lis[j]
                                      /\ sn'[j] = sn[j]
                                      /\ Same(evq, evq', j),
           link[i] # "usb" => Good(i)'
    PROVE  Inv'
<1>1. SUFFICES ASSUME NEW j \in Ifaces, link[j] # "usb", j # i PROVE Good(j)'
    BY DEF Inv, AllGood
<1>2. Good(j)
    BY <1>1 DEF Inv, AllGood
<1>3. scan'[j] = scan[j] /\ lis'[j] = lis[j] /\ sn'[j] = sn[j] /\ Same(evq, evq', j)
    BY <1>1
<1>4. pin'[j] = pin[j] /\ Served(j)' = Served(j)
    BY <1>3 DEF Served
<1> QED BY <1>2, <1>3, <1>4 DEF Good, Same

\* A step that leaves an interface alone leaves it good.
LEMMA StaysGood ==
    ASSUME NEW i \in Ifaces, Good(i),
           phase' = phase, todo' \subseteq todo, UNCHANGED pin,
           scan'[i] = scan[i], lis'[i].kind = lis[i].kind, sn'[i] = sn[i],
           Same(evq, evq', i)
    PROVE  Good(i)'
<1>1. Served(i)' = Served(i)
    BY DEF Served
<1> QED BY <1>1 DEF Good, Same

-----------------------------------------------------------------------------
(* What the shared steps do.                                               *)

\* The scan's part of the type invariant, in the next state.
ScanTyped ==
    /\ scan \in [Ifaces -> ScanStates]
    /\ hold \in [Ifaces -> 0..DownHold]
    /\ retry \in [Ifaces -> 0..Retry]
    /\ evq \in Seq(Events)

ServingTyped == lis \in [Ifaces -> Listeners] /\ past \in [Ifaces -> BOOLEAN]

LEMMA FailedEffect ==
    ASSUME TypeOK, NEW i \in Ifaces, NEW q \in Seq(Events), ServeFailed(i, q)
    PROVE  /\ ScanTyped'
           /\ \A j \in Ifaces : j # i => scan'[j] = scan[j]
           /\ \A j \in Ifaces : Same(q, evq', j)
<1>1. /\ scan \in [Ifaces -> ScanStates]
      /\ hold \in [Ifaces -> 0..DownHold]
      /\ retry \in [Ifaces -> 0..Retry]
    BY DEF TypeOK
<1>2. CASE scan[i] \in {"SEGMENT", "HOLD"}
    <2>1. /\ scan' = [scan EXCEPT ![i] = "LINKED"]
          /\ retry' = [retry EXCEPT ![i] = Retry]
          /\ evq' = Append(q, <<"LISTEN", i>>)
          /\ hold' = hold
        BY <1>2 DEF ServeFailed
    <2>2. "LISTEN" \in Verbs /\ "LISTEN" \notin {"SERVE", "DROP"} /\ "LINKED" \in ScanStates
        BY DEF Verbs, ScanStates
    <2>3. evq' \in Seq(Events) /\ \A j \in Ifaces : Same(q, evq', j)
        BY <2>1, <2>2, AppendSame
    <2>4. Retry \in 0..Retry
        BY ConstantsAreNumbers
    <2> QED BY <1>1, <2>1, <2>2, <2>3, <2>4 DEF ScanTyped
<1>3. CASE scan[i] \notin {"SEGMENT", "HOLD"}
    <2>1. evq' = q /\ scan' = scan /\ hold' = hold /\ retry' = retry
        BY <1>3 DEF ServeFailed
    <2>2. \A j \in Ifaces : Same(q, evq', j)
        BY <2>1 DEF Same
    <2> QED BY <1>1, <2>1, <2>2 DEF ScanTyped
<1> QED BY <1>2, <1>3

LEMMA DropEffect ==
    ASSUME TypeOK, NEW i \in Ifaces, Drop(i)
    PROVE  /\ ServingTyped'
           /\ \A j \in Ifaces : j # i => lis'[j] = lis[j]
           /\ lis'[i].kind = "none"
<1>1. Listener("none") \in Listeners /\ Listener("none").kind = "none"
    BY ListenerType DEF Kinds
<1> QED BY <1>1 DEF Drop, TypeOK, ServingTyped

LEMMA RehearEffect ==
    ASSUME TypeOK, NEW i \in Ifaces, Rehear(i)
    PROVE  /\ ScanTyped' /\ ServingTyped' /\ sn' \in [Ifaces -> Sniffers]
           /\ \A j \in Ifaces : j # i => /\ scan'[j] = scan[j]
                                         /\ lis'[j] = lis[j]
                                         /\ sn'[j] = sn[j]
           /\ \A j \in Ifaces : Same(evq, evq', j)
           /\ lis'[i].kind = "none"
           /\ ~sn'[i].tx
<1>1. Drop(i) /\ sn' = [sn EXCEPT ![i] = Fresh] /\ ServeFailed(i, evq)
    BY DEF Rehear
<1>2. evq \in Seq(Events) /\ sn \in [Ifaces -> Sniffers]
    BY DEF TypeOK, Events
<1>3. Fresh \in Sniffers /\ ~Fresh.tx
    BY ClosedType DEF Fresh, Closed
<1>4. sn' \in [Ifaces -> Sniffers] /\ ~sn'[i].tx /\ \A j \in Ifaces : j # i => sn'[j] = sn[j]
    BY <1>1, <1>2, <1>3
<1> QED BY <1>1, <1>2, <1>4, DropEffect, FailedEffect

LEMMA ServeEffect ==
    ASSUME TypeOK, NEW i \in Ifaces, NEW verdict, NEW rival, NEW q \in Seq(Events),
           Serve(i, verdict, rival, q)
    PROVE  /\ ScanTyped' /\ ServingTyped'
           /\ \A j \in Ifaces : j # i => scan'[j] = scan[j] /\ lis'[j] = lis[j]
           /\ \A j \in Ifaces : Same(q, evq', j)
           /\ \/ lis'[i].kind = "none"
              \/ lis'[i].kind = ServeKind(i, verdict, rival) /\ scan' = scan
<1>1. lis \in [Ifaces -> Listeners] /\ past \in [Ifaces -> BOOLEAN]
    BY DEF TypeOK
<1>2. past' = [past EXCEPT ![i] = FALSE] /\ past' \in [Ifaces -> BOOLEAN]
    BY <1>1 DEF Serve
<1>3. CASE /\ lis' = [lis EXCEPT ![i] = Listener(ServeKind(i, verdict, rival))]
           /\ evq' = q
           /\ UNCHANGED <<scan, hold, retry>>
    <2>1. PICK k \in Kinds : k = ServeKind(i, verdict, rival)
        BY ServeKindType
    <2>2. Listener(k) \in Listeners /\ Listener(k).kind = k
        BY ListenerType
    <2>3. lis' \in [Ifaces -> Listeners] /\ lis'[i].kind = k /\ \A j \in Ifaces : j # i => lis'[j] = lis[j]
        BY <1>1, <1>3, <2>1, <2>2
    <2>4. \A j \in Ifaces : Same(q, evq', j)
        BY <1>3 DEF Same
    <2>5. ScanTyped'
        BY <1>3 DEF ScanTyped, TypeOK
    <2> QED BY <1>2, <1>3, <2>1, <2>3, <2>4, <2>5 DEF ServingTyped
<1>4. CASE lis' = [lis EXCEPT ![i] = Listener("none")] /\ ServeFailed(i, q)
    <2>1. Drop(i)
        BY <1>2, <1>4 DEF Drop
    <2> QED BY <1>4, <2>1, DropEffect, FailedEffect
<1> QED BY <1>3, <1>4 DEF Serve

LEMMA ScanKept ==
    ASSUME TypeOK, UNCHANGED ifscan
    PROVE  ScanTyped' /\ scan' = scan /\ \A j \in Ifaces : Same(evq, evq', j)
<1>1. scan' = scan /\ hold' = hold /\ retry' = retry /\ evq' = evq
    BY DEF ifscan
<1>2. \A j \in Ifaces : Same(evq, evq', j)
    BY <1>1 DEF Same
<1> QED BY <1>1, <1>2 DEF TypeOK, ScanTyped, Events

LEMMA ServingKept ==
    ASSUME TypeOK, UNCHANGED serving
    PROVE  ServingTyped' /\ lis' = lis
BY DEF TypeOK, ServingTyped, serving

\* The type invariant, put together from its parts.
LEMMA TypeStep ==
    ASSUME TypeOK, UNCHANGED world, ScanTyped', ServingTyped', sn' \in [Ifaces -> Sniffers],
           ask' \in [Ifaces -> Asks], tag' \in [Ifaces -> Taps],
           phase' \in Phases, todo' \in SUBSET Ifaces
    PROVE  TypeOK'
BY DEF TypeOK, world, ScanTyped, ServingTyped, Events

-----------------------------------------------------------------------------
(* The passes of a poll, each on its interface.                            *)

LEMMA TurnFacts ==
    ASSUME TypeOK, NEW p, NEW i, Turn(p, i)
    PROVE  /\ phase = p /\ phase' = phase /\ phase' \in Phases
           /\ i \in todo /\ todo' = todo \ {i} /\ todo' \in SUBSET Ifaces /\ todo' \subseteq todo
BY DEF Turn, TypeOK

\* A segment that is heard afresh stays good: it has no SERVE in the queue.
LEMMA RehearGood ==
    ASSUME TypeOK, NEW i \in Ifaces, Rehear(i), Good(i), Served(i),
           phase' = phase, todo' \subseteq todo, UNCHANGED pin
    PROVE  Good(i)'
<1>1. Same(evq, evq', i) /\ lis'[i].kind = "none" /\ ~sn'[i].tx
    BY RehearEffect
<1>2. ~Has(evq, <<"SERVE", i>>)
    BY DEF Good
<1>3. ~Served(i)' /\ lis'[i].kind \notin Followers
    BY <1>1 DEF Served, Followers
<1> QED BY <1>1, <1>2, <1>3 DEF Good, Same

\* What every pass leaves alone.
PassFrame ==
    /\ UNCHANGED world
    /\ ask' \in [Ifaces -> Asks] /\ tag' \in [Ifaces -> Taps]
    /\ phase' = phase /\ phase' \in Phases
    /\ todo' \in SUBSET Ifaces /\ todo' \subseteq todo

LEMMA PassFrameHolds ==
    ASSUME TypeOK, NEW p, NEW i, Turn(p, i), UNCHANGED <<world, ask, tag>>
    PROVE  PassFrame
BY TurnFacts DEF PassFrame, TypeOK

\* A pass that passes an interface over.
LEMMA QuietPass ==
    ASSUME Inv, NEW i \in Ifaces, PassFrame, UNCHANGED <<ifscan, sn, serving>>
    PROVE  Inv'
<1>1. TypeOK /\ (link[i] # "usb" => Good(i))
    BY DEF Inv, AllGood
<1>2. ScanTyped' /\ scan' = scan /\ \A j \in Ifaces : Same(evq, evq', j)
    BY <1>1, ScanKept
<1>3. ServingTyped' /\ lis' = lis /\ sn' = sn /\ sn' \in [Ifaces -> Sniffers]
    BY <1>1, ServingKept DEF TypeOK
<1>4. TypeOK'
    BY <1>1, <1>2, <1>3, TypeStep DEF PassFrame
<1>5. UNCHANGED <<pin, link>>
    BY DEF PassFrame, world
<1>6. link[i] # "usb" => Good(i)'
    BY <1>1, <1>2, <1>3, <1>5, StaysGood DEF PassFrame
<1> QED BY <1>2, <1>3, <1>4, <1>5, <1>6, OneMoves DEF PassFrame

\* A pass that has a served segment heard afresh.
LEMMA RehearPass ==
    ASSUME Inv, NEW i \in Ifaces, PassFrame, Rehear(i), Served(i)
    PROVE  Inv'
<1>1. TypeOK /\ (link[i] # "usb" => Good(i))
    BY DEF Inv, AllGood
<1>2. UNCHANGED <<pin, link>>
    BY DEF PassFrame, world
<1>3. TypeOK'
    BY <1>1, RehearEffect, TypeStep DEF PassFrame
<1>4. link[i] # "usb" => Good(i)'
    BY <1>1, <1>2, RehearGood DEF PassFrame
<1> QED BY <1>1, <1>2, <1>3, <1>4, RehearEffect, OneMoves DEF PassFrame

\* A pass that moves nothing but a listener, which is not made to follow.
LEMMA ListenerPass ==
    ASSUME Inv, NEW i \in Ifaces, PassFrame, UNCHANGED <<ifscan, sn>>,
           NEW l \in Listeners, lis' = [lis EXCEPT ![i] = l], past' \in [Ifaces -> BOOLEAN],
           Served(i), l.kind = lis[i].kind \/ l.kind \notin Followers
    PROVE  Inv'
<1>1. TypeOK /\ (link[i] # "usb" => Good(i))
    BY DEF Inv, AllGood
<1>2. ServingTyped' /\ lis'[i] = l /\ \A j \in Ifaces : j # i => lis'[j] = lis[j]
    BY <1>1 DEF ServingTyped, TypeOK
<1>3. ScanTyped' /\ scan' = scan /\ \A j \in Ifaces : Same(evq, evq', j)
    BY <1>1, ScanKept
<1>4. sn' = sn /\ sn' \in [Ifaces -> Sniffers]
    BY <1>1 DEF TypeOK
<1>5. TypeOK'
    BY <1>1, <1>2, <1>3, <1>4, TypeStep DEF PassFrame
<1>6. UNCHANGED <<pin, link>>
    BY DEF PassFrame, world
<1>7. ASSUME link[i] # "usb" PROVE Good(i)'
    <2>1. Good(i)
        BY <1>1, <1>7
    <2>2. ~Has(evq, <<"SERVE", i>>) /\ (scan[i] \in {"SEGMENT", "HOLD"} \/ Has(evq, <<"DROP", i>>))
        BY <2>1 DEF Good
    <2>3. lis'[i].kind \in Followers => ~sn[i].tx
        BY <1>2, <2>1 DEF Good
    <2> QED BY <1>2, <1>3, <1>4, <1>6, <2>1, <2>2, <2>3 DEF Good, Same, PassFrame
<1> QED BY <1>2, <1>3, <1>4, <1>5, <1>6, <1>7, OneMoves DEF PassFrame

LEMMA TakeRequestInv ==
    ASSUME Inv, NEW i \in Ifaces, TakeRequest(i)
    PROVE  Inv'
<1>1. TypeOK /\ UNCHANGED world /\ UNCHANGED tag /\ Turn("requests", i)
    BY DEF Inv, TakeRequest
<1>2. ask' \in [Ifaces -> Asks] /\ tag' \in [Ifaces -> Taps]
    BY <1>1 DEF TakeRequest, TypeOK, Asks
<1>3. PassFrame
    BY <1>1, <1>2, TurnFacts DEF PassFrame
<1>4. CASE ask[i] = "role" /\ lis[i].kind \notin {"none", "tap"} /\ Rehear(i)
    BY <1>3, <1>4, RehearPass DEF Served
<1>5. CASE /\ ask[i] = "rate" /\ lis[i].kind = "master"
           /\ \/ lis' = [lis EXCEPT ![i] = Listener("master")]
              \/ OpenMayFail /\ lis' = [lis EXCEPT ![i] = Listener("none")]
           /\ past' = [past EXCEPT ![i] = FALSE]
           /\ UNCHANGED <<ifscan, sn>>
    <2>1. PICK k \in {"master", "none"} : lis' = [lis EXCEPT ![i] = Listener(k)]
        BY <1>5
    <2>2. Listener(k) \in Listeners /\ Listener(k).kind = k /\ k \notin Followers
        BY <2>1, ListenerType DEF Kinds, Followers
    <2>3. past' \in [Ifaces -> BOOLEAN] /\ Served(i)
        BY <1>1, <1>5 DEF TypeOK, Served
    <2> QED BY <1>3, <1>5, <2>1, <2>2, <2>3, ListenerPass
<1>6. CASE UNCHANGED <<ifscan, sn, serving>>
    BY <1>3, <1>6, QuietPass
<1> QED BY <1>4, <1>5, <1>6 DEF TakeRequest

LEMMA ReevaluateInv ==
    ASSUME Inv, NEW i \in Ifaces, HearingReevaluate(i)
    PROVE  Inv'
<1>1. TypeOK
    BY DEF Inv
<1>2. PassFrame
    BY <1>1, PassFrameHolds DEF HearingReevaluate
<1>3. CASE Follows(i) /\ Rehear(i)
    <2>1. Served(i)
        BY <1>3 DEF Follows, Followers, Served
    <2> QED BY <1>2, <1>3, <2>1, RehearPass
<1>4. ASSUME NEW t \in 0..(Follow + EmptyQuiet), Follows(i),
             lis' = [lis EXCEPT ![i].ticks = t], UNCHANGED <<ifscan, sn, past>>
      PROVE  Inv'
    <2>1. lis[i] \in Listeners /\ past' \in [Ifaces -> BOOLEAN]
        BY <1>1, <1>4 DEF TypeOK
    <2>2. PICK l : l = [lis[i] EXCEPT !.ticks = t]
        OBVIOUS
    <2>3. l \in Listeners /\ l.kind = lis[i].kind
        BY <1>4, <2>1, <2>2 DEF Listeners
    <2>4. lis' = [lis EXCEPT ![i] = l]
        BY <1>1, <1>4, <2>2 DEF TypeOK
    <2>5. Served(i)
        BY <1>4 DEF Follows, Followers, Served
    <2> QED BY <1>2, <1>4, <2>1, <2>3, <2>4, <2>5, ListenerPass
<1>5. CASE /\ Follows(i) /\ lis[i].ticks + 1 < Follow
           /\ lis' = [lis EXCEPT ![i].ticks = @ + 1]
           /\ UNCHANGED <<ifscan, sn, past>>
    <2>1. lis[i].ticks + 1 \in 0..(Follow + EmptyQuiet)
        BY <1>1, <1>5, ConstantsAreNumbers DEF TypeOK, Listeners
    <2> QED BY <1>4, <1>5, <2>1
<1>6. CASE /\ Follows(i)
           /\ lis' = [lis EXCEPT ![i].ticks = 0]
           /\ UNCHANGED <<ifscan, sn, past>>
    <2>1. 0 \in 0..(Follow + EmptyQuiet)
        BY ConstantsAreNumbers
    <2> QED BY <1>4, <1>6, <2>1
<1>7. CASE UNCHANGED <<ifscan, sn, serving>>
    BY <1>2, <1>7, QuietPass
<1> QED BY <1>3, <1>5, <1>6, <1>7 DEF HearingReevaluate

LEMMA RehearEmptyInv ==
    ASSUME Inv, NEW i \in Ifaces, HearingRehearEmptyMasters(i)
    PROVE  Inv'
<1>1. TypeOK
    BY DEF Inv
<1>2. PassFrame
    BY <1>1, PassFrameHolds DEF HearingRehearEmptyMasters
<1>3. lis[i] \in Listeners /\ past[i] \in BOOLEAN
    BY <1>1 DEF TypeOK
<1>4. CASE lis[i].kind = "master" /\ Rehear(i)
    BY <1>2, <1>4, RehearPass DEF Served
<1>5. ASSUME NEW l \in Listeners, lis[i].kind = "master", l.kind = "master",
             lis' = [lis EXCEPT ![i] = l], UNCHANGED <<ifscan, sn, past>>
      PROVE  Inv'
    <2>1. Served(i) /\ past' \in [Ifaces -> BOOLEAN] /\ "master" \notin Followers
        BY <1>1, <1>5 DEF Served, TypeOK, Followers
    <2> QED BY <1>2, <1>5, <2>1, ListenerPass
<1>6. CASE /\ lis[i].kind = "master"
           /\ lis' = [lis EXCEPT ![i] = [Listener("master") EXCEPT !.open = TRUE]]
           /\ UNCHANGED <<ifscan, sn, past>>
    <2>1. Listener("master") \in Listeners /\ Listener("master").kind = "master"
        BY ListenerType DEF Kinds
    <2>2. PICK l : l = [Listener("master") EXCEPT !.open = TRUE]
        OBVIOUS
    <2>3. l \in Listeners /\ l.kind = "master"
        BY <2>1, <2>2 DEF Listeners
    <2> QED BY <1>5, <1>6, <2>2, <2>3
<1>7. CASE /\ lis[i].kind = "master"
           /\ lis' = [lis EXCEPT ![i] = EmptyStep(lis[i], BoxTalks(i), past[i])]
           /\ UNCHANGED <<ifscan, sn, past>>
    <2>1. PICK t : t = IF BoxTalks(i) \/ past[i] THEN 0 ELSE Older(lis[i].ticks, EmptyQuiet)
        OBVIOUS
    <2>2. t \in 0..(Follow + EmptyQuiet)
        BY <1>3, <2>1, ConstantsAreNumbers DEF Older, Listeners
    <2>3. PICK w : w = (lis[i].was \/ past[i])
        OBVIOUS
    <2>4. w \in BOOLEAN
        BY <2>3
    <2>5. PICK l : l = [lis[i] EXCEPT !.was = w, !.ticks = t]
        OBVIOUS
    <2>6. EmptyStep(lis[i], BoxTalks(i), past[i]) = l
        BY <2>1, <2>3, <2>5 DEF EmptyStep
    <2>7. l \in Listeners /\ l.kind = "master"
        BY <1>3, <1>7, <2>2, <2>4, <2>5 DEF Listeners
    <2> QED BY <1>5, <1>7, <2>6, <2>7
<1>8. CASE UNCHANGED <<ifscan, sn, serving>>
    BY <1>2, <1>8, QuietPass
<1> QED BY <1>4, <1>6, <1>7, <1>8 DEF HearingRehearEmptyMasters

\* A served segment that is served again stays good if what it becomes is quiet.
LEMMA ServePass ==
    ASSUME Inv, NEW i \in Ifaces, PassFrame, NEW verdict, NEW rival,
           Serve(i, verdict, rival, evq), Served(i),
           sn' \in [Ifaces -> Sniffers], \A j \in Ifaces : j # i => sn'[j] = sn[j],
           sn'[i].tx = sn[i].tx, sn'[i].kw = sn[i].kw, sn'[i].seen = sn[i].seen,
           link[i] # "usb" /\ ServeKind(i, verdict, rival) \in Followers => ~sn[i].tx
    PROVE  Inv'
<1>1. TypeOK /\ evq \in Seq(Events) /\ (link[i] # "usb" => Good(i))
    BY DEF Inv, AllGood, TypeOK, Events
<1>2. UNCHANGED <<pin, link>>
    BY DEF PassFrame, world
<1>3. /\ ScanTyped' /\ ServingTyped'
      /\ \A j \in Ifaces : j # i => scan'[j] = scan[j] /\ lis'[j] = lis[j]
      /\ \A j \in Ifaces : Same(evq, evq', j)
      /\ \/ lis'[i].kind = "none"
         \/ lis'[i].kind = ServeKind(i, verdict, rival) /\ scan' = scan
    BY <1>1, ServeEffect
<1>4. TypeOK'
    BY <1>1, <1>3, TypeStep DEF PassFrame
<1>5. ASSUME link[i] # "usb" PROVE Good(i)'
    <2>1. Good(i)
        BY <1>1, <1>5
    <2>2. ~Has(evq, <<"SERVE", i>>) /\ (scan[i] \in {"SEGMENT", "HOLD"} \/ Has(evq, <<"DROP", i>>))
        BY <2>1 DEF Good
    <2>3. Served(i)' => scan'[i] \in {"SEGMENT", "HOLD"} \/ Has(evq', <<"DROP", i>>)
        BY <1>3, <2>2 DEF Served, Same
    <2>4. lis'[i].kind \in Followers => ~sn'[i].tx
        BY <1>3, <1>5 DEF Followers
    <2>5. Same(evq, evq', i)
        BY <1>3
    <2> QED BY <1>2, <2>1, <2>2, <2>3, <2>4, <2>5 DEF Good, Same, PassFrame
<1> QED BY <1>2, <1>3, <1>4, <1>5, OneMoves DEF PassFrame

LEMMA JoinInv ==
    ASSUME Inv, NEW i \in Ifaces, JoinBoxMasterOnPinned(i)
    PROVE  Inv'
<1>1. TypeOK /\ UNCHANGED sn
    BY DEF Inv, JoinBoxMasterOnPinned
<1>2. PassFrame
    BY <1>1, PassFrameHolds DEF JoinBoxMasterOnPinned
<1>3. CASE /\ lis[i].kind = "master" /\ pin[i] = "master"
           /\ Serve(i, "SLAVE", "boxm", evq)
    <2>1. Served(i) /\ sn' \in [Ifaces -> Sniffers]
        BY <1>1, <1>3 DEF Served, TypeOK
    <2>2. link[i] # "usb" => ~sn[i].tx
        BY <1>3 DEF Inv, AllGood, Good
    <2> QED BY <1>1, <1>2, <1>3, <2>1, <2>2, ServePass
<1>4. CASE UNCHANGED <<ifscan, serving>>
    BY <1>1, <1>2, <1>4, QuietPass
<1> QED BY <1>3, <1>4 DEF JoinBoxMasterOnPinned

\* Without a rival in its table the hunt of a wire nobody pinned joins nobody.
LEMMA NobodyToFollow ==
    ASSUME NEW i, NEW seen, pin[i] = "auto", ~Rivalled(seen)
    PROVE  /\ Rival(seen) \notin {"desk", "boxm"}
           /\ \A opened, proven : Arbitrate(seen, opened, proven, "auto") # "SLAVE"
           /\ \A v : v # "SLAVE" => ServeKind(i, v, Rival(seen)) \notin Followers
<1>1. Rival(seen) \notin {"desk", "boxm"}
    BY DEF Rivalled, Rival
<1>2. \A opened, proven : Arbitrate(seen, opened, proven, "auto") # "SLAVE"
    BY <1>1 DEF Arbitrate
<1>3. \A v : v # "SLAVE" => ServeKind(i, v, Rival(seen)) \notin Followers
    BY <1>1 DEF ServeKind, DefersAsTap, Followers
<1> QED BY <1>1, <1>2, <1>3

LEMMA YieldInv ==
    ASSUME Inv, NEW i \in Ifaces, HearingYield(i)
    PROVE  Inv'
<1>1. TypeOK
    BY DEF Inv
<1>2. PassFrame
    BY <1>1, PassFrameHolds DEF HearingYield
<1>3. CASE UNCHANGED <<ifscan, sn, serving>>
    BY <1>2, <1>3, QuietPass
<1>4. ASSUME ~UNCHANGED <<ifscan, sn, serving>> PROVE Inv'
    <2>1. PICK v : v = Arbitrate(sn[i].seen, sn[i].opened, sn[i].proven, pin[i])
        OBVIOUS
    <2>2. /\ Served(i) /\ sn' = [sn EXCEPT ![i].verdict = v]
          /\ UNCHANGED <<ifscan, serving>> \/ Serve(i, v, Rival(sn[i].seen), evq)
        BY <1>4, <2>1 DEF HearingYield
    <2>3. v \in Verdicts
        BY <2>1, ArbitrateType
    <2>4. sn[i] \in Sniffers
        BY <1>1 DEF TypeOK
    <2>5. PICK t : t = [sn[i] EXCEPT !.verdict = v]
        OBVIOUS
    <2>6. t \in Sniffers /\ t.tx = sn[i].tx /\ t.kw = sn[i].kw /\ t.seen = sn[i].seen
        BY <2>3, <2>4, <2>5 DEF Sniffers
    <2>7. sn' = [sn EXCEPT ![i] = t]
        BY <1>1, <2>2, <2>5 DEF TypeOK
    <2>8. /\ sn' \in [Ifaces -> Sniffers] /\ \A j \in Ifaces : j # i => sn'[j] = sn[j]
          /\ sn'[i].tx = sn[i].tx /\ sn'[i].kw = sn[i].kw /\ sn'[i].seen = sn[i].seen
        BY <1>1, <2>6, <2>7 DEF TypeOK
    <2>9. ASSUME link[i] # "usb", sn[i].tx
          PROVE  ServeKind(i, v, Rival(sn[i].seen)) \notin Followers
        <3>1. pin[i] = "auto" /\ ~Rivalled(sn[i].seen)
            BY <2>2, <2>9 DEF Inv, AllGood, Good
        <3>2. v # "SLAVE"
            BY <2>1, <3>1, NobodyToFollow
        <3> QED BY <3>1, <3>2, NobodyToFollow
    <2>10. CASE Serve(i, v, Rival(sn[i].seen), evq)
        BY <1>2, <2>2, <2>8, <2>9, <2>10, ServePass
    <2>11. CASE UNCHANGED <<ifscan, serving>>
        <3>1. ScanTyped' /\ scan' = scan /\ \A j \in Ifaces : Same(evq, evq', j)
            BY <1>1, <2>11, ScanKept
        <3>2. ServingTyped' /\ lis' = lis
            BY <1>1, <2>11, ServingKept
        <3>3. TypeOK' /\ UNCHANGED <<pin, link>>
            BY <1>1, <1>2, <2>8, <3>1, <3>2, TypeStep DEF PassFrame, world
        <3>4. ASSUME link[i] # "usb" PROVE Good(i)'
            <4>1. Good(i) /\ Same(evq, evq', i)
                BY <3>1, <3>4 DEF Inv, AllGood
            <4>2. ~Has(evq, <<"SERVE", i>>) /\ Served(i)' = Served(i)
                BY <2>2, <3>2, <4>1 DEF Good, Served
            <4> QED BY <1>2, <2>8, <3>1, <3>2, <3>3, <4>1, <4>2 DEF Good, Same, PassFrame
        <3> QED BY <1>2, <2>8, <3>1, <3>2, <3>3, <3>4, OneMoves DEF PassFrame
    <2> QED BY <2>2, <2>10, <2>11
<1> QED BY <1>3, <1>4

LEMMA TickInv ==
    ASSUME Inv, NEW i \in Ifaces, IfscanTick(i)
    PROVE  Inv'
<1>1. TypeOK /\ UNCHANGED <<sn, serving>> /\ phase = "tick"
    BY DEF Inv, IfscanTick, Turn
<1>2. PassFrame
    BY <1>1, PassFrameHolds DEF IfscanTick
<1>3. CASE UNCHANGED ifscan
    BY <1>1, <1>2, <1>3, QuietPass
<1>4. CASE /\ scan[i] = "HOLD"
           /\ scan' = [scan EXCEPT ![i] = "DOWN"]
           /\ evq' = Append(evq, <<"DROP", i>>)
           /\ UNCHANGED <<hold, retry>>
    <2>1. evq \in Seq(Events) /\ "DROP" \in Verbs /\ <<"DROP", i>> \in Events
        BY <1>1 DEF TypeOK, Events, Verbs
    <2>2. evq' \in Seq(Events) /\ \A j \in Ifaces : j # i => Same(evq, evq', j)
        BY <1>4, <2>1, AppendSame
    <2>3. /\ \A x : Has(evq', x) <=> Has(evq, x) \/ x = <<"DROP", i>>
          /\ \A x : Once(evq, x) /\ x # <<"DROP", i>> => Once(evq', x)
        BY <1>4, <2>1, AppendHas
    <2>4. <<"SERVE", i>> # <<"DROP", i>>
        OBVIOUS
    <2>5. ScanTyped' /\ \A j \in Ifaces : j # i => scan'[j] = scan[j]
        BY <1>1, <1>4, <2>2 DEF ScanTyped, TypeOK, ScanStates
    <2>6. ServingTyped' /\ lis' = lis /\ sn' = sn /\ sn' \in [Ifaces -> Sniffers]
        BY <1>1, ServingKept DEF TypeOK
    <2>7. TypeOK' /\ UNCHANGED <<pin, link>>
        BY <1>1, <1>2, <2>5, <2>6, TypeStep DEF PassFrame, world
    <2>8. ASSUME link[i] # "usb" PROVE Good(i)'
        <3>1. Good(i)
            BY <2>8 DEF Inv, AllGood
        <3>2. ~Has(evq, <<"SERVE", i>>)
            BY <1>4, <3>1 DEF Good
        <3>3. ~Has(evq', <<"SERVE", i>>) /\ Has(evq', <<"DROP", i>>) /\ Once(evq', <<"SERVE", i>>)
            BY <2>3, <2>4, <3>1, <3>2 DEF Good
        <3> QED BY <1>1, <1>2, <2>6, <2>7, <3>1, <3>2, <3>3 DEF Good, PassFrame
    <2> QED BY <1>2, <2>2, <2>5, <2>6, <2>7, <2>8, OneMoves DEF PassFrame
<1> QED BY <1>3, <1>4 DEF IfscanTick

LEMMA TopoInv ==
    ASSUME Inv, NEW i \in Ifaces, TopoApply(i)
    PROVE  Inv'
<1>1. TypeOK /\ UNCHANGED <<ifscan, sn>>
    BY DEF Inv, TopoApply
<1>2. PassFrame
    BY <1>1, PassFrameHolds DEF TopoApply
<1>3. CASE Served(i) /\ Drop(i)
    <2>1. Listener("none") \in Listeners /\ Listener("none").kind \notin Followers
        BY ListenerType DEF Kinds, Followers
    <2>2. lis' = [lis EXCEPT ![i] = Listener("none")] /\ past' \in [Ifaces -> BOOLEAN]
        BY <1>1, <1>3 DEF Drop, TypeOK
    <2> QED BY <1>1, <1>2, <1>3, <2>1, <2>2, ListenerPass
<1>4. CASE UNCHANGED serving
    BY <1>1, <1>2, <1>4, QuietPass
<1> QED BY <1>3, <1>4 DEF TopoApply

-----------------------------------------------------------------------------
(* hearing_hunt.                                                           *)

\* A linked interface at its turn of the hunt has nothing served and nothing queued.
LEMMA HuntedIsFree ==
    ASSUME NEW i \in Ifaces, Good(i), phase = "hunt", i \in todo, scan[i] = "LINKED"
    PROVE  ~Served(i) /\ ~Has(evq, <<"SERVE", i>>) /\ ~Has(evq, <<"DROP", i>>)
BY DEF Good

\* The hunt's turn on a linked interface, told by what it leaves of the sniffer: a knock
\* only where nobody pinned the wire, and over a master in the table only if it is served.
LEMMA HuntPass ==
    ASSUME Inv, NEW i \in Ifaces, PassFrame, phase = "hunt", i \in todo, i \notin todo',
           scan[i] = "LINKED", UNCHANGED serving,
           sn' \in [Ifaces -> Sniffers], \A j \in Ifaces : j # i => sn'[j] = sn[j],
           link[i] # "usb" /\ sn'[i].tx => pin[i] = "auto" /\ sn'[i].kw = "KNOCKING",
           \/ HeardSegment(i)
              /\ (link[i] # "usb" /\ sn'[i].tx /\ Rivalled(sn'[i].seen) => sn'[i].verdict = "SLAVE")
           \/ UNCHANGED ifscan
              /\ (link[i] # "usb" /\ sn'[i].tx => ~Rivalled(sn'[i].seen))
    PROVE  Inv'
<1>1. TypeOK /\ UNCHANGED <<pin, link>>
    BY DEF Inv, PassFrame, world
<1>2. ServingTyped' /\ lis' = lis
    BY <1>1, ServingKept
<1>3. ASSUME link[i] # "usb"
      PROVE  Good(i) /\ ~Served(i) /\ ~Has(evq, <<"SERVE", i>>) /\ ~Has(evq, <<"DROP", i>>)
    BY <1>3, HuntedIsFree DEF Inv, AllGood
<1>4. Served(i)' = Served(i) /\ (~Served(i) => lis'[i].kind \notin Followers)
    BY <1>2 DEF Served, Followers
<1>5. CASE HeardSegment(i)
           /\ (link[i] # "usb" /\ sn'[i].tx /\ Rivalled(sn'[i].seen) => sn'[i].verdict = "SLAVE")
    <2>1. evq \in Seq(Events) /\ "SERVE" \in Verbs /\ <<"SERVE", i>> \in Events
        BY <1>1 DEF TypeOK, Events, Verbs
    <2>2. evq' \in Seq(Events) /\ \A j \in Ifaces : j # i => Same(evq, evq', j)
        BY <1>5, <2>1, AppendSame DEF HeardSegment
    <2>3. /\ \A x : Has(evq', x) <=> Has(evq, x) \/ x = <<"SERVE", i>>
          /\ \A x : Once(evq, x) /\ ~Has(evq, x) => Once(evq', x)
        BY <1>5, <2>1, AppendHas DEF HeardSegment
    <2>4. <<"DROP", i>> # <<"SERVE", i>>
        OBVIOUS
    <2>5. ScanTyped' /\ scan'[i] = "SEGMENT" /\ \A j \in Ifaces : j # i => scan'[j] = scan[j]
        BY <1>1, <1>5, <2>2 DEF HeardSegment, ScanTyped, TypeOK, ScanStates
    <2>6. TypeOK'
        BY <1>1, <1>2, <2>5, TypeStep DEF PassFrame
    <2>7. ASSUME link[i] # "usb" PROVE Good(i)'
        <3>1. Has(evq', <<"SERVE", i>>) /\ ~Has(evq', <<"DROP", i>>) /\ Once(evq', <<"SERVE", i>>)
            BY <1>3, <2>3, <2>4, <2>7 DEF Good
        <3>2. phase' = "hunt"
            BY DEF PassFrame
        <3> QED BY <1>1, <1>3, <1>4, <1>5, <2>5, <2>7, <3>1, <3>2 DEF Good
    <2> QED BY <1>1, <1>2, <2>2, <2>5, <2>6, <2>7, OneMoves DEF PassFrame
<1>6. CASE UNCHANGED ifscan /\ (link[i] # "usb" /\ sn'[i].tx => ~Rivalled(sn'[i].seen))
    <2>1. ScanTyped' /\ scan' = scan /\ \A j \in Ifaces : Same(evq, evq', j)
        BY <1>1, <1>6, ScanKept
    <2>2. TypeOK'
        BY <1>1, <1>2, <2>1, TypeStep DEF PassFrame
    <2>3. ASSUME link[i] # "usb" PROVE Good(i)'
        <3>1. ~Has(evq', <<"SERVE", i>>) /\ ~Has(evq', <<"DROP", i>>) /\ Once(evq', <<"SERVE", i>>)
            BY <1>3, <2>1, <2>3 DEF Good, Same
        <3> QED BY <1>1, <1>3, <1>4, <1>6, <2>3, <3>1 DEF Good
    <2> QED BY <1>1, <1>2, <2>1, <2>2, <2>3, OneMoves DEF PassFrame
<1> QED BY <1>5, <1>6

\* What the knock's step keeps of a sniffer.
LEMMA KnockStepKeeps ==
    ASSUME NEW s \in Sniffers, NEW ok \in BOOLEAN, s.tx => s.kw = "KNOCKING"
    PROVE  /\ KnockStep(s, ok).seen = s.seen
           /\ KnockStep(s, ok).tx => KnockStep(s, ok).kw = "KNOCKING"
BY DEF KnockStep, Sniffers

LEMMA HuntInv ==
    ASSUME Inv, NEW i \in Ifaces, HearingHunt(i)
    PROVE  Inv'
<1>1. TypeOK /\ UNCHANGED serving /\ sn[i] \in Sniffers
    BY DEF Inv, HearingHunt, TypeOK
<1>2. PassFrame
    BY <1>1, PassFrameHolds DEF HearingHunt
<1>3. phase = "hunt" /\ i \in todo /\ i \notin todo'
    BY DEF HearingHunt, Turn
<1>4. link[i] # "usb" =>
         /\ sn[i].tx => pin[i] = "auto" /\ sn[i].kw = "KNOCKING"
         /\ sn[i].tx => ~Rivalled(sn[i].seen)
    BY <1>3 DEF Inv, AllGood, Good
<1>5. CASE UNCHANGED <<ifscan, sn>>
    BY <1>1, <1>2, <1>5, QuietPass
<1>6. CASE /\ scan[i] = "LINKED"
           /\ sn' = [sn EXCEPT ![i].kw = "TRUNK", ![i].tx = FALSE]
           /\ UNCHANGED ifscan
    <2>1. PICK t : t = [sn[i] EXCEPT !.kw = "TRUNK", !.tx = FALSE]
        OBVIOUS
    <2>2. t \in Sniffers /\ ~t.tx
        BY <1>1, <2>1 DEF Sniffers, Knocks
    <2>3. sn' = [sn EXCEPT ![i] = t]
        BY <1>1, <1>6, <2>1 DEF TypeOK
    <2>4. sn' \in [Ifaces -> Sniffers] /\ ~sn'[i].tx /\ \A j \in Ifaces : j # i => sn'[j] = sn[j]
        BY <1>1, <2>2, <2>3 DEF TypeOK
    <2> QED BY <1>1, <1>2, <1>3, <1>6, <2>4, HuntPass
<1>7. CASE scan[i] = "LINKED" /\ pin[i] = "tap" /\ HeardSegment(i) /\ UNCHANGED sn
    <2>1. sn' \in [Ifaces -> Sniffers] /\ sn'[i] = sn[i] /\ \A j \in Ifaces : j # i => sn'[j] = sn[j]
        BY <1>1, <1>7 DEF TypeOK
    <2>2. link[i] # "usb" => ~sn'[i].tx
        BY <1>4, <1>7, <2>1
    <2> QED BY <1>1, <1>2, <1>3, <1>7, <2>1, <2>2, HuntPass
<1>8. CASE /\ scan[i] = "LINKED"
           /\ \E ok \in {TRUE, ~OpenMayFail} :
                 LET k == IF pin[i] = "auto" THEN KnockStep(sn[i], ok) ELSE sn[i]
                     s == HuntStep(k, pin[i])
                     u == Undecided(s, pin[i])
                 IN  /\ sn' = [sn EXCEPT ![i] = [s EXCEPT !.said = @ \/ u]]
                     /\ \/ (s.verdict # "HUNTING" \/ u) /\ HeardSegment(i)
                        \/ s.verdict = "HUNTING" /\ ~u /\ UNCHANGED ifscan
    <2>1. PICK ok \in {TRUE, ~OpenMayFail} :
              LET k == IF pin[i] = "auto" THEN KnockStep(sn[i], ok) ELSE sn[i]
                  s == HuntStep(k, pin[i])
                  u == Undecided(s, pin[i])
              IN  /\ sn' = [sn EXCEPT ![i] = [s EXCEPT !.said = @ \/ u]]
                  /\ \/ (s.verdict # "HUNTING" \/ u) /\ HeardSegment(i)
                     \/ s.verdict = "HUNTING" /\ ~u /\ UNCHANGED ifscan
        BY <1>8
    <2>2. ok \in BOOLEAN
        OBVIOUS
    <2>3. PICK k : k = IF pin[i] = "auto" THEN KnockStep(sn[i], ok) ELSE sn[i]
        OBVIOUS
    <2>4. PICK s : s = HuntStep(k, pin[i])
        OBVIOUS
    <2>5. PICK u : u = Undecided(s, pin[i])
        OBVIOUS
    <2>6. /\ sn' = [sn EXCEPT ![i] = [s EXCEPT !.said = @ \/ u]]
          /\ \/ (s.verdict # "HUNTING" \/ u) /\ HeardSegment(i)
             \/ s.verdict = "HUNTING" /\ ~u /\ UNCHANGED ifscan
        BY <2>1, <2>3, <2>4, <2>5, Zenon
    <2>7. k \in Sniffers
        BY <1>1, <2>2, <2>3, KnockStepType
    <2>8. k.seen = sn[i].seen
        <3>1. KnockStep(sn[i], ok).seen = sn[i].seen
            BY <1>1 DEF KnockStep, Sniffers
        <3> QED BY <2>3, <3>1
    <2>9. link[i] # "usb" /\ k.tx => pin[i] = "auto" /\ k.kw = "KNOCKING"
        <3>1. ASSUME link[i] # "usb", k.tx PROVE pin[i] = "auto"
            BY <1>4, <2>3, <3>1
        <3>2. ASSUME link[i] # "usb", k.tx PROVE k.kw = "KNOCKING"
            <4>1. k = KnockStep(sn[i], ok)
                BY <2>3, <3>1, <3>2
            <4>2. sn[i].tx => sn[i].kw = "KNOCKING"
                BY <1>4, <3>2
            <4> QED BY <1>1, <3>2, <4>1, <4>2, KnockStepKeeps
        <3> QED BY <3>1, <3>2
    <2>10. PICK v \in Verdicts : v = Arbitrate(k.seen, k.opened, k.proven, pin[i])
        BY ArbitrateType
    <2>11. PICK b : b = IF v = "MASTER" THEN Keep("MASTER", Pinned(pin[i])) ELSE k.watched
        OBVIOUS
    <2>12. b \in BOOLEAN
        BY <2>7, <2>11 DEF Keep, Sniffers
    <2>13. s = [k EXCEPT !.verdict = v, !.watched = b]
        BY <2>4, <2>10, <2>11 DEF HuntStep
    <2>14. /\ s \in Sniffers /\ s.verdict = v
          /\ s.tx = k.tx /\ s.kw = k.kw /\ s.seen = k.seen
        BY <2>7, <2>10, <2>12, <2>13 DEF Sniffers
    <2>15. PICK w : w = (s.said \/ u)
        OBVIOUS
    <2>16. w \in BOOLEAN
        BY <2>15
    <2>17. PICK t : t = [s EXCEPT !.said = w]
        OBVIOUS
    <2>18. /\ t \in Sniffers /\ t.verdict = v
           /\ t.tx = k.tx /\ t.kw = k.kw /\ t.seen = k.seen
        BY <2>14, <2>16, <2>17 DEF Sniffers
    <2>19. sn' = [sn EXCEPT ![i] = t]
        BY <2>6, <2>15, <2>17
    <2>20. sn' \in [Ifaces -> Sniffers] /\ sn'[i] = t /\ \A j \in Ifaces : j # i => sn'[j] = sn[j]
        BY <1>1, <2>18, <2>19 DEF TypeOK
    <2>21. ASSUME link[i] # "usb", t.tx, Rivalled(t.seen) PROVE v = "SLAVE"
        <3>1. pin[i] = "auto" /\ Rivalled(k.seen)
            BY <2>9, <2>18, <2>21
        <3>2. Rival(k.seen) \in {"desk", "boxm"}
            BY <3>1 DEF Rivalled, Rival
        <3> QED BY <2>10, <3>1, <3>2 DEF Arbitrate
    <2>22. link[i] # "usb" /\ sn'[i].tx => pin[i] = "auto" /\ sn'[i].kw = "KNOCKING"
        BY <2>9, <2>18, <2>20
    <2>23. CASE HeardSegment(i)
        BY <1>1, <1>2, <1>3, <1>8, <2>18, <2>20, <2>21, <2>22, <2>23, HuntPass
    <2>24. CASE s.verdict = "HUNTING" /\ UNCHANGED ifscan
        <3>1. link[i] # "usb" /\ sn'[i].tx => ~Rivalled(sn'[i].seen)
            BY <2>14, <2>20, <2>21, <2>24
        <3> QED BY <1>1, <1>2, <1>3, <1>8, <2>20, <2>22, <2>24, <3>1, HuntPass
    <2> QED BY <2>6, <2>23, <2>24
<1> QED BY <1>5, <1>6, <1>7, <1>8 DEF HearingHunt

-----------------------------------------------------------------------------
(* hearing_apply.                                                          *)

LEMMA ApplyFrameHolds ==
    ASSUME TypeOK, UNCHANGED <<world, ask, where>>, tag' \in [Ifaces -> Taps]
    PROVE  PassFrame
BY DEF PassFrame, TypeOK, where

\* An event that is not a SERVE.
LEMMA ApplyPass ==
    ASSUME Inv, PassFrame, phase = "apply", evq # <<>>, NEW verb, NEW i \in Ifaces,
           Head(evq) = <<verb, i>>, verb # "SERVE",
           evq' = Tail(evq), UNCHANGED <<scan, hold, retry>>, ServingTyped',
           sn' \in [Ifaces -> Sniffers],
           \A j \in Ifaces : j # i => sn'[j] = sn[j] /\ lis'[j] = lis[j],
           sn'[i] = sn[i] \/ ~sn'[i].tx,
           lis'[i].kind = "none" \/ (lis'[i].kind = lis[i].kind /\ verb # "DROP")
    PROVE  Inv'
<1>1. TypeOK /\ evq \in Seq(Events) /\ UNCHANGED <<pin, link>>
    BY DEF Inv, TypeOK, Events, PassFrame, world
<1>2. /\ evq' \in Seq(Events)
      /\ \A j \in Ifaces : j # i => Same(evq, evq', j)
    BY <1>1, TailSame
<1>3. /\ \A x : Has(evq, x) <=> Has(evq', x) \/ x = <<verb, i>>
      /\ \A x : Once(evq, x) => Once(evq', x)
    BY <1>1, TailHas
<1>4. ScanTyped'
    BY <1>1, <1>2 DEF ScanTyped, TypeOK
<1>5. TypeOK'
    BY <1>1, <1>4, TypeStep DEF PassFrame
<1>6. ASSUME link[i] # "usb" PROVE Good(i)'
    <2>1. Good(i)
        BY <1>6 DEF Inv, AllGood
    <2>2. <<verb, i>> # <<"SERVE", i>> /\ (verb # "DROP" => <<verb, i>> # <<"DROP", i>>)
        OBVIOUS
    <2>3. /\ Has(evq', <<"SERVE", i>>) <=> Has(evq, <<"SERVE", i>>)
          /\ Has(evq', <<"DROP", i>>) => Has(evq, <<"DROP", i>>)
          /\ verb # "DROP" /\ Has(evq, <<"DROP", i>>) => Has(evq', <<"DROP", i>>)
          /\ Once(evq, <<"SERVE", i>>) => Once(evq', <<"SERVE", i>>)
        BY <1>3, <2>2
    <2>4. CASE lis'[i].kind = "none"
        <3>1. ~Served(i)' /\ lis'[i].kind \notin Followers
            BY <2>4 DEF Served, Followers
        <3> QED BY <1>1, <2>1, <2>3, <3>1 DEF Good, PassFrame
    <2>5. CASE lis'[i].kind = lis[i].kind /\ verb # "DROP"
        <3>1. Served(i)' = Served(i)
            BY <2>5 DEF Served
        <3> QED BY <1>1, <2>1, <2>3, <2>5, <3>1 DEF Good, PassFrame
    <2> QED BY <2>4, <2>5
<1> QED BY <1>1, <1>2, <1>5, <1>6, OneMoves DEF PassFrame

\* A SERVE: the segment it is for is not served yet, and the sniffer it keeps, if any, is
\* one whose verdict follows nobody.
LEMMA ApplyServeInv ==
    ASSUME Inv, PassFrame, phase = "apply", evq # <<>>, NEW i \in Ifaces,
           Head(evq) = <<"SERVE", i>>, ApplyServe(i)
    PROVE  Inv'
<1>1. TypeOK /\ evq \in Seq(Events) /\ UNCHANGED <<pin, link>> /\ sn[i] \in Sniffers
    BY DEF Inv, TypeOK, Events, PassFrame, world
<1>2. /\ Tail(evq) \in Seq(Events)
      /\ \A j \in Ifaces : j # i => Same(evq, Tail(evq), j)
    BY <1>1, TailSame
<1>3. /\ Has(evq, <<"SERVE", i>>)
      /\ \A x : Has(Tail(evq), x) => Has(evq, x)
      /\ Once(evq, <<"SERVE", i>>) =>
            Once(Tail(evq), <<"SERVE", i>>) /\ ~Has(Tail(evq), <<"SERVE", i>>)
    BY <1>1, TailHas
<1>4. PICK t : t = IF ~(sn[i].open /\ Keep(sn[i].verdict, Pinned(pin[i]))) THEN Closed
                   ELSE IF sn[i].answer
                   THEN [sn[i] EXCEPT !.answer = FALSE,
                                      !.kw = IF @ = "ANSWERED" THEN "LISTENING" ELSE @]
                   ELSE sn[i]
    OBVIOUS
<1>5. /\ t \in Sniffers
      /\ t.tx => /\ sn[i].tx /\ t.seen = sn[i].seen /\ sn[i].verdict # "SLAVE"
                 /\ sn[i].kw = "KNOCKING" => t.kw = "KNOCKING"
    <2>1. CASE ~(sn[i].open /\ Keep(sn[i].verdict, Pinned(pin[i])))
        <3>1. t = Closed /\ ~Closed.tx
            BY <1>4, <2>1 DEF Closed
        <3> QED BY <3>1, ClosedType
    <2>2. CASE sn[i].open /\ Keep(sn[i].verdict, Pinned(pin[i])) /\ sn[i].answer
        <3>1. PICK k : k = IF sn[i].kw = "ANSWERED" THEN "LISTENING" ELSE sn[i].kw
            OBVIOUS
        <3>2. k \in Knocks /\ (sn[i].kw = "KNOCKING" => k = "KNOCKING")
            BY <1>1, <3>1 DEF Sniffers, Knocks
        <3>3. t = [sn[i] EXCEPT !.answer = FALSE, !.kw = k]
            BY <1>4, <2>2, <3>1
        <3>4. t \in Sniffers /\ t.tx = sn[i].tx /\ t.seen = sn[i].seen /\ t.kw = k
            BY <1>1, <3>2, <3>3 DEF Sniffers
        <3>5. sn[i].verdict # "SLAVE"
            BY <2>2 DEF Keep
        <3> QED BY <3>2, <3>4, <3>5
    <2>3. CASE sn[i].open /\ Keep(sn[i].verdict, Pinned(pin[i])) /\ ~sn[i].answer
        <3>1. t = sn[i] /\ sn[i].verdict # "SLAVE"
            BY <1>4, <2>3 DEF Keep
        <3> QED BY <1>1, <3>1
    <2> QED BY <2>1, <2>2, <2>3
<1>6. sn' = [sn EXCEPT ![i] = t]
    BY <1>4 DEF ApplyServe
<1>7. sn' \in [Ifaces -> Sniffers] /\ sn'[i] = t /\ \A j \in Ifaces : j # i => sn'[j] = sn[j]
    BY <1>1, <1>5, <1>6 DEF TypeOK
<1>8. PICK v : v = IF sn[i].open THEN sn[i].verdict ELSE "MASTER"
    OBVIOUS
<1>9. v \in Verdicts /\ (sn[i].verdict # "SLAVE" => v # "SLAVE")
    BY <1>1, <1>8 DEF Sniffers, Verdicts
<1>10. CASE ~Served(i) /\ Serve(i, v, Rival(sn[i].seen), Tail(evq))
    <2>1. PICK q \in Seq(Events) : q = Tail(evq)
        BY <1>2
    <2>2. /\ ScanTyped' /\ ServingTyped'
          /\ \A j \in Ifaces : j # i => scan'[j] = scan[j] /\ lis'[j] = lis[j]
          /\ \A j \in Ifaces : Same(q, evq', j)
          /\ \/ lis'[i].kind = "none"
             \/ lis'[i].kind = ServeKind(i, v, Rival(sn[i].seen)) /\ scan' = scan
        BY <1>1, <1>10, <1>9, <2>1, ServeEffect
    <2>3. TypeOK'
        BY <1>1, <1>7, <2>2, TypeStep DEF PassFrame
    <2>4. \A j \in Ifaces : j # i => Same(evq, evq', j)
        BY <1>2, <2>1, <2>2 DEF Same
    <2>5. ASSUME link[i] # "usb" PROVE Good(i)'
        <3>1. Good(i) /\ scan[i] = "SEGMENT"
            BY <1>3, <2>5 DEF Inv, AllGood, Good
        <3>2. ~Has(evq', <<"SERVE", i>>) /\ Once(evq', <<"SERVE", i>>)
            BY <1>3, <2>1, <2>2, <3>1 DEF Same, Good
        <3>3. Served(i)' => scan'[i] = "SEGMENT"
            BY <2>2, <3>1 DEF Served
        <3>4. t.tx => pin[i] = "auto" /\ t.kw = "KNOCKING" /\ ~Rivalled(t.seen)
            BY <1>5, <3>1 DEF Good
        <3>5. ASSUME lis'[i].kind \in Followers PROVE ~t.tx
            <4>1. lis'[i].kind = ServeKind(i, v, Rival(sn[i].seen))
                BY <2>2, <3>5 DEF Followers
            <4>2. SUFFICES ASSUME t.tx PROVE FALSE
                OBVIOUS
            <4>3. pin[i] = "auto" /\ ~Rivalled(sn[i].seen) /\ v # "SLAVE"
                BY <1>5, <1>9, <3>4, <4>2
            <4> QED BY <3>5, <4>1, <4>3, NobodyToFollow
        <3>6. phase' = "apply"
            BY DEF PassFrame
        <3> QED BY <1>1, <1>7, <3>2, <3>3, <3>4, <3>5, <3>6 DEF Good
    <2> QED BY <1>1, <1>7, <2>2, <2>3, <2>4, <2>5, OneMoves DEF PassFrame
<1>11. CASE Served(i) /\ evq' = Tail(evq) /\ UNCHANGED <<scan, hold, retry, serving>>
    <2>1. ServingTyped' /\ lis' = lis
        BY <1>1, <1>11, ServingKept
    <2>2. ScanTyped'
        BY <1>1, <1>2, <1>11 DEF ScanTyped, TypeOK
    <2>3. TypeOK'
        BY <1>1, <1>7, <2>1, <2>2, TypeStep DEF PassFrame
    <2>4. link[i] = "usb"
        BY <1>3, <1>11 DEF Inv, AllGood, Good
    <2> QED BY <1>1, <1>2, <1>7, <1>11, <2>1, <2>3, <2>4, OneMoves DEF PassFrame
<1> QED BY <1>8, <1>10, <1>11 DEF ApplyServe

\* What on_topo_io, topo_watch_iface and topo_unwatch_iface leave is a tap.
LEMMA TapTypes ==
    /\ NoTap \in Taps
    /\ \A t \in Taps : /\ TapOpened(t) \in Taps /\ TapClosed(t) \in Taps
                       /\ \A tags \in BOOLEAN : TapRead(t, tags) \in Taps
<1>1. 0 \in 0..Reclass /\ Reclass \in 0..Reclass
    BY ConstantsAreNumbers
<1>2. NoTap \in Taps
    BY <1>1 DEF NoTap, Taps
<1>3. ASSUME NEW t \in Taps
      PROVE  /\ TapOpened(t) \in Taps /\ TapClosed(t) \in Taps
             /\ \A tags \in BOOLEAN : TapRead(t, tags) \in Taps
    <2>1. ASSUME NEW age \in 0..Reclass PROVE [t EXCEPT !.open = TRUE, !.age = age] \in Taps
        BY DEF Taps
    <2>2. TapOpened(t) \in Taps
        BY <1>1, <2>1 DEF TapOpened, Taps
    <2>3. TapClosed(t) \in Taps
        BY <1>1 DEF TapClosed, Taps
    <2>4. t.age \in 0..Reclass
        BY DEF Taps
    <2>5. Older(t.age, Reclass) \in 0..Reclass
        BY <2>4, ConstantsAreNumbers, OlderType
    <2>6. ASSUME NEW tags \in BOOLEAN PROVE TapRead(t, tags) \in Taps
        BY <1>1, <2>5 DEF TapRead, Taps
    <2> QED BY <2>2, <2>3, <2>6
<1> QED BY <1>2, <1>3

LEMMA ApplyInv ==
    ASSUME Inv, HearingApply
    PROVE  Inv'
<1>1. TypeOK /\ phase = "apply" /\ evq # <<>> /\ evq \in Seq(Events) /\ UNCHANGED <<world, ask, where>>
    BY DEF Inv, HearingApply, TypeOK, Events
<1>2. PICK verb \in Verbs, i \in Ifaces : Head(evq) = <<verb, i>>
    BY <1>1, TailSame
<1>3. NoTap \in Taps /\ \A t \in Taps : TapOpened(t) \in Taps /\ TapClosed(t) \in Taps
    BY TapTypes
<1>4. CASE verb = "SERVE" /\ ApplyServe(i)
    <2>1. PassFrame
        BY <1>1, <1>4, ApplyFrameHolds DEF ApplyServe, TypeOK
    <2> QED BY <1>1, <1>2, <1>4, <2>1, ApplyServeInv
<1>5. ASSUME verb # "SERVE", evq' = Tail(evq), UNCHANGED <<scan, hold, retry>>
      PROVE  /\ verb = "LISTEN" /\ sn' = (IF sn[i].open THEN sn ELSE [sn EXCEPT ![i] = Fresh])
                /\ tag' = [tag EXCEPT ![i] = TapOpened(@)] /\ UNCHANGED serving => Inv'
             /\ verb = "UNLISTEN" /\ sn' = [sn EXCEPT ![i] = Closed]
                /\ tag' = [tag EXCEPT ![i] = TapClosed(@)] /\ UNCHANGED serving => Inv'
             /\ verb = "DROP" /\ ApplyDrop(i) => Inv'
             /\ verb = "KEPT" /\ UNCHANGED <<sn, serving, tag>> => Inv'
    <2>1. Fresh \in Sniffers /\ Closed \in Sniffers /\ ~Fresh.tx /\ ~Closed.tx
        BY ClosedType DEF Fresh, Closed
    <2>2. sn \in [Ifaces -> Sniffers] /\ tag \in [Ifaces -> Taps]
        BY <1>1 DEF TypeOK
    <2>3. ASSUME verb = "LISTEN", sn' = (IF sn[i].open THEN sn ELSE [sn EXCEPT ![i] = Fresh]),
                 tag' = [tag EXCEPT ![i] = TapOpened(@)], UNCHANGED serving
          PROVE  Inv'
        <3>1. ServingTyped' /\ lis' = lis /\ PassFrame
            BY <1>1, <1>3, <2>2, <2>3, ServingKept, ApplyFrameHolds
        <3>2. /\ sn' \in [Ifaces -> Sniffers] /\ \A j \in Ifaces : j # i => sn'[j] = sn[j]
              /\ sn'[i] = sn[i] \/ ~sn'[i].tx
            BY <2>1, <2>2, <2>3
        <3> QED BY <1>1, <1>2, <1>5, <2>3, <3>1, <3>2, ApplyPass
    <2>4. ASSUME verb = "UNLISTEN", sn' = [sn EXCEPT ![i] = Closed],
                 tag' = [tag EXCEPT ![i] = TapClosed(@)], UNCHANGED serving
          PROVE  Inv'
        <3>1. ServingTyped' /\ lis' = lis /\ PassFrame
            BY <1>1, <1>3, <2>2, <2>4, ServingKept, ApplyFrameHolds
        <3>2. sn' \in [Ifaces -> Sniffers] /\ ~sn'[i].tx /\ \A j \in Ifaces : j # i => sn'[j] = sn[j]
            BY <2>1, <2>2, <2>4
        <3> QED BY <1>1, <1>2, <1>5, <2>4, <3>1, <3>2, ApplyPass
    <2>5. ASSUME verb = "DROP", ApplyDrop(i) PROVE Inv'
        <3>1. PassFrame
            BY <1>1, <1>3, <2>2, <2>5, ApplyFrameHolds DEF ApplyDrop
        <3>2. ServingTyped' /\ lis'[i].kind = "none" /\ \A j \in Ifaces : j # i => lis'[j] = lis[j]
            BY <1>1, <2>5, DropEffect DEF ApplyDrop
        <3>3. sn' \in [Ifaces -> Sniffers] /\ ~sn'[i].tx /\ \A j \in Ifaces : j # i => sn'[j] = sn[j]
            BY <2>1, <2>2, <2>5 DEF ApplyDrop
        <3> QED BY <1>1, <1>2, <1>5, <2>5, <3>1, <3>2, <3>3, ApplyPass
    <2>6. ASSUME verb = "KEPT", UNCHANGED <<sn, serving, tag>> PROVE Inv'
        <3>1. ServingTyped' /\ lis' = lis /\ PassFrame
            BY <1>1, <2>2, <2>6, ServingKept, ApplyFrameHolds
        <3> QED BY <1>1, <1>2, <1>5, <2>2, <2>6, <3>1, ApplyPass
    <2> QED BY <2>3, <2>4, <2>5, <2>6
<1>6. Head(evq)[1] = verb /\ Head(evq)[2] = i
    BY <1>2
<1> QED BY <1>4, <1>5, <1>6 DEF HearingApply

-----------------------------------------------------------------------------
(* The timer, the order of the passes, and the world between two polls.    *)

\* What a poll's frames leave of a knock: a master heard under it has ended it.
LEMMA DrainKeeps ==
    ASSUME NEW s \in Sniffers, NEW gear \in SUBSET Gear, s.tx => s.kw = "KNOCKING",
           Drain(s, gear).tx
    PROVE  /\ s.tx /\ Drain(s, gear).kw = "KNOCKING"
           /\ Rivalled(Drain(s, gear).seen) => Rivalled(s.seen)
<1>1. PICK v : v = Drain(s, gear)
    OBVIOUS
<1>2. v.tx = (s.tx /\ ~(s.kw = "KNOCKING" /\ gear \cap Evidence # {}))
    BY <1>1 DEF Drain
<1>3. s.tx /\ gear \cap Evidence = {}
    BY <1>1, <1>2
<1>4. v.kw = "KNOCKING"
    BY <1>1, <1>3 DEF Drain
<1>5. "desk" \notin gear /\ "boxm" \notin gear
    BY <1>3 DEF Evidence
<1>6. ASSUME NEW g \in {"desk", "boxm"}, Live(v.seen, g) PROVE Live(s.seen, g)
    <2>1. g \in Gear /\ g \notin gear
        BY <1>5 DEF Gear
    <2>2. v.seen[g] = Older(s.seen[g], Stale)
        BY <1>1, <2>1 DEF Drain
    <2>3. s.seen[g] \in 0..Stale
        BY <2>1 DEF Sniffers
    <2> QED BY <1>6, <2>2, <2>3, ConstantsAreNumbers DEF Live, Older
<1> QED BY <1>1, <1>3, <1>4, <1>6 DEF Rivalled

LEMMA BeginPollInv ==
    ASSUME Inv, BeginPoll
    PROVE  Inv'
<1>1. /\ TypeOK /\ phase = "idle" /\ phase' = "requests" /\ todo' = Ifaces
      /\ UNCHANGED <<world, ask, scan, evq, serving>>
    BY DEF Inv, BeginPoll
<1>2. \A i \in Ifaces : OnWire(i) \in SUBSET Gear
    BY <1>1, HearingAssumption DEF TypeOK, OnWire
<1>3. \A i \in Ifaces : sn'[i] = IF sn[i].open THEN Drain(sn[i], OnWire(i)) ELSE sn[i]
    BY DEF BeginPoll
<1>4. sn' \in [Ifaces -> Sniffers]
    <2>1. ASSUME NEW i \in Ifaces
          PROVE  (IF sn[i].open THEN Drain(sn[i], OnWire(i)) ELSE sn[i]) \in Sniffers
        <3>1. sn[i] \in Sniffers
            BY <1>1 DEF TypeOK
        <3> QED BY <1>2, <3>1, DrainType
    <2> QED BY <2>1 DEF BeginPoll
<1>5. hold' \in [Ifaces -> 0..DownHold] /\ retry' \in [Ifaces -> 0..Retry]
    <2>1. ASSUME NEW bar \in Nat, NEW age \in 0..bar
          PROVE  (IF age > 0 THEN age - 1 ELSE 0) \in 0..bar
        OBVIOUS
    <2>2. \A i \in Ifaces : hold[i] \in 0..DownHold /\ retry[i] \in 0..Retry
        BY <1>1 DEF TypeOK
    <2> QED BY <2>1, <2>2, ConstantsAreNumbers DEF BeginPoll
<1>6. tag' \in [Ifaces -> Taps]
    <2>1. \A i \in Ifaces : TapRead(tag[i], tagged[i] /\ carrier[i]) \in Taps
        BY <1>1, TapTypes DEF TypeOK
    <2> QED BY <2>1 DEF BeginPoll
<1>7. ScanTyped' /\ ServingTyped' /\ ask' \in [Ifaces -> Asks]
    BY <1>1, <1>5, ServingKept DEF ScanTyped, TypeOK, Events
<1>8. TypeOK'
    BY <1>1, <1>4, <1>6, <1>7, TypeStep DEF Phases
<1>9. ASSUME NEW i \in Ifaces, link[i] # "usb" PROVE Good(i)'
    <2>1. Good(i) /\ sn[i] \in Sniffers
        BY <1>1, <1>9 DEF Inv, AllGood, TypeOK
    <2>2. ~Has(evq', <<"SERVE", i>>) /\ ~Has(evq', <<"DROP", i>>) /\ evq' = evq
        BY <1>1, <2>1 DEF Good
    <2>3. pin' = pin /\ scan' = scan /\ lis' = lis /\ Served(i)' = Served(i)
        BY <1>1 DEF world, serving, Served
    <2>4. ASSUME sn'[i].tx
          PROVE  sn[i].tx /\ sn'[i].kw = "KNOCKING" /\ ~Rivalled(sn'[i].seen)
        <3>1. sn[i].tx => sn[i].kw = "KNOCKING" /\ ~Rivalled(sn[i].seen)
            BY <2>1, <2>2 DEF Good
        <3>2. CASE sn[i].open
            <4>1. sn'[i] = Drain(sn[i], OnWire(i)) /\ OnWire(i) \in SUBSET Gear
                BY <1>2, <1>3, <3>2
            <4> QED BY <2>1, <2>4, <3>1, <4>1, DrainKeeps
        <3>3. CASE ~sn[i].open
            <4>1. sn'[i] = sn[i]
                BY <1>3, <3>3
            <4> QED BY <2>4, <3>1, <4>1
        <3> QED BY <3>2, <3>3
    <2> QED BY <2>1, <2>2, <2>3, <2>4 DEF Good
<1>10. link' = link
    BY <1>1 DEF world
<1> QED BY <1>8, <1>9, <1>10 DEF Inv, AllGood

LEMMA NextPassInv ==
    ASSUME Inv, NextPass
    PROVE  Inv'
<1>1. /\ TypeOK /\ phase # "idle" /\ phase' = After[phase] /\ (phase = "apply" => evq = <<>>)
      /\ UNCHANGED <<world, ask, ifscan, sn, serving, tag>>
    BY DEF Inv, NextPass
<1>2. /\ phase' \in Phases
      /\ phase' = "requests" => FALSE
      /\ phase' = "idle" => phase = "topo"
      /\ phase' = "hunt" => phase = "requests"
      /\ phase = "tick" => phase' = "apply"
      /\ phase' = "topo" => phase = "apply"
    BY <1>1 DEF TypeOK, Phases, After
<1>3. todo' \in SUBSET Ifaces
    BY DEF NextPass
<1>4. ScanTyped' /\ ServingTyped' /\ scan' = scan /\ lis' = lis /\ sn' = sn /\ evq' = evq
    BY <1>1, ScanKept, ServingKept DEF ifscan
<1>5. sn' \in [Ifaces -> Sniffers] /\ ask' \in [Ifaces -> Asks] /\ tag' \in [Ifaces -> Taps]
    BY <1>1 DEF TypeOK
<1>6. TypeOK' /\ pin' = pin /\ link' = link
    BY <1>1, <1>2, <1>3, <1>4, <1>5, TypeStep DEF world
<1>7. ASSUME NEW i \in Ifaces, link[i] # "usb" PROVE Good(i)'
    <2>1. Good(i) /\ Served(i)' = Served(i)
        BY <1>4, <1>7 DEF Inv, AllGood, Served
    <2>2. \A x : evq = <<>> => ~Has(evq, x)
        BY DEF Has
    <2>3. Has(evq, <<"SERVE", i>>) => phase' \notin {"idle", "requests", "hunt", "topo"}
        BY <1>1, <1>2, <2>1, <2>2 DEF Good
    <2>4. Has(evq, <<"DROP", i>>) => phase' \in {"tick", "apply"}
        BY <1>1, <1>2, <2>1, <2>2 DEF Good
    <2> QED BY <1>4, <1>6, <2>1, <2>3, <2>4 DEF Good
<1> QED BY <1>6, <1>7 DEF Inv, AllGood

\* Between two polls no SERVE and no DROP waits on an interface that stays.
LEMMA IdleFacts ==
    ASSUME Inv, phase = "idle", NEW i \in Ifaces, link[i] # "usb"
    PROVE  /\ Good(i) /\ ~Has(evq, <<"SERVE", i>>) /\ ~Has(evq, <<"DROP", i>>)
           /\ Served(i) => scan[i] \in {"SEGMENT", "HOLD"}
BY DEF Inv, AllGood, Good

\* The world moves what the invariant does not speak of.
LEMMA IdleQuiet ==
    ASSUME Inv, TypeOK', NEW i \in Ifaces, Idle, UNCHANGED <<pin, link, ifscan, lis>>
    PROVE  Inv'
<1>1. TypeOK
    BY DEF Inv
<1>2. scan' = scan /\ \A j \in Ifaces : Same(evq, evq', j)
    BY <1>1, ScanKept
<1>3. phase' = phase /\ todo' \subseteq todo /\ sn' = sn
    BY DEF Idle, where
<1>4. link[i] # "usb" => Good(i)'
    BY <1>2, <1>3, StaysGood DEF Inv, AllGood
<1> QED BY <1>2, <1>3, <1>4, OneMoves

\* The scan moves with the carrier.
LEMMA IdleScan ==
    ASSUME Inv, NEW i \in Ifaces, Idle, NEW c \in BOOLEAN, carrier' = [carrier EXCEPT ![i] = c],
           UNCHANGED <<pin, link, wire, tagged, ask, serving>>,
           ScanTyped', \A j \in Ifaces : j # i => scan'[j] = scan[j] /\ Same(evq, evq', j),
           link[i] # "usb" =>
              /\ Same(evq, evq', i)
              /\ scan[i] \in {"SEGMENT", "HOLD"} => scan'[i] \in {"SEGMENT", "HOLD"}
    PROVE  Inv'
<1>1. /\ TypeOK /\ phase = "idle" /\ phase' = phase /\ todo' = todo
      /\ tag' = tag /\ sn' = sn /\ lis' = lis /\ past' = past
    BY DEF Inv, Idle, where, serving
<1>2. TypeOK'
    BY <1>1 DEF TypeOK, ScanTyped, Events
<1>3. ASSUME link[i] # "usb" PROVE Good(i)'
    <2>1. Good(i) /\ ~Has(evq, <<"SERVE", i>>) /\ ~Has(evq, <<"DROP", i>>)
          /\ (Served(i) => scan[i] \in {"SEGMENT", "HOLD"})
        BY <1>1, <1>3, IdleFacts
    <2>2. Served(i)' = Served(i) /\ Same(evq, evq', i)
        BY <1>1, <1>3 DEF Served
    <2> QED BY <1>1, <1>3, <2>1, <2>2 DEF Good, Same
<1> QED BY <1>1, <1>2, <1>3, OneMoves

LEMMA CarrierUpInv ==
    ASSUME Inv, NEW i \in Ifaces, CarrierUp(i)
    PROVE  Inv'
<1>1. /\ TypeOK /\ evq \in Seq(Events) /\ Idle /\ carrier' = [carrier EXCEPT ![i] = TRUE] /\ LinkUp(i)
      /\ UNCHANGED <<pin, link, wire, tagged, ask, serving>>
    BY DEF Inv, CarrierUp, TypeOK, Events
<1>2. ASSUME NEW verb \in {"LISTEN", "KEPT"}, NEW st \in {"LINKED", "SEGMENT"},
             scan' = [scan EXCEPT ![i] = st], evq' = Append(evq, <<verb, i>>),
             hold' = hold, retry' \in [Ifaces -> 0..Retry],
             scan[i] = "DOWN" \/ st = "SEGMENT"
      PROVE  Inv'
    <2>1. verb \in Verbs /\ st \in ScanStates
        BY DEF Verbs, ScanStates
    <2>2. evq' \in Seq(Events) /\ \A j \in Ifaces : Same(evq, evq', j)
        BY <1>1, <1>2, <2>1, AppendSame
    <2>3. /\ ScanTyped' /\ \A j \in Ifaces : j # i => scan'[j] = scan[j]
          /\ scan[i] \in {"SEGMENT", "HOLD"} => scan'[i] \in {"SEGMENT", "HOLD"}
        BY <1>1, <1>2, <2>1, <2>2 DEF ScanTyped, TypeOK
    <2> QED BY <1>1, <2>2, <2>3, IdleScan
<1>3. CASE /\ scan[i] = "DOWN"
           /\ scan' = [scan EXCEPT ![i] = "LINKED"]
           /\ retry' = [retry EXCEPT ![i] = 0]
           /\ evq' = Append(evq, <<"LISTEN", i>>)
           /\ UNCHANGED hold
    <2>1. retry' \in [Ifaces -> 0..Retry]
        BY <1>1, <1>3, ConstantsAreNumbers DEF TypeOK
    <2> QED BY <1>2, <1>3, <2>1
<1>4. CASE /\ scan[i] = "HOLD"
           /\ scan' = [scan EXCEPT ![i] = "SEGMENT"]
           /\ evq' = Append(evq, <<"KEPT", i>>)
           /\ UNCHANGED <<hold, retry>>
    <2>1. retry' \in [Ifaces -> 0..Retry]
        BY <1>1, <1>4 DEF TypeOK
    <2> QED BY <1>2, <1>4, <2>1
<1>5. CASE UNCHANGED ifscan
    BY <1>1, <1>5, ScanKept, IdleScan
<1> QED BY <1>1, <1>3, <1>4, <1>5 DEF LinkUp

LEMMA CarrierDownInv ==
    ASSUME Inv, NEW i \in Ifaces, CarrierDown(i)
    PROVE  Inv'
<1>1. /\ TypeOK /\ evq \in Seq(Events) /\ Idle /\ carrier' = [carrier EXCEPT ![i] = FALSE]
      /\ LinkDown(i) \/ (link[i] = "usb" /\ Gone(i))
      /\ UNCHANGED <<pin, link, wire, tagged, ask, serving>>
    BY DEF Inv, CarrierDown, TypeOK, Events
<1>2. CASE scan[i] = "LINKED" /\ LinkDown(i)
    <2>1. /\ scan' = [scan EXCEPT ![i] = "DOWN"] /\ evq' = Append(evq, <<"UNLISTEN", i>>)
          /\ hold' = hold /\ retry' = retry
        BY <1>2 DEF LinkDown
    <2>2. "UNLISTEN" \in Verbs /\ "UNLISTEN" \notin {"SERVE", "DROP"} /\ "DOWN" \in ScanStates
        BY DEF Verbs, ScanStates
    <2>3. evq' \in Seq(Events) /\ \A j \in Ifaces : Same(evq, evq', j)
        BY <1>1, <2>1, <2>2, AppendSame
    <2>4. ScanTyped' /\ \A j \in Ifaces : j # i => scan'[j] = scan[j]
        BY <1>1, <2>1, <2>2, <2>3 DEF ScanTyped, TypeOK
    <2> QED BY <1>1, <1>2, <2>3, <2>4, IdleScan
<1>3. CASE scan[i] = "SEGMENT" /\ LinkDown(i)
    <2>1. /\ scan' = [scan EXCEPT ![i] = "HOLD"] /\ hold' = [hold EXCEPT ![i] = DownHold]
          /\ evq' = evq /\ retry' = retry
        BY <1>3 DEF LinkDown
    <2>2. DownHold \in 0..DownHold /\ "HOLD" \in ScanStates
        BY ConstantsAreNumbers DEF ScanStates
    <2>3. /\ ScanTyped' /\ scan'[i] = "HOLD" /\ \A j \in Ifaces : j # i => scan'[j] = scan[j]
          /\ \A j \in Ifaces : Same(evq, evq', j)
        BY <1>1, <2>1, <2>2 DEF ScanTyped, TypeOK, Same
    <2> QED BY <1>1, <2>3, IdleScan
<1>4. CASE UNCHANGED ifscan
    BY <1>1, <1>4, ScanKept, IdleScan
<1>5. CASE link[i] = "usb" /\ Gone(i)
    <2>1. PICK q \in {evq, Append(evq, <<"DROP", i>>), Append(evq, <<"UNLISTEN", i>>)} : evq' = q
        BY <1>5 DEF Gone
    <2>2. "DROP" \in Verbs /\ "UNLISTEN" \in Verbs /\ "DOWN" \in ScanStates
        BY DEF Verbs, ScanStates
    <2>3. evq' \in Seq(Events) /\ \A j \in Ifaces : j # i => Same(evq, evq', j)
        <3>1. CASE q = evq
            BY <1>1, <2>1, <3>1 DEF Same
        <3>2. CASE q = Append(evq, <<"DROP", i>>)
            BY <1>1, <2>1, <2>2, <3>2, AppendSame
        <3>3. CASE q = Append(evq, <<"UNLISTEN", i>>)
            BY <1>1, <2>1, <2>2, <3>3, AppendSame
        <3> QED BY <2>1, <3>1, <3>2, <3>3
    <2>4. ScanTyped' /\ \A j \in Ifaces : j # i => scan'[j] = scan[j]
        BY <1>1, <1>5, <2>2, <2>3 DEF Gone, ScanTyped, TypeOK
    <2> QED BY <1>1, <1>5, <2>3, <2>4, IdleScan
<1> QED BY <1>1, <1>2, <1>3, <1>4, <1>5 DEF LinkDown

LEMMA WorldInv ==
    ASSUME Inv, NEW i \in Ifaces,
           WireMoves(i) \/ TagsMove(i) \/ Ask(i) \/ MasterMoves(i)
    PROVE  Inv'
<1>1. TypeOK /\ Idle /\ UNCHANGED <<pin, link, carrier, ifscan, lis>>
    BY DEF Inv, WireMoves, TagsMove, Ask, MasterMoves, serving, world
<1>2. /\ wire' \in [Ifaces -> Wires] /\ tagged' \in [Ifaces -> BOOLEAN]
      /\ ask' \in [Ifaces -> Asks] /\ past' \in [Ifaces -> BOOLEAN]
    <2>1. CASE WireMoves(i)
        BY <1>1, <2>1 DEF WireMoves, TypeOK, serving
    <2>2. CASE TagsMove(i)
        BY <1>1, <2>2 DEF TagsMove, TypeOK, serving
    <2>3. CASE Ask(i)
        BY <1>1, <2>3 DEF Ask, Asks, TypeOK, serving, world
    <2>4. CASE MasterMoves(i)
        BY <1>1, <2>4 DEF MasterMoves, TypeOK, world
    <2> QED BY <2>1, <2>2, <2>3, <2>4
<1>3. TypeOK'
    BY <1>1, <1>2 DEF TypeOK, Idle, where, ifscan
<1> QED BY <1>1, <1>3, IdleQuiet

-----------------------------------------------------------------------------
(* The theorems.                                                           *)

LEMMA InitInv == Init => Inv
<1> SUFFICES ASSUME Init PROVE Inv
    OBVIOUS
<1>1. PICK set \in Settings : pin = set.pin /\ link = set.link
    BY DEF Init
<1>2. [pin |-> pin, link |-> link] \in Settings
    <2>1. set \in [pin : [Ifaces -> Pins], link : [Ifaces -> Links]]
        BY HearingAssumption
    <2>2. set = [pin |-> set.pin, link |-> set.link]
        BY <2>1
    <2> QED BY <1>1, <2>2
<1>3. Closed \in Sniffers /\ ~Closed.tx
    BY ClosedType DEF Closed
<1>4. Listener("none") \in Listeners /\ Listener("none").kind = "none"
    BY ListenerType DEF Kinds
<1>5. 0 \in 0..DownHold /\ 0 \in 0..Retry /\ NoTap \in Taps
    BY ConstantsAreNumbers, TapTypes
<1>6. TypeOK
    BY <1>2, <1>3, <1>4, <1>5 DEF Init, TypeOK, Asks, ScanStates, Phases
<1>7. ASSUME NEW i \in Ifaces PROVE Good(i)
    <2>1. evq = <<>> /\ \A x : ~Has(evq, x) /\ Once(evq, x)
        BY DEF Init, Has, Once
    <2>2. sn[i] = Closed /\ lis[i] = Listener("none")
        BY DEF Init
    <2>3. ~Served(i) /\ lis[i].kind \notin Followers
        BY <1>4, <2>2 DEF Served, Followers
    <2> QED BY <1>3, <2>1, <2>2, <2>3 DEF Good
<1> QED BY <1>6, <1>7 DEF Inv, AllGood

LEMMA NextInv == Inv /\ [Next]_vars => Inv'
<1> SUFFICES ASSUME Inv, [Next]_vars PROVE Inv'
    OBVIOUS
<1>1. CASE BeginPoll
    BY <1>1, BeginPollInv
<1>2. CASE NextPass
    BY <1>2, NextPassInv
<1>3. CASE HearingApply
    BY <1>3, ApplyInv
<1>4. ASSUME NEW i \in Ifaces, Poll(i) PROVE Inv'
    BY <1>4, TakeRequestInv, HuntInv, JoinInv, ReevaluateInv, RehearEmptyInv, YieldInv, TickInv,
       TopoInv DEF Poll
<1>5. ASSUME NEW i \in Ifaces,
             \/ CarrierUp(i) \/ CarrierDown(i) \/ WireMoves(i) \/ TagsMove(i) \/ Ask(i)
             \/ MasterMoves(i)
      PROVE  Inv'
    BY <1>5, CarrierUpInv, CarrierDownInv, WorldInv
<1>6. CASE UNCHANGED vars
    <2>1. /\ UNCHANGED <<pin, link, carrier, wire, tagged, ask, scan, hold, retry, evq>>
          /\ UNCHANGED <<sn, lis, past, tag, phase, todo>>
        BY <1>6 DEF vars, world, ifscan, serving, where
    <2>2. TypeOK'
        BY <2>1 DEF Inv, TypeOK
    <2>3. ASSUME NEW i \in Ifaces, Good(i) PROVE Good(i)'
        BY <2>1, <2>3 DEF Good, Served
    <2> QED BY <2>1, <2>2, <2>3 DEF Inv, AllGood
<1> QED BY <1>1, <1>2, <1>3, <1>4, <1>5, <1>6 DEF Next, Daemon, World

LEMMA Invariance == Spec => []Inv
BY InitInv, NextInv, PTL DEF Spec

\* Whatever the wires carry, however netlink's events fall between the polls and whichever
\* serve fails, the hearing loop's state keeps its shape.
THEOREM TypeCorrect == Spec => []TypeOK
<1>1. Inv => TypeOK
    BY DEF Inv
<1> QED BY <1>1, Invariance, PTL

\* A listener is never left behind on an interface the scan has given up (hearing_apply
\* 4533-4550): the scan has it as a segment, or the DROP that closes it is queued.
THEOREM NoListenerIsLeftBehind == Spec => []ServedIsTracked
<1>1. Inv => ServedIsTracked
    BY DEF Inv, AllGood, Good, ServedIsTracked, Queued, Has
<1> QED BY <1>1, Invariance, PTL

\* A segment that follows somebody has no knock of ours on it (sniffer_drain 3306-3323,
\* hearing_yield 4955-4981): whoever it follows ended the knock, or was served off a
\* sniffer that was closed with its socket.
THEOREM WhoFollowsIsQuiet == Spec => []FollowerIsQuiet
<1>1. Inv => FollowerIsQuiet
    BY DEF Inv, AllGood, Good, FollowerIsQuiet
<1> QED BY <1>1, Invariance, PTL
=============================================================================
