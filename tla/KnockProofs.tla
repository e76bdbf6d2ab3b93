----------------------------- MODULE KnockProofs -----------------------------
(***************************************************************************)
(* The knock on a silent wire, for every length of its cycle, its transfer *)
(* and its back-off: EdgeIsProven, LinkIsOwed and AnswerIsCredited of      *)
(* Knock.                                                                  *)
(*                                                                         *)
(* What the catch-up of a late knock computes is a recursive function, out *)
(* of the provers' reach, so nothing is supposed here of the fields it     *)
(* sets: how long the knock rests, how far it has backed off, how old its  *)
(* cycle is and at which slot it resumes may be anything at all.           *)
(***************************************************************************)
EXTENDS Knock, TLAPS

\* A record with the fields of a knock, whatever is in them.
Fields(w) ==
    w = [state |-> w.state, quiet |-> w.quiet, heard |-> w.heard, unanswered |-> w.unanswered,
         resting |-> w.resting, wait |-> w.wait, age |-> w.age, slot |-> w.slot,
         head |-> w.head, chunks |-> w.chunks, pushes |-> w.pushes, knocks |-> w.knocks,
         spoke |-> w.spoke, kept |-> w.kept]

\* The fields that are not the catch-up's.
Wire(w) ==
    /\ Fields(w)
    /\ w.state \in States /\ w.quiet \in 0..Listen /\ w.head \in BOOLEAN /\ w.chunks \in Nat
    /\ w.pushes \in 0..PushCap /\ w.kept \in BOOLEAN

Ladder(l) ==
    /\ l = [wake |-> l.wake, pushes0 |-> l.pushes0, last |-> l.last, frames0 |-> l.frames0,
            knocks |-> l.knocks]
    /\ l.pushes0 \in 0..PushCap

Shapes ==
    /\ Wire(kw) /\ Ladder(kl)
    /\ trunk \in BOOLEAN /\ barred \in {"host", "sibling", "no"}
    /\ open \in BOOLEAN /\ evident \in BOOLEAN /\ served \in BOOLEAN /\ told \in BOOLEAN
    /\ left \in Nat /\ proof \in 0..MinPushes /\ disturbs \in Nat
    /\ upIn = Off \/ upIn \in 1..Down

\* The frames of the transfer that left are counted slot by slot: none was missed exactly
\* while the header is held, and then the chunks are the slots after it.
TransferIsCounted ==
    open => /\ left # 0 => kw.slot \in Nat /\ left <= kw.slot
            /\ kw.head => left # 0 /\ left = kw.slot /\ left <= Chunks + 1 /\ kw.chunks = left - 1
            /\ left # 0 /\ left = kw.slot /\ left <= Chunks + 1 => kw.head

\* The ladder sees no push that did not leave in its spell.
PushIsProven == proof = MinPushes \/ kw.pushes <= kl.pushes0 + proof

\* Only a wire that knocks has its timer set, and one that has heard a box knocks no more.
KnockIsOver ==
    /\ armed # Off => kw.state = "KNOCKING"
    /\ open /\ evident => kw.state # "KNOCKING"

\* A box that was told has been counted, and once it is heard its answer is kept.
ToldIsCounted ==
    open /\ told =>
        /\ kw.pushes > 0
        /\ ~evident => kw.state = "KNOCKING"
        /\ evident => kw.kept /\ kw.state = "ANSWERED" /\ kw.quiet = 0

Inv == /\ Shapes /\ TransferIsCounted /\ PushIsProven /\ KnockIsOver /\ ToldIsCounted
       /\ (served => ~open) /\ AnswerIsCredited /\ LinkIsOwed

-----------------------------------------------------------------------------
(* The constants and the wire's own machine.                               *)

\* The constants are numbers, and a spell's first count is positive when anything was pushed.
LEMMA ConstLemma ==
    /\ MinPushes \in Nat /\ PushCap \in Nat /\ Chunks \in Nat /\ Chunks > 0
    /\ Listen \in Nat /\ Listen > 1 /\ Down \in Nat /\ Down > 0 /\ PushCap >= MinPushes + 2
BY KnockAssumption, LadderAssumption

\* A second of age is not seen by what the knock has counted.
LEMMA AgedLemma ==
    ASSUME NEW w, Wire(w)
    PROVE  /\ Wire(Aged(w)) /\ Aged(w).quiet = (IF w.quiet < Listen THEN w.quiet + 1 ELSE Listen)
           /\ Aged(w).state = w.state /\ Aged(w).slot = w.slot /\ Aged(w).head = w.head
           /\ Aged(w).chunks = w.chunks /\ Aged(w).pushes = w.pushes /\ Aged(w).kept = w.kept
<1>1. Fields(Aged(w))
  <2> DEFINE q == AtMost(w.quiet + 1, Listen)
             h == Older(w.heard, Listen)
             t == IF w.resting /\ w.wait > -PeriodMax THEN w.wait - 1 ELSE w.wait
             a == IF w.resting \/ w.state # "KNOCKING" THEN w.age ELSE AtMost(w.age + 1, PeriodMax)
  <2>1. Aged(w) = [w EXCEPT !.quiet = q, !.heard = h, !.wait = t, !.age = a]
    BY DEF Aged
  <2> HIDE DEF q, h, t, a
  <2> QED BY <2>1 DEF Wire, Fields
<1>2. Aged(w).quiet = AtMost(w.quiet + 1, Listen)
  BY DEF Wire, Fields, Aged
<1>3. /\ Aged(w).state = w.state /\ Aged(w).slot = w.slot /\ Aged(w).head = w.head
      /\ Aged(w).chunks = w.chunks /\ Aged(w).pushes = w.pushes /\ Aged(w).kept = w.kept
  BY DEF Wire, Fields, Aged
<1>4. w.quiet \in 0..Listen /\ Listen \in Nat
  BY ConstLemma DEF Wire
<1>5. /\ AtMost(w.quiet + 1, Listen) = (IF w.quiet < Listen THEN w.quiet + 1 ELSE Listen)
      /\ AtMost(w.quiet + 1, Listen) \in 0..Listen
  BY <1>4 DEF AtMost
<1> QED BY <1>1, <1>2, <1>3, <1>5 DEF Wire

\* The explicit record that a knock opens with.
LEMMA OpenRecord ==
    ASSUME NEW w, NEW late, NEW v, Fields(w), v = knock_open(w, late)
    PROVE  v = [state |-> w.state, quiet |-> w.quiet, heard |-> w.heard,
                unanswered |-> w.unanswered, resting |-> FALSE, wait |-> 0, age |-> late,
                slot |-> (late * Slots) \div Cycle, head |-> FALSE, chunks |-> 0,
                pushes |-> w.pushes, knocks |-> w.knocks, spoke |-> w.spoke, kept |-> w.kept]
BY DEF Fields, knock_open

\* A knock that opens holds no header; what is in its other counts stays.
LEMMA OpenLemma ==
    ASSUME NEW w, NEW late, NEW v, Wire(w), v = knock_open(w, late)
    PROVE  /\ Wire(v) /\ ~v.head /\ ~v.resting
           /\ v.state = w.state /\ v.quiet = w.quiet /\ v.pushes = w.pushes /\ v.kept = w.kept
<1> DEFINE s == (late * Slots) \div Cycle
<1>1. v = [state |-> w.state, quiet |-> w.quiet, heard |-> w.heard,
           unanswered |-> w.unanswered, resting |-> FALSE, wait |-> 0, age |-> late,
           slot |-> s, head |-> FALSE, chunks |-> 0, pushes |-> w.pushes,
           knocks |-> w.knocks, spoke |-> w.spoke, kept |-> w.kept]
  BY OpenRecord DEF Wire
<1> HIDE DEF s
<1>2. /\ Fields(v) /\ v.state = w.state /\ v.quiet = w.quiet /\ v.chunks = 0
      /\ v.pushes = w.pushes
  BY <1>1 DEF Fields
<1>3. v.head = FALSE /\ v.resting = FALSE /\ v.kept = w.kept
  BY <1>1
<1>4. 0 \in Nat /\ w.kept \in BOOLEAN /\ FALSE \in BOOLEAN
  BY DEF Wire
<1>5. v.chunks \in Nat /\ v.kept \in BOOLEAN /\ v.head \in BOOLEAN
  BY <1>2, <1>3, <1>4
<1>6. Wire(v)
  BY <1>2, <1>5 DEF Wire
<1> QED BY <1>2, <1>3, <1>6

\* A wire that begins to knock.
LEMMA BegunLemma ==
    ASSUME NEW w, NEW v, Wire(w),
           v = [w EXCEPT !.state = "KNOCKING", !.knocks = @ + 1, !.spoke = FALSE,
                         !.kept = FALSE]
    PROVE  Wire(v) /\ v.state = "KNOCKING" /\ v.pushes = w.pushes
<1>1. Fields(w)
  BY DEF Wire
<1>2. v = [state |-> "KNOCKING", quiet |-> w.quiet, heard |-> w.heard,
           unanswered |-> w.unanswered, resting |-> w.resting, wait |-> w.wait,
           age |-> w.age, slot |-> w.slot, head |-> w.head, chunks |-> w.chunks,
           pushes |-> w.pushes, knocks |-> w.knocks + 1, spoke |-> FALSE, kept |-> FALSE]
  BY <1>1 DEF Fields
<1>3. Fields(v) /\ v.state = "KNOCKING" /\ v.quiet = w.quiet /\ v.chunks = w.chunks
      /\ v.pushes = w.pushes
  BY <1>2 DEF Fields
<1>4. v.head = w.head /\ v.kept = FALSE
  BY <1>2
<1>5. w.head \in BOOLEAN /\ FALSE \in BOOLEAN
  BY DEF Wire
<1>6. v.head \in BOOLEAN /\ v.kept \in BOOLEAN
  BY <1>4, <1>5
<1> QED BY <1>3, <1>6 DEF Wire, States

\* A poll that opens no knock moves none of its counts; one that opens a knock holds no
\* header, and only a wire that did not knock and was quiet for Listen has one opened.
LEMMA StepLemma ==
    ASSUME NEW w, NEW v, Wire(w), trunk \in BOOLEAN, v = KnockStep(w)
    PROVE  /\ Wire(v) /\ v.pushes = w.pushes
           /\ trunk => v.state = "TRUNK"
           /\ \/ /\ v.state = "KNOCKING" /\ w.state # "KNOCKING" /\ w.quiet = Listen
                 /\ ~v.head
              \/ /\ v.state = "KNOCKING" => w.state = "KNOCKING"
                 /\ v.slot = w.slot /\ v.head = w.head
                 /\ v.chunks = w.chunks /\ v.kept = w.kept
                 /\ ~trunk /\ w.state # "TRUNK" => v.state = w.state
<1>1. CASE trunk
  <2>1. v = [w EXCEPT !.state = "TRUNK"]
    BY <1>1 DEF KnockStep
  <2>2. /\ Fields(v) /\ v.state = "TRUNK" /\ v.pushes = w.pushes
        /\ v.slot = w.slot /\ v.head = w.head
        /\ v.chunks = w.chunks /\ v.kept = w.kept /\ v.quiet = w.quiet
    BY <2>1 DEF Wire, Fields
  <2> QED BY <1>1, <2>2 DEF Wire, States
<1>2. CASE ~trunk /\ w.state = "TRUNK"
  <2>1. v = [w EXCEPT !.state = "LISTENING", !.quiet = 0, !.unanswered = 0]
    BY <1>2 DEF KnockStep
  <2>2. /\ Fields(v) /\ v.state = "LISTENING" /\ v.pushes = w.pushes
        /\ v.slot = w.slot /\ v.head = w.head
        /\ v.chunks = w.chunks /\ v.kept = w.kept /\ v.quiet = 0
    BY <2>1 DEF Wire, Fields
  <2>3. 0 \in 0..Listen
    BY ConstLemma
  <2> QED BY <1>2, <2>2, <2>3 DEF Wire, States
<1>3. CASE ~trunk /\ w.state # "TRUNK" /\ w.state # "KNOCKING" /\ w.quiet = Listen
  <2>1. PICK u : u = [w EXCEPT !.state = "KNOCKING", !.knocks = @ + 1, !.spoke = FALSE,
                               !.kept = FALSE]
    OBVIOUS
  <2>2. v = knock_open(u, 0)
    BY <1>3, <2>1 DEF KnockStep
  <2>3. Wire(u) /\ u.state = "KNOCKING" /\ u.pushes = w.pushes
    BY <2>1, BegunLemma
  <2>4. Wire(v) /\ ~v.head /\ v.state = u.state /\ v.pushes = u.pushes
    BY <2>2, <2>3, OpenLemma
  <2> QED BY <1>3, <2>3, <2>4
<1>4. CASE ~trunk /\ w.state # "TRUNK" /\ ~(w.state # "KNOCKING" /\ w.quiet = Listen)
  <2>1. v = w
    BY <1>4 DEF KnockStep
  <2> QED BY <1>4, <2>1
<1> QED BY <1>1, <1>2, <1>3, <1>4

\* A frame moves no count; evidence ends the knock and is kept.
LEMMA HeardLemma ==
    ASSUME NEW w, NEW v, NEW evidence \in BOOLEAN, Wire(w), w.state # "TRUNK",
           v = reac_knock_wire_heard(w, evidence)
    PROVE  /\ Wire(v) /\ v.quiet = 0 /\ v.pushes = w.pushes /\ v.slot = w.slot
           /\ v.head = w.head /\ v.chunks = w.chunks
           /\ v.state = (IF w.state = "KNOCKING" /\ evidence THEN "ANSWERED" ELSE w.state)
           /\ v.state = "ANSWERED" /\ evidence => v.kept
<1>1. PICK s : s = IF w.state = "KNOCKING" /\ evidence THEN "ANSWERED" ELSE w.state
  OBVIOUS
<1>2. PICK u : u = IF w.heard = Never \/ w.heard = Listen THEN 0 ELSE w.unanswered
  OBVIOUS
<1>3. PICK t : t = IF (w.heard = Never \/ w.heard = Listen) /\ w.state = "KNOCKING" /\ w.resting
                   THEN 0 ELSE w.wait
  OBVIOUS
<1>4. PICK k \in BOOLEAN : k = (w.kept \/ (s = "ANSWERED" /\ evidence))
  OBVIOUS
<1>5. v = [w EXCEPT !.heard = 0, !.quiet = 0, !.state = s, !.unanswered = u, !.wait = t,
                    !.kept = k]
  BY <1>1, <1>2, <1>3, <1>4 DEF reac_knock_wire_heard
<1>6. Fields(w)
  BY DEF Wire
<1>7. v = [state |-> s, quiet |-> 0, heard |-> 0,
           unanswered |-> u, resting |-> w.resting, wait |-> t,
           age |-> w.age, slot |-> w.slot, head |-> w.head, chunks |-> w.chunks,
           pushes |-> w.pushes, knocks |-> w.knocks, spoke |-> w.spoke, kept |-> k]
  BY <1>5, <1>6 DEF Fields
<1>8. /\ Fields(v) /\ v.state = s /\ v.quiet = 0 /\ v.chunks = w.chunks
      /\ v.pushes = w.pushes /\ v.slot = w.slot
  BY <1>7 DEF Fields
<1>9. v.head = w.head /\ v.kept = k
  BY <1>7
<1>10. w.head \in BOOLEAN /\ s \in States /\ 0 \in 0..Listen
  BY <1>1, ConstLemma DEF Wire, States
<1>11. v.head \in BOOLEAN /\ v.kept \in BOOLEAN
  BY <1>9, <1>10
<1>12. Wire(v)
  BY <1>8, <1>10, <1>11 DEF Wire
<1>13. v.state = "ANSWERED" /\ evidence => v.kept
  BY <1>4, <1>8, <1>9
<1> QED BY <1>1, <1>8, <1>9, <1>12, <1>13
\* What the slots of a cycle carry.
LEMMA EmitLemma ==
    ASSUME NEW s
    PROVE  /\ Emit(s) = "head" \/ Emit(s) = "chunk" \/ Emit(s) = "tail" \/ Emit(s) = "announce"
           /\ Emit(s) = "head" <=> s = 0
           /\ Emit(s) = "chunk" <=> s \in 1..Chunks
           /\ Emit(s) = "tail" <=> s = Chunks + 1
<1>1. Chunks \in Nat /\ Chunks > 0
  BY ConstLemma
<1>2. CASE s = 0
  BY <1>1, <1>2 DEF Emit
<1>3. CASE s \in 1..Chunks
  BY <1>1, <1>3 DEF Emit
<1>4. CASE s = Chunks + 1
  BY <1>1, <1>4 DEF Emit
<1>5. CASE s # 0 /\ s \notin 1..Chunks /\ s # Chunks + 1
  BY <1>1, <1>5 DEF Emit
<1> QED BY <1>2, <1>3, <1>4, <1>5

\* A frame of the transfer that leaves is counted, one that does not leave ends the count.
LEMMA CountLemma ==
    ASSUME NEW w, NEW c, NEW out \in BOOLEAN, Wire(w), c = CountScene(w, Emit(w.slot), out)
    PROVE  /\ Wire(c) /\ c.state = w.state /\ c.quiet = w.quiet /\ c.kept = w.kept
           /\ c.slot = w.slot
           /\ c.pushes # w.pushes =>
                 /\ w.slot = Chunks + 1 /\ out /\ w.head /\ w.chunks = Chunks
                 /\ c.pushes <= w.pushes + 1
           /\ w.slot = Chunks + 1 /\ out /\ w.head /\ w.chunks = Chunks => c.pushes > 0
           /\ Emit(w.slot) = "announce" => c.head = w.head /\ c.chunks = w.chunks
           /\ Emit(w.slot) # "announce" /\ ~out => ~c.head
           /\ w.slot = 0 /\ out => c.head /\ c.chunks = 0
           /\ w.slot \in 1..Chunks /\ out => c.head = w.head /\ c.chunks = w.chunks + 1
           /\ w.slot = Chunks + 1 /\ out /\ c.head => w.head /\ w.chunks # Chunks
<1>a. /\ Chunks \in Nat /\ Chunks > 0 /\ PushCap \in Nat /\ PushCap >= 2 /\ MinPushes \in Nat
      /\ w.pushes \in 0..PushCap
  BY ConstLemma DEF Wire
<1>b. Fields(w)
  BY DEF Wire
<1>1. CASE Emit(w.slot) = "announce"
  <2>1. c = w
    BY <1>1 DEF CountScene
  <2>2. w.slot # 0 /\ w.slot # Chunks + 1 /\ w.slot \notin 1..Chunks
    BY <1>1, EmitLemma
  <2> QED BY <1>1, <2>1, <2>2
<1>2. CASE Emit(w.slot) # "announce" /\ ~out
  <2>1. c = [w EXCEPT !.head = FALSE]
    BY <1>2 DEF CountScene
  <2>2. /\ Fields(c) /\ c.state = w.state /\ c.quiet = w.quiet /\ c.kept = w.kept
        /\ c.slot = w.slot /\ c.pushes = w.pushes /\ c.chunks = w.chunks
    BY <1>b, <2>1 DEF Fields
  <2>3. c.head = FALSE
    BY <1>b, <2>1 DEF Fields
  <2>4. Wire(c)
    BY <2>2, <2>3 DEF Wire
  <2> QED BY <1>2, <2>2, <2>3, <2>4
<1>3. CASE Emit(w.slot) = "head" /\ out
  <2>1. c = [w EXCEPT !.head = TRUE, !.chunks = 0]
    BY <1>3 DEF CountScene
  <2>2. /\ Fields(c) /\ c.state = w.state /\ c.quiet = w.quiet /\ c.kept = w.kept
        /\ c.slot = w.slot /\ c.pushes = w.pushes /\ c.chunks = 0
    BY <1>b, <2>1 DEF Fields
  <2>3. c.head = TRUE
    BY <1>b, <2>1 DEF Fields
  <2>a. c.head \in BOOLEAN
    BY <2>3, Zenon
  <2>b. c.chunks \in Nat
    BY <2>2
  <2>4. Wire(c)
    BY <2>2, <2>a, <2>b DEF Wire
  <2>5. w.slot = 0
    BY <1>3, EmitLemma
  <2>6. w.slot # Chunks + 1 /\ w.slot \notin 1..Chunks
    BY <1>a, <2>5
  <2> QED BY <1>3, <2>2, <2>3, <2>4, <2>5, <2>6
<1>4. CASE Emit(w.slot) = "chunk" /\ out
  <2>1. c = [w EXCEPT !.chunks = w.chunks + 1]
    BY <1>4 DEF CountScene
  <2>2. /\ Fields(c) /\ c.state = w.state /\ c.quiet = w.quiet /\ c.kept = w.kept
        /\ c.slot = w.slot /\ c.pushes = w.pushes /\ c.chunks = w.chunks + 1 /\ c.head = w.head
    BY <1>b, <2>1 DEF Fields
  <2>4. Wire(c)
    BY <2>2 DEF Wire
  <2>5. w.slot \in 1..Chunks
    BY <1>4, EmitLemma
  <2>6. w.slot # Chunks + 1 /\ w.slot # 0
    BY <1>a, <2>5
  <2> QED BY <1>4, <2>2, <2>4, <2>5, <2>6
<1>5. CASE Emit(w.slot) = "tail" /\ out /\ w.head /\ w.chunks = Chunks
  <2>1. c = [w EXCEPT !.pushes = AtMost(w.pushes + 1, PushCap), !.head = FALSE]
    BY <1>5 DEF CountScene
  <2>2. /\ Fields(c) /\ c.state = w.state /\ c.quiet = w.quiet /\ c.kept = w.kept
        /\ c.slot = w.slot /\ c.pushes = AtMost(w.pushes + 1, PushCap) /\ c.chunks = w.chunks
    BY <1>b, <2>1 DEF Fields
  <2>3. c.head = FALSE
    BY <1>b, <2>1 DEF Fields
  <2>4. c.pushes \in 0..PushCap /\ c.pushes <= w.pushes + 1 /\ c.pushes > 0
    BY <1>a, <2>2 DEF AtMost
  <2>5. Wire(c)
    BY <2>2, <2>3, <2>4 DEF Wire
  <2>6. w.slot = Chunks + 1
    BY <1>5, EmitLemma
  <2>7. w.slot # 0 /\ w.slot \notin 1..Chunks
    BY <1>a, <2>6
  <2> QED BY <1>5, <2>2, <2>3, <2>4, <2>5, <2>6, <2>7
<1>6. CASE Emit(w.slot) = "tail" /\ out /\ ~(w.head /\ w.chunks = Chunks)
  <2>1. c = w
    BY <1>6 DEF CountScene
  <2>2. w.slot = Chunks + 1
    BY <1>6, EmitLemma
  <2>3. w.slot # 0 /\ w.slot \notin 1..Chunks
    BY <1>a, <2>2
  <2> QED BY <1>6, <2>1, <2>2, <2>3
<1> QED BY <1>1, <1>2, <1>3, <1>4, <1>5, <1>6, EmitLemma

\* A slot is its count and one more.
LEMMA SlotLemma ==
    ASSUME NEW w, NEW c, NEW v, NEW out \in BOOLEAN, Wire(w),
           c = CountScene(w, Emit(w.slot), out), v = KnockSlot(w, out)
    PROVE  /\ Wire(v) /\ v.state = c.state /\ v.quiet = c.quiet /\ v.kept = c.kept
           /\ v.slot = c.slot + 1 /\ v.pushes = c.pushes /\ v.head = c.head
           /\ v.chunks = c.chunks
<1>1. Wire(c)
  BY CountLemma
<1>2. Fields(c)
  BY <1>1 DEF Wire
<1>3. PICK s : s = (c.spoke \/ out)
  OBVIOUS
<1>4. v = [c EXCEPT !.slot = c.slot + 1, !.spoke = s]
  BY <1>3 DEF KnockSlot
<1>5. /\ Fields(v) /\ v.state = c.state /\ v.quiet = c.quiet /\ v.kept = c.kept
      /\ v.slot = c.slot + 1 /\ v.pushes = c.pushes /\ v.head = c.head
      /\ v.chunks = c.chunks
  BY <1>2, <1>4 DEF Fields
<1> QED BY <1>1, <1>5 DEF Wire

\* A knock that goes to rest keeps its counts.
LEMMA RestLemma ==
    ASSUME NEW w, NEW v, Wire(w), v = knock_rest(w)
    PROVE  /\ Wire(v) /\ v.resting
           /\ v.state = w.state /\ v.quiet = w.quiet /\ v.pushes = w.pushes /\ v.kept = w.kept
           /\ v.slot = w.slot /\ v.head = w.head /\ v.chunks = w.chunks
<1>1. Fields(w)
  BY DEF Wire
<1>2. PICK t : t = reac_knock_wire_period_ns(w.unanswered) - w.age
  OBVIOUS
<1>3. PICK u : u = AtMost(w.unanswered + 1, Doublings)
  OBVIOUS
<1>4. v = [w EXCEPT !.wait = t, !.unanswered = u, !.resting = TRUE]
  BY <1>2, <1>3 DEF knock_rest
<1>5. /\ Fields(v) /\ v.state = w.state /\ v.quiet = w.quiet /\ v.pushes = w.pushes
      /\ v.kept = w.kept /\ v.slot = w.slot /\ v.head = w.head /\ v.chunks = w.chunks
  BY <1>1, <1>4 DEF Fields
<1>6. v.resting = TRUE
  BY <1>1, <1>4 DEF Fields
<1> QED BY <1>5, <1>6 DEF Wire

\* However late the next knock is, it goes on resting with its counts or opens anew.
LEMMA AgainLemma ==
    ASSUME NEW w, NEW v, Wire(w), w.resting, v = KnockAgain(w)
    PROVE  /\ Wire(v)
           /\ v.state = w.state /\ v.quiet = w.quiet /\ v.pushes = w.pushes /\ v.kept = w.kept
           /\ \/ v.resting /\ v.slot = w.slot /\ v.head = w.head /\ v.chunks = w.chunks
              \/ ~v.resting /\ ~v.head
<1>1. PICK c : c = CatchUp[-w.wait, w.unanswered]
  OBVIOUS
<1>2. Fields(w)
  BY DEF Wire
<1>3. CASE c.resting
  <2>1. v = [w EXCEPT !.wait = c.by, !.unanswered = c.n]
    BY <1>1, <1>3 DEF KnockAgain
  <2>2. /\ Fields(v) /\ v.state = w.state /\ v.quiet = w.quiet /\ v.pushes = w.pushes
        /\ v.kept = w.kept /\ v.slot = w.slot /\ v.head = w.head /\ v.chunks = w.chunks
        /\ v.resting = w.resting
    BY <1>2, <2>1 DEF Fields
  <2> QED BY <2>2 DEF Wire
<1>4. CASE ~c.resting
  <2>1. PICK u : u = [w EXCEPT !.unanswered = c.n]
    OBVIOUS
  <2>2. v = knock_open(u, c.by)
    BY <1>1, <1>4, <2>1 DEF KnockAgain
  <2>3. /\ Fields(u) /\ u.state = w.state /\ u.quiet = w.quiet /\ u.pushes = w.pushes
        /\ u.kept = w.kept /\ u.slot = w.slot /\ u.head = w.head /\ u.chunks = w.chunks
    BY <1>2, <2>1 DEF Fields
  <2>4. Wire(u)
    BY <2>3 DEF Wire
  <2>5. /\ Wire(v) /\ ~v.head /\ ~v.resting
        /\ v.state = u.state /\ v.quiet = u.quiet /\ v.pushes = u.pushes /\ v.kept = u.kept
    BY <2>2, <2>4, OpenLemma
  <2> QED BY <2>3, <2>5
<1> QED BY <1>3, <1>4
-----------------------------------------------------------------------------
(* The actions.                                                            *)

\* A sniffer that has just been opened, or closed, has counted nothing.
LEMMA FreshWire ==
    ASSUME NEW w, w = reac_knock_wire_init
    PROVE  Wire(w) /\ ~w.head /\ w.pushes = 0 /\ w.state = "LISTENING"
<1>1. Fields(w) /\ w.state = "LISTENING" /\ w.quiet = 0 /\ w.chunks = 0 /\ w.pushes = 0
  BY DEF reac_knock_wire_init, Fields
<1>2. w.head = FALSE /\ w.kept = FALSE
  BY DEF reac_knock_wire_init
<1>3. 0 \in 0..Listen /\ 0 \in 0..PushCap /\ 0 \in Nat
  BY ConstLemma
<1>4. w.head \in BOOLEAN /\ w.kept \in BOOLEAN
  BY <1>2, Zenon
<1>5. Wire(w)
  BY <1>1, <1>3, <1>4 DEF Wire, States
<1> QED BY <1>1, <1>2, <1>5

LEMMA InitInv == Init => Inv
<1> SUFFICES ASSUME Init PROVE Inv
  OBVIOUS
<1>1. Wire(kw) /\ ~kw.head /\ kw.pushes = 0 /\ kw.state = "LISTENING"
  BY FreshWire DEF Init
<1>2. Ladder(kl) /\ kl.pushes0 = 0
  BY ConstLemma DEF Init, LadderFree, Ladder
<1>3. 0 \in 0..MinPushes
  BY ConstLemma
<1>4. Shapes
  BY <1>1, <1>2, <1>3 DEF Init, Shapes
<1>5. TransferIsCounted /\ PushIsProven /\ KnockIsOver /\ ToldIsCounted
  BY <1>1, <1>2, <1>3
     DEF Init, TransferIsCounted, PushIsProven, KnockIsOver, ToldIsCounted
<1> QED BY <1>4, <1>5 DEF Init, Inv, AnswerIsCredited, LinkIsOwed

LEMMA SnifferOpenStep ==
    ASSUME Inv, SnifferOpen
    PROVE  Inv'
<1>1. /\ open' = TRUE /\ evident' = FALSE /\ armed' = Off /\ left' = 0 /\ proof' = 0
      /\ told' = FALSE /\ ~served
      /\ UNCHANGED <<gear, cable, admin, trunk, barred, kl, upIn, served, credit, edges, disturbs>>
  BY DEF SnifferOpen, wires
<1>2. Wire(kw') /\ ~kw'.head /\ kw'.pushes = 0 /\ kw'.state = "LISTENING"
  BY FreshWire DEF SnifferOpen
<1>3. 0 \in 0..MinPushes /\ kl.pushes0 \in Nat /\ MinPushes \in Nat
  BY ConstLemma DEF Inv, Shapes, Ladder
<1>4. Shapes'
  BY <1>1, <1>2, <1>3 DEF Inv, Shapes
<1>5. TransferIsCounted' /\ PushIsProven' /\ KnockIsOver' /\ ToldIsCounted'
  BY <1>1, <1>2, <1>3 DEF TransferIsCounted, PushIsProven, KnockIsOver, ToldIsCounted
<1>6. (served => ~open)' /\ AnswerIsCredited' /\ LinkIsOwed'
  BY <1>1 DEF Inv, AnswerIsCredited, LinkIsOwed
<1> QED BY <1>4, <1>5, <1>6 DEF Inv

LEMMA SnifferCloseStep ==
    ASSUME Inv, SnifferClose
    PROVE  Inv'
<1>1. /\ open' = FALSE /\ evident' = FALSE /\ armed' = Off /\ served' = FALSE
      /\ told' = FALSE
      /\ UNCHANGED <<gear, cable, admin, trunk, barred, kl, upIn, left, proof, edges, disturbs>>
  BY DEF SnifferClose, wires
<1>2. Wire(kw') /\ ~kw'.head /\ kw'.pushes = 0 /\ kw'.state = "LISTENING"
  BY FreshWire DEF SnifferClose
<1>3. proof \in 0..MinPushes /\ kl.pushes0 \in Nat /\ MinPushes \in Nat
  BY ConstLemma DEF Inv, Shapes, Ladder
<1>4. Shapes'
  BY <1>1, <1>2, <1>3 DEF Inv, Shapes
<1>5. TransferIsCounted' /\ PushIsProven' /\ KnockIsOver' /\ ToldIsCounted'
  BY <1>1, <1>2, <1>3 DEF TransferIsCounted, PushIsProven, KnockIsOver, ToldIsCounted
<1>6. (served => ~open)' /\ AnswerIsCredited' /\ LinkIsOwed'
  BY <1>1 DEF Inv, AnswerIsCredited, LinkIsOwed
<1> QED BY <1>4, <1>5, <1>6 DEF Inv

LEMMA SnifferDrainStep ==
    ASSUME Inv, SnifferDrain
    PROVE  Inv'
<1> DEFINE evidence == gear = "talks"
           hush     == kw.state = "KNOCKING" /\ evidence
<1>1. /\ open /\ open' = open /\ evident' = (evident \/ evidence)
      /\ kw' = reac_knock_wire_heard(kw, evidence)
      /\ armed' = IF hush THEN Off ELSE armed
      /\ UNCHANGED <<gear, cable, admin, trunk, barred, kl, upIn, served, credit, told, left,
                     proof, edges, disturbs>>
  BY DEF SnifferDrain, wires
<1> HIDE DEF hush
<1>2. Wire(kw) /\ evidence \in BOOLEAN /\ evident \in BOOLEAN /\ evident' \in BOOLEAN
  BY <1>1 DEF Inv, Shapes
<1> HIDE DEF evidence
<1>3. CASE kw.state = "TRUNK"
  <2>1. kw' = kw
    BY <1>1, <1>3 DEF reac_knock_wire_heard
  <2>2. armed' = armed
    BY <1>1, <1>3 DEF hush
  <2>3. Shapes'
    BY <1>1, <1>2, <2>1 DEF Inv, Shapes
  <2>4. ~told
    BY <1>1, <1>3 DEF Inv, ToldIsCounted
  <2>5. TransferIsCounted' /\ PushIsProven' /\ KnockIsOver' /\ ToldIsCounted'
    BY <1>1, <1>3, <2>1, <2>2, <2>4
       DEF Inv, TransferIsCounted, PushIsProven, KnockIsOver, ToldIsCounted
  <2> QED BY <1>1, <2>3, <2>5 DEF Inv, AnswerIsCredited, LinkIsOwed
<1>4. CASE kw.state # "TRUNK"
  <2>1. /\ Wire(kw') /\ kw'.quiet = 0 /\ kw'.pushes = kw.pushes /\ kw'.slot = kw.slot
        /\ kw'.head = kw.head /\ kw'.chunks = kw.chunks
        /\ kw'.state = (IF kw.state = "KNOCKING" /\ evidence THEN "ANSWERED" ELSE kw.state)
        /\ kw'.state = "ANSWERED" /\ evidence => kw'.kept
    BY <1>1, <1>2, <1>4, HeardLemma
  <2>a. kw.state = "ANSWERED" /\ kw.kept => kw'.kept
    <3>1. SUFFICES ASSUME kw.state = "ANSWERED", kw.kept PROVE kw'.kept
      OBVIOUS
    <3>2. Fields(kw)
      BY <1>2 DEF Wire
    <3>3. PICK u : u = IF kw.heard = Never \/ kw.heard = Listen THEN 0 ELSE kw.unanswered
      OBVIOUS
    <3>4. kw' = [kw EXCEPT !.heard = 0, !.quiet = 0, !.state = "ANSWERED", !.unanswered = u,
                           !.wait = kw.wait, !.kept = TRUE]
      BY <1>1, <1>4, <3>1, <3>3 DEF reac_knock_wire_heard
    <3>5. kw'.kept = TRUE
      BY <3>2, <3>4 DEF Fields
    <3> QED BY <3>5
  <2>2. Shapes'
    BY <1>1, <1>2, <2>1 DEF Inv, Shapes
  <2>3. TransferIsCounted'
    BY <1>1, <2>1 DEF Inv, TransferIsCounted
  <2>4. PushIsProven'
    BY <1>1, <2>1 DEF Inv, PushIsProven
  <2>5. KnockIsOver'
    BY <1>1, <2>1 DEF Inv, KnockIsOver, hush
  <2>6. ToldIsCounted'
    BY <1>1, <2>1, <2>a DEF Inv, ToldIsCounted
  <2> QED BY <1>1, <2>2, <2>3, <2>4, <2>5, <2>6 DEF Inv, AnswerIsCredited, LinkIsOwed
<1> QED BY <1>3, <1>4
\* A slot that is sent or missed: what the ladder sees grows with what left.
LEMMA SlotStep ==
    ASSUME Inv, open, kw.state = "KNOCKING", NEW out \in BOOLEAN,
           left' = IF out /\ Emit(kw.slot) # "announce" THEN left + 1 ELSE left,
           kw' = KnockSlot(kw, out), open' = open, kl' = kl, evident' = evident,
           proof' = IF out /\ Emit(kw.slot) # "announce" /\ left' = Chunks + 2
                    THEN AtMost(proof + 1, MinPushes) ELSE proof,
           told' => told \/ (out /\ Emit(kw.slot) # "announce" /\ left' = Chunks + 2)
    PROVE  /\ Wire(kw') /\ left' \in Nat /\ proof' \in 0..MinPushes
           /\ TransferIsCounted' /\ PushIsProven' /\ ToldIsCounted'
<1> DEFINE s == kw.slot
<1>1. /\ Wire(kw) /\ left \in Nat /\ proof \in 0..MinPushes /\ kl.pushes0 \in 0..PushCap
      /\ kw.pushes \in 0..PushCap /\ kw.chunks \in Nat
      /\ Chunks \in Nat /\ Chunks > 0 /\ MinPushes \in Nat /\ PushCap \in Nat
  BY ConstLemma DEF Inv, Shapes, Ladder, Wire
<1>2. /\ left # 0 => s \in Nat /\ left <= s
      /\ kw.head => left # 0 /\ left = s /\ left <= Chunks + 1 /\ kw.chunks = left - 1
      /\ left # 0 /\ left = s /\ left <= Chunks + 1 => kw.head
  BY DEF Inv, TransferIsCounted
<1>3. PICK c : c = CountScene(kw, Emit(kw.slot), out)
  OBVIOUS
<1>4. /\ Wire(kw') /\ kw'.state = kw.state /\ kw'.slot = s + 1 /\ kw'.pushes = c.pushes
      /\ kw'.head = c.head /\ kw'.chunks = c.chunks
  BY <1>1, <1>3, CountLemma, SlotLemma
<1>5. /\ c.pushes # kw.pushes => /\ s = Chunks + 1 /\ out /\ kw.head /\ kw.chunks = Chunks
                                 /\ c.pushes <= kw.pushes + 1
      /\ s = Chunks + 1 /\ out /\ kw.head /\ kw.chunks = Chunks => c.pushes > 0
      /\ Emit(s) = "announce" => c.head = kw.head /\ c.chunks = kw.chunks
      /\ Emit(s) # "announce" /\ ~out => ~c.head
      /\ s = 0 /\ out => c.head /\ c.chunks = 0
      /\ s \in 1..Chunks /\ out => c.head = kw.head /\ c.chunks = kw.chunks + 1
      /\ s = Chunks + 1 /\ out /\ c.head => kw.head /\ kw.chunks # Chunks
  BY <1>1, <1>3, CountLemma
<1>6. Emit(s) # "announce" <=> s \in 0..(Chunks + 1)
  <2>1. s \in 0..(Chunks + 1) <=> (s = 0 \/ s \in 1..Chunks \/ s = Chunks + 1)
    BY <1>1
  <2> QED BY <2>1, EmitLemma
<1>7. c.pushes \in 0..PushCap
  BY <1>4 DEF Wire
<1>8. left' \in Nat /\ proof' \in 0..MinPushes /\ proof' >= proof
  BY <1>1 DEF AtMost
<1> HIDE DEF s
\* Every frame of this transfer so far left, or one was missed.
<1>9. CASE out /\ Emit(kw.slot) # "announce"
  <2>a. Emit(s) # "announce" /\ out
    BY <1>9 DEF s
  <2>1. s \in 0..(Chunks + 1) /\ out /\ left' = left + 1 /\ left <= s
    BY <1>1, <1>2, <1>6, <1>9, <2>a
  <2>2. c.head => left' = s + 1 /\ left' <= Chunks + 1 /\ c.chunks = left' - 1
    <3>1. CASE s = 0
      <4>1. left = 0
        BY <1>1, <2>1, <3>1
      <4>2. c.chunks = 0
        BY <1>5, <2>1, <3>1
      <4> QED BY <1>1, <2>1, <3>1, <4>1, <4>2
    <3>2. CASE s \in 1..Chunks
      <4>1. c.chunks = kw.chunks + 1
        BY <1>5, <2>1, <3>2
      <4>2. c.head = kw.head
        BY <1>5, <2>1, <3>2
      <4>3. c.head => left = s /\ kw.chunks = left - 1
        BY <1>2, <4>2
      <4>4. left = s /\ kw.chunks = left - 1
            => left' = s + 1 /\ left' <= Chunks + 1 /\ c.chunks = left' - 1
        BY <1>1, <2>1, <3>2, <4>1
      <4> QED BY <4>3, <4>4
    <3>3. CASE s = Chunks + 1
      BY <1>1, <1>2, <1>5, <2>1, <3>3
    <3> QED BY <1>1, <2>1, <3>1, <3>2, <3>3
  <2>3. left' = s + 1 /\ left' <= Chunks + 1 => c.head
    <3>1. CASE s = 0
      BY <1>5, <2>1, <3>1
    <3>2. CASE s \in 1..Chunks
      BY <1>1, <1>2, <1>5, <2>1, <3>2
    <3>3. CASE s = Chunks + 1
      BY <1>1, <2>1, <3>3
    <3> QED BY <1>1, <2>1, <3>1, <3>2, <3>3
  <2>4. TransferIsCounted'
    <3>1. kw'.slot \in Nat /\ left' <= kw'.slot
      BY <1>1, <1>4, <2>1
    <3> QED BY <1>1, <1>4, <2>1, <2>2, <2>3, <3>1 DEF TransferIsCounted
  <2>5. left' = Chunks + 2 => s = Chunks + 1 /\ kw.head /\ kw.chunks = Chunks
    BY <1>1, <1>2, <2>1
  <2>6. kw.head /\ s = Chunks + 1 => left' = Chunks + 2
    BY <1>1, <1>2, <2>1
  <2>7. c.pushes # kw.pushes =>
           proof' = AtMost(proof + 1, MinPushes) /\ c.pushes <= kw.pushes + 1
    BY <1>5, <1>9, <2>6
  <2>8. PushIsProven'
    <3>1. proof = MinPushes \/ kw.pushes <= kl.pushes0 + proof
      BY DEF Inv, PushIsProven
    <3>2. proof' = MinPushes \/ c.pushes <= kl.pushes0 + proof'
      BY <1>1, <1>7, <1>8, <2>7, <3>1 DEF AtMost
    <3> QED BY <1>4, <3>2 DEF PushIsProven
  <2>9. told' => kw'.pushes > 0
    <3>1. CASE told
      <4>1. kw.pushes > 0
        BY <3>1 DEF Inv, ToldIsCounted
      <4>2. c.pushes > 0
        BY <1>5, <4>1
      <4> QED BY <1>4, <4>2
    <3>2. CASE left' = Chunks + 2
      BY <1>4, <1>5, <2>1, <2>5, <3>2
    <3> QED BY <3>1, <3>2
  <2>10. ToldIsCounted'
    BY <1>4, <2>9 DEF Inv, KnockIsOver, ToldIsCounted
  <2> QED BY <1>4, <1>8, <2>4, <2>8, <2>10
<1>10. CASE ~(out /\ Emit(kw.slot) # "announce")
  <2>1. left' = left /\ proof' = proof /\ (told' => told)
    BY <1>10
  <2>2. c.pushes = kw.pushes
    <3>1. s = Chunks + 1 /\ out => FALSE
      <4>1. ~(Emit(s) # "announce" /\ out)
        BY <1>10 DEF s
      <4>2. Chunks + 1 \in 0..(Chunks + 1)
        BY <1>1
      <4> QED BY <1>6, <4>1, <4>2
    <3> QED BY <1>5, <3>1
  <2>3. ~c.head
    <3>1. CASE Emit(s) # "announce"
      BY <1>5, <1>10, <3>1 DEF s
    <3>2. CASE Emit(s) = "announce"
      <4>1. ~kw.head
        BY <1>1, <1>2, <1>6, <3>2
      <4> QED BY <1>5, <3>2, <4>1
    <3> QED BY <3>1, <3>2
  <2>4. TransferIsCounted'
    <3>1. left # 0 => kw'.slot \in Nat /\ left < kw'.slot
      BY <1>1, <1>2, <1>4
    <3> QED BY <1>1, <1>4, <2>1, <2>3, <3>1 DEF TransferIsCounted
  <2>5. PushIsProven'
    BY <1>4, <2>1, <2>2 DEF Inv, PushIsProven
  <2>6. ToldIsCounted'
    BY <1>4, <2>1, <2>2 DEF Inv, KnockIsOver, ToldIsCounted
  <2> QED BY <1>4, <1>8, <2>4, <2>5, <2>6
<1> QED BY <1>9, <1>10

\* A knock that rests, or the one that opens after it: it holds what it held or nothing.
LEMMA TurnStep ==
    ASSUME Inv, open, kw.state = "KNOCKING", Wire(kw'),
           kw'.state = kw.state, kw'.pushes = kw.pushes,
           \/ kw'.resting /\ kw'.slot = kw.slot /\ kw'.head = kw.head /\ kw'.chunks = kw.chunks
           \/ ~kw'.resting /\ ~kw'.head,
           left' = IF kw'.resting THEN left ELSE 0,
           UNCHANGED <<open, kl, evident, told, proof>>
    PROVE  left' \in Nat /\ TransferIsCounted' /\ PushIsProven' /\ ToldIsCounted'
<1>1. left \in Nat
  BY DEF Inv, Shapes
<1>2. TransferIsCounted'
  BY <1>1 DEF Inv, TransferIsCounted
<1>3. PushIsProven'
  BY DEF Inv, PushIsProven
<1>4. ToldIsCounted'
  BY DEF Inv, KnockIsOver, ToldIsCounted
<1> QED BY <1>1, <1>2, <1>3, <1>4

LEMMA OnKnockTimerStep ==
    ASSUME Inv, OnKnockTimer
    PROVE  Inv' /\ edges' = edges
<1>1. /\ armed = 0 /\ open
      /\ armed' = knock_arm(tx, kw')
      /\ UNCHANGED <<cable, admin, trunk, barred, open, frames, evident, tx, kl, upIn, served,
                     credit, edges>>
  BY DEF OnKnockTimer
<1>2. kw.state = "KNOCKING" /\ Wire(kw) /\ disturbs \in Nat
  BY <1>1 DEF Inv, Shapes, KnockIsOver, Off
<1> DEFINE Goal ==
      /\ Wire(kw') /\ kw'.state = "KNOCKING" /\ left' \in Nat /\ proof' \in 0..MinPushes
      /\ told' \in BOOLEAN /\ disturbs' \in Nat /\ disturbs' >= disturbs
      /\ TransferIsCounted' /\ PushIsProven' /\ ToldIsCounted'
<1>3. Goal
  <2>1. ASSUME kw' = LET r == knock_rest(kw) IN IF r.wait <= 0 THEN KnockAgain(r) ELSE r,
               left' = IF kw'.resting THEN left ELSE 0,
               UNCHANGED <<told, proof, gear, disturbs>>
        PROVE  Goal
    <3>1. PICK r : r = knock_rest(kw)
      OBVIOUS
    <3>2. /\ Wire(r) /\ r.resting
          /\ r.state = kw.state /\ r.quiet = kw.quiet /\ r.pushes = kw.pushes
          /\ r.slot = kw.slot /\ r.head = kw.head /\ r.chunks = kw.chunks
      BY <1>2, <3>1, RestLemma
    <3>3. \/ kw' = r
          \/ kw' = KnockAgain(r)
      BY <2>1, <3>1
    <3>4. /\ Wire(kw') /\ kw'.state = r.state /\ kw'.pushes = r.pushes
          /\ \/ kw'.resting /\ kw'.slot = r.slot /\ kw'.head = r.head /\ kw'.chunks = r.chunks
             \/ ~kw'.resting /\ ~kw'.head
      <4>1. CASE kw' = r
        BY <3>2, <4>1
      <4>2. CASE kw' = KnockAgain(r)
        BY <3>2, <4>2, AgainLemma
      <4> QED BY <3>3, <4>1, <4>2
    <3>5. /\ kw'.state = kw.state /\ kw'.pushes = kw.pushes
          /\ \/ kw'.resting /\ kw'.slot = kw.slot /\ kw'.head = kw.head /\ kw'.chunks = kw.chunks
             \/ ~kw'.resting /\ ~kw'.head
      BY <3>2, <3>4
    <3>6. left' \in Nat /\ TransferIsCounted' /\ PushIsProven' /\ ToldIsCounted'
      BY <1>1, <1>2, <2>1, <3>4, <3>5, TurnStep
    <3> QED BY <1>2, <2>1, <3>4, <3>5, <3>6 DEF Inv, Shapes
  <2>2. ASSUME kw.resting, kw' = KnockAgain(kw),
               left' = IF kw'.resting THEN left ELSE 0,
               UNCHANGED <<told, proof, gear, disturbs>>
        PROVE  Goal
    <3>1. /\ Wire(kw') /\ kw'.state = kw.state /\ kw'.pushes = kw.pushes
          /\ \/ kw'.resting /\ kw'.slot = kw.slot /\ kw'.head = kw.head /\ kw'.chunks = kw.chunks
             \/ ~kw'.resting /\ ~kw'.head
      BY <1>2, <2>2, AgainLemma
    <3>2. left' \in Nat /\ TransferIsCounted' /\ PushIsProven' /\ ToldIsCounted'
      BY <1>1, <1>2, <2>2, <3>1, TurnStep
    <3> QED BY <1>2, <2>2, <3>1, <3>2 DEF Inv, Shapes
  <2>3. ASSUME NEW out \in BOOLEAN,
               left' = IF out /\ Emit(kw.slot) # "announce" THEN left + 1 ELSE left,
               IF out THEN UNCHANGED disturbs ELSE Disturb,
               kw' = KnockSlot(kw, out),
               proof' = IF out /\ Emit(kw.slot) # "announce" /\ left' = Chunks + 2
                        THEN AtMost(proof + 1, MinPushes) ELSE proof,
               told' = (told \/ (Carrier /\ gear # "none" /\ out /\ Emit(kw.slot) # "announce"
                                 /\ left' = Chunks + 2))
        PROVE  Goal
    <3>1. told' => told \/ (out /\ Emit(kw.slot) # "announce" /\ left' = Chunks + 2)
      BY <2>3
    <3>2. /\ Wire(kw') /\ left' \in Nat /\ proof' \in 0..MinPushes
          /\ TransferIsCounted' /\ PushIsProven' /\ ToldIsCounted'
      BY <1>1, <1>2, <2>3, <3>1, SlotStep
    <3>3. told' \in BOOLEAN
      BY <2>3
    <3>4. disturbs' \in Nat /\ disturbs' >= disturbs
      BY <1>2, <2>3 DEF Disturb
    <3>5. PICK c : c = CountScene(kw, Emit(kw.slot), out)
      OBVIOUS
    <3>6. kw'.state = "KNOCKING"
      BY <1>2, <2>3, <3>5, CountLemma, SlotLemma
    <3> QED BY <3>2, <3>3, <3>4, <3>6
  <2> HIDE DEF Goal
  <2>4. \/ \E out \in BOOLEAN :
             /\ left' = IF out /\ Emit(kw.slot) # "announce" THEN left + 1 ELSE left
             /\ IF out THEN UNCHANGED disturbs ELSE Disturb
             /\ kw' = KnockSlot(kw, out)
             /\ proof' = IF out /\ Emit(kw.slot) # "announce" /\ left' = Chunks + 2
                         THEN AtMost(proof + 1, MinPushes) ELSE proof
             /\ told' = (told \/ (Carrier /\ gear # "none" /\ out
                                  /\ Emit(kw.slot) # "announce" /\ left' = Chunks + 2))
        \/ /\ kw' = LET r == knock_rest(kw) IN IF r.wait <= 0 THEN KnockAgain(r) ELSE r
           /\ left' = IF kw'.resting THEN left ELSE 0
           /\ UNCHANGED <<told, proof, gear, disturbs>>
        \/ /\ kw.resting /\ kw' = KnockAgain(kw)
           /\ left' = IF kw'.resting THEN left ELSE 0
           /\ UNCHANGED <<told, proof, gear, disturbs>>
    BY DEF OnKnockTimer
  <2> QED BY <2>1, <2>2, <2>3, <2>4
<1>4. Shapes'
  BY <1>1, <1>3 DEF Inv, Shapes
<1>5. KnockIsOver'
  <2>1. ~evident
    BY <1>1, <1>2 DEF Inv, KnockIsOver
  <2> QED BY <1>1, <1>3, <2>1 DEF KnockIsOver
<1>6. (served => ~open)' /\ LinkIsOwed' /\ AnswerIsCredited'
  <2>1. ~served
    BY <1>1 DEF Inv
  <2> QED BY <1>1, <2>1 DEF Inv, LinkIsOwed, AnswerIsCredited
<1> QED BY <1>1, <1>3, <1>4, <1>5, <1>6 DEF Inv

\* The link that is due is brought up, or the kernel refuses.
LEMMA BackUpLemma ==
    ASSUME Inv, LinkBackUp(upIn = 1), \/ upIn' = Off /\ upIn \in {Off, 1}
                                      \/ upIn' = IF upIn > 1 THEN upIn - 1 ELSE Off
    PROVE  LinkIsOwed' /\ disturbs' \in Nat /\ (upIn' = Off \/ upIn' \in 1..Down)
<1>1. disturbs \in Nat /\ (upIn = Off \/ upIn \in 1..Down) /\ Down \in Nat /\ Down > 0
  BY ConstLemma DEF Inv, Shapes
<1>2. disturbs' \in Nat
  BY <1>1 DEF LinkBackUp, Disturb
<1>3. upIn' = Off \/ upIn' \in 1..Down
  BY <1>1 DEF Off
<1>4. CASE upIn = 1
  BY <1>1, <1>4 DEF LinkIsOwed, LinkBackUp, Disturb
<1>5. CASE upIn # 1
  <2>1. admin' = admin /\ disturbs' = disturbs
    BY <1>5 DEF LinkBackUp
  <2>2. upIn # Off => upIn' # Off
    BY <1>1, <1>5 DEF Off
  <2> QED BY <1>2, <1>3, <2>1, <2>2 DEF Inv, LinkIsOwed
<1> QED BY <1>2, <1>3, <1>4, <1>5

\* The wire as the poll leaves it.
LEMMA HuntedLemma ==
    ASSUME Inv, NEW w, w = Hunted
    PROVE  /\ Wire(w) /\ w.pushes = kw.pushes
           /\ open /\ trunk => w.state = "TRUNK"
           /\ \/ w.state = "KNOCKING" /\ kw.state # "KNOCKING" /\ open /\ ~w.head
              \/ /\ w.state = "KNOCKING" => kw.state = "KNOCKING"
                 /\ w.slot = kw.slot /\ w.head = kw.head /\ w.chunks = kw.chunks
                 /\ w.kept = kw.kept
                 /\ ~trunk /\ kw.state # "TRUNK" => w.state = kw.state
           /\ kw.quiet = 0 /\ w.state = "KNOCKING" => kw.state = "KNOCKING"
<1>1. Wire(kw) /\ trunk \in BOOLEAN /\ kw.quiet \in 0..Listen /\ Listen \in Nat /\ Listen > 1
  BY ConstLemma DEF Inv, Shapes, Wire
<1>2. CASE ~open
  <2>1. w = kw
    BY <1>2 DEF Hunted
  <2> QED BY <1>1, <1>2, <2>1
<1>3. CASE open
  <2>1. PICK a : a = Aged(kw)
    OBVIOUS
  <2>2. w = KnockStep(a)
    BY <1>3, <2>1 DEF Hunted
  <2>3. /\ Wire(a) /\ a.quiet = (IF kw.quiet < Listen THEN kw.quiet + 1 ELSE Listen)
        /\ a.state = kw.state /\ a.slot = kw.slot /\ a.head = kw.head
        /\ a.chunks = kw.chunks /\ a.pushes = kw.pushes /\ a.kept = kw.kept
    BY <1>1, <2>1, AgedLemma
  <2>4. /\ Wire(w) /\ w.pushes = a.pushes
        /\ trunk => w.state = "TRUNK"
        /\ \/ w.state = "KNOCKING" /\ a.state # "KNOCKING" /\ a.quiet = Listen /\ ~w.head
           \/ /\ w.state = "KNOCKING" => a.state = "KNOCKING"
              /\ w.slot = a.slot /\ w.head = a.head
              /\ w.chunks = a.chunks /\ w.kept = a.kept
              /\ ~trunk /\ a.state # "TRUNK" => w.state = a.state
    BY <1>1, <2>2, <2>3, StepLemma
  <2>5. kw.quiet = 0 => a.quiet # Listen
    BY <1>1, <2>3
  <2> QED BY <1>3, <2>3, <2>4, <2>5
<1> QED BY <1>2, <1>3
LEMMA HearingServeStep ==
    ASSUME Inv, HearingServe
    PROVE  Inv'
<1>1. /\ open /\ evident /\ ~trunk
      /\ served' = TRUE /\ open' = FALSE /\ credit' = Credit(Hunted)
      /\ evident' = FALSE /\ armed' = Off
      /\ kl' = [kl EXCEPT !.wake = LadderAge(kl.wake)]
      /\ upIn' = IF upIn > 1 THEN upIn - 1 ELSE Off
      /\ LinkBackUp(upIn = 1)
      /\ UNCHANGED <<cable, trunk, barred, told, left, proof, edges>>
  BY DEF HearingServe
<1>2. Wire(kw') /\ ~kw'.head /\ kw'.pushes = 0 /\ kw'.state = "LISTENING"
  BY FreshWire DEF HearingServe
<1>3. Ladder(kl') /\ kl'.pushes0 = kl.pushes0
  BY <1>1 DEF Inv, Shapes, Ladder
<1>4. LinkIsOwed' /\ disturbs' \in Nat /\ (upIn' = Off \/ upIn' \in 1..Down)
  BY <1>1, BackUpLemma
<1>5. Shapes'
  BY <1>1, <1>2, <1>3, <1>4 DEF Inv, Shapes
<1>6. PushIsProven'
  <2>1. proof \in 0..MinPushes /\ kl.pushes0 \in Nat /\ MinPushes \in Nat
    BY ConstLemma DEF Inv, Shapes, Ladder
  <2> QED BY <1>1, <1>2, <1>3, <2>1 DEF PushIsProven
<1>7. TransferIsCounted' /\ KnockIsOver' /\ ToldIsCounted'
  BY <1>1, <1>2 DEF TransferIsCounted, KnockIsOver, ToldIsCounted
<1>8. told => Credit(Hunted)
  <2> SUFFICES ASSUME told PROVE Credit(Hunted)
    OBVIOUS
  <2>1. kw.pushes > 0 /\ kw.kept /\ kw.state = "ANSWERED" /\ kw.quiet = 0
    BY <1>1 DEF Inv, ToldIsCounted
  <2>2. PICK w : w = Hunted
    OBVIOUS
  <2>3. w.pushes = kw.pushes
    BY <2>2, HuntedLemma
  <2>4. w.kept = kw.kept
    BY <2>1, <2>2, HuntedLemma
  <2> QED BY <2>1, <2>2, <2>3, <2>4 DEF Credit
<1>9. AnswerIsCredited'
  BY <1>1, <1>8 DEF AnswerIsCredited
<1> QED BY <1>1, <1>4, <1>5, <1>6, <1>7, <1>9 DEF Inv

\* A spell's first count, in the ladder and in the wire.
LEMMA SpellLemma ==
    ASSUME NEW w, Wire(w), NEW l, Ladder(l), NEW n, n = SpellOf(l, w)
    PROVE  /\ Base(w) \in 0..PushCap /\ (w.pushes > 0 => Base(w) > 0)
           /\ Ladder(n)
           /\ NewSpell(l, w) => n.pushes0 = Base(w)
           /\ ~NewSpell(l, w) => n.pushes0 = l.pushes0
<1>1. w.pushes \in 0..PushCap /\ MinPushes \in Nat /\ PushCap \in Nat /\ PushCap >= MinPushes + 2
  BY ConstLemma DEF Wire
<1>2. Base(w) \in 0..PushCap /\ (w.pushes > 0 => Base(w) > 0)
  BY <1>1 DEF Base, AtMost
<1>3. CASE NewSpell(l, w)
  <2>1. PICK k : k = IF l.wake.opened = Never THEN LadderInit ELSE LadderReopen(l.wake)
    OBVIOUS
  <2>2. n = [wake |-> k, pushes0 |-> Base(w), last |-> Base(w), frames0 |-> frames,
             knocks |-> w.knocks]
    BY <1>3, <2>1 DEF SpellOf
  <2> QED BY <1>2, <1>3, <2>2 DEF Ladder
<1>4. CASE ~NewSpell(l, w)
  <2>1. n = [l EXCEPT !.last = w.pushes]
    BY <1>4 DEF SpellOf
  <2> QED BY <1>2, <1>4, <2>1 DEF Ladder
<1> QED BY <1>2, <1>3, <1>4

\* What a poll that serves nothing does, with its choice named.
PollTakes(w, old, new, k) ==
    LET begun == w.state = "KNOCKING" /\ kw.state # "KNOCKING"
        turn  == open /\ k /\ w.state = "KNOCKING" /\ upIn \in {Off, 1}
        obs   == KnockObs(new, kw')
    IN  /\ kw' = IF turn /\ NewSpell(old, w) THEN [w EXCEPT !.pushes = Base(w)] ELSE w
        /\ armed' = IF begun \/ w.state = "TRUNK" THEN knock_arm(k, w)
                    ELSE IF armed > 0 THEN armed - 1 ELSE armed
        /\ IF turn
           THEN /\ kl' = [new EXCEPT !.wake = LadderStep(new.wake, obs)]
                /\ proof' = IF NewSpell(old, w) THEN 0 ELSE proof
                /\ IF LadderAct(new.wake, obs) = "BOUNCE" THEN TakeDown
                   ELSE /\ upIn' = Off /\ LinkBackUp(upIn = 1) /\ UNCHANGED edges
           ELSE /\ kl' = old /\ UNCHANGED <<proof, edges>>
                /\ upIn' = IF upIn > 1 THEN upIn - 1 ELSE Off
                /\ LinkBackUp(upIn = 1)
        /\ left' = IF begun THEN 0 ELSE left

\* The observation that takes the link down.
LEMMA BounceLemma ==
    ASSUME NEW l, NEW w, NEW k, NEW o, o = KnockObs(l, w), LadderAct(k, o) = "BOUNCE",
           barred \in {"host", "sibling", "no"}, w.pushes \in Nat, l.pushes0 \in Nat
    PROVE  /\ w.pushes - l.pushes0 >= MinPushes /\ Carrier /\ frames = l.frames0
           /\ barred = "no"
<1>1. Refusal(k, o) = "OK"
  BY DEF LadderAct
<1>2. /\ o.carrier # "down" /\ ~o.rx /\ ~o.host /\ ~o.siblings /\ o.pushes >= MinPushes
  BY <1>1 DEF Refusal, PushProven
<1>3. o.carrier = IF Carrier THEN "up" ELSE "down"
  BY DEF KnockObs
<1>4. o.rx = (frames # l.frames0) /\ o.host = (barred = "host")
      /\ o.siblings = (barred = "sibling")
  BY DEF KnockObs
<1>5. o.pushes = AtMost(w.pushes - l.pushes0, MinPushes)
  BY DEF KnockObs
<1>6. MinPushes \in Nat
  BY ConstLemma
<1>7. w.pushes - l.pushes0 >= MinPushes
  BY <1>2, <1>5, <1>6 DEF AtMost
<1> QED BY <1>2, <1>3, <1>4, <1>7
\* The ladder as the poll finds it, a second older.
Aging == [kl EXCEPT !.wake = LadderAge(@)]

LEMMA HearingPollStep ==
    ASSUME Inv, HearingPoll
    PROVE  /\ Inv'
           /\ edges' # edges =>
                 /\ proof = MinPushes /\ Carrier /\ frames = kl'.frames0 /\ barred = "no"
<1>1. /\ (evident => ~open \/ trunk)
      /\ told' = (told /\ Hunted.state # "TRUNK")
      /\ UNCHANGED <<cable, trunk, barred, open, frames, evident, served, credit>>
  BY DEF HearingPoll
<1>2. PICK k : PollTakes(Hunted, Aging, SpellOf(Aging, Hunted), k)
  BY DEF HearingPoll, PollTakes, Aging
<1>3. PICK w : w = Hunted
  OBVIOUS
<1>4. PICK old : old = Aging
  OBVIOUS
<1>5. PICK new : new = SpellOf(old, w)
  OBVIOUS
<1>6. PollTakes(w, old, new, k)
  BY <1>2, <1>3, <1>4, <1>5
<1>7. /\ Wire(w) /\ w.pushes = kw.pushes
      /\ open /\ trunk => w.state = "TRUNK"
      /\ \/ w.state = "KNOCKING" /\ kw.state # "KNOCKING" /\ open /\ ~w.head
         \/ /\ w.state = "KNOCKING" => kw.state = "KNOCKING"
            /\ w.slot = kw.slot /\ w.head = kw.head /\ w.chunks = kw.chunks
            /\ w.kept = kw.kept
            /\ ~trunk /\ kw.state # "TRUNK" => w.state = kw.state
  BY <1>3, HuntedLemma
<1>8. Ladder(old) /\ old.pushes0 = kl.pushes0
  BY <1>4 DEF Inv, Shapes, Ladder, Aging
<1>9. /\ Base(w) \in 0..PushCap /\ (w.pushes > 0 => Base(w) > 0) /\ Ladder(new)
      /\ NewSpell(old, w) => new.pushes0 = Base(w)
      /\ ~NewSpell(old, w) => new.pushes0 = kl.pushes0
  BY <1>5, <1>7, <1>8, SpellLemma
<1>10. /\ left \in Nat /\ proof \in 0..MinPushes /\ MinPushes \in Nat /\ disturbs \in Nat
       /\ kl.pushes0 \in Nat /\ kw.pushes \in 0..PushCap /\ PushCap \in Nat
       /\ Down \in Nat /\ Down > 0
       /\ trunk \in BOOLEAN /\ open \in BOOLEAN /\ evident \in BOOLEAN /\ told \in BOOLEAN
  BY ConstLemma DEF Inv, Shapes, Ladder, Wire
<1> DEFINE begun == w.state = "KNOCKING" /\ kw.state # "KNOCKING"
           turn  == open /\ k /\ w.state = "KNOCKING" /\ upIn \in {Off, 1}
<1>11. left' = IF begun THEN 0 ELSE left
  BY <1>6 DEF PollTakes
<1>12. armed' = IF begun \/ w.state = "TRUNK" THEN knock_arm(k, w)
                ELSE IF armed > 0 THEN armed - 1 ELSE armed
  BY <1>6 DEF PollTakes
<1>13. kw' = IF turn /\ NewSpell(old, w) THEN [w EXCEPT !.pushes = Base(w)] ELSE w
  BY <1>6 DEF PollTakes
<1>14. turn => /\ proof' = IF NewSpell(old, w) THEN 0 ELSE proof
               /\ kl' = [new EXCEPT !.wake = LadderStep(new.wake, KnockObs(new, kw'))]
               /\ \/ LadderAct(new.wake, KnockObs(new, kw')) = "BOUNCE" /\ TakeDown
                  \/ upIn' = Off /\ LinkBackUp(upIn = 1) /\ edges' = edges
  BY <1>6 DEF PollTakes
<1>15. ~turn => /\ kl' = old /\ proof' = proof /\ edges' = edges
                /\ upIn' = (IF upIn > 1 THEN upIn - 1 ELSE Off)
                /\ LinkBackUp(upIn = 1)
  BY <1>6 DEF PollTakes
<1>16. turn => upIn \in {Off, 1} /\ open /\ w.state = "KNOCKING"
  OBVIOUS
<1> HIDE DEF turn, begun
<1>17. /\ Wire(kw') /\ kw'.state = w.state /\ kw'.slot = w.slot /\ kw'.head = w.head
       /\ kw'.chunks = w.chunks /\ kw'.kept = w.kept /\ kw'.quiet = w.quiet
       /\ turn /\ NewSpell(old, w) => kw'.pushes = Base(w)
       /\ ~(turn /\ NewSpell(old, w)) => kw'.pushes = kw.pushes
  <2>1. CASE turn /\ NewSpell(old, w)
    <3>1. kw' = [w EXCEPT !.pushes = Base(w)]
      BY <1>13, <2>1
    <3>2. Fields(w)
      BY <1>7 DEF Wire
    <3>3. /\ Fields(kw') /\ kw'.state = w.state /\ kw'.slot = w.slot /\ kw'.head = w.head
          /\ kw'.chunks = w.chunks /\ kw'.kept = w.kept /\ kw'.quiet = w.quiet
          /\ kw'.pushes = Base(w)
      BY <3>1, <3>2 DEF Fields
    <3>4. Wire(kw')
      BY <1>7, <1>9, <3>3 DEF Wire
    <3> QED BY <2>1, <3>3, <3>4
  <2>2. CASE ~(turn /\ NewSpell(old, w))
    <3>1. kw' = w
      BY <1>13, <2>2
    <3> QED BY <1>7, <2>2, <3>1
  <2> QED BY <2>1, <2>2
<1>18. kw'.pushes \in 0..PushCap /\ (kw.pushes > 0 => kw'.pushes > 0)
  BY <1>7, <1>9, <1>10, <1>17
<1>19. /\ Ladder(kl') /\ (turn => kl'.frames0 = new.frames0)
       /\ kl'.pushes0 = IF turn /\ NewSpell(old, w) THEN Base(w) ELSE kl.pushes0
  <2>1. CASE turn
    BY <1>9, <1>14, <2>1 DEF Ladder
  <2>2. CASE ~turn
    BY <1>8, <1>15, <2>2
  <2> QED BY <2>1, <2>2
<1>20. /\ proof' \in 0..MinPushes
       /\ turn /\ NewSpell(old, w) => proof' = 0
       /\ ~(turn /\ NewSpell(old, w)) => proof' = proof
  BY <1>10, <1>14, <1>15
<1>21. LinkIsOwed' /\ disturbs' \in Nat /\ (upIn' = Off \/ upIn' \in 1..Down)
  <2>1. CASE ~turn
    BY <1>15, <2>1, BackUpLemma
  <2>2. CASE turn /\ upIn' = Off /\ LinkBackUp(upIn = 1)
    BY <1>16, <2>2, BackUpLemma
  <2>3. CASE LadderAct(new.wake, KnockObs(new, kw')) = "BOUNCE" /\ TakeDown
    <3>1. new.pushes0 \in Nat /\ kw'.pushes \in Nat /\ barred \in {"host", "sibling", "no"}
      BY <1>9, <1>18 DEF Inv, Shapes, Ladder
    <3>2. admin = "up"
      BY <2>3, <3>1, BounceLemma DEF Carrier
    <3> QED BY <1>10, <2>3, <3>2 DEF TakeDown, LinkIsOwed, Disturb, Off
  <2> QED BY <1>14, <2>1, <2>2, <2>3
<1>22. Shapes'
  <2>1. left' \in Nat
    BY <1>10, <1>11
  <2>2. told' \in BOOLEAN
    BY <1>1
  <2> QED BY <1>1, <1>17, <1>19, <1>20, <1>21, <2>1, <2>2 DEF Inv, Shapes
<1>23. TransferIsCounted'
  <2>1. CASE begun
    <3>1. left' = 0 /\ ~w.head
      BY <1>7, <1>11, <2>1 DEF begun
    <3> QED BY <1>17, <3>1 DEF TransferIsCounted
  <2>2. CASE ~begun
    <3>1. left' = left /\ w.slot = kw.slot /\ w.head = kw.head /\ w.chunks = kw.chunks
      BY <1>7, <1>11, <2>2 DEF begun
    <3> QED BY <1>1, <1>17, <3>1 DEF Inv, TransferIsCounted
  <2> QED BY <2>1, <2>2
<1>24. PushIsProven'
  <2>1. CASE turn /\ NewSpell(old, w)
    BY <1>9, <1>10, <1>17, <1>19, <1>20, <2>1 DEF PushIsProven
  <2>2. CASE ~(turn /\ NewSpell(old, w))
    BY <1>17, <1>19, <1>20, <2>2 DEF Inv, PushIsProven
  <2> QED BY <2>1, <2>2
<1>25. KnockIsOver'
  <2>1. open /\ evident => w.state = "TRUNK"
    BY <1>1, <1>7
  <2>2. armed' # Off => w.state = "KNOCKING"
    <3>1. CASE begun \/ w.state = "TRUNK"
      BY <1>12, <3>1 DEF knock_arm
    <3>2. CASE ~begun /\ w.state # "TRUNK"
      <4>1. armed' # Off => armed # Off
        BY <1>12, <3>2 DEF Off
      <4>2. armed # Off => kw.state = "KNOCKING"
        BY DEF Inv, KnockIsOver
      <4>3. kw.state = "KNOCKING" => w.state = "KNOCKING"
        <5>1. CASE open
          BY <1>7, <1>10, <3>2, <5>1
        <5>2. CASE ~open
          BY <1>3, <5>2 DEF Hunted
        <5> QED BY <5>1, <5>2
      <4> QED BY <4>1, <4>2, <4>3
    <3> QED BY <3>1, <3>2
  <2> QED BY <1>1, <1>17, <2>1, <2>2 DEF KnockIsOver
<1>26. ToldIsCounted'
  <2> SUFFICES ASSUME open', told'
               PROVE  kw'.pushes > 0 /\ ~evident' /\ kw'.state = "KNOCKING"
    BY DEF ToldIsCounted
  <2>1. told /\ open /\ w.state # "TRUNK"
    BY <1>1, <1>3
  <2>2. ~evident
    BY <1>1, <1>7, <2>1
  <2>3. kw.pushes > 0 /\ kw.state = "KNOCKING"
    BY <2>1, <2>2 DEF Inv, ToldIsCounted
  <2>4. w.state = "KNOCKING"
    BY <1>7, <2>1, <2>3
  <2> QED BY <1>1, <1>17, <1>18, <2>2, <2>3, <2>4
<1>27. (served => ~open)' /\ AnswerIsCredited'
  BY <1>1 DEF Inv, AnswerIsCredited
<1>28. ASSUME edges' # edges
       PROVE  proof = MinPushes /\ Carrier /\ frames = kl'.frames0 /\ barred = "no"
  <2>1. turn /\ LadderAct(new.wake, KnockObs(new, kw')) = "BOUNCE"
    BY <1>14, <1>15, <1>28
  <2>2. barred \in {"host", "sibling", "no"} /\ kw'.pushes \in Nat /\ new.pushes0 \in Nat
    BY <1>9, <1>10, <1>18 DEF Inv, Shapes, Ladder
  <2>3. PICK o : o = KnockObs(new, kw')
    OBVIOUS
  <2>4. /\ kw'.pushes - new.pushes0 >= MinPushes /\ Carrier /\ frames = new.frames0
        /\ barred = "no"
    BY <2>1, <2>2, <2>3, BounceLemma
  <2>5. proof = MinPushes
    <3>1. CASE NewSpell(old, w)
      <4>1. kw'.pushes = Base(w) /\ new.pushes0 = Base(w)
        BY <1>9, <1>17, <2>1, <3>1
      <4> QED BY <1>9, <1>10, <2>4, <4>1
    <3>2. CASE ~NewSpell(old, w)
      <4>1. kw'.pushes = kw.pushes /\ new.pushes0 = kl.pushes0
        BY <1>9, <1>17, <3>2
      <4>2. proof = MinPushes \/ kw.pushes <= kl.pushes0 + proof
        BY DEF Inv, PushIsProven
      <4> QED BY <1>10, <2>4, <4>1, <4>2
    <3> QED BY <3>1, <3>2
  <2>6. kl'.frames0 = new.frames0
    BY <1>19, <2>1
  <2> QED BY <2>4, <2>5, <2>6
<1> QED BY <1>21, <1>22, <1>23, <1>24, <1>25, <1>26, <1>27, <1>28 DEF Inv
\* The gear, the cable, the VLANs and the host do not touch what the sniffer has counted.
LEMMA WorldStep ==
    ASSUME Inv, GearMoves \/ CableMoves \/ HostMoves \/ SegmentDrop \/ UNCHANGED vars
    PROVE  Inv' /\ edges' = edges
<1>1. /\ UNCHANGED <<admin, open, evident, kw, armed, kl, upIn, left, proof, edges>>
      /\ trunk' \in BOOLEAN /\ barred' \in {"host", "sibling", "no"}
      /\ disturbs' \in Nat /\ disturbs' >= disturbs
      /\ told' \in BOOLEAN /\ (told' => told) /\ served' \in BOOLEAN /\ (served' => served)
      /\ (served' => credit' = credit)
  <2>0. /\ disturbs \in Nat /\ trunk \in BOOLEAN /\ barred \in {"host", "sibling", "no"}
        /\ told \in BOOLEAN /\ served \in BOOLEAN
    BY DEF Inv, Shapes
  <2>1. CASE GearMoves
    <3>1. /\ UNCHANGED <<admin, open, evident, kw, armed, kl, upIn, left, proof, edges>>
          /\ UNCHANGED <<trunk, barred, served, credit>>
      BY <2>1 DEF GearMoves, inside
    <3>2. disturbs' \in Nat /\ disturbs' >= disturbs
      BY <2>0, <2>1 DEF GearMoves, Disturb
    <3>3. told' \in BOOLEAN /\ ~told'
      BY <2>1 DEF GearMoves
    <3> QED BY <2>0, <3>1, <3>2, <3>3
  <2>2. CASE CableMoves
    BY <2>0, <2>2 DEF CableMoves, Disturb, inside
  <2>3. CASE HostMoves
    <3>1. /\ UNCHANGED <<admin, open, evident, kw, armed, kl, upIn, left, proof, edges>>
          /\ UNCHANGED <<told, served, credit>>
      BY <2>3 DEF HostMoves, inside
    <3>2. disturbs' \in Nat /\ disturbs' >= disturbs
      BY <2>0, <2>3 DEF HostMoves, Disturb
    <3>3. trunk' \in BOOLEAN /\ barred' \in {"host", "sibling", "no"}
      BY <2>0, <2>3 DEF HostMoves
    <3> QED BY <2>0, <3>1, <3>2, <3>3
  <2>4. CASE SegmentDrop
    <3>1. /\ UNCHANGED <<admin, open, evident, kw, armed, kl, upIn, left, proof, edges>>
          /\ UNCHANGED <<trunk, barred, told, disturbs>>
      BY <2>4 DEF SegmentDrop, wires
    <3>2. served' \in BOOLEAN /\ ~served'
      BY <2>4 DEF SegmentDrop
    <3> QED BY <2>0, <3>1, <3>2
  <2>5. CASE UNCHANGED vars
    BY <2>0, <2>5 DEF vars
  <2> QED BY <2>1, <2>2, <2>3, <2>4, <2>5
<1>2. Shapes'
  BY <1>1 DEF Inv, Shapes
<1>3. TransferIsCounted' /\ PushIsProven' /\ KnockIsOver' /\ ToldIsCounted'
  BY <1>1 DEF Inv, TransferIsCounted, PushIsProven, KnockIsOver, ToldIsCounted
<1>4. (served => ~open)' /\ AnswerIsCredited'
  BY <1>1 DEF Inv, AnswerIsCredited
<1>5. LinkIsOwed'
  <2>1. disturbs \in Nat
    BY DEF Inv, Shapes
  <2>2. disturbs' = 0 => disturbs = 0
    BY <1>1, <2>1
  <2> QED BY <1>1, <2>2 DEF Inv, LinkIsOwed
<1> QED BY <1>1, <1>2, <1>3, <1>4, <1>5 DEF Inv

LEMMA NextInv == Inv /\ [Next]_vars => Inv'
<1> SUFFICES ASSUME Inv, [Next]_vars PROVE Inv'
  OBVIOUS
<1>1. CASE SnifferOpen
  BY <1>1, SnifferOpenStep
<1>2. CASE SnifferClose
  BY <1>2, SnifferCloseStep
<1>3. CASE SnifferDrain
  BY <1>3, SnifferDrainStep
<1>4. CASE OnKnockTimer
  BY <1>4, OnKnockTimerStep
<1>5. CASE HearingServe
  BY <1>5, HearingServeStep
<1>6. CASE HearingPoll
  BY <1>6, HearingPollStep
<1>7. CASE GearMoves \/ CableMoves \/ HostMoves \/ SegmentDrop \/ UNCHANGED vars
  BY <1>7, WorldStep
<1> QED BY <1>1, <1>2, <1>3, <1>4, <1>5, <1>6, <1>7 DEF Next, Events, Timers

LEMMA Invariance == Spec => []Inv
BY InitInv, NextInv, PTL DEF Spec

-----------------------------------------------------------------------------
(* The theorems.                                                           *)

\* LinkIsOwed: the link the knock took down has its instant to come back, whatever happens
\* to the sniffer that asked for the edge (hearing_knock_wake; hearing_poll 5231-5245).
THEOREM DownLinkIsOwed == Spec => []LinkIsOwed
<1>1. Inv => LinkIsOwed
  BY DEF Inv
<1> QED BY <1>1, Invariance, PTL

\* AnswerIsCredited: the master of a box that was told by a whole transfer, and answered, is
\* credited with it: the answer is still held when the poll makes the master
\* (reac_knock_wire_heard, hearing_hunt, reac_knock_credit_transfer).
THEOREM ToldBoxIsCredited == Spec => []AnswerIsCredited
<1>1. Inv => AnswerIsCredited
  BY DEF Inv
<1> QED BY <1>1, Invariance, PTL

\* EdgeIsProven: no link is taken down before MinPushes whole transfers have left in the
\* ladder's spell, nor on a wire that spoke in it, nor on the host's own NIC, nor under a
\* served sibling (hearing_knock_wake, reac_knock_ladder_step).
THEOREM OnlyAProvenEdge == Spec => EdgeIsProven
<1>1. Inv /\ [Next]_vars =>
         [edges' # edges =>
            /\ proof = MinPushes /\ Carrier /\ frames = kl'.frames0 /\ barred = "no"]_vars
  <2> SUFFICES ASSUME Inv, Next
               PROVE  edges' # edges =>
                        /\ proof = MinPushes /\ Carrier /\ frames = kl'.frames0
                        /\ barred = "no"
    OBVIOUS
  <2>1. CASE HearingPoll
    BY <2>1, HearingPollStep
  <2>2. CASE OnKnockTimer
    BY <2>2, OnKnockTimerStep
  <2>3. CASE SnifferOpen \/ SnifferClose \/ SnifferDrain \/ HearingServe
    BY <2>3 DEF SnifferOpen, SnifferClose, SnifferDrain, HearingServe
  <2>4. CASE GearMoves \/ CableMoves \/ HostMoves \/ SegmentDrop
    BY <2>4, WorldStep
  <2> QED BY <2>1, <2>2, <2>3, <2>4 DEF Next, Events, Timers
<1> QED BY <1>1, Invariance, PTL DEF Spec, EdgeIsProven
=============================================================================
