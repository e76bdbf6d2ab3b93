------------------------------- MODULE Segconf -------------------------------
(***************************************************************************)
(* The override file and its drop-ins (reac_segconf.c): reac-pw.conf, then  *)
(* every *.conf of reac-pw.conf.d in byte order, the last one winning key   *)
(* by key, and the keys that depend on each other judged after the last     *)
(* file.  The daemon asks on every link event and every roster tick, and    *)
(* each question first looks whether a stamp has moved; the operator and    *)
(* the console edit the files meanwhile, between any two calls of a load.   *)
(*                                                                          *)
(* A text is the sequence of its lines, each what the grammar makes of it.  *)
(* What the refusals say is left out; so are the 64 KiB and 511 byte        *)
(* bounds, past which a text is cut or a line is refused like any other.    *)
(***************************************************************************)
EXTENDS Integers, Sequences, FiniteSets, SequencesExt

CONSTANTS
    Segs,          \* segment names
    Drops,         \* drop-ins 1..Drops, in byte order; 0 is the hand-written file
    Texts,         \* what a file may hold
    Starts,        \* the files as the daemon starts: a text each, or NoFile
    SegMax,        \* REAC_SEGCONF_MAX
    FileMax,       \* REAC_SEGCONF_FILES
    MaxEdits       \* bound: changes to the files

None   == "none"
NoFile == <<"no file">>
Files  == 0..Drops
Roles  == {"auto", "master", "slave", "tap", "box"}
Lines  == ({"segment"} \X Segs) \cup ({"role"} \X Roles) \cup ({"ignore"} \X {"yes", "no"})
            \cup ({"model"} \X {"s1608", "s0808"})
            \cup {<<"refused", "header">>, <<"refused", "line">>}

ASSUME SegconfAssumption ==
    /\ Drops \in Nat /\ SegMax \in Nat \ {0} /\ FileMax \in Nat \ {0} /\ MaxEdits \in Nat
    /\ Texts \subseteq Seq(Lines)
    /\ Starts \subseteq [Files -> Texts \cup {NoFile}]
    /\ None \notin Segs

VARIABLES
    fs,            \* file -> is: absent, dangling, denied or file; stamp: of its inode; text
    dird,          \* stamp of the drop-in directory, 0 when there is none
    c,             \* struct reac_segconf: seg, files, stamp, dir; unread: what did not open
    load,          \* the load in progress: at, the file, the drop-ins still to come
    edits

disk == <<fs, dird, edits>>
vars == <<fs, dird, edits, c, load>>

Entries == [role : Roles \cup {None}, by : Files, model : {"s1608", "s0808", None},
            ignore : BOOLEAN, said : BOOLEAN, offBy : Files]
Stamps  == 0..(MaxEdits + 1)
Idle    == [at |-> "idle", f |-> 0, rest |-> <<>>]

TypeOK ==
    /\ fs \in [Files -> [is : {"absent", "dangling", "denied", "file"}, stamp : Stamps,
                         text : Texts \cup {NoFile}]]
    /\ dird \in Stamps /\ edits \in 0..MaxEdits
    /\ DOMAIN c.seg \subseteq Segs /\ Cardinality(DOMAIN c.seg) <= SegMax
    /\ \A s \in DOMAIN c.seg : c.seg[s] \in Entries
    /\ c.files \in Seq(Files) /\ Len(c.files) <= FileMax
    /\ c.stamp \in [0..(FileMax - 1) -> Stamps] /\ c.dir \in Stamps /\ c.unread \subseteq Files
    /\ load \in [at : {"idle", "open", "dir", "list", "stat"}, f : Files, rest : Seq(Files)]

-----------------------------------------------------------------------------
(* One text.                                                               *)

NewEntry == [role |-> None, by |-> 0, model |-> None, ignore |-> FALSE, said |-> FALSE,
             offBy |-> 0]

\* seg_get: the entry there is, a new one, or none past the bound.
SegGet(p, s) ==
    IF s \in DOMAIN p.seg THEN [p EXCEPT !.cur = s]
    ELSE IF Cardinality(DOMAIN p.seg) >= SegMax THEN [p EXCEPT !.cur = None]
    ELSE [seg |-> [t \in DOMAIN p.seg \cup {s} |-> IF t = s THEN NewEntry ELSE p.seg[t]],
          cur |-> s]

\* A key of the open section; outside any it is refused.
Key(p, line, f) ==
    IF p.cur = None THEN p
    ELSE [p EXCEPT !.seg[p.cur] =
            CASE line[1] = "role"   -> [@ EXCEPT !.role = line[2], !.by = f]
              [] line[1] = "model"  -> [@ EXCEPT !.model = line[2]]
              [] line[1] = "ignore" -> [@ EXCEPT !.ignore = line[2] = "yes", !.said = TRUE,
                                                 !.offBy = f]]

\* reac_segconf_parse_file: onto what earlier files said.  A refused line says nothing, and
\* a refused header ends the section before it.
ParseFile(seg, text, f) ==
    LET Line(p, line) ==
            CASE line[1] = "segment"             -> SegGet(p, line[2])
              [] line = <<"refused", "header">>  -> [p EXCEPT !.cur = None]
              [] line = <<"refused", "line">>    -> p
              [] OTHER                           -> Key(p, line, f)
    IN  FoldLeft(Line, [seg |-> seg, cur |-> None], text).seg

\* cross_check: a model is a box's, and a box has a model.
CrossCheck(seg) ==
    [s \in DOMAIN seg |->
        IF seg[s].role # "box" THEN [seg[s] EXCEPT !.model = None]
        ELSE IF seg[s].model = None THEN [seg[s] EXCEPT !.role = None]
        ELSE seg[s]]

-----------------------------------------------------------------------------
(* A load, call by call.                                                   *)

\* stat: a dangling link is not there; one that may not be read is.
Stat(f) == IF fs[f].is \in {"denied", "file"} THEN fs[f].stamp ELSE 0

Blank == [seg |-> <<>>, files |-> <<>>, stamp |-> [k \in 0..(FileMax - 1) |-> 0], dir |-> 0,
          unread |-> {}]

\* The stamp a file was read under: its own slot, taken before the text is.
Stamped(k, f) == [c EXCEPT !.stamp[k] = Stat(f)]

\* Mutant of Moved: a directory that stands still stands for its files.
MovedDir == Stat(0) # c.stamp[0] \/ dird # c.dir

\* moved, over the hand-written file, the directory and the files it listed.
Moved ==
    \/ Stat(0) # c.stamp[0]
    \/ dird # c.dir
    \/ \E k \in 1..Len(c.files) : c.files[k] # 0 /\ Stat(c.files[k]) # c.stamp[k - 1]

\* reac_segconf_refresh that finds something moved, and the load as far as the stamp of the
\* hand-written file.
Refresh ==
    /\ load.at = "idle" /\ Moved
    /\ c' = [Blank EXCEPT !.stamp[0] = Stat(0)]
    /\ load' = [Idle EXCEPT !.at = "open"]
    /\ UNCHANGED disk

\* The load after a file: the next drop-in, or the end.
Onward(rest) == IF rest = <<>> THEN Idle ELSE [at |-> "stat", f |-> Head(rest), rest |-> Tail(rest)]

\* read_one from fopen on.  Only a file that was opened has a name in the list.
ReadOne ==
    /\ load.at = "open"
    /\ LET f      == load.f
           opened == IF fs[f].is = "file"
                     THEN [c EXCEPT !.files = Append(@, f),
                                    !.seg = ParseFile(@, fs[f].text, f)]
                     ELSE IF fs[f].is = "absent" /\ f = 0 THEN c
                     ELSE [c EXCEPT !.unread = @ \cup {f}]
           next   == IF f = 0 THEN [Idle EXCEPT !.at = "dir"] ELSE Onward(load.rest)
       IN  /\ load' = next
           /\ c' = IF next = Idle THEN [opened EXCEPT !.seg = CrossCheck(@)] ELSE opened
    /\ UNCHANGED disk

StatDir ==
    /\ load.at = "dir"
    /\ c' = [c EXCEPT !.dir = dird]
    /\ load' = [load EXCEPT !.at = "list"]
    /\ UNCHANGED disk

\* load_dropins: as many as there is room for, whichever the directory yields first, then
\* in byte order.
ListDir ==
    /\ load.at = "list"
    /\ \E names \in SUBSET {f \in Files \ {0} : fs[f].is # "absent"} :
          LET there == {f \in Files \ {0} : fs[f].is # "absent"}
              next  == Onward(SetToSortSeq(names, LAMBDA x, y : x < y))
          IN  /\ \/ names = there
                 \/ Cardinality(there) > FileMax - 1 /\ Cardinality(names) = FileMax - 1
              /\ load' = next
              /\ c' = [c EXCEPT !.unread = @ \cup (there \ names),
                                !.seg = IF next = Idle THEN CrossCheck(@) ELSE @]
    /\ UNCHANGED disk

\* Mutant of StatFile: the stamp goes one slot too far.
StatFileNextSlot ==
    /\ load.at = "stat"
    /\ c' = Stamped((Len(c.files) + 1) % FileMax, load.f)
    /\ load' = [load EXCEPT !.at = "open"]
    /\ UNCHANGED disk

\* read_one up to its stat, into the slot the file will have if it opens.
StatFile ==
    /\ load.at = "stat"
    /\ c' = Stamped(Len(c.files), load.f)
    /\ load' = [load EXCEPT !.at = "open"]
    /\ UNCHANGED disk

-----------------------------------------------------------------------------
(* What the daemon is told.                                                *)

reac_segconf_role(s)    == IF s \in DOMAIN c.seg THEN c.seg[s].role ELSE None
reac_segconf_ignored(s) == s \in DOMAIN c.seg /\ c.seg[s].ignore

\* The file a key came from, as a sequence that is empty where no file said it.
role_file(s)   == IF reac_segconf_role(s) # None THEN <<c.seg[s].by>> ELSE <<>>
ignore_file(s) == IF s \in DOMAIN c.seg /\ c.seg[s].said THEN <<c.seg[s].offBy>> ELSE <<>>

\* reac_role_from_intent: the end of the pairing an intent presents.
RoleFromIntent(role) == IF role \in {"slave", "box"} THEN "slave" ELSE "master"

\* For a sniffer: tap pins no end of the pairing and has a question of its own.
segment_role_pin(s) ==
    IF reac_segconf_role(s) \in {None, "auto", "tap"} THEN None
    ELSE RoleFromIntent(reac_segconf_role(s))
segment_tap_pin(s) == reac_segconf_role(s) = "tap"

\* For a listener; a box without a row stays on the hunt.
listener_cfg_from_conf(s) ==
    LET role == reac_segconf_role(s)
        row  == IF role = "box" THEN c.seg[s].model ELSE None
    IN  IF role = "box" /\ row = None
        THEN [role |-> "master", pinned |-> FALSE, tap |-> FALSE, row |-> None]
        ELSE [role |-> RoleFromIntent(role), pinned |-> role \notin {None, "auto"},
              tap |-> role = "tap", row |-> row]

Told(s) ==
    [pin |-> segment_role_pin(s), tapped |-> segment_tap_pin(s),
     cfg |-> listener_cfg_from_conf(s), by |-> role_file(s),
     off |-> reac_segconf_ignored(s), offBy |-> ignore_file(s)]

-----------------------------------------------------------------------------
(* The operator and the console.                                           *)

Edit(f, file, moves) ==
    /\ edits < MaxEdits
    /\ edits' = edits + 1
    /\ fs' = [fs EXCEPT ![f] = file]
    /\ dird' = IF moves /\ f # 0 THEN edits + 2 ELSE dird
    /\ UNCHANGED <<c, load>>

\* A file is written anew or renamed into place, which moves the directory, or rewritten in
\* place, which does not.
Write(f) ==
    \E t \in Texts, moves \in {TRUE, fs[f].is = "absent"} :
        /\ fs[f].is \in {"absent", "file"}
        /\ Edit(f, [is |-> "file", stamp |-> edits + 2, text |-> t], moves)

Delete(f) ==
    /\ fs[f].is # "absent"
    /\ Edit(f, [is |-> "absent", stamp |-> 0, text |-> NoFile], TRUE)

\* A link whose target is not there yet, and its target.
Link(f) ==
    /\ fs[f].is = "absent"
    /\ Edit(f, [is |-> "dangling", stamp |-> 0, text |-> NoFile], TRUE)
TargetAppears(f) ==
    /\ fs[f].is = "dangling"
    /\ \E t \in Texts : Edit(f, [is |-> "file", stamp |-> edits + 2, text |-> t], FALSE)

\* A change of permissions moves no stamp.
Permit(f) ==
    \/ fs[f].is = "file" /\ Edit(f, [fs[f] EXCEPT !.is = "denied"], FALSE)
    \/ fs[f].is = "denied" /\ Edit(f, [fs[f] EXCEPT !.is = "file"], FALSE)

-----------------------------------------------------------------------------
\* The files are there before the daemon; its first load starts with nothing read.
Init ==
    /\ \E start \in Starts :
          /\ fs = [f \in Files |->
                     IF start[f] = NoFile THEN [is |-> "absent", stamp |-> 0, text |-> NoFile]
                     ELSE [is |-> "file", stamp |-> 1, text |-> start[f]]]
          /\ dird = IF \E f \in Files \ {0} : start[f] # NoFile THEN 1 ELSE 0
          /\ c = [Blank EXCEPT !.stamp[0] = IF start[0] = NoFile THEN 0 ELSE 1]
    /\ load = [Idle EXCEPT !.at = "open"]
    /\ edits = 0

Daemon == Refresh \/ ReadOne \/ StatDir \/ ListDir \/ StatFile

Next ==
    \/ Refresh \/ ReadOne \/ StatDir \/ ListDir \/ StatFile
    \/ \E f \in Files : Write(f) \/ Delete(f) \/ Link(f) \/ TargetAppears(f) \/ Permit(f)

\* A load runs on by itself, and the next question comes: the roster asks for every wire
\* that is listened to.
Spec == Init /\ [][Next]_vars /\ WF_vars(Daemon)

-----------------------------------------------------------------------------
(* Properties.                                                             *)

\* What a set of files says, without reading them in turn: the last position that says a
\* key in a section of the segment, among the segments the table has room for.
Places(files) == UNION {{f} \X (1..Len(fs[f].text)) : f \in files}
LineAt(p)     == fs[p[1]].text[p[2]]
Before(p, q)  == p[1] < q[1] \/ (p[1] = q[1] /\ p[2] < q[2])
Heads(p)      == LineAt(p)[1] = "segment" \/ LineAt(p) = <<"refused", "header">>

\* The segment whose section a line is in.
Within(p, files, s) ==
    \E h \in Places(files) :
        /\ h[1] = p[1] /\ Before(h, p) /\ LineAt(h) = <<"segment", s>>
        /\ ~\E g \in Places(files) : Before(h, g) /\ Before(g, p) /\ Heads(g)

Has(files, s) ==
    \E p \in Places(files) :
        /\ LineAt(p) = <<"segment", s>>
        /\ Cardinality({LineAt(q)[2] : q \in {r \in Places(files) :
              Before(r, p) /\ LineAt(r)[1] = "segment" /\ LineAt(r)[2] # s}}) < SegMax

\* The last place that says the key, as a set of at most one.
LastSaid(files, s, key) ==
    LET says == {p \in Places(files) : LineAt(p)[1] = key /\ Within(p, files, s)}
    IN  IF Has(files, s) THEN {p \in says : \A q \in says : q = p \/ Before(q, p)} ELSE {}

Said(files, s) ==
    LET value(key) == IF LastSaid(files, s, key) = {} THEN None
                      ELSE LineAt(CHOOSE p \in LastSaid(files, s, key) : TRUE)[2]
        model == value("model")
        role  == IF value("role") = "box" /\ model = None THEN None ELSE value("role")
        end   == IF role \in {"slave", "box"} THEN "slave" ELSE "master"
        from(key) == IF LastSaid(files, s, key) = {} THEN <<>>
                     ELSE <<(CHOOSE p \in LastSaid(files, s, key) : TRUE)[1]>>
    IN  [pin |-> IF role \in {"master", "slave", "box"} THEN end ELSE None,
         tapped |-> role = "tap",
         cfg |-> [role |-> end, pinned |-> role \in {"master", "slave", "box", "tap"},
                  tap |-> role = "tap", row |-> IF role = "box" THEN model ELSE None],
         by |-> IF role = None THEN <<>> ELSE from("role"),
         off |-> value("ignore") = "yes", offBy |-> from("ignore")]

Present == {f \in Files : fs[f].is \in {"file", "denied"}}

\* The hand-written file came between its stat and its open.
ReadUnstamped == c.stamp[0] = 0 /\ c.files # <<>> /\ c.files[1] = 0

\* Once the files stand still the daemon is told what they say, every segment, key by key
\* and with the file each answer came from, however they were changed under its loads; apart
\* from the files that did not open when they were last tried, and from a hand-written file
\* that came and went around one open of it (reac_segconf_load, reac_segconf_refresh).
ConfCatchesUp ==
    <>[](load = Idle /\ ~ReadUnstamped => \A s \in Segs : Told(s) = Said(Present \ c.unread, s))

\* A file that did not open is tried again once it can be read ("The stamp is taken WHATEVER
\* the answer, because 'it was not there' is a state the refresh must be able to see change",
\* read_one).  It is not so: only a file that opened is looked at again.
UnreadIsRetried == <>[](load = Idle => \A f \in c.unread : fs[f].is # "file")

\* Files that stand still are not read again and again, as long as the hand-written one is
\* among them ("nothing is opened unless something moved", reac_segconf.h).
ReloadsEnd == <>[](fs[0].is = "file") => <>[](load = Idle)
=============================================================================
