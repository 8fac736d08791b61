----------------------------- MODULE AnchorScan -----------------------------
(***************************************************************************)
(* Weak evidence that a memory is talked about (thm/observations.py): a    *)
(* scan reads one snapshot of the host's messages (read_hermes in          *)
(* thm/sources.py), looks in each of the assistant's for enough different  *)
(* anchors close together, and stores every mention once.  Rows, records,  *)
(* bytes, time and occurrences of an alias are all bounded, and the        *)
(* receipt has to say so when a bound was met.  A text is the set of its   *)
(* anchor occurrences outside quotes and fences; rows of background        *)
(* sources, which the query leaves out, and the wording are not modelled.  *)
(***************************************************************************)
EXTENDS Integers, Sequences, SequencesExt, FiniteSets, FiniteSetsExt

CONSTANTS
  Texts,       \* sets of occurrences [alias, from, to], aliases being numbered
  Required,    \* how many different aliases a mention needs
  Reach,       \* within how many characters
  Cap,         \* occurrences of one alias that are looked at
  Bounds,      \* [rows, records, bytes] a reading and a scan may be asked for
  Days,        \* how many days back a scan looks
  Sessions,
  MaxRecords, MaxDay, MaxVersion, MaxScans  \* bounds of the model

VARIABLES
  records,  \* the host's messages, oldest first
  today,
  version,  \* of the memory whose anchors are looked for
  scan,     \* the scan at work or last done
  ledger    \* the stored observations

vars == <<records, today, version, scan, ledger>>

\* A scan: its snapshot, of so many of the host's messages, and how far it is.
Idle(n) == [stage |-> "idle", rows |-> <<>>, of |-> 0, at |-> 1, bytes |-> 0, day |-> 0,
            version |-> 0, observed |-> {}, partial |-> FALSE, number |-> n,
            bound |-> CHOOSE b \in Bounds : TRUE]

Init ==
  /\ records = <<>> /\ today = 0 /\ version = 0
  /\ scan = Idle(0) /\ ledger = {}
----------------------------------------------------------------------------
\* The sliding window over the occurrences in order: it takes the next one and
\* drops its oldest while any reaches too far from it.
Earlier(a, b) ==
  a.from < b.from \/ (a.from = b.from /\ (a.to < b.to \/ (a.to = b.to /\ a.alias < b.alias)))

Span(w) == Max({w[i].to : i \in DOMAIN w}) - w[1].from

Slid(w, o) ==
  LET all == Append(w, o)
      keeps == {i \in DOMAIN all : Span(SubSeq(all, i, Len(all))) <= Reach}
  IN  SubSeq(all, Min(keeps), Len(all))

\* Occurrences of one alias count once.
Enough_Repeated(w) == Len(w) >= Required

Enough(w) == Cardinality({w[i].alias : i \in DOMAIN w}) >= Required

Walk(state, o) ==
  IF state.found \/ o.to - o.from > Reach THEN state
  ELSE LET w == Slid(state.window, o)
       IN  [window |-> w, found |-> Enough(w)]

Seen(text) ==
  {o \in text : Cardinality({x \in text : x.alias = o.alias /\ Earlier(x, o)}) < Cap}
Capped(text) == Seen(text) # text

Tight(text) ==
  FoldLeft(Walk, [window |-> <<>>, found |-> FALSE], SetToSortSeq(Seen(text), Earlier)).found

----------------------------------------------------------------------------
\* read_hermes: one snapshot of the days asked for, cut off after so many rows.
Recent(r) == r.day >= today - Days
Read(b) ==
  /\ scan.stage = "idle" /\ scan.number < MaxScans
  /\ LET rows == SelectSeq(records, Recent)
     IN  scan' = [Idle(scan.number + 1) EXCEPT
                    !.stage = "scan", !.bound = b, !.day = today, !.version = version,
                    !.of = Len(records), !.rows = SubSeq(rows, 1, Min({b.rows, Len(rows)})),
                    !.partial = Len(rows) > b.rows]
  /\ UNCHANGED <<records, today, version, ledger>>

\* A mention is known by its anchor's version, its text and its time; the session
\* it was found in first is kept with it.
Event_InSession(v, r) == [version |-> v, text |-> r.text, day |-> r.day, of |-> r.session]

Event(v, r) == [version |-> v, text |-> r.text, day |-> r.day, of |-> "any"]

Added(known, id, r) ==
  IF \E x \in known : x.id = id THEN known ELSE known \cup {[id |-> id, session |-> r.session]}

Stopped_Quietly == [scan EXCEPT !.stage = "scanned"]

Stopped == [scan EXCEPT !.stage = "scanned", !.partial = TRUE]

\* One record: a bound may end the scan before it, the clock at any time.
Look(late) ==
  /\ scan.stage = "scan" /\ scan.at <= Len(scan.rows)
  /\ LET r == scan.rows[scan.at]
         next == [scan EXCEPT !.at = @ + 1]
         read == [next EXCEPT !.bytes = @ + 1]
     IN  scan' =
           IF scan.at > scan.bound.records \/ late THEN Stopped
           ELSE IF r.role # "assistant" THEN next
           ELSE IF scan.bytes + 1 > scan.bound.bytes THEN Stopped
           ELSE [read EXCEPT
                   !.partial = @ \/ Capped(r.text),
                   !.observed = IF Tight(r.text) THEN Added(@, Event(scan.version, r), r) ELSE @]
  /\ UNCHANGED <<records, today, version, ledger>>

Finish ==
  /\ scan.stage = "scan" /\ scan.at > Len(scan.rows)
  /\ scan' = [scan EXCEPT !.stage = "scanned"]
  /\ UNCHANGED <<records, today, version, ledger>>

\* store_observations, in a transaction: what is stored already stays as it is.
Save ==
  /\ scan.stage = "scanned"
  /\ ledger' = ledger \cup {o \in scan.observed : ~\E x \in ledger : x.id = o.id}
  /\ scan' = Idle(scan.number)
  /\ UNCHANGED <<records, today, version>>

\* The result was only asked for, or the process ended: the next scan begins anew.
Leave ==
  /\ scan.stage # "idle" /\ scan' = Idle(scan.number)
  /\ UNCHANGED <<records, today, version, ledger>>

----------------------------------------------------------------------------
\* The host goes on: messages arrive, a branch copies one of the day, days pass,
\* and the memory behind the anchors is edited.
Says(r) ==
  /\ Len(records) < MaxRecords /\ records' = Append(records, r)
  /\ UNCHANGED <<today, version, scan, ledger>>

Arrive(role, text, s) == Says([role |-> role, text |-> text, day |-> today, session |-> s])
Branch(i, s) == records[i].day = today /\ Says([records[i] EXCEPT !.session = s])
Tomorrow == today < MaxDay /\ today' = today + 1 /\ UNCHANGED <<records, version, scan, ledger>>
Revise == version < MaxVersion /\ version' = version + 1 /\ UNCHANGED <<records, today, scan, ledger>>

Next ==
  \/ \E late \in BOOLEAN : Look(late)
  \/ \E b \in Bounds : Read(b)
  \/ Finish \/ Save \/ Leave \/ Tomorrow \/ Revise
  \/ \E s \in Sessions, text \in Texts, role \in {"assistant", "user"} : Arrive(role, text, s)
  \/ \E s \in Sessions, i \in DOMAIN records : Branch(i, s)

Spec == Init /\ [][Next]_vars
----------------------------------------------------------------------------
Records == [role : {"assistant", "user"}, text : Texts, day : 0..MaxDay, session : Sessions]

TypeOK ==
  /\ records \in Seq(Records) /\ today \in 0..MaxDay /\ version \in 0..MaxVersion
  /\ scan.stage \in {"idle", "scan", "scanned"} /\ scan.rows \in Seq(Records)
  /\ scan.at \in 1..(MaxRecords + 1) /\ scan.bytes \in 0..scan.bound.bytes /\ scan.partial \in BOOLEAN

\* What _tight_matches is for: enough different aliases within reach.
Together(text) ==
  \E some \in SUBSET text :
    /\ Cardinality({o.alias : o \in some}) >= Required
    /\ \A a, b \in some : b.to - a.from <= Reach

\* An occurrence inside another one: a long alias may then push out those before
\* it, with which the short one inside it would have made a mention of three.
Nested(text) == \E a, b \in text : Earlier(a, b) /\ b.to < a.to

\* A scan observes nothing that is not a mention, and one that does not call its
\* receipt partial has observed every mention of the days it was asked for, also
\* of messages a bound would have cut off (observations.py:81-180, sources.py:83-133).
ReceiptIsHonest ==
  /\ \A o \in scan.observed : Together(o.id.text)
  /\ scan.stage = "scanned" /\ ~scan.partial =>
       \A i \in 1..scan.of :
         LET r == records[i]
         IN  r.role = "assistant" /\ r.day >= scan.day - Days /\ Together(r.text)
               /\ (Required <= 2 \/ ~Nested(r.text))
             => \E o \in scan.observed : [o.id EXCEPT !.of = ""] =
                  [version |-> scan.version, text |-> r.text, day |-> r.day, of |-> ""]

\* However often messages are scanned and copied into branches, a mention is
\* stored once for a version of the memory ("A branch copying identical text
\* remains one observation for that version", observations.py:166).
StoredOnce ==
  \A a, b \in ledger : a # b =>
    <<a.id.version, a.id.text, a.id.day>> # <<b.id.version, b.id.text, b.id.day>>
=============================================================================
