--------------------------- MODULE HarnessServer ---------------------------
(***************************************************************************)
(* The adapter every agent harness goes through (thm/harness.py) and the   *)
(* line protocol in front of it (thm/mcp_legacy_server.py; mcp_server.py   *)
(* registers the same two tools with an SDK).  The adapter opens an index, *)
(* an encoder and a runtime with the first recall and closes them in the   *)
(* opposite order; any of these steps may fail and be tried again.  The    *)
(* server reads one message at a time and lives until its input ends.      *)
(* Payloads, schemas and wording are left out; an operation holds the      *)
(* adapter's lock from its first line to its last, and is one step.        *)
(***************************************************************************)
EXTENDS Naturals, Sequences, SequencesExt, FiniteSets

CONSTANTS
  MaxMessages,  \* bound: lines the client writes
  Null          \* the identifier a message does not have

VARIABLES
  dense,     \* the configured mode needs an encoder
  open,      \* how many indexes, encoders and runtimes are open
  held,      \* those the adapter has a reference to
  asked,     \* the messages read so far
  told,      \* the responses written so far, by identifier and kind
  serving    \* the loop over standard input goes on

adapter == <<open, held>>
vars == <<dense, open, held, asked, told, serving>>

Parts == {"index", "encoder", "runtime"}

\* What can go wrong in a recall: the database is not there, a constructor
\* raises, or the search does, with an error the server treats as the caller's
\* ("value"), takes for an unknown tool ("key"), or knows nothing of ("other").
Failures == {"nothing", "database"} \cup Parts \cup {"value", "key", "other"}
Raised(f) ==
  CASE f = "database" -> "value"
    [] f \in Parts -> "other"
    [] OTHER -> f

\* The kinds of message handle tells apart, "malformed" for one that is no object.
Calls == {"recall", "status"}
Requests == {"initialize", "ping", "tools/list", "no tool", "no method", "bad params"} \cup Calls
Messages ==
  [kind : Requests \cup {"notification", "no version"}, id : {Null} \cup (1..MaxMessages)]
    \cup {[kind |-> "malformed", id |-> Null]}

Init ==
  /\ dense \in BOOLEAN
  /\ open = [p \in Parts |-> 0] /\ held = {}
  /\ asked = <<>> /\ told = <<>> /\ serving = TRUE
----------------------------------------------------------------------------
\* What _ensure_open creates, in this order, up to the constructor that fails.
Wanted == IF dense THEN <<"index", "encoder", "runtime">> ELSE <<"index", "runtime">>
UpTo(f) == {Wanted[i] : i \in {j \in 1..Len(Wanted) : \A k \in 1..j : Wanted[k] # f}}

Creates(f) == IF "index" \in held \/ f = "database" THEN {} ELSE UpTo(f)

\* A recall, and the error it raises, if any: also the one of searching without
\* a runtime, after an opening that failed half way.
Recalls(f) ==
  /\ held' = held \cup Creates(f)
  /\ open' = [p \in Parts |-> open[p] + (IF p \in Creates(f) THEN 1 ELSE 0)]

Outcome(f) ==
  IF "index" \notin held /\ f \in {"database"} \cup ToSet(Wanted) THEN Raised(f)
  ELSE IF "runtime" \notin held \cup Creates(f) THEN "other"
  ELSE IF f \in {"value", "key", "other"} THEN f ELSE "nothing"

\* close stops at the part whose own close raises.  It forgets the encoder last,
\* after the index is closed, so that an encoder may be closed twice.
Order == <<"runtime", "encoder", "index">>
Before(f) == {Order[i] : i \in {j \in 1..3 : \A k \in 1..j : Order[k] # f}}

Forgotten_First(f) == held

Forgotten(f) == IF f = "index" THEN {"runtime"} ELSE Before(f)

Closed(f) ==
  /\ held' = held \ Forgotten(f)
  /\ open' = [p \in Parts |-> IF p \in Before(f) \cap held THEN 0 ELSE open[p]]

----------------------------------------------------------------------------
Says(kind, id) == told' = Append(told, [kind |-> kind, id |-> id])

Reads(m) ==
  /\ serving /\ Len(asked) < MaxMessages
  /\ m.id \in {Null, Len(asked) + 1}
  /\ asked' = Append(asked, m) /\ UNCHANGED dense

\* A line that is no message is answered without an identifier, and so is a
\* message of another protocol that has none.
Unreadable(m) ==
  /\ m.kind \in {"malformed", "no version"} /\ Reads(m)
  /\ Says("invalid", m.id) /\ UNCHANGED <<adapter, serving>>

\* What has no identifier, or is a notification, is never answered; a call
\* without one is not made either.
Ignored_Named(m) == m.kind = "notification"

Ignored(m) == m.kind = "notification" \/ m.id = Null

Ignore(m) ==
  /\ m.kind \notin {"malformed", "no version"} /\ Ignored(m) /\ Reads(m)
  /\ UNCHANGED <<told, adapter, serving>>

Answer(m) ==
  /\ m.kind \in Requests \ {"recall"} /\ ~Ignored(m) /\ Reads(m)
  /\ Says(IF m.kind \in {"no tool", "no method", "bad params"} THEN "refused" ELSE "result", m.id)
  /\ UNCHANGED <<adapter, serving>>

\* Errors of a tool are answered, as the caller's or as the tool's.
Reported_Known(e, id) ==
  IF e = "other" THEN serving' = FALSE /\ UNCHANGED told ELSE
  /\ Says(IF e = "nothing" THEN "result" ELSE "refused", id)
  /\ UNCHANGED serving

Reported(e, id) ==
  /\ Says(CASE e = "nothing" -> "result" [] e \in {"value", "key"} -> "refused" [] OTHER -> "failed", id)
  /\ UNCHANGED serving

Recall(m, f) ==
  /\ m.kind = "recall" /\ ~Ignored(m) /\ Reads(m)
  /\ Recalls(f) /\ Reported(Outcome(f), m.id)

\* The input ends: the loop's finally closes the adapter, and its owner may
\* close it again, as often as it likes.
EndOfInput(f) == /\ serving /\ serving' = FALSE /\ Closed(f) /\ UNCHANGED <<dense, asked, told>>
Close(f) == held # {} /\ Closed(f) /\ UNCHANGED <<dense, asked, told, serving>>

Next ==
  \/ \E m \in Messages : Unreadable(m) \/ Ignore(m) \/ Answer(m)
  \/ \E m \in Messages, f \in Failures : Recall(m, f)
  \/ \E f \in held \cup {"nothing"} : EndOfInput(f) \/ Close(f)

Spec == Init /\ [][Next]_vars
----------------------------------------------------------------------------
TypeOK ==
  /\ dense \in BOOLEAN /\ serving \in BOOLEAN
  /\ open \in [Parts -> 0..2] /\ held \subseteq Parts
  /\ asked \in Seq(Messages)
  /\ told \in Seq([kind : {"result", "refused", "failed", "invalid"}, id : {Null} \cup (1..MaxMessages)])

\* Whatever fails while parts are opened or closed, the adapter has a reference to
\* every part that is open, and never opens a second one beside it, so that a
\* further close releases what is left (harness.py:59-72, 127-137).
NothingLost == \A p \in Parts : open[p] \in {0, IF p \in held THEN 1 ELSE 0}

\* A message that is due an answer, and how many of the first i messages are.
Asks(m) == m.kind \in {"malformed", "no version"} \/ (m.kind # "notification" /\ m.id # Null)
Due(messages, i) == Cardinality({j \in 1..i : Asks(messages[j])})

\* Every request is answered once, with its own identifier and in its turn, and
\* nothing else is, but for an unreadable line; a failing tool does not keep
\* the next request from its answer (mcp_legacy_server.py:187-280, "Keep the
\* protocol alive while surfacing a tool-local failure").
RequestsAnswered ==
  /\ Len(told) = Due(asked, Len(asked))
  /\ \A i \in DOMAIN asked : Asks(asked[i]) => told[Due(asked, i)].id = asked[i].id
=============================================================================
