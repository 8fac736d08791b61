-------------------------- MODULE RuntimeScheduler --------------------------
(***************************************************************************)
(* Explicit per-request profile routing: thm/runtime/scheduler.py          *)
(* (RuntimeScheduler), with the isolated encoder of each profile,          *)
(* thm/runtime/isolated.py (IsolatedEncoder) and worker.py (serve).        *)
(*                                                                         *)
(* Every profile has a read-only connection of its own (reader) and an     *)
(* encoder: a child process that answers one request after the other on a  *)
(* pipe.  A request is searched for by the thread that calls, or by the    *)
(* pool.                                                                   *)
(***************************************************************************)
EXTENDS Naturals, Sequences, FiniteSets

CONSTANTS
  Direct,      \* requests of threads that call search
  Submitted,   \* requests given to submit
  Profiles,
  Slots,       \* max_pending
  PoolSize,
  Fallback,    \* fallback_to_sparse
  Sparse, Nil

Requests == Direct \cup Submitted

VARIABLES
  step,        \* of each request
  profile,     \* the profile a request was routed to, or Nil
  answer,      \* whose vectors the request was ranked with; Sparse; or Nil
  slots,       \* the semaphore
  encoder,     \* of each profile: [up, by, pipe]: the process runs; the request
               \* that holds its lock; the answers still to be read
  phase,       \* of close
  readers      \* the readers that are open

vars == <<step, profile, answer, slots, encoder, phase, readers>>

InStep(s) == {r \in Requests : step[r] \in s}
Running == {"encode", "receive", "score", "raised"}
Over == {"done", "failed", "cancelled", "refused"}
\* Both pending counters: the requests admitted and not finished.
Pending(p) == {r \in InStep(Running) : profile[r] = p}
Goto(r, s) == step' = [step EXCEPT ![r] = s]

-----------------------------------------------------------------------------
(* Admission                                                               *)

Submit(r) ==
  /\ r \in Submitted /\ step[r] = "new"
  /\ IF slots = 0 \/ phase \in {"idle", "closed"}
       THEN Goto(r, "refused") /\ UNCHANGED slots
       ELSE Goto(r, "queued") /\ slots' = slots - 1
  /\ UNCHANGED <<profile, answer, encoder, phase, readers>>

Admit_Unchecked(r) ==
  /\ \E p \in Profiles :
       /\ \A q \in Profiles : Cardinality(Pending(p)) <= Cardinality(Pending(q))
       /\ profile' = [profile EXCEPT ![r] = p]
  /\ Goto(r, "encode")

\* choose, for the policy auto-throughput: one of the profiles with the fewest
\* requests pending.
Admit(r) ==
  IF phase # "open" THEN Goto(r, "failed") /\ UNCHANGED profile
  ELSE /\ \E p \in Profiles :
            /\ \A q \in Profiles : Cardinality(Pending(p)) <= Cardinality(Pending(q))
            /\ profile' = [profile EXCEPT ![r] = p]
       /\ Goto(r, "encode")

Call(r) ==
  /\ r \in Direct /\ step[r] = "new"
  /\ Admit(r)
  /\ UNCHANGED <<answer, slots, encoder, phase, readers>>

\* A thread of the pool takes the oldest request; which one is left open.
Start(r) ==
  /\ step[r] = "queued"
  /\ Cardinality(InStep(Running) \cap Submitted) < PoolSize
  /\ Admit(r)
  /\ slots' = IF phase = "open" THEN slots ELSE slots + 1
  /\ UNCHANGED <<answer, encoder, phase, readers>>

-----------------------------------------------------------------------------
(* search                                                                  *)

Of(r) == encoder[profile[r]]

\* encode_many: under the encoder's lock the request is written to the worker.
Encode(r) ==
  /\ step[r] = "encode" /\ Of(r).by = Nil
  /\ IF Of(r).up
       THEN /\ encoder' = [encoder EXCEPT ![profile[r]].by = r]
            /\ Goto(r, "receive")
       ELSE Goto(r, "raised") /\ UNCHANGED encoder
  /\ UNCHANGED <<profile, answer, slots, phase, readers>>

\* serve: the worker answers what it was last asked.
Serve(p) ==
  /\ encoder[p].up /\ encoder[p].by # Nil
  /\ \A i \in DOMAIN encoder[p].pipe : encoder[p].pipe[i] # encoder[p].by
  /\ encoder' = [encoder EXCEPT ![p].pipe = Append(@, encoder[p].by)]
  /\ UNCHANGED <<step, profile, answer, slots, phase, readers>>

Receive(r) ==
  /\ step[r] = "receive" /\ Of(r).pipe # << >>
  /\ answer' = [answer EXCEPT ![r] = Head(Of(r).pipe)]
  /\ encoder' = [encoder EXCEPT ![profile[r]].by = Nil, ![profile[r]].pipe = Tail(@)]
  /\ Goto(r, "score")
  /\ UNCHANGED <<profile, slots, phase, readers>>

Expired_KeepsWorker(e) == [e EXCEPT !.by = Nil]

Expired_Locked(e) == [e EXCEPT !.up = FALSE]

\* The worker of a request that is late is stopped.
Expired(e) == [e EXCEPT !.by = Nil, !.up = FALSE]

Timeout(r) ==
  /\ step[r] = "receive" /\ Of(r).up
  /\ encoder' = [encoder EXCEPT ![profile[r]] = Expired(@)]
  /\ Goto(r, "raised")
  /\ UNCHANGED <<profile, answer, slots, phase, readers>>

\* The worker dies: what it has written already can still be read.
Dies(p) ==
  /\ encoder[p].up
  /\ encoder' = [encoder EXCEPT ![p].up = FALSE]
  /\ UNCHANGED <<step, profile, answer, slots, phase, readers>>

EndOfPipe(r) ==
  /\ step[r] = "receive" /\ ~Of(r).up /\ Of(r).pipe = << >>
  /\ encoder' = [encoder EXCEPT ![profile[r]].by = Nil]
  /\ Goto(r, "raised")
  /\ UNCHANGED <<profile, answer, slots, phase, readers>>

\* The end of the search; for a submitted request the slot is released.
Finish(r, s, of) ==
  /\ Goto(r, s)
  /\ answer' = [answer EXCEPT ![r] = of]
  /\ slots' = IF r \in Submitted THEN slots + 1 ELSE slots
  /\ UNCHANGED <<profile, encoder, phase, readers>>

Score(r) ==
  /\ step[r] = "score" /\ profile[r] \in readers
  /\ Finish(r, "done", answer[r])

\* The ranking itself raises.
ScoreFails(r) ==
  /\ step[r] = "score"
  /\ Goto(r, "raised")
  /\ UNCHANGED <<profile, answer, slots, encoder, phase, readers>>

Raised(r) ==
  /\ step[r] = "raised"
  /\ IF Fallback /\ profile[r] \in readers THEN Finish(r, "done", Sparse)
     ELSE Finish(r, "failed", Nil)

-----------------------------------------------------------------------------
(* close                                                                   *)

CloseBegins ==
  /\ phase = "open"
  /\ phase' = "shutdown"
  /\ UNCHANGED <<step, profile, answer, slots, encoder, readers>>

\* The pool is shut down; what is still queued is cancelled.
Shutdown ==
  /\ phase = "shutdown"
  /\ phase' = "idle"
  /\ step' = [r \in Requests |-> IF step[r] = "queued" THEN "cancelled" ELSE step[r]]
  /\ slots' = slots + Cardinality(InStep({"queued"}))
  /\ UNCHANGED <<profile, answer, encoder, readers>>

Idle_PoolOnly == InStep(Running) \cap Submitted = {}

\* Neither a thread of the pool nor a caller is in a search.
Idle == InStep(Running) = {}

CloseEnds ==
  /\ phase = "idle"
  /\ Idle
  /\ phase' = "closed"
  /\ readers' = {}
  /\ encoder' = [p \in Profiles |-> [encoder[p] EXCEPT !.up = FALSE]]
  /\ UNCHANGED <<step, profile, answer, slots>>

Init ==
  /\ step = [r \in Requests |-> "new"]
  /\ profile = [r \in Requests |-> Nil]
  /\ answer = [r \in Requests |-> Nil]
  /\ slots = Slots
  /\ encoder = [p \in Profiles |-> [up |-> TRUE, by |-> Nil, pipe |-> << >>]]
  /\ phase = "open"
  /\ readers = Profiles

Search(r) ==
  \/ Start(r)
  \/ Encode(r)
  \/ Receive(r)
  \/ Timeout(r)
  \/ EndOfPipe(r)
  \/ Score(r)
  \/ ScoreFails(r)
  \/ Raised(r)

Closing == Shutdown \/ CloseEnds

Next ==
  \/ \E r \in Requests : Submit(r)
  \/ \E r \in Requests : Call(r)
  \/ \E r \in Requests : Search(r)
  \/ \E p \in Profiles : Serve(p)
  \/ \E p \in Profiles : Dies(p)
  \/ CloseBegins
  \/ Closing

\* Threads run; a request to a worker ends by the timeout at the latest.
Fairness == (\A r \in Requests : WF_vars(Search(r))) /\ WF_vars(Closing)

Spec == Init /\ [][Next]_vars /\ Fairness

-----------------------------------------------------------------------------
(* Properties                                                              *)

TypeOK ==
  /\ step \in [Requests -> Running \cup Over \cup {"new", "queued"}]
  /\ profile \in [Requests -> Profiles \cup {Nil}]
  /\ \A r \in Requests : answer[r] \in Requests \cup {Nil, Sparse}
  /\ slots \in 0..Slots
  /\ encoder \in [Profiles -> [up : BOOLEAN, by : Requests \cup {Nil}, pipe : Seq(Requests)]]
  /\ phase \in {"open", "shutdown", "idle", "closed"}
  /\ readers \subseteq Profiles

\* No request is ranked with the vectors of another one, whatever was late, and
\* nothing is closed under a search; the slots are those of the requests that
\* were submitted and are not over.
SearchesApart ==
  /\ \A r \in Requests : answer[r] \in {Nil, r, Sparse}
  /\ InStep(Running) # {} => readers = Profiles
  /\ slots + Cardinality((InStep(Running) \cup InStep({"queued"})) \cap Submitted) = Slots

\* Closing ends, and leaves no request unresolved and no worker running.
CloseResolves ==
  phase = "shutdown" ~>
    /\ phase = "closed"
    /\ InStep(Running \cup {"queued"}) = {}
    /\ \A p \in Profiles : ~encoder[p].up
=============================================================================
