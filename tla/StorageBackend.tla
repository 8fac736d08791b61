--------------------------- MODULE StorageBackend ---------------------------
(***************************************************************************)
(* Publication of immutable content-addressed objects through a transport  *)
(* that runs in an owned worker process: StorageBackend                    *)
(* (thm/physical/backends.py), TransportWorker                             *)
(* (thm/physical/transport_worker.py) and MountedFilesystemTransport.      *)
(*                                                                         *)
(* A backend executes one operation at a time, each a sequence of calls to *)
(* its worker, with a wall deadline that may pass at any moment; a call    *)
(* that times out stops the worker.  Stopping may fail: the kill is        *)
(* refused, or the process does not end in time.  The backend then forgets *)
(* a worker that may be alive, and starts another one for its next call.   *)
(* A worker may also die by itself, in the middle of what it does.         *)
(* Several backends may share a mounted root, whose files another program  *)
(* may damage.                                                             *)
(***************************************************************************)
EXTENDS Naturals, FiniteSets

CONSTANTS
  Backends,
  Keys,         \* objects, named by their content
  Transactions, \* bound: writes in a behaviour
  Slots,        \* processes a backend may have at a time
  MaxCrashes,   \* bound: workers that die by themselves
  MaxDamage,    \* bound: objects damaged by another program
  MaxRefusals,  \* bound: stops that fail, of each backend
  Nil

ASSUME StorageAssumption ==
  /\ Nil \notin Backends \cup Keys \cup Transactions \cup Slots
  /\ {MaxCrashes, MaxDamage, MaxRefusals} \subseteq Nat

VARIABLES
  state,      \* of each backend: ready, quarantined, closed
  call,       \* the call its operation is making
  journal,    \* the row of each transaction
  current,    \* TransportWorker.process of each backend, or Nil
  process,    \* the worker processes
  objects,    \* the published objects: absent, good, damaged
  pending,    \* the transactions that have files of their own in the root
  published,  \* the transactions whose object was linked into the root
  spoiled,    \* history: the transactions whose object was damaged before
              \* they read it back
  crashes, damage,
  refusals    \* of each backend, the stops that failed

vars == <<state, call, journal, current, process, objects, pending, published,
          spoiled, crashes, damage, refusals>>

root == <<objects, pending, published, damage, spoiled>>

Writing == {"stage", "commit", "verify", "abort"}
Methods == Writing \cup {"read", "close"}
Replies == {"none", "ok", "error", "damaged"}
Rows == {"staging", "indeterminate-commit", "published-unverified", "verified",
         "aborted", "indeterminate-timeout"}
\* What ended a write: an error, a deadline, or a stop that raised in place of
\* either (PermissionError, TimeoutExpired, RuntimeError).
Raised == {"none", "error", "timeout", "refused"}

Resting == [method |-> "none", tx |-> Nil, key |-> Nil, sent |-> FALSE, raised |-> "none"]
Stopped == [alive |-> FALSE, doing |-> Resting, half |-> FALSE, reply |-> "none"]
NoRow == [state |-> "none", owner |-> Nil, key |-> Nil, kept |-> FALSE, error |-> "none"]

Calls(b, m) == call[b].method = m

\* The next call of a write, to a worker that has still to be started.
Aborting_Sent(b, why) == call' = [call EXCEPT ![b].method = "abort", ![b].raised = why]
Aborting(b, why) ==
  call' = [call EXCEPT ![b].method = "abort", ![b].raised = why, ![b].sent = FALSE]

Row(b) == journal[call[b].tx]
Mark(b, s) == journal' = [journal EXCEPT ![call[b].tx].state = s]

-----------------------------------------------------------------------------
(* Calls to the worker                                                     *)

\* An operation's first call, and the first after a stop: the worker is
\* started if there is none.
Send(b) ==
  /\ call[b] # Resting /\ ~call[b].sent
  /\ call' = [call EXCEPT ![b].sent = TRUE]
  /\ \E s \in Slots :
       /\ IF current[b] = Nil THEN ~process[b][s].alive ELSE s = current[b]
       /\ current' = [current EXCEPT ![b] = s]
       /\ process' = [process EXCEPT ![b][s] =
            [alive |-> @.alive \/ current[b] = Nil, doing |-> call'[b],
             half |-> FALSE, reply |-> "none"]]
  /\ UNCHANGED <<state, journal, root, crashes, refusals>>

Reply(b) == IF call[b].sent THEN process[b][current[b]].reply ELSE "none"

\* The answer, or the end of the worker without one.
Answers(b, replies) ==
  \/ Reply(b) \in replies
  \/ /\ "error" \in replies
     /\ call[b].sent /\ Reply(b) = "none" /\ ~process[b][current[b]].alive

Stops_Detached(b) ==
  /\ current' = [current EXCEPT ![b] = Nil]
  /\ UNCHANGED <<process, refusals>>

\* stop: the process tree is killed before anything else is done.
Stops(b) ==
  /\ current' = [current EXCEPT ![b] = Nil]
  /\ process' = IF current[b] = Nil THEN process
                ELSE [process EXCEPT ![b][current[b]] = Stopped]
  /\ UNCHANGED refusals

\* stop raises.  The worker is forgotten all the same and its workspace
\* removed; it may be alive, and in the middle of a call.
Refused(b) ==
  /\ current[b] # Nil /\ refusals[b] < MaxRefusals
  /\ current' = [current EXCEPT ![b] = Nil]
  /\ \/ UNCHANGED process
     \/ process' = [process EXCEPT ![b][current[b]] = Stopped]
  /\ refusals' = [refusals EXCEPT ![b] = @ + 1]

\* An answer is consumed with the request it is for.
Consumed(b) ==
  /\ process' = [process EXCEPT ![b][current[b]].reply = "none",
                                ![b][current[b]].doing = Resting]
  /\ UNCHANGED <<current, refusals>>

\* The next call of the operation is made to the worker that answered.
Continues(b, m, why) ==
  LET next == [call[b] EXCEPT !.method = m, !.raised = why] IN
  /\ call' = [call EXCEPT ![b] = next]
  /\ process' = [process EXCEPT ![b][current[b]] =
       [@ EXCEPT !.doing = next, !.half = FALSE, !.reply = "none"]]
  /\ UNCHANGED <<current, refusals>>

-----------------------------------------------------------------------------
(* Operations                                                              *)

WriteStart(b, t, k) ==
  /\ state[b] = "ready" /\ call[b] = Resting
  /\ journal[t] = NoRow
  /\ journal' = [journal EXCEPT ![t] = [NoRow EXCEPT !.state = "staging",
                                                    !.owner = b, !.key = k]]
  /\ call' = [call EXCEPT ![b] = [Resting EXCEPT !.method = "stage", !.tx = t, !.key = k]]
  /\ spoiled' = spoiled \cup IF objects[k] = "damaged" THEN {t} ELSE {}
  /\ UNCHANGED <<state, current, process, objects, pending, published, crashes, damage, refusals>>

BeforeCommit_Staging(b) == UNCHANGED journal

\* Publication may succeed even if its acknowledgement is lost.
BeforeCommit(b) == Mark(b, "indeterminate-commit")

Staged(b) ==
  /\ Calls(b, "stage") /\ Answers(b, {"ok"})
  /\ BeforeCommit(b)
  /\ Continues(b, "commit", "none")
  /\ UNCHANGED <<state, root, crashes>>

Committed(b) ==
  /\ Calls(b, "commit") /\ Answers(b, {"ok"})
  /\ Mark(b, "published-unverified")
  /\ Continues(b, "verify", "none")
  /\ UNCHANGED <<state, root, crashes>>

Verified_Unread(b) == Calls(b, "verify") /\ Answers(b, {"ok", "damaged"})
Verified(b) == Calls(b, "verify") /\ Answers(b, {"ok"})

WriteDone(b) ==
  /\ Verified(b)
  /\ Mark(b, "verified")
  /\ call' = [call EXCEPT ![b] = Resting]
  /\ Consumed(b)
  /\ UNCHANGED <<state, root, crashes>>

\* The call raised: what is pending is aborted, in a worker that is new when
\* the error was a broken pipe.
WriteFails(b) ==
  /\ call[b].method \in Writing \ {"abort"} /\ Answers(b, {"error", "damaged"})
  /\ \/ Continues(b, "abort", "error")
     \/ Aborting(b, "error") /\ Stops(b)
     \/ Aborting(b, "refused") /\ Refused(b)
  /\ UNCHANGED <<state, journal, root, crashes>>

\* A stop that raises replaces the TimeoutError: there is no quarantine, and the
\* row does not tell.
WriteTimesOut(b) ==
  /\ call[b].method \in Writing \ {"abort"}
  /\ \/ /\ Mark(b, "indeterminate-timeout")
        /\ Aborting(b, "timeout")
        /\ state' = [state EXCEPT ![b] = "quarantined"]
        /\ Stops(b)
     \/ /\ Aborting(b, "refused")
        /\ Refused(b)
        /\ UNCHANGED <<state, journal>>
  /\ UNCHANGED <<root, crashes>>

\* The answer came in time, but the clock is read again, after staging and
\* after verifying.
WriteTooLate(b) ==
  /\ call[b].method \in {"stage", "verify"} /\ Answers(b, {"ok"})
  /\ Mark(b, "indeterminate-timeout")
  /\ Continues(b, "abort", "timeout")
  /\ UNCHANGED <<state, root, crashes>>

\* The end of a write that failed; kept: a failure to clean up is recorded.
Ended(b, kept) ==
  /\ journal' = [journal EXCEPT ![call[b].tx].kept = kept,
                                ![call[b].tx].error = call[b].raised,
                                ![call[b].tx].state = IF @ = "staging" THEN "aborted" ELSE @]
  /\ call' = [call EXCEPT ![b] = Resting]

\* A stop that raises while the handler cleans up leaves the row as it is, but
\* for what it has recorded.
Broken(b, kept) ==
  /\ journal' = [journal EXCEPT ![call[b].tx].kept = kept]
  /\ call' = [call EXCEPT ![b] = Resting]

AbortDone(b) ==
  /\ Calls(b, "abort") /\ Answers(b, {"ok"})
  /\ IF state[b] = "quarantined"
     THEN (Ended(b, FALSE) /\ Stops(b)) \/ (Broken(b, FALSE) /\ Refused(b))
     ELSE Ended(b, FALSE) /\ Consumed(b)
  /\ UNCHANGED <<state, root, crashes>>

AbortFails(b) ==
  /\ Calls(b, "abort") /\ Answers(b, {"error"})
  /\ \/ Ended(b, TRUE) /\ Stops(b)
     \/ Broken(b, TRUE) /\ Refused(b)
  /\ UNCHANGED <<state, root, crashes>>

AbortTimesOut(b) ==
  /\ Calls(b, "abort")
  /\ Ended(b, TRUE)
  /\ \/ state' = [state EXCEPT ![b] = "quarantined"] /\ Stops(b)
     \/ UNCHANGED state /\ Refused(b)
  /\ UNCHANGED <<root, crashes>>

ReadStart(b, k) ==
  /\ state[b] = "ready" /\ call[b] = Resting
  /\ call' = [call EXCEPT ![b] = [Resting EXCEPT !.method = "read", !.key = k]]
  /\ UNCHANGED <<state, journal, current, process, root, crashes, refusals>>

\* The object is returned; it is absent, damaged, or reading it failed.  For
\* read, not for verify and recover, damage (and what the transport raises as
\* a ValueError) quarantines the backend.
ReadDone(b) ==
  /\ Calls(b, "read") /\ Answers(b, {"ok", "error", "damaged"})
  /\ \/ UNCHANGED state
     \/ /\ Reply(b) \in {"error", "damaged"}
        /\ state' = [state EXCEPT ![b] = "quarantined"]
  /\ call' = [call EXCEPT ![b] = Resting]
  /\ Consumed(b)
  /\ UNCHANGED <<journal, root, crashes>>

ReadTimesOut(b) ==
  /\ Calls(b, "read")
  /\ call' = [call EXCEPT ![b] = Resting]
  /\ \/ state' = [state EXCEPT ![b] = "quarantined"] /\ Stops(b)
     \/ UNCHANGED state /\ Refused(b)
  /\ UNCHANGED <<journal, root, crashes>>

\* Without a worker there is nothing to call.
CloseStart(b) ==
  /\ state[b] # "closed" /\ call[b] = Resting
  /\ \/ /\ current[b] = Nil
        /\ state' = [state EXCEPT ![b] = "closed"]
        /\ UNCHANGED call
     \/ /\ current[b] # Nil
        /\ call' = [call EXCEPT ![b] = [Resting EXCEPT !.method = "close"]]
        /\ UNCHANGED state
  /\ UNCHANGED <<journal, current, process, root, crashes, refusals>>

\* However the call ends, the worker is stopped.  When the stop raises that ends
\* it, the backend is not closed; when it was the one of a call that timed out,
\* it is.
CloseDone(b) ==
  /\ Calls(b, "close")
  /\ call' = [call EXCEPT ![b] = Resting]
  /\ \/ state' = [state EXCEPT ![b] = "closed"] /\ (Stops(b) \/ Refused(b))
     \/ UNCHANGED state /\ Refused(b)
  /\ UNCHANGED <<journal, root, crashes>>

-----------------------------------------------------------------------------
(* The worker process                                                      *)

Does(b, s, m) ==
  /\ process[b][s].alive
  /\ process[b][s].doing.method = m
  /\ process[b][s].reply = "none"

\* A worker that was forgotten cannot answer: its workspace is gone, and it dies.
Replied(b, s, reply) ==
  process' = [process EXCEPT ![b][s] =
    IF s = current[b] THEN [@ EXCEPT !.reply = reply, !.half = FALSE] ELSE Stopped]

Tx(b, s) == process[b][s].doing.tx
Key(b, s) == process[b][s].doing.key

\* Staging creates the file, then fills it; if that fails it is removed.
Stage(b, s) ==
  /\ Does(b, s, "stage")
  /\ \/ /\ ~process[b][s].half
        /\ pending' = pending \cup {Tx(b, s)}
        /\ process' = [process EXCEPT ![b][s].half = TRUE]
     \/ /\ process[b][s].half
        /\ \/ Replied(b, s, "ok") /\ UNCHANGED pending
           \/ Replied(b, s, "error") /\ pending' = pending \ {Tx(b, s)}
  /\ UNCHANGED <<state, call, journal, current, objects, published, spoiled, crashes, damage, refusals>>

\* Publication is create-only: an object that is there is read and compared.
Publish(b, s) ==
  LET k == Key(b, s) IN
  /\ Does(b, s, "commit") /\ ~process[b][s].half
  /\ \/ /\ objects[k] = "absent"
        /\ objects' = [objects EXCEPT ![k] = "good"]
        /\ published' = published \cup {Tx(b, s)}
        /\ process' = [process EXCEPT ![b][s].half = TRUE]
     \/ /\ objects[k] = "good"
        /\ process' = [process EXCEPT ![b][s].half = TRUE]
        /\ UNCHANGED <<objects, published>>
     \/ /\ Replied(b, s, "error")
        /\ UNCHANGED <<objects, published>>
  /\ UNCHANGED <<state, call, journal, current, pending, spoiled, crashes, damage, refusals>>

\* The files of the transaction are removed, or that fails.
CommitDone(b, s) ==
  /\ Does(b, s, "commit") /\ process[b][s].half
  /\ \/ Replied(b, s, "ok") /\ pending' = pending \ {Tx(b, s)}
     \/ Replied(b, s, "error") /\ UNCHANGED pending
  /\ UNCHANGED <<state, call, journal, current, objects, published, spoiled, crashes, damage, refusals>>

\* The size, then the content, which is hashed by the caller.
Read(b, s) ==
  /\ \E m \in {"verify", "read"} : Does(b, s, m)
  /\ \E reply \in {"ok", "error", "damaged"} :
       /\ reply = "ok" => objects[Key(b, s)] = "good"
       /\ reply = "damaged" => objects[Key(b, s)] = "damaged"
       /\ Replied(b, s, reply)
  /\ UNCHANGED <<state, call, journal, current, root, crashes, refusals>>

Cleared_Own(b, s) == IF process[b][s].half THEN {Tx(b, s)} ELSE {}

\* The files of a transaction have its name, whichever worker made them.
Cleared(b, s) == {Tx(b, s)}

Abort(b, s) ==
  /\ Does(b, s, "abort")
  /\ \/ Replied(b, s, "ok") /\ pending' = pending \ Cleared(b, s)
     \/ Replied(b, s, "error") /\ UNCHANGED pending
  /\ UNCHANGED <<state, call, journal, current, objects, published, spoiled, crashes, damage, refusals>>

\* The backend's worker dies by itself, or one that was forgotten ends after all.
Crash(b, s) ==
  /\ process[b][s].alive
  /\ \/ /\ s = current[b] /\ crashes < MaxCrashes
        /\ process' = [process EXCEPT ![b][s].alive = FALSE]
        /\ crashes' = crashes + 1
     \/ /\ s # current[b]
        /\ process' = [process EXCEPT ![b][s] = Stopped]
        /\ UNCHANGED crashes
  /\ UNCHANGED <<state, call, journal, current, root, refusals>>

\* The write of t is under way and has not read its object back.
Unanswered(t) ==
  \E b \in Backends : call[b].tx = t /\ (Calls(b, "verify") => Reply(b) = "none")

Damage(k) ==
  /\ damage < MaxDamage
  /\ objects[k] = "good"
  /\ objects' = [objects EXCEPT ![k] = "damaged"]
  /\ damage' = damage + 1
  /\ spoiled' = spoiled \cup {t \in Transactions : journal[t].key = k /\ Unanswered(t)}
  /\ UNCHANGED <<state, call, journal, current, process, pending, published, crashes, refusals>>

Init ==
  /\ state = [b \in Backends |-> "ready"]
  /\ call = [b \in Backends |-> Resting]
  /\ journal = [t \in Transactions |-> NoRow]
  /\ current = [b \in Backends |-> Nil]
  /\ process = [b \in Backends |-> [s \in Slots |-> Stopped]]
  /\ objects = [k \in Keys |-> "absent"]
  /\ pending = {} /\ published = {} /\ spoiled = {}
  /\ crashes = 0 /\ damage = 0 /\ refusals = [b \in Backends |-> 0]

Write(b) ==
  \/ Staged(b)
  \/ Committed(b)
  \/ WriteDone(b)
  \/ WriteFails(b)
  \/ WriteTimesOut(b)
  \/ WriteTooLate(b)
  \/ AbortDone(b)
  \/ AbortFails(b)
  \/ AbortTimesOut(b)

Operate(b) ==
  \/ \E t \in Transactions, k \in Keys : WriteStart(b, t, k)
  \/ Write(b)
  \/ Send(b)
  \/ \E k \in Keys : ReadStart(b, k)
  \/ ReadDone(b)
  \/ ReadTimesOut(b)
  \/ CloseStart(b)
  \/ CloseDone(b)

Work(b, s) ==
  \/ Stage(b, s)
  \/ Publish(b, s)
  \/ CommitDone(b, s)
  \/ Read(b, s)
  \/ Abort(b, s)
  \/ Crash(b, s)

Next ==
  \/ \E b \in Backends : Operate(b) \/ \E s \in Slots : Work(b, s)
  \/ \E k \in Keys : Damage(k)

Spec == Init /\ [][Next]_vars

-----------------------------------------------------------------------------
(* Properties                                                              *)

TypeOK ==
  /\ state \in [Backends -> {"ready", "quarantined", "closed"}]
  /\ \A b \in Backends :
       /\ call[b].method \in Methods \cup {"none"}
       /\ call[b].tx \in Transactions \cup {Nil} /\ call[b].key \in Keys \cup {Nil}
       /\ call[b].method \in Writing <=> call[b].tx # Nil
       /\ current[b] \in Slots \cup {Nil}
       /\ call[b].sent => current[b] # Nil
       /\ call[b].raised # "none" => Calls(b, "abort")
       /\ \A s \in Slots : process[b][s].reply \in Replies
  /\ \A t \in Transactions :
       journal[t] # NoRow => journal[t].state \in Rows /\ journal[t].owner \in Backends
  /\ objects \in [Keys -> {"absent", "good", "damaged"}]
  /\ pending \subseteq Transactions /\ published \subseteq Transactions
  /\ spoiled \subseteq Transactions
  /\ crashes \in 0..MaxCrashes /\ damage \in 0..MaxDamage
  /\ refusals \in [Backends -> 0..MaxRefusals]

Returned(t) == journal[t] # NoRow /\ \A b \in Backends : call[b].tx # t

\* What the journal calls aborted was not published, and never will be.
AbortedIsUnpublished ==
  \A t \in Transactions : journal[t].state = "aborted" => t \notin published

\* The row of a write tells that its cleaning up failed, or that a stop did.
Accounted(t) == journal[t].kept \/ journal[t].error = "refused"

\* A write that returned left no file of its own in the root, unless the row
\* says why it may have: even when a worker that could not be stopped stages
\* the object while another one aborts it (backends.py: write).
LeavesNoFiles ==
  \A t \in Transactions : Returned(t) /\ ~Accounted(t) => t \notin pending

Works(b, s) == process[b][s].alive /\ process[b][s].reply = "none"

\* A backend has one worker, unless one could not be stopped; and no worker
\* works on a transaction whose write has returned, unless the row says so: what
\* is late is killed before the write goes on (transport_worker.py: stop).
NothingRunsOn ==
  \A b \in Backends, s \in Slots :
    /\ process[b][s].alive /\ refusals[b] = 0 => s = current[b]
    /\ Works(b, s) /\ process[b][s].doing.tx # Nil =>
         ~Returned(process[b][s].doing.tx) \/ Accounted(process[b][s].doing.tx)

\* An object that is damaged before a write has read it back is never reported
\* as verified by that write, whoever published it.
DamagedIsNotVerified == \A t \in spoiled : journal[t].state # "verified"

\* docs/24-full-power-implementation.md: "A timeout terminates the owned process
\* group/Windows Job Object, quarantines the backend and records
\* `indeterminate-timeout` for writes".
TimeoutQuarantines ==
  \A t \in Transactions :
    journal[t].state = "indeterminate-timeout" => state[journal[t].owner] # "ready"
=============================================================================
