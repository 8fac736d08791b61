---------------------------- MODULE RuntimeQueue ----------------------------
(***************************************************************************)
(* The online request queue of the zero-touch runtime: RuntimeService's    *)
(* submit and close (thm/runtime/fabric/service.py) over one               *)
(* DeadlineAwareMicrobatcher per group of compatible requests              *)
(* (thm/runtime/fabric/microbatch.py).                                     *)
(*                                                                         *)
(* A request has two futures: the batcher's, which its worker thread       *)
(* resolves, and the caller's output, which finish copies it to and whose  *)
(* cancellation is passed on to the batcher's.  Concurrent are the callers *)
(* (submitting, cancelling), the batchers' workers, which execute under    *)
(* the one service lock, and the thread that closes the service.           *)
(* Requests are numbered in the order in which they are accepted.          *)
(***************************************************************************)
EXTENDS Naturals, SequencesExt, FiniteSets

CONSTANTS
  NRequests,   \* bound: requests accepted in a behaviour
  NBatchers,   \* bound: batchers created in a behaviour
  Groups,      \* scope, workload and settings of a request
  MaxGroups,   \* groups that have a batcher at a time
  MaxBatch,    \* requests executed together
  MaxPending,  \* requests waiting in one queue
  MaxWait,     \* time a batcher waits for more requests
  Slo,         \* time after which a waiting request has expired
  MaxTime,     \* bound: the last instant
  Nil

ASSUME QueueAssumption ==
  /\ {NRequests, NBatchers, MaxGroups, MaxBatch, MaxPending, Slo} \subseteq Nat \ {0}
  /\ {MaxWait, MaxTime} \subseteq Nat
  /\ Nil \notin Groups \cup (1..NBatchers)

Requests == 1..NRequests
Batchers == 1..NBatchers
Time == 0..MaxTime

VARIABLES
  clock,
  accepted,    \* how many requests were accepted
  arrived,     \* when each of them was
  deadline,    \* when it expires
  future,      \* the batcher's future of each request
  output,      \* the future its caller has
  group,       \* the group of each batcher, Nil until it is created
  listed,      \* RuntimeService.batchers: the batchers that accept requests
  queue,       \* the requests waiting at each batcher
  worker,      \* its thread: the step, and the requests it has taken
  lock,        \* the batcher executing under the service lock, or Nil
  closer       \* the closing of the service: how far, and the batcher joined

vars == <<clock, accepted, arrived, deadline, future, output, group,
          listed, queue, worker, lock, closer>>

times == <<arrived, deadline>>
Idle == [step |-> "wait", target |-> 0, stop |-> 0, batch |-> {}]
Unresolved == {"none", "pending", "running"}
Closing == closer.step # "open"

\* DeadlineAwareMicrobatcher.closed: by eviction, or by the closing service.
Shut(b) == b \notin listed \/ b \in closer.shut

At(b, s) == group[b] # Nil /\ worker[b].step = s
Goto(b, s) == worker' = [worker EXCEPT ![b].step = s]

\* A deadline of the caller's that has passed is as good as one that passes now.
Deadlines == {t \in Time : clock <= t /\ t <= clock + Slo}

-----------------------------------------------------------------------------
(* Callers                                                                 *)

Active(b) == worker[b].step \in {"check", "ready", "execute"}
IsIdle_Queued(b) == ~Active(b)
IsIdle(b) == ~Active(b) /\ queue[b] = <<>>

HasRoom_OffByOne(b) == Len(queue[b]) <= MaxPending
HasRoom(b) == Len(queue[b]) < MaxPending

Joined_AtHead(line, r) == <<r>> \o line
Joined(line, r) == Append(line, r)

\* close() of a batcher cancels what waits in its queue.
Dropped(bs) ==
  [r \in Requests |-> IF future[r] = "pending" /\ \E b \in bs : r \in ToSet(queue[b])
                      THEN "dropped" ELSE future[r]]
Emptied(bs) == [b \in Batchers |-> IF b \in bs THEN <<>> ELSE queue[b]]

\* The request joins the queue of batcher b, where there is room, and the
\* batchers in gone are closed; it expires after Slo, or by its own deadline.
Enqueue(b, gone) ==
  LET r == accepted + 1 IN
  /\ accepted < NRequests /\ clock + Slo <= MaxTime
  /\ HasRoom(b)
  /\ accepted' = r
  /\ arrived' = [arrived EXCEPT ![r] = clock]
  /\ \E t \in Deadlines : deadline' = [deadline EXCEPT ![r] = t]
  /\ future' = [Dropped(gone) EXCEPT ![r] = "pending"]
  /\ output' = [output EXCEPT ![r] = "pending"]
  /\ queue' = [Emptied(gone) EXCEPT ![b] = Joined(@, r)]

Submit(b) ==
  /\ ~Closing
  /\ b \in listed
  /\ Enqueue(b, {})
  /\ UNCHANGED <<clock, group, listed, worker, lock, closer>>

\* MaxGroups have a batcher: an idle one is closed for the new group, and if
\* none is idle the call is refused.
Evicted(gone) ==
  IF Cardinality(listed) < MaxGroups
  THEN gone = {}
  ELSE \E a \in listed : IsIdle(a) /\ gone = {a}

\* The first request of a group creates its batcher.
SubmitFirst(b, g) ==
  /\ ~Closing
  /\ group[b] = Nil /\ \A a \in 1..(b - 1) : group[a] # Nil
  /\ \A a \in listed : group[a] # g
  /\ \E gone \in SUBSET listed :
       /\ Evicted(gone)
       /\ listed' = (listed \ gone) \cup {b}
       /\ Enqueue(b, gone)
  /\ group' = [group EXCEPT ![b] = g]
  /\ UNCHANGED <<clock, worker, lock, closer>>

\* finish: what became of the request is passed on, unless it was cancelled.
\* The callback runs as soon as it was added and the batcher's future is done.
Finish(r) ==
  /\ r <= accepted
  /\ future[r] \notin Unresolved
  /\ output[r] = "pending"
  /\ output' = [output EXCEPT ![r] = future[r]]
  /\ UNCHANGED <<clock, accepted, times, future, group, listed, queue,
                 worker, lock, closer>>

\* Cancelling the output reaches the batcher's future only while that waits.
Cancel(r) ==
  /\ r <= accepted
  /\ output[r] = "pending"
  /\ output' = [output EXCEPT ![r] = "cancelled"]
  /\ future' = [future EXCEPT ![r] = IF @ = "pending" THEN "cancelled" ELSE @]
  /\ UNCHANGED <<clock, accepted, times, group, listed, queue, worker, lock, closer>>

-----------------------------------------------------------------------------
(* The worker of a batcher                                                 *)

\* The arrival rate decides how many requests are worth waiting for.
Gather(b) ==
  /\ At(b, "wait")
  /\ queue[b] # <<>>
  /\ LET first == Head(queue[b])
         limit == arrived[first] + MaxWait
     IN \E n \in 1..MaxBatch :
          /\ n >= Len(queue[b]) \/ n = MaxBatch
          /\ worker' = [worker EXCEPT ![b] =
               [step |-> "gather", target |-> n, batch |-> {},
                stop |-> IF deadline[first] < limit THEN deadline[first] ELSE limit]]
  /\ UNCHANGED <<clock, accepted, times, future, output, group, listed,
                 queue, lock, closer>>

Least(m, n) == IF m < n THEN m ELSE n

\* The first requests of the queue are taken.  They are executed and answered
\* together, so that a batch is a set.
Take(b) ==
  LET n == Least(worker[b].target, Len(queue[b])) IN
  /\ At(b, "gather")
  /\ Shut(b) \/ Len(queue[b]) >= worker[b].target \/ clock >= worker[b].stop
  /\ worker' = [worker EXCEPT ![b] =
       [Idle EXCEPT !.step = "check", !.batch = ToSet(SubSeq(queue[b], 1, n))]]
  /\ queue' = [queue EXCEPT ![b] = SubSeq(@, n + 1, Len(@))]
  /\ UNCHANGED <<clock, accepted, times, future, output, group, listed,
                 lock, closer>>

Expired(r) == clock >= deadline[r]

Resolved(b, how) ==
  future' = [r \in Requests |-> IF r \in worker[b].batch THEN how ELSE future[r]]

Running_Unmarked(r) ==
  CASE future[r] = "cancelled" -> "cancelled"
    [] Expired(r) -> "expired"
    [] OTHER -> future[r]

Running_NoAnswer(r) ==
  CASE future[r] = "cancelled" -> "cancelled"
    [] Expired(r) -> future[r]
    [] OTHER -> "running"

\* set_running_or_notify_cancel, and the answer to an expired request.
Running(r) ==
  CASE future[r] = "cancelled" -> "cancelled"
    [] Expired(r) -> "expired"
    [] OTHER -> "running"

Check(b) ==
  LET live == {r \in worker[b].batch : future[r] # "cancelled" /\ ~Expired(r)} IN
  /\ At(b, "check")
  /\ future' = [r \in Requests |-> IF r \in worker[b].batch THEN Running(r)
                                                            ELSE future[r]]
  /\ worker' = [worker EXCEPT ![b].step = IF live = {} THEN "wait" ELSE "ready",
                              ![b].batch = live]
  /\ UNCHANGED <<clock, accepted, times, output, group, listed, queue,
                 lock, closer>>

\* _execute holds the service lock until the batch has its results.
Execute(b) ==
  /\ At(b, "ready")
  /\ lock = Nil
  /\ ~Closing
  /\ lock' = b
  /\ Goto(b, "execute")
  /\ UNCHANGED <<clock, accepted, times, future, output, group, listed,
                 queue, closer>>

\* A closed service refuses to execute.
ExecuteClosed(b) ==
  /\ At(b, "ready")
  /\ lock = Nil
  /\ Closing
  /\ Resolved(b, "error")
  /\ worker' = [worker EXCEPT ![b] = Idle]
  /\ UNCHANGED <<clock, accepted, times, output, group, listed, queue,
                 lock, closer>>

\* One result per request, or an exception for all of them.
Executed(b) ==
  /\ At(b, "execute")
  /\ \E how \in {"result", "error"} : Resolved(b, how)
  /\ lock' = Nil
  /\ worker' = [worker EXCEPT ![b] = Idle]
  /\ UNCHANGED <<clock, accepted, times, output, group, listed, queue,
                 closer>>

Exit(b) ==
  /\ At(b, "wait")
  /\ Shut(b)
  /\ queue[b] = <<>>
  /\ Goto(b, "exit")
  /\ UNCHANGED <<clock, accepted, times, future, output, group, listed,
                 queue, lock, closer>>

-----------------------------------------------------------------------------
(* Closing, time                                                           *)

CloseStart ==
  /\ ~Closing
  /\ closer' = [closer EXCEPT !.step = "closing"]
  /\ UNCHANGED <<clock, accepted, times, future, output, group, listed,
                 queue, worker, lock>>

\* The waiting requests of one batcher after the other are cancelled.
CloseBatcher(b) ==
  /\ closer.step = "closing" /\ closer.joins = Nil
  /\ b \in listed \ closer.shut
  /\ closer' = [closer EXCEPT !.joins = b, !.shut = @ \cup {b}]
  /\ future' = Dropped({b})
  /\ queue' = Emptied({b})
  /\ UNCHANGED <<clock, accepted, times, output, group, listed, worker, lock>>

Join_NoWait(b) ==
  /\ closer.joins = b
  /\ closer' = [closer EXCEPT !.joins = Nil]
  /\ UNCHANGED <<clock, accepted, times, future, output, group, listed,
                 queue, worker, lock>>

Join(b) ==
  /\ closer.joins = b
  /\ worker[b].step = "exit"
  /\ closer' = [closer EXCEPT !.joins = Nil]
  /\ UNCHANGED <<clock, accepted, times, future, output, group, listed,
                 queue, worker, lock>>

\* The executors, the providers and the profile store are closed last.
CloseRest ==
  /\ closer.step = "closing" /\ closer.joins = Nil
  /\ listed \subseteq closer.shut
  /\ closer' = [closer EXCEPT !.step = "closed"]
  /\ UNCHANGED <<clock, accepted, times, future, output, group, listed,
                 queue, worker, lock>>

Tick ==
  /\ clock < MaxTime
  /\ clock' = clock + 1
  /\ UNCHANGED <<accepted, times, future, output, group, listed, queue,
                 worker, lock, closer>>

Init ==
  /\ clock = 0 /\ accepted = 0
  /\ arrived = [r \in Requests |-> 0] /\ deadline = [r \in Requests |-> 0]
  /\ future = [r \in Requests |-> "none"] /\ output = [r \in Requests |-> "none"]
  /\ group = [b \in Batchers |-> Nil] /\ listed = {}
  /\ queue = [b \in Batchers |-> <<>>]
  /\ worker = [b \in Batchers |-> Idle]
  /\ lock = Nil
  /\ closer = [step |-> "open", joins |-> Nil, shut |-> {}]

Work(b) ==
  \/ Gather(b)
  \/ Take(b)
  \/ Check(b)
  \/ Execute(b)
  \/ ExecuteClosed(b)
  \/ Executed(b)
  \/ Exit(b)

Call(r) ==
  \/ Finish(r)
  \/ Cancel(r)

CloseService ==
  \/ CloseStart
  \/ \E b \in Batchers : CloseBatcher(b) \/ Join(b)
  \/ CloseRest

Next ==
  \/ \E b \in Batchers : Submit(b) \/ Work(b)
  \/ \E b \in Batchers, g \in Groups : SubmitFirst(b, g)
  \/ \E r \in Requests : Call(r)
  \/ CloseService
  \/ Tick

\* Threads run, time passes, and an execution ends; nobody has to submit, to
\* cancel or to begin closing the service.
Fairness ==
  /\ \A b \in Batchers : WF_vars(Work(b))
  /\ WF_vars(\E r \in Requests : Finish(r))
  /\ WF_vars(Tick)

Spec == Init /\ [][Next]_vars /\ Fairness

-----------------------------------------------------------------------------
(* Properties                                                              *)

TypeOK ==
  /\ clock \in Time
  /\ accepted \in 0..NRequests
  /\ arrived \in [Requests -> Time] /\ deadline \in [Requests -> Time]
  /\ future \in [Requests -> Unresolved \cup {"cancelled", "dropped", "expired", "result", "error"}]
  /\ output \in [Requests -> {"none", "pending", "cancelled", "dropped", "expired", "result", "error"}]
  /\ group \in [Batchers -> Groups \cup {Nil}]
  /\ listed \subseteq {b \in Batchers : group[b] # Nil} /\ Cardinality(listed) <= MaxGroups
  /\ \A b \in Batchers :
       /\ queue[b] \in Seq(1..accepted) /\ Len(queue[b]) <= MaxPending
       /\ worker[b].step \in {"wait", "gather", "check", "ready", "execute", "exit"}
       /\ worker[b].batch \subseteq 1..accepted /\ Cardinality(worker[b].batch) <= MaxBatch
       /\ worker[b].target \in 0..MaxBatch
       /\ worker[b].stop \in Nat
  /\ lock \in Batchers \cup {Nil}
  /\ closer.step \in {"open", "closing", "closed"}
  /\ closer.joins \in Batchers \cup {Nil} /\ closer.shut \subseteq Batchers

\* The futures a worker is about to resolve are running, and no other future
\* is.  Resolving one that a caller or the closing service has cancelled would
\* raise in the worker, twice, and end the thread with its queue unanswered.
ResolvesOnlyRunning ==
  \A r \in Requests :
    future[r] = "running" <=>
      \E b \in Batchers : worker[b].step \in {"ready", "execute"} /\ r \in worker[b].batch

\* Within a batcher no request overtakes an earlier one (microbatch.py: "FIFO
\* fairness").
NoOvertaking ==
  \A b \in Batchers :
    /\ \A i, j \in DOMAIN queue[b] : i < j => queue[b][i] < queue[b][j]
    /\ \A r \in worker[b].batch, j \in DOMAIN queue[b] : r < queue[b][j]

\* Closing ends all, and only closing ends what is unfinished: a request nobody
\* cancelled is never dropped to make room for another group; and once close goes
\* on to the executors, the providers and the store, nothing executes, not even
\* at a batcher that was dropped for another group and that close did not join.
CloseIsClean ==
  /\ \A r \in Requests : future[r] = "dropped" => Closing
  /\ closer.step = "closed" => lock = Nil /\ \A b \in Batchers : ~Active(b)

\* Every request that was accepted gets an answer, whatever is cancelled,
\* expires, fails or is closed meanwhile: with NRequests of them, there is
\* always a later time when none is pending.
EveryRequestAnswered == []<>(\A r \in Requests : output[r] # "pending")

\* docs/22-runtime-optimizer.md: "Expired requests do not execute."
ExpiredNeverExecute ==
  [][\A b \in Batchers : Execute(b) =>
       \A r \in worker[b].batch : ~Expired(r)]_vars
=============================================================================
