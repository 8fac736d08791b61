------------------------- MODULE RuntimeQueueProofs -------------------------
(***************************************************************************)
(* Proofs about RuntimeQueue, for any numbers of requests, batchers,       *)
(* groups and instants: the inductive invariant about batchers, the lock   *)
(* and the closer, by which closing is clean; and, on top of it, the one   *)
(* about what queues and batches hold, by which a worker resolves exactly  *)
(* the futures that are running, in the order of arrival; and the types    *)
(* with the bounds on groups, queues and batches, on top of both.          *)
(***************************************************************************)
EXTENDS RuntimeQueue, SequenceTheorems, FiniteSetTheorems, TLAPS

Steps == {"wait", "gather", "check", "ready", "execute", "exit"}

\* The parts of the types the argument needs: a batch may be anything.
WorkerShape(w) ==
  /\ DOMAIN w = DOMAIN Idle
  /\ w.step \in Steps
  /\ w.target \in Nat

Shapes ==
  /\ accepted \in Nat
  /\ DOMAIN future = Requests
  /\ group \in [Batchers -> Groups \cup {Nil}]
  /\ listed \subseteq Batchers
  /\ queue \in [Batchers -> Seq(Nat)]
  /\ DOMAIN worker = Batchers /\ \A b \in Batchers : WorkerShape(worker[b])
  /\ lock \in Batchers \cup {Nil}
  /\ closer \in [step : {"open", "closing", "closed"}, joins : Batchers \cup {Nil},
                 shut : SUBSET Batchers]

\* A batcher that was never created, or was dropped for another group, has
\* nothing to do and never will.
UnlistedRest ==
  \A b \in Batchers \ listed : worker[b].step \in {"wait", "exit"} /\ queue[b] = <<>>
UncreatedWait ==
  \A b \in Batchers : group[b] = Nil => b \notin listed /\ worker[b].step = "wait"

\* As long as nothing is closed, a batcher that gathers has something to gather,
\* so that it is not taken for idle.
GatherersBusy ==
  ~Closing => \A b \in Batchers : worker[b].step = "gather" => queue[b] # <<>>

\* A thread ends when its batcher was shut and its queue is empty, and close
\* has waited for each one it has shut, except the one it waits for.
ExitsLast ==
  \A b \in Batchers : worker[b].step = "exit" => Shut(b) /\ queue[b] = <<>>
CloserWaited ==
  /\ ~Closing => closer.shut = {} /\ closer.joins = Nil
  /\ \A b \in closer.shut : b = closer.joins \/ worker[b].step = "exit"
  /\ closer.step = "closed" => listed \subseteq closer.shut /\ closer.joins = Nil

LockHeld == lock # Nil => worker[lock].step = "execute"

DroppedByClose == \A r \in Requests : future[r] = "dropped" => Closing

QueueInv ==
  /\ Shapes /\ UnlistedRest /\ UncreatedWait /\ GatherersBusy
  /\ ExitsLast /\ CloserWaited /\ LockHeld /\ DroppedByClose

USE QueueAssumption

-----------------------------------------------------------------------------
(* The invariant and what follows from it                                  *)

\* Nothing is queued, executing or closing as the service begins.
LEMMA ServiceBegins == Init => QueueInv
<1> SUFFICES ASSUME Init PROVE QueueInv
  OBVIOUS
<1>1. Shapes
  <2>1. \A b \in Batchers : WorkerShape(worker[b])
    BY DEF Init, Idle, WorkerShape, Steps
  <2>2. queue \in [Batchers -> Seq(Nat)]
    BY EmptySeq DEF Init
  <2>3. QED BY <2>1, <2>2 DEF Init, Shapes
<1>2. /\ UnlistedRest /\ UncreatedWait /\ GatherersBusy
      /\ ExitsLast /\ CloserWaited /\ LockHeld /\ DroppedByClose
  BY DEF Init, Idle, UnlistedRest, UncreatedWait, GatherersBusy, ExitsLast,
     CloserWaited, LockHeld, DroppedByClose, Closing, Batchers
<1>3. QED BY <1>1, <1>2 DEF QueueInv

\* Once close has gone on to the rest, every thread has ended or rests for good.
LEMMA InvariantIsClean == QueueInv => CloseIsClean
<1> SUFFICES ASSUME QueueInv PROVE CloseIsClean
  OBVIOUS
<1>1. ASSUME closer.step = "closed", NEW b \in Batchers PROVE ~Active(b)
  <2>1. CASE b \in listed
    BY <1>1, <2>1 DEF QueueInv, CloserWaited, Active, Batchers
  <2>2. CASE b \notin listed
    BY <1>1, <2>2 DEF QueueInv, UnlistedRest, Active
  <2>3. QED BY <2>1, <2>2
<1>2. closer.step = "closed" => lock = Nil
  BY <1>1 DEF QueueInv, Shapes, LockHeld, Active
<1>3. QED BY <1>1, <1>2 DEF QueueInv, DroppedByClose, CloseIsClean

-----------------------------------------------------------------------------
(* What a step changes                                                     *)

\* A worker's thread takes one step.
LEMMA WorkerMoves ==
  ASSUME Shapes, NEW b \in Batchers, NEW w, WorkerShape(w),
         worker' = [worker EXCEPT ![b] = w]
  PROVE  /\ DOMAIN worker' = Batchers
         /\ \A c \in Batchers : WorkerShape(worker'[c])
         /\ worker'[b] = w
         /\ \A c \in Batchers : c # b => worker'[c] = worker[c]
BY DEF Shapes

LEMMA WorkerGoesTo ==
  ASSUME Shapes, NEW b \in Batchers, NEW s \in Steps, Goto(b, s)
  PROVE  /\ DOMAIN worker' = Batchers
         /\ \A c \in Batchers : WorkerShape(worker'[c])
         /\ worker'[b].step = s
         /\ \A c \in Batchers : c # b => worker'[c] = worker[c]
<1> DEFINE w == [worker[b] EXCEPT !.step = s]
<1>1. worker' = [worker EXCEPT ![b] = w]
  BY DEF Goto
<1>2. /\ DOMAIN w = DOMAIN Idle /\ w.step = s /\ w.target = worker[b].target
  BY DEF Shapes, WorkerShape, Idle
<1>3. WorkerShape(w)
  BY <1>2 DEF Shapes, WorkerShape
<1> HIDE DEF w
<1>4. QED BY <1>1, <1>2, <1>3, WorkerMoves

\* Batchers that have nothing queued lose nothing when they are closed.
LEMMA NothingDropped ==
  ASSUME NEW bs \in SUBSET Batchers, \A b \in bs : queue[b] = <<>>
  PROVE  \A r \in Requests : Dropped(bs)[r] = future[r]
<1>1. ToSet(<<>>) = {}
  BY DEF ToSet
<1>2. QED BY <1>1 DEF Dropped

\* A request that joins a queue: its queue is not empty any more, those of gone
\* are, and nothing was dropped from them.
LEMMA EnqueueKeeps ==
  ASSUME QueueInv, NEW b \in Batchers, NEW gone \in SUBSET Batchers,
         \A a \in gone : queue[a] = <<>>, Enqueue(b, gone)
  PROVE  /\ DOMAIN future' = Requests
         /\ queue' \in [Batchers -> Seq(Nat)]
         /\ queue'[b] # <<>>
         /\ \A a \in Batchers : a # b => queue'[a] = queue[a]
         /\ \A r \in Requests : future'[r] = "dropped" => future[r] = "dropped"
<1> DEFINE r == accepted + 1
<1>1. /\ future' = [Dropped(gone) EXCEPT ![r] = "pending"]
      /\ queue' = [Emptied(gone) EXCEPT ![b] = Append(Emptied(gone)[b], r)]
  BY DEF Enqueue, Joined
<1>2. \A a \in Batchers : Emptied(gone)[a] = queue[a]
  BY DEF Emptied
<1>3. Emptied(gone) = queue
  BY <1>2 DEF Emptied, QueueInv, Shapes
<1>4. /\ queue[b] \in Seq(Nat) /\ r \in Nat
      /\ Append(queue[b], r) \in Seq(Nat) /\ Append(queue[b], r) # <<>>
  <2>1. queue[b] \in Seq(Nat) /\ r \in Nat
    BY DEF QueueInv, Shapes
  <2>2. Append(queue[b], r) \in Seq(Nat) /\ Append(queue[b], r) # <<>>
    BY <2>1, AppendProperties, SMTT(30)
  <2>3. QED BY <2>1, <2>2
<1>5. /\ queue' = [queue EXCEPT ![b] = Append(queue[b], r)]
      /\ queue \in [Batchers -> Seq(Nat)]
  BY <1>1, <1>2, <1>3 DEF QueueInv, Shapes
<1>6. /\ queue' \in [Batchers -> Seq(Nat)] /\ queue'[b] # <<>>
      /\ \A a \in Batchers : a # b => queue'[a] = queue[a]
  BY <1>4, <1>5
<1>7. /\ DOMAIN future' = Requests
      /\ \A q \in Requests : future'[q] = "dropped" => future[q] = "dropped"
  BY <1>1, NothingDropped DEF Dropped
<1>8. QED BY <1>6, <1>7

-----------------------------------------------------------------------------
(* Callers keep the invariant                                              *)

LEMMA SubmitKeeps ==
  ASSUME QueueInv, NEW b \in Batchers, Submit(b)
  PROVE  QueueInv'
<1>1. /\ ~Closing /\ b \in listed /\ Enqueue(b, {})
      /\ UNCHANGED <<group, listed, worker, lock, closer>>
  BY DEF Submit
<1>2. /\ DOMAIN future' = Requests /\ queue' \in [Batchers -> Seq(Nat)] /\ queue'[b] # <<>>
      /\ \A a \in Batchers : a # b => queue'[a] = queue[a]
      /\ \A r \in Requests : future'[r] = "dropped" => future[r] = "dropped"
  BY <1>1, EnqueueKeeps
<1>3. accepted' \in Nat
  BY <1>1 DEF Enqueue, QueueInv, Shapes
<1>4. Shapes' /\ Closing' = Closing
  BY <1>1, <1>2, <1>3 DEF QueueInv, Shapes, WorkerShape, Closing
<1>5. worker[b].step # "exit"
  BY <1>1 DEF QueueInv, ExitsLast, CloserWaited, Shut
<1>6. UnlistedRest' /\ UncreatedWait' /\ GatherersBusy'
  BY <1>1, <1>2, <1>4 DEF QueueInv, UnlistedRest, UncreatedWait, GatherersBusy
<1>7. ExitsLast' /\ CloserWaited' /\ LockHeld' /\ DroppedByClose'
  BY <1>1, <1>2, <1>4, <1>5
     DEF QueueInv, ExitsLast, CloserWaited, LockHeld, DroppedByClose, Shut
<1>8. QED BY <1>4, <1>6, <1>7 DEF QueueInv

LEMMA SubmitFirstKeeps ==
  ASSUME QueueInv, NEW b \in Batchers, NEW g \in Groups, SubmitFirst(b, g)
  PROVE  QueueInv'
<1>1. PICK gone \in SUBSET listed :
        /\ Evicted(gone) /\ listed' = (listed \ gone) \cup {b} /\ Enqueue(b, gone)
  BY DEF SubmitFirst
<1>2. /\ ~Closing /\ group[b] = Nil /\ group' = [group EXCEPT ![b] = g]
      /\ UNCHANGED <<worker, lock, closer>>
  BY DEF SubmitFirst
<1>3. \A a \in gone : worker[a].step \in {"wait", "exit"} /\ queue[a] = <<>>
  <2>1. \A a \in gone : IsIdle(a)
    BY <1>1 DEF Evicted
  <2>2. QED BY <1>1, <1>2, <2>1
            DEF IsIdle, Active, QueueInv, Shapes, WorkerShape, Steps, GatherersBusy
<1>4. /\ DOMAIN future' = Requests /\ queue' \in [Batchers -> Seq(Nat)] /\ queue'[b] # <<>>
      /\ \A a \in Batchers : a # b => queue'[a] = queue[a]
      /\ \A r \in Requests : future'[r] = "dropped" => future[r] = "dropped"
  <2>1. gone \in SUBSET Batchers
    BY DEF QueueInv, Shapes
  <2>2. QED BY <1>1, <1>3, <2>1, EnqueueKeeps
<1>5. accepted' \in Nat
  BY <1>1 DEF Enqueue, QueueInv, Shapes
<1>6. Shapes' /\ Closing' = Closing
  BY <1>1, <1>2, <1>4, <1>5 DEF QueueInv, Shapes, WorkerShape, Closing
<1>7. b \notin listed /\ worker[b].step = "wait"
  BY <1>2 DEF QueueInv, UncreatedWait
<1>8. UnlistedRest'
  BY <1>1, <1>2, <1>3, <1>4 DEF QueueInv, UnlistedRest
<1>9. UncreatedWait'
  BY <1>1, <1>2 DEF QueueInv, UncreatedWait, Shapes
<1>10. GatherersBusy'
  BY <1>2, <1>4, <1>6 DEF QueueInv, GatherersBusy
<1>11. ExitsLast'
  BY <1>1, <1>2, <1>4, <1>7 DEF QueueInv, ExitsLast, Shut
<1>12. CloserWaited' /\ LockHeld' /\ DroppedByClose'
  BY <1>2, <1>4, <1>6 DEF QueueInv, CloserWaited, LockHeld, DroppedByClose, Closing
<1>13. QED BY <1>6, <1>8, <1>9, <1>10, <1>11, <1>12 DEF QueueInv

\* Finishing and cancelling touch nothing but futures, and drop none.
LEMMA CallKeeps ==
  ASSUME QueueInv, NEW r \in Requests, Call(r)
  PROVE  QueueInv'
<1>1. /\ UNCHANGED <<accepted, group, listed, queue, worker, lock, closer>>
      /\ DOMAIN future' = Requests
      /\ \A q \in Requests : future'[q] = "dropped" => future[q] = "dropped"
  BY DEF Call, Finish, Cancel, QueueInv, Shapes
<1>2. Shapes' /\ Closing' = Closing
  BY <1>1 DEF QueueInv, Shapes, WorkerShape, Closing
<1>3. QED
  BY <1>1, <1>2 DEF QueueInv, UnlistedRest, UncreatedWait, GatherersBusy,
     ExitsLast, CloserWaited, LockHeld, DroppedByClose, Shut, Closing

-----------------------------------------------------------------------------
(* Workers keep the invariant                                              *)

\* A worker that rests begins to gather from a queue that is not empty.
LEMMA GatherKeeps ==
  ASSUME QueueInv, NEW b \in Batchers, Gather(b)
  PROVE  QueueInv'
<1>1. /\ worker[b].step = "wait" /\ queue[b] # <<>>
      /\ UNCHANGED <<accepted, future, group, listed, queue, lock, closer>>
  BY DEF Gather, At
<1>2. PICK n \in 1..MaxBatch : \E stop : worker' = [worker EXCEPT ![b] =
               [step |-> "gather", target |-> n, batch |-> {}, stop |-> stop]]
  BY DEF Gather
<1> PICK t : worker' = [worker EXCEPT ![b] =
               [step |-> "gather", target |-> n, batch |-> {}, stop |-> t]]
  BY <1>2
<1> DEFINE w == [step |-> "gather", target |-> n, batch |-> {}, stop |-> t]
<1>9. WorkerShape(w) /\ w.step = "gather"
  BY DEF WorkerShape, Idle, Steps
<1>10. worker' = [worker EXCEPT ![b] = w]
  OBVIOUS
<1> HIDE DEF w
<1>3. /\ DOMAIN worker' = Batchers
      /\ \A c \in Batchers : WorkerShape(worker'[c])
      /\ worker'[b].step = "gather"
      /\ \A c \in Batchers : c # b => worker'[c] = worker[c]
  BY <1>9, <1>10, WorkerMoves DEF QueueInv
<1>4. Shapes' /\ Closing' = Closing
  BY <1>1, <1>3 DEF QueueInv, Shapes, WorkerShape, Closing
<1>5. b \in listed /\ group[b] # Nil
  BY <1>1 DEF QueueInv, UnlistedRest, UncreatedWait, Gather, At
<1>6. UnlistedRest' /\ UncreatedWait' /\ GatherersBusy'
  BY <1>1, <1>3, <1>4, <1>5 DEF QueueInv, UnlistedRest, UncreatedWait, GatherersBusy
<1>7. ExitsLast'
  BY <1>1, <1>3 DEF QueueInv, ExitsLast, Shut
<1>8. CloserWaited'
  <2>1. closer.shut \subseteq Batchers
    BY DEF QueueInv, Shapes
  <2>2. QED BY <1>1, <1>3, <1>4, <2>1 DEF QueueInv, CloserWaited
<1>11. LockHeld' /\ DroppedByClose'
  BY <1>1, <1>3, <1>4 DEF QueueInv, Shapes, LockHeld, DroppedByClose
<1>12. QED BY <1>4, <1>6, <1>7, <1>8, <1>11 DEF QueueInv

\* A worker that has a batch, or comes back from one, at a batcher that is
\* listed, and the lock it takes or gives back.
LEMMA BusyKeeps ==
  ASSUME QueueInv, NEW b \in Batchers, group[b] # Nil,
         worker[b].step \in {"gather", "check", "ready", "execute"},
         DOMAIN worker' = Batchers, \A c \in Batchers : WorkerShape(worker'[c]),
         worker'[b].step \in {"wait", "check", "ready", "execute"},
         \A c \in Batchers : c # b => worker'[c] = worker[c],
         queue' \in [Batchers -> Seq(Nat)],
         \A c \in Batchers : c # b => queue'[c] = queue[c],
         DOMAIN future' = Requests,
         \A r \in Requests : future'[r] = "dropped" => future[r] = "dropped",
         \/ lock' = Nil
         \/ lock' = lock /\ lock # b
         \/ lock' = b /\ worker'[b].step = "execute",
         UNCHANGED <<accepted, group, listed, closer>>
  PROVE  QueueInv'
<1>1. Shapes' /\ Closing' = Closing
  BY DEF QueueInv, Shapes, WorkerShape, Closing
<1>2. b \in listed
  BY DEF QueueInv, UnlistedRest
<1>3. UnlistedRest' /\ UncreatedWait' /\ GatherersBusy'
  BY <1>1, <1>2, ZenonT(60) DEF QueueInv, UnlistedRest, UncreatedWait, GatherersBusy
<1>4. ExitsLast'
  BY <1>2 DEF QueueInv, ExitsLast, Shut
<1>5. CloserWaited'
  <2>1. closer.shut \subseteq Batchers
    BY DEF QueueInv, Shapes
  <2>2. QED BY <1>1, <2>1 DEF QueueInv, CloserWaited
<1>6. LockHeld' /\ DroppedByClose'
  BY <1>1 DEF QueueInv, Shapes, LockHeld, DroppedByClose
<1>7. QED BY <1>1, <1>3, <1>4, <1>5, <1>6 DEF QueueInv

LEMMA LeastBounds ==
  ASSUME NEW m \in Nat, NEW l \in Nat
  PROVE  Least(m, l) \in Nat /\ Least(m, l) <= l
BY DEF Least

LEMMA TakeKeeps ==
  ASSUME QueueInv, NEW b \in Batchers, Take(b)
  PROVE  QueueInv'
<1> DEFINE n == Least(worker[b].target, Len(queue[b]))
           w == [Idle EXCEPT !.step = "check", !.batch = ToSet(SubSeq(queue[b], 1, n))]
<1>1. /\ worker[b].step = "gather" /\ group[b] # Nil
      /\ worker' = [worker EXCEPT ![b] = w]
      /\ queue' = [queue EXCEPT ![b] = SubSeq(queue[b], n + 1, Len(queue[b]))]
      /\ UNCHANGED <<accepted, future, group, listed, lock, closer>>
  BY DEF Take, At
<1>2. WorkerShape(w) /\ w.step = "check"
  BY DEF Idle, WorkerShape, Steps
<1>3. queue[b] \in Seq(Nat) /\ Len(queue[b]) \in Nat /\ worker[b].target \in Nat
  BY LenProperties DEF QueueInv, Shapes, WorkerShape
<1>11. n \in Nat /\ n <= Len(queue[b])
  BY <1>3, LeastBounds
<1> HIDE DEF n
<1>4. SubSeq(queue[b], n + 1, Len(queue[b])) \in Seq(Nat)
  <2>1. ASSUME NEW i \in n + 1 .. Len(queue[b]) PROVE queue[b][i] \in Nat
    <3>1. i \in 1 .. Len(queue[b])
      BY <1>3, <1>11
    <3>2. QED BY <1>3, <3>1, ElementOfSeq
  <2>2. QED BY <1>3, <1>11, <2>1, SubSeqProperties
<1>5. queue' \in [Batchers -> Seq(Nat)] /\ \A c \in Batchers : c # b => queue'[c] = queue[c]
  BY <1>1, <1>4 DEF QueueInv, Shapes
<1> HIDE DEF w
<1>6. /\ DOMAIN worker' = Batchers /\ \A c \in Batchers : WorkerShape(worker'[c])
      /\ worker'[b].step = "check" /\ \A c \in Batchers : c # b => worker'[c] = worker[c]
  BY <1>1, <1>2, WorkerMoves DEF QueueInv
<1>7. lock # b
  BY <1>1 DEF QueueInv, LockHeld, Shapes, Batchers
<1>8. DOMAIN future' = Requests
  BY <1>1 DEF QueueInv, Shapes
<1>9. QED BY <1>1, <1>5, <1>6, <1>7, <1>8, BusyKeeps

LEMMA CheckKeeps ==
  ASSUME QueueInv, NEW b \in Batchers, Check(b)
  PROVE  QueueInv'
<1>1. /\ worker[b].step = "check" /\ group[b] # Nil
      /\ UNCHANGED <<accepted, group, listed, queue, lock, closer>>
  BY DEF Check, At
<1> DEFINE live == {r \in worker[b].batch : future[r] # "cancelled" /\ ~Expired(r)}
           s == IF live = {} THEN "wait" ELSE "ready"
<1>2. worker' = [worker EXCEPT ![b].step = s, ![b].batch = live]
  BY DEF Check
<1>10. s \in {"wait", "ready"}
  OBVIOUS
<1> HIDE DEF live, s
<1> DEFINE w == [[worker[b] EXCEPT !.step = s] EXCEPT !.batch = live]
<1>3. worker' = [worker EXCEPT ![b] = w]
  BY <1>2 DEF QueueInv, Shapes
<1>4. WorkerShape(w) /\ w.step = s
  BY <1>10 DEF QueueInv, Shapes, WorkerShape, Idle, Steps
<1> HIDE DEF w
<1>5. /\ DOMAIN worker' = Batchers /\ \A c \in Batchers : WorkerShape(worker'[c])
      /\ worker'[b].step = s /\ \A c \in Batchers : c # b => worker'[c] = worker[c]
  BY <1>3, <1>4, WorkerMoves DEF QueueInv
<1>6. /\ DOMAIN future' = Requests
      /\ \A r \in Requests : future'[r] = "dropped" => future[r] = "dropped"
  BY DEF Check, Running
<1>7. lock # b
  BY <1>1 DEF QueueInv, LockHeld, Shapes, Batchers
<1>8. queue' \in [Batchers -> Seq(Nat)] /\ \A c \in Batchers : c # b => queue'[c] = queue[c]
  BY <1>1 DEF QueueInv, Shapes
<1>9. QED BY <1>1, <1>10, <1>5, <1>6, <1>7, <1>8, BusyKeeps

\* A batch that is executed takes the lock, which was free.
LEMMA ExecuteKeeps ==
  ASSUME QueueInv, NEW b \in Batchers, Execute(b)
  PROVE  QueueInv'
<1>1. /\ worker[b].step = "ready" /\ group[b] # Nil /\ lock' = b /\ Goto(b, "execute")
      /\ UNCHANGED <<accepted, future, group, listed, queue, closer>>
  BY DEF Execute, At
<1>2. /\ DOMAIN worker' = Batchers /\ \A c \in Batchers : WorkerShape(worker'[c])
      /\ worker'[b].step = "execute" /\ \A c \in Batchers : c # b => worker'[c] = worker[c]
  BY <1>1, WorkerGoesTo DEF QueueInv, Steps
<1>3. /\ DOMAIN future' = Requests /\ queue' \in [Batchers -> Seq(Nat)]
      /\ \A c \in Batchers : c # b => queue'[c] = queue[c]
      /\ \A r \in Requests : future'[r] = "dropped" => future[r] = "dropped"
  BY <1>1 DEF QueueInv, Shapes
<1>4. QED BY <1>1, <1>2, <1>3, BusyKeeps

\* A batch that got its results, or an error, drops no request.
LEMMA ResolvedDropsNone ==
  ASSUME NEW b, NEW how \in {"result", "error"}, Resolved(b, how)
  PROVE  /\ DOMAIN future' = Requests
         /\ \A r \in Requests : future'[r] = "dropped" => future[r] = "dropped"
BY DEF Resolved

LEMMA IdleAgain ==
  ASSUME QueueInv, NEW b \in Batchers, worker' = [worker EXCEPT ![b] = Idle]
  PROVE  /\ DOMAIN worker' = Batchers /\ \A c \in Batchers : WorkerShape(worker'[c])
         /\ worker'[b].step = "wait" /\ \A c \in Batchers : c # b => worker'[c] = worker[c]
<1>1. WorkerShape(Idle) /\ Idle.step = "wait"
  BY DEF Idle, WorkerShape, Steps
<1>2. QED BY <1>1, WorkerMoves DEF QueueInv

LEMMA ExecuteClosedKeeps ==
  ASSUME QueueInv, NEW b \in Batchers, ExecuteClosed(b)
  PROVE  QueueInv'
<1>1. /\ worker[b].step = "ready" /\ group[b] # Nil /\ lock' = Nil /\ Resolved(b, "error")
      /\ worker' = [worker EXCEPT ![b] = Idle]
      /\ UNCHANGED <<accepted, group, listed, queue, closer>>
  BY DEF ExecuteClosed, At
<1>2. /\ DOMAIN worker' = Batchers /\ \A c \in Batchers : WorkerShape(worker'[c])
      /\ worker'[b].step = "wait" /\ \A c \in Batchers : c # b => worker'[c] = worker[c]
  BY <1>1, IdleAgain
<1>3. /\ DOMAIN future' = Requests
      /\ \A r \in Requests : future'[r] = "dropped" => future[r] = "dropped"
  BY <1>1, ResolvedDropsNone
<1>4. queue' \in [Batchers -> Seq(Nat)] /\ \A c \in Batchers : c # b => queue'[c] = queue[c]
  BY <1>1 DEF QueueInv, Shapes
<1>5. QED BY <1>1, <1>2, <1>3, <1>4, BusyKeeps

LEMMA ExecutedKeeps ==
  ASSUME QueueInv, NEW b \in Batchers, Executed(b)
  PROVE  QueueInv'
<1>1. /\ worker[b].step = "execute" /\ group[b] # Nil /\ lock' = Nil
      /\ worker' = [worker EXCEPT ![b] = Idle]
      /\ UNCHANGED <<accepted, group, listed, queue, closer>>
  BY DEF Executed, At
<1>2. /\ DOMAIN worker' = Batchers /\ \A c \in Batchers : WorkerShape(worker'[c])
      /\ worker'[b].step = "wait" /\ \A c \in Batchers : c # b => worker'[c] = worker[c]
  BY <1>1, IdleAgain
<1>3. PICK how \in {"result", "error"} : Resolved(b, how)
  BY DEF Executed
<1>4. /\ DOMAIN future' = Requests
      /\ \A r \in Requests : future'[r] = "dropped" => future[r] = "dropped"
  BY <1>3, ResolvedDropsNone
<1>5. queue' \in [Batchers -> Seq(Nat)] /\ \A c \in Batchers : c # b => queue'[c] = queue[c]
  BY <1>1 DEF QueueInv, Shapes
<1>6. QED BY <1>1, <1>2, <1>4, <1>5, BusyKeeps

\* A thread ends at a batcher that was shut, with nothing left in its queue.
LEMMA ExitKeeps ==
  ASSUME QueueInv, NEW b \in Batchers, Exit(b)
  PROVE  QueueInv'
<1>1. /\ worker[b].step = "wait" /\ group[b] # Nil /\ Shut(b) /\ queue[b] = <<>>
      /\ Goto(b, "exit")
      /\ UNCHANGED <<accepted, future, group, listed, queue, lock, closer>>
  BY DEF Exit, At
<1>2. /\ DOMAIN worker' = Batchers /\ \A c \in Batchers : WorkerShape(worker'[c])
      /\ worker'[b].step = "exit" /\ \A c \in Batchers : c # b => worker'[c] = worker[c]
  BY <1>1, WorkerGoesTo DEF QueueInv, Steps
<1>3. Shapes' /\ Closing' = Closing
  BY <1>1, <1>2 DEF QueueInv, Shapes, WorkerShape, Closing
<1>4. UnlistedRest' /\ UncreatedWait' /\ GatherersBusy'
  BY <1>1, <1>2, <1>3 DEF QueueInv, UnlistedRest, UncreatedWait, GatherersBusy
<1>5. ExitsLast'
  BY <1>1, <1>2 DEF QueueInv, ExitsLast, Shut
<1>6. CloserWaited'
  <2>1. closer.shut \subseteq Batchers
    BY DEF QueueInv, Shapes
  <2>2. QED BY <1>1, <1>2, <1>3, <2>1 DEF QueueInv, CloserWaited
<1>7. LockHeld' /\ DroppedByClose'
  BY <1>1, <1>2, <1>3 DEF QueueInv, Shapes, LockHeld, DroppedByClose
<1>8. QED BY <1>3, <1>4, <1>5, <1>6, <1>7 DEF QueueInv

-----------------------------------------------------------------------------
(* The closer keeps the invariant                                          *)

LEMMA CloseStartKeeps ==
  ASSUME QueueInv, CloseStart
  PROVE  QueueInv'
<1>1. /\ ~Closing /\ closer' = [closer EXCEPT !.step = "closing"]
      /\ UNCHANGED <<accepted, future, group, listed, queue, worker, lock>>
  BY DEF CloseStart
<1>2. closer'.step = "closing" /\ closer'.joins = closer.joins /\ closer'.shut = closer.shut
  BY <1>1 DEF QueueInv, Shapes
<1>3. Shapes'
  BY <1>1 DEF QueueInv, Shapes, WorkerShape
<1>4. Closing'
  BY <1>2 DEF Closing
<1>5. UnlistedRest' /\ UncreatedWait' /\ GatherersBusy' /\ DroppedByClose' /\ LockHeld'
  BY <1>1, <1>4 DEF QueueInv, UnlistedRest, UncreatedWait, GatherersBusy, DroppedByClose, LockHeld
<1>6. ExitsLast' /\ CloserWaited'
  BY <1>1, <1>2, <1>4 DEF QueueInv, ExitsLast, CloserWaited, Shut
<1>7. QED BY <1>3, <1>5, <1>6 DEF QueueInv

\* One batcher is shut, its queue emptied, and the closer waits for its thread.
LEMMA CloseBatcherKeeps ==
  ASSUME QueueInv, NEW b \in Batchers, CloseBatcher(b)
  PROVE  QueueInv'
<1>1. /\ closer.step = "closing" /\ closer.joins = Nil
      /\ closer' = [closer EXCEPT !.joins = b, !.shut = @ \cup {b}]
      /\ future' = Dropped({b}) /\ queue' = Emptied({b})
      /\ UNCHANGED <<accepted, group, listed, worker, lock>>
  BY DEF CloseBatcher
<1>2. closer'.step = "closing" /\ closer'.joins = b /\ closer'.shut = closer.shut \cup {b}
  BY <1>1 DEF QueueInv, Shapes
<1>3. /\ queue' \in [Batchers -> Seq(Nat)] /\ queue'[b] = <<>>
      /\ \A c \in Batchers : c # b => queue'[c] = queue[c]
  <2>1. /\ queue' = [c \in Batchers |-> IF c \in {b} THEN <<>> ELSE queue[c]]
        /\ \A c \in Batchers : queue[c] \in Seq(Nat)
        /\ <<>> \in Seq(Nat)
    BY <1>1, EmptySeq DEF Emptied, QueueInv, Shapes
  <2>2. QED BY <2>1
<1>4. DOMAIN future' = Requests
  BY <1>1 DEF Dropped
<1>5. Shapes'
  <2>1. closer' \in [step : {"open", "closing", "closed"}, joins : Batchers \cup {Nil},
                      shut : SUBSET Batchers]
    BY <1>1 DEF QueueInv, Shapes
  <2>2. QED BY <1>1, <1>3, <1>4, <2>1 DEF QueueInv, Shapes, WorkerShape
<1>6. Closing /\ Closing'
  BY <1>1, <1>2 DEF Closing
<1>7. UnlistedRest' /\ UncreatedWait' /\ GatherersBusy' /\ DroppedByClose' /\ LockHeld'
  BY <1>1, <1>3, <1>6
     DEF QueueInv, UnlistedRest, UncreatedWait, GatherersBusy, DroppedByClose, LockHeld
<1>8. ExitsLast'
  BY <1>1, <1>2, <1>3 DEF QueueInv, ExitsLast, Shut
<1>10. CloserWaited'
  <2>1. closer.shut \subseteq Batchers
    BY DEF QueueInv, Shapes
  <2>2. \A c \in closer.shut : worker[c].step = "exit"
    BY <1>1, <2>1 DEF QueueInv, CloserWaited, Batchers
  <2>3. QED BY <1>1, <1>2, <1>6, <2>1, <2>2 DEF CloserWaited
<1>9. QED BY <1>5, <1>7, <1>8, <1>10 DEF QueueInv

\* The thread the closer waited for has ended; or it has waited for all.
LEMMA CloserGoesOn ==
  ASSUME QueueInv, (\E b \in Batchers : Join(b)) \/ CloseRest
  PROVE  QueueInv'
<1>1. /\ UNCHANGED <<accepted, future, group, listed, queue, worker, lock>>
      /\ closer' \in [step : {"open", "closing", "closed"}, joins : Batchers \cup {Nil},
                       shut : SUBSET Batchers]
      /\ closer'.shut = closer.shut /\ closer'.joins = Nil
      /\ (closer'.step = "open") = (closer.step = "open")
      /\ closer'.step = "closed" => listed \subseteq closer.shut
      /\ closer.joins = Nil \/ worker[closer.joins].step = "exit"
  <2>1. ASSUME NEW b \in Batchers, Join(b)
        PROVE  /\ closer' = [closer EXCEPT !.joins = Nil]
               /\ worker[closer.joins].step = "exit"
               /\ UNCHANGED <<accepted, future, group, listed, queue, worker, lock>>
    BY <2>1 DEF Join
  <2>2. ASSUME CloseRest
        PROVE  /\ closer' = [closer EXCEPT !.step = "closed"]
               /\ closer.joins = Nil /\ closer.step = "closing" /\ listed \subseteq closer.shut
               /\ UNCHANGED <<accepted, future, group, listed, queue, worker, lock>>
    BY <2>2 DEF CloseRest
  <2>3. QED BY <2>1, <2>2 DEF QueueInv, Shapes, CloserWaited
<1>2. Shapes' /\ Closing' = Closing
  BY <1>1 DEF QueueInv, Shapes, WorkerShape, Closing
<1>3. UnlistedRest' /\ UncreatedWait' /\ GatherersBusy' /\ DroppedByClose' /\ LockHeld'
  BY <1>1, <1>2
     DEF QueueInv, UnlistedRest, UncreatedWait, GatherersBusy, DroppedByClose, LockHeld
<1>4. ExitsLast' /\ CloserWaited'
  BY <1>1, <1>2 DEF QueueInv, ExitsLast, CloserWaited, Shut
<1>5. QED BY <1>2, <1>3, <1>4 DEF QueueInv

\* Time, and a step that changes nothing.
LEMMA TimeKeeps ==
  ASSUME QueueInv, Tick \/ UNCHANGED vars
  PROVE  QueueInv'
<1>1. UNCHANGED <<accepted, future, group, listed, queue, worker, lock, closer>>
  BY DEF Tick, vars
<1>2. QED
  BY <1>1 DEF QueueInv, Shapes, WorkerShape, UnlistedRest, UncreatedWait, GatherersBusy,
     ExitsLast, CloserWaited, LockHeld, DroppedByClose, Shut, Closing

-----------------------------------------------------------------------------
(* Sequences in increasing order                                           *)

Increasing(s) == \A i, j \in DOMAIN s : i < j => s[i] < s[j]

\* A position of a longer sequence is its last or one of the shorter.
LEMMA LastOrBefore ==
  ASSUME NEW k \in Nat, NEW j \in 1..(k + 1)
  PROVE  j = k + 1 \/ j \in 1..k
OBVIOUS

\* What is left of k when n were taken.
LEMMA CountAfter ==
  ASSUME NEW k \in Nat, NEW n \in Nat, n <= k
  PROVE  (IF n + 1 <= k THEN k - (n + 1) + 1 ELSE 0) = k - n
<1>1. CASE n + 1 <= k
  BY <1>1
<1>2. CASE n = k
  BY <1>2
<1>3. QED BY <1>1, <1>2

\* The next number is later than all before it.
LEMMA AppendInOrder ==
  ASSUME NEW m \in Nat, NEW s \in Seq(1..m), Increasing(s)
  PROVE  /\ Append(s, m + 1) \in Seq(1..(m + 1))
         /\ ToSet(Append(s, m + 1)) = ToSet(s) \cup {m + 1}
         /\ Increasing(Append(s, m + 1))
<1> DEFINE t == Append(s, m + 1)
<1>1. s \in Seq(1..(m + 1)) /\ Len(s) \in Nat /\ DOMAIN s = 1..Len(s)
  BY LenProperties
<1>2. /\ t \in Seq(1..(m + 1)) /\ Len(t) = Len(s) + 1 /\ t[Len(s) + 1] = m + 1
      /\ \A i \in 1..Len(s) : t[i] = s[i]
  BY <1>1, AppendProperties
<1>3. DOMAIN t = 1..(Len(s) + 1)
  BY <1>1, <1>2, LenProperties
<1> HIDE DEF t
<1>4. ToSet(t) = ToSet(s) \cup {m + 1}
  <2>1. \A i \in DOMAIN t : (i \in DOMAIN s /\ t[i] = s[i]) \/ t[i] = m + 1
    BY <1>1, <1>2, <1>3, LastOrBefore
  <2>2. \A i \in DOMAIN s : i \in DOMAIN t /\ t[i] = s[i]
    BY <1>1, <1>2, <1>3, SMTT(30)
  <2>3. Len(s) + 1 \in DOMAIN t
    BY <1>1, <1>3
  <2>4. QED BY <1>2, <2>1, <2>2, <2>3 DEF ToSet
<1>5. ASSUME NEW i \in 1..(Len(s) + 1), NEW j \in 1..(Len(s) + 1), i < j
      PROVE  t[i] < t[j]
  <2>1. i \in 1..Len(s)
    BY <1>1, <1>5
  <2>2. t[i] = s[i] /\ s[i] \in 1..m
    BY <1>2, <2>1, ElementOfSeq
  <2>7. t[i] \in Int /\ t[i] < m + 1
    <3>1. \A k \in 1..m : k \in Int /\ k < m + 1
      OBVIOUS
    <3>2. QED BY <2>2, <3>1
  <2>3. CASE j = Len(s) + 1
    <3>1. t[j] = m + 1
      BY <1>2, <2>3
    <3>2. QED BY <2>7, <3>1
  <2>4. CASE j \in 1..Len(s)
    <3>1. t[j] = s[j] /\ s[i] < s[j]
      BY <1>1, <1>2, <1>5, <2>1, <2>4 DEF Increasing
    <3>2. QED BY <2>2, <3>1
  <2>5. j = Len(s) + 1 \/ j \in 1..Len(s)
    BY <1>1, LastOrBefore
  <2>6. QED BY <2>3, <2>4, <2>5
<1>6. Increasing(t)
  BY <1>3, <1>5 DEF Increasing
<1>7. QED BY <1>2, <1>4, <1>6 DEF t

\* The first numbers are before those that remain.
LEMMA SplitInOrder ==
  ASSUME NEW m \in Nat, NEW s \in Seq(1..m), Increasing(s),
         NEW n \in Nat, n <= Len(s)
  PROVE  LET taken == SubSeq(s, 1, n)
             left == SubSeq(s, n + 1, Len(s))
         IN  /\ ToSet(taken) \subseteq ToSet(s) /\ ToSet(left) \subseteq ToSet(s)
             /\ left \in Seq(1..m) /\ Increasing(left)
             /\ \A r \in ToSet(taken), j \in DOMAIN left : r < left[j]
<1> DEFINE taken == SubSeq(s, 1, n)
           left == SubSeq(s, n + 1, Len(s))
<1>1. Len(s) \in Nat /\ DOMAIN s = 1..Len(s) /\ \A i \in 1..Len(s) : s[i] \in 1..m
  BY LenProperties, ElementOfSeq
<1>2. /\ DOMAIN taken = 1..n /\ \A i \in 1..n : i \in DOMAIN s /\ taken[i] = s[i]
  <2>1. \A i \in 1..n : s[i] \in 1..m /\ i \in DOMAIN s
    BY <1>1
  <2>2. /\ taken \in Seq(1..m) /\ Len(taken) = IF 1 <= n THEN n - 1 + 1 ELSE 0
        /\ \A i \in 1..(n - 1 + 1) : taken[i] = s[1 + i - 1]
    BY <2>1, SubSeqProperties
  <2>3. Len(taken) = n /\ \A i \in 1..n : taken[i] = s[i]
    BY <2>2
  <2>4. QED BY <2>1, <2>2, <2>3, LenProperties
<1>3. /\ left \in Seq(1..m) /\ DOMAIN left = 1..(Len(s) - n)
      /\ \A i \in 1..(Len(s) - n) : n + i \in DOMAIN s /\ left[i] = s[n + i]
  <2>1. \A i \in (n + 1)..Len(s) : s[i] \in 1..m
    BY <1>1
  <2>2. /\ left \in Seq(1..m)
        /\ Len(left) = IF n + 1 <= Len(s) THEN Len(s) - (n + 1) + 1 ELSE 0
        /\ \A i \in 1..(Len(s) - (n + 1) + 1) : left[i] = s[(n + 1) + i - 1]
    BY <1>1, <2>1, SubSeqProperties
  <2>3. Len(left) = Len(s) - n /\ \A i \in 1..(Len(s) - n) : left[i] = s[n + i]
    <3> DEFINE k == Len(s)
    <3>1. k \in Nat /\ Len(left) = (IF n + 1 <= k THEN k - (n + 1) + 1 ELSE 0)
          /\ \A i \in 1..(k - (n + 1) + 1) : left[i] = s[(n + 1) + i - 1]
      BY <1>1, <2>2
    <3>2. n <= k
      OBVIOUS
    <3> HIDE DEF k
    <3>3. /\ k - (n + 1) + 1 = k - n
          /\ \A i \in 1..(k - n) : (n + 1) + i - 1 = n + i
      BY <3>1
    <3>4. Len(left) = k - n
      BY <3>1, <3>2, CountAfter
    <3>5. \A i \in 1..(k - n) : left[i] = s[n + i]
      BY <3>1, <3>3
    <3>6. QED BY <3>4, <3>5 DEF k
  <2>4. \A i \in 1..(Len(s) - n) : n + i \in DOMAIN s
    BY <1>1
  <2>5. QED BY <2>2, <2>3, <2>4, LenProperties
<1> HIDE DEF taken, left
<1>4. ToSet(taken) \subseteq ToSet(s) /\ ToSet(left) \subseteq ToSet(s)
  BY <1>2, <1>3 DEF ToSet
<1>5. ASSUME NEW i \in 1..(Len(s) - n), NEW j \in 1..(Len(s) - n), i < j
      PROVE  left[i] < left[j]
  <2>1. n + i < n + j
    BY <1>1, <1>5
  <2>2. n + i \in DOMAIN s /\ n + j \in DOMAIN s
    BY <1>3
  <2>3. s[n + i] < s[n + j]
    BY <2>1, <2>2 DEF Increasing
  <2>4. QED BY <1>3, <2>3
<1>6. ASSUME NEW i \in 1..n, NEW j \in 1..(Len(s) - n)
      PROVE  taken[i] < left[j]
  <2>1. i < n + j
    BY <1>1
  <2>2. i \in DOMAIN s /\ n + j \in DOMAIN s
    BY <1>2, <1>3
  <2>3. s[i] < s[n + j]
    BY <2>1, <2>2 DEF Increasing
  <2>4. QED BY <1>2, <1>3, <2>3
<1>7. \A r \in ToSet(taken), j \in DOMAIN left : r < left[j]
  BY <1>2, <1>3, <1>6, SMTT(30) DEF ToSet
<1>8. Increasing(left)
  BY <1>3, <1>5 DEF Increasing
<1>9. QED BY <1>3, <1>4, <1>7, <1>8 DEF taken, left

-----------------------------------------------------------------------------
(* What queues and batches hold                                            *)

Held(b) == worker[b].batch \cup ToSet(queue[b])

\* Only accepted requests are held, each by one batcher.
HeldAccepted ==
  /\ accepted \in 0..NRequests
  /\ \A b \in Batchers : worker[b].batch \subseteq 1..accepted /\ queue[b] \in Seq(1..accepted)
HeldOnce ==
  \A b, c \in Batchers : b # c => Held(b) \cap Held(c) = {}

BatchInv ==
  /\ QueueInv /\ HeldAccepted /\ HeldOnce /\ NoOvertaking /\ ResolvesOnlyRunning

\* The futures that b's worker is to resolve.
Resolving(b) == IF worker[b].step \in {"ready", "execute"} THEN worker[b].batch ELSE {}

LEMMA RunningAre ==
  ResolvesOnlyRunning <=>
    \A r \in Requests : future[r] = "running" <=> \E b \in Batchers : r \in Resolving(b)
BY DEF ResolvesOnlyRunning, Resolving

LEMMA BatchesBegin == Init => BatchInv
<1> SUFFICES ASSUME Init PROVE BatchInv
  OBVIOUS
<1>1. QueueInv
  BY ServiceBegins
<1>2. HeldAccepted
  BY EmptySeq DEF Init, Idle, HeldAccepted
<1>3. \A b \in Batchers : Held(b) = {}
  BY DEF Init, Idle, Held, ToSet
<1>4. HeldOnce
  BY <1>3 DEF HeldOnce
<1>5. NoOvertaking /\ ResolvesOnlyRunning
  BY DEF Init, Idle, NoOvertaking, ResolvesOnlyRunning
<1>6. QED BY <1>1, <1>2, <1>4, <1>5 DEF BatchInv

\* A step by which nothing new is held, in queue or batch, disturbs no order.
LEMMA OrderKept ==
  ASSUME BatchInv, accepted' = accepted,
         \A c \in Batchers : worker'[c].batch \subseteq worker[c].batch,
         \A c \in Batchers : queue'[c] = queue[c] \/ queue'[c] = <<>>
  PROVE  HeldAccepted' /\ HeldOnce' /\ NoOvertaking'
<1>1. HeldAccepted'
  BY EmptySeq DEF BatchInv, HeldAccepted
<1>2. \A c \in Batchers : Held(c)' \subseteq Held(c)
  BY DEF Held, ToSet
<1>3. HeldOnce'
  BY <1>2 DEF BatchInv, HeldOnce
<1>4. NoOvertaking'
  BY DEF BatchInv, NoOvertaking
<1>5. QED BY <1>1, <1>3, <1>4

\* A step by which no future begins or ceases to run.
LEMMA RunningKept ==
  ASSUME BatchInv,
         \A r \in Requests : future'[r] = "running" <=> future[r] = "running",
         \A c \in Batchers : Resolving(c)' = Resolving(c)
  PROVE  ResolvesOnlyRunning'
<1>1. \A r \in Requests : future'[r] = "running" <=> \E c \in Batchers : r \in Resolving(c)'
  BY RunningAre DEF BatchInv
<1>2. QED BY <1>1 DEF ResolvesOnlyRunning, Resolving

\* The request that joins a queue is later than all that are held.
LEMMA EnqueueOrders ==
  ASSUME BatchInv, NEW b \in Batchers, NEW gone \in SUBSET Batchers,
         \A a \in gone : queue[a] = <<>>, Enqueue(b, gone), worker' = worker
  PROVE  HeldAccepted' /\ HeldOnce' /\ NoOvertaking' /\ ResolvesOnlyRunning'
<1> DEFINE r == accepted + 1
<1>1. /\ accepted < NRequests /\ accepted' = r
      /\ future' = [Dropped(gone) EXCEPT ![r] = "pending"]
      /\ queue' = [Emptied(gone) EXCEPT ![b] = Append(Emptied(gone)[b], r)]
  BY DEF Enqueue, Joined
<1>2. accepted \in Nat /\ r \in Requests /\ NRequests \in Nat
  BY <1>1 DEF BatchInv, HeldAccepted, Requests
<1>3. /\ queue'[b] = Append(queue[b], r)
      /\ \A c \in Batchers : c # b => queue'[c] = queue[c]
  BY <1>1 DEF Emptied, Batchers
<1>4. ASSUME NEW c \in Batchers
      PROVE  /\ queue[c] \in Seq(1..accepted) /\ worker[c].batch \subseteq 1..accepted
             /\ queue[c] \in Seq(1..r) /\ worker[c].batch \subseteq 1..r
             /\ Increasing(queue[c])
  <2>1. queue[c] \in Seq(1..accepted) /\ worker[c].batch \subseteq 1..accepted
    BY DEF BatchInv, HeldAccepted
  <2>2. 1..accepted \subseteq 1..r
    BY <1>2
  <2>3. queue[c] \in Seq(1..r)
    <3> DEFINE S == 1..accepted
               T == 1..r
    <3>1. S \subseteq T /\ queue[c] \in Seq(S)
      BY <2>1, <2>2
    <3> HIDE DEF S, T
    <3>2. queue[c] \in Seq(T)
      BY <3>1, SeqMonotonic
    <3>3. QED BY <3>2 DEF T
  <2>4. Increasing(queue[c])
    BY DEF BatchInv, NoOvertaking, Increasing
  <2>5. QED BY <2>1, <2>2, <2>3, <2>4
<1>5. /\ queue'[b] \in Seq(1..r) /\ ToSet(queue'[b]) = ToSet(queue[b]) \cup {r}
      /\ Increasing(queue'[b])
  BY <1>2, <1>3, <1>4, AppendInOrder, SMTT(30)
<1>6. HeldAccepted'
  <2>1. accepted' \in 0..NRequests
    BY <1>1, <1>2
  <2>2. \A c \in Batchers : worker'[c].batch \subseteq 1..accepted' /\ queue'[c] \in Seq(1..accepted')
    BY <1>1, <1>3, <1>4, <1>5
  <2>3. QED BY <2>1, <2>2 DEF HeldAccepted
<1>7. \A c \in Batchers : \A q \in Held(c) : q \in 1..accepted
  <2>1. \A c \in Batchers : \A i \in DOMAIN queue[c] : queue[c][i] \in 1..accepted
    BY <1>4, ElementOfSeq, LenProperties, ZenonT(60)
  <2>2. QED BY <1>4, <2>1 DEF Held, ToSet
<1>8. HeldOnce'
  <2>1. Held(b)' = Held(b) \cup {r}
    BY <1>5 DEF Held
  <2>2. \A c \in Batchers : c # b => Held(c)' = Held(c)
    BY <1>3 DEF Held
  <2>3. \A c \in Batchers : r \notin Held(c)
    BY <1>2, <1>7
  <2>4. QED BY <2>1, <2>2, <2>3 DEF BatchInv, HeldOnce
<1>9. NoOvertaking'
  <2>1. \A q \in worker[b].batch, j \in DOMAIN queue'[b] : q < queue'[b][j]
    <3>1. \A q \in worker[b].batch : \A x \in ToSet(queue[b]) : q < x
      BY DEF BatchInv, NoOvertaking, ToSet
    <3>2. \A q \in worker[b].batch : q < r
      BY <1>2, <1>4
    <3>3. \A j \in DOMAIN queue'[b] : queue'[b][j] \in ToSet(queue[b]) \cup {r}
      BY <1>5 DEF ToSet
    <3>4. QED BY <3>1, <3>2, <3>3
  <2>2. QED BY <1>3, <1>5, <2>1 DEF BatchInv, NoOvertaking, Increasing
<1>10. ResolvesOnlyRunning'
  <2>1. \A q \in Requests : future'[q] = IF q = r THEN "pending" ELSE future[q]
    BY <1>1, <1>2, NothingDropped DEF Dropped
  <2>2. \A c \in Batchers : r \notin Resolving(c)
    BY <1>2, <1>7 DEF Resolving, Held
  <2>3. future[r] # "running"
    BY <1>2, <2>2, RunningAre DEF BatchInv
  <2>4. QED BY <2>1, <2>3, RunningKept DEF Resolving
<1>11. QED BY <1>6, <1>8, <1>9, <1>10

LEMMA SubmitOrders ==
  ASSUME BatchInv, NEW b \in Batchers,
         Submit(b) \/ \E g \in Groups : SubmitFirst(b, g)
  PROVE  BatchInv'
<1>1. CASE Submit(b)
  <2>1. Enqueue(b, {}) /\ worker' = worker
    BY <1>1 DEF Submit
  <2>2. QED BY <1>1, <2>1, SubmitKeeps, EnqueueOrders DEF BatchInv
<1>2. ASSUME NEW g \in Groups, SubmitFirst(b, g) PROVE BatchInv'
  <2>1. PICK gone \in SUBSET listed : Evicted(gone) /\ Enqueue(b, gone)
    BY <1>2 DEF SubmitFirst
  <2>2. worker' = worker /\ QueueInv'
    BY <1>2, SubmitFirstKeeps DEF SubmitFirst, BatchInv
  <2>3. gone \in SUBSET Batchers /\ \A a \in gone : queue[a] = <<>>
    BY <2>1 DEF Evicted, IsIdle, BatchInv, QueueInv, Shapes
  <2>4. QED BY <2>1, <2>2, <2>3, EnqueueOrders DEF BatchInv
<1>3. QED BY <1>1, <1>2

\* A cancellation reaches no future that runs.
LEMMA CallOrders ==
  ASSUME BatchInv, NEW r \in Requests, Call(r)
  PROVE  BatchInv'
<1>1. UNCHANGED <<accepted, queue, worker>>
  BY DEF Call, Finish, Cancel
<1>2. \A q \in Requests : future'[q] = "running" <=> future[q] = "running"
  BY DEF Call, Finish, Cancel, BatchInv, QueueInv, Shapes
<1>3. HeldAccepted' /\ HeldOnce' /\ NoOvertaking'
  BY <1>1, OrderKept
<1>4. ResolvesOnlyRunning'
  BY <1>1, <1>2, RunningKept DEF Resolving
<1>5. QED BY <1>3, <1>4, CallKeeps DEF BatchInv

\* What is taken from a queue is earlier than what stays.
LEMMA TakeOrders ==
  ASSUME BatchInv, NEW b \in Batchers, Take(b)
  PROVE  BatchInv'
<1> DEFINE n == Least(worker[b].target, Len(queue[b]))
           taken == SubSeq(queue[b], 1, n)
           left == SubSeq(queue[b], n + 1, Len(queue[b]))
<1>1. /\ worker[b].step = "gather" /\ UNCHANGED <<accepted, future>>
      /\ worker' = [worker EXCEPT ![b] = [Idle EXCEPT !.step = "check", !.batch = ToSet(taken)]]
      /\ queue' = [queue EXCEPT ![b] = left]
  BY DEF Take, At
<1>2. /\ queue[b] \in Seq(1..accepted) /\ queue[b] \in Seq(Nat) /\ worker[b].target \in Nat
      /\ DOMAIN worker = Batchers /\ DOMAIN queue = Batchers
  BY DEF BatchInv, HeldAccepted, QueueInv, Shapes, WorkerShape
<1>3. n \in Nat /\ n <= Len(queue[b])
  BY <1>2, LenProperties, LeastBounds
<1>4. Increasing(queue[b]) /\ accepted \in Nat
  BY DEF BatchInv, NoOvertaking, HeldAccepted, Increasing
<1> HIDE DEF n
<1>5. /\ ToSet(taken) \subseteq ToSet(queue[b]) /\ ToSet(left) \subseteq ToSet(queue[b])
      /\ left \in Seq(1..accepted) /\ Increasing(left)
      /\ \A r \in ToSet(taken), j \in DOMAIN left : r < left[j]
  BY <1>2, <1>3, <1>4, SplitInOrder
<1>6. ToSet(queue[b]) \subseteq 1..accepted
  <2>1. DOMAIN queue[b] = 1..Len(queue[b])
    BY <1>2, LenProperties
  <2>2. \A i \in 1..Len(queue[b]) : queue[b][i] \in 1..accepted
    BY <1>2, ElementOfSeq
  <2>3. QED BY <2>1, <2>2 DEF ToSet
<1> HIDE DEF taken, left
<1>7. /\ worker'[b].step = "check" /\ worker'[b].batch = ToSet(taken) /\ queue'[b] = left
      /\ \A c \in Batchers : c # b => worker'[c] = worker[c] /\ queue'[c] = queue[c]
  BY <1>1, <1>2 DEF Idle
<1>8. HeldAccepted'
  BY <1>1, <1>5, <1>6, <1>7 DEF BatchInv, HeldAccepted
<1>9. HeldOnce'
  <2>1. Held(b)' \subseteq Held(b)
    BY <1>5, <1>7 DEF Held
  <2>2. \A c \in Batchers : c # b => Held(c)' = Held(c)
    BY <1>7 DEF Held
  <2>3. QED BY <2>1, <2>2 DEF BatchInv, HeldOnce
<1>10. NoOvertaking'
  BY <1>5, <1>7 DEF BatchInv, NoOvertaking, Increasing
<1>11. ResolvesOnlyRunning'
  <2>1. \A c \in Batchers : Resolving(c)' = Resolving(c)
    BY <1>1, <1>7 DEF Resolving
  <2>2. QED BY <1>1, <2>1, RunningKept
<1>12. QED BY <1>8, <1>9, <1>10, <1>11, TakeKeeps DEF BatchInv

\* Exactly what stays in the batch begins to run.
LEMMA CheckOrders ==
  ASSUME BatchInv, NEW b \in Batchers, Check(b)
  PROVE  BatchInv'
<1> DEFINE live == {r \in worker[b].batch : future[r] # "cancelled" /\ ~Expired(r)}
<1>1. /\ worker[b].step = "check" /\ UNCHANGED <<accepted, queue>>
      /\ worker'[b].step = (IF live = {} THEN "wait" ELSE "ready") /\ worker'[b].batch = live
      /\ \A c \in Batchers : c # b => worker'[c] = worker[c]
      /\ future' = [r \in Requests |-> IF r \in worker[b].batch THEN Running(r) ELSE future[r]]
  BY DEF Check, At, BatchInv, QueueInv, Shapes, WorkerShape, Idle
<1>2. Resolving(b)' = live /\ \A c \in Batchers : c # b => Resolving(c)' = Resolving(c)
  BY <1>1 DEF Resolving
<1>3. \A r \in Requests :
        future'[r] = "running" <=>
          r \in live \/ (r \notin worker[b].batch /\ future[r] = "running")
  <2>1. \A r \in Requests :
          Running(r) = "running" <=> future[r] # "cancelled" /\ ~Expired(r)
    BY DEF Running
  <2>2. QED BY <1>1, <2>1
<1>4. \A r \in worker[b].batch : \A c \in Batchers : c # b => r \notin Resolving(c)
  BY DEF BatchInv, HeldOnce, Held, Resolving
<1>5. Resolving(b) = {}
  BY <1>1 DEF Resolving
<1>6. \A r \in Requests : future'[r] = "running" <=> \E c \in Batchers : r \in Resolving(c)'
  BY <1>2, <1>3, <1>4, <1>5, RunningAre DEF BatchInv
<1>7. ResolvesOnlyRunning'
  BY <1>6 DEF ResolvesOnlyRunning, Resolving
<1>8. HeldAccepted' /\ HeldOnce' /\ NoOvertaking'
  BY <1>1, OrderKept
<1>9. QED BY <1>7, <1>8, CheckKeeps DEF BatchInv

\* The whole batch is resolved and given up.
LEMMA ResolvedOrders ==
  ASSUME BatchInv, NEW b \in Batchers, NEW how \in {"result", "error"}, Resolved(b, how),
         worker[b].step \in {"ready", "execute"},
         worker' = [worker EXCEPT ![b] = Idle], UNCHANGED <<accepted, queue>>, QueueInv'
  PROVE  BatchInv'
<1>1. /\ worker'[b] = Idle /\ \A c \in Batchers : c # b => worker'[c] = worker[c]
  BY DEF BatchInv, QueueInv, Shapes
<1>2. Resolving(b)' = {} /\ \A c \in Batchers : c # b => Resolving(c)' = Resolving(c)
  BY <1>1 DEF Resolving, Idle
<1>3. Resolving(b) = worker[b].batch
  BY DEF Resolving
<1>4. \A r \in worker[b].batch : \A c \in Batchers : c # b => r \notin Resolving(c)
  BY DEF BatchInv, HeldOnce, Held, Resolving
<1>5. \A r \in Requests :
        future'[r] = "running" <=> r \notin worker[b].batch /\ future[r] = "running"
  BY DEF Resolved
<1>6. \A r \in Requests : future'[r] = "running" <=> \E c \in Batchers : r \in Resolving(c)'
  BY <1>2, <1>3, <1>4, <1>5, RunningAre DEF BatchInv
<1>7. ResolvesOnlyRunning'
  BY <1>6 DEF ResolvesOnlyRunning, Resolving
<1>8. HeldAccepted' /\ HeldOnce' /\ NoOvertaking'
  <2>1. \A c \in Batchers : worker'[c].batch \subseteq worker[c].batch
    BY <1>1 DEF Idle
  <2>2. QED BY <2>1, OrderKept
<1>9. QED BY <1>7, <1>8 DEF BatchInv

\* A worker that gathers, executes or exits has the batch it had, or none yet.
LEMMA WorkerOrders ==
  ASSUME BatchInv, NEW b \in Batchers, Gather(b) \/ Execute(b) \/ Exit(b)
  PROVE  BatchInv'
<1>1. /\ UNCHANGED <<accepted, queue, future>>
      /\ \A c \in Batchers : c # b => worker'[c] = worker[c]
  BY DEF Gather, Execute, Exit, Goto, BatchInv, QueueInv, Shapes
<1>2. /\ DOMAIN worker = Batchers /\ WorkerShape(worker[b])
  BY DEF BatchInv, QueueInv, Shapes
<1>5. worker'[b].batch \subseteq worker[b].batch /\ Resolving(b)' = Resolving(b)
  <2>1. CASE Gather(b)
    BY <1>2, <2>1 DEF Gather, At, Resolving
  <2>2. CASE Execute(b)
    BY <1>2, <2>2 DEF Execute, Goto, At, WorkerShape, Idle, Resolving
  <2>3. CASE Exit(b)
    BY <1>2, <2>3 DEF Exit, Goto, At, WorkerShape, Idle, Resolving
  <2>4. QED BY <2>1, <2>2, <2>3
<1>3. HeldAccepted' /\ HeldOnce' /\ NoOvertaking'
  BY <1>1, <1>5, OrderKept
<1>4. ResolvesOnlyRunning'
  BY <1>1, <1>5, RunningKept DEF Resolving
<1>6. QED BY <1>3, <1>4, GatherKeeps, ExecuteKeeps, ExitKeeps DEF BatchInv

LEMMA WorkOrders ==
  ASSUME BatchInv, NEW b \in Batchers, Work(b)
  PROVE  BatchInv'
<1>1. CASE ExecuteClosed(b)
  <2>1. QueueInv'
    BY <1>1, ExecuteClosedKeeps DEF BatchInv
  <2>2. QED BY <1>1, <2>1, ResolvedOrders DEF ExecuteClosed, At
<1>2. CASE Executed(b)
  <2>1. QueueInv'
    BY <1>2, ExecutedKeeps DEF BatchInv
  <2>2. QED BY <1>2, <2>1, ResolvedOrders DEF Executed, At
<1>3. QED BY <1>1, <1>2, TakeOrders, CheckOrders, WorkerOrders DEF Work

\* What waits in a queue does not run, so that closing drops nothing that does.
LEMMA CloseOrders ==
  ASSUME BatchInv, CloseService
  PROVE  BatchInv'
<1>1. /\ accepted' = accepted /\ worker' = worker
      /\ \/ UNCHANGED <<queue, future>>
         \/ \E b \in Batchers : queue' = Emptied({b}) /\ future' = Dropped({b})
  <2>1. ASSUME CloseStart \/ CloseRest PROVE UNCHANGED <<accepted, worker, queue, future>>
    BY <2>1 DEF CloseStart, CloseRest
  <2>2. ASSUME NEW b \in Batchers, Join(b) PROVE UNCHANGED <<accepted, worker, queue, future>>
    BY <2>2 DEF Join
  <2>3. ASSUME NEW b \in Batchers, CloseBatcher(b)
        PROVE  /\ UNCHANGED <<accepted, worker>>
               /\ queue' = Emptied({b}) /\ future' = Dropped({b})
    BY <2>3 DEF CloseBatcher
  <2>4. QED BY <2>1, <2>2, <2>3 DEF CloseService
<1>2. \A c \in Batchers : queue'[c] = queue[c] \/ queue'[c] = <<>>
  BY <1>1 DEF Emptied
<1>3. \A r \in Requests : future'[r] = "running" <=> future[r] = "running"
  BY <1>1 DEF Dropped
<1>4. HeldAccepted' /\ HeldOnce' /\ NoOvertaking'
  BY <1>1, <1>2, OrderKept
<1>5. ResolvesOnlyRunning'
  BY <1>1, <1>3, RunningKept DEF Resolving
<1>6. QueueInv'
  BY CloseStartKeeps, CloseBatcherKeeps, CloserGoesOn DEF CloseService, BatchInv
<1>7. QED BY <1>4, <1>5, <1>6 DEF BatchInv

LEMMA TimeOrders ==
  ASSUME BatchInv, Tick \/ UNCHANGED vars
  PROVE  BatchInv'
<1>1. UNCHANGED <<accepted, future, queue, worker>>
  BY DEF Tick, vars
<1>2. HeldAccepted' /\ HeldOnce' /\ NoOvertaking'
  BY <1>1, OrderKept
<1>3. ResolvesOnlyRunning'
  BY <1>1, RunningKept DEF Resolving
<1>4. QED BY <1>2, <1>3, TimeKeeps DEF BatchInv

LEMMA StepOrders == BatchInv /\ [Next]_vars => BatchInv'
BY SubmitOrders, WorkOrders, CallOrders, CloseOrders, TimeOrders DEF Next

-----------------------------------------------------------------------------
(* The theorems                                                            *)

LEMMA StepKeeps == QueueInv /\ [Next]_vars => QueueInv'
<1> SUFFICES ASSUME QueueInv, [Next]_vars PROVE QueueInv'
  OBVIOUS
<1>1. ASSUME NEW b \in Batchers, Work(b) PROVE QueueInv'
  BY <1>1, GatherKeeps, TakeKeeps, CheckKeeps, ExecuteKeeps, ExecuteClosedKeeps,
     ExecutedKeeps, ExitKeeps DEF Work
<1>2. ASSUME CloseService PROVE QueueInv'
  BY <1>2, CloseStartKeeps, CloseBatcherKeeps, CloserGoesOn DEF CloseService
<1>3. QED
  BY <1>1, <1>2, SubmitKeeps, SubmitFirstKeeps, CallKeeps, TimeKeeps DEF Next

\* microbatch.py and service.py: batchers that are not listed rest, threads end
\* with empty queues, and close waits for every thread it shuts.
THEOREM QueueInvariance == Spec => []QueueInv
<1>1. Init => QueueInv
  BY ServiceBegins
<1>2. QueueInv /\ [Next]_vars => QueueInv'
  BY StepKeeps
<1>3. QED BY <1>1, <1>2, PTL DEF Spec

\* service.py: close ends every execution before it closes what they use, and no
\* request is dropped before the service is closed.
THEOREM ClosingIsClean == Spec => []CloseIsClean
BY QueueInvariance, InvariantIsClean, PTL

\* microbatch.py: only accepted requests are held, each by one batcher, in the
\* order of their arrival, and exactly those about to be answered are running.
THEOREM BatchInvariance == Spec => []BatchInv
<1>1. Init => BatchInv
  BY BatchesBegin
<1>2. BatchInv /\ [Next]_vars => BatchInv'
  BY StepOrders
<1>3. QED BY <1>1, <1>2, PTL DEF Spec

\* microbatch.py: a worker resolves the futures that are running and no others,
\* so that set_result never raises in its thread.
THEOREM ResolvingIsSafe == Spec => []ResolvesOnlyRunning
<1>1. BatchInv => ResolvesOnlyRunning
  BY DEF BatchInv
<1>2. QED BY <1>1, BatchInvariance, PTL

\* microbatch.py: requests of one batcher are taken in the order of arrival.
THEOREM OrderIsKept == Spec => []NoOvertaking
<1>1. BatchInv => NoOvertaking
  BY DEF BatchInv
<1>2. QED BY <1>1, BatchInvariance, PTL

-----------------------------------------------------------------------------
(* Types and bounds                                                        *)

Answers == {"cancelled", "dropped", "expired", "result", "error"}

TimesTyped ==
  clock \in Time /\ arrived \in [Requests -> Time] /\ deadline \in [Requests -> Time]
FuturesTyped ==
  /\ future \in [Requests -> Unresolved \cup Answers]
  /\ output \in [Requests -> {"none", "pending"} \cup Answers]
GroupsBounded ==
  (\A b \in listed : group[b] # Nil) /\ Cardinality(listed) <= MaxGroups
QueuesBounded == \A b \in Batchers : Len(queue[b]) <= MaxPending
BatchBounded(w) ==
  IsFiniteSet(w.batch) /\ Cardinality(w.batch) <= MaxBatch
    /\ w.target \in 0..MaxBatch /\ w.stop \in Nat
BatchesBounded == \A b \in Batchers : BatchBounded(worker[b])

BoundsInv ==
  /\ BatchInv /\ TimesTyped /\ FuturesTyped /\ GroupsBounded
  /\ QueuesBounded /\ BatchesBounded

LEMMA BoundsAreTypes == BoundsInv => TypeOK
BY DEF BoundsInv, BatchInv, QueueInv, Shapes, HeldAccepted, TimesTyped, FuturesTyped, Answers,
   GroupsBounded, QueuesBounded, BatchesBounded, BatchBounded, WorkerShape, Steps, TypeOK

LEMMA NothingIsBounded == BatchBounded(Idle)
BY FS_EmptySet DEF BatchBounded, Idle

LEMMA BoundsBegin == Init => BoundsInv
<1> SUFFICES ASSUME Init PROVE BoundsInv
  OBVIOUS
<1>1. BatchInv
  BY BatchesBegin
<1>2. TimesTyped /\ FuturesTyped
  BY DEF Init, TimesTyped, FuturesTyped, Unresolved, Time
<1>3. GroupsBounded
  BY FS_EmptySet DEF Init, GroupsBounded
<1>4. QueuesBounded
  BY DEF Init, QueuesBounded
<1>5. BatchesBounded
  BY NothingIsBounded DEF Init, BatchesBounded
<1>6. QED BY <1>1, <1>2, <1>3, <1>4, <1>5 DEF BoundsInv

\* Submitting stamps the request with a time that is not past MaxTime.
LEMMA EnqueueTypes ==
  ASSUME BoundsInv, NEW b \in Batchers, NEW gone \in SUBSET Batchers, Enqueue(b, gone),
         clock' = clock
  PROVE  TimesTyped' /\ FuturesTyped'
<1> DEFINE r == accepted + 1
<1>1. /\ arrived' = [arrived EXCEPT ![r] = clock]
      /\ \E t \in Time : deadline' = [deadline EXCEPT ![r] = t]
      /\ future' = [Dropped(gone) EXCEPT ![r] = "pending"]
      /\ output' = [output EXCEPT ![r] = "pending"]
  BY DEF Enqueue, Deadlines
<1>2. Dropped(gone) \in [Requests -> Unresolved \cup Answers]
  BY DEF Dropped, Answers, BoundsInv, FuturesTyped
<1>3. "pending" \in Unresolved
  BY DEF Unresolved
<1>4. TimesTyped'
  BY <1>1 DEF BoundsInv, TimesTyped
<1>5. FuturesTyped'
  BY <1>1, <1>2, <1>3 DEF BoundsInv, FuturesTyped
<1>6. QED BY <1>4, <1>5

\* There was room for the request, and closed queues are empty.
LEMMA EnqueueBounds ==
  ASSUME BoundsInv, NEW b \in Batchers, NEW gone \in SUBSET Batchers, Enqueue(b, gone)
  PROVE  QueuesBounded'
<1> DEFINE r == accepted + 1
           q == Emptied(gone)
<1>1. /\ Len(queue[b]) < MaxPending /\ queue' = [q EXCEPT ![b] = Append(q[b], r)]
  BY DEF Enqueue, HasRoom, Joined
<1>2. /\ \A a \in Batchers : q[a] = queue[a] \/ q[a] = <<>>
      /\ DOMAIN q = Batchers
  BY DEF Emptied
<1>3. /\ \A a \in Batchers : q[a] \in Seq(Nat) /\ Len(q[a]) <= MaxPending
      /\ Len(q[b]) < MaxPending
  <2>1. MaxPending \in Nat /\ 0 < MaxPending
    BY QueueAssumption
  <2>2. \A a \in Batchers : queue[a] \in Seq(Nat) /\ Len(queue[a]) <= MaxPending
    BY DEF BoundsInv, BatchInv, QueueInv, Shapes, QueuesBounded
  <2>3. <<>> \in Seq(Nat) /\ Len(<<>>) = 0
    BY EmptySeq
  <2> HIDE DEF q
  <2>4. ASSUME NEW a \in Batchers PROVE q[a] \in Seq(Nat) /\ Len(q[a]) <= MaxPending
    <3>1. CASE q[a] = queue[a]
      BY <2>2, <3>1
    <3>2. CASE q[a] = <<>>
      <4>1. Len(q[a]) = 0
        BY <2>3, <3>2
      <4>2. QED BY <2>1, <2>3, <3>2, <4>1
    <3>3. QED BY <1>2, <3>1, <3>2
  <2>5. Len(q[b]) < MaxPending
    BY <1>1, <1>2, <2>1, <2>3
  <2>6. QED BY <2>4, <2>5
<1>4. r \in Nat
  BY DEF BoundsInv, BatchInv, HeldAccepted
<1> HIDE DEF q, r
<1>5. Len(Append(q[b], r)) <= MaxPending
  <2>1. Len(Append(q[b], r)) = Len(q[b]) + 1 /\ Len(q[b]) \in Nat
    BY <1>3, <1>4, AppendProperties, LenProperties
  <2>2. QED BY <1>3, <2>1
<1>6. QED BY <1>1, <1>2, <1>3, <1>5 DEF QueuesBounded

LEMMA SubmitBounds ==
  ASSUME BoundsInv, NEW b \in Batchers, Submit(b)
  PROVE  BoundsInv'
<1>1. Enqueue(b, {}) /\ UNCHANGED <<clock, group, listed, worker>>
  BY DEF Submit
<1>2. TimesTyped' /\ FuturesTyped' /\ QueuesBounded'
  BY <1>1, EnqueueTypes, EnqueueBounds
<1>3. GroupsBounded' /\ BatchesBounded'
  BY <1>1 DEF BoundsInv, GroupsBounded, BatchesBounded, BatchBounded
<1>4. QED BY <1>2, <1>3, SubmitOrders DEF BoundsInv

\* A batcher is created while fewer than MaxGroups are listed, or for another.
LEMMA SubmitFirstBounds ==
  ASSUME BoundsInv, NEW b \in Batchers, NEW g \in Groups, SubmitFirst(b, g)
  PROVE  BoundsInv'
<1>1. PICK gone \in SUBSET listed :
        /\ Evicted(gone) /\ listed' = (listed \ gone) \cup {b} /\ Enqueue(b, gone)
  BY DEF SubmitFirst
<1>2. group' = [group EXCEPT ![b] = g] /\ UNCHANGED <<clock, worker>>
  BY DEF SubmitFirst
<1>3. gone \in SUBSET Batchers /\ listed \subseteq Batchers
  BY DEF BoundsInv, BatchInv, QueueInv, Shapes
<1>4. TimesTyped' /\ FuturesTyped' /\ QueuesBounded'
  BY <1>1, <1>2, <1>3, EnqueueTypes, EnqueueBounds
<1>5. IsFiniteSet(listed)
  <2>1. IsFiniteSet(1..NBatchers)
    BY FS_Interval
  <2>2. QED BY <1>3, <2>1, FS_Subset DEF Batchers
<1>6. Cardinality(listed') <= MaxGroups
  <2>1. IsFiniteSet(listed \ gone) /\ Cardinality(listed \ gone) < MaxGroups
    <3>1. CASE Cardinality(listed) < MaxGroups
      <4>1. gone = {}
        BY <1>1, <3>1 DEF Evicted
      <4>2. listed \ gone = listed
        BY <4>1
      <4>3. QED BY <3>1, <4>2, <1>5
    <3>2. CASE ~(Cardinality(listed) < MaxGroups)
      <4>1. PICK a \in listed : gone = {a}
        BY <1>1, <3>2 DEF Evicted
      <4>2. IsFiniteSet(listed \ {a}) /\ Cardinality(listed \ {a}) = Cardinality(listed) - 1
        BY <1>5, FS_RemoveElement
      <4>3. Cardinality(listed) \in Nat /\ Cardinality(listed) <= MaxGroups
        BY <1>5, FS_CardinalityType DEF BoundsInv, GroupsBounded
      <4>4. QED BY <4>1, <4>2, <4>3
    <3>3. QED BY <3>1, <3>2
  <2>2. Cardinality(listed \ gone) \in Nat
    BY <2>1, FS_CardinalityType
  <2>3. Cardinality((listed \ gone) \cup {b}) <= Cardinality(listed \ gone) + 1
    <3> DEFINE S == listed \ gone
    <3>1. IsFiniteSet(S)
      BY <2>1
    <3>2. Cardinality(S \cup {b}) = IF b \in S THEN Cardinality(S) ELSE Cardinality(S) + 1
      BY <3>1, FS_AddElement
    <3>3. Cardinality(S) \in Nat
      BY <2>2
    <3> HIDE DEF S
    <3>4. Cardinality(S \cup {b}) <= Cardinality(S) + 1
      BY <3>2, <3>3
    <3>5. QED BY <3>4 DEF S
  <2>4. MaxGroups \in Nat
    BY QueueAssumption
  <2>5. Cardinality((listed \ gone) \cup {b}) \in Nat
    BY <2>1, FS_AddElement, FS_CardinalityType
  <2>6. Cardinality((listed \ gone) \cup {b}) <= MaxGroups
    BY <2>1, <2>2, <2>3, <2>4, <2>5
  <2>7. QED BY <1>1, <2>6
<1>7. \A a \in listed' : group'[a] # Nil
  BY <1>1, <1>2, <1>3 DEF BoundsInv, GroupsBounded, BatchInv, QueueInv, Shapes
<1>8. GroupsBounded' /\ BatchesBounded'
  BY <1>2, <1>6, <1>7 DEF BoundsInv, GroupsBounded, BatchesBounded, BatchBounded
<1>9. QED BY <1>4, <1>8, SubmitOrders DEF BoundsInv

\* Finishing, cancelling and time.
LEMMA CallBounds ==
  ASSUME BoundsInv, NEW r \in Requests, Call(r)
  PROVE  BoundsInv'
<1>1. UNCHANGED <<clock, arrived, deadline, group, listed, queue, worker>>
  BY DEF Call, Finish, Cancel, times
<1>2. FuturesTyped'
  <2>1. CASE Finish(r)
    BY <2>1 DEF Finish, BoundsInv, FuturesTyped
  <2>2. CASE Cancel(r)
    BY <2>2 DEF Cancel, BoundsInv, FuturesTyped, Answers
  <2>3. QED BY <2>1, <2>2 DEF Call
<1>3. /\ TimesTyped' /\ GroupsBounded' /\ QueuesBounded' /\ BatchesBounded'
  BY <1>1
     DEF BoundsInv, TimesTyped, GroupsBounded, QueuesBounded, BatchesBounded, BatchBounded
<1>4. QED BY <1>2, <1>3, CallOrders DEF BoundsInv

LEMMA TimeBounds ==
  ASSUME BoundsInv, Tick \/ UNCHANGED vars
  PROVE  BoundsInv'
<1>1. UNCHANGED <<arrived, deadline, future, output, group, listed, queue, worker>>
  BY DEF Tick, vars, times
<1>2. clock' \in Time
  BY DEF Tick, vars, BoundsInv, TimesTyped, Time
<1>3. QED
  BY <1>1, <1>2, TimeOrders
     DEF BoundsInv, TimesTyped, FuturesTyped, GroupsBounded, QueuesBounded, BatchesBounded,
     BatchBounded

\* Closing only empties queues and drops what waited in them.
LEMMA CloseBounds ==
  ASSUME BoundsInv, CloseService
  PROVE  BoundsInv'
<1>1. UNCHANGED <<clock, arrived, deadline, output, group, listed, worker>>
  BY DEF CloseService, CloseStart, CloseBatcher, Join, CloseRest, times
<1>2. CASE UNCHANGED <<future, queue>>
  BY <1>1, <1>2, CloseOrders
     DEF BoundsInv, TimesTyped, FuturesTyped, GroupsBounded, QueuesBounded, BatchesBounded,
     BatchBounded
<1>3. CASE \E b \in Batchers : future' = Dropped({b}) /\ queue' = Emptied({b})
  <2>1. FuturesTyped'
    BY <1>1, <1>3 DEF Dropped, Answers, BoundsInv, FuturesTyped
  <2>2. \A a \in Batchers : queue'[a] = queue[a] \/ queue'[a] = <<>>
    BY <1>3 DEF Emptied
  <2>3. QueuesBounded'
    BY <2>2, EmptySeq DEF BoundsInv, QueuesBounded
  <2>4. TimesTyped' /\ GroupsBounded' /\ BatchesBounded'
    BY <1>1 DEF BoundsInv, TimesTyped, GroupsBounded, BatchesBounded, BatchBounded
  <2>5. QED BY <2>1, <2>3, <2>4, CloseOrders DEF BoundsInv
<1>4. QED
  BY <1>2, <1>3 DEF CloseService, CloseStart, CloseBatcher, Join, CloseRest

\* A worker's thread that keeps to its bounds.
LEMMA WorkerBounds ==
  ASSUME BoundsInv, NEW b \in Batchers, Work(b), FuturesTyped',
         \A c \in Batchers : Len(queue'[c]) <= MaxPending,
         BatchBounded(worker'[b]), \A c \in Batchers : c # b => worker'[c] = worker[c]
  PROVE  BoundsInv'
<1>1. UNCHANGED <<clock, arrived, deadline, output, group, listed>>
  BY DEF Work, Gather, Take, Check, Execute, ExecuteClosed, Executed, Exit, times
<1>2. TimesTyped' /\ GroupsBounded'
  BY <1>1 DEF BoundsInv, TimesTyped, GroupsBounded
<1>3. QueuesBounded' /\ BatchesBounded'
  BY DEF BoundsInv, QueuesBounded, BatchesBounded
<1>4. QED BY <1>2, <1>3, WorkOrders DEF BoundsInv

\* Worker b has another state; the others are as they were.
LEMMA WorkerIsNow ==
  ASSUME BoundsInv, NEW b \in Batchers, NEW w, worker' = [worker EXCEPT ![b] = w]
  PROVE  worker'[b] = w /\ \A c \in Batchers : c # b => worker'[c] = worker[c]
BY DEF BoundsInv, BatchInv, QueueInv, Shapes

\* The first requests of a queue are as many as its positions, or fewer.
LEMMA TakenAreFew ==
  ASSUME NEW m \in Nat, NEW s \in Seq(1..m), NEW n \in Nat, n <= Len(s)
  PROVE  /\ IsFiniteSet(ToSet(SubSeq(s, 1, n))) /\ Cardinality(ToSet(SubSeq(s, 1, n))) <= n
         /\ Len(SubSeq(s, n + 1, Len(s))) <= Len(s)
<1> DEFINE taken == SubSeq(s, 1, n)
           S == ToSet(taken)
<1>1. Len(s) \in Nat /\ \A i \in 1..Len(s) : s[i] \in 1..m
  BY LenProperties, ElementOfSeq
<1>2. \A i \in 1..n : s[i] \in 1..m
  BY <1>1, SMTT(30)
<1>3. taken \in Seq(1..m) /\ Len(taken) = IF 1 <= n THEN n - 1 + 1 ELSE 0
  BY <1>2, SubSeqProperties
<1>4. Len(taken) = n
  BY <1>3
<1>5. DOMAIN taken = 1..n /\ taken \in [1..n -> 1..m]
  BY <1>3, <1>4, LenProperties
<1> HIDE DEF taken
<1>6. taken \in Surjection(1..n, S)
  BY <1>5 DEF Surjection, ToSet
<1>7. IsFiniteSet(1..n) /\ Cardinality(1..n) = n
  BY FS_Interval, SMTT(30)
<1>8. IsFiniteSet(S) /\ Cardinality(S) <= n
  BY <1>6, <1>7, FS_Surjection
<1>9. Len(SubSeq(s, n + 1, Len(s))) <= Len(s)
  <2> DEFINE k == Len(s)
  <2>1. \A i \in (n + 1)..k : s[i] \in 1..m
    BY <1>1
  <2>2. Len(SubSeq(s, n + 1, k)) = IF n + 1 <= k THEN k - (n + 1) + 1 ELSE 0
    BY <1>1, <2>1, SubSeqProperties
  <2>3. k \in Nat /\ n <= k
    BY <1>1
  <2> HIDE DEF k
  <2>4. Len(SubSeq(s, n + 1, k)) = k - n
    BY <2>2, <2>3, CountAfter
  <2>5. Len(SubSeq(s, n + 1, k)) <= k
    BY <2>3, <2>4
  <2>6. QED BY <2>5 DEF k
<1>10. QED BY <1>8, <1>9 DEF taken

LEMMA GatherBounds ==
  ASSUME BoundsInv, NEW b \in Batchers, Gather(b)
  PROVE  BoundsInv'
<1> DEFINE first == Head(queue[b])
           limit == arrived[first] + MaxWait
           t == IF deadline[first] < limit THEN deadline[first] ELSE limit
<1>1. PICK n \in 1..MaxBatch : worker' = [worker EXCEPT ![b] =
        [step |-> "gather", target |-> n, batch |-> {}, stop |-> t]]
  BY DEF Gather
<1>2. queue[b] # <<>> /\ UNCHANGED <<future, output, queue>>
  BY DEF Gather
<1>3. first \in Requests
  <2>1. queue[b] \in Seq(1..accepted) /\ accepted \in 0..NRequests
    BY DEF BoundsInv, BatchInv, HeldAccepted
  <2>2. first \in 1..accepted
    BY <1>2, <2>1, HeadTailProperties
  <2>3. QED BY <2>1, <2>2, SMTT(30) DEF Requests
<1>4. t \in Nat
  BY <1>3 DEF BoundsInv, TimesTyped, Time
<1> DEFINE w == [step |-> "gather", target |-> n, batch |-> {}, stop |-> t]
<1>5. BatchBounded(w)
  BY <1>4, FS_EmptySet DEF BatchBounded
<1> HIDE DEF w, t
<1>6. worker' = [worker EXCEPT ![b] = w]
  BY <1>1 DEF w
<1>7. worker'[b] = w /\ \A c \in Batchers : c # b => worker'[c] = worker[c]
  BY <1>6, WorkerIsNow
<1>8. FuturesTyped' /\ \A c \in Batchers : Len(queue'[c]) <= MaxPending
  BY <1>2 DEF BoundsInv, FuturesTyped, QueuesBounded
<1>9. QED BY <1>5, <1>7, <1>8, WorkerBounds DEF Work

LEMMA TakeBounds ==
  ASSUME BoundsInv, NEW b \in Batchers, Take(b)
  PROVE  BoundsInv'
<1> DEFINE n == Least(worker[b].target, Len(queue[b]))
           taken == ToSet(SubSeq(queue[b], 1, n))
           left == SubSeq(queue[b], n + 1, Len(queue[b]))
           w == [Idle EXCEPT !.step = "check", !.batch = taken]
<1>1. /\ worker' = [worker EXCEPT ![b] = w] /\ queue' = [queue EXCEPT ![b] = left]
      /\ UNCHANGED <<future, output>>
  BY DEF Take
<1>2. /\ queue[b] \in Seq(1..accepted) /\ accepted \in Nat /\ worker[b].target \in 0..MaxBatch
  BY DEF BoundsInv, BatchInv, HeldAccepted, BatchesBounded, BatchBounded
<1>3. Len(queue[b]) \in Nat /\ Len(queue[b]) <= MaxPending
  BY <1>2, LenProperties DEF BoundsInv, QueuesBounded
<1>4. n \in Nat /\ n <= Len(queue[b]) /\ n <= MaxBatch
  BY <1>2, <1>3, SMTT(30) DEF Least
<1> HIDE DEF n
<1>5. IsFiniteSet(taken) /\ Cardinality(taken) <= n /\ Len(left) <= Len(queue[b])
  BY <1>2, <1>4, TakenAreFew
<1>6. Cardinality(taken) \in Nat
  BY <1>5, FS_CardinalityType
<1>7. Cardinality(taken) <= MaxBatch
  BY <1>4, <1>5, <1>6
<1>8. Len(left) \in Nat
  <2>1. ASSUME NEW i \in (n + 1)..Len(queue[b]) PROVE queue[b][i] \in 1..accepted
    <3>1. i \in 1..Len(queue[b])
      BY <1>3, <1>4
    <3>2. QED BY <1>2, <3>1, ElementOfSeq
  <2>2. left \in Seq(1..accepted)
    BY <2>1, <1>3, <1>4, SubSeqProperties
  <2>3. QED BY <2>2, LenProperties
<1> HIDE DEF taken, left
<1>9. Len(left) <= MaxPending
  <2>1. MaxPending \in Nat
    OBVIOUS
  <2>2. QED BY <1>3, <1>5, <1>8, <2>1
<1>10. w.batch = taken /\ w.target = 0 /\ w.stop = 0
  BY DEF Idle
<1>11. BatchBounded(w)
  BY <1>5, <1>7, <1>10 DEF BatchBounded
<1> HIDE DEF w
<1>12. worker'[b] = w /\ \A c \in Batchers : c # b => worker'[c] = worker[c]
  BY <1>1, WorkerIsNow
<1>13. \A c \in Batchers : Len(queue'[c]) <= MaxPending
  BY <1>1, <1>9 DEF BoundsInv, QueuesBounded, BatchInv, QueueInv, Shapes
<1>14. FuturesTyped'
  BY <1>1 DEF BoundsInv, FuturesTyped
<1>15. QED BY <1>11, <1>12, <1>13, <1>14, WorkerBounds DEF Work

LEMMA CheckBounds ==
  ASSUME BoundsInv, NEW b \in Batchers, Check(b)
  PROVE  BoundsInv'
<1> DEFINE live == {r \in worker[b].batch : future[r] # "cancelled" /\ ~Expired(r)}
           s == IF live = {} THEN "wait" ELSE "ready"
           w == [[worker[b] EXCEPT !.step = s] EXCEPT !.batch = live]
<1>1. worker' = [worker EXCEPT ![b].step = s, ![b].batch = live]
      /\ UNCHANGED <<queue, output>>
  BY DEF Check
<1>2. BatchBounded(worker[b]) /\ live \in SUBSET worker[b].batch
  BY DEF BoundsInv, BatchesBounded
<1>3. /\ IsFiniteSet(live) /\ Cardinality(live) <= Cardinality(worker[b].batch)
      /\ Cardinality(live) \in Nat /\ Cardinality(worker[b].batch) \in Nat
  BY <1>2, FS_Subset, FS_CardinalityType DEF BatchBounded
<1>4. Cardinality(live) <= MaxBatch
  BY <1>2, <1>3 DEF BatchBounded
<1> HIDE DEF live, s
<1>5. worker' = [worker EXCEPT ![b] = w]
  BY <1>1 DEF BoundsInv, BatchInv, QueueInv, Shapes
<1>6. w.batch = live /\ w.target = worker[b].target /\ w.stop = worker[b].stop
  BY DEF BoundsInv, BatchInv, QueueInv, Shapes, WorkerShape, Idle
<1>7. BatchBounded(w)
  BY <1>2, <1>3, <1>4, <1>6 DEF BatchBounded
<1> HIDE DEF w
<1>8. worker'[b] = w /\ \A c \in Batchers : c # b => worker'[c] = worker[c]
  BY <1>5, WorkerIsNow
<1>9. FuturesTyped'
  <2>1. \A r \in Requests : Running(r) \in Unresolved \cup Answers
    BY DEF Running, Unresolved, Answers
  <2>2. QED BY <2>1 DEF Check, BoundsInv, FuturesTyped
<1>10. \A c \in Batchers : Len(queue'[c]) <= MaxPending
  BY <1>1 DEF BoundsInv, QueuesBounded
<1>11. QED BY <1>7, <1>8, <1>9, <1>10, WorkerBounds DEF Work

\* A step of the thread that neither takes requests nor leaves any out.
LEMMA GotoBounds ==
  ASSUME BoundsInv, NEW b \in Batchers, Execute(b) \/ Exit(b)
  PROVE  BoundsInv'
<1>1. PICK s : Goto(b, s) /\ UNCHANGED <<future, output, queue>>
  BY DEF Execute, Exit
<1> DEFINE w == [worker[b] EXCEPT !.step = s]
<1>2. worker' = [worker EXCEPT ![b] = w]
  BY <1>1 DEF Goto
<1>3. w.batch = worker[b].batch /\ w.target = worker[b].target /\ w.stop = worker[b].stop
  OBVIOUS
<1>4. BatchBounded(w)
  BY <1>3 DEF BoundsInv, BatchesBounded, BatchBounded
<1> HIDE DEF w
<1>5. worker'[b] = w /\ \A c \in Batchers : c # b => worker'[c] = worker[c]
  BY <1>2, WorkerIsNow
<1>6. FuturesTyped' /\ \A c \in Batchers : Len(queue'[c]) <= MaxPending
  BY <1>1 DEF BoundsInv, FuturesTyped, QueuesBounded
<1>7. QED BY <1>4, <1>5, <1>6, WorkerBounds DEF Work

LEMMA ResolvedBounds ==
  ASSUME BoundsInv, NEW b \in Batchers, ExecuteClosed(b) \/ Executed(b)
  PROVE  BoundsInv'
<1>1. PICK how \in {"result", "error"} : Resolved(b, how)
  BY DEF ExecuteClosed, Executed
<1>2. worker' = [worker EXCEPT ![b] = Idle] /\ UNCHANGED <<queue, output>>
  BY DEF ExecuteClosed, Executed
<1>3. worker'[b] = Idle /\ \A c \in Batchers : c # b => worker'[c] = worker[c]
  BY <1>2, WorkerIsNow
<1>4. FuturesTyped'
  BY <1>1, <1>2 DEF Resolved, BoundsInv, FuturesTyped, Answers
<1>5. \A c \in Batchers : Len(queue'[c]) <= MaxPending
  BY <1>2 DEF BoundsInv, QueuesBounded
<1>6. QED BY <1>3, <1>4, <1>5, NothingIsBounded, WorkerBounds DEF Work

LEMMA StepBounds == BoundsInv /\ [Next]_vars => BoundsInv'
<1> SUFFICES ASSUME BoundsInv, [Next]_vars PROVE BoundsInv'
  OBVIOUS
<1>1. ASSUME NEW b \in Batchers, Work(b) PROVE BoundsInv'
  BY <1>1, GatherBounds, TakeBounds, CheckBounds, GotoBounds, ResolvedBounds DEF Work
<1>2. QED
  BY <1>1, SubmitBounds, SubmitFirstBounds, CallBounds, CloseBounds, TimeBounds DEF Next

\* microbatch.py and service.py: for any limits, no more than MaxGroups batchers
\* are listed, no queue is longer than MaxPending and no batch larger than
\* MaxBatch, and every future has one of its states.
THEOREM BoundsAreKept == Spec => []TypeOK
<1>1. Init => BoundsInv
  BY BoundsBegin
<1>2. BoundsInv /\ [Next]_vars => BoundsInv'
  BY StepBounds
<1>3. BoundsInv => TypeOK
  BY BoundsAreTypes
<1>4. QED BY <1>1, <1>2, <1>3, PTL DEF Spec
=============================================================================
