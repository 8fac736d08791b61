--------------------------- MODULE ModelPortfolio ---------------------------
(***************************************************************************)
(* Background preparation of an alternate embedding model in a retained    *)
(* worker process: thm/runtime/fabric/models.py (WarmModelWorker,          *)
(* ModelPortfolio) and the calls RuntimeService makes to it                *)
(* (thm/runtime/fabric/service.py: submit, _execute, _maybe_explore,       *)
(* new_session, close), for one scope.                                     *)
(*                                                                         *)
(* The service's lock is held through the execution of a request and       *)
(* through new_session, so these are one thread, whose steps are seen only *)
(* where it leaves the portfolio's lock.  Concurrent with it are the       *)
(* thread that prepares a worker, the arrivals that preempt it, the        *)
(* threads that close a preempted worker, and the closing of the service.  *)
(***************************************************************************)
EXTENDS Naturals, FiniteSets

CONSTANTS
  Workers,     \* worker processes; each one is started at most once
  Keys,        \* profile keys: one per source generation, settings, ...
  NProviders,  \* inference providers, tried in turn
  Nil

Providers == 0..(NProviders - 1)
Points == [key : Keys, worker : Workers]
Steps == {"launch", "wait", "decide", "raise", "cleanup", "forget", "done"}
Jobs == [key : Keys, provider : Providers, step : Steps]

ASSUME PortfolioAssumption ==
  /\ Nil \notin Workers \cup Keys \cup Points \cup Jobs
  /\ NProviders \in Nat \ {0}

VARIABLES
  ready,       \* the point a prepared worker may serve, or Nil
  active,      \* the point this session uses, or Nil
  preparing,   \* the worker in preparation, or Nil
  closed,      \* ModelPortfolio.closed
  cursor,      \* the next provider to try
  jobs,        \* what each started worker is for, and where its thread is
  open,        \* the workers that have not been closed
  preempted,   \* the workers whose preemption was requested
  closers,     \* the workers that a thread is about to close
  quarantine,  \* the <<key, provider>> in a cooldown after a failure
  request      \* the request in execution: its step and its key

vars == <<ready, active, preparing, closed, cursor, jobs, open, preempted,
          closers, quarantine, request>>

Resting == [step |-> "idle", key |-> Nil]
At(w, s) == jobs[w] # Nil /\ jobs[w].step = s
Goto(w, s) == jobs' = [jobs EXCEPT ![w].step = s]
Point(w) == [key |-> jobs[w].key, worker |-> w]
Target(w) == <<jobs[w].key, jobs[w].provider>>

-----------------------------------------------------------------------------
(* The request thread                                                      *)

\* select: the session's point serves the requests that have its key.
Request(k) ==
  /\ request = Resting
  /\ ~closed
  /\ request' = [step |-> IF active # Nil /\ active.key = k THEN "search" ELSE "explore",
                 key |-> k]
  /\ UNCHANGED <<ready, active, preparing, closed, cursor, jobs, open, preempted,
                 closers, quarantine>>

SearchAnswers ==
  /\ request.step = "search"
  /\ active.worker \in open
  /\ request' = [request EXCEPT !.step = "explore"]
  /\ UNCHANGED <<ready, active, preparing, closed, cursor, jobs, open, preempted,
                 closers, quarantine>>

\* The worker was closed, has died, is late or over its budget: fail() gives
\* the point up, and the reference answers.
SearchFails ==
  /\ request.step = "search"
  /\ open' = open \ {active.worker}
  /\ quarantine' = quarantine \cup {Target(active.worker)}
  /\ active' = Nil
  /\ ready' = Nil
  /\ request' = [request EXCEPT !.step = "explore"]
  /\ UNCHANGED <<preparing, closed, cursor, jobs, preempted, closers>>

\* The request ends without a preparation being started: there is one, or a
\* point in use, or a queue, or pressure on the host, ...
ExploreNothing ==
  /\ request.step = "explore"
  /\ request' = Resting
  /\ UNCHANGED <<ready, active, preparing, closed, cursor, jobs, open, preempted,
                 closers, quarantine>>

DropStale_InUse ==
  /\ request.step = "explore"
  /\ preparing = Nil
  /\ ready # Nil /\ ready.key # request.key
  /\ ready' = Nil
  /\ open' = open \ {ready.worker}
  /\ UNCHANGED <<active, preparing, closed, cursor, jobs, preempted, closers,
                 quarantine, request>>

\* A point prepared for another key of the scope is stale, unless in use.
DropStale ==
  /\ request.step = "explore"
  /\ preparing = Nil
  /\ active = Nil
  /\ ready # Nil /\ ready.key # request.key
  /\ ready' = Nil
  /\ open' = open \ {ready.worker}
  /\ UNCHANGED <<active, preparing, closed, cursor, jobs, preempted, closers,
                 quarantine, request>>

MayStart ==
  /\ request.step = "explore"
  /\ active = Nil /\ preparing = Nil /\ ready = Nil
  /\ ~closed

Advanced_Unwrapped == cursor' = cursor + 1

Advanced == cursor' = (cursor + 1) % NProviders

StartQuarantined ==
  /\ MayStart
  /\ <<request.key, cursor>> \in quarantine
  /\ Advanced
  /\ request' = Resting
  /\ UNCHANGED <<ready, active, preparing, closed, jobs, open, preempted, closers,
                 quarantine>>

Start(w) ==
  /\ MayStart
  /\ jobs[w] = Nil
  /\ <<request.key, cursor>> \notin quarantine
  /\ Advanced
  /\ jobs' = [jobs EXCEPT ![w] = [key |-> request.key, provider |-> cursor,
                                  step |-> "launch"]]
  /\ open' = open \cup {w}
  /\ preparing' = w
  /\ request' = Resting
  /\ UNCHANGED <<ready, active, closed, preempted, closers, quarantine>>

NewSession ==
  /\ request = Resting
  /\ active' = ready
  /\ UNCHANGED <<ready, preparing, closed, cursor, jobs, open, preempted, closers,
                 quarantine, request>>

-----------------------------------------------------------------------------
(* The thread that prepares a worker                                       *)

\* The process starts, unless the worker has been closed already.
Launch(w) ==
  /\ At(w, "launch")
  /\ Goto(w, IF w \in open THEN "wait" ELSE "raise")
  /\ UNCHANGED <<ready, active, preparing, closed, cursor, open, preempted, closers,
                 quarantine, request>>

\* The answer was received, even if the worker is being closed meanwhile; or
\* the process failed, was killed, was late, or its answer was refused.
Received(w) ==
  /\ At(w, "wait")
  /\ \E s \in {"decide", "raise"} : Goto(w, s)
  /\ UNCHANGED <<ready, active, preparing, closed, cursor, open, preempted, closers,
                 quarantine, request>>

Unwanted(w) == closed \/ w \in preempted

\* Materially faster, and activation allowed: the worker is kept.
Promote(w) ==
  /\ At(w, "decide")
  /\ ~Unwanted(w)
  /\ ready' = Point(w)
  /\ Goto(w, "forget")
  /\ UNCHANGED <<active, preparing, closed, cursor, open, preempted, closers,
                 quarantine, request>>

\* Unwanted, not faster, only measured, or (failure recorded) not equivalent.
Decline(w) ==
  /\ At(w, "decide")
  /\ \/ UNCHANGED quarantine
     \/ ~Unwanted(w) /\ quarantine' = quarantine \cup {Target(w)}
  /\ Goto(w, "cleanup")
  /\ UNCHANGED <<ready, active, preparing, closed, cursor, open, preempted, closers,
                 request>>

Raised(w) ==
  /\ At(w, "raise")
  /\ quarantine' = quarantine \cup IF Unwanted(w) THEN {} ELSE {Target(w)}
  /\ Goto(w, "cleanup")
  /\ UNCHANGED <<ready, active, preparing, closed, cursor, open, preempted, closers,
                 request>>

Cleanup_Keeps(w) ==
  /\ At(w, "cleanup")
  /\ Goto(w, "forget")
  /\ UNCHANGED <<ready, active, preparing, closed, cursor, open, preempted, closers,
                 quarantine, request>>

\* A worker that is not kept is closed.
Cleanup(w) ==
  /\ At(w, "cleanup")
  /\ open' = open \ {w}
  /\ Goto(w, "forget")
  /\ UNCHANGED <<ready, active, preparing, closed, cursor, preempted, closers,
                 quarantine, request>>

Forget(w) ==
  /\ At(w, "forget")
  /\ preparing' = Nil
  /\ Goto(w, "done")
  /\ UNCHANGED <<ready, active, closed, cursor, open, preempted, closers,
                 quarantine, request>>

-----------------------------------------------------------------------------
(* Preemption, closing, time                                               *)

\* A request arrives: the worker in preparation is closed in the background.
Preempt ==
  /\ preparing # Nil
  /\ preparing \notin preempted
  /\ preempted' = preempted \cup {preparing}
  /\ closers' = closers \cup {preparing}
  /\ UNCHANGED <<ready, active, preparing, closed, cursor, jobs, open, quarantine,
                 request>>

CloseWorker(w) ==
  /\ w \in closers
  /\ closers' = closers \ {w}
  /\ open' = open \ {w}
  /\ UNCHANGED <<ready, active, preparing, closed, cursor, jobs, preempted,
                 quarantine, request>>

Held == {p.worker : p \in {ready, active} \ {Nil}}

Close_Preparing ==
  /\ ~closed
  /\ request = Resting
  /\ closed' = TRUE
  /\ closers' = closers \cup ({preparing} \ {Nil})
  /\ UNCHANGED <<ready, active, preparing, cursor, jobs, open, preempted,
                 quarantine, request>>

\* RuntimeService.close has joined the requests before.
Close ==
  /\ ~closed
  /\ request = Resting
  /\ closed' = TRUE
  /\ closers' = closers \cup Held \cup ({preparing} \ {Nil})
  /\ UNCHANGED <<ready, active, preparing, cursor, jobs, open, preempted,
                 quarantine, request>>

\* A cooldown ends.
Expire(t) ==
  /\ t \in quarantine
  /\ quarantine' = quarantine \ {t}
  /\ UNCHANGED <<ready, active, preparing, closed, cursor, jobs, open, preempted,
                 closers, request>>

Init ==
  /\ ready = Nil /\ active = Nil /\ preparing = Nil
  /\ closed = FALSE
  /\ cursor = 0
  /\ jobs = [w \in Workers |-> Nil]
  /\ open = {} /\ preempted = {} /\ closers = {} /\ quarantine = {}
  /\ request = Resting

Prepare(w) ==
  \/ Launch(w)
  \/ Received(w)
  \/ Promote(w)
  \/ Decline(w)
  \/ Raised(w)
  \/ Cleanup(w)
  \/ Forget(w)

Execute ==
  \/ \E k \in Keys : Request(k)
  \/ SearchAnswers
  \/ SearchFails
  \/ ExploreNothing
  \/ DropStale
  \/ StartQuarantined
  \/ \E w \in Workers : Start(w)
  \/ NewSession

Next ==
  \/ Execute
  \/ \E w \in Workers : Prepare(w) \/ CloseWorker(w)
  \/ Preempt
  \/ Close
  \/ \E t \in Keys \X Providers : Expire(t)

\* Threads run; a preparation ends by its wall-clock budget at the latest.
Fairness == \A w \in Workers : WF_vars(Prepare(w)) /\ WF_vars(CloseWorker(w))

Spec == Init /\ [][Next]_vars /\ Fairness

-----------------------------------------------------------------------------
(* Properties                                                              *)

TypeOK ==
  /\ ready \in Points \cup {Nil}
  /\ active \in Points \cup {Nil}
  /\ preparing \in Workers \cup {Nil}
  /\ closed \in BOOLEAN
  /\ cursor \in Providers
  /\ jobs \in [Workers -> Jobs \cup {Nil}]
  /\ open \subseteq Workers
  /\ preempted \subseteq Workers
  /\ closers \subseteq Workers
  /\ quarantine \subseteq Keys \X Providers
  /\ request \in [step : {"idle", "search", "explore"}, key : Keys \cup {Nil}]

\* The point a session uses stays the ready one: neither a stale point being
\* dropped nor a preparation that ends replaces it (fail closes only active).
ActiveIsReady == active # Nil => active = ready

\* However preparations, preemptions, failures and stale points interleave,
\* one worker at most holds the memory and processor budget of a preparation.
OneWorker == Cardinality(open) <= 1

OneReadyWorker == ActiveIsReady /\ OneWorker

\* Once the portfolio is closed, no worker process is left.
ClosesEverything == closed ~> open = {}

\* A point that is kept for the next session, or serves this one, has a worker
\* that was not closed (models.py: "a retained isolated warm worker").
RetainedOpen == ~closed => Held \subseteq open
=============================================================================
