------------------------------ MODULE MCFabric ------------------------------
(***************************************************************************)
(* One run for the owners of processes, memory and sessions (the model     *)
(* portfolio, the allocation pool, the resident indexes, the index over    *)
(* several devices, the extension sessions, the parent of a process group) *)
(* and for the answers they give (the scheduler of explicit profiles, the  *)
(* calls of one connection, the worker that measures and serves a model,   *)
(* the harness server, and an evaluation).                                 *)
(* They share no state, so a behaviour takes the steps of one of them, its *)
(* part; the others stay as they began.  The reachable states are the sum  *)
(* of theirs.                                                              *)
(***************************************************************************)
EXTENDS Serving

VARIABLE part

\* k3 is of another generation; a1, k1 and a large content take two units.
MCAllocationSize(a) == IF a = "a1" THEN 2 ELSE 1
MCKeyGen(k) == IF k = "k3" THEN "g2" ELSE "g1"
MCKeySize(k) == IF k = "k1" THEN 2 ELSE 1
MCContentSize(c) == IF c = "large" THEN 2 ELSE 1

MCSources == {<<"a", "b">>, <<"a", "a">>, <<"a", "b", "c">>}

allvars == <<part, portfoliovars, poolvars, handlevars, devicevars, sessionvars, groupvars,
             schedulervars, connectionvars, measuringvars, evaluationvars, servervars>>

Parts == {"portfolio", "pool", "handles", "devices", "sessions", "group", "scheduler",
          "connection", "measuring", "evaluation", "server"}

MCInit ==
  /\ part \in Parts
  /\ Init /\ Pool!Init /\ Handles!Init /\ Devices!Init /\ Sessions!Init /\ Group!Init
  /\ Scheduler!Init /\ Connection!Init /\ Measuring!Init
  /\ Evaluation!Init /\ Server!Init
  /\ part # "sessions" => \A f \in DOMAIN source : source[f] = "declared"
  /\ part # "group" => ~hidepid /\ watcher = "running"
  /\ part # "measuring" => scope = "g1" /\ question.kind = "model"
  /\ part # "evaluation" => todo = <<"a", "b">>
  /\ part # "server" => vectors

\* A step of part p alone.
Alone(p) ==
  /\ part = p /\ UNCHANGED part
  /\ IF p = "portfolio" THEN TRUE ELSE UNCHANGED portfoliovars
  /\ IF p = "pool" THEN TRUE ELSE UNCHANGED poolvars
  /\ IF p = "handles" THEN TRUE ELSE UNCHANGED handlevars
  /\ IF p = "devices" THEN TRUE ELSE UNCHANGED devicevars
  /\ IF p = "sessions" THEN TRUE ELSE UNCHANGED sessionvars
  /\ IF p = "group" THEN TRUE ELSE UNCHANGED groupvars
  /\ IF p = "scheduler" THEN TRUE ELSE UNCHANGED schedulervars
  /\ IF p = "connection" THEN TRUE ELSE UNCHANGED connectionvars
  /\ IF p = "measuring" THEN TRUE ELSE UNCHANGED measuringvars
  /\ IF p = "evaluation" THEN TRUE ELSE UNCHANGED evaluationvars
  /\ IF p = "server" THEN TRUE ELSE UNCHANGED servervars

\* The bounds of the others run out; the portfolio never has nothing to do.
Ended == part # "portfolio" /\ UNCHANGED allvars

MCNext ==
  \/ \E k \in Keys : Alone("portfolio") /\ Request(k)
  \/ Alone("portfolio") /\ SearchAnswers
  \/ Alone("portfolio") /\ SearchFails
  \/ Alone("portfolio") /\ ExploreNothing
  \/ Alone("portfolio") /\ DropStale
  \/ Alone("portfolio") /\ StartQuarantined
  \/ \E w \in Workers : Alone("portfolio") /\ Start(w)
  \/ Alone("portfolio") /\ NewSession
  \/ \E w \in Workers : Alone("portfolio") /\ Prepare(w)
  \/ \E w \in Workers : Alone("portfolio") /\ CloseWorker(w)
  \/ Alone("portfolio") /\ Preempt
  \/ Alone("portfolio") /\ Close
  \/ \E t \in Keys \X Providers : Alone("portfolio") /\ Expire(t)
  \/ \E a \in Allocations : Alone("pool") /\ Pool!Allocate(a)
  \/ \E a \in Allocations : Alone("pool") /\ Pool!Evict(a)
  \/ \E a \in Allocations, u \in Users : Alone("pool") /\ Pool!Acquire(a, u)
  \/ \E a \in Allocations, u \in Users : Alone("pool") /\ Pool!Leave(a, u)
  \/ Alone("pool") /\ Pool!Close
  \/ \E u \in Users, k \in IndexKeys : Alone("handles") /\ Handles!LookUp(u, k)
  \/ \E u \in Users, k \in IndexKeys, h \in Replicas :
       Alone("handles") /\ Handles!Build(u, k, h)
  \/ \E u \in Users : Alone("handles") /\ Handles!Acquire(u)
  \/ \E u \in Users : Alone("handles") /\ Handles!Leave(u)
  \/ \E available \in 0..Budget : Alone("handles") /\ Handles!Pressure(available)
  \/ Alone("handles") /\ Handles!Invalidate
  \/ Alone("devices") /\ Devices!BuildBlocked
  \/ Alone("devices") /\ Devices!BuildFails
  \/ Alone("devices") /\ Devices!Built
  \/ \E k \in 1..NRows : Alone("devices") /\ Devices!Search(k)
  \/ Alone("devices") /\ Devices!Close
  \/ \E f \in Files : Alone("sessions") /\ Sessions!Rewrite(f)
  \/ \E f \in Files : Alone("sessions") /\ Sessions!Copy(f)
  \/ \E b \in Sessions!Bindings : Alone("sessions") /\ Sessions!Configure(b)
  \/ \E s \in 1..NSessions : Alone("sessions") /\ Sessions!List(s)
  \/ \E s \in 1..NSessions : Alone("sessions") /\ Sessions!Prepare(s)
  \/ \E s \in 1..NSessions : Alone("sessions") /\ Sessions!Compile(s)
  \/ \E s \in 1..NSessions : Alone("sessions") /\ Sessions!Load(s)
  \/ \E s \in 1..NSessions : Alone("sessions") /\ Sessions!Execute(s)
  \/ \E s \in 1..NSessions : Alone("sessions") /\ Sessions!Invalidate(s)
  \/ \E s \in 1..NSessions : Alone("sessions") /\ Sessions!Close(s)
  \/ \E p \in Group!Processes : Alone("group") /\ Group!Work(p)
  \/ \E p \in Group!Processes : Alone("group") /\ Group!Exit(p)
  \/ \E h \in Helpers : Alone("group") /\ Group!Fork(h)
  \/ \E h \in Helpers : Alone("group") /\ Group!Reap(h)
  \/ Alone("group") /\ Group!Publish
  \/ Alone("group") /\ Group!Scan
  \/ Alone("group") /\ Group!Judge
  \/ Alone("group") /\ Group!Rescan
  \/ Alone("group") /\ Group!Communicate
  \/ Alone("group") /\ Group!TooLate
  \/ Alone("group") /\ Group!CheckLifetime
  \/ Alone("group") /\ Group!Defer
  \/ Alone("group") /\ Group!Poll
  \/ Alone("group") /\ Group!Stop
  \/ Alone("group") /\ Group!AwaitExit
  \/ Alone("group") /\ Group!StopTooLate
  \/ \E r \in Submitted : Alone("scheduler") /\ Scheduler!Submit(r)
  \/ \E r \in Direct : Alone("scheduler") /\ Scheduler!Call(r)
  \/ \E r \in Scheduler!Requests : Alone("scheduler") /\ Scheduler!Search(r)
  \/ \E p \in Profiles : Alone("scheduler") /\ Scheduler!Serve(p)
  \/ \E p \in Profiles : Alone("scheduler") /\ Scheduler!Dies(p)
  \/ Alone("scheduler") /\ Scheduler!CloseBegins
  \/ Alone("scheduler") /\ Scheduler!Shutdown
  \/ Alone("scheduler") /\ Scheduler!CloseEnds
  \/ Alone("connection") /\ Connection!Replace
  \/ \E q \in Queries : Alone("connection") /\ Connection!Search(q)
  \/ \E q \in Queries : Alone("connection") /\ Connection!Overlap(q)
  \/ Alone("connection") /\ Connection!OverlapEnds
  \/ Alone("connection") /\ \E queries \in Connection!Batches : Connection!SearchMany(queries)
  \/ Alone("connection") /\ Connection!Encode
  \/ Alone("connection") /\ Connection!Row
  \/ Alone("connection") /\ Connection!ManyEnds
  \/ Alone("connection") /\ Connection!Fails
  \/ Alone("measuring") /\ Measuring!Replay
  \/ Alone("measuring") /\ Measuring!Backup
  \/ Alone("measuring") /\ Measuring!CheckSnapshot
  \/ Alone("measuring") /\ Measuring!LoadReference
  \/ Alone("measuring") /\ Measuring!CheckReference
  \/ Alone("measuring") /\ Measuring!CheckManifest
  \/ Alone("measuring") /\ Measuring!Prepare
  \/ Alone("measuring") /\ Measuring!Verify
  \/ Alone("measuring") /\ Measuring!Load
  \/ Alone("measuring") /\ Measuring!Embed
  \/ \E s \in Measuring!Sides : Alone("measuring") /\ Measuring!Measure(s)
  \/ Alone("measuring") /\ Measuring!Compare
  \/ Alone("measuring") /\ Measuring!Report
  \/ Alone("measuring") /\ Measuring!Ask
  \/ Alone("measuring") /\ Measuring!CheckSource
  \/ Alone("measuring") /\ Measuring!Search
  \/ Alone("measuring") /\ Measuring!Deliver
  \/ Alone("measuring") /\ Measuring!Fail
  \/ \E g \in ScopeGenerations : Alone("measuring") /\ Measuring!Write(g)
  \/ Alone("measuring") /\ Measuring!Edit
  \/ Alone("evaluation") /\ Evaluation!Measure
  \/ Alone("evaluation") /\ Evaluation!Finish
  \/ Alone("evaluation") /\ Evaluation!Attach
  \/ Alone("evaluation") /\ Evaluation!Launch
  \/ Alone("evaluation") /\ Evaluation!Go
  \/ Alone("evaluation") /\ Evaluation!Collect
  \/ Alone("evaluation") /\ Evaluation!Expire
  \/ Alone("evaluation") /\ Evaluation!Return
  \/ Alone("evaluation") /\ Evaluation!Tick
  \/ Alone("evaluation") /\ Evaluation!Open
  \/ Alone("evaluation") /\ Evaluation!Step
  \/ Alone("evaluation") /\ Evaluation!Raise
  \/ Alone("evaluation") /\ Evaluation!Close
  \/ Alone("evaluation") /\ Evaluation!Save
  \/ Alone("evaluation") /\ Evaluation!Restore
  \/ Alone("evaluation") /\ Evaluation!Again
  \/ Alone("server") /\ \E m \in Server!Messages : Server!Unreadable(m)
  \/ Alone("server") /\ \E m \in Server!Messages : Server!Ignore(m)
  \/ Alone("server") /\ \E m \in Server!Messages : Server!Answer(m)
  \/ Alone("server") /\ \E m \in Server!Messages, f \in Server!Failures : Server!Recall(m, f)
  \/ Alone("server") /\ \E f \in given \cup {"nothing"} : Server!EndOfInput(f)
  \/ Alone("server") /\ \E f \in given \cup {"nothing"} : Server!Close(f)
  \/ Ended

\* ModelPortfolio's, where its steps are taken, and RuntimeScheduler's: nothing
\* of the scheduler that must happen is possible as it begins.
MCFairness ==
  /\ \A w \in Workers :
       /\ WF_portfoliovars(part = "portfolio" /\ Prepare(w))
       /\ WF_portfoliovars(part = "portfolio" /\ CloseWorker(w))
  /\ Scheduler!Fairness

MCSpec == MCInit /\ [][MCNext]_allvars /\ MCFairness

-----------------------------------------------------------------------------
(* Properties                                                              *)

\* Every component's variables stay in their types.
TypesOK ==
  /\ part = "portfolio" => TypeOK
  /\ part = "pool" => Pool!TypeOK
  /\ part = "handles" => Handles!TypeOK
  /\ part = "devices" => Devices!TypeOK
  /\ part = "sessions" => Sessions!TypeOK
  /\ part = "group" => Group!TypeOK
  /\ part = "scheduler" => Scheduler!TypeOK
  /\ part = "connection" => Connection!TypeOK
  /\ part = "measuring" => Measuring!TypeOK
  /\ part = "evaluation" => Evaluation!TypeOK
  /\ part = "server" => Server!TypeOK

\* Closing the portfolio leaves no worker process (models.py: close), and closing
\* the scheduler no worker, and no request unresolved (scheduler.py: close).
ClosingEnds == ClosesEverything /\ Scheduler!CloseResolves
=============================================================================
