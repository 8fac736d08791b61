---------------------------- MODULE EvaluationRun ----------------------------
(***************************************************************************)
(* The evaluation fabric (thm/evaluation): a campaign measures retrieval   *)
(* for a sequence of tasks (runner.py), an environment is run step by step *)
(* in a worker process that owns its memory and that its parent watches    *)
(* the clock for (environment.py, environment_worker.py, memory.py), and   *)
(* outcomes measured elsewhere are attached to the campaign's receipt, in  *)
(* one or in several parts (outcomes.py).                                  *)
(***************************************************************************)
EXTENDS Naturals, Sequences, SequencesExt, FiniteSets

CONSTANTS
    Tasks,          \* ids of tasks
    Sources,        \* the sequences of tasks an adapter may give
    Maximum,        \* tasks a bounded mode executes
    Traces,         \* traces of agents run elsewhere
    Observations,   \* texts an environment answers with
    MaxSteps,       \* max_steps
    Wall,           \* wall_seconds
    None            \* nothing

VARIABLES
    todo, rows,     \* the tasks still to come; those executed
    receipt,        \* of the campaign, with the outcomes attached to it
    parent,         \* EnvironmentRunner.run
    worker,         \* execute_environment, in its process
    trace,          \* what the worker has seen
    memory,         \* AgentMemory of the worker: documents, index, open
    snapshot,       \* thm-memory.json of a directory
    clock

campaign == <<todo, rows, receipt>>
running == <<parent, worker, trace, memory, clock>>
vars == <<todo, rows, receipt, parent, worker, trace, memory, snapshot, clock>>

NoMemory == [documents |-> <<>>, index |-> <<>>, open |-> FALSE]

Init ==
    /\ todo \in Sources /\ rows = {} /\ receipt = None
    /\ parent = "idle" /\ worker = "none" /\ trace = <<>> /\ clock = 0
    /\ memory = NoMemory /\ snapshot = None

----------------------------------------------------------------------------
\* The campaign.

\* A task id that comes twice ends it without a receipt; a bounded mode executes
\* the first tasks only.
Measure ==
    /\ receipt = None /\ todo # <<>> /\ Cardinality(rows) < Maximum
    /\ IF Head(todo) \in rows THEN rows' = {} /\ todo' = <<>>
       ELSE rows' = rows \cup {Head(todo)} /\ todo' = Tail(todo)
    /\ UNCHANGED <<receipt, running, snapshot>>

Finish ==
    /\ receipt = None /\ rows # {} /\ (todo = <<>> \/ Cardinality(rows) = Maximum)
    /\ receipt' = [executed |-> rows, truncated |-> todo # <<>>, outcomes |-> <<>>, complete |-> FALSE]
    /\ UNCHANGED <<todo, rows, running, snapshot>>

TasksOf(outcomes) == {o.task : o \in ToSet(outcomes)}

\* Mutant: outcomes are compared with each other only.
Attachable_Again(outcomes, partial) ==
    /\ outcomes # <<>> /\ Cardinality(TasksOf(outcomes)) = Len(outcomes)
    /\ TasksOf(outcomes) \subseteq receipt.executed
    /\ ~partial => TasksOf(outcomes) = receipt.executed
    /\ receipt.outcomes # <<>> => partial

\* Outcomes must be of executed tasks, of all of them unless a part is asked
\* for, and a part must not say again what an earlier one said.
Attachable(outcomes, partial) ==
    /\ outcomes # <<>> /\ Cardinality(TasksOf(outcomes)) = Len(outcomes)
    /\ TasksOf(outcomes) \subseteq receipt.executed
    /\ ~partial => TasksOf(outcomes) = receipt.executed
    /\ receipt.outcomes # <<>> =>
         partial /\ TasksOf(outcomes) \cap TasksOf(receipt.outcomes) = {}

\* Each outcome names the trace whose bytes are handed over with it.
Attach ==
    \E S \in SUBSET Tasks, t \in Traces, partial \in BOOLEAN :
        LET new == SetToSeq({[task |-> x, trace |-> t] : x \in S})
            all == receipt.outcomes \o new
        IN  /\ receipt # None /\ Attachable(new, partial)
            /\ receipt' = [receipt EXCEPT !.outcomes = all,
                                          !.complete = TasksOf(all) = receipt.executed]
            /\ UNCHANGED <<todo, rows, running, snapshot>>

----------------------------------------------------------------------------
\* The parent.

\* The worker is started and waits for a line; a task has a fresh memory.
Launch ==
    /\ parent = "idle" /\ worker = "none"
    /\ parent' = "launched" /\ worker' = "waiting"
    /\ UNCHANGED <<campaign, trace, memory, snapshot, clock>>

Go ==
    /\ parent = "launched"
    /\ IF clock >= Wall THEN parent' = "timeout" /\ worker' = worker
       ELSE parent' = "waiting" /\ worker' = "ready"
    /\ UNCHANGED <<campaign, trace, memory, snapshot, clock>>

Exited == worker \in {"completed", "limit", "error"}

\* Is there time left?
InTime == clock < Wall

\* The worker has exited: its output is read, and refused when it is late.
Collect ==
    /\ parent = "waiting" /\ Exited
    /\ parent' = IF worker = "error" THEN "failed" ELSE IF InTime THEN worker ELSE "timeout"
    /\ UNCHANGED <<campaign, worker, trace, memory, snapshot, clock>>

Expire ==
    /\ parent = "waiting" /\ clock >= Wall /\ ~Exited
    /\ parent' = "timeout"
    /\ UNCHANGED <<campaign, worker, trace, memory, snapshot, clock>>

\* Mutant: only a worker that is late is stopped.
Stopped_Late == IF parent = "timeout" /\ worker = "stepping" THEN "dead" ELSE worker

\* What becomes of the worker: stop_owned_process_tree leaves nothing of it.
Stopped == "dead"

\* run returns or raises, once the worker's process tree is gone.
Return ==
    /\ parent \in {"timeout", "failed", "completed", "limit"}
    /\ parent' = "returned" /\ worker' = Stopped
    /\ UNCHANGED <<campaign, trace, memory, snapshot, clock>>

Tick ==
    /\ parent # "idle" /\ clock < Wall
    /\ clock' = clock + 1
    /\ UNCHANGED <<campaign, parent, worker, trace, memory, snapshot>>

----------------------------------------------------------------------------
\* The worker.

Working(at) == worker = at /\ UNCHANGED <<campaign, parent, snapshot, clock>>

\* The environment and the memory are made and the environment is reset; what
\* was made is closed again when something fails.
Open ==
    /\ Working("ready") /\ UNCHANGED trace
    /\ \/ worker' = "stepping" /\ memory' = [NoMemory EXCEPT !.open = TRUE]
       \/ worker' = "error" /\ memory' = NoMemory

\* Mutant: the list is longer before the index is.
Added_First(m, text, fails) ==
    [m EXCEPT !.documents = Append(@, text), !.index = IF fails THEN @ ELSE Append(m.documents, text)]

\* AgentMemory.add: the index is replaced by the longer list, then the list is.
Added(m, text, fails) ==
    IF fails THEN m
    ELSE [m EXCEPT !.index = Append(m.documents, text), !.documents = Append(@, text)]

\* A step: what the environment answered is recorded, then remembered.
Step ==
    \E text \in Observations, done \in BOOLEAN, fails \in BOOLEAN :
        /\ Working("stepping")
        /\ trace' = Append(trace, text)
        /\ memory' = Added(memory, text, fails)
        /\ worker' = CASE fails                          -> "closing error"
                       [] ~fails /\ done                 -> "closing completed"
                       [] ~fails /\ ~done /\ Len(trace') = MaxSteps -> "closing limit"
                       [] OTHER                          -> "stepping"

\* A callback raises.
Raise ==
    /\ Working("stepping") /\ UNCHANGED <<trace, memory>>
    /\ worker' = "closing error"

\* Mutant: the memory is not closed when the environment cannot be.
Closed_Skipped(fails) == IF fails THEN memory ELSE [memory EXCEPT !.open = FALSE]

\* The memory is closed whether or not the environment could be.
Closed(fails) == [memory EXCEPT !.open = FALSE]

\* Only then is the result written: without one if closing has failed.
Close ==
    \E fails \in BOOLEAN :
        /\ UNCHANGED <<campaign, parent, snapshot, clock, trace>>
        /\ worker \in {"closing error", "closing completed", "closing limit"}
        /\ memory' = Closed(fails)
        /\ worker' = CASE fails \/ worker = "closing error" -> "error"
                       [] ~fails /\ worker = "closing completed" -> "completed"
                       [] ~fails /\ worker = "closing limit" -> "limit"

\* A snapshot is published under its name once and for all.
Published_Replaces == memory.documents

Published == IF snapshot = None THEN memory.documents ELSE snapshot

Save ==
    /\ worker = "stepping" /\ memory.open
    /\ snapshot' = Published
    /\ UNCHANGED <<campaign, running>>

\* A memory takes over a snapshot: its index first.
Restore ==
    /\ worker = "stepping" /\ memory.open /\ snapshot # None /\ trace = <<>>
    /\ memory' = [memory EXCEPT !.index = snapshot, !.documents = snapshot]
    /\ UNCHANGED <<campaign, parent, worker, trace, snapshot, clock>>

\* The parent runs the next task's environment.
Again ==
    /\ parent = "returned"
    /\ parent' = "idle" /\ worker' = "none" /\ trace' = <<>> /\ memory' = NoMemory /\ clock' = 0
    /\ UNCHANGED <<campaign, snapshot>>

Next ==
    \/ Measure \/ Finish \/ Attach
    \/ Launch \/ Go \/ Collect \/ Expire \/ Return \/ Tick
    \/ Open \/ Step \/ Raise \/ Close
    \/ Save \/ Restore \/ Again

Spec == Init /\ [][Next]_vars

----------------------------------------------------------------------------
Results == {"completed", "limit"}

TypeOK ==
    /\ todo \in Seq(Tasks) /\ rows \subseteq Tasks
    /\ receipt # None => receipt.executed \subseteq Tasks /\ receipt.complete \in BOOLEAN
    /\ parent \in {"idle", "launched", "waiting", "timeout", "failed", "returned"} \cup Results
    /\ trace \in Seq(Observations) /\ Len(trace) <= MaxSteps /\ clock \in 0..Wall
    /\ memory.open \in BOOLEAN /\ {memory.documents, memory.index} \subseteq Seq(Observations)

\* A receipt counts an outcome for a task at most once, however many parts they
\* came in, and is complete exactly when every executed task has one
\* (outcomes.py:54-92).
OutcomesAddUp ==
    receipt # None =>
      LET told == receipt.outcomes
      IN  /\ Cardinality(TasksOf(told)) = Len(told) /\ TasksOf(told) \subseteq receipt.executed
          /\ receipt.complete <=> TasksOf(told) = receipt.executed

\* A worker has said that its environment is closed, or that it has failed, only
\* with its memory closed, whatever failed before; and a run that has returned,
\* whichever way, has left nothing of a worker that could still touch its memory
\* (environment.py:96-98, 130-134).
ResultIsFinal ==
    /\ Exited => ~memory.open
    /\ parent \in Results => worker = parent
    /\ parent = "returned" => worker = "dead"

\* What the agent is given as evidence is what it has remembered: the index never
\* knows more or less than the list of documents, also after a step has failed,
\* and what the environment has answered so far ends it, in order (memory.py:49-57, environment.py:110-123).
MemoryIsWhatWasSeen ==
    /\ memory.index = memory.documents
    /\ worker \notin {"closing error", "error", "dead"} =>
         IsSuffix(trace, memory.documents)

\* A snapshot never changes once it is there (memory.py:85-97, "atomic
\* create-only publication").
SnapshotIsKept == [][snapshot # None => snapshot' = snapshot]_vars
=============================================================================
