---------------------------- MODULE WorkerGroup ----------------------------
(***************************************************************************)
(* The process group of a worker on Linux, and its parent:                 *)
(* thm/runtime/fabric/resources.py (linux_worker_lifetime, ChildBudget,    *)
(* _linux_group_live, stop_owned_process_tree), thm/_process_containment   *)
(* .py (a descendant stays in the group), thm/runtime/fabric/explorer.py   *)
(* (_run, _kill) and shadow_worker.py (main).                              *)
(*                                                                         *)
(* A parent of kind "shadow" samples the group from /proc until the leader *)
(* has exited, and then decides whether the result may be accepted.  One   *)
(* of kind "owned" stops the group, whatever runs in it.                   *)
(***************************************************************************)
EXTENDS Naturals, FiniteSets, FiniteSetsExt

CONSTANTS
  Helpers,     \* processes that the leader may create
  Foreign,     \* those of them that run under another user
  Budget,      \* the I/O budget of the group
  MaxIO,       \* bound: the I/O of one process
  Leader, Nil

Processes == Helpers \cup {Leader}

VARIABLES
  state,       \* of each process: "none", "live", "zombie" or "gone"
  io,          \* the bytes it has read and written so far
  waited,      \* the leader has waited for a helper (RUSAGE_CHILDREN)
  evidence,    \* the lifetime counters printed with the result, or Nil
  hidepid,     \* /proc hides the processes of other users
  parent,      \* what the parent is doing
  stage,       \* of its samples: in the "loop", or the "final" one
  sample,      \* the total of the last scan of /proc, or Nil
  seen         \* the I/O in ChildBudget.last

vars == <<state, io, waited, evidence, hidepid, parent, stage, sample, seen>>

InState(s) == {p \in Processes : state[p] = s}
Visible == IF hidepid THEN Processes \ Foreign ELSE Processes

-----------------------------------------------------------------------------
(* The group                                                               *)

Work(p) ==
  /\ state[p] = "live"
  /\ io[p] < MaxIO
  /\ p = Leader => evidence = Nil
  /\ io' = [io EXCEPT ![p] = @ + 1]
  /\ UNCHANGED <<state, waited, evidence, hidepid, parent, stage, sample, seen>>

\* The inherited filter refuses setpgid, setsid, unshare and setns.
Fork(h) ==
  /\ state[Leader] = "live" /\ state[h] = "none"
  /\ state' = [state EXCEPT ![h] = "live"]
  /\ UNCHANGED <<io, waited, evidence, hidepid, parent, stage, sample, seen>>

Exit(p) ==
  /\ state[p] = "live"
  /\ state' = [state EXCEPT ![p] = "zombie"]
  /\ UNCHANGED <<io, waited, evidence, hidepid, parent, stage, sample, seen>>

\* A dead helper is reaped by the leader, or by init once it is an orphan
\* (in a container without an init process: never).
Reap(h) ==
  /\ state[h] = "zombie"
  /\ state' = [state EXCEPT ![h] = "gone"]
  /\ waited' = (waited \/ state[Leader] = "live")
  /\ UNCHANGED <<io, evidence, hidepid, parent, stage, sample, seen>>

\* The last act of the worker (main): its result and its counters.
Publish ==
  /\ state[Leader] = "live" /\ evidence = Nil
  /\ evidence' = [io |-> io[Leader], children |-> waited]
  /\ UNCHANGED <<state, io, waited, hidepid, parent, stage, sample, seen>>

-----------------------------------------------------------------------------
(* Accepting the result of a shadow worker                                 *)

To(where) == parent' = where
Reaped == [state EXCEPT ![Leader] = "gone"]
Exited == state[Leader] # "live"
Passed == IF stage = "loop" THEN "communicate" ELSE "lifetime"

\* _linux_usage: the live members that /proc shows; one that may not be read
\* makes the accounting unavailable.
Scan ==
  /\ parent = "scan"
  /\ LET members == InState("live") \cap Visible IN
     /\ sample' = IF members = {} THEN Nil
                  ELSE MapThenSumSet(LAMBDA p : io[p], members)
     /\ To(IF members \cap Foreign # {} THEN "raise" ELSE "judge")
  /\ UNCHANGED <<state, io, waited, evidence, hidepid, stage, seen>>

\* The rest of check: a leader that has exited by now may have left a helper.
Judge ==
  /\ parent = "judge"
  /\ IF sample = Nil
       THEN To(Passed) /\ UNCHANGED <<state, seen>>
       ELSE /\ seen' = sample
            /\ state' = IF Exited THEN Reaped ELSE state
            /\ To(IF Exited THEN "rescan"
                  ELSE IF sample > Budget THEN "raise" ELSE Passed)
  /\ UNCHANGED <<io, waited, evidence, hidepid, stage, sample>>

Rescan ==
  /\ parent = "rescan"
  /\ To(IF InState("live") \cap Visible # {} \/ sample > Budget THEN "raise"
        ELSE Passed)
  /\ UNCHANGED <<state, io, waited, evidence, hidepid, stage, sample, seen>>

Communicate_Final ==
  /\ parent = "communicate"
  /\ state' = IF Exited THEN Reaped ELSE state
  /\ To(IF Exited THEN "lifetime" ELSE "scan")
  /\ UNCHANGED <<io, waited, evidence, hidepid, stage, sample, seen>>

\* The leader has exited, or another turn of the loop.
Communicate ==
  /\ parent = "communicate"
  /\ state' = IF Exited THEN Reaped ELSE state
  /\ To("scan")
  /\ stage' = IF Exited THEN "final" ELSE "loop"
  /\ UNCHANGED <<io, waited, evidence, hidepid, sample, seen>>

\* The wall-clock budget.
TooLate ==
  /\ parent = "scan" /\ stage = "loop"
  /\ To("raise")
  /\ UNCHANGED <<state, io, waited, evidence, hidepid, stage, sample, seen>>

Larger(a, b) == IF a < b THEN b ELSE a

CheckLifetime_Sampled ==
  /\ parent = "lifetime"
  /\ UNCHANGED seen
  /\ To(IF evidence # Nil /\ ~evidence.children /\ seen <= Budget
        THEN "accepted" ELSE "raise")
  /\ UNCHANGED <<state, io, waited, evidence, hidepid, stage, sample>>

\* check_lifetime: what the worker counted itself, and no helper it reaped.
CheckLifetime ==
  /\ parent = "lifetime"
  /\ seen' = IF evidence = Nil THEN seen ELSE Larger(seen, evidence.io)
  /\ To(IF evidence # Nil /\ ~evidence.children /\ seen' <= Budget
        THEN "accepted" ELSE "raise")
  /\ UNCHANGED <<state, io, waited, evidence, hidepid, stage, sample>>

\* SIGKILL ends every process of the group that the parent may signal.
Signalled == {p \in Processes \ Foreign : state[p] \in {"live", "zombie"}}
Killed == [p \in Processes |->
             IF p \in Signalled /\ state[p] = "live" THEN "zombie" ELSE state[p]]

\* explorer.py: the group is killed, and its leader waited for.
Defer ==
  /\ parent = "raise"
  /\ state' = [Killed EXCEPT ![Leader] = "gone"]
  /\ To("deferred")
  /\ UNCHANGED <<io, waited, evidence, hidepid, stage, sample, seen>>

-----------------------------------------------------------------------------
(* Stopping an owned worker                                                *)

\* Its leader may have been polled, and so reaped, by an earlier call.
Poll ==
  /\ parent = "running" /\ state[Leader] = "zombie"
  /\ state' = Reaped
  /\ UNCHANGED <<io, waited, evidence, hidepid, parent, stage, sample, seen>>

Members == InState("live") \cup InState("zombie")

\* killpg, kill and wait.
Stop ==
  /\ parent = "running"
  /\ IF Signalled = {} /\ Members # {}
       THEN To("refused") /\ UNCHANGED state     \* PermissionError
       ELSE /\ state' = [Killed EXCEPT ![Leader] = "gone"]
            /\ To(IF Members = {} THEN "stopped" ELSE "await")
  /\ UNCHANGED <<io, waited, evidence, hidepid, stage, sample, seen>>

GroupLive_Zombies == InState("live") \cap Visible # {}

\* _linux_group_live: among visible zombies alone, a live member may be hidden.
GroupLive ==
  /\ Members # {}
  /\ InState("live") \cap Visible = {} => Members \cap Visible = {} \/ hidepid

AwaitExit ==
  /\ parent = "await"
  /\ To(IF Members # {} /\ Signalled = {} THEN "refused"
        ELSE IF GroupLive THEN "await" ELSE "stopped")
  /\ UNCHANGED <<state, io, waited, evidence, hidepid, stage, sample, seen>>

StopTooLate ==
  /\ parent = "await"
  /\ GroupLive
  /\ To("refused")
  /\ UNCHANGED <<state, io, waited, evidence, hidepid, stage, sample, seen>>

Init ==
  /\ state = [p \in Processes |-> IF p = Leader THEN "live" ELSE "none"]
  /\ io = [p \in Processes |-> 0]
  /\ waited = FALSE
  /\ evidence = Nil
  /\ hidepid \in BOOLEAN
  /\ parent \in {"scan", "running"}
  /\ stage = "loop"
  /\ sample = Nil
  /\ seen = 0

Next ==
  \/ \E p \in Processes : Work(p)
  \/ \E p \in Processes : Exit(p)
  \/ \E h \in Helpers : Fork(h)
  \/ \E h \in Helpers : Reap(h)
  \/ Publish
  \/ Scan
  \/ Judge
  \/ Rescan
  \/ Communicate
  \/ TooLate
  \/ CheckLifetime
  \/ Defer
  \/ Poll
  \/ Stop
  \/ AwaitExit
  \/ StopTooLate

Spec == Init /\ [][Next]_vars

-----------------------------------------------------------------------------
(* Properties                                                              *)

TypeOK ==
  /\ state \in [Processes -> {"none", "live", "zombie", "gone"}]
  /\ io \in [Processes -> 0..MaxIO]
  /\ waited \in BOOLEAN /\ hidepid \in BOOLEAN
  /\ evidence \in [io : 0..MaxIO, children : BOOLEAN] \cup {Nil}
  /\ parent \in {"scan", "judge", "rescan", "communicate", "lifetime", "raise",
                 "accepted", "deferred", "running", "await", "stopped", "refused"}
  /\ stage \in {"loop", "final"}
  /\ sample \in Nat \cup {Nil} /\ seen \in Nat

\* A result that was accepted is the result of a worker that has exited within
\* its budget, and no helper of the same user outlives it (explorer.py:106).
AcceptedIsAlone ==
  parent = "accepted" =>
    /\ io[Leader] <= Budget
    /\ InState("live") \subseteq Foreign

\* stop_owned_process_tree returns only when nothing of the group is left
\* running, whatever /proc hides and whoever the members run as.
StoppedIsEmpty == parent = "stopped" => InState("live") = {}
=============================================================================
