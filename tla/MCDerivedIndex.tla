--------------------------- MODULE MCDerivedIndex ---------------------------
(* A small instance of DerivedIndex: a writing connection used by two       *)
(* threads, and the connection of another process.                          *)
EXTENDS DerivedIndex, TLC

CONSTANTS w, r, w1, w2, r1

MCConnOf == [cl \in Clients |-> IF cl = r1 THEN r ELSE w]
MCSymmetry ==
  Permutations(Runs) \cup Permutations(Layouts) \cup Permutations({w1, w2})
\* No guard reads reply, and a property of a step that replies is checked when
\* the step is taken: states that differ in reply alone are one state.  So are
\* those that differ in what a search would drop from a cache before it looks.
MCView ==
  <<dbvars, objects, stale, [c \in Conns |-> Refreshed(dense, c)],
    [c \in Conns |-> Refreshed(results, c)], holder, task>>
=============================================================================
