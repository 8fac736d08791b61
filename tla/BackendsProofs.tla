--------------------------- MODULE BackendsProofs ---------------------------
(***************************************************************************)
(* Proofs about Backends, for any backends, objects, transactions, crashes *)
(* and damage, and any profiles, sessions and settings: what the journal   *)
(* says of a write agrees with what its worker did to the root, and no     *)
(* worker outlives the call it serves but one whose stop the row tells of; *)
(* and what a provider reports is of the session it reports it for.        *)
(***************************************************************************)
EXTENDS Backends, SequenceTheorems, FiniteSetTheorems, TLAPS

-----------------------------------------------------------------------------
(* Storage backends                                                        *)

Requests ==
  [method : Methods \cup {"none"}, tx : Transactions \cup {Nil}, key : Keys \cup {Nil},
   sent : BOOLEAN, raised : Raised]
Workers == [alive : BOOLEAN, doing : Requests, half : BOOLEAN, reply : Replies]
Entries ==
  [state : Rows \cup {"none"}, owner : Backends \cup {Nil}, key : Keys \cup {Nil},
   kept : BOOLEAN, error : Raised]

Shapes ==
  /\ state \in [Backends -> {"ready", "quarantined", "closed"}]
  /\ call \in [Backends -> Requests]
  /\ journal \in [Transactions -> Entries]
  /\ current \in [Backends -> Slots \cup {Nil}]
  /\ process \in [Backends -> [Slots -> Workers]]
  /\ objects \in [Keys -> {"absent", "good", "damaged"}]
  /\ pending \subseteq Transactions /\ published \subseteq Transactions
  /\ spoiled \subseteq Transactions
  /\ crashes \in 0..MaxCrashes /\ damage \in 0..MaxDamage
  /\ refusals \in [Backends -> 0..MaxRefusals]

\* The worker of a backend works on the call that was sent to it, or on nothing.
Served(b) ==
  /\ call[b].sent => current[b] # Nil /\ process[b][current[b]].doing = call[b]
  /\ ~call[b].sent /\ current[b] # Nil => process[b][current[b]].doing = Resting

\* The write of t was answered by a stop that raised, or has been, and its row
\* tells.
Told(b, t) ==
  /\ journal[t].owner = b
  /\ IF call[b].tx = t THEN call[b].raised = "refused" ELSE Accounted(t)

\* A worker that was forgotten, if it still works for a write, works for one of
\* which that is told; it publishes only what may be published.
Loose(b, s) ==
  /\ refusals[b] # 0
  /\ /\ process[b][s].reply = "none"
     /\ process[b][s].doing.method \in Writing \/ process[b][s].doing.tx # Nil
     => /\ process[b][s].doing.tx \in Transactions
        /\ Told(b, process[b][s].doing.tx)
        /\ process[b][s].doing.method = "commit" =>
             journal[process[b][s].doing.tx].state = "indeterminate-commit"

Forgotten(b) ==
  \A s \in Slots : process[b][s].alive /\ s # current[b] => Loose(b, s)

\* The rows a write may have while it makes a call.
Before(m) ==
  CASE m = "stage" -> {"staging"}
    [] m = "commit" -> {"indeterminate-commit"}
    [] m = "verify" -> {"published-unverified"}
    [] OTHER -> Rows \ {"verified", "aborted"}

\* A call of a write is for the row that the same backend has made of it.
Journalled(b) ==
  /\ call[b].method = "none" => call[b] = Resting
  /\ call[b].method \in Writing <=> call[b].tx # Nil
  /\ call[b].method \in Writing =>
       /\ call[b].key \in Keys
       /\ journal[call[b].tx].owner = b /\ journal[call[b].tx].key = call[b].key
       /\ journal[call[b].tx].state \in Before(call[b].method)
  /\ call[b].method = "read" => call[b].key \in Keys
  /\ call[b].raised # "none" => call[b].method = "abort"
  /\ call[b].method \in Writing \ {"abort"} \/ call[b].raised = "refused" =>
       state[b] = "ready"

\* A write whose commit or abort has answered has no file of its own left, and
\* is not spoiled once it has read its object back; but for one whose worker
\* could not be stopped.
Cleaned(b) ==
  /\ call[b].raised # "refused"
  /\ call[b].method = "verify" \/ (call[b].method \in {"commit", "abort"} /\ Reply(b) = "ok")
  => call[b].tx \notin pending

ReadBack(b) == call[b].method = "verify" /\ Reply(b) = "ok" => call[b].tx \notin spoiled

\* Nothing is published before the journal says that it may be.
Announced ==
  \A t \in Transactions :
    journal[t].state \in {"none", "staging", "aborted"} => t \notin published

\* A spoiled write is one of an object that is damaged, and stays so.
Spoiled ==
  \A t \in spoiled :
    journal[t].key \in Keys /\ objects[journal[t].key] = "damaged"

\* Rows that were begun have an owner.
Owned ==
  \A t \in Transactions :
    /\ journal[t].state = "none" => journal[t] = NoRow
    /\ journal[t].state # "none" => journal[t].owner \in Backends

BackendInv(b) == Served(b) /\ Forgotten(b) /\ Journalled(b) /\ Cleaned(b) /\ ReadBack(b)

StorageInv ==
  /\ Shapes
  /\ \A b \in Backends : BackendInv(b)
  /\ Owned
  /\ Announced
  /\ Spoiled
  /\ LeavesNoFiles
  /\ DamagedIsNotVerified

-----------------------------------------------------------------------------
(* One backend and its worker                                              *)

\* What a step of backend b does to the others' calls and workers, and to its
\* own: a worker that is alive and not the backend's was so before, or could not
\* be stopped.
Exchanged(b) ==
  /\ call' \in [Backends -> Requests]
  /\ current' \in [Backends -> Slots \cup {Nil}]
  /\ process' \in [Backends -> [Slots -> Workers]]
  /\ refusals' \in [Backends -> 0..MaxRefusals]
  /\ Served(b)'
  /\ Reply(b)' = "none"
  /\ refusals[b] # 0 => refusals'[b] # 0
  /\ \A s \in Slots : process'[b][s].alive /\ s # current'[b] =>
       /\ process'[b][s] = process[b][s]
       /\ s = current[b] => Refused(b) /\ refusals'[b] # 0
  /\ \A c \in Backends \ {b} :
       /\ call'[c] = call[c] /\ current'[c] = current[c] /\ process'[c] = process[c]
       /\ refusals'[c] = refusals[c]

LEMMA RestingIsRequest == Resting \in Requests /\ Stopped \in Workers /\ ~Stopped.alive
BY DEF Resting, Requests, Stopped, Workers, Replies, Raised

\* A change of one worker.
LEMMA WorkerChanges ==
  ASSUME Shapes, NEW b \in Backends, NEW s \in Slots, NEW r \in Workers,
         process' = [process EXCEPT ![b][s] = r]
  PROVE  /\ process' \in [Backends -> [Slots -> Workers]]
         /\ process'[b][s] = r
         /\ \A z \in Slots : z # s => process'[b][z] = process[b][z]
         /\ \A c \in Backends : c # b => process'[c] = process[c]
<1>1. process[b] \in [Slots -> Workers]
  BY DEF Shapes
<1>2. process' = [process EXCEPT ![b] = [process[b] EXCEPT ![s] = r]]
  OBVIOUS
<1>3. [process[b] EXCEPT ![s] = r] \in [Slots -> Workers]
  BY <1>1
<1>4. QED BY <1>1, <1>2, <1>3 DEF Shapes

\* The worker is stopped, or cannot be, and the next call is not yet sent.
LEMMA StopExchanges ==
  ASSUME Shapes, NEW b \in Backends, Stops(b) \/ Refused(b),
         NEW q \in Requests, ~q.sent, call' = [call EXCEPT ![b] = q]
  PROVE  Exchanged(b) /\ call'[b] = q
<1>1. /\ call' \in [Backends -> Requests] /\ call'[b] = q
      /\ \A c \in Backends \ {b} : call'[c] = call[c]
  BY DEF Shapes
<1>2. /\ current' \in [Backends -> Slots \cup {Nil}] /\ current'[b] = Nil
      /\ \A c \in Backends \ {b} : current'[c] = current[c]
  BY DEF Shapes, Stops, Refused
<1>3. /\ process' \in [Backends -> [Slots -> Workers]]
      /\ \A s \in Slots : process'[b][s].alive =>
           process'[b][s] = process[b][s] /\ (s = current[b] => Refused(b))
      /\ \A c \in Backends \ {b} : process'[c] = process[c]
  <2>1. CASE process' = process
    <3>1. Stops(b) => current[b] = Nil \/ process[b][current[b]] = Stopped
      <4>1. SUFFICES ASSUME Stops(b), current[b] # Nil
                     PROVE  process[b][current[b]] = Stopped
        OBVIOUS
      <4>2. current[b] \in Slots /\ process' = [process EXCEPT ![b][current[b]] = Stopped]
        BY <4>1 DEF Stops, Shapes
      <4>3. process'[b][current[b]] = Stopped
        BY <4>2, WorkerChanges, RestingIsRequest
      <4>4. QED BY <2>1, <4>3
    <3>2. QED BY <2>1, <3>1, RestingIsRequest, StorageAssumption DEF Shapes
  <2>2. CASE current[b] # Nil /\ process' = [process EXCEPT ![b][current[b]] = Stopped]
    <3>1. current[b] \in Slots
      BY <2>2 DEF Shapes
    <3>2. QED BY <2>2, <3>1, WorkerChanges, RestingIsRequest
  <2>3. QED BY <2>1, <2>2 DEF Stops, Refused
<1>4. /\ refusals' \in [Backends -> 0..MaxRefusals]
      /\ refusals[b] # 0 => refusals'[b] # 0
      /\ Refused(b) => refusals'[b] # 0
      /\ \A c \in Backends \ {b} : refusals'[c] = refusals[c]
  <2>1. refusals \in [Backends -> 0..MaxRefusals] /\ MaxRefusals \in Nat
    BY StorageAssumption DEF Shapes
  <2>2. CASE refusals' = refusals /\ ~Refused(b)
    BY <2>1, <2>2
  <2>3. CASE Refused(b)
    BY <2>1, <2>3 DEF Refused
  <2>4. QED BY <2>2, <2>3 DEF Stops
<1>5. Served(b)' /\ Reply(b)' = "none"
  BY <1>1, <1>2 DEF Served, Reply
<1>6. QED BY <1>1, <1>2, <1>3, <1>4, <1>5 DEF Exchanged

\* The backend's worker is changed, and stays its worker or becomes it.
LEMMA WorkerExchanges ==
  ASSUME Shapes, NEW b \in Backends, NEW s \in Slots, NEW r \in Workers, NEW q \in Requests,
         current[b] \in {s, Nil},
         process' = [process EXCEPT ![b][s] = r],
         call' = [call EXCEPT ![b] = q],
         current' = [current EXCEPT ![b] = s],
         refusals' = refusals,
         r.doing = (IF q.sent THEN q ELSE Resting), r.reply = "none"
  PROVE  Exchanged(b) /\ call'[b] = q
<1>1. /\ call' \in [Backends -> Requests] /\ call'[b] = q
      /\ \A c \in Backends \ {b} : call'[c] = call[c]
  BY DEF Shapes
<1>2. /\ current' \in [Backends -> Slots \cup {Nil}] /\ current'[b] = s
      /\ \A c \in Backends \ {b} : current'[c] = current[c]
  BY DEF Shapes
<1>3. /\ process' \in [Backends -> [Slots -> Workers]]
      /\ process'[b][s] = r
      /\ \A z \in Slots : z # s => process'[b][z] = process[b][z]
      /\ \A c \in Backends : c # b => process'[c] = process[c]
  BY WorkerChanges
<1>4. s # Nil
  BY StorageAssumption
<1>5. Served(b)' /\ Reply(b)' = "none"
  BY <1>1, <1>2, <1>3, <1>4 DEF Served, Reply
<1>6. QED BY <1>1, <1>2, <1>3, <1>4, <1>5, StorageAssumption DEF Exchanged, Shapes

\* An answer is consumed, and the operation ends.
LEMMA ConsumeExchanges ==
  ASSUME Shapes, NEW b \in Backends, Served(b), call[b].sent, Consumed(b),
         call' = [call EXCEPT ![b] = Resting]
  PROVE  Exchanged(b)
<1> DEFINE s == current[b]
           r == [process[b][s] EXCEPT !.reply = "none", !.doing = Resting]
<1>1. s \in Slots
  BY DEF Served, Shapes
<1>2. r \in Workers /\ r.doing = Resting /\ r.reply = "none"
  <2>1. process[b][s] \in Workers
    BY <1>1 DEF Shapes
  <2>2. QED BY <2>1, RestingIsRequest DEF Workers, Replies
<1>3. process' = [process EXCEPT ![b][s] = r]
  BY <1>1 DEF Consumed, Shapes
<1>4. /\ ~Resting.sent /\ Resting \in Requests
      /\ current' = [current EXCEPT ![b] = s] /\ refusals' = refusals
  BY RestingIsRequest DEF Resting, Consumed, Shapes
<1> HIDE DEF r
<1>5. QED BY <1>1, <1>2, <1>3, <1>4, WorkerExchanges

\* The next call is made to the worker that answered.
LEMMA ContinueExchanges ==
  ASSUME Shapes, NEW b \in Backends, Served(b), call[b].sent, NEW m \in Methods,
         NEW why \in Raised, Continues(b, m, why)
  PROVE  Exchanged(b) /\ call'[b] = [call[b] EXCEPT !.method = m, !.raised = why]
<1> DEFINE s == current[b]
           q == [call[b] EXCEPT !.method = m, !.raised = why]
           r == [process[b][s] EXCEPT !.doing = q, !.half = FALSE, !.reply = "none"]
<1>1. call[b] \in Requests
  BY DEF Shapes
<1>2. q \in Requests /\ q.sent
  BY <1>1 DEF Requests
<1>3. call' = [call EXCEPT ![b] = q] /\ refusals' = refusals
  BY DEF Continues
<1>4. s \in Slots /\ current' = [current EXCEPT ![b] = s]
  BY DEF Served, Shapes, Continues
<1>5. r \in Workers /\ r.doing = q /\ r.reply = "none"
  <2>1. process[b][s] \in Workers
    BY <1>4 DEF Shapes
  <2>2. QED BY <1>2, <2>1 DEF Workers, Replies
<1>6. process' = [process EXCEPT ![b][s] = r]
  BY <1>4 DEF Continues, Shapes
<1> HIDE DEF r, q
<1>7. Exchanged(b) /\ call'[b] = q
  BY <1>2, <1>3, <1>4, <1>5, <1>6, WorkerExchanges
<1>8. QED BY <1>7 DEF q

\* A call is sent, to the worker there is or to a new one.
LEMMA SendExchanges ==
  ASSUME Shapes, NEW b \in Backends, Send(b)
  PROVE  Exchanged(b) /\ call'[b] = [call[b] EXCEPT !.sent = TRUE]
<1> DEFINE q == [call[b] EXCEPT !.sent = TRUE]
<1>1. call[b] \in Requests
  BY DEF Shapes
<1>2. q \in Requests /\ q.sent
  BY <1>1 DEF Requests
<1>3. call' = [call EXCEPT ![b] = q] /\ refusals' = refusals
  BY DEF Send
<1>4. call'[b] = q
  BY <1>3 DEF Shapes
<1>5. PICK s \in Slots :
        /\ IF current[b] = Nil THEN ~process[b][s].alive ELSE s = current[b]
        /\ current' = [current EXCEPT ![b] = s]
        /\ process' = [process EXCEPT ![b][s] =
             [alive |-> @.alive \/ current[b] = Nil, doing |-> call'[b],
              half |-> FALSE, reply |-> "none"]]
  BY DEF Send
<1> DEFINE r == [alive |-> process[b][s].alive \/ current[b] = Nil, doing |-> q,
                 half |-> FALSE, reply |-> "none"]
<1>6. process[b][s] \in Workers
  BY DEF Shapes
<1>7. r \in Workers /\ r.doing = q /\ r.reply = "none"
  <2>1. (process[b][s].alive \/ current[b] = Nil) \in BOOLEAN
    OBVIOUS
  <2>2. QED BY <1>2, <1>6, <2>1 DEF Workers, Replies
<1>8. process' = [process EXCEPT ![b][s] = r]
  BY <1>4, <1>5, <1>6 DEF Shapes
<1>9. current[b] \in {s, Nil}
  BY <1>5
<1> HIDE DEF r, q
<1>10. Exchanged(b)
  BY <1>2, <1>3, <1>5, <1>7, <1>8, <1>9, WorkerExchanges
<1>11. QED BY <1>4, <1>10 DEF q

\* An operation begins: its first call is not yet sent.
LEMMA BeginExchanges ==
  ASSUME Shapes, NEW b \in Backends, Served(b), call[b] = Resting,
         NEW q \in Requests, ~q.sent, call' = [call EXCEPT ![b] = q],
         UNCHANGED <<current, process, refusals>>
  PROVE  Exchanged(b) /\ call'[b] = q
<1>1. /\ call' \in [Backends -> Requests] /\ call'[b] = q
      /\ \A c \in Backends \ {b} : call'[c] = call[c]
  BY DEF Shapes
<1>2. ~call[b].sent
  BY DEF Resting
<1>3. Served(b)' /\ Reply(b)' = "none"
  BY <1>1, <1>2 DEF Served, Reply
<1>4. QED BY <1>1, <1>3 DEF Exchanged, Shapes

-----------------------------------------------------------------------------
(* Rows                                                                    *)

\* Two backends never write for the same row.
LEMMA RowsApart ==
  ASSUME NEW b \in Backends, NEW c \in Backends, b # c, Journalled(b), Journalled(c),
         call[b].tx # Nil
  PROVE  call[c].tx # call[b].tx
BY DEF Journalled

\* The rows that another backend has made are left as they are, and what is told
\* of those of this one is still told.
RowsStay(b) ==
  /\ \A u \in Transactions : journal[u].owner \in Backends \ {b} => journal'[u] = journal[u]
  /\ \A u \in Transactions : Told(b, u) =>
       /\ Told(b, u)'
       /\ journal[u].state = "indeterminate-commit" => journal'[u].state = journal[u].state

\* What is told of a worker that cannot be stopped in the middle of a call.
Escapes(b) ==
  \A t \in Transactions :
    Refused(b) /\ call[b].method \in Writing /\ call[b].tx = t /\ Reply(b) = "none" =>
      /\ Told(b, t)'
      /\ call[b].method = "commit" => journal'[t].state = "indeterminate-commit"

LEMMA ForgottenKeeps ==
  ASSUME StorageInv, NEW b \in Backends, Exchanged(b), RowsStay(b), Escapes(b)
  PROVE  Forgotten(b)'
<1>1. Shapes /\ BackendInv(b)
  BY DEF StorageInv
<1>2. SUFFICES ASSUME NEW s \in Slots, process'[b][s].alive, s # current'[b]
               PROVE  Loose(b, s)'
  BY DEF Forgotten
<1>3. process'[b][s] = process[b][s] /\ (s = current[b] => Refused(b) /\ refusals'[b] # 0)
      /\ (refusals[b] # 0 => refusals'[b] # 0)
  BY <1>2 DEF Exchanged
<1>4. process[b][s] \in Workers /\ process[b][s].doing \in Requests
  BY <1>1 DEF Shapes, Workers
<1>5. CASE s # current[b]
  <2>1. Loose(b, s)
    BY <1>1, <1>2, <1>3, <1>5 DEF BackendInv, Forgotten
  <2>2. QED BY <1>3, <2>1 DEF Loose, RowsStay
<1>6. CASE s = current[b]
  <2>1. SUFFICES ASSUME process[b][s].reply = "none", NEW t, t = process[b][s].doing.tx,
                        process[b][s].doing.method \in Writing \/ t # Nil
                 PROVE  /\ t \in Transactions
                        /\ Told(b, t)'
                        /\ process[b][s].doing.method = "commit" =>
                             journal'[t].state = "indeterminate-commit"
    BY <1>3, <1>6, Zenon DEF Loose
  <2>2. s # Nil /\ Resting.method \notin Writing /\ Resting.tx = Nil
    BY StorageAssumption DEF Resting, Writing
  <2>3. call[b].sent /\ process[b][s].doing = call[b]
    BY <1>1, <1>6, <2>1, <2>2 DEF BackendInv, Served, Shapes, Requests
  <2>4. t \in Transactions /\ call[b].method \in Writing
    BY <1>1, <1>4, <2>1, <2>3 DEF BackendInv, Journalled, Requests
  <2>5. Reply(b) = "none"
    BY <1>6, <2>1, <2>3 DEF Reply
  <2>6. Refused(b)
    BY <1>3, <1>6
  <2>7. QED BY <2>1, <2>3, <2>4, <2>5, <2>6 DEF Escapes
<1>7. QED BY <1>5, <1>6

\* What a step of backend b leaves to be shown, for the calls of all.
LEMMA CallsKeep ==
  ASSUME StorageInv, NEW b \in Backends, Exchanged(b), Journalled(b)',
         RowsStay(b), Escapes(b),
         call'[b].method = "verify" => call'[b].tx \notin pending,
         pending' = pending,
         \A c \in Backends \ {b} :
           /\ state'[c] = state[c]
           /\ call[c].tx \in spoiled' => call[c].tx \in spoiled \cup {Nil}
  PROVE  \A c \in Backends : BackendInv(c)'
<1>1. ASSUME NEW c \in Backends, c # b
      PROVE  BackendInv(c)'
  <2>1. call'[c] = call[c] /\ current'[c] = current[c] /\ process'[c] = process[c]
        /\ refusals'[c] = refusals[c] /\ state'[c] = state[c]
    BY <1>1 DEF Exchanged
  <2>2. BackendInv(c) /\ call[c] \in Requests
    BY DEF StorageInv, Shapes
  <2>3. Reply(c)' = Reply(c)
    BY <2>1 DEF Reply
  <2>4. Served(c)'
    BY <2>1, <2>2 DEF BackendInv, Served
  <2>5. call[c].tx # Nil => journal'[call[c].tx] = journal[call[c].tx]
    <3>1. SUFFICES ASSUME call[c].tx # Nil
                   PROVE  journal'[call[c].tx] = journal[call[c].tx]
      OBVIOUS
    <3>2. call[c].tx \in Transactions /\ journal[call[c].tx].owner = c
      BY <2>2, <3>1 DEF BackendInv, Journalled, Requests
    <3>3. QED BY <1>1, <3>2 DEF RowsStay
  <2>6. Journalled(c)'
    BY <1>1, <2>1, <2>2, <2>5 DEF BackendInv, Journalled
  <2>7. Forgotten(c)'
    <3>1. SUFFICES ASSUME NEW s \in Slots, process'[c][s].alive, s # current'[c]
                   PROVE  Loose(c, s)'
      BY DEF Forgotten
    <3>2. Loose(c, s)
      BY <2>1, <2>2, <3>1 DEF BackendInv, Forgotten
    <3>3. \A t \in Transactions : Told(c, t) => journal'[t] = journal[t] /\ Told(c, t)'
      BY <1>1, <2>1 DEF RowsStay, Told, Accounted
    <3>4. QED BY <2>1, <3>2, <3>3 DEF Loose
  <2>8. Cleaned(c)'
    BY <2>1, <2>2, <2>3 DEF BackendInv, Cleaned
  <2>9. ReadBack(c)'
    <3>1. CASE call[c].method = "verify"
      <4>1. call[c].tx # Nil
        BY <2>2, <3>1 DEF BackendInv, Journalled, Writing
      <4>2. QED BY <1>1, <2>1, <2>2, <2>3, <4>1 DEF BackendInv, ReadBack
    <3>2. CASE call[c].method # "verify"
      BY <2>1, <3>2 DEF ReadBack
    <3>3. QED BY <3>1, <3>2
  <2>10. QED BY <2>4, <2>6, <2>7, <2>8, <2>9 DEF BackendInv
<1>2. BackendInv(b)'
  <2>1. Forgotten(b)'
    BY ForgottenKeeps
  <2>2. Cleaned(b)' /\ ReadBack(b)'
    BY DEF Exchanged, Cleaned, ReadBack
  <2>3. QED BY <2>1, <2>2 DEF BackendInv, Exchanged
<1>3. QED BY <1>1, <1>2

\* A write that goes on, or a call that is not one of a write, changes no row's
\* owner, object and record of cleaning up.
LEMMA RowsKeep ==
  ASSUME StorageInv, NEW b \in Backends, Exchanged(b),
         call'[b].tx = call[b].tx, journal' = journal,
         UNCHANGED <<objects, pending, published, spoiled>>
  PROVE  Owned' /\ Announced' /\ Spoiled' /\ LeavesNoFiles' /\ DamagedIsNotVerified'
<1>1. \A t \in Transactions : Returned(t)' = Returned(t)
  <2>1. \A c \in Backends : call'[c].tx = call[c].tx
    BY DEF Exchanged
  <2>2. QED BY <2>1 DEF Returned
<1>2. QED
  BY <1>1 DEF StorageInv, Owned, Announced, Spoiled, LeavesNoFiles, Accounted,
              DamagedIsNotVerified

\* The row of a write whose call is made is changed.
LEMMA RowChanges ==
  ASSUME StorageInv, NEW b \in Backends, call[b].tx # Nil,
         NEW e \in Entries, journal' = [journal EXCEPT ![call[b].tx] = e]
  PROVE  /\ call[b].tx \in Transactions
         /\ journal' \in [Transactions -> Entries]
         /\ journal'[call[b].tx] = e
         /\ \A t \in Transactions : t # call[b].tx => journal'[t] = journal[t]
         /\ \A u \in Transactions :
              journal[u].owner \in Backends \ {b} => journal'[u] = journal[u]
<1>1. \A c \in Backends : call[c] \in Requests
  BY DEF StorageInv, Shapes
<1>2. \A c \in Backends : call[c].tx \in Transactions \cup {Nil}
  BY <1>1 DEF Requests
<1>3. journal[call[b].tx].owner = b
  BY DEF StorageInv, BackendInv, Journalled
<1>4. QED BY <1>2, <1>3 DEF StorageInv, Shapes

\* What a new state of that row leaves to be shown: nothing is told yet of a
\* write that is not aborted.
LEMMA MarkKeeps ==
  ASSUME StorageInv, NEW b \in Backends, call[b].method \in Writing \ {"abort"},
         NEW s \in Rows, s \notin {"staging", "aborted"}, Mark(b, s), Exchanged(b),
         \/ call'[b].tx = call[b].tx
         \/ call[b].tx \notin pending /\ call'[b] = Resting,
         s = "verified" => call[b].tx \notin spoiled,
         UNCHANGED <<objects, pending, published, spoiled>>
  PROVE  /\ journal' \in [Transactions -> Entries]
         /\ journal'[call[b].tx] = [journal[call[b].tx] EXCEPT !.state = s]
         /\ RowsStay(b)
         /\ Owned' /\ Announced' /\ Spoiled' /\ LeavesNoFiles' /\ DamagedIsNotVerified'
<1> PICK t : t = call[b].tx
  OBVIOUS
<1> DEFINE e == [journal[t] EXCEPT !.state = s]
<1>1. Journalled(b) /\ t # Nil /\ call[b].raised = "none"
  BY DEF StorageInv, BackendInv, Journalled
<1>2. t \in Transactions /\ journal[t] \in Entries
  <2>1. call[b] \in Requests
    BY DEF StorageInv, Shapes
  <2>2. QED BY <1>1, <2>1 DEF Requests, StorageInv, Shapes
<1>3. e \in Entries /\ e.state = s /\ e.key = journal[t].key /\ e.kept = journal[t].kept
      /\ e.owner = b /\ e.error = journal[t].error
  BY <1>1, <1>2 DEF Entries, Journalled
<1>4. journal' = [journal EXCEPT ![t] = e]
  BY DEF Mark
<1> HIDE DEF e
<1>5. /\ journal' \in [Transactions -> Entries] /\ journal'[t] = e
      /\ \A u \in Transactions : u # t => journal'[u] = journal[u]
      /\ \A u \in Transactions :
           journal[u].owner \in Backends \ {b} => journal'[u] = journal[u]
  BY <1>1, <1>3, <1>4, RowChanges
<1>6. Owned'
  BY <1>3, <1>5 DEF StorageInv, Owned, Rows
<1>7. Announced'
  BY <1>3, <1>5 DEF StorageInv, Announced, Rows
<1>8. Spoiled'
  BY <1>2, <1>3, <1>5 DEF StorageInv, Shapes, Spoiled
<1>9. LeavesNoFiles'
  <2>1. ASSUME NEW u \in Transactions, Returned(u)', ~Accounted(u)', u # t
        PROVE  u \notin pending
    <3>1. Returned(u) /\ ~Accounted(u)
      BY <1>5, <2>1, ZenonT(60) DEF Returned, Exchanged, Accounted
    <3>2. QED BY <2>1, <3>1 DEF StorageInv, LeavesNoFiles
  <2>2. ASSUME Returned(t)'
        PROVE  t \notin pending
    BY <2>2 DEF Returned
  <2>3. QED BY <2>1, <2>2 DEF LeavesNoFiles
<1>10. DamagedIsNotVerified'
  <2>1. ASSUME NEW u \in spoiled, u # t
        PROVE  journal'[u].state # "verified"
    BY <1>5, <2>1 DEF StorageInv, Shapes, DamagedIsNotVerified
  <2>2. t \in spoiled => journal'[t].state # "verified"
    BY <1>3, <1>5
  <2>3. QED BY <2>1, <2>2 DEF DamagedIsNotVerified
<1>11. RowsStay(b)
  <2>1. ASSUME NEW u \in Transactions, Told(b, u)
        PROVE  Told(b, u)' /\ journal'[u].state = journal[u].state
    <3>1. u # t
      BY <1>1, <2>1 DEF Told
    <3>2. call'[b].tx # u
      BY <3>1, StorageAssumption DEF Resting
    <3>3. QED BY <1>5, <2>1, <3>1, <3>2 DEF Told, Accounted
  <2>2. QED BY <1>5, <2>1 DEF RowsStay
<1>12. QED BY <1>5, <1>6, <1>7, <1>8, <1>9, <1>10, <1>11 DEF e

\* The rows of a write that ends: aborted if nothing was published, and clean
\* unless the journal says that it is not.
LEMMA EndKeeps ==
  ASSUME StorageInv, NEW b \in Backends, call[b].method = "abort", NEW k \in BOOLEAN,
         Ended(b, k) \/ (Broken(b, k) /\ (k \/ call[b].raised # "refused")), Exchanged(b),
         ~k /\ call[b].raised # "refused" => call[b].tx \notin pending,
         UNCHANGED <<objects, pending, published, spoiled>>
  PROVE  /\ journal' \in [Transactions -> Entries]
         /\ RowsStay(b)
         /\ k => Escapes(b)
         /\ Owned' /\ Announced' /\ Spoiled' /\ LeavesNoFiles' /\ DamagedIsNotVerified'
<1> PICK t : t = call[b].tx
  OBVIOUS
<1>1. /\ Journalled(b) /\ t # Nil /\ journal[t].state \in Rows \ {"verified", "aborted"}
      /\ journal[t].owner = b
  BY DEF StorageInv, BackendInv, Journalled, Writing, Before
<1>2. t \in Transactions /\ journal[t] \in Entries /\ call[b].raised \in Raised
  <2>1. call[b] \in Requests
    BY DEF StorageInv, Shapes
  <2>2. QED BY <1>1, <2>1 DEF Requests, StorageInv, Shapes
<1>3. PICK e \in Entries :
        /\ journal' = [journal EXCEPT ![t] = e]
        /\ e.owner = b /\ e.key = journal[t].key /\ e.kept = k
        /\ e.state = journal[t].state \/ (e.state = "aborted" /\ journal[t].state = "staging")
        /\ call[b].raised = "refused" => k \/ e.error = "refused"
  <2>1. CASE Ended(b, k)
    <3> DEFINE z == IF journal[t].state = "staging" THEN "aborted" ELSE journal[t].state
               e == [journal[t] EXCEPT !.kept = k, !.error = call[b].raised, !.state = z]
    <3>1. z \in Rows
      BY <1>1 DEF Rows
    <3>2. e \in Entries /\ e.owner = b /\ e.key = journal[t].key /\ e.kept = k /\ e.state = z
          /\ e.error = call[b].raised
      BY <1>1, <1>2, <3>1 DEF Entries
    <3>3. journal' = [journal EXCEPT ![t] = e]
      BY <1>2, <2>1 DEF Ended, StorageInv, Shapes, Entries
    <3>4. QED BY <3>2, <3>3
  <2>2. CASE Broken(b, k) /\ (k \/ call[b].raised # "refused")
    <3> DEFINE e == [journal[t] EXCEPT !.kept = k]
    <3>1. e \in Entries /\ e.owner = b /\ e.key = journal[t].key /\ e.kept = k
          /\ e.state = journal[t].state
      BY <1>1, <1>2 DEF Entries
    <3>2. journal' = [journal EXCEPT ![t] = e]
      BY <1>2, <2>2 DEF Broken, StorageInv, Shapes, Entries
    <3>3. QED BY <2>2, <3>1, <3>2
  <2>3. QED BY <2>1, <2>2
<1>4. call'[b] = Resting /\ Resting.tx = Nil
  BY DEF Ended, Broken, StorageInv, Shapes, Resting
<1>5. /\ journal' \in [Transactions -> Entries] /\ journal'[t] = e
      /\ \A u \in Transactions : u # t => journal'[u] = journal[u]
      /\ \A u \in Transactions :
           journal[u].owner \in Backends \ {b} => journal'[u] = journal[u]
  BY <1>1, <1>3, RowChanges
<1>6. e.state \in Rows \ {"verified"} /\ (e.state = "aborted" => journal[t].state = "staging")
  BY <1>1, <1>3 DEF Rows
<1>7. Owned'
  BY <1>3, <1>5, <1>6 DEF StorageInv, Owned, Rows
<1>8. Announced'
  BY <1>2, <1>3, <1>5, <1>6 DEF StorageInv, Announced, Rows
<1>9. Spoiled'
  BY <1>2, <1>3, <1>5 DEF StorageInv, Shapes, Spoiled
<1>10. LeavesNoFiles'
  <2>1. ASSUME NEW u \in Transactions, Returned(u)', ~Accounted(u)', u # t
        PROVE  u \notin pending
    <3>1. Returned(u) /\ ~Accounted(u)
      BY <1>5, <2>1, ZenonT(60) DEF Returned, Exchanged, Accounted
    <3>2. QED BY <2>1, <3>1 DEF StorageInv, LeavesNoFiles
  <2>2. ~Accounted(t)' => t \notin pending
    BY <1>3, <1>5 DEF Accounted
  <2>3. QED BY <2>1, <2>2 DEF LeavesNoFiles
<1>11. DamagedIsNotVerified'
  <2>1. ASSUME NEW u \in spoiled, u # t
        PROVE  journal'[u].state # "verified"
    BY <1>5, <2>1 DEF StorageInv, Shapes, DamagedIsNotVerified
  <2>2. journal'[t].state # "verified"
    BY <1>5, <1>6
  <2>3. QED BY <2>1, <2>2 DEF DamagedIsNotVerified
<1>12. RowsStay(b)
  <2>1. ASSUME NEW u \in Transactions, Told(b, u)
        PROVE  /\ Told(b, u)'
               /\ journal[u].state = "indeterminate-commit" => journal'[u].state = journal[u].state
    <3>1. call'[b].tx # u
      BY <1>4, StorageAssumption
    <3>2. CASE u = t
      <4>1. call[b].raised = "refused"
        BY <2>1, <3>2 DEF Told
      <4>2. QED BY <1>3, <1>5, <3>1, <3>2, <4>1 DEF Told, Accounted
    <3>3. CASE u # t
      BY <1>5, <2>1, <3>1, <3>3 DEF Told, Accounted
    <3>4. QED BY <3>2, <3>3
  <2>2. QED BY <1>5, <2>1 DEF RowsStay
<1>13. k => Escapes(b)
  BY <1>1, <1>3, <1>4, <1>5 DEF Escapes, Told, Accounted
<1>14. QED BY <1>5, <1>7, <1>8, <1>9, <1>10, <1>11, <1>12, <1>13

-----------------------------------------------------------------------------
(* Operations                                                              *)

\* What an answered call has in the invariant.
LEMMA AnsweredFacts ==
  ASSUME StorageInv, NEW b \in Backends
  PROVE  /\ Shapes /\ Served(b) /\ Journalled(b) /\ call[b] \in Requests
         /\ \A r : Answers(b, r) /\ "none" \notin r => call[b].sent
         /\ Answers(b, {"ok"}) => Reply(b) = "ok"
BY DEF StorageInv, BackendInv, Shapes, Answers, Reply

\* An operation that does not write, or the sending of any call.
LEMMA PlainKeeps ==
  ASSUME StorageInv, NEW b \in Backends, Exchanged(b), Journalled(b)', Escapes(b),
         state' \in [Backends -> {"ready", "quarantined", "closed"}],
         \A c \in Backends \ {b} : state'[c] = state[c],
         call'[b].tx = call[b].tx,
         call[b].raised = "refused" => call'[b].raised = "refused",
         call'[b].method = "verify" => call[b].method = "verify",
         UNCHANGED <<journal, root, crashes>>
  PROVE  StorageInv'
<1>1. UNCHANGED <<objects, pending, published, damage, spoiled>>
  BY DEF root
<1>2. Shapes'
  BY <1>1 DEF StorageInv, Shapes, Exchanged
<1>3. \A c \in Backends : BackendInv(c)'
  <2>1. call'[b].method = "verify" => call'[b].tx \notin pending
    BY DEF StorageInv, BackendInv, Journalled, Cleaned
  <2>2. RowsStay(b)
    BY DEF RowsStay, Told, Accounted
  <2>3. QED BY <1>1, <2>1, <2>2, CallsKeep
<1>4. Owned' /\ Announced' /\ Spoiled' /\ LeavesNoFiles' /\ DamagedIsNotVerified'
  BY <1>1, RowsKeep
<1>5. QED BY <1>2, <1>3, <1>4 DEF StorageInv

LEMMA SendKeeps ==
  ASSUME StorageInv, NEW b \in Backends, Send(b)
  PROVE  StorageInv'
<1>1. Shapes /\ Served(b) /\ Journalled(b) /\ call[b] \in Requests
  BY AnsweredFacts
<1>2. Exchanged(b) /\ call'[b] = [call[b] EXCEPT !.sent = TRUE]
  BY <1>1, SendExchanges
<1>3. UNCHANGED <<state, journal, root, crashes>> /\ call[b] # Resting /\ refusals' = refusals
  BY DEF Send
<1>4. /\ call'[b].tx = call[b].tx /\ call'[b].method = call[b].method
      /\ call'[b].key = call[b].key /\ call'[b].raised = call[b].raised
  BY <1>1, <1>2 DEF Requests
<1>5. call[b].method # "none"
  BY <1>1, <1>3 DEF Journalled
<1>6. Journalled(b)'
  BY <1>1, <1>3, <1>4, <1>5 DEF Journalled
<1>7. Escapes(b)
  <2>1. refusals[b] \in Nat
    BY <1>1, StorageAssumption DEF Shapes
  <2>2. ~Refused(b)
    BY <1>1, <1>3, <2>1 DEF Refused, Shapes
  <2>3. QED BY <2>2 DEF Escapes
<1>8. QED BY <1>1, <1>2, <1>3, <1>4, <1>6, <1>7, PlainKeeps DEF Shapes

\* An operation ends, or one that does not write begins.
LEMMA ReadsKeep ==
  ASSUME StorageInv, NEW b \in Backends,
         (\E k \in Keys : ReadStart(b, k)) \/ ReadDone(b) \/ ReadTimesOut(b)
           \/ CloseStart(b) \/ CloseDone(b)
  PROVE  StorageInv'
<1>1. /\ Shapes /\ Served(b) /\ Journalled(b) /\ call[b] \in Requests
      /\ \A r : Answers(b, r) /\ "none" \notin r => call[b].sent
  BY AnsweredFacts
<1>2. Resting \in Requests /\ ~Resting.sent
  BY RestingIsRequest DEF Resting
<1>3. /\ state' \in [Backends -> {"ready", "quarantined", "closed"}]
      /\ \A c \in Backends \ {b} : state'[c] = state[c]
      /\ UNCHANGED <<journal, root, crashes>>
  <2>1. CASE \E k \in Keys : ReadStart(b, k)
    <3>1. UNCHANGED <<state, journal, root, crashes>>
      BY <2>1, Zenon DEF ReadStart
    <3>2. QED BY <1>1, <3>1 DEF Shapes
  <2>2. CASE ReadDone(b)
    BY <1>1, <2>2 DEF ReadDone, Shapes
  <2>3. CASE ReadTimesOut(b)
    BY <1>1, <2>3 DEF ReadTimesOut, Shapes
  <2>4. CASE CloseStart(b)
    BY <1>1, <2>4 DEF CloseStart, Shapes
  <2>5. CASE CloseDone(b)
    BY <1>1, <2>5 DEF CloseDone, Shapes
  <2>6. QED BY <2>1, <2>2, <2>3, <2>4, <2>5
<1>4. call[b].method \notin Writing => call[b].tx = Nil
  BY <1>1 DEF Journalled
<1>5. ASSUME Exchanged(b), call'[b] = Resting, call[b].tx = Nil
      PROVE  StorageInv'
  <2>1. Journalled(b)'
    BY <1>5 DEF Journalled, Resting, Writing
  <2>2. call[b].method \notin Writing /\ call[b].raised # "refused"
    BY <1>1, <1>5 DEF Journalled, Writing
  <2>3. QED BY <1>3, <1>5, <2>1, <2>2, PlainKeeps DEF Resting, Escapes
<1>6. ASSUME NEW k \in Keys, ReadStart(b, k)
      PROVE  StorageInv'
  <2> DEFINE q == [Resting EXCEPT !.method = "read", !.key = k]
  <2>1. q \in Requests /\ ~q.sent /\ q.method = "read" /\ q.tx = Nil /\ q.key = k
        /\ q.raised = "none"
    BY DEF Resting, Requests, Methods, Writing, Raised
  <2>2. call[b] = Resting /\ call' = [call EXCEPT ![b] = q]
        /\ UNCHANGED <<current, process, refusals>>
    BY <1>6, Zenon DEF ReadStart
  <2> HIDE DEF q
  <2>3. Exchanged(b) /\ call'[b] = q
    BY <1>1, <2>1, <2>2, BeginExchanges
  <2>4. Journalled(b)'
    BY <2>1, <2>3 DEF Journalled, Writing
  <2>5. QED BY <1>3, <2>1, <2>2, <2>3, <2>4, PlainKeeps DEF Resting, Escapes, Writing
<1>7. ASSUME ReadDone(b)
      PROVE  StorageInv'
  <2>1. call[b].method = "read" /\ Answers(b, {"ok", "error", "damaged"})
        /\ call' = [call EXCEPT ![b] = Resting] /\ Consumed(b)
    BY <1>7 DEF ReadDone, Calls
  <2>2. call[b].sent /\ call[b].tx = Nil
    BY <1>1, <1>4, <2>1 DEF Writing
  <2>3. Exchanged(b)
    BY <1>1, <2>1, <2>2, ConsumeExchanges
  <2>4. QED BY <1>1, <1>5, <2>1, <2>2, <2>3 DEF Shapes
<1>8. ASSUME ReadTimesOut(b) \/ CloseDone(b)
      PROVE  StorageInv'
  <2>1. call[b].method \in {"read", "close"} /\ call' = [call EXCEPT ![b] = Resting]
        /\ (Stops(b) \/ Refused(b))
    BY <1>8 DEF ReadTimesOut, CloseDone, Calls
  <2>2. call[b].tx = Nil
    BY <1>4, <2>1 DEF Writing
  <2>3. Exchanged(b)
    BY <1>1, <1>2, <2>1, StopExchanges
  <2>4. QED BY <1>1, <1>5, <2>1, <2>2, <2>3 DEF Shapes
<1>9. ASSUME CloseStart(b)
      PROVE  StorageInv'
  <2>1. call[b] = Resting /\ UNCHANGED <<current, process, refusals>>
    BY <1>9 DEF CloseStart
  <2>2. CASE call' = call
    <3>1. call' = [call EXCEPT ![b] = Resting] /\ call'[b] = Resting
      BY <1>1, <2>1, <2>2 DEF Shapes
    <3>2. Exchanged(b)
      BY <1>1, <1>2, <2>1, <3>1, BeginExchanges
    <3>3. QED BY <1>5, <2>1, <3>1, <3>2 DEF Resting
  <2>3. CASE call' = [call EXCEPT ![b] = [Resting EXCEPT !.method = "close"]]
    <3> DEFINE q == [Resting EXCEPT !.method = "close"]
    <3>1. q \in Requests /\ ~q.sent /\ q.method = "close" /\ q.tx = Nil /\ q.raised = "none"
      BY DEF Resting, Requests, Methods, Writing, Raised
    <3> HIDE DEF q
    <3>2. Exchanged(b) /\ call'[b] = q
      BY <1>1, <2>1, <2>3, <3>1, BeginExchanges DEF q
    <3>3. Journalled(b)'
      BY <3>1, <3>2 DEF Journalled, Writing
    <3>4. QED BY <1>3, <2>1, <3>1, <3>2, <3>3, PlainKeeps DEF Resting, Escapes, Writing
  <2>4. QED BY <1>9, <2>2, <2>3 DEF CloseStart
<1>10. QED BY <1>6, <1>7, <1>8, <1>9

\* A write begins with a row of its own, spoiled if its object is damaged.
LEMMA WriteStartKeeps ==
  ASSUME StorageInv, NEW b \in Backends, NEW t \in Transactions, NEW k \in Keys,
         WriteStart(b, t, k)
  PROVE  StorageInv'
<1>1. Shapes /\ Served(b) /\ Journalled(b)
  BY AnsweredFacts
<1> DEFINE q == [Resting EXCEPT !.method = "stage", !.tx = t, !.key = k]
           e == [NoRow EXCEPT !.state = "staging", !.owner = b, !.key = k]
<1>2. /\ call[b] = Resting /\ journal[t] = NoRow /\ state[b] = "ready"
      /\ call' = [call EXCEPT ![b] = q] /\ journal' = [journal EXCEPT ![t] = e]
      /\ spoiled' = spoiled \cup (IF objects[k] = "damaged" THEN {t} ELSE {})
      /\ UNCHANGED <<state, current, process, objects, pending, published, crashes, damage,
                     refusals>>
  BY DEF WriteStart
<1>3. /\ q \in Requests /\ ~q.sent /\ q.method = "stage" /\ q.tx = t /\ q.key = k
      /\ q.raised = "none"
      /\ e \in Entries /\ e.state = "staging" /\ e.owner = b /\ e.key = k /\ ~e.kept
      /\ e.error = "none"
  BY DEF Requests, Methods, Writing, Entries, Rows, Raised, Resting, NoRow
<1> HIDE DEF q, e
<1>4. Exchanged(b) /\ call'[b] = q
  BY <1>1, <1>2, <1>3, BeginExchanges
<1>5. /\ journal' \in [Transactions -> Entries] /\ journal'[t] = e
      /\ \A u \in Transactions : u # t => journal'[u] = journal[u]
  BY <1>1, <1>2, <1>3 DEF Shapes
<1>6. \A c \in Backends : call[c].tx # t
  <2>1. ASSUME NEW c \in Backends, call[c].tx = t
        PROVE  FALSE
    <3>1. t # Nil
      BY StorageAssumption
    <3>2. journal[t].owner = c /\ journal[t].state \in Rows
      BY <2>1, <3>1 DEF StorageInv, BackendInv, Journalled, Before, Rows, Writing
    <3>3. journal[t].state = "none"
      BY <1>2 DEF NoRow
    <3>4. QED BY <3>2, <3>3 DEF Rows
  <2>2. QED BY <2>1
<1>7. Shapes'
  BY <1>1, <1>2, <1>4, <1>5 DEF Shapes, Exchanged
<1>8. \A c \in Backends : BackendInv(c)'
  <2>1. Journalled(b)'
    BY <1>2, <1>3, <1>4, <1>5, StorageAssumption DEF Journalled, Writing, Before
  <2>2. ASSUME NEW c \in Backends \ {b}
        PROVE  /\ state'[c] = state[c]
               /\ call[c].tx \in spoiled' => call[c].tx \in spoiled \cup {Nil}
    BY <1>2, <1>6
  <2>3. call'[b].method # "verify" /\ pending' = pending
    BY <1>2, <1>3, <1>4
  <2>4. journal[t].owner = Nil /\ Nil \notin Backends
    BY <1>2, StorageAssumption DEF NoRow
  <2>5. call[b].tx = Nil /\ call'[b].tx = t
    BY <1>2, <1>3, <1>4 DEF Resting
  <2>6. RowsStay(b)
    <3>1. ASSUME NEW u \in Transactions, Told(b, u)
          PROVE  Told(b, u)' /\ journal'[u].state = journal[u].state
      <4>1. u # t /\ u # Nil
        BY <2>4, <3>1, StorageAssumption DEF Told
      <4>2. QED BY <1>5, <2>5, <3>1, <4>1 DEF Told, Accounted
    <3>2. QED BY <1>5, <2>4, <3>1 DEF RowsStay
  <2>7. Escapes(b)
    BY <1>2 DEF Escapes, Resting, Writing
  <2>8. QED BY <1>4, <2>1, <2>2, <2>3, <2>6, <2>7, CallsKeep
<1>9. t \notin published
  BY <1>2 DEF StorageInv, Announced, NoRow
<1>10. Owned' /\ Announced'
  BY <1>2, <1>3, <1>5, <1>9 DEF StorageInv, Owned, Announced, Rows
<1>11. Spoiled'
  <2>1. ASSUME NEW u \in spoiled', u # t
        PROVE  journal'[u].key \in Keys /\ objects[journal'[u].key] = "damaged"
    BY <1>1, <1>2, <1>5, <2>1 DEF StorageInv, Shapes, Spoiled
  <2>2. t \in spoiled' => objects[k] = "damaged"
    <3>1. t \notin spoiled
      <4>1. journal[t].key = Nil
        BY <1>2 DEF NoRow
      <4>2. QED BY <4>1, StorageAssumption DEF StorageInv, Spoiled
    <3>2. QED BY <1>2, <3>1
  <2>3. QED BY <1>2, <1>3, <1>5, <2>1, <2>2 DEF Spoiled
<1>12. LeavesNoFiles'
  <2>1. ASSUME NEW u \in Transactions, Returned(u)', ~Accounted(u)'
        PROVE  u \notin pending
    <3>1. u # t
      BY <1>3, <1>4, <2>1 DEF Returned
    <3>2. Returned(u) /\ ~Accounted(u)
      BY <1>2, <1>4, <1>5, <2>1, <3>1, StorageAssumption DEF Returned, Exchanged, Resting, Accounted
    <3>3. QED BY <2>1, <3>2 DEF StorageInv, LeavesNoFiles
  <2>2. QED BY <1>2, <2>1 DEF LeavesNoFiles
<1>13. DamagedIsNotVerified'
  BY <1>1, <1>2, <1>3, <1>5 DEF StorageInv, Shapes, DamagedIsNotVerified
<1>14. QED BY <1>7, <1>8, <1>10, <1>11, <1>12, <1>13 DEF StorageInv

\* What the steps of a write know of the call it is making.
LEMMA WritingFacts ==
  ASSUME StorageInv, NEW b \in Backends, call[b].method \in Writing
  PROVE  /\ Shapes /\ Served(b) /\ Journalled(b) /\ call[b] \in Requests
         /\ call[b].tx \in Transactions /\ call[b].tx # Nil /\ call[b].key \in Keys
         /\ journal[call[b].tx] \in Entries
<1>1. Shapes /\ Served(b) /\ Journalled(b) /\ call[b] \in Requests
  BY AnsweredFacts
<1>2. call[b].tx # Nil /\ call[b].key \in Keys
  BY <1>1 DEF Journalled
<1>3. call[b].tx \in Transactions
  BY <1>1, <1>2 DEF Requests
<1>4. QED BY <1>1, <1>2, <1>3 DEF Shapes

\* The write goes on to its next call, and its row to the state before it.
LEMMA GoesOn ==
  ASSUME StorageInv, NEW b \in Backends, call[b].method \in Writing \ {"abort"},
         NEW m \in Writing, NEW s \in Rows, NEW why \in Raised, Exchanged(b),
         \/ call'[b] = [call[b] EXCEPT !.method = m, !.raised = why]
         \/ call'[b] = [call[b] EXCEPT !.method = m, !.raised = why, !.sent = FALSE],
         why # "refused", why # "none" => m = "abort", ~Refused(b),
         s \in Before(m), s # "staging", Mark(b, s),
         m = "verify" => call[b].tx \notin pending,
         state' \in [Backends -> {"ready", "quarantined", "closed"}],
         m # "abort" => state' = state,
         \A c \in Backends \ {b} : state'[c] = state[c],
         UNCHANGED <<root, crashes>>
  PROVE  StorageInv'
<1>1. /\ Shapes /\ Journalled(b) /\ call[b] \in Requests
      /\ call[b].tx \in Transactions /\ call[b].tx # Nil /\ call[b].key \in Keys
      /\ journal[call[b].tx] \in Entries
  BY WritingFacts
<1>2. /\ call'[b].method = m /\ call'[b].tx = call[b].tx /\ call'[b].key = call[b].key
      /\ call'[b].raised = why
  BY <1>1 DEF Requests
<1>3. UNCHANGED <<objects, pending, published, damage, spoiled>>
  BY DEF root
<1>4. s \notin {"aborted", "verified"}
  BY DEF Before, Writing
<1>5. /\ journal' \in [Transactions -> Entries]
      /\ journal'[call[b].tx] = [journal[call[b].tx] EXCEPT !.state = s]
      /\ RowsStay(b)
      /\ Owned' /\ Announced' /\ Spoiled' /\ LeavesNoFiles' /\ DamagedIsNotVerified'
  BY <1>2, <1>3, <1>4, MarkKeeps
<1>6. Journalled(b)'
  <2>1. /\ journal'[call[b].tx].state = s /\ journal'[call[b].tx].owner = b
        /\ journal'[call[b].tx].key = call[b].key
    BY <1>1, <1>5 DEF Entries, Journalled
  <2>2. m # "abort" => state'[b] = "ready"
    BY <1>1 DEF Journalled
  <2>3. QED BY <1>1, <1>2, <2>1, <2>2 DEF Journalled, Writing
<1>7. \A c \in Backends : BackendInv(c)'
  <2>1. Escapes(b)
    BY DEF Escapes
  <2>2. QED BY <1>2, <1>3, <1>5, <1>6, <2>1, CallsKeep
<1>8. Shapes'
  BY <1>1, <1>3, <1>5 DEF Shapes, Exchanged
<1>9. QED BY <1>5, <1>7, <1>8 DEF StorageInv

\* The steps of a write up to its end.
LEMMA WriteGoesOn ==
  ASSUME StorageInv, NEW b \in Backends,
         Staged(b) \/ Committed(b) \/ WriteFails(b) \/ WriteTimesOut(b) \/ WriteTooLate(b)
  PROVE  StorageInv'
<1>1. call[b].method \in Writing \ {"abort"} /\ call[b].method \in Writing
  BY DEF Staged, Committed, WriteFails, WriteTimesOut, WriteTooLate, Calls, Writing
<1>2. /\ Shapes /\ Served(b) /\ Journalled(b) /\ call[b] \in Requests
      /\ call[b].tx \in Transactions /\ call[b].tx # Nil
      /\ \A r : Answers(b, r) /\ "none" \notin r => call[b].sent
      /\ Answers(b, {"ok"}) => Reply(b) = "ok"
  BY <1>1, WritingFacts, AnsweredFacts
<1>3. state \in [Backends -> {"ready", "quarantined", "closed"}]
  BY <1>2 DEF Shapes
<1>4. /\ "none" \in Raised /\ "error" \in Raised /\ "timeout" \in Raised /\ "refused" \in Raised
      /\ "abort" \in Writing /\ "abort" \in Methods
  BY DEF Raised, Writing, Methods
<1>5. refusals' = refusals => ~Refused(b)
  <2>1. refusals[b] \in Nat
    BY <1>2, StorageAssumption DEF Shapes
  <2>2. QED BY <1>2, <2>1 DEF Refused, Shapes
<1>6. ASSUME NEW m \in Writing, NEW why \in Raised, Continues(b, m, why), call[b].sent
      PROVE  /\ Exchanged(b) /\ ~Refused(b)
             /\ call'[b] = [call[b] EXCEPT !.method = m, !.raised = why]
  BY <1>2, <1>5, <1>6, ContinueExchanges DEF Methods, Continues
<1>7. ASSUME NEW why \in Raised, Aborting(b, why), Stops(b) \/ Refused(b)
      PROVE  /\ Exchanged(b)
             /\ call'[b] = [call[b] EXCEPT !.method = "abort", !.raised = why, !.sent = FALSE]
  <2> DEFINE q == [call[b] EXCEPT !.method = "abort", !.raised = why, !.sent = FALSE]
  <2>1. q \in Requests /\ ~q.sent
    BY <1>2, <1>4 DEF Requests
  <2>2. call' = [call EXCEPT ![b] = q]
    BY <1>7 DEF Aborting
  <2> HIDE DEF q
  <2>3. Exchanged(b) /\ call'[b] = q
    BY <1>2, <1>7, <2>1, <2>2, StopExchanges
  <2>4. QED BY <2>3 DEF q
<1>8. ASSUME Staged(b)
      PROVE  StorageInv'
  <2>1. /\ Answers(b, {"ok"}) /\ Mark(b, "indeterminate-commit")
        /\ Continues(b, "commit", "none") /\ UNCHANGED <<state, root, crashes>>
    BY <1>8 DEF Staged, BeforeCommit
  <2>2. /\ Exchanged(b) /\ ~Refused(b)
        /\ call'[b] = [call[b] EXCEPT !.method = "commit", !.raised = "none"]
    BY <1>2, <1>4, <1>6, <2>1 DEF Writing
  <2>3. "indeterminate-commit" \in Rows /\ "indeterminate-commit" \in Before("commit")
        /\ "commit" \in Writing
    BY DEF Rows, Before, Writing
  <2>4. state' \in [Backends -> {"ready", "quarantined", "closed"}]
    BY <1>3, <2>1
  <2>5. QED BY <1>1, <1>4, <2>1, <2>2, <2>3, <2>4, GoesOn
<1>9. ASSUME Committed(b)
      PROVE  StorageInv'
  <2>1. /\ call[b].method = "commit" /\ Answers(b, {"ok"})
        /\ Mark(b, "published-unverified") /\ Continues(b, "verify", "none")
        /\ UNCHANGED <<state, root, crashes>>
    BY <1>9 DEF Committed, Calls
  <2>2. /\ Exchanged(b) /\ ~Refused(b)
        /\ call'[b] = [call[b] EXCEPT !.method = "verify", !.raised = "none"]
    BY <1>2, <1>4, <1>6, <2>1 DEF Writing
  <2>3. "published-unverified" \in Rows /\ "published-unverified" \in Before("verify")
        /\ "verify" \in Writing
    BY DEF Rows, Before, Writing
  <2>4. call[b].tx \notin pending
    BY <1>2, <2>1 DEF StorageInv, BackendInv, Journalled, Cleaned
  <2>5. state' \in [Backends -> {"ready", "quarantined", "closed"}]
    BY <1>3, <2>1
  <2>6. QED BY <1>1, <1>4, <2>1, <2>2, <2>3, <2>4, <2>5, GoesOn
<1>10. ASSUME Mark(b, "indeterminate-timeout"), UNCHANGED <<root, crashes>>,
              state' = state \/ state' = [state EXCEPT ![b] = "quarantined"],
              (Aborting(b, "timeout") /\ Stops(b)) \/ (Continues(b, "abort", "timeout") /\ call[b].sent)
      PROVE  StorageInv'
  <2>1. /\ Exchanged(b) /\ ~Refused(b)
        /\ \/ call'[b] = [call[b] EXCEPT !.method = "abort", !.raised = "timeout"]
           \/ call'[b] = [call[b] EXCEPT !.method = "abort", !.raised = "timeout", !.sent = FALSE]
    BY <1>4, <1>5, <1>6, <1>7, <1>10 DEF Stops
  <2>2. "indeterminate-timeout" \in Rows /\ "indeterminate-timeout" \in Before("abort")
    BY DEF Rows, Before, Writing
  <2>3. /\ state' \in [Backends -> {"ready", "quarantined", "closed"}]
        /\ \A c \in Backends \ {b} : state'[c] = state[c]
    BY <1>3, <1>10
  <2>4. QED BY <1>1, <1>4, <1>10, <2>1, <2>2, <2>3, GoesOn
<1>11. ASSUME UNCHANGED <<state, journal, root, crashes>>, NEW why \in Raised \ {"none"},
              \/ Aborting(b, why) /\ Stops(b)
              \/ Aborting(b, "refused") /\ Refused(b) /\ why = "refused"
              \/ Continues(b, "abort", why) /\ call[b].sent
       PROVE  StorageInv'
  <2>1. /\ Exchanged(b) /\ (Refused(b) => why = "refused")
        /\ \/ call'[b] = [call[b] EXCEPT !.method = "abort", !.raised = why]
           \/ call'[b] = [call[b] EXCEPT !.method = "abort", !.raised = why, !.sent = FALSE]
    BY <1>4, <1>5, <1>6, <1>7, <1>11 DEF Stops
  <2>2. /\ call'[b].method = "abort" /\ call'[b].tx = call[b].tx /\ call'[b].key = call[b].key
        /\ call'[b].raised = why
    BY <1>2, <2>1 DEF Requests
  <2>3. /\ journal[call[b].tx].state \in Before("abort") /\ journal[call[b].tx].owner = b
        /\ call[b].method = "commit" => journal[call[b].tx].state = "indeterminate-commit"
        /\ call[b].raised = "none" /\ state[b] = "ready"
    BY <1>1, <1>2 DEF Journalled, Before, Writing, Rows
  <2>4. Journalled(b)'
    BY <1>1, <1>2, <1>11, <2>2, <2>3 DEF Journalled, Writing
  <2>5. Escapes(b)
    BY <1>11, <2>1, <2>2, <2>3 DEF Escapes, Told
  <2>6. QED BY <1>3, <1>11, <2>1, <2>2, <2>3, <2>4, <2>5, PlainKeeps
<1>12. ASSUME WriteTooLate(b)
       PROVE  StorageInv'
  BY <1>2, <1>10, <1>12 DEF WriteTooLate
<1>13. ASSUME WriteTimesOut(b)
       PROVE  StorageInv'
  <2>1. UNCHANGED <<root, crashes>>
    BY <1>13 DEF WriteTimesOut
  <2>2. CASE /\ Mark(b, "indeterminate-timeout") /\ Aborting(b, "timeout")
             /\ state' = [state EXCEPT ![b] = "quarantined"] /\ Stops(b)
    BY <1>10, <2>1, <2>2
  <2>3. CASE Aborting(b, "refused") /\ Refused(b) /\ UNCHANGED <<state, journal>>
    BY <1>4, <1>11, <2>1, <2>3
  <2>4. QED BY <1>13, <2>2, <2>3 DEF WriteTimesOut
<1>14. ASSUME WriteFails(b)
       PROVE  StorageInv'
  <2>1. call[b].sent /\ UNCHANGED <<state, journal, root, crashes>>
    BY <1>2, <1>14 DEF WriteFails
  <2>2. CASE Continues(b, "abort", "error")
    BY <1>4, <1>11, <2>1, <2>2
  <2>3. CASE Aborting(b, "error") /\ Stops(b)
    BY <1>4, <1>11, <2>1, <2>3
  <2>4. CASE Aborting(b, "refused") /\ Refused(b)
    BY <1>4, <1>11, <2>1, <2>4
  <2>5. QED BY <1>14, <2>2, <2>3, <2>4 DEF WriteFails
<1>15. QED BY <1>8, <1>9, <1>12, <1>13, <1>14

\* The write ends: verified, or with what the journal then says.
LEMMA WriteEnds ==
  ASSUME StorageInv, NEW b \in Backends,
         WriteDone(b) \/ AbortDone(b) \/ AbortFails(b) \/ AbortTimesOut(b)
  PROVE  StorageInv'
<1>1. call[b].method \in Writing
  BY DEF WriteDone, Verified, AbortDone, AbortFails, AbortTimesOut, Calls, Writing
<1>2. /\ Shapes /\ Served(b) /\ Journalled(b) /\ call[b] \in Requests
      /\ call[b].tx \in Transactions /\ call[b].tx # Nil
      /\ \A r : Answers(b, r) /\ "none" \notin r => call[b].sent
      /\ Answers(b, {"ok"}) => Reply(b) = "ok"
  BY <1>1, WritingFacts, AnsweredFacts
<1>3. Resting \in Requests /\ ~Resting.sent
  BY RestingIsRequest DEF Resting
<1>4. call' = [call EXCEPT ![b] = Resting] /\ call'[b] = Resting
  <2>1. call' = [call EXCEPT ![b] = Resting]
    BY DEF WriteDone, AbortDone, AbortFails, AbortTimesOut, Ended, Broken
  <2>2. QED BY <1>2, <2>1 DEF Shapes
<1>5. /\ state' \in [Backends -> {"ready", "quarantined", "closed"}]
      /\ \A c \in Backends \ {b} : state'[c] = state[c]
      /\ UNCHANGED <<root, crashes>>
  <2>1. CASE WriteDone(b)
    BY <1>2, <2>1 DEF WriteDone, Shapes
  <2>2. CASE AbortDone(b)
    BY <1>2, <2>2 DEF AbortDone, Shapes
  <2>3. CASE AbortFails(b)
    BY <1>2, <2>3 DEF AbortFails, Shapes
  <2>4. CASE AbortTimesOut(b)
    BY <1>2, <2>4 DEF AbortTimesOut, Shapes
  <2>5. QED BY <2>1, <2>2, <2>3, <2>4
<1>6. UNCHANGED <<objects, pending, published, damage, spoiled>>
  BY <1>5 DEF root
<1>7. Exchanged(b)
  <2>1. ASSUME Stops(b) \/ Refused(b)
        PROVE  Exchanged(b)
    BY <1>2, <1>3, <1>4, <2>1, StopExchanges
  <2>2. ASSUME Consumed(b), Answers(b, {"ok"})
        PROVE  Exchanged(b)
    BY <1>2, <1>4, <2>2, ConsumeExchanges
  <2>3. QED BY <2>1, <2>2 DEF WriteDone, Verified, AbortDone, AbortFails, AbortTimesOut
<1>8. Reply(b) = "ok" => Escapes(b)
  BY DEF Escapes
<1>9. /\ journal' \in [Transactions -> Entries]
      /\ RowsStay(b) /\ Escapes(b)
      /\ Owned' /\ Announced' /\ Spoiled' /\ LeavesNoFiles' /\ DamagedIsNotVerified'
  <2>1. CASE WriteDone(b)
    <3>1. call[b].method = "verify" /\ Reply(b) = "ok" /\ Mark(b, "verified")
      BY <1>2, <2>1 DEF WriteDone, Verified, Calls
    <3>2. call[b].tx \notin pending /\ call[b].tx \notin spoiled
      BY <1>2, <3>1 DEF StorageInv, BackendInv, Journalled, Cleaned, ReadBack
    <3>3. "verified" \in Rows /\ "verified" \notin {"staging", "aborted"}
          /\ call[b].method \in Writing \ {"abort"}
      BY <1>1, <3>1 DEF Rows
    <3>4. QED BY <1>4, <1>6, <1>7, <1>8, <3>1, <3>2, <3>3, MarkKeeps
  <2>2. CASE AbortDone(b)
    <3>1. call[b].method = "abort" /\ Reply(b) = "ok"
      BY <1>2, <2>2 DEF AbortDone, Calls
    <3>2. Ended(b, FALSE) \/ (Broken(b, FALSE) /\ call[b].raised # "refused")
      <4>1. state[b] = "quarantined" => call[b].raised # "refused"
        BY <1>2 DEF Journalled
      <4>2. QED BY <2>2, <4>1 DEF AbortDone
    <3>3. call[b].raised # "refused" => call[b].tx \notin pending
      BY <3>1 DEF StorageInv, BackendInv, Cleaned
    <3>4. QED BY <1>6, <1>7, <1>8, <3>1, <3>2, <3>3, EndKeeps
  <2>3. CASE AbortFails(b) \/ AbortTimesOut(b)
    <3>1. call[b].method = "abort" /\ (Ended(b, TRUE) \/ Broken(b, TRUE))
      BY <2>3 DEF AbortFails, AbortTimesOut, Calls
    <3>2. QED BY <1>6, <1>7, <3>1, EndKeeps
  <2>4. QED BY <2>1, <2>2, <2>3
<1>10. Shapes'
  BY <1>2, <1>5, <1>6, <1>7, <1>9 DEF Shapes, Exchanged
<1>11. \A c \in Backends : BackendInv(c)'
  <2>1. Journalled(b)'
    BY <1>4 DEF Journalled, Resting, Writing
  <2>2. call'[b].method # "verify" /\ pending' = pending /\ spoiled' = spoiled
    BY <1>4, <1>6 DEF Resting
  <2>3. QED BY <1>5, <1>7, <1>9, <2>1, <2>2, CallsKeep
<1>12. QED BY <1>9, <1>10, <1>11 DEF StorageInv

-----------------------------------------------------------------------------
(* The worker process                                                      *)

\* The backend's worker does what the backend is waiting for.
LEMMA Doing ==
  ASSUME StorageInv, NEW b \in Backends, NEW s \in Slots, NEW m \in Methods, Does(b, s, m),
         s = current[b]
  PROVE  /\ Shapes /\ Served(b) /\ Journalled(b) /\ call[b] \in Requests
         /\ call[b].sent /\ process[b][s] \in Workers
         /\ process[b][s].doing = call[b] /\ call[b].method = m /\ Reply(b) = "none"
         /\ m \in Writing => call[b].tx \in Transactions /\ call[b].tx # Nil
         /\ m \in Writing \cup {"read"} => call[b].key \in Keys
<1>1. Shapes /\ Served(b) /\ Journalled(b) /\ call[b] \in Requests
  BY AnsweredFacts
<1>2. /\ process[b][s].doing.method = m /\ process[b][s].reply = "none"
      /\ process[b][s] \in Workers
  BY <1>1 DEF Does, Shapes
<1>3. s # Nil /\ m # "none"
  BY StorageAssumption DEF Methods, Writing
<1>4. call[b].sent /\ process[b][s].doing = call[b]
  BY <1>1, <1>2, <1>3 DEF Served, Resting, Requests
<1>5. m \in Writing => call[b].tx \in Transactions /\ call[b].tx # Nil /\ call[b].key \in Keys
  BY <1>1, <1>2, <1>4, WritingFacts
<1>6. m = "read" => call[b].key \in Keys
  BY <1>1, <1>2, <1>4 DEF Journalled
<1>7. QED BY <1>1, <1>2, <1>4, <1>5, <1>6 DEF Reply

\* What a step of a worker of backend b leaves to be shown: its worker, or one
\* that was forgotten.
LEMMA WorkKeeps ==
  ASSUME StorageInv, NEW b \in Backends, NEW s \in Slots, NEW r \in Workers,
         process' = [process EXCEPT ![b][s] = r],
         r.alive => process[b][s].alive,
         s = current[b] \/ r.alive => r.doing = process[b][s].doing,
         s # current[b] /\ r.alive => r.reply = process[b][s].reply,
         UNCHANGED <<state, call, journal, current, crashes, damage, spoiled, refusals>>,
         objects' \in [Keys -> {"absent", "good", "damaged"}],
         pending' \subseteq Transactions, published' \subseteq Transactions,
         \A t \in pending' : t \in pending \/ t = call[b].tx \/ Told(b, t),
         \A t \in published' : t \in published \/ journal[t].state = "indeterminate-commit",
         \A k \in Keys : objects[k] = "damaged" => objects'[k] = "damaged",
         Cleaned(b)', ReadBack(b)'
  PROVE  StorageInv'
<1>1. Shapes
  BY DEF StorageInv
<1>2. /\ process' \in [Backends -> [Slots -> Workers]]
      /\ process'[b][s] = r
      /\ \A z \in Slots : z # s => process'[b][z] = process[b][z]
      /\ \A c \in Backends : c # b => process'[c] = process[c]
  BY <1>1, WorkerChanges
<1>3. Shapes'
  BY <1>1, <1>2 DEF Shapes
<1>4. \A c \in Backends : BackendInv(c)'
  <2>1. ASSUME NEW c \in Backends
        PROVE  Served(c)' /\ Journalled(c)' /\ Forgotten(c)'
    <3>1. Served(c) /\ Journalled(c) /\ Forgotten(c)
      BY DEF StorageInv, BackendInv
    <3>2. call[c].sent => current[c] \in Slots
      BY <1>1, <3>1 DEF Served, Shapes
    <3>3. current[c] # Nil => current[c] \in Slots
      BY <1>1 DEF Shapes
    <3>4. current[c] # Nil => process'[c][current[c]].doing = process[c][current[c]].doing
      BY <1>2, <3>3
    <3>5. Served(c)' /\ Journalled(c)'
      BY <3>1, <3>2, <3>4, StorageAssumption DEF Served, Journalled
    <3>6. ASSUME NEW z \in Slots, process'[c][z].alive, z # current[c]
          PROVE  Loose(c, z)'
      <4>1. /\ process[c][z].alive /\ process'[c][z].doing = process[c][z].doing
            /\ process'[c][z].reply = process[c][z].reply
        BY <1>2, <3>6
      <4>2. Loose(c, z)
        BY <3>1, <3>6, <4>1 DEF Forgotten
      <4>3. QED BY <4>1, <4>2 DEF Loose, Told, Accounted
    <3>7. QED BY <3>5, <3>6 DEF Forgotten
  <2>2. ASSUME NEW c \in Backends, c # b
        PROVE  Cleaned(c)' /\ ReadBack(c)'
    <3>1. BackendInv(c) /\ BackendInv(b)
      BY DEF StorageInv
    <3>2. Reply(c)' = Reply(c)
      BY <1>2, <2>2 DEF Reply
    <3>3. ReadBack(c)'
      BY <3>1, <3>2 DEF BackendInv, ReadBack
    <3>4. call[c].tx # Nil => call[c].tx # call[b].tx /\ ~Told(b, call[c].tx)
      BY <2>2, <3>1 DEF BackendInv, Journalled, Told
    <3>5. call[c].method \in Writing => call[c].tx # Nil
      BY <3>1 DEF BackendInv, Journalled
    <3>6. Cleaned(c)'
      BY <3>1, <3>2, <3>4, <3>5 DEF BackendInv, Cleaned, Writing
    <3>7. QED BY <3>3, <3>6
  <2>3. QED BY <2>1, <2>2 DEF BackendInv
<1>5. Owned' /\ DamagedIsNotVerified'
  BY DEF StorageInv, Owned, DamagedIsNotVerified
<1>6. Announced'
  BY DEF StorageInv, Announced
<1>7. Spoiled'
  BY DEF StorageInv, Spoiled
<1>8. LeavesNoFiles'
  <2>1. SUFFICES ASSUME NEW t \in Transactions, Returned(t), ~Accounted(t), t \in pending'
                 PROVE  FALSE
    BY DEF LeavesNoFiles, Returned, Accounted
  <2>2. t \notin pending
    BY <2>1 DEF StorageInv, LeavesNoFiles
  <2>3. t # call[b].tx
    BY <2>1 DEF Returned
  <2>4. QED BY <2>1, <2>2, <2>3 DEF Told
<1>9. QED BY <1>3, <1>4, <1>5, <1>6, <1>7, <1>8 DEF StorageInv

\* A worker that was forgotten works only for a write of which that is told.
LEMMA LooseDoes ==
  ASSUME StorageInv, NEW b \in Backends, NEW s \in Slots, NEW m \in Methods, Does(b, s, m),
         s # current[b]
  PROVE  /\ process[b][s] \in Workers /\ process[b][s].alive
         /\ m \in Writing => /\ Tx(b, s) \in Transactions /\ Told(b, Tx(b, s))
                             /\ m = "commit" => journal[Tx(b, s)].state = "indeterminate-commit"
<1>1. process[b][s] \in Workers /\ Loose(b, s)
  BY DEF StorageInv, Shapes, BackendInv, Forgotten, Does
<1>2. QED BY <1>1 DEF Does, Loose, Tx

\* Whatever it still does to the root disturbs nothing that is promised, and it
\* ends when it would answer.
LEMMA LooseKeeps ==
  ASSUME StorageInv, NEW b \in Backends, NEW s \in Slots, s # current[b],
         Stage(b, s) \/ Publish(b, s) \/ CommitDone(b, s) \/ Read(b, s) \/ Abort(b, s)
  PROVE  StorageInv'
<1>1. Shapes /\ BackendInv(b)
  BY DEF StorageInv
<1>2. /\ "stage" \in Methods /\ "commit" \in Methods /\ "abort" \in Methods
      /\ "verify" \in Methods /\ "read" \in Methods
      /\ "stage" \in Writing /\ "commit" \in Writing
  BY DEF Methods, Writing
<1>3. process[b][s] \in Workers /\ process[b][s].alive
  BY <1>2, LooseDoes DEF Stage, Publish, CommitDone, Read, Abort
<1>4. UNCHANGED <<state, call, journal, current, crashes, damage, spoiled, refusals>>
  BY DEF Stage, Publish, CommitDone, Read, Abort, root
<1>5. PICK r \in Workers :
        /\ process' = [process EXCEPT ![b][s] = r]
        /\ r.alive => r.doing = process[b][s].doing /\ r.reply = process[b][s].reply
  <2>1. ASSUME NEW a \in Replies, Replied(b, s, a)
        PROVE  process' = [process EXCEPT ![b][s] = Stopped]
    BY <2>1 DEF Replied
  <2>2. CASE \E a \in Replies : Replied(b, s, a)
    BY <2>1, <2>2, RestingIsRequest
  <2>3. CASE process' = [process EXCEPT ![b][s].half = TRUE]
    <3> DEFINE r == [process[b][s] EXCEPT !.half = TRUE]
    <3>1. r \in Workers /\ r.doing = process[b][s].doing /\ r.reply = process[b][s].reply
      BY <1>3 DEF Workers
    <3>2. process' = [process EXCEPT ![b][s] = r]
      BY <2>3
    <3>3. QED BY <3>1, <3>2
  <2>4. QED BY <2>2, <2>3 DEF Stage, Publish, CommitDone, Read, Abort, Replies
<1>6. \A t \in pending' : t \in pending \/ (t \in Transactions /\ Told(b, t))
  <2>1. CASE Stage(b, s)
    <3>1. Tx(b, s) \in Transactions /\ Told(b, Tx(b, s))
      BY <1>2, <2>1, LooseDoes DEF Stage
    <3>2. QED BY <2>1, <3>1 DEF Stage
  <2>2. CASE ~Stage(b, s)
    BY <2>2 DEF Publish, CommitDone, Read, Abort, root
  <2>3. QED BY <2>1, <2>2
<1>7. /\ \A t \in published' :
           t \in published \/ (t \in Transactions /\ journal[t].state = "indeterminate-commit")
      /\ objects' \in [Keys -> {"absent", "good", "damaged"}]
      /\ \A k \in Keys : objects[k] = "damaged" => objects'[k] = "damaged"
  <2>1. CASE Publish(b, s)
    <3>1. Tx(b, s) \in Transactions /\ journal[Tx(b, s)].state = "indeterminate-commit"
      BY <1>2, <2>1, LooseDoes DEF Publish
    <3>2. /\ published' \subseteq published \cup {Tx(b, s)}
          /\ \/ objects' = objects
             \/ objects[Key(b, s)] = "absent" /\ objects' = [objects EXCEPT ![Key(b, s)] = "good"]
      BY <2>1 DEF Publish
    <3>3. QED BY <1>1, <3>1, <3>2 DEF Shapes
  <2>2. CASE ~Publish(b, s)
    BY <1>1, <2>2 DEF Stage, CommitDone, Read, Abort, root, Shapes
  <2>3. QED BY <2>1, <2>2
<1>8. Reply(b)' = Reply(b)
  <2>1. current[b] # Nil => current[b] \in Slots
    BY <1>1 DEF Shapes
  <2>2. \A z \in Slots : z # s => process'[b][z] = process[b][z]
    BY <1>1, <1>5, WorkerChanges
  <2>3. call[b].sent => current[b] \in Slots
    BY <1>1, <2>1 DEF BackendInv, Served
  <2>4. QED BY <1>4, <2>2, <2>3 DEF Reply
<1>9. Cleaned(b)' /\ ReadBack(b)'
  <2>1. ASSUME call[b].raised # "refused", call[b].tx \in pending'
        PROVE  call[b].tx \in pending
    BY <1>6, <2>1 DEF Told
  <2>2. QED BY <1>1, <1>4, <1>8, <2>1 DEF BackendInv, Cleaned, ReadBack
<1>10. pending' \subseteq Transactions /\ published' \subseteq Transactions
  BY <1>1, <1>6, <1>7 DEF Shapes
<1>11. QED BY <1>3, <1>4, <1>5, <1>6, <1>7, <1>9, <1>10, WorkKeeps

\* The worker in slot s answers a, or goes on.
Answering(b, s, h, a) ==
  \/ ~h /\ Replied(b, s, a)
  \/ process' = [process EXCEPT ![b][s].half = h] /\ process[b][s].reply = a

\* Only its answer and its progress change.
Answered(b, s, a) ==
  \E r \in Workers :
    /\ process' = [process EXCEPT ![b][s] = r]
    /\ r.alive = process[b][s].alive /\ r.doing = process[b][s].doing
    /\ Reply(b)' = a

LEMMA RepliedFacts ==
  ASSUME StorageInv, NEW b \in Backends, NEW s \in Slots, NEW h \in BOOLEAN, NEW a \in Replies,
         s = current[b], call[b].sent, call' = call, current' = current,
         Answering(b, s, h, a)
  PROVE  Answered(b, s, a)
<1> DEFINE r == [process[b][s] EXCEPT !.reply = a, !.half = h]
<1>1. Shapes /\ process[b][s] \in Workers
  BY DEF StorageInv, Shapes
<1>2. r \in Workers /\ r.alive = process[b][s].alive /\ r.doing = process[b][s].doing
      /\ r.reply = a
  BY <1>1 DEF Workers
<1>3. process' = [process EXCEPT ![b][s] = r]
  <2>1. CASE ~h /\ Replied(b, s, a)
    BY <1>1, <2>1 DEF Replied, Shapes
  <2>2. CASE process' = [process EXCEPT ![b][s].half = h] /\ process[b][s].reply = a
    <3>1. [process[b][s] EXCEPT !.half = h] = r
      BY <1>1, <2>2 DEF Workers
    <3>2. process' = [process EXCEPT ![b][s] = [process[b][s] EXCEPT !.half = h]]
      BY <2>2
    <3>3. QED BY <3>1, <3>2
  <2>3. QED BY <2>1, <2>2 DEF Answering
<1> HIDE DEF r
<1>4. process'[b][s] = r
  BY <1>1, <1>2, <1>3, WorkerChanges
<1>5. Reply(b)' = a
  BY <1>2, <1>4 DEF Reply
<1>6. QED BY <1>2, <1>3, <1>5 DEF Answered

LEMMA StageKeeps ==
  ASSUME StorageInv, NEW b \in Backends, NEW s \in Slots, s = current[b], Stage(b, s)
  PROVE  StorageInv'
<1>1. Does(b, s, "stage") /\ "stage" \in Methods /\ "stage" \in Writing
  BY DEF Stage, Methods, Writing
<1>2. /\ Shapes /\ s = current[b] /\ call[b].sent /\ call[b].method = "stage"
      /\ process[b][s].doing = call[b] /\ process[b][s].reply = "none"
      /\ call[b].tx \in Transactions
  BY <1>1, Doing DEF Does
<1>3. /\ UNCHANGED <<state, call, journal, current, objects, published, spoiled, crashes, damage,
                     refusals>>
      /\ \A t \in pending' : t \in pending \/ t = call[b].tx
  BY <1>2 DEF Stage, Tx
<1>4. PICK h \in BOOLEAN, a \in Replies :
        Answering(b, s, h, a)
  <2>1. CASE process' = [process EXCEPT ![b][s].half = TRUE]
    BY <1>2, <2>1 DEF Replies, Answering
  <2>2. CASE Replied(b, s, "ok")
    BY <2>2 DEF Replies, Answering
  <2>3. CASE Replied(b, s, "error")
    BY <2>3 DEF Replies, Answering
  <2>4. QED BY <2>1, <2>2, <2>3 DEF Stage
<1>5. PICK r \in Workers :
        /\ process' = [process EXCEPT ![b][s] = r]
        /\ r.alive = process[b][s].alive /\ r.doing = process[b][s].doing
        /\ Reply(b)' = a
  <2>1. s = current[b] /\ call[b].sent /\ call' = call /\ current' = current /\ a \in Replies
    BY <1>2, <1>3, <1>4 DEF Replies
  <2>2. Answered(b, s, a)
    BY <1>4, <2>1, RepliedFacts
  <2>3. QED BY <2>2 DEF Answered
<1>6. Cleaned(b)' /\ ReadBack(b)'
  BY <1>2, <1>3 DEF Cleaned, ReadBack
<1>7. pending' \subseteq Transactions /\ published' \subseteq Transactions
      /\ objects' \in [Keys -> {"absent", "good", "damaged"}]
  BY <1>2, <1>3 DEF Shapes
<1>8. QED BY <1>3, <1>5, <1>6, <1>7, WorkKeeps

\* Only a write whose journal says that it may be published is.
LEMMA PublishKeeps ==
  ASSUME StorageInv, NEW b \in Backends, NEW s \in Slots, s = current[b], Publish(b, s)
  PROVE  StorageInv'
<1>1. Does(b, s, "commit") /\ "commit" \in Methods /\ "commit" \in Writing
  BY DEF Publish, Methods, Writing
<1>2. /\ Shapes /\ s = current[b] /\ call[b].sent /\ call[b].method = "commit"
      /\ process[b][s].doing = call[b] /\ process[b][s].reply = "none" /\ Journalled(b)
      /\ call[b].tx \in Transactions /\ call[b].key \in Keys
  BY <1>1, Doing DEF Does
<1>3. journal[call[b].tx].state = "indeterminate-commit"
  BY <1>2 DEF Journalled, Writing, Before
<1>4. /\ UNCHANGED <<state, call, journal, current, pending, spoiled, crashes, damage, refusals>>
      /\ published' = published \/ published' = published \cup {call[b].tx}
      /\ \/ objects' = objects
         \/ objects[call[b].key] = "absent" /\ objects' = [objects EXCEPT ![call[b].key] = "good"]
  BY <1>2 DEF Publish, Tx, Key
<1>5. PICK h \in BOOLEAN, a \in {"none", "error"} :
        Answering(b, s, h, a)
  <2>1. CASE process' = [process EXCEPT ![b][s].half = TRUE]
    BY <1>2, <2>1 DEF Answering
  <2>2. CASE Replied(b, s, "error")
    BY <2>2 DEF Answering
  <2>3. QED BY <2>1, <2>2 DEF Publish
<1>6. PICK r \in Workers :
        /\ process' = [process EXCEPT ![b][s] = r]
        /\ r.alive = process[b][s].alive /\ r.doing = process[b][s].doing
        /\ Reply(b)' = a
  <2>1. s = current[b] /\ call[b].sent /\ call' = call /\ current' = current /\ a \in Replies
    BY <1>2, <1>4, <1>5 DEF Replies
  <2>2. Answered(b, s, a)
    BY <1>5, <2>1, RepliedFacts
  <2>3. QED BY <2>2 DEF Answered
<1>7. Cleaned(b)' /\ ReadBack(b)'
  BY <1>2, <1>4, <1>6 DEF Cleaned, ReadBack
<1>8. /\ pending' \subseteq Transactions /\ published' \subseteq Transactions
      /\ objects' \in [Keys -> {"absent", "good", "damaged"}]
      /\ \A k \in Keys : objects[k] = "damaged" => objects'[k] = "damaged"
      /\ \A t \in published' : t \in published \/ journal[t].state = "indeterminate-commit"
  BY <1>2, <1>3, <1>4 DEF Shapes
<1>9. QED BY <1>4, <1>6, <1>7, <1>8, WorkKeeps

\* A commit that is acknowledged has removed the files of its write.
LEMMA CommitDoneKeeps ==
  ASSUME StorageInv, NEW b \in Backends, NEW s \in Slots, s = current[b], CommitDone(b, s)
  PROVE  StorageInv'
<1>1. Does(b, s, "commit") /\ "commit" \in Methods /\ "commit" \in Writing
  BY DEF CommitDone, Methods, Writing
<1>2. /\ Shapes /\ s = current[b] /\ call[b].sent /\ call[b].method = "commit"
      /\ process[b][s].doing = call[b]
  BY <1>1, Doing
<1>3. /\ UNCHANGED <<state, call, journal, current, objects, published, spoiled, crashes, damage,
                     refusals>>
      /\ pending' \subseteq pending
  BY DEF CommitDone
<1>4. PICK a \in {"ok", "error"} :
        /\ Answering(b, s, FALSE, a)
        /\ a = "ok" => call[b].tx \notin pending'
  <2>1. CASE Replied(b, s, "ok") /\ pending' = pending \ {call[b].tx}
    BY <2>1 DEF Answering
  <2>2. CASE Replied(b, s, "error")
    BY <2>2 DEF Answering
  <2>3. QED BY <1>2, <2>1, <2>2 DEF CommitDone, Tx
<1>5. PICK r \in Workers :
        /\ process' = [process EXCEPT ![b][s] = r]
        /\ r.alive = process[b][s].alive /\ r.doing = process[b][s].doing
        /\ Reply(b)' = a
  <2>1. s = current[b] /\ call[b].sent /\ call' = call /\ current' = current /\ a \in Replies
    BY <1>2, <1>3, <1>4 DEF Replies
  <2>2. Answered(b, s, a)
    BY <1>4, <2>1, RepliedFacts
  <2>3. QED BY <2>2 DEF Answered
<1>6. Cleaned(b)' /\ ReadBack(b)'
  BY <1>2, <1>3, <1>4, <1>5 DEF Cleaned, ReadBack
<1>7. pending' \subseteq Transactions /\ published' \subseteq Transactions
      /\ objects' \in [Keys -> {"absent", "good", "damaged"}]
  BY <1>2, <1>3 DEF Shapes
<1>8. QED BY <1>3, <1>5, <1>6, <1>7, WorkKeeps

\* What is read is good only if it was not damaged.
LEMMA ReadKeeps ==
  ASSUME StorageInv, NEW b \in Backends, NEW s \in Slots, s = current[b], Read(b, s)
  PROVE  StorageInv'
<1>1. PICK m \in {"verify", "read"} : Does(b, s, m)
  BY DEF Read
<1>2. m \in Methods /\ m \in Writing \cup {"read"}
  BY DEF Methods, Writing
<1>3. /\ Shapes /\ s = current[b] /\ call[b].sent /\ call[b].method = m /\ Journalled(b)
      /\ process[b][s].doing = call[b] /\ call[b].key \in Keys
  BY <1>1, <1>2, Doing
<1>4. UNCHANGED <<state, call, journal, current, crashes, refusals>> /\ UNCHANGED root
  BY DEF Read
<1>5. UNCHANGED <<objects, pending, published, damage, spoiled>>
  BY <1>4 DEF root
<1>6. PICK a \in {"ok", "error", "damaged"} :
        /\ Answering(b, s, FALSE, a)
        /\ a = "ok" => objects[call[b].key] = "good"
  <2>1. PICK a \in {"ok", "error", "damaged"} :
          (a = "ok" => objects[Key(b, s)] = "good") /\ Replied(b, s, a)
    BY DEF Read
  <2>2. Key(b, s) = call[b].key
    BY <1>3 DEF Key
  <2>3. Answering(b, s, FALSE, a)
    BY <2>1 DEF Answering
  <2>4. QED BY <2>1, <2>2, <2>3
<1>7. PICK r \in Workers :
        /\ process' = [process EXCEPT ![b][s] = r]
        /\ r.alive = process[b][s].alive /\ r.doing = process[b][s].doing
        /\ Reply(b)' = a
  <2>1. s = current[b] /\ call[b].sent /\ call' = call /\ current' = current /\ a \in Replies
    BY <1>3, <1>4, <1>6 DEF Replies
  <2>2. Answered(b, s, a)
    BY <1>6, <2>1, RepliedFacts
  <2>3. QED BY <2>2 DEF Answered
<1>8. Cleaned(b)'
  <2>1. Cleaned(b)
    BY DEF StorageInv, BackendInv
  <2>2. call'[b] = call[b] /\ call[b].method \in {"verify", "read"} /\ pending' = pending
    BY <1>3, <1>4, <1>5
  <2>3. QED BY <2>1, <2>2 DEF Cleaned
<1>9. ReadBack(b)'
  <2>1. ASSUME call[b].method = "verify", a = "ok", call[b].tx \in spoiled
        PROVE  FALSE
    <3>1. journal[call[b].tx].key = call[b].key
      BY <1>3, <2>1 DEF Journalled, Writing
    <3>2. objects[call[b].key] = "damaged"
      BY <2>1, <3>1 DEF StorageInv, Spoiled
    <3>3. QED BY <1>6, <2>1, <3>2
  <2>2. QED BY <1>4, <1>5, <1>7, <2>1 DEF ReadBack
<1>10. pending' \subseteq Transactions /\ published' \subseteq Transactions
       /\ objects' \in [Keys -> {"absent", "good", "damaged"}]
  BY <1>3, <1>5 DEF Shapes
<1>11. QED BY <1>4, <1>5, <1>7, <1>8, <1>9, <1>10, WorkKeeps

\* An abort that is acknowledged has removed the files of its write.
LEMMA AbortKeeps ==
  ASSUME StorageInv, NEW b \in Backends, NEW s \in Slots, s = current[b], Abort(b, s)
  PROVE  StorageInv'
<1>1. Does(b, s, "abort") /\ "abort" \in Methods /\ "abort" \in Writing
  BY DEF Abort, Methods, Writing
<1>2. /\ Shapes /\ s = current[b] /\ call[b].sent /\ call[b].method = "abort"
      /\ process[b][s].doing = call[b]
  BY <1>1, Doing
<1>3. /\ UNCHANGED <<state, call, journal, current, objects, published, spoiled, crashes, damage,
                     refusals>>
      /\ pending' \subseteq pending
  BY DEF Abort
<1>4. PICK a \in {"ok", "error"} :
        /\ Answering(b, s, FALSE, a)
        /\ a = "ok" => call[b].tx \notin pending'
  <2>1. CASE Replied(b, s, "ok") /\ pending' = pending \ {call[b].tx}
    BY <2>1 DEF Answering
  <2>2. CASE Replied(b, s, "error")
    BY <2>2 DEF Answering
  <2>3. QED BY <1>2, <2>1, <2>2 DEF Abort, Cleared, Tx
<1>5. PICK r \in Workers :
        /\ process' = [process EXCEPT ![b][s] = r]
        /\ r.alive = process[b][s].alive /\ r.doing = process[b][s].doing
        /\ Reply(b)' = a
  <2>1. s = current[b] /\ call[b].sent /\ call' = call /\ current' = current /\ a \in Replies
    BY <1>2, <1>3, <1>4 DEF Replies
  <2>2. Answered(b, s, a)
    BY <1>4, <2>1, RepliedFacts
  <2>3. QED BY <2>2 DEF Answered
<1>6. Cleaned(b)' /\ ReadBack(b)'
  BY <1>2, <1>3, <1>4, <1>5 DEF Cleaned, ReadBack
<1>7. pending' \subseteq Transactions /\ published' \subseteq Transactions
      /\ objects' \in [Keys -> {"absent", "good", "damaged"}]
  BY <1>2, <1>3 DEF Shapes
<1>8. QED BY <1>3, <1>5, <1>6, <1>7, WorkKeeps

\* A worker that dies leaves what it was doing, and what it had answered; one
\* that was forgotten leaves nothing.
LEMMA CrashKeeps ==
  ASSUME StorageInv, NEW b \in Backends, NEW s \in Slots, Crash(b, s)
  PROVE  StorageInv'
<1>1. /\ Shapes /\ process[b][s] \in Workers /\ crashes \in Nat
  BY DEF StorageInv, Shapes
<1>2. PICK r \in Workers :
        /\ process' = [process EXCEPT ![b][s] = r] /\ ~r.alive
        /\ s = current[b] => /\ r.doing = process[b][s].doing
                             /\ r.reply = process[b][s].reply
  <2>1. CASE s # current[b] /\ process' = [process EXCEPT ![b][s] = Stopped]
    BY <2>1, RestingIsRequest
  <2>2. CASE process' = [process EXCEPT ![b][s].alive = FALSE]
    <3> DEFINE r == [process[b][s] EXCEPT !.alive = FALSE]
    <3>1. r \in Workers /\ ~r.alive /\ r.doing = process[b][s].doing
          /\ r.reply = process[b][s].reply
      BY <1>1 DEF Workers
    <3>2. process' = [process EXCEPT ![b][s] = r]
      BY <2>2
    <3>3. QED BY <3>1, <3>2
  <2>3. QED BY <2>1, <2>2 DEF Crash
<1>3. /\ UNCHANGED <<state, call, journal, current, refusals>> /\ UNCHANGED root
      /\ crashes' = crashes \/ (crashes < MaxCrashes /\ crashes' = crashes + 1)
  BY DEF Crash
<1>4. /\ process' \in [Backends -> [Slots -> Workers]] /\ process'[b][s] = r
      /\ \A z \in Slots : z # s => process'[b][z] = process[b][z]
      /\ \A c \in Backends : c # b => process'[c] = process[c]
  BY <1>1, <1>2, WorkerChanges, ZenonT(60)
<1>5. UNCHANGED <<objects, pending, published, damage, spoiled>>
  BY <1>3 DEF root
<1>6. Shapes'
  <2>1. crashes' \in 0..MaxCrashes
    BY <1>1, <1>3, StorageAssumption DEF Shapes
  <2>2. QED BY <1>1, <1>3, <1>4, <1>5, <2>1 DEF Shapes
<1>7. ASSUME NEW c \in Backends
      PROVE  BackendInv(c)'
  <2>1. BackendInv(c)
    BY DEF StorageInv
  <2>2. current[c] # Nil => current[c] \in Slots
    BY <1>1 DEF Shapes
  <2>3. /\ current[c] # Nil =>
             /\ process'[c][current[c]].doing = process[c][current[c]].doing
             /\ process'[c][current[c]].reply = process[c][current[c]].reply
        /\ \A z \in Slots : process'[c][z].alive => process'[c][z] = process[c][z]
    BY <1>2, <1>4, <2>2
  <2>4. Served(c)' /\ Journalled(c)'
    BY <1>3, <2>1, <2>2, <2>3 DEF BackendInv, Served, Journalled
  <2>5. Reply(c)' = Reply(c)
    BY <1>3, <2>1, <2>2, <2>3 DEF BackendInv, Served, Reply
  <2>6. Cleaned(c)' /\ ReadBack(c)'
    BY <1>3, <1>5, <2>1, <2>5 DEF BackendInv, Cleaned, ReadBack
  <2>7. Forgotten(c)'
    BY <1>3, <2>1, <2>3 DEF BackendInv, Forgotten, Loose, Told, Accounted
  <2>8. QED BY <2>4, <2>6, <2>7 DEF BackendInv
<1>8. Owned' /\ Announced' /\ Spoiled' /\ LeavesNoFiles' /\ DamagedIsNotVerified'
  BY <1>3, <1>5 DEF StorageInv, Owned, Announced, Spoiled, LeavesNoFiles, Returned, Accounted,
                    DamagedIsNotVerified
<1>9. QED BY <1>6, <1>7, <1>8 DEF StorageInv

\* What is damaged spoils the writes that have still to read it.
LEMMA DamageKeeps ==
  ASSUME StorageInv, NEW k \in Keys, Damage(k)
  PROVE  StorageInv'
<1>1. /\ objects' = [objects EXCEPT ![k] = "damaged"]
      /\ damage < MaxDamage /\ damage' = damage + 1
      /\ spoiled' = spoiled \cup {t \in Transactions : journal[t].key = k /\ Unanswered(t)}
      /\ UNCHANGED <<state, call, journal, current, process, pending, published, crashes, refusals>>
  BY DEF Damage
<1>2. Shapes /\ damage \in Nat
  BY DEF StorageInv, Shapes
<1>3. Shapes'
  <2>1. damage' \in 0..MaxDamage
    BY <1>1, <1>2, StorageAssumption
  <2>2. spoiled' \subseteq Transactions
    BY <1>1, <1>2 DEF Shapes
  <2>3. objects' \in [Keys -> {"absent", "good", "damaged"}]
    BY <1>1, <1>2 DEF Shapes
  <2>4. QED BY <1>1, <1>2, <2>1, <2>2, <2>3 DEF Shapes
<1>4. ASSUME NEW c \in Backends
      PROVE  BackendInv(c)'
  <2>1. BackendInv(c)
    BY DEF StorageInv
  <2>2. Reply(c)' = Reply(c)
    BY <1>1 DEF Reply
  <2>3. Served(c)' /\ Forgotten(c)' /\ Journalled(c)' /\ Cleaned(c)'
    BY <1>1, <2>1, <2>2 DEF BackendInv, Served, Forgotten, Loose, Told, Accounted, Journalled,
                            Cleaned
  <2>4. ReadBack(c)'
    <3>1. SUFFICES ASSUME call[c].method = "verify", Reply(c) = "ok", Unanswered(call[c].tx)
                   PROVE  FALSE
      BY <1>1, <2>1, <2>2 DEF BackendInv, ReadBack
    <3>2. PICK d \in Backends :
            call[d].tx = call[c].tx /\ (Calls(d, "verify") => Reply(d) = "none")
      BY <3>1 DEF Unanswered
    <3>3. d = c
      <4>1. BackendInv(d)
        BY DEF StorageInv
      <4>2. QED BY <2>1, <3>1, <3>2, <4>1, RowsApart DEF BackendInv, Journalled, Writing
    <3>4. QED BY <3>1, <3>2, <3>3 DEF Calls
  <2>5. QED BY <2>3, <2>4 DEF BackendInv
<1>5. Owned' /\ Announced' /\ LeavesNoFiles'
  BY <1>1 DEF StorageInv, Owned, Announced, LeavesNoFiles, Returned, Accounted
<1>6. Spoiled'
  BY <1>1, <1>2 DEF StorageInv, Shapes, Spoiled
<1>7. DamagedIsNotVerified'
  <2>1. ASSUME NEW t \in Transactions, Unanswered(t)
        PROVE  journal[t].state # "verified"
    <3>1. PICK d \in Backends : call[d].tx = t
      BY <2>1 DEF Unanswered
    <3>2. BackendInv(d) /\ t # Nil
      BY StorageAssumption DEF StorageInv
    <3>3. QED BY <3>1, <3>2 DEF BackendInv, Journalled, Before
  <2>2. QED BY <1>1, <2>1 DEF StorageInv, DamagedIsNotVerified
<1>8. QED BY <1>3, <1>4, <1>5, <1>6, <1>7 DEF StorageInv

-----------------------------------------------------------------------------
(* Every behaviour                                                         *)

LEMMA StorageStep ==
  ASSUME StorageInv, [Next]_vars
  PROVE  StorageInv'
<1>1. ASSUME NEW b \in Backends, Operate(b)
      PROVE  StorageInv'
  BY <1>1, WriteStartKeeps, WriteGoesOn, WriteEnds, SendKeeps, ReadsKeep DEF Operate, Write
<1>2. ASSUME NEW b \in Backends, NEW s \in Slots, Work(b, s)
      PROVE  StorageInv'
  <2>1. CASE Crash(b, s)
    BY <2>1, CrashKeeps
  <2>2. CASE s # current[b]
    BY <1>2, <2>1, <2>2, LooseKeeps DEF Work
  <2>3. CASE s = current[b]
    BY <1>2, <2>1, <2>3, StageKeeps, PublishKeeps, CommitDoneKeeps, ReadKeeps, AbortKeeps DEF Work
  <2>4. QED BY <2>2, <2>3
<1>3. ASSUME UNCHANGED vars
      PROVE  StorageInv'
  <2>1. /\ UNCHANGED <<state, call, journal, current, process, objects, pending, published,
                       spoiled, crashes, damage, refusals>>
    BY <1>3 DEF vars
  <2>2. \A b \in Backends : Reply(b)' = Reply(b)
    BY <2>1 DEF Reply
  <2>3. \A b \in Backends : BackendInv(b)'
    BY <2>1, <2>2 DEF StorageInv, BackendInv, Served, Forgotten, Loose, Told, Accounted,
                      Journalled, Cleaned, ReadBack
  <2>4. QED
    BY <2>1, <2>3 DEF StorageInv, Shapes, Owned, Announced, Spoiled, LeavesNoFiles, Returned,
                      Accounted, DamagedIsNotVerified
<1>4. QED BY <1>1, <1>2, <1>3, DamageKeeps DEF Next

LEMMA StorageBegins == Init => StorageInv
<1>1. SUFFICES ASSUME Init PROVE StorageInv
  OBVIOUS
<1>2. NoRow \in Entries
  BY DEF NoRow, Entries, Rows, Raised
<1>3. Shapes
  BY <1>1, <1>2, RestingIsRequest, StorageAssumption DEF Init, Shapes
<1>4. ASSUME NEW b \in Backends
      PROVE  BackendInv(b)
  BY <1>1 DEF Init, BackendInv, Served, Forgotten, Journalled, Cleaned, ReadBack, Reply,
              Resting, Stopped, Writing
<1>5. Owned /\ Announced /\ Spoiled /\ LeavesNoFiles /\ DamagedIsNotVerified
  BY <1>1 DEF Init, Owned, Announced, Spoiled, LeavesNoFiles, DamagedIsNotVerified, NoRow
<1>6. QED BY <1>3, <1>4, <1>5 DEF StorageInv

\* In every behaviour the row of a write agrees with the call it is making, the
\* backend's worker serves that call, what it has answered is so, and a worker
\* that could not be stopped works only for a write of which that is told
\* (backends.py, transport_worker.py).
THEOREM StorageInvariance == Spec => []StorageInv
<1>1. StorageInv /\ [Next]_vars => StorageInv'
  BY StorageStep
<1>2. QED BY <1>1, StorageBegins, PTL DEF Spec

\* What the journal calls aborted was not published and never will be, however
\* late its worker, its answer and its timeout are.
THEOREM AbortIsHonest == Spec => []AbortedIsUnpublished
<1>1. StorageInv => AbortedIsUnpublished
  BY DEF StorageInv, Announced, AbortedIsUnpublished
<1>2. QED BY <1>1, StorageInvariance, PTL

\* A write that returned left no file of its own, unless its row says that its
\* cleaning up failed or that a worker could not be stopped.
THEOREM WritesCleanUp == Spec => []LeavesNoFiles
<1>1. StorageInv => LeavesNoFiles
  BY DEF StorageInv
<1>2. QED BY <1>1, StorageInvariance, PTL

\* No worker works on after the write that it was started for, and no two of a
\* backend are alive at once, but for one that could not be stopped: that write's
\* row tells.
THEOREM LateIsKilled == Spec => []NothingRunsOn
<1>1. ASSUME StorageInv
      PROVE  NothingRunsOn
  <2>1. SUFFICES ASSUME NEW b \in Backends, NEW s \in Slots, process[b][s].alive
                 PROVE  /\ refusals[b] = 0 => s = current[b]
                        /\ process[b][s].reply = "none" /\ process[b][s].doing.tx # Nil =>
                             \/ ~Returned(process[b][s].doing.tx)
                             \/ Accounted(process[b][s].doing.tx)
    BY DEF NothingRunsOn, Works
  <2>2. BackendInv(b) /\ s # Nil
    BY <1>1, StorageAssumption DEF StorageInv
  <2>3. CASE s = current[b]
    <3>1. process[b][s].doing \in {call[b], Resting}
      BY <2>2, <2>3 DEF BackendInv, Served
    <3>2. QED BY <2>3, <3>1 DEF Returned, Resting
  <2>4. CASE s # current[b]
    <3>1. Loose(b, s)
      BY <2>1, <2>2, <2>4 DEF BackendInv, Forgotten
    <3>2. QED BY <3>1 DEF Loose, Told, Returned
  <2>5. QED BY <2>3, <2>4
<1>2. QED BY <1>1, StorageInvariance, PTL

\* A write never reports as verified an object that was damaged before it read
\* it back.
THEOREM VerifiedWasRead == Spec => []DamagedIsNotVerified
<1>1. StorageInv => DamagedIsNotVerified
  BY DEF StorageInv
<1>2. QED BY <1>1, StorageInvariance, PTL

-----------------------------------------------------------------------------
(* The provider of an agent                                                *)

\* The provider's fields, and what each may hold.
Fields == {"home", "session", "budget", "sync", "index", "runtime", "last", "block", "failed"}

Fielded ==
  /\ DOMAIN provider = Fields
  /\ provider.home \in Homes \cup {Nil} /\ provider.session \in Sessions \cup {Nil}
  /\ provider.sync \in BOOLEAN /\ provider.failed \in BOOLEAN
  /\ provider.index \in Homes \cup {Nil} /\ provider.runtime \in Homes \cup {Nil}
  /\ provider.last \in Agent!Results \cup {Nil}

\* hermes_plugin.py: the budget is one that a profile configures; the runtime is
\* over the open database, which is that of the profile, and what was recalled
\* is of this session and profile, unless initialize has failed.
AgentInv ==
  /\ config \in [Homes -> Settings]
  /\ stored \in [Homes -> [Sessions -> Agent!Texts \cup {Nil}]]
  /\ imported \subseteq Homes /\ boundary \in BOOLEAN
  /\ jobs \in Seq(Agent!Texts)
  /\ Fielded
  /\ provider.home # Nil => \E st \in Settings : provider.budget = st.budget
  /\ Agent!LiveScopesOwned /\ Agent!StateOfSession
  /\ ~provider.failed => provider.index \in {provider.home, Nil}
  /\ ~provider.failed /\ provider.last # Nil =>
       /\ provider.last.session = provider.session
       /\ provider.last.home = provider.home
       /\ provider.last.fits

\* The fields of a provider of which some are set.
LEMMA SetFields ==
  ASSUME Fielded, NEW fields, Agent!SetProvider(fields)
  PROVE  /\ DOMAIN provider' = Fields
         /\ \A f \in Fields : provider'[f] = IF f \in DOMAIN fields THEN fields[f]
                                             ELSE provider[f]
BY DEF Fielded, Agent!SetProvider

\* As the provider begins.
LEMMA AgentBegins == Agent!Init => AgentInv
<1>1. SUFFICES ASSUME Agent!Init PROVE AgentInv
  OBVIOUS
<1>2. Fielded
  BY <1>1 DEF Agent!Init, Fielded, Fields
<1>3. << >> \in Seq(Agent!Texts)
  OBVIOUS
<1>4. Agent!LiveScopesOwned /\ Agent!StateOfSession
  BY <1>1 DEF Agent!Init, Agent!LiveScopesOwned, Agent!OwnText, Agent!StateOfSession
<1>5. QED BY <1>1, <1>2, <1>3, <1>4 DEF Agent!Init, AgentInv

\* What stays while the provider keeps its fields.
LEMMA StoredKeeps ==
  ASSUME AgentInv, UNCHANGED <<provider, boundary>>,
         config' \in [Homes -> Settings], imported' \subseteq Homes, jobs' \in Seq(Agent!Texts),
         stored' \in [Homes -> [Sessions -> Agent!Texts \cup {Nil}]],
         \A h \in Homes, s \in Sessions : Agent!OwnText(s, stored'[h][s])
  PROVE  AgentInv'
BY DEF AgentInv, Fielded, Agent!LiveScopesOwned, Agent!StateOfSession

\* A profile is configured, or its database imported.
LEMMA ProfilesKeep ==
  ASSUME AgentInv, NEW h \in Homes,
         (\E st \in Settings : Agent!Configure(h, st)) \/ Agent!Import(h)
  PROVE  AgentInv'
<1>1. UNCHANGED <<provider, boundary, jobs, stored>>
  BY DEF Agent!Configure, Agent!Import
<1>2. config' \in [Homes -> Settings] /\ imported' \subseteq Homes
  BY DEF Agent!Configure, Agent!Import, AgentInv
<1>3. QED BY <1>1, <1>2, StoredKeeps DEF AgentInv, Agent!LiveScopesOwned

\* What was said is queued, and stored in the scope of its own session, unless
\* the agent had not named it.
LEMMA TurnsKeep ==
  ASSUME AgentInv,
         (\E named \in BOOLEAN : Agent!Say(named)) \/ Agent!Sync \/ Agent!SyncNow \/ Agent!SyncFails
  PROVE  AgentInv'
<1>1. UNCHANGED <<provider, boundary, config, imported>>
  BY DEF Agent!Say, Agent!Sync, Agent!SyncNow, Agent!SyncFails
<1>2. jobs' \in Seq(Agent!Texts)
  <2>1. CASE \E named \in BOOLEAN : Agent!Say(named)
    <3>1. PICK named \in BOOLEAN : Agent!Say(named)
      BY <2>1
    <3>2. PICK job \in Agent!Texts : jobs' = Append(jobs, job)
      <4>1. [session |-> provider.session, named |-> named] \in Agent!Texts
        BY <3>1 DEF Agent!Say, AgentInv, Fielded, Agent!Texts
      <4>2. QED BY <3>1, <4>1 DEF Agent!Say
    <3>3. QED BY <3>2 DEF AgentInv
  <2>2. CASE Agent!Sync \/ Agent!SyncFails
    <3>1. jobs # << >> /\ jobs' = Tail(jobs)
      BY <2>2 DEF Agent!Sync, Agent!SyncFails
    <3>2. QED BY <3>1 DEF AgentInv
  <2>3. CASE Agent!SyncNow
    BY <2>3 DEF Agent!SyncNow, AgentInv
  <2>4. QED BY <2>1, <2>2, <2>3
<1>3. /\ stored' \in [Homes -> [Sessions -> Agent!Texts \cup {Nil}]]
      /\ \A h \in Homes, s \in Sessions : Agent!OwnText(s, stored'[h][s])
  <2>1. CASE UNCHANGED stored
    BY <2>1 DEF AgentInv, Agent!LiveScopesOwned
  <2>2. ASSUME NEW text \in Agent!Texts, NEW scope, text.named => scope = text.session,
               stored' = [stored EXCEPT ![provider.home][scope] = text]
        PROVE  <1>3
    <3>1. stored' = [h \in Homes |-> IF h = provider.home THEN [stored[h] EXCEPT ![scope] = text]
                                     ELSE stored[h]]
      BY <2>2 DEF AgentInv
    <3>2. ASSUME NEW h \in Homes
          PROVE  stored'[h] = [s \in Sessions |-> IF h = provider.home /\ s = scope THEN text
                                                 ELSE stored[h][s]]
      <4>1. stored[h] \in [Sessions -> Agent!Texts \cup {Nil}]
        BY DEF AgentInv
      <4>2. QED BY <3>1, <4>1
    <3>3. stored' \in [Homes -> [Sessions -> Agent!Texts \cup {Nil}]]
      <4>1. DOMAIN stored' = Homes /\ stored' = [h \in Homes |-> stored'[h]]
        BY <3>1
      <4>2. \A h \in Homes : stored'[h] \in [Sessions -> Agent!Texts \cup {Nil}]
        BY <2>2, <3>2 DEF AgentInv
      <4>3. QED BY <4>1, <4>2
    <3>4. \A h \in Homes, s \in Sessions : Agent!OwnText(s, stored'[h][s])
      BY <2>2, <3>2 DEF AgentInv, Agent!LiveScopesOwned, Agent!OwnText
    <3>5. QED BY <3>3, <3>4
  <2>3. CASE Agent!Sync /\ ~UNCHANGED stored
    <3>1. PICK job : job = Head(jobs)
      OBVIOUS
    <3>2. job \in Agent!Texts
      BY <2>3, <3>1 DEF Agent!Sync, AgentInv
    <3>3. /\ [session |-> job.session, named |-> job.named] = job
          /\ job.named => Agent!LiveScope(job) = job.session
      BY <3>2 DEF Agent!Texts, Agent!LiveScope
    <3>4. stored' = [stored EXCEPT ![provider.home][Agent!LiveScope(job)] =
                       [session |-> job.session, named |-> job.named]]
      BY <2>3, <3>1 DEF Agent!Sync, Agent!Store
    <3>5. QED BY <2>2, <3>2, <3>3, <3>4
  <2>4. CASE Agent!SyncNow /\ ~UNCHANGED stored
    <3>1. /\ [session |-> provider.session, named |-> TRUE] \in Agent!Texts
          /\ stored' = [stored EXCEPT ![provider.home][provider.session] =
                          [session |-> provider.session, named |-> TRUE]]
      BY <2>4 DEF Agent!SyncNow, Agent!Store, Agent!Texts, AgentInv, Fielded
    <3>2. QED BY <2>2, <3>1
  <2>5. QED BY <2>1, <2>3, <2>4 DEF Agent!Say, Agent!SyncFails
<1>4. QED BY <1>1, <1>2, <1>3, StoredKeeps DEF AgentInv

\* A session begins, in this profile or another one, or fails to.
LEMMA InitializeKeeps ==
  ASSUME AgentInv, NEW h \in Homes, NEW s \in Sessions, Agent!Initialize(h, s)
  PROVE  AgentInv'
<1> DEFINE base == IF Agent!HasDatabase(h) THEN h ELSE Nil
<1>1. /\ DOMAIN provider' = Fields
      /\ provider'.home = h /\ provider'.session = s /\ provider'.budget = config[h].budget
      /\ provider'.sync = config[h].sync /\ provider'.last = Nil /\ provider'.runtime = Nil
      /\ provider'.index = base /\ provider'.failed = FALSE
  BY SetFields DEF Agent!Initialize, AgentInv, Fields
<1>2. base \in {h, Nil}
  OBVIOUS
<1> HIDE DEF base
<1>3. /\ boundary' = TRUE /\ UNCHANGED <<config, jobs, stored, imported>>
      /\ config[h] \in Settings
  BY DEF Agent!Initialize, AgentInv
<1>4. Fielded'
  BY <1>1, <1>2, <1>3, BackendsAssumption DEF Fielded
<1>5. Agent!LiveScopesOwned' /\ Agent!StateOfSession'
  BY <1>1, <1>3 DEF AgentInv, Agent!LiveScopesOwned, Agent!StateOfSession
<1>6. QED BY <1>1, <1>2, <1>3, <1>4, <1>5 DEF AgentInv

\* It raises before it has changed the session, or halfway.
LEMMA InitializeFailsKeeps ==
  ASSUME AgentInv, NEW h \in Homes, NEW s \in Sessions, Agent!InitializeFails(h, s)
  PROVE  AgentInv'
<1>1. /\ DOMAIN provider' = Fields
      /\ \/ provider'.home = provider.home /\ provider'.session = provider.session
            /\ provider'.budget = provider.budget
         \/ provider'.home = h /\ provider'.session = s /\ provider'.budget = config[h].budget
      /\ provider'.sync = provider.sync /\ provider'.last = provider.last
      /\ provider'.runtime = Nil /\ provider'.index = provider.index
      /\ provider'.failed = TRUE
  <2>1. CASE Agent!SetProvider([runtime |-> Nil, failed |-> TRUE])
    BY <2>1, SetFields DEF AgentInv, Fields
  <2>2. CASE Agent!SetProvider([home |-> h, session |-> s, budget |-> config[h].budget,
                                runtime |-> Nil, failed |-> TRUE])
    BY <2>2, SetFields DEF AgentInv, Fields
  <2>3. QED BY <2>1, <2>2 DEF Agent!InitializeFails
<1>2. /\ UNCHANGED <<config, jobs, stored, imported, boundary>>
      /\ config[h] \in Settings
  BY DEF Agent!InitializeFails, AgentInv
<1>3. Fielded'
  BY <1>1, <1>2 DEF Fielded, AgentInv
<1>4. Agent!LiveScopesOwned' /\ Agent!StateOfSession'
  BY <1>1, <1>2 DEF AgentInv, Agent!LiveScopesOwned, Agent!StateOfSession
<1>5. provider'.home # Nil => \E st \in Settings : provider'.budget = st.budget
  BY <1>1, <1>2 DEF AgentInv
<1>6. QED BY <1>1, <1>2, <1>3, <1>4, <1>5 DEF AgentInv

\* The session changes; the warm block is derived again, or is empty.
LEMMA SwitchKeeps ==
  ASSUME AgentInv, NEW s \in Sessions, Agent!Switch(s)
  PROVE  AgentInv'
<1>1. /\ DOMAIN provider' = Fields
      /\ provider'.home = provider.home /\ provider'.session = s
      /\ provider'.budget = provider.budget
      /\ provider'.sync = provider.sync /\ provider'.last = Nil
      /\ provider'.runtime = provider.runtime /\ provider'.index = provider.index
      /\ provider'.failed = provider.failed
  BY SetFields DEF Agent!Switch, AgentInv, Fields
<1>2. UNCHANGED <<config, jobs, stored, imported>> /\ boundary' = TRUE
  BY DEF Agent!Switch
<1>3. Fielded'
  BY <1>1 DEF Fielded, AgentInv
<1>4. Agent!LiveScopesOwned' /\ Agent!StateOfSession'
  BY <1>1, <1>2 DEF AgentInv, Agent!LiveScopesOwned, Agent!StateOfSession
<1>5. QED BY <1>1, <1>2, <1>3, <1>4 DEF AgentInv

\* The block is of this session and profile.
LEMMA RefreshKeeps == ASSUME AgentInv, Agent!RefreshWarmDirectory PROVE AgentInv'
<1> DEFINE block == [home |-> provider.home, session |-> provider.session]
<1>1. /\ DOMAIN provider' = Fields
      /\ \A f \in Fields \ {"block"} : provider'[f] = provider[f]
      /\ provider'.block \in {Nil, block}
  BY SetFields DEF Agent!RefreshWarmDirectory, AgentInv, Fields
<1> HIDE DEF block
<1>2. /\ provider'.home = provider.home /\ provider'.session = provider.session
      /\ provider'.budget = provider.budget
      /\ provider'.sync = provider.sync /\ provider'.last = provider.last
      /\ provider'.runtime = provider.runtime /\ provider'.index = provider.index
      /\ provider'.failed = provider.failed
  BY <1>1 DEF Fields
<1>3. UNCHANGED <<config, jobs, stored, imported>> /\ boundary' = FALSE
  BY DEF Agent!RefreshWarmDirectory
<1>4. Fielded'
  BY <1>1, <1>2 DEF Fielded, AgentInv
<1>5. Agent!LiveScopesOwned' /\ Agent!StateOfSession'
  BY <1>1, <1>2, <1>3 DEF AgentInv, Agent!LiveScopesOwned, Agent!StateOfSession, block
<1>6. QED BY <1>2, <1>3, <1>4, <1>5 DEF AgentInv

\* What was recalled is given up, with the runtime at the end.
LEMMA ForgettingKeeps ==
  ASSUME AgentInv, UNCHANGED <<config, jobs, stored, imported, boundary>>,
         DOMAIN provider' = Fields, provider'.last = Nil,
         provider'.block \in {Nil, provider.block},
         \A f \in {"home", "session", "budget", "sync", "failed"} : provider'[f] = provider[f],
         provider'.runtime \in {Nil, provider'.index},
         provider'.index \in Homes \cup {Nil},
         ~provider.failed => provider'.index \in {provider.home, Nil}
  PROVE  AgentInv'
<1>1. /\ provider'.home = provider.home /\ provider'.session = provider.session
      /\ provider'.budget = provider.budget
      /\ provider'.sync = provider.sync /\ provider'.failed = provider.failed
  OBVIOUS
<1>2. Fielded'
  BY <1>1 DEF Fielded, AgentInv
<1>3. Agent!LiveScopesOwned' /\ Agent!StateOfSession'
  BY <1>1 DEF AgentInv, Agent!LiveScopesOwned, Agent!StateOfSession
<1>4. QED BY <1>1, <1>2, <1>3 DEF AgentInv

\* Nothing is left to report after these.
LEMMA LosesKeep ==
  ASSUME AgentInv,
         Agent!Shutdown \/ Agent!OnMemoryWrite \/ \E s \in Sessions : Agent!PrefetchNothing(s)
  PROVE  AgentInv'
<1>1. /\ UNCHANGED <<config, jobs, stored, imported, boundary>>
      /\ \/ Agent!SetProvider([block |-> Nil, runtime |-> Nil, last |-> Nil, index |-> Nil])
         \/ Agent!SetProvider([last |-> Nil])
  BY DEF Agent!Shutdown, Agent!OnMemoryWrite, Agent!PrefetchNothing
<1>2. /\ DOMAIN provider' = Fields /\ provider'.last = Nil
      /\ provider'.block \in {Nil, provider.block}
      /\ \A f \in {"home", "session", "budget", "sync", "failed"} : provider'[f] = provider[f]
      /\ \/ provider'.runtime = Nil /\ provider'.index = Nil
         \/ provider'.runtime = provider.runtime /\ provider'.index = provider.index
  <2>1. CASE Agent!SetProvider([block |-> Nil, runtime |-> Nil, last |-> Nil, index |-> Nil])
    BY <2>1, SetFields DEF AgentInv, Fields
  <2>2. CASE Agent!SetProvider([last |-> Nil])
    BY <2>2, SetFields DEF AgentInv, Fields
  <2>3. QED BY <1>1, <2>1, <2>2
<1>3. provider'.runtime \in {Nil, provider'.index} /\ provider'.index \in Homes \cup {Nil}
  BY <1>2 DEF AgentInv, Agent!StateOfSession, Fielded
<1>4. ~provider.failed => provider'.index \in {provider.home, Nil}
  BY <1>2 DEF AgentInv
<1>5. QED BY <1>1, <1>2, <1>3, <1>4, ForgettingKeeps

\* The database that is searched is the open one, or that of the profile.
LEMMA PrefetchFailsKeeps ==
  ASSUME AgentInv, NEW s \in Sessions, Agent!PrefetchFails(s)
  PROVE  AgentInv'
<1> DEFINE h == IF provider.index = Nil THEN provider.home ELSE provider.index
<1>1. /\ UNCHANGED <<config, jobs, stored, imported, boundary>>
      /\ Agent!SetProvider([last |-> Nil, index |-> h, runtime |-> h])
      /\ provider.home # Nil
  BY DEF Agent!PrefetchFails
<1>2. h \in Homes /\ (~provider.failed => h = provider.home)
  BY <1>1 DEF AgentInv, Fielded
<1> HIDE DEF h
<1>3. /\ DOMAIN provider' = Fields /\ provider'.last = Nil
      /\ provider'.block = provider.block
      /\ \A f \in {"home", "session", "budget", "sync", "failed"} : provider'[f] = provider[f]
      /\ provider'.runtime = h /\ provider'.index = h
  BY <1>1, SetFields DEF AgentInv, Fields
<1>4. QED BY <1>1, <1>2, <1>3, ForgettingKeeps

\* What is composed of a live and a recalled context is within the budget.
LEMMA ComposedFits ==
  ASSUME NEW B \in Nat, NEW live \in 0..B, NEW base \in 0..Agent!Room(B, live), NEW extra \in 0..1
  PROVE  Agent!Compose(B, live, base, extra) <= B
BY DEF Agent!Compose, Agent!Room

\* So is anything that a prefetch may compose.
LEMMA FittingIsTrue ==
  ASSUME NEW h, NEW B \in Nat, NEW live \in 0..B
  PROVE  \A fits \in Agent!Fitting(h, B, live) : fits = TRUE
<1>1. 0 \in 0..Agent!Room(B, live)
  BY DEF Agent!Room
<1>2. ASSUME NEW fits \in Agent!Fitting(h, B, live) PROVE fits = TRUE
  <2>1. PICK base \in IF h \in imported THEN 0..Agent!Room(B, live) ELSE {0} :
          \E extra \in 0..1 : fits = (Agent!Compose(B, live, base, extra) <= B)
    BY <1>2 DEF Agent!Fitting
  <2>2. PICK extra \in 0..1 : fits = (Agent!Compose(B, live, base, extra) <= B)
    BY <2>1
  <2>3. Agent!Compose(B, live, base, extra) <= B
    BY <1>1, <2>1, ComposedFits
  <2>4. QED BY <2>2, <2>3, Zenon
<1>3. QED BY <1>2

\* What is recalled is of this session, of the open database and within the budget.
LEMMA PrefetchKeeps ==
  ASSUME AgentInv, NEW s \in Sessions, Agent!Prefetch(s)
  PROVE  AgentInv'
<1> DEFINE h == IF provider.index = Nil THEN provider.home ELSE provider.index
           B == provider.budget
<1>1. /\ UNCHANGED <<config, jobs, stored, imported, boundary>>
      /\ provider.home # Nil /\ s = provider.session
  BY DEF Agent!Prefetch
<1>2. h \in Homes /\ (~provider.failed => h = provider.home)
  BY <1>1 DEF AgentInv, Fielded
<1>3. B \in Nat /\ LiveCap[B] \in 0..B
  <2>1. PICK st \in Settings : B = st.budget
    BY <1>1 DEF AgentInv
  <2> HIDE DEF B
  <2>2. QED BY <2>1, BackendsAssumption
<1>4. PICK live \in (IF provider.sync THEN Agent!Found(h, s, LiveCap[B]) ELSE {0}) :
        \E fits \in Agent!Fitting(h, B, live) :
          Agent!SetProvider([index |-> h, runtime |-> h,
            last |-> [session |-> s, home |-> h,
                      live |-> IF live = 0 THEN Nil ELSE stored[h][s], fits |-> fits]])
  BY DEF Agent!Prefetch
<1>5. PICK fits \in Agent!Fitting(h, B, live) :
          Agent!SetProvider([index |-> h, runtime |-> h,
            last |-> [session |-> s, home |-> h,
                      live |-> IF live = 0 THEN Nil ELSE stored[h][s], fits |-> fits]])
  BY <1>4
<1> DEFINE found == [session |-> s, home |-> h,
                     live |-> IF live = 0 THEN Nil ELSE stored[h][s], fits |-> fits]
<1> HIDE DEF h, B
<1>6. live \in 0..B
  BY <1>3, <1>4 DEF Agent!Found
<1>7. fits = TRUE
  BY <1>3, <1>5, <1>6, FittingIsTrue
<1>8. /\ found \in Agent!Results /\ found.session = s /\ found.home = h /\ found.fits = TRUE
      /\ Agent!OwnText(s, found.live)
  BY <1>2, <1>7 DEF AgentInv, Agent!LiveScopesOwned, Agent!OwnText, Agent!Results
<1>9. Agent!SetProvider([index |-> h, runtime |-> h, last |-> found])
  BY <1>5
<1> HIDE DEF found
<1>10. /\ DOMAIN provider' = Fields
      /\ provider'.home = provider.home /\ provider'.session = provider.session
      /\ provider'.budget = provider.budget
      /\ provider'.sync = provider.sync /\ provider'.last = found
      /\ provider'.runtime = h /\ provider'.index = h
      /\ provider'.failed = provider.failed /\ provider'.block = provider.block
  BY <1>9, SetFields DEF AgentInv, Fields
<1>11. Fielded'
  BY <1>2, <1>8, <1>10 DEF Fielded, AgentInv
<1>12. Agent!LiveScopesOwned'
  BY <1>1, <1>8, <1>10 DEF AgentInv, Agent!LiveScopesOwned
<1>13. ~provider.failed => found.home = provider.home /\ found.session = provider.session
  BY <1>1, <1>2, <1>8
<1>14. Agent!StateOfSession'
  BY <1>1, <1>8, <1>10, <1>13 DEF AgentInv, Agent!StateOfSession
<1>15. QED BY <1>1, <1>2, <1>8, <1>10, <1>11, <1>12, <1>13, <1>14 DEF AgentInv

\* Every step keeps it.
LEMMA AgentKeeps ==
  ASSUME AgentInv, [Agent!Next]_(Agent!vars)
  PROVE  AgentInv'
<1>1. CASE UNCHANGED Agent!vars
  BY <1>1 DEF Agent!vars, AgentInv, Fielded, Agent!LiveScopesOwned, Agent!StateOfSession
<1>2. CASE Agent!Next
  BY <1>2, ProfilesKeep, TurnsKeep, InitializeKeeps, InitializeFailsKeeps, SwitchKeeps,
     RefreshKeeps, LosesKeep, PrefetchFailsKeeps, PrefetchKeeps DEF Agent!Next
<1>3. QED BY <1>1, <1>2

\* In every behaviour what the provider holds is of the session and the profile it
\* was last given, unless initialize has failed, and the scopes are the sessions'
\* own (hermes_plugin.py).
THEOREM AgentInvariance == Agent!Spec => []AgentInv
<1>1. AgentInv /\ [Agent!Next]_(Agent!vars) => AgentInv'
  BY AgentKeeps
<1>2. QED BY <1>1, AgentBegins, PTL DEF Agent!Spec

-----------------------------------------------------------------------------
(* Both of them                                                            *)

\* However sessions, profiles, failures, background syncs and prefetches
\* interleave: the text of a session is only in its own scope, and what the
\* provider reports was derived in the session it reports it for
\* (hermes_plugin.py, hermes_v14_plugin.py).
THEOREM ScopesApart == Apart => []SessionsApart
<1>1. AgentInv => SessionsApart
  BY DEF AgentInv, SessionsApart
<1>2. QED BY <1>1, AgentInvariance, PTL DEF Apart

\* The types of both follow from their inductive invariants.
THEOREM BackendsTyped == Apart => []TypesOK
<1>1. StorageInv => TypeOK
  <2>1. SUFFICES ASSUME StorageInv PROVE TypeOK
    OBVIOUS
  <2>2. ASSUME NEW b \in Backends
        PROVE  /\ call[b].method \in Methods \cup {"none"}
               /\ call[b].tx \in Transactions \cup {Nil} /\ call[b].key \in Keys \cup {Nil}
               /\ call[b].method \in Writing <=> call[b].tx # Nil
               /\ current[b] \in Slots \cup {Nil}
               /\ call[b].sent => current[b] # Nil
               /\ call[b].raised # "none" => Calls(b, "abort")
               /\ \A s \in Slots : process[b][s].reply \in Replies
    <3>1. Served(b) /\ Journalled(b)
      BY <2>1 DEF StorageInv, BackendInv
    <3>2. call[b] \in Requests /\ \A s \in Slots : process[b][s] \in Workers
      BY <2>1 DEF StorageInv, Shapes
    <3>3. QED BY <2>1, <3>1, <3>2 DEF Requests, Workers, Served, Journalled, Calls, StorageInv, Shapes
  <2>3. ASSUME NEW t \in Transactions, journal[t] # NoRow
        PROVE  journal[t].state \in Rows /\ journal[t].owner \in Backends
    <3>1. journal[t] \in Entries /\ Owned
      BY <2>1 DEF StorageInv, Shapes
    <3>2. QED BY <2>3, <3>1 DEF Entries, Owned
  <2>4. QED BY <2>1, <2>2, <2>3 DEF StorageInv, Shapes, TypeOK
<1>2. AgentInv => Agent!TypeOK
  BY DEF AgentInv, Fielded, Agent!TypeOK
<1>3. QED BY <1>1, <1>2, StorageInvariance, AgentInvariance, PTL
          DEF Apart, TypesOK
=============================================================================
