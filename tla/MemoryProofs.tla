---------------------------- MODULE MemoryProofs ----------------------------
(***************************************************************************)
(* Proofs about Memories, for any workers, readers, journals, roots,       *)
(* generations, crashes, processes, texts, ids, revisions, anchors, scans, *)
(* versions and damage.  Migration: nobody is sent to a segment that is    *)
(* not there, save the one retired from under a publication.  The index of *)
(* memory entries: what was acknowledged is kept and counted once.         *)
(* Mentions: one is stored once.  Engines: what is loaded was built for    *)
(* it, and stays what it is.                                               *)
(***************************************************************************)
EXTENDS Memories, FiniteSetTheorems, TLAPS

-----------------------------------------------------------------------------
(* Segment migration                                                       *)


\* The steps of a worker that resumes a journal.
Resuming == {"open", "link", "verify", "publish", "settle", "retire", "finish"}

\* A plan copies a segment to another root.
Copies(p) == p.source # p.target /\ p.source.data = p.target.data

\* What a worker holds at each step; the plan it resumes is the one on disk.
Shaped(w) ==
  /\ At(w, "idle") => work[w] = Idle
  /\ work[w].step \in {"build", "place"} =>
       work[w].job = Nil /\ work[w].plan = Nil /\ work[w].segment \in Manifests
  /\ At(w, "plan") =>
       work[w].job = Nil /\ work[w].plan \in Plans /\ Copies(work[w].plan)
  /\ work[w].step \in Resuming =>
       /\ work[w].job \in Journals
       /\ work[w].plan = plans[work[w].job] /\ work[w].plan # Nil
  /\ At(w, "retire") => work[w].plan.retire

PlansCopy == \A j \in Journals : plans[j] # Nil => Copies(plans[j])

WorkInv ==
  /\ TypeOK
  /\ PlansCopy
  /\ \A w \in Workers : Shaped(w)

\* What a worker is about to publish is there, or has been retired meanwhile.
Present == files \cup lost
InPlace(w) == Publishing(w) \subseteq Present

\* A search that has read a manifest keeps every other one from being committed.
SnapshotIsCurrent ==
  \A r \in Readers : snapshot[r] # Nil => snapshot[r] = placement

\* The published segment holds the vectors; it is there, or has been retired
\* before it was published.
Published == placement # Nil => placement \in Present /\ placement.data = vectors

FilesInv ==
  /\ \A w \in Workers : InPlace(w)
  /\ SnapshotIsCurrent
  /\ Published

MigrationInv == WorkInv /\ FilesInv

-----------------------------------------------------------------------------
(* One worker                                                              *)

\* Worker w has come to step s of what it does; the others stay where they are.
CameTo(w, s) ==
  /\ work' \in [Workers -> Work]
  /\ work'[w].step = s
  /\ work'[w].job = work[w].job /\ work'[w].plan = work[w].plan
  /\ work'[w].segment = work[w].segment
  /\ \A v \in Workers : v # w => work'[v] = work[v]

\* Worker w has begun or ended something.
Became(w, k) ==
  /\ work' \in [Workers -> Work]
  /\ work'[w] = k
  /\ \A v \in Workers : v # w => work'[v] = work[v]

\* Worker w, which was idle, has started something.
Begun(w) ==
  /\ Became(w, work'[w])
  /\ work'[w].step \notin {"place", "publish"}

LEMMA IdleIsWork == Idle \in Work
BY DEF Idle, Work, Steps

LEMMA Becomes ==
  ASSUME TypeOK, NEW w \in Workers, NEW k \in Work, work' = [work EXCEPT ![w] = k]
  PROVE  Became(w, k)
BY DEF TypeOK, Became

LEMMA RestBecomesIdle ==
  ASSUME TypeOK, NEW w \in Workers, Rest(w)
  PROVE  Became(w, Idle)
BY Becomes, IdleIsWork DEF Rest

LEMMA GotoComesTo ==
  ASSUME TypeOK, NEW w \in Workers, NEW s \in Steps, Goto(w, s)
  PROVE  CameTo(w, s)
<1> DEFINE k == [work[w] EXCEPT !.step = s]
<1>1. work[w] \in Work
  BY DEF TypeOK
<1>2. /\ k \in Work /\ k.step = s
      /\ k.job = work[w].job /\ k.plan = work[w].plan /\ k.segment = work[w].segment
  BY <1>1 DEF Work
<1>3. work' = [work EXCEPT ![w] = k]
  BY DEF Goto
<1> HIDE DEF k
<1>4. Became(w, k)
  BY <1>2, <1>3, Becomes
<1>5. QED BY <1>2, <1>4 DEF Became, CameTo

\* What a plan's manifests are.
LEMMA PlanTypes ==
  ASSUME NEW p \in Plans
  PROVE  /\ p.source \in Manifests /\ p.target \in Manifests /\ p.retire \in BOOLEAN
         /\ p # Nil /\ p.source # Nil /\ p.target # Nil
BY MigrationAssumption DEF Plans

LEMMA ManifestTypes ==
  ASSUME NEW m \in Manifests
  PROVE  m.root \in Roots /\ m.data \in Data /\ m # Nil /\ m.data # Nil
BY MigrationAssumption DEF Manifests

-----------------------------------------------------------------------------
(* What workers hold                                                       *)

\* A worker that proceeds to another step of the same kind keeps its shape.
LEMMA OthersShaped ==
  ASSUME WorkInv, NEW w \in Workers, plans' = plans,
         \A v \in Workers : v # w => work'[v] = work[v], Shaped(w)'
  PROVE  \A v \in Workers : Shaped(v)'
BY DEF WorkInv, Shaped, At, Resuming

LEMMA IdleShaped ==
  ASSUME NEW w \in Workers, Became(w, Idle)
  PROVE  Shaped(w)'
BY DEF Became, Shaped, At, Idle, Resuming

\* A worker that has ended what it did.
LEMMA RestKeepsWork ==
  ASSUME WorkInv, NEW w \in Workers, Rest(w), UNCHANGED plans,
         (gen \in Gens /\ vectors \in Data \cup {Nil} /\ placement \in Manifests \cup {Nil}
           /\ files \subseteq Manifests /\ lost \subseteq Manifests \ files
           /\ complete \subseteq Journals
           /\ snapshot \in [Readers -> Manifests \cup {Nil}] /\ crashes \in 0..MaxCrashes)'
  PROVE  WorkInv'
<1>1. Became(w, Idle)
  BY RestBecomesIdle DEF WorkInv
<1>2. \A v \in Workers : Shaped(v)'
  BY <1>1, IdleShaped, OthersShaped DEF Became
<1>3. QED BY <1>1, <1>2 DEF WorkInv, TypeOK, PlansCopy, Became

\* A worker that resumes a journal goes on with it.
LEMMA ResumingKeepsWork ==
  ASSUME WorkInv, NEW w \in Workers, NEW s \in Resuming, Goto(w, s),
         work[w].step \in Resuming, s = "retire" => work[w].plan.retire, UNCHANGED plans,
         (gen \in Gens /\ vectors \in Data \cup {Nil} /\ placement \in Manifests \cup {Nil}
           /\ files \subseteq Manifests /\ lost \subseteq Manifests \ files
           /\ complete \subseteq Journals
           /\ snapshot \in [Readers -> Manifests \cup {Nil}] /\ crashes \in 0..MaxCrashes)'
  PROVE  WorkInv'
<1>1. CameTo(w, s)
  BY GotoComesTo DEF WorkInv, Resuming, Steps
<1>2. Shaped(w)'
  BY <1>1 DEF WorkInv, CameTo, Shaped, At, Resuming
<1>3. \A v \in Workers : Shaped(v)'
  BY <1>1, <1>2, OthersShaped DEF CameTo
<1>4. QED BY <1>1, <1>3 DEF WorkInv, TypeOK, PlansCopy, CameTo

\* A worker resumes or has planned what its plan says.
LEMMA ResumedPlan ==
  ASSUME WorkInv, NEW w \in Workers, work[w].step \in Resuming
  PROVE  /\ work[w].job \in Journals /\ work[w].job # Nil /\ work[w] # Idle
         /\ work[w].plan = plans[work[w].job]
         /\ work[w].plan \in Plans /\ Copies(work[w].plan)
<1>1. work[w].job \in Journals /\ work[w].plan = plans[work[w].job] /\ work[w].plan # Nil
  BY DEF WorkInv, Shaped
<1>2. work[w].plan \in Plans /\ Copies(work[w].plan)
  BY <1>1 DEF WorkInv, TypeOK, PlansCopy
<1>3. work[w] # Idle
  BY DEF Idle, Resuming
<1>4. QED BY <1>1, <1>2, <1>3, MigrationAssumption

LEMMA WorkInit == Init => WorkInv
<1> SUFFICES ASSUME Init PROVE WorkInv
  OBVIOUS
<1>1. TypeOK
  BY IdleIsWork, MigrationAssumption DEF Init, TypeOK
<1>2. PlansCopy
  BY DEF Init, PlansCopy
<1>3. ASSUME NEW w \in Workers PROVE Shaped(w)
  BY DEF Init, Shaped, At, Idle, Resuming
<1>4. QED BY <1>1, <1>2, <1>3 DEF WorkInv

\* The database, files, receipts and snapshots stay in their types.
OthersTyped ==
  /\ gen \in Gens /\ vectors \in Data \cup {Nil} /\ placement \in Manifests \cup {Nil}
  /\ files \subseteq Manifests /\ lost \subseteq Manifests \ files
  /\ complete \subseteq Journals
  /\ snapshot \in [Readers -> Manifests \cup {Nil}] /\ crashes \in 0..MaxCrashes

LEMMA DatabaseKeepsWork ==
  ASSUME WorkInv, UNCHANGED <<work, plans>>, OthersTyped'
  PROVE  WorkInv'
BY DEF WorkInv, TypeOK, PlansCopy, Shaped, At, OthersTyped

LEMMA ExportStartKeepsWork ==
  ASSUME WorkInv, NEW w \in Workers, NEW root \in Roots, ExportStart(w, root)
  PROVE  WorkInv' /\ Begun(w)
<1> DEFINE k == [step |-> "build", job |-> Nil, plan |-> Nil,
                 segment |-> [root |-> root, data |-> vectors]]
<1>1. [root |-> root, data |-> vectors] \in Manifests
  BY DEF ExportStart, WorkInv, TypeOK, Manifests
<1>2. k \in Work
  BY <1>1 DEF Work, Steps
<1>3. work' = [work EXCEPT ![w] = k]
  BY DEF ExportStart
<1>4. /\ k.step = "build" /\ k.job = Nil /\ k.plan = Nil
      /\ k.segment = [root |-> root, data |-> vectors]
  OBVIOUS
<1> HIDE DEF k
<1>5. Became(w, k)
  BY <1>2, <1>3, Becomes DEF WorkInv
<1>6. Shaped(w)'
  BY <1>1, <1>4, <1>5 DEF Became, Shaped, At, Resuming
<1>7. UNCHANGED <<db, files, lost, plans, complete, snapshot, crashes>>
  BY DEF ExportStart
<1>8. \A v \in Workers : Shaped(v)'
  BY <1>5, <1>6, <1>7, OthersShaped DEF Became
<1>9. Begun(w)
  BY <1>4, <1>5 DEF Begun, Became, ExportStart
<1>10. QED BY <1>5, <1>7, <1>8, <1>9 DEF WorkInv, TypeOK, PlansCopy, Became, db

LEMMA ExportCreateKeepsWork ==
  ASSUME WorkInv, NEW w \in Workers, ExportCreate(w)
  PROVE  WorkInv'
<1>1. CameTo(w, "place")
  BY GotoComesTo DEF ExportCreate, WorkInv, Steps
<1>2. work[w].segment \in Manifests
  BY DEF ExportCreate, WorkInv, Shaped, At
<1>3. Shaped(w)'
  BY <1>1 DEF ExportCreate, WorkInv, CameTo, Shaped, At, Resuming
<1>4. \A v \in Workers : Shaped(v)'
  BY <1>1, <1>3, OthersShaped DEF CameTo, ExportCreate
<1>5. QED BY <1>1, <1>2, <1>4 DEF ExportCreate, WorkInv, TypeOK, PlansCopy, CameTo, db

LEMMA ExportPlaceKeepsWork ==
  ASSUME WorkInv, NEW w \in Workers, ExportPlace(w)
  PROVE  WorkInv'
<1>1. work[w].segment \in Manifests
  BY DEF ExportPlace, WorkInv, Shaped, At
<1>2. QED BY <1>1, RestKeepsWork DEF ExportPlace, WorkInv, TypeOK

LEMMA BeginReadKeepsWork ==
  ASSUME WorkInv, NEW w \in Workers, NEW root \in Roots, NEW retire \in BOOLEAN,
         BeginRead(w, root, retire)
  PROVE  WorkInv' /\ Begun(w)
<1> DEFINE q == [root |-> root, data |-> placement.data]
           p == [source |-> placement, target |-> q, retire |-> retire]
           k == [step |-> "plan", job |-> Nil, plan |-> p, segment |-> Nil]
<1>1. placement \in Manifests /\ placement.root # root
  BY DEF BeginRead, WorkInv, TypeOK
<1>2. q \in Manifests /\ q # placement /\ q.data = placement.data
  BY <1>1, ManifestTypes DEF Manifests
<1>3. p \in Plans /\ Copies(p)
  BY <1>1, <1>2 DEF Plans, Copies
<1>4. k \in Work
  BY <1>3 DEF Work, Steps
<1>5. work' = [work EXCEPT ![w] = k]
  BY DEF BeginRead
<1>6. k.step = "plan" /\ k.job = Nil /\ k.plan = p
  OBVIOUS
<1> HIDE DEF k, p
<1>7. Became(w, k)
  BY <1>4, <1>5, Becomes DEF WorkInv
<1>8. Shaped(w)'
  BY <1>3, <1>6, <1>7 DEF Became, Shaped, At, Resuming
<1>9. UNCHANGED <<db, files, lost, plans, complete, snapshot, crashes>>
  BY DEF BeginRead
<1>10. \A v \in Workers : Shaped(v)'
  BY <1>7, <1>8, <1>9, OthersShaped DEF Became
<1>11. Begun(w)
  BY <1>6, <1>7 DEF Begun, Became
<1>12. QED BY <1>7, <1>9, <1>10, <1>11 DEF WorkInv, TypeOK, PlansCopy, Became, db

LEMMA BeginPlanKeepsWork ==
  ASSUME WorkInv, NEW w \in Workers, NEW j \in Journals, BeginPlan(w, j)
  PROVE  WorkInv'
<1>1. Became(w, Idle)
  BY RestBecomesIdle DEF BeginPlan, WorkInv
<1>2. work[w].plan \in Plans /\ Copies(work[w].plan)
  BY DEF BeginPlan, WorkInv, Shaped, At
<1>3. plans' = [plans EXCEPT ![j] = work[w].plan] /\ plans[j] = Nil
  BY DEF BeginPlan
<1>4. plans' \in [Journals -> Plans \cup {Nil}] /\ PlansCopy'
  BY <1>2, <1>3 DEF WorkInv, TypeOK, PlansCopy
<1>5. ASSUME NEW v \in Workers PROVE Shaped(v)'
  <2>1. CASE v = w
    BY <2>1, <1>1, IdleShaped
  <2>2. CASE v # w /\ work[v].step \in Resuming
    <3>1. work[v].job \in Journals /\ plans[work[v].job] # Nil
      BY <2>2 DEF WorkInv, Shaped
    <3>2. plans'[work[v].job] = plans[work[v].job]
      BY <3>1, <1>3 DEF WorkInv, TypeOK
    <3>3. QED BY <2>2, <3>2, <1>1 DEF WorkInv, Shaped, At, Became, Resuming
  <2>3. CASE v # w /\ work[v].step \notin Resuming
    BY <2>3, <1>1 DEF WorkInv, Shaped, At, Became, Resuming
  <2>4. QED BY <2>1, <2>2, <2>3
<1>6. QED BY <1>1, <1>4, <1>5 DEF BeginPlan, WorkInv, TypeOK, Became, db

LEMMA ResumeCheckKeepsWork ==
  ASSUME WorkInv, NEW w \in Workers, NEW j \in Journals, ResumeCheck(w, j)
  PROVE  WorkInv' /\ Begun(w)
<1> DEFINE s == IF placement = plans[j].target THEN "settle" ELSE "open"
           k == [step |-> s, job |-> j, plan |-> plans[j], segment |-> Nil]
<1>1. plans[j] \in Plans
  BY DEF ResumeCheck, WorkInv, TypeOK
<1>2. k \in Work
  BY <1>1 DEF Work, Steps
<1>3. work' = [work EXCEPT ![w] = k]
  BY DEF ResumeCheck
<1>4. k.step \in {"settle", "open"} /\ k.job = j /\ k.plan = plans[j]
  OBVIOUS
<1> HIDE DEF k
<1>5. Became(w, k)
  BY <1>2, <1>3, Becomes DEF WorkInv
<1>6. plans[j] # Nil /\ UNCHANGED <<db, files, lost, plans, complete, snapshot, crashes>>
  BY DEF ResumeCheck
<1>7. Shaped(w)'
  BY <1>4, <1>5, <1>6 DEF Became, Shaped, At, Resuming
<1>8. \A v \in Workers : Shaped(v)'
  BY <1>5, <1>6, <1>7, OthersShaped DEF Became
<1>9. Begun(w)
  BY <1>4, <1>5 DEF Begun, Became, ResumeCheck
<1>10. QED BY <1>5, <1>6, <1>8, <1>9 DEF WorkInv, TypeOK, PlansCopy, Became, db

\* The steps of a worker that resumes a journal.
Resumed(w) ==
  \/ OpenSource(w) \/ LinkTarget(w) \/ VerifyTarget(w) \/ PublishTarget(w)
  \/ Settle(w) \/ RetireSource(w)

LEMMA ResumedKeepsWork ==
  ASSUME WorkInv, NEW w \in Workers, Resumed(w)
  PROVE  WorkInv'
<1> DEFINE p == work[w].plan
<1>1. work[w].step \in Resuming
  BY DEF Resumed, OpenSource, LinkTarget, VerifyTarget, PublishTarget, Settle, RetireSource,
     At, Resuming
<1>2. p \in Plans
  BY <1>1, ResumedPlan
<1>3. p.target \in Manifests
  BY <1>2, PlanTypes
<1>4. OthersTyped'
  <2>1. CASE LinkTarget(w)
    BY <2>1, <1>3 DEF LinkTarget, OthersTyped, WorkInv, TypeOK, db
  <2>2. CASE PublishTarget(w)
    BY <2>2, <1>3 DEF PublishTarget, OthersTyped, WorkInv, TypeOK
  <2>3. CASE RetireSource(w)
    <3>1. p.source \in Manifests
      BY <1>2, PlanTypes
    <3>2. lost' \subseteq Manifests \ files'
      BY <2>3, <3>1 DEF RetireSource, WorkInv, TypeOK
    <3>3. QED BY <2>3, <3>2 DEF RetireSource, OthersTyped, WorkInv, TypeOK, db
  <2>4. CASE OpenSource(w) \/ VerifyTarget(w) \/ Settle(w)
    BY <2>4 DEF OpenSource, VerifyTarget, Settle, OthersTyped, WorkInv, TypeOK, db
  <2>5. QED BY <2>1, <2>2, <2>3, <2>4 DEF Resumed
<1>5. PICK s \in Resuming : Goto(w, s) /\ (s = "retire" => p.retire)
  <2>1. CASE OpenSource(w)
    BY <2>1 DEF OpenSource, Resuming
  <2>2. CASE LinkTarget(w)
    BY <2>2 DEF LinkTarget, Resuming
  <2>3. CASE VerifyTarget(w)
    BY <2>3 DEF VerifyTarget, Resuming
  <2>4. CASE PublishTarget(w)
    BY <2>4 DEF PublishTarget, Resuming
  <2>5. CASE Settle(w)
    BY <2>5 DEF Settle, Resuming
  <2>6. CASE RetireSource(w)
    BY <2>6 DEF RetireSource, Resuming
  <2>7. QED BY <2>1, <2>2, <2>3, <2>4, <2>5, <2>6 DEF Resumed
<1>6. UNCHANGED plans
  BY DEF Resumed, OpenSource, LinkTarget, VerifyTarget, PublishTarget, Settle, RetireSource
<1>7. QED BY <1>1, <1>4, <1>5, <1>6, ResumingKeepsWork DEF OthersTyped

\* The steps by which a worker ends what it does.
Ends(w) == Finish(w) \/ Refused(w) \/ Crash(w)

LEMMA EndsKeepsWork ==
  ASSUME WorkInv, NEW w \in Workers, Ends(w)
  PROVE  WorkInv'
<1>1. Rest(w) /\ UNCHANGED plans
  BY DEF Ends, Finish, Refused, Crash
<1>2. ASSUME Finish(w) PROVE OthersTyped'
  <2>1. work[w].step \in Resuming
    BY <1>2 DEF Finish, At, Resuming
  <2>2. work[w].job \in Journals
    BY <2>1, ResumedPlan
  <2>3. QED BY <1>2, <2>2 DEF Finish, OthersTyped, WorkInv, TypeOK, db
<1>3. ASSUME Refused(w) PROVE OthersTyped'
  BY <1>3 DEF Refused, OthersTyped, WorkInv, TypeOK, db
<1>4. ASSUME Crash(w) PROVE OthersTyped'
  BY <1>4, MigrationAssumption DEF Crash, OthersTyped, WorkInv, TypeOK, db
<1>5. QED BY <1>1, <1>2, <1>3, <1>4, RestKeepsWork DEF Ends, OthersTyped

\* What the index, its searches and a worker may do.
LEMMA DatabaseSteps ==
  ASSUME WorkInv,
         \/ \E g \in Gens : ReplaceScope(g)
         \/ \E r \in Runs : Embed(r)
         \/ \E r \in Readers : ReadManifest(r) \/ ReadEnd(r)
         \/ UNCHANGED vars
  PROVE  WorkInv' /\ UNCHANGED <<work, plans, files, lost>>
<1>1. UNCHANGED <<work, plans, files, lost>>
  BY DEF ReplaceScope, Embed, ReadManifest, ReadEnd, vars
<1>2. ASSUME NEW g \in Gens, ReplaceScope(g) PROVE OthersTyped'
  BY <1>2 DEF ReplaceScope, OthersTyped, WorkInv, TypeOK
<1>3. ASSUME NEW r \in Runs, Embed(r) PROVE OthersTyped'
  BY <1>3 DEF Embed, OthersTyped, WorkInv, TypeOK, Data
<1>4. ASSUME NEW r \in Readers, ReadManifest(r) \/ ReadEnd(r) PROVE OthersTyped'
  BY <1>4 DEF ReadManifest, ReadEnd, OthersTyped, WorkInv, TypeOK, db
<1>5. ASSUME UNCHANGED vars PROVE OthersTyped'
  BY <1>5 DEF vars, OthersTyped, WorkInv, TypeOK, db
<1>6. QED BY <1>1, <1>2, <1>3, <1>4, <1>5, DatabaseKeepsWork

LEMMA WorkStep == WorkInv /\ [Next]_vars => WorkInv'
<1> SUFFICES ASSUME WorkInv, [Next]_vars PROVE WorkInv'
  OBVIOUS
<1>1. CASE \/ \E g \in Gens : ReplaceScope(g)
           \/ \E r \in Runs : Embed(r)
           \/ \E r \in Readers : ReadManifest(r) \/ ReadEnd(r)
           \/ UNCHANGED vars
  BY <1>1, DatabaseSteps
<1>2. CASE \E w \in Workers : Start(w)
  BY <1>2, ExportStartKeepsWork, BeginReadKeepsWork, ResumeCheckKeepsWork DEF Start
<1>3. CASE \E w \in Workers : Proceed(w)
  BY <1>3, ExportCreateKeepsWork, ExportPlaceKeepsWork, BeginPlanKeepsWork,
     ResumedKeepsWork, EndsKeepsWork DEF Proceed, Resumed, Ends
<1>4. CASE \E w \in Workers : Crash(w)
  BY <1>4, EndsKeepsWork DEF Ends
<1>5. QED BY <1>1, <1>2, <1>3, <1>4 DEF Next

-----------------------------------------------------------------------------
(* The segments                                                            *)

\* Nothing is removed but what was retired from under a publication.
LEMMA PlaceGoesOn ==
  ASSUME \A v \in Workers : InPlace(v), Present \subseteq Present', NEW w \in Workers,
         \A v \in Workers : v # w => work'[v] = work[v], InPlace(w)'
  PROVE  \A v \in Workers : InPlace(v)'
BY DEF InPlace, Publishing, At

\* The published segment stays while nothing is removed or published.
LEMMA FilesGrow ==
  ASSUME Published, SnapshotIsCurrent, Present \subseteq Present',
         UNCHANGED <<db, snapshot>>
  PROVE  Published' /\ SnapshotIsCurrent'
BY DEF Published, SnapshotIsCurrent, db

LEMMA FilesInit == Init => FilesInv
BY DEF Init, FilesInv, InPlace, Publishing, At, Idle, SnapshotIsCurrent, Published

LEMMA StartKeepsFiles ==
  ASSUME WorkInv, FilesInv, NEW w \in Workers, Start(w)
  PROVE  FilesInv'
<1>1. Begun(w)
  BY ExportStartKeepsWork, BeginReadKeepsWork, ResumeCheckKeepsWork DEF Start
<1>2. UNCHANGED <<db, files, lost, snapshot>>
  BY DEF Start, ExportStart, BeginRead, ResumeCheck
<1>3. Present' = Present
  BY <1>2 DEF Present
<1>4. InPlace(w)'
  BY <1>1 DEF InPlace, Publishing, At, Begun
<1>5. \A v \in Workers : InPlace(v)'
  BY <1>1, <1>3, <1>4, PlaceGoesOn DEF FilesInv, Became, Begun
<1>6. QED BY <1>2, <1>3, <1>5, FilesGrow DEF FilesInv

\* A worker that ends leaves what the others publish in place.
LEMMA RestKeepsOthers ==
  ASSUME WorkInv, FilesInv, NEW w \in Workers, Rest(w), Present \subseteq Present'
  PROVE  \A v \in Workers : InPlace(v)'
<1>1. Became(w, Idle)
  BY RestBecomesIdle DEF WorkInv
<1>2. InPlace(w)'
  BY <1>1 DEF Became, InPlace, Publishing, At, Idle
<1>3. QED BY <1>1, <1>2, PlaceGoesOn DEF FilesInv, Became

LEMMA EndsKeepsFiles ==
  ASSUME WorkInv, FilesInv, NEW w \in Workers, Ends(w) \/ \E j \in Journals : BeginPlan(w, j)
  PROVE  FilesInv'
<1>1. Rest(w) /\ UNCHANGED <<db, files, lost, snapshot>>
  BY DEF Ends, Finish, Refused, Crash, BeginPlan
<1>2. Present' = Present
  BY <1>1 DEF Present
<1>3. QED BY <1>1, <1>2, RestKeepsOthers, FilesGrow DEF FilesInv

\* A worker that goes on leaves what the others publish in place.
LEMMA GotoKeepsOthers ==
  ASSUME WorkInv, FilesInv, NEW w \in Workers, NEW s \in Steps, Goto(w, s),
         Present \subseteq Present',
         s = "place" => work[w].segment \in Present',
         s = "publish" => work[w].plan.target \in Present'
  PROVE  \A v \in Workers : InPlace(v)'
<1>1. CameTo(w, s)
  BY GotoComesTo DEF WorkInv
<1>2. InPlace(w)'
  BY <1>1 DEF CameTo, InPlace, Publishing, At
<1>3. QED BY <1>1, <1>2, PlaceGoesOn DEF FilesInv, CameTo

\* While a search has read a manifest, nothing is committed.
LEMMA CommitKeepsSnapshots ==
  ASSUME CanCommit, UNCHANGED snapshot
  PROVE  SnapshotIsCurrent'
BY DEF CanCommit, SnapshotIsCurrent

LEMMA ExportKeepsFiles ==
  ASSUME WorkInv, FilesInv, NEW w \in Workers, ExportCreate(w) \/ ExportPlace(w)
  PROVE  FilesInv'
<1>1. CASE ExportCreate(w)
  <2>1. Present \subseteq Present' /\ work[w].segment \in Present'
    BY <1>1 DEF ExportCreate, Present
  <2>2. \A v \in Workers : InPlace(v)'
    BY <1>1, <2>1, GotoKeepsOthers DEF ExportCreate, Steps
  <2>3. QED BY <1>1, <2>1, <2>2, FilesGrow DEF ExportCreate, FilesInv
<1>2. CASE ExportPlace(w)
  <2>1. Present' = Present
    BY <1>2 DEF ExportPlace, Present
  <2>2. \A v \in Workers : InPlace(v)'
    BY <1>2, <2>1, RestKeepsOthers DEF ExportPlace
  <2>3. SnapshotIsCurrent'
    BY <1>2, CommitKeepsSnapshots DEF ExportPlace
  <2>4. work[w].segment \in Present
    BY <1>2 DEF ExportPlace, FilesInv, InPlace, Publishing
  <2>5. Published'
    BY <1>2, <2>1, <2>4 DEF ExportPlace, Published
  <2>6. QED BY <2>2, <2>3, <2>5 DEF FilesInv
<1>3. QED BY <1>1, <1>2

\* The target was verified, and holds what the published source holds.
LEMMA PublishKeepsFiles ==
  ASSUME WorkInv, FilesInv, NEW w \in Workers, PublishTarget(w)
  PROVE  FilesInv'
<1> DEFINE p == work[w].plan
<1>1. work[w].step \in Resuming
  BY DEF PublishTarget, At, Resuming
<1>2. p \in Plans /\ Copies(p)
  BY <1>1, ResumedPlan
<1>3. Present' = Present
  BY DEF PublishTarget, Present
<1>4. \A v \in Workers : InPlace(v)'
  BY <1>3, GotoKeepsOthers DEF PublishTarget, Steps
<1>5. SnapshotIsCurrent'
  BY CommitKeepsSnapshots DEF PublishTarget
<1>6. placement \in {p.source, p.target} /\ placement # Nil
  BY <1>2, PlanTypes DEF PublishTarget, PlanCurrent
<1>7. p.target.data = vectors
  BY <1>2, <1>6 DEF Copies, FilesInv, Published
<1>8. p.target \in Present
  BY DEF PublishTarget, FilesInv, InPlace, Publishing, At
<1>9. Published'
  BY <1>3, <1>7, <1>8 DEF PublishTarget, Published
<1>10. QED BY <1>4, <1>5, <1>9 DEF FilesInv

\* The source that is removed is neither published nor read; a worker that is
\* about to publish it loses it.
LEMMA RetireKeepsFiles ==
  ASSUME WorkInv, FilesInv, NEW w \in Workers, RetireSource(w)
  PROVE  FilesInv'
<1> DEFINE p == work[w].plan
<1>1. work[w].step \in Resuming
  BY DEF RetireSource, At, Resuming
<1>2. p \in Plans /\ Copies(p)
  BY <1>1, ResumedPlan
<1>3. CameTo(w, "finish")
  BY GotoComesTo DEF RetireSource, WorkInv, Steps
<1>4. placement = p.target /\ placement # p.source
  BY <1>2 DEF RetireSource, Copies
<1>5. Present \ {p.source} \subseteq Present'
  BY DEF RetireSource, Present
<1>6. Published' /\ SnapshotIsCurrent'
  BY <1>4, <1>5 DEF RetireSource, FilesInv, Published, SnapshotIsCurrent, db
<1>7. ASSUME NEW v \in Workers PROVE InPlace(v)'
  <2>1. CASE v = w
    BY <2>1, <1>3 DEF CameTo, InPlace, Publishing, At
  <2>2. CASE v # w
    <3>1. Publishing(v)' = Publishing(v)
      BY <2>2, <1>3 DEF CameTo, Publishing, At
    <3>2. Publishing(v) \cap {p.source} \subseteq lost'
      BY DEF RetireSource
    <3>3. Publishing(v) \subseteq Present
      BY DEF FilesInv, InPlace
    <3>4. Publishing(v) \subseteq Present'
      BY <1>5, <3>2, <3>3 DEF Present
    <3>5. QED BY <3>1, <3>4 DEF InPlace
  <2>3. QED BY <2>1, <2>2
<1>8. QED BY <1>6, <1>7 DEF FilesInv

\* The other steps of a resumed journal keep every file.
LEMMA ResumedKeepsFiles ==
  ASSUME WorkInv, FilesInv, NEW w \in Workers, Resumed(w)
  PROVE  FilesInv'
<1>1. CASE PublishTarget(w)
  BY <1>1, PublishKeepsFiles
<1>2. CASE RetireSource(w)
  BY <1>2, RetireKeepsFiles
<1>3. CASE OpenSource(w) \/ LinkTarget(w) \/ VerifyTarget(w) \/ Settle(w)
  <2>1. Present \subseteq Present' /\ UNCHANGED <<db, snapshot>>
    BY <1>3 DEF OpenSource, LinkTarget, VerifyTarget, Settle, Present
  <2>2. PICK s \in Steps : /\ Goto(w, s) /\ s # "place"
                           /\ s = "publish" => work[w].plan.target \in Present'
    <3>1. CASE OpenSource(w)
      BY <3>1 DEF OpenSource, Steps
    <3>2. CASE LinkTarget(w)
      BY <3>2 DEF LinkTarget, Steps
    <3>3. CASE VerifyTarget(w)
      BY <3>3 DEF VerifyTarget, Steps, Present
    <3>4. CASE Settle(w)
      BY <3>4 DEF Settle, Steps
    <3>5. QED BY <1>3, <3>1, <3>2, <3>3, <3>4
  <2>3. \A v \in Workers : InPlace(v)'
    BY <2>1, <2>2, GotoKeepsOthers
  <2>4. QED BY <2>1, <2>3, FilesGrow DEF FilesInv
<1>4. QED BY <1>1, <1>2, <1>3 DEF Resumed

LEMMA DatabaseKeepsFiles ==
  ASSUME WorkInv, FilesInv,
         \/ \E g \in Gens : ReplaceScope(g)
         \/ \E r \in Runs : Embed(r)
         \/ \E r \in Readers : ReadManifest(r) \/ ReadEnd(r)
         \/ UNCHANGED vars
  PROVE  FilesInv'
<1>1. UNCHANGED <<work, plans, files, lost>>
  BY DatabaseSteps
<1>2. Present' = Present
  BY <1>1 DEF Present
<1>3. \A v \in Workers : InPlace(v)'
  BY <1>1, <1>2 DEF FilesInv, InPlace, Publishing, At
<1>4. ASSUME NEW g \in Gens, ReplaceScope(g) PROVE FilesInv'
  BY <1>3, <1>4, CommitKeepsSnapshots DEF ReplaceScope, FilesInv, Published
<1>5. ASSUME NEW r \in Runs, Embed(r) PROVE FilesInv'
  BY <1>3, <1>5, CommitKeepsSnapshots DEF Embed, FilesInv, Published
<1>6. ASSUME NEW r \in Readers, ReadManifest(r) \/ ReadEnd(r) PROVE FilesInv'
  <2>1. snapshot'[r] \in {placement, Nil} /\ \A q \in Readers : q # r => snapshot'[q] = snapshot[q]
    BY <1>6 DEF ReadManifest, ReadEnd, WorkInv, TypeOK
  <2>2. UNCHANGED db
    BY <1>6 DEF ReadManifest, ReadEnd
  <2>3. QED BY <1>2, <1>3, <2>1, <2>2 DEF FilesInv, Published, SnapshotIsCurrent, db
<1>7. ASSUME UNCHANGED vars PROVE FilesInv'
  BY <1>2, <1>3, <1>7, FilesGrow DEF vars, FilesInv
<1>8. QED BY <1>4, <1>5, <1>6, <1>7

LEMMA FilesStep == WorkInv /\ FilesInv /\ [Next]_vars => FilesInv'
<1> SUFFICES ASSUME WorkInv, FilesInv, [Next]_vars PROVE FilesInv'
  OBVIOUS
<1>1. CASE \/ \E g \in Gens : ReplaceScope(g)
           \/ \E r \in Runs : Embed(r)
           \/ \E r \in Readers : ReadManifest(r) \/ ReadEnd(r)
           \/ UNCHANGED vars
  BY <1>1, DatabaseKeepsFiles
<1>2. CASE \E w \in Workers : Start(w)
  BY <1>2, StartKeepsFiles
<1>3. CASE \E w \in Workers : Proceed(w)
  BY <1>3, ExportKeepsFiles, ResumedKeepsFiles, EndsKeepsFiles DEF Proceed, Resumed, Ends
<1>4. CASE \E w \in Workers : Crash(w)
  BY <1>4, EndsKeepsFiles DEF Ends
<1>5. QED BY <1>1, <1>2, <1>3, <1>4 DEF Next

LEMMA InvIsReadable == FilesInv => SegmentsReadable
BY DEF FilesInv, SnapshotIsCurrent, Published, Present, SegmentsReadable

-----------------------------------------------------------------------------
(* The index of memory entries                                             *)

\* The confirmations that were not adopted.
Confirms(e) == {f \in e.events \ e.from.events : f.kind = "confirm"}

\* The review stage goes up by one for each, as far as the ladder goes.
Climbed(e) == e.from.stage + Cardinality(Confirms(e))
Staged(e) == e.stage = IF Climbed(e) < LastStage THEN Climbed(e) ELSE LastStage

EntrySound(e, day) ==
  /\ e \in EntryType /\ IsFiniteSet(e.events)
  /\ \A f \in e.events : f.day <= day
  /\ \A f, g \in e.events : f.id = g.id => f = g
  /\ e.from.events \subseteq e.events
  /\ \A f \in Confirms(e), g \in e.events : g.kind = "confirm" /\ f.day = g.day => f = g
  /\ Staged(e)

TableSound(table, day) ==
  /\ DOMAIN table \subseteq EntryTexts /\ table = [t \in DOMAIN table |-> table[t]]
  /\ \A t \in DOMAIN table : EntrySound(table[t], day)

FileSound(file, day) ==
  /\ file = [revision |-> file.revision, entries |-> file.entries]
  /\ file.revision \in 1..MaxRevision
  /\ TableSound(file.entries, day)

\* An event, with its text, is in a table.
IsIn(a, table) == a[1] \in DOMAIN table /\ a[2] \in table[a[1]].events

\* What a process has read before it asks for the lock.
Reads ==
  /\ sources \subseteq EntryTexts /\ today \in Nat
  /\ pc \in [Procs -> {"idle", "seed", "migrate", "edit", "previous", "replace", "read back"}]
  /\ DOMAIN local = Procs
  /\ \A p \in Procs : pc[p] \in {"seed", "migrate"} => local[p] \subseteq EntryTexts
  /\ \A p \in Procs : pc[p] = "migrate" => local[p] \subseteq DOMAIN Legacy
  /\ \A p \in Procs : pc[p] = "edit" => local[p] # Nil

\* The process with the lock holds a table that continues the index, and at the
\* end is the index.
Locked ==
  /\ lock \in Procs \cup {Nil}
  /\ \A p \in Procs : pc[p] \in {"previous", "replace", "read back"} <=> lock = p
  /\ lock = Nil => next = Nil
  /\ lock # Nil =>
       /\ FileSound(next, today) /\ (claim # Nil => IsIn(claim, next.entries))
       /\ pc[lock] \in {"previous", "replace"} => Engine!Grows(Engine!Data(index), next)
       /\ pc[lock] = "replace" /\ index # Nil => previous = index
       /\ pc[lock] = "read back" => index = next

FilesSound ==
  /\ index # Nil => FileSound(index, today)
  /\ previous # Nil => FileSound(previous, today)

\* CountedOnce follows from the soundness of every entry of the files.
MemoryInv == Reads /\ Locked /\ FilesSound /\ Engine!AcknowledgedIsKept

-----------------------------------------------------------------------------

LEMMA EntriesSound ==
  ASSUME MemoryInv
  PROVE  TableSound(Engine!Entries, today) /\ Engine!Data(index).revision \in 0..MaxRevision
         /\ (index # Nil => Engine!Data(index) = index)
         /\ (index = Nil => Engine!Entries = [t \in {} |-> 0] /\ Engine!Data(index).revision = 0)
BY MemoriesAssumption DEF MemoryInv, FilesSound, Engine!Entries, Engine!Data, Engine!Empty,
     FileSound, TableSound

LEMMA FileIsThere ==
  ASSUME NEW file, NEW day, FileSound(file, day)
  PROVE  file # Nil
<1>1. /\ file.entries \in [DOMAIN file.entries -> EntryType]
      /\ DOMAIN file.entries \in SUBSET EntryTexts
  BY DEF FileSound, TableSound, EntrySound
<1>2. file.revision \in Nat
  BY MemoriesAssumption DEF FileSound
<1>3. file = [revision |-> file.revision, entries |-> file.entries]
  BY DEF FileSound
<1>4. file.entries \in UNION {[T -> EntryType] : T \in SUBSET EntryTexts}
  BY <1>1
<1>5. file \in IndexType
  BY <1>2, <1>3, <1>4 DEF IndexType
<1>6. QED BY <1>5, MemoriesAssumption

LEMMA NewEntrySound == EntrySound(Engine!NewEntry, today)
<1> DEFINE e == Engine!NewEntry
<1>1. /\ e \in EntryType /\ e.events = {} /\ e.stage = 0
      /\ e.from.stage = 0 /\ e.from.events = {}
  BY MemoriesAssumption DEF Engine!NewEntry, EntryType
<1> HIDE DEF e
<1>2. Confirms(e) = {}
  BY <1>1 DEF Confirms
<1>3. Staged(e)
  BY <1>1, <1>2, FS_EmptySet, MemoriesAssumption DEF Staged, Climbed
<1>4. EntrySound(e, today)
  BY <1>1, <1>2, <1>3, FS_EmptySet DEF EntrySound
<1>5. QED BY <1>4 DEF e

\* What is adopted has its events, and the stage it had.
LEMMA AdoptedSound ==
  ASSUME NEW t \in DOMAIN Legacy, today \in Nat
  PROVE  EntrySound(Engine!Adopted(t), today)
<1> DEFINE old == Legacy[t].events
           events == {Engine!AdoptedEvent(f) : f \in old}
           e == Engine!Adopted(t)
<1>1. /\ e = [status |-> "active", pinned |-> Legacy[t].pinned, stage |-> Legacy[t].stage,
               events |-> events, from |-> [stage |-> Legacy[t].stage, events |-> events]]
  BY DEF Engine!Adopted
<1>2. \A f \in old : /\ Engine!AdoptedEvent(f) \in Events
                     /\ Engine!AdoptedEvent(f).id = f.id /\ Engine!AdoptedEvent(f).day = 0
  BY MemoriesAssumption DEF Engine!AdoptedEvent, Events, Engine!Kinds
<1>3. IsFiniteSet(events)
  <2> DEFINE adopt == [f \in old |-> Engine!AdoptedEvent(f)]
  <2>1. adopt \in Surjection(old, events)
    BY DEF Surjection
  <2>2. QED BY <2>1, FS_Surjection, MemoriesAssumption
<1>4. /\ \A f, g \in old : f.id = g.id => f = g
      /\ Legacy[t].pinned \in BOOLEAN /\ Legacy[t].stage \in 0..LastStage
  BY MemoriesAssumption
<1>5. /\ events \subseteq Events /\ \A f \in events : f.day <= today
      /\ \A f, g \in events : f.id = g.id => f = g
  BY <1>2, <1>4
<1> HIDE DEF events, old
<1>6. /\ e \in EntryType /\ e.events = events /\ e.stage = Legacy[t].stage
      /\ e.from.events = events /\ e.from.stage = Legacy[t].stage
  BY <1>1, <1>4, <1>5 DEF EntryType
<1> HIDE DEF e
<1>7. Confirms(e) = {}
  BY <1>6 DEF Confirms
<1>8. Staged(e)
  BY <1>4, <1>6, <1>7, FS_EmptySet, MemoriesAssumption DEF Staged, Climbed
<1>9. EntrySound(e, today)
  BY <1>3, <1>5, <1>6, <1>7, <1>8 DEF EntrySound
<1>10. QED BY <1>9 DEF e

LEMMA EntryMarked ==
  ASSUME NEW e, EntrySound(e, today), NEW v \in BOOLEAN
  PROVE  /\ EntrySound([e EXCEPT !.pinned = v], today)
         /\ EntrySound([e EXCEPT !.status = "deleted"], today)
<1>1. ASSUME NEW d \in EntryType, d.events = e.events, d.stage = e.stage, d.from = e.from
      PROVE  EntrySound(d, today)
  <2>1. Confirms(d) = Confirms(e)
    BY <1>1 DEF Confirms
  <2>2. QED BY <1>1, <2>1 DEF EntrySound, Staged, Climbed
<1>2. [e EXCEPT !.pinned = v] \in EntryType /\ [e EXCEPT !.status = "deleted"] \in EntryType
  BY DEF EntrySound, EntryType
<1>3. e \in EntryType
  BY DEF EntrySound
<1>4. /\ [e EXCEPT !.pinned = v].events = e.events /\ [e EXCEPT !.pinned = v].stage = e.stage
      /\ [e EXCEPT !.status = "deleted"].events = e.events
      /\ [e EXCEPT !.status = "deleted"].stage = e.stage
      /\ [e EXCEPT !.pinned = v].from = e.from /\ [e EXCEPT !.status = "deleted"].from = e.from
  BY <1>3 DEF EntryType
<1>5. QED BY <1>1, <1>2, <1>4

LEMMA EventAdded ==
  ASSUME NEW e, EntrySound(e, today), NEW event \in Events, today \in Nat, event.day = today,
         \A f \in e.events : f.id # event.id,
         event.kind = "confirm" => \A f \in e.events : f.kind = "confirm" => f.day # today
  PROVE  /\ EntrySound(Engine!WithEvent(e, event), today)
         /\ event \in Engine!WithEvent(e, event).events
         /\ e.events \subseteq Engine!WithEvent(e, event).events
         /\ Engine!WithEvent(e, event).status = e.status
<1> DEFINE d == Engine!WithEvent(e, event)
<1>1. e \in EntryType /\ IsFiniteSet(e.events) /\ Staged(e)
  BY DEF EntrySound
<1>2. /\ d.events = e.events \cup {event} /\ d.status = e.status /\ d.pinned = e.pinned
      /\ d.from = e.from
      /\ d.stage = IF event.kind = "confirm" /\ e.stage < LastStage THEN e.stage + 1 ELSE e.stage
  BY <1>1 DEF Engine!WithEvent, EntryType
<1>3. d \in EntryType
  <2>1. d = [e EXCEPT !.events = @ \cup {event}, !.stage = d.stage]
    BY <1>1, <1>2 DEF Engine!WithEvent, EntryType
  <2>2. d.stage \in 0..LastStage
    BY <1>1, <1>2, MemoriesAssumption DEF EntryType
  <2>3. PICK F : EntryType = [status : {"active", "deleted"}, pinned : BOOLEAN,
                              stage : 0..LastStage, events : SUBSET Events, from : F]
    BY DEF EntryType
  <2> HIDE DEF d
  <2>4. QED BY <1>1, <2>1, <2>2, <2>3
<1> HIDE DEF d
<1>4. event \notin e.events /\ IsFiniteSet(d.events)
  BY <1>1, <1>2, FS_AddElement
<1>5. /\ IsFiniteSet(Confirms(e)) /\ Cardinality(Confirms(e)) \in Nat
      /\ e.from.stage \in Nat /\ e.from.events \subseteq e.events
  BY <1>1, FS_Subset, FS_CardinalityType, MemoriesAssumption DEF Confirms, EntrySound, EntryType
<1>6. Staged(d)
  <2>1. CASE event.kind = "confirm"
    <3>1. Confirms(d) = Confirms(e) \cup {event} /\ event \notin Confirms(e)
      BY <1>2, <1>4, <1>5, <2>1 DEF Confirms
    <3>2. Cardinality(Confirms(d)) = Cardinality(Confirms(e)) + 1
      BY <1>5, <3>1, FS_AddElement
    <3>3. QED BY <1>1, <1>2, <1>5, <2>1, <3>2, MemoriesAssumption DEF Staged, Climbed
  <2>2. CASE event.kind # "confirm"
    <3>1. Confirms(d) = Confirms(e)
      BY <1>2, <2>2 DEF Confirms
    <3>2. QED BY <1>1, <1>2, <2>2, <3>1 DEF Staged, Climbed
  <2>3. QED BY <2>1, <2>2
<1>7. \A f, g \in d.events : f.id = g.id => f = g
  BY <1>2 DEF EntrySound
<1>8. \A f \in Confirms(d), g \in d.events : g.kind = "confirm" /\ f.day = g.day => f = g
  BY <1>2 DEF EntrySound, Confirms
<1>9. \A f \in d.events : f.day <= today
  BY <1>2 DEF EntrySound
<1>10. QED
  BY <1>2, <1>3, <1>4, <1>5, <1>6, <1>7, <1>8, <1>9 DEF EntrySound, d

-----------------------------------------------------------------------------

\* What is saved must keep the entries there are.
Extends(table) ==
  \A t \in DOMAIN Engine!Entries :
    /\ t \in DOMAIN table /\ Engine!Entries[t].events \subseteq table[t].events
    /\ Engine!Entries[t].status = "deleted" =>
         table[t] = [Engine!Entries[t] EXCEPT !.pinned = table[t].pinned]

LEMMA SaveKeeps ==
  ASSUME MemoryInv, NEW p \in Procs, NEW table, NEW event, Engine!Save(p, table, event),
         TableSound(table, today), Extends(table), event # Nil => IsIn(event, table)
  PROVE  MemoryInv'
<1>1. /\ lock = Nil /\ lock' = p /\ pc' = [pc EXCEPT ![p] = "previous"]
      /\ local' = [local EXCEPT ![p] = Nil]
      /\ next' = [revision |-> Engine!Data(index).revision + 1, entries |-> table] /\ claim' = event
      /\ UNCHANGED <<sources, today, index, previous, acked>>
      /\ Engine!Data(index).revision < MaxRevision
  BY DEF Engine!Save
<1>2. Reads'
  BY <1>1 DEF MemoryInv, Reads
<1>3. FileSound(next', today')
  BY <1>1, EntriesSound, MemoriesAssumption DEF FileSound
<1>5. Engine!Grows(Engine!Data(index), next)'
  BY <1>1 DEF Engine!Grows, Extends, Engine!Entries, Engine!Data
<1>6. Locked'
  BY <1>1, <1>3, <1>5, MemoriesAssumption DEF MemoryInv, Reads, Locked
<1>7. FilesSound' /\ Engine!AcknowledgedIsKept'
  BY <1>1 DEF MemoryInv, FilesSound, Engine!AcknowledgedIsKept, Engine!Entries
<1>8. QED BY <1>2, <1>6, <1>7 DEF MemoryInv

LEMMA AnswerKeeps ==
  ASSUME MemoryInv, NEW p \in Procs, NEW event, Engine!Answer(p, event),
         event # Nil => IsIn(event, Engine!Entries)
  PROVE  MemoryInv'
<1>1. /\ lock = Nil /\ pc' = [pc EXCEPT ![p] = "idle"] /\ local' = [local EXCEPT ![p] = Nil]
      /\ acked' = acked \cup ({event} \ {Nil})
      /\ UNCHANGED <<sources, today, index, previous, lock, next, claim>>
  BY DEF Engine!Answer
<1>2. Reads' /\ Locked'
  BY <1>1, MemoriesAssumption DEF MemoryInv, Reads, Locked
<1>3. FilesSound'
  BY <1>1 DEF MemoryInv, FilesSound
<1>4. Engine!AcknowledgedIsKept'
  BY <1>1 DEF MemoryInv, Engine!AcknowledgedIsKept, Engine!Entries, Engine!Data, IsIn
<1>5. QED BY <1>2, <1>3, <1>4 DEF MemoryInv

\* Reading changes nothing but what the process knows.
LEMMA ReadKeeps ==
  ASSUME MemoryInv, NEW p \in Procs, NEW to, NEW what, Engine!Read(p, to, what),
         \/ to = "seed" /\ what \subseteq EntryTexts
         \/ to = "migrate" /\ what \subseteq EntryTexts /\ what \subseteq DOMAIN Legacy
         \/ to = "edit" /\ what # Nil
  PROVE  MemoryInv'
<1>1. /\ pc[p] = "idle" /\ pc' = [pc EXCEPT ![p] = to] /\ local' = [local EXCEPT ![p] = what]
      /\ UNCHANGED <<sources, today, index, previous, lock, next, claim, acked>>
  BY DEF Engine!Read
<1>2. Reads'
  BY <1>1 DEF MemoryInv, Reads
<1>3. Locked'
  BY <1>1, MemoriesAssumption DEF MemoryInv, Reads, Locked
<1>4. FilesSound' /\ Engine!AcknowledgedIsKept'
  BY <1>1 DEF MemoryInv, FilesSound, Engine!AcknowledgedIsKept, Engine!Entries
<1>5. QED BY <1>2, <1>3, <1>4 DEF MemoryInv

LEMMA SeedKeeps ==
  ASSUME MemoryInv, NEW p \in Procs, Engine!SeedOrRegister(p)
  PROVE  MemoryInv'
<1>1. pc[p] = "seed" /\ local[p] \subseteq EntryTexts
  BY DEF Engine!SeedOrRegister, MemoryInv, Reads
<1> DEFINE table == Engine!Added(local[p])
<1>2. /\ DOMAIN table = local[p] \cup DOMAIN Engine!Entries
      /\ \A t \in DOMAIN table : 
           table[t] = IF t \in DOMAIN Engine!Entries THEN Engine!Entries[t] ELSE Engine!NewEntry
      /\ table = [t \in DOMAIN table |-> table[t]]
  BY DEF Engine!Added
<1> HIDE DEF table
<1>3. TableSound(table, today)
  BY <1>1, <1>2, EntriesSound, NewEntrySound DEF TableSound
<1>4. Extends(table)
  <2>1. \A t \in DOMAIN Engine!Entries : Engine!Entries[t] \in EntryType
    BY EntriesSound DEF TableSound, EntrySound
  <2>2. QED BY <1>2, <2>1 DEF Extends, EntryType
<1>5. CASE Engine!Save(p, table, Nil)
  BY <1>3, <1>4, <1>5, SaveKeeps
<1>6. CASE Engine!Answer(p, Nil)
  BY <1>6, AnswerKeeps
<1>7. QED BY <1>5, <1>6 DEF Engine!SeedOrRegister, table

LEMMA FeedbackKeeps ==
  ASSUME MemoryInv, NEW p \in Procs, NEW t \in EntryTexts, NEW kind \in Engine!Kinds,
         NEW id \in Ids \cup {<<kind, today>>}, Engine!Feedback(p, t, kind, id)
  PROVE  MemoryInv'
<1> DEFINE event == [id |-> id, kind |-> kind, day |-> today]
           old == {f \in Engine!Entries[t].events : f.id = id}
           table == [Engine!Entries EXCEPT ![t] = Engine!WithEvent(@, event)]
<1>1. /\ t \in DOMAIN Engine!Entries /\ EntrySound(Engine!Entries[t], today)
      /\ TableSound(Engine!Entries, today) /\ today \in Nat
      /\ event \in Events /\ event.id = id /\ event.kind = kind /\ event.day = today
  <2>1. t \in DOMAIN Engine!Entries /\ today \in Nat
    BY DEF Engine!Feedback, MemoryInv, Reads
  <2>2. id \in EventIds
    BY <2>1 DEF EventIds
  <2>3. QED BY <2>1, <2>2, EntriesSound DEF TableSound, Events
<1>2. CASE old # {}
  <2>1. PICK f \in old : Engine!Answer(p, <<t, f>>)
    BY <1>2 DEF Engine!Feedback
  <2>2. IsIn(<<t, f>>, Engine!Entries)
    BY <1>1 DEF IsIn
  <2>3. QED BY <2>1, <2>2, AnswerKeeps
<1>3. CASE old = {} /\ Engine!Answer(p, Nil)
  BY <1>3, AnswerKeeps
<1>4. CASE /\ old = {} /\ ~Engine!ConfirmedToday(Engine!Entries[t], kind, id)
           /\ Engine!Save(p, table, <<t, event>>)
      /\ Engine!Entries[t].status = "active"
  <2>1. /\ \A f \in Engine!Entries[t].events : f.id # event.id
        /\ event.kind = "confirm" =>
             \A f \in Engine!Entries[t].events : f.kind = "confirm" => f.day # today
    BY <1>1, <1>4 DEF Engine!ConfirmedToday
  <2> HIDE DEF event
  <2>2. /\ EntrySound(Engine!WithEvent(Engine!Entries[t], event), today)
        /\ event \in Engine!WithEvent(Engine!Entries[t], event).events
        /\ Engine!Entries[t].events \subseteq Engine!WithEvent(Engine!Entries[t], event).events
    BY <1>1, <2>1, EventAdded
  <2>3. /\ DOMAIN table = DOMAIN Engine!Entries
        /\ table[t] = Engine!WithEvent(Engine!Entries[t], event)
        /\ \A u \in DOMAIN Engine!Entries : u # t => table[u] = Engine!Entries[u]
        /\ table = [u \in DOMAIN table |-> table[u]]
    BY <1>1 DEF TableSound
  <2> HIDE DEF table
  <2>4. TableSound(table, today)
    BY <1>1, <2>2, <2>3 DEF TableSound
  <2>5. Extends(table)
    <3>1. \A u \in DOMAIN Engine!Entries : Engine!Entries[u] \in EntryType
      BY <1>1 DEF TableSound, EntrySound
    <3>2. QED BY <1>4, <2>2, <2>3, <3>1 DEF Extends, EntryType
  <2>6. IsIn(<<t, event>>, table)
    BY <1>1, <2>2, <2>3 DEF IsIn
  <2>7. QED BY <1>4, <2>4, <2>5, <2>6, SaveKeeps
<1>5. QED BY <1>2, <1>3, <1>4 DEF Engine!Feedback

LEMMA PinKeeps ==
  ASSUME MemoryInv, NEW p \in Procs, NEW t \in EntryTexts, NEW value \in BOOLEAN, Engine!Pin(p, t, value)
  PROVE  MemoryInv'
<1> DEFINE table == [Engine!Entries EXCEPT ![t].pinned = value]
<1>1. /\ t \in DOMAIN Engine!Entries /\ EntrySound(Engine!Entries[t], today)
      /\ TableSound(Engine!Entries, today)
  BY EntriesSound DEF Engine!Pin, TableSound
<1>2. CASE Engine!Save(p, table, Nil)
  <2>1. /\ EntrySound([Engine!Entries[t] EXCEPT !.pinned = value], today)
        /\ Engine!Entries[t] \in EntryType
    BY <1>1, EntryMarked DEF EntrySound
  <2>2. /\ DOMAIN table = DOMAIN Engine!Entries
        /\ table[t] = [Engine!Entries[t] EXCEPT !.pinned = value]
        /\ \A u \in DOMAIN Engine!Entries : u # t => table[u] = Engine!Entries[u]
        /\ table = [u \in DOMAIN table |-> table[u]]
    BY <1>1 DEF TableSound
  <2> HIDE DEF table
  <2>3. TableSound(table, today)
    BY <1>1, <2>1, <2>2 DEF TableSound
  <2>4. Extends(table)
    <3>1. \A u \in DOMAIN Engine!Entries : Engine!Entries[u] \in EntryType
      BY <1>1 DEF TableSound, EntrySound
    <3>2. QED BY <2>1, <2>2, <3>1 DEF Extends, EntryType
  <2>5. QED BY <1>2, <2>3, <2>4, SaveKeeps
<1>3. CASE Engine!Answer(p, Nil)
  BY <1>3, AnswerKeeps
<1>4. QED BY <1>2, <1>3 DEF Engine!Pin

LEMMA SnapshotKeeps ==
  ASSUME MemoryInv, NEW p \in Procs, Engine!SaveSnapshot(p)
  PROVE  MemoryInv'
<1>1. CASE Engine!Unchanged(local[p])
  <2>1. index # Nil /\ local[p] = index /\ local[p].entries = Engine!Entries
    BY <1>1 DEF Engine!SaveSnapshot, Engine!Unchanged, MemoryInv, Reads, Engine!Entries, Engine!Data
  <2>2. PICK t \in DOMAIN Engine!Entries : Engine!Save(p, [Engine!Entries EXCEPT ![t].status = "deleted"], Nil)
    BY <1>1, <2>1 DEF Engine!SaveSnapshot
  <2> DEFINE table == [Engine!Entries EXCEPT ![t].status = "deleted"]
  <2>3. EntrySound(Engine!Entries[t], today) /\ TableSound(Engine!Entries, today)
    BY EntriesSound DEF TableSound
  <2>4. /\ EntrySound([Engine!Entries[t] EXCEPT !.status = "deleted"], today)
        /\ Engine!Entries[t] \in EntryType
    BY <2>3, EntryMarked DEF EntrySound
  <2>5. /\ DOMAIN table = DOMAIN Engine!Entries
        /\ table[t] = [Engine!Entries[t] EXCEPT !.status = "deleted"]
        /\ \A u \in DOMAIN Engine!Entries : u # t => table[u] = Engine!Entries[u]
        /\ table = [u \in DOMAIN table |-> table[u]]
    BY <2>3 DEF TableSound
  <2> HIDE DEF table
  <2>6. TableSound(table, today)
    BY <2>3, <2>4, <2>5 DEF TableSound
  <2>7. Extends(table)
    <3>1. \A u \in DOMAIN Engine!Entries : Engine!Entries[u] \in EntryType
      BY <2>3 DEF TableSound, EntrySound
    <3>2. QED BY <2>4, <2>5, <3>1 DEF Extends, EntryType
  <2>8. QED BY <2>2, <2>6, <2>7, SaveKeeps DEF table
<1>2. CASE Engine!Answer(p, Nil)
  BY <1>2, AnswerKeeps
<1>3. QED BY <1>1, <1>2 DEF Engine!SaveSnapshot

LEMMA MigrateKeeps ==
  ASSUME MemoryInv, NEW p \in Procs, Engine!Migrate(p)
  PROVE  MemoryInv'
<1> DEFINE table == [t \in local[p] |-> Engine!Adopted(t)]
<1>1. local[p] \subseteq EntryTexts /\ local[p] \subseteq DOMAIN Legacy /\ today \in Nat
  BY DEF Engine!Migrate, MemoryInv, Reads
<1>2. CASE index = Nil /\ Engine!Save(p, table, Nil)
  <2>1. TableSound(table, today)
    BY <1>1, AdoptedSound DEF TableSound
  <2>2. Extends(table)
    BY <1>2, EntriesSound DEF Extends
  <2>3. QED BY <1>2, <2>1, <2>2, SaveKeeps
<1>3. CASE Engine!Answer(p, Nil)
  BY <1>3, AnswerKeeps
<1>4. QED BY <1>2, <1>3 DEF Engine!Migrate

LEMMA KeepPreviousKeeps ==
  ASSUME MemoryInv, NEW p \in Procs, Engine!KeepPrevious(p)
  PROVE  MemoryInv'
<1>1. /\ pc[p] = "previous" /\ pc' = [pc EXCEPT ![p] = "replace"] /\ lock = p
      /\ previous' = IF index = Nil THEN previous ELSE index
      /\ UNCHANGED <<sources, today, index, lock, local, next, claim, acked>>
  BY DEF Engine!KeepPrevious, MemoryInv, Locked
<1>2. Reads'
  BY <1>1 DEF MemoryInv, Reads
<1>4. Locked'
  BY <1>1, MemoriesAssumption DEF MemoryInv, Reads, Locked
<1>5. FilesSound'
  BY <1>1 DEF MemoryInv, FilesSound
<1>6. Engine!AcknowledgedIsKept'
  BY <1>1 DEF MemoryInv, Engine!AcknowledgedIsKept, Engine!Entries, Engine!Data
<1>7. QED BY <1>2, <1>4, <1>5, <1>6 DEF MemoryInv

LEMMA ReplaceKeeps ==
  ASSUME MemoryInv, NEW p \in Procs, Engine!Replace(p)
  PROVE  MemoryInv' /\ Engine!Grows(Engine!Data(index), Engine!Data(index'))
<1>1. /\ pc[p] = "replace" /\ pc' = [pc EXCEPT ![p] = "read back"] /\ lock = p /\ lock # Nil
      /\ index' = next
      /\ UNCHANGED <<sources, today, previous, lock, local, next, claim, acked>>
  BY MemoriesAssumption DEF Engine!Replace, MemoryInv, Locked
<1>2. FileSound(next, today) /\ Engine!Grows(Engine!Data(index), next) /\ (index # Nil => previous = index)
  BY <1>1 DEF MemoryInv, Locked
<1>3. next # Nil
  BY <1>2, FileIsThere
<1>4. Reads'
  BY <1>1 DEF MemoryInv, Reads
<1>6. Locked'
  BY <1>1, <1>2, MemoriesAssumption DEF MemoryInv, Reads, Locked
<1>7. FilesSound'
  BY <1>1, <1>2 DEF MemoryInv, FilesSound
<1>8. Engine!AcknowledgedIsKept'
  <2>1. Engine!Entries' = next.entries /\ Engine!Entries = Engine!Data(index).entries
    BY <1>1, <1>3 DEF Engine!Entries, Engine!Data
  <2>2. \A a \in acked : a[1] \in DOMAIN Engine!Entries /\ a[2] \in Engine!Entries[a[1]].events
    BY DEF MemoryInv, Engine!AcknowledgedIsKept
  <2>3. \A a \in acked' : a[1] \in DOMAIN Engine!Entries' /\ a[2] \in Engine!Entries'[a[1]].events
    BY <1>1, <1>2, <2>1, <2>2 DEF Engine!Grows
  <2>4. previous # Nil => index # Nil
    BY DEF MemoryInv, Engine!AcknowledgedIsKept
  <2>5. next.revision = IF index = Nil THEN 1 ELSE index.revision + 1
    BY <1>2 DEF Engine!Grows, Engine!Data, Engine!Empty
  <2>6. index # Nil => index.revision \in Nat
    BY DEF MemoryInv, FilesSound, FileSound
  <2>7. index' # Nil /\ (previous' # Nil => index # Nil /\ previous' = index)
    BY <1>1, <1>2, <1>3, <2>4
  <2>8. index'.revision > 1 => previous' # Nil
    <3>1. next.revision > 1 => index # Nil
      BY <2>5
    <3>2. QED BY <1>1, <1>2, <3>1
  <2>9. previous' # Nil => previous'.revision = index'.revision - 1
    <3>1. index # Nil => index.revision = next.revision - 1
      BY <2>5, <2>6
    <3>2. QED BY <1>1, <2>7, <3>1
  <2>10. QED BY <2>3, <2>7, <2>8, <2>9 DEF Engine!AcknowledgedIsKept
<1>9. QED BY <1>1, <1>2, <1>3, <1>4, <1>6, <1>7, <1>8 DEF MemoryInv, Engine!Data

LEMMA ReleasedKeeps ==
  ASSUME MemoryInv, NEW p \in Procs, lock = p, Engine!Released(p),
         acked' = acked \/ (pc[p] = "read back" /\ acked' = acked \cup ({claim} \ {Nil})),
         UNCHANGED <<sources, today, index, previous>>
  PROVE  MemoryInv'
<1>1. /\ pc' = [pc EXCEPT ![p] = "idle"] /\ local' = [local EXCEPT ![p] = Nil]
      /\ lock' = Nil /\ next' = Nil /\ claim' = Nil
  BY DEF Engine!Released
<1>2. Reads' /\ Locked'
  BY <1>1, MemoriesAssumption DEF MemoryInv, Reads, Locked
<1>3. FilesSound'
  BY <1>1 DEF MemoryInv, FilesSound
<1>4. Engine!AcknowledgedIsKept'
  <2>1. ASSUME pc[p] = "read back", claim # Nil
        PROVE  IsIn(claim, Engine!Entries)
    <3>1. index = next /\ FileSound(next, today) /\ IsIn(claim, next.entries)
      BY <2>1, MemoriesAssumption DEF MemoryInv, Locked
    <3>2. QED BY <3>1, FileIsThere DEF Engine!Entries, Engine!Data
  <2>2. \A a \in acked' : IsIn(a, Engine!Entries)
    BY <2>1 DEF MemoryInv, Engine!AcknowledgedIsKept, IsIn
  <2>3. QED BY <2>2 DEF MemoryInv, Engine!AcknowledgedIsKept, IsIn, Engine!Entries, Engine!Data
<1>5. QED BY <1>2, <1>3, <1>4 DEF MemoryInv

\* The world around: the host edits its files, and a day ends.
LEMMA WorldKeeps ==
  ASSUME MemoryInv, Engine!EditSources \/ Engine!Midnight
  PROVE  MemoryInv'
<1>1. sources' \subseteq EntryTexts /\ today \in Nat /\ today' \in Nat /\ today <= today'
  <2>1. today \in Nat /\ sources \subseteq EntryTexts
    BY DEF MemoryInv, Reads
  <2>2. CASE Engine!EditSources
    <3>1. sources' \in SUBSET EntryTexts /\ today' = today
      BY <2>2 DEF Engine!EditSources
    <3>2. QED BY <2>1, <3>1
  <2>3. CASE Engine!Midnight
    BY <2>1, <2>3 DEF Engine!Midnight
  <2>4. QED BY <2>2, <2>3
<1>2. UNCHANGED <<index, previous, lock, pc, local, next, claim, acked>>
  BY DEF Engine!EditSources, Engine!Midnight
<1>3. ASSUME NEW file, FileSound(file, today) PROVE FileSound(file, today')
  <2>1. ASSUME NEW e, EntrySound(e, today) PROVE EntrySound(e, today')
    <3>1. \A f \in e.events : f.day \in Nat
      BY <2>1 DEF EntrySound, EntryType, Events
    <3>2. QED BY <1>1, <2>1, <3>1 DEF EntrySound
  <2>2. QED BY <1>3, <2>1 DEF FileSound, TableSound
<1>4. Reads'
  BY <1>1, <1>2 DEF MemoryInv, Reads
<1>5. Locked'
  BY <1>2, <1>3 DEF MemoryInv, Locked
<1>6. FilesSound' /\ Engine!AcknowledgedIsKept'
  BY <1>2, <1>3 DEF MemoryInv, FilesSound, Engine!AcknowledgedIsKept, Engine!Entries
<1>7. QED BY <1>4, <1>5, <1>6 DEF MemoryInv

LEMMA MemoryBegins == Engine!Init => MemoryInv
BY MemoriesAssumption DEF Engine!Init, MemoryInv, Reads, Locked, FilesSound,
     Engine!AcknowledgedIsKept

LEMMA MemoryKeeps ==
  ASSUME MemoryInv, [Engine!Next]_(Engine!vars)
  PROVE  MemoryInv' /\ (index' # index => Engine!Grows(Engine!Data(index), Engine!Data(index')))
<1>1. CASE UNCHANGED Engine!vars
  BY <1>1 DEF Engine!vars, MemoryInv, Reads, Locked, FilesSound, Engine!AcknowledgedIsKept,
       Engine!Entries
<1>2. CASE Engine!EditSources \/ Engine!Midnight
  BY <1>2, WorldKeeps DEF Engine!EditSources, Engine!Midnight
<1>3. ASSUME NEW p \in Procs,
             \/ Engine!ReadSeed(p) \/ Engine!ReadRegister(p)
             \/ Engine!ReadMigrate(p) \/ Engine!ReadIndex(p)
      PROVE  MemoryInv' /\ index' = index
  <2>1. sources \subseteq EntryTexts
    BY DEF MemoryInv, Reads
  <2>2. MemoryInv'
    BY <1>3, <2>1, ReadKeeps DEF Engine!ReadSeed, Engine!ReadRegister, Engine!ReadMigrate,
         Engine!ReadIndex
  <2>3. QED BY <1>3, <2>2 DEF Engine!ReadSeed, Engine!ReadRegister, Engine!ReadMigrate,
       Engine!ReadIndex, Engine!Read
<1>4. ASSUME NEW p \in Procs, Engine!SeedOrRegister(p) \/ Engine!SaveSnapshot(p) \/ Engine!Migrate(p)
      PROVE  MemoryInv' /\ index' = index
  BY <1>4, SeedKeeps, SnapshotKeeps, MigrateKeeps DEF Engine!SeedOrRegister, Engine!SaveSnapshot,
       Engine!Migrate, Engine!Save, Engine!Answer
<1>5. ASSUME NEW p \in Procs, Engine!KeepPrevious(p)
      PROVE  MemoryInv' /\ index' = index
  BY <1>5, KeepPreviousKeeps DEF Engine!KeepPrevious
<1>6. ASSUME NEW p \in Procs, Engine!Finish(p) \/ Engine!Stop(p)
      PROVE  MemoryInv' /\ index' = index
  <2>1. lock = p
    BY <1>6 DEF Engine!Finish, Engine!Stop, MemoryInv, Locked
  <2>2. QED BY <1>6, <2>1, ReleasedKeeps DEF Engine!Finish, Engine!Stop
<1>7. ASSUME NEW p \in Procs, NEW t \in EntryTexts, NEW value \in BOOLEAN, Engine!Pin(p, t, value)
      PROVE  MemoryInv' /\ index' = index
  BY <1>7, PinKeeps DEF Engine!Pin, Engine!Save, Engine!Answer
<1>8. ASSUME NEW p \in Procs, NEW t \in EntryTexts, NEW kind \in Engine!Kinds,
             NEW id \in Ids \cup {<<kind, today>>}, Engine!Feedback(p, t, kind, id)
      PROVE  MemoryInv' /\ index' = index
  BY <1>8, FeedbackKeeps DEF Engine!Feedback, Engine!Save, Engine!Answer
<1>9. QED
  BY <1>1, <1>2, <1>3, <1>4, <1>5, <1>6, <1>7, <1>8, ReplaceKeeps DEF Engine!Next,
       Engine!EditSources, Engine!Midnight, Engine!vars

LEMMA MemoryInvariance == Engine!Spec => []MemoryInv
<1>1. QED BY MemoryBegins, MemoryKeeps, PTL DEF Engine!Spec

\* The component counts as the library does.
LEMMA SameSize == ASSUME NEW S PROVE Engine!Cardinality(S) = Cardinality(S)
BY DEF Engine!Cardinality, Cardinality

LEMMA Counts ==
  ASSUME MemoryInv
  PROVE  Engine!CountedOnce
<1>1. ASSUME NEW t \in DOMAIN Engine!Entries PROVE EntrySound(Engine!Entries[t], today)
  BY <1>1, EntriesSound DEF TableSound
<1>2. ASSUME NEW t \in DOMAIN Engine!Entries
      PROVE  Engine!Cardinality(Confirms(Engine!Entries[t])) = Cardinality(Confirms(Engine!Entries[t]))
  BY SameSize
<1>3. QED BY <1>1, <1>2 DEF Engine!CountedOnce, EntrySound, Staged, Climbed, Confirms

LEMMA Typed == MemoryInv => Engine!TypeOK
<1> SUFFICES ASSUME MemoryInv PROVE Engine!TypeOK
  OBVIOUS
<1>1. ASSUME NEW file \in {index, previous, next} \ {Nil}
      PROVE  FileSound(file, today)
  <2>1. CASE file = next
    BY <2>1 DEF MemoryInv, Locked
  <2>2. CASE file \in {index, previous} \ {Nil}
    BY <2>2 DEF MemoryInv, FilesSound
  <2>3. QED BY <2>1, <2>2
<1>2. ASSUME NEW e, EntrySound(e, today)
      PROVE  Engine!EntryOK(e)
  <2>1. e \in EntryType
    BY <1>2 DEF EntrySound
  <2>2. \A f \in e.events :
          f.kind \in Engine!Kinds \cup {"unverified"} /\ f.day \in Nat /\ f.day <= today
    BY <1>2, <2>1 DEF EntrySound, EntryType, Events
  <2>3. today \in Nat
    BY DEF MemoryInv, Reads
  <2>4. \A f \in e.events : f.kind \in Engine!Kinds \cup {"unverified"} /\ f.day \in 0..today
    BY <2>2, <2>3
  <2>5. QED BY <2>1, <2>4 DEF Engine!EntryOK, EntryType
<1>3. \A file \in {index, previous, next} \ {Nil} :
        /\ file.revision \in 1..MaxRevision /\ DOMAIN file.entries \subseteq EntryTexts
        /\ \A t \in DOMAIN file.entries : Engine!EntryOK(file.entries[t])
  BY <1>1, <1>2 DEF FileSound, TableSound
<1>4. QED BY <1>3 DEF Engine!TypeOK, MemoryInv, Reads, Locked


-----------------------------------------------------------------------------
(* Mentions                                                                *)


\* Mentions with their events, no event twice.
OnceEach(mentions) ==
  /\ \A o \in mentions :
       o.id = [version |-> o.id.version, text |-> o.id.text, day |-> o.id.day, of |-> "any"]
  /\ \A a, b \in mentions : a.id = b.id => a = b

MentionInv ==
  /\ {"stage", "at", "bytes", "partial", "observed"} \subseteq DOMAIN scan
  /\ OnceEach(scan.observed) /\ OnceEach(ledger)

LEMMA MentionAdded ==
  ASSUME NEW known, OnceEach(known), NEW v, NEW r
  PROVE  OnceEach(Mentions!Added(known, Mentions!Event(v, r), r))
<1> DEFINE mention == [id |-> Mentions!Event(v, r), session |-> r.session]
<1>1. /\ mention.id = Mentions!Event(v, r)
      /\ Mentions!Event(v, r) =
           [version |-> Mentions!Event(v, r).version, text |-> Mentions!Event(v, r).text,
            day |-> Mentions!Event(v, r).day, of |-> "any"]
  BY DEF Mentions!Event
<1>2. CASE \E x \in known : x.id = Mentions!Event(v, r)
  BY <1>2 DEF Mentions!Added
<1>3. CASE ~\E x \in known : x.id = Mentions!Event(v, r)
  <2>1. Mentions!Added(known, Mentions!Event(v, r), r) = known \cup {mention}
    BY <1>3 DEF Mentions!Added
  <2> HIDE DEF mention
  <2>2. QED BY <1>1, <1>3, <2>1 DEF OnceEach
<1>4. QED BY <1>2, <1>3

LEMMA MentionsBegin == Mentions!Init => MentionInv
BY DEF Mentions!Init, Mentions!Idle, MentionInv, OnceEach

LEMMA LookKeeps ==
  ASSUME MentionInv, NEW late \in BOOLEAN, Mentions!Look(late)
  PROVE  MentionInv'
<1> DEFINE r == scan.rows[scan.at]
           seen == Mentions!Added(scan.observed, Mentions!Event(scan.version, r), r)
<1>1. OnceEach(seen)
  BY MentionAdded DEF MentionInv
<1>2. /\ ledger' = ledger
      /\ DOMAIN scan' = DOMAIN scan
      /\ scan'.observed \in {scan.observed, seen}
  BY DEF Mentions!Look, Mentions!Stopped, MentionInv
<1>3. QED BY <1>1, <1>2 DEF MentionInv

LEMMA MentionsKeep == MentionInv /\ [Mentions!Next]_(Mentions!vars) => MentionInv'
<1> SUFFICES ASSUME MentionInv, [Mentions!Next]_(Mentions!vars) PROVE MentionInv'
  OBVIOUS
<1>1. ASSUME NEW late \in BOOLEAN, Mentions!Look(late) PROVE MentionInv'
  BY <1>1, LookKeeps
<1>2. ASSUME NEW b \in Bounds, Mentions!Read(b) PROVE MentionInv'
  BY <1>2 DEF Mentions!Read, Mentions!Idle, MentionInv, OnceEach
<1>3. CASE Mentions!Finish
  BY <1>3 DEF Mentions!Finish, MentionInv
<1>4. CASE Mentions!Save
  BY <1>4 DEF Mentions!Save, Mentions!Idle, MentionInv, OnceEach
<1>5. CASE Mentions!Leave
  BY <1>5 DEF Mentions!Leave, Mentions!Idle, MentionInv, OnceEach
<1>6. CASE Mentions!Tomorrow \/ Mentions!Revise \/ UNCHANGED Mentions!vars
  BY <1>6 DEF Mentions!Tomorrow, Mentions!Revise, Mentions!vars, MentionInv
<1>7. ASSUME NEW r, Mentions!Says(r) PROVE MentionInv'
  BY <1>7 DEF Mentions!Says, MentionInv
<1>8. QED
  BY <1>1, <1>2, <1>3, <1>4, <1>5, <1>6, <1>7 DEF Mentions!Next, Mentions!Arrive, Mentions!Branch

LEMMA MentionsInvariance == Mentions!Spec => []MentionInv
BY MentionsBegin, MentionsKeep, PTL DEF Mentions!Spec

LEMMA Once == MentionInv => Mentions!StoredOnce
BY DEF MentionInv, OnceEach, Mentions!StoredOnce
-----------------------------------------------------------------------------
(* Compiled engines                                                        *)

\* In load the prepared version is one the bundle had; what was built is of that
\* version or a later one, and of the version in hand once it was checked again;
\* and what is in hand is for the driver of the process.
InHand(p) ==
  /\ stage[p] # "idle" => prepared[p] \in 0..bundle
  /\ stage[p] \in {"built", "publish", "link", "ready"} =>
       content[p] \in Engines!Engines /\ content[p].driver = driver[p]
  /\ stage[p] = "built" => content[p].of \in prepared[p]..bundle

EngineInv == Engines!TypeOK /\ Engines!EngineFits /\ \A p \in Procs : InHand(p)

\* What a process has in hand is a function of its own state and of the bundle.
LEMMA EngineBegins == Engines!Init => EngineInv
BY MemoriesAssumption DEF Engines!Init, EngineInv, Engines!TypeOK, Engines!EngineFits, InHand,
     Engines!Keys, Engines!Intact

LEMMA EngineKeys ==
  ASSUME EngineInv, NEW p \in Procs, stage[p] # "idle"
  PROVE  /\ Engines!Key(p) \in Engines!Keys /\ Engines!Key(p) = <<prepared[p], driver[p]>>
         /\ prepared[p] \in 0..MaxSource
BY MemoriesAssumption DEF EngineInv, Engines!TypeOK, InHand, Engines!Key, Engines!Keys

\* A process that compares its engine with a stored one goes on with its own.
LEMMA ComparedKeeps ==
  ASSUME EngineInv, NEW p \in Procs, stage[p] \in {"publish", "link"}, Engines!Compared(p),
         UNCHANGED <<bundle, driver, engines, prepared, Engines!loaded>>
  PROVE  EngineInv'
BY DEF EngineInv, Engines!TypeOK, Engines!EngineFits, InHand, Engines!Compared, Engines!Goes,
     Engines!Intact, Engines!loaded, Engines!Engines, Engines!Keys

LEMMA EngineKeeps ==
  ASSUME EngineInv, [Engines!Next]_(Engines!vars)
  PROVE  EngineInv'
<1> USE MemoriesAssumption
<1>1. CASE UNCHANGED Engines!vars
  BY <1>1 DEF Engines!vars, Engines!inhand, Engines!loaded, EngineInv, Engines!TypeOK,
       Engines!EngineFits, InHand, Engines!Intact
<1>2. ASSUME NEW p \in Procs, Engines!Prepare(p) PROVE EngineInv'
  BY <1>2 DEF Engines!Prepare, Engines!loaded, EngineInv, Engines!TypeOK, Engines!EngineFits,
       InHand, Engines!Intact
<1>3. ASSUME NEW p \in Procs, Engines!Begin(p) PROVE EngineInv'
  <2>1. Engines!Key(p) \in Engines!Keys /\ Engines!Key(p) = <<prepared[p], driver[p]>>
    BY <1>3 DEF Engines!Begin, EngineInv, Engines!TypeOK, Engines!Key, Engines!Keys
  <2>2. CASE /\ Engines!Readable(engines[Engines!Key(p)]) /\ Engines!Goes(p, "ready")
             /\ content' = [content EXCEPT ![p] = engines[Engines!Key(p)]]
    <3>1. /\ engines[Engines!Key(p)] \in Engines!Engines
          /\ <<engines[Engines!Key(p)].of, engines[Engines!Key(p)].driver>> = Engines!Key(p)
      BY <2>1, <2>2 DEF Engines!Readable, Engines!Intact, EngineInv, Engines!TypeOK,
           Engines!EngineFits
    <3>2. engines[Engines!Key(p)].of = prepared[p] /\ engines[Engines!Key(p)].driver = driver[p]
      BY <2>1, <3>1
    <3>3. QED
      BY <1>3, <2>2, <3>1, <3>2 DEF Engines!Begin, Engines!Goes, Engines!loaded, EngineInv,
           Engines!TypeOK, Engines!EngineFits, InHand, Engines!Intact
  <2>3. CASE engines[Engines!Key(p)] = Nil /\ Engines!Goes(p, "build") /\ UNCHANGED content
    BY <1>3, <2>3 DEF Engines!Begin, Engines!Goes, Engines!loaded, EngineInv, Engines!TypeOK,
         Engines!EngineFits, InHand, Engines!Intact
  <2>4. QED BY <1>3, <2>2, <2>3 DEF Engines!Begin
<1>4. ASSUME NEW p \in Procs, Engines!Build(p) PROVE EngineInv'
  BY <1>4 DEF Engines!Build, Engines!Goes, Engines!loaded, EngineInv, Engines!TypeOK,
       Engines!EngineFits, InHand, Engines!Intact, Engines!Engines
<1>5. ASSUME NEW p \in Procs, Engines!Verify(p) PROVE EngineInv'
  <2>1. CASE Engines!Unedited(p)
    <3>1. content[p] \in Engines!Engines /\ content[p].of = prepared[p]
      <4>1. /\ content[p] \in Engines!Engines /\ content[p].of \in prepared[p]..bundle
            /\ prepared[p] = bundle
        BY <1>5, <2>1 DEF Engines!Verify, Engines!Unedited, EngineInv, InHand
      <4>2. bundle \in Nat /\ content[p].of \in Nat
        BY <4>1 DEF EngineInv, Engines!TypeOK, Engines!Engines
      <4>3. QED BY <4>1, <4>2
    <3>2. content[p] # Damaged
      BY <3>1, MemoriesAssumption
    <3>3. stage' = [stage EXCEPT ![p] = "publish"] /\ stage[p] = "built"
          /\ UNCHANGED <<bundle, driver, engines, prepared, content, engine, context>>
      BY <1>5, <2>1 DEF Engines!Verify, Engines!Goes, Engines!loaded
    <3>4. QED BY <3>1, <3>2, <3>3 DEF EngineInv, Engines!TypeOK, Engines!EngineFits, InHand
  <2>2. CASE ~Engines!Unedited(p)
    BY <1>5, <2>2 DEF Engines!Verify, Engines!Goes, Engines!loaded, EngineInv, Engines!TypeOK,
         Engines!EngineFits, InHand
  <2>3. QED BY <2>1, <2>2
<1>6. ASSUME NEW p \in Procs, Engines!Publish(p) PROVE EngineInv'
  <2>1. CASE Engines!Compared(p)
    BY <1>6, <2>1, ComparedKeeps DEF Engines!Publish
  <2>2. CASE Engines!Goes(p, "link") /\ UNCHANGED content
    BY <1>6, <2>2 DEF Engines!Publish, Engines!Goes, Engines!loaded, EngineInv, Engines!TypeOK,
         Engines!EngineFits, InHand, Engines!Intact
  <2>3. QED BY <1>6, <2>1, <2>2 DEF Engines!Publish
<1>7. ASSUME NEW p \in Procs, Engines!Link(p) PROVE EngineInv'
  <2>1. CASE Engines!Compared(p) /\ UNCHANGED engines
    BY <1>7, <2>1, ComparedKeeps DEF Engines!Link
  <2>2. CASE /\ engines' = [engines EXCEPT ![Engines!Key(p)] = content[p]]
             /\ Engines!Goes(p, "ready") /\ UNCHANGED content
    <3>1. /\ Engines!Key(p) \in Engines!Keys
          /\ <<content[p].of, content[p].driver>> = Engines!Key(p) /\ content[p] \in Engines!Engines
      BY <1>7, EngineKeys DEF Engines!Link, EngineInv, Engines!EngineFits, InHand
    <3>2. QED
      BY <1>7, <2>2, <3>1 DEF Engines!Link, Engines!Goes, Engines!loaded, EngineInv,
           Engines!TypeOK, Engines!EngineFits, InHand, Engines!Intact
  <2>3. QED BY <1>7, <2>1, <2>2 DEF Engines!Link
<1>8. ASSUME NEW p \in Procs, NEW how \in {"engine", "nothing", "no context"}, Engines!Deserialize(p, how)
      PROVE EngineInv'
  <2>1. <<content[p].of, content[p].driver>> \in Engines!Keys /\ content[p].driver = driver[p]
    BY <1>8 DEF Engines!Deserialize, EngineInv, InHand, Engines!Engines, Engines!Keys
  <2> DEFINE k == <<content[p].of, content[p].driver>>
  <2>2. PICK e, c : /\ \/ e = Nil /\ c = context[p]
                       \/ e = Nil /\ c = Nil
                       \/ e = k /\ c = k
                    /\ engine' = [engine EXCEPT ![p] = e] /\ context' = [context EXCEPT ![p] = c]
    <3>1. CASE how = "nothing"
      BY <1>8, <3>1 DEF Engines!Deserialize, Engines!Deserialized
    <3>2. CASE how = "no context"
      BY <1>8, <3>2 DEF Engines!Deserialize, Engines!Deserialized
    <3>3. CASE how = "engine"
      BY <1>8, <3>3 DEF Engines!Deserialize, Engines!Deserialized
    <3>4. QED BY <3>1, <3>2, <3>3
  <2>3. /\ engine' \in [Procs -> Engines!Keys \cup {Nil}]
        /\ context' \in [Procs -> Engines!Keys \cup {Nil}]
        /\ engine'[p] # Nil => engine'[p] = context'[p] /\ engine'[p][2] = driver[p]
        /\ \A q \in Procs : q # p => engine'[q] = engine[q] /\ context'[q] = context[q]
    <3>1. k \in Engines!Keys /\ k[2] = driver[p]
      BY <2>1
    <3> HIDE DEF k
    <3>2. QED BY <2>1, <2>2, <3>1 DEF EngineInv, Engines!TypeOK
  <2>4. QED
    <3>1. /\ stage' = [stage EXCEPT ![p] = "idle"] /\ content' = [content EXCEPT ![p] = Nil]
          /\ UNCHANGED <<bundle, driver, engines, prepared>>
      BY <1>8 DEF Engines!Deserialize, Engines!Goes
    <3>2. Engines!TypeOK'
      BY <2>3, <3>1 DEF EngineInv, Engines!TypeOK
    <3>3. Engines!EngineFits'
      BY <2>3, <3>1 DEF EngineInv, Engines!TypeOK, Engines!EngineFits
    <3>4. \A q \in Procs : InHand(q)'
      BY <3>1 DEF EngineInv, Engines!TypeOK, InHand
    <3>5. QED BY <3>2, <3>3, <3>4 DEF EngineInv
<1>9. ASSUME NEW p \in Procs, Engines!Compile(p) PROVE EngineInv'
  BY <1>9 DEF Engines!Compile, Engines!Goes, Engines!loaded, EngineInv, Engines!TypeOK,
       Engines!EngineFits, InHand, Engines!Intact
<1>10. ASSUME NEW p \in Procs, Engines!Close(p) PROVE EngineInv'
  BY <1>10 DEF Engines!Close, Engines!Closed, Engines!inhand, EngineInv, Engines!TypeOK,
       Engines!EngineFits, InHand, Engines!Intact
<1>11. ASSUME NEW p \in Procs, Engines!Restart(p) PROVE EngineInv'
  BY <1>11 DEF Engines!Restart, Engines!Closed, Engines!Goes, EngineInv, Engines!TypeOK,
       Engines!EngineFits, InHand, Engines!Intact
<1>12. CASE Engines!Edit
  BY <1>12 DEF Engines!Edit, Engines!inhand, Engines!loaded, EngineInv, Engines!TypeOK,
       Engines!EngineFits, InHand, Engines!Intact
<1>13. ASSUME NEW k \in Engines!Keys, Engines!Rot(k) PROVE EngineInv'
  BY <1>13 DEF Engines!Rot, Engines!inhand, Engines!loaded, EngineInv, Engines!TypeOK,
       Engines!EngineFits, InHand, Engines!Intact
<1>14. QED
  BY <1>1, <1>2, <1>3, <1>4, <1>5, <1>6, <1>7, <1>8, <1>9, <1>10, <1>11, <1>12, <1>13
       DEF Engines!Next

\* Only a free place is filled, and only damage changes what is there.
LEMMA PublishedStaysStep ==
  ASSUME EngineInv, [Engines!Next]_(Engines!vars)
  PROVE  \A k \in Engines!Keys : Engines!Intact(engines[k]) => engines'[k] \in {engines[k], Damaged}
<1>1. CASE \E p \in Procs : Engines!Link(p)
  BY <1>1 DEF Engines!Link, Engines!Occupied, Engines!Intact, EngineInv, Engines!TypeOK
<1>2. CASE \E k \in Engines!Keys : Engines!Rot(k)
  BY <1>2 DEF Engines!Rot, EngineInv, Engines!TypeOK
<1>3. CASE engines' = engines
  BY <1>3
<1>4. QED
  BY <1>1, <1>2, <1>3 DEF Engines!Next, Engines!vars, Engines!inhand, Engines!loaded,
       Engines!Prepare, Engines!Begin, Engines!Build, Engines!Verify, Engines!Publish,
       Engines!Deserialize, Engines!Compile, Engines!Close, Engines!Restart, Engines!Edit

LEMMA EnginesInvariance == Engines!Spec => []EngineInv
<1>1. QED BY EngineBegins, EngineKeeps, PTL DEF Engines!Spec


-----------------------------------------------------------------------------
(* The theorems                                                            *)

\* What a worker holds at each step, the plan of the journal that it resumes
\* among it, is what it says (migration.py: begin, resume; segments.py: export).
THEOREM WorkInvariance == Spec => []WorkInv
<1>1. QED BY WorkInit, WorkStep, PTL DEF Spec

\* No search and no other worker is sent to a segment that is not there, however
\* often migrations are interrupted and resumed, even by several workers and
\* journals at once: what is published was put there before, and a retirement
\* takes it away only from a worker that is about to publish it (migration.py:
\* resume; segments.py: export, load).
THEOREM SegmentsStay == Spec => []SegmentsReadable
<1>1. Init => WorkInv /\ FilesInv
  BY WorkInit, FilesInit
<1>2. WorkInv /\ FilesInv /\ [Next]_vars => WorkInv' /\ FilesInv'
  BY WorkStep, FilesStep
<1>3. WorkInv /\ FilesInv => SegmentsReadable
  BY InvIsReadable
<1>4. QED BY <1>1, <1>2, <1>3, PTL DEF Spec

\* Whatever a caller repeats after an uncertain outcome, and whichever process
\* ends between two of its file operations: the index holds every acknowledged
\* event once, a day's confirmations once and its predecessor beside it (thm.py:
\* Engine).  A mention is stored once for a version (observations.py: scan,
\* store_observations), and an engine that is loaded is of the bundle and for the
\* driver of its process (rtx.py: load; store.py: publish).
THEOREM MemoriesStay == Components => []MemoriesKept
<1>1. MemoryInv => Engine!CountedOnce /\ Engine!AcknowledgedIsKept
  BY Counts DEF MemoryInv
<1>2. EngineInv => Engines!EngineFits
  BY DEF EngineInv
<1>3. Engine!CountedOnce /\ Engine!AcknowledgedIsKept /\ Mentions!StoredOnce /\ Engines!EngineFits
        => MemoriesKept
  BY DEF MemoriesKept
<1>4. QED
  BY <1>1, <1>2, <1>3, MemoryInvariance, MentionsInvariance, EnginesInvariance, Once, PTL
       DEF Components

\* No process of the command line undoes what another has saved, and no loader of
\* engines replaces one (thm.py: save, replace; store.py: publish).
THEOREM NothingUndone == Components => MemoriesOnlyGrow
<1>1. Engine!Spec => Engine!OnlyGrows
  <2>1. MemoryInv /\ [Engine!Next]_(Engine!vars)
          => [Engine!Grows(Engine!Data(index), Engine!Data(index'))]_index
    BY MemoryKeeps
  <2>2. QED BY <2>1, MemoryInvariance, PTL DEF Engine!Spec, Engine!OnlyGrows
<1>2. Engines!Spec => Engines!PublishedStays
  BY EnginesInvariance, PublishedStaysStep, PTL DEF Engines!Spec, Engines!PublishedStays
<1>3. QED BY <1>1, <1>2 DEF Components, MemoriesOnlyGrow

\* The types of three of the components, by their inductive invariants; those of
\* AnchorScan rest on SelectSeq, which no prover here knows.
THEOREM MemoriesTyped == Components => []TypesOK
<1>1. WorkInv /\ MemoryInv /\ EngineInv => TypesOK
  BY Typed DEF WorkInv, EngineInv, TypesOK
<1>2. QED
  BY <1>1, WorkInvariance, MemoryInvariance, EnginesInvariance, PTL DEF Components
=============================================================================
