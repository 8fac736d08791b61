-------------------------- MODULE SegmentMigration --------------------------
(***************************************************************************)
(* Exporting vector segments and moving them between physical roots:       *)
(* thm/physical/segments.py (export, load) and thm/physical/migration.py   *)
(* (begin, resume), for one scope and one embedding profile.               *)
(*                                                                         *)
(* Workers are processes that run export, begin or resume; each may crash  *)
(* between any two steps, and a journal may be resumed again, by several   *)
(* workers at once.  A transaction on the database is one action, since    *)
(* BEGIN IMMEDIATE serialises them; a commit that changes the database     *)
(* waits until no reader holds a snapshot (rollback-journal mode).  Files  *)
(* are outside the transactions: they are created by an exclusive link and *)
(* removed by unlink.                                                      *)
(***************************************************************************)
EXTENDS Naturals, FiniteSets

CONSTANTS
  Workers, Readers, Journals, Roots, Gens, Runs,
  MaxCrashes,  \* bound on the crashes of workers
  Nil

Data == [of : Gens, run : Runs]
Manifests == [root : Roots, data : Data]
Plans == [source : Manifests, target : Manifests, retire : BOOLEAN]
Steps == {"idle", "build", "place", "plan", "open", "link", "verify", "publish",
          "settle", "retire", "finish"}
Work == [step : Steps, job : Journals \cup {Nil}, plan : Plans \cup {Nil},
         segment : Manifests \cup {Nil}]

ASSUME MigrationAssumption ==
  /\ Nil \notin Data \cup Manifests \cup Plans \cup Journals
  /\ MaxCrashes \in Nat

VARIABLES
  gen, vectors, placement,  \* the database: generation, vectors, manifest
  files,                    \* the segments present in the roots
  lost,                     \* history: those retired from under a publication
  plans,                    \* plan.json of each journal, or Nil
  complete,                 \* journals with a 'complete' receipt
  work,                     \* what each worker is in the middle of
  snapshot,                 \* the manifest a reader's transaction has read
  crashes

db == <<gen, vectors, placement>>
vars == <<db, files, lost, plans, complete, work, snapshot, crashes>>

Idle == [step |-> "idle", job |-> Nil, plan |-> Nil, segment |-> Nil]
At(w, s) == work[w].step = s
Goto(w, s) == work' = [work EXCEPT ![w].step = s]
Rest(w) == work' = [work EXCEPT ![w] = Idle]

\* No reader's snapshot keeps a changed database from being committed.
CanCommit == \A r \in Readers : snapshot[r] = Nil

\* What a worker is about to publish without another look at the file.
Publishing(w) ==
  IF At(w, "place") THEN {work[w].segment}
  ELSE IF At(w, "publish") THEN {work[w].plan.target} ELSE {}

-----------------------------------------------------------------------------
(* The index: replace_scope and embed, as DerivedIndex details them        *)

ReplaceScope(g) ==
  /\ CanCommit
  /\ g # gen
  /\ gen' = g
  /\ vectors' = Nil
  /\ placement' = Nil
  /\ UNCHANGED <<files, lost, plans, complete, work, snapshot, crashes>>

Embed(r) ==
  /\ CanCommit
  /\ vectors' = [of |-> gen, run |-> r]
  /\ placement' = Nil
  /\ UNCHANGED <<gen, files, lost, plans, complete, work, snapshot, crashes>>

-----------------------------------------------------------------------------
(* export                                                                  *)

\* The bug of not checking that the profile is complete.
ExportStart_Incomplete(w, root) ==
  /\ work[w] = Idle
  /\ work' = [work EXCEPT ![w] = [step |-> "build", job |-> Nil, plan |-> Nil,
                                  segment |-> [root |-> root, data |-> vectors]]]
  /\ UNCHANGED <<db, files, lost, plans, complete, snapshot, crashes>>

\* Snapshot the complete embedding of the committed generation.
ExportStart(w, root) ==
  /\ work[w] = Idle
  /\ vectors # Nil
  /\ work' = [work EXCEPT ![w] = [step |-> "build", job |-> Nil, plan |-> Nil,
                                  segment |-> [root |-> root, data |-> vectors]]]
  /\ UNCHANGED <<db, files, lost, plans, complete, snapshot, crashes>>

\* os.link: exclusive, the name being the hash of the content.
ExportCreate(w) ==
  /\ At(w, "build")
  /\ work[w].segment \notin files
  /\ files' = files \cup {work[w].segment}
  /\ lost' = lost \ {work[w].segment}
  /\ Goto(w, "place")
  /\ UNCHANGED <<db, plans, complete, snapshot, crashes>>

\* The snapshot is compared again under BEGIN IMMEDIATE; the file is not.
ExportPlace(w) ==
  /\ At(w, "place")
  /\ CanCommit
  /\ vectors = work[w].segment.data
  /\ placement' = work[w].segment
  /\ Rest(w)
  /\ UNCHANGED <<gen, vectors, files, lost, plans, complete, snapshot, crashes>>

-----------------------------------------------------------------------------
(* begin                                                                   *)

\* Read the current manifest, outside any transaction.
BeginRead(w, root, retire) ==
  LET p == [source |-> placement, target |-> [root |-> root, data |-> placement.data],
            retire |-> retire]
  IN
  /\ placement # Nil
  /\ root # placement.root
  /\ work[w] = Idle
  /\ work' = [work EXCEPT ![w] = [step |-> "plan", job |-> Nil, plan |-> p,
                                  segment |-> Nil]]
  /\ UNCHANGED <<db, files, lost, plans, complete, snapshot, crashes>>

\* Check that the source can be read for the committed rows; write plan.json.
BeginPlan(w, j) ==
  LET p == work[w].plan IN
  /\ At(w, "plan")
  /\ plans[j] = Nil
  /\ p.source.data.of = gen
  /\ p.source \in files
  /\ plans' = [plans EXCEPT ![j] = p]
  /\ Rest(w)
  /\ UNCHANGED <<db, files, lost, complete, snapshot, crashes>>

-----------------------------------------------------------------------------
(* resume                                                                  *)

\* The rows and the manifest are still those the plan was made for.
PlanCurrent(p) == gen = p.source.data.of /\ placement \in {p.source, p.target}

\* Serialised by BEGIN IMMEDIATE, then rolled back: what follows relies on
\* later comparisons.
ResumeCheck(w, j) ==
  LET p == plans[j] IN
  /\ p # Nil
  /\ work[w] = Idle
  /\ PlanCurrent(p)
  /\ work' = [work EXCEPT ![w] =
       [step |-> IF placement = p.target THEN "settle" ELSE "open",
        job |-> j, plan |-> p, segment |-> Nil]]
  /\ UNCHANGED <<db, files, lost, plans, complete, snapshot, crashes>>

\* Read the source; the copy is made from the file that is now open.
OpenSource(w) ==
  LET p == work[w].plan IN
  /\ At(w, "open")
  /\ p.source \in files
  /\ Goto(w, IF p.target \in files THEN "verify" ELSE "link")
  /\ UNCHANGED <<db, files, lost, plans, complete, snapshot, crashes>>

\* The bug of moving the segment instead of copying it.
LinkTarget_Moves(w) ==
  LET p == work[w].plan IN
  /\ At(w, "link")
  /\ files' = (files \ {p.source}) \cup {p.target}
  /\ lost' = lost \ {p.target}
  /\ Goto(w, "verify")
  /\ UNCHANGED <<db, plans, complete, snapshot, crashes>>

\* The verified copy gets its name; it may have it already (FileExistsError).
LinkTarget(w) ==
  /\ At(w, "link")
  /\ files' = files \cup {work[w].plan.target}
  /\ lost' = lost \ {work[w].plan.target}
  /\ Goto(w, "verify")
  /\ UNCHANGED <<db, plans, complete, snapshot, crashes>>

VerifyTarget(w) ==
  /\ At(w, "verify")
  /\ work[w].plan.target \in files
  /\ Goto(w, "publish")
  /\ UNCHANGED <<db, files, lost, plans, complete, snapshot, crashes>>

\* Under BEGIN IMMEDIATE the plan is compared again; the target file is not.
PublishTarget(w) ==
  LET p == work[w].plan IN
  /\ At(w, "publish")
  /\ CanCommit
  /\ PlanCurrent(p)
  /\ placement' = p.target
  /\ Goto(w, "settle")
  /\ UNCHANGED <<gen, vectors, files, lost, plans, complete, snapshot, crashes>>

Settle(w) ==
  LET p == work[w].plan IN
  /\ At(w, "settle")
  /\ p.target \in files
  /\ Goto(w, IF p.retire THEN "retire" ELSE "finish")
  /\ UNCHANGED <<db, files, lost, plans, complete, snapshot, crashes>>

\* Unlink the source inside a transaction that has compared the publication
\* and read the target; an absent source has been retired before.
RetireSource(w) ==
  LET p == work[w].plan IN
  /\ At(w, "retire")
  /\ placement = p.target
  /\ p.target \in files
  /\ files' = files \ {p.source}
  /\ lost' = lost \cup ({p.source} \cap UNION {Publishing(v) : v \in Workers})
  /\ Goto(w, "finish")
  /\ UNCHANGED <<db, plans, complete, snapshot, crashes>>

Finish_NoReceipt(w) ==
  /\ At(w, "finish")
  /\ Rest(w)
  /\ UNCHANGED <<db, files, lost, plans, complete, snapshot, crashes>>

\* The 'complete' receipt.
Finish(w) ==
  /\ At(w, "finish")
  /\ complete' = complete \cup {work[w].job}
  /\ Rest(w)
  /\ UNCHANGED <<db, files, lost, plans, snapshot, crashes>>

-----------------------------------------------------------------------------
(* Exceptions and crashes                                                  *)

\* The check that the worker's next step would fail raises instead.
Refused(w) ==
  LET p == work[w].plan IN
  /\ \/ At(w, "build") /\ work[w].segment \in files
     \/ At(w, "place") /\ vectors # work[w].segment.data
     \/ At(w, "plan") /\ \/ p.source.data.of # gen
                         \/ p.source \notin files
                         \/ \A j \in Journals : plans[j] # Nil
     \/ At(w, "open") /\ p.source \notin files
     \/ work[w].step \in {"verify", "settle"} /\ p.target \notin files
     \/ At(w, "publish") /\ ~PlanCurrent(p)
     \/ At(w, "retire") /\ (placement # p.target \/ p.target \notin files)
  /\ Rest(w)
  /\ UNCHANGED <<db, files, lost, plans, complete, snapshot, crashes>>

\* The process dies, or an error of the disk or of a busy database is raised.
Crash(w) ==
  /\ crashes < MaxCrashes
  /\ work[w] # Idle
  /\ crashes' = crashes + 1
  /\ Rest(w)
  /\ UNCHANGED <<db, files, lost, plans, complete, snapshot>>

-----------------------------------------------------------------------------
(* A search: it reads the manifest in its snapshot, then opens the file    *)

ReadManifest(r) ==
  /\ snapshot[r] = Nil
  /\ placement # Nil
  /\ snapshot' = [snapshot EXCEPT ![r] = placement]
  /\ UNCHANGED <<db, files, lost, plans, complete, work, crashes>>

ReadEnd(r) ==
  /\ snapshot[r] # Nil
  /\ snapshot' = [snapshot EXCEPT ![r] = Nil]
  /\ UNCHANGED <<db, files, lost, plans, complete, work, crashes>>

Init ==
  /\ gen \in Gens
  /\ vectors = Nil
  /\ placement = Nil
  /\ files = {}
  /\ lost = {}
  /\ plans = [j \in Journals |-> Nil]
  /\ complete = {}
  /\ work = [w \in Workers |-> Idle]
  /\ snapshot = [r \in Readers |-> Nil]
  /\ crashes = 0

\* The next step of a worker that is in the middle of something.
Proceed(w) ==
  \/ ExportCreate(w)
  \/ ExportPlace(w)
  \/ \E j \in Journals : BeginPlan(w, j)
  \/ OpenSource(w)
  \/ LinkTarget(w)
  \/ VerifyTarget(w)
  \/ PublishTarget(w)
  \/ Settle(w)
  \/ RetireSource(w)
  \/ Finish(w)
  \/ Refused(w)

Start(w) ==
  \/ \E root \in Roots : ExportStart(w, root)
  \/ \E root \in Roots, retire \in BOOLEAN : BeginRead(w, root, retire)
  \/ \E j \in Journals : ResumeCheck(w, j)

Next ==
  \/ \E g \in Gens : ReplaceScope(g)
  \/ \E r \in Runs : Embed(r)
  \/ \E w \in Workers : Start(w) \/ Proceed(w) \/ Crash(w)
  \/ \E r \in Readers : ReadManifest(r) \/ ReadEnd(r)

\* Workers run on and searches end.  A commit that waits for readers holds
\* SQLite's PENDING lock, which lets no new reader in, so it is strongly fair.
\* An operator resumes a journal until it is complete.
Resumes(j) == j \notin complete /\ \E w \in Workers : ResumeCheck(w, j)

Fairness ==
  /\ \A w \in Workers : SF_vars(Proceed(w))
  /\ \A r \in Readers : WF_vars(ReadEnd(r))
  /\ \A j \in Journals : SF_vars(Resumes(j))

Spec == Init /\ [][Next]_vars /\ Fairness

-----------------------------------------------------------------------------
(* Properties                                                              *)

TypeOK ==
  /\ gen \in Gens
  /\ vectors \in Data \cup {Nil}
  /\ placement \in Manifests \cup {Nil}
  /\ files \subseteq Manifests
  /\ lost \subseteq Manifests \ files
  /\ plans \in [Journals -> Plans \cup {Nil}]
  /\ complete \subseteq Journals
  /\ work \in [Workers -> Work]
  /\ snapshot \in [Readers -> Manifests \cup {Nil}]
  /\ crashes \in 0..MaxCrashes

\* The published manifest names a segment that is there and holds the vectors
\* of the database, through every crash and resumption of a migration
\* (migration.py: "publication comparisons protect other journals").
PlacementReadable ==
  placement # Nil => placement \in files /\ placement.data = vectors

\* The published manifest, and the one a search has read, keep their segment,
\* whoever exports, migrates, retires or stops, and the published one holds the
\* vectors of the database (migration.py, segments.py).  The exception is the race
\* of PlacementReadable: a segment retired while another worker was about to
\* publish it, having looked at the file before.
SegmentsReadable ==
  /\ placement # Nil =>
       placement \in files \cup lost /\ placement.data = vectors
  /\ \A r \in Readers : snapshot[r] # Nil => snapshot[r] \in files \cup lost

\* A planned migration ends with the target published, verified and recorded,
\* however often it is interrupted, unless the index has moved on meanwhile, the
\* published segment is lost or the workers never stop doing something else.
Undisturbed(j) == <>[](\A w \in Workers : work[w] = Idle \/ work[w].job = j)
MigrationCompletes ==
  \A j \in Journals : Undisturbed(j) =>
    (plans[j] # Nil ~> \/ j \in complete
                       \/ plans[j] # Nil /\ ~PlanCurrent(plans[j])
                       \/ placement \in lost)
=============================================================================
