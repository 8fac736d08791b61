--------------------------- MODULE ServicesProofs ---------------------------
(***************************************************************************)
(* Proofs about Services, for any settings, generations, embeddings,       *)
(* placements, providers, batches, caps and tasks, any files, preparers    *)
(* and edits, and any candidates, measurements and limits of the store: a  *)
(* session keeps its choices also after it has forgotten some of them, an  *)
(* execution answers from what is committed, a model is made of the bytes  *)
(* that it is used for, and a choice has the evidence it was made by.      *)
(***************************************************************************)
EXTENDS Services, SequenceTheorems, FiniteSetTheorems, TLAPS

-----------------------------------------------------------------------------
(* Tables in the order of insertion                                        *)

Pins == [name : Keys, value : Choices]

\* A new value keeps its place, a new name comes last.
LEMMA PutEntries ==
  ASSUME NEW t \in Seq(Pins), NEW n \in Keys, NEW v \in Choices
  PROVE  /\ Put(t, n, v) \in Seq(Pins)
         /\ \A i \in DOMAIN Put(t, n, v) :
              \/ Put(t, n, v)[i] = [name |-> n, value |-> v]
              \/ i \in DOMAIN t /\ Put(t, n, v)[i] = t[i]
<1> DEFINE e == [name |-> n, value |-> v]
           E == Pins
<1>1. e \in E
  BY DEF Pins
<1>2. CASE Has(t, n)
  <2>1. Put(t, n, v) = [i \in DOMAIN t |-> IF t[i].name = n THEN e ELSE t[i]]
    BY <1>2 DEF Put
  <2>2. DOMAIN t = 1..Len(t) /\ Len(t) \in Nat /\ \A i \in DOMAIN t : t[i] \in E
    BY LenProperties, ElementOfSeq
  <2> HIDE DEF e, E
  <2>3. Put(t, n, v) \in [1..Len(t) -> E]
    BY <1>1, <2>1, <2>2
  <2>4. Put(t, n, v) \in Seq(E)
    BY <2>2, <2>3, SeqDef
  <2>5. QED BY <2>1, <2>4 DEF e, E
<1>3. CASE ~Has(t, n)
  <2>1. Put(t, n, v) = Append(t, e)
    BY <1>3 DEF Put
  <2> HIDE DEF e, E
  <2>2. t \in Seq(E)
    BY DEF E
  <2>3. QED BY <1>1, <2>1, <2>2, AppendProperties DEF e, E
<1>4. QED BY <1>2, <1>3

\* The oldest entry makes room; the others stay in order.
LEMMA TrimmedEntries ==
  ASSUME NEW E, NEW t \in Seq(E)
  PROVE  /\ Trimmed(t) \in Seq(E)
         /\ Len(t) <= PinCap => Len(Trimmed(t)) < PinCap
         /\ \E d \in {0, 1} : \A i \in DOMAIN Trimmed(t) : i + d \in DOMAIN t /\ Trimmed(t)[i] = t[i + d]
<1>1. PinCap \in Nat \ {0}
  BY ServiceAssumption
<1>2. CASE Len(t) >= PinCap
  <2>1. Len(t) \in Nat /\ t # << >>
    BY <1>1, <1>2
  <2>2. Tail(t) \in Seq(E) /\ Len(Tail(t)) = Len(t) - 1
          /\ \A i \in 1..Len(t) - 1 : Tail(t)[i] = t[i + 1]
    BY <2>1, HeadTailProperties
  <2>3. DOMAIN Tail(t) = 1..Len(t) - 1 /\ DOMAIN t = 1..Len(t)
    BY <2>2, LenProperties
  <2>4. Trimmed(t) = Tail(t)
    BY <1>2 DEF Trimmed
  <2>5. \A i \in DOMAIN Tail(t) : i + 1 \in DOMAIN t /\ Tail(t)[i] = t[i + 1]
    BY <2>1, <2>2, <2>3
  <2>6. QED BY <1>1, <2>1, <2>2, <2>4, <2>5
<1>3. CASE ~(Len(t) >= PinCap)
  <2>1. Trimmed(t) = t /\ Len(t) < PinCap
    BY <1>1, <1>3, LenProperties DEF Trimmed
  <2>2. \A i \in DOMAIN t : i + 0 = i
    BY LenProperties
  <2>3. QED BY <2>1, <2>2
<1>4. QED BY <1>2, <1>3

\* What is left of a sequence without one of its elements.
Cut(t, p) == SubSeq(t, 1, p - 1) \o SubSeq(t, p + 1, Len(t))

LEMMA Removed ==
  ASSUME NEW E, NEW t \in Seq(E), NEW p \in DOMAIN t
  PROVE  /\ Cut(t, p) \in Seq(E) /\ Len(Cut(t, p)) = Len(t) - 1
         /\ \A i \in 1..Len(t) - 1 : Cut(t, p)[i] = t[IF i <= p - 1 THEN i ELSE i + 1]
<1>1. DOMAIN t = 1..Len(t) /\ Len(t) \in Nat /\ p \in 1..Len(t)
  BY LenProperties
<1>2. PICK a : a = SubSeq(t, 1, p - 1)
  OBVIOUS
<1>3. PICK b : b = SubSeq(t, p + 1, Len(t))
  OBVIOUS
<1>4. a \in Seq(E) /\ Len(a) = p - 1 /\ \A i \in 1..p - 1 : a[i] = t[i]
  BY <1>1, <1>2, SubSeqProperties
<1>5. b \in Seq(E) /\ Len(b) = Len(t) - p /\ \A i \in 1..Len(t) - p : b[i] = t[p + i]
  <2>1. \A i \in p + 1..Len(t) : t[i] \in E
    BY <1>1, ElementOfSeq
  <2>2. b = [i \in 1..Len(t) - p |-> t[p + i]]
    BY <1>1, <1>3
  <2>3. b \in Seq(E) /\ Len(b) = Len(t) - p
    <3>1. Len(t) - p \in Nat /\ b \in [1..Len(t) - p -> E]
      BY <1>1, <2>1, <2>2
    <3>2. b \in Seq(E)
      BY <3>1, SeqDef
    <3>3. QED BY <3>1, <3>2, LenProperties
  <2>4. QED BY <2>2, <2>3
<1>6. PICK u : u = a \o b
  OBVIOUS
<1>7. /\ u \in Seq(E) /\ Len(u) = Len(t) - 1
      /\ \A i \in 1..Len(t) - 1 : u[i] = IF i <= p - 1 THEN a[i] ELSE b[i - (p - 1)]
  <2>1. /\ a \o b \in Seq(E) /\ Len(a \o b) = Len(a) + Len(b)
        /\ \A i \in 1..Len(a) + Len(b) :
             (a \o b)[i] = IF i <= Len(a) THEN a[i] ELSE b[i - Len(a)]
    BY <1>4, <1>5, ConcatProperties
  <2>2. Len(a) = p - 1 /\ Len(b) = Len(t) - p /\ Len(a) + Len(b) = Len(t) - 1
    BY <1>1, <1>4, <1>5
  <2>3. QED BY <1>6, <2>1, <2>2
<1>8. Len(t) \in Nat /\ p \in Nat /\ 1 <= p /\ p <= Len(t)
  BY <1>1
<1>9. ASSUME NEW i \in 1..Len(t) - 1 PROVE u[i] = t[IF i <= p - 1 THEN i ELSE i + 1]
  <2>1. i \in Nat /\ 1 <= i /\ i <= Len(t) - 1
    BY <1>8
  <2>2. CASE i <= p - 1
    <3>1. i \in 1..p - 1
      BY <1>8, <2>1, <2>2
    <3>2. QED BY <1>4, <1>7, <2>2, <3>1
  <2>3. CASE ~(i <= p - 1)
    <3>1. i - (p - 1) \in 1..Len(t) - p /\ p + (i - (p - 1)) = i + 1
      BY <1>8, <2>1, <2>3
    <3>2. QED BY <1>5, <1>7, <2>3, <3>1
  <2>4. QED BY <2>2, <2>3
<1>10. u = Cut(t, p)
  BY <1>2, <1>3, <1>6 DEF Cut
<1>11. QED BY <1>7, <1>9, <1>10

\* What is left without a name was there before.
LEMMA WithoutEntries ==
  ASSUME NEW E, NEW t \in Seq(E), NEW n
  PROVE  /\ Without(t, n) \in Seq(E)
         /\ \A i \in DOMAIN Without(t, n) : \E j \in DOMAIN t : Without(t, n)[i] = t[j]
<1>1. CASE Has(t, n)
  <2>1. PICK p : p = Place(t, n)
    OBVIOUS
  <2>2. p \in DOMAIN t
    BY <1>1, <2>1 DEF Has, Place, Lookup
  <2>3. Without(t, n) = Cut(t, p)
    BY <1>1, <2>1 DEF Without, Cut
  <2>4. PICK u : u = Cut(t, p)
    OBVIOUS
  <2>5. /\ u \in Seq(E) /\ Len(u) = Len(t) - 1
        /\ \A i \in 1..Len(t) - 1 : u[i] = t[IF i <= p - 1 THEN i ELSE i + 1]
    BY <2>2, <2>4, Removed
  <2>6. DOMAIN t = 1..Len(t) /\ Len(t) \in Nat /\ p \in 1..Len(t) /\ DOMAIN u = 1..Len(t) - 1
    BY <2>2, <2>5, LenProperties
  <2>7. \A i \in 1..Len(t) - 1 : (IF i <= p - 1 THEN i ELSE i + 1) \in DOMAIN t
    BY <2>6
  <2>8. QED BY <2>3, <2>4, <2>5, <2>6, <2>7
<1>2. CASE ~Has(t, n)
  BY <1>2 DEF Without
<1>3. QED BY <1>1, <1>2

\* What is looked up is of that name.
LEMMA ValueIsOfName ==
  ASSUME NEW t, NEW n, Has(t, n)
  PROVE  \E i \in DOMAIN t : t[i].name = n /\ ValueOf(t, n) = t[i].value
<1>1. Place(t, n) \in Lookup(t, n)
  BY DEF Has, Place
<1>2. QED BY <1>1 DEF Lookup, ValueOf

-----------------------------------------------------------------------------
(* The service                                                             *)

\* What the explorer is asked for.
Tasks == {<<"discover">>} \cup ({"replay"} \X Keys \X Providers)

ShadowSteps == {"none", "start", "run", "result", "raised", "deferred"}

\* What is committed, discovered, observed and in a cooldown.
Records ==
  /\ index \in [gen : Gens, run : Runs \cup {Nil}, place : Targets]
  /\ changes \in 0..MaxChanges /\ tasks \in 0..MaxTasks
  /\ known \subseteq Providers /\ done \in BOOLEAN
  /\ accepted \subseteq Keys \X Providers /\ cooldown \subseteq Keys \X Providers

\* explorer.py: a child that was killed was preempted before; discovery advances
\* once a task.
Explores ==
  /\ shadow \in [step : ShadowSteps, task : Tasks \cup {Nil}, preempted : BOOLEAN,
                 killed : BOOLEAN, foreground : BOOLEAN]
  /\ shadow.step # "none" => shadow.task \in Tasks
  /\ shadow.killed => shadow.preempted /\ shadow.step \in {"none", "raised", "deferred"}
  /\ cursor \in 2..2 + tasks
  /\ shadow.step # "none" => cursor <= 1 + tasks
  /\ PreemptionIsNoFailure

\* What was loaded after the last commit is what is committed.
OfItsLoad(h) == h.load <= changes /\ (h.load = changes => h.data = Committed)

\* The indexes of a provider fit its budget.
Holds ==
  /\ resident \in [Providers -> SUBSET Matrices]
  /\ \A p \in Providers : \A h \in resident[p] : OfItsLoad(h)
  /\ \A p \in Providers : IsFiniteSet(resident[p]) /\ Cardinality(resident[p]) <= HandleCap

\* What is remembered for an anchor.
Firsts == [name : Anchors, value : [key : Keys, choice : Choices]]

\* service.py: one first choice for an anchor; whatever is pinned for a key that a
\* request can still have, it is that choice or the reference.
Remembers ==
  /\ pinned \in Seq(Pins) /\ anchors \in Seq(Firsts) /\ Len(anchors) <= PinCap
  /\ first \subseteq Anchors \X Choices
  /\ \A i, j \in DOMAIN anchors : anchors[i].name = anchors[j].name => i = j
  /\ \A f \in first : \E i \in DOMAIN anchors : f = <<anchors[i].name, anchors[i].value.choice>>
  /\ \A i \in DOMAIN pinned : pinned[i].name.known \subseteq known
  /\ \A i \in DOMAIN pinned, j \in DOMAIN anchors :
       pinned[i].value # Reference /\ pinned[i].name.known = known
         /\ anchors[j].name = Anchor(pinned[i].name)
         => anchors[j].value.choice = pinned[i].value

\* The statements of an execution, what it answers and what it plans.
Steps == {"idle", "placement", "select", "plan", "plan-placement", "search", "fallen-back",
          "validate", "validate-placement", "replan", "explore"}
Answers == [gen : Gens, data : Vectors, truth : Vectors]
Plans == [gen : Gens, place : Targets \cup {Nil}]

\* What the execution has read, and what it has answered so far.
Requests ==
  /\ request \in [step : Steps, set : Settings \cup {Nil}, gen : Gens \cup {Nil},
                  key : Keys \cup {Nil}, choice : Choices, plan : Plans \cup {Nil},
                  results : Seq(Answers), mode : {"first", "fallback", "replan"}]
  /\ At("idle") => request.key = Nil
  /\ ~At("idle") => request.set \in Settings /\ request.gen \in Gens
  /\ request.step \notin {"idle", "placement"} => request.key \in Keys /\ request.key.known = known
  /\ request.step \in {"idle", "placement", "select"} =>
       request.choice = Reference /\ request.results = << >>
  /\ request.step \in {"plan", "plan-placement"} /\ request.mode # "fallback" =>
       request.results = << >>
  /\ request.step \in {"plan-placement", "search", "validate", "validate-placement"} =>
       request.plan \in Plans
  /\ At("search") => Len(request.results) < Batch
  /\ At("fallen-back") => request.mode = "fallback"
  /\ Len(request.results) <= Batch
  /\ OneGeneration /\ ServesCommittedVectors

ServiceInv == Records /\ Explores /\ Holds /\ Remembers /\ Requests /\ SessionChoiceStable

\* There is no request.
LEMMA RequestsBegin == NoRequest \in
  [step : Steps, set : Settings \cup {Nil}, gen : Gens \cup {Nil}, key : Keys \cup {Nil},
   choice : Choices, plan : Plans \cup {Nil}, results : Seq(Answers),
   mode : {"first", "fallback", "replan"}]
<1>1. << >> \in Seq(Answers)
  BY EmptySeq
<1>2. QED BY <1>1 DEF NoRequest, Steps, Choices

\* Between executions.
LEMMA RestingIsFine ==
  ASSUME request' = NoRequest
  PROVE  Requests' /\ SessionChoiceStable'
<1>1. Len(<< >>) = 0 /\ DOMAIN << >> = {} /\ Batch \in Nat /\ 0 <= Batch
  BY ServiceAssumption
<1>2. /\ NoRequest.step = "idle" /\ NoRequest.key = Nil /\ NoRequest.choice = Reference
      /\ NoRequest.results = << >>
  BY DEF NoRequest
<1>3. QED BY <1>1, <1>2, RequestsBegin
          DEF Requests, At, OneGeneration, ServesCommittedVectors, SessionChoiceStable

\* As the service begins.
LEMMA ServiceBegins == Init => ServiceInv
<1>1. SUFFICES ASSUME Init PROVE ServiceInv
  OBVIOUS
<1>2. 0 \in 0..MaxChanges /\ 0 \in 0..MaxTasks /\ 2 \in 2..2 + 0 /\ 1 \in Providers
      /\ HandleCap \in Nat /\ PinCap \in Nat
  BY ServiceAssumption DEF Providers
<1>3. Records
  <2>1. accepted \subseteq Keys \X Providers
    BY <1>1, ServiceAssumption DEF Init, Providers
  <2>2. QED BY <1>1, <1>2, <2>1, ServiceAssumption DEF Init, Records
<1>4. Explores
  BY <1>1, <1>2 DEF Init, Explores, NoTask, ShadowSteps, PreemptionIsNoFailure
<1>5. Holds
  <2>1. IsFiniteSet({}) /\ Cardinality({}) = 0
    BY FS_EmptySet
  <2>2. QED BY <1>1, <1>2, <2>1 DEF Init, Holds
<1>6. Remembers
  BY <1>1, <1>2, EmptySeq DEF Init, Remembers
<1>7. Requests /\ SessionChoiceStable
  <2>1. Len(<< >>) = 0 /\ DOMAIN << >> = {} /\ Batch \in Nat /\ 0 <= Batch
    BY ServiceAssumption
  <2>2. /\ NoRequest.step = "idle" /\ NoRequest.key = Nil /\ NoRequest.choice = Reference
        /\ NoRequest.results = << >>
    BY DEF NoRequest
  <2>3. request = NoRequest
    BY <1>1 DEF Init
  <2>4. QED BY <2>1, <2>2, <2>3, RequestsBegin
            DEF Requests, At, OneGeneration, ServesCommittedVectors, SessionChoiceStable
<1>8. QED BY <1>3, <1>4, <1>5, <1>6, <1>7 DEF ServiceInv

\* Other processes commit.
LEMMA CommitKeeps ==
  ASSUME ServiceInv, NEW new \in [gen : Gens, run : Runs \cup {Nil}, place : Targets], Commit(new)
  PROVE  ServiceInv'
<1>1. UNCHANGED <<known, cursor, done, accepted, shadow, tasks, cooldown, pinned, anchors, first,
                  request, resident>>
  BY DEF Commit, background, discovery, session
<1>2. index' = new /\ changes' \in 0..MaxChanges
  BY ServiceAssumption DEF Commit, ServiceInv, Records
<1>3. Records'
  BY <1>1, <1>2 DEF ServiceInv, Records
<1>4. Explores' /\ Remembers'
  BY <1>1 DEF ServiceInv, Explores, Remembers, PreemptionIsNoFailure
<1>5. Requests' /\ SessionChoiceStable'
  BY <1>1 DEF ServiceInv, Requests, At, OneGeneration, ServesCommittedVectors, SessionChoiceStable
<1>6. Holds'
  <2>1. changes \in Nat /\ changes' = changes + 1
    BY ServiceAssumption DEF Commit, ServiceInv, Records
  <2>2. ASSUME NEW p \in Providers, NEW h \in resident[p]
        PROVE  h.load <= changes' /\ h.load # changes'
    <3>1. h \in Matrices /\ h.load <= changes
      BY <2>2 DEF ServiceInv, Holds, OfItsLoad
    <3>2. h.load \in Nat
      BY <3>1, ServiceAssumption DEF Matrices
    <3>3. QED BY <2>1, <3>1, <3>2
  <2>3. QED BY <1>1, <2>2 DEF ServiceInv, Holds, OfItsLoad
<1>7. QED BY <1>3, <1>4, <1>5, <1>6 DEF ServiceInv

\* Time passes.
LEMMA CooldownKeeps ==
  ASSUME ServiceInv, CooldownEnds
  PROVE  ServiceInv'
<1>1. UNCHANGED <<known, cursor, done, accepted, shadow, tasks, index, changes, pinned, anchors,
                  first, request, resident>> /\ cooldown' \subseteq cooldown
  BY DEF CooldownEnds, background, discovery, session
<1>2. Records' /\ Explores' /\ Holds' /\ Remembers'
  BY <1>1 DEF ServiceInv, Records, Explores, Holds, OfItsLoad, Committed, Remembers,
             PreemptionIsNoFailure
<1>3. Requests' /\ SessionChoiceStable'
  BY <1>1 DEF ServiceInv, Requests, At, OneGeneration, ServesCommittedVectors, SessionChoiceStable
<1>4. QED BY <1>2, <1>3 DEF ServiceInv

\* A new session remembers nothing.
LEMMA SessionsKeep ==
  ASSUME ServiceInv, NewSession
  PROVE  ServiceInv'
<1>1. UNCHANGED <<known, cursor, done, accepted, shadow, tasks, index, changes, cooldown,
                  request, resident>>
      /\ pinned' = << >> /\ anchors' = << >> /\ first' = {}
  BY DEF NewSession, background, discovery
<1>2. Records' /\ Explores' /\ Holds'
  BY <1>1 DEF ServiceInv, Records, Explores, Holds, OfItsLoad, Committed, PreemptionIsNoFailure
<1>3. Remembers'
  BY <1>1, EmptySeq, ServiceAssumption DEF Remembers
<1>4. Requests' /\ SessionChoiceStable'
  BY <1>1 DEF ServiceInv, Requests, At, OneGeneration, ServesCommittedVectors, SessionChoiceStable
<1>5. QED BY <1>2, <1>3, <1>4 DEF ServiceInv

-----------------------------------------------------------------------------
(* An execution                                                            *)

\* A step of the execution that leaves the tables alone.
LEMMA OnlyRequestChanges ==
  ASSUME ServiceInv, UNCHANGED <<index, changes, background, session>>,
         cooldown' \subseteq Keys \X Providers, Holds', Requests', SessionChoiceStable'
  PROVE  ServiceInv'
<1>1. UNCHANGED <<index, changes, known, cursor, done, accepted, shadow, tasks, pinned, anchors,
                  first>>
  BY DEF background, discovery, session
<1>2. Records' /\ Explores' /\ Remembers'
  BY <1>1 DEF ServiceInv, Records, Explores, Remembers, PreemptionIsNoFailure
<1>3. QED BY <1>2 DEF ServiceInv

\* Nothing is resident that was not.
LEMMA HoldsStill ==
  ASSUME ServiceInv, UNCHANGED <<resident, index, changes>>
  PROVE  Holds'
BY DEF ServiceInv, Holds, OfItsLoad, Committed

\* The choice of a request stays, and so does what the session chose first.
LEMMA ChoiceStays ==
  ASSUME ServiceInv, UNCHANGED first,
         \/ request'.choice = Reference
         \/ request'.choice = request.choice /\ request'.key = request.key
  PROVE  SessionChoiceStable'
BY DEF ServiceInv, SessionChoiceStable

\* The generation, then the placement.
LEMMA ReadKeeps ==
  ASSUME ServiceInv, ReadPlacement \/ \E s \in Settings : Begin(s)
  PROVE  ServiceInv'
<1>1. UNCHANGED <<index, changes, background, session, cooldown, resident>>
      /\ UNCHANGED known
  BY DEF ReadPlacement, Begin, background, discovery
<1>2. CASE \E s \in Settings : Begin(s)
  <2>1. PICK s \in Settings : Begin(s)
    BY <1>2
  <2>2. index.gen \in Gens
    BY DEF ServiceInv, Records
  <2>3. request' = [NoRequest EXCEPT !.step = "placement", !.set = s, !.gen = index.gen]
    BY <2>1 DEF Begin
  <2>4. /\ request'.step = "placement" /\ request'.set = s /\ request'.gen = index.gen
        /\ request'.choice = Reference /\ request'.results = << >> /\ request'.key = Nil
    BY <2>3 DEF NoRequest
  <2>5. Len(<< >>) = 0 /\ DOMAIN << >> = {} /\ Batch \in Nat /\ 0 <= Batch
    BY ServiceAssumption
  <2>6. request' \in [step : Steps, set : Settings \cup {Nil}, gen : Gens \cup {Nil},
                     key : Keys \cup {Nil}, choice : Choices, plan : Plans \cup {Nil},
                     results : Seq(Answers), mode : {"first", "fallback", "replan"}]
    BY <2>2, <2>3, RequestsBegin DEF Steps
  <2>7. Requests' /\ SessionChoiceStable'
    BY <2>2, <2>4, <2>5, <2>6
       DEF Requests, At, OneGeneration, ServesCommittedVectors, SessionChoiceStable
  <2>8. QED BY <1>1, <2>7, HoldsStill, OnlyRequestChanges DEF ServiceInv, Records
<1>3. CASE ReadPlacement
  <2>1. PICK k : k = [set |-> request.set, gen |-> request.gen, place |-> index.place,
                      known |-> known]
    OBVIOUS
  <2>2. k \in Keys /\ k.known = known
    BY <1>3, <2>1 DEF ServiceInv, Requests, Records, ReadPlacement, At, Keys
  <2>3. request' = [request EXCEPT !.key = k,
                      !.step = IF request.mode = "first" THEN "select" ELSE "plan"]
    BY <1>3, <2>1 DEF ReadPlacement
  <2>4. request.choice = Reference /\ request.results = << >> /\ ~At("idle")
        /\ request.set \in Settings /\ request.gen \in Gens
    BY <1>3 DEF ServiceInv, Requests, ReadPlacement, At
  <2>5. Len(<< >>) = 0 /\ DOMAIN << >> = {} /\ Batch \in Nat /\ 0 <= Batch
    BY ServiceAssumption
  <2>6. Requests'
    BY <1>1, <2>2, <2>3, <2>4, <2>5
       DEF ServiceInv, Requests, At, OneGeneration, ServesCommittedVectors, Steps
  <2>7. request'.choice = Reference
    BY <2>3, <2>4 DEF ServiceInv, Requests
  <2>8. SessionChoiceStable' /\ Holds'
    BY <1>1, <2>7, HoldsStill DEF SessionChoiceStable
  <2>9. cooldown' \subseteq Keys \X Providers
    BY <1>1 DEF ServiceInv, Records
  <2>10. QED BY <1>1, <2>6, <2>8, <2>9, OnlyRequestChanges
<1>4. QED BY <1>2, <1>3

\* What the session has remembered is served again, ...
LEMMA PinnedKeeps ==
  ASSUME ServiceInv, SelectPinned
  PROVE  ServiceInv'
<1>1. UNCHANGED <<index, changes, background, session, cooldown, resident, first, known>>
  BY DEF SelectPinned, background, discovery, session
<1>2. request.step = "select" /\ request.key \in Keys /\ request.key.known = known
  BY DEF SelectPinned, At, ServiceInv, Requests
<1>3. PICK i \in DOMAIN pinned : pinned[i].name = request.key
                                 /\ ValueOf(pinned, request.key) = pinned[i].value
  BY ValueIsOfName DEF SelectPinned
<1>4. request' = [request EXCEPT !.choice = pinned[i].value, !.step = "plan"]
  BY <1>3 DEF SelectPinned, Chosen
<1>5. pinned[i].value \in Choices
  <2>1. pinned[i] \in Pins
    BY <1>3, ElementOfSeq, LenProperties DEF ServiceInv, Remembers
  <2>2. QED BY <2>1 DEF Pins
<1>6. Requests'
  BY <1>1, <1>2, <1>4, <1>5
     DEF ServiceInv, Requests, At, OneGeneration, ServesCommittedVectors, Steps
<1>7. request'.choice = pinned[i].value /\ request'.key = request.key
  BY <1>4 DEF ServiceInv, Requests
<1>8. SessionChoiceStable'
  <2>1. ASSUME request'.choice # Reference, NEW f \in first, f[1] = Anchor(request.key)
        PROVE  f[2] = request'.choice
    <3>1. PICK j \in DOMAIN anchors : f = <<anchors[j].name, anchors[j].value.choice>>
      BY <2>1 DEF ServiceInv, Remembers
    <3>2. anchors[j].name = Anchor(pinned[i].name)
      BY <1>3, <2>1, <3>1
    <3>3. anchors[j].value.choice = pinned[i].value
      BY <1>2, <1>3, <1>7, <2>1, <3>2 DEF ServiceInv, Remembers
    <3>4. QED BY <1>7, <3>1, <3>3
  <2>2. QED BY <1>1, <1>7, <2>1 DEF SessionChoiceStable
<1>9. QED BY <1>1, <1>6, <1>8, HoldsStill, OnlyRequestChanges DEF ServiceInv, Records

\* ... and where discovery has changed the key, it is the reference.
LEMMA AnchoredKeeps ==
  ASSUME ServiceInv, SelectAnchored
  PROVE  ServiceInv'
<1>1. UNCHANGED <<index, changes, known, cursor, done, accepted, shadow, tasks, cooldown, anchors,
                  first, resident>>
  BY DEF SelectAnchored, background, discovery
<1>2. /\ request.step = "select" /\ request.key \in Keys /\ request.key.known = known
      /\ request.results = << >>
  BY DEF SelectAnchored, At, ServiceInv, Requests
<1>3. PICK a \in DOMAIN anchors : anchors[a].name = Anchor(request.key)
                                  /\ ValueOf(anchors, Anchor(request.key)) = anchors[a].value
  BY ValueIsOfName DEF SelectAnchored, Remembered
<1>4. PICK c : c = Inherited(request.key, anchors[a].value)
  OBVIOUS
<1>5. anchors[a].value.choice \in Choices
  <2>1. anchors[a] \in Firsts
    BY <1>3, ElementOfSeq, LenProperties DEF ServiceInv, Remembers
  <2>2. QED BY <2>1 DEF Firsts
<1>6. c \in Choices /\ (c # Reference => c = anchors[a].value.choice)
  BY <1>4, <1>5 DEF Inherited, Choices
<1>7. pinned' = Put(pinned, request.key, c)
      /\ request' = [request EXCEPT !.choice = c, !.step = "plan"]
  BY <1>3, <1>4 DEF SelectAnchored, Chosen
<1>8. ASSUME NEW j \in DOMAIN anchors, anchors[j].name = Anchor(request.key), c # Reference
      PROVE  anchors[j].value.choice = c
  BY <1>3, <1>6, <1>8 DEF ServiceInv, Remembers
<1>9. /\ pinned' \in Seq(Pins)
      /\ \A i \in DOMAIN pinned' :
           \/ pinned'[i] = [name |-> request.key, value |-> c]
           \/ i \in DOMAIN pinned /\ pinned'[i] = pinned[i]
  <2>1. pinned \in Seq(Pins)
    BY DEF ServiceInv, Remembers
  <2>2. QED BY <1>2, <1>6, <1>7, <2>1, PutEntries
<1>10. Remembers'
  <2>1. \A i \in DOMAIN pinned' : pinned'[i].name.known \subseteq known
    BY <1>2, <1>9 DEF ServiceInv, Remembers
  <2>2. ASSUME NEW i \in DOMAIN pinned', NEW j \in DOMAIN anchors, pinned'[i].value # Reference,
               pinned'[i].name.known = known, anchors[j].name = Anchor(pinned'[i].name)
        PROVE  anchors[j].value.choice = pinned'[i].value
    <3>1. CASE pinned'[i] = [name |-> request.key, value |-> c]
      BY <1>8, <2>2, <3>1
    <3>2. CASE i \in DOMAIN pinned /\ pinned'[i] = pinned[i]
      BY <2>2, <3>2 DEF ServiceInv, Remembers
    <3>3. QED BY <1>9, <3>1, <3>2
  <2>3. QED BY <1>1, <1>9, <2>1, <2>2 DEF ServiceInv, Remembers
<1>11. Requests'
  BY <1>1, <1>2, <1>6, <1>7
     DEF ServiceInv, Requests, At, OneGeneration, ServesCommittedVectors, Steps
<1>12. SessionChoiceStable'
  <2>1. request'.choice = c /\ request'.key = request.key
    BY <1>7 DEF ServiceInv, Requests
  <2>2. \A f \in first : \E j \in DOMAIN anchors :
          f[1] = anchors[j].name /\ f[2] = anchors[j].value.choice
    BY DEF ServiceInv, Remembers
  <2>3. QED BY <1>1, <1>8, <2>1, <2>2 DEF SessionChoiceStable
<1>13. QED BY <1>1, <1>10, <1>11, <1>12
           DEF ServiceInv, Records, Explores, Holds, OfItsLoad, Committed, PreemptionIsNoFailure

\* A new choice is the first one for its anchor; older anchors may be forgotten, but
\* no request can come back to a key that was pinned for one of them before.
LEMMA FreshKeeps ==
  ASSUME ServiceInv, SelectFresh
  PROVE  ServiceInv'
<1>1. UNCHANGED <<index, changes, known, cursor, done, accepted, shadow, tasks, cooldown, resident>>
  BY DEF SelectFresh, background, discovery
<1>2. PICK k : k = request.key
  OBVIOUS
<1>3. /\ request.step = "select" /\ k \in Keys /\ k.known = known /\ request.results = << >>
      /\ ~Has(pinned, k) /\ ~Has(anchors, Anchor(k)) /\ Anchor(k) \in Anchors
  BY <1>2 DEF SelectFresh, At, ServiceInv, Requests, Remembered, Keys, Anchor, Anchors
<1>4. PICK c \in Eligible(k) \cup {Reference} :
        /\ pinned' = Put(Trimmed(pinned), k, c)
        /\ anchors' = Put(Trimmed(anchors), Anchor(k), [key |-> k, choice |-> c])
        /\ first' = {f \in first : Has(Trimmed(anchors), f[1])}
                      \cup IF \E f \in first : f[1] = Anchor(k) THEN {} ELSE {<<Anchor(k), c>>}
        /\ Chosen(c)
  BY <1>2 DEF SelectFresh
<1>5. c \in Choices
  BY <1>4 DEF Eligible, ServiceInv, Records, Choices
<1>6. PICK v : v = [key |-> k, choice |-> c]
  OBVIOUS
<1>7. PICK t : t = Trimmed(anchors)
  OBVIOUS
<1>8. /\ t \in Seq(Firsts) /\ Len(t) < PinCap
      /\ \E d \in {0, 1} : \A i \in DOMAIN t : i + d \in DOMAIN anchors /\ t[i] = anchors[i + d]
  BY <1>7, TrimmedEntries DEF ServiceInv, Remembers
<1>9. PICK d \in {0, 1} : \A i \in DOMAIN t : i + d \in DOMAIN anchors /\ t[i] = anchors[i + d]
  BY <1>8
<1>10. ~Has(t, Anchor(k))
  BY <1>3, <1>9 DEF Has, Lookup
<1>11. PICK e : e = [name |-> Anchor(k), value |-> v]
  OBVIOUS
<1>12. anchors' = Append(t, e) /\ e \in Firsts
  BY <1>3, <1>4, <1>5, <1>6, <1>7, <1>10, <1>11 DEF Put, Firsts
<1>13. /\ anchors' \in Seq(Firsts) /\ Len(anchors') = Len(t) + 1 /\ Len(t) \in Nat
       /\ DOMAIN t = 1..Len(t) /\ DOMAIN anchors' = 1..Len(t) + 1
       /\ \A i \in 1..Len(t) : anchors'[i] = t[i]
       /\ anchors'[Len(t) + 1] = e
  BY <1>8, <1>12, AppendProperties, LenProperties
<1>14. Len(anchors') <= PinCap
  BY <1>8, <1>13, ServiceAssumption
<1>15. ASSUME NEW i \in DOMAIN anchors', NEW j \in DOMAIN anchors', anchors'[i].name = anchors'[j].name
       PROVE  i = j
  <2>1. \A m \in 1..Len(t) : m + d \in DOMAIN anchors /\ anchors'[m] = anchors[m + d]
                             /\ anchors'[m].name # Anchor(k)
    BY <1>9, <1>10, <1>13 DEF Has, Lookup
  <2>2. CASE i \in 1..Len(t) /\ j \in 1..Len(t)
    <3>1. i + d = j + d
      BY <1>15, <2>1, <2>2 DEF ServiceInv, Remembers
    <3>2. QED BY <1>13, <2>2, <3>1
  <2>3. CASE ~(i \in 1..Len(t) /\ j \in 1..Len(t))
    BY <1>11, <1>13, <1>15, <2>1, <2>3
  <2>4. QED BY <2>2, <2>3
<1>16. first' \subseteq Anchors \X Choices
  BY <1>3, <1>4, <1>5 DEF ServiceInv, Remembers
<1>17. ~\E f \in first : f[1] = Anchor(k)
  BY <1>3 DEF ServiceInv, Remembers, Has, Lookup
<1>18. ASSUME NEW f \in first'
       PROVE  /\ \E i \in DOMAIN anchors' : f = <<anchors'[i].name, anchors'[i].value.choice>>
              /\ f[1] = Anchor(k) => f[2] = c
  <2>1. CASE f \in first /\ Has(t, f[1])
    <3>1. PICK i \in DOMAIN anchors : f = <<anchors[i].name, anchors[i].value.choice>>
      BY <2>1 DEF ServiceInv, Remembers
    <3>2. PICK j \in DOMAIN t : t[j].name = f[1]
      BY <2>1 DEF Has, Lookup
    <3>3. j + d = i
      BY <1>9, <3>1, <3>2 DEF ServiceInv, Remembers
    <3>4. anchors'[j] = anchors[i] /\ j \in DOMAIN anchors'
      BY <1>9, <1>13, <3>2, <3>3
    <3>5. QED BY <1>17, <2>1, <3>1, <3>4
  <2>2. CASE f = <<Anchor(k), c>>
    <3>1. Len(t) + 1 \in DOMAIN anchors'
      BY <1>13
    <3>2. f = <<anchors'[Len(t) + 1].name, anchors'[Len(t) + 1].value.choice>>
      BY <1>6, <1>11, <1>13, <2>2
    <3>3. QED BY <2>2, <3>1, <3>2
  <2>3. QED BY <1>4, <1>7, <1>17, <2>1, <2>2
<1>19. PICK u : u = Trimmed(pinned)
  OBVIOUS
<1>20. /\ u \in Seq(Pins)
       /\ \E s \in {0, 1} : \A i \in DOMAIN u : i + s \in DOMAIN pinned /\ u[i] = pinned[i + s]
  BY <1>19, TrimmedEntries DEF ServiceInv, Remembers
<1>21. /\ pinned' \in Seq(Pins)
       /\ \A i \in DOMAIN pinned' :
            \/ pinned'[i] = [name |-> k, value |-> c]
            \/ \E j \in DOMAIN pinned : pinned'[i] = pinned[j]
  <2>1. u \in Seq(Pins)
    BY <1>20
  <2>2. PICK w : w = Put(u, k, c)
    OBVIOUS
  <2>3. /\ w \in Seq(Pins)
        /\ \A i \in DOMAIN w : w[i] = [name |-> k, value |-> c] \/ (i \in DOMAIN u /\ w[i] = u[i])
    BY <1>3, <1>5, <2>1, <2>2, PutEntries
  <2>4. pinned' = w
    BY <1>4, <1>19, <2>2
  <2>5. QED BY <1>20, <2>3, <2>4
<1>22. ASSUME NEW i \in DOMAIN pinned', NEW j \in DOMAIN anchors', pinned'[i].value # Reference,
              pinned'[i].name.known = known, anchors'[j].name = Anchor(pinned'[i].name)
       PROVE  anchors'[j].value.choice = pinned'[i].value
  <2>1. CASE pinned'[i] = [name |-> k, value |-> c]
    <3>1. anchors'[Len(t) + 1].name = Anchor(k) /\ Len(t) + 1 \in DOMAIN anchors'
      BY <1>11, <1>13
    <3>2. j = Len(t) + 1
      BY <1>15, <1>22, <2>1, <3>1
    <3>3. QED BY <1>6, <1>11, <1>13, <2>1, <3>2
  <2>2. CASE \E m \in DOMAIN pinned : pinned'[i] = pinned[m]
    <3>1. PICK m \in DOMAIN pinned : pinned'[i] = pinned[m]
      BY <2>2
    <3>2. pinned[m].name \in Keys /\ pinned[m].name # k
      <4>1. pinned[m] \in Pins
        BY ElementOfSeq, LenProperties DEF ServiceInv, Remembers
      <4>2. QED BY <1>3, <4>1 DEF Pins, Has, Lookup
    <3>3. Anchor(pinned[m].name) # Anchor(k)
      BY <1>3, <1>22, <3>1, <3>2 DEF Anchor, Keys
    <3>4. j \in 1..Len(t) /\ j + d \in DOMAIN anchors /\ anchors'[j] = anchors[j + d]
      BY <1>9, <1>11, <1>13, <1>22, <3>1, <3>3
    <3>5. QED BY <1>22, <3>1, <3>4 DEF ServiceInv, Remembers
  <2>3. QED BY <1>21, <2>1, <2>2
<1>23. \A i \in DOMAIN pinned' : pinned'[i].name.known \subseteq known
  BY <1>3, <1>21 DEF ServiceInv, Remembers
<1>24. Remembers'
  BY <1>1, <1>13, <1>14, <1>15, <1>16, <1>18, <1>21, <1>22, <1>23 DEF Remembers
<1>25. request' = [request EXCEPT !.choice = c, !.step = "plan"]
  BY <1>4 DEF Chosen
<1>26. Requests'
  BY <1>1, <1>2, <1>3, <1>5, <1>25
     DEF ServiceInv, Requests, At, OneGeneration, ServesCommittedVectors, Steps
<1>27. SessionChoiceStable'
  <2>1. request'.choice = c /\ request'.key = k
    BY <1>2, <1>25 DEF ServiceInv, Requests
  <2>2. QED BY <1>18, <2>1 DEF SessionChoiceStable
<1>28. QED BY <1>1, <1>24, <1>26, <1>27
           DEF ServiceInv, Records, Explores, Holds, OfItsLoad, Committed, PreemptionIsNoFailure

\* The plan: the generation, then the placement, which must not be of another one.
LEMMA PlanKeeps ==
  ASSUME ServiceInv, PlanGeneration \/ PlanPlacement
  PROVE  ServiceInv'
<1>1. UNCHANGED <<index, changes, background, session, cooldown, resident, first, known>>
  BY DEF PlanGeneration, PlanPlacement, background, discovery, session
<1>2. index.gen \in Gens /\ index.place \in Targets /\ cooldown' \subseteq Keys \X Providers
  BY <1>1 DEF ServiceInv, Records
<1>3. CASE PlanGeneration
  <2>1. PICK q : q = [gen |-> index.gen, place |-> Nil]
    OBVIOUS
  <2>2. request' = [request EXCEPT !.plan = q, !.step = "plan-placement"] /\ request.step = "plan"
    BY <1>3, <2>1 DEF PlanGeneration, At
  <2>3. q \in Plans
    BY <1>2, <2>1 DEF Plans
  <2>4. Requests'
    BY <1>1, <2>2, <2>3 DEF ServiceInv, Requests, At, OneGeneration, ServesCommittedVectors, Steps
  <2>5. request'.choice = request.choice /\ request'.key = request.key
    BY <2>2 DEF ServiceInv, Requests
  <2>6. QED BY <1>1, <1>2, <2>4, <2>5, HoldsStill, ChoiceStays, OnlyRequestChanges
<1>4. CASE PlanPlacement
  <2>1. PICK q : q = [request.plan EXCEPT !.place = index.place]
    OBVIOUS
  <2>2. request.step = "plan-placement" /\ request.plan \in Plans
    BY <1>4 DEF PlanPlacement, At, ServiceInv, Requests
  <2>3. q \in Plans
    BY <1>2, <2>1, <2>2 DEF Plans
  <2>4. PICK s : s = IF request.mode = "fallback" THEN "validate" ELSE "search"
    OBVIOUS
  <2>5. request' = [request EXCEPT !.plan = q, !.step = s]
    BY <1>4, <2>1, <2>4 DEF PlanPlacement
  <2>6. s = "search" => request.results = << >>
    BY <2>2, <2>4 DEF ServiceInv, Requests
  <2>7. Len(<< >>) < Batch
    BY ServiceAssumption
  <2>8. Requests'
    BY <1>1, <2>2, <2>3, <2>4, <2>5, <2>6, <2>7
       DEF ServiceInv, Requests, At, OneGeneration, ServesCommittedVectors, Steps
  <2>9. request'.choice = request.choice /\ request'.key = request.key
    BY <2>5 DEF ServiceInv, Requests
  <2>10. QED BY <1>1, <1>2, <2>8, <2>9, HoldsStill, ChoiceStays, OnlyRequestChanges
<1>5. QED BY <1>3, <1>4

\* What a search adds is of what is committed, and no more than the batch.
LEMMA SearchedIsFine ==
  ASSUME ServiceInv, At("search"), Searchable, NEW v, v = Committed, Searched(Result(v)),
         UNCHANGED known
  PROVE  Requests' /\ request'.choice = request.choice /\ request'.key = request.key
<1>1. Committed \in Vectors /\ Batch \in Nat \ {0}
  BY ServiceAssumption DEF Committed, Vectors, Searchable, ServiceInv, Records
<1>2. PICK r : r = Result(v)
  OBVIOUS
<1>3. r \in Answers /\ r.data = r.truth
  BY <1>1, <1>2 DEF Result, Committed, Answers, ServiceInv, Records
<1>4. PICK rs : rs = IF request.mode = "first" THEN [i \in 1..Batch |-> r]
                     ELSE Append(request.results, r)
  OBVIOUS
<1>5. PICK s : s = IF Len(rs) < Batch THEN "search"
                   ELSE IF request.mode = "fallback" THEN "fallen-back" ELSE "validate"
  OBVIOUS
<1>6. request' = [request EXCEPT !.results = rs, !.step = s]
  BY <1>2, <1>4, <1>5 DEF Searched
<1>7. /\ request.results \in Seq(Answers) /\ Len(request.results) < Batch
      /\ \A i \in DOMAIN request.results : request.results[i].data = request.results[i].truth
      /\ request.plan \in Plans /\ request.key \in Keys /\ request.key.known = known
      /\ request.set \in Settings /\ request.gen \in Gens
  BY DEF ServiceInv, Requests, At, ServesCommittedVectors
<1>8. /\ rs \in Seq(Answers) /\ Len(rs) <= Batch
      /\ \A i \in DOMAIN rs : rs[i].data = rs[i].truth
  <2>1. CASE request.mode = "first"
    <3>1. rs = [i \in 1..Batch |-> r]
      BY <1>4, <2>1
    <3>2. rs \in [1..Batch -> Answers] /\ Batch \in Nat
      BY <1>1, <1>3, <3>1
    <3>3. rs \in Seq(Answers) /\ Len(rs) = Batch
      BY <3>2, SeqDef, LenProperties
    <3>4. QED BY <1>1, <1>3, <3>1, <3>3
  <2>2. CASE request.mode # "first"
    <3>1. rs = Append(request.results, r)
      BY <1>4, <2>2
    <3>2. /\ rs \in Seq(Answers) /\ Len(rs) = Len(request.results) + 1
          /\ Len(request.results) \in Nat /\ DOMAIN rs = 1..Len(request.results) + 1
          /\ DOMAIN request.results = 1..Len(request.results)
          /\ \A i \in 1..Len(request.results) : rs[i] = request.results[i]
          /\ rs[Len(request.results) + 1] = r
      BY <1>3, <1>7, <3>1, AppendProperties, LenProperties
    <3>3. QED BY <1>1, <1>3, <1>7, <3>2
  <2>3. QED BY <2>1, <2>2
<1>9. request'.choice = request.choice /\ request'.key = request.key
  BY <1>6 DEF ServiceInv, Requests
<1>10. /\ s \in {"search", "fallen-back", "validate"} /\ (s = "search" => Len(rs) < Batch)
       /\ s = "fallen-back" => request.mode = "fallback"
  BY <1>5
<1>11. Requests'
  BY <1>6, <1>7, <1>8, <1>10
     DEF ServiceInv, Requests, At, OneGeneration, ServesCommittedVectors, Steps
<1>12. QED BY <1>9, <1>11

\* The database itself is searched.
LEMMA ReferenceKeeps ==
  ASSUME ServiceInv, SearchReference
  PROVE  ServiceInv'
<1>1. UNCHANGED <<index, changes, background, session, cooldown, resident, first, known>>
  BY DEF SearchReference, background, discovery, session
<1>2. cooldown' \subseteq Keys \X Providers
  BY <1>1 DEF ServiceInv, Records
<1>3. Requests' /\ request'.choice = request.choice /\ request'.key = request.key
  BY <1>1, SearchedIsFine DEF SearchReference
<1>4. QED BY <1>1, <1>2, <1>3, HoldsStill, ChoiceStays, OnlyRequestChanges

\* indexes.py: what hits is the committed vectors, and one is built beside no more
\* than there is room for.
LEMMA ResidentKeeps ==
  ASSUME ServiceInv, SearchResident
  PROVE  ServiceInv'
<1>1. UNCHANGED <<index, changes, background, session, cooldown, first, known>>
  BY DEF SearchResident, background, discovery, session
<1>2. cooldown' \subseteq Keys \X Providers
  BY <1>1 DEF ServiceInv, Records
<1>3. PICK p : p = request.choice
  OBVIOUS
<1>4. PICK kept : kept = {h \in resident[p] : h.data.gen = index.gen}
  OBVIOUS
<1>5. p \in Providers /\ HandleCap \in Nat \ {0}
  BY <1>3, ServiceAssumption DEF SearchResident, ServiceInv, Requests, Choices, Providers
<1>6. /\ kept \subseteq Matrices /\ IsFiniteSet(kept) /\ Cardinality(kept) \in Nat
      /\ Cardinality(kept) <= HandleCap
  <2>1. /\ resident[p] \subseteq Matrices /\ IsFiniteSet(resident[p])
        /\ Cardinality(resident[p]) <= HandleCap
    BY <1>5 DEF ServiceInv, Holds
  <2>2. kept \subseteq resident[p]
    BY <1>4
  <2>3. IsFiniteSet(kept) /\ Cardinality(kept) <= Cardinality(resident[p])
    BY <2>1, <2>2, FS_Subset
  <2>4. Cardinality(kept) \in Nat /\ Cardinality(resident[p]) \in Nat
    BY <2>1, <2>3, FS_CardinalityType
  <2>5. QED BY <1>5, <2>1, <2>2, <2>3, <2>4
<1>7. Loaded \in Matrices /\ Loaded.data = Committed /\ OfItsLoad(Loaded)
  <2>1. Committed \in Vectors /\ changes \in 0..MaxChanges
    BY DEF SearchResident, Committed, Vectors, Searchable, ServiceInv, Records
  <2>2. changes \in Nat
    BY <2>1, ServiceAssumption
  <2>3. QED BY <2>1, <2>2 DEF Loaded, Matrices, OfItsLoad
<1>8. \/ \E h \in Hits(kept) : Searched(Result(h.data)) /\ resident' = [resident EXCEPT ![p] = kept]
      \/ /\ Searched(Result(Committed))
         /\ \E h \in SUBSET kept :
              /\ Cardinality(h) = Least(Cardinality(kept), HandleCap - 1)
              /\ resident' = [resident EXCEPT ![p] = h \cup {Loaded}]
  BY <1>3, <1>4 DEF SearchResident
<1>9. Requests' /\ request'.choice = request.choice /\ request'.key = request.key
  <2>1. \A h \in Hits(kept) : h.data = Committed
    BY <1>4, <1>5 DEF Hits, Loaded, ServiceInv, Holds, OfItsLoad
  <2>2. Searched(Result(Committed))
    BY <1>8, <2>1
  <2>3. QED BY <1>1, <2>2, SearchedIsFine DEF SearchResident
<1>10. Holds'
  <2>1. \E h \in SUBSET Matrices : /\ resident' = [resident EXCEPT ![p] = h]
                                   /\ \A m \in h : OfItsLoad(m)
                                   /\ IsFiniteSet(h) /\ Cardinality(h) <= HandleCap
    <3>0. \A m \in kept : OfItsLoad(m)
      BY <1>4, <1>5 DEF ServiceInv, Holds
    <3>1. CASE resident' = [resident EXCEPT ![p] = kept]
      BY <1>6, <3>0, <3>1
    <3>2. CASE \E h \in SUBSET kept :
                 /\ Cardinality(h) = Least(Cardinality(kept), HandleCap - 1)
                 /\ resident' = [resident EXCEPT ![p] = h \cup {Loaded}]
      <4>1. PICK h \in SUBSET kept :
              /\ Cardinality(h) = Least(Cardinality(kept), HandleCap - 1)
              /\ resident' = [resident EXCEPT ![p] = h \cup {Loaded}]
        BY <3>2
      <4>2. IsFiniteSet(h) /\ Cardinality(h) \in Nat
        BY <1>6, FS_Subset, FS_CardinalityType
      <4>3. PICK g : g = h \cup {Loaded}
        OBVIOUS
      <4>4. IsFiniteSet(g) /\ Cardinality(g) <= Cardinality(h) + 1
        BY <4>2, <4>3, FS_AddElement
      <4>5. Cardinality(h) + 1 <= HandleCap
        BY <1>5, <1>6, <4>1, <4>2 DEF Least
      <4>6. Cardinality(g) <= HandleCap
        BY <1>5, <4>2, <4>4, <4>5, FS_CardinalityType
      <4>7. g \in SUBSET Matrices /\ \A m \in g : OfItsLoad(m)
        BY <1>6, <1>7, <3>0, <4>3
      <4>8. QED BY <4>1, <4>3, <4>4, <4>6, <4>7
    <3>3. QED BY <1>8, <3>1, <3>2
  <2>2. PICK h \in SUBSET Matrices : /\ resident' = [resident EXCEPT ![p] = h]
                                     /\ \A m \in h : OfItsLoad(m)
                                     /\ IsFiniteSet(h) /\ Cardinality(h) <= HandleCap
    BY <2>1
  <2>3. \A m : OfItsLoad(m)' <=> OfItsLoad(m)
    BY <1>1 DEF OfItsLoad, Committed
  <2>4. QED BY <1>5, <2>2, <2>3 DEF ServiceInv, Holds
<1>11. QED BY <1>1, <1>2, <1>9, <1>10, ChoiceStays, OnlyRequestChanges

\* The candidate raises, and the reference is asked instead.
LEMMA FailsKeeps ==
  ASSUME ServiceInv, SearchFails
  PROVE  ServiceInv'
<1>1. UNCHANGED <<index, changes, background, session, resident, first, known>>
  BY DEF SearchFails, background, discovery, session
<1>2. request.key \in Keys /\ request.choice \in Providers /\ At("search")
  BY DEF SearchFails, ServiceInv, Requests, At, Choices
<1>3. cooldown' \subseteq Keys \X Providers
  BY <1>2 DEF SearchFails, Quarantine, ServiceInv, Records
<1>4. request' = [request EXCEPT !.mode = "fallback"]
  BY DEF SearchFails
<1>5. Requests'
  BY <1>1, <1>2, <1>4 DEF ServiceInv, Requests, At, OneGeneration, ServesCommittedVectors, Steps
<1>6. request'.choice = request.choice /\ request'.key = request.key
  BY <1>4 DEF ServiceInv, Requests
<1>7. QED BY <1>1, <1>3, <1>5, <1>6, HoldsStill, ChoiceStays, OnlyRequestChanges

\* An execution ends.
LEMMA EndKeeps ==
  ASSUME ServiceInv, PlanRaises \/ SearchRaises \/ ExploreNothing
  PROVE  ServiceInv'
<1>1. UNCHANGED <<index, changes, background, session, cooldown, resident>> /\ request' = NoRequest
  BY DEF PlanRaises, SearchRaises, ExploreNothing, Raise
<1>2. cooldown' \subseteq Keys \X Providers
  BY <1>1 DEF ServiceInv, Records
<1>3. QED BY <1>1, <1>2, RestingIsFine, HoldsStill, OnlyRequestChanges

\* What is pinned for the key of a request may become the reference, or be dropped.
LEMMA UnpinKeeps ==
  ASSUME ServiceInv, UNCHANGED <<index, changes, background, cooldown, anchors, first, resident>>,
         pinned' \in Seq(Pins),
         \A i \in DOMAIN pinned' :
           \/ pinned'[i].value = Reference /\ pinned'[i].name.known = known
           \/ \E j \in DOMAIN pinned : pinned'[i] = pinned[j],
         Requests', request'.choice = Reference
  PROVE  ServiceInv'
<1>1. UNCHANGED <<known, cursor, done, accepted, shadow, tasks>>
  BY DEF background, discovery
<1>2. \A i \in DOMAIN pinned' : pinned'[i].name.known \subseteq known
  BY DEF ServiceInv, Remembers
<1>3. ASSUME NEW i \in DOMAIN pinned', NEW j \in DOMAIN anchors, pinned'[i].value # Reference,
             pinned'[i].name.known = known, anchors[j].name = Anchor(pinned'[i].name)
      PROVE  anchors[j].value.choice = pinned'[i].value
  BY <1>3 DEF ServiceInv, Remembers
<1>4. Remembers'
  BY <1>1, <1>2, <1>3 DEF ServiceInv, Remembers
<1>5. SessionChoiceStable'
  BY DEF SessionChoiceStable
<1>6. QED BY <1>1, <1>4, <1>5 DEF ServiceInv, Records, Explores, Holds, OfItsLoad, Committed, PreemptionIsNoFailure

\* The reference has answered; the choice is undone.
LEMMA FallenKeeps ==
  ASSUME ServiceInv, FallenBack
  PROVE  ServiceInv'
<1>1. UNCHANGED <<index, changes, background, cooldown, anchors, first, resident, known>>
  BY DEF FallenBack, background, discovery
<1>2. /\ request.step = "fallen-back" /\ request.key \in Keys /\ request.key.known = known
      /\ Reference \in Choices
  BY DEF FallenBack, At, ServiceInv, Requests, Choices
<1>3. PICK t : t = Put(pinned, request.key, Reference)
  OBVIOUS
<1>4. pinned \in Seq(Pins)
  BY DEF ServiceInv, Remembers
<1>5. /\ t \in Seq(Pins)
      /\ \A i \in DOMAIN t : \/ t[i] = [name |-> request.key, value |-> Reference]
                             \/ i \in DOMAIN pinned /\ t[i] = pinned[i]
  BY <1>2, <1>3, <1>4, PutEntries
<1>6. pinned' = t /\ request' = [request EXCEPT !.choice = Reference, !.step = "plan"]
  BY <1>3 DEF FallenBack
<1>7. \A i \in DOMAIN pinned' : \/ pinned'[i].value = Reference /\ pinned'[i].name.known = known
                               \/ \E j \in DOMAIN pinned : pinned'[i] = pinned[j]
  BY <1>2, <1>5, <1>6
<1>8. request.mode = "fallback"
  BY DEF FallenBack, ServiceInv, Requests
<1>9. Requests'
  BY <1>1, <1>2, <1>6, <1>8
     DEF ServiceInv, Requests, At, OneGeneration, ServesCommittedVectors, Steps
<1>10. request'.choice = Reference
  BY <1>6 DEF ServiceInv, Requests
<1>11. QED BY <1>1, <1>5, <1>6, <1>7, <1>9, <1>10, UnpinKeeps

\* Source and placement are compared, ...
LEMMA ValidationKeeps ==
  ASSUME ServiceInv, ValidateGeneration \/ ValidatePlacement \/ Replanned
  PROVE  ServiceInv'
<1>1. UNCHANGED <<index, changes, background, session, cooldown, resident, first, known>>
  BY DEF ValidateGeneration, ValidatePlacement, Replanned, background, discovery, session
<1>2. cooldown' \subseteq Keys \X Providers
  BY <1>1 DEF ServiceInv, Records
<1>3. CASE request' = NoRequest
  BY <1>1, <1>2, <1>3, RestingIsFine, HoldsStill, OnlyRequestChanges
<1>4. CASE \E s \in {"validate-placement", "replan", "explore"} :
             Goto(s) /\ (s = "explore" => Consistent)
  <2>1. PICK s \in {"validate-placement", "replan", "explore"} :
             Goto(s) /\ (s = "explore" => Consistent)
    BY <1>4
  <2>2. /\ request.step \in {"validate", "validate-placement"}
        /\ request' = [request EXCEPT !.step = s]
    BY <2>1 DEF Goto, ValidateGeneration, ValidatePlacement, Replanned, At
  <2>3. Requests'
    BY <1>1, <2>1, <2>2
       DEF ServiceInv, Requests, At, OneGeneration, ServesCommittedVectors, Consistent, Steps
  <2>4. request'.choice = request.choice /\ request'.key = request.key
    BY <2>2 DEF ServiceInv, Requests
  <2>5. QED BY <1>1, <1>2, <2>3, <2>4, HoldsStill, ChoiceStays, OnlyRequestChanges
<1>5. QED BY <1>3, <1>4 DEF ValidateGeneration, ValidatePlacement, Replanned

\* ... and if they changed everything is done once more.
LEMMA ReplanKeeps ==
  ASSUME ServiceInv, Replan
  PROVE  ServiceInv'
<1>1. UNCHANGED <<index, changes, background, cooldown, anchors, first, resident, known>>
  BY DEF Replan, background, discovery
<1>2. PICK t : t = Without(pinned, request.key)
  OBVIOUS
<1>3. pinned \in Seq(Pins)
  BY DEF ServiceInv, Remembers
<1>4. t \in Seq(Pins) /\ \A i \in DOMAIN t : \E j \in DOMAIN pinned : t[i] = pinned[j]
  BY <1>2, <1>3, WithoutEntries
<1>5. /\ pinned' = t
      /\ request' = [request EXCEPT !.gen = index.gen, !.choice = Reference, !.results = << >>,
                                    !.mode = "replan", !.step = "placement"]
  BY <1>2 DEF Replan
<1>6. Len(<< >>) = 0 /\ DOMAIN << >> = {} /\ Batch \in Nat /\ 0 <= Batch /\ << >> \in Seq(Answers)
  BY ServiceAssumption, EmptySeq
<1>7. ~At("idle") /\ index.gen \in Gens /\ Reference \in Choices
  BY DEF Replan, At, ServiceInv, Records, Choices
<1>8. Requests'
  BY <1>1, <1>5, <1>6, <1>7
     DEF ServiceInv, Requests, At, OneGeneration, ServesCommittedVectors, Steps
<1>9. request'.choice = Reference
  BY <1>5 DEF ServiceInv, Requests
<1>10. QED BY <1>1, <1>4, <1>5, <1>8, <1>9, UnpinKeeps

\* A task of the explorer begins as the execution ends.
LEMMA ExploreKeeps ==
  ASSUME ServiceInv, Explore
  PROVE  ServiceInv'
<1>1. UNCHANGED <<index, changes, known, cursor, done, accepted, cooldown, pinned, anchors, first,
                  resident>> /\ request' = NoRequest /\ tasks' = tasks + 1
  BY DEF Explore, discovery, session
<1>2. request.key \in Keys
  BY DEF Explore, At, ServiceInv, Requests
<1>3. PICK t \in TasksFor(request.key) : shadow' = [NoTask EXCEPT !.step = "start", !.task = t]
  BY DEF Explore
<1>4. t \in Tasks
  <2>1. CASE t = <<"discover">>
    BY <2>1 DEF Tasks
  <2>2. CASE \E p \in known : t = <<"replay", request.key, p>>
    <3>1. PICK p \in known : t = <<"replay", request.key, p>>
      BY <2>2
    <3>2. p \in Providers
      BY DEF ServiceInv, Records
    <3>3. QED BY <1>2, <3>1, <3>2 DEF Tasks
  <2>3. QED BY <1>3, <2>1, <2>2 DEF TasksFor
<1>5. tasks \in Nat /\ tasks' \in 0..MaxTasks
  BY <1>1, ServiceAssumption DEF Explore, ServiceInv, Records
<1>6. Explores'
  <2>1. shadow' = [step |-> "start", task |-> t, preempted |-> FALSE, killed |-> FALSE,
                   foreground |-> FALSE]
    BY <1>3 DEF NoTask
  <2>2. cursor' \in 2..2 + tasks
    BY <1>1 DEF ServiceInv, Explores
  <2>3. QED BY <1>1, <1>4, <1>5, <2>1, <2>2 DEF Explores, ShadowSteps, PreemptionIsNoFailure
<1>7. Records' /\ Holds' /\ Remembers'
  BY <1>1, <1>5 DEF ServiceInv, Records, Holds, OfItsLoad, Committed, Remembers
<1>8. QED BY <1>1, <1>6, <1>7, RestingIsFine DEF ServiceInv

-----------------------------------------------------------------------------
(* The explorer                                                            *)

\* The explorer's thread and its child go on.
LEMMA ChildKeeps ==
  ASSUME ServiceInv, Launch \/ ChildEnds \/ Preempt \/ Kill \/ Defer
  PROVE  ServiceInv'
<1>1. UNCHANGED <<index, changes, known, cursor, done, accepted, tasks, cooldown, pinned, anchors,
                  first, request, resident>>
  BY DEF Launch, ChildEnds, Preempt, Kill, Defer, ShadowOnly, discovery, session
<1>2. Explores'
  BY <1>1 DEF ServiceInv, Explores, ShadowSteps, PreemptionIsNoFailure, Launch, ChildEnds,
              Preempt, Kill, Defer, Shadow
<1>3. Records' /\ Holds' /\ Remembers'
  BY <1>1 DEF ServiceInv, Records, Holds, OfItsLoad, Committed, Remembers
<1>4. Requests' /\ SessionChoiceStable'
  BY <1>1 DEF ServiceInv, Requests, At, OneGeneration, ServesCommittedVectors, SessionChoiceStable
<1>5. QED BY <1>2, <1>3, <1>4 DEF ServiceInv

\* _discovered and _publish: keys of before a discovery are not those of after it.
LEMMA CallbackKeeps ==
  ASSUME ServiceInv, Discovered \/ PublishAccepted \/ PublishRejected \/ Deferred
  PROVE  ServiceInv'
<1>1. UNCHANGED <<index, changes, tasks, pinned, anchors, first, request, resident>>
      /\ shadow' = NoTask /\ At("idle")
  BY DEF Discovered, PublishAccepted, PublishRejected, Deferred, Returns, session
<1>2. shadow.step # "none" /\ shadow.task \in Tasks /\ tasks \in Nat /\ cursor \in 2..1 + tasks
  BY ServiceAssumption DEF Discovered, PublishAccepted, PublishRejected, Deferred, ServiceInv,
              Records, Explores
<1>3. shadow.task[1] # "discover" => Target \in Keys \X Providers
  BY <1>2 DEF Tasks, Target
<1>4. /\ known \subseteq known' /\ known' \subseteq Providers
      /\ cursor' \in {cursor, cursor + 1} /\ done' \in BOOLEAN
      /\ accepted' \subseteq Keys \X Providers /\ cooldown' \subseteq Keys \X Providers
  <2>1. CASE Discovered
    BY <2>1 DEF Discovered, ServiceInv, Records
  <2>2. CASE PublishAccepted \/ PublishRejected
    BY <1>3, <2>2 DEF PublishAccepted, PublishRejected, Quarantine, discovery, ServiceInv, Records
  <2>3. CASE Deferred
    BY <1>3, <2>3 DEF Deferred, Quarantine, ServiceInv, Records
  <2>4. QED BY <2>1, <2>2, <2>3
<1>5. Explores'
  BY <1>1, <1>2, <1>4 DEF Explores, NoTask, ShadowSteps, PreemptionIsNoFailure
<1>6. Records' /\ Holds'
  BY <1>1, <1>4 DEF ServiceInv, Records, Holds, OfItsLoad, Committed
<1>7. Remembers'
  <2>1. \A i \in DOMAIN pinned : /\ pinned[i].name.known \subseteq known
                                /\ pinned[i].name.known = known' => known' = known
    BY <1>4 DEF ServiceInv, Remembers
  <2>2. \A i \in DOMAIN pinned : pinned[i].name.known \subseteq known'
    <3>1. ASSUME NEW i \in DOMAIN pinned PROVE pinned[i].name.known \subseteq known'
      <4>1. pinned[i].name.known \subseteq known
        BY DEF ServiceInv, Remembers
      <4>2. QED BY <1>4, <4>1
    <3>2. QED BY <3>1
  <2>3. ASSUME NEW i \in DOMAIN pinned, NEW j \in DOMAIN anchors, pinned[i].value # Reference,
               pinned[i].name.known = known', anchors[j].name = Anchor(pinned[i].name)
        PROVE  anchors[j].value.choice = pinned[i].value
    BY <2>1, <2>3 DEF ServiceInv, Remembers
  <2>4. QED BY <1>1, <2>2, <2>3 DEF ServiceInv, Remembers
<1>8. Requests' /\ SessionChoiceStable'
  BY <1>1 DEF ServiceInv, Requests, At, OneGeneration, ServesCommittedVectors, SessionChoiceStable
<1>9. QED BY <1>5, <1>6, <1>7, <1>8 DEF ServiceInv

\* Every step keeps it.
LEMMA ServiceKeeps == ServiceInv /\ [Next]_vars => ServiceInv'
<1>1. SUFFICES ASSUME ServiceInv, [Next]_vars PROVE ServiceInv'
  OBVIOUS
<1>2. CASE UNCHANGED vars
  <2>1. UNCHANGED <<index, changes, known, cursor, done, accepted, shadow, tasks, cooldown,
                    pinned, anchors, first, request, resident>>
    BY <1>2 DEF vars, background, discovery, session
  <2>2. Records' /\ Explores' /\ Holds' /\ Remembers'
    BY <1>1, <2>1 DEF ServiceInv, Records, Explores, Holds, OfItsLoad, Committed, Remembers,
             PreemptionIsNoFailure
  <2>3. Requests' /\ SessionChoiceStable'
    BY <1>1, <2>1
       DEF ServiceInv, Requests, At, OneGeneration, ServesCommittedVectors, SessionChoiceStable
  <2>4. QED BY <2>2, <2>3 DEF ServiceInv
<1>3. CASE Execute
  BY <1>1, <1>3, ReadKeeps, PinnedKeeps, AnchoredKeeps, FreshKeeps, PlanKeeps, ReferenceKeeps,
     ResidentKeeps, FailsKeeps, EndKeeps, FallenKeeps, ValidationKeeps, ReplanKeeps, ExploreKeeps
     DEF Execute
<1>4. CASE Background
  BY <1>1, <1>4, ChildKeeps, CallbackKeeps DEF Background
<1>5. QED BY <1>1, <1>2, <1>3, <1>4, CommitKeeps, CooldownKeeps, SessionsKeep DEF Next

\* In every behaviour whatever is pinned for a key that a request can still have is the
\* first choice for its anchor or the reference, what is resident fits and is of
\* committed vectors, and a child that was killed was preempted (service.py, indexes.py,
\* explorer.py).
THEOREM ServiceInvariance == Spec => []ServiceInv
BY ServiceBegins, ServiceKeeps, PTL DEF Spec

\* The types follow from it.
LEMMA ServiceTyped == ServiceInv => TypeOK
<1>1. SUFFICES ASSUME ServiceInv PROVE TypeOK
  OBVIOUS
<1>2. cursor \in 2..NProviders + 1 + MaxTasks
  <2>1. tasks \in 0..MaxTasks /\ cursor \in 2..2 + tasks /\ MaxTasks \in Nat /\ NProviders \in Nat \ {0}
    BY <1>1, ServiceAssumption DEF ServiceInv, Records, Explores
  <2>2. QED BY <2>1
<1>3. \A i \in DOMAIN pinned : pinned[i] \in [name : Keys, value : Choices]
  <2>1. pinned \in Seq(Pins)
    BY <1>1 DEF ServiceInv, Remembers
  <2>2. QED BY <2>1, ElementOfSeq, LenProperties DEF Pins
<1>4. \A i \in DOMAIN anchors :
        anchors[i] \in [name : Anchors, value : [key : Keys, choice : Choices]]
  <2>1. anchors \in Seq(Firsts)
    BY <1>1 DEF ServiceInv, Remembers
  <2>2. \A i \in DOMAIN anchors : anchors[i] \in Firsts
    BY <2>1, ElementOfSeq, LenProperties
  <2>3. QED BY <2>2 DEF Firsts
<1>5. QED BY <1>1, <1>2, <1>3, <1>4
          DEF ServiceInv, Records, Explores, Holds, Remembers, Requests, TypeOK

-----------------------------------------------------------------------------
(* Models: preparation, loading, calibration                               *)

\* What was named is what the source was, file by file, or has been.
Named(n) == n \in Models!Contents /\ \A f \in Files : n[f] <= files[f]

\* What was read after that is no older than that.
ReadOf(b, n) ==
  /\ DOMAIN b \subseteq Files /\ b \in [DOMAIN b -> Nat]
  /\ \A f \in DOMAIN b : n[f] <= b[f] /\ b[f] <= files[f]

\* prepare.py: a preparation that copies, stages or moves.
Converts(c) ==
  \/ c = Models!Idle
  \/ c = [pc |-> "worker", named |-> c.named] /\ Named(c.named)
  \/ /\ c = [pc |-> "copying", named |-> c.named, private |-> c.private]
     /\ Named(c.named) /\ ReadOf(c.private, c.named)
  \/ /\ \E pc \in {"staged", "moving"} : c = [pc |-> pc, named |-> c.named, derived |-> c.named]
     /\ Named(c.named) /\ (c.pc = "moving" => c.named \in DOMAIN derived)

\* What the cache has reserved was made of what its name says.
Cached ==
  /\ DOMAIN derived \subseteq Models!Contents
  /\ \A d \in DOMAIN derived :
       derived[d] = [named |-> d, files |-> derived[d].files]
         /\ derived[d].files \subseteq Files \cup {Receipt}

\* backends/__init__.py: an encoder of the source itself.
Loads ==
  \/ load = Models!Idle
  \/ /\ load = [pc |-> "reading", named |-> load.named, bytes |-> load.bytes]
     /\ Named(load.named) /\ ReadOf(load.bytes, load.named)
  \/ /\ load = [pc |-> "ready", named |-> load.named, bytes |-> load.named]
     /\ load.named \in Models!Contents

\* autotune.py: the trials that the gate let through.
Tunes ==
  \/ tune = Models!Idle
  \/ /\ \E pc \in {"reference", "trials"} :
          tune = [pc |-> pc, policy |-> tune.policy, host |-> tune.host,
                  source |-> tune.source, trials |-> tune.trials]
     /\ \A t \in tune.trials :
          /\ t.derived # Nil =>
               t.derived \in DOMAIN derived /\ derived[t.derived].named = tune.source
          /\ tune.policy # "auto-throughput" => t.strict

\* profiles.py: its candidate is in the cache.
Profiled ==
  /\ profile # Nil /\ profile.derived # Nil =>
       profile.derived \in DOMAIN derived /\ derived[profile.derived].named = profile.source
  /\ Models!ProfileOfOneSource

\* Of the source, of preparations, of the cache and of what is loaded and calibrated.
ModelInv ==
  /\ files \in [Files -> Nat] /\ edits \in 0..MaxEdits /\ host \in 0..edits
  /\ \A f \in Files : files[f] <= edits
  /\ preparations \in 0..MaxRuns
  /\ DOMAIN conv = Preparers /\ \A p \in Preparers : Converts(conv[p])
  /\ Cached /\ Loads /\ Tunes /\ Profiled
  /\ Models!SessionRunsCalibrated

\* As the models begin.
LEMMA ModelsBegin == Models!Init => ModelInv
<1>1. SUFFICES ASSUME Models!Init PROVE ModelInv
  OBVIOUS
<1>2. 0 \in 0..MaxEdits /\ 0 \in 0..MaxRuns /\ 0 \in 0..0
  BY ServicesAssumption
<1>3. DOMAIN derived = {}
  BY <1>1 DEF Models!Init
<1>4. Cached /\ Loads /\ Tunes
  BY <1>1, <1>3 DEF Models!Init, Cached, Loads, Tunes
<1>5. Profiled /\ Models!SessionRunsCalibrated
  BY <1>1 DEF Models!Init, Profiled, Models!ProfileOfOneSource, Models!SessionRunsCalibrated
<1>6. DOMAIN conv = Preparers /\ \A p \in Preparers : Converts(conv[p])
  BY <1>1 DEF Models!Init, Converts
<1>7. QED BY <1>1, <1>2, <1>4, <1>5, <1>6 DEF Models!Init, ModelInv

\* What is named now was so at least until now.
LEMMA SourceIsNamed ==
  ASSUME ModelInv PROVE Named(files)
<1>1. \A f \in Files : files[f] \in 0..MaxEdits
  BY ServicesAssumption DEF ModelInv
<1>2. QED BY <1>1 DEF ModelInv, Named, Models!Contents

\* One more file is read.
LEMMA ReadsOn ==
  ASSUME ModelInv, NEW n, Named(n), NEW b, ReadOf(b, n), NEW f \in Files,
         NEW c, c = [g \in DOMAIN b \cup {f} |-> IF g = f THEN files[f] ELSE b[g]]
  PROVE  ReadOf(c, n)
BY DEF ReadOf, Named, ModelInv

\* What was named and is there still was read.
LEMMA ReadWhatIsNamed ==
  ASSUME NEW b, ReadOf(b, files), DOMAIN b = Files, files \in [Files -> Nat]
  PROVE  b = files
<1>1. ASSUME NEW f \in Files PROVE b[f] = files[f]
  BY DEF ReadOf
<1>2. QED BY <1>1 DEF ReadOf

\* Nothing but the conversion of one preparer, and the cache, changes.
LEMMA ConversionKeeps ==
  ASSUME ModelInv, NEW p \in Preparers, NEW c,
         UNCHANGED <<files, host, edits, load, tune, profile, opened>>,
         preparations' \in 0..MaxRuns,
         conv' = [conv EXCEPT ![p] = c], Converts(c)',
         DOMAIN derived \subseteq DOMAIN derived', Cached'
  PROVE  ModelInv'
<1>1. \A d \in DOMAIN derived : d \in DOMAIN derived' /\ derived'[d].named = derived[d].named
  BY DEF ModelInv, Cached
<1>2. \A n : Named(n)' <=> Named(n)
  BY DEF Named
<1>3. \A b, n : ReadOf(b, n)' <=> ReadOf(b, n)
  BY DEF ReadOf
<1>4. ASSUME NEW q \in Preparers PROVE Converts(conv[q])'
  <2>1. CASE q = p
    <3>1. conv'[q] = c
      BY <2>1 DEF ModelInv
    <3>2. QED BY <3>1
  <2>2. CASE q # p
    <3>1. conv'[q] = conv[q] /\ Converts(conv[q])
      BY <2>2 DEF ModelInv
    <3>2. \A e : Converts(e) => Converts(e)'
      BY <1>1, <1>2, <1>3 DEF Converts
    <3>3. Converts(conv[q])'
      BY <3>1, <3>2
    <3>4. QED BY <3>3
  <2>3. QED BY <2>1, <2>2
<1>5. Loads'
  BY <1>2, <1>3 DEF ModelInv, Loads
<1>6. Tunes'
  BY <1>1 DEF ModelInv, Tunes
<1>7. Profiled'
  BY <1>1 DEF ModelInv, Profiled, Models!ProfileOfOneSource
<1>8. Models!SessionRunsCalibrated'
  BY DEF ModelInv, Models!SessionRunsCalibrated
<1>9. DOMAIN conv' = Preparers
  BY DEF ModelInv
<1>10. QED BY <1>4, <1>5, <1>6, <1>7, <1>8, <1>9 DEF ModelInv

\* A preparation names the source.
LEMMA PrepareKeeps ==
  ASSUME ModelInv, NEW p \in Preparers, Models!Prepare(p)
  PROVE  ModelInv'
<1>1. PICK c : c = [pc |-> "worker", named |-> files]
  OBVIOUS
<1>2. UNCHANGED <<files, host, edits, derived, load, tune, profile, opened>>
  BY DEF Models!Prepare
<1>3. conv' = [conv EXCEPT ![p] = c] /\ preparations' \in 0..MaxRuns
  BY <1>1, ServicesAssumption DEF Models!Prepare, ModelInv
<1>4. Converts(c)' /\ Cached'
  BY <1>1, <1>2, SourceIsNamed DEF Converts, Named, ModelInv, Cached
<1>5. QED BY <1>2, <1>3, <1>4, ConversionKeeps

\* The worker copies what was named, or nothing, ...
LEMMA CopyStartKeeps ==
  ASSUME ModelInv, NEW p \in Preparers, Models!CopyStarts(p)
  PROVE  ModelInv'
<1>1. UNCHANGED <<files, host, edits, derived, load, tune, profile, opened, preparations>>
  BY DEF Models!CopyStarts, Models!Converting
<1>2. Converts(conv[p]) /\ Cached' /\ preparations' \in 0..MaxRuns
  BY <1>1 DEF ModelInv, Cached
<1>3. PICK e : e = [pc |-> "copying", named |-> conv[p].named, private |-> << >>]
  OBVIOUS
<1>4. Named(conv[p].named)
  BY <1>2 DEF Converts, Models!CopyStarts, Models!Converting, Models!Idle
<1>5. ReadOf(<< >>, conv[p].named)
  BY DEF ReadOf
<1>6. Converts(e) /\ Converts(Models!Idle)
  BY <1>3, <1>4, <1>5 DEF Converts
<1>7. Converts(e)' /\ Converts(Models!Idle)'
  <2>1. \A x : Converts(x) => Converts(x)'
    BY <1>1 DEF Converts, Named, ReadOf
  <2>2. QED BY <1>6, <2>1
<1>8. conv' = [conv EXCEPT ![p] = e] \/ conv' = [conv EXCEPT ![p] = Models!Idle]
  BY <1>3 DEF Models!CopyStarts, ModelInv
<1>9. QED BY <1>1, <1>2, <1>7, <1>8, ConversionKeeps

\* ... file by file.
LEMMA CopyKeeps ==
  ASSUME ModelInv, NEW p \in Preparers, NEW f \in Files, Models!Copy(p, f)
  PROVE  ModelInv'
<1>1. UNCHANGED <<files, host, edits, derived, load, tune, profile, opened, preparations>>
  BY DEF Models!Copy, Models!Converting
<1>2. Converts(conv[p]) /\ Cached' /\ preparations' \in 0..MaxRuns
  BY <1>1 DEF ModelInv, Cached
<1>3. PICK b : b = [g \in DOMAIN conv[p].private \cup {f} |->
                      IF g = f THEN files[f] ELSE conv[p].private[g]]
  OBVIOUS
<1>4. PICK e : e = [pc |-> "copying", named |-> conv[p].named, private |-> b]
  OBVIOUS
<1>5. /\ conv[p] = [pc |-> "copying", named |-> conv[p].named, private |-> conv[p].private]
      /\ Named(conv[p].named) /\ ReadOf(conv[p].private, conv[p].named)
  BY <1>2 DEF Converts, Models!Copy, Models!Converting, Models!Idle
<1>6. conv' = [conv EXCEPT ![p] = e]
  <2>1. conv' = [conv EXCEPT ![p] = [conv[p] EXCEPT !.private = b]]
    BY <1>3 DEF Models!Copy
  <2>2. [conv[p] EXCEPT !.private = b] = e
    BY <1>4, <1>5
  <2>3. QED BY <2>1, <2>2
<1>7. ReadOf(b, conv[p].named)
  BY <1>3, <1>5, ReadsOn
<1>8. Converts(e)
  BY <1>4, <1>5, <1>7 DEF Converts
<1>9. Converts(e)'
  BY <1>1, <1>8 DEF Converts, Named, ReadOf
<1>10. QED BY <1>1, <1>2, <1>6, <1>9, ConversionKeeps

\* What was exported was made of what was named: the copy lies between the two looks.
LEMMA ExportKeeps ==
  ASSUME ModelInv, NEW p \in Preparers, Models!Export(p)
  PROVE  ModelInv'
<1>1. UNCHANGED <<files, host, edits, derived, load, tune, profile, opened, preparations>>
  BY DEF Models!Export, Models!Converting
<1>2. Converts(conv[p]) /\ Cached' /\ preparations' \in 0..MaxRuns
  BY <1>1 DEF ModelInv, Cached
<1>3. \A e : Converts(e) => Converts(e)'
  BY <1>1 DEF Converts, Named, ReadOf
<1>4. /\ conv[p] = [pc |-> "copying", named |-> conv[p].named, private |-> conv[p].private]
      /\ Named(conv[p].named) /\ ReadOf(conv[p].private, conv[p].named)
      /\ DOMAIN conv[p].private = Files
  BY <1>2 DEF Converts, Models!Export, Models!Converting, Models!Idle
<1>5. PICK e : e = [pc |-> "staged", named |-> conv[p].named, derived |-> conv[p].named]
  OBVIOUS
<1>6. Models!Verified(p) => conv[p].private = conv[p].named
  BY <1>4, ReadWhatIsNamed DEF Models!Verified, ModelInv
<1>7. conv' = [conv EXCEPT ![p] = e] \/ conv' = [conv EXCEPT ![p] = Models!Idle]
  BY <1>4, <1>5, <1>6 DEF Models!Export, ModelInv
<1>8. Converts(e) /\ Converts(Models!Idle)
  BY <1>4, <1>5 DEF Converts
<1>9. Converts(e)' /\ Converts(Models!Idle)'
  BY <1>3, <1>8
<1>10. QED BY <1>1, <1>2, <1>7, <1>9, ConversionKeeps

\* mkdir reserves a directory for the bytes; what another one reserved stays.
LEMMA PublishKeeps ==
  ASSUME ModelInv, NEW p \in Preparers, Models!Publish(p)
  PROVE  ModelInv'
<1>1. UNCHANGED <<files, host, edits, load, tune, profile, opened, preparations>>
  BY DEF Models!Publish, Models!Converting
<1>2. Converts(conv[p]) /\ Cached /\ preparations' \in 0..MaxRuns
  BY <1>1 DEF ModelInv
<1>3. PICK d : d = conv[p].derived
  OBVIOUS
<1>4. conv[p] = [pc |-> "staged", named |-> d, derived |-> d] /\ Named(d)
  BY <1>2, <1>3 DEF Converts, Models!Publish, Models!Converting, Models!Idle
<1>5. CASE d \in DOMAIN derived
  <2>1. derived' = derived /\ conv' = [conv EXCEPT ![p] = Models!Idle]
    BY <1>3, <1>5 DEF Models!Publish
  <2>2. Converts(Models!Idle)' /\ Cached'
    BY <1>2, <2>1 DEF Converts, Cached
  <2>3. QED BY <1>1, <1>2, <2>1, <2>2, ConversionKeeps
<1>6. CASE d \notin DOMAIN derived
  <2>1. PICK e : e = [pc |-> "moving", named |-> d, derived |-> d]
    OBVIOUS
  <2>2. derived' = [x \in DOMAIN derived \cup {d} |->
                      IF x = d THEN [named |-> d, files |-> {}] ELSE derived[x]]
    BY <1>3, <1>4, <1>6 DEF Models!Publish
  <2>3. conv' = [conv EXCEPT ![p] = e]
    <3>1. conv' = [conv EXCEPT ![p] = [conv[p] EXCEPT !.pc = "moving"]]
      BY <1>3, <1>6 DEF Models!Publish
    <3>2. [conv[p] EXCEPT !.pc = "moving"] = e
      BY <1>4, <2>1
    <3>3. QED BY <3>1, <3>2
  <2>4. Named(d)' /\ d \in DOMAIN derived'
    BY <1>1, <1>4, <2>2 DEF Named
  <2>5. Converts(e)'
    BY <2>1, <2>4 DEF Converts
  <2>6. Cached'
    BY <1>2, <1>4, <2>2 DEF Cached, Named
  <2>7. DOMAIN derived \subseteq DOMAIN derived'
    BY <2>2
  <2>8. QED BY <1>1, <1>2, <2>3, <2>5, <2>6, <2>7, ConversionKeeps
<1>7. QED BY <1>5, <1>6

\* The files follow.
LEMMA MoveKeeps ==
  ASSUME ModelInv, NEW p \in Preparers, NEW f \in Files \cup {Receipt}, Models!MoveFile(p, f)
  PROVE  ModelInv'
<1>1. UNCHANGED <<files, host, edits, load, tune, profile, opened, preparations>>
  BY DEF Models!MoveFile, Models!Converting
<1>2. Converts(conv[p]) /\ Cached /\ preparations' \in 0..MaxRuns
  BY <1>1 DEF ModelInv
<1>3. PICK d : d = conv[p].derived
  OBVIOUS
<1>4. conv[p] = [pc |-> "moving", named |-> d, derived |-> d] /\ Named(d) /\ d \in DOMAIN derived
  BY <1>2, <1>3 DEF Converts, Models!MoveFile, Models!Converting, Models!Idle
<1>5. derived' = [derived EXCEPT ![d] = [named |-> d, files |-> derived[d].files \cup {f}]]
  <2>1. derived' = [derived EXCEPT ![d] = [derived[d] EXCEPT !.files = derived[d].files \cup {f}]]
    BY <1>3 DEF Models!MoveFile
  <2>2. derived[d] = [named |-> d, files |-> derived[d].files]
    BY <1>2, <1>4 DEF Cached
  <2>3. [derived[d] EXCEPT !.files = derived[d].files \cup {f}]
          = [named |-> d, files |-> derived[d].files \cup {f}]
    BY <2>2
  <2>4. QED BY <2>1, <2>3
<1>6. Cached' /\ DOMAIN derived' = DOMAIN derived
  BY <1>2, <1>4, <1>5 DEF Cached
<1>7. \E e \in {Models!Idle, conv[p]} : conv' = [conv EXCEPT ![p] = e]
  BY DEF Models!MoveFile
<1>8. \A e : Converts(e) => Converts(e)'
  BY <1>1, <1>6 DEF Converts, Named, ReadOf
<1>9. Converts(Models!Idle)
  BY DEF Converts
<1>10. PICK e : e \in {Models!Idle, conv[p]} /\ conv' = [conv EXCEPT ![p] = e]
  BY <1>7
<1>11. Converts(e)'
  BY <1>2, <1>8, <1>9, <1>10
<1>12. QED BY <1>1, <1>2, <1>6, <1>10, <1>11, ConversionKeeps

\* A preparer dies and leaves what it has reserved.
LEMMA CrashKeeps ==
  ASSUME ModelInv, NEW p \in Preparers, Models!Crash(p)
  PROVE  ModelInv'
<1>1. UNCHANGED <<files, host, edits, derived, load, tune, profile, opened, preparations>>
  BY DEF Models!Crash
<1>2. Cached' /\ Converts(Models!Idle)' /\ preparations' \in 0..MaxRuns
  BY <1>1 DEF ModelInv, Cached, Converts
<1>3. conv' = [conv EXCEPT ![p] = Models!Idle]
  BY DEF Models!Crash
<1>4. QED BY <1>1, <1>2, <1>3, ConversionKeeps

\* An encoder of the source: the bytes lie between two looks at it.
LEMMA LoadKeeps ==
  ASSUME ModelInv,
         \/ Models!LoadStarts \/ \E f \in Files : Models!Read(f)
         \/ Models!LoadEnds \/ Models!Unload
  PROVE  ModelInv'
<1>1. UNCHANGED <<files, host, edits, conv, preparations, derived, tune, profile, opened>>
  BY DEF Models!LoadStarts, Models!Read, Models!LoadEnds, Models!Unload, Models!Loading
<1>2. Loads'
  <2>1. (\A n : Named(n)' <=> Named(n)) /\ (\A b, n : ReadOf(b, n)' <=> ReadOf(b, n))
    BY <1>1 DEF Named, ReadOf
  <2>2. CASE Models!LoadStarts
    <3>1. ReadOf(<< >>, files)
      BY DEF ReadOf
    <3>2. load' = [pc |-> "reading", named |-> files, bytes |-> << >>]
      BY <2>2 DEF Models!LoadStarts
    <3>3. QED BY <2>1, <3>1, <3>2, SourceIsNamed DEF Loads
  <2>3. CASE \E f \in Files : Models!Read(f)
    <3>1. PICK f \in Files : Models!Read(f)
      BY <2>3
    <3>2. PICK b : b = [g \in DOMAIN load.bytes \cup {f} |->
                          IF g = f THEN files[f] ELSE load.bytes[g]]
      OBVIOUS
    <3>3. /\ load = [pc |-> "reading", named |-> load.named, bytes |-> load.bytes]
          /\ Named(load.named) /\ ReadOf(load.bytes, load.named)
      BY <3>1 DEF ModelInv, Loads, Models!Read, Models!Loading, Models!Idle
    <3>4. load' = [pc |-> "reading", named |-> load.named, bytes |-> b]
      <4>1. load' = [load EXCEPT !.bytes = b]
        BY <3>1, <3>2 DEF Models!Read
      <4>2. QED BY <3>3, <4>1
    <3>5. ReadOf(b, load.named)
      BY <3>2, <3>3, ReadsOn
    <3>6. QED BY <2>1, <3>3, <3>4, <3>5 DEF Loads
  <2>4. CASE Models!LoadEnds
    <3>1. /\ load = [pc |-> "reading", named |-> load.named, bytes |-> load.bytes]
          /\ Named(load.named) /\ ReadOf(load.bytes, load.named) /\ DOMAIN load.bytes = Files
      BY <2>4 DEF ModelInv, Loads, Models!LoadEnds, Models!Loading, Models!Idle
    <3>2. CASE Models!Unchanged
      <4>1. load.bytes = load.named
        BY <3>1, <3>2, ReadWhatIsNamed DEF Models!Unchanged, ModelInv
      <4>2. load' = [load EXCEPT !.pc = "ready"]
        BY <2>4, <3>2 DEF Models!LoadEnds
      <4>3. load' = [pc |-> "ready", named |-> load.named, bytes |-> load.named]
        BY <3>1, <4>1, <4>2
      <4>4. QED BY <3>1, <4>3 DEF Loads, Named
    <3>3. CASE ~Models!Unchanged
      BY <2>4, <3>3 DEF Models!LoadEnds, Loads
    <3>4. QED BY <3>2, <3>3
  <2>5. CASE Models!Unload
    BY <2>5 DEF Models!Unload, Loads
  <2>6. QED BY <2>2, <2>3, <2>4, <2>5
<1>3. \A e : Converts(e)' <=> Converts(e)
  BY <1>1 DEF Converts, Named, ReadOf
<1>4. QED BY <1>1, <1>2, <1>3 DEF ModelInv, Cached, Tunes, Profiled, Models!ProfileOfOneSource,
              Models!SessionRunsCalibrated

\* A calibration begins, measures the reference, and tries what the gate lets through.
LEMMA TuneKeeps ==
  ASSUME ModelInv, Models!TuneStarts \/ Models!MeasureReference \/ Models!Trial
  PROVE  ModelInv'
<1>1. UNCHANGED <<files, host, edits, conv, preparations, derived, load, profile, opened>>
  BY DEF Models!TuneStarts, Models!MeasureReference, Models!Trial, Models!Tuning
<1>2. Tunes'
  <2>1. CASE Models!TuneStarts
    BY <2>1 DEF Models!TuneStarts, Tunes
  <2>2. CASE Models!MeasureReference
    <3>1. /\ tune = [pc |-> "reference", policy |-> tune.policy, host |-> tune.host,
                     source |-> tune.source, trials |-> tune.trials]
      BY <2>2 DEF ModelInv, Tunes, Models!MeasureReference, Models!Tuning, Models!Idle
    <3>2. CASE tune' = Models!Idle
      BY <3>2 DEF Tunes
    <3>3. CASE tune' = [tune EXCEPT !.pc = "trials"]
      <4>1. tune' = [pc |-> "trials", policy |-> tune.policy, host |-> tune.host,
                     source |-> tune.source, trials |-> tune.trials]
        BY <3>1, <3>3
      <4>2. tune # Models!Idle
        BY <3>1 DEF Models!Idle
      <4>3. QED BY <1>1, <4>1, <4>2 DEF ModelInv, Tunes
    <3>4. QED BY <2>2, <3>2, <3>3 DEF Models!MeasureReference
  <2>3. CASE Models!Trial
    <3>1. /\ tune = [pc |-> "trials", policy |-> tune.policy, host |-> tune.host,
                     source |-> tune.source, trials |-> tune.trials]
      BY <2>3 DEF ModelInv, Tunes, Models!Trial, Models!Tuning, Models!Idle
    <3>2. PICK e \in Models!Artifacts \cup {[source |-> files, derived |-> Nil]},
               parity \in BOOLEAN, faster \in BOOLEAN :
            /\ Models!Gate(e, parity \/ tune.policy = "auto-throughput")
            /\ tune' = [tune EXCEPT !.trials = @ \cup
                  {[derived |-> e.derived, strict |-> Models!Gate(e, parity), faster |-> faster]}]
      BY <2>3 DEF Models!Trial
    <3>3. PICK t : t = [derived |-> e.derived, strict |-> Models!Gate(e, parity), faster |-> faster]
      OBVIOUS
    <3>4. tune' = [pc |-> "trials", policy |-> tune.policy, host |-> tune.host,
                   source |-> tune.source, trials |-> tune.trials \cup {t}]
      BY <3>1, <3>2, <3>3
    <3>5. /\ t.derived # Nil =>
               t.derived \in DOMAIN derived /\ derived[t.derived].named = tune.source
          /\ tune.policy # "auto-throughput" => t.strict
      BY <3>2, <3>3 DEF Models!Gate, Models!Artifacts
    <3>6. tune # Models!Idle
      BY <3>1 DEF Models!Idle
    <3>7. \A u \in tune.trials : /\ u.derived # Nil =>
                                      /\ u.derived \in DOMAIN derived
                                      /\ derived[u.derived].named = tune.source
                                 /\ tune.policy # "auto-throughput" => u.strict
      BY <3>6 DEF ModelInv, Tunes
    <3>8. \A u \in tune.trials \cup {t} :
            /\ u.derived # Nil =>
                 u.derived \in DOMAIN derived /\ derived[u.derived].named = tune.source
            /\ tune.policy # "auto-throughput" => u.strict
      BY <3>3, <3>5, <3>7
    <3>9. QED BY <1>1, <3>4, <3>8 DEF Tunes
  <2>4. QED BY <2>1, <2>2, <2>3
<1>3. \A e : Converts(e)' <=> Converts(e)
  BY <1>1 DEF Converts, Named, ReadOf
<1>4. Loads'
  BY <1>1 DEF ModelInv, Loads, Named, ReadOf
<1>5. QED BY <1>1, <1>2, <1>3, <1>4 DEF ModelInv, Cached, Profiled, Models!ProfileOfOneSource,
              Models!SessionRunsCalibrated

\* The winner is a trial that the policy allows, or the reference.
LEMMA WinnerIsAllowed ==
  ASSUME ModelInv, Models!TuneEnds
  PROVE  Profiled'
<1>1. UNCHANGED derived
  BY DEF Models!TuneEnds, Models!Tuning
<1>2. CASE profile' = Nil
  BY <1>2 DEF Profiled, Models!ProfileOfOneSource
<1>3. CASE profile' # Nil
  <2>1. PICK w \in IF Models!Eligible = {} THEN {Nil} ELSE Models!Eligible :
          profile' = [policy |-> tune.policy, host |-> tune.host, source |-> tune.source,
                      derived |-> IF w = Nil THEN Nil ELSE w.derived,
                      strict |-> w = Nil \/ w.strict, faster |-> w # Nil /\ w.faster]
    BY <1>3 DEF Models!TuneEnds
  <2>2. w # Nil => w \in Models!Eligible
    BY <2>1
  <2>3. tune # Models!Idle
    BY DEF Models!TuneEnds, Models!Tuning, Models!Idle
  <2>4. w # Nil => /\ w.derived # Nil =>
                        w.derived \in DOMAIN derived /\ derived[w.derived].named = tune.source
                   /\ tune.policy # "auto-throughput" => w.strict /\ w.faster
    BY <2>2, <2>3 DEF Models!Eligible, ModelInv, Tunes
  <2>5. QED BY <1>1, <2>1, <2>4 DEF Profiled, Models!ProfileOfOneSource
<1>4. QED BY <1>2, <1>3

\* A profile is made, or marked.
LEMMA ProfileKeeps ==
  ASSUME ModelInv, Models!TuneEnds \/ Models!Invalidate
  PROVE  ModelInv'
<1>1. UNCHANGED <<files, host, edits, conv, preparations, derived, load, opened>>
  BY DEF Models!TuneEnds, Models!Invalidate, Models!Tuning
<1>2. Tunes' /\ Profiled'
  <2>1. CASE Models!TuneEnds
    BY <2>1, WinnerIsAllowed DEF Models!TuneEnds, Tunes
  <2>2. CASE Models!Invalidate
    BY <2>2 DEF Models!Invalidate, ModelInv, Tunes, Profiled, Models!ProfileOfOneSource
  <2>3. QED BY <2>1, <2>2
<1>3. \A e : Converts(e)' <=> Converts(e)
  BY <1>1 DEF Converts, Named, ReadOf
<1>4. Loads'
  BY <1>1 DEF ModelInv, Loads, Named, ReadOf
<1>5. QED BY <1>1, <1>2, <1>3, <1>4 DEF ModelInv, Cached, Models!SessionRunsCalibrated

\* What is opened is what the profile was calibrated for.
LEMMA OpenKeeps ==
  ASSUME ModelInv, Models!Open \/ Models!CloseSession
  PROVE  ModelInv'
<1>1. UNCHANGED <<files, host, edits, conv, preparations, derived, load, tune, profile>>
  BY DEF Models!Open, Models!CloseSession
<1>2. Models!SessionRunsCalibrated'
  <2>1. CASE Models!Open
    <3>1. PICK e \in Models!Encoders :
            /\ Models!Fresh(e)
            /\ opened' = [profile |-> profile, encoder |-> e,
                          bytes |-> IF e.derived = Nil THEN load.bytes ELSE e.derived]
      BY <2>1 DEF Models!Open
    <3>2. \/ /\ e.derived \in DOMAIN derived /\ e.derived # Nil
             /\ e.source = e.derived
          \/ load.pc = "ready" /\ e.source = load.named /\ e.derived = Nil
      BY <3>1, ServicesAssumption DEF Models!Encoders, Models!Artifacts, ModelInv, Cached
    <3>3. load.pc = "ready" => load.bytes = load.named
      BY DEF ModelInv, Loads, Models!Idle
    <3>4. QED BY <3>1, <3>2, <3>3 DEF Models!Fresh, Models!SessionRunsCalibrated
  <2>2. CASE Models!CloseSession
    BY <2>2 DEF Models!CloseSession, Models!SessionRunsCalibrated
  <2>3. QED BY <2>1, <2>2
<1>3. \A e : Converts(e)' <=> Converts(e)
  BY <1>1 DEF Converts, Named, ReadOf
<1>4. Loads'
  BY <1>1 DEF ModelInv, Loads, Named, ReadOf
<1>5. QED BY <1>1, <1>2, <1>3, <1>4 DEF ModelInv, Cached, Tunes, Profiled,
              Models!ProfileOfOneSource

\* A file becomes newer, or the host does; nothing becomes older.
LEMMA WorldKeeps ==
  ASSUME ModelInv, Models!Upgrade \/ \E f \in Files : Models!Edit(f)
  PROVE  ModelInv'
<1>1. UNCHANGED <<conv, preparations, derived, load, tune, profile, opened>>
  BY DEF Models!Upgrade, Models!Edit
<1>2. /\ edits \in Nat /\ edits' = edits + 1 /\ edits' \in 0..MaxEdits /\ host' \in 0..edits'
      /\ files' \in [Files -> Nat]
      /\ \A f \in Files : files[f] <= files'[f] /\ files'[f] <= edits'
  BY ServicesAssumption DEF Models!Upgrade, Models!Edit, ModelInv
<1>3. (\A n : Named(n) => Named(n)') /\ (\A b, n : ReadOf(b, n) => ReadOf(b, n)')
  <2>1. ASSUME NEW n, Named(n) PROVE Named(n)'
    <3>1. \A f \in Files : n[f] \in Nat /\ files[f] \in Nat /\ files'[f] \in Nat
      BY <1>2, <2>1, ServicesAssumption DEF Named, Models!Contents, ModelInv
    <3>2. QED BY <1>2, <2>1, <3>1 DEF Named
  <2>2. ASSUME NEW b, NEW n, ReadOf(b, n) PROVE ReadOf(b, n)'
    <3>1. \A f \in DOMAIN b : f \in Files /\ b[f] \in Nat /\ files[f] \in Nat /\ files'[f] \in Nat
      BY <1>2, <2>2 DEF ReadOf, ModelInv
    <3>2. QED BY <1>2, <2>2, <3>1 DEF ReadOf
  <2>3. QED BY <2>1, <2>2
<1>4. \A e : Converts(e) => Converts(e)'
  BY <1>1, <1>3 DEF Converts
<1>5. Loads'
  BY <1>1, <1>3 DEF ModelInv, Loads
<1>6. QED BY <1>1, <1>2, <1>4, <1>5 DEF ModelInv, Cached, Tunes, Profiled,
              Models!ProfileOfOneSource, Models!SessionRunsCalibrated

\* Every step keeps it.
LEMMA ModelsKeep == ModelInv /\ [Models!Next]_(Models!vars) => ModelInv'
<1>1. SUFFICES ASSUME ModelInv, [Models!Next]_(Models!vars) PROVE ModelInv'
  OBVIOUS
<1>2. CASE \E p \in Preparers : Models!Prepare(p) \/ Models!Export(p) \/ Models!Publish(p)
             \/ Models!Crash(p) \/ \E f \in Files \cup {Receipt} : Models!MoveFile(p, f)
  BY <1>1, <1>2, PrepareKeeps, ExportKeeps, PublishKeeps, CrashKeeps, MoveKeeps
<1>3. CASE \E p \in Preparers, f \in Files : Models!Copy(p, f)
  BY <1>1, <1>3, CopyKeeps
<1>4. CASE \E p \in Preparers : Models!CopyStarts(p)
  BY <1>1, <1>4, CopyStartKeeps
<1>5. CASE UNCHANGED Models!vars
  <2>1. UNCHANGED <<files, host, edits, conv, preparations, derived, load, tune, profile, opened>>
    BY <1>5 DEF Models!vars
  <2>2. (\A e : Converts(e)' <=> Converts(e)) /\ Loads'
    BY <1>1, <2>1 DEF Converts, Named, ReadOf, ModelInv, Loads
  <2>3. QED BY <1>1, <2>1, <2>2 DEF ModelInv, Cached, Tunes, Profiled,
                Models!ProfileOfOneSource, Models!SessionRunsCalibrated
<1>6. QED
  BY <1>1, <1>2, <1>3, <1>4, <1>5, LoadKeeps, TuneKeeps, ProfileKeeps, OpenKeeps, WorldKeeps
     DEF Models!Next

\* In every behaviour what was made of a source is what its name says, and what runs
\* was calibrated (prepare.py, autotune.py, profiles.py, backends/__init__.py).
THEOREM ModelInvariance == Models!Spec => []ModelInv
BY ModelsBegin, ModelsKeep, PTL DEF Models!Spec

\* What it is for.
LEMMA ModelsGenuine == ModelInv => ModelsAreGenuine /\ Models!TypeOK
<1>1. SUFFICES ASSUME ModelInv PROVE ModelsAreGenuine /\ Models!TypeOK
  OBVIOUS
<1>2. Models!EncodersAreWhatTheySay
  <2>1. load.pc = "ready" => load.bytes = load.named
    BY <1>1 DEF ModelInv, Loads, Models!Idle
  <2>2. QED BY <1>1, <2>1 DEF ModelInv, Cached, Models!EncodersAreWhatTheySay, Models!Loadable
<1>3. Models!TypeOK
  <2>1. \A p \in Preparers : conv[p].pc \in {"idle", "worker", "copying", "staged", "moving"}
    <3>1. \A e : Converts(e) => e.pc \in {"idle", "worker", "copying", "staged", "moving"}
      BY DEF Converts, Models!Idle
    <3>2. QED BY <1>1, <3>1 DEF ModelInv
  <2>2. load.pc \in {"idle", "reading", "ready"}
    BY <1>1 DEF ModelInv, Loads, Models!Idle
  <2>3. tune.pc \in {"idle", "reference", "trials"}
    BY <1>1 DEF ModelInv, Tunes, Models!Idle
  <2>4. files \in Models!Contents /\ edits \in 0..MaxEdits /\ host \in 0..MaxEdits
    BY <1>1, SourceIsNamed, ServicesAssumption DEF ModelInv, Named
  <2>5. \A d \in DOMAIN derived : /\ derived[d].named \in Models!Contents
                                  /\ derived[d].files \subseteq Files \cup {Receipt}
    BY <1>1 DEF ModelInv, Cached
  <2>6. QED BY <1>1, <2>1, <2>2, <2>3, <2>4, <2>5 DEF ModelInv, Cached, Models!TypeOK
<1>4. QED BY <1>1, <1>2, <1>3 DEF ModelInv, Profiled, ModelsAreGenuine

-----------------------------------------------------------------------------
(* Choice: measurements                                                    *)

\* Among things with numbers one has the least.
LEMMA Smallest ==
  ASSUME NEW S, S # {}, NEW f, \A x \in S : f[x] \in Nat
  PROVE  \E x \in S : \A y \in S : f[x] <= f[y]
<1> DEFINE T == {f[x] : x \in S}
           R == {ss \in Nat \X Nat : ss[1] < ss[2]}
<1>1. IsWellFoundedOn(R, Nat)
  BY NatLessThanWellFounded DEF OpToRel
<1>2. T \subseteq Nat /\ T # {}
  OBVIOUS
<1>3. PICK n \in T : \A m \in T : ~(<<m, n>> \in R)
  <2> HIDE DEF R, T
  <2>1. QED BY <1>1, <1>2, WFMin
<1>4. ASSUME NEW m \in T PROVE n <= m
  <2>1. m \in Nat /\ n \in Nat
    BY <1>2
  <2>2. m < n => <<m, n>> \in R
    BY <2>1
  <2>3. QED BY <1>3, <2>1, <2>2
<1>5. QED BY <1>3, <1>4

\* The metrics of a point.
Costs == [Choice!Metrics -> Nat \cup {Nil}]

\* The sum of those that were measured.
Known(m, x) == IF m[x] = Nil THEN 0 ELSE m[x]
Weight(m) == Known(m, "p95") + Known(m, "cpu") + Known(m, "startup") + Known(m, "transfer")

LEMMA WeightIsNatural == ASSUME NEW m \in Costs PROVE Weight(m) \in Nat
BY ChoiceAssumption DEF Costs, Weight, Known, Choice!Metrics

\* What dominates has the same metrics, and less.
LEMMA DominatorIsLess ==
  ASSUME NEW a \in Costs, NEW b \in Costs, Choice!Dominates(a, b)
  PROVE  Weight(a) < Weight(b)
<1>1. \A x \in Choice!Metrics : a[x] = Nil <=> b[x] = Nil
  BY DEF Choice!Dominates
<1>2. \A x \in Choice!Metrics : Known(a, x) \in Nat /\ Known(b, x) \in Nat
  BY ChoiceAssumption DEF Known, Costs
<1>3. \A x \in Choice!Metrics : Known(a, x) <= Known(b, x)
  BY <1>1, ChoiceAssumption DEF Choice!Dominates, Known, Costs
<1>4. \E x \in Choice!Metrics : Known(a, x) < Known(b, x)
  BY <1>1, ChoiceAssumption DEF Choice!Dominates, Known, Costs
<1>5. QED BY <1>2, <1>3, <1>4 DEF Weight, Choice!Metrics

LEMMA DominatesFurther ==
  ASSUME NEW a \in Costs, NEW b \in Costs, NEW c \in Costs,
         Choice!Dominates(a, b), Choice!Dominates(b, c)
  PROVE  Choice!Dominates(a, c)
<1> DEFINE K(m) == {x \in Choice!Metrics : m[x] # Nil}
<1>1. K(a) = K(b) /\ K(b) = K(c)
  BY DEF Choice!Dominates
<1>2. \A x \in K(a) : a[x] \in Nat /\ b[x] \in Nat /\ c[x] \in Nat
  BY <1>1 DEF Costs
<1>3. (\A x \in K(a) : a[x] <= b[x]) /\ \E x \in K(a) : a[x] < b[x]
  BY DEF Choice!Dominates
<1>4. \A x \in K(a) : b[x] <= c[x]
  BY <1>1 DEF Choice!Dominates
<1>5. (\A x \in K(a) : a[x] <= c[x]) /\ \E x \in K(a) : a[x] < c[x]
  BY <1>2, <1>3, <1>4
<1>6. QED BY <1>1, <1>5 DEF Choice!Dominates

\* Rows that may serve: with costs, and one per candidate.
Servable(E) ==
  /\ \A r \in E : r.m \in Costs /\ r.m["p95"] \in Nat /\ r.candidate \in Nat
  /\ \A r, s \in E : r.candidate = s.candidate => r = s

LEMMA FrontierOfRows ==
  ASSUME NEW E, \A r \in E : r.m \in Costs, NEW r \in E \ Choice!Frontier(E)
  PROVE  \E s \in Choice!Frontier(E) : Choice!Dominates(s.m, r.m)
<1> DEFINE D == {s \in E : Choice!Dominates(s.m, r.m)}
           f == [s \in D |-> Weight(s.m)]
<1>1. D # {}
  BY DEF Choice!Frontier
<1>2. \A s \in D : f[s] \in Nat
  BY WeightIsNatural
<1>3. PICK s \in D : \A t \in D : f[s] <= f[t]
  <2> HIDE DEF D, f
  <2>1. QED BY <1>1, <1>2, Smallest
<1>4. ASSUME NEW t \in E, Choice!Dominates(t.m, s.m) PROVE FALSE
  <2>1. Choice!Dominates(t.m, r.m)
    BY <1>4, DominatesFurther
  <2>2. Weight(t.m) < Weight(s.m)
    BY <1>4, DominatorIsLess
  <2>3. Weight(s.m) <= Weight(t.m)
    BY <1>3, <2>1
  <2>4. Weight(t.m) \in Nat /\ Weight(s.m) \in Nat
    BY <1>2, WeightIsNatural
  <2>5. QED BY <2>2, <2>3, <2>4
<1>5. s \in Choice!Frontier(E)
  BY <1>4 DEF Choice!Frontier
<1>6. QED BY <1>5

\* A point is better than every other.
LEMMA BestOfPoints ==
  ASSUME NEW P, P # {}, Servable(P), \A r \in P : Choice!Finish(r) # Nil
  PROVE  \E r \in P : \A s \in P \ {r} : Choice!Better(r, s)
<1> DEFINE fin == [r \in P |-> Choice!Finish(r)]
           cpu == [r \in P |-> Choice!Cpu(r)]
           no == [r \in P |-> r.candidate]
<1>1. \A r \in P : fin[r] \in Nat /\ cpu[r] \in Nat /\ no[r] \in Nat
  <2> TAKE r \in P
  <2>1. r.m["p95"] \in Nat /\ r.m["startup"] \in Nat \cup {Nil}
        /\ r.m["cpu"] \in Nat \cup {Nil}
    BY DEF Servable, Costs, Choice!Metrics
  <2>2. QED BY <2>1 DEF Choice!Finish, Choice!Cpu, Servable
<1> DEFINE P1 == {r \in P : \A s \in P : fin[r] <= fin[s]}
           P2 == {r \in P1 : \A s \in P1 : cpu[r] <= cpu[s]}
<1>2. \A r, s \in P : no[r] = no[s] => r = s
  BY DEF Servable
<1>3. \A r, s \in P : Choice!Better(r, s) <=>
        \/ fin[r] < fin[s]
        \/ fin[r] = fin[s] /\ cpu[r] < cpu[s]
        \/ fin[r] = fin[s] /\ cpu[r] = cpu[s] /\ no[r] < no[s]
  BY DEF Choice!Better
<1> HIDE DEF fin, cpu, no
<1>4. P1 # {} /\ P1 \subseteq P
  BY <1>1, Smallest
<1>5. P2 # {} /\ P2 \subseteq P1
  <2> HIDE DEF P1
  <2>1. QED BY <1>1, <1>4, Smallest
<1>6. PICK r \in P2 : \A s \in P2 : no[r] <= no[s]
  <2> HIDE DEF P1, P2
  <2>1. QED BY <1>1, <1>4, <1>5, Smallest
<1>7. ASSUME NEW s \in P, s # r PROVE Choice!Better(r, s)
  <2>1. r \in P1 /\ r \in P
    BY <1>4, <1>5
  <2>2. CASE s \in P2
    BY <1>1, <1>2, <1>3, <1>6, <1>7, <2>1, <2>2
  <2>3. CASE s \in P1 \ P2
    BY <1>1, <1>3, <2>1, <2>3
  <2>4. CASE s \in P \ P1
    BY <1>1, <1>3, <2>1, <2>4
  <2>5. QED BY <2>2, <2>3, <2>4
<1>8. QED BY <1>4, <1>5, <1>7

\* The rows of the store: one for a key and a candidate, not younger than now.
Rows == {r \in [key : ProfileKeys, candidate : Candidates, m : Costs, accepted : BOOLEAN,
                strict : BOOLEAN, validated : Nat] :
           r.m["p95"] \in Nat /\ (r.strict => r.candidate \notin Portfolio)}
OnePerPair(R) ==
  \A i, j \in DOMAIN R : R[i].key = R[j].key /\ R[i].candidate = R[j].candidate => i = j

Table(R, t) ==
  /\ R \in Seq(Rows) /\ OnePerPair(R) /\ \A i \in DOMAIN R : R[i].validated <= t

ChoiceInv ==
  /\ now \in Nat /\ Table(rows, now) /\ Len(rows) <= MaxObservations
  /\ lastSwitch \in {Nil} \cup 0..now /\ invalidated \subseteq ProfileKeys
  /\ DOMAIN quarantine = Explored
  /\ \A p \in Explored : quarantine[p] # Nil => quarantine[p].n \in 1..MaxFailures

\* The bounds are numbers.
LEMMA StoreKnown ==
  /\ Cooldown \in Nat /\ MaxAge \in Nat /\ MaxObservations \in Nat /\ MaxTime \in Nat
  /\ MaxFailures \in Nat \ {0}
BY ChoiceAssumption

\* One row is the oldest, those validated at the same time by their rowid.
LEMMA OldestRow ==
  ASSUME NEW R, NEW t \in Nat, Table(R, t), Len(R) > 0
  PROVE  \E j \in DOMAIN R : \A i \in DOMAIN R \ {j} :
           R[i].validated > R[j].validated \/ (R[i].validated = R[j].validated /\ i > j)
<1>1. DOMAIN R = 1..Len(R) /\ Len(R) \in Nat /\ \A i \in DOMAIN R : R[i] \in Rows
  BY LenProperties, ElementOfSeq DEF Table
<1> DEFINE v == [i \in DOMAIN R |-> R[i].validated]
           id == [i \in DOMAIN R |-> i]
           F == {i \in DOMAIN R : \A j \in DOMAIN R : v[i] <= v[j]}
<1>2. \A i \in DOMAIN R : v[i] \in Nat /\ id[i] \in Nat /\ id[i] = i /\ v[i] = R[i].validated
  BY <1>1 DEF Rows
<1>3. DOMAIN R # {}
  <2>1. 1 \in DOMAIN R
    BY <1>1
  <2>2. QED BY <2>1
<1> HIDE DEF v, id
<1>4. F # {} /\ F \subseteq DOMAIN R
  BY <1>2, <1>3, Smallest
<1>5. PICK j \in F : \A i \in F : id[j] <= id[i]
  <2> HIDE DEF F
  <2>1. QED BY <1>2, <1>4, Smallest
<1>6. \A i \in DOMAIN R : v[j] <= v[i]
  BY <1>5
<1>7. ASSUME NEW i \in DOMAIN R, i # j PROVE v[i] > v[j] \/ (v[i] = v[j] /\ i > j)
  <2>1. CASE i \in F
    BY <1>1, <1>2, <1>4, <1>5, <1>6, <1>7, <2>1
  <2>2. CASE i \notin F
    BY <1>2, <1>4, <1>5, <1>6, <2>2
  <2>3. QED BY <2>1, <2>2
<1>8. QED BY <1>2, <1>4, <1>5, <1>7

\* store.py: with one row more than the store keeps, the oldest goes.
LEMMA LatestKeeps ==
  ASSUME NEW R, NEW t \in Nat, Table(R, t), Len(R) <= MaxObservations + 1
  PROVE  /\ Table(Choice!Latest(R), t) /\ Len(Choice!Latest(R)) <= MaxObservations
         /\ Choice!ToSet(Choice!Latest(R)) \subseteq Choice!ToSet(R)
         /\ \A r \in Choice!ToSet(R) \ Choice!ToSet(Choice!Latest(R)) :
              \A s \in Choice!ToSet(R) : r.validated <= s.validated
<1>1. DOMAIN R = 1..Len(R) /\ Len(R) \in Nat /\ \A i \in DOMAIN R : R[i] \in Rows
  BY LenProperties, ElementOfSeq DEF Table
<1>2. CASE Len(R) <= MaxObservations
  BY <1>2 DEF Choice!Latest
<1>3. MaxObservations \in Nat /\ Len(R) \in Nat
  BY <1>1, StoreKnown
<1>4. ~(Len(R) <= MaxObservations) =>
        Len(R) = MaxObservations + 1 /\ Len(R) > 0 /\ Len(R) - 1 = MaxObservations
  BY <1>3
<1>5. CASE ~(Len(R) <= MaxObservations)
  <2> DEFINE Old(j) == \A i \in DOMAIN R \ {j} :
               R[i].validated > R[j].validated \/ (R[i].validated = R[j].validated /\ i > j)
             p == CHOOSE j \in DOMAIN R : Old(j)
             L == Choice!RemoveAt(R, p)
  <2>1. Len(R) = MaxObservations + 1
    BY <1>4, <1>5
  <2>2. p \in DOMAIN R /\ Old(p)
    <3>1. \E j \in DOMAIN R : Old(j)
      BY <1>4, <1>5, OldestRow
    <3>2. QED BY <3>1
  <2>3. Choice!Latest(R) = L
    BY <1>5 DEF Choice!Latest
  <2> HIDE DEF p
  <2>4. /\ L \in Seq(Rows) /\ Len(L) = MaxObservations
        /\ \A i \in 1..Len(R) - 1 : L[i] = R[IF i <= p - 1 THEN i ELSE i + 1]
    <3>1. L = Cut(R, p)
      BY DEF L, Choice!RemoveAt, Cut
    <3>2. R \in Seq(Rows)
      BY DEF Table
    <3>3. p \in DOMAIN R /\ Len(R) - 1 = MaxObservations
      BY <1>4, <1>5, <2>2
    <3>4. /\ Cut(R, p) \in Seq(Rows) /\ Len(Cut(R, p)) = Len(R) - 1
          /\ \A i \in 1..Len(R) - 1 : Cut(R, p)[i] = R[IF i <= p - 1 THEN i ELSE i + 1]
      BY <3>2, <3>3, Removed
    <3>5. QED BY <3>1, <3>3, <3>4
  <2> HIDE DEF L
  <2>5. DOMAIN L = 1..Len(R) - 1
    BY <2>1, <2>4, LenProperties
  <2> DEFINE at(i) == IF i <= p - 1 THEN i ELSE i + 1
  <2>6. \A i \in DOMAIN L : at(i) \in DOMAIN R /\ L[i] = R[at(i)]
    BY <1>1, <2>2, <2>4, <2>5
  <2>7. \A i, j \in DOMAIN L : at(i) = at(j) => i = j
    BY <1>1, <2>2, <2>5
  <2>8. \A i \in DOMAIN R \ {p} : \E j \in DOMAIN L : L[j] = R[i]
    <3> TAKE i \in DOMAIN R \ {p}
    <3>1. CASE i < p
      BY <1>1, <2>2, <2>4, <2>5, <3>1
    <3>2. CASE i > p
      <4>1. i - 1 \in DOMAIN L /\ at(i - 1) = i
        BY <1>1, <2>2, <2>5, <3>2
      <4>2. QED BY <2>6, <4>1
    <3>3. QED BY <1>1, <2>2, <3>1, <3>2
  <2>9. Table(L, t)
    <3>1. OnePerPair(L)
      BY <2>6, <2>7 DEF Table, OnePerPair
    <3>2. \A i \in DOMAIN L : L[i].validated <= t
      BY <2>6 DEF Table
    <3>3. QED BY <2>4, <3>1, <3>2 DEF Table
  <2>10. Choice!ToSet(L) \subseteq Choice!ToSet(R)
    BY <2>6 DEF Choice!ToSet
  <2>11. ASSUME NEW r \in Choice!ToSet(R) \ Choice!ToSet(L), NEW s \in Choice!ToSet(R)
         PROVE  r.validated <= s.validated
    <3>1. r = R[p]
      BY <2>8 DEF Choice!ToSet
    <3>2. PICK i \in DOMAIN R : s = R[i]
      BY DEF Choice!ToSet
    <3>3. R[p].validated \in Nat /\ R[i].validated \in Nat
      BY <1>1, <2>2 DEF Rows
    <3>4. QED BY <2>2, <3>1, <3>2, <3>3
  <2>12. QED BY <2>1, <2>3, <2>4, <2>9, <2>10, <2>11, <1>3
<1>6. QED BY <1>2, <1>5

\* A row with what was measured of a candidate.
Row(k, c, m, gain, semantic) ==
  [key |-> k, candidate |-> c, m |-> [x \in Choice!Metrics |-> m[x]], accepted |-> gain,
   strict |-> semantic, validated |-> now]

LEMMA RowIsOne ==
  ASSUME NEW k \in ProfileKeys, NEW c \in Candidates, NEW m \in Measured(c),
         NEW gain \in BOOLEAN, NEW semantic \in BOOLEAN, now \in Nat,
         semantic => c \notin Portfolio
  PROVE  Row(k, c, m, gain, semantic) \in Rows
<1>1. /\ m["p95"] \in Nat /\ m["cpu"] \in Nat \cup {Nil}
      /\ m["startup"] \in Nat \cup {Nil} /\ m["transfer"] \in Nat \cup {Nil}
  BY ChoiceAssumption
<1>2. [x \in Choice!Metrics |-> m[x]] \in Costs /\ "p95" \in Choice!Metrics
  BY <1>1 DEF Costs, Choice!Metrics
<1>3. QED BY <1>1, <1>2 DEF Row, Rows

\* A table with a row put in, in the place of an earlier one of its pair.
PutIn(row, R) ==
  /\ Table(R, now) /\ Len(R) <= MaxObservations + 1
  /\ row \in Choice!ToSet(R)
  /\ Choice!ToSet(R) \subseteq Choice!ToSet(rows) \cup {row}
  /\ \A r \in Choice!ToSet(rows) \ Choice!ToSet(R) :
       r.key = row.key /\ r.candidate = row.candidate

LEMMA RowsOfStore ==
  ASSUME ChoiceInv
  PROVE  /\ rows \in Seq(Rows) /\ OnePerPair(rows) /\ now \in Nat
         /\ \A i \in DOMAIN rows : rows[i] \in Rows /\ rows[i].validated <= now
         /\ DOMAIN rows = 1..Len(rows) /\ Len(rows) \in Nat
         /\ Len(rows) <= MaxObservations /\ MaxObservations \in Nat
BY StoreKnown, LenProperties, ElementOfSeq DEF ChoiceInv, Table

LEMMA RowAdded ==
  ASSUME ChoiceInv, NEW row \in Rows, row.validated = now,
         \A i \in DOMAIN rows : ~(rows[i].key = row.key /\ rows[i].candidate = row.candidate),
         NEW R \in Seq(Rows), Len(R) = Len(rows) + 1,
         \A i \in 1..Len(rows) : R[i] = rows[i], R[Len(rows) + 1] = row
  PROVE  PutIn(row, R)
<1>1. DOMAIN R = 1..Len(rows) + 1
  BY LenProperties
<1>2. /\ Len(rows) \in Nat /\ DOMAIN rows = 1..Len(rows) /\ now \in Nat
      /\ Len(rows) <= MaxObservations /\ MaxObservations \in Nat
  BY RowsOfStore
<1>3. \A i \in DOMAIN R : i \in DOMAIN rows \/ i = Len(rows) + 1
  BY <1>1, <1>2
<1>4. \A i \in DOMAIN rows : i \in DOMAIN R /\ R[i] = rows[i]
  BY <1>1, <1>2
<1>5. ASSUME NEW i \in DOMAIN R
      PROVE  (i \in DOMAIN rows /\ R[i] = rows[i]) \/ (i = Len(rows) + 1 /\ R[i] = row)
  <2>1. CASE i \in DOMAIN rows
    BY <1>4, <2>1
  <2>2. CASE i = Len(rows) + 1
    BY <2>2
  <2>3. QED BY <1>3, <2>1, <2>2
<1>6. OnePerPair(R)
  BY <1>5, RowsOfStore DEF OnePerPair
<1>7. \A i \in DOMAIN R : R[i].validated <= now
  BY <1>2, <1>5, RowsOfStore
<1>8. row \in Choice!ToSet(R)
  <2>1. Len(rows) + 1 \in DOMAIN R
    BY <1>1, <1>2
  <2>2. QED BY <2>1 DEF Choice!ToSet
<1>9. /\ Choice!ToSet(R) \subseteq Choice!ToSet(rows) \cup {row}
      /\ Choice!ToSet(rows) \subseteq Choice!ToSet(R)
  BY <1>4, <1>5 DEF Choice!ToSet
<1>10. Len(R) <= MaxObservations + 1
  BY <1>2
<1>11. QED BY <1>6, <1>7, <1>8, <1>9, <1>10 DEF PutIn, Table

LEMMA RowReplaced ==
  ASSUME ChoiceInv, NEW row \in Rows, row.validated = now, NEW j \in DOMAIN rows,
         rows[j].key = row.key, rows[j].candidate = row.candidate,
         NEW R \in Seq(Rows), Len(R) = Len(rows), R[j] = row,
         \A i \in DOMAIN rows \ {j} : R[i] = rows[i]
  PROVE  PutIn(row, R)
<1>1. DOMAIN R = DOMAIN rows
  BY RowsOfStore, LenProperties
<1>2. \A i \in DOMAIN rows : R[i].key = rows[i].key /\ R[i].candidate = rows[i].candidate
  OBVIOUS
<1>3. OnePerPair(R)
  BY <1>1, <1>2, RowsOfStore DEF OnePerPair
<1>4. ASSUME NEW i \in DOMAIN R PROVE R[i].validated <= now
  <2>1. CASE i = j
    BY <2>1, RowsOfStore
  <2>2. CASE i # j
    BY <1>1, <2>2, RowsOfStore
  <2>3. QED BY <2>1, <2>2
<1>5. Choice!ToSet(R) \subseteq Choice!ToSet(rows) \cup {row} /\ row \in Choice!ToSet(R)
  BY <1>1 DEF Choice!ToSet
<1>6. \A r \in Choice!ToSet(rows) \ Choice!ToSet(R) : r = rows[j]
  BY <1>1 DEF Choice!ToSet
<1>7. Len(R) <= MaxObservations + 1
  BY RowsOfStore
<1>8. QED BY <1>3, <1>4, <1>5, <1>6, <1>7 DEF PutIn, Table

\* service.py, store.py: a measurement that is published.
LEMMA StoredKeeps ==
  ASSUME ChoiceInv, NEW k \in ProfileKeys, NEW c \in Candidates, NEW m \in Measured(c),
         NEW gain \in BOOLEAN, NEW semantic \in BOOLEAN, semantic => c \notin Portfolio,
         NEW new, new = Choice!WithRow(k, c, m, gain, semantic)
  PROVE  /\ Table(new, now) /\ Len(new) <= MaxObservations
         /\ \A r \in Choice!ToSet(new) :
              r \in Choice!ToSet(rows) \/ (r.accepted = gain /\ r.strict = semantic)
         /\ \A r \in Choice!ToSet(rows), s \in Choice!ToSet(new) :
              (\A t \in Choice!ToSet(new) : <<t.key, t.candidate>> # <<r.key, r.candidate>>)
                => r.validated <= s.validated
<1> DEFINE row == Row(k, c, m, gain, semantic)
           old == {i \in DOMAIN rows : rows[i].key = k /\ rows[i].candidate = c}
           R == IF old = {} THEN Append(rows, row)
                ELSE Choice!ReplaceAt(rows, CHOOSE i \in old : TRUE, row)
<1>1. row \in Rows /\ row.validated = now /\ row.key = k /\ row.candidate = c
      /\ row.accepted = gain /\ row.strict = semantic
  BY RowIsOne DEF Row, ChoiceInv
<1>2. new = Choice!Latest(R)
  BY DEF Choice!WithRow, Row
<1> HIDE DEF row
<1>3. PutIn(row, R)
  <2>1. CASE old = {}
    <3>1. PICK T : T = Append(rows, row)
      OBVIOUS
    <3>2. /\ T \in Seq(Rows) /\ Len(T) = Len(rows) + 1 /\ T[Len(rows) + 1] = row
          /\ \A i \in 1..Len(rows) : T[i] = rows[i]
      BY <1>1, <3>1, RowsOfStore, AppendProperties
    <3>3. \A i \in DOMAIN rows : ~(rows[i].key = row.key /\ rows[i].candidate = row.candidate)
      BY <1>1, <2>1
    <3>4. PutIn(row, T)
      BY <1>1, <3>2, <3>3, RowAdded
    <3>5. QED BY <2>1, <3>1, <3>4
  <2>2. CASE old # {}
    <3>1. PICK j : j = CHOOSE i \in old : TRUE
      OBVIOUS
    <3>2. j \in DOMAIN rows /\ rows[j].key = row.key /\ rows[j].candidate = row.candidate
      BY <1>1, <2>2, <3>1
    <3>3. PICK T : T = [rows EXCEPT ![j] = row]
      OBVIOUS
    <3>4. /\ T \in Seq(Rows) /\ Len(T) = Len(rows) /\ T[j] = row
          /\ \A i \in DOMAIN rows \ {j} : T[i] = rows[i]
      BY <1>1, <3>2, <3>3, RowsOfStore, ExceptSeq
    <3>5. PutIn(row, T)
      BY <1>1, <3>2, <3>4, RowReplaced
    <3>6. QED BY <2>2, <3>1, <3>3, <3>5 DEF Choice!ReplaceAt
  <2>3. QED BY <2>1, <2>2
<1> HIDE DEF R
<1>4. /\ Table(R, now) /\ Len(R) <= MaxObservations + 1
      /\ row \in Choice!ToSet(R)
      /\ Choice!ToSet(R) \subseteq Choice!ToSet(rows) \cup {row}
      /\ \A r \in Choice!ToSet(rows) \ Choice!ToSet(R) : r.key = k /\ r.candidate = c
  BY <1>1, <1>3 DEF PutIn
<1>5. now \in Nat /\ Table(rows, now)
  BY DEF ChoiceInv
<1>6. /\ Table(new, now) /\ Len(new) <= MaxObservations
      /\ Choice!ToSet(new) \subseteq Choice!ToSet(R)
      /\ \A r \in Choice!ToSet(R) \ Choice!ToSet(new) :
           \A s \in Choice!ToSet(R) : r.validated <= s.validated
  BY <1>2, <1>4, <1>5, LatestKeeps
<1>7. \A r \in Choice!ToSet(rows) : r.validated \in Nat /\ r.validated <= now
  <2>1. \A i \in DOMAIN rows : rows[i] \in Rows /\ rows[i].validated <= now
    BY <1>5, ElementOfSeq DEF Table
  <2>2. QED BY <2>1 DEF Choice!ToSet, Rows
<1>8. ASSUME NEW r \in Choice!ToSet(rows), NEW s \in Choice!ToSet(new),
             \A t \in Choice!ToSet(new) : <<t.key, t.candidate>> # <<r.key, r.candidate>>
      PROVE  r.validated <= s.validated
  <2>1. r \notin Choice!ToSet(new) /\ s \in Choice!ToSet(R)
    BY <1>6, <1>8
  <2>2. CASE r \in Choice!ToSet(R)
    BY <1>6, <2>1, <2>2
  <2>3. CASE r \notin Choice!ToSet(R)
    <3>1. row \notin Choice!ToSet(new)
      BY <1>1, <1>4, <1>8, <2>3
    <3>2. row.validated <= s.validated
      BY <1>4, <1>6, <2>1, <3>1
    <3>3. s.validated \in Nat
      BY <1>1, <1>4, <1>5, <1>7, <2>1
    <3>4. QED BY <1>1, <1>5, <1>7, <3>2, <3>3
  <2>4. QED BY <2>2, <2>3
<1>9. \A r \in Choice!ToSet(new) :
        r \in Choice!ToSet(rows) \/ (r.accepted = gain /\ r.strict = semantic)
  BY <1>1, <1>4, <1>6
<1>10. QED BY <1>6, <1>8, <1>9

LEMMA ChoiceBegins == Choice!Init => ChoiceInv
<1> SUFFICES ASSUME Choice!Init PROVE ChoiceInv
  OBVIOUS
<1>1. rows = <<>> /\ rows \in Seq(Rows) /\ Len(rows) = 0 /\ DOMAIN rows = {}
  BY EmptySeq, LenProperties DEF Choice!Init
<1>2. Table(rows, now)
  BY <1>1 DEF Table, OnePerPair
<1>3. QED BY <1>1, <1>2, StoreKnown DEF ChoiceInv, Choice!Init

\* store.py: a failure that is counted.
LEMMA FailureCounted ==
  ASSUME ChoiceInv, NEW k, NEW c, Choice!MayFail(k, c),
         NEW Q, Q = quarantine \/ Q = Choice!Kept
  PROVE  /\ DOMAIN Choice!Failed(Q, k, c) = Explored
         /\ \A p \in Explored : Choice!Failed(Q, k, c)[p] # Nil
              => Choice!Failed(Q, k, c)[p].n \in 1..MaxFailures
<1>1. DOMAIN Q = Explored /\ \A p \in Explored : Q[p] = Nil \/ Q[p] = quarantine[p]
  BY DEF Choice!Kept, ChoiceInv
<1>2. <<k, c>> \in Explored
  BY ChoiceAssumption DEF Choice!MayFail
<1> DEFINE n == IF Q[<<k, c>>] = Nil THEN 1 ELSE Q[<<k, c>>].n + 1
<1>3. n \in 1..MaxFailures
  <2>1. MaxFailures \in Nat \ {0}
    BY StoreKnown
  <2>2. CASE Q[<<k, c>>] = Nil
    BY <2>1, <2>2
  <2>3. CASE Q[<<k, c>>] # Nil
    <3>1. /\ Q[<<k, c>>].n \in 1..MaxFailures
          /\ Q[<<k, c>>].n < MaxFailures
      BY <1>1, <1>2, <2>3 DEF ChoiceInv, Choice!MayFail
    <3>2. QED BY <2>1, <2>3, <3>1
  <2>4. QED BY <2>2, <2>3
<1> HIDE DEF n
<1>4. PICK u : Choice!Failed(Q, k, c) = [Q EXCEPT ![<<k, c>>] = [n |-> n, until |-> u]]
  BY DEF Choice!Failed, n
<1>5. ASSUME NEW p \in Explored, Choice!Failed(Q, k, c)[p] # Nil
      PROVE  Choice!Failed(Q, k, c)[p].n \in 1..MaxFailures
  <2>1. CASE p = <<k, c>>
    BY <1>1, <1>2, <1>3, <1>4, <2>1
  <2>2. CASE p # <<k, c>>
    BY <1>1, <1>4, <1>5, <2>2 DEF ChoiceInv
  <2>3. QED BY <2>1, <2>2
<1>6. DOMAIN Choice!Failed(Q, k, c) = Explored
  BY <1>1, <1>4
<1>7. QED BY <1>5, <1>6

\* A measurement that is published is stored with what the gate says of it.
LEMMA PublishStores ==
  ASSUME ChoiceInv, NEW k \in ProfileKeys, NEW c \in Candidates \ Portfolio, Choice!Publish(k, c)
  PROVE  /\ Table(rows', now) /\ Len(rows') <= MaxObservations
         /\ \A r \in Choice!ToSet(rows') \ Choice!ToSet(rows) :
              r.accepted => lastSwitch = Nil \/ now - lastSwitch >= Cooldown
         /\ \A r \in Choice!ToSet(rows), s \in Choice!ToSet(rows') :
              (\A t \in Choice!ToSet(rows') : <<t.key, t.candidate>> # <<r.key, r.candidate>>)
                => r.validated <= s.validated
<1>1. PICK m \in Measured(c), semantic \in BOOLEAN :
        rows' = Choice!WithRow(k, c, m, Choice!Material(m, semantic), semantic)
  BY DEF Choice!Publish
<1>2. Choice!Material(m, semantic) \in BOOLEAN
  BY DEF Choice!Material
<1>3. /\ Table(rows', now) /\ Len(rows') <= MaxObservations
      /\ \A r \in Choice!ToSet(rows') :
           r \in Choice!ToSet(rows) \/ r.accepted = Choice!Material(m, semantic)
      /\ \A r \in Choice!ToSet(rows), s \in Choice!ToSet(rows') :
           (\A t \in Choice!ToSet(rows') : <<t.key, t.candidate>> # <<r.key, r.candidate>>)
             => r.validated <= s.validated
  BY <1>1, <1>2, StoredKeeps
<1>4. Choice!Material(m, semantic) => lastSwitch = Nil \/ now - lastSwitch >= Cooldown
  BY StoreKnown DEF Choice!Material, Choice!Cooling, ChoiceInv
<1>5. QED BY <1>3, <1>4

\* models.py: so is one of a model, which no session acts on here.
LEMMA ModelStores ==
  ASSUME ChoiceInv, NEW k \in ProfileKeys, NEW c \in Candidates, Choice!PublishModel(k, c)
  PROVE  /\ Table(rows', now) /\ Len(rows') <= MaxObservations
         /\ \A r \in Choice!ToSet(rows') \ Choice!ToSet(rows) : ~r.strict
         /\ \A r \in Choice!ToSet(rows), s \in Choice!ToSet(rows') :
              (\A t \in Choice!ToSet(rows') : <<t.key, t.candidate>> # <<r.key, r.candidate>>)
                => r.validated <= s.validated
<1>1. PICK m \in Measured(c), semantic \in BOOLEAN :
        rows' = Choice!WithRow(k, c, m, Choice!Gains(m, semantic, AbsoluteMin), FALSE)
  BY DEF Choice!PublishModel
<1>2. Choice!Gains(m, semantic, AbsoluteMin) \in BOOLEAN
  BY DEF Choice!Gains
<1>3. PICK gain \in BOOLEAN, strict \in BOOLEAN :
        strict = FALSE /\ rows' = Choice!WithRow(k, c, m, gain, strict)
  BY <1>1, <1>2
<1>4. strict => c \notin Portfolio
  BY <1>3
<1>5. /\ Table(rows', now) /\ Len(rows') <= MaxObservations
      /\ \A r \in Choice!ToSet(rows') :
           r \in Choice!ToSet(rows) \/ (r.accepted = gain /\ r.strict = strict)
      /\ \A r \in Choice!ToSet(rows), s \in Choice!ToSet(rows') :
           (\A t \in Choice!ToSet(rows') : <<t.key, t.candidate>> # <<r.key, r.candidate>>)
             => r.validated <= s.validated
  BY <1>3, <1>4, StoredKeeps
<1>6. QED BY <1>3, <1>5

\* Either way a provider whose answers differ has failed.
LEMMA PublishedKeeps ==
  ASSUME ChoiceInv, NEW k, NEW c, Table(rows', now), Len(rows') <= MaxObservations,
         UNCHANGED <<now, invalidated>>, lastSwitch' \in {lastSwitch, now},
         \/ quarantine' = Choice!Kept
         \/ Choice!MayFail(k, c) /\ quarantine' = Choice!Failed(Choice!Kept, k, c)
  PROVE  ChoiceInv'
<1>1. DOMAIN quarantine' = Explored
      /\ \A p \in Explored : quarantine'[p] # Nil => quarantine'[p].n \in 1..MaxFailures
  <2>1. CASE quarantine' = Choice!Kept
    BY <2>1 DEF ChoiceInv, Choice!Kept
  <2>2. CASE Choice!MayFail(k, c) /\ quarantine' = Choice!Failed(Choice!Kept, k, c)
    BY <2>2, FailureCounted
  <2>3. QED BY <2>1, <2>2
<1>2. QED BY <1>1 DEF ChoiceInv

LEMMA ChoiceNext == ChoiceInv /\ [Choice!Next]_choicevars => ChoiceInv'
<1> SUFFICES ASSUME ChoiceInv, [Choice!Next]_choicevars PROVE ChoiceInv'
  OBVIOUS
<1>1. ASSUME NEW k \in ProfileKeys, NEW c \in Candidates \ Portfolio, Choice!Publish(k, c)
      PROVE  ChoiceInv'
  <2>1. Table(rows', now) /\ Len(rows') <= MaxObservations
    BY <1>1, PublishStores
  <2>2. /\ UNCHANGED <<now, invalidated>> /\ lastSwitch' \in {lastSwitch, now}
        /\ \/ quarantine' = Choice!Kept
           \/ Choice!MayFail(k, c) /\ quarantine' = Choice!Failed(Choice!Kept, k, c)
    BY <1>1 DEF Choice!Publish
  <2>3. QED BY <2>1, <2>2, PublishedKeeps
<1>6. ASSUME NEW k \in ProfileKeys, NEW c \in Candidates \cap Portfolio, Choice!PublishModel(k, c)
      PROVE  ChoiceInv'
  <2>1. Table(rows', now) /\ Len(rows') <= MaxObservations
    BY <1>6, ModelStores
  <2>2. /\ UNCHANGED <<now, invalidated>> /\ lastSwitch' \in {lastSwitch, now}
        /\ \/ quarantine' = Choice!Kept
           \/ Choice!MayFail(k, c) /\ quarantine' = Choice!Failed(Choice!Kept, k, c)
    BY <1>6 DEF Choice!PublishModel
  <2>3. QED BY <2>1, <2>2, PublishedKeeps
<1>2. ASSUME NEW k \in ProfileKeys, NEW c \in Candidates, Choice!Fail(k, c)
      PROVE  ChoiceInv'
  <2>1. DOMAIN quarantine' = Explored
        /\ \A p \in Explored : quarantine'[p] # Nil => quarantine'[p].n \in 1..MaxFailures
    BY <1>2, FailureCounted DEF Choice!Fail
  <2>2. QED BY <1>2, <2>1 DEF Choice!Fail, ChoiceInv
<1>3. ASSUME NEW k \in ProfileKeys, Choice!Invalidate(k) PROVE ChoiceInv'
  BY <1>3 DEF Choice!Invalidate, ChoiceInv
<1>4. CASE Choice!Tick
  <2>1. now' = now + 1 /\ now \in Nat /\ now' \in Nat /\ rows' = rows
    BY <1>4 DEF Choice!Tick, ChoiceInv
  <2>2. Table(rows, now')
    BY <2>1, RowsOfStore DEF Table, Rows
  <2>3. lastSwitch' \in {Nil} \cup 0..now'
    BY <1>4, <2>1 DEF Choice!Tick, ChoiceInv
  <2>4. QED BY <1>4, <2>1, <2>2, <2>3 DEF Choice!Tick, ChoiceInv
<1>5. CASE UNCHANGED choicevars
  BY <1>5 DEF choicevars, ChoiceInv
<1>7. QED BY <1>1, <1>2, <1>3, <1>4, <1>5, <1>6 DEF Choice!Next

LEMMA ChoiceTyped == ChoiceInv => Choice!TypeOK
<1> SUFFICES ASSUME ChoiceInv PROVE Choice!TypeOK
  OBVIOUS
<1>1. ASSUME NEW r \in Choice!ToSet(rows)
      PROVE  r.key \in ProfileKeys /\ r.candidate \in Candidates /\ r.validated \in 0..now
  <2>1. PICK i \in DOMAIN rows : r = rows[i]
    BY DEF Choice!ToSet
  <2>2. r \in Rows /\ r.validated <= now /\ now \in Nat
    BY <2>1, RowsOfStore
  <2>3. QED BY <2>2 DEF Rows
<1>2. QED BY <1>1 DEF ChoiceInv, Choice!TypeOK

\* The rows of a key that may serve.
LEMMA EligibleServe ==
  ASSUME ChoiceInv, NEW k \in ProfileKeys
  PROVE  Servable(Choice!Eligible(k))
<1>1. ASSUME NEW r \in Choice!Eligible(k) PROVE \E i \in DOMAIN rows : r = rows[i] /\ r.key = k
  BY DEF Choice!Eligible, Choice!ToSet
<1>2. \A r \in Choice!Eligible(k) :
        r.m \in Costs /\ r.m["p95"] \in Nat /\ r.candidate \in Nat
  <2>1. Candidates \subseteq Nat
    BY ChoiceAssumption
  <2>2. QED BY <1>1, <2>1, RowsOfStore DEF Rows
<1>3. ASSUME NEW r \in Choice!Eligible(k), NEW s \in Choice!Eligible(k),
             r.candidate = s.candidate
      PROVE  r = s
  <2>1. PICK i \in DOMAIN rows : r = rows[i] /\ r.key = k
    BY <1>1
  <2>2. PICK j \in DOMAIN rows : s = rows[j] /\ s.key = k
    BY <1>1
  <2>3. QED BY <1>3, <2>1, <2>2, RowsOfStore DEF OnePerPair
<1>4. QED BY <1>2, <1>3 DEF Servable

\* optimizer.py: the frontier drops a point for one that is on it.
LEMMA FrontierIsEnough == ChoiceInv => Choice!FrontierCovers
<1> SUFFICES ASSUME ChoiceInv, NEW k \in ProfileKeys,
                    NEW r \in Choice!Eligible(k) \ Choice!Frontier(Choice!Eligible(k))
             PROVE  \E s \in Choice!Frontier(Choice!Eligible(k)) : Choice!Dominates(s.m, r.m)
  BY DEF Choice!FrontierCovers
<1>1. \A s \in Choice!Eligible(k) : s.m \in Costs
  BY EligibleServe DEF Servable
<1>2. QED BY <1>1, FrontierOfRows

\* service.py: what a session settles on is a row that may serve.
LEMMA SelectionHasRow == ChoiceInv => Choice!SelectedHasEvidence
<1> SUFFICES ASSUME ChoiceInv, NEW k \in ProfileKeys, Choice!Selected(k) # Choice!ReferencePoint
             PROVE  /\ \E r \in Choice!ToSet(rows) :
                         /\ r.key = k /\ r.candidate = Choice!Selected(k) /\ r.accepted
                         /\ r.validated + MaxAge >= now
                    /\ ~\E q \in {quarantine[<<k, Choice!Selected(k)>>]} \ {Nil} : q.until > now
                    /\ k \notin invalidated /\ Choice!Selected(k) \notin Portfolio
  BY DEF Choice!SelectedHasEvidence
<1> DEFINE P == {r \in Choice!Frontier(Choice!Eligible(k)) : Choice!Finish(r) # Nil}
           best == CHOOSE r \in P : \A s \in P \ {r} : Choice!Better(r, s)
<1>1. P # {} /\ Choice!Selected(k) = best.candidate
  BY DEF Choice!Selected
<1>2. P \subseteq Choice!Eligible(k)
  BY DEF Choice!Frontier
<1>3. Servable(P)
  BY <1>2, EligibleServe DEF Servable
<1>4. best \in P
  <2>1. \E r \in P : \A s \in P \ {r} : Choice!Better(r, s)
    <3>1. \A r \in P : Choice!Finish(r) # Nil
      OBVIOUS
    <3> HIDE DEF P
    <3>2. QED BY <1>1, <1>3, <3>1, BestOfPoints
  <2>2. QED BY <2>1
<1> HIDE DEF P, best
<1>5. best \in Choice!Eligible(k)
  BY <1>2, <1>4
<1>6. /\ best \in Choice!ToSet(rows) /\ best.key = k /\ k \notin invalidated
      /\ now - best.validated <= MaxAge /\ best.accepted
      /\ ~Choice!Quarantined(k, best.candidate)
  BY <1>5 DEF Choice!Eligible, Choice!Fresh
<1>7. best.validated \in Nat /\ best.candidate \notin Portfolio
  <2>1. PICK i \in DOMAIN rows : best = rows[i]
    BY <1>6 DEF Choice!ToSet
  <2>2. best.strict
    BY <1>5 DEF Choice!Eligible
  <2>3. QED BY <2>1, <2>2, RowsOfStore DEF Rows
<1>8. now \in Nat /\ MaxAge \in Nat
  BY RowsOfStore, StoreKnown
<1>9. best.validated + MaxAge >= now
  BY <1>6, <1>7, <1>8
<1>10. QED BY <1>1, <1>6, <1>7, <1>9 DEF Choice!Quarantined

\* What a step does to the rows of the store.
LEMMA StepOfRows ==
  ASSUME ChoiceInv, [Choice!Next]_choicevars
  PROVE  \/ rows' = rows
         \/ \E k \in ProfileKeys, c \in Candidates \ Portfolio : Choice!Publish(k, c)
         \/ \E k \in ProfileKeys, c \in Candidates : Choice!PublishModel(k, c)
BY DEF Choice!Next, Choice!Fail, Choice!Invalidate, Choice!Tick, choicevars

\* The gate of the optimizer keeps two switches apart.
LEMMA SwitchesApart ==
  ASSUME ChoiceInv, [Choice!Next]_choicevars
  PROVE  Choice!Accepts => lastSwitch = Nil \/ now - lastSwitch >= Cooldown
<1>1. CASE rows' = rows
  BY <1>1 DEF Choice!Accepts
<1>2. ASSUME NEW k \in ProfileKeys, NEW c \in Candidates \ Portfolio, Choice!Publish(k, c)
      PROVE  Choice!Accepts => lastSwitch = Nil \/ now - lastSwitch >= Cooldown
  BY <1>2, PublishStores DEF Choice!Accepts
<1>3. ASSUME NEW k \in ProfileKeys, NEW c \in Candidates, Choice!PublishModel(k, c)
      PROVE  ~Choice!Accepts
  BY <1>3, ModelStores DEF Choice!Accepts
<1>4. QED BY <1>1, <1>2, <1>3, StepOfRows

\* The store gives up the oldest of its rows.
LEMMA OldestGoes ==
  ASSUME ChoiceInv, [Choice!Next]_choicevars,
         NEW r \in Choice!ToSet(rows), NEW s \in Choice!ToSet(rows'),
         \A t \in Choice!ToSet(rows') : <<t.key, t.candidate>> # <<r.key, r.candidate>>
  PROVE  r.validated <= s.validated
<1>1. rows' # rows
  OBVIOUS
<1>2. CASE \E k \in ProfileKeys, c \in Candidates \ Portfolio : Choice!Publish(k, c)
  BY <1>2, PublishStores
<1>3. CASE \E k \in ProfileKeys, c \in Candidates : Choice!PublishModel(k, c)
  BY <1>3, ModelStores
<1>4. QED BY <1>1, <1>2, <1>3, StepOfRows

\* The evidence behind the choices of sessions: the invariant of the gate, the
\* store and the frontier.
THEOREM ChoiceInvariance == Choice!Spec => []ChoiceInv
<1>1. QED BY ChoiceBegins, ChoiceNext, PTL DEF Choice!Spec, choicevars, Choice!vars

-----------------------------------------------------------------------------
(* All of them                                                             *)

\* Neither a discovery nor an observation, a failure, a fallback or the eviction of
\* what a session remembers brings another provider in for an anchor that it has
\* chosen for (service.py: _select).
THEOREM ChoicesStable == Spec => []SessionChoiceStable
<1>1. ServiceInv => SessionChoiceStable
  BY DEF ServiceInv
<1>2. QED BY <1>1, ServiceInvariance, PTL

\* Whoever commits between any two reads of an execution: a batch is of one generation
\* and answers from the committed vectors, and no candidate is blamed for a preemption
\* (service.py: _execute; indexes.py; explorer.py).
THEOREM ExecutionsServe == Apart => []ServesAsCommitted
<1>1. ServiceInv => ServesAsCommitted
  BY DEF ServiceInv, Requests, Explores, ServesAsCommitted
<1>2. QED BY <1>1, ServiceInvariance, PTL DEF Apart

\* Whoever edits, upgrades, dies or publishes twice in between: a derived model, an
\* encoder and a profile are of the bytes they name, and what runs was calibrated
\* (prepare.py, autotune.py, profiles.py, backends/__init__.py).
THEOREM ModelsStay == Apart => []ModelsAreGenuine
BY ModelsGenuine, ModelInvariance, PTL DEF Apart

\* A choice of a session was accepted for its key, lately, and has not failed since;
\* the frontier hides no point but behind a better one; two switches are a cooldown
\* apart; a full store gives up its oldest evidence.
THEOREM EvidenceStays == Apart => EvidenceCounts
<1>1. ChoiceInv => Choice!FrontierCovers /\ Choice!SelectedHasEvidence
  BY FrontierIsEnough, SelectionHasRow
<1>2. ChoiceInv /\ [Choice!Next]_choicevars =>
        [Choice!Accepts => lastSwitch = Nil \/ now - lastSwitch >= Cooldown]_choicevars
  BY SwitchesApart
<1>3. ChoiceInv /\ [Choice!Next]_choicevars =>
        [\A r \in Choice!ToSet(rows), s \in Choice!ToSet(rows') :
           (\A t \in Choice!ToSet(rows') : <<t.key, t.candidate>> # <<r.key, r.candidate>>)
             => r.validated <= s.validated]_choicevars
  BY OldestGoes
<1>4. QED BY <1>1, <1>2, <1>3, ChoiceInvariance, PTL
      DEF Apart, Choice!Spec, EvidenceCounts, Choice!AcceptedApart, Choice!EvidenceKept,
          choicevars, Choice!vars

\* The types of all three follow from their inductive invariants.
THEOREM ServicesTyped == Apart => []TypesOK
BY ServiceTyped, ModelsGenuine, ChoiceTyped, ServiceInvariance, ModelInvariance,
   ChoiceInvariance, PTL DEF Apart, TypesOK
=============================================================================
