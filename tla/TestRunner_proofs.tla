--------------------------- MODULE TestRunner_proofs ---------------------------
(* What holds of TestRunner for any suites and examples, any of them skipped, and *)
(* any number of workers: no job is done twice or left behind, the summary and    *)
(* the report account for the tests, and success is real.                         *)
EXTENDS TestRunner, Functions, FiniteSetTheorems, SequenceTheorems, TLAPS

--------------------------------------------------------------------------------
(* Queues *)

\* No test is in the queue twice.
Once(q) == \A i, j \in DOMAIN q : q[i] = q[j] /\ q[i] \in Tests => i = j

\* Behind a job with is_break there are only such jobs.
PillsLast(q) == \A i, j \in DOMAIN q : i <= j /\ q[i] = Pill => q[j] = Pill

LEMMA Appended ==
  ASSUME NEW S, NEW q \in Seq(S), NEW x \in S
  PROVE  /\ Append(q, x) \in Seq(S)
         /\ Range(Append(q, x)) = Range(q) \cup {x}
         /\ Once(q) /\ (x \notin Range(q) \/ x \notin Tests) => Once(Append(q, x))
         /\ PillsLast(q) /\ (x = Pill \/ Pill \notin Range(q)) => PillsLast(Append(q, x))
<1> DEFINE r == Append(q, x)
<1>1. /\ r \in Seq(S) /\ Len(q) \in Nat
      /\ DOMAIN q = 1..Len(q) /\ DOMAIN r = 1..Len(q) + 1
      /\ r[Len(q) + 1] = x /\ \A i \in 1..Len(q) : r[i] = q[i]
  OBVIOUS
<1> HIDE DEF r
<1>2. Range(r) = Range(q) \cup {x}
  BY <1>1 DEF Range
<1>3. Once(q) /\ (x \notin Range(q) \/ x \notin Tests) => Once(r)
  BY <1>1 DEF Range, Once
<1>4. PillsLast(q) /\ (x = Pill \/ Pill \notin Range(q)) => PillsLast(r)
  BY <1>1 DEF Range, PillsLast
<1>5. QED
  BY <1>1, <1>2, <1>3, <1>4 DEF r

LEMMA Taken ==
  ASSUME NEW S, NEW q \in Seq(S), q # <<>>
  PROVE  /\ Tail(q) \in Seq(S) /\ Head(q) \in S
         /\ Range(q) = Range(Tail(q)) \cup {Head(q)}
         /\ Once(q) => Once(Tail(q)) /\ (Head(q) \in Tests => Head(q) \notin Range(Tail(q)))
         /\ PillsLast(q) => PillsLast(Tail(q)) /\ (Head(q) = Pill => Range(Tail(q)) \subseteq {Pill})
<1> DEFINE r == Tail(q)
<1>1. /\ r \in Seq(S) /\ Head(q) \in S /\ Len(q) \in Nat \ {0}
      /\ DOMAIN q = 1..Len(q) /\ DOMAIN r = 1..Len(q) - 1
      /\ Head(q) = q[1] /\ \A i \in 1..Len(q) - 1 : r[i] = q[i + 1]
  BY HeadTailProperties, EmptySeq, LenProperties
<1> HIDE DEF r
<1>2. Range(q) = Range(r) \cup {Head(q)}
  <2>1. Range(q) \subseteq Range(r) \cup {Head(q)}
    <3> SUFFICES ASSUME NEW i \in 1..Len(q) PROVE q[i] \in Range(r) \cup {Head(q)}
      BY <1>1 DEF Range
    <3>1. CASE i = 1
      BY <1>1, <3>1
    <3>2. CASE i # 1
      <4>1. i - 1 \in 1..Len(q) - 1 /\ r[i - 1] = q[i]
        BY <1>1, <3>2
      <4>2. QED
        BY <1>1, <4>1 DEF Range
    <3>3. QED
      BY <3>1, <3>2
  <2>2. Range(r) \cup {Head(q)} \subseteq Range(q)
    BY <1>1 DEF Range
  <2>3. QED
    BY <2>1, <2>2
<1>a. \A i \in DOMAIN r : i \in Int /\ i + 1 \in DOMAIN q /\ i + 1 > 1 /\ r[i] = q[i + 1]
  BY <1>1
<1>b. 1 \in DOMAIN q /\ Head(q) = q[1]
  BY <1>1
<1>3. ASSUME Once(q)
      PROVE  Once(r) /\ (Head(q) \in Tests => Head(q) \notin Range(r))
  <2>1. Once(r)
    <3> SUFFICES ASSUME NEW i \in DOMAIN r, NEW j \in DOMAIN r, r[i] = r[j], r[i] \in Tests
                 PROVE  i = j
      BY DEF Once
    <3>1. i + 1 = j + 1
      BY <1>a, <1>3 DEF Once
    <3>2. QED
      BY <1>a, <3>1
  <2>2. ASSUME NEW i \in DOMAIN r, r[i] = q[1], q[1] \in Tests
        PROVE  FALSE
    <3>1. 1 = i + 1
      BY <1>a, <1>b, <1>3, <2>2 DEF Once
    <3>2. QED
      BY <1>a, <3>1
  <2>3. QED
    BY <1>b, <2>1, <2>2 DEF Range
<1>4. ASSUME PillsLast(q)
      PROVE  PillsLast(r) /\ (Head(q) = Pill => Range(r) \subseteq {Pill})
  <2>1. PillsLast(r)
    <3> SUFFICES ASSUME NEW i \in DOMAIN r, NEW j \in DOMAIN r, i <= j, r[i] = Pill
                 PROVE  r[j] = Pill
      BY DEF PillsLast
    <3>1. i + 1 <= j + 1
      BY <1>a
    <3>2. QED
      BY <1>a, <1>4, <3>1 DEF PillsLast
  <2>2. ASSUME NEW i \in DOMAIN r, q[1] = Pill
        PROVE  r[i] = Pill
    <3>1. 1 <= i + 1
      BY <1>a
    <3>2. QED
      BY <1>a, <1>b, <1>4, <2>2, <3>1 DEF PillsLast
  <2>3. QED
    BY <1>b, <2>1, <2>2 DEF Range
<1>5. QED
  BY <1>1, <1>2, <1>3, <1>4 DEF r

--------------------------------------------------------------------------------
(* Types *)

Entries == [test : Tests, result : Statuses \cup Files]

LEMMA StatusType ==
  ASSUME NEW t \in Tests
  PROVE  Status(t) \in Statuses
BY DEF Status, Statuses

\* What is written for a test: nothing, or one entry, which for an example, a test that
\* crashed or was skipped and a suite with a whole report of success says its status.
LEMMA EntryAdded ==
  ASSUME TypeOK, NEW t \in Tests
  PROVE  LET r == results \o Written(t) IN
         \/ r = results /\ CopiesNothing(t)
         \/ /\ r \in Seq(Entries)
            /\ DOMAIN r = 1..Len(results) + 1 /\ DOMAIN results = 1..Len(results)
            /\ Len(results) \in Nat
            /\ r[Len(results) + 1] = Entry(t) /\ Entry(t).test = t
            /\ \A i \in 1..Len(results) : r[i] = results[i]
<1> DEFINE r == results \o Written(t)
           e == Entry(t)
<1>0. results \in Seq(Entries)
  BY DEF TypeOK, Entries
<1>1. CASE CopiesNothing(t)
  BY <1>0, <1>1, ConcatEmptySeq DEF Written
<1>2. CASE ~CopiesNothing(t)
  <2>1. e \in Entries /\ e.test = t
    BY StatusType DEF Entry, Entries, TypeOK
  <2>2. <<e>> \in Seq(Entries) /\ r = results \o <<e>>
    BY <1>2, <2>1 DEF Written
  <2> HIDE DEF e, r
  <2>3. /\ r \in Seq(Entries) /\ Len(r) = Len(results) + 1 /\ Len(results) \in Nat
        /\ \A i \in 1..Len(results) + 1 : r[i] = IF i <= Len(results) THEN results[i] ELSE e
    BY <1>0, <2>2, ConcatProperties
  <2>4. DOMAIN r = 1..Len(results) + 1 /\ DOMAIN results = 1..Len(results)
    BY <1>0, <2>3
  <2>5. r[Len(results) + 1] = e /\ \A i \in 1..Len(results) : r[i] = results[i]
    BY <2>3
  <2>6. QED
    BY <2>1, <2>3, <2>4, <2>5 DEF e, r
<1>3. QED
  BY <1>1, <1>2

\* What a worker that goes on does to the two arrays.
LEMMA WorkerGoes ==
  ASSUME TypeOK, NEW w \in Workers,
         NEW next \in {"getting", "got", "running", "stopped", "raised"},
         NEW j \in Jobs \cup {None}, Goes(w, next, j)
  PROVE  /\ worker' \in [Workers -> {"getting", "got", "running", "stopped", "raised"}]
         /\ job' \in [Workers -> Jobs \cup {None}]
         /\ \A v \in Workers : worker'[v] = IF v = w THEN next ELSE worker[v]
         /\ \A v \in Workers : job'[v] = IF v = w THEN j ELSE job[v]
BY DEF Goes, TypeOK

LEMMA InitTypes == Init => TypeOK
<1> SUFFICES ASSUME Init PROVE TypeOK
  OBVIOUS
<1>1. /\ input_queue \in Seq(Jobs) /\ output_queue \in Seq(Tests)
      /\ results \in Seq([test : Tests, result : Statuses \cup Files])
  BY EmptySeq DEF Init
<1>2. /\ returncode \in [Tests -> ReturnCodes] /\ xml \in [Tests -> Files]
      /\ count \in [Statuses -> Nat]
  BY DEF Init, Files, ReturnCodes, Statuses
<1>3. /\ job \in [Workers -> Jobs \cup {None}]
      /\ worker \in [Workers -> {"getting", "got", "running", "stopped", "raised"}]
      /\ \A w \in Workers : worker[w] = "getting"
  BY DEF Init
<1>4. thread_exit \in BOOLEAN
  BY Zenon DEF Init
<1>5. QED
  BY <1>1, <1>2, <1>3, <1>4 DEF Init, TypeOK

LEMMA MainTypes ==
  ASSUME TypeOK,
         MainStep \/ ConditionRaises
  PROVE  TypeOK'
<1> USE DEF inputs, queues, jobData, summary
<1>1. ASSUME NEW t \in Tests, Dispatch(t) PROVE TypeOK'
  <2>1. input_queue' \in Seq(Jobs)
    BY <1>1, Appended DEF Dispatch, TypeOK, Jobs
  <2>2. QED
    BY <1>1, <2>1 DEF Dispatch, TypeOK
<1>2. ASSUME PutPill PROVE TypeOK'
  <2>1. input_queue' \in Seq(Jobs)
    BY <1>2, Appended DEF PutPill, TypeOK, Jobs
  <2>2. QED
    BY <1>2, <2>1 DEF PutPill, TypeOK
<1>3. ASSUME Collect PROVE TypeOK'
  <2> DEFINE t == Head(output_queue)
  <2>1. output_queue' \in Seq(Tests) /\ t \in Tests
    BY <1>3, Taken DEF Collect, TypeOK
  <2>2. results' \in Seq(Entries)
    <3>1. results \in Seq(Entries)
      BY DEF TypeOK, Entries
    <3>2. results' = results \/ results' = results \o Written(t)
      BY <1>3 DEF Collect
    <3>3. QED
      BY <2>1, <3>1, <3>2, EntryAdded
  <2>3. count' \in [Statuses -> Nat] /\ collected' \in Nat
    BY <1>3 DEF Collect, TypeOK
  <2>4. main' \in {"dispatch", "collect", "returned", "raised"}
    BY <1>3 DEF Collect, TypeOK
  <2>5. QED
    BY <1>3, <2>1, <2>2, <2>3, <2>4 DEF Collect, TypeOK, Entries
<1>4. ASSUME JoinAndReturn PROVE TypeOK'
  BY <1>4 DEF JoinAndReturn, TypeOK
<1>5. ASSUME ConditionRaises PROVE TypeOK'
  BY <1>5 DEF ConditionRaises, TypeOK
<1>6. QED
  BY <1>1, <1>2, <1>3, <1>4, <1>5 DEF MainStep

LEMMA WorkerTypes ==
  ASSUME TypeOK, NEW w \in Workers,
         WorkerStep(w) \/ WorkerRaises(w)
  PROVE  TypeOK'
<1> USE DEF inputs, queues, jobData, summary
<1>1. job[w] \in Jobs \cup {None}
  BY DEF TypeOK
<1>2. ASSUME Get(w) PROVE TypeOK'
  <2>1. input_queue' \in Seq(Jobs) /\ Head(input_queue) \in Jobs
    BY <1>2, Taken DEF Get, TypeOK
  <2>2. /\ worker' \in [Workers -> {"getting", "got", "running", "stopped", "raised"}]
        /\ job' \in [Workers -> Jobs \cup {None}]
        /\ \A v \in Workers : worker'[v] = "got" => job'[v] \in Jobs
        /\ \A v \in Workers : worker'[v] = "running" => job'[v] \in Tests \ ToSkip
    <3>1. \E j \in Jobs : Goes(w, "got", j)
      BY <1>2, <2>1 DEF Get
    <3>2. PICK j \in Jobs : Goes(w, "got", j)
      BY <3>1
    <3>3. /\ worker' \in [Workers -> {"getting", "got", "running", "stopped", "raised"}]
          /\ job' \in [Workers -> Jobs \cup {None}]
          /\ \A v \in Workers : worker'[v] = IF v = w THEN "got" ELSE worker[v]
          /\ \A v \in Workers : job'[v] = IF v = w THEN j ELSE job[v]
      BY <3>2, WorkerGoes
    <3>4. QED
      BY <3>3 DEF TypeOK
  <2>3. UNCHANGED <<main, undispatched, jobs, pills, output_queue, thread_exit, is_break,
                    returncode, xml, collected, count, results, exitCode>>
    BY <1>2 DEF Get
  <2>4. QED
    BY <2>1, <2>2, <2>3 DEF TypeOK
<1>3. ASSUME Stop(w) PROVE TypeOK'
  BY <1>3, WorkerGoes DEF Stop, TypeOK
<1>4. ASSUME Put(w), job[w] \in Tests
      PROVE  /\ output_queue' \in Seq(Tests)
             /\ worker' \in [Workers -> {"getting", "got", "running", "stopped", "raised"}]
             /\ job' \in [Workers -> Jobs \cup {None}]
             /\ \A v \in Workers : worker'[v] = "got" => job'[v] \in Jobs
             /\ \A v \in Workers : worker'[v] = "running" => job'[v] \in Tests \ ToSkip
  BY <1>4, WorkerGoes, Appended DEF Put, TypeOK
<1>5. ASSUME ReturnUnrun(w) PROVE TypeOK'
  BY <1>4, <1>5 DEF ReturnUnrun, TypeOK
<1>6. ASSUME Skip(w) PROVE TypeOK'
  BY <1>4, <1>6, TestsAssumption DEF Skip, TypeOK
<1>7. ASSUME Launch(w) PROVE TypeOK'
  <2>1. job[w] \in Tests \ ToSkip /\ job[w] \in Jobs \cup {None} /\ Goes(w, "running", job[w])
        /\ UNCHANGED <<main, inputs, queues, thread_exit, jobData, summary, exitCode>>
    BY <1>7 DEF Launch, TypeOK
  <2>2. /\ worker' \in [Workers -> {"getting", "got", "running", "stopped", "raised"}]
        /\ job' \in [Workers -> Jobs \cup {None}]
        /\ \A v \in Workers : worker'[v] = IF v = w THEN "running" ELSE worker[v]
        /\ \A v \in Workers : job'[v] = IF v = w THEN job[w] ELSE job[v]
    BY <2>1, WorkerGoes
  <2>3. QED
    BY <1>1, <2>1, <2>2 DEF TypeOK
<1>8. ASSUME Finish(w) PROVE TypeOK'
  <2>1. job[w] \in Tests
    BY <1>8 DEF Finish, TypeOK
  <2>2. \A e \in Endings(job[w]) : e[1] \in ReturnCodes /\ e[2] \in Files
    BY DEF Endings, ReturnCodes, Files
  <2>3. returncode' \in [Tests -> ReturnCodes] /\ xml' \in [Tests -> Files]
    BY <1>8, <2>1, <2>2 DEF Finish, TypeOK, ReturnCodes
  <2>4. QED
    BY <1>4, <1>8, <2>1, <2>3 DEF Finish, TypeOK
<1>9. ASSUME WorkerRaises(w) PROVE TypeOK'
  <2>1. job[w] \in Jobs \cup {None} /\ Goes(w, "raised", job[w])
        /\ UNCHANGED <<main, inputs, queues, thread_exit, jobData, summary, exitCode>>
    BY <1>9 DEF WorkerRaises, TypeOK
  <2>2. /\ worker' \in [Workers -> {"getting", "got", "running", "stopped", "raised"}]
        /\ job' \in [Workers -> Jobs \cup {None}]
        /\ \A v \in Workers : worker'[v] = IF v = w THEN "raised" ELSE worker[v]
        /\ \A v \in Workers : job'[v] = IF v = w THEN job[w] ELSE job[v]
    BY <2>1, WorkerGoes
  <2>3. QED
    BY <1>1, <2>1, <2>2 DEF TypeOK
<1>10. QED
  BY <1>2, <1>3, <1>5, <1>6, <1>7, <1>8, <1>9 DEF WorkerStep

LEMMA OtherTypes ==
  ASSUME TypeOK, sigint_hook \/ UNCHANGED vars
  PROVE  TypeOK'
<1>1. ASSUME sigint_hook PROVE TypeOK'
  BY <1>1 DEF sigint_hook, TypeOK, inputs, queues, jobData, summary
<1>2. ASSUME UNCHANGED vars PROVE TypeOK'
  BY <1>2 DEF vars, TypeOK, inputs, queues, jobData, summary
<1>3. QED
  BY <1>1, <1>2

LEMMA TypesPreserved == TypeOK /\ [Next]_vars => TypeOK'
BY MainTypes, WorkerTypes, OtherTypes DEF Next

--------------------------------------------------------------------------------
(* Where the tests are *)

\* A worker holds a job, a test at least if it has run into an exception, until it puts
\* it back.
Holding ==
  \A w \in Workers :
    /\ worker[w] \in {"getting", "stopped"} => job[w] = None
    /\ worker[w] = "raised" => job[w] \in Tests

\* The jobs with is_break come last.
PillTaken(w) == worker[w] = "stopped" \/ job[w] = Pill
Order ==
  /\ PillsLast(input_queue)
  /\ \A w \in Workers : PillTaken(w) => Range(input_queue) \subseteq {Pill}
  /\ Pill \in Range(input_queue) \/ (\E w \in Workers : PillTaken(w)) => undispatched = {}

\* Every test is in one place.
Apart ==
  /\ Once(input_queue) /\ Once(output_queue)
  /\ \A v, w \in Workers : job[v] = job[w] /\ job[v] \in Tests => v = w
  /\ \A t \in undispatched : t \notin Range(input_queue) \cup Range(job) \cup Range(output_queue)
  /\ \A t \in Tests \cap Range(input_queue) : t \notin Range(job) \cup Range(output_queue)
  /\ \A t \in Tests \cap Range(job) : t \notin Range(output_queue)

Placed == TypeOK /\ Holding /\ Order /\ Apart

\* The tests the collecting loop has seen.
Collected ==
  Tests \ (undispatched \cup Range(input_queue) \cup Range(job) \cup Range(output_queue))

LEMMA Distinct == Pill \notin Tests /\ None \notin Tests /\ None # Pill /\ None # 0
BY TestsAssumption

LEMMA HeldRange ==
  ASSUME NEW S, NEW f \in [Workers -> S]
  PROVE  Range(f) = {f[w] : w \in Workers}
BY DEF Range

LEMMA DispatchPlaced ==
  ASSUME Placed, NEW t \in Tests, Dispatch(t)
  PROVE  Placed' /\ Collected' = Collected
<1>1. /\ t \in undispatched /\ undispatched' = undispatched \ {t}
      /\ job' = job /\ worker' = worker /\ output_queue' = output_queue
  BY DEF Dispatch, MayDispatch
<1>2. TypeOK'
  BY MainTypes DEF Placed, MainStep
<1>3. t \notin Range(input_queue) /\ Pill \notin Range(input_queue)
  BY <1>1 DEF Placed, Apart, Order
<1>4. /\ Range(input_queue') = Range(input_queue) \cup {t}
      /\ Once(input_queue') /\ PillsLast(input_queue')
  BY <1>3, Appended, Distinct DEF Dispatch, Placed, TypeOK, Jobs, Apart, Order
<1>5. Holding'
  BY <1>1 DEF Placed, Holding
<1>6. Order'
  BY <1>1, <1>3, <1>4, Distinct DEF Placed, Order, PillTaken
<1>7. Apart'
  BY <1>1, <1>4 DEF Placed, Apart, TypeOK
<1>8. Collected' = Collected
  BY <1>1, <1>4 DEF Collected, Placed, TypeOK
<1>9. QED
  BY <1>2, <1>5, <1>6, <1>7, <1>8 DEF Placed

LEMMA PutPillPlaced ==
  ASSUME Placed, PutPill
  PROVE  Placed' /\ Collected' = Collected
<1>1. /\ undispatched = {} /\ undispatched' = undispatched
      /\ job' = job /\ worker' = worker /\ output_queue' = output_queue
  BY DEF PutPill, AllDispatched
<1>2. TypeOK'
  BY MainTypes DEF Placed, MainStep
<1>3. /\ Range(input_queue') = Range(input_queue) \cup {Pill}
      /\ Once(input_queue') /\ PillsLast(input_queue')
  BY Appended, Distinct DEF PutPill, Placed, TypeOK, Jobs, Apart, Order
<1>4. Holding'
  BY <1>1 DEF Placed, Holding
<1>5. Order'
  BY <1>1, <1>3 DEF Placed, Order, PillTaken
<1>6. Apart'
  BY <1>1, <1>3, Distinct DEF Placed, Apart
<1>7. Collected' = Collected
  BY <1>1, <1>3, Distinct DEF Collected
<1>8. QED
  BY <1>2, <1>4, <1>5, <1>6, <1>7 DEF Placed

LEMMA CollectPlaced ==
  ASSUME Placed, Collect
  PROVE  LET t == Head(output_queue) IN
         Placed' /\ t \in Tests \ Collected /\ Collected' = Collected \cup {t}
<1> DEFINE t == Head(output_queue)
<1>1. /\ output_queue # <<>> /\ output_queue' = Tail(output_queue)
      /\ undispatched' = undispatched /\ job' = job /\ worker' = worker
      /\ input_queue' = input_queue
  BY DEF Collect, inputs
<1>2. TypeOK'
  BY MainTypes DEF Placed, MainStep
<1>3. /\ Range(output_queue) = Range(output_queue') \cup {t} /\ t \in Tests
      /\ Once(output_queue') /\ t \notin Range(output_queue')
  BY <1>1, Taken DEF Placed, TypeOK, Apart
<1> HIDE DEF t
<1>4. Holding' /\ Order'
  BY <1>1 DEF Placed, Holding, Order, PillTaken
<1>5. Apart'
  BY <1>1, <1>3 DEF Placed, Apart
<1>6. t \notin undispatched \cup Range(input_queue) \cup Range(job)
  BY <1>3 DEF Placed, Apart
<1>7. t \in Tests \ Collected /\ Collected' = Collected \cup {t}
  BY <1>1, <1>3, <1>6 DEF Collected
<1>8. QED
  BY <1>2, <1>4, <1>5, <1>7 DEF Placed, t

LEMMA GetPlaced ==
  ASSUME Placed, NEW w \in Workers, Get(w)
  PROVE  Placed' /\ Collected' = Collected
<1> DEFINE j == Head(input_queue)
<1>1. /\ input_queue # <<>> /\ input_queue' = Tail(input_queue)
      /\ undispatched' = undispatched /\ output_queue' = output_queue
      /\ worker[w] = "getting" /\ Goes(w, "got", j)
  BY DEF Get, inputs
<1>2. TypeOK'
  BY WorkerTypes DEF Placed, WorkerStep
<1>3. /\ Range(input_queue) = Range(input_queue') \cup {j} /\ j \in Jobs
      /\ Once(input_queue') /\ (j \in Tests => j \notin Range(input_queue'))
      /\ PillsLast(input_queue') /\ (j = Pill => Range(input_queue') \subseteq {Pill})
  BY <1>1, Taken DEF Placed, TypeOK, Apart, Order
<1> HIDE DEF j
<1>4. /\ \A v \in Workers : worker'[v] = IF v = w THEN "got" ELSE worker[v]
      /\ \A v \in Workers : job'[v] = IF v = w THEN j ELSE job[v]
  BY <1>1, <1>3, WorkerGoes DEF Placed
<1>5. job[w] = None
  BY <1>1 DEF Placed, Holding
<1>6. Holding'
  BY <1>4 DEF Placed, Holding
<1>7. Order'
  BY <1>1, <1>3, <1>4 DEF Placed, Order, PillTaken
<1>8. Range(job') = {job'[v] : v \in Workers} /\ Range(job) = {job[v] : v \in Workers}
  BY <1>2, HeldRange DEF Placed, TypeOK
<1>9. \A t \in Tests : t \in Range(job') <=> t \in Range(job) \/ t = j
  BY <1>4, <1>5, <1>8, Distinct
<1>10. Apart'
  <2>1. ASSUME NEW u \in Workers, NEW v \in Workers, job'[u] = job'[v], job'[u] \in Tests
        PROVE  u = v
    <3>1. CASE u = w /\ v # w
      BY <1>3, <1>4, <1>8, <2>1, <3>1 DEF Placed, Apart
    <3>2. CASE u # w /\ v = w
      BY <1>3, <1>4, <1>8, <2>1, <3>2 DEF Placed, Apart
    <3>3. CASE u # w /\ v # w
      BY <1>4, <2>1, <3>3 DEF Placed, Apart
    <3>4. QED
      BY <3>1, <3>2, <3>3
  <2>2. QED
    BY <1>1, <1>3, <1>9, <2>1 DEF Placed, Apart, TypeOK
<1>11. Collected' = Collected
  BY <1>1, <1>3, <1>9 DEF Collected
<1>12. QED
  BY <1>2, <1>6, <1>7, <1>10, <1>11 DEF Placed

LEMMA StopPlaced ==
  ASSUME Placed, NEW w \in Workers, Stop(w)
  PROVE  Placed' /\ Collected' = Collected
<1>1. /\ UNCHANGED <<undispatched, input_queue, output_queue>>
      /\ job[w] = Pill /\ Goes(w, "stopped", None)
  BY DEF Stop, inputs, queues
<1>2. TypeOK'
  BY WorkerTypes DEF Placed, WorkerStep
<1>3. /\ \A v \in Workers : worker'[v] = IF v = w THEN "stopped" ELSE worker[v]
      /\ \A v \in Workers : job'[v] = IF v = w THEN None ELSE job[v]
  BY <1>1, WorkerGoes DEF Placed
<1>4. Holding'
  BY <1>3 DEF Placed, Holding
<1>5. Order'
  BY <1>1, <1>3, Distinct DEF Placed, Order, PillTaken
<1>6. Range(job') = {job'[v] : v \in Workers} /\ Range(job) = {job[v] : v \in Workers}
  BY <1>2, HeldRange DEF Placed, TypeOK
<1>7. \A t \in Tests : t \in Range(job') <=> t \in Range(job)
  BY <1>1, <1>3, <1>6, Distinct
<1>8. Apart'
  BY <1>1, <1>3, <1>7, Distinct DEF Placed, Apart, TypeOK
<1>9. Collected' = Collected
  BY <1>1, <1>7 DEF Collected
<1>10. QED
  BY <1>2, <1>4, <1>5, <1>8, <1>9 DEF Placed

\* The worker goes on with its job in its hands.
LEMMA KeptPlaced ==
  ASSUME Placed, TypeOK', NEW w \in Workers, NEW next \in {"running", "raised"},
         Goes(w, next, job[w]), job[w] \in Tests,
         UNCHANGED <<undispatched, input_queue, output_queue>>
  PROVE  Placed' /\ Collected' = Collected
<1>1. /\ \A v \in Workers : worker'[v] = IF v = w THEN next ELSE worker[v]
      /\ job' = job
  BY WorkerGoes DEF Placed, Goes, TypeOK
<1>2. Holding'
  BY <1>1 DEF Placed, Holding
<1>3. Order'
  BY <1>1 DEF Placed, Order, PillTaken
<1>4. Apart'
  BY <1>1 DEF Placed, Apart
<1>5. Collected' = Collected
  BY <1>1 DEF Collected
<1>6. QED
  BY <1>2, <1>3, <1>4, <1>5 DEF Placed

\* The worker puts its job back.
LEMMA PutPlaced ==
  ASSUME Placed, TypeOK', NEW w \in Workers, Put(w), job[w] \in Tests,
         UNCHANGED <<undispatched, input_queue>>
  PROVE  /\ Placed' /\ Collected' = Collected
         /\ Range(output_queue') = Range(output_queue) \cup {job[w]}
<1> DEFINE t == job[w]
<1>1. output_queue' = Append(output_queue, t) /\ Goes(w, "getting", None)
  BY DEF Put
<1>2. /\ \A v \in Workers : worker'[v] = IF v = w THEN "getting" ELSE worker[v]
      /\ \A v \in Workers : job'[v] = IF v = w THEN None ELSE job[v]
  BY <1>1, WorkerGoes DEF Placed
<1>3. Range(job') = {job'[v] : v \in Workers} /\ Range(job) = {job[v] : v \in Workers}
  BY HeldRange DEF Placed, TypeOK
<1>4. t \notin Range(output_queue) \cup Range(input_queue) \cup undispatched
  BY <1>3 DEF Placed, Apart
<1>5. Range(output_queue') = Range(output_queue) \cup {t} /\ Once(output_queue')
  BY <1>1, <1>4, Appended DEF Placed, TypeOK, Apart
<1>6. \A u \in Tests : u \in Range(job') <=> u \in Range(job) /\ u # t
  BY <1>2, <1>3, Distinct DEF Placed, Apart
<1>7. Holding'
  BY <1>2 DEF Placed, Holding
<1>8. Order'
  BY <1>2, Distinct DEF Placed, Order, PillTaken
<1>9. Apart'
  BY <1>2, <1>4, <1>5, <1>6, Distinct DEF Placed, Apart, TypeOK
<1>10. Collected' = Collected
  BY <1>3, <1>5, <1>6 DEF Collected
<1>11. QED
  BY <1>5, <1>7, <1>8, <1>9, <1>10 DEF Placed

--------------------------------------------------------------------------------
(* How many they are *)

\* Every test is put into the queue and collected once, and what is collected has run, was
\* skipped or came back unrun.
Dealt ==
  /\ main \in {"collect", "returned"} => undispatched = {}
  /\ jobs = Cardinality(Tests \ undispatched)
  /\ collected = Cardinality(Collected)
  /\ \A t \in Range(output_queue) \cup Collected :
        t \in is_break \cup ToSkip \/ returncode[t] # "False"

\* A suite that says it has succeeded has written a whole report that says so.
Truthful == \A t \in Suites : returncode[t] = "0" => xml[t] = "PASS"

\* The counters and the report say what has been collected.
With(s) == {t \in Collected \ is_break : Status(t) = s}
MustBeStated(t) == t \in Examples \/ Status(t) \in {"PASS", "CRASH", "SKIP"}
Reported ==
  /\ \A i, j \in DOMAIN results : results[i].test = results[j].test => i = j
  /\ \A i \in DOMAIN results : results[i].test \in Collected \ is_break
  /\ \A t \in Collected \ is_break : MustBeStated(t) => Stated(t)
Tallied ==
  /\ \A s \in Statuses : count[s] = Cardinality(With(s))
  /\ main # "raised" => Reported
  /\ main = "returned" => collected >= jobs
  /\ exitCode = 0 => main = "returned" /\ count["PASS"] + count["SKIP"] = jobs

IInv == Placed /\ Dealt /\ Tallied

LEMMA TestsFinite == \A S \in SUBSET Tests : IsFiniteSet(S) /\ Cardinality(S) \in Nat
<1>1. IsFiniteSet(Tests)
  BY TestsAssumption, FS_Union DEF Tests
<1>2. QED
  BY <1>1, FS_Subset, FS_CardinalityType

\* A test that a worker holds has not been put back or collected.
LEMMA HeldNotCollected ==
  ASSUME Placed, NEW w \in Workers, job[w] \in Tests
  PROVE  job[w] \notin Collected /\ job[w] \notin Range(output_queue)
<1>1. DOMAIN job = Workers
  BY DEF Placed, TypeOK
<1>2. job[w] \in Range(job)
  BY <1>1 DEF Range
<1>3. QED
  BY <1>2 DEF Collected, Placed, Apart

\* The report stays what it is for the tests that stay collected.
LEMMA ReportedStays ==
  ASSUME Reported, results' = results, Collected' \ is_break' = Collected \ is_break,
         \A t \in Collected \ is_break : Status(t)' = Status(t)
  PROVE  Reported'
<1>1. \A t \in Collected \ is_break : MustBeStated(t)' = MustBeStated(t) /\ Stated(t)' = Stated(t)
  BY DEF MustBeStated, Stated
<1>2. QED
  BY <1>1 DEF Reported

\* A step that collects nothing, and leaves alone what has been collected.
LEMMA TallyStays ==
  ASSUME Tallied, Collected' = Collected, UNCHANGED <<count, results, exitCode, collected>>,
         main # "raised" \/ main' = "raised",
         main' = "returned" <=> main = "returned",
         main = "returned" => jobs' = jobs,
         \A t \in Collected : (t \in is_break' <=> t \in is_break) /\ returncode'[t] = returncode[t]
  PROVE  Tallied'
<1>1. \A t \in Collected : Status(t)' = Status(t)
  BY DEF Status
<1>2. Collected' \ is_break' = Collected \ is_break
  OBVIOUS
<1>3. ASSUME NEW s PROVE With(s)' = With(s)
  BY <1>1, <1>2 DEF With
<1>4. \A s \in Statuses : count'[s] = Cardinality(With(s)')
  BY <1>3 DEF Tallied
<1>5. Reported => Reported'
  BY <1>1, <1>2, ReportedStays
<1>6. QED
  BY <1>2, <1>4, <1>5 DEF Tallied

LEMMA InitInv == Init => IInv
<1> SUFFICES ASSUME Init PROVE IInv
  OBVIOUS
<1>1. TypeOK
  BY InitTypes
<1>2. /\ Range(input_queue) = {} /\ Range(output_queue) = {} /\ DOMAIN results = {}
      /\ DOMAIN input_queue = {} /\ DOMAIN output_queue = {} /\ Len(results) = 0
  BY DEF Init, Range
<1>3. Range(job) \subseteq {None} /\ \A w \in Workers : job[w] = None /\ worker[w] = "getting"
  BY DEF Init, Range
<1>4. Collected = {}
  BY DEF Collected, Init
<1>5. Cardinality({}) = 0
  BY FS_EmptySet
<1>6. Placed
  BY <1>1, <1>2, <1>3, Distinct DEF Placed, Holding, Order, PillTaken, Apart, PillsLast, Once, Init
<1>7. Dealt
  <2>1. Tests \ undispatched = {}
    BY DEF Init
  <2>2. QED
    BY <1>2, <1>4, <1>5, <2>1 DEF Dealt, Init
<1>8. Tallied
  <2>1. \A s \in Statuses : With(s) = {} /\ count[s] = 0
    BY <1>4 DEF With, Init
  <2>2. Reported
    BY <1>2, <1>4 DEF Reported
  <2>3. exitCode # 0
    BY Distinct DEF Init
  <2>4. QED
    BY <1>2, <1>5, <2>1, <2>2, <2>3 DEF Tallied, Init
<1>9. QED
  BY <1>6, <1>7, <1>8 DEF IInv

LEMMA DispatchInv ==
  ASSUME IInv, NEW t \in Tests, Dispatch(t)
  PROVE  IInv'
<1>1. Placed' /\ Collected' = Collected
  BY DispatchPlaced DEF IInv
<1>2. /\ main = "dispatch" /\ main' = main /\ t \in undispatched
      /\ undispatched' = undispatched \ {t} /\ jobs' = jobs + 1
      /\ UNCHANGED <<count, results, exitCode, collected, is_break, returncode, output_queue>>
  BY DEF Dispatch, MayDispatch, jobData, summary
<1>3. Tallied'
  BY <1>1, <1>2, TallyStays DEF IInv
<1>4. jobs' = Cardinality(Tests \ undispatched')
  <2>1. Tests \ undispatched' = (Tests \ undispatched) \cup {t}
    BY <1>2 DEF IInv, Placed, TypeOK
  <2>2. Cardinality(Tests \ undispatched') = Cardinality(Tests \ undispatched) + 1
    BY <1>2, <2>1, TestsFinite, FS_AddElement
  <2>3. QED
    BY <1>2, <2>2 DEF IInv, Dealt
<1>5. Dealt'
  BY <1>1, <1>2, <1>4 DEF IInv, Dealt
<1>6. QED
  BY <1>1, <1>3, <1>5 DEF IInv

\* The other steps of the main thread that collect nothing.
LEMMA PutPillInv ==
  ASSUME IInv, PutPill
  PROVE  IInv'
<1>1. Placed' /\ Collected' = Collected
  BY PutPillPlaced DEF IInv
<1>2. /\ main = "dispatch" /\ main' \in {"dispatch", "collect"} /\ undispatched = {}
      /\ UNCHANGED <<undispatched, jobs, count, results, exitCode, collected, is_break,
                     returncode, output_queue>>
  BY DEF PutPill, AllDispatched, jobData, summary
<1>3. Tallied'
  BY <1>1, <1>2, TallyStays DEF IInv
<1>4. Dealt'
  BY <1>1, <1>2 DEF IInv, Dealt
<1>5. QED
  BY <1>1, <1>3, <1>4 DEF IInv

\* A step that moves nothing.
LEMMA StillPlaced ==
  ASSUME Placed, TypeOK',
         UNCHANGED <<undispatched, input_queue, output_queue, worker, job>>
  PROVE  Placed' /\ Collected' = Collected
<1>1. Holding' /\ Order' /\ Apart'
  BY DEF Placed, Holding, Order, PillTaken, Apart
<1>2. QED
  BY <1>1 DEF Placed, Collected

LEMMA StillInv ==
  ASSUME IInv,
         ConditionRaises \/ sigint_hook \/ UNCHANGED vars
  PROVE  IInv'
<1>1. TypeOK'
  BY MainTypes, OtherTypes DEF IInv, Placed
<1>2. /\ UNCHANGED <<undispatched, input_queue, output_queue, worker, job>>
      /\ UNCHANGED <<jobs, count, results, exitCode, collected, is_break, returncode>>
      /\ main' = main \/ (main = "dispatch" /\ main' = "raised")
  BY DEF ConditionRaises, sigint_hook, vars, inputs, queues, jobData, summary
<1>3. Placed' /\ Collected' = Collected
  BY <1>1, <1>2, StillPlaced DEF IInv
<1>4. Tallied'
  BY <1>2, <1>3, TallyStays DEF IInv
<1>5. Dealt'
  BY <1>2, <1>3 DEF IInv, Dealt
<1>6. QED
  BY <1>3, <1>4, <1>5 DEF IInv

LEMMA ReturnInv ==
  ASSUME IInv, JoinAndReturn
  PROVE  IInv'
<1>1. TypeOK'
  BY MainTypes DEF IInv, Placed, MainStep
<1>2. /\ UNCHANGED <<undispatched, input_queue, output_queue, worker, job>>
      /\ UNCHANGED <<jobs, count, results, collected, is_break, returncode>>
      /\ main = "collect" /\ main' = "returned" /\ ~(collected < jobs)
      /\ exitCode' = IF count["PASS"] + count["SKIP"] = jobs THEN 0 ELSE 1
  BY DEF JoinAndReturn, MoreJobs, inputs, queues, jobData, summary
<1>3. Placed' /\ Collected' = Collected
  BY <1>1, <1>2, StillPlaced DEF IInv
<1>4. Dealt'
  BY <1>2, <1>3 DEF IInv, Dealt
<1>5. Tallied'
  <2>1. \A t : Status(t)' = Status(t)
    BY <1>2 DEF Status
  <2>2. \A s : With(s)' = With(s)
    BY <1>2, <1>3, <2>1 DEF With
  <2>3. Reported => Reported'
    BY <1>2, <1>3, <2>1, ReportedStays
  <2>4. collected >= jobs
    BY <1>2 DEF IInv, Placed, TypeOK
  <2>5. QED
    BY <1>2, <1>3, <2>2, <2>3, <2>4 DEF IInv, Tallied
<1>6. QED
  BY <1>3, <1>4, <1>5 DEF IInv

\* What is copied or made up for a test that must be in the report says its status.
LEMMA SaysStatus ==
  ASSUME Truthful, NEW t \in Tests, t \in ToSkip \/ returncode[t] # "False", MustBeStated(t)
  PROVE  ~CopiesNothing(t) /\ Entry(t) = [test |-> t, result |-> Status(t)]
<1>1. CASE ~CopiesFile(t)
  BY <1>1 DEF CopiesNothing, Entry
<1>2. CASE CopiesFile(t)
  <2>1. t \in Suites \ ToSkip /\ t \notin Examples /\ Status(t) # "CRASH"
    BY <1>2, TestsAssumption DEF CopiesFile
  <2>2. Status(t) = "PASS"
    BY <2>1 DEF MustBeStated, Status
  <2>3. returncode[t] = "0"
    BY <2>1, <2>2 DEF Status
  <2>4. xml[t] = "PASS"
    BY <2>1, <2>3 DEF Truthful
  <2>5. QED
    BY <1>2, <2>2, <2>4 DEF CopiesNothing, Entry
<1>3. QED
  BY <1>1, <1>2

LEMMA CollectInv ==
  ASSUME IInv, Truthful, Collect
  PROVE  IInv'
<1> DEFINE t == Head(output_queue)
<1>1. Placed' /\ t \in Tests \ Collected /\ Collected' = Collected \cup {t}
  BY CollectPlaced DEF IInv
<1>2. t \in Range(output_queue)
  BY Taken DEF Collect, IInv, Placed, TypeOK
<1>3. /\ main = "collect" /\ main' \in {"collect", "raised"} /\ collected' = collected + 1
      /\ UNCHANGED <<undispatched, jobs, exitCode, is_break, returncode>>
      /\ output_queue # <<>> /\ output_queue' = Tail(output_queue)
      /\ \/ t \in is_break \cup {Pill} /\ UNCHANGED <<main, count, results>>
         \/ /\ t \in Tests \ is_break
            /\ count' = [count EXCEPT ![Status(t)] = @ + 1]
            /\ main' = "raised" \/ (main' = main /\ results' = results \o Written(t))
  BY DEF Collect, inputs, jobData
<1>4. Range(output_queue') \subseteq Range(output_queue)
  BY <1>3, Taken DEF IInv, Placed, TypeOK
<1> HIDE DEF t
<1>5. Dealt'
  <2>1. Collected \in SUBSET Tests
    BY DEF Collected
  <2>2. Cardinality(Collected') = Cardinality(Collected) + 1
    BY <1>1, <2>1, TestsFinite, FS_AddElement
  <2>3. collected' = Cardinality(Collected')
    BY <1>3, <2>2 DEF IInv, Dealt
  <2>4. \A u \in Range(output_queue') \cup Collected' :
           u \in is_break' \cup ToSkip \/ returncode'[u] # "False"
    BY <1>1, <1>2, <1>3, <1>4 DEF IInv, Dealt
  <2>5. QED
    BY <1>3, <2>3, <2>4 DEF IInv, Dealt
<1>6. \A u : Status(u)' = Status(u)
  BY <1>3 DEF Status
<1>7. exitCode # 0
  BY <1>3 DEF IInv, Tallied
<1>8. CASE t \in is_break \cup {Pill} /\ UNCHANGED <<main, count, results>>
  <2>1. Collected' \ is_break' = Collected \ is_break
    BY <1>1, <1>3, <1>8, Distinct
  <2>2. \A s : With(s)' = With(s)
    BY <1>6, <2>1 DEF With
  <2>3. Reported => Reported'
    BY <1>6, <1>8, <2>1, ReportedStays
  <2>4. Tallied'
    BY <1>3, <1>7, <1>8, <2>1, <2>2, <2>3 DEF IInv, Tallied
  <2>5. QED
    BY <1>1, <1>5, <2>4 DEF IInv
<1>9. CASE /\ t \in Tests \ is_break
           /\ count' = [count EXCEPT ![Status(t)] = @ + 1]
           /\ main' = "raised" \/ (main' = main /\ results' = results \o Written(t))
  <2> DEFINE kept == Collected \ is_break
  <2>1. Collected' \ is_break' = kept \cup {t} /\ t \notin kept
    BY <1>1, <1>3, <1>9
  <2>2. kept \in SUBSET Tests
    BY DEF Collected
  <2>3. Cardinality(kept \cup {t}) = Cardinality(kept) + 1
    BY <2>1, <2>2, TestsFinite, FS_AddElement
  <2>4. \A s \in Statuses : count'[s] = Cardinality(With(s)')
    <3> SUFFICES ASSUME NEW s \in Statuses PROVE count'[s] = Cardinality(With(s)')
      OBVIOUS
    <3>1. count[s] = Cardinality(With(s)) /\ count \in [Statuses -> Nat]
      BY DEF IInv, Tallied, Placed, TypeOK
    <3>2. With(s) \in SUBSET Tests /\ t \notin With(s)
      BY <1>1 DEF With, Collected
    <3>3. CASE s = Status(t)
      <4>1. With(s)' = With(s) \cup {t}
        BY <1>6, <2>1, <3>3 DEF With
      <4>2. Cardinality(With(s)') = Cardinality(With(s)) + 1
        BY <3>2, <4>1, TestsFinite, FS_AddElement
      <4>3. QED
        BY <1>9, <3>1, <3>3, <4>2
    <3>4. CASE s # Status(t)
      <4>1. With(s)' = With(s)
        BY <1>6, <2>1, <3>4 DEF With
      <4>2. QED
        BY <1>9, <3>1, <3>4, <4>1
    <3>5. QED
      BY <3>3, <3>4
  <2>5. main' # "raised" => Reported'
    <3> SUFFICES ASSUME main' # "raised" PROVE Reported'
      OBVIOUS
    <3>1. results' = results \o Written(t) /\ Reported
      BY <1>3, <1>9 DEF IInv, Tallied
    <3>2. MustBeStated(t) => ~CopiesNothing(t) /\ Entry(t) = [test |-> t, result |-> Status(t)]
      BY <1>1, <1>2, <1>9, SaysStatus DEF IInv, Dealt
    <3>3. \A u \in kept : MustBeStated(u) => Stated(u)
      BY <3>1 DEF Reported
    <3>4. /\ \A i, j \in DOMAIN results : results[i].test = results[j].test => i = j
          /\ \A i \in DOMAIN results : results[i].test \in kept
      BY <3>1 DEF Reported
    <3>5. \A u : MustBeStated(u)' = MustBeStated(u)
      BY <1>6 DEF MustBeStated
    <3>6. CASE results' = results /\ CopiesNothing(t)
      <4>1. \A u \in kept : Stated(u)' = Stated(u)
        BY <1>6, <3>6 DEF Stated
      <4>2. QED
        BY <2>1, <3>2, <3>3, <3>4, <3>5, <3>6, <4>1 DEF Reported
    <3>7. ASSUME NEW n \in Nat,
                 DOMAIN results' = 1..n + 1, DOMAIN results = 1..n,
                 results'[n + 1] = Entry(t), Entry(t).test = t,
                 \A i \in 1..n : results'[i] = results[i]
          PROVE  Reported'
      <4>1. \A i \in 1..n + 1 : i \in 1..n \/ i = n + 1
        OBVIOUS
      <4>2. \A i, j \in 1..n + 1 : results'[i].test = results'[j].test => i = j
        BY <2>1, <3>4, <3>7, <4>1
      <4>3. \A i \in 1..n + 1 : results'[i].test \in kept \cup {t}
        BY <3>4, <3>7, <4>1
      <4>4. ASSUME NEW u \in kept \cup {t}, MustBeStated(u)
            PROVE  \E i \in 1..n + 1 : results'[i] = [test |-> u, result |-> Status(u)]
        <5>1. CASE u = t
          BY <3>2, <3>7, <4>4, <5>1
        <5>2. CASE u \in kept
          BY <3>3, <3>7, <4>4, <5>2 DEF Stated
        <5>3. QED
          BY <5>1, <5>2
      <4>5. \A u \in kept \cup {t} : MustBeStated(u)' => Stated(u)'
        BY <1>6, <3>5, <3>7, <4>4 DEF Stated
      <4>6. QED
        BY <2>1, <3>7, <4>2, <4>3, <4>5 DEF Reported
    <3>8. QED
      <4>1. PICK r : r = results'
        OBVIOUS
      <4>2. TypeOK /\ t \in Tests /\ r = results \o Written(t)
        BY <1>1, <3>1, <4>1 DEF IInv, Placed
      <4>3. \/ r = results /\ CopiesNothing(t)
            \/ /\ DOMAIN r = 1..Len(results) + 1 /\ DOMAIN results = 1..Len(results)
               /\ Len(results) \in Nat
               /\ r[Len(results) + 1] = Entry(t) /\ Entry(t).test = t
               /\ \A i \in 1..Len(results) : r[i] = results[i]
        BY <4>2, EntryAdded
      <4>4. QED
        BY <3>6, <3>7, <4>1, <4>3
  <2>6. Tallied'
    BY <1>3, <1>7, <2>4, <2>5 DEF Tallied
  <2>7. QED
    BY <1>1, <1>5, <2>6 DEF IInv
<1>10. QED
  BY <1>3, <1>8, <1>9

\* A worker that puts nothing back.
LEMMA MoveInv ==
  ASSUME IInv, Placed', Collected' = Collected,
         UNCHANGED <<main, inputs, output_queue, jobData, summary, exitCode>>
  PROVE  IInv'
<1>1. UNCHANGED <<undispatched, jobs, is_break, returncode, collected, count, results>>
  BY DEF inputs, jobData, summary
<1>2. Tallied'
  BY <1>1, TallyStays DEF IInv
<1>3. Dealt'
  BY <1>1 DEF IInv, Dealt
<1>4. QED
  BY <1>2, <1>3 DEF IInv

\* A worker that puts back the test it holds, which it marked, skipped or ran.
LEMMA PutInv ==
  ASSUME IInv, TypeOK', NEW w \in Workers, Put(w), job[w] \in Tests,
         UNCHANGED <<main, inputs, input_queue, summary, exitCode>>,
         job[w] \in is_break' \cup ToSkip \/ returncode'[job[w]] # "False",
         \A t \in Tests \ {job[w]} : (t \in is_break' <=> t \in is_break) /\ returncode'[t] = returncode[t]
  PROVE  IInv'
<1>1. UNCHANGED <<undispatched, jobs, collected, count, results>>
  BY DEF inputs, summary
<1>2. /\ Placed' /\ Collected' = Collected
      /\ Range(output_queue') = Range(output_queue) \cup {job[w]}
  BY <1>1, PutPlaced DEF IInv
<1>3. job[w] \notin Collected /\ job[w] \notin Range(output_queue)
  BY HeldNotCollected DEF IInv
<1>4. /\ Collected \subseteq Tests \ {job[w]}
      /\ Range(output_queue) \subseteq Tests \ {job[w]}
  BY <1>3 DEF Collected, IInv, Placed, TypeOK, Range
<1>5. Tallied'
  BY <1>1, <1>2, <1>4, TallyStays DEF IInv
<1>6. \A t \in Range(output_queue') \cup Collected' :
         t \in is_break' \cup ToSkip \/ returncode'[t] # "False"
  BY <1>2, <1>4 DEF IInv, Dealt
<1>7. Dealt'
  BY <1>1, <1>2, <1>6 DEF IInv, Dealt
<1>8. QED
  BY <1>2, <1>5, <1>7 DEF IInv

LEMMA WorkerInv ==
  ASSUME IInv, NEW w \in Workers,
         WorkerStep(w) \/ WorkerRaises(w)
  PROVE  IInv'
<1>1. TypeOK'
  BY WorkerTypes DEF IInv, Placed
<1>2. ASSUME Get(w) PROVE IInv'
  BY <1>2, GetPlaced, MoveInv DEF IInv, Get
<1>3. ASSUME Stop(w) PROVE IInv'
  BY <1>3, StopPlaced, MoveInv DEF IInv, Stop, queues
<1>4. ASSUME Launch(w) PROVE IInv'
  <2>1. Placed' /\ Collected' = Collected
    BY <1>1, <1>4, KeptPlaced DEF IInv, Launch, inputs, queues
  <2>2. QED
    BY <1>4, <2>1, MoveInv DEF Launch, queues
<1>5. ASSUME WorkerRaises(w) PROVE IInv'
  <2>1. job[w] \in Tests
    BY <1>5 DEF WorkerRaises, IInv, Placed, TypeOK
  <2>2. Placed' /\ Collected' = Collected
    BY <1>1, <1>5, <2>1, KeptPlaced DEF IInv, WorkerRaises, inputs, queues
  <2>3. QED
    BY <1>5, <2>2, MoveInv DEF WorkerRaises, queues
<1>6. ASSUME ReturnUnrun(w) PROVE IInv'
  BY <1>1, <1>6, PutInv DEF ReturnUnrun
<1>7. ASSUME Skip(w) PROVE IInv'
  BY <1>1, <1>7, PutInv, TestsAssumption DEF Skip, jobData
<1>8. ASSUME Finish(w) PROVE IInv'
  <2>1. job[w] \in Tests
    BY <1>8 DEF Finish, IInv, Placed, TypeOK
  <2>2. \A e \in Endings(job[w]) : e[1] # "False"
    BY DEF Endings
  <2>3. /\ returncode'[job[w]] # "False"
        /\ \A t \in Tests \ {job[w]} : returncode'[t] = returncode[t]
    BY <1>8, <2>1, <2>2 DEF Finish, IInv, Placed, TypeOK
  <2>4. QED
    BY <1>1, <1>8, <2>1, <2>3, PutInv DEF Finish
<1>9. QED
  BY <1>2, <1>3, <1>4, <1>5, <1>6, <1>7, <1>8 DEF WorkerStep

\* Only the end of a program sets its status, and its file with it.
LEMMA TruthfulPreserved == TypeOK /\ Truthful /\ [Next]_vars => Truthful'
<1> SUFFICES ASSUME TypeOK, Truthful, [Next]_vars PROVE Truthful'
  OBVIOUS
<1>1. ASSUME NEW w \in Workers, Finish(w) PROVE Truthful'
  <2>1. job[w] \in Tests
    BY <1>1 DEF Finish, TypeOK
  <2>2. PICK ending \in Endings(job[w]), decodes \in BOOLEAN :
          /\ returncode' = [returncode EXCEPT ![job[w]] = IF decodes THEN ending[1] ELSE "1"]
          /\ xml' = [xml EXCEPT ![job[w]] = ending[2]]
    BY <1>1 DEF Finish
  <2>3. job[w] \in Suites /\ ending[1] = "0" => ending[2] = "PASS"
    BY DEF Endings
  <2>4. ASSUME NEW t \in Suites, returncode'[t] = "0" PROVE xml'[t] = "PASS"
    <3>1. t \in Tests /\ returncode \in [Tests -> ReturnCodes] /\ xml \in [Tests -> Files]
      BY DEF TypeOK, Tests
    <3>2. CASE t = job[w]
      BY <2>1, <2>2, <2>3, <2>4, <3>1, <3>2
    <3>3. CASE t # job[w]
      BY <2>1, <2>2, <2>4, <3>1, <3>3 DEF Truthful
    <3>4. QED
      BY <3>2, <3>3
  <2>5. QED
    BY <2>4 DEF Truthful
<1>2. ASSUME UNCHANGED <<returncode, xml>> PROVE Truthful'
  BY <1>2 DEF Truthful
<1>3. MainStep \/ ConditionRaises \/ sigint_hook \/ UNCHANGED vars => UNCHANGED <<returncode, xml>>
  BY DEF MainStep, Dispatch, PutPill, Collect, JoinAndReturn, ConditionRaises, sigint_hook, vars,
         jobData
<1>4. \A w \in Workers : WorkerStep(w) \/ WorkerRaises(w) => Finish(w) \/ UNCHANGED <<returncode, xml>>
  BY DEF WorkerStep, Get, Stop, ReturnUnrun, Skip, Launch, WorkerRaises, jobData
<1>5. QED
  BY <1>1, <1>2, <1>3, <1>4 DEF Next

LEMMA Preserved == IInv /\ Truthful /\ [Next]_vars => IInv' /\ Truthful'
<1> SUFFICES ASSUME IInv, Truthful, [Next]_vars PROVE IInv'
  BY TruthfulPreserved DEF IInv, Placed
<1>1. ASSUME MainStep PROVE IInv'
  BY <1>1, DispatchInv, PutPillInv, CollectInv, ReturnInv DEF MainStep
<1>2. QED
  BY <1>1, WorkerInv, StillInv DEF Next

THEOREM Invariant == Spec => []IInv
<1>1. Init => Truthful
  BY DEF Init, Truthful, Tests
<1>2. QED
  BY <1>1, InitInv, Preserved, PTL DEF Spec

--------------------------------------------------------------------------------
(* The properties *)

\* The variables keep their types: only tests come back, and a worker runs only tests that
\* are not to be skipped.
THEOREM TypeCorrect == Spec => []TypeOK
<1>1. IInv => TypeOK
  BY DEF IInv, Placed
<1>2. QED
  BY <1>1, Invariant, PTL

\* No worker stops while a test is still in the queue.
THEOREM NoTestBehindPillHolds == Spec => []NoTestBehindPill
<1>1. IInv => NoTestBehindPill
  BY DEF IInv, Placed, Order, PillTaken, NoTestBehindPill, Range
<1>2. QED
  BY <1>1, Invariant, PTL

\* When as many results as jobs have been collected and nothing is left to dispatch, every
\* test has been collected.
LEMMA AllCollected ==
  ASSUME IInv, undispatched = {}, collected >= jobs
  PROVE  Collected = Tests /\ jobs = Cardinality(Tests)
<1>1. Tests \ undispatched = Tests /\ Collected \in SUBSET Tests
  BY DEF Collected
<1>2. Cardinality(Collected) >= Cardinality(Tests)
  BY <1>1 DEF IInv, Dealt
<1>3. Cardinality(Collected) <= Cardinality(Tests)
  BY <1>1, TestsFinite, FS_Subset
<1>4. Cardinality(Collected) = Cardinality(Tests)
  BY <1>1, <1>2, <1>3, TestsFinite
<1>5. QED
  BY <1>1, <1>4, TestsFinite, FS_Subset DEF IInv, Dealt

LEMMA DisjointUnion ==
  ASSUME NEW S \in SUBSET Tests, NEW T \in SUBSET Tests, S \cap T = {}
  PROVE  Cardinality(S \cup T) = Cardinality(S) + Cardinality(T)
<1>1. Cardinality(S \cap T) = 0
  BY FS_EmptySet
<1>2. /\ IsFiniteSet(S) /\ IsFiniteSet(T)
      /\ Cardinality(S) \in Nat /\ Cardinality(T) \in Nat
  BY TestsFinite
<1>3. Cardinality(S \cup T) = Cardinality(S) + Cardinality(T) - Cardinality(S \cap T)
  BY <1>2, FS_Union
<1>4. QED
  BY <1>1, <1>2, <1>3

\* The exit status is zero only if every test was skipped or ran and succeeded.
THEOREM SuccessIsRealHolds == Spec => []SuccessIsReal
<1>1. ASSUME IInv, exitCode = 0, NEW t \in Tests
      PROVE  t \notin is_break /\ (t \in ToSkip \/ returncode[t] = "0")
  <2>1. Collected = Tests /\ jobs = Cardinality(Tests)
    BY <1>1, AllCollected DEF IInv, Tallied, Dealt
  <2>2. With("PASS") \in SUBSET Tests /\ With("SKIP") \in SUBSET Tests
    BY DEF With, Collected
  <2>3. With("PASS") \cap With("SKIP") = {}
    BY DEF With
  <2>4. Cardinality(With("PASS")) + Cardinality(With("SKIP")) = Cardinality(Tests)
    BY <1>1, <2>1 DEF IInv, Tallied, Statuses
  <2>5. With("PASS") \cup With("SKIP") = Tests
    <3>1. PICK p : p = With("PASS")
      OBVIOUS
    <3>2. PICK k : k = With("SKIP")
      OBVIOUS
    <3>3. Cardinality(p \cup k) = Cardinality(Tests) /\ p \cup k \in SUBSET Tests
      BY <2>2, <2>3, <2>4, <3>1, <3>2, DisjointUnion
    <3>4. p \cup k = Tests
      BY <3>3, TestsFinite, FS_Subset
    <3>5. QED
      BY <3>1, <3>2, <3>4
  <2>6. t \notin is_break /\ Status(t) \in {"PASS", "SKIP"}
    BY <2>5 DEF With
  <2>7. t \in ToSkip \/ returncode[t] # "False"
    BY <1>1, <2>1, <2>6 DEF IInv, Dealt
  <2>8. t \in ToSkip \/ returncode[t] \in {"False", "0"}
    <3> SUFFICES ASSUME t \notin ToSkip PROVE returncode[t] \in {"False", "0"}
      OBVIOUS
    <3>1. QED
      BY <2>6 DEF Status
  <2>9. QED
    BY <2>6, <2>7, <2>8
<1>2. IInv => SuccessIsReal
  BY <1>1 DEF SuccessIsReal
<1>3. QED
  BY <1>2, Invariant, PTL

\* The counts of the summary and the tests that came back unrun add up to all the tests.
THEOREM SummaryAddsUpHolds == Spec => []SummaryAddsUp
<1>1. ASSUME IInv, main = "collect", ~MoreJobs, undispatched = {}
      PROVE  Counted + Cardinality(is_break) = Cardinality(Tests)
  <2>1. Collected = Tests
    BY <1>1, AllCollected DEF MoreJobs, IInv, Placed, TypeOK
  <2>2. \A s : With(s) \in SUBSET Tests
    BY DEF With, Collected
  <2>3. \A r, s : r # s => With(r) \cap With(s) = {}
    BY DEF With
  <2> DEFINE two == With("PASS") \cup With("FAIL")
             three == two \cup With("VALGR")
             four == three \cup With("CRASH")
             five == four \cup With("SKIP")
  <2>4. Cardinality(two) = count["PASS"] + count["FAIL"]
    BY <1>1, <2>2, <2>3, DisjointUnion DEF IInv, Tallied, Statuses
  <2>5. Cardinality(three) = Cardinality(two) + count["VALGR"]
    <3>1. two \in SUBSET Tests /\ two \cap With("VALGR") = {}
      BY <2>2, <2>3
    <3>2. QED
      BY <1>1, <2>2, <3>1, DisjointUnion DEF IInv, Tallied, Statuses
  <2>6. Cardinality(four) = Cardinality(three) + count["CRASH"]
    <3>1. three \in SUBSET Tests /\ three \cap With("CRASH") = {}
      BY <2>2, <2>3
    <3>2. QED
      BY <1>1, <2>2, <3>1, DisjointUnion DEF IInv, Tallied, Statuses
  <2>7. Cardinality(five) = Cardinality(four) + count["SKIP"]
    <3>1. four \in SUBSET Tests /\ four \cap With("SKIP") = {}
      BY <2>2, <2>3
    <3>2. QED
      BY <1>1, <2>2, <3>1, DisjointUnion DEF IInv, Tallied, Statuses
  <2>8. five = Tests \ is_break
    BY <2>1, StatusType DEF With, Statuses
  <2>9. is_break \in SUBSET Tests /\ count \in [Statuses -> Nat]
    BY <1>1 DEF IInv, Placed, TypeOK
  <2>10. Cardinality(five) + Cardinality(is_break) = Cardinality(Tests)
    <3>1. five \in SUBSET Tests /\ five \cap is_break = {} /\ five \cup is_break = Tests
      BY <2>8, <2>9
    <3>2. QED
      BY <2>9, <3>1, DisjointUnion
  <2> HIDE DEF two, three, four, five
  <2>11. QED
    BY <2>4, <2>5, <2>6, <2>7, <2>9, <2>10 DEF Counted, Statuses
<1>2. IInv => SummaryAddsUp
  BY <1>1 DEF SummaryAddsUp
<1>3. QED
  BY <1>2, Invariant, PTL

\* A closed report has no test twice, none that was interrupted, and every test that passed,
\* crashed or was skipped, as well as every example, with the status it was counted under.
THEOREM ReportAgreesHolds == Spec => []ReportAgrees
<1>1. ASSUME IInv, main = "returned"
      PROVE  Reported /\ Collected = Tests
  BY <1>1, AllCollected DEF IInv, Tallied, Dealt
<1>2. IInv => ReportAgrees
  BY <1>1 DEF ReportAgrees, Reported, MustBeStated
<1>3. QED
  BY <1>2, Invariant, PTL
================================================================================
