------------------------------- MODULE TestRunner -------------------------------
(* test.py: the main thread dispatches one job per test suite and per example    *)
(* over input_queue to a pool of worker threads, and collects the results from   *)
(* output_queue. A worker runs one process at a time. Control-C sets a global    *)
(* flag, on which the workers return what is left without running it. A thread   *)
(* that raises an exception ends alone: the workers are no daemons, so that the  *)
(* program lives until all of them have returned.                                *)
EXTENDS Naturals, Sequences, FiniteSets

CONSTANTS
  Suites,      \* the test suites to run, by name
  Examples,    \* the examples to run, compiled or in Python
  ToSkip,      \* the tests whose job has is_skip set
  Workers,     \* the worker threads: one per processor
  Pill,        \* the job with is_break that stops one worker
  None         \* no job

Tests == Suites \cup Examples

ASSUME TestsAssumption ==
  /\ IsFiniteSet(Suites) /\ IsFiniteSet(Examples) /\ Suites \cap Examples = {}
  /\ ToSkip \subseteq Tests
  /\ Pill \notin Tests /\ None \notin Tests \cup {Pill, 0}
ASSUME WorkersAssumption == IsFiniteSet(Workers) /\ Workers # {}

VARIABLES
  main,          \* what the main thread is doing
  undispatched,  \* the tests run_tests has not reached yet
  jobs,          \* jobs, and total_tests: the tests put into input_queue
  pills,         \* the jobs with is_break put into input_queue
  input_queue,
  output_queue,
  worker,        \* what each worker is doing
  job,           \* the job each worker holds
  thread_exit,   \* the flag that sigint_hook sets
  is_break,      \* the jobs that a worker returned without running them
  returncode,    \* of each job: False, as in Job.__init__, until it has run
  xml,           \* the temporary results file of each suite
  collected,     \* the iterations of the collecting loop
  count,         \* passed_tests, failed_tests, valgrind_errors, ...
  results,       \* the entries of results.xml
  exitCode       \* what run_tests returns, None before that

queues == <<input_queue, output_queue>>
inputs == <<undispatched, jobs, pills>>
jobData == <<is_break, returncode, xml>>
summary == <<collected, count, results>>
vars == <<main, inputs, queues, worker, job, thread_exit, jobData, summary, exitCode>>

Statuses == {"PASS", "FAIL", "VALGR", "CRASH", "SKIP"}
ReturnCodes == {"False", "0", "1", "2", "other"}
Files == {"absent", "empty", "partial", "PASS", "FAIL"}

Init ==
  /\ main = "dispatch"
  /\ undispatched = Tests /\ jobs = 0 /\ pills = 0
  /\ input_queue = <<>> /\ output_queue = <<>>
  /\ worker = [w \in Workers |-> "getting"]
  /\ job = [w \in Workers |-> None]
  /\ thread_exit = FALSE
  /\ is_break = {}
  /\ returncode = [t \in Tests |-> "False"]
  /\ xml = [t \in Tests |-> "absent"]
  /\ collected = 0
  /\ count = [s \in Statuses |-> 0]
  /\ results = <<>>
  /\ exitCode = None

--------------------------------------------------------------------------------
(* The main thread: dispatching. *)

\* The loops put a job for every suite first, then for every example.
MayDispatch(t) == t \in undispatched /\ (t \in Examples => undispatched \subseteq Examples)

Dispatch(t) ==
  /\ main = "dispatch"
  /\ MayDispatch(t)
  /\ undispatched' = undispatched \ {t}
  /\ jobs' = jobs + 1
  /\ input_queue' = Append(input_queue, t)
  /\ UNCHANGED <<main, pills, output_queue, worker, job, thread_exit, jobData, summary, exitCode>>

\* eval(do_run) raises for a condition that names something unknown.
ConditionRaises ==
  /\ main = "dispatch"
  /\ \E t \in Examples : MayDispatch(t)
  /\ main' = "raised"
  /\ UNCHANGED <<inputs, queues, worker, job, thread_exit, jobData, summary, exitCode>>

\* A slip: the workers are told to stop before the examples are looked up.
SuitesDispatched == undispatched \cap Suites = {}
AllDispatched == undispatched = {}

\* One job with is_break per processor, after all the others.
PutPill ==
  /\ main = "dispatch" /\ AllDispatched
  /\ pills' = pills + 1
  /\ main' = IF pills' = Cardinality(Workers) THEN "collect" ELSE main
  /\ input_queue' = Append(input_queue, Pill)
  /\ UNCHANGED <<undispatched, jobs, output_queue, worker, job, thread_exit, jobData, summary,
                 exitCode>>

--------------------------------------------------------------------------------
(* The worker threads. *)

Goes(w, next, j) == worker' = [worker EXCEPT ![w] = next] /\ job' = [job EXCEPT ![w] = j]

Get(w) ==
  /\ worker[w] = "getting"
  /\ input_queue # <<>>
  /\ input_queue' = Tail(input_queue)
  /\ Goes(w, "got", Head(input_queue))
  /\ UNCHANGED <<main, inputs, output_queue, thread_exit, jobData, summary, exitCode>>

\* A slip: the worker returns its job with is_break before it stops.
StopAfterPut(w) ==
  /\ worker[w] = "got" /\ job[w] = Pill
  /\ Goes(w, "stopped", None)
  /\ output_queue' = Append(output_queue, Pill)
  /\ UNCHANGED <<main, inputs, input_queue, thread_exit, jobData, summary, exitCode>>
Stop(w) ==
  /\ worker[w] = "got" /\ job[w] = Pill
  /\ Goes(w, "stopped", None)
  /\ UNCHANGED <<main, inputs, queues, thread_exit, jobData, summary, exitCode>>

Put(w) == output_queue' = Append(output_queue, job[w]) /\ Goes(w, "getting", None)

\* A slip: the interrupted job goes back as it is.
ReturnUnmarked(w) ==
  /\ worker[w] = "got" /\ job[w] \in Tests /\ thread_exit
  /\ Put(w)
  /\ UNCHANGED <<main, inputs, input_queue, thread_exit, jobData, summary, exitCode>>
\* A slip: the worker stops at the first job it returns.
ReturnAndStop(w) ==
  /\ worker[w] = "got" /\ job[w] \in Tests /\ thread_exit
  /\ is_break' = is_break \cup {job[w]}
  /\ output_queue' = Append(output_queue, job[w]) /\ Goes(w, "stopped", None)
  /\ UNCHANGED <<main, inputs, input_queue, thread_exit, returncode, xml, summary, exitCode>>
ReturnUnrun(w) ==
  /\ worker[w] = "got" /\ job[w] \in Tests /\ thread_exit
  /\ is_break' = is_break \cup {job[w]}
  /\ Put(w)
  /\ UNCHANGED <<main, inputs, input_queue, thread_exit, returncode, xml, summary, exitCode>>

Skip(w) ==
  /\ worker[w] = "got" /\ job[w] \in ToSkip /\ ~thread_exit
  /\ Put(w)
  /\ UNCHANGED <<main, inputs, input_queue, thread_exit, jobData, summary, exitCode>>

Launch(w) ==
  /\ worker[w] = "got" /\ job[w] \in Tests \ ToSkip /\ ~thread_exit
  /\ Goes(w, "running", job[w])
  /\ UNCHANGED <<main, inputs, queues, thread_exit, jobData, summary, exitCode>>

\* How a program ends: the exit status, and what a suite has made of its results file. The
\* file is created, empty, before the suite is looked up, which says 1 when there is none, and
\* before it runs; the report is printed after that. A program that crashes does so before the
\* file is created, as when it cannot be loaded, while the suite runs, in the middle of the
\* report or behind it. Valgrind reports what it finds with status 2, whatever the suite says.
Endings(t) ==
  IF t \in Suites
  THEN {<<"0", "PASS">>} \cup {"1"} \X {"empty", "FAIL"} \cup {"2"} \X {"empty", "PASS", "FAIL"}
       \cup {"other"} \X Files
  ELSE {"0", "1", "2", "other"} \X {"absent"}

\* run_job_synchronously: output that cannot be decoded makes the return code 1.
Finish(w) ==
  /\ worker[w] = "running"
  /\ \E ending \in Endings(job[w]), decodes \in BOOLEAN :
       /\ returncode' = [returncode EXCEPT ![job[w]] = IF decodes THEN ending[1] ELSE "1"]
       /\ xml' = [xml EXCEPT ![job[w]] = ending[2]]
  /\ Put(w)
  /\ UNCHANGED <<main, inputs, input_queue, thread_exit, is_break, summary, exitCode>>

\* Popen finds no resources, or print cannot encode the output: the thread ends.
WorkerRaises(w) ==
  /\ \/ worker[w] = "got" /\ job[w] \in Tests \ ToSkip /\ ~thread_exit
     \/ worker[w] = "running"
  /\ Goes(w, "raised", job[w])
  /\ UNCHANGED <<main, inputs, queues, thread_exit, jobData, summary, exitCode>>

sigint_hook ==
  /\ ~thread_exit
  /\ thread_exit' = TRUE
  /\ UNCHANGED <<main, inputs, queues, worker, job, jobData, summary, exitCode>>

--------------------------------------------------------------------------------
(* The main thread: collecting. *)

\* In Python False == 0.
Status(t) ==
  IF t \in ToSkip THEN "SKIP"
  ELSE CASE returncode[t] \in {"False", "0"} -> "PASS"
         [] returncode[t] = "1" -> "FAIL"
         [] returncode[t] = "2" -> "VALGR"
         [] OTHER -> "CRASH"

\* The results file of a suite is copied unless the suite crashed.
CopiesFile(t) == t \in Suites \ ToSkip /\ Status(t) # "CRASH"
Entry(t) == [test |-> t, result |-> IF CopiesFile(t) THEN xml[t] ELSE Status(t)]

\* The copy of an empty file adds nothing, that of one that was cut off the beginning of an
\* entry. Else an entry is added, copied or made up.
CopiesNothing(t) == CopiesFile(t) /\ xml[t] = "empty"

\* A slip: nothing is made up for a suite that crashed.
WrittenUnlessCrashed(t) == IF CopiesNothing(t) \/ Status(t) = "CRASH" THEN <<>> ELSE <<Entry(t)>>
Written(t) == IF CopiesNothing(t) THEN <<>> ELSE <<Entry(t)>>

MoreJobs == collected < jobs

Collect ==
  LET t == Head(output_queue) IN
  /\ main = "collect" /\ MoreJobs
  /\ output_queue # <<>>
  /\ output_queue' = Tail(output_queue)
  /\ collected' = collected + 1
  /\ \/ /\ t \in is_break \cup {Pill}
        /\ UNCHANGED <<main, count, results>>
     \/ /\ t \in Tests \ is_break
        /\ count' = [count EXCEPT ![Status(t)] = @ + 1]
        /\ IF CopiesFile(t) /\ xml[t] = "absent"
           THEN main' = "raised" /\ UNCHANGED results      \* open raises FileNotFoundError
           ELSE main' = main /\ results' = results \o Written(t)
  /\ UNCHANGED <<inputs, input_queue, worker, job, thread_exit, jobData, exitCode>>

Done(w) == worker[w] \in {"stopped", "raised"}

\* The threads are joined, the report is closed and the temporary files are removed.
JoinAndReturn ==
  /\ main = "collect" /\ ~MoreJobs
  /\ \A w \in Workers : Done(w)
  /\ main' = "returned"
  /\ exitCode' = IF count["PASS"] + count["SKIP"] = jobs THEN 0 ELSE 1
  /\ UNCHANGED <<inputs, queues, worker, job, thread_exit, jobData, summary>>

MainStep ==
  \/ \E t \in Tests : Dispatch(t)
  \/ PutPill
  \/ Collect
  \/ JoinAndReturn

WorkerStep(w) == Get(w) \/ Stop(w) \/ ReturnUnrun(w) \/ Skip(w) \/ Launch(w) \/ Finish(w)

Next ==
  \/ MainStep
  \/ \E w \in Workers : WorkerStep(w) \/ WorkerRaises(w)
  \/ ConditionRaises
  \/ sigint_hook

\* The operating system runs every thread, and every test program ends.
Fairness == WF_vars(MainStep) /\ \A w \in Workers : WF_vars(WorkerStep(w))

Spec == Init /\ [][Next]_vars /\ Fairness

--------------------------------------------------------------------------------
(* What the runner promises. *)

Jobs == Tests \cup {Pill}

TypeOK ==
  /\ main \in {"dispatch", "collect", "returned", "raised"}
  /\ undispatched \subseteq Tests
  /\ jobs \in Nat /\ pills \in Nat /\ collected \in Nat
  /\ input_queue \in Seq(Jobs) /\ output_queue \in Seq(Tests)
  /\ worker \in [Workers -> {"getting", "got", "running", "stopped", "raised"}]
  /\ job \in [Workers -> Jobs \cup {None}]
  /\ \A w \in Workers : worker[w] = "got" => job[w] \in Jobs
  /\ \A w \in Workers : worker[w] = "running" => job[w] \in Tests \ ToSkip
  /\ thread_exit \in BOOLEAN
  /\ is_break \subseteq Tests
  /\ returncode \in [Tests -> ReturnCodes]
  /\ xml \in [Tests -> Files]
  /\ count \in [Statuses -> Nat]
  /\ results \in Seq([test : Tests, result : Statuses \cup Files])
  /\ exitCode \in {None, 0, 1}

\* No test is left in the queue when a worker has taken its job with is_break: in whatever
\* order the workers take the jobs, none of them leaves work behind that nobody will do.
NoTestBehindPill ==
  (\E w \in Workers : worker[w] = "stopped") => \A i \in DOMAIN input_queue : input_queue[i] = Pill

\* The summary line accounts for every test: when the results are in, each test has been
\* counted under one status or was returned unrun after Control-C.
Counted == count["PASS"] + count["FAIL"] + count["VALGR"] + count["CRASH"] + count["SKIP"]
SummaryAddsUp ==
  main = "collect" /\ ~MoreJobs /\ undispatched = {} => Counted + Cardinality(is_break) = Cardinality(Tests)

\* test.py exits with 0 only if every test was skipped or ran to its end and succeeded: no
\* test that Control-C kept from running passes for one that ran.
SuccessIsReal ==
  exitCode = 0 => \A t \in Tests : t \notin is_break /\ (t \in ToSkip \/ returncode[t] = "0")

\* A report that is closed agrees with the summary: no test is in it twice and none that was
\* interrupted; a test that passed, crashed or was skipped, and every example, is in it with
\* the very status it was counted under. What may be missing or cut off is a suite that was
\* counted as failed or with valgrind errors, so that nothing is missing from a success.
Stated(t) == \E i \in DOMAIN results : results[i] = [test |-> t, result |-> Status(t)]
ReportAgrees ==
  main = "returned" =>
    /\ \A i, j \in DOMAIN results : results[i].test = results[j].test => i = j
    /\ \A i \in DOMAIN results : results[i].test \notin is_break
    /\ \A t \in Tests \ is_break :
         t \in Examples \/ Status(t) \in {"PASS", "CRASH", "SKIP"} => Stated(t)

\* The runner comes to an end, interrupted or not, unless an exception ended a thread that
\* others wait for: a worker with a job in its hands, or the main thread before it told the
\* workers to stop.
Ended == main \in {"returned", "raised"} /\ \A w \in Workers : Done(w)
ThreadLost == (\E w \in Workers : worker[w] = "raised") \/ (main = "raised" /\ undispatched # {})
RunnerEnds == <>(Ended \/ ThreadLost)

================================================================================
