----------------------------- MODULE TestRunner -----------------------------
(***************************************************************************)
(* scripts/test.py: the main thread builds the compiler, opens the JUnit   *)
(* report and runs every test, itself one after the other or through a     *)
(* pool of threads.  A test is a pipeline of five tools, each with a       *)
(* timeout, that hand each other files in the test's directory under       *)
(* bin/output.  Tests are numbered in the order of the sorted list.        *)
(***************************************************************************)
EXTENDS Integers, Sequences, FiniteSets

CONSTANTS
  Drivers,  \* how many *_driver.c files rglob finds
  Path,     \* for each test the directories from compiler_tests to it, and its stem
  Workers,  \* threads of the pool
  Leavings  \* for each test the sets of its files an rmtree may leave behind

Kinds == {"dir", "s", "gcc.s", "o", "exe"}
Tests == 1 .. Drivers
IsPrefix(p, q) == Len(p) <= Len(q) /\ \A i \in 1 .. Len(p) : p[i] = q[i]

\* No test lies in a directory named as another one (true of compiler_tests).
\* An rmtree may do all it should; what is left lies in a directory.
ASSUME TestAssumption ==
  /\ Drivers \in Nat /\ Workers \in Nat \ {0}
  /\ Path \in [Tests -> Seq(STRING)]
  /\ \A t, u \in Tests : IsPrefix(Path[t], Path[u]) => t = u
  /\ Leavings \in [Tests -> SUBSET SUBSET Kinds]
  /\ \A t \in Tests : {} \in Leavings[t] /\ \A left \in Leavings[t] : left # {} => "dir" \in left

VARIABLES
  multithreading, \* option -m; an option read only once is chosen where it is read
  main,      \* what the main thread does next
  raised,    \* whether an exception is on its way out of run_tests
  status,    \* exit status
  future,    \* of each test: new, queued, running, done or raised
  outcomes,  \* how the tools a test has run ended
  result,    \* the Result a test returned
  reported,  \* the tests in the report, in its order
  xml,       \* the report: absent, old (of an earlier run), open, closed
  file,      \* of each test and file: none, old or new
  stale      \* history: the old files of each test that run_test's own rmtree left

vars == <<multithreading, main, raised, status, future, outcomes, result, reported, xml, file, stale>>
tests == <<future, outcomes, result, file, stale>>

Stages == <<"compiler", "reference", "assembler", "linker", "simulation">>
Input  == <<"dir", "dir", "s", "o", "exe">>
Output == <<"s", "gcc.s", "o", "exe", "dir">>
Results == [passed : BOOLEAN, code : {0, 1, 124}, timeout : BOOLEAN]
NoResult == [passed |-> FALSE, code |-> 0, timeout |-> FALSE]

\* run_subprocess: a tool that ends within its time, or is killed.
Outcomes == {"ok", "error", "timeout"}
\* Mutant: the status of the killed process is passed on.
ReturnCodeOfKilled(o) == CASE o = "ok" -> 0 [] o = "error" -> 1 [] o = "timeout" -> -9
\* Mutant: after a timeout the wrapper goes on to its last line.
ReturnCodeFallsThrough(o) == IF o = "error" THEN 1 ELSE 0

ReturnCode(o) == CASE o = "ok" -> 0 [] o = "error" -> 1 [] o = "timeout" -> 124

\* Mutant: the logs of a directory's tests are all in one place.
DirectoryShared(t) == SubSeq(Path[t], 1, Len(Path[t]) - 1)
\* Where the logs and files of t are.
Directory(t) == Path[t]
\* The files after rmtree(dir, ignore_errors=True): it removes what lies below
\* dir, too, and does not say what it had to leave.
Removed(dir, left) ==
  [t \in Tests |-> IF IsPrefix(dir, Directory(t))
                  THEN [k \in Kinds |-> IF k \in left[t] THEN file[t][k] ELSE "none"]
                  ELSE file[t]]

Running == {t \in Tests : future[t] = "running"}
Queued  == {t \in Tests : future[t] = "queued"}
Reported == {reported[i] : i \in DOMAIN reported}

Init ==
  /\ multithreading \in BOOLEAN
  /\ main = "start" /\ raised = FALSE /\ status = 0
  /\ future = [t \in Tests |-> "new"]
  /\ outcomes = [t \in Tests |-> << >>]
  /\ result = [t \in Tests |-> NoResult]
  /\ reported = << >>
  /\ \E before \in {"none", "old"} :
       /\ xml = IF before = "none" THEN "absent" ELSE "old"
       /\ file = [t \in Tests |-> [k \in Kinds |-> before]]
  /\ stale = [t \in Tests |-> {}]

(***************************************************************************)
(* The main thread                                                         *)
(***************************************************************************)
Exit(n) == main' = "exit" /\ status' = n

\* The last run's output is removed as far as it can be, with --no_clean, too;
\* status 1 when the directory cannot be made and the exception ends main.
Prepare ==
  /\ main = "start"
  /\ \E left \in [Tests -> UNION {Leavings[t] : t \in Tests}] :
       /\ \A t \in Tests : left[t] \in Leavings[t]
       /\ file' = Removed(<< >>, left)
  /\ \/ main' \in {"clean", "make"} /\ UNCHANGED status
     \/ Exit(1)
  /\ UNCHANGED <<multithreading, raised, future, outcomes, result, stale, reported, xml>>

\* A tool of the build: next when it ends well, exit status n when it does not,
\* status 1 when it cannot be started and the exception ends main.
BuildStep(here, next, n) ==
  /\ main = here
  /\ \/ main' = next /\ UNCHANGED status
     \/ Exit(n)
     \/ Exit(1)
  /\ UNCHANGED <<multithreading, raised, tests, reported>>

Clean    == BuildStep("clean", "make", 2) /\ xml' = IF main' = "make" THEN "absent" ELSE xml
Make     == BuildStep("make", "open", 3) /\ UNCHANGED xml
Coverage == BuildStep("coverage", "serving", 4) /\ UNCHANGED xml

OpenXML ==
  /\ main = "open"
  /\ xml' = "open" /\ main' = "list"
  /\ UNCHANGED <<multithreading, raised, status, tests, reported>>

\* The progress bar asks stty for the width of a terminal and raises without one.
ListTests ==
  /\ main = "list"
  /\ \/ /\ future' = [t \in Tests |-> "queued"]
        /\ main' = "testing" /\ UNCHANGED raised
     \/ main' = "close" /\ raised' = TRUE /\ UNCHANGED future
  /\ UNCHANGED <<multithreading, status, outcomes, result, file, stale, reported, xml>>

\* as_completed gives a future that has ended; process_result writes it.
ProcessResult(t) ==
  /\ main = "testing" /\ future[t] = "done" /\ t \notin Reported
  /\ reported' = Append(reported, t)
  /\ UNCHANGED <<multithreading, main, raised, status, tests, xml>>

\* future.result(), or run_test itself, raises in the main thread.
Reraise(t) ==
  /\ main = "testing" /\ future[t] = "raised"
  /\ raised' = TRUE /\ main' = "leave"
  /\ UNCHANGED <<multithreading, status, tests, reported, xml>>

AllReported ==
  /\ main = "testing" /\ Len(reported) = Drivers
  /\ main' = "leave"
  /\ UNCHANGED <<multithreading, raised, status, tests, reported, xml>>

\* Mutant: shutdown(wait=False).
LeaveAtOnce ==
  /\ main = "leave"
  /\ main' = "close"
  /\ UNCHANGED <<multithreading, raised, status, tests, reported, xml>>

\* The pool's __exit__ waits for every future; there is none without a pool.
Leave ==
  /\ main = "leave"
  /\ multithreading => Running \cup Queued = {}
  /\ main' = "close"
  /\ UNCHANGED <<multithreading, raised, status, tests, reported, xml>>

\* Mutant: __exit__ answers true and the exception is gone.
CloseXMLSwallows ==
  /\ main = "close"
  /\ xml' = "closed"
  /\ \/ Exit(0)
     \/ main' = "coverage" /\ UNCHANGED status
  /\ UNCHANGED <<multithreading, raised, tests, reported>>

\* JUnitXMLFile.__exit__, after an exception too; then the option --coverage.
CloseXML ==
  /\ main = "close"
  /\ xml' = "closed"
  /\ \/ raised /\ Exit(1)
     \/ ~raised /\ Exit(0)
     \/ ~raised /\ main' = "coverage" /\ UNCHANGED status
  /\ UNCHANGED <<multithreading, raised, tests, reported>>

\* Ctrl+C ends the coverage server.
StopServing ==
  /\ main = "serving" /\ Exit(0)
  /\ UNCHANGED <<multithreading, raised, tests, reported, xml>>

(***************************************************************************)
(* run_test, in a thread of the pool or in the main thread                 *)
(***************************************************************************)
\* Mutant: an exception in run_test ends the thread that ran it.
MayStartIfAlive(t) ==
  /\ t \in Queued /\ \A u \in Queued : t <= u
  /\ IF multithreading THEN Cardinality({u \in Tests : future[u] \in {"running", "raised"}}) < Workers
     ELSE main = "testing" /\ \A u \in 1 .. t - 1 : u \in Reported

\* The pool takes futures in the order of their submission; the main thread
\* takes the next driver when the last one's result is in the report.
MayStart(t) ==
  /\ t \in Queued /\ \A u \in Queued : t <= u
  /\ IF multithreading THEN Cardinality(Running) < Workers
     ELSE main = "testing" /\ \A u \in 1 .. t - 1 : u \in Reported

Ended(t, how, r) ==
  /\ future' = [future EXCEPT ![t] = how]
  /\ result' = [result EXCEPT ![t] = r]

\* Mutant: mkdir alone, without the rmtree before it.
StartTestInOldDirectory(t) ==
  /\ MayStart(t)
  /\ file' = [file EXCEPT ![t].dir = "new"]
  /\ future' = [future EXCEPT ![t] = "running"]
  /\ UNCHANGED <<multithreading, main, raised, status, outcomes, result, stale, reported, xml>>

\* rmtree, which is silent about what it leaves, then mkdir, which takes the
\* directory as it finds it.  mkdir and the computation of the paths may raise.
StartTest(t) ==
  /\ MayStart(t)
  /\ \E left \in Leavings[t] :
       LET after == Removed(Directory(t), [u \in Tests |-> left])
       IN  \/ /\ future' = [future EXCEPT ![t] = "running"]
              /\ file' = [after EXCEPT ![t].dir = "new"]
              /\ stale' = [stale EXCEPT ![t] = {k \in left : after[t][k] = "old"}]
           \/ /\ future' = [future EXCEPT ![t] = "raised"]
              /\ file' \in {file, after}
              /\ UNCHANGED stale
  /\ UNCHANGED <<multithreading, main, raised, status, outcomes, result, reported, xml>>

\* The next tool of t ends with outcome o; without its input it ends with an
\* error.  With ASAN_OPTIONS exitcode=0 a compiler that crashed returns 0, too,
\* and has written nothing: the assembler takes the file that is there.
RunStage(t, o) ==
  LET n    == Len(outcomes[t]) + 1
      code == ReturnCode(o)
  IN  /\ future[t] = "running"
      /\ file[t].dir # "none"
      /\ o = "ok" => file[t][Input[n]] # "none"
      /\ outcomes' = [outcomes EXCEPT ![t] = Append(@, o)]
      /\ \/ o = "ok" /\ file' = [file EXCEPT ![t][Output[n]] = "new"]
         \/ (o # "ok" \/ n = 1) /\ UNCHANGED file
      /\ IF code # 0 \/ n = 5
         THEN Ended(t, "done", [passed |-> code = 0, code |-> code, timeout |-> o = "timeout"])
         ELSE UNCHANGED <<future, result>>
      /\ UNCHANGED <<multithreading, main, raised, status, stale, reported, xml>>

\* A tool that is not installed, or a log file that cannot be opened.
StageRaises(t) ==
  /\ future[t] = "running"
  /\ future' = [future EXCEPT ![t] = "raised"]
  /\ UNCHANGED <<multithreading, main, raised, status, outcomes, result, file, stale, reported, xml>>

TestStep(t) == StartTest(t) \/ StageRaises(t) \/ \E o \in Outcomes : RunStage(t, o)
MainStep ==
  \/ Prepare \/ Clean \/ Make \/ OpenXML \/ ListTests \/ AllReported \/ Leave \/ CloseXML \/ Coverage
  \/ \E t \in Tests : ProcessResult(t) \/ Reraise(t)

Next == MainStep \/ StopServing \/ \E t \in Tests : TestStep(t)

\* Every tool ends or is killed when its time is over, a thread of the pool
\* and the main thread are never kept from running for ever.  Nobody has to
\* stop the coverage server.
Fairness == WF_vars(MainStep) /\ \A t \in Tests : WF_vars(TestStep(t))

Spec == Init /\ [][Next]_vars /\ Fairness

(***************************************************************************)
(* Properties                                                              *)
(***************************************************************************)
TypeOK ==
  /\ multithreading \in BOOLEAN
  /\ main \in {"start", "clean", "make", "open", "list", "testing", "leave", "close", "coverage",
               "serving", "exit"}
  /\ raised \in BOOLEAN /\ status \in 0 .. 4
  /\ future \in [Tests -> {"new", "queued", "running", "done", "raised"}]
  /\ outcomes \in [Tests -> Seq(Outcomes)] /\ \A t \in Tests : Len(outcomes[t]) <= 5
  /\ result \in [Tests -> Results]
  /\ reported \in Seq(Tests)
  /\ xml \in {"absent", "old", "open", "closed"}
  /\ file \in [Tests -> [Kinds -> {"none", "old", "new"}]]
  /\ stale \in [Tests -> SUBSET Kinds]

\* Each test is in the report at most once and only when it has ended; it is
\* there as passed if and only if all five tools returned 0, none of them
\* killed, and as timed out if and only if one was (run_test, run_subprocess).
ReportRight ==
  /\ \A i, j \in DOMAIN reported : reported[i] = reported[j] => i = j
  /\ \A t \in Reported :
       /\ future[t] = "done"
       /\ result[t].passed <=> Len(outcomes[t]) = 5 /\ \A i \in DOMAIN outcomes[t] : outcomes[t][i] = "ok"
       /\ result[t].timeout <=> \E i \in DOMAIN outcomes[t] : outcomes[t][i] = "timeout"

\* While a test runs, its directory holds what its own tools have written in
\* this run: no other test removes a file of it or writes one ahead of its
\* tools.  The only files of an earlier run are those its own rmtree had to
\* leave (run_test's rmtree and mkdir, the directories of the tests).
OwnArtefacts ==
  \A t \in Running :
    LET n == Len(outcomes[t])
    IN  /\ file[t].dir = "new"
        /\ \A i \in 2 .. n : file[t][Output[i]] = "new"
        /\ \A i \in n + 1 .. 4 : file[t][Output[i]] # "new"
        /\ \A k \in Kinds : file[t][k] = "old" => k \in stale[t]

\* A test in the report as passed has run the program assembled and linked in
\* this run from the assembly its own compiler wrote, although a compiler that
\* crashes returns 0.  Only assembly of an earlier run that rmtree had to leave
\* can stand in for it (custom_env, rmtree and the stages of run_test).
PassEarned ==
  \A t \in Reported : result[t].passed =>
    /\ \A k \in Kinds \ {"s"} : file[t][k] = "new"
    /\ file[t].s = "new" \/ (file[t].s = "old" /\ "s" \in stale[t])

\* When the report is closed no test runs or will run, and a pool has run every
\* test, whatever was raised: no tool writes under bin/output while main goes on
\* (ThreadPoolExecutor's __exit__, JUnitXMLFile's).
QuietWhenClosed ==
  xml = "closed" =>
    /\ Running = {}
    /\ multithreading => future = [t \in Tests |-> "new"] \/ \A t \in Tests : future[t] \in {"done", "raised"}

\* The script never ends with the report open; when it ends with 0, or with 4
\* for the coverage, every test is in it.  Only an exception can leave one out.
ReportComplete ==
  main = "exit" =>
    /\ xml # "open"
    /\ status \in {0, 4} => xml = "closed" /\ Reported = Tests
    /\ xml = "closed" /\ Reported # Tests => status = 1

\* The script ends, or serves the coverage report, whichever tests fail, time
\* out or raise.
Terminates == <>(main \in {"serving", "exit"})

=============================================================================
