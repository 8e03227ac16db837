-------------------------- MODULE TestRunnerProofs --------------------------
(***************************************************************************)
(* Proofs about TestRunner: for every number of tests and of threads, and  *)
(* every tree of tests in which none lies below another one's name, the    *)
(* report is right and complete and the tests do not disturb each other.   *)
(***************************************************************************)
EXTENDS TestRunner, FiniteSetTheorems, TLAPS

\* What the pipeline of one test has come to.
Pipeline(t) ==
  /\ future[t] \in {"new", "queued"} => outcomes[t] = << >>
  /\ future[t] = "running" =>
       Len(outcomes[t]) < 5 /\ \A i \in DOMAIN outcomes[t] : outcomes[t][i] = "ok"
  /\ future[t] = "done" =>
       /\ result[t].passed <=> Len(outcomes[t]) = 5 /\ \A i \in DOMAIN outcomes[t] : outcomes[t][i] = "ok"
       /\ result[t].timeout <=> \E i \in DOMAIN outcomes[t] : outcomes[t][i] = "timeout"

\* What the report and the options of the run are at each point of main.
Untested == {"start", "clean", "make", "open", "list"}
Phases ==
  /\ main \in Untested => ~raised /\ reported = << >> /\ \A t \in Tests : future[t] = "new"
  /\ main \in {"start", "clean", "make", "open"} => xml \in {"absent", "old"}
  /\ main \in {"list", "testing", "leave", "close"} => xml = "open"
  /\ main \in {"coverage", "serving"} => xml = "closed" /\ ~raised
  /\ main = "exit" => xml # "open"
  /\ main = "testing" => ~raised
  /\ main \in {"testing", "leave"} => \A t \in Tests : future[t] # "new"

\* Without a pool main runs one test at a time, those before it are reported.
OneByOne ==
  ~multithreading =>
    /\ \A t \in Tests : future[t] \in {"running", "done", "raised"} => \A u \in 1 .. t - 1 : u \in Reported
    /\ main # "testing" => Running = {}

Complete ==
  /\ main \in {"leave", "close", "coverage", "serving"} /\ ~raised => Reported = Tests
  /\ main = "exit" /\ status \in {0, 4} => xml = "closed" /\ Reported = Tests
  /\ main = "exit" /\ xml = "closed" /\ Reported # Tests => status = 1

\* Once main has left the pool nothing runs.
Quiet ==
  main = "close" \/ xml = "closed" =>
    /\ Running = {}
    /\ multithreading =>
         \/ \A t \in Tests : future[t] = "new"
         \/ \A t \in Tests : future[t] \in {"done", "raised"}

Written ==
  /\ \A i, j \in DOMAIN reported : reported[i] = reported[j] => i = j
  /\ \A t \in Reported : future[t] = "done"

\* What the files of one test have come to: none is new before it starts, the
\* assembler has found its input, a pass is earned.
Earned(t) ==
  /\ \A k \in Kinds \ {"s"} : file[t][k] = "new"
  /\ file[t].s = "new" \/ (file[t].s = "old" /\ "s" \in stale[t])
Product(t) ==
  /\ future[t] \in {"new", "queued"} => \A k \in Kinds : file[t][k] # "new"
  /\ future[t] = "running" /\ Len(outcomes[t]) >= 3 => file[t].s # "none"
  /\ future[t] = "done" /\ result[t].passed => Earned(t)
Products == \A t \in Tests : Product(t)

IInv ==
  TypeOK /\ Phases /\ OneByOne /\ Complete /\ Quiet /\ Written /\ OwnArtefacts /\ Products
  /\ \A t \in Tests : Pipeline(t)

-----------------------------------------------------------------------------

LEMMA TestFacts ==
  /\ Drivers \in Nat /\ Workers \in Nat \ {0}
  /\ Path \in [Tests -> Seq(STRING)]
  /\ \A t, u \in Tests : IsPrefix(Path[t], Path[u]) => t = u
  /\ Leavings \in [Tests -> SUBSET SUBSET Kinds]
  BY TestAssumption DEF TestAssumption

\* rmtree of a test's directory leaves those of the others alone.
LEMMA RemovedOwn ==
  ASSUME TypeOK, NEW t \in Tests, NEW left \in SUBSET Kinds
  PROVE  LET after == Removed(Directory(t), [u \in Tests |-> left])
         IN  /\ after \in [Tests -> [Kinds -> {"none", "old", "new"}]]
             /\ after[t] = [k \in Kinds |-> IF k \in left THEN file[t][k] ELSE "none"]
             /\ \A u \in Tests \ {t} : after[u] = file[u]
  <1>1. IsPrefix(Path[t], Path[t])
    BY TestFacts DEF IsPrefix
  <1>2. \A u \in Tests \ {t} : ~IsPrefix(Path[t], Path[u])
    BY TestFacts
  <1>3. \A u \in Tests : [k \in Kinds |-> IF k \in left THEN file[u][k] ELSE "none"]
                        \in [Kinds -> {"none", "old", "new"}]
    BY DEF TypeOK
  <1> QED
    BY <1>1, <1>2, <1>3 DEF Removed, Directory, TypeOK

\* A report of as many entries as there are tests, none twice, has them all.
LEMMA FullReport ==
  ASSUME reported \in Seq(Tests), Len(reported) = Drivers,
         \A i, j \in DOMAIN reported : reported[i] = reported[j] => i = j
  PROVE  Reported = Tests
  <1>1. IsFiniteSet(Tests) /\ Cardinality(Tests) = Drivers
    BY TestFacts, FS_Interval DEF Tests
  <1>2. reported \in [Tests -> Tests] /\ DOMAIN reported = Tests
    BY DEF Tests
  <1>3. Reported \subseteq Tests
    BY <1>2 DEF Reported
  <1>4. IsFiniteSet(Reported)
    BY <1>1, <1>3, FS_Subset
  <1>5. reported \in Bijection(Tests, Reported)
    BY <1>2 DEF Reported, Bijection, Injection, Surjection, IsInjective
  <1>6. Cardinality(Reported) = Cardinality(Tests)
    BY <1>1, <1>4, <1>5, FS_Bijection DEF ExistsBijection
  <1> QED
    BY <1>1, <1>3, <1>6, FS_Subset

LEMMA InitIInv == Init => IInv
  <1> SUFFICES ASSUME Init PROVE IInv
    OBVIOUS
  <1>1. /\ outcomes \in [Tests -> Seq(Outcomes)]
        /\ \A t \in Tests : Len(outcomes[t]) <= 5
    <2>1. << >> \in Seq(Outcomes) /\ Len(<< >>) <= 5
      OBVIOUS
    <2> QED
      BY <2>1 DEF Init
  <1>2. result \in [Tests -> Results]
    BY DEF Init, NoResult, Results
  <1>3. file \in [Tests -> [Kinds -> {"none", "old", "new"}]]
    BY DEF Init
  <1>4. reported \in Seq(Tests) /\ stale \in [Tests -> SUBSET Kinds]
    BY DEF Init
  <1>5. /\ multithreading \in BOOLEAN /\ raised \in BOOLEAN /\ status \in 0 .. 4
        /\ main = "start" /\ xml \in {"absent", "old"}
    <2>1. multithreading \in BOOLEAN /\ raised \in BOOLEAN /\ main = "start"
      BY Zenon DEF Init
    <2>2. status \in 0 .. 4
      BY DEF Init
    <2>3. xml \in {"absent", "old"}
      BY DEF Init
    <2> QED
      BY <2>1, <2>2, <2>3
  <1>6. future \in [Tests -> {"new", "queued", "running", "done", "raised"}]
    BY DEF Init
  <1>7. TypeOK
    BY <1>1, <1>2, <1>3, <1>4, <1>5, <1>6 DEF TypeOK
  <1>8. Products
    BY DEF Init, Products, Product
  <1> QED
    BY <1>5, <1>7, <1>8 DEF Init, IInv, Phases, Untested, OneByOne, Complete, Quiet, Written, OwnArtefacts, Pipeline,
               Running, Reported

-----------------------------------------------------------------------------
\* The steps of main.  Those that touch no test keep what is said of tests.

LEMMA PrepareKeeps == IInv /\ Prepare => IInv'
  <1> SUFFICES ASSUME IInv, Prepare PROVE IInv'
    OBVIOUS
  <1>1. \A t \in Tests : future[t] = "new"
    BY DEF IInv, Phases, Untested, Prepare
  <1>2. /\ file' \in [Tests -> [Kinds -> {"none", "old", "new"}]]
        /\ \A t \in Tests : \A k \in Kinds : file'[t][k] \in {file[t][k], "none"}
    <2>1. PICK left : file' = Removed(<< >>, left)
      BY DEF Prepare
    <2> QED
      BY <2>1 DEF Removed, IInv, TypeOK
  <1>3. TypeOK'
    BY <1>2 DEF IInv, TypeOK, Prepare, Exit
  <1>5. Products'
    <2> SUFFICES ASSUME NEW t \in Tests PROVE Product(t)'
      BY DEF Products
    <2>1. future' = future /\ future[t] = "new"
      BY <1>1 DEF Prepare
    <2>2. \A k \in Kinds : file[t][k] # "new"
      BY <2>1 DEF IInv, Products, Product
    <2>3. \A k \in Kinds : file'[t][k] # "new"
      BY <1>2, <2>2
    <2> QED
      BY <2>1, <2>3 DEF Product
  <1>4. OwnArtefacts' /\ \A t \in Tests : Pipeline(t)'
    BY <1>1 DEF IInv, OwnArtefacts, Running, Pipeline, Prepare
  <1> QED
    BY <1>1, <1>3, <1>4, <1>5
    DEF IInv, Prepare, Exit, Phases, Untested, OneByOne, Complete, Quiet, Written, Running, Reported

LEMMA BuildKeeps ==
  ASSUME IInv, Clean \/ Make \/ Coverage
  PROVE  IInv'
  <1>1. TypeOK'
    BY DEF IInv, TypeOK, Clean, Make, Coverage, BuildStep, Exit, tests
  <1>2. UNCHANGED <<multithreading, raised, tests, reported>>
    BY DEF Clean, Make, Coverage, BuildStep
  <1>3. main \in {"clean", "make", "coverage"} /\ main' \in {"make", "open", "serving", "exit"}
    BY DEF Clean, Make, Coverage, BuildStep, Exit
  <1>4. Phases'
    <2>1. CASE Clean
      BY <1>2, <2>1 DEF IInv, Phases, Untested, Clean, BuildStep, Exit, tests
    <2>2. CASE Make
      BY <1>2, <2>2 DEF IInv, Phases, Untested, Make, BuildStep, Exit, tests
    <2>3. CASE Coverage
      BY <1>2, <2>3 DEF IInv, Phases, Untested, Coverage, BuildStep, Exit, tests
    <2> QED
      BY <2>1, <2>2, <2>3
  <1>5. /\ Written' /\ OwnArtefacts' /\ Products' /\ \A t \in Tests : Pipeline(t)'
        /\ Running' = Running /\ Reported' = Reported
    BY <1>2 DEF IInv, tests, Written, OwnArtefacts, Products, Product, Earned, Pipeline, Running, Reported
  <1>6. OneByOne'
    BY <1>2, <1>3, <1>5 DEF IInv, OneByOne, tests
  <1>7. Complete'
    <2>1. CASE Clean
      BY <1>2, <1>5, <2>1 DEF IInv, Phases, Complete, Clean, BuildStep, Exit
    <2>2. CASE Make
      BY <1>2, <1>5, <2>2 DEF IInv, Phases, Complete, Make, BuildStep, Exit
    <2>3. CASE Coverage
      BY <1>2, <1>5, <2>3 DEF IInv, Phases, Complete, Coverage, BuildStep, Exit
    <2> QED
      BY <2>1, <2>2, <2>3
  <1>8. xml' = "closed" => xml = "closed"
    BY DEF Clean, Make, Coverage, BuildStep, IInv, TypeOK
  <1>9. Quiet'
    BY <1>2, <1>3, <1>5, <1>8 DEF IInv, Quiet, tests
  <1> QED
    BY <1>1, <1>4, <1>5, <1>6, <1>7, <1>9 DEF IInv

LEMMA MainKeeps ==
  ASSUME IInv, OpenXML \/ AllReported \/ Leave \/ CloseXML \/ StopServing \/ \E t \in Tests : Reraise(t)
  PROVE  IInv'
  <1>1. UNCHANGED <<multithreading, tests, reported>>
    BY DEF OpenXML, AllReported, Leave, CloseXML, StopServing, Reraise
  <1>2. TypeOK'
    <2>1. /\ main' \in {"list", "leave", "close", "coverage", "exit"}
          /\ raised' \in BOOLEAN
          /\ status' = status \/ status' \in {0, 1}
          /\ xml' \in {xml, "open", "closed"}
      BY DEF IInv, TypeOK, OpenXML, AllReported, Leave, CloseXML, StopServing, Reraise, Exit
    <2> QED
      BY <1>1, <2>1 DEF IInv, TypeOK, tests
  <1>3. Written' /\ OwnArtefacts' /\ Products' /\ (\A t \in Tests : Pipeline(t)')
        /\ Running' = Running /\ Queued' = Queued /\ Reported' = Reported
    BY <1>1 DEF IInv, tests, Written, OwnArtefacts, Products, Product, Earned, Pipeline, Running, Queued, Reported
  <1>4. CASE OpenXML
    BY <1>1, <1>2, <1>3, <1>4 DEF OpenXML, IInv, Phases, Untested, OneByOne, Complete, Quiet, tests
  <1>5. CASE AllReported
    <2>1. Reported = Tests
      BY <1>5, FullReport DEF AllReported, IInv, TypeOK, Written
    <2>2. Running = {}
      BY <2>1 DEF IInv, Written, Running
    <2> QED
      BY <1>1, <1>2, <1>3, <1>5, <2>1, <2>2
      DEF AllReported, IInv, Phases, Untested, OneByOne, Complete, Quiet, tests
  <1>6. ASSUME NEW t \in Tests, Reraise(t) PROVE IInv'
    <2>1. ~multithreading => Running = {}
      <3> SUFFICES ASSUME ~multithreading, NEW u \in Running PROVE FALSE
        OBVIOUS
      <3>1. u \in Tests /\ u # t /\ t \in Int /\ u \in Int /\ t >= 1 /\ u >= 1
        BY <1>6 DEF Running, Reraise, Tests
      <3>2. CASE u < t
        <4>1. u \in Reported
          BY <1>6, <3>1, <3>2 DEF IInv, OneByOne, Reraise
        <4> QED
          BY <4>1 DEF IInv, Written, Running
      <3>3. CASE t < u
        <4>1. t \in Reported
          BY <3>1, <3>3 DEF IInv, OneByOne, Running
        <4> QED
          BY <1>6, <4>1 DEF IInv, Written, Reraise
      <3> QED
        BY <3>1, <3>2, <3>3
    <2> QED
      BY <1>1, <1>2, <1>3, <1>6, <2>1 DEF Reraise, IInv, Phases, Untested, OneByOne, Complete, Quiet, tests
  <1>7. CASE Leave
    <2>1. Quiet'
      <3>1. multithreading => \A t \in Tests : future[t] \in {"done", "raised"}
        BY <1>7 DEF Leave, IInv, Phases, TypeOK, Running, Queued
      <3>2. Running = {}
        BY <1>7, <3>1 DEF Leave, IInv, OneByOne, Running
      <3> QED
        BY <1>1, <1>3, <3>1, <3>2 DEF Quiet, tests
    <2> QED
      BY <1>1, <1>2, <1>3, <1>7, <2>1 DEF Leave, IInv, Phases, Untested, OneByOne, Complete, tests
  <1>8. CASE CloseXML
    <2>1. Quiet'
      BY <1>1, <1>3, <1>8 DEF CloseXML, IInv, Quiet, tests
    <2> QED
      BY <1>1, <1>2, <1>3, <1>8, <2>1 DEF CloseXML, Exit, IInv, Phases, Untested, OneByOne, Complete, tests
  <1>9. CASE StopServing
    BY <1>1, <1>2, <1>3, <1>9 DEF StopServing, Exit, IInv, Phases, Untested, OneByOne, Complete, Quiet, tests
  <1> QED
    BY <1>4, <1>5, <1>6, <1>7, <1>8, <1>9

-----------------------------------------------------------------------------
\* Steps that change a test or the report.

LEMMA ListKeeps == IInv /\ ListTests => IInv'
  <1> SUFFICES ASSUME IInv, ListTests PROVE IInv'
    OBVIOUS
  <1>1. \A t \in Tests : future[t] = "new"
    BY DEF IInv, Phases, Untested, ListTests
  <1>2. CASE main' = "close" /\ raised' = TRUE /\ UNCHANGED future
    <2>1. /\ TypeOK' /\ Running = {} /\ Running' = {} /\ Reported' = Reported
          /\ UNCHANGED <<multithreading, status, outcomes, result, file, stale, reported, xml>>
      BY <1>1, <1>2 DEF ListTests, IInv, TypeOK, Running, Reported
    <2>2. Phases' /\ xml = "open" /\ main = "list"
      BY <1>1, <1>2, <2>1 DEF ListTests, IInv, Phases, Untested
    <2>3. OneByOne' /\ Complete' /\ Quiet'
      BY <1>1, <1>2, <2>1, <2>2 DEF OneByOne, Complete, Quiet
    <2>4. Written' /\ OwnArtefacts' /\ Products' /\ \A t \in Tests : Pipeline(t)'
      BY <1>1, <1>2, <2>1 DEF IInv, Written, OwnArtefacts, Products, Product, Pipeline
    <2> QED
      BY <2>1, <2>2, <2>3, <2>4 DEF IInv
  <1>3. CASE future' = [t \in Tests |-> "queued"] /\ main' = "testing" /\ raised' = raised
    <2>1. TypeOK'
      BY <1>3 DEF ListTests, IInv, TypeOK
    <2>2. Running' = {}
      BY <1>3 DEF Running
    <2>3. \A t \in Tests : future'[t] = "queued" /\ Pipeline(t)' /\ Product(t)'
      BY <1>1, <1>3 DEF ListTests, IInv, Pipeline, Products, Product
    <2> QED
      BY <1>1, <1>3, <2>1, <2>2, <2>3 DEF ListTests, IInv, Phases, Untested, OneByOne, Complete, Quiet,
                                          Written, OwnArtefacts, Products, Reported
  <1> QED
    BY <1>2, <1>3 DEF ListTests

LEMMA ProcessKeeps ==
  ASSUME IInv, NEW t \in Tests, ProcessResult(t)
  PROVE  IInv'
  <1>1. /\ UNCHANGED <<multithreading, main, raised, status, future, outcomes, result, file, stale, xml>>
        /\ reported' = Append(reported, t) /\ main = "testing" /\ future[t] = "done" /\ t \notin Reported
        /\ reported \in Seq(Tests)
    BY DEF ProcessResult, tests, IInv, TypeOK
  <1>2. reported' \in Seq(Tests) /\ Reported' = Reported \cup {t}
    BY <1>1 DEF Reported
  <1>3. TypeOK'
    BY <1>1, <1>2 DEF IInv, TypeOK
  <1>4. Written'
    <2>1. \A i, j \in DOMAIN reported' : reported'[i] = reported'[j] => i = j
      BY <1>1 DEF IInv, Written, Reported
    <2> QED
      BY <1>1, <1>2, <2>1 DEF IInv, Written
  <1>5. Running' = Running /\ OwnArtefacts' /\ Products' /\ \A u \in Tests : Pipeline(u)'
    BY <1>1 DEF IInv, OwnArtefacts, Products, Product, Earned, Running, Pipeline
  <1>6. Phases' /\ Complete' /\ Quiet' /\ OneByOne'
    BY <1>1, <1>2, <1>5 DEF IInv, Phases, Untested, Complete, Quiet, OneByOne
  <1> QED
    BY <1>3, <1>4, <1>5, <1>6 DEF IInv

\* What a step of a test does to the rest: main is not on its way out, the
\* test was not done, another one is not touched.
LEMMA TestStepKeeps ==
  ASSUME IInv, NEW t \in Tests,
         UNCHANGED <<multithreading, main, raised, status, reported, xml>>,
         future[t] \in {"queued", "running"},
         future' \in [Tests -> {"new", "queued", "running", "done", "raised"}],
         future'[t] \in {"running", "done", "raised"},
         \A u \in Tests \ {t} : future'[u] = future[u],
         future[t] = "queued" => MayStart(t)
  PROVE  Phases' /\ OneByOne' /\ Complete' /\ Quiet' /\ Written'
  <1>1. main \notin Untested
    BY DEF IInv, Phases
  <1>2. t \notin Reported /\ Reported' = Reported
    BY DEF IInv, Written, Reported
  <1>3. Phases' /\ Complete'
    BY <1>1, <1>2 DEF IInv, Phases, Complete, Untested
  <1>4. Written'
    BY <1>2 DEF IInv, Written, Reported, TypeOK
  <1>5. OneByOne'
    <2> SUFFICES ASSUME ~multithreading PROVE OneByOne'
      BY DEF OneByOne
    <2>1. main = "testing"
      BY DEF IInv, OneByOne, MayStart, Running
    <2>2. \A u \in 1 .. t - 1 : u \in Reported
      BY DEF IInv, OneByOne, MayStart
    <2> QED
      BY <1>2, <2>1, <2>2 DEF IInv, OneByOne
  <1>6. Quiet'
    <2>1. ~(main = "close" \/ xml = "closed")
      <3>1. CASE future[t] = "running"
        BY <3>1 DEF IInv, Quiet, Running
      <3>2. CASE future[t] = "queued"
        BY <3>2 DEF IInv, Quiet, Phases, MayStart
      <3> QED
        BY <3>1, <3>2
    <2> QED
      BY <2>1 DEF Quiet
  <1> QED
    BY <1>3, <1>4, <1>5, <1>6

LEMMA StartKeeps ==
  ASSUME IInv, NEW t \in Tests, StartTest(t)
  PROVE  IInv'
  <1>1. /\ UNCHANGED <<multithreading, main, raised, status, outcomes, result, reported, xml>>
        /\ future[t] = "queued" /\ MayStart(t) /\ outcomes[t] = << >>
    BY DEF StartTest, MayStart, Queued, IInv, Pipeline
  <1>2. /\ future' \in [Tests -> {"new", "queued", "running", "done", "raised"}]
        /\ future'[t] \in {"running", "raised"}
        /\ \A u \in Tests \ {t} : future'[u] = future[u]
    BY DEF StartTest, IInv, TypeOK
  <1>3. Phases' /\ OneByOne' /\ Complete' /\ Quiet' /\ Written'
    BY <1>1, <1>2, TestStepKeeps
  <1>4. \A u \in Tests : Pipeline(u)'
    BY <1>1, <1>2 DEF IInv, Pipeline
  <1>l. PICK left \in Leavings[t] :
          LET after == Removed(Directory(t), [u \in Tests |-> left])
          IN  \/ /\ future' = [future EXCEPT ![t] = "running"]
                 /\ file' = [after EXCEPT ![t].dir = "new"]
                 /\ stale' = [stale EXCEPT ![t] = {k \in left : after[t][k] = "old"}]
              \/ /\ future' = [future EXCEPT ![t] = "raised"]
                 /\ file' \in {file, after}
                 /\ UNCHANGED stale
    BY Zenon DEF StartTest
  <1> DEFINE R == Removed(Directory(t), [u \in Tests |-> left])
  <1>s. left \in SUBSET Kinds
    BY TestFacts
  <1>r. /\ R \in [Tests -> [Kinds -> {"none", "old", "new"}]]
        /\ R[t] = [k \in Kinds |-> IF k \in left THEN file[t][k] ELSE "none"]
        /\ \A u \in Tests \ {t} : R[u] = file[u]
    BY <1>s, RemovedOwn DEF IInv
  <1>c. \/ /\ future' = [future EXCEPT ![t] = "running"]
           /\ file' = [R EXCEPT ![t].dir = "new"]
           /\ stale' = [stale EXCEPT ![t] = {k \in left : R[t][k] = "old"}]
        \/ /\ future' = [future EXCEPT ![t] = "raised"]
           /\ file' \in {file, R}
           /\ UNCHANGED stale
    BY <1>l, Zenon
  <1> HIDE DEF R
  <1>q. \A k \in Kinds : file[t][k] # "new"
    BY <1>1 DEF IInv, Products, Product
  <1>5. CASE /\ future' = [future EXCEPT ![t] = "running"]
             /\ file' = [R EXCEPT ![t].dir = "new"]
             /\ stale' = [stale EXCEPT ![t] = {k \in left : R[t][k] = "old"}]
    <2>1. file'[t] = [R[t] EXCEPT !.dir = "new"] /\ \A u \in Tests \ {t} : file'[u] = file[u]
      BY <1>5, <1>r
    <2>2. file' \in [Tests -> [Kinds -> {"none", "old", "new"}]]
      BY <1>5, <1>r DEF Kinds
    <2>3. /\ stale' \in [Tests -> SUBSET Kinds]
          /\ stale'[t] = {k \in left : R[t][k] = "old"}
          /\ \A u \in Tests \ {t} : stale'[u] = stale[u]
      BY <1>5, <1>s DEF IInv, TypeOK
    <2>4. /\ file'[t].dir = "new"
          /\ \A k \in Kinds \ {"dir"} : file'[t][k] # "new" /\ (file'[t][k] = "old" => k \in stale'[t])
      BY <1>q, <1>r, <2>1, <2>3 DEF Kinds
    <2>5. OwnArtefacts'
      <3> SUFFICES ASSUME NEW u \in Running'
                   PROVE  /\ file'[u].dir = "new"
                          /\ \A i \in 2 .. Len(outcomes'[u]) : file'[u][Output[i]] = "new"
                          /\ \A i \in Len(outcomes'[u]) + 1 .. 4 : file'[u][Output[i]] # "new"
                          /\ \A k \in Kinds : file'[u][k] = "old" => k \in stale'[u]
        BY DEF OwnArtefacts
      <3>1. CASE u = t
        <4>1. Len(outcomes'[u]) = 0
          BY <1>1, <3>1
        <4>2. \A i \in 1 .. 4 : Output[i] \in Kinds /\ Output[i] # "dir"
          BY DEF Output, Kinds
        <4>3. \A k \in Kinds : file'[u][k] = "old" => k \in stale'[u]
          BY <2>4, <3>1
        <4>4. \A i \in 1 .. 4 : file'[u][Output[i]] # "new"
          BY <2>4, <3>1, <4>2
        <4> QED
          BY <2>4, <3>1, <4>1, <4>3, <4>4
      <3>2. CASE u # t
        <4>1. u \in Running /\ u \in Tests /\ file'[u] = file[u] /\ stale'[u] = stale[u] /\ outcomes'[u] = outcomes[u]
          BY <1>1, <1>2, <2>1, <2>3, <3>2 DEF Running
        <4> QED
          BY <4>1 DEF IInv, OwnArtefacts
      <3> QED
        BY <3>1, <3>2
    <2>6. Products'
      <3>1. Product(t)'
        BY <1>1, <1>5, <1>2 DEF Product, IInv, TypeOK
      <3>2. \A u \in Tests \ {t} : Product(u)'
        BY <1>1, <1>2, <2>1, <2>3 DEF IInv, Products, Product, Earned
      <3> QED
        BY <3>1, <3>2 DEF Products
    <2> QED
      BY <1>1, <1>2, <1>3, <1>4, <2>2, <2>3, <2>5, <2>6 DEF IInv, TypeOK
  <1>6. CASE future' = [future EXCEPT ![t] = "raised"] /\ file' \in {file, R} /\ UNCHANGED stale
    <2>1. Running' \subseteq Running \ {t} /\ t \notin Running'
      BY <1>1, <1>6 DEF Running, IInv, TypeOK
    <2>2. /\ file' \in [Tests -> [Kinds -> {"none", "old", "new"}]]
          /\ \A u \in Tests \ {t} : file'[u] = file[u]
      BY <1>6, <1>r DEF IInv, TypeOK
    <2>3. OwnArtefacts'
      BY <1>1, <1>6, <2>1, <2>2 DEF IInv, OwnArtefacts, Running
    <2>4. Products'
      <3>1. Product(t)'
        BY <1>2, <1>6 DEF Product, IInv, TypeOK
      <3>2. \A u \in Tests \ {t} : Product(u)'
        BY <1>1, <1>2, <1>6, <2>2 DEF IInv, Products, Product, Earned
      <3> QED
        BY <3>1, <3>2 DEF Products
    <2> QED
      BY <1>1, <1>2, <1>3, <1>4, <1>6, <2>2, <2>3, <2>4 DEF IInv, TypeOK
  <1> QED
    BY <1>c, <1>5, <1>6

LEMMA RaisesKeeps ==
  ASSUME IInv, NEW t \in Tests, StageRaises(t)
  PROVE  IInv'
  <1>1. /\ UNCHANGED <<multithreading, main, raised, status, outcomes, result, file, stale, reported, xml>>
        /\ future[t] = "running" /\ future' = [future EXCEPT ![t] = "raised"]
    BY DEF StageRaises
  <1>2. /\ future' \in [Tests -> {"new", "queued", "running", "done", "raised"}]
        /\ future'[t] = "raised"
        /\ \A u \in Tests \ {t} : future'[u] = future[u]
    BY <1>1 DEF IInv, TypeOK
  <1>3. Phases' /\ OneByOne' /\ Complete' /\ Quiet' /\ Written'
    BY <1>1, <1>2, TestStepKeeps
  <1>4. \A u \in Tests : Pipeline(u)'
    BY <1>1, <1>2 DEF IInv, Pipeline
  <1>5. Running' \subseteq Running
    BY <1>2 DEF Running
  <1>6. OwnArtefacts' /\ Products'
    BY <1>1, <1>2, <1>5 DEF IInv, OwnArtefacts, Products, Product, Earned
  <1> QED
    BY <1>1, <1>2, <1>3, <1>4, <1>6 DEF IInv, TypeOK

LEMMA StageKeeps ==
  ASSUME IInv, NEW t \in Tests, NEW o \in Outcomes, RunStage(t, o)
  PROVE  IInv'
  <1> DEFINE n    == Len(outcomes[t]) + 1
             code == ReturnCode(o)
             ends == code # 0 \/ n = 5
  <1>1. /\ UNCHANGED <<multithreading, main, raised, status, stale, reported, xml>>
        /\ o = "ok" => file[t][Input[Len(outcomes[t]) + 1]] # "none"
        /\ future[t] = "running" /\ outcomes[t] \in Seq(Outcomes)
        /\ n \in 1 .. 5
        /\ \A i \in 1 .. n - 1 : outcomes[t][i] = "ok"
    BY DEF RunStage, IInv, TypeOK, Pipeline
  <1>2. /\ outcomes' = [outcomes EXCEPT ![t] = Append(@, o)]
        /\ outcomes' \in [Tests -> Seq(Outcomes)]
        /\ Len(outcomes'[t]) = n /\ outcomes'[t][n] = o /\ \A i \in 1 .. n - 1 : outcomes'[t][i] = "ok"
        /\ \A u \in Tests \ {t} : outcomes'[u] = outcomes[u]
    BY <1>1 DEF RunStage, IInv, TypeOK
  <1>3. code \in {0, 1, 124} /\ (code = 0 <=> o = "ok")
    BY DEF ReturnCode, Outcomes
  <1>4. /\ future' \in [Tests -> {"new", "queued", "running", "done", "raised"}]
        /\ future'[t] = IF ends THEN "done" ELSE "running"
        /\ result' \in [Tests -> Results]
        /\ ends => result'[t] = [passed |-> code = 0, code |-> code, timeout |-> o = "timeout"]
        /\ \A u \in Tests \ {t} : future'[u] = future[u] /\ result'[u] = result[u]
    <2> DEFINE r == [passed |-> code = 0, code |-> code, timeout |-> o = "timeout"]
    <2>1. r \in Results
      BY <1>3 DEF Results
    <2>2. IF ends THEN Ended(t, "done", r) ELSE UNCHANGED <<future, result>>
      BY Zenon DEF RunStage
    <2>3. /\ future \in [Tests -> {"new", "queued", "running", "done", "raised"}]
          /\ result \in [Tests -> Results]
      BY DEF IInv, TypeOK
    <2> HIDE DEF r, ends
    <2>4. CASE ends
      <3>1. future' = [future EXCEPT ![t] = "done"] /\ result' = [result EXCEPT ![t] = r]
        BY <2>2, <2>4 DEF Ended
      <3>2. /\ result' \in [Tests -> Results] /\ result'[t] = r
            /\ \A u \in Tests \ {t} : result'[u] = result[u]
        BY <2>1, <2>3, <3>1
      <3>3. /\ future' \in [Tests -> {"new", "queued", "running", "done", "raised"}]
            /\ future'[t] = "done"
            /\ \A u \in Tests \ {t} : future'[u] = future[u]
        BY <2>3, <3>1
      <3> QED
        BY <2>4, <3>2, <3>3 DEF r
    <2>5. CASE ~ends
      BY <1>1, <2>2, <2>3, <2>5
    <2> QED
      BY <2>4, <2>5
  <1>5. Output[n] \in Kinds /\ \A i \in 1 .. 4 : Output[i] \in Kinds /\ (Output[i] = Output[n] => i = n)
    BY <1>1 DEF Output, Kinds
  <1>6. /\ file' \in [Tests -> [Kinds -> {"none", "old", "new"}]]
        /\ \A u \in Tests \ {t} : file'[u] = file[u]
        /\ \A k \in Kinds \ {Output[n]} : file'[t][k] = file[t][k]
        /\ file'[t][Output[n]] \in {file[t][Output[n]], "new"}
        /\ o = "ok" /\ n > 1 => file'[t][Output[n]] = "new"
    <2>1. file \in [Tests -> [Kinds -> {"none", "old", "new"}]]
      BY DEF IInv, TypeOK
    <2>2. \/ file' = [file EXCEPT ![t][Output[n]] = "new"]
          \/ file' = file /\ (o # "ok" \/ n = 1)
      BY DEF RunStage
    <2> HIDE DEF n
    <2>3. CASE file' = [file EXCEPT ![t][Output[n]] = "new"]
      BY <1>5, <2>1, <2>3
    <2>4. CASE file' = file /\ (o # "ok" \/ n = 1)
      BY <1>1, <2>1, <2>4
    <2> QED
      BY <2>2, <2>3, <2>4
  <1> HIDE DEF code, n, ends
  <1>7. Phases' /\ OneByOne' /\ Complete' /\ Quiet' /\ Written'
    BY <1>1, <1>4, TestStepKeeps
  <1>8. \A u \in Tests : Pipeline(u)'
    <2>1. Pipeline(t)'
      <3>1. CASE ends
        <4> DEFINE r == [passed |-> code = 0, code |-> code, timeout |-> o = "timeout"]
        <4>r. result'[t] = r
          BY <1>4, <3>1
        <4>p. (r.passed <=> code = 0) /\ (r.timeout <=> o = "timeout")
          BY Zenon
        <4> HIDE DEF r
        <4>1. result'[t].passed <=> o = "ok"
          BY <1>3, <4>r, <4>p, Zenon
        <4>2. result'[t].timeout <=> o = "timeout"
          BY <4>r, <4>p, Zenon
        <4>3. DOMAIN outcomes'[t] = 1 .. n
          BY <1>2
        <4>4. o = "ok" => n = 5
          BY <1>3, <3>1 DEF ends
        <4>5. o = "ok" <=> n = 5 /\ \A i \in 1 .. n : outcomes'[t][i] = "ok"
          BY <1>1, <1>2, <4>4
        <4>6. o = "timeout" <=> \E i \in 1 .. n : outcomes'[t][i] = "timeout"
          BY <1>1, <1>2
        <4> QED
          BY <1>2, <1>4, <3>1, <4>1, <4>2, <4>3, <4>5, <4>6 DEF Pipeline
      <3>2. CASE ~ends
        <4>1. o = "ok" /\ n < 5 /\ DOMAIN outcomes'[t] = 1 .. n
          BY <1>1, <1>2, <1>3, <3>2 DEF ends
        <4> QED
          BY <1>1, <1>2, <1>4, <3>2, <4>1 DEF Pipeline
      <3> QED
        BY <3>1, <3>2
    <2>2. \A u \in Tests \ {t} : Pipeline(u)'
      BY <1>2, <1>4 DEF IInv, Pipeline
    <2> QED
      BY <2>1, <2>2
  <1>a. /\ t \in Running
        /\ file[t].dir = "new"
        /\ \A i \in 2 .. n - 1 : file[t][Output[i]] = "new"
        /\ \A i \in n .. 4 : file[t][Output[i]] # "new"
        /\ \A k \in Kinds : file[t][k] = "old" => k \in stale[t]
    BY <1>1 DEF IInv, OwnArtefacts, Running, n
  <1>b. /\ file'[t].dir = "new"
        /\ \A k \in Kinds : file'[t][k] = "old" => k \in stale'[t]
        /\ o = "ok" => \A i \in 2 .. n : file'[t][Output[i]] = "new"
    <2>1. file'[t].dir = "new"
      BY <1>6, <1>a DEF Kinds
    <2>2. \A k \in Kinds : file'[t][k] = "old" => k \in stale'[t]
      BY <1>1, <1>5, <1>6, <1>a
    <2>3. \A i \in 2 .. n - 1 : file'[t][Output[i]] = "new"
      BY <1>1, <1>5, <1>6, <1>a
    <2>4. o = "ok" /\ n > 1 => file'[t][Output[n]] = "new"
      BY <1>6
    <2> QED
      BY <1>1, <2>1, <2>2, <2>3, <2>4
  <1>9. OwnArtefacts'
    <2> SUFFICES ASSUME NEW u \in Running'
                 PROVE  /\ file'[u].dir = "new"
                        /\ \A i \in 2 .. Len(outcomes'[u]) : file'[u][Output[i]] = "new"
                        /\ \A i \in Len(outcomes'[u]) + 1 .. 4 : file'[u][Output[i]] # "new"
                        /\ \A k \in Kinds : file'[u][k] = "old" => k \in stale'[u]
      BY DEF OwnArtefacts
    <2>1. CASE u # t
      <3>1. u \in Running /\ u \in Tests /\ stale'[u] = stale[u]
        BY <1>1, <1>4, <2>1 DEF Running
      <3> QED
        BY <1>2, <1>6, <2>1, <3>1 DEF IInv, OwnArtefacts
    <2>2. CASE u = t
      <3>1. ~ends
        BY <1>4, <2>2 DEF Running
      <3>2. o = "ok" /\ n \in 1 .. 4
        BY <1>1, <1>3, <3>1 DEF ends
      <3>3. \A i \in n + 1 .. 4 : file'[t][Output[i]] # "new"
        BY <1>5, <1>6, <1>a, <3>2
      <3> QED
        BY <1>2, <1>b, <2>2, <3>2, <3>3
    <2> QED
      BY <2>1, <2>2
  <1>d. Products'
    <2>1. o = "ok" /\ n >= 3 => file'[t].s # "none"
      <3>1. CASE n = 3
        <4>1. o = "ok" => file[t].s # "none"
          BY <1>1, <3>1 DEF Input, n
        <4>2. Output[n] = "o"
          BY <3>1 DEF Output
        <4> QED
          BY <1>6, <4>1, <4>2 DEF Kinds
      <3>2. CASE n \in 4 .. 5
        <4>1. file[t].s # "none"
          BY <1>1, <3>2 DEF IInv, Products, Product, n
        <4>2. Output[n] \in {"exe", "dir"}
          BY <3>2 DEF Output
        <4> QED
          BY <1>6, <4>1, <4>2 DEF Kinds
      <3> QED
        BY <1>1, <3>1, <3>2
    <2>2. future'[t] = "running" /\ Len(outcomes'[t]) >= 3 => file'[t].s # "none"
      BY <1>2, <1>3, <1>4, <2>1 DEF ends
    <2>3. future'[t] = "done" /\ result'[t].passed => Earned(t)'
      <3> SUFFICES ASSUME future'[t] = "done", result'[t].passed PROVE Earned(t)'
        OBVIOUS
      <3>1. ends
        BY <1>4
      <3> DEFINE r == [passed |-> code = 0, code |-> code, timeout |-> o = "timeout"]
      <3>p. r.passed <=> code = 0
        BY Zenon
      <3>q. result'[t] = r
        BY <1>4, <3>1
      <3> HIDE DEF r
      <3>c. code = 0
        BY <3>p, <3>q, Zenon
      <3>2. o = "ok" /\ n = 5
        BY <1>3, <3>1, <3>c DEF ends
      <3>3. file'[t]["gcc.s"] = "new" /\ file'[t].o = "new" /\ file'[t].exe = "new"
        BY <1>b, <3>2 DEF Output
      <3>4. file'[t].s \in {"old", "new"}
        BY <1>6, <2>1, <3>2 DEF Kinds
      <3> QED
        BY <1>b, <3>3, <3>4 DEF Earned, Kinds
    <2>4. Product(t)'
      BY <1>4, <2>2, <2>3 DEF Product
    <2>5. \A u \in Tests \ {t} : Product(u)'
      BY <1>1, <1>2, <1>4, <1>6 DEF IInv, Products, Product, Earned
    <2> QED
      BY <2>4, <2>5 DEF Products
  <1> QED
    <2>1. \A u \in Tests : Len(outcomes'[u]) <= 5
      BY <1>1, <1>2 DEF IInv, TypeOK
    <2> QED
      BY <1>1, <1>2, <1>4, <1>6, <1>7, <1>8, <1>9, <1>d, <2>1 DEF IInv, TypeOK

-----------------------------------------------------------------------------

LEMMA NextKeeps == IInv /\ [Next]_vars => IInv'
  <1> SUFFICES ASSUME IInv, [Next]_vars PROVE IInv'
    OBVIOUS
  <1>1. CASE UNCHANGED vars
    BY <1>1 DEF vars, IInv, TypeOK, Phases, Untested, OneByOne, Complete, Quiet, Written, OwnArtefacts, Pipeline,
                Products, Product, Earned, Running, Reported
  <1>2. CASE MainStep
    BY <1>2, PrepareKeeps, BuildKeeps, ListKeeps, MainKeeps, ProcessKeeps DEF MainStep
  <1>3. CASE StopServing
    BY <1>3, MainKeeps
  <1>4. ASSUME NEW t \in Tests, TestStep(t) PROVE IInv'
    BY <1>4, StartKeeps, RaisesKeeps, StageKeeps DEF TestStep
  <1> QED
    BY <1>1, <1>2, <1>3, <1>4 DEF Next

LEMMA Inductive == Spec => []IInv
  BY InitIInv, NextKeeps, PTL DEF Spec

\* Every state of a run of the script is well formed.
THEOREM TypeCorrect == Spec => []TypeOK
  <1>1. IInv => TypeOK
    BY DEF IInv
  <1> QED
    BY <1>1, Inductive, PTL

\* Whatever the tools do and however the tests interleave, the report has each
\* test at most once, with the verdict of its own five tools.
THEOREM ReportTruthful == Spec => []ReportRight
  <1>1. IInv => ReportRight
    <2> SUFFICES ASSUME IInv PROVE ReportRight
      OBVIOUS
    <2>1. Reported \subseteq Tests
      BY DEF IInv, TypeOK, Reported
    <2> QED
      BY <2>1 DEF IInv, Written, Pipeline, ReportRight
  <1> QED
    BY <1>1, Inductive, PTL

\* Tests that run at the same time do not touch each other's files, and the
\* only files of an earlier run a test sees are those its own rmtree left.
THEOREM NoInterference == Spec => []OwnArtefacts
  <1>1. IInv => OwnArtefacts
    BY DEF IInv
  <1> QED
    BY <1>1, Inductive, PTL

\* A reported pass is earned by assembly the compiler wrote in this run, or by
\* an earlier run's that rmtree left in the directory of that very test.
THEOREM PassesEarned == Spec => []PassEarned
  <1>1. IInv => PassEarned
    <2> SUFFICES ASSUME IInv, NEW t \in Reported, result[t].passed PROVE Earned(t)
      BY DEF PassEarned, Earned
    <2>1. t \in Tests /\ future[t] = "done"
      BY DEF IInv, TypeOK, Reported, Written
    <2> QED
      BY <2>1 DEF IInv, Products, Product
  <1> QED
    BY <1>1, Inductive, PTL

\* Nothing runs once the report is closed, even if it was closed on the way of
\* an exception.
THEOREM PoolDrained == Spec => []QuietWhenClosed
  <1>1. IInv => QuietWhenClosed
    <2> SUFFICES ASSUME IInv, xml = "closed"
                 PROVE  /\ Running = {}
                        /\ multithreading => \/ future = [t \in Tests |-> "new"]
                                             \/ \A t \in Tests : future[t] \in {"done", "raised"}
      BY DEF QuietWhenClosed
    <2>1. (\A t \in Tests : future[t] = "new") => future = [t \in Tests |-> "new"]
      BY DEF IInv, TypeOK
    <2> QED
      BY <2>1 DEF IInv, Quiet
  <1> QED
    BY <1>1, Inductive, PTL

\* An exit status of 0 stands for a closed report with every test in it.
THEOREM StatusTruthful == Spec => []ReportComplete
  <1>1. IInv => ReportComplete
    BY DEF IInv, Complete, Phases, ReportComplete
  <1> QED
    BY <1>1, Inductive, PTL

=============================================================================
