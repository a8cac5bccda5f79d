---------------------------- MODULE SSHScheduler ----------------------------
(***************************************************************************)
(* benchmax's SSH scheduler (src/benchmax/newssh/SSHScheduler.h): worker   *)
(* threads run executeJob concurrently; get() takes the scheduler mutex    *)
(* and polls the connections, sleeping with the mutex held, until one has  *)
(* a free job slot, claims it (newJob) and returns; the job then runs on   *)
(* that connection without the mutex and ends with finishJob.              *)
(*                                                                         *)
(* The connections are built by the constructor from the node             *)
(* specifications through getNode.  SSHConnection (not in this            *)
(* repository) is modelled by its job counter: jobFree is "fewer running  *)
(* jobs than the node has cores", newJob and finishJob count up and down. *)
(* A node specification gives port, cores and connections as a number,   *)
(* Absent, or Huge (digits stoul cannot represent).  The remote steps of a *)
(* job (createTmpDir, uploadFile, removeDir) may throw; nothing in        *)
(* executeJob catches it, so the exception leaves executeJob between get() *)
(* and finishJob.                                                          *)
(***************************************************************************)
EXTENDS Integers, Sequences, SequencesExt, FiniteSets

CONSTANTS
    Threads,        \* the worker threads calling executeJob
    JobsPerThread,  \* jobs (benchmark files) each thread executes
    NodeSpecs,      \* Settings::ssh_nodes, parsed: a sequence of records
    None,           \* no thread holds the mutex
    MaxThrows       \* bound on the jobs whose remote steps throw

VARIABLES
    lockHolder,     \* the thread holding SSHScheduler::mutex, or None
    running,        \* running[i]: jobs connection i currently runs
    pc,             \* pc[t]: where thread t is in executeJob
    conn,           \* conn[t]: the connection get() returned to t
    left,           \* left[t]: jobs thread t has still to execute
    thrown          \* jobs whose remote steps threw so far

vars == <<lockHolder, running, pc, conn, left, thrown>>

-----------------------------------------------------------------------------
(* getNode and the constructor.                                            *)

\* Field values that are no number: not given, and out of stoul's range.
Absent == -1
Huge == -2

\* The port as stored in Node: the cast to unsigned short.
PortOf(p) == p % 65536

\* getNode: defaults port 22, one core, one connection; the fields are
\* converted in order, and an out-of-range value leaves it and the fields
\* after it at their defaults (the exception is caught and logged).
getNode(s) ==
    LET fail == CHOOSE i \in 1..4 : i = 4 \/ <<s.port, s.cores, s.connections>>[i] = Huge
        Field(i, v, d) == IF i < fail /\ v # Absent THEN v ELSE d
    IN  [port        |-> PortOf(Field(1, s.port, 22)),
         cores       |-> Field(2, s.cores, 1),
         connections |-> Field(3, s.connections, 1)]

\* SSHScheduler(): n.connections connections per node, in order.
Connections ==
    FoldLeft(LAMBDA acc, s :
                acc \o [i \in 1..getNode(s).connections |-> getNode(s).cores],
             <<>>, NodeSpecs)

Cores(i) == Connections[i]

\* SSHConnection::jobFree
jobFree(i) == running[i] < Cores(i)

-----------------------------------------------------------------------------
(* Worker threads.                                                         *)

Init ==
    /\ lockHolder = None
    /\ running = [i \in DOMAIN Connections |-> 0]
    /\ pc = [t \in Threads |-> "idle"]
    /\ conn = [t \in Threads |-> 0]
    /\ left = [t \in Threads |-> JobsPerThread]
    /\ thrown = 0

\* executeJob calls get(), which blocks on the scheduler mutex.
executeJob(t) ==
    /\ pc[t] = "idle"
    /\ left[t] > 0
    /\ pc' = [pc EXCEPT ![t] = "lock"]
    /\ UNCHANGED <<lockHolder, running, conn, left, thrown>>

\* Mutation: get() without the lock_guard.
MutexFreeAlways(t) == TRUE

\* std::lock_guard: the mutex is free.
MutexFree(t) == lockHolder = None

lockMutex(t) ==
    /\ pc[t] = "lock"
    /\ MutexFree(t)
    /\ lockHolder' = t
    /\ pc' = [pc EXCEPT ![t] = "poll"]
    /\ UNCHANGED <<running, conn, left, thrown>>

\* One pass of get()'s loop finds the first connection with a free slot;
\* a pass finding none sleeps and tries again, holding the mutex (a
\* stuttering step: this action is not enabled then).
poll(t) ==
    /\ pc[t] = "poll"
    /\ \E i \in DOMAIN running : jobFree(i)
    /\ LET i == CHOOSE i \in DOMAIN running :
                    jobFree(i) /\ \A k \in 1..i - 1 : ~jobFree(k)
       IN  conn' = [conn EXCEPT ![t] = i]
    /\ pc' = [pc EXCEPT ![t] = "claim"]
    /\ UNCHANGED <<lockHolder, running, left, thrown>>

\* c->newJob(); return c; (the lock_guard releases the mutex).
claim(t) ==
    /\ pc[t] = "claim"
    /\ running' = [running EXCEPT ![conn[t]] = @ + 1]
    /\ lockHolder' = None
    /\ pc' = [pc EXCEPT ![t] = "run"]
    /\ UNCHANGED <<conn, left, thrown>>

\* Mutation: the slot is never given back.
finishJobLeaking(t) ==
    /\ pc[t] = "run"
    /\ left' = [left EXCEPT ![t] = @ - 1]
    /\ pc' = [pc EXCEPT ![t] = "idle"]
    /\ UNCHANGED <<lockHolder, conn, running, thrown>>

\* The job on the connection (temporary folder, upload, execution, clean
\* up, result), then c->finishJob().
finishJob(t) ==
    /\ pc[t] = "run"
    /\ running' = [running EXCEPT ![conn[t]] = @ - 1]
    /\ left' = [left EXCEPT ![t] = @ - 1]
    /\ pc' = [pc EXCEPT ![t] = "idle"]
    /\ UNCHANGED <<lockHolder, conn, thrown>>

\* A remote step of the job throws: the exception propagates out of
\* executeJob to its caller, which goes on with its next job; finishJob is
\* never called and the connection's slot stays taken.
jobThrows(t) ==
    /\ pc[t] = "run"
    /\ thrown < MaxThrows
    /\ thrown' = thrown + 1
    /\ left' = [left EXCEPT ![t] = @ - 1]
    /\ pc' = [pc EXCEPT ![t] = "idle"]
    /\ UNCHANGED <<lockHolder, conn, running>>

Step(t) ==
    executeJob(t) \/ lockMutex(t) \/ poll(t) \/ claim(t) \/ finishJob(t) \/ jobThrows(t)

\* Every job done: the run is over.
Finished == \A t \in Threads : pc[t] = "idle" /\ left[t] = 0

Next == (\E t \in Threads : Step(t)) \/ (Finished /\ UNCHANGED vars)

\* The operating system keeps running every runnable thread.
Spec == Init /\ [][Next]_vars /\ \A t \in Threads : WF_vars(Step(t))

-----------------------------------------------------------------------------
(* Properties.                                                             *)

TypeOK ==
    /\ lockHolder \in Threads \cup {None}
    /\ running \in [DOMAIN Connections -> Nat]
    /\ pc \in [Threads -> {"idle", "lock", "poll", "claim", "run"}]
    /\ conn \in [Threads -> 0..Len(Connections)]
    /\ left \in [Threads -> 0..JobsPerThread]
    /\ thrown \in 0..MaxThrows

\* No connection runs more jobs than its node has cores: get()'s check of
\* jobFree and its newJob are one step for the other threads.
WithinCores ==
    \A i \in DOMAIN running : running[i] <= Cores(i)

\* Every call of executeJob returns (or throws): a thread waiting for the
\* mutex or polling for a slot eventually gets a connection and leaves
\* executeJob, also after earlier jobs have thrown and kept their slots.
ExecuteJobReturns ==
    \A t \in Threads : pc[t] = "lock" ~> pc[t] = "idle"

=============================================================================
