----------------------------- MODULE WorkerPool -----------------------------
(***************************************************************************)
(* The persistent worker pool of src/src/quant_tq2_0.c (g_lut_pool), and   *)
(* the same protocol in src/src/bitnet.c (g_output_pool): one process-wide *)
(* task descriptor, workers that watch a generation counter, rows handed   *)
(* out by an atomic counter, and a counter of workers that have finished.  *)
(* Neither the descriptor nor the matrix rows are protected by anything    *)
(* but this protocol and the mutex that serialises bitnet_eval.            *)
(*                                                                         *)
(* A model step is one access to shared memory.  The acquire and release   *)
(* orders of the code make the plain accesses to the descriptor ordered    *)
(* by the generation and completed counters; that this ordering is enough  *)
(* is what DescriptorStable says.  Spinning, sleeping and the park flag,   *)
(* which only choose how a thread waits, are left out; so is the stop      *)
(* flag, which nothing sets.                                               *)
(***************************************************************************)
EXTENDS Integers, FiniteSets

CONSTANTS
  Workers,      \* the threads init tries to create
  Evals,        \* callers of bitnet_eval: they hold g_eval_mutex
  Projectors,   \* callers of bitnet_project_hidden_to_logits: they do not
  Nobody,       \* no holder of the mutex
  MaxRows,      \* the tallest matrix
  RowCounts,    \* the heights that are dispatched
  Threshold,    \* below this many rows the caller does the work alone
  Chunk,        \* rows taken at a time
  GenMod        \* generation is an unsigned int: it counts modulo GenMod

Callers == Evals \cup Projectors
Threads == Callers \cup Workers
Rows == 0..(MaxRows - 1)

ASSUME ThreadsAssumption ==
  /\ IsFiniteSet(Workers)
  /\ Workers \cap Callers = {}
  /\ Nobody \notin Callers

ASSUME NumbersAssumption ==
  /\ MaxRows \in Nat
  /\ RowCounts \subseteq 1..MaxRows
  /\ Threshold \in Nat
  /\ Chunk \in Nat \ {0}
  /\ GenMod \in Nat \ {0, 1}

VARIABLES
  mutex,       \* the holder of g_eval_mutex
  pool,        \* the workers pthread_create started; n_threads is their number
  generation,  \* atomic: bumped to announce a task
  completed,   \* atomic: workers done with the announced task
  nextRow,     \* atomic: first row nobody has taken
  taskOwner,   \* row_opaque: whose buffers the task is about
  taskRows,    \* out_count
  pc,          \* where each thread is
  seen,        \* seen_generation of each worker
  first,       \* the rows each thread took: from first ...
  last,        \* ... up to, not including, last
  owner,       \* the row_opaque it was given for them
  rows,        \* the height of each caller's matrix
  out          \* how many times each row of a caller's matrix was computed

sync == <<generation, completed, nextRow>>
task == <<taskOwner, taskRows>>
chunk == <<first, last, owner>>
vars == <<mutex, pool, sync, task, chunk, pc, seen, rows, out>>

nThreads == Cardinality(pool)
Pooled(n) == nThreads > 1 /\ n >= Threshold
-----------------------------------------------------------------------------
\* pthread_once runs init before anybody looks at the pool.  Creating a
\* thread may fail, which leaves a smaller pool; "completed" then says that
\* every worker is free.
Init ==
  /\ mutex = Nobody
  /\ pool \in SUBSET Workers
  /\ generation = 0 /\ completed = nThreads /\ nextRow = 0
  /\ taskOwner = Nobody /\ taskRows = 0
  /\ pc = [t \in Threads |-> IF t \in Workers THEN "wait" ELSE "away"]
  /\ seen = [w \in Workers |-> 0]
  /\ first = [t \in Threads |-> 0] /\ last = [t \in Threads |-> 0]
  /\ owner = [t \in Threads |-> Nobody]
  /\ rows = [c \in Callers |-> 0]
  /\ out = [c \in Callers |-> [r \in Rows |-> 0]]

Goto(t, from, to) == pc[t] = from /\ pc' = [pc EXCEPT ![t] = to]

\* bitnet_eval takes the mutex, the projection does not.
Enter(c) ==
  /\ Goto(c, "away", "ready")
  /\ c \in Evals => mutex = Nobody
  /\ mutex' = IF c \in Evals THEN c ELSE mutex
  /\ UNCHANGED <<pool, sync, task, chunk, seen, rows, out>>

\* The matrix is the caller's own again, and no longer of interest.
Leave(c) ==
  /\ Goto(c, "ready", "away")
  /\ mutex' = IF c \in Evals THEN Nobody ELSE mutex
  /\ rows' = [rows EXCEPT ![c] = 0]
  /\ out' = [out EXCEPT ![c] = [r \in Rows |-> 0]]
  /\ UNCHANGED <<pool, sync, task, chunk, seen>>

\* A product of n rows; "ready" again means that it returned.
Call(c, n) ==
  /\ Goto(c, "ready", IF Pooled(n) THEN "await" ELSE "alone")
  /\ rows' = [rows EXCEPT ![c] = n]
  /\ out' = [out EXCEPT ![c] = [r \in Rows |-> 0]]
  /\ UNCHANGED <<mutex, pool, sync, task, chunk, seen>>

Alone(c) ==
  /\ Goto(c, "alone", "ready")
  /\ out' = [out EXCEPT ![c] = [r \in Rows |-> IF r < rows[c] THEN 1 ELSE 0]]
  /\ UNCHANGED <<mutex, pool, sync, task, chunk, seen, rows>>

\* The wait for the previous task, before anything is written.
Await(c) ==
  /\ Goto(c, "await", "owner")
  /\ completed >= nThreads
  /\ UNCHANGED <<mutex, pool, sync, task, chunk, seen, rows, out>>

SetOwner(c) ==
  /\ Goto(c, "owner", "rows")
  /\ taskOwner' = c
  /\ UNCHANGED <<mutex, pool, sync, taskRows, chunk, seen, rows, out>>

SetRows(c) ==
  /\ Goto(c, "rows", "next_row")
  /\ taskRows' = rows[c]
  /\ UNCHANGED <<mutex, pool, sync, taskOwner, chunk, seen, rows, out>>

ResetNextRow(c) ==
  /\ Goto(c, "next_row", "completed")
  /\ nextRow' = 0
  /\ UNCHANGED <<mutex, pool, generation, completed, task, chunk, seen, rows, out>>

\* Fault of ResetCompleted: the counter keeps the last task's value.
ResetCompletedNot(c) ==
  /\ Goto(c, "completed", "generation")
  /\ UNCHANGED <<mutex, pool, sync, task, chunk, seen, rows, out>>

ResetCompleted(c) ==
  /\ Goto(c, "completed", "generation")
  /\ completed' = 0
  /\ UNCHANGED <<mutex, pool, generation, nextRow, task, chunk, seen, rows, out>>

\* atomic_fetch_add on an unsigned int.
Bumped(g) == IF g = GenMod - 1 THEN 0 ELSE g + 1

\* Fault of Announce: the generation is not bumped.
AnnounceNothing(c) ==
  /\ Goto(c, "generation", "take")
  /\ UNCHANGED <<mutex, pool, sync, task, chunk, seen, rows, out>>

\* The dispatcher announces the task and takes part in it.
Announce(c) ==
  /\ Goto(c, "generation", "take")
  /\ generation' = Bumped(generation)
  /\ UNCHANGED <<mutex, pool, completed, nextRow, task, chunk, seen, rows, out>>

\* Fault of Join: the last worker is not waited for.
JoinAllButOne(c) ==
  /\ Goto(c, "join", "ready")
  /\ completed >= nThreads - 1
  /\ UNCHANGED <<mutex, pool, sync, task, chunk, seen, rows, out>>

Join(c) ==
  /\ Goto(c, "join", "ready")
  /\ completed >= nThreads
  /\ UNCHANGED <<mutex, pool, sync, task, chunk, seen, rows, out>>

\* Fault of Take: the counter advances by one row, whatever is taken.
TakeOne(t) ==
  /\ Goto(t, "take", "look")
  /\ first' = [first EXCEPT ![t] = nextRow]
  /\ nextRow' = nextRow + 1
  /\ UNCHANGED <<mutex, pool, generation, completed, task, last, owner, seen, rows, out>>

\* run_chunks, in the dispatcher and in the workers: an atomic fetch-and-add,
\* then the descriptor is read, then the rows are computed.  The local
\* variables of a round are cleared when they go out of scope.
Take(t) ==
  /\ Goto(t, "take", "look")
  /\ first' = [first EXCEPT ![t] = nextRow]
  /\ nextRow' = nextRow + Chunk
  /\ UNCHANGED <<mutex, pool, generation, completed, task, last, owner, seen, rows, out>>

Smaller(a, b) == IF a < b THEN a ELSE b

Look(t) ==
  /\ first[t] < taskRows
  /\ Goto(t, "look", "compute")
  /\ last' = [last EXCEPT ![t] = Smaller(first[t] + Chunk, taskRows)]
  /\ owner' = [owner EXCEPT ![t] = taskOwner]
  /\ UNCHANGED <<mutex, pool, sync, task, first, seen, rows, out>>

NoMore(t) ==
  /\ first[t] >= taskRows
  /\ Goto(t, "look", IF t \in Workers THEN "report" ELSE "join")
  /\ first' = [first EXCEPT ![t] = 0]
  /\ UNCHANGED <<mutex, pool, sync, task, last, owner, seen, rows, out>>

Compute(t) ==
  /\ Goto(t, "compute", "take")
  /\ out' = [out EXCEPT ![owner[t]] =
               [r \in Rows |-> IF r \in first[t]..(last[t] - 1)
                              THEN out[owner[t]][r] + 1 ELSE out[owner[t]][r]]]
  /\ first' = [first EXCEPT ![t] = 0]
  /\ last' = [last EXCEPT ![t] = 0]
  /\ owner' = [owner EXCEPT ![t] = Nobody]
  /\ UNCHANGED <<mutex, pool, sync, task, seen, rows>>

\* The worker's loop condition, and the second load of the counter after it.
Notice(w) ==
  /\ generation # seen[w]
  /\ Goto(w, "wait", "adopt")
  /\ UNCHANGED <<mutex, pool, sync, task, chunk, seen, rows, out>>

Adopt(w) ==
  /\ Goto(w, "adopt", "take")
  /\ seen' = [seen EXCEPT ![w] = generation]
  /\ UNCHANGED <<mutex, pool, sync, task, chunk, rows, out>>

Report(w) ==
  /\ Goto(w, "report", "wait")
  /\ completed' = completed + 1
  /\ UNCHANGED <<mutex, pool, generation, nextRow, task, chunk, seen, rows, out>>

CallerStep(c) ==
  \/ Await(c) \/ SetOwner(c) \/ SetRows(c) \/ ResetNextRow(c)
  \/ ResetCompleted(c) \/ Announce(c) \/ Join(c) \/ Alone(c)

RunChunks(t) == Take(t) \/ Look(t) \/ NoMore(t) \/ Compute(t)

WorkerStep(w) == Notice(w) \/ Adopt(w) \/ Report(w)

Next ==
  \/ \E c \in Callers : Enter(c) \/ Leave(c) \/ \E n \in RowCounts : Call(c, n)
  \/ \E c \in Callers : CallerStep(c)
  \/ \E w \in pool : WorkerStep(w)
  \/ \E t \in Callers \cup pool : RunChunks(t)

Spec == Init /\ [][Next]_vars

(***************************************************************************)
(* The scheduler runs every thread that can take a step: the waits are     *)
(* loops that keep testing their condition, and nothing else blocks.  When *)
(* a caller enters, calls or leaves is its own affair, and the mutex       *)
(* promises no order, so nothing is assumed of those steps.                *)
(***************************************************************************)
FairSpec ==
  /\ Spec
  /\ \A c \in Callers : WF_vars(CallerStep(c)) /\ WF_vars(RunChunks(c))
  /\ \A w \in Workers : WF_vars(w \in pool /\ (WorkerStep(w) \/ RunChunks(w)))
-----------------------------------------------------------------------------
Places == {"away", "ready", "alone", "await", "owner", "rows", "next_row",
           "completed", "generation", "take", "look", "compute", "join",
           "wait", "adopt", "report"}

\* Every variable has its type.
TypeOK ==
  /\ mutex \in Evals \cup {Nobody}
  /\ pool \in SUBSET Workers
  /\ generation \in 0..(GenMod - 1)
  /\ completed \in Nat
  /\ nextRow \in Nat
  /\ taskOwner \in Callers \cup {Nobody}
  /\ taskRows \in 0..MaxRows
  /\ pc \in [Threads -> Places]
  /\ seen \in [Workers -> 0..(GenMod - 1)]
  /\ first \in [Threads -> Nat]
  /\ last \in [Threads -> Nat]
  /\ owner \in [Threads -> Callers \cup {Nobody}]
  /\ rows \in [Callers -> 0..MaxRows]
  /\ out \in [Callers -> [Rows -> Nat]]

Writing == {"owner", "rows", "next_row", "completed", "generation"}
Reading == {"adopt", "take", "look", "compute"}

\* No thread reads the task descriptor or takes rows while a dispatcher is
\* preparing the next task, and only one dispatcher prepares a task at a
\* time.  "Independent contexts cannot overwrite in-flight tasks" (bitnet.c).
DescriptorStable ==
  \A c \in Callers : pc[c] \in Writing =>
    \A t \in Threads \ {c} : pc[t] \notin Writing \cup Reading

\* When the product returns to its caller, every row of the matrix has been
\* computed exactly once, into that caller's buffer, and nothing beyond it.
RowsOnce ==
  \A c \in Callers : pc[c] = "ready" =>
    \A r \in Rows : out[c][r] = IF r < rows[c] THEN 1 ELSE 0

\* Once the product has returned nobody computes for that caller any more: its
\* task (a variable on its stack, in bitnet_matmul_q8k_prepared) is gone.
NoLateWriter ==
  \A c \in Callers : pc[c] \in {"away", "ready"} =>
    \A t \in Threads : pc[t] = "compute" => owner[t] # c

\* A product that was started returns: no wake-up is lost, also when the
\* generation counter wraps.
CallReturns ==
  \A c \in Callers : pc[c] \notin {"away", "ready"} ~> pc[c] = "ready"
=============================================================================
