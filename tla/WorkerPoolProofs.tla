-------------------------- MODULE WorkerPoolProofs --------------------------
(***************************************************************************)
(* Proofs about WorkerPool, for any number of workers, callers and rows,   *)
(* when every caller holds g_eval_mutex (Projectors = {}).                 *)
(***************************************************************************)
EXTENDS WorkerPool, FiniteSetTheorems, TLAPS

Working == {"take", "look", "compute", "join"}
Preparing == {"await"} \cup Writing
Busy(c) == pc[c] \in Working
Quiet == \A c \in Callers : ~Busy(c)

\* The workers that are done with the announced task, or wait for the first.
Idle == {w \in pool : pc[w] = "wait" /\ seen[w] = generation}

\* Thread t took rows that are not computed yet.
Holds(t) == pc[t] \in {"look", "compute"}
Covers(t, r) == Holds(t) /\ first[t] <= r /\ r < first[t] + Chunk

\* Only the caller that holds the mutex is inside.
MutexInv == \A c \in Callers : pc[c] # "away" => mutex = c

\* Workers and callers keep to their own part of the code.
PlacesInv ==
  /\ \A w \in Workers : pc[w] \in {"wait", "adopt", "take", "look", "compute", "report"}
  /\ \A c \in Callers : pc[c] \notin {"wait", "adopt", "report"}
  /\ \A w \in Workers \ pool : pc[w] = "wait"

\* Between tasks every worker is free; within one it is before it (it has seen
\* another generation), in it, or done.
SeenInv ==
  /\ Quiet => Idle = pool
  /\ \A w \in pool : pc[w] \in {"take", "look", "compute", "report"} => seen[w] = generation
  /\ \A w \in pool : pc[w] = "adopt" => seen[w] # generation

\* "completed" is the number of free workers, but for the moment between its
\* reset and the announcement of the task.
CountInv ==
  completed = IF \E c \in Callers : pc[c] = "generation" THEN 0 ELSE Cardinality(Idle)

\* The descriptor is the one of the caller inside.
TaskInv ==
  \A c \in Callers :
    /\ pc[c] \in Preparing \cup Working => Pooled(rows[c])
    /\ pc[c] \in Working \cup {"rows", "next_row", "completed", "generation"}
         => taskOwner = c
    /\ pc[c] \in Working \cup {"next_row", "completed", "generation"}
         => taskRows = rows[c]
    /\ pc[c] \in {"completed", "generation"} => nextRow = 0
    /\ pc[c] = "away" => rows[c] = 0

\* Rows that are held were taken from the counter, and by one thread.
ChunkInv ==
  /\ \A t \in Threads : Holds(t) => first[t] + Chunk <= nextRow
  /\ \A t \in Threads : pc[t] = "compute" =>
       /\ last[t] = Smaller(first[t] + Chunk, taskRows)
       /\ owner[t] = taskOwner
  /\ \A t, u \in Threads : t # u /\ Holds(t) /\ Holds(u) =>
       first[t] + Chunk <= first[u] \/ first[u] + Chunk <= first[t]

\* A thread is done only when no rows are left to take.
DoneInv ==
  \A c \in Callers : Busy(c) =>
    /\ pc[c] = "join" => nextRow >= rows[c]
    /\ \A w \in pool : pc[w] = "report" \/ w \in Idle => nextRow >= rows[c]

\* The rows computed so far are those taken and no longer held.
OutInv ==
  \A c \in Callers : \A r \in Rows :
    /\ Busy(c) => out[c][r] = IF /\ r < rows[c] /\ r < nextRow
                                 /\ \A t \in Threads : ~Covers(t, r)
                              THEN 1 ELSE 0
    /\ pc[c] \in Preparing \cup {"alone", "away"} => out[c][r] = 0

IInv ==
  /\ TypeOK /\ MutexInv /\ PlacesInv /\ SeenInv /\ CountInv /\ TaskInv
  /\ ChunkInv /\ DoneInv /\ OutInv /\ RowsOnce
-----------------------------------------------------------------------------
\* While a caller is inside, every other caller is away.
LEMMA OthersAway ==
  ASSUME Projectors = {}, MutexInv, NEW c \in Callers, pc[c] # "away"
  PROVE  \A d \in Callers : d # c => pc[d] = "away"
BY DEF MutexInv

\* Enter keeps the invariant.
LEMMA EnterKeeps ==
  ASSUME Projectors = {}, IInv, NEW c \in Callers, Enter(c)
  PROVE  IInv'
<1> USE ThreadsAssumption, NumbersAssumption DEF Enter, Goto, IInv, sync, task, chunk, Threads, Callers
<1>a. \A d \in Callers : d # c => pc[d] = "away"
  BY OthersAway DEF MutexInv, TypeOK
<1>b. /\ c \in Threads /\ c \notin Workers /\ pc \in [Threads -> Places]
      /\ pool \in SUBSET Workers
  BY DEF TypeOK
<1>1. TypeOK'
  BY <1>a, <1>b DEF TypeOK, Places, Threads, sync, task, chunk
<1>2. MutexInv'
  BY <1>a, <1>b DEF MutexInv, TypeOK
<1>3. PlacesInv'
  BY <1>a, <1>b DEF PlacesInv, TypeOK
<1>4. SeenInv'
  BY <1>a, <1>b DEF SeenInv, Quiet, Idle, Busy, Working, TypeOK
<1>5. CountInv'
  <2>1. Idle' = Idle
    BY <1>a, <1>b DEF Idle, TypeOK
  <2>2. (\E d \in Callers : pc'[d] = "generation") <=> \E d \in Callers : pc[d] = "generation"
    BY <1>a, <1>b DEF TypeOK
  <2> QED
    BY <2>1, <2>2 DEF CountInv
<1>6. TaskInv'
  BY <1>a, <1>b DEF TaskInv, Preparing, Working, Writing, Pooled, nThreads, TypeOK
<1>7. ChunkInv'
  BY <1>a, <1>b DEF ChunkInv, Holds, TypeOK
<1>8. DoneInv'
  BY <1>a, <1>b DEF DoneInv, Busy, Working, Idle, TypeOK
<1>9. OutInv'
  BY <1>a, <1>b DEF OutInv, Busy, Working, Preparing, Writing, Covers, Holds, TypeOK
<1>10. RowsOnce'
  BY <1>a, <1>b DEF RowsOnce, TypeOK, OutInv, TaskInv, Rows
<1> QED
  BY <1>1, <1>2, <1>3, <1>4, <1>5, <1>6, <1>7, <1>8, <1>9, <1>10

\* Leave keeps the invariant.
LEMMA LeaveKeeps ==
  ASSUME Projectors = {}, IInv, NEW c \in Callers, Leave(c)
  PROVE  IInv'
<1> USE ThreadsAssumption, NumbersAssumption DEF Leave, Goto, IInv, sync, task, chunk, Threads, Callers
<1>a. \A d \in Callers : d # c => pc[d] = "away"
  BY OthersAway DEF MutexInv, TypeOK
<1>b. /\ c \in Threads /\ c \notin Workers /\ pc \in [Threads -> Places]
      /\ pool \in SUBSET Workers
  BY DEF TypeOK
<1>1. TypeOK'
  BY <1>a, <1>b DEF TypeOK, Places, Threads, sync, task, chunk
<1>2. MutexInv'
  BY <1>a, <1>b DEF MutexInv, TypeOK
<1>3. PlacesInv'
  BY <1>a, <1>b DEF PlacesInv, TypeOK
<1>4. SeenInv'
  BY <1>a, <1>b DEF SeenInv, Quiet, Idle, Busy, Working, TypeOK
<1>5. CountInv'
  <2>1. Idle' = Idle
    BY <1>a, <1>b DEF Idle, TypeOK
  <2>2. (\E d \in Callers : pc'[d] = "generation") <=> \E d \in Callers : pc[d] = "generation"
    BY <1>a, <1>b DEF TypeOK
  <2> QED
    BY <2>1, <2>2 DEF CountInv
<1>6. TaskInv'
  BY <1>a, <1>b DEF TaskInv, Preparing, Working, Writing, Pooled, nThreads, TypeOK
<1>7. ChunkInv'
  BY <1>a, <1>b DEF ChunkInv, Holds, TypeOK
<1>8. DoneInv'
  BY <1>a, <1>b DEF DoneInv, Busy, Working, Idle, TypeOK
<1>9. OutInv'
  BY <1>a, <1>b DEF OutInv, Busy, Working, Preparing, Writing, Covers, Holds, TypeOK
<1>10. RowsOnce'
  BY <1>a, <1>b DEF RowsOnce, TypeOK
<1> QED
  BY <1>1, <1>2, <1>3, <1>4, <1>5, <1>6, <1>7, <1>8, <1>9, <1>10

\* Call keeps the invariant.
LEMMA CallKeeps ==
  ASSUME Projectors = {}, IInv, NEW c \in Callers, NEW n \in RowCounts, Call(c, n)
  PROVE  IInv'
<1> USE ThreadsAssumption, NumbersAssumption DEF Call, Goto, IInv, sync, task, chunk, Threads, Callers
<1>a. \A d \in Callers : d # c => pc[d] = "away"
  BY OthersAway DEF MutexInv, TypeOK
<1>b. /\ c \in Threads /\ c \notin Workers /\ pc \in [Threads -> Places]
      /\ pool \in SUBSET Workers
  BY DEF TypeOK
<1>1. TypeOK'
  BY <1>a, <1>b DEF TypeOK, Places, Threads, sync, task, chunk
<1>2. MutexInv'
  BY <1>a, <1>b DEF MutexInv, TypeOK
<1>3. PlacesInv'
  BY <1>a, <1>b DEF PlacesInv, TypeOK
<1>4. SeenInv'
  BY <1>a, <1>b DEF SeenInv, Quiet, Idle, Busy, Working, TypeOK
<1>5. CountInv'
  <2>1. Idle' = Idle
    BY <1>a, <1>b DEF Idle, TypeOK
  <2>2. (\E d \in Callers : pc'[d] = "generation") <=> \E d \in Callers : pc[d] = "generation"
    BY <1>a, <1>b DEF TypeOK
  <2> QED
    BY <2>1, <2>2 DEF CountInv
<1>6. TaskInv'
  BY <1>a, <1>b DEF TaskInv, Preparing, Working, Writing, Pooled, nThreads, TypeOK
<1>7. ChunkInv'
  BY <1>a, <1>b DEF ChunkInv, Holds, TypeOK
<1>8. DoneInv'
  BY <1>a, <1>b DEF DoneInv, Busy, Working, Idle, TypeOK
<1>9. OutInv'
  BY <1>a, <1>b DEF OutInv, Busy, Working, Preparing, Writing, Covers, Holds, TypeOK
<1>10. RowsOnce'
  BY <1>a, <1>b DEF RowsOnce, TypeOK
<1> QED
  BY <1>1, <1>2, <1>3, <1>4, <1>5, <1>6, <1>7, <1>8, <1>9, <1>10

\* Alone keeps the invariant.
LEMMA AloneKeeps ==
  ASSUME Projectors = {}, IInv, NEW c \in Callers, Alone(c)
  PROVE  IInv'
<1> USE ThreadsAssumption, NumbersAssumption DEF Alone, Goto, IInv, sync, task, chunk, Threads, Callers
<1>a. \A d \in Callers : d # c => pc[d] = "away"
  BY OthersAway DEF MutexInv, TypeOK
<1>b. /\ c \in Threads /\ c \notin Workers /\ pc \in [Threads -> Places]
      /\ pool \in SUBSET Workers
  BY DEF TypeOK
<1>1. TypeOK'
  BY <1>a, <1>b DEF TypeOK, Places, Threads, sync, task, chunk
<1>2. MutexInv'
  BY <1>a, <1>b DEF MutexInv, TypeOK
<1>3. PlacesInv'
  BY <1>a, <1>b DEF PlacesInv, TypeOK
<1>4. SeenInv'
  BY <1>a, <1>b DEF SeenInv, Quiet, Idle, Busy, Working, TypeOK
<1>5. CountInv'
  <2>1. Idle' = Idle
    BY <1>a, <1>b DEF Idle, TypeOK
  <2>2. (\E d \in Callers : pc'[d] = "generation") <=> \E d \in Callers : pc[d] = "generation"
    BY <1>a, <1>b DEF TypeOK
  <2> QED
    BY <2>1, <2>2 DEF CountInv
<1>6. TaskInv'
  BY <1>a, <1>b DEF TaskInv, Preparing, Working, Writing, Pooled, nThreads, TypeOK
<1>7. ChunkInv'
  BY <1>a, <1>b DEF ChunkInv, Holds, TypeOK
<1>8. DoneInv'
  BY <1>a, <1>b DEF DoneInv, Busy, Working, Idle, TypeOK
<1>9. OutInv'
  BY <1>a, <1>b DEF OutInv, Busy, Working, Preparing, Writing, Covers, Holds, TypeOK
<1>10. RowsOnce'
  BY <1>a, <1>b DEF RowsOnce, TypeOK
<1> QED
  BY <1>1, <1>2, <1>3, <1>4, <1>5, <1>6, <1>7, <1>8, <1>9, <1>10

\* Await keeps the invariant.
LEMMA AwaitKeeps ==
  ASSUME Projectors = {}, IInv, NEW c \in Callers, Await(c)
  PROVE  IInv'
<1> USE ThreadsAssumption, NumbersAssumption DEF Await, Goto, IInv, sync, task, chunk, Threads, Callers
<1>a. \A d \in Callers : d # c => pc[d] = "away"
  BY OthersAway DEF MutexInv, TypeOK
<1>b. /\ c \in Threads /\ c \notin Workers /\ pc \in [Threads -> Places]
      /\ pool \in SUBSET Workers
  BY DEF TypeOK
<1>1. TypeOK'
  BY <1>a, <1>b DEF TypeOK, Places, Threads, sync, task, chunk
<1>2. MutexInv'
  BY <1>a, <1>b DEF MutexInv, TypeOK
<1>3. PlacesInv'
  BY <1>a, <1>b DEF PlacesInv, TypeOK
<1>4. SeenInv'
  BY <1>a, <1>b DEF SeenInv, Quiet, Idle, Busy, Working, TypeOK
<1>5. CountInv'
  <2>1. Idle' = Idle
    BY <1>a, <1>b DEF Idle, TypeOK
  <2>2. (\E d \in Callers : pc'[d] = "generation") <=> \E d \in Callers : pc[d] = "generation"
    BY <1>a, <1>b DEF TypeOK
  <2> QED
    BY <2>1, <2>2 DEF CountInv
<1>6. TaskInv'
  BY <1>a, <1>b DEF TaskInv, Preparing, Working, Writing, Pooled, nThreads, TypeOK
<1>7. ChunkInv'
  BY <1>a, <1>b DEF ChunkInv, Holds, TypeOK
<1>8. DoneInv'
  BY <1>a, <1>b DEF DoneInv, Busy, Working, Idle, TypeOK
<1>9. OutInv'
  BY <1>a, <1>b DEF OutInv, Busy, Working, Preparing, Writing, Covers, Holds, TypeOK
<1>10. RowsOnce'
  BY <1>a, <1>b DEF RowsOnce, TypeOK
<1> QED
  BY <1>1, <1>2, <1>3, <1>4, <1>5, <1>6, <1>7, <1>8, <1>9, <1>10

\* SetOwner keeps the invariant.
LEMMA SetOwnerKeeps ==
  ASSUME Projectors = {}, IInv, NEW c \in Callers, SetOwner(c)
  PROVE  IInv'
<1> USE ThreadsAssumption, NumbersAssumption DEF SetOwner, Goto, IInv, sync, task, chunk, Threads, Callers
<1>a. \A d \in Callers : d # c => pc[d] = "away"
  BY OthersAway DEF MutexInv, TypeOK
<1>b. /\ c \in Threads /\ c \notin Workers /\ pc \in [Threads -> Places]
      /\ pool \in SUBSET Workers
  BY DEF TypeOK
<1>c. Quiet /\ \A t \in Threads : ~Holds(t)
  BY <1>a, <1>b DEF Quiet, Busy, Working, Holds, SeenInv, Idle, PlacesInv, TypeOK
<1>1. TypeOK'
  BY <1>a, <1>b DEF TypeOK, Places, Threads, sync, task, chunk
<1>2. MutexInv'
  BY <1>a, <1>b DEF MutexInv, TypeOK
<1>3. PlacesInv'
  BY <1>a, <1>b DEF PlacesInv, TypeOK
<1>4. SeenInv'
  BY <1>a, <1>b DEF SeenInv, Quiet, Idle, Busy, Working, TypeOK
<1>5. CountInv'
  <2>1. Idle' = Idle
    BY <1>a, <1>b DEF Idle, TypeOK
  <2>2. (\E d \in Callers : pc'[d] = "generation") <=> \E d \in Callers : pc[d] = "generation"
    BY <1>a, <1>b DEF TypeOK
  <2> QED
    BY <2>1, <2>2 DEF CountInv
<1>6. TaskInv'
  BY <1>a, <1>b DEF TaskInv, Preparing, Working, Writing, Pooled, nThreads, TypeOK
<1>7. ChunkInv'
  BY <1>a, <1>b, <1>c DEF ChunkInv, Holds, TypeOK
<1>8. DoneInv'
  BY <1>a, <1>b DEF DoneInv, Busy, Working, Idle, TypeOK
<1>9. OutInv'
  BY <1>a, <1>b DEF OutInv, Busy, Working, Preparing, Writing, Covers, Holds, TypeOK
<1>10. RowsOnce'
  BY <1>a, <1>b DEF RowsOnce, TypeOK
<1> QED
  BY <1>1, <1>2, <1>3, <1>4, <1>5, <1>6, <1>7, <1>8, <1>9, <1>10

\* SetRows keeps the invariant.
LEMMA SetRowsKeeps ==
  ASSUME Projectors = {}, IInv, NEW c \in Callers, SetRows(c)
  PROVE  IInv'
<1> USE ThreadsAssumption, NumbersAssumption DEF SetRows, Goto, IInv, sync, task, chunk, Threads, Callers
<1>a. \A d \in Callers : d # c => pc[d] = "away"
  BY OthersAway DEF MutexInv, TypeOK
<1>b. /\ c \in Threads /\ c \notin Workers /\ pc \in [Threads -> Places]
      /\ pool \in SUBSET Workers
  BY DEF TypeOK
<1>c. Quiet /\ \A t \in Threads : ~Holds(t)
  BY <1>a, <1>b DEF Quiet, Busy, Working, Holds, SeenInv, Idle, PlacesInv, TypeOK
<1>1. TypeOK'
  BY <1>a, <1>b DEF TypeOK, Places, Threads, sync, task, chunk
<1>2. MutexInv'
  BY <1>a, <1>b DEF MutexInv, TypeOK
<1>3. PlacesInv'
  BY <1>a, <1>b DEF PlacesInv, TypeOK
<1>4. SeenInv'
  BY <1>a, <1>b DEF SeenInv, Quiet, Idle, Busy, Working, TypeOK
<1>5. CountInv'
  <2>1. Idle' = Idle
    BY <1>a, <1>b DEF Idle, TypeOK
  <2>2. (\E d \in Callers : pc'[d] = "generation") <=> \E d \in Callers : pc[d] = "generation"
    BY <1>a, <1>b DEF TypeOK
  <2> QED
    BY <2>1, <2>2 DEF CountInv
<1>6. TaskInv'
  BY <1>a, <1>b DEF TaskInv, Preparing, Working, Writing, Pooled, nThreads, TypeOK
<1>7. ChunkInv'
  BY <1>a, <1>b, <1>c DEF ChunkInv, Holds, TypeOK
<1>8. DoneInv'
  BY <1>a, <1>b DEF DoneInv, Busy, Working, Idle, TypeOK
<1>9. OutInv'
  BY <1>a, <1>b DEF OutInv, Busy, Working, Preparing, Writing, Covers, Holds, TypeOK
<1>10. RowsOnce'
  BY <1>a, <1>b DEF RowsOnce, TypeOK
<1> QED
  BY <1>1, <1>2, <1>3, <1>4, <1>5, <1>6, <1>7, <1>8, <1>9, <1>10

\* ResetNextRow keeps the invariant.
LEMMA ResetNextRowKeeps ==
  ASSUME Projectors = {}, IInv, NEW c \in Callers, ResetNextRow(c)
  PROVE  IInv'
<1> USE ThreadsAssumption, NumbersAssumption DEF ResetNextRow, Goto, IInv, sync, task, chunk, Threads, Callers
<1>a. \A d \in Callers : d # c => pc[d] = "away"
  BY OthersAway DEF MutexInv, TypeOK
<1>b. /\ c \in Threads /\ c \notin Workers /\ pc \in [Threads -> Places]
      /\ pool \in SUBSET Workers
  BY DEF TypeOK
<1>c. Quiet /\ \A t \in Threads : ~Holds(t)
  BY <1>a, <1>b DEF Quiet, Busy, Working, Holds, SeenInv, Idle, PlacesInv, TypeOK
<1>1. TypeOK'
  BY <1>a, <1>b DEF TypeOK, Places, Threads, sync, task, chunk
<1>2. MutexInv'
  BY <1>a, <1>b DEF MutexInv, TypeOK
<1>3. PlacesInv'
  BY <1>a, <1>b DEF PlacesInv, TypeOK
<1>4. SeenInv'
  BY <1>a, <1>b DEF SeenInv, Quiet, Idle, Busy, Working, TypeOK
<1>5. CountInv'
  <2>1. Idle' = Idle
    BY <1>a, <1>b DEF Idle, TypeOK
  <2>2. (\E d \in Callers : pc'[d] = "generation") <=> \E d \in Callers : pc[d] = "generation"
    BY <1>a, <1>b DEF TypeOK
  <2> QED
    BY <2>1, <2>2 DEF CountInv
<1>6. TaskInv'
  BY <1>a, <1>b DEF TaskInv, Preparing, Working, Writing, Pooled, nThreads, TypeOK
<1>7. ChunkInv'
  BY <1>a, <1>b, <1>c DEF ChunkInv, Holds, TypeOK
<1>8. DoneInv'
  BY <1>a, <1>b DEF DoneInv, Busy, Working, Idle, TypeOK
<1>9. OutInv'
  BY <1>a, <1>b DEF OutInv, Busy, Working, Preparing, Writing, Covers, Holds, TypeOK
<1>10. RowsOnce'
  BY <1>a, <1>b DEF RowsOnce, TypeOK
<1> QED
  BY <1>1, <1>2, <1>3, <1>4, <1>5, <1>6, <1>7, <1>8, <1>9, <1>10

\* ResetCompleted keeps the invariant.
LEMMA ResetCompletedKeeps ==
  ASSUME Projectors = {}, IInv, NEW c \in Callers, ResetCompleted(c)
  PROVE  IInv'
<1> USE ThreadsAssumption, NumbersAssumption DEF ResetCompleted, Goto, IInv, sync, task, chunk, Threads, Callers
<1>a. \A d \in Callers : d # c => pc[d] = "away"
  BY OthersAway DEF MutexInv, TypeOK
<1>b. /\ c \in Threads /\ c \notin Workers /\ pc \in [Threads -> Places]
      /\ pool \in SUBSET Workers
  BY DEF TypeOK
<1>1. TypeOK'
  BY <1>a, <1>b DEF TypeOK, Places, Threads, sync, task, chunk
<1>2. MutexInv'
  BY <1>a, <1>b DEF MutexInv, TypeOK
<1>3. PlacesInv'
  BY <1>a, <1>b DEF PlacesInv, TypeOK
<1>4. SeenInv'
  BY <1>a, <1>b DEF SeenInv, Quiet, Idle, Busy, Working, TypeOK
<1>5. CountInv'
  <2>1. pc'[c] = "generation" /\ completed' = 0
    BY <1>b
  <2> QED
    BY <2>1 DEF CountInv
<1>6. TaskInv'
  BY <1>a, <1>b DEF TaskInv, Preparing, Working, Writing, Pooled, nThreads, TypeOK
<1>7. ChunkInv'
  BY <1>a, <1>b DEF ChunkInv, Holds, TypeOK
<1>8. DoneInv'
  BY <1>a, <1>b DEF DoneInv, Busy, Working, Idle, TypeOK
<1>9. OutInv'
  BY <1>a, <1>b DEF OutInv, Busy, Working, Preparing, Writing, Covers, Holds, TypeOK
<1>10. RowsOnce'
  BY <1>a, <1>b DEF RowsOnce, TypeOK
<1> QED
  BY <1>1, <1>2, <1>3, <1>4, <1>5, <1>6, <1>7, <1>8, <1>9, <1>10

\* Announce keeps the invariant.
LEMMA AnnounceKeeps ==
  ASSUME Projectors = {}, IInv, NEW c \in Callers, Announce(c)
  PROVE  IInv'
<1> USE ThreadsAssumption, NumbersAssumption DEF Announce, Goto, IInv, sync, task, chunk, Threads, Callers
<1>a. \A d \in Callers : d # c => pc[d] = "away"
  BY OthersAway DEF MutexInv, TypeOK
<1>b. /\ c \in Threads /\ c \notin Workers /\ pc \in [Threads -> Places]
      /\ pool \in SUBSET Workers
  BY DEF TypeOK
<1>c. Quiet /\ \A t \in Threads : ~Holds(t)
  BY <1>a, <1>b DEF Quiet, Busy, Working, Holds, SeenInv, Idle, PlacesInv, TypeOK
<1>d. generation' # generation
  BY DEF Bumped, TypeOK
<1>e. Idle' = {}
  BY <1>a, <1>b, <1>c, <1>d DEF Idle, SeenInv, TypeOK
<1>f. Cardinality({}) = 0
  BY FS_EmptySet
<1>g. /\ \A w \in pool : pc[w] = "wait"
      /\ nextRow = 0 /\ taskRows = rows[c] /\ taskOwner = c /\ completed = 0
      /\ \A r \in Rows : out[c][r] = 0
  BY <1>a, <1>b, <1>c DEF Idle, SeenInv, TaskInv, CountInv, OutInv, Preparing, Writing
<1>1. TypeOK'
  BY <1>a, <1>b DEF TypeOK, Places, Threads, sync, task, chunk, Bumped
<1>2. MutexInv'
  BY <1>a, <1>b DEF MutexInv, TypeOK
<1>3. PlacesInv'
  BY <1>a, <1>b DEF PlacesInv, TypeOK
<1>4. SeenInv'
  BY <1>a, <1>b, <1>d, <1>g DEF SeenInv, Quiet, Idle, Busy, Working, TypeOK
<1>5. CountInv'
  <2>1. \A d \in Callers : pc'[d] # "generation"
    BY <1>a, <1>b
  <2> QED
    BY <2>1, <1>e, <1>f, <1>g DEF CountInv
<1>6. TaskInv'
  BY <1>a, <1>b DEF TaskInv, Preparing, Working, Writing, Pooled, nThreads, TypeOK
<1>7. ChunkInv'
  BY <1>a, <1>b DEF ChunkInv, Holds, TypeOK
<1>8. DoneInv'
  BY <1>a, <1>b, <1>e, <1>g DEF DoneInv, Busy, Working, Idle, TypeOK
<1>9. OutInv'
  BY <1>a, <1>b, <1>c, <1>g DEF OutInv, Busy, Working, Preparing, Writing, Covers, Holds, TypeOK, Rows
<1>10. RowsOnce'
  BY <1>a, <1>b DEF RowsOnce, TypeOK
<1> QED
  BY <1>1, <1>2, <1>3, <1>4, <1>5, <1>6, <1>7, <1>8, <1>9, <1>10

\* Join keeps the invariant.
LEMMA JoinKeeps ==
  ASSUME Projectors = {}, IInv, NEW c \in Callers, Join(c)
  PROVE  IInv'
<1> USE ThreadsAssumption, NumbersAssumption DEF Join, Goto, IInv, sync, task, chunk, Threads, Callers
<1>a. \A d \in Callers : d # c => pc[d] = "away"
  BY OthersAway DEF MutexInv, TypeOK
<1>b. /\ c \in Threads /\ c \notin Workers /\ pc \in [Threads -> Places]
      /\ pool \in SUBSET Workers
  BY DEF TypeOK
<1>c. IsFiniteSet(pool) /\ nThreads \in Nat
  BY <1>b, FS_Subset, FS_CardinalityType DEF nThreads
<1>d. completed = Cardinality(Idle)
  BY <1>a, <1>b DEF CountInv, PlacesInv
<1>e. Idle = pool
  <2>1. Idle \subseteq pool
    BY DEF Idle
  <2>2. Cardinality(Idle) <= nThreads /\ (Cardinality(Idle) = nThreads => Idle = pool)
    BY <2>1, <1>c, FS_Subset DEF nThreads
  <2>3. completed >= nThreads /\ completed \in Nat
    BY DEF Join, TypeOK
  <2>4. Cardinality(Idle) = nThreads
    BY <2>2, <2>3, <1>c, <1>d, SMT
  <2> QED
    BY <2>2, <2>4
<1>f. \A t \in Threads : ~Holds(t)
  BY <1>a, <1>b, <1>e DEF Idle, Holds, PlacesInv
<1>1. TypeOK'
  BY <1>a, <1>b DEF TypeOK, Places, Threads, sync, task, chunk
<1>2. MutexInv'
  BY <1>a, <1>b DEF MutexInv, TypeOK
<1>3. PlacesInv'
  BY <1>a, <1>b DEF PlacesInv, TypeOK
<1>4. SeenInv'
  BY <1>a, <1>b, <1>e DEF SeenInv, Quiet, Idle, Busy, Working, TypeOK
<1>5. CountInv'
  <2>1. Idle' = Idle
    BY <1>a, <1>b DEF Idle, TypeOK
  <2>2. (\E d \in Callers : pc'[d] = "generation") <=> \E d \in Callers : pc[d] = "generation"
    BY <1>a, <1>b DEF TypeOK
  <2> QED
    BY <2>1, <2>2 DEF CountInv
<1>6. TaskInv'
  BY <1>a, <1>b DEF TaskInv, Preparing, Working, Writing, Pooled, nThreads, TypeOK
<1>7. ChunkInv'
  BY <1>a, <1>b DEF ChunkInv, Holds, TypeOK
<1>8. DoneInv'
  BY <1>a, <1>b DEF DoneInv, Busy, Working, Idle, TypeOK
<1>9. OutInv'
  BY <1>a, <1>b DEF OutInv, Busy, Working, Preparing, Writing, Covers, Holds, TypeOK
<1>10. RowsOnce'
  <2>1. nextRow >= rows[c]
    BY DEF DoneInv, Busy, Working
  <2>2. \A r \in Rows : out[c][r] = IF r < rows[c] THEN 1 ELSE 0
    <3>1. Busy(c) /\ rows[c] \in Nat /\ nextRow \in Nat
      BY DEF Busy, Working, TypeOK
    <3>2. \A r \in Rows : r \in Nat /\ \A t \in Threads : ~Covers(t, r)
      BY <1>f DEF Covers, Rows
    <3> QED
      BY <2>1, <3>1, <3>2 DEF OutInv
  <2> QED
    BY <2>2, <1>a, <1>b DEF RowsOnce, TypeOK
<1> QED
  BY <1>1, <1>2, <1>3, <1>4, <1>5, <1>6, <1>7, <1>8, <1>9, <1>10

\* Whoever works for a task, or wakes up for one, does so for a caller inside.
LEMMA SomeoneBusy ==
  ASSUME Projectors = {}, IInv, NEW t \in Callers \cup pool,
         \/ pc[t] \in {"take", "look", "compute", "adopt", "report"}
         \/ t \in pool /\ generation # seen[t]
  PROVE  \E c \in Callers : Busy(c) /\ (t \in Callers => t = c)
<1> USE ThreadsAssumption DEF IInv
<1>1. CASE t \in Callers
  BY <1>1 DEF Busy, Working, TypeOK, PlacesInv
<1>2. CASE t \notin Callers
  <2>1. t \in pool /\ t \notin Idle
    BY <1>2 DEF Idle
  <2> QED
    BY <2>1, <1>2 DEF SeenInv, Quiet
<1> QED
  BY <1>1, <1>2

\* Take keeps the invariant.
LEMMA TakeKeeps ==
  ASSUME Projectors = {}, IInv, NEW t \in Callers \cup pool, Take(t)
  PROVE  IInv'
<1> USE ThreadsAssumption, NumbersAssumption DEF Take, Goto, IInv, sync, task, chunk, Threads, Callers
<1>0. PICK c \in Callers : Busy(c) /\ (t \in Callers => t = c)
  BY SomeoneBusy
<1>a. /\ pc[c] \in Working /\ t \in Threads
      /\ \A d \in Callers : d # c => pc[d] = "away"
  BY <1>0, OthersAway DEF Busy, Working, TypeOK
<1>b. /\ c \in Threads /\ c \notin Workers /\ pc \in [Threads -> Places]
      /\ pool \in SUBSET Workers /\ (t \in Workers => t \in pool)
      /\ taskOwner = c /\ taskRows = rows[c]
  BY <1>a DEF TypeOK, TaskInv
<1>c. \A u \in Threads, r \in Rows :
        Covers(u, r)' <=> Covers(u, r) \/ (u = t /\ nextRow <= r /\ r < nextRow + Chunk)
  BY <1>b DEF Covers, Holds, TypeOK, Rows
<1>d. \A r \in Rows :
        /\ r < nextRow' /\ \A u \in Threads : ~Covers(u, r)'
        <=> r < nextRow /\ \A u \in Threads : ~Covers(u, r)
  <2> SUFFICES ASSUME NEW r \in Rows
               PROVE  /\ r < nextRow' /\ \A u \in Threads : ~Covers(u, r)'
                      <=> r < nextRow /\ \A u \in Threads : ~Covers(u, r)
    OBVIOUS
  <2>1. nextRow' = nextRow + Chunk /\ nextRow \in Nat /\ Chunk \in Nat /\ r \in Int
    BY DEF TypeOK, Rows
  <2>2. CASE r < nextRow
    BY <2>1, <2>2, <1>c
  <2>3. CASE r >= nextRow
    BY <2>1, <2>3, <1>a, <1>c
  <2> QED
    BY <2>1, <2>2, <2>3
<1>1. TypeOK'
  BY <1>0, <1>a, <1>b DEF TypeOK, Places, Threads, sync, task, chunk
<1>2. MutexInv'
  BY <1>0, <1>a, <1>b DEF MutexInv, TypeOK
<1>3. PlacesInv'
  BY <1>0, <1>a, <1>b DEF PlacesInv, TypeOK
<1>4. SeenInv'
  BY <1>0, <1>a, <1>b DEF SeenInv, Quiet, Idle, Busy, Working, TypeOK
<1>5. CountInv'
  <2>1. Idle' = Idle
    BY <1>0, <1>a, <1>b DEF Idle, TypeOK
  <2>2. (\E d \in Callers : pc'[d] = "generation") <=> \E d \in Callers : pc[d] = "generation"
    BY <1>0, <1>a, <1>b DEF TypeOK
  <2> QED
    BY <2>1, <2>2 DEF CountInv
<1>6. TaskInv'
  BY <1>0, <1>a, <1>b DEF TaskInv, Preparing, Working, Writing, Pooled, nThreads, TypeOK
<1>7. ChunkInv'
  BY <1>0, <1>a, <1>b DEF ChunkInv, Holds, TypeOK
<1>8. DoneInv'
  BY <1>0, <1>a, <1>b DEF DoneInv, Busy, Working, Idle, TypeOK
<1>9. OutInv'
  BY <1>0, <1>a, <1>b, <1>d DEF OutInv, Busy, Working, Preparing, Writing, TypeOK
<1>10. RowsOnce'
  BY <1>0, <1>a, <1>b DEF RowsOnce, TypeOK
<1> QED
  BY <1>1, <1>2, <1>3, <1>4, <1>5, <1>6, <1>7, <1>8, <1>9, <1>10

\* Look keeps the invariant.
LEMMA LookKeeps ==
  ASSUME Projectors = {}, IInv, NEW t \in Callers \cup pool, Look(t)
  PROVE  IInv'
<1> USE ThreadsAssumption, NumbersAssumption DEF Look, Goto, IInv, sync, task, chunk, Threads, Callers
<1>0. PICK c \in Callers : Busy(c) /\ (t \in Callers => t = c)
  BY SomeoneBusy
<1>a. /\ pc[c] \in Working /\ t \in Threads
      /\ \A d \in Callers : d # c => pc[d] = "away"
  BY <1>0, OthersAway DEF Busy, Working, TypeOK
<1>b. /\ c \in Threads /\ c \notin Workers /\ pc \in [Threads -> Places]
      /\ pool \in SUBSET Workers /\ (t \in Workers => t \in pool)
      /\ taskOwner = c /\ taskRows = rows[c]
  BY <1>a DEF TypeOK, TaskInv
<1>1. TypeOK'
  BY <1>0, <1>a, <1>b DEF TypeOK, Places, Threads, sync, task, chunk, Smaller
<1>2. MutexInv'
  BY <1>0, <1>a, <1>b DEF MutexInv, TypeOK
<1>3. PlacesInv'
  BY <1>0, <1>a, <1>b DEF PlacesInv, TypeOK
<1>4. SeenInv'
  BY <1>0, <1>a, <1>b DEF SeenInv, Quiet, Idle, Busy, Working, TypeOK
<1>5. CountInv'
  <2>1. Idle' = Idle
    BY <1>0, <1>a, <1>b DEF Idle, TypeOK
  <2>2. (\E d \in Callers : pc'[d] = "generation") <=> \E d \in Callers : pc[d] = "generation"
    BY <1>0, <1>a, <1>b DEF TypeOK
  <2> QED
    BY <2>1, <2>2 DEF CountInv
<1>6. TaskInv'
  BY <1>0, <1>a, <1>b DEF TaskInv, Preparing, Working, Writing, Pooled, nThreads, TypeOK
<1>7. ChunkInv'
  BY <1>0, <1>a, <1>b DEF ChunkInv, Holds, TypeOK
<1>8. DoneInv'
  BY <1>0, <1>a, <1>b DEF DoneInv, Busy, Working, Idle, TypeOK
<1>9. OutInv'
  BY <1>0, <1>a, <1>b DEF OutInv, Busy, Working, Preparing, Writing, Covers, Holds, TypeOK
<1>10. RowsOnce'
  BY <1>0, <1>a, <1>b DEF RowsOnce, TypeOK
<1> QED
  BY <1>1, <1>2, <1>3, <1>4, <1>5, <1>6, <1>7, <1>8, <1>9, <1>10

\* NoMore keeps the invariant.
LEMMA NoMoreKeeps ==
  ASSUME Projectors = {}, IInv, NEW t \in Callers \cup pool, NoMore(t)
  PROVE  IInv'
<1> USE ThreadsAssumption, NumbersAssumption DEF NoMore, Goto, IInv, sync, task, chunk, Threads, Callers
<1>0. PICK c \in Callers : Busy(c) /\ (t \in Callers => t = c)
  BY SomeoneBusy
<1>a. /\ pc[c] \in Working /\ t \in Threads
      /\ \A d \in Callers : d # c => pc[d] = "away"
  BY <1>0, OthersAway DEF Busy, Working, TypeOK
<1>b. /\ c \in Threads /\ c \notin Workers /\ pc \in [Threads -> Places]
      /\ pool \in SUBSET Workers /\ (t \in Workers => t \in pool)
      /\ taskOwner = c /\ taskRows = rows[c]
  BY <1>a DEF TypeOK, TaskInv
<1>c. nextRow >= rows[c] /\ rows[c] \in Nat
  BY <1>a, <1>b DEF ChunkInv, Holds, TypeOK
<1>d. \A u \in Threads, r \in Rows : r < rows[c] => (Covers(u, r)' <=> Covers(u, r))
  BY <1>b, <1>c DEF Covers, Holds, TypeOK, Rows
<1>1. TypeOK'
  BY <1>0, <1>a, <1>b DEF TypeOK, Places, Threads, sync, task, chunk
<1>2. MutexInv'
  BY <1>0, <1>a, <1>b DEF MutexInv, TypeOK
<1>3. PlacesInv'
  BY <1>0, <1>a, <1>b DEF PlacesInv, TypeOK
<1>4. SeenInv'
  BY <1>0, <1>a, <1>b DEF SeenInv, Quiet, Idle, Busy, Working, TypeOK
<1>5. CountInv'
  <2>1. Idle' = Idle
    BY <1>0, <1>a, <1>b DEF Idle, TypeOK
  <2>2. (\E d \in Callers : pc'[d] = "generation") <=> \E d \in Callers : pc[d] = "generation"
    BY <1>0, <1>a, <1>b DEF TypeOK
  <2> QED
    BY <2>1, <2>2 DEF CountInv
<1>6. TaskInv'
  BY <1>0, <1>a, <1>b DEF TaskInv, Preparing, Working, Writing, Pooled, nThreads, TypeOK
<1>7. ChunkInv'
  BY <1>0, <1>a, <1>b DEF ChunkInv, Holds, TypeOK
<1>8. DoneInv'
  BY <1>0, <1>a, <1>b, <1>c DEF DoneInv, Busy, Working, Idle, TypeOK
<1>e. \A d \in Callers : /\ Busy(d)' => Busy(d) /\ d = c
                         /\ pc'[d] \in Preparing \cup {"alone", "away"}
                              => pc[d] \in Preparing \cup {"alone", "away"}
  BY <1>a, <1>b DEF Busy, Working, Preparing, Writing
<1>f. UNCHANGED <<rows, nextRow, out>>
  OBVIOUS
<1>9. OutInv'
  <2> SUFFICES ASSUME NEW d \in Callers, NEW r \in Rows
               PROVE  /\ Busy(d)' => out'[d][r] = IF /\ r < rows'[d] /\ r < nextRow'
                                                   /\ \A u \in Threads : ~Covers(u, r)'
                                                THEN 1 ELSE 0
                      /\ pc'[d] \in Preparing \cup {"alone", "away"} => out'[d][r] = 0
    BY DEF OutInv
  <2> USE DEF OutInv
  <2>1. CASE Busy(d)'
    <3>1. Busy(d) /\ d = c
      BY <2>1, <1>e
    <3>2. out[c][r] = IF r < rows[c] /\ r < nextRow /\ \A u \in Threads : ~Covers(u, r)
                      THEN 1 ELSE 0
      BY <3>1
    <3> QED
      BY <3>1, <3>2, <1>d, <1>e, <1>f DEF Busy, Working, Preparing, Writing
  <2>2. CASE ~Busy(d)'
    BY <2>2, <1>e, <1>f
  <2> QED
    BY <2>1, <2>2
<1>10. RowsOnce'
  BY <1>0, <1>a, <1>b DEF RowsOnce, TypeOK
<1> QED
  BY <1>1, <1>2, <1>3, <1>4, <1>5, <1>6, <1>7, <1>8, <1>9, <1>10

\* Compute keeps the invariant.
LEMMA ComputeKeeps ==
  ASSUME Projectors = {}, IInv, NEW t \in Callers \cup pool, Compute(t)
  PROVE  IInv'
<1> USE ThreadsAssumption, NumbersAssumption DEF Compute, Goto, IInv, sync, task, chunk, Threads, Callers
<1>0. PICK c \in Callers : Busy(c) /\ (t \in Callers => t = c)
  BY SomeoneBusy
<1>a. /\ pc[c] \in Working /\ t \in Threads
      /\ \A d \in Callers : d # c => pc[d] = "away"
  BY <1>0, OthersAway DEF Busy, Working, TypeOK
<1>b. /\ c \in Threads /\ c \notin Workers /\ pc \in [Threads -> Places]
      /\ pool \in SUBSET Workers /\ (t \in Workers => t \in pool)
      /\ taskOwner = c /\ taskRows = rows[c]
  BY <1>a DEF TypeOK, TaskInv
<1>c. /\ owner[t] = c
      /\ last[t] = Smaller(first[t] + Chunk, rows[c])
      /\ first[t] + Chunk <= nextRow
  BY <1>a, <1>b DEF ChunkInv, Holds
<1>d. /\ \A d \in Callers : d # c => out'[d] = out[d]
      /\ \A r \in Rows : out'[c][r] = IF r < rows[c] /\ Covers(t, r)
                                       THEN out[c][r] + 1 ELSE out[c][r]
      /\ out' \in [Callers -> [Rows -> Nat]]
  <2>1. \A r \in Rows : r \in first[t]..(last[t] - 1) <=> r < rows[c] /\ Covers(t, r)
    <3>1. first[t] \in Nat /\ rows[c] \in Nat /\ Chunk \in Nat /\ pc[t] = "compute"
      BY <1>a, <1>b DEF TypeOK
    <3>2. last[t] = IF first[t] + Chunk < rows[c] THEN first[t] + Chunk ELSE rows[c]
      BY <1>c DEF Smaller
    <3> HIDE DEF Compute, IInv
    <3> QED
      BY <3>1, <3>2 DEF Covers, Holds, Rows
  <2>2. out' = [out EXCEPT ![c] = [r \in Rows |-> IF r \in first[t]..(last[t] - 1)
                                       THEN out[c][r] + 1 ELSE out[c][r]]]
    BY <1>c
  <2>3. out \in [Callers -> [Rows -> Nat]]
    BY DEF TypeOK
  <2>4. out'[c] = [r \in Rows |-> IF r \in first[t]..(last[t] - 1)
                                THEN out[c][r] + 1 ELSE out[c][r]]
    BY <2>2, <2>3
  <2>5. \A d \in Callers : d # c => out'[d] = out[d]
    BY <2>2, <2>3
  <2>6. out'[c] \in [Rows -> Nat]
    BY <2>3, <2>4
  <2>7. out' \in [Callers -> [Rows -> Nat]]
    BY <2>2, <2>3, <2>4, <2>6
  <2> QED
    BY <2>1, <2>4, <2>5, <2>7
<1>e. \A u \in Threads, r \in Rows : Covers(u, r)' <=> Covers(u, r) /\ u # t
  BY <1>b DEF Covers, Holds, TypeOK
<1>f. \A r \in Rows, u \in Threads : Covers(t, r) /\ Covers(u, r) => u = t
  <2> SUFFICES ASSUME NEW r \in Rows, NEW u \in Threads, Covers(t, r), Covers(u, r), u # t
               PROVE  FALSE
    OBVIOUS
  <2>1. first[t] + Chunk <= first[u] \/ first[u] + Chunk <= first[t]
    BY <1>a DEF ChunkInv, Covers
  <2>2. first[t] \in Nat /\ first[u] \in Nat /\ Chunk \in Nat /\ r \in Int
    BY <1>a DEF TypeOK, Rows
  <2> QED
    BY <2>1, <2>2 DEF Covers
<1>g. \A r \in Rows : Covers(t, r) => r < nextRow
  BY <1>b, <1>c DEF Covers, TypeOK, Rows
<1>1. TypeOK'
  BY <1>a, <1>b, <1>d DEF TypeOK, Places
<1>2. MutexInv'
  BY <1>0, <1>a, <1>b DEF MutexInv, TypeOK
<1>3. PlacesInv'
  BY <1>0, <1>a, <1>b DEF PlacesInv, TypeOK
<1>4. SeenInv'
  BY <1>0, <1>a, <1>b DEF SeenInv, Quiet, Idle, Busy, Working, TypeOK
<1>5. CountInv'
  <2>1. Idle' = Idle
    BY <1>0, <1>a, <1>b DEF Idle, TypeOK
  <2>2. (\E d \in Callers : pc'[d] = "generation") <=> \E d \in Callers : pc[d] = "generation"
    BY <1>0, <1>a, <1>b DEF TypeOK
  <2> QED
    BY <2>1, <2>2 DEF CountInv
<1>6. TaskInv'
  BY <1>0, <1>a, <1>b DEF TaskInv, Preparing, Working, Writing, Pooled, nThreads, TypeOK
<1>7. ChunkInv'
  BY <1>0, <1>a, <1>b DEF ChunkInv, Holds, TypeOK
<1>8. DoneInv'
  BY <1>0, <1>a, <1>b DEF DoneInv, Busy, Working, Idle, TypeOK
<1>9. OutInv'
  <2>1. \A r \in Rows : out'[c][r] = IF /\ r < rows[c] /\ r < nextRow
                                         /\ \A u \in Threads : ~Covers(u, r)'
                                      THEN 1 ELSE 0
    <3>1. \A r \in Rows : out[c][r] = IF /\ r < rows[c] /\ r < nextRow
                                         /\ \A u \in Threads : ~Covers(u, r)
                                      THEN 1 ELSE 0
      BY <1>0 DEF OutInv
    <3> HIDE DEF Compute, IInv, Threads
    <3> QED
      BY <3>1, <1>a, <1>d, <1>e, <1>f, <1>g, 0 + 1 = 1
  <2>2. \A d \in Callers : d # c => pc'[d] = "away" /\ out'[d] = out[d]
    BY <1>a, <1>b, <1>d
  <2>3. nextRow' = nextRow /\ rows' = rows /\ pc'[c] \in Working
    BY <1>a, <1>b DEF Working
  <2> QED
    BY <2>1, <2>2, <2>3, <1>a DEF OutInv, Busy, Working, Preparing, Writing
<1>10. RowsOnce'
  <2>1. \A d \in Callers : pc'[d] # "ready"
    BY <1>0, <1>a, <1>b DEF Working
  <2> QED
    BY <2>1 DEF RowsOnce
<1> QED
  BY <1>1, <1>2, <1>3, <1>4, <1>5, <1>6, <1>7, <1>8, <1>9, <1>10

\* Notice keeps the invariant.
LEMMA NoticeKeeps ==
  ASSUME Projectors = {}, IInv, NEW t \in pool, Notice(t)
  PROVE  IInv'
<1> USE ThreadsAssumption, NumbersAssumption DEF Notice, Goto, IInv, sync, task, chunk, Threads, Callers
<1>0. PICK c \in Callers : Busy(c) /\ (t \in Callers => t = c)
  BY SomeoneBusy
<1>a. /\ pc[c] \in Working /\ t \in Threads
      /\ \A d \in Callers : d # c => pc[d] = "away"
  BY <1>0, OthersAway DEF Busy, Working, TypeOK
<1>b. /\ c \in Threads /\ c \notin Workers /\ pc \in [Threads -> Places]
      /\ pool \in SUBSET Workers /\ (t \in Workers => t \in pool)
      /\ taskOwner = c /\ taskRows = rows[c]
  BY <1>a DEF TypeOK, TaskInv
<1>c. \A u \in Threads, r \in Rows : Covers(u, r)' <=> Covers(u, r)
  BY <1>b DEF Covers, Holds, TypeOK
<1>e. \A d \in Callers : pc'[d] = pc[d]
  BY <1>b DEF PlacesInv, TypeOK
<1>d. Idle' = Idle
  BY <1>b DEF Idle, TypeOK
<1>1. TypeOK'
  BY <1>0, <1>a, <1>b DEF TypeOK, Places, Threads, sync, task, chunk
<1>2. MutexInv'
  BY <1>0, <1>a, <1>b DEF MutexInv, TypeOK
<1>3. PlacesInv'
  BY <1>0, <1>a, <1>b DEF PlacesInv, TypeOK
<1>4. SeenInv'
  BY <1>0, <1>a, <1>b DEF SeenInv, Quiet, Idle, Busy, Working, TypeOK
<1>5. CountInv'
  BY <1>0, <1>a, <1>b, <1>d DEF CountInv, TypeOK
<1>6. TaskInv'
  BY <1>0, <1>a, <1>b DEF TaskInv, Preparing, Working, Writing, Pooled, nThreads, TypeOK
<1>7. ChunkInv'
  BY <1>0, <1>a, <1>b DEF ChunkInv, Holds, TypeOK
<1>8. DoneInv'
  BY <1>0, <1>a, <1>b DEF DoneInv, Busy, Working, Idle, TypeOK
<1>9. OutInv'
  BY <1>c, <1>e DEF OutInv, Busy
<1>10. RowsOnce'
  BY <1>0, <1>a, <1>b DEF RowsOnce, TypeOK
<1> QED
  BY <1>1, <1>2, <1>3, <1>4, <1>5, <1>6, <1>7, <1>8, <1>9, <1>10

\* Adopt keeps the invariant.
LEMMA AdoptKeeps ==
  ASSUME Projectors = {}, IInv, NEW t \in pool, Adopt(t)
  PROVE  IInv'
<1> USE ThreadsAssumption, NumbersAssumption DEF Adopt, Goto, IInv, sync, task, chunk, Threads, Callers
<1>0. PICK c \in Callers : Busy(c) /\ (t \in Callers => t = c)
  BY SomeoneBusy
<1>a. /\ pc[c] \in Working /\ t \in Threads
      /\ \A d \in Callers : d # c => pc[d] = "away"
  BY <1>0, OthersAway DEF Busy, Working, TypeOK
<1>b. /\ c \in Threads /\ c \notin Workers /\ pc \in [Threads -> Places]
      /\ pool \in SUBSET Workers /\ (t \in Workers => t \in pool)
      /\ taskOwner = c /\ taskRows = rows[c]
  BY <1>a DEF TypeOK, TaskInv
<1>c. \A u \in Threads, r \in Rows : Covers(u, r)' <=> Covers(u, r)
  BY <1>b DEF Covers, Holds, TypeOK
<1>e. \A d \in Callers : pc'[d] = pc[d]
  BY <1>b DEF PlacesInv, TypeOK
<1>d. Idle' = Idle
  BY <1>b DEF Idle, TypeOK
<1>1. TypeOK'
  BY <1>0, <1>a, <1>b DEF TypeOK, Places, Threads, sync, task, chunk
<1>2. MutexInv'
  BY <1>0, <1>a, <1>b DEF MutexInv, TypeOK
<1>3. PlacesInv'
  BY <1>0, <1>a, <1>b DEF PlacesInv, TypeOK
<1>4. SeenInv'
  BY <1>0, <1>a, <1>b DEF SeenInv, Quiet, Idle, Busy, Working, TypeOK
<1>5. CountInv'
  BY <1>0, <1>a, <1>b, <1>d DEF CountInv, TypeOK
<1>6. TaskInv'
  BY <1>0, <1>a, <1>b DEF TaskInv, Preparing, Working, Writing, Pooled, nThreads, TypeOK
<1>7. ChunkInv'
  BY <1>0, <1>a, <1>b DEF ChunkInv, Holds, TypeOK
<1>8. DoneInv'
  BY <1>0, <1>a, <1>b DEF DoneInv, Busy, Working, Idle, TypeOK
<1>9. OutInv'
  BY <1>c, <1>e DEF OutInv, Busy
<1>10. RowsOnce'
  BY <1>0, <1>a, <1>b DEF RowsOnce, TypeOK
<1> QED
  BY <1>1, <1>2, <1>3, <1>4, <1>5, <1>6, <1>7, <1>8, <1>9, <1>10

\* Report keeps the invariant.
LEMMA ReportKeeps ==
  ASSUME Projectors = {}, IInv, NEW t \in pool, Report(t)
  PROVE  IInv'
<1> USE ThreadsAssumption, NumbersAssumption DEF Report, Goto, IInv, sync, task, chunk, Threads, Callers
<1>0. PICK c \in Callers : Busy(c) /\ (t \in Callers => t = c)
  BY SomeoneBusy
<1>a. /\ pc[c] \in Working /\ t \in Threads
      /\ \A d \in Callers : d # c => pc[d] = "away"
  BY <1>0, OthersAway DEF Busy, Working, TypeOK
<1>b. /\ c \in Threads /\ c \notin Workers /\ pc \in [Threads -> Places]
      /\ pool \in SUBSET Workers /\ (t \in Workers => t \in pool)
      /\ taskOwner = c /\ taskRows = rows[c]
  BY <1>a DEF TypeOK, TaskInv
<1>c. Idle' = Idle \cup {t} /\ t \notin Idle
  BY <1>b DEF Idle, TypeOK, SeenInv
<1>d. IsFiniteSet(Idle)
  BY <1>b, FS_Subset DEF Idle
<1>e. Cardinality(Idle') = Cardinality(Idle) + 1
  BY <1>c, <1>d, FS_AddElement
<1>1. TypeOK'
  BY <1>0, <1>a, <1>b DEF TypeOK, Places, Threads, sync, task, chunk
<1>2. MutexInv'
  BY <1>0, <1>a, <1>b DEF MutexInv, TypeOK
<1>3. PlacesInv'
  BY <1>0, <1>a, <1>b DEF PlacesInv, TypeOK
<1>4. SeenInv'
  BY <1>0, <1>a, <1>b DEF SeenInv, Quiet, Idle, Busy, Working, TypeOK
<1>5. CountInv'
  BY <1>0, <1>a, <1>b, <1>e DEF CountInv, Working, TypeOK
<1>6. TaskInv'
  BY <1>0, <1>a, <1>b DEF TaskInv, Preparing, Working, Writing, Pooled, nThreads, TypeOK
<1>7. ChunkInv'
  BY <1>0, <1>a, <1>b DEF ChunkInv, Holds, TypeOK
<1>8. DoneInv'
  BY <1>0, <1>a, <1>b DEF DoneInv, Busy, Working, Idle, TypeOK
<1>9. OutInv'
  BY <1>0, <1>a, <1>b DEF OutInv, Busy, Working, Preparing, Writing, Covers, Holds, TypeOK
<1>10. RowsOnce'
  BY <1>0, <1>a, <1>b DEF RowsOnce, TypeOK
<1> QED
  BY <1>1, <1>2, <1>3, <1>4, <1>5, <1>6, <1>7, <1>8, <1>9, <1>10

\* The invariant holds initially: nobody is inside and every worker is free.
LEMMA InitKeeps ==
  ASSUME Projectors = {}, Init
  PROVE  IInv
<1> USE ThreadsAssumption, NumbersAssumption DEF Init
<1>1. pool \in SUBSET Workers /\ IsFiniteSet(pool) /\ nThreads \in Nat
  BY FS_Subset, FS_CardinalityType DEF nThreads
<1>2. Idle = pool
  BY <1>1 DEF Idle, Threads
<1>3. Quiet /\ \A t \in Threads : pc[t] \in {"wait", "away"}
  BY DEF Quiet, Busy, Working, Threads
<1>4. TypeOK
  BY <1>1, <1>3 DEF TypeOK, Places, Threads, Callers, Rows
<1>5. MutexInv /\ PlacesInv
  BY <1>1 DEF MutexInv, PlacesInv, Threads, Callers
<1>6. SeenInv
  BY <1>1, <1>2 DEF SeenInv, Threads
<1>7. CountInv
  BY <1>2 DEF CountInv, nThreads, Threads, Callers
<1>8. TaskInv /\ DoneInv /\ OutInv /\ RowsOnce
  BY DEF TaskInv, DoneInv, OutInv, RowsOnce, Busy, Working, Preparing, Writing,
         Threads, Callers
<1>9. ChunkInv
  BY <1>3 DEF ChunkInv, Holds
<1> QED
  BY <1>4, <1>5, <1>6, <1>7, <1>8, <1>9 DEF IInv

\* Every step of every thread keeps the invariant.
LEMMA StepKeeps ==
  ASSUME Projectors = {}, IInv, [Next]_vars
  PROVE  IInv'
<1>1. CASE \E c \in Callers : Enter(c) \/ Leave(c) \/ \E n \in RowCounts : Call(c, n)
  BY <1>1, EnterKeeps, LeaveKeeps, CallKeeps
<1>2. CASE \E c \in Callers : CallerStep(c)
  BY <1>2, AwaitKeeps, SetOwnerKeeps, SetRowsKeeps, ResetNextRowKeeps,
     ResetCompletedKeeps, AnnounceKeeps, JoinKeeps, AloneKeeps DEF CallerStep
<1>3. CASE \E w \in pool : WorkerStep(w)
  BY <1>3, NoticeKeeps, AdoptKeeps, ReportKeeps DEF WorkerStep
<1>4. CASE \E t \in Callers \cup pool : RunChunks(t)
  BY <1>4, TakeKeeps, LookKeeps, NoMoreKeeps, ComputeKeeps DEF RunChunks
<1>5. CASE UNCHANGED vars
  BY <1>5 DEF IInv, TypeOK, MutexInv, PlacesInv, SeenInv, CountInv, TaskInv, ChunkInv,
     DoneInv, OutInv, RowsOnce, Quiet, Busy, Idle, Holds, Covers, Pooled, nThreads,
     vars, sync, task, chunk
<1> QED
  BY <1>1, <1>2, <1>3, <1>4, <1>5 DEF Next

\* The invariant of the protocol, when nobody dispatches without the mutex.
LEMMA ProtocolInvariant ==
  ASSUME Projectors = {}
  PROVE  Spec => []IInv
<1>1. Init => IInv
  BY InitKeeps
<1>2. IInv /\ [Next]_vars => IInv'
  BY StepKeeps
<1> QED
  BY <1>1, <1>2, PTL DEF Spec
-----------------------------------------------------------------------------
\* Every variable of the pool keeps its type.
THEOREM TypeCorrect ==
  ASSUME Projectors = {}
  PROVE  Spec => []TypeOK
<1>1. IInv => TypeOK
  BY DEF IInv
<1> QED
  BY <1>1, ProtocolInvariant, PTL

\* A product that returns has computed every row exactly once, into its own
\* caller's buffer, whatever the number of threads and the order they run in.
THEOREM RowsComputedOnce ==
  ASSUME Projectors = {}
  PROVE  Spec => []RowsOnce
<1>1. IInv => RowsOnce
  BY DEF IInv
<1> QED
  BY <1>1, ProtocolInvariant, PTL

\* The task descriptor has no concurrent reader or writer while it is written:
\* holding g_eval_mutex and joining the workers is enough.
THEOREM DescriptorNeverRaces ==
  ASSUME Projectors = {}
  PROVE  Spec => []DescriptorStable
<1>1. ASSUME IInv PROVE DescriptorStable
  <2> SUFFICES ASSUME NEW c \in Callers, pc[c] \in Writing,
                      NEW t \in Threads \ {c}
               PROVE  pc[t] \notin Writing \cup Reading
    BY DEF DescriptorStable
  <2>1. \A d \in Callers : d # c => pc[d] = "away"
    BY <1>1, OthersAway DEF IInv, Writing
  <2>2. \A w \in pool : pc[w] = "wait"
    BY <1>1, <2>1 DEF IInv, SeenInv, Quiet, Busy, Working, Writing, Idle
  <2>3. pc[t] \in {"away", "wait"}
    BY <1>1, <2>1, <2>2 DEF IInv, PlacesInv, Threads
  <2> QED
    BY <2>3 DEF Writing, Reading
<1> QED
  BY <1>1, ProtocolInvariant, PTL

\* Nobody computes for a product that has returned: its job and its buffers
\* belong to the caller again.
THEOREM NobodyWritesLate ==
  ASSUME Projectors = {}
  PROVE  Spec => []NoLateWriter
<1>1. ASSUME IInv PROVE NoLateWriter
  <2> SUFFICES ASSUME NEW c \in Callers, pc[c] \in {"away", "ready"},
                      NEW t \in Threads, pc[t] = "compute"
               PROVE  owner[t] # c
    BY DEF NoLateWriter
  <2>1. t \in Callers \cup pool
    BY <1>1 DEF IInv, PlacesInv, Threads
  <2>2. PICK d \in Callers : Busy(d)
    BY <1>1, <2>1, SomeoneBusy
  <2>3. taskOwner = d /\ d # c
    BY <1>1, <2>2 DEF IInv, TaskInv, Busy, Working
  <2>4. owner[t] = taskOwner
    BY <1>1 DEF IInv, ChunkInv
  <2> QED
    BY <2>3, <2>4
<1> QED
  BY <1>1, ProtocolInvariant, PTL
=============================================================================
