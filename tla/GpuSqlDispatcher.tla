--------------------------- MODULE GpuSqlDispatcher ---------------------------
(***************************************************************************)
(* A SELECT with GROUP BY (or ORDER BY) on several GPUs: one dispatcher    *)
(* thread per device executes the same instructions on blocks d, d + D,    *)
(* d + 2D ... and aggregates them into a table of its own.  The thread     *)
(* with the last block of all waits on a condition variable until the      *)
(* others have signalled their last blocks, and merges the tables.         *)
(* (src/qikkDB/GpuSqlParser: GpuSqlDispatcher.cpp Execute, Jmp;            *)
(* Dispatcher/GpuSqlDispatcherAggregationFunctions.h AggregationGroupBy;   *)
(* Dispatcher/GpuSqlDispatcherOrderByFunctions.cu                          *)
(* OrderByReconstructRetAllBlocks; GpuSqlCustomParser.cpp Parse.)          *)
(*                                                                         *)
(* ORDER BY has the same protocol with counter, mutex and condition        *)
(* variable of its own; a query waits on at most one of the two.  The      *)
(* flags isLastBlockOfDevice_ and isOverallLastBlock_ are set by the       *)
(* first load of a block and are functions of blockIndex_.                 *)
(***************************************************************************)
EXTENDS Integers, FiniteSets

CONSTANTS
    DeviceCount,    \* Context::getDeviceCount(): number of GPUs
    Aggregations,   \* aggregate functions in the SELECT list
    MaxBlocks,      \* bound on the blocks of the table
    MaxRestarts     \* bound on the times a hash table is found full

ASSUME DispatcherAssumption ==
    /\ DeviceCount \in Nat \ {0}
    /\ Aggregations \in Nat \ {0}
    /\ MaxBlocks \in Nat /\ MaxRestarts \in Nat

VARIABLES
    blockCount,         \* of the table of the running query
    needed,             \* the blocks that the WHERE clause does not rule out
    pc,                 \* the instruction each thread executes next
    blockIndex,
    aggregated,         \* size of aggregatedRegisters_: done for this block
    hashTableFull,
    groupByTables,      \* what each device's hash table has aggregated
    groupByDoneCounter, deviceCountLimit, thrownException,
    mutex,              \* holder of groupByMutex_ between two steps
    aborted,
    interrupted,        \* dispatchers told to abort so far
    result,             \* the merged result
    restarts

threadVars == <<pc, blockIndex, aggregated, hashTableFull>>
sharedVars == <<groupByDoneCounter, deviceCountLimit, thrownException, mutex>>
abortVars == <<aborted, interrupted>>
queryVars == <<blockCount, needed, restarts>>
vars == <<threadVars, sharedVars, abortVars, queryVars, groupByTables, result>>

Thread == 0 .. (DeviceCount - 1)
Nobody == -1
NoResult == {<<-1, 0>>}

\* Positions in the instruction loop, where Execute tests its flags.
AtInstruction == {"GetLoadSize", "LoadCol", "ProcessBlock", "Jmp", "Done"}
InInstruction == {"Signal", "Wait", "Checked", "Asleep", "Notify"}

Min(a, b) == IF a <= b THEN a ELSE b

IsLastBlockOfDevice(d) == blockIndex[d] >= blockCount - DeviceCount
IsOverallLastBlock(d) == blockIndex[d] = blockCount - 1

\* Mutant: the limit is the number of devices, whatever the number of blocks.
LimitOfDevices == DeviceCount - 1

DeviceCountLimit == Min(DeviceCount - 1, blockCount - 1)

\* Mutant: any signal is enough.
AnyDone == groupByDoneCounter >= Min(1, deviceCountLimit) \/ thrownException

IsGroupByDone == groupByDoneCounter = deviceCountLimit \/ thrownException

Started(d) == pc[d] # "Exit"
Goto(d, place) == pc' = [pc EXCEPT ![d] = place]

\* notify_all, and where thread d goes next.
NotifyAll(d, place) ==
    pc' = [t \in Thread |-> IF t = d THEN place ELSE IF pc[t] = "Asleep" THEN "Wait" ELSE pc[t]]

(***************************************************************************)
(* Parse: resets the shared counters and starts the threads.  The previous *)
(* query's threads have been joined.                                       *)
(***************************************************************************)
StartQuery(blocks, ruledIn) ==
    /\ blockCount' = blocks
    /\ needed' = ruledIn
    /\ pc' = [d \in Thread |-> "GetLoadSize"]
    /\ blockIndex' = [d \in Thread |-> d]
    /\ aggregated' = [d \in Thread |-> 0]
    /\ hashTableFull' = [d \in Thread |-> FALSE]
    /\ groupByTables' = [d \in Thread |-> {}]
    /\ groupByDoneCounter' = 0 /\ deviceCountLimit' = 0 /\ thrownException' = FALSE
    /\ mutex' = Nobody
    /\ aborted' = [d \in Thread |-> FALSE] /\ interrupted' = 0
    /\ result' = NoResult
    /\ restarts' = 0

Parse ==
    /\ \A d \in Thread : pc[d] = "Exit"
    /\ \E blocks \in 0 .. MaxBlocks :
        \E ruledIn \in SUBSET (0 .. (blocks - 1)) : StartQuery(blocks, ruledIn)

\* InterruptQueryExecution tells one dispatcher after the other.
Interrupt ==
    /\ \E d \in Thread : Started(d)
    /\ interrupted < DeviceCount
    /\ aborted' = [aborted EXCEPT ![interrupted] = TRUE]
    /\ interrupted' = interrupted + 1
    /\ UNCHANGED <<threadVars, sharedVars, queryVars, groupByTables, result>>

(***************************************************************************)
(* Execute: the loop ends between two instructions once the query was      *)
(* aborted or some thread has thrown.                                      *)
(***************************************************************************)
Continues(d) == ~aborted[d] /\ ~thrownException

LeaveLoop(d) ==
    /\ pc[d] \in AtInstruction
    /\ ~Continues(d)
    /\ Goto(d, "Exit")
    /\ UNCHANGED <<blockIndex, aggregated, hashTableFull, sharedVars, abortVars, queryVars, groupByTables, result>>

At(d, place) == pc[d] = place /\ Continues(d)

\* LoadTableBlockInfo: also for a thread that has no block at all.
GetLoadSize(d) ==
    /\ At(d, "GetLoadSize")
    /\ deviceCountLimit' = DeviceCountLimit
    /\ Goto(d, "LoadCol")
    /\ UNCHANGED <<blockIndex, aggregated, hashTableFull, groupByDoneCounter, thrownException, mutex,
                   abortVars, queryVars, groupByTables, result>>

\* WhereEvaluation and the first LoadCol after it.
LoadCol(d) ==
    /\ At(d, "LoadCol")
    /\ Goto(d, IF blockIndex[d] >= blockCount THEN "Exit"
               ELSE IF blockIndex[d] \notin needed THEN "Jmp" ELSE "ProcessBlock")
    /\ UNCHANGED <<blockIndex, aggregated, hashTableFull, sharedVars, abortVars, queryVars, groupByTables, result>>

\* Where a thread goes once it has aggregated its block.
AfterBlock(d) ==
    IF IsOverallLastBlock(d) THEN "Wait"
    ELSE IF IsLastBlockOfDevice(d) THEN "Signal"
    ELSE IF aggregated[d] + 1 < Aggregations THEN "ProcessBlock" ELSE "Jmp"

\* AggregationGroupBy, ProcessBlock succeeds.
ProcessBlock(d) ==
    /\ At(d, "ProcessBlock")
    /\ groupByTables' = [groupByTables EXCEPT ![d] = @ \cup {<<blockIndex[d], aggregated[d] + 1>>}]
    /\ Goto(d, AfterBlock(d))
    /\ aggregated' = [aggregated EXCEPT ![d] = @ + 1]
    /\ UNCHANGED <<blockIndex, hashTableFull, sharedVars, abortVars, queryVars, result>>

\* HandleHashTableFull
HashTableFull(d) ==
    /\ At(d, "ProcessBlock")
    /\ restarts < MaxRestarts
    /\ restarts' = restarts + 1
    /\ hashTableFull' = [hashTableFull EXCEPT ![d] = TRUE]
    /\ groupByTables' = [groupByTables EXCEPT ![d] = {}]
    /\ Goto(d, "Jmp")
    /\ UNCHANGED <<blockIndex, aggregated, sharedVars, abortVars, blockCount, needed, result>>

\* An exception leaves the instruction; Execute catches it, sets the flag
\* and then notifies, holding no mutex.
Throw(d) ==
    /\ At(d, "ProcessBlock")
    /\ thrownException' = TRUE
    /\ Goto(d, "Notify")
    /\ UNCHANGED <<blockIndex, aggregated, hashTableFull, groupByDoneCounter, deviceCountLimit, mutex,
                   abortVars, queryVars, groupByTables, result>>

NotifyOfException(d) ==
    /\ pc[d] = "Notify"
    /\ NotifyAll(d, "Exit")
    /\ UNCHANGED <<blockIndex, aggregated, hashTableFull, sharedVars, abortVars, queryVars, groupByTables, result>>

NextInstruction(d) == IF aggregated[d] < Aggregations THEN "ProcessBlock" ELSE "Jmp"

\* The thread has aggregated its last block: count it and notify.
Signal(d) ==
    /\ pc[d] = "Signal"
    /\ mutex = Nobody
    /\ groupByDoneCounter' = groupByDoneCounter + 1
    /\ NotifyAll(d, NextInstruction(d))
    /\ UNCHANGED <<blockIndex, aggregated, hashTableFull, deviceCountLimit, thrownException, mutex,
                   abortVars, queryVars, groupByTables, result>>

(***************************************************************************)
(* groupByCV_.wait(lock, IsGroupByDone): the predicate is evaluated with   *)
(* the mutex held; going to sleep releases it.                             *)
(***************************************************************************)
WaitTest(d) ==
    /\ pc[d] = "Wait"
    /\ mutex = Nobody
    /\ ~IsGroupByDone
    /\ mutex' = d
    /\ Goto(d, "Checked")
    /\ UNCHANGED <<blockIndex, aggregated, hashTableFull, groupByDoneCounter, deviceCountLimit, thrownException,
                   abortVars, queryVars, groupByTables, result>>

Sleep(d) ==
    /\ pc[d] = "Checked"
    /\ mutex' = Nobody
    /\ Goto(d, "Asleep")
    /\ UNCHANGED <<blockIndex, aggregated, hashTableFull, groupByDoneCounter, deviceCountLimit, thrownException,
                   abortVars, queryVars, groupByTables, result>>

SpuriousWakeup(d) ==
    /\ pc[d] = "Asleep"
    /\ Goto(d, "Wait")
    /\ UNCHANGED <<blockIndex, aggregated, hashTableFull, sharedVars, abortVars, queryVars, groupByTables, result>>

\* The wait ends because of an exception (status EXCEPTION), or with
\* GetResults, which merges the tables of all devices.
WaitEnds(d) ==
    /\ pc[d] = "Wait"
    /\ mutex = Nobody
    /\ IsGroupByDone
    /\ IF thrownException
       THEN Goto(d, "Exit") /\ UNCHANGED result
       ELSE Goto(d, NextInstruction(d)) /\ result' = UNION {groupByTables[t] : t \in Thread}
    /\ UNCHANGED <<blockIndex, aggregated, hashTableFull, sharedVars, abortVars, queryVars, groupByTables>>

(***************************************************************************)
(* Jmp                                                                     *)
(***************************************************************************)
SkippedLast(d) == IsLastBlockOfDevice(d) /\ blockIndex[d] \notin needed

\* A last block that was skipped is signalled here, then the thread is done.
JmpSkippedLast(d) ==
    /\ At(d, "Jmp")
    /\ mutex = Nobody
    /\ SkippedLast(d)
    /\ groupByDoneCounter' = groupByDoneCounter + 1
    /\ NotifyAll(d, "Done")
    /\ UNCHANGED <<blockIndex, aggregated, hashTableFull, deviceCountLimit, thrownException, mutex,
                   abortVars, queryVars, groupByTables, result>>

\* Mutant: the thread goes on with its next block after its table was reset.
RestartAt(d) == blockIndex[d] + DeviceCount

FirstBlock(d) == d

\* ResetBlocksProcessing: from the first block again, whatever aborted_ was.
JmpRestart(d) ==
    /\ At(d, "Jmp")
    /\ hashTableFull[d]
    /\ hashTableFull' = [hashTableFull EXCEPT ![d] = FALSE]
    /\ blockIndex' = [blockIndex EXCEPT ![d] = FirstBlock(d)]
    /\ aggregated' = [aggregated EXCEPT ![d] = 0]
    /\ aborted' = [aborted EXCEPT ![d] = FALSE]
    /\ Goto(d, "GetLoadSize")
    /\ UNCHANGED <<sharedVars, interrupted, queryVars, groupByTables, result>>

JmpNextBlock(d) ==
    /\ At(d, "Jmp")
    /\ ~hashTableFull[d] /\ ~IsLastBlockOfDevice(d)
    /\ blockIndex' = [blockIndex EXCEPT ![d] = @ + DeviceCount]
    /\ aggregated' = [aggregated EXCEPT ![d] = 0]
    /\ Goto(d, "GetLoadSize")
    /\ UNCHANGED <<hashTableFull, sharedVars, abortVars, queryVars, groupByTables, result>>

JmpLast(d) ==
    /\ At(d, "Jmp")
    /\ ~hashTableFull[d] /\ IsLastBlockOfDevice(d) /\ blockIndex[d] \in needed
    /\ Goto(d, "Done")
    /\ UNCHANGED <<blockIndex, aggregated, hashTableFull, sharedVars, abortVars, queryVars, groupByTables, result>>

Done(d) ==
    /\ At(d, "Done")
    /\ Goto(d, "Exit")
    /\ UNCHANGED <<blockIndex, aggregated, hashTableFull, sharedVars, abortVars, queryVars, groupByTables, result>>

ThreadStep(d) ==
    \/ LeaveLoop(d) \/ GetLoadSize(d) \/ LoadCol(d)
    \/ ProcessBlock(d) \/ HashTableFull(d)
    \/ Signal(d) \/ WaitTest(d) \/ Sleep(d) \/ WaitEnds(d)
    \/ JmpSkippedLast(d) \/ JmpRestart(d) \/ JmpNextBlock(d) \/ JmpLast(d) \/ Done(d)
    \/ NotifyOfException(d)

Init ==
    /\ blockCount = 0 /\ needed = {}
    /\ pc = [d \in Thread |-> "Exit"]
    /\ blockIndex = [d \in Thread |-> d]
    /\ aggregated = [d \in Thread |-> 0]
    /\ hashTableFull = [d \in Thread |-> FALSE]
    /\ groupByTables = [d \in Thread |-> {}]
    /\ groupByDoneCounter = 0 /\ deviceCountLimit = 0 /\ thrownException = FALSE
    /\ mutex = Nobody
    /\ aborted = [d \in Thread |-> FALSE] /\ interrupted = 0
    /\ result = NoResult
    /\ restarts = 0

Next ==
    \/ Parse \/ Interrupt
    \/ \E d \in Thread : ThreadStep(d) \/ Throw(d) \/ SpuriousWakeup(d)

\* Every thread that can run is run, and one that asks for the mutex again
\* and again, while a waiter wakes and sleeps, gets it.  Nothing obliges an
\* instruction to throw, a sleeper to wake without a notification, a client
\* to interrupt or a new query to arrive.
Fairness ==
    \A d \in Thread :
        WF_vars(ThreadStep(d)) /\ SF_vars(Signal(d)) /\ SF_vars(JmpSkippedLast(d))

Spec == Init /\ [][Next]_vars /\ Fairness
-----------------------------------------------------------------------------
\* Every counter, flag and position is of its kind.
TypeOK ==
    /\ blockCount \in 0 .. MaxBlocks /\ needed \subseteq 0 .. (blockCount - 1)
    /\ pc \in [Thread -> AtInstruction \cup InInstruction \cup {"Exit"}]
    /\ blockIndex \in [Thread -> Nat]
    /\ aggregated \in [Thread -> 0 .. Aggregations]
    /\ hashTableFull \in [Thread -> BOOLEAN]
    /\ groupByTables \in [Thread -> SUBSET ((0 .. (blockCount - 1)) \X (1 .. Aggregations))]
    /\ groupByDoneCounter \in Nat /\ deviceCountLimit \in -1 .. (DeviceCount - 1)
    /\ thrownException \in BOOLEAN /\ mutex \in Thread \cup {Nobody}
    /\ aborted \in [Thread -> BOOLEAN] /\ interrupted \in 0 .. DeviceCount
    /\ restarts \in 0 .. MaxRestarts

\* The result that the thread of the overall last block saves contains every
\* block that the WHERE clause does not rule out, for every aggregation of
\* it so far, whatever restarts and skips the other devices went through.
ResultComplete ==
    result # NoResult =>
        \E done \in 1 .. Aggregations : needed \X (1 .. done) \subseteq result

\* Once the tables have been merged no thread changes its table any more:
\* the merge never reads a table that is being filled.
MergedTablesAreFinal == [][result # NoResult /\ result' = result => groupByTables' = groupByTables]_vars

\* Each device counts once: while a thread waits, the counter has not gone
\* past the limit that it is compared with by ==.
CounterFitsLimit ==
    (\E d \in Thread : pc[d] \in {"Wait", "Checked", "Asleep"}) => groupByDoneCounter <= Min(DeviceCount, blockCount) - 1

\* No exception was thrown and nobody has interrupted the query.
Undisturbed == ~thrownException /\ interrupted = 0

AllThreadsLeft == \A d \in Thread : pc[d] = "Exit"

\* "The dispatcher instance handling the overall last block waits for all
\* other dispatcher instances to finish their last blocks and saves the
\* result of group by": a query that neither failed nor was interrupted has
\* saved a result, if the WHERE clause does not rule out the last block.
SavesResult ==
    AllThreadsLeft /\ Undisturbed /\ blockCount - 1 \in needed => result # NoResult

\* A query ends with a result, a result has every group in it, and no device
\* is counted twice on the way.
ResultSavedWhole == TypeOK /\ CounterFitsLimit /\ ResultComplete /\ SavesResult

\* All dispatcher threads end, so that Parse can join them: no thread waits
\* for ever on a condition variable or for the mutex, unless some thread
\* threw or the query was interrupted.
ThreadsEnd == ~AllThreadsLeft ~> (AllThreadsLeft \/ ~Undisturbed)
=============================================================================
