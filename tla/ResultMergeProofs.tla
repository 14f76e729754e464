--------------------------- MODULE ResultMergeProofs ---------------------------
(***************************************************************************)
(* How the devices' parts of a result are put together, for any number of  *)
(* devices, blocks, columns and rows.                                      *)
(*                                                                         *)
(* GROUP BY (GpuSqlDispatcher): the thread of the overall last block       *)
(* merges complete tables, and they do not change any more.  With several  *)
(* aggregate functions a device signals once for each of them, the counter *)
(* passes the limit, and neither holds: the theorems are for one.          *)
(*                                                                         *)
(* ORDER BY (OrderByMerge): the merge of the sorted blocks is in order,    *)
(* whatever values of the type the columns hold.                           *)
(***************************************************************************)
EXTENDS GpuSqlDispatcher, OrderByMerge, FiniteSetTheorems, TLAPS

-----------------------------------------------------------------------------
(***************************************************************************)
(* The blocks of a device.                                                 *)
(***************************************************************************)

\* Quotient and remainder.
LEMMA Divided ==
    ASSUME NEW b \in Nat, NEW n \in Nat \ {0}
    PROVE  b \div n \in Nat /\ b % n \in 0 .. (n - 1) /\ b = n * (b \div n) + (b % n)
<1>1. b \div n \in Int /\ b % n \in 0 .. (n - 1) /\ b = n * (b \div n) + (b % n)
  OBVIOUS
<1> DEFINE q == b \div n
<1>2. ASSUME q < 0 PROVE FALSE
  <2>1. q \in Int /\ b < n * q + n
    BY <1>1
  <2> HIDE DEF q
  <2>2. -1 - q \in Nat /\ n * (-1 - q) >= 0 /\ n * (-1 - q) = - n - n * q
    BY <2>1, <1>2
  <2> QED
    BY <2>1, <2>2
<1> QED
  BY <1>1, <1>2

\* A device's next block is DeviceCount further on: less is the same block.
LEMMA SameBlock ==
    ASSUME NEW n \in Nat \ {0}, NEW b \in Nat, NEW c \in Nat, b % n = c % n, c <= b, b < c + n
    PROVE  b = c
<1> DEFINE p == b \div n
           q == c \div n
           r == c % n
<1>1. p \in Nat /\ q \in Nat /\ r \in 0 .. (n - 1) /\ b = n * p + r /\ c = n * q + r
  BY Divided, Zenon
<1> HIDE DEF p, q, r
<1>2. n * p >= n * q /\ n * p < n * q + n
  BY <1>1
<1>3. ASSUME p < q PROVE FALSE
  <2>1. q = p + (q - p) /\ q - p \in Nat \ {0}
    BY <1>1, <1>3
  <2>2. n * q = n * p + n * (q - p) /\ n * (q - p) >= n
    BY <1>1, <2>1
  <2> QED
    BY <1>1, <1>2, <2>2
<1>4. ASSUME p > q PROVE FALSE
  <2>1. p = q + (p - q) /\ p - q \in Nat \ {0}
    BY <1>1, <1>4
  <2>2. n * p = n * q + n * (p - q) /\ n * (p - q) >= n
    BY <1>1, <2>1
  <2> QED
    BY <1>1, <1>2, <2>2
<1> QED
  BY <1>1, <1>3, <1>4

\* A thread's blocks are its own from the first one, its number, on.
LEMMA FirstOfDevice ==
    ASSUME NEW n \in Nat \ {0}, NEW d \in 0 .. (n - 1)
    PROVE  d % n = d
BY SMT

\* The next block of a device belongs to it.
LEMMA NextOfDevice ==
    ASSUME NEW b \in Nat, NEW n \in Nat \ {0}
    PROVE  (b + n) % n = b % n
<1> DEFINE q == b \div n
           r == b % n
           p == (b + n) \div n
           s == (b + n) % n
<1>1. q \in Nat /\ r \in 0 .. (n - 1) /\ b = n * q + r /\ p \in Nat /\ s \in 0 .. (n - 1) /\ b + n = n * p + s
  <2>1. b + n \in Nat
    OBVIOUS
  <2> QED
    BY <2>1, Divided, Zenon
<1> HIDE DEF p, q, r, s
<1>2. n * (q + 1) = n * q + n /\ q + 1 \in Nat
  BY <1>1
<1>3. n * p + s = n * (q + 1) + r
  BY <1>1, <1>2
<1>4. ASSUME p < q + 1 PROVE FALSE
  <2>1. (q + 1) - p \in Nat \ {0} /\ n * (q + 1) = n * p + n * ((q + 1) - p) /\ n * ((q + 1) - p) >= n
    BY <1>1, <1>4
  <2> QED
    BY <1>1, <1>3, <2>1
<1>5. ASSUME p > q + 1 PROVE FALSE
  <2>1. p - (q + 1) \in Nat \ {0} /\ n * p = n * (q + 1) + n * (p - (q + 1)) /\ n * (p - (q + 1)) >= n
    BY <1>1, <1>5
  <2> QED
    BY <1>1, <1>3, <2>1
<1>6. s = r
  BY <1>1, <1>2, <1>3, <1>4, <1>5
<1> QED
  BY <1>6, Zenon DEF r, s

-----------------------------------------------------------------------------
(***************************************************************************)
(* The inductive invariant, for a query with one aggregate function.       *)
(***************************************************************************)

Waiting == {"Wait", "Checked", "Asleep"}

\* The table of device d has all its blocks that count.
TableComplete(d) == \A b \in needed : b % DeviceCount = d => <<b, 1>> \in groupByTables[d]

\* Thread d is past the signal for its last block.
Finished(d) ==
    /\ pc[d] \in {"Jmp", "Done", "Exit"}
    /\ blockIndex[d] < blockCount /\ IsLastBlockOfDevice(d) /\ ~hashTableFull[d]
    /\ pc[d] = "Jmp" => blockIndex[d] \in needed
    /\ TableComplete(d)

\* What thread d relies on at each instruction.
ThreadSound(d) ==
    /\ blockIndex[d] % DeviceCount = d
    /\ blockIndex[d] < blockCount \/ (blockIndex[d] = d /\ pc[d] \in {"GetLoadSize", "LoadCol", "Exit"})
    /\ pc[d] \in {"GetLoadSize", "LoadCol", "ProcessBlock"} => aggregated[d] = 0 /\ ~hashTableFull[d]
    /\ pc[d] \in Waiting \cup {"ProcessBlock", "Signal"} => blockIndex[d] \in needed
    /\ pc[d] \in Waiting \cup {"Signal"} => aggregated[d] = 1 /\ ~hashTableFull[d]
    /\ pc[d] = "Signal" => IsLastBlockOfDevice(d) /\ ~IsOverallLastBlock(d)
    /\ pc[d] \in Waiting => IsOverallLastBlock(d)
    /\ pc[d] = "Jmp" /\ blockIndex[d] \in needed => hashTableFull[d] \/ aggregated[d] = 1
    /\ pc[d] = "Jmp" /\ hashTableFull[d] => blockIndex[d] \in needed
    /\ pc[d] \notin {"GetLoadSize", "Exit"} => deviceCountLimit = DeviceCountLimit
    /\ pc[d] = "Notify" => thrownException

\* The table of device d has the blocks up to the present one, unless it has
\* just been emptied.
AggregatedSoFar(d) ==
    ~hashTableFull[d] =>
        \A b \in needed :
            b % DeviceCount = d /\ (b < blockIndex[d] \/ (b = blockIndex[d] /\ aggregated[d] = 1)) =>
                <<b, 1>> \in groupByTables[d]

\* The counter counts threads that have finished, each of them once.
CountedOnce ==
    \E f \in [1 .. groupByDoneCounter -> Thread] :
        /\ \A i, j \in 1 .. groupByDoneCounter : f[i] = f[j] => i = j
        /\ \A i \in 1 .. groupByDoneCounter : Finished(f[i])

\* A result is merged from tables that are complete and stay as they are.
MergedWhole ==
    result # NoResult =>
        /\ \A d \in Thread : d < blockCount => Finished(d)
        /\ needed \X {1} \subseteq result

\* Thread d is past the merge, if it is the one to merge.
PastMerge(d) ==
    \/ pc[d] \in {"Done", "Exit"}
    \/ pc[d] = "Jmp" /\ IsOverallLastBlock(d) /\ aggregated[d] = 1

SavedByLast ==
    Undisturbed /\ blockCount - 1 \in needed =>
        \A d \in Thread : (blockCount - 1) % DeviceCount = d /\ PastMerge(d) => result # NoResult

Unaborted == interrupted = 0 => \A d \in Thread : ~aborted[d]

DispatcherInv ==
    /\ TypeOK
    /\ \A d \in Thread : ThreadSound(d) /\ AggregatedSoFar(d)
    /\ CountedOnce /\ MergedWhole /\ SavedByLast /\ Unaborted

-----------------------------------------------------------------------------
(***************************************************************************)
(* A step of thread t, and the others.                                     *)
(***************************************************************************)

\* Thread d is left alone, or woken up.
Untouched(d) ==
    /\ pc'[d] = pc[d] \/ (pc[d] = "Asleep" /\ pc'[d] = "Wait")
    /\ blockIndex'[d] = blockIndex[d] /\ aggregated'[d] = aggregated[d]
    /\ hashTableFull'[d] = hashTableFull[d] /\ groupByTables'[d] = groupByTables[d]

\* What every step of thread t leaves alone.
Frame(t) ==
    /\ UNCHANGED <<blockCount, needed>>
    /\ deviceCountLimit' \in {deviceCountLimit, DeviceCountLimit}
    /\ thrownException => thrownException'
    /\ \A d \in Thread \ {t} : Untouched(d)

\* A thread that is left alone or woken up is where it was.
LEMMA UntouchedSound ==
    ASSUME NEW t \in Thread, Frame(t), NEW d \in Thread \ {t}, ThreadSound(d), AggregatedSoFar(d)
    PROVE  /\ ThreadSound(d)' /\ AggregatedSoFar(d)'
           /\ Finished(d) => Finished(d)'
           /\ PastMerge(d)' => PastMerge(d)
<1>1. UNCHANGED <<blockCount, needed>> /\ (deviceCountLimit = DeviceCountLimit => deviceCountLimit' = DeviceCountLimit')
      /\ (thrownException => thrownException')
  BY Zenon DEF Frame, DeviceCountLimit, Min
<1>2. UNCHANGED <<blockIndex[d], aggregated[d], hashTableFull[d], groupByTables[d]>>
  BY Zenon DEF Frame, Untouched
<1>3. \/ pc'[d] = pc[d]
      \/ pc[d] = "Asleep" /\ pc'[d] = "Wait"
  BY Zenon DEF Frame, Untouched
<1>4. ThreadSound(d)'
  <2>1. CASE pc'[d] = pc[d]
    BY <2>1, <1>1, <1>2, Zenon DEF ThreadSound, IsLastBlockOfDevice, IsOverallLastBlock
  <2>2. CASE pc[d] = "Asleep" /\ pc'[d] = "Wait"
    BY <2>2, <1>1, <1>2, Zenon DEF ThreadSound, IsLastBlockOfDevice, IsOverallLastBlock, Waiting
  <2> QED
    BY <1>3, <2>1, <2>2, Zenon
<1>5. AggregatedSoFar(d)'
  BY <1>1, <1>2, Zenon DEF AggregatedSoFar
<1>6. Finished(d) => Finished(d)'
  BY <1>1, <1>2, <1>3, Zenon DEF Finished, IsLastBlockOfDevice, TableComplete
<1>7. PastMerge(d)' => PastMerge(d)
  BY <1>1, <1>2, <1>3, Zenon DEF PastMerge, IsOverallLastBlock
<1> QED
  BY <1>4, <1>5, <1>6, <1>7, Zenon

\* The threads counted so far stay finished, and another one may join them.
LEMMA CountStep ==
    ASSUME TypeOK, CountedOnce, NEW t \in Thread, \A d \in Thread : Finished(d) => Finished(d)',
           \/ groupByDoneCounter' = groupByDoneCounter
           \/ groupByDoneCounter' = groupByDoneCounter + 1 /\ ~Finished(t) /\ Finished(t)'
    PROVE  CountedOnce'
<1>1. PICK c \in Nat : c = groupByDoneCounter
  BY DEF TypeOK
<1>2. PICK f \in [1 .. c -> Thread] : (\A i, j \in 1 .. c : f[i] = f[j] => i = j) /\ \A i \in 1 .. c : Finished(f[i])
  BY <1>1 DEF CountedOnce
<1>3. Thread' = Thread
  BY DEF Thread
<1>4. \A i \in 1 .. c : Finished(f[i])'
  BY <1>2
<1>5. CASE groupByDoneCounter' = groupByDoneCounter
  BY <1>1, <1>2, <1>3, <1>4, <1>5 DEF CountedOnce
<1>6. CASE groupByDoneCounter' = groupByDoneCounter + 1 /\ ~Finished(t) /\ Finished(t)'
  <2>1. PICK g : g = [i \in 1 .. (c + 1) |-> IF i = c + 1 THEN t ELSE f[i]]
    BY Zenon
  <2>2. g \in [1 .. (c + 1) -> Thread] /\ g[c + 1] = t /\ \A i \in 1 .. c : g[i] = f[i]
    BY <2>1
  <2>3. \A i \in 1 .. c : f[i] # t
    BY <1>2, <1>6, Zenon
  <2>4. \A i \in 1 .. (c + 1) : i = c + 1 \/ i \in 1 .. c
    OBVIOUS
  <2>5. \A i, j \in 1 .. (c + 1) : g[i] = g[j] => i = j
    BY <1>2, <2>2, <2>3, <2>4
  <2>6. ASSUME NEW i \in 1 .. (c + 1) PROVE Finished(g[i])'
    <3>1. CASE i = c + 1
      BY <3>1, <1>6, <2>2, Zenon
    <3>2. CASE i \in 1 .. c
      BY <3>2, <1>4, <2>2, Zenon
    <3> QED
      BY <2>4, <3>1, <3>2, Zenon
  <2>7. groupByDoneCounter' = c + 1
    BY <1>1, <1>6
  <2> QED
    BY <1>3, <2>2, <2>5, <2>6, <2>7, Zenon DEF CountedOnce
<1> QED
  BY <1>5, <1>6

\* A step of thread t that merges nothing keeps the invariant, if it keeps
\* what is said of t itself and counts t only when it has finished.
LEMMA StepSound ==
    ASSUME DispatcherInv, NEW t \in Thread, TypeOK', Frame(t), Unaborted',
           ThreadSound(t)', AggregatedSoFar(t)', Finished(t) => Finished(t)',
           \/ groupByDoneCounter' = groupByDoneCounter
           \/ groupByDoneCounter' = groupByDoneCounter + 1 /\ ~Finished(t) /\ Finished(t)',
           result' = result, interrupted' = interrupted,
           (blockCount - 1) % DeviceCount = t /\ blockCount - 1 \in needed /\ Undisturbed /\ PastMerge(t)' => PastMerge(t)
    PROVE  DispatcherInv'
<1>1. \A d \in Thread \ {t} : /\ ThreadSound(d)' /\ AggregatedSoFar(d)'
                              /\ Finished(d) => Finished(d)'
                              /\ PastMerge(d)' => PastMerge(d)
  BY UntouchedSound, Zenon DEF DispatcherInv
<1>2. \A d \in Thread : /\ ThreadSound(d)' /\ AggregatedSoFar(d)'
                        /\ Finished(d) => Finished(d)'
  BY <1>1, Zenon
<1>3. UNCHANGED <<blockCount, needed>> /\ (thrownException => thrownException')
  BY Zenon DEF Frame
<1>4. Thread' = Thread
  BY Zenon DEF Thread
<1>5. CountedOnce'
  BY <1>2, CountStep, Zenon DEF DispatcherInv
<1>6. MergedWhole'
  BY <1>2, <1>3, Zenon DEF DispatcherInv, MergedWhole
<1>7. SavedByLast'
  <2> SUFFICES ASSUME Undisturbed', (blockCount - 1 \in needed)', NEW d \in Thread,
                      (blockCount - 1) % DeviceCount = d, PastMerge(d)'
               PROVE  result' # NoResult
    BY <1>3, Zenon DEF SavedByLast
  <2>1. Undisturbed /\ blockCount - 1 \in needed
    BY <1>3, Zenon DEF Undisturbed
  <2>2. PastMerge(d)
    BY <1>1, <2>1, Zenon
  <2> QED
    BY <2>1, <2>2, Zenon DEF DispatcherInv, SavedByLast
<1> QED
  BY <1>2, <1>5, <1>6, <1>7, Zenon DEF DispatcherInv

\* The numbers of a thread.
LEMMA ThreadFacts ==
    ASSUME DispatcherInv, NEW t \in Thread
    PROVE  /\ DeviceCount \in Nat \ {0} /\ t \in 0 .. (DeviceCount - 1) /\ blockCount \in Nat
           /\ needed \subseteq 0 .. (blockCount - 1)
           /\ blockIndex[t] \in Nat /\ blockIndex[t] % DeviceCount = t
           /\ aggregated[t] \in 0 .. Aggregations /\ hashTableFull[t] \in BOOLEAN
           /\ TypeOK /\ ThreadSound(t) /\ AggregatedSoFar(t)
<1>1. TypeOK /\ ThreadSound(t) /\ AggregatedSoFar(t)
  BY Zenon DEF DispatcherInv
<1>2. DeviceCount \in Nat \ {0} /\ t \in 0 .. (DeviceCount - 1) /\ blockCount \in Nat /\ needed \subseteq 0 .. (blockCount - 1)
  BY <1>1, DispatcherAssumption DEF TypeOK, Thread
<1>3. blockIndex[t] \in Nat /\ aggregated[t] \in 0 .. Aggregations /\ hashTableFull[t] \in BOOLEAN
  BY <1>1, Zenon DEF TypeOK
<1> QED
  BY <1>1, <1>2, <1>3, Zenon DEF ThreadSound

\* The last block of a device completes its table.
LEMMA CompleteAtLast ==
    ASSUME DispatcherInv, NEW t \in Thread, ~hashTableFull[t], IsLastBlockOfDevice(t),
           blockIndex[t] \in needed => aggregated[t] = 1
    PROVE  TableComplete(t)
<1> SUFFICES ASSUME NEW b \in needed, b % DeviceCount = t PROVE <<b, 1>> \in groupByTables[t]
  BY Zenon DEF TableComplete
<1>1. b \in Nat /\ b < blockCount /\ blockIndex[t] \in Nat /\ blockIndex[t] >= blockCount - DeviceCount
  BY ThreadFacts DEF IsLastBlockOfDevice
<1>2. ASSUME ~(b < blockIndex[t]) PROVE b = blockIndex[t]
  <2>1. blockIndex[t] <= b /\ b < blockIndex[t] + DeviceCount
    BY <1>1, <1>2, ThreadFacts
  <2>2. b % DeviceCount = blockIndex[t] % DeviceCount /\ DeviceCount \in Nat \ {0}
    BY ThreadFacts, Zenon
  <2> QED
    BY <1>1, <2>1, <2>2, SameBlock, Zenon
<1>3. AggregatedSoFar(t)
  BY ThreadFacts, Zenon
<1> QED
  BY <1>2, <1>3, Zenon DEF AggregatedSoFar

\* The thread that has the last block of all has a block, and its last one is
\* that.
LEMMA LastThread ==
    ASSUME DispatcherInv, NEW t \in Thread, (blockCount - 1) % DeviceCount = t, blockCount - 1 \in needed
    PROVE  /\ blockIndex[t] < blockCount
           /\ IsLastBlockOfDevice(t) => IsOverallLastBlock(t)
<1> DEFINE last == blockCount - 1
<1>1. last \in Nat /\ blockCount = last + 1 /\ DeviceCount \in Nat \ {0} /\ last % DeviceCount = t
      /\ blockIndex[t] \in Nat /\ blockIndex[t] % DeviceCount = t /\ ThreadSound(t)
  BY ThreadFacts
<1> HIDE DEF last
<1>2. t <= last
  <2>1. last = DeviceCount * (last \div DeviceCount) + (last % DeviceCount) /\ last \div DeviceCount \in Nat /\ last % DeviceCount \in Nat
    BY <1>1, Divided
  <2>2. DeviceCount * (last \div DeviceCount) >= 0
    BY <1>1, <2>1
  <2> QED
    BY <1>1, <2>1, <2>2
<1>3. blockIndex[t] < blockCount
  BY <1>1, <1>2 DEF ThreadSound
<1>4. ASSUME IsLastBlockOfDevice(t) PROVE IsOverallLastBlock(t)
  <2>1. blockIndex[t] <= last /\ last < blockIndex[t] + DeviceCount
    BY <1>1, <1>3, <1>4 DEF IsLastBlockOfDevice
  <2>2. last = blockIndex[t]
    BY <1>1, <2>1, SameBlock, Zenon
  <2> QED
    BY <1>1, <2>2 DEF IsOverallLastBlock
<1> QED
  BY <1>3, <1>4, Zenon

\* A thread goes on to place; the others are left alone.
LEMMA GotoFrame ==
    ASSUME TypeOK, NEW t \in Thread, NEW place \in AtInstruction \cup InInstruction \cup {"Exit"}, Goto(t, place),
           UNCHANGED <<blockCount, needed>>,
           deviceCountLimit' \in {deviceCountLimit, DeviceCountLimit}, thrownException => thrownException',
           \A d \in Thread \ {t} : UNCHANGED <<blockIndex[d], aggregated[d], hashTableFull[d], groupByTables[d]>>
    PROVE  /\ Frame(t) /\ pc'[t] = place
           /\ pc' \in [Thread -> AtInstruction \cup InInstruction \cup {"Exit"}]
<1>1. pc \in [Thread -> AtInstruction \cup InInstruction \cup {"Exit"}] /\ pc' = [pc EXCEPT ![t] = place]
  BY Zenon DEF TypeOK, Goto
<1>2. pc' \in [Thread -> AtInstruction \cup InInstruction \cup {"Exit"}] /\ pc'[t] = place /\ \A d \in Thread \ {t} : pc'[d] = pc[d]
  BY <1>1, Zenon
<1>3. \A d \in Thread \ {t} : Untouched(d)
  BY <1>2, Zenon DEF Untouched
<1> QED
  BY <1>2, <1>3, Zenon DEF Frame

\* A thread notifies all, and goes on to place.
LEMMA NotifyFrame ==
    ASSUME TypeOK, NEW t \in Thread, NEW place \in AtInstruction \cup InInstruction \cup {"Exit"}, NotifyAll(t, place),
           UNCHANGED <<blockCount, needed, deviceCountLimit, thrownException, blockIndex, aggregated, hashTableFull, groupByTables>>
    PROVE  /\ Frame(t) /\ pc'[t] = place
           /\ pc' \in [Thread -> AtInstruction \cup InInstruction \cup {"Exit"}]
<1>1. pc \in [Thread -> AtInstruction \cup InInstruction \cup {"Exit"}]
  BY Zenon DEF TypeOK
<1>2. pc' = [d \in Thread |-> IF d = t THEN place ELSE IF pc[d] = "Asleep" THEN "Wait" ELSE pc[d]]
  BY Zenon DEF NotifyAll
<1>3. pc' \in [Thread -> AtInstruction \cup InInstruction \cup {"Exit"}] /\ pc'[t] = place
  BY <1>1, <1>2, Zenon DEF InInstruction
<1>4. \A d \in Thread \ {t} : pc'[d] = pc[d] \/ (pc[d] = "Asleep" /\ pc'[d] = "Wait")
  BY <1>2, Zenon
<1>5. \A d \in Thread \ {t} : Untouched(d)
  BY <1>4, Zenon DEF Untouched
<1> QED
  BY <1>3, <1>5, Zenon DEF Frame

-----------------------------------------------------------------------------
(***************************************************************************)
(* Steps that only move on.                                                *)
(***************************************************************************)

\* Thread t moves on, and may take or give the mutex.
LEMMA MoveSound ==
    ASSUME DispatcherInv, NEW t \in Thread, Frame(t), pc' \in [Thread -> AtInstruction \cup InInstruction \cup {"Exit"}],
           UNCHANGED <<blockIndex, aggregated, hashTableFull, groupByTables, groupByDoneCounter, deviceCountLimit,
                       thrownException, abortVars, queryVars, result>>,
           mutex' \in Thread \cup {Nobody},
           ThreadSound(t)', Finished(t) => Finished(t)',
           (blockCount - 1) % DeviceCount = t /\ blockCount - 1 \in needed /\ Undisturbed /\ PastMerge(t)' => PastMerge(t)
    PROVE  DispatcherInv'
<1> USE DEF abortVars, queryVars
<1>1. TypeOK'
  BY Zenon DEF DispatcherInv, TypeOK, Thread, Nobody
<1>2. Unaborted'
  BY Zenon DEF DispatcherInv, Unaborted, Thread
<1>3. AggregatedSoFar(t)'
  BY Zenon DEF DispatcherInv, AggregatedSoFar
<1> QED
  BY <1>1, <1>2, <1>3, StepSound, Zenon

\* The loop ends between two instructions: only after an exception or an
\* interrupt.
LEMMA LeaveLoopSound ==
    ASSUME DispatcherInv, NEW t \in Thread, LeaveLoop(t)
    PROVE  DispatcherInv'
<1> USE DEF sharedVars, abortVars, queryVars
<1>1. TypeOK /\ ThreadSound(t) /\ blockIndex[t] \in Nat
  BY ThreadFacts, Zenon
<1>2. Goto(t, "Exit") /\ ~Continues(t)
      /\ UNCHANGED <<blockIndex, aggregated, hashTableFull, sharedVars, abortVars, queryVars, groupByTables, result>>
  BY Zenon DEF LeaveLoop
<1>3. Frame(t) /\ pc'[t] = "Exit" /\ pc' \in [Thread -> AtInstruction \cup InInstruction \cup {"Exit"}]
  BY <1>1, <1>2, GotoFrame, Zenon
<1>4. ThreadSound(t)'
  BY <1>1, <1>2, <1>3, Zenon DEF ThreadSound, Waiting
<1>5. Finished(t) => Finished(t)'
  BY <1>2, <1>3, Zenon DEF Finished, IsLastBlockOfDevice, TableComplete
<1>6. ~Undisturbed
  BY <1>2, Zenon DEF Undisturbed, Continues, DispatcherInv, Unaborted
<1>7. mutex' \in Thread \cup {Nobody}
  BY <1>1, <1>2, Zenon DEF TypeOK
<1> QED
  BY <1>2, <1>3, <1>4, <1>5, <1>6, <1>7, MoveSound, Zenon

\* A block is loaded or skipped; a thread without one ends.
LEMMA LoadColSound ==
    ASSUME DispatcherInv, NEW t \in Thread, LoadCol(t)
    PROVE  DispatcherInv'
<1> USE DEF sharedVars, abortVars, queryVars
<1> DEFINE place == IF blockIndex[t] >= blockCount THEN "Exit"
                    ELSE IF blockIndex[t] \notin needed THEN "Jmp" ELSE "ProcessBlock"
<1>1. TypeOK /\ ThreadSound(t) /\ blockIndex[t] \in Nat /\ blockCount \in Nat
  BY ThreadFacts, Zenon
<1>2. pc[t] = "LoadCol" /\ Goto(t, place)
      /\ UNCHANGED <<blockIndex, aggregated, hashTableFull, sharedVars, abortVars, queryVars, groupByTables, result>>
  BY Zenon DEF LoadCol, At
<1>3. place \in AtInstruction \cup InInstruction \cup {"Exit"}
  BY Zenon DEF AtInstruction
<1>4. Frame(t) /\ pc'[t] = place /\ pc' \in [Thread -> AtInstruction \cup InInstruction \cup {"Exit"}]
  BY <1>1, <1>2, <1>3, GotoFrame, Zenon
<1>5. ThreadSound(t)'
  <2>1. CASE blockIndex[t] >= blockCount
    BY <2>1, <1>1, <1>2, <1>4, Zenon DEF ThreadSound, Waiting
  <2>2. CASE blockIndex[t] < blockCount /\ blockIndex[t] \notin needed
    <3>1. pc'[t] = "Jmp"
      BY <2>2, <1>1, <1>4
    <3> QED
      BY <2>2, <3>1, <1>1, <1>2, Zenon DEF ThreadSound, Waiting, DeviceCountLimit
  <2>3. CASE blockIndex[t] < blockCount /\ blockIndex[t] \in needed
    <3>1. pc'[t] = "ProcessBlock"
      BY <2>3, <1>1, <1>4
    <3> QED
      BY <2>3, <3>1, <1>1, <1>2, Zenon DEF ThreadSound, Waiting, DeviceCountLimit
  <2> QED
    BY <2>1, <2>2, <2>3, <1>1
<1>6. ~Finished(t)
  BY <1>2, Zenon DEF Finished
<1>7. ASSUME (blockCount - 1) % DeviceCount = t, blockCount - 1 \in needed, PastMerge(t)' PROVE FALSE
  <2>1. blockIndex[t] < blockCount
    BY <1>7, LastThread, Zenon
  <2>2. pc'[t] = "Jmp" => blockIndex[t] \notin needed
    BY <2>1, <1>1, <1>4, Zenon
  <2>3. pc'[t] \in {"Jmp", "ProcessBlock"}
    BY <2>1, <1>1, <1>4
  <2>4. blockIndex[t] = blockCount - 1
    BY <1>2, <1>7, <2>3, Zenon DEF PastMerge, IsOverallLastBlock
  <2> QED
    BY <1>7, <2>2, <2>3, <2>4, Zenon DEF PastMerge
<1>8. mutex' \in Thread \cup {Nobody}
  BY <1>1, <1>2, Zenon DEF TypeOK
<1> HIDE DEF place
<1> QED
  BY <1>2, <1>4, <1>5, <1>6, <1>7, <1>8, MoveSound, Zenon

\* The steps of the thread that waits, before the wait ends.
LEMMA WaitingSound ==
    ASSUME DispatcherInv, NEW t \in Thread, WaitTest(t) \/ Sleep(t) \/ SpuriousWakeup(t)
    PROVE  DispatcherInv'
<1> USE DEF sharedVars, abortVars, queryVars
<1>1. TypeOK /\ ThreadSound(t)
  BY ThreadFacts, Zenon
<1>2. PICK place \in Waiting : Goto(t, place)
  BY Zenon DEF WaitTest, Sleep, SpuriousWakeup, Waiting
<1>3. /\ pc[t] \in Waiting /\ mutex' \in {mutex, t, Nobody}
      /\ UNCHANGED <<blockIndex, aggregated, hashTableFull, groupByDoneCounter, deviceCountLimit, thrownException,
                     abortVars, queryVars, groupByTables, result>>
  BY Zenon DEF WaitTest, Sleep, SpuriousWakeup, Waiting
<1>4. place \in AtInstruction \cup InInstruction \cup {"Exit"}
  BY Zenon DEF InInstruction, Waiting
<1>5. Frame(t) /\ pc'[t] = place /\ pc' \in [Thread -> AtInstruction \cup InInstruction \cup {"Exit"}]
  BY <1>1, <1>2, <1>3, <1>4, GotoFrame, Zenon
<1>6. ThreadSound(t)'
  <2>1. pc[t] \notin {"GetLoadSize", "LoadCol", "ProcessBlock", "Signal", "Jmp", "Exit", "Notify"}
        /\ pc'[t] \notin {"GetLoadSize", "LoadCol", "ProcessBlock", "Signal", "Jmp", "Exit", "Notify"}
        /\ pc'[t] \in Waiting
    BY <1>3, <1>5, Zenon DEF Waiting
  <2> QED
    BY <2>1, <1>1, <1>3, Zenon DEF ThreadSound, IsOverallLastBlock, DeviceCountLimit
<1>7. ~Finished(t) /\ ~PastMerge(t)'
  BY <1>3, <1>5, Zenon DEF Finished, PastMerge, Waiting
<1>8. mutex' \in Thread \cup {Nobody}
  BY <1>1, <1>3, Zenon DEF TypeOK
<1> QED
  BY <1>3, <1>5, <1>6, <1>7, <1>8, MoveSound, Zenon

\* The thread that threw notifies.
LEMMA NotifyOfExceptionSound ==
    ASSUME DispatcherInv, NEW t \in Thread, NotifyOfException(t)
    PROVE  DispatcherInv'
<1> USE DEF sharedVars, abortVars, queryVars
<1>1. TypeOK /\ ThreadSound(t)
  BY ThreadFacts, Zenon
<1>2. pc[t] = "Notify" /\ NotifyAll(t, "Exit")
      /\ UNCHANGED <<blockIndex, aggregated, hashTableFull, sharedVars, abortVars, queryVars, groupByTables, result>>
  BY Zenon DEF NotifyOfException
<1>3. Frame(t) /\ pc'[t] = "Exit" /\ pc' \in [Thread -> AtInstruction \cup InInstruction \cup {"Exit"}]
  BY <1>1, <1>2, NotifyFrame, Zenon
<1>4. ThreadSound(t)'
  BY <1>1, <1>2, <1>3, Zenon DEF ThreadSound, Waiting
<1>5. ~Finished(t)
  BY <1>2, Zenon DEF Finished
<1>6. ~Undisturbed
  BY <1>1, <1>2, Zenon DEF ThreadSound, Undisturbed
<1>7. mutex' \in Thread \cup {Nobody}
  BY <1>1, <1>2, Zenon DEF TypeOK
<1> QED
  BY <1>2, <1>3, <1>4, <1>5, <1>6, <1>7, MoveSound, Zenon

\* The last block of the device is done, and then the query is.
LEMMA EndsSound ==
    ASSUME DispatcherInv, NEW t \in Thread, JmpLast(t) \/ Done(t)
    PROVE  DispatcherInv'
<1> USE DEF sharedVars, abortVars, queryVars
<1>1. TypeOK /\ ThreadSound(t) /\ hashTableFull[t] \in BOOLEAN
  BY ThreadFacts, Zenon
<1>2. PICK place \in {"Done", "Exit"} : Goto(t, place)
  BY Zenon DEF JmpLast, Done
<1>3. UNCHANGED <<blockIndex, aggregated, hashTableFull, sharedVars, abortVars, queryVars, groupByTables, result>>
  BY Zenon DEF JmpLast, Done
<1>4. place \in AtInstruction \cup InInstruction \cup {"Exit"}
  BY Zenon DEF AtInstruction
<1>5. Frame(t) /\ pc'[t] = place /\ pc' \in [Thread -> AtInstruction \cup InInstruction \cup {"Exit"}]
  BY <1>1, <1>2, <1>3, <1>4, GotoFrame, Zenon
<1>6. /\ pc[t] \in {"Jmp", "Done"}
      /\ pc[t] = "Jmp" => ~hashTableFull[t] /\ IsLastBlockOfDevice(t) /\ blockIndex[t] \in needed
  BY Zenon DEF JmpLast, Done, At
<1>7. ThreadSound(t)'
  BY <1>1, <1>3, <1>5, <1>6, Zenon DEF ThreadSound, Waiting, DeviceCountLimit
<1>8. Finished(t) => Finished(t)'
  BY <1>3, <1>5, Zenon DEF Finished, IsLastBlockOfDevice, TableComplete
<1>9. ASSUME (blockCount - 1) % DeviceCount = t, blockCount - 1 \in needed PROVE PastMerge(t)
  <2>1. CASE pc[t] = "Done"
    BY <2>1, Zenon DEF PastMerge
  <2>2. CASE pc[t] = "Jmp"
    <3>1. IsOverallLastBlock(t)
      BY <2>2, <1>6, <1>9, LastThread, Zenon
    <3>2. aggregated[t] = 1
      BY <2>2, <1>1, <1>6, Zenon DEF ThreadSound
    <3> QED
      BY <2>2, <3>1, <3>2, Zenon DEF PastMerge
  <2> QED
    BY <2>1, <2>2, <1>6, Zenon
<1>10. mutex' \in Thread \cup {Nobody}
  BY <1>1, <1>3, Zenon DEF TypeOK
<1> QED
  BY <1>3, <1>5, <1>7, <1>8, <1>9, <1>10, MoveSound, Zenon

-----------------------------------------------------------------------------
(***************************************************************************)
(* Steps that change what the threads share, or a table.                   *)
(***************************************************************************)

\* Every thread that starts a block computes the same limit.
LEMMA GetLoadSizeSound ==
    ASSUME DispatcherInv, NEW t \in Thread, GetLoadSize(t)
    PROVE  DispatcherInv'
<1> USE DEF abortVars, queryVars
<1>1. TypeOK /\ ThreadSound(t) /\ AggregatedSoFar(t) /\ blockCount \in Nat /\ DeviceCount \in Nat \ {0}
  BY ThreadFacts, Zenon
<1>2. pc[t] = "GetLoadSize" /\ Goto(t, "LoadCol") /\ deviceCountLimit' = DeviceCountLimit
      /\ UNCHANGED <<blockIndex, aggregated, hashTableFull, groupByDoneCounter, thrownException, mutex,
                     abortVars, queryVars, groupByTables, result>>
  BY Zenon DEF GetLoadSize, At
<1>3. "LoadCol" \in AtInstruction \cup InInstruction \cup {"Exit"}
  BY Zenon DEF AtInstruction
<1>4. Frame(t) /\ pc'[t] = "LoadCol" /\ pc' \in [Thread -> AtInstruction \cup InInstruction \cup {"Exit"}]
  BY <1>1, <1>2, <1>3, GotoFrame, Zenon
<1>5. DeviceCountLimit \in -1 .. (DeviceCount - 1) /\ DeviceCountLimit' = DeviceCountLimit
  BY <1>1, <1>2 DEF DeviceCountLimit, Min
<1>6. TypeOK'
  BY <1>1, <1>2, <1>4, <1>5, Zenon DEF TypeOK, Thread
<1>7. ThreadSound(t)' /\ AggregatedSoFar(t)'
  BY <1>1, <1>2, <1>4, <1>5, Zenon DEF ThreadSound, AggregatedSoFar, Waiting
<1>8. ~Finished(t) /\ ~PastMerge(t)'
  BY <1>2, <1>4, Zenon DEF Finished, PastMerge
<1>9. Unaborted'
  BY <1>2, Zenon DEF DispatcherInv, Unaborted, Thread
<1> QED
  BY <1>2, <1>4, <1>6, <1>7, <1>8, <1>9, StepSound, Zenon

\* The block goes into the table, and the thread on to signal or to wait when
\* it was its last one.
LEMMA ProcessBlockSound ==
    ASSUME DispatcherInv, Aggregations = 1, NEW t \in Thread, ProcessBlock(t)
    PROVE  DispatcherInv'
<1> USE DEF sharedVars, abortVars, queryVars
<1> DEFINE b == blockIndex[t]
           place == AfterBlock(t)
<1>1. TypeOK /\ ThreadSound(t) /\ AggregatedSoFar(t) /\ b \in Nat /\ blockCount \in Nat
  BY ThreadFacts, Zenon
<1>2. pc[t] = "ProcessBlock" /\ Goto(t, place)
      /\ groupByTables' = [groupByTables EXCEPT ![t] = @ \cup {<<b, aggregated[t] + 1>>}]
      /\ aggregated' = [aggregated EXCEPT ![t] = @ + 1]
      /\ UNCHANGED <<blockIndex, hashTableFull, sharedVars, abortVars, queryVars, result>>
  BY Zenon DEF ProcessBlock, At
<1>3. b < blockCount /\ b \in needed /\ aggregated[t] = 0 /\ ~hashTableFull[t] /\ deviceCountLimit = DeviceCountLimit
  BY <1>1, <1>2, Zenon DEF ThreadSound
<1>4. /\ place = "Wait" => IsOverallLastBlock(t)
      /\ place = "Signal" => IsLastBlockOfDevice(t) /\ ~IsOverallLastBlock(t)
      /\ place = "Jmp" => ~IsOverallLastBlock(t)
      /\ place \in {"Wait", "Signal", "Jmp"}
  BY <1>3 DEF AfterBlock
<1>5. place \in AtInstruction \cup InInstruction \cup {"Exit"}
  BY <1>4, Zenon DEF AtInstruction, InInstruction
<1>6. aggregated \in [Thread -> 0 .. 1] /\ groupByTables \in [Thread -> SUBSET ((0 .. (blockCount - 1)) \X (1 .. 1))]
  BY <1>1, Zenon DEF TypeOK
<1> HIDE DEF place
<1>7. /\ aggregated' \in [Thread -> 0 .. 1] /\ aggregated'[t] = 1
      /\ \A d \in Thread \ {t} : aggregated'[d] = aggregated[d]
  BY <1>2, <1>3, <1>6
<1>8. /\ groupByTables'[t] = groupByTables[t] \cup {<<b, 1>>}
      /\ \A d \in Thread \ {t} : groupByTables'[d] = groupByTables[d]
  BY <1>2, <1>3, <1>6
<1>9. groupByTables' \in [Thread -> SUBSET ((0 .. (blockCount - 1)) \X (1 .. 1))]
  <2>1. <<b, aggregated[t] + 1>> \in (0 .. (blockCount - 1)) \X (1 .. 1)
    BY <1>1, <1>3
  <2> QED
    BY <1>2, <1>6, <2>1, Zenon
<1>10. Frame(t) /\ pc'[t] = place /\ pc' \in [Thread -> AtInstruction \cup InInstruction \cup {"Exit"}]
  BY <1>1, <1>2, <1>5, <1>7, <1>8, GotoFrame, Zenon
<1>11. TypeOK'
  BY <1>1, <1>2, <1>7, <1>9, <1>10, Zenon DEF TypeOK, Thread
<1>12. DeviceCountLimit' = DeviceCountLimit
  BY <1>2, Zenon DEF DeviceCountLimit
<1>13. ThreadSound(t)'
  BY <1>1, <1>2, <1>3, <1>4, <1>7, <1>10, <1>12, Zenon DEF ThreadSound, Waiting, IsLastBlockOfDevice, IsOverallLastBlock
<1>14. AggregatedSoFar(t)'
  BY <1>1, <1>2, <1>3, <1>8, Zenon DEF AggregatedSoFar
<1>15. ~Finished(t) /\ ~PastMerge(t)'
  BY <1>2, <1>4, <1>10, Zenon DEF Finished, PastMerge, IsOverallLastBlock
<1>16. Unaborted'
  BY <1>2, Zenon DEF DispatcherInv, Unaborted, Thread
<1> QED
  BY <1>2, <1>10, <1>11, <1>13, <1>14, <1>15, <1>16, StepSound, Zenon

\* The table is emptied, to start again.
LEMMA HashTableFullSound ==
    ASSUME DispatcherInv, NEW t \in Thread, HashTableFull(t)
    PROVE  DispatcherInv'
<1> USE DEF sharedVars, abortVars
<1>1. TypeOK /\ ThreadSound(t)
  BY ThreadFacts, Zenon
<1>2. pc[t] = "ProcessBlock" /\ Goto(t, "Jmp") /\ restarts < MaxRestarts /\ restarts' = restarts + 1
      /\ hashTableFull' = [hashTableFull EXCEPT ![t] = TRUE]
      /\ groupByTables' = [groupByTables EXCEPT ![t] = {}]
      /\ UNCHANGED <<blockIndex, aggregated, sharedVars, abortVars, blockCount, needed, result>>
  BY Zenon DEF HashTableFull, At
<1>3. blockIndex[t] \in needed /\ aggregated[t] = 0 /\ deviceCountLimit = DeviceCountLimit
  BY <1>1, <1>2, Zenon DEF ThreadSound, Waiting
<1>4. /\ hashTableFull' \in [Thread -> BOOLEAN] /\ hashTableFull'[t]
      /\ \A d \in Thread \ {t} : hashTableFull'[d] = hashTableFull[d]
  BY <1>1, <1>2, Zenon DEF TypeOK
<1>5. /\ groupByTables' \in [Thread -> SUBSET ((0 .. (blockCount - 1)) \X (1 .. Aggregations))]
      /\ \A d \in Thread \ {t} : groupByTables'[d] = groupByTables[d]
  BY <1>1, <1>2, Zenon DEF TypeOK
<1>6. "Jmp" \in AtInstruction \cup InInstruction \cup {"Exit"}
  BY Zenon DEF AtInstruction
<1>7. Frame(t) /\ pc'[t] = "Jmp" /\ pc' \in [Thread -> AtInstruction \cup InInstruction \cup {"Exit"}]
  BY <1>1, <1>2, <1>4, <1>5, <1>6, GotoFrame, Zenon
<1>8. restarts' \in 0 .. MaxRestarts
  BY <1>1, <1>2, DispatcherAssumption DEF TypeOK
<1>9. TypeOK'
  BY <1>1, <1>2, <1>4, <1>5, <1>7, <1>8, Zenon DEF TypeOK, Thread
<1>10. DeviceCountLimit' = DeviceCountLimit
  BY <1>2, Zenon DEF DeviceCountLimit
<1>11. ThreadSound(t)'
  BY <1>1, <1>2, <1>3, <1>4, <1>7, <1>10, Zenon DEF ThreadSound, Waiting
<1>12. AggregatedSoFar(t)'
  BY <1>4, Zenon DEF AggregatedSoFar
<1>13. ~Finished(t) /\ ~PastMerge(t)'
  BY <1>2, <1>3, <1>7 DEF Finished, PastMerge
<1>14. Unaborted'
  BY <1>2, Zenon DEF DispatcherInv, Unaborted, Thread
<1> QED
  BY <1>2, <1>7, <1>9, <1>11, <1>12, <1>13, <1>14, StepSound, Zenon

\* An exception is noted before the others are notified of it.
LEMMA ThrowSound ==
    ASSUME DispatcherInv, NEW t \in Thread, Throw(t)
    PROVE  DispatcherInv'
<1> USE DEF abortVars, queryVars
<1>1. TypeOK /\ ThreadSound(t) /\ AggregatedSoFar(t)
  BY ThreadFacts, Zenon
<1>2. pc[t] = "ProcessBlock" /\ Goto(t, "Notify") /\ thrownException' = TRUE
      /\ UNCHANGED <<blockIndex, aggregated, hashTableFull, groupByDoneCounter, deviceCountLimit, mutex,
                     abortVars, queryVars, groupByTables, result>>
  BY Zenon DEF Throw, At
<1>3. "Notify" \in AtInstruction \cup InInstruction \cup {"Exit"}
  BY Zenon DEF InInstruction
<1>4. Frame(t) /\ pc'[t] = "Notify" /\ pc' \in [Thread -> AtInstruction \cup InInstruction \cup {"Exit"}]
  BY <1>1, <1>2, <1>3, GotoFrame, Zenon
<1>5. TypeOK'
  BY <1>1, <1>2, <1>4, Zenon DEF TypeOK, Thread
<1>6. ThreadSound(t)' /\ AggregatedSoFar(t)'
  BY <1>1, <1>2, <1>4, Zenon DEF ThreadSound, AggregatedSoFar, Waiting, DeviceCountLimit
<1>7. ~Finished(t) /\ ~PastMerge(t)'
  BY <1>2, <1>4, Zenon DEF Finished, PastMerge
<1>8. Unaborted'
  BY <1>2, Zenon DEF DispatcherInv, Unaborted, Thread
<1> QED
  BY <1>2, <1>4, <1>5, <1>6, <1>7, <1>8, StepSound, Zenon

\* A thread is counted when it has aggregated its last block.
LEMMA SignalSound ==
    ASSUME DispatcherInv, Aggregations = 1, NEW t \in Thread, Signal(t)
    PROVE  DispatcherInv'
<1> USE DEF abortVars, queryVars
<1>1. TypeOK /\ ThreadSound(t) /\ AggregatedSoFar(t) /\ blockIndex[t] \in Nat
  BY ThreadFacts, Zenon
<1>2. pc[t] = "Signal" /\ NotifyAll(t, NextInstruction(t)) /\ groupByDoneCounter' = groupByDoneCounter + 1
      /\ UNCHANGED <<blockIndex, aggregated, hashTableFull, deviceCountLimit, thrownException, mutex,
                     abortVars, queryVars, groupByTables, result>>
  BY Zenon DEF Signal
<1>3. /\ aggregated[t] = 1 /\ ~hashTableFull[t] /\ blockIndex[t] \in needed /\ blockIndex[t] < blockCount
      /\ IsLastBlockOfDevice(t) /\ ~IsOverallLastBlock(t) /\ deviceCountLimit = DeviceCountLimit
  BY <1>1, <1>2, Zenon DEF ThreadSound
<1>4. NextInstruction(t) = "Jmp"
  BY <1>3 DEF NextInstruction
<1>5. "Jmp" \in AtInstruction \cup InInstruction \cup {"Exit"}
  BY Zenon DEF AtInstruction
<1>6. Frame(t) /\ pc'[t] = "Jmp" /\ pc' \in [Thread -> AtInstruction \cup InInstruction \cup {"Exit"}]
  BY <1>1, <1>2, <1>4, <1>5, NotifyFrame, Zenon
<1>7. TypeOK'
  BY <1>1, <1>2, <1>6 DEF TypeOK, Thread
<1>8. DeviceCountLimit' = DeviceCountLimit
  BY <1>2, Zenon DEF DeviceCountLimit
<1>9. ThreadSound(t)' /\ AggregatedSoFar(t)'
  BY <1>1, <1>2, <1>3, <1>6, <1>8, Zenon DEF ThreadSound, AggregatedSoFar, Waiting
<1>10. TableComplete(t)
  BY <1>3, CompleteAtLast, Zenon
<1>11. ~Finished(t) /\ Finished(t)'
  BY <1>2, <1>3, <1>6, <1>10, Zenon DEF Finished, TableComplete, IsLastBlockOfDevice
<1>12. ~PastMerge(t)'
  BY <1>2, <1>3, <1>6, Zenon DEF PastMerge, IsOverallLastBlock
<1>13. Unaborted'
  BY <1>2, Zenon DEF DispatcherInv, Unaborted, Thread
<1> QED
  BY <1>2, <1>6, <1>7, <1>9, <1>11, <1>12, <1>13, StepSound, Zenon

\* A thread is counted when its last block was skipped: it is not the thread
\* to merge, as that block is not skipped.
LEMMA JmpSkippedLastSound ==
    ASSUME DispatcherInv, NEW t \in Thread, JmpSkippedLast(t)
    PROVE  DispatcherInv'
<1> USE DEF abortVars, queryVars
<1>1. TypeOK /\ ThreadSound(t) /\ AggregatedSoFar(t) /\ blockIndex[t] \in Nat /\ hashTableFull[t] \in BOOLEAN
  BY ThreadFacts, Zenon
<1>2. pc[t] = "Jmp" /\ NotifyAll(t, "Done") /\ groupByDoneCounter' = groupByDoneCounter + 1
      /\ IsLastBlockOfDevice(t) /\ blockIndex[t] \notin needed
      /\ UNCHANGED <<blockIndex, aggregated, hashTableFull, deviceCountLimit, thrownException, mutex,
                     abortVars, queryVars, groupByTables, result>>
  BY Zenon DEF JmpSkippedLast, At, SkippedLast
<1>3. ~hashTableFull[t] /\ blockIndex[t] < blockCount /\ deviceCountLimit = DeviceCountLimit
  BY <1>1, <1>2, Zenon DEF ThreadSound
<1>4. "Done" \in AtInstruction \cup InInstruction \cup {"Exit"}
  BY Zenon DEF AtInstruction
<1>5. Frame(t) /\ pc'[t] = "Done" /\ pc' \in [Thread -> AtInstruction \cup InInstruction \cup {"Exit"}]
  BY <1>1, <1>2, <1>4, NotifyFrame, Zenon
<1>6. TypeOK'
  BY <1>1, <1>2, <1>5 DEF TypeOK, Thread
<1>7. DeviceCountLimit' = DeviceCountLimit
  BY <1>2, Zenon DEF DeviceCountLimit
<1>8. ThreadSound(t)' /\ AggregatedSoFar(t)'
  BY <1>1, <1>2, <1>3, <1>5, <1>7, Zenon DEF ThreadSound, AggregatedSoFar, Waiting
<1>9. TableComplete(t)
  BY <1>2, <1>3, CompleteAtLast, Zenon
<1>10. ~Finished(t) /\ Finished(t)'
  BY <1>2, <1>3, <1>5, <1>9, Zenon DEF Finished, TableComplete, IsLastBlockOfDevice
<1>11. ~((blockCount - 1) % DeviceCount = t /\ blockCount - 1 \in needed)
  BY <1>2, LastThread, Zenon DEF IsOverallLastBlock
<1>12. Unaborted'
  BY <1>2, Zenon DEF DispatcherInv, Unaborted, Thread
<1> QED
  BY <1>2, <1>5, <1>6, <1>8, <1>10, <1>11, <1>12, StepSound, Zenon

\* A thread whose table was full starts at its first block again.
LEMMA JmpRestartSound ==
    ASSUME DispatcherInv, NEW t \in Thread, JmpRestart(t)
    PROVE  DispatcherInv'
<1> USE DEF sharedVars, queryVars
<1>1. TypeOK /\ ThreadSound(t) /\ DeviceCount \in Nat \ {0} /\ t \in 0 .. (DeviceCount - 1)
      /\ needed \subseteq 0 .. (blockCount - 1)
  BY ThreadFacts, Zenon
<1>2. /\ hashTableFull[t] /\ Goto(t, "GetLoadSize")
      /\ hashTableFull' = [hashTableFull EXCEPT ![t] = FALSE]
      /\ blockIndex' = [blockIndex EXCEPT ![t] = t]
      /\ aggregated' = [aggregated EXCEPT ![t] = 0]
      /\ aborted' = [aborted EXCEPT ![t] = FALSE]
      /\ UNCHANGED <<sharedVars, interrupted, queryVars, groupByTables, result>>
  BY Zenon DEF JmpRestart, FirstBlock
<1>3. /\ hashTableFull' \in [Thread -> BOOLEAN] /\ ~hashTableFull'[t]
      /\ \A d \in Thread \ {t} : hashTableFull'[d] = hashTableFull[d]
  BY <1>1, <1>2, Zenon DEF TypeOK
<1>4. /\ blockIndex' \in [Thread -> Nat] /\ blockIndex'[t] = t
      /\ \A d \in Thread \ {t} : blockIndex'[d] = blockIndex[d]
  BY <1>1, <1>2 DEF TypeOK
<1>5. /\ aggregated' \in [Thread -> 0 .. Aggregations] /\ aggregated'[t] = 0
      /\ \A d \in Thread \ {t} : aggregated'[d] = aggregated[d]
  BY <1>1, <1>2, DispatcherAssumption DEF TypeOK
<1>6. aborted' \in [Thread -> BOOLEAN] /\ \A d \in Thread : aborted'[d] => aborted[d]
  BY <1>1, <1>2, Zenon DEF TypeOK
<1>7. "GetLoadSize" \in AtInstruction \cup InInstruction \cup {"Exit"}
  BY Zenon DEF AtInstruction
<1>8. Frame(t) /\ pc'[t] = "GetLoadSize" /\ pc' \in [Thread -> AtInstruction \cup InInstruction \cup {"Exit"}]
  BY <1>1, <1>2, <1>3, <1>4, <1>5, <1>7, GotoFrame, Zenon
<1>9. TypeOK'
  BY <1>1, <1>2, <1>3, <1>4, <1>5, <1>6, <1>8, Zenon DEF TypeOK, Thread
<1>10. t % DeviceCount = t
  BY <1>1, FirstOfDevice, Zenon
<1>11. ThreadSound(t)'
  BY <1>3, <1>4, <1>5, <1>8, <1>10, Zenon DEF ThreadSound, Waiting
<1>12. AggregatedSoFar(t)'
  <2> SUFFICES ASSUME NEW b \in needed, b % DeviceCount = t, b < t PROVE FALSE
    BY <1>2, <1>4, <1>5 DEF AggregatedSoFar
  <2>1. b \in 0 .. (DeviceCount - 1)
    BY <1>1
  <2>2. b % DeviceCount = b
    BY <1>1, <2>1, FirstOfDevice, Zenon
  <2> QED
    BY <1>1, <2>1, <2>2
<1>13. ~Finished(t) /\ ~PastMerge(t)'
  BY <1>2, <1>8, Zenon DEF Finished, PastMerge
<1>14. Unaborted'
  BY <1>2, <1>6, Zenon DEF DispatcherInv, Unaborted, Thread
<1> QED
  BY <1>2, <1>8, <1>9, <1>11, <1>12, <1>13, <1>14, StepSound, Zenon

\* The next block of the device.
LEMMA JmpNextBlockSound ==
    ASSUME DispatcherInv, NEW t \in Thread, JmpNextBlock(t)
    PROVE  DispatcherInv'
<1> USE DEF sharedVars, abortVars, queryVars
<1> DEFINE b0 == blockIndex[t]
<1>1. TypeOK /\ ThreadSound(t) /\ AggregatedSoFar(t) /\ DeviceCount \in Nat \ {0}
      /\ needed \subseteq 0 .. (blockCount - 1) /\ b0 \in Nat /\ blockCount \in Nat /\ b0 % DeviceCount = t
  BY ThreadFacts, Zenon
<1>2. /\ pc[t] = "Jmp" /\ ~hashTableFull[t] /\ ~IsLastBlockOfDevice(t) /\ Goto(t, "GetLoadSize")
      /\ blockIndex' = [blockIndex EXCEPT ![t] = @ + DeviceCount]
      /\ aggregated' = [aggregated EXCEPT ![t] = 0]
      /\ UNCHANGED <<hashTableFull, sharedVars, abortVars, queryVars, groupByTables, result>>
  BY Zenon DEF JmpNextBlock, At
<1>3. b0 + DeviceCount < blockCount /\ (b0 \in needed => aggregated[t] = 1)
  BY <1>1, <1>2 DEF ThreadSound, IsLastBlockOfDevice
<1>4. /\ blockIndex' \in [Thread -> Nat] /\ blockIndex'[t] = b0 + DeviceCount
      /\ \A d \in Thread \ {t} : blockIndex'[d] = blockIndex[d]
  BY <1>1, <1>2 DEF TypeOK
<1>5. /\ aggregated' \in [Thread -> 0 .. Aggregations] /\ aggregated'[t] = 0
      /\ \A d \in Thread \ {t} : aggregated'[d] = aggregated[d]
  BY <1>1, <1>2, DispatcherAssumption DEF TypeOK
<1>6. "GetLoadSize" \in AtInstruction \cup InInstruction \cup {"Exit"}
  BY Zenon DEF AtInstruction
<1>7. Frame(t) /\ pc'[t] = "GetLoadSize" /\ pc' \in [Thread -> AtInstruction \cup InInstruction \cup {"Exit"}]
  BY <1>1, <1>2, <1>4, <1>5, <1>6, GotoFrame, Zenon
<1>8. TypeOK'
  BY <1>1, <1>2, <1>4, <1>5, <1>7, Zenon DEF TypeOK, Thread
<1>9. (b0 + DeviceCount) % DeviceCount = t
  BY <1>1, NextOfDevice, Zenon
<1>10. ThreadSound(t)'
  BY <1>2, <1>3, <1>4, <1>5, <1>7, <1>9, Zenon DEF ThreadSound, Waiting
<1>11. AggregatedSoFar(t)'
  <2> SUFFICES ASSUME NEW b \in needed, b % DeviceCount = t, b < b0 + DeviceCount PROVE <<b, 1>> \in groupByTables[t]
    BY <1>2, <1>4, <1>5 DEF AggregatedSoFar
  <2>1. b \in Nat
    BY <1>1
  <2>2. ASSUME ~(b < b0) PROVE b = b0
    <3>1. b0 <= b
      BY <1>1, <2>1, <2>2
    <3> QED
      BY <1>1, <2>1, <3>1, SameBlock, Zenon
  <2> QED
    BY <1>1, <1>2, <1>3, <2>2, Zenon DEF AggregatedSoFar
<1>12. ~Finished(t) /\ ~PastMerge(t)'
  BY <1>2, <1>7, Zenon DEF Finished, PastMerge
<1>13. Unaborted'
  BY <1>2, Zenon DEF DispatcherInv, Unaborted, Thread
<1> QED
  BY <1>2, <1>7, <1>8, <1>10, <1>11, <1>12, <1>13, StepSound, Zenon

-----------------------------------------------------------------------------
(***************************************************************************)
(* The merge: the counter counts the other threads that have a block.      *)
(***************************************************************************)

\* A thread with a block has a first one, its number.
LEMMA HasBlock ==
    ASSUME NEW b \in Nat, NEW n \in Nat \ {0}
    PROVE  b % n \in 0 .. (n - 1) /\ b % n <= b
<1>1. b \div n \in Nat /\ b % n \in 0 .. (n - 1) /\ b = n * (b \div n) + (b % n)
  BY Divided, Zenon
<1>2. n * (b \div n) >= 0
  BY <1>1
<1> QED
  BY <1>1, <1>2

\* While a thread waits, the counter is at most the number of the others, and
\* when it is that number they have all finished.
CountFits ==
    \A t \in Thread :
        pc[t] \in Waiting =>
            /\ groupByDoneCounter <= Min(DeviceCount, blockCount) - 1
            /\ groupByDoneCounter = deviceCountLimit => \A d \in Thread : d < blockCount /\ d # t => Finished(d)

\* Complete tables make a complete result, and one that is not NoResult.
LEMMA MergeComplete ==
    ASSUME DispatcherInv, Aggregations = 1, \A d \in Thread : d < blockCount => TableComplete(d)
    PROVE  /\ needed \X {1} \subseteq UNION {groupByTables[d] : d \in Thread}
           /\ UNION {groupByTables[d] : d \in Thread} # NoResult
<1>1. TypeOK /\ DeviceCount \in Nat \ {0} /\ blockCount \in Nat
  BY DispatcherAssumption DEF DispatcherInv, TypeOK
<1>2. ASSUME NEW b \in needed PROVE <<b, 1>> \in UNION {groupByTables[d] : d \in Thread}
  <2>1. b \in Nat /\ b < blockCount
    BY <1>1 DEF TypeOK
  <2>2. b % DeviceCount \in 0 .. (DeviceCount - 1) /\ b % DeviceCount <= b
    BY <1>1, <2>1, HasBlock, Zenon
  <2>3. b % DeviceCount \in Thread /\ b % DeviceCount < blockCount
    BY <2>1, <2>2, <1>1 DEF Thread
  <2>4. <<b, 1>> \in groupByTables[b % DeviceCount]
    BY <2>3, Zenon DEF TableComplete
  <2> QED
    BY <2>3, <2>4, Zenon
<1>3. \A x \in needed \X {1} : x = <<x[1], 1>> /\ x[1] \in needed
  OBVIOUS
<1>4. <<-1, 0>> \notin UNION {groupByTables[d] : d \in Thread}
  <2> SUFFICES ASSUME NEW d \in Thread, <<-1, 0>> \in groupByTables[d] PROVE FALSE
    BY Zenon
  <2>1. groupByTables[d] \subseteq (0 .. (blockCount - 1)) \X (1 .. Aggregations)
    BY <1>1, Zenon DEF TypeOK
  <2>2. -1 \in 0 .. (blockCount - 1)
    BY <2>1, Zenon
  <2> QED
    BY <2>2
<1>5. <<-1, 0>> \in NoResult
  BY Zenon DEF NoResult
<1> QED
  BY <1>2, <1>3, <1>4, <1>5, Zenon

\* The wait ends with an exception, or when all tables are complete.
LEMMA WaitEndsSound ==
    ASSUME DispatcherInv, Aggregations = 1, CountFits, NEW t \in Thread, WaitEnds(t)
    PROVE  DispatcherInv'
<1> USE DEF sharedVars, abortVars, queryVars
<1>1. TypeOK /\ ThreadSound(t) /\ AggregatedSoFar(t) /\ blockIndex[t] \in Nat /\ DeviceCount \in Nat \ {0} /\ blockCount \in Nat
  BY ThreadFacts, Zenon
<1>2. pc[t] = "Wait" /\ IsGroupByDone
      /\ UNCHANGED <<blockIndex, aggregated, hashTableFull, sharedVars, abortVars, queryVars, groupByTables>>
  BY Zenon DEF WaitEnds
<1>3. /\ aggregated[t] = 1 /\ ~hashTableFull[t] /\ blockIndex[t] \in needed /\ blockIndex[t] < blockCount
      /\ IsOverallLastBlock(t) /\ deviceCountLimit = DeviceCountLimit
  BY <1>1, <1>2, Zenon DEF ThreadSound, Waiting
<1>4. DeviceCountLimit' = DeviceCountLimit
  BY <1>2, Zenon DEF DeviceCountLimit
<1>5. mutex' \in Thread \cup {Nobody}
  BY <1>1, <1>2, Zenon DEF TypeOK
<1>6. CASE thrownException
  <2>1. Goto(t, "Exit") /\ result' = result
    BY <1>6, Zenon DEF WaitEnds
  <2>2. Frame(t) /\ pc'[t] = "Exit" /\ pc' \in [Thread -> AtInstruction \cup InInstruction \cup {"Exit"}]
    BY <1>1, <1>2, <2>1, GotoFrame, Zenon
  <2>3. ThreadSound(t)'
    BY <1>1, <1>2, <2>2, Zenon DEF ThreadSound, Waiting
  <2>4. ~Finished(t) /\ ~Undisturbed
    BY <1>2, <1>6, Zenon DEF Finished, Undisturbed
  <2> QED
    BY <1>2, <1>5, <2>1, <2>2, <2>3, <2>4, MoveSound, Zenon
<1>7. CASE ~thrownException
  <2>1. Goto(t, NextInstruction(t)) /\ result' = UNION {groupByTables[d] : d \in Thread}
    BY <1>7, Zenon DEF WaitEnds
  <2>2. NextInstruction(t) = "Jmp"
    BY <1>3 DEF NextInstruction
  <2>3. "Jmp" \in AtInstruction \cup InInstruction \cup {"Exit"}
    BY Zenon DEF AtInstruction
  <2>4. Frame(t) /\ pc'[t] = "Jmp" /\ pc' \in [Thread -> AtInstruction \cup InInstruction \cup {"Exit"}]
    BY <1>1, <1>2, <2>1, <2>2, <2>3, GotoFrame, Zenon
  <2>5. TypeOK'
    BY <1>1, <1>2, <2>4, Zenon DEF TypeOK, Thread
  <2>6. ThreadSound(t)' /\ AggregatedSoFar(t)'
    BY <1>1, <1>2, <1>3, <1>4, <2>4, Zenon DEF ThreadSound, AggregatedSoFar, Waiting
  <2>7. IsLastBlockOfDevice(t)
    BY <1>1, <1>3 DEF IsOverallLastBlock, IsLastBlockOfDevice
  <2>8. TableComplete(t)
    BY <1>3, <2>7, CompleteAtLast, Zenon
  <2>9. Finished(t)'
    BY <1>2, <1>3, <2>4, <2>7, <2>8, Zenon DEF Finished, TableComplete, IsLastBlockOfDevice
  <2>10. \A d \in Thread \ {t} : /\ ThreadSound(d)' /\ AggregatedSoFar(d)'
                                 /\ Finished(d) => Finished(d)'
    BY <2>4, UntouchedSound, Zenon DEF DispatcherInv
  <2>11. groupByDoneCounter = deviceCountLimit /\ pc[t] \in Waiting
    BY <1>2, <1>7, Zenon DEF IsGroupByDone, Waiting
  <2>12. \A d \in Thread \ {t} : d < blockCount => Finished(d)
    BY <2>11, Zenon DEF CountFits
  <2>13. \A d \in Thread : d < blockCount => Finished(d)' /\ TableComplete(d)
    BY <2>8, <2>9, <2>10, <2>12, Zenon DEF Finished
  <2>14. needed \X {1} \subseteq result' /\ result' # NoResult
    BY <2>1, <2>13, MergeComplete, Zenon
  <2>15. MergedWhole' /\ SavedByLast'
    BY <1>2, <2>13, <2>14, Zenon DEF MergedWhole, SavedByLast, Thread, NoResult
  <2>16. CountedOnce'
    <3>1. \A d \in Thread : Finished(d) => Finished(d)'
      BY <2>9, <2>10, Zenon
    <3> QED
      BY <1>2, <3>1, CountStep, Zenon DEF DispatcherInv
  <2>17. Unaborted'
    BY <1>2, Zenon DEF DispatcherInv, Unaborted, Thread
  <2> QED
    BY <2>5, <2>6, <2>10, <2>15, <2>16, <2>17, Zenon DEF DispatcherInv
<1> QED
  BY <1>6, <1>7, Zenon

-----------------------------------------------------------------------------
(***************************************************************************)
(* The query as a whole.                                                   *)
(***************************************************************************)

\* A client's interrupt reaches one dispatcher after the other.
LEMMA InterruptSound ==
    ASSUME DispatcherInv, Interrupt
    PROVE  DispatcherInv'
<1> USE DEF threadVars, sharedVars, queryVars
<1>1. /\ interrupted < DeviceCount /\ interrupted' = interrupted + 1
      /\ aborted' = [aborted EXCEPT ![interrupted] = TRUE]
      /\ UNCHANGED <<threadVars, sharedVars, queryVars, groupByTables, result>>
  BY Zenon DEF Interrupt
<1>2. TypeOK /\ DeviceCount \in Nat \ {0}
  BY DispatcherAssumption, Zenon DEF DispatcherInv
<1>3. interrupted' \in 0 .. DeviceCount /\ interrupted' # 0 /\ aborted' \in [Thread -> BOOLEAN]
  <2>1. interrupted \in 0 .. DeviceCount /\ aborted \in [Thread -> BOOLEAN]
    BY <1>2, Zenon DEF TypeOK
  <2>2. interrupted' \in 0 .. DeviceCount /\ interrupted' # 0
    BY <1>1, <1>2, <2>1
  <2>3. aborted' \in [Thread -> BOOLEAN]
    BY <1>1, <2>1, Zenon
  <2> QED
    BY <2>2, <2>3, Zenon
<1>4. TypeOK'
  BY <1>1, <1>2, <1>3, Zenon DEF TypeOK, Thread
<1>5. \A d \in Thread : ThreadSound(d)' /\ AggregatedSoFar(d)' /\ (Finished(d) <=> Finished(d)')
  <2> SUFFICES ASSUME NEW d \in Thread PROVE ThreadSound(d)' /\ AggregatedSoFar(d)' /\ (Finished(d) <=> Finished(d)')
    BY Zenon
  <2>1. ThreadSound(d) /\ AggregatedSoFar(d)
    BY Zenon DEF DispatcherInv
  <2>2. DeviceCountLimit' = DeviceCountLimit
    BY <1>1, Zenon DEF DeviceCountLimit
  <2>3. ThreadSound(d)'
    BY <1>1, <2>1, <2>2, Zenon DEF ThreadSound, IsLastBlockOfDevice, IsOverallLastBlock
  <2>4. AggregatedSoFar(d)'
    BY <1>1, <2>1, Zenon DEF AggregatedSoFar
  <2> QED
    BY <1>1, <2>3, <2>4, Zenon DEF Finished, IsLastBlockOfDevice, TableComplete
<1>6. CountedOnce' /\ MergedWhole'
  BY <1>1, <1>5, Zenon DEF DispatcherInv, CountedOnce, MergedWhole, Thread
<1>7. SavedByLast' /\ Unaborted'
  BY <1>3, Zenon DEF SavedByLast, Unaborted, Undisturbed
<1> QED
  BY <1>4, <1>5, <1>6, <1>7, Zenon DEF DispatcherInv, Thread

\* The state of a query that begins, or of none.
Fresh(place, blocks, ruledIn) ==
    /\ blockCount = blocks /\ needed = ruledIn
    /\ pc = [d \in Thread |-> place]
    /\ blockIndex = [d \in Thread |-> d]
    /\ aggregated = [d \in Thread |-> 0]
    /\ hashTableFull = [d \in Thread |-> FALSE]
    /\ groupByTables = [d \in Thread |-> {}]
    /\ groupByDoneCounter = 0 /\ deviceCountLimit = 0 /\ thrownException = FALSE
    /\ mutex = Nobody
    /\ aborted = [d \in Thread |-> FALSE] /\ interrupted = 0
    /\ result = NoResult
    /\ restarts = 0

\* A query begins with empty tables, none of them counted.
LEMMA FreshSound ==
    ASSUME NEW blocks \in 0 .. MaxBlocks, NEW ruledIn \in SUBSET (0 .. (blocks - 1)),
           NEW place \in {"GetLoadSize", "Exit"}, Fresh(place, blocks, ruledIn), place = "Exit" => blocks = 0
    PROVE  DispatcherInv
<1>1. DeviceCount \in Nat \ {0} /\ Aggregations \in Nat \ {0} /\ MaxBlocks \in Nat /\ MaxRestarts \in Nat
  BY DispatcherAssumption, Zenon
<1>2. TypeOK
  <2>1. blockCount \in 0 .. MaxBlocks /\ needed \subseteq 0 .. (blockCount - 1)
    BY Zenon DEF Fresh
  <2>2. pc \in [Thread -> AtInstruction \cup InInstruction \cup {"Exit"}]
    BY Zenon DEF Fresh, AtInstruction
  <2>3. blockIndex \in [Thread -> Nat] /\ aggregated \in [Thread -> 0 .. Aggregations] /\ hashTableFull \in [Thread -> BOOLEAN]
    BY <1>1 DEF Fresh, Thread
  <2>4. groupByTables \in [Thread -> SUBSET ((0 .. (blockCount - 1)) \X (1 .. Aggregations))]
    BY Zenon DEF Fresh
  <2>5. groupByDoneCounter \in Nat /\ deviceCountLimit \in -1 .. (DeviceCount - 1)
        /\ interrupted \in 0 .. DeviceCount /\ restarts \in 0 .. MaxRestarts
    BY <1>1 DEF Fresh
  <2>6. thrownException \in BOOLEAN /\ mutex \in Thread \cup {Nobody} /\ aborted \in [Thread -> BOOLEAN]
    BY Zenon DEF Fresh
  <2> QED
    BY <2>1, <2>2, <2>3, <2>4, <2>5, <2>6, Zenon DEF TypeOK
<1>3. ASSUME NEW d \in Thread PROVE ThreadSound(d) /\ AggregatedSoFar(d)
  <2>1. d \in 0 .. (DeviceCount - 1) /\ pc[d] = place /\ blockIndex[d] = d /\ aggregated[d] = 0 /\ hashTableFull[d] = FALSE
    BY Zenon DEF Fresh, Thread
  <2>2. d % DeviceCount = d
    BY <1>1, <2>1, FirstOfDevice, Zenon
  <2>3. ThreadSound(d)
    BY <2>1, <2>2, Zenon DEF ThreadSound, Waiting
  <2>4. ASSUME NEW b \in needed, b % DeviceCount = d, b < d PROVE FALSE
    <3>1. b \in 0 .. (DeviceCount - 1)
      BY <1>1, <1>2, <2>1, <2>4 DEF TypeOK
    <3>2. b % DeviceCount = b
      BY <1>1, <3>1, FirstOfDevice, Zenon
    <3> QED
      BY <2>1, <2>4, <3>1, <3>2
  <2>5. AggregatedSoFar(d)
    BY <2>1, <2>4 DEF AggregatedSoFar
  <2> QED
    BY <2>3, <2>5, Zenon
<1>4. CountedOnce
  <2> DEFINE f == [i \in {} |-> 0]
  <2>1. 1 .. groupByDoneCounter = {} /\ f \in [{} -> Thread]
    BY DEF Fresh
  <2> QED
    BY <2>1, Zenon DEF CountedOnce
<1>5. MergedWhole /\ Unaborted
  BY Zenon DEF Fresh, MergedWhole, Unaborted
<1>6. SavedByLast
  <2>1. ASSUME NEW d \in Thread, PastMerge(d), blockCount - 1 \in needed PROVE FALSE
    <3>1. pc[d] = place
      BY Zenon DEF Fresh
    <3>2. blocks = 0
      BY <2>1, <3>1, Zenon DEF PastMerge
    <3> QED
      BY <2>1, <3>2 DEF Fresh
  <2> QED
    BY <2>1, Zenon DEF SavedByLast
<1> QED
  BY <1>2, <1>3, <1>4, <1>5, <1>6, Zenon DEF DispatcherInv

\* A query begins, or nothing has run yet.
Begins ==
    \/ Fresh("Exit", 0, {})
    \/ \E blocks \in 0 .. MaxBlocks :
        \E ruledIn \in SUBSET (0 .. (blocks - 1)) : Fresh("GetLoadSize", blocks, ruledIn)

\* The invariant holds whenever a query begins.
LEMMA BeginsSound == Begins => DispatcherInv
<1>1. ASSUME Fresh("Exit", 0, {}) PROVE DispatcherInv
  <2>1. 0 \in 0 .. MaxBlocks /\ {} \in SUBSET (0 .. (0 - 1))
    BY DispatcherAssumption
  <2> QED
    BY <1>1, <2>1, FreshSound, Zenon
<1>2. ASSUME NEW blocks \in 0 .. MaxBlocks, NEW ruledIn \in SUBSET (0 .. (blocks - 1)), Fresh("GetLoadSize", blocks, ruledIn)
      PROVE  DispatcherInv
  BY <1>2, FreshSound, Zenon
<1> QED
  BY <1>1, <1>2, Zenon DEF Begins

\* Parse starts a query.
LEMMA ParseBegins ==
    ASSUME Parse
    PROVE  Begins'
BY Zenon DEF Parse, StartQuery, Begins, Fresh, Thread, Nobody, NoResult

\* The invariant holds as long as nothing changes.
LEMMA StutterSound ==
    ASSUME DispatcherInv, UNCHANGED vars
    PROVE  DispatcherInv'
<1> USE DEF vars, threadVars, sharedVars, abortVars, queryVars
<1>1. TypeOK' /\ MergedWhole' /\ Unaborted' /\ SavedByLast' /\ CountedOnce'
  <2>1. TypeOK'
    BY Zenon DEF DispatcherInv, TypeOK, Thread
  <2>2. \A d \in Thread : Finished(d)' <=> Finished(d)
    BY Zenon DEF Finished, IsLastBlockOfDevice, TableComplete
  <2>3. MergedWhole' /\ CountedOnce'
    BY <2>2, Zenon DEF DispatcherInv, MergedWhole, CountedOnce, Thread
  <2>4. Unaborted' /\ SavedByLast'
    BY Zenon DEF DispatcherInv, Unaborted, SavedByLast, Undisturbed, PastMerge, IsOverallLastBlock, Thread
  <2> QED
    BY <2>1, <2>3, <2>4, Zenon
<1>2. \A d \in Thread : ThreadSound(d)' /\ AggregatedSoFar(d)'
  BY Zenon DEF DispatcherInv, ThreadSound, AggregatedSoFar, IsLastBlockOfDevice, IsOverallLastBlock, DeviceCountLimit
<1> QED
  BY <1>1, <1>2, Zenon DEF DispatcherInv, Thread

\* Every step keeps the invariant.
LEMMA DispatcherInvInductive ==
    ASSUME Aggregations = 1, DispatcherInv, CountFits, [Next]_vars, Begins' => DispatcherInv'
    PROVE  DispatcherInv'
<1>1. CASE Parse
  BY <1>1, ParseBegins, Zenon
<1>2. CASE Interrupt
  BY <1>2, InterruptSound, Zenon
<1>3. ASSUME NEW t \in Thread, ThreadStep(t) PROVE DispatcherInv'
  <2>1. CASE LeaveLoop(t) \/ GetLoadSize(t) \/ LoadCol(t)
    BY <2>1, LeaveLoopSound, GetLoadSizeSound, LoadColSound, Zenon
  <2>2. CASE ProcessBlock(t) \/ HashTableFull(t) \/ Signal(t)
    BY <2>2, ProcessBlockSound, HashTableFullSound, SignalSound, Zenon
  <2>3. CASE WaitTest(t) \/ Sleep(t) \/ WaitEnds(t)
    BY <2>3, WaitingSound, WaitEndsSound, Zenon
  <2>4. CASE JmpSkippedLast(t) \/ JmpRestart(t) \/ JmpNextBlock(t)
    BY <2>4, JmpSkippedLastSound, JmpRestartSound, JmpNextBlockSound, Zenon
  <2>5. CASE JmpLast(t) \/ Done(t) \/ NotifyOfException(t)
    BY <2>5, EndsSound, NotifyOfExceptionSound, Zenon
  <2> QED
    BY <1>3, <2>1, <2>2, <2>3, <2>4, <2>5, Zenon DEF ThreadStep
<1>4. ASSUME NEW t \in Thread, Throw(t) \/ SpuriousWakeup(t) PROVE DispatcherInv'
  BY <1>4, ThrowSound, WaitingSound, Zenon
<1>5. CASE UNCHANGED vars
  BY <1>5, StutterSound, Zenon
<1> QED
  BY <1>1, <1>2, <1>3, <1>4, <1>5, Zenon DEF Next

\* The invariant says what is promised of the result.
LEMMA DispatcherInvImplies ==
    ASSUME Aggregations = 1, DispatcherInv, CountFits
    PROVE  ResultSavedWhole
<1>1. TypeOK
  BY Zenon DEF DispatcherInv
<1>2. CounterFitsLimit
  BY Zenon DEF CountFits, CounterFitsLimit, Waiting
<1>3. ResultComplete
  <2>1. 1 \in 1 .. Aggregations /\ 1 .. 1 = {1}
    OBVIOUS
  <2> QED
    BY <2>1, Zenon DEF ResultComplete, DispatcherInv, MergedWhole
<1>4. SavesResult
  <2> SUFFICES ASSUME AllThreadsLeft, Undisturbed, blockCount - 1 \in needed PROVE result # NoResult
    BY Zenon DEF SavesResult
  <2> DEFINE t == (blockCount - 1) % DeviceCount
  <2>1. blockCount - 1 \in Nat /\ DeviceCount \in Nat \ {0}
    BY <1>1, DispatcherAssumption DEF TypeOK
  <2>2. t \in Thread
    BY <2>1, HasBlock, Zenon DEF Thread
  <2>3. PastMerge(t)
    BY <2>2, Zenon DEF AllThreadsLeft, PastMerge
  <2> QED
    BY <2>2, <2>3, Zenon DEF DispatcherInv, SavedByLast
<1> QED
  BY <1>1, <1>2, <1>3, <1>4, Zenon DEF ResultSavedWhole

\* After the merge no thread fills or empties its table.
LEMMA FinalAfterMerge ==
    ASSUME DispatcherInv, [Next]_vars, result # NoResult, result' = result
    PROVE  groupByTables' = groupByTables
<1> USE DEF threadVars, sharedVars, abortVars, queryVars
<1>1. ASSUME NEW t \in Thread, pc[t] = "ProcessBlock" PROVE FALSE
  <2>1. ThreadSound(t) /\ blockIndex[t] \in Nat /\ blockIndex[t] % DeviceCount = t /\ DeviceCount \in Nat \ {0} /\ blockCount \in Nat
    BY ThreadFacts, Zenon
  <2>2. blockIndex[t] < blockCount
    BY <1>1, <2>1, Zenon DEF ThreadSound
  <2>3. t <= blockIndex[t]
    BY <2>1, HasBlock, Zenon
  <2>4. t < blockCount
    BY <2>1, <2>2, <2>3 DEF Thread
  <2>5. Finished(t)
    BY <2>4, Zenon DEF DispatcherInv, MergedWhole
  <2> QED
    BY <1>1, <2>5, Zenon DEF Finished
<1>2. CASE Parse
  BY <1>2, Zenon DEF Parse, StartQuery
<1>3. CASE Interrupt
  BY <1>3, Zenon DEF Interrupt
<1>4. ASSUME NEW t \in Thread, ThreadStep(t) PROVE groupByTables' = groupByTables
  <2>1. ~ProcessBlock(t) /\ ~HashTableFull(t)
    BY <1>1, Zenon DEF ProcessBlock, HashTableFull, At
  <2>2. CASE LeaveLoop(t) \/ GetLoadSize(t) \/ LoadCol(t) \/ Signal(t)
    BY <2>2, Zenon DEF LeaveLoop, GetLoadSize, LoadCol, Signal
  <2>3. CASE WaitTest(t) \/ Sleep(t) \/ WaitEnds(t) \/ NotifyOfException(t)
    BY <2>3, Zenon DEF WaitTest, Sleep, WaitEnds, NotifyOfException
  <2>4. CASE JmpSkippedLast(t) \/ JmpRestart(t) \/ JmpNextBlock(t) \/ JmpLast(t) \/ Done(t)
    BY <2>4, Zenon DEF JmpSkippedLast, JmpRestart, JmpNextBlock, JmpLast, Done
  <2> QED
    BY <1>4, <2>1, <2>2, <2>3, <2>4, Zenon DEF ThreadStep
<1>5. ASSUME NEW t \in Thread, Throw(t) \/ SpuriousWakeup(t) PROVE groupByTables' = groupByTables
  BY <1>5, Zenon DEF Throw, SpuriousWakeup
<1>6. CASE UNCHANGED vars
  BY <1>6, Zenon DEF vars
<1> QED
  BY <1>2, <1>3, <1>4, <1>5, <1>6, Zenon DEF Next

-----------------------------------------------------------------------------
(***************************************************************************)
(* The count, and the theorems.                                            *)
(***************************************************************************)

\* The counted threads are different ones and all have blocks, and the thread
\* that waits is none of them: when there are as many of them as threads with
\* a block, less the one that waits, they are all the others.
LEMMA CountOfOthers ==
    ASSUME DispatcherInv
    PROVE  CountFits
<1> SUFFICES ASSUME NEW t \in Thread, pc[t] \in Waiting
             PROVE  /\ groupByDoneCounter <= Min(DeviceCount, blockCount) - 1
                    /\ groupByDoneCounter = deviceCountLimit => \A d \in Thread : d < blockCount /\ d # t => Finished(d)
  BY Zenon DEF CountFits
<1>1. PICK S \in SUBSET Thread : groupByDoneCounter = Cardinality(S) /\ \A d \in S : Finished(d)
  <2> DEFINE c == groupByDoneCounter
  <2>1. c \in Nat
    BY Zenon DEF DispatcherInv, TypeOK
  <2>2. PICK f \in [1 .. c -> Thread] : (\A i, j \in 1 .. c : f[i] = f[j] => i = j) /\ \A i \in 1 .. c : Finished(f[i])
    BY Zenon DEF DispatcherInv, CountedOnce
  <2> DEFINE S == {f[i] : i \in 1 .. c}
  <2>3. S \in SUBSET Thread /\ \A d \in S : Finished(d)
    BY <2>2, Zenon
  <2>4. IsFiniteSet(1 .. c) /\ Cardinality(1 .. c) = c
    BY <2>1, FS_Interval
  <2>5. f \in Bijection(1 .. c, S)
    <3>1. f \in [1 .. c -> S] /\ \A x, y \in 1 .. c : f[x] = f[y] => x = y
      BY <2>2
    <3>2. \A y \in S : \E x \in 1 .. c : f[x] = y
      BY Zenon
    <3> QED
      BY <3>1, <3>2 DEF Bijection, Injection, Surjection, IsInjective
  <2> HIDE DEF S, c
  <2>6. Cardinality(S) = c
    BY <2>4, <2>5, FS_Bijection, Zenon DEF ExistsBijection
  <2> QED
    BY <2>3, <2>6, Zenon DEF c
<1>2. DeviceCount \in Nat \ {0} /\ blockCount \in Nat /\ t \in 0 .. (DeviceCount - 1) /\ blockIndex[t] \in Nat
      /\ blockIndex[t] % DeviceCount = t /\ ThreadSound(t) /\ TypeOK
  BY ThreadFacts, Zenon
<1> DEFINE m == Min(DeviceCount, blockCount)
           H == 0 .. (m - 1)
           G == H \ {t}
<1>3. blockIndex[t] = blockCount - 1 /\ deviceCountLimit = DeviceCountLimit
  BY <1>2, Zenon DEF ThreadSound, IsOverallLastBlock, Waiting
<1>4. m \in Nat \ {0} /\ DeviceCountLimit = m - 1 /\ \A d \in Thread : d < blockCount <=> d \in H
  BY <1>2, <1>3 DEF Min, DeviceCountLimit, Thread
<1> HIDE DEF m
<1>5. t <= blockIndex[t]
  BY <1>2, HasBlock, Zenon
<1>6. t \in H
  BY <1>2, <1>3, <1>4, <1>5
<1>7. IsFiniteSet(H) /\ Cardinality(H) = m
  BY <1>4, FS_Interval
<1> HIDE DEF H
<1>8. IsFiniteSet(G) /\ Cardinality(G) = m - 1
  BY <1>6, <1>7, FS_RemoveElement, Zenon
<1>9. S \subseteq G
  <2> SUFFICES ASSUME NEW d \in S PROVE d \in H /\ d # t
    BY Zenon
  <2>1. Finished(d) /\ d \in Thread
    BY <1>1, Zenon
  <2>2. d # t
    BY <2>1, Zenon DEF Finished, Waiting
  <2>3. blockIndex[d] \in Nat /\ blockIndex[d] % DeviceCount = d /\ blockIndex[d] < blockCount
    BY <2>1, ThreadFacts, Zenon DEF Finished
  <2>4. d <= blockIndex[d]
    BY <2>3, <1>2, HasBlock, Zenon
  <2>5. d < blockCount
    BY <2>1, <2>3, <2>4, <1>2 DEF Thread
  <2> QED
    BY <2>1, <2>2, <2>5, <1>4, Zenon
<1>10. Cardinality(S) <= Cardinality(G) /\ (Cardinality(S) = Cardinality(G) => S = G)
  BY <1>8, <1>9, FS_Subset, Zenon
<1>11. groupByDoneCounter <= m - 1
  BY <1>1, <1>8, <1>10, Zenon
<1>12. ASSUME groupByDoneCounter = deviceCountLimit, NEW d \in Thread, d < blockCount, d # t PROVE Finished(d)
  <2>1. S = G
    BY <1>1, <1>3, <1>4, <1>8, <1>10, <1>12, Zenon
  <2> QED
    BY <2>1, <1>1, <1>4, <1>12, Zenon
<1> QED
  BY <1>11, <1>12, Zenon DEF m

\* With one aggregate function, the invariant holds in every state of a query.
LEMMA DispatcherInvHolds ==
    ASSUME Aggregations = 1
    PROVE  Init /\ [][Next]_vars => []DispatcherInv
<1>1. Init => Begins
  BY Zenon DEF Init, Begins, Fresh
<1>2. Begins => DispatcherInv
  BY BeginsSound, Zenon
<1>3. DispatcherInv => CountFits
  BY CountOfOthers, Zenon
<1>4. DispatcherInv /\ CountFits /\ [Next]_vars /\ (Begins' => DispatcherInv') => DispatcherInv'
  BY DispatcherInvInductive, Zenon
<1> QED
  BY <1>1, <1>2, <1>3, <1>4, PTL

\* A SELECT with one aggregate function and GROUP BY, over any number of
\* devices and blocks, with any blocks skipped, any hash table found full at
\* any time, any thread throwing and any client interrupting: the result that
\* the thread of the overall last block saves has every block in it, a query
\* that ends undisturbed has saved one, and the counter never goes past the
\* limit that IsGroupByDone compares it with.
THEOREM ResultIsSavedWhole ==
    ASSUME Aggregations = 1
    PROVE  Spec => []ResultSavedWhole
<1>1. DispatcherInv => ResultSavedWhole
  BY CountOfOthers, DispatcherInvImplies, Zenon
<1>2. Init /\ [][Next]_vars => []DispatcherInv
  BY DispatcherInvHolds, Zenon
<1> QED
  BY <1>1, <1>2, PTL DEF Spec

\* In such a query the merge reads tables that no thread fills or empties any
\* more (GetResults holds no lock on them).
THEOREM TablesAreFinalOnceMerged ==
    ASSUME Aggregations = 1
    PROVE  Spec => MergedTablesAreFinal
<1>1. DispatcherInv /\ [Next]_vars => [result # NoResult /\ result' = result => groupByTables' = groupByTables]_vars
  BY FinalAfterMerge, Zenon
<1>2. Init /\ [][Next]_vars => []DispatcherInv
  BY DispatcherInvHolds, Zenon
<1> QED
  BY <1>1, <1>2, PTL DEF Spec, MergedTablesAreFinal

-----------------------------------------------------------------------------
(* Extremes of sets of numbers *)

\* The search for an extreme over a nonempty set of naturals ends.
LEMMA LeastNat ==
    ASSUME NEW T, T \subseteq Nat, T # {}
    PROVE  \E x \in T : \A y \in T : x <= y
<1>1. \A x, y \in Nat : <<y, x>> \in OpToRel(<, Nat) <=> y < x
  BY Zenon DEF OpToRel
<1>2. \E r : IsWellFoundedOn(r, Nat) /\ \A x, y \in Nat : <<y, x>> \in r <=> y < x
  BY <1>1, NatLessThanWellFounded, Zenon
<1>3. PICK r : IsWellFoundedOn(r, Nat) /\ \A x, y \in Nat : <<y, x>> \in r <=> y < x
  BY <1>2, Zenon
<1>4. PICK x \in T : \A y \in T : ~ (<<y, x>> \in r)
  BY <1>3, WFMin, Zenon
<1>5. \A y \in T : ~ (y < x)
  BY <1>3, <1>4, Zenon
<1> QED  BY <1>5, x \in Nat, \A y \in T : y \in Nat

\* First, the smallest index of a set of blocks or columns, is one of them.
LEMMA FirstIn ==
    ASSUME NEW S, S \subseteq Nat, S # {}
    PROVE  First(S) \in S /\ \A k \in S : First(S) <= k
BY LeastNat, Zenon DEF First

-----------------------------------------------------------------------------
(* The invariant *)

\* Types, and no exception.
Types ==
    /\ mergeState \in {"idle", "merging", "merged"}
    /\ directions \in Seq({"ASC", "DESC"})
    /\ mergeState # "idle" => directions # <<>>
    /\ sortedBlocks \in Seq(Seq(KeyRow(Len(directions))))
    /\ currentIndicesInBlocks \in [DOMAIN sortedBlocks -> Nat]
    /\ \A j \in DOMAIN sortedBlocks : currentIndicesInBlocks[j] <= Len(sortedBlocks[j])
    /\ merged \in Seq(KeyRow(Len(directions)))
    /\ origins \in Seq(Nat \X Nat)
    /\ Len(origins) = Len(merged)

\* Merged are exactly the rows below currentIndicesInBlocks, each once.
Taken ==
    /\ \A n \in DOMAIN origins :
          /\ origins[n][1] \in DOMAIN sortedBlocks
          /\ origins[n][2] \in 1 .. currentIndicesInBlocks[origins[n][1]]
          /\ merged[n] = sortedBlocks[origins[n][1]][origins[n][2]]
    /\ \A j \in DOMAIN sortedBlocks : \A p \in 1 .. currentIndicesInBlocks[j] :
          \E n \in DOMAIN origins : origins[n] = <<j, p>>
    /\ \A m, n \in DOMAIN origins : origins[m] = origins[n] => m = n
    /\ mergeState = "merged" => Live = {}

\* The merged rows are in order, and no row that is left comes before them.
Ordered ==
    BlocksOrdered =>
        /\ \A m, n \in DOMAIN merged : m < n => ~ Better(1, merged[n].keys[1], merged[m].keys[1])
        /\ \A m \in DOMAIN merged, j \in DOMAIN sortedBlocks :
              \A p \in currentIndicesInBlocks[j] + 1 .. Len(sortedBlocks[j]) :
                 ~ Better(1, sortedBlocks[j][p].keys[1], merged[m].keys[1])

\* Nothing is merged before the merge.
IdleEmpty == mergeState = "idle" => merged = <<>> /\ origins = <<>>

MergeInv == Types /\ Taken /\ Ordered /\ IdleEmpty

-----------------------------------------------------------------------------
(* The row that a turn of the loop takes *)

\* The heads of blocks that have rows left are rows with keys of the type.
LEMMA HeadTypes ==
    ASSUME Types, NEW j \in Live
    PROVE  /\ j \in DOMAIN sortedBlocks
           /\ currentIndicesInBlocks[j] + 1 \in DOMAIN sortedBlocks[j]
           /\ HeadRow(j) \in KeyRow(Len(directions))
           /\ \A i \in DOMAIN directions : Key(i, j) \in Lowest .. Highest
<1>1. j \in DOMAIN sortedBlocks /\ currentIndicesInBlocks[j] < Len(sortedBlocks[j])
  BY Zenon DEF Live
<1>2. sortedBlocks[j] \in Seq(KeyRow(Len(directions))) /\ currentIndicesInBlocks[j] \in Nat
  BY <1>1 DEF Types
<1>3. currentIndicesInBlocks[j] + 1 \in DOMAIN sortedBlocks[j]
  BY <1>1, <1>2
<1>4. HeadRow(j) \in KeyRow(Len(directions))
  BY <1>2, <1>3 DEF HeadRow
<1>5. ASSUME NEW i \in DOMAIN directions
      PROVE  Key(i, j) \in Lowest .. Highest
  <2>1. i \in 1 .. Len(directions)
    BY DEF Types
  <2>2. HeadRow(j).keys \in [1 .. Len(directions) -> Lowest .. Highest]
    BY <1>4, Zenon DEF KeyRow
  <2> QED  BY <2>1, <2>2, Zenon DEF Key
<1> QED  BY <1>1, <1>3, <1>4, <1>5, Zenon

\* The position in a block is at most its end.
LEMMA PositionInBlock ==
    ASSUME Types, NEW j \in DOMAIN sortedBlocks
    PROVE  /\ currentIndicesInBlocks[j] \in Nat
           /\ Len(sortedBlocks[j]) \in Nat
           /\ currentIndicesInBlocks[j] <= Len(sortedBlocks[j])
<1>1. sortedBlocks[j] \in Seq(KeyRow(Len(directions)))
  BY DEF Types
<1>2. currentIndicesInBlocks[j] \in Nat /\ currentIndicesInBlocks[j] <= Len(sortedBlocks[j])
  BY Zenon DEF Types
<1> QED  BY <1>1, <1>2

\* If the heads differ in a column, the search for the minimum or maximum
\* finds a block: not all heads can be the worst value of the type.
LEMMA ExtremeExists ==
    ASSUME Types, NEW i \in DOMAIN directions, ~ ValuesAreEqual(i)
    PROVE  Extremes(i) # {}
<1> DEFINE rank(j) == IF directions[i] = "ASC" THEN Key(i, j) - Lowest ELSE Highest - Key(i, j)
           T == {rank(j) : j \in Live}
<1>1. \A j \in Live : Key(i, j) \in Lowest .. Highest
  BY HeadTypes, Zenon
<1>2. directions[i] \in {"ASC", "DESC"}
  BY DEF Types
<1>3. Lowest \in Int /\ Highest \in Int
  BY LimitsAssumption, Zenon
<1>4. T \subseteq Nat
  BY <1>1, <1>3
<1>5. PICK k1 \in Live, k2 \in Live : Key(i, k1) # Key(i, k2)
  BY Zenon DEF ValuesAreEqual
<1>6. T # {}
  BY <1>5, Zenon
<1>7. PICK x \in T : \A y \in T : x <= y
  BY <1>4, <1>6, LeastNat, Zenon
<1>8. PICK j \in Live : x = rank(j)
  BY <1>7, Zenon
<1>9. \A k \in Live : rank(j) <= rank(k)
  BY <1>7, <1>8, Zenon
<1>10. \A k \in Live : ~ Better(i, Key(i, k), Key(i, j))
  <2> SUFFICES ASSUME NEW k \in Live PROVE ~ Better(i, Key(i, k), Key(i, j))
    BY Zenon
  <2>1. rank(j) <= rank(k) /\ Key(i, j) \in Int /\ Key(i, k) \in Int
    BY <1>1, <1>9
  <2> QED  BY <2>1, <1>2, <1>3 DEF Better
<1>11. PICK k \in Live : Key(i, k) # Key(i, j)
  BY <1>5, Zenon
<1>12. Better(i, Key(i, j), Worst(i))
  <2>1. ~ Better(i, Key(i, k), Key(i, j))
    BY <1>10, Zenon
  <2>2. Key(i, j) \in Lowest .. Highest /\ Key(i, k) \in Lowest .. Highest
    BY <1>1, Zenon
  <2> QED  BY <2>1, <2>2, <1>2, <1>3, <1>11 DEF Better, Worst
<1> QED  BY <1>10, <1>12, Zenon DEF Extremes

\* The column that decides is one of the clause.
LEMMA DecidingColumnIn ==
    ASSUME Types, directions # <<>>
    PROVE  /\ DecidingColumn \in DOMAIN directions
           /\ DecidingColumn # 1 => ValuesAreEqual(1)
<1> DEFINE S == {i \in DOMAIN directions : ~ ValuesAreEqual(i)} \cup {Len(directions)}
<1>1. Len(directions) \in DOMAIN directions /\ DOMAIN directions \subseteq Nat
      /\ 1 \in DOMAIN directions /\ \A i \in DOMAIN directions : 1 <= i
  BY DEF Types
<1>2. S \subseteq DOMAIN directions /\ S # {} /\ S \subseteq Nat
  BY <1>1, Zenon
<1>3. First(S) \in S /\ \A k \in S : First(S) <= k
  <2> HIDE DEF S
  <2> QED  BY <1>2, FirstIn, Zenon
<1>4. DecidingColumn = First(S)
  BY Zenon DEF DecidingColumn
<1>5. ~ ValuesAreEqual(1) => 1 \in S
  BY <1>1, Zenon
<1> HIDE DEF S
<1> QED  BY <1>1, <1>2, <1>3, <1>4, <1>5

\* A turn takes the head of a block that has one, and no head is better than it
\* in the leading column.
LEMMA BlockToMergeIsBest ==
    ASSUME Types, directions # <<>>, Live # {},
           NEW j, j = BlockToMerge(DecidingColumn)
    PROVE  /\ j \in Live
           /\ \A k \in Live : ~ Better(1, Key(1, k), Key(1, j))
<1> DEFINE i == DecidingColumn
<1>1. i \in DOMAIN directions /\ (i # 1 => ValuesAreEqual(1))
  BY DecidingColumnIn, Zenon
<1>2. Live \subseteq Nat
  BY DEF Live, Types
<1>3. 1 \in DOMAIN directions
  BY DEF Types
<1>4. ValuesAreEqual(1) => \A k, l \in Live : ~ Better(1, Key(1, k), Key(1, l))
  <2> SUFFICES ASSUME ValuesAreEqual(1), NEW k \in Live, NEW l \in Live
               PROVE  ~ Better(1, Key(1, k), Key(1, l))
    BY Zenon
  <2>1. Key(1, k) = Key(1, l)
    BY Zenon DEF ValuesAreEqual
  <2>2. Key(1, k) \in Int
    BY <1>3, HeadTypes, LimitsAssumption
  <2> QED  BY <2>1, <2>2 DEF Better
<1> HIDE DEF i
<1>5. CASE ValuesAreEqual(i)
  <2>1. j = First(Live)
    BY <1>5, Zenon DEF BlockToMerge, i
  <2>2. j \in Live
    BY <2>1, <1>2, FirstIn, Zenon
  <2>3. ValuesAreEqual(1)
    BY <1>1, <1>5, Zenon
  <2> QED  BY <2>2, <2>3, <1>4, Zenon
<1>6. CASE ~ ValuesAreEqual(i)
  <2>1. j = First(Extremes(i))
    BY <1>6, Zenon DEF BlockToMerge, i
  <2>2. Extremes(i) # {} /\ Extremes(i) \subseteq Live
    BY <1>1, <1>6, ExtremeExists, Zenon DEF Extremes
  <2>3. j \in Extremes(i)
    BY <2>1, <2>2, <1>2, FirstIn, Zenon
  <2>4. CASE i = 1
    BY <2>2, <2>3, <2>4, Zenon DEF Extremes
  <2>5. CASE i # 1
    BY <2>2, <2>3, <2>5, <1>1, <1>4, Zenon
  <2> QED  BY <2>4, <2>5, Zenon
<1> QED  BY <1>5, <1>6, Zenon

-----------------------------------------------------------------------------
(* The room in the result *)

\* There are finitely many rows to merge.
LEMMA BlockRowsFinite ==
    ASSUME Types
    PROVE  IsFiniteSet(BlockRows)
<1> DEFINE D == DOMAIN sortedBlocks
           Rows(j) == {j} \X (1 .. Len(sortedBlocks[j]))
           S == {Rows(j) : j \in D}
           f == [j \in D |-> Rows(j)]
<1>1. IsFiniteSet(D)
  <2>1. D = 1 .. Len(sortedBlocks) /\ Len(sortedBlocks) \in Nat
    BY DEF Types
  <2> QED  BY <2>1, FS_Interval
<1>2. f \in Surjection(D, S)
  BY Zenon DEF Surjection
<1>3. IsFiniteSet(S)
  <2> HIDE DEF f, S
  <2> QED  BY <1>1, <1>2, FS_Surjection, Zenon
<1>4. ASSUME NEW T \in S
      PROVE  IsFiniteSet(T)
  <2>1. PICK j \in D : T = Rows(j)
    BY Zenon
  <2>2. Len(sortedBlocks[j]) \in Nat
    BY DEF Types
  <2>3. IsFiniteSet(1 .. Len(sortedBlocks[j]))
    BY <2>2, FS_Interval
  <2>4. IsFiniteSet({j})
    BY FS_Singleton, Zenon
  <2> QED  BY <2>1, <2>3, <2>4, FS_Product, Zenon
<1>5. BlockRows = UNION S
  BY Zenon DEF BlockRows
<1> HIDE DEF S
<1> QED  BY <1>3, <1>4, <1>5, FS_UNION, Zenon

\* The result is as large as the rows: while a row is left, there is room.
LEMMA RoomIsLeft ==
    ASSUME Types, Taken, Live # {}
    PROVE  Len(merged) < resultSetSize
<1>1. PICK j \in Live : TRUE
  BY Zenon
<1> DEFINE head == <<j, currentIndicesInBlocks[j] + 1>>
           T == BlockRows \ {head}
           n == Len(origins)
<1>2. j \in DOMAIN sortedBlocks /\ currentIndicesInBlocks[j] + 1 \in 1 .. Len(sortedBlocks[j])
      /\ currentIndicesInBlocks[j] \in Nat
  <2>1. j \in DOMAIN sortedBlocks /\ currentIndicesInBlocks[j] < Len(sortedBlocks[j])
    BY Zenon DEF Live
  <2> QED  BY <2>1, PositionInBlock
<1>3. head \in BlockRows
  BY <1>2 DEF BlockRows
<1>4. IsFiniteSet(BlockRows)
  BY BlockRowsFinite, Zenon
<1>5. IsFiniteSet(T) /\ Cardinality(T) = Cardinality(BlockRows) - 1
  BY <1>3, <1>4, FS_RemoveElement, Zenon
<1>6. origins \in [1 .. n -> T]
  <2>1. origins \in [1 .. n -> Nat \X Nat]
    BY DEF Types
  <2>2. ASSUME NEW m \in 1 .. n
        PROVE  origins[m] \in T
    <3>1. m \in DOMAIN origins /\ origins[m] = <<origins[m][1], origins[m][2]>>
      BY <2>1
    <3>2. origins[m][1] \in DOMAIN sortedBlocks
          /\ origins[m][2] \in 1 .. currentIndicesInBlocks[origins[m][1]]
      BY <3>1, Zenon DEF Taken
    <3>3. origins[m][2] \in 1 .. Len(sortedBlocks[origins[m][1]])
      BY <3>2, PositionInBlock
    <3>4. origins[m] \in BlockRows
      BY <3>1, <3>2, <3>3 DEF BlockRows
    <3>5. origins[m] # head
      BY <3>1, <3>2, <1>2
    <3> QED  BY <3>4, <3>5, Zenon
  <2> QED  BY <2>1, <2>2, Zenon
<1>7. origins \in Injection(1 .. n, T)
  <2>1. DOMAIN origins = 1 .. n
    BY DEF Types
  <2>2. \A a, b \in DOMAIN origins : origins[a] = origins[b] => a = b
    BY Zenon DEF Taken
  <2> HIDE DEF T, n
  <2> QED  BY <1>6, <2>1, <2>2, Zenon DEF Injection, IsInjective
<1>8. Cardinality(1 .. n) <= Cardinality(T)
  <2> HIDE DEF T, n
  <2> QED  BY <1>5, <1>7, FS_Injection, Zenon
<1>9. n \in Nat /\ n = Len(merged)
  BY DEF Types
<1>10. Cardinality(1 .. n) = n
  <2> HIDE DEF n
  <2>1. n \in Int /\ 1 \in Int
    BY <1>9
  <2>2. Cardinality(1 .. n) = IF 1 > n THEN 0 ELSE n - 1 + 1
    BY <2>1, FS_Interval, Zenon
  <2> QED  BY <2>2, <1>9
<1>11. Cardinality(BlockRows) \in Nat
  BY <1>4, FS_CardinalityType, Zenon
<1> HIDE DEF T, n
<1> QED  BY <1>5, <1>8, <1>9, <1>10, <1>11 DEF resultSetSize

-----------------------------------------------------------------------------
(* Steps *)

\* What a turn of the loop does: it takes the head of the chosen block.
LEMMA TurnTakesRow ==
    ASSUME MergeInv, MergeRow
    PROVE  /\ mergeState = "merging" /\ mergeState' = mergeState
           /\ UNCHANGED <<sortedBlocks, directions>>
           /\ Live # {}
           /\ TakeRow(BlockToMerge(DecidingColumn))
<1>1. mergeState = "merging" /\ Live # {} /\ UNCHANGED <<sortedBlocks, directions>>
  BY Zenon DEF MergeRow
<1>2. Types /\ Taken /\ directions # <<>>
  BY <1>1, Zenon DEF MergeInv, Types
<1>3. Len(merged) < resultSetSize
  BY <1>1, <1>2, RoomIsLeft, Zenon
<1>4. ~ ValuesAreEqual(DecidingColumn) => Extremes(DecidingColumn) # {}
  BY <1>2, DecidingColumnIn, ExtremeExists, Zenon
<1>5. Len(merged) \in Nat /\ resultSetSize \in Nat
  BY <1>2, BlockRowsFinite, FS_CardinalityType DEF Types, resultSetSize
<1>6. ~ (Len(merged) >= resultSetSize)
  BY <1>3, <1>5
<1> QED  BY <1>1, <1>4, <1>6, Zenon DEF MergeRow

\* The order of a column is transitive.
LEMMA NotBetterTransitive ==
    ASSUME NEW x \in Int, NEW y \in Int, NEW z \in Int,
           ~ Better(1, x, y), ~ Better(1, y, z)
    PROVE  ~ Better(1, x, z)
BY DEF Better

\* The leading key of any row is a number.
LEMMA LeadingKey ==
    ASSUME Types, directions # <<>>, NEW k \in DOMAIN sortedBlocks,
           NEW p \in DOMAIN sortedBlocks[k]
    PROVE  sortedBlocks[k][p].keys[1] \in Int
<1>1. 1 \in 1 .. Len(directions)
  BY DEF Types
<1>2. sortedBlocks[k][p] \in KeyRow(Len(directions))
  BY DEF Types
<1>3. sortedBlocks[k][p].keys \in [1 .. Len(directions) -> Lowest .. Highest]
  BY <1>2, Zenon DEF KeyRow
<1> QED  BY <1>1, <1>3, LimitsAssumption

\* Taking the head of a block keeps the types.
LEMMA TakeRowTypes ==
    ASSUME Types, NEW j \in Live, TakeRow(j), mergeState' = mergeState,
           UNCHANGED <<sortedBlocks, directions>>
    PROVE  Types'
<1>1. /\ j \in DOMAIN sortedBlocks
      /\ currentIndicesInBlocks[j] + 1 \in DOMAIN sortedBlocks[j]
      /\ HeadRow(j) \in KeyRow(Len(directions))
  BY HeadTypes, Zenon
<1>2. /\ merged' = Append(merged, HeadRow(j))
      /\ origins' = Append(origins, <<j, currentIndicesInBlocks[j] + 1>>)
      /\ currentIndicesInBlocks' = [currentIndicesInBlocks EXCEPT ![j] = @ + 1]
  BY Zenon DEF TakeRow
<1>3. /\ merged \in Seq(KeyRow(Len(directions))) /\ origins \in Seq(Nat \X Nat)
      /\ Len(origins) = Len(merged)
      /\ currentIndicesInBlocks \in [DOMAIN sortedBlocks -> Nat]
      /\ sortedBlocks \in Seq(Seq(KeyRow(Len(directions))))
  BY Zenon DEF Types
<1>4. merged' \in Seq(KeyRow(Len(directions)))
  BY <1>1, <1>2, <1>3
<1>5. <<j, currentIndicesInBlocks[j] + 1>> \in Nat \X Nat
  BY <1>1, <1>3
<1>6. origins' \in Seq(Nat \X Nat) /\ Len(origins') = Len(merged')
  BY <1>2, <1>3, <1>5
<1>7. currentIndicesInBlocks' \in [DOMAIN sortedBlocks -> Nat]
  <2>1. currentIndicesInBlocks[j] + 1 \in Nat
    BY <1>1, <1>3
  <2> QED  BY <1>2, <1>3, <2>1, Zenon
<1>8. \A k \in DOMAIN sortedBlocks : currentIndicesInBlocks'[k] <= Len(sortedBlocks[k])
  <2> SUFFICES ASSUME NEW k \in DOMAIN sortedBlocks
               PROVE  currentIndicesInBlocks'[k] <= Len(sortedBlocks[k])
    BY Zenon
  <2>1. sortedBlocks[j] \in Seq(KeyRow(Len(directions)))
    BY <1>1, <1>3
  <2>2. CASE k = j
    BY <1>1, <1>2, <1>3, <2>1, <2>2
  <2>3. CASE k # j
    BY <1>2, <1>3, <2>3, Zenon DEF Types
  <2> QED  BY <2>2, <2>3, Zenon
<1> QED  BY <1>3, <1>4, <1>6, <1>7, <1>8, Zenon DEF Types

\* Taking the head of a block keeps the account of the rows that are merged.
LEMMA TakeRowTaken ==
    ASSUME Types, Taken, NEW j \in Live, TakeRow(j),
           mergeState = "merging", mergeState' = mergeState,
           UNCHANGED <<sortedBlocks, directions>>
    PROVE  Taken'
<1> DEFINE c == currentIndicesInBlocks
           N == Len(origins)
<1>1. /\ j \in DOMAIN sortedBlocks
      /\ c[j] + 1 \in DOMAIN sortedBlocks[j]
  BY HeadTypes, Zenon
<1>2. /\ merged' = Append(merged, sortedBlocks[j][c[j] + 1])
      /\ origins' = Append(origins, <<j, c[j] + 1>>)
      /\ c' = [c EXCEPT ![j] = @ + 1]
  BY Zenon DEF TakeRow, HeadRow
<1>3. /\ merged \in Seq(KeyRow(Len(directions))) /\ origins \in Seq(Nat \X Nat)
      /\ Len(origins) = Len(merged)
      /\ c \in [DOMAIN sortedBlocks -> Nat]
  BY Zenon DEF Types
<1>4. /\ N \in Nat /\ DOMAIN origins = 1 .. N /\ DOMAIN origins' = 1 .. N + 1
      /\ \A n \in 1 .. N : origins'[n] = origins[n] /\ merged'[n] = merged[n]
      /\ origins'[N + 1] = <<j, c[j] + 1>>
      /\ merged'[N + 1] = sortedBlocks[j][c[j] + 1]
  BY <1>2, <1>3
<1>5. \A k \in DOMAIN sortedBlocks : c[k] \in Nat /\ c'[k] = IF k = j THEN c[k] + 1 ELSE c[k]
  BY <1>2, <1>3, Zenon
<1>6. ASSUME NEW n \in DOMAIN origins'
      PROVE  /\ origins'[n][1] \in DOMAIN sortedBlocks
             /\ origins'[n][2] \in 1 .. c'[origins'[n][1]]
             /\ merged'[n] = sortedBlocks[origins'[n][1]][origins'[n][2]]
  <2>1. CASE n \in 1 .. N
    <3>1. origins[n][1] \in DOMAIN sortedBlocks /\ origins[n][2] \in 1 .. c[origins[n][1]]
          /\ merged[n] = sortedBlocks[origins[n][1]][origins[n][2]]
      BY <1>4, <2>1, Zenon DEF Taken
    <3>2. c[origins[n][1]] \in Nat /\ c'[origins[n][1]] \in Nat
          /\ c[origins[n][1]] <= c'[origins[n][1]]
      BY <1>5, <3>1
    <3> HIDE DEF c
    <3> QED  BY <1>4, <2>1, <3>1, <3>2
  <2>2. CASE n = N + 1
    <3>1. c'[j] = c[j] + 1 /\ c[j] \in Nat
      BY <1>1, <1>5, Zenon
    <3> HIDE DEF c
    <3> QED  BY <1>1, <1>4, <2>2, <3>1
  <2> QED  BY <1>4, <2>1, <2>2
<1>7. ASSUME NEW k \in DOMAIN sortedBlocks, NEW p \in 1 .. c'[k]
      PROVE  \E n \in DOMAIN origins' : origins'[n] = <<k, p>>
  <2>1. CASE p \in 1 .. c[k]
    <3>1. PICK n \in DOMAIN origins : origins[n] = <<k, p>>
      BY <2>1, Zenon DEF Taken
    <3> HIDE DEF c, N
    <3> QED  BY <1>4, <3>1
  <2>2. CASE ~ (p \in 1 .. c[k])
    <3>1. k = j /\ p = c[j] + 1
      BY <1>5, <2>2
    <3>2. N + 1 \in DOMAIN origins'
      BY <1>4
    <3> QED  BY <1>4, <3>1, <3>2, Zenon
  <2> QED  BY <2>1, <2>2, Zenon
<1>8. ASSUME NEW n \in 1 .. N
      PROVE  origins[n] # <<j, c[j] + 1>>
  <2>1. origins[n][2] \in 1 .. c[origins[n][1]]
    BY <1>4, Zenon DEF Taken
  <2>2. c[j] \in Nat
    BY <1>1, <1>5, Zenon
  <2> SUFFICES ASSUME origins[n] = <<j, c[j] + 1>> PROVE FALSE
    BY Zenon
  <2>3. origins[n][1] = j /\ origins[n][2] = c[j] + 1
    OBVIOUS
  <2> HIDE DEF c
  <2> QED  BY <2>1, <2>2, <2>3
<1>9. ASSUME NEW m \in DOMAIN origins', NEW n \in DOMAIN origins', origins'[m] = origins'[n]
      PROVE  m = n
  <2>1. \A a, b \in 1 .. N : origins[a] = origins[b] => a = b
    BY <1>4, Zenon DEF Taken
  <2> HIDE DEF c, N
  <2> QED  BY <1>4, <1>8, <1>9, <2>1
<1> QED  BY <1>6, <1>7, <1>9, Zenon DEF Taken

\* Taking the best head keeps the merged rows in order.
LEMMA TakeRowOrdered ==
    ASSUME Types, directions # <<>>, Ordered, NEW j \in Live, TakeRow(j),
           \A k \in Live : ~ Better(1, Key(1, k), Key(1, j)),
           UNCHANGED <<sortedBlocks, directions>>
    PROVE  Ordered'
<1> DEFINE c == currentIndicesInBlocks
           N == Len(merged)
           Lead(k, p) == sortedBlocks[k][p].keys[1]
<1>1. /\ j \in DOMAIN sortedBlocks
      /\ c[j] + 1 \in DOMAIN sortedBlocks[j]
  BY HeadTypes, Zenon
<1>2. /\ merged' = Append(merged, sortedBlocks[j][c[j] + 1])
      /\ c' = [c EXCEPT ![j] = @ + 1]
  BY Zenon DEF TakeRow, HeadRow
<1>3. merged \in Seq(KeyRow(Len(directions))) /\ c \in [DOMAIN sortedBlocks -> Nat]
  BY Zenon DEF Types
<1>4. /\ N \in Nat /\ DOMAIN merged = 1 .. N /\ DOMAIN merged' = 1 .. N + 1
      /\ \A n \in 1 .. N : merged'[n] = merged[n]
      /\ merged'[N + 1] = sortedBlocks[j][c[j] + 1]
  BY <1>2, <1>3
<1>5. \A k \in DOMAIN sortedBlocks : /\ c[k] \in Nat
                                     /\ c'[k] = IF k = j THEN c[k] + 1 ELSE c[k]
                                     /\ Len(sortedBlocks[k]) \in Nat
                                     /\ DOMAIN sortedBlocks[k] = 1 .. Len(sortedBlocks[k])
  BY <1>2, <1>3 DEF Types
<1>6. \A x, y : Better(1, x, y)' <=> Better(1, x, y)
  BY Zenon DEF Better
<1> SUFFICES ASSUME BlocksOrdered
             PROVE  /\ \A m, n \in DOMAIN merged' :
                          m < n => ~ Better(1, merged'[n].keys[1], merged'[m].keys[1])
                    /\ \A m \in DOMAIN merged', k \in DOMAIN sortedBlocks :
                          \A p \in c'[k] + 1 .. Len(sortedBlocks[k]) :
                             ~ Better(1, Lead(k, p), merged'[m].keys[1])
  BY DEF Ordered, BlocksOrdered, Better
<1>7. /\ \A m, n \in 1 .. N : m < n => ~ Better(1, merged[n].keys[1], merged[m].keys[1])
      /\ \A m \in 1 .. N, k \in DOMAIN sortedBlocks :
            \A p \in c[k] + 1 .. Len(sortedBlocks[k]) :
               ~ Better(1, Lead(k, p), merged[m].keys[1])
  BY <1>4, Zenon DEF Ordered
<1>8. ASSUME NEW k \in DOMAIN sortedBlocks, NEW p \in c'[k] + 1 .. Len(sortedBlocks[k])
      PROVE  ~ Better(1, Lead(k, p), Lead(j, c[j] + 1))
  <2>1. \A a, b \in DOMAIN sortedBlocks[k] : a < b => ~ Better(1, Lead(k, b), Lead(k, a))
    BY Zenon DEF BlocksOrdered
  <2>2. CASE k = j
    <3> HIDE DEF Lead, c
    <3> QED  BY <1>1, <1>5, <2>1, <2>2
  <2>3. CASE k # j
    <3>1. c[k] + 1 \in DOMAIN sortedBlocks[k] /\ p \in DOMAIN sortedBlocks[k] /\ c[k] + 1 <= p
          /\ c[k] < Len(sortedBlocks[k])
      BY <1>5, <2>3
    <3>2. k \in Live
      BY <3>1, Zenon DEF Live
    <3>3. ~ Better(1, Lead(k, c[k] + 1), Lead(j, c[j] + 1))
      BY <3>2, Zenon DEF Key, HeadRow
    <3>4. Lead(k, c[k] + 1) \in Int /\ Lead(j, c[j] + 1) \in Int /\ Lead(k, p) \in Int
      BY <1>1, <3>1, LeadingKey, Zenon
    <3>5. CASE p = c[k] + 1
      BY <3>3, <3>5, Zenon
    <3>6. CASE p # c[k] + 1
      <4>1. c[k] + 1 < p
        BY <1>5, <3>1, <3>6
      <4>2. ~ Better(1, Lead(k, p), Lead(k, c[k] + 1))
        BY <2>1, <3>1, <4>1, Zenon
      <4> HIDE DEF Lead
      <4> QED  BY <3>3, <3>4, <4>2, NotBetterTransitive, Zenon
    <3> QED  BY <3>5, <3>6, Zenon
  <2> QED  BY <2>2, <2>3, Zenon
<1>9. ASSUME NEW m \in DOMAIN merged', NEW n \in DOMAIN merged', m < n
      PROVE  ~ Better(1, merged'[n].keys[1], merged'[m].keys[1])
  <2>1. m \in 1 .. N
    BY <1>4, <1>9
  <2>2. CASE n \in 1 .. N
    BY <1>4, <1>7, <1>9, <2>1, <2>2, Zenon
  <2>3. CASE n = N + 1
    <3>1. c[j] + 1 \in c[j] + 1 .. Len(sortedBlocks[j])
      BY <1>1, <1>5
    <3>2. ~ Better(1, Lead(j, c[j] + 1), merged[m].keys[1])
      BY <1>1, <1>7, <2>1, <3>1, Zenon
    <3> QED  BY <1>4, <2>1, <2>3, <3>2, Zenon
  <2> QED  BY <1>4, <2>2, <2>3
<1>10. ASSUME NEW m \in DOMAIN merged', NEW k \in DOMAIN sortedBlocks,
              NEW p \in c'[k] + 1 .. Len(sortedBlocks[k])
       PROVE  ~ Better(1, Lead(k, p), merged'[m].keys[1])
  <2>1. CASE m \in 1 .. N
    <3>1. p \in c[k] + 1 .. Len(sortedBlocks[k])
      BY <1>5
    <3> QED  BY <1>4, <1>7, <2>1, <3>1, Zenon
  <2>2. CASE m = N + 1
    BY <1>4, <1>8, <2>2, Zenon
  <2> QED  BY <1>4, <2>1, <2>2
<1> QED  BY <1>9, <1>10, Zenon

\* The invariant holds before the merge.
LEMMA MergeInvInit == MergeInit => MergeInv
<1> SUFFICES ASSUME MergeInit PROVE MergeInv
  BY Zenon
<1>1. Types
  BY DEF MergeInit, Types
<1>2. Taken
  BY DEF MergeInit, Taken
<1>3. Ordered
  BY DEF MergeInit, Ordered
<1> QED  BY <1>1, <1>2, <1>3, Zenon DEF MergeInv, MergeInit, IdleEmpty

\* Every step of the merge keeps it.
LEMMA MergeInvStep == MergeInv /\ [MergeNext]_mergeVars => MergeInv'
<1> SUFFICES ASSUME MergeInv, [MergeNext]_mergeVars PROVE MergeInv'
  BY Zenon
<1> USE DEF MergeInv
<1>1. ASSUME NEW dirs \in Seq({"ASC", "DESC"}), dirs # <<>>,
             NEW blocks \in Seq(Seq(KeyRow(Len(dirs)))), StartMerge(blocks, dirs)
      PROVE  MergeInv'
  <2>1. /\ mergeState = "idle" /\ mergeState' = "merging"
        /\ sortedBlocks' = blocks /\ directions' = dirs
        /\ currentIndicesInBlocks' = [j \in DOMAIN blocks |-> 0]
        /\ merged' = merged /\ origins' = origins
    BY <1>1, Zenon DEF StartMerge
  <2>2. merged = <<>> /\ origins = <<>>
    BY <2>1, Zenon DEF IdleEmpty
  <2>3. Types'
    <3>1. \A j \in DOMAIN blocks : 0 <= Len(blocks[j])
      OBVIOUS
    <3> QED  BY <1>1, <2>1, <2>2, <3>1 DEF Types
  <2>4. Taken'
    BY <2>1, <2>2 DEF Taken
  <2>5. Ordered'
    BY <2>1, <2>2 DEF Ordered
  <2> QED  BY <2>1, <2>3, <2>4, <2>5, Zenon DEF IdleEmpty
<1>2. CASE MergeRow
  <2> DEFINE j == BlockToMerge(DecidingColumn)
  <2>1. /\ mergeState = "merging" /\ mergeState' = mergeState
        /\ UNCHANGED <<sortedBlocks, directions>>
        /\ Live # {}
        /\ TakeRow(j)
    BY <1>2, TurnTakesRow, Zenon
  <2>2. directions # <<>>
    BY <2>1, Zenon DEF Types
  <2>3. j \in Live /\ \A k \in Live : ~ Better(1, Key(1, k), Key(1, j))
    BY <2>1, <2>2, BlockToMergeIsBest, Zenon
  <2> HIDE DEF j
  <2>4. Types'
    BY <2>1, <2>3, TakeRowTypes, Zenon
  <2>5. Taken'
    BY <2>1, <2>3, TakeRowTaken, Zenon
  <2>6. Ordered'
    BY <2>1, <2>2, <2>3, TakeRowOrdered, Zenon
  <2> QED  BY <2>1, <2>4, <2>5, <2>6, Zenon DEF IdleEmpty
<1>3. CASE EndMerge
  <2>1. /\ mergeState' = "merged" /\ Live = {} /\ mergeState = "merging"
        /\ UNCHANGED <<sortedBlocks, directions, currentIndicesInBlocks, merged, origins>>
    BY <1>3, Zenon DEF EndMerge
  <2>2. Types'
    BY <2>1, Zenon DEF Types
  <2>3. Taken'
    BY <2>1 DEF Taken, Live
  <2>4. Ordered'
    BY <2>1 DEF Ordered, BlocksOrdered, Better
  <2> QED  BY <2>1, <2>2, <2>3, <2>4, Zenon DEF IdleEmpty
<1>4. CASE UNCHANGED mergeVars
  <2>1. UNCHANGED <<mergeState, sortedBlocks, directions, currentIndicesInBlocks, merged, origins>>
    BY <1>4, Zenon DEF mergeVars
  <2>2. Types'
    BY <2>1, Zenon DEF Types
  <2>3. Taken'
    BY <2>1 DEF Taken, Live
  <2>4. Ordered'
    BY <2>1 DEF Ordered, BlocksOrdered, Better
  <2> QED  BY <2>1, <2>2, <2>3, <2>4, Zenon DEF IdleEmpty
<1> QED  BY <1>1, <1>2, <1>3, <1>4, Zenon DEF MergeNext

\* The invariant gives the property.
LEMMA MergeInvOrders == MergeInv => MergeOrdered
<1> SUFFICES ASSUME MergeInv PROVE MergeOrdered
  BY Zenon
<1> USE DEF MergeInv
<1>1. mergeState # "threw" /\ DOMAIN merged = DOMAIN origins
  BY DEF Types
<1>2. ASSUME NEW n \in DOMAIN merged
      PROVE  /\ origins[n] \in BlockRows
             /\ merged[n] = sortedBlocks[origins[n][1]][origins[n][2]]
  <2>1. /\ origins[n][1] \in DOMAIN sortedBlocks
        /\ origins[n][2] \in 1 .. currentIndicesInBlocks[origins[n][1]]
        /\ merged[n] = sortedBlocks[origins[n][1]][origins[n][2]]
    BY <1>1, Zenon DEF Taken
  <2>2. origins[n] = <<origins[n][1], origins[n][2]>>
    BY <1>1 DEF Types
  <2>3. origins[n][2] \in 1 .. Len(sortedBlocks[origins[n][1]])
    BY <2>1, PositionInBlock
  <2>4. \A a \in DOMAIN sortedBlocks : \A b \in 1 .. Len(sortedBlocks[a]) : <<a, b>> \in BlockRows
    BY DEF BlockRows
  <2>5. <<origins[n][1], origins[n][2]>> \in BlockRows
    BY <2>1, <2>3, <2>4, Zenon
  <2> QED  BY <2>1, <2>2, <2>5, Zenon
<1>3. ASSUME mergeState = "merged", NEW r \in BlockRows
      PROVE  \E n \in DOMAIN origins : origins[n] = r
  <2>1. PICK j \in DOMAIN sortedBlocks : r \in {j} \X (1 .. Len(sortedBlocks[j]))
    BY Zenon DEF BlockRows
  <2>2. r = <<j, r[2]>> /\ r[2] \in 1 .. Len(sortedBlocks[j])
    BY <2>1
  <2>3. currentIndicesInBlocks[j] = Len(sortedBlocks[j])
    BY <1>3 DEF Taken, Live, Types
  <2>4. r[2] \in 1 .. currentIndicesInBlocks[j]
    BY <2>2, <2>3, Zenon
  <2>5. \E n \in DOMAIN origins : origins[n] = <<j, r[2]>>
    BY <2>4, Zenon DEF Taken
  <2> QED  BY <2>2, <2>5, Zenon
<1>4. \A m, n \in DOMAIN origins : origins[m] = origins[n] => m = n
  BY Zenon DEF Taken
<1>5. BlocksOrdered =>
         \A m, n \in DOMAIN merged : m < n => ~ Better(1, merged[n].keys[1], merged[m].keys[1])
  BY Zenon DEF Ordered
<1> QED  BY <1>1, <1>2, <1>3, <1>4, <1>5, Zenon DEF MergeOrdered

\* The loop of OrderByReconstructRetAllBlocks, for any number of blocks, order
\* columns and rows, with any keys of the type: it throws neither exception, takes
\* every row of every block once, and its result is in order of the leading column.
THEOREM MergeIsOrdered == MergeSpec => []MergeOrdered
<1>1. MergeInit => MergeInv
  BY MergeInvInit, Zenon
<1>2. MergeInv /\ [MergeNext]_mergeVars => MergeInv'
  BY MergeInvStep, Zenon
<1>3. MergeInv => MergeOrdered
  BY MergeInvOrders, Zenon
<1> QED  BY <1>1, <1>2, <1>3, PTL DEF MergeSpec

=============================================================================
