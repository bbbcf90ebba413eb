------------------------- MODULE WarehouseTasksProofs -------------------------
(***************************************************************************)
(* Proofs about the celery tasks on the stock ledger: whatever they write  *)
(* from what they read earlier, and whatever requests run in between, the  *)
(* ledger keeps its types.                                                 *)
(***************************************************************************)
EXTENDS WarehouseTasks, WarehouseProofs

LEMMA TasksTypeStep ==
  ASSUME TasksTypeOK, [TasksNext]_allVars
  PROVE  TasksTypeOK'
<1>1. /\ TypeOK /\ batch \in SUBSET Orders
      /\ counted \in [Stocks -> Nat \cup {Unread}]
      /\ decrement \in [Stocks -> Nat \cup {Unread}]
  BY DEF TasksTypeOK
<1>2. NothingRead \in [Stocks -> Nat \cup {Unread}]
  BY DEF NothingRead
<1>3. ASSUME UNCHANGED vars PROVE TypeOK'
  BY <1>1, <1>3 DEF TypeOK, vars
<1>4. CASE Next /\ UNCHANGED taskVars
  <2>1. TypeOK'
    BY <1>1, <1>4, TypeStep
  <2> QED BY <1>1, <1>4, <2>1 DEF TasksTypeOK, taskVars
<1>5. CASE ReadMismatches
  <2>1. \A s \in Stocks : Allocated(s) \in Nat
    BY <1>1, AllocatedIsNat DEF TypeOK, Rows
  <2>2. counted' \in [Stocks -> Nat \cup {Unread}]
    BY <1>5, <2>1 DEF ReadMismatches
  <2> QED BY <1>1, <1>3, <1>5, <2>2 DEF ReadMismatches, TasksTypeOK
<1>6. CASE WriteCounters
  <2>1. quantity_allocated' \in [Stocks -> Int]
    BY <1>1, <1>6 DEF WriteCounters, TypeOK, Unread
  <2>2. TypeOK'
    BY <1>1, <1>6, <2>1 DEF WriteCounters, TypeOK, holds, lines
  <2> QED BY <1>1, <1>2, <1>6, <2>2 DEF WriteCounters, TasksTypeOK
<1>7. ASSUME NEW B \in SUBSET Orders, SelectUnpaid(B)
      PROVE  TasksTypeOK'
  BY <1>1, <1>3, <1>7 DEF SelectUnpaid, TasksTypeOK
<1>8. CASE ReadAllocations
  <2>1. PICK first \in [Stocks -> Lines] :
          decrement' = [s \in Stocks |-> IF first[s] \in BatchLines
                          THEN allocation[first[s]][s] ELSE 0]
    BY <1>8 DEF ReadAllocations
  <2>2. allocation \in [Lines -> [Stocks -> Nat]]
    BY <1>1 DEF TypeOK
  <2>3. decrement' \in [Stocks -> Nat \cup {Unread}]
    BY <2>1, <2>2
  <2> QED BY <1>1, <1>3, <1>8, <2>3 DEF ReadAllocations, TasksTypeOK
<1>9. CASE ExpireBatch
  <2>1. allocation' \in [Lines -> [Stocks -> Nat]]
    BY <1>1, <1>9 DEF ExpireBatch, TypeOK
  <2>2. quantity_allocated' \in [Stocks -> Int]
    <3>1. \A s \in Stocks : quantity_allocated[s] \in Int /\ decrement[s] \in Int
      BY <1>1 DEF TypeOK, Unread
    <3>2. quantity_allocated' = [s \in Stocks |-> quantity_allocated[s] - decrement[s]]
      BY <1>9 DEF ExpireBatch
    <3> QED BY <3>1, <3>2
  <2>3. stage' \in [Orders -> Stages]
    BY <1>1, <1>9 DEF ExpireBatch, TypeOK, Stages
  <2>4. TypeOK'
    BY <1>1, <1>9, <2>1, <2>2, <2>3 DEF ExpireBatch, TypeOK, holds, lines
  <2> QED BY <1>1, <1>2, <1>9, <2>4 DEF ExpireBatch, TasksTypeOK
<1>10. CASE UNCHANGED allVars
  BY <1>1, <1>3, <1>10 DEF allVars, taskVars, TasksTypeOK
<1> QED BY <1>4, <1>5, <1>6, <1>7, <1>8, <1>9, <1>10 DEF TasksNext, TaskStep

(* The resynchronisation and the expiry batch write values they read       *)
(* before other transactions ran; still no allocation or reservation       *)
(* becomes negative, and every counter stays a number.                     *)
THEOREM TasksKeepTypes == TasksSpec => []TasksTypeOK
<1>1. TasksInit => TasksTypeOK
  BY TypeInit DEF TasksInit, TasksTypeOK, NothingRead
<1>2. TasksTypeOK /\ [TasksNext]_allVars => TasksTypeOK'
  BY TasksTypeStep
<1> QED BY <1>1, <1>2, PTL DEF TasksSpec

-----------------------------------------------------------------------------
(* The resynchronisation while nothing else runs: the safety half of       *)
(* QuietCountersBecomeExact.                                               *)

(* What the task has read is the sum of the rows as they are now, and a    *)
(* stock it has read nothing for needs no correction.                      *)
ReadIsCurrent ==
  \A s \in Stocks : IF counted[s] = Unread
                    THEN quantity_allocated[s] = Allocated(s)
                    ELSE counted[s] = Allocated(s)

(* One reading makes it so, and one writing then makes every counter exact *)
(* however wrong the counters were.                                        *)
THEOREM OneQuietRoundRepairs ==
  /\ TypeOK /\ ReadMismatches => ReadIsCurrent'
  /\ TasksTypeOK /\ ReadIsCurrent /\ WriteCounters => CounterIsExact' /\ ReadIsCurrent'
<1>1. ASSUME TypeOK, ReadMismatches PROVE ReadIsCurrent'
  <2> SUFFICES ASSUME NEW s \in Stocks
               PROVE  IF counted'[s] = Unread
                      THEN quantity_allocated'[s] = Allocated(s)'
                      ELSE counted'[s] = Allocated(s)'
    BY DEF ReadIsCurrent
  <2>1. Allocated(s) \in Nat
    BY <1>1, AllocatedIsNat DEF TypeOK, Rows
  <2>2. Allocated(s)' = Allocated(s) /\ quantity_allocated' = quantity_allocated
    BY <1>1 DEF ReadMismatches, vars, Allocated
  <2>3. counted'[s] = IF quantity_allocated[s] # Allocated(s)
                      THEN Allocated(s) ELSE Unread
    BY <1>1 DEF ReadMismatches
  <2> QED BY <2>1, <2>2, <2>3 DEF Unread
<1>2. ASSUME TasksTypeOK, ReadIsCurrent, WriteCounters
      PROVE  CounterIsExact' /\ ReadIsCurrent'
  <2>1. \A s \in Stocks : Allocated(s)' = Allocated(s)
    BY <1>2 DEF WriteCounters, Allocated
  <2>2. \A s \in Stocks : quantity_allocated'[s] =
          IF counted[s] = Unread THEN quantity_allocated[s] ELSE counted[s]
    BY <1>2 DEF WriteCounters
  <2>3. CounterIsExact'
    BY <1>2, <2>1, <2>2 DEF ReadIsCurrent, CounterIsExact
  <2>4. \A s \in Stocks : counted'[s] = Unread
    BY <1>2 DEF WriteCounters, NothingRead
  <2> QED BY <2>3, <2>4 DEF ReadIsCurrent, CounterIsExact
<1> QED BY <1>1, <1>2

(* Once the counters are exact and the task has read nothing stale, it     *)
(* never makes one wrong again for as long as it runs alone.               *)
THEOREM QuietCountersStayExact ==
  /\ TasksTypeOK /\ CounterIsExact /\ ReadIsCurrent
  /\ [][ReadMismatches \/ WriteCounters]_allVars
  => []CounterIsExact
<1> DEFINE Exact == TasksTypeOK /\ CounterIsExact /\ ReadIsCurrent
<1>1. ASSUME Exact, [ReadMismatches \/ WriteCounters]_allVars
      PROVE  Exact'
  <2>1. TasksTypeOK'
    BY <1>1, TasksTypeStep DEF TasksNext, TaskStep
  <2>2. CASE ReadMismatches
    <3>1. CounterIsExact'
      BY <1>1, <2>2 DEF ReadMismatches, vars, CounterIsExact, Allocated
    <3>2. ReadIsCurrent'
      BY <1>1, <2>2, OneQuietRoundRepairs DEF TasksTypeOK
    <3> QED BY <2>1, <3>1, <3>2
  <2>3. CASE WriteCounters
    BY <1>1, <2>1, <2>3, OneQuietRoundRepairs
  <2>4. CASE UNCHANGED allVars
    BY <1>1, <2>1, <2>4 DEF allVars, taskVars, vars, CounterIsExact, ReadIsCurrent,
       Allocated
  <2> QED BY <1>1, <2>2, <2>3, <2>4
<1>2. Exact => CounterIsExact
  OBVIOUS
<1>3. Exact /\ [ReadMismatches \/ WriteCounters]_allVars => Exact'
  BY <1>1
<1> QED BY <1>2, <1>3, PTL
===============================================================================
