--------------------------- MODULE MemoWord_proofs ---------------------------
(***************************************************************************)
(* The mutexes of a shared memo are held as its steps say, no call reads   *)
(* an empty memo, and the memo implements the cell of MemoCell, for any    *)
(* number of threads and calls.                                            *)
(***************************************************************************)
EXTENDS MemoWord, TLAPS

-----------------------------------------------------------------------------
(***************************************************************************)
(* The inductive invariant.  A call that finds has_value reads without     *)
(* looking again, so the value must be there whenever has_value can be     *)
(* seen: it is missing only between two steps of one thread, which holds   *)
(* the mutex of has_value meanwhile.                                       *)
(***************************************************************************)
Storing(t) == pc[t] \in {"lock_has", "lock_value", "set_has", "set_value"}

ResultKept == \A t \in Thread : Storing(t) => val[t] \in Result

FlagMeansValue ==
    has_value => value # NoResult \/ \E t \in Thread : pc[t] = "set_value"

ValueStored ==
    \A t \in Thread : pc[t] \in {"unlock_value", "unlock_has", "read"} => value # NoResult

MemoInv == TypeOK /\ MutexesHeld /\ ResultKept /\ FlagMeansValue /\ ValueStored

\* An empty memo that nobody uses.
LEMMA InitMemo == MemoAssumption /\ Init => MemoInv
<1> SUFFICES ASSUME MemoAssumption, Init PROVE MemoInv
  OBVIOUS
<1> USE DEF Init, MemoAssumption
<1>1. TypeOK
  BY DEF TypeOK, Label
<1>2. MutexesHeld
  BY DEF MutexesHeld, HoldsHas, HoldsValue
<1>3. ResultKept /\ FlagMeansValue /\ ValueStored
  BY DEF ResultKept, Storing, FlagMeansValue, ValueStored
<1> QED
  BY <1>1, <1>2, <1>3 DEF MemoInv

\* Every step of every thread keeps the invariant.
LEMMA NextMemo == MemoAssumption /\ MemoInv /\ [Next]_vars => MemoInv'
<1> SUFFICES ASSUME MemoAssumption, MemoInv, [Next]_vars PROVE MemoInv'
  OBVIOUS
<1> USE DEF MemoAssumption, MemoInv, TypeOK, Label, Goto, memo, locks
<1>1. ASSUME NEW t \in Thread, NEW o \in Ops, Begin(t, o) PROVE MemoInv'
  <2>1. TypeOK'
    BY <1>1 DEF Begin, Result
  <2>2. MutexesHeld'
    BY <1>1 DEF Begin, MutexesHeld, HoldsHas, HoldsValue
  <2>3. ResultKept' /\ FlagMeansValue' /\ ValueStored'
    BY <1>1 DEF Begin, Result, MutexesHeld, HoldsHas, HoldsValue, ResultKept, Storing,
       FlagMeansValue, ValueStored
  <2> QED
    BY <2>1, <2>2, <2>3
<1>2. ASSUME NEW t \in Thread, Check(t) PROVE MemoInv'
  <2>1. TypeOK'
    BY <1>2 DEF Check, Result
  <2>2. MutexesHeld'
    BY <1>2 DEF Check, MutexesHeld, HoldsHas, HoldsValue
  <2>3. ResultKept' /\ FlagMeansValue' /\ ValueStored'
    BY <1>2 DEF Check, Result, MutexesHeld, HoldsHas, HoldsValue, ResultKept, Storing,
       FlagMeansValue, ValueStored
  <2> QED
    BY <2>1, <2>2, <2>3
<1>3. ASSUME NEW t \in Thread, Compute(t) PROVE MemoInv'
  <2>1. TypeOK'
    BY <1>3 DEF Compute, Result
  <2>2. MutexesHeld'
    BY <1>3 DEF Compute, MutexesHeld, HoldsHas, HoldsValue
  <2>3. ResultKept' /\ FlagMeansValue' /\ ValueStored'
    BY <1>3 DEF Compute, Result, MutexesHeld, HoldsHas, HoldsValue, ResultKept, Storing,
       FlagMeansValue, ValueStored
  <2> QED
    BY <2>1, <2>2, <2>3
<1>4. ASSUME NEW t \in Thread, ComputeFails(t) PROVE MemoInv'
  <2>1. TypeOK'
    BY <1>4 DEF ComputeFails, Result
  <2>2. MutexesHeld'
    BY <1>4 DEF ComputeFails, MutexesHeld, HoldsHas, HoldsValue
  <2>3. ResultKept' /\ FlagMeansValue' /\ ValueStored'
    BY <1>4 DEF ComputeFails, Result, MutexesHeld, HoldsHas, HoldsValue, ResultKept, Storing,
       FlagMeansValue, ValueStored
  <2> QED
    BY <2>1, <2>2, <2>3
<1>5. ASSUME NEW t \in Thread, LockHas(t) PROVE MemoInv'
  <2>1. TypeOK'
    BY <1>5 DEF LockHas, Result
  <2>2. MutexesHeld'
    BY <1>5 DEF LockHas, MutexesHeld, HoldsHas, HoldsValue
  <2>3. ResultKept' /\ FlagMeansValue' /\ ValueStored'
    BY <1>5 DEF LockHas, Result, MutexesHeld, HoldsHas, HoldsValue, ResultKept, Storing,
       FlagMeansValue, ValueStored
  <2> QED
    BY <2>1, <2>2, <2>3
<1>6. ASSUME NEW t \in Thread, LockValue(t) PROVE MemoInv'
  <2>1. TypeOK'
    BY <1>6 DEF LockValue, Result
  <2>2. MutexesHeld'
    BY <1>6 DEF LockValue, MutexesHeld, HoldsHas, HoldsValue
  <2>3. ResultKept' /\ FlagMeansValue' /\ ValueStored'
    BY <1>6 DEF LockValue, Result, MutexesHeld, HoldsHas, HoldsValue, ResultKept, Storing,
       FlagMeansValue, ValueStored
  <2> QED
    BY <2>1, <2>2, <2>3
<1>7. ASSUME NEW t \in Thread, SetHas(t) PROVE MemoInv'
  <2>1. TypeOK'
    BY <1>7 DEF SetHas, Result
  <2>2. MutexesHeld'
    BY <1>7 DEF SetHas, MutexesHeld, HoldsHas, HoldsValue
  <2>3. ResultKept' /\ FlagMeansValue' /\ ValueStored'
    BY <1>7 DEF SetHas, Result, MutexesHeld, HoldsHas, HoldsValue, ResultKept, Storing,
       FlagMeansValue, ValueStored
  <2> QED
    BY <2>1, <2>2, <2>3
<1>8. ASSUME NEW t \in Thread, SetValue(t) PROVE MemoInv'
  <2>1. TypeOK'
    BY <1>8 DEF SetValue, Result, ResultKept, Storing
  <2>2. MutexesHeld'
    BY <1>8 DEF SetValue, MutexesHeld, HoldsHas, HoldsValue
  <2>3. ResultKept' /\ FlagMeansValue' /\ ValueStored'
    BY <1>8 DEF SetValue, Result, MutexesHeld, HoldsHas, HoldsValue, ResultKept, Storing,
       FlagMeansValue, ValueStored
  <2> QED
    BY <2>1, <2>2, <2>3
<1>9. ASSUME NEW t \in Thread, UnlockValue(t) PROVE MemoInv'
  <2>1. TypeOK'
    BY <1>9 DEF UnlockValue, Result
  <2>2. MutexesHeld'
    BY <1>9 DEF UnlockValue, MutexesHeld, HoldsHas, HoldsValue
  <2>3. ResultKept' /\ FlagMeansValue' /\ ValueStored'
    BY <1>9 DEF UnlockValue, Result, MutexesHeld, HoldsHas, HoldsValue, ResultKept, Storing,
       FlagMeansValue, ValueStored
  <2> QED
    BY <2>1, <2>2, <2>3
<1>10. ASSUME NEW t \in Thread, UnlockHas(t) PROVE MemoInv'
  <2>1. TypeOK'
    BY <1>10 DEF UnlockHas, Result
  <2>2. MutexesHeld'
    BY <1>10 DEF UnlockHas, MutexesHeld, HoldsHas, HoldsValue
  <2>3. ResultKept' /\ FlagMeansValue' /\ ValueStored'
    BY <1>10 DEF UnlockHas, Result, MutexesHeld, HoldsHas, HoldsValue, ResultKept, Storing,
       FlagMeansValue, ValueStored
  <2> QED
    BY <2>1, <2>2, <2>3
<1>11. ASSUME NEW t \in Thread, Read(t) PROVE MemoInv'
  <2>1. TypeOK'
    BY <1>11 DEF Read, Result
  <2>2. MutexesHeld'
    BY <1>11 DEF Read, MutexesHeld, HoldsHas, HoldsValue
  <2>3. ResultKept' /\ FlagMeansValue' /\ ValueStored'
    BY <1>11 DEF Read, Result, MutexesHeld, HoldsHas, HoldsValue, ResultKept, Storing,
       FlagMeansValue, ValueStored
  <2> QED
    BY <2>1, <2>2, <2>3
<1>12. CASE UNCHANGED vars
  BY <1>12 DEF vars, MutexesHeld, HoldsHas, HoldsValue, ResultKept, Storing,
     FlagMeansValue, ValueStored
<1> QED
  BY <1>1, <1>2, <1>3, <1>4, <1>5, <1>6, <1>7, <1>8, <1>9, <1>10, <1>11, <1>12
  DEF Next, Step

\* The memo is always well formed, whatever the threads do.
THEOREM MemoInvariance == Spec => []MemoInv
<1>1. Init => MemoInv
  BY InitMemo, MemoAssumption
<1>2. MemoInv /\ [Next]_vars => MemoInv'
  BY NextMemo, MemoAssumption
<1> QED
  BY <1>1, <1>2, PTL DEF Spec

\* Type correctness of the memo and its callers.
THEOREM MemoTypes == Spec => []TypeOK
<1>1. MemoInv => TypeOK
  BY DEF MemoInv
<1> QED
  BY <1>1, MemoInvariance, PTL

\* Each mutex is held by exactly the thread between its lock and its drop.
THEOREM Mutexes == Spec => []MutexesHeld
<1>1. MemoInv => MutexesHeld
  BY DEF MemoInv
<1> QED
  BY <1>1, MemoInvariance, PTL

\* A call that reads finds a value: execute never pushes nothing.
THEOREM ReadersServed == Spec => []ReadsFindAValue
<1>1. MemoInv => ReadsFindAValue
  BY DEF MemoInv, ValueStored, ReadsFindAValue
<1> QED
  BY <1>1, MemoInvariance, PTL

\* The two mutexes protect the memo from every thread between them.
THEOREM MemoProtected == Spec => []MutexesProtect
<1>1. MutexesHeld /\ ReadsFindAValue => MutexesProtect
  BY DEF MutexesProtect
<1> QED
  BY <1>1, Mutexes, ReadersServed, PTL

-----------------------------------------------------------------------------
(***************************************************************************)
(* Refinement: storing the value is Store, reading it is Answer, starting  *)
(* a call is Forget, and every other step leaves the cell alone.           *)
(***************************************************************************)
\* A step of the memo is a step of the cell, or none.
LEMMA CellStep ==
    MemoInv /\ [Next]_vars => [Cell!Next]_<<value, pushed>>
<1> SUFFICES ASSUME MemoInv, [Next]_vars PROVE [Cell!Next]_<<value, pushed>>
  OBVIOUS
<1>1. ASSUME NEW t \in Thread, NEW o \in Ops, Begin(t, o) PROVE Cell!Next
  BY <1>1 DEF Begin, memo, Cell!Next, Cell!Forget
<1>2. ASSUME NEW t \in Thread, SetValue(t) PROVE Cell!Next
  <2>1. val[t] \in Result
    BY <1>2 DEF MemoInv, ResultKept, Storing, SetValue
  <2> QED
    BY <1>2, <2>1 DEF SetValue, Cell!Next, Cell!Store
<1>3. ASSUME NEW t \in Thread, Read(t) PROVE Cell!Next
  <2>1. value # NoResult
    BY <1>3 DEF MemoInv, ValueStored, Read
  <2> QED
    BY <1>3, <2>1 DEF Read, memo, Cell!Next, Cell!Answer
<1>4. ASSUME NEW t \in Thread,
             \/ Check(t) \/ Compute(t) \/ ComputeFails(t) \/ LockHas(t) \/ LockValue(t)
             \/ SetHas(t) \/ UnlockValue(t) \/ UnlockHas(t)
      PROVE  UNCHANGED <<value, pushed>>
  BY <1>4 DEF Check, Compute, ComputeFails, LockHas, LockValue, SetHas, UnlockValue,
     UnlockHas, memo
<1>5. CASE UNCHANGED vars
  BY <1>5 DEF vars, memo
<1> QED
  BY <1>1, <1>2, <1>3, <1>4, <1>5 DEF Next, Step

\* The shared memo implements the cell.
THEOREM MemoIsACell == Spec => ImplementsCell
<1>1. Init => Cell!Init
  BY DEF Init, Cell!Init
<1>2. MemoInv /\ [Next]_vars => [Cell!Next]_<<value, pushed>>
  BY CellStep
<1> QED
  BY <1>1, <1>2, MemoInvariance, PTL DEF Spec, ImplementsCell, Cell!Spec
=============================================================================
