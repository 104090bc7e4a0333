------------------------------ MODULE MemoWord ------------------------------
(***************************************************************************)
(* A memo word shared by the interpreters of several requests.             *)
(*                                                                         *)
(* make_interpreter clones the runtime modules for each request, but a     *)
(* module holds Arcs to its words: the ModuleMemoWord, and so its two      *)
(* mutexes has_value and value, are the same object in all of them, while  *)
(* spawn_blocking runs the requests on different threads.  The stacks are  *)
(* private.                                                                *)
(***************************************************************************)
EXTENDS Naturals

CONSTANTS
    Thread,
    Ops,          \* which of F, F! and F!@ the requests call
    Nobody,       \* owner of a free mutex
    NoResult,     \* None
    MaxCalls      \* bound: calls of the words, over all threads

\* Results are numbered as they are computed.
Result == Nat \ {0}

ASSUME MemoAssumption ==
    /\ Ops \subseteq {"call", "bang", "bangat"}
    /\ Nobody \notin Thread
    /\ NoResult \notin Result
    /\ MaxCalls \in Nat

VARIABLES
    has_value, value,        \* the data of the two mutexes
    has_owner, value_owner,  \* who holds them
    pc, op,                  \* where each thread is, and in which word
    val,                     \* the local variable val of refresh
    pushed,                  \* what the last call of the thread pushed
    results, calls

locks == <<has_owner, value_owner>>
memo  == <<has_value, value>>
vars  == <<memo, locks, pc, op, val, pushed, results, calls>>

Goto(t, label) == pc' = [pc EXCEPT ![t] = label]

Begin(t, o) ==
    /\ pc[t] = "idle" /\ calls < MaxCalls
    /\ calls' = calls + 1
    /\ op' = [op EXCEPT ![t] = o]
    /\ pushed' = [pushed EXCEPT ![t] = NoResult]
    /\ Goto(t, IF o = "call" THEN "check" ELSE "compute")
    /\ UNCHANGED <<memo, locks, val, results>>

\* The guard of has_value lives on while the word is refreshed.
CheckHoldingLock(t) ==
    /\ pc[t] = "check" /\ has_owner = Nobody
    /\ Goto(t, IF has_value THEN "read" ELSE "compute")
    /\ has_owner' = IF has_value THEN Nobody ELSE t
    /\ UNCHANGED <<memo, value_owner, op, val, pushed, results, calls>>

\* execute: let has_value = *self.has_value.lock().unwrap(), held for the read only.
Check(t) ==
    /\ pc[t] = "check" /\ has_owner = Nobody
    /\ Goto(t, IF has_value THEN "read" ELSE "compute")
    /\ UNCHANGED <<memo, locks, op, val, pushed, results, calls>>

\* has_value is set as soon as there is a result.
ComputePublished(t) ==
    /\ pc[t] = "compute"
    /\ results' = results + 1
    /\ val' = [val EXCEPT ![t] = results + 1]
    /\ has_value' = TRUE
    /\ Goto(t, "lock_has")
    /\ UNCHANGED <<value, locks, op, pushed, calls>>

\* refresh: word.execute, then stack_pop, with no mutex held.  What it pops is the
\* result, be it left there by the word or by the caller.
Compute(t) ==
    /\ pc[t] = "compute"
    /\ results' = results + 1
    /\ val' = [val EXCEPT ![t] = results + 1]
    /\ Goto(t, "lock_has")
    /\ UNCHANGED <<memo, locks, op, pushed, calls>>

\* A refresh that fails empties the memo.
ComputeFailsEmptied(t) ==
    /\ pc[t] = "compute"
    /\ has_value' = FALSE /\ value' = NoResult
    /\ Goto(t, "idle")
    /\ UNCHANGED <<locks, op, val, pushed, results, calls>>

\* The word fails or panics, or the stack is empty: the caller gets the error.
ComputeFails(t) ==
    /\ pc[t] = "compute"
    /\ Goto(t, "idle")
    /\ UNCHANGED <<memo, locks, op, val, pushed, results, calls>>

\* A lock that does not exclude.
LockHasShared(t) ==
    /\ pc[t] = "lock_has"
    /\ has_owner' = t
    /\ Goto(t, "lock_value")
    /\ UNCHANGED <<memo, value_owner, op, val, pushed, results, calls>>

LockHas(t) ==
    /\ pc[t] = "lock_has" /\ has_owner = Nobody
    /\ has_owner' = t
    /\ Goto(t, "lock_value")
    /\ UNCHANGED <<memo, value_owner, op, val, pushed, results, calls>>

LockValue(t) ==
    /\ pc[t] = "lock_value" /\ value_owner = Nobody
    /\ value_owner' = t
    /\ Goto(t, "set_has")
    /\ UNCHANGED <<memo, has_owner, op, val, pushed, results, calls>>

SetHas(t) ==
    /\ pc[t] = "set_has"
    /\ has_value' = TRUE
    /\ Goto(t, "set_value")
    /\ UNCHANGED <<value, locks, op, val, pushed, results, calls>>

SetValue(t) ==
    /\ pc[t] = "set_value"
    /\ value' = val[t]
    /\ Goto(t, "unlock_value")
    /\ UNCHANGED <<has_value, locks, op, val, pushed, results, calls>>

\* The guards are dropped in the reverse order of their declaration.
UnlockValue(t) ==
    /\ pc[t] = "unlock_value"
    /\ value_owner' = Nobody
    /\ Goto(t, "unlock_has")
    /\ UNCHANGED <<memo, has_owner, op, val, pushed, results, calls>>

\* F! goes on to push the value, like F!@.
UnlockHasAndRead(t) ==
    /\ pc[t] = "unlock_has"
    /\ has_owner' = Nobody
    /\ Goto(t, "read")
    /\ UNCHANGED <<memo, value_owner, op, val, pushed, results, calls>>

UnlockHas(t) ==
    /\ pc[t] = "unlock_has"
    /\ has_owner' = Nobody
    /\ Goto(t, IF op[t] = "bang" THEN "idle" ELSE "read")
    /\ UNCHANGED <<memo, value_owner, op, val, pushed, results, calls>>

\* execute and F!@: push the value if there is one.
Read(t) ==
    /\ pc[t] = "read" /\ value_owner = Nobody
    /\ pushed' = [pushed EXCEPT ![t] = value]
    /\ Goto(t, "idle")
    /\ UNCHANGED <<memo, locks, op, val, results, calls>>

Step(t) ==
    \/ Check(t) \/ Compute(t) \/ ComputeFails(t)
    \/ LockHas(t) \/ LockValue(t) \/ SetHas(t) \/ SetValue(t)
    \/ UnlockValue(t) \/ UnlockHas(t) \/ Read(t)

Init ==
    /\ has_value = FALSE /\ value = NoResult
    /\ has_owner = Nobody /\ value_owner = Nobody
    /\ pc = [t \in Thread |-> "idle"]
    /\ op = [t \in Thread |-> "call"]
    /\ val = [t \in Thread |-> NoResult]
    /\ pushed = [t \in Thread |-> NoResult]
    /\ results = 0 /\ calls = 0

Next == \E t \in Thread : Step(t) \/ \E o \in Ops : Begin(t, o)

Spec == Init /\ [][Next]_vars

\* Every thread of the pool is scheduled; calls come only MaxCalls times, so a
\* thread that waits for a mutex is not overtaken for ever.
FairSpec == Spec /\ \A t \in Thread : WF_vars(Step(t))

-----------------------------------------------------------------------------
Label == {"idle", "check", "compute", "lock_has", "lock_value", "set_has",
          "set_value", "unlock_value", "unlock_has", "read"}

\* Type invariant of the memo and its callers; F! pushes nothing.
TypeOK ==
    /\ has_value \in BOOLEAN
    /\ value \in Result \cup {NoResult}
    /\ has_owner \in Thread \cup {Nobody}
    /\ value_owner \in Thread \cup {Nobody}
    /\ pc \in [Thread -> Label]
    /\ op \in [Thread -> {"call", "bang", "bangat"}]
    /\ val \in [Thread -> Result \cup {NoResult}]
    /\ pushed \in [Thread -> Result \cup {NoResult}]
    /\ results \in Nat
    /\ calls \in Nat
    /\ \A t \in Thread : op[t] = "bang" => pc[t] \notin {"check", "read"} /\ pushed[t] = NoResult

\* The mutexes of the memo are held by exactly the thread that is between locking
\* and dropping them; in particular none is held while the memoized word runs
\* (it may call this memo again) or when a call ends, failed ones included.
HoldsHas(t)   == pc[t] \in {"lock_value", "set_has", "set_value", "unlock_value", "unlock_has"}
HoldsValue(t) == pc[t] \in {"set_has", "set_value", "unlock_value"}

MutexesHeld ==
    \A t \in Thread : /\ HoldsHas(t) <=> has_owner = t
                      /\ HoldsValue(t) <=> value_owner = t

\* execute does "if let Some(val)": it would silently push nothing if has_value
\* could be seen set before the value is there.  A call never reads an empty
\* memo, whatever the other threads are doing and however their calls failed.
ReadsFindAValue == \A t \in Thread : pc[t] = "read" => value # NoResult

\* The two mutexes together protect the memo: nobody reads past a guard that
\* another thread holds, and so no call reads a flag without its value.
MutexesProtect == MutexesHeld /\ ReadsFindAValue

\* The memo, two mutexes and six steps, is the one cell of MemoCell: every answer
\* is what the cell holds, and the cell is never emptied.
Cell == INSTANCE MemoCell WITH cell <- value, answer <- pushed
ImplementsCell == Cell!Spec

\* Every call ends: no thread waits for ever for a mutex of the memo.
EveryCallEnds == \A t \in Thread : pc[t] # "idle" ~> pc[t] = "idle"

-----------------------------------------------------------------------------
\* module.rs, ModuleMemoWord: "Executes the wrapped word once and caches the
\* result".  While nobody asks for a refresh, it is computed once.
ExecutedOnce ==
    Ops = {"call"} => results <= 1
=============================================================================
