-------------------------- MODULE KernelLockProofs --------------------------
(***************************************************************************)
(* Proofs about the big kernel lock (smp/lock.h) and the remote calls made *)
(* under it (smp/ipi.c, aarch/smp/ipi.c), for any finite set of cores and  *)
(* any number of calls: the variables keep their types, the CLH queue      *)
(* excludes, and what QueueInv and BarrierInv say of the queue and of the  *)
(* barrier of ipi_wait holds of every step.                                *)
(***************************************************************************)
EXTENDS KernelLock, FiniteSetTheorems, TLAPS

(* Every variable keeps its type: no step of a core, in the lock, in         *)
(* ipi_wait or in handleIPI, produces a value outside its C type.            *)
THEOREM TypeCorrect == Spec => []TypeOK
<1> USE CoresAssumption, BoundAssumption DEF TypeOK, Requests, Calls, NoCall
<1>1. Init => TypeOK
  BY DEF Init, PCs
<1>2. TypeOK /\ [Next]_vars => TypeOK'
  <2> SUFFICES ASSUME TypeOK, [Next]_vars
               PROVE  TypeOK'
    OBVIOUS
  <2>1. CASE UNCHANGED vars
    BY <2>1, Zenon DEF vars, lockVars, ipiVars, barrierVars, localVars, waitVars, maskVars,
       nodeVars
  <2> USE DEF lockVars, ipiVars, barrierVars, localVars, waitVars, maskVars, nodeVars, goto,
              PCs, Waiting, Holding, InIpiWait, InHandler
  <2>2. ASSUME NEW c \in Cores, SysEntry(c) PROVE TypeOK'
    BY <2>2, Zenon DEF SysEntry
  <2>3. ASSUME NEW c \in Cores, IrqEntry(c) PROVE TypeOK'
    BY <2>3, Zenon DEF IrqEntry
  <2>4. ASSUME NEW c \in Cores, RemoteCallEntry(c) PROVE TypeOK'
    BY <2>4, Zenon DEF RemoteCallEntry
  <2>5. ASSUME NEW c \in Cores, Pend(c) PROVE TypeOK'
    BY <2>5, Zenon DEF Pend
  <2>6. ASSUME NEW c \in Cores, Swap(c) PROVE TypeOK'
    BY <2>6, Zenon DEF Swap
  <2>7. ASSUME NEW c \in Cores, Enter(c) PROVE TypeOK'
    BY <2>7, Zenon DEF Enter
  <2>8. ASSUME NEW c \in Cores, SpinIPI(c) PROVE TypeOK'
    BY <2>8, Zenon DEF SpinIPI
  <2>9. ASSUME NEW c \in Cores, Load(c) PROVE TypeOK'
    BY <2>9, Zenon DEF Load
  <2>10. ASSUME NEW c \in Cores, Check(c) PROVE TypeOK'
    <3>1. CASE ipi[c]
      BY <2>10, <3>1, ZenonT(60) DEF Check
    <3>2. CASE ~ipi[c]
      <4>1. /\ pc' = [pc EXCEPT ![c] = ret[c]] /\ ret' = [ret EXCEPT ![c] = "User"]
            /\ call' = [call EXCEPT ![c] = NoCall]
            /\ UNCHANGED <<lockVars, ipiVars, nodeVars, irqPath, waitVars, maskVars, ops>>
        BY <2>10, <3>2, Zenon DEF Check, return
      <4>2. ret[c] \in PCs
        BY Zenon
      <4> QED
        BY <4>1, <4>2, Zenon
    <3> QED
      BY <3>1, <3>2, Zenon
  <2>11. ASSUME NEW c \in Cores, Exec(c) PROVE TypeOK'
    BY <2>11, ZenonT(60) DEF Exec
  <2>12. ASSUME NEW c \in Cores, Clear(c) PROVE TypeOK'
    BY <2>12, Zenon DEF Clear
  <2>13. ASSUME NEW c \in Cores, WaitRead(c) PROVE TypeOK'
    BY <2>13, Zenon DEF WaitRead
  <2>14. ASSUME NEW c \in Cores, WaitAdd(c) PROVE TypeOK'
    BY <2>14 DEF WaitAdd
  <2>15. ASSUME NEW c \in Cores, Reset(c) PROVE TypeOK'
    BY <2>15, Zenon DEF Reset
  <2>16. ASSUME NEW c \in Cores, Flip(c) PROVE TypeOK'
    BY <2>16 DEF Flip
  <2>17. ASSUME NEW c \in Cores, Wait(c) PROVE TypeOK'
    BY <2>17, Zenon DEF Wait, return
  <2>18. ASSUME NEW c \in Cores, doRemoteMaskOp(c) PROVE TypeOK'
    <3>1. PICK f \in Funcs, m \in SUBSET (Cores \ {c}) :
            /\ remoteCall' = [func |-> f, id |-> ops + 1]
            /\ totalCoreBarrier' = Cardinality(m)
            /\ mask' = [mask EXCEPT ![c] = m]
            /\ target_cores' = [target_cores EXCEPT ![c] = m]
            /\ ipiReschedulePending' = IF f = "Stall"
                 THEN [ipiReschedulePending EXCEPT ![c] = @ \cup m]
                 ELSE ipiReschedulePending
      BY <2>18, Zenon DEF doRemoteMaskOp
    <3>2. Cardinality(m) \in Nat
      BY FS_Subset, FS_CardinalityType, Zenon
    <3> QED
      BY <2>18, <3>1, <3>2 DEF doRemoteMaskOp
  <2>19. ASSUME NEW c \in Cores, Flag(c) PROVE TypeOK'
    BY <2>19 DEF Flag
  <2>20. ASSUME NEW c \in Cores, Send(c) PROVE TypeOK'
    BY <2>20 DEF Send
  <2>21. ASSUME NEW c \in Cores, Exit(c) PROVE TypeOK'
    BY <2>21 DEF Exit
  <2>22. ASSUME NEW c \in Cores, Grant(c) PROVE TypeOK'
    BY <2>22, Zenon DEF Grant
  <2>23. ASSUME NEW c \in Cores, Take(c) PROVE TypeOK'
    BY <2>23, Zenon DEF Take
  <2> QED
    BY <2>1, <2>2, <2>3, <2>4, <2>5, <2>6, <2>7, <2>8, <2>9, <2>10, <2>11, <2>12, <2>13, <2>14,
       <2>15, <2>16, <2>17, <2>18, <2>19, <2>20, <2>21, <2>22, <2>23, ZenonT(60) DEF Next, Progress
<1> QED
  BY <1>1, <1>2, PTL DEF Spec

(* A core in the queue that watches a granted request watches the free one:  *)
(* the requests owned outside the queue are not watched, those owned inside  *)
(* are pending.                                                              *)
LEMMA GrantedIsFree ==
  ASSUME TypeOK, QueueInv, NEW c \in Cores, Enqueued(c), reqState[watch[c]] = "Granted"
  PROVE  Free(watch[c])
BY Zenon DEF Free, QueueInv, OutsideUnwatched, StatesMatch

(* Only one core in the queue can leave the spin loop of clh_lock_acquire.   *)
LEMMA OneGranted ==
  ASSUME TypeOK, QueueInv, NEW c \in Cores, NEW d \in Cores,
         Enqueued(c), Enqueued(d),
         reqState[watch[c]] = "Granted", reqState[watch[d]] = "Granted"
  PROVE  c = d
<1>1. watch[c] \in Requests /\ watch[d] \in Requests
  BY Zenon DEF TypeOK
<1>2. Free(watch[c]) /\ Free(watch[d])
  BY GrantedIsFree, Zenon
<1> QED
  BY <1>1, <1>2, Zenon DEF QueueInv, OneFree, WatchedDistinct

(* A core that holds the lock is in the queue.                               *)
LEMMA HolderEnqueued ==
  ASSUME NEW c \in Cores, HoldsLock(c) PROVE Enqueued(c)
BY Zenon DEF HoldsLock, Enqueued

(* The shape of the queue implies mutual exclusion.                          *)
LEMMA QueueInvExcludes == TypeOK /\ QueueInv => MutualExclusion
BY OneGranted, HolderEnqueued, Zenon DEF MutualExclusion, QueueInv, HolderGranted

(* Steps that leave the queue alone: every access of handleIPI, ipi_wait and *)
(* doRemoteMaskOp, and the entry of a core.                                  *)
LEMMA QueueUntouched ==
  ASSUME QueueInv, UNCHANGED lockVars,
         \A c \in Cores : /\ Enqueued(c)' = Enqueued(c)
                          /\ (pc[c] = "Take")' = (pc[c] = "Take")
                          /\ (pc[c] = "Swap")' = (pc[c] = "Swap")
                          /\ HoldsLock(c)' => HoldsLock(c)
                          /\ (pc[c] \in InHandler)' => ret'[c] # "Hold"
  PROVE  QueueInv'
<1>1. \A c \in Cores : Own(c)' = Own(c)
  BY Zenon DEF Own, lockVars
<1>2. \A r : Free(r)' = Free(r)
  BY <1>1, Zenon DEF Free
<1>3. OwnersDistinct' /\ OutsideUnwatched' /\ WatchedDistinct' /\ OneFree'
  BY <1>1, <1>2 DEF QueueInv, OwnersDistinct, OutsideUnwatched, WatchedDistinct, OneFree,
                    lockVars, Requests
<1>4. StatesMatch' /\ HolderGranted' /\ HandlerReturns'
  BY <1>1 DEF QueueInv, StatesMatch, HolderGranted, HandlerReturns, lockVars
<1> QED
  BY <1>3, <1>4, Zenon DEF QueueInv

(* While no ownership changes the free request stays the same.               *)
LEMMA OwnersKept ==
  ASSUME QueueInv, \A c \in Cores : Own(c)' = Own(c) PROVE OneFree'
<1>1. \A r : Free(r)' = Free(r)
  BY Zenon DEF Free
<1> QED
  BY <1>1, Zenon DEF QueueInv, OneFree, Requests

(* The queue of clh_lock_acquire and clh_lock_release keeps its shape in     *)
(* every step of every core.                                                 *)
THEOREM QueueInvariant == Spec => []QueueInv
<1>1. Init => QueueInv
  <2> SUFFICES ASSUME Init PROVE QueueInv
    OBVIOUS
  <2>1. \A c \in Cores : Own(c) = c /\ ~Enqueued(c) /\ ~HoldsLock(c) /\ pc[c] = "User"
    BY Zenon DEF Init, Own, Enqueued, HoldsLock, Waiting, Holding, InHandler, InIpiWait
  <2> QED
    BY <2>1, SpareAssumption, Zenon DEF Init, QueueInv, OwnersDistinct, OutsideUnwatched,
         WatchedDistinct, OneFree, StatesMatch, HolderGranted, HandlerReturns, Free,
         Requests, InHandler
<1>2. TypeOK /\ QueueInv /\ [Next]_vars => QueueInv'
  <2> SUFFICES ASSUME TypeOK, QueueInv, [Next]_vars PROVE QueueInv'
    OBVIOUS
  <2>0. CASE UNCHANGED vars
    BY <2>0, QueueUntouched, Zenon
    DEF vars, lockVars, localVars, Enqueued, HoldsLock, QueueInv, HandlerReturns
  <2> USE DEF TypeOK, Requests, goto
  <2>1. ASSUME NEW c \in Cores, Pend(c) PROVE QueueInv'
    <3>1. /\ ~Enqueued(c) /\ Own(c) = myreq[c] /\ pc[c] = "Pend"
          /\ \A d \in Cores : /\ Own(d)' = Own(d) /\ Enqueued(d)' = Enqueued(d)
                              /\ HoldsLock(d)' = HoldsLock(d)
          /\ \A d \in Cores \ {c} : pc'[d] = pc[d]
          /\ pc'[c] = "Swap" /\ ret' = ret /\ tail' = tail /\ watch' = watch
          /\ reqState' = [reqState EXCEPT ![myreq[c]] = "Pending"]
      BY <2>1, Zenon DEF Pend, Own, Enqueued, HoldsLock, lockVars, localVars,
                  Waiting, Holding, InHandler, InIpiWait
    <3>2. OwnersDistinct'
      BY <3>1, HolderEnqueued DEF QueueInv, OwnersDistinct
    <3>3. OutsideUnwatched'
      BY <3>1, HolderEnqueued DEF QueueInv, OutsideUnwatched, OwnersDistinct, WatchedDistinct
    <3>4. WatchedDistinct'
      BY <3>1, HolderEnqueued, Zenon DEF QueueInv, WatchedDistinct, OutsideUnwatched
    <3>5. OneFree'
      BY <3>1, OwnersKept, Zenon
    <3>6. StatesMatch'
      BY <3>1, HolderEnqueued DEF QueueInv, StatesMatch, OwnersDistinct
    <3>7. HolderGranted'
      BY <3>1, HolderEnqueued DEF QueueInv, HolderGranted, OutsideUnwatched
    <3>8. HandlerReturns'
      BY <3>1, HolderEnqueued, Zenon DEF QueueInv, HandlerReturns, InHandler
    <3> QED
      BY <3>2, <3>3, <3>4, <3>5, <3>6, <3>7, <3>8, Zenon DEF QueueInv
  <2>2. ASSUME NEW c \in Cores, Swap(c) PROVE QueueInv'
    <3>1. /\ ~Enqueued(c) /\ Enqueued(c)' /\ ~HoldsLock(c)' /\ Own(c) = myreq[c]
          /\ \A d \in Cores : Own(d)' = Own(d)
          /\ \A d \in Cores \ {c} : /\ Enqueued(d)' = Enqueued(d)
                                    /\ HoldsLock(d)' = HoldsLock(d)
                                    /\ pc'[d] = pc[d] /\ watch'[d] = watch[d]
          /\ pc[c] = "Swap" /\ pc'[c] = "Spin" /\ watch'[c] = tail /\ tail' = myreq[c]
          /\ ret' = ret /\ reqState' = reqState
      BY <2>2, Zenon DEF Swap, Own, Enqueued, HoldsLock, lockVars, localVars,
                  Waiting, Holding, InHandler, InIpiWait
    <3>2. OwnersDistinct'
      BY <3>1 DEF QueueInv, OwnersDistinct
    <3>3. OutsideUnwatched'
      BY <3>1 DEF QueueInv, OutsideUnwatched, OwnersDistinct, WatchedDistinct
    <3>4. WatchedDistinct'
      BY <3>1 DEF QueueInv, WatchedDistinct, OutsideUnwatched
    <3>5. OneFree'
      BY <3>1, OwnersKept, Zenon
    <3>6. StatesMatch'
      BY <3>1 DEF QueueInv, StatesMatch, OwnersDistinct
    <3>7. HolderGranted'
      BY <3>1, ZenonT(60) DEF QueueInv, HolderGranted, OutsideUnwatched
    <3>8. HandlerReturns'
      BY <3>1, Zenon DEF QueueInv, HandlerReturns, InHandler
    <3> QED
      BY <3>2, <3>3, <3>4, <3>5, <3>6, <3>7, <3>8, Zenon DEF QueueInv
  <2>3. ASSUME NEW c \in Cores, Enter(c) PROVE QueueInv'
    <3>1. /\ Enqueued(c) /\ Enqueued(c)' /\ reqState[watch[c]] = "Granted"
          /\ \A d \in Cores : Own(d)' = Own(d) /\ Enqueued(d)' = Enqueued(d)
          /\ \A d \in Cores \ {c} : HoldsLock(d)' = HoldsLock(d) /\ pc'[d] = pc[d]
          /\ pc'[c] \in {"Hold", "Grant"} /\ ret' = ret /\ UNCHANGED lockVars
      BY <2>3, Zenon DEF Enter, Own, Enqueued, HoldsLock, lockVars, localVars,
                  Waiting, Holding, InHandler, InIpiWait
    <3>2. OwnersDistinct'
      BY <3>1 DEF QueueInv, OwnersDistinct, lockVars
    <3>3. OutsideUnwatched'
      BY <3>1 DEF QueueInv, OutsideUnwatched, OwnersDistinct, WatchedDistinct, lockVars
    <3>4. WatchedDistinct'
      BY <3>1, Zenon DEF QueueInv, WatchedDistinct, OutsideUnwatched, lockVars
    <3>5. OneFree'
      BY <3>1, OwnersKept, Zenon
    <3>6. StatesMatch'
      BY <3>1 DEF QueueInv, StatesMatch, OwnersDistinct, lockVars
    <3>7. HolderGranted'
      BY <3>1, Zenon DEF QueueInv, HolderGranted, OutsideUnwatched, lockVars
    <3>8. HandlerReturns'
      BY <3>1, Zenon DEF QueueInv, HandlerReturns, InHandler, lockVars
    <3> QED
      BY <3>2, <3>3, <3>4, <3>5, <3>6, <3>7, <3>8, Zenon DEF QueueInv
  <2>4. ASSUME NEW c \in Cores, Grant(c) PROVE QueueInv'
    <3>1. /\ Enqueued(c) /\ HoldsLock(c) /\ ~Enqueued(c)' /\ ~HoldsLock(c)'
          /\ Own(c) = myreq[c] /\ Own(c)' = watch[c] /\ pc'[c] = "Take"
          /\ \A d \in Cores \ {c} : /\ Own(d)' = Own(d) /\ Enqueued(d)' = Enqueued(d)
                                    /\ HoldsLock(d)' = HoldsLock(d) /\ pc'[d] = pc[d]
          /\ reqState' = [reqState EXCEPT ![myreq[c]] = "Granted"]
          /\ tail' = tail /\ watch' = watch /\ ret' = ret
      BY <2>4, Zenon DEF Grant, Own, Enqueued, HoldsLock, lockVars, localVars,
                  Waiting, Holding, InHandler, InIpiWait
    <3>2. Free(watch[c]) /\ reqState[watch[c]] = "Granted" /\ watch[c] \in Requests
      BY <3>1, GrantedIsFree, Zenon DEF QueueInv, HolderGranted
    <3>3. \A d \in Cores : Own(d) \in Requests
      BY Zenon DEF Own
    <3>4. OwnersDistinct'
      BY <3>1, <3>2, <3>3 DEF QueueInv, OwnersDistinct, Free
    <3>5. OutsideUnwatched'
      <4> SUFFICES ASSUME NEW e \in Cores, ~Enqueued(e)'
                   PROVE  /\ tail # Own(e)'
                          /\ \A d \in Cores : Enqueued(d)' => watch[d] # Own(e)'
        BY <3>1, Zenon DEF OutsideUnwatched
      <4>1. CASE e = c
        BY <3>1, <4>1, Zenon DEF QueueInv, WatchedDistinct
      <4>2. CASE e # c
        BY <3>1, <4>2, Zenon DEF QueueInv, OutsideUnwatched
      <4> QED
        BY <4>1, <4>2, Zenon
    <3>6. WatchedDistinct'
      BY <3>1, <3>2, <3>3, Zenon DEF QueueInv, WatchedDistinct, OutsideUnwatched
    <3>7. OneFree'
      <4>1. ASSUME NEW r \in Requests, Free(r)' PROVE r = myreq[c]
        <5>1. \A d \in Cores \ {c} : Own(d) # r
          BY <3>1, <4>1, Zenon DEF Free
        <5>2. r # watch[c]
          BY <3>1, <4>1, Zenon DEF Free
        <5>3. ~Free(r)
          BY <3>2, <5>2, Zenon DEF QueueInv, OneFree
        <5> QED
          BY <3>1, <5>1, <5>3, Zenon DEF Free
      <4> QED
        BY <4>1, Zenon DEF OneFree
    <3>8. StatesMatch'
      BY <3>1, <3>2, <3>3 DEF QueueInv, StatesMatch, OwnersDistinct
    <3>9. HolderGranted'
      BY <3>1, <3>2, <3>3, Zenon DEF QueueInv, HolderGranted, OutsideUnwatched
    <3>10. HandlerReturns'
      BY <3>1, <3>2, <3>3, ZenonT(60) DEF QueueInv, HandlerReturns, InHandler
    <3> QED
      BY <3>4, <3>5, <3>6, <3>7, <3>8, <3>9, <3>10, Zenon DEF QueueInv
  <2>5. ASSUME NEW c \in Cores, Take(c) PROVE QueueInv'
    <3>1. /\ \A d \in Cores : /\ Own(d)' = Own(d) /\ Enqueued(d)' = Enqueued(d)
                              /\ HoldsLock(d)' = HoldsLock(d)
          /\ \A d \in Cores \ {c} : pc'[d] = pc[d]
          /\ ~Enqueued(c) /\ pc[c] = "Take" /\ pc'[c] = "User" /\ ret' = ret
          /\ reqState' = reqState /\ tail' = tail /\ watch' = watch
      BY <2>5 DEF Take, Own, Enqueued, HoldsLock, lockVars, localVars,
                  Waiting, Holding, InHandler, InIpiWait
    <3>2. OwnersDistinct'
      BY <3>1 DEF QueueInv, OwnersDistinct
    <3>3. OutsideUnwatched'
      BY <3>1 DEF QueueInv, OutsideUnwatched, OwnersDistinct, WatchedDistinct
    <3>4. WatchedDistinct'
      BY <3>1, Zenon DEF QueueInv, WatchedDistinct, OutsideUnwatched
    <3>5. OneFree'
      BY <3>1, OwnersKept, Zenon
    <3>6. StatesMatch'
      BY <3>1 DEF QueueInv, StatesMatch, OwnersDistinct
    <3>7. HolderGranted'
      BY <3>1, Zenon DEF QueueInv, HolderGranted, OutsideUnwatched
    <3>8. HandlerReturns'
      BY <3>1, Zenon DEF QueueInv, HandlerReturns, InHandler
    <3> QED
      BY <3>2, <3>3, <3>4, <3>5, <3>6, <3>7, <3>8, Zenon DEF QueueInv
  <2> USE DEF Enqueued, HoldsLock, lockVars, ipiVars, localVars, waitVars,
              Waiting, Holding, InHandler, InIpiWait
  <2>6. ASSUME NEW c \in Cores, SysEntry(c) PROVE QueueInv'
    BY <2>6, QueueUntouched, Zenon DEF SysEntry, QueueInv, HandlerReturns
  <2>7. ASSUME NEW c \in Cores, IrqEntry(c) PROVE QueueInv'
    BY <2>7, QueueUntouched, Zenon DEF IrqEntry, QueueInv, HandlerReturns
  <2>8. ASSUME NEW c \in Cores, RemoteCallEntry(c) PROVE QueueInv'
    BY <2>8, QueueUntouched, ZenonT(60) DEF RemoteCallEntry, QueueInv, HandlerReturns
  <2>9. ASSUME NEW c \in Cores, SpinIPI(c) PROVE QueueInv'
    BY <2>9, QueueUntouched, ZenonT(60) DEF SpinIPI, QueueInv, HandlerReturns
  <2>10. ASSUME NEW c \in Cores, Load(c) PROVE QueueInv'
    BY <2>10, QueueUntouched DEF Load, QueueInv, HandlerReturns
  <2>11. ASSUME NEW c \in Cores, Check(c) PROVE QueueInv'
    BY <2>11, QueueUntouched, SMTT(30) DEF Check, QueueInv, HandlerReturns, return
  <2>12. ASSUME NEW c \in Cores, Exec(c) PROVE QueueInv'
    <3>1. ret[c] = "User" => ~clh_is_self_in_queue(c)
      BY <2>12, Zenon DEF Exec, QueueInv, StatesMatch, Own, clh_is_self_in_queue
    <3>2. /\ \A d \in Cores \ {c} : pc'[d] = pc[d] /\ ret'[d] = ret[d]
          /\ pc[c] = "Exec" /\ pc'[c] = "Clear" /\ UNCHANGED lockVars
          /\ ret'[c] = ret[c] \/ (ret'[c] = "StallSpin" /\ ret[c] # "User")
      BY <2>12, <3>1, ZenonT(60) DEF Exec
    <3> QED
      BY <3>2, QueueUntouched DEF QueueInv, HandlerReturns
  <2>13. ASSUME NEW c \in Cores, Clear(c) PROVE QueueInv'
    BY <2>13, QueueUntouched, ZenonT(60) DEF Clear, QueueInv, HandlerReturns
  <2>14. ASSUME NEW c \in Cores, WaitRead(c) PROVE QueueInv'
    BY <2>14, QueueUntouched, Zenon DEF WaitRead, QueueInv, HandlerReturns
  <2>15. ASSUME NEW c \in Cores, WaitAdd(c) PROVE QueueInv'
    BY <2>15, QueueUntouched, ZenonT(60) DEF WaitAdd, QueueInv, HandlerReturns
  <2>16. ASSUME NEW c \in Cores, Reset(c) PROVE QueueInv'
    BY <2>16, QueueUntouched, ZenonT(60) DEF Reset, QueueInv, HandlerReturns
  <2>17. ASSUME NEW c \in Cores, Flip(c) PROVE QueueInv'
    BY <2>17, QueueUntouched, Zenon DEF Flip, QueueInv, HandlerReturns
  <2>18. ASSUME NEW c \in Cores, Wait(c) PROVE QueueInv'
    BY <2>18, QueueUntouched, ZenonT(60) DEF Wait, QueueInv, HandlerReturns, return
  <2>19. ASSUME NEW c \in Cores, doRemoteMaskOp(c) PROVE QueueInv'
    <3>1. /\ \A d \in Cores \ {c} : pc'[d] = pc[d]
          /\ pc[c] \in Holding /\ pc'[c] \in Holding /\ ret' = ret /\ UNCHANGED lockVars
      BY <2>19 DEF doRemoteMaskOp
    <3> QED
      BY <3>1, QueueUntouched, ZenonT(60) DEF QueueInv, HandlerReturns
  <2>20. ASSUME NEW c \in Cores, Flag(c) PROVE QueueInv'
    <3>1. /\ \A d \in Cores \ {c} : pc'[d] = pc[d]
          /\ pc[c] \in Holding /\ pc'[c] \in Holding /\ ret' = ret /\ UNCHANGED lockVars
      BY <2>20, SMTT(30) DEF Flag
    <3> QED
      BY <3>1, QueueUntouched, Zenon DEF QueueInv, HandlerReturns
  <2>21. ASSUME NEW c \in Cores, Send(c) PROVE QueueInv'
    BY <2>21, QueueUntouched, SMTT(30) DEF Send, QueueInv, HandlerReturns
  <2>22. ASSUME NEW c \in Cores, Exit(c) PROVE QueueInv'
    <3>1. /\ \A d \in Cores \ {c} : pc'[d] = pc[d]
          /\ pc[c] \in Holding /\ pc'[c] \in Holding /\ ret' = ret /\ UNCHANGED lockVars
      BY <2>22, Zenon DEF Exit
    <3> QED
      BY <3>1, QueueUntouched, Zenon DEF QueueInv, HandlerReturns
  <2> QED
    BY <2>0, <2>1, <2>2, <2>3, <2>4, <2>5, <2>6, <2>7, <2>8, <2>9, <2>10, <2>11,
       <2>12, <2>13, <2>14, <2>15, <2>16, <2>17, <2>18, <2>19, <2>20, <2>21, <2>22, ZenonT(60) DEF Next, Progress
<1> QED
  BY <1>1, <1>2, TypeCorrect, PTL DEF Spec

(* Two cores are never both between acquiring and releasing the kernel lock. *)
THEOREM Exclusion == Spec => []MutualExclusion
BY TypeCorrect, QueueInvariant, QueueInvExcludes, PTL

-----------------------------------------------------------------------------
(* Remote calls *)

(* Where a core takes no part in a barrier and makes no remote call. *)
Outside == PCs \ ({"Flag", "Send"} \cup InIpiWait)

(* Only the holder of the lock makes a remote call.                          *)
LEMMA InitiatorHolds ==
  ASSUME NEW c \in Cores, Initiates(c) PROVE HoldsLock(c)
BY Zenon DEF Initiates, HoldsLock, Holding

(* While a core holds the lock outside doRemoteMaskOp no call has members.   *)
LEMMA NoMembers ==
  ASSUME TypeOK, MutualExclusion, BarrierInv, NEW h \in Cores, pc[h] \in {"Hold", "Grant"}
  PROVE  Members = {}
<1>1. HoldsLock(h) /\ ~Initiates(h)
  BY Zenon DEF HoldsLock, Holding, Initiates, InIpiWait
<1>2. \A g \in Members : g \in Cores
  BY Zenon DEF Members, Due, Arrived
<1> QED
  BY <1>1, <1>2, InitiatorHolds, Zenon DEF BarrierInv, BarrierCounts, MutualExclusion

(* What a core is due to do, and who has arrived, are finite sets of cores.  *)
LEMMA MembersFinite ==
  /\ IsFiniteSet(Due) /\ IsFiniteSet(Arrived) /\ IsFiniteSet(Members)
  /\ Cardinality(Due) \in Nat /\ Cardinality(Arrived) \in Nat /\ Cardinality(Members) \in Nat
<1>1. Due \subseteq Cores /\ Arrived \subseteq Cores /\ Members \subseteq Cores
  BY Zenon DEF Due, Arrived, Members
<1> QED
  BY <1>1, CoresAssumption, FS_Subset, FS_CardinalityType, Zenon

(* Steps of cores that are not in the barrier and do not enter it.           *)
LEMMA BarrierUntouched ==
  ASSUME TypeOK, BarrierInv, StalledIdle',
         UNCHANGED <<ipi, mask, totalCoreBarrier, count, globalsense, cores, localsense>>,
         \A c \in Cores : /\ pc'[c] = pc[c] \/ (pc[c] \in Outside /\ pc'[c] \in Outside)
                          /\ pc[c] \in InIpiWait => ret'[c] = ret[c]
                          /\ pc'[c] \in {"Exec", "Clear"} => ipi[c]
  PROVE  BarrierInv'
<1> USE DEF Outside, InIpiWait
<1>1. \A c \in Cores : Asked(c)' = Asked(c) /\ ToFlag(c)' = ToFlag(c) /\ Initiates(c)' = Initiates(c)
  BY Zenon DEF Asked, ToFlag, Initiates
<1>2. Due' = Due /\ Arrived' = Arrived
  BY <1>1, Zenon DEF Due, Arrived
<1>3. Members' = Members
  BY <1>2, Zenon DEF Members
<1>4. \A c \in Cores : (pc[c] \in {"Reset", "Flip"})' = (pc[c] \in {"Reset", "Flip"})
                       /\ (pc[c] = "Flip")' = (pc[c] = "Flip")
  OBVIOUS
<1>5. AskedOnce'
  BY <1>1, <1>2, Zenon DEF BarrierInv, AskedOnce
<1>6. LocalsCurrent'
  BY Zenon DEF BarrierInv, LocalsCurrent
<1>7. BarrierCounts'
  <2>1. \A c \in Members : c \in Cores
    BY Zenon DEF Members, Due, Arrived
  <2> QED BY <1>1, <1>2, <1>3, <1>4, <2>1, Zenon DEF BarrierInv, BarrierCounts
<1> QED BY <1>5, <1>6, <1>7, Zenon DEF BarrierInv

(* Steps of a core outside the barrier: in user mode, in the lock queue, in  *)
(* handleIPI, and in the kernel before and after a remote call.              *)
LEMMA ApartStep ==
  ASSUME TypeOK, BarrierInv, MutualExclusion, HandlerReturns, NEW c \in Cores,
         \/ SysEntry(c) \/ IrqEntry(c) \/ RemoteCallEntry(c) \/ Pend(c) \/ Swap(c) \/ Enter(c)
         \/ SpinIPI(c) \/ Load(c) \/ Check(c) \/ Exec(c) \/ Exit(c) \/ Grant(c) \/ Take(c)
  PROVE  BarrierInv'
<1> USE DEF goto, lockVars, ipiVars, barrierVars, localVars, waitVars, maskVars, nodeVars
<1> DEFINE Apart ==
      /\ UNCHANGED <<ipi, mask, remoteCall, totalCoreBarrier, count, globalsense, cores, localsense>>
      /\ pc[c] \in Outside /\ pc'[c] \in Outside
      /\ pc'[c] \in {"Exec", "Clear"} => ipi[c]
      /\ \A d \in Cores \ {c} : pc'[d] = pc[d] /\ ret'[d] = ret[d] /\ ksIdle'[d] = ksIdle[d]
<1>1. ASSUME Apart,
             (pc'[c] = "StallSpin" \/ (pc'[c] \in InHandler /\ ret'[c] = "StallSpin")) => ksIdle'[c],
             ksIdle'[c] = ksIdle[c] \/ pc'[c] = "Clear" \/ ~Asked(c),
             pc[c] = "Clear" => pc'[c] = "Clear"
      PROVE  BarrierInv'
  <2>1. \A d \in Cores : Asked(d)' = Asked(d)
    BY <1>1, Zenon DEF Asked, ToFlag
  <2>2. StalledIdle'
    BY <1>1, <2>1, Zenon DEF BarrierInv, StalledIdle, Outside, InIpiWait
  <2> QED BY <1>1, <2>2, BarrierUntouched, Zenon DEF Outside, BarrierInv, AskedOnce
<1> USE DEF TypeOK, Outside, PCs, Waiting, Holding, InIpiWait, InHandler
<1>2. CASE SysEntry(c)
  BY <1>1, <1>2, Zenon DEF SysEntry
<1>3. CASE IrqEntry(c)
  BY <1>1, <1>3, Zenon DEF IrqEntry
<1>4. CASE RemoteCallEntry(c)
  BY <1>1, <1>4, Zenon DEF RemoteCallEntry
<1>5. CASE Pend(c)
  BY <1>1, <1>5, Zenon DEF Pend
<1>6. CASE Swap(c)
  BY <1>1, <1>6, Zenon DEF Swap
<1>7. CASE Enter(c)
  BY <1>1, <1>7, Zenon DEF Enter
<1>8. CASE SpinIPI(c)
  BY <1>1, <1>8, ZenonT(60) DEF SpinIPI, BarrierInv, StalledIdle
<1>9. CASE Load(c)
  BY <1>1, <1>9, Zenon DEF Load, BarrierInv, StalledIdle
<1>10. CASE Check(c)
  <2>1. CASE ipi[c]
    BY <1>1, <1>10, <2>1, SMTT(30) DEF Check, BarrierInv, StalledIdle
  <2>2. CASE ~ipi[c]
    BY <1>1, <1>10, <2>2 DEF Check, return, BarrierInv, StalledIdle, HandlerReturns
  <2> QED BY <2>1, <2>2, ZenonT(60)
<1>11. CASE Exec(c)
  <2>1. /\ pc[c] = "Exec" /\ ipi[c] /\ pc'[c] = "Clear"
        /\ \A d \in Cores \ {c} : pc'[d] = pc[d] /\ ret'[d] = ret[d] /\ ksIdle'[d] = ksIdle[d]
        /\ UNCHANGED <<ipi, mask, remoteCall, totalCoreBarrier, count, globalsense, cores, localsense>>
    BY <1>11 DEF Exec, BarrierInv, AskedOnce
  <2>2. ret'[c] = "StallSpin" => ksIdle'[c]
    BY <1>11, Zenon DEF Exec, BarrierInv, StalledIdle
  <2> QED BY <1>1, <2>1, <2>2, ZenonT(60)
<1>12. CASE Exit(c)
  <2>1. ~Asked(c)
    BY <1>12, NoMembers, Zenon DEF Exit, Members, Due
  <2> QED BY <1>1, <1>12, <2>1, Zenon DEF Exit
<1>13. CASE Grant(c)
  BY <1>1, <1>13, Zenon DEF Grant
<1>14. CASE Take(c)
  BY <1>1, <1>14, Zenon DEF Take
<1> QED
  BY <1>2, <1>3, <1>4, <1>5, <1>6, <1>7, <1>8, <1>9, <1>10, <1>11, <1>12, <1>13, <1>14, ZenonT(60)

(* Steps of a member, or of a core released from an earlier barrier, that    *)
(* leave it due or arrived as it was.                                        *)
LEMMA MembersKept ==
  ASSUME TypeOK, BarrierInv, UNCHANGED <<totalCoreBarrier, count>>, Due' = Due, Arrived' = Arrived,
         \A c \in Cores : /\ pc'[c] \in {"Reset", "Flip"} <=> pc[c] \in {"Reset", "Flip"}
                          /\ pc'[c] = "Flip" <=> pc[c] = "Flip"
                          /\ Initiates(c) /\ c \in Members => Initiates(c)'
  PROVE  BarrierCounts'
<1>1. Members' = Members
  BY Zenon DEF Members
<1>2. \A c \in Members : c \in Cores
  BY Zenon DEF Members, Due, Arrived
<1> QED BY <1>1, <1>2, Zenon DEF BarrierInv, BarrierCounts

(* The target clears its flag when it has executed the call: it stays due.   *)
LEMMA ClearStep ==
  ASSUME TypeOK, BarrierInv, HandlerReturns, NEW c \in Cores, Clear(c) PROVE BarrierInv'
<1> USE DEF Clear, goto, barrierVars, localVars, waitVars, maskVars, nodeVars
<1>1. /\ pc[c] = "Clear" /\ pc'[c] = "WaitRead" /\ ~ipi'[c] /\ ipi[c] /\ ~ToFlag(c) /\ ret[c] # "Hold"
      /\ \A d \in Cores \ {c} : pc'[d] = pc[d] /\ ipi'[d] = ipi[d]
      /\ UNCHANGED <<mask, remoteCall, totalCoreBarrier, count, globalsense, cores, localsense, ret, ksIdle>>
  BY Zenon DEF TypeOK, BarrierInv, AskedOnce, HandlerReturns, InHandler
<1> HIDE DEF Clear
<1>2. \A d \in Cores : ToFlag(d)' = ToFlag(d)
  BY <1>1, Zenon DEF ToFlag
<1>3. ~Asked(c)' /\ ~Initiates(c)' /\ \A d \in Cores \ {c} : Asked(d)' = Asked(d)
  BY <1>1, <1>2, Zenon DEF Asked, Initiates
<1>4. \A d \in Cores : Initiates(d)' = Initiates(d)
  BY <1>1, Zenon DEF Initiates, InIpiWait
<1>5. Due' = Due
  BY <1>1, <1>3, Zenon DEF Due, Asked
<1>6. Arrived' = Arrived
  BY <1>1, Zenon DEF Arrived
<1>7. AskedOnce'
  BY <1>1, <1>2, <1>3, <1>4, <1>6, Zenon DEF BarrierInv, AskedOnce
<1>8. LocalsCurrent'
  BY <1>1, Zenon DEF BarrierInv, LocalsCurrent
<1>9. BarrierCounts'
  BY <1>1, <1>4, <1>5, <1>6, MembersKept, Zenon
<1>10. StalledIdle'
  BY <1>1, <1>3, Zenon DEF BarrierInv, StalledIdle, InHandler, InIpiWait
<1> QED BY <1>7, <1>8, <1>9, <1>10, Zenon DEF BarrierInv

(* The core reads how many are to arrive, and the sense of the barrier.      *)
LEMMA WaitReadStep ==
  ASSUME TypeOK, BarrierInv, NEW c \in Cores, WaitRead(c) PROVE BarrierInv'
<1> USE DEF WaitRead, goto, lockVars, ipiVars, barrierVars, maskVars, nodeVars
<1>1. /\ pc[c] = "WaitRead" /\ pc'[c] = "WaitAdd" /\ cores'[c] = totalCoreBarrier /\ localsense'[c] = globalsense
      /\ \A d \in Cores \ {c} : pc'[d] = pc[d] /\ cores'[d] = cores[d] /\ localsense'[d] = localsense[d]
      /\ UNCHANGED <<ipi, mask, remoteCall, totalCoreBarrier, count, globalsense, ret, ksIdle>>
  BY Zenon DEF TypeOK
<1> HIDE DEF WaitRead
<1>2. \A d \in Cores : ToFlag(d)' = ToFlag(d) /\ Asked(d)' = Asked(d) /\ Initiates(d)' = Initiates(d)
  BY <1>1, Zenon DEF ToFlag, Asked, Initiates, InIpiWait
<1>3. Due' = Due /\ Arrived' = Arrived
  BY <1>1, <1>2, Zenon DEF Due, Arrived
<1>4. AskedOnce'
  BY <1>1, <1>2, <1>3, Zenon DEF BarrierInv, AskedOnce
<1>5. LocalsCurrent'
  BY <1>1, Zenon DEF BarrierInv, LocalsCurrent
<1>6. BarrierCounts'
  BY <1>1, <1>2, <1>3, MembersKept, Zenon
<1>7. StalledIdle'
  BY <1>1, <1>2, Zenon DEF BarrierInv, StalledIdle, InIpiWait
<1> QED BY <1>4, <1>5, <1>6, <1>7, Zenon DEF BarrierInv

(* The core counts itself: it has arrived, and it is the last one exactly    *)
(* when no member is due any more.                                           *)
LEMMA WaitAddStep ==
  ASSUME TypeOK, BarrierInv, NEW c \in Cores, WaitAdd(c) PROVE BarrierInv'
<1> USE DEF WaitAdd, goto, lockVars, localVars, waitVars, maskVars, nodeVars
<1>1. /\ pc[c] = "WaitAdd" /\ pc'[c] = IF count = cores[c] THEN "Reset" ELSE "Wait"
      /\ count' = count + 1 /\ cores[c] = totalCoreBarrier /\ localsense[c] = globalsense
      /\ \A d \in Cores \ {c} : pc'[d] = pc[d]
      /\ UNCHANGED <<ipi, mask, remoteCall, totalCoreBarrier, globalsense, cores, localsense, ret, ksIdle>>
  BY Zenon DEF TypeOK, BarrierInv, LocalsCurrent
<1> HIDE DEF WaitAdd
<1>2. \A d \in Cores : ToFlag(d)' = ToFlag(d) /\ Asked(d)' = Asked(d) /\ Initiates(d)' = Initiates(d)
  BY <1>1, Zenon DEF ToFlag, Asked, Initiates, InIpiWait
<1>3. ~Asked(c) /\ c \in Due /\ c \notin Arrived
  BY <1>1, Zenon DEF BarrierInv, AskedOnce, Due, Arrived
<1>4. Due' = Due \ {c} /\ Arrived' = Arrived \cup {c}
  BY <1>1, <1>2, <1>3, Zenon DEF Due, Arrived
<1>5. Members' = Members /\ \A d \in Members : d \in Cores
  BY <1>3, <1>4, Zenon DEF Members, Due, Arrived
<1>6. \A d \in Cores : pc[d] \notin {"Reset", "Flip"}
  BY <1>3, Zenon DEF BarrierInv, BarrierCounts
<1>7. count = Cardinality(Arrived) /\ Cardinality(Members) = totalCoreBarrier + 1
  BY <1>3, <1>6, Zenon DEF BarrierInv, BarrierCounts, Members
<1>8. Cardinality(Arrived') = count + 1
  BY <1>3, <1>4, <1>7, MembersFinite, FS_AddElement, Zenon
<1>9. count = cores[c] => Due' = {}
  <2> SUFFICES ASSUME count = cores[c] PROVE Due' = {}
    OBVIOUS
  <2>1. Cardinality(Arrived') = Cardinality(Members) /\ Arrived' \subseteq Members
    BY <1>1, <1>4, <1>5, <1>7, <1>8, Zenon DEF Members
  <2>2. Arrived' = Members
    BY <2>1, MembersFinite, FS_Subset, Zenon
  <2> QED BY <1>1, <1>2, <1>4, <2>2, Zenon DEF Members, Due, Arrived, BarrierInv, AskedOnce
<1>10. AskedOnce'
  BY <1>1, <1>2, <1>3, <1>4, Zenon DEF BarrierInv, AskedOnce
<1>11. LocalsCurrent'
  BY <1>1 DEF BarrierInv, LocalsCurrent, TypeOK
<1>12. BarrierCounts'
  BY <1>1, <1>2, <1>5, <1>6, <1>7, <1>8, <1>9, Zenon DEF BarrierInv, BarrierCounts
<1>13. StalledIdle'
  BY <1>1, <1>2, Zenon DEF BarrierInv, StalledIdle, InIpiWait
<1> QED BY <1>10, <1>11, <1>12, <1>13, Zenon DEF BarrierInv

(* The last core resets the count: everybody has arrived.                    *)
LEMMA ResetStep ==
  ASSUME TypeOK, BarrierInv, NEW c \in Cores, Reset(c) PROVE BarrierInv'
<1> USE DEF Reset, goto, lockVars, localVars, waitVars, maskVars, nodeVars
<1>1. /\ pc[c] = "Reset" /\ pc'[c] = "Flip" /\ count' = 0
      /\ \A d \in Cores \ {c} : pc'[d] = pc[d]
      /\ UNCHANGED <<ipi, mask, remoteCall, totalCoreBarrier, globalsense, cores, localsense, ret, ksIdle>>
  BY Zenon DEF TypeOK
<1> HIDE DEF Reset
<1>2. \A d \in Cores : ToFlag(d)' = ToFlag(d) /\ Asked(d)' = Asked(d) /\ Initiates(d)' = Initiates(d)
  BY <1>1, Zenon DEF ToFlag, Asked, Initiates, InIpiWait
<1>3. Due' = Due /\ Arrived' = Arrived
  BY <1>1, <1>2, Zenon DEF Due, Arrived
<1>4. Members' = Members /\ \A d \in Members : d \in Cores
  BY <1>3, Zenon DEF Members, Due, Arrived
<1>5. AskedOnce'
  BY <1>1, <1>2, <1>3, Zenon DEF BarrierInv, AskedOnce
<1>6. LocalsCurrent'
  BY <1>1, Zenon DEF BarrierInv, LocalsCurrent
<1>7. BarrierCounts'
  BY <1>1, <1>2, <1>3, <1>4, Zenon DEF BarrierInv, BarrierCounts
<1>8. StalledIdle'
  BY <1>1, <1>2, Zenon DEF BarrierInv, StalledIdle, InIpiWait
<1> QED BY <1>5, <1>6, <1>7, <1>8, Zenon DEF BarrierInv

(* The last core flips the sense: the call has no members any more.          *)
LEMMA FlipStep ==
  ASSUME TypeOK, BarrierInv, NEW c \in Cores, Flip(c) PROVE BarrierInv'
<1> USE DEF Flip, goto, lockVars, localVars, waitVars, maskVars, nodeVars
<1>1. /\ pc[c] = "Flip" /\ pc'[c] = "Wait" /\ globalsense' = globalsense + 1
      /\ \A d \in Cores \ {c} : pc'[d] = pc[d]
      /\ UNCHANGED <<ipi, mask, remoteCall, totalCoreBarrier, count, cores, localsense, ret, ksIdle>>
  BY Zenon DEF TypeOK
<1> HIDE DEF Flip
<1>2. \A d \in Cores : ToFlag(d)' = ToFlag(d) /\ Asked(d)' = Asked(d) /\ Initiates(d)' = Initiates(d)
  BY <1>1, Zenon DEF ToFlag, Asked, Initiates, InIpiWait
<1>3. /\ Due = {} /\ count = 0 /\ localsense[c] = globalsense
      /\ \A d \in Cores : pc[d] \in {"Reset", "Flip"} => d = c
  BY <1>1, Zenon DEF BarrierInv, BarrierCounts, LocalsCurrent
<1>4. \A d \in Cores : ~Asked(d) /\ pc[d] \notin {"Flag", "Send", "WaitRead", "WaitAdd"}
  BY <1>3, Zenon DEF Due
<1>5. \A d \in Cores : pc'[d] = "Wait" => localsense[d] <= globalsense
  BY <1>1, <1>3 DEF BarrierInv, LocalsCurrent, TypeOK
<1>6. \A d \in Cores : pc'[d] \notin {"Reset", "Flip"}
  BY <1>1, <1>3, Zenon
<1>7. Due' = {} /\ Arrived' = {}
  BY <1>1, <1>2, <1>4, <1>5, <1>6 DEF Due, Arrived, TypeOK
<1>8. Members' = {} /\ Cardinality(Arrived') = 0
  BY <1>7, FS_EmptySet, Zenon DEF Members
<1>9. AskedOnce'
  BY <1>1, <1>2, <1>4, Zenon DEF BarrierInv, AskedOnce
<1>10. LocalsCurrent'
  BY <1>1, <1>4, <1>5, <1>6 DEF LocalsCurrent, TypeOK
<1>11. BarrierCounts'
  BY <1>1, <1>3, <1>6, <1>8, Zenon DEF BarrierCounts
<1>12. StalledIdle'
  BY <1>1, <1>2, Zenon DEF BarrierInv, StalledIdle, InIpiWait
<1> QED BY <1>9, <1>10, <1>11, <1>12, Zenon DEF BarrierInv

(* A released core leaves ipi_wait: it was no member, or is one of a later   *)
(* call that has not reached it yet.                                         *)
LEMMA WaitStep ==
  ASSUME TypeOK, BarrierInv, NEW c \in Cores, Wait(c) PROVE BarrierInv'
<1> USE DEF Wait, return, goto, lockVars, ipiVars, barrierVars, maskVars, nodeVars
<1>1. /\ pc[c] = "Wait" /\ localsense[c] # globalsense /\ pc'[c] = ret[c]
      /\ pc'[c] \in {"User", "Spin", "StallSpin", "Hold"} /\ ret'[c] = "User"
      /\ \A d \in Cores \ {c} : /\ pc'[d] = pc[d] /\ cores'[d] = cores[d]
                                /\ localsense'[d] = localsense[d] /\ ret'[d] = ret[d]
      /\ UNCHANGED <<ipi, mask, remoteCall, totalCoreBarrier, count, globalsense, ksIdle>>
  BY Zenon DEF TypeOK
<1> HIDE DEF Wait
<1>2. \A d \in Cores : ToFlag(d)' = ToFlag(d) /\ Asked(d)' = Asked(d)
  BY <1>1, Zenon DEF ToFlag, Asked
<1>3. ~Initiates(c)' /\ \A d \in Cores \ {c} : Initiates(d)' = Initiates(d)
  BY <1>1, Zenon DEF Initiates, InIpiWait
<1>4. Due' = Due /\ Arrived' = Arrived /\ c \notin Arrived
  BY <1>1, <1>2, Zenon DEF Due, Arrived
<1>5. ~(Initiates(c) /\ c \in Members)
  BY <1>1, <1>4, Zenon DEF Members, Due, BarrierInv, AskedOnce
<1>6. AskedOnce'
  BY <1>1, <1>2, <1>3, <1>4, Zenon DEF BarrierInv, AskedOnce
<1>7. LocalsCurrent'
  BY <1>1, Zenon DEF BarrierInv, LocalsCurrent
<1>8. BarrierCounts'
  <2>1. \A d \in Cores : Initiates(d) /\ d \in Members => Initiates(d)'
    BY <1>3, <1>5, Zenon
  <2> QED BY <1>1, <1>4, <2>1, MembersKept, Zenon
<1>9. StalledIdle'
  BY <1>1, <1>2, Zenon DEF BarrierInv, StalledIdle, InHandler, InIpiWait
<1> QED BY <1>6, <1>7, <1>8, <1>9, Zenon DEF BarrierInv

(* doRemoteMaskOp: the members are the caller and the targets; none is left  *)
(* from an earlier call, and a target of a stall runs a thread.              *)
LEMMA CallStep ==
  ASSUME TypeOK, BarrierInv, MutualExclusion, NEW c \in Cores, doRemoteMaskOp(c) PROVE BarrierInv'
<1>1. PICK f \in Funcs, m \in SUBSET (Cores \ {c}) :
        /\ f = "Stall" => \E d \in m : m = {d} /\ ~ksIdle[d]
        /\ remoteCall' = [func |-> f, id |-> ops + 1]
        /\ totalCoreBarrier' = Cardinality(m)
        /\ mask' = [mask EXCEPT ![c] = m]
  BY Zenon DEF doRemoteMaskOp
<1>2. /\ pc[c] = "Hold" /\ pc'[c] = "Flag" /\ remoteCall'.func = f
      /\ mask'[c] = m /\ c \notin m /\ m \subseteq Cores
      /\ \A d \in Cores \ {c} : pc'[d] = pc[d] /\ mask'[d] = mask[d]
      /\ UNCHANGED <<ipi, count, globalsense, cores, localsense, ret, ksIdle>>
  BY <1>1 DEF doRemoteMaskOp, goto, waitVars, TypeOK
<1>3. Members = {}
  BY <1>2, NoMembers, Zenon
<1>4. \A d \in Cores : /\ ~Asked(d) /\ mask[d] = {} /\ d \notin Arrived
                       /\ pc[d] \notin {"Flag", "Send", "WaitRead", "WaitAdd", "Reset", "Flip", "Exec", "Clear"}
  <2>1. \A d \in Cores : d \notin Due /\ d \notin Arrived
    BY <1>3, Zenon DEF Members
  <2>2. \A d \in Cores : /\ ~Asked(d) /\ ~ipi[d]
                         /\ pc[d] \notin {"Flag", "Send", "WaitRead", "WaitAdd", "Reset", "Flip"}
    BY <2>1, Zenon DEF Due, Arrived, Asked
  <2>3. \A d \in Cores : pc[d] \notin {"Exec", "Clear"} /\ mask[d] = {}
    BY <2>2, Zenon DEF BarrierInv, AskedOnce
  <2> QED BY <2>1, <2>2, <2>3, Zenon
<1>5. \A d \in Cores : ToFlag(d)' <=> d \in m
  BY <1>2, <1>4, Zenon DEF ToFlag
<1>6. \A d \in Cores : ~ipi[d] /\ (Asked(d)' <=> d \in m)
  BY <1>2, <1>4, <1>5, Zenon DEF Asked
<1>7. Due' = m \cup {c} /\ Arrived' = {}
  BY <1>2, <1>4, <1>6, ZenonT(60) DEF Due, Arrived
<1>8. /\ Members' = m \cup {c} /\ Cardinality(Members') = totalCoreBarrier' + 1
      /\ Cardinality(Arrived') = 0 /\ count = 0
  <2>1. Members' = m \cup {c}
    BY <1>7, Zenon DEF Members
  <2>2. IsFiniteSet(m)
    BY <1>2, CoresAssumption, FS_Subset, Zenon
  <2>3. Cardinality(m \cup {c}) = Cardinality(m) + 1
    BY <1>2, <2>2, FS_AddElement, Zenon
  <2>4. Arrived = {}
    BY <1>3, Zenon DEF Members
  <2> QED BY <1>1, <1>4, <1>7, <2>1, <2>3, <2>4, FS_EmptySet, Zenon DEF BarrierInv, BarrierCounts
<1>9. Initiates(c)' /\ \A d \in m : ~Initiates(d)'
  <2>1. HoldsLock(c)
    BY <1>2, Zenon DEF HoldsLock, Holding
  <2>2. \A d \in m : ~Initiates(d)
    BY <1>2, <2>1, InitiatorHolds, Zenon DEF MutualExclusion
  <2> QED BY <1>2, <2>2, Zenon DEF Initiates, InIpiWait
<1>10. AskedOnce'
  BY <1>2, <1>4, <1>5, <1>6, <1>7, <1>9, Zenon DEF AskedOnce
<1>11. LocalsCurrent'
  BY <1>2, <1>4, Zenon DEF BarrierInv, LocalsCurrent
<1>12. BarrierCounts'
  BY <1>2, <1>4, <1>8, <1>9, Zenon DEF BarrierCounts
<1>13. StalledIdle'
  BY <1>1, <1>2, <1>6, Zenon DEF BarrierInv, StalledIdle, InHandler, InIpiWait
<1> QED BY <1>10, <1>11, <1>12, <1>13, Zenon DEF BarrierInv

(* generic_ipi_send_mask flags a target, which was due already.              *)
LEMMA FlagStep ==
  ASSUME TypeOK, BarrierInv, MutualExclusion, NEW c \in Cores, Flag(c) PROVE BarrierInv'
<1>1. PICK t \in mask[c] : /\ ipi' = [ipi EXCEPT ![t] = TRUE]
                           /\ mask' = [mask EXCEPT ![c] = @ \ {t}]
                           /\ goto(c, IF mask[c] = {t} THEN "Send" ELSE "Flag")
  BY Zenon DEF Flag
<1>2. /\ pc[c] = "Flag" /\ t \in Cores /\ ipi'[t] /\ mask'[c] = mask[c] \ {t}
      /\ pc'[c] = IF mask[c] = {t} THEN "Send" ELSE "Flag"
      /\ \A d \in Cores \ {c} : pc'[d] = pc[d] /\ mask'[d] = mask[d]
      /\ \A d \in Cores \ {t} : ipi'[d] = ipi[d]
      /\ UNCHANGED <<remoteCall, totalCoreBarrier, count, globalsense, cores, localsense, ret, ksIdle>>
  <2>1. /\ pc[c] = "Flag"
        /\ UNCHANGED <<remoteCall, totalCoreBarrier, count, globalsense, cores, localsense, ret, ksIdle>>
    BY Zenon DEF Flag, barrierVars, nodeVars
  <2> QED BY <1>1, <2>1, Zenon DEF goto, TypeOK
<1>3. \A d \in Cores \ {c} : mask[d] = {}
  BY <1>2, Zenon DEF BarrierInv, AskedOnce, MutualExclusion, HoldsLock, Holding
<1>4. \A d \in Cores : (ToFlag(d) <=> d \in mask[c]) /\ (ToFlag(d)' <=> d \in mask[c] /\ d # t)
  BY <1>2, <1>3, Zenon DEF ToFlag
<1>5. \A d \in Cores : Asked(d)' = Asked(d) /\ Initiates(d)' = Initiates(d)
  BY <1>2, <1>4, Zenon DEF Asked, Initiates, InIpiWait
<1>6. Due' = Due /\ Arrived' = Arrived
  BY <1>2, <1>5, Zenon DEF Due, Arrived
<1>7. AskedOnce'
  BY <1>2, <1>3, <1>4, <1>5, <1>6, ZenonT(60) DEF BarrierInv, AskedOnce
<1>8. LocalsCurrent'
  BY <1>2, Zenon DEF BarrierInv, LocalsCurrent
<1>9. BarrierCounts'
  BY <1>2, <1>5, <1>6, MembersKept, Zenon
<1>10. StalledIdle'
  BY <1>2, <1>5, Zenon DEF BarrierInv, StalledIdle, InHandler, InIpiWait
<1> QED BY <1>7, <1>8, <1>9, <1>10, Zenon DEF BarrierInv

(* generic_ipi_send_mask interrupts a target, and after the last one the     *)
(* caller goes to the barrier itself.                                        *)
LEMMA SendStep ==
  ASSUME TypeOK, BarrierInv, NEW c \in Cores, Send(c) PROVE BarrierInv'
<1>1. /\ pc[c] = "Send" /\ pc'[c] \in {"Send", "WaitRead"} /\ ret'[c] = "Hold"
      /\ \A d \in Cores \ {c} : pc'[d] = pc[d] /\ ret'[d] = ret[d]
      /\ UNCHANGED <<ipi, mask, remoteCall, totalCoreBarrier, count, globalsense, cores, localsense, ksIdle>>
  BY DEF Send, goto, lockVars, barrierVars, nodeVars, TypeOK
<1>2. \A d \in Cores : ToFlag(d)' = ToFlag(d) /\ Asked(d)' = Asked(d) /\ Initiates(d)' = Initiates(d)
  BY <1>1, Zenon DEF ToFlag, Asked, Initiates, InIpiWait
<1>3. Due' = Due /\ Arrived' = Arrived
  BY <1>1, <1>2, Zenon DEF Due, Arrived
<1>4. AskedOnce'
  BY <1>1, <1>2, <1>3, Zenon DEF BarrierInv, AskedOnce, Initiates
<1>5. LocalsCurrent'
  BY <1>1, Zenon DEF BarrierInv, LocalsCurrent
<1>6. BarrierCounts'
  BY <1>1, <1>2, <1>3, MembersKept, Zenon
<1>7. StalledIdle'
  BY <1>1, <1>2, Zenon DEF BarrierInv, StalledIdle, InHandler, InIpiWait
<1> QED BY <1>4, <1>5, <1>6, <1>7, Zenon DEF BarrierInv

(* The barrier behaves in every step of every core.                          *)
LEMMA BarrierStep ==
  ASSUME TypeOK, BarrierInv, MutualExclusion, HandlerReturns, [Next]_vars PROVE BarrierInv'
<1>1. CASE UNCHANGED vars
  <2>1. UNCHANGED <<ipi, mask, remoteCall, totalCoreBarrier, count, globalsense, cores, localsense, pc, ret, ksIdle>>
    BY <1>1, Zenon DEF vars, ipiVars, barrierVars, localVars, waitVars, maskVars, nodeVars
  <2>2. StalledIdle'
    BY <2>1, Zenon DEF BarrierInv, StalledIdle, Asked, ToFlag
  <2> QED BY <2>1, <2>2, BarrierUntouched, Zenon DEF BarrierInv, AskedOnce
<1> QED
  BY <1>1, ApartStep, ClearStep, WaitReadStep, WaitAddStep, ResetStep, FlipStep, WaitStep,
     CallStep,
     FlagStep, SendStep, Zenon DEF Next, Progress

(* The barrier of ipi_wait counts the members of one call at a time.         *)
THEOREM BarrierInvariant == Spec => []BarrierInv
<1>1. Init => BarrierInv
  <2> SUFFICES ASSUME Init PROVE BarrierInv
    OBVIOUS
  <2>1. \A c \in Cores : /\ pc[c] = "User" /\ ~ipi[c] /\ mask[c] = {}
                         /\ ret[c] = "User" /\ ~Asked(c) /\ ~ToFlag(c)
    BY Zenon DEF Init, Asked, ToFlag
  <2>2. Due = {} /\ Arrived = {} /\ Members = {} /\ Cardinality(Arrived) = 0
    BY <2>1, FS_EmptySet, Zenon DEF Due, Arrived, Members
  <2> QED
    BY <2>1, <2>2, Zenon DEF Init, BarrierInv, AskedOnce, LocalsCurrent, BarrierCounts,
       StalledIdle
<1>2. TypeOK /\ QueueInv /\ MutualExclusion /\ BarrierInv /\ [Next]_vars => BarrierInv'
  BY BarrierStep, Zenon DEF QueueInv
<1> QED
  BY <1>1, <1>2, TypeCorrect, QueueInvariant, Exclusion, PTL DEF Spec

(* A core executes the body of a remote call only while the core that made   *)
(* the call holds the lock inside doRemoteMaskOp.                            *)
THEOREM CallsExclude == Spec => []RemoteCallExclusive
<1>1. TypeOK /\ BarrierInv => RemoteCallExclusive
  <2> SUFFICES ASSUME TypeOK, BarrierInv, NEW c \in Cores, pc[c] = "Exec"
               PROVE  /\ \E h \in Cores : HoldsLock(h) /\ pc[h] \in {"Flag", "Send"} \cup InIpiWait
                      /\ ~HoldsLock(c)
    BY Zenon DEF RemoteCallExclusive
  <2>1. c \in Members
    BY Zenon DEF BarrierInv, AskedOnce, Members, Due, Asked
  <2>2. PICK h \in Members : Initiates(h)
    BY <2>1, Zenon DEF BarrierInv, BarrierCounts
  <2>3. h \in Cores
    BY Zenon DEF Members, Due, Arrived
  <2> QED BY <2>2, <2>3, InitiatorHolds, Zenon DEF Initiates, HoldsLock, Holding, InIpiWait
<1> QED BY <1>1, TypeCorrect, BarrierInvariant, PTL

(* When the kernel runs after doRemoteMaskOp, every target has executed the  *)
(* call and the barrier is ready for the next one.                           *)
THEOREM CallsComplete == Spec => []RemoteCallComplete
<1>1. TypeOK /\ MutualExclusion /\ BarrierInv => RemoteCallComplete
  <2> SUFFICES ASSUME TypeOK, MutualExclusion, BarrierInv, NEW h \in Cores, pc[h] \in {"Hold", "Grant"}
               PROVE  /\ \A d \in Cores : ~ipi[d] /\ pc[d] \notin {"Exec", "Clear", "WaitRead", "WaitAdd"}
                      /\ count = 0
    BY Zenon DEF RemoteCallComplete
  <2>1. Due = {} /\ Arrived = {}
    BY NoMembers, Zenon DEF Members
  <2>2. Cardinality(Arrived) = 0
    BY <2>1, FS_EmptySet, Zenon
  <2> QED BY <2>1, <2>2, Zenon DEF Due, Asked, BarrierInv, AskedOnce, BarrierCounts
<1> QED BY <1>1, TypeCorrect, Exclusion, BarrierInvariant, PTL

(* The assertion of ipiStallCoreCallback: a core that waits for the lock     *)
(* stalled is never asked to stall.                                          *)
THEOREM StallsDoNotNest == Spec => []NoNestedStall
<1>1. TypeOK /\ BarrierInv => NoNestedStall
  BY Zenon DEF NoNestedStall, BarrierInv, StalledIdle, Asked
<1> QED BY <1>1, TypeCorrect, BarrierInvariant, PTL

(* The queue of clh_lock_acquire and clh_lock_release and the barrier of     *)
(* ipi_wait are sound together, on any number of cores.                      *)
THEOREM LockInvariant == Spec => []LockInv
<1>1. QueueInv /\ BarrierInv => LockInv
  BY DEF LockInv
<1> QED BY <1>1, QueueInvariant, BarrierInvariant, PTL
=============================================================================
