------------------------- MODULE UploadQueue_proofs -------------------------
(***************************************************************************)
(* What TLAPS proves of UploadQueue, for any number of uploads, any limit  *)
(* and any number of cancels: its locking, the ticket it implements, what  *)
(* its delegate hears and the slots it leaks.                              *)
(***************************************************************************)
EXTENDS UploadQueue, FiniteSetTheorems, SequenceTheorems, WellFoundedInduction, TLAPS

Unstarted == Before98 \cup {"skipped"}

(* A worker that has not reached line 98 is neither executing nor finished *)
(* and has no final state; the state of a finished upload is no longer     *)
(* Uploading; and nothing but FinishSet writes Uploaded or Failed.         *)
WorkerInv(o) ==
  /\ isExecuting(o) => pc[o] \notin Unstarted /\ ~finished[o]
  /\ finished[o] => pc[o] \notin Unstarted
  /\ state[o] \in {"Uploaded", "Failed"} => pc[o] \in {"thanking", "returned"}
  /\ pc[o] \in Finishing \cup {"thanking"} => finalState[o] # "none"
  /\ pc[o] = "thanking" => finalState[o] = "Uploaded"
  /\ pc[o] = "closing" => ~finished[o] \/ ~isExecuting(o)

(* An operation the queue has, or the main thread is cancelling, is in the *)
(* list that gives the order of both.                                      *)
Listed(o) == \E i \in DOMAIN added : added[i] = o
ListedInv ==
  /\ \A o \in Op : pc[o] # "new" => Listed(o)
  /\ \A o \in cancelling : Listed(o)

(* The main thread takes the executing branch of finishOperationWithState: *)
(* only for an upload whose worker is past line 98.                        *)
CancelInv ==
  stage = "close" => \A o \in Op : Current(o) => pc[o] \notin Unstarted

(* The queue starts an operation only when one of its slots is free. *)
SlotInv == Cardinality(Occupied) <= MaxConcurrent

IInv ==
  /\ TypeOK
  /\ \A o \in Op : WorkerInv(o)
  /\ ListedInv
  /\ CancelInv
  /\ SlotInv
-----------------------------------------------------------------------------
(* A dispatched block keeps the main queue a queue of notices. *)
LEMMA DispatchType ==
  ASSUME NEW o \in Op, NEW kind \in {"success", "stop"}, mainQ \in Seq(Notice),
         Dispatch(o, kind)
  PROVE  mainQ' \in Seq(Notice)
<1>1. [op |-> o, kind |-> kind] \in Notice
  BY DEF Notice
<1>2. QED
  BY <1>1 DEF Dispatch

LEMMA TypeStep ==
  ASSUME TypeOK, \A o \in Op : WorkerInv(o), [Next]_vars
  PROVE  TypeOK'
<1> USE DEF TypeOK, HeroUploadState, Places, Before98, NotStarted, Finishing, Ended, Notice
<1>1. ASSUME NEW o \in Op, StartUpload(o)
      PROVE  TypeOK'
  BY <1>1 DEF StartUpload, Goto, mainVars
<1>2. ASSUME NEW o \in Op, QueueStarts(o)
      PROVE  TypeOK'
  BY <1>2 DEF QueueStarts, Goto, mainVars, queueVars
<1>3. ASSUME NEW o \in Op, Start(o)
      PROVE  TypeOK'
  <2>1. pc' \in [Op -> Places]
    <3>1. \E p \in Places : pc' = [pc EXCEPT ![o] = p]
      BY <1>3 DEF Start, NotifyError, Goto
    <3>2. QED
      BY <3>1
  <2>2. finalState' \in [Op -> {"none", "Uploaded", "Failed"}]
    BY <1>3 DEF Start, NotifyError
  <2>3. mainQ' \in Seq(Notice)
    BY <1>3, DispatchType DEF Start, NotifyError
  <2>4. QED
    BY <1>3, <2>1, <2>2, <2>3 DEF Start, mainVars, queueVars
<1>4. ASSUME NEW o \in Op, OpenConnection(o)
      PROVE  TypeOK'
  BY <1>4 DEF OpenConnection, Goto, mainVars, queueVars
<1>5. ASSUME NEW o \in Op, CheckCancelled(o)
      PROVE  TypeOK'
  BY <1>5 DEF CheckCancelled, Goto, mainVars, queueVars
<1>6. ASSUME NEW o \in Op, BecomeExecuting(o)
      PROVE  TypeOK'
  BY <1>6 DEF BecomeExecuting, Goto, mainVars, queueVars
<1>7. ASSUME NEW o \in Op, StartConnection(o)
      PROVE  TypeOK'
  BY <1>7 DEF StartConnection, Goto, mainVars, queueVars
<1>8. ASSUME NEW o \in Op, RunLoopReturns(o)
      PROVE  TypeOK'
  BY <1>8 DEF RunLoopReturns, Goto, mainVars, queueVars
<1>9. ASSUME NEW o \in Op, Network(o)
      PROVE  TypeOK'
  <2>1. CASE ConnectionDidFinishLoading(o)
    BY <2>1 DEF ConnectionDidFinishLoading, Goto, mainVars, queueVars
  <2>2. CASE ConnectionDidFail(o)
    <3>1. mainQ' \in Seq(Notice)
      BY <2>2, DispatchType DEF ConnectionDidFail, NotifyError
    <3>2. QED
      BY <2>2, <3>1 DEF ConnectionDidFail, NotifyError, Goto, mainVars, queueVars
  <2>3. QED
    BY <1>9, <2>1, <2>2 DEF Network
<1>10. ASSUME NEW o \in Op, Judge(o)
       PROVE  TypeOK'
  <2>1. mainQ' \in Seq(Notice)
    BY <1>10, DispatchType DEF Judge, NotifyError
  <2>2. pc' \in [Op -> Places] /\ finalState' \in [Op -> {"none", "Uploaded", "Failed"}]
    BY <1>10 DEF Judge, NotifyError, Goto
  <2>3. QED
    BY <1>10, <2>1, <2>2 DEF Judge, mainVars, queueVars
<1>11. ASSUME NEW o \in Op, FinishCheck(o)
       PROVE  TypeOK'
  BY <1>11 DEF FinishCheck, Goto, mainVars, queueVars
<1>12. ASSUME NEW o \in Op, FinishSet(o)
       PROVE  TypeOK'
  BY <1>12 DEF FinishSet, Goto, mainVars, WorkerInv
<1>13. ASSUME NEW o \in Op, DispatchSuccess(o)
       PROVE  TypeOK'
  <2>1. mainQ' \in Seq(Notice)
    BY <1>13, DispatchType DEF DispatchSuccess
  <2>2. QED
    BY <1>13, <2>1 DEF DispatchSuccess, Goto, mainVars, queueVars
<1>14. CASE RunMainBlock
  <2>1. Head(mainQ) \in Notice /\ Tail(mainQ) \in Seq(Notice)
    BY <1>14, HeadTailProperties DEF RunMainBlock
  <2>2. Head(mainQ).op \in Op /\ Head(mainQ).kind \in {"success", "stop"}
    BY <2>1
  <2>3. told' \in [Op -> {"none", "success", "stop"}]
    BY <1>14, <2>2 DEF RunMainBlock
  <2>4. QED
    BY <1>14, <2>1, <2>3 DEF RunMainBlock, mainVars, queueVars, workerVars
<1>15. ASSUME NEW o \in Op, Cancel(o)
       PROVE  TypeOK'
  BY <1>15 DEF Cancel, BeginCancel, MainIdle, queueVars, workerVars
<1>16. CASE CancelAllUploads
  BY <1>16 DEF CancelAllUploads, operations, BeginCancel, MainIdle, queueVars, workerVars
<1>17. CASE Canceller
  <2>1. PICK o \in Op : CancelConnection(o) \/ CancelCheck(o) \/ CancelSet(o)
    BY <1>17 DEF Canceller
  <2>2. CASE CancelConnection(o)
    BY <2>2 DEF CancelConnection, Disconnect, queueVars
  <2>3. CASE CancelCheck(o)
    BY <2>3 DEF CancelCheck, queueVars, workerVars
  <2>4. CASE CancelSet(o)
    BY <2>4 DEF CancelSet, workerVars
  <2>5. QED
    BY <2>1, <2>2, <2>3, <2>4
<1>18. CASE UNCHANGED vars
  BY <1>18 DEF vars, mainVars, queueVars, workerVars
<1>19. QED
  BY <1>1, <1>2, <1>3, <1>4, <1>5, <1>6, <1>7, <1>8, <1>9, <1>10, <1>11, <1>12,
     <1>13, <1>14, <1>15, <1>16, <1>17, <1>18 DEF Next, Worker
-----------------------------------------------------------------------------
LEMMA OccupiedFinite == IsFiniteSet(Occupied) /\ IsFiniteSet(Occupied')
<1>1. Occupied \subseteq Op /\ Occupied' \subseteq Op
  BY DEF Occupied
<1>2. QED
  BY <1>1, OpAssumption, FS_Subset

(* A step that starts no queued upload and takes no slot back occupies no  *)
(* more slots than before.                                                 *)
LEMMA SlotsKept ==
  ASSUME SlotInv,
         \A o \in Op : pc'[o] \notin NotStarted => pc[o] \notin NotStarted,
         \A o \in Op : finished[o] => finished'[o]
  PROVE  SlotInv'
<1>1. Occupied' \subseteq Occupied
  BY DEF Occupied
<1>2. Cardinality(Occupied') <= Cardinality(Occupied) /\ Cardinality(Occupied') \in Nat
      /\ Cardinality(Occupied) \in Nat
  BY <1>1, OccupiedFinite, FS_Subset, FS_CardinalityType
<1>3. QED
  BY <1>2, BoundAssumption DEF SlotInv

(* A step of one worker: the others keep their part of the invariant.      *)
LEMMA OthersKept ==
  ASSUME NEW o \in Op, TypeOK, \A p \in Op : WorkerInv(p), WorkerInv(o)',
         \A p \in Op \ {o} : /\ state'[p] = state[p] /\ pc'[p] = pc[p]
                            /\ finished'[p] = finished[p]
                            /\ finalState'[p] = finalState[p]
  PROVE  (\A p \in Op : WorkerInv(p))'
<1>1. ASSUME NEW p \in Op \ {o}
      PROVE  WorkerInv(p)'
  BY <1>1 DEF WorkerInv, isExecuting
<1>2. QED
  BY <1>1

(* One step of the worker of one uploader, or of the queue that starts it. *)
LEMMA WorkerStep ==
  ASSUME TypeOK, \A p \in Op : WorkerInv(p), NEW o \in Op,
         StartUpload(o) \/ QueueStarts(o) \/ Worker(o) \/ Network(o)
  PROVE  (\A p \in Op : WorkerInv(p))'
<1>1. \A p \in Op \ {o} : /\ state'[p] = state[p] /\ pc'[p] = pc[p]
                          /\ finished'[p] = finished[p]
                          /\ finalState'[p] = finalState[p]
  BY DEF TypeOK, StartUpload, QueueStarts, Worker, Network, Start, OpenConnection,
         CheckCancelled, BecomeExecuting, StartConnection, RunLoopReturns,
         ConnectionDidFinishLoading, ConnectionDidFail, Judge, FinishCheck, FinishSet,
         DispatchSuccess, NotifyError, Goto, queueVars
<1>2. WorkerInv(o)'
  <2> USE DEF TypeOK, WorkerInv, Unstarted, Before98, NotStarted, Finishing, isExecuting
  <2>1. CASE StartUpload(o)
    BY <2>1 DEF StartUpload, Goto
  <2>2. CASE QueueStarts(o)
    BY <2>2 DEF QueueStarts, Goto, mainVars, queueVars
  <2>3. CASE Start(o)
    BY <2>3 DEF Start, NotifyError, Dispatch, Goto, mainVars, queueVars, isCancelled
  <2>4. CASE OpenConnection(o)
    BY <2>4 DEF OpenConnection, Goto, mainVars, queueVars
  <2>5. CASE CheckCancelled(o)
    BY <2>5 DEF CheckCancelled, Goto, mainVars, queueVars
  <2>6. CASE BecomeExecuting(o)
    BY <2>6 DEF BecomeExecuting, Goto, mainVars, queueVars
  <2>7. CASE StartConnection(o)
    BY <2>7 DEF StartConnection, Goto, mainVars, queueVars
  <2>8. CASE RunLoopReturns(o)
    BY <2>8 DEF RunLoopReturns, Goto, mainVars, queueVars
  <2>9. CASE ConnectionDidFinishLoading(o)
    BY <2>9 DEF ConnectionDidFinishLoading, Goto, mainVars, queueVars
  <2>10. CASE ConnectionDidFail(o)
    BY <2>10 DEF ConnectionDidFail, NotifyError, Goto, mainVars, queueVars
  <2>11. CASE Judge(o)
    BY <2>11 DEF Judge, NotifyError, Goto, mainVars, queueVars
  <2>12. CASE FinishCheck(o)
    BY <2>12 DEF FinishCheck, Goto, mainVars, queueVars
  <2>13. CASE FinishSet(o)
    BY <2>13 DEF FinishSet, Goto, mainVars
  <2>14. CASE DispatchSuccess(o)
    BY <2>14 DEF DispatchSuccess, Goto, mainVars, queueVars
  <2>15. QED
    BY <2>1, <2>2, <2>3, <2>4, <2>5, <2>6, <2>7, <2>8, <2>9, <2>10, <2>11, <2>12, <2>13, <2>14 DEF Worker, Network
<1>3. QED
  BY <1>1, <1>2, OthersKept

LEMMA ClosePast ==
  ASSUME CancelInv, NEW o \in Op, Current(o), stage = "close"
  PROVE  pc[o] \notin Unstarted
BY DEF CancelInv

(* One step of the main thread. *)
LEMMA MainStep ==
  ASSUME TypeOK, \A p \in Op : WorkerInv(p), CancelInv,
         CancelAllUploads \/ Canceller \/ RunMainBlock \/ \E o \in Op : Cancel(o)
  PROVE  (\A p \in Op : WorkerInv(p))'
<1>1. CASE CancelAllUploads \/ RunMainBlock \/ \E o \in Op : Cancel(o)
  BY <1>1 DEF CancelAllUploads, RunMainBlock, Cancel, BeginCancel, WorkerInv, isExecuting,
              workerVars, queueVars
<1>2. CASE Canceller
  <2>1. PICK o \in Op : /\ Current(o)
                        /\ CancelConnection(o) \/ CancelCheck(o) \/ CancelSet(o)
    BY <1>2 DEF Canceller
  <2>2. CASE CancelConnection(o) \/ CancelCheck(o)
    BY <2>2 DEF CancelConnection, CancelCheck, WorkerInv, isExecuting, workerVars, queueVars
  <2>3. CASE CancelSet(o)
    <3>1. WorkerInv(o)'
      <4>1. stage = "close" => pc[o] \notin Unstarted
        BY <2>1, ClosePast
      <4>2. finished[o] => pc[o] \notin Unstarted
        BY DEF WorkerInv
      <4>3. finished'[o] <=> finished[o] \/ stage = "close"
        BY <2>3 DEF CancelSet, TypeOK
      <4>4. state'[o] = "Canceled" /\ pc' = pc /\ finalState' = finalState
        BY <2>3 DEF CancelSet, workerVars, TypeOK
      <4>5. QED
        BY <4>1, <4>2, <4>3, <4>4 DEF WorkerInv, isExecuting
    <3>2. \A p \in Op \ {o} : /\ state'[p] = state[p] /\ pc'[p] = pc[p]
                              /\ finished'[p] = finished[p]
                              /\ finalState'[p] = finalState[p]
      BY <2>3 DEF CancelSet, workerVars, TypeOK
    <3>3. QED
      BY <3>1, <3>2, OthersKept
  <2>4. QED
    BY <2>1, <2>2, <2>3
<1>3. QED
  BY <1>1, <1>2

LEMMA ListedKept ==
  ASSUME added' = added, NEW p, Listed(p)
  PROVE  Listed(p)'
BY DEF Listed

LEMMA ListedStep ==
  ASSUME TypeOK, ListedInv, [Next]_vars
  PROVE  ListedInv'
<1> USE DEF ListedInv
<1>1. ASSUME NEW o \in Op, StartUpload(o)
      PROVE  ListedInv'
  <2>1. added' = Append(added, o) /\ cancelling' = cancelling
    BY <1>1 DEF StartUpload, mainVars
  <2>2. Listed(o)'
    <3>1. added \in Seq(Op) /\ Len(added) \in Nat
      BY DEF TypeOK
    <3>2. Len(added) + 1 \in DOMAIN added' /\ added'[Len(added) + 1] = o
      BY <2>1, <3>1
    <3>3. QED
      BY <3>2 DEF Listed
  <2>3. ASSUME NEW p, Listed(p)
        PROVE  Listed(p)'
    <3>1. PICK i \in DOMAIN added : added[i] = p
      BY <2>3 DEF Listed
    <3>2. i \in DOMAIN added' /\ added'[i] = p
      BY <2>1, <3>1 DEF TypeOK
    <3>3. QED
      BY <3>2 DEF Listed
  <2>4. \A p \in Op \ {o} : pc'[p] = pc[p]
    BY <1>1 DEF StartUpload, Goto, TypeOK
  <2>5. QED
    BY <2>1, <2>2, <2>3, <2>4
<1>2. ASSUME NEW o \in Op, QueueStarts(o) \/ Worker(o) \/ Network(o)
      PROVE  ListedInv'
  <2>1. added' = added /\ cancelling' = cancelling
    BY <1>2 DEF QueueStarts, Worker, Network, Start, OpenConnection, CheckCancelled,
           BecomeExecuting, StartConnection, RunLoopReturns, ConnectionDidFinishLoading,
           ConnectionDidFail, Judge, FinishCheck, FinishSet, DispatchSuccess, queueVars,
           mainVars
  <2>2. pc[o] # "new" /\ \A p \in Op \ {o} : pc'[p] = pc[p]
    BY <1>2 DEF QueueStarts, Worker, Network, Start, OpenConnection, CheckCancelled,
           BecomeExecuting, StartConnection, RunLoopReturns, ConnectionDidFinishLoading,
           ConnectionDidFail, Judge, FinishCheck, FinishSet, DispatchSuccess, NotifyError,
           Goto, TypeOK
  <2>3. QED
    BY <2>1, <2>2, ListedKept
<1>3. ASSUME CancelAllUploads \/ \E o \in Op : Cancel(o)
      PROVE  ListedInv'
  <2>1. added' = added /\ pc' = pc /\ \A p \in cancelling' : p \in Op /\ pc[p] # "new"
    BY <1>3 DEF CancelAllUploads, Cancel, BeginCancel, operations, workerVars, queueVars
  <2>2. QED
    BY <2>1, ListedKept
<1>4. CASE Canceller
  <2>1. added' = added /\ pc' = pc /\ cancelling' \subseteq cancelling
    BY <1>4 DEF Canceller, CancelConnection, CancelCheck, CancelSet, workerVars, queueVars
  <2>2. QED
    BY <2>1, ListedKept
<1>5. CASE RunMainBlock \/ UNCHANGED vars
  <2>1. added' = added /\ pc' = pc /\ cancelling' = cancelling
    BY <1>5 DEF RunMainBlock, vars, workerVars, queueVars, mainVars
  <2>2. QED
    BY <2>1, ListedKept
<1>6. QED
  BY <1>1, <1>2, <1>3, <1>4, <1>5 DEF Next

(* The main thread cancels one operation at a time. *)
LEMMA OneCurrent ==
  ASSUME TypeOK, ListedInv, NEW o \in Op, NEW p \in Op, Current(o), Current(p)
  PROVE  o = p
<1>1. PICK i \in DOMAIN added : added[i] = o
  BY DEF Current, ListedInv, Listed
<1>2. PICK j \in DOMAIN added : added[j] = p
  BY DEF Current, ListedInv, Listed
<1>3. DOMAIN added = 1 .. Len(added) /\ Len(added) \in Nat
  BY DEF TypeOK
<1>4. CASE i < j
  BY <1>1, <1>2, <1>3, <1>4 DEF Current, Precedes
<1>5. CASE j < i
  BY <1>1, <1>2, <1>3, <1>5 DEF Current, Precedes
<1>6. QED
  BY <1>1, <1>2, <1>3, <1>4, <1>5

LEMMA CancelStep ==
  ASSUME TypeOK, \A p \in Op : WorkerInv(p), ListedInv, CancelInv, [Next]_vars
  PROVE  CancelInv'
<1> USE DEF CancelInv, Current, Precedes, Unstarted, Before98, NotStarted
<1>1. ASSUME NEW o \in Op, StartUpload(o)
      PROVE  CancelInv'
  BY <1>1 DEF StartUpload, MainIdle, mainVars, TypeOK
<1>2. ASSUME NEW o \in Op, QueueStarts(o) \/ Worker(o) \/ Network(o)
      PROVE  CancelInv'
  <2>1. stage' = stage /\ cancelling' = cancelling /\ added' = added
    BY <1>2 DEF QueueStarts, Worker, Network, Start, OpenConnection, CheckCancelled,
                BecomeExecuting, StartConnection, RunLoopReturns,
                ConnectionDidFinishLoading, ConnectionDidFail, Judge, FinishCheck,
                FinishSet, DispatchSuccess, mainVars, queueVars
  <2>2. \A p \in Op : pc[p] \notin Unstarted => pc'[p] \notin Unstarted
    BY <1>2 DEF QueueStarts, Worker, Network, Start, OpenConnection, CheckCancelled,
                BecomeExecuting, StartConnection, RunLoopReturns,
                ConnectionDidFinishLoading, ConnectionDidFail, Judge, FinishCheck,
                FinishSet, DispatchSuccess, NotifyError, Goto, TypeOK
  <2>3. \A p \in Op : Current(p)' = Current(p)
    BY <2>1
  <2>4. QED
    BY <2>1, <2>2, <2>3
<1>3. CASE CancelAllUploads \/ \E o \in Op : Cancel(o)
  BY <1>3 DEF CancelAllUploads, Cancel, BeginCancel
<1>4. CASE Canceller
  <2>1. PICK o \in Op : /\ Current(o)
                        /\ CancelConnection(o) \/ CancelCheck(o) \/ CancelSet(o)
    BY <1>4 DEF Canceller
  <2>2. CASE CancelConnection(o)
    BY <2>2 DEF CancelConnection
  <2>3. CASE CancelCheck(o)
    <3>1. UNCHANGED <<cancelling, added, pc>> /\ (stage' = "close" => isExecuting(o))
      BY <2>3 DEF CancelCheck, workerVars, queueVars
    <3>2. ASSUME NEW p \in Op, Current(p)
          PROVE  p = o
      BY <2>1, <3>2, OneCurrent
    <3>3. isExecuting(o) => pc[o] \notin Unstarted
      BY DEF WorkerInv
    <3>4. QED
      BY <3>1, <3>2, <3>3
  <2>4. CASE CancelSet(o)
    BY <2>4 DEF CancelSet
  <2>5. QED
    BY <2>1, <2>2, <2>3, <2>4
<1>5. CASE RunMainBlock \/ UNCHANGED vars
  BY <1>5 DEF RunMainBlock, vars, workerVars, queueVars, mainVars
<1>6. QED
  BY <1>1, <1>2, <1>3, <1>4, <1>5 DEF Next

LEMMA SlotStep ==
  ASSUME TypeOK, \A p \in Op : WorkerInv(p), SlotInv, [Next]_vars
  PROVE  SlotInv'
<1>1. ASSUME NEW o \in Op, QueueStarts(o)
      PROVE  SlotInv'
  <2>1. Occupied' = Occupied \cup {o}
    BY <1>1 DEF QueueStarts, Occupied, NotStarted, Goto, queueVars, TypeOK, WorkerInv,
                Unstarted, Before98
  <2>2. Cardinality(Occupied') <= Cardinality(Occupied) + 1
        /\ Cardinality(Occupied) \in Nat /\ Cardinality(Occupied') \in Nat
    BY <2>1, OccupiedFinite, FS_AddElement, FS_CardinalityType
  <2>3. Cardinality(Occupied) < MaxConcurrent
    BY <1>1 DEF QueueStarts
  <2>4. QED
    BY <2>2, <2>3, BoundAssumption DEF SlotInv
<1>2. ASSUME NEW o \in Op, StartUpload(o) \/ Worker(o) \/ Network(o)
      PROVE  SlotInv'
  <2>1. \A p \in Op : pc'[p] \notin NotStarted => pc[p] \notin NotStarted
    BY <1>2 DEF NotStarted, StartUpload, Worker, Network, Start, OpenConnection,
                CheckCancelled, BecomeExecuting, StartConnection, RunLoopReturns,
                ConnectionDidFinishLoading, ConnectionDidFail, Judge, FinishCheck,
                FinishSet, DispatchSuccess, NotifyError, Goto, TypeOK
  <2>2. \A p \in Op : finished[p] => finished'[p]
    BY <1>2 DEF StartUpload, Worker, Network, Start, OpenConnection,
                CheckCancelled, BecomeExecuting, StartConnection, RunLoopReturns,
                ConnectionDidFinishLoading, ConnectionDidFail, Judge, FinishCheck,
                FinishSet, DispatchSuccess, queueVars, TypeOK
  <2>3. QED
    BY <2>1, <2>2, SlotsKept
<1>3. CASE Canceller
  <2>1. pc' = pc /\ \A p \in Op : finished[p] => finished'[p]
    BY <1>3 DEF Canceller, CancelConnection, CancelCheck, CancelSet, workerVars, queueVars,
                TypeOK
  <2>2. QED
    BY <2>1, SlotsKept
<1>4. CASE CancelAllUploads \/ RunMainBlock \/ (\E o \in Op : Cancel(o)) \/ UNCHANGED vars
  <2>1. pc' = pc /\ finished' = finished
    BY <1>4 DEF CancelAllUploads, Cancel, BeginCancel, RunMainBlock, vars, workerVars, queueVars
  <2>2. QED
    BY <2>1, SlotsKept
<1>5. QED
  BY <1>1, <1>2, <1>3, <1>4 DEF Next

-----------------------------------------------------------------------------
(* The inductive invariant. *)
THEOREM Invariance == Spec => []IInv
<1>1. Init => IInv
  <2> SUFFICES ASSUME Init
               PROVE  IInv
    OBVIOUS
  <2>1. TypeOK
    BY DEF Init, TypeOK, HeroUploadState, Places, Before98, NotStarted
  <2>2. \A o \in Op : WorkerInv(o)
    BY DEF Init, WorkerInv, isExecuting, Finishing
  <2>3. CancelInv
    BY DEF Init, CancelInv
  <2>4. SlotInv
    <3>1. Occupied = {}
      BY DEF Init, Occupied, NotStarted
    <3>2. QED
      BY <3>1, FS_EmptySet, BoundAssumption DEF SlotInv
  <2>5. ListedInv
    BY DEF Init, ListedInv
  <2>6. QED
    BY <2>1, <2>2, <2>3, <2>4, <2>5 DEF IInv
<1>2. IInv /\ [Next]_vars => IInv'
  <2> SUFFICES ASSUME IInv, [Next]_vars
               PROVE  IInv'
    OBVIOUS
  <2>1. TypeOK /\ (\A o \in Op : WorkerInv(o)) /\ ListedInv /\ CancelInv /\ SlotInv
    BY DEF IInv
  <2>2. TypeOK'
    BY <2>1, TypeStep
  <2>3. (\A o \in Op : WorkerInv(o))'
    <3>1. CASE \E o \in Op : StartUpload(o) \/ QueueStarts(o) \/ Worker(o) \/ Network(o)
      BY <2>1, <3>1, WorkerStep
    <3>2. CASE CancelAllUploads \/ Canceller \/ RunMainBlock \/ \E o \in Op : Cancel(o)
      BY <2>1, <3>2, MainStep
    <3>3. CASE UNCHANGED vars
      BY <2>1, <3>3 DEF WorkerInv, isExecuting, vars, workerVars, queueVars
    <3>4. QED
      BY <3>1, <3>2, <3>3 DEF Next
  <2>4. CancelInv'
    BY <2>1, CancelStep
  <2>5. SlotInv'
    BY <2>1, SlotStep
  <2>6. ListedInv'
    BY <2>1, ListedStep
  <2>7. QED
    BY <2>2, <2>3, <2>4, <2>5, <2>6 DEF IInv
<1>3. QED
  BY <1>1, <1>2, PTL DEF Spec

(* The variables only ever hold values of their types. *)
THEOREM TypeCorrect == Spec => []TypeOK
<1>1. IInv => TypeOK
  BY DEF IInv
<1>2. QED
  BY <1>1, Invariance, PTL

(* However cancels race with the workers, never more uploaders are         *)
(* Uploading than maxConcurrentOperationCount: each holds a slot.          *)
THEOREM UploadsBounded == Spec => []CurrentUploadBound
<1>1. IInv => CurrentUploadBound
  <2> SUFFICES ASSUME IInv
               PROVE  CurrentUploadBound
    OBVIOUS
  <2> DEFINE Executing == {o \in Op : isExecuting(o)}
  <2>1. Executing \subseteq Occupied
    BY DEF IInv, WorkerInv, Occupied, Unstarted, Before98
  <2>2. Cardinality(Executing) <= Cardinality(Occupied) /\ Cardinality(Executing) \in Nat
        /\ Cardinality(Occupied) \in Nat
    BY <2>1, OccupiedFinite, FS_Subset, FS_CardinalityType
  <2>3. QED
    BY <2>2, BoundAssumption DEF IInv, SlotInv, CurrentUploadBound, currentUploadCount
<1>2. QED
  BY <1>1, Invariance, PTL

-----------------------------------------------------------------------------
(* What a step can do to the state of an uploader: its worker takes it to  *)
(* Uploading at line 98 or to its final state, the main thread to Canceled.*)
LEMMA StateWrites ==
  ASSUME TypeOK, [Next]_vars, NEW o \in Op, state'[o] # state[o]
  PROVE  \/ pc[o] = "entering" /\ state'[o] = "Uploading"
         \/ pc[o] \in {"closing", "overwriting"} /\ state'[o] = finalState[o]
         \/ state'[o] = "Canceled"
<1>1. ASSUME NEW p \in Op, StartUpload(p) \/ QueueStarts(p) \/ Worker(p) \/ Network(p)
      PROVE  \/ pc[o] = "entering" /\ state'[o] = "Uploading"
             \/ pc[o] \in {"closing", "overwriting"} /\ state'[o] = finalState[o]
  BY <1>1 DEF TypeOK, StartUpload, QueueStarts, Worker, Network, Start, OpenConnection,
              CheckCancelled, BecomeExecuting, StartConnection, RunLoopReturns,
              ConnectionDidFinishLoading, ConnectionDidFail, Judge, FinishCheck, FinishSet,
              DispatchSuccess
<1>2. CASE Canceller
  BY <1>2 DEF TypeOK, Canceller, CancelConnection, CancelCheck, CancelSet
<1>3. CASE CancelAllUploads \/ RunMainBlock \/ (\E p \in Op : Cancel(p)) \/ UNCHANGED vars
  BY <1>3 DEF CancelAllUploads, RunMainBlock, Cancel, BeginCancel, vars
<1>4. QED
  BY <1>1, <1>2, <1>3 DEF Next

(* What a step can do to the place of a worker that has not passed the     *)
(* check of line 96 and whose uploader is cancelled.                       *)
LEMMA HeedfulStep ==
  ASSUME TypeOK, [Next]_vars, NEW o \in Op, state[o] = "Canceled", pc[o] \in Heedful
  PROVE  pc'[o] \in Heedful
<1> USE DEF TypeOK, Heedful, Before98, NotStarted
<1>1. ASSUME NEW p \in Op, StartUpload(p) \/ QueueStarts(p) \/ Worker(p) \/ Network(p)
      PROVE  pc'[o] \in Heedful
  BY <1>1 DEF StartUpload, QueueStarts, Worker, Network, Start, OpenConnection,
              CheckCancelled, BecomeExecuting, StartConnection, RunLoopReturns,
              ConnectionDidFinishLoading, ConnectionDidFail, Judge, FinishCheck, FinishSet,
              DispatchSuccess, NotifyError, Goto, isCancelled
<1>2. CASE Canceller \/ CancelAllUploads \/ RunMainBlock \/ \E p \in Op : Cancel(p)
  BY <1>2 DEF Canceller, CancelConnection, CancelCheck, CancelSet, CancelAllUploads,
              RunMainBlock, Cancel, BeginCancel, workerVars
<1>3. CASE UNCHANGED vars
  BY <1>3 DEF vars, workerVars
<1>4. QED
  BY <1>1, <1>2, <1>3 DEF Next

(* An uploader with an outcome keeps it or is cancelled: it never uploads  *)
(* again, since a worker past line 98 does not come back to it.            *)
THEOREM OutcomesFinal == Spec => OutcomeIsFinal
<1>1. IInv /\ [Next]_vars
        => [\A o \in Op : state[o] \in {"Uploaded", "Failed"}
              => state'[o] \in {state[o], "Canceled"}]_state
  <2> SUFFICES ASSUME IInv, [Next]_vars, NEW o \in Op, state[o] \in {"Uploaded", "Failed"}
               PROVE  state'[o] \in {state[o], "Canceled"}
    OBVIOUS
  <2>1. pc[o] \in {"thanking", "returned"}
    BY DEF IInv, WorkerInv
  <2>2. QED
    BY <2>1, StateWrites DEF IInv
<1>2. QED
  BY <1>1, Invariance, PTL DEF Spec, OutcomeIsFinal

(* A cancel that is complete before line 96 is never lost. *)
THEOREM EarlyCancelHolds == Spec => CancelBeforeCheckHolds
<1>1. IInv /\ [Next]_vars
        => [\A o \in Op : state[o] = "Canceled" /\ pc[o] \in Heedful
              => state'[o] = "Canceled" /\ pc'[o] \in Heedful]_<<state, pc>>
  <2> SUFFICES ASSUME IInv, [Next]_vars,
                      NEW o \in Op, state[o] = "Canceled", pc[o] \in Heedful
               PROVE  state'[o] = "Canceled" /\ pc'[o] \in Heedful
    OBVIOUS
  <2>1. pc'[o] \in Heedful
    BY HeedfulStep DEF IInv
  <2>2. pc[o] \notin {"entering", "closing", "overwriting"}
    BY DEF Heedful, Before98, NotStarted
  <2>3. QED
    BY <2>1, <2>2, StateWrites DEF IInv
<1>2. QED
  BY <1>1, Invariance, PTL DEF Spec, CancelBeforeCheckHolds

-----------------------------------------------------------------------------
(* The phase of an uploader only changes where its worker moves.           *)
phases == [o \in Op |-> PhaseOf(o)]

LEMMA PhaseStep ==
  ASSUME NEW o \in Op, NEW to,
         \A p \in Op \ {o} : pc'[p] = pc[p] /\ finalState'[p] = finalState[p],
         PhaseOf(o)' = to
  PROVE  phases' = [phases EXCEPT ![o] = to]
<1>1. ASSUME NEW p \in Op \ {o}
      PROVE  PhaseOf(p)' = PhaseOf(p)
  <2>1. pc'[p] = pc[p] /\ finalState'[p] = finalState[p]
    OBVIOUS
  <2>2. QED
    BY <2>1 DEF PhaseOf
<1>2. DOMAIN phases' = Op /\ DOMAIN phases = Op
  BY DEF phases
<1>3. \A p \in Op : phases'[p] = [phases EXCEPT ![o] = to][p]
  BY <1>1, <1>2 DEF phases
<1>4. QED
  BY <1>2, <1>3 DEF phases

LEMMA PhaseKept ==
  ASSUME pc' = pc, finalState' = finalState
  PROVE  phases' = phases
BY DEF phases, PhaseOf

(* A step of a worker or of the queue is a step of its ticket or a stutter. *)
LEMMA WorkerRefines ==
  ASSUME IInv, NEW o \in Op,
         StartUpload(o) \/ QueueStarts(o) \/ Worker(o) \/ Network(o)
  PROVE  [Ticket!TNext]_(Ticket!tVars)
<1> USE DEF IInv, TypeOK
<1> DEFINE P == PhaseOf(o)
<1>1. \A p \in Op \ {o} : pc'[p] = pc[p] /\ finalState'[p] = finalState[p]
  BY DEF StartUpload, QueueStarts, Worker, Network, Start, OpenConnection,
         CheckCancelled, BecomeExecuting, StartConnection, RunLoopReturns,
         ConnectionDidFinishLoading, ConnectionDidFail, Judge, FinishCheck, FinishSet,
         DispatchSuccess, NotifyError, Goto
<1> USE DEF PhaseOf, Before98, NotStarted, Finishing, Ended
<1>2. CASE StartUpload(o) \/ QueueStarts(o) \/ OpenConnection(o) \/ StartConnection(o)
           \/ FinishCheck(o)
  <2>1. P' = P
    BY <1>2 DEF StartUpload, QueueStarts, OpenConnection, StartConnection, FinishCheck, Goto
  <2>2. phases' = phases
    BY <1>1, <2>1 DEF phases
  <2>3. UNCHANGED <<state, mainQ, told>>
    BY <1>2 DEF StartUpload, QueueStarts, OpenConnection, StartConnection, FinishCheck
  <2>4. QED
    BY <2>2, <2>3 DEF Ticket!tVars, phases
<1>3. CASE RunLoopReturns(o)
  <2>1. P = "running" /\ P' = "done"
    BY <1>3 DEF RunLoopReturns, Goto
  <2>2. phases' = [phases EXCEPT ![o] = "done"] /\ phases[o] = "running"
    BY <1>1, <2>1, PhaseStep DEF phases
  <2>3. Ticket!Vanish(o)
    BY <1>3, <2>2 DEF RunLoopReturns, Ticket!Vanish, Ticket!Advance, phases
  <2>4. QED
    BY <2>3 DEF Ticket!TNext, Ticket!WorkerStep
<1>4. CASE (Start(o) /\ pc'[o] = "opening") \/ (CheckCancelled(o) /\ ~isCancelled(o))
  <2>1. P' = P
    BY <1>4 DEF Start, CheckCancelled, NotifyError, Goto
  <2>2. phases' = phases
    BY <1>1, <2>1 DEF phases
  <2>3. UNCHANGED <<state, mainQ, told>>
    BY <1>4 DEF Start, CheckCancelled, NotifyError, Goto
  <2>4. QED
    BY <2>2, <2>3 DEF Ticket!tVars, phases
<1>5. CASE (Start(o) \/ CheckCancelled(o)) /\ isCancelled(o)
  <2>1. P = "idle" /\ P' = "done"
    BY <1>5 DEF Start, CheckCancelled, Goto
  <2>2. phases' = [phases EXCEPT ![o] = "done"] /\ phases[o] = "idle"
    BY <1>1, <2>1, PhaseStep DEF phases
  <2>3. Ticket!Vanish(o)
    BY <1>5, <2>2 DEF Start, CheckCancelled, Ticket!Vanish, Ticket!Advance, phases
  <2>4. QED
    BY <2>3 DEF Ticket!TNext, Ticket!WorkerStep
<1>6. CASE Start(o) /\ NotifyError(o)
  <2>1. P = "idle" /\ P' = "failing"
    BY <1>6 DEF Start, NotifyError, Goto
  <2> HIDE DEF TypeOK, PhaseOf
  <2>2a. phases' = [phases EXCEPT ![o] = "failing"]
    BY <1>1, <2>1, PhaseStep
  <2>2b. phases[o] = "idle"
    BY <2>1 DEF phases
  <2>2. phases' = [phases EXCEPT ![o] = "failing"] /\ phases[o] = "idle"
    BY <2>2a, <2>2b
  <2>3. Ticket!AnnounceFailure(o)
    BY <1>6, <2>2 DEF Start, NotifyError, Dispatch, Ticket!Announce, Ticket!AnnounceFailure, Ticket!Advance, phases
  <2>4. QED
    BY <2>3 DEF Ticket!TNext, Ticket!WorkerStep
<1>7. CASE BecomeExecuting(o)
  <2>1. P = "idle" /\ P' = "running"
    BY <1>7 DEF BecomeExecuting, Goto
  <2>2. phases' = [phases EXCEPT ![o] = "running"] /\ phases[o] = "idle"
    BY <1>1, <2>1, PhaseStep DEF phases
  <2>3. Ticket!Begin(o)
    BY <1>7, <2>2 DEF BecomeExecuting, Ticket!Become, Ticket!Begin, Ticket!Advance, phases
  <2>4. QED
    BY <2>3 DEF Ticket!TNext, Ticket!WorkerStep
<1>8. CASE ConnectionDidFinishLoading(o) /\ isExecuting(o)
  <2>1. P' = P
    BY <1>8 DEF ConnectionDidFinishLoading, Goto
  <2>2. phases' = phases
    BY <1>1, <2>1 DEF phases
  <2>3. UNCHANGED <<state, mainQ, told>>
    BY <1>8 DEF ConnectionDidFinishLoading
  <2>4. QED
    BY <2>2, <2>3 DEF Ticket!tVars, phases
<1>9. CASE ConnectionDidFinishLoading(o) /\ ~isExecuting(o)
  <2>1. P = "running" /\ P' = "done"
    BY <1>9 DEF ConnectionDidFinishLoading, Goto
  <2>2. phases' = [phases EXCEPT ![o] = "done"] /\ phases[o] = "running"
    BY <1>1, <2>1, PhaseStep DEF phases
  <2>3. Ticket!Vanish(o)
    BY <1>9, <2>2 DEF ConnectionDidFinishLoading, Ticket!Vanish, Ticket!Advance, phases
  <2>4. QED
    BY <2>3 DEF Ticket!TNext, Ticket!WorkerStep
<1>10. CASE (ConnectionDidFail(o) \/ Judge(o)) /\ NotifyError(o)
  <2>1. P = "running" /\ P' = "failing"
    BY <1>10 DEF ConnectionDidFail, Judge, NotifyError, Goto
  <2>2. phases' = [phases EXCEPT ![o] = "failing"] /\ phases[o] = "running"
    BY <1>1, <2>1, PhaseStep DEF phases
  <2>3. Ticket!AnnounceFailure(o)
    BY <1>10, <2>2 DEF ConnectionDidFail, Judge, NotifyError, Dispatch, Ticket!Announce, Ticket!AnnounceFailure, Ticket!Advance, phases
  <2>4. QED
    BY <2>3 DEF Ticket!TNext, Ticket!WorkerStep
<1>11. CASE Judge(o) /\ pc'[o] = "finishing" /\ finalState'[o] = "Uploaded"
  <2>1. P' = P
    BY <1>11 DEF Judge, Goto
  <2>2. phases' = phases
    BY <1>1, <2>1 DEF phases
  <2>3. UNCHANGED <<state, mainQ, told>>
    BY <1>11 DEF Judge, NotifyError, Goto
  <2>4. QED
    BY <2>2, <2>3 DEF Ticket!tVars, phases
<1>12. CASE Judge(o) /\ pc'[o] = "returned"
  <2>1. P = "running" /\ P' = "done"
    BY <1>12 DEF Judge, Goto
  <2>2. phases' = [phases EXCEPT ![o] = "done"] /\ phases[o] = "running"
    BY <1>1, <2>1, PhaseStep DEF phases
  <2>3. Ticket!Vanish(o)
    BY <1>12, <2>2 DEF Judge, NotifyError, Goto, Ticket!Vanish, Ticket!Advance, phases
  <2>4. QED
    BY <2>3 DEF Ticket!TNext, Ticket!WorkerStep
<1>13. CASE FinishSet(o) /\ finalState[o] = "Failed"
  <2>1. P = "failing" /\ P' = "done"
    BY <1>13 DEF FinishSet, Goto
  <2>2. phases' = [phases EXCEPT ![o] = "done"] /\ phases[o] = "failing"
    BY <1>1, <2>1, PhaseStep DEF phases
  <2>3. Ticket!SetFailed(o)
    BY <1>13, <2>2 DEF FinishSet, Ticket!Become, Ticket!SetFailed, Ticket!Advance, phases
  <2>4. QED
    BY <2>3 DEF Ticket!TNext, Ticket!WorkerStep
<1>14. CASE FinishSet(o) /\ finalState[o] = "Uploaded"
  <2>1. P = "running" /\ P' = "owing"
    BY <1>14 DEF FinishSet, Goto
  <2>2. phases' = [phases EXCEPT ![o] = "owing"] /\ phases[o] = "running"
    BY <1>1, <2>1, PhaseStep DEF phases
  <2>3. Ticket!SetUploaded(o)
    BY <1>14, <2>2 DEF FinishSet, Ticket!Become, Ticket!SetUploaded, Ticket!Advance, phases
  <2>4. QED
    BY <2>3 DEF Ticket!TNext, Ticket!WorkerStep
<1>15. CASE DispatchSuccess(o)
  <2>1. P = "owing" /\ P' = "done"
    BY <1>15 DEF DispatchSuccess, Goto
  <2>2. phases' = [phases EXCEPT ![o] = "done"] /\ phases[o] = "owing"
    BY <1>1, <2>1, PhaseStep DEF phases
  <2>3. Ticket!AnnounceSuccess(o)
    BY <1>15, <2>2 DEF DispatchSuccess, Dispatch, Ticket!Announce, Ticket!AnnounceSuccess, Ticket!Advance, phases
  <2>4. QED
    BY <2>3 DEF Ticket!TNext, Ticket!WorkerStep
<1>16. Start(o) => \/ pc'[o] = "opening" \/ isCancelled(o) \/ NotifyError(o)
  BY DEF Start, Goto
<1>17. Judge(o) => \/ NotifyError(o)
                   \/ pc'[o] = "returned"
                   \/ pc'[o] = "finishing" /\ finalState'[o] = "Uploaded"
  <2> SUFFICES ASSUME Judge(o), ~NotifyError(o), pc'[o] # "returned"
               PROVE  pc'[o] = "finishing" /\ finalState'[o] = "Uploaded"
    OBVIOUS
  <2>1. pc' = [pc EXCEPT ![o] = "finishing"] /\ finalState' = [finalState EXCEPT ![o] = "Uploaded"]
    <3>1. ~Goto(o, "returned")
      BY DEF Goto
    <3>2. QED
      BY <3>1 DEF Judge, Goto
  <2>2. QED
    BY <2>1
<1>18. ConnectionDidFail(o) => NotifyError(o)
  BY DEF ConnectionDidFail
<1>19. FinishSet(o) => finalState[o] \in {"Uploaded", "Failed"}
  BY DEF FinishSet, WorkerInv
<1>20. QED
  BY <1>2, <1>3, <1>4, <1>5, <1>6, <1>7, <1>8, <1>9, <1>10, <1>11, <1>12, <1>13, <1>14,
     <1>15, <1>16, <1>17, <1>18, <1>19 DEF Worker, Network

(* A step of the main thread likewise. *)
LEMMA MainRefines ==
  ASSUME IInv, CancelAllUploads \/ Canceller \/ RunMainBlock \/ \E o \in Op : Cancel(o)
  PROVE  [Ticket!TNext]_(Ticket!tVars)
<1>1. phases' = phases
  BY PhaseKept DEF CancelAllUploads, Canceller, RunMainBlock, Cancel, BeginCancel,
                   CancelConnection, CancelCheck, CancelSet, workerVars
<1>2. CASE CancelAllUploads \/ \E o \in Op : Cancel(o)
  BY <1>1, <1>2 DEF CancelAllUploads, Cancel, BeginCancel, Ticket!tVars, phases
<1>3. CASE RunMainBlock
  BY <1>1, <1>3 DEF RunMainBlock, Ticket!TNext, Ticket!Deliver, phases
<1>4. ASSUME NEW o \in Op, CancelConnection(o) \/ CancelCheck(o)
      PROVE  UNCHANGED Ticket!tVars
  BY <1>1, <1>4 DEF CancelConnection, CancelCheck, Ticket!tVars, phases
<1>5. ASSUME NEW o \in Op, CancelSet(o)
      PROVE  Ticket!SetCanceled(o)
  BY <1>1, <1>5 DEF CancelSet, Ticket!SetCanceled, Ticket!Become, phases
<1>6. QED
  BY <1>2, <1>3, <1>4, <1>5 DEF Canceller, Ticket!TNext

(* Every step of the detailed specification is a step of a ticket or a stutter. *)
LEMMA StepRefines ==
  ASSUME IInv, [Next]_vars
  PROVE  [Ticket!TNext]_(Ticket!tVars)
<1>1. CASE \E o \in Op : StartUpload(o) \/ QueueStarts(o) \/ Worker(o) \/ Network(o)
  BY <1>1, WorkerRefines
<1>2. CASE CancelAllUploads \/ Canceller \/ RunMainBlock \/ \E o \in Op : Cancel(o)
  BY <1>2, MainRefines
<1>3. CASE UNCHANGED vars
  BY <1>3, PhaseKept DEF vars, workerVars, Ticket!tVars, phases
<1>4. QED
  BY <1>1, <1>2, <1>3 DEF Next

(* UploadQueue implements UploadTicket. *)
THEOREM Refinement == Spec => ImplementsTicket
<1>1. Init => Ticket!TInit
  <2> SUFFICES ASSUME Init PROVE Ticket!TInit
    OBVIOUS
  <2>1. ASSUME NEW o \in Op
        PROVE  PhaseOf(o) = "idle"
    <3>1. pc[o] = "new"
      BY DEF Init
    <3>2. QED
      BY <3>1 DEF PhaseOf, Before98, NotStarted, Finishing
  <2>2. [o \in Op |-> PhaseOf(o)] = [o \in Op |-> "idle"]
    BY <2>1
  <2>3. QED
    BY <2>2 DEF Init, Ticket!TInit
<1>2. IInv /\ [Next]_vars => [Ticket!TNext]_(Ticket!tVars)
  BY StepRefines
<1>3. QED
  BY <1>1, <1>2, Invariance, PTL DEF Spec, ImplementsTicket, Ticket!TSpec

-----------------------------------------------------------------------------
(***************************************************************************)
(* What the delegate hears is proved of the ticket an uploader implements: *)
(* its eight actions stand for the twenty of the threads.                  *)
(***************************************************************************)
(* An uploader of which nothing was announced. *)
Quiet(o) == told[o] = "none" /\ \A i \in DOMAIN mainQ : mainQ[i].op # o

(* Until its ticket is judged an uploader has been quiet, and a failure is *)
(* announced before the state shows it, a success after.                   *)
OutcomeInv(o) ==
  /\ phases[o] \in {"idle", "running", "owing"} => Quiet(o)
  /\ phases[o] = "failing" => Announced(o, "stop")
  /\ state[o] = "Failed" => Announced(o, "stop")
  /\ state[o] = "Uploaded" => phases[o] = "owing" \/ Announced(o, "success")

OInv == OneOutcome /\ \A o \in Op : OutcomeInv(o)
-----------------------------------------------------------------------------
(* A notice that is posted is last in the queue, and one that is there     *)
(* stays there.                                                            *)
LEMMA AnnouncePosts ==
  ASSUME TypeOK, NEW o \in Op, NEW kind \in {"success", "stop"},
         Ticket!Announce(o, kind), UNCHANGED told
  PROVE  /\ Announced(o, kind)'
         /\ \A p \in Op : \A k : Announced(p, k) => Announced(p, k)'
         /\ \A p \in Op \ {o} : Quiet(p) => Quiet(p)'
<1>1. mainQ' = Append(mainQ, [op |-> o, kind |-> kind]) /\ told' = told
  BY DEF Ticket!Announce
<1>2. mainQ \in Seq(Notice) /\ [op |-> o, kind |-> kind] \in Notice
  BY DEF TypeOK, Notice
<1>3. /\ DOMAIN mainQ' = 1 .. Len(mainQ) + 1 /\ DOMAIN mainQ = 1 .. Len(mainQ)
      /\ Len(mainQ) \in Nat
      /\ mainQ'[Len(mainQ) + 1] = [op |-> o, kind |-> kind]
      /\ \A i \in DOMAIN mainQ : mainQ'[i] = mainQ[i]
  BY <1>1, <1>2, AppendProperties
<1>4. Announced(o, kind)'
  <2>1. Len(mainQ) + 1 \in DOMAIN mainQ'
    BY <1>3
  <2>2. QED
    BY <1>3, <2>1 DEF Announced
<1>5. ASSUME NEW p \in Op, NEW k, Announced(p, k)
      PROVE  Announced(p, k)'
  BY <1>1, <1>3, <1>5 DEF Announced
<1>6. ASSUME NEW p \in Op \ {o}, Quiet(p)
      PROVE  Quiet(p)'
  <2>1. told'[p] = "none"
    BY <1>1, <1>6 DEF Quiet
  <2>2. ASSUME NEW i \in DOMAIN mainQ'
        PROVE  mainQ'[i].op # p
    <3>1. CASE i \in DOMAIN mainQ
      BY <1>3, <1>6, <3>1 DEF Quiet
    <3>2. CASE i = Len(mainQ) + 1
      BY <1>3, <3>2
    <3>3. QED
      BY <1>3, <3>1, <3>2
  <2>3. QED
    BY <2>1, <2>2 DEF Quiet
<1>7. QED
  BY <1>4, <1>5, <1>6

(* Announcing a quiet uploader leaves one outcome each. *)
LEMMA AnnounceOnce ==
  ASSUME TypeOK, OneOutcome, NEW o \in Op, NEW kind \in {"success", "stop"}, Quiet(o),
         Ticket!Announce(o, kind), UNCHANGED told
  PROVE  OneOutcome'
<1>1. mainQ' = Append(mainQ, [op |-> o, kind |-> kind]) /\ told' = told
  BY DEF Ticket!Announce
<1>2. mainQ \in Seq(Notice) /\ [op |-> o, kind |-> kind] \in Notice
  BY DEF TypeOK, Notice
<1>3. /\ DOMAIN mainQ' = 1 .. Len(mainQ) + 1 /\ DOMAIN mainQ = 1 .. Len(mainQ)
      /\ Len(mainQ) \in Nat
      /\ mainQ'[Len(mainQ) + 1] = [op |-> o, kind |-> kind]
      /\ \A i \in DOMAIN mainQ : mainQ'[i] = mainQ[i]
  BY <1>1, <1>2, AppendProperties
<1>4. mainQ'[Len(mainQ) + 1].op = o
  BY <1>3
<1>5. ASSUME NEW i \in DOMAIN mainQ'
      PROVE  told'[mainQ'[i].op] = "none"
  <2>1. CASE i \in DOMAIN mainQ
    BY <1>1, <1>3, <2>1 DEF OneOutcome
  <2>2. CASE i = Len(mainQ) + 1
    BY <1>1, <1>4, <2>2 DEF Quiet
  <2>3. QED
    BY <1>3, <2>1, <2>2
<1>6. ASSUME NEW i \in DOMAIN mainQ', NEW j \in DOMAIN mainQ',
             mainQ'[i].op = mainQ'[j].op
      PROVE  i = j
  <2>1. CASE i \in DOMAIN mainQ /\ j \in DOMAIN mainQ
    BY <1>3, <1>6, <2>1 DEF OneOutcome
  <2>2. CASE i = Len(mainQ) + 1 /\ j \in DOMAIN mainQ
    BY <1>3, <1>4, <1>6, <2>2 DEF Quiet
  <2>3. CASE j = Len(mainQ) + 1 /\ i \in DOMAIN mainQ
    BY <1>3, <1>4, <1>6, <2>3 DEF Quiet
  <2>4. QED
    BY <1>3, <2>1, <2>2, <2>3
<1>7. QED
  BY <1>5, <1>6 DEF OneOutcome

(* Delivering the first notice keeps every other one, and is what was      *)
(* announced.                                                              *)
LEMMA DeliverKeeps ==
  ASSUME TypeOK, OneOutcome, Ticket!Deliver
  PROVE  /\ OneOutcome'
         /\ \A p \in Op : \A k \in {"success", "stop"} :
              Announced(p, k) => Announced(p, k)'
         /\ \A p \in Op : Quiet(p) => Quiet(p)'
<1> DEFINE first == Head(mainQ)
<1>1. /\ mainQ # << >> /\ mainQ' = Tail(mainQ) /\ mainQ \in Seq(Notice)
      /\ told' = [told EXCEPT ![first.op] = first.kind]
  BY DEF Ticket!Deliver, TypeOK
<1>2. /\ first = mainQ[1] /\ 1 \in DOMAIN mainQ /\ DOMAIN mainQ = 1 .. Len(mainQ)
      /\ Len(mainQ) \in Nat /\ DOMAIN mainQ' = 1 .. Len(mainQ) - 1
      /\ \A i \in DOMAIN mainQ' : i + 1 \in DOMAIN mainQ /\ mainQ'[i] = mainQ[i + 1]
  BY <1>1, HeadTailProperties
<1>3. first.op \in Op /\ told'[first.op] = first.kind
      /\ \A p \in Op \ {first.op} : told'[p] = told[p]
  <2>1. first \in Notice
    BY <1>1, <1>2
  <2>2. first.op \in Op
    BY <2>1 DEF Notice
  <2>3. QED
    BY <1>1, <2>2 DEF TypeOK
<1>4. ASSUME NEW i \in DOMAIN mainQ
      PROVE  mainQ[i].op \in Op
  <2>1. mainQ[i] \in Notice
    BY <1>1, <1>2
  <2>2. QED
    BY <2>1 DEF Notice
<1>5. \A i \in DOMAIN mainQ' : mainQ'[i].op # first.op
  <2> SUFFICES ASSUME NEW i \in DOMAIN mainQ', mainQ'[i].op = first.op
               PROVE  FALSE
    OBVIOUS
  <2>1. i + 1 = 1
    BY <1>2 DEF OneOutcome
  <2>2. QED
    BY <1>2, <2>1
<1>6. OneOutcome'
  <2>1. ASSUME NEW i \in DOMAIN mainQ'
        PROVE  told'[mainQ'[i].op] = "none"
    <3>1. told[mainQ[i + 1].op] = "none" /\ mainQ[i + 1].op \in Op
      BY <1>2, <1>4 DEF OneOutcome
    <3>2. QED
      BY <1>2, <1>3, <1>5, <3>1
  <2>2. ASSUME NEW i \in DOMAIN mainQ', NEW j \in DOMAIN mainQ',
               mainQ'[i].op = mainQ'[j].op
        PROVE  i = j
    <3>1. i + 1 = j + 1
      BY <1>2, <2>2 DEF OneOutcome
    <3>2. QED
      BY <1>2, <3>1
  <2>3. QED
    BY <2>1, <2>2 DEF OneOutcome
<1>7. ASSUME NEW p \in Op, NEW k \in {"success", "stop"}, Announced(p, k)
      PROVE  Announced(p, k)'
  <2>1. CASE told[p] = k
    <3>1. told[first.op] = "none"
      BY <1>2 DEF OneOutcome
    <3>2. QED
      BY <1>3, <2>1, <3>1 DEF Announced
  <2>2. ASSUME NEW i \in DOMAIN mainQ, mainQ[i] = [op |-> p, kind |-> k]
        PROVE  Announced(p, k)'
    <3>1. CASE i = 1
      BY <1>2, <1>3, <2>2, <3>1 DEF Announced
    <3>2. CASE i # 1
      <4>1. i - 1 \in DOMAIN mainQ' /\ mainQ'[i - 1] = mainQ[(i - 1) + 1]
            /\ (i - 1) + 1 = i
        BY <1>2, <3>2
      <4>2. QED
        BY <2>2, <4>1 DEF Announced
    <3>3. QED
      BY <3>1, <3>2
  <2>3. QED
    BY <1>7, <2>1, <2>2 DEF Announced
<1>8. ASSUME NEW p \in Op, Quiet(p)
      PROVE  Quiet(p)'
  BY <1>2, <1>3, <1>8 DEF Quiet
<1>9. QED
  BY <1>6, <1>7, <1>8
-----------------------------------------------------------------------------
LEMMA NoticesKept ==
  ASSUME UNCHANGED <<mainQ, told>>
  PROVE  /\ OneOutcome' <=> OneOutcome
         /\ \A p \in Op : Quiet(p) <=> Quiet(p)'
         /\ \A p \in Op : \A k : Announced(p, k) <=> Announced(p, k)'
BY DEF OneOutcome, Quiet, Announced

(* Every step of a ticket keeps the invariant. *)
LEMMA OutcomeStep ==
  ASSUME IInv, OInv, [Ticket!TNext]_(Ticket!tVars)
  PROVE  OInv'
<1> USE DEF OInv
<1>0. /\ TypeOK /\ OneOutcome /\ \A o \in Op : OutcomeInv(o)
      /\ state \in [Op -> HeroUploadState]
      /\ DOMAIN phases = Op
  BY DEF IInv, TypeOK, phases
<1>p. [o \in Op |-> PhaseOf(o)] = phases /\ [o \in Op |-> PhaseOf(o)]' = phases'
  BY DEF phases
<1>1. ASSUME NEW o \in Op, Ticket!Begin(o) \/ Ticket!SetFailed(o) \/ Ticket!SetUploaded(o)
                           \/ Ticket!Vanish(o) \/ Ticket!SetCanceled(o)
      PROVE  OInv'
  <2>1. OneOutcome' /\ UNCHANGED <<mainQ, told>>
    BY <1>0, <1>1, NoticesKept DEF Ticket!Begin, Ticket!SetFailed, Ticket!SetUploaded,
       Ticket!Vanish, Ticket!SetCanceled
  <2>2. ASSUME NEW p \in Op \ {o}
        PROVE  OutcomeInv(p)'
    <3>1. phases'[p] = phases[p] /\ state'[p] = state[p]
      BY <1>0, <1>1, <1>p DEF Ticket!Begin, Ticket!SetFailed, Ticket!SetUploaded,
         Ticket!Vanish, Ticket!SetCanceled, Ticket!Advance, Ticket!Become
    <3>2. QED
      BY <1>0, <2>1, <3>1, NoticesKept DEF OutcomeInv
  <2>3. OutcomeInv(o)'
    <3>1. CASE Ticket!Begin(o)
      <4>1. phases[o] = "idle" /\ phases'[o] = "running" /\ state'[o] = "Uploading"
        BY <1>0, <1>p, <3>1 DEF Ticket!Begin, Ticket!Advance, Ticket!Become
      <4>2. QED
        BY <1>0, <2>1, <4>1, NoticesKept DEF OutcomeInv
    <3>2. CASE Ticket!SetFailed(o)
      <4>1. phases[o] = "failing" /\ phases'[o] = "done" /\ state'[o] = "Failed"
        BY <1>0, <1>p, <3>2 DEF Ticket!SetFailed, Ticket!Advance, Ticket!Become
      <4>2. QED
        BY <1>0, <2>1, <4>1, NoticesKept DEF OutcomeInv
    <3>3. CASE Ticket!SetUploaded(o)
      <4>1. phases[o] = "running" /\ phases'[o] = "owing" /\ state'[o] = "Uploaded"
        BY <1>0, <1>p, <3>3 DEF Ticket!SetUploaded, Ticket!Advance, Ticket!Become
      <4>2. QED
        BY <1>0, <2>1, <4>1, NoticesKept DEF OutcomeInv
    <3>4. CASE Ticket!Vanish(o)
      <4>1. phases[o] \in {"idle", "running"} /\ phases'[o] = "done" /\ state' = state
        BY <1>0, <1>p, <3>4 DEF Ticket!Vanish, Ticket!Advance
      <4>2. QED
        BY <1>0, <2>1, <4>1, NoticesKept DEF OutcomeInv
    <3>5. CASE Ticket!SetCanceled(o)
      <4>1. phases' = phases /\ state'[o] = "Canceled"
        BY <1>0, <1>p, <3>5 DEF Ticket!SetCanceled, Ticket!Become
      <4>2. QED
        BY <1>0, <2>1, <4>1, NoticesKept DEF OutcomeInv
    <3>6. QED
      BY <1>1, <3>1, <3>2, <3>3, <3>4, <3>5
  <2>4. QED
    BY <2>1, <2>2, <2>3
<1>2. ASSUME NEW o \in Op, NEW kind \in {"success", "stop"}, NEW to \in {"failing", "done"},
             phases[o] \in {"idle", "running", "owing"},
             phases' = [phases EXCEPT ![o] = to], to = "failing" => kind = "stop",
             phases[o] = "owing" => kind = "success",
             Ticket!Announce(o, kind), UNCHANGED <<state, told>>
      PROVE  OInv'
  <2>1. Quiet(o)
    BY <1>0, <1>2 DEF OutcomeInv
  <2>2. OneOutcome'
    BY <1>0, <1>2, <2>1, AnnounceOnce
  <2>3. /\ Announced(o, kind)'
        /\ \A p \in Op : \A k : Announced(p, k) => Announced(p, k)'
        /\ \A p \in Op \ {o} : Quiet(p) => Quiet(p)'
    BY <1>0, <1>2, AnnouncePosts
  <2>4. ASSUME NEW p \in Op \ {o}
        PROVE  OutcomeInv(p)'
    <3>1. phases'[p] = phases[p] /\ state'[p] = state[p]
      BY <1>0, <1>2
    <3>2. QED
      BY <1>0, <2>3, <3>1 DEF OutcomeInv
  <2>5. OutcomeInv(o)'
    <3>1. phases'[o] = to /\ state'[o] = state[o]
      BY <1>0, <1>2
    <3>2. QED
      BY <1>0, <1>2, <2>3, <3>1 DEF OutcomeInv
  <2>6. QED
    BY <2>2, <2>4, <2>5
<1>3. ASSUME NEW o \in Op, Ticket!AnnounceFailure(o)
      PROVE  OInv'
  <2>1. /\ phases[o] \in {"idle", "running"} /\ phases' = [phases EXCEPT ![o] = "failing"]
        /\ Ticket!Announce(o, "stop") /\ UNCHANGED <<state, told>>
    BY <1>3, <1>p DEF Ticket!AnnounceFailure, Ticket!Advance
  <2>2. QED
    BY <1>2, <2>1
<1>4. ASSUME NEW o \in Op, Ticket!AnnounceSuccess(o)
      PROVE  OInv'
  <2>1. /\ phases[o] = "owing" /\ phases' = [phases EXCEPT ![o] = "done"]
        /\ Ticket!Announce(o, "success") /\ UNCHANGED <<state, told>>
    BY <1>4, <1>p DEF Ticket!AnnounceSuccess, Ticket!Advance
  <2>2. QED
    BY <1>2, <2>1
<1>5. CASE Ticket!Deliver
  <2>1. /\ OneOutcome'
        /\ \A p \in Op : \A k \in {"success", "stop"} : Announced(p, k) => Announced(p, k)'
        /\ \A p \in Op : Quiet(p) => Quiet(p)'
    BY <1>0, <1>5, DeliverKeeps
  <2>2. state' = state /\ phases' = phases
    BY <1>5, <1>p DEF Ticket!Deliver
  <2>3. QED
    BY <1>0, <2>1, <2>2 DEF OutcomeInv
<1>6. CASE UNCHANGED Ticket!tVars
  <2>1. state' = state /\ phases' = phases /\ UNCHANGED <<mainQ, told>>
    BY <1>6, <1>p DEF Ticket!tVars
  <2>2. QED
    BY <1>0, <2>1, NoticesKept DEF OutcomeInv
<1>7. QED
  BY <1>1, <1>3, <1>4, <1>5, <1>6 DEF Ticket!TNext, Ticket!WorkerStep

(* In every reachable state the ticket's invariant holds. *)
THEOREM OutcomeInvariance == Spec => []OInv
<1>1. Init => OInv
  <2> SUFFICES ASSUME Init
               PROVE  OInv
    OBVIOUS
  <2>1. DOMAIN mainQ = {} /\ \A o \in Op : told[o] = "none" /\ state[o] = "Ready"
    BY DEF Init
  <2>2. ASSUME NEW o \in Op
        PROVE  phases[o] = "idle"
    <3>1. pc[o] = "new"
      BY DEF Init
    <3>2. PhaseOf(o) = "idle"
      BY <3>1 DEF PhaseOf, Before98, NotStarted, Finishing
    <3>3. QED
      BY <3>2 DEF phases
  <2>3. QED
    BY <2>1, <2>2 DEF OInv, OneOutcome, OutcomeInv, Quiet
<1>2. IInv /\ OInv /\ [Next]_vars => OInv'
  BY StepRefines, OutcomeStep
<1>3. QED
  BY <1>1, <1>2, Invariance, PTL DEF Spec

(* The delegate is told at most one outcome of an upload, even when it is  *)
(* cancelled while its answer is being judged.                             *)
THEOREM OutcomeOnce == Spec => []OneOutcome
<1>1. OInv => OneOutcome
  BY DEF OInv
<1>2. QED
  BY <1>1, OutcomeInvariance, PTL

(* What the state of an uploader says is what its delegate hears, or will. *)
THEOREM OutcomeShown == Spec => []OutcomeMatchesState
<1>1. IInv /\ OInv => OutcomeMatchesState
  <2> SUFFICES ASSUME IInv, OInv, NEW o \in Op
               PROVE  /\ state[o] = "Failed" => Announced(o, "stop")
                      /\ state[o] = "Uploaded" => pc[o] = "thanking" \/ Announced(o, "success")
    BY DEF OutcomeMatchesState
  <2>1. phases[o] = "owing" => pc[o] = "thanking"
    BY DEF phases, PhaseOf
  <2>2. QED
    BY <2>1 DEF OInv, OutcomeInv
<1>2. QED
  BY <1>1, Invariance, OutcomeInvariance, PTL
-----------------------------------------------------------------------------
(* A slot can only be leaked by an upload with an excuse: cancelled, or of *)
(* a refused URL.                                                          *)
Excused(o) == o \in cancelled \cup BadURL
Working == {"scheduling", "looping", "judging"}

(* Only -cancel cancels; without an excuse a worker executes until its     *)
(* state is written, so it takes the branch that posts isFinished; and a   *)
(* worker has no final state before it is judged.                          *)
LeakInv(o) ==
  /\ state[o] = "Canceled" \/ conn[o] = "cancelled" \/ pc[o] = "skipped" => o \in cancelled
  /\ pc[o] \in Unstarted \cup Working => finalState[o] = "none"
  /\ pc[o] \in Working \cup {"finishing", "closing"} => Excused(o) \/ isExecuting(o)
  /\ pc[o] = "overwriting" => Excused(o)
  /\ pc[o] = "thanking" => Excused(o) \/ finished[o]
  /\ pc[o] = "returned" => Excused(o) \/ finished[o] \/ Silent(o)

(* The main thread marks an uploader before it writes its state. *)
MarkInv ==
  stage \in {"check", "close", "overwrite"} => \A o \in Op : Current(o) => o \in cancelled

LInv == (\A o \in Op : LeakInv(o)) /\ MarkInv

LEMMA LeakWorkerStep ==
  ASSUME TypeOK, \A p \in Op : LeakInv(p), NEW o \in Op,
         StartUpload(o) \/ QueueStarts(o) \/ Worker(o) \/ Network(o)
  PROVE  \A p \in Op : LeakInv(p)'
<1>1. ASSUME NEW p \in Op \ {o}
      PROVE  LeakInv(p)'
  <2>1. /\ state'[p] = state[p] /\ pc'[p] = pc[p] /\ conn'[p] = conn[p]
        /\ finished'[p] = finished[p] /\ finalState'[p] = finalState[p]
        /\ cancelled' = cancelled
    BY DEF TypeOK, StartUpload, QueueStarts, Worker, Network, Start, OpenConnection,
           CheckCancelled, BecomeExecuting, StartConnection, RunLoopReturns,
           ConnectionDidFinishLoading, ConnectionDidFail, Judge, FinishCheck, FinishSet,
           DispatchSuccess, NotifyError, Goto, queueVars, mainVars
  <2>2. QED
    BY <2>1 DEF LeakInv, Excused, isExecuting, Silent
<1>2. LeakInv(o)'
  <2> USE DEF TypeOK, LeakInv, Excused, Silent, Working, Unstarted, Before98, NotStarted,
              isExecuting
  <2>1. CASE StartUpload(o)
    BY <2>1 DEF StartUpload, Goto, mainVars
  <2>2. CASE QueueStarts(o)
    BY <2>2 DEF QueueStarts, Goto, mainVars, queueVars
  <2>3. CASE Start(o)
    BY <2>3 DEF Start, NotifyError, Goto, mainVars, queueVars, isCancelled
  <2>4. CASE OpenConnection(o)
    BY <2>4 DEF OpenConnection, Goto, mainVars, queueVars
  <2>5. CASE CheckCancelled(o)
    BY <2>5 DEF CheckCancelled, Goto, mainVars, queueVars, isCancelled
  <2>6. CASE BecomeExecuting(o)
    BY <2>6 DEF BecomeExecuting, Goto, mainVars, queueVars
  <2>7. CASE StartConnection(o)
    BY <2>7 DEF StartConnection, Goto, mainVars, queueVars
  <2>8. CASE RunLoopReturns(o)
    BY <2>8 DEF RunLoopReturns, Goto, mainVars, queueVars
  <2>9. CASE ConnectionDidFinishLoading(o)
    BY <2>9 DEF ConnectionDidFinishLoading, Goto, mainVars, queueVars
  <2>10. CASE ConnectionDidFail(o)
    BY <2>10 DEF ConnectionDidFail, NotifyError, Goto, mainVars, queueVars
  <2>11. CASE Judge(o)
    BY <2>11 DEF Judge, NotifyError, Goto, mainVars, queueVars
  <2>12. CASE FinishCheck(o)
    BY <2>12 DEF FinishCheck, Goto, mainVars, queueVars
  <2>13. CASE FinishSet(o)
    BY <2>13 DEF FinishSet, Goto, mainVars
  <2>14. CASE DispatchSuccess(o)
    BY <2>14 DEF DispatchSuccess, Goto, mainVars, queueVars
  <2>15. QED
    BY <2>1, <2>2, <2>3, <2>4, <2>5, <2>6, <2>7, <2>8, <2>9, <2>10, <2>11, <2>12,
       <2>13, <2>14 DEF Worker, Network
<1>3. QED
  BY <1>1, <1>2

LEMMA LeakMainStep ==
  ASSUME TypeOK, \A p \in Op : LeakInv(p), MarkInv, NEW o \in Op, Current(o),
         CancelConnection(o) \/ CancelCheck(o) \/ CancelSet(o)
  PROVE  \A p \in Op : LeakInv(p)'
<1> USE DEF LeakInv, Excused, Silent, isExecuting
<1>1. CASE CancelConnection(o)
  <2>1. /\ cancelled' = cancelled \cup {o}
        /\ UNCHANGED <<state, pc, finalState, finished>>
        /\ \A p \in Op \ {o} : conn'[p] = conn[p]
    BY <1>1 DEF CancelConnection, Disconnect, queueVars, TypeOK
  <2>2. QED
    BY <2>1
<1>2. CASE CancelCheck(o)
  BY <1>2 DEF CancelCheck, workerVars, queueVars
<1>3. CASE CancelSet(o)
  <2>1. o \in cancelled
    BY <1>3 DEF CancelSet, MarkInv
  <2>2. /\ UNCHANGED <<pc, conn, finalState, cancelled>>
        /\ \A p \in Op \ {o} : state'[p] = state[p] /\ finished'[p] = finished[p]
    BY <1>3 DEF CancelSet, workerVars, TypeOK
  <2>3. QED
    BY <2>1, <2>2
<1>4. QED
  BY <1>1, <1>2, <1>3

LEMMA MarkStep ==
  ASSUME TypeOK, ListedInv, MarkInv, [Next]_vars
  PROVE  MarkInv'
<1>1. ASSUME NEW o \in Op, StartUpload(o)
      PROVE  MarkInv'
  BY <1>1 DEF StartUpload, MainIdle, mainVars, MarkInv, Current, TypeOK
<1>2. CASE \E o \in Op : QueueStarts(o) \/ Worker(o) \/ Network(o)
  <2>1. UNCHANGED <<stage, cancelling, added, cancelled>>
    BY <1>2 DEF QueueStarts, Worker, Network, Start, OpenConnection, CheckCancelled,
                BecomeExecuting, StartConnection, RunLoopReturns,
                ConnectionDidFinishLoading, ConnectionDidFail, Judge, FinishCheck,
                FinishSet, DispatchSuccess, mainVars, queueVars
  <2>2. QED
    BY <2>1 DEF MarkInv, Current, Precedes
<1>3. CASE CancelAllUploads \/ \E o \in Op : Cancel(o)
  BY <1>3 DEF CancelAllUploads, Cancel, BeginCancel, MarkInv
<1>4. CASE Canceller
  <2>1. PICK o \in Op : /\ Current(o)
                        /\ CancelConnection(o) \/ CancelCheck(o) \/ CancelSet(o)
    BY <1>4 DEF Canceller
  <2>2. CASE CancelConnection(o) \/ CancelCheck(o)
    <3>1. UNCHANGED <<cancelling, added>> /\ cancelled \subseteq cancelled'
          /\ (CancelConnection(o) => o \in cancelled')
          /\ (CancelCheck(o) => stage = "check")
      BY <2>2 DEF CancelConnection, CancelCheck, queueVars
    <3>2. \A p \in Op : Current(p)' => p = o
      BY <2>1, <3>1, OneCurrent DEF Current, Precedes
    <3>3. QED
      BY <2>1, <2>2, <3>1, <3>2 DEF MarkInv
  <2>3. CASE CancelSet(o)
    BY <2>3 DEF CancelSet, MarkInv
  <2>4. QED
    BY <2>1, <2>2, <2>3
<1>5. CASE RunMainBlock \/ UNCHANGED vars
  <2>1. UNCHANGED <<stage, cancelling, added, cancelled>>
    BY <1>5 DEF RunMainBlock, vars, queueVars, mainVars
  <2>2. QED
    BY <2>1 DEF MarkInv, Current, Precedes
<1>6. QED
  BY <1>1, <1>2, <1>3, <1>4, <1>5 DEF Next

(* In every reachable state a worker off the path that gives its slot back *)
(* has an excuse, and the main thread has marked what it is cancelling.    *)
THEOREM LeakInvariance == Spec => []LInv
<1>1. Init => LInv
  BY DEF Init, LInv, LeakInv, MarkInv, Working, Unstarted, Before98, NotStarted
<1>2. IInv /\ LInv /\ [Next]_vars => LInv'
  <2> SUFFICES ASSUME IInv, LInv, [Next]_vars
               PROVE  LInv'
    OBVIOUS
  <2>1. TypeOK /\ ListedInv /\ MarkInv /\ \A p \in Op : LeakInv(p)
    BY DEF IInv, LInv
  <2>2. MarkInv'
    BY <2>1, MarkStep
  <2>3. \A p \in Op : LeakInv(p)'
    <3>1. CASE \E o \in Op : StartUpload(o) \/ QueueStarts(o) \/ Worker(o) \/ Network(o)
      BY <2>1, <3>1, LeakWorkerStep
    <3>2. CASE Canceller
      BY <2>1, <3>2, LeakMainStep DEF Canceller
    <3>3. CASE CancelAllUploads \/ RunMainBlock \/ (\E o \in Op : Cancel(o)) \/ UNCHANGED vars
      <4>1. UNCHANGED <<state, pc, conn, finalState, finished, cancelled>>
        BY <3>3 DEF CancelAllUploads, RunMainBlock, Cancel, BeginCancel, vars, workerVars,
                    queueVars, mainVars
      <4>2. QED
        BY <2>1, <4>1 DEF LeakInv, Excused, Silent, isExecuting
    <3>4. QED
      BY <3>1, <3>2, <3>3 DEF Next
  <2>4. QED
    BY <2>2, <2>3 DEF LInv
<1>3. QED
  BY <1>1, <1>2, Invariance, PTL DEF Spec

(* An upload that was not cancelled, whose URL was not refused and whose   *)
(* reply said something gives its slot back.                               *)
THEOREM SlotsReturned == Spec => []SlotReturned
<1>1. LInv => SlotReturned
  BY DEF LInv, LeakInv, SlotReturned, Leaked, Ended, Excused
<1>2. QED
  BY <1>1, LeakInvariance, PTL
-----------------------------------------------------------------------------
(* A set of places in a list has a first one.                              *)
LEMMA FirstPlace ==
  ASSUME NEW T \in SUBSET Nat, T # {}
  PROVE  \E m \in T : \A k \in T : m <= k
<1> DEFINE R == {p \in Nat \X Nat : p[1] < p[2]}
<1>1. IsWellFoundedOn(R, Nat)
  BY NatLessThanWellFounded DEF OpToRel
<1>2. ASSUME NEW k \in Nat, NEW m \in Nat, k < m
      PROVE  <<k, m>> \in R
  <2>1. <<k, m>> \in Nat \X Nat /\ <<k, m>>[1] = k /\ <<k, m>>[2] = m
    OBVIOUS
  <2>2. QED
    BY <1>2, <2>1
<1> HIDE DEF R
<1>3. PICK m \in T : \A k \in T : <<k, m>> \notin R
  BY <1>1, WFMin
<1>4. \A k \in T : ~(k < m)
  BY <1>2, <1>3
<1>5. QED
  BY <1>4

(* Every uploader is given to the queue once. *)
OnceInv ==
  /\ \A i, j \in DOMAIN added : added[i] = added[j] => i = j
  /\ \A i \in DOMAIN added : pc[added[i]] # "new"

(* A run loop has a connection to wait for until that is cancelled; and an *)
(* upload that was judged has its state, unless a cancel took it away.     *)
LoopInv(o) ==
  /\ pc[o] \in {"opened", "entering", "scheduling"} => conn[o] \in {"idle", "cancelled"}
  /\ pc[o] = "looping" => conn[o] \in {"live", "cancelled"}
  /\ pc[o] \in {"thanking", "returned"} /\ finalState[o] # "none"
       => state[o] \in {"Uploaded", "Failed", "Canceled"}

LEMMA OnceStep ==
  ASSUME TypeOK, OnceInv, [Next]_vars
  PROVE  OnceInv'
<1>0. added \in Seq(Op) /\ Len(added) \in Nat /\ DOMAIN added = 1 .. Len(added)
  BY DEF TypeOK
<1>1. ASSUME NEW o \in Op, StartUpload(o)
      PROVE  OnceInv'
  <2>1. /\ added' = Append(added, o) /\ pc[o] = "new"
        /\ \A p \in Op : pc'[p] = IF p = o THEN "queued" ELSE pc[p]
    BY <1>1 DEF StartUpload, Goto, TypeOK
  <2>2. /\ DOMAIN added' = 1 .. Len(added) + 1 /\ added'[Len(added) + 1] = o
        /\ \A i \in 1 .. Len(added) : added'[i] = added[i] /\ added[i] \in Op
    BY <1>0, <2>1
  <2>3. \A i \in DOMAIN added' : i = Len(added) + 1 \/ i \in DOMAIN added
    BY <1>0, <2>2
  <2>4. \A i \in DOMAIN added : added[i] # o
    BY <2>1 DEF OnceInv
  <2>5. \A i, j \in DOMAIN added' : added'[i] = added'[j] => i = j
    BY <1>0, <2>2, <2>3, <2>4 DEF OnceInv
  <2>6. \A i \in DOMAIN added' : pc'[added'[i]] # "new"
    BY <1>0, <2>1, <2>2, <2>3, <2>4 DEF OnceInv
  <2>7. QED
    BY <2>5, <2>6 DEF OnceInv
<1>2. CASE \A o \in Op : ~StartUpload(o)
  <2>1. added' = added
    BY <1>2 DEF Next, vars, QueueStarts, Worker, Network, Start, OpenConnection,
           CheckCancelled, BecomeExecuting, StartConnection, RunLoopReturns,
           ConnectionDidFinishLoading, ConnectionDidFail, Judge, FinishCheck, FinishSet,
           DispatchSuccess, Cancel, CancelAllUploads, BeginCancel, Canceller,
           CancelConnection, CancelCheck, CancelSet, RunMainBlock, queueVars
  <2>2. \A p \in Op : pc[p] # "new" => pc'[p] # "new"
    <3>1. CASE \E o \in Op : QueueStarts(o) \/ Worker(o) \/ Network(o)
      BY <3>1 DEF QueueStarts, Worker, Network, Start, OpenConnection,
             CheckCancelled, BecomeExecuting, StartConnection, RunLoopReturns,
             ConnectionDidFinishLoading, ConnectionDidFail, Judge, FinishCheck, FinishSet,
             DispatchSuccess, NotifyError, Goto, TypeOK
    <3>2. CASE ~ \E o \in Op : QueueStarts(o) \/ Worker(o) \/ Network(o)
      BY <1>2, <3>2 DEF Next, vars, workerVars, Cancel, CancelAllUploads, BeginCancel,
             Canceller, CancelConnection, CancelCheck, CancelSet, RunMainBlock
    <3>3. QED
      BY <3>1, <3>2
  <2>3. \A i \in DOMAIN added : added[i] \in Op
    BY <1>0
  <2>4. QED
    BY <2>1, <2>2, <2>3 DEF OnceInv
<1>3. QED
  BY <1>1, <1>2

LEMMA LoopWorkerStep ==
  ASSUME TypeOK, \A p \in Op : LeakInv(p) /\ WorkerInv(p) /\ LoopInv(p), NEW o \in Op,
         StartUpload(o) \/ QueueStarts(o) \/ Worker(o) \/ Network(o)
  PROVE  \A p \in Op : LoopInv(p)'
<1>1. ASSUME NEW p \in Op \ {o}
      PROVE  LoopInv(p)'
  <2>1. /\ state'[p] = state[p] /\ pc'[p] = pc[p] /\ conn'[p] = conn[p]
        /\ finalState'[p] = finalState[p]
    BY DEF TypeOK, StartUpload, QueueStarts, Worker, Network, Start, OpenConnection,
           CheckCancelled, BecomeExecuting, StartConnection, RunLoopReturns,
           ConnectionDidFinishLoading, ConnectionDidFail, Judge, FinishCheck, FinishSet,
           DispatchSuccess, NotifyError, Goto
  <2>2. QED
    BY <2>1 DEF LoopInv
<1>2. LoopInv(o)'
  <2>0. pc[o] \in Working => finalState[o] = "none"
    BY DEF LeakInv
  <2> USE DEF TypeOK, LoopInv, Working
  <2>1. CASE StartUpload(o)
    BY <2>1 DEF StartUpload, Goto
  <2>2. CASE QueueStarts(o)
    BY <2>2 DEF QueueStarts, Goto
  <2>3. CASE Start(o)
    BY <2>3 DEF Start, NotifyError, Goto
  <2>4. CASE OpenConnection(o)
    BY <2>4 DEF OpenConnection, Goto
  <2>5. CASE CheckCancelled(o)
    BY <2>5 DEF CheckCancelled, Goto
  <2>6. CASE BecomeExecuting(o)
    BY <2>6 DEF BecomeExecuting, Goto
  <2>7. CASE StartConnection(o)
    BY <2>7 DEF StartConnection, Goto
  <2>8. CASE RunLoopReturns(o)
    BY <2>0, <2>8 DEF RunLoopReturns, Goto
  <2>9. CASE ConnectionDidFinishLoading(o)
    BY <2>0, <2>9 DEF ConnectionDidFinishLoading, Goto
  <2>10. CASE ConnectionDidFail(o)
    BY <2>10 DEF ConnectionDidFail, NotifyError, Goto
  <2>11. CASE Judge(o)
    BY <2>0, <2>11 DEF Judge, NotifyError, Goto
  <2>12. CASE FinishCheck(o)
    BY <2>12 DEF FinishCheck, Goto
  <2>13. CASE FinishSet(o)
    <3>1. finalState[o] \in {"Uploaded", "Failed"}
      BY <2>13 DEF FinishSet, WorkerInv, Finishing
    <3>2. state'[o] = finalState[o] /\ pc'[o] \in {"thanking", "returned"}
      BY <2>13 DEF FinishSet, Goto
    <3>3. QED
      BY <3>1, <3>2
  <2>14. CASE DispatchSuccess(o)
    BY <2>14 DEF DispatchSuccess, Goto
  <2>15. QED
    BY <2>1, <2>2, <2>3, <2>4, <2>5, <2>6, <2>7, <2>8, <2>9, <2>10, <2>11, <2>12,
       <2>13, <2>14 DEF Worker, Network
<1>3. QED
  BY <1>1, <1>2

LEMMA LoopStep ==
  ASSUME TypeOK, \A p \in Op : LeakInv(p) /\ WorkerInv(p) /\ LoopInv(p), [Next]_vars
  PROVE  \A p \in Op : LoopInv(p)'
<1>1. CASE \E o \in Op : StartUpload(o) \/ QueueStarts(o) \/ Worker(o) \/ Network(o)
  BY <1>1, LoopWorkerStep
<1>2. CASE Canceller
  <2>1. PICK o \in Op : CancelConnection(o) \/ CancelCheck(o) \/ CancelSet(o)
    BY <1>2 DEF Canceller
  <2>2. /\ UNCHANGED <<pc, finalState>>
        /\ \A p \in Op : conn'[p] \in {conn[p], "cancelled"} /\ state'[p] \in {state[p], "Canceled"}
    BY <2>1 DEF CancelConnection, Disconnect, CancelCheck, CancelSet, workerVars, TypeOK
  <2>3. QED
    BY <2>2 DEF LoopInv
<1>3. CASE CancelAllUploads \/ RunMainBlock \/ (\E o \in Op : Cancel(o)) \/ UNCHANGED vars
  <2>1. UNCHANGED <<state, pc, conn, finalState>>
    BY <1>3 DEF CancelAllUploads, RunMainBlock, Cancel, BeginCancel, vars, workerVars
  <2>2. QED
    BY <2>1 DEF LoopInv
<1>4. QED
  BY <1>1, <1>2, <1>3 DEF Next

RestInv == OnceInv /\ \A o \in Op : LoopInv(o)

LEMMA RestInvariance == Spec => []RestInv
<1>1. Init => RestInv
  BY DEF Init, RestInv, OnceInv, LoopInv
<1>2. IInv /\ LInv /\ RestInv /\ [Next]_vars => RestInv'
  BY OnceStep, LoopStep DEF IInv, LInv, RestInv
<1>3. QED
  BY <1>1, <1>2, Invariance, LeakInvariance, PTL DEF Spec

(* The worker of o cannot go on: it is in no step of its own, and its run  *)
(* loop waits for a connection that neither ends nor was cancelled.        *)
WorkerRests(o) ==
  /\ pc[o] \notin {"called", "opening", "opened", "entering", "scheduling", "thanking"}
  /\ pc[o] \notin Finishing
  /\ pc[o] = "judging" => Replies = {}
  /\ pc[o] = "looping" => conn[o] \notin {"live", "cancelled"}

(* Nothing that Fairness obliges to go on can go on: no worker, no upload  *)
(* whose turn it is and for which there is a slot, no cancel, no block.    *)
AtRest ==
  /\ \A o \in Op : WorkerRests(o)
  /\ \A o \in Op : pc[o] = "queued" /\ (\A p \in Op : Precedes(p, o) => pc[p] # "queued")
                     => Cardinality(Occupied) >= MaxConcurrent
  /\ \A o \in Op : Current(o) => stage = "idle"
  /\ MainIdle => mainQ = << >>

(* Of the uploaders in a nonempty set that were given to the queue there   *)
(* is one that was given to it before the others.                          *)
LEMMA FirstOf ==
  ASSUME TypeOK, ListedInv, OnceInv, NEW S \in SUBSET Op, S # {}, \A o \in S : Listed(o)
  PROVE  \E o \in S : \A p \in S : ~Precedes(p, o)
<1> DEFINE T == {i \in DOMAIN added : added[i] \in S}
<1>1. DOMAIN added = 1 .. Len(added) /\ Len(added) \in Nat
  BY DEF TypeOK
<1>2. T \in SUBSET Nat /\ T # {}
  BY <1>1 DEF Listed
<1>3. PICK m \in T : \A k \in T : m <= k
  BY <1>2, FirstPlace
<1>4. added[m] \in S /\ m \in DOMAIN added
  BY <1>3
<1>5. ASSUME NEW p \in S, Precedes(p, added[m])
      PROVE  FALSE
  <2>1. PICK i \in DOMAIN added : added[i] = added[m] /\ \E j \in 1 .. i - 1 : added[j] = p
    BY <1>5 DEF Precedes
  <2>2. i = m
    BY <1>4, <2>1 DEF OnceInv
  <2>3. PICK j \in 1 .. m - 1 : added[j] = p
    BY <2>1, <2>2
  <2>4. j \in DOMAIN added /\ ~(m <= j)
    BY <1>1, <1>4, <2>3
  <2>5. QED
    BY <1>3, <1>5, <2>3, <2>4
<1>6. QED
  BY <1>4, <1>5

(* No upload waits for ever: where nothing can go on, every upload given   *)
(* to the queue was announced, unless it was cancelled, its reply said     *)
(* nothing, or every slot leaked.  It is what UploadsSettle comes to at a  *)
(* standstill, for any uploads and limit: no cancel is left half done, no  *)
(* run loop waits for a connection that is gone, no slot is held by one.   *)
RestSettled ==
  AtRest /\ Replies # {} =>
    \A o \in Op : pc[o] # "new" =>
      \/ told[o] # "none" \/ o \in cancelled \/ Silent(o)
      \/ Cardinality(Leaked) >= MaxConcurrent

(* The queue at rest has settled what it was given: RestSettled, of the    *)
(* threads, the connections and the slots of HeroImageUploader.            *)
THEOREM RestIsSettled == Spec => []RestSettled
<1>1. IInv /\ LInv /\ RestInv /\ OutcomeMatchesState => RestSettled
  <2> SUFFICES ASSUME IInv, LInv, RestInv, OutcomeMatchesState, AtRest, Replies # {},
                      NEW o \in Op, pc[o] # "new"
               PROVE  \/ told[o] # "none" \/ o \in cancelled \/ Silent(o)
                      \/ Cardinality(Leaked) >= MaxConcurrent
    BY DEF RestSettled
  <2>0. TypeOK /\ ListedInv /\ OnceInv
    BY DEF IInv, RestInv
  <2>1. MainIdle
    <3> SUFFICES ASSUME cancelling # {} PROVE FALSE
      BY DEF MainIdle
    <3>1. cancelling \in SUBSET Op /\ \A p \in cancelling : Listed(p)
      BY <2>0 DEF TypeOK, ListedInv
    <3>2. PICK p \in cancelling : \A q \in cancelling : ~Precedes(q, p)
      BY <2>0, <3>1, FirstOf
    <3>3. p \in Op /\ Current(p)
      BY <3>1, <3>2 DEF Current
    <3>4. stage = "idle"
      BY <3>3 DEF AtRest
    <3>5. QED
      BY <2>0, <3>4 DEF TypeOK
  <2>2. mainQ = << >>
    BY <2>1 DEF AtRest
  <2>3. \A p \in Op : pc[p] \in {"new", "queued", "skipped", "returned"}
    <3> SUFFICES ASSUME NEW p \in Op PROVE pc[p] \in {"new", "queued", "skipped", "returned"}
      OBVIOUS
    <3>1. pc[p] # "looping" /\ pc[p] # "judging"
      BY DEF AtRest, WorkerRests, RestInv, LoopInv
    <3>2. pc[p] \in Places
      BY <2>0 DEF TypeOK
    <3>3. WorkerRests(p)
      BY DEF AtRest
    <3>4. QED
      BY <3>1, <3>2, <3>3 DEF WorkerRests, Places, Before98, NotStarted, Ended
  <2>4. CASE pc[o] = "skipped"
    BY <2>4 DEF LInv, LeakInv
  <2>5. CASE pc[o] = "returned"
    <3>1. CASE finalState[o] = "none"
      BY <2>5, <3>1 DEF Silent
    <3>2. CASE state[o] = "Canceled"
      BY <3>2 DEF LInv, LeakInv
    <3>3. CASE state[o] \in {"Uploaded", "Failed"}
      <4>1. Announced(o, "stop") \/ Announced(o, "success")
        BY <2>5, <3>3 DEF OutcomeMatchesState
      <4>2. DOMAIN mainQ = {}
        BY <2>2
      <4>3. QED
        BY <4>1, <4>2 DEF Announced
    <3>4. QED
      BY <2>5, <3>1, <3>2, <3>3 DEF RestInv, LoopInv
  <2>6. CASE pc[o] = "queued"
    <3> DEFINE S == {p \in Op : pc[p] = "queued"}
    <3>1. S \in SUBSET Op /\ S # {} /\ \A p \in S : Listed(p)
      BY <2>0, <2>6 DEF ListedInv
    <3>2. PICK p \in S : \A q \in S : ~Precedes(q, p)
      <4> HIDE DEF S
      <4>1. QED
        BY <2>0, <3>1, FirstOf
    <3>3. p \in Op /\ pc[p] = "queued" /\ \A q \in Op : Precedes(q, p) => pc[q] # "queued"
      BY <3>2
    <3>4. Cardinality(Occupied) >= MaxConcurrent
      BY <3>3 DEF AtRest
    <3>5. Occupied = Leaked
      BY <2>3 DEF Occupied, Leaked, NotStarted, Ended
    <3>6. QED
      BY <3>4, <3>5
  <2>7. QED
    BY <2>3, <2>4, <2>5, <2>6
<1>2. QED
  BY <1>1, Invariance, LeakInvariance, RestInvariance, OutcomeShown, PTL
=============================================================================
