---------------------------- MODULE UploadQueue ----------------------------
(***************************************************************************)
(* HeroImageUploader, an NSOperation that posts one image, and the shared  *)
(* HeroImageUploadManager, which owns the NSOperationQueue they run in.    *)
(*                                                                         *)
(* Each uploader is touched by two threads: the worker on which the queue  *)
(* calls -start, and the main thread, which cancels it and runs the blocks *)
(* the worker dispatches.  No lock protects `state'.  A step below is the  *)
(* code between two reads or writes of what the other thread can change.   *)
(***************************************************************************)
EXTENDS Naturals, Sequences, FiniteSets

CONSTANTS
  Op,             \* the HeroImageUploader objects
  MaxConcurrent,  \* maxConcurrentOperationCount, 2 in HeroImageUploadView
  BadURL,         \* the uploaders whose request canHandleRequest: refuses
  Replies,        \* what the server's body can turn out to be
  MaxCancels      \* bound on the cancel commands of the main thread

ReplyKinds == {"success", "errors", "garbage", "unrecognised"}

ASSUME OpAssumption == IsFiniteSet(Op) /\ BadURL \subseteq Op
ASSUME BoundAssumption == MaxConcurrent \in Nat /\ MaxCancels \in Nat
ASSUME ReplyAssumption == Replies \subseteq ReplyKinds

VARIABLES
  state,       \* HeroUploadState of each uploader
  pc,          \* where the worker of each uploader is
  conn,        \* its NSURLConnection
  finalState,  \* finalState of notifyFromCompletionWithError:
  finished,    \* has a KVO change of isFinished been posted?
  added,       \* the uploaders given to addOperation:, in order
  mainQ,       \* blocks dispatched to the main queue
  told,        \* what the uploader's delegate has been told
  cancelling,  \* uploaders the main thread is about to cancel
  stage,       \* how far it is with the first of them
  cancelled,   \* the uploaders -cancel was ever called on
  cancels      \* the number of cancel commands so far

workerVars == <<pc, conn, finalState>>
queueVars  == <<finished, added>>
mainVars   == <<cancelling, stage, cancelled, cancels>>
vars == <<state, workerVars, queueVars, mainQ, told, mainVars>>

HeroUploadState == {"Ready", "Uploading", "Uploaded", "Canceled", "Failed"}
Notice == [op : Op, kind : {"success", "stop"}]

NotStarted == {"new", "queued"}
Before98   == NotStarted \cup {"called", "opening", "opened", "entering"}
Finishing  == {"finishing", "closing", "overwriting"}
Ended      == {"skipped", "returned"}
Places     == Before98 \cup {"scheduling", "looping", "judging", "thanking"}
                       \cup Finishing \cup Ended

Init ==
  /\ state = [o \in Op |-> "Ready"]
  /\ pc = [o \in Op |-> "new"]
  /\ conn = [o \in Op |-> "none"]
  /\ finalState = [o \in Op |-> "none"]
  /\ finished = [o \in Op |-> FALSE]
  /\ added = << >>
  /\ mainQ = << >>
  /\ told = [o \in Op |-> "none"]
  /\ cancelling = {}
  /\ stage = "idle"
  /\ cancelled = {}
  /\ cancels = 0

isExecuting(o) == state[o] = "Uploading"
isCancelled(o) == state[o] = "Canceled"

(* The operations a queue counts against its limit are those it has called *)
(* -start on and whose isFinished has not been posted.                     *)
Occupied == {o \in Op : pc[o] \notin NotStarted /\ ~finished[o]}
operations == {o \in Op : pc[o] # "new" /\ ~finished[o]}
Precedes(p, o) ==
  \E i \in DOMAIN added : added[i] = o /\ \E j \in 1 .. i - 1 : added[j] = p
currentUploadCount == Cardinality({o \in Op : isExecuting(o)})
MainIdle == cancelling = {}

Goto(o, place) == pc' = [pc EXCEPT ![o] = place]
Dispatch(o, kind) == mainQ' = Append(mainQ, [op |-> o, kind |-> kind])
Disconnect(o) ==
  conn' = [conn EXCEPT ![o] = IF @ \in {"idle", "live"} THEN "cancelled" ELSE @]
-----------------------------------------------------------------------------
(* The operation queue.                                                    *)

(* -startUpload:, called by the view on the main thread. *)
StartUpload(o) ==
  /\ pc[o] = "new"
  /\ MainIdle
  /\ Goto(o, "queued")
  /\ added' = Append(added, o)
  /\ UNCHANGED <<state, conn, finalState, finished, mainQ, told, mainVars>>

(* The queue calls -start on the oldest waiting operation, cancelled or    *)
(* not: -isReady is not overridden and -cancel does not call super.        *)
QueueStarts(o) ==
  /\ pc[o] = "queued"
  /\ \A p \in Op : Precedes(p, o) => pc[p] # "queued"
  /\ Cardinality(Occupied) < MaxConcurrent
  /\ Goto(o, "called")
  /\ UNCHANGED <<state, conn, finalState, queueVars, mainQ, told, mainVars>>
-----------------------------------------------------------------------------
(* The worker thread.                                                      *)

(* notifyFromCompletionWithError: tells the delegate first and changes the *)
(* state afterwards, in finishOperationWithState:.                         *)
NotifyError(o) ==
  /\ Dispatch(o, "stop")
  /\ finalState' = [finalState EXCEPT ![o] = "Failed"]
  /\ Goto(o, "finishing")

(* -start: nothing for a cancelled uploader, an error for a refused URL. *)
Start(o) ==
  /\ pc[o] = "called"
  /\ \/ /\ isCancelled(o)
        /\ Goto(o, "skipped")
        /\ UNCHANGED <<finalState, mainQ>>
     \/ /\ ~isCancelled(o)
        /\ o \notin BadURL
        /\ Goto(o, "opening")
        /\ UNCHANGED <<finalState, mainQ>>
     \/ /\ ~isCancelled(o)
        /\ o \in BadURL
        /\ NotifyError(o)
  /\ UNCHANGED <<state, conn, queueVars, told, mainVars>>

OpenConnection(o) ==
  /\ pc[o] = "opening"
  /\ conn' = [conn EXCEPT ![o] = "idle"]
  /\ Goto(o, "opened")
  /\ UNCHANGED <<state, finalState, queueVars, mainQ, told, mainVars>>

(* Mutant: the second look at isCancelled is missing. *)
CheckCancelled_dropped(o) ==
  /\ pc[o] = "opened"
  /\ Goto(o, "entering")
  /\ UNCHANGED <<state, conn, finalState, queueVars, mainQ, told, mainVars>>

CheckCancelled(o) ==
  /\ pc[o] = "opened"
  /\ Goto(o, IF isCancelled(o) THEN "skipped" ELSE "entering")
  /\ UNCHANGED <<state, conn, finalState, queueVars, mainQ, told, mainVars>>

BecomeExecuting(o) ==
  /\ pc[o] = "entering"
  /\ state' = [state EXCEPT ![o] = "Uploading"]
  /\ Goto(o, "scheduling")
  /\ UNCHANGED <<conn, finalState, queueVars, mainQ, told, mainVars>>

(* Starting a connection that was cancelled meanwhile starts nothing. *)
StartConnection(o) ==
  /\ pc[o] = "scheduling"
  /\ conn' = [conn EXCEPT ![o] = IF @ = "idle" THEN "live" ELSE @]
  /\ Goto(o, "looping")
  /\ UNCHANGED <<state, finalState, queueVars, mainQ, told, mainVars>>

(* [runLoop run] returns when the loop has no connection to wait for. *)
RunLoopReturns(o) ==
  /\ pc[o] = "looping"
  /\ conn[o] = "cancelled"
  /\ Goto(o, "returned")
  /\ UNCHANGED <<state, conn, finalState, queueVars, mainQ, told, mainVars>>

ConnectionDidFinishLoading(o) ==
  /\ pc[o] = "looping"
  /\ conn[o] = "live"
  /\ conn' = [conn EXCEPT ![o] = "done"]
  /\ Goto(o, IF isExecuting(o) THEN "judging" ELSE "returned")
  /\ UNCHANGED <<state, finalState, queueVars, mainQ, told, mainVars>>

(* Mutant: after reporting the errors, control falls into the success case. *)
Judge_fallsThrough(o) ==
  /\ pc[o] = "judging"
  /\ "errors" \in Replies
  /\ Dispatch(o, "stop")
  /\ finalState' = [finalState EXCEPT ![o] = "Uploaded"]
  /\ Goto(o, "finishing")
  /\ UNCHANGED <<state, conn, queueVars, told, mainVars>>

(* The rest of connectionDidFinishLoading:.  A JSON body with neither      *)
(* result == success nor errors falls through every branch.                *)
Judge(o) ==
  /\ pc[o] = "judging"
  /\ \/ /\ "success" \in Replies
        /\ finalState' = [finalState EXCEPT ![o] = "Uploaded"]
        /\ Goto(o, "finishing")
        /\ UNCHANGED mainQ
     \/ /\ Replies \cap {"errors", "garbage"} # {}
        /\ NotifyError(o)
     \/ /\ "unrecognised" \in Replies
        /\ Goto(o, "returned")
        /\ UNCHANGED <<finalState, mainQ>>
  /\ UNCHANGED <<state, conn, queueVars, told, mainVars>>

ConnectionDidFail(o) ==
  /\ pc[o] = "looping"
  /\ conn[o] = "live"
  /\ conn' = [conn EXCEPT ![o] = "done"]
  /\ NotifyError(o)
  /\ UNCHANGED <<state, queueVars, told, mainVars>>

(* Mutant: isFinished is posted before the state changes. *)
FinishCheck_postsEarly(o) ==
  /\ pc[o] = "finishing"
  /\ finished' = [finished EXCEPT ![o] = @ \/ isExecuting(o)]
  /\ Goto(o, IF isExecuting(o) THEN "closing" ELSE "overwriting")
  /\ UNCHANGED <<state, conn, finalState, added, mainQ, told, mainVars>>

(* finishOperationWithState: on the worker: [connection cancel] is without *)
(* effect on a connection that has ended, then isExecuting is read ...     *)
FinishCheck(o) ==
  /\ pc[o] = "finishing"
  /\ Goto(o, IF isExecuting(o) THEN "closing" ELSE "overwriting")
  /\ UNCHANGED <<state, conn, finalState, queueVars, mainQ, told, mainVars>>

(* Mutant: an uploader that was not executing any more is not thanked for. *)
FinishSet_skipsThanks(o) ==
  /\ pc[o] \in {"closing", "overwriting"}
  /\ state' = [state EXCEPT ![o] = finalState[o]]
  /\ finished' = [finished EXCEPT ![o] = @ \/ pc[o] = "closing"]
  /\ Goto(o, IF finalState[o] = "Uploaded" /\ pc[o] = "closing"
             THEN "thanking" ELSE "returned")
  /\ UNCHANGED <<conn, finalState, added, mainQ, told, mainVars>>

(* Mutant: a failure posts isExecuting only. *)
FinishSet_keepsSlot(o) ==
  /\ pc[o] \in {"closing", "overwriting"}
  /\ state' = [state EXCEPT ![o] = finalState[o]]
  /\ finished' = [finished EXCEPT ![o] = @ \/ finalState[o] = "Uploaded"]
  /\ Goto(o, IF finalState[o] = "Uploaded" THEN "thanking" ELSE "returned")
  /\ UNCHANGED <<conn, finalState, added, mainQ, told, mainVars>>

(* ... and the state is written, with the isFinished change only if the    *)
(* operation was executing when it was read.                               *)
FinishSet(o) ==
  /\ pc[o] \in {"closing", "overwriting"}
  /\ state' = [state EXCEPT ![o] = finalState[o]]
  /\ finished' = [finished EXCEPT ![o] = @ \/ pc[o] = "closing"]
  /\ Goto(o, IF finalState[o] = "Uploaded" THEN "thanking" ELSE "returned")
  /\ UNCHANGED <<conn, finalState, added, mainQ, told, mainVars>>

(* Mutant: the success block is never dispatched. *)
DispatchSuccess_lost(o) ==
  /\ pc[o] = "thanking"
  /\ Goto(o, "returned")
  /\ UNCHANGED <<state, conn, finalState, queueVars, mainQ, told, mainVars>>

DispatchSuccess(o) ==
  /\ pc[o] = "thanking"
  /\ Dispatch(o, "success")
  /\ Goto(o, "returned")
  /\ UNCHANGED <<state, conn, finalState, queueVars, told, mainVars>>
-----------------------------------------------------------------------------
(* The main thread.                                                        *)

RunMainBlock ==
  /\ MainIdle
  /\ mainQ # << >>
  /\ told' = [told EXCEPT ![Head(mainQ).op] = Head(mainQ).kind]
  /\ mainQ' = Tail(mainQ)
  /\ UNCHANGED <<state, workerVars, queueVars, mainVars>>

BeginCancel(ops) ==
  /\ MainIdle
  /\ cancels < MaxCancels
  /\ cancelling' = ops
  /\ stage' = "connection"
  /\ cancels' = cancels + 1
  /\ UNCHANGED <<state, workerVars, queueVars, mainQ, told, cancelled>>

(* -cancel of one uploader, from removeUploadCelltAtIndex:. *)
Cancel(o) == pc[o] # "new" /\ BeginCancel({o})

(* -cancelAllUploads, from the dealloc of any upload view. *)
CancelAllUploads == operations # {} /\ BeginCancel(operations)

(* The operations are cancelled one at a time, in the order of the queue.  *)
Current(o) == o \in cancelling /\ \A p \in cancelling : ~Precedes(p, o)

(* -cancel is finishOperationWithState:HeroUploadStateCanceled: it cancels *)
(* the connection, reads isExecuting, then writes the state.               *)
CancelConnection(o) ==
  /\ stage = "connection"
  /\ Disconnect(o)
  /\ cancelled' = cancelled \cup {o}
  /\ stage' = "check"
  /\ UNCHANGED <<state, pc, finalState, queueVars, mainQ, told, cancelling, cancels>>

CancelCheck(o) ==
  /\ stage = "check"
  /\ stage' = IF isExecuting(o) THEN "close" ELSE "overwrite"
  /\ UNCHANGED <<state, workerVars, queueVars, mainQ, told, cancelling, cancelled, cancels>>

(* Mutant: a cancelled upload becomes Ready, to be tried again. *)
CancelSet_toReady(o) ==
  /\ stage \in {"close", "overwrite"}
  /\ state' = [state EXCEPT ![o] = "Ready"]
  /\ finished' = [finished EXCEPT ![o] = @ \/ stage = "close"]
  /\ cancelling' = cancelling \ {o}
  /\ stage' = IF cancelling = {o} THEN "idle" ELSE "connection"
  /\ UNCHANGED <<workerVars, added, mainQ, told, cancelled, cancels>>

CancelSet(o) ==
  /\ stage \in {"close", "overwrite"}
  /\ state' = [state EXCEPT ![o] = "Canceled"]
  /\ finished' = [finished EXCEPT ![o] = @ \/ stage = "close"]
  /\ cancelling' = cancelling \ {o}
  /\ stage' = IF cancelling = {o} THEN "idle" ELSE "connection"
  /\ UNCHANGED <<workerVars, added, mainQ, told, cancelled, cancels>>
-----------------------------------------------------------------------------
Network(o) == ConnectionDidFinishLoading(o) \/ ConnectionDidFail(o)
Worker(o) ==
  \/ Start(o) \/ OpenConnection(o) \/ CheckCancelled(o) \/ BecomeExecuting(o)
  \/ StartConnection(o) \/ RunLoopReturns(o) \/ Judge(o)
  \/ FinishCheck(o) \/ FinishSet(o) \/ DispatchSuccess(o)
Canceller ==
  \E o \in Op : Current(o) /\ (CancelConnection(o) \/ CancelCheck(o) \/ CancelSet(o))

Next ==
  \/ \E o \in Op : StartUpload(o) \/ QueueStarts(o) \/ Worker(o) \/ Network(o)
                   \/ Cancel(o)
  \/ CancelAllUploads \/ Canceller \/ RunMainBlock

Spec == Init /\ [][Next]_vars

(* Threads keep running, the queue starts what it may, and a connection    *)
(* ends: the request has a timeout of 20 seconds.  Users are never fair.   *)
Fairness ==
  /\ \A o \in Op : WF_vars(QueueStarts(o)) /\ WF_vars(Worker(o)) /\ WF_vars(Network(o))
  /\ WF_vars(Canceller)
  /\ WF_vars(RunMainBlock)

FairSpec == Spec /\ Fairness
-----------------------------------------------------------------------------
(* The types of the variables. *)
TypeOK ==
  /\ state \in [Op -> HeroUploadState]
  /\ pc \in [Op -> Places]
  /\ conn \in [Op -> {"none", "idle", "live", "done", "cancelled"}]
  /\ finalState \in [Op -> {"none", "Uploaded", "Failed"}]
  /\ finished \in [Op -> BOOLEAN]
  /\ added \in Seq(Op)
  /\ mainQ \in Seq(Notice)
  /\ told \in [Op -> {"none", "success", "stop"}]
  /\ cancelling \subseteq Op
  /\ stage \in {"idle", "connection", "check", "close", "overwrite"}
  /\ (stage = "idle") <=> (cancelling = {})
  /\ cancelled \subseteq Op
  /\ cancels \in Nat

(* Never more uploaders are Uploading than the limit the view sets, however *)
(* cancels race with the workers: no uploader gives its slot back first.   *)
CurrentUploadBound == currentUploadCount <= MaxConcurrent

(* The delegate is told at most one outcome of an upload, even when the    *)
(* upload is cancelled while its answer is being judged: no second notice  *)
(* of an uploader is ever queued, nor one queued after it was told.        *)
OneOutcome ==
  \A i \in DOMAIN mainQ :
    /\ told[mainQ[i].op] = "none"
    /\ \A j \in DOMAIN mainQ : mainQ[i].op = mainQ[j].op => i = j

(* The state and the outcome agree: a Failed uploader has told or will     *)
(* tell its delegate so, an Uploaded one likewise once its worker is back, *)
(* and neither is ever announced as the other.                             *)
Announced(o, kind) ==
  told[o] = kind \/ \E i \in DOMAIN mainQ : mainQ[i] = [op |-> o, kind |-> kind]
OutcomeMatchesState ==
  \A o \in Op :
    /\ state[o] = "Failed" => Announced(o, "stop")
    /\ state[o] = "Uploaded" => pc[o] = "thanking" \/ Announced(o, "success")

(* A slot is leaked (its worker gone, isFinished never posted) only by an  *)
(* upload that was cancelled, whose URL was refused, or whose reply said   *)
(* neither success nor errors; an ordinary upload always gives it back.    *)
Leaked == {o \in Op : pc[o] \in Ended /\ ~finished[o]}
Silent(o) == pc[o] = "returned" /\ finalState[o] = "none"
SlotReturned == \A o \in Leaked : o \in cancelled \cup BadURL \/ Silent(o)

(* A cancel that completes before the worker reads isCancelled at line 96  *)
(* is never lost: the uploader stays Canceled and its worker never gets as *)
(* far as opening the connection to the server.                            *)
Heedful == (Before98 \ {"entering"}) \cup {"skipped"}
CancelBeforeCheckHolds ==
  [][\A o \in Op : state[o] = "Canceled" /\ pc[o] \in Heedful
        => state'[o] = "Canceled" /\ pc'[o] \in Heedful]_<<state, pc>>

(* An uploader with an outcome never uploads again and never changes its   *)
(* outcome; all that can still happen to it is a cancel.                   *)
OutcomeIsFinal ==
  [][\A o \in Op : state[o] \in {"Uploaded", "Failed"}
        => state'[o] \in {state[o], "Canceled"}]_state

(* Every upload given to the queue is eventually announced, unless it was  *)
(* cancelled, its reply was not recognised, or every slot leaked.          *)
UploadsSettle ==
  \A o \in Op : (pc[o] = "queued")
     ~> (told[o] # "none" \/ o \in cancelled \/ Silent(o)
           \/ Cardinality(Leaked) >= MaxConcurrent)

(* The uploaders as the view sees them: an UploadTicket each. *)
PhaseOf(o) ==
  CASE pc[o] \in Before98 -> "idle"
    [] pc[o] \in {"scheduling", "looping", "judging"} -> "running"
    [] pc[o] \in Finishing -> IF finalState[o] = "Failed" THEN "failing" ELSE "running"
    [] pc[o] = "thanking" -> "owing"
    [] OTHER -> "done"

Ticket == INSTANCE UploadTicket WITH phase <- [o \in Op |-> PhaseOf(o)]

(* Threads, connections and queue slots together keep the promise of       *)
(* UploadTicket: judged once, announced once, failure before its state and *)
(* success after it.                                                       *)
ImplementsTicket == Ticket!TSpec

(* HeroImageUploadManager.h: currentUploadCount is the number of uploads   *)
(* "really uploading in the queue", so a worker that has returned from     *)
(* -start is not among them.                                               *)
CountIsReal == \A o \in Op : pc[o] \in Ended => ~isExecuting(o)
=============================================================================
