---------------------------- MODULE UploadTicket ----------------------------
(***************************************************************************)
(* What an upload promises to the view that asked for it, without threads, *)
(* connections or queue slots.  A ticket begins at most once, is judged at *)
(* most once, and is announced at most once on the main thread.  It may be *)
(* cancelled at any time, and it may vanish: some uploads end unannounced. *)
(*                                                                         *)
(* A failure is announced before the state changes, a success afterwards:  *)
(* this is the order of notifyFromCompletionWithError: and                 *)
(* connectionDidFinishLoading:, and the view sees the difference.          *)
(***************************************************************************)
EXTENDS Sequences, FiniteSets

CONSTANTS Op  \* the uploads

VARIABLES
  state,  \* HeroUploadState
  phase,  \* idle -> running -> failing | owing -> done
  mainQ,  \* announcements waiting for the main thread
  told    \* announcements delivered

tVars == <<state, phase, mainQ, told>>

Advance(o, from, to) == phase[o] \in from /\ phase' = [phase EXCEPT ![o] = to]
Announce(o, kind) == mainQ' = Append(mainQ, [op |-> o, kind |-> kind])
Become(o, s) == state' = [state EXCEPT ![o] = s]

TInit ==
  /\ state = [o \in Op |-> "Ready"]
  /\ phase = [o \in Op |-> "idle"]
  /\ mainQ = << >>
  /\ told = [o \in Op |-> "none"]

(* The worker marks the upload as executing. *)
Begin(o) ==
  /\ Advance(o, {"idle"}, "running")
  /\ Become(o, "Uploading")
  /\ UNCHANGED <<mainQ, told>>

(* The upload has failed, perhaps before it began: announced, not yet seen *)
(* in the state.                                                           *)
AnnounceFailure(o) ==
  /\ Advance(o, {"idle", "running"}, "failing")
  /\ Announce(o, "stop")
  /\ UNCHANGED <<state, told>>

SetFailed(o) ==
  /\ Advance(o, {"failing"}, "done")
  /\ Become(o, "Failed")
  /\ UNCHANGED <<mainQ, told>>

(* The upload has succeeded: seen in the state, not yet announced. *)
SetUploaded(o) ==
  /\ Advance(o, {"running"}, "owing")
  /\ Become(o, "Uploaded")
  /\ UNCHANGED <<mainQ, told>>

AnnounceSuccess(o) ==
  /\ Advance(o, {"owing"}, "done")
  /\ Announce(o, "success")
  /\ UNCHANGED <<state, told>>

(* A worker whose connection was cancelled, or whose reply says neither    *)
(* success nor errors, ends without a word.                                *)
Vanish(o) ==
  /\ Advance(o, {"idle", "running"}, "done")
  /\ UNCHANGED <<state, mainQ, told>>

SetCanceled(o) ==
  /\ Become(o, "Canceled")
  /\ UNCHANGED <<phase, mainQ, told>>

Deliver ==
  /\ mainQ # << >>
  /\ told' = [told EXCEPT ![Head(mainQ).op] = Head(mainQ).kind]
  /\ mainQ' = Tail(mainQ)
  /\ UNCHANGED <<state, phase>>

WorkerStep(o) ==
  \/ Begin(o) \/ AnnounceFailure(o) \/ SetFailed(o)
  \/ SetUploaded(o) \/ AnnounceSuccess(o) \/ Vanish(o)

TNext == Deliver \/ \E o \in Op : WorkerStep(o) \/ SetCanceled(o)

TSpec == TInit /\ [][TNext]_tVars
=============================================================================
