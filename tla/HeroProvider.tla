---------------------------- MODULE HeroProvider ----------------------------
(***************************************************************************)
(* The web3 provider that hero-provider.js puts into a page: the engine,   *)
(* the wallet subprovider with its lock on the nonce and the tracker that  *)
(* caches it, as the script configures them, and the way to the            *)
(* application and back.                                                   *)
(*                                                                         *)
(* A call of the application (npc) puts its callback into one property of  *)
(* the window, over the callback of an earlier call; the application       *)
(* answers by calling whatever is there.  Accounts and signatures come in  *)
(* a block 10 ms later, a denial at once; a request that the application   *)
(* drops is never answered.  The script of the page is one thread; the     *)
(* node is reached through HeroProviderURLProtocol, whose handlers wait in *)
(* a queue that the end of any other request empties.                      *)
(***************************************************************************)
EXTENDS Naturals, Sequences

CONSTANTS
  Reads,     \* requests for the accounts: eth_accounts, eth_coinbase
  Sends,     \* eth_sendTransaction
  Raws,      \* eth_signTransaction
  Messages,  \* eth_sign, personal_sign, eth_signTypedData
  Scripts,   \* for each load of a page, the sets of requests it may make
  Startup,   \* the call that the script itself makes for the default account
  None,      \* no nonce
  MaxChain,  \* bound on the transactions the node accepts
  MaxSigned, \* bound on the signatures of one sign view
  MaxReloads \* bound on the reloads of the page

Tx == Sends \cup Raws
Req == Reads \cup Tx \cup Messages

ASSUME RequestAssumption ==
  /\ Scripts \in [0 .. MaxReloads -> SUBSET SUBSET Req]
  /\ Startup \notin Req /\ Reads \cap (Tx \cup Messages) = {}
  /\ Tx \cap Messages = {} /\ Sends \cap Raws = {}
ASSUME NumberAssumption ==
  None \notin Nat /\ MaxChain \in Nat /\ MaxReloads \in Nat /\ MaxSigned \in Nat \ {0}

VARIABLES
  light,     \* the first block: sent, ok, lost, or the light is open or dead
  pc,        \* where each request is
  slot,      \* whose callback is in window['HeroSignaturecallback']
  lock,      \* the holder of nonceLock and those who wait for it
  nonce,     \* the nonce filled into each transaction
  cache,     \* nonceCache of the account
  call,      \* the holder's request to the node: none, sent, ok or error (the
             \* handler waits), lost (it was cancelled), failed
  raw,       \* the nonce of the transaction being published, None for garbage
  open, signed, denied, \* the application's sign views, as SignTicket
  posted,    \* the application's blocks due: [for, what, raw]
  chain,     \* the node's count of the account's transactions
  reloads,   \* the reloads so far
  overlap,   \* history: was the application called while it owed an answer?
  foreign,   \* history: before that, did a callback get another's answer?
  twice,     \* history: before that, did a request get two answers?
  dropped,   \* history: transactions the application will never answer
  drift      \* history: did the count move, or a publication end, unseen?

vars == <<light, pc, slot, lock, nonce, cache, call, raw, open, signed, denied, posted, chain,
          reloads, overlap, foreign, twice, dropped, drift>>
engineVars == <<light, reloads>>
ticketVars == <<open, signed, denied>>

Ticket == INSTANCE SignTicket
-----------------------------------------------------------------------------
(* Has the application a call left to answer? *)
Owes == posted # << >> \/ open # {}

Due(r, what, n) == [for |-> r, what |-> what, raw |-> n]

(* sendAsync: a request waits for the light, and for its turn after that.  *)
sendAsync(script, was) == [r \in Req |-> IF r \in script THEN "waiting" ELSE was[r]]

(* Loading the script: every module is new, the default account is asked   *)
(* for, and the engine fetches its first block.                            *)
Init ==
  /\ light = "sent"
  /\ \E script \in Scripts[0] : pc = sendAsync(script, [r \in Req |-> "none"])
  /\ slot = Startup /\ posted = <<Due(Startup, "accounts", None)>>
  /\ lock = << >> /\ nonce = [r \in Tx |-> None] /\ cache = None
  /\ call = "none" /\ raw = None
  /\ Ticket!Init
  /\ chain = 0 /\ reloads = 0
  /\ overlap = FALSE /\ foreign = FALSE /\ twice = FALSE /\ dropped = {} /\ drift = FALSE

(* Mutant: a callback is put there only when there is none. *)
npc_keepsFirst(r) ==
  /\ slot' = slot
  /\ overlap' = (overlap \/ Owes)

npc(r) ==
  /\ slot' = r
  /\ overlap' = (overlap \/ Owes)
-----------------------------------------------------------------------------
(* handleRequest of the wallet: every request asks for the accounts first. *)
handleRequest(r) ==
  /\ light = "open" /\ pc[r] = "waiting"
  /\ pc' = [pc EXCEPT ![r] = IF r \in Reads THEN "accounts" ELSE "validate"]
  /\ npc(r)
  /\ posted' = Append(posted, Due(r, "accounts", None))
  /\ UNCHANGED <<engineVars, lock, nonce, cache, call, raw, ticketVars, chain, foreign, twice,
                 dropped, drift>>
-----------------------------------------------------------------------------
(* nonceLock, a semaphore of one. *)
Holds(r) == lock # << >> /\ r = Head(lock)

(* Mutant: an error keeps the lock. *)
Leave_keepsOnError(r, end) ==
  /\ pc' = [pc EXCEPT ![r] = end]
  /\ lock' = IF end = "failed" THEN lock ELSE Tail(lock)
  /\ call' = "none"

(* The last callback of finalizeAndSubmitTx and finalizeTx. *)
Leave(r, end) ==
  /\ pc' = [pc EXCEPT ![r] = end]
  /\ lock' = Tail(lock)
  /\ call' = "none"

(* finalizeTx and finalizeAndSubmitTx: the first one goes on at once.      *)
(* Nothing provides signMessage: it throws, and no one is told.            *)
Validated(r) ==
  IF r \in Messages
  THEN pc' = [pc EXCEPT ![r] = "stuck"] /\ UNCHANGED <<lock, call>>
  ELSE /\ lock' = Append(lock, r)
       /\ pc' = [pc EXCEPT ![r] = IF lock = << >> THEN "filling" ELSE "lock"]
       /\ call' = IF lock = << >> THEN "sent" ELSE call

(* The tick in which the next one takes its turn. *)
TakeTurn(r) ==
  /\ Holds(r) /\ pc[r] = "lock"
  /\ pc' = [pc EXCEPT ![r] = "filling"]
  /\ call' = "sent"
  /\ UNCHANGED <<engineVars, slot, lock, nonce, cache, raw, ticketVars, posted, chain, overlap,
                 foreign, twice, dropped, drift>>

(* Does the callback of r take this answer?  A raw transaction is no JSON: *)
(* a callback for the accounts throws, as do those called a second time.   *)
Takes(r, what) ==
  /\ r \in Req
  /\ \/ pc[r] = "signing"
     \/ what # "raw" /\ (r \in Reads \/ pc[r] = "validate")

(* What the callback of r does with the accounts, a raw transaction or a   *)
(* failure.  The sender of r may be none of the accounts.  The callback    *)
(* for a signature takes the accounts for one.                             *)
Call(r, what, n) ==
  \/ /\ Takes(r, what) /\ pc[r] = "validate"
     /\ \/ what = "accounts" /\ Validated(r)
        \/ pc' = [pc EXCEPT ![r] = "failed"] /\ UNCHANGED <<lock, call>>
     /\ UNCHANGED <<raw, twice>>
  \/ /\ Takes(r, what) /\ r \in Reads
     /\ twice' = (twice \/ (~overlap /\ pc[r] # "accounts"))
     /\ pc' = [pc EXCEPT ![r] = IF what = "fail" THEN "failed" ELSE "ended"]
     /\ UNCHANGED <<lock, call, raw>>
  \/ /\ Takes(r, what) /\ pc[r] = "signing" /\ (what = "fail" \/ r \in Raws)
     /\ Leave(r, IF what = "fail" THEN "failed" ELSE "ended")
     /\ UNCHANGED <<raw, twice>>
  \/ /\ Takes(r, what) /\ pc[r] = "signing" /\ what # "fail" /\ r \in Sends
     /\ pc' = [pc EXCEPT ![r] = "publishing"]
     /\ call' = "sent" /\ raw' = n
     /\ UNCHANGED <<lock, twice>>
  \/ ~Takes(r, what) /\ UNCHANGED <<pc, lock, call, raw, twice>>
-----------------------------------------------------------------------------
(* The application.  Blocks 10 ms after a call run in the order they were  *)
(* made in.                                                                *)
Answer ==
  /\ posted # << >>
  /\ LET due == Head(posted)
     IN  Call(slot, due.what, due.raw) /\ foreign' = (foreign \/ (~overlap /\ due.for # slot))
  /\ posted' = Tail(posted)
  /\ UNCHANGED <<engineVars, slot, nonce, cache, ticketVars, chain, overlap, dropped, drift>>

(* A signature of the sign view of r. *)
Sign(r) ==
  /\ Ticket!Sign(r)
  /\ posted' = Append(posted, Due(r, "raw", nonce[r]))
  /\ UNCHANGED <<engineVars, pc, slot, lock, nonce, cache, call, raw, chain, overlap, foreign,
                 twice, dropped, drift>>

(* Its dismissal. *)
Deny(r) ==
  /\ Ticket!Deny(r)
  /\ Call(slot, "fail", None)
  /\ foreign' = (foreign \/ (~overlap /\ r # slot))
  /\ UNCHANGED <<engineVars, slot, nonce, cache, posted, chain, overlap, dropped, drift>>

Close(r) ==
  /\ Ticket!Close(r)
  /\ dropped' = IF signed[r] = 0 /\ r \notin denied THEN dropped \cup {r} ELSE dropped
  /\ UNCHANGED <<engineVars, pc, slot, lock, nonce, cache, call, raw, posted, chain, overlap,
                 foreign, twice, drift>>
-----------------------------------------------------------------------------
(* The node, and the queue its answers wait in.                            *)
FillAnswered(r) ==
  /\ pc[r] = "filling" /\ call = "sent"
  /\ call' \in {"ok", "error"}
  /\ nonce' = [nonce EXCEPT ![r] = IF cache # None THEN cache ELSE chain]
  /\ UNCHANGED <<engineVars, pc, slot, lock, cache, raw, ticketVars, posted, chain, overlap,
                 foreign, twice, dropped, drift>>

(* fillInTxExtras ends: the count becomes the cached nonce, and the        *)
(* application is asked for the signature, which it drops when it has no   *)
(* account and another screen is up.                                       *)
Filled(r) ==
  /\ pc[r] = "filling" /\ call = "ok"
  /\ pc' = [pc EXCEPT ![r] = "signing"] /\ call' = "none"
  /\ cache' = IF cache = None THEN nonce[r] ELSE cache
  /\ npc(r)
  /\ \/ Ticket!Ask(r)
        /\ dropped' = dropped \cup {s \in open \ open' : signed[s] = 0 /\ s \notin denied}
     \/ dropped' = dropped \cup {r} /\ UNCHANGED ticketVars
  /\ UNCHANGED <<engineVars, lock, nonce, raw, posted, chain, foreign, twice, drift>>

(* One of its calls failed; that for the count may have been answered.     *)
FillFailed(r) ==
  /\ pc[r] = "filling" /\ call \in {"error", "failed"}
  /\ Leave(r, "failed")
  /\ cache' \in {cache, IF cache = None THEN nonce[r] ELSE cache}
  /\ UNCHANGED <<engineVars, slot, nonce, raw, ticketVars, posted, chain, overlap, foreign, twice,
                 dropped, drift>>

(* The node takes a transaction with the next nonce, and no other. *)
PublishAnswered(r) ==
  /\ pc[r] = "publishing" /\ call = "sent"
  /\ IF raw = chain
     THEN chain < MaxChain /\ chain' = chain + 1 /\ call' = "ok"
     ELSE call' = "error" /\ UNCHANGED chain
  /\ UNCHANGED <<engineVars, pc, slot, lock, nonce, cache, raw, ticketVars, posted, overlap,
                 foreign, twice, dropped, drift>>

(* Mutant: the tracker keeps the nonce that was used. *)
Published_sameNonce(r) ==
  /\ pc[r] = "publishing" /\ call = "ok"
  /\ Leave(r, "ended")
  /\ cache' = raw
  /\ UNCHANGED <<engineVars, slot, nonce, raw, ticketVars, posted, chain, overlap, foreign, twice,
                 dropped, drift>>

Published(r) ==
  /\ pc[r] = "publishing" /\ call = "ok"
  /\ Leave(r, "ended")
  /\ cache' = raw + 1
  /\ UNCHANGED <<engineVars, slot, nonce, raw, ticketVars, posted, chain, overlap, foreign, twice,
                 dropped, drift>>

PublishFailed(r) ==
  /\ pc[r] = "publishing" /\ call \in {"error", "failed"}
  /\ Leave(r, "failed")
  /\ UNCHANGED <<engineVars, slot, nonce, cache, raw, ticketVars, posted, chain, overlap, foreign,
                 twice, dropped, drift>>

(* stopLoading, at the end of any request that the protocol handles: the   *)
(* handlers that wait in the queue are cancelled and never answer.         *)
stopLoading ==
  /\ light = "ok" \/ call \in {"ok", "error"}
  /\ light' = IF light = "ok" THEN "lost" ELSE light
  /\ call' = IF call \in {"ok", "error"} THEN "lost" ELSE call
  /\ drift' = (drift \/ \E r \in Sends : pc[r] = "publishing" /\ call = "ok")
  /\ UNCHANGED <<pc, slot, lock, nonce, cache, raw, ticketVars, posted, chain, reloads, overlap,
                 foreign, twice, dropped>>

(* The 20 s of rpc.js, or the request fails by itself; a transaction that  *)
(* was sent may still get to the node (OtherSends).                        *)
RequestFails ==
  /\ call \in {"sent", "lost"}
  /\ call' = "failed"
  /\ drift' = (drift \/ \E r \in Sends : pc[r] = "publishing" /\ raw = chain)
  /\ UNCHANGED <<engineVars, pc, slot, lock, nonce, cache, raw, ticketVars, posted, chain,
                 overlap, foreign, twice, dropped>>

(* Another program or a raw transaction that the page publishes itself:    *)
(* of the latter the tracker sees the nonce.                               *)
OtherSends ==
  /\ chain < MaxChain
  /\ chain' = chain + 1
  /\ cache' \in {cache, chain + 1}
  /\ drift' = TRUE
  /\ UNCHANGED <<engineVars, pc, slot, lock, nonce, call, raw, ticketVars, posted, overlap,
                 foreign, twice, dropped>>
-----------------------------------------------------------------------------
(* The engine's start: the first block opens the light; without it the     *)
(* tracker has ended, and the light is never tried again.                  *)
BlockAnswered ==
  /\ light = "sent"
  /\ light' = "ok"
  /\ UNCHANGED <<pc, slot, lock, nonce, cache, call, raw, ticketVars, posted, chain, reloads,
                 overlap, foreign, twice, dropped, drift>>

LightTurns ==
  /\ \/ light = "ok" /\ light' = "open"
     \/ light \in {"sent", "lost"} /\ light' = "dead"
  /\ UNCHANGED <<pc, slot, lock, nonce, cache, call, raw, ticketVars, posted, chain, reloads,
                 overlap, foreign, twice, dropped, drift>>

(* The page is loaded again, or another one is: the sign views and the     *)
(* blocks that are due stay, and answer to the new page.                   *)
Reload ==
  /\ reloads < MaxReloads
  /\ reloads' = reloads + 1
  /\ light' = "sent"
  /\ \E script \in Scripts[reloads'] :
       pc' = sendAsync({r \in script : pc[r] = "none"},
                       [r \in Req |-> IF pc[r] = "none" THEN "none" ELSE "gone"])
  /\ npc(Startup) /\ posted' = Append(posted, Due(Startup, "accounts", None))
  /\ lock' = << >> /\ cache' = None /\ call' = "none" /\ raw' = None
  /\ drift' = (drift \/ \E r \in Sends : pc[r] = "publishing")
  /\ UNCHANGED <<nonce, ticketVars, chain, foreign, twice, dropped>>
-----------------------------------------------------------------------------
Next ==
  \/ \E r \in Req : handleRequest(r)
  \/ \E r \in Tx : TakeTurn(r) \/ FillAnswered(r) \/ Filled(r) \/ FillFailed(r)
  \/ \E r \in Sends : PublishAnswered(r) \/ Published(r) \/ PublishFailed(r)
  \/ Answer
  \/ \E r \in Tx : Sign(r) \/ Deny(r) \/ Close(r)
  \/ stopLoading \/ RequestFails \/ OtherSends \/ BlockAnswered \/ LightTurns \/ Reload

(* The page's one thread, the main queue and the timer of a request go on; *)
(* the node, the user and the page's requests may stop.                    *)
Fairness ==
  /\ WF_vars(LightTurns) /\ WF_vars(Answer) /\ WF_vars(RequestFails)
  /\ \A r \in Req : WF_vars(handleRequest(r))
  /\ \A r \in Tx : WF_vars(TakeTurn(r)) /\ WF_vars(Filled(r)) /\ WF_vars(FillFailed(r))
  /\ \A r \in Sends : WF_vars(Published(r)) /\ WF_vars(PublishFailed(r))

Spec == Init /\ [][Next]_vars /\ Fairness
-----------------------------------------------------------------------------
TypeOK ==
  /\ light \in {"sent", "ok", "lost", "open", "dead"}
  /\ pc \in [Req -> {"none", "waiting", "accounts", "validate", "lock", "filling", "signing",
                     "publishing", "ended", "failed", "stuck", "gone"}]
  /\ slot \in Req \cup {Startup}
  /\ lock \in Seq(Tx)
  /\ nonce \in [Tx -> Nat \cup {None}] /\ cache \in Nat \cup {None} /\ raw \in Nat \cup {None}
  /\ call \in {"none", "sent", "ok", "error", "lost", "failed"}
  /\ open \subseteq Tx /\ signed \in [Tx -> 0 .. MaxSigned] /\ denied \subseteq Tx
  /\ posted \in Seq([for : Req \cup {Startup}, what : {"accounts", "raw"},
                     raw : Nat \cup {None}])
  /\ chain \in 0 .. MaxChain /\ reloads \in 0 .. MaxReloads
  /\ {overlap, foreign, twice, drift} \subseteq BOOLEAN /\ dropped \subseteq Tx

(* As long as the application is never called while it owes an answer,     *)
(* every answer goes to the request it is for, no request gets two, and    *)
(* the callback of a request that waits for its answer is still there.     *)
Awaits(r) == pc[r] \in {"accounts", "validate", "signing"} /\ r \notin dropped

AnswersFindTheirRequest ==
  overlap \/ (~foreign /\ ~twice /\ \A r \in Req : Awaits(r) => slot = r)

(* The lock and the tracker: what the user is asked to sign has the nonce  *)
(* that the node will take, unless the count moved without the tracker     *)
(* having seen it.                                                         *)
NonceIsNext ==
  drift \/ \A r \in Tx : pc[r] = "signing" => nonce[r] = chain

(* If the user answers, every request is answered, unless the first block  *)
(* was never seen, an answer went astray or was never given, or it was a   *)
(* request to sign a message.                                              *)
UserAnswers == []<>(open = {})

Settled(r) == pc[r] \in {"ended", "failed", "stuck", "gone"}

RequestsSettle ==
  UserAnswers => \A r \in Req : pc[r] = "waiting" ~>
                   Settled(r) \/ light = "dead" \/ overlap \/ dropped # {}
=============================================================================
