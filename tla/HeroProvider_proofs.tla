------------------------ MODULE HeroProvider_proofs -------------------------
(***************************************************************************)
(* Proofs about HeroProvider.  Its invariants, each inductive by itself or *)
(* with the ones before it: Shape (types, and which places a request of a  *)
(* kind can be in), Exclusive (nonceLock), Matched (the one callback),     *)
(* Tracked (the nonce), Bounds (the counters) and Queued (nonceLock        *)
(* again: who is in it).                                                   *)
(***************************************************************************)
EXTENDS HeroProvider, SequenceTheorems, TLAPS

USE DEF Req, Tx

Asked == {"signing", "publishing", "ended", "failed", "gone"}
Unasked == {"none", "waiting", "validate", "lock"}
InFlow == {"filling", "signing", "publishing"}
Places == Asked \cup Unasked \cup {"accounts", "filling", "stuck"}

Nonce == Nat \cup {None}

Entry == [for : Req \cup {Startup}, what : {"accounts", "raw"}, raw : Nonce]

Numbers == nonce \in [Tx -> Nonce] /\ cache \in Nonce /\ raw \in Nonce /\ chain \in Nat

Shape ==
  /\ pc \in [Req -> Places]
  /\ slot \in Req \cup {Startup}
  /\ Numbers
  /\ open \in SUBSET Tx /\ denied \in SUBSET Tx /\ signed \in [Tx -> Nat]
  /\ posted \in Seq(Entry)
  /\ reloads \in 0 .. MaxReloads
  /\ \A r \in Req : pc[r] = "accounts" => r \in Reads
  /\ \A r \in Req : pc[r] = "validate" => r \notin Reads
  /\ \A r \in Req : pc[r] \in {"filling", "lock", "signing", "publishing"} => r \in Tx
  /\ \A r \in Tx : r \in open \/ r \in denied \/ signed[r] > 0 => pc[r] \in Asked

(* Whoever fills, signs or publishes holds the lock; and what the node     *)
(* took had a nonce.                                                       *)
Exclusive ==
  /\ lock \in Seq(Tx)
  /\ \A r \in Req : pc[r] \in InFlow => lock # << >> /\ r = Head(lock)
  /\ \A r \in Req : pc[r] = "publishing" /\ call = "ok" => raw \in Nat

(* What an answer does to the places. *)
PlacesAfter(r, what) ==
  \/ pc' = pc
  \/ /\ r \in Req /\ pc[r] = "validate" /\ what # "raw"
     /\ r \in Messages /\ pc' = [pc EXCEPT ![r] = "stuck"]
  \/ /\ r \in Req /\ pc[r] = "validate" /\ what # "raw"
     /\ r \in Tx /\ pc' = [pc EXCEPT ![r] = "filling"]
  \/ /\ r \in Req /\ pc[r] = "validate" /\ what # "raw"
     /\ r \in Tx /\ pc' = [pc EXCEPT ![r] = "lock"]
  \/ /\ r \in Req /\ pc[r] = "validate" /\ what # "raw"
     /\ pc' = [pc EXCEPT ![r] = "failed"]
  \/ /\ r \in Reads /\ what # "raw"
     /\ pc' = [pc EXCEPT ![r] = "failed"] \/ pc' = [pc EXCEPT ![r] = "ended"]
  \/ /\ r \in Tx /\ pc[r] = "signing"
     /\ \/ pc' = [pc EXCEPT ![r] = "failed"]
        \/ pc' = [pc EXCEPT ![r] = "ended"]
        \/ pc' = [pc EXCEPT ![r] = "publishing"]

LEMMA CallPlaces ==
  ASSUME Shape, NEW what, NEW n, Call(slot, what, n)
  PROVE  PlacesAfter(slot, what)
<1> slot \in Req => /\ pc[slot] = "validate" => slot \notin Reads
                    /\ pc[slot] = "signing" => slot \in Tx
  BY DEF Shape
<1>1. CASE ~Takes(slot, what)
  BY <1>1 DEF Call, PlacesAfter
<1>2. CASE Takes(slot, what) /\ pc[slot] = "validate"
  BY <1>2 DEF Call, Takes, Validated, PlacesAfter
<1>3. CASE Takes(slot, what) /\ pc[slot] # "validate"
  BY <1>3 DEF Call, Takes, Leave, PlacesAfter
<1> QED  BY <1>1, <1>2, <1>3

LEMMA InitShape == Init => Shape
<1> SUFFICES ASSUME Init PROVE Shape
  OBVIOUS
<1>1. PICK script \in Scripts[0] : pc = sendAsync(script, [r \in Req |-> "none"])
  BY DEF Init
<1>2. pc \in [Req -> Places] /\ \A r \in Req : pc[r] \in {"none", "waiting"}
  BY <1>1 DEF sendAsync, Places, Unasked
<1>3. Due(Startup, "accounts", None) \in Entry
  BY DEF Due, Entry, Nonce
<1>4. posted \in Seq(Entry)
  BY <1>3 DEF Init
<1>5. /\ open = {} /\ denied = {} /\ signed = [r \in Tx |-> 0]
      /\ slot = Startup /\ reloads = 0
      /\ nonce = [r \in Tx |-> None] /\ cache = None /\ raw = None /\ chain = 0
  BY DEF Init, Ticket!Init
<1> QED  BY <1>2, <1>4, <1>5, NumberAssumption DEF Shape, Numbers, Nonce

(* A step that moves at most one request, which keeps to the places of its *)
(* kind, and leaves the tickets of the others alone.                       *)
LEMMA MoveKeepsShape ==
  ASSUME Shape, NEW r \in Req, NEW to \in Places, pc' = [pc EXCEPT ![r] = to],
         to = "accounts" => r \in Reads,
         to = "validate" => r \notin Reads,
         to \in {"filling", "lock", "signing", "publishing"} => r \in Tx,
         pc[r] \in Asked => to \in Asked,
         UNCHANGED <<open, signed, denied>>,
         slot' \in Req \cup {Startup}, Numbers',
         posted' \in Seq(Entry), reloads' = reloads
  PROVE  Shape'
<1>1. pc' \in [Req -> Places]
  BY DEF Shape
<1>2. \A s \in Req : pc'[s] = IF s = r THEN to ELSE pc[s]
  BY DEF Shape
<1>3. \A s \in Req : /\ pc'[s] = "accounts" => s \in Reads
                     /\ pc'[s] = "validate" => s \notin Reads
                     /\ pc'[s] \in {"filling", "lock", "signing", "publishing"} => s \in Tx
  BY <1>2 DEF Shape
<1>4. \A s \in Tx : s \in open \/ s \in denied \/ signed[s] > 0 => pc'[s] \in Asked
  BY <1>2 DEF Shape
<1> QED  BY <1>1, <1>3, <1>4 DEF Shape

(* After an answer every request is still in a place of its kind, and one  *)
(* that has asked stays among those that have.                             *)
LEMMA AnswerPlaces ==
  ASSUME Shape, NEW what, PlacesAfter(slot, what)
  PROVE  /\ pc' \in [Req -> Places]
         /\ \A s \in Req : /\ pc'[s] = "accounts" => s \in Reads
                           /\ pc'[s] = "validate" => s \notin Reads
                           /\ pc'[s] \in {"filling", "lock", "signing", "publishing"} => s \in Tx
                           /\ pc[s] \in Asked => pc'[s] \in Asked
<1>1. CASE pc' = pc
  BY <1>1 DEF Shape
<1>2. CASE pc' # pc
  <2>1. PICK to \in {"stuck", "filling", "lock", "failed", "ended", "publishing"} :
          /\ slot \in Req /\ pc' = [pc EXCEPT ![slot] = to]
          /\ to \in {"filling", "lock", "publishing"} => slot \in Tx
          /\ to \in {"filling", "lock", "stuck"} => pc[slot] = "validate"
    BY <1>2 DEF PlacesAfter
  <2>2. /\ to \in Places /\ to \notin {"accounts", "validate", "signing"}
        /\ pc[slot] \in Asked => to \in Asked
    BY <2>1 DEF Places, Asked, Unasked
  <2>3. \A s \in Req : pc'[s] = IF s = slot THEN to ELSE pc[s]
    BY <2>1 DEF Shape
  <2>4. pc' \in [Req -> Places]
    BY <2>1, <2>2 DEF Shape
  <2>5. ASSUME NEW s \in Req
        PROVE  /\ pc'[s] = "accounts" => s \in Reads
               /\ pc'[s] = "validate" => s \notin Reads
               /\ pc'[s] \in {"filling", "lock", "signing", "publishing"} => s \in Tx
               /\ pc[s] \in Asked => pc'[s] \in Asked
    <3>1. CASE s = slot
      BY <2>1, <2>2, <2>3, <3>1
    <3>2. CASE s # slot
      BY <2>3, <3>2 DEF Shape
    <3> QED  BY <3>1, <3>2
  <2> QED  BY <2>4, <2>5
<1> QED  BY <1>1, <1>2

LEMMA AnswerKeepsShape ==
  ASSUME Shape, NEW what, PlacesAfter(slot, what), UNCHANGED <<slot, reloads>>, Numbers',
         posted' \in Seq(Entry), UNCHANGED <<open, signed, denied>>
  PROVE  Shape'
<1>1. CASE pc' = pc
  BY <1>1 DEF Shape
<1>2. CASE pc' # pc
  <2>1. slot \in Req
    BY <1>2 DEF PlacesAfter
  <2>2. PICK to \in {"stuck", "filling", "lock", "failed", "ended", "publishing"} :
          /\ pc' = [pc EXCEPT ![slot] = to]
          /\ to \in {"filling", "lock", "publishing"} => slot \in Tx
          /\ to \in {"filling", "lock", "stuck"} => pc[slot] = "validate"
    BY <1>2 DEF PlacesAfter
  <2>3. to \in Places /\ (pc[slot] \in Asked => to \in Asked)
    BY <2>2 DEF Places, Asked, Unasked
  <2>4. slot' \in Req \cup {Startup}
    BY DEF Shape
  <2> QED  BY <2>1, <2>2, <2>3, <2>4, MoveKeepsShape
<1> QED  BY <1>1, <1>2

LEMMA StepShape == Shape /\ Exclusive /\ [Next]_vars => Shape'
<1> SUFFICES ASSUME Shape, Exclusive, [Next]_vars PROVE Shape'
  OBVIOUS
<1> DEFINE Kept ==
             UNCHANGED <<slot, nonce, cache, raw, chain, open, signed, denied, posted, reloads>>
<1>a. ASSUME Kept, pc' = pc PROVE Shape'
  BY <1>a DEF Shape, Numbers
<1>b. slot \in Req \cup {Startup} /\ posted \in Seq(Entry) /\ Numbers
  BY DEF Shape
<1>c. \A r, n : r \in Req \cup {Startup} /\ n \in Nonce =>
        Due(r, "accounts", n) \in Entry /\ Due(r, "raw", n) \in Entry
  BY DEF Due, Entry
<1>1. ASSUME NEW r \in Req, handleRequest(r) PROVE Shape'
  <2>1. posted' \in Seq(Entry)
    BY <1>1, <1>b, <1>c DEF handleRequest, Nonce
  <2> DEFINE to == IF r \in Reads THEN "accounts" ELSE "validate"
  <2>2. to \in Places /\ pc[r] \notin Asked /\ pc' = [pc EXCEPT ![r] = to]
    BY <1>1 DEF handleRequest, Places, Asked, Unasked
  <2>3. Numbers' /\ UNCHANGED <<open, signed, denied, reloads>> /\ slot' = r
    BY <1>1, <1>b DEF handleRequest, npc, ticketVars, engineVars, Numbers
  <2> QED  BY <2>1, <2>2, <2>3, MoveKeepsShape
<1>2. ASSUME NEW r \in Tx, TakeTurn(r) PROVE Shape'
  <2>1. "filling" \in Places /\ pc[r] \notin Asked
    BY <1>2 DEF TakeTurn, Places, Asked
  <2>2. Numbers' /\ UNCHANGED <<open, signed, denied, reloads, slot, posted>>
    BY <1>2, <1>b DEF TakeTurn, ticketVars, engineVars, Numbers
  <2> QED  BY <1>2, <1>b, <2>1, <2>2, MoveKeepsShape DEF TakeTurn
<1>3. ASSUME NEW r \in Tx, FillAnswered(r) PROVE Shape'
  <2>1. pc' = pc /\ UNCHANGED <<slot, open, signed, denied, posted, reloads>>
    BY <1>3 DEF FillAnswered, ticketVars, engineVars
  <2>2. Numbers'
    BY <1>3, <1>b DEF FillAnswered, Numbers, Nonce
  <2> QED  BY <2>1, <2>2 DEF Shape
<1>4. ASSUME NEW r \in Tx, Filled(r) PROVE Shape'
  <2>1. pc \in [Req -> Places] /\ pc' = [pc EXCEPT ![r] = "signing"]
    BY <1>4 DEF Filled, Shape
  <2>2. UNCHANGED <<signed, denied, posted, reloads>> /\ slot' = r
    BY <1>4 DEF Filled, Ticket!Ask, ticketVars, engineVars, npc
  <2>3. open' \in SUBSET Tx /\ open' \subseteq open \cup {r}
    BY <1>4 DEF Filled, Ticket!Ask, ticketVars, Shape
  <2>4. Numbers'
    BY <1>4, <1>b DEF Filled, Numbers
  <2>5. \A s \in Req : pc'[s] = IF s = r THEN "signing" ELSE pc[s]
    BY <2>1
  <2>6. "signing" \in Places /\ "signing" \in Asked
    BY DEF Places, Asked
  <2> QED  BY <2>1, <2>2, <2>3, <2>4, <2>5, <2>6 DEF Shape
<1>5. ASSUME NEW r \in Tx, FillFailed(r) PROVE Shape'
  <2>1. "failed" \in Places /\ "failed" \in Asked
    BY DEF Places, Asked
  <2>2. Numbers' /\ UNCHANGED <<open, signed, denied, reloads, slot, posted>>
    BY <1>5, <1>b DEF FillFailed, Leave, ticketVars, engineVars, Numbers
  <2> QED  BY <1>5, <1>b, <2>1, <2>2, MoveKeepsShape DEF FillFailed, Leave
<1>6. ASSUME NEW r \in Sends, PublishAnswered(r) PROVE Shape'
  <2>1. pc' = pc /\ UNCHANGED <<slot, open, signed, denied, posted, reloads>>
    BY <1>6 DEF PublishAnswered, ticketVars, engineVars
  <2>2. Numbers'
    BY <1>6, <1>b DEF PublishAnswered, Numbers
  <2> QED  BY <2>1, <2>2 DEF Shape
<1>7. ASSUME NEW r \in Sends, Published(r) PROVE Shape'
  <2>1. "ended" \in Places /\ "ended" \in Asked
    BY DEF Places, Asked
  <2>2. raw \in Nat
    BY <1>7 DEF Published, Exclusive
  <2>3. Numbers' /\ UNCHANGED <<open, signed, denied, reloads, slot, posted>>
    BY <1>7, <1>b, <2>2 DEF Published, Leave, ticketVars, engineVars, Numbers, Nonce
  <2> QED  BY <1>7, <1>b, <2>1, <2>3, MoveKeepsShape DEF Published, Leave
<1>8. ASSUME NEW r \in Sends, PublishFailed(r) PROVE Shape'
  <2>1. "failed" \in Places /\ "failed" \in Asked
    BY DEF Places, Asked
  <2>2. Numbers' /\ UNCHANGED <<open, signed, denied, reloads, slot, posted>>
    BY <1>8, <1>b DEF PublishFailed, Leave, ticketVars, engineVars, Numbers
  <2> QED  BY <1>8, <1>b, <2>1, <2>2, MoveKeepsShape DEF PublishFailed, Leave
<1>9. CASE Answer
  <2> DEFINE due == Head(posted)
  <2>1. Call(slot, due.what, due.raw) /\ UNCHANGED <<open, signed, denied, reloads, slot>>
    BY <1>9 DEF Answer, ticketVars, engineVars
  <2>2. due \in Entry /\ posted' \in Seq(Entry)
    BY <1>9, <1>b DEF Answer
  <2>3. raw' \in {raw, due.raw} /\ UNCHANGED <<nonce, cache, chain>>
    BY <1>9, <2>1 DEF Answer, Call, Leave
  <2>4. Numbers'
    BY <1>b, <2>2, <2>3 DEF Numbers, Entry
  <2>5. PlacesAfter(slot, due.what)
    BY <2>1, CallPlaces
  <2> QED  BY <2>1, <2>2, <2>4, <2>5, AnswerKeepsShape
<1>10. ASSUME NEW r \in Tx, Sign(r) PROVE Shape'
  <2>1. /\ r \in open /\ signed' = [signed EXCEPT ![r] = @ + 1]
        /\ open' \in {open, open \ {r}} /\ denied' = denied
    BY <1>10 DEF Sign, Ticket!Sign, Ticket!MayGo
  <2>2. pc' = pc /\ UNCHANGED <<slot, reloads>> /\ Numbers'
    BY <1>10, <1>b DEF Sign, engineVars, Numbers
  <2>3. posted' \in Seq(Entry)
    BY <1>10, <1>b, <1>c DEF Sign, Numbers
  <2>4. signed' \in [Tx -> Nat] /\ \A s \in Tx : s # r => signed'[s] = signed[s]
    BY <2>1 DEF Shape
  <2> QED  BY <2>1, <2>2, <2>3, <2>4 DEF Shape
<1>11. ASSUME NEW r \in Tx, Deny(r) PROVE Shape'
  <2>1. r \in open /\ denied' = denied \cup {r} /\ open' \in {open, open \ {r}}
    BY <1>11 DEF Deny, Ticket!Deny, Ticket!MayGo
  <2>2. Call(slot, "fail", None) /\ UNCHANGED <<slot, signed, posted, reloads>>
    BY <1>11 DEF Deny, Ticket!Deny, engineVars
  <2>3. raw' = raw \/ raw' = None
    BY <2>2 DEF Call, Leave
  <2>4. Numbers'
    BY <1>11, <1>b, <2>3 DEF Deny, Numbers, Nonce
  <2>5. PlacesAfter(slot, "fail")
    BY <2>2, CallPlaces
  <2>6. /\ pc' \in [Req -> Places]
        /\ \A s \in Req : /\ pc'[s] = "accounts" => s \in Reads
                          /\ pc'[s] = "validate" => s \notin Reads
                          /\ pc'[s] \in {"filling", "lock", "signing", "publishing"} => s \in Tx
                          /\ pc[s] \in Asked => pc'[s] \in Asked
    BY <2>5, AnswerPlaces
  <2> QED  BY <2>1, <2>2, <2>4, <2>6 DEF Shape
<1>12. ASSUME NEW r \in Tx, Close(r) PROVE Shape'
  <2>1. open' = open \ {r} /\ UNCHANGED <<signed, denied, pc, slot, posted, reloads>>
    BY <1>12 DEF Close, Ticket!Close, engineVars
  <2>2. Numbers'
    BY <1>12, <1>b DEF Close, Numbers
  <2> QED  BY <2>1, <2>2 DEF Shape
<1>13. CASE stopLoading
  BY <1>a, <1>13 DEF stopLoading, ticketVars
<1>14. CASE RequestFails
  BY <1>a, <1>14 DEF RequestFails, ticketVars, engineVars
<1>15. CASE OtherSends
  <2>1. pc' = pc /\ UNCHANGED <<slot, open, signed, denied, posted, reloads>>
    BY <1>15 DEF OtherSends, ticketVars, engineVars
  <2>2. Numbers'
    BY <1>15, <1>b DEF OtherSends, Numbers, Nonce
  <2> QED  BY <2>1, <2>2 DEF Shape
<1>16. CASE BlockAnswered \/ LightTurns
  BY <1>a, <1>16 DEF BlockAnswered, LightTurns, ticketVars
<1>17. CASE Reload
  <2>1. PICK script \in Scripts[reloads'] :
          pc' = sendAsync({r \in script : pc[r] = "none"},
                          [r \in Req |-> IF pc[r] = "none" THEN "none" ELSE "gone"])
    BY <1>17 DEF Reload
  <2>2. \A r \in Req : pc'[r] = IF pc[r] # "none" THEN "gone"
                                ELSE IF r \in script THEN "waiting" ELSE "none"
    BY <2>1 DEF sendAsync
  <2>3. pc' \in [Req -> Places]
    BY <2>1 DEF sendAsync, Places, Asked, Unasked
  <2>4. posted' \in Seq(Entry)
    BY <1>17, <1>b, <1>c DEF Reload, Nonce
  <2>5. Numbers'
    BY <1>17, <1>b DEF Reload, Numbers, Nonce
  <2>6. /\ UNCHANGED <<open, signed, denied>> /\ slot' = Startup
        /\ reloads' \in 0 .. MaxReloads
    BY <1>17, NumberAssumption DEF Reload, ticketVars, npc, Shape
  <2>7. "gone" \in Asked /\ "none" \notin Asked
    BY DEF Asked
  <2> QED  BY <2>2, <2>3, <2>4, <2>5, <2>6, <2>7 DEF Shape
<1>18. CASE UNCHANGED vars
  BY <1>a, <1>18 DEF vars
<1> QED  BY <1>1, <1>2, <1>3, <1>4, <1>5, <1>6, <1>7, <1>8, <1>9, <1>10, <1>11, <1>12, <1>13,
            <1>14, <1>15, <1>16, <1>17, <1>18 DEF Next
-----------------------------------------------------------------------------
(* What an answer does to the lock and to the holder's request. *)
LEMMA CallFlow ==
  ASSUME Shape, Exclusive, NEW what, NEW n, Call(slot, what, n)
  PROVE  Exclusive'
<1> slot \in Req /\ pc[slot] = "signing" => slot \in Tx
  BY DEF Shape
<1>0. pc \in [Req -> Places] /\ lock \in Seq(Tx)
  BY DEF Shape, Exclusive
<1>1. CASE ~Takes(slot, what)
  BY <1>1 DEF Call, Exclusive
<1>2. CASE Takes(slot, what) /\ pc[slot] = "validate" /\ ~Validated(slot)
  <2>1. (slot \in Req /\ pc' = [pc EXCEPT ![slot] = "failed"]) \/ slot \in Reads
    BY <1>2 DEF Call, Takes
  <2>2. slot \in Req /\ slot \notin Reads
    BY <1>2 DEF Takes, Shape
  <2>3. UNCHANGED <<lock, call, raw>>
    BY <1>2, <2>2 DEF Call
  <2>4. \A r \in Req : pc'[r] = IF r = slot THEN "failed" ELSE pc[r]
    BY <1>0, <2>1, <2>2
  <2> QED  BY <2>3, <2>4 DEF Exclusive, InFlow
<1>3. CASE Takes(slot, what) /\ pc[slot] = "validate" /\ Validated(slot)
  <2>1. slot \in Req /\ slot \notin Reads /\ raw' = raw
    BY <1>3 DEF Takes, Shape, Call
  <2>2. CASE slot \in Messages
    <3>1. UNCHANGED <<lock, call>> /\ \A r \in Req : pc'[r] = IF r = slot THEN "stuck" ELSE pc[r]
      BY <1>0, <1>3, <2>1, <2>2 DEF Validated
    <3> QED  BY <2>1, <3>1 DEF Exclusive, InFlow
  <2>3. CASE slot \notin Messages /\ lock = << >>
    <3>1. slot \in Tx /\ lock' = Append(lock, slot) /\ call' = "sent"
      BY <1>3, <2>1, <2>3 DEF Validated
    <3>2. lock' \in Seq(Tx) /\ lock' # << >> /\ Head(lock') = slot
      BY <1>0, <2>3, <3>1
    <3>3. \A r \in Req : pc'[r] = IF r = slot THEN "filling" ELSE pc[r]
      BY <1>0, <1>3, <2>1, <2>3 DEF Validated
    <3> QED  BY <2>3, <3>1, <3>2, <3>3 DEF Exclusive, InFlow
  <2>4. CASE slot \notin Messages /\ lock # << >>
    <3>1. slot \in Tx /\ lock' = Append(lock, slot) /\ call' = call
      BY <1>3, <2>1, <2>4 DEF Validated
    <3>2. lock' \in Seq(Tx) /\ lock' # << >> /\ Head(lock') = Head(lock)
      BY <1>0, <2>4, <3>1
    <3>3. \A r \in Req : pc'[r] = IF r = slot THEN "lock" ELSE pc[r]
      BY <1>0, <1>3, <2>1, <2>4 DEF Validated
    <3> QED  BY <2>1, <2>4, <3>1, <3>2, <3>3 DEF Exclusive, InFlow
  <2> QED  BY <2>2, <2>3, <2>4
<1>4. CASE Takes(slot, what) /\ pc[slot] # "validate" /\ pc[slot] # "signing"
  <2>1. slot \in Reads /\ UNCHANGED <<lock, call, raw>>
    BY <1>4 DEF Call, Takes
  <2>2. \A r \in Req : pc'[r] = pc[r] \/ pc'[r] \in {"failed", "ended"}
    BY <1>0, <1>4 DEF Call, Takes
  <2> QED  BY <2>1, <2>2 DEF Exclusive, InFlow
<1>5. CASE Takes(slot, what) /\ pc[slot] = "signing"
  <2>1. slot \in Tx /\ slot \notin Reads
    BY <1>5, RequestAssumption DEF Takes
  <2>2. lock # << >> /\ slot = Head(lock)
    BY <1>5, <2>1 DEF Exclusive, InFlow
  <2>3. CASE pc' = [pc EXCEPT ![slot] = "publishing"] /\ call' = "sent" /\ lock' = lock
    <3>1. \A r \in Req : pc'[r] = IF r = slot THEN "publishing" ELSE pc[r]
      BY <1>0, <2>1, <2>3
    <3> QED  BY <2>2, <2>3, <3>1 DEF Exclusive, InFlow
  <2>4. CASE ~(pc' = [pc EXCEPT ![slot] = "publishing"] /\ call' = "sent" /\ lock' = lock)
    <3>1. Leave(slot, IF what = "fail" THEN "failed" ELSE "ended")
      BY <1>5, <2>1, <2>4 DEF Call
    <3>2. \A r \in Req : pc'[r] = IF r # slot THEN pc[r]
                                  ELSE IF what = "fail" THEN "failed" ELSE "ended"
      BY <1>0, <2>1, <3>1 DEF Leave
    <3>3. lock' \in Seq(Tx) /\ call' = "none"
      BY <1>0, <2>2, <3>1 DEF Leave
    <3> QED  BY <2>2, <3>2, <3>3 DEF Exclusive, InFlow
  <2> QED  BY <2>3, <2>4
<1> QED  BY <1>1, <1>2, <1>3, <1>4, <1>5

(* The holder goes on, and may leave the lock. *)
LEMMA LeaveFlow ==
  ASSUME Shape, Exclusive, NEW r \in Tx, pc[r] \in InFlow, NEW end \in {"ended", "failed"},
         Leave(r, end)
  PROVE  Exclusive'
<1>1. lock # << >> /\ r = Head(lock) /\ lock \in Seq(Tx) /\ pc \in [Req -> Places]
  BY DEF Exclusive, Shape
<1>2. lock' \in Seq(Tx) /\ call' = "none" /\ \A s \in Req : pc'[s] = IF s = r THEN end ELSE pc[s]
  BY <1>1 DEF Leave
<1> QED  BY <1>1, <1>2 DEF Exclusive, InFlow

LEMMA StepExclusive == Shape /\ Exclusive /\ [Next]_vars => Exclusive'
<1> SUFFICES ASSUME Shape, Exclusive, [Next]_vars PROVE Exclusive'
  OBVIOUS
<1>0. pc \in [Req -> Places] /\ lock \in Seq(Tx)
  BY DEF Shape, Exclusive
<1>a. ASSUME UNCHANGED <<lock, raw>>, pc' = pc, call' \in {call, "sent", "lost", "failed"}
      PROVE  Exclusive'
  BY <1>a DEF Exclusive
<1>1. ASSUME NEW r \in Req, handleRequest(r) PROVE Exclusive'
  <2>1. \A s \in Req : pc'[s] = pc[s] \/ pc'[s] \in {"accounts", "validate"}
    BY <1>0, <1>1 DEF handleRequest
  <2> QED  BY <1>1, <2>1 DEF handleRequest, Exclusive, InFlow
<1>2. ASSUME NEW r \in Tx, TakeTurn(r) PROVE Exclusive'
  <2>1. \A s \in Req : pc'[s] = IF s = r THEN "filling" ELSE pc[s]
    BY <1>0, <1>2 DEF TakeTurn
  <2> QED  BY <1>2, <2>1 DEF TakeTurn, Holds, Exclusive, InFlow
<1>3. ASSUME NEW r \in Tx, FillAnswered(r) PROVE Exclusive'
  BY <1>3 DEF FillAnswered, Exclusive, InFlow
<1>4. ASSUME NEW r \in Tx, Filled(r) PROVE Exclusive'
  <2>1. \A s \in Req : pc'[s] = IF s = r THEN "signing" ELSE pc[s]
    BY <1>0, <1>4 DEF Filled
  <2> QED  BY <1>4, <2>1 DEF Filled, Exclusive, InFlow
<1>5. ASSUME NEW r \in Tx, FillFailed(r) PROVE Exclusive'
  BY <1>5, LeaveFlow DEF FillFailed, InFlow
<1>6. ASSUME NEW r \in Sends, PublishAnswered(r) PROVE Exclusive'
  <2>1. raw' = raw /\ chain \in Nat /\ (call' = "ok" => raw = chain)
    BY <1>6 DEF PublishAnswered, Shape, Numbers
  <2> QED  BY <1>6, <2>1 DEF PublishAnswered, Exclusive
<1>7. ASSUME NEW r \in Sends, Published(r) PROVE Exclusive'
  BY <1>7, LeaveFlow DEF Published, InFlow
<1>8. ASSUME NEW r \in Sends, PublishFailed(r) PROVE Exclusive'
  BY <1>8, LeaveFlow DEF PublishFailed, InFlow
<1>9. CASE Answer
  BY <1>9, CallFlow DEF Answer
<1>10. ASSUME NEW r \in Tx, Sign(r) PROVE Exclusive'
  BY <1>10, <1>a DEF Sign
<1>11. ASSUME NEW r \in Tx, Deny(r) PROVE Exclusive'
  BY <1>11, CallFlow DEF Deny
<1>12. ASSUME NEW r \in Tx, Close(r) PROVE Exclusive'
  BY <1>12, <1>a DEF Close
<1>13. CASE stopLoading
  BY <1>a, <1>13 DEF stopLoading
<1>14. CASE RequestFails
  BY <1>a, <1>14 DEF RequestFails
<1>15. CASE OtherSends
  BY <1>a, <1>15 DEF OtherSends
<1>16. CASE BlockAnswered \/ LightTurns
  BY <1>a, <1>16 DEF BlockAnswered, LightTurns
<1>17. CASE Reload
  <2>1. PICK script \in Scripts[reloads'] :
          pc' = sendAsync({r \in script : pc[r] = "none"},
                          [r \in Req |-> IF pc[r] = "none" THEN "none" ELSE "gone"])
    BY <1>17 DEF Reload
  <2>2. \A r \in Req : pc'[r] \in {"gone", "waiting", "none"}
    BY <2>1 DEF sendAsync
  <2>3. lock' = << >>
    BY <1>17 DEF Reload
  <2> QED  BY <2>2, <2>3 DEF Exclusive, InFlow
<1>18. CASE UNCHANGED vars
  BY <1>a, <1>18 DEF vars
<1> QED  BY <1>1, <1>2, <1>3, <1>4, <1>5, <1>6, <1>7, <1>8, <1>9, <1>10, <1>11, <1>12, <1>13,
            <1>14, <1>15, <1>16, <1>17, <1>18 DEF Next

(* Any number of requests, in any order and with any failures and reloads: *)
(* types, places, and one transaction at a time between the lock's take    *)
(* and its leave (hooked-wallet.js).                                       *)
THEOREM OneAtATime == Spec => [](Shape /\ Exclusive)
<1>1. Init => Exclusive
  <2> SUFFICES ASSUME Init PROVE Exclusive
    OBVIOUS
  <2>1. PICK script \in Scripts[0] : pc = sendAsync(script, [r \in Req |-> "none"])
    BY DEF Init
  <2>2. \A r \in Req : pc[r] \in {"none", "waiting"}
    BY <2>1 DEF sendAsync
  <2>3. lock = << >>
    BY DEF Init
  <2> QED  BY <2>2, <2>3 DEF Exclusive, InFlow
<1> QED  BY <1>1, InitShape, StepShape, StepExclusive, PTL DEF Spec
-----------------------------------------------------------------------------
(* While the application is never called before it has answered: what it   *)
(* owes is owed to the callback that is there; a request that waits is the *)
(* one whose callback that is; and a request for the accounts is owed one  *)
(* answer, a transaction that was signed or denied before its sign view    *)
(* closes has its answer on the way.                                       *)
Owed ==
  /\ ~foreign /\ ~twice
  /\ open \subseteq {slot}
  /\ \A i \in 1 .. Len(posted) : posted[i].for = slot
  /\ \A r \in Req : Awaits(r) => slot = r /\ Owes
  /\ slot \in Reads /\ posted # << >> => pc[slot] = "accounts" /\ Len(posted) = 1
  /\ slot \in Req /\ pc[slot] \in {"accounts", "validate"} =>
       \A i \in 1 .. Len(posted) : posted[i].what # "raw"
  /\ \A r \in Tx : pc[r] = "signing" /\ r \notin dropped /\ (signed[r] > 0 \/ r \in denied)
       => posted # << >>

Matched == overlap \/ Owed

Waiting == {"accounts", "validate", "signing"}

(* A step of a request that does not wait for the application. *)
LEMMA OthersKeepOwed ==
  ASSUME Owed,
         UNCHANGED <<slot, open, signed, denied, posted, foreign, twice, dropped>>,
         \A r \in Req : pc'[r] = pc[r] \/ (pc[r] \notin Waiting /\ pc'[r] \notin Waiting)
  PROVE  Owed'
<1>1. \A r \in Req : Awaits(r)' => Awaits(r)
  BY DEF Awaits, Waiting
<1>2. Owes' = Owes
  BY DEF Owes
<1>3. \A r \in Req : pc[r] \in Waiting \/ pc'[r] \in Waiting => pc'[r] = pc[r]
  OBVIOUS
<1> QED  BY <1>1, <1>2, <1>3 DEF Owed, Waiting

(* An answer that leaves nobody waiting. *)
LEMMA AnswerKeepsOwed ==
  ASSUME ~foreign', ~twice', open' \subseteq {slot'},
         \A i \in 1 .. Len(posted') : posted'[i].for = slot',
         \A r \in Req : pc'[r] \in Waiting => r \in dropped',
         slot' \in Req => pc'[slot'] \notin {"accounts", "validate"},
         slot' \in Reads => posted' = << >>
  PROVE  Owed'
<1>1. \A r \in Req : ~Awaits(r)'
  BY DEF Awaits, Waiting
<1>2. \A r \in Tx : ~(pc'[r] = "signing" /\ r \notin dropped')
  BY DEF Waiting
<1> QED  BY <1>1, <1>2 DEF Owed

LEMMA StepMatched == Shape /\ Exclusive /\ Matched /\ [Next]_vars => Matched'
<1> SUFFICES ASSUME Shape, Exclusive, Owed, [Next]_vars, ~overlap' PROVE Owed'
  <2>1. [Next]_vars /\ overlap => overlap'
    BY DEF Next, vars, handleRequest, npc, TakeTurn, FillAnswered, Filled, FillFailed,
           PublishAnswered, Published, PublishFailed, Answer, Sign, Deny, Close, stopLoading,
           RequestFails, OtherSends, BlockAnswered, LightTurns, Reload
  <2> QED  BY <2>1 DEF Matched
<1>0. /\ pc \in [Req -> Places] /\ posted \in Seq(Entry) /\ slot \in Req \cup {Startup}
      /\ \A r \in Req : pc[r] = "accounts" => r \in Reads
      /\ \A r \in Tx : r \in open \/ r \in denied \/ signed[r] > 0 => pc[r] \in Asked
  BY DEF Shape
<1>a. ASSUME UNCHANGED <<slot, pc, open, signed, denied, posted, foreign, twice, dropped>>
      PROVE  Owed'
  BY <1>a, OthersKeepOwed
<1>b. ASSUME UNCHANGED <<slot, open, signed, denied, posted, foreign, twice, dropped>>,
             NEW r \in Req, pc[r] \notin Waiting, NEW to, to \notin Waiting,
             pc' = [pc EXCEPT ![r] = to]
      PROVE  Owed'
  <2>1. \A q \in Req : pc'[q] = IF q = r THEN to ELSE pc[q]
    BY <1>0, <1>b
  <2> QED  BY <1>b, <2>1, OthersKeepOwed
<1>c. ASSUME ~Owes
      PROVE  posted = << >> /\ open = {} /\ \A r \in Req : ~Awaits(r)
  BY <1>c DEF Owes, Owed
<1>1. ASSUME NEW r \in Req, handleRequest(r) PROVE Owed'
  <2>1. ~Owes /\ slot' = r /\ UNCHANGED <<open, signed, denied, foreign, twice, dropped>>
    BY <1>1 DEF handleRequest, npc, ticketVars
  <2>2. posted' = <<Due(r, "accounts", None)>>
    BY <1>1, <1>c, <2>1 DEF handleRequest
  <2>3. \A q \in Req :
          pc'[q] = IF q # r THEN pc[q] ELSE IF r \in Reads THEN "accounts" ELSE "validate"
    BY <1>0, <1>1 DEF handleRequest
  <2>4. \A q \in Req : Awaits(q)' => q = r
    BY <1>c, <2>1, <2>3 DEF Awaits
  <2>5. /\ Len(posted') = 1 /\ posted' # << >>
        /\ \A i \in 1 .. Len(posted') : posted'[i].for = r /\ posted'[i].what # "raw"
    BY <2>2 DEF Due
  <2>6. Owes'
    BY <2>5 DEF Owes
  <2> QED  BY <1>c, <2>1, <2>3, <2>4, <2>5, <2>6 DEF Owed
<1>2. ASSUME NEW r \in Tx, TakeTurn(r) PROVE Owed'
  BY <1>b, <1>2 DEF TakeTurn, ticketVars, Waiting
<1>3. ASSUME NEW r \in Tx, FillAnswered(r) PROVE Owed'
  BY <1>a, <1>3 DEF FillAnswered, ticketVars
<1>4. ASSUME NEW r \in Tx, Filled(r) PROVE Owed'
  <2>1. ~Owes /\ slot' = r /\ UNCHANGED <<signed, denied, foreign, twice, posted>>
    BY <1>4 DEF Filled, npc, ticketVars, Ticket!Ask
  <2>2. \A q \in Req : pc'[q] = IF q = r THEN "signing" ELSE pc[q]
    BY <1>0, <1>4 DEF Filled
  <2>3. open' \subseteq {r} /\ dropped \subseteq dropped' /\ (r \in open' \/ r \in dropped')
    BY <1>4, <1>c, <2>1 DEF Filled, Ticket!Ask, ticketVars
  <2>4. \A q \in Req : Awaits(q)' => q = r /\ Owes'
    BY <1>c, <2>1, <2>2, <2>3 DEF Awaits, Owes
  <2>5. signed[r] \in Nat /\ r \notin denied /\ ~(signed[r] > 0)
    BY <1>0, <1>4 DEF Filled, Asked, Shape
  <2>6. \A q \in Tx : pc'[q] = "signing" /\ q \notin dropped' => q = r
    <3>1. \A q \in Req : ~Awaits(q)
      BY <1>c, <2>1
    <3> QED  BY <2>2, <2>3, <3>1 DEF Awaits
  <2>7. posted' = << >> /\ r \notin Reads
    BY <1>c, <2>1, RequestAssumption
  <2> QED  BY <2>1, <2>2, <2>3, <2>4, <2>5, <2>6, <2>7 DEF Owed
<1>5. ASSUME NEW r \in Tx, FillFailed(r) PROVE Owed'
  BY <1>b, <1>5 DEF FillFailed, Leave, ticketVars, Waiting
<1>6. ASSUME NEW r \in Sends, PublishAnswered(r) PROVE Owed'
  BY <1>a, <1>6 DEF PublishAnswered, ticketVars
<1>7. ASSUME NEW r \in Sends, Published(r) PROVE Owed'
  BY <1>b, <1>7 DEF Published, Leave, ticketVars, Waiting
<1>8. ASSUME NEW r \in Sends, PublishFailed(r) PROVE Owed'
  BY <1>b, <1>8 DEF PublishFailed, Leave, ticketVars, Waiting
<1>9. CASE Answer
  <2> DEFINE due == Head(posted)
  <2>1. posted # << >> /\ posted' = Tail(posted) /\ Call(slot, due.what, due.raw)
    BY <1>9 DEF Answer
  <2>2. UNCHANGED <<slot, open, signed, denied, dropped>>
    BY <1>9 DEF Answer, ticketVars
  <2>3. due = posted[1] /\ 1 \in 1 .. Len(posted)
    BY <1>0, <2>1
  <2>4. due.for = slot /\ ~foreign'
    BY <1>9, <2>3 DEF Answer, Owed
  <2>5. \A i \in 1 .. Len(posted') : posted'[i].for = slot
    <3>1. \A i \in 1 .. Len(posted') : posted'[i] = posted[i + 1] /\ i + 1 \in 1 .. Len(posted)
      BY <1>0, <2>1
    <3> QED  BY <3>1 DEF Owed
  <2>6. slot \in Reads => posted' = << >> /\ pc[slot] = "accounts"
    BY <1>0, <2>1 DEF Owed
  <2>7. slot \in Req /\ pc[slot] \in {"accounts", "validate"} => due.what # "raw"
    BY <2>3 DEF Owed
  <2>8. slot \in Req /\ pc[slot] \in Waiting => Takes(slot, due.what)
    BY <1>0, <2>7 DEF Waiting, Takes
  <2>9. ~twice'
    BY <2>1, <2>6 DEF Call, Owed
  <2>10. \A q \in Req : q # slot => pc'[q] = pc[q]
    BY <1>0, <2>1, CallPlaces DEF PlacesAfter
  <2>11. slot \in Req => pc'[slot] \notin Waiting
    <3>1. CASE slot \in Req /\ pc[slot] \notin Waiting
      BY <1>0, <2>1, <2>6, <3>1, CallPlaces DEF PlacesAfter, Waiting
    <3>2. CASE slot \in Req /\ pc[slot] \in Waiting
      BY <1>0, <2>1, <2>8, <3>2 DEF Call, Takes, Waiting, Validated, Leave
    <3> QED  BY <3>1, <3>2
  <2>12. \A q \in Req : pc'[q] \in Waiting => q \in dropped'
    BY <2>2, <2>10, <2>11 DEF Owed, Awaits, Waiting
  <2>13. open' \subseteq {slot'}
    BY <2>2 DEF Owed
  <2>14. slot' \in Req => pc'[slot'] \notin {"accounts", "validate"}
    BY <2>2, <2>11 DEF Waiting
  <2> QED  BY <2>2, <2>4, <2>5, <2>6, <2>9, <2>12, <2>13, <2>14, AnswerKeepsOwed
<1>10. ASSUME NEW r \in Tx, Sign(r) PROVE Owed'
  <2>1. r \in open /\ slot = r /\ open' \subseteq open
    BY <1>10 DEF Sign, Ticket!Sign, Ticket!MayGo, Owed
  <2>2. UNCHANGED <<slot, pc, foreign, twice, dropped>>
    BY <1>10 DEF Sign
  <2>3. posted' = Append(posted, Due(r, "raw", nonce[r])) /\ posted' # << >>
    BY <1>0, <1>10 DEF Sign
  <2>4. Due(r, "raw", nonce[r]) \in Entry
    BY DEF Due, Entry, Shape, Numbers
  <2>5. \A i \in 1 .. Len(posted') : posted'[i].for = slot
    <3>1. \A i \in 1 .. Len(posted') :
            \/ i \in 1 .. Len(posted) /\ posted'[i] = posted[i]
            \/ posted'[i] = Due(r, "raw", nonce[r])
      BY <1>0, <2>3, <2>4
    <3> QED  BY <2>1, <3>1 DEF Owed, Due
  <2>6. slot \notin Reads /\ pc[slot] \notin {"accounts", "validate"}
    BY <1>0, <2>1, RequestAssumption DEF Asked
  <2>7. \A q \in Req : Awaits(q)' => slot' = q /\ Owes'
    BY <2>2, <2>3 DEF Owed, Awaits, Owes
  <2> QED  BY <2>1, <2>2, <2>3, <2>5, <2>6, <2>7 DEF Owed
<1>11. ASSUME NEW r \in Tx, Deny(r) PROVE Owed'
  <2>1. r \in open /\ slot = r /\ open' \subseteq open /\ UNCHANGED <<slot, posted, dropped>>
    BY <1>11 DEF Deny, Ticket!Deny, Ticket!MayGo, Owed
  <2>2. Call(slot, "fail", None) /\ ~foreign'
    BY <1>11, <2>1 DEF Deny, Owed
  <2>3. slot \notin Reads /\ pc[slot] \in Asked
    BY <1>0, <2>1, RequestAssumption
  <2>4. ~twice'
    BY <2>2, <2>3 DEF Call, Owed
  <2>5. \A q \in Req : pc'[q] = pc[q] \/ (q = slot /\ pc'[q] \notin Waiting)
    BY <1>0, <2>1, <2>2, <2>3 DEF Call, Leave, Asked, Waiting
  <2>6. pc'[slot] \notin Waiting
    BY <1>0, <2>1, <2>2, <2>3 DEF Call, Takes, Leave, Asked, Waiting
  <2>7. \A q \in Req : pc'[q] \in Waiting => q \in dropped'
    BY <2>1, <2>5, <2>6 DEF Owed, Awaits, Waiting
  <2>8. \A i \in 1 .. Len(posted') : posted'[i].for = slot'
    BY <2>1 DEF Owed
  <2>9. pc'[slot'] \notin {"accounts", "validate"}
    BY <2>1, <2>6 DEF Waiting
  <2>10. open' \subseteq {slot'} /\ slot' \notin Reads
    BY <2>1, <2>3 DEF Owed
  <2> QED  BY <2>2, <2>4, <2>7, <2>8, <2>9, <2>10, AnswerKeepsOwed
<1>12. ASSUME NEW r \in Tx, Close(r) PROVE Owed'
  <2>1. r \in open /\ slot = r /\ open' = open \ {r} /\ UNCHANGED <<signed, denied>>
    BY <1>12 DEF Close, Ticket!Close, Owed
  <2>2. UNCHANGED <<slot, pc, posted, foreign, twice>> /\ dropped \subseteq dropped'
    BY <1>12 DEF Close
  <2>3. r \in dropped' \/ signed[r] > 0 \/ r \in denied
    BY <1>12 DEF Close, Shape
  <2>4. pc[r] = "signing" /\ r \notin dropped' => posted # << >>
    BY <2>2, <2>3 DEF Owed
  <2>5. pc[r] \in Asked
    BY <1>0, <2>1
  <2>6. \A q \in Req : Awaits(q)' => slot = q /\ posted # << >>
    BY <2>1, <2>2, <2>4, <2>5 DEF Owed, Awaits, Asked
  <2>7. \A q \in Req : Awaits(q)' => slot' = q /\ Owes'
    BY <2>2, <2>6 DEF Owes
  <2>8. \A q \in Tx : pc'[q] = "signing" /\ q \notin dropped' => posted' # << >>
    BY <2>2, <2>6 DEF Awaits
  <2> QED  BY <2>1, <2>2, <2>7, <2>8 DEF Owed
<1>13. CASE stopLoading
  BY <1>a, <1>13 DEF stopLoading, ticketVars
<1>14. CASE RequestFails
  BY <1>a, <1>14 DEF RequestFails, ticketVars
<1>15. CASE OtherSends
  BY <1>a, <1>15 DEF OtherSends, ticketVars
<1>16. CASE BlockAnswered \/ LightTurns
  BY <1>a, <1>16 DEF BlockAnswered, LightTurns, ticketVars
<1>17. CASE Reload
  <2>1. ~Owes /\ slot' = Startup /\ UNCHANGED <<open, signed, denied, foreign, twice, dropped>>
    BY <1>17 DEF Reload, npc, ticketVars
  <2>2. PICK script \in Scripts[reloads'] :
          pc' = sendAsync({r \in script : pc[r] = "none"},
                          [r \in Req |-> IF pc[r] = "none" THEN "none" ELSE "gone"])
    BY <1>17 DEF Reload
  <2>3. \A r \in Req : pc'[r] \in {"gone", "waiting", "none"}
    BY <2>2 DEF sendAsync
  <2>4. posted' = <<Due(Startup, "accounts", None)>>
    BY <1>17, <1>c, <2>1 DEF Reload
  <2>5. \A i \in 1 .. Len(posted') : posted'[i].for = slot'
    BY <2>1, <2>4 DEF Due
  <2>6. slot' \notin Req /\ open' = {}
    BY <1>c, <2>1, RequestAssumption
  <2>7. \A r \in Req : pc'[r] \notin Waiting
    BY <2>3 DEF Waiting
  <2>8. ~foreign' /\ ~twice'
    BY <2>1 DEF Owed
  <2> QED  BY <2>5, <2>6, <2>7, <2>8, AnswerKeepsOwed
<1>18. CASE UNCHANGED vars
  BY <1>a, <1>18 DEF vars
<1> QED  BY <1>1, <1>2, <1>3, <1>4, <1>5, <1>6, <1>7, <1>8, <1>9, <1>10, <1>11, <1>12, <1>13,
            <1>14, <1>15, <1>16, <1>17, <1>18 DEF Next

LEMMA MatchedHolds == Spec => []Matched
<1>1. Init => Matched
  <2> SUFFICES ASSUME Init PROVE Owed
    BY DEF Matched
  <2>1. PICK script \in Scripts[0] : pc = sendAsync(script, [r \in Req |-> "none"])
    BY DEF Init
  <2>2. \A r \in Req : pc[r] \in {"none", "waiting"}
    BY <2>1 DEF sendAsync
  <2>3. /\ ~foreign /\ ~twice /\ open = {} /\ slot = Startup /\ Startup \notin Req
        /\ posted = <<Due(Startup, "accounts", None)>>
    BY RequestAssumption DEF Init, Ticket!Init
  <2>4. \A i \in 1 .. Len(posted) : posted[i].for = slot
    BY <2>3 DEF Due
  <2>5. \A r \in Req : ~Awaits(r)
    BY <2>2 DEF Awaits
  <2> QED  BY <2>2, <2>3, <2>4, <2>5 DEF Owed
<1>2. Spec => [](Shape /\ Exclusive)
  BY OneAtATime
<1> QED  BY <1>1, <1>2, StepMatched, PTL DEF Spec

(* Requests of any number, kind and order, any user, node and reloads: as  *)
(* long as no call is made while another is owed its answer, no answer     *)
(* gets to the callback of another request.  Nothing keeps a page to that: *)
(* two requests to send pass the lock one after the other, but a request   *)
(* for the accounts overlaps any of them.                                  *)
THEOREM AnswersMatched == Spec => []AnswersFindTheirRequest
<1>1. Matched => AnswersFindTheirRequest
  BY DEF Matched, Owed, AnswersFindTheirRequest
<1> QED  BY <1>1, MatchedHolds, PTL
-----------------------------------------------------------------------------
(* While no count moved unseen: the tracker knows the count or nothing,    *)
(* but for the moment between the node's taking a transaction and the      *)
(* answer; and so does the transaction that holds the lock.                *)
Counted ==
  /\ cache # None =>
       cache = chain \/ \E r \in Sends : pc[r] = "publishing" /\ call = "ok" /\ cache + 1 = chain
  /\ \A r \in Sends : pc[r] = "publishing" /\ call = "ok" => raw + 1 = chain
  /\ \A r \in Tx : /\ pc[r] \in Unasked => nonce[r] = None
                   /\ pc[r] = "filling" => nonce[r] \in {None, chain}
                   /\ pc[r] = "filling" /\ call = "ok" => nonce[r] = chain
                   /\ pc[r] = "signing" => nonce[r] = chain

Tracked == drift \/ Counted

(* Nobody publishes while another holds the lock. *)
LEMMA HolderAlone ==
  ASSUME Exclusive, NEW r \in Req, pc[r] \in InFlow \/ Holds(r)
  PROVE  \A q \in Req : pc[q] \in InFlow => q = r
BY DEF Exclusive, Holds

(* A step of the holder to a place where it has no nonce to keep to. *)
LEMMA MoveKeepsCounted ==
  ASSUME Shape, Exclusive, Counted, NEW r \in Req, NEW to, pc' = [pc EXCEPT ![r] = to],
         UNCHANGED <<nonce, chain>>, cache' \in {chain, None}, call' # "ok", to \notin Unasked,
         r \in Tx /\ to \in {"filling", "signing"} => pc[r] \in Unasked /\ to = "filling"
  PROVE  Counted'
<1>1. \A q \in Req : pc'[q] = IF q = r THEN to ELSE pc[q]
  BY DEF Shape
<1>2. \A q \in Tx : /\ pc'[q] \in Unasked => nonce[q] = None
                    /\ pc'[q] = "filling" => nonce[q] \in {None, chain}
                    /\ pc'[q] = "signing" => nonce[q] = chain
  BY <1>1 DEF Counted, Unasked
<1>3. nonce' = nonce /\ chain' = chain /\ (cache' # None => cache' = chain')
  OBVIOUS
<1> QED  BY <1>2, <1>3 DEF Counted

(* What an answer does to the nonce. *)
LEMMA CallCounted ==
  ASSUME Shape, Exclusive, Counted, NEW what, NEW n, Call(slot, what, n),
         UNCHANGED <<nonce, cache, chain>>
  PROVE  Counted'
<1>0. pc \in [Req -> Places] /\ nonce' = nonce /\ cache' = cache /\ chain' = chain
  BY DEF Shape
<1>1. CASE ~Takes(slot, what)
  BY <1>0, <1>1 DEF Call, Counted
<1>2. CASE Takes(slot, what) /\ pc[slot] = "signing"
  <2>1. slot \in Tx /\ slot \notin Reads
    BY <1>2, RequestAssumption DEF Takes, Shape
  <2>2. \A q \in Sends : pc[q] # "publishing"
    BY <1>2, <2>1, HolderAlone DEF InFlow
  <2>3. cache' \in {chain, None}
    BY <1>0, <2>2 DEF Counted
  <2>4. PICK to \in {"failed", "ended", "publishing"} :
          pc' = [pc EXCEPT ![slot] = to] /\ call' # "ok"
    BY <1>2, <2>1 DEF Call, Leave
  <2> QED  BY <1>0, <2>1, <2>3, <2>4, MoveKeepsCounted DEF Unasked
<1>3. CASE Takes(slot, what) /\ pc[slot] # "signing" /\ slot \in Reads
  <2>1. UNCHANGED call /\ UNCHANGED raw
    BY <1>3, RequestAssumption DEF Call, Takes, Shape
  <2>2. slot \in Req /\ slot \notin Tx
    BY <1>3, RequestAssumption
  <2>3. \A q \in Tx : pc'[q] = pc[q]
    BY <1>0, <1>3, <2>2, CallPlaces DEF PlacesAfter
  <2> QED  BY <1>0, <2>1, <2>3 DEF Counted
<1>4. CASE Takes(slot, what) /\ pc[slot] = "validate"
  <2>1. slot \in Req /\ slot \notin Reads /\ raw' = raw
    BY <1>4 DEF Takes, Shape, Call
  <2>2. CASE call' = call /\ \E to \in {"failed", "stuck", "lock"} :
                               pc' = [pc EXCEPT ![slot] = to] /\ (to = "lock" => slot \in Tx)
    <3>1. PICK to \in {"failed", "stuck", "lock"} : pc' = [pc EXCEPT ![slot] = to]
      BY <2>2
    <3>2. \A q \in Req : pc'[q] = IF q = slot THEN to ELSE pc[q]
      BY <1>0, <3>1
    <3>3. slot \in Tx => nonce[slot] = None
      BY <1>4 DEF Counted, Unasked
    <3>4. \A q \in Tx : /\ pc'[q] \in Unasked => nonce[q] = None
                        /\ pc'[q] \in InFlow => pc'[q] = pc[q]
      BY <3>2, <3>3 DEF Counted, InFlow
    <3>5. \A q \in Sends : pc'[q] = "publishing" <=> pc[q] = "publishing"
      BY <1>4, <3>2
    <3> QED  BY <1>0, <2>1, <2>2, <3>4, <3>5 DEF Counted, InFlow
  <2>3. CASE call' = "sent" /\ lock = << >> /\ slot \in Tx /\ pc' = [pc EXCEPT ![slot] = "filling"]
    <3>1. \A q \in Sends : pc[q] # "publishing"
      BY <2>3 DEF Exclusive, InFlow
    <3>2. cache' \in {chain, None}
      BY <1>0, <3>1 DEF Counted
    <3> QED  BY <1>0, <1>4, <2>1, <2>3, <3>2, MoveKeepsCounted DEF Unasked
  <2> QED  BY <1>4, <2>1, <2>2, <2>3 DEF Call, Validated
<1> QED  BY <1>1, <1>2, <1>3, <1>4 DEF Takes

LEMMA StepTracked == Shape /\ Exclusive /\ Tracked /\ [Next]_vars => Tracked'
<1> SUFFICES ASSUME Shape, Exclusive, Counted, [Next]_vars, ~drift' PROVE Counted'
  <2>1. [Next]_vars /\ drift => drift'
    BY DEF Next, vars, handleRequest, npc, TakeTurn, FillAnswered, Filled, FillFailed,
           PublishAnswered, Published, PublishFailed, Answer, Sign, Deny, Close, stopLoading,
           RequestFails, OtherSends, BlockAnswered, LightTurns, Reload
  <2> QED  BY <2>1 DEF Tracked
<1>0. pc \in [Req -> Places] /\ Numbers
  BY DEF Shape
<1>a. ASSUME UNCHANGED <<pc, nonce, cache, call, raw, chain>> PROVE Counted'
  BY <1>a DEF Counted
<1>b. ASSUME NEW r \in Tx, pc[r] \in InFlow \/ Holds(r), ~(pc[r] = "publishing" /\ call = "ok")
      PROVE  cache = None \/ cache = chain
  BY <1>b, HolderAlone DEF Counted, InFlow
<1>1. ASSUME NEW r \in Req, handleRequest(r) PROVE Counted'
  <2>1. \A q \in Req :
          pc'[q] = IF q # r THEN pc[q] ELSE IF r \in Reads THEN "accounts" ELSE "validate"
    BY <1>0, <1>1 DEF handleRequest
  <2>2. UNCHANGED nonce /\ UNCHANGED cache /\ UNCHANGED call /\ UNCHANGED raw /\ UNCHANGED chain
    BY <1>1 DEF handleRequest
  <2>3. \A q \in Tx : /\ pc'[q] \in Unasked => pc[q] \in Unasked
                      /\ pc'[q] \in InFlow => pc'[q] = pc[q]
    BY <1>1, <2>1 DEF handleRequest, Unasked, InFlow
  <2>4. \A q \in Sends : pc'[q] = "publishing" <=> pc[q] = "publishing"
    BY <1>1, <2>1 DEF handleRequest
  <2> QED  BY <2>2, <2>3, <2>4 DEF Counted, InFlow
<1>2. ASSUME NEW r \in Tx, TakeTurn(r) PROVE Counted'
  <2>1. cache' \in {chain, None} /\ UNCHANGED <<nonce, chain>>
    BY <1>2, <1>b DEF TakeTurn
  <2> QED  BY <1>2, <2>1, MoveKeepsCounted DEF TakeTurn, Unasked
<1>3. ASSUME NEW r \in Tx, FillAnswered(r) PROVE Counted'
  <2>1. cache = None \/ cache = chain
    BY <1>3, <1>b DEF FillAnswered, InFlow
  <2>2. \A q \in Req : pc[q] \in InFlow => q = r
    BY <1>3, HolderAlone DEF FillAnswered, InFlow
  <2>3. nonce' = [nonce EXCEPT ![r] = chain] /\ pc' = pc /\ cache' = cache /\ chain' = chain
    BY <1>3, <2>1 DEF FillAnswered
  <2>4. nonce'[r] = chain /\ \A q \in Tx : q # r => nonce'[q] = nonce[q]
    BY <1>0, <2>3 DEF Numbers
  <2>5. pc[r] = "filling"
    BY <1>3 DEF FillAnswered
  <2>6. \A q \in Tx : /\ pc'[q] \in Unasked => nonce'[q] = None
                      /\ pc'[q] \in {"filling", "signing"} => nonce'[q] = chain
    BY <2>2, <2>3, <2>4, <2>5 DEF Counted, Unasked, InFlow
  <2>7. \A q \in Sends : pc'[q] # "publishing"
    BY <2>2, <2>3, <2>5 DEF InFlow
  <2> QED  BY <2>1, <2>3, <2>6, <2>7 DEF Counted
<1>4. ASSUME NEW r \in Tx, Filled(r) PROVE Counted'
  <2>1. nonce[r] = chain /\ cache' = chain /\ UNCHANGED nonce /\ UNCHANGED chain
    BY <1>4, <1>b DEF Filled, Counted, InFlow
  <2>2. \A q \in Req : pc'[q] = IF q = r THEN "signing" ELSE pc[q]
    BY <1>0, <1>4 DEF Filled
  <2>3. \A q \in Tx : /\ pc'[q] \in Unasked => nonce[q] = None
                      /\ pc'[q] = "filling" => nonce[q] \in {None, chain}
                      /\ pc'[q] = "signing" => nonce[q] = chain
    BY <2>1, <2>2 DEF Counted, Unasked
  <2>4. call' = "none"
    BY <1>4 DEF Filled
  <2> QED  BY <2>1, <2>3, <2>4 DEF Counted
<1>5. ASSUME NEW r \in Tx, FillFailed(r) PROVE Counted'
  <2>1. cache' \in {chain, None}
    BY <1>5, <1>b DEF FillFailed, Counted, InFlow
  <2> QED  BY <1>5, <2>1, MoveKeepsCounted DEF FillFailed, Leave, Unasked
<1>6. ASSUME NEW r \in Sends, PublishAnswered(r) PROVE Counted'
  <2>1. cache = None \/ cache = chain
    BY <1>6, <1>b DEF PublishAnswered, InFlow
  <2>2. \A q \in Req : pc[q] \in InFlow => q = r
    BY <1>6, HolderAlone DEF PublishAnswered, InFlow
  <2>3. /\ pc' = pc /\ nonce' = nonce /\ cache' = cache /\ raw' = raw /\ pc[r] = "publishing"
        /\ \/ raw = chain /\ chain' = chain + 1 /\ call' = "ok"
           \/ chain' = chain /\ call' = "error"
    BY <1>6 DEF PublishAnswered
  <2>4. \A q \in Tx : pc'[q] \notin {"filling", "signing"}
    BY <2>2, <2>3 DEF InFlow
  <2>5. \A q \in Tx : pc'[q] \in Unasked => nonce'[q] = None
    BY <2>3 DEF Counted
  <2>6. \A q \in Sends : pc'[q] = "publishing" /\ call' = "ok" => raw' + 1 = chain'
    BY <2>3
  <2>7. cache' # None =>
          cache' = chain' \/ (call' = "ok" /\ pc'[r] = "publishing" /\ cache' + 1 = chain')
    BY <2>1, <2>3
  <2> QED  BY <2>4, <2>5, <2>6, <2>7 DEF Counted
<1>7. ASSUME NEW r \in Sends, Published(r) PROVE Counted'
  <2>1. cache' = chain /\ UNCHANGED <<nonce, chain>>
    BY <1>7 DEF Published, Counted
  <2> QED  BY <1>7, <2>1, MoveKeepsCounted DEF Published, Leave, Unasked
<1>8. ASSUME NEW r \in Sends, PublishFailed(r) PROVE Counted'
  <2>1. cache' \in {chain, None}
    BY <1>8, <1>b DEF PublishFailed, InFlow
  <2> QED  BY <1>8, <2>1, MoveKeepsCounted DEF PublishFailed, Leave, Unasked
<1>9. CASE Answer
  BY <1>9, CallCounted DEF Answer
<1>10. ASSUME NEW r \in Tx, Sign(r) PROVE Counted'
  BY <1>a, <1>10 DEF Sign
<1>11. ASSUME NEW r \in Tx, Deny(r) PROVE Counted'
  BY <1>11, CallCounted DEF Deny
<1>12. ASSUME NEW r \in Tx, Close(r) PROVE Counted'
  BY <1>a, <1>12 DEF Close
<1>13. CASE stopLoading
  <2>1. UNCHANGED pc /\ UNCHANGED nonce /\ UNCHANGED cache /\ UNCHANGED chain /\ UNCHANGED raw
    BY <1>13 DEF stopLoading
  <2>2. call' # "ok" /\ \A r \in Sends : ~(pc[r] = "publishing" /\ call = "ok")
    BY <1>13 DEF stopLoading
  <2> QED  BY <2>1, <2>2 DEF Counted
<1>14. CASE RequestFails
  <2>1. UNCHANGED pc /\ UNCHANGED nonce /\ UNCHANGED cache /\ UNCHANGED chain /\ UNCHANGED raw
    BY <1>14 DEF RequestFails
  <2>2. call' # "ok" /\ call # "ok"
    BY <1>14 DEF RequestFails
  <2> QED  BY <2>1, <2>2 DEF Counted
<1>15. CASE OtherSends
  BY <1>15 DEF OtherSends
<1>16. CASE BlockAnswered \/ LightTurns
  BY <1>a, <1>16 DEF BlockAnswered, LightTurns
<1>17. CASE Reload
  <2>1. PICK script \in Scripts[reloads'] :
          pc' = sendAsync({r \in script : pc[r] = "none"},
                          [r \in Req |-> IF pc[r] = "none" THEN "none" ELSE "gone"])
    BY <1>17 DEF Reload
  <2>2. \A r \in Req : pc'[r] \in {"gone", "waiting", "none"} /\ (pc'[r] # "gone" => pc[r] = "none")
    BY <2>1 DEF sendAsync
  <2>3. nonce' = nonce /\ cache' = None
    BY <1>17 DEF Reload
  <2>4. \A r \in Tx : pc'[r] \in Unasked => nonce'[r] = None
    BY <2>2, <2>3 DEF Counted, Unasked
  <2> QED  BY <2>2, <2>3, <2>4 DEF Counted
<1>18. CASE UNCHANGED vars
  BY <1>a, <1>18 DEF vars
<1> QED  BY <1>1, <1>2, <1>3, <1>4, <1>5, <1>6, <1>7, <1>8, <1>9, <1>10, <1>11, <1>12, <1>13,
            <1>14, <1>15, <1>16, <1>17, <1>18 DEF Next

(* Whatever the order of requests, signatures, failures and reloads: as    *)
(* long as the count moves only by publications whose answer the tracker   *)
(* sees, the user is asked to sign the transaction that the node takes     *)
(* next.                                                                   *)
THEOREM NonceTracked == Spec => []NonceIsNext
<1>1. Init => Tracked
  <2> SUFFICES ASSUME Init PROVE Counted
    BY DEF Tracked
  <2>1. PICK script \in Scripts[0] : pc = sendAsync(script, [r \in Req |-> "none"])
    BY DEF Init
  <2>2. \A r \in Req : pc[r] \in {"none", "waiting"}
    BY <2>1 DEF sendAsync
  <2>3. cache = None /\ nonce = [r \in Tx |-> None]
    BY DEF Init
  <2> QED  BY <2>2, <2>3 DEF Counted
<1>2. Tracked => NonceIsNext
  BY DEF Tracked, Counted, NonceIsNext
<1>3. Spec => [](Shape /\ Exclusive)
  BY OneAtATime
<1> QED  BY <1>1, <1>2, <1>3, StepTracked, PTL DEF Spec
-----------------------------------------------------------------------------
(* The bounds of the counters, and the stages of the light and of a call   *)
(* to the node: with Shape, the types.                                     *)
Bounds ==
  /\ light \in {"sent", "ok", "lost", "open", "dead"}
  /\ call \in {"none", "sent", "ok", "error", "lost", "failed"}
  /\ signed \in [Tx -> 0 .. MaxSigned]
  /\ chain \in 0 .. MaxChain
  /\ overlap \in BOOLEAN /\ foreign \in BOOLEAN /\ twice \in BOOLEAN /\ drift \in BOOLEAN
  /\ dropped \subseteq Tx

LEMMA CallBounds ==
  ASSUME Bounds, NEW what, NEW n, Call(slot, what, n)
  PROVE  call' \in {"none", "sent", "ok", "error", "lost", "failed"} /\ twice' \in BOOLEAN
<1>1. call' \in {call, "none", "sent"}
  BY DEF Call, Validated, Leave
<1>2. twice' = twice \/ twice' = (twice \/ (~overlap /\ pc[slot] # "accounts"))
  BY DEF Call
<1> QED  BY <1>1, <1>2 DEF Bounds

LEMMA StepBounds == Shape /\ Bounds /\ [Next]_vars => Bounds'
<1> SUFFICES ASSUME Shape, Bounds, [Next]_vars PROVE Bounds'
  OBVIOUS
<1>1. light' \in {"sent", "ok", "lost", "open", "dead"}
  BY DEF Bounds, Next, vars, engineVars, handleRequest, TakeTurn, FillAnswered, Filled,
         FillFailed, PublishAnswered, Published, PublishFailed, Answer, Sign, Deny, Close,
         stopLoading, RequestFails, OtherSends, BlockAnswered, LightTurns, Reload
<1>2. call' \in {"none", "sent", "ok", "error", "lost", "failed"} /\ twice' \in BOOLEAN
  <2>1. CASE Answer
    BY <2>1, CallBounds DEF Answer
  <2>2. ASSUME NEW r \in Tx, Deny(r)
        PROVE  call' \in {"none", "sent", "ok", "error", "lost", "failed"} /\ twice' \in BOOLEAN
    BY <2>2, CallBounds DEF Deny
  <2>3. CASE ~Answer /\ \A r \in Tx : ~Deny(r)
    <3>1. call' \in {call, "none", "sent", "ok", "error", "lost", "failed"}
      BY <2>3 DEF Next, vars, handleRequest, TakeTurn, FillAnswered, Filled, FillFailed, Leave,
                  PublishAnswered, Published, PublishFailed, Sign, Close, stopLoading,
                  RequestFails, OtherSends, BlockAnswered, LightTurns, Reload
    <3>2. twice' = twice
      BY <2>3 DEF Next, vars, handleRequest, TakeTurn, FillAnswered, Filled, FillFailed,
                  PublishAnswered, Published, PublishFailed, Sign, Close, stopLoading,
                  RequestFails, OtherSends, BlockAnswered, LightTurns, Reload
    <3> QED  BY <3>1, <3>2 DEF Bounds
  <2> QED  BY <2>1, <2>2, <2>3
<1>3. signed' \in [Tx -> 0 .. MaxSigned]
  <2>1. ASSUME NEW r \in Tx, Sign(r) PROVE signed' \in [Tx -> 0 .. MaxSigned]
    <3>1. signed' = [signed EXCEPT ![r] = @ + 1] /\ signed[r] < MaxSigned
      BY <2>1 DEF Sign, Ticket!Sign
    <3>2. signed[r] + 1 \in 0 .. MaxSigned
      BY <3>1, NumberAssumption DEF Bounds
    <3> QED  BY <3>1, <3>2 DEF Bounds
  <2>2. CASE \A r \in Tx : ~Sign(r)
    <3>1. signed' = signed
      BY <2>2 DEF Next, vars, ticketVars, handleRequest, TakeTurn, FillAnswered, Filled,
                  FillFailed, PublishAnswered, Published, PublishFailed, Answer, Deny, Close,
                  stopLoading, RequestFails, OtherSends, BlockAnswered, LightTurns, Reload,
                  Ticket!Ask, Ticket!Deny, Ticket!Close
    <3> QED  BY <3>1 DEF Bounds
  <2> QED  BY <2>1, <2>2
<1>4. chain' \in 0 .. MaxChain
  <2>1. chain' = chain \/ (chain < MaxChain /\ chain' = chain + 1)
    BY DEF Next, vars, handleRequest, TakeTurn, FillAnswered, Filled, FillFailed,
           PublishAnswered, Published, PublishFailed, Answer, Sign, Deny, Close, stopLoading,
           RequestFails, OtherSends, BlockAnswered, LightTurns, Reload
  <2> QED  BY <2>1, NumberAssumption DEF Bounds
<1>5. overlap' \in BOOLEAN
  <2>1. overlap' = overlap \/ overlap' = (overlap \/ Owes)
    BY DEF Next, vars, npc, handleRequest, TakeTurn, FillAnswered, Filled, FillFailed,
           PublishAnswered, Published, PublishFailed, Answer, Sign, Deny, Close, stopLoading,
           RequestFails, OtherSends, BlockAnswered, LightTurns, Reload
  <2> QED  BY <2>1 DEF Bounds
<1>6. foreign' \in BOOLEAN
  <2>1. foreign' = foreign \/ \E p : foreign' = (foreign \/ (~overlap /\ p # slot))
    BY DEF Next, vars, handleRequest, TakeTurn, FillAnswered, Filled, FillFailed,
           PublishAnswered, Published, PublishFailed, Answer, Sign, Deny, Close, stopLoading,
           RequestFails, OtherSends, BlockAnswered, LightTurns, Reload
  <2> QED  BY <2>1 DEF Bounds
<1>7. drift' \in BOOLEAN
  <2>1. CASE drift' = drift \/ drift' = TRUE
    BY <2>1 DEF Bounds
  <2>2. CASE stopLoading \/ RequestFails \/ Reload
    BY <2>2 DEF stopLoading, RequestFails, Reload, Bounds
  <2>3. CASE ~stopLoading /\ ~RequestFails /\ ~Reload
    BY <2>1, <2>3 DEF Next, vars, handleRequest, TakeTurn, FillAnswered, Filled, FillFailed,
                 PublishAnswered, Published, PublishFailed, Answer, Sign, Deny, Close,
                 OtherSends, BlockAnswered, LightTurns
  <2> QED  BY <2>2, <2>3
<1>8. dropped' \subseteq Tx
  <2>1. ASSUME NEW r \in Tx, Filled(r) PROVE dropped' \subseteq Tx
    BY <2>1 DEF Filled, Shape, Bounds
  <2>2. ASSUME NEW r \in Tx, Close(r) PROVE dropped' \subseteq Tx
    BY <2>2 DEF Close, Bounds
  <2>3. CASE \A r \in Tx : ~Filled(r) /\ ~Close(r)
    <3>1. dropped' = dropped
      BY <2>3 DEF Next, vars, handleRequest, TakeTurn, FillAnswered, FillFailed,
                  PublishAnswered, Published, PublishFailed, Answer, Sign, Deny, stopLoading,
                  RequestFails, OtherSends, BlockAnswered, LightTurns, Reload
    <3> QED  BY <3>1 DEF Bounds
  <2> QED  BY <2>1, <2>2, <2>3
<1> QED  BY <1>1, <1>2, <1>3, <1>4, <1>5, <1>6, <1>7, <1>8 DEF Bounds

LEMMA BoundsHold == Spec => []Bounds
<1>1. Init => Bounds
  <2> SUFFICES ASSUME Init PROVE Bounds
    OBVIOUS
  <2>1. 0 \in 0 .. MaxSigned /\ 0 \in 0 .. MaxChain
    BY NumberAssumption
  <2>2. light = "sent" /\ call = "none" /\ chain = 0 /\ dropped = {}
    BY DEF Init
  <2>3. signed = [r \in Tx |-> 0]
    BY DEF Init, Ticket!Init
  <2>4. overlap = FALSE /\ foreign = FALSE /\ twice = FALSE /\ drift = FALSE
    BY DEF Init
  <2> QED  BY <2>1, <2>2, <2>3, <2>4 DEF Bounds
<1>2. Spec => []Shape
  BY OneAtATime, PTL
<1> QED  BY <1>1, <1>2, StepBounds, PTL DEF Spec

(* Every variable has its type: TypeOK.                                    *)
THEOREM TypeCorrect == Spec => []TypeOK
<1>1. Shape /\ Exclusive /\ Bounds => TypeOK
  BY DEF Shape, Exclusive, Bounds, TypeOK, Numbers, Nonce, Entry, Places, Asked, Unasked
<1> QED  BY <1>1, OneAtATime, BoundsHold, PTL
-----------------------------------------------------------------------------
(* nonceLock is a queue without gaps: in it, once each, are exactly the    *)
(* transactions that wait for their turn or have it; the one that has it   *)
(* and needs the node has a request there; only sent ones are published.   *)
InLock == InFlow \cup {"lock"}

Queued ==
  /\ \A i, j \in 1 .. Len(lock) : lock[i] = lock[j] => i = j
  /\ \A i \in 1 .. Len(lock) : pc[lock[i]] \in InLock
  /\ \A r \in Req : pc[r] \in InLock => \E i \in 1 .. Len(lock) : lock[i] = r
  /\ \A r \in Req : /\ pc[r] \in {"filling", "publishing"} => call # "none"
                    /\ pc[r] = "publishing" => r \in Sends

LEMMA LockPlaces ==
  ASSUME Exclusive
  PROVE  /\ Len(lock) \in Nat /\ \A i \in 1 .. Len(lock) : lock[i] \in Tx
         /\ lock # << >> => Len(lock) > 0 /\ Head(lock) = lock[1]
<1>1. lock \in Seq(Tx)
  BY DEF Exclusive
<1> QED  BY <1>1, ElementOfSeq, EmptySeq, LenProperties

(* A step of a request outside the lock. *)
LEMMA OutsideKeepsQueued ==
  ASSUME Shape, Exclusive, Queued, lock' = lock, call' # "none" \/ call' = call,
         \A r \in Req : pc'[r] = pc[r] \/ (pc[r] \notin InLock /\ pc'[r] \notin InLock)
  PROVE  Queued'
<1>1. \A r \in Req : pc'[r] \in InLock \/ pc[r] \in InLock => pc'[r] = pc[r]
  OBVIOUS
<1>2. \A i \in 1 .. Len(lock) : lock[i] \in Req /\ pc[lock[i]] \in InLock
  BY LockPlaces DEF Queued
<1>3. \A i \in 1 .. Len(lock) : pc'[lock[i]] \in InLock
  BY <1>1, <1>2
<1>4. \A r \in Req : pc'[r] \in InLock => \E i \in 1 .. Len(lock) : lock[i] = r
  BY <1>1 DEF Queued
<1>5. \A r \in Req : /\ pc'[r] \in {"filling", "publishing"} => call' # "none"
                     /\ pc'[r] = "publishing" => r \in Sends
  BY <1>1 DEF Queued, InLock, InFlow
<1> QED  BY <1>3, <1>4, <1>5 DEF Queued

(* A step of the holder that keeps the lock. *)
LEMMA HolderKeepsQueued ==
  ASSUME Shape, Exclusive, Queued, NEW r \in Tx, pc[r] \in InFlow \/ Holds(r), pc[r] \in InLock,
         NEW to \in InFlow, pc' = [pc EXCEPT ![r] = to], lock' = lock,
         to \in {"filling", "publishing"} => call' # "none",
         to = "publishing" => r \in Sends
  PROVE  Queued'
<1>1. \A q \in Req : pc'[q] = IF q = r THEN to ELSE pc[q]
  BY DEF Shape
<1>2. \A q \in Req : pc[q] \in InFlow => q = r
  BY HolderAlone
<1>3. \A q \in Req : pc'[q] \in InLock <=> pc[q] \in InLock
  BY <1>1 DEF InLock
<1>4. \A i \in 1 .. Len(lock) : pc'[lock[i]] \in InLock
  BY <1>3, LockPlaces DEF Queued
<1>5. \A q \in Req : /\ pc'[q] \in {"filling", "publishing"} => call' # "none"
                     /\ pc'[q] = "publishing" => q \in Sends
  BY <1>1, <1>2 DEF InFlow
<1> QED  BY <1>3, <1>4, <1>5 DEF Queued

(* The holder leaves the lock. *)
LEMMA LeaveKeepsQueued ==
  ASSUME Shape, Exclusive, Queued, NEW r \in Tx, pc[r] \in InFlow,
         NEW end \in {"ended", "failed"}, Leave(r, end)
  PROVE  Queued'
<1>1. \A q \in Req : pc'[q] = IF q = r THEN end ELSE pc[q]
  BY DEF Shape, Leave
<1>2. \A q \in Req : pc[q] \in InFlow => q = r
  BY HolderAlone
<1>3. lock # << >> /\ lock \in Seq(Tx) /\ lock[1] = r /\ Len(lock) \in Nat /\ Len(lock) > 0
  BY LockPlaces DEF Exclusive
<1>4. /\ lock' = Tail(lock) /\ Len(lock') = Len(lock) - 1
      /\ \A i \in 1 .. Len(lock') : lock'[i] = lock[i + 1]
  BY <1>3, HeadTailProperties DEF Leave
<1>5. \A i \in 1 .. Len(lock') : i + 1 \in 1 .. Len(lock) /\ i + 1 # 1
  BY <1>3, <1>4
<1>6. \A i, j \in 1 .. Len(lock') : lock'[i] = lock'[j] => i = j
  <2> SUFFICES ASSUME NEW i \in 1 .. Len(lock'), NEW j \in 1 .. Len(lock'),
                      lock'[i] = lock'[j]
               PROVE  i = j
    OBVIOUS
  <2>1. lock[i + 1] = lock[j + 1]
    BY <1>4
  <2>2. i + 1 = j + 1
    BY <1>5, <2>1 DEF Queued
  <2> QED  BY <2>2
<1>7. \A i \in 1 .. Len(lock') : pc'[lock'[i]] \in InLock
  <2> TAKE i \in 1 .. Len(lock')
  <2>1. lock'[i] = lock[i + 1] /\ i + 1 \in 1 .. Len(lock) /\ 1 \in 1 .. Len(lock)
    BY <1>3, <1>4, <1>5
  <2>2. lock[i + 1] # lock[1]
    BY <1>5, <2>1 DEF Queued
  <2>3. lock[i + 1] \in Req /\ pc[lock[i + 1]] \in InLock
    BY <2>1, LockPlaces DEF Queued
  <2> QED  BY <1>1, <1>3, <2>1, <2>2, <2>3
<1>8. \A q \in Req : pc'[q] \in InLock => \E i \in 1 .. Len(lock') : lock'[i] = q
  <2> SUFFICES ASSUME NEW q \in Req, pc'[q] \in InLock
               PROVE  \E i \in 1 .. Len(lock') : lock'[i] = q
    OBVIOUS
  <2>1. q # r /\ pc[q] \in InLock
    BY <1>1 DEF InLock, InFlow
  <2>2. PICK i \in 1 .. Len(lock) : lock[i] = q
    BY <2>1 DEF Queued
  <2>3. i # 1
    BY <1>3, <2>1, <2>2
  <2>4. i - 1 \in 1 .. Len(lock') /\ (i - 1) + 1 = i
    BY <1>3, <1>4, <2>3
  <2>5. lock'[i - 1] = q
    BY <1>4, <2>2, <2>4
  <2> QED  BY <2>4, <2>5
<1>9. \A q \in Req : pc'[q] \notin {"filling", "publishing"}
  BY <1>1, <1>2 DEF InFlow
<1> QED  BY <1>6, <1>7, <1>8, <1>9 DEF Queued

(* A transaction whose sender is one of the accounts joins the queue, and  *)
(* has its turn at once when it is alone.                                  *)
LEMMA JoinKeepsQueued ==
  ASSUME Shape, Exclusive, Queued, NEW r \in Tx, pc[r] = "validate", Validated(r)
  PROVE  Queued'
<1> DEFINE to == IF lock = << >> THEN "filling" ELSE "lock"
<1>1. /\ lock' = Append(lock, r) /\ pc' = [pc EXCEPT ![r] = to]
      /\ call' = IF lock = << >> THEN "sent" ELSE call
  BY RequestAssumption DEF Validated
<1>2. \A q \in Req : pc'[q] = IF q = r THEN to ELSE pc[q]
  BY <1>1 DEF Shape
<1>3. to \in InLock
  BY DEF InLock, InFlow
<1>4. lock \in Seq(Tx) /\ Len(lock) \in Nat /\ \A i \in 1 .. Len(lock) : lock[i] \in Tx
  BY LockPlaces DEF Exclusive
<1>5. /\ Len(lock') = Len(lock) + 1 /\ lock'[Len(lock) + 1] = r
      /\ \A i \in 1 .. Len(lock) : lock'[i] = lock[i]
  BY <1>1, <1>4, AppendProperties
<1>6. \A i \in 1 .. Len(lock') : i = Len(lock) + 1 \/ i \in 1 .. Len(lock)
  BY <1>4, <1>5
<1>7. \A i \in 1 .. Len(lock) : lock[i] # r /\ pc[lock[i]] \in InLock
  BY DEF Queued, InLock, InFlow
<1>8. lock = << >> => \A q \in Req : pc[q] \notin InFlow
  BY DEF Exclusive
<1> HIDE DEF to
<1>9. \A i, j \in 1 .. Len(lock') : lock'[i] = lock'[j] => i = j
  BY <1>5, <1>6, <1>7 DEF Queued
<1>10. \A i \in 1 .. Len(lock') : pc'[lock'[i]] \in InLock
  BY <1>2, <1>3, <1>4, <1>5, <1>6, <1>7
<1>11. \A q \in Req : pc'[q] \in InLock => \E i \in 1 .. Len(lock') : lock'[i] = q
  <2> SUFFICES ASSUME NEW q \in Req, pc'[q] \in InLock
               PROVE  \E i \in 1 .. Len(lock') : lock'[i] = q
    OBVIOUS
  <2>1. CASE q = r
    <3>1. Len(lock) + 1 \in 1 .. Len(lock')
      BY <1>4, <1>5
    <3> QED  BY <1>5, <2>1, <3>1
  <2>2. CASE q # r
    <3>1. PICK i \in 1 .. Len(lock) : lock[i] = q
      BY <1>2, <2>2 DEF Queued
    <3>2. i \in 1 .. Len(lock')
      BY <1>4, <1>5
    <3> QED  BY <1>5, <3>1, <3>2
  <2> QED  BY <2>1, <2>2
<1>12. \A q \in Req : /\ pc'[q] \in {"filling", "publishing"} => call' # "none"
                      /\ pc'[q] = "publishing" => q \in Sends
  BY <1>1, <1>2, <1>8 DEF Queued, InFlow, to
<1> QED  BY <1>9, <1>10, <1>11, <1>12 DEF Queued

(* What an answer does to the lock. *)
LEMMA AnswerKeepsQueued ==
  ASSUME Shape, Exclusive, Queued, NEW what, NEW n, Call(slot, what, n)
  PROVE  Queued'
<1>0. pc \in [Req -> Places]
  BY DEF Shape
<1>1. CASE ~Takes(slot, what)
  BY <1>1, OutsideKeepsQueued DEF Call
<1>2. CASE Takes(slot, what) /\ pc[slot] = "validate"
  <2>1. slot \in Req /\ slot \notin Reads
    BY <1>2 DEF Takes, Shape
  <2>2. CASE slot \in Tx /\ Validated(slot)
    BY <1>2, <2>2, JoinKeepsQueued
  <2>3. CASE \E to \in {"failed", "stuck"} :
               pc' = [pc EXCEPT ![slot] = to] /\ UNCHANGED <<lock, call>>
    <3>1. PICK to \in {"failed", "stuck"} : pc' = [pc EXCEPT ![slot] = to]
      BY <2>3
    <3>2. \A q \in Req : pc'[q] = IF q = slot THEN to ELSE pc[q]
      BY <1>0, <3>1
    <3> QED  BY <1>2, <2>3, <3>2, OutsideKeepsQueued DEF InLock, InFlow
  <2> QED  BY <1>2, <2>1, <2>2, <2>3 DEF Call, Validated
<1>3. CASE Takes(slot, what) /\ slot \in Reads
  <2>1. slot \in Req /\ pc[slot] \notin InLock /\ pc[slot] # "validate"
    BY <1>3, RequestAssumption DEF Shape, InLock, InFlow
  <2>2. UNCHANGED <<lock, call>> /\ \E to \in {"failed", "ended"} : pc' = [pc EXCEPT ![slot] = to]
    BY <1>3, <2>1 DEF Call, InLock, InFlow
  <2>3. PICK to \in {"failed", "ended"} : pc' = [pc EXCEPT ![slot] = to]
    BY <2>2
  <2>4. \A q \in Req : pc'[q] = IF q = slot THEN to ELSE pc[q]
    BY <1>0, <2>3
  <2> QED  BY <2>1, <2>2, <2>4, OutsideKeepsQueued DEF InLock, InFlow
<1>4. CASE Takes(slot, what) /\ pc[slot] = "signing"
  <2>1. slot \in Tx /\ slot \notin Reads /\ pc[slot] \in InFlow
    BY <1>4, RequestAssumption DEF Takes, Shape, InFlow
  <2>2. CASE \E end \in {"failed", "ended"} : Leave(slot, end)
    BY <2>1, <2>2, LeaveKeepsQueued
  <2>3. CASE /\ pc' = [pc EXCEPT ![slot] = "publishing"] /\ call' = "sent" /\ lock' = lock
             /\ slot \in Sends
    BY <2>1, <2>3, HolderKeepsQueued DEF InFlow, InLock
  <2> QED  BY <1>4, <2>1, <2>2, <2>3 DEF Call
<1> QED  BY <1>1, <1>2, <1>3, <1>4 DEF Takes

LEMMA StepQueued == Shape /\ Exclusive /\ Queued /\ [Next]_vars => Queued'
<1> SUFFICES ASSUME Shape, Exclusive, Queued, [Next]_vars PROVE Queued'
  OBVIOUS
<1>0. pc \in [Req -> Places]
  BY DEF Shape
<1>a. ASSUME pc' = pc, lock' = lock, call' # "none" \/ call' = call
      PROVE  Queued'
  BY <1>a, OutsideKeepsQueued
<1>1. ASSUME NEW r \in Req, handleRequest(r) PROVE Queued'
  <2>1. PICK to \in {"accounts", "validate"} : pc' = [pc EXCEPT ![r] = to]
    BY <1>1 DEF handleRequest
  <2>2. \A q \in Req : pc'[q] = IF q = r THEN to ELSE pc[q]
    BY <1>0, <2>1
  <2> QED  BY <1>1, <2>2, OutsideKeepsQueued DEF handleRequest, InLock, InFlow
<1>2. ASSUME NEW r \in Tx, TakeTurn(r) PROVE Queued'
  BY <1>2, HolderKeepsQueued DEF TakeTurn, InFlow, InLock
<1>3. ASSUME NEW r \in Tx, Filled(r) PROVE Queued'
  BY <1>3, HolderKeepsQueued DEF Filled, InFlow, InLock
<1>4. ASSUME NEW r \in Tx, FillFailed(r) \/ (r \in Sends /\ (Published(r) \/ PublishFailed(r)))
      PROVE  Queued'
  BY <1>4, LeaveKeepsQueued DEF FillFailed, Published, PublishFailed, InFlow
<1>5. CASE Answer
  BY <1>5, AnswerKeepsQueued DEF Answer
<1>6. ASSUME NEW r \in Tx, Deny(r) PROVE Queued'
  BY <1>6, AnswerKeepsQueued DEF Deny
<1>7. ASSUME NEW r \in Tx, FillAnswered(r) \/ Sign(r) \/ Close(r) PROVE Queued'
  BY <1>a, <1>7 DEF FillAnswered, Sign, Close
<1>8. ASSUME NEW r \in Sends, PublishAnswered(r) PROVE Queued'
  BY <1>a, <1>8 DEF PublishAnswered
<1>9. CASE stopLoading \/ RequestFails \/ OtherSends \/ BlockAnswered \/ LightTurns
  BY <1>a, <1>9 DEF stopLoading, RequestFails, OtherSends, BlockAnswered, LightTurns
<1>10. CASE Reload
  <2>1. PICK script \in Scripts[reloads'] :
          pc' = sendAsync({r \in script : pc[r] = "none"},
                          [r \in Req |-> IF pc[r] = "none" THEN "none" ELSE "gone"])
    BY <1>10 DEF Reload
  <2>2. \A r \in Req : pc'[r] \in {"gone", "waiting", "none"}
    BY <2>1 DEF sendAsync
  <2>3. lock' = << >> /\ Len(lock') = 0
    BY <1>10 DEF Reload
  <2> QED  BY <2>2, <2>3 DEF Queued, InLock, InFlow
<1>11. CASE UNCHANGED vars
  BY <1>a, <1>11 DEF vars
<1> QED  BY <1>1, <1>2, <1>3, <1>4, <1>5, <1>6, <1>7, <1>8, <1>9, <1>10, <1>11 DEF Next

(* Nothing that Fairness obliges to go on can go on: no step of the        *)
(* engine, no block due, no timer of a call, nobody whose turn it is.      *)
AtRest ==
  /\ light \in {"open", "dead"} /\ posted = << >> /\ call \notin {"sent", "lost"}
  /\ light = "open" => \A r \in Req : pc[r] # "waiting"
  /\ \A r \in Tx : pc[r] = "lock" => ~Holds(r)
  /\ \A r \in Tx : pc[r] = "filling" => call \notin {"ok", "error", "failed"}
  /\ \A r \in Sends : pc[r] = "publishing" => call \notin {"ok", "error", "failed"}

(* The page never waits for itself: where nothing can go on and the user   *)
(* owes no answer, every request that was made has been answered, unless   *)
(* the first block was never seen, the callback was overwritten or the     *)
(* application dropped a request.  It is what RequestsSettle comes to at a *)
(* standstill, for any requests: the lock (nonceLock of hooked-wallet.js)  *)
(* is not left to nobody, and no answer is lost on the way.                *)
RestSettled ==
  AtRest /\ open = {} =>
    \/ \A r \in Req : pc[r] = "none" \/ Settled(r)
    \/ light = "dead" \/ overlap \/ dropped # {}

(* A page at rest has its answers: RestSettled, of the wallet, the lock    *)
(* and the way to the application and back.                                *)
THEOREM RestIsSettled == Spec => []RestSettled
<1>1. Init => Queued
  <2> SUFFICES ASSUME Init PROVE Queued
    OBVIOUS
  <2>1. PICK script \in Scripts[0] : pc = sendAsync(script, [r \in Req |-> "none"])
    BY DEF Init
  <2>2. \A r \in Req : pc[r] \in {"none", "waiting"}
    BY <2>1 DEF sendAsync
  <2>3. lock = << >> /\ Len(lock) = 0
    BY DEF Init
  <2> QED  BY <2>2, <2>3 DEF Queued, InLock, InFlow
<1>2. Shape /\ Exclusive /\ Bounds /\ Matched /\ Queued => RestSettled
  <2> SUFFICES ASSUME Shape, Exclusive, Bounds, Owed, Queued, AtRest, open = {},
                      light # "dead", dropped = {}, NEW r \in Req
               PROVE  pc[r] = "none" \/ Settled(r)
    BY DEF RestSettled, Matched
  <2>1. light = "open" /\ posted = << >>
    BY DEF AtRest
  <2>2. ~Owes
    BY <2>1 DEF Owes
  <2>3. pc[r] \notin {"accounts", "validate", "signing"}
    BY <2>2 DEF Owed, Awaits
  <2>4. \A q \in Req : pc[q] \notin {"filling", "publishing"}
    <3> SUFFICES ASSUME NEW q \in Req, pc[q] \in {"filling", "publishing"} PROVE FALSE
      OBVIOUS
    <3>1. call \in {"ok", "error", "failed"}
      BY DEF Queued, AtRest, Bounds
    <3>2. (pc[q] = "filling" => q \in Tx) /\ (pc[q] = "publishing" => q \in Sends)
      BY DEF Queued, Shape
    <3> QED  BY <3>1, <3>2 DEF AtRest
  <2>5. pc[r] # "lock"
    <3> SUFFICES ASSUME pc[r] = "lock" PROVE FALSE
      OBVIOUS
    <3>1. PICK i \in 1 .. Len(lock) : lock[i] = r
      BY DEF Queued, InLock
    <3>2. lock # << >> /\ lock[1] \in Tx /\ Head(lock) = lock[1] /\ 1 \in 1 .. Len(lock)
      BY <3>1, LockPlaces DEF Exclusive
    <3>3. pc[lock[1]] \in InLock
      BY <3>2 DEF Queued
    <3>4. pc[lock[1]] # "lock"
      BY <3>2 DEF AtRest, Holds
    <3>5. pc[lock[1]] # "signing"
      BY <2>2, <3>2 DEF Owed, Awaits
    <3> QED  BY <2>4, <3>2, <3>3, <3>4, <3>5 DEF InLock, InFlow
  <2>6. pc[r] # "waiting"
    BY <2>1 DEF AtRest
  <2> QED  BY <2>3, <2>4, <2>5, <2>6 DEF Shape, Places, Asked, Unasked, Settled
<1>3. Spec => [](Shape /\ Exclusive)
  BY OneAtATime
<1>4. Spec => []Bounds
  BY BoundsHold
<1>5. Spec => []Matched
  BY MatchedHolds
<1> QED  BY <1>1, <1>2, <1>3, <1>4, <1>5, StepQueued, PTL DEF Spec
=============================================================================
