----------------------------- MODULE SignTicket -----------------------------
(***************************************************************************)
(* What a page may rely on when it asks the application to sign a          *)
(* transaction: each transaction that was taken up is a ticket, open while *)
(* some screen, prompt or scheduled block of it is left, from which come   *)
(* any number of signatures and at most one denial.  HeroSign implements   *)
(* it, and HeroProvider is built on it.                                    *)
(***************************************************************************)
EXTENDS Naturals

CONSTANTS Tx,        \* the transactions to sign
          MaxSigned  \* bound on the signatures of one transaction

VARIABLES open, signed, denied

ticketVars == <<open, signed, denied>>

Init == open = {} /\ signed = [r \in Tx |-> 0] /\ denied = {}

(* A new sign view may call off the biometric prompt of another one.  The  *)
(* import screen that a request opens is part of its ticket.               *)
Ask(r) ==
  /\ r \notin open
  /\ open' \in {open \cup {r}} \cup {(open \ {s}) \cup {r} : s \in open}
  /\ UNCHANGED <<signed, denied>>

MayGo(r) == open' \in {open, open \ {r}}

Sign(r) ==
  /\ r \in open /\ signed[r] < MaxSigned
  /\ signed' = [signed EXCEPT ![r] = @ + 1]
  /\ MayGo(r)
  /\ UNCHANGED denied

Deny(r) ==
  /\ r \in open \ denied
  /\ denied' = denied \cup {r}
  /\ MayGo(r)
  /\ UNCHANGED signed

(* A ticket ends without a word: a view that was signed is removed, an     *)
(* import is called off, there is no account left.                         *)
Close(r) ==
  /\ r \in open
  /\ open' = open \ {r}
  /\ UNCHANGED <<signed, denied>>

Next == \E r \in Tx : Ask(r) \/ Sign(r) \/ Deny(r) \/ Close(r)

Spec == Init /\ [][Next]_ticketVars
=============================================================================
