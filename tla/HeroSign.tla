------------------------------ MODULE HeroSign ------------------------------
(***************************************************************************)
(* The signing requests of a page: HeroSignature's on:, the password alert *)
(* of a message, the HeroSignView of a transaction with its biometric      *)
(* prompt, and the import screen a request opens when there is no account. *)
(*                                                                         *)
(* Everything runs on the main thread, except that the biometric reply     *)
(* comes on a queue of its own and only schedules a block.  Of the wallet  *)
(* (HeroWallet) only its first account matters here, in memory and as      *)
(* stored, with the set of accounts to choose from.                        *)
(*                                                                         *)
(* An alert refers weakly to the HeroAccount object it was shown for, and  *)
(* loadAccounts replaces every such object.  So of the alerts that are up  *)
(* the live ones are those shown since: they share one object, the default *)
(* account, and its one validatePwd block.                                 *)
(***************************************************************************)
EXTENDS Arrays

CONSTANTS
  Acct,      \* the accounts
  Msg, Tx,   \* the requests to sign a message, a transaction
  None,      \* no account, no request
  MaxSigned, \* bound on the confirmations of one view, tapped before it goes
  MaxDue     \* bound on the biometric successes of one view

ASSUME BoundAssumption == MaxSigned \in Nat \ {0} /\ MaxDue \in Nat \ {0}
ASSUME KindAssumption == Msg \cap Tx = {} /\ None \notin Msg \cup Tx

Req == Msg \cup Tx

VARIABLES
  wallet,    \* the accounts, in memory and in the list
  default,   \* defaultAccount
  stored,    \* the first of the stored list
  accepted,  \* the requests that got their alert or sign view
  alerts,    \* the messages whose password alerts are up, the top one last
  live,      \* those of them whose delegate is alive
  slot,      \* the message that the default account's validatePwd signs
  import,    \* the import screen a request opened: [req, added]
  list,      \* is the list of wallets presented?
  views,     \* the sign views in the window, the top one last
  removing,  \* signed views whose removal is queued
  prompt,    \* the view whose biometric prompt is up
  due,       \* for each view, its blocks due 1.2 s after a success
  signed,    \* history: signatures sent to the page for each request
  denied,    \* history: views that told the page the user denied
  empty,     \* history: views that had no account to sign with
  overtaken  \* history: did a message come while an import was finishing?

walletVars == <<wallet, default, stored>>
alertVars == <<alerts, live, slot>>
viewVars == <<views, removing, prompt, due>>
history == <<signed, denied, empty, overtaken>>
vars == <<walletVars, accepted, alertVars, import, list, viewVars, history>>

NoImport == [req |-> None, added |-> FALSE]
Presenting == import # NoImport \/ list
Uncovered == ~Presenting /\ alerts = << >> /\ prompt = None
Fresh == Req \ (accepted \cup {import.req})

Init ==
  /\ wallet = {} /\ default = None /\ stored = None
  /\ accepted = {}
  /\ alerts = << >> /\ live = {} /\ slot = None
  /\ import = NoImport /\ list = FALSE
  /\ views = << >> /\ removing = {} /\ prompt = None
  /\ due = [t \in Tx |-> 0]
  /\ signed = [r \in Req |-> 0]
  /\ denied = {} /\ empty = {} /\ overtaken = FALSE

Sign(r) == signed[r] < MaxSigned /\ signed' = [signed EXCEPT ![r] = @ + 1]
-----------------------------------------------------------------------------
(* A message comes first: its alert, with an account; else the import      *)
(* screen, which is dropped when another screen is presented already.      *)
Opens(m, t) == CHOOSE r \in m \cup t : m # {} => r \in m

(* Mutant: the alerts that are up keep their accounts alive. *)
LiveAfterLoad_all(m) == live \cup m

(* loadAccounts leaves alive only an alert that is shown after it. *)
LiveAfterLoad(m) == m

(* -[HeroSignature on:] with at most one message m and one transaction t,  *)
(* and with w to open the list.  Building a sign view makes a new LAContext, *)
(* which may or may not end the evaluation under way on the old one.       *)
on(m, t, w) ==
  /\ default' = stored
  /\ IF stored # None
     THEN /\ accepted' = accepted \cup m \cup t
          /\ alerts' = alerts \o SetToSeq(m)
          /\ live' = LiveAfterLoad(m)
          /\ slot' = IF live' = {} THEN None ELSE IF m = {} THEN slot ELSE Opens(m, {})
          /\ views' = views \o SetToSeq(t)
          /\ prompt' \in IF t = {} THEN {prompt} ELSE {prompt, None}
          /\ overtaken' = (overtaken \/ (m # {} /\ import.added))
          /\ list' = IF w /\ ~Presenting THEN TRUE ELSE list
          /\ UNCHANGED import
     ELSE /\ live' = {} /\ slot' = None
          /\ import' = IF m \cup t # {} /\ ~Presenting
                       THEN [req |-> Opens(m, t), added |-> FALSE] ELSE import
          /\ list' = IF w /\ ~Presenting /\ m \cup t = {} THEN TRUE ELSE list
          /\ UNCHANGED <<accepted, alerts, views, prompt, overtaken>>
  /\ UNCHANGED <<wallet, stored, removing, due, signed, denied, empty>>

Command ==
  \E m \in {{}} \cup {{r} : r \in Fresh \cap Msg},
     t \in {{}} \cup {{r} : r \in Fresh \cap Tx}, w \in BOOLEAN : on(m, t, w)
-----------------------------------------------------------------------------
(* alertView:clickedButtonAtIndex: of the top alert: with the password of  *)
(* its account, the account's validatePwd runs.                            *)
Dismiss ==
  /\ alerts' = Front(alerts)
  /\ live' = live \ {Last(alerts)}
  /\ slot' = IF live' = {} THEN None ELSE slot

CancelAlert ==
  /\ alerts # << >>
  /\ Dismiss
  /\ UNCHANGED <<walletVars, accepted, import, list, viewVars, history>>

ConfirmAlert ==
  /\ alerts # << >> /\ Last(alerts) \in live
  /\ Dismiss
  /\ Sign(slot)
  /\ UNCHANGED <<walletVars, accepted, import, list, viewVars, denied, empty, overtaken>>

(* addAccount: appends to the accounts and writes the list. *)
Add(a) ==
  /\ a \notin wallet
  /\ wallet' = wallet \cup {a}
  /\ default' = IF wallet = {} THEN a ELSE default
  /\ stored' = default'

(* onImportTapped of the screen a request opened; the user then reads that *)
(* it was imported, ...                                                    *)
ImportAdded(a) ==
  /\ import # NoImport /\ ~import.added /\ alerts = << >>
  /\ Add(a)
  /\ import' = [import EXCEPT !.added = TRUE]
  /\ UNCHANGED <<accepted, alertVars, list, viewVars, history>>

(* ... and when the screen is gone the request goes on, as in on: but      *)
(* without loadAccounts.  Only an alert of its own can keep it waiting, so *)
(* a command may come first.                                               *)
ImportThen ==
  /\ import.added
  /\ LET r == import.req
     IN  /\ accepted' = accepted \cup {r}
         /\ IF r \in Msg
            THEN /\ alerts' = Append(alerts, r) /\ live' = live \cup {r} /\ slot' = r
                 /\ UNCHANGED <<views, prompt>>
            ELSE /\ views' = Append(views, r) /\ prompt' \in {prompt, None}
                 /\ UNCHANGED alertVars
  /\ import' = NoImport
  /\ UNCHANGED <<walletVars, list, removing, due, history>>

importFail ==
  /\ import # NoImport /\ ~import.added /\ alerts = << >>
  /\ import' = NoImport
  /\ UNCHANGED <<walletVars, accepted, alertVars, list, viewVars, history>>
-----------------------------------------------------------------------------
(* The list of wallets, above every sign view and below every alert. *)
InList == list /\ alerts = << >>

ListImports(a) ==
  /\ InList /\ Add(a)
  /\ UNCHANGED <<accepted, alertVars, import, list, viewVars, history>>

(* The bar button of a detail screen changes memory alone, its switch      *)
(* writes the list and loads the accounts.                                 *)
SetDefault(a) ==
  /\ InList /\ a \in wallet \ {default}
  /\ default' = a
  /\ stored' \in {stored, a}
  /\ UNCHANGED <<wallet, accepted, alertVars, import, list, viewVars, history>>

(* removeAccount: writes what is left, in its order in memory.  (A removal *)
(* that misses the account in memory is in HeroWallet: the next command    *)
(* ends the process.)                                                      *)
removeAccount(a) ==
  /\ InList /\ a \in wallet
  /\ wallet' = wallet \ {a}
  /\ default' \in IF wallet' = {} THEN {None}
                  ELSE IF a = default THEN wallet' ELSE {default}
  /\ stored' = default'
  /\ UNCHANGED <<accepted, alertVars, import, list, viewVars, history>>

exitWallet ==
  /\ InList
  /\ list' = FALSE
  /\ UNCHANGED <<walletVars, accepted, alertVars, import, viewVars, history>>
-----------------------------------------------------------------------------
Top == Last(views)
Tappable == Uncovered /\ views # << >>
Gone(r) == views' = Without(views, r)

(* sign, with the password of the default account. *)
sign ==
  /\ Tappable /\ default # None
  /\ Sign(Top)
  /\ removing' = removing \cup {Top}
  /\ UNCHANGED <<walletVars, accepted, alertVars, import, list, views, prompt, due, denied,
                 empty, overtaken>>

(* Mutant: what is on top goes, instead of the signed view. *)
RemoveSigned_top(r) ==
  /\ r \in removing
  /\ removing' = removing \ {r}
  /\ IF views = << >> THEN UNCHANGED views ELSE Gone(Top)
  /\ UNCHANGED <<walletVars, accepted, alertVars, import, list, prompt, due, history>>

(* The block queued by sign. *)
RemoveSigned(r) ==
  /\ r \in removing
  /\ removing' = removing \ {r}
  /\ Gone(r)
  /\ UNCHANGED <<walletVars, accepted, alertVars, import, list, prompt, due, history>>

(* Mutant: every view in the window tells the page that it was denied. *)
exit_all ==
  /\ Tappable
  /\ denied' = denied \cup ToSet(views)
  /\ Gone(Top)
  /\ UNCHANGED <<walletVars, accepted, alertVars, import, list, removing, prompt, due, signed,
                 empty, overtaken>>

(* exit: tells the page that the user denied, and goes. *)
exit ==
  /\ Tappable
  /\ denied' = denied \cup {Top}
  /\ Gone(Top)
  /\ UNCHANGED <<walletVars, accepted, alertVars, import, list, removing, prompt, due, signed,
                 empty, overtaken>>

bioTapped ==
  /\ Tappable
  /\ due[Top] < MaxDue
  /\ prompt' = Top
  /\ UNCHANGED <<walletVars, accepted, alertVars, import, list, views, removing, due, history>>

(* evaluate:reply: a success schedules the signature, 1.2 s later. *)
BioReply(success) ==
  /\ prompt # None
  /\ prompt' = None
  /\ due' = IF success THEN [due EXCEPT ![prompt] = @ + 1] ELSE due
  /\ UNCHANGED <<walletVars, accepted, alertVars, import, list, views, removing, history>>

(* The block signs with the account that is the default by then, whether   *)
(* or not the view is still there.                                         *)
BioSign(r) ==
  /\ due[r] > 0
  /\ due' = [due EXCEPT ![r] = @ - 1]
  /\ IF default # None
     THEN Sign(r) /\ UNCHANGED empty
     ELSE empty' = empty \cup {r} /\ UNCHANGED signed
  /\ Gone(r)
  /\ UNCHANGED <<walletVars, accepted, alertVars, import, list, removing, prompt, denied,
                 overtaken>>
-----------------------------------------------------------------------------
Next ==
  \/ Command
  \/ CancelAlert \/ ConfirmAlert
  \/ \E a \in Acct : ImportAdded(a) \/ ListImports(a) \/ SetDefault(a) \/ removeAccount(a)
  \/ ImportThen \/ importFail \/ exitWallet
  \/ sign \/ exit \/ bioTapped
  \/ \E success \in BOOLEAN : BioReply(success)
  \/ \E r \in Tx : RemoveSigned(r) \/ BioSign(r)

Spec == Init /\ [][Next]_vars
-----------------------------------------------------------------------------
TypeOK ==
  /\ wallet \subseteq Acct /\ default \in wallet \cup {None} /\ stored \in wallet \cup {None}
  /\ accepted \subseteq Req
  /\ alerts \in Seq(Msg) /\ live \subseteq ToSet(alerts) /\ slot \in Msg \cup {None}
  /\ import \in [req : Req \cup {None}, added : BOOLEAN] /\ list \in BOOLEAN
  /\ views \in Seq(Tx) /\ removing \subseteq Tx /\ prompt \in Tx \cup {None}
  /\ due \in [Tx -> 0 .. MaxDue]
  /\ signed \in [Req -> 0 .. MaxSigned]
  /\ denied \subseteq Tx /\ empty \subseteq Tx /\ overtaken \in BOOLEAN

(* Two alerts can share one account, and so one block, only when a command *)
(* came between an import and the request that had opened it: confirming   *)
(* both then signs the same message twice.                                 *)
ConfirmedIsSigned ==
  \/ overtaken
  \/ live \subseteq {slot}

(* A sign view that is gone has told the page something, unless there was  *)
(* no account left to sign with.                                           *)
NoSilentDismissal ==
  \A r \in Tx \cap accepted : r \notin ToSet(views)
                  => r \in denied \cup empty \/ signed[r] > 0

(* exit tells the page "User denied transaction signature": after that no  *)
(* signature of the transaction is sent.                                   *)
DeniedIsFinal ==
  [][\A r \in denied : signed'[r] = signed[r]]_signed

(* To the page a transaction is a ticket, open as long as something of it  *)
(* can still answer: its import screen, its view, its biometric prompt or  *)
(* a block that is due.  Whatever the taps and commands, every signature   *)
(* and every denial comes from an open ticket, one at a time.              *)
Pending == {r \in Tx : \/ r \in {import.req, prompt} \/ r \in ToSet(views) \/ due[r] > 0}

Ticket == INSTANCE SignTicket WITH open <- Pending, signed <- [r \in Tx |-> signed[r]]

ImplementsSignTicket == Ticket!Spec
=============================================================================
