--------------------------- MODULE HeroSign_proofs ---------------------------
(***************************************************************************)
(* What TLAPS proves of HeroSign, for any number of accounts, messages and *)
(* transactions: confirmed requests are the ones signed, no sign view goes *)
(* unexplained, and the transactions implement SignTicket.                 *)
(***************************************************************************)
EXTENDS HeroSign, Arrays_proofs, FiniteSetTheorems

(* What is under way belongs to a request that was taken up, and the       *)
(* request an import screen waits for was not.                             *)
AcceptedInv ==
  /\ ToSet(views) \cup denied \subseteq accepted
  /\ prompt # None => prompt \in accepted /\ due[prompt] < MaxDue
  /\ \A r \in Tx : due[r] > 0 => r \in accepted
  /\ import.req \notin accepted
  /\ import.added => import.req # None

(* A view is in the window until it is denied, and only a signed one is    *)
(* queued for removal.                                                     *)
ViewInv ==
  /\ ToSet(views) \cap denied = {}
  /\ \A r \in removing : signed[r] > 0
  /\ NoSilentDismissal

(* When an import is complete no alert is alive, unless one came since.    *)
AlertInv ==
  /\ import.added => overtaken \/ live = {}
  /\ ConfirmedIsSigned

SInv == TypeOK /\ AcceptedInv /\ ViewInv /\ AlertInv
-----------------------------------------------------------------------------
(* The array of the requests in a set of at most one. *)
LEMMA SmallSetToSeq ==
  ASSUME NEW S, NEW m, m = {} \/ \E r \in S : m = {r}
  PROVE  SetToSeq(m) \in Seq(S) /\ ToSet(SetToSeq(m)) = m
<1> DEFINE q == SetToSeq(m)
<1>1. CASE m = {}
  <2>1. Cardinality(m) = 0
    BY <1>1, FS_EmptySet
  <2>2. [i \in 1 .. 0 |-> i] \in [1 .. 0 -> m] /\ IsInjective([i \in 1 .. 0 |-> i])
    BY DEF IsInjective
  <2>3. q \in [1 .. 0 -> m]
    BY <2>1, <2>2 DEF SetToSeq
  <2> HIDE DEF q
  <2>4. DOMAIN q = {} /\ q \in Seq(S)
    BY <2>3
  <2>5. QED
    BY <1>1, <2>4 DEF ToSet, q
<1>2. ASSUME NEW r \in S, m = {r}
      PROVE  q \in Seq(S) /\ ToSet(q) = m
  <2>1. Cardinality(m) = 1
    BY <1>2, FS_Singleton
  <2>2. [i \in 1 .. 1 |-> r] \in [1 .. 1 -> m] /\ IsInjective([i \in 1 .. 1 |-> r])
    BY <1>2 DEF IsInjective
  <2>3. q \in [1 .. 1 -> m]
    BY <2>1, <2>2 DEF SetToSeq
  <2> HIDE DEF q
  <2>4. DOMAIN q = {1} /\ q[1] = r
    BY <1>2, <2>3
  <2>5. q \in Seq(S)
    <3>1. q = << r >>
      BY <1>2, <2>3
    <3>2. QED
      BY <3>1
  <2>6. QED
    BY <1>2, <2>4, <2>5 DEF ToSet
<1>3. QED
  BY <1>1, <1>2

(* The requests of one command: at most one of each kind, not yet taken up.*)
Asks(m, t) ==
  /\ m = {} \/ \E r \in Fresh \cap Msg : m = {r}
  /\ t = {} \/ \E r \in Fresh \cap Tx : t = {r}

LEMMA CommandAsks ==
  ASSUME Command
  PROVE  \E m, t : \E w \in BOOLEAN : Asks(m, t) /\ on(m, t, w)
<1>1. PICK m \in {{}} \cup {{r} : r \in Fresh \cap Msg},
           t \in {{}} \cup {{r} : r \in Fresh \cap Tx}, w \in BOOLEAN : on(m, t, w)
  BY DEF Command
<1>2. Asks(m, t)
  BY DEF Asks
<1>3. QED
  BY <1>1, <1>2

(* A command that finds an account takes its requests up. *)
LEMMA OnAccepts ==
  ASSUME TypeOK, NEW m, NEW t, NEW w \in BOOLEAN, Asks(m, t), on(m, t, w), stored # None
  PROVE  /\ m \subseteq Msg /\ t \subseteq Tx
         /\ accepted' = accepted \cup m \cup t
         /\ alerts' \in Seq(Msg) /\ ToSet(alerts') = ToSet(alerts) \cup m
         /\ views' \in Seq(Tx) /\ ToSet(views') = ToSet(views) \cup t
         /\ live' = m /\ live' \subseteq {slot'} /\ slot' \in Msg \cup {None}
         /\ prompt' \in {prompt, None} /\ (t = {} => prompt' = prompt)
         /\ overtaken' = (overtaken \/ (m # {} /\ import.added))
         /\ import' = import
<1>1. m \subseteq Msg /\ t \subseteq Tx
  BY DEF Asks
<1>2. SetToSeq(m) \in Seq(Msg) /\ ToSet(SetToSeq(m)) = m
  BY SmallSetToSeq DEF Asks
<1>3. SetToSeq(t) \in Seq(Tx) /\ ToSet(SetToSeq(t)) = t
  BY SmallSetToSeq DEF Asks
<1>4. alerts' = alerts \o SetToSeq(m) /\ views' = views \o SetToSeq(t)
  BY DEF on
<1>5. alerts' \in Seq(Msg) /\ ToSet(alerts') = ToSet(alerts) \cup m
  BY <1>2, <1>4, ConcatSet DEF TypeOK
<1>6. views' \in Seq(Tx) /\ ToSet(views') = ToSet(views) \cup t
  BY <1>3, <1>4, ConcatSet DEF TypeOK
<1>7. live' = m
  BY DEF on, LiveAfterLoad
<1>8. live' \subseteq {slot'} /\ slot' \in Msg \cup {None}
  <2>1. CASE m = {}
    BY <1>7, <2>1 DEF on, TypeOK
  <2>2. ASSUME NEW r \in Msg, m = {r}
        PROVE  slot' = r
    <3>1. slot' = Opens(m, {})
      BY <1>7, <2>2 DEF on
    <3>2. QED
      BY <2>2, <3>1 DEF Opens
  <2>3. QED
    BY <1>1, <1>7, <2>1, <2>2 DEF Asks
<1>9. QED
  BY <1>1, <1>5, <1>6, <1>7, <1>8 DEF on

(* Without an account it opens the import screen for one of them, at most. *)
LEMMA OnImports ==
  ASSUME TypeOK, NEW m, NEW t, NEW w \in BOOLEAN, Asks(m, t), on(m, t, w), stored = None
  PROVE  /\ UNCHANGED <<accepted, alerts, views, prompt, overtaken>>
         /\ live' = {} /\ slot' = None
         /\ \/ import' = import
            \/ /\ import = NoImport
               /\ import' = [req |-> Opens(m, t), added |-> FALSE]
               /\ Opens(m, t) \in Fresh \cap Req
               /\ m = {} => Opens(m, t) \in t
               /\ m # {} => Opens(m, t) \in Msg
<1>1. ASSUME m \cup t # {}
      PROVE  /\ Opens(m, t) \in Fresh \cap Req
             /\ m = {} => Opens(m, t) \in t
             /\ m # {} => Opens(m, t) \in Msg
  <2>1. \E r \in m \cup t : m # {} => r \in m
    BY <1>1
  <2>2. Opens(m, t) \in m \cup t /\ (m # {} => Opens(m, t) \in m)
    BY <2>1 DEF Opens
  <2>3. QED
    BY <2>2 DEF Asks, Req
<1>2. QED
  BY <1>1 DEF on, Presenting

(* A view that goes leaves the others. *)
LEMMA GoneViews ==
  ASSUME TypeOK, NEW r, Gone(r)
  PROVE  views' \in Seq(Tx) /\ ToSet(views') = ToSet(views) \ {r}
BY WithoutRange DEF TypeOK, Gone

LEMMA TopView ==
  ASSUME TypeOK, Tappable
  PROVE  Top \in ToSet(views) /\ Top \in Tx /\ prompt = None
BY FrontLastSet DEF TypeOK, Tappable, Uncovered, Top

(* An alert that goes leaves alive none that was not. *)
LEMMA DismissAlerts ==
  ASSUME TypeOK, alerts # << >>, Dismiss
  PROVE  /\ alerts' \in Seq(Msg) /\ live' \subseteq ToSet(alerts')
         /\ live' \subseteq live /\ slot' \in Msg \cup {None} /\ (live' # {} => slot' = slot)
<1>1. /\ Front(alerts) \in Seq(Msg)
      /\ ToSet(alerts) \subseteq ToSet(Front(alerts)) \cup {Last(alerts)}
  BY FrontLastSet DEF TypeOK
<1>2. QED
  BY <1>1 DEF Dismiss, TypeOK

LEMMA SignCounts ==
  ASSUME TypeOK, NEW r, Sign(r)
  PROVE  /\ signed' \in [Req -> 0 .. MaxSigned]
         /\ \A s \in Req : signed'[s] >= signed[s] /\ (s # r => signed'[s] = signed[s])
         /\ r \in Req => signed'[r] > 0
<1>1. ASSUME NEW s \in Req
      PROVE  /\ signed[s] \in 0 .. MaxSigned
             /\ signed'[s] = IF s = r THEN signed[s] + 1 ELSE signed[s]
             /\ s = r => signed[s] < MaxSigned
  BY DEF Sign, TypeOK
<1>2. MaxSigned \in Nat
  BY BoundAssumption
<1>3. ASSUME NEW s \in Req
      PROVE  signed'[s] \in 0 .. MaxSigned
  BY <1>1, <1>2
<1>4. signed' \in [Req -> 0 .. MaxSigned]
  BY <1>3 DEF Sign, TypeOK
<1>5. QED
  BY <1>1, <1>2, <1>4
(* The request of an import screen goes on when the screen is gone. *)
LEMMA ThenAccepts ==
  ASSUME TypeOK, AcceptedInv, ImportThen
  PROVE  /\ import.req \in Req /\ import.req \notin accepted /\ import.added
         /\ accepted' = accepted \cup {import.req} /\ accepted' \subseteq Req
         /\ alerts' \in Seq(Msg) /\ live' \subseteq ToSet(alerts') /\ slot' \in Msg \cup {None}
         /\ views' \in Seq(Tx) /\ prompt' \in {prompt, None}
         /\ \/ /\ import.req \in Msg /\ live' = live \cup {import.req} /\ slot' = import.req
               /\ UNCHANGED <<views, prompt>>
            \/ /\ import.req \in Tx /\ ToSet(views') = ToSet(views) \cup {import.req}
               /\ UNCHANGED alertVars
<1>1. import.req \in Req /\ import.req \notin accepted /\ import.added
      /\ accepted' = accepted \cup {import.req}
  BY DEF ImportThen, AcceptedInv, TypeOK
<1>2. CASE import.req \in Msg
  <2>1. /\ alerts' = Append(alerts, import.req) /\ live' = live \cup {import.req}
        /\ slot' = import.req /\ UNCHANGED <<views, prompt>>
    BY <1>2 DEF ImportThen
  <2>2. alerts' \in Seq(Msg) /\ ToSet(alerts') = ToSet(alerts) \cup {import.req}
    BY <1>2, <2>1, AppendSet DEF TypeOK
  <2>3. QED
    BY <1>1, <1>2, <2>1, <2>2 DEF TypeOK
<1>3. CASE import.req \notin Msg
  <2>1. /\ views' = Append(views, import.req) /\ prompt' \in {prompt, None}
        /\ UNCHANGED alertVars
    BY <1>3 DEF ImportThen
  <2>2. import.req \in Tx
    BY <1>1, <1>3 DEF Req
  <2>3. views' \in Seq(Tx) /\ ToSet(views') = ToSet(views) \cup {import.req}
    BY <2>1, <2>2, AppendSet DEF TypeOK
  <2>4. QED
    BY <1>1, <2>1, <2>2, <2>3 DEF TypeOK, alertVars
<1>4. QED
  BY <1>2, <1>3
-----------------------------------------------------------------------------
ImportType == [req : Req \cup {None}, added : BOOLEAN]

LEMMA CommandType ==
  ASSUME TypeOK, Command
  PROVE  TypeOK'
<1>1. PICK m, t : \E w \in BOOLEAN : Asks(m, t) /\ on(m, t, w)
  BY CommandAsks
<1>2. PICK w \in BOOLEAN : Asks(m, t) /\ on(m, t, w)
  BY <1>1
<1>3. /\ default' = stored /\ list' \in BOOLEAN
      /\ UNCHANGED <<wallet, stored, removing, due, signed, denied, empty>>
  BY <1>2 DEF on, TypeOK
<1>4. CASE stored # None
  <2>1. /\ m \subseteq Msg /\ t \subseteq Tx /\ accepted' = accepted \cup m \cup t
        /\ alerts' \in Seq(Msg) /\ m \subseteq ToSet(alerts') /\ views' \in Seq(Tx)
        /\ live' = m /\ slot' \in Msg \cup {None} /\ prompt' \in {prompt, None}
        /\ overtaken' \in BOOLEAN /\ import' = import
    <3>1. Asks(m, t) /\ on(m, t, w)
      BY <1>2
    <3>2. /\ m \subseteq Msg /\ t \subseteq Tx /\ accepted' = accepted \cup m \cup t
          /\ alerts' \in Seq(Msg) /\ ToSet(alerts') = ToSet(alerts) \cup m /\ views' \in Seq(Tx)
          /\ live' = m /\ slot' \in Msg \cup {None} /\ prompt' \in {prompt, None}
          /\ overtaken' = (overtaken \/ (m # {} /\ import.added)) /\ import' = import
      BY <3>1, <1>4, OnAccepts
    <3>3. overtaken' \in BOOLEAN
      BY <3>2 DEF TypeOK
    <3>4. QED
      BY <3>2, <3>3
  <2>2. accepted' \subseteq Req
    BY <2>1 DEF TypeOK, Req
  <2>3. prompt' \in Tx \cup {None} /\ live' \subseteq ToSet(alerts')
    BY <2>1 DEF TypeOK
  <2>4. QED
    BY <1>3, <2>1, <2>2, <2>3 DEF TypeOK
<1>5. CASE stored = None
  <2>1. UNCHANGED <<accepted, alerts, views, prompt, overtaken>> /\ live' = {} /\ slot' = None
    BY <1>2, <1>5, OnImports
  <2>2. import' \in ImportType
    <3>1. import \in ImportType
      BY DEF TypeOK, ImportType
    <3>2. ASSUME import' = [req |-> Opens(m, t), added |-> FALSE], Opens(m, t) \in Req
          PROVE  import' \in ImportType
      BY <3>2 DEF ImportType
    <3>3. QED
      BY <1>2, <1>5, <3>1, <3>2, OnImports
  <2>3. QED
    BY <1>3, <2>1, <2>2 DEF TypeOK, ImportType
<1>6. QED
  BY <1>4, <1>5

LEMMA WalletType ==
  ASSUME TypeOK, NEW a \in Acct,
         ImportAdded(a) \/ ListImports(a) \/ SetDefault(a) \/ removeAccount(a)
  PROVE  TypeOK'
<1>1. CASE ImportAdded(a)
  <2>1. import' \in ImportType
    BY <1>1 DEF ImportAdded, TypeOK, ImportType
  <2>2. wallet' \subseteq Acct /\ default' \in wallet' \cup {None} /\ stored' = default'
    BY <1>1 DEF ImportAdded, Add, TypeOK
  <2>3. QED
    BY <1>1, <2>1, <2>2 DEF ImportAdded, TypeOK, ImportType, alertVars, viewVars, history
<1>2. CASE ListImports(a)
  <2>1. wallet' \subseteq Acct /\ default' \in wallet' \cup {None} /\ stored' = default'
    BY <1>2 DEF ListImports, Add, TypeOK
  <2>2. QED
    BY <1>2, <2>1 DEF ListImports, TypeOK, alertVars, viewVars, history
<1>3. CASE SetDefault(a)
  BY <1>3 DEF SetDefault, TypeOK, alertVars, viewVars, history
<1>4. CASE removeAccount(a)
  <2>1. wallet' \subseteq Acct /\ default' \in wallet' \cup {None} /\ stored' = default'
    BY <1>4 DEF removeAccount, TypeOK
  <2>2. QED
    BY <1>4, <2>1 DEF removeAccount, TypeOK, alertVars, viewVars, history
<1>5. QED
  BY <1>1, <1>2, <1>3, <1>4

LEMMA AlertType ==
  ASSUME TypeOK, AcceptedInv,
         CancelAlert \/ ConfirmAlert \/ ImportThen \/ importFail \/ exitWallet
  PROVE  TypeOK'
<1>0. NoImport \in ImportType
  BY DEF NoImport, ImportType
<1>1. CASE CancelAlert
  BY <1>1, DismissAlerts DEF CancelAlert, TypeOK, walletVars, viewVars, history
<1>2. CASE ConfirmAlert
  BY <1>2, DismissAlerts, SignCounts DEF ConfirmAlert, TypeOK, walletVars, viewVars
<1>3. CASE ImportThen
  <2>1. import' \in ImportType
    BY <1>0, <1>3 DEF ImportThen
  <2>2. UNCHANGED <<walletVars, list, removing, due, history>>
    BY <1>3 DEF ImportThen
  <2>3. QED
    BY <1>3, <2>1, <2>2, ThenAccepts DEF TypeOK, ImportType, walletVars, history
<1>4. CASE importFail
  BY <1>0, <1>4 DEF importFail, TypeOK, ImportType, walletVars, alertVars, viewVars, history
<1>5. CASE exitWallet
  BY <1>5 DEF exitWallet, TypeOK, walletVars, alertVars, viewVars, history
<1>6. QED
  BY <1>1, <1>2, <1>3, <1>4, <1>5

LEMMA ViewType ==
  ASSUME TypeOK, AcceptedInv,
         \/ sign \/ exit \/ bioTapped
         \/ \E success \in BOOLEAN : BioReply(success)
         \/ \E r \in Tx : RemoveSigned(r) \/ BioSign(r)
  PROVE  TypeOK'
<1>1. CASE sign
  BY <1>1, TopView, SignCounts DEF sign, TypeOK, walletVars, alertVars
<1>2. CASE exit
  BY <1>2, TopView, GoneViews DEF exit, TypeOK, walletVars, alertVars
<1>3. CASE bioTapped
  BY <1>3, TopView DEF bioTapped, TypeOK, walletVars, alertVars, history
<1>4. ASSUME NEW success \in BOOLEAN, BioReply(success)
      PROVE  TypeOK'
  <2>1. prompt \in Tx /\ due[prompt] < MaxDue
    BY <1>4 DEF BioReply, TypeOK, AcceptedInv
  <2>2. due' \in [Tx -> 0 .. MaxDue]
    BY <1>4, <2>1, BoundAssumption DEF BioReply, TypeOK
  <2>3. QED
    BY <1>4, <2>2 DEF BioReply, TypeOK, walletVars, alertVars, history
<1>5. ASSUME NEW r \in Tx, RemoveSigned(r)
      PROVE  TypeOK'
  BY <1>5, GoneViews DEF RemoveSigned, TypeOK, walletVars, alertVars, history
<1>6. ASSUME NEW r \in Tx, BioSign(r)
      PROVE  TypeOK'
  <2>1. due' \in [Tx -> 0 .. MaxDue]
    BY <1>6, BoundAssumption DEF BioSign, TypeOK
  <2>2. signed' \in [Req -> 0 .. MaxSigned] /\ empty' \subseteq Tx
    BY <1>6, SignCounts DEF BioSign, TypeOK
  <2>3. QED
    BY <1>6, <2>1, <2>2, GoneViews DEF BioSign, TypeOK, walletVars, alertVars
<1>7. QED
  BY <1>1, <1>2, <1>3, <1>4, <1>5, <1>6

LEMMA TypeStep ==
  ASSUME TypeOK, AcceptedInv, [Next]_vars
  PROVE  TypeOK'
<1>1. CASE UNCHANGED vars
  BY <1>1 DEF vars, walletVars, alertVars, viewVars, history, TypeOK
<1>2. QED
  BY <1>1, CommandType, WalletType, AlertType, ViewType DEF Next
-----------------------------------------------------------------------------
Safe == AcceptedInv /\ ViewInv /\ AlertInv

LEMMA CommandSafe ==
  ASSUME SInv, Command
  PROVE  Safe'
<1> USE DEF SInv, Safe, AcceptedInv, ViewInv, AlertInv, NoSilentDismissal, ConfirmedIsSigned
<1>1. PICK m, t : \E w \in BOOLEAN : Asks(m, t) /\ on(m, t, w)
  BY CommandAsks
<1>2. PICK w \in BOOLEAN : Asks(m, t) /\ on(m, t, w)
  BY <1>1
<1>3. UNCHANGED <<removing, due, signed, denied, empty>> /\ TypeOK
  BY <1>2 DEF on
<1>4. (m \cup t) \cap (accepted \cup {import.req}) = {} /\ m \cap Tx = {}
  BY <1>2, KindAssumption DEF Asks, Fresh
<1>5. CASE stored # None
  <2>1. /\ m \subseteq Msg /\ t \subseteq Tx
        /\ accepted' = accepted \cup m \cup t
        /\ ToSet(views') = ToSet(views) \cup t
        /\ live' = m /\ live' \subseteq {slot'}
        /\ prompt' \in {prompt, None} /\ import' = import
        /\ overtaken' = (overtaken \/ (m # {} /\ import.added))
    BY <1>2, <1>3, <1>5, OnAccepts
  <2>2. AcceptedInv'
    BY <1>3, <1>4, <2>1
  <2>3. ViewInv'
    BY <1>3, <1>4, <2>1
  <2>4. AlertInv'
    BY <2>1
  <2>5. QED
    BY <2>2, <2>3, <2>4
<1>6. CASE stored = None
  <2>1. UNCHANGED <<accepted, views, prompt, overtaken>> /\ live' = {}
    BY <1>2, <1>3, <1>6, OnImports
  <2>2. import'.req \notin accepted /\ (import'.added => import'.req # None)
    <3>1. \/ import' = import
          \/ import' = [req |-> Opens(m, t), added |-> FALSE] /\ Opens(m, t) \in Fresh
      BY <1>2, <1>3, <1>6, OnImports
    <3>2. QED
      BY <3>1 DEF Fresh
  <2>3. QED
    BY <1>3, <2>1, <2>2
<1>7. QED
  BY <1>5, <1>6

LEMMA WalletSafe ==
  ASSUME SInv, NEW a \in Acct,
         ImportAdded(a) \/ ListImports(a) \/ SetDefault(a) \/ removeAccount(a)
  PROVE  Safe'
<1> USE DEF SInv, Safe, AcceptedInv, ViewInv, AlertInv, NoSilentDismissal, ConfirmedIsSigned
<1>1. CASE ImportAdded(a)
  <2>1. import' = [import EXCEPT !.added = TRUE] /\ import # NoImport /\ alerts = << >>
        /\ ~import.added
        /\ UNCHANGED <<accepted, alertVars, viewVars, history>>
    BY <1>1 DEF ImportAdded
  <2>2. import'.req = import.req /\ import.req # None
    BY <2>1 DEF TypeOK, NoImport
  <2>3. live = {}
    BY <2>1 DEF TypeOK, ToSet
  <2>4. QED
    BY <2>1, <2>2, <2>3 DEF alertVars, viewVars, history
<1>2. CASE ListImports(a) \/ SetDefault(a) \/ removeAccount(a)
  BY <1>2 DEF ListImports, SetDefault, removeAccount, alertVars, viewVars, history
<1>3. QED
  BY <1>1, <1>2

LEMMA AlertSafe ==
  ASSUME SInv, CancelAlert \/ ConfirmAlert \/ ImportThen \/ importFail \/ exitWallet
  PROVE  Safe'
<1> USE DEF SInv, Safe, AcceptedInv, ViewInv, AlertInv, NoSilentDismissal, ConfirmedIsSigned
<1>0. NoImport.req = None /\ ~NoImport.added /\ None \notin accepted
  BY KindAssumption DEF NoImport, TypeOK, Req
<1>1. CASE CancelAlert
  BY <1>1, DismissAlerts DEF CancelAlert, viewVars, history
<1>2. CASE ConfirmAlert
  <2>1. live' \subseteq live /\ (live' # {} => slot' = slot)
    BY <1>2, DismissAlerts DEF ConfirmAlert
  <2>2. \A r \in Req : signed'[r] >= signed[r] /\ signed[r] \in Nat /\ signed'[r] \in Nat
    BY <1>2, SignCounts, BoundAssumption DEF ConfirmAlert, TypeOK
  <2>3. \A r \in Tx : r \in Req /\ (signed[r] > 0 => signed'[r] > 0)
    BY <2>2 DEF Req
  <2>4. UNCHANGED <<accepted, import, viewVars, denied, empty, overtaken>> /\ removing \subseteq Tx
    BY <1>2 DEF ConfirmAlert, TypeOK
  <2>5. QED
    BY <2>1, <2>3, <2>4 DEF viewVars
<1>3. CASE ImportThen
  <2>1. UNCHANGED <<removing, due, signed, denied, empty, overtaken>> /\ import' = NoImport
    BY <1>3 DEF ImportThen, history
  <2>2. /\ import.req \in Req /\ import.req \notin accepted /\ import.added
        /\ accepted' = accepted \cup {import.req} /\ prompt' \in {prompt, None}
        /\ \/ /\ import.req \in Msg /\ live' = live \cup {import.req} /\ slot' = import.req
              /\ UNCHANGED <<views, prompt>>
           \/ /\ import.req \in Tx /\ ToSet(views') = ToSet(views) \cup {import.req}
              /\ UNCHANGED alertVars
    BY <1>3, ThenAccepts
  <2>3. None \notin accepted'
    BY <2>2, <1>0, KindAssumption DEF Req
  <2>4. CASE import.req \in Msg
    <3>1. import.req \notin Tx
      BY <2>4, KindAssumption
    <3>2. UNCHANGED <<views, prompt>> /\ live' = live \cup {import.req} /\ slot' = import.req
      BY <2>2, <3>1
    <3>3. QED
      BY <1>0, <2>1, <2>2, <2>3, <3>1, <3>2
  <2>5. CASE import.req \in Tx
    <3>1. import.req \notin Msg
      BY <2>5, KindAssumption
    <3>2. ToSet(views') = ToSet(views) \cup {import.req} /\ UNCHANGED alertVars
      BY <2>2, <3>1
    <3>3. QED
      BY <1>0, <2>1, <2>2, <2>3, <3>2 DEF alertVars
  <2>6. QED
    BY <2>2, <2>4, <2>5
<1>4. CASE importFail
  BY <1>0, <1>4 DEF importFail, alertVars, viewVars, history
<1>5. CASE exitWallet
  BY <1>5 DEF exitWallet, alertVars, viewVars, history
<1>6. QED
  BY <1>1, <1>2, <1>3, <1>4, <1>5

LEMMA ViewSafe ==
  ASSUME SInv, \/ sign \/ exit \/ bioTapped
               \/ \E success \in BOOLEAN : BioReply(success)
               \/ \E r \in Tx : RemoveSigned(r) \/ BioSign(r)
  PROVE  Safe'
<1> USE DEF SInv, Safe, AcceptedInv, ViewInv, AlertInv, NoSilentDismissal, ConfirmedIsSigned
<1>0. TypeOK /\ Tx \subseteq Req /\ removing \subseteq Tx
  BY DEF TypeOK, Req
<1>1. ASSUME NEW r \in Tx, Sign(r)
      PROVE  \A s \in Tx : (signed[s] > 0 \/ s = r) => signed'[s] > 0
  <2>1. \A s \in Req : signed'[s] >= signed[s] /\ signed[s] \in Nat /\ signed'[s] \in Nat
    BY <1>0, <1>1, SignCounts, BoundAssumption DEF TypeOK
  <2>2. signed'[r] > 0
    BY <1>0, <1>1, SignCounts
  <2>3. QED
    BY <1>0, <2>1, <2>2
<1>2. CASE sign
  <2>1. Top \in Tx /\ Sign(Top) /\ removing' = removing \cup {Top}
        /\ UNCHANGED <<accepted, alertVars, import, views, prompt, due, denied, empty, overtaken>>
    BY <1>0, <1>2, TopView DEF sign
  <2>2. \A s \in Tx : (signed[s] > 0 \/ s = Top) => signed'[s] > 0
    BY <1>1, <2>1
  <2>3. QED
    BY <1>0, <2>1, <2>2 DEF alertVars
<1>3. CASE exit
  <2>1. Top \in ToSet(views) /\ Top \in Tx /\ ToSet(views') = ToSet(views) \ {Top}
        /\ denied' = denied \cup {Top}
        /\ UNCHANGED <<accepted, alertVars, import, removing, prompt, due, signed, empty, overtaken>>
    BY <1>0, <1>3, TopView, GoneViews DEF exit
  <2>2. QED
    BY <1>0, <2>1 DEF alertVars
<1>4. CASE bioTapped
  <2>1. Top \in ToSet(views) /\ due[Top] < MaxDue /\ prompt' = Top
        /\ UNCHANGED <<accepted, alertVars, import, views, removing, due, history>>
    BY <1>0, <1>4, TopView DEF bioTapped
  <2>2. QED
    BY <1>0, <2>1 DEF alertVars, history
<1>5. ASSUME NEW success \in BOOLEAN, BioReply(success)
      PROVE  Safe'
  <2>1. prompt \in Tx /\ prompt \in accepted /\ prompt' = None
        /\ UNCHANGED <<accepted, alertVars, import, views, removing, history>>
    BY <1>0, <1>5 DEF BioReply, TypeOK
  <2>2. \A r \in Tx : r # prompt => due'[r] = due[r]
    BY <1>0, <1>5 DEF BioReply, TypeOK
  <2>3. QED
    BY <1>0, <2>1, <2>2 DEF alertVars, history
<1>6. ASSUME NEW r \in Tx, RemoveSigned(r)
      PROVE  Safe'
  <2>1. r \in removing /\ removing' = removing \ {r} /\ ToSet(views') = ToSet(views) \ {r}
        /\ UNCHANGED <<accepted, alertVars, import, prompt, due, history>>
    BY <1>0, <1>6, GoneViews DEF RemoveSigned
  <2>2. QED
    BY <1>0, <2>1 DEF alertVars, history
<1>7. ASSUME NEW r \in Tx, BioSign(r)
      PROVE  Safe'
  <2>1. due[r] > 0 /\ ToSet(views') = ToSet(views) \ {r}
        /\ UNCHANGED <<accepted, alertVars, import, removing, prompt, denied, overtaken>>
    BY <1>0, <1>7, GoneViews DEF BioSign
  <2>2. \A s \in Tx : due'[s] <= due[s] /\ due[s] \in Nat /\ due'[s] \in Nat
    BY <1>0, <1>7, <2>1, BoundAssumption DEF BioSign, TypeOK
  <2>3. /\ \A s \in Tx : signed[s] > 0 => signed'[s] > 0
        /\ r \in empty' \/ signed'[r] > 0
        /\ empty \subseteq empty'
    <3>1. CASE default # None
      BY <1>1, <1>7, <3>1 DEF BioSign
    <3>2. CASE default = None
      BY <1>7, <3>2 DEF BioSign
    <3>3. QED
      BY <3>1, <3>2
  <2>4. prompt # None => prompt \in Tx
    BY <1>0 DEF TypeOK
  <2>5. AcceptedInv'
    <3>1. prompt # None => due'[prompt] < MaxDue
      BY <2>2, <2>4, BoundAssumption
    <3>2. \A s \in Tx : due'[s] > 0 => s \in accepted
      BY <2>2
    <3>3. QED
      BY <2>1, <3>1, <3>2
  <2>6. ViewInv'
    BY <1>0, <2>1, <2>3
  <2>7. QED
    BY <2>1, <2>5, <2>6 DEF alertVars
<1>8. QED
  BY <1>2, <1>3, <1>4, <1>5, <1>6, <1>7
-----------------------------------------------------------------------------
(* The inductive invariant. *)
THEOREM SignInvariance == Spec => []SInv
<1>1. Init => SInv
  <2> SUFFICES ASSUME Init
               PROVE  SInv
    OBVIOUS
  <2>1. ToSet(views) = {} /\ NoImport \in ImportType /\ NoImport.req = None /\ ~NoImport.added
    BY DEF Init, ToSet, NoImport, ImportType
  <2>2. alerts \in Seq(Msg) /\ views \in Seq(Tx) /\ import \in ImportType
    BY <2>1 DEF Init
  <2>3. due \in [Tx -> 0..MaxDue] /\ signed \in [Req -> 0..MaxSigned]
    <3>1. 0 \in 0..MaxDue /\ 0 \in 0..MaxSigned
      BY BoundAssumption
    <3>2. QED
      BY <3>1 DEF Init
  <2>4. TypeOK
    BY <2>2, <2>3 DEF Init, TypeOK, ImportType
  <2>5. QED
    BY <2>1, <2>4 DEF Init, SInv, AcceptedInv, ViewInv, AlertInv, NoSilentDismissal,
                      ConfirmedIsSigned
<1>2. SInv /\ [Next]_vars => SInv'
  <2> SUFFICES ASSUME SInv, [Next]_vars
               PROVE  SInv'
    OBVIOUS
  <2>1. TypeOK'
    BY TypeStep DEF SInv
  <2>2. Safe'
    <3>1. CASE UNCHANGED vars
      BY <3>1 DEF vars, walletVars, alertVars, viewVars, history, SInv, Safe, AcceptedInv,
         ViewInv, AlertInv, NoSilentDismissal, ConfirmedIsSigned
    <3>2. QED
      BY <3>1, CommandSafe, WalletSafe, AlertSafe, ViewSafe DEF Next
  <2>3. QED
    BY <2>1, <2>2 DEF SInv, Safe
<1>3. QED
  BY <1>1, <1>2, PTL DEF Spec

(* The alerts that are alive share one account and one block, so only the  *)
(* message it signs is among them, unless one came while an import ended.  *)
THEOREM ConfirmedSigned == Spec => []ConfirmedIsSigned
<1>1. SInv => ConfirmedIsSigned
  BY DEF SInv, AlertInv
<1>2. QED
  BY <1>1, SignInvariance, PTL

(* No sign view that was taken up goes without telling the page, unless    *)
(* there was no account left.                                              *)
THEOREM DismissalsTold == Spec => []NoSilentDismissal
<1>1. SInv => NoSilentDismissal
  BY DEF SInv, ViewInv
<1>2. QED
  BY <1>1, SignInvariance, PTL
-----------------------------------------------------------------------------
(* The variables of the ticket, as HeroSign has them. *)
txSigned == [r \in Tx |-> signed[r]]
Stays == UNCHANGED <<Pending, txSigned, denied>>

LEMMA UnderWay ==
  ASSUME NEW r \in Tx
  PROVE  /\ r \in Pending <=> r \in {import.req, prompt} \/ r \in ToSet(views) \/ due[r] > 0
         /\ r \in Pending' <=> r \in {import'.req, prompt'} \/ r \in ToSet(views') \/ due'[r] > 0
BY DEF Pending, ToSet

(* When nothing else comes or goes, r ends or stays. *)
LEMMA EndsOrStays ==
  ASSUME NEW r \in Tx, r \in Pending' => r \in Pending, UNCHANGED <<txSigned, denied>>,
         \A s \in Tx : s # r => (s \in Pending' <=> s \in Pending)
  PROVE  [Ticket!Next]_(Ticket!ticketVars)
<1>1. Pending \subseteq Tx /\ Pending' \subseteq Tx
  BY DEF Pending
<1>2. Pending' = Pending \/ (r \in Pending /\ Pending' = Pending \ {r})
  BY <1>1
<1>3. CASE Pending' = Pending
  BY <1>3 DEF Ticket!ticketVars, txSigned
<1>4. CASE r \in Pending /\ Pending' = Pending \ {r}
  BY <1>4 DEF Ticket!Next, Ticket!Close, txSigned
<1>5. QED
  BY <1>2, <1>3, <1>4

LEMMA NothingComes ==
  ASSUME Stays
  PROVE  [Ticket!Next]_(Ticket!ticketVars)
BY DEF Stays, Ticket!ticketVars, txSigned

(* A transaction that was not taken up has no ticket; asking for it opens  *)
(* one and may end another, of which only the prompt was left.             *)
LEMMA FreshAsks ==
  ASSUME NEW r \in Tx, r \notin Pending, r \in Pending', UNCHANGED <<txSigned, denied>>,
         NEW p, p \in Pending' => p \in Pending \cup {r},
         \A s \in Tx : s # r /\ s # p => (s \in Pending' <=> s \in Pending)
  PROVE  [Ticket!Next]_(Ticket!ticketVars)
<1>1. Pending \subseteq Tx /\ Pending' \subseteq Tx
  BY DEF Pending
<1>2. \/ Pending' = Pending \cup {r}
      \/ p \in Pending /\ Pending' = (Pending \ {p}) \cup {r}
  BY <1>1
<1>3. Ticket!Ask(r)
  BY <1>2 DEF Ticket!Ask, txSigned
<1>4. QED
  BY <1>3 DEF Ticket!Next

(* Signing a transaction, or a message, as the ticket sees it. *)
LEMMA SignSeen ==
  ASSUME TypeOK, NEW r, Sign(r)
  PROVE  /\ r \in Tx => txSigned[r] < MaxSigned /\ txSigned' = [txSigned EXCEPT ![r] = @ + 1]
         /\ r \notin Tx => txSigned' = txSigned
BY DEF TypeOK, Sign, txSigned, Req

-----------------------------------------------------------------------------
LEMMA CommandTicket ==
  ASSUME SInv, Command
  PROVE  [Ticket!Next]_(Ticket!ticketVars)
<1>0. TypeOK /\ AcceptedInv
  BY DEF SInv
<1>1. PICK m, t : \E w \in BOOLEAN : Asks(m, t) /\ on(m, t, w)
  BY CommandAsks
<1>2. PICK w \in BOOLEAN : Asks(m, t) /\ on(m, t, w)
  BY <1>1
<1>3. UNCHANGED <<due, signed, denied>> /\ UNCHANGED <<txSigned, denied>>
  BY <1>2 DEF on, txSigned
<1>4. None \notin Tx
  BY KindAssumption
<1>5. ASSUME NEW r \in Fresh \cap Tx
      PROVE  r \notin Pending
  BY <1>0, <1>4, UnderWay DEF Fresh, AcceptedInv
<1>6. CASE stored = None
  <2>1. /\ UNCHANGED <<views, prompt>>
        /\ \/ import' = import
           \/ /\ import = NoImport /\ import'.req = Opens(m, t)
              /\ Opens(m, t) \in Fresh \cap Req
    BY <1>0, <1>2, <1>6, OnImports
  <2>2. CASE import' = import
    BY <1>3, <2>1, <2>2, NothingComes DEF Stays, Pending
  <2>3. ASSUME import = NoImport, NEW r \in Fresh \cap Req, import'.req = r
        PROVE  [Ticket!Next]_(Ticket!ticketVars)
    <3>1. import.req = None
      BY <2>3 DEF NoImport
    <3>2. \A s \in Tx : s # r => (s \in Pending' <=> s \in Pending)
      BY <1>3, <1>4, <2>1, <2>3, <3>1, UnderWay
    <3>3. CASE r \notin Tx
      <4>1. Pending' = Pending
        BY <3>2, <3>3 DEF Pending
      <4>2. QED
        BY <1>3, <4>1, NothingComes DEF Stays
    <3>4. CASE r \in Tx
      <4>1. r \notin Pending /\ r \in Pending'
        BY <1>5, <2>3, <3>4, UnderWay
      <4>2. QED
        BY <1>3, <3>2, <3>4, <4>1, FreshAsks
    <3>5. QED
      BY <3>3, <3>4
  <2>4. QED
    BY <2>1, <2>2, <2>3
<1>7. CASE stored # None
  <2>1. /\ ToSet(views') = ToSet(views) \cup t /\ import' = import
        /\ prompt' \in {prompt, None} /\ (t = {} => prompt' = prompt)
    BY <1>0, <1>2, <1>7, OnAccepts
  <2>2. CASE t = {}
    <3>1. Pending' = Pending
      BY <1>3, <2>1, <2>2, UnderWay DEF Pending
    <3>2. QED
      BY <1>3, <3>1, NothingComes DEF Stays
  <2>3. ASSUME NEW r \in Fresh \cap Tx, t = {r}
        PROVE  [Ticket!Next]_(Ticket!ticketVars)
    <3>1. r \notin Pending /\ r \in Pending'
      BY <1>5, <2>1, <2>3, UnderWay
    <3>2. \A s \in Tx : s # r /\ s # prompt => (s \in Pending' <=> s \in Pending)
      BY <1>3, <1>4, <2>1, <2>3, UnderWay
    <3>3. prompt \in Pending' => prompt \in Pending \cup {r}
      <4>1. prompt \in Pending' => prompt \in Tx
        BY DEF Pending
      <4>2. prompt \in Tx => prompt \in Pending
        BY UnderWay
      <4>3. QED
        BY <4>1, <4>2
    <3>4. QED
      BY <1>3, <3>1, <3>2, <3>3, FreshAsks
  <2>4. QED
    BY <1>2, <2>2, <2>3 DEF Asks
<1>8. QED
  BY <1>6, <1>7

LEMMA AlertTicket ==
  ASSUME SInv, \/ CancelAlert \/ ConfirmAlert \/ ImportThen \/ importFail \/ exitWallet
               \/ \E a \in Acct : ImportAdded(a) \/ ListImports(a) \/ SetDefault(a)
                                     \/ removeAccount(a)
  PROVE  [Ticket!Next]_(Ticket!ticketVars)
<1>0. TypeOK /\ AcceptedInv /\ None \notin Tx
  BY KindAssumption DEF SInv
<1>1. ASSUME UNCHANGED <<viewVars, denied>>, import'.req = import.req, txSigned' = txSigned
      PROVE  [Ticket!Next]_(Ticket!ticketVars)
  BY <1>1, NothingComes DEF Stays, viewVars, Pending
<1>2. CASE CancelAlert \/ exitWallet \/ \E a \in Acct : ListImports(a) \/ SetDefault(a)
                                                           \/ removeAccount(a)
  BY <1>1, <1>2 DEF CancelAlert, exitWallet, ListImports, SetDefault, removeAccount, viewVars,
                    history, txSigned
<1>3. CASE ConfirmAlert
  <2>1. Sign(slot) /\ slot \notin Tx
    BY <1>0, <1>3, KindAssumption DEF ConfirmAlert, TypeOK
  <2>2. txSigned' = txSigned
    BY <1>0, <2>1, SignSeen
  <2>3. QED
    BY <1>1, <1>3, <2>2 DEF ConfirmAlert
<1>4. ASSUME NEW a \in Acct, ImportAdded(a)
      PROVE  [Ticket!Next]_(Ticket!ticketVars)
  <2>1. import' = [import EXCEPT !.added = TRUE] /\ import \in ImportType
    BY <1>0, <1>4 DEF ImportAdded, TypeOK, ImportType
  <2>2. import'.req = import.req
    BY <2>1 DEF ImportType
  <2>3. QED
    BY <1>1, <1>4, <2>2 DEF ImportAdded, viewVars, history, txSigned
<1>5. CASE ImportThen
  <2>1. /\ UNCHANGED <<due, signed, denied>> /\ UNCHANGED <<txSigned, denied>>
        /\ import'.req = None
    BY <1>5 DEF ImportThen, history, txSigned, NoImport
  <2>2. /\ import.req \in Req /\ prompt' \in {prompt, None}
        /\ \/ import.req \in Msg /\ UNCHANGED <<views, prompt>>
           \/ import.req \in Tx /\ ToSet(views') = ToSet(views) \cup {import.req}
    BY <1>0, <1>5, ThenAccepts
  <2>3. CASE import.req \in Msg /\ UNCHANGED <<views, prompt>>
    <3>1. import.req \notin Tx
      BY <2>3, KindAssumption
    <3>2. Pending' = Pending
      BY <1>0, <2>1, <2>3, <3>1 DEF Pending
    <3>3. QED
      BY <2>1, <3>2, NothingComes DEF Stays
  <2>4. CASE import.req \in Tx /\ ToSet(views') = ToSet(views) \cup {import.req}
    <3>1. \A s \in Tx : s # prompt => (s \in Pending' <=> s \in Pending)
      BY <1>0, <2>1, <2>2, <2>4, UnderWay
    <3>2. CASE prompt = None
      <4>1. Pending' = Pending
        BY <1>0, <3>1, <3>2 DEF Pending
      <4>2. QED
        BY <2>1, <4>1, NothingComes DEF Stays
    <3>3. CASE prompt # None
      <4>1. prompt \in Tx /\ prompt \in Pending
        BY <1>0, <3>3, UnderWay DEF TypeOK
      <4>2. QED
        BY <2>1, <3>1, <4>1, EndsOrStays
    <3>4. QED
      BY <3>2, <3>3
  <2>5. QED
    BY <2>2, <2>3, <2>4
<1>6. CASE importFail
  <2>1. UNCHANGED <<viewVars, txSigned, denied>> /\ import'.req = None
    BY <1>6 DEF importFail, history, txSigned, NoImport
  <2>2. \A s \in Tx : /\ s # import.req => (s \in Pending' <=> s \in Pending)
                      /\ s \in Pending' => s \in Pending
    BY <1>0, <2>1, UnderWay DEF viewVars
  <2>3. CASE import.req \in Tx
    BY <2>1, <2>2, <2>3, EndsOrStays
  <2>4. CASE import.req \notin Tx
    <3>1. Pending' = Pending
      BY <2>2, <2>4 DEF Pending
    <3>2. QED
      BY <2>1, <3>1, NothingComes DEF Stays
  <2>5. QED
    BY <2>3, <2>4
<1>7. QED
  BY <1>2, <1>3, <1>4, <1>5, <1>6

LEMMA ViewTicket ==
  ASSUME SInv, \/ sign \/ exit \/ bioTapped
               \/ \E success \in BOOLEAN : BioReply(success)
               \/ \E r \in Tx : RemoveSigned(r) \/ BioSign(r)
  PROVE  [Ticket!Next]_(Ticket!ticketVars)
<1>0. TypeOK /\ None \notin Tx /\ ToSet(views) \cap denied = {}
  BY KindAssumption DEF SInv, ViewInv
<1>1. ASSUME NEW r \in Tx, Top = r, sign
      PROVE  [Ticket!Next]_(Ticket!ticketVars)
  <2>1. r \in Pending /\ Sign(r)
    BY <1>0, <1>1, TopView, UnderWay DEF sign
  <2>2. Pending' = Pending /\ denied' = denied
    BY <1>1 DEF sign, Pending
  <2>3. txSigned[r] < MaxSigned /\ txSigned' = [txSigned EXCEPT ![r] = @ + 1]
    BY <1>0, <2>1, SignSeen
  <2>4. Ticket!Sign(r)
    BY <2>1, <2>2, <2>3 DEF Ticket!Sign, Ticket!MayGo, txSigned
  <2>5. QED
    BY <2>4 DEF Ticket!Next
<1>2. CASE exit
  <2>1. /\ Top \in Tx /\ Top \in Pending /\ Top \notin denied
        /\ ToSet(views') = ToSet(views) \ {Top}
    BY <1>0, <1>2, TopView, GoneViews, UnderWay DEF exit
  <2>2. UNCHANGED <<import, prompt, due, signed, txSigned>> /\ denied' = denied \cup {Top}
    BY <1>2 DEF exit, txSigned
  <2>3. \A s \in Tx : s # Top => (s \in Pending' <=> s \in Pending)
    BY <2>1, <2>2, UnderWay
  <2>4. Pending' \in {Pending, Pending \ {Top}}
    <3>1. Pending \subseteq Tx /\ Pending' \subseteq Tx
      BY DEF Pending
    <3>2. QED
      BY <2>1, <2>3, <3>1
  <2>5. Ticket!Deny(Top)
    BY <2>1, <2>2, <2>4 DEF Ticket!Deny, Ticket!MayGo, txSigned
  <2>6. QED
    BY <2>1, <2>5 DEF Ticket!Next
<1>3. CASE bioTapped
  <2>1. Top \in ToSet(views) /\ prompt = None /\ prompt' = Top
    BY <1>0, <1>3, TopView DEF bioTapped
  <2>2. UNCHANGED <<views, import, due, signed, denied, txSigned>>
    BY <1>3 DEF bioTapped, history, txSigned
  <2>3. Pending' = Pending
    BY <1>0, <2>1, <2>2 DEF Pending
  <2>4. QED
    BY <2>2, <2>3, NothingComes DEF Stays
<1>4. ASSUME NEW success \in BOOLEAN, BioReply(success)
      PROVE  [Ticket!Next]_(Ticket!ticketVars)
  <2>1. /\ prompt # None /\ prompt' = None
        /\ UNCHANGED <<views, import, signed, denied, txSigned>>
    BY <1>4 DEF BioReply, history, txSigned
  <2>2. prompt \in Tx /\ prompt \in Pending
    BY <1>0, <2>1, UnderWay DEF TypeOK
  <2>3. \A s \in Tx : s # prompt => due'[s] = due[s]
    BY <1>0, <1>4 DEF BioReply, TypeOK
  <2>4. \A s \in Tx : s # prompt => (s \in Pending' <=> s \in Pending)
    BY <1>0, <2>1, <2>3, UnderWay
  <2>5. QED
    BY <2>1, <2>2, <2>4, EndsOrStays
<1>5. ASSUME NEW r \in Tx, RemoveSigned(r)
      PROVE  [Ticket!Next]_(Ticket!ticketVars)
  <2>1. /\ ToSet(views') = ToSet(views) \ {r}
        /\ UNCHANGED <<import, prompt, due, signed, denied, txSigned>>
    BY <1>0, <1>5, GoneViews DEF RemoveSigned, history, txSigned
  <2>2. /\ \A s \in Tx : s # r => (s \in Pending' <=> s \in Pending)
        /\ r \in Pending' => r \in Pending
    BY <2>1, UnderWay
  <2>3. QED
    BY <2>1, <2>2, EndsOrStays
<1>6. ASSUME NEW r \in Tx, BioSign(r)
      PROVE  [Ticket!Next]_(Ticket!ticketVars)
  <2>1. /\ ToSet(views') = ToSet(views) \ {r} /\ r \in Pending
        /\ UNCHANGED <<import, prompt, denied>>
    BY <1>0, <1>6, GoneViews, UnderWay DEF BioSign
  <2>2. \A s \in Tx : s # r => due'[s] = due[s]
    BY <1>0, <1>6 DEF BioSign, TypeOK
  <2>3. \A s \in Tx : s # r => (s \in Pending' <=> s \in Pending)
    BY <2>1, <2>2, UnderWay
  <2>4. CASE default = None
    <3>1. UNCHANGED <<txSigned, denied>>
      BY <1>6, <2>1, <2>4 DEF BioSign, txSigned
    <3>2. QED
      BY <2>1, <2>3, <3>1, EndsOrStays
  <2>5. CASE default # None
    <3>1. Pending \subseteq Tx /\ Pending' \subseteq Tx
      BY DEF Pending
    <3>2. Pending' \in {Pending, Pending \ {r}}
      BY <2>1, <2>3, <3>1
    <3>3. txSigned[r] < MaxSigned /\ txSigned' = [txSigned EXCEPT ![r] = @ + 1]
      BY <1>0, <1>6, <2>5, SignSeen DEF BioSign
    <3>4. Ticket!Sign(r)
      BY <2>1, <3>2, <3>3 DEF Ticket!Sign, Ticket!MayGo, txSigned
    <3>5. QED
      BY <3>4 DEF Ticket!Next
  <2>6. QED
    BY <2>4, <2>5
<1>7. sign => Top \in Tx
  BY <1>0, TopView DEF sign
<1>8. QED
  BY <1>1, <1>2, <1>3, <1>4, <1>5, <1>6, <1>7

(* HeroSign implements SignTicket: whatever the taps, commands, prompts    *)
(* and imports, the page hears of a transaction only while something of it *)
(* is left, and of at most one denial.                                     *)
THEOREM TicketImplemented == Spec => ImplementsSignTicket
<1>1. Init => Ticket!Init
  <2> SUFFICES ASSUME Init PROVE Ticket!Init
    OBVIOUS
  <2>1. views = << >> /\ import = NoImport /\ prompt = None /\ due = [t \in Tx |-> 0]
        /\ signed = [r \in Req |-> 0] /\ denied = {}
    BY DEF Init
  <2>2. ToSet(views) = {} /\ import.req = None /\ None \notin Tx
    BY <2>1, KindAssumption DEF ToSet, NoImport
  <2>3. Pending = {}
    BY <2>1, <2>2 DEF Pending
  <2>4. [r \in Tx |-> signed[r]] = [r \in Tx |-> 0]
    BY <2>1 DEF Req
  <2>5. QED
    BY <2>1, <2>3, <2>4 DEF Ticket!Init
<1>2. SInv /\ [Next]_vars => [Ticket!Next]_(Ticket!ticketVars)
  <2> SUFFICES ASSUME SInv, [Next]_vars
               PROVE  [Ticket!Next]_(Ticket!ticketVars)
    OBVIOUS
  <2>1. CASE UNCHANGED vars
    BY <2>1, NothingComes DEF Stays, Pending, txSigned, vars, viewVars, history
  <2>2. QED
    BY <2>1, CommandTicket, AlertTicket, ViewTicket DEF Next
<1>3. QED
  BY <1>1, <1>2, SignInvariance, PTL DEF Spec, ImplementsSignTicket, Ticket!Spec

(* Every variable of the signing model keeps its type. *)
THEOREM TypeCorrect == Spec => []TypeOK
<1>1. SInv => TypeOK
  BY DEF SInv
<1>2. QED
  BY <1>1, SignInvariance, PTL
=============================================================================
