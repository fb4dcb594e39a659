-------------------------- MODULE HeroWallet_proofs --------------------------
(***************************************************************************)
(* What TLAPS proves of HeroWallet: the crash invariants, for any number   *)
(* of accounts, of crashes and of failures of the keychain.                *)
(*                                                                         *)
(* Of the two arrays, the list and the wallet's objects, the argument only *)
(* needs which ids are in them; Arrays_proofs says what a removal leaves.  *)
(***************************************************************************)
EXTENDS HeroWallet, Arrays_proofs

(* Nothing is in memory before loadAccounts; an open detail screen shows a *)
(* listed account, and only it is saved or removed.                        *)
ScreenInv ==
  /\ ~loaded => IDs(accounts) = {} /\ screen = Closed /\ Idle
  /\ screen # Closed => screen.id \in Listed
  /\ op.kind \in {"save", "remove"} => screen # Closed /\ op.id = screen.id
  /\ op.kind = "add" => screen = Closed

(* Memory is ahead of the list by the account being added or removed.      *)
MemoryInv ==
  /\ loaded /\ op.kind \in {"none", "save"} => IDs(accounts) = Listed
  /\ op.kind = "add" => IDs(accounts) = Listed \cup {op.id}
  /\ op.kind = "remove" => /\ IDs(accounts) \subseteq Listed
                           /\ Listed \subseteq IDs(accounts) \cup {op.id}
                           /\ op.id \notin torn => op.id \notin IDs(accounts)

(* How far a save or a removal has come.                                   *)
ProgressInv ==
  /\ op.kind \in {"add", "save", "remove"} => op.id \in used \ gone
  /\ op.kind = "add" => /\ op.step > 2 => op.id \in keys \cup Failed("add")
                        /\ op.step > 3 => op.id \in pwds \cup Failed("add")
  /\ op.kind = "remove" => /\ op.step > 1 => op.id \notin names
                           /\ op.step > 2 => op.id \notin keys \/ op.id \in Failed("remove")
                           /\ op.step > 3 => op.id \notin pwds \/ op.id \in Failed("remove")

WInv ==
  /\ TypeOK
  /\ Listed \subseteq used
  /\ ScreenInv
  /\ MemoryInv
  /\ ProgressInv
  /\ ListedHasKey
  /\ KeysAreListed
  /\ RemovedIsGone
-----------------------------------------------------------------------------
Object == [id : ID, held : BOOLEAN, pwd : BOOLEAN]

(* The ids of the objects of an array are those of its elements. *)
LEMMA IDsOfSet ==
  ASSUME NEW s
  PROVE  IDs(s) = {a.id : a \in ToSet(s)}
BY DEF IDs, ToSet

LEMMA IDsAppend ==
  ASSUME NEW s \in Seq(Object), NEW a \in Object
  PROVE  Append(s, a) \in Seq(Object) /\ IDs(Append(s, a)) = IDs(s) \cup {a.id}
<1>1. ToSet(Append(s, a)) = ToSet(s) \cup {a}
  BY AppendSet
<1>2. QED
  BY <1>1, IDsOfSet

LEMMA IDsPrepend ==
  ASSUME NEW s \in Seq(Object), NEW a \in Object
  PROVE  << a >> \o s \in Seq(Object) /\ IDs(<< a >> \o s) = {a.id} \cup IDs(s)
<1>1. ToSet(<< a >> \o s) = ToSet(s) \cup {a} /\ << a >> \o s \in Seq(Object)
  BY PrependSet
<1>2. QED
  BY <1>1, IDsOfSet

(* A removal of the screen's object takes at most its id away. *)
LEMMA IDsWithoutHeld ==
  ASSUME NEW s \in Seq(Object)
  PROVE  /\ WithoutHeld(s) \in Seq(Object)
         /\ IDs(WithoutHeld(s)) \subseteq IDs(s)
         /\ IDs(s) \subseteq IDs(WithoutHeld(s)) \cup {screen.id}
<1> DEFINE h == Held
<1>1. h.id = screen.id /\ WithoutHeld(s) = Without(s, h)
  BY DEF WithoutHeld, Held
<1> HIDE DEF h
<1>2. Without(s, h) \in Seq(Object) /\ ToSet(Without(s, h)) = ToSet(s) \ {h}
  BY WithoutRange
<1>3. QED
  BY <1>1, <1>2, IDsOfSet

(* What sync writes are the ids of the objects, ... *)
LEMMA SyncedIDs ==
  ASSUME accounts \in Seq(Object)
  PROVE  aIDs \in Seq(ID) /\ ToSet(aIDs) = IDs(accounts)
<1>1. DOMAIN accounts = 1 .. Len(accounts) /\ Len(accounts) \in Nat
  OBVIOUS
<1>2. ASSUME NEW i \in DOMAIN accounts
      PROVE  accounts[i].id \in ID
  <2>1. accounts[i] \in Object
    BY <1>1
  <2>2. QED
    BY <2>1 DEF Object
<1>3. aIDs \in Seq(ID)
  BY <1>1, <1>2 DEF aIDs
<1>4. DOMAIN aIDs = DOMAIN accounts /\ \A i \in DOMAIN accounts : aIDs[i] = accounts[i].id
  BY DEF aIDs
<1>5. QED
  BY <1>3, <1>4 DEF ToSet, IDs

(* ... and what loadAccounts makes are objects for the ids. *)
LEMMA LoadedIDs ==
  ASSUME NEW ids \in Seq(ID), Load(ids)
  PROVE  loaded' /\ accounts' \in Seq(Object) /\ IDs(accounts') = ToSet(ids)
<1>1. DOMAIN ids = 1 .. Len(ids) /\ Len(ids) \in Nat /\ \A i \in DOMAIN ids : ids[i] \in ID
  OBVIOUS
<1>2. accounts' = [i \in 1 .. Len(ids) |-> [id |-> ids[i], held |-> FALSE, pwd |-> ids[i] \in pwds]]
      /\ loaded'
  BY <1>1 DEF Load
<1>3. accounts' \in Seq(Object)
  BY <1>1, <1>2 DEF Object
<1>4. DOMAIN accounts' = DOMAIN ids /\ \A i \in DOMAIN ids : accounts'[i].id = ids[i]
  BY <1>1, <1>2
<1>5. QED
  BY <1>2, <1>3, <1>4 DEF IDs, ToSet

(* Holding or releasing an object changes no id. *)
LEMMA HeldType ==
  ASSUME NEW s \in Seq(Object)
  PROVE  /\ Unheld(s) \in Seq(Object) /\ IDs(Unheld(s)) = IDs(s)
         /\ \A r \in DOMAIN s : /\ [s EXCEPT ![r].held = TRUE] \in Seq(Object)
                                /\ IDs([s EXCEPT ![r].held = TRUE]) = IDs(s)
<1>1. DOMAIN s = 1 .. Len(s) /\ Len(s) \in Nat /\ \A i \in DOMAIN s : s[i] \in Object
  OBVIOUS
<1>2. ASSUME NEW a \in Object, NEW b \in BOOLEAN
      PROVE  [a EXCEPT !.held = b] \in Object /\ [a EXCEPT !.held = b].id = a.id
  BY DEF Object
<1> DEFINE e(i) == [s[i] EXCEPT !.held = FALSE]
           u == [i \in 1 .. Len(s) |-> e(i)]
<1>3. Unheld(s) = u
  BY <1>1 DEF Unheld
<1>4. \A i \in 1 .. Len(s) : e(i) \in Object /\ e(i).id = s[i].id
  BY <1>1, <1>2
<1> HIDE DEF e
<1>5. u \in Seq(Object) /\ DOMAIN u = DOMAIN s /\ \A i \in DOMAIN s : u[i].id = s[i].id
  BY <1>1, <1>4
<1>6. ASSUME NEW r \in DOMAIN s
      PROVE  /\ [s EXCEPT ![r].held = TRUE] \in Seq(Object)
             /\ IDs([s EXCEPT ![r].held = TRUE]) = IDs(s)
  <2> DEFINE a == [s[r] EXCEPT !.held = TRUE]
             t == [s EXCEPT ![r] = a]
  <2>1. a \in Object /\ a.id = s[r].id
    BY <1>1, <1>2
  <2> HIDE DEF a
  <2>2. t \in Seq(Object) /\ DOMAIN t = DOMAIN s /\ t[r] = a
        /\ \A i \in DOMAIN s \ {r} : t[i] = s[i]
    BY <1>1, <2>1
  <2>3. \A i \in DOMAIN s : t[i].id = s[i].id
    BY <2>1, <2>2
  <2>4. IDs(t) = IDs(s)
    BY <2>2, <2>3 DEF IDs
  <2>5. t = [s EXCEPT ![r].held = TRUE]
    BY DEF a
  <2>6. QED
    BY <2>2, <2>4, <2>5
<1>7. IDs(u) = IDs(s)
  <2> HIDE DEF u
  <2>1. QED
    BY <1>5 DEF IDs
<1>8. QED
  BY <1>3, <1>5, <1>6, <1>7

LEMMA IDsEmpty == IDs(<< >>) = {} /\ << >> \in Seq(Object)
BY DEF IDs

(* A failure of the keychain is remembered; what else a step does, none is *)
(* forgotten.                                                              *)
LEMMA FailedKept ==
  ASSUME UNCHANGED failures
  PROVE  Failed("add")' = Failed("add") /\ Failed("remove")' = Failed("remove")
BY DEF Failed

LEMMA FailedGrows ==
  ASSUME TypeOK, op.id \in ID, Fails \/ UNCHANGED failures
  PROVE  /\ failures' \subseteq [kind : Kinds, id : ID]
         /\ Failed("add") \subseteq Failed("add")'
         /\ Failed("remove") \subseteq Failed("remove")'
         /\ \A kind \in Kinds : Fails /\ op.kind = kind => op.id \in Failed(kind)'
<1>1. op.kind \in Kinds /\ failures \subseteq [kind : Kinds, id : ID]
  BY DEF TypeOK
<1>2. failures \subseteq failures' /\ (Fails => [kind |-> op.kind, id |-> op.id] \in failures')
      /\ failures' \subseteq failures \cup {[kind |-> op.kind, id |-> op.id]}
  BY DEF Fails
<1>3. QED
  BY <1>1, <1>2 DEF Failed
-----------------------------------------------------------------------------
LEMMA DieType ==
  ASSUME WInv, Die
  PROVE  /\ accounts' \in Seq(Object) /\ loaded' \in BOOLEAN
         /\ screen' \in [id : ID \cup {NoID}, pwd : BOOLEAN, other : BOOLEAN]
         /\ op' \in [kind : Kinds, id : ID \cup {NoID}, step : 0 .. 4]
         /\ torn' \subseteq used /\ orphans' \subseteq used
<1>1. accounts' = << >> /\ loaded' = FALSE /\ screen' = Closed /\ op' = NoOp
  BY DEF Die
<1>2. op' \in [kind : Kinds, id : ID \cup {NoID}, step : 0 .. 4]
  BY <1>1 DEF NoOp, Kinds
<1>3. screen' \in [id : ID \cup {NoID}, pwd : BOOLEAN, other : BOOLEAN]
  BY <1>1 DEF Closed
<1>4. op.kind \in {"add", "remove"} => op.id \in used
  BY DEF WInv, ProgressInv
<1>5. torn' \subseteq used /\ orphans' \subseteq used
  BY <1>4 DEF WInv, TypeOK, Die
<1>6. QED
  BY <1>1, <1>2, <1>3, <1>5, IDsEmpty

LEMMA TypeStep ==
  ASSUME WInv, [Next]_vars
  PROVE  TypeOK'
<1>0. TypeOK /\ accounts \in Seq(Object) /\ Listed \subseteq used
  BY DEF WInv, TypeOK, Object
<1>1. screen # Closed => screen.id \in used
  BY <1>0 DEF WInv, ScreenInv
<1>2. \A r \in DOMAIN accounts : accounts[r] \in Object
  BY <1>0
<1> USE DEF TypeOK, Object, Kinds, NoOp, Closed
<1>3. CASE Crash
  BY <1>0, <1>3, DieType DEF Crash, stores
<1>4. CASE on
  <2>1. CASE Listed \subseteq keys
    BY <1>0, <1>4, <2>1, LoadedIDs DEF on, stores
  <2>2. CASE ~(Listed \subseteq keys)
    BY <1>0, <1>4, <2>2, DieType DEF on, stores
  <2>3. QED
    BY <2>1, <2>2
<1>5. ASSUME NEW id \in ID, addAccount(id)
      PROVE  TypeOK'
  <2>1. accounts' \in Seq(Object)
    BY <1>0, <1>5, IDsAppend DEF addAccount
  <2>2. QED
    BY <1>0, <1>5, <2>1 DEF addAccount, Begin, stores
<1>6. CASE modifyPassword \/ changeName
  BY <1>0, <1>1, <1>6 DEF modifyPassword, changeName, Begin, stores, history, past
<1>7. CASE SaveName \/ SaveKey \/ SavePassword
  <2>1. op.id \in ID
    BY <1>0, <1>7 DEF WInv, ProgressInv, SaveName, SaveKey, SavePassword, At
  <2>2. CASE SaveName
    BY <1>0, <2>1, <2>2 DEF SaveName, At, NextStep, history, past
  <2>3. CASE SaveKey
    <3>1. failures' \subseteq [kind : Kinds, id : ID]
      BY <1>0, <2>1, <2>3, FailedGrows DEF SaveKey
    <3>2. QED
      BY <1>0, <2>1, <2>3, <3>1 DEF SaveKey, At, NextStep, past
  <2>4. CASE SavePassword
    <3>1. failures' \subseteq [kind : Kinds, id : ID]
      BY <1>0, <2>1, <2>4, FailedGrows DEF SavePassword
    <3>2. QED
      BY <1>0, <2>1, <2>4, <3>1 DEF SavePassword, At, NextStep, past
  <2>5. QED
    BY <1>7, <2>2, <2>3, <2>4
<1>8. CASE SyncAdded
  BY <1>0, <1>8, SyncedIDs DEF SyncAdded, sync, history, past
<1>9. ASSUME NEW r \in DOMAIN accounts, OpenDetail(r)
      PROVE  TypeOK'
  <2>1. accounts' \in Seq(Object)
    BY <1>0, <1>9, HeldType DEF OpenDetail
  <2>2. QED
    BY <1>0, <1>2, <1>9, <2>1 DEF OpenDetail, stores, history, past
<1>10. CASE CloseDetail
  <2>1. accounts' \in Seq(Object)
    BY <1>0, <1>10, HeldType DEF CloseDetail
  <2>2. QED
    BY <1>0, <1>10, <2>1 DEF CloseDetail, stores, history, past
<1>11. CASE setDefault
  <2>1. screen.id \in ID
    BY <1>0, <1>1, <1>11 DEF setDefault
  <2>2. Held \in Object
    BY <1>0, <2>1 DEF Held
  <2>3. accounts' \in Seq(Object)
    BY <1>0, <1>11, <2>2, IDsWithoutHeld, IDsPrepend DEF setDefault
  <2>4. QED
    BY <1>0, <1>11, <2>3 DEF setDefault, stores, history, past
<1>12. CASE setDefaultAccount
  <2>1. screen.id \in ID
    BY <1>0, <1>1, <1>12 DEF setDefaultAccount
  <2>2. list' \in Seq(ID)
    BY <1>0, <1>12, <2>1, SyncedIDs, WithoutRange, PrependSet DEF setDefaultAccount
  <2>3. CASE ToSet(list') \subseteq keys
    BY <1>0, <1>12, <2>2, <2>3, LoadedIDs DEF setDefaultAccount
  <2>4. CASE ~(ToSet(list') \subseteq keys)
    BY <1>0, <1>12, <2>2, <2>4, DieType DEF setDefaultAccount
  <2>5. QED
    BY <2>3, <2>4
<1>13. CASE removeAccount
  <2>1. accounts' \in Seq(Object)
    BY <1>0, <1>13, IDsWithoutHeld DEF removeAccount
  <2>2. QED
    BY <1>0, <1>1, <1>13, <2>1 DEF removeAccount, Begin, stores
<1>14. CASE DeleteName \/ DeleteKey \/ DeletePassword
  <2>1. op.id \in ID
    BY <1>0, <1>14 DEF WInv, ProgressInv, DeleteName, DeleteKey, DeletePassword, At
  <2>2. failures' \subseteq [kind : Kinds, id : ID] /\ UNCHANGED past
    BY <1>0, <1>14, <2>1, FailedGrows DEF DeleteName, DeleteKey, DeletePassword, history
  <2>3. QED
    BY <1>0, <1>14, <2>2 DEF DeleteName, DeleteKey, DeletePassword, At, NextStep, past
<1>15. CASE SyncRemoved
  BY <1>0, <1>15, SyncedIDs DEF SyncRemoved, sync, At, WInv, ProgressInv
<1>16. CASE UNCHANGED vars
  BY <1>0, <1>16 DEF vars, stores, memory, history, past
<1>17. QED
  BY <1>3, <1>4, <1>5, <1>6, <1>7, <1>8, <1>9, <1>10, <1>11, <1>12, <1>13, <1>14, <1>15,
     <1>16 DEF Next
-----------------------------------------------------------------------------
(* The end of the process forgets what is in memory and notes what it cut  *)
(* short.                                                                  *)
LEMMA DieStep ==
  ASSUME WInv, TypeOK', Die, Listed' = Listed, UNCHANGED <<names, keys, pwds, used, gone, failures>>
  PROVE  WInv'
<1>1. /\ accounts' = << >> /\ IDs(accounts)' = {} /\ loaded' = FALSE /\ screen' = Closed
      /\ op'.kind = "none"
      /\ torn' = torn \cup Removing /\ orphans' = orphans \cup Adding
  BY IDsEmpty DEF Die, NoOp, Removing, Adding
<1>2. Removing' = {} /\ Adding' = {}
  BY <1>1 DEF Removing, Adding
<1>3. ScreenInv' /\ MemoryInv' /\ ProgressInv'
  BY <1>1 DEF ScreenInv, MemoryInv, ProgressInv, Idle
<1>4. ListedHasKey' /\ KeysAreListed' /\ RemovedIsGone'
  BY <1>1, <1>2, FailedKept DEF WInv, ListedHasKey, KeysAreListed, RemovedIsGone
<1>5. QED
  BY <1>3, <1>4 DEF WInv

(* on:, and the end of setDefaultAccount:, from a list that has the same   *)
(* ids as memory when there was one.                                       *)
LEMMA LoadStep ==
  ASSUME WInv, TypeOK', Idle, list' \in Seq(ID), Listed' = Listed, Load(list'),
         UNCHANGED <<names, keys, pwds, screen, op, history>>
  PROVE  WInv'
<1>1. loaded' /\ IDs(accounts)' = Listed'
  BY LoadedIDs DEF Listed
<1>2. UNCHANGED <<used, torn, gone, orphans, failures>>
  BY DEF history, past
<1>3. Removing' = Removing /\ Adding' = Adding
  BY DEF Removing, Adding
<1>4. ScreenInv' /\ MemoryInv' /\ ProgressInv'
  BY <1>1, <1>2, FailedKept DEF WInv, ScreenInv, MemoryInv, ProgressInv, Idle
<1>5. ListedHasKey' /\ KeysAreListed' /\ RemovedIsGone'
  BY <1>1, <1>2, <1>3, FailedKept DEF WInv, ListedHasKey, KeysAreListed, RemovedIsGone
<1>6. QED
  BY <1>2, <1>4, <1>5 DEF WInv

(* The list that setDefaultAccount: writes names the accounts of memory.   *)
LEMMA DefaultList ==
  ASSUME WInv, setDefaultAccount
  PROVE  list' \in Seq(ID) /\ Listed' = Listed
<1>1. screen # Closed /\ Idle
  BY DEF setDefaultAccount, Closed
<1>2. screen.id \in Listed /\ IDs(accounts) = Listed /\ screen.id \in ID
  BY <1>1 DEF WInv, ScreenInv, MemoryInv, Idle, TypeOK
<1>3. aIDs \in Seq(ID) /\ ToSet(aIDs) = IDs(accounts)
  BY SyncedIDs DEF WInv, TypeOK, Object
<1>4. Without(aIDs, screen.id) \in Seq(ID)
      /\ ToSet(Without(aIDs, screen.id)) = IDs(accounts) \ {screen.id}
  BY <1>3, WithoutRange
<1>5. list' = << screen.id >> \o Without(aIDs, screen.id)
  BY DEF setDefaultAccount
<1>6. /\ << screen.id >> \o Without(aIDs, screen.id) \in Seq(ID)
      /\ ToSet(<< screen.id >> \o Without(aIDs, screen.id))
           = ToSet(Without(aIDs, screen.id)) \cup {screen.id}
  BY <1>2, <1>4, PrependSet
<1>7. ToSet(list') = Listed
  BY <1>2, <1>4, <1>5, <1>6
<1>8. QED
  BY <1>5, <1>6, <1>7 DEF Listed

(* A step of the detail screen that leaves the stores alone.               *)
LEMMA ScreenStep ==
  ASSUME WInv, TypeOK', (\E r \in DOMAIN accounts : OpenDetail(r))
                        \/ CloseDetail \/ setDefault
  PROVE  WInv'
<1>1. accounts \in Seq(Object)
  BY DEF WInv, TypeOK, Object
<1>2. Listed' = Listed /\ UNCHANGED <<names, keys, pwds, loaded, op, used, torn, gone, orphans,
                                  failures>>
  BY DEF OpenDetail, CloseDetail, setDefault, stores, history, past, Listed
<1>3. Idle /\ op.kind = "none"
  BY DEF OpenDetail, CloseDetail, setDefault, Idle
<1>4. IDs(accounts)' = IDs(accounts) /\ (screen' # Closed => screen'.id \in Listed /\ loaded)
  <2>1. ASSUME NEW r \in DOMAIN accounts, OpenDetail(r)
        PROVE  IDs(accounts)' = IDs(accounts) /\ screen'.id \in Listed /\ loaded
    <3>1. IDs(accounts)' = IDs(accounts)
      BY <1>1, <2>1, HeldType DEF OpenDetail
    <3>2. screen'.id = accounts[r].id /\ accounts[r].id \in IDs(accounts)
      BY <2>1 DEF OpenDetail, IDs
    <3>3. QED
      BY <1>3, <3>1, <3>2 DEF WInv, ScreenInv, MemoryInv
  <2>2. CASE CloseDetail
    BY <1>1, <2>2, HeldType DEF CloseDetail
  <2>3. CASE setDefault
    <3>1. screen.id \in Listed /\ IDs(accounts) = Listed /\ screen.id \in ID /\ loaded
      BY <1>3, <2>3 DEF WInv, TypeOK, ScreenInv, MemoryInv, setDefault, Closed
    <3>2. Held \in Object /\ Held.id = screen.id
      BY <3>1 DEF WInv, TypeOK, Held, Object
    <3>3. IDs(accounts)' = {screen.id} \cup IDs(WithoutHeld(accounts))
      BY <1>1, <2>3, <3>2, IDsWithoutHeld, IDsPrepend DEF setDefault
    <3>4. QED
      BY <1>1, <2>3, <3>1, <3>3, IDsWithoutHeld DEF setDefault
  <2>4. QED
    BY <2>1, <2>2, <2>3
<1>5. Removing' = Removing /\ Adding' = Adding
  BY <1>2 DEF Removing, Adding
<1>6. ScreenInv' /\ MemoryInv' /\ ProgressInv'
  BY <1>2, <1>3, <1>4, FailedKept DEF WInv, ScreenInv, MemoryInv, ProgressInv, Idle
<1>7. ListedHasKey' /\ KeysAreListed' /\ RemovedIsGone'
  BY <1>2, <1>4, <1>5, FailedKept DEF WInv, ListedHasKey, KeysAreListed, RemovedIsGone
<1>8. QED
  BY <1>2, <1>6, <1>7 DEF WInv

(* The parts of the invariant a save or a removal can disturb. *)
Parts == /\ Listed \subseteq used /\ ScreenInv /\ MemoryInv /\ ProgressInv
         /\ ListedHasKey /\ KeysAreListed /\ RemovedIsGone

(* An import and a save put the key in the keychain before the list names  *)
(* it, and only for an account that has not been removed.                  *)
LEMMA SaveStep ==
  ASSUME WInv, (\E id \in ID : addAccount(id)) \/ modifyPassword \/ changeName \/ SaveName
               \/ SaveKey \/ SavePassword \/ SyncAdded
  PROVE  Parts'
<1>0. TypeOK /\ Parts /\ accounts \in Seq(Object)
  BY DEF WInv, Parts, TypeOK, Object
<1> USE DEF Parts, ScreenInv, MemoryInv, ProgressInv, ListedHasKey, KeysAreListed,
            RemovedIsGone, Removing, Adding, Idle
<1>1. ASSUME NEW id \in ID, addAccount(id)
      PROVE  Parts'
  <2>1. IDs(accounts)' = IDs(accounts) \cup {id}
    <3>1. [id |-> id, held |-> FALSE, pwd |-> TRUE] \in Object
      BY DEF Object
    <3>2. QED
      BY <1>0, <1>1, <3>1, IDsAppend DEF addAccount
  <2>2. op' = [kind |-> "add", id |-> id, step |-> 1] /\ Listed' = Listed
        /\ UNCHANGED <<names, keys, pwds, loaded, screen, torn, gone, orphans, failures>>
        /\ used' = used \cup {id} /\ id \notin used /\ screen = Closed /\ loaded
        /\ op.kind = "none"
    BY <1>1 DEF addAccount, Begin, stores, Listed
  <2>3. op'.kind = "add" /\ op'.id = id /\ op'.step = 1
    BY <2>2
  <2>4. gone \subseteq used
    BY <1>0 DEF TypeOK
  <2>5. QED
    BY <1>0, <2>1, <2>2, <2>3, <2>4, FailedKept
<1>2. CASE modifyPassword
  <2>1. op' = [kind |-> "save", id |-> screen.id, step |-> 1] /\ Listed' = Listed
        /\ IDs(accounts)' = IDs(accounts) /\ screen # Closed /\ op.kind = "none"
        /\ UNCHANGED <<names, keys, pwds, loaded, screen, used, torn, gone, orphans, failures>>
    BY <1>2 DEF modifyPassword, Begin, stores, history, past, Listed, Closed
  <2>2. op'.kind = "save" /\ op'.id = screen.id /\ op'.step = 1
    BY <2>1
  <2>3. QED
    BY <1>0, <2>1, <2>2, FailedKept
<1>3. CASE changeName
  <2>1. names' = names \cup {screen.id} /\ Listed' = Listed
        /\ IDs(accounts)' = IDs(accounts) /\ screen # Closed /\ op.kind = "none"
        /\ UNCHANGED <<keys, pwds, op, loaded, screen, used, torn, gone, orphans, failures>>
    BY <1>3 DEF changeName, history, past, Listed
  <2>2. QED
    BY <1>0, <2>1, FailedKept
<1>4. CASE SaveName \/ SaveKey \/ SavePassword
  <2>1. op.id \in used \ gone /\ op.kind \in {"add", "save"}
    BY <1>0, <1>4 DEF SaveName, SaveKey, SavePassword, At
  <2>2. Listed' = Listed /\ IDs(accounts)' = IDs(accounts)
        /\ UNCHANGED <<loaded, screen, used, torn, gone, orphans>>
    BY <1>4 DEF SaveName, SaveKey, SavePassword, history, past, Listed
  <2>3. CASE SaveName
    <3>1. op'.kind = op.kind /\ op'.id = op.id /\ op'.step = 2
      BY <1>0, <2>3 DEF SaveName, At, NextStep, TypeOK
    <3>2. names' = names \cup {op.id} /\ UNCHANGED <<keys, pwds, failures>>
      BY <2>3 DEF SaveName, history
    <3>3. QED
      BY <1>0, <2>1, <2>2, <3>1, <3>2, FailedKept
  <2>4. CASE SaveKey
    <3>1. op'.kind = op.kind /\ op'.id = op.id /\ op'.step = 3
      BY <1>0, <2>4 DEF SaveKey, At, NextStep, TypeOK
    <3>2. /\ keys' = keys \cup {op.id} \/ (keys' = keys /\ Fails)
          /\ UNCHANGED <<names, pwds>>
      BY <2>4 DEF SaveKey
    <3>3. op.kind = "save" => op.id \in Listed
      BY <1>0
    <3>4. /\ Failed("add") \subseteq Failed("add")' /\ Failed("remove") \subseteq Failed("remove")'
          /\ Fails /\ op.kind = "add" => op.id \in Failed("add")'
      BY <1>0, <2>1, <2>4, FailedGrows DEF SaveKey, TypeOK, Kinds
    <3>5. QED
      BY <1>0, <2>1, <2>2, <3>1, <3>2, <3>3, <3>4
  <2>5. CASE SavePassword
    <3>1. \/ op'.kind = "add" /\ op.kind = "add" /\ op'.id = op.id /\ op'.step = 4
          \/ op'.kind = "none" /\ op.kind = "save"
      BY <1>0, <2>1, <2>5 DEF SavePassword, At, NextStep, NoOp, TypeOK
    <3>2. /\ pwds' = pwds \cup {op.id} \/ (pwds' = pwds /\ Fails)
          /\ UNCHANGED <<names, keys>> /\ op.step = 3
      BY <2>5 DEF SavePassword, At
    <3>3. /\ Failed("add") \subseteq Failed("add")' /\ Failed("remove") \subseteq Failed("remove")'
          /\ Fails /\ op.kind = "add" => op.id \in Failed("add")'
      BY <1>0, <2>1, <2>5, FailedGrows DEF SavePassword, TypeOK, Kinds
    <3>4. QED
      BY <1>0, <2>1, <2>2, <3>1, <3>2, <3>3
  <2>6. QED
    BY <1>4, <2>3, <2>4, <2>5
<1>5. CASE SyncAdded
  <2>1. Listed' = IDs(accounts) /\ IDs(accounts)' = IDs(accounts) /\ op'.kind = "none"
        /\ op.kind = "add" /\ op.step = 4
        /\ UNCHANGED <<names, keys, pwds, loaded, screen, used, torn, gone, orphans, failures>>
    BY <1>0, <1>5, SyncedIDs DEF SyncAdded, sync, At, NoOp, history, past, Listed
  <2>2. QED
    BY <1>0, <2>1, FailedKept
<1>6. QED
  BY <1>1, <1>2, <1>3, <1>4, <1>5

(* A removal takes the account from memory first and from the list last:   *)
(* only then is it gone, unless another object of it is in memory.         *)
LEMMA RemoveStep ==
  ASSUME WInv, removeAccount \/ DeleteName \/ DeleteKey \/ DeletePassword \/ SyncRemoved
  PROVE  Parts'
<1>0. TypeOK /\ Parts /\ accounts \in Seq(Object)
  BY DEF WInv, Parts, TypeOK, Object
<1> USE DEF Parts, ScreenInv, MemoryInv, ProgressInv, ListedHasKey, KeysAreListed,
            RemovedIsGone, Removing, Adding, Idle
<1>1. CASE removeAccount
  <2>1. IDs(accounts)' \subseteq IDs(accounts)
        /\ IDs(accounts) \subseteq IDs(accounts)' \cup {screen.id}
    BY <1>0, <1>1, IDsWithoutHeld DEF removeAccount
  <2>2. op' = [kind |-> "remove", id |-> screen.id, step |-> 1] /\ Listed' = Listed
        /\ UNCHANGED <<names, keys, pwds, loaded, screen, used, gone, orphans, failures>>
        /\ screen # Closed /\ op.kind = "none"
        /\ torn' = IF screen.id \in IDs(accounts)' THEN torn \cup {screen.id} ELSE torn
    BY <1>1 DEF removeAccount, Begin, stores, Listed
  <2>3. op'.kind = "remove" /\ op'.id = screen.id /\ op'.step = 1
    BY <2>2
  <2>4. IDs(accounts) = Listed
    BY <1>0, <2>2
  <2>5. QED
    BY <1>0, <2>1, <2>2, <2>3, <2>4, FailedKept
<1>2. CASE DeleteName \/ DeleteKey \/ DeletePassword
  <2>1. Listed' = Listed /\ IDs(accounts)' = IDs(accounts) /\ op.kind = "remove"
        /\ UNCHANGED <<loaded, screen, used, torn, gone, orphans>>
    BY <1>2 DEF DeleteName, DeleteKey, DeletePassword, At, history, past, Listed
  <2>2. op'.kind = "remove" /\ op'.id = op.id /\ op'.step = op.step + 1
    BY <1>0, <1>2 DEF DeleteName, DeleteKey, DeletePassword, At, NextStep, TypeOK
  <2>3. \/ op.step = 1 /\ names' = names \ {op.id} /\ UNCHANGED <<keys, pwds>>
        \/ /\ op.step = 2 /\ UNCHANGED <<names, pwds>>
           /\ keys' = keys \ {op.id} \/ (keys' = keys /\ Fails)
        \/ /\ op.step = 3 /\ UNCHANGED <<names, keys>>
           /\ pwds' = pwds \ {op.id} \/ (pwds' = pwds /\ Fails)
    BY <1>2 DEF DeleteName, DeleteKey, DeletePassword, At
  <2>4. op.id \in ID
    BY <1>0, <2>1 DEF TypeOK
  <2>5. /\ Failed("add") \subseteq Failed("add")' /\ Failed("remove") \subseteq Failed("remove")'
        /\ Fails => op.id \in Failed("remove")'
    BY <1>0, <1>2, <2>1, <2>4, FailedGrows DEF DeleteName, DeleteKey, DeletePassword, history, Kinds
  <2>6. QED
    BY <1>0, <2>1, <2>2, <2>3, <2>5
<1>3. CASE SyncRemoved
  <2>1. Listed' = IDs(accounts) /\ IDs(accounts)' = IDs(accounts) /\ op'.kind = "none"
        /\ op.kind = "remove" /\ op.step = 4 /\ screen' = Closed
        /\ gone' = (IF op.id \in torn \cup Failed("remove") THEN gone ELSE gone \cup {op.id})
        /\ UNCHANGED <<names, keys, pwds, loaded, used, torn, orphans, failures>>
    BY <1>0, <1>3, SyncedIDs DEF SyncRemoved, sync, At, NoOp, Listed
  <2>2. QED
    BY <1>0, <2>1, FailedKept
<1>4. QED
  BY <1>1, <1>2, <1>3
-----------------------------------------------------------------------------
(* The inductive invariant of the wallet. *)
THEOREM WalletInvariance == Spec => []WInv
<1>1. Init => WInv
  <2> SUFFICES ASSUME Init
               PROVE  WInv
    OBVIOUS
  <2>1. TypeOK
    <3>1. op \in [kind : Kinds, id : ID \cup {NoID}, step : 0 .. 4]
          /\ screen \in [id : ID \cup {NoID}, pwd : BOOLEAN, other : BOOLEAN]
      BY DEF Init, NoOp, Closed, Kinds
    <3>2. accounts \in Seq([id : ID, held : BOOLEAN, pwd : BOOLEAN]) /\ list \in Seq(ID)
      BY IDsEmpty DEF Init, Object
    <3>3. QED
      BY <3>1, <3>2 DEF Init, TypeOK
  <2>2. op.kind = "none" /\ IDs(accounts) = {} /\ Listed = {} /\ screen = Closed
        /\ names = {} /\ keys = {} /\ gone = {}
    <3>1. ToSet(<< >>) = {}
      BY DEF ToSet
    <3>2. QED
      BY <3>1, IDsEmpty DEF Init, NoOp, Listed
  <2>3. QED
    BY <2>1, <2>2 DEF WInv, ScreenInv, MemoryInv, ProgressInv, ListedHasKey, KeysAreListed,
                      RemovedIsGone, Idle, Init
<1>2. WInv /\ [Next]_vars => WInv'
  <2> SUFFICES ASSUME WInv, [Next]_vars
               PROVE  WInv'
    OBVIOUS
  <2>1. TypeOK'
    BY TypeStep
  <2>2. Parts' => WInv'
    BY <2>1 DEF WInv, Parts
  <2>3. CASE Crash
    BY <2>1, <2>3, DieStep DEF Crash, stores, Listed
  <2>4. CASE on
    <3>1. UNCHANGED <<stores, used, gone, failures>> /\ list' = list /\ list \in Seq(ID)
      BY <2>4 DEF on, stores, WInv, TypeOK
    <3>2. Listed' = Listed /\ Listed = ToSet(list)
      BY <3>1 DEF Listed
    <3>3. CASE Die
      BY <2>1, <3>1, <3>2, <3>3, DieStep DEF stores
    <3>4. CASE ~Die
      <4>1. Idle /\ Load(list') /\ UNCHANGED <<names, keys, pwds, screen, op, history>>
        BY <2>4, <3>1, <3>4 DEF on, stores, history, past
      <4>2. QED
        BY <2>1, <3>1, <3>2, <4>1, LoadStep
    <3>5. QED
      BY <3>3, <3>4
  <2>5. CASE setDefaultAccount
    <3>1. list' \in Seq(ID) /\ Listed' = Listed
      BY <2>5, DefaultList
    <3>2. CASE ~Die
      <4>1. Idle /\ Load(list') /\ UNCHANGED <<names, keys, pwds, screen, op, history>>
        BY <2>5, <3>2 DEF setDefaultAccount, history, past
      <4>2. QED
        BY <2>1, <3>1, <4>1, LoadStep
    <3>3. CASE Die
      BY <2>1, <2>5, <3>1, <3>3, DieStep DEF setDefaultAccount
    <3>4. QED
      BY <3>2, <3>3
  <2>6. CASE (\E r \in DOMAIN accounts : OpenDetail(r)) \/ CloseDetail \/ setDefault
    BY <2>1, <2>6, ScreenStep
  <2>7. CASE (\E id \in ID : addAccount(id)) \/ modifyPassword \/ changeName \/ SaveName
             \/ SaveKey \/ SavePassword \/ SyncAdded
    BY <2>2, <2>7, SaveStep
  <2>8. CASE removeAccount \/ DeleteName \/ DeleteKey \/ DeletePassword \/ SyncRemoved
    BY <2>2, <2>8, RemoveStep
  <2>9. CASE UNCHANGED vars
    <3>1. UNCHANGED <<list, names, keys, pwds, accounts, loaded, screen, op, used, torn, gone,
                      orphans, failures>>
      BY <2>9 DEF vars, stores, memory, history, past
    <3>2. QED
      BY <2>1, <3>1, FailedKept DEF WInv, ScreenInv, MemoryInv, ProgressInv, ListedHasKey,
         KeysAreListed, RemovedIsGone, Idle, Listed, Removing, Adding
  <2>10. QED
    BY <2>3, <2>4, <2>5, <2>6, <2>7, <2>8, <2>9 DEF Next
<1>3. QED
  BY <1>1, <1>2, PTL DEF Spec

(* Every variable of the wallet keeps its type. *)
THEOREM TypeCorrect == Spec => []TypeOK
<1>1. WInv => TypeOK
  BY DEF WInv
<1>2. QED
  BY <1>1, WalletInvariance, PTL

(* However imports, password changes, crashes and failures fall, a listed  *)
(* account lacks its key or password only if its removal was cut short or  *)
(* missed an object, or the keychain failed at its import.                 *)
THEOREM ListedHaveKeys == Spec => []ListedHasKey
<1>1. WInv => ListedHasKey
  BY DEF WInv
<1>2. QED
  BY <1>1, WalletInvariance, PTL

(* A key without an entry in the list is that of an import cut short, or   *)
(* one that the keychain failed to remove.                                 *)
THEOREM KeysListed == Spec => []KeysAreListed
<1>1. WInv => KeysAreListed
  BY DEF WInv
<1>2. QED
  BY <1>1, WalletInvariance, PTL

(* A complete removal in which the keychain did not fail leaves nothing    *)
(* behind, whatever comes after it.                                        *)
THEOREM RemovalIsComplete == Spec => []RemovedIsGone
<1>1. WInv => RemovedIsGone
  BY DEF WInv
<1>2. QED
  BY <1>1, WalletInvariance, PTL

(* Between two operations memory and the list name the same accounts. *)
THEOREM MemoryListed == Spec => []MemoryMatchesList
<1>1. WInv => MemoryMatchesList
  BY DEF WInv, MemoryInv, MemoryMatchesList, Idle
<1>2. QED
  BY <1>1, WalletInvariance, PTL

(* No write of the list loses an account. *)
THEOREM AccountsKept == Spec => NoAccountLost
<1>1. WInv /\ [Next]_vars
        => [\A id \in Listed : id \in Listed'
                               \/ op = [kind |-> "remove", id |-> id, step |-> 4]]_list
  <2> SUFFICES ASSUME WInv, Next, list' # list, NEW id \in Listed, id \notin Listed'
               PROVE  op = [kind |-> "remove", id |-> id, step |-> 4]
    BY DEF vars, stores
  <2>1. TypeOK /\ accounts \in Seq(Object)
    BY DEF WInv, TypeOK, Object
  <2>2. SyncAdded \/ setDefaultAccount \/ SyncRemoved
    BY DEF Next, Crash, on, addAccount, modifyPassword, changeName, SaveName, SaveKey,
           SavePassword, OpenDetail, CloseDetail, setDefault, removeAccount, DeleteName,
           DeleteKey, DeletePassword, stores
  <2>3. CASE SyncAdded
    BY <2>1, <2>3, SyncedIDs DEF SyncAdded, sync, At, Listed, WInv, MemoryInv
  <2>4. CASE setDefaultAccount
    BY <2>4, DefaultList
  <2>5. CASE SyncRemoved
    <3>1. op.kind = "remove" /\ op.step = 4 /\ Listed' = IDs(accounts)
      BY <2>1, <2>5, SyncedIDs DEF SyncRemoved, sync, At, Listed
    <3>2. op.id = id
      BY <3>1 DEF WInv, MemoryInv
    <3>3. QED
      BY <2>1, <3>1, <3>2 DEF TypeOK
  <2>6. QED
    BY <2>2, <2>3, <2>4, <2>5
<1>2. QED
  BY <1>1, WalletInvariance, PTL DEF Spec, NoAccountLost
=============================================================================
