----------------------------- MODULE HeroWallet -----------------------------
(***************************************************************************)
(* HeroWallet, its HeroAccounts, and what survives of them in the user     *)
(* defaults and the keychain.                                              *)
(*                                                                         *)
(* Everything runs on the main thread, one user action at a time, but a    *)
(* save or a removal is several writes to two stores: the process may die  *)
(* between any two of them, and those to the keychain may fail, which the  *)
(* code does not look at.                                                  *)
(*                                                                         *)
(* loadAccounts replaces every HeroAccount object, so the object a screen  *)
(* holds may no longer be one of the wallet's.  Of the identity of objects *)
(* only this matters: an element of `accounts' is held when it is the very *)
(* object the open HeroWalletDetailViewController refers to.               *)
(***************************************************************************)
EXTENDS Arrays, FiniteSets

CONSTANTS
  ID,        \* the aIDs, each a UUID made once
  NoID,
  MaxFaults, \* bound on the deaths of the process and failures of the keychain
  MaxObjects \* bound on the objects in the wallet

ASSUME BoundAssumption == MaxFaults \in Nat /\ MaxObjects \in Nat

VARIABLES
  list,      \* NSUserDefaults: HERO_WALLET_LIST
  names,     \* NSUserDefaults: ids with a _name
  keys,      \* keychain: ids with a private key
  pwds,      \* keychain: ids with a _pwd
  accounts,  \* the wallet's objects, in order: [id, held, pwd], where pwd
             \* says whether the object has a password
  loaded,    \* has loadAccounts run in this process?
  screen,    \* the open detail screen: the id of its account, whether that
             \* object has a password, and whether the screen was built for
             \* an account that was not the default
  op,        \* the save or removal under way: [kind, id, step]
  crashes,
  used,      \* history: ids ever made
  torn,      \* history: ids whose removal was cut short or missed an object
  gone,      \* history: ids whose removal was complete
  orphans,   \* history: ids whose import was cut short
  failures   \* history: calls of the keychain that failed: [kind, id]

stores  == <<list, names, keys, pwds>>
memory  == <<accounts, loaded, screen, op>>
past    == <<crashes, used, torn, gone, orphans>>
history == <<past, failures>>
vars == <<stores, memory, history>>

Kinds == {"none", "add", "save", "remove"}
Idle == op.kind = "none"
NoOp == [kind |-> "none", id |-> NoID, step |-> 0]
Closed == [id |-> NoID, pwd |-> FALSE, other |-> FALSE]
Failed(kind) == {id \in ID : [kind |-> kind, id |-> id] \in failures}

IDs(s) == {s[i].id : i \in DOMAIN s}
aIDs == [i \in DOMAIN accounts |-> accounts[i].id]
Listed == ToSet(list)
defaultAccount == accounts[1].id

Init ==
  /\ list = << >> /\ names = {} /\ keys = {} /\ pwds = {}
  /\ accounts = << >> /\ loaded = FALSE /\ screen = Closed /\ op = NoOp
  /\ crashes = 0 /\ used = {} /\ torn = {} /\ gone = {} /\ orphans = {}
  /\ failures = {}

Begin(kind, id) == op' = [kind |-> kind, id |-> id, step |-> 1]
NextStep == op' = [op EXCEPT !.step = @ + 1]
At(kinds, step) == op.kind \in kinds /\ op.step = step
MayFault == crashes + Cardinality(failures) < MaxFaults
-----------------------------------------------------------------------------
(* The process ends: by itself, or with the exception of addObject:nil.    *)
Die ==
  /\ accounts' = << >> /\ loaded' = FALSE /\ screen' = Closed /\ op' = NoOp
  /\ torn' = IF op.kind = "remove" THEN torn \cup {op.id} ELSE torn
  /\ orphans' = IF op.kind = "add" THEN orphans \cup {op.id} ELSE orphans

Crash ==
  /\ MayFault
  /\ crashes' = crashes + 1
  /\ Die
  /\ UNCHANGED <<stores, used, gone, failures>>

Load(ids) ==
  /\ accounts' = [i \in DOMAIN ids |-> [id |-> ids[i], held |-> FALSE, pwd |-> ids[i] \in pwds]]
  /\ loaded' = TRUE

(* HeroSignature's on: loads the accounts at every command, before it does *)
(* anything else.  An id without a private key gives no object, and adding *)
(* nil to the array raises; one without a password gives an object that no *)
(* password fits.                                                          *)
on ==
  /\ Idle
  /\ IF Listed \subseteq keys
     THEN Load(list) /\ UNCHANGED <<screen, op, torn, orphans>>
     ELSE Die
  /\ UNCHANGED <<stores, crashes, used, gone, failures>>
-----------------------------------------------------------------------------
(* addAccount:, from the import screen, which only on: can lead to, by way *)
(* of the list of accounts or when there is none to sign with.             *)
addAccount(id) ==
  /\ Idle /\ loaded /\ screen = Closed
  /\ id \notin used
  /\ used' = used \cup {id}
  /\ accounts' = Append(accounts, [id |-> id, held |-> FALSE, pwd |-> TRUE])
  /\ Begin("add", id)
  /\ UNCHANGED <<stores, loaded, screen, crashes, torn, gone, orphans, failures>>

(* onDoneTapped of the password screen, with the present password: saves   *)
(* the object the screen holds.                                            *)
modifyPassword ==
  /\ Idle /\ screen.pwd
  /\ Begin("save", screen.id)
  /\ UNCHANGED <<stores, accounts, loaded, screen, history>>

(* changeNameThen: writes the new name to the defaults alone. *)
changeName ==
  /\ Idle /\ screen # Closed
  /\ names' = names \cup {screen.id}
  /\ UNCHANGED <<list, keys, pwds, accounts, loaded, screen, op, history>>

(* Mutant: the list is written before the account is saved. *)
SaveName_listFirst ==
  /\ At({"add", "save"}, 1)
  /\ names' = names \cup {op.id}
  /\ list' = aIDs
  /\ NextStep
  /\ UNCHANGED <<keys, pwds, accounts, loaded, screen, history>>

(* -save: the defaults, then the key, then the password. *)
SaveName ==
  /\ At({"add", "save"}, 1)
  /\ names' = names \cup {op.id}
  /\ NextStep
  /\ UNCHANGED <<list, keys, pwds, accounts, loaded, screen, history>>

(* A call of the keychain fails; its result is not looked at. *)
Fails ==
  /\ MayFault
  /\ failures' = failures \cup {[kind |-> op.kind, id |-> op.id]}

SaveKey ==
  /\ At({"add", "save"}, 2)
  /\ \/ keys' = keys \cup {op.id} /\ UNCHANGED failures
     \/ Fails /\ UNCHANGED keys
  /\ NextStep
  /\ UNCHANGED <<list, names, pwds, accounts, loaded, screen, past>>

SavePassword ==
  /\ At({"add", "save"}, 3)
  /\ \/ pwds' = pwds \cup {op.id} /\ UNCHANGED failures
     \/ Fails /\ UNCHANGED pwds
  /\ IF op.kind = "add" THEN NextStep ELSE op' = NoOp
  /\ UNCHANGED <<list, names, keys, accounts, loaded, screen, past>>

(* -sync *)
sync == list' = aIDs

SyncAdded ==
  /\ At({"add"}, 4)
  /\ sync
  /\ op' = NoOp
  /\ UNCHANGED <<names, keys, pwds, accounts, loaded, screen, history>>
-----------------------------------------------------------------------------
(* The detail screen of the account in row r, opened and left. *)
OpenDetail(r) ==
  /\ Idle /\ screen = Closed
  /\ r \in DOMAIN accounts
  /\ screen' = [id |-> accounts[r].id, pwd |-> accounts[r].pwd,
                other |-> accounts[r].id # defaultAccount]
  /\ accounts' = [accounts EXCEPT ![r].held = TRUE]
  /\ UNCHANGED <<stores, loaded, op, history>>

Unheld(s) == [i \in DOMAIN s |-> [s[i] EXCEPT !.held = FALSE]]

CloseDetail ==
  /\ Idle /\ screen # Closed
  /\ screen' = Closed
  /\ accounts' = Unheld(accounts)
  /\ UNCHANGED <<stores, loaded, op, history>>

(* The object the screen holds, and removeObject: of it. *)
Held == [id |-> screen.id, held |-> TRUE, pwd |-> screen.pwd]
WithoutHeld(s) == Without(s, Held)

(* The bar button's setDefault, which only changes memory and says so.  It *)
(* adds a second object of the account if the screen's is not in the array *)
(* any more: hence the bound.                                              *)
setDefault ==
  /\ Idle /\ screen.other
  /\ Len(WithoutHeld(accounts)) < MaxObjects
  /\ accounts' = << Held >> \o WithoutHeld(accounts)
  /\ UNCHANGED <<stores, loaded, screen, op, history>>

(* Mutant: the list is made of the default account alone. *)
setDefaultAccount_forgets ==
  /\ Idle /\ screen.other
  /\ list' = << screen.id >>
  /\ Load(list')
  /\ UNCHANGED <<names, keys, pwds, screen, op, history>>

(* The switch's setDefaultAccount:, which writes the list and loads it. *)
setDefaultAccount ==
  /\ Idle /\ screen.other
  /\ list' = << screen.id >> \o Without(aIDs, screen.id)
  /\ IF ToSet(list') \subseteq keys
     THEN Load(list') /\ UNCHANGED <<screen, op, torn, orphans>>
     ELSE Die
  /\ UNCHANGED <<names, keys, pwds, crashes, used, gone, failures>>

(* onDeleteTapped, once the password of the default account was given:     *)
(* removeAccount: of the object the screen holds.  The wallet may have     *)
(* another object with its id.                                             *)
removeAccount ==
  /\ Idle /\ screen # Closed
  /\ accounts # << >> /\ accounts[1].pwd
  /\ accounts' = WithoutHeld(accounts)
  /\ torn' = IF screen.id \in IDs(accounts') THEN torn \cup {screen.id} ELSE torn
  /\ Begin("remove", screen.id)
  /\ UNCHANGED <<stores, loaded, screen, crashes, used, gone, orphans, failures>>

(* -deleteAccount *)
DeleteName ==
  /\ At({"remove"}, 1)
  /\ names' = names \ {op.id}
  /\ NextStep
  /\ UNCHANGED <<list, keys, pwds, accounts, loaded, screen, history>>

(* Mutant: the private key stays in the keychain. *)
DeleteKey_keeps ==
  /\ At({"remove"}, 2)
  /\ NextStep
  /\ UNCHANGED <<stores, accounts, loaded, screen, history>>

DeleteKey ==
  /\ At({"remove"}, 2)
  /\ \/ keys' = keys \ {op.id} /\ UNCHANGED failures
     \/ Fails /\ UNCHANGED keys
  /\ NextStep
  /\ UNCHANGED <<list, names, pwds, accounts, loaded, screen, past>>

DeletePassword ==
  /\ At({"remove"}, 3)
  /\ \/ pwds' = pwds \ {op.id} /\ UNCHANGED failures
     \/ Fails /\ UNCHANGED pwds
  /\ NextStep
  /\ UNCHANGED <<list, names, keys, accounts, loaded, screen, past>>

(* Mutant: the removal is not written to the list. *)
SyncRemoved_skipped ==
  /\ At({"remove"}, 4)
  /\ gone' = IF op.id \in torn \cup Failed("remove") THEN gone ELSE gone \cup {op.id}
  /\ op' = NoOp
  /\ screen' = Closed
  /\ UNCHANGED <<stores, accounts, loaded, crashes, used, torn, orphans, failures>>

(* The list is written last; then the screen is popped. *)
SyncRemoved ==
  /\ At({"remove"}, 4)
  /\ sync
  /\ gone' = IF op.id \in torn \cup Failed("remove") THEN gone ELSE gone \cup {op.id}
  /\ op' = NoOp
  /\ screen' = Closed
  /\ UNCHANGED <<names, keys, pwds, accounts, loaded, crashes, used, torn, orphans, failures>>
-----------------------------------------------------------------------------
Next ==
  \/ Crash \/ on
  \/ \E id \in ID : addAccount(id)
  \/ modifyPassword \/ changeName \/ SaveName \/ SaveKey \/ SavePassword \/ SyncAdded
  \/ \E r \in DOMAIN accounts : OpenDetail(r)
  \/ CloseDetail \/ setDefault \/ setDefaultAccount
  \/ removeAccount \/ DeleteName \/ DeleteKey \/ DeletePassword \/ SyncRemoved

Spec == Init /\ [][Next]_vars
-----------------------------------------------------------------------------
TypeOK ==
  /\ list \in Seq(ID)
  /\ names \subseteq ID /\ keys \subseteq ID /\ pwds \subseteq ID
  /\ accounts \in Seq([id : ID, held : BOOLEAN, pwd : BOOLEAN])
  /\ loaded \in BOOLEAN
  /\ screen \in [id : ID \cup {NoID}, pwd : BOOLEAN, other : BOOLEAN]
  /\ op \in [kind : Kinds, id : ID \cup {NoID}, step : 0 .. 4]
  /\ used \subseteq ID /\ torn \subseteq used /\ gone \subseteq used
  /\ orphans \subseteq used
  /\ failures \subseteq [kind : Kinds, id : ID]

(* loadAccounts raises on a listed id without a key, and without its       *)
(* password an account is of no use.  However imports, password changes    *)
(* and crashes fall, that takes a removal, one that a crash cut short or   *)
(* one through an object the wallet had replaced, or a failure of the      *)
(* keychain at the import; one at a change of the password does no harm.   *)
Removing == IF op.kind = "remove" THEN {op.id} ELSE {}
ListedHasKey == Listed \subseteq (keys \cap pwds) \cup torn \cup Removing \cup Failed("add")

(* A private key is in the keychain without being in the list only while   *)
(* its import runs, after a crash cut the import short, or after the       *)
(* keychain failed to remove it.                                           *)
Adding == IF op.kind = "add" THEN {op.id} ELSE {}
KeysAreListed == keys \subseteq Listed \cup Adding \cup orphans \cup Failed("remove")

(* A removal that was complete, and in which the keychain did not fail,    *)
(* leaves nothing of the account, and nothing brings any of it back.       *)
RemovedIsGone == gone \cap (Listed \cup names \cup keys \cup pwds \cup IDs(accounts)) = {}

(* The list and the wallet's objects name the same accounts whenever       *)
(* nothing is being written: a sync loses none that this process knows.    *)
MemoryMatchesList == Idle /\ loaded => IDs(accounts) = Listed

(* No write of the list drops an account other than the one being removed. *)
NoAccountLost ==
  [][\A id \in Listed : id \in Listed' \/ op = [kind |-> "remove", id |-> id, step |-> 4]]_list

(* HeroWalletDetailViewController tells the user that the wallet has been  *)
(* made the default one: the default then only changes when another is     *)
(* chosen, or accounts are removed or lost.                                *)
DefaultIsKept ==
  [][loaded /\ loaded' /\ IDs(accounts') = IDs(accounts) /\ accounts # << >>
       /\ ~setDefault /\ ~setDefaultAccount
     => defaultAccount' = defaultAccount]_vars
=============================================================================
