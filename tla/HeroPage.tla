------------------------------ MODULE HeroPage ------------------------------
(***************************************************************************)
(* A page of hero.js and herohelper.js and the screen that shows it: the   *)
(* text fields, whose texts both sides keep, and the requests to a server  *)
(* that show the loading overlay.  Messages go both ways at once, on the   *)
(* main thread, and both ways a screen that is covered drops them.  A text *)
(* field tells its text 0.3 s after it was set, and while the user types;  *)
(* the page takes no empty text.                                           *)
(***************************************************************************)
EXTENDS Naturals, Sequences, FiniteSets

CONSTANTS
  Fields,     \* text fields of the page whose textFieldDidEditing names them
  Texts,      \* texts that are not empty
  Empty, Null,
  Requests,   \* requests with the overlay
  Params,     \* their data: sequences of [key, val], in the order of insertion
  MaxChanges, \* bound on the texts that are set or typed
  MaxCovers   \* bound on the screens put over this one

VARIABLES
  receiver,   \* is the screen on top?
  boot,       \* "loading", "booted", "loaded"
  shown,      \* the text each field shows, Null while there is no field
  ui2Data,    \* the text the page has of it
  echoes,     \* how many blocks will tell its text
  missed,     \* fields for which a dropped message made a difference
  overlay,    \* is the overlay up?
  held,       \* history: it is, and whoever should have ended it did not
  requests,   \* "none", "sent" or "ended"
  wire,       \* the last request sent: its data, what was signed, what was sent
  changes, covers

fieldVars == <<shown, ui2Data, echoes, missed, changes>>
requestVars == <<overlay, held, requests, wire>>
pageVars == <<receiver, boot, fieldVars, requestVars, covers>>

Nothing == [params |-> << >>, signed |-> << >>, sent |-> << >>]

Init ==
  /\ receiver = TRUE /\ boot = "loading"
  /\ shown = [f \in Fields |-> Null] /\ ui2Data = [f \in Fields |-> Null]
  /\ echoes = [f \in Fields |-> 0] /\ missed = {} /\ changes = 0
  /\ overlay = FALSE /\ held = FALSE /\ covers = 0
  /\ requests = [r \in Requests |-> "none"] /\ wire = Nothing
-----------------------------------------------------------------------------
(* boot: the fields' texts are sent before there are fields, then the      *)
(* whole ui; ui[f] is Null for a field without a text.                     *)
Boot ==
  /\ boot = "loading" /\ boot' = "booted"
  /\ \E ui \in [Fields -> Texts \cup {Null}] :
       /\ ui2Data' = ui
       /\ IF receiver
          THEN /\ shown' = [f \in Fields |-> IF ui[f] = Null THEN Empty ELSE ui[f]]
               /\ echoes' = [f \in Fields |-> IF ui[f] = Null THEN 0 ELSE 1]
               /\ UNCHANGED missed
          ELSE missed' = Fields /\ UNCHANGED <<shown, echoes>>
  /\ UNCHANGED <<receiver, requestVars, changes, covers>>

(* out({datas}) with a text. *)
datas(f, v) ==
  IF receiver /\ shown[f] # Null
  THEN /\ shown' = [shown EXCEPT ![f] = v]
       /\ echoes' = [echoes EXCEPT ![f] = @ + 1]
  ELSE UNCHANGED <<shown, echoes>>

Changes ==
  /\ changes < MaxChanges
  /\ changes' = changes + 1
  /\ UNCHANGED <<receiver, boot, requestVars, covers>>

(* The setter of ui2Data: a text that it has is not sent again. *)
Set(f, v) ==
  /\ boot # "loading" /\ ui2Data[f] # v
  /\ Changes
  /\ ui2Data' = [ui2Data EXCEPT ![f] = v]
  /\ datas(f, v)
  /\ missed' = IF receiver /\ shown[f] # Null THEN missed \ {f} ELSE missed \cup {f}

(* Hero.datas with a text, past the setter. *)
Tell(f, v) ==
  /\ boot # "loading"
  /\ Changes
  /\ datas(f, v)
  /\ UNCHANGED <<ui2Data, missed>>

(* Hero.in: what is empty is not recorded. *)
in(f, v) ==
  /\ ui2Data' = IF v = Empty THEN ui2Data ELSE [ui2Data EXCEPT ![f] = v]
  /\ missed' = IF v = Empty THEN missed ELSE missed \ {f}

Type(f, v) ==
  /\ receiver /\ shown[f] \notin {Null, v}
  /\ Changes
  /\ shown' = [shown EXCEPT ![f] = v]
  /\ in(f, v)
  /\ UNCHANGED echoes

(* Mutant: the block does not say whose text it is. *)
Echo_nameless(f) ==
  /\ echoes[f] > 0
  /\ echoes' = [echoes EXCEPT ![f] = @ - 1]
  /\ UNCHANGED <<receiver, boot, shown, ui2Data, missed, changes, requestVars, covers>>

(* The block of HeroTextField: it tells the text of that moment. *)
Echo(f) ==
  /\ echoes[f] > 0
  /\ echoes' = [echoes EXCEPT ![f] = @ - 1]
  /\ IF receiver
     THEN in(f, shown[f])
     ELSE /\ missed' = IF shown[f] = ui2Data[f] THEN missed ELSE missed \cup {f}
          /\ UNCHANGED ui2Data
  /\ UNCHANGED <<receiver, boot, shown, changes, requestVars, covers>>
-----------------------------------------------------------------------------
(* showLoading and stopLoading as commands of this screen. *)
Stopped ==
  /\ overlay' = (overlay /\ ~receiver)
  /\ held' = (overlay /\ ~receiver)

elements(s) == {s[i] : i \in DOMAIN s}

(* The members of a finite set of numbers, the smallest first. *)
increasing(T) ==
  CHOOSE s \in [1 .. Cardinality(T) -> T] :
    /\ elements(s) = T
    /\ \A i, j \in DOMAIN s : i < j => s[i] < s[j]

(* Mutant: the keys keep their order. *)
objKeySort_not(obj) == obj

(* The names are sorted, and each gets its value. *)
objKeySort(obj) ==
  LET newkey == increasing({obj[i].key : i \in DOMAIN obj})
  IN  [n \in DOMAIN newkey |-> CHOOSE p \in elements(obj) : p.key = newkey[n]]

(* formatData: a falsy value is left out.  "zero" is any but the empty     *)
(* text: 0, false, null and undefined.                                     *)
formatData(fd) ==
  LET kept == increasing({i \in DOMAIN fd : fd[i].val \notin {"empty", "zero"}})
  IN  [n \in DOMAIN kept |-> fd[kept[n]]]

(* hero.in makes every value a text before the request formats it again.   *)
encoded(fd) == [i \in DOMAIN fd |-> [fd[i] EXCEPT !.val = IF @ = "zero" THEN "text" ELSE @]]

(* get and post of HeroHelper; without data they throw. *)
get(r) ==
  /\ boot # "loading" /\ requests[r] = "none"
  /\ overlay' = (overlay \/ receiver)
  /\ \/ \E params \in Params :
          /\ wire' = [params |-> params, signed |-> formatData(objKeySort(params)),
                      sent |-> formatData(encoded(objKeySort(params)))]
          /\ requests' = [requests EXCEPT ![r] = "sent"]
          /\ UNCHANGED held
     \/ /\ requests' = [requests EXCEPT ![r] = "ended"]
        /\ held' = overlay'
        /\ UNCHANGED wire
  /\ UNCHANGED <<receiver, boot, fieldVars, covers>>

(* Mutant: a failure does not stop the overlay. *)
Answered_failKeeps(r, how) ==
  IF how \in {"garbled", "fail"} THEN overlay' = overlay /\ held' = held ELSE Stopped

(* success, fail and the parse before them, which may throw. *)
Answered(r, how) ==
  IF how = "garbled" THEN overlay' = overlay /\ held' = overlay ELSE Stopped

(* An answer, an error or the time-out; who is not logged in gets the      *)
(* login screen.                                                           *)
Ends(r) ==
  /\ requests[r] = "sent"
  /\ requests' = [requests EXCEPT ![r] = "ended"]
  /\ \E how \in {"success", "login", "message", "fail", "garbled"} :
       /\ Answered(r, how)
       /\ IF how = "login" /\ receiver
          THEN covers < MaxCovers /\ covers' = covers + 1 /\ receiver' = FALSE
          ELSE UNCHANGED <<covers, receiver>>
  /\ UNCHANGED <<boot, fieldVars, wire>>

(* webViewDidFinishLoad *)
LoadEnds ==
  /\ boot = "booted" /\ boot' = "loaded"
  /\ Stopped
  /\ UNCHANGED <<receiver, fieldVars, requests, wire, covers>>

(* Another screen is pushed or presented; its messages count now, and its  *)
(* own load ends the one overlay.                                          *)
Cover ==
  /\ receiver /\ covers < MaxCovers
  /\ receiver' = FALSE /\ covers' = covers + 1
  /\ UNCHANGED <<boot, fieldVars, requestVars>>

OtherStops ==
  /\ ~receiver /\ overlay
  /\ overlay' = FALSE /\ held' = FALSE
  /\ UNCHANGED <<receiver, boot, fieldVars, requests, wire, covers>>

Uncover ==
  /\ ~receiver
  /\ receiver' = TRUE
  /\ UNCHANGED <<boot, fieldVars, requestVars, covers>>
-----------------------------------------------------------------------------
Page ==
  \/ Boot \/ LoadEnds
  \/ \E f \in Fields, v \in Texts \cup {Empty} : Set(f, v) \/ Tell(f, v)
  \/ \E r \in Requests : get(r) \/ Ends(r)

Screen ==
  \/ Cover \/ Uncover \/ OtherStops
  \/ \E f \in Fields : Echo(f) \/ \E v \in Texts \cup {Empty} : Type(f, v)

Next == Page \/ Screen
Spec == Init /\ [][Next]_pageVars
-----------------------------------------------------------------------------
(* When nothing is on its way, the page has the text that the user sees in *)
(* a field, whoever set it and in whatever order, unless a message of the  *)
(* field was dropped or the field is empty: an emptied field keeps its     *)
(* text in ui2Data, so that setting this text again does nothing.          *)
FieldsAgree ==
  \A f \in Fields \ missed :
    boot # "loading" /\ echoes[f] = 0 /\ shown[f] # Empty => ui2Data[f] = shown[f]

(* The overlay is up only while a request runs, unless a request had no    *)
(* data or an answer that is no JSON, or ended while the screen was        *)
(* covered: these leave it up until something else ends it.                *)
OverlayHasReason ==
  overlay => held \/ \E r \in Requests : requests[r] = "sent"

(* Who signs the sorted parameters that arrive gets what the page signed,  *)
(* unless a parameter is 0, false, null or undefined: those are sent as    *)
(* texts but not signed.                                                   *)
SignCoversSent ==
  /\ \A i, j \in DOMAIN wire.signed : i < j => wire.signed[i].key < wire.signed[j].key
  /\ \/ elements(wire.signed) = elements(wire.sent)
     \/ \E i \in DOMAIN wire.params : wire.params[i].val = "zero"
=============================================================================
