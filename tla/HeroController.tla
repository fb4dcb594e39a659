--------------------------- MODULE HeroController ---------------------------
(***************************************************************************)
(* HeroViewController: the screens of an application, each with a page in  *)
(* a HeroWebView whose script sends it commands through on:.  A screen may *)
(* cover another by a push or a presentation and uncover it by a pop, a    *)
(* dismissal or the swipe back, which the user may call off.               *)
(*                                                                         *)
(* The screens share the loading overlay of the key window, which is found *)
(* again by its tag, and the registration of HeroProviderURLProtocol.      *)
(* Everything runs on the main thread; a delayed command, or one sent from *)
(* another thread, is one that the screen gets later.  What a screen shows *)
(* (ui, datas, appearance, its left menu) is left out, so whether the      *)
(* navigation bar allows a swipe back is left open.                        *)
(***************************************************************************)
EXTENDS Naturals, SequencesExt

CONSTANTS
  Page,     \* screens that goto:, magicGoto: and present: make
  Inject,   \* screens that gotoWithLoading: makes
  Root,     \* the first screen
  Command,  \* stands for the script that shows an overlay
  MaxShows  \* bound on the overlays that are made

ASSUME ScreenAssumption == Page \cap Inject = {} /\ Root \in Page
ASSUME ShowsAssumption == MaxShows \in Nat
ASSUME CommandAssumption == Command \notin Page \cup Inject

Screen == Page \cup Inject

VARIABLES
  navs,       \* the stacks of the navigation controllers, the presented ones last
  swiping,    \* is the top screen being swiped away?
  receiver,   \* the screens with _isMessageReceiver
  load,       \* for each screen, what its page does
  registered, \* is HeroProviderURLProtocol registered?
  overlay,    \* the overlay in the window: its number and who showed it
  fades,      \* the overlays that stopLoading is fading out
  shows,      \* overlays made so far
  missed      \* history: screens with loading that did not hear of its end

screenVars == <<navs, swiping, receiver, registered>>
overlayVars == <<overlay, fades, shows>>
vars == <<screenVars, load, overlayVars, missed>>

Stack == Last(navs)
Top == Last(Stack)
Below == Stack[Len(Stack) - 1]
Shown == UNION {Range(navs[i]) : i \in DOMAIN navs}
NoOverlay == [id |-> 0, by |-> Command]

Init ==
  /\ navs = <<(<<Root>>)>> /\ swiping = FALSE
  /\ receiver = {Root}
  /\ load = [s \in Screen |-> IF s = Root THEN "loading" ELSE "none"]
  /\ registered = FALSE
  /\ overlay = NoOverlay /\ fades = {} /\ shows = 0
  /\ missed = {}
-----------------------------------------------------------------------------
(* The loading overlay: a new one replaces the one with its tag; a fade    *)
(* removes the one it started with.                                        *)
showLoading(by) ==
  /\ shows < MaxShows
  /\ shows' = shows + 1
  /\ overlay' = [id |-> shows + 1, by |-> by]
  /\ UNCHANGED fades

stopLoading ==
  /\ fades' = fades \cup ({overlay.id} \ {0})
  /\ UNCHANGED <<overlay, shows>>

Removed_byTag(id) == NoOverlay

Removed(id) == IF overlay.id = id THEN NoOverlay ELSE overlay

FadeDone(id) ==
  /\ id \in fades
  /\ fades' = fades \ {id}
  /\ overlay' = Removed(id)
  /\ UNCHANGED <<screenVars, load, shows, missed>>
-----------------------------------------------------------------------------
(* loadFromUrl:, with the overlay if s was opened with loading. *)
loadFromUrl(s) ==
  /\ load' = [load EXCEPT ![s] = "loading"]
  /\ missed' = missed \ {s}
  /\ IF s \in Inject THEN showLoading(s) ELSE UNCHANGED overlayVars

(* viewDidLoad of a new screen registers the protocol class.               *)
viewDidLoad(s) == registered \/ s \in Inject

(* viewWillDisappear of t, where r says whether the class was registered,  *)
(* and viewWillAppear of s.                                                *)
Unregister_never(t, r) == r

Unregister(t, r) == r /\ t \notin Inject

Receivers_add(t, s) == receiver \cup {s}

Receivers(t, s) == (receiver \ {t}) \cup {s}

Transition(t, s, r) ==
  /\ receiver' = Receivers(t, s)
  /\ registered' = Unregister(t, r)

(* Screens that go are deallocated: their names stand for new ones then.   *)
Dealloc(ss) ==
  /\ load' = [s \in Screen |-> IF s \in ss THEN "none" ELSE load[s]]
  /\ missed' = missed \ ss
  /\ UNCHANGED overlayVars
-----------------------------------------------------------------------------
(* The commands that change screens, from the top screen. *)
Commanding == ~swiping /\ Top \in receiver

(* goto:, magicGoto: and gotoWithLoading: push a new screen. *)
push(s) ==
  /\ Commanding /\ load[s] = "none"
  /\ loadFromUrl(s)
  /\ navs' = [navs EXCEPT ![Len(navs)] = Append(@, s)]
  /\ Transition(Top, s, viewDidLoad(s))
  /\ UNCHANGED swiping

(* The cancel item that present: sends the new screen is lost: it is not   *)
(* the receiver yet.                                                       *)
present(s) ==
  /\ Commanding /\ load[s] = "none"
  /\ s \in Page
  /\ loadFromUrl(s)
  /\ navs' = Append(navs, <<s>>)
  /\ Transition(Top, s, viewDidLoad(s))
  /\ UNCHANGED swiping

(* back, the back button of the bar, and a shake. *)
back ==
  /\ Commanding /\ Len(Stack) > 1
  /\ navs' = [navs EXCEPT ![Len(navs)] = Front(@)]
  /\ Transition(Top, Below, registered)
  /\ Dealloc({Top})
  /\ UNCHANGED swiping

rootBack ==
  /\ Commanding /\ Len(Stack) > 1
  /\ navs' = [navs EXCEPT ![Len(navs)] = <<Head(@)>>]
  /\ Transition(Top, Head(Stack), registered)
  /\ Dealloc(Range(Tail(Stack)))
  /\ UNCHANGED swiping

dismiss ==
  /\ Commanding /\ Len(navs) > 1
  /\ navs' = Front(navs)
  /\ Transition(Top, Last(Last(navs')), registered)
  /\ Dealloc(Range(Stack))
  /\ UNCHANGED swiping
-----------------------------------------------------------------------------
(* The swipe back and its two ends. *)
swipe ==
  /\ ~swiping /\ Len(Stack) > 1
  /\ swiping' = TRUE
  /\ Transition(Top, Below, registered)
  /\ UNCHANGED <<navs, load, overlayVars, missed>>

swipeEnds ==
  /\ swiping /\ swiping' = FALSE
  /\ navs' = [navs EXCEPT ![Len(navs)] = Front(@)]
  /\ Dealloc({Top})
  /\ UNCHANGED <<receiver, registered>>

swipeCancelled ==
  /\ swiping /\ swiping' = FALSE
  /\ Transition(Below, Top, registered)
  /\ UNCHANGED <<navs, load, overlayVars, missed>>
-----------------------------------------------------------------------------
(* The other commands, which a screen obeys while it is the receiver. *)
Gets(s) == s \in Shown \cap receiver

(* load: and refresh. *)
refresh(s) ==
  /\ Gets(s) /\ loadFromUrl(s)
  /\ UNCHANGED screenVars

showLoadingCommand(s) ==
  /\ Gets(s) /\ showLoading(Command)
  /\ UNCHANGED <<screenVars, load, missed>>

stopLoadingCommand(s) ==
  /\ Gets(s) /\ stopLoading
  /\ UNCHANGED <<screenVars, load, missed>>
-----------------------------------------------------------------------------
(* The end of a page's load, or its failure: the web view sends            *)
(* webViewDidFinishLoad to its screen, if it is still the receiver.        *)
Ends(s) ==
  /\ s \in Shown /\ load[s] = "loading"
  /\ load' = [load EXCEPT ![s] = "done"]
  /\ UNCHANGED screenVars

Hears(s) ==
  IF s \in receiver THEN stopLoading /\ UNCHANGED missed
  ELSE missed' = missed \cup {s} /\ UNCHANGED overlayVars

webViewDidFinishLoad(s) == Ends(s) /\ Hears(s)

didFailLoad_uiOnly(s) == Ends(s) /\ UNCHANGED <<missed, overlayVars>>

(* The page of the failure is a ui, which is left out. *)
didFailLoad(s) == Ends(s) /\ Hears(s)
-----------------------------------------------------------------------------
Navigate ==
  \/ \E s \in Screen : push(s) \/ present(s)
  \/ back \/ rootBack \/ dismiss
  \/ swipe \/ swipeEnds \/ swipeCancelled

on(s) == refresh(s) \/ showLoadingCommand(s) \/ stopLoadingCommand(s)

Next ==
  \/ Navigate
  \/ \E s \in Screen : on(s) \/ webViewDidFinishLoad(s) \/ didFailLoad(s)
  \/ \E id \in fades : FadeDone(id)

Spec == Init /\ [][Next]_vars
-----------------------------------------------------------------------------
(* The variables have the right types, the stacks are not empty, and the   *)
(* screens that are not in a stack are those that do not load.             *)
TypeOK ==
  /\ navs \in Seq(Seq(Screen) \ {<< >>}) \ {<< >>}
  /\ load \in [Screen -> {"none", "loading", "done"}]
  /\ Shown = {s \in Screen : load[s] # "none"}
  /\ swiping \in BOOLEAN /\ (swiping => Len(Stack) > 1)
  /\ receiver \cup missed \subseteq Screen
  /\ overlay \in [id : 0 .. MaxShows, by : Screen \cup {Command}]
  /\ fades \subseteq 1 .. MaxShows /\ shows \in 0 .. MaxShows
  /\ registered \in BOOLEAN

(* Exactly one screen gets messages, the one on top or the one a swipe is  *)
(* uncovering: a page that is covered cannot change what its successor     *)
(* shows, and the page on top is never deaf.                               *)
OneReceiver == receiver = {IF swiping THEN Below ELSE Top}

(* Only while a page that was opened for it is on top do the requests of   *)
(* the application go through HeroProviderURLProtocol.                     *)
ProxyOnlyForInjected == registered => Top \in Inject /\ ~swiping

(* The overlay a page's load brought up is gone or going once the load has *)
(* ended, unless its screen was covered at that moment.                    *)
OverlayEndsWithLoad ==
  \A s \in Inject :
    overlay.by = s /\ load[s] = "done" => overlay.id \in fades \/ s \in missed

(* The fade of an earlier stopLoading never takes away the overlay that a  *)
(* later showLoading brought up: only one that was stopped goes.           *)
OnlyStoppedGoes ==
  [][overlay # NoOverlay /\ overlay' = NoOverlay => overlay.id \in fades]_vars
=============================================================================
