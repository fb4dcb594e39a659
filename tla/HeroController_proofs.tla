----------------------- MODULE HeroController_proofs -----------------------
(***************************************************************************)
(* What TLAPS proves of HeroController, for any pages and any number of    *)
(* overlays.                                                               *)
(***************************************************************************)
EXTENDS HeroController, SequenceTheorems, TLAPS

(* A stack has at least one screen, and while the top one is swiped away   *)
(* there is one below it.                                                  *)
Stacks == Seq(Screen) \ {<< >>}
StacksInv ==
  /\ navs \in Seq(Stacks) \ {<< >>}
  /\ swiping \in BOOLEAN
  /\ swiping => Len(Stack) > 1

(* The overlays that were shown have numbers, and the number 0 is no       *)
(* overlay, which nobody showed.                                           *)
OverlayInv ==
  /\ shows \in Nat
  /\ overlay.id \in Nat
  /\ overlay.id = 0 => overlay.by = Command

IInv ==
  /\ StacksInv
  /\ OneReceiver
  /\ ProxyOnlyForInjected
  /\ OverlayInv
  /\ OverlayEndsWithLoad
  /\ DOMAIN load = Screen
-----------------------------------------------------------------------------
(* The stack of the presented controller, and its top. *)
LEMMA StackType ==
  ASSUME StacksInv
  PROVE  /\ Len(navs) \in Nat \ {0}
         /\ Stack \in Stacks /\ Stack \in Seq(Screen)
         /\ Len(Stack) \in Nat \ {0}
         /\ Top = Stack[Len(Stack)] /\ Top \in Screen
<1>1. Len(navs) \in Nat \ {0}
  BY EmptySeq, LenProperties DEF StacksInv
<1>2. Stack \in Stacks
  BY <1>1, ElementOfSeq DEF StacksInv, Stack, Last
<1>3. Stack \in Seq(Screen) /\ Len(Stack) \in Nat \ {0}
  BY <1>2, EmptySeq, LenProperties DEF Stacks
<1>4. Top = Stack[Len(Stack)] /\ Top \in Screen
  BY <1>3, ElementOfSeq DEF Top, Last
<1>5. QED
  BY <1>1, <1>2, <1>3, <1>4

(* Replacing the last stack by another one.                                *)
LEMMA StackReplaced ==
  ASSUME StacksInv, NEW st \in Stacks, navs' = [navs EXCEPT ![Len(navs)] = st]
  PROVE  navs' \in Seq(Stacks) \ {<< >>} /\ Stack' = st
<1>1. Len(navs) \in Nat \ {0} /\ navs \in Seq(Stacks)
  BY StackType DEF StacksInv
<1>2. navs' \in Seq(Stacks) /\ Len(navs') = Len(navs) /\ navs'[Len(navs)] = st
  BY <1>1, ExceptSeq
<1>3. QED
  BY <1>1, <1>2, EmptySeq DEF Stack, Last

(* All but the last of a stack of several screens is a stack, and its top  *)
(* is the screen below.                                                    *)
LEMMA FrontOfStack ==
  ASSUME NEW S, NEW st \in Seq(S), Len(st) > 1
  PROVE  /\ Front(st) \in Seq(S) \ {<< >>}
         /\ Last(Front(st)) = st[Len(st) - 1]
<1>1. Len(st) \in Nat
  BY LenProperties
<1>2. Front(st) = SubSeq(st, 1, Len(st) - 1)
  BY DEF Front
<1>3. 1 \in 1 .. Len(st) + 1 /\ Len(st) - 1 \in 0 .. Len(st)
  BY <1>1
<1>4. /\ Front(st) \in Seq(S)
      /\ Len(Front(st)) = Len(st) - 1
      /\ Front(st)[Len(st) - 1] = st[Len(st) - 1]
  BY <1>1, <1>2, <1>3, SubSeqProperties
<1>5. QED
  BY <1>1, <1>4, EmptySeq DEF Last
-----------------------------------------------------------------------------
(* The stacks, the receiver and the registration: what each command that   *)
(* changes screens preserves.                                              *)
ScreensInv == StacksInv /\ OneReceiver /\ ProxyOnlyForInjected

LEMMA PushStep ==
  ASSUME ScreensInv, NEW s \in Screen, push(s)
  PROVE  ScreensInv'
<1>1. Append(Stack, s) \in Stacks /\ Last(Append(Stack, s)) = s
  BY StackType, AppendProperties DEF ScreensInv, Stacks, Last
<1>2. navs' \in Seq(Stacks) \ {<< >>} /\ Stack' = Append(Stack, s)
  <2>1. navs' = [navs EXCEPT ![Len(navs)] = Append(Stack, s)]
    BY DEF push, Stack, Last
  <2>2. QED
    BY <1>1, <2>1, StackReplaced DEF ScreensInv
<1>3. Top' = s /\ swiping' = FALSE
  BY <1>1, <1>2 DEF Top, push, Commanding, ScreensInv, StacksInv
<1>4. StacksInv'
  BY <1>2, <1>3 DEF StacksInv
<1>5. receiver = {Top} /\ receiver' = {s}
  BY DEF ScreensInv, OneReceiver, push, Commanding, Transition, Receivers
<1>6. OneReceiver'
  BY <1>3, <1>5 DEF OneReceiver
<1>7. ProxyOnlyForInjected'
  BY <1>3 DEF ProxyOnlyForInjected, ScreensInv, push, Transition, Unregister, viewDidLoad
<1>8. QED
  BY <1>4, <1>6, <1>7 DEF ScreensInv

LEMMA PresentStep ==
  ASSUME ScreensInv, NEW s \in Screen, present(s)
  PROVE  ScreensInv'
<1>1. <<s>> \in Stacks /\ Last(<<s>>) = s
  BY DEF Stacks, Last
<1>2. navs' \in Seq(Stacks) \ {<< >>} /\ Stack' = <<s>>
  <2>1. navs \in Seq(Stacks) /\ navs' = Append(navs, <<s>>)
    BY DEF ScreensInv, StacksInv, present
  <2>2. /\ navs' \in Seq(Stacks) \ {<< >>}
        /\ Len(navs') = Len(navs) + 1 /\ navs'[Len(navs) + 1] = <<s>>
    BY <1>1, <2>1, AppendProperties
  <2>3. QED
    BY <2>2 DEF Stack, Last
<1>3. Top' = s /\ swiping' = FALSE
  BY <1>1, <1>2 DEF Top, present, Commanding, ScreensInv, StacksInv
<1>4. StacksInv'
  BY <1>2, <1>3 DEF StacksInv
<1>5. receiver = {Top} /\ receiver' = {s}
  BY DEF ScreensInv, OneReceiver, present, Commanding, Transition, Receivers
<1>6. OneReceiver'
  BY <1>3, <1>5 DEF OneReceiver
<1>7. ProxyOnlyForInjected'
  BY <1>3 DEF ProxyOnlyForInjected, ScreensInv, present, Transition, Unregister, viewDidLoad
<1>8. QED
  BY <1>4, <1>6, <1>7 DEF ScreensInv

(* back, rootBack and dismiss leave a screen s on top and unregister the   *)
(* class if the old top had it registered.                                 *)
LEMMA UncoverStep ==
  ASSUME ScreensInv, ~swiping, swiping' = swiping,
         navs' \in Seq(Stacks) \ {<< >>},
         NEW s, Top' = s, Transition(Top, s, registered)
  PROVE  ScreensInv'
<1>1. StacksInv'
  BY DEF ScreensInv, StacksInv
<1>2. receiver' = {s}
  BY DEF ScreensInv, OneReceiver, Transition, Receivers
<1>3. registered' = FALSE
  BY DEF ScreensInv, ProxyOnlyForInjected, Transition, Unregister
<1>4. QED
  BY <1>1, <1>2, <1>3 DEF ScreensInv, OneReceiver, ProxyOnlyForInjected

LEMMA BackStep ==
  ASSUME ScreensInv, back
  PROVE  ScreensInv'
<1>1. Stack \in Seq(Screen) /\ Len(Stack) > 1
  BY StackType DEF ScreensInv, back
<1>2. Front(Stack) \in Stacks /\ Last(Front(Stack)) = Below
  BY <1>1, FrontOfStack DEF Stacks, Below
<1>3. navs' = [navs EXCEPT ![Len(navs)] = Front(Stack)]
  BY DEF back, Stack, Last
<1>4. navs' \in Seq(Stacks) \ {<< >>} /\ Stack' = Front(Stack)
  BY <1>2, <1>3, StackReplaced DEF ScreensInv
<1>5. Top' = Below
  BY <1>2, <1>4 DEF Top
<1>6. QED
  BY <1>4, <1>5, UncoverStep DEF back, Commanding

LEMMA RootBackStep ==
  ASSUME ScreensInv, rootBack
  PROVE  ScreensInv'
<1>1. Stack \in Seq(Screen) /\ Stack # << >>
  BY StackType, EmptySeq DEF ScreensInv, rootBack
<1>2. Head(Stack) \in Screen
  BY <1>1, HeadTailProperties
<1>3. <<Head(Stack)>> \in Stacks /\ Last(<<Head(Stack)>>) = Head(Stack)
  BY <1>2 DEF Stacks, Last
<1>4. navs' = [navs EXCEPT ![Len(navs)] = <<Head(Stack)>>]
  BY DEF rootBack, Stack, Last
<1>5. navs' \in Seq(Stacks) \ {<< >>} /\ Stack' = <<Head(Stack)>>
  BY <1>3, <1>4, StackReplaced DEF ScreensInv
<1>6. Top' = Head(Stack)
  BY <1>3, <1>5 DEF Top
<1>7. QED
  BY <1>5, <1>6, UncoverStep DEF rootBack, Commanding

LEMMA DismissStep ==
  ASSUME ScreensInv, dismiss
  PROVE  ScreensInv'
<1>1. navs \in Seq(Stacks) /\ Len(navs) > 1 /\ navs' = Front(navs)
  BY DEF ScreensInv, StacksInv, dismiss
<1>2. navs' \in Seq(Stacks) \ {<< >>}
  BY <1>1, FrontOfStack
<1>3. Top' = Last(Last(navs'))
  BY DEF Top, Stack
<1>4. QED
  BY <1>2, <1>3, UncoverStep DEF dismiss, Commanding

(* The swipe makes the screen below the receiver before it is on top; when *)
(* it is called off the top one is the receiver again.                     *)
LEMMA SwipeStep ==
  ASSUME ScreensInv, swipe \/ swipeEnds \/ swipeCancelled
  PROVE  ScreensInv'
<1>1. CASE swipe
  <2>1. navs' = navs /\ swiping' = TRUE /\ Len(Stack) > 1 /\ ~swiping
    BY <1>1 DEF swipe
  <2>2. Stack' = Stack /\ Below' = Below
    BY <2>1 DEF Stack, Below
  <2>3. StacksInv'
    BY <2>1, <2>2 DEF ScreensInv, StacksInv
  <2>4. receiver' = {Below} /\ registered' = FALSE
    BY <1>1 DEF ScreensInv, OneReceiver, ProxyOnlyForInjected, swipe, Transition,
                Receivers, Unregister
  <2>5. QED
    BY <2>1, <2>2, <2>3, <2>4 DEF ScreensInv, OneReceiver, ProxyOnlyForInjected
<1>2. CASE swipeEnds
  <2>1. Stack \in Seq(Screen) /\ Len(Stack) > 1
    BY <1>2, StackType DEF ScreensInv, StacksInv, swipeEnds
  <2>2. Front(Stack) \in Stacks /\ Last(Front(Stack)) = Below
    BY <2>1, FrontOfStack DEF Stacks, Below
  <2>3. navs' = [navs EXCEPT ![Len(navs)] = Front(Stack)]
    BY <1>2 DEF swipeEnds, Stack, Last
  <2>4. navs' \in Seq(Stacks) \ {<< >>} /\ Stack' = Front(Stack)
    BY <2>2, <2>3, StackReplaced DEF ScreensInv
  <2>5. Top' = Below
    BY <2>2, <2>4 DEF Top
  <2>6. swiping' = FALSE /\ receiver' = {Below} /\ registered' = FALSE
    BY <1>2 DEF ScreensInv, OneReceiver, ProxyOnlyForInjected, swipeEnds, StacksInv
  <2>7. QED
    BY <2>4, <2>5, <2>6 DEF ScreensInv, StacksInv, OneReceiver, ProxyOnlyForInjected
<1>3. CASE swipeCancelled
  <2>1. navs' = navs /\ swiping' = FALSE
    BY <1>3 DEF swipeCancelled
  <2>2. Top' = Top
    BY <2>1 DEF Top, Stack
  <2>3. receiver' = {Top} /\ registered' = FALSE
    BY <1>3 DEF ScreensInv, StacksInv, OneReceiver, ProxyOnlyForInjected, swipeCancelled,
                Transition, Receivers, Unregister
  <2>4. QED
    BY <2>1, <2>2, <2>3 DEF ScreensInv, StacksInv, OneReceiver, ProxyOnlyForInjected
<1>4. QED
  BY <1>1, <1>2, <1>3

(* Everything else leaves the screens alone. *)
LEMMA ScreensStep ==
  ASSUME ScreensInv, [Next]_vars
  PROVE  ScreensInv'
<1>1. CASE Navigate
  BY <1>1, PushStep, PresentStep, BackStep, RootBackStep, DismissStep, SwipeStep
  DEF Navigate
<1>2. CASE UNCHANGED screenVars
  BY <1>2 DEF ScreensInv, StacksInv, OneReceiver, ProxyOnlyForInjected, screenVars,
              Top, Below, Stack
<1>3. CASE ~Navigate
  <2>1. UNCHANGED screenVars
    BY <1>3 DEF Next, on, refresh, showLoadingCommand, stopLoadingCommand,
                webViewDidFinishLoad, didFailLoad, Ends, FadeDone, vars, screenVars
  <2>2. QED
    BY <2>1, <1>2
<1>4. QED
  BY <1>1, <1>3
-----------------------------------------------------------------------------
(* The overlay: its numbers, and whom it waits for. *)
LEMMA StopStep ==
  ASSUME OverlayInv, OverlayEndsWithLoad, stopLoading
  PROVE  OverlayInv' /\ fades \subseteq fades' /\ (overlay.id # 0 => overlay'.id \in fades')
BY DEF OverlayInv, stopLoading

LEMMA ShowStep ==
  ASSUME OverlayInv, NEW by, showLoading(by)
  PROVE  OverlayInv' /\ overlay'.id # 0 /\ overlay'.by = by
BY DEF OverlayInv, showLoading

(* A load that begins: of the screens with loading only s can have shown   *)
(* the new overlay, and it is not done.                                    *)
LEMMA LoadStep ==
  ASSUME OverlayInv, OverlayEndsWithLoad, NEW s \in Screen, loadFromUrl(s),
         DOMAIN load = Screen
  PROVE  OverlayInv' /\ OverlayEndsWithLoad'
<1>1. /\ load' = [load EXCEPT ![s] = "loading"]
      /\ missed' = missed \ {s}
  BY DEF loadFromUrl
<1>2. CASE s \in Inject
  <2>1. showLoading(s)
    BY <1>2 DEF loadFromUrl
  <2>2. OverlayInv' /\ overlay'.by = s
    BY <2>1, ShowStep
  <2>3. load'[s] = "loading"
    BY <1>1
  <2>4. QED
    BY <2>2, <2>3 DEF OverlayEndsWithLoad
<1>3. CASE s \notin Inject
  <2>1. UNCHANGED overlayVars
    BY <1>3 DEF loadFromUrl
  <2>2. OverlayInv'
    BY <2>1 DEF OverlayInv, overlayVars
  <2>3. \A t \in Inject : load'[t] = load[t] /\ (t \in missed => t \in missed')
    BY <1>1, <1>3 DEF Screen
  <2>4. QED
    BY <2>1, <2>2, <2>3 DEF OverlayEndsWithLoad, overlayVars
<1>4. QED
  BY <1>2, <1>3

(* Screens that go are not done with a load. *)
LEMMA DeallocStep ==
  ASSUME OverlayInv, OverlayEndsWithLoad, NEW ss, Dealloc(ss)
  PROVE  OverlayInv' /\ OverlayEndsWithLoad'
<1>1. UNCHANGED overlayVars /\ OverlayInv'
  BY DEF Dealloc, OverlayInv, overlayVars
<1>2. ASSUME NEW t \in Inject, overlay'.by = t, load'[t] = "done"
      PROVE  overlay'.id \in fades' \/ t \in missed'
  <2>1. t \in Screen
    BY DEF Screen
  <2>2. t \notin ss /\ load[t] = "done"
    BY <1>2, <2>1 DEF Dealloc
  <2>3. overlay.id \in fades \/ t \in missed
    BY <1>1, <1>2, <2>2 DEF OverlayEndsWithLoad, overlayVars
  <2>4. QED
    BY <1>1, <2>2, <2>3 DEF Dealloc, overlayVars
<1>3. QED
  BY <1>1, <1>2 DEF OverlayEndsWithLoad

(* The end of a load, heard or missed. *)
LEMMA EndStep ==
  ASSUME OverlayInv, OverlayEndsWithLoad, NEW s \in Screen, Ends(s), Hears(s),
         DOMAIN load = Screen
  PROVE  OverlayInv' /\ OverlayEndsWithLoad'
<1>1. load' = [load EXCEPT ![s] = "done"]
  BY DEF Ends
<1>2. CASE s \in receiver
  <2>1. stopLoading /\ missed' = missed /\ overlay' = overlay
    BY <1>2 DEF Hears, stopLoading
  <2>2. OverlayInv' /\ (overlay.id # 0 => overlay'.id \in fades')
    BY <2>1, StopStep
  <2>3. ASSUME NEW t \in Inject, overlay'.by = t
        PROVE  overlay'.id \in fades'
    BY <2>1, <2>2, <2>3, CommandAssumption DEF OverlayInv
  <2>4. QED
    BY <2>2, <2>3 DEF OverlayEndsWithLoad
<1>3. CASE s \notin receiver
  <2>1. missed' = missed \cup {s} /\ UNCHANGED overlayVars
    BY <1>3 DEF Hears
  <2>2. OverlayInv'
    BY <2>1 DEF OverlayInv, overlayVars
  <2>3. \A t \in Inject \ {s} : load'[t] = load[t]
    BY <1>1 DEF Screen
  <2>4. QED
    BY <2>1, <2>2, <2>3 DEF OverlayEndsWithLoad, overlayVars
<1>4. QED
  BY <1>2, <1>3

(* The end of a fade takes away only the overlay it began with. *)
LEMMA FadeStep ==
  ASSUME OverlayInv, OverlayEndsWithLoad, NEW id \in fades, FadeDone(id)
  PROVE  OverlayInv' /\ OverlayEndsWithLoad'
<1>1. /\ fades' = fades \ {id} /\ shows' = shows /\ load' = load /\ missed' = missed
      /\ overlay' = IF overlay.id = id THEN NoOverlay ELSE overlay
  BY DEF FadeDone, Removed
<1>2. CASE overlay.id = id
  BY <1>1, <1>2, CommandAssumption DEF OverlayInv, OverlayEndsWithLoad, NoOverlay
<1>3. CASE overlay.id # id
  BY <1>1, <1>3 DEF OverlayInv, OverlayEndsWithLoad
<1>4. QED
  BY <1>2, <1>3

LEMMA LoadType ==
  ASSUME DOMAIN load = Screen, [Next]_vars
  PROVE  DOMAIN load' = Screen
BY DEF Next, vars, Navigate, push, present, back, rootBack, dismiss, swipe, swipeEnds,
       swipeCancelled, on, refresh, showLoadingCommand, stopLoadingCommand,
       webViewDidFinishLoad, didFailLoad, Ends, FadeDone, loadFromUrl, Dealloc

LEMMA OverlayStep ==
  ASSUME OverlayInv, OverlayEndsWithLoad, DOMAIN load = Screen, [Next]_vars
  PROVE  OverlayInv' /\ OverlayEndsWithLoad'
<1>1. ASSUME NEW s \in Screen, push(s) \/ present(s) \/ refresh(s)
      PROVE  OverlayInv' /\ OverlayEndsWithLoad'
  BY <1>1, LoadStep DEF push, present, refresh
<1>2. CASE back \/ rootBack \/ dismiss \/ swipeEnds
  BY <1>2, DeallocStep DEF back, rootBack, dismiss, swipeEnds
<1>3. CASE UNCHANGED <<load, overlayVars, missed>>
  BY <1>3 DEF OverlayInv, OverlayEndsWithLoad, overlayVars
<1>4. CASE swipe \/ swipeCancelled
  BY <1>3, <1>4 DEF swipe, swipeCancelled
<1>5. ASSUME NEW s \in Screen, showLoadingCommand(s)
      PROVE  OverlayInv' /\ OverlayEndsWithLoad'
  BY <1>5, ShowStep, CommandAssumption DEF showLoadingCommand, OverlayEndsWithLoad
<1>6. ASSUME NEW s \in Screen, stopLoadingCommand(s)
      PROVE  OverlayInv' /\ OverlayEndsWithLoad'
  BY <1>6, StopStep DEF stopLoadingCommand, stopLoading, OverlayEndsWithLoad
<1>7. ASSUME NEW s \in Screen, webViewDidFinishLoad(s) \/ didFailLoad(s)
      PROVE  OverlayInv' /\ OverlayEndsWithLoad'
  BY <1>7, EndStep DEF webViewDidFinishLoad, didFailLoad
<1>8. ASSUME NEW id \in fades, FadeDone(id)
      PROVE  OverlayInv' /\ OverlayEndsWithLoad'
  BY <1>8, FadeStep
<1>9. CASE UNCHANGED vars
  BY <1>3, <1>9 DEF vars
<1>10. QED
  BY <1>1, <1>2, <1>4, <1>5, <1>6, <1>7, <1>8, <1>9 DEF Next, Navigate, on
-----------------------------------------------------------------------------
(* Where a screen is: the m-th of the k-th stack.  No screen is in two     *)
(* places, and those that are in one are those that load or have loaded.   *)
Placed(k, m, s) == k \in DOMAIN navs /\ m \in DOMAIN navs[k] /\ navs[k][m] = s

PlacedOnce ==
  \A s \in Screen : \A a, b, m, n :
    Placed(a, m, s) /\ Placed(b, n, s) => a = b /\ m = n

LoadInv ==
  /\ load \in [Screen -> {"none", "loading", "done"}]
  /\ Shown = {s \in Screen : load[s] # "none"}
  /\ PlacedOnce

(* The places of the stack on top. *)
LEMMA TopPlaces ==
  ASSUME StacksInv
  PROVE  /\ Len(navs) \in DOMAIN navs /\ DOMAIN navs = 1 .. Len(navs)
         /\ navs[Len(navs)] = Stack /\ DOMAIN Stack = 1 .. Len(Stack)
         /\ \A m, s : Placed(Len(navs), m, s) <=> m \in 1 .. Len(Stack) /\ Stack[m] = s
<1>1. Len(navs) \in Nat \ {0} /\ Len(Stack) \in Nat \ {0} /\ Stack \in Seq(Screen)
  BY StackType
<1>2. DOMAIN navs = 1 .. Len(navs) /\ DOMAIN Stack = 1 .. Len(Stack)
  BY <1>1, LenProperties DEF StacksInv
<1>3. navs[Len(navs)] = Stack
  BY DEF Stack, Last
<1>4. QED
  BY <1>1, <1>2, <1>3 DEF Placed

(* Every place holds a screen. *)
LEMMA PlacedScreen ==
  ASSUME StacksInv, NEW k, NEW m, NEW s, Placed(k, m, s)
  PROVE  s \in Screen
<1>1. navs[k] \in Seq(Screen)
  BY ElementOfSeq, LenProperties DEF StacksInv, Stacks, Placed
<1>2. QED
  BY <1>1, ElementOfSeq, LenProperties DEF Placed

LEMMA ShownPlaced ==
  \A s : s \in Shown <=> \E k, m : Placed(k, m, s)
BY DEF Shown, Range, Placed

(* A screen that begins to load gets a place that no screen had. *)
LEMMA Grow ==
  ASSUME StacksInv, LoadInv, NEW s \in Screen, load[s] = "none",
         load' = [load EXCEPT ![s] = "loading"],
         NEW k0, NEW m0,
         \A k, m, t : Placed(k, m, t)' <=> Placed(k, m, t) \/ (k = k0 /\ m = m0 /\ t = s)
  PROVE  LoadInv'
<1>1. load' \in [Screen -> {"none", "loading", "done"}]
  BY DEF LoadInv
<1>2. \A k, m : ~Placed(k, m, s)
  BY ShownPlaced DEF LoadInv
<1>3. \A t : t \in Shown' <=> t \in Shown \/ t = s
  <2>1. \A t : t \in Shown' <=> \E k, m : Placed(k, m, t)'
    BY DEF Shown, Range, Placed
  <2>2. QED
    BY <2>1, ShownPlaced
<1>4. Shown' = {t \in Screen : load'[t] # "none"}
  BY <1>3 DEF LoadInv
<1>5. PlacedOnce'
  <2> SUFFICES ASSUME NEW t \in Screen, NEW a, NEW b, NEW m, NEW n,
                      Placed(a, m, t)', Placed(b, n, t)'
               PROVE  a = b /\ m = n
    BY DEF PlacedOnce
  <2>1. CASE t = s
    BY <1>2, <2>1
  <2>2. CASE t # s
    BY <2>2 DEF LoadInv, PlacedOnce
  <2>3. QED
    BY <2>1, <2>2
<1>6. QED
  BY <1>1, <1>4, <1>5 DEF LoadInv

(* Screens that go leave all their places. *)
LEMMA Shrink ==
  ASSUME StacksInv, LoadInv, NEW ss, Dealloc(ss),
         \A k, m, t : Placed(k, m, t)' <=> Placed(k, m, t) /\ t \notin ss
  PROVE  LoadInv'
<1>1. load' = [t \in Screen |-> IF t \in ss THEN "none" ELSE load[t]]
  BY DEF Dealloc
<1>2. load' \in [Screen -> {"none", "loading", "done"}]
  BY <1>1 DEF LoadInv
<1>3. \A t : t \in Shown' <=> t \in Shown /\ t \notin ss
  <2>1. \A t : t \in Shown' <=> \E k, m : Placed(k, m, t)'
    BY DEF Shown, Range, Placed
  <2>2. QED
    BY <2>1, ShownPlaced
<1>4. Shown' = {t \in Screen : load'[t] # "none"}
  BY <1>1, <1>3 DEF LoadInv
<1>5. PlacedOnce'
  BY DEF LoadInv, PlacedOnce
<1>6. QED
  BY <1>2, <1>4, <1>5 DEF LoadInv

(* The stack on top is replaced by one that keeps the first places. *)
LEMMA TopReplaced ==
  ASSUME StacksInv, NEW st, navs' = [navs EXCEPT ![Len(navs)] = st]
  PROVE  \A k, m, t :
           Placed(k, m, t)' <=> \/ k # Len(navs) /\ Placed(k, m, t)
                                \/ k = Len(navs) /\ m \in DOMAIN st /\ st[m] = t
<1>1. Len(navs) \in DOMAIN navs
  BY TopPlaces
<1>2. QED
  BY <1>1 DEF Placed

LEMMA PushLoads ==
  ASSUME StacksInv, LoadInv, NEW s \in Screen, push(s)
  PROVE  LoadInv'
<1> DEFINE st == Append(Stack, s)
<1>1. Stack \in Seq(Screen) /\ Len(Stack) \in Nat \ {0}
  BY StackType
<1>2. /\ DOMAIN st = 1 .. Len(Stack) + 1
      /\ st[Len(Stack) + 1] = s
      /\ \A m \in 1 .. Len(Stack) : st[m] = Stack[m]
  BY <1>1, AppendProperties, LenProperties
<1>3. navs' = [navs EXCEPT ![Len(navs)] = st]
  BY DEF push, Stack, Last
<1> HIDE DEF st
<1>4. \A m, t : m \in DOMAIN st /\ st[m] = t
               <=> (m \in 1 .. Len(Stack) /\ Stack[m] = t) \/ (m = Len(Stack) + 1 /\ t = s)
  BY <1>1, <1>2
<1>5. \A k, m, t : Placed(k, m, t)' <=> \/ k # Len(navs) /\ Placed(k, m, t)
                                        \/ k = Len(navs) /\ m \in DOMAIN st /\ st[m] = t
  BY <1>3, TopReplaced
<1>6. \A k, m, t : Placed(k, m, t)' <=> \/ Placed(k, m, t)
                                        \/ k = Len(navs) /\ m = Len(Stack) + 1 /\ t = s
  BY <1>4, <1>5, TopPlaces
<1>7. load[s] = "none" /\ load' = [load EXCEPT ![s] = "loading"]
  BY DEF push, loadFromUrl
<1>8. QED
  BY <1>6, <1>7, Grow

LEMMA PresentLoads ==
  ASSUME StacksInv, LoadInv, NEW s \in Screen, present(s)
  PROVE  LoadInv'
<1>1. navs \in Seq(Stacks) /\ navs' = Append(navs, <<s>>) /\ <<s>> \in Stacks
  BY DEF StacksInv, present, Stacks
<1>2. Len(navs) \in Nat /\ DOMAIN navs = 1 .. Len(navs)
  BY <1>1, LenProperties
<1>3. /\ DOMAIN navs' = 1 .. Len(navs) + 1
      /\ navs'[Len(navs) + 1] = <<s>>
      /\ \A k \in 1 .. Len(navs) : navs'[k] = navs[k]
  BY <1>1, <1>2, AppendProperties, LenProperties
<1>4. DOMAIN <<s>> = {1} /\ <<s>>[1] = s
  OBVIOUS
<1>5. \A k, m, t : Placed(k, m, t)' <=> \/ Placed(k, m, t)
                                        \/ k = Len(navs) + 1 /\ m = 1 /\ t = s
  BY <1>2, <1>3, <1>4 DEF Placed
<1>6. load[s] = "none" /\ load' = [load EXCEPT ![s] = "loading"]
  BY DEF present, loadFromUrl
<1>7. QED
  BY <1>5, <1>6, Grow

(* The screen on top goes, by the button or by the swipe. *)
LEMMA PopLoads ==
  ASSUME StacksInv, LoadInv, Len(Stack) > 1,
         navs' = [navs EXCEPT ![Len(navs)] = Front(Stack)], Dealloc({Top})
  PROVE  LoadInv'
<1> DEFINE st == Front(Stack)
<1>1. Stack \in Seq(Screen) /\ Len(Stack) \in Nat \ {0} /\ Top = Stack[Len(Stack)]
  BY StackType
<1>2. DOMAIN st = 1 .. Len(Stack) - 1 /\ \A m \in DOMAIN st : st[m] = Stack[m]
  <2>1. st = SubSeq(Stack, 1, Len(Stack) - 1)
    BY DEF Front
  <2>2. 1 \in 1 .. Len(Stack) + 1 /\ Len(Stack) - 1 \in 0 .. Len(Stack)
    BY <1>1
  <2>3. st \in Seq(Screen) /\ Len(st) = Len(Stack) - 1
        /\ \A m \in 1 .. Len(Stack) - 1 : st[m] = Stack[1 + m - 1]
    BY <1>1, <2>1, <2>2, SubSeqProperties
  <2>4. DOMAIN st = 1 .. Len(Stack) - 1
    BY <2>3, LenProperties
  <2> HIDE DEF st
  <2>5. QED
    BY <1>1, <2>3, <2>4
<1>3. \A k, m, t : Placed(k, m, t)' <=> \/ k # Len(navs) /\ Placed(k, m, t)
                                        \/ k = Len(navs) /\ m \in DOMAIN st /\ st[m] = t
  BY TopReplaced
<1> HIDE DEF st
<1>4. Placed(Len(navs), Len(Stack), Top) /\ Top \in Screen
  BY <1>1, TopPlaces, PlacedScreen
<1>5. \A k, m : Placed(k, m, Top) => k = Len(navs) /\ m = Len(Stack)
  BY <1>4 DEF LoadInv, PlacedOnce
<1>6. \A m, t : m \in DOMAIN st /\ st[m] = t
               <=> Placed(Len(navs), m, t) /\ m # Len(Stack)
  BY <1>1, <1>2, TopPlaces
<1>7. \A m, t : Placed(Len(navs), m, t) => (m # Len(Stack) <=> t # Top)
  BY <1>1, <1>5, TopPlaces
<1>8. \A k, m, t : Placed(k, m, t)' <=> Placed(k, m, t) /\ t \notin {Top}
  BY <1>3, <1>5, <1>6, <1>7
<1>9. QED
  BY <1>8, Shrink

LEMMA RootBackLoads ==
  ASSUME StacksInv, LoadInv, rootBack
  PROVE  LoadInv'
<1> DEFINE st == <<Head(Stack)>>
           gone == Range(Tail(Stack))
<1>1. Stack \in Seq(Screen) /\ Stack # << >> /\ Len(Stack) \in Nat \ {0}
  BY StackType, EmptySeq
<1>2. DOMAIN st = {1} /\ st[1] = Stack[1] /\ Head(Stack) = Stack[1]
  BY <1>1
<1>3. navs' = [navs EXCEPT ![Len(navs)] = st]
  BY DEF rootBack, Stack, Last
<1>4. \A t : t \in gone <=> \E m \in 2 .. Len(Stack) : Stack[m] = t
  <2>1. /\ Tail(Stack) \in Seq(Screen) /\ Len(Tail(Stack)) = Len(Stack) - 1
        /\ \A m \in 1 .. Len(Tail(Stack)) : Tail(Stack)[m] = Stack[m + 1]
    BY <1>1, HeadTailProperties
  <2>2. DOMAIN Tail(Stack) = 1 .. Len(Stack) - 1
    BY <2>1, LenProperties
  <2>3. \A t : t \in gone <=> \E m \in 1 .. Len(Stack) - 1 : Tail(Stack)[m] = t
    BY <2>2 DEF Range
  <2>4. \A t : t \in gone <=> \E m \in 1 .. Len(Stack) - 1 : Stack[m + 1] = t
    BY <2>1, <2>3
  <2>5. \A t : (\E m \in 1 .. Len(Stack) - 1 : Stack[m + 1] = t)
              <=> \E m \in 2 .. Len(Stack) : Stack[m] = t
    <3> TAKE t
    <3>1. ASSUME NEW m \in 1 .. Len(Stack) - 1, Stack[m + 1] = t
          PROVE  m + 1 \in 2 .. Len(Stack)
      BY <1>1
    <3>2. ASSUME NEW m \in 2 .. Len(Stack), Stack[m] = t
          PROVE  m - 1 \in 1 .. Len(Stack) - 1 /\ Stack[(m - 1) + 1] = t
      BY <1>1, <3>2
    <3>3. QED
      BY <3>1, <3>2
  <2>6. QED
    BY <2>4, <2>5
<1> HIDE DEF st, gone
<1>5. \A k, m, t : Placed(k, m, t)' <=> \/ k # Len(navs) /\ Placed(k, m, t)
                                        \/ k = Len(navs) /\ m \in DOMAIN st /\ st[m] = t
  BY <1>3, TopReplaced
<1>6. \A m, t : m \in DOMAIN st /\ st[m] = t <=> Placed(Len(navs), m, t) /\ m = 1
  BY <1>1, <1>2, TopPlaces
<1>7. \A t : t \in gone <=> \E m : Placed(Len(navs), m, t) /\ m # 1
  <2>1. \A m, t : Placed(Len(navs), m, t) <=> m \in 1 .. Len(Stack) /\ Stack[m] = t
    BY TopPlaces
  <2>2. \A m : m \in 2 .. Len(Stack) <=> m \in 1 .. Len(Stack) /\ m # 1
    BY <1>1
  <2>3. QED
    BY <1>4, <2>1, <2>2
<1>8. ASSUME NEW k, NEW m, NEW t, Placed(k, m, t)
      PROVE  t \notin gone <=> k # Len(navs) \/ m = 1
  <2>1. \A n : Placed(Len(navs), n, t) => k = Len(navs) /\ m = n
    BY <1>8, PlacedScreen DEF LoadInv, PlacedOnce
  <2>2. QED
    BY <1>7, <1>8, <2>1
<1>9. \A k, m, t : Placed(k, m, t)' <=> Placed(k, m, t) /\ t \notin gone
  BY <1>5, <1>6, <1>8
<1>10. Dealloc(gone)
  BY DEF rootBack, gone
<1>11. QED
  BY <1>9, <1>10, Shrink

LEMMA DismissLoads ==
  ASSUME StacksInv, LoadInv, dismiss
  PROVE  LoadInv'
<1> DEFINE gone == Range(Stack)
<1>1. navs \in Seq(Stacks) /\ Len(navs) > 1 /\ navs' = Front(navs) /\ Len(navs) \in Nat
  BY LenProperties DEF StacksInv, dismiss
<1>2. DOMAIN navs' = 1 .. Len(navs) - 1 /\ \A k \in 1 .. Len(navs) - 1 : navs'[k] = navs[k]
  <2>1. navs' = SubSeq(navs, 1, Len(navs) - 1)
    BY <1>1 DEF Front
  <2>2. 1 \in 1 .. Len(navs) + 1 /\ Len(navs) - 1 \in 0 .. Len(navs)
    BY <1>1
  <2>3. navs' \in Seq(Stacks) /\ Len(navs') = Len(navs) - 1
        /\ \A k \in 1 .. Len(navs) - 1 : navs'[k] = navs[1 + k - 1]
    BY <1>1, <2>1, <2>2, SubSeqProperties
  <2>4. DOMAIN navs' = 1 .. Len(navs) - 1
    BY <2>3, LenProperties
  <2>5. QED
    BY <1>1, <2>3, <2>4
<1>3. \A k : k \in DOMAIN navs' <=> k \in DOMAIN navs /\ k # Len(navs)
  BY <1>1, <1>2, TopPlaces
<1>4. \A k, m, t : Placed(k, m, t)' <=> Placed(k, m, t) /\ k # Len(navs)
  BY <1>2, <1>3 DEF Placed
<1>5. \A t : t \in gone <=> \E m : Placed(Len(navs), m, t)
  BY TopPlaces DEF Range
<1> HIDE DEF gone
<1>6. ASSUME NEW k, NEW m, NEW t, Placed(k, m, t)
      PROVE  t \notin gone <=> k # Len(navs)
  <2>1. \A n : Placed(Len(navs), n, t) => k = Len(navs)
    BY <1>6, PlacedScreen DEF LoadInv, PlacedOnce
  <2>2. QED
    BY <1>5, <1>6, <2>1
<1>7. \A k, m, t : Placed(k, m, t)' <=> Placed(k, m, t) /\ t \notin gone
  BY <1>4, <1>6
<1>8. Dealloc(gone)
  BY DEF dismiss, gone
<1>9. QED
  BY <1>7, <1>8, Shrink

(* A screen that is shown and loads again, or ends its load, is still      *)
(* shown.                                                                  *)
LEMMA ReloadLoads ==
  ASSUME StacksInv, LoadInv, navs' = navs, NEW s \in Shown, NEW l \in {"loading", "done"},
         load' = [load EXCEPT ![s] = l]
  PROVE  LoadInv'
<1>1. s \in Screen /\ load[s] # "none"
  BY DEF LoadInv
<1>2. load' \in [Screen -> {"none", "loading", "done"}]
  BY DEF LoadInv
<1>3. Shown' = Shown
  BY DEF Shown
<1>4. \A t \in Screen : load'[t] # "none" <=> load[t] # "none"
  BY <1>1 DEF LoadInv
<1>5. PlacedOnce'
  BY DEF LoadInv, PlacedOnce, Placed
<1>6. QED
  BY <1>2, <1>3, <1>4, <1>5 DEF LoadInv

LEMMA StepLoads ==
  ASSUME StacksInv, LoadInv, [Next]_vars
  PROVE  LoadInv'
<1>1. CASE UNCHANGED <<navs, load>>
  BY <1>1 DEF LoadInv, PlacedOnce, Placed, Shown
<1>2. ASSUME NEW s \in Screen, push(s) \/ present(s)
      PROVE  LoadInv'
  BY <1>2, PushLoads, PresentLoads
<1>3. CASE back \/ swipeEnds
  <2>1. Len(Stack) > 1 /\ navs' = [navs EXCEPT ![Len(navs)] = Front(Stack)] /\ Dealloc({Top})
    BY <1>3 DEF back, swipeEnds, StacksInv, Stack, Last
  <2>2. QED
    BY <2>1, PopLoads
<1>4. CASE rootBack \/ dismiss
  BY <1>4, RootBackLoads, DismissLoads
<1>5. CASE swipe \/ swipeCancelled
  BY <1>1, <1>5 DEF swipe, swipeCancelled
<1>6. ASSUME NEW s \in Screen, on(s)
      PROVE  LoadInv'
  <2>1. CASE refresh(s)
    <3>1. navs' = navs /\ s \in Shown /\ load' = [load EXCEPT ![s] = "loading"]
      BY <2>1 DEF refresh, Gets, loadFromUrl, screenVars
    <3>2. QED
      BY <3>1, ReloadLoads
  <2>2. CASE showLoadingCommand(s) \/ stopLoadingCommand(s)
    BY <1>1, <2>2 DEF showLoadingCommand, stopLoadingCommand, screenVars
  <2>3. QED
    BY <1>6, <2>1, <2>2 DEF on
<1>7. ASSUME NEW s \in Screen, webViewDidFinishLoad(s) \/ didFailLoad(s)
      PROVE  LoadInv'
  <2>1. navs' = navs /\ s \in Shown /\ load' = [load EXCEPT ![s] = "done"]
    BY <1>7 DEF webViewDidFinishLoad, didFailLoad, Ends, screenVars
  <2>2. QED
    BY <2>1, ReloadLoads
<1>8. CASE (\E id \in fades : FadeDone(id)) \/ UNCHANGED vars
  BY <1>1, <1>8 DEF FadeDone, vars, screenVars
<1>9. QED
  BY <1>2, <1>3, <1>4, <1>5, <1>6, <1>7, <1>8 DEF Next, Navigate
-----------------------------------------------------------------------------
(* The numbers of the overlays are within their bound, and what has missed *)
(* the end of a load is a screen.                                          *)
NumberInv ==
  /\ shows \in 0 .. MaxShows
  /\ overlay \in [id : 0 .. MaxShows, by : Screen \cup {Command}]
  /\ fades \subseteq 1 .. MaxShows
  /\ missed \subseteq Screen
  /\ registered \in BOOLEAN

LEMMA ShowNumber ==
  ASSUME NumberInv, NEW by \in Screen \cup {Command}, showLoading(by)
  PROVE  /\ shows' \in 0 .. MaxShows
         /\ overlay' \in [id : 0 .. MaxShows, by : Screen \cup {Command}]
         /\ fades' \subseteq 1 .. MaxShows
<1>1. shows' = shows + 1 /\ shows < MaxShows /\ shows' \in 0 .. MaxShows
  BY ShowsAssumption DEF NumberInv, showLoading
<1>2. overlay' = [id |-> shows', by |-> by] /\ fades' = fades
  BY <1>1 DEF showLoading
<1>3. QED
  BY <1>1, <1>2 DEF NumberInv

LEMMA StopNumber ==
  ASSUME NumberInv, stopLoading
  PROVE  /\ shows' \in 0 .. MaxShows
         /\ overlay' \in [id : 0 .. MaxShows, by : Screen \cup {Command}]
         /\ fades' \subseteq 1 .. MaxShows
<1>1. shows' = shows /\ overlay' = overlay /\ fades' = fades \cup ({overlay.id} \ {0})
  BY DEF stopLoading
<1>2. overlay.id \in 0 .. MaxShows
  BY DEF NumberInv
<1>3. {overlay.id} \ {0} \subseteq 1 .. MaxShows
  BY <1>2, ShowsAssumption
<1>4. fades' \subseteq 1 .. MaxShows
  BY <1>1, <1>3 DEF NumberInv
<1>5. QED
  BY <1>1, <1>4 DEF NumberInv

LEMMA LoadNumber ==
  ASSUME NumberInv, NEW s \in Screen, loadFromUrl(s), registered' \in BOOLEAN
  PROVE  NumberInv'
<1>1. missed' \subseteq Screen
  BY DEF loadFromUrl, NumberInv
<1>2. CASE s \in Inject
  <2>1. showLoading(s)
    BY <1>2 DEF loadFromUrl
  <2>2. QED
    BY <1>1, <2>1, ShowNumber DEF NumberInv
<1>3. CASE s \notin Inject
  <2>1. UNCHANGED overlayVars
    BY <1>3 DEF loadFromUrl
  <2>2. QED
    BY <1>1, <2>1 DEF NumberInv, overlayVars
<1>4. QED
  BY <1>2, <1>3

LEMMA FadeNumber ==
  ASSUME NumberInv, NEW id \in fades, FadeDone(id)
  PROVE  NumberInv'
<1>1. /\ fades' = fades \ {id} /\ shows' = shows /\ missed' = missed
      /\ registered' = registered /\ overlay' \in {NoOverlay, overlay}
  BY DEF FadeDone, Removed, screenVars
<1>2. NoOverlay \in [id : 0 .. MaxShows, by : Screen \cup {Command}]
  BY ShowsAssumption DEF NoOverlay
<1>3. QED
  BY <1>1, <1>2 DEF NumberInv

LEMMA StepNumber ==
  ASSUME NumberInv, [Next]_vars
  PROVE  NumberInv'
<1>1. CASE UNCHANGED <<overlayVars, missed>> /\ registered' \in BOOLEAN
  BY <1>1 DEF NumberInv, overlayVars
<1>2. \A t, s : Transition(t, s, registered) => registered' \in BOOLEAN
  BY DEF NumberInv, Transition, Unregister
<1>3. ASSUME NEW s \in Screen, push(s) \/ present(s) \/ refresh(s)
      PROVE  NumberInv'
  <2>1. loadFromUrl(s)
    BY <1>3 DEF push, present, refresh
  <2>2. registered' \in BOOLEAN
    BY <1>3 DEF NumberInv, push, present, refresh, Transition, Unregister, viewDidLoad,
                screenVars
  <2>3. QED
    BY <2>1, <2>2, LoadNumber
<1>4. CASE back \/ rootBack \/ dismiss \/ swipeEnds
  <2>1. PICK ss : Dealloc(ss)
    BY <1>4 DEF back, rootBack, dismiss, swipeEnds
  <2>2. registered' \in BOOLEAN
    BY <1>2, <1>4 DEF back, rootBack, dismiss, swipeEnds, NumberInv
  <2>3. QED
    BY <2>1, <2>2 DEF Dealloc, NumberInv, overlayVars
<1>5. CASE swipe \/ swipeCancelled
  BY <1>1, <1>2, <1>5 DEF swipe, swipeCancelled
<1>6. ASSUME NEW s \in Screen, showLoadingCommand(s)
      PROVE  NumberInv'
  BY <1>6, ShowNumber DEF showLoadingCommand, NumberInv, screenVars
<1>7. ASSUME NEW s \in Screen, stopLoadingCommand(s)
      PROVE  NumberInv'
  BY <1>7, StopNumber DEF stopLoadingCommand, NumberInv, screenVars
<1>8. ASSUME NEW s \in Screen, webViewDidFinishLoad(s) \/ didFailLoad(s)
      PROVE  NumberInv'
  <2>1. registered' = registered /\ Hears(s)
    BY <1>8 DEF webViewDidFinishLoad, didFailLoad, Ends, screenVars
  <2>2. CASE s \in receiver
    BY <2>1, <2>2, StopNumber DEF Hears, NumberInv
  <2>3. CASE s \notin receiver
    BY <2>1, <2>3 DEF Hears, NumberInv, overlayVars
  <2>4. QED
    BY <2>2, <2>3
<1>9. CASE UNCHANGED vars
  BY <1>9 DEF vars, screenVars, overlayVars, NumberInv
<1>10. QED
  BY <1>3, <1>4, <1>5, <1>6, <1>7, <1>8, <1>9, FadeNumber DEF Next, Navigate, on
-----------------------------------------------------------------------------
(* The invariant holds in every reachable state. *)
THEOREM Invariance == Spec => []IInv
<1>1. Init => IInv
  <2> SUFFICES ASSUME Init PROVE IInv
    OBVIOUS
  <2>1. navs = <<(<<Root>>)>> /\ <<Root>> \in Stacks
    BY ScreenAssumption DEF Init, Stacks, Screen
  <2>2. navs \in Seq(Stacks) \ {<< >>} /\ Stack = <<Root>> /\ Top = Root
    BY <2>1 DEF Stack, Top, Last
  <2>3. StacksInv /\ OneReceiver /\ ProxyOnlyForInjected
    BY <2>2 DEF Init, StacksInv, OneReceiver, ProxyOnlyForInjected
  <2>4. OverlayInv /\ OverlayEndsWithLoad /\ DOMAIN load = Screen
    BY CommandAssumption DEF Init, NoOverlay, OverlayInv, OverlayEndsWithLoad
  <2>5. QED
    BY <2>3, <2>4 DEF IInv
<1>2. IInv /\ [Next]_vars => IInv'
  BY ScreensStep, OverlayStep, LoadType DEF IInv, ScreensInv
<1>3. QED
  BY <1>1, <1>2, PTL DEF Spec

(* The screens in the stacks are those that load or have loaded, none is   *)
(* in two places, and so on: TypeOK, of the screens that push, present and *)
(* the ways back keep.                                                     *)
THEOREM TypeCorrect == Spec => []TypeOK
<1>1. Init => LoadInv /\ NumberInv
  <2> SUFFICES ASSUME Init PROVE LoadInv /\ NumberInv
    OBVIOUS
  <2>1. Root \in Screen
    BY ScreenAssumption DEF Screen
  <2>2. load \in [Screen -> {"none", "loading", "done"}]
    BY DEF Init
  <2>3. DOMAIN navs = {1} /\ DOMAIN navs[1] = {1} /\ navs[1][1] = Root
    BY DEF Init
  <2>4. \A k, m, t : Placed(k, m, t) <=> k = 1 /\ m = 1 /\ t = Root
    BY <2>3 DEF Placed
  <2>5. \A t : t \in Shown <=> t = Root
    BY <2>4, ShownPlaced
  <2>6. Shown = {s \in Screen : load[s] # "none"}
    BY <2>1, <2>5 DEF Init
  <2>7. PlacedOnce
    BY <2>4 DEF PlacedOnce
  <2>8. NumberInv
    <3>1. 0 \in 0 .. MaxShows
      BY ShowsAssumption
    <3>2. QED
      BY <3>1 DEF Init, NumberInv, NoOverlay
  <2>9. QED
    BY <2>2, <2>6, <2>7, <2>8 DEF LoadInv
<1>2. IInv /\ LoadInv /\ NumberInv /\ [Next]_vars => (LoadInv /\ NumberInv)'
  BY StepLoads, StepNumber DEF IInv
<1>3. IInv /\ LoadInv /\ NumberInv => TypeOK
  <2> SUFFICES ASSUME IInv, LoadInv, NumberInv PROVE TypeOK
    OBVIOUS
  <2>1. Stack \in Seq(Screen) /\ Len(Stack) \in Nat \ {0} /\ Top \in Screen
    BY StackType DEF IInv
  <2>2. swiping => Below \in Screen
    BY <2>1, ElementOfSeq DEF IInv, StacksInv, Below
  <2>3. receiver \subseteq Screen
    BY <2>1, <2>2 DEF IInv, OneReceiver
  <2>4. QED
    BY <2>3 DEF IInv, StacksInv, Stacks, LoadInv, NumberInv, TypeOK
<1>4. QED
  BY <1>1, <1>2, <1>3, Invariance, PTL DEF Spec

(* However screens are pushed, presented, popped, dismissed and swiped,    *)
(* exactly one of them gets messages: OneReceiver, of _isMessageReceiver   *)
(* in viewWillAppear and viewWillDisappear.                                *)
THEOREM ReceiverUnique == Spec => []OneReceiver
<1>1. IInv => OneReceiver
  BY DEF IInv
<1>2. QED
  BY <1>1, Invariance, PTL

(* The requests of the application only go through HeroProviderURLProtocol *)
(* while a page opened for it is on top: ProxyOnlyForInjected, of the      *)
(* registration in viewDidLoad and viewWillDisappear.                      *)
THEOREM ProxyScoped == Spec => []ProxyOnlyForInjected
<1>1. IInv => ProxyOnlyForInjected
  BY DEF IInv
<1>2. QED
  BY <1>1, Invariance, PTL

(* The overlay a load brought up goes with it, unless its screen was       *)
(* covered at that moment: OverlayEndsWithLoad.                            *)
THEOREM OverlayGoes == Spec => []OverlayEndsWithLoad
<1>1. IInv => OverlayEndsWithLoad
  BY DEF IInv
<1>2. QED
  BY <1>1, Invariance, PTL

(* No fade takes away an overlay that was not stopped: OnlyStoppedGoes, of *)
(* the completion block of stopLoading.                                    *)
THEOREM StoppedGoes == Spec => OnlyStoppedGoes
<1>1. ASSUME IInv, [Next]_vars, overlay # NoOverlay, overlay' = NoOverlay
      PROVE  overlay.id \in fades
  <2>1. ASSUME NEW by, showLoading(by)
        PROVE  FALSE
    BY <1>1, <2>1, ShowStep DEF IInv, NoOverlay
  <2>2. ASSUME NEW s \in Screen, loadFromUrl(s)
        PROVE  FALSE
    BY <1>1, <2>1, <2>2 DEF loadFromUrl, overlayVars
  <2>3. \E id \in fades : FadeDone(id)
    <3>1. overlay' # overlay
      BY <1>1
    <3>2. ~Navigate
      BY <2>2, <3>1 DEF Navigate, push, present, back, rootBack, dismiss, Dealloc, swipe,
                        swipeEnds, swipeCancelled, overlayVars
    <3>3. ASSUME NEW s \in Screen, on(s)
          PROVE  FALSE
      BY <2>1, <2>2, <3>1, <3>3 DEF on, refresh, showLoadingCommand, stopLoadingCommand,
                                    stopLoading
    <3>4. ASSUME NEW s \in Screen, webViewDidFinishLoad(s) \/ didFailLoad(s)
          PROVE  FALSE
      BY <3>1, <3>4 DEF webViewDidFinishLoad, didFailLoad, Hears, stopLoading, overlayVars
    <3>5. QED
      BY <1>1, <3>1, <3>2, <3>3, <3>4 DEF Next, vars, overlayVars
  <2>4. QED
    BY <1>1, <2>3 DEF FadeDone, Removed, NoOverlay
<1>2. IInv /\ [Next]_vars => [overlay # NoOverlay /\ overlay' = NoOverlay
                                => overlay.id \in fades]_vars
  BY <1>1
<1>3. QED
  BY <1>2, Invariance, PTL DEF Spec, OnlyStoppedGoes
=============================================================================
