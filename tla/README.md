# A TLA+ model of hero-ios

hero-ios shows native screens that are described and commanded by a web page. A
page runs in a hidden web view and sends JSON messages; every screen and every
widget is an Objective-C object whose `on:` takes such a message, and which
answers the page by calling its script. Around this core the repository has
components with a state of their own: a queue of image uploads, a wallet that
keeps private keys and signs for the page, an image cache, a database, a VPN
tunnel and others.

This directory holds TLA+ modules of the components whose state is touched by
more than one thread, callback or process life, TLC configurations that check
them on small instances, and proofs checked by TLAPS. All paths below are
relative to `src/hero-ios/Classes/` unless they begin with `src/`. `PROJECT.json`
names, for every definition that models code, the lines it stands for.

## 1. The system

| Component | State | Operations | Talks to |
|---|---|---|---|
| Upload queue (`HeroImageUploader`, `HeroImageUploadManager`) | `state`, `finalState`, the connection, the NSOperationQueue | `start`, `cancel`, the connection's callbacks, `cancelAllUploads` | its delegate, an item of the view, by blocks on the main queue |
| Upload view (`HeroImageUploadView`, `HeroUploadItem`) | `imageArray`, `uploadArray`, each item's `uploader` and data | `on:`, picks, taps on failed rows, deletes | the photo library (asynchronous), the queue, the page (a summary) |
| Wallet (`HeroColdWallet/HeroWallet`, `HeroAccount`, detail and password screens) | the list in NSUserDefaults, keys and passwords in the keychain, account objects in memory | `loadAccounts`, `addAccount`, `remove`, `save`, `setDefaultAccount:` | the keychain, the signing requests |
| Signing (`HeroSignature`, `HeroSignView`, alerts of `HeroAccount`, import screen) | the alerts, views and screens that are up, `validatePwd`, blocks that are due | `on:`, confirm and cancel, `sign`, `exit`, `bioTapped` | the wallet, LocalAuthentication, the page |
| Lazy images (`UILazyImageView`) | the file cache, `imageURL`, the shown picture | `setImageURL:`, `registerForName:`, download callbacks, `clearCache` | the network, every widget that shows a picture |
| Screens (`HeroViewController`, `HeroWebView`) | the stacks of screens, `_isMessageReceiver`, the overlay in the window, the registered protocol class | navigation commands, appearance callbacks, `load`, `showLoading`, `stopLoading` | the page, UIKit |
| URL protocols (in `HeroWebView.m`) | a shared NSOperationQueue with the requests it answers | `startLoading`, `stopLoading` | the web view's loader |
| Web3 provider (`src/Example/hero-ios/hero-home/hero-provider.js`) | one callback in the window, the light of the engine, `nonceLock`, `nonceCache` | `sendAsync`, `handleRequest`, `npc` | the node (through the URL protocols), `HeroSignature` (by `heronpc://`) |
| Page library (`hero.js`, `herohelper.js` in `src/Example/hero-ios/hero-home/app`) | `ui2Data`, the requests that show the overlay | `boot`, the setters of `ui2Data`, `datas`, `in`, `get`, `post`, `fmoney`, `decimalAdjust` | its screen and text fields, a server |
| Tables (`HeroTableView`, `HeroTableViewCell`) | the rows, `refeshTimes`, cells on the screen and kept for reuse | `data`, `fragmentData`, `cellForRowAtIndexPath:` | UITableView, lazy images |
| Tunnel (`HeroTCP`, `src/Example/HeroTunnel/PacketTunnelProvider.swift`) | `manager`; in another process `started`, `proxyServer` | `config`, `start`, `stop`; `startTunnel`, `stopTunnel` | NetworkExtension |
| Database (`HeroDB`) | values and arrays in a LevelDB | set, read, add to an array, read a page of it | the page |
| Other widgets, chat, tabs, alerts and toasts, lock pattern, scanning, conversions | see `PROJECT.json` | one `on:` each | the page |

Components interact in four ways: a *message* (`on:`), which runs on the main
thread to its end; a *call of the page's script*, for which the page has to have put
a callback or `Hero.in` in place; a *block* dispatched to the main queue or to a background
queue, which runs later, when what it captured may have changed; and *shared
singletons* (the upload manager, the wallet, the image cache, the key window,
`NSURLProtocol`'s list of classes).

The hard behaviours follow. `state` of an uploader is written by a worker and by
the main thread without a lock. Asynchronous answers (photo library, image
download, biometric prompt) arrive after the user has gone on. The wallet writes
two stores in several steps, and the process may die between them. Objects are
replaced while screens still hold the old ones. Screens send commands while they
are covered. The page keeps copies of what the application shows, and one place for
the callbacks of all its calls. Requests to the node are lost or answered late. `PROJECT.json` lists 40 such hazards, each at its line.

What makes each component correct:

* Upload queue: never more uploads than the limit; one outcome for each upload,
  announced once, and in agreement with its state; a cancel in time is heeded; a
  slot comes back; every upload ends.
* Upload view: the two arrays agree row for row; the summary the page holds says
  what the uploads are; `completed` is true only when all have an outcome.
* Wallet: a listed account has its key, a key is listed, what was removed is gone,
  no write loses an account, the default chosen is kept.
* Signing: one signature for one confirmation; every request gets an answer; a
  denial is final.
* Lazy images: a file holds the picture of its own URL; a view shows the picture
  of its URL once nothing is under way, nothing when it has none; every block is
  called.
* Screens: exactly one screen gets messages; the proxy protocol is registered only
  while a page opened for it is on top; an overlay goes with the load it was shown
  for, and only when stopped.
* Tables: a row shows its own item and, once loaded, its own image.
* Tunnel: the provider survives every order of starts and stops, and no proxy runs
  without a session.
* Database: reading page by page gives an array back.
* Web3 provider: an answer goes to the request it is for; the user signs the nonce
  that the node takes next; every request is answered if the user answers.
* Page library: the page has the texts the user sees; the overlay goes with the
  request it was shown for; a request signs what it sends; amounts and roundings are
  right.

## 2. The modules

```
 UploadTicket  <-- refined by --  UploadQueue  <-- proved about -- UploadQueue_proofs
      ^                                |
      | extended by                    +-- MCUploadQueue (3 cfgs)
 UploadView -- MCUploadView
      ^
      +-- UploadView_proofs

                Arrays  <-- proved about -- Arrays_proofs
                  ^                              ^ extended by
    +-------------+-------------+                |
    |                           |                +-- HeroWallet_proofs, HeroSign_proofs
 HeroWallet -- MCHeroWallet     |
               (2 cfgs)         |
 SignTicket  <-- refined by --  HeroSign -- MCHeroSign (2 cfgs)
      ^
      | instantiated by
 HeroProvider -- MCHeroProvider           HeroController -- MCHeroController
      ^                                        ^
      +-- HeroProvider_proofs                  +-- HeroController_proofs

 HeroPage  <-- extended by -- MCParts -- instantiates --> HeroTable, HeroTunnel, HeroDB,
                                 ^                        HeroFormat
 LazyImage -- MCLazyImage        |
      ^                          |
      +--------------------------+-- Parts_proofs (with Arrays_proofs)
```

### UploadQueue, and its abstract specification UploadTicket

`UploadQueue` models `HeroImageUploader.m` at the grain of its races. `pc` says
where the worker of each operation is; the program points are the places between
two reads or writes of what the main thread can change: before the test of
`isCancelled` (line 96), between that test and `state = Uploading`, in the run
loop, between the announcement of a failure and its state, and so on. `Cancel`
and `CancelAllUploads` run on the main thread with `stage` as their own program
counter, because `cancel` too tests `isExecuting` and assigns later. `finished`
is not a variable of the class: it says whether a KVO change of `isFinished` has
been posted, since NSOperationQueue gives a slot back on that notice and not on
the value; `Occupied` is therefore what the queue counts. `mainQ` is the main
dispatch queue and `told` what the delegate heard. The server's body is one of
four kinds (`ReplyKinds`), the outcomes `connectionDidFinishLoading:`
distinguishes. NSOperationQueue and NSURLConnection are external: `QueueStarts`
and `Network` say what the code relies on (FIFO start while a slot is free, a
connection that ends or fails at any time, no callback after `cancel`).

`UploadTicket` is what the view may rely on: an upload begins at most once, is
judged at most once, announces a failure before and a success after its state
changes, may be cancelled at any time, and may vanish. `ImplementsTicket` maps a
worker's place to the ticket's `phase`; every step of `UploadQueue` is then a
step of the ticket or a stutter.

### UploadView

Extends `UploadTicket`: the view is composed with the *abstract* uploads, which
the refinement justifies. `imageCount` and `uploads` are the two arrays (of
`imageArray` only its length matters), `uploader` and `owner` the references of
items and uploaders to each other, `filled` whether an item has its `docId`,
`report` the last summary. `loading`, `taps` and `timers` are the blocks that are
out at the photo library and at `dispatch_after`. `lost` and `extra` are history
that properties use. `SetImages` is the page's `images` key, which replaces all
rows while answers are still due.

### HeroWallet

`list`, `names`, `keys`, `pwds` are the two stores; `accounts`, `loaded`,
`screen` and `op` are memory and vanish in `Crash`, which may fall between any
two writes because `op` walks through the writes of a save or removal one at a
time. A call of the keychain may fail (`Fails`) and is not looked at: what follows
goes on. An object made from a store without the password has none (`pwd`), and no
password fits it. Object identity is kept as far as it matters: `held` marks the element that
is the object the open detail screen has. `loadAccounts` replaces all objects, so
nothing is held afterwards, and `removeObject:` of a stale object removes nothing
from memory. `Arrays` has the one operation that wallet and sign views need of a
mutable array: what is left without one element, as `removeObject:` and the loop of
`setDefaultAccount:` compute it.

### HeroSign

Everything is on the main thread but for the biometric reply, so one action is
one message or tap. `alerts` are up in order, of which those in `live` still have
their (weakly held) account; they share its one block, `slot`. `views` are the
sign views in the window and `due` counts the signature blocks scheduled 1.2 s
after a biometric success. A command of the page may come at any time; taps only
reach what is on top.

`SignTicket` is what a page may rely on: a transaction it asked to sign is open as
long as its import screen, its sign view, its prompt or a block of it is left; every
signature and every denial comes from an open ticket, a ticket is denied at most once
and may close without a word, and a new sign view may close another one's ticket (its
prompt is called off). `ImplementsSignTicket` maps `HeroSign` to it.

### HeroProvider

The provider is a bundle in which each module is one line of text; the module models
what the script puts together: `light` is the first block and the stoplight that holds
every request back until it has come, `pc` where each request is, `lock` and `nonce`,
`cache` the semaphore and the nonce tracker, `call` the request to the node of
whoever holds the lock, `slot` whose callback is in `window['HeroSignaturecallback']`.
`posted` are the application's blocks that are due, and `open`, `signed`, `denied` its
sign views: the signing is the *abstract* one, an instance of `SignTicket`, which
`HeroSign` implements. An answer runs `Call` on whatever callback is in the slot, so
that what a callback does with an answer that was meant for another one is part of the
model: it throws (`Takes`), or takes accounts for a signature. A request to the node
is answered by a handler that waits in the queue of the URL protocols, which
`stopLoading` empties: the page then waits for the 20 s of its own timer. `Reload`
starts every module anew while the application's views and blocks stay.

### HeroPage and HeroFormat

`HeroPage` is one page and its screen. `shown` is what a field shows and `ui2Data` the
page's copy; `echoes` counts the blocks that tell the page a text 0.3 s after it was
set. `receiver` says whether the screen is on top: a message in either direction that
finds it covered is dropped, which `missed` remembers for a field whose two texts
differ for that. `get` and `post` are one action with the overlay before the request;
a parameter is a text, an empty text, or a value that is falsy without being a text
("zero"), since only that decides what `formatData` writes. `HeroFormat` computes
`fmoney` and `decimalAdjust` on hundredths as the code does, and compares them with
definitions by division and remainder.

### LazyImage

`setImageURL:` leaves a background thread (`loads`) that reads the cache and
queues a call for the main thread (`main`); a download (`downloads`) first looks
at `imageURL` off the main thread (`over`) and then queues its call. The lengths
100, 199 and 400 at which the code decides are the four sizes of data. An NSURL
is `[url, id]` because the code compares strings at line 402 and objects at 513.
`excuses` is history: why the picture shown may be another one.

### HeroController

`navs` are the navigation stacks (a presented one is last), `receiver` the
screens whose `_isMessageReceiver` is set, `overlay`, `fades` the loading view
found by its tag and the fades under way, `registered` the protocol class. The
appearance callbacks are part of the action that causes them (`Transition`), with
the order UIKit gives: an interactive swipe calls them when it begins and again
when it is called off. A deallocated screen's name may be used again.

### HeroTable, HeroTunnel, HeroDB

Small parts that have nothing to do with each other, nor with the page. `MCParts` puts
them and `HeroPage` and `HeroFormat` side by side and lets one of them run, chosen at
the start, so that one run checks each alone.

`HeroTable` keeps one section. A cell is on a row (`row`), kept for reuse (`pool`),
still shown by an animation (`leaving`) or not there (`free`); `item` is what it was
last told and `image` what its image view shows. `Kind` says which branch of
`cellForRowAtIndexPath:` an item takes. When UITableView shows, hides and keeps cells
is external and left open: any row may be shown or hidden at any time.

`HeroTunnel` has the app (`HeroTCP`), whose `manager` arrives by a callback, and the
provider in its own process with `started`, `proxy` and the calls of
`setTunnelNetworkSettings` that are under way. The system's preferences and session,
the user's starts and stops and the end of the process are external.

`HeroDB` computes a page as the code does: on unsigned integers below `2 * Half`
that wrap, with the checks of `subarrayWithRange:`. Nil stands for its exception.

## 3. The runs

| Run | Instance | What it shows |
|---|---|---|
| `upload_queue` | 3 uploads, 2 slots, one cancel command | the limit, one outcome, state and outcome agree, final outcomes, early cancels, refinement of `UploadTicket` |
| `upload_live` | 3 uploads, 1 slot, one refused URL, one cancel command, fairness | which uploads leak their slot, and that every upload settles |
| `upload_count` (violation) | 3 uploads, 2 slots, one refused URL, no cancel | `currentUploadCount` counts an upload whose worker has returned |
| `upload_view` | 2 items, 3 uploaders, 1 tap | arrays and summaries |
| `wallet` | 3 accounts, 2 crashes or failures, 3 objects | what the stores and memory can disagree on |
| `wallet_default` (violation) | 3 accounts, 4 objects, no crash or failure | a default chosen on the detail screen is forgotten |
| `sign` | 2 accounts, 2 messages, 2 transactions | double confirmations, silent dismissals, refinement of `SignTicket` |
| `sign_denied` (violation) | the same | a signature after a denial |
| `lazy_image` | 2 URLs, 3 assignments, 1 registration | cache and picture, every block called |
| `screens` | 3 pages, 2 injected ones, 3 overlays | receivers, protocol registration, overlays |
| `provider` | 5 requests in pages of at most 3, 1 reload, 2 transactions taken, fairness | whose answer a callback gets, the nonce that is signed, that requests are answered |
| `parts` | 5 items, 3 cells, 2 refreshes; 2 configurations; 1 key, words of 4 bits; 1 field, 2 texts, 2 requests; 2,503 numbers | reuse of cells, restarts of the tunnel, pages of an array, texts and overlay of a page, amounts |

The type invariants (`TypeOK` in the modules) are not properties of the runs: those of
`UploadQueue`, `UploadView`, `LazyImage`, `HeroWallet`, `HeroSign`, `HeroController` and
`HeroProvider` are theorems (`TypeCorrect`), and the others hold when the name is added
to the cfg; a wrong type is soon a wrong state for the other properties.

### What the exceptions in the properties say

Several invariants have an escape, and the escape is the result: it names the
only ways in which the desired fact fails.

* `SlotReturned`: a slot leaks if an upload was cancelled, its URL refused, or
  its reply said neither success nor errors. An ordinary upload never leaks.
* `ListedHasKey`: a listed account lacks its key or password only through a removal
  that a crash cut short or that went through a stale object, or through a failure of
  the keychain at its import; a failure at a change of the password does no harm, and a
  later change repairs a key that was not written. Since `loadAccounts` adds the nil it
  gets without a key to an array, such a wallet raises at every load.
* `KeysAreListed`: a key that no list names comes from an interrupted import, or from a
  removal in which the keychain failed.
* `ConfirmedIsSigned`: two alerts share one block only if a command came between
  an import and the request that had opened the import screen.
* `SettledShowsURL`: a late picture of an earlier URL is possible (`foreign`), by
  `downloadDidSuccess:` from the cache, and an equal URL is lost (`equal`).
* `OverlayEndsWithLoad`: a screen that is covered when its load ends leaves its
  overlay for ever.
* `RowsShowTheirItem`: wrapped views of a class other than UIView all share the
  identifier of their class and show what the first of them was told; a UIView row
  that `replace` put in place keeps the identifier of the one before it.
* `ImagesSettle`: a cell that waited for two images at once may end with the older.
* `CrashNeedsRestart`: the provider unwraps a nil proxy only if its process has
  stopped one before; `stopTunnel` does not reset `started`.
* `NoLeftoverProxy`: a proxy without a session was started by network settings that
  were granted after the stop.
* `PagesReadBack`: a page is an exception exactly when it begins beyond the end or
  when start and count overflow, which a negative count does only with a start at
  least as large; what is read otherwise is the part of the array asked for.
* `AnswersFindTheirRequest`: nothing is promised once the application was called while
  it owed an answer (`overlap`), which two requests of one page, or a reload under a
  sign view, are enough for. A request the application dropped (`dropped`) waits.
* `NonceIsNext`: until the count moved elsewhere, or a publication ended without the
  page having learnt that the node took it (`drift`): after that the tracker keeps a
  nonce that the node refuses.
* `RequestsSettle`: not if the first block was not seen (`light = "dead"`), which is
  tried once, nor after `overlap`, nor after a request was dropped, whose holder never
  gives the lock back. `stuck` are requests to sign a message: the script provides no
  `signMessage`, and the exception reaches no one.
* `FieldsAgree`: an empty text is never recorded by the page, and a dropped message is
  not sent again.
* `OverlayHasReason`: a request without data, an answer that is no JSON and an end while
  the screen is covered leave the overlay up (`held`).
* `SignCoversSent`: 0, false, null and undefined are sent as texts and not signed.
* `NumbersFormatted`: `fmoney` puts a comma after the sign of -123.00, and `floor10`
  and `ceil10` change places below zero.

### Findings

* `CountIsReal` (`HeroImageUploader.m:200`). `HeroImageUploadManager.h:43` calls
  `currentUploadCount` the number of uploads "really uploading in the queue"; a
  reply with neither outcome leaves the state at Uploading for ever.
* `DefaultIsKept` (`HeroColdWallet/HeroWalletDetailViewController.m:80`). The
  bar button tells the user that the wallet is now the default one; nothing is
  written to the list, and the next command of the page reloads the old order.
* `DeniedIsFinal` (`HeroColdWallet/HeroSignature.m:157`). The page is told that
  the user denied; the block of a biometric success runs 1.2 s later all the same.

### Bounds, and why they are enough

* `MaxCancels = 1`: a command cancels one upload or all, so already one of them
  runs against every place of every worker; a second cancel of an upload finds
  its state Canceled. The proofs hold for any bound.
* Three uploads on two slots: the smallest instance in which an upload waits.
  The liveness run has one slot, so that a single leak already blocks the queue,
  and two uploads that have to take turns.
  Three uploaders for two items: one row can be re-uploaded twice.
* `MaxTaps = 1`: one tap per failed row waits for its asset. A re-upload uses
  the row index of the time of the tap, which may hold another item by the time
  of the answer; with two items that already puts two uploaders on one row.
* `MaxObjects = 3`: with two accounts, `setDefault` of a stale screen inserts an
  object a second time. `MaxFaults = 2`: a crash or a failure of the keychain, and
  another one in the repair after it.
* `MaxSigned = 2`, `MaxDue`: a second tap before the view has gone, and a second
  biometric success before the first block has run.
* `MaxSets = 3`: a URL, another one, and back, or the same again.
* `parts`: two refreshes tell a cell of the present data from one of earlier data;
  three cells for at most two rows leave one in the pool. Two calls of
  `setTunnelNetworkSettings` are an earlier and a present one. In four bits every
  start and count is tried, for arrays of up to four elements.
* `Scripts`: a page that sends two transactions is the smallest with two holders of the
  lock and two nonces; one with the accounts, a transaction that is only signed and a
  message has every other kind of request. After a reload the page asks for the
  accounts. `MaxChain = 2` lets both transactions through, or one and a foreign one.
* `MaxSigned = 1` in `provider`: a second signature of a view is in `sign`; here every
  answer is already given to whatever callback is there, also after a reload.
* `MaxChanges = 3`, `MaxCovers = 2`: a text set, typed over and set again; a screen
  covered at boot and again later. Fields do not touch each other, so one is enough;
  two requests share the overlay.
* `Numbers`: everything up to twelve, and the neighbours of multiples of powers of ten
  up to nine millions, where commas and units change; the proof is about every
  number.
* `MaxShows = 3`: an overlay, one shown during its fade, and one after it.

Symmetry is used on accounts, requests, pages and uploads where no constant names
one of them, and never in a run with a liveness property.

`CHECK_DEADLOCK FALSE` is set in every run: all the components may really stop
(every upload has ended, every request is answered, every bound is used up).

### Fairness

`UploadQueue`: worker threads and the main thread keep running, the queue starts
an operation whenever a slot is free, and a connection ends, since the request
has a timeout of 20 s. A cancel that has begun goes on. The user is never fair.
`LazyImage`: a data task ends (NSURLSession has a timeout) and the main queue runs
its blocks. `HeroProvider`: the page's one thread goes on with what it can do, the main
queue runs its blocks, and the timer of a request fires; that the user answers a sign
view is the premise of `RequestsSettle`, and the node may never answer. The other
specifications assume nothing.

## 4. The proofs

`UploadQueue_proofs` proves for every finite set of uploads, every limit, every
set of replies and every number of cancels, from the assumptions declared in
`UploadQueue`:

| Theorem | States |
|---|---|
| `Invariance` | `Spec => []IInv` |
| `TypeCorrect` | `Spec => []TypeOK` |
| `UploadsBounded` | `Spec => []CurrentUploadBound` |
| `OutcomesFinal` | `Spec => OutcomeIsFinal` |
| `EarlyCancelHolds` | `Spec => CancelBeforeCheckHolds` |
| `Refinement` | `Spec => ImplementsTicket` |
| `OutcomeOnce` | `Spec => []OneOutcome` |
| `OutcomeShown` | `Spec => []OutcomeMatchesState` |
| `SlotsReturned` | `Spec => []SlotReturned` |
| `RestIsSettled` | `Spec => []RestSettled`, the standstill half of `UploadsSettle` |

`CurrentUploadBound` speaks of states, while the queue counts operations that
were started and have not posted `isFinished`. It is not inductive: nothing in it
stops a finished operation from being Uploading, or a cancel from posting
`isFinished` for an operation whose worker is about to set Uploading. `IInv` adds
what is missing. `WorkerInv` ties an upload's state to the place of its worker:
an executing upload is past line 98 and has not posted `isFinished`, and only the
last steps write an outcome. `CancelInv` says that the main thread posts
`isFinished` only for an upload it saw executing, so one past line 98. `SlotInv`
bounds the slots. `ListedInv` gives the order of `added`, from which it follows
that the main thread cancels one upload at a time (`OneCurrent`). Then executing
uploads are among the occupied slots, and the bound follows by the cardinality of
a subset. `OutcomesFinal` and `EarlyCancelHolds` use the invariant in each step;
`Refinement` maps initial states and proves one lemma for the worker's steps
(`WorkerRefines`) and one for those of the main thread (`MainRefines`).

What the delegate hears is proved through the refinement: `OutcomeInv` is an invariant
of the *ticket*, which has eight actions where the threads have twenty. It says that an
upload has been quiet until its ticket is judged, that a failure is in the queue or told
before the state shows it, and a success from the moment the ticket no longer owes it;
`OneOutcome` is preserved because only a quiet upload is announced, and the notice goes
from the queue to the delegate, never both. For the slots `LeakInv` says what puts a
worker off the path that posts `isFinished`: until its state is written it executes,
unless it was cancelled or its URL refused (`Excused`), and `MarkInv` that the main
thread has marked an upload as cancelled before it writes its state.

`Arrays_proofs` proves what `Without` leaves of an array of any length
(`WithoutRange`). `Without` is a recursive function, so this needs induction over the
length of the array. The library states induction with an operator parameter, which no
installed prover instantiates; `SetInduction` states it for a *set* of numbers instead
and follows from the existence of minimal elements (`WFMin`).

`HeroWallet_proofs` proves for any accounts, number of objects, crashes and failures:
`ListedHaveKeys` (`ListedHasKey`), `KeysListed` (`KeysAreListed`), `RemovalIsComplete`
(`RemovedIsGone`), `MemoryListed` (`MemoryMatchesList`) and `AccountsKept`
(`NoAccountLost`). All are about a fact at rest that is false while an operation is
under way, so the invariant `WInv` adds what holds at each step of an operation
(`ProgressInv`: which of the writes for its account are done), what memory and list have
in common in between (`MemoryInv`) and that an open detail screen shows a listed
account, the only one that is saved or removed (`ScreenInv`). A crash is then one case:
nothing in the invariant that speaks of the stores alone depends on memory. A failure is
remembered in `failures`, which only grows, and excuses what the write would have done.

`HeroSign_proofs` proves for any accounts, messages and transactions: `ConfirmedSigned`
(`ConfirmedIsSigned`), `DismissalsTold` (`NoSilentDismissal`) and `TicketImplemented`
(`ImplementsSignTicket`). `SInv` adds that whatever is up or due belongs to a request
that was taken up and that the one an import screen waits for was not (`AcceptedInv`),
that a denied view is gone and a view queued for removal is signed (`ViewInv`), and that
no alert is alive when an import is done, unless a command came since (`AlertInv`).
The refinement needs the first two: a request that is asked for has no ticket yet, and
the view that is denied was not denied before.

`HeroController_proofs` proves for any screens, commands and number of overlays:
`ReceiverUnique` (`OneReceiver`), `ProxyScoped` (`ProxyOnlyForInjected`),
`OverlayGoes` (`OverlayEndsWithLoad`) and `StoppedGoes` (`OnlyStoppedGoes`). The
receiver and the registration are fixed by what is on top of the stacks, so the
invariant adds what keeps the top unique: every screen is in one place of one
stack and no stack is empty (`StacksInv`). For the overlays it adds that a load
and a fade name an overlay that was shown (`OverlayInv`). `TypeCorrect` needs one
thing more than ranges: that the screens which load or have loaded are those on the
stacks, each in one place (`LoadInv`), so that one that goes is no longer shown.

Of `LazyImage`, `Parts_proofs` proves for any URLs, calls of `registerForName:` and number of
assignments: `OwnDataHolds` (`OwnData`), `BlankHolds` (`BlankWithoutURL`) and
`SettledHolds` (`SettledShowsURL`). The last speaks only of states in which nothing
is under way and is far from inductive. `ShownInv` says of every state that the
picture is right, or excused, or that something under way still decides it: the
load of the URL, a call in the main queue, or its download. Each step hands this
on from one to the next, and a step that drops it leaves an excuse. `BlocksKept` is an
action property of the registered calls: while one waits it keeps its URL, a block that
is due stays due until it is called, and a called one is not called again.

`HeroProvider_proofs` proves for any requests, pages, reloads and length of the chain:
`OneAtATime` (an invariant), `AnswersMatched` (`AnswersFindTheirRequest`) and
`NonceTracked` (`NonceIsNext`). `Shape` has the types and which kinds of requests reach
which places; `Exclusive` says that who fills, signs or publishes is the head of the
lock's queue, and so alone. For the answers `Owed` adds what the property does not say:
open views and due blocks belong to the request whose callback is in the slot, a
request that waits is owed an answer, one for the accounts exactly one, and one whose
view was signed or denied has its answer on the way; without this the next answer could
be an extra one. For the nonce `Counted` says in which moments the cache may be behind
the count: only between the node's taking a transaction and its answer, when the lock
keeps all others away. `TypeCorrect` adds the bounds of the counters (`Bounds`).

`UploadView_proofs` proves for any images, uploaders and taps: `ArraysAgree`
(`RowsBacked`), `AnnouncedIsReported` (`SuccessIsReported`), `EmptySuccessesEnd`
(`EmptySuccessIsTransient`) and `CompletedMeansSettled` (`CompletedIsTrue`). None of them
is inductive, because a row, its item, its uploader and the notice about it are in four
places. `VInv` ties them together: an upload that may still be announced was not, and
none is announced twice (`OnceInv`); a success seen in the state is owed, queued or told
(`UploadedInv`); an uploader belongs to the item that got it and did nothing before
(`OwnerInv`); an image is loading, lost or a row (`PlaceInv`); a row whose success was
told, or which the page set, has its data (`FilledInv`). The sum in `RowsBacked` then
follows action by action from the cardinality of a set without or with one element, and
the positions of the rows from a lemma on arrays in which no element is twice. A
completed summary is true because the three sets it counts are disjoint: if two of them
make up all rows, the third is empty.

The parts of `MCParts` are proved in `Parts_proofs`. `TableAlone`, `TunnelAlone`,
`DBAlone` and `PageAlone` say that a behaviour of `PartsSpec` is one of each part's
specification, so that an invariant of a part, proved of its instance alone, is one of
`PartsSpec`; the constants are any that satisfy the modules' assumptions.

* Page: `FieldsAgreeAlways` (`FieldsAgree`) and `OverlayReasoned` (`OverlayHasReason`).
  Both are inductive once the types are added; the lemmas go through the ways a text
  changes and the ways a request ends. `SignatureCovers` (`SignCoversSent`) is about the
  data: `increasing` is *some* sequence that lists a finite set of keys in order, so
  `OrderExists` proves by induction on the size of the set that there is one,
  `KeysSorted` that `objKeySort` puts the keys in order and keeps the pairs, and
  `FormatKeepsOrder` that `formatData` drops only what is falsy.
* Tunnel: `ProxyAccounted` (`NoLeftoverProxy`) and `CrashExplained`
  (`CrashNeedsRestart`). `TunnelInv` adds that a proxy that runs while its session is not
  yet up was started late (`EarlyInv`) and that `started` without a proxy means that one
  was stopped in this process (`StartedInv`).
* Database: `ArraysReadBack` (`PagesReadBack`). The types bound the arrays by what an
  NSInteger counts, which is why the subtraction of `start` and `count` wraps only beyond
  an end; `PageIs` says what a page is, and element number n from the newest is then at place
  n modulo the size of page number n divided by it (`PagesRead`).
* Table: `OwnItemShown` (`RowsShowTheirItem`) and `ImagesAreOwn` (`ImagesSettle`). A cell
  that waits in the pool decides what a row shows later, so the invariant speaks of all
  cells: one with the identifier of a row of the present data was last told that row's
  item, unless the row was replaced (`ViewInv`); a block that is due for a cell that
  never waited for two images is for the item the cell has (`BlockInv`), and such a
  cell has its image or a block that will give it (`PictureInv`).
* Numbers: `NumbersWritten` (`NumbersFormatted`), for every integer number of
  hundredths. The loop of `fmoney` is compared with a definition by division: three
  digits before others make a group (`GroupOff`), so reversing, separating and reversing
  again gives `grouped` by induction on the amount (`DigitsGrouped`); a sign after groups
  that are not all complete gets no comma (`SignLast`). `decimalAdjust` is arithmetic in
  each of the five units.

Recursive functions (`digits`, `grouped`, the loop) are defined by TLA+ as *some*
function that satisfies their equation. `RecursionExists` in `Arrays_proofs` proves that
a function whose values extend the value at an earlier number exists, and that its values
are arrays; the step from there to any induction is `SetInduction`.

The assumptions are those declared in the modules: bounds are numbers, the kinds of
requests are disjoint and `None` is none of them (`KindAssumption`), the images are finite
(`ItemAssumption`), no URL is nil (`NilAssumption`), an array has no more elements than
an NSInteger counts (`ArrayAssumption`), rows have items and parameters have keys
(`RowAssumption`, `ParamsAssumption`), numbers are integers (`NumbersAssumption`), and
the like; TLC evaluates them in every run.

Every safety and action property of the passing runs, and both refinements, are thus
theorems. Only model-checked are the liveness properties (`UploadsSettle`,
`EveryBlockCalled`, `RequestsSettle`), since the prover handles neither liveness under
fairness nor ENABLED. Their safety halves are theorems:

* `RestIsSettled` of `UploadQueue_proofs`: in a state in which no step that `Fairness`
  obliges is left (`AtRest`), every upload given to the queue was announced, but for
  those that were cancelled, whose reply said nothing, or that wait behind slots that all
  leaked. `OnceInv` says that an uploader is given to the queue once, so that one of those
  that wait is the first (`FirstOf`) and waits for a slot alone; `LoopInv` that a run loop
  has a connection to wait for, so that every slot still occupied is a leaked one.
* `RestIsSettled` of `HeroProvider_proofs`: where nothing is left to do and the user owes
  no answer, every request was answered, unless the first block was lost, the callback
  overwritten or a request dropped. `Queued` says that `nonceLock`'s queue holds exactly
  the transactions that want the lock or work under it, each once: it is never left to
  one that is done.
* `BlocksKept` of `Parts_proofs`: a registered block is not lost on its way.

What remains with TLC is that such a standstill is reached, and each step on the way to
it taken. That `AtRest` says exactly that no fair step is enabled was compared with
`ENABLED` by TLC, on the instances of the runs; it is not a theorem.

## 5. What is not modelled

In the modelled components:

* Upload queue: progress, the bytes sent, the text of errors, the statistics of
  the manager; NSOperation's priorities and dependencies, which nothing uses.
* Web3 provider: requests that need no wallet and go through caches and filters; the
  codecs; a call that is refused for its parameters before it reaches the lock; the time
  between the start of a reload and the new script. A page keeps to the requests of its
  set and does not repeat them.
* URL protocols: the files served from the bundle, and what is put into a page.
* Page library: `jsProcessUI`, the socket, init data, `dateFormat`; composed input (a
  marked text is not told until it is confirmed); a field whose `textFieldDidEditing`
  does not name it. Messages of the page are taken at once, as UIWebView does with the
  frame that `Hero.out` adds.
* Upload view: layout, the summary's other fields, and `_deleteCell`, which may
  name a reused cell: the model deletes the row the page was asked about.
  `deleteItem` of that cell (`HeroImageUploadView.m:147`) is therefore not covered.
* Wallet: the contents of keys, addresses and passwords (whether an account has one
  is modelled, not which, so also not that a save through a stale object leaves the old
  password in the wallet's own), failures of reading, and cryptography.
* Signing: what is signed, and the sender address that a view shows.
* Lazy images: `isProgressBarNecessary`, which nothing in the program sets, the
  decoding of GIFs, and widgets that are reused between a call and its block.
* Screens: `ui`, `datas`, `appearance`, the navigation bar, the left menu, the
  keyboard, magic move. Whether the bar allows a swipe back is left open.
* Tables: headers, footers, taps, deletions, several sections.
* Tunnel: `try!` of the proxy's start is taken to succeed; packet processing is
  switched off in the source.

Components without a module are in `PROJECT.json` with the reason. Vendored code
(`src/Example/Pods`, frameworks) is not part of the program's own logic.

Lines of JavaScript are not a measure of what is covered here. Of the repository's
37,269 lines of it, 27,556 are `hero-encrypt.js`, a bundle of third-party cryptography
(bn.js, elliptic, crypto-browserify) around forty lines of its own, three functions
without a state; 9,134 are the two copies of `hero-provider.js`, in which each bundled
module, however long, is one line, so that the modelled ones count as nine lines. The
rest, `hero.js` and `herohelper.js`, is modelled but for what is listed above.

## 6. Plan

Done, in this order: the upload queue with its abstract specification and proofs,
the view on top of it, the wallet, signing, lazy images and screens, with proofs of
the last two, the table, the tunnel and the database, the provider on top of the
abstract signing with proofs, the page's library with proofs, and the proofs about the
wallet, the signing and its refinement, the outcomes and slots of the queue, the upload
view, the small parts, the types of the screens and of the provider, and the safety
halves of the liveness properties. Next:

1. The rest of a screen: `ui`, `datas`, the navigation bar, the left menu (whose
   shadow outlives it, `HeroViewController.m:155`) and the keyboard, as a module that
   `HeroController` and `HeroPage` compose with; the cancel item that `present:` sends
   before its screen receives anything (`HeroViewController.m:396`).
2. The chat view (input bar, keyboard, emoji panel), the selection of photos, tabs,
   toasts and alert blocks, the lock pattern; the widgets' common `on:`.
3. In the wallet: which password an object has (`HeroModifyPasswordViewController.m:78`),
   and the sender that a sign view shows (`HeroColdWallet/HeroSignView.m:95`).
