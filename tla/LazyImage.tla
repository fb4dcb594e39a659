----------------------------- MODULE LazyImage -----------------------------
(***************************************************************************)
(* UILazyImageView: a picture that is loaded from the cache or the network *)
(* whenever its imageURL changes, and registerForName:, with which the     *)
(* other widgets load theirs into the same cache.                          *)
(*                                                                         *)
(* setImageURL: leaves a background thread to read the cache; what it      *)
(* finds becomes a call on the main thread: downloadDidSuccess: or         *)
(* startDownloading:.  A download ends on a queue of its own, which writes *)
(* the cache, looks at imageURL and calls the main thread again.  Nothing  *)
(* is ever cancelled, since isProgressBarNecessary is NO in this program.  *)
(*                                                                         *)
(* An NSURL is an object: two of them may name the same URL.  Of the data  *)
(* matters whose picture it is and how long it is: up to 100 bytes (tiny), *)
(* 199 (short), 400 (mid) or more (full).                                  *)
(***************************************************************************)
EXTENDS Naturals, Sequences

CONSTANTS
  Url,     \* the URLs of pictures
  Call,    \* calls of registerForName:block:
  nil,
  MaxSets  \* bound on the NSURLs given to imageURL

ASSUME SetsAssumption == MaxSets \in Nat \ {0}
ASSUME NilAssumption == nil \notin Url

VARIABLES
  cache,      \* for each URL, the data of its file: [of, size]
  imageURL,   \* the NSURL of the view: [url, id]
  image,      \* the URL of the picture the view shows
  loads,      \* the NSURLs whose background thread has not read the cache
  main,       \* the calls the main thread has to make, in order
  downloads,  \* the requests under way: [obj, over]
  registered, \* for each call of registerForName: its [url, stage, of]
  sets,       \* NSURLs given so far
  excuses     \* history: why the view may show something else

viewVars == <<imageURL, image, sets, excuses>>
loadVars == <<loads, main, downloads>>
vars == <<cache, viewVars, loadVars, registered>>

Size == {"tiny", "short", "mid", "full"}
NoObj == [url |-> nil, id |-> 0]
NoData == [of |-> nil, size |-> "none"]

Init ==
  /\ cache = [u \in Url |-> NoData]
  /\ imageURL = NoObj /\ image = nil
  /\ loads = {} /\ main = << >> /\ downloads = {}
  /\ registered = [c \in Call |-> [url |-> nil, stage |-> "idle", of |-> nil]]
  /\ sets = 0 /\ excuses = {}

Quiet == loads = {} /\ main = << >> /\ downloads = {}

(* The file may not be written, which is only logged. *)
updateCache(u, of, size) ==
  cache' \in {cache, [cache EXCEPT ![u] = [of |-> of, size |-> size]]}
OnMain(sel, what) == main' = Append(main, [sel |-> sel, what |-> what])
-----------------------------------------------------------------------------
(* setImageURL: with nil, with an NSURL of the same string, with another. *)
setNil ==
  /\ imageURL # NoObj
  /\ imageURL' = NoObj /\ image' = nil
  /\ UNCHANGED <<cache, sets, excuses, loadVars, registered>>

GivenURL(u) ==
  /\ sets < MaxSets
  /\ sets' = sets + 1
  /\ imageURL' = [url |-> u, id |-> sets + 1]

setEqualURL(u) ==
  /\ u = imageURL.url
  /\ GivenURL(u)
  /\ excuses' = excuses \cup (IF Quiet THEN {} ELSE {"equal"})
  /\ UNCHANGED <<cache, image, loadVars, registered>>

setImageURL(u) ==
  /\ u # imageURL.url
  /\ GivenURL(u)
  /\ loads' = loads \cup {imageURL'}
  /\ excuses' = {}
  /\ UNCHANGED <<cache, image, main, downloads, registered>>

Usable(data) == data.size \in {"mid", "full"}

loadDataInBackground(o) ==
  /\ o \in loads
  /\ loads' = loads \ {o}
  /\ IF Usable(cache[o.url]) THEN OnMain("downloadDidSuccess", cache[o.url].of)
     ELSE OnMain("startDownloading", o)
  /\ UNCHANGED <<cache, viewVars, downloads, registered>>
-----------------------------------------------------------------------------
(* The calls on the main thread. *)
NextCall(sel) ==
  /\ main # << >>
  /\ Head(main).sel = sel
  /\ main' = Tail(main)

startDownloading_once ==
  /\ NextCall("startDownloading")
  /\ downloads' = IF downloads # {} THEN downloads
                  ELSE {[obj |-> Head(main).what, over |-> FALSE]}
  /\ UNCHANGED <<cache, viewVars, loads, registered>>

startDownloading ==
  /\ NextCall("startDownloading")
  /\ downloads' = downloads \cup {[obj |-> Head(main).what, over |-> FALSE]}
  /\ UNCHANGED <<cache, viewVars, loads, registered>>

Foreign(of) == IF of = imageURL.url THEN {} ELSE {"foreign"}

downloadDidSuccess_always ==
  /\ NextCall("downloadDidSuccess")
  /\ image' = Head(main).what
  /\ excuses' = excuses \cup Foreign(image')
  /\ UNCHANGED <<cache, imageURL, sets, loads, downloads, registered>>

downloadDidSuccess ==
  /\ NextCall("downloadDidSuccess")
  /\ LET of == Head(main).what IN
       IF imageURL = NoObj THEN UNCHANGED <<image, excuses>>
       ELSE image' = of /\ excuses' = excuses \cup Foreign(of)
  /\ UNCHANGED <<cache, imageURL, sets, loads, downloads, registered>>

downloadDidFail ==
  /\ NextCall("downloadDidFail")
  /\ image' = nil
  /\ excuses' = excuses \cup {"failed"}
  /\ UNCHANGED <<cache, imageURL, sets, loads, downloads, registered>>
-----------------------------------------------------------------------------
(* The answer of a download: too short, an error, or a picture, which is   *)
(* cached first and shown if imageURL is still the same object.            *)
Answered_currentURL(d, size) ==
  /\ d \in downloads /\ ~d.over
  /\ size = "full" /\ imageURL # NoObj
  /\ updateCache(imageURL.url, d.obj.url, size)
  /\ downloads' = (downloads \ {d}) \cup {[d EXCEPT !.over = TRUE]}
  /\ UNCHANGED <<viewVars, loads, main, registered>>

Answered(d, size) ==
  /\ d \in downloads /\ ~d.over
  /\ size = "full"
  /\ updateCache(d.obj.url, d.obj.url, size)
  /\ downloads' = (downloads \ {d}) \cup {[d EXCEPT !.over = TRUE]}
  /\ UNCHANGED <<viewVars, loads, main, registered>>

Failed(d) ==
  /\ d \in downloads /\ ~d.over
  /\ downloads' = downloads \ {d}
  /\ OnMain("downloadDidFail", nil)
  /\ UNCHANGED <<cache, viewVars, loads, registered>>

CheckURL(d) ==
  /\ d \in downloads /\ d.over
  /\ downloads' = downloads \ {d}
  /\ IF imageURL = d.obj THEN OnMain("downloadDidSuccess", d.obj.url)
     ELSE UNCHANGED main
  /\ UNCHANGED <<cache, viewVars, loads, registered>>
-----------------------------------------------------------------------------
(* registerForName:block: and the block. *)
Stage(c, s, of) ==
  registered' = [registered EXCEPT ![c].stage = s, ![c].of = of]

registerForURL(c, u) ==
  /\ registered[c].stage = "idle"
  /\ registered' = [registered EXCEPT ![c] =
       IF cache[u] = NoData THEN [url |-> u, stage |-> "waiting", of |-> nil]
       ELSE [url |-> u, stage |-> "done", of |-> cache[u].of]]
  /\ UNCHANGED <<cache, viewVars, loadVars>>

DataTask(c, size) ==
  /\ registered[c].stage = "waiting"
  /\ size # "tiny"
  /\ updateCache(registered[c].url, registered[c].url, size)
  /\ Stage(c, "block", registered[c].url)
  /\ UNCHANGED <<viewVars, loadVars>>

DataTaskFailed_silent(c) ==
  /\ registered[c].stage = "waiting"
  /\ Stage(c, "idle", nil)
  /\ UNCHANGED <<cache, viewVars, loadVars>>

DataTaskFailed(c) ==
  /\ registered[c].stage = "waiting"
  /\ Stage(c, "block", nil)
  /\ UNCHANGED <<cache, viewVars, loadVars>>

Block(c) ==
  /\ registered[c].stage = "block"
  /\ Stage(c, "done", registered[c].of)
  /\ UNCHANGED <<cache, viewVars, loadVars>>
-----------------------------------------------------------------------------
clearCache ==
  /\ cache' = [u \in Url |-> NoData]
  /\ UNCHANGED <<viewVars, loadVars, registered>>

clearsCacheEntryForURL(u) ==
  /\ cache' = [cache EXCEPT ![u] = NoData]
  /\ UNCHANGED <<viewVars, loadVars, registered>>
-----------------------------------------------------------------------------
View ==
  \/ setNil
  \/ \E u \in Url : setEqualURL(u) \/ setImageURL(u)
  \/ \E o \in loads : loadDataInBackground(o)

Main == startDownloading \/ downloadDidSuccess \/ downloadDidFail

Network ==
  \/ \E d \in downloads : Failed(d) \/ CheckURL(d)
  \/ \E d \in downloads, s \in Size : Answered(d, s)

Register ==
  \/ \E c \in Call, u \in Url : registerForURL(c, u)
  \/ \E c \in Call, s \in Size : DataTask(c, s)
  \/ \E c \in Call : DataTaskFailed(c) \/ Block(c)

Clear == clearCache \/ \E u \in Url : clearsCacheEntryForURL(u)

Next == View \/ Main \/ Network \/ Register \/ Clear

(* Every data task ends, by its timeout at the latest, and the main queue  *)
(* runs its blocks.                                                        *)
Fairness ==
  \A c \in Call :
    /\ WF_vars(DataTaskFailed(c) \/ \E s \in Size : DataTask(c, s))
    /\ WF_vars(Block(c))

Spec == Init /\ [][Next]_vars /\ Fairness
-----------------------------------------------------------------------------
(* The variables have the right types. *)
Obj == [url : Url, id : 1 .. MaxSets]
Data == [of : Url, size : {"short", "mid", "full"}]
TypeOK ==
  /\ cache \in [Url -> Data \cup {NoData}]
  /\ imageURL \in Obj \cup {NoObj}
  /\ image \in Url \cup {nil}
  /\ loads \subseteq Obj
  /\ main \in Seq([sel : {"startDownloading"}, what : Obj]
                  \cup [sel : {"downloadDidSuccess"}, what : Url]
                  \cup [sel : {"downloadDidFail"}, what : {nil}])
  /\ downloads \subseteq [obj : Obj, over : BOOLEAN]
  /\ registered \in [Call -> [url : Url \cup {nil}, of : Url \cup {nil},
                              stage : {"idle", "waiting", "block", "done"}]]
  /\ sets \in 0 .. MaxSets
  /\ excuses \subseteq {"failed", "foreign", "equal"}

(* The file of a URL holds the picture of that URL, and every block gets   *)
(* the picture it asked for or nothing, however the view's URL changed     *)
(* while the downloads were under way.                                     *)
OwnData ==
  /\ \A u \in Url : cache[u].of \in {u, nil}
  /\ \A c \in Call : registered[c].of \in {registered[c].url, nil}

(* A view without a URL shows nothing: a load that ends late does not put  *)
(* a picture into a view that has been cleared.                            *)
BlankWithoutURL == imageURL = NoObj => image = nil

(* When nothing is under way any more the view shows the picture of its    *)
(* URL, unless since that URL was given a load failed, a picture of an     *)
(* earlier URL came late, or the same URL was given again meanwhile.       *)
SettledShowsURL ==
  Quiet /\ imageURL # NoObj => image = imageURL.url \/ excuses # {}

(* Every registered block is called in the end. *)
EveryBlockCalled ==
  \A c \in Call : registered[c].stage = "waiting" ~> registered[c].stage = "done"
=============================================================================
