---------------------------- MODULE Parts_proofs ----------------------------
(***************************************************************************)
(* What TLAPS proves of the lazy images and of the small parts: the table, *)
(* the tunnel, the database, the page and its numbers.                     *)
(*                                                                         *)
(* LazyImage is extended, the parts are the instances of MCParts.  Each of *)
(* these is proved by itself, for any constants, and every behaviour of    *)
(* PartsSpec is one of each part.                                          *)
(***************************************************************************)
EXTENDS LazyImage, MCParts, SequenceTheorems, FiniteSetTheorems, WellFoundedInduction, TLAPS

List == INSTANCE Arrays_proofs

StartCall == [sel : {"startDownloading"}, what : Obj]
SuccessCall == [sel : {"downloadDidSuccess"}, what : Url]
FailCall == [sel : {"downloadDidFail"}, what : {nil}]
MainCall == StartCall \cup SuccessCall \cup FailCall

(* What can still decide the picture of the view's URL: its load, a call   *)
(* on the main thread or its download.                                     *)
Decides(call) ==
  \/ call.sel = "downloadDidFail"
  \/ call.sel = "startDownloading" /\ call.what = imageURL
  \/ call.sel = "downloadDidSuccess" /\ call.what = imageURL.url
Queued == \E i \in 1 .. Len(main) : Decides(main[i])
UnderWay ==
  \/ imageURL \in loads
  \/ Queued
  \/ \E d \in downloads : d.obj = imageURL

(* The view shows the picture of its URL, or something is under way that   *)
(* decides it, or it is excused.                                           *)
ShownInv ==
  imageURL # NoObj => image = imageURL.url \/ excuses # {} \/ UnderWay

(* A data task has a URL. *)
AskedURL == \A c \in Call : registered[c].stage = "waiting" => registered[c].url \in Url

IInv == TypeOK /\ AskedURL /\ OwnData /\ BlankWithoutURL /\ ShownInv
-----------------------------------------------------------------------------
(* The call the main thread makes next, and a call it gets. *)
LEMMA NextCallType ==
  ASSUME TypeOK, NEW sel, NextCall(sel)
  PROVE  /\ main' \in Seq(MainCall)
         /\ Head(main) \in MainCall /\ Head(main).sel = sel
         /\ sel = "startDownloading" => Head(main).what \in Obj
         /\ sel = "downloadDidSuccess" => Head(main).what \in Url
<1>1. main \in Seq(MainCall) /\ main # << >> /\ main' = Tail(main) /\ Head(main).sel = sel
  BY DEF TypeOK, NextCall, MainCall, StartCall, SuccessCall, FailCall
<1>2. Head(main) \in MainCall /\ main' \in Seq(MainCall)
  BY <1>1, HeadTailProperties
<1>3. QED
  BY <1>1, <1>2 DEF MainCall, StartCall, SuccessCall, FailCall

LEMMA OnMainType ==
  ASSUME TypeOK, NEW sel, NEW what, [sel |-> sel, what |-> what] \in MainCall,
         OnMain(sel, what)
  PROVE  /\ main' \in Seq(MainCall)
         /\ Queued => \E i \in 1 .. Len(main') : Decides(main'[i])
         /\ Decides([sel |-> sel, what |-> what]) =>
              \E i \in 1 .. Len(main') : Decides(main'[i])
<1>1. main \in Seq(MainCall)
  BY DEF TypeOK, MainCall, StartCall, SuccessCall, FailCall
<1>2. main' = Append(main, [sel |-> sel, what |-> what])
  BY DEF OnMain
<1>3. /\ main' \in Seq(MainCall)
      /\ Len(main') = Len(main) + 1
      /\ \A i \in 1 .. Len(main) : main'[i] = main[i]
      /\ main'[Len(main) + 1] = [sel |-> sel, what |-> what]
      /\ Len(main) \in Nat
  BY <1>1, <1>2, AppendProperties, LenProperties
<1>4. QED
  BY <1>3 DEF Queued
-----------------------------------------------------------------------------
(* The types. *)
LEMMA UpdateType ==
  ASSUME TypeOK, NEW u \in Url, NEW size \in Size \ {"tiny"}, updateCache(u, u, size)
  PROVE  cache' \in [Url -> Data \cup {NoData}]
BY DEF TypeOK, updateCache, Data, Size

(* A registered call keeps its shape when its stage and its picture move. *)
LEMMA StageType ==
  ASSUME TypeOK, NEW c \in Call, NEW s \in {"idle", "waiting", "block", "done"},
         NEW of \in Url \cup {nil}, Stage(c, s, of)
  PROVE  registered' \in [Call -> [url : Url \cup {nil}, of : Url \cup {nil},
                                  stage : {"idle", "waiting", "block", "done"}]]
<1> DEFINE call == [url : Url \cup {nil}, of : Url \cup {nil},
                    stage : {"idle", "waiting", "block", "done"}]
           to == [registered[c] EXCEPT !.stage = s, !.of = of]
<1>1. registered \in [Call -> call] /\ registered[c] \in call
  BY DEF TypeOK
<1>2. to \in call
  <2> DEFINE moved == [registered[c] EXCEPT !.stage = s]
  <2>1. moved \in call
    BY <1>1
  <2> HIDE DEF moved
  <2>2. [moved EXCEPT !.of = of] \in call
    BY <2>1
  <2>3. QED
    BY <2>2 DEF moved
<1> HIDE DEF call
<1>3. registered' = [registered EXCEPT ![c] = to]
  BY <1>1 DEF Stage
<1> HIDE DEF to
<1>4. registered' \in [Call -> call]
  BY <1>1, <1>2, <1>3
<1>5. QED
  BY <1>4 DEF call

(* A stage that moves moves one call, and leaves it its URL. *)
LEMMA StageMoves ==
  ASSUME TypeOK, NEW c \in Call, NEW s \in {"idle", "waiting", "block", "done"},
         NEW of \in Url \cup {nil}, Stage(c, s, of)
  PROVE  /\ \A k \in Call \ {c} : registered'[k] = registered[k]
         /\ registered'[c] = [url |-> registered[c].url, of |-> of, stage |-> s]
<1> DEFINE call == [url : Url \cup {nil}, of : Url \cup {nil},
                    stage : {"idle", "waiting", "block", "done"}]
           moved == [registered[c] EXCEPT !.stage = s]
           to == [moved EXCEPT !.of = of]
<1>1. registered \in [Call -> call] /\ registered[c] \in call
  BY DEF TypeOK
<1>2. moved = [url |-> registered[c].url, of |-> registered[c].of, stage |-> s]
  BY <1>1
<1>3. registered' = [registered EXCEPT ![c] = to]
  BY <1>1 DEF Stage
<1> HIDE DEF call, moved
<1>4. to = [url |-> registered[c].url, of |-> of, stage |-> s]
  BY <1>2
<1> HIDE DEF to
<1>5. QED
  BY <1>1, <1>3, <1>4

LEMMA TypeStep ==
  ASSUME TypeOK, AskedURL, [Next]_vars
  PROVE  TypeOK'
<1> USE SetsAssumption
<1>1. CASE setNil
  BY <1>1 DEF TypeOK, setNil, loadVars
<1>2. ASSUME NEW u \in Url, setEqualURL(u) \/ setImageURL(u)
      PROVE  TypeOK'
  <2>1. imageURL' \in Obj /\ sets' \in 0 .. MaxSets
    BY <1>2 DEF TypeOK, setEqualURL, setImageURL, GivenURL, Obj
  <2>2. QED
    BY <1>2, <2>1 DEF TypeOK, setEqualURL, setImageURL, loadVars
<1>3. ASSUME NEW o \in loads, loadDataInBackground(o)
      PROVE  TypeOK'
  <2>1. o \in Obj /\ o.url \in Url
    BY DEF TypeOK, Obj
  <2>2. main' \in Seq(MainCall)
    <3>1. CASE Usable(cache[o.url])
      <4>1. cache[o.url].of \in Url
        BY <2>1, <3>1 DEF TypeOK, Usable, Data, NoData
      <4>2. [sel |-> "downloadDidSuccess", what |-> cache[o.url].of] \in MainCall
        BY <4>1 DEF MainCall, SuccessCall
      <4>3. QED
        BY <1>3, <3>1, <4>2, OnMainType DEF loadDataInBackground
    <3>2. CASE ~Usable(cache[o.url])
      <4>1. [sel |-> "startDownloading", what |-> o] \in MainCall
        BY <2>1 DEF MainCall, StartCall
      <4>2. QED
        BY <1>3, <3>2, <4>1, OnMainType DEF loadDataInBackground
    <3>3. QED
      BY <3>1, <3>2
  <2>3. QED
    BY <1>3, <2>2 DEF TypeOK, loadDataInBackground, viewVars, MainCall, StartCall,
                      SuccessCall, FailCall
<1>4. CASE startDownloading
  <2>1. main' \in Seq(MainCall) /\ Head(main).what \in Obj
    BY <1>4, NextCallType DEF startDownloading
  <2>2. [obj |-> Head(main).what, over |-> FALSE] \in [obj : Obj, over : BOOLEAN]
    BY <2>1
  <2>3. downloads' \subseteq [obj : Obj, over : BOOLEAN]
    BY <1>4, <2>2 DEF TypeOK, startDownloading
  <2>4. QED
    BY <1>4, <2>1, <2>3 DEF TypeOK, startDownloading, viewVars, MainCall, StartCall,
                            SuccessCall, FailCall
<1>5. CASE downloadDidSuccess
  <2>1. main' \in Seq(MainCall) /\ Head(main).what \in Url
    BY <1>5, NextCallType DEF downloadDidSuccess
  <2>2. QED
    BY <1>5, <2>1 DEF TypeOK, downloadDidSuccess, Foreign, MainCall, StartCall, SuccessCall,
                      FailCall
<1>6. CASE downloadDidFail
  <2>1. main' \in Seq(MainCall)
    BY <1>6, NextCallType DEF downloadDidFail
  <2>2. QED
    BY <1>6, <2>1 DEF TypeOK, downloadDidFail, MainCall, StartCall, SuccessCall, FailCall
<1>7. ASSUME NEW d \in downloads, Failed(d)
      PROVE  TypeOK'
  <2>1. main' \in Seq(MainCall)
    <3>1. [sel |-> "downloadDidFail", what |-> nil] \in MainCall
      BY DEF MainCall, FailCall
    <3>2. QED
      BY <1>7, <3>1, OnMainType DEF Failed
  <2>2. QED
    BY <1>7, <2>1 DEF TypeOK, Failed, viewVars, MainCall, StartCall, SuccessCall, FailCall
<1>8. ASSUME NEW d \in downloads, CheckURL(d)
      PROVE  TypeOK'
  <2>1. d.obj.url \in Url
    BY DEF TypeOK, Obj
  <2>2. [sel |-> "downloadDidSuccess", what |-> d.obj.url] \in MainCall
    BY <2>1 DEF MainCall, SuccessCall
  <2>3. main' \in Seq(MainCall)
    BY <1>8, <2>2, OnMainType DEF CheckURL, TypeOK, MainCall, StartCall, SuccessCall, FailCall
  <2>4. QED
    BY <1>8, <2>3 DEF TypeOK, CheckURL, viewVars, MainCall, StartCall, SuccessCall, FailCall
<1>9. ASSUME NEW d \in downloads, NEW s \in Size, Answered(d, s)
      PROVE  TypeOK'
  <2>1. d.obj.url \in Url /\ [d EXCEPT !.over = TRUE] \in [obj : Obj, over : BOOLEAN]
    <3>1. d \in [obj : Obj, over : BOOLEAN]
      BY DEF TypeOK
    <3>2. d.obj.url \in Url
      BY <3>1 DEF Obj
    <3>3. [d EXCEPT !.over = TRUE] \in [obj : Obj, over : BOOLEAN]
      BY <3>1
    <3>4. QED
      BY <3>2, <3>3
  <2>2. cache' \in [Url -> Data \cup {NoData}]
    BY <1>9, <2>1, UpdateType DEF Answered, Size
  <2>3. QED
    BY <1>9, <2>1, <2>2 DEF TypeOK, Answered, viewVars
<1>10. ASSUME NEW c \in Call, NEW u \in Url, registerForURL(c, u)
       PROVE  TypeOK'
  BY <1>10 DEF TypeOK, registerForURL, viewVars, loadVars, Data, NoData
<1>11. ASSUME NEW c \in Call, NEW s \in Size, DataTask(c, s)
       PROVE  TypeOK'
  <2>1. registered[c].url \in Url
    BY <1>11 DEF AskedURL, DataTask
  <2>2. cache' \in [Url -> Data \cup {NoData}]
    BY <1>11, <2>1, UpdateType DEF DataTask
  <2>3. registered' \in [Call -> [url : Url \cup {nil}, of : Url \cup {nil},
                                  stage : {"idle", "waiting", "block", "done"}]]
    BY <1>11, <2>1, StageType DEF DataTask
  <2>4. QED
    BY <1>11, <2>2, <2>3 DEF TypeOK, DataTask, viewVars, loadVars
<1>12. ASSUME NEW c \in Call, DataTaskFailed(c) \/ Block(c)
       PROVE  TypeOK'
  <2>1. registered[c].of \in Url \cup {nil}
    BY DEF TypeOK
  <2>2. Stage(c, "block", nil) \/ Stage(c, "done", registered[c].of)
    BY <1>12 DEF DataTaskFailed, Block
  <2>3. registered' \in [Call -> [url : Url \cup {nil}, of : Url \cup {nil},
                                  stage : {"idle", "waiting", "block", "done"}]]
    BY <2>1, <2>2, StageType
  <2>4. QED
    BY <1>12, <2>3 DEF TypeOK, DataTaskFailed, Block, viewVars, loadVars
<1>13. CASE Clear
  BY <1>13 DEF TypeOK, Clear, clearCache, clearsCacheEntryForURL, viewVars, loadVars
<1>14. CASE UNCHANGED vars
  BY <1>14 DEF TypeOK, vars, viewVars, loadVars
<1>15. QED
  BY <1>1, <1>2, <1>3, <1>4, <1>5, <1>6, <1>7, <1>8, <1>9, <1>10, <1>11, <1>12, <1>13, <1>14
  DEF Next, View, Main, Network, Register, Clear
-----------------------------------------------------------------------------
(* The parts of the invariant that are not about what the view shows. *)
LEMMA AskedStep ==
  ASSUME TypeOK, AskedURL, [Next]_vars
  PROVE  AskedURL'
<1>1. ASSUME NEW c \in Call, NEW u \in Url, registerForURL(c, u)
      PROVE  AskedURL'
  BY <1>1 DEF TypeOK, AskedURL, registerForURL
<1>2. ASSUME NEW c \in Call, NEW s \in Size, DataTask(c, s)
      PROVE  AskedURL'
  BY <1>2 DEF TypeOK, AskedURL, DataTask, Stage
<1>3. ASSUME NEW c \in Call, DataTaskFailed(c) \/ Block(c)
      PROVE  AskedURL'
  BY <1>3 DEF TypeOK, AskedURL, DataTaskFailed, Block, Stage
<1>4. CASE UNCHANGED registered
  BY <1>4 DEF AskedURL
<1>5. QED
  BY <1>1, <1>2, <1>3, <1>4
  DEF Next, View, Main, Network, Register, Clear, setNil, setEqualURL, setImageURL,
      loadDataInBackground, startDownloading, downloadDidSuccess, downloadDidFail, Failed,
      CheckURL, Answered, clearCache, clearsCacheEntryForURL, vars

LEMMA OwnDataStep ==
  ASSUME TypeOK, AskedURL, OwnData, [Next]_vars
  PROVE  OwnData'
<1>1. ASSUME NEW d \in downloads, NEW s \in Size, Answered(d, s)
      PROVE  OwnData'
  <2>1. d.obj.url \in Url
    BY DEF TypeOK, Obj
  <2>2. QED
    BY <1>1, <2>1 DEF TypeOK, OwnData, Answered, updateCache
<1>2. ASSUME NEW c \in Call, NEW u \in Url, registerForURL(c, u)
      PROVE  OwnData'
  BY <1>2 DEF TypeOK, OwnData, registerForURL
<1>3. ASSUME NEW c \in Call, NEW s \in Size, DataTask(c, s)
      PROVE  OwnData'
  <2>1. registered[c].url \in Url
    BY <1>3 DEF AskedURL, DataTask
  <2>2. \A u \in Url : cache'[u].of \in {u, nil}
    BY <1>3, <2>1 DEF TypeOK, OwnData, DataTask, updateCache
  <2>3. \A k \in Call : registered'[k].of \in {registered'[k].url, nil}
    BY <1>3, <2>1 DEF TypeOK, OwnData, DataTask, Stage
  <2>4. QED
    BY <2>2, <2>3 DEF OwnData
<1>4. ASSUME NEW c \in Call, DataTaskFailed(c) \/ Block(c)
      PROVE  OwnData'
  BY <1>4 DEF TypeOK, OwnData, DataTaskFailed, Block, Stage
<1>5. CASE Clear
  BY <1>5 DEF TypeOK, OwnData, Clear, clearCache, clearsCacheEntryForURL, NoData
<1>6. CASE UNCHANGED <<cache, registered>>
  BY <1>6 DEF OwnData
<1>7. QED
  BY <1>1, <1>2, <1>3, <1>4, <1>5, <1>6
  DEF Next, View, Main, Network, Register, setNil, setEqualURL, setImageURL,
      loadDataInBackground, startDownloading, downloadDidSuccess, downloadDidFail, Failed,
      CheckURL, vars

LEMMA BlankStep ==
  ASSUME TypeOK, BlankWithoutURL, [Next]_vars
  PROVE  BlankWithoutURL'
<1>1. ASSUME NEW u \in Url, setEqualURL(u) \/ setImageURL(u)
      PROVE  BlankWithoutURL'
  <2>1. imageURL'.id = sets + 1 /\ sets \in Nat
    BY <1>1, SetsAssumption DEF TypeOK, setEqualURL, setImageURL, GivenURL
  <2>2. imageURL' # NoObj
    BY <2>1 DEF NoObj
  <2>3. QED
    BY <2>2 DEF BlankWithoutURL
<1>2. CASE setNil \/ downloadDidFail \/ downloadDidSuccess
  BY <1>2 DEF BlankWithoutURL, setNil, downloadDidFail, downloadDidSuccess
<1>3. CASE UNCHANGED <<imageURL, image>>
  BY <1>3 DEF BlankWithoutURL
<1>4. QED
  BY <1>1, <1>2, <1>3
  DEF Next, View, Main, Network, Register, Clear, loadDataInBackground, startDownloading,
      Failed, CheckURL, Answered, registerForURL, DataTask, DataTaskFailed, Block,
      clearCache, clearsCacheEntryForURL, vars, viewVars
-----------------------------------------------------------------------------
(* Taking a call off the main queue loses what was under way only if that  *)
(* call decided it.                                                        *)
LEMMA NextCallQueued ==
  ASSUME TypeOK, NEW sel, NextCall(sel), UNCHANGED imageURL, Queued, ~Decides(Head(main))
  PROVE  Queued'
<1>1. main \in Seq(MainCall) /\ main # << >> /\ main' = Tail(main)
  BY DEF TypeOK, NextCall, MainCall, StartCall, SuccessCall, FailCall
<1>2. PICK i \in 1 .. Len(main) : Decides(main[i])
  BY DEF Queued
<1>3. /\ Len(main) \in Nat /\ Head(main) = main[1]
      /\ Len(main') = Len(main) - 1
      /\ \A j \in 1 .. Len(main') : main'[j] = main[j + 1]
  BY <1>1, HeadTailProperties, LenProperties
<1>4. i # 1
  BY <1>2, <1>3
<1>5. i - 1 \in 1 .. Len(main') /\ main'[i - 1] = main[i]
  BY <1>2, <1>3, <1>4
<1>6. Decides(main[i - 1])'
  BY <1>2, <1>5 DEF Decides
<1>7. QED
  BY <1>5, <1>6 DEF Queued

(* A call added to the main queue keeps what was under way there. *)
LEMMA OnMainQueued ==
  ASSUME TypeOK, NEW sel, NEW what, [sel |-> sel, what |-> what] \in MainCall,
         OnMain(sel, what), UNCHANGED imageURL,
         Queued \/ Decides([sel |-> sel, what |-> what])
  PROVE  Queued'
<1>1. PICK i \in 1 .. Len(main') : Decides(main'[i])
  BY OnMainType
<1>2. Decides(main[i])'
  BY <1>1 DEF Decides
<1>3. QED
  BY <1>2 DEF Queued

LEMMA ShownStep ==
  ASSUME TypeOK, OwnData, BlankWithoutURL, ShownInv, [Next]_vars
  PROVE  ShownInv'
<1>1. CASE setNil
  BY <1>1 DEF setNil, ShownInv
<1>2. ASSUME NEW u \in Url, setEqualURL(u)
      PROVE  ShownInv'
  <2>1. imageURL'.url = imageURL.url /\ image' = image
    BY <1>2 DEF setEqualURL, GivenURL
  <2>2. CASE Quiet
    <3>1. ~UnderWay
      BY <2>2 DEF Quiet, UnderWay, Queued
    <3>2. imageURL = NoObj => image' = imageURL'.url
      BY <2>1 DEF BlankWithoutURL, NoObj
    <3>3. excuses' = excuses
      BY <1>2, <2>2 DEF setEqualURL
    <3>4. QED
      BY <2>1, <3>1, <3>2, <3>3 DEF ShownInv
  <2>3. CASE ~Quiet
    <3>1. "equal" \in excuses'
      BY <1>2, <2>3 DEF setEqualURL
    <3>2. QED
      BY <3>1 DEF ShownInv
  <2>4. QED
    BY <2>2, <2>3
<1>3. ASSUME NEW u \in Url, setImageURL(u)
      PROVE  ShownInv'
  BY <1>3 DEF setImageURL, ShownInv, UnderWay
<1>4. ASSUME NEW o \in loads, loadDataInBackground(o)
      PROVE  ShownInv'
  <2>1. o \in Obj /\ o.url \in Url
    BY DEF TypeOK, Obj
  <2>2. UNCHANGED <<imageURL, image, excuses, downloads>> /\ loads' = loads \ {o}
    BY <1>4 DEF loadDataInBackground, viewVars
  <2>3. Queued \/ o = imageURL => Queued'
    <3>1. CASE Usable(cache[o.url])
      <4>1. cache[o.url].of \in Url
        BY <2>1, <3>1 DEF TypeOK, Usable, Data, NoData
      <4>2. cache[o.url].of = o.url
        BY <2>1, <4>1, NilAssumption DEF OwnData
      <4>3. [sel |-> "downloadDidSuccess", what |-> o.url] \in MainCall
        BY <2>1 DEF MainCall, SuccessCall
      <4>4. OnMain("downloadDidSuccess", o.url)
        BY <1>4, <3>1, <4>2 DEF loadDataInBackground
      <4>5. o = imageURL => Decides([sel |-> "downloadDidSuccess", what |-> o.url])
        BY DEF Decides
      <4>6. QED
        BY <2>2, <4>3, <4>4, <4>5, OnMainQueued
    <3>2. CASE ~Usable(cache[o.url])
      <4>1. [sel |-> "startDownloading", what |-> o] \in MainCall
        BY <2>1 DEF MainCall, StartCall
      <4>2. OnMain("startDownloading", o)
        BY <1>4, <3>2 DEF loadDataInBackground
      <4>3. o = imageURL => Decides([sel |-> "startDownloading", what |-> o])
        BY DEF Decides
      <4>4. QED
        BY <2>2, <4>1, <4>2, <4>3, OnMainQueued
    <3>3. QED
      BY <3>1, <3>2
  <2>4. UnderWay => UnderWay'
    BY <2>2, <2>3 DEF UnderWay
  <2>5. QED
    BY <2>2, <2>4 DEF ShownInv
<1>5. CASE startDownloading
  <2>1. UNCHANGED <<imageURL, image, excuses, loads>>
    BY <1>5 DEF startDownloading, viewVars
  <2>2. NextCall("startDownloading") /\ Head(main).sel = "startDownloading"
    BY <1>5, NextCallType DEF startDownloading
  <2>3. downloads' = downloads \cup {[obj |-> Head(main).what, over |-> FALSE]}
    BY <1>5 DEF startDownloading
  <2>4. CASE Head(main).what = imageURL
    <3>1. [obj |-> imageURL, over |-> FALSE] \in downloads'
      BY <2>3, <2>4
    <3>2. [obj |-> imageURL, over |-> FALSE].obj = imageURL'
      BY <2>1
    <3>3. QED
      BY <3>1, <3>2 DEF ShownInv, UnderWay
  <2>5. CASE Head(main).what # imageURL
    <3>1. ~Decides(Head(main))
      BY <2>2, <2>5 DEF Decides
    <3>2. Queued => Queued'
      BY <2>1, <2>2, <3>1, NextCallQueued
    <3>3. UnderWay => UnderWay'
      BY <2>1, <2>3, <3>2 DEF UnderWay
    <3>4. QED
      BY <2>1, <3>3 DEF ShownInv
  <2>6. QED
    BY <2>4, <2>5
<1>6. CASE downloadDidSuccess
  <2>1. imageURL' = imageURL
    BY <1>6 DEF downloadDidSuccess
  <2>2. CASE imageURL = NoObj
    BY <2>1, <2>2 DEF ShownInv
  <2>3. CASE imageURL # NoObj
    BY <1>6, <2>1, <2>3 DEF downloadDidSuccess, Foreign, ShownInv
  <2>4. QED
    BY <2>2, <2>3
<1>7. CASE downloadDidFail
  BY <1>7 DEF downloadDidFail, ShownInv
<1>8. ASSUME NEW d \in downloads, Failed(d)
      PROVE  ShownInv'
  <2>1. UNCHANGED imageURL
    BY <1>8 DEF Failed, viewVars
  <2>2. [sel |-> "downloadDidFail", what |-> nil] \in MainCall
    BY DEF MainCall, FailCall
  <2>3. Queued'
    BY <1>8, <2>1, <2>2, OnMainQueued DEF Failed, Decides
  <2>4. QED
    BY <2>3 DEF ShownInv, UnderWay
<1>9. ASSUME NEW d \in downloads, CheckURL(d)
      PROVE  ShownInv'
  <2>1. UNCHANGED <<imageURL, image, excuses, loads>> /\ downloads' = downloads \ {d}
    BY <1>9 DEF CheckURL, viewVars
  <2>2. CASE imageURL = d.obj
    <3>1. [sel |-> "downloadDidSuccess", what |-> d.obj.url] \in MainCall
      BY DEF TypeOK, Obj, MainCall, SuccessCall
    <3>2. Queued'
      BY <1>9, <2>1, <2>2, <3>1, OnMainQueued DEF CheckURL, Decides
    <3>3. QED
      BY <3>2 DEF ShownInv, UnderWay
  <2>3. CASE imageURL # d.obj
    <3>1. UnderWay => UnderWay'
      BY <1>9, <2>1, <2>3 DEF CheckURL, UnderWay, Queued, Decides
    <3>2. QED
      BY <2>1, <3>1 DEF ShownInv
  <2>4. QED
    BY <2>2, <2>3
<1>10. ASSUME NEW d \in downloads, NEW s \in Size, Answered(d, s)
       PROVE  ShownInv'
  <2>1. UNCHANGED <<imageURL, image, excuses, loads, main>>
    BY <1>10 DEF Answered, viewVars
  <2>2. downloads' = (downloads \ {d}) \cup {[d EXCEPT !.over = TRUE]}
    BY <1>10 DEF Answered
  <2>3. [d EXCEPT !.over = TRUE].obj = d.obj
    BY DEF TypeOK
  <2>4. UnderWay => UnderWay'
    BY <2>1, <2>2, <2>3 DEF UnderWay, Queued, Decides
  <2>5. QED
    BY <2>1, <2>4 DEF ShownInv
<1>11. CASE UNCHANGED <<viewVars, loadVars>>
  BY <1>11 DEF ShownInv, UnderWay, Queued, Decides, viewVars, loadVars
<1>12. QED
  BY <1>1, <1>2, <1>3, <1>4, <1>5, <1>6, <1>7, <1>8, <1>9, <1>10, <1>11
  DEF Next, View, Main, Network, Register, Clear, registerForURL, DataTask, DataTaskFailed,
      Block, clearCache, clearsCacheEntryForURL, vars
-----------------------------------------------------------------------------
(* The inductive invariant: the types, whose picture each file and block   *)
(* has, and that what the view shows is right, excused or still under way. *)
THEOREM Invariance == Spec => []IInv
<1>1. Init => IInv
  <2> SUFFICES ASSUME Init PROVE IInv
    OBVIOUS
  <2>1. TypeOK
    BY SetsAssumption DEF Init, TypeOK
  <2>2. AskedURL /\ OwnData /\ BlankWithoutURL /\ ShownInv
    BY DEF Init, AskedURL, OwnData, BlankWithoutURL, ShownInv, NoData
  <2>3. QED
    BY <2>1, <2>2 DEF IInv
<1>2. IInv /\ [Next]_vars => IInv'
  BY TypeStep, AskedStep, OwnDataStep, BlankStep, ShownStep DEF IInv
<1>3. QED
  BY <1>1, <1>2, PTL DEF Spec

(* The types hold at every step, the calls of the main queue included. *)
THEOREM TypeCorrect == Spec => []TypeOK
BY Invariance, PTL DEF IInv

(* A cache file or a block never gets the picture of another URL, whatever *)
(* the view's URL becomes during the downloads: their handlers write the   *)
(* file of the URL they asked for.                                         *)
THEOREM OwnDataHolds == Spec => []OwnData
BY Invariance, PTL DEF IInv

(* A cleared view stays blank: downloadDidSuccess: looks at imageURL. *)
THEOREM BlankHolds == Spec => []BlankWithoutURL
BY Invariance, PTL DEF IInv

(* When nothing is under way the view shows the picture of its URL, or one *)
(* of the three excuses holds: a failed load, a late picture of an earlier *)
(* URL, an equal URL given during the load.                                *)
THEOREM SettledHolds == Spec => []SettledShowsURL
<1>1. IInv => SettledShowsURL
  BY DEF IInv, ShownInv, SettledShowsURL, Quiet, UnderWay, Queued
<1>2. QED
  BY <1>1, Invariance, PTL

(* A registered call only goes on: while it waits it keeps the URL it      *)
(* asked for, a block that is due keeps its picture until it is called,    *)
(* and none is called twice.                                               *)
BlockKept ==
  [][\A c \in Call :
       /\ registered[c].stage = "waiting" =>
            /\ registered'[c].stage \in {"waiting", "block"}
            /\ registered'[c].url = registered[c].url
       /\ registered[c].stage = "block" =>
            registered'[c] \in {registered[c], [registered[c] EXCEPT !.stage = "done"]}
       /\ registered[c].stage = "done" => registered'[c] = registered[c]]_registered

(* No block is forgotten, whatever becomes of the view, the cache and the  *)
(* network: BlockKept, which is what EveryBlockCalled needs besides        *)
(* fairness (registerForName:block:).                                      *)
THEOREM BlocksKept == Spec => BlockKept
<1> DEFINE Kept(c) ==
      /\ registered[c].stage = "waiting" =>
           /\ registered'[c].stage \in {"waiting", "block"}
           /\ registered'[c].url = registered[c].url
      /\ registered[c].stage = "block" =>
           registered'[c] \in {registered[c], [registered[c] EXCEPT !.stage = "done"]}
      /\ registered[c].stage = "done" => registered'[c] = registered[c]
<1>1. ASSUME TypeOK, [Next]_vars, registered' # registered, NEW c \in Call
      PROVE  Kept(c)
  <2>1. ASSUME NEW k \in Call, NEW u \in Url, registerForURL(k, u)
        PROVE  Kept(c)
    <3>1. registered[k].stage = "idle" /\ (k # c => registered'[c] = registered[c])
      BY <2>1 DEF TypeOK, registerForURL
    <3>2. QED
      BY <3>1
  <2>2. ASSUME NEW k \in Call, (\E s \in Size : DataTask(k, s)) \/ DataTaskFailed(k)
        PROVE  Kept(c)
    <3>1. registered[k] \in [url : Url \cup {nil}, of : Url \cup {nil},
                             stage : {"idle", "waiting", "block", "done"}]
      BY <1>1 DEF TypeOK
    <3>2. /\ registered[k].stage = "waiting"
          /\ Stage(k, "block", registered[k].url) \/ Stage(k, "block", nil)
      BY <2>2 DEF DataTask, DataTaskFailed
    <3>3. /\ \A l \in Call \ {k} : registered'[l] = registered[l]
          /\ registered'[k].stage = "block" /\ registered'[k].url = registered[k].url
      <4>1. ASSUME NEW of \in Url \cup {nil}, Stage(k, "block", of)
            PROVE  /\ \A l \in Call \ {k} : registered'[l] = registered[l]
                   /\ registered'[k] = [url |-> registered[k].url, of |-> of,
                                        stage |-> "block"]
        BY <1>1, <4>1, StageMoves
      <4>2. registered[k].url \in Url \cup {nil} /\ nil \in Url \cup {nil}
        BY <3>1
      <4>3. PICK of \in Url \cup {nil} : Stage(k, "block", of)
        BY <3>2, <4>2, Zenon
      <4>4. /\ \A l \in Call \ {k} : registered'[l] = registered[l]
            /\ registered'[k] = [url |-> registered[k].url, of |-> of, stage |-> "block"]
        BY <4>1, <4>3
      <4>5. QED
        BY <4>4
    <3>4. QED
      BY <3>2, <3>3
  <2>3. ASSUME NEW k \in Call, Block(k)
        PROVE  Kept(c)
    <3>1. registered[k] \in [url : Url \cup {nil}, of : Url \cup {nil},
                             stage : {"idle", "waiting", "block", "done"}]
      BY <1>1 DEF TypeOK
    <3>2. registered[k].stage = "block" /\ Stage(k, "done", registered[k].of)
      BY <2>3 DEF Block
    <3>3. /\ \A l \in Call \ {k} : registered'[l] = registered[l]
          /\ registered'[k] = [url |-> registered[k].url, of |-> registered[k].of,
                               stage |-> "done"]
      BY <1>1, <3>1, <3>2, StageMoves
    <3>4. registered'[k] = [registered[k] EXCEPT !.stage = "done"]
      BY <3>1, <3>3
    <3>5. QED
      BY <3>2, <3>3, <3>4
  <2>4. QED
    BY <1>1, <2>1, <2>2, <2>3
    DEF Next, View, Main, Network, Register, Clear, setNil, setEqualURL, setImageURL,
        loadDataInBackground, startDownloading, downloadDidSuccess, downloadDidFail, Failed,
        CheckURL, Answered, clearCache, clearsCacheEntryForURL, vars, viewVars, loadVars
<1>2. TypeOK /\ [Next]_vars => [\A c \in Call : Kept(c)]_registered
  BY <1>1
<1>3. QED
  BY <1>2, TypeCorrect, PTL DEF Spec, BlockKept
-----------------------------------------------------------------------------
(* What the parts do together is what each does alone. *)
LEMMA TableAlone == PartsSpec => Table!Spec
<1>1. PartsInit => Table!Init
  BY DEF PartsInit
<1>2. [PartsNext]_partsV => [Table!Next]_(Table!tableVars)
  BY DEF PartsNext, TablePage, TableScreen, TunnelApp, TunnelUser, TunnelSystem, Database,
         PagePage, PageScreen, TableRuns, TunnelRuns, DBRuns, PageRuns,
         Table!Next, Table!tableVars, tableV, partsV
<1>3. QED
  BY <1>1, <1>2, PTL DEF PartsSpec, Table!Spec

LEMMA TunnelAlone == PartsSpec => Tunnel!Spec
<1>1. PartsInit => Tunnel!Init
  BY DEF PartsInit
<1>2. [PartsNext]_partsV => [Tunnel!Next]_(Tunnel!tunnelVars)
  BY DEF PartsNext, TablePage, TableScreen, TunnelApp, TunnelUser, TunnelSystem, Database,
         PagePage, PageScreen, TableRuns, TunnelRuns, DBRuns, PageRuns,
         Tunnel!Next, Tunnel!tunnelVars, Tunnel!appVars, Tunnel!provider, Tunnel!history,
         tunnelV, partsV
<1>3. QED
  BY <1>1, <1>2, PTL DEF PartsSpec, Tunnel!Spec

LEMMA DBAlone == PartsSpec => DB!Spec
<1>1. PartsInit => DB!Init
  BY DEF PartsInit
<1>2. [PartsNext]_partsV => [DB!Next]_(DB!dbVars)
  BY DEF PartsNext, TablePage, TableScreen, TunnelApp, TunnelUser, TunnelSystem, Database,
         PagePage, PageScreen, TableRuns, TunnelRuns, DBRuns, PageRuns,
         DB!dbVars, dbV, partsV
<1>3. QED
  BY <1>1, <1>2, PTL DEF PartsSpec, DB!Spec

LEMMA PageAlone == PartsSpec => Page!Spec
<1>1. PartsInit => Page!Init
  BY DEF PartsInit
<1>2. [PartsNext]_partsV => [Page!Next]_(Page!pageVars)
  BY DEF PartsNext, TablePage, TableScreen, TunnelApp, TunnelUser, TunnelSystem, Database,
         PagePage, PageScreen, TableRuns, TunnelRuns, DBRuns, PageRuns,
         Page!Next, Page!pageVars, Page!fieldVars, Page!requestVars, pageV, partsV
<1>3. QED
  BY <1>1, <1>2, PTL DEF PartsSpec, Page!Spec
-----------------------------------------------------------------------------
(* The page: the texts it has of its fields. *)

Text == Texts \cup {Empty, Null}

FieldsShape ==
  /\ shown \in [Fields -> Text] /\ ui2Data \in [Fields -> Text] /\ echoes \in [Fields -> Nat]
  /\ missed \in SUBSET Fields

RequestsShape ==
  /\ requests \in [Requests -> {"none", "sent", "ended"}]
  /\ overlay \in BOOLEAN /\ held \in BOOLEAN /\ receiver \in BOOLEAN

PageInv == FieldsShape /\ RequestsShape /\ Page!FieldsAgree /\ Page!OverlayHasReason

LEMMA PageInit == Page!Init => PageInv
<1> SUFFICES ASSUME Page!Init PROVE PageInv
  OBVIOUS
<1>1. FieldsShape
  BY DEF Page!Init, FieldsShape, Text
<1>2. RequestsShape
  BY DEF Page!Init, RequestsShape
<1>3. Page!FieldsAgree /\ Page!OverlayHasReason
  BY DEF Page!Init, Page!FieldsAgree, Page!OverlayHasReason
<1> QED
  BY <1>1, <1>2, <1>3 DEF PageInv
-----------------------------------------------------------------------------
(* What leaves the fields and their texts alone. *)
LEMMA FieldsKept ==
  ASSUME FieldsShape, Page!FieldsAgree, UNCHANGED Page!fieldVars, boot # "loading" \/ boot' = boot
  PROVE  FieldsShape' /\ Page!FieldsAgree'
BY DEF FieldsShape, Page!FieldsAgree, Page!fieldVars

(* What leaves the requests and the overlay alone. *)
LEMMA RequestsKept ==
  ASSUME RequestsShape, Page!OverlayHasReason, UNCHANGED Page!requestVars, receiver' \in BOOLEAN
  PROVE  RequestsShape' /\ Page!OverlayHasReason'
BY DEF RequestsShape, Page!OverlayHasReason, Page!requestVars
-----------------------------------------------------------------------------
(* A text that is sent to a field is told back later, so that the field is *)
(* not quiet; a field the message does not reach is missed.                *)
LEMMA BootAgrees == ASSUME PageInv, Page!Boot PROVE FieldsShape' /\ Page!FieldsAgree'
BY DEF PageInv, FieldsShape, Page!Boot, Text, Page!FieldsAgree

LEMMA SetAgrees ==
  ASSUME PageInv, NEW f \in Fields, NEW v \in Texts \cup {Empty}, Page!Set(f, v)
  PROVE  FieldsShape' /\ Page!FieldsAgree'
<1> USE DEF PageInv, FieldsShape, Page!Set, Page!Changes, Page!datas, Text
<1>1. CASE receiver /\ shown[f] # Null
  <2>1. FieldsShape'
    BY <1>1
  <2>2. /\ \A g \in Fields \ {f} : /\ shown'[g] = shown[g] /\ ui2Data'[g] = ui2Data[g]
                                   /\ echoes'[g] = echoes[g]
        /\ echoes'[f] # 0
    BY <1>1
  <2> QED
    BY <1>1, <2>1, <2>2 DEF Page!FieldsAgree
<1>2. CASE ~(receiver /\ shown[f] # Null)
  <2>1. FieldsShape' /\ UNCHANGED <<shown, echoes>> /\ missed' = missed \cup {f}
    BY <1>2
  <2>2. \A g \in Fields \ {f} : ui2Data'[g] = ui2Data[g]
    OBVIOUS
  <2> QED
    BY <2>1, <2>2 DEF Page!FieldsAgree
<1> QED
  BY <1>1, <1>2

LEMMA TellAgrees ==
  ASSUME PageInv, NEW f \in Fields, NEW v \in Texts \cup {Empty}, Page!Tell(f, v)
  PROVE  FieldsShape' /\ Page!FieldsAgree'
<1> USE DEF PageInv, FieldsShape, Page!Tell, Page!Changes, Page!datas, Text
<1>1. FieldsShape'
  OBVIOUS
<1>2. /\ \A g \in Fields \ {f} : shown'[g] = shown[g] /\ echoes'[g] = echoes[g]
      /\ echoes'[f] # 0 \/ UNCHANGED <<shown, echoes>>
  OBVIOUS
<1> QED
  BY <1>1, <1>2 DEF Page!FieldsAgree

(* A text that the page is told is recorded unless it is empty. *)
LEMMA TypeAgrees ==
  ASSUME PageInv, NEW f \in Fields, NEW v \in Texts \cup {Empty}, Page!Type(f, v)
  PROVE  FieldsShape' /\ Page!FieldsAgree'
<1> USE DEF PageInv, FieldsShape, Page!Type, Page!Changes, Page!in, Text
<1>1. FieldsShape'
  OBVIOUS
<1>2. /\ \A g \in Fields \ {f} : shown'[g] = shown[g] /\ ui2Data'[g] = ui2Data[g]
      /\ shown'[f] = v /\ (v # Empty => ui2Data'[f] = v)
      /\ \A g \in Fields \ {f} : g \in missed' <=> g \in missed
  OBVIOUS
<1> QED
  BY <1>1, <1>2 DEF Page!FieldsAgree

LEMMA EchoAgrees ==
  ASSUME PageInv, NEW f \in Fields, Page!Echo(f)
  PROVE  FieldsShape' /\ Page!FieldsAgree'
<1> USE DEF PageInv, FieldsShape, Page!Echo, Page!in, Text
<1>1. FieldsShape'
  OBVIOUS
<1>2. /\ \A g \in Fields \ {f} : /\ ui2Data'[g] = ui2Data[g] /\ echoes'[g] = echoes[g]
                                 /\ g \in missed' <=> g \in missed
      /\ f \in missed' \/ shown[f] = Empty \/ ui2Data'[f] = shown[f]
  OBVIOUS
<1> QED
  BY <1>1, <1>2 DEF Page!FieldsAgree
-----------------------------------------------------------------------------
(* stopLoading of a screen takes the overlay away or, when it is covered,  *)
(* is dropped.                                                             *)
LEMMA StoppedHasReason ==
  ASSUME Page!Stopped, receiver \in BOOLEAN, overlay \in BOOLEAN
  PROVE  overlay' \in BOOLEAN /\ held' \in BOOLEAN /\ (overlay' => held')
BY DEF Page!Stopped

LEMMA GetHasReason ==
  ASSUME PageInv, NEW r \in Requests, Page!get(r)
  PROVE  RequestsShape' /\ Page!OverlayHasReason'
<1> USE DEF PageInv, RequestsShape
<1>1. overlay' \in BOOLEAN /\ receiver' = receiver
  BY DEF Page!get
<1>2. CASE requests' = [requests EXCEPT ![r] = "sent"] /\ held' = held
  <2>1. requests'[r] = "sent" /\ requests' \in [Requests -> {"none", "sent", "ended"}]
    BY <1>2
  <2> QED
    BY <1>1, <1>2, <2>1 DEF Page!OverlayHasReason
<1>3. CASE requests' = [requests EXCEPT ![r] = "ended"] /\ held' = overlay'
  BY <1>1, <1>3 DEF Page!OverlayHasReason
<1> QED
  BY <1>2, <1>3 DEF Page!get

LEMMA EndsHasReason ==
  ASSUME PageInv, NEW r \in Requests, Page!Ends(r)
  PROVE  RequestsShape' /\ Page!OverlayHasReason'
<1> USE DEF PageInv, RequestsShape
<1>1. PICK how \in {"success", "login", "message", "fail", "garbled"} : Page!Answered(r, how)
  BY DEF Page!Ends
<1>2. overlay' \in BOOLEAN /\ held' \in BOOLEAN /\ (overlay' => held')
  BY <1>1, StoppedHasReason DEF Page!Answered
<1>3. receiver' \in BOOLEAN /\ requests' \in [Requests -> {"none", "sent", "ended"}]
  BY DEF Page!Ends
<1> QED
  BY <1>2, <1>3 DEF Page!OverlayHasReason

LEMMA LoadEndsHasReason ==
  ASSUME PageInv, Page!LoadEnds PROVE RequestsShape' /\ Page!OverlayHasReason'
BY StoppedHasReason DEF PageInv, RequestsShape, Page!LoadEnds, Page!OverlayHasReason
-----------------------------------------------------------------------------
LEMMA PageStep == PageInv /\ [Page!Next]_(Page!pageVars) => PageInv'
<1> SUFFICES ASSUME PageInv, [Page!Next]_(Page!pageVars) PROVE PageInv'
  OBVIOUS
<1> USE DEF PageInv
<1>1. CASE Page!Boot
  BY <1>1, BootAgrees, RequestsKept DEF Page!Boot, RequestsShape
<1>2. CASE \E f \in Fields, v \in Texts \cup {Empty} : Page!Set(f, v)
  BY <1>2, SetAgrees, RequestsKept DEF Page!Set, Page!Changes, RequestsShape
<1>3. CASE \E f \in Fields, v \in Texts \cup {Empty} : Page!Tell(f, v)
  BY <1>3, TellAgrees, RequestsKept DEF Page!Tell, Page!Changes, RequestsShape
<1>4. CASE \E f \in Fields, v \in Texts \cup {Empty} : Page!Type(f, v)
  BY <1>4, TypeAgrees, RequestsKept DEF Page!Type, Page!Changes, RequestsShape
<1>5. CASE \E f \in Fields : Page!Echo(f)
  BY <1>5, EchoAgrees, RequestsKept DEF Page!Echo, RequestsShape
<1>6. CASE \E r \in Requests : Page!get(r)
  BY <1>6, GetHasReason, FieldsKept DEF Page!get
<1>7. CASE \E r \in Requests : Page!Ends(r)
  BY <1>7, EndsHasReason, FieldsKept DEF Page!Ends
<1>8. CASE Page!LoadEnds
  BY <1>8, LoadEndsHasReason, FieldsKept DEF Page!LoadEnds
<1>9. CASE Page!Cover \/ Page!Uncover
  BY <1>9, RequestsKept, FieldsKept DEF Page!Cover, Page!Uncover
<1>10. CASE Page!OtherStops
  BY <1>10, FieldsKept DEF Page!OtherStops, RequestsShape, Page!OverlayHasReason
<1>11. CASE UNCHANGED Page!pageVars
  BY <1>11, RequestsKept, FieldsKept DEF Page!pageVars, RequestsShape
<1> QED
  BY <1>1, <1>2, <1>3, <1>4, <1>5, <1>6, <1>7, <1>8, <1>9, <1>10, <1>11
     DEF Page!Next, Page!Page, Page!Screen

THEOREM PageInvariance == Page!Spec => []PageInv
BY PageInit, PageStep, PTL DEF Page!Spec

(* What the page has of a quiet field is what the user sees, for any       *)
(* fields and texts and whatever is set, told, typed or dropped when.      *)
THEOREM FieldsAgreeAlways == PartsSpec => []FieldsAgree
<1>1. PageInv => FieldsAgree
  BY DEF PageInv, FieldsAgree
<1> QED
  BY <1>1, PageAlone, PageInvariance, PTL

(* The overlay is up only for a request under way or for one of the named  *)
(* endings, for any requests and any order of answers and screens.         *)
THEOREM OverlayReasoned == PartsSpec => []OverlayHasReason
<1>1. PageInv => OverlayHasReason
  BY DEF PageInv, OverlayHasReason
<1> QED
  BY <1>1, PageAlone, PageInvariance, PTL
-----------------------------------------------------------------------------
(* What a request signs: sets of numbers have one increasing order. *)
LEMMA SmallestMember ==
  ASSUME NEW T \in SUBSET Nat, T # {}
  PROVE  \E m \in T : \A k \in T : m <= k
<1> DEFINE R == {p \in Nat \X Nat : p[1] < p[2]}
<1>1. IsWellFoundedOn(R, Nat)
  BY NatLessThanWellFounded DEF OpToRel
<1>2. PICK m \in T : \A k \in T : <<k, m>> \notin R
  <2> HIDE DEF R
  <2>1. QED
    BY <1>1, WFMin
<1>3. ASSUME NEW k \in T PROVE m <= k
  <2>1. k \in Nat /\ m \in Nat /\ <<k, m>> \notin R
    BY <1>2
  <2>2. <<k, m>> \in Nat \X Nat /\ <<k, m>>[1] = k /\ <<k, m>>[2] = m
    BY <2>1
  <2>3. ~(k < m)
    BY <2>1, <2>2
  <2>4. QED
    BY <2>1, <2>3
<1>4. QED
  BY <1>3

LEMMA SameCardinality == \A S : Page!Cardinality(S) = Cardinality(S)
BY DEF Page!Cardinality, Cardinality

Increasing(s, T) ==
  /\ s \in [1 .. Cardinality(T) -> T] /\ Page!elements(s) = T
  /\ \A i, j \in DOMAIN s : i < j => s[i] < s[j]

LEMMA OrderExists ==
  ASSUME NEW T \in SUBSET Nat, IsFiniteSet(T)
  PROVE  \E s : Increasing(s, T)
<1> DEFINE Z == {n \in Nat : \A U \in SUBSET Nat :
                   IsFiniteSet(U) /\ Cardinality(U) = n => \E s : Increasing(s, U)}
<1>1. 0 \in Z
  <2> SUFFICES ASSUME NEW U \in SUBSET Nat, IsFiniteSet(U), Cardinality(U) = 0
               PROVE  \E s : Increasing(s, U)
    OBVIOUS
  <2>1. U = {}
    BY FS_EmptySet
  <2> DEFINE empty == [i \in 1 .. 0 |-> 0]
  <2>2. Increasing(empty, U)
    BY <2>1, FS_EmptySet DEF Increasing, Page!elements
  <2>3. QED
    BY <2>2
<1>2. ASSUME NEW n \in Z PROVE n + 1 \in Z
  <2> SUFFICES ASSUME NEW U \in SUBSET Nat, IsFiniteSet(U), Cardinality(U) = n + 1
               PROVE  \E s : Increasing(s, U)
    OBVIOUS
  <2>1. n \in Nat /\ U # {}
    BY FS_EmptySet
  <2>2. PICK m \in U : \A k \in U : m <= k
    BY <2>1, SmallestMember
  <2>3. /\ IsFiniteSet(U \ {m}) /\ Cardinality(U \ {m}) = n
    <3>1. IF m \in U THEN Cardinality(U \ {m}) = Cardinality(U) - 1 ELSE TRUE
      BY FS_RemoveElement
    <3>2. IsFiniteSet(U \ {m})
      BY FS_RemoveElement
    <3>3. QED
      BY <2>1, <3>1, <3>2
  <2>4. PICK s : Increasing(s, U \ {m})
    BY <2>3
  <2> HIDE DEF Z
  <2> DEFINE t == [i \in 1 .. n + 1 |-> IF i = 1 THEN m ELSE s[i - 1]]
  <2>5. /\ s \in [1 .. n -> U \ {m}] /\ {s[i] : i \in 1 .. n} = U \ {m}
        /\ \A i, j \in 1 .. n : i < j => s[i] < s[j]
    BY <2>3, <2>4 DEF Increasing, Page!elements
  <2>6. t \in [1 .. n + 1 -> U]
    BY <2>1, <2>5
  <2>7. {t[i] : i \in 1 .. n + 1} = U
    <3>1. ASSUME NEW k \in U PROVE \E i \in 1 .. n + 1 : t[i] = k
      <4>1. CASE k = m
        BY <4>1, <2>1
      <4>2. CASE k # m
        <5>1. PICK i \in 1 .. n : s[i] = k
          BY <4>2, <2>5
        <5>2. i + 1 \in 1 .. n + 1 /\ t[i + 1] = k
          BY <5>1, <2>1
        <5>3. QED
          BY <5>2
      <4>3. QED
        BY <4>1, <4>2
    <3> HIDE DEF t
    <3>2. QED
      BY <3>1, <2>6
  <2>8. ASSUME NEW i \in 1 .. n + 1, NEW j \in 1 .. n + 1, i < j PROVE t[i] < t[j]
    <3>1. j - 1 \in 1 .. n /\ t[j] = s[j - 1] /\ s[j - 1] \in U \ {m}
      BY <2>1, <2>5, <2>8
    <3>2. CASE i = 1
      <4>1. t[i] = m /\ m <= s[j - 1] /\ m # s[j - 1] /\ m \in Nat /\ s[j - 1] \in Nat
        BY <3>1, <3>2, <2>2
      <4> HIDE DEF t
      <4>2. QED
        BY <4>1, <3>1
    <3>3. CASE i # 1
      <4>1. i - 1 \in 1 .. n /\ t[i] = s[i - 1] /\ i - 1 < j - 1
        BY <3>3, <2>1, <2>8
      <4>2. QED
        BY <4>1, <3>1, <2>5
    <3>4. QED
      BY <3>2, <3>3
  <2> HIDE DEF t
  <2>9. Increasing(t, U)
    BY <2>6, <2>7, <2>8 DEF Increasing, Page!elements
  <2>10. QED
    BY <2>9
<1>3. Cardinality(T) \in Nat
  BY FS_CardinalityType
<1>4. Nat = Z
  <2> HIDE DEF Z
  <2>1. Z \in SUBSET Nat
    BY DEF Z
  <2>2. QED
    BY <1>1, <1>2, <2>1, List!SetInduction
<1>5. QED
  BY <1>3, <1>4

LEMMA IncreasingIs ==
  ASSUME NEW T \in SUBSET Nat, IsFiniteSet(T)
  PROVE  Increasing(Page!increasing(T), T)
<1>1. PICK s : Increasing(s, T)
  BY OrderExists
<1>2. Cardinality(T) = Page!Cardinality(T)
  BY SameCardinality
<1>3. \E e \in [1 .. Page!Cardinality(T) -> T] :
        /\ Page!elements(e) = T
        /\ \A i, j \in DOMAIN e : i < j => e[i] < e[j]
  BY <1>1, <1>2 DEF Increasing
<1> DEFINE t == Page!increasing(T)
<1>4. /\ t \in [1 .. Page!Cardinality(T) -> T] /\ Page!elements(t) = T
      /\ \A i, j \in DOMAIN t : i < j => t[i] < t[j]
  BY <1>3 DEF Page!increasing
<1> HIDE DEF t
<1>5. Increasing(t, T)
  BY <1>2, <1>4 DEF Increasing
<1>6. QED
  BY <1>5 DEF t

LEMMA FiniteIndices ==
  ASSUME NEW n \in Nat, NEW T \in SUBSET (1 .. n)
  PROVE  T \in SUBSET Nat /\ IsFiniteSet(T)
<1>1. IsFiniteSet(1 .. n)
  BY FS_Interval
<1>2. IsFiniteSet(T)
  BY <1>1, FS_Subset
<1>3. QED
  BY <1>2

Pair == [key : Nat, val : {"text", "empty", "zero"}]
KeySorted(s) ==
  \A i, j \in DOMAIN s : i < j => s[i].key < s[j].key

(* objKeySort: the pairs of obj, in the order of their keys. *)
LEMMA KeysSorted ==
  ASSUME NEW obj \in Seq(Pair)
  PROVE  LET sorted == Page!objKeySort(obj) IN
           /\ \E n \in Nat : sorted \in [1 .. n -> Pair]
           /\ Page!elements(sorted) \subseteq Page!elements(obj)
           /\ KeySorted(sorted)
<1> DEFINE keys == {obj[i].key : i \in DOMAIN obj}
           newkey == Page!increasing(keys)
           pair(n) == CHOOSE p \in Page!elements(obj) : p.key = newkey[n]
           sorted == [n \in DOMAIN newkey |-> pair(n)]
<1>1. keys \in SUBSET Nat /\ IsFiniteSet(keys)
  <2>1. Len(obj) \in Nat /\ DOMAIN obj = 1 .. Len(obj) /\ \A i \in DOMAIN obj : obj[i] \in Pair
    OBVIOUS
  <2>2. IsFiniteSet(DOMAIN obj)
    BY <2>1, FiniteIndices
  <2> DEFINE f == [i \in DOMAIN obj |-> obj[i].key]
  <2>3. f \in Surjection(DOMAIN obj, keys)
    BY DEF Surjection
  <2> HIDE DEF keys, f
  <2>4. IsFiniteSet(keys)
    BY <2>2, <2>3, FS_Surjection
  <2>5. QED
    BY <2>1, <2>4 DEF Pair, keys
<1> HIDE DEF keys, newkey
<1>2. /\ Increasing(newkey, keys)
      /\ Cardinality(keys) \in Nat
  BY <1>1, IncreasingIs, FS_CardinalityType DEF newkey
<1>3. \A n \in DOMAIN newkey : pair(n) \in Page!elements(obj) /\ pair(n).key = newkey[n]
  <2> SUFFICES ASSUME NEW n \in DOMAIN newkey
               PROVE  \E p \in Page!elements(obj) : p.key = newkey[n]
    OBVIOUS
  <2>1. newkey[n] \in keys
    BY <1>2 DEF Increasing
  <2>2. QED
    BY <2>1 DEF keys, Page!elements
<1> HIDE DEF pair
<1>4. Page!elements(obj) \subseteq Pair
  BY DEF Page!elements
<1>5. sorted \in [1 .. Cardinality(keys) -> Pair]
  BY <1>2, <1>3, <1>4 DEF Increasing
<1>6. Page!elements(sorted) \subseteq Page!elements(obj)
  BY <1>3 DEF Page!elements
<1>7. KeySorted(sorted)
  BY <1>2, <1>3 DEF KeySorted, Increasing
<1>8. Page!objKeySort(obj) = sorted
  BY DEF Page!objKeySort, keys, newkey, pair
<1> HIDE DEF sorted
<1>9. QED
  BY <1>2, <1>5, <1>6, <1>7, <1>8

(* formatData: what is signed keeps the order of the keys. *)
LEMMA FormatKeepsOrder ==
  ASSUME NEW n \in Nat, NEW fd \in [1 .. n -> Pair], KeySorted(fd)
  PROVE  KeySorted(Page!formatData(fd))
<1> DEFINE T == {i \in DOMAIN fd : fd[i].val \notin {"empty", "zero"}}
           kept == Page!increasing(T)
<1>1. T \in SUBSET (1 .. n)
  OBVIOUS
<1> HIDE DEF T, kept
<1>2. Increasing(kept, T)
  BY <1>1, FiniteIndices, IncreasingIs DEF kept
<1>3. \A i \in DOMAIN kept : kept[i] \in DOMAIN fd
  BY <1>1, <1>2 DEF Increasing
<1>4. \A i, j \in DOMAIN kept : i < j => fd[kept[i]].key < fd[kept[j]].key
  BY <1>2, <1>3 DEF Increasing, KeySorted
<1>5. Page!formatData(fd) = [i \in DOMAIN kept |-> fd[kept[i]]]
  BY DEF Page!formatData, T, kept
<1>6. QED
  BY <1>4, <1>5 DEF KeySorted

LEMMA EncodedSame ==
  ASSUME NEW n \in Nat, NEW fd \in [1 .. n -> Pair], \A i \in DOMAIN fd : fd[i].val # "zero"
  PROVE  Page!encoded(fd) = fd
<1>1. \A p \in Pair : p.val # "zero" =>
        [p EXCEPT !.val = IF p.val = "zero" THEN "text" ELSE p.val] = p
  BY DEF Pair
<1>2. QED
  BY <1>1 DEF Page!encoded

(* objKeySort, formatData and hero.in, for requests with any parameters:   *)
(* what is signed is in the order of the keys, and it is what is sent,     *)
(* unless one of the parameters is 0, false, null or undefined.            *)
THEOREM SignatureCovers == PartsSpec => []SignCoversSent
<1>1. Page!Init => Page!SignCoversSent
  BY DEF Page!Init, Page!SignCoversSent, Page!Nothing, Page!elements
<1>2. Page!SignCoversSent /\ [Page!Next]_(Page!pageVars) => Page!SignCoversSent'
  <2> SUFFICES ASSUME Page!SignCoversSent, [Page!Next]_(Page!pageVars)
               PROVE  Page!SignCoversSent'
    OBVIOUS
  <2>1. CASE wire' = wire
    BY <2>1 DEF Page!SignCoversSent, Page!elements
  <2>2. ASSUME NEW r \in Requests, Page!get(r), wire' # wire PROVE Page!SignCoversSent'
    <3>1. PICK params \in Params :
            wire' = [params |-> params,
                     signed |-> Page!formatData(Page!objKeySort(params)),
                     sent |-> Page!formatData(Page!encoded(Page!objKeySort(params)))]
      BY <2>2 DEF Page!get
    <3> DEFINE sorted == Page!objKeySort(params)
    <3>2. params \in Seq(Pair)
      BY ParamsAssumption DEF Pair
    <3>3. PICK n \in Nat : sorted \in [1 .. n -> Pair]
      BY <3>2, KeysSorted
    <3>4. Page!elements(sorted) \subseteq Page!elements(params) /\ KeySorted(sorted)
      BY <3>2, KeysSorted
    <3> HIDE DEF sorted
    <3>5. KeySorted(Page!formatData(sorted))
      BY <3>3, <3>4, FormatKeepsOrder
    <3>6. CASE \A i \in DOMAIN params : params[i].val # "zero"
      <4>1. \A i \in DOMAIN sorted : sorted[i].val # "zero"
        BY <3>4, <3>6 DEF Page!elements
      <4>2. Page!encoded(sorted) = sorted
        BY <3>3, <4>1, EncodedSame
      <4>3. wire'.signed = wire'.sent /\ wire'.signed = Page!formatData(sorted)
        BY <3>1, <4>2 DEF sorted
      <4>4. QED
        BY <3>5, <4>3 DEF Page!SignCoversSent, KeySorted, Page!elements
    <3>7. CASE \E i \in DOMAIN params : params[i].val = "zero"
      <4>1. wire'.params = params /\ wire'.signed = Page!formatData(sorted)
        BY <3>1 DEF sorted
      <4>2. QED
        BY <3>5, <3>7, <4>1 DEF Page!SignCoversSent, KeySorted
    <3>8. QED
      BY <3>6, <3>7
  <2>3. CASE UNCHANGED Page!pageVars
    BY <2>1, <2>3 DEF Page!pageVars, Page!requestVars
  <2>4. CASE Page!Page
    <3>1. CASE Page!Boot \/ Page!LoadEnds
      BY <2>1, <3>1 DEF Page!Boot, Page!LoadEnds, Page!requestVars
    <3>2. CASE \E f \in Fields, v \in Texts \cup {Empty} : Page!Set(f, v) \/ Page!Tell(f, v)
      BY <2>1, <3>2 DEF Page!Set, Page!Tell, Page!Changes, Page!requestVars
    <3>3. CASE \E r \in Requests : Page!get(r) \/ Page!Ends(r)
      BY <2>1, <2>2, <3>3 DEF Page!Ends
    <3>4. QED
      BY <2>4, <3>1, <3>2, <3>3 DEF Page!Page
  <2>5. CASE Page!Screen
    BY <2>1, <2>5 DEF Page!Screen, Page!Cover, Page!Uncover, Page!OtherStops, Page!Echo,
                      Page!Type, Page!Changes, Page!requestVars
  <2>6. QED
    BY <2>3, <2>4, <2>5 DEF Page!Next
<1>3. Page!Spec => []Page!SignCoversSent
  BY <1>1, <1>2, PTL DEF Page!Spec
<1>4. Page!SignCoversSent => SignCoversSent
  BY DEF SignCoversSent
<1>5. QED
  BY <1>3, <1>4, PageAlone, PTL
-----------------------------------------------------------------------------
(* The tunnel: a provider that has started and has no proxy has stopped    *)
(* one, and one that runs a proxy before its session is up has got the     *)
(* settings of an earlier start.                                           *)
TunnelTypes ==
  /\ loading \subseteq Config /\ saves \subseteq Config /\ saved \subseteq Config
  /\ manager \in Config \cup {None}
  /\ session \in {Tunnel!Down}
                   \cup [conf : Config, status : {"begin", "starting", "up", "stopping"}]
  /\ started \in BOOLEAN /\ proxy \in {"nil", "running"} /\ settings \in Nat
  /\ crashed \in BOOLEAN /\ stopped \in BOOLEAN /\ late \in BOOLEAN

StartedInv == started /\ proxy = "nil" => stopped
EarlyInv == proxy = "running" /\ session.status \in {"down", "begin", "starting"} => late

TunnelInv == TunnelTypes /\ StartedInv /\ EarlyInv

(* Steps of the application and of the user: they leave the provider as it *)
(* is and do not get past the beginning of a session.                      *)
LEMMA AppSteps ==
  ASSUME TunnelInv, UNCHANGED <<started, proxy, settings, crashed, stopped, late>>,
         TunnelTypes',
         \/ session' = session
         \/ session' = [session EXCEPT !.status = "stopping"]
         \/ session = Tunnel!Down
  PROVE  TunnelInv'
<1>1. session'.status \in {"down", "begin", "starting"}
        => session.status \in {"down", "begin", "starting"}
  BY DEF TunnelInv, TunnelTypes, Tunnel!Down
<1>2. QED
  BY <1>1 DEF TunnelInv, StartedInv, EarlyInv

LEMMA TunnelStep == TunnelInv /\ [Tunnel!Next]_(Tunnel!tunnelVars) => TunnelInv'
<1> SUFFICES ASSUME TunnelInv, [Tunnel!Next]_(Tunnel!tunnelVars) PROVE TunnelInv'
  OBVIOUS
<1> USE DEF Tunnel!appVars, Tunnel!provider, Tunnel!history, TunnelTypes
<1>1. CASE \E c \in Config \cup {None}, command \in {"none", "start", "stop"} :
             Tunnel!on(c, command)
  <2>1. PICK c \in Config \cup {None}, command \in {"none", "start", "stop"} :
          Tunnel!on(c, command)
    BY <1>1
  <2>2. /\ loading' \subseteq Config
        /\ UNCHANGED <<manager, saves, saved, started, proxy, settings>>
        /\ UNCHANGED <<crashed, stopped, late>>
    BY <2>1 DEF TunnelInv, Tunnel!on, Tunnel!config
  <2>3. \/ session' = session
        \/ session' = [session EXCEPT !.status = "stopping"] /\ session # Tunnel!Down
        \/ /\ session = Tunnel!Down /\ manager \in saved
           /\ session' = [conf |-> manager, status |-> "begin"]
    BY <2>1 DEF TunnelInv, Tunnel!on, Tunnel!Connect, Tunnel!Disconnect, Tunnel!Down
  <2>4. TunnelTypes'
    BY <2>2, <2>3 DEF TunnelInv
  <2>5. QED
    BY <2>2, <2>3, <2>4, AppSteps
<1>2. CASE \E c \in loading : Tunnel!Loaded(c)
  BY <1>2, AppSteps DEF TunnelInv, Tunnel!Loaded
<1>3. CASE \E m \in saves, ok \in BOOLEAN : Tunnel!SaveEnds(m, ok)
  BY <1>3, AppSteps DEF TunnelInv, Tunnel!SaveEnds
<1>4. CASE \E m \in saved : Tunnel!UserStarts(m)
  BY <1>4, AppSteps DEF TunnelInv, Tunnel!UserStarts, Tunnel!Connect
<1>5. CASE Tunnel!UserStops
  BY <1>5, AppSteps DEF TunnelInv, Tunnel!UserStops, Tunnel!Disconnect, Tunnel!Down
<1>6. CASE Tunnel!startTunnel
  BY <1>6 DEF TunnelInv, Tunnel!startTunnel, StartedInv, EarlyInv, Tunnel!Down
<1>7. CASE Tunnel!startTunnel_undefined \/ Tunnel!Kill
  <2>1. /\ UNCHANGED <<loading, manager, saves, saved, crashed>>
        /\ session' = Tunnel!Down /\ proxy' = "nil" /\ settings' = 0
        /\ started' = FALSE /\ stopped' = FALSE /\ late' = FALSE
    BY <1>7 DEF Tunnel!startTunnel_undefined, Tunnel!Kill, Tunnel!ProcessEnds
  <2>2. TunnelTypes'
    BY <2>1 DEF TunnelInv
  <2>3. StartedInv' /\ EarlyInv'
    BY <2>1 DEF StartedInv, EarlyInv
  <2>4. QED
    BY <2>2, <2>3 DEF TunnelInv
<1>8. CASE Tunnel!SettingsFail
  BY <1>8 DEF TunnelInv, Tunnel!SettingsFail, StartedInv, EarlyInv, Tunnel!Down
<1>9. CASE Tunnel!SettingsDone
  <2>1. CASE started /\ proxy = "nil"
    <3>1. /\ UNCHANGED <<loading, manager, saves, saved, stopped, late>>
          /\ session' = Tunnel!Down /\ proxy' = "nil" /\ settings' = 0
          /\ started' = FALSE /\ crashed' = TRUE
      BY <1>9, <2>1 DEF Tunnel!SettingsDone, Tunnel!ProcessEnds
    <3>2. TunnelTypes'
      BY <3>1 DEF TunnelInv
    <3>3. StartedInv' /\ EarlyInv'
      BY <3>1 DEF StartedInv, EarlyInv
    <3>4. QED
      BY <3>2, <3>3 DEF TunnelInv
  <2>2. CASE ~(started /\ proxy = "nil")
    <3>1. /\ UNCHANGED <<loading, manager, saves, saved, stopped, crashed>>
          /\ session' = Tunnel!Up /\ proxy' = "running" /\ settings' = settings - 1
          /\ settings > 0 /\ started' = TRUE
          /\ late' = (late \/ session.status # "starting")
      BY <1>9, <2>2 DEF Tunnel!SettingsDone
    <3>2. late' \in BOOLEAN /\ (session.status # "starting" => late')
      BY <3>1 DEF TunnelInv
    <3>3. session'.status \in {"down", "begin", "starting"} => session.status # "starting"
      BY <3>1 DEF TunnelInv, Tunnel!Up, Tunnel!Down
    <3>4. session' \in {Tunnel!Down}
                         \cup [conf : Config, status : {"begin", "starting", "up", "stopping"}]
      BY <3>1 DEF TunnelInv, Tunnel!Up, Tunnel!Down
    <3>5. TunnelTypes'
      BY <3>1, <3>2, <3>4 DEF TunnelInv
    <3>6. StartedInv' /\ EarlyInv'
      BY <3>1, <3>2, <3>3 DEF StartedInv, EarlyInv
    <3>7. QED
      BY <3>5, <3>6 DEF TunnelInv
  <2>3. QED
    BY <2>1, <2>2
<1>10. CASE Tunnel!stopTunnel
  BY <1>10 DEF TunnelInv, Tunnel!stopTunnel, StartedInv, EarlyInv
<1>11. CASE UNCHANGED Tunnel!tunnelVars
  BY <1>11, AppSteps DEF TunnelInv, Tunnel!tunnelVars
<1>12. QED
  BY <1>1, <1>2, <1>3, <1>4, <1>5, <1>6, <1>7, <1>8, <1>9, <1>10, <1>11
    DEF Tunnel!Next, Tunnel!App, Tunnel!User, Tunnel!Tunnel

THEOREM TunnelInvariance == Tunnel!Spec => []TunnelInv
<1>1. Tunnel!Init => TunnelInv
  <2> SUFFICES ASSUME Tunnel!Init PROVE TunnelInv
    OBVIOUS
  <2>1. TunnelTypes
    BY DEF Tunnel!Init, TunnelTypes
  <2>2. StartedInv /\ EarlyInv
    BY DEF Tunnel!Init, StartedInv, EarlyInv
  <2>3. QED
    BY <2>1, <2>2 DEF TunnelInv
<1>2. QED
  BY <1>1, TunnelStep, PTL DEF Tunnel!Spec

(* PacketTunnelProvider: no proxy runs without a session, unless the       *)
(* settings of a start came after the stop that followed it, for any       *)
(* configurations and any order of starts, stops and settings.             *)
THEOREM ProxyAccounted == PartsSpec => []NoLeftoverProxy
<1>1. TunnelInv => NoLeftoverProxy
  BY DEF TunnelInv, EarlyInv, NoLeftoverProxy, Tunnel!NoLeftoverProxy, Tunnel!Down
<1>2. QED
  BY <1>1, TunnelAlone, TunnelInvariance, PTL

(* The provider unwraps a nil proxy only in a process whose stopTunnel has *)
(* given up a proxy and kept started.                                      *)
THEOREM CrashExplained == PartsSpec => CrashNeedsRestart
<1>1. TunnelInv /\ [Tunnel!Next]_(Tunnel!tunnelVars)
        => [~crashed /\ crashed' => stopped]_(Tunnel!tunnelVars)
  <2> SUFFICES ASSUME TunnelInv, Tunnel!Next, ~crashed, crashed'
               PROVE  stopped
    OBVIOUS
  <2>1. Tunnel!SettingsDone
    BY DEF Tunnel!Next, Tunnel!App, Tunnel!User, Tunnel!Tunnel, Tunnel!on, Tunnel!Loaded,
           Tunnel!SaveEnds, Tunnel!UserStops, Tunnel!UserStarts, Tunnel!startTunnel,
           Tunnel!startTunnel_undefined, Tunnel!SettingsFail, Tunnel!stopTunnel,
           Tunnel!Kill, Tunnel!history
  <2>2. started /\ proxy = "nil"
    BY <2>1 DEF Tunnel!SettingsDone
  <2>3. QED
    BY <2>2 DEF TunnelInv, StartedInv
<1>2. Tunnel!Spec => Tunnel!CrashNeedsRestart
  BY <1>1, TunnelInvariance, PTL DEF Tunnel!Spec, Tunnel!CrashNeedsRestart
<1>3. QED
  BY <1>2, TunnelAlone, PTL DEF CrashNeedsRestart
-----------------------------------------------------------------------------
(* The database: what is stored as an array is one, and short enough to be *)
(* counted.                                                                *)
DBInv ==
  /\ ldb \in [Key -> [kind : {"nil"}, val : {None}] \cup [kind : {"value"}, val : Value]
                     \cup [kind : {"array"}, val : Seq(DB!Stored)]]
  /\ \A k \in Key : ldb[k].kind = "array" => Len(ldb[k].val) <= MaxLen

(* What a page stores: a value, or an array of values. *)
LEMMA StoredType ==
  ASSUME NEW value \in DB!Stored
  PROVE  \/ value \in [kind : {"value"}, val : Value]
         \/ value \in [kind : {"array"}, val : Seq(DB!Stored)] /\ Len(value.val) <= MaxLen
<1>1. CASE value \in {DB!Plain(v) : v \in Value}
  BY <1>1 DEF DB!Plain
<1>2. CASE value \in {DB!Array([n \in DOMAIN s |-> DB!Plain(s[n])]) : s \in Lists}
  <2>1. PICK s \in Lists : value = DB!Array([n \in DOMAIN s |-> DB!Plain(s[n])])
    BY <1>2
  <2>2. s \in Seq(Value) /\ Len(s) <= MaxLen
    BY ArrayAssumption
  <2>3. Len(s) \in Nat /\ DOMAIN s = 1 .. Len(s) /\ \A n \in 1 .. Len(s) : s[n] \in Value
    BY <2>2
  <2>4. \A n \in 1 .. Len(s) : DB!Plain(s[n]) \in DB!Stored
    BY <2>3 DEF DB!Stored
  <2> DEFINE t == [n \in 1 .. Len(s) |-> DB!Plain(s[n])]
  <2>5. t \in Seq(DB!Stored) /\ Len(t) = Len(s)
    BY <2>3, <2>4
  <2>6. value = [kind |-> "array", val |-> t]
    BY <2>1, <2>3 DEF DB!Array
  <2> HIDE DEF t
  <2>7. QED
    BY <2>2, <2>5, <2>6
<1>3. QED
  BY <1>1, <1>2 DEF DB!Stored

(* What is added to an array is an array of at most the greatest length. *)
LEMMA AddedType ==
  ASSUME NEW s \in Seq(DB!Stored), NEW value \in DB!Stored
  PROVE  DB!Added(s, value) \in Seq(DB!Stored)
BY StoredType DEF DB!Added

LEMMA DBStep == DBInv /\ [DB!Next]_(DB!dbVars) => DBInv'
<1> SUFFICES ASSUME DBInv, [DB!Next]_(DB!dbVars) PROVE DBInv'
  OBVIOUS
<1> DEFINE Entry == [kind : {"nil"}, val : {None}] \cup [kind : {"value"}, val : Value]
                    \cup [kind : {"array"}, val : Seq(DB!Stored)]
<1>1. ASSUME NEW k \in Key, NEW new \in Entry,
             new.kind = "array" => Len(new.val) <= MaxLen,
             ldb' = [ldb EXCEPT ![k] = new]
      PROVE  DBInv'
  <2> HIDE DEF Entry
  <2>1. ldb \in [Key -> Entry]
    BY DEF DBInv, Entry
  <2>2. ldb' \in [Key -> Entry] /\ \A j \in Key : ldb'[j] = IF j = k THEN new ELSE ldb[j]
    BY <1>1, <2>1
  <2>3. QED
    BY <1>1, <2>2 DEF DBInv, Entry
<1>2. ASSUME NEW k \in Key, NEW value \in DB!Stored, DB!setValue(k, value)
      PROVE  DBInv'
  <2>1. value \in Entry /\ (value.kind = "array" => Len(value.val) <= MaxLen)
    BY StoredType
  <2>2. ldb' = [ldb EXCEPT ![k] = value]
    BY <1>2 DEF DB!setValue
  <2> HIDE DEF Entry
  <2>3. QED
    BY <1>1, <2>1, <2>2
<1>3. ASSUME NEW k \in Key, NEW value \in DB!Stored, DB!addFirst(k, value)
      PROVE  DBInv'
  <2>1. <<value>> \in Seq(DB!Stored) /\ Len(<<value>>) <= MaxLen
    BY ArrayAssumption
  <2>2. DB!Array(<<value>>) \in Entry /\ Len(DB!Array(<<value>>).val) <= MaxLen
    BY <2>1 DEF DB!Array
  <2>3. ldb' = [ldb EXCEPT ![k] = DB!Array(<<value>>)]
    BY <1>3 DEF DB!addFirst
  <2> HIDE DEF Entry
  <2>4. QED
    BY <1>1, <2>2, <2>3
<1>4. ASSUME NEW k \in Key, NEW value \in DB!Stored, DB!addMore(k, value)
      PROVE  DBInv'
  <2> DEFINE s == DB!Added(ldb[k].val, value)
  <2>1. ldb[k].kind = "array" /\ Len(s) <= MaxLen /\ ldb' = [ldb EXCEPT ![k] = DB!Array(s)]
    BY <1>4 DEF DB!addMore
  <2>2. ldb[k].val \in Seq(DB!Stored)
    BY <2>1 DEF DBInv
  <2>3. s \in Seq(DB!Stored)
    BY <2>2, AddedType
  <2> HIDE DEF s
  <2>4. DB!Array(s) \in Entry /\ Len(DB!Array(s).val) <= MaxLen
    BY <2>1, <2>3 DEF DB!Array
  <2> HIDE DEF Entry
  <2>5. QED
    BY <1>1, <2>1, <2>4
<1>5. ASSUME UNCHANGED ldb
      PROVE  DBInv'
  BY <1>5 DEF DBInv
<1>6. QED
  BY <1>2, <1>3, <1>4, <1>5
    DEF DB!Next, DB!dbVars, DB!addToValue, DB!readValue, DB!readPage

THEOREM DBInvariance == DB!Spec => []DBInv
<1>1. DB!Init => DBInv
  BY DEF DB!Init, DB!Nil, DBInv
<1>2. QED
  BY <1>1, DBStep, PTL DEF DB!Spec

(* NSUInteger, next to its range. *)
LEMMA WrapIs ==
  ASSUME NEW n \in Int
  PROVE  /\ 0 <= n /\ n < 2 * Half => DB!Wrap(n) = n
         /\ 2 * Half <= n /\ n < 4 * Half => DB!Wrap(n) = n - 2 * Half
         /\ -(2 * Half) <= n /\ n < 0 => DB!Wrap(n) = n + 2 * Half
<1> DEFINE m == 2 * Half
<1>1. m \in Nat \ {0} /\ 4 * Half = 2 * m
  BY ArrayAssumption
<1> HIDE DEF m
<1>2. 0 <= n /\ n < m => n % m = n
  BY <1>1
<1>3. m <= n /\ n < 2 * m => n % m = n - m
  BY <1>1
<1>4. -m <= n /\ n < 0 => n % m = n + m
  BY <1>1
<1>5. DB!Wrap(n) = n % m
  BY DEF DB!Wrap, m
<1>6. QED
  BY <1>1, <1>2, <1>3, <1>4, <1>5 DEF m

(* What a page of an array is: nil when it begins beyond the end or its    *)
(* numbers overflow, else the elements before the last `start' ones, as    *)
(* many as asked for or as there are.                                      *)
LEMMA PageIs ==
  ASSUME NEW S, NEW array \in Seq(S), Len(array) <= Half,
         NEW start \in DB!Unsigned, NEW count \in DB!Unsigned
  PROVE  LET left == Len(array) - start
             c == IF count < left THEN count ELSE left
         IN  DB!page(array, start, count) =
               IF left < 0 \/ start + count >= 2 * Half THEN DB!Nil
               ELSE DB!Array(DB!Subarray(array, left - c, c))
<1> DEFINE len == Len(array)
           left == len - start
           least == IF count < left THEN count ELSE left
           c == DB!clamped(array, start, count)
           loc == DB!Wrap(len - start - c)
<1>1. /\ len \in Nat /\ len <= Half /\ Half \in Nat /\ Half >= 1
      /\ start \in Nat /\ start < 2 * Half /\ count \in Nat /\ count < 2 * Half
  BY ArrayAssumption DEF DB!Unsigned
<1>2. /\ c = IF DB!Wrap(start + count) > len THEN DB!Wrap(left) ELSE count
      /\ DB!page(array, start, count) =
           IF loc <= len /\ c <= len - loc THEN DB!Array(DB!Subarray(array, loc, c)) ELSE DB!Nil
  BY DEF DB!clamped, DB!page, DB!InRange
<1>3. /\ start + count < 2 * Half => DB!Wrap(start + count) = start + count
      /\ start + count >= 2 * Half => DB!Wrap(start + count) = start + count - 2 * Half
      /\ left >= 0 => DB!Wrap(left) = left
      /\ left < 0 => DB!Wrap(left) = left + 2 * Half
  BY <1>1, WrapIs
<1>4. CASE left < 0 \/ start + count >= 2 * Half
  <2>1. CASE DB!Wrap(start + count) > len
    <3>1. left < 0 /\ c = left + 2 * Half
      BY <1>1, <1>2, <1>3, <1>4, <2>1
    <3>2. loc = 0
      <4>1. len - start - c = -(2 * Half)
        BY <1>1, <3>1
      <4>2. QED
        BY <1>1, <4>1, WrapIs
    <3> HIDE DEF c, loc
    <3>3. ~(c <= len - loc)
      BY <1>1, <3>1, <3>2
    <3>4. QED
      BY <1>2, <1>4, <3>3
  <2>2. CASE ~(DB!Wrap(start + count) > len)
    <3>1. /\ start + count >= 2 * Half /\ start + count - 2 * Half <= len /\ c = count
      BY <1>1, <1>2, <1>3, <1>4, <2>2
    <3>2. loc = len - start - count + 2 * Half
      <4>1. len - start - count \in Int /\ -(2 * Half) <= len - start - count
        BY <1>1, <3>1
      <4>2. CASE len - start - count < 0
        BY <3>1, <4>1, <4>2, WrapIs
      <4>3. CASE ~(len - start - count < 0)
        BY <1>1, <3>1, <4>3
      <4>4. QED
        BY <4>2, <4>3
    <3> HIDE DEF c, loc
    <3>3. ~(c <= len - loc)
      BY <1>1, <3>1, <3>2
    <3>4. QED
      BY <1>2, <1>4, <3>3
  <2>3. QED
    BY <2>1, <2>2
<1>5. CASE ~(left < 0 \/ start + count >= 2 * Half)
  <2>1. c = least
    BY <1>1, <1>2, <1>3, <1>5
  <2>2. least \in Nat /\ least <= left /\ left <= len
    BY <1>1, <1>5
  <2>3. loc = left - least
    <3> HIDE DEF c, least
    <3>1. len - start - c = left - least /\ left - least \in Nat /\ left - least < 2 * Half
      BY <1>1, <2>1, <2>2
    <3>2. DB!Wrap(len - start - c) = left - least
      BY <3>1, WrapIs
    <3>3. QED
      BY <3>2
  <2> HIDE DEF c, loc, least
  <2>4. loc <= len /\ c <= len - loc
    BY <1>1, <2>1, <2>2, <2>3
  <2>5. QED
    BY <1>2, <1>5, <2>1, <2>3, <2>4 DEF least
<1>6. QED
  BY <1>4, <1>5

(* A part of an array that is within it. *)
LEMMA SubarrayIs ==
  ASSUME NEW array, NEW loc, NEW c \in Nat
  PROVE  /\ Len(DB!Subarray(array, loc, c)) = c
         /\ \A j \in 1 .. c : DB!Subarray(array, loc, c)[j] = array[loc + j]
         /\ DB!Array(DB!Subarray(array, loc, c)) # DB!Nil
         /\ DB!Array(DB!Subarray(array, loc, c)).val = DB!Subarray(array, loc, c)
BY DEF DB!Subarray, DB!Array, DB!Nil

LEMMA PagesBounded ==
  ASSUME NEW S, NEW array \in Seq(S), Len(array) <= Half
  PROVE  DB!Bounded(array)
<1> SUFFICES ASSUME NEW start \in DB!Unsigned, NEW count \in DB!Unsigned
             PROVE  LET p == DB!page(array, start, count)
                        left == Len(array) - start
                    IN IF left < 0 \/ start + count >= 2 * Half THEN p = DB!Nil
                       ELSE p # DB!Nil /\ Len(p.val) = (IF count < left THEN count ELSE left)
  BY DEF DB!Bounded
<1> DEFINE left == Len(array) - start
           c == IF count < left THEN count ELSE left
           p == DB!page(array, start, count)
<1>1. p = IF left < 0 \/ start + count >= 2 * Half THEN DB!Nil
          ELSE DB!Array(DB!Subarray(array, left - c, c))
  BY PageIs
<1>2. ~(left < 0) => c \in Nat
  BY ArrayAssumption DEF DB!Unsigned
<1> HIDE DEF p, c
<1>3. QED
  BY <1>1, <1>2, SubarrayIs DEF p, c

(* Page number n \div size of the pages of that size, counted from the     *)
(* newest element, has element n from the end at its place.                *)
LEMMA PagesRead ==
  ASSUME NEW S, NEW array \in Seq(S), Len(array) <= Half
  PROVE  DB!ReadBack(array)
<1> SUFFICES ASSUME NEW size \in 1 .. Half - 1, NEW n \in 0 .. Len(array) - 1
             PROVE  LET p == DB!page(array, size * (n \div size), size)
                    IN  /\ p # DB!Nil
                        /\ p.val[Len(p.val) - (n % size)] = array[Len(array) - n]
  BY DEF DB!ReadBack
<1> DEFINE start == size * (n \div size)
           rest == n % size
           left == Len(array) - start
           c == IF size < left THEN size ELSE left
           p == DB!page(array, start, size)
<1>1. /\ size \in Nat \ {0} /\ size < Half /\ Half \in Nat /\ n \in Nat /\ n < Len(array)
      /\ Len(array) \in Nat
  BY ArrayAssumption
<1>2. start \in Nat /\ rest \in Nat /\ rest < size /\ n = start + rest
  BY <1>1
<1> HIDE DEF start, rest
<1>3. start \in DB!Unsigned /\ size \in DB!Unsigned /\ start + size < 2 * Half /\ left > 0
  BY <1>1, <1>2 DEF DB!Unsigned
<1>4. p = DB!Array(DB!Subarray(array, left - c, c))
  <2>1. p = IF left < 0 \/ start + size >= 2 * Half THEN DB!Nil
            ELSE DB!Array(DB!Subarray(array, left - c, c))
    BY <1>3, PageIs
  <2>2. ~(left < 0) /\ ~(start + size >= 2 * Half)
    BY <1>1, <1>2, <1>3
  <2> HIDE DEF p, left, c
  <2>3. QED
    BY <2>1, <2>2
<1>5. c \in Nat /\ c - rest \in 1 .. c /\ (left - c) + (c - rest) = Len(array) - n
  BY <1>1, <1>2, <1>3
<1> HIDE DEF p, c, left
<1>6. p # DB!Nil /\ Len(p.val) = c /\ p.val[c - rest] = array[Len(array) - n]
  BY <1>4, <1>5, SubarrayIs
<1>7. QED
  BY <1>6 DEF p, start, rest

(* valueForArrayKey:start:count: for any stored array and any numbers of   *)
(* NSUInteger: the pages of any size, from the newest element back, are    *)
(* the array, and a page beyond its end, or whose numbers overflow, is an  *)
(* exception.                                                              *)
THEOREM ArraysReadBack == PartsSpec => []PagesReadBack
<1>1. DBInv => PagesReadBack
  <2> SUFFICES ASSUME DBInv, NEW array \in DB!Arrays
               PROVE  DB!ReadBack(array) /\ DB!Bounded(array)
    BY DEF PagesReadBack, DB!PagesReadBack
  <2>1. PICK k \in Key : array = ldb[k].val /\ ldb[k].kind = "array"
    BY DEF DB!Arrays
  <2>2. array \in Seq(DB!Stored) /\ Len(array) <= Half
    BY <2>1, ArrayAssumption DEF DBInv
  <2>3. QED
    BY <2>2, PagesRead, PagesBounded
<1>2. QED
  BY <1>1, DBAlone, DBInvariance, PTL
-----------------------------------------------------------------------------
(* The table: its cells, and what is on the screen of them. *)
CellId ==
  {Table!NoId, <<"class">>, <<"res">>} \cup {Table!viewId(t, r) : t \in Nat, r \in Nat}
Shows == DOMAIN Kind \cup {None}
CellType ==
  [id : CellId, item : Shows, image : Shows, place : {"free", "pool", "row", "leaving"},
   row : Nat]

TableTypes ==
  /\ data \in Seq(DOMAIN Kind) /\ refeshTimes \in Nat
  /\ cells \in [Cell -> CellType]
  /\ blocks \subseteq [cell : Cell, item : DOMAIN Kind]

RowInv ==
  \A c \in Cell : Table!OnScreen(c) =>
    LET item == data[cells[c].row] IN
      /\ cells[c].row \in Table!Rows
      /\ \/ cells[c].item = item
         \/ Kind[item] = "widget"
         \/ Kind[item] = "view" /\ cells[c].id \in replaced

(* A view made since the data was set is that of its row as it is now,     *)
(* unless the row was replaced.                                            *)
ViewInv ==
  \A c \in Cell : \A t, r \in Nat :
    cells[c].id = Table!viewId(t, r) =>
      /\ t <= refeshTimes
      /\ t = refeshTimes =>
           \/ cells[c].id \in replaced
           \/ r \in Table!Rows /\ cells[c].item = data[r]

(* An image under way is that of the item its cell was told, and a cell on *)
(* the screen has its image or waits for it, unless two were under way.    *)
BlockInv ==
  \A b \in blocks :
    cells[b.cell].place # "free" /\ b.cell \notin mixed => b.item = cells[b.cell].item
PictureInv ==
  \A c \in Cell \ mixed :
    Table!OnScreen(c) /\ ~Table!Wrapped(Kind[data[cells[c].row]])
      /\ data[cells[c].row] \in WithImage
    => cells[c].image = data[cells[c].row] \/ \E b \in blocks : b.cell = c

TableInv == TableTypes /\ RowInv /\ ViewInv /\ BlockInv /\ PictureInv

LEMMA NoCellType == Table!NoCell \in CellType /\ Table!NoCell.place = "free"
BY DEF Table!NoCell, CellType, CellId, Shows

LEMMA IdentifierOfView ==
  ASSUME NEW r \in Nat, refeshTimes \in Nat
  PROVE  /\ Table!reuseIdentifier(r) \in CellId
         /\ \A t, q \in Nat : Table!reuseIdentifier(r) = Table!viewId(t, q) =>
              t = refeshTimes /\ q = r /\ Kind[data[r]] = "view"
         /\ Kind[data[r]] = "view" => Table!reuseIdentifier(r) = Table!viewId(refeshTimes, r)
         /\ \A t, q \in Nat : Table!viewId(t, q) # Table!NoId
<1>1. \A t, q \in Nat : /\ Table!viewId(t, q) # <<"class">> /\ Table!viewId(t, q) # <<"res">>
                        /\ Table!viewId(t, q) # Table!NoId
  BY DEF Table!viewId, Table!NoId
<1>2. \A t, q \in Nat : Table!viewId(refeshTimes, r) = Table!viewId(t, q)
                          => t = refeshTimes /\ q = r
  BY DEF Table!viewId
<1>3. QED
  BY <1>1, <1>2 DEF Table!reuseIdentifier, CellId
-----------------------------------------------------------------------------
(* Cells that leave the screen or the animation. *)
Moved(c) ==
  \/ cells'[c] = cells[c]
  \/ cells'[c] = Table!NoCell
  \/ /\ cells[c].place # "free" /\ cells'[c] \in CellType
     /\ cells'[c].place \in {"pool", "leaving"}
     /\ cells'[c].id = cells[c].id /\ cells'[c].item = cells[c].item

LEMMA KeptCell ==
  \A cell \in CellType : \A place \in {"pool", "leaving"} :
    LET kept == Table!Recycled(cell, place) IN
      \/ kept = Table!NoCell
      \/ /\ kept \in CellType /\ kept.place = place
         /\ kept.id = cell.id /\ kept.item = cell.item
BY DEF CellType, Table!Recycled

LEMMA RecycledMoves ==
  ASSUME TableTypes, NEW c \in Cell, NEW place \in {"pool", "leaving"},
         cells[c].place # "free", cells'[c] = Table!Recycled(cells[c], place)
  PROVE  Moved(c) /\ cells'[c].place # "row"
<1>1. cells[c] \in CellType
  BY DEF TableTypes
<1> DEFINE kept == Table!Recycled(cells[c], place)
<1>2. \/ kept = Table!NoCell
      \/ /\ kept \in CellType /\ kept.place = place
         /\ kept.id = cells[c].id /\ kept.item = cells[c].item
  BY <1>1, KeptCell
<1>3. cells'[c] = kept
  OBVIOUS
<1> HIDE DEF kept
<1>4. QED
  BY <1>2, <1>3, NoCellType DEF Moved

LEMMA AllMove ==
  ASSUME TableTypes, NEW place \in {"pool", "leaving"}, Table!AllGoTo(place)
  PROVE  /\ cells' \in [Cell -> CellType]
         /\ \A c \in Cell : Moved(c) /\ cells'[c].place # "row"
<1>1. /\ DOMAIN cells' = Cell
      /\ cells' = [c \in Cell |-> cells'[c]]
      /\ \A c \in Cell : cells'[c] = IF Table!OnScreen(c)
                                     THEN Table!Recycled(cells[c], place) ELSE cells[c]
  BY DEF Table!AllGoTo
<1>2. \A c \in Cell : Moved(c) /\ cells'[c].place # "row"
  BY <1>1, RecycledMoves DEF Table!OnScreen, Moved
<1>3. \A c \in Cell : cells'[c] \in CellType
  BY <1>2, NoCellType DEF Moved, TableTypes
<1>4. QED
  BY <1>1, <1>2, <1>3

LEMMA MovedBlocks ==
  ASSUME TableInv, \A c \in Cell : Moved(c), UNCHANGED <<blocks, mixed>>
  PROVE  BlockInv'
<1> SUFFICES ASSUME NEW b \in blocks, cells'[b.cell].place # "free", b.cell \notin mixed
             PROVE  b.item = cells'[b.cell].item
  BY DEF BlockInv
<1>1. b.cell \in Cell
  BY DEF TableInv, TableTypes
<1>2. cells[b.cell].place # "free" /\ cells'[b.cell].item = cells[b.cell].item
  BY <1>1, NoCellType DEF Moved
<1>3. QED
  BY <1>2 DEF TableInv, BlockInv

(* The identifier of a cell that moved is what it was, or none. *)
LEMMA MovedViews ==
  ASSUME TableInv, NEW c \in Cell, Moved(c), NEW t \in Nat, NEW r \in Nat,
         cells'[c].id = Table!viewId(t, r)
  PROVE  /\ cells[c].id = cells'[c].id /\ cells[c].item = cells'[c].item
         /\ t <= refeshTimes
         /\ t = refeshTimes =>
              \/ cells[c].id \in replaced
              \/ r \in Table!Rows /\ cells[c].item = data[r]
<1>1. Table!viewId(t, r) # Table!NoId
  BY IdentifierOfView DEF TableInv, TableTypes
<1>2. cells[c].id = cells'[c].id /\ cells[c].item = cells'[c].item
  BY <1>1 DEF Moved, Table!NoCell
<1>3. QED
  BY <1>2 DEF TableInv, ViewInv
-----------------------------------------------------------------------------
(* The page sets, replaces or extends the rows. *)
LEMMA TableVacated ==
  ASSUME TableInv, \A c \in Cell : Moved(c) /\ cells'[c].place # "row",
         cells' \in [Cell -> CellType], data' \in Seq(DOMAIN Kind), refeshTimes' \in Nat,
         UNCHANGED <<blocks, mixed>>, ViewInv'
  PROVE  TableInv'
<1>1. TableTypes'
  BY DEF TableInv, TableTypes
<1>2. RowInv' /\ PictureInv'
  BY DEF RowInv, PictureInv, Table!OnScreen
<1>3. QED
  BY <1>1, <1>2, MovedBlocks DEF TableInv

LEMMA onDataStep ==
  ASSUME TableInv, NEW rows \in RowLists, Table!onData(rows)
  PROVE  TableInv'
<1>1. /\ data' \in Seq(DOMAIN Kind) /\ refeshTimes' = refeshTimes + 1
      /\ Table!AllGoTo("pool") /\ UNCHANGED <<blocks, mixed>> /\ refeshTimes \in Nat
  BY RowAssumption DEF Table!onData, TableInv, TableTypes
<1>2. cells' \in [Cell -> CellType] /\ \A c \in Cell : Moved(c) /\ cells'[c].place # "row"
  BY <1>1, AllMove DEF TableInv
<1>3. ViewInv'
  <2> SUFFICES ASSUME NEW c \in Cell, NEW t \in Nat, NEW r \in Nat,
                      cells'[c].id = Table!viewId(t, r)
               PROVE  t <= refeshTimes' /\ t # refeshTimes'
    BY DEF ViewInv, Table!viewId
  <2>1. t <= refeshTimes
    BY <1>2, MovedViews
  <2>2. QED
    BY <1>1, <2>1
<1>4. QED
  BY <1>1, <1>2, <1>3, TableVacated

LEMMA replaceStep ==
  ASSUME TableInv, NEW rows \in RowLists, Table!replace(rows)
  PROVE  TableInv'
<1>1. /\ data' \in Seq(DOMAIN Kind) /\ refeshTimes' = refeshTimes /\ refeshTimes \in Nat
      /\ Table!AllGoTo("leaving") /\ UNCHANGED <<blocks, mixed>>
      /\ replaced' = replaced \cup {Table!viewId(refeshTimes, r) : r \in Table!Rows}
  BY RowAssumption DEF Table!replace, TableInv, TableTypes
<1>2. cells' \in [Cell -> CellType] /\ \A c \in Cell : Moved(c) /\ cells'[c].place # "row"
  BY <1>1, AllMove DEF TableInv
<1>3. ViewInv'
  <2> SUFFICES ASSUME NEW c \in Cell, NEW t \in Nat, NEW r \in Nat,
                      cells'[c].id = Table!viewId(t, r)
               PROVE  /\ t <= refeshTimes
                      /\ t = refeshTimes => cells'[c].id \in replaced'
    BY <1>1 DEF ViewInv, Table!viewId
  <2>1. /\ cells[c].id = cells'[c].id /\ t <= refeshTimes
        /\ t = refeshTimes => cells[c].id \in replaced \/ r \in Table!Rows
    BY <1>2, MovedViews
  <2>2. QED
    BY <1>1, <2>1
<1>4. QED
  BY <1>1, <1>2, <1>3, TableVacated

LEMMA appendStep ==
  ASSUME TableInv, NEW rows \in RowLists, Table!append(rows)
  PROVE  TableInv'
<1>1. /\ data' = data \o rows /\ refeshTimes' = refeshTimes /\ refeshTimes \in Nat
      /\ Table!AllGoTo("pool") /\ UNCHANGED <<blocks, mixed>> /\ replaced' = replaced
      /\ data \in Seq(DOMAIN Kind) /\ rows \in Seq(DOMAIN Kind)
  BY RowAssumption DEF Table!append, TableInv, TableTypes
<1>2. /\ data' \in Seq(DOMAIN Kind) /\ DOMAIN data \subseteq DOMAIN data'
      /\ \A r \in DOMAIN data : data'[r] = data[r]
  BY <1>1
<1>3. cells' \in [Cell -> CellType] /\ \A c \in Cell : Moved(c) /\ cells'[c].place # "row"
  BY <1>1, AllMove DEF TableInv
<1>4. ViewInv'
  <2> SUFFICES ASSUME NEW c \in Cell, NEW t \in Nat, NEW r \in Nat,
                      cells'[c].id = Table!viewId(t, r)
               PROVE  /\ t <= refeshTimes
                      /\ t = refeshTimes =>
                           \/ cells'[c].id \in replaced
                           \/ r \in DOMAIN data' /\ cells'[c].item = data'[r]
    BY <1>1 DEF ViewInv, Table!viewId, Table!Rows
  <2>1. /\ cells[c].id = cells'[c].id /\ cells[c].item = cells'[c].item
        /\ t <= refeshTimes
        /\ t = refeshTimes =>
             \/ cells[c].id \in replaced
             \/ r \in DOMAIN data /\ cells[c].item = data[r]
    BY <1>3, MovedViews DEF Table!Rows
  <2>2. QED
    BY <1>2, <2>1
<1>5. QED
  BY <1>1, <1>2, <1>3, <1>4, TableVacated
-----------------------------------------------------------------------------
(* What the cell of a row shows: its item, but for the exceptions. *)
Shown(cell) ==
  /\ cell.row \in Table!Rows
  /\ \/ cell.item = data[cell.row]
     \/ Kind[data[cell.row]] = "widget"
     \/ Kind[data[cell.row]] = "view" /\ cell.id \in replaced

(* Cell c comes on the screen, and only its blocks are new. *)
LEMMA CellShown ==
  ASSUME TableInv, NEW c \in Cell, NEW cell \in CellType,
         cells' = [cells EXCEPT ![c] = cell], UNCHANGED <<data, refeshTimes, replaced>>,
         cell.place = "row", cell.id = Table!reuseIdentifier(cell.row), Shown(cell),
         blocks \subseteq blocks', blocks' \subseteq [cell : Cell, item : DOMAIN Kind],
         \A b \in blocks' \ blocks : b.cell = c,
         mixed \subseteq mixed',
         c \notin mixed' => \A b \in blocks' : b.cell = c => b.item = cell.item,
         (~Table!Wrapped(Kind[data[cell.row]]) /\ data[cell.row] \in WithImage)
           => cell.image = data[cell.row] \/ (\E b \in blocks' : b.cell = c)
  PROVE  TableInv'
<1>1. /\ cells'[c] = cell /\ cells' \in [Cell -> CellType]
      /\ \A d \in Cell : d # c => cells'[d] = cells[d]
      /\ data \in Seq(DOMAIN Kind) /\ refeshTimes \in Nat /\ cell.row \in Nat
  BY DEF TableInv, TableTypes, CellType
<1>2. TableTypes'
  BY <1>1 DEF TableInv, TableTypes
<1>3. RowInv'
  BY <1>1 DEF TableInv, RowInv, Shown, Table!OnScreen, Table!Rows
<1>4. ViewInv'
  <2> SUFFICES ASSUME NEW d \in Cell, NEW t \in Nat, NEW q \in Nat,
                      cells'[d].id = Table!viewId(t, q)
               PROVE  /\ t <= refeshTimes
                      /\ t = refeshTimes =>
                           \/ cells'[d].id \in replaced
                           \/ q \in Table!Rows /\ cells'[d].item = data[q]
    BY DEF ViewInv, Table!viewId, Table!Rows
  <2>1. CASE d # c
    BY <2>1, <1>1 DEF TableInv, ViewInv
  <2>2. CASE d = c
    <3>1. t = refeshTimes /\ q = cell.row /\ Kind[data[q]] = "view"
      BY <2>2, <1>1, IdentifierOfView
    <3>2. QED
      BY <3>1, <2>2, <1>1 DEF Shown
  <2>3. QED
    BY <2>1, <2>2
<1>5. BlockInv'
  <2> SUFFICES ASSUME NEW b \in blocks', cells'[b.cell].place # "free", b.cell \notin mixed'
               PROVE  b.item = cells'[b.cell].item
    BY DEF BlockInv
  <2>1. CASE b.cell = c
    BY <2>1, <1>1
  <2>2. CASE b.cell # c
    BY <2>2, <1>1 DEF TableInv, BlockInv
  <2>3. QED
    BY <2>1, <2>2
<1>6. PictureInv'
  <2> SUFFICES ASSUME NEW d \in Cell, d \notin mixed', cells'[d].place = "row",
                      ~Table!Wrapped(Kind[data[cells'[d].row]]),
                      data[cells'[d].row] \in WithImage
               PROVE  \/ cells'[d].image = data[cells'[d].row]
                      \/ \E b \in blocks' : b.cell = d
    BY DEF PictureInv, Table!OnScreen, Table!Wrapped
  <2>1. CASE d = c
    BY <2>1, <1>1
  <2>2. CASE d # c
    BY <2>2, <1>1 DEF TableInv, PictureInv, Table!OnScreen
  <2>3. QED
    BY <2>1, <2>2
<1>7. QED
  BY <1>2, <1>3, <1>4, <1>5, <1>6 DEF TableInv

(* A cell that is told its object, and what it becomes when the object also *)
(* shows a picture.                                                        *)
Retold(cell, item) == [cell EXCEPT !.item = item]
Repictured(cell, item, picture) == [cell EXCEPT !.item = item, !.image = picture]

LEMMA ToldCell ==
  ASSUME NEW cell \in CellType, NEW item \in DOMAIN Kind, NEW picture \in Shows
  PROVE  /\ Retold(cell, item) \in CellType
         /\ Retold(cell, item).item = item /\ Retold(cell, item).id = cell.id
         /\ Retold(cell, item).place = cell.place /\ Retold(cell, item).row = cell.row
         /\ Repictured(cell, item, picture) \in CellType
         /\ Repictured(cell, item, picture).item = item
         /\ Repictured(cell, item, picture).id = cell.id
         /\ Repictured(cell, item, picture).place = cell.place
         /\ Repictured(cell, item, picture).row = cell.row
         /\ Repictured(cell, item, picture).image = picture
<1> DEFINE told == [cell EXCEPT !.item = item]
           pictured == [told EXCEPT !.image = picture]
<1>1. /\ told \in CellType /\ told.item = item /\ told.id = cell.id
      /\ told.place = cell.place /\ told.row = cell.row
  BY DEF CellType, Shows
<1>2. Retold(cell, item) = told
  BY DEF Retold
<1>3. Repictured(cell, item, picture) = pictured
  BY DEF Repictured
<1> HIDE DEF told
<1>4. /\ pictured \in CellType /\ pictured.item = told.item /\ pictured.id = told.id
      /\ pictured.place = told.place /\ pictured.row = told.row
      /\ pictured.image = picture
  BY <1>1 DEF CellType
<1> HIDE DEF pictured
<1>5. QED
  BY <1>1, <1>2, <1>3, <1>4

LEMMA ToldShown ==
  ASSUME TableInv, NEW c \in Cell, NEW cell \in CellType, cell.row \in Table!Rows,
         cell.place = "row", cell.id = Table!reuseIdentifier(cell.row),
         Table!Told(c, cell, data[cell.row]), UNCHANGED <<data, refeshTimes, replaced>>
  PROVE  TableInv'
<1> DEFINE item == data[cell.row]
           block == [cell |-> c, item |-> item]
           told == [cell EXCEPT !.item = item]
           picture == IF item \in WithImage THEN item ELSE cell.image
           pictured == [cell EXCEPT !.item = item, !.image = picture]
<1>1. /\ item \in DOMAIN Kind /\ picture \in Shows
      /\ blocks \subseteq [cell : Cell, item : DOMAIN Kind]
  BY DEF TableInv, TableTypes, CellType, Shows, Table!Rows
<1>2. /\ told \in CellType /\ told.item = item /\ told.id = cell.id
      /\ told.place = cell.place /\ told.row = cell.row
      /\ pictured \in CellType /\ pictured.item = item /\ pictured.id = cell.id
      /\ pictured.place = cell.place /\ pictured.row = cell.row
      /\ pictured.image = picture
  <2> HIDE DEF item, picture
  <2>1. told = Retold(cell, item) /\ pictured = Repictured(cell, item, picture)
    BY DEF Retold, Repictured
  <2> HIDE DEF told, pictured
  <2>2. QED
    BY <1>1, <2>1, ToldCell
<1>3. block \in [cell : Cell, item : DOMAIN Kind] /\ block.cell = c /\ block.item = item
  BY <1>1
<1>4. \/ /\ cells' = [cells EXCEPT ![c] = told] /\ blocks' = blocks \cup {block}
         /\ mixed' = IF \E b \in blocks : b.cell = c THEN mixed \cup {c} ELSE mixed
      \/ /\ cells' = [cells EXCEPT ![c] = pictured] /\ blocks' = blocks
         /\ mixed' = IF \E b \in blocks : b.cell = c THEN mixed \cup {c} ELSE mixed
  BY DEF Table!Told
<1>5. mixed \subseteq mixed' /\ (c \notin mixed' => \A b \in blocks : b.cell # c)
  BY <1>4
<1>6. Shown(told) /\ Shown(pictured)
  BY <1>2 DEF Shown
<1> HIDE DEF told, pictured, block, item
<1>7. CASE cells' = [cells EXCEPT ![c] = told] /\ blocks' = blocks \cup {block}
  <2>1. /\ blocks \subseteq blocks' /\ blocks' \subseteq [cell : Cell, item : DOMAIN Kind]
        /\ \A b \in blocks' \ blocks : b.cell = c
        /\ c \notin mixed' => \A b \in blocks' : b.cell = c => b.item = told.item
        /\ \E b \in blocks' : b.cell = c
    BY <1>7, <1>1, <1>2, <1>3, <1>5
  <2>2. told.place = "row" /\ told.id = Table!reuseIdentifier(told.row)
    BY <1>2
  <2>3. QED
    BY <2>1, <2>2, <1>2, <1>5, <1>6, <1>7, CellShown
<1>8. CASE cells' = [cells EXCEPT ![c] = pictured] /\ blocks' = blocks
  <2>1. /\ blocks \subseteq blocks' /\ blocks' \subseteq [cell : Cell, item : DOMAIN Kind]
        /\ \A b \in blocks' \ blocks : b.cell = c
        /\ c \notin mixed' => \A b \in blocks' : b.cell = c => b.item = pictured.item
    BY <1>8, <1>1, <1>5
  <2>2. pictured.place = "row" /\ pictured.id = Table!reuseIdentifier(pictured.row)
    BY <1>2
  <2>3. data[pictured.row] \in WithImage => pictured.image = data[pictured.row]
    BY <1>2 DEF item
  <2>4. QED
    BY <2>1, <2>2, <2>3, <1>2, <1>5, <1>6, <1>8, CellShown
<1>9. QED
  BY <1>4, <1>7, <1>8
-----------------------------------------------------------------------------
(* A row that comes on the screen, with a cell used before or a new one. *)
LEMMA RowOnScreen ==
  ASSUME NEW cell \in CellType, NEW r \in Nat
  PROVE  LET shows == [cell EXCEPT !.place = "row", !.row = r] IN
           /\ shows \in CellType /\ shows.place = "row" /\ shows.row = r
           /\ shows.id = cell.id /\ shows.item = cell.item /\ shows.image = cell.image
BY DEF CellType

LEMMA ShowReusedStep ==
  ASSUME TableInv, NEW r \in Table!Rows, NEW c \in Cell, Table!ShowReused(r, c)
  PROVE  TableInv'
<1> DEFINE cell == [cells[c] EXCEPT !.place = "row", !.row = r]
<1>1. /\ r \in Nat /\ cells[c] \in CellType /\ refeshTimes \in Nat
      /\ cells[c].place = "pool" /\ cells[c].id = Table!reuseIdentifier(r)
      /\ UNCHANGED <<data, refeshTimes, replaced>>
  BY DEF Table!ShowReused, Table!Reusable, TableInv, TableTypes, Table!Rows
<1>2. /\ cell \in CellType /\ cell.place = "row" /\ cell.row = r
      /\ cell.id = cells[c].id /\ cell.item = cells[c].item
  BY <1>1, RowOnScreen
<1>3. \/ /\ Table!Wrapped(Kind[data[r]])
         /\ cells' = [cells EXCEPT ![c] = cell] /\ UNCHANGED <<blocks, mixed>>
      \/ Table!Told(c, cell, data[r])
  BY DEF Table!ShowReused
<1> HIDE DEF cell
<1>4. CASE /\ Table!Wrapped(Kind[data[r]])
           /\ cells' = [cells EXCEPT ![c] = cell] /\ UNCHANGED <<blocks, mixed>>
  <2>1. Shown(cell)
    <3>1. CASE Kind[data[r]] = "widget"
      BY <3>1, <1>2 DEF Shown
    <3>2. CASE Kind[data[r]] = "view"
      <4>1. cells[c].id = Table!viewId(refeshTimes, r)
        BY <3>2, <1>1, IdentifierOfView
      <4>2. cells[c].id \in replaced \/ cells[c].item = data[r]
        BY <4>1, <1>1 DEF TableInv, ViewInv
      <4>3. QED
        BY <4>2, <3>2, <1>2 DEF Shown
    <3>3. QED
      BY <3>1, <3>2, <1>4 DEF Table!Wrapped
  <2>2. c \notin mixed => \A b \in blocks : b.cell = c => b.item = cell.item
    BY <1>1, <1>2 DEF TableInv, BlockInv
  <2>3. blocks \subseteq [cell : Cell, item : DOMAIN Kind]
    BY DEF TableInv, TableTypes
  <2>4. QED
    BY <1>1, <1>2, <1>4, <2>1, <2>2, <2>3, CellShown
<1>5. CASE Table!Told(c, cell, data[r])
  BY <1>1, <1>2, <1>5, ToldShown
<1>6. QED
  BY <1>3, <1>4, <1>5

LEMMA ShowNewStep ==
  ASSUME TableInv, NEW r \in Table!Rows, NEW c \in Cell, Table!ShowNew(r, c)
  PROVE  TableInv'
<1> DEFINE cell == [Table!NoCell EXCEPT !.id = Table!reuseIdentifier(r),
                                        !.place = "row", !.row = r]
           made == [cell EXCEPT !.item = data[r]]
<1>1. /\ r \in Nat /\ refeshTimes \in Nat /\ data[r] \in DOMAIN Kind
      /\ \A b \in blocks : b.cell # c
      /\ UNCHANGED <<data, refeshTimes, replaced>>
      /\ blocks \subseteq [cell : Cell, item : DOMAIN Kind]
  BY DEF Table!ShowNew, Table!Unused, TableInv, TableTypes, Table!Rows
<1>2. cell = [id |-> Table!reuseIdentifier(r), item |-> None, image |-> None,
              place |-> "row", row |-> r]
  <2> DEFINE named == [Table!NoCell EXCEPT !.id = Table!reuseIdentifier(r)]
             placed == [named EXCEPT !.place = "row"]
  <2>1. named = [id |-> Table!reuseIdentifier(r), item |-> None, image |-> None,
                 place |-> "free", row |-> 0]
    BY DEF Table!NoCell
  <2>2. placed = [id |-> Table!reuseIdentifier(r), item |-> None, image |-> None,
                  place |-> "row", row |-> 0]
    <3> HIDE DEF named
    <3>1. QED
      BY <2>1
  <2>3. cell = [placed EXCEPT !.row = r]
    OBVIOUS
  <2> HIDE DEF placed
  <2>4. QED
    BY <2>2, <2>3
<1>3. /\ cell \in CellType /\ cell.place = "row" /\ cell.row = r
      /\ cell.id = Table!reuseIdentifier(r)
  <2>1. Table!reuseIdentifier(r) \in CellId
    BY <1>1, IdentifierOfView
  <2>2. QED
    BY <2>1, <1>1, <1>2 DEF CellType, Shows
<1>4. \/ /\ Table!Wrapped(Kind[data[r]])
         /\ cells' = [cells EXCEPT ![c] = made] /\ UNCHANGED <<blocks, mixed>>
      \/ Table!Told(c, cell, data[r])
  BY DEF Table!ShowNew
<1>5. /\ made \in CellType /\ made.item = data[r] /\ made.id = cell.id
      /\ made.place = cell.place /\ made.row = cell.row
  <2> HIDE DEF cell
  <2>1. made = Retold(cell, data[r])
    BY DEF Retold
  <2>2. None \in Shows
    BY DEF Shows
  <2> HIDE DEF made
  <2>3. QED
    BY <1>1, <1>3, <2>1, <2>2, ToldCell
<1> HIDE DEF cell, made
<1>6. CASE /\ Table!Wrapped(Kind[data[r]])
           /\ cells' = [cells EXCEPT ![c] = made] /\ UNCHANGED <<blocks, mixed>>
  <2>1. Shown(made)
    BY <1>3, <1>5 DEF Shown
  <2>2. QED
    BY <1>1, <1>3, <1>5, <1>6, <2>1, CellShown
<1>7. CASE Table!Told(c, cell, data[r])
  BY <1>1, <1>3, <1>7, ToldShown
<1>8. QED
  BY <1>4, <1>6, <1>7
-----------------------------------------------------------------------------
(* Rows that leave the screen, animations that end, images that arrive. *)
LEMMA CellsMove ==
  ASSUME TableInv, cells' \in [Cell -> CellType], \A c \in Cell : Moved(c),
         UNCHANGED <<data, refeshTimes, blocks, replaced, mixed>>
  PROVE  TableInv'
<1>1. TableTypes'
  BY DEF TableInv, TableTypes
<1>2. \A c \in Cell : cells'[c].place = "row" => cells'[c] = cells[c]
  BY NoCellType DEF Moved
<1>3. RowInv'
  BY <1>2 DEF TableInv, RowInv, Table!OnScreen, Table!Rows
<1>4. PictureInv'
  BY <1>2 DEF TableInv, PictureInv, Table!OnScreen
<1>5. ViewInv'
  <2> SUFFICES ASSUME NEW c \in Cell, NEW t \in Nat, NEW r \in Nat,
                      cells'[c].id = Table!viewId(t, r)
               PROVE  /\ t <= refeshTimes
                      /\ t = refeshTimes =>
                           \/ cells'[c].id \in replaced
                           \/ r \in Table!Rows /\ cells'[c].item = data[r]
    BY DEF ViewInv, Table!viewId, Table!Rows
  <2>1. /\ cells[c].id = cells'[c].id /\ cells[c].item = cells'[c].item
        /\ t <= refeshTimes
        /\ t = refeshTimes =>
             \/ cells[c].id \in replaced
             \/ r \in Table!Rows /\ cells[c].item = data[r]
    BY MovedViews
  <2>2. QED
    BY <2>1
<1>6. QED
  BY <1>1, <1>3, <1>4, <1>5, MovedBlocks DEF TableInv

LEMMA MovedType ==
  ASSUME TableTypes, NEW c \in Cell, Moved(c)
  PROVE  cells'[c] \in CellType
BY NoCellType DEF Moved, TableTypes

LEMMA HideStep ==
  ASSUME TableInv, NEW c \in Cell, Table!Hide(c)
  PROVE  TableInv'
<1>1. /\ Table!OnScreen(c) /\ cells' = [cells EXCEPT ![c] = Table!Recycled(cells[c], "pool")]
      /\ UNCHANGED <<data, refeshTimes, blocks, replaced, mixed>>
  BY DEF Table!Hide
<1>2. cells \in [Cell -> CellType] /\ TableTypes
  BY DEF TableInv, TableTypes
<1>3. /\ cells' = [d \in Cell |-> cells'[d]] /\ cells[c].place # "free"
      /\ cells'[c] = Table!Recycled(cells[c], "pool")
      /\ \A d \in Cell : d # c => cells'[d] = cells[d]
  BY <1>1, <1>2 DEF Table!OnScreen
<1>4. Moved(c)
  BY <1>2, <1>3, RecycledMoves
<1>5. \A d \in Cell : Moved(d)
  BY <1>3, <1>4 DEF Moved
<1>6. cells' \in [Cell -> CellType]
  BY <1>2, <1>3, <1>5, MovedType
<1>7. QED
  BY <1>1, <1>5, <1>6, CellsMove

LEMMA AnimationEndsStep ==
  ASSUME TableInv, Table!AnimationEnds
  PROVE  TableInv'
<1>1. /\ cells' = [c \in Cell |-> IF cells[c].place = "leaving"
                                  THEN Table!Recycled(cells[c], "pool") ELSE cells[c]]
      /\ UNCHANGED <<data, refeshTimes, blocks, replaced, mixed>> /\ TableTypes
  BY DEF Table!AnimationEnds, TableInv
<1>2. /\ cells' = [c \in Cell |-> cells'[c]]
      /\ \A c \in Cell : cells'[c] = IF cells[c].place = "leaving"
                                     THEN Table!Recycled(cells[c], "pool") ELSE cells[c]
  BY <1>1
<1>3. \A c \in Cell : Moved(c)
  <2> SUFFICES ASSUME NEW c \in Cell PROVE Moved(c)
    OBVIOUS
  <2>1. CASE cells[c].place = "leaving"
    BY <2>1, <1>1, <1>2, RecycledMoves
  <2>2. CASE cells[c].place # "leaving"
    BY <2>2, <1>2 DEF Moved
  <2>3. QED
    BY <2>1, <2>2
<1>4. cells' \in [Cell -> CellType]
  BY <1>1, <1>2, <1>3, MovedType
<1>5. QED
  BY <1>1, <1>3, <1>4, CellsMove

LEMMA ImageArrivesStep ==
  ASSUME TableInv, NEW b \in blocks, Table!ImageArrives(b)
  PROVE  TableInv'
<1>1. /\ b.cell \in Cell /\ b.item \in DOMAIN Kind /\ blocks' = blocks \ {b}
      /\ cells' = IF cells[b.cell].place = "free" THEN cells
                  ELSE [cells EXCEPT ![b.cell].image = b.item]
      /\ UNCHANGED <<data, refeshTimes, replaced, mixed>>
      /\ cells \in [Cell -> CellType]
  BY DEF Table!ImageArrives, TableInv, TableTypes
<1>2. \A cell \in CellType : \A item \in DOMAIN Kind :
        LET pictured == [cell EXCEPT !.image = item] IN
          /\ pictured \in CellType /\ pictured.item = cell.item /\ pictured.id = cell.id
          /\ pictured.place = cell.place /\ pictured.row = cell.row
          /\ pictured.image = item
  BY DEF CellType, Shows
<1>3. /\ cells' = [c \in Cell |-> cells'[c]]
      /\ \A c \in Cell :
           cells'[c] = IF c = b.cell /\ cells[c].place # "free"
                       THEN [cells[c] EXCEPT !.image = b.item] ELSE cells[c]
  <2>1. CASE cells[b.cell].place = "free"
    BY <2>1, <1>1
  <2>2. CASE cells[b.cell].place # "free"
    BY <2>2, <1>1
  <2>3. QED
    BY <2>1, <2>2
<1>4. \A c \in Cell :
        /\ cells'[c] \in CellType /\ cells'[c].item = cells[c].item
        /\ cells'[c].id = cells[c].id /\ cells'[c].place = cells[c].place
        /\ cells'[c].row = cells[c].row
        /\ c = b.cell /\ cells[c].place # "free" => cells'[c].image = b.item
        /\ c # b.cell => cells'[c].image = cells[c].image
  BY <1>1, <1>2, <1>3
<1>5. TableTypes'
  <2>1. cells' \in [Cell -> CellType]
    BY <1>3, <1>4
  <2>2. QED
    BY <1>1, <2>1 DEF TableInv, TableTypes
<1>6. RowInv'
  <2> SUFFICES ASSUME NEW c \in Cell, Table!OnScreen(c)'
               PROVE  (LET item == data[cells[c].row] IN
                         /\ cells[c].row \in Table!Rows
                         /\ \/ cells[c].item = item
                            \/ Kind[item] = "widget"
                            \/ Kind[item] = "view" /\ cells[c].id \in replaced)'
    BY DEF RowInv
  <2>1. Table!OnScreen(c)
    BY <1>4 DEF Table!OnScreen
  <2>2. LET item == data[cells[c].row] IN
          /\ cells[c].row \in Table!Rows
          /\ \/ cells[c].item = item
             \/ Kind[item] = "widget"
             \/ Kind[item] = "view" /\ cells[c].id \in replaced
    BY <2>1 DEF TableInv, RowInv
  <2>3. /\ cells'[c].row = cells[c].row /\ cells'[c].item = cells[c].item
        /\ cells'[c].id = cells[c].id
    BY <1>4
  <2>4. data' = data /\ replaced' = replaced
    BY <1>1
  <2>5. QED
    BY <2>2, <2>3, <2>4 DEF Table!Rows
<1>7. ViewInv'
  BY <1>1, <1>4 DEF TableInv, ViewInv, Table!viewId, Table!Rows
<1>8. BlockInv'
  <2> SUFFICES ASSUME NEW d \in blocks', cells'[d.cell].place # "free", d.cell \notin mixed
               PROVE  d.item = cells'[d.cell].item
    BY <1>1 DEF BlockInv
  <2>1. d \in blocks /\ d.cell \in Cell
    BY <1>1 DEF TableInv, TableTypes
  <2>2. QED
    BY <2>1, <1>4 DEF TableInv, BlockInv
<1>9. PictureInv'
  <2> SUFFICES ASSUME NEW c \in Cell, c \notin mixed', cells'[c].place = "row",
                      ~Table!Wrapped(Kind[data'[cells'[c].row]]),
                      data'[cells'[c].row] \in WithImage
               PROVE  \/ cells'[c].image = data'[cells'[c].row]
                      \/ \E d \in blocks' : d.cell = c
    BY DEF PictureInv, Table!OnScreen, Table!Wrapped
  <2>1. /\ cells'[c].row = cells[c].row /\ cells[c].place = "row"
        /\ ~Table!Wrapped(Kind[data[cells[c].row]])
        /\ data[cells[c].row] \in WithImage /\ data' = data /\ c \notin mixed
    BY <1>1, <1>4
  <2>2. CASE c = b.cell
    <3>1. b.item = cells[c].item
      BY <2>1, <2>2 DEF TableInv, BlockInv
    <3>2. cells[c].item = data[cells[c].row]
      BY <2>1 DEF TableInv, RowInv, Table!OnScreen, Table!Wrapped
    <3>3. QED
      BY <3>1, <3>2, <2>1, <2>2, <1>4
  <2>3. CASE c # b.cell
    <3>1. cells'[c].image = cells[c].image /\ data[cells[c].row] \in WithImage
      BY <2>3, <2>1, <1>4
    <3>2. \/ cells[c].image = data[cells[c].row]
          \/ \E d \in blocks : d.cell = c
      BY <2>1, <3>1 DEF TableInv, PictureInv, Table!OnScreen
    <3>3. (\E d \in blocks : d.cell = c) => \E d \in blocks' : d.cell = c
      BY <2>3, <1>1
    <3>4. QED
      BY <2>1, <3>1, <3>2, <3>3
  <2>4. QED
    BY <2>2, <2>3
<1>10. QED
  BY <1>5, <1>6, <1>7, <1>8, <1>9 DEF TableInv
-----------------------------------------------------------------------------
LEMMA TableStutters ==
  ASSUME TableInv, UNCHANGED Table!tableVars
  PROVE  TableInv'
<1>1. UNCHANGED <<data, refeshTimes, cells, blocks, replaced, mixed>>
  BY DEF Table!tableVars
<1>2. cells' \in [Cell -> CellType] /\ \A c \in Cell : Moved(c)
  BY <1>1 DEF Moved, TableInv, TableTypes
<1>3. QED
  BY <1>1, <1>2, CellsMove

LEMMA TableStep == TableInv /\ [Table!Next]_(Table!tableVars) => TableInv'
<1> SUFFICES ASSUME TableInv, Table!Next \/ UNCHANGED Table!tableVars
             PROVE  TableInv'
  OBVIOUS
<1>1. CASE Table!Page
  <2>1. PICK rows \in RowLists :
          Table!onData(rows) \/ Table!replace(rows) \/ Table!append(rows)
    BY <1>1 DEF Table!Page
  <2>2. QED
    BY <2>1, onDataStep, replaceStep, appendStep
<1>2. CASE Table!Screen
  <2>1. CASE \E r \in Table!Rows, c \in Cell : Table!ShowReused(r, c) \/ Table!ShowNew(r, c)
    BY <2>1, ShowReusedStep, ShowNewStep
  <2>2. CASE \E c \in Cell : Table!Hide(c)
    BY <2>2, HideStep
  <2>3. CASE Table!AnimationEnds
    BY <2>3, AnimationEndsStep
  <2>4. CASE \E b \in blocks : Table!ImageArrives(b)
    BY <2>4, ImageArrivesStep
  <2>5. QED
    BY <1>2, <2>1, <2>2, <2>3, <2>4 DEF Table!Screen
<1>3. QED
  BY <1>1, <1>2, TableStutters DEF Table!Next

LEMMA TableInvariance == Table!Spec => []TableInv
<1>1. Table!Init => TableInv
  <2> SUFFICES ASSUME Table!Init PROVE TableInv
    OBVIOUS
  <2>1. /\ data = << >> /\ refeshTimes = 0 /\ blocks = {}
        /\ cells = [c \in Cell |-> Table!NoCell]
    BY DEF Table!Init
  <2>2. \A c \in Cell : cells[c] = Table!NoCell
    BY <2>1
  <2>3. TableTypes
    BY <2>1, NoCellType DEF TableTypes
  <2>4. RowInv /\ PictureInv /\ BlockInv
    BY <2>1, <2>2, NoCellType DEF RowInv, PictureInv, BlockInv, Table!OnScreen
  <2>5. ViewInv
    BY <2>1, <2>2, IdentifierOfView DEF ViewInv, Table!NoCell
  <2>6. QED
    BY <2>3, <2>4, <2>5 DEF TableInv
<1>2. QED
  BY <1>1, TableStep, PTL DEF Table!Spec

(* cellForRowAtIndexPath: whatever the page sends, and whichever cell is   *)
(* reused, a row on the screen shows its own item: only widgets of a class *)
(* and UIView rows replaced since the data was set may show another's.     *)
THEOREM OwnItemShown == PartsSpec => []RowsShowTheirItem
<1>1. TableInv => RowsShowTheirItem
  BY DEF TableInv, RowInv, RowsShowTheirItem, Table!RowsShowTheirItem
<1>2. QED
  BY <1>1, TableAlone, TableInvariance, PTL

(* registerForName: the image of a reused cell is that of the row it is    *)
(* shown for once its downloads have ended, if there never were two.       *)
THEOREM ImagesAreOwn == PartsSpec => []ImagesSettle
<1>1. TableInv => ImagesSettle
  BY DEF TableInv, PictureInv, ImagesSettle, Table!ImagesSettle
<1>2. QED
  BY <1>1, TableAlone, TableInvariance, PTL
-----------------------------------------------------------------------------
(* The numbers: arrays of characters, the last one first. *)
Char == 0 .. 9 \cup {"-", ",", "."}
Rev(s) == Format!S!Reverse(s)

LEMMA ShortArrays ==
  ASSUME NEW S
  PROVE  /\ \A p \in S : <<p>> \in Seq(S)
         /\ \A p, q \in S : <<p, q>> \in Seq(S)
         /\ \A p, q, r \in S : <<p, q, r>> \in Seq(S)
         /\ \A p, q, r, u \in S : <<p, q, r, u>> \in Seq(S)
OBVIOUS

LEMMA RevIs ==
  ASSUME NEW s \in Seq(Char)
  PROVE  /\ Rev(s) \in Seq(Char) /\ Len(Rev(s)) = Len(s)
         /\ \A i \in 1 .. Len(s) : Rev(s)[i] = s[(Len(s) - i) + 1]
<1>1. Rev(s) = [i \in 1 .. Len(s) |-> s[(Len(s) - i) + 1]]
  BY DEF Rev, Format!S!Reverse
<1>2. Len(s) \in Nat /\ \A i \in 1 .. Len(s) : (Len(s) - i) + 1 \in 1 .. Len(s)
  OBVIOUS
<1>3. \A i \in 1 .. Len(s) : s[i] \in Char
  OBVIOUS
<1>4. QED
  BY <1>1, <1>2, <1>3

LEMMA RevRev ==
  ASSUME NEW s \in Seq(Char)
  PROVE  Rev(Rev(s)) = s
<1>1. /\ Rev(s) \in Seq(Char) /\ Len(Rev(s)) = Len(s)
      /\ \A i \in 1 .. Len(s) : Rev(s)[i] = s[(Len(s) - i) + 1]
  BY RevIs
<1>2. /\ Rev(Rev(s)) \in Seq(Char) /\ Len(Rev(Rev(s))) = Len(s)
      /\ \A i \in 1 .. Len(s) : Rev(Rev(s))[i] = Rev(s)[(Len(s) - i) + 1]
  BY <1>1, RevIs
<1>3. ASSUME NEW i \in 1 .. Len(s) PROVE Rev(Rev(s))[i] = s[i]
  <2>1. (Len(s) - i) + 1 \in 1 .. Len(s) /\ (Len(s) - ((Len(s) - i) + 1)) + 1 = i
    OBVIOUS
  <2>2. QED
    BY <1>1, <1>2, <2>1
<1>4. QED
  BY <1>2, <1>3

LEMMA RevCat ==
  ASSUME NEW a \in Seq(Char), NEW z \in Seq(Char)
  PROVE  Rev(a \o z) = Rev(z) \o Rev(a)
<1> DEFINE n == Len(a) + Len(z)
<1>1. a \o z \in Seq(Char) /\ Len(a \o z) = n /\ Len(a) \in Nat /\ Len(z) \in Nat
  OBVIOUS
<1>2. /\ Rev(a \o z) \in Seq(Char) /\ Len(Rev(a \o z)) = n
      /\ \A i \in 1 .. n : Rev(a \o z)[i] = (a \o z)[(n - i) + 1]
  <2> DEFINE c == a \o z
  <2>1. c \in Seq(Char) /\ Len(c) = n
    BY <1>1
  <2> HIDE DEF c, n
  <2>2. Rev(c) \in Seq(Char) /\ Len(Rev(c)) = n
        /\ \A i \in 1 .. n : Rev(c)[i] = c[(n - i) + 1]
    BY <2>1, RevIs
  <2>3. QED
    BY <2>2 DEF c
<1>3. /\ Rev(z) \in Seq(Char) /\ Len(Rev(z)) = Len(z)
      /\ \A i \in 1 .. Len(z) : Rev(z)[i] = z[(Len(z) - i) + 1]
  BY RevIs
<1>4. /\ Rev(a) \in Seq(Char) /\ Len(Rev(a)) = Len(a)
      /\ \A i \in 1 .. Len(a) : Rev(a)[i] = a[(Len(a) - i) + 1]
  BY RevIs
<1>5. Rev(z) \o Rev(a) \in Seq(Char) /\ Len(Rev(z) \o Rev(a)) = n
  <2>1. \A p, q \in Seq(Char) : p \o q \in Seq(Char) /\ Len(p \o q) = Len(p) + Len(q)
    OBVIOUS
  <2>2. Rev(z) \in Seq(Char) /\ Rev(a) \in Seq(Char)
    BY <1>3, <1>4
  <2>3. Len(Rev(z) \o Rev(a)) = Len(Rev(z)) + Len(Rev(a)) /\ Rev(z) \o Rev(a) \in Seq(Char)
    BY <2>1, <2>2
  <2>4. QED
    BY <2>3, <1>1, <1>3, <1>4
<1>6. ASSUME NEW i \in 1 .. n PROVE Rev(a \o z)[i] = (Rev(z) \o Rev(a))[i]
  <2>1. CASE i <= Len(z)
    <3>1. (Rev(z) \o Rev(a))[i] = z[(Len(z) - i) + 1]
      BY <2>1, <1>1, <1>3, <1>4
    <3>2. (n - i) + 1 > Len(a) /\ (n - i) + 1 <= n /\ ((n - i) + 1) - Len(a) = (Len(z) - i) + 1
      BY <2>1, <1>1
    <3>3. (a \o z)[(n - i) + 1] = z[(Len(z) - i) + 1]
      BY <3>2, <1>1
    <3>4. QED
      BY <3>1, <3>3, <1>2
  <2>2. CASE i > Len(z)
    <3>1. i - Len(z) \in 1 .. Len(a) /\ (n - i) + 1 \in 1 .. Len(a)
          /\ (Len(a) - (i - Len(z))) + 1 = (n - i) + 1
      BY <2>2, <1>1
    <3> DEFINE ra == Rev(a)
               rz == Rev(z)
               k == i - Len(z)
    <3>a. ra[k] = a[(n - i) + 1]
      BY <3>1, <1>4, Zenon
    <3>2. (Rev(z) \o Rev(a))[i] = a[(n - i) + 1]
      <4>1. /\ ra \in Seq(Char) /\ Len(ra) = Len(a) /\ rz \in Seq(Char) /\ Len(rz) = Len(z)
            /\ Len(z) \in Nat /\ Len(a) \in Nat /\ i \in Nat
        BY <1>1, <1>3, <1>4
      <4> HIDE DEF ra, rz
      <4>2. (rz \o ra)[i] = ra[k]
        BY <4>1, <3>1, <2>2
      <4>3. QED
        BY <4>2, <3>a DEF ra, rz
    <3>3. (a \o z)[(n - i) + 1] = a[(n - i) + 1]
      BY <3>1, <1>1
    <3>4. QED
      BY <3>2, <3>3, <1>2
  <2>3. i <= Len(z) \/ i > Len(z)
    BY <1>1
  <2>4. QED
    BY <2>1, <2>2, <2>3
<1> DEFINE turned == Rev(a \o z)
           parts == Rev(z) \o Rev(a)
<1>7. turned = parts
  <2>1. /\ turned \in Seq(Char) /\ Len(turned) = n
        /\ parts \in Seq(Char) /\ Len(parts) = n
        /\ \A i \in 1 .. n : turned[i] = parts[i]
    BY <1>2, <1>5, <1>6
  <2> HIDE DEF turned, parts, n
  <2>2. QED
    BY <2>1
<1>8. QED
  BY <1>7

(* The loop of fmoney. *)
Piece(l, i) == IF i % 3 = 0 /\ i # Len(l) THEN <<l[i], ",">> ELSE <<l[i]>>
Loop(t, l) ==
  /\ t[0] = << >> /\ \A i \in 1 .. Len(l) : t[i] = t[i - 1] \o Piece(l, i)
  /\ \A i \in 0 .. Len(l) : t[i] \in Seq(Char)

LEMMA PieceType ==
  ASSUME NEW l \in Seq(Char), NEW i \in 1 .. Len(l)
  PROVE  Piece(l, i) \in Seq(Char)
<1>1. "," \in Char
  BY DEF Char
<1>2. l[i] \in Char
  OBVIOUS
<1>3. <<l[i]>> \in Seq(Char) /\ <<l[i], ",">> \in Seq(Char)
  BY <1>1, <1>2, ShortArrays
<1>4. QED
  BY <1>3 DEF Piece

LEMMA LoopIs ==
  ASSUME NEW l \in Seq(Char)
  PROVE  \E t : Loop(t, l) /\ Format!separated(l) = t[Len(l)]
<1> DEFINE D == 0 .. Len(l)
           base == [i \in D |-> << >>]
           tail == [i \in D |-> IF i = 0 THEN << >> ELSE Piece(l, i)]
           pred == [i \in D |-> IF i = 0 THEN 0 ELSE i - 1]
           loops(t) == t = [i \in D |-> IF i < 1 THEN << >> ELSE t[i - 1] \o Piece(l, i)]
<1>1. \A i \in 1 .. Len(l) : Piece(l, i) \in Seq(Char)
  BY PieceType
<1>2. /\ D \in SUBSET Nat /\ 1 \in Nat \ {0} /\ base \in [D -> Seq(Char)]
      /\ tail \in [D -> Seq(Char)] /\ pred \in [D -> Nat]
      /\ \A i \in D : i >= 1 => pred[i] \in D /\ pred[i] < i
  BY <1>1
<1>3. \A t : [i \in D |-> IF i < 1 THEN base[i] ELSE t[pred[i]] \o tail[i]]
               = [i \in D |-> IF i < 1 THEN << >> ELSE t[i - 1] \o Piece(l, i)]
  <2> SUFFICES ASSUME NEW t, NEW i \in D
               PROVE  (IF i < 1 THEN base[i] ELSE t[pred[i]] \o tail[i])
                        = (IF i < 1 THEN << >> ELSE t[i - 1] \o Piece(l, i))
    OBVIOUS
  <2>1. CASE i < 1
    BY <2>1
  <2>2. CASE ~(i < 1)
    <3>1. pred[i] = i - 1 /\ tail[i] = Piece(l, i)
      BY <2>2
    <3>2. QED
      BY <2>2, <3>1
  <2>3. QED
    BY <2>1, <2>2
<1> HIDE DEF D, base, tail, pred
<1>4. /\ \E t : List!Solves(t, D, 1, base, tail, pred)
      /\ \A t : List!Solves(t, D, 1, base, tail, pred) => t \in [D -> Seq(Char)]
  BY <1>2, List!RecursionExists
<1>5. (\E t : loops(t)) /\ (\A t : loops(t) => t \in [D -> Seq(Char)])
  <2>1. \A t : List!Solves(t, D, 1, base, tail, pred) <=> loops(t)
    BY <1>3 DEF List!Solves
  <2> HIDE DEF loops
  <2>2. QED
    BY <1>4, <2>1, Zenon
<1> DEFINE t == CHOOSE t : loops(t)
<1>6. loops(t) /\ t \in [D -> Seq(Char)]
  BY <1>5
<1>7. Format!separated(l) = t[Len(l)]
  BY DEF Format!separated, D, Piece
<1>8. \A i \in D : t[i] = IF i < 1 THEN << >> ELSE t[i - 1] \o Piece(l, i)
  <2> HIDE DEF t
  <2>1. QED
    BY <1>6
<1> HIDE DEF t
<1>9. t[0] = << >>
  <2>1. 0 \in D /\ 0 < 1
    BY DEF D
  <2>2. QED
    BY <1>8, <2>1
<1>10. ASSUME NEW i \in 1 .. Len(l) PROVE t[i] = t[i - 1] \o Piece(l, i)
  <2>1. i \in D /\ ~(i < 1)
    BY DEF D
  <2>2. QED
    BY <1>8, <2>1
<1>11. Loop(t, l)
  BY <1>6, <1>9, <1>10 DEF Loop, D
<1>12. QED
  BY <1>7, <1>11

LEMMA ShortConcat ==
  /\ \A p \in Char : << >> \o <<p>> = <<p>>
  /\ \A p, q \in Char : <<p>> \o <<q>> = <<p, q>>
  /\ \A p, q, r \in Char : <<p, q>> \o <<r>> = <<p, q, r>>
  /\ \A p, q, r, u \in Char : <<p, q>> \o <<r, u>> = <<p, q, r, u>>
<1>1. \A p \in Char : << >> \o <<p>> = <<p>>
  OBVIOUS
<1>2. ASSUME NEW p \in Char, NEW q \in Char
      PROVE  <<p>> \o <<q>> = <<p, q>>
  <2> DEFINE c == <<p>> \o <<q>>
  <2>1. c \in Seq(Char) /\ Len(c) = 2 /\ c[1] = p /\ c[2] = q
    OBVIOUS
  <2> HIDE DEF c
  <2>2. c = <<p, q>>
    BY <2>1
  <2>3. QED
    BY <2>2 DEF c
<1>3. ASSUME NEW p \in Char, NEW q \in Char, NEW r \in Char
      PROVE  <<p, q>> \o <<r>> = <<p, q, r>>
  <2> DEFINE c == <<p, q>> \o <<r>>
  <2>1. c \in Seq(Char) /\ Len(c) = 3 /\ c[1] = p /\ c[2] = q /\ c[3] = r
    OBVIOUS
  <2> HIDE DEF c
  <2>2. c = <<p, q, r>>
    BY <2>1
  <2>3. QED
    BY <2>2 DEF c
<1>4. ASSUME NEW p \in Char, NEW q \in Char, NEW r \in Char, NEW u \in Char
      PROVE  <<p, q>> \o <<r, u>> = <<p, q, r, u>>
  <2> DEFINE c == <<p, q>> \o <<r, u>>
  <2>1. c \in Seq(Char) /\ Len(c) = 4 /\ c[1] = p /\ c[2] = q /\ c[3] = r /\ c[4] = u
    OBVIOUS
  <2> HIDE DEF c
  <2>2. c = <<p, q, r, u>>
    BY <2>1
  <2>3. QED
    BY <2>2 DEF c
<1>5. QED
  BY <1>1, <1>2, <1>3, <1>4

(* The first characters, as long as no comma may follow. *)
LEMMA FirstPieces ==
  ASSUME NEW l \in Seq(Char), NEW t, Loop(t, l)
  PROVE  /\ Len(l) >= 1 => t[1] = <<l[1]>>
         /\ Len(l) >= 2 => t[2] = <<l[1], l[2]>>
         /\ Len(l) = 3 => t[3] = <<l[1], l[2], l[3]>>
         /\ Len(l) > 3 => t[3] = <<l[1], l[2], l[3], ",">>
<1> DEFINE n == Len(l)
<1>1. n \in Nat /\ \A i \in 1 .. n : l[i] \in Char
  OBVIOUS
<1>2. /\ t[0] = << >> /\ \A i \in 1 .. n : t[i] = t[i - 1] \o Piece(l, i)
  BY DEF Loop
<1>3. Piece(l, 1) = <<l[1]>> /\ Piece(l, 2) = <<l[2]>>
  <2>1. 1 % 3 # 0 /\ 2 % 3 # 0
    OBVIOUS
  <2>2. QED
    BY <2>1 DEF Piece
<1>4. Piece(l, 3) = IF n = 3 THEN <<l[3]>> ELSE <<l[3], ",">>
  <2>1. 3 % 3 = 0
    OBVIOUS
  <2>2. QED
    BY <2>1 DEF Piece
<1>5. "," \in Char
  BY DEF Char
<1> HIDE DEF n
<1>6. n >= 1 => 1 \in 1 .. n
  BY <1>1
<1>7. n >= 2 => 1 \in 1 .. n /\ 2 \in 1 .. n /\ 2 - 1 = 1
  BY <1>1
<1>8. n >= 3 => 1 \in 1 .. n /\ 2 \in 1 .. n /\ 3 \in 1 .. n /\ 3 - 1 = 2
  BY <1>1
<1>9. ASSUME 1 \in 1 .. n PROVE t[1] = <<l[1]>>
  <2>1. t[1] = t[0] \o <<l[1]>>
    <3>1. t[1] = t[1 - 1] \o Piece(l, 1) /\ 1 - 1 = 0
      BY <1>2, <1>9
    <3>2. QED
      BY <3>1, <1>3
  <2>2. QED
    BY <2>1, <1>1, <1>2, <1>9, ShortConcat
<1>10. ASSUME 1 \in 1 .. n, 2 \in 1 .. n PROVE t[2] = <<l[1], l[2]>>
  <2>1. t[2] = t[1] \o <<l[2]>>
    <3>1. t[2] = t[2 - 1] \o Piece(l, 2) /\ 2 - 1 = 1
      BY <1>2, <1>10
    <3>2. QED
      BY <3>1, <1>3
  <2>2. l[1] \in Char /\ l[2] \in Char
    BY <1>1, <1>10
  <2>3. <<l[1]>> \o <<l[2]>> = <<l[1], l[2]>>
    BY <2>2, ShortConcat
  <2>4. QED
    BY <2>1, <2>3, <1>9, <1>10
<1>11. ASSUME 1 \in 1 .. n, 2 \in 1 .. n, 3 \in 1 .. n
       PROVE  t[3] = IF n = 3 THEN <<l[1], l[2], l[3]>> ELSE <<l[1], l[2], l[3], ",">>
  <2>1. t[3] = <<l[1], l[2]>> \o Piece(l, 3)
    <3>1. 3 - 1 = 2
      OBVIOUS
    <3>2. t[3] = t[3 - 1] \o Piece(l, 3)
      BY <1>2, <1>11, Zenon
    <3>3. t[2] = <<l[1], l[2]>>
      BY <1>10, <1>11
    <3>4. QED
      BY <3>1, <3>2, <3>3, Zenon
  <2>2. l[1] \in Char /\ l[2] \in Char /\ l[3] \in Char
    BY <1>1, <1>11
  <2>3. <<l[1], l[2]>> \o <<l[3]>> = <<l[1], l[2], l[3]>>
    <3>1. \A p, q, r \in Char : <<p, q>> \o <<r>> = <<p, q, r>>
      BY ShortConcat, Zenon
    <3>2. QED
      BY <2>2, <3>1, Zenon
  <2>4. <<l[1], l[2]>> \o <<l[3], ",">> = <<l[1], l[2], l[3], ",">>
    <3>1. \A p, q, r, u \in Char : <<p, q>> \o <<r, u>> = <<p, q, r, u>>
      BY ShortConcat, Zenon
    <3>2. QED
      BY <2>2, <1>5, <3>1, Zenon
  <2>5. QED
    BY <2>1, <2>3, <2>4, <1>4
<1>12. n \in Nat => (n >= 2 => n >= 1) /\ (n = 3 => n >= 3) /\ (n > 3 => n >= 3 /\ n # 3)
  OBVIOUS
<1>13. /\ n >= 1 => t[1] = <<l[1]>>
       /\ n >= 2 => t[2] = <<l[1], l[2]>>
       /\ n = 3 => t[3] = <<l[1], l[2], l[3]>>
       /\ n > 3 => t[3] = <<l[1], l[2], l[3], ",">>
  BY <1>1, <1>6, <1>7, <1>8, <1>9, <1>10, <1>11, <1>12
<1>14. QED
  BY <1>13 DEF n

(* Appending arrays. *)
LEMMA Concat ==
  /\ \A p, q \in Seq(Char) : p \o q \in Seq(Char) /\ Len(p \o q) = Len(p) + Len(q)
  /\ \A p, q, r \in Seq(Char) : (p \o q) \o r = p \o (q \o r)
  /\ \A p \in Seq(Char) : p \o << >> = p /\ << >> \o p = p
OBVIOUS

(* Three digits before others make a group of their own. *)
LEMMA GroupOff ==
  ASSUME NEW m \in Seq(Char), Len(m) >= 1, NEW g1 \in Char, NEW g2 \in Char, NEW g3 \in Char
  PROVE  Format!separated(<<g1, g2, g3>> \o m) = <<g1, g2, g3, ",">> \o Format!separated(m)
<1> DEFINE l == <<g1, g2, g3>> \o m
           group == <<g1, g2, g3, ",">>
<1>1. /\ l \in Seq(Char) /\ Len(l) = Len(m) + 3 /\ Len(m) \in Nat /\ Len(l) \in Nat
      /\ l[1] = g1 /\ l[2] = g2 /\ l[3] = g3 /\ \A i \in 1 .. Len(m) : l[i + 3] = m[i]
  OBVIOUS
<1>2. group \in Seq(Char)
  BY ShortArrays DEF Char
<1> HIDE DEF l
<1>3. PICK t : Loop(t, l) /\ Format!separated(l) = t[Len(l)]
  BY <1>1, LoopIs
<1>4. PICK u : Loop(u, m) /\ Format!separated(m) = u[Len(m)]
  BY LoopIs
<1>5. /\ t[0] = << >> /\ \A i \in 1 .. Len(l) : t[i] = t[i - 1] \o Piece(l, i)
      /\ u[0] = << >> /\ \A i \in 1 .. Len(m) : u[i] = u[i - 1] \o Piece(m, i)
      /\ \A i \in 0 .. Len(m) : u[i] \in Seq(Char)
  BY <1>3, <1>4 DEF Loop
<1>6. t[3] = group
  <2>1. Len(l) > 3
    BY <1>1
  <2>2. t[3] = <<l[1], l[2], l[3], ",">>
    BY <1>1, <1>3, <2>1, FirstPieces
  <2>3. QED
    BY <1>1, <2>2
<1> HIDE DEF group
<1>7. \A i \in 1 .. Len(m) : Piece(l, i + 3) = Piece(m, i)
  <2> SUFFICES ASSUME NEW i \in 1 .. Len(m) PROVE Piece(l, i + 3) = Piece(m, i)
    OBVIOUS
  <2>1. (i + 3) % 3 = i % 3 /\ (i + 3 = Len(l) <=> i = Len(m))
    BY <1>1
  <2>2. QED
    BY <1>1, <2>1 DEF Piece
<1> DEFINE Z == {j \in Nat : j <= Len(m) => t[j + 3] = group \o u[j]}
<1>8. 0 \in Z
  <2>1. t[3] = group \o u[0]
    BY <1>2, <1>5, <1>6, Concat
  <2>2. QED
    BY <2>1
<1>9. ASSUME NEW j \in Z PROVE j + 1 \in Z
  <2> SUFFICES ASSUME j \in Nat, j + 1 <= Len(m)
               PROVE  t[(j + 1) + 3] = group \o u[j + 1]
    OBVIOUS
  <2>1. /\ j + 1 \in 1 .. Len(m) /\ (j + 1) + 3 \in 1 .. Len(l) /\ j \in 0 .. Len(m)
        /\ ((j + 1) + 3) - 1 = j + 3 /\ (j + 1) - 1 = j
    BY <1>1
  <2>2. t[(j + 1) + 3] = t[j + 3] \o Piece(m, j + 1)
    BY <2>1, <1>5, <1>7
  <2>3. u[j + 1] = u[j] \o Piece(m, j + 1)
    BY <2>1, <1>5
  <2>4. t[j + 3] = group \o u[j]
    BY <2>1
  <2>5. Piece(m, j + 1) \in Seq(Char)
    BY <2>1, PieceType
  <2>6. (group \o u[j]) \o Piece(m, j + 1) = group \o (u[j] \o Piece(m, j + 1))
    <3>1. u[j] \in Seq(Char)
      BY <1>5, <2>1
    <3>2. \A p, q, r \in Seq(Char) : (p \o q) \o r = p \o (q \o r)
      BY Concat, Zenon
    <3> DEFINE before == u[j]
               piece == Piece(m, j + 1)
    <3>3. before \in Seq(Char) /\ piece \in Seq(Char)
      BY <2>5, <3>1, Zenon
    <3> HIDE DEF before, piece
    <3>4. (group \o before) \o piece = group \o (before \o piece)
      BY <1>2, <3>2, <3>3, Zenon
    <3>5. QED
      BY <3>4 DEF before, piece
  <2>7. QED
    BY <2>2, <2>3, <2>4, <2>6
<1>10. Len(m) \in Z
  <2>1. Z \in SUBSET Nat
    OBVIOUS
  <2> HIDE DEF Z
  <2>2. QED
    BY <1>1, <1>8, <1>9, <2>1, List!SetInduction
<1>11. t[Len(l)] = group \o u[Len(m)]
  BY <1>1, <1>10
<1>12. QED
  BY <1>3, <1>4, <1>11 DEF l, group

LEMMA SeparatedType ==
  ASSUME NEW l \in Seq(Char)
  PROVE  Format!separated(l) \in Seq(Char)
<1>1. PICK t : Loop(t, l) /\ Format!separated(l) = t[Len(l)]
  BY LoopIs
<1>2. Len(l) \in 0 .. Len(l)
  OBVIOUS
<1>3. QED
  BY <1>1, <1>2 DEF Loop

(* Up to three characters stay as they are. *)
LEMMA ShortSame ==
  ASSUME NEW l \in Seq(Char), Len(l) \in 1 .. 3
  PROVE  Format!separated(l) = l
<1>1. PICK t : Loop(t, l) /\ Format!separated(l) = t[Len(l)]
  BY LoopIs
<1>2. /\ Len(l) >= 1 => t[1] = <<l[1]>>
      /\ Len(l) >= 2 => t[2] = <<l[1], l[2]>>
      /\ Len(l) = 3 => t[3] = <<l[1], l[2], l[3]>>
  BY <1>1, FirstPieces
<1>3. CASE Len(l) = 1
  <2>1. l = <<l[1]>>
    BY <1>3
  <2>2. QED
    BY <1>1, <1>2, <1>3, <2>1
<1>4. CASE Len(l) = 2
  <2>1. l = <<l[1], l[2]>>
    BY <1>4
  <2>2. QED
    BY <1>1, <1>2, <1>4, <2>1
<1>5. CASE Len(l) = 3
  <2>1. l = <<l[1], l[2], l[3]>>
    BY <1>5
  <2>2. QED
    BY <1>1, <1>2, <1>5, <2>1
<1>6. Len(l) = 1 \/ Len(l) = 2 \/ Len(l) = 3
  OBVIOUS
<1>7. QED
  BY <1>3, <1>4, <1>5, <1>6

(* A character after groups that are not all complete gets no comma. *)
LEMMA SignLast ==
  ASSUME NEW m \in Seq(Char), Len(m) % 3 # 0, NEW p \in Char
  PROVE  Format!separated(m \o <<p>>) = Format!separated(m) \o <<p>>
<1> DEFINE l == m \o <<p>>
           n == Len(m)
<1>1. /\ l \in Seq(Char) /\ Len(l) = n + 1 /\ n \in Nat
      /\ l[n + 1] = p /\ \A i \in 1 .. n : l[i] = m[i]
  OBVIOUS
<1>2. n % 3 # 0
  OBVIOUS
<1> HIDE DEF l
<1>3. PICK t : Loop(t, l) /\ Format!separated(l) = t[Len(l)]
  BY <1>1, LoopIs
<1>4. PICK u : Loop(u, m) /\ Format!separated(m) = u[Len(m)]
  BY LoopIs
<1>5. /\ t[0] = << >> /\ \A i \in 1 .. n + 1 : t[i] = t[i - 1] \o Piece(l, i)
      /\ u[0] = << >> /\ \A i \in 1 .. n : u[i] = u[i - 1] \o Piece(m, i)
  BY <1>1, <1>3, <1>4 DEF Loop
<1>6. ASSUME NEW i \in 1 .. n PROVE Piece(l, i) = Piece(m, i)
  <2>1. i # Len(l)
    BY <1>1
  <2>2. i % 3 = 0 => i # Len(m)
    BY <1>2
  <2>3. QED
    BY <1>1, <2>1, <2>2 DEF Piece
<1>7. Piece(l, n + 1) = <<p>>
  BY <1>1 DEF Piece
<1> HIDE DEF n
<1> DEFINE Z == {j \in Nat : j <= n => t[j] = u[j]}
<1>8. 0 \in Z
  BY <1>5
<1>9. ASSUME NEW j \in Z PROVE j + 1 \in Z
  <2> SUFFICES ASSUME j \in Nat, j + 1 <= n
               PROVE  t[j + 1] = u[j + 1]
    OBVIOUS
  <2>1. j + 1 \in 1 .. n /\ j + 1 \in 1 .. n + 1 /\ (j + 1) - 1 = j /\ j <= n
    BY <1>1
  <2>2. t[j + 1] = t[j] \o Piece(m, j + 1)
    BY <2>1, <1>5, <1>6
  <2>3. u[j + 1] = u[j] \o Piece(m, j + 1)
    BY <2>1, <1>5
  <2>4. t[j] = u[j]
    BY <2>1
  <2>5. QED
    BY <2>2, <2>3, <2>4
<1>10. n \in Z
  <2>1. Z \in SUBSET Nat
    OBVIOUS
  <2> HIDE DEF Z
  <2>2. QED
    BY <1>1, <1>8, <1>9, <2>1, List!SetInduction
<1>11. t[n] = u[n]
  BY <1>1, <1>10
<1>12. t[n + 1] = t[n] \o <<p>>
  <2>1. n + 1 \in 1 .. n + 1 /\ (n + 1) - 1 = n
    BY <1>1
  <2>2. QED
    BY <1>5, <1>7, <2>1
<1>13. Format!separated(l) = Format!separated(m) \o <<p>>
  BY <1>1, <1>3, <1>4, <1>11, <1>12 DEF n
<1>14. QED
  BY <1>13 DEF l

(* The digits before the point, and in groups, are what their recursive    *)
(* definitions say.                                                        *)
LEMMA DigitsAre ==
  /\ Format!digits \in [Nat -> Seq(0 .. 9)]
  /\ \A n \in Nat : Format!digits[n] =
       IF n < 10 THEN <<n>> ELSE Format!digits[n \div 10] \o <<n % 10>>
<1> DEFINE base == [n \in Nat |-> <<IF n < 10 THEN n ELSE 0>>]
           tail == [n \in Nat |-> <<n % 10>>]
           pred == [n \in Nat |-> n \div 10]
           writes(f) ==
             f = [n \in Nat |-> IF n < 10 THEN <<n>> ELSE f[n \div 10] \o <<n % 10>>]
<1>1. /\ base \in [Nat -> Seq(0 .. 9)] /\ tail \in [Nat -> Seq(0 .. 9)]
      /\ pred \in [Nat -> Nat] /\ 10 \in Nat \ {0}
      /\ \A n \in Nat : n >= 10 => pred[n] \in Nat /\ pred[n] < n
  <2>1. \A n \in Nat : (IF n < 10 THEN n ELSE 0) \in 0 .. 9 /\ n % 10 \in 0 .. 9
    OBVIOUS
  <2>2. \A p \in 0 .. 9 : <<p>> \in Seq(0 .. 9)
    OBVIOUS
  <2>3. base \in [Nat -> Seq(0 .. 9)]
    BY <2>1, <2>2
  <2>4. tail \in [Nat -> Seq(0 .. 9)]
    BY <2>1, <2>2
  <2>5. QED
    BY <2>3, <2>4
<1>2. ASSUME NEW f
      PROVE  [n \in Nat |-> IF n < 10 THEN base[n] ELSE f[pred[n]] \o tail[n]]
               = [n \in Nat |-> IF n < 10 THEN <<n>> ELSE f[n \div 10] \o <<n % 10>>]
  OBVIOUS
<1> HIDE DEF base, tail, pred
<1>3. /\ \E f : List!Solves(f, Nat, 10, base, tail, pred)
      /\ \A f : List!Solves(f, Nat, 10, base, tail, pred) => f \in [Nat -> Seq(0 .. 9)]
  <2> DEFINE h == 10
             digit == 0 .. 9
  <2>1. /\ base \in [Nat -> Seq(digit)] /\ tail \in [Nat -> Seq(digit)]
        /\ pred \in [Nat -> Nat] /\ h \in Nat \ {0} /\ Nat \in SUBSET Nat
        /\ \A n \in Nat : n >= h => pred[n] \in Nat /\ pred[n] < n
    BY <1>1
  <2> HIDE DEF h, digit
  <2>2. /\ \E f : List!Solves(f, Nat, h, base, tail, pred)
        /\ \A f : List!Solves(f, Nat, h, base, tail, pred) => f \in [Nat -> Seq(digit)]
    BY <2>1, List!RecursionExists
  <2>3. QED
    BY <2>2 DEF h, digit
<1>4. (\E f : writes(f)) /\ (\A f : writes(f) => f \in [Nat -> Seq(0 .. 9)])
  <2> DEFINE solves(f) == List!Solves(f, Nat, 10, base, tail, pred)
             written == [Nat -> Seq(0 .. 9)]
  <2>1. \A f : solves(f) <=> writes(f)
    BY <1>2 DEF List!Solves
  <2>2. (\E f : solves(f)) /\ (\A f : solves(f) => f \in written)
    BY <1>3
  <2> HIDE DEF solves, writes, written
  <2>3. (\E f : writes(f)) /\ (\A f : writes(f) => f \in written)
    BY <2>1, <2>2, Zenon
  <2>4. QED
    BY <2>3 DEF written
<1> DEFINE f == CHOOSE f : writes(f)
<1>5. writes(f) /\ f \in [Nat -> Seq(0 .. 9)]
  BY <1>4
<1>6. Format!digits = f
  BY DEF Format!digits
<1> HIDE DEF f
<1>7. \A n \in Nat : f[n] = IF n < 10 THEN <<n>> ELSE f[n \div 10] \o <<n % 10>>
  BY <1>5
<1>8. QED
  BY <1>5, <1>6, <1>7

LEMMA WiderArrays ==
  ASSUME NEW S, NEW T, S \subseteq T, NEW s \in Seq(S)
  PROVE  s \in Seq(T)
OBVIOUS

LEMMA DigitFacts ==
  ASSUME NEW n \in Nat
  PROVE  /\ n < 10 => n \in 0 .. 9
         /\ n < 100 => n \div 10 < 10
         /\ n < 1000 => n \div 10 < 100
         /\ n >= 1000 => n >= 10 /\ n \div 10 >= 10 /\ n \div 100 >= 10
         /\ (n \div 10) \div 10 = n \div 100 /\ (n \div 100) \div 10 = n \div 1000
         /\ (n \div 100) % 10 = (n % 1000) \div 100 /\ (n \div 10) % 10 = (n % 100) \div 10
         /\ n \div 10 \in Nat /\ n \div 100 \in Nat /\ n \div 1000 \in Nat
         /\ n % 10 \in 0 .. 9 /\ (n % 1000) \div 100 \in 0 .. 9
         /\ (n % 100) \div 10 \in 0 .. 9
         /\ n >= 1000 => n \div 1000 < n
OBVIOUS

LEMMA DigitsLong ==
  ASSUME NEW n \in Nat
  PROVE  /\ Format!digits[n] \in Seq(Char) /\ Len(Format!digits[n]) >= 1
         /\ n < 1000 => Len(Format!digits[n]) \in 1 .. 3
<1> DEFINE d(i) == Format!digits[i]
           tenth(i) == i \div 10
           size(i) == Len(d(i))
<1>1. \A i \in Nat : /\ d(i) \in Seq(0 .. 9)
                     /\ d(i) = IF i < 10 THEN <<i>> ELSE d(tenth(i)) \o <<i % 10>>
  <2>1. \A i \in Nat : d(i) \in Seq(0 .. 9)
    BY DigitsAre
  <2>2. \A i \in Nat : d(i) = IF i < 10 THEN <<i>> ELSE d(tenth(i)) \o <<i % 10>>
    BY DigitsAre
  <2>3. QED
    BY <2>1, <2>2
<1>2. \A i \in Nat : i % 10 \in 0 .. 9 /\ tenth(i) \in Nat
  BY DigitFacts
<1>3. /\ \A i \in Nat : i < 100 => tenth(i) < 10
      /\ \A i \in Nat : i < 1000 => tenth(i) < 100
  BY DigitFacts
<1> HIDE DEF d, tenth
<1>4. \A i \in Nat : d(i) \in Seq(Char)
  <2>1. 0 .. 9 \subseteq Char
    BY DEF Char
  <2>2. QED
    BY <1>1, <2>1, WiderArrays
<1>5. ASSUME NEW i \in Nat, i < 10 PROVE size(i) = 1
  <2>1. d(i) = <<i>>
    BY <1>1, <1>5
  <2>2. QED
    BY <2>1
<1>6. ASSUME NEW i \in Nat, i >= 10
      PROVE  size(i) = size(tenth(i)) + 1
  <2>1. ~(i < 10)
    BY <1>6
  <2>2. d(i) = d(tenth(i)) \o <<i % 10>> /\ d(tenth(i)) \in Seq(0 .. 9)
    BY <1>1, <1>2, <2>1
  <2>3. \A p \in Seq(0 .. 9), q \in 0 .. 9 : Len(p \o <<q>>) = Len(p) + 1
    OBVIOUS
  <2>4. QED
    BY <1>2, <2>2, <2>3
<1>7. \A i \in Nat : size(i) \in Nat
  BY <1>1
<1> HIDE DEF size
<1>8. \A i \in Nat : i < 100 => size(i) \in 1 .. 2
  <2> SUFFICES ASSUME NEW i \in Nat, i < 100 PROVE size(i) \in 1 .. 2
    OBVIOUS
  <2>1. CASE i < 10
    BY <1>5, <2>1
  <2>2. CASE i >= 10
    BY <1>2, <1>3, <1>5, <1>6, <2>2
  <2>3. QED
    BY <2>1, <2>2
<1>9. n < 1000 => size(n) \in 1 .. 3
  <2> SUFFICES ASSUME n < 1000 PROVE size(n) \in 1 .. 3
    OBVIOUS
  <2>1. CASE n < 10
    BY <1>5, <2>1
  <2>2. CASE n >= 10
    BY <1>2, <1>3, <1>6, <1>8, <2>2
  <2>3. QED
    BY <2>1, <2>2
<1>10. size(n) >= 1
  <2>1. CASE n < 10
    BY <1>5, <2>1
  <2>2. CASE n >= 10
    BY <1>2, <1>6, <1>7, <2>2
  <2>3. QED
    BY <2>1, <2>2
<1>11. d(n) \in Seq(Char) /\ size(n) >= 1 /\ (n < 1000 => size(n) \in 1 .. 3)
  BY <1>4, <1>9, <1>10
<1>12. QED
  BY <1>11 DEF d, size

LEMMA LastDigits ==
  ASSUME NEW n \in Nat, n >= 1000
  PROVE  Format!digits[n] =
           Format!digits[n \div 1000] \o <<(n % 1000) \div 100, (n % 100) \div 10, n % 10>>
<1> DEFINE d(i) == Format!digits[i]
           tenth(i) == i \div 10
           unit(i) == i % 10
           g1 == (n % 1000) \div 100
           g2 == (n % 100) \div 10
           q == n \div 1000
           n1 == n \div 10
           n2 == n \div 100
<1>1. \A i \in Nat : i >= 10 => d(i) = d(tenth(i)) \o <<unit(i)>>
  <2>1. \A i \in Nat : d(i) = IF i < 10 THEN <<i>> ELSE d(tenth(i)) \o <<unit(i)>>
    BY DigitsAre
  <2> HIDE DEF d, tenth, unit
  <2>2. \A i \in Nat : i >= 10 => ~(i < 10)
    OBVIOUS
  <2>3. QED
    BY <2>1, <2>2, Zenon
<1>2. \A i \in Nat : d(i) \in Seq(0 .. 9)
  BY DigitsAre
<1>3. /\ n >= 10 /\ n1 >= 10 /\ n2 >= 10
      /\ tenth(n) = n1 /\ tenth(n1) = n2 /\ tenth(n2) = q
      /\ unit(n2) = g1 /\ unit(n1) = g2
      /\ n1 \in Nat /\ n2 \in Nat /\ q \in Nat
      /\ g1 \in 0 .. 9 /\ g2 \in 0 .. 9 /\ unit(n) \in 0 .. 9
  BY DigitFacts
<1> DEFINE g3 == unit(n)
<1> HIDE DEF d, tenth, unit, g1, g2, q, n1, n2
<1>4. d(n) = d(n1) \o <<g3>>
  BY <1>1, <1>3
<1>5. d(n1) = d(n2) \o <<g2>>
  BY <1>1, <1>3
<1>6. d(n2) = d(q) \o <<g1>>
  BY <1>1, <1>3
<1>7. g3 \in 0 .. 9
  BY <1>3
<1> DEFINE e == d(q)
<1>8. e \in Seq(0 .. 9)
  BY <1>2, <1>3
<1> HIDE DEF g3, e
<1>9. d(n) = ((e \o <<g1>>) \o <<g2>>) \o <<g3>>
  BY <1>4, <1>5, <1>6, Zenon DEF e
<1>10. (<<g1>> \o <<g2>>) \o <<g3>> = <<g1, g2, g3>>
  <2>1. 0 .. 9 \subseteq Char
    BY DEF Char
  <2>2. g1 \in Char /\ g2 \in Char /\ g3 \in Char
    BY <1>3, <1>7, <2>1
  <2>3. <<g1>> \o <<g2>> = <<g1, g2>>
    <3>1. \A p, r \in Char : <<p>> \o <<r>> = <<p, r>>
      BY ShortConcat, Zenon
    <3>2. QED
      BY <2>2, <3>1, Zenon
  <2>4. <<g1, g2>> \o <<g3>> = <<g1, g2, g3>>
    <3>1. \A p, r, u \in Char : <<p, r>> \o <<u>> = <<p, r, u>>
      BY ShortConcat, Zenon
    <3>2. QED
      BY <2>2, <3>1, Zenon
  <2>5. QED
    BY <2>3, <2>4, Zenon
<1>11. ((e \o <<g1>>) \o <<g2>>) \o <<g3>> = e \o ((<<g1>> \o <<g2>>) \o <<g3>>)
  <2> DEFINE digit == 0 .. 9
             a == <<g1>>
             b == <<g2>>
             c == <<g3>>
  <2>1. a \in Seq(digit) /\ b \in Seq(digit) /\ c \in Seq(digit) /\ e \in Seq(digit)
    BY <1>3, <1>7, <1>8, ShortArrays
  <2> HIDE DEF digit, a, b, c
  <2>2. (e \o a) \o b = e \o (a \o b) /\ a \o b \in Seq(digit)
    BY <2>1
  <2> DEFINE ab == a \o b
  <2> HIDE DEF ab
  <2>3. ab \in Seq(digit)
    BY <2>2 DEF ab
  <2>4. (e \o ab) \o c = e \o (ab \o c)
    BY <2>1, <2>3
  <2>5. QED
    BY <2>2, <2>4 DEF ab, a, b, c
<1>12. d(n) = e \o <<g1, g2, g3>>
  BY <1>9, <1>10, <1>11, Zenon
<1>13. QED
  BY <1>12 DEF e, d, g1, g2, g3, q, unit

LEMMA GroupedAre ==
  /\ Format!grouped \in [Nat -> Seq(Char)]
  /\ \A n \in Nat : n < 1000 => Format!grouped[n] = Format!digits[n]
  /\ \A n \in Nat : n >= 1000 =>
       Format!grouped[n] = Format!grouped[n \div 1000]
                             \o <<",", (n % 1000) \div 100, (n % 100) \div 10, n % 10>>
<1> DEFINE last(n) == <<",", (n % 1000) \div 100, (n % 100) \div 10, n % 10>>
           base == [n \in Nat |-> Format!digits[n]]
           tail == [n \in Nat |-> last(n)]
           pred == [n \in Nat |-> n \div 1000]
           value(f, n) == IF n < 1000 THEN Format!digits[n] ELSE f[n \div 1000] \o last(n)
           groups(f) == f = [n \in Nat |-> value(f, n)]
<1>1. base \in [Nat -> Seq(Char)]
  BY DigitsLong
<1>2. \A n \in Nat : last(n) \in Seq(Char)
  <2> SUFFICES ASSUME NEW n \in Nat PROVE last(n) \in Seq(Char)
    OBVIOUS
  <2> DEFINE g1 == (n % 1000) \div 100
             g2 == (n % 100) \div 10
             g3 == n % 10
  <2>1. g1 \in 0 .. 9 /\ g2 \in 0 .. 9 /\ g3 \in 0 .. 9
    BY DigitFacts
  <2> HIDE DEF g1, g2, g3
  <2>2. "," \in Char /\ g1 \in Char /\ g2 \in Char /\ g3 \in Char
    BY <2>1 DEF Char
  <2>3. <<",", g1, g2, g3>> \in Seq(Char)
    BY <2>2, ShortArrays
  <2>4. QED
    BY <2>3 DEF g1, g2, g3
<1>3. /\ pred \in [Nat -> Nat] /\ 1000 \in Nat \ {0}
      /\ \A n \in Nat : n >= 1000 => pred[n] \in Nat /\ pred[n] < n
  OBVIOUS
<1> HIDE DEF last
<1>4. tail \in [Nat -> Seq(Char)]
  BY <1>2
<1> DEFINE given(f, n) == IF n < 1000 THEN base[n] ELSE f[pred[n]] \o tail[n]
<1>5. \A f, n : n \in Nat => given(f, n) = value(f, n)
  OBVIOUS
<1> HIDE DEF base, tail, pred, value, given
<1>6. \A f : List!Solves(f, Nat, 1000, base, tail, pred) <=> groups(f)
  <2> DEFINE step(f) ==
               [n \in Nat |-> IF n < 1000 THEN base[n] ELSE f[pred[n]] \o tail[n]]
             group(f) == [n \in Nat |-> value(f, n)]
  <2>1. \A f : step(f) = group(f)
    <3> SUFFICES ASSUME NEW f PROVE step(f) = group(f)
      OBVIOUS
    <3>1. [n \in Nat |-> given(f, n)] = [n \in Nat |-> value(f, n)]
      BY <1>5
    <3>2. QED
      BY <3>1 DEF given
  <2> DEFINE solves(f) == List!Solves(f, Nat, 1000, base, tail, pred)
  <2>2. \A f : solves(f) <=> f = step(f)
    BY DEF List!Solves
  <2>3. \A f : groups(f) <=> f = group(f)
    OBVIOUS
  <2> HIDE DEF step, group, groups, solves
  <2>4. \A f : solves(f) <=> groups(f)
    BY <2>1, <2>2, <2>3, Zenon
  <2>5. QED
    BY <2>4 DEF solves
<1>7. /\ \E f : List!Solves(f, Nat, 1000, base, tail, pred)
      /\ \A f : List!Solves(f, Nat, 1000, base, tail, pred) => f \in [Nat -> Seq(Char)]
  <2>1. Nat \in SUBSET Nat
    OBVIOUS
  <2> DEFINE h == 1000
  <2>2. h \in Nat \ {0}
    OBVIOUS
  <2>3. \A n \in Nat : n >= h => pred[n] \in Nat /\ pred[n] < n
    BY <1>3
  <2>4. pred \in [Nat -> Nat]
    BY <1>3
  <2> HIDE DEF h
  <2>5. /\ \E f : List!Solves(f, Nat, h, base, tail, pred)
        /\ \A f : List!Solves(f, Nat, h, base, tail, pred) => f \in [Nat -> Seq(Char)]
    BY <1>1, <1>4, <2>1, <2>2, <2>3, <2>4, List!RecursionExists
  <2>6. QED
    BY <2>5 DEF h
<1> HIDE DEF groups
<1>8. (\E f : groups(f)) /\ (\A f : groups(f) => f \in [Nat -> Seq(Char)])
  BY <1>6, <1>7
<1> DEFINE g == CHOOSE f : groups(f)
<1>9. groups(g) /\ g \in [Nat -> Seq(Char)]
  BY <1>8
<1>10. Format!grouped = g
  BY DEF Format!grouped, last, value, groups
<1> HIDE DEF g
<1>11. \A n \in Nat : g[n] = value(g, n)
  BY <1>9 DEF groups
<1>12. g \in [Nat -> Seq(Char)]
  BY <1>9
<1>13. \A n \in Nat : Format!grouped[n] = value(Format!grouped, n)
  BY <1>10, <1>11, Zenon
<1> DEFINE small(n) == n < 1000
           q(n) == n \div 1000
<1>14. \A n \in Nat : Format!grouped[n] =
         IF small(n) THEN Format!digits[n] ELSE Format!grouped[q(n)] \o last(n)
  BY <1>13 DEF value
<1>15. \A n \in Nat : n >= 1000 => ~small(n)
  OBVIOUS
<1>16. \A n \in Nat : n < 1000 => small(n)
  OBVIOUS
<1> HIDE DEF small, q
<1>17. /\ \A n \in Nat : small(n) => Format!grouped[n] = Format!digits[n]
       /\ \A n \in Nat : ~small(n) => Format!grouped[n] = Format!grouped[q(n)] \o last(n)
  BY <1>14, Zenon
<1>18. /\ \A n \in Nat : n < 1000 => Format!grouped[n] = Format!digits[n]
       /\ \A n \in Nat : n >= 1000 => Format!grouped[n] = Format!grouped[q(n)] \o last(n)
  BY <1>15, <1>16, <1>17
<1>19. QED
  BY <1>10, <1>12, <1>18 DEF last, q

LEMMA RevShort ==
  /\ \A p \in Char : Rev(<<p>>) = <<p>>
  /\ \A p, q, r \in Char : Rev(<<p, q, r>>) = <<r, q, p>>
  /\ \A p, q, r, u \in Char : Rev(<<p, q, r, u>>) = <<u, r, q, p>>
<1>1. ASSUME NEW p \in Char PROVE Rev(<<p>>) = <<p>>
  <2> DEFINE s == <<p>>
  <2>1. s \in Seq(Char) /\ Len(s) = 1 /\ s[1] = p
    OBVIOUS
  <2> HIDE DEF s
  <2>2. Rev(s) \in Seq(Char) /\ Len(Rev(s)) = 1 /\ Rev(s)[1] = s[(1 - 1) + 1]
    BY <2>1, RevIs
  <2>3. Rev(s) = <<p>>
    BY <2>1, <2>2
  <2>4. QED
    BY <2>3 DEF s
<1>2. ASSUME NEW p \in Char, NEW q \in Char, NEW r \in Char
      PROVE  Rev(<<p, q, r>>) = <<r, q, p>>
  <2> DEFINE s == <<p, q, r>>
  <2>1. s \in Seq(Char) /\ Len(s) = 3 /\ s[1] = p /\ s[2] = q /\ s[3] = r
    OBVIOUS
  <2> HIDE DEF s
  <2>2. /\ Rev(s) \in Seq(Char) /\ Len(Rev(s)) = 3
        /\ \A i \in 1 .. 3 : Rev(s)[i] = s[(3 - i) + 1]
    BY <2>1, RevIs
  <2>3. Rev(s)[1] = r /\ Rev(s)[2] = q /\ Rev(s)[3] = p
    BY <2>1, <2>2
  <2> DEFINE v == Rev(s)
  <2>4. v \in Seq(Char) /\ Len(v) = 3 /\ v[1] = r /\ v[2] = q /\ v[3] = p
    BY <2>2, <2>3
  <2> HIDE DEF v
  <2>5. v = <<r, q, p>>
    BY <2>4
  <2>6. QED
    BY <2>5 DEF s, v
<1>3. ASSUME NEW p \in Char, NEW q \in Char, NEW r \in Char, NEW u \in Char
      PROVE  Rev(<<p, q, r, u>>) = <<u, r, q, p>>
  <2> DEFINE s == <<p, q, r, u>>
  <2>1. s \in Seq(Char) /\ Len(s) = 4 /\ s[1] = p /\ s[2] = q /\ s[3] = r /\ s[4] = u
    OBVIOUS
  <2> HIDE DEF s
  <2>2. /\ Rev(s) \in Seq(Char) /\ Len(Rev(s)) = 4
        /\ \A i \in 1 .. 4 : Rev(s)[i] = s[(4 - i) + 1]
    BY <2>1, RevIs
  <2>3. Rev(s)[1] = u /\ Rev(s)[2] = r /\ Rev(s)[3] = q /\ Rev(s)[4] = p
    BY <2>1, <2>2
  <2> DEFINE v == Rev(s)
  <2>4. /\ v \in Seq(Char) /\ Len(v) = 4
        /\ v[1] = u /\ v[2] = r /\ v[3] = q /\ v[4] = p
    BY <2>2, <2>3
  <2> HIDE DEF v
  <2>5. v = <<u, r, q, p>>
    BY <2>4
  <2>6. QED
    BY <2>5 DEF s, v
<1>4. QED
  BY <1>1, <1>2, <1>3

(* The loop from the right puts a comma before every three last digits.    *)
LEMMA DigitsGrouped ==
  ASSUME NEW amount \in Nat
  PROVE  Rev(Format!separated(Rev(Format!digits[amount]))) = Format!grouped[amount]
<1> DEFINE d(n) == Format!digits[n]
           written(n) == Rev(Format!separated(Rev(d(n))))
           grouped(n) == Format!grouped[n]
           g1(n) == (n % 1000) \div 100
           g2(n) == (n % 100) \div 10
           g3(n) == n % 10
           q(n) == n \div 1000
           large(n) == n >= 1000
           Right(n) == written(n) = grouped(n)
<1>1. /\ \A n \in Nat : n < 1000 => grouped(n) = d(n)
      /\ \A n \in Nat : large(n) =>
           grouped(n) = grouped(q(n)) \o <<",", g1(n), g2(n), g3(n)>>
  BY GroupedAre
<1>2. \A n \in Nat : large(n) => d(n) = d(q(n)) \o <<g1(n), g2(n), g3(n)>>
  BY LastDigits
<1>3. \A n \in Nat : /\ d(n) \in Seq(Char) /\ Len(d(n)) >= 1
                     /\ n < 1000 => Len(d(n)) \in 1 .. 3
  BY DigitsLong
<1>4. \A n \in Nat : /\ q(n) \in Nat /\ (large(n) => q(n) < n)
                     /\ g1(n) \in Char /\ g2(n) \in Char /\ g3(n) \in Char
  <2>1. \A n \in Nat : /\ q(n) \in Nat /\ (large(n) => q(n) < n)
                       /\ g1(n) \in 0 .. 9 /\ g2(n) \in 0 .. 9 /\ g3(n) \in 0 .. 9
    BY DigitFacts
  <2>2. 0 .. 9 \subseteq Char
    BY DEF Char
  <2> HIDE DEF q, g1, g2, g3, large
  <2>3. QED
    BY <2>1, <2>2
<1>5. \A n \in Nat : n < 1000 \/ large(n)
  OBVIOUS
<1> HIDE DEF d, grouped, g1, g2, g3, q, large
<1>6. ASSUME NEW n \in Nat, n < 1000 PROVE Right(n)
  <2>1. d(n) \in Seq(Char) /\ Len(d(n)) \in 1 .. 3 /\ grouped(n) = d(n)
    BY <1>1, <1>3, <1>6
  <2>2. Rev(d(n)) \in Seq(Char) /\ Len(Rev(d(n))) = Len(d(n))
    BY <2>1, RevIs
  <2>3. Format!separated(Rev(d(n))) = Rev(d(n))
    BY <2>1, <2>2, ShortSame
  <2>4. QED
    BY <2>1, <2>3, RevRev
<1>7. ASSUME NEW n \in Nat, large(n), Right(q(n)) PROVE Right(n)
  <2> DEFINE a == g1(n)
             b == g2(n)
             c == g3(n)
             m == Rev(d(q(n)))
             e == Format!separated(m)
  <2>1. a \in Char /\ b \in Char /\ c \in Char /\ "," \in Char
    BY <1>4 DEF Char
  <2>2. d(n) = d(q(n)) \o <<a, b, c>>
    BY <1>2, <1>7, Zenon
  <2>3. grouped(n) = grouped(q(n)) \o <<",", a, b, c>>
    BY <1>1, <1>7, Zenon
  <2>4. d(q(n)) \in Seq(Char) /\ Len(d(q(n))) >= 1
    BY <1>3, <1>4
  <2>5. written(q(n)) = grouped(q(n))
    BY <1>7
  <2> HIDE DEF a, b, c
  <2>6. m \in Seq(Char) /\ Len(m) >= 1
    BY <2>4, RevIs
  <2>7. Rev(d(n)) = <<c, b, a>> \o m
    <3>1. <<a, b, c>> \in Seq(Char)
      BY <2>1, ShortArrays
    <3>2. Rev(d(q(n)) \o <<a, b, c>>) = Rev(<<a, b, c>>) \o m
      BY <2>4, <3>1, RevCat
    <3>3. Rev(<<a, b, c>>) = <<c, b, a>>
      BY <2>1, RevShort, Zenon
    <3>4. QED
      BY <2>2, <3>2, <3>3, Zenon
  <2>8. written(q(n)) = Rev(e)
    OBVIOUS
  <2> HIDE DEF m
  <2>9. Format!separated(<<c, b, a>> \o m) = <<c, b, a, ",">> \o e
    BY <2>1, <2>6, GroupOff
  <2>10. e \in Seq(Char)
    BY <2>6, SeparatedType
  <2> HIDE DEF e
  <2>11. Rev(<<c, b, a, ",">> \o e) = Rev(e) \o <<",", a, b, c>>
    <3>1. <<c, b, a, ",">> \in Seq(Char)
      BY <2>1, ShortArrays
    <3>2. Rev(<<c, b, a, ",">> \o e) = Rev(e) \o Rev(<<c, b, a, ",">>)
      BY <2>10, <3>1, RevCat
    <3>3. Rev(<<c, b, a, ",">>) = <<",", a, b, c>>
      <4> DEFINE comma == ","
      <4>1. \A p, v, r, u \in Char : Rev(<<p, v, r, u>>) = <<u, r, v, p>>
        BY RevShort, Zenon
      <4>2. a \in Char /\ b \in Char /\ c \in Char /\ comma \in Char
        BY <2>1
      <4> HIDE DEF comma
      <4>3. \A r, u \in Char : Rev(<<c, b, r, u>>) = <<u, r, b, c>>
        BY <4>1, <4>2, Zenon
      <4>4. Rev(<<c, b, a, comma>>) = <<comma, a, b, c>>
        BY <4>2, <4>3, Zenon
      <4>5. QED
        BY <4>4 DEF comma
    <3>4. QED
      BY <3>2, <3>3, Zenon
  <2>12. written(n) = grouped(q(n)) \o <<",", a, b, c>>
    BY <2>5, <2>7, <2>8, <2>9, <2>11, Zenon
  <2>13. QED
    BY <2>3, <2>12, Zenon
<1> HIDE DEF Right
<1> DEFINE Z == {k \in Nat : \A n \in Nat : n <= k => Right(n)}
<1>8. 0 \in Z
  <2>1. \A n \in Nat : n <= 0 => n < 1000
    OBVIOUS
  <2>2. QED
    BY <1>6, <2>1
<1>9. ASSUME NEW k \in Z PROVE k + 1 \in Z
  <2> SUFFICES ASSUME NEW n \in Nat, n <= k + 1 PROVE Right(n)
    OBVIOUS
  <2>1. CASE n < 1000
    BY <1>6, <2>1
  <2>2. CASE large(n)
    <3>1. q(n) \in Nat /\ q(n) < n
      BY <1>4, <2>2
    <3>2. q(n) <= k
      BY <3>1
    <3>3. Right(q(n))
      BY <3>1, <3>2
    <3>4. QED
      BY <1>7, <2>2, <3>3
  <2>3. QED
    BY <1>5, <2>1, <2>2
<1>10. Right(amount)
  <2>1. Z \in SUBSET Nat
    OBVIOUS
  <2>2. \A k \in Z : Right(k)
    OBVIOUS
  <2> HIDE DEF Z
  <2>3. amount \in Z
    BY <1>8, <1>9, <2>1, List!SetInduction
  <2>4. QED
    BY <2>2, <2>3
<1>11. QED
  BY <1>10 DEF Right, d, grouped

LEMMA MoneyIs ==
  ASSUME number \in Int
  PROVE  Format!MoneyGrouped
<1> DEFINE w == Format!Size(number) \div 100
           d == Format!digits[w]
           end == <<".">> \o Format!toFixed(number).part
           whole == Format!sign(number) \o d
<1>1. w \in Nat
  BY DEF Format!Size
<1>2. Format!fmoney(number) =
        Rev(Format!separated(Rev(whole))) \o <<".">> \o Format!toFixed(number).part
  BY DEF Format!fmoney, Format!toFixed, Rev
<1>3. /\ d \in Seq(Char) /\ Rev(Format!separated(Rev(d))) = Format!grouped[w]
  BY <1>1, DigitsLong, DigitsGrouped
<1>4. CASE number >= 0
  <2>1. Format!sign(number) = << >>
    BY <1>4 DEF Format!sign
  <2> HIDE DEF d, w
  <2>2. whole = d
    BY <1>3, <2>1, Concat
  <2>3. << >> \o Format!grouped[w] = Format!grouped[w]
    <3>1. Format!grouped[w] \in Seq(Char)
      <4>1. Format!grouped \in [Nat -> Seq(Char)]
        BY GroupedAre
      <4>2. QED
        BY <1>1, <4>1
    <3>2. QED
      BY <3>1, Concat, Zenon
  <2>4. Format!fmoney(number) =
          Format!sign(number) \o Format!grouped[w] \o <<".">> \o Format!toFixed(number).part
    BY <1>2, <1>3, <2>1, <2>2, <2>3
  <2>5. QED
    BY <2>4 DEF Format!MoneyGrouped, w
<1>5. CASE number < 0 /\ Len(d) % 3 = 0
  BY <1>5 DEF Format!MoneyGrouped
<1>6. CASE number < 0 /\ Len(d) % 3 # 0
  <2>1. Format!sign(number) = <<"-">>
    BY <1>6 DEF Format!sign
  <2>2. Len(d) % 3 # 0
    BY <1>6
  <2>3. "-" \in Char
    BY DEF Char
  <2>4. <<"-">> \in Seq(Char) /\ Rev(<<"-">>) = <<"-">>
    BY <2>3, ShortArrays, RevShort
  <2> HIDE DEF d, w
  <2> DEFINE m == Rev(d)
  <2>5. Rev(<<"-">> \o d) = m \o <<"-">>
    BY <1>3, <2>4, RevCat
  <2>6. m \in Seq(Char) /\ Len(m) % 3 # 0
    BY <1>3, <2>2, RevIs
  <2>7. Format!separated(m \o <<"-">>) = Format!separated(m) \o <<"-">>
    BY <2>3, <2>6, SignLast
  <2>8. Rev(Format!separated(m) \o <<"-">>) = <<"-">> \o Rev(Format!separated(m))
    <3>1. Format!separated(m) \in Seq(Char)
      BY <2>6, SeparatedType
    <3>2. QED
      BY <2>4, <3>1, RevCat
  <2>9. Rev(Format!separated(Rev(whole))) = Format!sign(number) \o Format!grouped[w]
    BY <1>3, <2>1, <2>5, <2>7, <2>8, Zenon
  <2>10. Format!fmoney(number) =
           Format!sign(number) \o Format!grouped[w] \o <<".">> \o Format!toFixed(number).part
    BY <1>2, <2>9, Zenon
  <2>11. QED
    BY <2>10 DEF Format!MoneyGrouped, w
<1>7. number >= 0 \/ number < 0
  OBVIOUS
<1>8. QED
  BY <1>4, <1>5, <1>6, <1>7, Zenon

(* Numbers above the middle go up, in any unit. *)
Units == {1, 10, 100, 1000, 10000}

LEMMA WholeIs ==
  ASSUME NEW h \in Int, NEW u \in Units
  PROVE  /\ \A type \in {"floor", "ceil", "round"} :
              Format!Whole(type, h, u) \in Int /\ Format!Whole(type, h, u) % u = 0
         /\ Format!Whole("floor", h, u) <= h /\ h <= Format!Whole("ceil", h, u)
         /\ Format!Whole("ceil", h, u) - Format!Whole("floor", h, u) <= u
         /\ 2 * (Format!Whole("round", h, u) - h) <= u
         /\ 2 * (h - Format!Whole("round", h, u)) <= u
<1> DEFINE f == (h \div u) * u
           c == -((-h) \div u) * u
           r == ((h + (u \div 2)) \div u) * u
           Right == /\ f \in Int /\ f % u = 0 /\ c \in Int /\ c % u = 0 /\ r \in Int /\ r % u = 0
                    /\ f <= h /\ h <= c /\ c - f <= u
                    /\ 2 * (r - h) <= u /\ 2 * (h - r) <= u
<1>1. Format!Whole("floor", h, u) = f /\ Format!Whole("ceil", h, u) = c
      /\ Format!Whole("round", h, u) = r
  BY DEF Format!Whole
<1>2. Right
  <2>1. CASE u = 1
    BY <2>1
  <2>2. CASE u = 10
    BY <2>2
  <2>3. CASE u = 100
    BY <2>3
  <2>4. CASE u = 1000
    BY <2>4
  <2>5. CASE u = 10000
    BY <2>5
  <2> HIDE DEF Right
  <2>6. QED
    BY <2>1, <2>2, <2>3, <2>4, <2>5 DEF Units
<1> HIDE DEF f, c, r
<1>3. QED
  BY <1>1, <1>2

LEMMA AdjustedIs ==
  ASSUME number \in Int
  PROVE  Format!Adjusted
<1> SUFFICES ASSUME NEW exp \in -2 .. 2
             PROVE  LET at(type) == Format!decimalAdjust(type, number, exp)
                        mirrored == exp # 0 /\ number < 0
                        below == IF mirrored THEN at("ceil") ELSE at("floor")
                        above == IF mirrored THEN at("floor") ELSE at("ceil")
                    IN  /\ \A type \in {"floor", "ceil", "round"} :
                             at(type) % Format!Unit(exp) = 0
                        /\ below <= number /\ number <= above
                        /\ above - below <= Format!Unit(exp)
                        /\ 2 * Format!Size(at("round") - number) <= Format!Unit(exp)
  BY DEF Format!Adjusted
<1> DEFINE u == Format!Unit(exp)
           at(type) == Format!decimalAdjust(type, number, exp)
           whole(type, h) == Format!Whole(type, h, u)
           mirrored == exp # 0 /\ number < 0
<1>1. u \in Units
  BY DEF Format!Unit, Units
<1> HIDE DEF u
<1>2. ASSUME NEW h \in Int
      PROVE  /\ \A type \in {"floor", "ceil", "round"} :
                  whole(type, h) \in Int /\ whole(type, h) % u = 0
             /\ whole("floor", h) <= h /\ h <= whole("ceil", h)
             /\ whole("ceil", h) - whole("floor", h) <= u
             /\ 2 * (whole("round", h) - h) <= u /\ 2 * (h - whole("round", h)) <= u
  <2>1. /\ \A type \in {"floor", "ceil", "round"} :
              whole(type, h) \in Int /\ whole(type, h) % u = 0
        /\ whole("floor", h) <= h /\ h <= whole("ceil", h)
        /\ whole("ceil", h) - whole("floor", h) <= u
        /\ 2 * (whole("round", h) - h) <= u
        /\ 2 * (h - whole("round", h)) <= u
    BY <1>1, WholeIs, Zenon
  <2>2. QED
    BY <2>1, Zenon
<1>3. \A type : at(type) = IF mirrored THEN -whole(type, -number) ELSE whole(type, number)
  BY DEF Format!decimalAdjust, u
<1>4. \A k \in Int : (-k) % u = 0 <=> k % u = 0
  BY <1>1 DEF Units
<1> DEFINE below == IF mirrored THEN at("ceil") ELSE at("floor")
           above == IF mirrored THEN at("floor") ELSE at("ceil")
           Right == /\ \A type \in {"floor", "ceil", "round"} :
                         at(type) \in Int /\ at(type) % u = 0
                    /\ below <= number /\ number <= above /\ above - below <= u
                    /\ 2 * (at("round") - number) <= u /\ 2 * (number - at("round")) <= u
<1> HIDE DEF at, whole, mirrored
<1>5. ASSUME mirrored PROVE Right
  <2> DEFINE floor == whole("floor", -number)
             ceil == whole("ceil", -number)
             round == whole("round", -number)
  <2>1. /\ at("floor") = -floor /\ at("ceil") = -ceil /\ at("round") = -round
        /\ below = -ceil /\ above = -floor
    BY <1>3, <1>5
  <2>2. -number \in Int
    OBVIOUS
  <2>3. /\ floor \in Int /\ ceil \in Int /\ round \in Int
        /\ floor % u = 0 /\ ceil % u = 0 /\ round % u = 0
        /\ floor <= -number /\ -number <= ceil /\ ceil - floor <= u
        /\ 2 * (round - (-number)) <= u /\ 2 * ((-number) - round) <= u
    BY <1>2, <2>2
  <2> HIDE DEF floor, ceil, round, below, above
  <2>4. /\ at("floor") % u = 0 /\ at("ceil") % u = 0 /\ at("round") % u = 0
        /\ at("floor") \in Int /\ at("ceil") \in Int /\ at("round") \in Int
    BY <1>4, <2>1, <2>3
  <2>5. /\ below <= number /\ number <= above /\ above - below <= u
        /\ 2 * (at("round") - number) <= u /\ 2 * (number - at("round")) <= u
    BY <1>1, <2>1, <2>3 DEF Units
  <2>6. QED
    BY <2>4, <2>5
<1>6. ASSUME ~mirrored PROVE Right
  <2> DEFINE floor == whole("floor", number)
             ceil == whole("ceil", number)
             round == whole("round", number)
  <2>1. /\ at("floor") = floor /\ at("ceil") = ceil /\ at("round") = round
        /\ below = floor /\ above = ceil
    BY <1>3, <1>6
  <2>2. /\ floor \in Int /\ ceil \in Int /\ round \in Int
        /\ floor % u = 0 /\ ceil % u = 0 /\ round % u = 0
        /\ floor <= number /\ number <= ceil /\ ceil - floor <= u
        /\ 2 * (round - number) <= u /\ 2 * (number - round) <= u
    BY <1>2
  <2> HIDE DEF floor, ceil, round, below, above
  <2>3. QED
    BY <2>1, <2>2
<1>7. Right
  BY <1>5, <1>6
<1>8. 2 * Format!Size(at("round") - number) <= u
  <2>1. at("round") \in Int /\ 2 * (at("round") - number) <= u /\ 2 * (number - at("round")) <= u
    BY <1>7
  <2>2. QED
    BY <1>1, <2>1 DEF Format!Size, Units
<1> HIDE DEF Right
<1>9. QED
  BY <1>7, <1>8 DEF Right, at, mirrored, u

LEMMA FormatInvariance == PartsSpec => [](part = "format" => number \in Numbers)
<1>1. PartsInit => (part = "format" => number \in Numbers)
  BY DEF PartsInit, Format!Init
<1>2. (part = "format" => number \in Numbers) /\ [PartsNext]_partsV
        => (part = "format" => number \in Numbers)'
  BY DEF PartsNext, TablePage, TableScreen, TunnelApp, TunnelUser, TunnelSystem, Database,
         PagePage, PageScreen, TableRuns, TunnelRuns, DBRuns, PageRuns, partsV
<1>3. QED
  BY <1>1, <1>2, PTL DEF PartsSpec

(* An amount is written with its digits before the point in groups of      *)
(* three, and what round10, floor10 and ceil10 return is a multiple of     *)
(* their unit next to the number, with the two exceptions for negative     *)
(* numbers that the property names: for every number with two decimals.    *)
THEOREM NumbersWritten == PartsSpec => []NumbersFormatted
<1>1. (part = "format" => number \in Numbers) => NumbersFormatted
  <2>1. number \in Int => Format!MoneyGrouped /\ Format!Adjusted
    BY MoneyIs, AdjustedIs
  <2>2. QED
    BY <2>1, NumbersAssumption DEF NumbersFormatted, Format!NumbersFormatted
<1>2. QED
  BY <1>1, FormatInvariance, PTL
=============================================================================
