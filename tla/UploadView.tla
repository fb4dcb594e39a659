----------------------------- MODULE UploadView -----------------------------
(***************************************************************************)
(* HeroImageUploadView and its HeroUploadItems: the rows of picked images, *)
(* one upload for each, and the summary sent to the page.  The uploads     *)
(* themselves are the tickets of UploadTicket, which UploadQueue is shown  *)
(* to implement; every action but those of the tickets is one call on the  *)
(* main thread.                                                            *)
(*                                                                         *)
(* The view keeps two arrays.  imageArray grows when images are picked,    *)
(* uploadArray when the photo library answers, so their lengths differ     *)
(* meanwhile; of imageArray only the length matters.                       *)
(***************************************************************************)
EXTENDS UploadTicket, Naturals, SequencesExt

CONSTANTS
  Item,    \* the HeroUploadItem objects
  NoOp,    \* item.uploader == nil
  NoItem,  \* an uploader that no item owns yet
  MaxTaps  \* bound on the taps on one failed row while its asset loads

ASSUME TapsAssumption == MaxTaps \in Nat
ASSUME ItemAssumption == IsFiniteSet(Item) /\ NoItem \notin Item /\ NoOp \notin Op

VARIABLES
  imageCount,  \* imageArray.count
  uploads,     \* uploadArray
  uploader,    \* item.uploader
  owner,       \* the item that is (or was) the uploader's delegate
  filled,      \* has item got its docId, imgUrl, ...?
  loading,     \* picked images the photo library has not answered for
  taps,        \* re-uploads waiting for the photo library, for each row
  asked,       \* the item whose row the page was asked to delete
  timers,      \* pending dispatch_after blocks of a pick
  report,      \* the last summary sent to the page
  lost,        \* history: images the library could not supply
  extra        \* history: answers due, or lost, when the page replaced all rows

viewVars == <<imageCount, uploads, uploader, owner, filled, loading, taps, asked,
              timers, report, lost, extra>>
vars == <<tVars, viewVars>>

Rows == ToSet(uploads)
Fresh == {i \in Item : i \notin loading \cup lost /\ uploader[i] = NoOp /\ ~filled[i]}
Unused == {o \in Op : owner[o] = NoItem}

(* updateTotal: a row counts as a success without an uploader, or with one *)
(* that is Uploaded.                                                       *)
Status(i) == IF uploader[i] = NoOp THEN "Uploaded" ELSE state[uploader[i]]
Succeeded(i) == Status(i) = "Uploaded"
Failed(i) == Status(i) = "Failed"

(* Mutant: completed is computed from the wrong array. *)
Summary_uploadCount ==
  LET ok  == {i \in Rows : Succeeded(i)}
      bad == {i \in Rows : Failed(i)}
  IN  [success   |-> ok,
       empty     |-> {i \in ok : ~filled[i]},
       failure   |-> bad,
       completed |-> Cardinality(ok) + Cardinality(bad) = Len(uploads)]

Summary ==
  LET ok  == {i \in Rows : Succeeded(i)}
      bad == {i \in Rows : Failed(i)}
  IN  [success   |-> ok,
       empty     |-> {i \in ok : ~filled[i]},
       failure   |-> bad,
       completed |-> Cardinality(ok) + Cardinality(bad) = imageCount]

updateTotal == report' = Summary'

Init ==
  /\ TInit
  /\ imageCount = 0 /\ uploads = << >>
  /\ uploader = [i \in Item |-> NoOp]
  /\ owner = [o \in Op |-> NoItem]
  /\ filled = [i \in Item |-> FALSE]
  /\ loading = {}
  /\ taps = [i \in Item |-> 0]
  /\ asked = NoItem
  /\ timers = 0
  /\ report = [success |-> {}, empty |-> {}, failure |-> {}, completed |-> FALSE]
  /\ lost = {} /\ extra = 0
-----------------------------------------------------------------------------
(* heroImagePickViewController:imagesAssets: *)
Pick(S) ==
  /\ S # {} /\ S \subseteq Fresh
  /\ imageCount' = imageCount + Cardinality(S)
  /\ loading' = loading \cup S
  /\ timers' = timers + 1
  /\ UNCHANGED <<tVars, uploads, uploader, owner, filled, taps, asked, report, lost, extra>>

(* 0.15 seconds later. *)
PickTimer ==
  /\ timers > 0
  /\ timers' = timers - 1
  /\ UNCHANGED <<tVars, imageCount, uploads, uploader, owner, filled, loading, taps,
                 asked, lost, extra>>
  /\ updateTotal

Attach(i, o) ==
  /\ uploader' = [uploader EXCEPT ![i] = o]
  /\ owner' = [owner EXCEPT ![o] = i]

(* setALAssetImage: with no asset returns at once, and the row stays. *)
AssetMissing(i) ==
  /\ i \in loading
  /\ loading' = loading \ {i}
  /\ lost' = lost \cup {i}
  /\ UNCHANGED <<tVars, imageCount, uploads, uploader, owner, filled, taps, asked,
                 timers, report, extra>>

(* setALAssetImage:.  Answers come in any order, the rows in that of the   *)
(* answers.                                                                *)
AssetLoaded(i, o) ==
  /\ i \in loading /\ o \in Unused
  /\ loading' = loading \ {i}
  /\ Attach(i, o)
  /\ uploads' = Append(uploads, i)
  /\ UNCHANGED <<tVars, imageCount, filled, taps, asked, timers, report, lost, extra>>

(* onImageTapped of a failed row, then didReUploadCell:. *)
TapFailed(i) ==
  /\ i \in Rows /\ Failed(i)
  /\ taps[i] < MaxTaps
  /\ taps' = [taps EXCEPT ![i] = @ + 1]
  /\ UNCHANGED <<tVars, imageCount, uploads, uploader, owner, filled, loading, asked,
                 timers, lost, extra>>
  /\ updateTotal

(* setReUploadAssetImage:cell: asks the cell for its row when the asset    *)
(* arrives.  A cell that was reused meanwhile has another row, and one     *)
(* that is gone has row 0: any item may get the new uploader.              *)
ReUpload(i, r, o) ==
  /\ taps[i] > 0
  /\ taps' = [taps EXCEPT ![i] = @ - 1]
  /\ r \in DOMAIN uploads /\ o \in Unused
  /\ Attach(uploads[r], o)
  /\ UNCHANGED <<tVars, imageCount, uploads, filled, loading, asked, timers, report,
                 lost, extra>>

ReUploadMissing(i) ==
  /\ taps[i] > 0
  /\ taps' = [taps EXCEPT ![i] = @ - 1]
  /\ UNCHANGED <<tVars, imageCount, uploads, uploader, owner, filled, loading, asked,
                 timers, report, lost, extra>>
-----------------------------------------------------------------------------
(* Mutant: only the uploads are removed. *)
removeUploadCell_keepsImage(r) ==
  /\ r <= imageCount
  /\ uploads' = RemoveAt(uploads, r)
  /\ imageCount' = imageCount
  /\ IF uploader[uploads[r]] = NoOp THEN UNCHANGED tVars
     ELSE SetCanceled(uploader[uploads[r]])

(* removeUploadCelltAtIndex: *)
removeUploadCell(r) ==
  /\ r <= imageCount
  /\ uploads' = RemoveAt(uploads, r)
  /\ imageCount' = imageCount - 1
  /\ IF uploader[uploads[r]] = NoOp THEN UNCHANGED tVars
     ELSE SetCanceled(uploader[uploads[r]])

(* didDeleteItemUploadCell:, once the user has confirmed: an upload that   *)
(* is not over is removed at once, ...                                     *)
DeleteUnfinished(r) ==
  /\ r \in DOMAIN uploads
  /\ ~Succeeded(uploads[r])
  /\ removeUploadCell(r)
  /\ UNCHANGED <<uploader, owner, filled, loading, taps, asked, timers, lost, extra>>
  /\ updateTotal

(* ... for another the page is asked; without a docId to send, this raises *)
(* an exception and there is no next state.                                *)
DeleteUploaded(r) ==
  /\ r \in DOMAIN uploads
  /\ Succeeded(uploads[r]) /\ filled[uploads[r]]
  /\ asked' = uploads[r]
  /\ UNCHANGED <<tVars, imageCount, uploads, uploader, owner, filled, loading, taps,
                 timers, report, lost, extra>>

(* on:{deleteItem}, the page's answer.  The row is that of the cell by     *)
(* now, as in ReUpload.                                                    *)
DeleteItem(r) ==
  /\ asked # NoItem
  /\ asked' = NoItem
  /\ r \in DOMAIN uploads
  /\ removeUploadCell(r)
  /\ UNCHANGED <<uploader, owner, filled, loading, taps, timers, lost, extra>>
  /\ updateTotal

(* on:{images}: the page replaces every row.  Uploads in flight go on.     *)
SetImages(items) ==
  /\ imageCount' = Len(items)
  /\ uploads' = items
  /\ filled' = [i \in Item |-> i \in ToSet(items) \/ filled[i]]
  /\ extra' = Cardinality(loading) + Cardinality(lost)
  /\ UNCHANGED <<tVars, uploader, owner, loading, taps, asked, timers, report, lost>>
-----------------------------------------------------------------------------
(* The queue and the network, and another view's cancelAllUploads. *)
Upload(o) ==
  /\ owner[o] # NoItem
  /\ WorkerStep(o) \/ SetCanceled(o)
  /\ UNCHANGED viewVars

(* Mutant: the page is told before the item has its data. *)
Announced_early ==
  /\ Deliver
  /\ LET o == Head(mainQ).op
         i == owner[o]
     IN  IF Head(mainQ).kind = "success" /\ i \in Rows
         THEN filled' = [filled EXCEPT ![i] = TRUE] /\ report' = Summary
         ELSE UNCHANGED <<filled, report>>
  /\ UNCHANGED <<imageCount, uploads, uploader, owner, loading, taps, asked, timers,
                 lost, extra>>

(* Mutant: the data of the reply is not copied to the item. *)
Announced_noData ==
  /\ Deliver
  /\ UNCHANGED <<imageCount, uploads, uploader, owner, filled, loading, taps, asked,
                 timers, lost, extra>>
  /\ IF Head(mainQ).kind = "success" /\ owner[Head(mainQ).op] \in Rows
     THEN updateTotal
     ELSE UNCHANGED report

(* HeroUploadItem's didFinishWithSuccessData: fills the item, then the     *)
(* view reports; its didStopWithError: only shows a toast.  An item that   *)
(* no row refers to is gone, and with it the uploader's weak delegate.     *)
Announced ==
  /\ Deliver
  /\ UNCHANGED <<imageCount, uploads, uploader, owner, loading, taps, asked, timers,
                 lost, extra>>
  /\ LET o == Head(mainQ).op
         i == owner[o]
     IN  IF Head(mainQ).kind = "success" /\ i \in Rows
         THEN filled' = [filled EXCEPT ![i] = TRUE] /\ updateTotal
         ELSE UNCHANGED <<filled, report>>
-----------------------------------------------------------------------------
Next ==
  \/ \E S \in SUBSET Fresh : Pick(S) \/ \E items \in SetToSeqs(S) : SetImages(items)
  \/ PickTimer
  \/ \E i \in Item : \/ AssetMissing(i) \/ TapFailed(i) \/ ReUploadMissing(i)
                     \/ \E o \in Op : AssetLoaded(i, o)
                     \/ \E o \in Op, r \in DOMAIN uploads : ReUpload(i, r, o)
  \/ \E r \in DOMAIN uploads : DeleteUnfinished(r) \/ DeleteUploaded(r) \/ DeleteItem(r)
  \/ \E o \in Op : Upload(o)
  \/ Announced

Spec == Init /\ [][Next]_vars
-----------------------------------------------------------------------------
TypeOK ==
  /\ imageCount \in Nat /\ timers \in Nat /\ extra \in Nat
  /\ uploads \in Seq(Item) /\ IsInjective(uploads)
  /\ uploader \in [Item -> Op \cup {NoOp}]
  /\ owner \in [Op -> Item \cup {NoItem}]
  /\ filled \in [Item -> BOOLEAN]
  /\ loading \subseteq Item /\ lost \subseteq Item
  /\ taps \in [Item -> 0 .. MaxTaps]
  /\ asked \in Item \cup {NoItem}
  /\ report \in [success : SUBSET Item, empty : SUBSET Item, failure : SUBSET Item,
                 completed : BOOLEAN]

(* The two arrays differ only by the images whose asset is still loading   *)
(* or was lost, and by late answers to picks made before the page replaced *)
(* all rows: cellForItemAtIndexPath: indexes the second with the first.    *)
RowsBacked == imageCount + extra = Len(uploads) + Cardinality(loading) + Cardinality(lost)

(* A summary says completed only when no image is loading and every row    *)
(* has its outcome, unless the page replaced the rows under an answer.     *)
Settled(i) == Succeeded(i) \/ Failed(i)
CompletedIsTrue ==
  [][report' # report /\ report'.completed /\ extra' = 0
       => loading' = {} /\ \A i \in Rows' : Settled(i)']_vars

(* A row can count as a success before its item has a docId to report: the *)
(* announcement that fills it, and reports again, is then still to come.   *)
Coming(o) == phase[o] = "owing" \/ [op |-> o, kind |-> "success"] \in ToSet(mainQ)
EmptySuccessIsTransient ==
  \A i \in Rows : uploader[i] # NoOp /\ Succeeded(i) /\ ~filled[i] => Coming(uploader[i])

(* An upload that was announced is in the summary the page holds, with its *)
(* data, as long as its row is there and nobody cancelled it.              *)
SuccessIsReported ==
  \A i \in Rows :
    uploader[i] # NoOp /\ Succeeded(i) /\ told[uploader[i]] = "success"
      => i \in report.success /\ i \notin report.empty
=============================================================================
