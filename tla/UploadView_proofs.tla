-------------------------- MODULE UploadView_proofs --------------------------
(***************************************************************************)
(* What TLAPS proves of UploadView, for any number of images, uploaders    *)
(* and taps: the two arrays agree, an empty success is about to be filled, *)
(* an announced one is in the summary, and a completed summary is true.    *)
(***************************************************************************)
EXTENDS UploadView, SequenceTheorems, FiniteSetTheorems, TLAPS

(* The types of the tickets. *)
Message == [op : Op, kind : {"stop", "success"}]
TicketType ==
  /\ state \in [Op -> {"Ready", "Uploading", "Uploaded", "Failed", "Canceled"}]
  /\ phase \in [Op -> {"idle", "running", "failing", "owing", "done"}]
  /\ mainQ \in Seq(Message)
  /\ told \in [Op -> {"none", "stop", "success"}]

(* An upload that may still be announced was not, and none is announced    *)
(* twice.                                                                  *)
Quiet(o) == told[o] = "none" /\ \A j \in 1 .. Len(mainQ) : mainQ[j].op # o
OnceInv ==
  /\ \A o \in Op : phase[o] \in {"idle", "running", "owing"} => Quiet(o)
  /\ \A j \in 1 .. Len(mainQ) : told[mainQ[j].op] = "none"
  /\ \A j, k \in 1 .. Len(mainQ) : mainQ[j].op = mainQ[k].op => j = k

(* A success that is seen in the state is owed, in the queue or told. *)
UploadedInv ==
  \A o \in Op : state[o] = "Uploaded" => Coming(o) \/ told[o] = "success"

(* An uploader belongs to the item that got it, and does nothing before.   *)
OwnerInv ==
  /\ \A i \in Item : uploader[i] # NoOp => owner[uploader[i]] = i
  /\ \A o \in Op : owner[o] = NoItem => state[o] = "Ready" /\ phase[o] = "idle"

(* An image is loading, lost or a row, and has no uploader before it is a  *)
(* row.                                                                    *)
PlaceInv ==
  /\ loading \cap lost = {}
  /\ (loading \cup lost) \cap Rows = {}
  /\ \A i \in loading \cup lost : uploader[i] = NoOp

(* A row without an uploader, which the page set, and one whose uploader's *)
(* success was told have their data.                                       *)
FilledInv ==
  \A i \in Rows : uploader[i] = NoOp \/ told[uploader[i]] = "success" => filled[i]

VInv ==
  /\ TypeOK /\ TicketType
  /\ OnceInv /\ UploadedInv /\ OwnerInv /\ PlaceInv /\ FilledInv
  /\ RowsBacked /\ SuccessIsReported
-----------------------------------------------------------------------------
(* An array after an addition at its end, the removal of its head and that *)
(* of another element.                                                     *)
LEMMA Appended ==
  ASSUME NEW S, NEW s \in Seq(S), NEW x \in S
  PROVE  /\ Append(s, x) \in Seq(S) /\ Len(Append(s, x)) = Len(s) + 1 /\ Len(s) \in Nat
         /\ Append(s, x)[Len(s) + 1] = x
         /\ \A j \in 1 .. Len(s) : Append(s, x)[j] = s[j]
         /\ ToSet(Append(s, x)) = ToSet(s) \cup {x}
<1> DEFINE t == Append(s, x)
<1>1. /\ t \in Seq(S) /\ Len(s) \in Nat /\ Len(t) = Len(s) + 1
      /\ DOMAIN s = 1 .. Len(s) /\ DOMAIN t = 1 .. Len(s) + 1
      /\ t[Len(s) + 1] = x /\ \A i \in 1 .. Len(s) : t[i] = s[i]
  OBVIOUS
<1> HIDE DEF t
<1>2. DOMAIN t = DOMAIN s \cup {Len(s) + 1}
  BY <1>1
<1>3. ToSet(t) = ToSet(s) \cup {x}
  BY <1>1, <1>2 DEF ToSet
<1>4. QED
  BY <1>1, <1>3 DEF t

LEMMA Beheaded ==
  ASSUME NEW S, NEW s \in Seq(S), s # << >>
  PROVE  /\ Tail(s) \in Seq(S) /\ Head(s) \in S /\ Head(s) = s[1] /\ Len(s) \in Nat
         /\ 1 \in 1 .. Len(s) /\ Len(Tail(s)) = Len(s) - 1
         /\ \A j \in 1 .. Len(s) - 1 : Tail(s)[j] = s[j + 1] /\ j + 1 \in 1 .. Len(s)
         /\ ToSet(s) \subseteq ToSet(Tail(s)) \cup {Head(s)}
<1> DEFINE t == Tail(s)
<1>1. /\ t \in Seq(S) /\ Head(s) \in S /\ Head(s) = s[1] /\ Len(s) \in Nat /\ Len(s) > 0
      /\ Len(t) = Len(s) - 1 /\ DOMAIN s = 1 .. Len(s) /\ DOMAIN t = 1 .. Len(s) - 1
      /\ \A j \in 1 .. Len(s) - 1 : t[j] = s[j + 1]
  OBVIOUS
<1> HIDE DEF t
<1>2. ASSUME NEW j \in 1 .. Len(s)
      PROVE  s[j] \in ToSet(t) \cup {Head(s)}
  <2>1. CASE j = 1
    BY <1>1, <2>1
  <2>2. CASE j # 1
    <3>1. j - 1 \in 1 .. Len(s) - 1 /\ (j - 1) + 1 = j
      BY <1>1, <2>2
    <3>2. t[j - 1] = s[j]
      BY <1>1, <3>1
    <3>3. QED
      BY <1>1, <3>1, <3>2 DEF ToSet
  <2>3. QED
    BY <2>1, <2>2
<1>3. ToSet(s) \subseteq ToSet(t) \cup {Head(s)}
  BY <1>1, <1>2 DEF ToSet
<1>4. QED
  BY <1>1, <1>3 DEF t

LEMMA Removed ==
  ASSUME NEW S, NEW s \in Seq(S), NEW r \in 1 .. Len(s), IsInjective(s)
  PROVE  /\ RemoveAt(s, r) \in Seq(S) /\ Len(RemoveAt(s, r)) = Len(s) - 1
         /\ IsInjective(RemoveAt(s, r)) /\ ToSet(RemoveAt(s, r)) \subseteq ToSet(s)
<1> DEFINE front == SubSeq(s, 1, r - 1)
           rear == SubSeq(s, r + 1, Len(s))
           t == front \o rear
           at(k) == IF k < r THEN k ELSE k + 1
<1>1. Len(s) \in Nat /\ r \in Nat /\ 1 <= r /\ r <= Len(s) /\ DOMAIN s = 1 .. Len(s)
  OBVIOUS
<1>2. /\ front \in Seq(S) /\ Len(front) = r - 1
      /\ \A k \in 1 .. r - 1 : front[k] = s[k]
  <2>1. 1 \in Int /\ r - 1 \in Int /\ \A k \in 1 .. r - 1 : s[k] \in S
    BY <1>1
  <2>2. QED
    BY <1>1, <2>1, SubSeqProperties
<1>3. /\ rear \in Seq(S) /\ Len(rear) = Len(s) - r
      /\ \A k \in 1 .. Len(s) - r : rear[k] = s[r + k]
  <2>1. r + 1 \in Int /\ Len(s) \in Int /\ \A k \in r + 1 .. Len(s) : s[k] \in S
    BY <1>1
  <2>2. /\ rear \in Seq(S) /\ Len(rear) = IF r + 1 <= Len(s) THEN Len(s) - (r + 1) + 1 ELSE 0
        /\ \A k \in 1 .. Len(s) - (r + 1) + 1 : rear[k] = s[(r + 1) + k - 1]
    BY <2>1, SubSeqProperties
  <2> HIDE DEF rear
  <2>3. Len(s) - (r + 1) + 1 = Len(s) - r /\ \A k \in 1 .. Len(s) - r : (r + 1) + k - 1 = r + k
    BY <1>1
  <2>4. Len(rear) = Len(s) - r
    <3>1. CASE r + 1 <= Len(s)
      BY <2>2, <2>3, <3>1
    <3>2. CASE ~(r + 1 <= Len(s))
      <4>1. \A m, n \in Nat : m <= n /\ ~(m + 1 <= n) => m = n /\ n - m = 0
        OBVIOUS
      <4>2. QED
        BY <1>1, <2>2, <3>2, <4>1
    <3>3. QED
      BY <3>1, <3>2
  <2>5. QED
    BY <2>2, <2>3, <2>4
<1> HIDE DEF front, rear
<1>4. /\ t \in Seq(S) /\ Len(t) = Len(s) - 1 /\ DOMAIN t = 1 .. Len(s) - 1
      /\ \A k \in 1 .. Len(s) - 1 : t[k] = s[at(k)] /\ at(k) \in 1 .. Len(s)
  <2>1. /\ t \in Seq(S) /\ Len(t) = Len(s) - 1
        /\ \A k \in 1 .. Len(s) - 1 :
             t[k] = IF k <= r - 1 THEN front[k] ELSE rear[k - (r - 1)]
    <3>1. /\ t \in Seq(S) /\ Len(t) = Len(front) + Len(rear)
          /\ \A k \in 1 .. Len(front) + Len(rear) :
               t[k] = IF k <= Len(front) THEN front[k] ELSE rear[k - Len(front)]
      BY <1>2, <1>3, ConcatProperties
    <3>2. Len(front) + Len(rear) = Len(s) - 1
      BY <1>1, <1>2, <1>3
    <3> HIDE DEF t
    <3>3. QED
      BY <1>2, <3>1, <3>2
  <2>2. DOMAIN t = 1 .. Len(s) - 1
    BY <2>1
  <2> HIDE DEF t
  <2>3. ASSUME NEW k \in 1 .. Len(s) - 1
        PROVE  t[k] = s[at(k)] /\ at(k) \in 1 .. Len(s)
    <3>1. CASE k < r
      BY <1>1, <1>2, <2>1, <3>1
    <3>2. CASE ~(k < r)
      <4>1. k - (r - 1) \in 1 .. Len(s) - r /\ r + (k - (r - 1)) = k + 1
        BY <1>1, <3>2
      <4>2. t[k] = rear[k - (r - 1)]
        BY <1>1, <2>1, <3>2
      <4>3. QED
        BY <1>1, <1>3, <3>2, <4>1, <4>2
    <3>3. QED
      BY <3>1, <3>2
  <2>4. QED
    BY <2>1, <2>2, <2>3
<1> HIDE DEF t
<1>5. IsInjective(t)
  <2> SUFFICES ASSUME NEW a \in 1 .. Len(s) - 1, NEW b \in 1 .. Len(s) - 1, t[a] = t[b]
               PROVE  a = b
    BY <1>4 DEF IsInjective
  <2>1. /\ s[at(a)] = s[at(b)] /\ at(a) \in DOMAIN s /\ at(b) \in DOMAIN s
        /\ at(a) = (IF a < r THEN a ELSE a + 1) /\ at(b) = (IF b < r THEN b ELSE b + 1)
    BY <1>1, <1>4
  <2> HIDE DEF at
  <2>2. at(a) = at(b)
    BY <2>1 DEF IsInjective
  <2>3. QED
    BY <1>1, <2>1, <2>2
<1>6. ToSet(t) \subseteq ToSet(s)
  BY <1>1, <1>4 DEF ToSet
<1>7. RemoveAt(s, r) = t
  BY DEF RemoveAt, t, front, rear
<1>8. QED
  BY <1>4, <1>5, <1>6, <1>7

(* Rows that the page sets: the members of a set, each once. *)
LEMMA SetAsRows ==
  ASSUME NEW S, IsFiniteSet(S), NEW s \in SetToSeqs(S)
  PROVE  s \in Seq(S) /\ IsInjective(s) /\ Len(s) \in Nat /\ ToSet(s) \subseteq S
<1>1. Cardinality(S) \in Nat
  BY FS_CardinalityType
<1>2. /\ s \in [1 .. Cardinality(S) -> S]
      /\ \A i, j \in 1 .. Cardinality(S) : i # j => s[i] # s[j]
  BY DEF SetToSeqs
<1>3. s \in Seq(S)
  BY <1>1, <1>2
<1>4. QED
  BY <1>2, <1>3 DEF IsInjective, ToSet

(* As many rows as there are places in an array without repetitions. *)
LEMMA RowsCounted ==
  ASSUME NEW S, NEW s \in Seq(S), IsInjective(s)
  PROVE  IsFiniteSet(ToSet(s)) /\ Cardinality(ToSet(s)) = Len(s)
<1>1. Len(s) \in Nat /\ DOMAIN s = 1 .. Len(s) /\ s \in [1 .. Len(s) -> ToSet(s)]
  BY DEF ToSet
<1>2. s \in Injection(1 .. Len(s), ToSet(s)) /\ s \in Surjection(1 .. Len(s), ToSet(s))
  BY <1>1 DEF Injection, Surjection, IsInjective, ToSet
<1>3. ExistsBijection(1 .. Len(s), ToSet(s))
  BY <1>2 DEF ExistsBijection, Bijection
<1>4. IsFiniteSet(1 .. Len(s)) /\ Cardinality(1 .. Len(s)) = Len(s)
  BY <1>1, FS_Interval
<1>5. QED
  BY <1>3, <1>4, FS_Bijection
-----------------------------------------------------------------------------
(* The tickets: what a step of an upload, a cancellation and a delivery    *)
(* leave of their invariants.                                              *)
TicketInv == TicketType /\ OnceInv /\ UploadedInv

(* Steps that announce nothing. *)
LEMMA SilentStep ==
  ASSUME TicketInv, NEW o \in Op,
         Begin(o) \/ SetFailed(o) \/ SetUploaded(o) \/ Vanish(o) \/ SetCanceled(o)
  PROVE  TicketInv'
<1> USE DEF Begin, SetFailed, SetUploaded, Vanish, SetCanceled, Advance, Become
<1>1. TicketType'
  BY DEF TicketInv, TicketType
<1>2. /\ UNCHANGED <<mainQ, told>>
      /\ \A q \in Op : q # o => state'[q] = state[q] /\ phase'[q] = phase[q]
      /\ phase'[o] \in {"running", "owing"} => phase[o] \in {"idle", "running"} \/ phase'[o] = phase[o]
      /\ state'[o] = "Uploaded" => phase'[o] = "owing" \/ (state[o] = "Uploaded" /\ phase[o] # "owing")
      /\ phase'[o] = "idle" => phase[o] = "idle"
  BY DEF TicketInv, TicketType
<1>3. OnceInv'
  <2>1. \A q \in Op : phase'[q] \in {"idle", "running", "owing"}
                        => phase[q] \in {"idle", "running", "owing"}
    BY <1>2
  <2>2. \A q \in Op : Quiet(q)' <=> Quiet(q)
    BY <1>2 DEF Quiet
  <2>3. QED
    BY <1>2, <2>1, <2>2 DEF TicketInv, OnceInv
<1>4. UploadedInv'
  BY <1>2 DEF TicketInv, UploadedInv, Coming
<1>5. QED
  BY <1>1, <1>3, <1>4 DEF TicketInv

(* Steps that announce. *)
LEMMA AnnouncingStep ==
  ASSUME TicketInv, NEW o \in Op, AnnounceFailure(o) \/ AnnounceSuccess(o)
  PROVE  TicketInv'
<1>1. PICK kind \in {"stop", "success"} :
        /\ mainQ' = Append(mainQ, [op |-> o, kind |-> kind])
        /\ phase[o] \in {"idle", "running", "owing"}
        /\ phase[o] = "owing" => kind = "success"
        /\ phase' = [phase EXCEPT ![o] = IF kind = "success" THEN "done" ELSE "failing"]
        /\ UNCHANGED <<state, told>>
  BY DEF AnnounceFailure, AnnounceSuccess, Advance, Announce
<1> DEFINE m == [op |-> o, kind |-> kind]
<1>2. mainQ \in Seq(Message) /\ m \in Message
  BY DEF TicketInv, TicketType, Message
<1>3. /\ mainQ' \in Seq(Message) /\ Len(mainQ') = Len(mainQ) + 1 /\ Len(mainQ) \in Nat
      /\ mainQ'[Len(mainQ) + 1] = m /\ \A j \in 1 .. Len(mainQ) : mainQ'[j] = mainQ[j]
      /\ ToSet(mainQ') = ToSet(mainQ) \cup {m}
  BY <1>1, <1>2, Appended
<1>4. Quiet(o)
  BY <1>1 DEF TicketInv, OnceInv
<1>5. \A j \in 1 .. Len(mainQ') : j \in 1 .. Len(mainQ) \/ j = Len(mainQ) + 1
  BY <1>3
<1>6. TicketType'
  BY <1>1, <1>3 DEF TicketInv, TicketType
<1>7. OnceInv'
  <2>1. ASSUME NEW q \in Op, phase'[q] \in {"idle", "running", "owing"}
        PROVE  Quiet(q)'
    <3>1. q # o /\ phase[q] = phase'[q]
      BY <1>1, <2>1 DEF TicketInv, TicketType
    <3>2. Quiet(q)
      BY <2>1, <3>1 DEF TicketInv, OnceInv
    <3>3. QED
      BY <1>1, <1>3, <1>5, <3>1, <3>2 DEF Quiet
  <2>2. \A j \in 1 .. Len(mainQ') : told'[mainQ'[j].op] = "none"
    BY <1>1, <1>3, <1>4, <1>5 DEF TicketInv, OnceInv, Quiet
  <2>3. \A j, k \in 1 .. Len(mainQ') : mainQ'[j].op = mainQ'[k].op => j = k
    <3>1. \A j \in 1 .. Len(mainQ) : mainQ'[j].op # o
      BY <1>3, <1>4 DEF Quiet
    <3>2. mainQ'[Len(mainQ) + 1].op = o
      BY <1>3
    <3>3. QED
      BY <1>3, <1>5, <3>1, <3>2 DEF TicketInv, OnceInv
  <2>4. QED
    BY <2>1, <2>2, <2>3 DEF OnceInv
<1>8. UploadedInv'
  <2> SUFFICES ASSUME NEW q \in Op, state'[q] = "Uploaded"
               PROVE  Coming(q)' \/ told'[q] = "success"
    BY DEF UploadedInv
  <2>1. Coming(q) \/ told[q] = "success"
    BY <1>1 DEF TicketInv, UploadedInv
  <2>2. CASE q # o
    BY <1>1, <1>3, <2>1, <2>2 DEF Coming, TicketInv, TicketType
  <2>3. CASE q = o
    BY <1>1, <1>3, <2>1, <2>3 DEF Coming
  <2>4. QED
    BY <2>2, <2>3
<1>9. QED
  BY <1>6, <1>7, <1>8 DEF TicketInv

(* A delivery, of the one message there is of an upload. *)
LEMMA DeliveryStep ==
  ASSUME TicketInv, Deliver
  PROVE  TicketInv' /\ Head(mainQ).op \in Op /\ told[Head(mainQ).op] = "none"
<1> DEFINE m == Head(mainQ)
<1>1. /\ mainQ # << >> /\ mainQ \in Seq(Message)
      /\ told' = [told EXCEPT ![m.op] = m.kind] /\ mainQ' = Tail(mainQ)
      /\ UNCHANGED <<state, phase>>
  BY DEF Deliver, TicketInv, TicketType
<1>2. /\ mainQ' \in Seq(Message) /\ m \in Message /\ m = mainQ[1]
      /\ 1 \in 1 .. Len(mainQ) /\ Len(mainQ) \in Nat /\ Len(mainQ') = Len(mainQ) - 1
      /\ \A j \in 1 .. Len(mainQ) - 1 : mainQ'[j] = mainQ[j + 1] /\ j + 1 \in 1 .. Len(mainQ)
      /\ ToSet(mainQ) \subseteq ToSet(mainQ') \cup {m}
  BY <1>1, Beheaded
<1>3. told[m.op] = "none" /\ m.op \in Op /\ m.kind \in {"stop", "success"}
  BY <1>2 DEF TicketInv, OnceInv, Message
<1>4. /\ told'[m.op] = m.kind /\ \A q \in Op \ {m.op} : told'[q] = told[q]
  BY <1>1, <1>3 DEF TicketInv, TicketType
<1>5. TicketType'
  BY <1>1, <1>2, <1>3 DEF TicketInv, TicketType
<1> HIDE DEF m
<1>6. OnceInv'
  <2>1. ASSUME NEW q \in Op, phase'[q] \in {"idle", "running", "owing"}
        PROVE  Quiet(q)'
    <3>1. Quiet(q)
      BY <1>1, <2>1 DEF TicketInv, OnceInv
    <3>2. q # m.op
      BY <1>2, <3>1 DEF Quiet
    <3>3. QED
      BY <1>2, <1>4, <3>1, <3>2 DEF Quiet
  <2>2. ASSUME NEW j \in 1 .. Len(mainQ')
        PROVE  told'[mainQ'[j].op] = "none"
    <3>1. /\ mainQ'[j] = mainQ[j + 1] /\ j + 1 \in 1 .. Len(mainQ) /\ j + 1 # 1
      BY <1>2
    <3>2. mainQ[j + 1] \in Message
      BY <1>1, <3>1, ElementOfSeq
    <3>3. mainQ[j + 1].op # m.op /\ mainQ[j + 1].op \in Op
      BY <1>2, <3>1, <3>2 DEF TicketInv, OnceInv, Message
    <3>4. QED
      BY <1>4, <3>1, <3>3 DEF TicketInv, OnceInv
  <2>3. ASSUME NEW j \in 1 .. Len(mainQ'), NEW k \in 1 .. Len(mainQ'),
               mainQ'[j].op = mainQ'[k].op
        PROVE  j = k
    <3>1. /\ mainQ'[j] = mainQ[j + 1] /\ j + 1 \in 1 .. Len(mainQ)
          /\ mainQ'[k] = mainQ[k + 1] /\ k + 1 \in 1 .. Len(mainQ)
      BY <1>2
    <3>2. j + 1 = k + 1
      BY <2>3, <3>1 DEF TicketInv, OnceInv
    <3>3. QED
      BY <3>2
  <2>4. QED
    BY <2>1, <2>2, <2>3 DEF OnceInv
<1>7. UploadedInv'
  <2> SUFFICES ASSUME NEW q \in Op, state'[q] = "Uploaded"
               PROVE  Coming(q)' \/ told'[q] = "success"
    BY DEF UploadedInv
  <2>1. Coming(q) \/ told[q] = "success"
    BY <1>1 DEF TicketInv, UploadedInv
  <2>2. CASE told[q] = "success"
    BY <1>3, <1>4, <2>2
  <2>3. CASE phase[q] = "owing"
    BY <1>1, <2>3 DEF Coming
  <2>4. CASE [op |-> q, kind |-> "success"] \in ToSet(mainQ)
    <3>1. CASE m = [op |-> q, kind |-> "success"]
      BY <1>4, <3>1
    <3>2. CASE m # [op |-> q, kind |-> "success"]
      BY <1>2, <2>4, <3>2 DEF Coming
    <3>3. QED
      BY <3>1, <3>2
  <2>5. QED
    BY <2>1, <2>2, <2>3, <2>4 DEF Coming
<1>8. QED
  BY <1>3, <1>5, <1>6, <1>7 DEF TicketInv, m

LEMMA TicketsKept == TicketInv /\ UNCHANGED tVars => TicketInv'
BY DEF TicketInv, TicketType, OnceInv, UploadedInv, Quiet, Coming, tVars

LEMMA WorkerKeeps ==
  ASSUME TicketInv, NEW o \in Op, WorkerStep(o) \/ SetCanceled(o)
  PROVE  TicketInv' /\ UNCHANGED told
<1>1. TicketInv'
  BY SilentStep, AnnouncingStep DEF WorkerStep
<1>2. UNCHANGED told
  BY DEF WorkerStep, Begin, AnnounceFailure, SetFailed, SetUploaded, AnnounceSuccess,
         Vanish, SetCanceled
<1>3. QED
  BY <1>1, <1>2
-----------------------------------------------------------------------------
(* What rows are, and how many images there can be. *)
LEMMA RowsAreItems ==
  ASSUME uploads \in Seq(Item)
  PROVE  /\ Rows \subseteq Item /\ Len(uploads) \in Nat /\ DOMAIN uploads = 1 .. Len(uploads)
         /\ \A r \in DOMAIN uploads : uploads[r] \in Rows
BY DEF Rows, ToSet

LEMMA ItemsCounted ==
  ASSUME NEW S, S \subseteq Item
  PROVE  IsFiniteSet(S) /\ Cardinality(S) \in Nat
BY ItemAssumption, FS_Subset, FS_CardinalityType

(* A summary, and what it says of an announced success whose item has its  *)
(* data.                                                                   *)
Reports ==
  [success : SUBSET Item, empty : SUBSET Item, failure : SUBSET Item, completed : BOOLEAN]

LEMMA SummaryType ==
  ASSUME uploads' \in Seq(Item), updateTotal
  PROVE  report' \in Reports
<1>1. Rows' \subseteq Item
  BY DEF Rows, ToSet
<1>2. QED
  BY <1>1 DEF updateTotal, Summary, Reports

LEMMA SummaryReports ==
  ASSUME FilledInv', updateTotal
  PROVE  SuccessIsReported'
BY DEF FilledInv, updateTotal, Summary, SuccessIsReported

(* An uploader that no item had does nothing yet. *)
LEMMA UnusedQuiet ==
  ASSUME TicketInv, OwnerInv, NEW o \in Unused
  PROVE  o \in Op /\ owner[o] = NoItem /\ told[o] = "none" /\ state[o] = "Ready"
BY DEF TicketInv, OnceInv, Quiet, OwnerInv, Unused

(* An uploader that a row has is its own. *)
LEMMA OwnUploader ==
  ASSUME TypeOK, OwnerInv, NEW i \in Item, uploader[i] # NoOp
  PROVE  uploader[i] \in Op /\ owner[uploader[i]] = i /\ owner[uploader[i]] # NoItem
BY ItemAssumption DEF TypeOK, OwnerInv
-----------------------------------------------------------------------------
(* Steps that leave the rows and their uploaders as they are. *)
RowsKept ==
  UNCHANGED <<imageCount, uploads, uploader, owner, filled, loading, lost, extra>>

LEMMA QuietStep ==
  ASSUME VInv, RowsKept, UNCHANGED tVars, updateTotal \/ UNCHANGED report
  PROVE  TypeOK' => VInv'
<1>1. TicketInv' /\ UNCHANGED <<state, phase, told, mainQ>>
  BY TicketsKept DEF VInv, TicketInv, tVars
<1>2. OwnerInv' /\ PlaceInv' /\ FilledInv' /\ RowsBacked'
  BY <1>1 DEF VInv, RowsKept, OwnerInv, PlaceInv, FilledInv, RowsBacked, Rows
<1>3. SuccessIsReported'
  <2>1. CASE updateTotal
    BY <1>2, <2>1, SummaryReports
  <2>2. CASE UNCHANGED report
    BY <1>1, <2>2 DEF VInv, RowsKept, SuccessIsReported, Rows, Succeeded, Status
  <2>3. QED
    BY <2>1, <2>2
<1>4. QED
  BY <1>1, <1>2, <1>3 DEF VInv, TicketInv

LEMMA QuietTypes ==
  ASSUME VInv, RowsKept, updateTotal \/ UNCHANGED report,
         timers' \in Nat, taps' \in [Item -> 0 .. MaxTaps], asked' \in Item \cup {NoItem}
  PROVE  TypeOK'
<1>1. report' \in Reports
  <2>1. uploads' \in Seq(Item)
    BY DEF VInv, TypeOK, RowsKept
  <2>2. QED
    BY <2>1, SummaryType DEF VInv, TypeOK, Reports
<1>2. QED
  BY <1>1 DEF VInv, TypeOK, RowsKept, Reports

LEMMA PickTimerKeeps == VInv /\ PickTimer => VInv'
<1> SUFFICES ASSUME VInv, PickTimer PROVE VInv'
  OBVIOUS
<1>1. RowsKept /\ UNCHANGED tVars /\ updateTotal
  BY DEF PickTimer, RowsKept
<1>2. timers' \in Nat /\ taps' \in [Item -> 0 .. MaxTaps] /\ asked' \in Item \cup {NoItem}
  BY DEF PickTimer, VInv, TypeOK
<1>3. QED
  BY <1>1, <1>2, QuietStep, QuietTypes

LEMMA TapFailedKeeps == \A i \in Item : VInv /\ TapFailed(i) => VInv'
<1> SUFFICES ASSUME NEW i \in Item, VInv, TapFailed(i) PROVE VInv'
  OBVIOUS
<1>1. RowsKept /\ UNCHANGED tVars /\ updateTotal
  BY DEF TapFailed, RowsKept
<1>2. timers' \in Nat /\ taps' \in [Item -> 0 .. MaxTaps] /\ asked' \in Item \cup {NoItem}
  BY TapsAssumption DEF TapFailed, VInv, TypeOK
<1>3. QED
  BY <1>1, <1>2, QuietStep, QuietTypes

LEMMA ReUploadMissingKeeps == \A i \in Item : VInv /\ ReUploadMissing(i) => VInv'
<1> SUFFICES ASSUME NEW i \in Item, VInv, ReUploadMissing(i) PROVE VInv'
  OBVIOUS
<1>1. RowsKept /\ UNCHANGED tVars /\ UNCHANGED report
  BY DEF ReUploadMissing, RowsKept
<1>2. timers' \in Nat /\ taps' \in [Item -> 0 .. MaxTaps] /\ asked' \in Item \cup {NoItem}
  BY TapsAssumption DEF ReUploadMissing, VInv, TypeOK
<1>3. QED
  BY <1>1, <1>2, QuietStep, QuietTypes

LEMMA DeleteUploadedKeeps == \A r \in DOMAIN uploads : VInv /\ DeleteUploaded(r) => VInv'
<1> SUFFICES ASSUME NEW r \in DOMAIN uploads, VInv, DeleteUploaded(r) PROVE VInv'
  OBVIOUS
<1>1. RowsKept /\ UNCHANGED tVars /\ UNCHANGED report
  BY DEF DeleteUploaded, RowsKept
<1>2. timers' \in Nat /\ taps' \in [Item -> 0 .. MaxTaps] /\ asked' \in Item \cup {NoItem}
  BY RowsAreItems DEF DeleteUploaded, VInv, TypeOK
<1>3. QED
  BY <1>1, <1>2, QuietStep, QuietTypes

LEMMA IdleKeeps == VInv /\ UNCHANGED vars => VInv'
<1> SUFFICES ASSUME VInv, UNCHANGED vars PROVE VInv'
  OBVIOUS
<1>1. RowsKept /\ UNCHANGED tVars /\ UNCHANGED report
  BY DEF vars, viewVars, RowsKept
<1>2. timers' \in Nat /\ taps' \in [Item -> 0 .. MaxTaps] /\ asked' \in Item \cup {NoItem}
  BY DEF vars, viewVars, VInv, TypeOK
<1>3. QED
  BY <1>1, <1>2, QuietStep, QuietTypes
-----------------------------------------------------------------------------
(* Images are picked: they have no uploader and no row. *)
LEMMA PickKeeps == \A S \in SUBSET Fresh : VInv /\ Pick(S) => VInv'
<1> SUFFICES ASSUME NEW S \in SUBSET Fresh, VInv, Pick(S) PROVE VInv'
  OBVIOUS
<1>1. TicketInv' /\ UNCHANGED <<state, phase, told, mainQ>>
  BY TicketsKept DEF VInv, TicketInv, Pick, tVars
<1>2. /\ S \subseteq Item /\ S \cap loading = {} /\ S \cap lost = {}
      /\ \A i \in S : uploader[i] = NoOp
      /\ loading' = loading \cup S /\ timers' = timers + 1
      /\ imageCount' = imageCount + Cardinality(S)
      /\ UNCHANGED <<uploads, uploader, owner, filled, taps, asked, report, lost, extra>>
  BY DEF Pick, Fresh
<1>3. /\ loading \subseteq Item /\ lost \subseteq Item
      /\ imageCount \in Nat /\ timers \in Nat /\ Len(uploads) \in Nat /\ extra \in Nat
  BY RowsAreItems DEF VInv, TypeOK
<1>4. /\ Cardinality(S) \in Nat /\ Cardinality(loading) \in Nat /\ Cardinality(lost) \in Nat
      /\ Cardinality(loading \cup S) = Cardinality(loading) + Cardinality(S)
  <2>1. /\ IsFiniteSet(S) /\ IsFiniteSet(loading) /\ loading \cap S = {}
        /\ Cardinality(S) \in Nat /\ Cardinality(loading) \in Nat /\ Cardinality(lost) \in Nat
    BY <1>2, <1>3, ItemsCounted
  <2>2. Cardinality(loading \cup S)
          = Cardinality(loading) + Cardinality(S) - Cardinality(loading \cap S)
    BY <2>1, FS_Union
  <2>3. QED
    BY <2>1, <2>2, FS_EmptySet
<1>5. TypeOK'
  BY <1>2, <1>3, <1>4 DEF VInv, TypeOK
<1>6. RowsBacked'
  <2> DEFINE rows == Len(uploads)
             more == Cardinality(S)
             now == Cardinality(loading)
             gone == Cardinality(lost)
  <2>1. imageCount + extra = rows + now + gone
    BY DEF VInv, RowsBacked
  <2>2. RowsBacked' <=> (imageCount + more) + extra = rows + (now + more) + gone
    BY <1>2, <1>4 DEF RowsBacked
  <2>3. /\ imageCount \in Nat /\ extra \in Nat /\ rows \in Nat
        /\ more \in Nat /\ now \in Nat /\ gone \in Nat
    BY <1>3, <1>4
  <2> HIDE DEF rows, more, now, gone
  <2>4. QED
    BY <2>1, <2>2, <2>3
<1>7. S \cap Rows = {}
  BY DEF Pick, Fresh, VInv, FilledInv
<1>8. PlaceInv'
  BY <1>2, <1>7 DEF VInv, PlaceInv, Rows
<1>9. OwnerInv' /\ FilledInv' /\ SuccessIsReported'
  BY <1>1, <1>2 DEF VInv, OwnerInv, FilledInv, SuccessIsReported, Rows, Succeeded, Status
<1>10. QED
  BY <1>1, <1>5, <1>6, <1>8, <1>9 DEF VInv, TicketInv

LEMMA AssetMissingKeeps == \A i \in Item : VInv /\ AssetMissing(i) => VInv'
<1> SUFFICES ASSUME NEW i \in Item, VInv, AssetMissing(i) PROVE VInv'
  OBVIOUS
<1>1. TicketInv' /\ UNCHANGED <<state, phase, told, mainQ>>
  BY TicketsKept DEF VInv, TicketInv, AssetMissing, tVars
<1>2. /\ i \in loading /\ i \notin lost
      /\ loading' = loading \ {i} /\ lost' = lost \cup {i}
      /\ UNCHANGED <<imageCount, uploads, uploader, owner, filled, taps, asked, timers,
                     report, extra>>
  BY DEF AssetMissing, VInv, PlaceInv
<1>3. /\ Cardinality(loading \ {i}) = Cardinality(loading) - 1
      /\ Cardinality(lost \cup {i}) = Cardinality(lost) + 1
      /\ Cardinality(loading) \in Nat /\ Cardinality(lost) \in Nat
  BY <1>2, ItemsCounted, FS_RemoveElement, FS_AddElement DEF VInv, TypeOK
<1>4. TypeOK'
  BY <1>2 DEF VInv, TypeOK
<1>5. RowsBacked'
  BY <1>2, <1>3, RowsAreItems DEF VInv, RowsBacked, TypeOK
<1>6. PlaceInv'
  BY <1>2 DEF VInv, PlaceInv, Rows
<1>7. OwnerInv' /\ FilledInv' /\ SuccessIsReported'
  BY <1>1, <1>2 DEF VInv, OwnerInv, FilledInv, SuccessIsReported, Rows, Succeeded, Status
<1>8. QED
  BY <1>1, <1>4, <1>5, <1>6, <1>7 DEF VInv, TicketInv
-----------------------------------------------------------------------------
(* An item gets an uploader that no item had. *)
LEMMA Attached ==
  ASSUME VInv, UNCHANGED tVars, NEW i \in Item, NEW o \in Unused, Attach(i, o)
  PROVE  /\ uploader' \in [Item -> Op \cup {NoOp}] /\ owner' \in [Op -> Item \cup {NoItem}]
         /\ uploader'[i] = o /\ \A j \in Item \ {i} : uploader'[j] = uploader[j]
         /\ o \in Op /\ o # NoOp /\ told'[o] = "none" /\ OwnerInv'
<1>1. o \in Op /\ owner[o] = NoItem /\ told[o] = "none" /\ o # NoOp /\ i # NoItem
  BY UnusedQuiet, ItemAssumption DEF VInv, TicketInv
<1>2. /\ uploader' = [uploader EXCEPT ![i] = o] /\ uploader \in [Item -> Op \cup {NoOp}]
      /\ owner' = [owner EXCEPT ![o] = i] /\ owner \in [Op -> Item \cup {NoItem}]
      /\ UNCHANGED <<state, phase, told>>
  BY DEF Attach, VInv, TypeOK, tVars
<1>3. /\ uploader' \in [Item -> Op \cup {NoOp}] /\ owner' \in [Op -> Item \cup {NoItem}]
      /\ uploader'[i] = o /\ \A j \in Item \ {i} : uploader'[j] = uploader[j]
      /\ owner'[o] = i /\ \A q \in Op \ {o} : owner'[q] = owner[q]
  BY <1>1, <1>2
<1>4. ASSUME NEW j \in Item, uploader'[j] # NoOp
      PROVE  owner'[uploader'[j]] = j
  <2>1. CASE j = i
    BY <1>3, <2>1
  <2>2. CASE j # i
    <3>1. owner[uploader[j]] = j /\ uploader[j] \in Op /\ j # NoItem
      BY <1>2, <1>3, <1>4, <2>2, ItemAssumption DEF VInv, OwnerInv
    <3>2. uploader[j] # o
      BY <1>1, <3>1
    <3>3. QED
      BY <1>3, <2>2, <3>1, <3>2
  <2>3. QED
    BY <2>1, <2>2
<1>5. ASSUME NEW q \in Op, owner'[q] = NoItem
      PROVE  state'[q] = "Ready" /\ phase'[q] = "idle"
  BY <1>1, <1>2, <1>3, <1>5 DEF VInv, OwnerInv
<1>6. QED
  BY <1>1, <1>2, <1>3, <1>4, <1>5 DEF OwnerInv

LEMMA AssetLoadedKeeps ==
  \A i \in Item, o \in Op : VInv /\ AssetLoaded(i, o) => VInv'
<1> SUFFICES ASSUME NEW i \in Item, NEW o \in Op, VInv, AssetLoaded(i, o) PROVE VInv'
  OBVIOUS
<1>1. /\ i \in loading /\ o \in Unused /\ loading' = loading \ {i} /\ Attach(i, o)
      /\ uploads' = Append(uploads, i)
      /\ UNCHANGED tVars
      /\ UNCHANGED <<imageCount, filled, taps, asked, timers, report, lost, extra>>
  BY DEF AssetLoaded
<1>2. TicketInv' /\ UNCHANGED <<state, phase, told, mainQ>>
  BY <1>1, TicketsKept DEF VInv, TicketInv, tVars
<1>3. /\ uploader' \in [Item -> Op \cup {NoOp}] /\ owner' \in [Op -> Item \cup {NoItem}]
      /\ uploader'[i] = o /\ \A j \in Item \ {i} : uploader'[j] = uploader[j]
      /\ o \in Op /\ o # NoOp /\ told'[o] = "none" /\ OwnerInv'
  BY <1>1, Attached
<1>4. /\ uploads' \in Seq(Item) /\ Len(uploads') = Len(uploads) + 1 /\ Len(uploads) \in Nat
      /\ uploads'[Len(uploads) + 1] = i
      /\ \A j \in 1 .. Len(uploads) : uploads'[j] = uploads[j]
      /\ Rows' = Rows \cup {i}
  BY <1>1, Appended DEF VInv, TypeOK, Rows
<1>5. i \notin Rows /\ i \notin lost /\ loading \subseteq Item /\ Rows \subseteq Item
  BY <1>1, RowsAreItems DEF VInv, TypeOK, PlaceInv
<1>6. IsInjective(uploads')
  <2>1. /\ DOMAIN uploads' = 1 .. Len(uploads) + 1 /\ DOMAIN uploads = 1 .. Len(uploads)
        /\ \A j \in 1 .. Len(uploads) + 1 : j \in 1 .. Len(uploads) \/ j = Len(uploads) + 1
    BY <1>4 DEF VInv, TypeOK
  <2>2. \A j \in 1 .. Len(uploads) : uploads'[j] # i
    BY <1>4, <1>5, <2>1 DEF Rows, ToSet
  <2>3. QED
    BY <1>4, <2>1, <2>2 DEF VInv, TypeOK, IsInjective
<1>7. TypeOK'
  BY <1>1, <1>3, <1>4, <1>6 DEF VInv, TypeOK
<1>8. RowsBacked'
  <2>1. Cardinality(loading \ {i}) = Cardinality(loading) - 1
    BY <1>1, <1>5, ItemsCounted, FS_RemoveElement
  <2>2. Cardinality(loading) \in Nat /\ Cardinality(lost) \in Nat
    BY ItemsCounted DEF VInv, TypeOK
  <2>3. QED
    BY <1>1, <1>4, <2>1, <2>2 DEF VInv, TypeOK, RowsBacked
<1>9. PlaceInv'
  BY <1>1, <1>3, <1>4, <1>5 DEF VInv, TypeOK, PlaceInv
<1>10. FilledInv' /\ SuccessIsReported'
  <2>1. ASSUME NEW j \in Rows'
        PROVE  \/ j = i /\ uploader'[j] = o
               \/ j \in Rows /\ uploader'[j] = uploader[j]
    BY <1>3, <1>4, <1>5
  <2>2. QED
    BY <1>1, <1>2, <1>3, <2>1
      DEF VInv, FilledInv, SuccessIsReported, Succeeded, Status
<1>11. QED
  BY <1>2, <1>3, <1>7, <1>8, <1>9, <1>10 DEF VInv, TicketInv

LEMMA ReUploadKeeps ==
  \A i \in Item, o \in Op, r \in DOMAIN uploads : VInv /\ ReUpload(i, r, o) => VInv'
<1> SUFFICES ASSUME NEW i \in Item, NEW o \in Op, NEW r \in DOMAIN uploads,
                    VInv, ReUpload(i, r, o)
             PROVE  VInv'
  OBVIOUS
<1> DEFINE k == uploads[r]
<1>1. /\ taps[i] > 0 /\ taps' = [taps EXCEPT ![i] = @ - 1]
      /\ o \in Unused /\ Attach(k, o) /\ UNCHANGED tVars
      /\ UNCHANGED <<imageCount, uploads, filled, loading, asked, timers, report, lost,
                     extra>>
  BY DEF ReUpload
<1>2. TicketInv' /\ UNCHANGED <<state, phase, told, mainQ>>
  BY <1>1, TicketsKept DEF VInv, TicketInv, tVars
<1>3. k \in Rows /\ k \in Item /\ Rows \subseteq Item /\ Rows' = Rows
  BY <1>1, RowsAreItems DEF VInv, TypeOK, Rows
<1> HIDE DEF k
<1>4. /\ uploader' \in [Item -> Op \cup {NoOp}] /\ owner' \in [Op -> Item \cup {NoItem}]
      /\ uploader'[k] = o /\ \A j \in Item \ {k} : uploader'[j] = uploader[j]
      /\ o \in Op /\ o # NoOp /\ told'[o] = "none" /\ OwnerInv'
  BY <1>1, <1>3, Attached
<1>5. TypeOK'
  <2>1. taps' \in [Item -> 0 .. MaxTaps]
    BY <1>1, TapsAssumption DEF VInv, TypeOK
  <2>2. QED
    BY <1>1, <1>4, <2>1 DEF VInv, TypeOK
<1>6. RowsBacked'
  BY <1>1 DEF VInv, RowsBacked
<1>7. PlaceInv'
  BY <1>1, <1>3, <1>4 DEF VInv, TypeOK, PlaceInv
<1>8. FilledInv' /\ SuccessIsReported'
  <2>1. ASSUME NEW j \in Rows'
        PROVE  \/ j = k /\ uploader'[j] = o
               \/ j \in Rows /\ uploader'[j] = uploader[j]
    BY <1>3, <1>4
  <2>2. QED
    BY <1>1, <1>2, <1>3, <1>4, <2>1
      DEF VInv, FilledInv, SuccessIsReported, Succeeded, Status
<1>9. QED
  BY <1>2, <1>4, <1>5, <1>6, <1>7, <1>8 DEF VInv, TicketInv

(* The page replaces the rows, by images that have no uploader. *)
LEMMA SetImagesKeeps ==
  \A S \in SUBSET Fresh : \A items \in SetToSeqs(S) : VInv /\ SetImages(items) => VInv'
<1> SUFFICES ASSUME NEW S \in SUBSET Fresh, NEW items \in SetToSeqs(S),
                    VInv, SetImages(items)
             PROVE  VInv'
  OBVIOUS
<1>1. /\ imageCount' = Len(items) /\ uploads' = items
      /\ filled' = [i \in Item |-> i \in ToSet(items) \/ filled[i]]
      /\ extra' = Cardinality(loading) + Cardinality(lost)
      /\ UNCHANGED tVars
      /\ UNCHANGED <<uploader, owner, loading, taps, asked, timers, report, lost>>
  BY DEF SetImages
<1>2. TicketInv' /\ UNCHANGED <<state, phase, told, mainQ>>
  BY <1>1, TicketsKept DEF VInv, TicketInv, tVars
<1>3. /\ S \subseteq Item /\ S \cap (loading \cup lost) = {}
      /\ \A i \in S : uploader[i] = NoOp
  BY DEF Fresh
<1>4. /\ items \in Seq(S) /\ items \in Seq(Item) /\ IsInjective(items)
      /\ Len(items) \in Nat /\ ToSet(items) \subseteq S
  BY <1>3, ItemsCounted, SetAsRows
<1>5. Cardinality(loading) \in Nat /\ Cardinality(lost) \in Nat
  BY ItemsCounted DEF VInv, TypeOK
<1>6. Rows' = ToSet(items)
  BY <1>1 DEF Rows
<1>7. filled' \in [Item -> BOOLEAN] /\ \A i \in ToSet(items) : filled'[i]
  BY <1>1, <1>3, <1>4 DEF VInv, TypeOK
<1>8. TypeOK'
  BY <1>1, <1>4, <1>5, <1>7 DEF VInv, TypeOK
<1>9. RowsBacked'
  BY <1>1, <1>4, <1>5 DEF RowsBacked
<1>10. PlaceInv' /\ OwnerInv' /\ FilledInv'
  BY <1>1, <1>2, <1>3, <1>4, <1>6, <1>7 DEF VInv, PlaceInv, OwnerInv, FilledInv
<1>11. SuccessIsReported'
  BY <1>1, <1>3, <1>4, <1>6 DEF SuccessIsReported
<1>12. QED
  BY <1>2, <1>8, <1>9, <1>10, <1>11 DEF VInv, TicketInv
-----------------------------------------------------------------------------
(* A row goes, and its upload is cancelled. *)
LEMMA RemovalKeeps ==
  ASSUME VInv, NEW r \in DOMAIN uploads, removeUploadCell(r), updateTotal,
         UNCHANGED <<uploader, owner, filled, loading, taps, timers, lost, extra>>,
         asked' \in Item \cup {NoItem}
  PROVE  VInv'
<1> DEFINE i == uploads[r]
<1>1. /\ Rows \subseteq Item /\ i \in Item /\ Len(uploads) \in Nat
      /\ r \in 1 .. Len(uploads) /\ uploads \in Seq(Item) /\ IsInjective(uploads)
  BY RowsAreItems DEF VInv, TypeOK
<1>2. /\ r <= imageCount /\ uploads' = RemoveAt(uploads, r)
      /\ imageCount' = imageCount - 1
      /\ IF uploader[i] = NoOp THEN UNCHANGED tVars ELSE SetCanceled(uploader[i])
  BY DEF removeUploadCell
<1> HIDE DEF i
<1>3. /\ uploads' \in Seq(Item) /\ IsInjective(uploads')
      /\ Len(uploads') = Len(uploads) - 1 /\ Rows' \subseteq Rows
  BY <1>1, <1>2, Removed DEF Rows
<1>4. imageCount \in Nat /\ imageCount' \in Nat
  BY <1>1, <1>2 DEF VInv, TypeOK
<1>5. TicketInv' /\ UNCHANGED told /\ OwnerInv'
  <2>1. CASE uploader[i] = NoOp
    <3>1. UNCHANGED tVars
      BY <1>2, <2>1
    <3>2. TicketInv'
      BY <3>1, TicketsKept DEF VInv, TicketInv
    <3>3. QED
      BY <3>1, <3>2 DEF VInv, OwnerInv, tVars
  <2>2. CASE uploader[i] # NoOp
    <3>1. /\ SetCanceled(uploader[i]) /\ uploader[i] \in Op
          /\ owner[uploader[i]] # NoItem
      BY <1>1, <1>2, <2>2, OwnUploader DEF VInv
    <3>2. TicketInv' /\ UNCHANGED told
      BY <3>1, WorkerKeeps DEF VInv, TicketInv
    <3>3. OwnerInv'
      BY <3>1 DEF VInv, TicketType, OwnerInv, SetCanceled, Become
    <3>4. QED
      BY <3>2, <3>3
  <2>3. QED
    BY <2>1, <2>2
<1>6. report' \in Reports
  BY <1>3, SummaryType
<1>7. TypeOK'
  BY <1>3, <1>4, <1>6 DEF VInv, TypeOK, Reports
<1>8. RowsBacked'
  <2> DEFINE late == Cardinality(loading)
             missed == Cardinality(lost)
  <2>1. /\ late \in Nat /\ missed \in Nat /\ extra \in Nat
        /\ imageCount + extra = Len(uploads) + late + missed
    BY ItemsCounted DEF VInv, TypeOK, RowsBacked
  <2>2. extra' = extra /\ late' = late /\ missed' = missed
    OBVIOUS
  <2> HIDE DEF late, missed
  <2>3. imageCount' + extra' = Len(uploads') + late' + missed'
    BY <1>1, <1>2, <1>3, <1>4, <2>1, <2>2
  <2>4. QED
    BY <2>3 DEF RowsBacked, late, missed
<1>9. PlaceInv' /\ FilledInv'
  BY <1>3, <1>5 DEF VInv, PlaceInv, FilledInv
<1>10. SuccessIsReported'
  BY <1>9, SummaryReports
<1>11. QED
  BY <1>5, <1>7, <1>8, <1>9, <1>10 DEF VInv, TicketInv

LEMMA DeleteUnfinishedKeeps ==
  \A r \in DOMAIN uploads : VInv /\ DeleteUnfinished(r) => VInv'
<1> SUFFICES ASSUME NEW r \in DOMAIN uploads, VInv, DeleteUnfinished(r) PROVE VInv'
  OBVIOUS
<1>1. /\ removeUploadCell(r) /\ updateTotal
      /\ UNCHANGED <<uploader, owner, filled, loading, taps, timers, lost, extra>>
      /\ asked' = asked
  BY DEF DeleteUnfinished
<1>2. asked' \in Item \cup {NoItem}
  BY <1>1 DEF VInv, TypeOK
<1>3. QED
  BY <1>1, <1>2, RemovalKeeps

LEMMA DeleteItemKeeps == \A r \in DOMAIN uploads : VInv /\ DeleteItem(r) => VInv'
<1> SUFFICES ASSUME NEW r \in DOMAIN uploads, VInv, DeleteItem(r) PROVE VInv'
  OBVIOUS
<1>1. /\ removeUploadCell(r) /\ updateTotal
      /\ UNCHANGED <<uploader, owner, filled, loading, taps, timers, lost, extra>>
      /\ asked' \in Item \cup {NoItem}
  BY DEF DeleteItem
<1>2. QED
  BY <1>1, RemovalKeeps
-----------------------------------------------------------------------------
(* An upload goes on, or is cancelled elsewhere.  One that was told is not *)
(* to become Uploaded any more.                                            *)
LEMMA UploadKeeps == \A o \in Op : VInv /\ Upload(o) => VInv'
<1> SUFFICES ASSUME NEW o \in Op, VInv, Upload(o) PROVE VInv'
  OBVIOUS
<1>1. /\ owner[o] # NoItem
      /\ WorkerStep(o) \/ SetCanceled(o)
      /\ UNCHANGED viewVars
  BY DEF Upload
<1>2. /\ UNCHANGED <<imageCount, uploads, uploader, owner, filled, loading, taps, asked>>
      /\ UNCHANGED <<timers, report, lost, extra>>
  BY <1>1 DEF viewVars
<1>3. TicketInv' /\ UNCHANGED told
  BY <1>1, WorkerKeeps DEF VInv, TicketInv
<1>4. \A q \in Op \ {o} : state'[q] = state[q] /\ phase'[q] = phase[q]
  BY <1>1 DEF VInv, TicketType, WorkerStep, Begin, AnnounceFailure, SetFailed,
              SetUploaded, AnnounceSuccess, Vanish, SetCanceled, Advance, Become
<1>5. \A q \in Op : state'[q] = "Uploaded" /\ told[q] = "success" => state[q] = "Uploaded"
  <2>1. told[o] = "success" => phase[o] \notin {"idle", "running", "owing"}
    BY DEF VInv, OnceInv, Quiet
  <2>2. state'[o] = "Uploaded" /\ told[o] = "success" => state[o] = "Uploaded"
    BY <1>1, <2>1 DEF VInv, TicketType, WorkerStep, Begin, AnnounceFailure, SetFailed,
                SetUploaded, AnnounceSuccess, Vanish, SetCanceled, Advance, Become
  <2>3. QED
    BY <1>4, <2>2
<1>6. TypeOK' /\ RowsBacked' /\ PlaceInv' /\ FilledInv'
  BY <1>2, <1>3 DEF VInv, TypeOK, RowsBacked, PlaceInv, FilledInv, Rows
<1>7. OwnerInv'
  BY <1>1, <1>2, <1>4 DEF VInv, OwnerInv
<1>8. SuccessIsReported'
  <2> SUFFICES ASSUME NEW i \in Rows, uploader[i] # NoOp, Succeeded(i)',
                      told[uploader[i]] = "success"
               PROVE  i \in report.success /\ i \notin report.empty
    BY <1>2, <1>3 DEF SuccessIsReported, Rows
  <2>1. uploader[i] \in Op
    BY RowsAreItems, OwnUploader DEF VInv, TypeOK
  <2>2. Succeeded(i)
    BY <1>2, <1>5, <2>1 DEF Succeeded, Status
  <2>3. QED
    BY <2>2 DEF VInv, SuccessIsReported
<1>9. QED
  BY <1>3, <1>6, <1>7, <1>8 DEF VInv, TicketInv

(* An announcement arrives: the item of a success is filled and reported.  *)
LEMMA AnnouncedKeeps == VInv /\ Announced => VInv'
<1> SUFFICES ASSUME VInv, Announced PROVE VInv'
  OBVIOUS
<1> DEFINE o == Head(mainQ).op
           i == owner[o]
           kind == Head(mainQ).kind
           heard == kind = "success" /\ i \in Rows
<1>1. /\ Deliver
      /\ told' = [told EXCEPT ![o] = kind] /\ UNCHANGED <<state, phase>>
      /\ UNCHANGED <<imageCount, uploads, uploader, owner, loading, taps>>
      /\ UNCHANGED <<asked, timers, lost, extra>>
      /\ heard => filled' = [filled EXCEPT ![i] = TRUE] /\ updateTotal
      /\ ~heard => UNCHANGED <<filled, report>>
  BY DEF Announced, Deliver
<1>2. TicketInv' /\ o \in Op
  BY <1>1, DeliveryStep DEF VInv, TicketInv
<1> HIDE DEF o, kind
<1>3. /\ told'[o] = kind /\ \A q \in Op \ {o} : told'[q] = told[q]
  BY <1>1, <1>2 DEF VInv, TicketType
<1>4. Rows \subseteq Item /\ Rows' = Rows
  BY <1>1, RowsAreItems DEF VInv, TypeOK, Rows
<1>5. /\ filled' \in [Item -> BOOLEAN]
      /\ \A j \in Item : filled[j] => filled'[j]
      /\ heard => filled'[i]
  BY <1>1, <1>4 DEF VInv, TypeOK
<1>6. report' \in Reports
  BY <1>1, SummaryType DEF VInv, TypeOK, Reports
<1>7. TypeOK'
  BY <1>1, <1>5, <1>6 DEF VInv, TypeOK, Reports
<1>8. RowsBacked' /\ PlaceInv'
  BY <1>1 DEF VInv, RowsBacked, PlaceInv, Rows
<1>9. OwnerInv'
  BY <1>1 DEF VInv, OwnerInv
<1>10. \A j \in Rows : uploader[j] # NoOp => uploader[j] \in Op /\ owner[uploader[j]] = j
  BY <1>4, OwnUploader DEF VInv
<1>11. FilledInv'
  <2> SUFFICES ASSUME NEW j \in Rows, uploader[j] = NoOp \/ told'[uploader[j]] = "success"
               PROVE  filled'[j]
    BY <1>1, <1>4 DEF FilledInv
  <2>1. CASE uploader[j] # NoOp /\ uploader[j] = o
    BY <1>3, <1>5, <1>10, <2>1, ItemAssumption DEF VInv, TypeOK
  <2>2. CASE uploader[j] = NoOp \/ uploader[j] # o
    BY <1>3, <1>4, <1>5, <1>10, <2>2 DEF VInv, FilledInv
  <2>3. QED
    BY <2>1, <2>2
<1>12. SuccessIsReported'
  <2>1. CASE heard
    BY <1>1, <1>11, <2>1, SummaryReports
  <2>2. CASE ~heard
    <3> SUFFICES ASSUME NEW j \in Rows, uploader[j] # NoOp, Succeeded(j),
                        told'[uploader[j]] = "success"
                 PROVE  j \in report.success /\ j \notin report.empty
      BY <1>1, <1>4, <2>2 DEF SuccessIsReported, Succeeded, Status
    <3>1. uploader[j] # o
      BY <1>3, <1>10, <2>2
    <3>2. told[uploader[j]] = "success"
      BY <1>3, <1>10, <3>1
    <3>3. QED
      BY <3>2 DEF VInv, SuccessIsReported
  <2>3. QED
    BY <2>1, <2>2
<1>13. QED
  BY <1>2, <1>7, <1>8, <1>9, <1>11, <1>12 DEF VInv, TicketInv
-----------------------------------------------------------------------------
LEMMA InitInvariant == Init => VInv
<1> SUFFICES ASSUME Init PROVE VInv
  OBVIOUS
<1>1. Rows = {} /\ Len(uploads) = 0 /\ IsInjective(uploads) /\ uploads \in Seq(Item)
  BY DEF Init, Rows, ToSet, IsInjective
<1>2. Cardinality(loading) = 0 /\ Cardinality(lost) = 0
  BY FS_EmptySet DEF Init
<1>3. TypeOK
  BY <1>1, TapsAssumption DEF Init, TypeOK
<1>4. TicketType /\ OnceInv /\ UploadedInv
  <2>1. Len(mainQ) = 0 /\ mainQ \in Seq(Message)
    BY DEF Init, TInit
  <2>2. QED
    BY <2>1 DEF Init, TInit, TicketType, OnceInv, Quiet, UploadedInv
<1>5. OwnerInv /\ PlaceInv /\ FilledInv /\ RowsBacked /\ SuccessIsReported
  BY <1>1, <1>2 DEF Init, TInit, OwnerInv, PlaceInv, FilledInv, RowsBacked,
                    SuccessIsReported
<1>6. QED
  BY <1>3, <1>4, <1>5 DEF VInv

LEMMA StepKeeps == VInv /\ [Next]_vars => VInv'
<1> SUFFICES ASSUME VInv, [Next]_vars PROVE VInv'
  OBVIOUS
<1>1. CASE \E S \in SUBSET Fresh : Pick(S) \/ \E items \in SetToSeqs(S) : SetImages(items)
  BY <1>1, PickKeeps, SetImagesKeeps
<1>2. CASE PickTimer
  BY <1>2, PickTimerKeeps
<1>3. CASE \E i \in Item : \/ AssetMissing(i) \/ TapFailed(i) \/ ReUploadMissing(i)
                           \/ \E o \in Op : AssetLoaded(i, o)
                           \/ \E o \in Op, r \in DOMAIN uploads : ReUpload(i, r, o)
  BY <1>3, AssetMissingKeeps, TapFailedKeeps, ReUploadMissingKeeps, AssetLoadedKeeps,
     ReUploadKeeps
<1>4. CASE \E r \in DOMAIN uploads : DeleteUnfinished(r) \/ DeleteUploaded(r) \/ DeleteItem(r)
  BY <1>4, DeleteUnfinishedKeeps, DeleteUploadedKeeps, DeleteItemKeeps
<1>5. CASE \E o \in Op : Upload(o)
  BY <1>5, UploadKeeps
<1>6. CASE Announced
  BY <1>6, AnnouncedKeeps
<1>7. CASE UNCHANGED vars
  BY <1>7, IdleKeeps
<1>8. QED
  BY <1>1, <1>2, <1>3, <1>4, <1>5, <1>6, <1>7 DEF Next

(* The inductive invariant of the view and its uploads. *)
THEOREM Invariance == Spec => []VInv
<1>1. VInv /\ [Next]_vars => VInv'
  BY StepKeeps
<1>2. QED
  BY <1>1, InitInvariant, PTL DEF Spec

(* HeroImageUploadView.m: the arrays, the counters and the last summary    *)
(* keep their types, and no image has two rows.                            *)
THEOREM TypeCorrect == Spec => []TypeOK
BY Invariance, PTL DEF VInv

(* The image array and the upload array differ exactly by the images whose *)
(* asset is awaited or lost and by the answers that a replacement of all   *)
(* rows made late, however picks, answers, re-uploads, deletions and       *)
(* replacements are interleaved.                                           *)
THEOREM ArraysAgree == Spec => []RowsBacked
BY Invariance, PTL DEF VInv

(* An upload whose success was announced, and that nobody cancelled, is in *)
(* the summary the page holds, and not among the successes without data.   *)
THEOREM AnnouncedIsReported == Spec => []SuccessIsReported
BY Invariance, PTL DEF VInv

(* A row that counts as a success before its item has a docId will get it: *)
(* the announcement is owed by the worker or waits for the main thread.    *)
LEMMA EmptyIsComing == VInv => EmptySuccessIsTransient
<1> SUFFICES ASSUME VInv, NEW i \in Rows, uploader[i] # NoOp, Succeeded(i), ~filled[i]
             PROVE  Coming(uploader[i])
  BY DEF EmptySuccessIsTransient
<1>1. uploader[i] \in Op
  BY RowsAreItems, OwnUploader DEF VInv, TypeOK
<1>2. Coming(uploader[i]) \/ told[uploader[i]] = "success"
  BY <1>1 DEF VInv, UploadedInv, Succeeded, Status
<1>3. QED
  BY <1>2 DEF VInv, FilledInv

(* A row that counts as a success before its item has a docId to report    *)
(* always has the announcement that fills it still to come.                *)
THEOREM EmptySuccessesEnd == Spec => []EmptySuccessIsTransient
BY Invariance, EmptyIsComing, PTL
-----------------------------------------------------------------------------
(* A change of what the page was told is a new summary. *)
LEMMA ReportIsSummary == [Next]_vars => updateTotal \/ UNCHANGED report
BY DEF Next, vars, viewVars, Pick, SetImages, PickTimer, AssetMissing, TapFailed,
       ReUploadMissing, AssetLoaded, ReUpload, DeleteUnfinished, DeleteUploaded,
       DeleteItem, Upload, Announced

(* When no answer is outside the arrays, the count of outcomes can reach   *)
(* the length of imageArray only if every row has its outcome.             *)
LEMMA CompletedSummary ==
  VInv /\ Summary.completed /\ extra = 0 => loading = {} /\ \A i \in Rows : Settled(i)
<1> SUFFICES ASSUME VInv, Summary.completed, extra = 0
             PROVE  loading = {} /\ \A i \in Rows : Settled(i)
  OBVIOUS
<1> DEFINE ok == {i \in Rows : Succeeded(i)}
           bad == {i \in Rows : Failed(i)}
<1>1. Cardinality(ok) + Cardinality(bad) = imageCount
  BY DEF Summary
<1>2. /\ IsFiniteSet(Rows) /\ Cardinality(Rows) = Len(uploads)
  BY RowsCounted DEF VInv, TypeOK, Rows
<1>3. ok \subseteq Rows /\ bad \subseteq Rows /\ ok \cap bad = {}
  BY DEF Succeeded, Failed
<1>4. \A i \in Rows : i \in ok \cup bad => Settled(i)
  BY DEF Settled
<1> HIDE DEF ok, bad
<1>5. Cardinality(ok \cup bad) = Cardinality(ok) + Cardinality(bad)
  <2>1. IsFiniteSet(ok) /\ IsFiniteSet(bad)
    BY <1>2, <1>3, FS_Subset
  <2>2. Cardinality(ok) \in Nat /\ Cardinality(bad) \in Nat /\ Cardinality(ok \cap bad) = 0
    BY <1>3, <2>1, FS_CardinalityType, FS_EmptySet
  <2>3. Cardinality(ok \cup bad)
          = Cardinality(ok) + Cardinality(bad) - Cardinality(ok \cap bad)
    BY <2>1, FS_Union
  <2>4. QED
    BY <2>2, <2>3
<1>6. /\ Cardinality(ok \cup bad) <= Len(uploads)
      /\ Cardinality(ok \cup bad) = Len(uploads) => ok \cup bad = Rows
  <2>1. ok \cup bad \subseteq Rows
    BY <1>3
  <2>2. QED
    BY <1>2, <2>1, FS_Subset
<1>7. /\ IsFiniteSet(loading) /\ Cardinality(loading) \in Nat /\ Cardinality(lost) \in Nat
      /\ Len(uploads) \in Nat /\ Cardinality(ok \cup bad) \in Nat
      /\ imageCount + extra = Len(uploads) + Cardinality(loading) + Cardinality(lost)
  <2>1. ok \cup bad \subseteq Item
    BY <1>3, RowsAreItems DEF VInv, TypeOK
  <2>2. QED
    BY <2>1, RowsAreItems, ItemsCounted DEF VInv, TypeOK, RowsBacked
<1>8. Cardinality(loading) = 0 /\ Cardinality(ok \cup bad) = Len(uploads)
  BY <1>1, <1>5, <1>6, <1>7 DEF VInv, TypeOK
<1>9. QED
  BY <1>4, <1>6, <1>7, <1>8, FS_EmptySet

(* updateTotal: the page is told that all is completed only when no image  *)
(* is loading and every row has succeeded or failed, unless the page       *)
(* replaced the rows while answers were due or lost.                       *)
THEOREM CompletedMeansSettled == Spec => CompletedIsTrue
<1>1. VInv /\ VInv' /\ [Next]_vars =>
        [report' # report /\ report'.completed /\ extra' = 0
           => loading' = {} /\ \A i \in Rows' : Settled(i)']_vars
  <2> SUFFICES ASSUME VInv', [Next]_vars, report' # report, report'.completed, extra' = 0
               PROVE  loading' = {} /\ \A i \in Rows' : Settled(i)'
    OBVIOUS
  <2>1. (Summary.completed)'
    BY ReportIsSummary DEF updateTotal
  <2>2. (VInv /\ Summary.completed /\ extra = 0
           => loading = {} /\ \A i \in Rows : Settled(i))'
    BY CompletedSummary, PTL
  <2>3. QED
    BY <2>1, <2>2
<1>2. QED
  BY <1>1, Invariance, PTL DEF Spec, CompletedIsTrue
=============================================================================
