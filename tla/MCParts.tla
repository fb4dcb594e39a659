------------------------------ MODULE MCParts ------------------------------
(* Parts of the program that have nothing to do with each other and are    *)
(* small, each checked alone: `part' says which one runs.  The table has   *)
(* two items of a nib with images, two views and a widget; the tunnel two  *)
(* configurations, one of which the provider refuses; the database one key *)
(* and unsigned numbers below 16; the page a field, two texts and two      *)
(* requests.  The numbers are small ones and those around powers of ten.   *)
EXTENDS Integers, Sequences, TLC

CONSTANTS
  Kind, RowLists, WithImage, Cell, MaxRows, MaxRefresh,
  Config, Undefined, MaxSettings, MaxLoads,
  Key, Value, Lists, Half, MaxLen,
  Fields, Texts, Empty, Null, Requests, Params, MaxChanges, MaxCovers,
  Numbers,
  None, nib1, nib2, view1, view2, widget, c1, c2, c3, x, y, r1, r2

VARIABLES
  part,
  data, refeshTimes, cells, blocks, replaced, mixed,
  loading, asked, manager, saves, saved, session, alive, started, proxy, rules,
  settings, crashed, stopped, late,
  ldb, raised,
  receiver, boot, shown, ui2Data, echoes, missed, overlay, held, requests, wire,
  changes, covers,
  number

tableV == <<data, refeshTimes, cells, blocks, replaced, mixed>>
tunnelV ==
  <<loading, asked, manager, saves, saved, session, alive, started, proxy, rules,
    settings, crashed, stopped, late>>
dbV == <<ldb, raised>>
pageV ==
  <<receiver, boot, shown, ui2Data, echoes, missed, overlay, held, requests, wire,
    changes, covers>>

Table == INSTANCE HeroTable
Tunnel == INSTANCE HeroTunnel
DB == INSTANCE HeroDB
Page == INSTANCE HeroPage
Format == INSTANCE HeroFormat

(* An array has at most as many elements as NSInteger can count. *)
ASSUME ArrayAssumption ==
  /\ Half \in Nat /\ MaxLen \in 1 .. Half
  /\ \A s \in Lists : s \in Seq(Value) /\ Len(s) <= MaxLen

(* The data of a request is an object with texts or other values. *)
ASSUME ParamsAssumption ==
  \A params \in Params : params \in Seq([key : Nat, val : {"text", "empty", "zero"}])

ASSUME RowAssumption == \A rows \in RowLists : rows \in Seq(DOMAIN Kind)

MCKind ==
  nib1 :> "nib" @@ nib2 :> "nib" @@ view1 :> "view" @@ view2 :> "view" @@ widget :> "widget"
MCRowLists == {<<nib1, view1>>, <<nib2, view2>>, <<widget>>}
MCWithImage == {nib1, nib2}
MCCell == {c1, c2, c3}
MCLists == {<<x>>, <<y, x>>, << >>}
MCPair(k, v) == [key |-> k, val |-> v]
MCParams ==
  {<<MCPair(2, v), MCPair(1, "text")>> : v \in {"text", "empty", "zero"}}
MCNumbers ==
  -1200 .. 1200 \cup
  {s * (m * 10 ^ k + j) : s \in {-1, 1}, k \in 3 .. 8, m \in {1, 5, 9}, j \in -1 .. 1}
Symmetric == Permutations(MCCell) \cup Permutations(Requests)

ASSUME NumbersAssumption == Numbers \subseteq Int

PartsInit ==
  /\ part \in {"table", "tunnel", "db", "page", "format"}
  /\ Table!Init /\ Tunnel!Init /\ DB!Init /\ Page!Init
  /\ IF part = "format" THEN Format!Init ELSE number = 0

TableRuns ==
  part = "table" /\ UNCHANGED <<part, tunnelV, dbV, pageV, number>>
TunnelRuns ==
  part = "tunnel" /\ UNCHANGED <<part, tableV, dbV, pageV, number>>
DBRuns ==
  part = "db" /\ UNCHANGED <<part, tableV, tunnelV, pageV, number>>
PageRuns ==
  part = "page" /\ UNCHANGED <<part, tableV, tunnelV, dbV, number>>

TablePage == TableRuns /\ Table!Page
TableScreen == TableRuns /\ Table!Screen
TunnelApp == TunnelRuns /\ Tunnel!App
TunnelUser == TunnelRuns /\ Tunnel!User
TunnelSystem == TunnelRuns /\ Tunnel!Tunnel
Database == DBRuns /\ DB!Next
PagePage == PageRuns /\ Page!Page
PageScreen == PageRuns /\ Page!Screen

PartsNext ==
  \/ TablePage \/ TableScreen \/ TunnelApp \/ TunnelUser \/ TunnelSystem \/ Database
  \/ PagePage \/ PageScreen
partsV == <<part, tableV, tunnelV, dbV, pageV, number>>
PartsSpec == PartsInit /\ [][PartsNext]_partsV

(* A row on the screen shows its item, with the exceptions HeroTable names. *)
RowsShowTheirItem == part = "table" => Table!RowsShowTheirItem
(* A cell whose images have come shows the one of its item.                *)
ImagesSettle == part = "table" => Table!ImagesSettle
(* The provider fails on a nil proxy only after a restart in one process.  *)
CrashNeedsRestart == Tunnel!CrashNeedsRestart
(* A proxy without a session was started by settings that came too late.   *)
NoLeftoverProxy == Tunnel!NoLeftoverProxy
(* An array of the database that is read page by page is read entirely.    *)
PagesReadBack == part = "db" => DB!PagesReadBack
(* What the page has of a quiet field is what the user sees.               *)
FieldsAgree == part = "page" => Page!FieldsAgree
(* The overlay is up for a request, or after one of the named endings.     *)
OverlayHasReason == part = "page" => Page!OverlayHasReason
(* What a request signs is what it sends, but for values such as 0.        *)
SignCoversSent == part = "page" => Page!SignCoversSent
(* Amounts and adjusted numbers are as their reference definitions say.    *)
NumbersFormatted == part = "format" => Format!NumbersFormatted
=============================================================================
