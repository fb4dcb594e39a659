------------------------------- MODULE HeroDB -------------------------------
(***************************************************************************)
(* HeroDB: values and arrays that a page keeps in a LevelDB, one name      *)
(* space for both.  The page reads an array from its end, by a start and a *)
(* count, both taken from text with integerValue and then made unsigned.   *)
(* All is on the main thread; a message with a key and an array key is two *)
(* steps, the key's first.                                                 *)
(***************************************************************************)
EXTENDS Integers, Sequences

CONSTANTS
  Key,
  Value,   \* what a page stores besides arrays
  Lists,   \* the arrays of values that it stores or adds
  Half,    \* half of the numbers of NSUInteger: those of NSInteger from 0
  MaxLen,  \* bound on the length of an array
  None

VARIABLES
  ldb,     \* for each key, what is stored: nil, a value or an array
  raised   \* an exception ended the program

dbVars == <<ldb, raised>>

Nil == [kind |-> "nil", val |-> None]
Plain(v) == [kind |-> "value", val |-> v]
Array(s) == [kind |-> "array", val |-> s]
Stored ==
  {Plain(v) : v \in Value} \cup
  {Array([n \in DOMAIN s |-> Plain(s[n])]) : s \in Lists}

Init == ldb = [k \in Key |-> Nil] /\ raised = FALSE
-----------------------------------------------------------------------------
setValue(k, value) ==
  /\ ~raised
  /\ ldb' = [ldb EXCEPT ![k] = value]
  /\ UNCHANGED raised

(* addValue:forArrayKey:, of an array: its elements are added. *)
Added(array, value) ==
  IF value.kind = "array" THEN array \o value.val ELSE Append(array, value)

addFirst(k, value) ==
  /\ ~raised /\ ldb[k].kind = "nil"
  /\ ldb' = [ldb EXCEPT ![k] = Array(<<value>>)]
  /\ UNCHANGED raised

addMore(k, value) ==
  /\ ~raised /\ ldb[k].kind = "array"
  /\ Len(Added(ldb[k].val, value)) <= MaxLen
  /\ ldb' = [ldb EXCEPT ![k] = Array(Added(@.val, value))]
  /\ UNCHANGED raised

(* What is not an array has no addObject:. *)
addToValue(k) ==
  /\ ~raised /\ ldb[k].kind = "value"
  /\ raised' = TRUE
  /\ UNCHANGED ldb

(* The answer to a page that is no npc is a dictionary: nil has no place.  *)
readValue(k, isNpc) ==
  /\ ~raised
  /\ raised' = (ldb[k].kind = "nil" /\ ~isNpc)
  /\ UNCHANGED ldb
-----------------------------------------------------------------------------
Unsigned == 0 .. 2 * Half - 1
Wrap(n) == n % (2 * Half)

(* subarrayWithRange: checks the range. *)
InRange(array, loc, len) == loc <= Len(array) /\ len <= Len(array) - loc
Subarray(array, loc, len) == [j \in 1 .. len |-> array[loc + j]]

clamped(array, start, count) ==
  IF Wrap(start + count) > Len(array) THEN Wrap(Len(array) - start) ELSE count

(* Mutant: pages are counted from the oldest element. *)
page_oldestFirst(array, start, count) ==
  LET c == clamped(array, start, count)
  IN IF InRange(array, start, c) THEN Array(Subarray(array, start, c)) ELSE Nil

(* valueForArrayKey:start:count:, the page or Nil for an exception. *)
page(array, start, count) ==
  LET c == clamped(array, start, count)
      loc == Wrap(Len(array) - start - c)
  IN IF InRange(array, loc, c) THEN Array(Subarray(array, loc, c)) ELSE Nil

readPage(k, start, count) ==
  /\ ~raised /\ ldb[k].kind # "nil"
  /\ raised' = (ldb[k].kind = "value" \/ page(ldb[k].val, start, count) = Nil)
  /\ UNCHANGED ldb
-----------------------------------------------------------------------------
Next ==
  \E k \in Key :
    \/ \E value \in Stored : setValue(k, value) \/ addFirst(k, value) \/ addMore(k, value)
    \/ addToValue(k)
    \/ \E isNpc \in BOOLEAN : readValue(k, isNpc)
    \/ \E start, count \in Unsigned : readPage(k, start, count)

Spec == Init /\ [][Next]_dbVars
-----------------------------------------------------------------------------
Arrays == {ldb[k].val : k \in {l \in Key : ldb[l].kind = "array"}}

(* Element n from the end is where the page of n has it. *)
ReadBack(array) ==
  \A size \in 1 .. Half - 1 : \A n \in 0 .. Len(array) - 1 :
    LET p == page(array, size * (n \div size), size) IN
      /\ p # Nil
      /\ p.val[Len(p.val) - (n % size)] = array[Len(array) - n]

(* A page is an exception when it starts beyond the end or when start and  *)
(* count, which a negative text makes large, overflow.  Otherwise it has   *)
(* the count, or all that is left.                                         *)
Bounded(array) ==
  \A start, count \in Unsigned :
    LET p == page(array, start, count)
        left == Len(array) - start
    IN IF left < 0 \/ start + count >= 2 * Half THEN p = Nil
       ELSE p # Nil /\ Len(p.val) = (IF count < left THEN count ELSE left)

(* Counted from the newest element, pages of any size put an array         *)
(* together again, and a page that is asked for ends where the array ends. *)
PagesReadBack == \A array \in Arrays : ReadBack(array) /\ Bounded(array)
=============================================================================
