----------------------- MODULE IncrementalParserProofs -----------------------
(***************************************************************************)
(* A session after any edits of any document: the source texts of its      *)
(* items are retained, and where cells do not depend on each other they    *)
(* are the items of the new text.                                          *)
(***************************************************************************)
EXTENDS IncrementalParser, FiniteSetTheorems, SequenceTheorems, WellFoundedInduction, TLAPS

-----------------------------------------------------------------------------
(* Numbers. *)

(* A set of numbers that is not empty has a least one. *)
LEMMA LeastNumber ==
  ASSUME NEW S, S \subseteq Nat, S # {}
  PROVE  \E n \in S : \A m \in S : n <= m
<1> DEFINE Less == {ss \in Nat \X Nat : ss[1] < ss[2]}
<1>1. IsWellFoundedOn(Less, Nat)
  BY NatLessThanWellFounded, Zenon DEF OpToRel
<1>2. \E n \in S : \A m \in S : ~(<<m, n>> \in Less)
  <2> HIDE DEF Less
  <2> QED
    BY <1>1, WFMin
<1>3. PICK n \in S : \A m \in S : ~(<<m, n>> \in Less)
  BY <1>2
<1>4. ASSUME NEW m \in S PROVE n <= m
  <2>1. n \in Nat /\ m \in Nat /\ <<m, n>> \in Nat \X Nat
    OBVIOUS
  <2>2. ~(m < n)
    BY <1>3, <2>1
  <2> QED
    BY <2>1, <2>2
<1> QED
  BY <1>4

(* The n-th element of a set of positive numbers that has as many. *)
LEMMA NthIs ==
  ASSUME NEW S, NEW max \in Nat, S \subseteq 1..max, NEW n \in 1..Cardinality(S)
  PROVE  Nth(S, n) \in S /\ Cardinality({j \in S : j <= Nth(S, n)}) = n
<1> DEFINE Up(i) == {j \in S : j <= i}
           Reach == {i \in 0..max : n <= Cardinality(Up(i))}
<1>0. \A j \in S : j \in Nat /\ 1 <= j /\ j <= max
  OBVIOUS
<1>1. IsFiniteSet(S) /\ Cardinality(S) \in Nat
  <2>1. IsFiniteSet(1..max)
    BY FS_Interval
  <2> QED
    BY <2>1, FS_Subset, FS_CardinalityType
<1>2. ASSUME NEW i PROVE IsFiniteSet(Up(i)) /\ Cardinality(Up(i)) \in Nat
  <2>1. Up(i) \in SUBSET S
    OBVIOUS
  <2> QED
    BY <1>1, <2>1, FS_Subset, FS_CardinalityType
<1>3. Up(max) = S
  <2>1. \A j \in S : j \in Up(max)
    BY <1>0
  <2> QED
    BY <2>1
<1>4. Up(0) = {}
  <2>1. \A j \in S : ~(j <= 0)
    BY <1>0
  <2> QED
    BY <2>1
<1>5. ASSUME NEW i \in 1..max
      PROVE  Up(i) = IF i \in S THEN Up(i - 1) \union {i} ELSE Up(i - 1)
  <2>1. \A j \in Nat : j <= i <=> j <= i - 1 \/ j = i
    OBVIOUS
  <2> QED
    BY <1>0, <2>1
<1>6. \A i \in 1..max : i \notin Up(i - 1)
  OBVIOUS
<1> HIDE DEF Up
<1>7. max \in Reach
  BY <1>1, <1>3
<1>8. PICK i \in Reach : \A m \in Reach : i <= m
  <2>1. Reach \subseteq Nat /\ Reach # {}
    BY <1>7
  <2> HIDE DEF Reach
  <2> QED
    BY <2>1, LeastNumber
<1>9. Cardinality(Up(0)) = 0
  BY <1>4, FS_EmptySet
<1>10. i \in 1..max /\ n <= Cardinality(Up(i)) /\ ~(n <= Cardinality(Up(i - 1)))
  <2>1. i # 0
    BY <1>1, <1>9
  <2>2. i \in 1..max /\ n <= Cardinality(Up(i)) /\ i - 1 \in 0..max
    BY <2>1
  <2>3. i - 1 \notin Reach
    BY <1>8, <2>2
  <2> QED
    BY <2>2, <2>3
<1>11. i \in S /\ Cardinality(Up(i)) = Cardinality(Up(i - 1)) + 1
  <2>1. i \in S
    BY <1>5, <1>10
  <2>2. Up(i) = Up(i - 1) \union {i} /\ i \notin Up(i - 1)
    BY <1>5, <1>6, <1>10, <2>1
  <2> QED
    BY <1>2, <2>1, <2>2, FS_AddElement
<1>12. Cardinality(Up(i)) = n
  <2>1. Cardinality(Up(i)) \in Nat /\ Cardinality(Up(i - 1)) \in Nat
    BY <1>2
  <2> QED
    BY <1>1, <1>10, <1>11, <2>1
<1> QED
  BY <1>11, <1>12 DEF Nth, Up

(* The n-th number of an interval. *)
LEMMA NthOfInterval ==
  ASSUME NEW a \in Nat \ {0}, NEW b \in Nat, NEW n \in 1..Cardinality(a..b)
  PROVE  Nth(a..b, n) = a + n - 1
<1>1. a..b \subseteq 1..b
  OBVIOUS
<1> DEFINE i == Nth(a..b, n)
<1>2. i \in a..b /\ Cardinality({j \in a..b : j <= i}) = n
  <2> HIDE DEF i
  <2>1. Nth(a..b, n) \in a..b /\ Cardinality({j \in a..b : j <= Nth(a..b, n)}) = n
    BY <1>1, NthIs
  <2>2. i = Nth(a..b, n)
    BY DEF i
  <2> QED
    BY <2>1, <2>2
<1> HIDE DEF i
<1>3. {j \in a..b : j <= i} = a..i
  <2>1. i \in Nat /\ a <= i /\ i <= b
    BY <1>2
  <2> QED
    BY <2>1
<1>4. Cardinality(a..i) = i - a + 1
  <2>1. a \in Int /\ i \in Int /\ ~(a > i)
    BY <1>2
  <2>2. Cardinality(a..i) = IF a > i THEN 0 ELSE i - a + 1
    BY <2>1, FS_Interval
  <2> QED
    BY <2>1, <2>2
<1>5. i = a + n - 1
  <2>1. n = i - a + 1
    BY <1>2, <1>3, <1>4, Zenon
  <2>2. i \in Int
    BY <1>2
  <2> QED
    BY <2>1, <2>2
<1> QED
  BY <1>5 DEF i

-----------------------------------------------------------------------------
(* Items. *)

Items == [lo : Nat \ {0, 1}, hi : Nat, cells : Seq(Cells), core : BOOLEAN, owner : Nat]
Windows == [lo : Nat, near : BOOLEAN]

(* An item ends with its cell or the next. *)
LEMMA ItemTyped ==
  ASSUME NEW text \in Seq(Cells), NEW from, NEW i \in 1..Len(text), NEW owner \in Nat
  PROVE  ItemAt(text, from, i, owner) \in Items /\ ItemAt(text, from, i, owner).owner = owner
<1> DEFINE last == IF i < Len(text) /\ Swallowed(text, from, i + 1) THEN i + 1 ELSE i
<1>1. last \in 1..Len(text)
  OBVIOUS
<1> HIDE DEF last
<1>2. SubSeq(text, i, last) \in Seq(Cells)
  <2>1. \A j \in i..last : text[j] \in Cells
    BY <1>1
  <2> QED
    BY <1>1, <2>1, SubSeqProperties
<1>3. CoreMode(text, from) \in BOOLEAN
  BY DEF CoreMode
<1>4. 2 * i \in Nat \ {0, 1} /\ 2 * last + 1 \in Nat
  BY <1>1
<1>5. ItemAt(text, from, i, owner) =
        [lo |-> 2 * i, hi |-> 2 * last + 1, cells |-> SubSeq(text, i, last),
         core |-> CoreMode(text, from), owner |-> owner]
  BY DEF ItemAt, last
<1> QED
  BY <1>2, <1>3, <1>4, <1>5 DEF Items

(* What parse_program collects is a sequence of items of one owner. *)
LEMMA ParsedTyped ==
  ASSUME NEW text \in Seq(Cells), NEW from \in Nat \ {0}, NEW owner \in Nat
  PROVE  LET items == ParseItems(text, from, owner) IN
         items \in Seq(Items) /\ \A n \in DOMAIN items : items[n].owner = owner
<1> DEFINE S == Starts(text, from)
           items == ParseItems(text, from, owner)
<1>1. Len(text) \in Nat /\ S \subseteq 1..Len(text)
  BY DEF Starts
<1>2. Cardinality(S) \in Nat
  <2>1. IsFiniteSet(1..Len(text))
    BY <1>1, FS_Interval
  <2> QED
    BY <1>1, <2>1, FS_Subset, FS_CardinalityType
<1>3. ASSUME NEW n \in 1..Cardinality(S) PROVE Nth(S, n) \in 1..Len(text)
  <2> HIDE DEF S
  <2>1. Nth(S, n) \in S
    BY <1>1, <1>3, NthIs
  <2> QED
    BY <1>1, <2>1
<1>4. items = [n \in 1..Cardinality(S) |-> ItemAt(text, from, Nth(S, n), owner)]
  BY DEF ParseItems
<1> HIDE DEF S, items
<1>5. ASSUME NEW n \in 1..Cardinality(S) PROVE items[n] \in Items /\ items[n].owner = owner
  <2>1. items[n] = ItemAt(text, from, Nth(S, n), owner)
    BY <1>4
  <2> QED
    BY <1>3, <2>1, ItemTyped
<1>6. items \in [1..Cardinality(S) -> Items]
  BY <1>4, <1>5
<1>7. items \in Seq(Items)
  BY <1>2, <1>6, SeqDef
<1>8. DOMAIN items = 1..Cardinality(S)
  BY <1>4
<1> QED
  BY <1>5, <1>7, <1>8 DEF items

-----------------------------------------------------------------------------
(* Merges. *)

(* A session that has parsed: its texts are numbered, its items are of     *)
(* texts that it retains, and it retains no more than the limit and one.   *)
SessionOK(session) ==
  /\ session.ready = TRUE
  /\ session.items \in Seq(Items)
  /\ \E k \in 1..MaxOwners + 1 : session.owners = 1..k
  /\ \A n \in DOMAIN session.items : session.items[n].owner \in session.owners

(* A full parse gives such a session, with one text. *)
LEMMA RebuiltOK ==
  ASSUME NEW text \in Seq(Cells)
  PROVE  SessionOK(FullRebuild(text).session)
<1> DEFINE s == FullRebuild(text).session
<1>1. s = [ready |-> TRUE, items |-> ParseItems(text, 1, 1), owners |-> {1}]
  BY DEF FullRebuild
<1>2. s.items \in Seq(Items) /\ \A n \in DOMAIN s.items : s.items[n].owner = 1
  <2>1. s.items = ParseItems(text, 1, 1) /\ 1 \in Nat \ {0} /\ 1 \in Nat
    BY <1>1
  <2>2. /\ ParseItems(text, 1, 1) \in Seq(Items)
        /\ \A n \in DOMAIN ParseItems(text, 1, 1) : ParseItems(text, 1, 1)[n].owner = 1
    BY <2>1, ParsedTyped
  <2> HIDE DEF s
  <2> QED
    BY <2>1, <2>2
<1>3. s.owners = 1..1 /\ 1 \in 1..MaxOwners + 1
  BY <1>1, MaxOwnersAssumption
<1> QED
  BY <1>1, <1>2, <1>3 DEF SessionOK

(* An edit has a place. *)
LEMMA WindowTyped ==
  ASSUME NEW edits \in Seq(Windows), NEW i \in DOMAIN edits
  PROVE  edits[i].lo \in Nat
<1>1. edits[i] \in Windows
  OBVIOUS
<1> QED
  BY <1>1 DEF Windows

(* The earliest edit is one of the edits. *)
LEMMA EarliestIs ==
  ASSUME NEW edits \in Seq(Windows), edits # <<>>
  PROVE  \E i \in DOMAIN edits : EarliestEditLo(edits) = edits[i].lo
<1> DEFINE los == {edits[i].lo : i \in DOMAIN edits}
<1>1. los \subseteq Nat /\ los # {}
  <2>1. \A i \in DOMAIN edits : edits[i].lo \in Nat
    BY WindowTyped
  <2>2. 1 \in DOMAIN edits
    OBVIOUS
  <2> QED
    BY <2>1, <2>2
<1>2. \E lo \in los : \A other \in los : lo <= other
  <2> HIDE DEF los
  <2> QED
    BY <1>1, LeastNumber
<1>3. EarliestEditLo(edits) \in los
  BY <1>2 DEF EarliestEditLo
<1> QED
  BY <1>3

(* The first affected item is an item. *)
LEMMA AffectedIs ==
  ASSUME NEW items \in Seq(Items), items # <<>>, NEW edits
  PROVE  FirstAffected(items, edits) \in 1..Len(items)
<1> DEFINE lo == EarliestEditLo(edits)
           touched == {i \in 1..Len(items) : lo <= items[i].hi}
           find == FindFirstAffectedItem(items, lo)
<1>1. Len(items) \in Nat /\ Len(items) >= 1
  OBVIOUS
<1>2. find = IF touched = {} THEN Len(items) + 1
             ELSE CHOOSE i \in touched : \A j \in touched : i <= j
  BY DEF FindFirstAffectedItem
<1>3. CASE touched = {}
  BY <1>1, <1>2, <1>3 DEF FirstAffected
<1>4. CASE touched # {}
  <2>1. touched \subseteq Nat /\ touched \subseteq 1..Len(items)
    OBVIOUS
  <2>2. \E i \in touched : \A j \in touched : i <= j
    <3> HIDE DEF touched
    <3> QED
      BY <1>4, <2>1, LeastNumber
  <2>3. find \in touched
    <3> HIDE DEF touched
    <3> QED
      BY <1>2, <1>4, <2>2
  <2>4. find \in 1..Len(items)
    BY <2>1, <2>3
  <2>5. FirstAffected(items, edits) = IF find > Len(items) THEN Len(items) ELSE find
    BY DEF FirstAffected
  <2> HIDE DEF find
  <2> QED
    BY <1>1, <2>4, <2>5
<1> QED
  BY <1>3, <1>4

(* A merge parses from the first affected item, for all edits are behind   *)
(* its first byte.                                                         *)
LEMMA MergeFrom ==
  ASSUME NEW session, SessionOK(session), NEW edits \in Seq(Windows), edits # <<>>,
         CanMerge(session, edits)
  PROVE  LET first == FirstAffected(session.items, edits) IN
         /\ first \in 1..Len(session.items)
         /\ session.items[first] \in Items
         /\ \A i \in DOMAIN edits : edits[i].lo > session.items[first].lo
         /\ ParseFrom(session, edits) = session.items[first].lo \div 2
<1> DEFINE items == session.items
           first == FirstAffected(items, edits)
<1>1. items \in Seq(Items) /\ items # <<>>
  BY DEF SessionOK, CanMerge
<1>2. first \in 1..Len(items)
  BY <1>1, AffectedIs
<1>3. items[first] \in Items
  BY <1>1, <1>2
<1>4. ASSUME NEW i \in DOMAIN edits PROVE edits[i].lo > items[first].lo
  <2>1. ~(edits[i].lo <= items[first].lo)
    BY DEF CanMerge, ShouldForceFullRebuild
  <2>2. edits[i].lo \in Nat /\ items[first].lo \in Nat
    BY <1>3, WindowTyped DEF Items
  <2> QED
    BY <2>1, <2>2
<1>5. items[first].lo <= EarliestEditLo(edits)
  <2>1. PICK i \in DOMAIN edits : EarliestEditLo(edits) = edits[i].lo
    BY EarliestIs
  <2>2. edits[i].lo \in Nat /\ items[first].lo \in Nat
    BY <1>3, WindowTyped DEF Items
  <2> QED
    BY <1>4, <2>1, <2>2
<1>6. ParseFrom(session, edits) = items[first].lo \div 2
  BY <1>5 DEF ParseFrom
<1> QED
  BY <1>2, <1>3, <1>4, <1>6

(* Whatever the merge keeps and parses, the session is one again. *)
LEMMA MergedOK ==
  ASSUME NEW session, SessionOK(session), NEW text \in Seq(Cells),
         NEW edits \in Seq(Windows), edits # <<>>, CanMerge(session, edits)
  PROVE  SessionOK(IncrementalMerge(session, text, edits).session)
<1> DEFINE items == session.items
           first == FirstAffected(items, edits)
           from == ParseFrom(session, edits)
           owner == Cardinality(session.owners) + 1
           kept == KeptItems(session, edits)
           new == ParseItems(text, from, owner)
           s == IncrementalMerge(session, text, edits).session
<1>1. items \in Seq(Items) /\ first \in 1..Len(items)
  BY MergeFrom DEF SessionOK
<1>2. from \in Nat \ {0}
  <2>1. items[first] \in Items /\ from = items[first].lo \div 2
    BY MergeFrom
  <2>2. items[first].lo \in Nat /\ items[first].lo >= 2
    BY <2>1 DEF Items
  <2> QED
    BY <2>1, <2>2
<1>3. PICK k \in 1..MaxOwners + 1 : session.owners = 1..k
  BY DEF SessionOK
<1>4. owner = k + 1 /\ k + 1 \in 1..MaxOwners + 1
  <2>1. Cardinality(session.owners) = k
    BY <1>3, FS_Interval, MaxOwnersAssumption
  <2>2. k <= MaxOwners
    BY <2>1 DEF CanMerge
  <2> QED
    BY <2>1, <2>2, MaxOwnersAssumption
<1>5. new \in Seq(Items) /\ \A n \in DOMAIN new : new[n].owner = k + 1
  <2>1. owner \in Nat
    BY <1>4
  <2> HIDE DEF owner, from
  <2>2. ParseItems(text, from, owner) \in Seq(Items)
    BY <1>2, <2>1, ParsedTyped
  <2>3. \A n \in DOMAIN ParseItems(text, from, owner) : ParseItems(text, from, owner)[n].owner = owner
    BY <1>2, <2>1, ParsedTyped
  <2> QED
    BY <1>4, <2>2, <2>3
<1>6. kept \in Seq(Items) /\ Len(kept) = first - 1 /\ \A n \in 1..first - 1 : kept[n] = items[n]
  <2>1. kept = SubSeq(items, 1, first - 1)
    BY DEF KeptItems
  <2>2. \A i \in 1..first - 1 : items[i] \in Items
    BY <1>1
  <2> HIDE DEF items, first, kept
  <2> QED
    BY <1>1, <2>1, <2>2, SubSeqProperties
<1>7. s = [ready |-> TRUE, items |-> kept \o new, owners |-> session.owners \cup {owner}]
  BY DEF IncrementalMerge, MergedOwners
<1>8. s.owners = 1..k + 1
  BY <1>3, <1>4, <1>7
<1> HIDE DEF new, kept, s, items, first, from, owner
<1>9. ASSUME NEW n \in DOMAIN s.items PROVE s.items[n].owner \in 1..k + 1
  <2>1. s.items = kept \o new
    BY <1>7
  <2>2. n \in 1..Len(kept) + Len(new)
    BY <1>5, <1>6, <2>1
  <2>3. CASE n <= Len(kept)
    <3>1. s.items[n] = kept[n] /\ n \in 1..first - 1
      BY <1>1, <1>5, <1>6, <2>1, <2>2, <2>3
    <3>2. s.items[n] = items[n] /\ n \in DOMAIN items
      BY <1>1, <1>6, <3>1
    <3>3. items[n].owner \in 1..k
      BY <1>3, <3>2 DEF SessionOK, items
    <3> QED
      BY <3>2, <3>3
  <2>4. CASE ~(n <= Len(kept))
    <3>1. s.items[n] = new[n - Len(kept)] /\ n - Len(kept) \in DOMAIN new
      BY <1>5, <1>6, <2>1, <2>2, <2>4
    <3> QED
      BY <1>5, <3>1
  <2> QED
    BY <2>3, <2>4
<1>10. s.items \in Seq(Items)
  BY <1>5, <1>6, <1>7
<1>11. SessionOK(s)
  BY <1>4, <1>7, <1>8, <1>9, <1>10 DEF SessionOK
<1> QED
  BY <1>11 DEF s

(* Whatever the edits, after reparse_with_edits every item is of a source  *)
(* text that the session retains, and it retains no more than the          *)
(* compaction limit and one (source_owners_).                              *)
THEOREM ReparsedOK ==
  ASSUME NEW session, SessionOK(session), NEW text \in Seq(Cells), NEW edits \in Seq(Windows)
  PROVE  SessionOK(ReparseWithEdits(session, text, edits).session)
<1>1. CASE edits # <<>> /\ CanMerge(session, edits)
  <2>1. ReparseWithEdits(session, text, edits) = IncrementalMerge(session, text, edits)
    BY <1>1 DEF ReparseWithEdits, SessionOK
  <2> QED
    BY <1>1, <2>1, MergedOK
<1>2. CASE ~(edits # <<>> /\ CanMerge(session, edits))
  <2>1. ReparseWithEdits(session, text, edits) = FullRebuild(text)
    BY <1>2 DEF ReparseWithEdits
  <2> QED
    BY <2>1, RebuiltOK
<1> QED
  BY <1>1, <1>2

-----------------------------------------------------------------------------
(* Separate cells. *)

ItemOfCell(text, i, owner) ==
  [lo |-> 2 * i, hi |-> 2 * i + 1, cells |-> <<text[i]>>, core |-> FALSE, owner |-> owner]

(* Every cell is parsed as an item, wherever parsing starts. *)
LEMMA ParsedSeparate ==
  ASSUME NEW C, C \subseteq Cells, Separate(C), NEW text \in Seq(C),
         NEW from \in 1..Len(text) + 1, NEW owner
  PROVE  LET items == ParseItems(text, from, owner) IN
         /\ DOMAIN items = 1..Len(text) - from + 1
         /\ \A n \in DOMAIN items : items[n] = ItemOfCell(text, from + n - 1, owner)
<1> DEFINE len == Len(text)
           items == ParseItems(text, from, owner)
<1>1. len \in Nat /\ \A i \in 1..len : text[i] \in C
  OBVIOUS
<1>2. ASSUME NEW i \in from..len PROVE ~Swallowed(text, from, i)
  <2> SUFFICES ASSUME Swallowed(text, from, i) PROVE FALSE
    OBVIOUS
  <2>1. i - 1 \in 1..len /\ text[i - 1].k = "open" /\ text[i].k = "word"
    BY <1>1 DEF Swallowed, StartsStmt
  <2>2. text[i - 1] \in C /\ text[i] \in C
    BY <1>1, <2>1
  <2> QED
    BY <2>1, <2>2 DEF Separate
<1>3. CoreMode(text, from) = FALSE
  <2> SUFFICES ASSUME CoreMode(text, from) PROVE FALSE
    BY DEF CoreMode
  <2>1. from \in 1..len /\ text[from].k = "marker"
    BY <1>1 DEF CoreMode
  <2>2. text[from] \in C
    BY <1>1, <2>1
  <2> QED
    BY <2>1, <2>2 DEF Separate
<1>4. Starts(text, from) = from..len
  BY <1>2 DEF Starts
<1>5. Cardinality(from..len) = len - from + 1
  <2>1. from \in Int /\ len \in Int
    BY <1>1
  <2> HIDE DEF len
  <2>2. Cardinality(from..len) = IF from > len THEN 0 ELSE len - from + 1
    BY <2>1, FS_Interval
  <2>3. from <= len + 1
    BY <1>1 DEF len
  <2> QED
    BY <2>1, <2>2, <2>3
<1>6. items = [n \in 1..len - from + 1 |-> ItemAt(text, from, Nth(from..len, n), owner)]
  BY <1>4, <1>5 DEF ParseItems
<1>7. ASSUME NEW n \in 1..len - from + 1
      PROVE  ItemAt(text, from, Nth(from..len, n), owner) = ItemOfCell(text, from + n - 1, owner)
  <2> DEFINE i == from + n - 1
  <2>1. Nth(from..len, n) = i
    BY <1>1, <1>5, NthOfInterval
  <2>2. i \in from..len /\ i \in 1..len
    BY <1>1
  <2>3. i < len => ~Swallowed(text, from, i + 1)
    BY <1>1, <1>2, <2>2
  <2> HIDE DEF i, len
  <2>4. SubSeq(text, i, i) = <<text[i]>>
    <3>1. i \in Int /\ \A j \in i..i : text[j] \in C
      BY <1>1, <2>2
    <3>2. /\ SubSeq(text, i, i) \in Seq(C)
          /\ Len(SubSeq(text, i, i)) = IF i <= i THEN i - i + 1 ELSE 0
          /\ \A j \in 1..i - i + 1 : SubSeq(text, i, i)[j] = text[i + j - 1]
      BY <3>1, SubSeqProperties
    <3>3. Len(SubSeq(text, i, i)) = 1 /\ SubSeq(text, i, i)[1] = text[i]
      BY <3>1, <3>2
    <3>4. <<text[i]>> \in Seq(C) /\ Len(<<text[i]>>) = 1 /\ <<text[i]>>[1] = text[i]
      BY <1>1, <2>2
    <3>5. \A j \in 1..Len(SubSeq(text, i, i)) : SubSeq(text, i, i)[j] = <<text[i]>>[j]
      <4>1. \A j \in 1..1 : j = 1
        OBVIOUS
      <4> QED
        BY <3>3, <3>4, <4>1, Zenon
    <3> QED
      BY <3>2, <3>3, <3>4, <3>5, SeqEqual
  <2>5. ItemAt(text, from, i, owner) =
          [lo |-> 2 * i, hi |-> 2 * i + 1, cells |-> SubSeq(text, i, i), core |-> FALSE,
           owner |-> owner]
    BY <1>3, <2>3 DEF ItemAt, len
  <2> QED
    BY <2>1, <2>4, <2>5 DEF ItemOfCell, i
<1> QED
  BY <1>6, <1>7

(* The items of a session are those of the cells of a text. *)
ItemsAre(session, text) ==
  /\ DOMAIN session.items = 1..Len(text)
  /\ \A n \in 1..Len(text) :
       session.items[n] = ItemOfCell(text, n, session.items[n].owner)

(* A full parse gives them. *)
LEMMA RebuiltCurrent ==
  ASSUME NEW C, C \subseteq Cells, Separate(C), NEW text \in Seq(C)
  PROVE  ItemsAre(FullRebuild(text).session, text)
<1> DEFINE items == ParseItems(text, 1, 1)
<1>1. FullRebuild(text).session.items = items
  BY DEF FullRebuild
<1>2. Len(text) \in Nat /\ 1 \in 1..Len(text) + 1
  OBVIOUS
<1>3. DOMAIN items = 1..Len(text) - 1 + 1 /\ \A n \in DOMAIN items : items[n] = ItemOfCell(text, 1 + n - 1, 1)
  BY <1>2, ParsedSeparate
<1> HIDE DEF items
<1>4. DOMAIN items = 1..Len(text)
  BY <1>2, <1>3
<1>5. ASSUME NEW n \in 1..Len(text) PROVE items[n] = ItemOfCell(text, n, items[n].owner)
  <2>1. items[n] = ItemOfCell(text, n, 1)
    BY <1>2, <1>3, <1>4
  <2> QED
    BY <2>1 DEF ItemOfCell
<1> QED
  BY <1>1, <1>4, <1>5 DEF ItemsAre

(* What a merge keeps is unchanged and what it parses is the rest. *)
LEMMA MergedCurrent ==
  ASSUME NEW C, C \subseteq Cells, Separate(C), NEW session, SessionOK(session),
         NEW old \in Seq(C), ItemsAre(session, old), NEW text \in Seq(C),
         NEW edits \in Seq(Windows), edits # <<>>, SameBefore(edits, old, text),
         CanMerge(session, edits)
  PROVE  ItemsAre(IncrementalMerge(session, text, edits).session, text)
<1> DEFINE items == session.items
           first == FirstAffected(items, edits)
           from == ParseFrom(session, edits)
           owner == Cardinality(session.owners) + 1
           kept == KeptItems(session, edits)
           new == ParseItems(text, from, owner)
           result == IncrementalMerge(session, text, edits).session.items
<1>1. /\ items \in Seq(Items) /\ first \in 1..Len(items)
      /\ \A i \in DOMAIN edits : edits[i].lo > items[first].lo
      /\ from = items[first].lo \div 2
  BY MergeFrom DEF SessionOK
<1>2. Len(items) = Len(old) /\ Len(old) \in Nat /\ Len(text) \in Nat
  BY <1>1 DEF ItemsAre
<1>3. items[first].lo = 2 * first
  <2>1. first \in 1..Len(old)
    BY <1>1, <1>2
  <2> HIDE DEF first, items
  <2>2. items[first] = ItemOfCell(old, first, items[first].owner)
    BY <2>1 DEF ItemsAre, items
  <2> QED
    BY <2>2 DEF ItemOfCell
<1>4. from = first
  BY <1>1, <1>2, <1>3
<1>5. first - 1 <= Len(text) /\ \A j \in 1..first - 1 : text[j] = old[j]
  <2>1. \A i \in DOMAIN edits : edits[i].lo > 2 * first
    BY <1>1, <1>3
  <2>2. first \in 1..Len(old) + 1
    BY <1>1, <1>2
  <2> HIDE DEF first
  <2> QED
    BY <2>1, <2>2 DEF SameBefore
<1>6. kept \in Seq(Items) /\ Len(kept) = first - 1 /\ \A n \in 1..first - 1 : kept[n] = items[n]
  <2>1. kept = SubSeq(items, 1, first - 1)
    BY DEF KeptItems
  <2>2. \A i \in 1..first - 1 : items[i] \in Items
    BY <1>1
  <2> HIDE DEF items, first, kept
  <2> QED
    BY <1>1, <2>1, <2>2, SubSeqProperties
<1>7. /\ DOMAIN new = 1..Len(text) - first + 1
      /\ \A n \in DOMAIN new : new[n] = ItemOfCell(text, first + n - 1, owner)
  <2>1. first \in 1..Len(text) + 1
    BY <1>1, <1>2, <1>5
  <2> HIDE DEF owner, first, from
  <2>2. /\ DOMAIN ParseItems(text, first, owner) = 1..Len(text) - first + 1
        /\ \A n \in DOMAIN ParseItems(text, first, owner) :
             ParseItems(text, first, owner)[n] = ItemOfCell(text, first + n - 1, owner)
    BY <2>1, ParsedSeparate
  <2> QED
    BY <1>4, <2>2
<1>8. result = kept \o new
  BY DEF IncrementalMerge
<1>9. new \in Seq(Items)
  <2>1. PICK k \in 1..MaxOwners + 1 : session.owners = 1..k
    BY DEF SessionOK
  <2>2. owner \in Nat
    <3>1. Cardinality(1..k) \in Nat
      <4>1. k \in Int
        BY MaxOwnersAssumption
      <4> QED
        BY <4>1, FS_Interval, FS_CardinalityType
    <3> QED
      BY <2>1, <3>1
  <2>3. text \in Seq(Cells) /\ from \in Nat \ {0}
    <3>1. first \in Nat \ {0}
      BY <1>1, <1>2
    <3> QED
      BY <1>4, <3>1, SeqMonotonic
  <2> HIDE DEF owner, from, new
  <2>4. ParseItems(text, from, owner) \in Seq(Items)
    BY <2>2, <2>3, ParsedTyped
  <2> QED
    BY <2>4 DEF new
<1> HIDE DEF items, first, from, owner, kept, new, result
<1>10. Len(new) = Len(text) - first + 1 /\ first \in Nat
  <2>1. first \in Nat /\ Len(text) - first + 1 \in Nat
    BY <1>1, <1>2, <1>5
  <2>2. Len(new) \in Nat /\ DOMAIN new = 1..Len(new)
    BY <1>9
  <2>3. 1..Len(new) = 1..Len(text) - first + 1
    BY <1>7, <2>2
  <2> QED
    BY <2>1, <2>2, <2>3
<1>11. result \in Seq(Items) /\ Len(result) = Len(text) /\ DOMAIN result = 1..Len(text)
  <2>1. result \in Seq(Items) /\ Len(result) = Len(kept) + Len(new)
    BY <1>6, <1>8, <1>9, ConcatProperties
  <2> QED
    BY <1>1, <1>2, <1>6, <1>10, <2>1
<1>12. ASSUME NEW n \in 1..Len(text) PROVE result[n] = ItemOfCell(text, n, result[n].owner)
  <2>1. n \in 1..Len(kept) + Len(new)
    BY <1>1, <1>2, <1>6, <1>10
  <2>2. result[n] = IF n <= Len(kept) THEN kept[n] ELSE new[n - Len(kept)]
    BY <1>6, <1>8, <1>9, <2>1, ConcatProperties
  <2>3. CASE n <= Len(kept)
    <3>1. n \in 1..first - 1 /\ n \in 1..Len(old)
      BY <1>1, <1>2, <1>6, <2>3
    <3>2. result[n] = items[n] /\ text[n] = old[n]
      BY <1>5, <1>6, <2>2, <2>3, <3>1
    <3>3. items[n] = ItemOfCell(old, n, items[n].owner)
      BY <3>1 DEF ItemsAre, items
    <3> QED
      BY <3>2, <3>3 DEF ItemOfCell
  <2>4. CASE ~(n <= Len(kept))
    <3>1. n - (first - 1) \in DOMAIN new /\ first + (n - (first - 1)) - 1 = n
      <4>1. first \in Nat /\ n \in Nat /\ n <= Len(text) /\ Len(kept) = first - 1
        BY <1>2, <1>6, <1>10
      <4>2. n - (first - 1) \in 1..Len(text) - first + 1
        BY <1>2, <2>4, <4>1
      <4> QED
        BY <1>7, <4>1, <4>2
    <3>2. result[n] = new[n - (first - 1)]
      BY <1>6, <2>2, <2>4
    <3>3. result[n] = ItemOfCell(text, n, owner)
      BY <1>7, <3>1, <3>2
    <3> QED
      BY <3>3 DEF ItemOfCell
  <2> QED
    BY <2>3, <2>4
<1> QED
  BY <1>11, <1>12 DEF ItemsAre, result

(* Where no cell changes how another one is parsed and the texts are the   *)
(* same before the first edit, the items after reparse_with_edits, kept or *)
(* parsed again, are those of the whole new text (try_incremental_merge_). *)
THEOREM ReparsedCurrent ==
  ASSUME NEW C, C \subseteq Cells, Separate(C), NEW session, SessionOK(session),
         NEW old \in Seq(C), ItemsAre(session, old), NEW text \in Seq(C),
         NEW edits \in Seq(Windows), SameBefore(edits, old, text)
  PROVE  ItemsAre(ReparseWithEdits(session, text, edits).session, text)
<1>1. CASE edits # <<>> /\ CanMerge(session, edits)
  <2>1. ReparseWithEdits(session, text, edits) = IncrementalMerge(session, text, edits)
    BY <1>1 DEF ReparseWithEdits, SessionOK
  <2> QED
    BY <1>1, <2>1, MergedCurrent
<1>2. CASE ~(edits # <<>> /\ CanMerge(session, edits))
  <2>1. ReparseWithEdits(session, text, edits) = FullRebuild(text)
    BY <1>2 DEF ReparseWithEdits
  <2> QED
    BY <2>1, RebuiltCurrent
<1> QED
  BY <1>1, <1>2
=============================================================================
