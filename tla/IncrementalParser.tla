-------------------------- MODULE IncrementalParser --------------------------
(***************************************************************************)
(* The incremental parser session of the front end                         *)
(* (src/frontend/src/parse/common/incremental_parse.cpp): a snapshot of    *)
(* the top-level items of a document, brought up to date after an edit     *)
(* either by parsing the document again or by keeping the items before the *)
(* first one the edit can touch and parsing from there.                    *)
(*                                                                         *)
(* A document is a sequence of CELLS, one per top-level construct.  A cell *)
(* is a record [k, v]: v tells one wording from another, k is what the     *)
(* parser makes of it:                                                     *)
(*   decl    a complete item                                               *)
(*   bad     a complete item with a syntax error inside                    *)
(*   risky   a complete item of a kind the merge never starts from         *)
(*   open    a statement whose `;' is missing                              *)
(*   word    a complete expression statement, `name;', whose first token   *)
(*           starts no declaration and no statement keyword                *)
(*   marker  the directive $![Impl::Core];                                 *)
(*   use     `use Name;', legal only in a file with the marker on top      *)
(*                                                                         *)
(* A byte offset is abstracted to a POSITION: 2i is the first byte of cell *)
(* i, 2i+1 any later byte of it, so that comparing positions gives what    *)
(* comparing offsets gives.                                                *)
(***************************************************************************)
EXTENDS Integers, FiniteSets, Sequences, SequencesExt

CONSTANT
    \* How many source texts a session may retain and still merge (16).
    MaxOwners

ASSUME MaxOwnersAssumption == MaxOwners \in Nat \ {0}

CellKinds == {"decl", "bad", "risky", "open", "word", "marker", "use"}
Cells == [k : CellKinds, v : Nat]

-----------------------------------------------------------------------------
(* The parser, run on the cells of a text from cell `from' to its end.     *)

\* The first token of the cell is a boundary at which the recovery of a
\* missing `;' stops.
StartsStmt(cell) == cell.k # "word"

\* Cell i belongs to the statement before it: recovery skipped to its `;'.
Swallowed(text, from, i) ==
    /\ i > from
    /\ text[i - 1].k = "open"
    /\ ~StartsStmt(text[i])

\* The mode is decided by the first statement this call of parse_program sees.
CoreMode(text, from) == from <= Len(text) /\ text[from].k = "marker"

\* The statement that starts at cell i.  Its AST holds views into the source
\* text it was parsed from, named by owner.
ItemAt(text, from, i, owner) ==
    LET last == IF i < Len(text) /\ Swallowed(text, from, i + 1) THEN i + 1 ELSE i
    IN  [lo    |-> 2 * i,
         hi    |-> 2 * last + 1,
         cells |-> SubSeq(text, i, last),
         core  |-> CoreMode(text, from),
         owner |-> owner]

\* Where the top-level statements start, and the n-th of these cells.
Starts(text, from) == {i \in from..Len(text) : ~Swallowed(text, from, i)}
Nth(cells, n) == CHOOSE i \in cells : Cardinality({j \in cells : j <= i}) = n

\* The top-level statements, in order: collect_top_items_ of parse_program.
ParseItems(text, from, owner) ==
    LET starts == Starts(text, from)
    IN  [n \in 1..Cardinality(starts) |-> ItemAt(text, from, Nth(starts, n), owner)]

\* The cells at which that call reports an error.
ParseErrors(text, from) ==
    {i \in Starts(text, from) :
        \/ text[i].k \in {"bad", "open"}
        \/ text[i].k = "marker" /\ i # from
        \/ text[i].k = "use" /\ ~CoreMode(text, from)}

-----------------------------------------------------------------------------
(* The session: its top items and the source texts it retains.  An edit    *)
(* window is [lo: position of its first byte, near: whether one of the     *)
(* bytes around it, in the old or the new text, is a bracket, separator or *)
(* line end].                                                              *)

NoSession == [ready |-> FALSE, items |-> <<>>, owners |-> {}]

FullRebuild(text) ==
    [session |-> [ready |-> TRUE, items |-> ParseItems(text, 1, 1), owners |-> {1}],
     errs    |-> ParseErrors(text, 1),
     merged  |-> FALSE]

EarliestEditLo(edits) ==
    LET los == {edits[i].lo : i \in DOMAIN edits}
    IN  CHOOSE lo \in los : \A other \in los : lo <= other

\* Index of the first item that ends at or after the edit; one past the last
\* item when the edit lies behind them all.
FindFirstAffectedItem(items, lo) ==
    LET touched == {i \in 1..Len(items) : lo <= items[i].hi}
    IN  IF touched = {} THEN Len(items) + 1
        ELSE CHOOSE i \in touched : \A j \in touched : i <= j

\* Parsing starts with this item.  The test of `first == 0' comes before the
\* one that moves an edit behind the last item onto it.
FirstAffected(items, edits) ==
    LET first == FindFirstAffectedItem(items, EarliestEditLo(edits))
    IN  IF first > Len(items) THEN Len(items) ELSE first

IsRiskyTopLevelKind(item) == item.cells[1].k = "risky"

ShouldForceFullRebuild(items, edits, first) ==
    \/ IsRiskyTopLevelKind(items[first])
    \/ \E i \in DOMAIN edits : edits[i].lo <= items[first].lo \/ edits[i].near

\* Wrong variant: any number of source texts is retained.
CanMerge_Uncompacted(session, edits) ==
    LET items == session.items
    IN  /\ items # <<>>
        /\ FindFirstAffectedItem(items, EarliestEditLo(edits)) # 1
        /\ ~ShouldForceFullRebuild(items, edits, FirstAffected(items, edits))

\* Whether try_incremental_merge_ accepts the edits.
CanMerge(session, edits) ==
    LET items == session.items
    IN  /\ Cardinality(session.owners) <= MaxOwners
        /\ items # <<>>
        /\ FindFirstAffectedItem(items, EarliestEditLo(edits)) # 1
        /\ ~ShouldForceFullRebuild(items, edits, FirstAffected(items, edits))

\* The cell from which the merge parses: that of the first token at or after
\* the item's and the edit's first byte.
ParseFrom(session, edits) ==
    LET lo       == session.items[FirstAffected(session.items, edits)].lo
        earliest == EarliestEditLo(edits)
    IN  (IF lo <= earliest THEN lo ELSE earliest + 1) \div 2

\* Wrong variant: the item the edit lies in is kept and parsed again.
KeptItems_OneMore(session, edits) ==
    SubSeq(session.items, 1, FirstAffected(session.items, edits))

\* The items before the first affected one.
KeptItems(session, edits) ==
    SubSeq(session.items, 1, FirstAffected(session.items, edits) - 1)

\* Wrong variant: only the newest text is retained.
MergedOwners_NewestOnly(session, owner) == {owner}

\* The texts retained after a merge: all the old ones and the new one.
MergedOwners(session, owner) == session.owners \cup {owner}

IncrementalMerge(session, text, edits) ==
    LET from  == ParseFrom(session, edits)
        owner == Cardinality(session.owners) + 1
    IN  [session |-> [ready  |-> TRUE,
                      items  |-> KeptItems(session, edits)
                                     \o ParseItems(text, from, owner),
                      owners |-> MergedOwners(session, owner)],
         errs    |-> ParseErrors(text, from),
         merged  |-> TRUE]

ReparseWithEdits(session, text, edits) ==
    IF session.ready /\ edits # <<>> /\ CanMerge(session, edits)
    THEN IncrementalMerge(session, text, edits)
    ELSE FullRebuild(text)

-----------------------------------------------------------------------------
(* What the incremental parser relies on.                                  *)

\* Cells of which none changes how another one is parsed.
Separate(cells) ==
    /\ \A cell \in cells : cell.k # "marker"
    /\ (\A cell \in cells : cell.k # "open") \/ (\A cell \in cells : cell.k # "word")

\* Before the first edit the two texts are the same.
SameBefore(edits, old, new) ==
    \A c \in 1..Len(old) + 1 :
        (\A i \in DOMAIN edits : edits[i].lo > 2 * c) =>
            c - 1 <= Len(new) /\ \A j \in 1..c - 1 : new[j] = old[j]
=============================================================================
