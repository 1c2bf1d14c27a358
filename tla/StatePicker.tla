----------------------------- MODULE StatePicker -----------------------------
(***************************************************************************)
(* StateCollectionViewController: the searchable grid of states.           *)
(*                                                                         *)
(* The collection view asks its data source for the number of items only   *)
(* when it reloads, and for a cell only when that cell scrolls into view.  *)
(* It keeps both answers (count, cells) until the next reload, while the   *)
(* controller's own isFiltering and filteredStates may already have moved  *)
(* on.  A tap is resolved by the row number against the latter.            *)
(***************************************************************************)
EXTENDS Naturals, Sequences

CONSTANTS
    States,             \* the states of StateGetter
    StateList,          \* StateGetter().states, in the order of their titles
    Texts,              \* what may be typed in the search bar
    Empty,              \* the empty text
    Matches,            \* the states whose title or abbreviation a text begins
    Nil

ASSUME PickerAssumption ==
    /\ StateList \in Seq(States)
    /\ Empty \in Texts
    /\ Matches \in [Texts -> SUBSET States]
    /\ Nil \notin States

VARIABLES
    text,               \* the search bar's text
    isFiltering,
    filteredStates,
    count,              \* items in section 1, as of the last reload
    cells,              \* the state each item's cell shows, Nil before it is built
    picked,             \* the tapped cell's state and selectedState, Nil before
    trapped,            \* an index past the end of an array
    cancelButton        \* whether the search bar shows one (not in Home.storyboard)

vars == <<text, isFiltering, filteredStates, count, cells, picked, trapped, cancelButton>>

\* The array that the data source and didSelectItemAt read.
Source(filtering, filtered) == IF filtering THEN filtered ELSE StateList

FilterStates(t) == SelectSeq(StateList, LAMBDA s : s \in Matches[t])

\* What SelectSeq, and filter in the code, does to the length of a list.
FilterShortens == \A t \in Texts : Len(FilterStates(t)) \in 0 .. Len(StateList)

Reload_Skipped(filtering, filtered) == UNCHANGED <<count, cells>>

Reload_CellsKept(filtering, filtered) ==
    /\ count' = Len(Source(filtering, filtered))
    /\ UNCHANGED cells

\* reloadSections: the items are counted again and no cell is kept.
Reload(filtering, filtered) ==
    /\ count' = Len(Source(filtering, filtered))
    /\ cells' = [i \in 1 .. count' |-> Nil]

Init ==
    /\ text = Empty
    /\ isFiltering = FALSE
    /\ filteredStates = <<>>
    /\ count = Len(StateList)
    /\ cells = [i \in 1 .. count |-> Nil]
    /\ picked = Nil
    /\ trapped = FALSE
    /\ cancelButton \in BOOLEAN

Open == picked = Nil /\ ~trapped

FlagAtReload_Old(t) == isFiltering

\* isFiltering is set first: assigning filteredStates reloads, through didSet.
FlagAtReload(t) == t # Empty

TextDidChange(t) ==
    /\ Open
    /\ t # text
    /\ text' = t
    /\ isFiltering' = (t # Empty)
    /\ filteredStates' = FilterStates(t)
    /\ Reload(FlagAtReload(t), filteredStates')
    /\ UNCHANGED <<picked, trapped, cancelButton>>

\* The flag is lowered, and nothing is reloaded.
SearchBarCancelButtonClicked ==
    /\ Open
    /\ cancelButton
    /\ isFiltering' = FALSE
    /\ UNCHANGED <<text, filteredStates, count, cells, picked, trapped, cancelButton>>

\* An item scrolls into view.
CellForItemAt(i) ==
    LET source == Source(isFiltering, filteredStates)
    IN  /\ Open
        /\ cells[i] = Nil
        /\ trapped' = (i > Len(source))
        /\ cells' = [cells EXCEPT ![i] = IF i > Len(source) THEN Nil ELSE source[i]]
        /\ UNCHANGED <<text, isFiltering, filteredStates, count, picked, cancelButton>>

\* A cell in view is tapped; the app goes on to Home and never comes back.
DidSelectItemAt(i) ==
    LET source == Source(isFiltering, filteredStates)
    IN  /\ Open
        /\ cells[i] # Nil
        /\ trapped' = (i > Len(source))
        /\ picked' = IF i > Len(source) THEN Nil
                     ELSE [cell |-> cells[i], selectedState |-> source[i]]
        /\ UNCHANGED <<text, isFiltering, filteredStates, count, cells, cancelButton>>

Next ==
    \/ \E t \in Texts : TextDidChange(t)
    \/ SearchBarCancelButtonClicked
    \/ \E i \in 1 .. count : CellForItemAt(i) \/ DidSelectItemAt(i)

Spec == Init /\ [][Next]_vars

-----------------------------------------------------------------------------

TypeOK ==
    /\ text \in Texts
    /\ isFiltering \in BOOLEAN
    /\ filteredStates \in Seq(States)
    /\ count \in Nat
    /\ cells \in [1 .. count -> States \cup {Nil}]
    /\ picked \in {Nil} \cup [cell : States, selectedState : States]
    /\ trapped \in BOOLEAN
    /\ cancelButton \in BOOLEAN

\* The state that didSelectItemAt looks up by row is the state whose cell was
\* tapped, whatever was typed and scrolled between building the cell and the tap,
\* in a search bar without a cancel button.
TapPicksShownCell ==
    picked # Nil /\ ~cancelButton => picked.selectedState = picked.cell

\* Neither building a cell nor a tap reads past the end of an array, not even
\* after the cancel button, which lowers isFiltering without a reload.
PickerNeverTraps == ~trapped
=============================================================================
