----------------------------- MODULE ScreensProofs ---------------------------
(***************************************************************************)
(* The state picker: the row a tap resolves is the row the user sees, for  *)
(* any list of states and any searches, as long as the search bar has no   *)
(* cancel button; with one, it is a row at least.                          *)
(*                                                                         *)
(* The senator's table: no row is read that is not there, and a row opens  *)
(* what it shows, for lists of any length and however cells are reused.    *)
(***************************************************************************)
EXTENDS StatePicker, SenatorTable, TLAPS

\* Every cell that was built shows what the data source holds at its row now:
\* the grid and the arrays behind it are never out of step.
InStep ==
    LET source == Source(isFiltering, filteredStates)
    IN  /\ cells = [i \in 1 .. count |-> cells[i]]
        /\ \A i \in 1 .. count : cells[i] \in {Nil, source[i]}

PickerInv == ~cancelButton => InStep /\ TapPicksShownCell

\* The picker before it is opened.
LEMMA InitPicker == Init => PickerInv
  BY DEF Init, PickerInv, InStep, TapPicksShownCell

\* textDidChange leaves a grid without cells.
LEMMA TextDidChangeKeeps ==
    ASSUME PickerInv, NEW t \in Texts, TextDidChange(t)
    PROVE  PickerInv'
<1> SUFFICES ASSUME ~cancelButton' PROVE InStep' /\ TapPicksShownCell'
  BY DEF PickerInv
<1>0. TapPicksShownCell
  BY DEF TextDidChange, PickerInv
<1>1. InStep'
  BY DEF TextDidChange, FlagAtReload, Reload, InStep
<1>2. TapPicksShownCell'
  BY <1>0 DEF TextDidChange, TapPicksShownCell
<1> QED
  BY <1>1, <1>2

\* cellForItemAt fills a cell from the array that a tap will read.
LEMMA CellForItemAtKeeps ==
    ASSUME PickerInv, NEW i \in 1 .. count, CellForItemAt(i)
    PROVE  PickerInv'
<1> SUFFICES ASSUME ~cancelButton' PROVE InStep' /\ TapPicksShownCell'
  BY DEF PickerInv
<1>0. InStep /\ TapPicksShownCell
  BY DEF CellForItemAt, PickerInv
<1>1. InStep'
  BY <1>0 DEF CellForItemAt, Source, InStep
<1>2. TapPicksShownCell'
  BY <1>0 DEF CellForItemAt, TapPicksShownCell
<1> QED
  BY <1>1, <1>2

\* A tap leaves the lists as they are.
LEMMA DidSelectItemAtKeeps ==
    ASSUME PickerInv, NEW i \in 1 .. count, DidSelectItemAt(i)
    PROVE  PickerInv'
<1> SUFFICES ASSUME ~cancelButton' PROVE InStep' /\ TapPicksShownCell'
  BY DEF PickerInv
<1>0. InStep /\ TapPicksShownCell
  BY DEF DidSelectItemAt, PickerInv
<1>1. InStep'
  BY <1>0 DEF DidSelectItemAt, Source, InStep
<1>2. TapPicksShownCell'
  <2>1. cells[i] = Source(isFiltering, filteredStates)[i]
    BY <1>0 DEF DidSelectItemAt, InStep
  <2> QED
    BY <2>1 DEF DidSelectItemAt, TapPicksShownCell
<1> QED
  BY <1>1, <1>2

\* Without a cancel button, didSelectItemAt stores the state whose cell was
\* tapped, in every behaviour and for every list of states.
THEOREM TapAlwaysPicksShownCell == Spec => []TapPicksShownCell
<1>1. PickerInv /\ [Next]_vars => PickerInv'
  <2> SUFFICES ASSUME PickerInv, [Next]_vars PROVE PickerInv'
    OBVIOUS
  <2>1. CASE \E t \in Texts : TextDidChange(t)
    BY <2>1, TextDidChangeKeeps
  <2>2. CASE \E i \in 1 .. count : CellForItemAt(i)
    BY <2>2, CellForItemAtKeeps
  <2>3. CASE \E i \in 1 .. count : DidSelectItemAt(i)
    BY <2>3, DidSelectItemAtKeeps
  <2>4. CASE UNCHANGED vars
    BY <2>4 DEF vars, PickerInv, InStep, Source, TapPicksShownCell
  <2>5. CASE SearchBarCancelButtonClicked
    BY <2>5 DEF SearchBarCancelButtonClicked, PickerInv
  <2> QED
    BY <2>1, <2>2, <2>3, <2>4, <2>5 DEF Next
<1>2. PickerInv => TapPicksShownCell
  BY DEF PickerInv, TapPicksShownCell
<1> QED
  BY <1>1, <1>2, InitPicker, PTL DEF Spec

-----------------------------------------------------------------------------
(***************************************************************************)
(* No row is past the end of its array, with a cancel button or without.   *)
(* The cancel button lowers isFiltering and reloads nothing, so rows of    *)
(* the filtered list are then looked up in the full one: that is safe      *)
(* because a filtered list is never longer.  This fact about filter, an    *)
(* induction over the list, is a hypothesis here (FilterShortens).         *)
(***************************************************************************)

\* The grid has no more rows than either array it may be looked up in.
GridFits ==
    /\ FilterShortens
    /\ count \in 0 .. Len(StateList)
    /\ isFiltering => count <= Len(filteredStates) /\ Len(filteredStates) \in Nat
    /\ PickerNeverTraps

\* Rows of the grid are rows of the array that is read.
LEMMA RowsExist ==
    ASSUME GridFits, NEW i \in 1 .. count
    PROVE  ~(i > Len(Source(isFiltering, filteredStates)))
<1>1. Len(StateList) \in Nat
  BY PickerAssumption
<1> QED
  BY <1>1 DEF GridFits, Source

\* textDidChange counts the rows again, from the array that will be read.
LEMMA TextDidChangeFits ==
    ASSUME GridFits, NEW t \in Texts, TextDidChange(t)
    PROVE  GridFits'
<1>1. Len(StateList) \in Nat /\ Len(FilterStates(t)) \in 0 .. Len(StateList)
  BY PickerAssumption DEF GridFits, FilterShortens
<1>2. CASE t = Empty
  <2>1. count' = Len(StateList) /\ ~isFiltering'
    BY <1>2 DEF TextDidChange, Reload, Source, FlagAtReload
  <2> QED
    BY <1>1, <2>1 DEF TextDidChange, GridFits, PickerNeverTraps
<1>3. CASE t # Empty
  <2>1. count' = Len(filteredStates') /\ filteredStates' = FilterStates(t)
    BY <1>3 DEF TextDidChange, Reload, Source, FlagAtReload
  <2> QED
    BY <1>1, <2>1 DEF TextDidChange, GridFits, PickerNeverTraps
<1> QED
  BY <1>2, <1>3

\* Neither a cell that scrolls into view nor a tap, before or after the cancel
\* button, reads past the end of an array, for any list of states and any matching,
\* given that filtering does not lengthen a list.
THEOREM PickerStaysInRange == FilterShortens /\ Spec => []PickerNeverTraps
<1>1. FilterShortens /\ Init => GridFits
  BY PickerAssumption DEF Init, GridFits, PickerNeverTraps
<1>2. GridFits /\ [Next]_vars => GridFits'
  <2> SUFFICES ASSUME GridFits, [Next]_vars PROVE GridFits'
    OBVIOUS
  <2>1. ASSUME NEW t \in Texts, TextDidChange(t) PROVE GridFits'
    BY <2>1, TextDidChangeFits
  <2>2. CASE SearchBarCancelButtonClicked
    BY <2>2 DEF SearchBarCancelButtonClicked, GridFits, PickerNeverTraps
  <2>3. ASSUME NEW i \in 1 .. count, CellForItemAt(i) PROVE GridFits'
    <3>1. ~trapped'
      BY <2>3, RowsExist DEF CellForItemAt
    <3> QED
      BY <2>3, <3>1 DEF CellForItemAt, GridFits, PickerNeverTraps
  <2>4. ASSUME NEW i \in 1 .. count, DidSelectItemAt(i) PROVE GridFits'
    <3>1. ~trapped'
      BY <2>4, RowsExist DEF DidSelectItemAt
    <3> QED
      BY <2>4, <3>1 DEF DidSelectItemAt, GridFits, PickerNeverTraps
  <2>5. CASE UNCHANGED vars
    BY <2>5 DEF vars, GridFits, PickerNeverTraps
  <2> QED
    BY <2>1, <2>2, <2>3, <2>4, <2>5 DEF Next
<1>3. GridFits => PickerNeverTraps
  BY DEF GridFits
<1> QED
  BY <1>1, <1>2, <1>3, PTL DEF Spec
-----------------------------------------------------------------------------
(***************************************************************************)
(* The table never reads past its data, whatever the senator has: the code *)
(* checks the lists' lengths in one method (numberOfRowsInSection) and     *)
(* indexes them in another (cellForRowAt).                                 *)
(***************************************************************************)

\* Every row that is announced can be read.
LEMMA AnnouncedRowsExist ==
    ASSUME NEW p \in Paths
    PROVE  RowExists(p)
<1>1. PICK section \in 0 .. 2 : p \in {section} \X (0 .. NumberOfRows(section) - 1)
  BY DEF Paths
<1>2. p[1] = section /\ p[2] \in 0 .. NumberOfRows(section) - 1
  BY <1>1
<1>3. CASE section = 0
  <2>1. NumberOfRows(section) = RowsOfList(Committees)
    BY <1>3 DEF NumberOfRows
  <2>2. Committees = None \/ p[2] >= 3 \/ p[2] < Committees
    BY <1>2, <2>1, DataAssumption DEF RowsOfList
  <2> QED
    BY <1>2, <1>3, <2>2 DEF RowExists
<1>4. CASE section = 1
  <2>1. NumberOfRows(section) = RowsOfList(CoSponsorships)
    BY <1>4 DEF NumberOfRows
  <2>2. CoSponsorships = None \/ p[2] >= 3 \/ p[2] < CoSponsorships
    BY <1>2, <2>1, DataAssumption DEF RowsOfList
  <2> QED
    BY <1>2, <1>4, <2>2 DEF RowExists
<1>5. CASE section = 2
  <2>1. NumberOfRows(section) = IF Votes = None THEN 1 ELSE Len(Votes)
    BY <1>5 DEF NumberOfRows
  <2>2. Votes = None \/ p[2] < Len(Votes)
    BY <1>2, <2>1, DataAssumption
  <2> QED
    BY <1>2, <1>5, <2>2 DEF RowExists
<1> QED
  BY <1>3, <1>4, <1>5

\* For any numbers of committees, bills and votes, known or not, cellForRowAt
\* stays within the lists.
THEOREM TableAlwaysInRange == TableSpec => []TableNeverTraps
<1>1. TableInit => TableNeverTraps
  BY DEF TableInit, TableNeverTraps
<1>2. TableNeverTraps /\ [TableNext]_tableVars => TableNeverTraps'
  <2> SUFFICES ASSUME TableNeverTraps, [TableNext]_tableVars PROVE TableNeverTraps'
    OBVIOUS
  <2>1. ASSUME NEW p \in Paths, CellForRowAt(p) PROVE TableNeverTraps'
    BY <2>1, AnnouncedRowsExist DEF CellForRowAt, TableNeverTraps
  <2>2. ASSUME NEW p \in Paths, ScrollsOff(p) \/ DidSelectRowAt(p) PROVE TableNeverTraps'
    BY <2>2 DEF ScrollsOff, DidSelectRowAt, TableNeverTraps
  <2>3. CASE Back \/ \E i \in 0 .. RowsOfScreen("CoSponsorship") - 1 : DidSelectBill(i)
    BY <2>3 DEF Back, DidSelectBill, TableNeverTraps
  <2>4. CASE UNCHANGED tableVars
    BY <2>4 DEF tableVars, TableNeverTraps
  <2> QED
    BY <2>1, <2>2, <2>3, <2>4 DEF TableNext
<1> QED
  BY <1>1, <1>2, PTL DEF TableSpec

-----------------------------------------------------------------------------
(***************************************************************************)
(* Where a tap leads, for lists of any length and any reuse of cells.  A   *)
(* cell is of one row or waits in the pool (CellsAreOfOneRow), so that the *)
(* interaction flag the user meets is the one cellForRowAt set for that    *)
(* row (FlagsAreOfTheirRow); only then does a tap come from a row that has *)
(* something to open.                                                      *)
(***************************************************************************)

CellsAreOfOneRow ==
    /\ cellAt \in [Paths -> Cells \cup {None}]
    /\ pool \subseteq Cells
    /\ \A p \in Paths : cellAt[p] \notin pool
    /\ \A p, q \in Paths : cellAt[p] # None /\ cellAt[p] = cellAt[q] => p = q

FlagsAreOfTheirRow ==
    /\ content = [c \in Cells |-> content[c]]
    /\ \A p \in Paths : cellAt[p] # None /\ content[cellAt[p]].enabled => Tappable(p)

\* What a pushed screen was given.
GoodScreen(s) ==
    s.screen = "BillDetail" =>
        /\ s.given = s.row[2]
        /\ s.given < IF s.row[1] = 1 THEN CoSponsorships ELSE Len(Votes)

ScreensAreGood ==
    /\ \E S : opened \in Seq(S)
    /\ \A i \in DOMAIN opened : GoodScreen(opened[i])
    /\ OnlyTappableRowsOpen

TableInv == TableNeverTraps /\ CellsAreOfOneRow /\ FlagsAreOfTheirRow /\ ScreensAreGood

\* A row of the table is of a section and below its number of rows.
LEMMA RowOfPath ==
    ASSUME NEW p \in Paths
    PROVE  p[1] \in 0 .. 2 /\ p[2] \in 0 .. NumberOfRows(p[1]) - 1
  BY DEF Paths

\* A row that may be tapped and opens a bill's page has that bill.
LEMMA TappedRowHasItsBill ==
    ASSUME NEW p \in Paths, Tappable(p), NEW shown,
           NEW screen, screen = Opens(p, shown)
    PROVE  GoodScreen([row |-> p, screen |-> screen, given |-> Given(p, screen)])
<1> DEFINE s == [row |-> p, screen |-> screen, given |-> Given(p, screen)]
<1> SUFFICES ASSUME screen = "BillDetail"
             PROVE  s.given = p[2] /\ s.given < IF p[1] = 1 THEN CoSponsorships ELSE Len(Votes)
  BY DEF GoodScreen
<1>0. s.given = p[2]
  BY DEF Given
<1>1. CASE p[1] = 0
  BY <1>1 DEF Opens
<1>2. CASE p[1] = 1
  <2>1. CoSponsorships # None
    BY <1>2 DEF Tappable, TextOf, SeeMore
  <2>2. p[2] \in 0 .. RowsOfList(CoSponsorships) - 1
    BY <1>2, RowOfPath DEF NumberOfRows
  <2> QED
    BY <1>0, <1>2, <2>1, <2>2, DataAssumption DEF RowsOfList
<1>3. CASE p[1] = 2
  <2>1. Votes # None
    BY <1>3 DEF Tappable, TextOf, SeeMore
  <2>2. p[2] \in 0 .. Len(Votes) - 1
    BY <1>3, <2>1, RowOfPath DEF NumberOfRows
  <2> QED
    BY <1>0, <1>3, <2>1, <2>2, DataAssumption
<1> QED
  BY <1>1, <1>2, <1>3, RowOfPath

\* A dequeued cell is on no row.
LEMMA DequeuedIsFree ==
    ASSUME CellsAreOfOneRow, NEW c \in Dequeued
    PROVE  c \in Cells /\ \A p \in Paths : cellAt[p] # c
<1>1. CASE pool # {}
  BY <1>1 DEF Dequeued, CellsAreOfOneRow
<1>2. CASE pool = {}
  <2>1. c \in Cells \ InUse
    BY <1>2 DEF Dequeued
  <2>2. c # None
    BY <2>1, DataAssumption
  <2> QED
    BY <2>1, <2>2 DEF InUse, Visible
<1> QED
  BY <1>1, <1>2

\* An empty table.
LEMMA TableInvInit == TableInit => TableInv
<1> SUFFICES ASSUME TableInit PROVE TableInv
  OBVIOUS
<1>1. TableNeverTraps
  BY DEF TableInit, TableNeverTraps
<1>2. CellsAreOfOneRow
  BY DEF TableInit, CellsAreOfOneRow
<1>3. FlagsAreOfTheirRow
  BY DEF TableInit, FlagsAreOfTheirRow
<1>4. ScreensAreGood
  <2>1. opened \in Seq({})
    BY DEF TableInit
  <2> QED
    BY <2>1 DEF TableInit, ScreensAreGood, OnlyTappableRowsOpen
<1> QED
  BY <1>1, <1>2, <1>3, <1>4 DEF TableInv

\* cellForRowAt sets the flag of the cell that it takes, whatever was left in it.
LEMMA CellForRowAtKeeps ==
    ASSUME TableInv, NEW p \in Paths, CellForRowAt(p)
    PROVE  TableInv'
<1> USE DEF TableInv
<1>1. PICK c \in Dequeued :
          /\ cellAt' = [cellAt EXCEPT ![p] = c]
          /\ pool' = pool \ {c}
          /\ content' = IF RowExists(p)
                        THEN [content EXCEPT ![c] = Configured(content[c], p)]
                        ELSE content
          /\ tableTrapped' = ~RowExists(p)
          /\ UNCHANGED opened
  BY DEF CellForRowAt
<1>2. c \in Cells /\ \A q \in Paths : cellAt[q] # c
  BY DequeuedIsFree
<1>3. content' = [content EXCEPT ![c] = Configured(content[c], p)] /\ ~tableTrapped'
  BY <1>1, AnnouncedRowsExist
<1>4. CellsAreOfOneRow'
  BY <1>1, <1>2 DEF CellsAreOfOneRow
<1>5. FlagsAreOfTheirRow'
  <2>1. content' = [d \in Cells |-> content'[d]]
    BY <1>3 DEF FlagsAreOfTheirRow
  <2>2. content'[c].enabled = Tappable(p)
    BY <1>2, <1>3 DEF FlagsAreOfTheirRow, Configured, Enabled
  <2>3. ASSUME NEW q \in Paths, q # p, cellAt'[q] # None, content'[cellAt'[q]].enabled
        PROVE  Tappable(q)
    BY <1>1, <1>2, <1>3, <2>3 DEF FlagsAreOfTheirRow, CellsAreOfOneRow
  <2>4. cellAt'[p] = c
    BY <1>1 DEF CellsAreOfOneRow
  <2> QED
    BY <2>1, <2>2, <2>3, <2>4 DEF FlagsAreOfTheirRow
<1>6. ScreensAreGood'
  BY <1>1 DEF ScreensAreGood, OnlyTappableRowsOpen
<1> QED
  BY <1>3, <1>4, <1>5, <1>6 DEF TableNeverTraps

\* A row that scrolls off leaves its cell to the pool.
LEMMA ScrollsOffKeeps ==
    ASSUME TableInv, NEW p \in Paths, ScrollsOff(p)
    PROVE  TableInv'
<1> USE DEF TableInv
<1>1. CellsAreOfOneRow'
  <2>1. cellAt[p] \in Cells /\ None \notin Cells
    BY DataAssumption DEF ScrollsOff, CellsAreOfOneRow
  <2> QED
    BY <2>1 DEF ScrollsOff, Pooled, CellsAreOfOneRow
<1>2. FlagsAreOfTheirRow'
  BY DEF ScrollsOff, FlagsAreOfTheirRow, CellsAreOfOneRow
<1>3. ScreensAreGood' /\ TableNeverTraps'
  BY DEF ScrollsOff, ScreensAreGood, OnlyTappableRowsOpen, TableNeverTraps
<1> QED
  BY <1>1, <1>2, <1>3

\* A tap: the flag of the tapped cell is that of its row, so the row has what is
\* opened; the cell that the handler dequeues is on no row.
LEMMA DidSelectRowAtKeeps ==
    ASSUME TableInv, NEW p \in Paths, DidSelectRowAt(p)
    PROVE  TableInv'
<1> USE DEF TableInv
<1>1. PICK c \in Dequeued :
          /\ pool' = pool \ {c}
          /\ opened' = <<[row |-> p, screen |-> Opens(p, content[c].text),
                          given |-> Given(p, Opens(p, content[c].text))]>>
          /\ content' = [content EXCEPT ![c] = Prototype]
  BY DEF DidSelectRowAt
<1>2. c \in Cells /\ \A q \in Paths : cellAt[q] # c
  BY DequeuedIsFree
<1>3. Tappable(p)
  BY DEF DidSelectRowAt, FlagsAreOfTheirRow
<1>4. CellsAreOfOneRow'
  BY <1>1 DEF DidSelectRowAt, CellsAreOfOneRow
<1>5. FlagsAreOfTheirRow'
  BY <1>1, <1>2 DEF DidSelectRowAt, FlagsAreOfTheirRow, CellsAreOfOneRow
<1>6. ScreensAreGood'
  <2> DEFINE screen == Opens(p, content[c].text)
             s == [row |-> p, screen |-> screen, given |-> Given(p, screen)]
  <2>1. GoodScreen(s)
    BY <1>3, TappedRowHasItsBill
  <2>2. opened' = <<s>>
    BY <1>1
  <2> HIDE DEF s
  <2>3. opened' \in Seq({s}) /\ DOMAIN opened' = {1} /\ opened'[1] = s
    BY <2>2
  <2>4. s.row = p
    BY DEF s
  <2> QED
    BY <1>3, <2>1, <2>3, <2>4 DEF ScreensAreGood, OnlyTappableRowsOpen
<1>7. TableNeverTraps'
  BY DEF DidSelectRowAt, TableNeverTraps
<1> QED
  BY <1>4, <1>5, <1>6, <1>7

\* What pushing a screen leaves in its place.
LEMMA PushedOnto ==
    ASSUME NEW T, NEW q \in Seq(T), NEW e \in T
    PROVE  /\ Append(q, e) \in Seq(T) /\ Len(Append(q, e)) = Len(q) + 1
           /\ \A k \in 1 .. Len(q) : Append(q, e)[k] = q[k]
           /\ Append(q, e)[Len(q) + 1] = e
  OBVIOUS

\* The list of bills opens the bill of its row.
LEMMA DidSelectBillKeeps ==
    ASSUME TableInv, NEW i \in 0 .. RowsOfScreen("CoSponsorship") - 1, DidSelectBill(i)
    PROVE  TableInv'
<1> USE DEF TableInv
<1> DEFINE s == [row |-> <<1, i>>, screen |-> "BillDetail", given |-> RowOpensBill(i)]
<1>1. GoodScreen(s)
  <2>1. CoSponsorships # None /\ i < CoSponsorships
    BY DataAssumption DEF RowsOfScreen
  <2> QED
    BY <2>1 DEF GoodScreen, RowOpensBill
<1>2. opened' = Append(opened, s) /\ Len(opened) = 1
  BY DEF DidSelectBill
<1> HIDE DEF s
<1>3. PICK S : opened \in Seq(S)
  BY DEF ScreensAreGood
<1>4. /\ opened' \in Seq(S \cup {s})
      /\ DOMAIN opened = 1 .. 1 /\ DOMAIN opened' = 1 .. 2
      /\ opened'[1] = opened[1] /\ opened'[2] = s
  <2> DEFINE T == S \cup {s}
  <2>1. opened \in Seq(T) /\ s \in T
    BY <1>3
  <2> HIDE DEF T
  <2>2. /\ Append(opened, s) \in Seq(T) /\ Len(Append(opened, s)) = Len(opened) + 1
        /\ \A k \in 1 .. Len(opened) : Append(opened, s)[k] = opened[k]
        /\ Append(opened, s)[Len(opened) + 1] = s
    BY <2>1, PushedOnto
  <2>3. opened' \in Seq(T) /\ Len(opened') = 2 /\ opened'[1] = opened[1] /\ opened'[2] = s
    BY <1>2, <2>2
  <2>4. DOMAIN opened = 1 .. 1 /\ DOMAIN opened' = 1 .. 2
    BY <1>2, <2>1, <2>3
  <2> QED
    BY <2>3, <2>4 DEF T
<1>5. ScreensAreGood'
  <2>1. GoodScreen(opened[1]) /\ Tappable(opened[1].row)
    BY <1>2, <1>4 DEF ScreensAreGood, OnlyTappableRowsOpen
  <2> QED
    BY <1>1, <1>4, <2>1 DEF ScreensAreGood, OnlyTappableRowsOpen
<1>6. CellsAreOfOneRow' /\ FlagsAreOfTheirRow' /\ TableNeverTraps'
  BY DEF DidSelectBill, CellsAreOfOneRow, FlagsAreOfTheirRow, TableNeverTraps
<1> QED
  BY <1>5, <1>6

\* The back button takes the last screen away.
LEMMA BackKeeps ==
    ASSUME TableInv, Back
    PROVE  TableInv'
<1> USE DEF TableInv
<1>1. PICK S : opened \in Seq(S)
  BY DEF ScreensAreGood
<1>2. /\ opened' \in Seq(S)
      /\ DOMAIN opened' \subseteq DOMAIN opened
      /\ \A i \in DOMAIN opened' : opened'[i] = opened[i]
      /\ opened' # <<>> => 1 \in DOMAIN opened' /\ opened # <<>>
  BY <1>1 DEF Back
<1>3. ScreensAreGood'
  BY <1>2 DEF ScreensAreGood, OnlyTappableRowsOpen
<1>4. CellsAreOfOneRow' /\ FlagsAreOfTheirRow' /\ TableNeverTraps'
  BY DEF Back, CellsAreOfOneRow, FlagsAreOfTheirRow, TableNeverTraps
<1> QED
  BY <1>3, <1>4

\* The invariant of the table and of the screens over it.
LEMMA TableInvariant == TableSpec => []TableInv
<1>1. TableInv /\ [TableNext]_tableVars => TableInv'
  <2> SUFFICES ASSUME TableInv, [TableNext]_tableVars PROVE TableInv'
    OBVIOUS
  <2>1. ASSUME NEW p \in Paths, CellForRowAt(p) \/ ScrollsOff(p) \/ DidSelectRowAt(p) PROVE TableInv'
    BY <2>1, CellForRowAtKeeps, ScrollsOffKeeps, DidSelectRowAtKeeps
  <2>2. ASSUME NEW i \in 0 .. RowsOfScreen("CoSponsorship") - 1, DidSelectBill(i) PROVE TableInv'
    BY <2>2, DidSelectBillKeeps
  <2>3. CASE Back
    BY <2>3, BackKeeps
  <2>4. CASE UNCHANGED tableVars
    BY <2>4 DEF tableVars, TableInv, TableNeverTraps, CellsAreOfOneRow, FlagsAreOfTheirRow, ScreensAreGood,
                OnlyTappableRowsOpen
  <2> QED
    BY <2>1, <2>2, <2>3, <2>4 DEF TableNext
<1> QED
  BY <1>1, TableInvInit, PTL DEF TableSpec

\* However cells were reused, a screen opens only from a row that is meant to be
\* tapped: the flag that didSelectRowAt relies on is never another row's.
THEOREM OnlyTappableRowsEverOpen == TableSpec => []OnlyTappableRowsOpen
<1>1. TableInv => OnlyTappableRowsOpen
  BY DEF TableInv, ScreensAreGood
<1> QED
  BY <1>1, TableInvariant, PTL

\* For lists of any length, known or not, BillDetail is given a bill that exists,
\* also by the handler that takes the "See more..." row for a bill.
THEOREM BillPagesAlwaysHaveTheirBill == TableSpec => []BillPagesHaveTheirBill
<1>1. TableInv => BillPagesHaveTheirBill
  BY DEF TableInv, ScreensAreGood, GoodScreen, BillPagesHaveTheirBill
<1> QED
  BY <1>1, TableInvariant, PTL
=============================================================================
