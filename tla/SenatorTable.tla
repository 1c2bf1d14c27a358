----------------------------- MODULE SenatorTable ----------------------------
(***************************************************************************)
(* SenatorViewController: a table of three sections (committees, bills     *)
(* co-sponsored, votes) over reused cells, and the screens its rows open.  *)
(*                                                                         *)
(* A cell that scrolls off goes to the reuse pool with its labels and its  *)
(* interaction flag as they are; a row that scrolls in gets a pooled cell  *)
(* if there is one, else a new one, and cellForRowAt sets it up.           *)
(* didSelectRowAt dequeues as well: the cell it looks at is not the one    *)
(* that was tapped.  Behind the rows are the committees' list, the bills'  *)
(* list (CoSponsership) and a bill's page; the list opens bills as well.   *)
(***************************************************************************)
EXTENDS Integers, Sequences, FiniteSets

CONSTANTS
    Committees,     \* how many of each the senator has, None when not known
    CoSponsorships,
    Votes,          \* the votes themselves, TRUE in favour, or None
    Cells,          \* bound: cells that exist at one time
    MaxVisible,     \* bound: rows on screen at one time
    None

ASSUME DataAssumption ==
    /\ Committees \in Nat \cup {None}
    /\ CoSponsorships \in Nat \cup {None}
    /\ Votes \in Seq(BOOLEAN) \cup {None}
    /\ None \notin Nat \cup Seq(BOOLEAN) \cup Cells
ASSUME CellsAssumption ==
    /\ MaxVisible \in Nat \ {0}
    /\ Cardinality(Cells) > MaxVisible

SeeMore == "See more..."

-----------------------------------------------------------------------------
(* The data source.  Rows are counted from 0, as in the code. *)

RowsOfList(n) == IF n = None THEN 1 ELSE IF n <= 3 THEN n ELSE 4

NumberOfRows_ExtraVote(section) ==
    CASE section = 0 -> RowsOfList(Committees)
      [] section = 1 -> RowsOfList(CoSponsorships)
      [] section = 2 -> IF Votes = None THEN 1 ELSE 1 + Len(Votes)

NumberOfRows(section) ==
    CASE section = 0 -> RowsOfList(Committees)
      [] section = 1 -> RowsOfList(CoSponsorships)
      [] section = 2 -> IF Votes = None THEN 1 ELSE Len(Votes)

\* The index paths from top to bottom.
Paths == UNION {{section} \X (0 .. NumberOfRows(section) - 1) : section \in 0 .. 2}
Above(p, q) == p[1] < q[1] \/ (p[1] = q[1] /\ p[2] < q[2])

\* Whether reading the row's data stays within its array.
RowExists(p) ==
    CASE p[1] = 0 -> Committees = None \/ p[2] >= 3 \/ p[2] < Committees
      [] p[1] = 1 -> CoSponsorships = None \/ p[2] >= 3 \/ p[2] < CoSponsorships
      [] p[1] = 2 -> Votes = None \/ p[2] < Len(Votes)

\* The row's text, as far as the code tells texts apart.
TextOf(p) ==
    CASE p[1] = 0 -> IF Committees = None THEN "none"
                     ELSE IF p[2] < 3 THEN "committee" ELSE SeeMore
      [] p[1] = 1 -> IF CoSponsorships = None THEN "none"
                     ELSE IF p[2] < 3 THEN "bill" ELSE SeeMore
      [] p[1] = 2 -> IF Votes = None THEN "none" ELSE "bill"

\* Rows the user may tap: "See more...", and every bill.
Tappable(p) == TextOf(p) \in {SeeMore, "bill"}

CellTexts == {"Title", "none", "committee", "bill", SeeMore}
Content == [text : CellTexts, detail : {"", "YES", "NO"}, enabled : BOOLEAN]

\* A cell made from the storyboard's prototype.
Prototype == [text |-> "Title", detail |-> "", enabled |-> TRUE]

Enabled_NeverDisabled(c, p) == c.enabled \/ Tappable(p)

\* The interaction flag is set for every row, whatever the cell had before.
Enabled(c, p) == Tappable(p)

\* cellForRowAt on a cell whose content is c: text and flag are always set,
\* the detail label only for a vote.
Configured(c, p) ==
    [text    |-> TextOf(p),
     detail  |-> IF p[1] = 2 /\ Votes # None
                 THEN IF Votes[p[2] + 1] THEN "YES" ELSE "NO"
                 ELSE c.detail,
     enabled |-> Enabled(c, p)]

-----------------------------------------------------------------------------

VARIABLES
    cellAt,     \* the cell of each row on screen, None for the other rows
    pool,       \* cells waiting for reuse
    content,    \* what each cell shows, the prototype's content before it exists
    opened,     \* the screens pushed over the table: the row tapped, the screen
                \* it opened, and the bill given to it
    tableTrapped     \* an index past the end of an array

tableVars == <<cellAt, pool, content, opened, tableTrapped>>

Visible == {p \in Paths : cellAt[p] # None}
InUse == pool \cup {cellAt[p] : p \in Visible}

\* dequeueReusableCell: a cell from the pool while there is one.
Dequeued == IF pool # {} THEN pool ELSE Cells \ InUse

TableInit ==
    /\ cellAt = [p \in Paths |-> None]
    /\ pool = {}
    /\ content = [c \in Cells |-> Prototype]
    /\ opened = <<>>
    /\ tableTrapped = FALSE

InFront == opened = <<>> /\ ~tableTrapped

\* The rows on screen are consecutive, from the first one on when the table
\* loads: p joins them at either end.
NextTo(p) ==
    \/ Visible = {} /\ ~\E q \in Paths : Above(q, p)
    \/ \E q \in Visible :
          /\ Above(p, q) \/ Above(q, p)
          /\ ~\E m \in Paths : (Above(p, m) /\ Above(m, q)) \/ (Above(q, m) /\ Above(m, p))

AtEnd(p) ==
    \/ \A q \in Visible \ {p} : Above(p, q)
    \/ \A q \in Visible \ {p} : Above(q, p)

CellForRowAt(p) ==
    /\ InFront
    /\ cellAt[p] = None
    /\ NextTo(p)
    /\ Cardinality(Visible) < MaxVisible
    /\ \E c \in Dequeued :
          /\ cellAt' = [cellAt EXCEPT ![p] = c]
          /\ pool' = pool \ {c}
          /\ content' = IF RowExists(p)
                        THEN [content EXCEPT ![c] = Configured(content[c], p)]
                        ELSE content
          /\ tableTrapped' = ~RowExists(p)
          /\ UNCHANGED opened

Pooled_RowCleared(p) == pool \cup {cellAt'[p]}

\* The cell of a row that leaves the screen waits for reuse.
Pooled(p) == pool \cup {cellAt[p]}

ScrollsOff(p) ==
    /\ InFront
    /\ cellAt[p] # None
    /\ Visible # {p}
    /\ AtEnd(p)
    /\ cellAt' = [cellAt EXCEPT ![p] = None]
    /\ pool' = Pooled(p)
    /\ UNCHANGED <<content, opened, tableTrapped>>

\* The screen a tap on p opens, when the cell it dequeues shows "text".
Opens(p, text) ==
    CASE p[1] = 0 -> "Committee"
      [] p[1] = 1 -> IF text = SeeMore THEN "CoSponsorship" ELSE "BillDetail"
      [] p[1] = 2 -> "BillDetail"

\* What prepare(for:) hands to it: a bill, by its index, or (None) the whole list.
Given(p, screen) == IF screen = "BillDetail" THEN p[2] ELSE None

\* The dequeued cell is dropped when the handler returns.
DidSelectRowAt(p) ==
    /\ InFront
    /\ cellAt[p] # None
    /\ content[cellAt[p]].enabled
    /\ \E c \in Dequeued :
          /\ pool' = pool \ {c}
          /\ LET screen == Opens(p, content[c].text)
             IN  opened' = <<[row |-> p, screen |-> screen, given |-> Given(p, screen)]>>
          /\ content' = [content EXCEPT ![c] = Prototype]
    /\ UNCHANGED <<cellAt, tableTrapped>>

\* The rows of the pushed lists.  Both are given the whole list; nil counts as none.
RowsOfScreen(screen) ==
    LET n == IF screen = "Committee" THEN Committees ELSE CoSponsorships
    IN  IF n = None THEN 0 ELSE n

RowOpensBill_Next(i) == i + 1

\* The bill that CoSponsershipViewController's didSelectRowAt sends with the segue.
RowOpensBill(i) == i

\* A row of the bills' list is tapped.  (The committees' list opens nothing.)
DidSelectBill(i) ==
    /\ Len(opened) = 1
    /\ opened[1].screen = "CoSponsorship"
    /\ i < RowsOfScreen("CoSponsorship")
    /\ opened' = Append(opened, [row    |-> <<1, i>>,
                                screen |-> "BillDetail",
                                given  |-> RowOpensBill(i)])
    /\ UNCHANGED <<cellAt, pool, content, tableTrapped>>

\* The navigation bar's back button.
Back ==
    /\ opened # <<>>
    /\ opened' = SubSeq(opened, 1, Len(opened) - 1)
    /\ UNCHANGED <<cellAt, pool, content, tableTrapped>>

TableNext ==
    \/ \E p \in Paths : CellForRowAt(p) \/ ScrollsOff(p) \/ DidSelectRowAt(p)
    \/ \E i \in 0 .. RowsOfScreen("CoSponsorship") - 1 : DidSelectBill(i)
    \/ Back

TableSpec == TableInit /\ [][TableNext]_tableVars

-----------------------------------------------------------------------------

TableTypeOK ==
    /\ cellAt \in [Paths -> Cells \cup {None}]
    /\ pool \subseteq Cells
    /\ content \in [Cells -> Content]
    /\ opened \in Seq([row : Nat \X Nat,
                       screen : {"Committee", "CoSponsorship", "BillDetail"},
                       given : Nat \cup {None}])
    /\ tableTrapped \in BOOLEAN

\* cellForRowAt never reads past the senator's lists: it is asked only for rows
\* that numberOfRowsInSection announced.
TableNeverTraps == ~tableTrapped

\* A screen opens only from a row that is meant to be tapped, however often the
\* tapped cell was reused: a name in the list of committees stays dead although
\* bills re-enable the same cells.
OnlyTappableRowsOpen == opened # <<>> => Tappable(opened[1].row)

\* A bill's page is given a bill that exists, whether it was reached from the table
\* (by row, with the handler that mistakes the "See more..." row for a bill
\* included) or through the bills' list: BillDetail unwraps it.
BillPagesHaveTheirBill ==
    \A i \in DOMAIN opened :
        opened[i].screen = "BillDetail" =>
            /\ opened[i].given = opened[i].row[2]
            /\ opened[i].given < IF opened[i].row[1] = 1 THEN CoSponsorships ELSE Len(Votes)

\* The last row of the co-sponsored bills says "See more..."; a tap on it is to
\* open the full list, and not the fourth bill.
SeeMoreOpensList ==
    opened # <<>> /\ opened[1].row[1] = 1 /\ TextOf(opened[1].row) = SeeMore
        => opened[1].screen = "CoSponsorship"
=============================================================================
