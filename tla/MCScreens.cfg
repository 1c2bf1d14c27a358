SPECIFICATION ScreensSpec
CONSTANTS
    Parts = {"picker", "table", "directory"}
    States <- FiveStates
    StateList <- ByTitle
    Texts <- SearchTexts
    Empty = ""
    Matches <- BeginsWith
    Nil = Nil
    Committees = 4
    CoSponsorships = 4
    Votes <- DummyVotes
    Cells = {c1, c2, c3, c4, c5}
    MaxVisible = 4
    None = None
SYMMETRY SameCells
CHECK_DEADLOCK FALSE
INVARIANTS
    TapPicksShownCell
    PickerNeverTraps
    TableNeverTraps
    BillPagesHaveTheirBill
    DirectoryIsTheDocument
