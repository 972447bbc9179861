----------------------------- MODULE ResultPane -----------------------------
(***************************************************************************)
(* The paged result table of ShowSqlDatabaseEditor (DBManager.mm), drawn   *)
(* from the answers of the abstract console.  The number of pages a frame  *)
(* works with is computed from the row count of an earlier frame, and is   *)
(* kept while a query runs: it can be stale in both directions when the    *)
(* next answer arrives.                                                    *)
(***************************************************************************)
EXTENDS QueryConsole, Integers, Sequences

CONSTANTS
    RowsPerPage,    \* rowsPerPage, 30 in the code
    MaxRows,        \* bound on the rows of an answer
    MaxLaunches     \* bound on the queries launched

ASSUME PaneAssumption ==
    /\ RowsPerPage \in Nat \ {0}
    /\ MaxRows \in Nat
    /\ MaxLaunches \in Nat

VARIABLES
    rows,           \* QueryRows.size()
    currentPage,    \* static currentPage
    totalRows,      \* static totalRows
    drawn,          \* the rows of QueryRows the last frame printed
    label           \* the page and page count of "Page n/m", <<>> if not shown

paneVars == <<currentPage, totalRows, drawn, label>>
consoleVars == <<running, latest, answer, table, rows>>

(* (totalRows + rowsPerPage - 1) / rowsPerPage *)
Pages(n) == (n + RowsPerPage - 1) \div RowsPerPage

(* Mutant of PageRows: the last page is not cut at the last row. *)
PageRowsUncut(page, n) == page * RowsPerPage .. (page + 1) * RowsPerPage - 1

(* startRow up to, and without, endRow. *)
PageRows(page, n) ==
    LET startRow == page * RowsPerPage
        endRow == IF startRow + RowsPerPage < n THEN startRow + RowsPerPage ELSE n
    IN  startRow .. endRow - 1

(* Mutant of Clamp: a page past the end is left where it is. *)
ClampNot(page, totalPages) == page

(* Mutant of Clamp: the last page of no pages is page -1. *)
ClampUnderflow(page, totalPages) == IF page < totalPages THEN page ELSE totalPages - 1

(* if (currentPage >= totalPages) ... *)
Clamp(page, totalPages) ==
    IF page < totalPages THEN page ELSE IF totalPages > 0 THEN totalPages - 1 ELSE 0

PaneInit ==
    /\ Init
    /\ rows = 0
    /\ currentPage = 0
    /\ totalRows = 0
    /\ drawn = {}
    /\ label = <<>>

(* Mutant of Turn: Next does not stop at the last page. *)
TurnPast(page, totalPages) ==
    \/ page = currentPage
    \/ totalPages > 1 /\ currentPage > 0 /\ page = currentPage - 1
    \/ totalPages > 1 /\ page = currentPage + 1

(* The Previous and Next buttons, there when there are several pages. *)
Turn(page, totalPages) ==
    \/ page = currentPage
    \/ totalPages > 1 /\ currentPage > 0 /\ page = currentPage - 1
    \/ totalPages > 1 /\ currentPage < totalPages - 1 /\ page = currentPage + 1

(* The label beside the buttons, written before the page is clamped. *)
Label(page, totalPages) == IF totalPages > 1 THEN <<page + 1, totalPages>> ELSE <<>>

(* A frame without an answer: the buttons work, nothing is printed. *)
EmptyFrame ==
    /\ answer = 0
    /\ Draw
    /\ Turn(currentPage', Pages(totalRows))
    /\ label' = Label(currentPage', Pages(totalRows))
    /\ drawn' = {}
    /\ UNCHANGED <<rows, totalRows>>

(* A frame with an answer: turn the page, take the new row count, clamp    *)
(* the page to the page count of before, print the page.                   *)
TableFrame ==
    /\ answer # 0
    /\ Draw
    /\ totalRows' = rows
    /\ \E page \in 0 .. currentPage + 1 :
        /\ Turn(page, Pages(totalRows))
        /\ label' = Label(page, Pages(totalRows))
        /\ currentPage' = Clamp(page, Pages(totalRows))
    /\ drawn' = PageRows(currentPage', rows)
    /\ UNCHANGED rows

PaneFrame == EmptyFrame \/ TableFrame

(* The console between two frames; an answer comes with its rows. *)
ConsoleStep ==
    /\ \/ latest < MaxLaunches /\ Launch /\ UNCHANGED rows
       \/ Withdraw /\ UNCHANGED rows
       \/ Answer /\ rows' \in 0 .. MaxRows
       \/ Finish /\ UNCHANGED rows
    /\ UNCHANGED paneVars

-----------------------------------------------------------------------------
PaneTypeOK ==
    /\ running \in BOOLEAN
    /\ latest \in Nat
    /\ answer \in 0 .. latest
    /\ table \in 0 .. latest
    /\ rows \in 0 .. MaxRows
    /\ currentPage \in Nat
    /\ totalRows \in 0 .. MaxRows
    /\ drawn \subseteq Nat
    /\ label \in Seq(Nat)

(* The table on display never reads past the rows it has copied, nor past  *)
(* one page: Rows[r] is in bounds for every r printed.                     *)
DrawnInBounds ==
    table # 0 => drawn \subseteq 0 .. totalRows - 1

(* A stale page number blanks an answer that has rows for one frame at     *)
(* most: once an answer has been drawn, whichever button is clicked in the *)
(* next frame, that frame prints some of its rows.                         *)
OneBlankFrame ==
    table # 0 /\ table = answer /\ rows > 0 =>
        \A page \in 0 .. currentPage + 1 :
            LET totalPages == Pages(totalRows)
            IN  Turn(page, totalPages) => PageRows(Clamp(page, totalPages), rows) # {}

(* The label is written before the clamp and from the row count of the     *)
(* frame before, so it can read "Page 3/2".  It heals: once a frame has    *)
(* printed rows of an answer, the label of the next frame with that answer *)
(* names the page it prints among the pages there are, and without a label *)
(* all rows are printed.                                                   *)
LabelTells ==
    [][PaneFrame /\ table # 0 /\ table = answer /\ drawn # {} =>
        IF label' = <<>> THEN drawn' = 0 .. rows - 1
        ELSE drawn' = PageRows(label'[1] - 1, rows) /\ label'[2] = Pages(rows)
      ]_<<consoleVars, paneVars>>
=============================================================================
