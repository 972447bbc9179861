------------------------- MODULE EditorWindowProofs -------------------------
(***************************************************************************)
(* The result pane and the logo for pages and answers of any size, any     *)
(* number of queries and any set of downloads.                             *)
(***************************************************************************)
EXTENDS EditorWindow, TLAPS

(* While the running query has no answer, no frame has drawn one.          *)
Unanswered == running /\ answer # latest => table # latest

(* The answer on display is the one whose rows the page count is taken     *)
(* from, and the printed rows are those of the current page.               *)
Displayed ==
    table # 0 =>
        /\ drawn = PageRows(currentPage, totalRows)
        /\ table = answer => totalRows = rows

PaneInv == PaneTypeOK /\ Unanswered /\ Displayed

(* A download is under way or has made its texture, not both.              *)
LogoInv == LogoTypeOK /\ TexturesReal /\ started \cap loaded = {}

-----------------------------------------------------------------------------
(* The quotient of a natural number.                                       *)
LEMMA Quotient ==
    ASSUME NEW n \in Nat, NEW d \in Nat \ {0}
    PROVE  /\ n \div d \in Nat
           /\ d * (n \div d) <= n
           /\ n < d * (n \div d) + d
<1>1. n = d * (n \div d) + (n % d) /\ n % d \in 0 .. d - 1 /\ n \div d \in Int
  BY SMT
<1>2. n \div d >= 0
  BY SMT
<1> QED BY <1>1, <1>2

(* A page is one of the pages exactly when it starts at a row.             *)
LEMMA PagesCover ==
    ASSUME NEW n \in Nat, NEW page \in Nat
    PROVE  /\ Pages(n) \in Nat
           /\ page < Pages(n) <=> page * RowsPerPage < n
<1> DEFINE q == Pages(n)
<1>1. RowsPerPage \in Nat \ {0}
  BY PaneAssumption
<1>2. q \in Nat /\ RowsPerPage * q <= n + RowsPerPage - 1 /\ n - 1 < RowsPerPage * q
  <2>1. n + RowsPerPage - 1 \in Nat
    BY <1>1
  <2> QED BY <1>1, <2>1, Quotient DEF Pages
<1> HIDE DEF q
<1>3. ASSUME page < q PROVE page * RowsPerPage < n
  <2>1. RowsPerPage * (page + 1) <= RowsPerPage * q
    <3>1. page + 1 <= q
      BY <1>2, <1>3
    <3> QED BY <1>1, <1>2, <3>1
  <2>2. RowsPerPage * (page + 1) = page * RowsPerPage + RowsPerPage
    BY <1>1
  <2> QED BY <1>1, <1>2, <2>1, <2>2
<1>4. ASSUME q <= page PROVE n <= page * RowsPerPage
  <2>1. RowsPerPage * q <= RowsPerPage * page
    BY <1>1, <1>2, <1>4
  <2>2. RowsPerPage * page = page * RowsPerPage
    BY <1>1
  <2> QED BY <1>1, <1>2, <2>1, <2>2
<1>5. page * RowsPerPage \in Nat
  BY <1>1
<1> QED BY <1>2, <1>3, <1>4, <1>5 DEF q

(* The rows of a page are rows, and there are some on every page but one   *)
(* that starts behind the last row.                                        *)
LEMMA PageRowsInBounds ==
    ASSUME NEW n \in Nat, NEW page \in Nat
    PROVE  /\ PageRows(page, n) \subseteq 0 .. n - 1
           /\ PageRows(page, n) \subseteq Nat
           /\ PageRows(page, n) # {} <=> page < Pages(n)
<1>1. page * RowsPerPage \in Nat /\ RowsPerPage \in Nat \ {0}
  BY PaneAssumption
<1> DEFINE startRow == page * RowsPerPage
           endRow == IF startRow + RowsPerPage < n THEN startRow + RowsPerPage ELSE n
<1>2. PageRows(page, n) = startRow .. endRow - 1
  BY DEF PageRows
<1>3. startRow \in Nat /\ endRow \in Nat /\ endRow <= n /\ (startRow < n <=> startRow < endRow)
  BY <1>1
<1>4. startRow < n <=> page < Pages(n)
  BY PagesCover
<1> HIDE DEF startRow, endRow
<1>5. startRow .. endRow - 1 # {} <=> startRow < endRow
  <2>1. startRow < endRow => startRow \in startRow .. endRow - 1
    BY <1>3
  <2>2. \A row \in startRow .. endRow - 1 : startRow < endRow
    BY <1>3
  <2> QED BY <2>1, <2>2
<1>6. startRow .. endRow - 1 \subseteq 0 .. n - 1 /\ startRow .. endRow - 1 \subseteq Nat
  BY <1>3
<1> QED BY <1>2, <1>4, <1>3, <1>5, <1>6

(* Clamping leaves a page that exists, or page 0.                          *)
LEMMA ClampFits ==
    ASSUME NEW page \in Nat, NEW totalPages \in Nat
    PROVE  /\ Clamp(page, totalPages) \in Nat
           /\ totalPages > 0 => Clamp(page, totalPages) < totalPages
           /\ page < totalPages => Clamp(page, totalPages) = page
BY DEF Clamp

-----------------------------------------------------------------------------
(* The pane starts with nothing on display.                                *)
LEMMA InitPaneInv == PaneInit => PaneInv
<1> SUFFICES ASSUME PaneInit PROVE PaneInv
  OBVIOUS
<1>1. PaneTypeOK
  <2>1. label \in Seq(Nat)
    BY DEF PaneInit
  <2>2. running \in BOOLEAN
    BY DEF PaneInit, Init
  <2>3. /\ latest \in Nat /\ answer \in 0 .. latest /\ table \in 0 .. latest
        /\ rows \in 0 .. MaxRows /\ totalRows \in 0 .. MaxRows
        /\ currentPage \in Nat /\ drawn \subseteq Nat
    BY PaneAssumption DEF PaneInit, Init
  <2> QED BY <2>1, <2>2, <2>3 DEF PaneTypeOK
<1>2. Unanswered
  BY DEF PaneInit, Init, Unanswered
<1> QED BY <1>1, <1>2 DEF PaneInv, Displayed, PaneInit, Init

(* A frame, with or without an answer, whichever button is clicked.        *)
LEMMA FrameKeepsPaneInv ==
    ASSUME PaneInv, PaneFrame PROVE PaneInv'
<1> USE DEF PaneInv, Draw
<1>1. /\ running' \in BOOLEAN /\ latest' \in Nat /\ answer' \in 0 .. latest'
      /\ table' \in 0 .. latest' /\ rows' \in 0 .. MaxRows /\ Unanswered'
  BY DEF PaneTypeOK, Unanswered, PaneFrame, EmptyFrame, TableFrame
<1>2. Pages(totalRows) \in Nat /\ currentPage \in Nat /\ rows \in Nat
  BY PagesCover, PaneAssumption DEF PaneTypeOK
<1>3. ASSUME NEW page \in Nat
      PROVE  Label(page, Pages(totalRows)) \in Seq(Nat)
  BY <1>2 DEF Label
<1>4. CASE EmptyFrame
  <2>1. currentPage' \in Nat
    BY <1>2, <1>4 DEF EmptyFrame, Turn
  <2>2. /\ totalRows' \in 0 .. MaxRows /\ drawn' = {} /\ table' = 0
        /\ label' \in Seq(Nat)
    BY <1>3, <1>4, <2>1 DEF EmptyFrame, PaneTypeOK
  <2>3. PaneTypeOK'
    BY <1>1, <2>1, <2>2 DEF PaneTypeOK
  <2> QED BY <1>1, <2>2, <2>3 DEF Displayed
<1>5. CASE TableFrame
  <2>1. PICK page \in 0 .. currentPage + 1 :
            /\ label' = Label(page, Pages(totalRows))
            /\ currentPage' = Clamp(page, Pages(totalRows))
    BY <1>5 DEF TableFrame
  <2>2. page \in Nat
    BY <1>2
  <2>3. currentPage' \in Nat /\ label' \in Seq(Nat)
    BY <1>2, <1>3, <2>1, <2>2, ClampFits
  <2>4. drawn' = PageRows(currentPage', rows) /\ totalRows' = rows /\ rows' = rows
    BY <1>5 DEF TableFrame
  <2>5. drawn' \subseteq Nat
    BY <1>2, <2>3, <2>4, PageRowsInBounds
  <2>6. PaneTypeOK'
    BY <1>1, <2>3, <2>4, <2>5 DEF PaneTypeOK
  <2> QED BY <1>1, <2>4, <2>6 DEF Displayed
<1> QED BY <1>4, <1>5 DEF PaneFrame

(* The console advances without the pane: a new answer is never the one    *)
(* on display.                                                             *)
LEMMA ConsoleKeepsPaneInv ==
    ASSUME PaneInv, ConsoleStep PROVE PaneInv'
<1> USE DEF PaneInv, PaneTypeOK, Unanswered, Displayed, paneVars
<1>1. CASE latest < MaxLaunches /\ Launch /\ UNCHANGED rows
  BY <1>1, PaneAssumption DEF ConsoleStep, Launch
<1>2. CASE Withdraw /\ UNCHANGED rows
  BY <1>2 DEF ConsoleStep, Withdraw
<1>3. CASE Answer /\ rows' \in 0 .. MaxRows
  BY <1>3 DEF ConsoleStep, Answer
<1>4. CASE Finish /\ UNCHANGED rows
  BY <1>4 DEF ConsoleStep, Finish
<1> QED BY <1>1, <1>2, <1>3, <1>4 DEF ConsoleStep

(* A frame may start a download, with an identity not in use.              *)
LEMMA FrameKeepsLogoInv ==
    ASSUME LogoInv, LogoFrame PROVE LogoInv'
<1> USE DEF LogoInv, LogoTypeOK, TexturesReal
<1>1. CASE WantLogo /\ GetImTextureViaURL
  BY <1>1, LogoAssumption DEF WantLogo, GetImTextureViaURL, ToSet
<1>2. CASE UNCHANGED logoVars
  BY <1>2 DEF logoVars, ToSet, IsInjective
<1> QED BY <1>1, <1>2 DEF LogoFrame

(* A download ends, or the main queue hands its oldest texture over.       *)
LEMMA AdvanceKeepsLogoInv ==
    ASSUME LogoInv, LogoAdvances PROVE LogoInv'
<1> USE DEF LogoInv
<1>1. CASE \E d \in Downloads : DownloadFails(d)
  BY <1>1 DEF DownloadFails, LogoTypeOK, TexturesReal, ToSet, IsInjective
<1>2. ASSUME NEW d \in Downloads, DownloadSucceeds(d)
      PROVE  LogoInv'
  <2>1. d \in started /\ d \notin loaded
    BY <1>2 DEF DownloadSucceeds
  <2>2. /\ started' = started \ {d} /\ loaded' = loaded \cup {d}
        /\ mainQueue' = Append(mainQueue, d) /\ menuLogo' = menuLogo
    BY <1>2 DEF DownloadSucceeds, Deliver
  <2>3. \A i \in DOMAIN mainQueue : mainQueue[i] \in loaded /\ mainQueue[i] # menuLogo
    BY DEF TexturesReal, ToSet
  <2>4. /\ mainQueue' \in Seq(Downloads)
        /\ \A i \in DOMAIN mainQueue' :
               \/ i = Len(mainQueue) + 1 /\ mainQueue'[i] = d
               \/ i \in DOMAIN mainQueue /\ mainQueue'[i] = mainQueue[i]
    BY <2>2 DEF LogoTypeOK
  <2>5. LogoTypeOK'
    BY <2>2, <2>4 DEF LogoTypeOK
  <2>6. menuLogo # d
    BY <2>1, LogoAssumption DEF TexturesReal
  <2>7. ToSet(mainQueue') \subseteq loaded' \ {menuLogo'}
    BY <2>2, <2>3, <2>4, <2>6 DEF ToSet
  <2>8. IsInjective(mainQueue')
    <3>1. \A i, j \in DOMAIN mainQueue : mainQueue[i] = mainQueue[j] => i = j
      BY DEF TexturesReal, IsInjective
    <3> QED BY <2>1, <2>3, <2>4, <3>1 DEF IsInjective
  <2>9. menuLogo' # NoLogo => menuLogo' \in loaded'
    BY <2>2 DEF TexturesReal
  <2>10. started' \cap loaded' = {}
    BY <2>2
  <2> QED BY <2>5, <2>7, <2>8, <2>9, <2>10 DEF TexturesReal
<1>3. CASE RunBlock
  <2>1. /\ mainQueue # <<>> /\ menuLogo' = Head(mainQueue)
        /\ mainQueue' = Tail(mainQueue) /\ UNCHANGED <<started, loaded>>
    BY <1>3 DEF RunBlock
  <2>2. /\ Head(mainQueue) = mainQueue[1] /\ 1 \in DOMAIN mainQueue
        /\ Tail(mainQueue) \in Seq(Downloads)
        /\ \A i \in DOMAIN Tail(mainQueue) :
               /\ i \in Nat
               /\ i + 1 \in DOMAIN mainQueue /\ i + 1 # 1
               /\ Tail(mainQueue)[i] = mainQueue[i + 1]
    BY <2>1 DEF LogoTypeOK
  <2>3. \A i, j \in DOMAIN mainQueue : mainQueue[i] = mainQueue[j] => i = j
    BY DEF TexturesReal, IsInjective
  <2>4. \A i \in DOMAIN mainQueue : mainQueue[i] \in loaded /\ mainQueue[i] \in Downloads
    BY DEF TexturesReal, ToSet, LogoTypeOK
  <2>5. LogoTypeOK'
    BY <2>1, <2>2, <2>4 DEF LogoTypeOK
  <2>6. ToSet(mainQueue') \subseteq loaded' \ {menuLogo'}
    BY <2>1, <2>2, <2>3, <2>4 DEF ToSet
  <2>7. IsInjective(mainQueue')
    BY <2>1, <2>2, <2>3 DEF IsInjective
  <2> QED BY <2>1, <2>2, <2>4, <2>5, <2>6, <2>7 DEF TexturesReal
<1> QED BY <1>1, <1>2, <1>3 DEF LogoAdvances

-----------------------------------------------------------------------------
(* The two parts share no variable, so each keeps its own half.            *)
IInv == PaneInv /\ LogoInv

LEMMA InitIInv == WindowInit => IInv
<1> SUFFICES ASSUME WindowInit PROVE IInv
  OBVIOUS
<1>1. LogoInv
  BY DEF WindowInit, LogoInit, LogoInv, LogoTypeOK, TexturesReal, ToSet, IsInjective
<1> QED BY <1>1, InitPaneInv DEF WindowInit, IInv

LEMMA NextIInv == IInv /\ [WindowNext]_windowVars => IInv'
<1> SUFFICES ASSUME IInv, [WindowNext]_windowVars PROVE IInv'
  OBVIOUS
<1> USE DEF IInv
<1>1. CASE Frame
  BY <1>1, FrameKeepsPaneInv, FrameKeepsLogoInv DEF Frame
<1>2. ASSUME UNCHANGED <<consoleVars, paneVars>> PROVE PaneInv'
  BY <1>2 DEF consoleVars, paneVars, PaneInv, PaneTypeOK, Unanswered, Displayed
<1>3. ASSUME UNCHANGED logoVars PROVE LogoInv'
  BY <1>3 DEF logoVars, LogoInv, LogoTypeOK, TexturesReal, ToSet, IsInjective
<1>4. CASE QueryAdvances
  BY <1>3, <1>4, ConsoleKeepsPaneInv DEF QueryAdvances
<1>5. CASE LogoAdvances
  BY <1>2, <1>5, AdvanceKeepsLogoInv DEF LogoAdvances
<1>6. CASE UNCHANGED windowVars
  BY <1>2, <1>3, <1>6 DEF windowVars
<1> QED BY <1>1, <1>4, <1>5, <1>6 DEF WindowNext

(* The inductive invariant of the window.                                  *)
THEOREM Invariance == WindowSpec => []IInv
<1>1. WindowSpec => WindowInit /\ [][WindowNext]_windowVars
  BY PTL DEF WindowSpec
<1> QED BY <1>1, InitIInv, NextIInv, PTL

(* The variables of the pane keep their types: no page is negative.        *)
THEOREM PaneTypesHold == WindowSpec => []PaneTypeOK
<1>1. IInv => PaneTypeOK
  BY DEF IInv, PaneInv
<1> QED BY <1>1, Invariance, PTL

(* The variables of the logo keep their types: only downloads arrive.      *)
THEOREM LogoTypesHold == WindowSpec => []LogoTypeOK
<1>1. IInv => LogoTypeOK
  BY DEF IInv, LogoInv
<1> QED BY <1>1, Invariance, PTL

(* Whatever the size of a page and of the answers, and however stale the   *)
(* page number, the table never reads past the rows it has copied.         *)
THEOREM DrawnInBoundsHolds == WindowSpec => []DrawnInBounds
<1>1. IInv => DrawnInBounds
  <2> SUFFICES ASSUME IInv, table # 0 PROVE drawn \subseteq 0 .. totalRows - 1
    BY DEF DrawnInBounds
  <2>1. totalRows \in Nat /\ currentPage \in Nat
    BY PaneAssumption DEF IInv, PaneInv, PaneTypeOK
  <2> QED BY <2>1, PageRowsInBounds DEF IInv, PaneInv, Displayed
<1> QED BY <1>1, Invariance, PTL

(* A stale page number blanks an answer that has rows for one frame at     *)
(* most, whichever button is clicked in the next one.                      *)
THEOREM OneBlankFrameHolds == WindowSpec => []OneBlankFrame
<1>1. IInv => OneBlankFrame
  <2> SUFFICES ASSUME IInv, table # 0, table = answer, rows > 0,
                      NEW page \in 0 .. currentPage + 1
               PROVE  PageRows(Clamp(page, Pages(totalRows)), rows) # {}
    BY DEF OneBlankFrame
  <2>1. rows \in Nat /\ currentPage \in Nat /\ page \in Nat /\ totalRows = rows
    BY PaneAssumption DEF IInv, PaneInv, PaneTypeOK, Displayed
  <2>2. Pages(rows) \in Nat /\ Pages(rows) > 0
    <3>1. 0 * RowsPerPage = 0
      BY PaneAssumption
    <3> QED BY <2>1, <3>1, PagesCover
  <2>3. Clamp(page, Pages(rows)) \in Nat /\ Clamp(page, Pages(rows)) < Pages(rows)
    BY <2>1, <2>2, ClampFits
  <2> QED BY <2>1, <2>3, PageRowsInBounds
<1> QED BY <1>1, Invariance, PTL

(* Once a frame has printed rows of an answer, the label of the next tells *)
(* which rows are printed.                                                 *)
THEOREM LabelTellsHolds == WindowSpec => LabelTells
<1> DEFINE Tells == PaneFrame /\ table # 0 /\ table = answer /\ drawn # {} =>
                       IF label' = <<>> THEN drawn' = 0 .. rows - 1
                       ELSE drawn' = PageRows(label'[1] - 1, rows) /\ label'[2] = Pages(rows)
<1>1. IInv => Tells
  <2> SUFFICES ASSUME IInv, PaneFrame, table # 0, table = answer, drawn # {}
               PROVE  IF label' = <<>> THEN drawn' = 0 .. rows - 1
                      ELSE drawn' = PageRows(label'[1] - 1, rows) /\ label'[2] = Pages(rows)
    OBVIOUS
  <2>1. rows \in Nat /\ currentPage \in Nat /\ totalRows = rows
    BY PaneAssumption DEF IInv, PaneInv, PaneTypeOK, Displayed
  <2>2. currentPage < Pages(rows) /\ Pages(rows) \in Nat
    BY <2>1, PageRowsInBounds, PagesCover DEF IInv, PaneInv, Displayed
  <2>3. TableFrame
    BY DEF PaneFrame, EmptyFrame
  <2>4. PICK page \in 0 .. currentPage + 1 :
            /\ Turn(page, Pages(rows))
            /\ label' = Label(page, Pages(rows))
            /\ currentPage' = Clamp(page, Pages(rows))
    BY <2>1, <2>3 DEF TableFrame
  <2>5. page \in Nat /\ page < Pages(rows)
    BY <2>1, <2>2, <2>4 DEF Turn
  <2>6. drawn' = PageRows(page, rows)
    BY <2>2, <2>3, <2>4, <2>5, ClampFits DEF TableFrame
  <2>7. CASE Pages(rows) > 1
    <3>1. label' = <<page + 1, Pages(rows)>>
      BY <2>4, <2>7 DEF Label
    <3>2. label' # <<>> /\ label'[1] - 1 = page /\ label'[2] = Pages(rows)
      BY <2>5, <3>1
    <3> QED BY <2>6, <3>2
  <2>8. CASE ~(Pages(rows) > 1)
    <3>1. label' = <<>>
      BY <2>4, <2>8 DEF Label
    <3>2. page = 0 /\ rows <= RowsPerPage
      <4>1. ~(1 < Pages(rows)) => ~(1 * RowsPerPage < rows)
        BY <2>1, PagesCover
      <4> QED BY <2>1, <2>2, <2>5, <2>8, <4>1, PaneAssumption
    <3>3. PageRows(0, rows) = 0 .. rows - 1
      <4>1. 0 * RowsPerPage = 0 /\ RowsPerPage \in Nat
        BY PaneAssumption
      <4>2. (IF 0 + RowsPerPage < rows THEN 0 + RowsPerPage ELSE rows) = rows
        BY <2>1, <3>2, <4>1
      <4> QED BY <4>1, <4>2 DEF PageRows
    <3> QED BY <2>6, <3>1, <3>2, <3>3
  <2> QED BY <2>2, <2>7, <2>8
<1>2. IInv => [Tells]_<<consoleVars, paneVars>>
  BY <1>1
<1> QED BY <1>2, Invariance, PTL DEF LabelTells

(* The main queue and the window hold textures that have been made, each   *)
(* of them once.                                                           *)
THEOREM TexturesRealHolds == WindowSpec => []TexturesReal
<1>1. IInv => TexturesReal
  BY DEF IInv, LogoInv
<1> QED BY <1>1, Invariance, PTL

(* Once shown, the logo does not disappear.                                *)
THEOREM LogoStaysHolds == WindowSpec => LogoStays
<1>1. IInv /\ [WindowNext]_windowVars => [menuLogo # NoLogo => menuLogo' # NoLogo]_logoVars
  <2> SUFFICES ASSUME IInv, [WindowNext]_windowVars, menuLogo # NoLogo, menuLogo' = NoLogo
               PROVE  UNCHANGED logoVars
    OBVIOUS
  <2>1. CASE Frame
    BY <2>1 DEF Frame, LogoFrame, WantLogo
  <2>2. CASE QueryAdvances
    BY <2>2 DEF QueryAdvances
  <2>3. CASE LogoAdvances
    <3>1. ASSUME RunBlock PROVE FALSE
      <4>1. Head(mainQueue) \in Downloads
        BY <3>1 DEF RunBlock, IInv, LogoInv, LogoTypeOK
      <4> QED BY <3>1, <4>1, LogoAssumption DEF RunBlock
    <3> QED BY <2>3, <3>1 DEF LogoAdvances, DownloadFails, DownloadSucceeds
  <2>4. CASE UNCHANGED windowVars
    BY <2>4 DEF windowVars
  <2> QED BY <2>1, <2>2, <2>3, <2>4 DEF WindowNext
<1>2. WindowSpec => [][WindowNext]_windowVars
  BY PTL DEF WindowSpec
<1> QED BY <1>1, <1>2, Invariance, PTL DEF LogoStays
=============================================================================
