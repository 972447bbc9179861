# Verification of DBGui

DBGui is a macOS client for MariaDB: one window, drawn with Dear ImGui, in which
the user fills in a connection form, writes SQL in an editor with syntax
colouring, runs it and pages through the result. This directory holds TLA+
specifications of its core logic, the TLC configurations that model-check them,
and TLAPS proofs of what matters most.

## The system

| Component | Source | State | Operations | Talks to |
|---|---|---|---|---|
| DBManager | `UserWindow/DBManager.h`, `.mm` | form buffers, `Client`, `IsConnected`, `QueryInProgress`, `QueryFinished`, `QueryColumns`, `QueryRows`, `QueryMutex`, `ConnectionStatus`, `Old*` | `ConnectToDatabase`, `DisconnectFromDatabase`, `ExecuteSqlQueryAsync`, `ExecuteQueryThread`, `ShowSqlDatabaseEditor` | a GCD queue (connect workers), detached threads (queries), MariaDBClient |
| Result pane | `DBManager.mm` 214-275 | statics `currentPage`, `totalRows` | Previous, Next, draw | the published result of DBManager |
| Logo loader | `DBManager.mm` 16-70, 171-185 | `menuLogo` | start a download, deliver a texture | NSURLSession, the main queue |
| MariaDB client kit | `DBConnect/MariaDB/*.m` | the handle `mysql`; a result set over it | connect, executeQuery, next:, dealloc | libmariadb |
| Singleton | `Utilities/Singleton.hpp` | `instance_`, `instanceOwner_`, `instanceMutex_` | `GetInstance`, `DestroyInstance` | FontRanges |
| CTextEditor | `Utilities/CTextEditor/CTextEditor.cpp`, `.h` | lines of glyphs, cursors, undo buffer and index, `m_bDraggingSelection`, `m_bCursorPositionChanged`, colour range | about thirty key commands, the tool bar's six, mouse clicks and drags, undo, redo, colouring | DBManager draws its tool bar and reads its text; ImGui gives it keys, mouse and clipboard |
| Language definitions | `Utilities/CTextEditor/LanguageDefinitions.cpp` | none | tokenizers | CTextEditor |
| DBGui widgets | `Utilities/DBGui/DBGUI.cpp` | the active drag button, animation state | Button, Spinner, ... | ImGui |
| Application shell | `main.mm` | view, window | one frame per `drawInMTKView` | DBManager |

What is hard is where these meet. The UI thread, connect workers and query
threads share one DBManager object through three atomics, one mutex and a bare
strong pointer. The mutex covers the published result only; everything else is
ordered by the flags, by what the UI chooses to draw, or not at all. A query
keeps reading rows from the handle of a client that Disconnect may drop at any
time. Nothing has a timeout. `PROJECT.json` lists each hazard at its line.

What makes each part correct:

- *DBManager*: one query at a time; the table shows one query's answer, whole,
  the latest; it stays until the next launch; the spinner stops; the status
  line and `IsConnected` agree with the sessions that exist.
- *Result pane*: never prints past the rows; a stale page number heals, and so
  does the label beside the buttons.
- *Logo loader*: only real textures are shown, and a shown logo stays.
- *Singleton*: one object, owned; the unlocked read never hands out a dead one
  outside the window between delete and clear.
- *CTextEditor*: undo and redo lead through the versions of the text; cursors
  stay on lines that exist and apart from each other; columns and indices
  convert consistently; a paste puts back what a cut took; assertions fail in
  known cases only; a changed line gets the colours of its tokens, and a changed
  text is scanned for comments; a bracket is matched with its partner, and comments
  are found where they are.

## Modules

| Module | What it is |
|---|---|
| `QueryConsole` | the abstract specification: what the console promises about running, answered and displayed queries |
| `DBManager` | the manager, its UI thread, workers and query threads; its invariants, action properties, liveness; the refinement mapping `Console` |
| `DBManagerProofs` | TLAPS: the inductive invariant and the theorems about `Spec`; then what the manager gives a user who waits for background work |
| `ResultPane` | the pager, on top of `QueryConsole` |
| `LogoLoader` | the logo, its downloads and the main queue |
| `EditorWindow` | the frame that composes `ResultPane` and `LogoLoader` |
| `EditorWindowProofs` | TLAPS: theorems about the pane and the logo |
| `Singleton`, `SingletonProofs` | the double-checked singleton and its proofs |
| `EditorCoords` | the text editor's coordinates: columns, glyph indices, words, ranges, occurrences; pure operators |
| `EditorCoordsProofs` | TLAPS: indices and columns of any line, and where computed coordinates lie |
| `EditorCursors` | the cursors: selection, sorting, merging, movements |
| `EditorColoring` | the range of lines to be coloured, its requests and its consumption |
| `EditorMarks` | the match of a bracket and the scan for comments; pure operators, with reference definitions |
| `EditorMarksProofs` | TLAPS: the match of a bracket, and the comments, in any text |
| `EditorBuffer` | insertion and removal of text, and how each carries the cursors along |
| `EditorBufferProofs` | TLAPS: movements, text changes, sorting and merging keep the cursors in the text; a request for colours and a frame leave no line behind; a deletion and an insertion are undone by their inverses |
| `EditorCommands` | every command, the undo records they write, undo and redo |
| `UndoHistory`, `UndoHistoryProofs` | the abstract specification of undo, and theorems about it |
| `TextEditor` | the editor in its window, frame by frame: tool bar, keys, typed characters, mouse; the properties |
| `TextEditorProofs` | TLAPS: what every command makes of the editor, its inductive invariant, and the theorems about `Spec` |
| `MC*` | small instances for TLC |

### DBManager

One action per access to shared state, so that every interleaving of the three
kinds of threads at that grain is explored. Within a thread, accesses that no
other thread can see are joined to the next one; taking `QueryMutex` and the
first access under it are one step.

- *UI thread.* A frame is `Form` (InputText, Connect, Disconnect), then
  `Results` (an empty pane, or the locked copy of columns then rows), then `Run`
  (spinner or button). `ConnectToDatabase` and `DisconnectFromDatabase` are cut
  at every shared access (`ReleaseClient`, `ClearConnected`, `SayDisconnected`,
  `Dispatch`), `ExecuteSqlQueryAsync` at its two stores (`Launch`,
  `ClearFinished`).
- *Workers and query threads* run the same connecting code, so they share its
  actions from `ReadForm` to `StoreConnected`; a worker then reports its
  verdict, a query thread queries whether or not it is connected, fetches and
  publishes.
- *Objects.* `client` is the strong pointer; a thread holds an object from
  the load of the pointer, but keeps it alive only while a call to it lasts. An
  object that is used when not alive, or a handle used by two threads at once,
  is `Crash`: the process stops there. Undefined behaviour has other outcomes;
  they are all counted as this one, and no property speaks of what follows it.
- *Abstractions.* The five form buffers are one value, as the code uses them
  together; a thread that reads them across an edit gets `Torn`. The comparison
  of Connect omits the password, and so do `Servers`. A result is the pair of
  the query it answers and the server whose rows it shows (`Nil` for an error
  row). The status texts are names. The GCD thread pool's own limit is not
  modelled: a worker starts when it is scheduled.

The constant `Patient` says what kind of user there is. An impatient one acts in
any frame. A patient one acts only when no background thread is at work: for the
properties that an impatient user really breaks (see Findings), the `patient`
run shows that they hold otherwise, so that the interleaving is the only cause.
The theorems hold for both.

### ResultPane, LogoLoader, EditorWindow

`DrawnInBounds`, `OneBlankFrame`: the page count a frame clamps with is that of
the row count of an earlier frame. `LabelTells` is about the text "Page n/m",
written before that clamp. The pane is built on `QueryConsole`, whose
behaviours include those of DBManager by the refinement. `LogoLoader` lets
downloads overlap, fail and arrive late; the main queue is a sequence. A frame
runs both in one step, as the main thread does; blocks of the main queue run
between frames.

### Singleton

Each load, store, lock, delete and reset is a step. Freed addresses are reused.

### The text editor

`EditorCoords`, `EditorCursors`, `EditorColoring`, `EditorBuffer` and
`EditorCommands` extend each other and hold operators, not variables: a
command maps the *work* `w` (a record of the lines, the cursors, the flags, the
clipboard, the range to be coloured, the undo buffer and the record under
construction) to the set of works it may end with. There is more
than one because `std::sort` may order equal cursors either way. A loop over the
cursors from the last to the first is `BottomUp`. `TextEditor` has the work as
its variable `editor` and one action per button, key and mouse gesture.

- *The frame.* `phase` goes from "toolbar" (`ShowSqlDatabaseEditor` draws the
  buttons before the editor) through `BeginRender` (sort and merge if a cursor
  has moved) to "keys" (at most one key, the first that matches), "typing" (the
  input queue) and the mouse, which ends the frame; `EndFrame` is a frame in
  which nothing is clicked. So commands of one frame run on cursors that the
  one before may have left unsorted, as in the code.
- *Text.* A glyph is a byte. Those told apart are a tab, a space, the lead and
  the continuation byte of a two-byte character, the punctuation of an SQL
  comment, and others (the constant `Glyph`). The skipping of '\r' is left out. A
  `Line` holds whole characters, and so does a `Passage`, which may have line
  breaks: the initial text and the clipboard are valid UTF-8, and ImGui hands over
  typed characters whole. That the commands keep it so, with their cuts by column
  and by index, is `CharactersWhole`.
- *Colours.* The regexes and keyword tables that give a token its colour are left
  out; what is modelled is which lines have been coloured since their glyphs
  changed (`fresh`, kept line by line through every change) and the range
  `m_iColorRangeMin`, `m_iColorRangeMax` that commands widen (`Colorize`) and
  every frame consumes (`ColorizeInternal`, at most `ColorIncrement` lines: the
  10 of the code, or 1 to make a small text take several frames). A line without
  glyphs has no colours and counts as coloured. `ColoursFollowText` says that no command leaves a
  changed line outside the range, with three exceptions that are the code's own
  (see Runs). It is about the colours of tokens (`m_ColorIndex`). The flags of comments
  reach from line to line and are renewed by a scan of the whole text, which a
  command asks for with `m_bCheckComments` (`scan`): `ScanFollowsText` says that every
  change of the text is followed by one, but for LinesUp, LinesDown and RemoveLines
  without a selection. These three never call `Colorize` (1405, 1448, 1560), so that
  the lines below a comment sign that is moved or removed keep the colour of its
  comment until something else is edited.
- *Marks.* `EditorMarks` holds the scan for a bracket's match and the scan for
  comments with its string, escape and continuation states, for a text as one
  sequence of glyphs and line breaks, each beside a reference definition that
  does not scan (`Pairs`: a stack; `InSingleLineComment`, `InMultiLineComment`:
  quantifiers over signs). The flags are kept from scan to scan, and the scan starts
  with those the glyphs have (`flags`). It writes `m_bMultiLineComment` for every
  character it meets, but `m_bComment` outside strings only (2843): a glyph of a
  comment that has come to lie in a string keeps that flag, and its colour, for
  good, which `CommentsFound` states as it is. The scan steps by characters (2856):
  the second byte of one is never looked at and keeps the flags it has; nothing
  draws it by itself.
- *Cursors.* The sequence `cursors` is the vector up to `m_iCurrentCursor`; what
  lies behind is never read before it is written.
- *Undo.* A record has the operations, `before` and `after` of the code, and two
  history fields `from` and `to`: the text when the command began and ended.
  They are never read by an action. `Versions` reads the line of versions off
  them, and the refinement `History` maps undo buffer and index to
  `UndoHistory`: every command appends its version, and undo and redo must show
  exactly the version they step to.
- *Assertions.* A failed assertion of `GetText`, `FindNextOccurrence` or the
  constructor of `Coordinates` sets `aborted`, and the program stops. The
  other assertions hold by construction of the operands here.
- *Over-approximations.* A double or triple click need not follow a first one.
  A click can land on any edge of a character.

Not modelled: scrolling and `EnsureCursorVisible`, panning, read-only mode, which
nothing switches on, and the programming interface that the window does not use
after `SetText` (regions, `SelectAllOccurrencesOf`).

## Runs

| Run | Bounds | Shows |
|---|---|---|
| `console` | 1 server, 1 worker, 2 query threads, 3 clients, 2 queries | types, one query thread, whole and latest results, stable results, refinement of `QueryConsole`, for an impatient user |
| `live` | 1 server, 1 worker, 1 query thread, 2 clients, 1 query | the spinner stops, the answer is shown |
| `patient` | 2 servers, 1 worker, 2 query threads, 3 clients, 2 queries | no use after release, connection and rows match the form, true status line; no deadlock |
| `disconnected`, `already` | 1 server, 1 worker, 1 query thread | the two findings |
| `window` | pages of 2 rows, up to 5 rows, 2 queries, 2 downloads | pager, its label, and logo |
| `singleton` | 2 getters, 2 destroyers, 2 addresses | one instance, live fast path |
| `editor` | 1 cursor, 6 bytes, 2 undo records; a text with a tab, a two-byte character typed | types, whole characters, coordinates, colours, scans asked for, refinement of `UndoHistory` |
| `selection` | 1 cursor with selections, 5 bytes, 1 undo record | undo and redo invert commands, colours, scans asked for |
| `cursors` | 2 cursors, 4 bytes, 1 undo record; two lines with the same word | cursors apart and on lines, drags, which assertions fail |
| `clipboard` | 2 cursors, 4 bytes, 2 undo records, 1 line coloured in a frame; every text of up to 6 brackets, of up to 6 glyphs of comments and strings, or of up to 5 with two-byte characters | paste puts back what a cut took; colours over several frames; which assertions fail; brackets and comments are found |
| `cutassert` | 2 cursors, 3 bytes | the third finding |

Why the bounds are enough: two query identities are what it takes for a second
query to overlap the first, and two queries for an answer to be stale. A worker
and a query thread together already give two concurrent connects on one object.
Three clients are those that can be reachable at once (the pointer, the
worker's, the query thread's). Five rows in pages of two give an empty, a full, a
partial and a last page, and page numbers stale in both directions. In
`console` one server suffices, as none of its properties compares servers (with
two, an impatient user has more states than a run can visit; the proofs cover
any number, `Torn` reads included). The
runs with an impatient user do not check deadlock: after `Crash` the process has stopped, and
that is a state without successors. In `live`, one query suffices for "comes to
an end", and larger instances take too long for the liveness check.

The editor's runs differ in the commands they serve, the cfg's `Commands`:
each takes those its properties are about, and together they take all (undo by
the key and redo by the tool bar in `editor`, the other two in `selection`). A
tab stop of two, a tab and a two-byte character are enough for a column to fall
inside a tab and for indices and columns to drift apart. Two cursors are enough
to overlap, coincide, be out of order and write on one line; two undo records to
cut off an undone future and to walk two versions back and forth. The parts of
the input space a run leaves out for a reason are these, each a hazard in
`PROJECT.json`; in each of them the property in brackets fails:

- Up and Down with undo in `editor` (`UndoRestoresText`): a caret left behind
  the end of a shorter line, or inside a tab. `UndoInvertsCommand` includes them
  under a premise.
- A selection together with LinesDown (`CursorsInText`).
- A pane of fewer than two lines with PageUp (`CursorsInText`).
- Typed characters, or Redo, in `cursors` (`CursorsApart`): what was typed behind a
  key of the same frame is recorded with cursors not yet merged, and redo puts back
  the cursors of right after the command, which only the next frame would have
  merged. With Redo, TLC's trace is: two cursors, Backspace, Undo, Redo, and both
  cursors stand at one place when the keys are served.
- Keys while the button is down, and a release outside the window (`CursorsApart`,
  `DragMovesOneCursor`).

Three cases are excepted in `ColoursFollowText` itself, each a hazard, since the
code does leave lines behind there: a redo asks for one line less than the undo
(`CTextEditor.cpp` 631, 638); breaks entered at several cursors are asked for by
the line numbers of before the breaks above them (1102); and a command that
moves lines does not move what an earlier command of the frame asked for (2615).
So in the premise all other lines are coloured, or the command edits one line.

`ScanFollowsText` names its three commands itself, and fails without them.

Assertions do fail in `cursors` and `clipboard`, and those two runs check
`FailsOnlyUnasserted`: only where `Asserted` is not met. In `cursors` a caret stands beside
a selection that is typed over, the next occurrence of nothing is looked for, and
lines are removed until none is left; in `clipboard` cuts and pastes meet a caret
beside a selection. Cut in `cursors` would need more states than a run has.

For brackets, six glyphs hold three pairs, nested, in a row, crossed with the
other kind, and one too many. For comments, six glyphs hold an opened and closed
comment with two glyphs more to be in or out of it, and strings and line breaks
around each sign; five hold a two-byte character in or beside a comment. No glyph, or
every glyph, was flagged before. The reference says nothing of a text in whose strings a
backslash stands: an escaped quote there is the code's own convention. TLC
computes both constants once; the `clipboard` run carries them as invariants.

Three cursors, which can be merged wrongly (`MergeOverlapping` takes each pair
once), need more states than a run has.

The editor's runs do not check deadlock: a failed assertion stops the program.

The symmetry of `console` permutes servers, query threads and clients, which
appear in no action by name; the run has no liveness property.

Each property of a passing run is falsified by a mutant of the code, defined
just before the definition it replaces.

### Fairness

Frames are drawn by the display link for as long as the program runs
(`drawInMTKView`), so the UI thread's own steps are weakly fair; the steps that
are the user's decision are not. Threads are scheduled, and a connect, a query
and a fetch each return or fail; that is an assumption about the server and
TCP, since the code sets no timeout. Weak fairness suffices for `QueryMutex`:
whoever holds it releases it in its next step and does not take it again
before a whole frame, or at all. In `WindowSpec` only the main queue is fair.

## What is proved

For every value of the constants that satisfies the assumptions named in the
modules, with `tlapm`:

- `DBManagerProofs`: `TypesHold`, `OneQueryThreadHolds`,
  `FinishedIsLatestHolds`, `ViewIsOneResultHolds`, `ResultStableHolds` and
  `ImplementsConsoleHolds` (`Spec => Console!Spec`).
- There too, under the assumption `Patient`: `PatientInvariance`,
  `NoCrashHolds`, `ConnectedToOldHolds`, `StatusTellsHolds`, `RowsFromOldHolds`.
- `EditorWindowProofs`: `PaneTypesHold`, `LogoTypesHold`, `DrawnInBoundsHolds`,
  `OneBlankFrameHolds`, `LabelTellsHolds`, `TexturesRealHolds`, `LogoStaysHolds`.
- `EditorCoordsProofs`: `StopsOrdered`, `IndexRoundTrips`; `EditorBufferProofs`:
  `MovementsStayInText`, `CursorsStaySound`, `SortingSetsApart`, `ColorizeCovers`,
  `ColorizeInternalKeeps`, `DeletionIsUndone`, `InsertionIsUndone`. These are about
  operators, for every text and any number of cursors.
- `TextEditorProofs`: `CursorsStayInText`, `CursorsStayInRestoredText`,
  `ColumnsAlwaysRoundTrip`, `DragsMoveOneCursor`, `CursorsStayApart`,
  `CursorsStayApartWithUndo`, `AssertionsHold`, `CharactersStayWhole`,
  `EditorKeepsShape`. These are about the editor's `Spec`, under premises explained
  below.
- `EditorMarksProofs`: `EveryBracketPaired`, for every text of any length, and
  `EveryCommentIsFound`, for every one of whole characters whose strings hold no
  backslash, whatever its glyphs were flagged before; `BracketsStayMatched` and `CommentsStayMarked`, the same for the texts the run
  scans.
- `SingletonProofs`: `Invariance`, `OneInstanceHolds`, `FastPathLiveHolds`.
- `UndoHistoryProofs`: `ShowsVersionHolds` and `PastIsKeptHolds`, about the
  abstract undo history. They say what `UndoRestoresText` gives the user: that
  the text shown is the one the index names, and that what is undone down to
  is what was there. The refinement itself is model-checked.

The argument for UndoHistory: `ShowsVersion` needs the types of the three
variables beside it, since an edit may append a version only inside the line of
versions; with them every action preserves it, and `PastIsKept` follows from
`Append` and `SubSeq` leaving the first `index + 1` elements alone.

The argument for DBManager. None of the safety invariants is inductive.
`IInv` adds what the code relies on without saying so: a query thread exists
only while `QueryInProgress` is set and no launch is under way, executes the
latest query, and has `QueryFinished` FALSE until it sets it in its
second-to-last act (`Running`); the click that leads to a launch has seen the
flag clear, and only the UI thread can set it again (`LaunchReady`); while the
old answer awaits its withdrawal it belongs to an earlier query (`Launching`);
and the UI thread copies only finished results (`Copying`). `QueryMutex` does
not occur in `IInv`: the flags alone keep the writer and the reader of the result
apart, and the lock would matter only if the publishing order were changed. All
steps of connecting and querying before publication preserve the protocol for
one reason, stated once as `Advance`; the proof then has one case per action
that does more. For the refinement, `Launch`, `ClearFinished`, `WriteRows`,
`ClearProgress`, and the frame's `EmptyPane` or `CopyRows` map to the console's
`Launch`, `Withdraw`, `Answer`, `Finish` and `Draw`; every other step stutters.

The argument for a patient user. `PatientInv` rests on two facts: no click is
carried out while a background thread is at work (`ActsQuietly`), and at most
one thread is at work at all (`Solo`), because a click starts one thread and the
next click waits for it. Then a worker finds the form as `ConnectToDatabase`
remembered it and the manager not connected, so that it connects the one client
to the remembered server (`WorkerKnows`); a query thread finds the manager
connected, never connects, and reads from the current client (`QueryKnows`). No
thread can meet another's release, which is `NoCrash`. `StatusKnown` is
`StatusTells` extended to the moments between a click and its effects. The case
analysis over `Next` follows the actions; the steps of an arbitrary thread are
first shown to be steps of the only one (`Alone`).

The argument for the window. `Displayed` adds to the types that the rows on
display are those of the current page of `totalRows`, and that `totalRows` is
the row count of the answer as long as that answer is the one on display;
`Unanswered` says why: a new answer comes with a new number. `DrawnInBounds` is then
the definition of `PageRows`. `OneBlankFrame` and `LabelTells` need arithmetic,
stated once as `PagesCover`: a page is below `Pages(n)` exactly when it starts
before row `n`. `LogoStays` needs `TexturesReal`: a block on the main queue holds
a texture, so running it replaces a logo by a logo.

The argument for the text editor. `CursorsInText` and `ColumnsRoundTrip` are not
inductive: they say nothing of columns, of the clipboard, or of what a step of a
command relies on. `Sane` does: the text has a line, there is at least one
cursor, both ends of each lie in the text, the lines, the clipboard and the
operations noted so far hold whole characters, and each undo record has cursors that lie in the text it starts
from and in the text it ends with. That a cursor lies in the text (`Places`)
allows columns behind the end of its line, where Up and Down leave it; that the
lookups then still give a glyph of the line or its end is what `IndexRoundTrips`
and the lemmas beside it are for.

The proof goes bottom up. `EditorCoordsProofs` shows where each computed
coordinate lies. `EditorBufferProofs` shows that each change of the text (insert
a glyph, break a line, delete a range, remove lines) and each movement leaves the
work `Sound`. `TextEditorProofs` has one lemma per command about its `Outcome`: a
failed assertion, a sound work with the history as it was, or a sound work with
one record more, whose texts are the one before the command and the one after it.
A frame's steps are then cases over `Next`. The mouse steps are shown to do what
the work allows and to set the flag of the drag (`Makes`).

Undo and redo put cursors back without a look at the text. They fit if the text is
the one the record knows, which is `UndoRestoresText`: checked by TLC in the
`editor` run, and disproved when Up and Down are added to its commands (see
Runs). So it is a premise: given that each step is a step of the abstract
history, `Shows` (the text is the version the index names) and `Chain` (each record
starts where the one before it ended) follow by induction, and with them the
cursors fit. The theorems without this premise are about an editor without
the four ways to undo and redo.

The premises are the code's own hazards, and none is there for the proof alone:

| Premise | Without it | In `CTextEditor.cpp` |
|---|---|---|
| `LinesGoDownWhole`: no selection ends at a line's start when MoveDownCurrentLines is pressed | that end follows the line below, out of the text | 1482 |
| `VisibleLineCount >= 2` | PageUp moves down, past the last line | 2058 |
| `UndoRestoresText`, or no undo and redo | cursors are put back into a text they need not fit | 1909, 591 |
| no keys while the button is down, for `DragsMoveOneCursor` and `CursorsStayApartWithUndo` | a key moves any cursor in the middle of a drag | 1869 |
| `FewCursors`, for the two theorems about `CursorsApart`: two cursors at most when one selects | merging leaves one of three inside another | 2563 |
| no release outside the window, for the same two | nothing sorts the cursors after the drag | 2241 |
| the cases of `Asserted`, in `AssertionsHold`: when a command reads every cursor's selection (cut, and paste or typing over a selection), all select or none does, and no two selections overlap | `GetText` is asked for a stretch that is empty or already gone | 275, 283, 329, 1020 |
| ... : the selection AddCursorForNextOccurrence looks for holds a glyph | a search for nothing | 1226 |
| ... : no RemoveCurrentLines on the only line when it is empty, or in a drag | a stretch that is empty, or lines removed twice | 1569, 1604 |
| no redo, no tool-bar edit and no typing, for `CursorsStayApartWithUndo` | cursors are put back that were never merged | 615, 645 |

`DragsMoveOneCursor` needs `HoldsNewest` besides: a press leaves the newest cursor
the last of them, and no step of a drag before the release changes their number or
order.

`CursorsApart` says nothing of the steps between two frames. It follows from
`InOrderUnlessChanged`: cursors not marked as changed are in order and apart, unless
a selection is being dragged, and no mark waits when the keys are served. That is
inductive because every command leaves the cursors as they were, moves them all by
the same number of lines, or sets the mark (`Carried`, a conjunct of each command's
`Outcome`); because a press and a drag set it; and because BeginRender and the
release sort and merge (`SortingSetsApart`, from the sort's order and one pass of
the merge). An undo sets no mark, so with it `FoundInOrder` is needed besides: the
cursors that each record brings back were in order when its command was pressed.

`FailsOnlyUnasserted` follows from `Sane` and one more conjunct of each command's
`Outcome`: the work it ends with has not failed (`Smooth`). The movements, the
indentation, the comments, undo and the commands that ask a cursor whether it
selects have that without a premise. The others need theirs, and the work between
their first cursor and their last: selections are deleted from the last cursor
up, which leaves the text and the cursors above untouched (`Untouched`), so that
the next one still finds what it selects (`DeleteTogetherWork`); RemoveCurrentLines
goes the same way, one line after the other (`Cleared`, `RemoveEachLineGoesWell`).
What is read there is not empty because the offset of a glyph rises with its
column (`ColumnsRise`). `cutassert` shows that the first of the cases of
`Asserted` is one the code does not rule out by itself. Where all three are met,
`NoAssertFails` follows (the theorem's last conjunct).

`CharactersWhole` follows from `Sane` alone. The code cuts a line at indices that it
gets from columns, or by stepping over characters; both stop where a character
starts or at the line's end (`StopsAreCuts`), and the parts of a line cut there are
whole, as is what is put together from them. It is a conjunct of `Sane` because the
walks need it: behind half a character, the next index is past the end of the line.

`TypeOK` asks for more than `Sane`: the bookkeeping of colours is in shape (a mark for
each line, a range of lines), and between two steps no operation is noted that is
in no record. The first follows the lines through every change. The second is in
each command's `Outcome` (`Written`): a command either notes nothing
(`MovementsKeepNotes`, `SelectingKeepsNotes`) or ends by writing its record.
`Typing` is `Sane` with both. It leaves undo and redo out, because what they note and
colour on their way back is not followed by the proofs.

Loops. The code's loops over cursors, lines and glyphs are functions of the number
of the pass. The library's induction rules take an operator as a parameter,
which no installed prover can instantiate, so each loop is proved on its own, in
one form: the set of the numbers up to which such a function exists and all such
functions lead to a sound work holds 0 and every successor, hence every number
(`SetInduction`, from the well-foundedness of the naturals). `Upward`, which lists
the numbers of a set in order, is defined by rank; that each rank is taken is an
induction of the same form.

The lemmas on colouring. `ColorizeCovers` and `ColorizeInternalKeeps` compare the
range before and after; they make the range sound for any number of lines, so that
a line can be left behind only by a change nobody asks colours for: that part,
command by command, is `ColoursFollowText`.

The argument for undoing one operation. Redo and Undo do with an operation's text
what `InsertTextAt` and `DeleteRange` do, by coordinates noted before. `Without`
says what a text is when the glyphs from one offset to another are left out of it,
counted over all lines with one for each line break; `RangeDeleted` shows that
`DeleteRange` leaves just that. Putting back goes one glyph or one break at a time:
before each of them the lines are the text without what is still to come, after
it they are the text without one less (`PutBack`, `GlyphPutBack`, `BreakPutBack`);
what the next one is, is told by its offset in the joined text (`Lies`). The other
theorem reads the same way backwards (`PutIn`). The premises are the ones the code
needs: both ends at the edge of a whole character (`Edges`; inside a tab or behind the
end of a line a coordinate names no place in the text), no line break kept as a
glyph inside a line (`Plain`; the code never stores one), and no inserted text whose
last byte begins a character, since the coordinate where it ended would then name a
place inside it.

The argument for brackets. The code counts along its way; the reference keeps a
stack. What they share is the depth of the text in brackets of the kind after
each glyph (`Depths`). The match of an open bracket is the first glyph after it at
which the depth is as it was before it (`Match`). The code's counter is a
difference of two depths, it moves by one at most, and so it is 0 first at the
match (`FindsBack`, `FindsOn`). The reference's stack holds exactly the brackets
not closed so far (`Pending`), each one deeper than the one under it, and its
pairs are the matches so far (`PairsAreMatches`, by induction on the text).

The argument for comments. What the scan holds after a glyph is told by the text
up to it (`Found`): the string flag is the parity of the quotes, except after the
first of two quotes inside a string, when it is ahead of it by one glyph; the
flags of the two kinds of comment say that one is open (`InSingleLineComment`,
`CommentOpen`); and a byte is left to be passed over exactly behind a lead byte. Each
glyph keeps that, by the case it is of: a line break, the rest of a character, an
escaped glyph, one in a string, one outside (`ScanFits`). What has been flagged so far
is told glyph by glyph, and what the scan has not come to still has its earlier
flags, so that the theorem holds for any of them. A sign's two glyphs are on
the same side of a string's border, since neither is a quote, so the scan, which
finds an end sign at its second glyph, asks the right question of it; and neither
is the rest of a character, so it is not passed over. The premise `PlainStrings` is the
reference's own limit and no more; whole characters are what the editor keeps
(`CharactersStayWhole`).

Only model-checked:

- `TextEditor.TypeOK` with undo and redo: without them it is `EditorKeepsShape`.
- `UndoRestoresText`, `UndoInvertsCommand`, `PastePutsBackCut`: that the operations
  noted by a command, played backwards, give back the text. For one operation that
  is proved (`DeletionIsUndone`, `InsertionIsUndone`); for a command with several
  cursors one would have to show too that the places its operations note meet
  those premises in the texts between them.
- `ColoursFollowText` and `ScanFollowsText`, command by command.
- All liveness, since fairness and ENABLED are beyond the prover.

## Findings

- `disconnected`: Disconnect does not wait for a connect under way and writes its
  status last. A worker that stores `IsConnected` and reports "Connected
  successfully!" between Disconnect's store of FALSE and its status has the report
  overwritten: "Disconnected from database." stays on the status line of a
  connected manager.
- `cutassert`: Cut, with one cursor that selects and one that does not, fails
  the assertion `aStart < aEnd` of `GetText`; Delete skips such a cursor.
- `already`: "Already connected." can be said with no client at all, because
  Disconnect does not wait for a connect under way, whose late store then sets
  `IsConnected`.

## Plan

The order of the project was: the manager and its console; the pane, the logo
and the singleton; the text editor with its undo; then its colours and marks; and
the proofs along with them. Of what could still be added:

1. *Text editor.* Selections with the line commands under the premise that
   holds for them, three cursors on the merge alone.
2. *Colours.* The premise of `ColoursFollowText` can be weakened only after the
   code's three cases are mended: requests would have to be moved with the lines.
   That of `ScanFollowsText` likewise: the line commands would have to ask for a scan.
3. *Proofs.* For the editor: `TypeOK` with undo and redo; from the inverses of single operations to
   those of whole commands.

## Not modelled

- *Dear ImGui, libmariadb, OpenSSL, boost and the font tables* are vendored or
  generated, and are nearly all of the lines of the repository: of the code
  the program adds to them, some 7700 lines, the modules stand for about 2900;
  the rest is mostly drawing and tables.
- *DBGui widgets* (`DBGUI.cpp`): drawing, with animation state that nothing else
  reads. The drag button in `DBGUI.hpp` has state of its own (the active button,
  an offset) but is a template that nothing in the program instantiates.
- *Language definitions* other than SQL, and their tokenizers: the window sets
  SQL once, which has regexes and no tokenizer. The colour a regex gives a
  token is a conversion with no state.
- *The comment scan's preprocessor flag* (`m_bPreprocessor`): what follows a `#`
  at the start of a line is flagged, beside the comments and without an effect on
  them.
- *Values of a result* (`objectForColumnIndex:`): formatting of numbers, dates
  and bytes. A fetch error that truncates a result (`next:`) is a hazard
  without a property, since a result is one value here.
- *Application shell*: window closing and termination, touch and key events
  handed to ImGui.
- *Drawing and layout*, and the `extra` stub that no target builds.
