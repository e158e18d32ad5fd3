----------------------------- MODULE ScoreHistory -----------------------------
(***************************************************************************)
(* The score tab of the page.  A button appends what the score form holds  *)
(* to a list, which renders all its rows anew on each change and shows one *)
(* page of them; a row is selected by a click; the menu of a row copies it *)
(* to the page's clipboard or removes it, or all selected rows; the menu   *)
(* of the form on the system tab pastes the clipboard.                     *)
(*                                                                         *)
(* An entry is the number of the append that made it: it stands for all    *)
(* fields of a row, which travel together.  A render makes new row objects *)
(* (so the selection is lost), but a menu that is open keeps the row       *)
(* object, and with it the index, of the render it was opened in.          *)
(*                                                                         *)
(* Only what the shipped page configures: RowCount, selectable rows,       *)
(* navigation, no limit of rows, no check for double ones, no service that *)
(* loads the list.                                                         *)
(***************************************************************************)
EXTENDS Naturals, Sequences, SequencesExt

CONSTANTS RowCount,    \* DisplayRows: rows on a page
          MaxAppends   \* bound

ASSUME ListAssumption == RowCount \in Nat \ {0} /\ MaxAppends \in Nat

VARIABLES
    appended,       \* number of appends so far (UpdateCount)
    ServiceData,    \* the entries of the list
    RowItems,       \* its row objects
    CurrentPage,    \* the pagination's page, from 0
    PageCount,      \* its number of pages when last rendered
    menu,           \* the list's menu: index and entry of the row clicked
    pasteMenu,      \* is the menu of the system form open?
    ClipboardData,  \* sysFactory.ClipboardData
    systemForm      \* entry shown by SystemScoreFormlist

list == <<appended, ServiceData, RowItems, CurrentPage, PageCount>>
copy == <<pasteMenu, ClipboardData, systemForm>>
vars == <<list, menu, copy>>

Entry  == 1 .. MaxAppends
NoMenu == [Index |-> 0, entry |-> 0]
Null   == 0
Row    == [Index : Nat, entry : Entry, Selected : BOOLEAN, visible : BOOLEAN]

\* sysList and its sysPagination
EmptyList == appended = 0 /\ ServiceData = <<>> /\ RowItems = <<>>
FirstPage == CurrentPage = 0 /\ PageCount = 0

Init ==
    /\ EmptyList /\ FirstPage
    /\ menu = NoMenu
    /\ pasteMenu = FALSE
    /\ ClipboardData = Null /\ systemForm = Null

-----------------------------------------------------------------------------
(* Rendering. *)

\* The rows of a page, of sysPagination.update.
OnPage(i, page) == i \in page * RowCount .. (page + 1) * RowCount - 1

\* setPageCount
PagesOf(n) == (n + RowCount - 1) \div RowCount

NewRow(e, i) == [Index |-> i, entry |-> e, Selected |-> FALSE, visible |-> FALSE]

ShowPage(rows, page) ==
    [i \in DOMAIN rows |-> [rows[i] EXCEPT !.visible = OnPage(rows[i].Index, page)]]

\* renderPage once something was appended.  Mutant: only the first page of
\* rows gets row objects.
RenderFirst(data) ==
    /\ ServiceData' = data
    /\ RowItems' = ShowPage([i \in {j \in DOMAIN data : j <= RowCount} |->
                                NewRow(data[i], i - 1)], CurrentPage)
    /\ PageCount' = PagesOf(Len(data))
RenderPage(data) ==
    /\ ServiceData' = data
    /\ RowItems' = ShowPage([i \in DOMAIN data |-> NewRow(data[i], i - 1)], CurrentPage)
    /\ PageCount' = PagesOf(Len(data))

-----------------------------------------------------------------------------
(* Clicks on the list. *)

\* ButtonInternal with the action append.
AppendData ==
    /\ appended < MaxAppends
    /\ appended' = appended + 1
    /\ RenderPage(Append(ServiceData, appended + 1))
    /\ UNCHANGED <<CurrentPage, menu, copy>>

\* EventListenerSelect: a left click on a visible row.
Select(i) ==
    /\ RowItems[i].visible
    /\ RowItems' = [RowItems EXCEPT ![i].Selected = ~@]
    /\ UNCHANGED <<appended, ServiceData, CurrentPage, PageCount, menu, copy>>

\* Of sysPagination: the page is set, all rows are shown or hidden, and the
\* buttons are made anew.
NavigateTo(page) ==
    /\ appended > 0
    /\ CurrentPage' = page
    /\ RowItems' = ShowPage(RowItems, page)
    /\ PageCount' = PagesOf(Len(RowItems))
    /\ UNCHANGED <<appended, ServiceData, menu, copy>>

\* Mutant: the last page is not the one before PageCount.
RightUnlimited == CurrentPage + 1
Right == IF CurrentPage + 1 < PageCount THEN CurrentPage + 1 ELSE CurrentPage
Left  == IF CurrentPage > 0 THEN CurrentPage - 1 ELSE CurrentPage

NavigateLeft  == NavigateTo(Left)
NavigateRight == NavigateTo(Right)
NavigateIndex == \E page \in 0 .. PageCount - 1 : NavigateTo(page)

-----------------------------------------------------------------------------
(* The menu of a row.  There is one: a second replaces the first. *)

\* Its items keep the row object.
MenuOf(row) == [Index |-> row.Index, entry |-> row.entry]

OpenMenu(i) ==
    /\ RowItems[i].visible
    /\ menu' = MenuOf(RowItems[i])
    /\ UNCHANGED <<list, copy>>

\* Mutant: the menu stays.
MenuStays == menu' = menu
MenuClosed == menu' = NoMenu

CloseMenu ==
    /\ menu # NoMenu
    /\ menu' = NoMenu
    /\ UNCHANGED <<list, copy>>

\* get-data
CopyRow ==
    /\ menu # NoMenu
    /\ ClipboardData' = menu.entry
    /\ MenuClosed
    /\ UNCHANGED <<list, pasteMenu, systemForm>>

\* Array.splice(i, 1), which leaves an array without an element i as it is.
Splice(data, i) == IF i < Len(data) THEN RemoveAt(data, i + 1) ELSE data

\* removeRow with the index of the row the menu belongs to
RemoveRow ==
    /\ menu # NoMenu
    /\ RenderPage(Splice(ServiceData, menu.Index))
    /\ MenuClosed
    /\ UNCHANGED <<appended, CurrentPage, copy>>

\* removeSelectedRows: the selected rows go from the last up.  Mutant: from the
\* first down.
Drop(row, data)        == IF row.Selected THEN Splice(data, row.Index) ELSE data
SpliceUp(data, rows)   == FoldLeft(LAMBDA d, row : Drop(row, d), data, rows)
SpliceDown(data, rows) == FoldRight(Drop, rows, data)

RemoveSelectedRows ==
    /\ menu # NoMenu
    /\ RenderPage(SpliceDown(ServiceData, RowItems))
    /\ MenuClosed
    /\ UNCHANGED <<appended, CurrentPage, copy>>

-----------------------------------------------------------------------------
(* The menu of the system form. *)

OpenPasteMenu ==
    /\ ~pasteMenu /\ pasteMenu' = TRUE
    /\ UNCHANGED <<list, menu, ClipboardData, systemForm>>

ClosePasteMenu ==
    /\ pasteMenu /\ pasteMenu' = FALSE
    /\ UNCHANGED <<list, menu, ClipboardData, systemForm>>

\* set-data: with nothing copied yet each field throws and is left alone.
SetData == IF ClipboardData = Null THEN systemForm ELSE ClipboardData
Paste ==
    /\ pasteMenu /\ pasteMenu' = FALSE
    /\ systemForm' = SetData
    /\ UNCHANGED <<list, menu, ClipboardData>>

-----------------------------------------------------------------------------
RowAction == \E i \in DOMAIN RowItems : Select(i) \/ OpenMenu(i)

Next ==
    \/ AppendData
    \/ RowAction
    \/ NavigateLeft \/ NavigateRight \/ NavigateIndex
    \/ CloseMenu \/ CopyRow \/ RemoveRow \/ RemoveSelectedRows
    \/ OpenPasteMenu \/ ClosePasteMenu \/ Paste

Spec == Init /\ [][Next]_vars

-----------------------------------------------------------------------------
(* Properties. *)

\* Every variable has its type; each entry of the data has a row object at
\* its place, whose index is the entry's index.
TypeOK ==
    /\ appended \in 0 .. MaxAppends
    /\ ServiceData \in Seq(Entry) /\ RowItems \in Seq(Row)
    /\ Len(RowItems) = Len(ServiceData)
    /\ \A i \in DOMAIN RowItems :
           RowItems[i].entry = ServiceData[i] /\ RowItems[i].Index = i - 1
    /\ CurrentPage \in Nat /\ PageCount \in Nat
    /\ menu \in [Index : Nat, entry : Entry \cup {0}]
    /\ pasteMenu \in BOOLEAN
    /\ ClipboardData \in 0 .. MaxAppends /\ systemForm \in 0 .. MaxAppends

\* The menu of a row acts on an index.  While it is open the list may grow
\* and the pages may turn, and still the entry at that index is the one the
\* user clicked (row objects of an earlier render, sysObjList.js remove).
MenuNamesItsRow ==
    menu # NoMenu => /\ menu.Index < Len(ServiceData)
                     /\ ServiceData[menu.Index + 1] = menu.entry

\* From a page with rows, only a removal leads to a page without any:
\* navigation and appends keep rows in view.
RowInView == \E i \in DOMAIN RowItems : RowItems[i].visible
OnlyRemovalEmptiesPage ==
    [][RowInView /\ ~RowInView' => Len(ServiceData') < Len(ServiceData)]_vars

-----------------------------------------------------------------------------
(* Refinement. *)

\* The list does what EntryList promises: removals by the index of a row, of
\* rows that are rendered anew, paged and hidden, take the very entries the
\* user pointed at or selected, and leave all others in order.
SelectedEntries ==
    {RowItems[i].entry : i \in {j \in DOMAIN RowItems : RowItems[j].Selected}}
List == INSTANCE EntryList WITH
    entries <- ServiceData,
    chosen  <- SelectedEntries,
    target  <- menu.entry
ListSafety == List!Safety
=============================================================================
