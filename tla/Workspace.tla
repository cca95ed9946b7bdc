----------------------------- MODULE Workspace ------------------------------
(***************************************************************************)
(* The window of an open vault (src/ui/main_window.cc with its detail and   *)
(* editor panels, and Application's CSV import): the user's operations on   *)
(* entries and categories, while a synchronisation may run underneath.      *)
(*                                                                         *)
(* The window works on copies: the list of the section it shows, the entry  *)
(* in the detail panel, the categories it last loaded, and what a dialog or *)
(* the editor took when it was opened. A dialog runs an event loop, in      *)
(* which a synchronisation reads, merges and uploads; the tables have       *)
(* changed when the dialog returns. SyncFinished reloads the window, an     *)
(* intermediate step does not.                                              *)
(*                                                                         *)
(* Row ids are never used twice (AUTOINCREMENT): who holds the id of a row  *)
(* that was removed finds nothing any more, not even when a later merge     *)
(* inserts the uuid again. Such an id is dropped from what holds it.        *)
(***************************************************************************)
EXTENDS VaultMerge

CONSTANTS
  MaxClock,    \* bound: this device's clock
  MaxActs,     \* bound: what the user does
  MaxOthers,   \* bound: changes other devices make in the backup
  MaxTries     \* max_retries of PerformSync

ASSUME BoundsAssumption ==
  /\ MaxStamp \in Nat \ {0} /\ MaxClock \in 1..MaxStamp
  /\ MaxActs \in Nat /\ MaxOthers \in Nat /\ MaxTries \in Nat \ {0}

\* A vault has finitely many categories; what is no entry has no entry's id.
ASSUME IdsAssumption == IsFiniteSet(Category) /\ Entry \cap {"none", "new", "dead"} = {}

VARIABLES
  now,      \* this device's clock
  db,       \* its tables
  cloud,    \* the backup
  view,     \* MainWindow: what it shows and has loaded
  editor,   \* EditorPanel and editor_entry_id_
  dialog,   \* the dialog or menu that is open, with what it took
  sync,     \* the run of SyncManager
  acts, others

bounds == <<acts, others>>
vars == <<now, db, cloud, view, editor, dialog, sync, bounds>>

Fixed == {"all", "favorites", Uncategorized, "trash"}
NoDetail == [id |-> "none"]
NoDialog == [kind |-> "none", ids |-> {}]
Shut(cat) == [open |-> FALSE, id |-> "new", cat |-> cat]
Nothing == [rows |-> [e \in Entry |-> None], marks |-> [e \in Entry |-> 0], cats |-> [c \in Category |-> None]]
Idle == [phase |-> "idle", tries |-> 0, snap |-> Nothing, payload |-> Nothing, moved |-> FALSE]

-----------------------------------------------------------------------------
(* What the window shows.                                                   *)

Listed(s, section) == [e \in InSection(s, section) |-> s.rows[e]]
Known(s) == [c \in LiveCats(s) |-> s.cats[c]]

MutantRefreshPasswordList(v, s) == [v EXCEPT !.list = Listed(s, v.section)]

\* The detail stays while its entry is on the section's side of the trash.
RefreshPasswordList(v, s) ==
  [v EXCEPT
     !.list = Listed(s, v.section),
     !.detail = IF @.id \in Entry /\ s.rows[@.id] # None /\ s.rows[@.id].del = (v.section = "trash")
                THEN [id |-> @.id, row |-> s.rows[@.id]] ELSE NoDetail]

\* RefreshSectionList goes back to all entries when neither list has a current
\* item; the categories' still has the one of the last refresh.
Reload(v, s) ==
  LET section == IF v.section \in Fixed \/ v.current THEN v.section ELSE "all"
  IN  RefreshPasswordList([v EXCEPT !.section = section, !.known = Known(s), !.behind = FALSE,
                                    !.current = section \in LiveCats(s)], s)

Offered(v) == DOMAIN v.known \cup {Uncategorized}

MutantFillCategoryCombo(ed, v) == ed
MutantEmptyCombo(ed, v) == IF ed.cat \in Offered(v) THEN ed ELSE [ed EXCEPT !.cat = "none"]

\* The combo keeps its category while there is one of that id.
FillCategoryCombo(ed, v) == IF ed.cat \in Offered(v) THEN ed ELSE [ed EXCEPT !.cat = Uncategorized]

\* Reload with the tables s, from the window v and the editor ed.
Shows(s, v, ed) ==
  /\ view' = Reload(v, s)
  /\ editor' = FillCategoryCombo(ed, view')

\* The window as it starts, with the section of all entries, or after a click
\* on another one.
Loaded(s, section) ==
  [section |-> section, list |-> Listed(s, section), detail |-> NoDetail, known |-> Known(s),
   current |-> section \in LiveCats(s), behind |-> FALSE]

FirstRow(x, c, del) == [text |-> x, cat |-> c, fav |-> FALSE, del |-> del, stamp |-> 1]
FirstCat(n) == [name |-> n, order |-> 0, created |-> 1, del |-> FALSE, stamp |-> 1]

\* One category with an entry in it, another entry in the trash or none ...
FirstTables(e, c, n, x) ==
  LET one == [Nothing EXCEPT !.rows[e] = FirstRow(x, c, FALSE), !.cats[c] = FirstCat(n)]
  IN  {one} \cup {[one EXCEPT !.rows[f] = FirstRow(x, c, TRUE)] : f \in Entry \ {e}}

\* ... and a backup that agrees.
Init ==
  /\ now = 1
  /\ \E e \in Entry, c \in Category, n \in Name, x \in Text :
       /\ e = CHOOSE z \in Entry : TRUE
       /\ c = CHOOSE z \in Category : TRUE
       /\ n = CHOOSE z \in Name : TRUE
       /\ x = CHOOSE z \in Text : TRUE
       /\ db \in FirstTables(e, c, n, x)
  /\ cloud = db
  /\ \E section \in Fixed \cup LiveCats(db) : view = Loaded(db, section)
  /\ editor = Shut(Uncategorized)
  /\ dialog = NoDialog /\ sync = Idle
  /\ acts = MaxActs /\ others = MaxOthers

\* A click, while no dialog is open.
Acts == acts > 0 /\ acts' = acts - 1
Clickable == dialog = NoDialog /\ Acts

\* The entries there are: the id of a row that was removed finds nothing any
\* more, though the list may show the row until the window is loaded.
Exists == {e \in Entry : db.rows[e] # None}
Forgotten(s) == {e \in Entry : db.rows[e] # None /\ s.rows[e] = None}
EditorWithout(E) == IF editor.id \in E THEN [editor EXCEPT !.id = "dead"] ELSE editor
DialogWithout(E) == [dialog EXCEPT !.ids = @ \ E]

-----------------------------------------------------------------------------
(* Looking around.                                                          *)

\* OnSectionSelectionChanged and OnCategorySelectionChanged
SelectSection(section) ==
  /\ Clickable /\ section # view.section
  /\ section \in Fixed \cup DOMAIN view.known
  /\ view' = RefreshPasswordList(
       [view EXCEPT !.section = section, !.detail = NoDetail,
                    !.current = @ \/ section \in Category], db)
  /\ UNCHANGED <<now, db, cloud, editor, dialog, sync, others>>

\* OnPasswordSelectionChanged: one entry of the list, or none or several.
SelectEntry ==
  /\ Clickable
  /\ view' \in {[view EXCEPT !.detail = d] :
                  d \in {NoDetail} \cup {[id |-> e, row |-> view.list[e]] : e \in DOMAIN view.list}}
  /\ UNCHANGED <<now, db, cloud, editor, dialog, sync, others>>

-----------------------------------------------------------------------------
(* Changing entries.                                                        *)

\* The user's change makes the tables s; MarkDirty and Reload follow.
Saves(s, v, ed) ==
  /\ db' = s
  /\ Shows(s, v, ed)
  /\ UNCHANGED <<now, cloud, sync, others>>

\* The entries a button can be about: cards of the list, or the detail's.
Reachable == DOMAIN view.list \cup ({view.detail.id} \cap Entry)
Stampable(e) == db.rows[e].stamp < MaxStamp

\* OnFavoriteToggleRequested: the copies are patched; only the section of the
\* favourites is loaded again.
Patched(e, fav) ==
  [view EXCEPT !.list = [f \in DOMAIN @ |-> IF f = e THEN [@[f] EXCEPT !.fav = fav] ELSE @[f]],
               !.detail = IF @.id = e THEN [@ EXCEPT !.row.fav = fav] ELSE @]

\* A card toggles what the table has, the detail's button what it shows.
ToggleFavorite(e) ==
  /\ Clickable /\ e \in Reachable \cap Live(db) /\ Stampable(e)
  /\ \E fav \in BOOLEAN :
       /\ fav = ~db.rows[e].fav \/ (view.detail.id = e /\ fav = ~view.detail.row.fav)
       /\ IF fav = db.rows[e].fav
          THEN view' = Patched(e, fav) /\ UNCHANGED <<db, editor>>
          ELSE /\ db' = SetFavorite(db, e, fav, now)
               /\ IF view.section = "favorites" THEN Shows(db', Patched(e, fav), editor)
                                                ELSE view' = Patched(e, fav) /\ UNCHANGED editor
  /\ UNCHANGED <<now, cloud, dialog, sync, others>>

OpenDialog(d) ==
  /\ Clickable
  /\ dialog' = d
  /\ UNCHANGED <<now, db, cloud, view, editor, sync, others>>

\* Declined, or accepted when the key is gone or there is nothing to do.
CloseDialog ==
  /\ dialog # NoDialog
  /\ dialog' = NoDialog
  /\ UNCHANGED <<now, db, cloud, view, editor, sync, bounds>>

Accepts(kind) == Acts /\ dialog.kind = kind /\ dialog' = NoDialog

\* PopulateCategoryMenu
OpenCategoryMenu ==
  \E ids \in SUBSET Reachable \ {{}} :
    /\ view.section # "trash"
    /\ OpenDialog([kind |-> "category", ids |-> ids \cap Exists, rows |-> Cardinality(ids), offered |-> Offered(view)])

\* ChangeCategories: one transaction, given up when one of the entries has gone.
\* The detail is left when its entry has left the list.
ChangeCategories ==
  /\ Accepts("category")
  /\ \E c \in dialog.offered \cap (LiveCats(db) \cup {Uncategorized}) :
       LET moved == {e \in dialog.ids : db.rows[e].cat # c}
           s == UpdateCategoryOf(db, moved, c, now)
           v == Reload(view, s)
       IN  /\ Cardinality(dialog.ids) = dialog.rows    \* every entry is there still
           /\ dialog.ids \subseteq Live(db) /\ moved # {}
           /\ \A e \in moved : Stampable(e)
           /\ Saves(s, [view EXCEPT !.detail = IF @.id \in DOMAIN v.list THEN @ ELSE NoDetail], editor)

-----------------------------------------------------------------------------
(* The editor.                                                              *)

OpenCreate ==
  /\ Clickable
  /\ editor' = [open |-> TRUE, id |-> "new", cat |-> Uncategorized]
  /\ UNCHANGED <<now, db, cloud, view, dialog, sync, others>>

\* OpenEditDialog: an entry whose category is not offered keeps what the combo
\* showed before.
OpenEdit(e) ==
  /\ Clickable /\ e \in Reachable \cap Live(db)
  /\ LET filled == FillCategoryCombo(editor, view)
     IN editor' = [open |-> TRUE, id |-> e,
                   cat |-> IF db.rows[e].cat \in Offered(view) THEN db.rows[e].cat ELSE filled.cat]
  /\ UNCHANGED <<now, db, cloud, view, dialog, sync, others>>

ChooseCategory(c) ==
  /\ Clickable /\ editor.open /\ c \in Offered(view) \ {editor.cat}
  /\ editor' = [editor EXCEPT !.cat = c]
  /\ UNCHANGED <<now, db, cloud, view, dialog, sync, others>>

CancelEditor ==
  /\ dialog = NoDialog /\ editor.open
  /\ editor' = Shut(editor.cat)
  /\ UNCHANGED <<now, db, cloud, view, dialog, sync, bounds>>

\* A uuid nobody has had.
Fresh(e) ==
  \A s \in {db, cloud, sync.snap, sync.payload} : s.rows[e] = None /\ s.marks[e] = 0

SaveNew(text) ==
  /\ Clickable /\ editor.open /\ editor.id = "new"
  /\ \E e \in Entry :
       /\ Fresh(e)
       /\ Saves(Insert(db, e, [text |-> text, cat |-> editor.cat, fav |-> FALSE, del |-> FALSE, stamp |-> now]),
                view, Shut(editor.cat))
  /\ UNCHANGED dialog

MutantStampOfEditor(e) == NextStamp(IF e \in DOMAIN view.list THEN view.list[e] ELSE db.rows[e], now)

\* The stamp is of the row as it is now, not of the one the editor opened.
StampOfEditor(e) == NextStamp(db.rows[e], now)

\* OnEditorSaveRequested for an entry that is still live; it keeps its star.
\* Saved without a change the editor just closes.
SaveEdited(text) ==
  /\ Clickable /\ editor.open /\ editor.id \in Live(db) /\ Stampable(editor.id)
  /\ LET e == editor.id IN
     IF text = db.rows[e].text /\ editor.cat = db.rows[e].cat
     THEN /\ Shows(db, view, Shut(editor.cat))
          /\ UNCHANGED <<now, db, cloud, sync, others>>
     ELSE Saves(Update(db, e, [db.rows[e] EXCEPT !.text = text, !.cat = editor.cat, !.stamp = StampOfEditor(e)]),
                view, Shut(editor.cat))
  /\ UNCHANGED dialog

-----------------------------------------------------------------------------
(* Categories.                                                              *)

OpenCategoryDialog ==
  \/ OpenDialog([kind |-> "add", ids |-> {}])
  \/ \E c \in DOMAIN view.known \cap LiveCats(db) :
       \/ OpenDialog([kind |-> "rename", ids |-> {}, cat |-> c])
       \/ OpenDialog([kind |-> "deleteCategory", ids |-> {}, cat |-> c, stamp |-> db.cats[c].stamp])

Taken(n, C) == \E c \in C : view.known[c].name = n

UnusedCategory(c) == \A s \in {db, cloud, sync.snap, sync.payload} : s.cats[c] = None

\* OnAddCategory: the names and the order are those the window has loaded.
AddCategory(n) ==
  /\ Accepts("add")
  /\ ~Taken(n, DOMAIN view.known)
  /\ \E c \in Category :
       /\ UnusedCategory(c)
       /\ \E order \in 0..Cardinality(Category) :
            /\ \A k \in DOMAIN view.known : view.known[k].order < order
            /\ order = 0 \/ \E k \in DOMAIN view.known : view.known[k].order + 1 = order
            /\ Saves(InsertCategory(db, c, [name |-> n, order |-> order, created |-> now,
                                            del |-> FALSE, stamp |-> now]),
                     [view EXCEPT !.section = c], editor)

\* UpdateCategoryName
RenameCategory(n) ==
  /\ Accepts("rename")
  /\ LET c == dialog.cat IN
     /\ c \in LiveCats(db) /\ db.cats[c].name # n /\ db.cats[c].stamp < MaxStamp
     /\ ~Taken(n, DOMAIN view.known \ {c})
     /\ Saves(UpdateCategory(db, c, [db.cats[c] EXCEPT !.name = n, !.stamp = NextStamp(db.cats[c], now)]), view, editor)

\* OnDeleteCategory: one transaction; the category's stamp is made from what was
\* read before the dialog.
DeleteCategory ==
  /\ Accepts("deleteCategory") /\ dialog.stamp < MaxStamp
  /\ LET c == dialog.cat IN
     Saves(LogicalDelete(LogicalDeleteByCategory(db, c, now), c, NextStamp(dialog, now)),
           [view EXCEPT !.section = IF @ = c THEN "all" ELSE @], editor)

\* PersistCategoryOrder after a drag: only moved rows are stamped, from the
\* categories the window has loaded.
PersistCategoryOrder ==
  /\ Clickable
  /\ \E at \in [DOMAIN view.known -> 0..Cardinality(DOMAIN view.known) - 1] :
       LET moved == {c \in DOMAIN at : view.known[c].order # at[c]}
       IN  /\ \A c, d \in DOMAIN at : at[c] = at[d] => c = d
           /\ moved # {} /\ \A c \in moved : view.known[c].stamp < MaxStamp
           /\ Saves(UpdateSortOrder(db, moved, at, [c \in moved |-> NextStamp(view.known[c], now)]), view, editor)
  /\ UNCHANGED dialog

-----------------------------------------------------------------------------
(* The trash.                                                               *)

\* DeleteEntries outside the trash, PermanentlyDeleteEntries and OnEmptyTrash in
\* it: the dialog takes the entries that are in the trash by then.
OpenDeleteDialog ==
  \/ \E ids \in SUBSET Reachable \ {{}} :
       view.section # "trash" /\ OpenDialog([kind |-> "trash", ids |-> ids \cap Exists])
  \/ \E ids \in SUBSET Reachable \cup {Trash(db)} :
       view.section = "trash" /\ ids \cap Trash(db) # {}
         /\ OpenDialog([kind |-> "purge", ids |-> ids \cap Trash(db)])

MoveToTrash ==
  /\ Accepts("trash")
  /\ Saves(BulkLogicalDelete(db, dialog.ids, now), view, editor)

RestoreEntries(ids) ==
  /\ Clickable /\ view.section = "trash"
  /\ ids \subseteq Reachable /\ ids # {}
  /\ Saves(BulkRestore(db, ids, now), view, editor)
  /\ UNCHANGED dialog

PermanentlyDeleteEntries ==
  /\ Accepts("purge")
  /\ LET s == BulkPermanentlyDelete(db, dialog.ids, now)
     IN  Saves(s, view, EditorWithout(Forgotten(s)))

-----------------------------------------------------------------------------
(* CSV import.                                                              *)

\* Validate, before the preview: each row names a live entry by its title, or a
\* new one. The rows are one of each at most here and share a category, one that
\* exists by that name or one to be created.
OpenImport ==
  \E ids \in {{e} : e \in Live(db)} \cup {{}}, new \in BOOLEAN, n \in Name :
    /\ ids # {} \/ new
    /\ OpenDialog([kind |-> "import", ids |-> ids, rows |-> Cardinality(ids), new |-> new, name |-> n,
                   create |-> \A c \in LiveCats(db) : db.cats[c].name # n])

\* A category of that name now, if any.
Named(s, n) == {c \in LiveCats(s) : s.cats[c].name = n}

WithNewCategory(s, c) ==
  InsertCategory(s, c, [name |-> dialog.name, order |-> Cardinality(LiveCats(s)), created |-> now,
                        del |-> FALSE, stamp |-> now])

\* Apply creates the category unless there is one by now.
ImportTables ==
  IF dialog.create /\ Named(db, dialog.name) = {}
  THEN {WithNewCategory(db, c) : c \in {d \in Category : UnusedCategory(d)}}
  ELSE {db}

\* ... and then the rows: an existing one is overwritten even when it has been
\* moved to the trash meanwhile.
Overwritten(s, ids, new, x, cat) ==
  [s EXCEPT !.rows = [e \in Entry |->
     IF e \in ids THEN [s.rows[e] EXCEPT !.text = x, !.cat = cat, !.stamp = now]
     ELSE IF e \in new THEN [text |-> x, cat |-> cat, fav |-> FALSE, del |-> FALSE, stamp |-> now]
     ELSE s.rows[e]]]

Imported(s, ids, new) ==
  LET target == IF Named(s, dialog.name) = {} THEN {Uncategorized} ELSE Named(s, dialog.name)
  IN  {Overwritten(s, ids, new, x, cat) : x \in Text, cat \in target}

Import ==
  /\ Accepts("import")
  /\ Cardinality(dialog.ids) = dialog.rows      \* every row is there still
  /\ \E t \in ImportTables :
     \E new \in IF dialog.new THEN {{e} : e \in {f \in Entry : Fresh(f)}} ELSE {{}} :
     \E s \in Imported(t, dialog.ids, new) : Saves(s, view, editor)

\* Apply fails at a row that is gone, or because the disk does: what was written
\* before stays, and nobody reloads the window or marks the scheduler dirty.
ImportFails ==
  /\ Accepts("import")
  /\ \E t \in ImportTables \cup {db}, done \in SUBSET dialog.ids :
     \E s \in Imported(t, done, {}) : db' = s
  /\ view' = [view EXCEPT !.behind = TRUE]
  /\ UNCHANGED <<now, cloud, editor, sync, others>>

-----------------------------------------------------------------------------
(* The synchronisation underneath.                                          *)

StartSync ==
  /\ sync.phase = "idle"
  /\ sync' = [Idle EXCEPT !.phase = "read", !.tries = 1, !.snap = db]
  /\ UNCHANGED <<now, db, cloud, view, editor, dialog, bounds>>

\* SyncFinished: the button shows the outcome, the window is loaded.
Finishes(s, ed) ==
  /\ sync' = Idle
  /\ Shows(s, view, ed)

\* The backup is here: everything up to the upload happens at once.
ReadReturns ==
  /\ sync.phase = "read"
  /\ LET merged == WithEntries(WithCategories(db, sync.snap, cloud), sync.snap, cloud) IN
     \E w \in Winners(merged) :
       LET s == Deduplicated(merged, w, now) IN
       /\ db' = s
       /\ dialog' = DialogWithout(Forgotten(s))
       /\ IF NeedUpload(db, sync.snap, cloud, s)
          THEN /\ sync' = [sync EXCEPT !.phase = "upload", !.snap = Nothing, !.payload = s]
               /\ view' = [view EXCEPT !.behind = TRUE]
               /\ editor' = EditorWithout(Forgotten(s))
          ELSE Finishes(s, EditorWithout(Forgotten(s)))
  /\ UNCHANGED <<now, cloud, bounds>>

\* No backup could be read, or a write fails after the categories' (or before).
ReadFails ==
  /\ sync.phase = "read"
  /\ db' \in {db, WithCategories(db, sync.snap, cloud)}
  /\ Finishes(db', editor)
  /\ UNCHANGED <<now, cloud, dialog, bounds>>

UploadReturns ==
  /\ sync.phase = "upload" /\ ~sync.moved
  /\ cloud' = sync.payload
  /\ Finishes(db, editor)
  /\ UNCHANGED <<now, db, dialog, bounds>>

\* The next attempt takes a new snapshot; the window is not loaded in between.
VersionMismatch ==
  /\ sync.phase = "upload" /\ sync.moved
  /\ IF sync.tries = MaxTries THEN Finishes(db, editor)
     ELSE /\ sync' = [Idle EXCEPT !.phase = "read", !.tries = sync.tries + 1, !.snap = db]
          /\ UNCHANGED <<view, editor>>
  /\ UNCHANGED <<now, db, cloud, dialog, bounds>>

\* The server may have written nevertheless.
UploadFails ==
  /\ sync.phase = "upload"
  /\ \/ UNCHANGED cloud
     \/ ~sync.moved /\ cloud' = sync.payload
  /\ Finishes(db, editor)
  /\ UNCHANGED <<now, db, dialog, bounds>>

Tick ==
  /\ now < MaxClock
  /\ now' = now + 1
  /\ UNCHANGED <<db, cloud, view, editor, dialog, sync, bounds>>

-----------------------------------------------------------------------------
(* Other devices: each changes one thing in the backup, with a stamp above   *)
(* the one it replaces that this device's clock may not have reached.        *)

CloudBecomes(s) ==
  /\ others > 0 /\ others' = others - 1
  /\ cloud' = s
  /\ sync' = [sync EXCEPT !.moved = sync.phase = "upload"]
  /\ UNCHANGED <<now, db, view, editor, dialog, acts>>

OtherChangesEntry ==
  \E e \in Entry, stamp \in 1..MaxStamp - 1 :
    /\ stamp > Item(cloud, e).stamp
    /\ \/ \E x \in Text :
            /\ Fresh(e)
            /\ CloudBecomes([cloud EXCEPT !.rows[e] = [text |-> x, cat |-> Uncategorized, fav |-> FALSE,
                                                       del |-> FALSE, stamp |-> stamp]])
       \/ /\ cloud.rows[e] # None
          /\ \E r \in {[cloud.rows[e] EXCEPT !.text = x] : x \in Text}
                   \cup {[cloud.rows[e] EXCEPT !.cat = c] : c \in LiveCats(cloud) \cup {Uncategorized}}
                   \cup {[cloud.rows[e] EXCEPT !.del = del] : del \in BOOLEAN} :
               CloudBecomes([cloud EXCEPT !.rows[e] = [r EXCEPT !.stamp = stamp]])
       \/ e \in Trash(cloud) /\ CloudBecomes(ApplyDeletionMarker(cloud, e, stamp))

OtherChangesCategory ==
  \E c \in Category, stamp \in 1..MaxStamp - 1 :
    /\ stamp > cloud.cats[c].stamp
    /\ \/ /\ UnusedCategory(c)
          /\ \E n \in Name : CloudBecomes([cloud EXCEPT !.cats[c] =
               [name |-> n, order |-> Cardinality(LiveCats(cloud)), created |-> stamp, del |-> FALSE, stamp |-> stamp]])
       \/ /\ c \in LiveCats(cloud)
          /\ \E n \in Name : CloudBecomes([cloud EXCEPT !.cats[c].name = n, !.cats[c].stamp = stamp])
       \/ /\ c \in LiveCats(cloud)
          /\ \A e \in InSection(cloud, c) : cloud.rows[e].stamp < stamp
          /\ CloudBecomes(LogicalDelete(LogicalDeleteByCategory(cloud, c, stamp), c, stamp))

-----------------------------------------------------------------------------
Browses ==
  \/ \E section \in Fixed \cup Category : SelectSection(section)
  \/ SelectEntry \/ OpenCreate \/ CancelEditor \/ CloseDialog
  \/ \E e \in Entry : OpenEdit(e)
  \/ \E c \in Category \cup {Uncategorized} : ChooseCategory(c)
  \/ OpenCategoryMenu \/ OpenCategoryDialog \/ OpenDeleteDialog \/ OpenImport

Changes ==
  \/ \E e \in Entry : ToggleFavorite(e)
  \/ \E text \in Text : SaveNew(text) \/ SaveEdited(text)
  \/ \E n \in Name : AddCategory(n) \/ RenameCategory(n)
  \/ \E ids \in SUBSET Entry : RestoreEntries(ids)
  \/ ChangeCategories \/ DeleteCategory \/ PersistCategoryOrder
  \/ MoveToTrash \/ PermanentlyDeleteEntries \/ Import \/ ImportFails

Synchronises ==
  StartSync \/ ReadReturns \/ ReadFails \/ UploadReturns \/ VersionMismatch \/ UploadFails

Next ==
  \/ Browses \/ Changes \/ Synchronises \/ Tick
  \/ OtherChangesEntry \/ OtherChangesCategory

Spec == Init /\ [][Next]_vars

-----------------------------------------------------------------------------
\* The tables and the backup have their types; the window, the editor and the
\* dialog hold rows, and ids of rows that there are.
TypeOK ==
  /\ now \in 1..MaxClock /\ acts \in 0..MaxActs /\ others \in 0..MaxOthers
  /\ \A s \in {db, cloud, sync.snap, sync.payload} : s \in Store
  /\ dialog.ids \subseteq Exists /\ editor.id \in {"new", "dead"} \cup Exists
  /\ editor.open \in BOOLEAN /\ editor.cat \in Category \cup {Uncategorized}
  /\ view.section \in Fixed \cup Category
  /\ \A e \in DOMAIN view.list : view.list[e] \in Row
  /\ \A c \in DOMAIN view.known : view.known[c] \in Cat
  /\ view.detail # NoDetail => view.detail.id \in Entry /\ view.detail.row \in Row
  /\ sync.phase \in {"idle", "read", "upload"} /\ sync.tries \in 0..MaxTries

\* What an entry looks like on the screen.
Seen(r) == <<r.text, r.cat, r.fav, r.del>>

\* Whatever the user and the synchronisations did: outside the steps that wrote
\* without loading the window (a run that still uploads, a failed import), the
\* list, the detail panel and the categories show what the tables hold, and the
\* detail panel never has a trashed entry among the live ones or the reverse.
ViewIsCurrent ==
  ~view.behind =>
    /\ DOMAIN view.list = InSection(db, view.section)
    /\ \A e \in DOMAIN view.list : Seen(view.list[e]) = Seen(db.rows[e])
    /\ view.known = Known(db)
    /\ view.detail # NoDetail =>
         LET r == db.rows[view.detail.id]
         IN  r # None /\ r.del = (view.section = "trash") /\ Seen(view.detail.row) = Seen(r)

\* An open editor never offers to save into a category that a synchronisation
\* has removed, once the window has loaded what the run wrote.
EditorOffersLive ==
  editor.open /\ ~view.behind => editor.cat \in {Uncategorized} \cup LiveCats(db)

\* A row is removed for good only by accepting the dialog it was listed in,
\* while it still is in the trash and with a marker that covers it, or by a
\* merge whose marker is newer than the row as it is then: not when a run that
\* went on under the dialog restored it, or the user changed it during the read.
ConfirmedOnly ==
  [][\A e \in Entry : db.rows[e] # None /\ db'.rows[e] = None =>
       \/ /\ dialog.kind = "purge" /\ dialog' = NoDialog /\ e \in dialog.ids
          /\ db.rows[e].del /\ db'.marks[e] >= db.rows[e].stamp
       \/ sync.phase = "read" /\ db'.marks[e] > db.rows[e].stamp]_vars

\* The fields and the star of an entry change only for a newer version: the
\* editor's save of a row that was merged over while it was open, the star, and
\* a merge that finds the row changed since its snapshot. (The CSV import stamps
\* with the clock alone, and so does a dedup of the categories that moves the entry
\* in the same step.) A category that is kept gets another name only at a stamp
\* that is no older.
NewerWins ==
  [][/\ \A e \in Entry :
          db.rows[e] # None /\ db'.rows[e] # None
            /\ <<db'.rows[e].text, db'.rows[e].fav>> # <<db.rows[e].text, db.rows[e].fav>> =>
          \/ db'.rows[e].stamp > db.rows[e].stamp
          \/ dialog.kind = "import" /\ dialog' = NoDialog
          \/ /\ sync.phase = "read" /\ db'.rows[e].stamp = now
             /\ Doubled(WithCategories(db, sync.snap, cloud)) # {}
     /\ \A c \in Category :
          c \in LiveCats(db) \cap LiveCats(db') /\ db'.cats[c].name # db.cats[c].name =>
            db'.cats[c].stamp >= db.cats[c].stamp]_vars

\* A run that reports success without an upload leaves nothing out: every
\* category is as new here as in the backup but one made during the download, and
\* so is every entry but those changed during it; the next run is for these.
SaysSynced ==
  [][sync.phase = "read" /\ sync'.phase = "idle" /\ ReadReturns =>
       /\ \A c \in Category :
            \/ db'.cats[c].stamp = cloud.cats[c].stamp
            \/ sync.snap.cats[c] = None /\ cloud.cats[c] = None
       /\ \A e \in Entry :
            \/ Item(db', e).stamp = Item(cloud, e).stamp
            \/ Item(db, e) # Item(sync.snap, e)]_vars
=============================================================================
